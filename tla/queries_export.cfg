\* One request at a time.
SPECIFICATION QueriesSpec
CONSTANTS
    Queries = {q1}
    Editors = {editor}
    Approvers = {approver}
    Workers = {w1}
    Reviewers = {approver}
    Payloads <- AllPayloads
    Overlapping = {}
    Nobody = Nobody
INVARIANT
    DraftsExcluded
