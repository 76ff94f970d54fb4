\* One row and two requests that overlap.
SPECIFICATION DocumentsSpec
CONSTANTS
    Docs = {1}
    Contents = {c1}
    MaxBeside = 2
    Workers = {w1, w2}
    Reviewers = {u1}
    Nobody = Nobody
PROPERTY ManualIsKept
CHECK_DEADLOCK FALSE
