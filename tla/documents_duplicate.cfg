\* Three rows of one content, one request beside uploads.
SPECIFICATION DocumentsSpec
CONSTANTS
    Docs = {1, 2, 3}
    Contents = {c1}
    MaxBeside = 1
    Workers = {w1}
    Reviewers = {u1}
    Nobody = Nobody
CHECK_DEADLOCK FALSE
INVARIANT LinkedToOriginal
