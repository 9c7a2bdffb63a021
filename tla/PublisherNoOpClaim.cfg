\* Publish() after Close() against the comment on closed in publisher.go.
SPECIFICATION Spec
CONSTANTS
    Concurrency = 1
    MaxSize = 2
    MaxRequests = 2
INVARIANTS
    PublishAfterCloseIsNoOp
CHECK_DEADLOCK FALSE
