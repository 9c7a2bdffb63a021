\* Close() against the comment of publisher.go on a drained queue.
SPECIFICATION Spec
CONSTANTS
    Concurrency = 1
    MaxSize = 2
    MaxRequests = 2
INVARIANTS
    CloseDrainsQueue
CHECK_DEADLOCK FALSE
