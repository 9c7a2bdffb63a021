--------------------------- MODULE MCPublisher ---------------------------
(* Model-checking instances of Publisher, with two claims that comments    *)
(* of publisher.go make and the code does not keep.                        *)
EXTENDS Publisher

(* publisher.go:95, "if the publihser is closed along with no req returned *)
(* from the queue, it means the queue has drained": when the drain did not *)
(* time out, no request published before Close() is left in the queue.     *)
CloseDrainsQueue ==
    closer \notin {"idle", "draining"} /\ ~timedOut =>
        \A r \in Elements(queue) : r > closeMark

(* publisher.go:20, "After close is set to true, subsequent calling        *)
(* Publish will be a no-op": at least, publishFn is never given a request  *)
(* that was published after Close() was called.                            *)
PublishAfterCloseIsNoOp == closed => \A r \in Elements(published) : r <= closeMark

=============================================================================
