---------------------------- MODULE LossyFifo ----------------------------
(***************************************************************************)
(* What a publisher of one permit promises: values 1, 2, ... are offered;  *)
(* each delivery is of a value offered, newer than every value delivered   *)
(* before; after a stop nothing is delivered.  Values may be skipped.      *)
(***************************************************************************)
EXTENDS Integers, Sequences

VARIABLES offered, delivered, stopped

vars == <<offered, delivered, stopped>>

Init == offered = 0 /\ delivered = <<>> /\ stopped = FALSE

Offer == offered' = offered + 1 /\ UNCHANGED <<delivered, stopped>>

Deliver ==
    /\ ~stopped
    /\ \E v \in 1..offered :
        /\ \A i \in DOMAIN delivered : delivered[i] < v
        /\ delivered' = Append(delivered, v)
    /\ UNCHANGED <<offered, stopped>>

Stop == ~stopped /\ stopped' = TRUE /\ UNCHANGED <<offered, delivered>>

Next == Offer \/ Deliver \/ Stop

Spec == Init /\ [][Next]_vars

=============================================================================
