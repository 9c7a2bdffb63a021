---------------------------- MODULE PusherPort ----------------------------
(***************************************************************************)
(* What the exporter sees of a pusher: how many log events wait in its     *)
(* logEventChan, and where its processLogEntry is.  Pusher.tla implements  *)
(* it (ImplementsPusherPort); EmfExporter.tla has one for each pusher.     *)
(*                                                                         *)
(* An operator on a port gives the ports one step can make of it.          *)
(***************************************************************************)
EXTENDS Integers

Ports(size) ==
    [queued : 0..size, process : {"running", "closing", "wedged", "done"}]

NewPort == [queued |-> 0, process |-> "running"]

(* Mutant of AfterSend: the send does not wait for room.                   *)
AfterSendUnbounded(port, size) == {[port EXCEPT !.queued = @ + 1]}

(* A caller's send into logEventChan, while there is room. *)
AfterSend(port, size) ==
    {[port EXCEPT !.queued = q] : q \in {port.queued + 1} \cap 0..size}

AfterReceive(port) ==
    {[port EXCEPT !.queued = q] :
        q \in {n \in {port.queued - 1} : port.process = "running" /\ n >= 0}}

(* processLogEntry takes the shutdown signal, or blocks for ever in its    *)
(* send on pushChan, with or without a log event just received.            *)
AfterShutdown(port) ==
    {after \in {[port EXCEPT !.process = "closing"], [port EXCEPT !.process = "wedged"],
                [queued |-> port.queued - 1, process |-> "wedged"]} :
        port.process = "running" /\ after.queued >= 0}

(* The publisher is closed. *)
AfterClose(port) ==
    {after \in {[port EXCEPT !.process = "done"]} : port.process = "closing"}

(* Every step of a pusher and its callers. *)
AfterStep(port, size, shutdown) ==
    AfterSend(port, size) \cup AfterReceive(port) \cup AfterClose(port)
        \cup (IF shutdown THEN AfterShutdown(port) ELSE {})

=============================================================================
