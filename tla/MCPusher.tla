----------------------------- MODULE MCPusher -----------------------------
(* Model-checking instances of Pusher, with a claim a comment of the       *)
(* repository makes that the code does not keep.                           *)
EXTENDS Pusher

Kind4(timestamp, length, start) ==
    [timestamp |-> timestamp, length |-> length, multiLineStart |-> start,
     logGeneratedTime |-> StartTime]

(* Whole events over more than a day, of both sizes; short and too long    *)
(* ones without a timestamp, starting a line or not; ordinary, too old,    *)
(* too new and empty ones.                                                 *)
MixedKinds ==
    {Kind4(StartTime - 2, l, TRUE) : l \in {2, 9}}
        \cup {Kind4(StartTime + 2, 2, TRUE), Kind4(StartTime, 0, FALSE)}
        \cup {Kind4(0, l, b) : l \in {2, 9}, b \in BOOLEAN}
        \cup {Kind4(t, 2, b) : t \in {StartTime, StartTime - MaxAge - 2}, b \in BOOLEAN}

(* One ordinary event. *)
PlainKinds == {Kind4(StartTime, 2, TRUE)}

-----------------------------------------------------------------------------

(* emf_exporter.go:130, "Shutdown stops the exporter": Shutdown waits for  *)
(* processLogEntry of every pusher, so that has to end.                    *)
ShutdownCompletes == shutdown ~> process = "done"

=============================================================================
