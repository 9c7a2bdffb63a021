-------------------------- MODULE MCEmfExporter --------------------------
(* Model-checking instance of EmfExporter. *)
EXTENDS EmfExporter

Resource(name, namespace, events) ==
    [name |-> name, namespace |-> namespace, events |-> events]

(* Nothing; one event of a service with an empty name before a resource    *)
(* that has none; events of two services, one of them without any name.    *)
SomeRequests ==
    {<<>>,
     <<Resource("", NoName, 1), Resource(NoName, "b", 0)>>,
     <<Resource(NoName, NoName, 1), Resource("a", "b", 1)>>}

=============================================================================
