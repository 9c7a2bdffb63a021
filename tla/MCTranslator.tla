--------------------------- MODULE MCTranslator ---------------------------
(* Model-checking instances of Translator, with a claim of a comment that  *)
(* the code does not keep.                                                 *)
EXTENDS Translator

MC(name, kind, labels) == [name |-> name, kind |-> kind, labels |-> labels, library |-> "lib"]

(* Field names, sorted: upper case comes first. *)
SomeNames == <<"OTLib", "a", "b", "m", "n", "s">>

(* Three metrics that write one key, an integer one with two labels or one *)
(* and a double one with a label named as the integer one; an integer one  *)
(* named as a label, with a label OTLib; a summary.                        *)
SomeMetrics ==
    {MC("m", "integer", [a |-> "x", b |-> "y"]), MC("m", "integer", [a |-> "xby"]),
     MC("n", "double", [a |-> "x", b |-> "y", m |-> ""]),
     MC("a", "integer", [a |-> "x", OTLib |-> "y"]),
     MC("s", "summary", [a |-> "x"])}

TwoOfDoubles == {MC("m", "double", [a |-> "x"]), MC("n", "double", [a |-> "x"])}

(* metric_translator.go:316, "hash the key of str: metric + dimension      *)
(* key/value pairs": a rate is measured from a point of the same metric.   *)
RatesStayInMetric ==
    \A i \in DOMAIN emitted : HasRate(emitted[i]) =>
        \E j \in 1..(i - 1) : /\ emitted[j].point.metric = emitted[i].point.metric
                              /\ MeasuredFrom(emitted[i], emitted[j].point)

=============================================================================
