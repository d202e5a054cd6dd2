------------------------------- MODULE Stream -------------------------------
(***************************************************************************)
(* What the chain of connections and splices between a viewer and a host   *)
(* promises its two ends, whatever lies in between: one byte stream each   *)
(* way, that ends only because an end closed it or a connection was lost.  *)
(***************************************************************************)
EXTENDS Naturals

Dir == {"up", "down"}    \* viewer to host, and back

VARIABLES
    owed,                \* how much went in at one end and has yet to come out at the other
    eof,                 \* whether the reader was told that it is over
    cut                  \* an end has closed, or a connection was lost

vars == <<owed, eof, cut>>

Init ==
    /\ owed = [d \in Dir |-> 0]
    /\ eof = [d \in Dir |-> FALSE]
    /\ cut = FALSE

Write(d) == owed' = [owed EXCEPT ![d] = @ + 1] /\ UNCHANGED <<eof, cut>>

\* Nothing comes out that did not go in, nothing twice, nothing after the end.
Read(d) ==
    /\ owed[d] > 0 /\ ~eof[d]
    /\ owed' = [owed EXCEPT ![d] = @ - 1]
    /\ UNCHANGED <<eof, cut>>

End(d) ==
    /\ cut
    /\ eof' = [eof EXCEPT ![d] = TRUE]
    /\ UNCHANGED <<owed, cut>>

Cut == cut' = TRUE /\ UNCHANGED <<owed, eof>>

Next == Cut \/ \E d \in Dir : Write(d) \/ Read(d) \/ End(d)

Spec == Init /\ [][Next]_vars
=============================================================================
