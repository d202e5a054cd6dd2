------------------------------- MODULE Splice -------------------------------
(***************************************************************************)
(* A session's bytes on their way.  With -forward a VNC program talks to   *)
(* LocalForward over TCP (link 0), splice 1 copies between that and the    *)
(* viewer's SSH channel (link 1), the relay's splice 2 between that and    *)
(* the host's data channel (link 2), and at the end of it is rfb.Serve.    *)
(* A splice is two io.Copy goroutines, "up" and "down"; when one of them   *)
(* ends, both connections are closed, which is to end the other one.       *)
(* Bytes are counted in chunks: a copier holds one from Read to Write.     *)
(***************************************************************************)
EXTENDS Naturals, FiniteSets

CONSTANTS
    Room,            \* chunks a connection holds each way: window, socket buffer
    MaxBreaks        \* connections that are lost (a bound of the model)

ASSUME RoomAssumption == Room \in Nat \ {0} /\ MaxBreaks \in Nat

Dir == {"up", "down"}
Link == 0..2
Hop == 1..2

\* Splice j stands between links j - 1 and j; "v" is the side of a link
\* towards the viewer, "h" the one towards the host.
From(j, d) == IF d = "up" THEN j - 1 ELSE j
To(j, d) == IF d = "up" THEN j ELSE j - 1
Reader(d) == IF d = "up" THEN "h" ELSE "v"
Writer(d) == IF d = "up" THEN "v" ELSE "h"
Inbound(side) == IF side = "v" THEN "down" ELSE "up"
Outbound(side) == IF side = "v" THEN "up" ELSE "down"
FirstLink(d) == IF d = "up" THEN 0 ELSE 2
LastLink(d) == IF d = "up" THEN 2 ELSE 0

\* The order in which a splice's sides are closed: tunnel.splice closes the
\* program's connection and then the Stream, serveConnect's deferred calls the
\* data channel and then the viewer's.
Order(j) == IF j = 1 THEN <<<<0, "h">>, <<1, "v">>>> ELSE <<<<2, "v">>, <<1, "h">>>>

\* Sides whose Close closes a TCP connection, Stream.Close's one included.
ClosesTCP == {<<0, "v">>, <<0, "h">>, <<1, "v">>}

VARIABLES
    talks,           \* the directions in which the ends have something to say
    queue,           \* chunks written and not read, per link and direction
    closed,          \* the sides that were closed
    broken,          \* the links that were lost
    pc,              \* the copiers
    shut,            \* how many of its two sides a splice has closed
    owed,            \* chunks one end wrote and the other has not read, per direction
    eof              \* whether an end has read to the end

endVars == <<owed, eof>>
vars == <<talks, queue, closed, broken, pc, shut, endVars>>

Init ==
    /\ talks \in SUBSET Dir
    /\ queue = [l \in Link |-> [d \in Dir |-> 0]]
    /\ closed = {} /\ broken = {}
    /\ pc = [j \in Hop |-> [d \in Dir |-> "read"]]
    /\ shut = [j \in Hop |-> 0]
    /\ owed = [d \in Dir |-> 0]
    /\ eof = [d \in Dir |-> FALSE]

\* Closing a TCP connection that still has something to read resets it, and
\* some of what was sent may never arrive.
Close(l, side) ==
    LET sent == queue[l][Outbound(side)]
        resets == <<l, side>> \in ClosesTCP \ closed /\ queue[l][Inbound(side)] > 0
    IN /\ closed' = closed \union {<<l, side>>}
       /\ \E n \in (IF resets THEN 0 ELSE sent)..sent :
             queue' = [queue EXCEPT ![l][Outbound(side)] = n]

-----------------------------------------------------------------------------
(* A copier: io.Copy's loop *)

Goto(j, d, place) == pc' = [pc EXCEPT ![j][d] = place]

\* What was written before a close is read before the end of the stream, but
\* not from a socket one has closed oneself.
Ended(l, d) ==
    \/ l \in broken
    \/ queue[l][d] = 0 /\ {<<l, Reader(d)>>, <<l, Writer(d)>>} \cap closed # {}
    \/ l = 0 /\ <<l, Reader(d)>> \in closed

CanRead(l, d) == queue[l][d] > 0 /\ ~(l = 0 /\ <<l, Reader(d)>> \in closed)

Read(j, d) ==
    LET l == From(j, d) IN
    /\ pc[j][d] = "read" /\ CanRead(l, d)
    /\ queue' = [queue EXCEPT ![l][d] = @ - 1]
    /\ Goto(j, d, "write")
    /\ UNCHANGED <<talks, closed, broken, shut, endVars>>

\* Mutant of ReadEnds: a read that finds nothing for long ends the copy.
ReadTimesOut(j, d) ==
    /\ pc[j][d] = "read" /\ queue[From(j, d)][d] = 0
    /\ Goto(j, d, "done")
    /\ UNCHANGED <<talks, queue, closed, broken, shut, endVars>>

\* Mutant of ReadEnds: a close overtakes what was written before it.
CloseOvertakes(j, d) ==
    LET l == From(j, d) IN
    /\ pc[j][d] = "read"
    /\ l \in broken \/ {<<l, Reader(d)>>, <<l, Writer(d)>>} \cap closed # {}
    /\ Goto(j, d, "done")
    /\ UNCHANGED <<talks, queue, closed, broken, shut, endVars>>

ReadEnds(j, d) ==
    /\ pc[j][d] = "read" /\ Ended(From(j, d), d)
    /\ Goto(j, d, "done")
    /\ UNCHANGED <<talks, queue, closed, broken, shut, endVars>>

\* Write waits for room: nothing reads ahead of a slow receiver.
Write(j, d) ==
    LET l == To(j, d) IN
    /\ pc[j][d] = "write"
    /\ queue[l][d] < Room /\ l \notin broken /\ <<l, Writer(d)>> \notin closed
    /\ queue' = [queue EXCEPT ![l][d] = @ + 1]
    /\ Goto(j, d, "read")
    /\ UNCHANGED <<talks, closed, broken, shut, endVars>>

\* The chunk in hand is lost.
WriteFails(j, d) ==
    LET l == To(j, d) IN
    /\ pc[j][d] = "write"
    /\ l \in broken \/ {<<l, Reader(d)>>, <<l, Writer(d)>>} \cap closed # {}
    /\ Goto(j, d, "done")
    /\ UNCHANGED <<talks, queue, closed, broken, shut, endVars>>

\* Mutant of CloseBoth: only the connection the copier wrote to is closed.
CloseSink(j) ==
    /\ \E d \in Dir : pc[j][d] = "done" /\ Close(To(j, d), Writer(d))
    /\ shut[j] < 2
    /\ shut' = [shut EXCEPT ![j] = 2]
    /\ UNCHANGED <<talks, broken, pc, endVars>>

\* Once a copier is done its splice closes both connections: tunnel.splice in
\* the copier, the relay's serveConnect when splice returns.
CloseBoth(j) ==
    /\ \E d \in Dir : pc[j][d] = "done"
    /\ shut[j] < 2
    /\ LET side == Order(j)[shut[j] + 1] IN Close(side[1], side[2])
    /\ shut' = [shut EXCEPT ![j] = @ + 1]
    /\ UNCHANGED <<talks, broken, pc, endVars>>

-----------------------------------------------------------------------------
(* The ends: the VNC program and rfb.Serve; and the network *)

EndOf(s) == IF s = "v" THEN 0 ELSE 2

EndWrites(d) ==
    LET l == FirstLink(d) IN
    /\ d \in talks
    /\ <<l, Writer(d)>> \notin closed /\ l \notin broken /\ queue[l][d] < Room
    /\ queue' = [queue EXCEPT ![l][d] = @ + 1]
    /\ owed' = [owed EXCEPT ![d] = @ + 1]
    /\ UNCHANGED <<talks, closed, broken, pc, shut, eof>>

EndReads(d) ==
    LET l == LastLink(d) IN
    /\ ~eof[d] /\ <<l, Reader(d)>> \notin closed /\ queue[l][d] > 0
    /\ queue' = [queue EXCEPT ![l][d] = @ - 1]
    /\ owed' = [owed EXCEPT ![d] = @ - 1]
    /\ UNCHANGED <<talks, closed, broken, pc, shut, eof>>

EndEof(d) ==
    LET l == LastLink(d) IN
    /\ ~eof[d] /\ <<l, Reader(d)>> \notin closed /\ Ended(l, d)
    /\ eof' = [eof EXCEPT ![d] = TRUE]
    /\ UNCHANGED <<talks, queue, closed, broken, pc, shut, owed>>

\* An end may close at any time, with or without having read to the end.
EndCloses(s) ==
    /\ <<EndOf(s), s>> \notin closed
    /\ Close(EndOf(s), s)
    /\ UNCHANGED <<talks, broken, pc, shut, endVars>>

Break(l) ==
    /\ l \notin broken /\ Cardinality(broken) < MaxBreaks
    /\ broken' = broken \union {l}
    /\ queue' = [queue EXCEPT ![l] = [d \in Dir |-> 0]]
    /\ UNCHANGED <<talks, closed, pc, shut, endVars>>

-----------------------------------------------------------------------------
Copy(j, d) == Read(j, d) \/ ReadEnds(j, d) \/ Write(j, d) \/ WriteFails(j, d)

Next ==
    \/ \E j \in Hop : CloseBoth(j) \/ \E d \in Dir : Copy(j, d)
    \/ \E d \in Dir : EndWrites(d) \/ EndReads(d) \/ EndEof(d)
    \/ \E s \in {"v", "h"} : EndCloses(s)
    \/ \E l \in Link : Break(l)

(***************************************************************************)
(* Fairness: the goroutines run, and an end takes what has come for it or  *)
(* closes, unless it is waiting in a write: rfb.Serve does not read while  *)
(* it writes, and a VNC program need not.  Nothing obliges an end to write *)
(* or, with nothing to read, to close.                                     *)
(***************************************************************************)
Stuck(s) ==
    LET d == Outbound(s)
        l == FirstLink(d)
    IN d \in talks /\ queue[l][d] = Room /\ {<<l, "v">>, <<l, "h">>} \cap closed = {}

Attends(d) ==
    /\ queue[LastLink(d)][d] > 0 /\ ~Stuck(Reader(d))
    /\ EndReads(d) \/ EndCloses(Reader(d))

Fairness ==
    /\ \A j \in Hop : WF_vars(CloseBoth(j)) /\ \A d \in Dir : WF_vars(Copy(j, d))
    /\ \A d \in Dir : WF_vars(Attends(d))

Spec == Init /\ [][Next]_vars /\ Fairness

-----------------------------------------------------------------------------
(* Properties *)

TypeOK ==
    /\ talks \subseteq Dir
    /\ queue \in [Link -> [Dir -> 0..Room]]
    /\ closed \subseteq Link \X {"v", "h"} /\ broken \subseteq Link
    /\ pc \in [Hop -> [Dir -> {"read", "write", "done"}]]
    /\ shut \in [Hop -> 0..2]
    /\ owed \in [Dir -> Nat]
    /\ eof \in [Dir -> BOOLEAN]

Cut == broken # {} \/ {<<0, "v">>, <<2, "h">>} \cap closed # {}
Promise == INSTANCE Stream WITH cut <- Cut

\* The two splices and three connections are one stream each way: nothing is
\* made up or doubled, and it ends only because an end closed it or a
\* connection was lost, never because nothing was sent for long.
IsStream == Promise!Spec

\* The close that one direction's end sends through the chain does not overtake
\* what that direction carries: an end that only listens has got everything
\* when it reads the end of the stream, if no connection was lost.
QuietGetsAll ==
    \A d \in Dir : eof[d] /\ talks = {d} /\ broken = {} => owed[d] = 0

\* Whatever closes or breaks first, and with data in every buffer, all four
\* copiers come to an end and every connection is closed.
TeardownSpreads ==
    closed # {} \/ broken # {} ~>
       \A j \in Hop : shut[j] = 2 /\ \A d \in Dir : pc[j][d] = "done"
=============================================================================
