-------------------------------- MODULE Wire --------------------------------
(***************************************************************************)
(* What relay, host agents and viewers share: the control protocol of      *)
(* internal/wire and the SSH connections that carry it.                    *)
(*                                                                         *)
(* A Host is one connection of a host agent (a reconnect is another Host), *)
(* a Viewer one connection of a viewer and the one connect channel         *)
(* tunnel.Dial opens on it.                                                *)
(***************************************************************************)
EXTENDS Naturals, Sequences

CONSTANTS
    Host,            \* connections of host agents
    Viewer,          \* connections of viewers
    ID,              \* connection IDs (10^9 of them in the code)
    PIN,             \* PINs (10^6)
    Session,         \* session names, drawn like IDs
    Unattended,      \* the hosts started with --unattended
    Window,          \* control messages that fit in an SSH channel's window
    None

ASSUME WireAssumption ==
    /\ Unattended \subseteq Host
    /\ Window \in Nat \ {0}
    /\ None \notin Host \cup Viewer \cup ID \cup PIN \cup Session
    /\ None \notin {"accept", "reject"}

VARIABLES
    hconn,           \* host connection: "none", "up", "down"
    vconn,           \* viewer connection: "none", "up", "down"
    toRelay, toHost, \* the two directions of each control channel
    data             \* relay-to-host data channel opened for a viewer

wireVars == <<hconn, vconn, toRelay, toHost, data>>

Conn == {"none", "up", "down"}
Answer == {"accept", "reject"}
FromHost == [op : {"register"}, session : {None}]
               \cup [op : Answer, session : Session]
FromRelay == [op : {"registered", "alert"}, session : {None}]
               \cup [op : {"incoming"}, session : Session]

Msg(op, s) == [op |-> op, session |-> s]

WireTypeOK ==
    /\ hconn \in [Host -> Conn]
    /\ vconn \in [Viewer -> Conn]
    /\ toRelay \in [Host -> Seq(FromHost)]
    /\ toHost \in [Host -> Seq(FromRelay)]
    /\ data \in [Viewer -> {"none", "requested", "open", "closed"}]

WireInit ==
    /\ hconn = [h \in Host |-> "none"]
    /\ vconn = [v \in Viewer |-> "none"]
    /\ toRelay = [h \in Host |-> <<>>]
    /\ toHost = [h \in Host |-> <<>>]
    /\ data = [v \in Viewer |-> "none"]

-----------------------------------------------------------------------------
\* A write to a control channel waits for room in the peer's window.
SendToHost(h, m) ==
    /\ hconn[h] = "up"
    /\ Len(toHost[h]) < Window
    /\ toHost' = [toHost EXCEPT ![h] = Append(@, m)]

SendToRelay(h, m) ==
    /\ hconn[h] = "up"
    /\ Len(toRelay[h]) < Window
    /\ toRelay' = [toRelay EXCEPT ![h] = Append(@, m)]

\* A write to a connection that is gone reaches nobody. It may or may not
\* return an error: a dead TCP connection takes bytes until it is noticed.
LoseToHost(h) == hconn[h] = "down" /\ UNCHANGED toHost

\* The next message to read, on either side of a control channel.
Arrived(q, ops) == q # <<>> /\ Head(q).op \in ops

\* A host's connection breaks, or its process dies: what it sent last may be
\* lost, and it reads no more.
HostDrop(h) ==
    /\ hconn[h] = "up"
    /\ hconn' = [hconn EXCEPT ![h] = "down"]
    /\ \E n \in 0..Len(toRelay[h]) :
          toRelay' = [toRelay EXCEPT ![h] = SubSeq(@, 1, n)]
    /\ toHost' = [toHost EXCEPT ![h] = <<>>]
    /\ UNCHANGED <<vconn, data>>

\* A viewer quits, gives up or loses its connection.
ViewerLeave(v) ==
    /\ vconn[v] = "up"
    /\ vconn' = [vconn EXCEPT ![v] = "down"]
    /\ UNCHANGED <<hconn, toRelay, toHost, data>>
=============================================================================
