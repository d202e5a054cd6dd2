------------------------------ MODULE HostAgent ------------------------------
(***************************************************************************)
(* The host agent's end of the relay connection, internal/tunnel/host.go:  *)
(* Connect registers, Serve reads control messages one at a time and       *)
(* answers each consent request before it reads the next, acceptData and   *)
(* handleData serve one stream per authorised viewer.                      *)
(***************************************************************************)
EXTENDS Wire

VARIABLES
    hpc,             \* Connect, then Serve, of a host
    asked,           \* the session Serve is asking the user about
    accepts,         \* history: accept answers Serve decided on, per session
    stream           \* a handler serves the screen to this viewer

agentVars == <<hpc, asked, accepts, stream>>

AgentTypeOK ==
    /\ hpc \in [Host -> {"off", "connecting", "serving", "asking", "lost"}]
    /\ asked \in [Host -> Session \cup {None}]
    /\ accepts \in [Host -> [Session -> Nat]]
    /\ stream \in [Viewer -> BOOLEAN]

AgentInit ==
    /\ hpc = [h \in Host |-> "off"]
    /\ asked = [h \in Host |-> None]
    /\ accepts = [h \in Host |-> [s \in Session |-> 0]]
    /\ stream = [v \in Viewer |-> FALSE]

Enter(h, pc) == hpc' = [hpc EXCEPT ![h] = pc]

\* Connect, up to the register message.
HostConnect(h) ==
    /\ hpc[h] = "off"
    /\ hconn' = [hconn EXCEPT ![h] = "up"]
    /\ toRelay' = [toRelay EXCEPT ![h] = <<Msg("register", None)>>]
    /\ Enter(h, "connecting")
    /\ UNCHANGED <<vconn, toHost, data, asked, accepts, stream>>

\* Connect reads one message and returns if it is the registration.
HostRegistered(h) ==
    /\ hpc[h] = "connecting"
    /\ Arrived(toHost[h], {"registered"})
    /\ toHost' = [toHost EXCEPT ![h] = Tail(@)]
    /\ Enter(h, "serving")
    /\ UNCHANGED <<hconn, vconn, toRelay, data, asked, accepts, stream>>

\* "unexpected control op": Connect closes the connection and fails.
HostUnexpected(h) ==
    /\ hpc[h] = "connecting"
    /\ Arrived(toHost[h], {"incoming", "alert"})
    /\ HostDrop(h)
    /\ Enter(h, "lost")
    /\ UNCHANGED <<asked, accepts, stream>>

\* Serve asks for consent; it reads nothing until OnIncoming returns.
HostIncoming(h) ==
    /\ hpc[h] = "serving"
    /\ Arrived(toHost[h], {"incoming"})
    /\ asked' = [asked EXCEPT ![h] = Head(toHost[h]).session]
    /\ toHost' = [toHost EXCEPT ![h] = Tail(@)]
    /\ Enter(h, "asking")
    /\ UNCHANGED <<hconn, vconn, toRelay, data, accepts, stream>>

\* OnIncoming returns, and Serve sends the answer for the session it asked about.
HostAnswer(h, a) ==
    /\ hpc[h] = "asking"
    /\ \/ SendToRelay(h, Msg(a, asked[h])) /\ Enter(h, "serving")
       \/ hconn[h] = "down" /\ Enter(h, "lost") /\ UNCHANGED toRelay
    /\ accepts' = IF a = "accept" THEN [accepts EXCEPT ![h][asked[h]] = @ + 1]
                                  ELSE accepts
    /\ asked' = [asked EXCEPT ![h] = None]
    /\ UNCHANGED <<hconn, vconn, toHost, data, stream>>

HostAlert(h) ==
    /\ hpc[h] = "serving"
    /\ Arrived(toHost[h], {"alert"})
    /\ toHost' = [toHost EXCEPT ![h] = Tail(@)]
    /\ UNCHANGED <<hconn, vconn, toRelay, data, agentVars>>

\* Decode fails: Connect, or Serve, returns.
HostLost(h) ==
    /\ hpc[h] \in {"connecting", "serving"}
    /\ hconn[h] = "down"
    /\ Enter(h, "lost")
    /\ UNCHANGED <<wireVars, asked, accepts, stream>>

\* acceptData, which runs beside Serve, even while Serve asks for consent.
HostAcceptData(h, v) ==
    /\ data[v] = "requested"
    /\ hconn[h] = "up" /\ hpc[h] \in {"serving", "asking"}
    /\ data' = [data EXCEPT ![v] = "open"]
    /\ stream' = [stream EXCEPT ![v] = TRUE]
    /\ UNCHANGED <<hconn, vconn, toRelay, toHost, hpc, asked, accepts>>

\* handleData ends because the handler does (the RFB session, the target).
HostEndStream(v) ==
    /\ stream[v]
    /\ stream' = [stream EXCEPT ![v] = FALSE]
    /\ data' = [data EXCEPT ![v] = "closed"]
    /\ UNCHANGED <<hconn, vconn, toRelay, toHost, hpc, asked, accepts>>

\* handleData ends because its channel does.
HostStreamEof(h, v) ==
    /\ stream[v]
    /\ data[v] = "closed" \/ hconn[h] = "down"
    /\ HostEndStream(v)

HostStep(h) ==
    \/ HostRegistered(h) \/ HostUnexpected(h)
    \/ HostIncoming(h) \/ HostAlert(h) \/ HostLost(h)
=============================================================================
