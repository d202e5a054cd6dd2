------------------------------ MODULE RemoteDesk ------------------------------
(***************************************************************************)
(* Relay, host agents and viewers put together: hosts come, register and   *)
(* break, viewers ask, wait, watch and leave, in any order.                *)
(***************************************************************************)
EXTENDS Relay, HostAgent, FiniteSets

ASSUME DeskAssumption == None \notin ID \X PIN

vars == <<wireVars, relayVars, agentVars>>

Init == WireInit /\ RelayInit /\ AgentInit

AgentNext ==
    \/ \E h \in Host : HostConnect(h) \/ HostStep(h)
    \/ \E h \in Host, a \in Answer : HostAnswer(h, a)
    \/ \E v \in Viewer : HostEndStream(v)
    \/ \E v \in Viewer : target[v] # None /\ HostAcceptData(target[v], v)

NetworkNext ==
    \/ \E h \in Host : HostDrop(h)
    \/ \E v \in Viewer : ViewerLeave(v)

Next ==
    \/ RelayNext /\ UNCHANGED agentVars
    \/ AgentNext /\ UNCHANGED relayVars
    \/ NetworkNext /\ UNCHANGED <<relayVars, agentVars>>

Spec == Init /\ [][Next]_vars

(***************************************************************************)
(* Fairness: a goroutine that can go on does, and a stream whose channel   *)
(* is closed is noticed to be.  Nothing obliges a host to connect or to    *)
(* break, a user to answer, a viewer to come or to leave, a session to end *)
(* by itself or a lockout to be waited for.                                *)
(***************************************************************************)
StreamEof(v) == target[v] # None /\ HostStreamEof(target[v], v)
AcceptData(v) == target[v] # None /\ HostAcceptData(target[v], v)

SilentFairness ==
    /\ \A h \in Host :
          /\ WF_vars(ServeControl(h) /\ UNCHANGED agentVars)
          /\ WF_vars(HostStep(h) /\ UNCHANGED relayVars)
    /\ \A v \in Viewer :
          /\ WF_vars(ServeConnect(v) /\ UNCHANGED agentVars)
          /\ WF_vars(AcceptData(v) /\ UNCHANGED relayVars)
          /\ WF_vars(StreamEof(v) /\ UNCHANGED relayVars)

SilentSpec == Spec /\ SilentFairness

-----------------------------------------------------------------------------
(* Safety *)

\* Every variable keeps its type.
TypeOK == WireTypeOK /\ RelayTypeOK /\ AgentTypeOK

\* Server.hosts holds a host under an ID exactly while that host's control
\* loop runs and the ID is the one assigned to it: IDs are reused, and
\* unregister deletes by ID, yet no host loses its entry to another's exit.
RegistryOwned ==
    \A i \in ID, h \in Host : hosts[i] = h <=> regId[h] = i /\ ctl[h] # "ended"

\* The viewers a host's accept for a session let pass awaitConsent.
Granted(h, s) ==
    {v \in Viewer : /\ sess[v] = s /\ target[v] = h
                    /\ h \notin Unattended
                    /\ vpc[v] \in {"granted", "accepting", "opening",
                                   "bridged", "closed"}}

\* However answers, timeouts and equal session names fall together, no more
\* viewers pass awaitConsent for a session than the host wrote accepts for it.
OneViewerPerAccept ==
    \A h \in Host, s \in Session : Cardinality(Granted(h, s)) <= accepts[h][s]

\* A host serves its screen to a viewer only if that viewer named the host's
\* own ID and PIN, and the user of an attended host accepted its session: not
\* to one that looked up an earlier owner of the ID, or that was locked out.
ScreenByConsent ==
    \A v \in Viewer : stream[v] =>
       LET h == target[v] IN
       /\ h # None
       /\ vid[v] = regId[h] /\ vpin[v] = regPin[h]
       /\ h \in Unattended \/ accepts[h][sess[v]] > 0

\* A pending entry belongs to a viewer still inside awaitConsent for that
\* session: nothing leaks, and no later answer finds a viewer that has gone on.
PendingLive ==
    \A h \in Host, s \in Session :
       LET v == pending[h][s] IN
       v # None => /\ target[v] = h /\ sess[v] = s
                   /\ vpc[v] \in {"notify", "waiting", "granted", "denied"}

\* A lockout is announced once, by the attempt that tripped it, and no other
\* refusal is.
AlertPerLockout ==
    \A h \in Host :
       lockouts[h] = alerts[h] + Cardinality({v \in Viewer : vpc[v] = "alert"
                                                             /\ target[v] = h})

\* What holds the above together, step by step: see RemoteDeskProofs.
\* serveConnect has the locals its program counter says it has.
LocalsOK ==
    /\ \A v \in Viewer :
          /\ vpc[v] # "idle" => vid[v] # None /\ vpin[v] # None
          /\ vpc[v] \notin {"idle", "lookup", "rejected"} => target[v] # None
          /\ vpc[v] \in {"idle", "lookup"} => target[v] = None
          /\ vpc[v] \in {"idle", "lookup", "auth", "alert", "ask"}
                => sess[v] = None
          /\ vpc[v] \in {"notify", "waiting", "granted", "denied",
                         "accepting", "opening", "bridged", "closed"}
                => sess[v] # None
          /\ sess[v] # None => target[v] # None
    /\ \A h \in Host : hpc[h] = "asking" => asked[h] # None

\* A viewer past the registry and the PIN check named this host and its PIN.
ClaimOK ==
    \A v \in Viewer :
       /\ target[v] # None => regId[target[v]] = vid[v]
       /\ vpc[v] \in {"ask", "notify", "waiting", "granted", "denied",
                      "accepting", "opening", "bridged", "closed"}
             => vpin[v] = regPin[target[v]]

\* An accept, wherever it is on its way from the user to serveConnect, was
\* given for the session of the viewer it is about to let in.
AnswerOK ==
    /\ \A h \in Host : \A n \in 1..Len(toRelay[h]) :
          toRelay[h][n].op = "accept" => accepts[h][toRelay[h][n].session] > 0
    /\ \A h \in Host : delivery[h] # None /\ delivery[h].to # None =>
          LET v == delivery[h].to IN
          /\ target[v] = h /\ sess[v] # None
          /\ delivery[h].answer = "accept" => accepts[h][sess[v]] > 0
    /\ \A v \in Viewer : result[v] # None =>
          /\ sess[v] # None
          /\ result[v] = "accept" => accepts[target[v]][sess[v]] > 0
    /\ \A v \in Viewer :
          vpc[v] \in {"granted", "accepting", "opening", "bridged", "closed"} =>
             target[v] \in Unattended \/ accepts[target[v]][sess[v]] > 0

\* A data channel, and a stream on it, exist only for a viewer let in.
StreamOK ==
    \A v \in Viewer : data[v] # "none" \/ stream[v] =>
       vpc[v] \in {"opening", "bridged", "closed"}

DeskInv ==
    TypeOK /\ LocalsOK /\ RegistryOwned /\ ClaimOK /\ PendingLive /\ AnswerOK /\ StreamOK

-----------------------------------------------------------------------------
(* Liveness *)

\* Every connect request comes to an end: refused, bridged or closed.
ConnectEnds ==
    \A v \in Viewer : vpc[v] = "lookup" ~>
                      vpc[v] \in {"rejected", "bridged", "closed"}

\* A host that is gone leaves the registry, whatever its viewers are doing.
GoneUnregistered ==
    \A h \in Host : hconn[h] = "down" ~> \A i \in ID : hosts[i] # h

\* The screen stops being served when the viewer is gone or the connection is.
StreamsEnd ==
    \A v \in Viewer :
       stream[v] /\ (vconn[v] = "down" \/ hconn[target[v]] = "down")
          ~> ~stream[v]

-----------------------------------------------------------------------------
(* Refinement of the promise *)

Place(v) ==
    CASE vpc[v] \in {"idle", "lookup", "auth", "alert", "ask"} -> "outside"
      [] vpc[v] \in {"notify", "waiting"} -> "asking"
      [] stream[v] -> "watching"
      [] ~stream[v] /\ (vpc[v] \in {"rejected", "closed", "denied"}
                        \/ data[v] = "closed") -> "over"
      [] OTHER -> "allowed"

Promise == INSTANCE Consent WITH
    secret <- [h \in Host |-> IF regId[h] = None THEN None
                              ELSE <<regId[h], regPin[h]>>],
    claim <- [v \in Viewer |-> IF vid[v] = None THEN None
                               ELSE <<vid[v], vpin[v]>>],
    yes <- [h \in Host |-> [s \in Session |->
              accepts[h][s] - Cardinality(Granted(h, s))]],
    at <- [v \in Viewer |-> Place(v)],
    of <- [v \in Viewer |-> IF sess[v] = None THEN None
                            ELSE <<target[v], sess[v]>>]

\* Relay, agents and network implement the promise of module Consent.
KeepsPromise == Promise!Spec
=============================================================================
