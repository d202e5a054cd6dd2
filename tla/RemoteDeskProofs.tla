--------------------------- MODULE RemoteDeskProofs ---------------------------
(***************************************************************************)
(* For any number of hosts, viewers, IDs, PINs and sessions:               *)
(*   - DeskInv is inductive, and what follows from it: the registry, the   *)
(*     pending table and the screen by consent.  One lemma per conjunct,   *)
(*     in each one step per action that touches what it is about;          *)
(*   - a lockout is announced once (AlertInv);                             *)
(*   - no more viewers get in than accepts were written (GrantInv, which   *)
(*     counts every accept on its way from the user to awaitConsent);      *)
(*   - the desk implements module Consent: each step is one of its steps,  *)
(*     or leaves what they are about alone.                                *)
(***************************************************************************)
EXTENDS RemoteDesk, FiniteSetTheorems, TLAPS

-----------------------------------------------------------------------------
(* Facts about the helpers the actions are built from *)

\* Moving a goroutine on keeps the type of the program counters ...
LEMMA GoType ==
    ASSUME vpc \in [Viewer -> VPC], NEW v, NEW pc \in VPC, Go(v, pc)
    PROVE  vpc' \in [Viewer -> VPC]
BY DEF Go

\* ... and moves no other.
LEMMA GoOnly ==
    ASSUME vpc \in [Viewer -> VPC], NEW v \in Viewer, NEW pc, Go(v, pc)
    PROVE  vpc'[v] = pc /\ \A w \in Viewer \ {v} : vpc'[w] = vpc[w]
BY DEF Go

\* Counting up keeps a table of counters one.
LEMMA CountType ==
    ASSUME NEW S, NEW f \in [S -> Nat], NEW x \in S
    PROVE  [f EXCEPT ![x] = @ + 1] \in [S -> Nat]
OBVIOUS

\* So it does while the counter stays below its bound.
LEMMA CountBelow ==
    ASSUME NEW N \in Nat, NEW S, NEW f \in [S -> 0..N-1], NEW x \in S,
           ~(f[x] + 1 >= N)
    PROVE  [f EXCEPT ![x] = f[x] + 1] \in [S -> 0..N-1]
OBVIOUS

\* So does an update in a table of tables.
LEMMA TableType ==
    ASSUME NEW S, NEW T, NEW U, NEW f \in [S -> [T -> U]], NEW x, NEW y,
           NEW u \in U
    PROVE  [f EXCEPT ![x][y] = u] \in [S -> [T -> U]]
OBVIOUS

\* The program counters serveConnect uses.
LEMMA VPCNames ==
    /\ "lookup" \in VPC /\ "auth" \in VPC /\ "alert" \in VPC /\ "ask" \in VPC
    /\ "notify" \in VPC /\ "waiting" \in VPC /\ "granted" \in VPC
    /\ "denied" \in VPC /\ "accepting" \in VPC /\ "opening" \in VPC
    /\ "bridged" \in VPC /\ "closed" \in VPC /\ "rejected" \in VPC
BY DEF VPC

\* The messages the two sides build.
LEMMA MsgType ==
    /\ Msg("registered", None) \in FromRelay
    /\ Msg("alert", None) \in FromRelay
    /\ \A s \in Session : Msg("incoming", s) \in FromRelay
    /\ Msg("register", None) \in FromHost
    /\ \A a \in Answer, s \in Session : Msg(a, s) \in FromHost
BY DEF Msg, FromRelay, FromHost

\* Sending, or losing, a message keeps the type of the channels.
LEMMA SendType ==
    ASSUME WireTypeOK, NEW h \in Host
    PROVE  /\ \A m \in FromRelay : SendToHost(h, m) \/ LoseToHost(h)
                 => toHost' \in [Host -> Seq(FromRelay)]
           /\ \A m \in FromHost : SendToRelay(h, m)
                 => toRelay' \in [Host -> Seq(FromHost)]
<1>1. ASSUME NEW m \in FromRelay, SendToHost(h, m)
      PROVE  toHost' \in [Host -> Seq(FromRelay)]
  <2>1. Append(toHost[h], m) \in Seq(FromRelay)
    BY DEF WireTypeOK
  <2> QED BY <1>1, <2>1 DEF WireTypeOK, SendToHost
<1>2. ASSUME LoseToHost(h) PROVE toHost' \in [Host -> Seq(FromRelay)]
    BY <1>2 DEF WireTypeOK, LoseToHost
<1>3. ASSUME NEW m \in FromHost, SendToRelay(h, m)
      PROVE  toRelay' \in [Host -> Seq(FromHost)]
  <2>1. Append(toRelay[h], m) \in Seq(FromHost)
    BY DEF WireTypeOK
  <2> QED BY <1>3, <2>1 DEF WireTypeOK, SendToRelay
<1> QED BY <1>1, <1>2, <1>3

-----------------------------------------------------------------------------
(* Types *)

\* Every step keeps every variable in its type.
LEMMA TypeStep ==
    ASSUME TypeOK, LocalsOK, Next PROVE TypeOK'
<1> USE WireAssumption, RelayAssumption
        DEF TypeOK, WireTypeOK, RelayTypeOK, AgentTypeOK, Conn,
               Enter, wireVars, registryVars, consentVars, pinVars, connectVars, relayVars,
               agentVars
<1>1. ASSUME NEW h \in Host, Register(h), UNCHANGED agentVars
      PROVE  TypeOK'
  <2>1. toRelay' = [toRelay EXCEPT ![h] = Tail(toRelay[h])] /\ toRelay[h] # <<>>
    BY <1>1 DEF Register, Arrived
  <2>2. toRelay' \in [Host -> Seq(FromHost)]
    <3>1. Tail(toRelay[h]) \in Seq(FromHost)
      BY <2>1
    <3> QED
      BY <2>1, <3>1
  <2>3. hosts' \in [ID -> Host \cup {None}] /\ regId' \in [Host -> ID \cup {None}]
    BY <1>1 DEF Register, FreeIDs
  <2>4. regPin' \in [Host -> PIN \cup {None}]
    BY <1>1 DEF Register
  <2>5. ctl' \in [Host -> {"reading", "registering", "ended"}]
    BY <1>1 DEF Register
  <2>6. UNCHANGED <<hconn, vconn, toHost, data, consentVars, pinVars, connectVars>>
    BY <1>1 DEF Register
  <2> QED
    BY <1>1, <2>2, <2>3, <2>4, <2>5, <2>6
<1>2. ASSUME NEW h \in Host, SendRegistered(h), UNCHANGED agentVars
      PROVE  TypeOK'
  <2>1. toHost' \in [Host -> Seq(FromRelay)]
    BY <1>2, SendType, MsgType DEF SendRegistered
  <2> QED
    BY <1>2, <2>1 DEF SendRegistered
<1>3. ASSUME NEW h \in Host, Resolve(h), UNCHANGED agentVars
      PROVE  TypeOK'
  <2>1. /\ Head(toRelay[h]) \in FromHost
       /\ Head(toRelay[h]).op \in Answer
    BY <1>3 DEF Resolve, Arrived
  <2>2. Head(toRelay[h]).session \in Session
    BY <2>1 DEF FromHost, Answer
  <2>3. [to |-> pending[h][Head(toRelay[h]).session],
        answer |-> Head(toRelay[h]).op] \in Delivery
    BY <2>1, <2>2 DEF Delivery
  <2>4. toRelay' \in [Host -> Seq(FromHost)]
    BY <1>3 DEF Resolve, Arrived
  <2>5. delivery' \in [Host -> Delivery \cup {None}]
    BY <1>3, <2>3 DEF Resolve
  <2> QED
    BY <1>3, <2>1, <2>2, <2>3, <2>4, <2>5 DEF Resolve
<1>4. ASSUME NEW h \in Host, Deliver(h), UNCHANGED agentVars
      PROVE  TypeOK'
    BY <1>4 DEF Deliver, Recipients, Delivery
<1>5. ASSUME NEW h \in Host, ControlEnd(h), UNCHANGED agentVars
      PROVE  TypeOK'
    BY <1>5 DEF ControlEnd, Unregistered
<1>6. ASSUME NEW h \in Host, LockExpires(h), UNCHANGED agentVars
      PROVE  TypeOK'
    BY <1>6 DEF LockExpires
<1>7. ASSUME NEW v \in Viewer, ViewerConnect(v), UNCHANGED agentVars
      PROVE  TypeOK'
  <2>1. vpc' \in [Viewer -> VPC]
    BY <1>7, GoType, VPCNames DEF ViewerConnect
  <2>2. vid' \in [Viewer -> ID \cup {None}]
    BY <1>7 DEF ViewerConnect
  <2>3. vpin' \in [Viewer -> PIN \cup {None}]
    BY <1>7 DEF ViewerConnect
  <2> QED
    BY <1>7, <2>1, <2>2, <2>3 DEF ViewerConnect
<1>8. ASSUME NEW v \in Viewer, Lookup(v), UNCHANGED agentVars
      PROVE  TypeOK'
  <2>1. vpc' \in [Viewer -> VPC]
    BY <1>8, GoType, VPCNames DEF Lookup
  <2>2. hosts[vid[v]] \in Host \cup {None}
    BY <1>8 DEF Lookup, LocalsOK
  <2>3. target' \in [Viewer -> Host \cup {None}]
    BY <1>8, <2>2 DEF Lookup
  <2> QED
    BY <1>8, <2>1, <2>2, <2>3 DEF Lookup
<1>9. ASSUME NEW v \in Viewer, Authenticate(v), UNCHANGED agentVars
      PROVE  TypeOK'
  <2>1. vpc' \in [Viewer -> VPC]
    BY <1>9, GoType, VPCNames
      DEF Authenticate, Locked, GoodPIN, BadPIN, LockOut, AfterLocked
  <2>2. failures' \in [Host -> 0..MaxPINAttempts-1]
    <3>1. CASE Locked(v) \/ GoodPIN(v) \/ LockOut(v)
      BY <3>1 DEF Locked, GoodPIN, LockOut, pinVars
    <3>2. CASE BadPIN(v)
      <4>1. /\ failures' = [failures EXCEPT ![target[v]] = failures[target[v]] + 1]
            /\ ~(failures[target[v]] + 1 >= MaxPINAttempts)
        BY <3>2 DEF BadPIN, TripsLockout
      <4>2. target[v] \in Host
        BY <1>9 DEF Authenticate, LocalsOK
      <4> QED
        BY <4>1, <4>2, CountBelow
    <3> QED
      BY <1>9, <3>1, <3>2 DEF Authenticate
  <2>3. locked' \in [Host -> BOOLEAN]
    BY <1>9 DEF Authenticate, Locked, GoodPIN, BadPIN, LockOut, pinVars
  <2>4. lockouts' \in [Host -> Nat]
    BY <1>9 DEF Authenticate, Locked, GoodPIN, BadPIN, LockOut, pinVars
  <2>5. alerts' \in [Host -> Nat]
    BY <1>9 DEF Authenticate, Locked, GoodPIN, BadPIN, LockOut, pinVars
  <2> QED
    BY <1>9, <2>1, <2>2, <2>3, <2>4, <2>5 DEF Authenticate
<1>10. ASSUME NEW v \in Viewer, SendAlert(v), UNCHANGED agentVars
      PROVE  TypeOK'
  <2>1. vpc' \in [Viewer -> VPC]
    BY <1>10, GoType, VPCNames DEF SendAlert
  <2>2. target[v] \in Host
    BY <1>10 DEF SendAlert, LocalsOK
  <2>3. toHost' \in [Host -> Seq(FromRelay)]
    BY <1>10, <2>2, SendType, MsgType DEF SendAlert
  <2>4. alerts' = [alerts EXCEPT ![target[v]] = @ + 1]
    BY <1>10 DEF SendAlert
  <2>5. alerts' \in [Host -> Nat]
    BY <2>2, <2>4, CountType
  <2> QED
    BY <1>10, <2>1, <2>2, <2>3, <2>4, <2>5 DEF SendAlert
<1>11. ASSUME NEW v \in Viewer, AskConsent(v), UNCHANGED agentVars
      PROVE  TypeOK'
  <2>1. vpc' \in [Viewer -> VPC]
    BY <1>11, GoType, VPCNames DEF AskConsent
  <2>2. sess' \in [Viewer -> Session \cup {None}]
    BY <1>11 DEF AskConsent
  <2>3. \/ pending' = pending
        \/ \E s \in Session : pending' = [pending EXCEPT ![target[v]][s] = v]
    BY <1>11 DEF AskConsent
  <2>4. pending \in [Host -> [Session -> Viewer \cup {None}]]
    OBVIOUS
  <2>5. pending' \in [Host -> [Session -> Viewer \cup {None}]]
    <3> HIDE DEF TypeOK
    <3>1. ASSUME NEW s \in Session,
                 pending' = [pending EXCEPT ![target[v]][s] = v]
          PROVE  pending' \in [Host -> [Session -> Viewer \cup {None}]]
      BY <2>4, <3>1, TableType
    <3> QED
      BY <2>3, <2>4, <3>1
  <2>6. UNCHANGED <<wireVars, registryVars, delivery, result, pinVars, vid, vpin,
                    target>>
    BY <1>11 DEF AskConsent
  <2> QED
    BY <1>11, <2>1, <2>2, <2>5, <2>6
<1>12. ASSUME NEW v \in Viewer, NotifyHost(v), UNCHANGED agentVars
      PROVE  TypeOK'
  <2>1. vpc' \in [Viewer -> VPC]
    BY <1>12, GoType, VPCNames DEF NotifyHost
  <2>2. sess[v] \in Session /\ target[v] \in Host
    BY <1>12 DEF NotifyHost, LocalsOK
  <2>3. toHost' \in [Host -> Seq(FromRelay)]
    BY <1>12, <2>2, SendType, MsgType DEF NotifyHost
  <2> QED
    BY <1>12, <2>1, <2>2, <2>3 DEF NotifyHost
<1>13. ASSUME NEW v \in Viewer, Await(v), UNCHANGED agentVars
      PROVE  TypeOK'
  <2>1. vpc' \in [Viewer -> VPC]
    BY <1>13, GoType, VPCNames DEF Await, OnTimeout
  <2> QED
    BY <1>13, <2>1 DEF Await, TimesOut, OnTimeout
<1>14. ASSUME NEW v \in Viewer, Forget(v), UNCHANGED agentVars
      PROVE  TypeOK'
  <2>1. vpc' \in [Viewer -> VPC]
    BY <1>14, GoType, VPCNames DEF Forget
  <2> QED
    BY <1>14, <2>1 DEF Forget, Forgotten
<1>15. ASSUME NEW v \in Viewer, AcceptViewer(v), UNCHANGED agentVars
      PROVE  TypeOK'
  <2>1. vpc' \in [Viewer -> VPC]
    BY <1>15, GoType, VPCNames DEF AcceptViewer
  <2> QED
    BY <1>15, <2>1 DEF AcceptViewer
<1>16. ASSUME NEW v \in Viewer, OpenData(v), UNCHANGED agentVars
      PROVE  TypeOK'
    BY <1>16 DEF OpenData
<1>17. ASSUME NEW v \in Viewer, OpenFails(v), UNCHANGED agentVars
      PROVE  TypeOK'
  <2>1. vpc' \in [Viewer -> VPC]
    BY <1>17, GoType, VPCNames DEF OpenFails
  <2> QED
    BY <1>17, <2>1 DEF OpenFails
<1>18. ASSUME NEW v \in Viewer, Bridge(v), UNCHANGED agentVars
      PROVE  TypeOK'
  <2>1. vpc' \in [Viewer -> VPC]
    BY <1>18, GoType, VPCNames DEF Bridge
  <2> QED
    BY <1>18, <2>1 DEF Bridge
<1>19. ASSUME NEW v \in Viewer, Unsplice(v), UNCHANGED agentVars
      PROVE  TypeOK'
  <2>1. vpc' \in [Viewer -> VPC]
    BY <1>19, GoType, VPCNames DEF Unsplice
  <2> QED
    BY <1>19, <2>1 DEF Unsplice, DataClosed
<1>20. ASSUME NEW h \in Host, HostConnect(h), UNCHANGED relayVars
      PROVE  TypeOK'
  <2>1. toRelay' \in [Host -> Seq(FromHost)]
    BY <1>20, MsgType DEF HostConnect
  <2> QED
    BY <1>20, <2>1 DEF HostConnect
<1>21. ASSUME NEW h \in Host, HostRegistered(h), UNCHANGED relayVars
      PROVE  TypeOK'
    BY <1>21 DEF HostRegistered, Arrived
<1>22. ASSUME NEW h \in Host, HostUnexpected(h), UNCHANGED relayVars
      PROVE  TypeOK'
  <2>1. HostDrop(h) /\ hpc' = [hpc EXCEPT ![h] = "lost"]
    BY <1>22 DEF HostUnexpected
  <2>2. toRelay' \in [Host -> Seq(FromHost)]
    BY <2>1 DEF HostDrop
  <2>3. hconn' \in [Host -> Conn] /\ toHost' \in [Host -> Seq(FromRelay)]
    BY <2>1 DEF HostDrop
  <2>4. UNCHANGED <<vconn, data, asked, accepts, stream>>
    BY <1>22, <2>1 DEF HostUnexpected, HostDrop
  <2> QED
    BY <1>22, <2>1, <2>2, <2>3, <2>4
<1>23. ASSUME NEW h \in Host, HostIncoming(h), UNCHANGED relayVars
      PROVE  TypeOK'
  <2>1. toHost[h] \in Seq(FromRelay) /\ toHost[h] # <<>>
        /\ Head(toHost[h]).op = "incoming"
    BY <1>23 DEF HostIncoming, Arrived
  <2>2. Tail(toHost[h]) \in Seq(FromRelay) /\ Head(toHost[h]) \in FromRelay
    BY <2>1
  <2>3. Head(toHost[h]).session \in Session
    BY <2>1, <2>2 DEF FromRelay
  <2>4. toHost' \in [Host -> Seq(FromRelay)]
    BY <1>23, <2>2 DEF HostIncoming
  <2>5. asked' \in [Host -> Session \cup {None}]
    BY <1>23, <2>3 DEF HostIncoming
  <2>6. hpc' = [hpc EXCEPT ![h] = "asking"]
    BY <1>23 DEF HostIncoming
  <2>7. UNCHANGED <<hconn, vconn, toRelay, data, accepts, stream>>
    BY <1>23 DEF HostIncoming
  <2> QED
    BY <1>23, <2>4, <2>5, <2>6, <2>7
<1>24. ASSUME NEW h \in Host, HostAlert(h), UNCHANGED relayVars
      PROVE  TypeOK'
    BY <1>24 DEF HostAlert, Arrived
<1>25. ASSUME NEW h \in Host, HostLost(h), UNCHANGED relayVars
      PROVE  TypeOK'
    BY <1>25 DEF HostLost
<1>26. ASSUME NEW h \in Host, NEW a \in Answer, HostAnswer(h, a),
           UNCHANGED relayVars
      PROVE  TypeOK'
  <2>1. asked[h] \in Session
    BY <1>26 DEF HostAnswer, LocalsOK
  <2>2. toRelay' \in [Host -> Seq(FromHost)]
    BY <1>26, <2>1, SendType, MsgType DEF HostAnswer
  <2>3. accepts' \in [Host -> [Session -> Nat]]
    <3>1. accepts[h][asked[h]] + 1 \in Nat
      BY <2>1
    <3>2. \/ accepts' = accepts
          \/ accepts' = [accepts EXCEPT ![h][asked[h]] = accepts[h][asked[h]] + 1]
      BY <1>26 DEF HostAnswer
    <3>3. [accepts EXCEPT ![h][asked[h]] = accepts[h][asked[h]] + 1]
             \in [Host -> [Session -> Nat]]
      BY <3>1, TableType
    <3> QED
      BY <3>2, <3>3
  <2>4. hpc' = [hpc EXCEPT ![h] = "serving"] \/ hpc' = [hpc EXCEPT ![h] = "lost"]
    <3> HIDE DEF TypeOK
    <3> QED
      BY <1>26 DEF HostAnswer
  <2>5. hpc' \in [Host -> {"off", "connecting", "serving", "asking", "lost"}]
    <3>1. hpc \in [Host -> {"off", "connecting", "serving", "asking", "lost"}]
      OBVIOUS
    <3> HIDE DEF TypeOK
    <3> QED
      BY <2>4, <3>1
  <2>6. asked' \in [Host -> Session \cup {None}]
    <3>1. asked \in [Host -> Session \cup {None}]
      OBVIOUS
    <3>2. asked' = [asked EXCEPT ![h] = None]
      BY <1>26 DEF HostAnswer
    <3> QED
      BY <3>1, <3>2
  <2>7. UNCHANGED <<hconn, vconn, toHost, data, stream>>
    BY <1>26 DEF HostAnswer
  <2> QED
    BY <1>26, <2>2, <2>3, <2>5, <2>6, <2>7
<1>27. ASSUME NEW v \in Viewer, HostEndStream(v), UNCHANGED relayVars
      PROVE  TypeOK'
    BY <1>27 DEF HostEndStream
<1>28. ASSUME NEW v \in Viewer, target[v] # None, HostAcceptData(target[v], v),
           UNCHANGED relayVars
      PROVE  TypeOK'
    BY <1>28 DEF HostAcceptData
<1>29. ASSUME NEW h \in Host, HostDrop(h), UNCHANGED <<relayVars, agentVars>>
      PROVE  TypeOK'
    BY <1>29 DEF HostDrop
<1>30. ASSUME NEW v \in Viewer, ViewerLeave(v), UNCHANGED <<relayVars, agentVars>>
      PROVE  TypeOK'
    BY <1>30 DEF ViewerLeave
<1> HIDE DEF TypeOK, wireVars, registryVars, consentVars, pinVars, connectVars,
                relayVars, agentVars, Enter
<1> QED
    BY <1>1, <1>2, <1>3, <1>4, <1>5, <1>6, <1>7, <1>8, <1>9, <1>10, <1>11,
       <1>12, <1>13, <1>14, <1>15, <1>16, <1>17, <1>18, <1>19, <1>20, <1>21,
       <1>22, <1>23, <1>24, <1>25, <1>26, <1>27, <1>28, <1>29, <1>30
       DEF Next, RelayNext, ServeControl, ServeConnect, AgentNext, HostStep,
           NetworkNext
-----------------------------------------------------------------------------
(* What a step can disturb *)

\* serveConnect of v, and no other, goes from one of these places to another.
Move(v, from, to) ==
    /\ vpc[v] \in from /\ vpc'[v] \in to
    /\ \A w \in Viewer \ {v} : vpc'[w] = vpc[w]

\* The edges of serveConnect.
LEMMA Moves ==
    ASSUME vpc \in [Viewer -> VPC], NEW v \in Viewer
    PROVE  /\ ViewerConnect(v) => Move(v, {"idle"}, {"lookup"})
           /\ Lookup(v) => Move(v, {"lookup"}, {"rejected", "auth"})
           /\ Authenticate(v) => Move(v, {"auth"}, {"rejected", "ask", "alert"})
           /\ SendAlert(v) => Move(v, {"alert"}, {"rejected"})
           /\ AskConsent(v) => Move(v, {"ask"}, {"accepting", "notify"})
           /\ NotifyHost(v) => Move(v, {"notify"}, {"waiting", "denied"})
           /\ Await(v) => Move(v, {"waiting"}, {"granted", "denied"})
           /\ Forget(v) => \/ Move(v, {"granted"}, {"accepting"})
                           \/ Move(v, {"denied"}, {"rejected"})
           /\ AcceptViewer(v) => Move(v, {"accepting"}, {"opening", "closed"})
           /\ OpenFails(v) => Move(v, {"opening"}, {"closed"})
           /\ Bridge(v) => Move(v, {"opening"}, {"bridged"})
           /\ Unsplice(v) => Move(v, {"bridged"}, {"closed"})
<1> USE GoOnly DEF Move
<1>1. ViewerConnect(v) => Move(v, {"idle"}, {"lookup"})
    BY DEF ViewerConnect
<1>2. Lookup(v) => Move(v, {"lookup"}, {"rejected", "auth"})
    BY DEF Lookup
<1>3. Authenticate(v) => Move(v, {"auth"}, {"rejected", "ask", "alert"})
    BY DEF Authenticate, Locked, GoodPIN, BadPIN, LockOut, AfterLocked
<1>4. SendAlert(v) => Move(v, {"alert"}, {"rejected"})
    BY DEF SendAlert
<1>5. AskConsent(v) => Move(v, {"ask"}, {"accepting", "notify"})
    BY DEF AskConsent
<1>6. NotifyHost(v) => Move(v, {"notify"}, {"waiting", "denied"})
    BY DEF NotifyHost
<1>7. Await(v) => Move(v, {"waiting"}, {"granted", "denied"})
    BY DEF Await, OnTimeout
<1>8. Forget(v) => \/ Move(v, {"granted"}, {"accepting"})
                   \/ Move(v, {"denied"}, {"rejected"})
    BY DEF Forget
<1>9. AcceptViewer(v) => Move(v, {"accepting"}, {"opening", "closed"})
    BY DEF AcceptViewer
<1>10. OpenFails(v) => Move(v, {"opening"}, {"closed"})
    BY DEF OpenFails
<1>11. Bridge(v) => Move(v, {"opening"}, {"bridged"})
    BY DEF Bridge
<1>12. Unsplice(v) => Move(v, {"bridged"}, {"closed"})
    BY DEF Unsplice
<1> HIDE DEF Move
<1> QED
    BY <1>1, <1>2, <1>3, <1>4, <1>5, <1>6, <1>7, <1>8, <1>9, <1>10, <1>11, <1>12

\* The steps of v's serveConnect that move it and leave its locals alone.
Onward(v) ==
    \/ Authenticate(v) \/ SendAlert(v) \/ NotifyHost(v) \/ Await(v) \/ Forget(v)
    \/ AcceptViewer(v) \/ OpenFails(v) \/ Bridge(v) \/ Unsplice(v)

\* serveConnect writes its locals in three places only, and these are not they.
LEMMA OnwardKeeps ==
    ASSUME NEW v \in Viewer, Onward(v)
    PROVE  UNCHANGED <<vid, vpin, target, sess>>
BY DEF Onward, Authenticate, Locked, GoodPIN, BadPIN, LockOut, SendAlert,
       NotifyHost, Await, Forget, AcceptViewer, OpenFails, Bridge, Unsplice

\* Only its own steps change what serveConnect knows.
LEMMA ConnectSteps ==
    ASSUME Next
    PROVE  \/ UNCHANGED connectVars
           \/ \E v \in Viewer : \/ ViewerConnect(v) \/ Lookup(v)
                                \/ AskConsent(v) \/ Onward(v)
<1>1. CASE RelayNext /\ UNCHANGED agentVars
  <2>1. ASSUME NEW h \in Host, ServeControl(h) \/ LockExpires(h)
        PROVE  UNCHANGED connectVars
    BY <2>1 DEF ServeControl, Register, SendRegistered, Resolve, Deliver,
       ControlEnd, LockExpires
  <2>2. ASSUME NEW v \in Viewer, OpenData(v)
        PROVE  UNCHANGED connectVars
    BY <2>2 DEF OpenData, relayVars
  <2> QED
    BY <1>1, <2>1, <2>2 DEF RelayNext, ServeConnect, Onward
<1>2. CASE UNCHANGED relayVars
    BY <1>2 DEF relayVars
<1> QED
    BY <1>1, <1>2 DEF Next

\* Only serveControl changes the registry.
LEMMA RegistrySteps ==
    ASSUME Next
    PROVE  \/ UNCHANGED registryVars
           \/ \E h \in Host : Register(h) \/ SendRegistered(h) \/ ControlEnd(h)
<1>1. CASE RelayNext /\ UNCHANGED agentVars
  <2>1. ASSUME NEW h \in Host, Resolve(h) \/ Deliver(h) \/ LockExpires(h)
        PROVE  UNCHANGED registryVars
    BY <2>1 DEF Resolve, Deliver, LockExpires
  <2>2. ASSUME NEW v \in Viewer, ViewerConnect(v) \/ ServeConnect(v)
        PROVE  UNCHANGED registryVars
    BY <2>2 DEF ViewerConnect, ServeConnect, Lookup, Authenticate, SendAlert,
       AskConsent, NotifyHost, Await, Forget, AcceptViewer, OpenData, OpenFails,
       Bridge, Unsplice, relayVars
  <2> QED
    BY <1>1, <2>1, <2>2 DEF RelayNext, ServeControl
<1>2. CASE UNCHANGED relayVars
    BY <1>2 DEF relayVars
<1> QED
    BY <1>1, <1>2 DEF Next

\* Only awaitConsent writes the pending table, only resolve the result channels.
LEMMA ConsentSteps ==
    ASSUME Next
    PROVE  /\ \/ UNCHANGED pending
              \/ \E v \in Viewer : AskConsent(v) \/ Forget(v)
           /\ \/ UNCHANGED <<delivery, result>>
              \/ \E h \in Host : Resolve(h) \/ Deliver(h)
<1>1. CASE RelayNext /\ UNCHANGED agentVars
  <2>1. ASSUME NEW h \in Host,
               Register(h) \/ SendRegistered(h) \/ ControlEnd(h) \/ LockExpires(h)
        PROVE  UNCHANGED consentVars
    BY <2>1 DEF Register, SendRegistered, ControlEnd, LockExpires
  <2>2. ASSUME NEW h \in Host, Resolve(h) \/ Deliver(h)
        PROVE  UNCHANGED pending
    BY <2>2 DEF Resolve, Deliver
  <2>3. ASSUME NEW v \in Viewer, AskConsent(v) \/ Forget(v)
        PROVE  UNCHANGED <<delivery, result>>
    BY <2>3 DEF AskConsent, Forget
  <2>4. ASSUME NEW v \in Viewer, ViewerConnect(v) \/ ServeConnect(v)
        PROVE  UNCHANGED consentVars \/ AskConsent(v) \/ Forget(v)
    BY <2>4 DEF ViewerConnect, ServeConnect, Lookup, Authenticate, SendAlert,
       NotifyHost, Await, AcceptViewer, OpenData, OpenFails, Bridge, Unsplice,
       relayVars
  <2> QED
    BY <1>1, <2>1, <2>2, <2>3, <2>4 DEF RelayNext, ServeControl, consentVars
<1>2. CASE UNCHANGED relayVars
    BY <1>2 DEF relayVars, consentVars
<1> QED
    BY <1>1, <1>2 DEF Next

\* Only a host agent counts an accept.
LEMMA AcceptSteps ==
    ASSUME Next
    PROVE  \/ UNCHANGED accepts
           \/ \E h \in Host, a \in Answer : HostAnswer(h, a)
<1>1. CASE AgentNext /\ UNCHANGED relayVars
    BY <1>1 DEF AgentNext, HostConnect, HostStep, HostRegistered, HostUnexpected,
       HostIncoming, HostAlert, HostLost, HostEndStream, HostAcceptData, agentVars
<1>2. CASE UNCHANGED agentVars
    BY <1>2 DEF agentVars
<1> QED
    BY <1>1, <1>2 DEF Next

\* A message to the relay is added by the host and taken by serveControl.
LEMMA ToRelaySteps ==
    ASSUME Next
    PROVE  \/ UNCHANGED toRelay
           \/ \E h \in Host : \/ Register(h) \/ Resolve(h) \/ HostConnect(h)
                              \/ HostDrop(h) \/ \E a \in Answer : HostAnswer(h, a)
<1>1. CASE RelayNext /\ UNCHANGED agentVars
  <2>1. ASSUME NEW h \in Host,
               SendRegistered(h) \/ Deliver(h) \/ ControlEnd(h) \/ LockExpires(h)
        PROVE  UNCHANGED toRelay
    BY <2>1 DEF SendRegistered, Deliver, ControlEnd, LockExpires, wireVars
  <2>2. ASSUME NEW v \in Viewer, ViewerConnect(v) \/ ServeConnect(v)
        PROVE  UNCHANGED toRelay
    BY <2>2 DEF ViewerConnect, ServeConnect, Lookup, Authenticate, SendAlert,
       AskConsent, NotifyHost, Await, Forget, AcceptViewer, OpenData, OpenFails,
       Bridge, Unsplice, wireVars
  <2> QED
    BY <1>1, <2>1, <2>2 DEF RelayNext, ServeControl
<1>2. CASE AgentNext /\ UNCHANGED relayVars
    BY <1>2 DEF AgentNext, HostStep, HostRegistered, HostUnexpected, HostIncoming,
       HostAlert, HostLost, HostEndStream, HostAcceptData, wireVars
<1>3. CASE NetworkNext
    BY <1>3 DEF NetworkNext, ViewerLeave
<1> QED
    BY <1>1, <1>2, <1>3 DEF Next

\* Data channels are opened and closed by these steps only.
LEMMA DataSteps ==
    ASSUME Next
    PROVE  \/ UNCHANGED <<data, stream>>
           \/ \E v \in Viewer :
                 \/ OpenData(v) /\ UNCHANGED stream
                 \/ OpenFails(v) /\ UNCHANGED stream
                 \/ Unsplice(v) /\ UNCHANGED stream
                 \/ HostEndStream(v) \/ HostAcceptData(target[v], v)
<1>1. CASE RelayNext /\ UNCHANGED agentVars
  <2>1. ASSUME NEW h \in Host, ServeControl(h) \/ LockExpires(h)
        PROVE  UNCHANGED data
    BY <2>1 DEF ServeControl, Register, SendRegistered, Resolve, Deliver,
       ControlEnd, LockExpires, wireVars
  <2>2. ASSUME NEW v \in Viewer, ViewerConnect(v) \/ ServeConnect(v)
        PROVE  UNCHANGED data \/ OpenData(v) \/ OpenFails(v) \/ Unsplice(v)
    BY <2>2 DEF ViewerConnect, ServeConnect, Lookup, Authenticate, SendAlert,
       AskConsent, NotifyHost, Await, Forget, AcceptViewer, Bridge, wireVars
  <2> QED
    BY <1>1, <2>1, <2>2 DEF RelayNext, agentVars
<1>2. CASE AgentNext /\ UNCHANGED relayVars
    BY <1>2 DEF AgentNext, HostConnect, HostStep, HostRegistered, HostUnexpected,
       HostDrop, HostIncoming, HostAlert, HostLost, HostAnswer, agentVars,
       wireVars
<1>3. CASE NetworkNext /\ UNCHANGED <<relayVars, agentVars>>
    BY <1>3 DEF NetworkNext, HostDrop, ViewerLeave, agentVars
<1> QED
    BY <1>1, <1>2, <1>3 DEF Next

\* Only Serve and Connect of a host change where it is.
LEMMA AgentSteps ==
    ASSUME Next
    PROVE  \/ UNCHANGED <<hpc, asked>>
           \/ \E h \in Host : \/ HostConnect(h) \/ HostStep(h)
                              \/ \E a \in Answer : HostAnswer(h, a)
<1>1. CASE AgentNext /\ UNCHANGED relayVars
    BY <1>1 DEF AgentNext, HostEndStream, HostAcceptData
<1>2. CASE UNCHANGED agentVars
    BY <1>2 DEF agentVars
<1> QED
    BY <1>1, <1>2 DEF Next

-----------------------------------------------------------------------------
(* Each step keeps each part of DeskInv *)

\* serveConnect and Serve keep the locals their program counter promises.
LEMMA LocalsOKStep ==
    ASSUME DeskInv, TypeOK', Next PROVE LocalsOK'
<1> USE WireAssumption
<1>0. TypeOK /\ LocalsOK
    BY DEF DeskInv
<1>1. CASE UNCHANGED connectVars
  <2>1. CASE UNCHANGED <<hpc, asked>>
    BY <1>0, <1>1, <2>1 DEF LocalsOK, connectVars
  <2>2. ASSUME NEW h \in Host,
               HostConnect(h) \/ HostStep(h) \/ \E a \in Answer : HostAnswer(h, a)
        PROVE  \A g \in Host : hpc'[g] = "asking" => asked'[g] # None
    <3> USE <1>0 DEF LocalsOK, TypeOK, AgentTypeOK, Enter
    <3>1. CASE HostIncoming(h)
      <4>1. Head(toHost[h]).session \in Session
        <5>1. /\ toHost[h] \in Seq(FromRelay) /\ toHost[h] # <<>>
              /\ Head(toHost[h]).op = "incoming"
          BY <3>1 DEF HostIncoming, Arrived, WireTypeOK
        <5>2. Head(toHost[h]) \in FromRelay
          BY <5>1
        <5> HIDE DEF TypeOK
        <5> QED
          BY <5>1, <5>2 DEF FromRelay
      <4> QED
        BY <3>1, <4>1 DEF HostIncoming
    <3>2. CASE HostAlert(h)
      BY <3>2 DEF HostAlert, agentVars
    <3>3. CASE \/ HostConnect(h) \/ HostRegistered(h) \/ HostUnexpected(h)
               \/ HostLost(h)
      BY <3>3 DEF HostConnect, HostRegistered, HostUnexpected, HostLost
    <3>4. ASSUME NEW a \in Answer, HostAnswer(h, a)
          PROVE  \A g \in Host : hpc'[g] = "asking" => asked'[g] # None
      <4>1. /\ hpc'[h] # "asking"
            /\ \A g \in Host \ {h} : hpc'[g] = hpc[g] /\ asked'[g] = asked[g]
        BY <3>4 DEF HostAnswer
      <4> QED
        BY <4>1
    <3> QED
      BY <2>2, <3>1, <3>2, <3>3, <3>4 DEF HostStep
  <2> QED
    BY <1>0, <1>1, <2>1, <2>2, AgentSteps DEF LocalsOK, connectVars
<1>2. ASSUME NEW v \in Viewer,
             ViewerConnect(v) \/ Lookup(v) \/ AskConsent(v) \/ Onward(v)
      PROVE  LocalsOK'
  <2>1. UNCHANGED <<hpc, asked>>
    <3>1. ViewerConnect(v) \/ ServeConnect(v)
      BY <1>2 DEF Onward, ServeConnect
    <3>2. vpc' # vpc
      BY <1>0, <1>2, Moves DEF TypeOK, RelayTypeOK, Onward, Move
    <3>3. ~UNCHANGED relayVars
      BY <3>2 DEF relayVars, connectVars
    <3> QED
      BY <3>3 DEF Next, agentVars
  <2> USE <1>0, <2>1 DEF TypeOK, RelayTypeOK
  <2>2. CASE ViewerConnect(v)
    <3>1. vid'[v] \in ID /\ vpin'[v] \in PIN
      BY <2>2 DEF ViewerConnect
    <3>2. \A w \in Viewer \ {v} : vid'[w] = vid[w] /\ vpin'[w] = vpin[w]
      BY <2>2 DEF ViewerConnect
    <3>3. UNCHANGED <<target, sess>>
      BY <2>2 DEF ViewerConnect
    <3> QED
      BY <2>2, <3>1, <3>2, <3>3, Moves DEF LocalsOK, Move
  <2>3. CASE Lookup(v)
    <3>1. vpc'[v] # "rejected" => target'[v] # None
      BY <2>3, GoOnly DEF Lookup
    <3>2. \A w \in Viewer \ {v} : target'[w] = target[w]
      BY <2>3 DEF Lookup
    <3>3. UNCHANGED <<vid, vpin, sess>>
      BY <2>3 DEF Lookup
    <3> QED
      BY <2>3, <3>1, <3>2, <3>3, Moves DEF LocalsOK, Move
  <2>4. CASE AskConsent(v)
    <3>1. sess'[v] # None /\ \A w \in Viewer \ {v} : sess'[w] = sess[w]
      BY <2>4 DEF AskConsent
    <3>2. UNCHANGED <<vid, vpin, target>>
      BY <2>4 DEF AskConsent
    <3> QED
      BY <2>4, <3>1, <3>2, Moves DEF LocalsOK, Move
  <2>5. CASE Onward(v)
    <3>1. \/ Move(v, {"auth", "alert"}, {"rejected", "ask", "alert"})
          \/ Move(v, {"notify", "waiting", "granted", "denied", "accepting",
                      "opening", "bridged"},
                     {"waiting", "granted", "denied", "accepting", "rejected",
                      "opening", "bridged", "closed"})
      BY <2>5, Moves DEF Onward, Move
    <3>2. UNCHANGED <<vid, vpin, target, sess>>
      BY <2>5, OnwardKeeps
    <3> QED
      BY <3>1, <3>2 DEF LocalsOK, Move
  <2> QED
    BY <1>2, <2>2, <2>3, <2>4, <2>5
<1> QED
    BY <1>1, <1>2, ConnectSteps

\* Once serveConnect has found a host, or drawn a session, it stays with it.
LEMMA LocalsStay ==
    ASSUME TypeOK, LocalsOK, Next, NEW v \in Viewer
    PROVE  /\ target[v] # None => target'[v] = target[v]
           /\ sess[v] # None => sess'[v] = sess[v]
<1> USE DEF TypeOK, RelayTypeOK
<1>1. CASE UNCHANGED connectVars
    BY <1>1 DEF connectVars
<1>2. ASSUME NEW w \in Viewer, ViewerConnect(w)
      PROVE  UNCHANGED <<target, sess>>
    BY <1>2 DEF ViewerConnect
<1>3. ASSUME NEW w \in Viewer, Lookup(w)
      PROVE  (target[v] # None => target'[v] = target[v]) /\ UNCHANGED sess
    BY <1>3 DEF Lookup, LocalsOK
<1>4. ASSUME NEW w \in Viewer, AskConsent(w)
      PROVE  (sess[v] # None => sess'[v] = sess[v]) /\ UNCHANGED target
    BY <1>4 DEF AskConsent, LocalsOK
<1> QED
    BY <1>1, <1>2, <1>3, <1>4, OnwardKeeps, ConnectSteps

\* Only a host's own control loop adds or removes its entry.
LEMMA RegistryOwnedStep ==
    ASSUME DeskInv, TypeOK', Next PROVE RegistryOwned'
<1> USE WireAssumption DEF DeskInv, TypeOK, RelayTypeOK
<1>1. CASE UNCHANGED registryVars
    BY <1>1 DEF RegistryOwned, registryVars
<1>2. ASSUME NEW h \in Host, Register(h) PROVE RegistryOwned'
  <2>1. regId[h] = None /\ ctl[h] = "reading" /\ ctl' = [ctl EXCEPT ![h] = "registering"]
    BY <1>2 DEF Register
  <2>2. PICK i \in ID : /\ hosts[i] = None
                        /\ hosts' = [hosts EXCEPT ![i] = h]
                        /\ regId' = [regId EXCEPT ![h] = i]
    BY <1>2 DEF Register, FreeIDs
  <2>3. \A j \in ID : hosts[j] # h
    BY <2>1 DEF RegistryOwned
  <2> QED
    BY <2>1, <2>2, <2>3 DEF RegistryOwned
<1>3. ASSUME NEW h \in Host, SendRegistered(h) PROVE RegistryOwned'
    BY <1>3 DEF SendRegistered, RegistryOwned
<1>4. ASSUME NEW h \in Host, ControlEnd(h) PROVE RegistryOwned'
  <2>1. /\ ctl[h] = "reading" /\ ctl' = [ctl EXCEPT ![h] = "ended"]
        /\ hosts' = Unregistered(h) /\ regId' = regId
    BY <1>4 DEF ControlEnd
  <2>2. \A i \in ID : regId[h] = i => hosts[i] = h
    BY <2>1 DEF RegistryOwned
  <2> QED
    BY <2>1, <2>2 DEF RegistryOwned, Unregistered
<1> QED
    BY <1>1, <1>2, <1>3, <1>4, RegistrySteps

\* A host keeps the ID and the PIN it registered under.
LEMMA RegistrationStays ==
    ASSUME TypeOK, Next, NEW h \in Host, regId[h] # None
    PROVE  regId'[h] = regId[h] /\ regPin'[h] = regPin[h]
BY RegistrySteps DEF TypeOK, RelayTypeOK, registryVars, Register, SendRegistered,
   ControlEnd

\* A target is found under the ID the viewer named, its PIN never changes.
LEMMA ClaimOKStep ==
    ASSUME DeskInv, TypeOK', Next PROVE ClaimOK'
<1> DEFINE Named(v) == target[v] # None => regId[target[v]] = vid[v]
           In == {"ask", "notify", "waiting", "granted", "denied",
                  "accepting", "opening", "bridged", "closed"}
<1> USE WireAssumption DEF DeskInv, TypeOK, RelayTypeOK
<1>1. \A v \in Viewer : /\ Named(v)
                        /\ vpc[v] \in In => vpin[v] = regPin[target[v]]
    BY DEF ClaimOK
<1>2. \A v \in Viewer : vid[v] # None \/ target[v] = None
    BY DEF LocalsOK
<1>3. \A v \in Viewer : target[v] # None =>
           /\ target'[v] = target[v] /\ target[v] \in Host
           /\ regId'[target[v]] = regId[target[v]]
           /\ regPin'[target[v]] = regPin[target[v]]
    BY <1>1, <1>2, LocalsStay, RegistrationStays
<1>4. \A v \in Viewer : vpc[v] \in In => target[v] # None
    BY DEF LocalsOK
<1>5. CASE UNCHANGED connectVars
    BY <1>1, <1>3, <1>4, <1>5 DEF ClaimOK, connectVars
<1>6. ASSUME NEW v \in Viewer, ViewerConnect(v) PROVE ClaimOK'
  <2>1. target[v] = None /\ target' = target
    BY <1>6, Moves DEF ViewerConnect, LocalsOK
  <2>2. \A w \in Viewer \ {v} : vid'[w] = vid[w] /\ vpin'[w] = vpin[w]
    BY <1>6 DEF ViewerConnect
  <2> QED
    BY <1>1, <1>3, <1>4, <1>6, <2>1, <2>2, Moves DEF ClaimOK, Move
<1>7. ASSUME NEW v \in Viewer, Lookup(v) PROVE ClaimOK'
  <2>1. /\ target'[v] = hosts[vid[v]] /\ vid[v] \in ID
        /\ \A w \in Viewer \ {v} : target'[w] = target[w]
        /\ UNCHANGED <<vid, vpin, regId, regPin>>
    BY <1>7 DEF Lookup, LocalsOK, registryVars
  <2>2. target'[v] # None => target'[v] \in Host /\ regId[target'[v]] = vid[v]
    BY <2>1 DEF RegistryOwned
  <2>3. vpc'[v] \notin In /\ \A w \in Viewer \ {v} : vpc'[w] = vpc[w]
    BY <1>7, Moves DEF Move
  <2> HIDE DEF DeskInv, TypeOK, RelayTypeOK
  <2> QED
    BY <1>1, <2>1, <2>2, <2>3 DEF ClaimOK
<1>8. ASSUME NEW v \in Viewer, AskConsent(v) \/ Onward(v),
             ~Authenticate(v)
      PROVE  ClaimOK'
  <2>1. UNCHANGED <<vid, vpin, target>>
    BY <1>8, OnwardKeeps DEF AskConsent
  <2>2. vpc'[v] \in In => vpc[v] \in In
    BY <1>8, Moves DEF Onward, Move
  <2>3. \A w \in Viewer \ {v} : vpc'[w] = vpc[w]
    BY <1>8, Moves DEF Onward, Move
  <2> HIDE DEF DeskInv, TypeOK, RelayTypeOK
  <2> QED
    BY <1>1, <1>3, <1>4, <2>1, <2>2, <2>3 DEF ClaimOK
<1>9. ASSUME NEW v \in Viewer, Authenticate(v) PROVE ClaimOK'
  <2>1. UNCHANGED <<vid, vpin, target>>
    BY <1>9, OnwardKeeps DEF Onward
  <2>2. vpc'[v] = "ask" => vpin[v] = regPin[target[v]]
    BY <1>9, GoOnly DEF Authenticate, Locked, GoodPIN, BadPIN, LockOut,
       AfterLocked, PinMatches
  <2>3. target[v] # None
    BY <1>9 DEF Authenticate, LocalsOK
  <2>4. /\ vpc'[v] \in {"rejected", "ask", "alert"}
        /\ \A w \in Viewer \ {v} : vpc'[w] = vpc[w]
    BY <1>9, Moves DEF Move
  <2>5. vpc'[v] \in In => vpin[v] = regPin[target[v]]
    BY <2>2, <2>4
  <2> HIDE DEF DeskInv, TypeOK, RelayTypeOK
  <2> QED
    BY <1>1, <1>3, <1>4, <2>1, <2>3, <2>4, <2>5 DEF ClaimOK
<1> QED
    BY <1>5, <1>6, <1>7, <1>8, <1>9, ConnectSteps

\* A pending entry is deleted by the goroutine that made it, and by no other.
LEMMA PendingLiveStep ==
    ASSUME DeskInv, TypeOK', Next PROVE PendingLive'
<1> DEFINE In == {"notify", "waiting", "granted", "denied"}
           Waits(v, h, s) == target[v] = h /\ sess[v] = s /\ vpc[v] \in In
<1> USE WireAssumption DEF DeskInv, TypeOK, RelayTypeOK
<1>1. \A h \in Host, s \in Session : pending[h][s] # None =>
         pending[h][s] \in Viewer /\ Waits(pending[h][s], h, s)
    BY DEF PendingLive
<1>2. \A v \in Viewer, h \in Host, s \in Session :
         Waits(v, h, s) => target'[v] = h /\ sess'[v] = s
    BY LocalsStay
<1> HIDE DEF DeskInv, TypeOK, RelayTypeOK
<1>3. ASSUME NEW v \in Viewer, AskConsent(v) PROVE PendingLive'
  <2> USE DEF DeskInv, TypeOK, RelayTypeOK
  <2>1. /\ target[v] \in Host /\ target' = target
        /\ vpc[v] = "ask" /\ \A w \in Viewer \ {v} : vpc'[w] = vpc[w]
    BY <1>3, Moves DEF AskConsent, LocalsOK, Move
  <2>2. \A h \in Host, s \in Session : pending[h][s] # v
    <3> HIDE DEF DeskInv, TypeOK, RelayTypeOK
    <3>1. v # None
      OBVIOUS
    <3> QED
      BY <1>1, <2>1, <3>1
  <2>3. PICK s \in Session :
           /\ sess' = [sess EXCEPT ![v] = s]
           /\ \/ UNCHANGED pending
              \/ pending' = [pending EXCEPT ![target[v]][s] = v] /\ Go(v, "notify")
    BY <1>3 DEF AskConsent
  <2>4. CASE UNCHANGED pending
    BY <1>1, <1>2, <2>1, <2>2, <2>4 DEF PendingLive
  <2>5. CASE pending' = [pending EXCEPT ![target[v]][s] = v] /\ Go(v, "notify")
    <3>1. \A h \in Host, t \in Session :
             pending'[h][t] = IF h = target[v] /\ t = s THEN v ELSE pending[h][t]
      BY <2>1, <2>5
    <3>2. vpc'[v] = "notify" /\ sess'[v] = s
      BY <2>3, <2>5, GoOnly
    <3> HIDE DEF DeskInv, TypeOK, RelayTypeOK
    <3>3. ASSUME NEW h \in Host, NEW t \in Session, pending'[h][t] # None
          PROVE  LET w == pending'[h][t] IN
                 target'[w] = h /\ sess'[w] = t /\ vpc'[w] \in In
      <4>1. CASE h = target[v] /\ t = s
        BY <2>1, <3>1, <3>2, <4>1
      <4>2. CASE ~(h = target[v] /\ t = s)
        <5>1. pending'[h][t] = pending[h][t]
          BY <3>1, <4>2
        <5>2. pending[h][t] \in Viewer \ {v} /\ Waits(pending[h][t], h, t)
          BY <1>1, <2>2, <3>3, <5>1
        <5> QED
          BY <1>2, <2>1, <5>1, <5>2
      <4> QED
        BY <4>1, <4>2
    <3> QED
      BY <3>3 DEF PendingLive
  <2> QED
    BY <2>3, <2>4, <2>5
<1>4. ASSUME NEW v \in Viewer, Forget(v) PROVE PendingLive'
  <2> USE DEF DeskInv, TypeOK, RelayTypeOK
  <2>1. /\ target[v] \in Host /\ sess[v] \in Session
        /\ \A w \in Viewer \ {v} : vpc'[w] = vpc[w]
    BY <1>4, Moves DEF Forget, LocalsOK, Move
  <2>2. pending' = [pending EXCEPT ![target[v]][sess[v]] = None]
    BY <1>4 DEF Forget, Forgotten
  <2>3. \A h \in Host, s \in Session :
           pending'[h][s] = IF h = target[v] /\ s = sess[v] THEN None
                            ELSE pending[h][s]
    BY <2>1, <2>2
  <2> QED
    BY <1>1, <1>2, <2>1, <2>3 DEF PendingLive
<1>5. CASE ~\E v \in Viewer : AskConsent(v) \/ Forget(v)
  <2>1. UNCHANGED pending
    BY <1>5, ConsentSteps
  <2>2. \A v \in Viewer : vpc[v] \in In => vpc'[v] \in In
    <3>1. ASSUME NEW v \in Viewer, ViewerConnect(v) \/ Lookup(v) \/ Onward(v)
          PROVE  \A w \in Viewer : vpc[w] \in In => vpc'[w] \in In
      BY <1>5, <3>1, Moves DEF Onward, Move, DeskInv, TypeOK, RelayTypeOK
    <3> QED
      BY <1>5, <3>1, ConnectSteps DEF connectVars
  <2> QED
    BY <1>1, <1>2, <2>1, <2>2 DEF PendingLive
<1> QED
    BY <1>3, <1>4, <1>5

\* A host's count of accepts never goes down, and an accept is counted before
\* it is on its way.
LEMMA AcceptsGrow ==
    ASSUME DeskInv, Next, NEW h \in Host, NEW s \in Session, accepts[h][s] > 0
    PROVE  accepts'[h][s] > 0
<1> USE DEF DeskInv, TypeOK, AgentTypeOK
<1>1. CASE UNCHANGED accepts
    BY <1>1
<1>2. ASSUME NEW g \in Host, NEW a \in Answer, HostAnswer(g, a)
      PROVE  accepts'[h][s] > 0
  <2>1. asked[g] \in Session /\ accepts[g] \in [Session -> Nat]
    BY <1>2, WireAssumption DEF HostAnswer, LocalsOK
  <2>2. CASE a = "accept"
    <3>1. accepts' = [accepts EXCEPT ![g][asked[g]] = accepts[g][asked[g]] + 1]
      BY <1>2, <2>2 DEF HostAnswer
    <3>2. accepts'[h][s] = accepts[h][s] \/ accepts'[h][s] = accepts[h][s] + 1
      BY <2>1, <3>1
    <3> QED
      BY <3>2
  <2>3. CASE a # "accept"
    BY <1>2, <2>3 DEF HostAnswer
  <2> QED
    BY <2>2, <2>3
<1> QED
    BY <1>1, <1>2, AcceptSteps

\* What is on its way to the relay was counted when it was sent.
LEMMA SentAccepted ==
    ASSUME DeskInv, Next, NEW h \in Host,
           NEW n \in 1..Len(toRelay'[h]), toRelay'[h][n].op = "accept", TypeOK'
    PROVE  accepts'[h][toRelay'[h][n].session] > 0
<1> DEFINE Counted(q, g, c) == \A k \in 1..Len(q[g]) :
              q[g][k].op = "accept" => /\ q[g][k].session \in Session
                                       /\ c[g][q[g][k].session] > 0
<1> USE DEF DeskInv, TypeOK, WireTypeOK
<1>1. \A g \in Host : Counted(toRelay, g, accepts)
    BY DEF AnswerOK, FromHost
<1>2. \A g \in Host : Counted(toRelay, g, accepts')
    BY <1>1, AcceptsGrow
<1>3. CASE UNCHANGED toRelay
    BY <1>2, <1>3
<1>4. ASSUME NEW g \in Host,
             Register(g) \/ Resolve(g) \/ HostDrop(g) \/ HostConnect(g)
      PROVE  Counted(toRelay', h, accepts')
  <2>1. \A f \in Host \ {g} : toRelay'[f] = toRelay[f]
    BY <1>4 DEF Register, Resolve, HostDrop, HostConnect
  <2>2. CASE h # g
    <3> HIDE DEF DeskInv, TypeOK, WireTypeOK
    <3>1. toRelay'[h] = toRelay[h]
      BY <2>1, <2>2
    <3> QED
      BY <1>2, <3>1
  <2>3. CASE Register(g) \/ Resolve(g)
    <3>1. toRelay[g] \in Seq(FromHost) /\ toRelay[g] # <<>>
          /\ toRelay'[g] = Tail(toRelay[g])
      BY <2>3 DEF Register, Resolve, Arrived
    <3>2. \A k \in 1..Len(toRelay'[g]) :
             k + 1 \in 1..Len(toRelay[g]) /\ toRelay'[g][k] = toRelay[g][k + 1]
      <4> HIDE DEF DeskInv, TypeOK, WireTypeOK
      <4> QED
        BY <3>1
    <3>3. CASE h = g
      <4> HIDE DEF DeskInv, TypeOK, WireTypeOK
      <4> QED
        BY <1>2, <3>2, <3>3
    <3> QED
      BY <2>2, <3>3
  <2>4. CASE HostDrop(g)
    <3>1. toRelay[g] \in Seq(FromHost)
      OBVIOUS
    <3>2. PICK m \in 0..Len(toRelay[g]) :
             toRelay' = [toRelay EXCEPT ![g] = SubSeq(toRelay[g], 1, m)]
      BY <2>4 DEF HostDrop
    <3>3. \A k \in 1..Len(toRelay'[g]) :
             k \in 1..Len(toRelay[g]) /\ toRelay'[g][k] = toRelay[g][k]
      BY <3>1, <3>2
    <3>4. CASE h = g
      <4> HIDE DEF DeskInv, TypeOK, WireTypeOK
      <4> QED
        BY <1>2, <3>3, <3>4
    <3> QED
      BY <2>2, <3>4
  <2>5. CASE HostConnect(g)
    <3>1. toRelay'[g] = <<Msg("register", None)>>
      BY <2>5 DEF HostConnect
    <3>2. Len(toRelay'[g]) = 1 /\ toRelay'[g][1].op = "register"
      BY <3>1 DEF Msg
    <3>3. CASE h = g
      <4> HIDE DEF DeskInv, TypeOK, WireTypeOK
      <4>1. \A k \in 1..Len(toRelay'[g]) : toRelay'[g][k].op # "accept"
        BY <3>2
      <4> QED
        BY <3>3, <4>1
    <3> QED
      BY <2>2, <3>3
  <2> QED
    BY <1>4, <2>3, <2>4, <2>5
<1>5. ASSUME NEW g \in Host, NEW a \in Answer, HostAnswer(g, a)
      PROVE  Counted(toRelay', h, accepts')
  <2>1. asked[g] \in Session /\ toRelay[g] \in Seq(FromHost)
    BY <1>5, WireAssumption DEF HostAnswer, LocalsOK, AgentTypeOK
  <2>2. CASE UNCHANGED toRelay
    BY <1>2, <2>2
  <2>3. CASE SendToRelay(g, Msg(a, asked[g]))
    <3>1. toRelay' = [toRelay EXCEPT ![g] = Append(toRelay[g], Msg(a, asked[g]))]
      BY <2>3 DEF SendToRelay
    <3>2. a = "accept" => accepts'[g][asked[g]] > 0
      <4>1. a = "accept" => accepts' =
               [accepts EXCEPT ![g][asked[g]] = accepts[g][asked[g]] + 1]
        BY <1>5 DEF HostAnswer
      <4> QED
        BY <2>1, <4>1 DEF AgentTypeOK
    <3>3. \A k \in 1..Len(toRelay'[g]) :
             \/ k \in 1..Len(toRelay[g]) /\ toRelay'[g][k] = toRelay[g][k]
             \/ toRelay'[g][k] = Msg(a, asked[g])
      BY <2>1, <3>1
    <3>4. \A f \in Host \ {g} : toRelay'[f] = toRelay[f]
      BY <3>1
    <3>5. CASE h = g
      <4>1. Msg(a, asked[g]).op = a /\ Msg(a, asked[g]).session = asked[g]
        BY DEF Msg
      <4>2. ASSUME NEW k \in 1..Len(toRelay'[g]), toRelay'[g][k].op = "accept"
            PROVE  /\ toRelay'[g][k].session \in Session
                   /\ accepts'[g][toRelay'[g][k].session] > 0
        BY <1>2, <2>1, <3>2, <3>3, <4>1, <4>2
      <4> QED
        BY <3>5, <4>2
    <3> QED
      BY <1>2, <3>4, <3>5
  <2> QED
    BY <1>5, <2>2, <2>3 DEF HostAnswer
<1> QED
    BY <1>3, <1>4, <1>5, <1>2, ToRelaySteps

\* Whom an answer may reach, and wake up: a viewer its session belongs to.
LEMMA DeliveryStep ==
    ASSUME DeskInv, TypeOK', Next, NEW h \in Host,
           delivery'[h] # None, delivery'[h].to # None
    PROVE  LET v == delivery'[h].to IN
           /\ target'[v] = h /\ sess'[v] # None
           /\ delivery'[h].answer = "accept" => accepts'[h][sess'[v]] > 0
<1> DEFINE For(d) == LET v == d.to IN
              /\ v \in Viewer /\ target[v] = h /\ sess[v] # None
              /\ sess[v] \in Session
              /\ d.answer = "accept" => accepts[h][sess[v]] > 0
<1> USE WireAssumption
<1>1. For(delivery'[h])
  <2>1. delivery[h] # None /\ delivery[h].to # None => For(delivery[h])
    BY DEF DeskInv, TypeOK, RelayTypeOK, AnswerOK, Delivery
  <2>2. CASE UNCHANGED delivery
    BY <2>1, <2>2
  <2>3. ASSUME NEW g \in Host, Resolve(g) PROVE For(delivery'[h])
    <3>1. CASE h = g
      <4> DEFINE m == Head(toRelay[g])
      <4>1. /\ toRelay[g] \in Seq(FromHost) /\ toRelay[g] # <<>>
            /\ m.op \in Answer
        BY <2>3 DEF Resolve, Arrived, DeskInv, TypeOK, WireTypeOK
      <4>2. m = toRelay[g][1] /\ m \in FromHost /\ 1 \in 1..Len(toRelay[g])
        BY <4>1
      <4>3. m.session \in Session
        BY <4>1, <4>2 DEF FromHost, Answer
      <4>4. m.op = "accept" => accepts[g][m.session] > 0
        BY <4>2 DEF DeskInv, AnswerOK
      <4>5. delivery'[g] = [to |-> pending[g][m.session], answer |-> m.op]
        BY <2>3 DEF Resolve, DeskInv, TypeOK, RelayTypeOK
      <4>6. pending[g][m.session] \in Viewer \cup {None}
        BY <4>3 DEF DeskInv, TypeOK, RelayTypeOK
      <4>7. LET v == pending[g][m.session] IN
               v # None => target[v] = g /\ sess[v] = m.session
        BY <4>3 DEF DeskInv, PendingLive
      <4> HIDE DEF m
      <4> QED
        BY <3>1, <4>3, <4>4, <4>5, <4>6, <4>7
    <3>2. CASE h # g
      BY <2>1, <2>3, <3>2 DEF Resolve, DeskInv, TypeOK, RelayTypeOK
    <3> QED
      BY <3>1, <3>2
  <2>4. ASSUME NEW g \in Host, Deliver(g) PROVE For(delivery'[h])
    BY <2>1, <2>4 DEF Deliver, DeskInv, TypeOK, RelayTypeOK
  <2> QED
    BY <2>2, <2>3, <2>4, ConsentSteps
<1>2. LET v == delivery'[h].to IN target'[v] = target[v] /\ sess'[v] = sess[v]
    BY <1>1, LocalsStay DEF DeskInv
<1> QED
    BY <1>1, <1>2, AcceptsGrow

\* So it is with what a viewer finds in its channel ...
LEMMA ResultStep ==
    ASSUME DeskInv, TypeOK', Next, NEW v \in Viewer, result'[v] # None
    PROVE  /\ sess'[v] # None
           /\ result'[v] = "accept" => accepts'[target'[v]][sess'[v]] > 0
<1> DEFINE For(r) == /\ sess[v] \in Session /\ target[v] \in Host
                     /\ r = "accept" => accepts[target[v]][sess[v]] > 0
<1> USE WireAssumption
<1>1. For(result'[v])
  <2>1. result[v] # None => For(result[v])
    BY DEF DeskInv, TypeOK, RelayTypeOK, AnswerOK, LocalsOK
  <2>2. CASE UNCHANGED result
    BY <2>1, <2>2
  <2>3. ASSUME NEW h \in Host, Deliver(h) PROVE For(result'[v])
    <3>1. CASE result'[v] = result[v]
      BY <2>1, <3>1
    <3>2. CASE result'[v] # result[v]
      <4>1. v = delivery[h].to /\ result'[v] = delivery[h].answer /\ delivery[h] # None
        BY <2>3, <3>2 DEF Deliver, Recipients
      <4>2. /\ target[v] = h /\ sess[v] # None
            /\ delivery[h].answer = "accept" => accepts[h][sess[v]] > 0
        BY <4>1 DEF DeskInv, AnswerOK
      <4>3. sess[v] \in Session
        BY <4>2 DEF DeskInv, TypeOK, RelayTypeOK
      <4> QED
        BY <4>1, <4>2, <4>3
    <3> QED
      BY <3>1, <3>2
  <2>4. ASSUME NEW h \in Host, Resolve(h) PROVE UNCHANGED result
    BY <2>4 DEF Resolve
  <2> QED
    BY <2>2, <2>3, <2>4, ConsentSteps
<1>2. target'[v] = target[v] /\ sess'[v] = sess[v]
    BY <1>1, LocalsStay DEF DeskInv
<1> QED
    BY <1>1, <1>2, AcceptsGrow

\* ... and with where serveConnect has got.
LEMMA LetInStep ==
    ASSUME DeskInv, TypeOK', Next, NEW v \in Viewer,
           vpc'[v] \in {"granted", "accepting", "opening", "bridged", "closed"}
    PROVE  target'[v] \in Unattended \/ accepts'[target'[v]][sess'[v]] > 0
<1> DEFINE In == {"granted", "accepting", "opening", "bridged", "closed"}
           Allowed == target[v] \in Unattended \/ accepts[target[v]][sess[v]] > 0
<1> USE WireAssumption
<1>1. vpc[v] \in In => Allowed
    BY DEF DeskInv, AnswerOK
<1>2. vpc[v] \in In \cup {"waiting"} => target[v] \in Host /\ sess[v] \in Session
    BY DEF DeskInv, TypeOK, RelayTypeOK, LocalsOK
<1>3. target[v] \in Host /\ sess[v] \in Session /\ Allowed
         => target'[v] \in Unattended \/ accepts'[target'[v]][sess'[v]] > 0
    BY LocalsStay, AcceptsGrow DEF DeskInv
<1>4. CASE vpc[v] \in In
    BY <1>1, <1>2, <1>3, <1>4
<1>5. CASE vpc[v] \notin In
  <2>1. Await(v) \/ AskConsent(v)
    <3>1. ~UNCHANGED connectVars
      BY <1>5 DEF connectVars
    <3>2. ASSUME NEW w \in Viewer, ViewerConnect(w) \/ Lookup(w) \/ AskConsent(w)
                                   \/ Onward(w)
          PROVE  w = v /\ (Await(v) \/ AskConsent(v))
      <4> USE DEF Move
      <4>1. vpc \in [Viewer -> VPC] /\ w \in Viewer
        BY DEF DeskInv, TypeOK, RelayTypeOK
      <4>2. \A u \in Viewer \ {w} : vpc'[u] = vpc[u]
        BY <3>2, <4>1, Moves DEF Onward
      <4>3. w = v
        BY <1>5, <4>2
      <4>4. AskConsent(w) \/ Await(w) \/ vpc[w] \in In \/ vpc'[w] \notin In
        BY <3>2, <4>1, Moves DEF Onward
      <4> QED
        BY <1>5, <4>3, <4>4
    <3> QED
      BY <3>1, <3>2, ConnectSteps
  <2>2. CASE Await(v)
    <3>1. vpc'[v] = "granted" => result[v] = "accept"
      BY <2>2, GoOnly DEF Await, OnTimeout, DeskInv, TypeOK, RelayTypeOK
    <3>2. vpc[v] = "waiting" /\ vpc'[v] \in {"granted", "denied"}
      BY <2>2, Moves DEF Move, DeskInv, TypeOK, RelayTypeOK
    <3>3. result[v] = "accept"
      BY <3>1, <3>2
    <3>4. Allowed
      BY <3>3 DEF DeskInv, AnswerOK
    <3> QED
      BY <1>2, <1>3, <3>2, <3>4
  <2>3. CASE AskConsent(v)
    <3>1. target' = target /\ vpc'[v] # "notify"
      BY <2>3 DEF AskConsent
    <3>2. target[v] \in Unattended
      BY <2>3, <3>1, GoOnly DEF AskConsent, DeskInv, TypeOK, RelayTypeOK
    <3> QED
      BY <3>1, <3>2
  <2> QED
    BY <2>1, <2>2, <2>3
<1> QED
    BY <1>4, <1>5

\* An accept is for the same session at every hop of its way.
LEMMA AnswerOKStep ==
    ASSUME DeskInv, TypeOK', Next PROVE AnswerOK'
<1>1. \A h \in Host : \A n \in 1..Len(toRelay'[h]) :
         toRelay'[h][n].op = "accept" => accepts'[h][toRelay'[h][n].session] > 0
    BY SentAccepted
<1>2. \A h \in Host : delivery'[h] # None /\ delivery'[h].to # None =>
         LET v == delivery'[h].to IN
         /\ target'[v] = h /\ sess'[v] # None
         /\ delivery'[h].answer = "accept" => accepts'[h][sess'[v]] > 0
    BY DeliveryStep
<1>3. \A v \in Viewer : result'[v] # None =>
         /\ sess'[v] # None
         /\ result'[v] = "accept" => accepts'[target'[v]][sess'[v]] > 0
    BY ResultStep
<1>4. \A v \in Viewer :
         vpc'[v] \in {"granted", "accepting", "opening", "bridged", "closed"} =>
            target'[v] \in Unattended \/ accepts'[target'[v]][sess'[v]] > 0
    BY LetInStep
<1> QED
    BY <1>1, <1>2, <1>3, <1>4 DEF AnswerOK

\* A data channel is asked for from "opening" on, and nothing leads back.
LEMMA StreamOKStep ==
    ASSUME DeskInv, TypeOK', Next PROVE StreamOK'
<1> DEFINE In == {"opening", "bridged", "closed"}
<1> USE DEF DeskInv, TypeOK, RelayTypeOK
<1>1. \A v \in Viewer : data[v] # "none" \/ stream[v] => vpc[v] \in In
    BY DEF StreamOK
<1>2. \A v \in Viewer : vpc[v] \in In => vpc'[v] \in In
  <2>1. ASSUME NEW v \in Viewer,
               ViewerConnect(v) \/ Lookup(v) \/ AskConsent(v) \/ Onward(v)
        PROVE  \A w \in Viewer : vpc[w] \in In => vpc'[w] \in In
    BY <2>1, Moves DEF Onward, Move
  <2> QED
    BY <2>1, ConnectSteps DEF connectVars
<1>3. CASE UNCHANGED <<data, stream>>
    BY <1>1, <1>2, <1>3 DEF StreamOK
<1>4. ASSUME NEW v \in Viewer, vpc[v] \in In,
             \A w \in Viewer \ {v} : data'[w] = data[w] /\ stream'[w] = stream[w]
      PROVE  StreamOK'
    BY <1>1, <1>2, <1>4 DEF StreamOK
<1>5. ASSUME NEW v \in Viewer, UNCHANGED stream,
             OpenData(v) \/ OpenFails(v) \/ Unsplice(v)
      PROVE  StreamOK'
  <2>1. vpc[v] \in In
    BY <1>5 DEF OpenData, OpenFails, Unsplice
  <2>2. \A w \in Viewer \ {v} : data'[w] = data[w]
    BY <1>5 DEF OpenData, OpenFails, Unsplice, DataClosed, WireTypeOK
  <2> QED
    BY <1>4, <1>5, <2>1, <2>2
<1>6. ASSUME NEW v \in Viewer, HostEndStream(v) \/ HostAcceptData(target[v], v)
      PROVE  StreamOK'
  <2>1. vpc[v] \in In
    BY <1>1, <1>6 DEF HostEndStream, HostAcceptData
  <2>2. \A w \in Viewer \ {v} : data'[w] = data[w] /\ stream'[w] = stream[w]
    BY <1>6 DEF HostEndStream, HostAcceptData, WireTypeOK, AgentTypeOK
  <2> QED
    BY <1>4, <2>1, <2>2
<1> QED
    BY <1>3, <1>5, <1>6, DataSteps

-----------------------------------------------------------------------------
(* The theorems *)

\* The initial state satisfies it.
LEMMA InitInv == ASSUME Init PROVE DeskInv
BY WireAssumption, RelayAssumption
   DEF Init, WireInit, RelayInit, AgentInit, DeskInv, TypeOK, WireTypeOK,
       RelayTypeOK, AgentTypeOK, Conn, VPC, LocalsOK, RegistryOwned, ClaimOK,
       PendingLive, AnswerOK, StreamOK

\* The inductive invariant: registry, goroutines and messages in flight agree
\* in every reachable state, whatever the order of steps and failures.
THEOREM DeskInvariant == Spec => []DeskInv
<1>1. Init => DeskInv
    BY InitInv
<1>2. DeskInv /\ [Next]_vars => DeskInv'
  <2>1. ASSUME DeskInv, Next PROVE DeskInv'
    <3>1. TypeOK'
        BY <2>1, TypeStep DEF DeskInv
    <3> QED
        BY <2>1, <3>1, LocalsOKStep, RegistryOwnedStep, ClaimOKStep,
           PendingLiveStep, AnswerOKStep, StreamOKStep DEF DeskInv
  <2>2. ASSUME DeskInv, UNCHANGED vars PROVE DeskInv'
      BY <2>2 DEF vars, wireVars, relayVars, registryVars, consentVars, pinVars,
         connectVars, agentVars, DeskInv, TypeOK, WireTypeOK, RelayTypeOK,
         AgentTypeOK, LocalsOK, RegistryOwned, ClaimOK, PendingLive, AnswerOK,
         StreamOK
  <2> QED
      BY <2>1, <2>2
<1> QED
    BY <1>1, <1>2, PTL DEF Spec

\* Every variable of relay, agents and network keeps its type.
THEOREM TypeCorrect == Spec => []TypeOK
<1>1. DeskInv => TypeOK
    BY DEF DeskInv
<1> QED
    BY <1>1, DeskInvariant, PTL

\* A host holds its ID from register to unregister and never loses it to the
\* exit of an earlier owner of the same ID.
THEOREM RegistryTheorem == Spec => []RegistryOwned
<1>1. DeskInv => RegistryOwned
    BY DEF DeskInv
<1> QED
    BY <1>1, DeskInvariant, PTL

\* The pending table leaks no entry and answers nobody who stopped waiting.
THEOREM PendingTheorem == Spec => []PendingLive
<1>1. DeskInv => PendingLive
    BY DEF DeskInv
<1> QED
    BY <1>1, DeskInvariant, PTL

\* Nobody watches a screen without that host's own ID and PIN and, if it is
\* attended, an accept of its user for that session.
THEOREM ConsentTheorem == Spec => []ScreenByConsent
<1>1. DeskInv => ScreenByConsent
    BY DEF DeskInv, TypeOK, RelayTypeOK, LocalsOK, ClaimOK, AnswerOK, StreamOK,
           ScreenByConsent
<1> QED
    BY <1>1, DeskInvariant, PTL

-----------------------------------------------------------------------------
(* One lockout, one alert *)

\* The viewers whose goroutine is about to announce a lockout of h.
Alerting(h) == {v \in Viewer : vpc[v] = "alert" /\ target[v] = h}

AlertInv == AlertPerLockout /\ \A h \in Host : IsFiniteSet(Alerting(h))

\* A step that is not authenticate's lockout or sendAlert counts nothing.
LEMMA AlertSteps ==
    ASSUME Next
    PROVE  \/ UNCHANGED <<lockouts, alerts>>
           \/ \E v \in Viewer : SendAlert(v) \/ (Authenticate(v) /\ LockOut(v))
<1>1. CASE RelayNext /\ UNCHANGED agentVars
  <2>1. ASSUME NEW h \in Host, ServeControl(h) \/ LockExpires(h)
        PROVE  UNCHANGED <<lockouts, alerts>>
    BY <2>1 DEF ServeControl, Register, SendRegistered, Resolve, Deliver,
       ControlEnd, LockExpires, pinVars
  <2>2. ASSUME NEW v \in Viewer, ViewerConnect(v) \/ ServeConnect(v)
        PROVE  \/ UNCHANGED <<lockouts, alerts>>
               \/ SendAlert(v) \/ (Authenticate(v) /\ LockOut(v))
    <3>1. CASE Authenticate(v)
      BY <3>1 DEF Authenticate, Locked, GoodPIN, BadPIN, pinVars
    <3>2. CASE ~Authenticate(v)
      BY <2>2, <3>2 DEF ViewerConnect, ServeConnect, Lookup,
         AskConsent, NotifyHost, Await, Forget, AcceptViewer, OpenData, OpenFails,
         Bridge, Unsplice, pinVars, relayVars
    <3> QED
      BY <3>1, <3>2
  <2> QED
    BY <1>1, <2>1, <2>2 DEF RelayNext
<1>2. CASE UNCHANGED relayVars
    BY <1>2 DEF relayVars, pinVars
<1> QED
    BY <1>1, <1>2 DEF Next

\* Nobody else starts or stops alerting.
LEMMA AlertingStays ==
    ASSUME DeskInv, Next,
           ~\E v \in Viewer : SendAlert(v) \/ (Authenticate(v) /\ LockOut(v))
    PROVE  \A h \in Host : Alerting(h)' = Alerting(h)
<1> USE DEF DeskInv, TypeOK, RelayTypeOK
<1>1. CASE UNCHANGED connectVars
    BY <1>1 DEF Alerting, connectVars
<1>2. ASSUME NEW v \in Viewer,
             ViewerConnect(v) \/ Lookup(v) \/ AskConsent(v) \/ Onward(v)
      PROVE  \A h \in Host : Alerting(h)' = Alerting(h)
  <2>1. vpc[v] # "alert" /\ vpc'[v] # "alert"
    <3>1. CASE Authenticate(v)
      <4>1. Locked(v) \/ GoodPIN(v) \/ BadPIN(v)
        BY <3>1 DEF Authenticate
      <4>2. vpc'[v] # "alert"
        BY <4>1, GoOnly DEF Locked, GoodPIN, BadPIN, AfterLocked
      <4> QED
        BY <3>1, <4>2 DEF Authenticate
    <3>2. CASE ~Authenticate(v)
      BY <1>2, <3>2, Moves DEF Onward, Move
    <3> QED
      BY <3>1, <3>2
  <2>2. \A w \in Viewer \ {v} : vpc'[w] = vpc[w]
    BY <1>2, Moves DEF Onward, Move
  <2>3. \A w \in Viewer : vpc[w] = "alert" => target[w] # None
    BY DEF LocalsOK
  <2>4. \A w \in Viewer : vpc[w] = "alert" => target'[w] = target[w]
    BY <2>3, LocalsStay
  <2> HIDE DEF DeskInv, TypeOK, RelayTypeOK
  <2> QED
    BY <2>1, <2>2, <2>4 DEF Alerting
<1> QED
    BY <1>1, <1>2, ConnectSteps

\* Whoever trips a lockout alerts, and whoever has alerted is counted.
LEMMA AlertStep == ASSUME DeskInv, AlertInv, Next PROVE AlertInv'
<1> USE DEF DeskInv, TypeOK, RelayTypeOK
<1>1. CASE ~\E v \in Viewer : SendAlert(v) \/ (Authenticate(v) /\ LockOut(v))
  <2>1. UNCHANGED <<lockouts, alerts>>
    BY <1>1, AlertSteps
  <2>2. \A h \in Host : Alerting(h)' = Alerting(h)
    BY <1>1, AlertingStays
  <2> HIDE DEF DeskInv, TypeOK, RelayTypeOK
  <2> QED
    BY <2>1, <2>2 DEF AlertInv, AlertPerLockout, Alerting
<1>2. ASSUME NEW v \in Viewer, SendAlert(v) PROVE AlertInv'
  <2>1. PICK h \in Host : target[v] = h
    BY <1>2 DEF SendAlert, LocalsOK
  <2>2. /\ target' = target /\ lockouts' = lockouts
        /\ alerts' = [alerts EXCEPT ![h] = @ + 1]
        /\ vpc[v] = "alert" /\ vpc'[v] = "rejected"
        /\ \A w \in Viewer \ {v} : vpc'[w] = vpc[w]
    BY <1>2, <2>1, GoOnly DEF SendAlert, LocalsOK
  <2>3. /\ alerts'[h] = alerts[h] + 1
        /\ \A g \in Host \ {h} : alerts'[g] = alerts[g]
        /\ \A g \in Host : lockouts[g] \in Nat /\ alerts[g] \in Nat
    BY <2>2
  <2> HIDE DEF DeskInv, TypeOK, RelayTypeOK
  <2>4. /\ Alerting(h)' = Alerting(h) \ {v} /\ v \in Alerting(h)
        /\ \A g \in Host \ {h} : Alerting(g)' = Alerting(g)
    BY <2>1, <2>2 DEF Alerting
  <2>5. \A g \in Host : /\ IsFiniteSet(Alerting(g)) /\ Cardinality(Alerting(g)) \in Nat
                        /\ lockouts[g] = alerts[g] + Cardinality(Alerting(g))
    BY FS_CardinalityType DEF AlertInv, AlertPerLockout, Alerting
  <2>6. /\ IsFiniteSet(Alerting(h)')
        /\ Cardinality(Alerting(h)') = Cardinality(Alerting(h)) - 1
    BY <2>4, <2>5, FS_RemoveElement
  <2>7. lockouts'[h] = alerts'[h] + Cardinality(Alerting(h)')
    BY <2>2, <2>3, <2>5, <2>6
  <2>8. ASSUME NEW g \in Host
        PROVE  /\ lockouts'[g] = alerts'[g] + Cardinality(Alerting(g)')
               /\ IsFiniteSet(Alerting(g)')
    BY <2>2, <2>3, <2>4, <2>5, <2>6, <2>7
  <2> QED
    BY <2>8 DEF AlertInv, AlertPerLockout, Alerting
<1>3. ASSUME NEW v \in Viewer, Authenticate(v), LockOut(v) PROVE AlertInv'
  <2>1. PICK h \in Host : target[v] = h
    BY <1>3 DEF Authenticate, LockOut, LocalsOK
  <2>2. /\ target' = target /\ alerts' = alerts
        /\ lockouts' = [lockouts EXCEPT ![h] = @ + 1]
        /\ vpc[v] = "auth" /\ vpc'[v] = "alert"
        /\ \A w \in Viewer \ {v} : vpc'[w] = vpc[w]
    BY <1>3, <2>1, GoOnly DEF Authenticate, LockOut, LocalsOK
  <2>3. /\ lockouts'[h] = lockouts[h] + 1
        /\ \A g \in Host \ {h} : lockouts'[g] = lockouts[g]
        /\ \A g \in Host : lockouts[g] \in Nat /\ alerts[g] \in Nat
    BY <2>2
  <2> HIDE DEF DeskInv, TypeOK, RelayTypeOK
  <2>4. /\ Alerting(h)' = Alerting(h) \cup {v} /\ v \notin Alerting(h)
        /\ \A g \in Host \ {h} : Alerting(g)' = Alerting(g)
    BY <2>1, <2>2 DEF Alerting
  <2>5. \A g \in Host : /\ IsFiniteSet(Alerting(g)) /\ Cardinality(Alerting(g)) \in Nat
                        /\ lockouts[g] = alerts[g] + Cardinality(Alerting(g))
    BY FS_CardinalityType DEF AlertInv, AlertPerLockout, Alerting
  <2>6. /\ IsFiniteSet(Alerting(h)')
        /\ Cardinality(Alerting(h)') = Cardinality(Alerting(h)) + 1
    BY <2>4, <2>5, FS_AddElement
  <2>7. lockouts'[h] = alerts'[h] + Cardinality(Alerting(h)')
    BY <2>2, <2>3, <2>5, <2>6
  <2>8. ASSUME NEW g \in Host
        PROVE  /\ lockouts'[g] = alerts'[g] + Cardinality(Alerting(g)')
               /\ IsFiniteSet(Alerting(g)')
    BY <2>2, <2>3, <2>4, <2>5, <2>6, <2>7
  <2> QED
    BY <2>8 DEF AlertInv, AlertPerLockout, Alerting
<1> QED
    BY <1>1, <1>2, <1>3

\* However many viewers run into the lockout of however many hosts, a lockout
\* is announced by exactly the attempt that tripped it.
THEOREM AlertTheorem == Spec => []AlertPerLockout
<1>1. Init => AlertInv
  <2> SUFFICES ASSUME Init PROVE AlertInv
    OBVIOUS
  <2>1. \A h \in Host : Alerting(h) = {} /\ lockouts[h] = 0 /\ alerts[h] = 0
    BY DEF Init, RelayInit, Alerting
  <2> QED
    BY <2>1, FS_EmptySet DEF AlertInv, AlertPerLockout, Alerting
<1>2. DeskInv /\ AlertInv /\ [Next]_vars => AlertInv'
  <2>1. AlertInv /\ UNCHANGED vars => AlertInv'
    BY DEF AlertInv, AlertPerLockout, Alerting, vars, relayVars, pinVars, connectVars
  <2> QED
    BY <2>1, AlertStep
<1>3. AlertInv => AlertPerLockout
    BY DEF AlertInv
<1> QED
    BY <1>1, <1>2, <1>3, DeskInvariant, PTL DEF Spec

-----------------------------------------------------------------------------
(* One accept, one viewer *)

\* How often a message waits in a channel.
Copies(q, m) == Cardinality({n \in 1..Len(q) : q[n] = m})

\* The copies of a message in a channel are finitely many.
LEMMA CopiesType ==
    ASSUME NEW S, NEW q \in Seq(S), NEW m
    PROVE  /\ IsFiniteSet({n \in 1..Len(q) : q[n] = m})
           /\ Copies(q, m) \in Nat
<1>1. IsFiniteSet(1..Len(q))
    BY FS_Interval
<1>2. {n \in 1..Len(q) : q[n] = m} \in SUBSET (1..Len(q))
    OBVIOUS
<1> QED
    BY <1>1, <1>2, FS_Subset, FS_CardinalityType DEF Copies

\* The reader takes one copy if the message is the first, none otherwise.
LEMMA CopiesTail ==
    ASSUME NEW S, NEW q \in Seq(S), q # <<>>, NEW m
    PROVE  Copies(Tail(q), m) = IF Head(q) = m THEN Copies(q, m) - 1
                                ELSE Copies(q, m)
<1> DEFINE A == {n \in 1..Len(q) : q[n] = m}
           T == A \ {1}
           B == {n \in 1..Len(Tail(q)) : Tail(q)[n] = m}
           f == [n \in T |-> n - 1]
<1>1. /\ Len(q) \in Nat \ {0} /\ Len(Tail(q)) = Len(q) - 1
      /\ \A n \in 1..Len(q) - 1 : Tail(q)[n] = q[n + 1]
      /\ Head(q) = q[1]
    OBVIOUS
<1>2. \A n \in T : n \in 2..Len(q) /\ q[n] = m /\ n - 1 \in B
    BY <1>1
<1>3. \A k \in B : k + 1 \in T /\ k \in Nat
    BY <1>1
<1>4. IsFiniteSet(A) /\ Cardinality(A) = Copies(q, m)
    BY CopiesType DEF Copies
<1>5. /\ IsFiniteSet(T)
      /\ Cardinality(T) = IF 1 \in A THEN Cardinality(A) - 1 ELSE Cardinality(A)
    BY <1>4, FS_RemoveElement
<1>6. 1 \in A <=> Head(q) = m
    BY <1>1
<1>7. f \in Bijection(T, B)
  <2> HIDE DEF A, T, B
  <2>1. f \in [T -> B]
    BY <1>2
  <2>2. \A x, y \in T : f[x] = f[y] => x = y
    BY <1>2
  <2>3. \A k \in B : k + 1 \in T /\ f[k + 1] = k
    BY <1>3
  <2> QED
    BY <2>1, <2>2, <2>3 DEF Bijection, Injection, Surjection, IsInjective
<1> HIDE DEF A, T, B, f
<1>8. Cardinality(B) = Cardinality(T)
    BY <1>5, <1>7, FS_Bijection DEF ExistsBijection
<1>9. Copies(Tail(q), m) = Cardinality(B)
    BY DEF Copies, B
<1> QED
    BY <1>4, <1>5, <1>6, <1>8, <1>9

\* A write adds one copy, if it is of the message.
LEMMA CopiesAppend ==
    ASSUME NEW S, NEW q \in Seq(S), NEW x \in S, NEW m
    PROVE  Copies(Append(q, x), m) = IF x = m THEN Copies(q, m) + 1
                                     ELSE Copies(q, m)
<1> DEFINE A == {n \in 1..Len(q) : q[n] = m}
           B == {n \in 1..Len(Append(q, x)) : Append(q, x)[n] = m}
           l == Len(q) + 1
<1>1. /\ Len(q) \in Nat /\ Len(Append(q, x)) = l /\ Append(q, x)[l] = x
      /\ \A n \in 1..Len(q) : Append(q, x)[n] = q[n]
    OBVIOUS
<1>2. B = IF x = m THEN A \cup {l} ELSE A
    BY <1>1
<1>3. l \notin A
    BY <1>1
<1>4. IsFiniteSet(A) /\ Cardinality(A) = Copies(q, m)
    BY CopiesType DEF Copies
<1>5. Copies(Append(q, x), m) = Cardinality(B)
    BY DEF Copies
<1> HIDE DEF A, B, l
<1>6. Cardinality(A \cup {l}) = Cardinality(A) + 1
    BY <1>3, <1>4, FS_AddElement
<1> QED
    BY <1>2, <1>4, <1>5, <1>6

\* What a breaking connection loses adds no copy.
LEMMA CopiesPrefix ==
    ASSUME NEW S, NEW q \in Seq(S), NEW k \in 0..Len(q), NEW m
    PROVE  Copies(SubSeq(q, 1, k), m) <= Copies(q, m)
<1> DEFINE A == {n \in 1..Len(q) : q[n] = m}
           B == {n \in 1..Len(SubSeq(q, 1, k)) : SubSeq(q, 1, k)[n] = m}
<1>1. Len(SubSeq(q, 1, k)) = k /\ \A n \in 1..k : SubSeq(q, 1, k)[n] = q[n]
    OBVIOUS
<1>2. B \in SUBSET A
    BY <1>1
<1>3. IsFiniteSet(A)
    BY CopiesType
<1> HIDE DEF A, B
<1>4. Cardinality(B) <= Cardinality(A)
    BY <1>2, <1>3, FS_Subset
<1> QED
    BY <1>4 DEF Copies, A, B

\* An accept for a session in resolve's hands, addressed to a viewer.
Held(h, s) ==
    IF /\ delivery[h] # None /\ delivery[h].to # None
       /\ delivery[h].answer = "accept" /\ sess[delivery[h].to] = s
    THEN 1 ELSE 0

\* The viewers that were given one.
Answered(h, s) ==
    {v \in Viewer : target[v] = h /\ sess[v] = s /\ result[v] = "accept"}

\* Every accept on its way, in resolve's hands or given to a viewer was written
\* by the host, each for itself.
Counted ==
    \A h \in Host, s \in Session :
       /\ IsFiniteSet(Answered(h, s))
       /\ Copies(toRelay[h], Msg("accept", s)) + Held(h, s)
             + Cardinality(Answered(h, s)) <= accepts[h][s]

\* Who got past the user of an attended host was given an accept.
LetInAnswered ==
    \A v \in Viewer :
       vpc[v] \in {"granted", "accepting", "opening", "bridged", "closed"} =>
          target[v] \in Unattended \/ result[v] = "accept"

\* What Counted adds up are numbers.
LEMMA CountTypes ==
    ASSUME DeskInv, Counted, NEW h \in Host, NEW s \in Session
    PROVE  /\ Copies(toRelay[h], Msg("accept", s)) \in Nat
           /\ Held(h, s) \in {0, 1}
           /\ Cardinality(Answered(h, s)) \in Nat
           /\ accepts[h][s] \in Nat
<1>1. toRelay[h] \in Seq(FromHost) /\ accepts[h][s] \in Nat
    BY DEF DeskInv, TypeOK, WireTypeOK, AgentTypeOK
<1> QED
    BY <1>1, CopiesType, FS_CardinalityType DEF Held, Counted

\* A result, once there, stays, and so do the locals it is for.
LEMMA ResultStays ==
    ASSUME DeskInv, Next, NEW v \in Viewer, result[v] # None
    PROVE  /\ result'[v] = result[v] /\ target'[v] = target[v] /\ sess'[v] = sess[v]
           /\ target[v] # None /\ sess[v] # None
<1>1. target[v] # None /\ sess[v] # None
    BY DEF DeskInv, AnswerOK, LocalsOK
<1>2. result'[v] = result[v]
    BY ConsentSteps DEF Resolve, Deliver
<1> QED
    BY <1>1, <1>2, LocalsStay DEF DeskInv

\* Without a delivery the same viewers have an answer.
LEMMA AnsweredSame ==
    ASSUME DeskInv, Next, UNCHANGED result, NEW h \in Host, NEW s \in Session
    PROVE  Answered(h, s)' = Answered(h, s)
<1>1. \A v \in Viewer : result[v] = "accept" => result[v] # None
    BY WireAssumption
<1>2. \A v \in Viewer : result[v] = "accept" =>
         target'[v] = target[v] /\ sess'[v] = sess[v]
    BY <1>1, ResultStays
<1> QED
    BY <1>2 DEF Answered

\* What resolve holds changes only in its own two steps.
LEMMA HeldSame ==
    ASSUME DeskInv, Next, NEW h \in Host, delivery'[h] = delivery[h],
           NEW s \in Session
    PROVE  Held(h, s)' = Held(h, s)
<1>1. CASE delivery[h] # None /\ delivery[h].to # None
  <2>1. delivery[h].to \in Viewer /\ sess[delivery[h].to] # None
    BY <1>1 DEF DeskInv, TypeOK, RelayTypeOK, Delivery, AnswerOK
  <2>2. sess'[delivery[h].to] = sess[delivery[h].to]
    BY <2>1, LocalsStay DEF DeskInv
  <2> QED
    BY <2>2 DEF Held
<1>2. CASE ~(delivery[h] # None /\ delivery[h].to # None)
    BY <1>2 DEF Held
<1> QED
    BY <1>1, <1>2

\* An accept once written is not taken back.
LEMMA AcceptsMonotone ==
    ASSUME DeskInv, Next, NEW h \in Host, NEW s \in Session
    PROVE  accepts[h][s] \in Nat /\ accepts'[h][s] \in Nat
           /\ accepts'[h][s] >= accepts[h][s]
<1>0. accepts \in [Host -> [Session -> Nat]] /\ accepts[h][s] \in Nat
    BY DEF DeskInv, TypeOK, AgentTypeOK
<1>1. CASE UNCHANGED accepts
    BY <1>0, <1>1
<1>2. ASSUME NEW g \in Host, NEW a \in Answer, HostAnswer(g, a)
      PROVE  accepts'[h][s] = accepts[h][s] \/ accepts'[h][s] = accepts[h][s] + 1
    BY <1>0, <1>2 DEF HostAnswer
<1> QED
    BY <1>0, <1>1, <1>2, AcceptSteps

\* An accept the agent writes is counted when it is written.
LEMMA AnswerCounted ==
    ASSUME DeskInv, NEW g \in Host, NEW a \in Answer, HostAnswer(g, a), Next,
           NEW h \in Host, NEW s \in Session
    PROVE  /\ accepts'[h][s] - accepts[h][s] \in {0, 1}
           /\ Copies(toRelay'[h], Msg("accept", s)) - Copies(toRelay[h], Msg("accept", s))
                 <= accepts'[h][s] - accepts[h][s]
<1> DEFINE m == Msg("accept", s)
<1>0. /\ toRelay \in [Host -> Seq(FromHost)] /\ accepts \in [Host -> [Session -> Nat]]
      /\ asked[g] \in Session /\ toRelay[g] \in Seq(FromHost) /\ accepts[h][s] \in Nat
    BY WireAssumption DEF DeskInv, TypeOK, WireTypeOK, AgentTypeOK, LocalsOK, HostAnswer
<1>1. Copies(toRelay[h], m) \in Nat
    BY <1>0, CopiesType
<1>2. accepts'[h][s] = IF a = "accept" /\ h = g /\ s = asked[g] THEN accepts[h][s] + 1
                       ELSE accepts[h][s]
    BY <1>0 DEF HostAnswer
<1>3. CASE h # g \/ UNCHANGED toRelay
  <2>1. toRelay'[h] = toRelay[h]
    BY <1>0, <1>3 DEF HostAnswer, SendToRelay
  <2> QED
    BY <1>0, <1>1, <1>2, <2>1
<1>4. CASE h = g /\ SendToRelay(g, Msg(a, asked[g]))
  <2>1. toRelay'[h] = Append(toRelay[h], Msg(a, asked[g]))
    BY <1>0, <1>4 DEF SendToRelay
  <2>2. Msg(a, asked[g]) \in FromHost
    BY <1>0, MsgType
  <2>3. Msg(a, asked[g]) = m => a = "accept" /\ s = asked[g]
    BY DEF Msg
  <2> HIDE DEF m
  <2>4. Copies(toRelay'[h], m) = IF Msg(a, asked[g]) = m THEN Copies(toRelay[h], m) + 1
                                 ELSE Copies(toRelay[h], m)
    BY <1>0, <2>1, <2>2, CopiesAppend
  <2> QED
    BY <1>0, <1>1, <1>2, <1>4, <2>3, <2>4 DEF m
<1> QED
    BY <1>3, <1>4 DEF HostAnswer

\* Other steps than the agent's add no accept to a channel.
LEMMA NoneAdded ==
    ASSUME DeskInv, Next, NEW h \in Host, NEW s \in Session,
           ~\E g \in Host, a \in Answer : HostAnswer(g, a)
    PROVE  Copies(toRelay'[h], Msg("accept", s)) <= Copies(toRelay[h], Msg("accept", s))
<1> DEFINE m == Msg("accept", s)
<1>0. toRelay \in [Host -> Seq(FromHost)] /\ toRelay[h] \in Seq(FromHost)
    BY DEF DeskInv, TypeOK, WireTypeOK
<1>1. Copies(toRelay[h], m) \in Nat
    BY <1>0, CopiesType
<1> HIDE DEF m
<1>2. CASE toRelay'[h] = toRelay[h]
    BY <1>1, <1>2 DEF m
<1>3. ASSUME NEW g \in Host, g # h,
             Register(g) \/ Resolve(g) \/ HostConnect(g) \/ HostDrop(g)
      PROVE  toRelay'[h] = toRelay[h]
    BY <1>0, <1>3 DEF Register, Resolve, HostConnect, HostDrop
<1>4. CASE Register(h) \/ Resolve(h)
  <2>1. toRelay'[h] = Tail(toRelay[h]) /\ toRelay[h] # <<>>
    BY <1>0, <1>4 DEF Register, Resolve, Arrived
  <2>2. Copies(toRelay'[h], m) = IF Head(toRelay[h]) = m THEN Copies(toRelay[h], m) - 1
                                 ELSE Copies(toRelay[h], m)
    BY <1>0, <2>1, CopiesTail
  <2> QED
    BY <1>1, <2>2 DEF m
<1>5. CASE HostConnect(h)
  <2>1. toRelay'[h] = <<Msg("register", None)>> /\ Msg("register", None) # m
    BY <1>0, <1>5 DEF HostConnect, Msg, m
  <2>2. {n \in 1..Len(toRelay'[h]) : toRelay'[h][n] = m} = {}
    BY <2>1
  <2>3. Copies(toRelay'[h], m) = 0
    BY <2>2, FS_EmptySet DEF Copies
  <2> QED
    BY <1>1, <2>3 DEF m
<1>6. CASE HostDrop(h)
  <2>1. PICK n \in 0..Len(toRelay[h]) : toRelay'[h] = SubSeq(toRelay[h], 1, n)
    BY <1>0, <1>6 DEF HostDrop
  <2> QED
    BY <1>0, <2>1, CopiesPrefix DEF m
<1> QED
    BY <1>2, <1>3, <1>4, <1>5, <1>6, ToRelaySteps

\* resolve takes an accept out of the channel into its hands ...
LEMMA ResolveCounted ==
    ASSUME DeskInv, Counted, Next, NEW g \in Host, Resolve(g),
           NEW h \in Host, NEW s \in Session
    PROVE  Copies(toRelay'[h], Msg("accept", s)) + Held(h, s)'
              <= Copies(toRelay[h], Msg("accept", s)) + Held(h, s)
<1> DEFINE m == Msg("accept", s)
<1>0. /\ toRelay \in [Host -> Seq(FromHost)] /\ toRelay[g] \in Seq(FromHost)
      /\ delivery \in [Host -> Delivery \cup {None}]
      /\ toRelay[g] # <<>> /\ Head(toRelay[g]).op \in Answer
      /\ toRelay' = [toRelay EXCEPT ![g] = Tail(@)]
      /\ delivery[g] = None /\ UNCHANGED sess
    BY DEF Resolve, Arrived, DeskInv, TypeOK, WireTypeOK, RelayTypeOK, connectVars
<1>1. Copies(toRelay[h], m) \in Nat /\ Held(h, s) \in {0, 1}
    BY CountTypes
<1>2. CASE h # g
  <2>1. delivery'[h] = delivery[h] /\ toRelay'[h] = toRelay[h]
    BY <1>0, <1>2 DEF Resolve
  <2>2. Held(h, s)' = Held(h, s)
    BY <2>1, HeldSame
  <2> QED
    BY <1>1, <2>1, <2>2
<1>3. CASE h = g
  <2> DEFINE r == Head(toRelay[g])
             d == [to |-> pending[g][r.session], answer |-> r.op]
  <2>1. delivery'[g] = d
    BY <1>0 DEF Resolve
  <2>2. r.session \in Session /\ r \in FromHost
    BY <1>0 DEF FromHost, Answer
  <2>3. d.to # None => sess[d.to] = r.session
    BY <2>2 DEF DeskInv, PendingLive
  <2>4. r.op = "accept" /\ r.session = s => r = m
    BY <2>2 DEF FromHost, Msg
  <2>5. d.answer = r.op
    OBVIOUS
  <2> HIDE DEF r, d
  <2>6. Held(g, s)' = 1 => r = m
    BY <1>0, <2>1, <2>3, <2>4, <2>5 DEF Held
  <2>7. Held(g, s)' \in {0, 1} /\ Held(g, s) = 0
    BY <1>0 DEF Held
  <2>8. Copies(toRelay'[g], m) = IF r = m THEN Copies(toRelay[g], m) - 1
                                 ELSE Copies(toRelay[g], m)
    <3>1. toRelay'[g] = Tail(toRelay[g])
      BY <1>0
    <3> HIDE DEF m
    <3> QED
      BY <1>0, <3>1, CopiesTail DEF r
  <2> HIDE DEF m
  <2> QED
    BY <1>1, <1>3, <2>6, <2>7, <2>8 DEF m
<1> QED
    BY <1>2, <1>3

\* ... and puts it into one viewer's result.
LEMMA DeliverCounted ==
    ASSUME DeskInv, Counted, Next, NEW g \in Host, Deliver(g),
           NEW h \in Host, NEW s \in Session
    PROVE  /\ IsFiniteSet(Answered(h, s)')
           /\ Held(h, s)' + Cardinality(Answered(h, s)')
                 <= Held(h, s) + Cardinality(Answered(h, s))
<1>0. /\ UNCHANGED <<target, sess>> /\ delivery[g] # None
      /\ delivery' = [delivery EXCEPT ![g] = None]
      /\ delivery \in [Host -> Delivery \cup {None}]
      /\ result' = [v \in Viewer |->
                       IF v \in Recipients(g) /\ result[v] = None
                       THEN delivery[g].answer ELSE result[v]]
      /\ \A v \in Recipients(g) : v = delivery[g].to
    BY DEF Deliver, DeskInv, TypeOK, RelayTypeOK, connectVars, Recipients
<1>1. Held(h, s) \in {0, 1} /\ Cardinality(Answered(h, s)) \in Nat
      /\ IsFiniteSet(Answered(h, s))
    BY CountTypes DEF Counted
<1>2. CASE Answered(h, s)' = Answered(h, s)
  <2>1. Held(h, s)' \in {0, 1} /\ (Held(h, s)' = 1 => Held(h, s) = 1)
    BY <1>0 DEF Held
  <2> QED
    BY <1>1, <1>2, <2>1
<1>3. CASE Answered(h, s)' # Answered(h, s)
  <2> DEFINE w == delivery[g].to
  <2>1. /\ w \in Viewer /\ result[w] = None /\ delivery[g].answer = "accept"
        /\ target[w] = h /\ sess[w] = s
        /\ Answered(h, s)' = Answered(h, s) \cup {w}
    BY <1>0, <1>3, WireAssumption DEF Answered
  <2>2. h = g
    BY <1>0, <2>1, WireAssumption DEF DeskInv, AnswerOK
  <2>3. Held(h, s) = 1 /\ Held(h, s)' = 0
    BY <1>0, <2>1, <2>2, WireAssumption DEF Held
  <2> HIDE DEF w
  <2>4. /\ IsFiniteSet(Answered(h, s) \cup {w})
        /\ Cardinality(Answered(h, s) \cup {w}) <= Cardinality(Answered(h, s)) + 1
    BY <1>1, FS_AddElement
  <2>5. Cardinality(Answered(h, s) \cup {w}) \in Nat
    BY <2>4, FS_CardinalityType
  <2> QED
    BY <1>1, <2>1, <2>3, <2>4, <2>5
<1> QED
    BY <1>2, <1>3

\* No step makes more of an accept than the host wrote.
LEMMA CountedStep == ASSUME DeskInv, Counted, Next PROVE Counted'
<1> SUFFICES ASSUME NEW h \in Host, NEW s \in Session
             PROVE  /\ IsFiniteSet(Answered(h, s)')
                    /\ Copies(toRelay'[h], Msg("accept", s)) + Held(h, s)'
                          + Cardinality(Answered(h, s)') <= accepts'[h][s]
    BY DEF Counted, Answered, Copies, Msg, Held
<1> DEFINE m == Msg("accept", s)
<1>1. /\ Copies(toRelay[h], m) \in Nat /\ Held(h, s) \in {0, 1}
      /\ Cardinality(Answered(h, s)) \in Nat /\ IsFiniteSet(Answered(h, s))
      /\ Copies(toRelay[h], m) + Held(h, s) + Cardinality(Answered(h, s)) <= accepts[h][s]
    BY CountTypes DEF Counted
<1>2. /\ accepts[h][s] \in Nat /\ accepts'[h][s] \in Nat
      /\ accepts'[h][s] >= accepts[h][s]
    BY AcceptsMonotone
<1> HIDE DEF m
<1>3. ASSUME NEW g \in Host, Resolve(g)
      PROVE  /\ IsFiniteSet(Answered(h, s)')
             /\ Copies(toRelay'[h], m) + Held(h, s)'
                   + Cardinality(Answered(h, s)') <= accepts'[h][s]
  <2>1. Answered(h, s)' = Answered(h, s)
    BY <1>3, AnsweredSame DEF Resolve
  <2>2. Copies(toRelay'[h], m) + Held(h, s)' <= Copies(toRelay[h], m) + Held(h, s)
    BY <1>3, ResolveCounted DEF m
  <2>3. Copies(toRelay'[h], m) \in Nat /\ Held(h, s)' \in {0, 1}
    <3>1. toRelay'[h] \in Seq(FromHost)
      BY TypeStep DEF DeskInv, TypeOK, WireTypeOK
    <3> QED
      BY <3>1, CopiesType DEF Held
  <2> QED
    BY <1>1, <1>2, <2>1, <2>2, <2>3
<1>4. ASSUME NEW g \in Host, Deliver(g)
      PROVE  /\ IsFiniteSet(Answered(h, s)')
             /\ Copies(toRelay'[h], m) + Held(h, s)'
                   + Cardinality(Answered(h, s)') <= accepts'[h][s]
  <2>1. toRelay'[h] = toRelay[h]
    BY <1>4 DEF Deliver, wireVars
  <2>2. /\ IsFiniteSet(Answered(h, s)')
        /\ Held(h, s)' + Cardinality(Answered(h, s)')
              <= Held(h, s) + Cardinality(Answered(h, s))
    BY <1>4, DeliverCounted
  <2>3. Held(h, s)' \in {0, 1} /\ Cardinality(Answered(h, s)') \in Nat
    BY <2>2, FS_CardinalityType DEF Held
  <2> QED
    BY <1>1, <1>2, <2>1, <2>2, <2>3
<1>5. CASE UNCHANGED <<delivery, result>>
  <2>1. Held(h, s)' = Held(h, s) /\ Answered(h, s)' = Answered(h, s)
    BY <1>5, HeldSame, AnsweredSame
  <2>2. toRelay'[h] \in Seq(FromHost) /\ Copies(toRelay'[h], m) \in Nat
    BY TypeStep, CopiesType DEF DeskInv, TypeOK, WireTypeOK
  <2>3. ASSUME NEW g \in Host, NEW a \in Answer, HostAnswer(g, a)
        PROVE  Copies(toRelay'[h], m) - Copies(toRelay[h], m)
                  <= accepts'[h][s] - accepts[h][s]
    BY <2>3, AnswerCounted DEF m
  <2>4. CASE ~\E g \in Host, a \in Answer : HostAnswer(g, a)
    <3>1. Copies(toRelay'[h], m) <= Copies(toRelay[h], m)
      BY <2>4, NoneAdded DEF m
    <3> QED
      BY <1>1, <1>2, <2>1, <2>2, <3>1 DEF m
  <2>5. ASSUME NEW g \in Host, NEW a \in Answer, HostAnswer(g, a)
        PROVE  Copies(toRelay'[h], m) + Held(h, s)'
                   + Cardinality(Answered(h, s)') <= accepts'[h][s]
    <3>1. Copies(toRelay'[h], m) - Copies(toRelay[h], m)
                  <= accepts'[h][s] - accepts[h][s]
      BY <2>3, <2>5
    <3> QED
      BY <1>1, <1>2, <2>1, <2>2, <3>1
  <2> QED
    BY <1>1, <2>1, <2>4, <2>5 DEF m
<1> QED
    BY <1>3, <1>4, <1>5, ConsentSteps DEF m

\* awaitConsent lets in whom it has an accept for; nothing else does, unless
\* the host is unattended.
LEMMA LetInAnsweredStep ==
    ASSUME DeskInv, LetInAnswered, Next PROVE LetInAnswered'
<1> DEFINE In == {"granted", "accepting", "opening", "bridged", "closed"}
           Ok(v) == target[v] \in Unattended \/ result[v] = "accept"
<1>0. /\ vpc \in [Viewer -> VPC] /\ None # "accept"
      /\ \A v \in Viewer : vpc[v] \in In \cup {"waiting"} => target[v] # None
    BY WireAssumption DEF DeskInv, TypeOK, RelayTypeOK, LocalsOK
<1>1. \A v \in Viewer : target[v] # None /\ Ok(v) =>
         target'[v] \in Unattended \/ result'[v] = "accept"
    BY <1>0, ResultStays, LocalsStay DEF DeskInv
<1>2. \A v \in Viewer : vpc[v] \in In => target[v] # None /\ Ok(v)
    BY <1>0 DEF LetInAnswered
<1>3. CASE UNCHANGED vpc
    BY <1>1, <1>2, <1>3 DEF LetInAnswered
<1>4. ASSUME NEW v \in Viewer, \A w \in Viewer \ {v} : vpc'[w] = vpc[w],
             vpc'[v] \in In => target[v] # None /\ Ok(v)
      PROVE  LetInAnswered'
    BY <1>1, <1>2, <1>4 DEF LetInAnswered
<1>5. ASSUME NEW v \in Viewer, Await(v) PROVE LetInAnswered'
  <2>1. vpc'[v] \in In => result[v] = "accept"
    BY <1>0, <1>5, GoOnly DEF Await, OnTimeout
  <2>2. target[v] # None /\ \A w \in Viewer \ {v} : vpc'[w] = vpc[w]
    BY <1>0, <1>5, Moves DEF Await, Move
  <2> QED
    BY <1>4, <2>1, <2>2
<1>6. ASSUME NEW v \in Viewer, AskConsent(v) PROVE LetInAnswered'
  <2>1. vpc'[v] \in In => target[v] \in Unattended
    BY <1>0, <1>6, GoOnly DEF AskConsent
  <2>2. target[v] # None /\ \A w \in Viewer \ {v} : vpc'[w] = vpc[w]
    BY <1>0, <1>6, Moves DEF AskConsent, Move, DeskInv, LocalsOK
  <2> QED
    BY <1>4, <2>1, <2>2
<1>7. ASSUME NEW v \in Viewer, ViewerConnect(v) \/ Lookup(v) \/ Onward(v),
             ~Await(v)
      PROVE  LetInAnswered'
  <2>1. vpc'[v] \in In => vpc[v] \in In
    BY <1>0, <1>7, Moves DEF Onward, Move
  <2>2. \A w \in Viewer \ {v} : vpc'[w] = vpc[w]
    BY <1>0, <1>7, Moves DEF Onward, Move
  <2> QED
    BY <1>2, <1>4, <2>1, <2>2
<1> QED
    BY <1>3, <1>5, <1>6, <1>7, ConnectSteps DEF connectVars

\* What both lemmas keep, and what follows from it.
GrantInv == Counted /\ LetInAnswered

\* At first nothing is written and nobody is in.
LEMMA InitGrant == ASSUME Init PROVE GrantInv
<1>1. ASSUME NEW h \in Host, NEW s \in Session
      PROVE  /\ Answered(h, s) = {} /\ Held(h, s) = 0 /\ accepts[h][s] = 0
             /\ {n \in 1..Len(toRelay[h]) : toRelay[h][n] = Msg("accept", s)} = {}
    BY WireAssumption DEF Init, WireInit, RelayInit, AgentInit, Answered, Held
<1>2. ASSUME NEW h \in Host, NEW s \in Session
      PROVE  /\ IsFiniteSet(Answered(h, s)) /\ Cardinality(Answered(h, s)) = 0
             /\ Copies(toRelay[h], Msg("accept", s)) = 0
    BY <1>1, FS_EmptySet DEF Copies
<1>3. LetInAnswered
    BY DEF Init, RelayInit, LetInAnswered
<1> QED
    BY <1>1, <1>2, <1>3 DEF GrantInv, Counted

\* GrantInv holds throughout, with DeskInv.
LEMMA GrantInvariant == Spec => []GrantInv
<1>1. DeskInv /\ GrantInv /\ [Next]_vars => GrantInv'
  <2>1. GrantInv /\ UNCHANGED vars => GrantInv'
    BY DEF GrantInv, Counted, Copies, Msg, Held, Answered, LetInAnswered, vars, wireVars,
           relayVars, consentVars, connectVars, agentVars
  <2> QED
    BY <2>1, CountedStep, LetInAnsweredStep DEF GrantInv
<1> QED
    BY <1>1, InitGrant, DeskInvariant, PTL DEF Spec

\* The viewers let in by a host are among those that have an answer.
LEMMA GrantedAnswered ==
    ASSUME DeskInv, GrantInv, NEW h \in Host, NEW s \in Session
    PROVE  /\ Granted(h, s) \subseteq Answered(h, s)
           /\ IsFiniteSet(Granted(h, s)) /\ Cardinality(Granted(h, s)) \in Nat
           /\ Cardinality(Granted(h, s)) <= Cardinality(Answered(h, s))
           /\ Cardinality(Answered(h, s)) \in Nat
           /\ Cardinality(Answered(h, s)) <= accepts[h][s]
           /\ IsFiniteSet(Answered(h, s))
<1>1. Granted(h, s) \in SUBSET Answered(h, s)
    BY DEF Granted, Answered, GrantInv, LetInAnswered
<1>2. IsFiniteSet(Answered(h, s)) /\ Cardinality(Answered(h, s)) <= accepts[h][s]
      /\ Cardinality(Answered(h, s)) \in Nat
    BY CountTypes DEF GrantInv, Counted
<1>3. IsFiniteSet(Granted(h, s)) /\ Cardinality(Granted(h, s)) <= Cardinality(Answered(h, s))
    BY <1>1, <1>2, FS_Subset
<1>4. Cardinality(Granted(h, s)) \in Nat
    BY <1>3, FS_CardinalityType
<1> QED
    BY <1>1, <1>2, <1>3, <1>4

\* For any number of viewers and sessions, equal session names, late and double
\* answers: no more viewers get past the user than accepts were written.
THEOREM OneViewerTheorem == Spec => []OneViewerPerAccept
<1>1. DeskInv /\ GrantInv => OneViewerPerAccept
  <2> SUFFICES ASSUME DeskInv, GrantInv, NEW h \in Host, NEW s \in Session
               PROVE  Cardinality(Granted(h, s)) <= accepts[h][s]
    BY DEF OneViewerPerAccept
  <2>1. accepts[h][s] \in Nat
    BY DEF DeskInv, TypeOK, AgentTypeOK
  <2> QED
    BY <2>1, GrantedAnswered
<1> QED
    BY <1>1, DeskInvariant, GrantInvariant, PTL

-----------------------------------------------------------------------------
(* The desk keeps the promise of module Consent *)

\* Place, as a choice that is made in order.
PlaceOf(pc, watched, channel) ==
    IF pc \in {"idle", "lookup", "auth", "alert", "ask"} THEN "outside"
    ELSE IF pc \in {"notify", "waiting"} THEN "asking"
    ELSE IF watched THEN "watching"
    ELSE IF pc \in {"rejected", "closed", "denied"} \/ channel = "closed" THEN "over"
    ELSE "allowed"

\* The two agree now ...
LEMMA PlaceIs ==
    ASSUME TypeOK, StreamOK, NEW v \in Viewer
    PROVE  Place(v) = PlaceOf(vpc[v], stream[v], data[v])
BY DEF TypeOK, RelayTypeOK, AgentTypeOK, StreamOK, Place, PlaceOf

\* ... and after a step.
LEMMA PlaceWillBe ==
    ASSUME TypeOK', StreamOK', NEW v \in Viewer
    PROVE  Place(v)' = PlaceOf(vpc'[v], stream'[v], data'[v])
BY DEF TypeOK, RelayTypeOK, AgentTypeOK, StreamOK, Place, PlaceOf

\* A step that touches nothing of this is a stutter of the promise.
LEMMA Stutters ==
    ASSUME UNCHANGED <<regId, regPin, vid, vpin, accepts, target, sess, vpc, data, stream>>
    PROVE  UNCHANGED Promise!vars
BY DEF Promise!vars, Place, Granted

\* The promise's variables, as the desk has them.
SecretNow == [h \in Host |-> IF regId[h] = None THEN None ELSE <<regId[h], regPin[h]>>]
ClaimNow == [v \in Viewer |-> IF vid[v] = None THEN None ELSE <<vid[v], vpin[v]>>]
YesNow == [h \in Host |-> [s \in Session |-> accepts[h][s] - Cardinality(Granted(h, s))]]
AtNow == [v \in Viewer |-> Place(v)]
OfNow == [v \in Viewer |-> IF sess[v] = None THEN None ELSE <<target[v], sess[v]>>]

\* The promise's steps in these terms.
LEMMA PromiseIs ==
    /\ Promise!vars = <<SecretNow, ClaimNow, YesNow, AtNow, OfNow>>
    /\ Promise!vars' = <<SecretNow', ClaimNow', YesNow', AtNow', OfNow'>>
    /\ Promise!Next <=>
          /\ \/ AtNow' # AtNow \/ ClaimNow' # ClaimNow
             \/ SecretNow' # SecretNow \/ YesNow' # YesNow
          /\ Promise!Step
BY DEF Promise!vars, Promise!Next, SecretNow, ClaimNow, YesNow, AtNow, OfNow

\* A host is given an ID and a PIN.
LEMMA RegisterIs ==
    ASSUME NEW h, SecretNow[h] = None, NEW k \in ID \X PIN,
           SecretNow' = [SecretNow EXCEPT ![h] = k],
           UNCHANGED <<ClaimNow, YesNow, AtNow, OfNow>>
    PROVE  Promise!Register(h)
BY DEF Promise!Register, SecretNow, ClaimNow, YesNow, AtNow, OfNow

\* A viewer names an ID and a PIN.
LEMMA ClaimIs ==
    ASSUME NEW v, ClaimNow[v] = None, NEW k \in ID \X PIN,
           ClaimNow' = [ClaimNow EXCEPT ![v] = k],
           UNCHANGED <<SecretNow, YesNow, AtNow, OfNow>>
    PROVE  Promise!Claim(v)
BY DEF Promise!Claim, SecretNow, ClaimNow, YesNow, AtNow, OfNow

\* A claim is found true.
LEMMA AdmitIs ==
    ASSUME NEW v, NEW h, NEW s, AtNow[v] = "outside",
           SecretNow[h] # None, ClaimNow[v] = SecretNow[h],
           OfNow' = [OfNow EXCEPT ![v] = <<h, s>>],
           AtNow' = [AtNow EXCEPT ![v] = IF h \in Unattended THEN "allowed" ELSE "asking"],
           UNCHANGED <<SecretNow, ClaimNow, YesNow>>
    PROVE  Promise!Admit(v, h, s)
BY DEF Promise!Admit, SecretNow, ClaimNow, YesNow, AtNow, OfNow

\* A user accepts.
LEMMA SayYesIs ==
    ASSUME NEW h, NEW s, YesNow' = [YesNow EXCEPT ![h][s] = @ + 1],
           UNCHANGED <<SecretNow, ClaimNow, AtNow, OfNow>>
    PROVE  Promise!SayYes(h, s)
BY DEF Promise!SayYes, SecretNow, ClaimNow, YesNow, AtNow, OfNow

\* An accept is used up.
LEMMA AllowIs ==
    ASSUME NEW v, AtNow[v] = "asking", YesNow[OfNow[v][1]][OfNow[v][2]] > 0,
           YesNow' = [YesNow EXCEPT ![OfNow[v][1]][OfNow[v][2]] = @ - 1],
           AtNow' = [AtNow EXCEPT ![v] = "allowed"],
           UNCHANGED <<SecretNow, ClaimNow, OfNow>>
    PROVE  Promise!Allow(v)
BY DEF Promise!Allow, SecretNow, ClaimNow, YesNow, AtNow, OfNow

\* The screen is served.
LEMMA OpenIs ==
    ASSUME NEW v, AtNow[v] = "allowed", AtNow' = [AtNow EXCEPT ![v] = "watching"],
           UNCHANGED <<SecretNow, ClaimNow, YesNow, OfNow>>
    PROVE  Promise!Open(v)
BY DEF Promise!Open, SecretNow, ClaimNow, YesNow, AtNow, OfNow

\* The request is over.
LEMMA EndIs ==
    ASSUME NEW v, AtNow[v] # "over", AtNow' = [AtNow EXCEPT ![v] = "over"],
           UNCHANGED <<SecretNow, ClaimNow, YesNow, OfNow>>
    PROVE  Promise!End(v)
BY DEF Promise!End, SecretNow, ClaimNow, YesNow, AtNow, OfNow

\* What a step keeps when it keeps what it is made of.
LEMMA SecretSame == UNCHANGED <<regId, regPin>> => SecretNow' = SecretNow
BY DEF SecretNow

\* Claims are the ConnectRequests.
LEMMA ClaimSame == UNCHANGED <<vid, vpin>> => ClaimNow' = ClaimNow
BY DEF ClaimNow

\* What a request is about are the locals of serveConnect.
LEMMA OfSame == UNCHANGED <<target, sess>> => OfNow' = OfNow
BY DEF OfNow

LetIn == {"granted", "accepting", "opening", "bridged", "closed"}

\* Who is let in stays let in, for the same session.
LEMMA GrantedSame ==
    ASSUME \A w \in Viewer :
              /\ vpc[w] \in LetIn <=> vpc'[w] \in LetIn
              /\ vpc[w] \in LetIn => target'[w] = target[w] /\ sess'[w] = sess[w]
    PROVE  \A h \in Host, s \in Session : Granted(h, s)' = Granted(h, s)
BY DEF Granted, LetIn

\* A yes is neither given nor used up.
LEMMA YesSame ==
    ASSUME UNCHANGED accepts,
           \A h \in Host, s \in Session : Granted(h, s)' = Granted(h, s)
    PROVE  YesNow' = YesNow
BY DEF YesNow

\* A viewer may always be shown out.
LEMMA EndsOne ==
    ASSUME UNCHANGED <<SecretNow, ClaimNow, YesNow, OfNow>>, NEW v \in Viewer,
           \A w \in Viewer \ {v} : Place(w)' = Place(w),
           Place(v)' \in {Place(v), "over"}
    PROVE  [Promise!Next]_Promise!vars
<1>1. CASE Place(v)' = Place(v)
  <2>1. AtNow' = AtNow
    BY <1>1 DEF AtNow
  <2> QED
    BY <2>1, PromiseIs
<1>2. CASE Place(v)' = "over" /\ Place(v) # "over"
  <2>1. AtNow' = [AtNow EXCEPT ![v] = "over"] /\ AtNow[v] # "over"
    BY <1>2 DEF AtNow
  <2>2. AtNow' # AtNow
    BY <2>1 DEF AtNow
  <2> QED
    BY <2>1, <2>2, PromiseIs, EndIs DEF Promise!Step
<1> QED
    BY <1>1, <1>2

\* Once closed, no channel is asked for again; only a user is asked; and a
\* viewer that has not come has claimed nothing.
PathOK ==
    \A v \in Viewer : /\ vpc[v] = "closed" => data[v] \in {"none", "closed"}
                      /\ vpc[v] \in {"notify", "waiting"} => target[v] \notin Unattended
                      /\ vpc[v] = "idle" => vid[v] = None

\* The edge by which serveConnect of v gets from one place to another.
LEMMA EdgeOf ==
    ASSUME DeskInv, Next, NEW v \in Viewer, vpc'[v] # vpc[v]
    PROVE  ViewerConnect(v) \/ Lookup(v) \/ AskConsent(v) \/ Onward(v)
<1>0. vpc \in [Viewer -> VPC]
    BY DEF DeskInv, TypeOK, RelayTypeOK
<1>1. PICK w \in Viewer : ViewerConnect(w) \/ Lookup(w) \/ AskConsent(w) \/ Onward(w)
    BY ConnectSteps DEF connectVars
<1>2. w = v
    BY <1>0, <1>1, Moves DEF Onward, Move
<1> QED
    BY <1>1, <1>2

\* Every step keeps the paths.
LEMMA PathOKStep == ASSUME DeskInv, PathOK, Next PROVE PathOK'
<1>0. /\ vpc \in [Viewer -> VPC]
      /\ data \in [Viewer -> {"none", "requested", "open", "closed"}]
    BY DEF DeskInv, TypeOK, RelayTypeOK, WireTypeOK
<1>1. ASSUME NEW v \in Viewer, vpc[v] = "closed"
      PROVE  data'[v] \in {"none", "closed"}
  <2>1. data[v] \in {"none", "closed"}
    BY <1>1 DEF PathOK
  <2>2. data'[v] \in {data[v], "closed"}
    BY <1>0, <1>1, <2>1, DataSteps DEF OpenData, OpenFails, Unsplice, DataClosed,
       HostEndStream, HostAcceptData
  <2> QED
    BY <2>1, <2>2
<1>2. ASSUME NEW v \in Viewer, vpc[v] # "closed", vpc'[v] = "closed"
      PROVE  data'[v] \in {"none", "closed"}
  <2>1. AcceptViewer(v) \/ OpenFails(v) \/ Unsplice(v)
    BY <1>0, <1>2, EdgeOf, Moves DEF Onward, Move
  <2>2. CASE AcceptViewer(v)
    BY <2>2 DEF AcceptViewer, wireVars, DeskInv, StreamOK
  <2>3. CASE OpenFails(v) \/ Unsplice(v)
    BY <1>0, <2>3 DEF OpenFails, Unsplice, DataClosed
  <2> QED
    BY <2>1, <2>2, <2>3
<1>3. ASSUME NEW v \in Viewer, vpc'[v] \in {"notify", "waiting"}
      PROVE  target'[v] \notin Unattended
  <2>1. CASE vpc[v] \in {"notify", "waiting"}
    BY <1>0, <2>1, LocalsStay DEF DeskInv, LocalsOK, PathOK
  <2>2. CASE vpc[v] \notin {"notify", "waiting"}
    <3>1. AskConsent(v)
      BY <1>0, <1>3, <2>2, EdgeOf, Moves DEF Onward, Move
    <3> QED
      BY <1>0, <1>3, <3>1, GoOnly DEF AskConsent
  <2> QED
    BY <2>1, <2>2
<1>4. ASSUME NEW v \in Viewer, vpc'[v] = "idle"
      PROVE  vid'[v] = None
  <2>1. vpc[v] = "idle"
    BY <1>0, <1>4, EdgeOf, Moves DEF Onward, Move
  <2>2. vid'[v] = vid[v]
    <3>1. ASSUME NEW w \in Viewer, ViewerConnect(w) PROVE vid'[v] = vid[v]
      <4>1. w # v
        BY <1>0, <1>4, <3>1, Moves DEF Move
      <4>2. PICK i \in ID : vid' = [vid EXCEPT ![w] = i]
        BY <3>1 DEF ViewerConnect
      <4>3. vid \in [Viewer -> ID \cup {None}]
        BY DEF DeskInv, TypeOK, RelayTypeOK
      <4> QED
        BY <4>1, <4>2, <4>3
    <3>2. ASSUME NEW w \in Viewer, Lookup(w) \/ AskConsent(w) PROVE vid'[v] = vid[v]
      BY <3>2 DEF Lookup, AskConsent
    <3>3. ASSUME NEW w \in Viewer, Onward(w) PROVE vid'[v] = vid[v]
      BY <3>3, OnwardKeeps
    <3>4. UNCHANGED connectVars => vid'[v] = vid[v]
      BY DEF connectVars
    <3> QED
      BY <3>1, <3>2, <3>3, <3>4, ConnectSteps
  <2> QED
    BY <2>1, <2>2 DEF PathOK
<1> QED
    BY <1>1, <1>2, <1>3, <1>4 DEF PathOK

\* The steps that show a viewer out, or leave it where it is.
LEMMA OnwardEnds ==
    ASSUME DeskInv, DeskInv', NEW v \in Viewer, Onward(v), UNCHANGED agentVars,
           UNCHANGED <<regId, regPin>>, vpc'[v] # "granted"
    PROVE  [Promise!Next]_Promise!vars
<1>0. /\ vpc \in [Viewer -> VPC] /\ TypeOK /\ StreamOK /\ TypeOK' /\ StreamOK'
      /\ data \in [Viewer -> {"none", "requested", "open", "closed"}]
      /\ stream \in [Viewer -> BOOLEAN]
    BY DEF DeskInv, TypeOK, RelayTypeOK, WireTypeOK, AgentTypeOK
<1>1. UNCHANGED <<target, sess>> /\ UNCHANGED <<SecretNow, ClaimNow, OfNow>>
    BY OnwardKeeps, SecretSame, ClaimSame, OfSame
<1>2. \A w \in Viewer \ {v} : vpc'[w] = vpc[w]
    BY <1>0, Moves DEF Onward, Move
<1>3. vpc[v] \in LetIn <=> vpc'[v] \in LetIn
    BY <1>0, Moves DEF Onward, Move, LetIn
<1>4. YesNow' = YesNow
  <2>1. \A w \in Viewer : vpc[w] \in LetIn <=> vpc'[w] \in LetIn
    BY <1>2, <1>3
  <2> QED
    BY <1>1, <2>1, GrantedSame, YesSame DEF agentVars
<1>5. UNCHANGED stream
    BY DEF agentVars
<1>6. /\ \A w \in Viewer \ {v} : data'[w] = data[w]
      /\ data'[v] = data[v] \/ (data'[v] = "closed" /\ vpc'[v] = "closed")
  <2>1. CASE OpenFails(v) \/ Unsplice(v)
    BY <1>0, <2>1, GoOnly DEF OpenFails, Unsplice, DataClosed
  <2>2. CASE ~(OpenFails(v) \/ Unsplice(v))
    BY <2>2 DEF Onward, Authenticate, SendAlert, NotifyHost, Await, Forget,
       AcceptViewer, Bridge, wireVars
  <2> QED
    BY <2>1, <2>2
<1>7. \A w \in Viewer \ {v} : Place(w)' = Place(w)
    BY <1>0, <1>2, <1>5, <1>6, PlaceIs, PlaceWillBe
<1>8. data[v] # "none" \/ stream[v] => vpc[v] \in {"opening", "bridged", "closed"}
    BY <1>0 DEF StreamOK
<1>9. PlaceOf(vpc'[v], stream[v], data'[v]) \in {PlaceOf(vpc[v], stream[v], data[v]), "over"}
  <2>1. \/ /\ vpc[v] \in {"auth", "alert"}
           /\ vpc'[v] \in {"ask", "alert", "rejected"}
        \/ vpc[v] \in {"notify", "waiting"} /\ vpc'[v] \in {"waiting", "denied"}
        \/ vpc[v] = "granted" /\ vpc'[v] = "accepting"
        \/ vpc[v] = "denied" /\ vpc'[v] = "rejected"
        \/ vpc[v] = "accepting" /\ vpc'[v] \in {"opening", "closed"}
        \/ vpc[v] = "opening" /\ vpc'[v] \in {"bridged", "closed"}
        \/ vpc[v] = "bridged" /\ vpc'[v] = "closed"
    BY <1>0, Moves DEF Onward, Move
  <2>2. stream[v] \in BOOLEAN
    BY <1>0
  <2> QED
    BY <1>6, <1>8, <2>1, <2>2 DEF PlaceOf
<1>10. Place(v)' \in {Place(v), "over"}
    BY <1>0, <1>5, <1>9, PlaceIs, PlaceWillBe
<1> QED
    BY <1>1, <1>4, <1>7, <1>10, EndsOne

\* The user's accept lets in one viewer, and uses up one yes.
LEMMA AwaitAllows ==
    ASSUME DeskInv, DeskInv', GrantInv, PathOK, NEW v \in Viewer, Await(v),
           UNCHANGED agentVars, UNCHANGED <<regId, regPin>>, vpc'[v] = "granted"
    PROVE  Promise!Allow(v) /\ Place(v)' # Place(v)
<1> USE WireAssumption
<1>0. /\ vpc \in [Viewer -> VPC] /\ TypeOK /\ StreamOK /\ TypeOK' /\ StreamOK'
      /\ \A w \in Viewer \ {v} : vpc'[w] = vpc[w]
      /\ vpc[v] = "waiting" /\ result[v] = "accept"
    BY GoOnly DEF DeskInv, TypeOK, RelayTypeOK, Await, OnTimeout
<1>1. UNCHANGED <<data, stream, accepts, target, sess, vid, vpin>>
    BY DEF Await, agentVars, wireVars
<1>2. PICK h \in Host, s \in Session : target[v] = h /\ sess[v] = s
    BY <1>0 DEF DeskInv, TypeOK, RelayTypeOK, LocalsOK
<1>3. \A w \in Viewer \ {v} : Place(w)' = Place(w)
    BY <1>0, <1>1, PlaceIs, PlaceWillBe
<1>4. Place(v) = "asking" /\ Place(v)' = "allowed"
  <2>1. ~stream[v] /\ data[v] = "none"
    BY <1>0 DEF StreamOK, AgentTypeOK, TypeOK
  <2> QED
    BY <1>0, <1>1, <2>1, PlaceIs, PlaceWillBe DEF PlaceOf
<1> DEFINE left(g, t) == accepts[g][t] - Cardinality(Granted(g, t))
<1>5. /\ v \in Answered(h, s) /\ v \notin Granted(h, s)
      /\ \A g \in Host, t \in Session :
            Granted(g, t)' = IF g = h /\ t = s /\ h \notin Unattended
                             THEN Granted(g, t) \cup {v} ELSE Granted(g, t)
    BY <1>0, <1>1, <1>2 DEF Answered, Granted
<1>6. h \notin Unattended
    BY <1>0, <1>2 DEF PathOK
<1>7. left(h, s) \in Nat /\ left(h, s) > 0
  <2>1. /\ Granted(h, s) \in SUBSET Answered(h, s) /\ IsFiniteSet(Answered(h, s))
        /\ Cardinality(Granted(h, s)) \in Nat /\ Cardinality(Answered(h, s)) \in Nat
        /\ Cardinality(Answered(h, s)) <= accepts[h][s] /\ accepts[h][s] \in Nat
    BY GrantedAnswered DEF DeskInv, TypeOK, AgentTypeOK
  <2>2. /\ Cardinality(Granted(h, s)) <= Cardinality(Answered(h, s))
        /\ Cardinality(Granted(h, s)) # Cardinality(Answered(h, s))
    BY <1>5, <2>1, FS_Subset
  <2> QED
    BY <2>1, <2>2
<1>8. accepts[h][s] \in Nat /\ Cardinality(Granted(h, s)) \in Nat
      /\ IsFiniteSet(Granted(h, s))
    BY GrantedAnswered DEF DeskInv, TypeOK, AgentTypeOK
<1>9. Cardinality(Granted(h, s) \cup {v}) = Cardinality(Granted(h, s)) + 1
    BY <1>5, <1>8, FS_AddElement
<1>10. ASSUME NEW g \in Host, NEW t \in Session
       PROVE  accepts'[g][t] - Cardinality(Granted(g, t)')
                 = IF g = h /\ t = s THEN left(h, s) - 1 ELSE left(g, t)
  <2>1. accepts'[g][t] = accepts[g][t]
    BY <1>1
  <2>2. CASE g = h /\ t = s
    <3>1. Granted(g, t)' = Granted(h, s) \cup {v}
      BY <1>5, <1>6, <2>2
    <3>2. accepts'[g][t] - Cardinality(Granted(g, t)')
             = accepts[h][s] - (Cardinality(Granted(h, s)) + 1)
      BY <1>9, <2>1, <2>2, <3>1
    <3> QED
      BY <1>8, <2>2, <3>2
  <2>3. CASE ~(g = h /\ t = s)
    BY <1>5, <2>1, <2>3
  <2> QED
    BY <2>2, <2>3
<1> HIDE DEF left
<1>11. /\ YesNow = [g \in Host |-> [t \in Session |-> left(g, t)]]
       /\ YesNow' = [g \in Host |-> [t \in Session |->
                        IF g = h /\ t = s THEN left(h, s) - 1 ELSE left(g, t)]]
    BY <1>10 DEF YesNow, left
<1>12. YesNow[h][s] > 0 /\ YesNow' = [YesNow EXCEPT ![h][s] = @ - 1]
    BY <1>7, <1>11
<1>13. AtNow[v] = "asking" /\ AtNow' = [AtNow EXCEPT ![v] = "allowed"]
    BY <1>3, <1>4 DEF AtNow
<1>14. OfNow[v] = <<h, s>> /\ OfNow' = OfNow
    BY <1>1, <1>2 DEF OfNow
<1>15. OfNow[v][1] = h /\ OfNow[v][2] = s
    BY <1>14
<1> QED
    BY <1>1, <1>4, <1>12, <1>13, <1>14, <1>15, AllowIs, SecretSame, ClaimSame

\* Every step of the desk is one of the promise, or changes nothing of it.
LEMMA PromiseStep ==
    ASSUME DeskInv, DeskInv', GrantInv, GrantInv', PathOK, Next
    PROVE  [Promise!Next]_Promise!vars
<1> USE WireAssumption
<1>0. /\ vpc \in [Viewer -> VPC] /\ TypeOK /\ StreamOK /\ TypeOK' /\ StreamOK'
      /\ data \in [Viewer -> {"none", "requested", "open", "closed"}]
      /\ stream \in [Viewer -> BOOLEAN]
    BY DEF DeskInv, TypeOK, RelayTypeOK, WireTypeOK, AgentTypeOK
<1>1. ASSUME NEW h \in Host, UNCHANGED agentVars,
             \/ SendRegistered(h) \/ Resolve(h) \/ Deliver(h) \/ ControlEnd(h)
             \/ LockExpires(h)
      PROVE  UNCHANGED Promise!vars
    BY <1>1, Stutters DEF SendRegistered, Resolve, Deliver, ControlEnd, LockExpires,
       agentVars, connectVars, wireVars, registryVars
<1>2. ASSUME NEW h \in Host, UNCHANGED relayVars,
             HostConnect(h) \/ HostStep(h)
      PROVE  UNCHANGED Promise!vars
    BY <1>2, Stutters DEF HostConnect, HostStep, HostRegistered, HostUnexpected,
       HostIncoming, HostAlert, HostLost, HostDrop, agentVars, wireVars, relayVars,
       connectVars, registryVars
<1>3. ASSUME NetworkNext, UNCHANGED <<relayVars, agentVars>>
      PROVE  UNCHANGED Promise!vars
    BY <1>3, Stutters DEF NetworkNext, HostDrop, ViewerLeave, agentVars, relayVars,
       connectVars, registryVars
<1>4. ASSUME NEW h \in Host, Register(h), UNCHANGED agentVars
      PROVE  [Promise!Next]_Promise!vars
  <2>1. regId[h] = None /\ regId \in [Host -> ID \cup {None}]
        /\ regPin \in [Host -> PIN \cup {None}]
    BY <1>0, <1>4 DEF Register, TypeOK, RelayTypeOK
  <2>2. PICK i \in ID, p \in PIN : /\ regId' = [regId EXCEPT ![h] = i]
                                   /\ regPin' = [regPin EXCEPT ![h] = p]
    BY <1>4 DEF Register, FreeIDs
  <2>3. SecretNow[h] = None
    BY <2>1 DEF SecretNow
  <2>4. <<i, p>> \in ID \X PIN /\ <<i, p>> # None /\ i # None
    BY DeskAssumption
  <2>5. SecretNow' = [SecretNow EXCEPT ![h] = <<i, p>>]
    BY <2>1, <2>2, <2>4 DEF SecretNow
  <2>6. SecretNow' # SecretNow
    <3>1. SecretNow'[h] = <<i, p>>
      BY <2>5 DEF SecretNow
    <3> QED
      BY <2>3, <2>4, <3>1
  <2>7. UNCHANGED <<connectVars, accepts, stream, data>>
    BY <1>4 DEF Register, agentVars
  <2>8. UNCHANGED <<ClaimNow, OfNow>>
    BY <2>7, ClaimSame, OfSame DEF connectVars
  <2>9. AtNow' = AtNow
    BY <2>7 DEF AtNow, Place, connectVars
  <2>10. YesNow' = YesNow
    BY <2>7, GrantedSame, YesSame DEF connectVars
  <2>11. Promise!Register(h)
    BY <2>3, <2>4, <2>5, <2>8, <2>9, <2>10, RegisterIs
  <2> QED
    BY <2>6, <2>11, PromiseIs DEF Promise!Step
<1>5. ASSUME NEW v \in Viewer, ViewerConnect(v), UNCHANGED agentVars
      PROVE  [Promise!Next]_Promise!vars
  <2>1. vid \in [Viewer -> ID \cup {None}] /\ vpin \in [Viewer -> PIN \cup {None}]
        /\ vpc[v] = "idle" /\ vid[v] = None
    BY <1>0, <1>5 DEF ViewerConnect, TypeOK, RelayTypeOK, PathOK
  <2>2. PICK i \in ID, p \in PIN : /\ vid' = [vid EXCEPT ![v] = i]
                                   /\ vpin' = [vpin EXCEPT ![v] = p]
    BY <1>5 DEF ViewerConnect
  <2>3. ClaimNow[v] = None
    BY <2>1 DEF ClaimNow
  <2>4. <<i, p>> \in ID \X PIN /\ <<i, p>> # None /\ i # None
    BY DeskAssumption
  <2>5. ClaimNow' = [ClaimNow EXCEPT ![v] = <<i, p>>]
    BY <2>1, <2>2, <2>4 DEF ClaimNow
  <2>6. ClaimNow' # ClaimNow
    <3>1. ClaimNow'[v] = <<i, p>>
      BY <2>5 DEF ClaimNow
    <3> QED
      BY <2>3, <2>4, <3>1
  <2>7. /\ UNCHANGED <<regId, regPin, target, sess, accepts, stream, data>>
        /\ vpc' = [vpc EXCEPT ![v] = "lookup"]
    BY <1>5 DEF ViewerConnect, Go, registryVars, agentVars
  <2>8. UNCHANGED <<SecretNow, OfNow>>
    BY <2>7, SecretSame, OfSame
  <2>9. \A w \in Viewer : Place(w)' = Place(w)
    <3>1. stream[v] = FALSE /\ data[v] = "none"
      BY <1>0, <2>1 DEF StreamOK
    <3> QED
      BY <1>0, <2>1, <2>7, <3>1, PlaceIs, PlaceWillBe DEF PlaceOf
  <2>10. AtNow' = AtNow
    BY <2>9 DEF AtNow
  <2>11. YesNow' = YesNow
    <3>1. \A w \in Viewer : vpc[w] \in LetIn <=> vpc'[w] \in LetIn
      BY <1>0, <2>1, <2>7 DEF LetIn
    <3> QED
      BY <2>7, <3>1, GrantedSame, YesSame
  <2>12. Promise!Claim(v)
    BY <2>3, <2>4, <2>5, <2>8, <2>10, <2>11, ClaimIs
  <2> QED
    BY <2>6, <2>12, PromiseIs DEF Promise!Step
<1>6. ASSUME NEW v \in Viewer, Lookup(v), UNCHANGED agentVars
      PROVE  [Promise!Next]_Promise!vars
  <2>1. vpc[v] = "lookup" /\ sess[v] = None
    BY <1>6 DEF Lookup, DeskInv, LocalsOK
  <2>2. /\ UNCHANGED <<regId, regPin, vid, vpin, sess, accepts, stream, data>>
        /\ \A w \in Viewer \ {v} : target'[w] = target[w]
    BY <1>6 DEF Lookup, registryVars, wireVars, agentVars
  <2>3. Move(v, {"lookup"}, {"rejected", "auth"})
    BY <1>0, <1>6, Moves
  <2>4. OfNow' = OfNow
    BY <2>1, <2>2 DEF OfNow
  <2>5. YesNow' = YesNow
    <3>1. \A w \in Viewer : /\ vpc[w] \in LetIn <=> vpc'[w] \in LetIn
                            /\ vpc[w] \in LetIn => target'[w] = target[w]
      BY <2>2, <2>3 DEF Move, LetIn
    <3> QED
      BY <2>2, <3>1, GrantedSame, YesSame
  <2>6. \A w \in Viewer \ {v} : Place(w)' = Place(w)
    BY <1>0, <2>2, <2>3, PlaceIs, PlaceWillBe DEF Move
  <2>7. Place(v)' \in {Place(v), "over"}
    <3>1. stream[v] = FALSE /\ data[v] = "none"
      BY <1>0, <2>1 DEF StreamOK
    <3> QED
      BY <1>0, <2>2, <2>3, <3>1, PlaceIs, PlaceWillBe DEF Move, PlaceOf
  <2> QED
    BY <2>2, <2>4, <2>5, <2>6, <2>7, EndsOne, SecretSame, ClaimSame
<1>7. ASSUME NEW v \in Viewer, AskConsent(v), UNCHANGED agentVars
      PROVE  [Promise!Next]_Promise!vars
  <2>1. PICK h \in Host : target[v] = h /\ vpc[v] = "ask"
    BY <1>0, <1>7 DEF AskConsent, DeskInv, LocalsOK, TypeOK, RelayTypeOK
  <2>2. PICK s \in Session :
           /\ sess' = [sess EXCEPT ![v] = s]
           /\ vpc' = [vpc EXCEPT ![v] = IF h \in Unattended THEN "accepting" ELSE "notify"]
    BY <1>7, <2>1 DEF AskConsent, Go
  <2>3. UNCHANGED <<regId, regPin, vid, vpin, target, accepts, stream, data>>
    BY <1>7 DEF AskConsent, registryVars, wireVars, agentVars
  <2>4. sess \in [Viewer -> Session \cup {None}] /\ s # None
    BY <1>0 DEF TypeOK, RelayTypeOK
  <2>5. SecretNow[h] # None /\ ClaimNow[v] = SecretNow[h]
    <3>1. /\ vid[v] # None /\ vpin[v] # None
          /\ regId[h] = vid[v] /\ regPin[h] = vpin[v]
      BY <2>1 DEF DeskInv, LocalsOK, ClaimOK
    <3>2. <<vid[v], vpin[v]>> \in ID \X PIN
      BY <1>0, <3>1 DEF TypeOK, RelayTypeOK
    <3> QED
      BY <3>1, <3>2, DeskAssumption DEF SecretNow, ClaimNow
  <2>6. OfNow' = [OfNow EXCEPT ![v] = <<h, s>>]
    BY <2>1, <2>2, <2>3, <2>4 DEF OfNow
  <2>7. stream[v] = FALSE /\ data[v] = "none"
    BY <1>0, <2>1 DEF StreamOK
  <2>8. Place(v) = "outside"
    BY <1>0, <2>1, PlaceIs DEF PlaceOf
  <2>9. Place(v)' = IF h \in Unattended THEN "allowed" ELSE "asking"
    BY <1>0, <2>2, <2>3, <2>7, PlaceWillBe DEF PlaceOf
  <2>10. \A w \in Viewer \ {v} : Place(w)' = Place(w)
    BY <1>0, <2>2, <2>3, PlaceIs, PlaceWillBe
  <2>11. /\ AtNow[v] = "outside"
         /\ AtNow' = [AtNow EXCEPT ![v] = IF h \in Unattended THEN "allowed" ELSE "asking"]
    BY <2>8, <2>9, <2>10 DEF AtNow
  <2>12. AtNow' # AtNow
    <3>1. AtNow'[v] # AtNow[v]
      BY <2>8, <2>9 DEF AtNow
    <3> QED
      BY <3>1
  <2>13. \A g \in Host, t \in Session : Granted(g, t)' = Granted(g, t)
    <3> SUFFICES ASSUME NEW g \in Host, NEW t \in Session, NEW w \in Viewer
                 PROVE  w \in Granted(g, t)' <=> w \in Granted(g, t)
      BY DEF Granted
    <3>1. CASE w = v
      BY <1>0, <2>1, <2>2, <2>3, <3>1 DEF Granted
    <3>2. CASE w # v
      BY <1>0, <2>2, <2>3, <2>4, <3>2 DEF Granted
    <3> QED
      BY <3>1, <3>2
  <2>14. UNCHANGED <<SecretNow, ClaimNow, YesNow>>
    BY <2>3, <2>13, SecretSame, ClaimSame, YesSame
  <2>15. Promise!Admit(v, h, s)
    BY <2>5, <2>6, <2>11, <2>14, AdmitIs
  <2> QED
    BY <2>12, <2>15, PromiseIs DEF Promise!Step
<1>8. ASSUME NEW v \in Viewer, Onward(v), UNCHANGED agentVars
      PROVE  [Promise!Next]_Promise!vars
  <2>1. UNCHANGED <<regId, regPin>>
    BY <1>8 DEF Onward, Authenticate, SendAlert, NotifyHost, Await, Forget,
       AcceptViewer, OpenFails, Bridge, Unsplice, registryVars
  <2>2. CASE vpc'[v] # "granted"
    BY <1>8, <2>1, <2>2, OnwardEnds
  <2>3. CASE vpc'[v] = "granted"
    <3>1. Await(v)
      BY <1>0, <1>8, <2>3, Moves DEF Onward, Move
    <3>2. Promise!Allow(v) /\ Place(v)' # Place(v)
      BY <1>8, <2>1, <2>3, <3>1, AwaitAllows
    <3>3. AtNow' # AtNow
      <4>1. AtNow'[v] # AtNow[v]
        BY <3>2 DEF AtNow
      <4> QED
        BY <4>1
    <3> QED
      BY <3>2, <3>3, PromiseIs DEF Promise!Step
  <2> QED
    BY <2>2, <2>3
<1>9. ASSUME NEW v \in Viewer, OpenData(v), UNCHANGED agentVars
      PROVE  [Promise!Next]_Promise!vars
  <2>1. /\ UNCHANGED <<regId, regPin, connectVars, accepts, stream>>
        /\ vpc[v] = "opening" /\ data[v] = "none"
        /\ data' = [data EXCEPT ![v] = "requested"]
    BY <1>9 DEF OpenData, relayVars, registryVars, agentVars
  <2>2. \A w \in Viewer : Place(w)' = Place(w)
    BY <1>0, <2>1, PlaceIs, PlaceWillBe DEF PlaceOf, connectVars
  <2>3. UNCHANGED <<SecretNow, ClaimNow, OfNow>>
    BY <2>1, SecretSame, ClaimSame, OfSame DEF connectVars
  <2>4. YesNow' = YesNow
    BY <2>1, GrantedSame, YesSame DEF connectVars
  <2> QED
    BY <2>2, <2>3, <2>4, EndsOne
<1>10. ASSUME NEW h \in Host, NEW a \in Answer, HostAnswer(h, a), UNCHANGED relayVars
       PROVE  [Promise!Next]_Promise!vars
  <2>1. UNCHANGED <<regId, regPin, connectVars, stream, data>>
    BY <1>10 DEF HostAnswer, relayVars, registryVars
  <2>2. UNCHANGED <<SecretNow, ClaimNow, OfNow>>
    BY <2>1, SecretSame, ClaimSame, OfSame DEF connectVars
  <2>3. AtNow' = AtNow
    BY <2>1 DEF AtNow, Place, connectVars
  <2>4. \A g \in Host, t \in Session : Granted(g, t)' = Granted(g, t)
    BY <2>1, GrantedSame DEF connectVars
  <2>5. CASE a # "accept"
    <3>1. UNCHANGED accepts
      BY <1>10, <2>5 DEF HostAnswer
    <3> QED
      BY <2>2, <2>3, <2>4, <3>1, YesSame, PromiseIs
  <2>6. CASE a = "accept"
    <3>1. PICK s \in Session : accepts' = [accepts EXCEPT ![h][s] = @ + 1]
      BY <1>0, <1>10, <2>6 DEF HostAnswer, TypeOK, AgentTypeOK, DeskInv, LocalsOK
    <3>2. \A g \in Host, t \in Session :
             accepts[g][t] \in Nat /\ Cardinality(Granted(g, t)) \in Nat
      BY <1>0, GrantedAnswered DEF TypeOK, AgentTypeOK
    <3> DEFINE left(g, t) == accepts[g][t] - Cardinality(Granted(g, t))
    <3>3. ASSUME NEW g \in Host, NEW t \in Session
          PROVE  accepts'[g][t] - Cardinality(Granted(g, t)')
                    = IF g = h /\ t = s THEN left(h, s) + 1 ELSE left(g, t)
      <4>1. accepts'[g][t] = IF g = h /\ t = s THEN accepts[h][s] + 1 ELSE accepts[g][t]
        BY <1>0, <3>1 DEF TypeOK, AgentTypeOK
      <4> QED
        BY <2>4, <3>2, <4>1
    <3>4. left(h, s) \in Int
      BY <3>2
    <3> HIDE DEF left
    <3>5. /\ YesNow = [g \in Host |-> [t \in Session |-> left(g, t)]]
          /\ YesNow' = [g \in Host |-> [t \in Session |->
                           IF g = h /\ t = s THEN left(h, s) + 1 ELSE left(g, t)]]
      BY <3>3 DEF YesNow, left
    <3>6. YesNow' = [YesNow EXCEPT ![h][s] = @ + 1]
      BY <3>5
    <3>7. YesNow' # YesNow
      <4>1. YesNow[h][s] = left(h, s) /\ YesNow'[h][s] = left(h, s) + 1
        BY <3>5
      <4> QED
        BY <3>4, <4>1
    <3>8. Promise!SayYes(h, s)
      BY <2>2, <2>3, <3>6, SayYesIs
    <3> QED
      BY <3>7, <3>8, PromiseIs DEF Promise!Step
  <2> QED
    BY <2>5, <2>6
<1>11. ASSUME NEW v \in Viewer, HostEndStream(v), UNCHANGED relayVars
       PROVE  [Promise!Next]_Promise!vars
  <2>1. /\ UNCHANGED <<regId, regPin, connectVars, accepts>>
        /\ stream[v] /\ stream' = [stream EXCEPT ![v] = FALSE]
        /\ data' = [data EXCEPT ![v] = "closed"]
    BY <1>11 DEF HostEndStream, relayVars, registryVars
  <2>2. \A w \in Viewer \ {v} : Place(w)' = Place(w)
    BY <1>0, <2>1, PlaceIs, PlaceWillBe DEF connectVars
  <2>3. Place(v)' = "over"
    <3>1. vpc'[v] \in {"opening", "bridged", "closed"}
      BY <1>0, <2>1 DEF StreamOK, connectVars
    <3> QED
      BY <1>0, <2>1, <3>1, PlaceWillBe DEF PlaceOf
  <2>4. UNCHANGED <<SecretNow, ClaimNow, OfNow>>
    BY <2>1, SecretSame, ClaimSame, OfSame DEF connectVars
  <2>5. YesNow' = YesNow
    BY <2>1, GrantedSame, YesSame DEF connectVars
  <2> QED
    BY <2>2, <2>3, <2>4, <2>5, EndsOne
<1>12. ASSUME NEW v \in Viewer, HostAcceptData(target[v], v), UNCHANGED relayVars
       PROVE  [Promise!Next]_Promise!vars
  <2>1. /\ UNCHANGED <<regId, regPin, connectVars, accepts>>
        /\ data[v] = "requested" /\ stream' = [stream EXCEPT ![v] = TRUE]
        /\ data' = [data EXCEPT ![v] = "open"]
    BY <1>12 DEF HostAcceptData, relayVars, registryVars
  <2>2. vpc[v] \in {"opening", "bridged"} /\ vpc'[v] = vpc[v]
    BY <1>0, <2>1 DEF StreamOK, PathOK, connectVars
  <2>3. \A w \in Viewer \ {v} : Place(w)' = Place(w)
    BY <1>0, <2>1, PlaceIs, PlaceWillBe DEF connectVars
  <2>4. Place(v)' = "watching"
    BY <1>0, <2>1, <2>2, PlaceWillBe DEF PlaceOf
  <2>5. UNCHANGED <<SecretNow, ClaimNow, OfNow>>
    BY <2>1, SecretSame, ClaimSame, OfSame DEF connectVars
  <2>6. YesNow' = YesNow
    BY <2>1, GrantedSame, YesSame DEF connectVars
  <2>7. CASE stream[v]
    <3>1. Place(v) = "watching"
      BY <1>0, <2>2, <2>7, PlaceIs DEF PlaceOf
    <3> QED
      BY <2>3, <2>4, <2>5, <2>6, <3>1, EndsOne
  <2>8. CASE ~stream[v]
    <3>1. Place(v) = "allowed"
      BY <1>0, <2>1, <2>2, <2>8, PlaceIs DEF PlaceOf
    <3>2. AtNow[v] = "allowed" /\ AtNow' = [AtNow EXCEPT ![v] = "watching"]
      BY <2>3, <2>4, <3>1 DEF AtNow
    <3>3. AtNow' # AtNow
      <4>1. AtNow'[v] # AtNow[v]
        BY <2>4, <3>1 DEF AtNow
      <4> QED
        BY <4>1
    <3> QED
      BY <2>5, <2>6, <3>2, <3>3, OpenIs, PromiseIs DEF Promise!Step
  <2> QED
    BY <2>7, <2>8
<1>13. RelayNext /\ UNCHANGED agentVars => [Promise!Next]_Promise!vars
    BY <1>1, <1>4, <1>5, <1>6, <1>7, <1>8, <1>9
       DEF RelayNext, ServeControl, ServeConnect, Onward
<1>14. AgentNext /\ UNCHANGED relayVars => [Promise!Next]_Promise!vars
    BY <1>2, <1>10, <1>11, <1>12 DEF AgentNext
<1> QED
    BY <1>3, <1>13, <1>14 DEF Next

\* At first no path is begun.
LEMMA InitPath == ASSUME Init PROVE PathOK
BY DEF Init, WireInit, RelayInit, AgentInit, PathOK

\* The desk starts as the promise does.
LEMMA InitPromise == ASSUME Init PROVE Promise!Init
<1>1. ASSUME NEW h \in Host, NEW s \in Session
      PROVE  Granted(h, s) = {} /\ accepts[h][s] - Cardinality(Granted(h, s)) = 0
  <2>1. Granted(h, s) = {} /\ accepts[h][s] = 0
    BY DEF Init, RelayInit, AgentInit, Granted
  <2> QED
    BY <2>1, FS_EmptySet
<1>2. \A v \in Viewer : Place(v) = "outside"
    BY InitInv, PlaceIs DEF Init, RelayInit, DeskInv, PlaceOf
<1>3. /\ regId = [h \in Host |-> None] /\ vid = [v \in Viewer |-> None]
      /\ sess = [v \in Viewer |-> None]
    BY DEF Init, RelayInit
<1>4. SecretNow = [h \in Host |-> None] /\ ClaimNow = [v \in Viewer |-> None]
      /\ OfNow = [v \in Viewer |-> None]
    BY <1>3 DEF SecretNow, ClaimNow, OfNow
<1>5. YesNow = [h \in Host |-> [s \in Session |-> 0]]
    BY <1>1 DEF YesNow
<1>6. AtNow = [v \in Viewer |-> "outside"]
    BY <1>2 DEF AtNow
<1> QED
    BY <1>4, <1>5, <1>6 DEF Promise!Init, SecretNow, ClaimNow, OfNow, YesNow, AtNow

\* Relay, agents and network together do nothing but what module Consent
\* allows, for any number of hosts, viewers, IDs, PINs and session names.
THEOREM PromiseTheorem == Spec => KeepsPromise
<1>1. PathOK /\ DeskInv /\ [Next]_vars => PathOK'
    BY PathOKStep DEF PathOK, vars, wireVars, relayVars, connectVars
<1>2. ASSUME DeskInv, DeskInv', GrantInv, GrantInv', PathOK, [Next]_vars
      PROVE  [Promise!Next]_Promise!vars
  <2>1. CASE Next
    BY <1>2, <2>1, PromiseStep
  <2>2. CASE UNCHANGED vars
    BY <2>2, Stutters DEF vars, wireVars, relayVars, agentVars, registryVars, connectVars
  <2> QED
    BY <1>2, <2>1, <2>2
<1> QED
    BY <1>1, <1>2, InitPath, InitPromise, DeskInvariant, GrantInvariant, PTL
       DEF Spec, KeepsPromise, Promise!Spec
=============================================================================
