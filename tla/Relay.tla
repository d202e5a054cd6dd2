-------------------------------- MODULE Relay --------------------------------
(***************************************************************************)
(* The relay broker, internal/relay/relay.go: one goroutine per host       *)
(* control channel (serveControl), one per viewer connect channel          *)
(* (serveConnect), the registry they share under Server.mu, and the        *)
(* hostReg of each host, which a viewer's goroutine keeps using after the  *)
(* lookup that found it.  Each step is one critical section, one channel   *)
(* operation or one write to the network.                                  *)
(***************************************************************************)
EXTENDS Wire

CONSTANT MaxPINAttempts

ASSUME RelayAssumption == MaxPINAttempts \in Nat \ {0}

VARIABLES
    hosts,           \* Server.hosts: who is registered under an ID
    ctl,             \* serveControl of a host
    regId, regPin,   \* hostReg.id, hostReg.pin
    pending,         \* hostReg.pending: whose answer a session awaits
    failures,        \* hostReg.failures
    locked,          \* now is before hostReg.lockUntil
    delivery,        \* what resolve fetched and has not put yet
    vpc,             \* serveConnect of a viewer
    vid, vpin,       \* its ConnectRequest
    target, sess,    \* its locals reg and session
    result,          \* the buffered result channel of awaitConsent
    lockouts, alerts \* history: lockouts tripped, alerts written

registryVars == <<hosts, ctl, regId, regPin>>
consentVars == <<pending, delivery, result>>
pinVars == <<failures, locked, lockouts, alerts>>
connectVars == <<vpc, vid, vpin, target, sess>>
relayVars == <<registryVars, consentVars, pinVars, connectVars>>

VPC == {"idle", "lookup", "auth", "alert", "ask", "notify", "waiting",
        "granted", "denied", "accepting", "opening", "bridged",
        "closed", "rejected"}
Delivery == [to : Viewer \cup {None}, answer : Answer]

RelayTypeOK ==
    /\ hosts \in [ID -> Host \cup {None}]
    /\ ctl \in [Host -> {"reading", "registering", "ended"}]
    /\ regId \in [Host -> ID \cup {None}]
    /\ regPin \in [Host -> PIN \cup {None}]
    /\ pending \in [Host -> [Session -> Viewer \cup {None}]]
    /\ failures \in [Host -> 0..MaxPINAttempts-1]
    /\ locked \in [Host -> BOOLEAN]
    /\ delivery \in [Host -> Delivery \cup {None}]
    /\ vpc \in [Viewer -> VPC]
    /\ vid \in [Viewer -> ID \cup {None}]
    /\ vpin \in [Viewer -> PIN \cup {None}]
    /\ target \in [Viewer -> Host \cup {None}]
    /\ sess \in [Viewer -> Session \cup {None}]
    /\ result \in [Viewer -> Answer \cup {None}]
    /\ lockouts \in [Host -> Nat]
    /\ alerts \in [Host -> Nat]

RelayInit ==
    /\ hosts = [i \in ID |-> None]
    /\ ctl = [h \in Host |-> "reading"]
    /\ regId = [h \in Host |-> None]
    /\ regPin = [h \in Host |-> None]
    /\ pending = [h \in Host |-> [s \in Session |-> None]]
    /\ failures = [h \in Host |-> 0]
    /\ locked = [h \in Host |-> FALSE]
    /\ delivery = [h \in Host |-> None]
    /\ vpc = [v \in Viewer |-> "idle"]
    /\ vid = [v \in Viewer |-> None]
    /\ vpin = [v \in Viewer |-> None]
    /\ target = [v \in Viewer |-> None]
    /\ sess = [v \in Viewer |-> None]
    /\ result = [v \in Viewer |-> None]
    /\ lockouts = [h \in Host |-> 0]
    /\ alerts = [h \in Host |-> 0]

Go(v, pc) == vpc' = [vpc EXCEPT ![v] = pc]

-----------------------------------------------------------------------------
(* serveControl *)

\* Mutant of FreeIDs: the check for an ID in use is left out.
AnyID == ID

FreeIDs == {i \in ID : hosts[i] = None}

\* register: the ID is taken, and can be looked up, before it is announced.
\* The registered flag of serveControl lets a host do this once.
Register(h) ==
    /\ ctl[h] = "reading" /\ delivery[h] = None
    /\ regId[h] = None
    /\ Arrived(toRelay[h], {"register"})
    /\ toRelay' = [toRelay EXCEPT ![h] = Tail(@)]
    /\ \E i \in FreeIDs, p \in PIN :
          /\ hosts' = [hosts EXCEPT ![i] = h]
          /\ regId' = [regId EXCEPT ![h] = i]
          /\ regPin' = [regPin EXCEPT ![h] = p]
    /\ ctl' = [ctl EXCEPT ![h] = "registering"]
    /\ UNCHANGED <<hconn, vconn, toHost, data, consentVars, pinVars, connectVars>>

SendRegistered(h) ==
    /\ ctl[h] = "registering"
    /\ SendToHost(h, Msg("registered", None)) \/ LoseToHost(h)
    /\ ctl' = [ctl EXCEPT ![h] = "reading"]
    /\ UNCHANGED <<hconn, vconn, toRelay, data, hosts, regId, regPin,
                   consentVars, pinVars, connectVars>>

\* resolve, under pendMu: whose channel the answer goes to.
Resolve(h) ==
    /\ ctl[h] = "reading" /\ delivery[h] = None
    /\ Arrived(toRelay[h], Answer)
    /\ toRelay' = [toRelay EXCEPT ![h] = Tail(@)]
    /\ LET m == Head(toRelay[h]) IN
       delivery' = [delivery EXCEPT ![h] =
                       [to |-> pending[h][m.session], answer |-> m.op]]
    /\ UNCHANGED <<hconn, vconn, toHost, data, registryVars, pending, result,
                   pinVars, connectVars>>

\* Mutant of Recipients: one channel per host, so that every waiter wakes up.
AllWaiting(h) == {v \in Viewer : target[v] = h}

Recipients(h) == {delivery[h].to}

\* resolve, after pendMu: the put does not wait, a second answer is dropped.
Deliver(h) ==
    /\ delivery[h] # None
    /\ result' = [v \in Viewer |->
                    IF v \in Recipients(h) /\ result[v] = None
                    THEN delivery[h].answer ELSE result[v]]
    /\ delivery' = [delivery EXCEPT ![h] = None]
    /\ UNCHANGED <<wireVars, registryVars, pending, pinVars, connectVars>>

\* Mutant of Unregistered: the return path that forgets to unregister.
Kept(h) == hosts

\* The end of serveControl: unregister goes by the ID alone.
Unregistered(h) == [i \in ID |-> IF i = regId[h] THEN None ELSE hosts[i]]

ControlEnd(h) ==
    /\ ctl[h] = "reading" /\ delivery[h] = None
    /\ hconn[h] = "down" /\ toRelay[h] = <<>>
    /\ ctl' = [ctl EXCEPT ![h] = "ended"]
    /\ hosts' = Unregistered(h)
    /\ UNCHANGED <<wireVars, regId, regPin, consentVars, pinVars, connectVars>>

-----------------------------------------------------------------------------
(* serveConnect *)

\* The viewer's connect channel arrives with its ConnectRequest.
ViewerConnect(v) ==
    /\ vpc[v] = "idle"
    /\ vconn' = [vconn EXCEPT ![v] = "up"]
    /\ \E i \in ID, p \in PIN :
          /\ vid' = [vid EXCEPT ![v] = i]
          /\ vpin' = [vpin EXCEPT ![v] = p]
    /\ Go(v, "lookup")
    /\ UNCHANGED <<hconn, toRelay, toHost, data, registryVars, consentVars,
                   pinVars, target, sess>>

Lookup(v) ==
    /\ vpc[v] = "lookup"
    /\ LET h == hosts[vid[v]] IN
          /\ target' = [target EXCEPT ![v] = h]
          /\ Go(v, IF h = None THEN "rejected" ELSE "auth")
    /\ UNCHANGED <<wireVars, registryVars, consentVars, pinVars, vid, vpin, sess>>

\* Mutant of AfterLocked: every refusal under a lockout is announced.
AlertAgain == "alert"

AfterLocked == "rejected"

\* Mutant of PinMatches: any PIN will do.
PinGiven(v) == vpin[v] # None

PinMatches(v) == vpin[v] = regPin[target[v]]

TripsLockout(h) == failures[h] + 1 >= MaxPINAttempts

\* authenticate, one disjunct per outcome.
Locked(v) ==
    /\ locked[target[v]]
    /\ Go(v, AfterLocked)
    /\ UNCHANGED pinVars

GoodPIN(v) ==
    LET h == target[v] IN
    /\ ~locked[h]
    /\ PinMatches(v)
    /\ failures' = [failures EXCEPT ![h] = 0]
    /\ Go(v, "ask")
    /\ UNCHANGED <<locked, lockouts, alerts>>

BadPIN(v) ==
    LET h == target[v] IN
    /\ ~locked[h]
    /\ ~PinMatches(v)
    /\ ~TripsLockout(h)
    /\ failures' = [failures EXCEPT ![h] = @ + 1]
    /\ Go(v, "rejected")
    /\ UNCHANGED <<locked, lockouts, alerts>>

LockOut(v) ==
    LET h == target[v] IN
    /\ ~locked[h]
    /\ ~PinMatches(v)
    /\ TripsLockout(h)
    /\ failures' = [failures EXCEPT ![h] = 0]
    /\ locked' = [locked EXCEPT ![h] = TRUE]
    /\ lockouts' = [lockouts EXCEPT ![h] = @ + 1]
    /\ Go(v, "alert")
    /\ UNCHANGED alerts

Authenticate(v) ==
    /\ vpc[v] = "auth"
    /\ Locked(v) \/ GoodPIN(v) \/ BadPIN(v) \/ LockOut(v)
    /\ UNCHANGED <<wireVars, registryVars, consentVars, vid, vpin, target, sess>>

\* Time passes lockUntil.
LockExpires(h) ==
    /\ locked[h]
    /\ locked' = [locked EXCEPT ![h] = FALSE]
    /\ UNCHANGED <<wireVars, registryVars, consentVars, connectVars,
                   failures, lockouts, alerts>>

SendAlert(v) ==
    LET h == target[v] IN
    /\ vpc[v] = "alert"
    /\ SendToHost(h, Msg("alert", None)) \/ LoseToHost(h)
    /\ alerts' = [alerts EXCEPT ![h] = @ + 1]
    /\ Go(v, "rejected")
    /\ UNCHANGED <<hconn, vconn, toRelay, data, registryVars, consentVars,
                   failures, locked, lockouts, vid, vpin, target, sess>>

\* A session is drawn from all names: nothing keeps two from being equal.
AskConsent(v) ==
    LET h == target[v] IN
    /\ vpc[v] = "ask"
    /\ \E s \in Session :
          /\ sess' = [sess EXCEPT ![v] = s]
          /\ \/ /\ h \in Unattended
                /\ Go(v, "accepting")
                /\ UNCHANGED pending
             \/ /\ h \notin Unattended
                /\ pending' = [pending EXCEPT ![h][s] = v]
                /\ Go(v, "notify")
    /\ UNCHANGED <<wireVars, registryVars, delivery, result, pinVars, vid, vpin,
                   target>>

NotifyHost(v) ==
    LET h == target[v] IN
    /\ vpc[v] = "notify"
    /\ \/ SendToHost(h, Msg("incoming", sess[v])) /\ Go(v, "waiting")
       \/ LoseToHost(h) /\ (Go(v, "waiting") \/ Go(v, "denied"))
    /\ UNCHANGED <<hconn, vconn, toRelay, data, registryVars, consentVars,
                   pinVars, vid, vpin, target, sess>>

\* Mutant of OnTimeout: the zero value of the result is taken for a yes.
YesOnTimeout == "granted"

OnTimeout == "denied"

\* Mutant of TimesOut: the select without its timer.
NoTimer(v) == FALSE

\* acceptTimeout may pass at any moment of the wait.
TimesOut(v) == vpc[v] = "waiting"

\* The select of awaitConsent: an answer or acceptTimeout, whichever it picks.
Await(v) ==
    /\ vpc[v] = "waiting"
    /\ \/ result[v] = "accept" /\ Go(v, "granted")
       \/ result[v] = "reject" /\ Go(v, "denied")
       \/ TimesOut(v) /\ Go(v, OnTimeout)
    /\ UNCHANGED <<wireVars, registryVars, consentVars, pinVars, vid, vpin,
                   target, sess>>

\* Mutant of Forgotten: the entry stays.
Remembered(v) == pending

Forgotten(v) == [pending EXCEPT ![target[v]][sess[v]] = None]

\* The deferred delete of awaitConsent.
Forget(v) ==
    /\ vpc[v] \in {"granted", "denied"}
    /\ pending' = Forgotten(v)
    /\ Go(v, IF vpc[v] = "granted" THEN "accepting" ELSE "rejected")
    /\ UNCHANGED <<wireVars, registryVars, delivery, result, pinVars, vid, vpin,
                   target, sess>>

\* newCh.Accept: fails only when the relay has noticed that the viewer left.
AcceptViewer(v) ==
    /\ vpc[v] = "accepting"
    /\ Go(v, "opening") \/ (vconn[v] = "down" /\ Go(v, "closed"))
    /\ UNCHANGED <<wireVars, registryVars, consentVars, pinVars, vid, vpin,
                   target, sess>>

\* OpenChannel sends the request, and returns when the host confirms it
\* (Bridge) or the host's connection is gone (OpenFails).
OpenData(v) ==
    /\ vpc[v] = "opening" /\ data[v] = "none"
    /\ hconn[target[v]] = "up"
    /\ data' = [data EXCEPT ![v] = "requested"]
    /\ UNCHANGED <<hconn, vconn, toRelay, toHost, relayVars>>

OpenFails(v) ==
    /\ vpc[v] = "opening"
    /\ hconn[target[v]] = "down"
    /\ data' = [data EXCEPT ![v] = "closed"]
    /\ Go(v, "closed")
    /\ UNCHANGED <<hconn, vconn, toRelay, toHost, registryVars, consentVars,
                   pinVars, vid, vpin, target, sess>>

Bridge(v) ==
    /\ vpc[v] = "opening"
    /\ data[v] \in {"open", "closed"}
    /\ Go(v, "bridged")
    /\ UNCHANGED <<wireVars, registryVars, consentVars, pinVars, vid, vpin,
                   target, sess>>

\* Mutant of DataClosed: the deferred dataCh.Close is missing.
DataLeftOpen(v) == data

DataClosed(v) == [data EXCEPT ![v] = "closed"]

\* splice returns when one direction ends; the deferred Closes close both.
Unsplice(v) ==
    /\ vpc[v] = "bridged"
    /\ vconn[v] = "down" \/ hconn[target[v]] = "down" \/ data[v] = "closed"
    /\ data' = DataClosed(v)
    /\ Go(v, "closed")
    /\ UNCHANGED <<hconn, vconn, toRelay, toHost, registryVars, consentVars,
                   pinVars, vid, vpin, target, sess>>

-----------------------------------------------------------------------------
ServeControl(h) ==
    Register(h) \/ SendRegistered(h) \/ Resolve(h) \/ Deliver(h) \/ ControlEnd(h)

ServeConnect(v) ==
    \/ Lookup(v) \/ Authenticate(v) \/ SendAlert(v)
    \/ AskConsent(v) \/ NotifyHost(v) \/ Await(v) \/ Forget(v)
    \/ AcceptViewer(v) \/ OpenData(v) \/ OpenFails(v) \/ Bridge(v) \/ Unsplice(v)

RelayNext ==
    \/ \E h \in Host : ServeControl(h) \/ LockExpires(h)
    \/ \E v \in Viewer : ViewerConnect(v) \/ ServeConnect(v)
=============================================================================
