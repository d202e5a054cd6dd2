------------------------------- MODULE Consent -------------------------------
(***************************************************************************)
(* What relay and host agents together promise, whatever the messages and  *)
(* goroutines in between: a viewer sees a screen only if it named the ID   *)
(* and the PIN of that host, and if the host is attended, only by using up *)
(* one "yes" its user gave for that session.                               *)
(***************************************************************************)
EXTENDS Naturals

CONSTANTS Host, Viewer, ID, PIN, Session, Unattended, None

VARIABLES
    secret,          \* the ID and PIN a host was given
    claim,           \* the ID and PIN a viewer named
    yes,             \* consents given and not used up, per host and session
    at,              \* how far a viewer has come
    of               \* the host and session its request is about

vars == <<secret, claim, yes, at, of>>

Init ==
    /\ secret = [h \in Host |-> None]
    /\ claim = [v \in Viewer |-> None]
    /\ yes = [h \in Host |-> [s \in Session |-> 0]]
    /\ at = [v \in Viewer |-> "outside"]
    /\ of = [v \in Viewer |-> None]

Register(h) ==
    /\ secret[h] = None
    /\ \E k \in ID \X PIN : secret' = [secret EXCEPT ![h] = k]
    /\ UNCHANGED <<claim, yes, at, of>>

Claim(v) ==
    /\ claim[v] = None
    /\ \E k \in ID \X PIN : claim' = [claim EXCEPT ![v] = k]
    /\ UNCHANGED <<secret, yes, at, of>>

\* The claim holds. The host's user is asked, unless there is none.
Admit(v, h, s) ==
    /\ at[v] = "outside"
    /\ secret[h] # None /\ claim[v] = secret[h]
    /\ of' = [of EXCEPT ![v] = <<h, s>>]
    /\ at' = [at EXCEPT ![v] = IF h \in Unattended THEN "allowed" ELSE "asking"]
    /\ UNCHANGED <<secret, claim, yes>>

SayYes(h, s) ==
    /\ yes' = [yes EXCEPT ![h][s] = @ + 1]
    /\ UNCHANGED <<secret, claim, at, of>>

\* One yes lets one viewer in.
Allow(v) ==
    /\ at[v] = "asking"
    /\ yes[of[v][1]][of[v][2]] > 0
    /\ yes' = [yes EXCEPT ![of[v][1]][of[v][2]] = @ - 1]
    /\ at' = [at EXCEPT ![v] = "allowed"]
    /\ UNCHANGED <<secret, claim, of>>

Open(v) ==
    /\ at[v] = "allowed"
    /\ at' = [at EXCEPT ![v] = "watching"]
    /\ UNCHANGED <<secret, claim, yes, of>>

\* Refused, timed out, or ended; there is no way back.
End(v) ==
    /\ at[v] # "over"
    /\ at' = [at EXCEPT ![v] = "over"]
    /\ UNCHANGED <<secret, claim, yes, of>>

Step ==
    \/ \E h \in Host : Register(h) \/ \E s \in Session : SayYes(h, s)
    \/ \E v \in Viewer :
          \/ Claim(v) \/ Allow(v) \/ Open(v) \/ End(v)
          \/ \E h \in Host, s \in Session : Admit(v, h, s)

\* Steps that change something: what changes nothing is a stutter.
Next ==
    /\ at' # at \/ claim' # claim \/ secret' # secret \/ yes' # yes
    /\ Step

Spec == Init /\ [][Next]_vars
=============================================================================
