------------------------------- MODULE Relayd -------------------------------
(***************************************************************************)
(* The relay as a process: its host key on disk, the accept loop, the      *)
(* connection limit, the handshake deadline, and shutdown.  What a         *)
(* registered connection then does is module Relay's.  A crash may come at *)
(* any step, and the process may be started again.                         *)
(***************************************************************************)
EXTENDS Naturals, FiniteSets

CONSTANTS
    Conn,            \* the peers that connect, one TCP connection each at a time
    Authorized,      \* those whose key --authorized-keys lists; Conn without it
    HostKey,         \* the keys wire.NewSigner may draw
    MaxConns,        \* Options.MaxConns: the capacity of Server.sem
    Absent, Partial  \* states of the key file that are no key

ASSUME ConnAssumption ==
    /\ IsFiniteSet(Conn) /\ Authorized \subseteq Conn
    /\ MaxConns \in Nat \ {0}
    /\ Absent \notin HostKey /\ Partial \notin HostKey

VARIABLES
    file,            \* the host key file
    proc,            \* how far main has come
    signer,          \* the host key in memory
    presented,       \* history: the keys handshakes have shown to agents
    serve,           \* Serve's loop
    delay,           \* tempDelay, ms
    sem,             \* the number of tokens in Server.sem
    st,              \* a peer's connection: where handleConn is with it
    alive,           \* whether the peer is still at the other end
    deadline         \* connections whose deadline is set

serverVars == <<serve, delay, sem, st, alive, deadline>>
keyVars == <<file, signer, presented>>
vars == <<keyVars, proc, serverVars>>

FirstDelay == 5      \* 5 * time.Millisecond
MaxDelay == 1000     \* time.Second
Longer(d) == IF d = 0 THEN FirstDelay ELSE IF 2 * d > MaxDelay THEN MaxDelay ELSE 2 * d

Handled == {c \in Conn : st[c] \in {"shake", "first", "loop", "control", "ending"}}

NoServer ==
    /\ serve = "idle" /\ delay = 0 /\ sem = 0
    /\ st = [c \in Conn |-> "away"]
    /\ alive = [c \in Conn |-> TRUE]
    /\ deadline = {}

Init ==
    /\ file = Absent /\ signer = Absent /\ presented = {}
    /\ proc = "off"
    /\ NoServer

\* The process is gone, and with it every connection and what was in memory.
Die ==
    /\ proc' = "off" /\ signer' = Absent
    /\ serve' = "idle" /\ delay' = 0 /\ sem' = 0
    /\ st' = [c \in Conn |-> "away"]
    /\ alive' = [c \in Conn |-> TRUE]
    /\ deadline' = {}

\* A fault, a kill, or a signal that comes before signal.Notify.
Crash == proc # "off" /\ Die /\ UNCHANGED <<file, presented>>

-----------------------------------------------------------------------------
(* main: starting *)

Start ==
    /\ proc = "off" /\ proc' = "loading"
    /\ UNCHANGED <<keyVars, serverVars>>

\* LoadOrCreateSigner: a key on file is used, and what is no key refused.
LoadSigner ==
    /\ proc = "loading" /\ file \in HostKey
    /\ signer' = file /\ proc' = "ready"
    /\ UNCHANGED <<file, presented, serverVars>>

\* log.Fatalf: no readable key, no authorized keys, or no port to listen on.
StartFails ==
    /\ proc \in {"loading", "ready"}
    /\ Die /\ UNCHANGED <<file, presented>>

\* Mutant of CreateFile: the key drawn is used without being saved.
CreateUnsaved ==
    /\ proc = "loading" /\ file = Absent
    /\ \E k \in HostKey : signer' = k
    /\ proc' = "ready" /\ UNCHANGED <<file, presented, serverVars>>

\* Without a file a key is drawn, and os.WriteFile creates the file...
CreateFile ==
    /\ proc = "loading" /\ file = Absent
    /\ \E k \in HostKey : signer' = k
    /\ file' = Partial /\ proc' = "saving"
    /\ UNCHANGED <<presented, serverVars>>

\* ...and writes it, to the end or until the disk is full.
WriteFile ==
    /\ proc = "saving"
    /\ \/ file' = signer /\ proc' = "ready" /\ UNCHANGED <<signer, presented, serverVars>>
       \/ Die /\ UNCHANGED <<file, presented>>

\* net.Listen, and the goroutine that runs Serve.
Listen ==
    /\ proc = "ready" /\ proc' = "serving"
    /\ serve' = "accepting"
    /\ UNCHANGED <<keyVars, delay, sem, st, alive, deadline>>

\* SIGINT or SIGTERM: the listener is closed, with what waits in its queue.
Signal ==
    /\ proc = "serving" /\ proc' = "stopping"
    /\ st' = [c \in Conn |-> IF st[c] = "queued" THEN "away" ELSE st[c]]
    /\ alive' = [c \in Conn |-> st[c] = "queued" \/ alive[c]]
    /\ UNCHANGED <<keyVars, serve, delay, sem, deadline>>

\* <-errCh, and main returns.
Exit ==
    /\ proc = "stopping" /\ serve = "returned"
    /\ Die /\ UNCHANGED <<file, presented>>

-----------------------------------------------------------------------------
(* Serve *)

\* Mutant of Accept: the deadline is forgotten.
AcceptForever(c) ==
    /\ proc = "serving" /\ serve = "accepting" /\ st[c] = "queued"
    /\ delay' = 0 /\ sem < MaxConns /\ sem' = sem + 1
    /\ st' = [st EXCEPT ![c] = "shake"]
    /\ UNCHANGED <<keyVars, proc, serve, alive, deadline>>

\* Dropped when every slot is taken, else handed to a handleConn of its own,
\* whose first act is to set the deadline.
Accept(c) ==
    /\ proc = "serving" /\ serve = "accepting" /\ st[c] = "queued"
    /\ delay' = 0
    /\ IF sem < MaxConns
       THEN /\ sem' = sem + 1
            /\ st' = [st EXCEPT ![c] = "shake"]
            /\ deadline' = deadline \union {c}
            /\ UNCHANGED alive
       ELSE /\ st' = [st EXCEPT ![c] = "away"]
            /\ alive' = [alive EXCEPT ![c] = TRUE]
            /\ UNCHANGED <<sem, deadline>>
    /\ UNCHANGED <<keyVars, proc, serve>>

\* Mutant of AcceptFails: Serve returns on any error.
DiesOnError ==
    /\ proc = "serving" /\ serve = "accepting"
    /\ serve' = "returned"
    /\ UNCHANGED <<keyVars, proc, delay, sem, st, alive, deadline>>

\* Accept fails for another reason than a closed listener: too many files.
AcceptFails ==
    /\ proc = "serving" /\ serve = "accepting"
    /\ delay' = Longer(delay) /\ serve' = "sleeping"
    /\ UNCHANGED <<keyVars, proc, sem, st, alive, deadline>>

Wake ==
    /\ serve = "sleeping" /\ serve' = "accepting"
    /\ UNCHANGED <<keyVars, proc, delay, sem, st, alive, deadline>>

\* Mutant of ServeReturns: a closed listener is one more error to retry.
ClosedRetried ==
    /\ proc = "stopping" /\ serve = "accepting"
    /\ delay' = Longer(delay) /\ serve' = "sleeping"
    /\ UNCHANGED <<keyVars, proc, sem, st, alive, deadline>>

\* net.ErrClosed.
ServeReturns ==
    /\ proc = "stopping" /\ serve = "accepting" /\ serve' = "returned"
    /\ UNCHANGED <<keyVars, proc, delay, sem, st, alive, deadline>>

-----------------------------------------------------------------------------
(* handleConn *)

\* The handshake shows the host key, then asks for the peer's.
Handshake(c) ==
    /\ st[c] = "shake" /\ alive[c]
    /\ presented' = presented \union {signer}
    /\ st' = [st EXCEPT ![c] = IF c \in Authorized THEN "first" ELSE "ending"]
    /\ UNCHANGED <<file, signer, proc, serve, delay, sem, alive, deadline>>

\* The first channel, of whatever type, clears the deadline.  A connect
\* channel gets a goroutine and an unknown one is refused, and the loop goes
\* on; a control channel holds it.
NewChannel(c) ==
    /\ st[c] \in {"first", "loop"} /\ alive[c]
    /\ deadline' = IF st[c] = "first" THEN deadline \ {c} ELSE deadline
    /\ \E type \in {"control", "connect", "unknown"} :
          st' = [st EXCEPT ![c] = IF type = "control" THEN "control" ELSE "loop"]
    /\ UNCHANGED <<keyVars, proc, serve, delay, sem, alive>>

\* serveControl returns: the peer closed the channel, or is gone.
ControlEnds(c) ==
    /\ st[c] = "control"
    /\ st' = [st EXCEPT ![c] = "loop"]
    /\ UNCHANGED <<keyVars, proc, serve, delay, sem, alive, deadline>>

\* Mutant of ReadFails: the early return of a failed handshake keeps the token.
LeavesToken(c) ==
    /\ st[c] \in {"shake", "first", "loop"}
    /\ ~alive[c] \/ c \in deadline
    /\ IF st[c] = "shake"
       THEN /\ st' = [st EXCEPT ![c] = "away"]
            /\ deadline' = deadline \ {c} /\ alive' = [alive EXCEPT ![c] = TRUE]
       ELSE st' = [st EXCEPT ![c] = "ending"] /\ UNCHANGED <<deadline, alive>>
    /\ UNCHANGED <<keyVars, proc, serve, delay, sem>>

\* A read fails: the peer is gone or the deadline has passed.
ReadFails(c) ==
    /\ st[c] \in {"shake", "first", "loop"}
    /\ ~alive[c] \/ c \in deadline
    /\ st' = [st EXCEPT ![c] = "ending"]
    /\ UNCHANGED <<keyVars, proc, serve, delay, sem, alive, deadline>>

\* The deferred calls: the connection is closed, the token taken back.
Release(c) ==
    /\ st[c] = "ending"
    /\ st' = [st EXCEPT ![c] = "away"]
    /\ alive' = [alive EXCEPT ![c] = TRUE]
    /\ deadline' = deadline \ {c}
    /\ sem' = sem - 1
    /\ UNCHANGED <<keyVars, proc, serve, delay>>

-----------------------------------------------------------------------------
(* The peers *)

Dial(c) ==
    /\ proc = "serving" /\ st[c] = "away"
    /\ st' = [st EXCEPT ![c] = "queued"]
    /\ UNCHANGED <<keyVars, proc, serve, delay, sem, alive, deadline>>

PeerGone(c) ==
    /\ st[c] # "away" /\ alive[c]
    /\ alive' = [alive EXCEPT ![c] = FALSE]
    /\ UNCHANGED <<keyVars, proc, serve, delay, sem, st, deadline>>

-----------------------------------------------------------------------------
HandleConn(c) == Handshake(c) \/ NewChannel(c) \/ ControlEnds(c) \/ ReadFails(c) \/ Release(c)

Next ==
    \/ Start \/ LoadSigner \/ StartFails \/ CreateFile \/ WriteFile
    \/ Listen \/ Signal \/ Exit \/ Crash
    \/ AcceptFails \/ Wake \/ ServeReturns
    \/ \E c \in Conn : Accept(c) \/ HandleConn(c) \/ Dial(c) \/ PeerGone(c)

(***************************************************************************)
(* Fairness: goroutines that can go on do, sleeps and deadlines end, and a *)
(* connection is not passed over for ever: the errors of Accept pass.      *)
(* Nothing obliges a peer to speak, or anyone to start or stop the relay.  *)
(***************************************************************************)
Fairness ==
    /\ WF_vars(Wake) /\ WF_vars(ServeReturns) /\ WF_vars(Exit)
    /\ \A c \in Conn : SF_vars(Accept(c)) /\ WF_vars(ReadFails(c)) /\ WF_vars(Release(c))

Spec == Init /\ [][Next]_vars /\ Fairness

-----------------------------------------------------------------------------
(* Properties *)

TypeOK ==
    /\ file \in HostKey \union {Absent, Partial}
    /\ signer \in HostKey \union {Absent}
    /\ presented \subseteq HostKey
    /\ proc \in {"off", "loading", "saving", "ready", "serving", "stopping"}
    /\ serve \in {"idle", "accepting", "sleeping", "returned"}
    /\ delay \in 0..MaxDelay /\ sem \in 0..MaxConns
    /\ st \in [Conn -> {"away", "queued", "shake", "first", "loop", "control",
                    "ending"}]
    /\ alive \in [Conn -> BOOLEAN]
    /\ deadline \subseteq Conn

\* Agents pin the relay's key: whatever crashes while it was being made or
\* written, all the handshakes of all starts show the same key.
IdentityKept == \A k, l \in presented : k = l

\* One token per connection handled, on every way out of handleConn: the limit
\* is never passed, and no slot is lost to a connection that is over.
SlotPerConn == sem = Cardinality(Handled)

\* A peer that says nothing does not keep its slot.
StrangersGo ==
    \A c \in Conn : st[c] \in {"shake", "first"} ~> st[c] \notin {"shake", "first"}

\* Told to stop, the relay does, asleep after an error or serving peers that stay.
StopsClean == proc = "stopping" ~> proc = "off"

\* A connection in the queue is accepted or dropped, whatever errors came before.
QueueServed == \A c \in Conn : st[c] = "queued" ~> st[c] # "queued"
=============================================================================
