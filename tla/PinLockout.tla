------------------------------ MODULE PinLockout ------------------------------
(***************************************************************************)
(* Server.authenticate of internal/relay/relay.go on one hostReg, with its *)
(* mutex attemptMu and the clock: it reads time.Now when it decides        *)
(* whether the host is locked out and again when it sets lockUntil, and    *)
(* any number of viewers' goroutines call it at once.                      *)
(***************************************************************************)
EXTENDS Integers, Sequences

CONSTANTS
    Attempt,         \* goroutines that may be in authenticate at once
    MaxPINAttempts,  \* Options.MaxPINAttempts
    Lockout,         \* Options.LockoutDuration, in ticks of the clock
    Horizon,         \* TLC stops the clock here
    Nobody

ASSUME PinAssumption ==
    /\ MaxPINAttempts \in Nat \ {0}
    /\ Lockout \in Nat \ {0}
    /\ Horizon \in Nat
    /\ Nobody \notin Attempt

VARIABLES
    now,             \* time.Now
    failures,        \* hostReg.failures
    lockUntil,       \* hostReg.lockUntil
    holder,          \* who holds attemptMu
    pc,              \* "out", or "compare": found the host not locked out
    guesses          \* history: when wrong PINs were compared, since a right one

pinVars == <<now, failures, lockUntil, holder, pc, guesses>>

PinTypeOK ==
    /\ now \in Nat
    /\ failures \in 0..MaxPINAttempts-1
    /\ lockUntil \in Nat
    /\ holder \in Attempt \cup {Nobody}
    /\ pc \in [Attempt -> {"out", "compare"}]
    /\ guesses \in Seq(Nat)

PinInit ==
    /\ now = 0
    /\ failures = 0
    /\ lockUntil = 0
    /\ holder = Nobody
    /\ pc = [a \in Attempt |-> "out"]
    /\ guesses = <<>>

\* Mutant of LockedOut: the lockout is set but never looked at.
NeverLocked == FALSE

\* time.Now().Before(reg.lockUntil)
LockedOut == now < lockUntil

\* Mutant of MayEnter: authenticate without attemptMu.
Anybody(a) == TRUE

MayEnter(a) == holder = Nobody

\* Lock, and look at the lockout: a host that is locked out refuses unseen.
Enter(a) ==
    /\ pc[a] = "out"
    /\ MayEnter(a)
    /\ ~LockedOut
    /\ holder' = a
    /\ pc' = [pc EXCEPT ![a] = "compare"]
    /\ UNCHANGED <<now, failures, lockUntil, guesses>>

Leave(a) ==
    /\ holder' = Nobody
    /\ pc' = [pc EXCEPT ![a] = "out"]

\* ConstantTimeCompare found the PIN right.
Right(a) ==
    /\ pc[a] = "compare"
    /\ failures' = 0
    /\ guesses' = <<>>
    /\ Leave(a)
    /\ UNCHANGED <<now, lockUntil>>

\* Mutant of TripsLockout: the count is compared before it is raised.
TripsLate == failures >= MaxPINAttempts

TripsLockout == failures + 1 >= MaxPINAttempts

\* It is wrong, and not the last one allowed.
Wrong(a) ==
    /\ pc[a] = "compare"
    /\ ~TripsLockout
    /\ failures' = failures + 1
    /\ guesses' = Append(guesses, now)
    /\ Leave(a)
    /\ UNCHANGED <<now, lockUntil>>

\* It is wrong once too often; the lockout counts from now.
LockOut(a) ==
    /\ pc[a] = "compare"
    /\ TripsLockout
    /\ failures' = 0
    /\ lockUntil' = now + Lockout
    /\ guesses' = Append(guesses, now)
    /\ Leave(a)
    /\ UNCHANGED now

Tick ==
    /\ now < Horizon
    /\ now' = now + 1
    /\ UNCHANGED <<failures, lockUntil, holder, pc, guesses>>

PinNext ==
    \/ Tick
    \/ \E a \in Attempt : Enter(a) \/ Right(a) \/ Wrong(a) \/ LockOut(a)

PinSpec == PinInit /\ [][PinNext]_pinVars

-----------------------------------------------------------------------------
\* Of any MaxPINAttempts + 1 wrong PINs in a row that were compared, the last
\* came at least LockoutDuration after the first: that is the rate at which
\* the PIN of a host can be tried, however many viewers try at once.
RateBound ==
    \A i \in 1..Len(guesses) - MaxPINAttempts :
       guesses[i + MaxPINAttempts] >= guesses[i] + Lockout

\* Whoever is about to compare a PIN does so alone and outside any lockout.
CompareAlone ==
    \A a \in Attempt : pc[a] = "compare" => holder = a /\ now >= lockUntil

\* The last lockout, and the guesses that count towards the next.
LastLockout ==
    LET n == Len(guesses) - failures IN
    /\ n >= 0
    /\ n > 0 => lockUntil >= guesses[n] + Lockout
    /\ \A i, j \in 1..Len(guesses) : i <= j => guesses[i] <= guesses[j]
    /\ \A i \in 1..Len(guesses) : guesses[i] <= now

PinInv == PinTypeOK /\ CompareAlone /\ LastLockout /\ RateBound

\* Nobody is refused for a lockout without cause: lockUntil is what it was set
\* to by MaxPINAttempts wrong PINs, the last of them LockoutDuration before it.
LockoutEarned ==
    [][lockUntil' # lockUntil =>
          /\ Len(guesses') >= MaxPINAttempts
          /\ \A i \in 0..MaxPINAttempts-1 :
                guesses'[Len(guesses') - i] >= lockUntil
          /\ lockUntil' = guesses'[Len(guesses')] + Lockout]_pinVars

Gate == INSTANCE PinGate WITH locked <- now < lockUntil

\* With clock and mutex, authenticate still is the gate module Relay uses.
IsGate == Gate!Spec
=============================================================================
