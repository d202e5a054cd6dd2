------------------------------- MODULE PinGate -------------------------------
(***************************************************************************)
(* What authenticate (internal/relay/relay.go) promises, without clock and *)
(* mutex: PINs are judged one at a time and only when the host is not      *)
(* locked out, and the MaxPINAttempts-th wrong one in a row locks it out.  *)
(* Module Relay uses this view of it.                                      *)
(***************************************************************************)
EXTENDS Naturals

CONSTANT MaxPINAttempts

VARIABLES failures, locked

vars == <<failures, locked>>

Init == failures = 0 /\ locked = FALSE

Right ==
    /\ ~locked
    /\ failures' = 0
    /\ UNCHANGED locked

Wrong ==
    /\ ~locked
    /\ failures + 1 < MaxPINAttempts
    /\ failures' = failures + 1
    /\ UNCHANGED locked

LockOut ==
    /\ ~locked
    /\ failures + 1 = MaxPINAttempts
    /\ failures' = 0
    /\ locked' = TRUE

Expire ==
    /\ locked
    /\ locked' = FALSE
    /\ UNCHANGED failures

Next == Right \/ Wrong \/ LockOut \/ Expire

Spec == Init /\ [][Next]_vars
=============================================================================
