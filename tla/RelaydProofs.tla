----------------------------- MODULE RelaydProofs -----------------------------
(***************************************************************************)
(* Proofs about the relay program.  Relayd, for any number of peers and    *)
(* slots: the relay keeps one identity over every crash and restart, and   *)
(* counts its slots right.  PinLockout, for any number of concurrent       *)
(* attempts, any MaxPINAttempts and any LockoutDuration: the rate bound on *)
(* guessing a PIN, and that the clocked authenticate implements the gate   *)
(* of module PinGate.                                                      *)
(***************************************************************************)
EXTENDS Relayd, PinLockout, FiniteSetTheorems, TLAPS

-----------------------------------------------------------------------------
(* Types *)

LEMMA TypeInit == Init => TypeOK
  BY ConnAssumption, SMT DEF Init, NoServer, TypeOK, MaxDelay

LEMMA LongerType == ASSUME NEW d \in 0..MaxDelay PROVE Longer(d) \in 0..MaxDelay
  BY SMT DEF Longer, FirstDelay, MaxDelay

LEMMA HandledFinite == IsFiniteSet(Handled) /\ Cardinality(Handled) \in Nat
  <1>1. Handled \subseteq Conn
    BY DEF Handled
  <1> QED
    BY <1>1, ConnAssumption, FS_Subset, FS_CardinalityType

\* A connection that is handled holds a slot.
LEMMA SlotHeld ==
  ASSUME SlotPerConn, NEW c \in Handled
  PROVE  sem \in Nat \ {0}
  <1>1. Cardinality(Handled) # 0
    BY HandledFinite, FS_EmptySet
  <1> QED
    BY <1>1, HandledFinite DEF SlotPerConn

\* What ends the process leaves everything in its first state.
LEMMA DieType == ASSUME TypeOK, Die, UNCHANGED <<file, presented>> PROVE TypeOK'
  BY ConnAssumption, SMT DEF TypeOK, Die, MaxDelay

\* The key in memory is the key on file from the moment it is first shown, and
\* whatever was shown is on file.
KeyKept ==
    /\ \A k \in presented : k = file
    /\ proc \in {"ready", "serving", "stopping"} => signer = file /\ file \in HostKey
    /\ proc = "saving" => signer \in HostKey /\ file = Partial
    /\ \A c \in Conn : st[c] # "away" => proc \in {"serving", "stopping"}

\* What every step keeps.
RelaydInv == TypeOK /\ KeyKept /\ SlotPerConn

\* No step takes a variable out of its type. The slots stay within their bounds
\* because they are the connections handled.
LEMMA TypeStep ==
  ASSUME RelaydInv, [Next]_vars
  PROVE  TypeOK'
  <1> TypeOK /\ KeyKept /\ SlotPerConn
    BY DEF RelaydInv
  <1> USE ConnAssumption
  <1>1. CASE UNCHANGED vars
    BY <1>1, SMT DEF vars, TypeOK, keyVars, serverVars
  <1>2. CASE Start \/ LoadSigner \/ CreateFile \/ Listen
    BY <1>2, SMT DEF Start, LoadSigner, CreateFile, Listen, TypeOK, keyVars, serverVars
  <1>3. CASE StartFails \/ Exit \/ Crash
    BY <1>3, DieType DEF StartFails, Exit, Crash
  <1>4. CASE WriteFile
    <2>1. CASE file' = signer /\ proc' = "ready" /\ UNCHANGED <<signer, presented, serverVars>>
      BY <1>4, <2>1, SMT DEF TypeOK, KeyKept, WriteFile, serverVars
    <2> QED
      BY <1>4, <2>1, DieType DEF WriteFile
  <1>5. CASE Signal
    BY <1>5, SMT DEF Signal, TypeOK, keyVars
  <1>6. CASE AcceptFails
    BY <1>6, LongerType, SMT DEF AcceptFails, TypeOK, keyVars
  <1>7. CASE Wake \/ ServeReturns
    BY <1>7, SMT DEF Wake, ServeReturns, TypeOK, keyVars
  <1>8. ASSUME NEW c \in Conn, Accept(c)
        PROVE  TypeOK'
    <2>1. CASE sem < MaxConns
      <3>1. sem' \in 0..MaxConns
        BY <1>8, <2>1, SMT DEF Accept, TypeOK
      <3>2. deadline' \subseteq Conn
        BY <1>8, <2>1 DEF Accept, TypeOK
      <3> QED
        BY <1>8, <2>1, <3>1, <3>2, SMT DEF Accept, TypeOK, keyVars, MaxDelay
    <2>2. CASE ~(sem < MaxConns)
      <3>1. alive' \in [Conn -> BOOLEAN]
        BY <1>8, <2>2, Zenon DEF Accept, TypeOK
      <3> QED
        BY <1>8, <2>2, <3>1, SMT DEF Accept, TypeOK, keyVars, MaxDelay
    <2> QED
      BY <2>1, <2>2
  <1>9. ASSUME NEW c \in Conn, HandleConn(c)
        PROVE  TypeOK'
    <2>1. CASE Handshake(c)
      <3>1. signer \in HostKey
        BY <2>1 DEF Handshake, KeyKept
      <3> QED
        BY <2>1, <3>1, SMT DEF Handshake, TypeOK
    <2>2. CASE NewChannel(c) \/ ControlEnds(c) \/ ReadFails(c)
      BY <2>2, SMT DEF NewChannel, ControlEnds, ReadFails, TypeOK, keyVars
    <2>3. CASE Release(c)
      <3>1. sem \in Nat \ {0}
        BY <2>3, SlotHeld DEF Release, Handled
      <3>2. sem' \in 0..MaxConns
        BY <2>3, <3>1, SMT DEF Release, TypeOK
      <3> QED
        BY <2>3, <3>2, SMT DEF Release, TypeOK, keyVars
    <2> QED
      BY <1>9, <2>1, <2>2, <2>3 DEF HandleConn
  <1>10. ASSUME NEW c \in Conn, Dial(c) \/ PeerGone(c)
         PROVE  TypeOK'
    <2>1. CASE Dial(c)
      BY <2>1, SMT DEF Dial, TypeOK, keyVars
    <2>2. CASE PeerGone(c)
      <3>1. alive' \in [Conn -> BOOLEAN]
        BY <2>2, Zenon DEF PeerGone, TypeOK
      <3> QED
        BY <2>2, <3>1, SMT DEF PeerGone, TypeOK, keyVars
    <2> QED
      BY <1>10, <2>1, <2>2
  <1> QED
    BY <1>1, <1>2, <1>3, <1>4, <1>5, <1>6, <1>7, <1>8, <1>9, <1>10 DEF Next

-----------------------------------------------------------------------------
(* One identity *)

LEMMA KeyInit == Init => KeyKept
  BY ConnAssumption, SMT DEF Init, NoServer, KeyKept

LEMMA DieKey ==
  ASSUME TypeOK, KeyKept, Die, UNCHANGED <<file, presented>>
  PROVE  KeyKept'
  BY SMT DEF TypeOK, KeyKept, Die

\* The file is written once, before anything is shown, and read or kept after.
LEMMA KeyStep ==
  ASSUME TypeOK, KeyKept, [Next]_vars
  PROVE  KeyKept'
  <1> USE ConnAssumption DEF KeyKept
  <1>1. CASE UNCHANGED vars
    BY <1>1, SMT DEF vars, keyVars, serverVars
  <1>2. CASE Start \/ LoadSigner \/ Listen
    BY <1>2, SMT DEF Start, LoadSigner, Listen, keyVars, serverVars
  <1>3. CASE CreateFile
    <2>1. presented = {}
      BY <1>3, SMT DEF CreateFile, TypeOK
    <2> QED
      BY <1>3, <2>1, SMT DEF CreateFile, serverVars
  <1>4. CASE StartFails \/ Exit \/ Crash
    BY <1>4, DieKey DEF StartFails, Exit, Crash
  <1>5. CASE WriteFile
    <2>1. CASE file' = signer /\ proc' = "ready" /\ UNCHANGED <<signer, presented, serverVars>>
      <3>1. presented = {}
        BY <1>5, SMT DEF WriteFile, TypeOK
      <3> QED
        BY <1>5, <2>1, <3>1, SMT DEF WriteFile, serverVars
    <2> QED
      BY <1>5, <2>1, DieKey DEF WriteFile
  <1>6. CASE Signal
    BY <1>6, SMT DEF Signal, keyVars, TypeOK
  <1>7. CASE AcceptFails \/ Wake \/ ServeReturns
    BY <1>7, SMT DEF AcceptFails, Wake, ServeReturns, keyVars
  <1>8. ASSUME NEW c \in Conn, Accept(c)
        PROVE  KeyKept'
    BY <1>8, SMT DEF Accept, keyVars, TypeOK
  <1>9. ASSUME NEW c \in Conn, HandleConn(c)
        PROVE  KeyKept'
    <2>1. CASE Handshake(c)
      BY <2>1, SMT DEF Handshake, TypeOK
    <2>2. CASE NewChannel(c) \/ ControlEnds(c) \/ ReadFails(c)
      BY <2>2, SMT DEF NewChannel, ControlEnds, ReadFails, keyVars, TypeOK
    <2>3. CASE Release(c)
      BY <2>3, SMT DEF Release, keyVars, TypeOK
    <2> QED
      BY <1>9, <2>1, <2>2, <2>3 DEF HandleConn
  <1>10. ASSUME NEW c \in Conn, Dial(c) \/ PeerGone(c)
         PROVE  KeyKept'
    BY <1>10, SMT DEF Dial, PeerGone, keyVars, TypeOK
  <1> QED
    BY <1>1, <1>2, <1>3, <1>4, <1>5, <1>6, <1>7, <1>8, <1>9, <1>10 DEF Next

-----------------------------------------------------------------------------
(* One slot per connection *)

LEMMA SlotInit == Init => SlotPerConn
  <1> SUFFICES ASSUME Init
               PROVE  SlotPerConn
    OBVIOUS
  <1>1. Handled = {}
    BY SMT DEF Init, NoServer, Handled
  <1> QED
    BY <1>1, FS_EmptySet DEF Init, NoServer, SlotPerConn

LEMMA DieSlot == ASSUME Die PROVE SlotPerConn'
  <1>1. Handled' = {}
    BY SMT DEF Die, Handled
  <1> QED
    BY <1>1, FS_EmptySet DEF Die, SlotPerConn

\* A step that handles neither more nor fewer connections.
LEMMA SameSlots ==
  ASSUME SlotPerConn, Handled' = Handled, sem' = sem
  PROVE  SlotPerConn'
  BY DEF SlotPerConn

\* A token is put in with the connection and taken out with it.
LEMMA SlotStep ==
  ASSUME TypeOK, SlotPerConn, [Next]_vars
  PROVE  SlotPerConn'
  <1>1. CASE UNCHANGED vars
    BY <1>1, SameSlots DEF vars, serverVars, Handled
  <1>2. CASE Start \/ LoadSigner \/ CreateFile \/ Listen
    BY <1>2, SameSlots DEF Start, LoadSigner, CreateFile, Listen, serverVars, Handled
  <1>3. CASE StartFails \/ Exit \/ Crash
    BY <1>3, DieSlot DEF StartFails, Exit, Crash
  <1>4. CASE WriteFile
    BY <1>4, DieSlot, SameSlots DEF WriteFile, serverVars, Handled
  <1>5. CASE Signal
    <2>1. Handled' = Handled
      BY <1>5, SMT DEF Signal, Handled
    <2> QED
      BY <1>5, <2>1, SameSlots DEF Signal
  <1>6. CASE AcceptFails \/ Wake \/ ServeReturns
    BY <1>6, SameSlots DEF AcceptFails, Wake, ServeReturns, Handled
  <1>7. ASSUME NEW c \in Conn, Accept(c)
        PROVE  SlotPerConn'
    <2>1. CASE sem < MaxConns
      <3>1. Handled' = Handled \union {c} /\ c \notin Handled
        BY <1>7, <2>1, SMT DEF Accept, Handled, TypeOK
      <3>2. Cardinality(Handled \union {c}) = Cardinality(Handled) + 1
        BY <3>1, HandledFinite, FS_AddElement
      <3> QED
        BY <1>7, <2>1, <3>1, <3>2 DEF Accept, SlotPerConn
    <2>2. CASE ~(sem < MaxConns)
      <3>1. Handled' = Handled
        BY <1>7, <2>2, SMT DEF Accept, Handled, TypeOK
      <3> QED
        BY <1>7, <2>2, <3>1, SameSlots DEF Accept
    <2> QED
      BY <2>1, <2>2
  <1>8. ASSUME NEW c \in Conn, HandleConn(c)
        PROVE  SlotPerConn'
    <2>1. CASE Release(c)
      <3>1. Handled' = Handled \ {c} /\ c \in Handled
        BY <2>1, SMT DEF Release, Handled, TypeOK
      <3>2. Cardinality(Handled \ {c}) = Cardinality(Handled) - 1
        BY <3>1, HandledFinite, FS_RemoveElement
      <3> QED
        BY <2>1, <3>1, <3>2 DEF Release, SlotPerConn
    <2>2. CASE Handshake(c) \/ NewChannel(c) \/ ControlEnds(c) \/ ReadFails(c)
      <3>1. Handled' = Handled
        BY <2>2, SMT DEF Handshake, NewChannel, ControlEnds, ReadFails, Handled, TypeOK
      <3>2. sem' = sem
        BY <2>2 DEF Handshake, NewChannel, ControlEnds, ReadFails
      <3> QED
        BY <3>1, <3>2, SameSlots
    <2> QED
      BY <1>8, <2>1, <2>2 DEF HandleConn
  <1>9. ASSUME NEW c \in Conn, Dial(c) \/ PeerGone(c)
        PROVE  SlotPerConn'
    <2>1. Handled' = Handled
      BY <1>9, SMT DEF Dial, PeerGone, Handled, TypeOK
    <2> QED
      BY <1>9, <2>1, SameSlots DEF Dial, PeerGone
  <1> QED
    BY <1>1, <1>2, <1>3, <1>4, <1>5, <1>6, <1>7, <1>8, <1>9 DEF Next

-----------------------------------------------------------------------------
(* The theorems *)

LEMMA RelaydInvariant == Spec => []RelaydInv
  <1>1. Init => RelaydInv
    BY TypeInit, KeyInit, SlotInit DEF RelaydInv
  <1>2. RelaydInv /\ [Next]_vars => RelaydInv'
    BY TypeStep, KeyStep, SlotStep DEF RelaydInv
  <1> QED
    BY <1>1, <1>2, PTL DEF Spec

\* Every variable keeps its type: tempDelay stays within its cap, and no more
\* tokens are out than Server.sem has room for.
THEOREM TypeCorrect == Spec => []TypeOK
  BY RelaydInvariant, PTL DEF RelaydInv

\* All the handshakes of all starts of the relay show the same key.
THEOREM OneIdentity == Spec => []IdentityKept
  <1>1. RelaydInv => IdentityKept
    BY DEF RelaydInv, KeyKept, IdentityKept
  <1> QED
    BY <1>1, RelaydInvariant, PTL

\* Every connection handled has one token, and every token a connection.
THEOREM SlotsCounted == Spec => []SlotPerConn
  BY RelaydInvariant, PTL DEF RelaydInv

-----------------------------------------------------------------------------
(* PinLockout: the rate at which a PIN can be guessed *)

USE PinAssumption

\* Initially nothing has been guessed.
LEMMA InitPin == ASSUME PinInit PROVE PinInv
BY DEF PinInit, PinInv, PinTypeOK, CompareAlone, LastLockout, RateBound

\* A wrong guess is recorded now, after all the others.
LEMMA Recorded ==
    ASSUME PinInv, guesses' = Append(guesses, now)
    PROVE  /\ guesses' \in Seq(Nat)
           /\ Len(guesses') = Len(guesses) + 1
           /\ guesses'[Len(guesses) + 1] = now
           /\ \A i \in 1..Len(guesses) : guesses'[i] = guesses[i]
BY DEF PinInv, PinTypeOK

\* So the record stays in the order of time.
LEMMA Ordered ==
    ASSUME PinInv, guesses' = Append(guesses, now)
    PROVE  /\ \A i, j \in 1..Len(guesses') : i <= j => guesses'[i] <= guesses'[j]
           /\ \A i \in 1..Len(guesses') : guesses'[i] <= now
<1>1. now \in Nat /\ Len(guesses) \in Nat
    BY DEF PinInv, PinTypeOK
<1>2. \A i \in 1..Len(guesses') :
         \/ i \in 1..Len(guesses) /\ guesses'[i] <= now
         \/ i = Len(guesses) + 1 /\ guesses'[i] = now
    BY <1>1, Recorded DEF PinInv, LastLockout
<1>3. \A i, j \in 1..Len(guesses) : i <= j => guesses'[i] <= guesses'[j]
    BY Recorded DEF PinInv, LastLockout
<1> QED
    BY <1>1, <1>2, <1>3

\* A guess outside every lockout is at least Lockout later than the one
\* MaxPINAttempts before it: that one is not after the last lockout.
LEMMA RateStep ==
    ASSUME PinInv, guesses' = Append(guesses, now), now >= lockUntil
    PROVE  RateBound'
<1> SUFFICES ASSUME NEW i \in 1..Len(guesses') - MaxPINAttempts
             PROVE  guesses'[i + MaxPINAttempts] >= guesses'[i] + Lockout
    BY DEF RateBound
<1>1. /\ Len(guesses) \in Nat /\ failures \in 0..MaxPINAttempts-1
      /\ now \in Nat /\ lockUntil \in Nat /\ guesses \in Seq(Nat)
    BY DEF PinInv, PinTypeOK
<1>2. i \in 1..Len(guesses)
    BY <1>1, Recorded
<1>3. CASE i + MaxPINAttempts \in 1..Len(guesses)
    BY <1>1, <1>2, <1>3, Recorded DEF PinInv, RateBound
<1>4. CASE i + MaxPINAttempts = Len(guesses) + 1
  <2> DEFINE n == Len(guesses) - failures
  <2>1. n \in 1..Len(guesses) /\ i <= n
      BY <1>1, <1>2, <1>4
  <2>2. guesses[i] <= guesses[n] /\ lockUntil >= guesses[n] + Lockout
      BY <1>2, <2>1 DEF PinInv, LastLockout
  <2>3. guesses[i] \in Nat /\ guesses[n] \in Nat
    <3>1. \A k \in 1..Len(guesses) : guesses[k] \in Nat
      BY <1>1
    <3> HIDE DEF n
    <3> QED
      BY <1>2, <2>1, <3>1
  <2>4. guesses'[i + MaxPINAttempts] = now /\ guesses'[i] = guesses[i]
      BY <1>2, <1>4, Recorded
  <2>5. guesses[i] + Lockout <= guesses[n] + Lockout
      BY <2>2, <2>3
  <2>6. guesses[n] + Lockout <= now
      BY <1>1, <2>2, <2>3
  <2>7. now >= guesses[i] + Lockout
    <3>1. \A x, y, z \in Int : x <= y /\ y <= z => z >= x
      OBVIOUS
    <3> HIDE DEF n
    <3>2. Lockout \in Int /\ now \in Int
      BY <1>1, PinAssumption
    <3>3. guesses[i] + Lockout \in Int /\ guesses[n] + Lockout \in Int
      BY <2>3, <3>2
    <3> QED
      BY <2>5, <2>6, <3>1, <3>2, <3>3
  <2> QED
      BY <2>4, <2>7
<1>5. i + MaxPINAttempts \in 1..Len(guesses) \/ i + MaxPINAttempts = Len(guesses) + 1
  <2>1. Len(guesses') = Len(guesses) + 1
      BY Recorded
  <2> QED
      BY <1>1, <2>1
<1> QED
    BY <1>3, <1>4, <1>5

\* Each step of authenticate, and of the clock, keeps the invariant.
LEMMA PinStep == ASSUME PinInv, PinNext PROVE PinInv'
<1>1. CASE Tick
    BY <1>1 DEF Tick, PinInv, PinTypeOK, CompareAlone, LastLockout, RateBound
<1>2. ASSUME NEW a \in Attempt, Enter(a) PROVE PinInv'
    BY <1>2 DEF Enter, MayEnter, LockedOut, PinInv, PinTypeOK, CompareAlone,
                LastLockout, RateBound
<1>3. ASSUME NEW a \in Attempt, Right(a) PROVE PinInv'
    BY <1>3 DEF Right, Leave, PinInv, PinTypeOK, CompareAlone, LastLockout,
                RateBound
<1>4. ASSUME NEW a \in Attempt, Wrong(a) PROVE PinInv'
  <2>1. now >= lockUntil /\ guesses' = Append(guesses, now)
      BY <1>4 DEF Wrong, PinInv, CompareAlone
  <2>2. PinTypeOK'
      BY <1>4, <2>1, Recorded DEF Wrong, Leave, TripsLockout, PinInv, PinTypeOK
  <2>3. CompareAlone'
      BY <1>4 DEF Wrong, Leave, PinInv, PinTypeOK, CompareAlone
  <2>4. LastLockout'
    <3> DEFINE n == Len(guesses) - failures
    <3>1. /\ Len(guesses') - failures' = n /\ n \in Nat
          /\ lockUntil' = lockUntil /\ now' = now
      BY <1>4, <2>1, Recorded DEF Wrong, PinInv, PinTypeOK, LastLockout
    <3>2. n > 0 => n \in 1..Len(guesses)
      BY <3>1 DEF PinInv, PinTypeOK
    <3>3. n > 0 => lockUntil >= guesses'[n] + Lockout
      BY <2>1, <3>2, Recorded DEF PinInv, LastLockout
    <3>4. /\ \A i, j \in 1..Len(guesses') : i <= j => guesses'[i] <= guesses'[j]
          /\ \A i \in 1..Len(guesses') : guesses'[i] <= now'
      BY <2>1, <3>1, Ordered
    <3>5. /\ Len(guesses') - failures' >= 0
          /\ Len(guesses') - failures' > 0 =>
                lockUntil' >= guesses'[Len(guesses') - failures'] + Lockout
      <4> HIDE DEF n
      <4> QED
        BY <3>1, <3>3
    <3> QED
      BY <3>4, <3>5 DEF LastLockout
  <2> QED
      BY <2>1, <2>2, <2>3, <2>4, RateStep DEF PinInv
<1>5. ASSUME NEW a \in Attempt, LockOut(a) PROVE PinInv'
  <2>1. now >= lockUntil /\ guesses' = Append(guesses, now)
      BY <1>5 DEF LockOut, PinInv, CompareAlone
  <2>2. PinTypeOK'
      BY <1>5, <2>1, Recorded DEF LockOut, Leave, PinInv, PinTypeOK
  <2>3. CompareAlone'
      BY <1>5 DEF LockOut, Leave, PinInv, PinTypeOK, CompareAlone
  <2>4. LastLockout'
    <3>1. /\ Len(guesses') = Len(guesses) + 1 /\ Len(guesses) \in Nat
          /\ guesses'[Len(guesses')] = now /\ now \in Nat
        BY <2>1, Recorded DEF PinInv, PinTypeOK
    <3>2. Len(guesses') - failures' = Len(guesses')
        BY <1>5, <3>1 DEF LockOut
    <3>3. \A i, j \in 1..Len(guesses') : i <= j => guesses'[i] <= guesses'[j]
        BY <2>1, Ordered
    <3>4. \A i \in 1..Len(guesses') : guesses'[i] <= now'
        BY <1>5, <2>1, Ordered DEF LockOut
    <3> QED
        BY <1>5, <3>1, <3>2, <3>3, <3>4 DEF LockOut, LastLockout
  <2> QED
      BY <2>1, <2>2, <2>3, <2>4, RateStep DEF PinInv
<1> QED
    BY <1>1, <1>2, <1>3, <1>4, <1>5 DEF PinNext

\* The counters, the mutex and the history of guesses fit together.
THEOREM PinInvariant == PinSpec => []PinInv
<1>1. PinInv /\ UNCHANGED pinVars => PinInv'
    BY DEF pinVars, PinInv, PinTypeOK, CompareAlone, LastLockout, RateBound
<1> QED
    BY <1>1, InitPin, PinStep, PTL DEF PinSpec

\* However many viewers try at once, no MaxPINAttempts + 1 wrong PINs in a row
\* are compared in less than LockoutDuration.
THEOREM RateTheorem == PinSpec => []RateBound
<1>1. PinInv => RateBound
    BY DEF PinInv
<1> QED
    BY <1>1, PinInvariant, PTL

\* A PIN is compared by one goroutine at a time, outside any lockout.
THEOREM AloneTheorem == PinSpec => []CompareAlone
<1>1. PinInv => CompareAlone
    BY DEF PinInv
<1> QED
    BY <1>1, PinInvariant, PTL

\* Mutex and two clock readings implement the gate that judges at one instant.
THEOREM GateTheorem == PinSpec => IsGate
<1>1. PinInit => Gate!Init
    BY DEF PinInit, Gate!Init
<1>2. PinInv /\ [PinNext]_pinVars => [Gate!Next]_Gate!vars
  <2> SUFFICES ASSUME PinInv, [PinNext]_pinVars PROVE [Gate!Next]_Gate!vars
      OBVIOUS
  <2> USE DEF PinInv, PinTypeOK, CompareAlone, Gate!vars, Gate!Next, Gate!Right,
              Gate!Wrong, Gate!LockOut, Gate!Expire
  <2>1. CASE Tick
      BY <2>1 DEF Tick
  <2>2. ASSUME NEW a \in Attempt, Enter(a) PROVE UNCHANGED Gate!vars
      BY <2>2 DEF Enter
  <2>3. ASSUME NEW a \in Attempt, Right(a) PROVE Gate!Right
      BY <2>3 DEF Right
  <2>4. ASSUME NEW a \in Attempt, Wrong(a) PROVE Gate!Wrong
      BY <2>4 DEF Wrong, TripsLockout
  <2>5. ASSUME NEW a \in Attempt, LockOut(a) PROVE Gate!LockOut
      BY <2>5 DEF LockOut, TripsLockout
  <2>6. CASE UNCHANGED pinVars
      BY <2>6 DEF pinVars
  <2> QED
      BY <2>1, <2>2, <2>3, <2>4, <2>5, <2>6 DEF PinNext
<1> QED
    BY <1>1, <1>2, PinInvariant, PTL DEF PinSpec, IsGate, Gate!Spec

-----------------------------------------------------------------------------
(* No lockout without cause. *)

\* The guesses that count towards the next lockout came after the last one.
Counted ==
    \A i \in Len(guesses) - failures + 1..Len(guesses) : guesses[i] >= lockUntil

\* The wrong guess now and those counted so far are all after the last lockout.
LEMMA CountedStep ==
    ASSUME PinInv, Counted, guesses' = Append(guesses, now), now >= lockUntil
    PROVE  \A i \in Len(guesses') - failures..Len(guesses') : guesses'[i] >= lockUntil
<1>1. /\ Len(guesses) \in Nat /\ failures \in Nat /\ failures <= Len(guesses)
      /\ Len(guesses') = Len(guesses) + 1
    BY Recorded DEF PinInv, PinTypeOK, LastLockout
<1> SUFFICES ASSUME NEW i \in Len(guesses') - failures..Len(guesses')
             PROVE  guesses'[i] >= lockUntil
    OBVIOUS
<1>2. CASE i = Len(guesses) + 1
    BY <1>2, Recorded
<1>3. CASE i # Len(guesses) + 1
  <2>1. i \in 1..Len(guesses) /\ i \in Len(guesses) - failures + 1..Len(guesses)
      BY <1>1, <1>3
  <2> QED
      BY <2>1, Recorded DEF Counted
<1> QED
    BY <1>2, <1>3

\* Each step keeps that, and sets lockUntil only with cause.
LEMMA EarnedStep ==
    ASSUME PinInv, Counted, [PinNext]_pinVars
    PROVE  /\ Counted'
           /\ lockUntil' # lockUntil =>
                 /\ Len(guesses') >= MaxPINAttempts
                 /\ \A i \in 0..MaxPINAttempts-1 :
                       guesses'[Len(guesses') - i] >= lockUntil
                 /\ lockUntil' = guesses'[Len(guesses')] + Lockout
<1>1. CASE UNCHANGED <<guesses, failures, lockUntil>>
    BY <1>1 DEF Counted
<1>2. ASSUME NEW a \in Attempt, Right(a)
      PROVE  Counted' /\ lockUntil' = lockUntil
    BY <1>2 DEF Right, Counted
<1>3. ASSUME NEW a \in Attempt, Wrong(a)
      PROVE  Counted' /\ lockUntil' = lockUntil
  <2>1. /\ now >= lockUntil /\ guesses' = Append(guesses, now)
        /\ failures' = failures + 1 /\ lockUntil' = lockUntil
      BY <1>3 DEF Wrong, PinInv, CompareAlone
  <2>2. Len(guesses') - failures' + 1 = Len(guesses') - failures
      BY <2>1, Recorded DEF PinInv, PinTypeOK
  <2> QED
      BY <2>1, <2>2, CountedStep DEF Counted
<1>4. ASSUME NEW a \in Attempt, LockOut(a)
      PROVE  /\ Counted'
             /\ Len(guesses') >= MaxPINAttempts
             /\ \A i \in 0..MaxPINAttempts-1 :
                   guesses'[Len(guesses') - i] >= lockUntil
             /\ lockUntil' = guesses'[Len(guesses')] + Lockout
  <2>1. /\ now >= lockUntil /\ guesses' = Append(guesses, now)
        /\ failures' = 0 /\ lockUntil' = now + Lockout
      BY <1>4 DEF LockOut, PinInv, CompareAlone
  <2>2. /\ Len(guesses') = Len(guesses) + 1 /\ Len(guesses) \in Nat
        /\ guesses'[Len(guesses')] = now
      BY <2>1, Recorded DEF PinInv, PinTypeOK
  <2>3. failures = MaxPINAttempts - 1 /\ failures <= Len(guesses)
      BY <1>4 DEF LockOut, TripsLockout, PinInv, PinTypeOK, LastLockout
  <2>4. Counted'
      BY <2>1, <2>2 DEF Counted
  <2>5. ASSUME NEW i \in 0..MaxPINAttempts-1
        PROVE  guesses'[Len(guesses') - i] >= lockUntil
    <3>1. Len(guesses') - i \in Len(guesses') - failures..Len(guesses')
        BY <2>2, <2>3
    <3> QED
        BY <2>1, <3>1, CountedStep
  <2> QED
      BY <2>1, <2>2, <2>3, <2>4, <2>5
<1> QED
    BY <1>1, <1>2, <1>3, <1>4 DEF PinNext, Tick, Enter, pinVars

\* Whoever is refused for a lockout is refused for MaxPINAttempts wrong PINs
\* since the lockout before, for any number of concurrent attempts.
THEOREM EarnedTheorem == PinSpec => LockoutEarned
<1>1. PinInit => Counted
    BY DEF PinInit, Counted
<1> QED
    BY <1>1, EarnedStep, PinInvariant, PTL DEF PinSpec, LockoutEarned
=============================================================================
