----------------------------- MODULE SpliceProofs -----------------------------
(***************************************************************************)
(* Proofs about module Splice: whatever room the connections have, however *)
(* much is sent and however many of them break, the chain between viewer   *)
(* and host implements the stream of module Stream, and a close does not   *)
(* overtake what was sent to an end that only listens.                     *)
(***************************************************************************)
EXTENDS Splice, Integers, TLAPS

\* A copier holds a chunk between Read and Write.
Hand(j, d) == IF pc[j][d] = "write" THEN 1 ELSE 0

OnWires(d) == queue[0][d] + queue[1][d] + queue[2][d]
InHands(d) == Hand(1, d) + Hand(2, d)
InTransit(d) == OnWires(d) + InHands(d)

TypeInv ==
    /\ queue \in [Link -> [Dir -> Nat]]
    /\ pc \in [Hop -> [Dir -> {"read", "write", "done"}]]
    /\ shut \in [Hop -> 0..2]
    /\ owed \in [Dir -> Int]
    /\ eof \in [Dir -> BOOLEAN]

\* Nothing is made up on the way, and nothing doubled.
Conserved == \A d \in Dir : InTransit(d) <= owed[d]

\* No copier ends, and no connection is closed, before an end closes or a
\* connection breaks.
CutFirst ==
    /\ closed # {} => Cut
    /\ \A j \in Hop, d \in Dir : pc[j][d] = "done" => Cut

SpliceInv == TypeInv /\ Conserved /\ CutFirst

-----------------------------------------------------------------------------
LEMMA Places ==
  /\ Link = {0, 1, 2} /\ Hop = {1, 2}
  /\ \A j \in Hop, d \in Dir : From(j, d) \in Link /\ To(j, d) \in Link /\ From(j, d) # To(j, d)
  /\ \A d \in Dir : FirstLink(d) \in Link /\ LastLink(d) \in Link
  BY SMT DEF Link, Hop, Dir, From, To, FirstLink, LastLink

LEMMA InitInv == Init => SpliceInv
  <1> SUFFICES ASSUME Init
               PROVE  SpliceInv
    OBVIOUS
  <1>1. TypeInv
    BY Places, SMT DEF Init, TypeInv
  <1>2. Conserved
    BY Places, SMT DEF Init, Conserved, InTransit, OnWires, InHands, Hand
  <1>3. CutFirst
    BY SMT DEF Init, CutFirst
  <1> QED
    BY <1>1, <1>2, <1>3 DEF SpliceInv

\* Once the stream is cut it stays so.
LEMMA CutStays ==
  ASSUME Cut, closed \subseteq closed', broken \subseteq broken'
  PROVE  Cut'
  BY DEF Cut

\* A copier's read or write that fails does so after the cut.
LEMMA EndsAfterCut ==
  ASSUME CutFirst, NEW l, NEW d, Ended(l, d)
  PROVE  Cut
  BY DEF CutFirst, Ended, Cut

\* Setting one cell of a table of tables.
LEMMA Cell ==
  ASSUME NEW A, NEW B, NEW S, NEW f \in [A -> [B -> S]],
         NEW a \in A, NEW b \in B, NEW x \in S
  PROVE  /\ [f EXCEPT ![a][b] = x] \in [A -> [B -> S]]
         /\ \A a2 \in A, b2 \in B :
               [f EXCEPT ![a][b] = x][a2][b2] = IF a2 = a /\ b2 = b THEN x ELSE f[a2][b2]
  OBVIOUS

\* A close may only take away what was sent from that side.
LEMMA CloseTakes ==
  ASSUME NEW l, NEW side, queue[l][Outbound(side)] \in Nat, Close(l, side)
  PROVE  \E n \in 0..queue[l][Outbound(side)] :
            queue' = [queue EXCEPT ![l][Outbound(side)] = n]
  <1> DEFINE sent == queue[l][Outbound(side)]
             some == IF <<l, side>> \in ClosesTCP \ closed /\ queue[l][Inbound(side)] > 0
                     THEN 0 ELSE sent
  <1>1. \E n \in some..sent : queue' = [queue EXCEPT ![l][Outbound(side)] = n]
    BY DEF Close
  <1>2. some \in {0, sent}
    OBVIOUS
  <1>3. some..sent \subseteq 0..sent
    <2> HIDE DEF some
    <2> QED
      BY <1>2
  <1> HIDE DEF some
  <1> QED
    BY <1>1, <1>3

LEMMA TypeStep == ASSUME TypeInv, [Next]_vars PROVE TypeInv'
  <1>1. CASE UNCHANGED vars
    BY <1>1, SMT DEF vars, endVars, TypeInv
  <1>2. ASSUME NEW j \in Hop, NEW d \in Dir, Copy(j, d)
        PROVE  TypeInv'
    <2>1. From(j, d) \in Link /\ To(j, d) \in Link
      BY Places
    <2>2. queue' \in [Link -> [Dir -> Nat]]
      <3>1. CASE Read(j, d)
        <4>1. queue[From(j, d)][d] \in Nat /\ queue[From(j, d)][d] > 0
          BY <2>1, <3>1 DEF Read, CanRead, TypeInv
        <4>2. queue[From(j, d)][d] - 1 \in Nat
          BY <4>1
        <4>3. queue' = [queue EXCEPT ![From(j, d)][d] = queue[From(j, d)][d] - 1]
          BY <3>1 DEF Read
        <4> QED
          BY <2>1, <4>2, <4>3, Cell DEF TypeInv
      <3>2. CASE Write(j, d)
        <4>1. queue[To(j, d)][d] \in Nat
          BY <2>1 DEF TypeInv
        <4>2. queue[To(j, d)][d] + 1 \in Nat
          BY <4>1
        <4>3. queue' = [queue EXCEPT ![To(j, d)][d] = queue[To(j, d)][d] + 1]
          BY <3>2 DEF Write
        <4> QED
          BY <2>1, <4>2, <4>3, Cell DEF TypeInv
      <3> QED
        BY <1>2, <3>1, <3>2 DEF Copy, ReadEnds, WriteFails, TypeInv
    <2>3. pc' \in [Hop -> [Dir -> {"read", "write", "done"}]]
      <3>1. PICK place \in {"read", "write", "done"} : pc' = [pc EXCEPT ![j][d] = place]
        BY <1>2 DEF Copy, Read, ReadEnds, Write, WriteFails, Goto
      <3> QED
        BY <3>1, Cell DEF TypeInv
    <2>4. UNCHANGED <<shut, endVars>>
      BY <1>2 DEF Copy, Read, ReadEnds, Write, WriteFails
    <2> QED
      BY <2>2, <2>3, <2>4 DEF TypeInv, endVars
  <1>3. ASSUME NEW l \in Link, NEW side \in {"v", "h"}, Close(l, side), UNCHANGED <<pc, endVars>>,
               shut' \in [Hop -> 0..2]
        PROVE  TypeInv'
    <2>1. Outbound(side) \in Dir
      BY <1>3 DEF Outbound, Dir
    <2>2. queue[l][Outbound(side)] \in Nat
      BY <2>1 DEF TypeInv
    <2>3. PICK n \in 0..queue[l][Outbound(side)] :
             queue' = [queue EXCEPT ![l][Outbound(side)] = n]
      BY <1>3, <2>2, CloseTakes DEF TypeInv
    <2>4. n \in Nat
      OBVIOUS
    <2> QED
      BY <1>3, <2>1, <2>3, <2>4, Cell DEF TypeInv, endVars
  <1>4. ASSUME NEW j \in Hop, CloseBoth(j)
        PROVE  TypeInv'
    <2>1. shut[j] \in 0..1
      BY <1>4 DEF CloseBoth, TypeInv
    <2>2. /\ Order(j)[shut[j] + 1][1] \in Link
          /\ Order(j)[shut[j] + 1][2] \in {"v", "h"}
      BY <2>1 DEF Order, Link, Hop
    <2>3. shut' \in [Hop -> 0..2]
      BY <1>4, <2>1 DEF CloseBoth, TypeInv
    <2> QED
      BY <1>3, <1>4, <2>2, <2>3 DEF CloseBoth
  <1>5. ASSUME NEW d \in Dir, EndWrites(d)
        PROVE  TypeInv'
    <2>1. FirstLink(d) \in Link
      BY Places
    <2>2. queue[FirstLink(d)][d] + 1 \in Nat
      BY <2>1 DEF TypeInv
    <2>3. queue' \in [Link -> [Dir -> Nat]]
      BY <1>5, <2>1, <2>2, Cell DEF EndWrites, TypeInv
    <2>4. owed' \in [Dir -> Int]
      BY <1>5 DEF EndWrites, TypeInv
    <2> QED
      BY <1>5, <2>3, <2>4 DEF EndWrites, TypeInv
  <1>6. ASSUME NEW d \in Dir, EndReads(d)
        PROVE  TypeInv'
    <2>1. LastLink(d) \in Link
      BY Places
    <2>2. queue[LastLink(d)][d] - 1 \in Nat
      BY <1>6, <2>1 DEF EndReads, TypeInv
    <2>3. queue' \in [Link -> [Dir -> Nat]]
      BY <1>6, <2>1, <2>2, Cell DEF EndReads, TypeInv
    <2>4. owed' \in [Dir -> Int]
      BY <1>6 DEF EndReads, TypeInv
    <2> QED
      BY <1>6, <2>3, <2>4 DEF EndReads, TypeInv
  <1>7. ASSUME NEW d \in Dir, EndEof(d)
        PROVE  TypeInv'
    BY <1>7 DEF EndEof, TypeInv
  <1>8. ASSUME NEW s \in {"v", "h"}, EndCloses(s)
        PROVE  TypeInv'
    <2>1. EndOf(s) \in Link
      BY DEF EndOf, Link
    <2> QED
      BY <1>3, <1>8, <2>1 DEF EndCloses, TypeInv
  <1>9. ASSUME NEW l \in Link, Break(l)
        PROVE  TypeInv'
    BY <1>9 DEF Break, endVars, TypeInv
  <1> QED
    BY <1>1, <1>2, <1>4, <1>5, <1>6, <1>7, <1>8, <1>9 DEF Next

-----------------------------------------------------------------------------
(* What every step does to the chunks of one direction *)

LEMMA Counted ==
  ASSUME TypeInv, NEW d \in Dir
  PROVE  /\ OnWires(d) \in Nat /\ InHands(d) \in Nat /\ InTransit(d) \in Nat
         /\ \A l \in Link : queue[l][d] \in Nat /\ queue[l][d] <= OnWires(d)
         /\ \A j \in Hop : Hand(j, d) \in {0, 1} /\ Hand(j, d) <= InHands(d)
         /\ owed[d] \in Int
  <1>1. \A l \in Link : queue[l][d] \in Nat
    BY DEF TypeInv
  <1>2. \A j \in Hop : Hand(j, d) \in {0, 1}
    BY DEF Hand
  <1>3. OnWires(d) \in Nat /\ \A l \in Link : queue[l][d] <= OnWires(d)
    BY <1>1, Places DEF OnWires
  <1>4. InHands(d) \in Nat /\ \A j \in Hop : Hand(j, d) <= InHands(d)
    BY <1>2, Places DEF InHands
  <1>5. owed[d] \in Int
    BY DEF TypeInv
  <1> QED
    BY <1>1, <1>2, <1>3, <1>4, <1>5 DEF InTransit

\* Connection l holds k chunks of direction d, where it held queue[l][d].
LEMMA OneQueue ==
  ASSUME TypeInv, NEW l \in Link, NEW d \in Dir, NEW k \in Nat,
         queue' = [queue EXCEPT ![l][d] = k]
  PROVE  /\ \A m \in Link, x \in Dir :
               queue'[m][x] = IF m = l /\ x = d THEN k ELSE queue[m][x]
         /\ OnWires(d)' = OnWires(d) + (k - queue[l][d])
         /\ \A x \in Dir : x # d => OnWires(x)' = OnWires(x)
  <1>1. \A m \in Link, x \in Dir :
           queue'[m][x] = IF m = l /\ x = d THEN k ELSE queue[m][x]
    BY Cell DEF TypeInv
  <1>2. \A m \in Link : queue[m][d] \in Nat
    BY DEF TypeInv
  <1>3. OnWires(d)' = OnWires(d) + (k - queue[l][d])
    BY <1>1, <1>2, Places DEF OnWires
  <1>4. \A x \in Dir : x # d => OnWires(x)' = OnWires(x)
    BY <1>1, Places DEF OnWires
  <1> QED
    BY <1>1, <1>3, <1>4

\* One copier of direction d goes on to another place.
LEMMA OneCopier ==
  ASSUME TypeInv, NEW j \in Hop, NEW d \in Dir, NEW place \in {"read", "write", "done"},
         pc' = [pc EXCEPT ![j][d] = place]
  PROVE  /\ \A i \in Hop, x \in Dir :
               pc'[i][x] = IF i = j /\ x = d THEN place ELSE pc[i][x]
         /\ InHands(d)' = InHands(d) + ((IF place = "write" THEN 1 ELSE 0) - Hand(j, d))
         /\ \A x \in Dir : x # d => InHands(x)' = InHands(x)
  <1>1. \A i \in Hop, x \in Dir :
           pc'[i][x] = IF i = j /\ x = d THEN place ELSE pc[i][x]
    BY Cell DEF TypeInv
  <1>2. \A i \in Hop, x \in Dir :
           Hand(i, x)' = IF i = j /\ x = d THEN IF place = "write" THEN 1 ELSE 0
                                           ELSE Hand(i, x)
    BY <1>1 DEF Hand
  <1>3. \A i \in Hop : Hand(i, d) \in {0, 1}
    BY DEF Hand
  <1>4. InHands(d)' = InHands(d) + ((IF place = "write" THEN 1 ELSE 0) - Hand(j, d))
    BY <1>2, <1>3, Places DEF InHands
  <1>5. \A x \in Dir : x # d => InHands(x)' = InHands(x)
    BY <1>2, Places DEF InHands
  <1> QED
    BY <1>1, <1>4, <1>5

LEMMA HandsStay == ASSUME UNCHANGED pc PROVE \A x \in Dir : InHands(x)' = InHands(x)
  BY DEF InHands, Hand

LEMMA WiresStay == ASSUME UNCHANGED queue PROVE \A x \in Dir : OnWires(x)' = OnWires(x)
  BY DEF OnWires

\* A read takes a chunk off a connection, and into the copier's hands.
LEMMA ReadMoves ==
  ASSUME TypeInv, NEW j \in Hop, NEW d \in Dir, Read(j, d)
  PROVE  /\ \A m \in Link, x \in Dir :
               queue'[m][x] = IF m = From(j, d) /\ x = d THEN queue[m][x] - 1 ELSE queue[m][x]
         /\ \A i \in Hop, x \in Dir :
               pc'[i][x] = IF i = j /\ x = d THEN "write" ELSE pc[i][x]
         /\ \A x \in Dir : InTransit(x)' = InTransit(x)
  <1> DEFINE l == From(j, d)
             k == queue[l][d] - 1
  <1>1. l \in Link
    BY Places
  <1>2. queue[l][d] \in Nat /\ k \in Nat
    BY <1>1, Counted DEF Read, CanRead
  <1>3. queue' = [queue EXCEPT ![l][d] = k] /\ pc' = [pc EXCEPT ![j][d] = "write"]
    BY DEF Read, Goto
  <1>4. Hand(j, d) = 0
    BY DEF Read, Hand
  <1>5. /\ \A m \in Link, x \in Dir :
              queue'[m][x] = IF m = l /\ x = d THEN k ELSE queue[m][x]
        /\ OnWires(d)' = OnWires(d) + (k - queue[l][d])
        /\ \A x \in Dir : x # d => OnWires(x)' = OnWires(x)
    <2> HIDE DEF l, k
    <2> QED
      BY <1>1, <1>2, <1>3, OneQueue
  <1>6. /\ \A i \in Hop, x \in Dir :
              pc'[i][x] = IF i = j /\ x = d THEN "write" ELSE pc[i][x]
        /\ InHands(d)' = InHands(d) + (1 - Hand(j, d))
        /\ \A x \in Dir : x # d => InHands(x)' = InHands(x)
    BY <1>3, OneCopier
  <1>7. InTransit(d)' = InTransit(d)
    BY <1>2, <1>4, <1>5, <1>6, Counted DEF InTransit
  <1>8. \A x \in Dir : InTransit(x)' = InTransit(x)
    BY <1>5, <1>6, <1>7 DEF InTransit
  <1> QED
    BY <1>5, <1>6, <1>8

\* A write takes the chunk from the copier's hands to the other connection.
LEMMA WriteMoves ==
  ASSUME TypeInv, NEW j \in Hop, NEW d \in Dir, Write(j, d)
  PROVE  /\ \A m \in Link, x \in Dir :
               queue'[m][x] = IF m = To(j, d) /\ x = d THEN queue[m][x] + 1 ELSE queue[m][x]
         /\ \A i \in Hop, x \in Dir :
               pc'[i][x] = IF i = j /\ x = d THEN "read" ELSE pc[i][x]
         /\ \A x \in Dir : InTransit(x)' = InTransit(x)
  <1> DEFINE l == To(j, d)
             k == queue[l][d] + 1
  <1>1. l \in Link
    BY Places
  <1>2. queue[l][d] \in Nat /\ k \in Nat
    BY <1>1, Counted
  <1>3. queue' = [queue EXCEPT ![l][d] = k] /\ pc' = [pc EXCEPT ![j][d] = "read"]
    BY DEF Write, Goto
  <1>4. Hand(j, d) = 1
    BY DEF Write, Hand
  <1>5. /\ \A m \in Link, x \in Dir :
              queue'[m][x] = IF m = l /\ x = d THEN k ELSE queue[m][x]
        /\ OnWires(d)' = OnWires(d) + (k - queue[l][d])
        /\ \A x \in Dir : x # d => OnWires(x)' = OnWires(x)
    <2> HIDE DEF l, k
    <2> QED
      BY <1>1, <1>2, <1>3, OneQueue
  <1>6. /\ \A i \in Hop, x \in Dir :
              pc'[i][x] = IF i = j /\ x = d THEN "read" ELSE pc[i][x]
        /\ InHands(d)' = InHands(d) + (0 - Hand(j, d))
        /\ \A x \in Dir : x # d => InHands(x)' = InHands(x)
    BY <1>3, OneCopier
  <1>7. InTransit(d)' = InTransit(d)
    BY <1>2, <1>4, <1>5, <1>6, Counted DEF InTransit
  <1>8. \A x \in Dir : InTransit(x)' = InTransit(x)
    BY <1>5, <1>6, <1>7 DEF InTransit
  <1> QED
    BY <1>5, <1>6, <1>8

\* A copier that ends drops what it had in hand.
LEMMA EndDrops ==
  ASSUME TypeInv, NEW j \in Hop, NEW d \in Dir, ReadEnds(j, d) \/ WriteFails(j, d)
  PROVE  /\ UNCHANGED queue
         /\ \A i \in Hop, x \in Dir :
               pc'[i][x] = IF i = j /\ x = d THEN "done" ELSE pc[i][x]
         /\ InTransit(d)' = InTransit(d) - Hand(j, d)
         /\ \A x \in Dir : x # d => InTransit(x)' = InTransit(x)
  <1>1. UNCHANGED queue /\ pc' = [pc EXCEPT ![j][d] = "done"]
    BY DEF ReadEnds, WriteFails, Goto
  <1>2. /\ \A i \in Hop, x \in Dir :
              pc'[i][x] = IF i = j /\ x = d THEN "done" ELSE pc[i][x]
        /\ InHands(d)' = InHands(d) + (0 - Hand(j, d))
        /\ \A x \in Dir : x # d => InHands(x)' = InHands(x)
    BY <1>1, OneCopier
  <1>3. \A x \in Dir : OnWires(x)' = OnWires(x)
    BY <1>1, WiresStay
  <1>4. InTransit(d)' = InTransit(d) - Hand(j, d)
    BY <1>2, <1>3, Counted DEF InTransit
  <1> QED
    BY <1>1, <1>2, <1>3, <1>4 DEF InTransit

LEMMA EndWritesAdds ==
  ASSUME TypeInv, NEW d \in Dir, EndWrites(d)
  PROVE  /\ \A m \in Link, x \in Dir :
               queue'[m][x] = IF m = FirstLink(d) /\ x = d THEN queue[m][x] + 1
                                                          ELSE queue[m][x]
         /\ owed'[d] = owed[d] + 1 /\ InTransit(d)' = InTransit(d) + 1
         /\ \A x \in Dir : x # d => owed'[x] = owed[x] /\ InTransit(x)' = InTransit(x)
  <1> DEFINE l == FirstLink(d)
             k == queue[l][d] + 1
  <1>1. l \in Link
    BY Places
  <1>2. queue[l][d] \in Nat /\ k \in Nat
    BY <1>1, Counted
  <1>3. queue' = [queue EXCEPT ![l][d] = k]
    BY DEF EndWrites
  <1>4. /\ \A m \in Link, x \in Dir :
              queue'[m][x] = IF m = l /\ x = d THEN k ELSE queue[m][x]
        /\ OnWires(d)' = OnWires(d) + (k - queue[l][d])
        /\ \A x \in Dir : x # d => OnWires(x)' = OnWires(x)
    <2> HIDE DEF l, k
    <2> QED
      BY <1>1, <1>2, <1>3, OneQueue
  <1>5. \A x \in Dir : InHands(x)' = InHands(x)
    BY HandsStay DEF EndWrites
  <1>6. InTransit(d)' = InTransit(d) + 1
    BY <1>2, <1>4, <1>5, Counted DEF InTransit
  <1>7. owed'[d] = owed[d] + 1 /\ \A x \in Dir : x # d => owed'[x] = owed[x]
    BY DEF EndWrites, TypeInv
  <1> QED
    BY <1>4, <1>5, <1>6, <1>7 DEF InTransit

LEMMA EndReadsTakes ==
  ASSUME TypeInv, NEW d \in Dir, EndReads(d)
  PROVE  /\ \A m \in Link, x \in Dir :
               queue'[m][x] = IF m = LastLink(d) /\ x = d THEN queue[m][x] - 1
                                                         ELSE queue[m][x]
         /\ InTransit(d) > 0
         /\ owed'[d] = owed[d] - 1 /\ InTransit(d)' = InTransit(d) - 1
         /\ \A x \in Dir : x # d => owed'[x] = owed[x] /\ InTransit(x)' = InTransit(x)
  <1> DEFINE l == LastLink(d)
             k == queue[l][d] - 1
  <1>1. l \in Link
    BY Places
  <1>2. queue[l][d] \in Nat /\ queue[l][d] > 0 /\ k \in Nat
    BY <1>1, Counted DEF EndReads
  <1>3. queue' = [queue EXCEPT ![l][d] = k]
    BY DEF EndReads
  <1>4. /\ \A m \in Link, x \in Dir :
              queue'[m][x] = IF m = l /\ x = d THEN k ELSE queue[m][x]
        /\ OnWires(d)' = OnWires(d) + (k - queue[l][d])
        /\ \A x \in Dir : x # d => OnWires(x)' = OnWires(x)
    <2> HIDE DEF l, k
    <2> QED
      BY <1>1, <1>2, <1>3, OneQueue
  <1>5. \A x \in Dir : InHands(x)' = InHands(x)
    BY HandsStay DEF EndReads
  <1>6. InTransit(d)' = InTransit(d) - 1
    BY <1>2, <1>4, <1>5, Counted DEF InTransit
  <1>7. owed'[d] = owed[d] - 1 /\ \A x \in Dir : x # d => owed'[x] = owed[x]
    BY DEF EndReads, TypeInv
  <1>8. InTransit(d) > 0
    <2>1. queue[l][d] <= OnWires(d) /\ OnWires(d) \in Nat /\ InHands(d) \in Nat
      BY <1>1, Counted
    <2> HIDE DEF l
    <2> QED
      BY <1>2, <2>1 DEF InTransit
  <1> QED
    BY <1>4, <1>5, <1>6, <1>7, <1>8 DEF InTransit

-----------------------------------------------------------------------------
(* Conserved *)

\* A close takes nothing into transit.
LEMMA CloseConserves ==
  ASSUME TypeInv, Conserved, NEW l \in Link, NEW side \in {"v", "h"}, Close(l, side),
         UNCHANGED <<pc, endVars>>
  PROVE  Conserved'
  <1> DEFINE out == Outbound(side)
  <1>1. out \in Dir /\ queue[l][out] \in Nat
    BY DEF Outbound, Dir, TypeInv
  <1>2. PICK n \in 0..queue[l][out] : queue' = [queue EXCEPT ![l][out] = n]
    BY <1>1, CloseTakes
  <1>3. n \in Nat /\ n <= queue[l][out]
    BY <1>1, <1>2
  <1>4. /\ OnWires(out)' = OnWires(out) + (n - queue[l][out])
        /\ \A x \in Dir : x # out => OnWires(x)' = OnWires(x)
    <2> HIDE DEF out
    <2> QED
      BY <1>1, <1>2, <1>3, OneQueue
  <1> SUFFICES ASSUME NEW d \in Dir
               PROVE  InTransit(d)' <= owed[d]
    BY DEF Conserved, endVars
  <1>5. InHands(d)' = InHands(d)
    BY HandsStay
  <1>6. OnWires(d) \in Nat /\ InHands(d) \in Nat /\ owed[d] \in Int
    BY Counted
  <1>7. InTransit(d) <= owed[d]
    BY DEF Conserved
  <1>8. CASE d = out
    <2>1. OnWires(d)' = OnWires(d) + (n - queue[l][d])
      BY <1>4, <1>8
    <2> HIDE DEF out
    <2> QED
      BY <1>1, <1>3, <1>5, <1>6, <1>7, <1>8, <2>1 DEF InTransit
  <1>9. CASE d # out
    BY <1>4, <1>5, <1>7, <1>9 DEF InTransit
  <1> QED
    BY <1>8, <1>9

\* A copier's step moves a chunk of its direction, or loses it.
LEMMA CopyConserves ==
  ASSUME TypeInv, Conserved, NEW j \in Hop, NEW d \in Dir, Copy(j, d)
  PROVE  Conserved'
  <1> SUFFICES ASSUME NEW e \in Dir
               PROVE  InTransit(e)' <= owed[e]
    BY DEF Conserved, endVars, Copy, Read, ReadEnds, Write, WriteFails
  <1>1. InTransit(e) <= owed[e]
    BY DEF Conserved
  <1>2. owed[e] \in Int /\ InTransit(e) \in Nat /\ Hand(j, d) \in {0, 1}
    BY Counted
  <1>3. CASE Read(j, d) \/ Write(j, d)
    BY <1>1, <1>3, ReadMoves, WriteMoves
  <1>4. CASE ReadEnds(j, d) \/ WriteFails(j, d)
    <2>1. InTransit(e)' = InTransit(e) - Hand(j, d) \/ InTransit(e)' = InTransit(e)
      BY <1>4, EndDrops
    <2> QED
      BY <1>1, <1>2, <2>1
  <1> QED
    BY <1>3, <1>4 DEF Copy

LEMMA EndWritesConserves ==
  ASSUME TypeInv, Conserved, NEW d \in Dir, EndWrites(d)
  PROVE  Conserved'
  <1> SUFFICES ASSUME NEW e \in Dir
               PROVE  InTransit(e)' <= owed'[e]
    BY DEF Conserved, EndWrites
  <1> QED
    BY EndWritesAdds, Counted DEF Conserved

LEMMA EndReadsConserves ==
  ASSUME TypeInv, Conserved, NEW d \in Dir, EndReads(d)
  PROVE  Conserved'
  <1> SUFFICES ASSUME NEW e \in Dir
               PROVE  InTransit(e)' <= owed'[e]
    BY DEF Conserved, EndReads
  <1> QED
    BY EndReadsTakes, Counted DEF Conserved

\* A connection that breaks loses what it holds.
LEMMA BreakConserves ==
  ASSUME TypeInv, Conserved, NEW l \in Link, Break(l)
  PROVE  Conserved'
  <1> SUFFICES ASSUME NEW d \in Dir
               PROVE  InTransit(d)' <= owed[d]
    BY DEF Conserved, Break, endVars
  <1>1. \A x \in Link : queue[x][d] \in Nat /\ queue'[x][d] = IF x = l THEN 0 ELSE queue[x][d]
    BY DEF Break, TypeInv
  <1>2. InHands(d)' = InHands(d)
    BY HandsStay DEF Break
  <1>3. OnWires(d) \in Nat /\ InHands(d) \in Nat /\ owed[d] \in Int
    BY Counted
  <1>4. OnWires(d)' \in Nat /\ OnWires(d)' <= OnWires(d)
    BY <1>1, Places DEF OnWires
  <1>5. InTransit(d) <= owed[d]
    BY DEF Conserved
  <1> QED
    BY <1>2, <1>3, <1>4, <1>5 DEF InTransit

\* What an end finds to read was written at the other end and not read before.
LEMMA ReadsWhatWasWritten ==
  ASSUME TypeInv, Conserved, NEW d \in Dir, EndReads(d)
  PROVE  owed[d] > 0
  BY EndReadsTakes, Counted DEF Conserved

LEMMA ConservedStep == ASSUME TypeInv, Conserved, [Next]_vars PROVE Conserved'
  <1>1. CASE UNCHANGED vars
    BY <1>1 DEF vars, endVars, Conserved, InTransit, OnWires, InHands, Hand
  <1>2. ASSUME NEW j \in Hop, NEW d \in Dir, Copy(j, d)
        PROVE  Conserved'
    BY <1>2, CopyConserves
  <1>3. ASSUME NEW j \in Hop, CloseBoth(j)
        PROVE  Conserved'
    <2>1. shut[j] \in 0..1
      BY <1>3 DEF CloseBoth, TypeInv
    <2>2. /\ Order(j)[shut[j] + 1][1] \in Link
          /\ Order(j)[shut[j] + 1][2] \in {"v", "h"}
      BY <2>1 DEF Order, Link, Hop
    <2> QED
      BY <1>3, <2>2, CloseConserves DEF CloseBoth
  <1>4. ASSUME NEW s \in {"v", "h"}, EndCloses(s)
        PROVE  Conserved'
    <2>1. EndOf(s) \in Link
      BY DEF EndOf, Link
    <2> QED
      BY <1>4, <2>1, CloseConserves DEF EndCloses
  <1>5. ASSUME NEW d \in Dir, EndWrites(d)
        PROVE  Conserved'
    BY <1>5, EndWritesConserves
  <1>6. ASSUME NEW d \in Dir, EndReads(d)
        PROVE  Conserved'
    BY <1>6, EndReadsConserves
  <1>7. ASSUME NEW d \in Dir, EndEof(d)
        PROVE  Conserved'
    BY <1>7 DEF EndEof, Conserved, InTransit, OnWires, InHands, Hand
  <1>8. ASSUME NEW l \in Link, Break(l)
        PROVE  Conserved'
    BY <1>8, BreakConserves
  <1> QED
    BY <1>1, <1>2, <1>3, <1>4, <1>5, <1>6, <1>7, <1>8 DEF Next

LEMMA CutFirstStep == ASSUME CutFirst, [Next]_vars PROVE CutFirst'
  <1>1. CASE UNCHANGED vars
    BY <1>1 DEF vars, CutFirst, Cut
  <1>2. ASSUME NEW j \in Hop, NEW d \in Dir, Copy(j, d)
        PROVE  CutFirst'
    <2>1. UNCHANGED <<closed, broken>>
      BY <1>2 DEF Copy, Read, ReadEnds, Write, WriteFails
    <2>2. CASE ReadEnds(j, d) \/ WriteFails(j, d)
      <3>1. Cut
        BY <2>2, EndsAfterCut DEF ReadEnds, WriteFails, CutFirst, Cut
      <3> QED
        BY <2>1, <3>1 DEF CutFirst, Cut
    <2>3. CASE Read(j, d) \/ Write(j, d)
      <3>1. PICK place \in {"read", "write"} : pc' = [pc EXCEPT ![j][d] = place]
        BY <2>3 DEF Read, Write, Goto
      <3>2. \A i \in Hop, e \in Dir : pc'[i][e] = "done" => pc[i][e] = "done"
        BY <3>1
      <3> QED
        BY <2>1, <3>2 DEF CutFirst, Cut
    <2> QED
      BY <1>2, <2>2, <2>3 DEF Copy
  <1>3. ASSUME NEW j \in Hop, CloseBoth(j)
        PROVE  CutFirst'
    <2>1. Cut
      BY <1>3 DEF CloseBoth, CutFirst
    <2>2. Cut'
      BY <1>3, <2>1 DEF CloseBoth, Close, Cut
    <2> QED
      BY <2>2 DEF CutFirst
  <1>4. ASSUME NEW s \in {"v", "h"}, EndCloses(s)
        PROVE  CutFirst'
    <2>1. Cut'
      BY <1>4 DEF EndCloses, EndOf, Close, Cut
    <2> QED
      BY <2>1 DEF CutFirst
  <1>5. ASSUME NEW l \in Link, Break(l)
        PROVE  CutFirst'
    <2>1. Cut'
      BY <1>5 DEF Break, Cut
    <2> QED
      BY <2>1 DEF CutFirst
  <1>6. ASSUME NEW d \in Dir, EndWrites(d) \/ EndReads(d) \/ EndEof(d)
        PROVE  CutFirst'
    <2>1. UNCHANGED <<closed, broken, pc>>
      BY <1>6 DEF EndWrites, EndReads, EndEof
    <2> QED
      BY <2>1 DEF CutFirst, Cut
  <1> QED
    BY <1>1, <1>2, <1>3, <1>4, <1>5, <1>6 DEF Next

-----------------------------------------------------------------------------
(* Nothing is lost when one end only listens *)

Against(d) == IF d = "up" THEN "down" ELSE "up"
FirstHop(d) == IF d = "up" THEN 1 ELSE 2
SecondHop(d) == IF d = "up" THEN 2 ELSE 1
Sides(j) == {Order(j)[1], Order(j)[2]}
Source(d) == <<FirstLink(d), Writer(d)>>
Sink(d) == <<LastLink(d), Reader(d)>>

\* Only the end that writes direction d has something to say, and no connection
\* was lost.
Quiet(d) == talks = {d} /\ broken = {}

\* Splice j has begun to end.
Over(j) == closed \cap Sides(j) # {} \/ \E x \in Dir : pc[j][x] = "done"

\* The first splice has passed on all that will ever come, and the second too.
FirstThrough(d) ==
    Source(d) \in closed /\ queue[FirstLink(d)][d] = 0 /\ pc[FirstHop(d)][d] # "write"
SecondThrough(d) ==
    FirstThrough(d) /\ queue[1][d] = 0 /\ pc[SecondHop(d)][d] # "write"

OneWay == \A d \in Dir : Quiet(d) => owed[Against(d)] = 0

\* As long as the listener has not closed, nothing was lost, and no splice ends
\* before it has passed on everything.
Lossless(d) == InTransit(d) = owed[d]
InTurn(d) ==
    /\ Over(FirstHop(d)) => FirstThrough(d)
    /\ Over(SecondHop(d)) => SecondThrough(d)
Drained == \A d \in Dir : Quiet(d) /\ Sink(d) \notin closed => Lossless(d) /\ InTurn(d)

\* Once it has read the end there is no more to come.
AtEnd == \A d \in Dir : Quiet(d) /\ eof[d] => owed[d] = 0 /\ Source(d) \in closed

QuietInv == OneWay /\ Drained /\ AtEnd

LEMMA Geometry ==
  ASSUME NEW d \in Dir
  PROVE  /\ Against(d) \in Dir /\ Against(d) # d /\ Dir = {d, Against(d)}
         /\ FirstHop(d) \in Hop /\ SecondHop(d) \in Hop /\ FirstHop(d) # SecondHop(d)
         /\ Hop = {FirstHop(d), SecondHop(d)}
         /\ FirstLink(d) \in Link /\ LastLink(d) \in Link /\ 1 \in Link
         /\ FirstLink(d) # 1 /\ LastLink(d) # 1 /\ FirstLink(d) # LastLink(d)
         /\ Link = {FirstLink(d), 1, LastLink(d)}
  BY SMT DEF Dir, Against, FirstHop, SecondHop, Hop, Link, FirstLink, LastLink

LEMMA Route ==
  ASSUME NEW d \in Dir
  PROVE  /\ From(FirstHop(d), d) = FirstLink(d) /\ To(FirstHop(d), d) = 1
         /\ From(SecondHop(d), d) = 1 /\ To(SecondHop(d), d) = LastLink(d)
         /\ From(FirstHop(d), Against(d)) = 1
         /\ From(SecondHop(d), Against(d)) = LastLink(d)
         /\ Reader(Against(d)) = Writer(d) /\ Writer(Against(d)) = Reader(d)
         /\ Reader(d) \in {"v", "h"} /\ Writer(d) \in {"v", "h"} /\ Reader(d) # Writer(d)
  BY SMT DEF Dir, Against, FirstHop, SecondHop, From, To, FirstLink, LastLink, Reader, Writer

LEMMA SidesAre ==
  ASSUME NEW d \in Dir
  PROVE  /\ Sides(FirstHop(d)) = {<<FirstLink(d), Reader(d)>>, <<1, Writer(d)>>}
         /\ Sides(SecondHop(d)) = {<<1, Reader(d)>>, <<LastLink(d), Writer(d)>>}
         /\ {Source(d), Sink(d)} = {<<0, "v">>, <<2, "h">>}
         /\ Source(d) \notin Sides(FirstHop(d)) \cup Sides(SecondHop(d))
         /\ Sink(d) \notin Sides(FirstHop(d)) \cup Sides(SecondHop(d))
         /\ Source(d) # Sink(d)
  BY DEF Dir, Sides, Order, FirstHop, SecondHop, FirstLink, LastLink, Reader, Writer,
         Source, Sink

\* Every connection has a splice or an end on either side.
LEMMA SidesApart ==
  ASSUME NEW d \in Dir, NEW j \in Hop, NEW side \in Sides(j)
  PROVE  /\ side \in Link \X {"v", "h"}
         /\ \A i \in Hop : side \in Sides(i) => i = j
         /\ side # Source(d) /\ side # Sink(d)
  BY DEF Dir, Hop, Link, Sides, Order, FirstLink, LastLink, Reader, Writer, Source, Sink

\* The silent direction carries nothing.
LEMMA NothingBack ==
  ASSUME TypeInv, Conserved, OneWay, NEW d \in Dir, Quiet(d)
  PROVE  /\ \A l \in Link : queue[l][Against(d)] = 0
         /\ \A j \in Hop : pc[j][Against(d)] # "write"
  <1> DEFINE e == Against(d)
  <1>1. e \in Dir
    BY Geometry
  <1>2. InTransit(e) <= owed[e] /\ owed[e] = 0
    BY <1>1 DEF Conserved, OneWay
  <1> HIDE DEF e
  <1>3. OnWires(e) = 0 /\ InHands(e) = 0
    BY <1>1, <1>2, Counted DEF InTransit
  <1>4. \A l \in Link : queue[l][e] = 0
    BY <1>1, <1>3, Counted
  <1>5. \A j \in Hop : Hand(j, e) = 0
    BY <1>1, <1>3, Counted
  <1>6. \A j \in Hop : pc[j][e] # "write"
    BY <1>5 DEF Hand
  <1> QED
    BY <1>4, <1>6 DEF e

\* So no close resets a connection, and none loses anything.
LEMMA CloseLosesNothing ==
  ASSUME TypeInv, Conserved, OneWay, NEW d \in Dir, Quiet(d),
         NEW l \in Link, NEW side \in {"v", "h"}, Close(l, side)
  PROVE  UNCHANGED queue
  <1> DEFINE out == Outbound(side)
             in == Inbound(side)
             some == IF <<l, side>> \in ClosesTCP \ closed /\ queue[l][in] > 0
                     THEN 0 ELSE queue[l][out]
  <1>1. out \in Dir /\ in \in Dir /\ ((out = d /\ in = Against(d)) \/ out = Against(d))
    BY DEF Outbound, Inbound, Dir, Against
  <1>2. queue[l][Against(d)] = 0
    BY NothingBack
  <1>3. queue[l][out] \in Nat
    BY <1>1, Counted
  <1>4. \E n \in some..queue[l][out] : queue' = [queue EXCEPT ![l][out] = n]
    BY DEF Close
  <1>5. some = queue[l][out]
    BY <1>1, <1>2
  <1> HIDE DEF some, out, in
  <1>6. queue' = [queue EXCEPT ![l][out] = queue[l][out]]
    <2>1. PICK n \in some..queue[l][out] : queue' = [queue EXCEPT ![l][out] = n]
      BY <1>4
    <2>2. n = queue[l][out]
      BY <1>3, <1>5
    <2> QED
      BY <2>1, <2>2
  <1> QED
    BY <1>1, <1>6 DEF TypeInv

\* Before the listener closes, a splice that has begun to end is through, and
\* so the writer has closed.
LEMMA SourceFirst ==
  ASSUME SpliceInv, QuietInv, NEW d \in Dir, Quiet(d), Sink(d) \notin closed
  PROVE  /\ closed # {} => Source(d) \in closed
         /\ \A j \in Hop : Over(j) => FirstThrough(d)
  <1>1. Cut => Source(d) \in closed
    BY SidesAre DEF Cut, Quiet
  <1> QED
    BY <1>1, Geometry DEF SpliceInv, CutFirst, QuietInv, Drained, InTurn, SecondThrough

LEMMA QuietStays == ASSUME [Next]_vars, NEW d, Quiet(d)' PROVE Quiet(d)
  <1>1. talks' = talks /\ broken \subseteq broken'
    BY DEF Next, vars, endVars, Copy, Read, ReadEnds, Write, WriteFails, CloseBoth, EndWrites,
           EndReads, EndEof, EndCloses, Break
  <1> QED
    BY <1>1 DEF Quiet

LEMMA ClosedStays == ASSUME [Next]_vars PROVE closed \subseteq closed'
  BY DEF Next, vars, endVars, Copy, Read, ReadEnds, Write, WriteFails, CloseBoth, EndWrites,
         EndReads, EndEof, EndCloses, Break, Close

LEMMA OneWayStep == ASSUME TypeInv, Conserved, OneWay, [Next]_vars PROVE OneWay'
  <1> SUFFICES ASSUME NEW d \in Dir, Quiet(d)'
               PROVE  owed'[Against(d)] = 0
    BY DEF OneWay, Against
  <1>1. Quiet(d) /\ owed[Against(d)] = 0
    BY QuietStays DEF OneWay
  <1>2. ASSUME NEW x \in Dir, EndWrites(x)
        PROVE  owed'[Against(d)] = owed[Against(d)]
    <2>1. x = d
      BY <1>1, <1>2 DEF EndWrites, Quiet
    <2> QED
      BY <1>2, <2>1, Geometry, EndWritesAdds
  <1>3. ASSUME NEW x \in Dir, EndReads(x)
        PROVE  owed'[Against(d)] = owed[Against(d)]
    <2>1. queue[LastLink(x)][x] > 0 /\ LastLink(x) \in Link
      BY <1>3, Places DEF EndReads
    <2>2. x = d
      BY <1>1, <2>1, NothingBack, Geometry
    <2> QED
      BY <1>3, <2>2, Geometry, EndReadsTakes
  <1>4. (\A x \in Dir : ~EndWrites(x) /\ ~EndReads(x)) => owed' = owed
    BY DEF Next, vars, endVars, Copy, Read, ReadEnds, Write, WriteFails, CloseBoth,
           EndEof, EndCloses, Break
  <1> QED
    BY <1>1, <1>2, <1>3, <1>4

\* Before the listener closes, a copier only ends with empty hands, and when its
\* splice and the one before are through.
LEMMA EndsInTurn ==
  ASSUME SpliceInv, QuietInv, NEW d \in Dir, Quiet(d), Sink(d) \notin closed,
         NEW j \in Hop, NEW x \in Dir, ReadEnds(j, x) \/ WriteFails(j, x)
  PROVE  pc[j][x] = "read" /\ FirstThrough(d) /\ (j = SecondHop(d) => SecondThrough(d))
  <1>1. TypeInv /\ Conserved /\ OneWay /\ InTurn(d)
    BY DEF SpliceInv, QuietInv, Drained
  <1>2. \A i \in Hop : Over(i) => FirstThrough(d)
    BY SourceFirst
  <1>3. j = FirstHop(d) \/ j = SecondHop(d)
    BY Geometry
  <1>4. x = d \/ x = Against(d)
    BY Geometry
  <1>5. <<1, Writer(d)>> \in closed => Over(FirstHop(d))
    BY SidesAre DEF Over
  <1>6. <<1, Reader(d)>> \in closed => Over(SecondHop(d))
    BY SidesAre DEF Over
  <1>7. <<FirstLink(d), Reader(d)>> \in closed => Over(FirstHop(d))
    BY SidesAre DEF Over
  <1>8. <<LastLink(d), Writer(d)>> \in closed => Over(SecondHop(d))
    BY SidesAre DEF Over
  <1>9. <<LastLink(d), Reader(d)>> \notin closed
    BY DEF Sink
  <1>10. <<1, Writer(d)>> \in closed \/ <<1, Reader(d)>> \in closed => FirstThrough(d)
    BY <1>2, <1>5, <1>6, Geometry
  <1>11. ~WriteFails(j, x)
    <2> SUFFICES ASSUME WriteFails(j, x)
                 PROVE  FALSE
      OBVIOUS
    <2>1. x = d
      BY <1>1, <1>4, NothingBack DEF WriteFails
    <2>2. pc[j][d] = "write" /\ {<<To(j, d), Reader(d)>>, <<To(j, d), Writer(d)>>} \cap closed # {}
      BY <2>1 DEF WriteFails, Quiet
    <2>3. CASE j = FirstHop(d)
      BY <1>10, <2>2, <2>3, Route DEF FirstThrough
    <2>4. CASE j = SecondHop(d)
      <3>1. Over(SecondHop(d))
        BY <1>8, <1>9, <2>2, <2>4, Route
      <3> QED
        BY <1>1, <2>2, <2>4, <3>1 DEF InTurn, SecondThrough
    <2> QED
      BY <1>3, <2>3, <2>4
  <1>12. pc[j][x] = "read" /\ Ended(From(j, x), x) /\ broken = {}
    BY <1>11 DEF ReadEnds, Quiet
  <1>13. CASE j = FirstHop(d) /\ x = d
    <2>1. \/ queue[FirstLink(d)][d] = 0 /\ Source(d) \in closed
          \/ <<FirstLink(d), Reader(d)>> \in closed
      BY <1>12, <1>13, Route DEF Ended, Source
    <2>2. FirstThrough(d)
      <3>1. CASE <<FirstLink(d), Reader(d)>> \in closed
        BY <1>2, <1>7, <3>1, Geometry
      <3>2. CASE queue[FirstLink(d)][d] = 0 /\ Source(d) \in closed
        BY <1>12, <1>13, <3>2 DEF FirstThrough
      <3> QED
        BY <2>1, <3>1, <3>2
    <2> QED
      BY <1>12, <1>13, <2>2, Geometry
  <1>14. CASE j = FirstHop(d) /\ x = Against(d)
    <2>1. <<1, Writer(d)>> \in closed \/ <<1, Reader(d)>> \in closed
      BY <1>12, <1>14, Route DEF Ended
    <2> QED
      BY <1>10, <1>12, <1>14, <2>1, Geometry
  <1>15. CASE j = SecondHop(d) /\ x = d
    <2>1. /\ queue[1][d] = 0
          /\ <<1, Writer(d)>> \in closed \/ <<1, Reader(d)>> \in closed
      BY <1>12, <1>15, Route DEF Ended
    <2>2. pc[SecondHop(d)][d] # "write"
      BY <1>12, <1>15
    <2> QED
      BY <1>10, <1>12, <2>1, <2>2 DEF SecondThrough
  <1>16. CASE j = SecondHop(d) /\ x = Against(d)
    <2>1. <<LastLink(d), Writer(d)>> \in closed
      BY <1>9, <1>12, <1>16, Route DEF Ended
    <2>2. SecondThrough(d)
      BY <1>1, <1>8, <2>1 DEF InTurn
    <2> QED
      BY <1>12, <2>2 DEF SecondThrough
  <1> QED
    BY <1>3, <1>4, <1>13, <1>14, <1>15, <1>16

\* A read or a write of direction d: the copiers that are through do neither.
LEMMA CopyInTurn ==
  ASSUME SpliceInv, QuietInv, NEW d \in Dir, Quiet(d), Sink(d) \notin closed,
         NEW j \in Hop, NEW x \in Dir, Copy(j, x)
  PROVE  Lossless(d)' /\ InTurn(d)'
  <1>1. TypeInv /\ Conserved /\ OneWay /\ Lossless(d) /\ InTurn(d)
    BY DEF SpliceInv, QuietInv, Drained
  <1>2. UNCHANGED <<closed, owed>>
    BY DEF Copy, Read, ReadEnds, Write, WriteFails, endVars
  <1>3. j = FirstHop(d) \/ j = SecondHop(d)
    BY Geometry
  <1>4. CASE Read(j, x)
    <2>1. x = d
      <3>1. queue[From(j, x)][x] > 0 /\ From(j, x) \in Link
        BY <1>4, Places DEF Read, CanRead
      <3> QED
        BY <1>1, <3>1, NothingBack, Geometry
    <2>2. /\ \A m \in Link :
                queue'[m][d] = IF m = From(j, d) THEN queue[m][d] - 1 ELSE queue[m][d]
          /\ \A i \in Hop, y \in Dir : pc'[i][y] = IF i = j /\ y = d THEN "write" ELSE pc[i][y]
          /\ InTransit(d)' = InTransit(d)
      BY <1>1, <1>4, <2>1, ReadMoves
    <2>3. queue[From(j, d)][d] > 0
      BY <1>4, <2>1 DEF Read, CanRead
    <2>4. \A i \in Hop : Over(i)' => Over(i)
      BY <1>2, <2>2 DEF Over
    <2>5. CASE j = FirstHop(d)
      <3>1. ~FirstThrough(d)
        BY <1>1, <2>3, <2>5, Route DEF FirstThrough
      <3> QED
        BY <1>1, <1>2, <2>2, <2>4, <3>1, Geometry DEF InTurn, SecondThrough, Lossless
    <2>6. CASE j = SecondHop(d)
      <3>1. ~Over(SecondHop(d))
        BY <1>1, <2>3, <2>6, Route DEF InTurn, SecondThrough
      <3>2. FirstThrough(d) => FirstThrough(d)'
        BY <1>2, <2>2, <2>6, Geometry, Route DEF FirstThrough, Source
      <3> QED
        BY <1>1, <1>2, <2>2, <2>4, <3>1, <3>2, Geometry DEF InTurn, Lossless
    <2> QED
      BY <1>3, <2>5, <2>6
  <1>5. CASE Write(j, x)
    <2>1. x = d
      BY <1>1, <1>5, NothingBack, Geometry DEF Write
    <2>2. /\ \A m \in Link :
                queue'[m][d] = IF m = To(j, d) THEN queue[m][d] + 1 ELSE queue[m][d]
          /\ \A i \in Hop, y \in Dir : pc'[i][y] = IF i = j /\ y = d THEN "read" ELSE pc[i][y]
          /\ InTransit(d)' = InTransit(d)
      BY <1>1, <1>5, <2>1, WriteMoves
    <2>3. pc[j][d] = "write"
      BY <1>5, <2>1 DEF Write
    <2>4. \A i \in Hop : Over(i)' => Over(i)
      BY <1>2, <2>2 DEF Over
    <2>5. CASE j = FirstHop(d)
      <3>1. ~FirstThrough(d)
        BY <2>3, <2>5 DEF FirstThrough
      <3> QED
        BY <1>1, <1>2, <2>2, <2>4, <3>1, Geometry DEF InTurn, SecondThrough, Lossless
    <2>6. CASE j = SecondHop(d)
      <3>1. ~Over(SecondHop(d))
        BY <1>1, <2>3, <2>6 DEF InTurn, SecondThrough
      <3>2. FirstThrough(d) => FirstThrough(d)'
        BY <1>2, <2>2, <2>6, Geometry, Route DEF FirstThrough, Source
      <3> QED
        BY <1>1, <1>2, <2>2, <2>4, <3>1, <3>2, Geometry DEF InTurn, Lossless
    <2> QED
      BY <1>3, <2>5, <2>6
  <1>6. CASE ReadEnds(j, x) \/ WriteFails(j, x)
    <2>1. /\ UNCHANGED queue
          /\ \A i \in Hop, y \in Dir : pc'[i][y] = IF i = j /\ y = x THEN "done" ELSE pc[i][y]
      BY <1>1, <1>6, EndDrops
    <2>2. pc[j][x] = "read" /\ FirstThrough(d) /\ (j = SecondHop(d) => SecondThrough(d))
      BY <1>6, EndsInTurn
    <2>3. Hand(j, x) = 0
      BY <2>2 DEF Hand
    <2>4. InTransit(d)' = InTransit(d)
      BY <1>1, <1>6, <2>3, EndDrops, Counted
    <2>5. \A i \in Hop : i # j => (Over(i)' => Over(i))
      BY <1>2, <2>1 DEF Over
    <2>6. FirstThrough(d)'
      BY <1>2, <2>1, <2>2, Geometry DEF FirstThrough, Source
    <2>7. SecondThrough(d) => SecondThrough(d)'
      BY <1>2, <2>1, <2>6, Geometry DEF SecondThrough
    <2> QED
      BY <1>1, <1>2, <1>3, <2>2, <2>4, <2>5, <2>6, <2>7, Geometry DEF InTurn, Lossless
  <1> QED
    BY <1>4, <1>5, <1>6 DEF Copy

\* A close of a splice comes in turn, a close of the writer's end begins it.
LEMMA CloseInTurn ==
  ASSUME SpliceInv, QuietInv, NEW d \in Dir, Quiet(d), Sink(d) \notin closed,
         NEW l \in Link, NEW side \in {"v", "h"}, Close(l, side), <<l, side>> # Sink(d),
         UNCHANGED <<pc, endVars>>,
         \A j \in Hop : <<l, side>> \in Sides(j) => Over(j)
  PROVE  Lossless(d)' /\ InTurn(d)'
  <1>1. Lossless(d) /\ InTurn(d) /\ TypeInv /\ Conserved /\ OneWay
    BY DEF SpliceInv, QuietInv, Drained
  <1>2. UNCHANGED queue
    BY <1>1, CloseLosesNothing
  <1>3. InTransit(d)' = InTransit(d)
    BY <1>2, WiresStay, HandsStay DEF InTransit
  <1>4. closed' = closed \cup {<<l, side>>}
    BY DEF Close
  <1>5. \A j \in Hop : Over(j)' => Over(j)
    BY <1>4 DEF Over, Sides, Order
  <1>6. FirstThrough(d) => FirstThrough(d)'
    BY <1>2, <1>4 DEF FirstThrough, Source
  <1>7. SecondThrough(d) => SecondThrough(d)'
    BY <1>2, <1>6 DEF SecondThrough
  <1> QED
    BY <1>1, <1>3, <1>5, <1>6, <1>7, Geometry DEF InTurn, Lossless, endVars

LEMMA DrainedStep == ASSUME SpliceInv, QuietInv, [Next]_vars PROVE Drained'
  <1> SUFFICES ASSUME NEW d \in Dir, Quiet(d)', (Sink(d) \notin closed)'
               PROVE  Lossless(d)' /\ InTurn(d)'
    BY DEF Drained
  <1>1. Quiet(d) /\ Sink(d) \notin closed /\ Sink(d) \notin closed'
    BY QuietStays, ClosedStays DEF Sink
  <1>2. TypeInv /\ Conserved /\ OneWay /\ Lossless(d) /\ InTurn(d)
    BY <1>1 DEF SpliceInv, QuietInv, Drained
  <1>3. CASE UNCHANGED vars
    <2>1. InTransit(d)' = InTransit(d)
      BY <1>3, WiresStay, HandsStay DEF InTransit, vars
    <2> QED
      BY <1>2, <1>3, <2>1 DEF vars, endVars, Lossless, InTurn, Over, FirstThrough,
                               SecondThrough, Source
  <1>4. ASSUME NEW j \in Hop, NEW x \in Dir, Copy(j, x)
        PROVE  Lossless(d)' /\ InTurn(d)'
    BY <1>1, <1>4, CopyInTurn
  <1>5. ASSUME NEW j \in Hop, CloseBoth(j)
        PROVE  Lossless(d)' /\ InTurn(d)'
    <2> DEFINE side == Order(j)[shut[j] + 1]
    <2>1. shut[j] \in 0..1
      BY <1>2, <1>5 DEF CloseBoth, TypeInv
    <2>2. side \in Sides(j)
      BY <2>1 DEF Sides
    <2>3. side = <<side[1], side[2]>> /\ side[1] \in Link /\ side[2] \in {"v", "h"}
      BY <2>1 DEF Order, Link, Hop
    <2>4. Close(side[1], side[2]) /\ UNCHANGED <<pc, endVars>> /\ Over(j)
      BY <1>5 DEF CloseBoth, Over
    <2> HIDE DEF side
    <2>5. side # Sink(d) /\ \A i \in Hop : side \in Sides(i) => Over(i)
      BY <2>2, <2>4, SidesApart
    <2> QED
      BY <1>1, <2>3, <2>4, <2>5, CloseInTurn
  <1>6. ASSUME NEW s \in {"v", "h"}, EndCloses(s)
        PROVE  Lossless(d)' /\ InTurn(d)'
    <2>1. <<EndOf(s), s>> \in {Source(d), Sink(d)} /\ EndOf(s) \in Link
      BY SidesAre DEF EndOf, Link
    <2>2. <<EndOf(s), s>> # Sink(d)
      BY <1>1, <1>6 DEF EndCloses, Close
    <2>3. \A j \in Hop : <<EndOf(s), s>> \notin Sides(j)
      BY <2>1, SidesApart
    <2> QED
      BY <1>1, <1>6, <2>1, <2>2, <2>3, CloseInTurn DEF EndCloses
  <1>7. ASSUME NEW x \in Dir, EndWrites(x)
        PROVE  Lossless(d)' /\ InTurn(d)'
    <2>1. x = d
      BY <1>1, <1>7 DEF EndWrites, Quiet
    <2>2. Source(d) \notin closed /\ UNCHANGED <<closed, pc>>
      BY <1>7, <2>1 DEF EndWrites, Source
    <2>3. ~FirstThrough(d) /\ ~SecondThrough(d)
      BY <2>2 DEF FirstThrough, SecondThrough
    <2>4. \A i \in Hop : Over(i)' => Over(i)
      BY <2>2 DEF Over
    <2>5. owed'[d] = owed[d] + 1 /\ InTransit(d)' = InTransit(d) + 1
      BY <1>2, <1>7, <2>1, EndWritesAdds
    <2>6. Lossless(d)'
      BY <1>2, <2>2, <2>5, Counted DEF Lossless
    <2> QED
      BY <1>2, <2>3, <2>4, <2>6, Geometry DEF InTurn
  <1>8. ASSUME NEW x \in Dir, EndReads(x)
        PROVE  Lossless(d)' /\ InTurn(d)'
    <2>1. queue[LastLink(x)][x] > 0 /\ LastLink(x) \in Link
      BY <1>8, Places DEF EndReads
    <2>2. x = d
      BY <1>1, <1>2, <2>1, NothingBack, Geometry
    <2>3. UNCHANGED <<closed, pc>>
      BY <1>8 DEF EndReads
    <2>4. /\ owed'[d] = owed[d] - 1 /\ InTransit(d)' = InTransit(d) - 1
          /\ \A m \in Link : queue'[m][d] = IF m = LastLink(d) THEN queue[m][d] - 1
                                                              ELSE queue[m][d]
      BY <1>2, <1>8, <2>2, EndReadsTakes
    <2>5. Lossless(d)'
      BY <1>2, <2>3, <2>4, Counted DEF Lossless
    <2>6. queue'[1][d] = queue[1][d] /\ queue'[FirstLink(d)][d] = queue[FirstLink(d)][d]
      BY <2>4, Geometry
    <2> QED
      BY <1>2, <2>3, <2>5, <2>6 DEF InTurn, Over, FirstThrough, SecondThrough, Source
  <1>9. ASSUME NEW x \in Dir, EndEof(x)
        PROVE  Lossless(d)' /\ InTurn(d)'
    <2>1. UNCHANGED <<closed, pc, queue, owed>>
      BY <1>9 DEF EndEof
    <2>2. InTransit(d)' = InTransit(d)
      BY <2>1, WiresStay, HandsStay DEF InTransit
    <2> QED
      BY <1>2, <2>1, <2>2 DEF Lossless, InTurn, Over, FirstThrough, SecondThrough, Source
  <1>10. ASSUME NEW l \in Link, Break(l)
         PROVE  FALSE
    BY <1>1, <1>10 DEF Break, Quiet
  <1> QED
    BY <1>3, <1>4, <1>5, <1>6, <1>7, <1>8, <1>9, <1>10 DEF Next

LEMMA AtEndStep == ASSUME SpliceInv, QuietInv, [Next]_vars PROVE AtEnd'
  <1> SUFFICES ASSUME NEW d \in Dir, Quiet(d)', eof'[d]
               PROVE  owed'[d] = 0 /\ Source(d) \in closed'
    BY DEF AtEnd, Source
  <1>1. Quiet(d) /\ closed \subseteq closed'
    BY QuietStays, ClosedStays
  <1>2. TypeInv
    BY DEF SpliceInv
  <1>3. CASE eof[d]
    <2>1. owed[d] = 0 /\ Source(d) \in closed
      BY <1>1, <1>3 DEF QuietInv, AtEnd
    <2>2. ~EndWrites(d) /\ ~EndReads(d)
      BY <1>3, <2>1 DEF EndWrites, EndReads, Source
    <2>3. ASSUME NEW x \in Dir, EndWrites(x)
          PROVE  owed'[d] = owed[d]
      BY <1>2, <2>2, <2>3, EndWritesAdds DEF EndWrites
    <2>4. ASSUME NEW x \in Dir, EndReads(x)
          PROVE  owed'[d] = owed[d]
      BY <1>2, <2>2, <2>4, EndReadsTakes DEF EndReads
    <2>5. (\A x \in Dir : ~EndWrites(x) /\ ~EndReads(x)) => owed' = owed
      BY DEF Next, vars, endVars, Copy, Read, ReadEnds, Write, WriteFails, CloseBoth,
             EndEof, EndCloses, Break
    <2> QED
      BY <1>1, <2>1, <2>3, <2>4, <2>5
  <1>4. CASE ~eof[d]
    <2>1. PICK x \in Dir : EndEof(x)
      BY <1>4 DEF Next, vars, endVars, Copy, Read, ReadEnds, Write, WriteFails, CloseBoth,
                  EndWrites, EndReads, EndCloses, Break
    <2>2. x = d
      BY <1>2, <1>4, <2>1 DEF EndEof, TypeInv
    <2>3. Sink(d) \notin closed /\ Ended(LastLink(d), d) /\ owed' = owed
      BY <2>1, <2>2 DEF EndEof, Sink
    <2>4. queue[LastLink(d)][d] = 0 /\ <<LastLink(d), Writer(d)>> \in closed
      BY <1>1, <2>3 DEF Ended, Sink, Quiet
    <2>5. Over(SecondHop(d))
      BY <2>4, SidesAre DEF Over
    <2>6. SecondThrough(d) /\ FirstThrough(d) /\ Lossless(d)
      BY <1>1, <2>3, <2>5 DEF QuietInv, Drained, InTurn, SecondThrough
    <2>7. \A l \in Link : queue[l][d] = 0
      BY <2>4, <2>6, Geometry DEF SecondThrough, FirstThrough
    <2>8. \A j \in Hop : Hand(j, d) = 0
      BY <2>6, Geometry DEF SecondThrough, FirstThrough, Hand
    <2>9. InTransit(d) = 0
      BY <2>7, <2>8, Places DEF InTransit, OnWires, InHands
    <2>10. owed[d] = 0
      BY <1>2, <2>6, <2>9, Counted DEF Lossless
    <2> QED
      BY <1>1, <2>3, <2>6, <2>10 DEF FirstThrough
  <1> QED
    BY <1>3, <1>4

-----------------------------------------------------------------------------
(* The theorems *)

\* What the chain keeps true whatever happens on it: no chunk is made up or
\* doubled on the way through two splices and three connections, and no copier
\* ends before an end closed or a connection was lost.
THEOREM ChunksCounted == Spec => []SpliceInv
  <1>1. SpliceInv /\ [Next]_vars => SpliceInv'
    BY TypeStep, ConservedStep, CutFirstStep DEF SpliceInv
  <1> QED
    BY InitInv, <1>1, PTL DEF Spec

\* An end that only listens has got every chunk the other wrote by the time it
\* reads the end of the stream, whatever room the buffers have and in whatever
\* order copiers end and sides are closed, if no connection was lost.
THEOREM QuietTheorem == Spec => []QuietGetsAll
  <1>1. Init => QuietInv
    <2> SUFFICES ASSUME Init
                 PROVE  QuietInv
      OBVIOUS
    <2>1. OneWay
      BY DEF Init, OneWay, Against, Dir
    <2>2. \A d \in Dir : InTransit(d) = owed[d]
      BY Places DEF Init, InTransit, OnWires, InHands, Hand
    <2>3. \A j \in Hop : ~Over(j)
      BY DEF Init, Over
    <2>4. Drained
      BY <2>2, <2>3, Geometry DEF Drained, Lossless, InTurn
    <2>5. AtEnd
      BY DEF Init, AtEnd
    <2> QED
      BY <2>1, <2>4, <2>5 DEF QuietInv
  <1>2. SpliceInv /\ QuietInv /\ [Next]_vars => QuietInv'
    BY OneWayStep, DrainedStep, AtEndStep DEF SpliceInv, QuietInv
  <1>3. QuietInv => QuietGetsAll
    BY DEF QuietInv, AtEnd, QuietGetsAll, Quiet
  <1> QED
    BY ChunksCounted, <1>1, <1>2, <1>3, PTL DEF Spec

LEMMA InitMaps == Init => Promise!Init
  BY DEF Init, Promise!Init, Dir, Promise!Dir, Cut

LEMMA StepMaps == ASSUME SpliceInv, [Next]_vars PROVE [Promise!Next]_(Promise!vars)
  <1>1. CASE UNCHANGED vars
    BY <1>1 DEF vars, endVars, Promise!vars, Cut
  <1>2. ASSUME NEW j \in Hop, NEW d \in Dir, Copy(j, d)
        PROVE  UNCHANGED Promise!vars
    BY <1>2 DEF Copy, Read, ReadEnds, Write, WriteFails, endVars, Promise!vars, Cut
  <1>3. ASSUME NEW j \in Hop, CloseBoth(j)
        PROVE  UNCHANGED Promise!vars
    <2>1. Cut
      BY <1>3 DEF CloseBoth, SpliceInv, CutFirst
    <2>2. Cut'
      BY <1>3, <2>1 DEF CloseBoth, Close, Cut
    <2>3. Cut' = Cut
      BY <2>1, <2>2 DEF Cut
    <2> QED
      BY <1>3, <2>3 DEF CloseBoth, endVars, Promise!vars
  <1>4. ASSUME NEW d \in Dir, EndWrites(d)
        PROVE  Promise!Write(d)
    BY <1>4 DEF EndWrites, Promise!Write, Cut
  <1>5. ASSUME NEW d \in Dir, EndReads(d)
        PROVE  Promise!Read(d)
    <2>1. owed[d] > 0
      BY <1>5, ReadsWhatWasWritten DEF SpliceInv
    <2> QED
      BY <1>5, <2>1 DEF EndReads, Promise!Read, Cut
  <1>6. ASSUME NEW d \in Dir, EndEof(d)
        PROVE  Promise!End(d)
    <2>1. Cut
      BY <1>6, EndsAfterCut DEF EndEof, SpliceInv
    <2> QED
      BY <1>6, <2>1 DEF EndEof, Promise!End, Cut
  <1>7. ASSUME NEW s \in {"v", "h"}, EndCloses(s)
        PROVE  Promise!Cut
    <2>1. Cut'
      BY <1>7 DEF EndCloses, EndOf, Close, Cut
    <2>2. Cut' = TRUE
      BY <2>1 DEF Cut
    <2> QED
      BY <1>7, <2>2 DEF EndCloses, endVars, Promise!Cut
  <1>8. ASSUME NEW l \in Link, Break(l)
        PROVE  Promise!Cut
    <2>1. Cut'
      BY <1>8 DEF Break, Cut
    <2>2. Cut' = TRUE
      BY <2>1 DEF Cut
    <2> QED
      BY <1>8, <2>2 DEF Break, endVars, Promise!Cut
  <1>9. Dir = Promise!Dir
    BY DEF Dir, Promise!Dir
  <1> QED
    BY <1>1, <1>2, <1>3, <1>4, <1>5, <1>6, <1>7, <1>8, <1>9 DEF Next, Promise!Next

\* Two splices and three connections carry one stream each way: nothing is made
\* up or doubled, whatever room there is, and a reader is told that the stream
\* is over only because an end closed it or a connection was lost.
THEOREM OneStream == Spec => IsStream
  <1>1. SpliceInv /\ [Next]_vars => [Promise!Next]_(Promise!vars)
    BY StepMaps
  <1> QED
    BY InitMaps, ChunksCounted, <1>1, PTL DEF Spec, IsStream, Promise!Spec
=============================================================================
