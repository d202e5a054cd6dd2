--------------------------- MODULE DirtyRectsProofs ---------------------------
(***************************************************************************)
(* Proofs about module DirtyRects, for frames and tiles of every size: the *)
(* rectangles cover what changed, do not overlap, and hold no tile in      *)
(* which nothing changed.                                                  *)
(***************************************************************************)
EXTENDS DirtyRects, TLAPS

\* What appending a rectangle does to a sequence of rectangles.
LEMMA AppendRect ==
    ASSUME NEW s \in Seq(Rect), NEW r \in Rect
    PROVE  /\ Append(s, r) \in Seq(Rect)
           /\ Len(Append(s, r)) = Len(s) + 1 /\ Len(s) \in Nat
           /\ Append(s, r)[Len(s) + 1] = r
           /\ \A i \in 1..Len(s) : Append(s, r)[i] = s[i] /\ s[i] \in Rect
  OBVIOUS

\* A pixel has natural coordinates inside the frame.
LEMMA PixelType ==
    ASSUME NEW p \in Pixel
    PROVE  p[1] \in 0..W-1 /\ p[2] \in 0..H-1
  BY DEF Pixel

\* A rectangle that follows another shares no pixel with it.
LEMMA Apart ==
    ASSUME NEW r \in Rect, NEW s \in Rect, NEW p \in Pixel, Follows(r, s)
    PROVE  ~(In(p, r) /\ In(p, s))
  <1>1. /\ r.y1 \in Int /\ s.y0 \in Int /\ r.x1 \in Int /\ s.x0 \in Int
        /\ p[1] \in Int /\ p[2] \in Int
    BY PixelType, SizeAssumption DEF Rect
  <1> QED
    BY <1>1 DEF Follows, In

\* flush: what it emits is a rectangle of the frame, and nothing is taken away.
LEMMA FlushedType ==
    ASSUME LoopInv, ty < H, NEW endX \in 0..W, runStart >= 0 => runStart <= endX
    PROVE  /\ Flushed(endX) \in Seq(Rect)
           /\ runStart < 0 => Flushed(endX) = rects
           /\ runStart >= 0 =>
                 /\ Rectangle(runStart, ty, endX, ty + TileHeight) \in Rect
                 /\ Flushed(endX) =
                       Append(rects, Rectangle(runStart, ty, endX, ty + TileHeight))
           /\ TileHeight \in 1..H-ty /\ TileHeight <= T
  <1>1. TileHeight \in 1..H-ty /\ TileHeight <= T
    BY SizeAssumption DEF LoopInv, TypeOK, TileHeight, Least
  <1>2. runStart >= 0 => Rectangle(runStart, ty, endX, ty + TileHeight) \in Rect
    BY <1>1, SizeAssumption DEF LoopInv, TypeOK, Rect, Rectangle
  <1>3. rects \in Seq(Rect) /\ runStart \in Int
    BY SizeAssumption DEF LoopInv, TypeOK
  <1> QED
    BY <1>1, <1>2, <1>3, AppendRect DEF Flushed

\* A pixel covered before a flush is covered after it, and so is one of the
\* run that the flush ends.
LEMMA FlushedCovers ==
    ASSUME LoopInv, ty < H, NEW endX \in 0..W, runStart >= 0 => runStart <= endX,
           rects' = Flushed(endX), NEW p \in Pixel,
           \/ Covered(p)
           \/ InRun(p) /\ p[1] < endX /\ p[2] < ty + TileHeight
    PROVE  Covered(p)'
  <1> DEFINE r == Rectangle(runStart, ty, endX, ty + TileHeight)
  <1>1. rects \in Seq(Rect) /\ runStart \in Int
    BY SizeAssumption DEF LoopInv, TypeOK
  <1>2. CASE runStart < 0
    <2>1. rects' = rects
      BY <1>2, FlushedType
    <2>2. Covered(p)
      BY <1>1, <1>2 DEF InRun
    <2> QED
      BY <2>1, <2>2 DEF Covered, In
  <1>3. CASE runStart >= 0
    <2>1. r \in Rect /\ rects' = Append(rects, r)
      BY <1>3, FlushedType
    <2>2. /\ Len(rects') = Len(rects) + 1 /\ Len(rects) \in Nat
          /\ rects'[Len(rects) + 1] = r
          /\ \A i \in 1..Len(rects) : rects'[i] = rects[i]
      BY <2>1, <1>1, AppendRect
    <2>3. CASE Covered(p)
      BY <2>2, <2>3 DEF Covered, In
    <2>4. CASE InRun(p) /\ p[1] < endX /\ p[2] < ty + TileHeight
      <3>1. In(p, r)
        BY <2>4 DEF InRun, In, Rectangle
      <3>2. In(p, rects'[Len(rects) + 1]) /\ Len(rects) + 1 \in 1..Len(rects')
        BY <2>2, <3>1
      <3> QED
        BY <3>2 DEF Covered, In
    <2> QED
      BY <2>3, <2>4
  <1> QED
    BY <1>1, <1>2, <1>3

-----------------------------------------------------------------------------
\* What the loop keeps of its variables.
LEMMA LoopStep == RectInv /\ [Next]_vars => LoopInv'
  <1> SUFFICES ASSUME RectInv, [Next]_vars
               PROVE  LoopInv'
    OBVIOUS
  <1>0. LoopInv
    BY DEF RectInv
  <1>1. CASE Start
    <2>1. sameSize => LoopInv'
      BY <1>0, <1>1 DEF Start, LoopInv, TypeOK
    <2>2. ASSUME ~sameSize
          PROVE  LoopInv'
      <3>1. Rectangle(0, 0, W, H) \in Rect
        BY SizeAssumption DEF Rectangle, Rect
      <3>2. \A r \in Rect : <<r>> \in Seq(Rect)
        OBVIOUS
      <3>3. rects' = <<Rectangle(0, 0, W, H)>>
        BY <1>1, <2>2 DEF Start
      <3>4. rects' \in Seq(Rect)
        BY <3>1, <3>2, <3>3
      <3> QED
        BY <1>0, <1>1, <2>2, <3>3, <3>4 DEF Start, LoopInv, TypeOK
    <2> QED
      BY <2>1, <2>2
  <1>2. CASE Differs
    <2>1. tx' = tx + T /\ runStart' \in {tx, runStart} /\ tx \in 0..W-1
      BY <1>0, <1>2, SizeAssumption DEF Differs, LoopInv, TypeOK
    <2> QED
      BY <1>0, <1>2, <2>1, SizeAssumption DEF Differs, LoopInv, TypeOK
  <1>3. CASE Same
    <2>1. tx \in 0..W /\ (runStart >= 0 => runStart <= tx)
      BY <1>0, <1>3, SizeAssumption DEF Same, LoopInv, TypeOK
    <2>2. rects' \in Seq(Rect)
      BY <1>0, <1>3, <2>1, FlushedType DEF Same, RunEnd
    <2> QED
      BY <1>0, <1>3, <2>1, <2>2, SizeAssumption DEF Same, NoRun, LoopInv, TypeOK
  <1>4. CASE NextRow
    <2>1. W \in 0..W /\ (runStart >= 0 => runStart <= W)
      BY <1>0, SizeAssumption DEF LoopInv, TypeOK
    <2>2. rects' \in Seq(Rect)
      BY <1>0, <1>4, <2>1, FlushedType DEF NextRow, AtRowEnd
    <2> QED
      BY <1>0, <1>4, <2>2, SizeAssumption DEF NextRow, NoRun, LoopInv, TypeOK
  <1>5. CASE Return
    BY <1>0, <1>5 DEF Return, LoopInv, TypeOK
  <1>6. CASE UNCHANGED vars
    BY <1>0, <1>6 DEF vars, LoopInv, TypeOK
  <1> QED
    BY <1>1, <1>2, <1>3, <1>4, <1>5, <1>6 DEF Next

\* What lies behind the loop stays covered.
LEMMA CoverStep == RectInv /\ [Next]_vars => CoverInv'
  <1> SUFFICES ASSUME RectInv, [Next]_vars
               PROVE  CoverInv'
    OBVIOUS
  <1>0. LoopInv /\ CoverInv
    BY DEF RectInv
  <1>00. /\ diff \in SUBSET Pixel /\ diff' = diff
         /\ tx \in Nat /\ ty \in Nat /\ runStart \in -1..W-1 /\ rects \in Seq(Rect)
    BY <1>0 DEF LoopInv, TypeOK, Next, Start, Differs, Same, NextRow, Return, vars
  <1>1. CASE Start
    <2>1. ASSUME sameSize, NEW p \in diff
          PROVE  ~Behind(p)'
      <3>1. p[1] \in 0..W-1 /\ p[2] \in 0..H-1
        BY <2>1, <1>00, PixelType
      <3>2. tx' = 0 /\ ty' = 0
        BY <1>0, <1>1 DEF Start, LoopInv
      <3> QED
        BY <3>1, <3>2, SizeAssumption DEF Behind, TileHeight, Least
    <2>2. ASSUME ~sameSize, NEW p \in diff
          PROVE  Covered(p)'
      <3>1. p[1] \in 0..W-1 /\ p[2] \in 0..H-1
        BY <2>2, <1>00, PixelType
      <3>2. rects' = <<Rectangle(0, 0, W, H)>>
        BY <1>1, <2>2 DEF Start
      <3>3. In(p, rects'[1]) /\ 1 \in 1..Len(rects')
        BY <3>1, <3>2, SizeAssumption DEF In, Rectangle
      <3> QED
        BY <3>3 DEF Covered, In
    <2> QED
      BY <1>1, <1>00, <2>1, <2>2 DEF Start, CoverInv
  <1>2. CASE Differs
    <2> SUFFICES ASSUME NEW p \in diff, Behind(p)'
                 PROVE  InRun(p)' \/ Covered(p)'
      BY <1>2, <1>00 DEF Differs, CoverInv
    <2>1. p[1] \in 0..W-1 /\ p[2] \in 0..H-1
      BY <1>00, PixelType
    <2>2. CASE Behind(p)
      <3>1. InRun(p) \/ Covered(p)
        BY <2>2, <1>0, <1>2 DEF CoverInv, Differs
      <3>2. Covered(p) => Covered(p)'
        BY <1>2 DEF Differs, Covered, In
      <3>3. InRun(p) => InRun(p)'
        BY <1>2, <1>00 DEF Differs, InRun
      <3> QED
        BY <3>1, <3>2, <3>3
    <2>3. CASE ~Behind(p)
      BY <2>1, <2>3, <1>0, <1>00, <1>2, SizeAssumption
        DEF Differs, Behind, InRun, LoopInv, TileHeight, Least
    <2> QED
      BY <2>2, <2>3
  <1>3. CASE Same
    <2> SUFFICES ASSUME NEW p \in diff, Behind(p)'
                 PROVE  Covered(p)'
      BY <1>3, <1>00 DEF Same, CoverInv
    <2>1. p \in Pixel /\ p[1] \in 0..W-1 /\ p[2] \in 0..H-1
      BY <1>00, PixelType
    <2>2. tx \in 0..W /\ ty < H /\ (runStart >= 0 => runStart <= tx)
      BY <1>0, <1>00, <1>3, SizeAssumption DEF Same, LoopInv
    <2>3. rects' = Flushed(tx)
      BY <1>3 DEF Same, RunEnd
    <2>4. Behind(p)
      <3>1. ~In(p, Rectangle(tx, ty, tx + TileWidth, ty + TileHeight))
        BY <1>3 DEF Same, TileDiffers
      <3>2. tx' = tx + T /\ ty' = ty
        BY <1>3 DEF Same
      <3> QED
        BY <2>1, <2>2, <3>1, <3>2, <1>00, SizeAssumption
          DEF Behind, In, Rectangle, TileWidth, TileHeight, Least
    <2>5. Covered(p) \/ (InRun(p) /\ p[1] < tx /\ p[2] < ty + TileHeight)
      <3>1. InRun(p) \/ Covered(p)
        BY <2>4, <1>0, <1>3 DEF CoverInv, Same
      <3> QED
        BY <3>1, <2>1, <2>4, <1>00 DEF Behind, InRun
    <2> QED
      BY <1>0, <2>1, <2>2, <2>3, <2>5, FlushedCovers
  <1>4. CASE NextRow
    <2> SUFFICES ASSUME NEW p \in diff, Behind(p)'
                 PROVE  Covered(p)'
      BY <1>4, <1>00 DEF NextRow, CoverInv
    <2>1. p \in Pixel /\ p[1] \in 0..W-1 /\ p[2] \in 0..H-1
      BY <1>00, PixelType
    <2>2. W \in 0..W /\ ty < H /\ tx >= W /\ (runStart >= 0 => runStart <= W)
      BY <1>0, <1>00, <1>4, SizeAssumption DEF NextRow, LoopInv
    <2>3. rects' = Flushed(W)
      BY <1>4 DEF NextRow, AtRowEnd
    <2>4. Behind(p) /\ p[2] < ty + TileHeight
      <3>1. tx' = 0 /\ ty' = ty + T
        BY <1>4 DEF NextRow
      <3> QED
        BY <2>1, <2>2, <3>1, <1>00, SizeAssumption DEF Behind, TileHeight, Least
    <2>5. Covered(p) \/ (InRun(p) /\ p[1] < W /\ p[2] < ty + TileHeight)
      <3>1. InRun(p) \/ Covered(p)
        BY <2>4, <1>0, <1>4 DEF CoverInv, NextRow
      <3> QED
        BY <3>1, <2>1, <2>4, <1>00, SizeAssumption DEF InRun
    <2> QED
      BY <1>0, <2>1, <2>2, <2>3, <2>5, FlushedCovers
  <1>5. CASE Return
    <2> SUFFICES ASSUME NEW p \in diff
                 PROVE  Covered(p)'
      BY <1>5, <1>00 DEF Return, CoverInv
    <2>1. p[1] \in 0..W-1 /\ p[2] \in 0..H-1
      BY <1>00, PixelType
    <2>2. Behind(p) /\ ~InRun(p)
      BY <1>5, <1>00, <2>1, SizeAssumption DEF Return, Behind, InRun
    <2>3. Covered(p)
      BY <2>2, <1>0, <1>5 DEF CoverInv, Return
    <2> QED
      BY <2>3, <1>5 DEF Return, Covered, In
  <1>6. CASE UNCHANGED vars
    <2>1. CoverInv' = CoverInv
      BY <1>6 DEF vars, CoverInv, Behind, InRun, Covered, In, TileHeight, Least
    <2> QED
      BY <2>1, <1>0
  <1> QED
    BY <1>1, <1>2, <1>3, <1>4, <1>5, <1>6 DEF Next

\* What a flush emits follows all rectangles before it.
LEMMA FlushedFollows ==
    ASSUME LoopInv, FollowInv, sameSize, pc = "loop", ty < H,
           NEW endX \in 0..W, endX \in {tx, W},
           runStart >= 0 => runStart < endX, rects' = Flushed(endX)
    PROVE  /\ \A i \in 1..Len(rects') :
                 /\ rects'[i].x0 < rects'[i].x1 /\ rects'[i].y0 < rects'[i].y1
                 /\ \/ rects'[i].y1 <= ty
                    \/ rects'[i].y1 <= ty + T /\ rects'[i].x1 <= endX
           /\ \A i, j \in 1..Len(rects') : i < j => Follows(rects'[i], rects'[j])
  <1> DEFINE r == Rectangle(runStart, ty, endX, ty + TileHeight)
  <1>1. /\ rects \in Seq(Rect) /\ Len(rects) \in Nat /\ runStart \in -1..W-1
        /\ tx \in Nat /\ ty \in Nat
    BY SizeAssumption DEF LoopInv, TypeOK
  <1>2. \A i \in 1..Len(rects) : rects[i] \in Rect
    BY <1>1
  <1>3. \A i \in 1..Len(rects) :
           /\ rects[i].x0 < rects[i].x1 /\ rects[i].y0 < rects[i].y1
           /\ \/ rects[i].y1 <= ty
              \/ rects[i].y1 <= ty + T /\ rects[i].x1 <= endX
           /\ runStart >= 0 => rects[i].y1 <= ty \/ rects[i].x1 <= runStart
    <2> SUFFICES ASSUME NEW i \in 1..Len(rects)
                 PROVE  /\ rects[i].x0 < rects[i].x1 /\ rects[i].y0 < rects[i].y1
                        /\ \/ rects[i].y1 <= ty
                           \/ rects[i].y1 <= ty + T /\ rects[i].x1 <= endX
                        /\ runStart >= 0 =>
                              rects[i].y1 <= ty \/ rects[i].x1 <= runStart
      OBVIOUS
    <2>1. rects[i].x1 \in 0..W /\ rects[i].y1 \in 0..H
      BY <1>2, SizeAssumption DEF Rect
    <2>2. /\ rects[i].x0 < rects[i].x1 /\ rects[i].y0 < rects[i].y1
          /\ \/ rects[i].y1 <= ty
             \/ /\ rects[i].y1 <= ty + T /\ rects[i].x1 <= tx
                /\ runStart >= 0 => rects[i].x1 <= runStart
      BY DEF FollowInv
    <2> QED
      BY <2>1, <2>2, <1>1, SizeAssumption
  <1>4. \A i, j \in 1..Len(rects) : i < j => Follows(rects[i], rects[j])
    BY DEF FollowInv
  <1>5. CASE runStart < 0
    <2>1. rects' = rects
      BY <1>1, <1>5 DEF Flushed
    <2> QED
      BY <1>3, <1>4, <2>1
  <1>6. CASE runStart >= 0
    <2>0. runStart >= 0 => runStart <= endX
      BY <1>1, SizeAssumption
    <2>1. /\ r \in Rect /\ rects' = Append(rects, r)
          /\ TileHeight \in 1..H-ty /\ TileHeight <= T
      BY <1>6, <2>0, FlushedType
    <2>2. /\ Len(rects') = Len(rects) + 1
          /\ rects'[Len(rects) + 1] = r
          /\ \A i \in 1..Len(rects) : rects'[i] = rects[i]
      BY <2>1, <1>1, AppendRect
    <2>3. r.x0 = runStart /\ r.y0 = ty /\ r.x1 = endX /\ r.y1 = ty + TileHeight
      BY DEF Rectangle
    <2>4. /\ r.x0 < r.x1 /\ r.y0 < r.y1
          /\ r.y1 <= ty + T /\ r.x1 <= endX
      BY <2>1, <2>3, <1>1, <1>6, SizeAssumption
    <2>5. \A i \in 1..Len(rects) : Follows(rects[i], r)
      BY <1>3, <1>6, <2>3 DEF Follows
    <2> HIDE DEF r
    <2>6. \A i \in 1..Len(rects') : i \in 1..Len(rects) \/ i = Len(rects) + 1
      BY <1>1, <2>2
    <2>7. \A i, j \in 1..Len(rects') : i < j => i \in 1..Len(rects)
      BY <1>1, <2>2
    <2>8. \A i, j \in 1..Len(rects') : i < j => Follows(rects'[i], rects'[j])
      BY <2>2, <2>5, <2>6, <2>7, <1>4
    <2> QED
      BY <2>2, <2>4, <2>6, <2>8, <1>3
  <1> QED
    BY <1>1, <1>5, <1>6

\* The rectangles go on following each other.
LEMMA FollowStep == RectInv /\ [Next]_vars => FollowInv'
  <1> SUFFICES ASSUME RectInv, [Next]_vars, sameSize
               PROVE  FollowInv'
    BY DEF FollowInv, Next, Start, Differs, Same, NextRow, Return, vars
  <1>0. LoopInv /\ FollowInv
    BY DEF RectInv
  <1>00. /\ tx \in Nat /\ ty \in Nat /\ runStart \in -1..W-1 /\ rects \in Seq(Rect)
         /\ \A i \in 1..Len(rects) : rects[i].x1 \in 0..W /\ rects[i].y1 \in 0..H
    <2>1. tx \in Nat /\ ty \in Nat /\ runStart \in -1..W-1 /\ rects \in Seq(Rect)
      BY <1>0 DEF LoopInv, TypeOK
    <2>2. \A i \in 1..Len(rects) : rects[i] \in Rect
      BY <2>1
    <2> QED
      BY <2>1, <2>2 DEF Rect
  <1>1. CASE Start
    <2>1. rects' = <<>>
      BY <1>0, <1>1 DEF Start, LoopInv
    <2> QED
      BY <2>1 DEF FollowInv
  <1>2. CASE Differs
    <2>1. /\ rects' = rects /\ ty' = ty /\ pc = "loop" /\ tx' = tx + T
          /\ runStart' = IF runStart < 0 THEN tx ELSE runStart
      BY <1>2 DEF Differs
    <2>2. ASSUME NEW i \in 1..Len(rects)
          PROVE  \/ rects[i].y1 <= ty
                 \/ /\ rects[i].y1 <= ty + T /\ rects[i].x1 <= tx + T
                    /\ runStart' >= 0 => rects[i].x1 <= runStart'
      <3>1. \/ rects[i].y1 <= ty
            \/ /\ rects[i].y1 <= ty + T /\ rects[i].x1 <= tx
               /\ runStart >= 0 => rects[i].x1 <= runStart
        BY <1>0, <2>1 DEF FollowInv
      <3> QED
        BY <3>1, <2>1, <1>00, SizeAssumption
    <2> QED
      BY <1>0, <2>1, <2>2 DEF FollowInv, Follows
  <1>3. CASE Same
    <2>1. /\ rects' = Flushed(tx) /\ ty' = ty /\ pc = "loop" /\ tx' = tx + T
          /\ runStart' = -1 /\ ty < H /\ tx \in 0..W
          /\ runStart >= 0 => runStart < tx /\ runStart <= tx
      BY <1>0, <1>3, <1>00, SizeAssumption DEF Same, RunEnd, NoRun, LoopInv
    <2>2. /\ \A i \in 1..Len(rects') :
                /\ rects'[i].x0 < rects'[i].x1 /\ rects'[i].y0 < rects'[i].y1
                /\ \/ rects'[i].y1 <= ty
                   \/ rects'[i].y1 <= ty + T /\ rects'[i].x1 <= tx
          /\ \A i, j \in 1..Len(rects') : i < j => Follows(rects'[i], rects'[j])
      BY <1>0, <2>1, FlushedFollows
    <2>3. \A i \in 1..Len(rects') : rects'[i].x1 <= tx => rects'[i].x1 <= tx + T
      <3>1. rects' \in Seq(Rect)
        BY <1>0, <2>1, FlushedType
      <3>2. \A i \in 1..Len(rects') : rects'[i] \in Rect
        BY <3>1
      <3> QED
        BY <3>2, <1>00, SizeAssumption DEF Rect
    <2> QED
      BY <2>1, <2>2, <2>3 DEF FollowInv, Follows
  <1>4. CASE NextRow
    <2>1. /\ rects' = Flushed(W) /\ ty' = ty + T /\ pc = "loop" /\ tx' = 0
          /\ runStart' = -1 /\ ty < H /\ tx >= W /\ W \in 0..W
          /\ runStart >= 0 => runStart < W /\ runStart <= W
      BY <1>4, <1>00, SizeAssumption DEF NextRow, AtRowEnd, NoRun
    <2>2. /\ \A i \in 1..Len(rects') :
                /\ rects'[i].x0 < rects'[i].x1 /\ rects'[i].y0 < rects'[i].y1
                /\ \/ rects'[i].y1 <= ty
                   \/ rects'[i].y1 <= ty + T /\ rects'[i].x1 <= W
          /\ \A i, j \in 1..Len(rects') : i < j => Follows(rects'[i], rects'[j])
      BY <1>0, <2>1, FlushedFollows
    <2>3. \A i \in 1..Len(rects') : rects'[i].y1 <= ty => rects'[i].y1 <= ty + T
      <3>1. rects' \in Seq(Rect)
        BY <1>0, <2>1, <1>00, FlushedType
      <3>2. \A i \in 1..Len(rects') : rects'[i] \in Rect
        BY <3>1
      <3> QED
        BY <3>2, <1>00, SizeAssumption DEF Rect
    <2> QED
      BY <2>1, <2>2, <2>3 DEF FollowInv, Follows
  <1>5. CASE Return
    BY <1>0, <1>5 DEF Return, FollowInv, Follows
  <1>6. CASE UNCHANGED vars
    BY <1>0, <1>6 DEF vars, FollowInv, Follows
  <1> QED
    BY <1>1, <1>2, <1>3, <1>4, <1>5, <1>6 DEF Next

-----------------------------------------------------------------------------
(* Nothing is sent without need *)

OnGrid(n) == \E c \in Nat : n = c * T
SameTile(p, q) == q[1] \div T = p[1] \div T /\ q[2] \div T = p[2] \div T
Needed(p) == \E q \in diff : SameTile(p, q)

\* The loop steps from tile to tile, and each tile it took into a rectangle or
\* into the run that is open has a pixel that changed.
TightInv ==
    /\ OnGrid(tx) /\ OnGrid(ty)
    /\ pc = "loop" => \A p \in Pixel :
          InRun(p) /\ p[1] < tx /\ p[2] < ty + TileHeight => Needed(p)
    /\ Tight


\* Where a division lands, and that a step of T goes from grid to grid.
LEMMA Quotient ==
    ASSUME NEW c \in Nat, NEW x \in Nat, c * T <= x, x < c * T + T
    PROVE  x \div T = c
  BY SizeAssumption

LEMMA NextOnGrid == ASSUME NEW n \in Nat, OnGrid(n) PROVE OnGrid(n + T)
  <1>1. PICK c \in Nat : n = c * T
    BY DEF OnGrid
  <1>2. n + T = (c + 1) * T /\ c + 1 \in Nat
    BY <1>1, SizeAssumption
  <1> QED
    BY <1>2 DEF OnGrid

\* Pixels between the same lines of the grid are in one tile.
LEMMA InOneTile ==
    ASSUME NEW x \in Nat, NEW y \in Nat, OnGrid(x), OnGrid(y), NEW p \in Pixel, NEW q \in Pixel,
           x <= p[1], p[1] < x + T, x <= q[1], q[1] < x + T,
           y <= p[2], p[2] < y + T, y <= q[2], q[2] < y + T
    PROVE  SameTile(p, q)
  <1>1. /\ p[1] \in Nat /\ p[2] \in Nat /\ q[1] \in Nat /\ q[2] \in Nat
    BY PixelType, SizeAssumption
  <1>2. PICK c \in Nat : x = c * T
    BY DEF OnGrid
  <1>3. PICK d \in Nat : y = d * T
    BY DEF OnGrid
  <1>4. p[1] \div T = c /\ q[1] \div T = c
    BY <1>1, <1>2, Quotient
  <1>5. p[2] \div T = d /\ q[2] \div T = d
    BY <1>1, <1>3, Quotient
  <1> QED
    BY <1>4, <1>5 DEF SameTile

\* A flush emits nothing but the run.
LEMMA FlushedTight ==
    ASSUME LoopInv, TightInv, sameSize, pc = "loop", ty < H,
           NEW endX \in 0..W, endX <= tx, runStart >= 0 => runStart <= endX,
           rects' = Flushed(endX), UNCHANGED <<diff, sameSize>>
    PROVE  Tight'
  <1> DEFINE r == Rectangle(runStart, ty, endX, ty + TileHeight)
  <1> SUFFICES ASSUME NEW i \in 1..Len(rects'), NEW p \in Pixel, In(p, rects'[i])
               PROVE  Needed(p)
    BY DEF Tight, Needed, SameTile
  <1>1. /\ rects \in Seq(Rect) /\ Len(rects) \in Nat /\ runStart \in Int
        /\ tx \in Nat /\ ty \in Nat
    BY SizeAssumption DEF LoopInv, TypeOK
  <1>2. \A k \in 1..Len(rects) : In(p, rects[k]) => Needed(p)
    BY DEF TightInv, Tight, Needed, SameTile
  <1>3. CASE runStart < 0
    BY <1>1, <1>2, <1>3, FlushedType
  <1>4. CASE runStart >= 0
    <2>1. /\ r \in Rect /\ rects' = Append(rects, r)
      BY <1>4, FlushedType
    <2>2. CASE i \in 1..Len(rects)
      BY <1>1, <1>2, <2>1, <2>2, AppendRect
    <2>3. CASE i = Len(rects) + 1
      <3>1. In(p, r)
        BY <1>1, <2>1, <2>3, AppendRect
      <3>2. p[1] \in Nat /\ p[2] \in Nat
        BY PixelType, SizeAssumption
      <3>3. InRun(p) /\ p[1] < tx /\ p[2] < ty + TileHeight
        BY <1>1, <1>4, <3>1, <3>2, SizeAssumption DEF In, Rectangle, InRun
      <3> QED
        BY <3>3 DEF TightInv
    <2> QED
      BY <1>1, <2>1, <2>2, <2>3, AppendRect
  <1> QED
    BY <1>1, <1>3, <1>4

LEMMA TightStep == RectInv /\ TightInv /\ [Next]_vars => TightInv'
  <1> SUFFICES ASSUME RectInv, TightInv, [Next]_vars
               PROVE  TightInv'
    OBVIOUS
  <1>0. LoopInv
    BY DEF RectInv
  <1>00. /\ diff \in SUBSET Pixel /\ diff' = diff /\ sameSize' = sameSize
         /\ tx \in Nat /\ ty \in Nat /\ runStart \in -1..W-1 /\ rects \in Seq(Rect)
    BY <1>0 DEF LoopInv, TypeOK, Next, Start, Differs, Same, NextRow, Return, vars
  <1>1. CASE Start
    <2>1. OnGrid(tx)' /\ OnGrid(ty)'
      BY <1>1 DEF Start, TightInv, OnGrid
    <2>2. pc' = "loop" => runStart' < 0
      BY <1>0, <1>1 DEF Start, LoopInv
    <2>3. sameSize => rects' = <<>>
      BY <1>0, <1>1 DEF Start, LoopInv
    <2>4. Tight'
      BY <1>00, <2>3 DEF Tight
    <2>5. pc' = "loop" => \A p \in Pixel : ~InRun(p)'
      <3>1. runStart' \in Int
        BY <1>00, <1>1, SizeAssumption DEF Start
      <3> QED
        BY <2>2, <3>1 DEF InRun
    <2> QED
      BY <2>1, <2>4, <2>5 DEF TightInv
  <1>2. CASE Differs
    <2>1. /\ tx' = tx + T /\ ty' = ty /\ rects' = rects /\ pc = "loop" /\ pc' = "loop"
          /\ runStart' = IF runStart < 0 THEN tx ELSE runStart
          /\ ty < H /\ tx < W
      BY <1>2 DEF Differs
    <2>2. OnGrid(tx)' /\ OnGrid(ty)'
      <3>1. OnGrid(tx + T) /\ OnGrid(ty)
        BY <1>00, NextOnGrid DEF TightInv
      <3> QED
        BY <2>1, <3>1 DEF OnGrid
    <2>3. PICK q \in diff : In(q, Rectangle(tx, ty, tx + TileWidth, ty + TileHeight))
      BY <1>2 DEF Differs, TileDiffers
    <2>4. q \in Pixel /\ q[1] \in Nat /\ q[2] \in Nat
      BY <1>00, PixelType, SizeAssumption
    <2>5. tx <= q[1] /\ q[1] < tx + T /\ ty <= q[2] /\ q[2] < ty + T
      BY <1>00, <2>3, <2>4, SizeAssumption DEF In, Rectangle, TileWidth, TileHeight, Least
    <2>6. ASSUME NEW p \in Pixel, InRun(p)', p[1] < tx', p[2] < ty + TileHeight
          PROVE  Needed(p)
      <3>1. p[1] \in Nat /\ p[2] \in Nat
        BY PixelType, SizeAssumption
      <3>2. ty <= p[2] /\ p[2] < ty + T
        BY <1>00, <2>1, <2>6, <3>1, SizeAssumption DEF InRun, TileHeight, Least
      <3>3. CASE p[1] < tx
        <4>1. InRun(p)
          BY <1>00, <2>1, <2>6, <3>1, <3>3 DEF InRun
        <4> QED
          BY <2>1, <2>6, <3>3, <4>1 DEF TightInv
      <3>4. CASE tx <= p[1]
        <4>1. SameTile(p, q)
          BY <1>00, <2>1, <2>4, <2>5, <2>6, <3>2, <3>4, InOneTile DEF TightInv
        <4> QED
          BY <4>1 DEF Needed
      <3> QED
        BY <1>00, <3>1, <3>3, <3>4
    <2>7. Tight'
      BY <1>00, <2>1 DEF TightInv, Tight
    <2> QED
      BY <1>00, <2>1, <2>2, <2>6, <2>7 DEF TightInv, Needed, TileHeight
  <1>3. CASE Same
    <2>1. /\ rects' = Flushed(tx) /\ tx' = tx + T /\ ty' = ty /\ pc = "loop"
          /\ runStart' = -1 /\ ty < H /\ tx \in 0..W
          /\ runStart >= 0 => runStart <= tx
      BY <1>0, <1>3, <1>00, SizeAssumption DEF Same, RunEnd, NoRun, LoopInv
    <2>2. OnGrid(tx + T) /\ OnGrid(ty)
      BY <1>00, NextOnGrid DEF TightInv
    <2>3. Tight'
      BY <1>0, <1>00, <2>1, FlushedTight DEF LoopInv
    <2> QED
      BY <2>1, <2>2, <2>3 DEF TightInv, InRun, OnGrid
  <1>4. CASE NextRow
    <2>1. /\ rects' = Flushed(W) /\ tx' = 0 /\ ty' = ty + T /\ pc = "loop"
          /\ runStart' = -1 /\ ty < H /\ tx >= W /\ W \in 0..W
          /\ runStart >= 0 => runStart <= W
      BY <1>4, <1>00, SizeAssumption DEF NextRow, AtRowEnd, NoRun
    <2>2. OnGrid(ty + T) /\ OnGrid(0)
      <3>1. OnGrid(ty + T)
        BY <1>00, NextOnGrid DEF TightInv
      <3>2. 0 = 0 * T
        BY SizeAssumption
      <3> QED
        BY <3>1, <3>2 DEF OnGrid
    <2>3. Tight'
      BY <1>0, <1>00, <2>1, SizeAssumption, FlushedTight DEF LoopInv
    <2> QED
      BY <2>1, <2>2, <2>3 DEF TightInv, InRun, OnGrid
  <1>5. CASE Return
    <2>1. Tight' /\ OnGrid(tx)' /\ OnGrid(ty)'
      BY <1>5 DEF Return, TightInv, Tight, OnGrid
    <2> QED
      BY <1>5, <2>1 DEF Return, TightInv
  <1>6. CASE UNCHANGED vars
    BY <1>6 DEF vars, TightInv, Tight, OnGrid, InRun, Needed, TileHeight, Least
  <1> QED
    BY <1>1, <1>2, <1>3, <1>4, <1>5, <1>6 DEF Next

-----------------------------------------------------------------------------
\* The loop of dirtyRects keeps its invariant, whatever frame and tile size.
THEOREM RectInvariant == Spec => []RectInv
  <1>1. Init => RectInv
    <2> SUFFICES ASSUME Init PROVE RectInv
      OBVIOUS
    <2>1. <<>> \in Seq(Rect) /\ -1 \in -1..W-1
      BY SizeAssumption
    <2>2. LoopInv
      BY <2>1 DEF Init, LoopInv, TypeOK
    <2> QED
      BY <2>2 DEF Init, RectInv, CoverInv, FollowInv
  <1>2. RectInv /\ [Next]_vars => RectInv'
    BY LoopStep, CoverStep, FollowStep DEF RectInv
  <1> QED
    BY <1>1, <1>2, PTL DEF Spec

\* Every pixel that changed is in a rectangle: no tile of the viewer's
\* framebuffer is forgotten.
THEOREM CoversTheorem == Spec => []Covers
  <1>1. RectInv => Covers
    BY DEF RectInv, CoverInv, Covers, Covered
  <1> QED
    BY <1>1, RectInvariant, PTL

\* No pixel is sent twice, and no rectangle is empty or reaches over the edge.
THEOREM DisjointTheorem == Spec => []Disjoint
  <1>1. RectInv => Disjoint
    <2> SUFFICES ASSUME RectInv
                 PROVE  Disjoint
      OBVIOUS
    <2>1. rects \in Seq(Rect)
      BY DEF RectInv, LoopInv, TypeOK
    <2>2. \A i \in 1..Len(rects) :
             /\ rects[i].x0 \in 0..W /\ rects[i].x1 \in 0..W
             /\ rects[i].y0 \in 0..H /\ rects[i].y1 \in 0..H
      <3>1. \A i \in 1..Len(rects) : rects[i] \in Rect
        BY <2>1
      <3> QED
        BY <3>1 DEF Rect
    <2>3. ASSUME NEW i \in 1..Len(rects), NEW j \in 1..Len(rects), i < j,
                 NEW p \in Pixel
          PROVE  ~(In(p, rects[i]) /\ In(p, rects[j]))
      <3>1. Follows(rects[i], rects[j])
        <4>1. CASE sameSize
          BY <2>3, <4>1 DEF RectInv, FollowInv
        <4>2. CASE ~sameSize
          <5>1. rects = <<>> \/ rects = <<Rectangle(0, 0, W, H)>>
            BY <4>2 DEF RectInv, LoopInv
          <5> QED
            BY <5>1, <2>3, <2>1
        <4> QED
          BY <4>1, <4>2
      <3>2. rects[i] \in Rect /\ rects[j] \in Rect
        BY <2>1
      <3> QED
        BY <3>1, <3>2, Apart
    <2>4. \A i, j \in 1..Len(rects) : i # j =>
             \A p \in Pixel : ~(In(p, rects[i]) /\ In(p, rects[j]))
      <3>1. \A i, j \in 1..Len(rects) : i # j => i < j \/ j < i
        BY <2>1
      <3> QED
        BY <2>3, <3>1
    <2>5. sameSize => \A i \in 1..Len(rects) :
             rects[i].x0 < rects[i].x1 /\ rects[i].y0 < rects[i].y1
      BY DEF RectInv, FollowInv
    <2> QED
      BY <2>2, <2>4, <2>5, SizeAssumption DEF Disjoint
  <1> QED
    BY <1>1, RectInvariant, PTL

\* Nothing is sent without need: in every tile of every rectangle of an
\* incremental update a pixel changed, whatever sizes frame and tile have.
THEOREM TightTheorem == Spec => []Tight
  <1>1. Init => TightInv
    <2>1. 0 = 0 * T
      BY SizeAssumption
    <2> QED
      BY <2>1 DEF Init, TightInv, Tight, OnGrid
  <1>2. TightInv => Tight
    BY DEF TightInv
  <1> QED
    BY <1>1, <1>2, TightStep, RectInvariant, PTL DEF Spec
===============================================================================
