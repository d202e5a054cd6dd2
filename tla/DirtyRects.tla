------------------------------ MODULE DirtyRects ------------------------------
(***************************************************************************)
(* dirtyRects of internal/rfb/diff.go: the rectangles an incremental       *)
(* update consists of.  The loop walks the frame tile by tile, row by row, *)
(* and joins tiles that differ into runs; the tiles at the right and at    *)
(* the bottom edge may be smaller.  One step looks at one tile.            *)
(***************************************************************************)
EXTENDS Integers, Sequences

CONSTANTS
    W, H,            \* size of the current frame, in pixels
    T                \* tileSize

ASSUME SizeAssumption == W \in Nat /\ H \in Nat /\ T \in Nat \ {0}

VARIABLES
    diff,            \* the pixels in which the two frames differ
    sameSize,        \* whether the two frames have the same size
    tx, ty,          \* the tile to look at
    runStart,        \* where the run of differing tiles began, or -1
    rects,           \* the result
    pc               \* "start", "loop", "done"

vars == <<diff, sameSize, tx, ty, runStart, rects, pc>>

Pixel == (0..W-1) \X (0..H-1)
Rect == [x0 : 0..W, y0 : 0..H, x1 : 0..W, y1 : 0..H]
Rectangle(x0, y0, x1, y1) == [x0 |-> x0, y0 |-> y0, x1 |-> x1, y1 |-> y1]
In(p, r) == r.x0 <= p[1] /\ p[1] < r.x1 /\ r.y0 <= p[2] /\ p[2] < r.y1

TypeOK ==
    /\ diff \in SUBSET Pixel
    /\ sameSize \in BOOLEAN
    /\ tx \in Nat /\ ty \in Nat
    /\ runStart \in -1..W-1
    /\ rects \in Seq(Rect)
    /\ pc \in {"start", "loop", "done"}

Init ==
    /\ diff \in SUBSET Pixel
    /\ sameSize \in BOOLEAN
    /\ tx = 0 /\ ty = 0
    /\ runStart = -1
    /\ rects = <<>>
    /\ pc = "start"

\* Frames that differ in size differ everywhere.
Start ==
    /\ pc = "start"
    /\ IF sameSize
       THEN rects' = rects /\ pc' = "loop"
       ELSE rects' = <<Rectangle(0, 0, W, H)>> /\ pc' = "done"
    /\ UNCHANGED <<diff, sameSize, tx, ty, runStart>>

Least(a, b) == IF a <= b THEN a ELSE b

TileWidth == Least(T, W - tx)
TileHeight == Least(T, H - ty)

TileDiffers == \E p \in diff : In(p, Rectangle(tx, ty, tx + TileWidth, ty + TileHeight))

Flushed(endX) ==
    IF runStart >= 0
    THEN Append(rects, Rectangle(runStart, ty, endX, ty + TileHeight))
    ELSE rects

\* A tile that differs begins a run or goes on with one.
Differs ==
    /\ pc = "loop" /\ ty < H /\ tx < W
    /\ TileDiffers
    /\ runStart' = IF runStart < 0 THEN tx ELSE runStart
    /\ tx' = tx + T
    /\ UNCHANGED <<diff, sameSize, ty, rects, pc>>

\* Mutant of RunEnd: the run ends behind the tile that does not differ.
BehindTile == Least(tx + T, W)

RunEnd == tx

\* Mutant of NoRun: flush does not reset runStart.
OldRun == runStart

NoRun == -1

Same ==
    /\ pc = "loop" /\ ty < H /\ tx < W
    /\ ~TileDiffers
    /\ rects' = Flushed(RunEnd)
    /\ runStart' = NoRun
    /\ tx' = tx + T
    /\ UNCHANGED <<diff, sameSize, ty, pc>>

\* Mutant of AtRowEnd: the run that reaches the right edge is not flushed.
NotFlushed == rects

AtRowEnd == Flushed(W)

NextRow ==
    /\ pc = "loop" /\ ty < H /\ tx >= W
    /\ rects' = AtRowEnd
    /\ runStart' = NoRun
    /\ tx' = 0
    /\ ty' = ty + T
    /\ UNCHANGED <<diff, sameSize, pc>>

Return ==
    /\ pc = "loop" /\ ty >= H
    /\ pc' = "done"
    /\ UNCHANGED <<diff, sameSize, tx, ty, runStart, rects>>

Next == Start \/ Differs \/ Same \/ NextRow \/ Return

Spec == Init /\ [][Next]_vars

-----------------------------------------------------------------------------
\* Every pixel that changed is in a rectangle: a client that applies the
\* rectangles has the frame (InSync of FrameSync relies on it).
Covers ==
    pc = "done" => \A p \in diff : \E i \in 1..Len(rects) : In(p, rects[i])

\* No pixel is sent twice, and no rectangle is empty or reaches over the edge.
Disjoint ==
    /\ \A i, j \in 1..Len(rects) : i # j =>
          \A p \in Pixel : ~(In(p, rects[i]) /\ In(p, rects[j]))
    /\ \A i \in 1..Len(rects) :
          /\ sameSize => rects[i].x0 < rects[i].x1 /\ rects[i].y0 < rects[i].y1
          /\ rects[i].x1 <= W /\ rects[i].y1 <= H

\* Nothing is sent without need: each tile of a rectangle has a changed pixel.
Tight ==
    sameSize => \A i \in 1..Len(rects), p \in Pixel : In(p, rects[i]) =>
       \E q \in diff : q[1] \div T = p[1] \div T /\ q[2] \div T = p[2] \div T

\* What holds them together while the loop runs: what lies behind it is
\* covered, by a rectangle or by the run that is still open, and the
\* rectangles follow each other, above the tile row or left of the run.
Behind(p) == p[2] < ty \/ (p[2] < ty + TileHeight /\ p[1] < tx)
InRun(p) == runStart >= 0 /\ ty <= p[2] /\ runStart <= p[1]
Covered(p) == \E i \in 1..Len(rects) : In(p, rects[i])

LoopInv ==
    /\ TypeOK
    /\ runStart = -1 \/ runStart < tx
    /\ pc = "start" => tx = 0 /\ ty = 0 /\ rects = <<>> /\ runStart = -1
    /\ ~sameSize => pc \in {"start", "done"}
    /\ pc = "done" /\ ~sameSize => rects = <<Rectangle(0, 0, W, H)>>

CoverInv ==
    /\ pc = "loop" => \A p \in diff : Behind(p) => InRun(p) \/ Covered(p)
    /\ pc = "done" => \A p \in diff : Covered(p)

Follows(r, s) == r.y1 <= s.y0 \/ r.x1 <= s.x0

FollowInv ==
    sameSize =>
       /\ \A i \in 1..Len(rects) :
             /\ rects[i].x0 < rects[i].x1 /\ rects[i].y0 < rects[i].y1
             /\ pc = "loop" =>
                   \/ rects[i].y1 <= ty
                   \/ /\ rects[i].y1 <= ty + T /\ rects[i].x1 <= tx
                      /\ runStart >= 0 => rects[i].x1 <= runStart
       /\ \A i, j \in 1..Len(rects) : i < j => Follows(rects[i], rects[j])

RectInv == LoopInv /\ CoverInv /\ FollowInv
=============================================================================
