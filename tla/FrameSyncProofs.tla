---------------------------- MODULE FrameSyncProofs ----------------------------
(***************************************************************************)
(* Proofs about module FrameSync, for screens, windows and runs of every   *)
(* size: the hand-over of frames from Client.Run to the UI thread, the one *)
(* update request that is ever on its way, and that the client's copy of   *)
(* the screen is the one the server compares against.                      *)
(***************************************************************************)
EXTENDS FrameSync, FiniteSetTheorems, SequenceTheorems, TLAPS

\* One step of any of the three goroutines keeps the frame from being lost:
\* the flag is set after the framebuffer changed and cleared before it is read.
LEMMA NoLostStep == NoLostFrame /\ [Next]_vars => NoLostFrame'
  <1> SUFFICES ASSUME NoLostFrame, [Next]_vars
               PROVE  NoLostFrame'
    OBVIOUS
  <1> USE DEF NoLostFrame
  <1>1. CASE Serve
    BY <1>1 DEF Serve, ReadPointer, ReadRequest, Capture, Send, Finish,
                clientVars, uiVars
  <1>2. CASE Run
    <2>1. CASE ReadUpdate
      BY <2>1 DEF ReadUpdate, AfterRect, uiVars
    <2>2. CASE ReadRectangle
      BY <2>2 DEF ReadRectangle, uiVars
    <2>3. CASE LockFb
      BY <2>3 DEF LockFb, uiVars
    <2>4. CASE DecodeRaw
      BY <2>4 DEF DecodeRaw, AfterRect, uiVars
    <2>5. CASE MarkDirty
      BY <2>5 DEF MarkDirty, uiVars
    <2>6. CASE LockRequest
      BY <2>6 DEF LockRequest, uiVars
    <2>7. CASE RequestUpdate
      BY <2>7 DEF RequestUpdate, uiVars
    <2>8. CASE RunEnds
      BY <2>8 DEF RunEnds, uiVars
    <2> QED
      BY <1>2, <2>1, <2>2, <2>3, <2>4, <2>5, <2>6, <2>7, <2>8 DEF Run, Decode
  <1>3. CASE UI
    <2>1. CASE FirstRequest
      BY <2>1 DEF FirstRequest, clientVars
    <2>2. CASE LockPointer
      BY <2>2 DEF LockPointer, clientVars
    <2>3. CASE SendPointer
      BY <2>3 DEF SendPointer, clientVars
    <2>4. CASE Draw
      BY <2>4 DEF Draw, clientVars
    <2>5. CASE Copy
      BY <2>5 DEF Copy, clientVars
    <2> QED
      BY <1>3, <2>1, <2>2, <2>3, <2>4, <2>5 DEF UI
  <1>4. CASE \E t \in Tile : Change(t)
    BY <1>4 DEF Change, clientVars, uiVars
  <1>5. CASE UNCHANGED vars
    BY <1>5 DEF vars, clientVars, uiVars
  <1>6. CASE ServeEnds
    BY <1>6 DEF ServeEnds, clientVars, uiVars
  <1>7. CASE Break
    BY <1>7 DEF Break, clientVars, uiVars
  <1> QED
    BY <1>1, <1>2, <1>3, <1>4, <1>5, <1>6, <1>7 DEF Next

\* A frame is never lost between the two threads of the viewer, until Run ends.
THEOREM NoLostFrameTheorem == Spec => []NoLostFrame
  <1>1. Init => NoLostFrame
    BY DEF Init, NoLostFrame
  <1> QED
    BY <1>1, NoLostStep, PTL DEF Spec
-----------------------------------------------------------------------------
(* One request at a time *)

Requests == {n \in DOMAIN up : up[n] # "pointer"}

\* How much of an update is still to be read, by message.
Coming == Len(down) + Len(todo)

\* An update is being made, is on its way, or is being read.
Busy == spc = "capture" \/ Coming > 0 \/ cpc \notin {"read", "ended"}

Kinds ==
    /\ up \in Seq(UpMsg)
    /\ \E S : down \in Seq(S) /\ todo \in Seq(S)
    /\ left \in Nat

Begins(q, n) ==
    Head(q).kind = "update" /\ Head(q).value \in Nat /\ n <= 1 + 2 * Head(q).value

\* No more is coming than Run is going to read before it asks again: after the
\* count of an update two messages for each of its rectangles.
Bounded ==
    /\ Len(todo) > 0 => spc = "send"
    /\ spc = "capture" => Len(down) = 0 /\ cpc \in {"read", "ended"}
    /\ cpc = "read" /\ Len(down) > 0 => Begins(down, Coming)
    /\ cpc = "read" /\ Len(down) = 0 /\ Len(todo) > 0 /\ ~broken => Begins(todo, Coming)
    /\ cpc = "rect" => Coming <= 2 * left
    /\ cpc \in {"lock", "pixels"} => Coming <= 2 * left - 1
    /\ cpc \in {"mark", "request", "write"} => Coming = 0

\* Requests come one by one: the next is made when the last is answered.
Single ==
    /\ \A n, m \in Requests : n = m
    /\ Busy => Requests = {}
    /\ uipc = "first" => up = <<>> /\ ~Busy

OutInv == Kinds /\ Bounded /\ Single

LEMMA OutInit == Init => OutInv
  <1> SUFFICES ASSUME Init PROVE OutInv
    OBVIOUS
  <1>1. up = <<>> /\ down = <<>> /\ todo = <<>>
    BY DEF Init
  <1>2. Len(down) = 0 /\ Len(todo) = 0 /\ Requests = {}
    BY <1>1 DEF Requests
  <1>3. Kinds
    BY <1>1 DEF Kinds, Init
  <1>4. Bounded /\ Single
    BY <1>1, <1>2 DEF Bounded, Single, Busy, Coming, Init
  <1> QED
    BY <1>3, <1>4 DEF OutInv

LEMMA Lengths == Kinds => Len(down) \in Nat /\ Len(todo) \in Nat /\ Len(up) \in Nat
  BY DEF Kinds

\* Steps that move no message.
LEMMA StillStep ==
    ASSUME OutInv, UNCHANGED <<up, down, todo, left>>,
           Bounded', Busy' => Busy,
           uipc' = "first" => uipc = "first"
    PROVE  OutInv'
  <1>1. Kinds'
    BY DEF OutInv, Kinds
  <1>2. Requests' = Requests
    BY DEF Requests
  <1>3. Single'
    BY <1>2 DEF OutInv, Single
  <1> QED
    BY <1>1, <1>3 DEF OutInv

\* A pointer event is put on its way, or taken off it.
LEMMA AppendPointer ==
    ASSUME OutInv, up' = Append(up, "pointer")
    PROVE  Requests' = Requests /\ up' \in Seq(UpMsg)
  BY DEF OutInv, Kinds, Requests, UpMsg

LEMMA TakeFirst ==
    ASSUME OutInv, up # <<>>, up' = Tail(up)
    PROVE  /\ up' \in Seq(UpMsg)
           /\ \A n \in Requests' : n + 1 \in Requests
           /\ Head(up) # "pointer" => 1 \in Requests
  BY DEF OutInv, Kinds, Requests

-----------------------------------------------------------------------------
\* The server: a request makes it busy, and an update as long as it says.
LEMMA ReadPointerStep == OutInv /\ ReadPointer => OutInv'
  <1> SUFFICES ASSUME OutInv, ReadPointer PROVE OutInv'
    OBVIOUS
  <1>1. up' \in Seq(UpMsg) /\ \A n \in Requests' : n + 1 \in Requests
    BY TakeFirst DEF ReadPointer
  <1>2. Kinds' /\ Bounded'
    BY <1>1 DEF ReadPointer, OutInv, Kinds, Bounded, Coming, serverVars, clientVars
  <1>3. Busy' = Busy /\ uipc' = uipc /\ up # <<>>
    BY DEF ReadPointer, Busy, Coming, serverVars, clientVars, uiVars
  <1>4. Requests \subseteq Nat /\ Requests' \subseteq Nat
    BY <1>1 DEF OutInv, Kinds, Requests
  <1>5. Single'
    BY <1>1, <1>3, <1>4 DEF OutInv, Single
  <1> QED
    BY <1>2, <1>5 DEF OutInv

LEMMA ReadRequestStep == OutInv /\ ReadRequest => OutInv'
  <1> SUFFICES ASSUME OutInv, ReadRequest PROVE OutInv'
    OBVIOUS
  <1>1. /\ up' \in Seq(UpMsg) /\ 1 \in Requests
        /\ \A n \in Requests' : n + 1 \in Requests
    BY TakeFirst DEF ReadRequest
  <1>2. Requests \subseteq Nat /\ Requests' \subseteq Nat \ {0}
    BY <1>1 DEF OutInv, Kinds, Requests
  <1>3. Requests' = {}
    <2> SUFFICES ASSUME NEW n \in Requests' PROVE FALSE
      OBVIOUS
    <2>1. n + 1 = 1
      BY <1>1 DEF OutInv, Single
    <2> QED
      BY <1>2, <2>1
  <1>4. ~Busy
    BY <1>1 DEF OutInv, Single
  <1>5. Len(down) = 0 /\ Len(todo) = 0 /\ cpc \in {"read", "ended"}
    BY <1>4, Lengths DEF Busy, Coming, OutInv
  <1>6. Kinds' /\ Bounded'
    BY <1>1, <1>5 DEF ReadRequest, OutInv, Kinds, Bounded, Coming, clientVars
  <1>7. uipc' # "first"
    BY DEF ReadRequest, OutInv, Single, uiVars
  <1> QED
    BY <1>3, <1>6, <1>7 DEF OutInv, Single

\* What Capture makes of a frame: the count, and two messages for each.
LEMMA UpdateLength ==
    ASSUME NEW new, NEW rects \in SUBSET Tile
    PROVE  LET todo1 == UpdateOf(new, rects) IN
           /\ \E S : todo1 \in Seq(S)
           /\ Begins(todo1, Len(todo1)) /\ Len(todo1) > 0
  <1> DEFINE k == Cardinality(rects)
             seq == CHOOSE s \in [1..k -> rects] : \A i, j \in 1..k : i < j => s[i] < s[j]
             msg(n) == LET t == seq[(n + 1) \div 2] IN
                       IF n % 2 = 1 THEN [kind |-> "rect", value |-> t]
                                    ELSE [kind |-> "pixels", value |-> new[t]]
             head == [kind |-> "update", value |-> k]
             body == [n \in 1..2 * k |-> msg(n)]
             S == {head} \cup {msg(n) : n \in 1..2 * k}
  <1>1. k \in Nat
    <2>1. IsFiniteSet(Tile)
      BY FrameAssumption, FS_Interval DEF Tile
    <2> QED
      BY <2>1, FS_Subset, FS_CardinalityType
  <1>2. UpdateOf(new, rects) = <<head>> \o body
    BY DEF UpdateOf
  <1> HIDE DEF k, msg
  <1>3. body \in Seq(S) /\ Len(body) = 2 * k
    BY <1>1
  <1>4. <<head>> \in Seq(S) /\ Len(<<head>>) = 1 /\ Head(<<head>>) = head
    OBVIOUS
  <1> HIDE DEF body, S
  <1>5. /\ <<head>> \o body \in Seq(S) /\ Len(<<head>> \o body) = 1 + 2 * k
        /\ Head(<<head>> \o body) = head
    BY <1>1, <1>3, <1>4
  <1> QED
    BY <1>1, <1>2, <1>5 DEF Begins

LEMMA CaptureStep == OutInv /\ Capture => OutInv'
  <1> SUFFICES ASSUME OutInv, Capture PROVE OutInv'
    OBVIOUS
  <1>1. Rects(screen) \in SUBSET Tile
    BY DEF Rects
  <1>2. PICK S : todo' \in Seq(S)
    BY <1>1, UpdateLength DEF Capture
  <1>3. Begins(todo', Len(todo')) /\ Len(todo') > 0
    BY <1>1, UpdateLength DEF Capture
  <1>4. PICK T : down \in Seq(T)
    BY DEF OutInv, Kinds
  <1>5. Len(down) = 0 /\ cpc \in {"read", "ended"} /\ down' = down /\ cpc' = cpc
    BY DEF Capture, OutInv, Bounded, clientVars
  <1>6. down = <<>>
    BY <1>4, <1>5
  <1>7. Kinds'
    BY <1>2, <1>5, <1>6 DEF Capture, OutInv, Kinds, clientVars
  <1>8. Coming' = Len(todo')
    BY <1>2, <1>5 DEF Coming
  <1>9. Bounded'
    BY <1>3, <1>5, <1>8 DEF Capture, Bounded
  <1>10. Requests' = Requests /\ Requests = {} /\ uipc' # "first"
    BY DEF Capture, OutInv, Single, Busy, Requests, uiVars
  <1> QED
    BY <1>7, <1>9, <1>10 DEF OutInv, Single

\* A message changes places; what is coming stays the same.
LEMMA SendStep == OutInv /\ Send => OutInv'
  <1> SUFFICES ASSUME OutInv, Send PROVE OutInv'
    OBVIOUS
  <1>1. PICK S : down \in Seq(S) /\ todo \in Seq(S)
    BY DEF OutInv, Kinds
  <1>2. /\ down' \in Seq(S) /\ Len(down') = Len(down) + 1
        /\ todo' \in Seq(S) /\ Len(todo') = Len(todo) - 1
        /\ Len(down) \in Nat /\ Len(todo) \in Nat /\ Len(todo) > 0
    BY <1>1 DEF Send
  <1>3. Head(down') = IF Len(down) = 0 THEN Head(todo) ELSE Head(down)
    BY <1>1 DEF Send
  <1>4. Coming' = Coming
    BY <1>2 DEF Coming
  <1>5. Kinds'
    BY <1>2 DEF Send, OutInv, Kinds, clientVars
  <1>6. Bounded'
    BY <1>2, <1>3, <1>4 DEF Send, OutInv, Bounded, Begins, clientVars
  <1>7. Busy' = Busy /\ Requests' = Requests /\ UNCHANGED <<up, uipc>>
    BY <1>4 DEF Busy, Requests, Send, clientVars, uiVars
  <1> QED
    BY <1>5, <1>6, <1>7 DEF OutInv, Single

LEMMA FinishStep == OutInv /\ Finish => OutInv'
  <1> SUFFICES ASSUME OutInv, Finish PROVE OutInv'
    OBVIOUS
  <1>1. Coming' = Coming /\ Len(todo') = 0
    BY DEF Finish, Coming
  <1>2. Bounded'
    BY <1>1 DEF Finish, OutInv, Bounded, clientVars
  <1>3. Busy' => Busy
    BY <1>1 DEF Busy, Finish, clientVars
  <1> QED
    BY <1>2, <1>3, StillStep DEF Finish, clientVars, uiVars

LEMMA ServeEndsStep == OutInv /\ ServeEnds => OutInv'
  <1> SUFFICES ASSUME OutInv, ServeEnds PROVE OutInv'
    OBVIOUS
  <1>1. PICK S : down \in Seq(S) /\ todo \in Seq(S)
    BY DEF OutInv, Kinds
  <1>2. todo' \in Seq(S) /\ Len(todo') = 0 /\ Len(down) \in Nat /\ Len(todo) \in Nat
    BY <1>1 DEF ServeEnds
  <1>3. Coming' <= Coming /\ Coming' \in Nat /\ Coming \in Nat
    BY <1>2 DEF Coming, ServeEnds
  <1>4. Kinds'
    BY <1>1, <1>2 DEF ServeEnds, OutInv, Kinds, clientVars
  <1>5. Bounded'
    BY <1>2, <1>3 DEF ServeEnds, OutInv, Kinds, Bounded, Begins, clientVars
  <1>6. (Busy' => Busy) /\ Requests' = Requests /\ UNCHANGED <<up, uipc>>
    BY <1>3 DEF Busy, Requests, ServeEnds, clientVars, uiVars
  <1> QED
    BY <1>4, <1>5, <1>6 DEF OutInv, Single

-----------------------------------------------------------------------------
\* Run takes a message.
LEMMA Received ==
    ASSUME OutInv, down # <<>>, down' = Tail(down), UNCHANGED todo
    PROVE  /\ \E S : down' \in Seq(S) /\ todo' \in Seq(S)
           /\ Coming' = Coming - 1 /\ Coming \in Nat \ {0} /\ Len(down) > 0
  <1>1. PICK S : down \in Seq(S) /\ todo \in Seq(S)
    BY DEF OutInv, Kinds
  <1>2. /\ down' \in Seq(S) /\ Len(down') = Len(down) - 1
        /\ Len(down) \in Nat /\ Len(down) > 0 /\ Len(todo) \in Nat
    BY <1>1
  <1> QED
    BY <1>1, <1>2 DEF Coming

LEMMA ReadUpdateStep == OutInv /\ ReadUpdate => OutInv'
  <1> SUFFICES ASSUME OutInv, ReadUpdate PROVE OutInv'
    OBVIOUS
  <1>1. /\ \E S : down' \in Seq(S) /\ todo' \in Seq(S)
        /\ Coming' = Coming - 1 /\ Coming \in Nat \ {0} /\ Len(down) > 0
    BY Received DEF ReadUpdate, Receive, serverVars
  <1>2. left' \in Nat /\ Coming' <= 2 * left'
    BY <1>1 DEF ReadUpdate, OutInv, Bounded, Begins
  <1>3. Kinds'
    BY <1>1, <1>2 DEF ReadUpdate, OutInv, Kinds
  <1>4. spc # "capture"
    BY <1>1 DEF OutInv, Bounded
  <1>5. Bounded'
    BY <1>1, <1>2, <1>4 DEF ReadUpdate, AfterRect, OutInv, Bounded, serverVars
  <1>6. Busy /\ Requests' = Requests /\ UNCHANGED <<up, uipc>>
    BY <1>1 DEF Busy, Requests, ReadUpdate, uiVars
  <1> QED
    BY <1>3, <1>5, <1>6 DEF OutInv, Single

LEMMA ReadRectangleStep == OutInv /\ ReadRectangle => OutInv'
  <1> SUFFICES ASSUME OutInv, ReadRectangle PROVE OutInv'
    OBVIOUS
  <1>1. /\ \E S : down' \in Seq(S) /\ todo' \in Seq(S)
        /\ Coming' = Coming - 1 /\ Coming \in Nat \ {0} /\ Len(down) > 0
    BY Received DEF ReadRectangle, Receive, serverVars
  <1>2. Kinds'
    BY <1>1 DEF ReadRectangle, OutInv, Kinds
  <1>3. Bounded'
    BY <1>1 DEF ReadRectangle, OutInv, Kinds, Bounded, serverVars
  <1>4. Busy /\ Requests' = Requests /\ UNCHANGED <<up, uipc>>
    BY <1>1 DEF Busy, Requests, ReadRectangle, uiVars
  <1> QED
    BY <1>2, <1>3, <1>4 DEF OutInv, Single

LEMMA DecodeRawStep == OutInv /\ DecodeRaw => OutInv'
  <1> SUFFICES ASSUME OutInv, DecodeRaw PROVE OutInv'
    OBVIOUS
  <1>1. /\ \E S : down' \in Seq(S) /\ todo' \in Seq(S)
        /\ Coming' = Coming - 1 /\ Coming \in Nat \ {0} /\ Len(down) > 0
    BY Received DEF DecodeRaw, Receive, serverVars
  <1>2. left' \in Nat /\ Coming' <= 2 * left'
    BY <1>1 DEF DecodeRaw, OutInv, Kinds, Bounded
  <1>3. Kinds'
    BY <1>1, <1>2 DEF DecodeRaw, OutInv, Kinds
  <1>4. Bounded'
    BY <1>1, <1>2 DEF DecodeRaw, AfterRect, OutInv, Bounded, serverVars
  <1>5. Busy /\ Requests' = Requests /\ UNCHANGED <<up, uipc>>
    BY <1>1 DEF Busy, Requests, DecodeRaw, uiVars
  <1> QED
    BY <1>3, <1>4, <1>5 DEF OutInv, Single

LEMMA RunStillStep ==
    OutInv /\ (LockFb \/ MarkDirty \/ LockRequest \/ RunEnds) => OutInv'
  <1> SUFFICES ASSUME OutInv, LockFb \/ MarkDirty \/ LockRequest \/ RunEnds
               PROVE  OutInv'
    OBVIOUS
  <1>1. UNCHANGED <<up, down, todo, left, uipc, spc, broken>> /\ Coming' = Coming
    BY DEF LockFb, MarkDirty, LockRequest, RunEnds, Coming, serverVars, uiVars
  <1>2. Bounded'
    <2>1. CASE LockFb
      BY <1>1, <2>1 DEF LockFb, OutInv, Bounded
    <2>2. CASE MarkDirty \/ LockRequest
      BY <1>1, <2>2 DEF MarkDirty, LockRequest, OutInv, Bounded
    <2>3. CASE RunEnds
      BY <1>1, <2>3 DEF RunEnds, OutInv, Bounded
    <2> QED
      BY <2>1, <2>2, <2>3
  <1>3. Busy' => Busy
    BY <1>1 DEF Busy, LockFb, MarkDirty, LockRequest, RunEnds
  <1> QED
    BY <1>1, <1>2, <1>3, StillStep

\* Run asks again when all of the last update is read.
LEMMA RequestUpdateStep == OutInv /\ RequestUpdate => OutInv'
  <1> SUFFICES ASSUME OutInv, RequestUpdate PROVE OutInv'
    OBVIOUS
  <1>1. PICK S : down \in Seq(S) /\ todo \in Seq(S)
    BY DEF OutInv, Kinds
  <1>2. Len(down) = 0 /\ Len(todo) = 0 /\ spc # "capture" /\ Requests = {}
    BY <1>1 DEF RequestUpdate, OutInv, Bounded, Coming, Single, Busy
  <1>3. up' \in Seq(UpMsg) /\ \A n, m \in Requests' : n = m
    <2>1. CASE up' = Append(up, "incremental")
      <3>1. \A n \in Requests' : n \in Requests \/ n = Len(up) + 1
        BY <2>1 DEF Requests, OutInv, Kinds
      <3> QED
        BY <1>2, <2>1, <3>1 DEF OutInv, Kinds, UpMsg
    <2>2. CASE up' = up
      BY <2>2 DEF OutInv, Kinds, Single, Requests
    <2> QED
      BY <2>1, <2>2 DEF RequestUpdate, Write
  <1>4. Kinds'
    BY <1>3 DEF RequestUpdate, OutInv, Kinds, serverVars
  <1>5. Bounded' /\ ~Busy'
    BY <1>2 DEF RequestUpdate, Bounded, Busy, Coming, serverVars
  <1>6. uipc' # "first"
    BY DEF RequestUpdate, OutInv, Single, Busy, uiVars
  <1> QED
    BY <1>3, <1>4, <1>5, <1>6 DEF OutInv, Single

-----------------------------------------------------------------------------
\* The UI thread asks once, before anything is on its way.
LEMMA FirstRequestStep == OutInv /\ FirstRequest => OutInv'
  <1> SUFFICES ASSUME OutInv, FirstRequest PROVE OutInv'
    OBVIOUS
  <1>1. up = <<>> /\ ~Busy
    BY DEF FirstRequest, OutInv, Single
  <1>2. up' \in Seq(UpMsg) /\ Len(up') <= 1
    <2>1. up \in Seq(UpMsg) /\ Len(up) = 0
      BY <1>1 DEF OutInv, Kinds
    <2>2. up' = Append(up, "full") \/ up' = up
      BY DEF FirstRequest, Write
    <2>3. CASE up' = Append(up, "full")
      <3>1. "full" \in UpMsg
        BY DEF UpMsg
      <3> QED
        BY <2>1, <2>3, <3>1
    <2>4. CASE up' = up
      BY <2>1, <2>4
    <2> QED
      BY <2>2, <2>3, <2>4
  <1>3. \A n, m \in Requests' : n = m
    BY <1>2 DEF Requests
  <1>4. Kinds' /\ Bounded'
    BY <1>2 DEF FirstRequest, OutInv, Kinds, Bounded, Coming, serverVars, clientVars
  <1>5. Busy' = Busy /\ uipc' # "first"
    BY DEF Busy, Coming, FirstRequest, AfterFirst, serverVars, clientVars
  <1> QED
    BY <1>1, <1>3, <1>4, <1>5 DEF OutInv, Single

LEMMA SendPointerStep == OutInv /\ SendPointer => OutInv'
  <1> SUFFICES ASSUME OutInv, SendPointer PROVE OutInv'
    OBVIOUS
  <1>1. Requests' = Requests /\ up' \in Seq(UpMsg)
    <2>1. CASE up' = Append(up, "pointer")
      BY <2>1, AppendPointer
    <2>2. CASE up' = up
      BY <2>2 DEF Requests, OutInv, Kinds
    <2> QED
      BY <2>1, <2>2 DEF SendPointer, Write
  <1>2. Kinds' /\ Bounded'
    BY <1>1 DEF SendPointer, OutInv, Kinds, Bounded, Coming, serverVars, clientVars
  <1>3. Busy' = Busy /\ uipc' # "first"
    BY DEF Busy, Coming, SendPointer, serverVars, clientVars
  <1> QED
    BY <1>1, <1>2, <1>3 DEF OutInv, Single

\* Steps of the UI thread and of the display that send nothing.
LEMMA OtherStillStep ==
    OutInv /\ (LockPointer \/ Draw \/ Copy \/ (\E t \in Tile : Change(t)) \/ UNCHANGED vars)
       => OutInv'
  <1> SUFFICES ASSUME OutInv,
                      LockPointer \/ Draw \/ Copy \/ (\E t \in Tile : Change(t))
                         \/ UNCHANGED vars
               PROVE  OutInv'
    OBVIOUS
  <1>1. /\ UNCHANGED <<up, down, broken, serverVars, clientVars>>
        /\ uipc' = "first" => uipc = "first"
    BY DEF LockPointer, Draw, Copy, Change, vars, uiVars
  <1>2. Bounded' /\ Busy' = Busy
    BY <1>1 DEF OutInv, Bounded, Busy, Coming, serverVars, clientVars
  <1> QED
    BY <1>1, <1>2, StillStep DEF serverVars, clientVars

\* When the tunnel breaks, some of what was on its way is not any more.
LEMMA BreakStep == OutInv /\ Break => OutInv'
  <1> SUFFICES ASSUME OutInv, Break PROVE OutInv'
    OBVIOUS
  <1>1. PICK S : down \in Seq(S) /\ todo \in Seq(S)
    BY DEF OutInv, Kinds
  <1>2. PICK n \in 0..Len(up), m \in 0..Len(down) :
           up' = SubSeq(up, 1, n) /\ down' = SubSeq(down, 1, m)
    BY DEF Break
  <1>3. up \in Seq(UpMsg)
    BY DEF OutInv, Kinds
  <1>4. up' \in Seq(UpMsg) /\ Len(up') = n /\ \A i \in 1..n : up'[i] = up[i]
    BY <1>2, <1>3
  <1>5. /\ down' \in Seq(S) /\ Len(down') = m /\ Len(down) \in Nat /\ Len(todo) \in Nat
        /\ m > 0 => Head(down') = Head(down)
    BY <1>1, <1>2
  <1>6. Coming' <= Coming /\ Coming' \in Nat /\ Coming \in Nat
    BY <1>1, <1>5 DEF Coming, Break, serverVars
  <1>7. Kinds'
    BY <1>1, <1>4, <1>5 DEF Break, OutInv, Kinds, serverVars, clientVars
  <1>8. Bounded'
    <2>1. broken' = TRUE /\ UNCHANGED <<spc, cpc, left, todo>>
      BY DEF Break, serverVars, clientVars
    <2>2. left \in Nat /\ Bounded
      BY DEF OutInv, Kinds
    <2>3. cpc = "read" /\ Len(down') > 0 => Begins(down', Coming')
      <3>1. Len(down') > 0 => Len(down) > 0 /\ Head(down') = Head(down)
        BY <1>5
      <3> QED
        BY <1>6, <2>2, <3>1 DEF Bounded, Begins
    <2>4. /\ cpc = "rect" => Coming' <= 2 * left
          /\ cpc \in {"lock", "pixels"} => Coming' <= 2 * left - 1
          /\ cpc \in {"mark", "request", "write"} => Coming' = 0
      BY <1>6, <2>2 DEF Bounded
    <2>5. spc = "capture" => Len(down') = 0
      BY <1>5, <2>2 DEF Bounded
    <2> QED
      BY <2>1, <2>2, <2>3, <2>4, <2>5 DEF Bounded
  <1>9. Requests' \subseteq Requests /\ (up = <<>> => up' = <<>>)
    BY <1>2, <1>3, <1>4 DEF Requests
  <1>10. (Busy' => Busy) /\ uipc' = uipc
    BY <1>6 DEF Busy, Break, serverVars, clientVars, uiVars
  <1> QED
    BY <1>7, <1>8, <1>9, <1>10 DEF OutInv, Single

LEMMA OutStep == OutInv /\ [Next]_vars => OutInv'
  BY ReadPointerStep, ReadRequestStep, CaptureStep, SendStep, FinishStep, ServeEndsStep,
     ReadUpdateStep, ReadRectangleStep, DecodeRawStep, RunStillStep, RequestUpdateStep,
     FirstRequestStep, SendPointerStep, OtherStillStep, BreakStep
     DEF Next, Serve, Run, Decode, UI

\* What the inductive invariant says, in the words of the property.
LEMMA OutMeans == OutInv => OneOutstanding
  <1> SUFFICES ASSUME OutInv PROVE OneOutstanding
    OBVIOUS
  <1>1. PICK S : down \in Seq(S) /\ todo \in Seq(S)
    BY DEF OutInv, Kinds
  <1>2. todo \o down # <<>> => Coming > 0
    BY <1>1 DEF Coming
  <1>3. Cardinality(Requests) \in {0, 1} /\ (Busy => Cardinality(Requests) = 0)
    <2>1. CASE Requests = {}
      BY <2>1, FS_EmptySet
    <2>2. CASE Requests # {}
      <3>1. PICK n : n \in Requests
        BY <2>2
      <3>2. Requests = {n}
        BY <3>1 DEF OutInv, Single
      <3> QED
        BY <2>2, <3>2, FS_Singleton DEF OutInv, Single
    <2> QED
      BY <2>1, <2>2
  <1> QED
    BY <1>2, <1>3 DEF OneOutstanding, Busy, Requests

\* There is never more than one update request on its way, in work or being
\* answered: for screens of any size and a tunnel with any room.
THEOREM OneOutstandingTheorem == Spec => []OneOutstanding
  <1> QED
    BY OutInit, OutStep, OutMeans, PTL DEF Spec
-----------------------------------------------------------------------------
(* The order in which an update names its tiles *)

\* There are finitely many tiles.
LEMMA TilesFinite ==
    \A R \in SUBSET Tile :
       IsFiniteSet(R) /\ Cardinality(R) \in Nat /\ R \subseteq Int
  <1>1. IsFiniteSet(Tile)
    BY FrameAssumption, FS_Interval DEF Tile
  <1>2. Tile \subseteq Int
    BY FrameAssumption DEF Tile
  <1> QED
    BY <1>1, <1>2, FS_Subset, FS_CardinalityType

\* A set of tiles has a largest: among the intervals m..N that begin in it
\* there is a smallest one, by inclusion.
LEMMA Largest ==
    ASSUME NEW S \in SUBSET Tile, S # {}
    PROVE  \E m \in S : \A k \in S : k <= m
  <1> DEFINE T == {m..N : m \in S}
  <1>1. T # {}
    OBVIOUS
  <1>2. T \subseteq FiniteSubsetsOf(Tile)
    <2> SUFFICES ASSUME NEW m \in S PROVE m..N \in FiniteSubsetsOf(Tile)
      OBVIOUS
    <2>1. m..N \in SUBSET Tile
      BY FrameAssumption DEF Tile
    <2> QED
      BY <2>1, TilesFinite DEF FiniteSubsetsOf
  <1> HIDE DEF T
  <1>3. PICK x \in T : \A y \in T : ~ (<<y, x>> \in StrictSubsetOrdering(Tile))
    BY <1>1, <1>2, WFMin, FS_StrictSubsetOrderingWellFounded
  <1>4. PICK m \in S : x = m..N
    BY <1>3 DEF T
  <1>5. ASSUME NEW k \in S, k > m PROVE FALSE
    <2>1. /\ k..N \in SUBSET Tile /\ m..N \in SUBSET Tile
          /\ k..N \subseteq m..N /\ m \in m..N /\ m \notin k..N
      BY <1>5, FrameAssumption DEF Tile
    <2>2. <<k..N, m..N>> \in StrictSubsetOrdering(Tile)
      BY <2>1 DEF StrictSubsetOrdering
    <2> QED
      BY <1>3, <1>4, <2>2 DEF T
  <1> QED
    BY <1>4, <1>5 DEF Tile

Increasing(R) ==
    {s \in [1..Cardinality(R) -> R] :
        \A i, j \in 1..Cardinality(R) : i < j => s[i] < s[j]}

\* Every set of tiles can be named in increasing order. Of the sets that cannot
\* take a minimal one: without its largest tile it can.
LEMMA Enumerates == \A R \in SUBSET Tile : Increasing(R) # {}
  <1> DEFINE Bad == {R \in SUBSET Tile : Increasing(R) = {}}
  <1> SUFFICES ASSUME Bad # {} PROVE FALSE
    OBVIOUS
  <1>1. Bad \subseteq FiniteSubsetsOf(Tile)
    BY TilesFinite DEF FiniteSubsetsOf
  <1>2. PICK R \in Bad : \A y \in Bad : ~ (<<y, R>> \in StrictSubsetOrdering(Tile))
    BY <1>1, WFMin, FS_StrictSubsetOrderingWellFounded
  <1>3. R \in SUBSET Tile /\ Increasing(R) = {}
    BY <1>2
  <1>4. IsFiniteSet(R)
    BY <1>3, TilesFinite
  <1>5. R # {}
    <2> SUFFICES ASSUME R = {} PROVE FALSE
      OBVIOUS
    <2>1. Cardinality(R) = 0
      BY FS_EmptySet
    <2>2. [i \in 1..0 |-> 0] \in Increasing(R)
      BY <2>1 DEF Increasing
    <2> QED
      BY <1>3, <2>2
  <1>6. PICK m \in R : \A t \in R : t <= m
    BY <1>3, <1>5, Largest
  <1> DEFINE P == R \ {m}
             k == Cardinality(P)
  <1>7. IsFiniteSet(P) /\ k \in Nat /\ Cardinality(R) = k + 1
    <2>1. IsFiniteSet(P) /\ k \in Nat
      BY <1>3, TilesFinite
    <2>2. k = Cardinality(R) - 1
      BY <1>4, FS_RemoveElement
    <2>3. Cardinality(R) \in Nat
      BY <1>3, TilesFinite
    <2> QED
      BY <2>1, <2>2, <2>3
  <1>8. P \notin Bad
    <2>1. <<P, R>> \in StrictSubsetOrdering(Tile)
      BY <1>3, <1>6 DEF StrictSubsetOrdering
    <2> QED
      BY <1>2, <2>1
  <1>9. PICK s \in [1..k -> P] : \A i, j \in 1..k : i < j => s[i] < s[j]
    BY <1>3, <1>8 DEF Increasing
  <1>10. \A i \in 1..k : s[i] \in R /\ s[i] < m
    <2> SUFFICES ASSUME NEW i \in 1..k PROVE s[i] \in R /\ s[i] < m
      OBVIOUS
    <2>1. s[i] \in P
      BY <1>9
    <2>2. s[i] \in R /\ s[i] # m
      BY <2>1
    <2>3. s[i] \in Int /\ m \in Int
      BY <1>3, <2>2, TilesFinite
    <2>4. s[i] <= m
      BY <1>6, <2>2
    <2> QED
      BY <2>2, <2>3, <2>4
  <1> DEFINE longer == [i \in 1..k + 1 |-> IF i <= k THEN s[i] ELSE m]
  <1> HIDE DEF k
  <1>11. longer \in [1..k + 1 -> R]
    BY <1>7, <1>10
  <1>12. \A i, j \in 1..k + 1 : i < j => longer[i] < longer[j]
    <2> SUFFICES ASSUME NEW i \in 1..k + 1, NEW j \in 1..k + 1, i < j
                 PROVE  longer[i] < longer[j]
      OBVIOUS
    <2>1. i \in 1..k
      BY <1>7
    <2> QED
      BY <1>7, <1>9, <1>10, <2>1
  <1>13. longer \in Increasing(R)
    BY <1>7, <1>11, <1>12 DEF Increasing
  <1> QED
    BY <1>3, <1>13

\* In increasing order, every tile of the set has its turn.
LEMMA NamesAll ==
    ASSUME NEW R \in SUBSET Tile, NEW s \in Increasing(R)
    PROVE  \A t \in R : \E i \in 1..Cardinality(R) : s[i] = t
  <1>1. IsFiniteSet(R) /\ Cardinality(R) \in Nat
    BY TilesFinite
  <1>2. \A i, j \in 1..Cardinality(R) : s[i] = s[j] => i = j
    <2> SUFFICES ASSUME NEW i \in 1..Cardinality(R), NEW j \in 1..Cardinality(R),
                        s[i] = s[j], i < j
                 PROVE  FALSE
      BY <1>1
    <2>1. s[i] < s[j]
      BY DEF Increasing
    <2>2. s[i] \in Int
      BY TilesFinite DEF Increasing
    <2> QED
      BY <2>1, <2>2
  <1>3. s \in Injection(1..Cardinality(R), R)
    BY <1>2 DEF Increasing, Injection, IsInjective
  <1>4. Cardinality(1..Cardinality(R)) = Cardinality(R)
    BY <1>1, FS_Interval
  <1>5. s \in Surjection(1..Cardinality(R), R)
    BY <1>1, <1>3, <1>4, FS_Injection
  <1> QED
    BY <1>5 DEF Surjection
-----------------------------------------------------------------------------
(* What is on its way *)

\* The frame the next update is computed against.
Base == IF spc = "send" THEN img ELSE prev

OnTheWay == down \o todo

\* A rectangle is followed by its pixels, those of the frame.
Paired(q, frame) ==
    \A i \in 1..Len(q) : q[i].kind = "rect" =>
       /\ i + 1 <= Len(q)
       /\ q[i + 1].kind = "pixels" /\ q[i + 1].value = frame[q[i].value]

Names(q, t) == \E i \in 1..Len(q) : q[i].kind = "rect" /\ q[i].value = t

\* What Capture puts together is well-formed, and names every tile of the set.
LEMMA UpdateShape ==
    ASSUME NEW new \in Frame, NEW R \in SUBSET Tile
    PROVE  /\ UpdateOf(new, R) \in Seq(DownMsg)
           /\ Paired(UpdateOf(new, R), new)
           /\ \A t \in R : Names(UpdateOf(new, R), t)
  <1> DEFINE k == Cardinality(R)
             seq == CHOOSE s \in [1..k -> R] : \A i, j \in 1..k : i < j => s[i] < s[j]
             msg(n) == LET t == seq[(n + 1) \div 2] IN
                       IF n % 2 = 1 THEN [kind |-> "rect", value |-> t]
                                    ELSE [kind |-> "pixels", value |-> new[t]]
             head == [kind |-> "update", value |-> k]
             body == [n \in 1..2 * k |-> msg(n)]
             u == <<head>> \o body
  <1>1. k \in 0..N
    <2>1. Cardinality(Tile) = N /\ IsFiniteSet(Tile)
      BY FrameAssumption, FS_Interval DEF Tile
    <2>2. k <= N
      BY <2>1, FS_Subset
    <2> QED
      BY <2>2, TilesFinite, FrameAssumption
  <1>2. seq \in Increasing(R)
    BY Enumerates DEF Increasing
  <1>3. \A i \in 1..k : seq[i] \in Tile
    BY <1>2 DEF Increasing
  <1>4. \A t \in R : \E i \in 1..k : seq[i] = t
    BY <1>2, NamesAll
  <1>5. UpdateOf(new, R) = u
    BY DEF UpdateOf
  <1> HIDE DEF seq, k
  <1>6. \A n \in 1..2 * k : (n + 1) \div 2 \in 1..k
    BY <1>1
  <1>7. \A n \in 1..2 * k : msg(n) \in DownMsg
    <2> SUFFICES ASSUME NEW n \in 1..2 * k PROVE msg(n) \in DownMsg
      OBVIOUS
    <2>1. seq[(n + 1) \div 2] \in Tile
      BY <1>3, <1>6
    <2> QED
      BY <2>1 DEF DownMsg, Frame
  <1>8. head \in DownMsg
    BY <1>1 DEF DownMsg
  <1>9. body \in Seq(DownMsg) /\ Len(body) = 2 * k /\ \A n \in 1..2 * k : body[n] = msg(n)
    BY <1>1, <1>7
  <1> HIDE DEF body, head
  <1>10. /\ u \in Seq(DownMsg) /\ Len(u) = 1 + 2 * k /\ u[1] = head
         /\ \A n \in 1..2 * k : u[n + 1] = body[n]
    BY <1>1, <1>8, <1>9
  <1> HIDE DEF u
  <1>11. Paired(u, new)
    <2> SUFFICES ASSUME NEW i \in 1..Len(u), u[i].kind = "rect"
                 PROVE  /\ i + 1 <= Len(u) /\ u[i + 1].kind = "pixels"
                        /\ u[i + 1].value = new[u[i].value]
      BY DEF Paired
    <2>1. i # 1
      BY <1>10 DEF head
    <2> DEFINE n == i - 1
    <2>2. n \in 1..2 * k /\ i = n + 1
      BY <1>1, <1>10, <2>1
    <2> HIDE DEF n
    <2>3. u[i] = msg(n)
      BY <1>9, <1>10, <2>2
    <2>4. n % 2 = 1
      BY <2>3
    <2>5. n + 1 \in 1..2 * k /\ (n + 1) % 2 # 1 /\ (n + 2) \div 2 = (n + 1) \div 2
      BY <1>1, <2>2, <2>4
    <2>6. u[i + 1] = msg(n + 1)
      BY <1>9, <1>10, <2>2, <2>5
    <2>7. (n + 1) + 1 = n + 2
      BY <2>2
    <2>8. u[i + 1] = [kind |-> "pixels", value |-> new[seq[(n + 1) \div 2]]]
      BY <2>5, <2>6, <2>7
    <2>9. u[i].value = seq[(n + 1) \div 2]
      BY <2>3, <2>4
    <2> QED
      BY <1>1, <1>10, <2>2, <2>5, <2>8, <2>9
  <1>12. ASSUME NEW t \in R PROVE Names(u, t)
    <2>1. PICK j \in 1..k : seq[j] = t
      BY <1>4
    <2> DEFINE n == 2 * j - 1
    <2>2. n \in 1..2 * k /\ n % 2 = 1 /\ (n + 1) \div 2 = j
      BY <1>1
    <2> HIDE DEF n
    <2>3. u[n + 1] = [kind |-> "rect", value |-> t]
      BY <1>9, <1>10, <2>1, <2>2
    <2>4. n + 1 \in 1..Len(u)
      BY <1>1, <1>10, <2>2
    <2> QED
      BY <2>3, <2>4 DEF Names
  <1> QED
    BY <1>5, <1>10, <1>11, <1>12

\* Types, and that Run only reads a rectangle while one is left.
TypeInv == TypeOK /\ (cpc \in {"rect", "lock", "pixels"} => left > 0)

LEMMA TypeInit == Init => TypeInv
  <1> SUFFICES ASSUME Init PROVE TypeInv
    OBVIOUS
  <1>1. Blank \in Frame
    BY DEF Blank, Frame
  <1>2. 1 \in Tile /\ 0 \in 0..N /\ 0 <= Room /\ 0 \in 0..MaxChanges
    BY FrameAssumption DEF Tile
  <1>3. /\ up \in Seq(UpMsg) /\ Len(up) = 0
        /\ down \in Seq(DownMsg) /\ Len(down) = 0 /\ todo \in Seq(DownMsg)
    BY DEF Init
  <1> QED
    BY <1>1, <1>2, <1>3 DEF Init, TypeInv, TypeOK

\* The tunnel takes no more than there is room for.
LEMMA TypeWrite ==
    ASSUME TypeInv, NEW m \in UpMsg, Write(m)
    PROVE  up' \in Seq(UpMsg) /\ Len(up') <= Room
  <1>1. up \in Seq(UpMsg) /\ Len(up) <= Room /\ Room \in Nat
    BY FrameAssumption DEF TypeInv, TypeOK
  <1>2. CASE Len(up) < Room /\ up' = Append(up, m)
    BY <1>1, <1>2
  <1>3. CASE up' = up
    BY <1>1, <1>3
  <1> QED
    BY <1>2, <1>3 DEF Write

LEMMA TypeReceive ==
    ASSUME TypeInv, NEW k, Receive(k)
    PROVE  /\ down' \in Seq(DownMsg) /\ Len(down') <= Room
           /\ Head(down) \in DownMsg /\ Head(down).kind = k
  BY FrameAssumption DEF TypeInv, TypeOK, Receive

\* Every step of the host's session, of Run and of the window keeps the types.
LEMMA TypeStep == TypeInv /\ [Next]_vars => TypeInv'
  <1> SUFFICES ASSUME TypeInv, [Next]_vars PROVE TypeInv'
    OBVIOUS
  <1> USE DEF TypeInv, TypeOK
  <1>1. CASE \E t \in Tile : Change(t)
    BY <1>1, FrameAssumption DEF Change, serverVars, clientVars, uiVars, Frame
  <1>2. CASE Break
    <2>1. PICK n \in 0..Len(up), m \in 0..Len(down) :
             up' = SubSeq(up, 1, n) /\ down' = SubSeq(down, 1, m)
      BY <1>2 DEF Break
    <2>2. up' \in Seq(UpMsg) /\ Len(up') <= Room
      BY <2>1, FrameAssumption
    <2>3. down' \in Seq(DownMsg) /\ Len(down') <= Room
      BY <2>1, FrameAssumption
    <2> QED
      BY <1>2, <2>2, <2>3 DEF Break, serverVars, clientVars, uiVars
  <1>3. CASE ReadPointer \/ ReadRequest
    <2>1. up \in Seq(UpMsg) /\ up # <<>> /\ up' = Tail(up) /\ Len(up) <= Room
      BY <1>3 DEF ReadPointer, ReadRequest
    <2>2. up' \in Seq(UpMsg) /\ Len(up') <= Room
      BY <2>1, FrameAssumption
    <2> QED
      BY <1>3, <2>2 DEF ReadPointer, ReadRequest, serverVars, clientVars, uiVars
  <1>4. CASE Capture
    <2>1. todo' \in Seq(DownMsg)
      BY <1>4, UpdateShape DEF Capture, Rects
    <2> QED
      BY <1>4, <2>1 DEF Capture, clientVars, uiVars
  <1>5. CASE Send
    <2>1. /\ down' \in Seq(DownMsg) /\ Len(down') <= Room
          /\ todo' \in Seq(DownMsg)
      BY <1>5, FrameAssumption DEF Send
    <2> QED
      BY <1>5, <2>1 DEF Send, clientVars, uiVars
  <1>6. CASE Finish
    BY <1>6 DEF Finish, Sent, clientVars, uiVars
  <1>7. CASE ServeEnds
    BY <1>7 DEF ServeEnds, clientVars, uiVars
  <1>8. CASE ReadUpdate
    <2>1. Head(down) \in DownMsg /\ Head(down).kind = "update"
      BY <1>8, TypeReceive DEF ReadUpdate
    <2>2. left' \in 0..N
      BY <1>8, <2>1 DEF ReadUpdate, DownMsg
    <2> QED
      BY <1>8, <2>2, TypeReceive, FrameAssumption
         DEF ReadUpdate, AfterRect, serverVars, uiVars
  <1>9. CASE ReadRectangle
    <2>1. Head(down) \in DownMsg /\ Head(down).kind = "rect"
      BY <1>9, TypeReceive DEF ReadRectangle
    <2>2. tile' \in Tile
      BY <1>9, <2>1 DEF ReadRectangle, DownMsg
    <2> QED
      BY <1>9, <2>2, TypeReceive DEF ReadRectangle, serverVars, uiVars
  <1>10. CASE LockFb \/ MarkDirty \/ LockRequest \/ RunEnds
    BY <1>10 DEF LockFb, MarkDirty, LockRequest, RunEnds, serverVars, clientVars, uiVars
  <1>11. CASE DecodeRaw
    <2>1. Head(down) \in DownMsg /\ Head(down).kind = "pixels"
      BY <1>11, TypeReceive DEF DecodeRaw
    <2>2. fb' \in Frame
      BY <1>11, <2>1 DEF DecodeRaw, DownMsg, Frame
    <2>3. left' \in 0..N /\ left' = left - 1
      BY <1>11, FrameAssumption DEF DecodeRaw
    <2> QED
      BY <1>11, <2>2, <2>3, TypeReceive, FrameAssumption
         DEF DecodeRaw, AfterRect, serverVars, uiVars
  <1>12. CASE RequestUpdate
    <2>1. up' \in Seq(UpMsg) /\ Len(up') <= Room
      BY <1>12, TypeWrite DEF RequestUpdate, UpMsg
    <2> QED
      BY <1>12, <2>1 DEF RequestUpdate, serverVars, uiVars
  <1>13. CASE FirstRequest \/ SendPointer
    <2>1. up' \in Seq(UpMsg) /\ Len(up') <= Room
      BY <1>13, TypeWrite DEF FirstRequest, SendPointer, UpMsg
    <2> QED
      BY <1>13, <2>1 DEF FirstRequest, SendPointer, AfterFirst, serverVars, clientVars
  <1>14. CASE LockPointer \/ Draw \/ Copy
    BY <1>14 DEF LockPointer, Draw, Copy, serverVars, clientVars
  <1>15. CASE UNCHANGED vars
    BY <1>15 DEF vars, serverVars, clientVars, uiVars
  <1> QED
    BY <1>1, <1>2, <1>3, <1>4, <1>5, <1>6, <1>7, <1>8, <1>9, <1>10, <1>11, <1>12,
       <1>13, <1>14, <1>15 DEF Next, Serve, Run, Decode, UI

\* Every variable keeps its type, for any number of tiles and any room.
THEOREM FrameSyncTypes == Spec => []TypeOK
  <1>1. TypeInv => TypeOK
    BY DEF TypeInv
  <1> QED
    BY <1>1, TypeInit, TypeStep, PTL DEF Spec
-----------------------------------------------------------------------------
(* The client has what the server believes it has *)

Decoding == cpc \in {"lock", "pixels"}

\* While the tunnel stands, every rectangle on its way is followed by its
\* pixels, and so is the one that Run has just read; and a tile is right, or
\* its rectangle is on its way or being decoded.
SyncInv ==
    ~broken =>
       /\ Paired(OnTheWay, Base)
       /\ Decoding => /\ Len(OnTheWay) > 0
                      /\ OnTheWay[1].kind = "pixels" /\ OnTheWay[1].value = Base[tile]
       /\ Base # None => \A t \in Tile : \/ fb[t] = Base[t]
                                         \/ Names(OnTheWay, t)
                                         \/ Decoding /\ t = tile

LEMMA SyncInit == Init => SyncInv
  BY DEF Init, SyncInv, Paired, OnTheWay, Base, Decoding

\* Steps after which nothing else is on its way, and none of it is read.
LEMMA SyncStill ==
    ASSUME SyncInv, UNCHANGED <<OnTheWay, Base, tile, fb, broken>>, Decoding' = Decoding
    PROVE  SyncInv'
  BY DEF SyncInv, Paired, Names

\* An update makes up for the difference from the frame before.
LEMMA SyncCapture == OutInv /\ TypeInv /\ SyncInv /\ Capture => SyncInv'
  <1> SUFFICES ASSUME OutInv, TypeInv, SyncInv, Capture, ~broken' PROVE SyncInv'
    BY DEF SyncInv
  <1>1. down = <<>> /\ todo = <<>> /\ ~Decoding /\ ~Decoding'
    BY DEF Capture, OutInv, Bounded, TypeInv, TypeOK, Decoding, clientVars
  <1>2. OnTheWay = <<>> /\ OnTheWay' = todo'
    <2>1. todo' \in Seq(DownMsg) /\ down' = <<>>
      BY <1>1, UpdateShape DEF Capture, Rects, TypeInv, TypeOK
    <2> QED
      BY <1>1, <2>1 DEF OnTheWay
  <1>3. Base = prev /\ Base' = screen /\ fb' = fb /\ ~broken
    BY DEF Capture, Base, clientVars
  <1>4. Rects(screen) \in SUBSET Tile /\ screen \in Frame
    BY DEF Rects, TypeInv, TypeOK
  <1>5. Paired(todo', screen) /\ \A t \in Rects(screen) : Names(todo', t)
    BY <1>4, UpdateShape DEF Capture
  <1>6. \A t \in Tile \ Rects(screen) : fb[t] = screen[t]
    BY <1>1, <1>2, <1>3 DEF Rects, SyncInv, Names
  <1>7. Paired(OnTheWay', Base')
    BY <1>2, <1>3, <1>5
  <1>8. \A t \in Tile : fb'[t] = Base'[t] \/ Names(OnTheWay', t)
    BY <1>2, <1>3, <1>5, <1>6
  <1> QED
    BY <1>1, <1>7, <1>8 DEF SyncInv, Paired, Names

\* A message that is written is on its way as before.
LEMMA SyncSend == TypeInv /\ SyncInv /\ Send => SyncInv'
  <1> SUFFICES ASSUME TypeInv, SyncInv, Send PROVE SyncInv'
    OBVIOUS
  <1>1. down \in Seq(DownMsg) /\ todo \in Seq(DownMsg) /\ todo # <<>>
    BY DEF TypeInv, TypeOK, Send
  <1>2. Append(down, Head(todo)) \o Tail(todo) = down \o todo
    BY <1>1
  <1> QED
    BY <1>2, SyncStill DEF Send, OnTheWay, Base, Decoding, clientVars

\* Run takes the first of what is on its way.
LEMMA Taken ==
    ASSUME TypeInv, down # <<>>, down' = Tail(down), UNCHANGED todo
    PROVE  /\ Len(OnTheWay) \in Nat \ {0} /\ OnTheWay[1] = Head(down)
           /\ Len(OnTheWay') = Len(OnTheWay) - 1
           /\ \A i \in 1..Len(OnTheWay') : OnTheWay'[i] = OnTheWay[i + 1]
  <1>1. down \in Seq(DownMsg) /\ todo \in Seq(DownMsg)
    BY DEF TypeInv, TypeOK
  <1> QED
    BY <1>1 DEF OnTheWay

LEMMA PairedTail ==
    ASSUME TypeInv, down # <<>>, down' = Tail(down), UNCHANGED todo,
           NEW frame, Paired(OnTheWay, frame)
    PROVE  /\ Paired(OnTheWay', frame)
           /\ \A t : Names(OnTheWay, t) =>
                 Names(OnTheWay', t) \/ (Head(down).kind = "rect" /\ Head(down).value = t)
  <1>1. /\ Len(OnTheWay) \in Nat \ {0} /\ OnTheWay[1] = Head(down)
        /\ Len(OnTheWay') = Len(OnTheWay) - 1
        /\ \A i \in 1..Len(OnTheWay') : OnTheWay'[i] = OnTheWay[i + 1]
    BY Taken
  <1>2. \A i \in 1..Len(OnTheWay) : i = 1 \/ i - 1 \in 1..Len(OnTheWay')
    BY <1>1
  <1>3. Paired(OnTheWay', frame)
    BY <1>1 DEF Paired
  <1>4. ASSUME NEW t, Names(OnTheWay, t)
        PROVE  Names(OnTheWay', t) \/ (Head(down).kind = "rect" /\ Head(down).value = t)
    <2>1. PICK i \in 1..Len(OnTheWay) : OnTheWay[i].kind = "rect" /\ OnTheWay[i].value = t
      BY <1>4 DEF Names
    <2>2. CASE i = 1
      BY <1>1, <2>1, <2>2
    <2>3. CASE i - 1 \in 1..Len(OnTheWay')
      <3>1. OnTheWay'[i - 1] = OnTheWay[i]
        BY <1>1, <2>3
      <3>2. Names(OnTheWay', t)
        BY <2>1, <2>3, <3>1 DEF Names
      <3> QED
        BY <3>2
    <2> QED
      BY <1>2, <2>2, <2>3
  <1> QED
    BY <1>3, <1>4

LEMMA SyncReadUpdate == TypeInv /\ SyncInv /\ ReadUpdate => SyncInv'
  <1> SUFFICES ASSUME TypeInv, SyncInv, ReadUpdate, ~broken' PROVE SyncInv'
    BY DEF SyncInv
  <1>1. /\ down # <<>> /\ down' = Tail(down) /\ Head(down).kind = "update"
        /\ UNCHANGED <<todo, fb, Base>> /\ ~broken /\ ~Decoding /\ ~Decoding'
    BY DEF ReadUpdate, Receive, AfterRect, Base, Decoding, serverVars
  <1>2. Paired(OnTheWay, Base)
    BY <1>1 DEF SyncInv
  <1>3. Paired(OnTheWay', Base)
    BY <1>1, <1>2, PairedTail
  <1>4. \A t : Names(OnTheWay, t) => Names(OnTheWay', t)
    BY <1>1, <1>2, PairedTail
  <1> QED
    BY <1>1, <1>3, <1>4 DEF SyncInv, Paired, Names

LEMMA SyncReadRectangle == TypeInv /\ SyncInv /\ ReadRectangle => SyncInv'
  <1> SUFFICES ASSUME TypeInv, SyncInv, ReadRectangle, ~broken' PROVE SyncInv'
    BY DEF SyncInv
  <1>1. /\ down # <<>> /\ down' = Tail(down) /\ Head(down).kind = "rect"
        /\ tile' = Head(down).value
        /\ UNCHANGED <<todo, fb, Base>> /\ ~broken /\ ~Decoding /\ Decoding'
    BY DEF ReadRectangle, Receive, Base, Decoding, serverVars
  <1>2. Paired(OnTheWay, Base)
    BY <1>1 DEF SyncInv
  <1>3. Paired(OnTheWay', Base)
    BY <1>1, <1>2, PairedTail
  <1>4. \A t : Names(OnTheWay, t) => Names(OnTheWay', t) \/ t = tile'
    BY <1>1, <1>2, PairedTail
  <1>5. /\ Len(OnTheWay') > 0
        /\ OnTheWay'[1].kind = "pixels" /\ OnTheWay'[1].value = Base[tile']
    <2>1. /\ Len(OnTheWay) \in Nat \ {0} /\ OnTheWay[1] = Head(down)
          /\ Len(OnTheWay') = Len(OnTheWay) - 1
          /\ \A i \in 1..Len(OnTheWay') : OnTheWay'[i] = OnTheWay[i + 1]
      BY <1>1, Taken
    <2>2. /\ 2 <= Len(OnTheWay) /\ OnTheWay[2].kind = "pixels"
          /\ OnTheWay[2].value = Base[tile']
      BY <1>1, <1>2, <2>1 DEF Paired
    <2> QED
      BY <2>1, <2>2
  <1>6. Base' # None => \A t \in Tile : fb'[t] = Base'[t] \/ Names(OnTheWay', t) \/ t = tile'
    BY <1>1, <1>4 DEF SyncInv
  <1>7. Base' = Base
    BY <1>1
  <1> QED
    BY <1>1, <1>3, <1>5, <1>6, <1>7 DEF SyncInv

\* The pixels that Run takes are those of the rectangle it is at.
LEMMA SyncDecodeRaw == TypeInv /\ SyncInv /\ DecodeRaw => SyncInv'
  <1> SUFFICES ASSUME TypeInv, SyncInv, DecodeRaw, ~broken' PROVE SyncInv'
    BY DEF SyncInv
  <1>1. /\ down # <<>> /\ down' = Tail(down) /\ Head(down).kind = "pixels"
        /\ fb' = [fb EXCEPT ![tile] = Head(down).value]
        /\ UNCHANGED <<todo, Base, tile>> /\ ~broken /\ Decoding /\ ~Decoding'
    BY DEF DecodeRaw, Receive, AfterRect, Base, Decoding, serverVars
  <1>2. Paired(OnTheWay, Base)
    BY <1>1 DEF SyncInv
  <1>3. Paired(OnTheWay', Base)
    BY <1>1, <1>2, PairedTail
  <1>4. \A t : Names(OnTheWay, t) => Names(OnTheWay', t)
    BY <1>1, <1>2, PairedTail
  <1>5. OnTheWay[1] = Head(down)
    BY <1>1, Taken
  <1>6. Head(down).value = Base[tile]
    BY <1>1, <1>5 DEF SyncInv
  <1>7. fb \in Frame /\ tile \in Tile
    BY DEF TypeInv, TypeOK
  <1>8. fb'[tile] = Base[tile] /\ \A t \in Tile : t # tile => fb'[t] = fb[t]
    BY <1>1, <1>6, <1>7 DEF Frame
  <1>9. Base' = Base
    BY <1>1
  <1>10. Base # None => \A t \in Tile : fb'[t] = Base[t] \/ Names(OnTheWay', t)
    BY <1>1, <1>4, <1>8 DEF SyncInv
  <1> QED
    BY <1>1, <1>3, <1>9, <1>10 DEF SyncInv

LEMMA SyncStep == OutInv /\ TypeInv /\ SyncInv /\ [Next]_vars => SyncInv'
  <1> SUFFICES ASSUME OutInv, TypeInv, SyncInv, [Next]_vars PROVE SyncInv'
    OBVIOUS
  <1>1. CASE ReadPointer \/ ReadRequest
    BY <1>1, SyncStill DEF ReadPointer, ReadRequest, OnTheWay, Base, Decoding,
                           serverVars, clientVars
  <1>2. CASE Finish
    BY <1>2, SyncStill DEF Finish, Sent, OnTheWay, Base, Decoding, clientVars
  <1>3. CASE ServeEnds \/ Break \/ RunEnds
    BY <1>3 DEF ServeEnds, Break, RunEnds, SyncInv
  <1>4. CASE LockFb \/ MarkDirty \/ LockRequest \/ RequestUpdate
    BY <1>4, SyncStill DEF LockFb, MarkDirty, LockRequest, RequestUpdate, OnTheWay, Base,
                           Decoding, serverVars
  <1>5. CASE UI \/ (\E t \in Tile : Change(t)) \/ UNCHANGED vars
    BY <1>5, SyncStill DEF UI, FirstRequest, LockPointer, SendPointer, Draw, Copy, Change,
                           vars, OnTheWay, Base, Decoding, serverVars, clientVars
  <1> QED
    BY <1>1, <1>2, <1>3, <1>4, <1>5, SyncCapture, SyncSend, SyncReadUpdate,
       SyncReadRectangle, SyncDecodeRaw DEF Next, Serve, Run, Decode

LEMMA SyncMeans == TypeInv /\ SyncInv => InSync
  <1> SUFFICES ASSUME TypeInv, SyncInv, ~broken, Base # None,
                      NEW t \in Tile \ InFlight
               PROVE  fb[t] = Base[t]
    BY DEF InSync, Base
  <1>1. OnTheWay \in Seq(DownMsg)
    BY DEF TypeInv, TypeOK, OnTheWay
  <1>2. ~Names(OnTheWay, t)
    BY <1>1 DEF Names, InFlight, OnTheWay
  <1>3. ~(Decoding /\ t = tile)
    BY DEF InFlight, Decoding
  <1> QED
    BY <1>2, <1>3 DEF SyncInv

\* While the tunnel stands, a tile of the client's framebuffer that differs from
\* the frame the server compares against is on its way: no tile stays wrong
\* until it happens to change again. For screens of any size, any room in the
\* tunnel and any number of changes.
THEOREM InSyncTheorem == Spec => []InSync
  <1>1. Spec => []OutInv
    BY OutInit, OutStep, PTL DEF Spec
  <1>2. Spec => []TypeInv
    BY TypeInit, TypeStep, PTL DEF Spec
  <1> QED
    BY <1>1, <1>2, SyncInit, SyncStep, SyncMeans, PTL DEF Spec
=============================================================================
