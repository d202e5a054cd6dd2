------------------------------- MODULE FrameSync -------------------------------
(***************************************************************************)
(* One screen on its way to one window: the RFB session on the host        *)
(* (session.loop, internal/rfb/server.go), the goroutine of Client.Run     *)
(* (internal/rfbclient) and the UI thread of the viewer (cmd/viewer), with *)
(* the tunnel between them, which takes a bounded number of messages in    *)
(* each direction and then blocks the writer.  A frame is divided into     *)
(* tiles, and a rectangle is one tile: see DirtyRects for the rectangles.  *)
(***************************************************************************)
EXTENDS Integers, Sequences, FiniteSets

CONSTANTS
    N,               \* tiles of the screen
    Room,            \* messages each direction of the tunnel takes
    MaxChanges,      \* bound: changes of the screen
    None

ASSUME FrameAssumption ==
    /\ N \in Nat \ {0} /\ Room \in Nat \ {0} /\ MaxChanges \in Nat
    /\ None \notin [1..N -> {0, 1}] \cup {"run", "ui"}

VARIABLES
    screen, changes, \* what the host's display shows
    up, down,        \* the tunnel, to the host and to the viewer
    broken,          \* the tunnel is gone, or one side has closed it
    spc,             \* session.loop: "read", "capture", "send"
    incremental,     \* the request it serves
    img, prev,       \* the frame it captured, the last it sent (None: none yet)
    todo,            \* messages of this update not written yet
    cpc,             \* Client.Run
    left, tile,      \* rectangles still to come, the one being decoded
    fb,              \* Client.fb
    dirty,           \* game.dirty
    uipc,            \* the UI thread
    writeMu,         \* Client.writeMu: who holds it
    shown            \* game.frame: what the window shows

serverVars == <<spc, incremental, img, prev, todo>>
clientVars == <<cpc, left, tile, fb>>
uiVars == <<uipc, shown>>
vars == <<screen, changes, up, down, broken, serverVars, clientVars, dirty, uiVars, writeMu>>

Tile == 1..N
Frame == [Tile -> {0, 1}]
Blank == [t \in Tile |-> 0]

UpMsg == {"full", "incremental", "pointer"}
DownMsg == [kind : {"update"}, value : 0..N]
              \cup [kind : {"rect"}, value : Tile]
              \cup [kind : {"pixels"}, value : {0, 1}]

TypeOK ==
    /\ screen \in Frame /\ changes \in 0..MaxChanges /\ broken \in BOOLEAN
    /\ up \in Seq(UpMsg) /\ Len(up) <= Room
    /\ down \in Seq(DownMsg) /\ Len(down) <= Room
    /\ spc \in {"read", "capture", "send", "ended"}
    /\ incremental \in BOOLEAN
    /\ img \in Frame /\ prev \in Frame \cup {None}
    /\ todo \in Seq(DownMsg)
    /\ cpc \in {"read", "rect", "lock", "pixels", "mark", "request", "write", "ended"}
    /\ left \in 0..N /\ tile \in Tile
    /\ fb \in Frame /\ shown \in Frame
    /\ dirty \in BOOLEAN
    /\ uipc \in {"first", "update", "write", "draw", "copy"}
    /\ writeMu \in {None, "run", "ui"}

Init ==
    /\ screen \in Frame /\ changes = 0
    /\ up = <<>> /\ down = <<>> /\ broken = FALSE
    /\ spc = "read" /\ incremental = FALSE
    /\ img = Blank /\ prev = None
    /\ todo = <<>>
    /\ cpc = "read" /\ left = 0 /\ tile = 1
    /\ fb = Blank /\ dirty = FALSE
    /\ uipc = "first" /\ shown = Blank
    /\ writeMu = None

\* Something on the host's display changes.
Change(t) ==
    /\ changes < MaxChanges
    /\ changes' = changes + 1
    /\ screen' = [screen EXCEPT ![t] = 1 - @]
    /\ UNCHANGED <<up, down, broken, serverVars, clientVars, dirty, uiVars, writeMu>>

\* Some of what is on its way still arrives.
Break ==
    /\ ~broken /\ broken' = TRUE
    /\ \E n \in 0..Len(up), m \in 0..Len(down) :
          up' = SubSeq(up, 1, n) /\ down' = SubSeq(down, 1, m)
    /\ UNCHANGED <<screen, changes, serverVars, clientVars, dirty, uiVars, writeMu>>

-----------------------------------------------------------------------------
(* session.loop *)

ReadPointer ==
    /\ spc = "read"
    /\ up # <<>> /\ Head(up) = "pointer"
    /\ up' = Tail(up)
    /\ UNCHANGED <<screen, changes, broken, down, serverVars, clientVars, dirty, uiVars,
                   writeMu>>

\* An incremental request may have to wait for its turn, see MaxFPS.
ReadRequest ==
    /\ spc = "read"
    /\ up # <<>> /\ Head(up) # "pointer"
    /\ incremental' = (Head(up) = "incremental")
    /\ up' = Tail(up)
    /\ spc' = "capture"
    /\ UNCHANGED <<screen, changes, broken, down, img, prev, todo, clientVars, dirty,
                   uiVars, writeMu>>

\* The rectangles of an update: all, or what differs from the frame before.
Rects(new) ==
    IF ~incremental \/ prev = None THEN Tile
    ELSE {t \in Tile : prev[t] # new[t]}

\* The update as it is written: the count, then place and pixels of each.
UpdateOf(new, rects) ==
    LET k == Cardinality(rects)
        seq == CHOOSE s \in [1..k -> rects] : \A i, j \in 1..k : i < j => s[i] < s[j]
        msg(n) == LET t == seq[(n + 1) \div 2] IN
                  IF n % 2 = 1 THEN [kind |-> "rect", value |-> t]
                               ELSE [kind |-> "pixels", value |-> new[t]]
    IN <<[kind |-> "update", value |-> k]>>
          \o [n \in 1..2 * k |-> msg(n)]

Capture ==
    /\ spc = "capture"
    /\ img' = screen
    /\ todo' = UpdateOf(screen, Rects(screen))
    /\ spc' = "send"
    /\ UNCHANGED <<screen, changes, broken, up, down, incremental, prev, clientVars,
                   dirty, uiVars, writeMu>>

Send ==
    /\ spc = "send" /\ todo # <<>>
    /\ Len(down) < Room /\ ~broken
    /\ down' = Append(down, Head(todo))
    /\ todo' = Tail(todo)
    /\ UNCHANGED <<screen, changes, broken, up, spc, incremental, img, prev, clientVars,
                   dirty, uiVars, writeMu>>

\* Mutant of Sent: the frame kept is not the one that was sent.
Recaptured == screen

Sent == img

\* Everything is written, and flushed.
Finish ==
    /\ spc = "send" /\ todo = <<>>
    /\ prev' = Sent
    /\ spc' = "read"
    /\ UNCHANGED <<screen, changes, broken, up, down, incremental, img, todo, clientVars,
                   dirty, uiVars, writeMu>>

\* A read finds the end, a write or the capture fails: Serve closes its end.
ServeEnds ==
    /\ \/ spc = "read" /\ up = <<>> /\ broken
       \/ spc = "send" /\ broken
       \/ spc = "capture"
    /\ spc' = "ended" /\ broken' = TRUE /\ todo' = <<>>
    /\ UNCHANGED <<screen, changes, up, down, incremental, img, prev, clientVars,
                   dirty, uiVars, writeMu>>

Serve == ReadPointer \/ ReadRequest \/ Capture \/ Send \/ Finish

-----------------------------------------------------------------------------
\* Client.write, which waits for room. Nobody looks at the error it returns.
Write(msg) ==
    \/ ~broken /\ Len(up) < Room /\ up' = Append(up, msg)
    \/ broken /\ UNCHANGED up

(* Client.Run *)

Receive(kind) ==
    /\ down # <<>> /\ Head(down).kind = kind
    /\ down' = Tail(down)

\* Mutant of AfterRect: the read returns before it calls OnUpdate.
Unannounced(n) == IF n = 0 THEN "request" ELSE "rect"

AfterRect(n) == IF n = 0 THEN "mark" ELSE "rect"

ReadUpdate ==
    /\ cpc = "read"
    /\ Receive("update")
    /\ left' = Head(down).value
    /\ cpc' = AfterRect(left')
    /\ UNCHANGED <<screen, changes, broken, up, serverVars, tile, fb, dirty, uiVars,
                   writeMu>>

ReadRectangle ==
    /\ cpc = "rect"
    /\ Receive("rect")
    /\ tile' = Head(down).value
    /\ cpc' = "lock"
    /\ UNCHANGED <<screen, changes, broken, up, serverVars, left, fb, dirty, uiVars,
                   writeMu>>

\* decodeRaw takes fbMu before it waits for the pixels.
LockFb ==
    /\ cpc = "lock"
    /\ cpc' = "pixels"
    /\ UNCHANGED <<screen, changes, broken, up, down, serverVars, left, tile, fb, dirty,
                   uiVars, writeMu>>

DecodeRaw ==
    /\ cpc = "pixels"
    /\ Receive("pixels")
    /\ fb' = [fb EXCEPT ![tile] = Head(down).value]
    /\ left' = left - 1
    /\ cpc' = AfterRect(left')
    /\ UNCHANGED <<screen, changes, broken, up, serverVars, tile, dirty, uiVars, writeMu>>

\* OnUpdate: mark the frame, then ask for the next update.
MarkDirty ==
    /\ cpc = "mark"
    /\ dirty' = TRUE
    /\ cpc' = "request"
    /\ UNCHANGED <<screen, changes, broken, up, down, serverVars, left, tile, fb, uiVars,
                   writeMu>>

LockRequest ==
    /\ cpc = "request"
    /\ writeMu = None
    /\ writeMu' = "run"
    /\ cpc' = "write"
    /\ UNCHANGED <<screen, changes, broken, up, down, serverVars, left, tile, fb, dirty,
                   uiVars>>

RequestUpdate ==
    /\ cpc = "write"
    /\ Write("incremental")
    /\ writeMu' = None
    /\ cpc' = "read"
    /\ UNCHANGED <<screen, changes, broken, down, serverVars, left, tile, fb, dirty,
                   uiVars>>

\* Mutant of RunEnds: decodeRaw fails without unlocking fbMu.
EndsLocked ==
    /\ broken /\ down = <<>> /\ cpc \in {"read", "rect"}
    /\ cpc' = "ended"
    /\ UNCHANGED <<screen, changes, broken, up, down, serverVars, left, tile, fb,
                   dirty, uiVars, writeMu>>

\* A read fails, and Run returns; decodeRaw has unlocked fbMu by then. Nobody
\* tells the window.
RunEnds ==
    /\ broken /\ down = <<>> /\ cpc \in {"read", "rect", "pixels"}
    /\ cpc' = "ended"
    /\ UNCHANGED <<screen, changes, broken, up, down, serverVars, left, tile, fb,
                   dirty, uiVars, writeMu>>

Decode ==
    \/ ReadUpdate \/ ReadRectangle \/ LockFb \/ DecodeRaw \/ MarkDirty \/ RunEnds
Run == Decode \/ LockRequest \/ RequestUpdate

-----------------------------------------------------------------------------
(* The UI thread *)

\* Mutant of AfterFirst: the first request is repeated.
FirstAgain == "first"

AfterFirst == "update"

\* newGame asks for the first frame.
FirstRequest ==
    /\ uipc = "first"
    /\ writeMu = None /\ Write("full")
    /\ uipc' = AfterFirst
    /\ UNCHANGED <<screen, changes, broken, down, serverVars, clientVars, dirty, shown,
                   writeMu>>

\* game.Update: SendPointer, every time; SendKey is one more of the same.
LockPointer ==
    /\ uipc = "update"
    /\ writeMu = None
    /\ writeMu' = "ui"
    /\ uipc' = "write"
    /\ UNCHANGED <<screen, changes, broken, up, down, serverVars, clientVars, dirty, shown>>

SendPointer ==
    /\ uipc = "write"
    /\ Write("pointer")
    /\ writeMu' = None
    /\ uipc' = "draw"
    /\ UNCHANGED <<screen, changes, broken, down, serverVars, clientVars, dirty, shown>>

\* game.Draw: dirty.Swap(false)
Draw ==
    /\ uipc = "draw"
    /\ uipc' = IF dirty THEN "copy" ELSE "update"
    /\ dirty' = FALSE
    /\ UNCHANGED <<screen, changes, broken, up, down, serverVars, clientVars, shown,
                   writeMu>>

\* client.Image waits for fbMu, which decodeRaw may hold.
Copy ==
    /\ uipc = "copy"
    /\ cpc # "pixels"
    /\ shown' = fb
    /\ uipc' = "update"
    /\ UNCHANGED <<screen, changes, broken, up, down, serverVars, clientVars, dirty, writeMu>>

UI == FirstRequest \/ LockPointer \/ SendPointer \/ Draw \/ Copy

-----------------------------------------------------------------------------
Next == Serve \/ ServeEnds \/ Run \/ UI \/ Break \/ \E t \in Tile : Change(t)

Spec == Init /\ [][Next]_vars

\* Three goroutines that run, and a mutex that does not starve who waits.
\* Nothing obliges the tunnel to break or a capture to fail.
FairSpec ==
    /\ Spec
    /\ WF_vars(Serve) /\ WF_vars(broken /\ ServeEnds)
    /\ WF_vars(Decode \/ RequestUpdate) /\ SF_vars(LockRequest)
    /\ WF_vars(UI) /\ SF_vars(LockPointer)

-----------------------------------------------------------------------------
\* The tiles that are on their way to the client.
InFlight ==
    {(down \o todo)[n].value : n \in {m \in DOMAIN (down \o todo) :
                                         (down \o todo)[m].kind = "rect"}}
       \cup (IF cpc \in {"lock", "pixels"} THEN {tile} ELSE {})

\* The client has what the server believes it has: where the framebuffer
\* differs from the frame the next update is computed against, the pixels are
\* on their way. Otherwise a tile would stay wrong until it changes again.
InSync ==
    LET base == IF spc = "send" THEN img ELSE prev IN
    ~broken /\ base # None => \A t \in Tile \ InFlight : fb[t] = base[t]

\* A frame is never lost between the two threads of the viewer: if the window
\* differs from the framebuffer, somebody is still going to see to it, unless
\* the session ended in the middle of an update.
NoLostFrame ==
    shown # fb => \/ dirty \/ uipc = "copy"
                  \/ cpc \in {"rect", "lock", "pixels", "mark", "ended"}

\* There is one request, or the update that answers it, at a time. So the
\* server only writes while Run reads, and neither blocks on the other.
OneOutstanding ==
    LET requests == Cardinality({n \in DOMAIN up : up[n] # "pointer"})
        busy == spc = "capture" \/ todo \o down # <<>> \/ cpc \notin {"read", "ended"}
    IN requests + (IF busy THEN 1 ELSE 0) <= 1

\* Once the screen rests, the window comes to show it, and keeps showing it,
\* as long as the tunnel stands.
CatchesUp == <>broken \/ <>[](shown = screen)

\* The window never freezes: whatever lock the connection's end finds Run with,
\* and however long sends have been failing, the UI thread comes round again.
WindowResponds == []<>(uipc = "update")
===============================================================================
