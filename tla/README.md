# Verification of remotedesk

TLA+ modules of the remotedesk programs (relay, host agent, viewer), the TLC
configurations that check them on small instances, and proofs for TLAPS of what
matters most. Paths below are those of the repository; a definition's lines are
in `PROJECT.json` under `map`.

```
tlc -workers 2 -config Desk.cfg MCRemoteDesk     # one of the runs below
tlapm RemoteDeskProofs.tla                       # one of the proof modules
```

## 1. The system

| Part | Code | State | Operations | Talks to |
|---|---|---|---|---|
| Relay program | `cmd/relayd/main.go`, `internal/config` | the host key, in memory and in a file | start, serve, stop on a signal; `LoadOrCreateSigner` | the relay |
| Relay, connections | `internal/relay/relay.go` | `Server.sem`, per connection a deadline | accept loop with its retry delay, `handleConn` | peers, over TCP |
| Relay, broker | `internal/relay/relay.go` | `hosts` (ID to `hostReg`), per host `pending`, `failures`, `lockUntil` | `serveControl` (a goroutine per host): register, accept, reject, end; `serveConnect` (a goroutine per viewer): lookup, `authenticate`, `awaitConsent`, bridge, `splice` | host agents and viewers, over SSH channels |
| Host agent | `internal/tunnel/host.go` | one connection and its control channel | `Connect`, `Serve`, `acceptData`, `handleData` | relay; UI by the callback `OnIncoming`; RFB by `Handler` |
| Viewer tunnel | `internal/tunnel/viewer.go`, `common.go` | one connection | `Dial`, `LocalForward`, `splice` | relay |
| Wire | `internal/wire` | none | control messages, channel names | all three |
| Host program | `cmd/host/main.go` | `backoff`, one screen, one `Robot` | `serveWithReconnect`, the RFB handler | all host parts |
| Host UI | `internal/tray` | identity, `pending` prompt, menu | `SetIdentity`, `Confirm`, clicks | called by `Serve`'s goroutine; the tray library calls back |
| RFB server | `internal/rfb` | `prev` frame, pixel format | handshake, message loop, updates, dirty rectangles, pixel encoding | viewer's stream, capture, `Robot` |
| RFB client | `internal/rfbclient` | framebuffer under `fbMu`, writer under `writeMu` | `Connect`, `Run`, senders, `Image` | the stream; the window by `OnUpdate` |
| Viewer window | `cmd/viewer` | `dirty` flag, what is shown, buttons and keys held | `Update`, `Draw` | RFB client |
| Input | `internal/input` | `prevButtons` | `PointerEvent`, `KeyEvent` | the machine |
| Capture, IDs, version | the rest | none | | |

What is hard in it:

* **Relay**: goroutines of hosts and viewers meet in the registry, in `hostReg`
  and in result channels; IDs and session names are random and may be drawn
  again; answers race a timeout; connections vanish without notice.
* **PIN check**: many viewers, one counter, a clock that is read twice.
* **Connections**: a slot per connection that has to come back on every way out;
  peers that say nothing; accept errors; a stop that finds the loop asleep; a
  crash while the key file is being written.
* **Splices**: two goroutines close both of their connections when either ends,
  with data in every buffer of a chain of three.
* **Reconnect loop**: the prompt for consent runs inside the loop that reads the
  control channel, so whatever holds up the user holds up the connection, and
  every request queued behind, for which the relay's clock is running.
* **Tray**: three goroutines, a mutex that is released before the channel is used.
* **Update cycle**: three goroutines, two mutexes and two bounded buffers in a
  circle, cut at any point by a tunnel that breaks; a flag that hands frames from
  one thread to another; a copy of the last frame on the server that has to agree
  with the client's.
* **RFB framing**: nothing on the stream marks where a message begins.
* **Input**: one `Robot` for all sessions, which outlives them; wheel turns as
  buttons, two keys of one name.

`PROJECT.json` lists the 40 hazards with their lines and the properties that
would notice them. Three have a note instead of a property: for two of them the
code promises nothing a property could state, and one needs more requests than
an instance can hold.

## 2. The modules

| Module | Models | Abstracted |
|---|---|---|
| `Wire` | control channels as bounded sequences, connections, data channels; a break may lose what the host sent last | bytes, encryption, JSON: every message is well-formed, see section 6 |
| `Relay` | `serveControl` and `serveConnect`, one action per critical section, channel operation or network write | how IDs, PINs and session names look; logs |
| `HostAgent` | `Connect`, `Serve`, data streams | what is served on the stream |
| `RemoteDesk` | the three above composed; properties and fairness | |
| `MCRemoteDesk` | symmetry sets for TLC | |
| `Consent` | abstract specification: what relay and agents promise | everything in between |
| `PinLockout` | `authenticate` with `attemptMu` and two readings of the clock | |
| `PinGate` | abstract specification of `authenticate`, in the form `Relay` uses | clock, mutex |
| `Relayd` | the relay as a process: key file, start, accept loop, `Server.sem`, `handleConn` with its deadline, shutdown; a crash at any step | what a registered connection does (`Relay`); flags |
| `Splice` | `relay.splice` and `tunnel.splice`, three connections, four copiers, closes in their order, resets of TCP | bytes, counted in chunks |
| `Stream` | abstract specification of `Splice`: one stream each way | everything in between |
| `HostLoop` | `serveWithReconnect`, the `Serve` it calls, the prompt inside it (console or tray), the queue of requests, the two timeouts, lines typed on standard input | what a line says; time in units of 15 s |
| `Systray` | menu set-up, `SetIdentity`, `Confirm`, clicks; extended by `HostLoop` | texts, Quit |
| `InputRobot` | buttons, wheel and keys from window to `Robot`, and sessions that share the `Robot` | positions; a key is plain, one of two of a name, or unknown; of a turn of the wheel, its sign and how many notches, of which the code uses the sign |
| `FrameSync` | server session, `Client.Run` and UI thread around a tunnel with room for few messages, which may break | a rectangle is one tile, a tile's content one of two |
| `DirtyRects` | `dirtyRects`, one step per tile | pixel values: only whether they differ |
| `RfbSession` | handshake, security, with viewers that take the type offered and viewers that select None against it; framing of both sides with the lengths each side writes and reads; pixel formats, updates with a pixel in them, cut text | one pixel stands for a rectangle; a password is its first eight bytes |
| `PixelFormat` | the encoder of the server, the decoder of the client, three formats | |
| `*Proofs` | the theorems | |

`Wire`, `Relay` and `HostAgent` share variables and are composed by EXTENDS in
`RemoteDesk`. A *Host* of these modules is one connection of a host agent; a
reconnect is another Host, as it is for the relay. `ctl[h]` and `vpc[v]` are
where the goroutines of `serveControl` and `serveConnect` are, `hpc[h]` is where
the agent is; `delivery[h]` is what `resolve` holds between fetching the result
channel and putting the answer. `Relay` uses the clockless view of `authenticate`
(counter and a Boolean `locked`), and `IsGate` in `PinLockout` justifies it.
`locked`, `failures` and the rest of `hostReg` are indexed by Host, not by ID,
since `serveConnect` keeps the `hostReg` it looked up.

`HostLoop` extends `Systray`: `Prompt` is `Serve` calling `OnIncoming`, which is
the tray's `Confirm`, and the loop goes on when `Confirm` returns. A request in
the queue carries how long the relay still waits for its answer. Time only passes
when no goroutine has something to do (`Urgent`).

In `Relayd` a peer has one TCP connection at a time; `st[c]` is where `handleConn`
is with it. A crash loses all but the key file. In `Splice` link 0 is the TCP
connection of a VNC program, link 1 the viewer's SSH channel, link 2 the host's
data channel; splice 1 is the viewer's, splice 2 the relay's.

An operator with a comment "Mutant of X" is a plausible bug. Nothing refers to
it; put in the place of X, it makes a run fail that passes otherwise.

## 3. The runs

| Run | Checks | Bounds, and why they are enough |
|---|---|---|
| `desk` | `RegistryOwned`, `ScreenByConsent`, `AlertPerLockout`, `OneViewerPerAccept`, `PendingLive`, `KeepsPromise` | two hosts and one ID: it is freed and drawn again while a viewer still uses the old `hostReg`; one host is unattended; two viewers and two session names: equal and different names, answers that are late, double or for an entry that is gone; one wrong PIN locks out, so the other viewer meets a lockout; a window of one message, so that writes wait. Viewers, IDs, PINs and sessions are symmetric |
| `silent` | `ConnectEnds`, `GoneUnregistered`, `StreamsEnd` | two viewers, a window of one message, a user who need not answer |
| `pin_lockout` | `RateBound`, `CompareAlone`, `LockoutEarned`, `IsGate` | three goroutines, three attempts, lockout of three ticks, clock up to 8: two lockouts and the guesses between them |
| `relayd` | `IdentityKept`, `SlotPerConn`, `StrangersGo`, `StopsClean`, `QueueServed` | three peers for two slots, one of them not authorized; two keys, so that a second one could be drawn; the retry delay runs up to its cap |
| `splice` | `QuietGetsAll`, `IsStream`, `TeardownSpreads` | room for one chunk per connection and direction, and no bound on how many are written: every buffer full both ways with all four copiers waiting in a write, ten chunks under way, is among the states; one lost connection |
| `host_loop` | `WaitGrows`, `TitleCurrent`, `YesTaken`, `PromptInTime`, `Reconnects` | seven failures in a row pass the cap of 30 s (1, 2, 4, 8, 16, 30, 30); two lines typed ahead; two requests behind the one being asked about; deadlock is checked |
| `console_blocks` | `ConsoleReconnects`, violated | |
| `input_robot` | `PressedAsHeld`, `OneScrollPerTurn` | two sessions one after the other, the first ended at any step, in the middle of a turn of the wheel too; two buttons; a plain key, the two Shift keys and a key without a name; turns of one and two notches |
| `shared_robot` | `SingleGoroutine`, violated | two sessions at once |
| `frame_sync` | `InSync`, `NoLostFrame`, `OneOutstanding`, `CatchesUp`, `WindowResponds` | two tiles, two messages of room so that every writer blocks at times, two changes of the screen during the cycle, a break at any point; deadlock is checked |
| `dirty_rects` | `Covers`, `Disjoint`, `Tight` | 5 x 3 pixels in tiles of 2 x 2: three columns, two rows, the last of each cut; every one of the 2^15 differences |
| `rfb_session` | `Framed`, `Authenticated`, `PixelsArrive`, `HandshakeEnds` | no password, two passwords; the built-in format, a big-endian one and one of 8 bits; a viewer of the latter two may select None whatever is offered; two client messages on their way; one rectangle size |

No run repeats a type invariant: that of `RemoteDesk`, `PinLockout`, `Relayd`,
`Splice`, `FrameSync`, `InputRobot` and `DirtyRects` is part of what is proved, for
some of them without the bounds that only TLC needs.

What the runs show, beyond that the properties hold:

* One accept lets in at most one viewer even when two requests draw the same
  session name. But then the viewer whose entry was overwritten waits for an
  answer that cannot reach it, until it times out.
* `KeepsPromise` is a refinement: a `yes` of `Consent` is an accept that `Serve`
  decided on and no viewer has used up.
* `OneOutstanding` is why the RFB sessions do not deadlock although the client
  holds `fbMu` while it waits for the network and the server does not read while
  it writes: there is never a second update to wait for.
* `IdentityKept`: the key is on disk before any handshake shows it. But a crash
  between creating and writing the file leaves a file that every later start
  refuses, until someone removes it (`StartFails`).
* `SlotPerConn` with `StrangersGo`: a connection that opens no channel loses its
  slot to the deadline. One that opened a channel of any type, refused ones
  included, keeps it as long as the peer likes.
* `PromptInTime`: 45 s are shorter than 60 s, so a request that was alone or first
  in line is shown while the relay still waits. The third in line may be shown
  after the relay gave up on it.
* `PressedAsHeld` says what holds and no more. Buttons that a session left down
  come up with the first event of the next. Keys do not: they stay down until some
  session releases one of the name. A Shift released takes the other Shift, still
  held, up with it. So a key that is down is held by a window or left by a session,
  and a key that is held is down if no other key has its name.
* `OneScrollPerTurn`: a session that ended between press and release of the wheel
  does not cost the next one its scroll, since each frame begins with the buttons
  alone.
* `Authenticated`: with a password set, the server ends the session of a viewer that
  selects None, and goes on with one that answers with that password.
* `TeardownSpreads` needs of the ends only that they do not leave alone what they
  could read (section 4). It holds when every buffer is full, because each copier
  that finds its connection closed closes the next, full or not.
* `QuietGetsAll` and `IsStream`: the close that follows one direction through
  the chain does not overtake its data; data on its way against the direction
  that ended is cut off.

Two runs show where the code and what it says of itself part:

* `console_blocks`: a console prompt has no time limit, and no lost connection is
  noticed before it is answered. README.md promises reconnection, tray.go a bound.
* `shared_robot`: two viewers drive one `Robot` from two goroutines; input.go
  says it is not safe for that.

Seen while modelling, without a run: a line typed before a console prompt answers
it; an Accept received during one tray prompt and resolved during the next answers
the next (`YesTaken` claims only what holds); after `Serve` returns the loop
connects again without a wait; a viewer that knows the ID before `registered` is
written makes `Connect` fail (`HostUnexpected`); a PIN that docs call one-time
serves any number of viewers until the host registers again; releasing one Shift
releases both, and keys held when a session ends stay down (`left` in `InputRobot`);
game.go:49 announces a press and release of the wheel "for each notch", but the code
below it sends one pair for any `wy != 0`, so that several notches in one frame scroll
once (`Sent` and `SendWheel` in `InputRobot`), which is why `OneScrollPerTurn` counts
turns.

## 4. Fairness

Every fairness condition is that of a goroutine which can go on: it is scheduled,
its timers fire, and a channel that is closed is noticed to be. Weak fairness is
enough for that, with these exceptions, which are strong:

* `LockRequest` and `LockPointer` of `FrameSync`: a Go mutex does not starve a
  waiter.
* `Accept` of `Relayd`: errors of `Accept` come and go, but do not fall on every
  single call for ever; a slot that is taken is no obstacle, the connection is
  then dropped.

Nothing is assumed of networks, users or the display: hosts and viewers may come,
leave, break or stay, tunnels may break or stand (`FrameSync` only obliges the
server to notice), peers of the relay may keep silent, nobody has to start or stop
it. `Splice` assumes of an end that has something to read that it reads
or closes, unless it waits in a write of its own (`Attends`, `Stuck`): `rfb.Serve`
does not read while it writes, and a VNC program need not either. Nothing obliges an
end to write, or to close while there is nothing to read. The one exception is stated in its name: `AnsweringSpec`
of `HostLoop` has a user who types a line when a console prompt finds none. The tray
needs no such user, it has a timeout; and without it the property fails, which is
the run `console_blocks`. `silent` assumes no answers at all. Its viewers send fewer
messages than an SSH window takes before the host reads; with more, `send` would
wait inside `awaitConsent` before the timeout starts, and `ConnectEnds` would need
a user who answers (a hazard with a note).

## 5. The proofs

| Theorem | Says | Rests on |
|---|---|---|
| `DeskInvariant` | `Spec => []DeskInv` | one lemma per conjunct (`TypeStep`, `LocalsOKStep`, `RegistryOwnedStep`, ...), in each, one step per action that touches what the conjunct is about |
| `TypeCorrect`, `RegistryTheorem`, `PendingTheorem`, `ConsentTheorem` | `TypeOK`, `RegistryOwned`, `PendingLive`, `ScreenByConsent` for any number of hosts, viewers, IDs, PINs, sessions and any window | `DeskInvariant` |
| `AlertTheorem` | `AlertPerLockout` | `AlertInv`: the viewers about to announce a lockout are finitely many, and what a step adds to lockouts it adds to them |
| `OneViewerTheorem` | `OneViewerPerAccept` | `GrantInv`, below |
| `PromiseTheorem` | `KeepsPromise`: the desk implements `Consent` | `DeskInvariant`, `GrantInv`, `PathOK`; one lemma per step of `Consent`, one case per action of the desk |
| `RelaydProofs`: `PinInvariant`, `RateTheorem`, `AloneTheorem`, `EarnedTheorem`, `GateTheorem` | `RateBound`, `CompareAlone`, `LockoutEarned` and `IsGate` for any number of goroutines, attempts and any lockout | `RateStep`: the MaxPINAttempts-th guess before this one is not younger than the last lockout; `Counted`: the guesses that count were all made after it |
| `RelaydProofs`: `TypeCorrect`, `OneIdentity`, `SlotsCounted` | `IdentityKept` and `SlotPerConn` for any peers, keys and limit | what was presented is the key on file; one token per connection handled |
| `ChunksCounted`, `OneStream` | `IsStream`: `Splice` implements `Stream`, for any room and any amount of data | `SpliceInv`: types; what was written is what was read, is under way, in a copier's hand or was cut off (`Conserved`); no copier ends before something closed or broke (`CutFirst`) |
| `QuietTheorem` | `QuietGetsAll`, likewise | `QuietInv`, below |
| `WaitTheorem` | `WaitGrows` for any number of failures in a row | the wait is 2^n below the cap and the cap from the sixth failure on (`Doubling`); connected, the count starts over |
| `TitleTheorem`, `YesTheorem`, `PromptTheorem` | `TitleCurrent`, `YesTaken` and `PromptInTime` for any number of requests in line | `ClickInv`; `ClockInv`: how much is left of a request against the age of the prompt before it |
| `NoLostFrameTheorem`, `OneOutstandingTheorem` | `NoLostFrame` and `OneOutstanding` for any number of tiles and any room, breaks included | inductive as it stands; `OutInv`: what kinds of message are where, and one of them is the request or its answer |
| `FrameSyncTypes`, `InSyncTheorem` | `TypeOK` and `InSync`, likewise | `SyncInv`, below |
| `AuthenticatedTheorem` | `Authenticated` for any passwords and formats, whichever type a viewer selects | `AuthInv`: a response on the stream is that of the client's password, and past the check passwords agree or none is asked for |
| `FramedTheorem` | `Framed` for any sizes, formats and number of messages, breaks included | `FramedInv`: what is on either stream is whole messages but for the one being read, in an order the reader's state allows; `Opening`, `Refused`, below |
| `ColourTheorem`, `BuiltinTheorem` | what `encode` makes of a colour, read by the rules of RFB, is the colour scaled down, for every valid format and every colour of the screen; `decodeRaw` gets it back exactly | below |
| `PixelsTheorem` | `PixelsArrive`: a viewer that asks for a format once, before its first request, gets every pixel in it | `FramedInv`: the server has read that format before it encodes the first pixel (`PixelsEncoded`); `ColourTheorem`, `BuiltinTheorem` |
| `RectInvariant`, `CoversTheorem`, `DisjointTheorem` | `Covers` and `Disjoint` for every frame size and tile size | what lies behind the loop is covered by a rectangle or the open run; rectangles follow each other |
| `TightTheorem` | `Tight`, likewise | `TightInv`: the loop stands at a tile's corner, and every tile of the open run has a change |
| `RobotInvariant`, `PressedTheorem`, `ScrollTheorem` | `PressedAsHeld` and `OneScrollPerTurn` for any number of sessions, keys, buttons and notches in a frame | `RobotInv`: how much of an event `PointerEvent` has done, which keys are still to be sent |

Assumptions are those on the constants (`WireAssumption`, `RelayAssumption`,
`DeskAssumption`, `PinAssumption`, `ConnAssumption`, `RoomAssumption`,
`HostLoopAssumption`, `FrameAssumption`, `RfbAssumption`, `SizeAssumption`), which
TLC evaluates in the runs.

Why `ScreenByConsent` needs more than itself: an accept is written by the agent,
travels in `toRelay`, is fetched by `resolve`, put in the result channel, and lets
the viewer on several steps later. `AnswerOK` says at each of these places that
the accept was given for the session of the viewer it is about to let in; it needs
`PendingLive`, so that `resolve` finds a viewer of that session, and `LocalsOK`,
so that `target` and `sess` do not change meanwhile. `ClaimOK` carries the ID and
the PIN from lookup and PIN check to the stream; it needs `RegistryOwned` once, for
the lookup, and then only that `regId` and `regPin` of a Host are written once.

`OneViewerPerAccept` counts. `GrantInv` follows each accept: copies in the channel,
plus the one in `resolve`'s hands, plus the viewers whose result channel holds
one, are no more than the accepts written; and whoever is past `awaitConsent` of
an attended host has one in its result channel. A put that finds the channel full,
an answer that finds no entry, and a break that loses messages only make the sum
smaller.

`PromiseTheorem` puts these together. Most steps leave the mapped state alone; the
rest is one step of `Consent` each. `Allow` needs a `yes` that is not used up:
`GrantInv` gives it, since a viewer that has an accept and is not yet let in is
one that the accepts count and the viewers let in do not. `PathOK` adds that no
channel is asked for once a request is closed, and that only the user of an
attended host is asked.

`QuietTheorem` counts as well. If only one end has written and no connection was
lost, nothing runs the other way (`OneWay`), so that no close resets a connection
with data in it; until the listener closes nothing was lost, and a splice only ends
once the writer has closed and all it wrote has passed (`Drained`); hence whoever
has read the end has everything (`AtEnd`). Each action moves, takes or adds one
chunk; the lemmas `ReadMoves`, `WriteMoves`, `EndWritesAdds` and so on say which.

`InSyncTheorem` is about the messages sent and still to be sent, in that order: a
rectangle is followed by its pixels, and they are those of the frame the server
will compare against next (`Paired`); a tile of the framebuffer is as in that frame,
or named by one of these rectangles, or being decoded (`SyncInv`). A new update is
only computed when none is on its way (`OutInv`). That every changed tile is among the rectangles means that a set of
tiles can be listed in increasing order (`Enumerates`); that needs induction over
sets, done here by the smallest counterexample, since the proper subsets of a
finite set are well-founded.

`FramedTheorem` goes through the handshake from both sides. `Order` says which
messages may follow one another on a stream, `ClientWants`, `ServerDue` and so on
where in that order each side is; then what is found at the head of a stream is
what is expected there, and its length is the one it was written with. A viewer that
selects None against the offer waits for a result that never comes: it finds nothing
it could take for one, since before it selects only versions and the offer are sent
(`Opening`) and what the server does next is to fail (`Refused`).

`ColourTheorem` is about numbers. A number below 2^16 is given by its bits
(`SameBits`), one that fits in w bits has no others (`BitsBelow`), a maximum of w
ones has them all (`BitsOfMask`). So a scaled channel lies within its field, fields
do not overlap (`FieldKept`), and the bytes put back in the order of the format are
the word they were taken from (`WordArrives`). The powers of two are compared by
induction over 0..16, stated for sets (`CountUp`). The formats the session offers
are valid ones (`FormatsValid`); a format that is not, with overlapping channels or
maxima that are no row of ones, is a viewer's own mistake and nothing is claimed
of it.

`PressedTheorem` and `ScrollTheorem` assume nothing of how many sessions there are.
What is said of buttons, of the wheel and of a key that has to be down is said until
two sessions are open at once (`shared`, which the state remembers): from then on
`PointerEvent` of one may run inside that of the other, the run `shared_robot`, and
neither would hold. That no key is down which nobody holds or left is said of any
number of sessions at once. Sessions that follow one another are covered throughout,
with buttons and keys the one before left pressed.

With that, every safety property of the passing runs is proved. Only model-checked
is liveness, which is beyond the prover.

## 6. Not modelled

`internal/version` has no behaviour. Flags, the parsing of `authorized_keys`, of
`ParseRelayKey` and `Dir` are left out: a peer is authorized or not, a pin matches
or not. Whether a viewer or host pins the relay's key is not modelled; `IdentityKept`
is what a pin relies on. CopyRect, colour map entries and the server's cut text are
read by the client and sent by no server of this repository. A pixel format beyond
32 bits per pixel makes the encoder index past its four bytes; only valid formats
are modelled. Quit of the tray ends the process. SSH, DES, JSON, the tray and window
libraries and the network are external: modelled by what the code relies on. Of VNC
programs other than this viewer, only their pixel formats, set once before the first
request, that they may select None against an offer of VNC authentication, and that
they send cut text (`RfbSession`), and their TCP connection (`Splice`) are modelled;
one that does not keep to the lengths of RFB, or selects VNC authentication where None
is offered, loses its place in the stream by its own doing.

JSON is taken to be well-formed, as both ends here write it. The branch of
`serveConnect` for a connect request that is not (relay.go:341-344) rejects the
channel before it looks at any state, and is not an action of `Relay`. In `DirtyRects`
a pixel has no address: that `min` keeps the width and height of a tile in the frame
is modelled and `Disjoint` checks the rectangles that come of it, but a comparison
that read beyond a row would not show.

## 7. What is left

1. Requests that fill an SSH window while a prompt is open: `send` of one viewer
   holds `writeMu` for all others; it needs a window of several messages and as
   many viewers.
2. `HostLoop` and `RemoteDesk` composed: the queue of prompts there is the one the
   relay's `awaitConsent` waits for here. Each is checked with the other reduced
   to what it promises.
