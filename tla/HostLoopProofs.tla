---------------------------- MODULE HostLoopProofs ----------------------------
(***************************************************************************)
(* Proofs about modules HostLoop and Systray: how long the host waits, and *)
(* what a prompt of the tray may answer and when, for any number of        *)
(* failures, lines and requests.                                           *)
(***************************************************************************)
EXTENDS HostLoop, TLAPS

-----------------------------------------------------------------------------
(* The wait between two connects *)

\* While the host is connected the count starts over.
WaitInv ==
    /\ fails \in Nat
    /\ loop \in {"dial", "sleep", "serving", "asking"}
    /\ loop = "sleep" => fails > 0
    /\ loop \in {"serving", "asking"} => fails = 0 /\ backoff = MinBackoff
    /\ WaitGrows

LEMMA Powers == 2^0 = 1 /\ 2^1 = 2 /\ 2^2 = 4 /\ 2^3 = 8 /\ 2^4 = 16
  BY SMT

\* The wait after n failures, as serveWithReconnect doubles it.
LEMMA Doubling ==
  ASSUME NEW n \in Nat, backoff = (IF n < 5 THEN 2^n ELSE MaxBackoff)
  PROVE  Doubled = IF n + 1 < 5 THEN 2^(n + 1) ELSE MaxBackoff
  <1> DEFINE P(k) == 2^k
  <1>1. P(0) = 1 /\ P(1) = 2 /\ P(2) = 4 /\ P(3) = 8 /\ P(4) = 16
    BY Powers
  <1>2. backoff = IF n < 5 THEN P(n) ELSE MaxBackoff
    OBVIOUS
  <1> SUFFICES Doubled = IF n + 1 < 5 THEN P(n + 1) ELSE MaxBackoff
    OBVIOUS
  <1> HIDE DEF P
  <1>3. CASE n = 0 \/ n = 1 \/ n = 2 \/ n = 3
    BY <1>1, <1>2, <1>3 DEF Doubled, Smaller, MaxBackoff
  <1>4. CASE n > 3
    BY <1>1, <1>2, <1>4 DEF Doubled, Smaller, MaxBackoff
  <1> QED
    BY <1>3, <1>4

\* The host waits 1, 2, 4, 8 and 16 seconds after its first failures in a row
\* and 30 after every further one, and starts over once it has connected.
THEOREM WaitTheorem == Spec => []WaitGrows
  <1>1. Init => WaitInv
    BY Powers DEF Init, WaitInv, WaitGrows, MinBackoff
  <1>2. WaitInv /\ [Next]_vars => WaitInv'
    <2> SUFFICES ASSUME WaitInv, [Next]_vars
                 PROVE  WaitInv'
      OBVIOUS
    <2> USE DEF WaitInv, WaitGrows
    <2>1. CASE UNCHANGED <<loop, fails, backoff>>
      BY <2>1
    <2>2. CASE ConnectFails
      BY <2>2 DEF ConnectFails
    <2>3. CASE Wake
      <3> DEFINE n == fails - 1
      <3>1. n \in Nat /\ n + 1 = fails /\ backoff = IF n < 5 THEN 2^n ELSE MaxBackoff
        BY <2>3 DEF Wake
      <3>2. backoff' = IF n + 1 < 5 THEN 2^(n + 1) ELSE MaxBackoff
        <4> HIDE DEF n
        <4> QED
          BY <2>3, <3>1, Doubling DEF Wake
      <3> QED
        BY <2>3, <3>1, <3>2 DEF Wake
    <2>4. CASE Connect
      BY <2>4 DEF Connect, AfterConnect
    <2>5. CASE ServeEnds
      BY <2>5, Powers DEF ServeEnds, MinBackoff
    <2>6. CASE Prompt
      BY <2>6 DEF Prompt
    <2>7. ASSUME Answered
          PROVE  WaitInv'
      BY <2>7, Powers DEF Answered, MinBackoff
    <2>8. CASE AutoAccept \/ ReadLine \/ ReadEof \/ TrayAnswered
      BY <2>7, <2>8 DEF AutoAccept, ReadLine, ReadEof, TrayAnswered
    <2>9. CASE Tray \/ Tick \/ World \/ UNCHANGED vars
      BY <2>1, <2>9 DEF Tray, Tick, World, Relay, Drop, Incoming, Close, Type, UserClicks,
                        vars, loopVars
    <2> QED
      BY <2>2, <2>3, <2>4, <2>5, <2>6, <2>8, <2>9 DEF Next, Loop
  <1>3. WaitInv => WaitGrows
    BY DEF WaitInv
  <1> QED
    BY <1>1, <1>2, <1>3, PTL DEF Spec

-----------------------------------------------------------------------------
(* The title *)

\* Once there is a menu it shows the current ID and PIN.
THEOREM TitleTheorem == Spec => []TitleCurrent
  <1>1. Init => TitleCurrent
    BY DEF Init, TrayInit, TitleCurrent
  <1>2. TitleCurrent /\ [Next]_vars => TitleCurrent'
    <2> SUFFICES ASSUME TitleCurrent, [Next]_vars
                 PROVE  TitleCurrent'
      OBVIOUS
    <2> USE DEF TitleCurrent
    <2>1. CASE UNCHANGED menuVars
      BY <2>1 DEF menuVars
    <2>2. CASE Connect
      BY <2>2 DEF Connect, SetIdentity, trayVars, menuVars
    <2>3. CASE Tray
      BY <2>3 DEF Tray, OnReady, FirstTitle, Confirm, Decide, TimeOut, FinishConfirm,
                  Resolve, Take, Put, menuVars
    <2>4. CASE Loop /\ ~Connect
      BY <2>1, <2>4 DEF Loop, ConnectFails, Wake, ServeEnds, Prompt, Ask, AutoAccept,
                        ReadLine, ReadEof, TrayAnswered, trayVars
    <2>5. CASE Tick \/ World \/ UNCHANGED vars
      BY <2>1, <2>5 DEF Tick, World, Relay, Drop, Incoming, Close, Type, UserClicks, Click,
                        vars, trayVars
    <2> QED
      BY <2>2, <2>3, <2>4, <2>5 DEF Next
  <1> QED
    BY <1>1, <1>2, PTL DEF Spec

-----------------------------------------------------------------------------
(* Clicks *)

\* An Accept on its way to the channel of this prompt took it, and so did the
\* one in it; before there is a menu there is neither.
ClickInv ==
    /\ channel = "accept" => took
    /\ clicker = "put" /\ held = "current" /\ button = "accept" => took
    /\ confirm = "finishing" /\ answer = "accept" => took
    /\ ~ready => channel = "" /\ held # "current" /\ pending # "current"

LEMMA ClickStep == ClickInv /\ [Next]_vars => ClickInv'
  <1> SUFFICES ASSUME ClickInv, [Next]_vars
               PROVE  ClickInv'
    OBVIOUS
  <1> USE DEF ClickInv
  <1>1. CASE UNCHANGED trayVars
    BY <1>1 DEF trayVars, menuVars, clickVars
  <1>2. CASE SetIdentity
    BY <1>2 DEF SetIdentity, clickVars
  \* A new prompt has a channel of its own.
  <1>3. CASE Ask
    BY <1>3 DEF Ask, Fresh, menuVars
  <1>4. CASE OnReady
    BY <1>4 DEF OnReady, clickVars
  <1>5. CASE Decide \/ TimeOut \/ FinishConfirm
    BY <1>5 DEF Decide, TimeOut, FinishConfirm, menuVars, clickVars
  <1>6. CASE Take
    BY <1>6 DEF Take, menuVars
  <1>7. CASE Put
    BY <1>7 DEF Put, menuVars
  <1>8. CASE \E b \in Button : Click(b)
    <2>1. PICK b \in Button : Click(b)
      BY <1>8
    <2>2. /\ UNCHANGED <<ready, confirm, pending, channel, answer, held, took>>
          /\ clicker' # "put"
      BY <2>1 DEF Click, menuVars
    <2> QED
      BY <2>2
  <1>9. CASE TrayAnswered
    BY <1>9 DEF TrayAnswered, menuVars, clickVars
  <1>10. CASE Tick
    BY <1>10 DEF Tick, menuVars, clickVars
  <1>11. CASE Loop /\ ~TrayAnswered
    BY <1>1, <1>2, <1>3, <1>11
       DEF Loop, ConnectFails, Wake, Connect, ServeEnds, Prompt, AutoAccept, ReadLine,
           ReadEof
  <1>12. CASE Tray \/ World
    BY <1>1, <1>4, <1>5, <1>6, <1>7, <1>8, <1>12
       DEF Tray, Confirm, Resolve, World, Relay, Drop, Incoming, Close, Type, UserClicks
  <1>13. CASE UNCHANGED vars
    BY <1>1, <1>13 DEF vars
  <1> QED
    BY <1>9, <1>10, <1>11, <1>12, <1>13 DEF Next

\* Confirm says yes only for an Accept that took its own channel.
THEOREM YesTheorem == Spec => []YesTaken
  <1>1. Init => ClickInv
    BY DEF Init, TrayInit, ClickInv
  <1>2. ClickInv => YesTaken
    BY DEF ClickInv, YesTaken
  <1> QED
    BY <1>1, <1>2, ClickStep, PTL DEF Spec

-----------------------------------------------------------------------------
(* Time *)

Waited == [left : 0..AcceptTimeout, ahead : Nat]

ClockTypes ==
    /\ age \in 0..ConfirmTimeout + 1
    /\ asked \in Waited /\ queue \in Seq(Waited)

\* Confirm of the tray runs exactly while Serve is inside it, and not for long.
InConfirm ==
    /\ confirm # "idle" => ui = "tray" /\ loop = "asking"
    /\ ui = "tray" /\ loop = "asking" =>
          confirm \in {"waiting", "finishing", "returned"} /\ age <= ConfirmTimeout

\* Time only passes while a prompt is shown, and the age of the prompt says how
\* much of it: the one that is asked about, if none was ahead of it, arrived
\* when it was shown, and the next in line not before that.
WhileAsking ==
    ui = "tray" /\ loop = "asking" =>
       /\ asked.ahead = 0 => asked.left + age >= AcceptTimeout
       /\ asked.ahead = 1 => asked.left + age >= 1
       /\ \A n \in 1..Len(queue) :
             /\ queue[n].ahead >= n
             /\ queue[n].ahead = 1 => queue[n].left + age >= AcceptTimeout

BetweenPrompts ==
    ui = "tray" /\ loop = "serving" =>
       \A n \in 1..Len(queue) :
          /\ queue[n].ahead >= n - 1
          /\ queue[n].ahead = n - 1 /\ queue[n].ahead <= 1 => queue[n].left >= AcceptTimeout
          /\ queue[n].ahead = 1 => queue[n].left >= 1

ClockInv == ClockTypes /\ InConfirm /\ WhileAsking /\ BetweenPrompts

\* Steps that leave the loop, the requests and the prompt's timer alone.
LEMMA ClockStill ==
    ASSUME ClockInv, UNCHANGED <<ui, loop, queue, asked, age, confirm>>
    PROVE  ClockInv'
  BY DEF ClockInv, ClockTypes, InConfirm, WhileAsking, BetweenPrompts

LEMMA ConfirmStep ==
    ASSUME ClockInv, Tray
    PROVE  ClockInv'
  <1>1. UNCHANGED <<ui, loop, queue, asked, age>>
    BY DEF Tray, OnReady, Confirm, Decide, TimeOut, FinishConfirm, Resolve, Take, Put,
           loopVars
  <1>2. \/ confirm' = confirm
        \/ (confirm = "waiting" /\ confirm' = "finishing")
        \/ (confirm = "finishing" /\ confirm' = "returned")
    <2>1. CASE OnReady \/ Take \/ Put
      BY <2>1 DEF OnReady, Take, Put
    <2>2. CASE Decide \/ TimeOut
      BY <2>2 DEF Decide, TimeOut
    <2>3. CASE FinishConfirm
      BY <2>3 DEF FinishConfirm
    <2> QED
      BY <2>1, <2>2, <2>3 DEF Tray, Confirm, Resolve
  <1>3. InConfirm'
    BY <1>1, <1>2 DEF ClockInv, InConfirm
  <1> QED
    BY <1>1, <1>3 DEF ClockInv, ClockTypes, WhileAsking, BetweenPrompts

\* A request that becomes the one asked about, and those that move up.
LEMMA PromptStep ==
    ASSUME ClockInv, Prompt
    PROVE  ClockInv'
  <1>1. /\ queue \in Seq(Waited) /\ queue # <<>>
        /\ asked' = queue[1] /\ asked' \in Waited /\ queue' \in Seq(Waited)
        /\ Len(queue') = Len(queue) - 1 /\ Len(queue) \in Nat \ {0}
        /\ \A n \in 1..Len(queue') : queue'[n] = queue[n + 1]
    BY DEF ClockInv, ClockTypes, Prompt
  <1>2. ui' = ui /\ loop = "serving" /\ loop' = "asking"
    BY DEF Prompt
  <1>3. ui = "tray" => age' = 0 /\ confirm' \in {"waiting", "returned"}
    BY DEF Prompt, Ask
  <1>4. ui # "tray" => age' = age /\ confirm' = confirm
    BY DEF Prompt, trayVars
  <1>5. ClockTypes'
    BY <1>1, <1>3, <1>4 DEF ClockInv, ClockTypes, ConfirmTimeout
  <1>6. InConfirm'
    BY <1>2, <1>3, <1>4 DEF ClockInv, InConfirm, ConfirmTimeout
  <1>7. ASSUME ui = "tray" PROVE WhileAsking'
    <2>1. \A n \in 1..Len(queue) :
             /\ queue[n] \in Waited /\ queue[n].ahead >= n - 1
             /\ queue[n].ahead = n - 1 /\ queue[n].ahead <= 1
                   => queue[n].left >= AcceptTimeout
             /\ queue[n].ahead = 1 => queue[n].left >= 1
      BY <1>1, <1>2, <1>7 DEF ClockInv, BetweenPrompts
    <2>2. /\ asked'.ahead = 0 => asked'.left >= AcceptTimeout
          /\ asked'.ahead = 1 => asked'.left >= 1
      BY <1>1, <2>1
    <2>3. ASSUME NEW n \in 1..Len(queue')
          PROVE  /\ queue'[n].ahead >= n
                 /\ queue'[n].ahead = 1 => queue'[n].left >= AcceptTimeout
      <3>1. n + 1 \in 1..Len(queue) /\ queue'[n] = queue[n + 1] /\ n \in Nat \ {0}
        BY <1>1
      <3>2. /\ queue[n + 1] \in Waited /\ queue[n + 1].ahead >= n
            /\ queue[n + 1].ahead = n /\ n <= 1 => queue[n + 1].left >= AcceptTimeout
        BY <2>1, <3>1
      <3> QED
        BY <3>1, <3>2 DEF Waited
    <2>4. asked' \in Waited /\ \A n \in 1..Len(queue') : queue'[n] \in Waited
      BY <1>1
    <2> QED
      BY <1>3, <1>7, <2>2, <2>3, <2>4 DEF WhileAsking, Waited, AcceptTimeout
  <1>8. WhileAsking' /\ BetweenPrompts'
    BY <1>2, <1>7 DEF WhileAsking, BetweenPrompts
  <1> QED
    BY <1>5, <1>6, <1>8 DEF ClockInv

\* After an answer the next in line has waited as long as the prompt was shown.
LEMMA AnsweredStep ==
    ASSUME ClockInv, Answered, age' = age,
           confirm' = IF ui = "tray" THEN "idle" ELSE confirm
    PROVE  ClockInv'
  <1>1. UNCHANGED <<ui, queue>> /\ loop = "asking" /\ loop' \in {"serving", "dial"}
    BY DEF Answered
  <1>2. ClockTypes'
    BY <1>1 DEF ClockInv, ClockTypes, Answered, Nothing, Waited, AcceptTimeout
  <1>3. InConfirm'
    BY <1>1 DEF ClockInv, InConfirm
  <1>4. ASSUME ui = "tray", NEW n \in 1..Len(queue)
        PROVE  /\ queue[n].ahead >= n - 1 /\ queue[n].ahead # n - 1
               /\ queue[n].ahead = 1 => queue[n].left >= 1
    <2>1. queue[n] \in Waited /\ n \in Nat \ {0} /\ age \in Nat
      BY DEF ClockInv, ClockTypes
    <2>2. /\ queue[n].ahead >= n /\ age <= ConfirmTimeout
          /\ queue[n].ahead = 1 => queue[n].left + age >= AcceptTimeout
      BY <1>1, <1>4 DEF ClockInv, WhileAsking, InConfirm
    <2> QED
      BY <2>1, <2>2 DEF Waited, AcceptTimeout, ConfirmTimeout
  <1>5. WhileAsking' /\ BetweenPrompts'
    BY <1>1, <1>4 DEF WhileAsking, BetweenPrompts
  <1> QED
    BY <1>2, <1>3, <1>5 DEF ClockInv

\* A request joins the end of the line.
LEMMA IncomingStep ==
    ASSUME ClockInv, Incoming
    PROVE  ClockInv'
  <1> DEFINE new == [left |-> AcceptTimeout,
                     ahead |-> Len(queue) + (IF loop = "asking" THEN 1 ELSE 0)]
  <1>1. UNCHANGED <<ui, loop, asked, age, confirm>> /\ queue' = Append(queue, new)
    BY DEF Incoming, trayVars
  <1>2. queue \in Seq(Waited) /\ Len(queue) \in Nat
    BY DEF ClockInv, ClockTypes
  <1>3. /\ new \in Waited /\ new.left = AcceptTimeout
        /\ new.ahead = Len(queue) + (IF loop = "asking" THEN 1 ELSE 0)
    BY <1>2 DEF Waited, AcceptTimeout
  <1> HIDE DEF new
  <1>4. /\ queue' \in Seq(Waited) /\ Len(queue') = Len(queue) + 1
        /\ \A n \in 1..Len(queue') :
              IF n = Len(queue) + 1 THEN queue'[n] = new
              ELSE n \in 1..Len(queue) /\ queue'[n] = queue[n]
    BY <1>1, <1>2, <1>3
  <1>5. ClockTypes' /\ InConfirm'
    BY <1>1, <1>4 DEF ClockInv, ClockTypes, InConfirm
  <1>6. WhileAsking'
    BY <1>1, <1>2, <1>3, <1>4 DEF ClockInv, ClockTypes, WhileAsking, AcceptTimeout
  <1>7. BetweenPrompts'
    BY <1>1, <1>2, <1>3, <1>4 DEF ClockInv, BetweenPrompts, AcceptTimeout
  <1> QED
    BY <1>5, <1>6, <1>7 DEF ClockInv

\* While a prompt is shown everybody waits; what is gained in age is lost in
\* the time that is left.
LEMMA TickStep ==
    ASSUME ClockInv, Tick
    PROVE  ClockInv'
  <1>1. /\ UNCHANGED <<ui, loop, confirm>> /\ loop = "asking"
        /\ asked' = Older(asked) /\ queue' = [n \in DOMAIN queue |-> Older(queue[n])]
    BY DEF Tick
  <1>2. ASSUME NEW r \in Waited
        PROVE  /\ Older(r) \in Waited /\ Older(r).ahead = r.ahead
               /\ Older(r).left = IF r.left = 0 THEN 0 ELSE r.left - 1
    BY DEF Waited, Older, AcceptTimeout
  <1>3. queue \in Seq(Waited) /\ asked \in Waited /\ age \in Nat
    BY DEF ClockInv, ClockTypes
  <1>4. \A n \in 1..Len(queue) : queue[n] \in Waited
    BY <1>3
  <1>5. /\ queue' \in Seq(Waited) /\ Len(queue') = Len(queue)
        /\ \A n \in 1..Len(queue) : queue'[n] = Older(queue[n])
    <2>1. DOMAIN queue = 1..Len(queue) /\ Len(queue) \in Nat
      BY <1>3
    <2>2. queue' \in [1..Len(queue) -> Waited]
      BY <1>1, <1>2, <1>4, <2>1
    <2> QED
      BY <1>1, <2>1, <2>2
  <1>6. ClockTypes'
    BY <1>1, <1>2, <1>3, <1>5 DEF ClockInv, ClockTypes, Tick, ConfirmTimeout
  <1>7. ui = "tray" => confirm = "waiting" /\ age < ConfirmTimeout /\ age' = age + 1
    BY <1>1, <1>3 DEF Tick, Urgent, TimesOut, ClockInv, InConfirm, ConfirmTimeout
  <1>8. InConfirm'
    BY <1>1, <1>3, <1>7 DEF ClockInv, InConfirm, ConfirmTimeout
  <1>9. ASSUME ui = "tray" PROVE WhileAsking'
    <2>1. ASSUME NEW r \in Waited, NEW k \in Nat, r.left + age >= k
          PROVE  Older(r).left + age' >= k
      BY <1>2, <1>3, <1>7, <1>9, <2>1 DEF Waited, AcceptTimeout
    <2>2. /\ asked.ahead = 0 => Older(asked).left + age' >= AcceptTimeout
          /\ asked.ahead = 1 => Older(asked).left + age' >= 1
      BY <1>1, <1>3, <1>9, <2>1 DEF ClockInv, WhileAsking, AcceptTimeout
    <2>3. \A n \in 1..Len(queue) :
             /\ queue[n].ahead >= n
             /\ queue[n].ahead = 1 => Older(queue[n]).left + age' >= AcceptTimeout
      BY <1>1, <1>4, <1>9, <2>1 DEF ClockInv, WhileAsking, AcceptTimeout
    <2> QED
      BY <1>1, <1>2, <1>3, <1>4, <1>5, <2>2, <2>3 DEF WhileAsking
  <1>10. WhileAsking' /\ BetweenPrompts'
    BY <1>1, <1>9 DEF WhileAsking, BetweenPrompts
  <1> QED
    BY <1>6, <1>8, <1>10 DEF ClockInv

\* The loop between two connections: a new one starts with an empty queue.
LEMMA ReconnectStep ==
    ASSUME ClockInv, ConnectFails \/ Wake \/ Connect \/ ServeEnds
    PROVE  ClockInv'
  <1>1. /\ UNCHANGED <<ui, asked, age, confirm>> /\ loop # "asking" /\ loop' # "asking"
        /\ queue' = queue \/ queue' = <<>>
        /\ loop' = "serving" => queue' = <<>>
    BY DEF ConnectFails, Wake, Connect, ServeEnds, SetIdentity, trayVars
  <1>2. ClockTypes'
    <2>1. queue' \in Seq(Waited)
      <3>1. queue \in Seq(Waited) /\ <<>> \in Seq(Waited)
        BY DEF ClockInv, ClockTypes
      <3> QED
        BY <1>1, <3>1
    <2> QED
      BY <1>1, <2>1 DEF ClockInv, ClockTypes
  <1>3. InConfirm' /\ WhileAsking'
    BY <1>1 DEF ClockInv, InConfirm, WhileAsking
  <1>4. BetweenPrompts'
    <2> SUFFICES ASSUME loop' = "serving" PROVE 1..Len(queue') = {}
      BY DEF BetweenPrompts
    <2> QED
      BY <1>1
  <1> QED
    BY <1>2, <1>3, <1>4 DEF ClockInv

LEMMA ClockStep == ClockInv /\ [Next]_vars => ClockInv'
  <1> SUFFICES ASSUME ClockInv, [Next]_vars
               PROVE  ClockInv'
    OBVIOUS
  <1>1. CASE ConnectFails \/ Wake \/ Connect \/ ServeEnds
    BY <1>1, ReconnectStep
  <1>2. CASE Prompt
    BY <1>2, PromptStep
  <1>3. CASE AutoAccept \/ ReadLine \/ ReadEof
    BY <1>3, AnsweredStep DEF AutoAccept, ReadLine, ReadEof, trayVars
  <1>4. CASE TrayAnswered
    <2>1. ui = "tray"
      BY <1>4 DEF TrayAnswered, ClockInv, InConfirm
    <2> QED
      BY <1>4, <2>1, AnsweredStep DEF TrayAnswered
  <1>5. CASE Tray
    BY <1>5, ConfirmStep
  <1>6. CASE Tick
    BY <1>6, TickStep
  <1>7. CASE Incoming
    BY <1>7, IncomingStep
  <1>8. CASE Relay \/ Drop \/ Close \/ Type \/ UserClicks \/ UNCHANGED vars
    BY <1>8, ClockStill
       DEF Relay, Drop, Close, Type, UserClicks, Click, vars, loopVars, trayVars
  <1> QED
    BY <1>1, <1>2, <1>3, <1>4, <1>5, <1>6, <1>7, <1>8 DEF Next, Loop, World

\* A prompt of the tray is shown while the relay still waits for its answer: for
\* all the time it is shown if none was ahead, at first for the next in line.
THEOREM PromptTheorem == Spec => []PromptInTime
  <1>1. Init => ClockInv
    <2> SUFFICES ASSUME Init PROVE ClockInv
      OBVIOUS
    <2>1. ClockTypes
      <3>1. Nothing \in Waited /\ 0 \in 0..ConfirmTimeout + 1
        BY DEF Nothing, Waited, AcceptTimeout, ConfirmTimeout
      <3>2. <<>> \in Seq(Waited)
        OBVIOUS
      <3> QED
        BY <3>1, <3>2 DEF Init, TrayInit, ClockTypes
    <2>2. InConfirm /\ WhileAsking /\ BetweenPrompts
      BY DEF Init, TrayInit, InConfirm, WhileAsking, BetweenPrompts
    <2> QED
      BY <2>1, <2>2 DEF ClockInv
  <1>2. ClockInv => PromptInTime
    <2> SUFFICES ASSUME ClockInv, confirm = "waiting"
                 PROVE  /\ asked.ahead = 0 => asked.left > 0
                        /\ asked.ahead = 1 /\ age = 0 => asked.left > 0
      BY DEF PromptInTime
    <2>1. asked \in Waited /\ age \in Nat
      BY DEF ClockInv, ClockTypes
    <2>2. /\ age <= ConfirmTimeout
          /\ asked.ahead = 0 => asked.left + age >= AcceptTimeout
          /\ asked.ahead = 1 => asked.left + age >= 1
      BY DEF ClockInv, InConfirm, WhileAsking
    <2> QED
      BY <2>1, <2>2 DEF Waited, AcceptTimeout, ConfirmTimeout
  <1> QED
    BY <1>1, <1>2, ClockStep, PTL DEF Spec
===============================================================================
