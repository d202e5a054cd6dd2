------------------------------- MODULE HostLoop -------------------------------
(***************************************************************************)
(* The host program around one relay connection: serveWithReconnect of     *)
(* cmd/host/main.go, the control loop of tunnel.Host.Serve it calls, and   *)
(* the consent prompt Serve waits for (internal/tray).  Serve asks for one *)
(* request at a time, while the relay counts down acceptTimeout for all of *)
(* them.  The tray's prompt gives up after ConfirmTimeout; on the console  *)
(* it is a read of one line of standard input, which may have been typed   *)
(* before; an unattended host does not ask.                                *)
(***************************************************************************)
EXTENDS Systray, Integers, Sequences

CONSTANTS
    MaxFails,        \* bound: failed connects in a row
    MaxTyped,        \* bound: lines typed ahead
    MaxQueue         \* bound: requests waiting behind the one being asked about

ASSUME HostLoopAssumption ==
    MaxFails \in Nat /\ MaxTyped \in Nat /\ MaxQueue \in Nat

VARIABLES
    ui,              \* the front-end main chose, or "unattended"
    relay,           \* whether the relay can be reached
    loop,            \* where serveWithReconnect is; "asking": inside Confirm
    backoff,         \* its local, in seconds
    conn,            \* the relay connection
    queue,           \* incoming messages not read yet
    asked,           \* the one Serve is asking about
    typed,           \* how many lines on standard input are not read yet
    stdin,           \* whether there can be more
    fails            \* history: failed connects in a row

loopVars == <<ui, relay, loop, backoff, conn, queue, asked, typed, stdin, fails>>
vars == <<loopVars, trayVars>>

MinBackoff == 1
MaxBackoff == 30
Smaller(a, b) == IF a < b THEN a ELSE b

\* Units of 15 seconds.
AcceptTimeout == 4

\* A request, as long as the relay waits for its answer, and how many were
\* being asked about or waiting when it arrived.
Request == [left : 0..AcceptTimeout, ahead : 0..MaxQueue+1]
Nothing == [left |-> 0, ahead |-> 0]

Init ==
    /\ ui \in {"tray", "console", "unattended"}
    /\ relay \in {"up", "down"}
    /\ loop = "dial"
    /\ backoff = MinBackoff
    /\ conn = "none"
    /\ queue = <<>> /\ asked = Nothing
    /\ typed = 0
    /\ stdin = "open"
    /\ fails = 0
    /\ TrayInit

-----------------------------------------------------------------------------
(* serveWithReconnect *)

ConnectFails ==
    /\ loop = "dial"
    /\ relay = "down"
    /\ fails < MaxFails
    /\ fails' = fails + 1
    /\ loop' = "sleep"
    /\ UNCHANGED <<ui, relay, backoff, conn, queue, asked, typed, stdin, trayVars>>

Doubled == Smaller(backoff * 2, MaxBackoff)

\* The sleep is over; the next one will be longer.
Wake ==
    /\ loop = "sleep"
    /\ backoff' = Doubled
    /\ loop' = "dial"
    /\ UNCHANGED <<ui, relay, conn, queue, asked, typed, stdin, fails, trayVars>>

\* Mutant of AfterConnect: backoff is not reset.
NotReset == backoff

AfterConnect == MinBackoff

Connect ==
    /\ loop = "dial"
    /\ relay = "up"
    /\ conn' = "up"
    /\ backoff' = AfterConnect
    /\ fails' = 0
    /\ loop' = "serving"
    /\ queue' = <<>>
    /\ IF ui = "tray" THEN SetIdentity ELSE UNCHANGED trayVars
    /\ UNCHANGED <<ui, relay, asked, typed, stdin>>

\* Serve returns, and the loop goes on at once.
ServeEnds ==
    /\ loop = "serving"
    /\ conn = "down" /\ queue = <<>>
    /\ loop' = "dial"
    /\ UNCHANGED <<ui, relay, backoff, conn, queue, asked, typed, stdin, fails, trayVars>>

-----------------------------------------------------------------------------
(* Serve, and Confirm within it *)

\* Serve reads the next request and calls OnIncoming.
Prompt ==
    /\ loop = "serving"
    /\ queue # <<>>
    /\ asked' = Head(queue)
    /\ queue' = Tail(queue)
    /\ loop' = "asking"
    /\ IF ui = "tray" THEN Ask ELSE UNCHANGED trayVars
    /\ UNCHANGED <<ui, relay, backoff, conn, typed, stdin, fails>>

\* Serve writes the answer. With the connection gone it returns now or, if the
\* write did not fail, when it reads.
Answered ==
    /\ loop = "asking"
    /\ loop' = "serving" \/ (conn = "down" /\ loop' = "dial")
    /\ asked' = Nothing
    /\ UNCHANGED <<ui, relay, backoff, conn, queue, stdin, fails>>

AutoAccept ==
    /\ ui = "unattended"
    /\ Answered
    /\ UNCHANGED <<typed, trayVars>>

\* ConsoleUI.Confirm: the next line of standard input, whenever it was typed.
ReadLine ==
    /\ ui = "console"
    /\ typed > 0
    /\ typed' = typed - 1
    /\ Answered
    /\ UNCHANGED trayVars

\* ReadString fails: the answer is no, now and from here on.
ReadEof ==
    /\ ui = "console"
    /\ typed = 0 /\ stdin = "closed"
    /\ Answered
    /\ UNCHANGED <<typed, trayVars>>

\* SystrayUI.Confirm has returned.
TrayAnswered ==
    /\ confirm = "returned"
    /\ confirm' = "idle"
    /\ Answered
    /\ UNCHANGED <<typed, menuVars, items, age, pending, channel, answer, clickVars, took>>

Tray == ui = "tray" /\ (OnReady \/ Confirm \/ Resolve) /\ UNCHANGED loopVars
UserClicks == ui = "tray" /\ (\E b \in Button : Click(b)) /\ UNCHANGED loopVars

-----------------------------------------------------------------------------
(* Time, network and user *)

\* The machine takes its steps in no time: nothing that a goroutine can do
\* right away, and no timer that is due, is put off. How long a timer is
\* overdue is not told apart.
Urgent ==
    \/ loop = "serving" /\ queue # <<>>
    \/ confirm = "waiting" /\ TimesOut
    \/ confirm \in {"finishing", "returned"}
    \/ loop = "asking" /\ ui = "unattended"

Older(r) == [r EXCEPT !.left = IF @ = 0 THEN 0 ELSE @ - 1]

Tick ==
    /\ loop = "asking"
    /\ ~Urgent
    /\ age' = IF confirm = "waiting" /\ age <= ConfirmTimeout THEN age + 1 ELSE age
    /\ queue' = [n \in DOMAIN queue |-> Older(queue[n])]
    /\ asked' = Older(asked)
    /\ UNCHANGED <<ui, relay, loop, backoff, conn, typed, stdin, fails, menuVars,
                   items, confirm, pending, channel, answer, clickVars, took>>

Relay ==
    /\ relay' \in {"up", "down"}
    /\ UNCHANGED <<ui, loop, backoff, conn, queue, asked, typed, stdin, fails, trayVars>>

Drop ==
    /\ conn = "up"
    /\ conn' = "down"
    /\ UNCHANGED <<ui, relay, loop, backoff, queue, asked, typed, stdin, fails, trayVars>>

\* The relay sends incoming, and starts to wait for the answer.
Incoming ==
    /\ conn = "up" /\ loop \in {"serving", "asking"}
    /\ Len(queue) < MaxQueue
    /\ queue' = Append(queue,
          [left |-> AcceptTimeout,
           ahead |-> Len(queue) + (IF loop = "asking" THEN 1 ELSE 0)])
    /\ UNCHANGED <<ui, relay, loop, backoff, conn, asked, typed, stdin, fails, trayVars>>

Type ==
    /\ ui = "console"
    /\ stdin = "open"
    /\ typed < MaxTyped
    /\ typed' = typed + 1
    /\ UNCHANGED <<ui, relay, loop, backoff, conn, queue, asked, stdin, fails, trayVars>>

Close ==
    /\ ui = "console"
    /\ stdin' = "closed"
    /\ UNCHANGED <<ui, relay, loop, backoff, conn, queue, asked, typed, fails, trayVars>>

Loop ==
    \/ ConnectFails \/ Wake \/ Connect \/ ServeEnds \/ Prompt
    \/ AutoAccept \/ ReadLine \/ ReadEof \/ TrayAnswered

World == Relay \/ Drop \/ Incoming \/ Close \/ Type \/ UserClicks

Next == Loop \/ Tray \/ Tick \/ World

Spec == Init /\ [][Next]_vars

\* Goroutines run, time passes and timers fire. Nothing makes the user click or
\* type, or the network come back.
FairSpec ==
    /\ Spec
    /\ WF_vars(Loop) /\ WF_vars(Tick)
    /\ WF_vars(ui = "tray" /\ Confirm /\ UNCHANGED loopVars)
    /\ WF_vars(ui = "tray" /\ Resolve /\ UNCHANGED loopVars)

\* A user of the console who answers whatever is asked.
Reply == loop = "asking" /\ typed = 0 /\ Type
AnsweringSpec == FairSpec /\ WF_vars(Reply)

-----------------------------------------------------------------------------
\* Each failure in a row doubles the wait, up to 30 seconds; one connection
\* that succeeds starts over at one second.
WaitGrows ==
    loop \in {"dial", "sleep"} =>
       LET n == IF loop = "sleep" THEN fails - 1 ELSE fails IN
       backoff = IF n < 5 THEN 2^n ELSE MaxBackoff

\* Once there is a menu it shows the current ID and PIN, in whichever order
\* the menu was built and the host registered.
TitleCurrent == ready /\ named => title = "current"

\* Confirm says yes only for an Accept that took its own channel: one that
\* was held up on the way cannot reach into a later prompt.
YesTaken == confirm = "finishing" /\ answer = "accept" => took

\* With the tray, the user of a host that was idle can answer for as long as
\* the prompt is shown, and the request next in line is still waited for when
\* its own prompt appears: ConfirmTimeout is shorter than acceptTimeout. For
\* one further behind that need not hold.
PromptInTime ==
    confirm = "waiting" =>
       /\ asked.ahead = 0 => asked.left > 0
       /\ asked.ahead = 1 /\ age = 0 => asked.left > 0

\* A host whose relay stays reachable gets registered, and again whenever the
\* connection drops: no prompt, sleep or queue of requests stops it for good.
Reconnects == <>[](relay = "up") => []<>(loop = "serving" /\ conn = "up")

\* What README.md says of the host: it reconnects if the connection drops.
\* ConfirmTimeout, which bounds how long the UI waits, bounds no console.
ConsoleReconnects == (conn = "down") ~> (loop = "dial")
===============================================================================
