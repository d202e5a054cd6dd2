------------------------------- MODULE Systray -------------------------------
(***************************************************************************)
(* The tray front-end of the host, internal/tray/systray.go.  Three        *)
(* goroutines meet in it under SystrayUI.mu: the main one builds the menu  *)
(* (onReady), the one of serveWithReconnect shows the identity and asks    *)
(* for consent (SetIdentity, Confirm), and the one onReady starts receives *)
(* the clicks (resolve).  A critical section is one step.  Quit, which     *)
(* ends the process, is left out.                                          *)
(*                                                                         *)
(* Result channels are told apart only as that of the latest Confirm       *)
(* ("current") and those of Confirms before it ("old"), which nobody reads *)
(* any more.                                                               *)
(***************************************************************************)
EXTENDS Naturals

VARIABLES
    ready,           \* SystrayUI.ready
    named,           \* SystrayUI.id is set
    title,           \* what the ID and PIN items say, of an identity
    items,           \* Accept and Reject are shown
    confirm,         \* Confirm: "idle", "waiting", "finishing", "returned"
    age,             \* time since its timer was started
    pending,         \* SystrayUI.pending: whose result channel
    channel,         \* the current one, which is buffered; "" when empty
    answer,          \* what the latest Confirm returns
    clicker,         \* the click goroutine: "select", "resolve", "put"
    button,          \* the button it received
    held,            \* resolve's local ch: whose channel
    took             \* history: an Accept took the current channel

menuVars == <<ready, named, title>>
clickVars == <<clicker, button, held>>
trayVars == <<menuVars, items, confirm, age, pending, channel, answer, clickVars, took>>

Button == {"accept", "reject"}
Channel == {"none", "old", "current"}

\* Units of 15 seconds.
ConfirmTimeout == 3

TrayInit ==
    /\ ready = FALSE /\ named = FALSE /\ title = "none"
    /\ items = FALSE
    /\ confirm = "idle" /\ age = 0
    /\ pending = "none" /\ channel = "" /\ answer = "reject"
    /\ clicker = "select" /\ button = "reject" /\ held = "none"
    /\ took = FALSE

-----------------------------------------------------------------------------
\* Mutant of FirstTitle: the identity set before the menu existed is not shown.
NoTitle == title

FirstTitle == IF named THEN "current" ELSE title

OnReady ==
    /\ ~ready
    /\ ready' = TRUE
    /\ title' = FirstTitle
    /\ UNCHANGED <<named, items, confirm, age, pending, channel, answer, clickVars, took>>

\* The host has registered again, with another ID and PIN.
SetIdentity ==
    /\ named' = TRUE
    /\ title' = IF ready THEN "current" ELSE title
    /\ UNCHANGED <<ready, items, confirm, age, pending, channel, answer, clickVars, took>>

\* Mutant of Fresh: one result channel for all prompts.
Shared(c) == c

\* A channel that was held or pending is none of the new prompt.
Fresh(c) == IF c = "current" THEN "old" ELSE c

\* Confirm, up to its select. Before onReady it returns false.
Ask ==
    /\ confirm = "idle"
    /\ \/ /\ ready
          /\ confirm' = "waiting"
          /\ items' = TRUE
          /\ pending' = "current"
          /\ held' = Fresh(held)
          /\ channel' = IF Fresh("current") = "old" THEN "" ELSE channel
          /\ UNCHANGED answer
       \/ /\ ~ready
          /\ confirm' = "returned"
          /\ answer' = "reject"
          /\ UNCHANGED <<items, pending, held, channel>>
    /\ age' = 0
    /\ took' = FALSE
    /\ UNCHANGED <<menuVars, clicker, button>>

\* The select of Confirm: both cases may be ready, and then either is taken.
Decide ==
    /\ confirm = "waiting"
    /\ channel # ""
    /\ answer' = channel
    /\ channel' = ""
    /\ confirm' = "finishing"
    /\ UNCHANGED <<menuVars, items, age, pending, clickVars, took>>

\* Mutant of TimesOut: a tray that waits for its user.
WaitsForUser == FALSE

\* Mutant of TimesOut: its timeout is as long as the relay's.
AsLong == age >= ConfirmTimeout + 1

TimesOut == age >= ConfirmTimeout

TimeOut ==
    /\ confirm = "waiting"
    /\ TimesOut
    /\ answer' = "reject"
    /\ confirm' = "finishing"
    /\ UNCHANGED <<menuVars, items, age, pending, channel, clickVars, took>>

\* finishConfirm hides the items; pending stays as it is.
FinishConfirm ==
    /\ confirm = "finishing"
    /\ items' = FALSE
    /\ confirm' = "returned"
    /\ UNCHANGED <<menuVars, age, pending, channel, answer, clickVars, took>>

-----------------------------------------------------------------------------
\* The user clicks an item that is shown. systray hands the click over if the
\* goroutine is at its select, and drops it otherwise.
Click(b) ==
    /\ items
    /\ clicker = "select"
    /\ clicker' = "resolve"
    /\ button' = b
    /\ UNCHANGED <<menuVars, items, confirm, age, pending, channel, answer, held, took>>

\* resolve, under the mutex: take the channel that is pending now.
Take ==
    /\ clicker = "resolve"
    /\ held' = pending
    /\ pending' = "none"
    /\ took' = (took \/ (pending = "current" /\ button = "accept"))
    /\ clicker' = IF pending = "none" THEN "select" ELSE "put"
    /\ UNCHANGED <<menuVars, items, confirm, age, channel, answer, button>>

\* resolve, after it: the put does not wait.
Put ==
    /\ clicker = "put"
    /\ channel' = IF held = "current" /\ channel = "" THEN button ELSE channel
    /\ clicker' = "select"
    /\ held' = "none"
    /\ UNCHANGED <<menuVars, items, confirm, age, pending, answer, button, took>>

Confirm == Decide \/ TimeOut \/ FinishConfirm
Resolve == Take \/ Put
===============================================================================
