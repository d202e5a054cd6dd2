------------------------------ MODULE InputRobot ------------------------------
(***************************************************************************)
(* Mouse and keyboard, from the viewer window (cmd/viewer/game.go) through *)
(* the RFB session that reads it (internal/rfb/server.go) to the one Robot *)
(* of the host program (internal/input), which every session shares: the   *)
(* handler of cmd/host/main.go runs once per viewer let in, and serveLocal *)
(* once per local connection.  A mask is the set of its bits.              *)
(***************************************************************************)
EXTENDS Integers, Sequences, FiniteSets

CONSTANTS
    Sess,            \* RFB sessions
    Button,          \* the mouse buttons used, of left, middle and right
    Key,             \* the keys used, of those NameOf knows
    MaxOpen,         \* sessions open at a time; nothing in the code limits it
    MaxNotches       \* bound: notches the wheel turns in one frame

ASSUME RobotAssumption ==
    /\ Button \subseteq {"left", "middle", "right"}
    /\ Key \subseteq {"a", "shiftLeft", "shiftRight", "capsLock"}
    /\ MaxOpen \in Nat /\ MaxNotches \in Nat \ {0}

VARIABLES
    open,            \* sessions being served
    over,            \* sessions that have ended
    phase,           \* what game.Update sends next
    held,            \* the buttons held in the viewer's window
    mask,            \* the PointerEvent a session is working on
    step,            \* how far PointerEvent is with it, 0: not in it
    prevButtons,     \* Robot.prevButtons
    pressed,         \* buttons the host's machine holds down
    keys,            \* the keys held in the viewer's window
    downs, ups,      \* key changes game.Update has yet to send
    keysDown,        \* key names the host's machine holds down
    left,            \* history: key names a session that ended left down
    due,             \* history: turns of the wheel that have not scrolled yet
    driver,          \* history: {the session whose event was done with last}
    shared           \* history: two sessions were open at once

robotVars == <<prevButtons, pressed, due, driver>>
keyVars == <<keys, downs, ups, keysDown, left>>
vars == <<open, over, shared, phase, held, mask, step, robotVars, keyVars>>

Order == <<"left", "middle", "right">>
Wheel == {"wheelUp", "wheelDown"}
Mask == SUBSET (Button \cup Wheel)

\* keysym and keyName: the name robotgo knows a key by, "" for one that is
\* not sent.  Left and right modifiers have one name.
NameOf(k) == CASE k = "a" -> "a"
               [] k \in {"shiftLeft", "shiftRight"} -> "shift"
               [] OTHER -> ""
Names(ks) == {NameOf(k) : k \in ks} \ {""}

\* The keys whose press was sent and whose release was not.
Sent(s) == (keys[s] \ downs[s]) \cup ups[s]

WheelStep == Len(Order) + 1
SaveStep == Len(Order) + 2

TypeOK ==
    /\ open \subseteq Sess /\ over \subseteq Sess
    /\ phase \in [Sess -> {"move", "press", "release", "keys", "typing"}]
    /\ held \in [Sess -> SUBSET Button]
    /\ mask \in [Sess -> Mask]
    /\ step \in [Sess -> 0..SaveStep]
    /\ prevButtons \in Mask
    /\ pressed \in SUBSET Button
    /\ due \in [Wheel -> Int]
    /\ driver \subseteq open \cup over /\ shared \in BOOLEAN
    /\ keys \in [Sess -> SUBSET Key]
    /\ downs \in [Sess -> SUBSET Key] /\ ups \in [Sess -> SUBSET Key]
    /\ keysDown \subseteq Names(Key) /\ left \subseteq Names(Key)

Init ==
    /\ open = {} /\ over = {}
    /\ phase = [s \in Sess |-> "move"]
    /\ held = [s \in Sess |-> {}]
    /\ mask = [s \in Sess |-> {}]
    /\ step = [s \in Sess |-> 0]
    /\ prevButtons = {} /\ pressed = {}
    /\ due = [w \in Wheel |-> 0]
    /\ driver = {} /\ shared = FALSE
    /\ keys = [s \in Sess |-> {}]
    /\ downs = [s \in Sess |-> {}] /\ ups = [s \in Sess |-> {}]
    /\ keysDown = {} /\ left = {}

-----------------------------------------------------------------------------
\* Mutant of Open: the session begins with a Robot of its own.
OpenAfresh(s) ==
    /\ s \notin open \cup over
    /\ Cardinality(open) < MaxOpen
    /\ open' = open \cup {s}
    /\ shared' = (shared \/ open # {})
    /\ prevButtons' = {}
    /\ UNCHANGED <<over, phase, held, mask, step, pressed, due, driver, keyVars>>

Open(s) ==
    /\ s \notin open \cup over
    /\ Cardinality(open) < MaxOpen
    /\ open' = open \cup {s}
    /\ shared' = (shared \/ open # {})
    /\ UNCHANGED <<over, phase, held, mask, step, robotVars, keyVars>>

\* The viewer is gone. On the machine its buttons and keys stay as they are.
End(s) ==
    /\ s \in open /\ step[s] = 0
    /\ open' = open \ {s}
    /\ over' = over \cup {s}
    /\ left' = left \cup (Names(Sent(s)) \cap keysDown)
    /\ phase' = [phase EXCEPT ![s] = "move"]
    /\ held' = [held EXCEPT ![s] = {}] /\ keys' = [keys EXCEPT ![s] = {}]
    /\ downs' = [downs EXCEPT ![s] = {}] /\ ups' = [ups EXCEPT ![s] = {}]
    /\ UNCHANGED <<shared, mask, step, robotVars, keysDown>>

\* readPointerEvent calls PointerEvent, which starts by moving the cursor.
Event(s, m) ==
    /\ s \in open /\ step[s] = 0
    /\ mask' = [mask EXCEPT ![s] = m]
    /\ step' = [step EXCEPT ![s] = 1]
    /\ UNCHANGED <<open, over, shared, prevButtons, pressed, driver, keyVars>>

\* game.Update, once per frame: the buttons; if the wheel was turned, its bit
\* on top of them and off again; then the keys.
SendPointer(s, buttons) ==
    /\ phase[s] = "move"
    /\ held' = [held EXCEPT ![s] = buttons]
    /\ \E next \in {"move", "press", "keys"} : phase' = [phase EXCEPT ![s] = next]
    /\ Event(s, buttons)
    /\ UNCHANGED due

\* The wheel turned by wy since the last frame. Only its sign is sent: two
\* notches in a frame are one press, as one is.
SendWheel(s, wy) ==
    LET bit == IF wy < 0 THEN "wheelDown" ELSE "wheelUp" IN
    /\ phase[s] = "press" /\ wy # 0
    /\ phase' = [phase EXCEPT ![s] = "release"]
    /\ due' = [due EXCEPT ![bit] = @ + 1]
    /\ Event(s, held[s] \cup {bit})
    /\ UNCHANGED held

SendWheelOff(s) ==
    /\ phase[s] = "release"
    /\ phase' = [phase EXCEPT ![s] = "keys"]
    /\ Event(s, held[s])
    /\ UNCHANGED <<held, due>>

\* The keys as they are now: what was pressed and what was released since.
ReadKeys(s, now) ==
    /\ s \in open /\ step[s] = 0 /\ phase[s] = "keys"
    /\ keys' = [keys EXCEPT ![s] = now]
    /\ downs' = [downs EXCEPT ![s] = now \ keys[s]]
    /\ ups' = [ups EXCEPT ![s] = keys[s] \ now]
    /\ phase' = [phase EXCEPT ![s] = "typing"]
    /\ UNCHANGED <<open, over, shared, held, mask, step, robotVars, keysDown, left>>

\* Mutant of SendKey: a release never gets to the machine.
SendPress(s, k) ==
    /\ s \in open /\ step[s] = 0 /\ phase[s] = "typing"
    /\ k \in downs[s] \cup ups[s]
    /\ downs' = [downs EXCEPT ![s] = @ \ {k}] /\ ups' = [ups EXCEPT ![s] = @ \ {k}]
    /\ keysDown' = IF k \in downs[s] THEN keysDown \cup Names({k}) ELSE keysDown
    /\ UNCHANGED <<open, over, shared, phase, held, mask, step, robotVars, keys, left>>

\* SendKey, readKeyEvent and KeyEvent: the presses first, then the releases.
SendKey(s, k) ==
    /\ s \in open /\ step[s] = 0 /\ phase[s] = "typing"
    /\ \/ /\ k \in downs[s]
          /\ downs' = [downs EXCEPT ![s] = @ \ {k}]
          /\ keysDown' = keysDown \cup Names({k})
          /\ UNCHANGED <<ups, left>>
       \/ /\ downs[s] = {} /\ k \in ups[s]
          /\ ups' = [ups EXCEPT ![s] = @ \ {k}]
          /\ keysDown' = keysDown \ Names({k})
          /\ left' = left \ Names({k})
          /\ UNCHANGED downs
    /\ UNCHANGED <<open, over, shared, phase, held, mask, step, robotVars, keys>>

UpdateEnds(s) ==
    /\ phase[s] = "typing" /\ downs[s] = {} /\ ups[s] = {}
    /\ phase' = [phase EXCEPT ![s] = "move"]
    /\ UNCHANGED <<open, over, shared, held, mask, step, robotVars, keyVars>>

-----------------------------------------------------------------------------
(* PointerEvent *)

Advance(s) == step' = [step EXCEPT ![s] = IF @ = SaveStep THEN 0 ELSE @ + 1]

\* Mutant of Toggled: a button is pressed but never released.
NeverUp(s, b) == IF b \in mask[s] \ prevButtons THEN pressed \cup {b} ELSE pressed

\* toggleButton: only a change against prevButtons reaches the machine.
Toggled(s, b) ==
    CASE b \in mask[s] \ prevButtons -> pressed \cup {b}
      [] b \in prevButtons \ mask[s] -> pressed \ {b}
      [] OTHER -> pressed

ToggleButton(s) ==
    /\ step[s] \in 1..Len(Order)
    /\ pressed' = Toggled(s, Order[step[s]])
    /\ Advance(s)
    /\ UNCHANGED <<open, over, shared, phase, held, mask, prevButtons, due, driver, keyVars>>

\* Mutant of Edges: it scrolls on the edge where the bit goes away, too.
BothEdges(s) == (mask[s] \ prevButtons) \cup (prevButtons \ mask[s])

Edges(s) == mask[s] \ prevButtons

\* ScrollDir by one, on the leading edge.
Scroll(s) ==
    /\ step[s] = WheelStep
    /\ due' = [w \in Wheel |-> IF w \in Edges(s) THEN due[w] - 1 ELSE due[w]]
    /\ Advance(s)
    /\ UNCHANGED <<open, over, shared, phase, held, mask, prevButtons, pressed, driver, keyVars>>

Save(s) ==
    /\ step[s] = SaveStep
    /\ prevButtons' = mask[s]
    /\ driver' = {s}
    /\ mask' = [mask EXCEPT ![s] = {}]
    /\ Advance(s)
    /\ UNCHANGED <<open, over, shared, phase, held, pressed, due, keyVars>>

Robot(s) == ToggleButton(s) \/ Scroll(s) \/ Save(s)

Viewer(s) ==
    \/ (\E buttons \in SUBSET Button : SendPointer(s, buttons))
    \/ (\E wy \in -MaxNotches..MaxNotches : SendWheel(s, wy))
    \/ SendWheelOff(s)
    \/ (\E now \in SUBSET Key : ReadKeys(s, now))
    \/ (\E k \in Key : SendKey(s, k))
    \/ UpdateEnds(s)

Next == \E s \in Sess : Open(s) \/ End(s) \/ Viewer(s) \/ Robot(s)

Spec == Init /\ [][Next]_vars

-----------------------------------------------------------------------------
(* Properties.  With two sessions at once all bets on the Robot are off, see *)
(* SingleGoroutine: what is said of it is said until then.                   *)

Quiet == \A s \in Sess : step[s] = 0

\* Between events the machine holds down the buttons that the window of the
\* last event holds, also when a session before it ended with buttons held.
ButtonsAsHeld ==
    Quiet /\ ~shared => \A s \in driver \cap open : pressed = held[s]

\* No other key has the name of this one.
Alone(k) == \A l \in Key : NameOf(l) = NameOf(k) => l = k

\* However many sessions there are, a key is down only if a window still open
\* sent the press of one of that name and not the release, or a session ended
\* like that and no release of the name was sent since. And with one session at
\* a time a key that was pressed and not released is down, unless it shares its
\* name: the two Shift keys go up together.
KeysAsHeld ==
    /\ \A n \in keysDown : n \in left \/ \E s \in open : n \in Names(Sent(s))
    /\ ~shared => \A s \in open : \A k \in Sent(s) : Alone(k) => Names({k}) \subseteq keysDown

\* The machine holds down what the windows hold; buttons that a session left
\* down come up with the next one's first event, keys when their release is sent.
PressedAsHeld == ButtonsAsHeld /\ KeysAsHeld

\* A frame in which the wheel was turned scrolls once, in the direction of the
\* turn, whatever buttons are held and also if the session before ended between
\* the press and the release of the wheel. Not once per notch.
OneScrollPerTurn == Quiet /\ ~shared => \A w \in Wheel : due[w] = 0

\* What Robot says of itself: the RFB session drives it from a single
\* goroutine, it is not for concurrent use.
SingleGoroutine == Cardinality({s \in Sess : step[s] # 0}) <= 1
===============================================================================
