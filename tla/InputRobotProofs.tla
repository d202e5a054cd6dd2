--------------------------- MODULE InputRobotProofs ---------------------------
(***************************************************************************)
(* Proofs about module InputRobot, for any number of sessions: what the    *)
(* host's machine holds down and how it has scrolled is what the viewers   *)
(* sent, until two sessions are open at once; what of it is about keys no  *)
(* window holds, then too.                                                 *)
(***************************************************************************)
EXTENDS InputRobot, TLAPS

RobotType ==
    /\ open \subseteq Sess /\ over \subseteq Sess /\ driver \subseteq open \cup over
    /\ shared \in BOOLEAN
    /\ phase \in [Sess -> {"move", "press", "release", "keys", "typing"}]
    /\ held \in [Sess -> SUBSET Button] /\ mask \in [Sess -> Mask]
    /\ step \in [Sess -> 0..5]
    /\ prevButtons \in Mask /\ pressed \in SUBSET Button
    /\ due \in [Wheel -> Int]
    /\ keys \in [Sess -> SUBSET Key]
    /\ downs \in [Sess -> SUBSET Key] /\ ups \in [Sess -> SUBSET Key]

\* Nothing is left of a session that is over.
Idle ==
    \A s \in Sess : s \notin open =>
       step[s] = 0 /\ phase[s] = "move" /\ keys[s] = {} /\ downs[s] = {} /\ ups[s] = {}

\* While its changes are being sent, a viewer's keys are those it holds and
\* those it has let go of.
KeyInv ==
    /\ \A s \in Sess :
          /\ downs[s] \subseteq keys[s] /\ ups[s] \cap keys[s] = {}
          /\ phase[s] # "typing" => downs[s] = {} /\ ups[s] = {}
    /\ \A n \in keysDown : n \in left \/ \E s \in open : n \in Names(Sent(s))

OneAtATime == \A s, t \in open : s = t

\* The buttons PointerEvent has been through are as its mask says, the others
\* as they were before.
Passed(s, b) == \E i \in 1..3 : i < step[s] /\ Order[i] = b
ButtonInv ==
    /\ Quiet => /\ pressed = prevButtons \cap Button
                /\ \A s \in driver \cap open : pressed = held[s]
    /\ \A s \in Sess : step[s] # 0 =>
          /\ mask[s] \cap Button = held[s]
          /\ \A b \in Button :
                b \in pressed <=> b \in IF Passed(s, b) THEN mask[s] ELSE prevButtons

\* A turn of the wheel is due until Scroll is done. A wheel bit is only sent when
\* the event before had none.
WheelInv ==
    /\ Quiet => \A w \in Wheel : due[w] = 0
    /\ \A s \in Sess : step[s] # 0 =>
          \A w \in Wheel : due[w] = IF step[s] # 5 /\ w \in Edges(s) THEN 1 ELSE 0
    /\ \A s \in Sess : phase[s] = "press" =>
          (IF step[s] = 0 THEN prevButtons ELSE mask[s]) \cap Wheel = {}

HeldDown == \A s \in open : \A k \in Sent(s) : Alone(k) => Names({k}) \subseteq keysDown

RobotInv ==
    /\ RobotType /\ Idle /\ KeyInv
    /\ ~shared => OneAtATime /\ ButtonInv /\ WheelInv /\ HeldDown

-----------------------------------------------------------------------------
LEMMA Steps == Len(Order) = 3 /\ WheelStep = 4 /\ SaveStep = 5
  BY DEF Order, WheelStep, SaveStep

LEMMA RobotInit == Init => RobotInv
  <1> SUFFICES ASSUME Init
               PROVE  RobotInv
    OBVIOUS
  <1>1. RobotType
    <2>1. due \in [Wheel -> Int]
      BY DEF Init
    <2>2. step \in [Sess -> 0..5] /\ prevButtons \in Mask /\ mask \in [Sess -> Mask]
      BY DEF Init, Mask
    <2> QED
      BY <2>1, <2>2 DEF Init, RobotType
  <1>2. Idle /\ KeyInv
    BY DEF Init, Idle, KeyInv
  <1>3. OneAtATime /\ ButtonInv /\ WheelInv /\ HeldDown
    BY DEF Init, OneAtATime, ButtonInv, WheelInv, HeldDown, Quiet
  <1> QED
    BY <1>1, <1>2, <1>3 DEF RobotInv

\* Whoever acts is open.
LEMMA ActsOpen ==
  ASSUME Idle, NEW s \in Sess, Viewer(s) \/ Robot(s) \/ End(s)
  PROVE  /\ s \in open
         /\ Robot(s) => step[s] \in 1..5
         /\ ~Robot(s) /\ ~UpdateEnds(s) => step[s] = 0
  <1>1. Robot(s) => step[s] \in 1..5
    BY Steps DEF Robot, ToggleButton, Scroll, Save
  <1>2. ~Robot(s) /\ ~UpdateEnds(s) => step[s] = 0
    BY DEF Viewer, End, SendPointer, SendWheel, SendWheelOff, Event, ReadKeys, SendKey
  <1>3. CASE End(s)
    BY <1>1, <1>2, <1>3 DEF End
  <1>4. CASE Viewer(s) /\ ~UpdateEnds(s)
    BY <1>1, <1>2, <1>4 DEF Viewer, SendPointer, SendWheel, SendWheelOff, Event, ReadKeys, SendKey
  <1>5. CASE UpdateEnds(s)
    BY <1>1, <1>2, <1>5 DEF UpdateEnds, Idle
  <1>6. CASE Robot(s)
    BY <1>1, <1>2, <1>6 DEF Idle
  <1> QED
    BY <1>3, <1>4, <1>5, <1>6

\* With one session at a time it is the only one.
LEMMA ActsAlone ==
  ASSUME RobotInv, ~shared, NEW s \in Sess, Viewer(s) \/ Robot(s) \/ End(s)
  PROVE  open = {s} /\ \A t \in Sess : t # s => step[t] = 0
  BY ActsOpen DEF RobotInv, OneAtATime, Idle

\* While sessions have come one at a time, there is none when one is opened.
LEMMA OpenedAlone ==
  ASSUME NEW s, Open(s) \/ End(s) \/ Viewer(s) \/ Robot(s), ~shared', shared \in BOOLEAN
  PROVE  ~shared /\ (Open(s) => open = {})
  <1>1. CASE Open(s)
    <2>1. shared' = (shared \/ open # {})
      BY <1>1 DEF Open
    <2> QED
      BY <2>1
  <1>2. CASE ~Open(s)
    <2>1. shared' = shared
      BY <1>2 DEF End, Viewer, Robot, SendPointer, SendWheel, SendWheelOff, Event, ReadKeys, SendKey,
                  UpdateEnds, ToggleButton, Scroll, Save
    <2> QED
      BY <1>2, <2>1
  <1> QED
    BY <1>1, <1>2

LEMMA TypeStep ==
  ASSUME RobotType, NEW s \in Sess, Open(s) \/ End(s) \/ Viewer(s) \/ Robot(s),
         Robot(s) => s \in open
  PROVE  RobotType'
  <1> USE DEF RobotType, robotVars, keyVars
  <1>1. CASE Open(s)
    BY <1>1 DEF Open
  <1>2. CASE End(s)
    BY <1>2 DEF End
  <1>3. ASSUME NEW m \in Mask, Event(s, m), held' \in [Sess -> SUBSET Button],
               due' \in [Wheel -> Int],
               phase' \in [Sess -> {"move", "press", "release", "keys", "typing"}]
        PROVE  RobotType'
    BY <1>3 DEF Event
  <1>4. ASSUME NEW buttons \in SUBSET Button, SendPointer(s, buttons)
        PROVE  RobotType'
    <2>1. buttons \in Mask
      BY DEF Mask
    <2>2. PICK next \in {"move", "press", "keys"} : phase' = [phase EXCEPT ![s] = next]
      BY <1>4 DEF SendPointer
    <2> QED
      BY <1>3, <1>4, <2>1, <2>2 DEF SendPointer
  <1>5. ASSUME NEW wy \in -MaxNotches..MaxNotches, SendWheel(s, wy)
        PROVE  RobotType'
    <2> DEFINE bit == IF wy < 0 THEN "wheelDown" ELSE "wheelUp"
    <2>1. held[s] \cup {bit} \in Mask /\ bit \in Wheel
      BY DEF Mask, Wheel
    <2>2. due' \in [Wheel -> Int]
      BY <1>5, <2>1 DEF SendWheel
    <2> QED
      BY <1>3, <1>5, <2>1, <2>2 DEF SendWheel
  <1>6. CASE SendWheelOff(s)
    <2>1. held[s] \in Mask
      BY DEF Mask
    <2> QED
      BY <1>3, <1>6, <2>1 DEF SendWheelOff
  <1>7. ASSUME NEW now \in SUBSET Key, ReadKeys(s, now)
        PROVE  RobotType'
    BY <1>7 DEF ReadKeys
  <1>8. ASSUME NEW k \in Key, SendKey(s, k)
        PROVE  RobotType'
    BY <1>8 DEF SendKey
  <1>9. CASE UpdateEnds(s)
    BY <1>9 DEF UpdateEnds
  <1>10. CASE Robot(s)
    <2>1. step' \in [Sess -> 0..5]
      BY <1>10, Steps DEF Robot, ToggleButton, Scroll, Save, Advance
    <2>2. CASE ToggleButton(s)
      <3>1. pressed' \in SUBSET Button
        <4> DEFINE b == Order[step[s]]
        <4>1. b \in {"left", "middle", "right"}
          BY <2>2, Steps DEF ToggleButton, Order
        <4>2. b \in mask[s] => b \in Button
          BY <4>1 DEF Mask, Wheel
        <4>3. /\ pressed' \in {pressed \cup {b}, pressed \ {b}, pressed}
              /\ (pressed' = pressed \cup {b} => b \in mask[s] \/ pressed' = pressed)
          BY <2>2 DEF ToggleButton, Toggled
        <4> HIDE DEF b
        <4> QED
          BY <4>2, <4>3
      <3> QED
        BY <2>1, <2>2, <3>1 DEF ToggleButton
    <2>3. CASE Scroll(s)
      <3>1. due' \in [Wheel -> Int]
        BY <2>3 DEF Scroll
      <3> QED
        BY <2>1, <2>3, <3>1 DEF Scroll
    <2>4. CASE Save(s)
      <3>1. mask' \in [Sess -> Mask]
        BY <2>4 DEF Save, Mask
      <3> QED
        BY <1>10, <2>1, <2>4, <3>1 DEF Save
    <2> QED
      BY <1>10, <2>2, <2>3, <2>4 DEF Robot
  <1> QED
    BY <1>1, <1>2, <1>4, <1>5, <1>6, <1>7, <1>8, <1>9, <1>10 DEF Viewer

\* What a step changes of other sessions, or of this one beyond its own matter.
LEMMA Others ==
  ASSUME RobotType, NEW s \in Sess, Open(s) \/ End(s) \/ Viewer(s) \/ Robot(s)
  PROVE  \A t \in Sess : t # s =>
            /\ step'[t] = step[t] /\ phase'[t] = phase[t] /\ held'[t] = held[t]
            /\ keys'[t] = keys[t] /\ downs'[t] = downs[t] /\ ups'[t] = ups[t]
  <1> USE DEF RobotType
  <1>1. \A t \in Sess : t # s => step'[t] = step[t]
    BY DEF Open, End, Viewer, Robot, SendPointer, SendWheel, SendWheelOff, Event, ReadKeys, SendKey,
           UpdateEnds, ToggleButton, Scroll, Save, Advance
  <1>2. \A t \in Sess : t # s => phase'[t] = phase[t]
    BY DEF Open, End, Viewer, Robot, SendPointer, SendWheel, SendWheelOff, ReadKeys, SendKey,
           UpdateEnds, ToggleButton, Scroll, Save
  <1>3. \A t \in Sess : t # s => held'[t] = held[t]
    BY DEF Open, End, Viewer, Robot, SendPointer, SendWheel, SendWheelOff, ReadKeys, SendKey,
           UpdateEnds, ToggleButton, Scroll, Save
  <1>4. \A t \in Sess : t # s => keys'[t] = keys[t] /\ downs'[t] = downs[t] /\ ups'[t] = ups[t]
    <2>1. CASE UNCHANGED keyVars
      BY <2>1 DEF keyVars
    <2>2. CASE \E now \in SUBSET Key : ReadKeys(s, now)
      BY <2>2 DEF ReadKeys
    <2>3. CASE \E k \in Key : SendKey(s, k)
      BY <2>3 DEF SendKey
    <2>4. CASE End(s)
      BY <2>4 DEF End
    <2> QED
      BY <2>1, <2>2, <2>3, <2>4 DEF Open, Viewer, Robot, SendPointer, SendWheel, SendWheelOff, Event,
                         UpdateEnds, ToggleButton, Scroll, Save
  <1> QED
    BY <1>1, <1>2, <1>3, <1>4

LEMMA IdleStep ==
  ASSUME RobotType, Idle, NEW s \in Sess, Open(s) \/ End(s) \/ Viewer(s) \/ Robot(s)
  PROVE  Idle'
  <1> USE DEF Idle
  <1>1. CASE Open(s)
    BY <1>1 DEF Open, keyVars
  <1>2. CASE End(s)
    BY <1>2 DEF End, RobotType
  <1>3. CASE Viewer(s) \/ Robot(s)
    <2>1. s \in open /\ open' = open
      BY <1>3, ActsOpen DEF Viewer, Robot, SendPointer, SendWheel, SendWheelOff, Event, ReadKeys,
           SendKey, UpdateEnds, ToggleButton, Scroll, Save
    <2> QED
      BY <2>1, Others
  <1> QED
    BY <1>1, <1>2, <1>3

LEMMA AloneStep ==
  ASSUME RobotInv, NEW s \in Sess, Open(s) \/ End(s) \/ Viewer(s) \/ Robot(s), ~shared'
  PROVE  OneAtATime'
  <1>1. ~shared /\ OneAtATime /\ (Open(s) => open = {})
    BY OpenedAlone DEF RobotInv, RobotType
  <1>2. open' \subseteq open \/ Open(s)
    BY DEF End, Viewer, Robot, SendPointer, SendWheel, SendWheelOff, Event, ReadKeys,
           SendKey, UpdateEnds, ToggleButton, Scroll, Save
  <1> QED
    BY <1>1, <1>2 DEF OneAtATime, Open

\* An event is begun when no other is being worked on.
LEMMA EventStarts ==
  ASSUME RobotInv, ~shared, NEW s \in Sess, NEW m, Event(s, m), Viewer(s)
  PROVE  step'[s] = 1 /\ (\A t \in Sess : t # s => step'[t] = 0) /\ Quiet /\ ~Quiet'
  <1>1. step[s] = 0 /\ step' = [step EXCEPT ![s] = 1]
    BY DEF Event
  <1>2. \A t \in Sess : t # s => step[t] = 0
    BY ActsAlone
  <1> QED
    BY <1>1, <1>2 DEF RobotInv, RobotType, Quiet

\* The steps of PointerEvent come one after the other, of one event at a time.
LEMMA NextStep ==
  ASSUME RobotInv, ~shared, NEW s \in Sess, Robot(s)
  PROVE  /\ step[s] \in 1..5
         /\ step'[s] = IF step[s] = 5 THEN 0 ELSE step[s] + 1
         /\ \A t \in Sess : t # s => step'[t] = 0
         /\ Quiet' <=> step[s] = 5
         /\ ToggleButton(s) <=> step[s] \in 1..3
         /\ Scroll(s) <=> step[s] = 4
         /\ Save(s) <=> step[s] = 5
  <1>1. /\ ToggleButton(s) => step[s] \in 1..3
        /\ Scroll(s) => step[s] = 4
        /\ Save(s) => step[s] = 5
    BY Steps DEF ToggleButton, Scroll, Save
  <1>2. step' = [step EXCEPT ![s] = IF step[s] = 5 THEN 0 ELSE step[s] + 1]
    BY Steps DEF Robot, ToggleButton, Scroll, Save, Advance
  <1>3. \A t \in Sess : t # s => step[t] = 0
    BY ActsAlone
  <1>4. /\ step'[s] = IF step[s] = 5 THEN 0 ELSE step[s] + 1
        /\ \A t \in Sess : t # s => step'[t] = 0
    BY <1>2, <1>3 DEF RobotInv, RobotType
  <1>5. step[s] \in 1..5
    BY <1>1 DEF Robot
  <1>6. Quiet' <=> step[s] = 5
    BY <1>4, <1>5 DEF Quiet
  <1> QED
    BY <1>1, <1>4, <1>5, <1>6 DEF Robot

\* How far PointerEvent has come with the buttons.
LEMMA PassedFacts ==
  ASSUME NEW s \in Sess, NEW b \in Button
  PROVE  /\ step[s] \in {0, 1} => ~Passed(s, b)
         /\ step[s] \in {4, 5} => Passed(s, b)
         /\ \A k \in 1..3 : step[s] = k => (Passed(s, b) => Order[k] # b)
         /\ \A k \in 1..3 : step[s] = k /\ step'[s] = k + 1 =>
               (Passed(s, b)' <=> (Passed(s, b) \/ Order[k] = b))
  <1>1. b \in {"left", "middle", "right"}
    BY RobotAssumption
  <1>2. Order[1] = "left" /\ Order[2] = "middle" /\ Order[3] = "right"
    BY DEF Order
  <1>3. \A i \in 1..3 : i = 1 \/ i = 2 \/ i = 3
    OBVIOUS
  <1>4. step[s] \in {0, 1} => ~Passed(s, b)
    BY DEF Passed
  <1>5. step[s] \in {4, 5} => Passed(s, b)
    BY <1>1, <1>2 DEF Passed
  <1>6. ASSUME NEW k \in 1..3, step[s] = k, Passed(s, b)
        PROVE  Order[k] # b
    BY <1>2, <1>3, <1>6 DEF Passed
  <1>7. ASSUME NEW k \in 1..3, step[s] = k, step'[s] = k + 1
        PROVE  Passed(s, b)' <=> (Passed(s, b) \/ Order[k] = b)
    <2>1. Order' = Order
      BY DEF Order
    <2>2. \A i \in 1..3 : i < k + 1 <=> i < k \/ i = k
      OBVIOUS
    <2> QED
      BY <1>7, <2>1, <2>2 DEF Passed
  <1> QED
    BY <1>4, <1>5, <1>6, <1>7

LEMMA ButtonStep ==
  ASSUME RobotInv, NEW s \in Sess, Open(s) \/ End(s) \/ Viewer(s) \/ Robot(s), ~shared'
  PROVE  ButtonInv'
  <1>1. RobotType /\ ~shared /\ ButtonInv /\ OneAtATime /\ (Open(s) => open = {})
    BY OpenedAlone DEF RobotInv, RobotType
  <1> USE <1>1
  <1>2. ASSUME UNCHANGED <<step, mask, prevButtons, pressed, held, driver>>,
               driver \cap open' \subseteq driver \cap open
        PROVE  ButtonInv'
    BY <1>2 DEF ButtonInv, Quiet, Passed
  <1>3. ASSUME NEW m, Event(s, m), Viewer(s), held'[s] = m \cap Button, m \in Mask
        PROVE  ButtonInv'
    <2>1. UNCHANGED <<prevButtons, pressed>> /\ mask'[s] = m
      BY <1>3 DEF Event, RobotType
    <2>2. step'[s] = 1 /\ (\A t \in Sess : t # s => step'[t] = 0) /\ Quiet /\ ~Quiet'
      BY <1>3, EventStarts
    <2>3. \A b \in Button : ~Passed(s, b)'
      BY <2>2 DEF Passed
    <2>4. pressed = prevButtons \cap Button
      BY <2>2 DEF ButtonInv
    <2> QED
      BY <1>3, <2>1, <2>2, <2>3, <2>4 DEF ButtonInv
  <1>4. CASE Robot(s)
    <2> DEFINE k == step[s]
    <2>1. /\ k \in 1..5
          /\ step'[s] = IF k = 5 THEN 0 ELSE k + 1
          /\ \A t \in Sess : t # s => step'[t] = 0
          /\ k = 5 <=> Quiet'
      BY <1>4, NextStep
    <2>2. /\ mask[s] \cap Button = held[s] /\ held' = held
          /\ \A b \in Button : b \in pressed <=> b \in IF Passed(s, b) THEN mask[s] ELSE prevButtons
      BY <1>4, <2>1 DEF ButtonInv, Robot, ToggleButton, Scroll, Save
    <2>3. CASE ToggleButton(s)
      <3>1. k \in 1..3 /\ pressed' = Toggled(s, Order[k]) /\ UNCHANGED <<mask, prevButtons>>
        BY <1>4, <2>3, NextStep DEF ToggleButton
      <3>2. step'[s] = k + 1 /\ ~Quiet'
        BY <2>1, <3>1
      <3>3. ASSUME NEW b \in Button
            PROVE  b \in pressed' <=> b \in IF Passed(s, b)' THEN mask[s] ELSE prevButtons
        <4>1. Passed(s, b)' <=> (Passed(s, b) \/ Order[k] = b)
          BY <3>1, <3>2, PassedFacts
        <4>2. CASE Order[k] = b
          <5>1. ~Passed(s, b)
            BY <3>1, <4>2, PassedFacts
          <5>2. b \in pressed <=> b \in prevButtons
            BY <2>2, <5>1
          <5>3. pressed' = Toggled(s, b)
            BY <3>1, <4>2
          <5>4. b \in pressed' <=> b \in mask[s]
            BY <5>2, <5>3 DEF Toggled
          <5> QED
            BY <4>1, <4>2, <5>4
        <4>3. CASE Order[k] # b
          <5>1. b \in pressed' <=> b \in pressed
            BY <3>1, <4>3 DEF Toggled
          <5> QED
            BY <2>2, <4>1, <4>3, <5>1
        <4> QED
          BY <4>2, <4>3
      <3> QED
        BY <2>1, <2>2, <3>1, <3>2, <3>3 DEF ButtonInv
    <2>4. CASE Scroll(s)
      <3>1. k = 4 /\ step'[s] = 5 /\ ~Quiet' /\ UNCHANGED <<mask, prevButtons, pressed>>
        BY <1>4, <2>1, <2>4, NextStep DEF Scroll
      <3>2. \A b \in Button : Passed(s, b)
        BY <3>1, PassedFacts
      <3>3. \A b \in Button : Passed(s, b)'
        BY <3>1, <3>2 DEF Passed, Order
      <3> QED
        BY <2>1, <2>2, <3>1, <3>2, <3>3 DEF ButtonInv
    <2>5. CASE Save(s)
      <3>1. /\ k = 5 /\ Quiet' /\ (\A t \in Sess : step'[t] = 0)
            /\ prevButtons' = mask[s] /\ pressed' = pressed /\ driver' = {s}
        BY <1>4, <2>1, <2>5, NextStep DEF Save
      <3>2. \A b \in Button : b \in pressed <=> b \in mask[s]
        BY <2>2, <3>1, PassedFacts
      <3>3. pressed = mask[s] \cap Button
        BY <3>2 DEF RobotType
      <3> QED
        BY <2>2, <3>1, <3>3 DEF ButtonInv
    <2> QED
      BY <1>4, <2>3, <2>4, <2>5 DEF Robot
  <1>5. CASE Open(s)
    <2>1. driver \cap open' = {}
      BY <1>5 DEF Open, RobotType
    <2> QED
      BY <1>2, <1>5, <2>1 DEF Open, robotVars
  <1>6. CASE End(s)
    <2>1. open = {s} /\ open' = {} /\ \A t \in Sess : step[t] = 0
      BY <1>6, ActsAlone DEF End
    <2> QED
      BY <1>6, <2>1 DEF End, robotVars, ButtonInv, Quiet
  <1>7. ASSUME NEW buttons \in SUBSET Button, SendPointer(s, buttons), Viewer(s)
        PROVE  ButtonInv'
    <2>1. held'[s] = buttons \cap Button /\ buttons \in Mask
      BY <1>7 DEF SendPointer, RobotType, Mask
    <2> QED
      BY <1>3, <1>7, <2>1 DEF SendPointer
  <1>8. ASSUME NEW wy \in -MaxNotches..MaxNotches, SendWheel(s, wy), Viewer(s)
        PROVE  ButtonInv'
    <2> DEFINE bit == IF wy < 0 THEN "wheelDown" ELSE "wheelUp"
    <2>1. bit \in Wheel /\ bit \notin Button
      BY RobotAssumption DEF Wheel
    <2>2. held[s] \subseteq Button /\ held[s] \cup {bit} \in Mask
      BY <2>1 DEF RobotType, Mask
    <2>3. held'[s] = (held[s] \cup {bit}) \cap Button
      BY <1>8, <2>1, <2>2 DEF SendWheel
    <2> QED
      BY <1>3, <1>8, <2>2, <2>3 DEF SendWheel
  <1>9. CASE SendWheelOff(s) /\ Viewer(s)
    <2>1. held'[s] = held[s] \cap Button /\ held[s] \in Mask
      BY <1>9 DEF SendWheelOff, RobotType, Mask
    <2> QED
      BY <1>3, <1>9, <2>1 DEF SendWheelOff
  <1>10. CASE (\E now \in SUBSET Key : ReadKeys(s, now)) \/ (\E k \in Key : SendKey(s, k)) \/ UpdateEnds(s)
    BY <1>2, <1>10 DEF ReadKeys, SendKey, UpdateEnds, robotVars
  <1> QED
    BY <1>4, <1>5, <1>6, <1>7, <1>8, <1>9, <1>10 DEF Viewer

LEMMA WheelInvStep ==
  ASSUME RobotInv, NEW s \in Sess, Open(s) \/ End(s) \/ Viewer(s) \/ Robot(s), ~shared'
  PROVE  WheelInv'
  <1>1. RobotType /\ ~shared /\ WheelInv /\ Idle
    BY OpenedAlone DEF RobotInv, RobotType
  <1> USE <1>1
  <1>2. CASE \/ Open(s) \/ End(s) \/ (\E now \in SUBSET Key : ReadKeys(s, now))
             \/ (\E k \in Key : SendKey(s, k)) \/ UpdateEnds(s)
    <2>1. UNCHANGED <<step, mask, prevButtons, due>>
      BY <1>2 DEF Open, End, ReadKeys, SendKey, UpdateEnds, robotVars
    <2>2. \A t \in Sess : phase'[t] = "press" => phase[t] = "press"
      BY <1>2 DEF RobotType, Open, End, ReadKeys, SendKey, UpdateEnds
    <2> QED
      BY <2>1, <2>2 DEF WheelInv, Quiet, Edges
  <1>3. ASSUME NEW m, Event(s, m), Viewer(s), m \cap Wheel = {} \/ phase'[s] # "press",
               \A w \in Wheel : due'[w] = due[w] + IF w \in m \ prevButtons THEN 1 ELSE 0
        PROVE  WheelInv'
    <2>1. UNCHANGED prevButtons /\ mask'[s] = m
      BY <1>3 DEF Event, RobotType
    <2>2. step'[s] = 1 /\ (\A t \in Sess : t # s => step'[t] = 0) /\ Quiet /\ ~Quiet'
      BY <1>3, EventStarts
    <2>3. \A w \in Wheel : due[w] = 0
      BY <2>2 DEF WheelInv
    <2>4. Edges(s)' = m \ prevButtons
      BY <2>1 DEF Edges
    <2>5. \A w \in Wheel : due'[w] = IF w \in Edges(s)' THEN 1 ELSE 0
      BY <1>3, <2>3, <2>4
    <2>6. \A t \in Sess : t # s => phase'[t] # "press"
      BY <1>3, ActsAlone, Others DEF Idle
    <2>7. \A t \in Sess : step'[t] # 0 =>
            \A w \in Wheel : due'[w] = IF step'[t] # 5 /\ w \in Edges(t)' THEN 1 ELSE 0
      BY <2>2, <2>5
    <2>8. \A t \in Sess : phase'[t] = "press" =>
            (IF step'[t] = 0 THEN prevButtons' ELSE mask'[t]) \cap Wheel' = {}
      BY <1>3, <2>1, <2>2, <2>6 DEF Wheel
    <2> QED
      BY <2>2, <2>7, <2>8 DEF WheelInv, Wheel
  <1>4. ASSUME NEW buttons \in SUBSET Button, SendPointer(s, buttons), Viewer(s)
        PROVE  WheelInv'
    <2>1. buttons \cap Wheel = {}
      BY RobotAssumption DEF Wheel
    <2>2. \A w \in Wheel : due'[w] = due[w] + IF w \in buttons \ prevButtons THEN 1 ELSE 0
      BY <1>4, <2>1 DEF SendPointer, RobotType
    <2> QED
      BY <1>3, <1>4, <2>1, <2>2 DEF SendPointer
  <1>5. ASSUME NEW wy \in -MaxNotches..MaxNotches, SendWheel(s, wy), Viewer(s)
        PROVE  WheelInv'
    <2> DEFINE bit == IF wy < 0 THEN "wheelDown" ELSE "wheelUp"
               m == held[s] \cup {bit}
    <2>1. held[s] \cap Wheel = {} /\ bit \in Wheel
      BY RobotAssumption DEF Wheel, RobotType
    <2>2. prevButtons \cap Wheel = {}
      BY <1>5 DEF SendWheel, Event, WheelInv
    <2>3. \A w \in Wheel : w \in m \ prevButtons <=> w = bit
      BY <2>1, <2>2
    <2>4. due' = [due EXCEPT ![bit] = due[bit] + 1] /\ Event(s, m)
      BY <1>5 DEF SendWheel
    <2>5. phase'[s] # "press"
      BY <1>5 DEF SendWheel, RobotType
    <2> HIDE DEF bit, m
    <2>6. \A w \in Wheel : due'[w] = due[w] + IF w \in m \ prevButtons THEN 1 ELSE 0
      BY <2>3, <2>4 DEF RobotType
    <2> QED
      BY <1>3, <1>5, <2>4, <2>5, <2>6
  <1>6. CASE SendWheelOff(s) /\ Viewer(s)
    <2>1. held[s] \cap Wheel = {}
      BY RobotAssumption DEF Wheel, RobotType
    <2>2. \A w \in Wheel : due'[w] = due[w] + IF w \in held[s] \ prevButtons THEN 1 ELSE 0
      BY <1>6, <2>1 DEF SendWheelOff, RobotType
    <2> QED
      BY <1>3, <1>6, <2>1, <2>2 DEF SendWheelOff
  <1>7. CASE Robot(s)
    <2>1. /\ step[s] \in 1..5
          /\ step'[s] = IF step[s] = 5 THEN 0 ELSE step[s] + 1
          /\ \A t \in Sess : t # s => step'[t] = 0
          /\ Quiet' <=> step[s] = 5
      BY <1>7, NextStep
    <2>2. \A w \in Wheel : due[w] = IF step[s] # 5 /\ w \in Edges(s) THEN 1 ELSE 0
      BY <2>1 DEF WheelInv
    <2>3. phase' = phase /\ \A t \in Sess : t # s => phase[t] # "press"
      BY <1>7, ActsAlone DEF Idle, Robot, ToggleButton, Scroll, Save
    <2>4. phase[s] = "press" => mask[s] \cap Wheel = {}
      BY <2>1 DEF WheelInv
    <2>5. CASE ToggleButton(s)
      <3>1. step[s] \in 1..3 /\ UNCHANGED <<mask, prevButtons, due>>
        BY <1>7, <2>5, NextStep DEF ToggleButton
      <3>2. Edges(s)' = Edges(s)
        BY <3>1 DEF Edges
      <3> QED
        BY <2>1, <2>2, <2>3, <2>4, <3>1, <3>2 DEF WheelInv
    <2>6. CASE Scroll(s)
      <3>1. /\ step[s] = 4 /\ mask' = mask
            /\ \A w \in Wheel : due'[w] = IF w \in Edges(s) THEN due[w] - 1 ELSE due[w]
        BY <1>7, <2>6, NextStep DEF Scroll
      <3>2. \A w \in Wheel : due'[w] = 0
        BY <2>2, <3>1
      <3> QED
        BY <2>1, <2>3, <2>4, <3>1, <3>2 DEF WheelInv
    <2>7. CASE Save(s)
      <3>1. step[s] = 5 /\ due' = due /\ prevButtons' = mask[s]
        BY <1>7, <2>7, NextStep DEF Save
      <3> QED
        BY <2>1, <2>2, <2>3, <2>4, <3>1 DEF WheelInv
    <2> QED
      BY <1>7, <2>5, <2>6, <2>7 DEF Robot
  <1> QED
    BY <1>2, <1>4, <1>5, <1>6, <1>7 DEF Viewer

-----------------------------------------------------------------------------
(* Keys *)

LEMMA NamesOf == ASSUME NEW ks, NEW n PROVE n \in Names(ks) <=> n # "" /\ \E k \in ks : NameOf(k) = n
  BY DEF Names

\* What is sent and not released changes with what is sent, and with nothing else.
LEMMA SentMoves ==
  ASSUME RobotType, KeyInv, NEW s \in Sess, Open(s) \/ End(s) \/ Viewer(s) \/ Robot(s)
  PROVE  /\ \A t \in Sess : t # s => Sent(t)' = Sent(t)
         /\ End(s) \/ (\E k \in Key : SendKey(s, k)) \/ (Sent(s)' = Sent(s))
         /\ \A k \in Key : SendKey(s, k) =>
               \/ /\ Sent(s)' = Sent(s) \cup {k} /\ keysDown' = keysDown \cup Names({k}) /\ left' = left
               \/ /\ Sent(s)' = Sent(s) \ {k} /\ k \in Sent(s)
                  /\ keysDown' = keysDown \ Names({k}) /\ left' = left \ Names({k})
  <1>1. \A t \in Sess : t # s => Sent(t)' = Sent(t)
    BY Others DEF Sent
  <1>2. ASSUME NEW now \in SUBSET Key, ReadKeys(s, now)
        PROVE  Sent(s)' = Sent(s)
    <2>1. keys'[s] = now /\ downs'[s] = now \ keys[s] /\ ups'[s] = keys[s] \ now
      BY <1>2 DEF ReadKeys, RobotType
    <2>2. downs[s] = {} /\ ups[s] = {}
      BY <1>2 DEF ReadKeys, KeyInv
    <2> QED
      BY <2>1, <2>2 DEF Sent
  <1>3. ASSUME NEW k \in Key, SendKey(s, k)
        PROVE  \/ /\ Sent(s)' = Sent(s) \cup {k} /\ keysDown' = keysDown \cup Names({k}) /\ left' = left
               \/ /\ Sent(s)' = Sent(s) \ {k} /\ k \in Sent(s)
                  /\ keysDown' = keysDown \ Names({k}) /\ left' = left \ Names({k})
    <2>1. keys' = keys /\ downs[s] \subseteq keys[s] /\ ups[s] \cap keys[s] = {}
      BY <1>3 DEF SendKey, KeyInv
    <2>2. CASE /\ k \in downs[s] /\ downs' = [downs EXCEPT ![s] = @ \ {k}]
               /\ keysDown' = keysDown \cup Names({k}) /\ ups' = ups /\ left' = left
      <3>1. downs'[s] = downs[s] \ {k}
        BY <2>2 DEF RobotType
      <3> QED
        BY <2>1, <2>2, <3>1 DEF Sent
    <2>3. CASE /\ k \in ups[s] /\ ups' = [ups EXCEPT ![s] = @ \ {k}] /\ downs' = downs
               /\ keysDown' = keysDown \ Names({k}) /\ left' = left \ Names({k})
      <3>1. ups'[s] = ups[s] \ {k}
        BY <2>3 DEF RobotType
      <3> QED
        BY <2>1, <2>3, <3>1 DEF Sent
    <2> QED
      BY <1>3, <2>2, <2>3 DEF SendKey
  <1>4. UNCHANGED <<keys, downs, ups>> => Sent(s)' = Sent(s)
    BY DEF Sent
  <1>5. \/ UNCHANGED <<keys, downs, ups>> \/ End(s)
        \/ (\E now \in SUBSET Key : ReadKeys(s, now)) \/ (\E k \in Key : SendKey(s, k))
    BY DEF Open, Viewer, Robot, SendPointer, SendWheel, SendWheelOff, Event, UpdateEnds,
           ToggleButton, Scroll, Save, keyVars
  <1> QED
    BY <1>1, <1>2, <1>3, <1>4, <1>5

\* What is down, and what was left down, only changes when a key is sent or a
\* session ends.
LEMMA DownStays ==
  ASSUME NEW s, Open(s) \/ Viewer(s) \/ Robot(s), ~\E k \in Key : SendKey(s, k)
  PROVE  UNCHANGED <<keysDown, left>> /\ open \subseteq open'
  BY DEF Open, Viewer, Robot, SendPointer, SendWheel, SendWheelOff, Event, ReadKeys, UpdateEnds,
         ToggleButton, Scroll, Save, keyVars

LEMMA KeyStep ==
  ASSUME RobotType, Idle, KeyInv, NEW s \in Sess, Open(s) \/ End(s) \/ Viewer(s) \/ Robot(s)
  PROVE  KeyInv'
  <1>1. ASSUME NEW t \in Sess
        PROVE  /\ downs'[t] \subseteq keys'[t] /\ ups'[t] \cap keys'[t] = {}
               /\ phase'[t] # "typing" => downs'[t] = {} /\ ups'[t] = {}
    <2>1. CASE t # s
      BY <2>1, Others DEF KeyInv
    <2>2. CASE t = s /\ ((\E now \in SUBSET Key : ReadKeys(s, now)) \/ End(s))
      BY <2>2 DEF ReadKeys, End, RobotType
    <2>3. ASSUME t = s, NEW k \in Key, SendKey(s, k)
          PROVE  /\ downs'[t] \subseteq keys'[t] /\ ups'[t] \cap keys'[t] = {}
                 /\ phase'[t] # "typing" => downs'[t] = {} /\ ups'[t] = {}
      <3>1. phase'[s] = "typing" /\ keys' = keys
        BY <2>3 DEF SendKey
      <3>2. downs'[s] \subseteq downs[s] /\ ups'[s] \subseteq ups[s]
        BY <2>3 DEF SendKey, RobotType
      <3> QED
        BY <2>3, <3>1, <3>2 DEF KeyInv
    <2>4. CASE t = s /\ UNCHANGED <<keys, downs, ups>> /\ (phase[s] = "typing" => phase'[s] = "typing" \/ (downs[s] = {} /\ ups[s] = {}))
      BY <2>4 DEF KeyInv
    <2>5. Open(s) \/ Robot(s) \/ UpdateEnds(s) \/ SendWheelOff(s)
             \/ (\E buttons \in SUBSET Button : SendPointer(s, buttons))
             \/ (\E wy \in -MaxNotches..MaxNotches : SendWheel(s, wy))
          => UNCHANGED <<keys, downs, ups>> /\ (phase[s] = "typing" => phase'[s] = "typing" \/ (downs[s] = {} /\ ups[s] = {}))
      BY DEF Open, Robot, SendPointer, SendWheel, SendWheelOff, Event, UpdateEnds,
             ToggleButton, Scroll, Save, keyVars
    <2> QED
      BY <2>1, <2>2, <2>3, <2>4, <2>5 DEF Viewer
  <1>2. ASSUME NEW n \in keysDown'
        PROVE  n \in left' \/ \E t \in open' : n \in Names(Sent(t)')
    <2>1. CASE End(s)
      <3>1. /\ keysDown' = keysDown /\ open' = open \ {s}
            /\ left' = left \cup (Names(Sent(s)) \cap keysDown)
        BY <2>1 DEF End
      <3>2. n \in left \/ \E t \in open : n \in Names(Sent(t))
        BY <1>2, <3>1 DEF KeyInv
      <3> QED
        BY <1>2, <3>1, <3>2, SentMoves DEF RobotType
    <2>2. ASSUME NEW k \in Key, SendKey(s, k)
          PROVE  n \in left' \/ \E t \in open' : n \in Names(Sent(t)')
      <3>1. s \in open /\ open' = open
        BY <2>2 DEF SendKey
      <3>2. CASE Sent(s)' = Sent(s) \cup {k} /\ keysDown' = keysDown \cup Names({k}) /\ left' = left
        <4>1. CASE n \in Names({k})
          BY <3>1, <3>2, <4>1, NamesOf
        <4>2. CASE n \in keysDown
          <5>1. n \in left \/ \E t \in open : n \in Names(Sent(t))
            BY <4>2 DEF KeyInv
          <5>2. \A t \in open : n \in Names(Sent(t)) => n \in Names(Sent(t)')
            BY <2>2, <3>2, SentMoves, NamesOf DEF RobotType
          <5> QED
            BY <3>1, <3>2, <5>1, <5>2
        <4> QED
          BY <1>2, <3>2, <4>1, <4>2
      <3>3. CASE /\ Sent(s)' = Sent(s) \ {k}
                 /\ keysDown' = keysDown \ Names({k}) /\ left' = left \ Names({k})
        <4>1. n \in keysDown /\ n \notin Names({k})
          BY <1>2, <3>3
        <4>2. n \in left \/ \E t \in open : n \in Names(Sent(t))
          BY <4>1 DEF KeyInv
        <4>3. n \in Names(Sent(s)) => n \in Names(Sent(s)')
          BY <3>3, <4>1, NamesOf
        <4>4. \A t \in open : n \in Names(Sent(t)) => n \in Names(Sent(t)')
          BY <2>2, <4>3, SentMoves DEF RobotType
        <4> QED
          BY <3>1, <3>3, <4>1, <4>2, <4>4
      <3> QED
        BY <2>2, <3>2, <3>3, SentMoves
    <2>3. CASE ~End(s) /\ ~\E k \in Key : SendKey(s, k)
      <3>1. UNCHANGED <<keysDown, left>> /\ open \subseteq open'
        BY <2>3, DownStays
      <3>2. \A t \in Sess : Sent(t)' = Sent(t)
        BY <2>3, SentMoves
      <3> QED
        BY <1>2, <3>1, <3>2 DEF KeyInv, RobotType
    <2> QED
      BY <2>1, <2>2, <2>3
  <1> QED
    BY <1>1, <1>2 DEF KeyInv

LEMMA HeldStep ==
  ASSUME RobotInv, NEW s \in Sess, Open(s) \/ End(s) \/ Viewer(s) \/ Robot(s), ~shared'
  PROVE  HeldDown'
  <1>1. /\ RobotType /\ Idle /\ KeyInv /\ ~shared /\ OneAtATime /\ HeldDown
        /\ Open(s) => open = {}
    BY OpenedAlone DEF RobotInv, RobotType
  <1> USE <1>1
  <1> SUFFICES ASSUME NEW t \in open', NEW l \in Sent(t)', Alone(l)
               PROVE  Names({l}) \subseteq keysDown'
    BY DEF HeldDown, Alone
  <1>2. CASE Open(s)
    <2>1. t = s /\ Sent(s)' = Sent(s)
      BY <1>2 DEF Open, Sent, keyVars
    <2>2. Sent(s) = {}
      BY <1>2 DEF Open, Idle, Sent
    <2> QED
      BY <2>1, <2>2
  <1>3. CASE End(s)
    BY <1>3, ActsAlone DEF End
  <1>4. ASSUME NEW k \in Key, SendKey(s, k)
        PROVE  Names({l}) \subseteq keysDown'
    <2>1. t = s /\ s \in open
      BY <1>4, ActsAlone DEF Viewer, SendKey
    <2>2. CASE Sent(s)' = Sent(s) \cup {k} /\ keysDown' = keysDown \cup Names({k})
      BY <2>1, <2>2 DEF HeldDown
    <2>3. CASE Sent(s)' = Sent(s) \ {k} /\ keysDown' = keysDown \ Names({k})
      <3>1. l \in Sent(s) /\ l # k /\ Names({l}) \subseteq keysDown
        BY <2>1, <2>3 DEF HeldDown
      <3>2. NameOf(k) # NameOf(l)
        BY <3>1 DEF Alone
      <3> QED
        BY <2>3, <3>1, <3>2 DEF Names
    <2> QED
      BY <1>4, <2>2, <2>3, SentMoves
  <1>5. CASE ~Open(s) /\ ~End(s) /\ ~\E k \in Key : SendKey(s, k)
    <2>1. keysDown' = keysDown
      BY <1>5, DownStays
    <2>2. t = s /\ s \in open
      BY <1>5, ActsAlone DEF Viewer, Robot, SendPointer, SendWheel, SendWheelOff, Event, ReadKeys,
           UpdateEnds, ToggleButton, Scroll, Save
    <2>3. Sent(s)' = Sent(s)
      BY <1>5, SentMoves
    <2> QED
      BY <2>1, <2>2, <2>3 DEF HeldDown
  <1> QED
    BY <1>2, <1>3, <1>4, <1>5

-----------------------------------------------------------------------------
(* The theorems *)

\* What holds of windows, sessions and Robot however many sessions there are,
\* and what holds until two are open at once.
THEOREM RobotInvariant == Spec => []RobotInv
  <1>1. RobotInv /\ [Next]_vars => RobotInv'
    <2> SUFFICES ASSUME RobotInv, [Next]_vars
                 PROVE  RobotInv'
      OBVIOUS
    <2>1. CASE UNCHANGED vars
      BY <2>1 DEF vars, robotVars, keyVars, RobotInv, RobotType, Idle, OneAtATime, ButtonInv,
                  WheelInv, KeyInv, HeldDown, Sent, Quiet, Passed, Edges
    <2>2. ASSUME NEW s \in Sess, Open(s) \/ End(s) \/ Viewer(s) \/ Robot(s)
          PROVE  RobotInv'
      <3>1. RobotType /\ Idle /\ KeyInv /\ (Robot(s) => s \in open)
        BY ActsOpen DEF RobotInv
      <3>2. RobotType' /\ Idle' /\ KeyInv'
        BY <2>2, <3>1, TypeStep, IdleStep, KeyStep
      <3>3. ASSUME ~shared'
            PROVE  OneAtATime' /\ ButtonInv' /\ WheelInv' /\ HeldDown'
        BY <2>2, <3>3, AloneStep, ButtonStep, WheelInvStep, HeldStep
      <3> QED
        BY <3>2, <3>3 DEF RobotInv
    <2> QED
      BY <2>1, <2>2 DEF Next
  <1> QED
    BY RobotInit, <1>1, PTL DEF Spec

\* The machine holds down the keys that windows hold and those that sessions
\* left down, for any number of sessions. Until two are open at once it holds
\* down every key held whose name no other has, and the buttons of the window
\* whose event came last, also when a session before it left buttons down.
THEOREM PressedTheorem == Spec => []PressedAsHeld
  <1>1. RobotInv => PressedAsHeld
    BY DEF RobotInv, ButtonInv, ButtonsAsHeld, KeyInv, HeldDown, KeysAsHeld, PressedAsHeld
  <1> QED
    BY RobotInvariant, <1>1, PTL

\* Until two sessions are open at once, each frame in which the wheel was turned
\* scrolls the machine by one step in that direction.
THEOREM ScrollTheorem == Spec => []OneScrollPerTurn
  <1>1. RobotInv => OneScrollPerTurn
    BY DEF RobotInv, WheelInv, OneScrollPerTurn
  <1> QED
    BY RobotInvariant, <1>1, PTL
=============================================================================
