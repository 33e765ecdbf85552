--------------------------- MODULE LightSwitchProofs ---------------------------
(* Theorems about LightSwitch, for every value of its constants. *)
EXTENDS LightSwitch, TLAPS

--------------------------------------------------------------------------------
(* What the helpers return. *)

\* The parts of LightSwitchConstants the steps need.
LEMMA Pools == NBuffers \in Nat \ {0} /\ WantSlots \in Nat \ {0} /\ QueueSize \in Nat \ {0}
  BY LightSwitchConstants

\* Taking from a bound leaves the bounds natural numbers.
LEMMA SpendType ==
    ASSUME left \in Budgets, NEW what \in Activities, Spend(what)
    PROVE  left' \in Budgets
  BY DEF Spend, Budgets

\* The requests the stack holds, one kind by one.
LEMMA RequestParts ==
    ASSUME wanted \in Requests
    PROVE  wanted["onoff"] \in Nat /\ wanted["step"] \in Nat /\ wanted["temp"] \in Nat
  BY DEF Requests, Kinds

\* A request is accepted within the slots, or refused.
LEMMA RequestType ==
    ASSUME wanted \in Requests, Waiting <= WantSlots, NEW kind \in Kinds, Request(kind)
    PROVE  wanted' \in Requests /\ Waiting' <= WantSlots
<1>1. wanted' \in Requests
  BY RequestParts DEF Request, Requests, Kinds
<1>2. Waiting' <= WantSlots
  BY Pools, RequestParts DEF Request, Requests, Kinds, Waiting
<1> QED
  BY <1>1, <1>2

\* A granted request leaves its slot.
LEMMA GrantedType ==
    ASSUME wanted \in Requests, Waiting <= WantSlots, NEW kind \in Kinds, Granted(kind)
    PROVE  wanted' \in Requests /\ Waiting' <= WantSlots /\ free > 0
<1>1. wanted' \in Requests
  BY RequestParts DEF Granted, Requests, Kinds
<1>2. Waiting' <= WantSlots
  BY Pools, RequestParts DEF Granted, Requests, Kinds, Waiting
<1> QED
  BY <1>1, <1>2, Pools DEF Granted

\* A handler that has returned has a state of its type.
LEMMA IdleType == Idle \in HandlerStates
  BY DEF Idle, HandlerStates

--------------------------------------------------------------------------------
(* Types, buffers, and what backs long_poll. *)

Inv == TypeOK /\ BuffersConserved /\ LongPollBacked

LEMMA InitInv == Init => Inv
<1> SUFFICES ASSUME Init PROVE Inv
  OBVIOUS
<1>1. ButtonType
  BY IdleType DEF Init, ButtonType
<1>2. NetworkType
  BY DEF Init, NetworkType, NetStates
<1>3. ReportType
  <2>1. wanted \in Requests /\ Waiting = 0
    BY DEF Init, NoRequest, Requests, Kinds, Waiting
  <2>2. work \in BOOLEAN
    BY DEF Init
  <2> QED
    BY <2>1, <2>2, Pools DEF Init, ReportType
<1>4. left \in Budgets
  BY LightSwitchConstants DEF Init, Budgets, Activities
<1>5. BuffersConserved
  BY Pools DEF Init, BuffersConserved
<1>6. LongPollBacked
  BY DEF Init, LongPollBacked
<1> QED
  BY <1>1, <1>2, <1>3, <1>4, <1>5, <1>6 DEF Inv, TypeOK

LEMMA RestartInv == Inv /\ Restart => Inv'
<1> SUFFICES ASSUME Inv, Restart PROVE Inv'
  OBVIOUS
<1>1. ButtonType'
  BY IdleType DEF Restart, ButtonType, Inv, TypeOK
<1>2. NetworkType'
  BY DEF Restart, NetworkType, NetStates
<1>3. ReportType'
  <2>1. wanted' \in Requests /\ Waiting' = 0
    BY DEF Restart, NoRequest, Requests, Kinds, Waiting
  <2>2. work' \in BOOLEAN
    BY DEF Restart
  <2> QED
    BY <2>1, <2>2, Pools DEF Restart, ReportType
<1>4. (left \in Budgets)'
  BY DEF Restart, Inv, TypeOK
<1>5. BuffersConserved'
  BY Pools DEF Restart, BuffersConserved
<1>6. LongPollBacked'
  BY DEF Restart, LongPollBacked
<1> QED
  BY <1>1, <1>2, <1>3, <1>4, <1>5, <1>6 DEF Inv, TypeOK

\* A step of the buttons moves no buffer and no report but for a request.
LEMMA ButtonFrameInv ==
    ASSUME Inv, ButtonFrame, UNCHANGED wanted
    PROVE  NetworkType' /\ ReportType' /\ BuffersConserved'
  BY DEF Inv, TypeOK, ButtonFrame, network, buffers, NetworkType, ReportType, Waiting,
     BuffersConserved

LEMMA ScanInv == ASSUME Inv, NEW now \in SUBSET Buttons, Scan(now) PROVE Inv'
<1> USE DEF Scan, Inv, TypeOK
<1>1. ButtonType'
  <2>1. handler' \in HandlerStates
    BY DEF ButtonType, HandlerStates
  <2>2. stepped' \in BOOLEAN /\ chorded' \in BOOLEAN
    OBVIOUS
  <2> QED
    BY <2>1, <2>2 DEF ButtonType
<1>2. (left \in Budgets)'
  BY SpendType DEF Activities
<1>3. LongPollBacked'
  BY DEF LongPollBacked
<1> QED
  BY <1>1, <1>2, <1>3, ButtonFrameInv

LEMMA ButtonHandlerInv == Inv /\ ButtonHandler => Inv'
<1> SUFFICES ASSUME Inv, ButtonHandler PROVE Inv'
  OBVIOUS
<1> USE DEF Inv, TypeOK
<1>1. CASE ButtonIgnored
  <2> USE <1>1 DEF ButtonIgnored
  <2>1. ButtonType'
    BY IdleType DEF ButtonType
  <2>2. LongPollBacked'
    BY DEF LongPollBacked
  <2> QED
    BY <2>1, <2>2, ButtonFrameInv
<1>2. CASE ButtonPressed
  <2> USE <1>2 DEF ButtonPressed
  <2>1. ButtonType'
    <3>1. alarm' \in BOOLEAN /\ pressed' \in Lights \union {"none"}
      BY DEF ButtonType
    <3> QED
      BY <3>1, IdleType DEF ButtonType
  <2>2. LongPollBacked'
    <3>1. alarm' = TRUE \/ alarm' = alarm
      OBVIOUS
    <3>2. longPoll' = longPoll /\ handler.pc # "stopped"
      OBVIOUS
    <3>3. longPoll => alarm
      BY <3>2 DEF LongPollBacked
    <3>4. alarm \in BOOLEAN /\ longPoll \in BOOLEAN
      BY DEF ButtonType
    <3> HIDE <1>2
    <3> QED
      BY <3>1, <3>2, <3>3, <3>4 DEF LongPollBacked
  <2> QED
    BY <2>1, <2>2, ButtonFrameInv
<1>3. CASE ButtonReleased
  <2> USE <1>3 DEF ButtonReleased
  <2>1. ButtonType'
    <3>1. handler' \in HandlerStates /\ alarm' \in BOOLEAN
      BY DEF ButtonType, HandlerStates
    <3> QED
      BY <3>1 DEF ButtonType
  <2>2. LongPollBacked'
    BY DEF LongPollBacked, ButtonType, HandlerStates
  <2> QED
    BY <2>1, <2>2, ButtonFrameInv
<1>4. CASE LongPressEnds
  <2> USE <1>4 DEF LongPressEnds
  <2>1. ButtonType'
    BY IdleType DEF ButtonType
  <2>2. LongPollBacked'
    BY DEF LongPollBacked
  <2> QED
    BY <2>1, <2>2, ButtonFrameInv
<1>5. CASE ShortPressEnds
  <2>1. CASE Restart
    BY <2>1, RestartInv
  <2>2. CASE ~Restart
    <3> USE <1>5, <2>2 DEF ShortPressEnds, ButtonFrame
    <3>1. ButtonType'
      BY IdleType DEF ButtonType
    <3>2. NetworkType'
      BY DEF NetworkType, network
    <3>3. ReportType'
      <4> DEFINE temps == IF Waiting + 1 < WantSlots THEN wanted["temp"] + 1 ELSE wanted["temp"]
      <4>1. wanted \in Requests /\ Waiting < WantSlots
        BY DEF ReportType
      <4>2. wanted' = [wanted EXCEPT !["onoff"] = wanted["onoff"] + 1, !["temp"] = temps]
        BY <4>1 DEF Requests, Kinds
      <4>3. temps \in Nat /\ wanted["onoff"] + 1 \in Nat
        BY <4>1, RequestParts, Pools DEF Waiting
      <4>4. wanted' \in Requests
        BY <4>1, <4>2, <4>3 DEF Requests, Kinds
      <4>5. wanted'["onoff"] = wanted["onoff"] + 1 /\ wanted'["step"] = wanted["step"]
               /\ wanted'["temp"] = temps
        BY <4>1, <4>2 DEF Requests, Kinds
      <4>6. Waiting' <= WantSlots
        BY <4>1, <4>5, RequestParts, Pools DEF Waiting
      <4> QED
        BY <4>4, <4>6 DEF ReportType, buffers
    <3>4. LongPollBacked' /\ BuffersConserved'
      BY DEF LongPollBacked, BuffersConserved, buffers
    <3> QED
      BY <3>1, <3>2, <3>3, <3>4
  <2> QED
    BY <2>1, <2>2
<1> QED
  BY <1>1, <1>2, <1>3, <1>4, <1>5 DEF ButtonHandler

LEMMA LongPollInv == Inv /\ LongPoll => Inv'
<1> SUFFICES ASSUME Inv, LongPoll PROVE Inv'
  OBVIOUS
<1> USE DEF Inv, TypeOK, LongPoll, ButtonFrame
<1>1. ButtonType'
  <2>1. alarm' \in BOOLEAN /\ longPoll' \in BOOLEAN /\ stepped' \in BOOLEAN
    BY DEF ButtonType
  <2> QED
    BY <2>1 DEF ButtonType
<1>2. NetworkType'
  BY DEF NetworkType, network
<1>3. ReportType'
  <2>1. wanted' \in Requests /\ Waiting' <= WantSlots
    BY RequestType DEF ReportType, Kinds, Waiting
  <2> QED
    BY <2>1 DEF ReportType, buffers
<1>4. LongPollBacked'
  BY DEF LongPollBacked
<1>5. BuffersConserved'
  BY DEF BuffersConserved, buffers
<1> QED
  BY <1>1, <1>2, <1>3, <1>4, <1>5

\* The buttons are as they were.
LEMMA ButtonsKept ==
    ASSUME Inv, UNCHANGED buttons
    PROVE  ButtonType' /\ LongPollBacked'
  BY DEF Inv, TypeOK, buttons, ButtonType, LongPollBacked

\* The requests, the queue and the buffers are as they were.
LEMMA ReportsKept ==
    ASSUME Inv, UNCHANGED <<work, queue, wanted, buffers>>
    PROVE  ReportType' /\ BuffersConserved'
  BY DEF Inv, TypeOK, buffers, ReportType, Waiting, BuffersConserved

LEMMA NextInv == Inv /\ [Next]_vars => Inv'
<1> SUFFICES ASSUME Inv, [Next]_vars PROVE Inv'
  OBVIOUS
<1> USE DEF Inv, TypeOK
<1>1. CASE \E now \in SUBSET Buttons : Scan(now)
  BY <1>1, ScanInv
<1>2. CASE ButtonHandler
  BY <1>2, ButtonHandlerInv
<1>3. CASE LongPoll
  BY <1>3, LongPollInv
<1>4. CASE SignalHandler
  <2> USE <1>4 DEF SignalHandler, FirstStart, SteeringEnds, Leave, ZbossFrame
  <2>1. NetworkType'
    BY DEF NetworkType, NetStates
  <2> QED
    BY <2>1, ButtonsKept, ReportsKept
<1>5. CASE NetworkLeft
  <2> USE <1>5 DEF NetworkLeft, ZbossFrame
  <2>1. NetworkType'
    BY DEF NetworkType, NetStates
  <2>2. (left \in Budgets)'
    BY SpendType DEF Activities
  <2> QED
    BY <2>1, <2>2, ButtonsKept, ReportsKept
<1>6. CASE Rtc2Isr \/ RtcWorkHandler
  <2> USE <1>6 DEF Rtc2Isr, RtcWorkHandler
  <2>1. NetworkType'
    BY DEF NetworkType, network
  <2>2. work' \in BOOLEAN
    OBVIOUS
  <2>3. ReportType'
    BY <2>2, Pools DEF ReportType, buffers, Waiting
  <2>4. BuffersConserved'
    BY DEF BuffersConserved, buffers
  <2> QED
    BY <2>1, <2>3, <2>4, ButtonsKept
<1>7. CASE TriggerTempReport
  <2> USE <1>7 DEF TriggerTempReport, ZbossFrame
  <2>1. wanted' \in Requests /\ Waiting' <= WantSlots
    BY RequestType DEF ReportType, Kinds
  <2>2. ReportType'
    BY <2>1, Pools DEF ReportType, buffers
  <2>3. BuffersConserved' /\ NetworkType'
    BY DEF BuffersConserved, buffers, NetworkType, network
  <2> QED
    BY <2>2, <2>3, ButtonsKept
<1>8. CASE SendCommand
  <2> USE <1>8 DEF SendCommand, ZbossFrame
  <2>1. wanted' \in Requests /\ Waiting' <= WantSlots /\ free > 0
    BY GrantedType DEF ReportType, Kinds
  <2>2. ReportType' /\ BuffersConserved'
    BY <2>1, Pools DEF ReportType, BuffersConserved
  <2>3. NetworkType'
    BY DEF NetworkType, network
  <2> QED
    BY <2>2, <2>3, ButtonsKept
<1>9. CASE SendTemperature
  <2> USE <1>9 DEF SendTemperature, ZbossFrame
  <2>1. wanted' \in Requests /\ Waiting' <= WantSlots /\ free > 0
    BY GrantedType DEF ReportType, Kinds
  <2>2. ReportType' /\ BuffersConserved'
    BY <2>1, Pools DEF ReportType, BuffersConserved
  <2>3. NetworkType'
    BY DEF NetworkType, network
  <2> QED
    BY <2>2, <2>3, ButtonsKept
<1>10. CASE CommandSent \/ WriteAttrCallback
  <2> USE <1>10 DEF CommandSent, WriteAttrCallback, ZbossFrame
  <2>1. ReportType' /\ BuffersConserved'
    BY Pools DEF ReportType, BuffersConserved, Waiting
  <2>2. NetworkType'
    BY DEF NetworkType, network
  <2> QED
    BY <2>1, <2>2, ButtonsKept
<1>11. CASE UNCHANGED vars
  <2>1. NetworkType' /\ UNCHANGED <<buttons, work, queue, wanted, buffers, left>>
    BY <1>11 DEF vars, network, NetworkType
  <2> QED
    BY <2>1, ButtonsKept, ReportsKept
<1> QED
  BY <1>1, <1>2, <1>3, <1>4, <1>5, <1>6, <1>7, <1>8, <1>9, <1>10, <1>11
  DEF Next, ReportCallback

\* Every variable keeps its type, no buffer is lost between the two pipelines, and
\* long_poll is never left set for a later press, whatever buttons are held together.
THEOREM LongPollNeverStale == Safe => [](TypeOK /\ BuffersConserved /\ LongPollBacked)
<1>1. Inv => TypeOK /\ BuffersConserved /\ LongPollBacked
  BY DEF Inv
<1> QED
  BY InitInv, NextInv, <1>1, PTL DEF Safe

\* Every variable of the light switch has its type.
COROLLARY TypeCorrect == Safe => []TypeOK
<1> QED
  BY LongPollNeverStale, PTL

\* The commands and the reports of the light switch lose no buffer.
COROLLARY SwitchBuffers == Safe => []BuffersConserved
<1> QED
  BY LongPollNeverStale, PTL

--------------------------------------------------------------------------------
(* One button at a time. *)

\* What the code keeps of the buttons in steps that are not theirs; LEAVE can only
\* make the bulb unknown, and only while the handler does not run.
LEMMA PressKept ==
    ASSUME OnePress, UNCHANGED buttons, known' = known \/ (handler.pc = "idle" /\ ~known')
    PROVE  OnePress'
  BY DEF OnePress, Releasing, buttons

LEMMA PressScan ==
    ASSUME ButtonType, OnePress, NEW now \in SUBSET Buttons, Scan(now)
    PROVE  OnePress'
<1> USE DEF Scan, ButtonFrame, network
<1>0. ASSUME ~chorded'
      PROVE  OneAtATime(now) /\ (longPoll => ~chorded)
  BY <1>0
<1>1. (~chorded => \A b, c \in held : b = c)'
  BY <1>0 DEF OneAtATime
<1>2. handler'.pc = "called" /\ handler'.changed = (now \ held) \union (held \ now)
  OBVIOUS
<1>3. ASSUME known', longPoll', ~chorded'
      PROVE  stepped' /\ pressed' \in Lights /\ (pressed' \in held' \/ Releasing(pressed)')
  <2>1. known /\ longPoll /\ handler.pc = "idle" /\ ~chorded /\ OneAtATime(now)
    BY <1>0, <1>3
  <2>2. stepped /\ pressed \in held /\ pressed \in Lights
    BY <2>1 DEF OnePress, Releasing
  <2>3. held = {pressed} /\ now = {}
    BY <2>1, <2>2 DEF OnePress, OneAtATime
  <2> QED
    BY <1>2, <2>2, <2>3 DEF Releasing
<1> QED
  BY <1>1, <1>2, <1>3 DEF OnePress

LEMMA PressNext == Inv /\ OnePress /\ [Next]_vars => OnePress'
<1> SUFFICES ASSUME Inv, OnePress, [Next]_vars PROVE OnePress'
  OBVIOUS
<1>0. ButtonType
  BY DEF Inv, TypeOK
<1>1. CASE \E now \in SUBSET Buttons : Scan(now)
  BY <1>0, <1>1, PressScan
<1>2. CASE ButtonIgnored
  <2> USE <1>2 DEF ButtonIgnored, ButtonFrame, network
  <2>1. ASSUME known, NEW b \in Lights PROVE ~Releasing(b)
    BY <2>1 DEF LightChanged, Releasing
  <2> QED
    BY <2>1 DEF OnePress, Idle
<1>3. CASE ButtonPressed
  <2> USE <1>3 DEF ButtonPressed, ButtonFrame, network
  <2>1. ASSUME known, longPoll, ~chorded PROVE pressed \in held /\ pressed \in Lights /\ stepped
    BY <2>1 DEF OnePress, Releasing
  <2>2. ASSUME known, longPoll, ~chorded PROVE pressed' = pressed
    BY <2>1, <2>2
  <2>3. held' = held /\ known' = known /\ longPoll' = longPoll /\ stepped' = stepped
            /\ handler' = Idle /\ chorded' = chorded
    OBVIOUS
  <2> QED
    BY <2>1, <2>2, <2>3 DEF OnePress, Idle
<1>4. CASE ButtonReleased
  BY <1>0, <1>4 DEF ButtonReleased, LightChanged, ButtonFrame, network, OnePress, ButtonType,
     HandlerStates
<1>5. CASE LongPressEnds
  BY <1>5 DEF LongPressEnds, ButtonFrame, network, OnePress, Idle
<1>6. CASE ShortPressEnds
  <2>1. longPoll' = FALSE /\ held' = held /\ handler' = Idle /\ chorded' = chorded
    BY <1>0, <1>6 DEF ShortPressEnds, Restart, ButtonType
  <2> QED
    BY <2>1 DEF OnePress, Idle
<1>7. CASE LongPoll
  <2> USE <1>7 DEF LongPoll, ButtonFrame, network
  <2>1. pressed \in held => pressed \in Lights
    BY <1>0 DEF ButtonType, Lights, Buttons
  <2> QED
    BY <2>1 DEF OnePress
<1>8. CASE SignalHandler \/ ReportCallback \/ SendCommand \/ CommandSent
  <2>1. UNCHANGED buttons
    BY <1>8 DEF SignalHandler, FirstStart, SteeringEnds, Leave, ReportCallback,
       TriggerTempReport, SendTemperature, WriteAttrCallback, SendCommand, CommandSent,
       ZbossFrame
  <2>2. known' = known \/ (handler.pc = "idle" /\ ~known')
    BY <1>8 DEF SignalHandler, FirstStart, SteeringEnds, Leave, ReportCallback,
       TriggerTempReport, SendTemperature, WriteAttrCallback, SendCommand, CommandSent,
       network, Zboss, Inv, TypeOK, NetworkType
  <2> QED
    BY <2>1, <2>2, PressKept
<1>9. CASE NetworkLeft \/ Rtc2Isr \/ RtcWorkHandler \/ UNCHANGED vars
  <2>1. UNCHANGED buttons /\ known' = known
    BY <1>9 DEF NetworkLeft, ZbossFrame, Rtc2Isr, RtcWorkHandler, vars, network
  <2> QED
    BY <2>1, PressKept
<1> QED
  BY <1>1, <1>2, <1>3, <1>4, <1>5, <1>6, <1>7, <1>8, <1>9 DEF Next, ButtonHandler

\* A short press is never swallowed without an overlap of buttons: long_poll was set by
\* the press that is now released.
THEOREM ShortPressesCount == Safe => []ShortPressSends
<1>1. Init => OnePress
  BY DEF Init, Idle, OnePress
<1>2. Inv /\ OnePress /\ [Next]_vars => OnePress'
  BY PressNext
<1>3. OnePress => ShortPressSends
  BY DEF OnePress, ShortPressSends
<1> QED
  BY InitInv, NextInv, <1>1, <1>2, <1>3, PTL DEF Safe
================================================================================
