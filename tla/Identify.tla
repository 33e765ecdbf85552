-------------------------------- MODULE Identify --------------------------------
(***************************************************************************)
(* Identify mode: network_coordinator/src/main.c and light_switch/src/     *)
(* main.c, which hold the same functions but for the LED.                  *)
(*                                                                         *)
(* Releasing Button 4 schedules start_identifying on the ZBOSS thread; the *)
(* stack calls identify_cb when the mode starts and when it ends, by the   *)
(* button, by a command of the network or by its time running out.         *)
(* identify_cb starts the blinking with a callback, which goes on by an    *)
(* alarm that schedules itself again, and ends it by cancelling the alarm. *)
(* A mode that ends before its callback has run has no alarm to cancel.    *)
(***************************************************************************)
EXTENDS Naturals, Sequences, FiniteSets

CONSTANTS SharedLed,  \* IDENTIFY_LED is the network LED: the light switch
          QueueSize,  \* slots of the stack's callback queue
          AlarmPool,  \* alarm slots toggle_identify_led may take
          MaxReleases,\* releases of Button 4 the ZBOSS thread may lag behind
          MaxTime     \* the longest time a device identifies itself

ASSUME IdentifyConstants ==
    /\ SharedLed \in BOOLEAN
    /\ QueueSize \in Nat \ {0}
    /\ AlarmPool \in Nat \ {0}
    /\ MaxReleases \in Nat
    /\ MaxTime \in Nat \ {0}

VARIABLES joined,  \* ZB_JOINED()
          signal,  \* its last change has not reached the signal handler
          time,    \* identify_time: 0, or what is left of identify mode
          queue,   \* callbacks scheduled and not yet run
          alarms,  \* pending toggle_identify_led alarms
          led,     \* IDENTIFY_LED is lit
          blink,   \* blink_status is odd
          missed   \* history: ends of the mode that found its toggle in the queue
                   \*   and no alarm to cancel, counted up to PoolSlots

vars == <<joined, signal, time, queue, alarms, led, blink, missed>>

Identifying == time > 0

Callbacks == {"start_identifying", "toggle_identify_led"}

Init ==
    /\ joined = FALSE /\ signal = FALSE /\ time = 0 /\ missed = 0
    /\ queue = <<>> /\ alarms = 0
    /\ led = FALSE /\ blink = FALSE

\* ZB_SCHEDULE_APP_CALLBACK on the queue q: every caller ignores a full queue.
Scheduled(q, cb) == IF Len(q) < QueueSize THEN Append(q, cb) ELSE q

At(q, cb) == {i \in 1..Len(q) : q[i] = cb}
Toggling == At(queue, "toggle_identify_led")
PoolSlots == AlarmPool + QueueSize

EndMissed == alarms = 0 /\ Toggling # {}

\* Mutant: the alarm is left to run.
StopWithoutCancel(lamp) ==
    /\ time' = 0
    /\ led' = lamp
    /\ UNCHANGED <<alarms, missed>>

\* Mutant: the LED is left as the last toggle set it.
StopWithoutLed(lamp) ==
    /\ time' = 0
    /\ alarms' = IF alarms > 0 THEN alarms - 1 ELSE 0
    /\ missed' = IF EndMissed /\ missed < PoolSlots THEN missed + 1 ELSE missed
    /\ UNCHANGED led

\* identify_cb(0): the mode ends; one alarm is cancelled, if there is one.
Stop(lamp) ==
    /\ time' = 0
    /\ alarms' = IF alarms > 0 THEN alarms - 1 ELSE 0
    /\ missed' = IF EndMissed /\ missed < PoolSlots THEN missed + 1 ELSE missed
    /\ led' = lamp

\* identify_cb(bufid): the mode starts; the callback goes behind what is in q.
Start(q) ==
    /\ time' \in 1..MaxTime
    /\ queue' = Scheduled(q, "toggle_identify_led")
    /\ UNCHANGED <<alarms, led, missed>>

\* The LED once the mode has ended: the coordinator's is off, the light switch's
\* goes back to showing the network.
RestoredLed == SharedLed /\ joined

--------------------------------------------------------------------------------

\* Button 4 is released, before the five seconds that make it a factory reset.
ButtonReleased ==
    /\ Cardinality(At(queue, "start_identifying")) < MaxReleases
    /\ queue' = Scheduled(queue, "start_identifying")
    /\ UNCHANGED <<joined, signal, time, alarms, led, blink, missed>>

\* Not on a network, or the stack is busy (RET_INVALID_STATE): only logged.  Any
\* other code would mean that the endpoint is not registered, which it is.
StartIdentifying ==
    /\ queue # <<>> /\ Head(queue) = "start_identifying"
    /\ \/ joined /\ ~Identifying /\ Start(Tail(queue))
       \/ joined /\ Identifying /\ Stop(RestoredLed) /\ queue' = Tail(queue)
       \/ ~(joined /\ Identifying) /\ queue' = Tail(queue)
             /\ UNCHANGED <<time, alarms, led, missed>>
    /\ UNCHANGED <<joined, signal, blink>>

\* A command of the network starts the mode.
NetworkIdentifies ==
    /\ joined /\ ~Identifying
    /\ Start(queue)
    /\ UNCHANGED <<joined, signal, blink>>

\* A second passes.
TimePasses ==
    /\ time > 1
    /\ time' = time - 1
    /\ UNCHANGED <<joined, signal, queue, alarms, led, blink, missed>>

\* A command of the network ends the mode, or the last second does.
ModeEnds ==
    /\ Identifying
    /\ Stop(RestoredLed)
    /\ UNCHANGED <<joined, signal, queue, blink>>

Toggle == blink' = ~blink /\ led' = ~blink

\* Mutant: the toggle does not schedule itself again.
ToggleOnce ==
    /\ queue # <<>> /\ Head(queue) = "toggle_identify_led"
    /\ queue' = Tail(queue)
    /\ Toggle
    /\ UNCHANGED <<joined, signal, time, alarms, missed>>

\* toggle_identify_led as the callback of identify_cb, whether the mode lasts or not.
ToggleCallback ==
    /\ queue # <<>> /\ Head(queue) = "toggle_identify_led"
    /\ queue' = Tail(queue)
    /\ Toggle
    /\ alarms' = IF alarms < AlarmPool THEN alarms + 1 ELSE alarms
    /\ UNCHANGED <<joined, signal, time, missed>>

\* toggle_identify_led as its own alarm: the slot it leaves is the one it takes.
ToggleAlarm ==
    /\ alarms > 0
    /\ Toggle
    /\ UNCHANGED <<joined, signal, time, queue, alarms, missed>>

\* The stack joins or leaves the network; a signal for the handler is on its way.
StackChanges ==
    /\ ~signal
    /\ joined' = ~joined
    /\ signal' = TRUE
    /\ UNCHANGED <<time, queue, alarms, led, blink, missed>>

\* The handler has the signal: where the LED is shared, it shows the network.
NetworkSignal ==
    /\ signal
    /\ signal' = FALSE
    /\ led' = IF SharedLed THEN joined ELSE led
    /\ UNCHANGED <<joined, time, queue, alarms, blink, missed>>

ScheduledCallback == StartIdentifying \/ ToggleCallback

Next ==
    \/ ButtonReleased
    \/ ScheduledCallback
    \/ NetworkIdentifies
    \/ TimePasses
    \/ ModeEnds
    \/ ToggleAlarm
    \/ StackChanges
    \/ NetworkSignal

Safe == Init /\ [][Next]_vars

\* The ZBOSS thread serves its queue and its alarms.
Spec == Safe /\ WF_vars(ScheduledCallback) /\ WF_vars(ToggleAlarm)

--------------------------------------------------------------------------------

\* Every variable has its type, and the pools of the stack are not exceeded.
TypeOK ==
    /\ joined \in BOOLEAN /\ signal \in BOOLEAN /\ led \in BOOLEAN /\ blink \in BOOLEAN
    /\ time \in 0..MaxTime
    /\ queue \in Seq(Callbacks) /\ Len(queue) <= QueueSize
    /\ alarms \in 0..AlarmPool
    /\ missed \in 0..PoolSlots

\* A toggle under way, as a callback or as an alarm, is that of the mode, or of a
\* mode that ended too early to cancel it: each such end leaves one toggle at most
\* to blink for ever after, and with none of them blinking ends with the mode.
BlinkingStops ==
    alarms + Cardinality(Toggling) <= missed + IF Identifying THEN 1 ELSE 0

\* When the mode is over, if each end of it found the alarm to cancel, the LED is as
\* it should be: dark, or showing the network as the handler last heard of it.
LedRestored ==
    ~Identifying /\ missed = 0 /\ ~(SharedLed /\ signal) => led = RestoredLed

\* As long as a device identifies itself its LED goes on blinking, if the ZBOSS thread
\* does not lag behind by a whole queue of releases.
KeepsBlinking ==
    MaxReleases < QueueSize /\ <>[]Identifying => []<>led /\ []<>~led
================================================================================
