------------------------------ MODULE LightSwitch ------------------------------
(***************************************************************************)
(* The light switch: zigbee_end_device/light_switch/src/main.c.            *)
(*                                                                         *)
(* The system work queue scans the buttons and runs button_handler; an     *)
(* interrupt, the expiry of buttons_ctx.alarm, runs light_switch_button_   *)
(* handler, which tells a long press from a short one.  The work queue     *)
(* preempts the ZBOSS thread, which sends the commands and the             *)
(* temperature, each in a buffer of the stack asked for before.            *)
(* button_handler is stepwise, since the interrupt may come between any    *)
(* two of its calls; a handler of the ZBOSS thread is one step.            *)
(*                                                                         *)
(* The search for a bulb is compiled in and never started (main.c:851): the*)
(* address of the bulb is the coordinator's from main() on.  What Button 4 *)
(* does beside being a button is in Identify.                              *)
(***************************************************************************)
EXTENDS Naturals

CONSTANTS NBuffers,    \* stack buffers this application can hold
          WantSlots,   \* slots for delayed buffer requests
          QueueSize,   \* slots of the stack's callback queue
          MaxPresses,  \* bounds: buttons pressed,
          MaxLeaves    \*   times the network makes the device leave

ASSUME LightSwitchConstants ==
    /\ NBuffers \in Nat \ {0}
    /\ WantSlots \in Nat \ {0}
    /\ QueueSize \in Nat \ {0}
    /\ MaxPresses \in Nat
    /\ MaxLeaves \in Nat

VARIABLES net,       \* the stack's view of the network, a LEAVE under way included
          known,     \* bulb_ctx.short_addr is not 0xFFFF
          bulbLed,   \* BULB_FOUND_LED
          held,      \* the buttons held at the last scan: dk_get_buttons()
          handler,   \* where button_handler is, and its has_changed
          pressed,   \* buttons_ctx.state
          longPoll,  \* buttons_ctx.long_poll
          alarm,     \* buttons_ctx.alarm is running
          work,      \* rtc_work is pending
          queue,     \* zb_trigger_temp_report callbacks scheduled
          wanted,    \* delayed requests for a buffer, of each kind
          free,      \* free buffers
          commands,  \* buffers of commands, which the stack frees once sent
          reports,   \* buffers of reports, write_attr_callback to come
          stepped,   \* history: this press has been found to be long
          chorded,   \* history: two buttons overlapped, now or in the press that
                     \*   left long_poll set
          left       \* what remains of the bounds

buttons  == <<held, handler, pressed, longPoll, alarm, stepped, chorded>>
network  == <<net, known, bulbLed>>
buffers  == <<free, commands, reports>>
vars     == <<buttons, network, work, queue, wanted, buffers, left>>

Lights     == {"on", "off"}
Buttons    == Lights \union {"identify"}
Kinds      == {"onoff", "step", "temp"}
Activities == {"press", "leave"}
NetStates  == {"init", "steering", "member", "leave_reset", "leave_rejoin"}
HandlerStates == [pc : {"idle", "called", "stopped"}, changed : SUBSET Buttons]
Requests   == [Kinds -> Nat]
Budgets    == [Activities -> Nat]

Idle      == [pc |-> "idle", changed |-> {}]
NoRequest == [k \in Kinds |-> 0]
Waiting   == wanted["onoff"] + wanted["step"] + wanted["temp"]

Init ==
    /\ net = "init" /\ known = TRUE /\ bulbLed = FALSE
    /\ held = {} /\ handler = Idle /\ pressed = "none"
    /\ longPoll = FALSE /\ alarm = FALSE /\ stepped = FALSE /\ chorded = FALSE
    /\ work = FALSE /\ queue = 0
    /\ wanted = NoRequest
    /\ free = NBuffers /\ commands = 0 /\ reports = 0
    /\ left = [press |-> MaxPresses, leave |-> MaxLeaves]

\* ZB_ERROR_CHECK failed: the board restarts, and main() erases NVRAM.
Restart ==
    /\ net' = "init" /\ known' = TRUE /\ bulbLed' = FALSE
    /\ handler' = Idle /\ pressed' = "none"
    /\ longPoll' = FALSE /\ alarm' = FALSE /\ stepped' = FALSE
    /\ work' = FALSE /\ queue' = 0
    /\ wanted' = NoRequest
    /\ free' = NBuffers /\ commands' = 0 /\ reports' = 0
    /\ UNCHANGED <<held, chorded, left>>

Spend(what) == left[what] > 0 /\ left' = [left EXCEPT ![what] = @ - 1]

\* Mutant: the request is taken to have been accepted.
RequestUnchecked(kind) == wanted' = [wanted EXCEPT ![kind] = @ + 1]

\* zb_buf_get_out_delayed(_ext): refused when its slots are taken.
Request(kind) ==
    wanted' = IF Waiting < WantSlots THEN [wanted EXCEPT ![kind] = @ + 1] ELSE wanted

--------------------------------------------------------------------------------
(* The buttons, on the system work queue. *)

ButtonFrame == UNCHANGED <<network, work, queue, buffers>>

\* One button at most is held before and after, and not one and then another.
OneAtATime(now) == (held = {} \/ now = {}) /\ \A b, c \in now : b = c

\* The scan of the buttons finds that some have changed, and calls the handler.
Scan(now) ==
    /\ handler.pc = "idle"
    /\ now # held
    /\ IF now \subseteq held THEN UNCHANGED left ELSE Spend("press")
    /\ held' = now
    /\ handler' = [pc |-> "called", changed |-> (now \ held) \union (held \ now)]
    /\ stepped' = (stepped /\ held # {})
    /\ chorded' = (~OneAtATime(now) \/ (chorded /\ (held # {} \/ longPoll)))
    /\ UNCHANGED <<pressed, longPoll, alarm, wanted>>
    /\ ButtonFrame

\* has_changed is exactly Button 1 or Button 2, and there is a bulb.
LightChanged == known /\ \E b \in Lights : handler.changed = {b}

\* No bulb, another button, or more than one at once: early return.
ButtonIgnored ==
    /\ handler.pc = "called"
    /\ ~LightChanged
    /\ handler' = Idle
    /\ UNCHANGED <<held, pressed, longPoll, alarm, stepped, chorded, wanted, left>>
    /\ ButtonFrame

\* Exactly one of the two is held now (it may be the other one); or more are.
ButtonPressed ==
    /\ handler.pc = "called"
    /\ LightChanged
    /\ held # {}
    /\ \/ \E b \in Lights : held = {b} /\ pressed' = b /\ alarm' = TRUE
       \/ (\A b \in Lights : held # {b}) /\ UNCHANGED <<pressed, alarm>>
    /\ handler' = Idle
    /\ UNCHANGED <<held, longPoll, stepped, chorded, wanted, left>>
    /\ ButtonFrame

\* None is held: k_timer_stop.
ButtonReleased ==
    /\ handler.pc = "called"
    /\ LightChanged
    /\ held = {}
    /\ alarm' = FALSE
    /\ handler' = [handler EXCEPT !.pc = "stopped"]
    /\ UNCHANGED <<held, pressed, longPoll, stepped, chorded, wanted, left>>
    /\ ButtonFrame

\* Mutant: long_poll is read and not reset.
LongPressStays ==
    /\ handler.pc = "stopped"
    /\ longPoll
    /\ handler' = Idle
    /\ UNCHANGED <<held, pressed, longPoll, alarm, stepped, chorded, wanted, left>>
    /\ ButtonFrame

\* atomic_set(long_poll, FALSE) was TRUE: the end of a long press.
LongPressEnds ==
    /\ handler.pc = "stopped"
    /\ longPoll
    /\ longPoll' = FALSE
    /\ handler' = Idle
    /\ UNCHANGED <<held, pressed, alarm, stepped, chorded, wanted, left>>
    /\ ButtonFrame

\* It was FALSE: send the command, under ZB_ERROR_CHECK, and the temperature.
ShortPressEnds ==
    /\ handler.pc = "stopped"
    /\ ~longPoll
    /\ \/ /\ Waiting < WantSlots
          /\ wanted' = [wanted EXCEPT !["onoff"] = @ + 1,
                         !["temp"] = IF Waiting + 1 < WantSlots THEN @ + 1 ELSE @]
          /\ handler' = Idle
          /\ UNCHANGED <<held, pressed, longPoll, alarm, stepped, chorded, left>>
          /\ ButtonFrame
       \/ Waiting >= WantSlots /\ Restart

ButtonHandler == ButtonIgnored \/ ButtonPressed \/ ButtonReleased
                   \/ LongPressEnds \/ ShortPressEnds

\* Mutant: a button found released leaves long_poll as it is.
LongPollKept ==
    /\ alarm
    /\ alarm' = (pressed \in held)
    /\ longPoll' = (longPoll \/ pressed \in held)
    /\ stepped' = (stepped \/ pressed \in held)
    /\ IF pressed \in held THEN Request("step") ELSE UNCHANGED wanted
    /\ UNCHANGED <<held, handler, pressed, chorded, left>>
    /\ ButtonFrame

\* Mutant: the alarm is started again whatever the button.
AlarmRestarts ==
    /\ alarm
    /\ longPoll' = (pressed \in held)
    /\ stepped' = (stepped \/ pressed \in held)
    /\ IF pressed \in held THEN Request("step") ELSE UNCHANGED wanted
    /\ UNCHANGED <<held, handler, pressed, alarm, chorded, left>>
    /\ ButtonFrame

\* light_switch_button_handler, the expiry of the alarm: if the button is still held
\* the press is long, a step is requested and the alarm starts again.
LongPoll ==
    /\ alarm
    /\ alarm' = (pressed \in held)
    /\ longPoll' = (pressed \in held)
    /\ stepped' = (stepped \/ pressed \in held)
    /\ IF pressed \in held THEN Request("step") ELSE UNCHANGED wanted
    /\ UNCHANGED <<held, handler, pressed, chorded, left>>
    /\ ButtonFrame

--------------------------------------------------------------------------------
(* The ZBOSS thread runs when the work queue does not. *)

Zboss == handler.pc = "idle"
ZbossFrame == UNCHANGED <<buttons, work>>

\* zboss_signal_handler.  The default handler it calls steers after the first start
\* (NVRAM is erased at boot, so every start is one), a failure or a leave.
FirstStart ==
    /\ Zboss
    /\ net = "init"
    /\ net' = "steering"
    /\ UNCHANGED <<known, bulbLed, queue, wanted, buffers, left>>
    /\ ZbossFrame

\* STEERING with RET_OK; any other status leaves net "steering".
SteeringEnds ==
    /\ Zboss
    /\ net = "steering"
    /\ net' = "member"
    /\ bulbLed' = TRUE
    /\ UNCHANGED <<known, queue, wanted, buffers, left>>
    /\ ZbossFrame

NetworkLeft ==
    /\ net = "member"
    /\ Spend("leave")
    /\ net' \in {"leave_reset", "leave_rejoin"}
    /\ UNCHANGED <<known, bulbLed, queue, wanted, buffers>>
    /\ ZbossFrame

Leave ==
    /\ Zboss
    /\ net \in {"leave_reset", "leave_rejoin"}
    /\ known' = (known /\ net # "leave_reset")
    /\ net' = "steering"
    /\ UNCHANGED <<bulbLed, queue, wanted, buffers, left>>
    /\ ZbossFrame

SignalHandler == FirstStart \/ SteeringEnds \/ Leave

\* rtc2_isr: work that is already pending is not queued twice.
Rtc2Isr ==
    /\ work' = TRUE
    /\ UNCHANGED <<buttons, network, queue, wanted, buffers, left>>

\* rtc_work_handler shares the work queue with button_handler, and ignores the code
\* that ZB_SCHEDULE_APP_CALLBACK returns when the queue is full.
RtcWorkHandler ==
    /\ handler.pc = "idle"
    /\ work
    /\ work' = FALSE
    /\ queue' = IF queue < QueueSize THEN queue + 1 ELSE queue
    /\ UNCHANGED <<buttons, network, wanted, buffers, left>>

\* zb_trigger_temp_report asks for a buffer, on a network or not.
TriggerTempReport ==
    /\ Zboss
    /\ queue > 0
    /\ queue' = queue - 1
    /\ Request("temp")
    /\ UNCHANGED <<network, buffers, left>>
    /\ ZbossFrame

Granted(kind) ==
    /\ Zboss
    /\ wanted[kind] > 0 /\ free > 0
    /\ wanted' = [wanted EXCEPT ![kind] = @ - 1]

\* light_switch_send_on_off, light_switch_send_step.
SendCommand ==
    /\ \E kind \in {"onoff", "step"} : Granted(kind)
    /\ free' = free - 1
    /\ commands' = commands + 1
    /\ UNCHANGED <<network, queue, reports, left>>
    /\ ZbossFrame

\* send_temperature_cb: the sensor fails and the buffer is freed, or it is sent.
SendTemperature ==
    /\ Granted("temp")
    /\ \/ UNCHANGED <<free, reports>>
       \/ free' = free - 1 /\ reports' = reports + 1
    /\ UNCHANGED <<network, queue, commands, left>>
    /\ ZbossFrame

\* The stack frees the buffer of a command, which has no callback.
CommandSent ==
    /\ Zboss
    /\ commands > 0
    /\ commands' = commands - 1
    /\ free' = free + 1
    /\ UNCHANGED <<network, queue, wanted, reports, left>>
    /\ ZbossFrame

\* Mutant: the result is logged and the buffer is kept.
WriteAttrKeeps ==
    /\ Zboss
    /\ reports > 0
    /\ reports' = reports - 1
    /\ UNCHANGED <<network, queue, wanted, free, commands, left>>
    /\ ZbossFrame

WriteAttrCallback ==
    /\ Zboss
    /\ reports > 0
    /\ reports' = reports - 1
    /\ free' = free + 1
    /\ UNCHANGED <<network, queue, wanted, commands, left>>
    /\ ZbossFrame

ReportCallback == TriggerTempReport \/ SendTemperature \/ WriteAttrCallback

--------------------------------------------------------------------------------

Next ==
    \/ \E now \in SUBSET Buttons : Scan(now)
    \/ ButtonHandler
    \/ LongPoll
    \/ SignalHandler
    \/ NetworkLeft
    \/ Rtc2Isr
    \/ RtcWorkHandler
    \/ ReportCallback
    \/ SendCommand
    \/ CommandSent

Safe == Init /\ [][Next]_vars

\* The handler goes on to its end, and a running timer expires.
Fairness == WF_vars(ButtonHandler) /\ WF_vars(LongPoll)

Spec == Safe /\ Fairness

--------------------------------------------------------------------------------
(* What the light switch must keep. *)

\* Every variable has its type, and the pools of the stack are not exceeded.
ButtonType ==
    /\ held \in SUBSET Buttons
    /\ handler \in HandlerStates
    /\ pressed \in Lights \union {"none"}
    /\ longPoll \in BOOLEAN /\ alarm \in BOOLEAN
    /\ stepped \in BOOLEAN /\ chorded \in BOOLEAN
NetworkType == net \in NetStates /\ known \in BOOLEAN /\ bulbLed \in BOOLEAN
ReportType ==
    /\ work \in BOOLEAN
    /\ queue \in 0..QueueSize
    /\ wanted \in Requests /\ Waiting <= WantSlots
    /\ free \in 0..NBuffers /\ commands \in 0..NBuffers /\ reports \in 0..NBuffers
TypeOK == ButtonType /\ NetworkType /\ ReportType /\ left \in Budgets

\* long_poll never stays set with nothing that would clear it, which would turn the
\* next short press into the end of a long one: while it is set the alarm runs, or
\* button_handler has stopped the alarm and is about to clear it.
LongPollBacked == longPoll => alarm \/ handler.pc = "stopped"

\* A press too short for a step sends its command: long_poll, tested at a release,
\* was set by this press and not by an earlier one.  Two buttons that overlap are
\* the exception, until the press that clears long_poll has ended.
ShortPressSends == handler.pc = "stopped" /\ longPoll => stepped \/ chorded

\* Why: without an overlap, and while there is a bulb, long_poll is set only from the
\* expiry of the alarm of the button held to the end of the handler that sees it
\* released.
Releasing(b) == held = {} /\ handler.pc = "called" /\ handler.changed = {b}
OnePress ==
    /\ ~chorded => \A b, c \in held : b = c
    /\ handler.pc = "stopped" => known
    /\ known /\ longPoll /\ ~chorded =>
         /\ stepped
         /\ pressed \in held \/ Releasing(pressed) \/ handler.pc = "stopped"
         /\ pressed \in Lights

\* The sensor's pipeline and the commands share the buffers and lose none.
BuffersConserved == free + commands + reports = NBuffers

\* LED 4 of a switch on the network is lit when there is a bulb to control
\* (README.rst:162-163), whatever has happened since it first joined.
LedMeansBulb == net = "member" /\ bulbLed => known

\* Dimming ends with the press: if the buttons stay released, the alarm stops and
\* long_poll is cleared for good, whatever combination of buttons was held before.
DimmingEnds == <>[](held = {}) => <>[](~alarm /\ ~longPoll)
================================================================================
