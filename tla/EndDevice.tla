------------------------------- MODULE EndDevice -------------------------------
(***************************************************************************)
(* The temperature sensor: zigbee_end_device/bmp180_device/src/main.c.     *)
(*                                                                         *)
(* The RTC interrupt submits a work item, whose handler schedules a        *)
(* callback on the ZBOSS thread, which asks the stack for a buffer, in     *)
(* which a second callback sends the report; a third frees the buffer.     *)
(* Between any two of these the device may leave the network.  Signals     *)
(* and callbacks share the ZBOSS thread and run to their end, so each is   *)
(* one step.  The UART thread, of the lowest priority, parses the          *)
(* operator's lines and stores an Install Code byte by byte.               *)
(*                                                                         *)
(* DK_LED4 is switched wherever g_network_joined is, to the same value:    *)
(* "joined" stands for both.                                               *)
(***************************************************************************)
EXTENDS Naturals, Sequences

CONSTANTS Development,      \* CONFIG_ZIGBEE_DEVELOPMENT_SECURITY
          ResetPersistent,  \* CONFIG_ZIGBEE_RESET_PERSISTENT_CONFIG
          Byte,             \* the values of a byte that occur, 0 among them
          CodeBytes,        \* bytes of an Install Code
          ValidCodes,       \* the codes whose checksum is right
          Lines,            \* the codes the operator may type
          NoCode,           \* no Install Code set
          DevCode,          \* the code compiled in under Development
          Commands,         \* the UART commands the operator uses
          Patient,          \* the operator waits for the reply to each command
          NBuffers,         \* stack buffers this application can hold
          WantSlots,        \* slots for delayed buffer requests
          QueueSize,        \* slots of the stack's callback queue
          MaxBacklog,       \* RTC periods the ZBOSS thread may lag behind
          MaxCommands,      \* bounds: commands typed,
          MaxHolds,         \*   times the button is held for a factory reset,
          MaxLeaves         \*   times the network makes the device leave

AllCommands == {"ic_set", "join", "factory_reset", "reboot", "ieee", "bad"}
Codes == [1..CodeBytes -> Byte]
Blank == [i \in 1..CodeBytes |-> 0]

ASSUME EndDeviceConstants ==
    /\ Development \in BOOLEAN
    /\ ResetPersistent \in BOOLEAN
    /\ Patient \in BOOLEAN
    /\ 0 \in Byte
    /\ CodeBytes \in Nat \ {0}
    /\ ValidCodes \subseteq Codes
    /\ Lines \subseteq Codes
    /\ NoCode \notin Codes
    /\ DevCode \in ValidCodes
    /\ Commands \subseteq AllCommands
    /\ NBuffers \in Nat \ {0}
    /\ WantSlots \in Nat \ {0}
    /\ QueueSize \in Nat \ {0}
    /\ MaxBacklog \in Nat \ {0}
    /\ MaxCommands \in Nat
    /\ MaxHolds \in Nat
    /\ MaxLeaves \in Nat

VARIABLES creds,     \* network credentials in NVRAM
          member,    \* the stack is associated with a network
          leaving,   \* a LEAVE signal is on its way to the handler
          joined,    \* g_network_joined
          bdb,       \* what the commissioning machine of the stack is doing
          retry,     \* the default signal handler will start steering again
          work,      \* rtc_work is pending
          queue,     \* callbacks scheduled and not yet run
          free,      \* free buffers
          wanted,    \* delayed requests for a buffer
          reading,   \* buffers given to a send_temperature_cb that has not run
          inflight,  \* buffers of reports sent, write_attr_callback to come
          param,     \* g_ic_set_params.ic
          ic,        \* the Install Code set since the restart
          uart,      \* where the UART thread is: pc, the byte it stores next,
                     \*   and the code of its ic_set line
          timer,     \* reboot_timer
          enrolled,  \* history: has credentials, or was told to join since it lost them
          told,      \* history: credentials at the restart, or told to join since
          everJoined,\* history: joined since the restart
          typed,     \* history: the last valid code typed since the restart
          waiting,   \* the operator's last command has not been answered
          left       \* what remains of the bounds

network  == <<creds, member, leaving, joined, bdb, retry>>
buffers  == <<free, wanted, reading, inflight>>
control  == <<param, ic, uart, timer, typed, waiting>>
history  == <<enrolled, told, everJoined>>
vars     == <<network, work, queue, buffers, control, history, left>>

Answering  == {"ic_set", "join", "factory_reset", "reboot"}
Callbacks  == Answering \union {"trigger", "local_reset"}
Activities == {"command", "hold", "leave"}
Idle       == [pc |-> "idle", at |-> 1, code |-> Blank]
UartStates == [pc : {"idle", "write", "schedule"}, at : 1..CodeBytes, code : Codes]
Budgets    == [Activities -> Nat]

Init ==
    /\ creds \in IF ResetPersistent THEN {FALSE} ELSE BOOLEAN
    /\ member = FALSE /\ leaving = FALSE /\ joined = FALSE
    /\ bdb = "init"
    /\ retry = FALSE
    /\ work = FALSE
    /\ queue = <<>>
    /\ free = NBuffers /\ wanted = 0 /\ reading = 0 /\ inflight = 0
    /\ param = Blank /\ ic = NoCode /\ typed = NoCode
    /\ uart = Idle
    /\ timer = "off"
    /\ enrolled = creds /\ told = creds
    /\ everJoined = FALSE
    /\ waiting = FALSE
    /\ left = [command |-> MaxCommands, hold |-> MaxHolds, leave |-> MaxLeaves]

Spend(what) == left[what] > 0 /\ left' = [left EXCEPT ![what] = @ - 1]

\* A restart: RAM is lost, main() erases NVRAM if it is configured to.
Restart ==
    /\ creds' = (creds /\ ~ResetPersistent)
    /\ member' = FALSE /\ leaving' = FALSE /\ joined' = FALSE
    /\ bdb' = "init"
    /\ retry' = FALSE
    /\ work' = FALSE
    /\ queue' = <<>>
    /\ free' = NBuffers /\ wanted' = 0 /\ reading' = 0 /\ inflight' = 0
    /\ param' = Blank /\ ic' = NoCode /\ typed' = NoCode
    /\ uart' = Idle
    /\ timer' = "off"
    /\ enrolled' = creds' /\ told' = creds'
    /\ everJoined' = FALSE
    /\ waiting' = FALSE

\* ZB_SCHEDULE_APP_CALLBACK: every caller ignores the code a full queue returns.
Schedule(cb) == queue' = IF Len(queue) < QueueSize THEN Append(queue, cb) ELSE queue

\* bdb_start_top_level_commissioning: refused while the stack starts or is busy.
StartSteering == bdb' = IF bdb = "idle" THEN "steering" ELSE bdb

--------------------------------------------------------------------------------
(* zboss_signal_handler.  The default handler it calls is the SDK's: it steers  *)
(* after a start without credentials, and again ("rejoining") after a failure   *)
(* or a leave, whether the device still has a network or not.                   *)
(* A signal comes in a buffer of the stack, which the handler frees.            *)

SignalFrame == UNCHANGED <<work, queue, buffers, param, uart, timer, waiting, left>>

\* setup_static_install_code, under Development.
SetStaticCode ==
    /\ ic' = IF Development THEN DevCode ELSE ic
    /\ typed' = IF Development THEN DevCode ELSE typed

\* Mutant: the production device joins at its first start.
FirstStartSteers ==
    /\ bdb = "init" /\ ~creds
    /\ SetStaticCode
    /\ bdb' = "steering"
    /\ UNCHANGED <<creds, member, leaving, joined, retry, history>>
    /\ SignalFrame

\* Mutant: the buffer of the signal is not freed before the early return.
FirstStartLeaks ==
    /\ bdb = "init" /\ ~creds
    /\ SetStaticCode
    /\ bdb' = IF Development THEN "steering" ELSE "idle"
    /\ free' = IF Development THEN free ELSE free - 1
    /\ UNCHANGED <<creds, member, leaving, joined, retry, history, work, queue, wanted,
                   reading, inflight, param, uart, timer, waiting, left>>

\* Development: the default handler steers.  Production: the commands to pair are
\* printed, the buffer is freed and the handler returns.
FirstStart ==
    /\ bdb = "init" /\ ~creds
    /\ SetStaticCode
    /\ bdb' = IF Development THEN "steering" ELSE "idle"
    /\ UNCHANGED <<creds, member, leaving, joined, retry, history>>
    /\ SignalFrame

\* Mutant: the flag is left to the STEERING signal.
RebootKeepsFlag ==
    /\ bdb = "init" /\ creds
    /\ SetStaticCode
    /\ bdb' = "idle"
    /\ \E ok \in BOOLEAN : member' = ok /\ retry' = ~ok
    /\ UNCHANGED <<creds, leaving, joined, history>>
    /\ SignalFrame

Reboot ==
    /\ bdb = "init" /\ creds
    /\ SetStaticCode
    /\ bdb' = "idle"
    /\ \E ok \in BOOLEAN :
        /\ member' = ok
        /\ joined' = (joined \/ ok)
        /\ everJoined' = (everJoined \/ ok)
        /\ retry' = ~ok
    /\ UNCHANGED <<creds, leaving, enrolled, told>>
    /\ SignalFrame

SteeringEnds ==
    /\ bdb \in {"steering", "rejoining"} /\ ~leaving
    /\ bdb' = "idle"
    /\ \E ok \in BOOLEAN :
        /\ member' = (member \/ ok)
        /\ creds' = (creds \/ ok)
        /\ joined' = (joined \/ ok)
        /\ everJoined' = (everJoined \/ ok)
        /\ enrolled' = (enrolled \/ ok)
        /\ retry' = (~ok /\ ~member)
    /\ UNCHANGED <<leaving, told, ic, typed>>
    /\ SignalFrame

\* The network removes the device, to rejoin or for good.
NetworkLeft ==
    /\ member
    /\ Spend("leave")
    /\ member' = FALSE
    /\ leaving' = TRUE
    /\ creds' \in {creds, FALSE}
    /\ enrolled' = (enrolled /\ (creds' \/ bdb = "steering"))
    /\ UNCHANGED <<joined, bdb, retry, work, queue, buffers, control, told, everJoined>>

Leave ==
    /\ leaving
    /\ leaving' = FALSE
    /\ joined' = FALSE
    /\ retry' = TRUE
    /\ UNCHANGED <<creds, member, bdb, ic, typed, history>>
    /\ SignalFrame

\* The alarm of the default handler: steer again.
RejoinAttempt ==
    /\ retry /\ bdb = "idle"
    /\ bdb' = "rejoining"
    /\ retry' = FALSE
    /\ UNCHANGED <<creds, member, leaving, joined, ic, typed, history>>
    /\ SignalFrame

--------------------------------------------------------------------------------
(* The report: RTC interrupt, work item, and three callbacks. *)

ReportFrame == UNCHANGED <<network, control, history, left>>

Backlog == Len(SelectSeq(queue, LAMBDA cb : cb = "trigger"))

\* rtc2_isr: a work item that is already pending is not queued twice.
Rtc2Isr ==
    /\ Backlog < MaxBacklog
    /\ work' = TRUE
    /\ UNCHANGED <<queue, buffers>>
    /\ ReportFrame

RtcWorkHandler ==
    /\ work
    /\ work' = FALSE
    /\ Schedule("trigger")
    /\ UNCHANGED buffers
    /\ ReportFrame

Runs(cb) ==
    /\ queue # <<>>
    /\ Head(queue) = cb
    /\ queue' = Tail(queue)

\* Mutant: the report does not look at g_network_joined.
TriggerAlways ==
    /\ Runs("trigger")
    /\ wanted' = IF wanted < WantSlots THEN wanted + 1 ELSE wanted
    /\ UNCHANGED <<work, free, reading, inflight>>
    /\ ReportFrame

\* zb_buf_get_out_delayed answers RET_OK, or an error that is logged.
TriggerTempReport ==
    /\ Runs("trigger")
    /\ wanted' = IF joined /\ wanted < WantSlots THEN wanted + 1 ELSE wanted
    /\ UNCHANGED <<work, free, reading, inflight>>
    /\ ReportFrame

BufferGranted ==
    /\ wanted > 0 /\ free > 0
    /\ wanted' = wanted - 1
    /\ free' = free - 1
    /\ reading' = reading + 1
    /\ UNCHANGED <<work, queue, inflight>>
    /\ ReportFrame

\* Mutant: a sensor error returns without freeing the buffer.
SendLeaks ==
    /\ reading > 0
    /\ reading' = reading - 1
    /\ inflight' \in {inflight, inflight + 1}
    /\ UNCHANGED <<work, queue, wanted, free>>
    /\ ReportFrame

\* Mutant: a sensor error frees the buffer, and the report is sent all the same.
SendGoesOn ==
    /\ reading > 0
    /\ reading' = reading - 1
    /\ free' \in {free, free + 1}
    /\ inflight' = inflight + 1
    /\ UNCHANGED <<work, queue, wanted>>
    /\ ReportFrame

\* send_temperature_cb: the sensor fails and the buffer is freed, or it is sent.
SendTemperature ==
    /\ reading > 0
    /\ reading' = reading - 1
    /\ \/ free' = free + 1 /\ UNCHANGED inflight
       \/ inflight' = inflight + 1 /\ UNCHANGED free
    /\ UNCHANGED <<work, queue, wanted>>
    /\ ReportFrame

WriteAttrCallback ==
    /\ inflight > 0
    /\ inflight' = inflight - 1
    /\ free' = free + 1
    /\ UNCHANGED <<work, queue, wanted, reading>>
    /\ ReportFrame

--------------------------------------------------------------------------------
(* The operator's commands: callbacks. *)

CommandFrame == UNCHANGED <<work, buffers, uart, left>>

IcSetCallback ==
    /\ Runs("ic_set")
    /\ ic' = IF param \in ValidCodes THEN param ELSE ic
    /\ waiting' = FALSE
    /\ UNCHANGED <<network, history, param, timer, typed>>
    /\ CommandFrame

JoinCallback ==
    /\ Runs("join")
    /\ StartSteering
    /\ enrolled' = (enrolled \/ bdb = "idle")
    /\ told' = (told \/ bdb = "idle")
    /\ waiting' = FALSE
    /\ UNCHANGED <<creds, member, leaving, joined, retry, everJoined, param, ic, timer, typed>>
    /\ CommandFrame

\* zb_bdb_reset_via_local_action: g_network_joined is left to the LEAVE signal.
LocalReset ==
    /\ creds' = FALSE
    /\ member' = FALSE
    /\ leaving' = (leaving \/ member)
    /\ bdb' = IF bdb = "init" THEN "init" ELSE "idle"
    /\ enrolled' = FALSE
    /\ UNCHANGED <<joined, retry, told, everJoined, param, ic, typed, waiting>>

\* Mutant: the restart timer is initialised and not started.
FactoryResetWithoutTimer ==
    /\ Runs("factory_reset")
    /\ LocalReset
    /\ UNCHANGED timer
    /\ CommandFrame

\* factory_reset_handler: a timer that is initialised again while it runs may be
\* lost by the kernel.
FactoryResetHandler ==
    /\ Runs("factory_reset")
    /\ LocalReset
    /\ timer' \in IF timer = "off" THEN {"armed"} ELSE {"armed", "lost"}
    /\ CommandFrame

\* What the SDK schedules when the button is held: the reset, and no restart.
ButtonResetCallback ==
    /\ Runs("local_reset")
    /\ LocalReset
    /\ UNCHANGED timer
    /\ CommandFrame

\* button_handler, the button held until check_factory_reset_button acts.
FactoryResetHeld ==
    /\ Spend("hold")
    /\ Schedule("local_reset")
    /\ UNCHANGED <<network, work, buffers, control, history>>

\* reboot_handler: sys_reboot at once.
RebootHandler ==
    /\ queue # <<>> /\ Head(queue) = "reboot"
    /\ Restart
    /\ UNCHANGED left

RebootTimerHandler == timer = "armed" /\ Restart /\ UNCHANGED left

--------------------------------------------------------------------------------
(* parse_uart_command, on the UART thread. *)

UartFrame == UNCHANGED <<network, work, buffers, history, ic, timer>>

Line(cmd) ==
    /\ uart.pc = "idle"
    /\ cmd \in Commands
    /\ Patient => ~waiting
    /\ Spend("command")

LineIcSet(c) ==
    /\ Line("ic_set")
    /\ uart' = [pc |-> "write", at |-> 1, code |-> c]
    /\ typed' = IF c \in ValidCodes THEN c ELSE typed
    /\ waiting' = TRUE
    /\ UNCHANGED <<queue, param>>
    /\ UartFrame

\* An ic_set of the wrong format, or ieee: answered at once.
LineAnswered ==
    /\ \E cmd \in {"bad", "ieee"} : Line(cmd)
    /\ UNCHANGED <<uart, queue, param, typed, waiting>>
    /\ UartFrame

LineScheduled(cmd) ==
    /\ Line(cmd)
    /\ Schedule(cmd)
    /\ waiting' = TRUE
    /\ UNCHANGED <<uart, param, typed>>
    /\ UartFrame

\* Mutant: the parsed code is not stored.
WriteNothing ==
    /\ uart.pc = "write"
    /\ uart' = [uart EXCEPT !.pc = "schedule"]
    /\ UNCHANGED <<param, queue, typed, waiting, left>>
    /\ UartFrame

\* The next byte of the code is stored.  The address is too, and is never read.
WriteIcParams ==
    /\ uart.pc = "write"
    /\ param' = [param EXCEPT ![uart.at] = uart.code[uart.at]]
    /\ uart' = IF uart.at < CodeBytes THEN [uart EXCEPT !.at = @ + 1]
                                      ELSE [uart EXCEPT !.pc = "schedule", !.at = 1]
    /\ UNCHANGED <<queue, typed, waiting, left>>
    /\ UartFrame

ScheduleIcSet ==
    /\ uart.pc = "schedule"
    /\ Schedule("ic_set")
    /\ uart' = Idle
    /\ UNCHANGED <<param, typed, waiting, left>>
    /\ UartFrame

--------------------------------------------------------------------------------

StackAnswers == FirstStart \/ Reboot \/ SteeringEnds \/ Leave
ScheduledCallback == TriggerTempReport \/ IcSetCallback \/ JoinCallback
                       \/ FactoryResetHandler \/ ButtonResetCallback \/ RebootHandler
UartThread == WriteIcParams \/ ScheduleIcSet
OperatorTypes ==
    \/ \E c \in Lines : LineIcSet(c)
    \/ LineAnswered
    \/ \E cmd \in {"join", "factory_reset", "reboot"} : LineScheduled(cmd)

Next ==
    \/ StackAnswers
    \/ NetworkLeft
    \/ RejoinAttempt
    \/ Rtc2Isr
    \/ RtcWorkHandler
    \/ ScheduledCallback
    \/ BufferGranted
    \/ SendTemperature
    \/ WriteAttrCallback
    \/ FactoryResetHeld
    \/ OperatorTypes
    \/ UartThread
    \/ RebootTimerHandler

Safe == Init /\ [][Next]_vars

\* The RTC runs, every thread is scheduled, and the stack answers: it runs the
\* callbacks in turn, grants the buffers it has, and confirms what it sent.
Fairness ==
    /\ WF_vars(StackAnswers)
    /\ WF_vars(RejoinAttempt)
    /\ WF_vars(Rtc2Isr)
    /\ WF_vars(RtcWorkHandler)
    /\ WF_vars(ScheduledCallback)
    /\ WF_vars(BufferGranted)
    /\ WF_vars(SendTemperature)
    /\ WF_vars(WriteAttrCallback)
    /\ WF_vars(UartThread)
    /\ WF_vars(RebootTimerHandler)

Spec == Safe /\ Fairness

--------------------------------------------------------------------------------
(* What the sensor must keep. *)

\* Every variable has its type, and the pools of the stack are not exceeded.
NetworkType ==
    /\ creds \in BOOLEAN /\ member \in BOOLEAN /\ leaving \in BOOLEAN
    /\ joined \in BOOLEAN /\ retry \in BOOLEAN
    /\ bdb \in {"init", "idle", "steering", "rejoining"}
ReportType ==
    /\ work \in BOOLEAN
    /\ queue \in Seq(Callbacks) /\ Len(queue) <= QueueSize
    /\ free \in 0..NBuffers /\ reading \in 0..NBuffers /\ inflight \in 0..NBuffers
    /\ wanted \in 0..WantSlots
ControlType ==
    /\ param \in Codes /\ ic \in Codes \union {NoCode}
    /\ typed \in Codes \union {NoCode}
    /\ uart \in UartStates
    /\ timer \in {"off", "armed", "lost"}
    /\ waiting \in BOOLEAN
HistoryType ==
    /\ enrolled \in BOOLEAN /\ told \in BOOLEAN /\ everJoined \in BOOLEAN
    /\ left \in Budgets
TypeOK == NetworkType /\ ReportType /\ ControlType /\ HistoryType

\* No path loses or frees twice a buffer: every one is free, with a report to be
\* sent, or with a report to be confirmed.
BuffersConserved == free + reading + inflight = NBuffers

\* g_network_joined says whether the device is associated, but for the time a LEAVE
\* signal takes to arrive.
FlagExact == ~leaving => (joined <=> member)

\* No report is begun before the device has joined once since it started.
NoReportBeforeJoin == wanted + reading + inflight > 0 => everJoined

\* A production device joins by the application's doing only if it has a network or
\* was told to since it lost it.  The stack's own retry is weaker, and says so: after a
\* reset or a LEAVE it steers a device whose network is gone, untold, but never one
\* that has had no network, and no accepted join command, since it started.
JoinsWhenTold ==
    ~Development => /\ bdb = "steering" => enrolled
                    /\ bdb = "rejoining" => told

\* Once the operator's commands are answered, the Install Code in the stack is the
\* last valid one the operator typed (or the built-in one).
IcAsTyped == Patient /\ ~waiting => ic = typed

\* A device that stays on the network keeps sending reports, whatever the sensor
\* and the radio answered to the earlier ones.
KeepsReporting == <>[]joined => []<>(reading > 0)

\* Every command of an operator who waits is answered, factory_reset and reboot by
\* a restart.
CommandAnswered == waiting ~> ~waiting
================================================================================
