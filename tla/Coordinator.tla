------------------------------ MODULE Coordinator ------------------------------
(***************************************************************************)
(* The network coordinator: network_coordinator/src/main.c.                *)
(*                                                                         *)
(* Four contexts share its state.  The ZBOSS thread runs the signal        *)
(* handler, the scheduled callbacks and the alarms, one at a time, each to *)
(* its end; the system work queue runs button_changed; the UART thread     *)
(* parses the operator's lines; a kernel timer restarts the board.  The    *)
(* work queue preempts the ZBOSS thread between any two calls into the     *)
(* stack; the ZBOSS thread preempts the UART thread, whose priority is the *)
(* lowest, between any two bytes it stores.  A callback of the ZBOSS       *)
(* thread is one step: what it touches is not seen half-changed.           *)
(*                                                                         *)
(* The stack itself is not in the repository: when it answers, what it     *)
(* answers and the size of its pools are parameters of this model.         *)
(***************************************************************************)
EXTENDS Naturals, Sequences

CONSTANTS Development,   \* CONFIG_ZIGBEE_DEVELOPMENT_SECURITY
          Byte,          \* the values of a byte that occur, 0 among them
          AddrBytes,     \* bytes of an IEEE address, and of an Install Code
          CodeBytes,
          NoCode,        \* "no code registered"
          DevAddr, DevCode,  \* the pair compiled in under Development
          Pairs,         \* the <<address, code>> the operator may type
          Commands,      \* the UART commands the operator uses
          Patient,       \* the operator waits for the reply to each command
          QueueSize,     \* slots of the stack's callback queue
          AlarmPool,     \* alarm slots steering_finished may take
          MaxCommands,   \* bounds: commands typed, presses of Button 1,
          MaxPresses,    \*   times Button 4 is held for a factory reset,
          MaxHolds,      \*   signals the stack raises on its own,
          MaxSignals,    \*   power cycles
          MaxPower

AllCommands == {"ic_add", "bad", "factory_reset", "reopen"}
Addrs == [1..AddrBytes -> Byte]
Codes == [1..CodeBytes -> Byte]

ASSUME CoordinatorConstants ==
    /\ Development \in BOOLEAN
    /\ Patient \in BOOLEAN
    /\ 0 \in Byte
    /\ AddrBytes \in Nat \ {0}
    /\ CodeBytes \in Nat \ {0}
    /\ DevAddr \in Addrs
    /\ DevCode \in Codes
    /\ NoCode \notin Codes
    /\ Pairs \subseteq Addrs \X Codes
    /\ Commands \subseteq AllCommands
    /\ QueueSize \in Nat \ {0}
    /\ AlarmPool \in Nat \ {0}
    /\ MaxCommands \in Nat
    /\ MaxPresses \in Nat
    /\ MaxHolds \in Nat
    /\ MaxSignals \in Nat
    /\ MaxPower \in Nat

VARIABLES formed,   \* a network is stored in NVRAM (survives a restart)
          keys,     \* Install Codes of the trust centre (in NVRAM)
          joined,   \* ZB_JOINED()
          leaving,  \* a LEAVE signal is on its way to the handler
          bdb,      \* what the commissioning machine of the stack is doing
          alarms,   \* pending steering_finished alarms
          led,      \* ZIGBEE_NETWORK_STATE_LED is lit
          policy,   \* the Install Code policy is enforced
          zboss,    \* where the ZBOSS thread is: pc, and the signal it handles
          queue,    \* callbacks scheduled and not yet run
          params,   \* g_ic_add_params
          uart,     \* where the UART thread is: pc, the byte it stores next,
                    \*   and the pair of its ic_add line
          button,   \* where button_changed is
          timer,    \* reboot_timer
          asked,    \* history: pairs the operator typed, or compiled in
          waiting,  \* the operator's last command has not been answered
          left      \* what remains of the bounds

vars == <<formed, keys, joined, leaving, bdb, alarms, led, policy, zboss, queue, params,
          uart, button, timer, asked, waiting, left>>
stack    == <<formed, joined, leaving, bdb>>
operator == <<asked, waiting, left>>

Signals == {"none", "FIRST_START", "REBOOT", "FORMATION", "STEERING",
            "DEVICE_ANNCE", "OTHER"}
Callbacks == {"ic_add", "factory_reset", "reopen", "local_reset"}
Activities == {"command", "press", "hold", "signal", "power"}

HandlerStates == [pc : {"ready", "case", "extend", "lamp", "abort"},
                  sig : Signals, ok : BOOLEAN]
ParamValues   == [addr : Addrs, code : Codes]
UartStates    == [pc : {"idle", "addr", "code", "schedule"}, at : Nat,
                  addr : Addrs, code : Codes]
Budgets       == [Activities -> Nat]

NoKeys == [a \in Addrs |-> NoCode]
Ready  == [pc |-> "ready", sig |-> "none", ok |-> TRUE]
Blank  == [addr |-> [i \in 1..AddrBytes |-> 0], code |-> [i \in 1..CodeBytes |-> 0]]
Idle   == [pc |-> "idle", at |-> 1, addr |-> Blank.addr, code |-> Blank.code]
Built  == IF Development THEN {<<DevAddr, DevCode>>} ELSE {}

Init ==
    /\ formed \in BOOLEAN
    /\ keys = NoKeys
    /\ joined = FALSE
    /\ leaving = FALSE
    /\ bdb = "init"
    /\ alarms = 0
    /\ led = FALSE
    /\ policy = Development
    /\ zboss = Ready
    /\ queue = <<>>
    /\ params = Blank
    /\ uart = Idle
    /\ button = "idle"
    /\ timer = "off"
    /\ asked = Built
    /\ waiting = FALSE
    /\ left = [command |-> MaxCommands, press |-> MaxPresses, hold |-> MaxHolds,
               signal |-> MaxSignals, power |-> MaxPower]

Spend(what) == left[what] > 0 /\ left' = [left EXCEPT ![what] = @ - 1]

--------------------------------------------------------------------------------
(* Calls into the stack and the kernel. *)

\* bdb_start_top_level_commissioning: refused while the stack starts or is busy.
StartSteering == bdb' = IF bdb = "idle" THEN "steering" ELSE bdb

\* Mutant: the stack's count of alarms is not tested.
CancelUntested == alarms' = alarms - 1

\* ZB_SCHEDULE_APP_ALARM_CANCEL(steering_finished, ZB_ALARM_ANY_PARAM) takes one.
CancelAlarm == alarms' = IF alarms > 0 THEN alarms - 1 ELSE 0

\* ZB_SCHEDULE_APP_CALLBACK: every caller ignores the code a full queue returns.
Schedule(cb) == queue' = IF Len(queue) < QueueSize THEN Append(queue, cb) ELSE queue

\* A restart of the board: RAM is lost and main() runs again; NVRAM stays.
Restart ==
    /\ joined' = FALSE
    /\ leaving' = FALSE
    /\ bdb' = "init"
    /\ alarms' = 0
    /\ led' = FALSE
    /\ policy' = Development
    /\ zboss' = Ready
    /\ queue' = <<>>
    /\ params' = Blank
    /\ uart' = Idle
    /\ button' = "idle"
    /\ timer' = "off"
    /\ waiting' = FALSE
    /\ UNCHANGED <<formed, keys, asked>>

--------------------------------------------------------------------------------
(* Signals the stack raises; zboss.sig is then handled step by step. *)

Deliver(sig, ok) ==
    /\ zboss.pc = "ready"
    /\ zboss' = [pc |-> "case", sig |-> sig, ok |-> ok]
    /\ UNCHANGED <<keys, alarms, led, policy, queue, params, uart, button, timer,
                   asked, waiting>>

\* The stack has started, on the stored network or on none.
StackStarted ==
    /\ bdb = "init"
    /\ bdb' = "idle"
    /\ \/ ~formed /\ \E ok \in BOOLEAN : Deliver("FIRST_START", ok) /\ joined' = FALSE
       \/ formed /\ Deliver("REBOOT", TRUE) /\ joined' = TRUE
       \/ Deliver("REBOOT", FALSE) /\ joined' = FALSE
    /\ UNCHANGED <<formed, leaving, left>>

FormationEnds ==
    /\ bdb = "formation"
    /\ bdb' = "idle"
    /\ \E ok \in BOOLEAN :
        /\ Deliver("FORMATION", ok)
        /\ joined' = (joined \/ ok)
        /\ formed' = (formed \/ ok)
    /\ UNCHANGED <<leaving, left>>

SteeringEnds ==
    /\ bdb = "steering"
    /\ bdb' = "idle"
    /\ \E ok \in BOOLEAN : (ok => joined) /\ Deliver("STEERING", ok)
    /\ UNCHANGED <<formed, joined, leaving, left>>

\* The LEAVE of a factory reset, which the default handler handles.
LeaveArrives ==
    /\ leaving
    /\ leaving' = FALSE
    /\ Deliver("OTHER", TRUE)
    /\ UNCHANGED <<formed, joined, bdb, left>>

\* A device joins or rejoins; or any signal left to the default handler.
Unsolicited ==
    /\ bdb # "init"
    /\ Spend("signal")
    /\ \/ joined /\ Deliver("DEVICE_ANNCE", TRUE)
       \/ Deliver("OTHER", TRUE)
    /\ UNCHANGED stack

--------------------------------------------------------------------------------
(* zboss_signal_handler. *)

Handling(sig, ok) == zboss.pc = "case" /\ zboss.sig = sig /\ zboss.ok = ok
GoTo(pc) == zboss' = [zboss EXCEPT !.pc = pc]

\* Frame of a handler step that leaves the keys and the other threads alone.
HandlerFrame == UNCHANGED <<formed, joined, leaving, led, queue, params, uart, button,
                            timer, operator>>

\* Start commissioning under ZB_COMM_STATUS_CHECK: a refusal aborts.
StartOrAbort(mode) ==
    /\ bdb' = IF bdb = "idle" THEN mode ELSE bdb
    /\ GoTo(IF bdb = "idle" THEN "lamp" ELSE "abort")

\* ZB_SCHEDULE_APP_ALARM(steering_finished) under ZB_ERROR_CHECK.
AlarmOrAbort ==
    /\ alarms' = IF alarms < AlarmPool THEN alarms + 1 ELSE alarms
    /\ GoTo(IF alarms < AlarmPool THEN "lamp" ELSE "abort")

RegisterDevelopmentKeys ==
    /\ keys' = IF Development THEN [keys EXCEPT ![DevAddr] = DevCode] ELSE keys
    /\ policy' = (policy \/ Development)

\* A first start, or a restart whose NVRAM is unusable: form a network.
HandleStartWithoutNetwork ==
    /\ Handling("FIRST_START", TRUE) \/ Handling("REBOOT", FALSE)
    /\ StartOrAbort("formation")
    /\ UNCHANGED <<keys, policy, alarms>>
    /\ HandlerFrame

\* Mutant: ZIGBEE_MANUAL_STEERING, the network is not opened after it forms.
NetworkUpWithoutSteering ==
    /\ Handling("REBOOT", TRUE) \/ Handling("FORMATION", TRUE)
    /\ RegisterDevelopmentKeys
    /\ GoTo("lamp")
    /\ UNCHANGED <<alarms, bdb>>
    /\ HandlerFrame

\* Mutant: the built-in key is not registered again after the network forms.
NetworkUpWithoutKeys ==
    /\ Handling("REBOOT", TRUE) \/ Handling("FORMATION", TRUE)
    /\ StartOrAbort("steering")
    /\ UNCHANGED <<keys, policy, alarms>>
    /\ HandlerFrame

\* A network is up, reloaded or new: register the built-in key, open the network.
HandleNetworkUp ==
    /\ Handling("REBOOT", TRUE) \/ Handling("FORMATION", TRUE)
    /\ RegisterDevelopmentKeys
    /\ StartOrAbort("steering")
    /\ UNCHANGED alarms
    /\ HandlerFrame

\* Steering opened the network: the alarm marks the end of the period.
HandleSteering ==
    /\ Handling("STEERING", TRUE)
    /\ AlarmOrAbort
    /\ UNCHANGED <<keys, policy, bdb>>
    /\ HandlerFrame

\* Mutant: the period is extended without taking the old alarm back.
DeviceAnnceKeepsAlarm ==
    /\ Handling("DEVICE_ANNCE", TRUE)
    /\ GoTo(IF alarms > 0 THEN "extend" ELSE "lamp")
    /\ UNCHANGED <<keys, policy, bdb, alarms>>
    /\ HandlerFrame

\* A device announced itself: take the alarm back, if there is one to extend.
HandleDeviceAnnce ==
    /\ Handling("DEVICE_ANNCE", TRUE)
    /\ CancelAlarm
    /\ GoTo(IF alarms > 0 THEN "extend" ELSE "lamp")
    /\ UNCHANGED <<keys, policy, bdb>>
    /\ HandlerFrame

HandleExtend ==
    /\ zboss.pc = "extend"
    /\ AlarmOrAbort
    /\ UNCHANGED <<keys, policy, bdb>>
    /\ HandlerFrame

\* Mutant: a failed steering leaves the LED as it is.
OtherKeepsLed ==
    /\ \/ \E sig \in {"FIRST_START", "FORMATION", "STEERING"} : Handling(sig, FALSE)
       \/ Handling("OTHER", TRUE)
    /\ zboss' = Ready
    /\ UNCHANGED <<keys, policy, bdb, alarms>>
    /\ HandlerFrame

\* A failure that is only logged; or a signal for the default handler, whose own
\* result is under ZB_ERROR_CHECK: an error of it aborts.
HandleOther ==
    /\ \/ /\ \E sig \in {"FIRST_START", "FORMATION", "STEERING"} : Handling(sig, FALSE)
          /\ GoTo("lamp")
       \/ /\ Handling("OTHER", TRUE)
          /\ \E pc \in {"lamp", "abort"} : GoTo(pc)
    /\ UNCHANGED <<keys, policy, bdb, alarms>>
    /\ HandlerFrame

\* The LED update every signal ends with.
UpdateLed ==
    /\ zboss.pc = "lamp"
    /\ led' = (joined /\ alarms > 0)
    /\ zboss' = Ready
    /\ UNCHANGED <<stack, keys, policy, alarms, queue, params, uart, button, timer,
                   operator>>

\* ZB_ERROR_CHECK and ZB_COMM_STATUS_CHECK abort, and the board restarts.
AbortRestarts == zboss.pc = "abort" /\ Restart /\ UNCHANGED left

SignalHandler ==
    \/ HandleStartWithoutNetwork
    \/ HandleNetworkUp
    \/ HandleSteering
    \/ HandleDeviceAnnce
    \/ HandleExtend
    \/ HandleOther
    \/ UpdateLed
    \/ AbortRestarts

--------------------------------------------------------------------------------
(* The alarm and the scheduled callbacks, on the ZBOSS thread. *)

SteeringFinished ==
    /\ zboss.pc = "ready"
    /\ alarms > 0
    /\ alarms' = alarms - 1
    /\ led' = FALSE
    /\ UNCHANGED <<stack, keys, policy, zboss, queue, params, uart, button, timer,
                   operator>>

Runs(cb) ==
    /\ zboss.pc = "ready"
    /\ queue # <<>>
    /\ Head(queue) = cb
    /\ queue' = Tail(queue)
    /\ UNCHANGED <<led, zboss, params, uart, button, asked, left>>

\* ic_add_callback: register what g_ic_add_params holds now, open, answer.
IcAddCallback ==
    /\ Runs("ic_add")
    /\ policy' = TRUE
    /\ keys' = [keys EXCEPT ![params.addr] = params.code]
    /\ StartSteering
    /\ waiting' = FALSE
    /\ UNCHANGED <<formed, joined, leaving, alarms, timer>>

\* Mutant: reopening does not take the pending alarm back.
ReopenKeepsAlarm ==
    /\ Runs("reopen")
    /\ StartSteering
    /\ waiting' = FALSE
    /\ UNCHANGED <<formed, joined, leaving, alarms, keys, policy, timer>>

\* Mutant: steering is started by a later command only.
ReopenWithoutSteering ==
    /\ Runs("reopen")
    /\ CancelAlarm
    /\ waiting' = FALSE
    /\ UNCHANGED <<stack, keys, policy, timer>>

ReopenSteeringCb ==
    /\ Runs("reopen")
    /\ CancelAlarm
    /\ StartSteering
    /\ waiting' = FALSE
    /\ UNCHANGED <<formed, joined, leaving, keys, policy, timer>>

\* zb_bdb_reset_via_local_action: NVRAM is erased, commissioning stops, and a
\* coordinator that was on a network is told with a LEAVE signal.
LocalReset ==
    /\ formed' = FALSE
    /\ keys' = NoKeys
    /\ joined' = FALSE
    /\ leaving' = (leaving \/ joined)
    /\ bdb' = IF bdb = "init" THEN "init" ELSE "idle"

\* Mutant: the restart timer is initialised and not started.
FactoryResetWithoutTimer ==
    /\ Runs("factory_reset")
    /\ LocalReset
    /\ UNCHANGED <<alarms, policy, waiting, timer>>

\* factory_reset_handler: a timer that is initialised again while it runs may be
\* lost by the kernel, whose list of timeouts still holds it.
FactoryResetHandler ==
    /\ Runs("factory_reset")
    /\ LocalReset
    /\ timer' \in IF timer = "off" THEN {"armed"} ELSE {"armed", "lost"}
    /\ UNCHANGED <<alarms, policy, waiting>>

\* What the SDK schedules when Button 4 is held: the reset, and no restart.
ButtonResetCallback ==
    /\ Runs("local_reset")
    /\ LocalReset
    /\ UNCHANGED <<alarms, policy, waiting, timer>>

ScheduledCallback ==
    \/ IcAddCallback
    \/ ReopenSteeringCb
    \/ FactoryResetHandler
    \/ ButtonResetCallback

--------------------------------------------------------------------------------
(* Buttons 1 and 4, on the system work queue.  The release of Button 4 that      *)
(* starts identify mode is in Identify.                                          *)

ButtonFrame == UNCHANGED <<formed, joined, leaving, keys, led, policy, zboss, params,
                           uart, timer, asked, waiting>>

ButtonCancel ==
    /\ button = "idle"
    /\ Spend("press")
    /\ CancelAlarm
    /\ button' = "cancelled"
    /\ UNCHANGED <<bdb, queue>>
    /\ ButtonFrame

ButtonStart ==
    /\ button = "cancelled"
    /\ StartSteering
    /\ button' = "idle"
    /\ UNCHANGED <<alarms, queue, left>>
    /\ ButtonFrame

\* check_factory_reset_button arms a timer when Button 4 goes down; if the button is
\* still held when it expires the SDK schedules the reset.  One step: until then
\* nothing but that timer has changed.
FactoryResetHeld ==
    /\ Spend("hold")
    /\ Schedule("local_reset")
    /\ UNCHANGED <<bdb, alarms, button>>
    /\ ButtonFrame

--------------------------------------------------------------------------------
(* parse_uart_command, on the UART thread. *)

UartFrame == UNCHANGED <<stack, keys, alarms, led, policy, zboss, button, timer>>

\* The operator completes a line.
Line(cmd) ==
    /\ uart.pc = "idle"
    /\ cmd \in Commands
    /\ Patient => ~waiting
    /\ Spend("command")

LineIcAdd(p) ==
    /\ Line("ic_add")
    /\ uart' = [pc |-> "addr", at |-> 1, addr |-> p[1], code |-> p[2]]
    /\ asked' = asked \union {p}
    /\ waiting' = TRUE
    /\ UNCHANGED <<queue, params>>
    /\ UartFrame

\* "ic_add_failed: invalid format": answered at once, nothing stored.
LineRejected ==
    /\ Line("bad")
    /\ UNCHANGED <<uart, asked, waiting, queue, params>>
    /\ UartFrame

LineScheduled(cmd) ==
    /\ Line(cmd)
    /\ Schedule(cmd)
    /\ waiting' = TRUE
    /\ UNCHANGED <<uart, asked, params>>
    /\ UartFrame

\* The loops store one byte at a time in g_ic_add_params.
WriteAddr ==
    /\ uart.pc = "addr"
    /\ params' = [params EXCEPT !.addr[uart.at] = uart.addr[uart.at]]
    /\ uart' = IF uart.at < AddrBytes THEN [uart EXCEPT !.at = @ + 1]
                                      ELSE [uart EXCEPT !.pc = "code", !.at = 1]
    /\ UNCHANGED <<queue, operator>>
    /\ UartFrame

WriteCode ==
    /\ uart.pc = "code"
    /\ params' = [params EXCEPT !.code[uart.at] = uart.code[uart.at]]
    /\ uart' = IF uart.at < CodeBytes THEN [uart EXCEPT !.at = @ + 1]
                                      ELSE [uart EXCEPT !.pc = "schedule", !.at = 1]
    /\ UNCHANGED <<queue, operator>>
    /\ UartFrame

\* Mutant: the UART thread prints ic_add_success itself.
ScheduleAndReply ==
    /\ uart.pc = "schedule"
    /\ Schedule("ic_add")
    /\ uart' = Idle
    /\ waiting' = FALSE
    /\ UNCHANGED <<params, asked, left>>
    /\ UartFrame

ScheduleIcAdd ==
    /\ uart.pc = "schedule"
    /\ Schedule("ic_add")
    /\ uart' = Idle
    /\ UNCHANGED <<params, operator>>
    /\ UartFrame

UartThread == WriteAddr \/ WriteCode \/ ScheduleIcAdd

OperatorTypes ==
    \/ \E p \in Pairs : LineIcAdd(p)
    \/ LineRejected
    \/ \E cmd \in {"factory_reset", "reopen"} : LineScheduled(cmd)

--------------------------------------------------------------------------------
(* The kernel timer, and the mains. *)

RebootTimerHandler == timer = "armed" /\ Restart /\ UNCHANGED left

PowerCycle == Spend("power") /\ Restart

--------------------------------------------------------------------------------

StackAnswers == StackStarted \/ FormationEnds \/ SteeringEnds \/ LeaveArrives

Next ==
    \/ StackAnswers
    \/ Unsolicited
    \/ SignalHandler
    \/ SteeringFinished
    \/ ScheduledCallback
    \/ ButtonCancel
    \/ ButtonStart
    \/ FactoryResetHeld
    \/ OperatorTypes
    \/ UartThread
    \/ RebootTimerHandler
    \/ PowerCycle

Safe == Init /\ [][Next]_vars

\* Every thread is scheduled, the stack answers what it was asked, and alarms and
\* timers expire.  Nobody has to type, press, announce or pull the plug.
Fairness ==
    /\ WF_vars(StackAnswers)
    /\ WF_vars(SignalHandler)
    /\ WF_vars(SteeringFinished)
    /\ WF_vars(ScheduledCallback)
    /\ WF_vars(ButtonStart)
    /\ WF_vars(UartThread)
    /\ WF_vars(RebootTimerHandler)

Spec == Safe /\ Fairness

--------------------------------------------------------------------------------
(* What the coordinator must keep. *)

\* Every variable has its type, and the pools of the stack are not exceeded.
StackType ==
    /\ formed \in BOOLEAN
    /\ keys \in [Addrs -> Codes \union {NoCode}]
    /\ joined \in BOOLEAN
    /\ leaving \in BOOLEAN
    /\ bdb \in {"init", "idle", "formation", "steering"}
    /\ alarms \in 0..AlarmPool
    /\ led \in BOOLEAN
    /\ policy \in BOOLEAN
ThreadType ==
    /\ zboss \in HandlerStates
    /\ queue \in Seq(Callbacks) /\ Len(queue) <= QueueSize
    /\ params \in ParamValues
    /\ uart \in UartStates
    /\ uart.at \in 1..(IF uart.pc = "addr" THEN AddrBytes ELSE CodeBytes)
    /\ button \in {"idle", "cancelled"}
    /\ timer \in {"off", "armed", "lost"}
OperatorType ==
    /\ asked \in SUBSET (Addrs \X Codes)
    /\ waiting \in BOOLEAN
    /\ left \in Budgets
TypeOK == StackType /\ ThreadType /\ OperatorType

\* The network LED never stays lit with nothing left that would put it out: there
\* is an alarm, or an answer of the stack or a LEAVE to come, or a thread in the
\* middle of replacing one by the other.  Three threads take the alarm away, and two
\* resets the network; no restart is counted on.
LedBacked ==
    led => \/ alarms > 0
           \/ bdb = "steering"
           \/ button = "cancelled"
           \/ zboss.pc # "ready"
           \/ leaving

\* Before the stack has started, while a network forms, and when a start is being
\* handled, no period runs: formation never overlaps an alarm of an older network.
Starting == bdb \in {"init", "formation"}
HandlingStart == zboss.pc = "case" /\ zboss.sig \in {"FIRST_START", "REBOOT"}
HandlingPeriod == zboss.pc = "extend" \/ (zboss.pc = "case" /\ zboss.sig = "STEERING")
QuietStart ==
    /\ Starting \/ HandlingStart => alarms = 0 /\ ~led
    /\ Starting => ~HandlingPeriod

\* Whatever order the lines, callbacks and signals come in, the trust centre holds
\* for an address the code that was typed (or compiled in) with that address.
KeysAsAsked == \A a \in Addrs : keys[a] # NoCode => <<a, keys[a]>> \in asked

\* Why, when the operator waits for replies: one command is under way at a time, so
\* nobody writes g_ic_add_params between ScheduleIcAdd and IcAddCallback.
OfOperator == {i \in 1..Len(queue) : queue[i] # "local_reset"}
OneCommand ==
    /\ uart.pc # "idle" => waiting /\ <<uart.addr, uart.code>> \in asked
    /\ \A i, j \in OfOperator : i = j
    /\ OfOperator # {} => waiting /\ uart.pc = "idle"
    /\ uart.pc = "addr" => \A i \in 1..(uart.at - 1) : params.addr[i] = uart.addr[i]
    /\ uart.pc \in {"code", "schedule"} => params.addr = uart.addr
    /\ uart.pc = "code" => \A i \in 1..(uart.at - 1) : params.code[i] = uart.code[i]
    /\ uart.pc = "schedule" => params.code = uart.code
    /\ \A i \in 1..Len(queue) :
          queue[i] = "ic_add" => <<params.addr, params.code>> \in asked
    /\ Built \subseteq asked

\* The coordinator keeps the promise of KeyRegistry.
KR == INSTANCE KeyRegistry
ImplementsKeyRegistry == KR!Spec

\* With the UART command reopen alone, at most one steering_finished is pending:
\* every new period replaces the alarm of the last.
OneAlarm == alarms <= 1

\* Why: an alarm and a running steering exclude each other, and the signals that
\* end or begin commissioning are handled while the stack is idle.
OneAtATime ==
    /\ alarms <= 1
    /\ bdb = "steering" => alarms = 0
    /\ zboss.pc = "extend" => bdb = "idle" /\ alarms = 0
    /\ zboss.pc = "case" /\ zboss.sig \notin {"DEVICE_ANNCE", "OTHER"}
         => bdb = "idle" /\ alarms = 0
    /\ zboss.pc = "abort" => zboss.sig = "OTHER"

\* When no thread is busy with it, the LED of a joined coordinator is lit exactly
\* while a steering period runs (README.rst:58-62).
Settled ==
    /\ zboss.pc = "ready"
    /\ bdb = "idle"
    /\ button = "idle"
LedFollowsPeriod == Settled /\ joined => (led <=> alarms > 0)

\* Of the checks of the signal handler, only that of the default handler's own result
\* (main.c:504) can fail: the stack is never busy and never out of alarms when the
\* coordinator starts commissioning or schedules steering_finished.
NoAbort == zboss.pc = "abort" => zboss.sig = "OTHER"

\* While the development coordinator is on a network and lets devices in, it holds the
\* built-in key: after a formation, a restart and both kinds of factory reset.
DevKeyWhenOpen ==
    Development /\ joined /\ alarms > 0 => keys[DevAddr] = DevCode

\* Every command of an operator who waits is answered, factory_reset by a restart,
\* also when Button 4 erases the network meanwhile.
CommandAnswered == waiting ~> ~waiting

\* A steering period that nobody extends ends: the LED goes out.
LedGoesOff == led ~> ~led

\* A network that forms is opened, unless steering fails or the network is lost again,
\* by a reset or a restart.
NetworkOpens ==
    Handling("FORMATION", TRUE) ~> \/ alarms > 0
                                   \/ Handling("STEERING", FALSE)
                                   \/ ~joined
================================================================================
