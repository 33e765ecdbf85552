--------------------------- MODULE CoordinatorProofs ---------------------------
(* Theorems about Coordinator, for every value of its constants. *)
EXTENDS Coordinator, TLAPS

--------------------------------------------------------------------------------
(* What the calls into the stack return. *)

\* The parts of CoordinatorConstants the steps need.
LEMMA PoolSizes == AlarmPool \in Nat \ {0} /\ QueueSize \in Nat \ {0}
  BY CoordinatorConstants

\* What the operator types is a pair of an address and a code.
LEMMA TypedPair ==
    ASSUME NEW p \in Pairs
    PROVE  p \in Addrs \X Codes /\ p[1] \in Addrs /\ p[2] \in Codes
  BY CoordinatorConstants

\* The compiled-in pair has the type of any other.
LEMMA DevelopmentKey ==
    Development \in BOOLEAN /\ DevAddr \in Addrs /\ DevCode \in Codes
  BY CoordinatorConstants

\* Taking from a bound leaves the bounds natural numbers.
LEMMA SpendType ==
    ASSUME OperatorType, NEW what \in Activities, Spend(what)
    PROVE  left' \in Budgets
  BY DEF OperatorType, Spend, Budgets

\* A callback is appended within the capacity of the queue, or dropped.
LEMMA ScheduleType ==
    ASSUME ThreadType, NEW cb \in Callbacks, Schedule(cb)
    PROVE  queue' \in Seq(Callbacks) /\ Len(queue') <= QueueSize
  BY PoolSizes DEF ThreadType, Schedule

\* Running a callback takes it off the queue.
LEMMA RunsType ==
    ASSUME ThreadType, NEW cb, Runs(cb)
    PROVE  /\ queue' \in Seq(Callbacks) /\ Len(queue') <= QueueSize
           /\ Len(queue') = Len(queue) - 1
  BY PoolSizes DEF ThreadType, Runs

\* Cancelling and scheduling alarms stays within the pool.
LEMMA CancelType == StackType /\ CancelAlarm => alarms' \in 0..AlarmPool
  BY PoolSizes DEF StackType, CancelAlarm

\* Scheduling an alarm stays within the pool, or aborts.
LEMMA AlarmType == StackType /\ AlarmOrAbort => alarms' \in 0..AlarmPool
  BY PoolSizes DEF StackType, AlarmOrAbort

\* The handler moves between its own places.
LEMMA GoToType ==
    ASSUME ThreadType, NEW pc \in {"ready", "case", "extend", "lamp", "abort"}, GoTo(pc)
    PROVE  zboss' \in HandlerStates
  BY DEF ThreadType, GoTo, HandlerStates

\* A signal handed to the handler is one of its states.
LEMMA DeliverType ==
    ASSUME NEW sig \in Signals, NEW ok \in BOOLEAN, Deliver(sig, ok)
    PROVE  zboss' \in HandlerStates
  BY DEF Deliver, HandlerStates

\* The states threads rest in have their types.
LEMMA RestingTypes == Ready \in HandlerStates /\ Idle \in UartStates /\ Blank \in ParamValues
<1>1. Blank \in ParamValues /\ Blank.addr \in Addrs /\ Blank.code \in Codes
  BY CoordinatorConstants DEF Blank, ParamValues, Addrs, Codes
<1>2. Idle \in UartStates
  BY <1>1 DEF Idle, UartStates
<1> QED
  BY <1>1, <1>2 DEF Ready, HandlerStates, Signals

\* A thread at rest is before the first byte.
LEMMA IdleAt == Idle.pc = "idle" /\ Idle.at \in 1..CodeBytes
  BY CoordinatorConstants DEF Idle

\* The UART thread stores one byte of the address and goes on to the next, or to the
\* code when it was the last.
LEMMA AddrStored ==
    ASSUME ThreadType, WriteAddr
    PROVE  /\ params' \in ParamValues /\ params'.code = params.code
           /\ \A i \in 1..AddrBytes :
                params'.addr[i] = IF i = uart.at THEN uart.addr[i] ELSE params.addr[i]
           /\ uart' \in UartStates /\ uart'.addr = uart.addr /\ uart'.code = uart.code
           /\ uart.at \in 1..AddrBytes
           /\ \/ uart'.pc = "addr" /\ uart'.at = uart.at + 1 /\ uart'.at \in 1..AddrBytes
              \/ uart'.pc = "code" /\ uart'.at = 1 /\ uart.at = AddrBytes
<1>1. /\ params \in ParamValues /\ uart \in UartStates /\ uart.pc = "addr"
      /\ uart.at \in 1..AddrBytes /\ AddrBytes \in Nat
  BY CoordinatorConstants DEF ThreadType, WriteAddr
<1>2. params.addr \in Addrs /\ params.code \in Codes /\ uart.addr \in Addrs
  BY <1>1 DEF ParamValues, UartStates
<1> DEFINE a == [params.addr EXCEPT ![uart.at] = uart.addr[uart.at]]
<1>3. a \in Addrs /\ \A i \in 1..AddrBytes : a[i] = IF i = uart.at THEN uart.addr[i] ELSE params.addr[i]
  <2>1. params.addr \in [1..AddrBytes -> Byte] /\ uart.addr[uart.at] \in Byte
    BY <1>1, <1>2 DEF Addrs
  <2>2. a \in [1..AddrBytes -> Byte]
    BY <2>1
  <2>3. \A i \in 1..AddrBytes : a[i] = IF i = uart.at THEN uart.addr[i] ELSE params.addr[i]
    BY <2>1
  <2> QED
    BY <2>2, <2>3 DEF Addrs
<1>4. params' = [params EXCEPT !.addr = a]
  BY DEF WriteAddr
<1> HIDE DEF a
<1>5. params' \in ParamValues /\ params'.code = params.code /\ params'.addr = a
  BY <1>1, <1>3, <1>4 DEF ParamValues
<1>6. uart' = IF uart.at < AddrBytes THEN [uart EXCEPT !.at = uart.at + 1]
                                     ELSE [uart EXCEPT !.pc = "code", !.at = 1]
  BY DEF WriteAddr
<1>7. /\ uart' \in UartStates /\ uart'.addr = uart.addr /\ uart'.code = uart.code
      /\ \/ uart'.pc = "addr" /\ uart'.at = uart.at + 1 /\ uart'.at \in 1..AddrBytes
         \/ uart'.pc = "code" /\ uart'.at = 1 /\ uart.at = AddrBytes
  <2>1. CASE uart.at < AddrBytes
    <3>1. uart' = [uart EXCEPT !.at = uart.at + 1]
      BY <1>6, <2>1
    <3> QED
      BY <1>1, <2>1, <3>1 DEF UartStates
  <2>2. CASE ~(uart.at < AddrBytes)
    <3>1. uart' = [uart EXCEPT !.pc = "code", !.at = 1] /\ uart.at = AddrBytes
      BY <1>1, <1>6, <2>2
    <3> QED
      BY <1>1, <3>1 DEF UartStates
  <2> QED
    BY <2>1, <2>2
<1> QED
  BY <1>1, <1>3, <1>5, <1>7

\* The same of a byte of the code.
LEMMA CodeStored ==
    ASSUME ThreadType, WriteCode
    PROVE  /\ params' \in ParamValues /\ params'.addr = params.addr
           /\ \A i \in 1..CodeBytes :
                params'.code[i] = IF i = uart.at THEN uart.code[i] ELSE params.code[i]
           /\ uart' \in UartStates /\ uart'.addr = uart.addr /\ uart'.code = uart.code
           /\ uart.at \in 1..CodeBytes
           /\ \/ uart'.pc = "code" /\ uart'.at = uart.at + 1 /\ uart'.at \in 1..CodeBytes
              \/ uart'.pc = "schedule" /\ uart'.at = 1 /\ uart.at = CodeBytes
<1>1. /\ params \in ParamValues /\ uart \in UartStates /\ uart.pc = "code"
      /\ uart.at \in 1..CodeBytes /\ CodeBytes \in Nat
  BY CoordinatorConstants DEF ThreadType, WriteCode
<1>2. params.addr \in Addrs /\ params.code \in Codes /\ uart.code \in Codes
  BY <1>1 DEF ParamValues, UartStates
<1> DEFINE c == [params.code EXCEPT ![uart.at] = uart.code[uart.at]]
<1>3. c \in Codes /\ \A i \in 1..CodeBytes : c[i] = IF i = uart.at THEN uart.code[i] ELSE params.code[i]
  <2>1. params.code \in [1..CodeBytes -> Byte] /\ uart.code[uart.at] \in Byte
    BY <1>1, <1>2 DEF Codes
  <2>2. c \in [1..CodeBytes -> Byte]
    BY <2>1
  <2>3. \A i \in 1..CodeBytes : c[i] = IF i = uart.at THEN uart.code[i] ELSE params.code[i]
    BY <2>1
  <2> QED
    BY <2>2, <2>3 DEF Codes
<1>4. params' = [params EXCEPT !.code = c]
  BY DEF WriteCode
<1> HIDE DEF c
<1>5. params' \in ParamValues /\ params'.addr = params.addr /\ params'.code = c
  BY <1>1, <1>3, <1>4 DEF ParamValues
<1>6. uart' = IF uart.at < CodeBytes THEN [uart EXCEPT !.at = uart.at + 1]
                                     ELSE [uart EXCEPT !.pc = "schedule", !.at = 1]
  BY DEF WriteCode
<1>7. /\ uart' \in UartStates /\ uart'.addr = uart.addr /\ uart'.code = uart.code
      /\ \/ uart'.pc = "code" /\ uart'.at = uart.at + 1 /\ uart'.at \in 1..CodeBytes
         \/ uart'.pc = "schedule" /\ uart'.at = 1 /\ uart.at = CodeBytes
  <2>1. CASE uart.at < CodeBytes
    <3>1. uart' = [uart EXCEPT !.at = uart.at + 1]
      BY <1>6, <2>1
    <3> QED
      BY <1>1, <2>1, <3>1 DEF UartStates
  <2>2. CASE ~(uart.at < CodeBytes)
    <3>1. uart' = [uart EXCEPT !.pc = "schedule", !.at = 1] /\ uart.at = CodeBytes
      BY <1>1, <1>6, <2>2
    <3> QED
      BY <1>1, <3>1 DEF UartStates
  <2> QED
    BY <2>1, <2>2
<1> QED
  BY <1>1, <1>3, <1>5, <1>7

\* A board that restarts is in a state of the right type.
LEMMA RestartType == TypeOK /\ Restart /\ left' \in Budgets => TypeOK'
<1> SUFFICES ASSUME TypeOK, Restart, left' \in Budgets PROVE TypeOK'
  OBVIOUS
<1>1. StackType'
  <2>1. joined' \in BOOLEAN /\ led' \in BOOLEAN /\ policy' \in BOOLEAN
    BY DevelopmentKey DEF Restart
  <2>2. alarms' \in 0..AlarmPool
    BY PoolSizes DEF Restart
  <2> QED
    BY <2>1, <2>2 DEF TypeOK, StackType, Restart
<1>2. ThreadType'
  BY PoolSizes, RestingTypes, IdleAt DEF ThreadType, Restart
<1>3. OperatorType'
  BY DEF TypeOK, OperatorType, Restart
<1> QED
  BY <1>1, <1>2, <1>3 DEF TypeOK

--------------------------------------------------------------------------------
(* Types. *)

\* What is compiled in is a set of pairs.
LEMMA BuiltType == Built \in SUBSET (Addrs \X Codes)
  BY DevelopmentKey DEF Built

\* Init gives every variable its type.
LEMMA InitType == Init => TypeOK
<1> SUFFICES ASSUME Init PROVE TypeOK
  OBVIOUS
<1>1. StackType
  <2>1. joined \in BOOLEAN /\ led \in BOOLEAN /\ policy \in BOOLEAN
    BY DevelopmentKey DEF Init
  <2>2. alarms \in 0..AlarmPool
    BY PoolSizes DEF Init
  <2> QED
    BY <2>1, <2>2 DEF StackType, Init, NoKeys
<1>2. ThreadType
  BY PoolSizes, RestingTypes, IdleAt DEF ThreadType, Init
<1>3. OperatorType
  <2>1. asked \in SUBSET (Addrs \X Codes)
    BY BuiltType DEF Init
  <2>2. left \in Budgets
    BY CoordinatorConstants DEF Init, Budgets, Activities
  <2> QED
    BY <2>1, <2>2 DEF OperatorType, Init
<1> QED
  BY <1>1, <1>2, <1>3 DEF TypeOK

\* Every step keeps the types.
LEMMA NextType == TypeOK /\ [Next]_vars => TypeOK'
<1> SUFFICES ASSUME TypeOK, [Next]_vars PROVE TypeOK'
  OBVIOUS
<1> USE DEF TypeOK
<1>1. CASE StackStarted
  <2> USE <1>1 DEF StackStarted, Deliver
  <2>1. StackType'
    BY DEF StackType
  <2>2. ThreadType'
    BY DeliverType DEF ThreadType, Signals
  <2>3. OperatorType'
    BY DEF OperatorType, operator
  <2> QED
    BY <2>1, <2>2, <2>3
<1>2. CASE FormationEnds
  <2> USE <1>2 DEF FormationEnds, Deliver
  <2>1. StackType'
    BY DEF StackType
  <2>2. ThreadType'
    BY DeliverType DEF ThreadType, Signals
  <2>3. OperatorType'
    BY DEF OperatorType, operator
  <2> QED
    BY <2>1, <2>2, <2>3
<1>3. CASE SteeringEnds
  <2> USE <1>3 DEF SteeringEnds, Deliver
  <2>1. StackType'
    BY DEF StackType
  <2>2. ThreadType'
    BY DeliverType DEF ThreadType, Signals
  <2>3. OperatorType'
    BY DEF OperatorType, operator
  <2> QED
    BY <2>1, <2>2, <2>3
<1>4. CASE Unsolicited
  <2> USE <1>4 DEF Unsolicited, Deliver, stack
  <2>1. StackType'
    BY DEF StackType
  <2>2. ThreadType'
    BY DeliverType DEF ThreadType, Signals
  <2>3. OperatorType'
    BY SpendType DEF OperatorType, Activities
  <2> QED
    BY <2>1, <2>2, <2>3
<1>28. CASE LeaveArrives
  <2> USE <1>28 DEF LeaveArrives, Deliver
  <2>1. StackType'
    BY DEF StackType
  <2>2. ThreadType'
    BY DeliverType DEF ThreadType, Signals
  <2>3. OperatorType'
    BY DEF OperatorType, operator
  <2> QED
    BY <2>1, <2>2, <2>3
<1>5. CASE HandleStartWithoutNetwork
  <2> USE <1>5 DEF HandleStartWithoutNetwork, StartOrAbort, HandlerFrame
  <2>1. StackType'
    BY DEF StackType
  <2>2. ThreadType'
    BY GoToType DEF ThreadType
  <2>3. OperatorType'
    BY DEF OperatorType, operator
  <2> QED
    BY <2>1, <2>2, <2>3
<1>6. CASE HandleNetworkUp
  <2> USE <1>6 DEF HandleNetworkUp, RegisterDevelopmentKeys, StartOrAbort, HandlerFrame
  <2>1. StackType'
    BY PoolSizes, DevelopmentKey DEF StackType
  <2>2. ThreadType'
    BY GoToType DEF ThreadType
  <2>3. OperatorType'
    BY DEF OperatorType, operator
  <2> QED
    BY <2>1, <2>2, <2>3
<1>7. CASE HandleSteering
  <2> USE <1>7 DEF HandleSteering, HandlerFrame
  <2>1. StackType'
    BY AlarmType DEF StackType
  <2>2. ThreadType'
    BY GoToType DEF ThreadType, AlarmOrAbort
  <2>3. OperatorType'
    BY DEF OperatorType, operator
  <2> QED
    BY <2>1, <2>2, <2>3
<1>8. CASE HandleDeviceAnnce
  <2> USE <1>8 DEF HandleDeviceAnnce, HandlerFrame
  <2>1. StackType'
    BY CancelType DEF StackType
  <2>2. ThreadType'
    BY GoToType DEF ThreadType
  <2>3. OperatorType'
    BY DEF OperatorType, operator
  <2> QED
    BY <2>1, <2>2, <2>3
<1>9. CASE HandleExtend
  <2> USE <1>9 DEF HandleExtend, HandlerFrame
  <2>1. StackType'
    BY AlarmType DEF StackType
  <2>2. ThreadType'
    BY GoToType DEF ThreadType, AlarmOrAbort
  <2>3. OperatorType'
    BY DEF OperatorType, operator
  <2> QED
    BY <2>1, <2>2, <2>3
<1>10. CASE HandleOther
  <2> USE <1>10 DEF HandleOther, HandlerFrame
  <2>1. StackType'
    BY DEF StackType
  <2>2. ThreadType'
    BY GoToType DEF ThreadType
  <2>3. OperatorType'
    BY DEF OperatorType, operator
  <2> QED
    BY <2>1, <2>2, <2>3
<1>11. CASE UpdateLed
  <2> USE <1>11 DEF UpdateLed, stack
  <2>1. StackType'
    BY DEF StackType
  <2>2. ThreadType'
    BY RestingTypes DEF ThreadType
  <2>3. OperatorType'
    BY DEF OperatorType, operator
  <2> QED
    BY <2>1, <2>2, <2>3
<1>12. CASE SteeringFinished
  <2> USE <1>12 DEF SteeringFinished, stack
  <2>1. StackType'
    <3>1. alarms' \in 0..AlarmPool
      BY PoolSizes DEF StackType
    <3>2. led' \in BOOLEAN
      OBVIOUS
    <3> QED
      BY <3>1, <3>2 DEF StackType
  <2>2. ThreadType'
    BY DEF ThreadType
  <2>3. OperatorType'
    BY DEF OperatorType, operator
  <2> QED
    BY <2>1, <2>2, <2>3
<1>13. CASE IcAddCallback
  <2> USE <1>13 DEF IcAddCallback, StartSteering
  <2>1. StackType'
    BY DEF StackType, Runs, ThreadType, ParamValues
  <2>2. ThreadType'
    BY RunsType DEF ThreadType, Runs
  <2>3. OperatorType'
    BY DEF OperatorType, Runs
  <2> QED
    BY <2>1, <2>2, <2>3
<1>14. CASE ReopenSteeringCb
  <2> USE <1>14 DEF ReopenSteeringCb, StartSteering
  <2>1. StackType'
    BY CancelType DEF StackType, Runs
  <2>2. ThreadType'
    BY RunsType DEF ThreadType, Runs
  <2>3. OperatorType'
    BY DEF OperatorType, Runs
  <2> QED
    BY <2>1, <2>2, <2>3
<1>15. CASE FactoryResetHandler
  <2> USE <1>15 DEF FactoryResetHandler, LocalReset, NoKeys
  <2>1. StackType'
    BY DEF StackType, Runs
  <2>2. ThreadType'
    BY RunsType DEF ThreadType, Runs
  <2>3. OperatorType'
    BY DEF OperatorType, Runs
  <2> QED
    BY <2>1, <2>2, <2>3
<1>29. CASE ButtonResetCallback
  <2> USE <1>29 DEF ButtonResetCallback, LocalReset, NoKeys
  <2>1. StackType'
    BY DEF StackType, Runs
  <2>2. ThreadType'
    BY RunsType DEF ThreadType, Runs
  <2>3. OperatorType'
    BY DEF OperatorType, Runs
  <2> QED
    BY <2>1, <2>2, <2>3
<1>30. CASE FactoryResetHeld
  <2> USE <1>30 DEF FactoryResetHeld, ButtonFrame
  <2>1. StackType'
    BY DEF StackType
  <2>2. ThreadType'
    BY ScheduleType DEF ThreadType, Callbacks
  <2>3. OperatorType'
    BY SpendType DEF OperatorType, Activities
  <2> QED
    BY <2>1, <2>2, <2>3
<1>16. CASE ButtonCancel
  <2> USE <1>16 DEF ButtonCancel, ButtonFrame
  <2>1. StackType'
    BY CancelType DEF StackType
  <2>2. ThreadType'
    BY DEF ThreadType
  <2>3. OperatorType'
    BY SpendType DEF OperatorType, Activities
  <2> QED
    BY <2>1, <2>2, <2>3
<1>17. CASE ButtonStart
  <2> USE <1>17 DEF ButtonStart, ButtonFrame, StartSteering
  <2>1. StackType'
    BY DEF StackType
  <2>2. ThreadType'
    BY DEF ThreadType
  <2>3. OperatorType'
    BY DEF OperatorType, operator
  <2> QED
    BY <2>1, <2>2, <2>3
<1>18. ASSUME NEW p \in Pairs, LineIcAdd(p) PROVE TypeOK'
  <2> USE <1>18 DEF LineIcAdd, Line, UartFrame, stack
  <2>1. StackType'
    BY DEF StackType
  <2>2. ThreadType'
    BY TypedPair, CoordinatorConstants DEF ThreadType, UartStates
  <2>3. OperatorType'
    BY SpendType, TypedPair DEF OperatorType, Activities
  <2> QED
    BY <2>1, <2>2, <2>3
<1>19. CASE LineRejected
  <2> USE <1>19 DEF LineRejected, Line, UartFrame, stack
  <2>1. StackType'
    BY DEF StackType
  <2>2. ThreadType'
    BY DEF ThreadType
  <2>3. OperatorType'
    BY SpendType DEF OperatorType, Activities
  <2> QED
    BY <2>1, <2>2, <2>3
<1>20. ASSUME NEW cmd \in {"factory_reset", "reopen"}, LineScheduled(cmd) PROVE TypeOK'
  <2> USE <1>20 DEF LineScheduled, Line, UartFrame, stack
  <2>1. StackType'
    BY DEF StackType
  <2>2. ThreadType'
    BY ScheduleType DEF ThreadType, Callbacks
  <2>3. OperatorType'
    BY SpendType DEF OperatorType, Activities
  <2> QED
    BY <2>1, <2>2, <2>3
<1>21. CASE WriteAddr
  <2> USE <1>21 DEF WriteAddr, UartFrame, stack
  <2>1. StackType'
    BY DEF StackType
  <2>2. ThreadType'
    BY AddrStored, CoordinatorConstants DEF ThreadType
  <2>3. OperatorType'
    BY DEF OperatorType, operator
  <2> QED
    BY <2>1, <2>2, <2>3
<1>22. CASE WriteCode
  <2> USE <1>22 DEF WriteCode, UartFrame, stack
  <2>1. StackType'
    BY DEF StackType
  <2>2. ThreadType'
    BY CodeStored, CoordinatorConstants DEF ThreadType
  <2>3. OperatorType'
    BY DEF OperatorType, operator
  <2> QED
    BY <2>1, <2>2, <2>3
<1>23. CASE ScheduleIcAdd
  <2> USE <1>23 DEF ScheduleIcAdd, UartFrame, stack
  <2>1. StackType'
    BY DEF StackType
  <2>2. ThreadType'
    BY ScheduleType, RestingTypes, IdleAt DEF ThreadType, Callbacks
  <2>3. OperatorType'
    BY DEF OperatorType, operator
  <2> QED
    BY <2>1, <2>2, <2>3
<1>24. CASE AbortRestarts
  BY <1>24, RestartType DEF AbortRestarts, OperatorType
<1>25. CASE RebootTimerHandler
  BY <1>25, RestartType DEF RebootTimerHandler, OperatorType
<1>26. CASE PowerCycle
  BY <1>26, RestartType, SpendType DEF PowerCycle, Activities
<1>27. CASE UNCHANGED vars
  BY <1>27 DEF vars, StackType, ThreadType, OperatorType
<1> QED
  BY <1>1, <1>2, <1>3, <1>4, <1>5, <1>6, <1>7, <1>8, <1>9, <1>10, <1>11, <1>12,
     <1>13, <1>14, <1>15, <1>16, <1>17, <1>18, <1>19, <1>20, <1>21, <1>22, <1>23,
     <1>24, <1>25, <1>26, <1>27, <1>28, <1>29, <1>30
  DEF Next, StackAnswers, SignalHandler, ScheduledCallback, OperatorTypes, UartThread

\* Every variable of the coordinator has its type in every reachable state.
THEOREM TypeCorrect == Safe => []TypeOK
  BY InitType, NextType, PTL DEF Safe

--------------------------------------------------------------------------------
(* The network LED.  The invariant is LedBacked with QuietStart, which says why *)
(* no alarm can be waiting when the commissioning machine is busy with anything *)
(* but steering, so that a press or a reopen then leaves no lit LED behind; and  *)
(* with LedOwned, so that a reset which stops a steering raises a LEAVE to put   *)
(* the LED out.                                                                  *)

LedOwned == led => joined \/ leaving \/ zboss.pc # "ready"
LedInv == LedBacked /\ QuietStart /\ LedOwned

\* The LED is dark when the board starts.
LEMMA LedInit == Init => LedInv
  BY DEF Init, LedInv, LedBacked, LedOwned, QuietStart, Starting, HandlingStart, HandlingPeriod, Ready

\* No step of any thread leaves a lit LED with nothing behind it.
LEMMA LedNext == TypeOK /\ LedInv /\ [Next]_vars => LedInv'
<1> SUFFICES ASSUME TypeOK, LedInv, [Next]_vars PROVE LedInv'
  OBVIOUS
<1>1. alarms \in Nat /\ bdb \in {"init", "idle", "formation", "steering"}
  BY PoolSizes DEF TypeOK, StackType
<1>2. zboss \in HandlerStates
  BY DEF TypeOK, ThreadType
<1> USE <1>1, <1>2 DEF LedInv, LedBacked, LedOwned, QuietStart, Starting, HandlingStart, HandlingPeriod,
        HandlerStates
<1>3. CASE StackStarted
  BY <1>3 DEF StackStarted, Deliver
<1>4. CASE FormationEnds
  BY <1>4 DEF FormationEnds, Deliver
<1>5. CASE SteeringEnds
  BY <1>5 DEF SteeringEnds, Deliver
<1>6. CASE Unsolicited
  BY <1>6 DEF Unsolicited, Deliver, stack
<1>7. CASE HandleStartWithoutNetwork
  BY <1>7 DEF HandleStartWithoutNetwork, Handling, StartOrAbort, GoTo, HandlerFrame
<1>8. CASE HandleNetworkUp
  BY <1>8 DEF HandleNetworkUp, Handling, StartOrAbort, GoTo, HandlerFrame
<1>9. CASE HandleSteering
  BY <1>9 DEF HandleSteering, Handling, AlarmOrAbort, GoTo, HandlerFrame
<1>10. CASE HandleDeviceAnnce
  BY <1>10 DEF HandleDeviceAnnce, Handling, CancelAlarm, GoTo, HandlerFrame
<1>11. CASE HandleExtend
  BY <1>11 DEF HandleExtend, AlarmOrAbort, GoTo, HandlerFrame
<1>12. CASE HandleOther
  BY <1>12 DEF HandleOther, Handling, GoTo, HandlerFrame
<1>13. CASE UpdateLed
  <2>1. led' => alarms > 0 /\ joined
    BY <1>13 DEF UpdateLed
  <2>2. zboss' = Ready /\ UNCHANGED <<bdb, joined, alarms, button>>
    BY <1>13 DEF UpdateLed, stack
  <2> QED
    BY <2>1, <2>2 DEF Ready
<1>14. CASE SteeringFinished
  BY <1>14 DEF SteeringFinished, stack
<1>15. CASE IcAddCallback
  BY <1>15 DEF IcAddCallback, Runs, StartSteering
<1>16. CASE ReopenSteeringCb
  BY <1>16 DEF ReopenSteeringCb, Runs, StartSteering, CancelAlarm
<1>17. CASE FactoryResetHandler
  BY <1>17 DEF FactoryResetHandler, LocalReset, Runs
<1>26. CASE ButtonResetCallback
  BY <1>26 DEF ButtonResetCallback, LocalReset, Runs
<1>27. CASE LeaveArrives
  BY <1>27 DEF LeaveArrives, Deliver
<1>28. CASE FactoryResetHeld
  BY <1>28 DEF FactoryResetHeld, ButtonFrame
<1>18. CASE ButtonCancel
  BY <1>18 DEF ButtonCancel, ButtonFrame, CancelAlarm
<1>19. CASE ButtonStart
  BY <1>19 DEF ButtonStart, ButtonFrame, StartSteering
<1>20. CASE OperatorTypes
  BY <1>20 DEF OperatorTypes, LineIcAdd, LineRejected, LineScheduled, UartFrame, stack
<1>21. CASE UartThread
  BY <1>21 DEF UartThread, WriteAddr, WriteCode, ScheduleIcAdd, UartFrame, stack
<1>22. CASE AbortRestarts
  BY <1>22 DEF AbortRestarts, Restart, Ready
<1>23. CASE RebootTimerHandler
  BY <1>23 DEF RebootTimerHandler, Restart, Ready
<1>24. CASE PowerCycle
  BY <1>24 DEF PowerCycle, Restart, Ready
<1>25. CASE UNCHANGED vars
  BY <1>25 DEF vars
<1> QED
  BY <1>3, <1>4, <1>5, <1>6, <1>7, <1>8, <1>9, <1>10, <1>11, <1>12, <1>13, <1>14,
     <1>15, <1>16, <1>17, <1>18, <1>19, <1>20, <1>21, <1>22, <1>23, <1>24, <1>25, <1>26,
     <1>27, <1>28
  DEF Next, StackAnswers, SignalHandler, ScheduledCallback

\* The network LED is never left lit with nothing to put it out, whatever commands,
\* presses and resets come in whatever order; a restart that may never come (a timer
\* initialised twice) is not counted on.
THEOREM LedIsBacked == Safe => []LedBacked
<1>1. TypeOK /\ LedInv /\ TypeOK' /\ [Next]_vars => LedInv'
  BY LedNext
<1>2. LedInv => LedBacked
  BY DEF LedInv
<1> QED
  BY TypeCorrect, LedInit, <1>1, <1>2, PTL DEF Safe

--------------------------------------------------------------------------------
(* Without ic_add and without Button 1 the operator can only reopen the network *)
(* from the ZBOSS thread: periods follow one another.                            *)

\* No thread but ZBOSS touches the alarm.
OnlyReopen ==
    /\ left["press"] = 0
    /\ button = "idle"
    /\ uart.pc = "idle"
    /\ \A i \in 1..Len(queue) : queue[i] # "ic_add"

\* The other threads are at rest when the board starts.
LEMMA OnlyReopenInit ==
    ASSUME "ic_add" \notin Commands, MaxPresses = 0, Init
    PROVE  OnlyReopen
  BY DEF Init, OnlyReopen, Idle

\* A callback that is scheduled or run adds no ic_add to the queue.
LEMMA QueueWithoutIcAdd ==
    ASSUME ThreadType, \A i \in 1..Len(queue) : queue[i] # "ic_add",
           \/ \E cmd \in {"factory_reset", "reopen", "local_reset"} : Schedule(cmd)
           \/ \E cb : Runs(cb)
           \/ queue' = <<>>
           \/ queue' = queue
    PROVE  \A i \in 1..Len(queue') : queue'[i] # "ic_add"
  BY DEF ThreadType, Schedule, Runs

\* They stay at rest: no ic_add is typed, queued or run, no button pressed.
LEMMA OnlyReopenNext ==
    ASSUME "ic_add" \notin Commands, TypeOK, OnlyReopen, [Next]_vars
    PROVE  /\ OnlyReopen'
           /\ ~ButtonCancel /\ ~ButtonStart /\ ~UartThread /\ ~IcAddCallback
           /\ \A p \in Pairs : ~LineIcAdd(p)
<1>1. ~ButtonCancel /\ ~ButtonStart /\ ~UartThread
  BY DEF OnlyReopen, ButtonCancel, Spend, ButtonStart, UartThread, WriteAddr, WriteCode,
         ScheduleIcAdd
<1>2. ~IcAddCallback
  BY DEF TypeOK, ThreadType, OnlyReopen, IcAddCallback, Runs
<1>3. \A p \in Pairs : ~LineIcAdd(p)
  BY DEF LineIcAdd, Line
<1>4. left["press"]' = 0
  <2>1. \A what \in Activities \ {"press"} : Spend(what) => left'["press"] = left["press"]
    BY DEF TypeOK, OperatorType, Budgets, Activities, Spend
  <2>2. left' = left \/ \E what \in Activities \ {"press"} : Spend(what)
    BY <1>1, <1>3
    DEF Next, vars, StackAnswers, StackStarted, FormationEnds, SteeringEnds, LeaveArrives, Unsolicited,
        SignalHandler, HandleStartWithoutNetwork, HandleNetworkUp, HandleSteering,
        HandleDeviceAnnce, HandleExtend, HandleOther, HandlerFrame, UpdateLed,
        AbortRestarts, SteeringFinished, ScheduledCallback, IcAddCallback,
        ReopenSteeringCb, FactoryResetHandler, ButtonResetCallback, FactoryResetHeld, Runs,
        OperatorTypes, LineRejected, LineScheduled, Line, RebootTimerHandler, PowerCycle, operator, Activities
  <2> QED
    BY <2>1, <2>2 DEF OnlyReopen
<1>5. button' = "idle" /\ uart'.pc = "idle"
  <2>1. button' \in {button, "idle"} /\ (uart' = uart \/ uart' = Idle)
    BY <1>1, <1>3
    DEF Next, vars, StackAnswers, StackStarted, FormationEnds, SteeringEnds, LeaveArrives, Deliver,
        Unsolicited, SignalHandler, HandleStartWithoutNetwork, HandleNetworkUp,
        HandleSteering, HandleDeviceAnnce, HandleExtend, HandleOther, HandlerFrame,
        UpdateLed, AbortRestarts, SteeringFinished, ScheduledCallback, IcAddCallback,
        ReopenSteeringCb, FactoryResetHandler, ButtonResetCallback, FactoryResetHeld, Runs,
        OperatorTypes, LineRejected, LineScheduled, UartFrame, RebootTimerHandler, PowerCycle, Restart, ButtonFrame
  <2> QED
    BY <2>1 DEF OnlyReopen, Idle
<1>6. \/ \E cmd \in {"factory_reset", "reopen", "local_reset"} : Schedule(cmd)
      \/ \E cb : Runs(cb)
      \/ queue' = <<>>
      \/ queue' = queue
  BY <1>1, <1>3
  DEF Next, vars, StackAnswers, StackStarted, FormationEnds, SteeringEnds, LeaveArrives, Deliver,
      Unsolicited, SignalHandler, HandleStartWithoutNetwork, HandleNetworkUp,
      HandleSteering, HandleDeviceAnnce, HandleExtend, HandleOther, HandlerFrame,
      UpdateLed, AbortRestarts, SteeringFinished, ScheduledCallback, IcAddCallback,
      ReopenSteeringCb, FactoryResetHandler, ButtonResetCallback, FactoryResetHeld,
      ButtonFrame, OperatorTypes, LineRejected,
      LineScheduled, RebootTimerHandler, PowerCycle, Restart
<1>7. \A i \in 1..Len(queue') : queue'[i] # "ic_add"
  BY <1>6, QueueWithoutIcAdd DEF TypeOK, OnlyReopen
<1> QED
  BY <1>1, <1>2, <1>3, <1>4, <1>5, <1>7 DEF OnlyReopen

\* While a period is neither begun nor ended, the LED shows it.
LedShown ==
    zboss.pc = "ready" /\ bdb # "steering" /\ joined
      => (led <=> alarms > 0)

PeriodInv == OneAtATime /\ LedShown /\ QuietStart

\* No period runs when the board starts.
LEMMA PeriodInit == Init => PeriodInv
  BY DEF Init, PeriodInv, OneAtATime, LedShown, QuietStart, Starting, HandlingStart,
         HandlingPeriod, Ready

\* Each step keeps one period at a time, and the LED with it.
LEMMA PeriodNext ==
    ASSUME "ic_add" \notin Commands, TypeOK, OnlyReopen, PeriodInv, [Next]_vars
    PROVE  PeriodInv'
<1>1. alarms \in Nat /\ bdb \in {"init", "idle", "formation", "steering"} /\ AlarmPool \in Nat \ {0}
  BY PoolSizes DEF TypeOK, StackType
<1>2. zboss \in HandlerStates
  BY DEF TypeOK, ThreadType
<1>3. /\ ~ButtonCancel /\ ~ButtonStart /\ ~UartThread /\ ~IcAddCallback
      /\ \A p \in Pairs : ~LineIcAdd(p)
  BY OnlyReopenNext
<1> USE <1>1, <1>2 DEF PeriodInv, OneAtATime, LedShown, QuietStart, Starting, HandlingStart,
        HandlingPeriod, HandlerStates
<1>4. CASE StackStarted
  BY <1>4 DEF StackStarted, Deliver
<1>5. CASE FormationEnds
  BY <1>5 DEF FormationEnds, Deliver
<1>6. CASE SteeringEnds
  BY <1>6 DEF SteeringEnds, Deliver
<1>7. CASE Unsolicited
  BY <1>7 DEF Unsolicited, Deliver, stack
<1>8. CASE HandleStartWithoutNetwork
  BY <1>8 DEF HandleStartWithoutNetwork, Handling, StartOrAbort, GoTo, HandlerFrame
<1>9. CASE HandleNetworkUp
  BY <1>9 DEF HandleNetworkUp, Handling, StartOrAbort, GoTo, HandlerFrame
<1>10. CASE HandleSteering
  BY <1>10 DEF HandleSteering, Handling, AlarmOrAbort, GoTo, HandlerFrame
<1>11. CASE HandleDeviceAnnce
  BY <1>11 DEF HandleDeviceAnnce, Handling, CancelAlarm, GoTo, HandlerFrame
<1>12. CASE HandleExtend
  BY <1>12 DEF HandleExtend, AlarmOrAbort, GoTo, HandlerFrame
<1>13. CASE HandleOther
  BY <1>13 DEF HandleOther, Handling, GoTo, HandlerFrame
<1>14. CASE UpdateLed
  <2>1. led' <=> joined /\ alarms > 0
    BY <1>14 DEF UpdateLed
  <2>2. zboss' = Ready /\ UNCHANGED <<bdb, alarms, joined>>
    BY <1>14 DEF UpdateLed, stack
  <2> QED
    BY <2>1, <2>2 DEF Ready
<1>15. CASE SteeringFinished
  BY <1>15 DEF SteeringFinished, stack
<1>16. CASE ReopenSteeringCb
  BY <1>16 DEF ReopenSteeringCb, Runs, StartSteering, CancelAlarm
<1>17. CASE FactoryResetHandler
  BY <1>17 DEF FactoryResetHandler, LocalReset, Runs
<1>24. CASE ButtonResetCallback
  BY <1>24 DEF ButtonResetCallback, LocalReset, Runs
<1>25. CASE LeaveArrives
  BY <1>25 DEF LeaveArrives, Deliver
<1>26. CASE FactoryResetHeld
  BY <1>26 DEF FactoryResetHeld, ButtonFrame
<1>18. CASE OperatorTypes
  BY <1>18 DEF OperatorTypes, LineIcAdd, LineRejected, LineScheduled, UartFrame, stack, Line
<1>19. CASE UartThread
  BY <1>19 DEF UartThread, WriteAddr, WriteCode, ScheduleIcAdd, UartFrame, stack
<1>20. CASE AbortRestarts
  BY <1>20 DEF AbortRestarts, Restart, Ready
<1>21. CASE RebootTimerHandler
  BY <1>21 DEF RebootTimerHandler, Restart, Ready
<1>22. CASE PowerCycle
  BY <1>22 DEF PowerCycle, Restart, Ready
<1>23. CASE UNCHANGED vars
  BY <1>23 DEF vars
<1> QED
  BY <1>3, <1>4, <1>5, <1>6, <1>7, <1>8, <1>9, <1>10, <1>11, <1>12, <1>13, <1>14, <1>15,
     <1>16, <1>17, <1>18, <1>19, <1>20, <1>21, <1>22, <1>23, <1>24, <1>25, <1>26
  DEF Next, StackAnswers, SignalHandler, ScheduledCallback

\* When the operator only reopens the network, and resets it with the command or with
\* Button 4, one steering_finished is pending at most, no check of the handler fails but
\* that of the default handler's own result, and the LED shows the period.
THEOREM ReopenOnly ==
    ASSUME "ic_add" \notin Commands, MaxPresses = 0
    PROVE  Safe => [](OneAlarm /\ NoAbort /\ LedFollowsPeriod)
<1>1. Init => OnlyReopen /\ PeriodInv
  BY OnlyReopenInit, PeriodInit
<1>2. TypeOK /\ OnlyReopen /\ PeriodInv /\ [Next]_vars => (OnlyReopen /\ PeriodInv)'
  BY OnlyReopenNext, PeriodNext
<1>3. TypeOK /\ PeriodInv => OneAlarm /\ NoAbort /\ LedFollowsPeriod
  BY DEF PeriodInv, OneAtATime, LedShown, OneAlarm, NoAbort, LedFollowsPeriod, Settled
<1> QED
  BY TypeCorrect, <1>1, <1>2, <1>3, PTL DEF Safe

\* With reopen alone no second steering_finished is ever pending.
COROLLARY ReopenOneAlarm ==
    ASSUME "ic_add" \notin Commands, MaxPresses = 0
    PROVE  Safe => []OneAlarm
<1> QED
  BY ReopenOnly, PTL

\* With reopen alone the LED of a joined coordinator at rest shows the period.
COROLLARY ReopenLed ==
    ASSUME "ic_add" \notin Commands, MaxPresses = 0
    PROVE  Safe => []LedFollowsPeriod
<1> QED
  BY ReopenOnly, PTL

--------------------------------------------------------------------------------
(* The built-in key of the development build: a joined coordinator has it, or is *)
(* about to register it.  When a network comes up, no period of an older one     *)
(* runs, so that nobody is let in before the key is registered.  And no ic_add    *)
(* names the address of the key, not even one whose line was stored half over     *)
(* another: there is a byte in which it differs from zero and from every address  *)
(* the operator types, so that no mixture of those has it.                        *)

ApartAt(i) == DevAddr[i] # 0 /\ ("ic_add" \in Commands => \A p \in Pairs : p[1][i] # DevAddr[i])

HandlingUp == Handling("FORMATION", TRUE) \/ Handling("REBOOT", TRUE)
KeyBuiltIn == joined => keys[DevAddr] = DevCode \/ HandlingUp
NotYetOpen == HandlingUp => alarms = 0
KeptApart(i) == uart.addr[i] # DevAddr[i] /\ params.addr[i] # DevAddr[i]

DevInv(i) == KeyBuiltIn /\ NotYetOpen /\ KeptApart(i)

\* A zeroed address differs from the built-in one.
LEMMA BlankApart ==
    ASSUME NEW i \in 1..AddrBytes, ApartAt(i)
    PROVE  Blank.addr[i] # DevAddr[i] /\ Idle.addr[i] # DevAddr[i]
  BY DEF Blank, Idle, ApartAt

\* At the start the coordinator is on no network.
LEMMA DevInit ==
    ASSUME NEW i \in 1..AddrBytes, ApartAt(i), Init
    PROVE  DevInv(i)
  BY BlankApart
  DEF Init, DevInv, KeyBuiltIn, NotYetOpen, KeptApart, HandlingUp, Handling, Ready

\* A restart forgets the membership and the period together.
LEMMA DevRestart ==
    ASSUME NEW i \in 1..AddrBytes, ApartAt(i), Restart
    PROVE  DevInv(i)'
  BY BlankApart
  DEF Restart, DevInv, KeyBuiltIn, NotYetOpen, KeptApart, HandlingUp, Handling, Ready

\* Each step keeps the key with the membership.
LEMMA DevNext ==
    ASSUME NEW k \in 1..AddrBytes, ApartAt(k), Development, TypeOK, QuietStart, DevInv(k),
           [Next]_vars
    PROVE  DevInv(k)'
<1>1. alarms \in Nat /\ AlarmPool \in Nat \ {0} /\ keys \in [Addrs -> Codes \union {NoCode}]
  BY PoolSizes DEF TypeOK, StackType
<1>2. zboss \in HandlerStates
  BY DEF TypeOK, ThreadType
<1>3. params \in ParamValues /\ uart \in UartStates
  BY DEF TypeOK, ThreadType
<1>4. bdb \in {"init", "formation"} => alarms = 0
  BY DEF QuietStart, Starting
<1> USE <1>1, <1>2 DEF DevInv, KeyBuiltIn, NotYetOpen, KeptApart, HandlingUp, Handling, HandlerStates
<1>5. CASE StackStarted
  <2>1. /\ alarms' = 0 /\ UNCHANGED <<uart, params>> /\ zboss'.pc = "case"
        /\ zboss'.sig \in {"FIRST_START", "REBOOT"}
    BY <1>4, <1>5 DEF StackStarted, Deliver
  <2>2. joined' = FALSE \/ (zboss'.sig = "REBOOT" /\ zboss'.ok = TRUE)
    BY <1>5 DEF StackStarted, Deliver
  <2> QED
    BY <2>1, <2>2
<1>6. CASE FormationEnds
  <2>1. PICK ok \in BOOLEAN : joined' = (joined \/ ok) /\ Deliver("FORMATION", ok)
    BY <1>6 DEF FormationEnds
  <2>2. /\ zboss.pc = "ready" /\ zboss' = [pc |-> "case", sig |-> "FORMATION", ok |-> ok]
        /\ alarms = 0 /\ UNCHANGED <<alarms, keys, uart, params>>
    BY <1>4, <1>6, <2>1 DEF FormationEnds, Deliver
  <2>3. CASE ok = TRUE
    <3>1. joined' = TRUE
      BY <2>1, <2>3
    <3> QED
      BY <2>2, <2>3, <3>1
  <2>4. CASE ok = FALSE
    <3>1. joined' = joined
      BY <2>1, <2>4 DEF TypeOK, StackType
    <3> QED
      BY <2>2, <2>4, <3>1
  <2> QED
    BY <2>3, <2>4
<1>7. CASE SteeringEnds
  BY <1>7 DEF SteeringEnds, Deliver
<1>8. CASE Unsolicited
  BY <1>8 DEF Unsolicited, Deliver, stack
<1>9. CASE HandleStartWithoutNetwork
  BY <1>9 DEF HandleStartWithoutNetwork, StartOrAbort, GoTo, HandlerFrame
<1>10. CASE HandleNetworkUp
  <2>1. keys'[DevAddr] = DevCode
    BY <1>10, DevelopmentKey DEF HandleNetworkUp, RegisterDevelopmentKeys
  <2>2. zboss'.pc \in {"lamp", "abort"} /\ UNCHANGED <<alarms, joined, uart, params>>
    BY <1>10 DEF HandleNetworkUp, StartOrAbort, GoTo, HandlerFrame
  <2> QED
    BY <2>1, <2>2
<1>11. CASE HandleSteering
  BY <1>11 DEF HandleSteering, AlarmOrAbort, GoTo, HandlerFrame
<1>12. CASE HandleDeviceAnnce
  BY <1>12 DEF HandleDeviceAnnce, CancelAlarm, GoTo, HandlerFrame
<1>13. CASE HandleExtend
  BY <1>13 DEF HandleExtend, AlarmOrAbort, GoTo, HandlerFrame
<1>14. CASE HandleOther
  BY <1>14 DEF HandleOther, GoTo, HandlerFrame
<1>15. CASE UpdateLed
  BY <1>15 DEF UpdateLed, stack, Ready
<1>16. CASE SteeringFinished
  BY <1>16 DEF SteeringFinished, stack
<1>17. CASE ReopenSteeringCb
  BY <1>17 DEF ReopenSteeringCb, Runs, CancelAlarm
<1>18. CASE FactoryResetHandler
  BY <1>18 DEF FactoryResetHandler, LocalReset, Runs
<1>26. CASE ButtonResetCallback
  BY <1>26 DEF ButtonResetCallback, LocalReset, Runs
<1>27. CASE LeaveArrives
  BY <1>27 DEF LeaveArrives, Deliver
<1>19. CASE IcAddCallback
  <2>1. params.addr # DevAddr
    OBVIOUS
  <2>2. keys'[DevAddr] = keys[DevAddr]
    BY <1>19, <2>1, DevelopmentKey DEF IcAddCallback
  <2> QED
    BY <1>19, <2>2 DEF IcAddCallback, Runs
<1>20. CASE ButtonCancel \/ ButtonStart \/ FactoryResetHeld
  BY <1>20 DEF ButtonCancel, ButtonStart, FactoryResetHeld, ButtonFrame, CancelAlarm
<1>21. ASSUME NEW p \in Pairs, LineIcAdd(p) PROVE DevInv(k)'
  <2>1. p[1][k] # DevAddr[k]
    BY <1>21 DEF LineIcAdd, Line, ApartAt
  <2> QED
    BY <1>21, <2>1 DEF LineIcAdd, UartFrame, stack
<1>22. CASE LineRejected \/ \E cmd \in {"factory_reset", "reopen"} : LineScheduled(cmd)
  BY <1>22 DEF LineRejected, LineScheduled, UartFrame, stack
<1>23. CASE UartThread
  <2>1. uart'.addr[k] # DevAddr[k] /\ params'.addr[k] # DevAddr[k]
    <3>1. CASE WriteAddr
      BY <3>1, AddrStored DEF TypeOK
    <3>2. CASE WriteCode
      BY <3>2, CodeStored DEF TypeOK
    <3>3. CASE ScheduleIcAdd
      BY <3>3, BlankApart DEF ScheduleIcAdd
    <3> QED
      BY <1>23, <3>1, <3>2, <3>3 DEF UartThread
  <2>2. UNCHANGED <<keys, joined, alarms, zboss>>
    BY <1>23 DEF UartThread, WriteAddr, WriteCode, ScheduleIcAdd, UartFrame, stack
  <2> QED
    BY <2>1, <2>2
<1>24. CASE AbortRestarts \/ RebootTimerHandler \/ PowerCycle
  BY <1>24, DevRestart DEF AbortRestarts, RebootTimerHandler, PowerCycle
<1>25. CASE UNCHANGED vars
  BY <1>25 DEF vars
<1> QED
  BY <1>5, <1>6, <1>7, <1>8, <1>9, <1>10, <1>11, <1>12, <1>13, <1>14, <1>15, <1>16,
     <1>17, <1>18, <1>19, <1>20, <1>21, <1>22, <1>23, <1>24, <1>25, <1>26, <1>27
  DEF Next, StackAnswers, SignalHandler, ScheduledCallback, OperatorTypes

\* While the development coordinator is on a network that lets devices in, it holds the
\* built-in key, whatever the signals, presses, restarts and commands, also after a
\* factory reset by either button or command, whose next network is formed with the key
\* registered again.  Provided that in some byte the built-in address differs from zero
\* and from every address the operator types: then no ic_add replaces the key, not even
\* one whose parameters were overwritten byte by byte while its callback was queued.
THEOREM DevelopmentKeyHeld ==
    ASSUME \E i \in 1..AddrBytes : ApartAt(i)
    PROVE  Safe => []DevKeyWhenOpen
<1>1. PICK k \in 1..AddrBytes : ApartAt(k)
  OBVIOUS
<1>2. CASE Development
  <2>1. Init => LedInv /\ DevInv(k)
    BY <1>1, LedInit, DevInit
  <2>2. TypeOK /\ LedInv /\ DevInv(k) /\ [Next]_vars => LedInv' /\ DevInv(k)'
    BY <1>1, <1>2, LedNext, DevNext DEF LedInv
  <2>3. TypeOK /\ LedInv /\ DevInv(k) => DevKeyWhenOpen
    BY PoolSizes DEF TypeOK, StackType, DevInv, KeyBuiltIn, NotYetOpen, DevKeyWhenOpen
  <2> QED
    BY TypeCorrect, <2>1, <2>2, <2>3, PTL DEF Safe
<1>3. CASE ~Development
  <2>1. DevKeyWhenOpen
    BY <1>3 DEF DevKeyWhenOpen
  <2> QED
    BY <2>1, PTL
<1> QED
  BY <1>2, <1>3

--------------------------------------------------------------------------------
(* An operator who waits for each reply gets the keys that were typed.          *)

KeyInv == OneCommand /\ KeysAsAsked

\* Nothing is under way and no key is registered at the start.
LEMMA KeyInit == Init => KeyInv
  BY DEF Init, KeyInv, OneCommand, OfOperator, KeysAsAsked, NoKeys, Idle

\* The keys and the requests stay as they are: what most steps do.
LEMMA KeyFrame ==
    ASSUME KeyInv, UNCHANGED <<keys, asked, waiting, queue, params, uart>>
    PROVE  KeyInv'
  BY DEF KeyInv, OneCommand, OfOperator, KeysAsAsked

\* A restart leaves nothing of a command but the keys already registered.
LEMMA KeyRestart == KeyInv /\ Restart => KeyInv'
  BY DEF KeyInv, OneCommand, OfOperator, KeysAsAsked, Restart, Idle

\* A callback that runs leaves the rest of the queue, one place further on.
LEMMA TailOfQueue ==
    ASSUME ThreadType, NEW cb, Runs(cb)
    PROVE  /\ Len(queue) \in Nat \ {0} /\ Len(queue') = Len(queue) - 1 /\ queue[1] = cb
           /\ \A i \in 1..Len(queue') : i + 1 \in 1..Len(queue) /\ queue'[i] = queue[i + 1]
  BY DEF ThreadType, Runs

\* When the operator's command runs, no other of his is under way.
LEMMA LastCallback ==
    ASSUME ThreadType, OneCommand, NEW cb \in Callbacks \ {"local_reset"}, Runs(cb)
    PROVE  uart'.pc = "idle" /\ \A i \in 1..Len(queue') : queue'[i] = "local_reset"
<1>1. 1 \in OfOperator
  BY TailOfQueue DEF OfOperator
<1>2. ASSUME NEW i \in 1..Len(queue'), queue'[i] # "local_reset" PROVE FALSE
  <2>1. i + 1 \in OfOperator /\ i + 1 # 1
    BY <1>2, TailOfQueue DEF OfOperator
  <2> QED
    BY <1>1, <2>1 DEF OneCommand
<1>3. uart.pc = "idle"
  BY <1>1 DEF OneCommand
<1> QED
  BY <1>2, <1>3 DEF Runs

\* A queue of Button 4's resets alone asks for nothing.
LEMMA OnlyResets ==
    ASSUME KeyInv, NEW q, queue' = q, \A i \in 1..Len(q) : q[i] = "local_reset",
           uart'.pc = "idle", asked' = asked
    PROVE  OneCommand'
  BY DEF KeyInv, OneCommand, OfOperator

\* A callback is appended behind those there are, or dropped.
LEMMA EndOfQueue ==
    ASSUME ThreadType, NEW cb, Schedule(cb)
    PROVE  \/ queue' = queue
           \/ /\ Len(queue') = Len(queue) + 1 /\ Len(queue) \in Nat
              /\ queue'[Len(queue')] = cb
              /\ \A i \in 1..Len(queue) : queue'[i] = queue[i]
  BY DEF ThreadType, Schedule

\* The command of a waiting operator is the only one of his in the queue.
LEMMA FirstCallback ==
    ASSUME ThreadType, OfOperator = {}, NEW cb \in Callbacks, Schedule(cb)
    PROVE  /\ \A i, j \in OfOperator' : i = j
           /\ \A i \in 1..Len(queue') : queue'[i] \in {cb, "local_reset"}
<1>1. CASE queue' = queue
  BY <1>1 DEF OfOperator
<1>2. CASE queue' # queue
  <2>1. /\ Len(queue') = Len(queue) + 1 /\ Len(queue) \in Nat /\ queue'[Len(queue')] = cb
        /\ \A i \in 1..Len(queue) : queue'[i] = queue[i]
    BY <1>2, EndOfQueue
  <2>2. \A i \in 1..Len(queue) : queue'[i] = "local_reset"
    BY <2>1 DEF OfOperator
  <2>3. \A i \in 1..Len(queue') : i = Len(queue') \/ i \in 1..Len(queue)
    BY <2>1
  <2> QED
    BY <2>1, <2>2, <2>3 DEF OfOperator
<1> QED
  BY <1>1, <1>2

\* No step registers what was not typed.
LEMMA KeyNext ==
    ASSUME Patient, TypeOK, KeyInv, [Next]_vars
    PROVE  KeyInv'
<1>1. CASE StackAnswers \/ Unsolicited
  <2>1. UNCHANGED <<keys, asked, waiting, queue, params, uart>>
    BY <1>1 DEF StackAnswers, StackStarted, FormationEnds, SteeringEnds, LeaveArrives,
                Unsolicited, Deliver
  <2> QED
    BY <2>1, KeyFrame
<1>2. CASE HandleNetworkUp
  <2>1. /\ keys' = keys \/ (Development /\ keys' = [keys EXCEPT ![DevAddr] = DevCode])
        /\ UNCHANGED <<asked, waiting, queue, params, uart>>
    BY <1>2 DEF HandleNetworkUp, RegisterDevelopmentKeys, HandlerFrame, operator
  <2>2. OneCommand'
    BY <2>1 DEF KeyInv, OneCommand, OfOperator
  <2>3. Development => <<DevAddr, DevCode>> \in asked
    BY DEF KeyInv, OneCommand, Built
  <2>4. KeysAsAsked'
    BY <2>1, <2>3, DevelopmentKey DEF KeyInv, KeysAsAsked, TypeOK, StackType
  <2> QED
    BY <2>2, <2>4 DEF KeyInv
<1>3. CASE SignalHandler /\ ~HandleNetworkUp /\ ~AbortRestarts
  <2>1. UNCHANGED <<keys, asked, waiting, queue, params, uart>>
    BY <1>3 DEF SignalHandler, HandleStartWithoutNetwork, HandleSteering, HandleDeviceAnnce,
                HandleExtend, HandleOther, HandlerFrame, UpdateLed, operator
  <2> QED
    BY <2>1, KeyFrame
<1>4. CASE SteeringFinished \/ ButtonCancel \/ ButtonStart
  <2>1. UNCHANGED <<keys, asked, waiting, queue, params, uart>>
    BY <1>4 DEF SteeringFinished, operator, ButtonCancel, ButtonStart, ButtonFrame
  <2> QED
    BY <2>1, KeyFrame
<1>5. CASE IcAddCallback
  <2>1. uart'.pc = "idle" /\ \A i \in 1..Len(queue') : queue'[i] = "local_reset"
    BY <1>5, LastCallback DEF IcAddCallback, TypeOK, KeyInv, Callbacks
  <2>2. Len(queue) \in Nat \ {0} /\ queue[1] = "ic_add"
    BY <1>5, TailOfQueue DEF IcAddCallback, TypeOK
  <2>3. /\ keys' = [keys EXCEPT ![params.addr] = params.code]
        /\ <<params.addr, params.code>> \in asked
        /\ asked' = asked
    BY <1>5, <2>2 DEF IcAddCallback, Runs, KeyInv, OneCommand
  <2>4. KeysAsAsked'
    BY <2>3 DEF KeyInv, KeysAsAsked, TypeOK, StackType
  <2> QED
    BY <2>1, <2>3, <2>4, OnlyResets DEF KeyInv
<1>6. CASE ReopenSteeringCb
  <2>1. uart'.pc = "idle" /\ \A i \in 1..Len(queue') : queue'[i] = "local_reset"
    BY <1>6, LastCallback DEF ReopenSteeringCb, TypeOK, KeyInv, Callbacks
  <2>2. UNCHANGED <<keys, asked>>
    BY <1>6 DEF ReopenSteeringCb, Runs
  <2>3. KeysAsAsked'
    BY <2>2 DEF KeyInv, KeysAsAsked
  <2> QED
    BY <2>1, <2>2, <2>3, OnlyResets DEF KeyInv
<1>7. CASE FactoryResetHandler
  <2>1. uart'.pc = "idle" /\ \A i \in 1..Len(queue') : queue'[i] = "local_reset"
    BY <1>7, LastCallback DEF FactoryResetHandler, TypeOK, KeyInv, Callbacks
  <2>2. keys' = NoKeys /\ asked' = asked
    BY <1>7 DEF FactoryResetHandler, LocalReset, Runs
  <2>3. KeysAsAsked'
    BY <2>2 DEF KeysAsAsked, NoKeys
  <2> QED
    BY <2>1, <2>2, <2>3, OnlyResets DEF KeyInv
<1>16. CASE ButtonResetCallback
  <2>1. \A i \in 1..Len(queue') : i + 1 \in 1..Len(queue) /\ queue'[i] = queue[i + 1]
    BY <1>16, TailOfQueue DEF ButtonResetCallback, TypeOK
  <2>2. keys' = NoKeys /\ UNCHANGED <<asked, params, uart, waiting>>
    BY <1>16 DEF ButtonResetCallback, LocalReset, Runs
  <2>3. \A i \in OfOperator' : i \in Nat /\ i + 1 \in OfOperator
    BY <2>1 DEF OfOperator
  <2>4. \A i, j \in OfOperator' : i = j
    BY <2>3 DEF KeyInv, OneCommand
  <2>5. OfOperator' # {} => OfOperator # {}
    BY <2>3
  <2>6. \A i \in 1..Len(queue') : queue'[i] = "ic_add" => <<params.addr, params.code>> \in asked
    BY <2>1 DEF KeyInv, OneCommand
  <2>7. OneCommand'
    BY <2>2, <2>4, <2>5, <2>6 DEF KeyInv, OneCommand
  <2>8. KeysAsAsked'
    BY <2>2 DEF KeysAsAsked, NoKeys
  <2> QED
    BY <2>7, <2>8 DEF KeyInv
<1>17. CASE FactoryResetHeld
  <2>1. Schedule("local_reset") /\ UNCHANGED <<keys, asked, params, uart, waiting>>
    BY <1>17 DEF FactoryResetHeld, ButtonFrame
  <2>2. CASE queue' = queue
    BY <2>1, <2>2, KeyFrame
  <2>3. CASE queue' # queue
    <3>1. /\ Len(queue') = Len(queue) + 1 /\ Len(queue) \in Nat
          /\ queue'[Len(queue')] = "local_reset"
          /\ \A i \in 1..Len(queue) : queue'[i] = queue[i]
      BY <2>1, <2>3, EndOfQueue DEF TypeOK
    <3>2. \A i \in 1..Len(queue') : i = Len(queue') \/ i \in 1..Len(queue)
      BY <3>1
    <3>3. OfOperator' = OfOperator
      BY <3>1, <3>2 DEF OfOperator
    <3>4. \A i \in 1..Len(queue') : queue'[i] = "ic_add" => <<params.addr, params.code>> \in asked
      BY <3>1, <3>2 DEF KeyInv, OneCommand
    <3>5. OneCommand'
      BY <2>1, <3>3, <3>4 DEF KeyInv, OneCommand
    <3> QED
      BY <2>1, <3>5 DEF KeyInv, KeysAsAsked
  <2> QED
    BY <2>2, <2>3
<1>8. ASSUME NEW p \in Pairs, LineIcAdd(p) PROVE KeyInv'
  <2>1. /\ uart' = [pc |-> "addr", at |-> 1, addr |-> p[1], code |-> p[2]]
        /\ asked' = asked \union {p} /\ waiting' = TRUE
        /\ UNCHANGED <<queue, params, keys>> /\ ~waiting
    BY <1>8 DEF LineIcAdd, Line, UartFrame
  <2>2. p = <<p[1], p[2]>>
    BY TypedPair
  <2>3. OfOperator = {} /\ OfOperator' = OfOperator
    BY <2>1 DEF KeyInv, OneCommand, OfOperator
  <2>4. OneCommand'
    BY <2>1, <2>2, <2>3 DEF KeyInv, OneCommand
  <2>5. KeysAsAsked'
    BY <2>1 DEF KeyInv, KeysAsAsked
  <2> QED
    BY <2>4, <2>5 DEF KeyInv
<1>9. CASE LineRejected
  BY <1>9, KeyFrame DEF LineRejected, UartFrame
<1>10. ASSUME NEW cmd \in {"factory_reset", "reopen"}, LineScheduled(cmd) PROVE KeyInv'
  <2>1. /\ Schedule(cmd) /\ waiting' = TRUE /\ ~waiting
        /\ UNCHANGED <<uart, asked, params, keys>>
    BY <1>10 DEF LineScheduled, Line, UartFrame
  <2>2. OfOperator = {} /\ uart.pc = "idle"
    BY <2>1 DEF KeyInv, OneCommand
  <2>3. /\ \A i, j \in OfOperator' : i = j
        /\ \A i \in 1..Len(queue') : queue'[i] \in {cmd, "local_reset"}
    BY <2>1, <2>2, FirstCallback DEF TypeOK, Callbacks
  <2>4. \A i \in 1..Len(queue') : queue'[i] # "ic_add"
    BY <2>3
  <2>5. OneCommand'
    BY <2>1, <2>2, <2>3, <2>4 DEF KeyInv, OneCommand
  <2> QED
    BY <2>1, <2>5 DEF KeyInv, KeysAsAsked
<1>11. CASE WriteAddr
  <2>1. /\ uart.pc = "addr" /\ UNCHANGED <<queue, asked, waiting, keys>>
    BY <1>11 DEF WriteAddr, UartFrame, operator
  <2>2. /\ \A i \in 1..AddrBytes :
             params'.addr[i] = IF i = uart.at THEN uart.addr[i] ELSE params.addr[i]
        /\ uart'.addr = uart.addr /\ uart'.code = uart.code /\ uart.at \in 1..AddrBytes
        /\ params' \in ParamValues /\ uart' \in UartStates
    BY <1>11, AddrStored DEF TypeOK
  <2>3. waiting /\ <<uart.addr, uart.code>> \in asked /\ OfOperator = {}
    BY <2>1 DEF KeyInv, OneCommand
  <2>4. OfOperator' = {} /\ \A i \in 1..Len(queue) : queue[i] # "ic_add"
    BY <2>1, <2>3 DEF OfOperator
  <2>8. \A i \in 1..(uart.at - 1) : params.addr[i] = uart.addr[i]
    BY <2>1 DEF KeyInv, OneCommand
  <2>5. \A i \in 1..uart.at : params'.addr[i] = uart.addr[i]
    <3>1. AddrBytes \in Nat
      BY CoordinatorConstants
    <3> SUFFICES ASSUME NEW i \in 1..uart.at PROVE params'.addr[i] = uart.addr[i]
      OBVIOUS
    <3>2. i \in 1..AddrBytes /\ (i = uart.at \/ i \in 1..(uart.at - 1))
      BY <2>2, <3>1
    <3> QED
      BY <2>2, <2>8, <3>2
  <2>6. CASE uart'.pc = "addr" /\ uart'.at = uart.at + 1
    <3>1. \A i \in 1..(uart'.at - 1) : params'.addr[i] = uart'.addr[i]
      BY <2>2, <2>5, <2>6
    <3> QED
      BY <2>1, <2>2, <2>3, <2>4, <2>6, <3>1 DEF KeyInv, OneCommand, KeysAsAsked
  <2>7. CASE uart'.pc = "code" /\ uart'.at = 1 /\ uart.at = AddrBytes
    <3>1. params'.addr \in Addrs /\ uart'.addr \in Addrs
      BY <2>2 DEF ParamValues, UartStates
    <3>2. params'.addr = uart'.addr
      BY <2>2, <2>5, <2>7, <3>1 DEF Addrs
    <3> QED
      BY <2>1, <2>2, <2>3, <2>4, <2>7, <3>2 DEF KeyInv, OneCommand, KeysAsAsked
  <2> QED
    BY <1>11, <2>6, <2>7, AddrStored DEF TypeOK
<1>12. CASE WriteCode
  <2>1. /\ uart.pc = "code" /\ UNCHANGED <<queue, asked, waiting, keys>>
    BY <1>12 DEF WriteCode, UartFrame, operator
  <2>2. /\ \A i \in 1..CodeBytes :
             params'.code[i] = IF i = uart.at THEN uart.code[i] ELSE params.code[i]
        /\ params'.addr = params.addr
        /\ uart'.addr = uart.addr /\ uart'.code = uart.code /\ uart.at \in 1..CodeBytes
        /\ params' \in ParamValues /\ uart' \in UartStates
    BY <1>12, CodeStored DEF TypeOK
  <2>3. /\ waiting /\ <<uart.addr, uart.code>> \in asked /\ OfOperator = {}
        /\ params.addr = uart.addr
    BY <2>1 DEF KeyInv, OneCommand
  <2>4. OfOperator' = {} /\ \A i \in 1..Len(queue) : queue[i] # "ic_add"
    BY <2>1, <2>3 DEF OfOperator
  <2>8. \A i \in 1..(uart.at - 1) : params.code[i] = uart.code[i]
    BY <2>1 DEF KeyInv, OneCommand
  <2>5. \A i \in 1..uart.at : params'.code[i] = uart.code[i]
    <3>1. CodeBytes \in Nat
      BY CoordinatorConstants
    <3> SUFFICES ASSUME NEW i \in 1..uart.at PROVE params'.code[i] = uart.code[i]
      OBVIOUS
    <3>2. i \in 1..CodeBytes /\ (i = uart.at \/ i \in 1..(uart.at - 1))
      BY <2>2, <3>1
    <3> QED
      BY <2>2, <2>8, <3>2
  <2>6. CASE uart'.pc = "code" /\ uart'.at = uart.at + 1
    <3>1. \A i \in 1..(uart'.at - 1) : params'.code[i] = uart'.code[i]
      BY <2>2, <2>5, <2>6
    <3> QED
      BY <2>1, <2>2, <2>3, <2>4, <2>6, <3>1 DEF KeyInv, OneCommand, KeysAsAsked
  <2>7. CASE uart'.pc = "schedule" /\ uart'.at = 1 /\ uart.at = CodeBytes
    <3>1. params'.code \in Codes /\ uart'.code \in Codes
      BY <2>2 DEF ParamValues, UartStates
    <3>2. params'.code = uart'.code
      BY <2>2, <2>5, <2>7, <3>1 DEF Codes
    <3> QED
      BY <2>1, <2>2, <2>3, <2>4, <2>7, <3>2 DEF KeyInv, OneCommand, KeysAsAsked
  <2> QED
    BY <1>12, <2>6, <2>7, CodeStored DEF TypeOK
<1>13. CASE ScheduleIcAdd
  <2>1. /\ uart.pc = "schedule" /\ Schedule("ic_add") /\ uart' = Idle
        /\ UNCHANGED <<params, asked, waiting, keys>>
    BY <1>13 DEF ScheduleIcAdd, UartFrame, operator
  <2>2. waiting /\ OfOperator = {} /\ <<params.addr, params.code>> \in asked
    BY <2>1 DEF KeyInv, OneCommand
  <2>3. \A i, j \in OfOperator' : i = j
    BY <2>1, <2>2, FirstCallback DEF TypeOK, Callbacks
  <2>4. OneCommand'
    BY <2>1, <2>2, <2>3 DEF KeyInv, OneCommand, Idle
  <2> QED
    BY <2>1, <2>4 DEF KeyInv, KeysAsAsked
<1>14. CASE AbortRestarts \/ RebootTimerHandler \/ PowerCycle
  BY <1>14, KeyRestart DEF AbortRestarts, RebootTimerHandler, PowerCycle
<1>15. CASE UNCHANGED vars
  BY <1>15, KeyFrame DEF vars
<1> QED
  BY <1>1, <1>2, <1>3, <1>4, <1>5, <1>6, <1>7, <1>8, <1>9, <1>10, <1>11, <1>12, <1>13,
     <1>14, <1>15, <1>16, <1>17
  DEF Next, SignalHandler, ScheduledCallback, OperatorTypes, UartThread

\* The trust centre holds only codes that were typed, with the address they were
\* typed with, when the operator waits for the reply to each command.
THEOREM KeysCorrect ==
    ASSUME Patient
    PROVE  Safe => []KeysAsAsked
<1>1. TypeOK /\ KeyInv /\ [Next]_vars => KeyInv'
  BY KeyNext
<1>2. KeyInv => KeysAsAsked
  BY DEF KeyInv
<1> QED
  BY TypeCorrect, KeyInit, <1>1, <1>2, PTL DEF Safe

--------------------------------------------------------------------------------
(* Refinement of KeyRegistry. *)

\* A step of the coordinator is a step of the registry, or leaves it as it is.
LEMMA RegistryStep ==
    ASSUME TypeOK, OneCommand, [Next]_vars
    PROVE  [KR!Next]_(KR!registryVars)
<1> USE DEF KR!registryVars
<1>1. CASE HandleNetworkUp
  <2>1. asked' = asked /\ (keys' = keys \/ (Development /\ keys' = [keys EXCEPT ![DevAddr] = DevCode]))
    BY <1>1 DEF HandleNetworkUp, RegisterDevelopmentKeys, HandlerFrame, operator
  <2>2. Development => <<DevAddr, DevCode>> \in asked
    BY DEF OneCommand, Built
  <2>3. CASE Development /\ keys' = [keys EXCEPT ![DevAddr] = DevCode]
    <3>1. KR!Register(<<DevAddr, DevCode>>)
      BY <2>1, <2>2, <2>3 DEF KR!Register
    <3> QED
      BY <3>1, DevelopmentKey DEF KR!Next
  <2> QED
    BY <2>1, <2>3
<1>2. CASE IcAddCallback
  <2>3. Len(queue) \in Nat \ {0} /\ queue[1] = "ic_add"
    BY <1>2, TailOfQueue DEF IcAddCallback, TypeOK
  <2>1. KR!Register(<<params.addr, params.code>>)
    BY <1>2, <2>3 DEF IcAddCallback, Runs, OneCommand, KR!Register
  <2>2. <<params.addr, params.code>> \in Addrs \X Codes
    BY <2>1 DEF KR!Register, TypeOK, OperatorType
  <2> QED
    BY <2>1, <2>2 DEF KR!Next
<1>3. CASE FactoryResetHandler \/ ButtonResetCallback
  BY <1>3 DEF FactoryResetHandler, ButtonResetCallback, LocalReset, Runs, NoKeys, KR!Next, KR!Erase, KR!Empty
<1>4. ASSUME NEW p \in Pairs, LineIcAdd(p) PROVE KR!Next
  <2>1. KR!Ask(p)
    BY <1>4 DEF LineIcAdd, UartFrame, KR!Ask
  <2> QED
    BY <2>1, TypedPair DEF KR!Next
<1>5. CASE AbortRestarts \/ RebootTimerHandler \/ PowerCycle
  BY <1>5 DEF AbortRestarts, RebootTimerHandler, PowerCycle, Restart
<1>6. CASE \/ StackAnswers \/ Unsolicited \/ SteeringFinished \/ ReopenSteeringCb
           \/ ButtonCancel \/ ButtonStart \/ FactoryResetHeld \/ LineRejected
           \/ UartThread \/ UNCHANGED vars
  BY <1>6
  DEF StackAnswers, StackStarted, FormationEnds, SteeringEnds, LeaveArrives, Unsolicited,
      Deliver, SteeringFinished, operator, ReopenSteeringCb, Runs, ButtonCancel, ButtonStart,
      FactoryResetHeld,
      ButtonFrame, LineRejected, UartFrame, UartThread, WriteAddr, WriteCode,
      ScheduleIcAdd, vars
<1>7. CASE SignalHandler /\ ~HandleNetworkUp /\ ~AbortRestarts
  BY <1>7 DEF SignalHandler, HandleStartWithoutNetwork, HandleSteering, HandleDeviceAnnce,
              HandleExtend, HandleOther, HandlerFrame, UpdateLed, operator
<1>8. ASSUME NEW cmd, LineScheduled(cmd) PROVE UNCHANGED <<asked, keys>>
  BY <1>8 DEF LineScheduled, UartFrame
<1> QED
  BY <1>1, <1>2, <1>3, <1>4, <1>5, <1>6, <1>7, <1>8
  DEF Next, SignalHandler, ScheduledCallback, OperatorTypes

\* The coordinator keeps the promise of KeyRegistry to an operator who waits.
THEOREM Refinement ==
    ASSUME Patient
    PROVE  Safe => ImplementsKeyRegistry
<1>1. Init => KR!Init
  BY DEF Init, KR!Init, KR!Empty, NoKeys
<1>2. TypeOK /\ KeyInv /\ [Next]_vars => KeyInv'
  BY KeyNext
<1>3. TypeOK /\ KeyInv /\ [Next]_vars => [KR!Next]_(KR!registryVars)
  BY RegistryStep DEF KeyInv
<1> QED
  BY TypeCorrect, KeyInit, <1>1, <1>2, <1>3, PTL DEF Safe, ImplementsKeyRegistry, KR!Spec
================================================================================
