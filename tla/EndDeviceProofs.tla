---------------------------- MODULE EndDeviceProofs ----------------------------
(* Theorems about EndDevice, for every value of its constants. *)
EXTENDS EndDevice, TLAPS

--------------------------------------------------------------------------------
(* What the helpers return. *)

\* The parts of EndDeviceConstants the steps need.
LEMMA Pools == NBuffers \in Nat \ {0} /\ WantSlots \in Nat \ {0} /\ QueueSize \in Nat \ {0}
  BY EndDeviceConstants

\* The compiled-in code has the type of any other.
LEMMA BuiltInCode == Development \in BOOLEAN /\ DevCode \in Codes
  BY EndDeviceConstants

\* Taking from a bound leaves the bounds natural numbers.
LEMMA SpendType ==
    ASSUME HistoryType, NEW what \in Activities, Spend(what)
    PROVE  left' \in Budgets
  BY DEF HistoryType, Spend, Budgets

\* A callback is appended within the capacity of the queue, or dropped.
LEMMA ScheduleType ==
    ASSUME ReportType, NEW cb \in Callbacks, Schedule(cb)
    PROVE  queue' \in Seq(Callbacks) /\ Len(queue') <= QueueSize
  BY Pools DEF ReportType, Schedule

\* Running a callback takes it off the queue.
LEMMA RunsType ==
    ASSUME ReportType, NEW cb, Runs(cb)
    PROVE  queue' \in Seq(Callbacks) /\ Len(queue') <= QueueSize
  BY Pools DEF ReportType, Runs

\* A thread that waits for a line has a state of its type, and so has a parameter
\* that nobody has written.
LEMMA IdleType == Blank \in Codes /\ Idle \in UartStates /\ CodeBytes \in Nat \ {0}
<1>1. Blank \in Codes
  BY EndDeviceConstants DEF Blank, Codes
<1>2. 1 \in 1..CodeBytes
  BY EndDeviceConstants
<1> QED
  BY <1>1, <1>2, EndDeviceConstants DEF Idle, UartStates

\* Two codes are the same if they are byte for byte.
LEMMA SameCode ==
    ASSUME NEW c \in Codes, NEW d \in Codes, \A i \in 1..CodeBytes : c[i] = d[i]
    PROVE  c = d
<1>1. c = [i \in 1..CodeBytes |-> c[i]] /\ d = [i \in 1..CodeBytes |-> d[i]]
  BY DEF Codes
<1>2. [i \in 1..CodeBytes |-> c[i]] = [i \in 1..CodeBytes |-> d[i]]
  OBVIOUS
<1> QED
  BY ONLY <1>1, <1>2

\* The UART thread stores one byte of the code and goes on to the next, or to the
\* callback when it was the last.
LEMMA CodeStored ==
    ASSUME ControlType, WriteIcParams
    PROVE  /\ param' \in Codes
           /\ \A i \in 1..CodeBytes :
                param'[i] = IF i = uart.at THEN uart.code[i] ELSE param[i]
           /\ uart' \in UartStates /\ uart'.code = uart.code
           /\ uart.at \in 1..CodeBytes
           /\ \/ uart'.pc = "write" /\ uart'.at = uart.at + 1 /\ uart'.at \in 1..CodeBytes
              \/ uart'.pc = "schedule" /\ uart'.at = 1 /\ uart.at = CodeBytes
<1>1. /\ param \in [1..CodeBytes -> Byte] /\ uart \in UartStates /\ uart.pc = "write"
      /\ uart.at \in 1..CodeBytes /\ CodeBytes \in Nat /\ uart.code \in [1..CodeBytes -> Byte]
  BY IdleType DEF ControlType, WriteIcParams, UartStates, Codes
<1>2. param' = [param EXCEPT ![uart.at] = uart.code[uart.at]]
  BY DEF WriteIcParams
<1>3. param' \in Codes
  BY <1>1, <1>2 DEF Codes
<1>4. \A i \in 1..CodeBytes : param'[i] = IF i = uart.at THEN uart.code[i] ELSE param[i]
  BY <1>1, <1>2
<1>5. CASE uart.at < CodeBytes
  <2>1. uart' = [uart EXCEPT !.at = @ + 1]
    BY <1>5 DEF WriteIcParams
  <2> QED
    BY <1>1, <1>3, <1>4, <1>5, <2>1 DEF UartStates
<1>6. CASE ~(uart.at < CodeBytes)
  <2>1. uart' = [uart EXCEPT !.pc = "schedule", !.at = 1] /\ uart.at = CodeBytes
    BY <1>1, <1>6 DEF WriteIcParams
  <2>2. uart'.code = uart.code /\ uart'.pc = "schedule" /\ uart'.at = 1
    BY <1>1, <2>1 DEF UartStates
  <2>3. uart' \in UartStates
    <3>1. 1 \in 1..CodeBytes
      BY EndDeviceConstants
    <3> QED
      BY ONLY <1>1, <2>1, <3>1 DEF UartStates
  <2> QED
    BY ONLY <1>1, <1>3, <1>4, <2>1, <2>2, <2>3
<1> QED
  BY <1>5, <1>6

--------------------------------------------------------------------------------
(* Types and buffers.  The two go together: that a buffer which is freed finds  *)
(* room in the pool is what conservation says.                                  *)

Inv == TypeOK /\ BuffersConserved

\* All buffers are free at the start.
LEMMA InitInv == Init => Inv
<1> SUFFICES ASSUME Init PROVE Inv
  OBVIOUS
<1>1. NetworkType
  <2>1. creds \in BOOLEAN
    BY DEF Init
  <2> QED
    BY <2>1 DEF Init, NetworkType
<1>2. ReportType
  <2>1. work \in BOOLEAN
    BY DEF Init
  <2> QED
    BY <2>1, Pools DEF Init, ReportType
<1>3. ControlType
  BY IdleType DEF Init, ControlType
<1>4. HistoryType
  <2>1. left \in Budgets
    BY EndDeviceConstants DEF Init, Budgets, Activities
  <2> QED
    BY <1>1, <2>1 DEF Init, NetworkType, HistoryType
<1>5. BuffersConserved
  BY Pools DEF Init, BuffersConserved
<1> QED
  BY <1>1, <1>2, <1>3, <1>4, <1>5 DEF Inv, TypeOK

\* A restart gives all buffers back.
LEMMA RestartInv == Inv /\ Restart /\ left' = left => Inv'
<1> SUFFICES ASSUME Inv, Restart, left' = left PROVE Inv'
  OBVIOUS
<1>1. NetworkType'
  BY DEF Restart, NetworkType
<1>2. ReportType'
  <2>1. work' \in BOOLEAN
    BY DEF Restart
  <2> QED
    BY <2>1, Pools DEF Restart, ReportType
<1>3. ControlType'
  BY IdleType DEF Restart, ControlType
<1>4. HistoryType'
  BY <1>1 DEF Restart, Inv, TypeOK, NetworkType, HistoryType
<1>5. BuffersConserved'
  BY Pools DEF Restart, BuffersConserved
<1> QED
  BY <1>1, <1>2, <1>3, <1>4, <1>5 DEF Inv, TypeOK

\* Steps that move no buffer keep the pool.
LEMMA PoolFrame == BuffersConserved /\ UNCHANGED buffers => BuffersConserved'
  BY DEF BuffersConserved, buffers

\* No step loses a buffer or a type.
LEMMA NextInv == Inv /\ [Next]_vars => Inv'
<1> SUFFICES ASSUME Inv, [Next]_vars PROVE Inv'
  OBVIOUS
<1> USE DEF Inv, TypeOK
<1>1. CASE FirstStart
  <2> USE <1>1 DEF FirstStart, SetStaticCode, SignalFrame, buffers, history
  <2>1. NetworkType'
    BY DEF NetworkType
  <2>2. ReportType'
    BY DEF ReportType
  <2>3. ControlType'
    BY BuiltInCode DEF ControlType
  <2>4. HistoryType'
    BY DEF HistoryType
  <2>5. BuffersConserved'
    BY PoolFrame
  <2> QED
    BY <2>1, <2>2, <2>3, <2>4, <2>5
<1>2. CASE Reboot
  <2> USE <1>2 DEF Reboot, SetStaticCode, SignalFrame, buffers, history
  <2>1. NetworkType'
    BY DEF NetworkType
  <2>2. ReportType'
    BY DEF ReportType
  <2>3. ControlType'
    BY BuiltInCode DEF ControlType
  <2>4. HistoryType'
    BY DEF HistoryType, NetworkType
  <2>5. BuffersConserved'
    BY PoolFrame
  <2> QED
    BY <2>1, <2>2, <2>3, <2>4, <2>5
<1>3. CASE SteeringEnds
  <2> USE <1>3 DEF SteeringEnds, SignalFrame, buffers, history
  <2>1. NetworkType'
    BY DEF NetworkType
  <2>2. ReportType'
    BY DEF ReportType
  <2>3. ControlType'
    BY DEF ControlType
  <2>4. HistoryType'
    BY DEF HistoryType, NetworkType
  <2>5. BuffersConserved'
    BY PoolFrame
  <2> QED
    BY <2>1, <2>2, <2>3, <2>4, <2>5
<1>4. CASE NetworkLeft
  <2> USE <1>4 DEF NetworkLeft, buffers, control, history
  <2>1. NetworkType'
    BY DEF NetworkType
  <2>2. ReportType'
    BY DEF ReportType
  <2>3. ControlType'
    BY DEF ControlType
  <2>4. HistoryType'
    BY SpendType DEF HistoryType, Activities
  <2>5. BuffersConserved'
    BY PoolFrame
  <2> QED
    BY <2>1, <2>2, <2>3, <2>4, <2>5
<1>5. CASE Leave
  <2> USE <1>5 DEF Leave, SignalFrame, buffers, history
  <2>1. NetworkType'
    BY DEF NetworkType
  <2>2. ReportType'
    BY DEF ReportType
  <2>3. ControlType'
    BY DEF ControlType
  <2>4. HistoryType'
    BY DEF HistoryType
  <2>5. BuffersConserved'
    BY PoolFrame
  <2> QED
    BY <2>1, <2>2, <2>3, <2>4, <2>5
<1>6. CASE RejoinAttempt
  <2> USE <1>6 DEF RejoinAttempt, SignalFrame, buffers, history
  <2>1. NetworkType'
    BY DEF NetworkType
  <2>2. ReportType'
    BY DEF ReportType
  <2>3. ControlType'
    BY DEF ControlType
  <2>4. HistoryType'
    BY DEF HistoryType
  <2>5. BuffersConserved'
    BY PoolFrame
  <2> QED
    BY <2>1, <2>2, <2>3, <2>4, <2>5
<1>7. CASE Rtc2Isr
  <2> USE <1>7 DEF Rtc2Isr, ReportFrame, network, buffers, control, history
  <2>1. NetworkType'
    BY DEF NetworkType
  <2>2. ReportType'
    BY DEF ReportType
  <2>3. ControlType'
    BY DEF ControlType
  <2>4. HistoryType'
    BY DEF HistoryType
  <2>5. BuffersConserved'
    BY PoolFrame
  <2> QED
    BY <2>1, <2>2, <2>3, <2>4, <2>5
<1>8. CASE RtcWorkHandler
  <2> USE <1>8 DEF RtcWorkHandler, ReportFrame, network, buffers, control, history
  <2>1. NetworkType'
    BY DEF NetworkType
  <2>2. ReportType'
    BY ScheduleType DEF ReportType, Callbacks, Answering
  <2>3. ControlType'
    BY DEF ControlType
  <2>4. HistoryType'
    BY DEF HistoryType
  <2>5. BuffersConserved'
    BY PoolFrame
  <2> QED
    BY <2>1, <2>2, <2>3, <2>4, <2>5
<1>9. CASE TriggerTempReport
  <2> USE <1>9 DEF TriggerTempReport, ReportFrame, network, control, history
  <2>1. NetworkType'
    BY DEF NetworkType
  <2>2. ReportType'
    BY RunsType, Pools DEF ReportType
  <2>3. ControlType'
    BY DEF ControlType
  <2>4. HistoryType'
    BY DEF HistoryType
  <2>5. BuffersConserved'
    BY DEF BuffersConserved, ReportType
  <2> QED
    BY <2>1, <2>2, <2>3, <2>4, <2>5
<1>10. CASE BufferGranted
  <2> USE <1>10 DEF BufferGranted, ReportFrame, network, control, history
  <2>1. NetworkType'
    BY DEF NetworkType
  <2>2. ReportType'
    BY Pools DEF ReportType, BuffersConserved
  <2>3. ControlType'
    BY DEF ControlType
  <2>4. HistoryType'
    BY DEF HistoryType
  <2>5. BuffersConserved'
    BY DEF BuffersConserved, ReportType
  <2> QED
    BY <2>1, <2>2, <2>3, <2>4, <2>5
<1>11. CASE SendTemperature
  <2> USE <1>11 DEF SendTemperature, ReportFrame, network, control, history
  <2>1. NetworkType'
    BY DEF NetworkType
  <2>2. ReportType'
    BY Pools DEF ReportType, BuffersConserved
  <2>3. ControlType'
    BY DEF ControlType
  <2>4. HistoryType'
    BY DEF HistoryType
  <2>5. BuffersConserved'
    BY DEF BuffersConserved, ReportType
  <2> QED
    BY <2>1, <2>2, <2>3, <2>4, <2>5
<1>12. CASE WriteAttrCallback
  <2> USE <1>12 DEF WriteAttrCallback, ReportFrame, network, control, history
  <2>1. NetworkType'
    BY DEF NetworkType
  <2>2. ReportType'
    BY Pools DEF ReportType, BuffersConserved
  <2>3. ControlType'
    BY DEF ControlType
  <2>4. HistoryType'
    BY DEF HistoryType
  <2>5. BuffersConserved'
    BY DEF BuffersConserved, ReportType
  <2> QED
    BY <2>1, <2>2, <2>3, <2>4, <2>5
<1>13. CASE IcSetCallback
  <2> USE <1>13 DEF IcSetCallback, CommandFrame, network, buffers, history
  <2>1. NetworkType'
    BY DEF NetworkType
  <2>2. ReportType'
    BY RunsType DEF ReportType
  <2>3. ControlType'
    BY DEF ControlType
  <2>4. HistoryType'
    BY DEF HistoryType
  <2>5. BuffersConserved'
    BY PoolFrame
  <2> QED
    BY <2>1, <2>2, <2>3, <2>4, <2>5
<1>14. CASE JoinCallback
  <2> USE <1>14 DEF JoinCallback, StartSteering, CommandFrame, buffers
  <2>1. NetworkType'
    BY DEF NetworkType
  <2>2. ReportType'
    BY RunsType DEF ReportType
  <2>3. ControlType'
    BY DEF ControlType
  <2>4. HistoryType'
    BY DEF HistoryType
  <2>5. BuffersConserved'
    BY PoolFrame
  <2> QED
    BY <2>1, <2>2, <2>3, <2>4, <2>5
<1>15. CASE FactoryResetHandler \/ ButtonResetCallback
  <2> USE <1>15 DEF FactoryResetHandler, ButtonResetCallback, LocalReset, CommandFrame, buffers
  <2>1. NetworkType'
    BY DEF NetworkType
  <2>2. ReportType'
    BY RunsType DEF ReportType
  <2>3. ControlType'
    BY DEF ControlType
  <2>4. HistoryType'
    BY DEF HistoryType
  <2>5. BuffersConserved'
    BY PoolFrame
  <2> QED
    BY <2>1, <2>2, <2>3, <2>4, <2>5
<1>16. ASSUME NEW c \in Lines, LineIcSet(c) PROVE Inv'
  <2> USE <1>16 DEF LineIcSet, Line, UartFrame, network, buffers, history
  <2>1. NetworkType'
    BY DEF NetworkType
  <2>2. ReportType'
    BY DEF ReportType
  <2>3. ControlType'
    <3>1. c \in Codes /\ 1 \in 1..CodeBytes
      BY EndDeviceConstants
    <3>2. uart' \in UartStates
      BY <3>1 DEF UartStates
    <3> QED
      BY <3>1, <3>2 DEF ControlType
  <2>4. HistoryType'
    BY SpendType DEF HistoryType, Activities
  <2>5. BuffersConserved'
    BY PoolFrame
  <2> QED
    BY <2>1, <2>2, <2>3, <2>4, <2>5
<1>17. CASE LineAnswered
  <2> USE <1>17 DEF LineAnswered, Line, UartFrame, network, buffers, history
  <2>1. NetworkType'
    BY DEF NetworkType
  <2>2. ReportType'
    BY DEF ReportType
  <2>3. ControlType'
    BY DEF ControlType
  <2>4. HistoryType'
    BY SpendType DEF HistoryType, Activities
  <2>5. BuffersConserved'
    BY PoolFrame
  <2> QED
    BY <2>1, <2>2, <2>3, <2>4, <2>5
<1>18. ASSUME NEW cmd \in {"join", "factory_reset", "reboot"}, LineScheduled(cmd) PROVE Inv'
  <2> USE <1>18 DEF LineScheduled, Line, UartFrame, network, buffers, history
  <2>1. NetworkType'
    BY DEF NetworkType
  <2>2. ReportType'
    BY ScheduleType DEF ReportType, Callbacks, Answering
  <2>3. ControlType'
    BY DEF ControlType
  <2>4. HistoryType'
    BY SpendType DEF HistoryType, Activities
  <2>5. BuffersConserved'
    BY PoolFrame
  <2> QED
    BY <2>1, <2>2, <2>3, <2>4, <2>5
<1>19. CASE WriteIcParams
  <2> USE <1>19 DEF WriteIcParams, UartFrame, network, buffers, history
  <2>1. NetworkType'
    BY DEF NetworkType
  <2>2. ReportType'
    BY DEF ReportType
  <2>3. ControlType'
    BY CodeStored DEF ControlType
  <2>4. HistoryType'
    BY DEF HistoryType
  <2>5. BuffersConserved'
    BY PoolFrame
  <2> QED
    BY <2>1, <2>2, <2>3, <2>4, <2>5
<1>20. CASE ScheduleIcSet
  <2> USE <1>20 DEF ScheduleIcSet, UartFrame, network, buffers, history
  <2>1. NetworkType'
    BY DEF NetworkType
  <2>2. ReportType'
    BY ScheduleType DEF ReportType, Callbacks, Answering
  <2>3. ControlType'
    BY IdleType DEF ControlType
  <2>4. HistoryType'
    BY DEF HistoryType
  <2>5. BuffersConserved'
    BY PoolFrame
  <2> QED
    BY <2>1, <2>2, <2>3, <2>4, <2>5
<1>21. CASE RebootHandler \/ RebootTimerHandler
  BY <1>21, RestartInv DEF RebootHandler, RebootTimerHandler
<1>22. CASE FactoryResetHeld
  <2> USE <1>22 DEF FactoryResetHeld, network, buffers, control, history
  <2>1. NetworkType'
    BY DEF NetworkType
  <2>2. ReportType'
    BY ScheduleType DEF ReportType, Callbacks
  <2>3. ControlType'
    BY DEF ControlType
  <2>4. HistoryType'
    BY SpendType DEF HistoryType, Activities
  <2>5. BuffersConserved'
    BY PoolFrame
  <2> QED
    BY <2>1, <2>2, <2>3, <2>4, <2>5
<1>23. CASE UNCHANGED vars
  BY <1>23 DEF vars, network, buffers, control, history, NetworkType, ReportType,
     ControlType, HistoryType, BuffersConserved
<1> QED
  BY <1>1, <1>2, <1>3, <1>4, <1>5, <1>6, <1>7, <1>8, <1>9, <1>10, <1>11, <1>12,
     <1>13, <1>14, <1>15, <1>16, <1>17, <1>18, <1>19, <1>20, <1>21, <1>22, <1>23
  DEF Next, StackAnswers, ScheduledCallback, OperatorTypes, UartThread

\* Every variable has its type, and every buffer is free, being filled or in flight:
\* no path of the report, and no error of the sensor, loses or frees one twice.
THEOREM Conservation == Safe => [](TypeOK /\ BuffersConserved)
<1>1. Inv => TypeOK /\ BuffersConserved
  BY DEF Inv
<1> QED
  BY InitInv, NextInv, <1>1, PTL DEF Safe

\* Every variable of the sensor has its type.
COROLLARY TypeCorrect == Safe => []TypeOK
<1> QED
  BY Conservation, PTL

--------------------------------------------------------------------------------
(* The network flag.  Whatever could make the device steer in production, or    *)
(* send a report, goes back to a join command or to stored credentials.         *)

Told == ~Development =>
          /\ creds \/ bdb = "steering" => enrolled
          /\ enrolled \/ bdb = "rejoining" \/ retry \/ creds \/ member \/ leaving => told
Ever == (joined \/ wanted + reading + inflight > 0) => everJoined
Fresh == /\ bdb = "init" => ~joined /\ ~member /\ ~leaving
         /\ leaving => ~member
FlagInv == FlagExact /\ Told /\ Ever /\ Fresh

\* The device starts outside any network.
LEMMA FlagInit == Init => FlagInv
  BY DEF Init, FlagInv, FlagExact, Told, Ever, Fresh

\* A restart forgets the membership, and keeps credentials only with the history.
LEMMA FlagRestart == Restart => FlagInv'
<1> SUFFICES ASSUME Restart PROVE FlagInv'
  OBVIOUS
<1>1. FlagExact'
  BY DEF Restart, FlagExact
<1>2. Told'
  BY DEF Restart, Told
<1>3. Ever'
  BY DEF Restart, Ever
<1>4. Fresh'
  BY DEF Restart, Fresh
<1> QED
  BY <1>1, <1>2, <1>3, <1>4 DEF FlagInv

\* No step raises the flag, or starts to join, by itself.
LEMMA FlagNext == TypeOK /\ FlagInv /\ [Next]_vars => FlagInv'
<1> SUFFICES ASSUME TypeOK, FlagInv, [Next]_vars PROVE FlagInv'
  OBVIOUS
<1>0. wanted \in Nat /\ reading \in Nat /\ inflight \in Nat
  BY DEF TypeOK, ReportType
<1> USE DEF FlagInv
<1>1. CASE FirstStart
  <2> USE <1>1 DEF FirstStart, SignalFrame, buffers, history
  <2>1. FlagExact'
    BY DEF FlagExact, Fresh
  <2>2. Told'
    BY DEF Told
  <2>3. Ever'
    BY <1>0 DEF Ever
  <2>4. Fresh'
    BY DEF Fresh
  <2> QED
    BY <2>1, <2>2, <2>3, <2>4
<1>2. CASE Reboot
  <2> USE <1>2 DEF Reboot, SignalFrame, buffers, history
  <2>1. FlagExact'
    BY DEF FlagExact, Fresh
  <2>2. Told'
    BY DEF Told
  <2>3. Ever'
    BY <1>0 DEF Ever
  <2>4. Fresh'
    BY DEF Fresh
  <2> QED
    BY <2>1, <2>2, <2>3, <2>4
<1>3. CASE SteeringEnds
  <2> USE <1>3 DEF SteeringEnds, SignalFrame, buffers, history
  <2>1. FlagExact'
    BY DEF FlagExact, Fresh
  <2>2. Told'
    BY DEF Told
  <2>3. Ever'
    BY <1>0 DEF Ever
  <2>4. Fresh'
    BY DEF Fresh
  <2> QED
    BY <2>1, <2>2, <2>3, <2>4
<1>4. CASE NetworkLeft
  <2> USE <1>4 DEF NetworkLeft, buffers, history
  <2>1. FlagExact'
    BY DEF FlagExact, Fresh
  <2>2. Told'
    BY DEF Told
  <2>3. Ever'
    BY <1>0 DEF Ever
  <2>4. Fresh'
    BY DEF Fresh
  <2> QED
    BY <2>1, <2>2, <2>3, <2>4
<1>5. CASE Leave
  <2> USE <1>5 DEF Leave, SignalFrame, buffers, history
  <2>1. FlagExact'
    BY DEF FlagExact, Fresh
  <2>2. Told'
    BY DEF Told
  <2>3. Ever'
    BY <1>0 DEF Ever
  <2>4. Fresh'
    BY DEF Fresh
  <2> QED
    BY <2>1, <2>2, <2>3, <2>4
<1>6. CASE RejoinAttempt
  <2> USE <1>6 DEF RejoinAttempt, SignalFrame, buffers, history
  <2>1. FlagExact'
    BY DEF FlagExact, Fresh
  <2>2. Told'
    BY DEF Told
  <2>3. Ever'
    BY <1>0 DEF Ever
  <2>4. Fresh'
    BY DEF Fresh
  <2> QED
    BY <2>1, <2>2, <2>3, <2>4
<1>7. CASE TriggerTempReport
  <2> USE <1>7 DEF TriggerTempReport, ReportFrame, network, history
  <2>1. FlagExact'
    BY DEF FlagExact, Fresh
  <2>2. Told'
    BY DEF Told
  <2>3. Ever'
    BY <1>0 DEF Ever
  <2>4. Fresh'
    BY DEF Fresh
  <2> QED
    BY <2>1, <2>2, <2>3, <2>4
<1>8. CASE BufferGranted
  <2> USE <1>8 DEF BufferGranted, ReportFrame, network, history
  <2>1. FlagExact'
    BY DEF FlagExact, Fresh
  <2>2. Told'
    BY DEF Told
  <2>3. Ever'
    BY <1>0 DEF Ever
  <2>4. Fresh'
    BY DEF Fresh
  <2> QED
    BY <2>1, <2>2, <2>3, <2>4
<1>9. CASE SendTemperature
  <2> USE <1>9 DEF SendTemperature, ReportFrame, network, history
  <2>1. FlagExact'
    BY DEF FlagExact, Fresh
  <2>2. Told'
    BY DEF Told
  <2>3. Ever'
    BY <1>0 DEF Ever
  <2>4. Fresh'
    BY DEF Fresh
  <2> QED
    BY <2>1, <2>2, <2>3, <2>4
<1>10. CASE WriteAttrCallback
  <2> USE <1>10 DEF WriteAttrCallback, ReportFrame, network, history
  <2>1. FlagExact'
    BY DEF FlagExact, Fresh
  <2>2. Told'
    BY DEF Told
  <2>3. Ever'
    BY <1>0 DEF Ever
  <2>4. Fresh'
    BY DEF Fresh
  <2> QED
    BY <2>1, <2>2, <2>3, <2>4
<1>11. CASE JoinCallback
  <2> USE <1>11 DEF JoinCallback, StartSteering, CommandFrame, buffers
  <2>1. FlagExact'
    BY DEF FlagExact, Fresh
  <2>2. Told'
    BY DEF Told
  <2>3. Ever'
    BY <1>0 DEF Ever
  <2>4. Fresh'
    BY DEF Fresh
  <2> QED
    BY <2>1, <2>2, <2>3, <2>4
<1>12. CASE FactoryResetHandler \/ ButtonResetCallback
  <2>1. LocalReset /\ UNCHANGED buffers
    BY <1>12 DEF FactoryResetHandler, ButtonResetCallback, CommandFrame
  <2> USE <2>1 DEF LocalReset, buffers
  <2>2. FlagExact'
    BY DEF FlagExact, Fresh
  <2>3. Told'
    BY DEF Told
  <2>4. Ever'
    BY <1>0 DEF Ever
  <2>5. Fresh'
    BY DEF Fresh, FlagExact
  <2> QED
    BY <2>2, <2>3, <2>4, <2>5
<1>13. CASE Rtc2Isr \/ RtcWorkHandler \/ IcSetCallback \/ FactoryResetHeld
          \/ OperatorTypes \/ UartThread \/ UNCHANGED vars
  <2>1. UNCHANGED <<network, buffers, history>>
    BY <1>13 DEF Rtc2Isr, RtcWorkHandler, ReportFrame, IcSetCallback, CommandFrame,
       FactoryResetHeld, OperatorTypes, LineIcSet, LineAnswered, LineScheduled, UartThread, WriteIcParams, ScheduleIcSet,
       UartFrame, vars
  <2> QED
    BY <2>1 DEF network, buffers, history, FlagExact, Told, Ever, Fresh
<1>14. CASE RebootHandler \/ RebootTimerHandler
  BY <1>14, FlagRestart DEF RebootHandler, RebootTimerHandler
<1> QED
  BY <1>1, <1>2, <1>3, <1>4, <1>5, <1>6, <1>7, <1>8, <1>9, <1>10, <1>11, <1>12,
     <1>13, <1>14
  DEF Next, StackAnswers, ScheduledCallback

\* The flag is exact but for a LEAVE on its way; no report is begun before a join;
\* a production device that has had no network and was not told does not join.
THEOREM NetworkFlag == Safe => [](FlagExact /\ NoReportBeforeJoin /\ JoinsWhenTold)
<1>1. TypeOK /\ FlagInv /\ [Next]_vars => FlagInv'
  BY FlagNext
<1>2. FlagInv => FlagExact /\ NoReportBeforeJoin /\ JoinsWhenTold
  BY DEF FlagInv, Told, Ever, NoReportBeforeJoin, JoinsWhenTold
<1> QED
  BY Conservation, FlagInit, <1>1, <1>2, PTL DEF Safe

\* No report is begun before the device has joined once since it started.
COROLLARY NoEarlyReport == Safe => []NoReportBeforeJoin
<1> QED
  BY NetworkFlag, PTL

\* A production device joins by the application's doing only with a network, or told
\* since it lost it; the stack retries only on a device that had one, or was told once.
COROLLARY JoinsOnlyWhenTold == Safe => []JoinsWhenTold
<1> QED
  BY NetworkFlag, PTL

--------------------------------------------------------------------------------
(* An operator who waits for each reply finds the Install Code that was typed.  *)
(* The one command under way is with the UART thread or in the queue, and its   *)
(* code, once it is set, will be the typed one.  Reports and the reset of the   *)
(* button share the queue and are no commands.                                  *)

Commanded == {i \in 1..Len(queue) : queue[i] \in Answering}
OneCommand ==
    /\ \A i, j \in Commanded : i = j
    /\ uart.pc # "idle" \/ ~waiting => Commanded = {}
    /\ uart.pc # "idle" => waiting

Becomes(code) == typed = IF code \in ValidCodes THEN code ELSE ic
Stored(k) == \A i \in 1..(k - 1) : param[i] = uart.code[i]
CodeUnderWay ==
    /\ ~waiting => ic = typed
    /\ uart.pc = "write" => Becomes(uart.code) /\ Stored(uart.at)
    /\ uart.pc = "schedule" => Becomes(param)
    /\ \A i \in Commanded : /\ queue[i] = "ic_set" => Becomes(param)
                            /\ queue[i] = "join" => ic = typed

IcInv == OneCommand /\ CodeUnderWay

LEMMA IcInit == Init => IcInv
  BY DEF Init, IcInv, OneCommand, CodeUnderWay, Commanded, Idle

\* Most steps touch neither the code nor a command.
LEMMA IcFrame ==
    ASSUME IcInv, UNCHANGED <<ic, typed, param, uart, waiting, queue>>
    PROVE  IcInv'
  BY DEF IcInv, OneCommand, CodeUnderWay, Commanded, Becomes, Stored

\* The head of the queue is taken: what follows it moves up.
LEMMA TakenHead ==
    ASSUME ReportType, NEW cb, Runs(cb)
    PROVE  /\ queue # <<>> /\ 1 \in 1..Len(queue) /\ queue[1] = cb
           /\ Len(queue') = Len(queue) - 1
           /\ \A i \in 1..Len(queue') : i + 1 \in 1..Len(queue) /\ queue'[i] = queue[i + 1]
  BY DEF ReportType, Runs

\* A command is taken: none is left.
LEMMA TakenCommand ==
    ASSUME ReportType, OneCommand, NEW cb \in Answering, Runs(cb)
    PROVE  1 \in Commanded /\ queue[1] = cb /\ Commanded' = {} /\ uart.pc = "idle" /\ waiting
<1>1. 1 \in Commanded /\ queue[1] = cb
  BY TakenHead DEF Commanded
<1>2. ASSUME NEW i \in Commanded' PROVE FALSE
  <2>1. i \in Nat \ {0} /\ i + 1 \in Commanded
    BY TakenHead DEF Commanded
  <2> QED
    BY <1>1, <2>1 DEF OneCommand
<1> QED
  BY <1>1, <1>2 DEF OneCommand

\* A callback is scheduled behind the others, or dropped.
LEMMA Scheduled ==
    ASSUME ReportType, NEW cb \in Callbacks, Schedule(cb)
    PROVE  \/ queue' = queue
           \/ /\ Len(queue') = Len(queue) + 1 /\ queue'[Len(queue) + 1] = cb
              /\ \A i \in 1..Len(queue) : queue'[i] = queue[i]
  BY DEF ReportType, Schedule

\* A report or a reset of the button is queued or taken: the commands are the same,
\* at other places.
LEMMA IcOthers ==
    ASSUME ReportType, IcInv, UNCHANGED <<ic, typed, param, uart, waiting>>,
           NEW cb \in Callbacks \ Answering, Schedule(cb) \/ Runs(cb)
    PROVE  IcInv'
<1>1. CASE Schedule(cb)
  <2>1. Len(queue) \in Nat
    BY DEF ReportType
  <2>2. \A i \in Commanded' : i \in Commanded /\ queue'[i] = queue[i]
    BY <1>1, <2>1, Scheduled DEF Commanded
  <2> QED
    BY <2>2 DEF IcInv, OneCommand, CodeUnderWay, Becomes, Stored
<1>2. CASE Runs(cb)
  <2>1. \A i \in Commanded' : i \in Nat /\ i + 1 \in Commanded /\ queue'[i] = queue[i + 1]
    BY <1>2, TakenHead DEF Commanded
  <2>2. OneCommand'
    <3>1. ASSUME NEW i \in Commanded', NEW j \in Commanded' PROVE i = j
      <4>1. i + 1 = j + 1 /\ i \in Nat /\ j \in Nat
        BY <2>1 DEF IcInv, OneCommand
      <4> QED
        BY <4>1
    <3> QED
      BY <2>1, <3>1 DEF IcInv, OneCommand
  <2>3. CodeUnderWay'
    BY <2>1 DEF IcInv, CodeUnderWay, Becomes, Stored
  <2> QED
    BY <2>2, <2>3 DEF IcInv
<1> QED
  BY <1>1, <1>2

LEMMA IcRestart == Restart => IcInv'
  BY DEF Restart, IcInv, OneCommand, CodeUnderWay, Commanded, Idle

LEMMA IcNext ==
    ASSUME Patient, ~Development, TypeOK, IcInv, [Next]_vars
    PROVE  IcInv'
<1> USE DEF TypeOK
<1>1. CASE StackAnswers \/ NetworkLeft \/ RejoinAttempt
  <2>1. UNCHANGED <<ic, typed, param, uart, waiting, queue>>
    BY <1>1 DEF StackAnswers, FirstStart, Reboot, SteeringEnds, Leave, NetworkLeft, RejoinAttempt,
                SetStaticCode, SignalFrame, control
  <2> QED
    BY <2>1, IcFrame
<1>2. CASE Rtc2Isr \/ BufferGranted \/ SendTemperature \/ WriteAttrCallback
  <2>1. UNCHANGED <<ic, typed, param, uart, waiting, queue>>
    BY <1>2 DEF Rtc2Isr, BufferGranted, SendTemperature, WriteAttrCallback, ReportFrame, control
  <2> QED
    BY <2>1, IcFrame
<1>3. CASE RtcWorkHandler \/ TriggerTempReport
  <2>1. "trigger" \in Callbacks \ Answering
    BY DEF Callbacks, Answering
  <2>2. Schedule("trigger") \/ Runs("trigger")
    BY <1>3 DEF RtcWorkHandler, TriggerTempReport
  <2>3. UNCHANGED <<ic, typed, param, uart, waiting>>
    BY <1>3 DEF RtcWorkHandler, TriggerTempReport, ReportFrame, control
  <2> QED
    BY <2>1, <2>2, <2>3, IcOthers
<1>4. CASE IcSetCallback
  <2>1. queue[1] = "ic_set" /\ 1 \in Commanded /\ Commanded' = {} /\ uart.pc = "idle"
    BY <1>4, TakenCommand DEF IcSetCallback, IcInv, Answering
  <2>2. ic' = typed /\ UNCHANGED <<typed, uart>> /\ ~waiting'
    BY <1>4, <2>1 DEF IcSetCallback, CommandFrame, IcInv, CodeUnderWay, Becomes
  <2> QED
    BY <2>1, <2>2 DEF IcInv, OneCommand, CodeUnderWay
<1>5. CASE JoinCallback
  <2>1. queue[1] = "join" /\ 1 \in Commanded /\ Commanded' = {} /\ uart.pc = "idle"
    BY <1>5, TakenCommand DEF JoinCallback, IcInv, Answering
  <2>2. ic = typed /\ UNCHANGED <<ic, typed, uart>>
    BY <1>5, <2>1 DEF JoinCallback, CommandFrame, IcInv, CodeUnderWay
  <2> QED
    BY <2>1, <2>2 DEF IcInv, OneCommand, CodeUnderWay
<1>6. CASE FactoryResetHandler
  <2>1. Commanded' = {} /\ uart.pc = "idle" /\ waiting
    BY <1>6, TakenCommand DEF FactoryResetHandler, IcInv, Answering
  <2>2. UNCHANGED <<ic, typed, uart, waiting>>
    BY <1>6 DEF FactoryResetHandler, LocalReset, CommandFrame
  <2> QED
    BY <2>1, <2>2 DEF IcInv, OneCommand, CodeUnderWay
<1>7. CASE RebootHandler \/ RebootTimerHandler
  BY <1>7, IcRestart DEF RebootHandler, RebootTimerHandler
<1>8. ASSUME NEW c \in Lines, LineIcSet(c) PROVE IcInv'
  <2>1. /\ uart' = [pc |-> "write", at |-> 1, code |-> c] /\ ~waiting /\ waiting'
        /\ typed' = (IF c \in ValidCodes THEN c ELSE typed)
        /\ UNCHANGED <<ic, queue, param>>
    BY <1>8 DEF LineIcSet, Line, UartFrame
  <2>2. Commanded' = {} /\ typed = ic
    BY <2>1 DEF IcInv, OneCommand, CodeUnderWay, Commanded
  <2>3. uart'.pc = "write" /\ uart'.at = 1 /\ uart'.code = c
    BY <2>1
  <2>4. Becomes(c)' /\ Stored(1)'
    BY <2>1, <2>2 DEF Becomes, Stored
  <2> QED
    BY <2>1, <2>2, <2>3, <2>4 DEF IcInv, OneCommand, CodeUnderWay, Becomes, Stored
<1>9. CASE LineAnswered
  BY <1>9, IcFrame DEF LineAnswered, UartFrame
<1>10. ASSUME NEW cmd \in {"join", "factory_reset", "reboot"}, LineScheduled(cmd) PROVE IcInv'
  <2>1. /\ Schedule(cmd) /\ ~waiting /\ waiting' /\ uart.pc = "idle"
        /\ UNCHANGED <<uart, ic, typed, param>>
    BY <1>10 DEF LineScheduled, Line, UartFrame
  <2>2. Commanded = {} /\ ic = typed
    BY <2>1 DEF IcInv, OneCommand, CodeUnderWay
  <2>3. \A i \in Commanded' : i = Len(queue) + 1 /\ queue'[i] = cmd
    <3>1. Len(queue) \in Nat /\ cmd \in Callbacks
      BY DEF ReportType, Callbacks, Answering
    <3> QED
      BY <2>1, <2>2, <3>1, Scheduled DEF Commanded
  <2> QED
    BY <2>1, <2>2, <2>3 DEF IcInv, OneCommand, CodeUnderWay
<1>11. CASE WriteIcParams
  <2>1. uart.pc = "write" /\ UNCHANGED <<queue, typed, waiting, ic>>
    BY <1>11 DEF WriteIcParams, UartFrame
  <2>2. Commanded' = {} /\ waiting
    BY <2>1 DEF IcInv, OneCommand, Commanded
  <2>3. Becomes(uart.code) /\ Stored(uart.at)
    BY <2>1 DEF IcInv, CodeUnderWay
  <2>4. /\ uart.at \in 1..CodeBytes /\ CodeBytes \in Nat /\ uart'.code = uart.code
        /\ \A i \in 1..CodeBytes :
             param'[i] = IF i = uart.at THEN uart.code[i] ELSE param[i]
        /\ \/ uart'.pc = "write" /\ uart'.at = uart.at + 1 /\ uart'.at \in 1..CodeBytes
           \/ uart'.pc = "schedule" /\ uart'.at = 1 /\ uart.at = CodeBytes
    BY <1>11, CodeStored, IdleType
  <2>5. \A i \in 1..uart.at : param'[i] = uart.code[i]
    <3> SUFFICES ASSUME NEW i \in 1..uart.at PROVE param'[i] = uart.code[i]
      OBVIOUS
    <3>1. i = uart.at \/ (i # uart.at /\ i \in 1..(uart.at - 1))
      BY <2>4
    <3>2. i \in 1..CodeBytes
      BY <2>4
    <3> QED
      BY <2>3, <2>4, <3>1, <3>2 DEF Stored
  <2>6. OneCommand'
    BY <2>1, <2>2, <2>4 DEF OneCommand
  <2>7. CASE uart'.pc = "write"
    <3>1. uart'.at = uart.at + 1 /\ uart'.at - 1 = uart.at
      BY <2>4, <2>7
    <3>2. Stored(uart.at)'
      BY <2>4, <2>5, <3>1 DEF Stored
    <3>3. Becomes(uart.code)'
      BY <2>1, <2>3, <2>4 DEF Becomes
    <3> QED
      BY <2>1, <2>2, <2>6, <2>7, <3>2, <3>3 DEF IcInv, CodeUnderWay
  <2>8. CASE uart'.pc = "schedule"
    <3>1. param' = uart.code
      <4>1. param' \in Codes /\ uart.code \in Codes
        BY <1>11, CodeStored DEF ControlType, UartStates
      <4>2. \A i \in 1..CodeBytes : param'[i] = uart.code[i]
        BY <2>4, <2>5, <2>8
      <4> QED
        BY ONLY <4>1, <4>2, SameCode
    <3>2. Becomes(param)'
      BY <2>1, <2>3, <3>1 DEF Becomes
    <3> QED
      BY <2>1, <2>2, <2>6, <2>8, <3>2 DEF IcInv, CodeUnderWay
  <2> QED
    BY <2>4, <2>7, <2>8
<1>12. CASE ScheduleIcSet
  <2>1. /\ Schedule("ic_set") /\ uart.pc = "schedule" /\ uart'.pc = "idle"
        /\ UNCHANGED <<typed, waiting, ic, param>>
    BY <1>12 DEF ScheduleIcSet, UartFrame, Idle
  <2>2. Commanded = {} /\ waiting /\ Becomes(param)
    BY <2>1 DEF IcInv, OneCommand, CodeUnderWay
  <2>3. \A i \in Commanded' : i = Len(queue) + 1 /\ queue'[i] = "ic_set"
    <3>1. Len(queue) \in Nat /\ "ic_set" \in Callbacks
      BY DEF ReportType, Callbacks, Answering
    <3> QED
      BY <2>1, <2>2, <3>1, Scheduled DEF Commanded
  <2> QED
    BY <2>1, <2>2, <2>3 DEF IcInv, OneCommand, CodeUnderWay, Becomes
<1>13. CASE FactoryResetHeld \/ ButtonResetCallback
  <2>1. "local_reset" \in Callbacks \ Answering
    BY DEF Callbacks, Answering
  <2>2. Schedule("local_reset") \/ Runs("local_reset")
    BY <1>13 DEF FactoryResetHeld, ButtonResetCallback
  <2>3. UNCHANGED <<ic, typed, param, uart, waiting>>
    BY <1>13 DEF FactoryResetHeld, ButtonResetCallback, LocalReset, CommandFrame, control
  <2> QED
    BY <2>1, <2>2, <2>3, IcOthers
<1>14. CASE UNCHANGED vars
  BY <1>14, IcFrame DEF vars, control
<1> QED
  BY <1>1, <1>2, <1>3, <1>4, <1>5, <1>6, <1>7, <1>8, <1>9, <1>10, <1>11, <1>12, <1>13, <1>14
  DEF Next, ScheduledCallback, OperatorTypes, UartThread

\* In production, once the commands of an operator who waits for each reply are answered,
\* the Install Code in the stack is the last valid one typed since the restart.
THEOREM CodeAsTyped ==
    ASSUME ~Development
    PROVE  Safe => []IcAsTyped
<1>1. CASE Patient
  <2>1. TypeOK /\ IcInv /\ [Next]_vars => IcInv'
    BY <1>1, IcNext
  <2>2. IcInv => IcAsTyped
    BY DEF IcInv, CodeUnderWay, IcAsTyped
  <2> QED
    BY TypeCorrect, IcInit, <2>1, <2>2, PTL DEF Safe
<1>2. CASE ~Patient
  <2>1. IcAsTyped
    BY <1>2 DEF IcAsTyped
  <2> QED
    BY <2>1, PTL
<1> QED
  BY <1>1, <1>2
================================================================================
