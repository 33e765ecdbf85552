---------------------------- MODULE SamplingProofs ----------------------------
(***************************************************************************)
(* Proofs about Rtc, Bmp180 and their composition Sampling: the period of  *)
(* the measurements, and that a measurement returned as good is one.       *)
(***************************************************************************)
EXTENDS Sampling, TLAPS

--------------------------------------------------------------------------------
(* Rtc.  The inductive invariant: what main() has set up so far, and, for each *)
(* place of the interrupt, where the counter and the history are.              *)

SetupInv ==
    /\ running <=> setup = "done"
    /\ setup \in {"init", "compare"} => evten = {} /\ inten = {}
    /\ setup = "interrupt" => inten = {}
    /\ setup \in {"interrupt", "start", "done"} =>
           evten = {Channel} /\ cc[Channel] = Period
    /\ setup \in {"start", "done"} => inten = {Channel}

Stopped == setup # "done" => counter = 0 /\ since = 0 /\ events = {} /\ isr = "idle"

\* Before the match: the counter is ahead of the history by what the last interrupt
\* took after clearing it.
Counting == since <= counter /\ counter - MaxLate <= since

Waiting  == isr = "idle" /\ events = {} => counter < Period /\ Counting
Matched  == isr = "idle" /\ events # {} =>
                events = {Channel} /\ counter = Period + late /\ Counting
Entered  == isr = "clear_event" => events = {Channel} /\ counter = Period + late /\ Counting
Clearing == isr = "clear" => events = {} /\ counter = Period + late /\ Counting
Cleared  == isr \in {"compare", "submit"} =>
                /\ events = {} /\ counter <= late
                /\ since <= Period + late /\ Period - MaxLate <= since

Phases == Waiting /\ Matched /\ Entered /\ Clearing /\ Cleared
RtcInv == RtcTypeOK /\ SetupInv /\ Stopped /\ Phases

LEMMA RtcInitInv == RtcInit => RtcInv
  <1>1. SUFFICES ASSUME RtcInit PROVE RtcInv
    OBVIOUS
  <1>2. RtcTypeOK
    <2>1. 0 \in 0..(CounterSize - 1) /\ 0 \in 0..MaxLate
      BY RtcConstants
    <2>2. QED
      BY <1>1, <2>1 DEF RtcInit, RtcTypeOK, Channels, SetupStates, IsrStates
  <1>3. SetupInv /\ Stopped
    BY <1>1 DEF RtcInit, SetupInv, Stopped
  <1>4. Phases
    BY <1>1, RtcConstants
    DEF RtcInit, Phases, Waiting, Matched, Entered, Clearing, Cleared, Counting
  <1>5. QED
    BY <1>2, <1>3, <1>4 DEF RtcInv

\* A tick while a match is being served moves neither the events nor the phase.
LEMMA ServedTick ==
    ASSUME RtcInv, Tick, Serving
    PROVE  RtcInv'
  <1> USE RtcConstants
  <1>1. setup = "done" /\ evten = {Channel} /\ cc[Channel] = Period
    BY DEF RtcInv, Stopped, SetupInv, RtcTypeOK, SetupStates, Tick, Serving
  <1>2. late' = late + 1 /\ late < MaxLate /\ since' = since + 1
    BY DEF Tick, Serving
  <1>3. counter \in Nat /\ late \in Nat /\ since \in Nat /\ counter + 1 < CounterSize
    <2>1. counter \in Nat /\ late \in 0..MaxLate /\ since \in Nat
      BY DEF RtcInv, RtcTypeOK
    <2>2. counter <= Period + late
      BY <2>1 DEF RtcInv, Phases, Matched, Entered, Clearing, Cleared, Serving,
                  RtcTypeOK, IsrStates
    <2>3. QED
      BY <1>2, <2>1, <2>2
  <1>4. counter' = counter + 1
    BY <1>3 DEF Tick
  <1>5. counter' # Period
    BY <1>2, <1>3, <1>4 DEF RtcInv, Phases, Matched, Entered, Clearing, Cleared, Serving,
                            RtcTypeOK, IsrStates
  <1>6. events' = events
    BY <1>1, <1>5 DEF Tick
  <1>7. UNCHANGED <<running, cc, evten, inten, setup, isr, work>>
    BY DEF Tick
  <1>8. RtcTypeOK'
    BY <1>2, <1>3, <1>4, <1>6, <1>7 DEF RtcInv, RtcTypeOK
  <1>9. SetupInv' /\ Stopped'
    BY <1>1, <1>7 DEF RtcInv, SetupInv, Stopped
  <1>10. Phases'
    BY <1>2, <1>3, <1>4, <1>6, <1>7
    DEF RtcInv, Phases, Waiting, Matched, Entered, Clearing, Cleared, Counting, Serving
  <1>11. QED
    BY <1>8, <1>9, <1>10 DEF RtcInv

\* A tick while nothing is served brings the match one tick nearer, or is the match.
LEMMA WaitingTick ==
    ASSUME RtcInv, Tick, ~Serving
    PROVE  RtcInv'
  <1> USE RtcConstants
  <1>1. setup = "done" /\ evten = {Channel} /\ cc[Channel] = Period
    BY DEF RtcInv, SetupInv, Tick
  <1>2. late' = 0 /\ since' = since + 1 /\ events = {} /\ isr = "idle"
    BY DEF Tick, Serving
  <1>3. counter \in Nat /\ since \in Nat /\ counter < Period /\ Counting
    BY <1>2 DEF RtcInv, RtcTypeOK, Phases, Waiting
  <1>4. counter' = counter + 1
    BY <1>3 DEF Tick
  <1>5. events' = IF counter' = Period THEN {Channel} ELSE {}
    BY <1>1, <1>2 DEF Tick
  <1>6. UNCHANGED <<running, cc, evten, inten, setup, isr, work>>
    BY DEF Tick
  <1>7. RtcTypeOK'
    BY <1>2, <1>3, <1>4, <1>5, <1>6 DEF RtcInv, RtcTypeOK, Channel, Channels
  <1>8. SetupInv' /\ Stopped'
    BY <1>1, <1>6 DEF RtcInv, SetupInv, Stopped
  <1>9. Phases'
    BY <1>2, <1>3, <1>4, <1>5, <1>6
    DEF Phases, Waiting, Matched, Entered, Clearing, Cleared, Counting
  <1>10. QED
    BY <1>7, <1>8, <1>9 DEF RtcInv

LEMMA SetupStep ==
    ASSUME RtcInv, Setup
    PROVE  RtcInv'
  <1> USE RtcConstants
  <1>1. setup # "done" /\ counter = 0 /\ since = 0 /\ events = {} /\ isr = "idle"
    BY DEF Setup, StartCounter, EnableInterrupt, RtcInv, Stopped
  <1>2. counter' = 0 /\ UNCHANGED <<since, events, isr, work, late>>
    BY <1>1 DEF Setup, InitCounter, StartCounter, EnableInterrupt
  <1>0. \/ setup = "compare" /\ cc' = [cc EXCEPT ![Channel] = Period]
           /\ evten' = evten \union {Channel} /\ setup' = "interrupt"
           /\ UNCHANGED <<running, inten>>
        \/ setup # "compare" /\ UNCHANGED <<cc, evten>>
    <2>1. Channel \in Channels /\ Period < CounterSize
      BY DEF Channel, Channels
    <2>2. QED
      BY <2>1 DEF Setup, StartCompare, StartCounter, EnableInterrupt
  <1>8. cc' \in [Channels -> 0..(CounterSize - 1)] /\ evten' \subseteq Channels
    <2>1. cc \in [Channels -> 0..(CounterSize - 1)] /\ evten \subseteq Channels
      BY DEF RtcInv, RtcTypeOK
    <2>2. Period \in 0..(CounterSize - 1) /\ Channel \in Channels
      BY DEF Channel, Channels
    <2>3. QED
      BY <1>0, <2>1, <2>2
  <1>9. setup' \in SetupStates /\ running' \in BOOLEAN /\ inten' \subseteq Channels
    <2>1. setup' \in SetupStates
      BY DEF Setup, SetupStates, StartCounter, EnableInterrupt
    <2>2. running' = TRUE \/ running' = running
      BY DEF Setup, StartCounter, EnableInterrupt
    <2>3. inten' = inten \union {Channel} \/ inten' = inten
      BY DEF Setup, StartCounter, EnableInterrupt
    <2>4. running \in BOOLEAN /\ inten \subseteq Channels /\ Channel \in Channels
      BY DEF RtcInv, RtcTypeOK, Channel, Channels
    <2>5. QED
      BY <2>1, <2>2, <2>3, <2>4
  <1>3. RtcTypeOK'
    BY <1>2, <1>8, <1>9 DEF RtcInv, RtcTypeOK
  <1>4. SetupInv'
    <2>1. CASE setup = "compare"
      <3>1. cc'[Channel] = Period /\ evten' = {Channel}
        <4>1. cc' = [cc EXCEPT ![Channel] = Period] /\ evten' = evten \union {Channel}
          BY <1>0, <2>1
        <4>2. cc \in [Channels -> 0..(CounterSize - 1)] /\ Channel \in Channels /\ evten = {}
          BY <2>1 DEF RtcInv, RtcTypeOK, SetupInv, Channel, Channels
        <4>3. QED
          BY <4>1, <4>2
      <3>2. QED
        BY <1>0, <2>1, <3>1 DEF RtcInv, SetupInv
    <2>2. CASE setup # "compare"
      BY <1>0, <1>1, <2>2 DEF RtcInv, SetupInv, Setup, StartCounter, EnableInterrupt
    <2>3. QED
      BY <2>1, <2>2
  <1>5. Stopped'
    BY <1>1, <1>2 DEF Stopped
  <1>6. Phases'
    BY <1>1, <1>2 DEF Phases, Waiting, Matched, Entered, Clearing, Cleared, Counting
  <1>7. QED
    BY <1>3, <1>4, <1>5, <1>6 DEF RtcInv

LEMMA IsrStep ==
    ASSUME RtcInv, Rtc2Isr
    PROVE  RtcInv'
  <1> USE RtcConstants
  <1>1. setup = "done" /\ evten = {Channel} /\ cc[Channel] = Period /\ inten = {Channel}
    BY DEF RtcInv, Stopped, SetupInv, RtcTypeOK, SetupStates, Rtc2Isr, IsrEnters,
           IsrClearsEvent, IsrClearsCounter, IsrRearms, IsrSubmits
  <1>2. UNCHANGED <<running, inten, setup>>
    BY DEF Rtc2Isr, IsrEnters, IsrClearsEvent, IsrClearsCounter, IsrRearms, IsrSubmits, IsrFrame
  <1>3. Rtc2Isr => UNCHANGED <<cc, evten>>
    <2>1. IsrRearms => UNCHANGED <<cc, evten>>
      BY <1>1 DEF IsrRearms, StartCompare, RtcInv, RtcTypeOK, Channel, Channels
    <2>2. QED
      BY <2>1 DEF Rtc2Isr, IsrEnters, IsrClearsEvent, IsrClearsCounter, IsrSubmits
  <1>4. RtcTypeOK'
    <2>1. counter' \in 0..(CounterSize - 1) /\ late' \in 0..MaxLate /\ since' \in Nat
      BY DEF RtcInv, RtcTypeOK, Rtc2Isr, IsrEnters, IsrClearsEvent, IsrClearsCounter,
             IsrRearms, IsrSubmits, ClearCounter
    <2>2. events' \subseteq Channels /\ isr' \in IsrStates /\ work' \in BOOLEAN
      BY DEF RtcInv, RtcTypeOK, Rtc2Isr, IsrEnters, IsrClearsEvent, IsrClearsCounter,
             IsrRearms, IsrSubmits, IsrStates, ClearCompareEvent
    <2>3. QED
      BY <1>2, <1>3, <2>1, <2>2 DEF RtcInv, RtcTypeOK
  <1>5. SetupInv' /\ Stopped'
    BY <1>1, <1>2, <1>3 DEF RtcInv, SetupInv, Stopped
  <1>6. Phases'
    <2>1. CASE IsrEnters
      BY <2>1, <1>1 DEF IsrEnters, CompareEvent, RtcInv, Phases, Waiting, Matched, Entered,
                        Clearing, Cleared, Counting
    <2>2. CASE IsrClearsEvent
      BY <2>2 DEF IsrClearsEvent, ClearCompareEvent, RtcInv, Phases, Waiting, Matched, Entered,
                  Clearing, Cleared, Counting
    <2>3. CASE IsrClearsCounter
      BY <2>3 DEF IsrClearsCounter, ClearCounter, RtcInv, RtcTypeOK, Phases, Waiting, Matched,
                  Entered, Clearing, Cleared, Counting
    <2>4. CASE IsrRearms
      BY <2>4 DEF IsrRearms, RtcInv, Phases, Waiting, Matched, Entered, Clearing, Cleared, Counting
    <2>5. CASE IsrSubmits
      BY <2>5 DEF IsrSubmits, RtcInv, RtcTypeOK, Phases, Waiting, Matched, Entered, Clearing,
                  Cleared, Counting
    <2>6. QED
      BY <2>1, <2>2, <2>3, <2>4, <2>5 DEF Rtc2Isr
  <1>7. QED
    BY <1>4, <1>5, <1>6 DEF RtcInv

LEMMA RtcStep ==
    ASSUME RtcInv, [RtcNext]_rtcVars
    PROVE  RtcInv'
  <1>1. CASE Tick
    BY <1>1, ServedTick, WaitingTick
  <1>2. CASE Setup
    BY <1>2, SetupStep
  <1>3. CASE Rtc2Isr
    BY <1>3, IsrStep
  <1>4. CASE WorkTaken
    BY <1>4 DEF WorkTaken, timer, RtcInv, RtcTypeOK, SetupInv, Stopped, Phases, Waiting,
                Matched, Entered, Clearing, Cleared, Counting
  <1>5. CASE UNCHANGED rtcVars
    BY <1>5 DEF rtcVars, timer, RtcInv, RtcTypeOK, SetupInv, Stopped, Phases, Waiting,
                Matched, Entered, Clearing, Cleared, Counting
  <1>6. QED
    BY <1>1, <1>2, <1>3, <1>4, <1>5 DEF RtcNext

LEMMA RtcInvariant == RtcSafe => []RtcInv
  <1>1. QED
    BY RtcInitInv, RtcStep, PTL DEF RtcSafe

\* No period is lost and lateness does not add up, for every period, every width of the
\* counter and every lateness of the interrupt below a period (rtc2_isr).
THEOREM RtcNeverSilent == RtcSafe => []NeverSilent
  <1>1. RtcInv => NeverSilent
    BY RtcConstants DEF RtcInv, RtcTypeOK, IsrStates, Phases, Waiting, Matched, Entered,
                        Clearing, Cleared, Counting, NeverSilent
  <1>2. QED
    BY <1>1, RtcInvariant, PTL

\* No match is served twice (rtc2_isr): a submission that comes less than a period after
\* the one before makes up for the lateness of that one.
THEOREM RtcNeverEarly == RtcSafe => NeverEarly
  <1>1. RtcInv => [isr = "submit" /\ isr' = "idle" => since >= Period - MaxLate]_rtcVars
    BY RtcConstants DEF RtcInv, RtcTypeOK, Phases, Cleared
  <1>2. QED
    BY <1>1, RtcInvariant, PTL DEF NeverEarly

--------------------------------------------------------------------------------
(* Bmp180.  Why a result is fresh: while the driver sleeps, what remains of the *)
(* conversion it has started is no longer than what remains of the sleep.       *)

InCall == driver \in {"command", "sleep"} => result = Pending /\ ~testMode

Converting ==
    /\ driver = "command" => ~measured
    /\ driver = "sleep" => sleep \in Nat /\ conv \in Nat /\ (measured \/ conv \in 1..sleep)

BmpInv == InCall /\ Converting /\ CalibrationComplete /\ FreshReading

LEMMA BmpInitInv == BmpInit => BmpInv
  <1>1. QED
    BY DEF BmpInit, BmpInv, InCall, Converting, CalibrationComplete, FreshReading,
           Pending, Failed, build

LEMMA FailedIsNotOk ==
    /\ Pending.err # "ok"
    /\ InitError # "ok" => Failed(InitError).err # "ok"
    /\ Failed("EIO").err # "ok"
  <1>1. QED
    BY DEF Pending, Failed

LEMMA BootInitStep ==
    ASSUME BmpInv, BootInit
    PROVE  BmpInv'
  <1>1. QED
    BY DEF BootInit, LoadCalibration, BmpInv, InCall, Converting, CalibrationComplete,
           FreshReading, build

LEMMA ReadMockStep ==
    ASSUME BmpInv, ReadMock
    PROVE  BmpInv'
  <1>1. QED
    BY DEF ReadMock, Return, BmpInv, InCall, Converting, CalibrationComplete, FreshReading, build

LEMMA ReadBeginsStep ==
    ASSUME BmpInv, ReadBegins
    PROVE  BmpInv'
  <1> USE FailedIsNotOk
  <1>1. ~testMode /\ ~testMode' /\ driver' \in {"idle", "command"} /\ ~measured'
    BY DEF ReadBegins, Return, build
  <1>2. (driver' = "command" /\ result' = Pending) \/ (driver' = "idle" /\ result'.err # "ok")
    BY DEF ReadBegins, Return
  <1>3. calibrated' \/ driver' = "command" => calib' = Calib
    BY <1>1 DEF ReadBegins, Return, LoadCalibration, BmpInv, CalibrationComplete
  <1>4. QED
    BY <1>1, <1>2, <1>3 DEF BmpInv, InCall, Converting, CalibrationComplete, FreshReading

LEMMA SendTempCommandStep ==
    ASSUME BmpInv, SendTempCommand
    PROVE  BmpInv'
  <1> USE FailedIsNotOk
  <1>1. UNCHANGED <<testMode, calib, calibrated, measured, adc>> /\ ~measured /\ ~testMode
    BY DEF SendTempCommand, BmpInv, InCall, Converting, build
  <1>2. CASE InitError # "ok"
    <2>1. driver' = "idle" /\ result'.err # "ok"
      BY <1>2 DEF SendTempCommand, Return
    <2>2. calib' = Calib
      BY <1>1 DEF SendTempCommand, BmpInv, CalibrationComplete
    <2>3. QED
      BY <1>1, <2>1, <2>2 DEF BmpInv, InCall, Converting, CalibrationComplete, FreshReading
  <1>3. CASE InitError = "ok"
    <2>1. sleep' = SleepTime /\ conv' \in 1..ConvTime /\ driver' = "sleep" /\ UNCHANGED result
      BY <1>3 DEF SendTempCommand
    <2>2. sleep' \in Nat /\ conv' \in Nat /\ conv' \in 1..sleep'
      BY <2>1, Bmp180Times
    <2>3. calib' = Calib
      BY <1>1 DEF SendTempCommand, BmpInv, CalibrationComplete
    <2>4. result' = Pending
      BY <2>1 DEF SendTempCommand, BmpInv, InCall
    <2>5. QED
      BY <1>1, <2>1, <2>2, <2>3, <2>4
      DEF BmpInv, InCall, Converting, CalibrationComplete, FreshReading
  <1>4. QED
    BY <1>2, <1>3

LEMMA SleepTickStep ==
    ASSUME BmpInv, SleepTick
    PROVE  BmpInv'
  <1> USE FailedIsNotOk
  <1>1. /\ UNCHANGED <<testMode, calib, calibrated, driver, result>>
        /\ driver = "sleep" /\ result = Pending /\ ~testMode
    BY DEF SleepTick, BmpInv, InCall, build
  <1>2. sleep \in Nat /\ conv \in Nat /\ (measured \/ conv \in 1..sleep)
    BY <1>1 DEF BmpInv, Converting
  <1>3. sleep' \in Nat /\ conv' \in Nat /\ (measured' \/ conv' \in 1..sleep')
    BY <1>2 DEF SleepTick
  <1>4. QED
    BY <1>1, <1>3 DEF BmpInv, InCall, Converting, CalibrationComplete, FreshReading

LEMMA FetchReadingStep ==
    ASSUME BmpInv, FetchReading
    PROVE  BmpInv'
  <1> USE FailedIsNotOk
  <1>1. /\ UNCHANGED <<testMode, calib, calibrated, adc, measured>>
        /\ driver = "sleep" /\ driver' = "idle" /\ sleep = 0
    BY DEF FetchReading, Return, build
  <1>2. measured /\ calib = Calib
    BY <1>1 DEF BmpInv, InCall, Converting, CalibrationComplete
  <1>3. result' = ComputeTemperature(adc, Calib) \/ result'.err # "ok"
    BY <1>2 DEF FetchReading, Return
  <1>4. QED
    BY <1>1, <1>2, <1>3 DEF BmpInv, InCall, Converting, CalibrationComplete, FreshReading

LEMMA BmpStep ==
    ASSUME BmpInv, [BmpNext]_bmpVars
    PROVE  BmpInv'
  <1>1. CASE BusChanges
    BY <1>1 DEF BusChanges, build, BmpInv, InCall, Converting, CalibrationComplete, FreshReading
  <1>2. CASE UNCHANGED bmpVars
    BY <1>2 DEF bmpVars, build, BmpInv, InCall, Converting, CalibrationComplete, FreshReading
  <1>3. QED
    BY <1>1, <1>2, BootInitStep, ReadMockStep, ReadBeginsStep, SendTempCommandStep,
       SleepTickStep, FetchReadingStep DEF BmpNext, ReadTemperature

LEMMA BmpInvariant == BmpSafe => []BmpInv
  <1>1. QED
    BY BmpInitInv, BmpStep, PTL DEF BmpSafe

\* No half-read or unread calibration is ever used (bmp180_init, called lazily), whatever
\* the words are and whichever transfers fail.
THEOREM BmpCalibrationComplete == BmpSafe => []CalibrationComplete
  <1>1. QED
    BY BmpInvariant, PTL DEF BmpInv

\* A call that returns 0 returns its own conversion (bmp180_read_temperature), for every
\* conversion time no longer than the sleep and whichever transfers fail.
THEOREM BmpFreshReading == BmpSafe => []FreshReading
  <1>1. QED
    BY BmpInvariant, PTL DEF BmpInv

--------------------------------------------------------------------------------

\* The composition is an implementation of each part: no step of the program moves the
\* timer or the driver in a way its own module does not have.
THEOREM SamplingImplements == SamplingSafe => RtcSafe /\ BmpSafe
  <1>1. SamplingInit => RtcInit /\ BmpInit
    BY DEF SamplingInit
  <1>2. [SamplingNext]_samplingVars => [RtcNext]_rtcVars
    <2>1. CASE SamplingNext
      BY <2>1 DEF SamplingNext, Main, Clock, Interrupt, RtcWorkHandler, ReportBegins,
                  ReportGoesOn, SensorBus, RtcNext
    <2>2. QED
      BY <2>1 DEF samplingVars
  <1>3. [SamplingNext]_samplingVars => [BmpNext]_bmpVars
    <2>1. CASE SamplingNext
      BY <2>1 DEF SamplingNext, Main, Clock, Interrupt, RtcWorkHandler, ReportBegins,
                  ReportGoesOn, SensorBus, BmpNext, ReadTemperature
    <2>2. QED
      BY <2>1 DEF samplingVars
  <1>4. QED
    BY <1>1, <1>2, <1>3, PTL DEF SamplingSafe, RtcSafe, BmpSafe

\* What the program as a whole keeps: a report is asked for every period, and what it
\* would send is fresh.
THEOREM SamplingCorrect ==
    SamplingSafe => []NeverSilent /\ NeverEarly /\ []CalibrationComplete /\ []FreshReading
  <1>1. QED
    BY SamplingImplements, RtcNeverSilent, RtcNeverEarly, BmpCalibrationComplete,
       BmpFreshReading, PTL
================================================================================
