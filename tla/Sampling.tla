------------------------------- MODULE Sampling -------------------------------
(***************************************************************************)
(* How a temperature comes to be measured: main() tries the calibration,   *)
(* sets RTC2 up and starts it (Rtc); every period the interrupt submits    *)
(* rtc_work, whose handler asks for a report on the ZBOSS thread, which    *)
(* calls bmp180_read_temperature (Bmp180).  What becomes of the report, and*)
(* when none is made because the device is on no network, is in EndDevice. *)
(***************************************************************************)
EXTENDS Rtc, Bmp180

CONSTANT QueueSize  \* slots for reports asked for and not begun

ASSUME SamplingConstants == QueueSize \in Nat \ {0}

VARIABLE asked  \* reports asked for and not begun

samplingVars == <<rtcVars, bmpVars, asked>>

SamplingInit == RtcInit /\ BmpInit /\ asked = 0

\* main() calls bmp180_init before it sets the timers up.
Main ==
    \/ BootInit /\ UNCHANGED <<rtcVars, asked>>
    \/ driver # "boot" /\ Setup /\ UNCHANGED <<bmpVars, asked>>

Clock     == Tick /\ UNCHANGED <<bmpVars, asked>>
Interrupt == Rtc2Isr /\ UNCHANGED <<bmpVars, asked>>

\* rtc_work_handler: a full callback queue drops the report.
RtcWorkHandler ==
    /\ WorkTaken
    /\ asked' = IF asked < QueueSize THEN asked + 1 ELSE asked
    /\ UNCHANGED bmpVars

\* send_temperature_cb begins: one call of bmp180_read_temperature.
ReportBegins ==
    /\ asked > 0
    /\ asked' = asked - 1
    /\ ReadMock \/ ReadBegins
    /\ UNCHANGED rtcVars

ReportGoesOn ==
    /\ SendTempCommand \/ SleepTick \/ FetchReading
    /\ UNCHANGED <<rtcVars, asked>>

SensorBus == BusChanges /\ UNCHANGED <<rtcVars, asked>>

SamplingNext ==
    Main \/ Clock \/ Interrupt \/ RtcWorkHandler \/ ReportBegins \/ ReportGoesOn \/ SensorBus

SamplingSafe == SamplingInit /\ [][SamplingNext]_samplingVars

\* The hardware counts, the interrupt is served, and every thread runs when it can.
SamplingSpec ==
    /\ SamplingSafe
    /\ WF_samplingVars(Main) /\ WF_samplingVars(Clock) /\ WF_samplingVars(Interrupt)
    /\ WF_samplingVars(RtcWorkHandler)
    /\ WF_samplingVars(ReportBegins) /\ WF_samplingVars(ReportGoesOn)

--------------------------------------------------------------------------------

\* A sensor absent at boot, or for a while, is used as soon as it answers: if the bus
\* is up from some time on, a conversion is made again and again, each a new one.
KeepsMeasuring ==
    <>[](bus /\ ready /\ ~testMode) => []<>(measured) /\ []<>(~measured)
================================================================================
