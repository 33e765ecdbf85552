-------------------------------- MODULE Bmp180 --------------------------------
(***************************************************************************)
(* The driver of the temperature sensor, and the sensor.  main() tries to  *)
(* read the calibration once; bmp180_read_temperature, on the ZBOSS thread,*)
(* reads it again when that failed, starts a conversion, sleeps while it   *)
(* runs, and fetches the result.  Any transfer may fail, and the bus may   *)
(* come and go between two of them.                                        *)
(*                                                                         *)
(* The drivers of the sensor and of the light switch are the same, call by *)
(* call, but for the test mode of the former.                              *)
(***************************************************************************)
EXTENDS Bmp180Math

CONSTANTS Calib,       \* the calibration words in the sensor's EEPROM
          Readings,    \* raw values a conversion may yield
          ConvTime,    \* the longest conversion of the sensor
          SleepTime    \* k_msleep(5), in the same unit

ZeroCalib == [ac5 |-> 0, ac6 |-> 0, mc |-> 0, md |-> 0]

ASSUME Bmp180Constants ==
    /\ Calib # ZeroCalib
    /\ Calib \in [ac5 : 0..65535, ac6 : 0..65535, mc : -32768..32767, md : -32768..32767]
    /\ Readings \subseteq 0..65535

\* k_msleep(5) and at most 4.5 ms: bmp180_read_temperature counts on it.
ASSUME Bmp180Times ==
    ConvTime \in Nat \ {0} /\ SleepTime \in Nat /\ SleepTime >= ConvTime

VARIABLES testMode,    \* CONFIG_BMP180_DEVICE_TEST_MODE: the same for ever
          ready,       \* device_is_ready: the bus initialised at boot
          bus,         \* the sensor answers its address
          calib,       \* calib_data
          calibrated,  \* is_calibrated
          driver,      \* where bmp180_read_temperature is
          sleep,       \* what remains of the sleep
          conv,        \* what remains of the conversion in the sensor
          adc,         \* the sensor's result register
          mock,        \* mock_temp, in the test mode
          result,      \* what the last call returned
          measured     \* history: the conversion this call has started has yielded adc

build   == <<testMode, ready>>
bmpVars == <<build, bus, calib, calibrated, driver, sleep, conv, adc, mock, result, measured>>

DriverStates == {"boot", "idle", "command", "sleep"}

\* What a call that has returned nothing yet would return.
Pending == Failed("none")

BmpInit ==
    /\ testMode \in BOOLEAN /\ ready \in BOOLEAN /\ bus \in BOOLEAN
    /\ calib = ZeroCalib /\ calibrated = FALSE
    /\ driver = "boot"
    /\ sleep = 0 /\ conv = 0
    /\ adc = 32768
    /\ mock = 200
    /\ result = Pending
    /\ measured = FALSE

\* bmp180_init: one transfer of the 22 calibration bytes, then all the words.
InitError == IF ~ready THEN "ENODEV" ELSE IF ~bus THEN "EIO" ELSE "ok"
LoadCalibration ==
    /\ calib' = IF InitError = "ok" /\ ~testMode THEN Calib ELSE calib
    /\ calibrated' = (calibrated \/ testMode \/ InitError = "ok")

Return(r) == driver' = "idle" /\ result' = r

\* main() calls bmp180_init and does not look at what it returns.
BootInit ==
    /\ driver = "boot"
    /\ driver' = "idle"
    /\ LoadCalibration
    /\ UNCHANGED <<build, bus, sleep, conv, adc, mock, result, measured>>

\* In the test mode: a temperature from 20.0 to 30.0 in steps of 0.5.
ReadMock ==
    /\ driver = "idle" /\ testMode
    /\ Return(Ok(mock))
    /\ mock' = IF mock + 5 > 300 THEN 200 ELSE mock + 5
    /\ UNCHANGED <<build, bus, calib, calibrated, sleep, conv, adc, measured>>

\* Mutant: is_calibrated is set whatever the transfer returned.
CalibratesAnyway ==
    /\ driver = "idle" /\ ~testMode
    /\ result' = Pending /\ driver' = "command"
    /\ calib' = IF InitError = "ok" THEN Calib ELSE calib
    /\ calibrated' = TRUE
    /\ measured' = FALSE
    /\ UNCHANGED <<build, bus, sleep, conv, adc, mock>>

\* Mutant: the calibration is left to main().
NeverCalibrates ==
    /\ driver = "idle" /\ ~testMode
    /\ IF calibrated THEN result' = Pending /\ driver' = "command" ELSE Return(Failed("EIO"))
    /\ measured' = FALSE
    /\ UNCHANGED <<build, bus, calib, calibrated, sleep, conv, adc, mock>>

\* bmp180_read_temperature up to the calibration, read now if it is not there.
ReadBegins ==
    /\ driver = "idle" /\ ~testMode
    /\ IF calibrated
         THEN UNCHANGED <<calib, calibrated>>
         ELSE LoadCalibration
    /\ IF calibrated \/ InitError = "ok"
         THEN result' = Pending /\ driver' = "command"
         ELSE Return(Failed(InitError))
    /\ measured' = FALSE
    /\ UNCHANGED <<build, bus, sleep, conv, adc, mock>>

\* Mutant: the driver goes on when the command failed.
CommandUnchecked ==
    /\ driver = "command"
    /\ driver' = "sleep" /\ sleep' = SleepTime
    /\ conv' = IF bus THEN ConvTime ELSE conv
    /\ UNCHANGED <<build, bus, calib, calibrated, adc, mock, result, measured>>

\* The command that starts a conversion.
SendTempCommand ==
    /\ driver = "command"
    /\ IF InitError # "ok"
         THEN Return(Failed(InitError)) /\ UNCHANGED <<sleep, conv>>
         ELSE /\ driver' = "sleep" /\ sleep' = SleepTime /\ conv' \in 1..ConvTime
              /\ UNCHANGED result
    /\ UNCHANGED <<build, bus, calib, calibrated, adc, mock, measured>>

\* A unit of the sleep, and of the conversion.
SleepTick ==
    /\ driver = "sleep" /\ sleep > 0
    /\ sleep' = sleep - 1
    /\ conv' = IF conv > 0 THEN conv - 1 ELSE 0
    /\ IF conv = 1 THEN adc' \in Readings /\ measured' = TRUE ELSE UNCHANGED <<adc, measured>>
    /\ UNCHANGED <<build, bus, calib, calibrated, driver, mock, result>>

\* The fetch, the compensation, and the return.
FetchReading ==
    /\ driver = "sleep" /\ sleep = 0
    /\ Return(IF bus THEN ComputeTemperature(adc, calib) ELSE Failed("EIO"))
    /\ UNCHANGED <<build, bus, calib, calibrated, sleep, conv, adc, mock, measured>>

\* The sensor is disconnected, or answers again.
BusChanges ==
    /\ bus' = ~bus
    /\ UNCHANGED <<build, calib, calibrated, driver, sleep, conv, adc, mock, result, measured>>

ReadTemperature == ReadMock \/ ReadBegins \/ SendTempCommand \/ SleepTick \/ FetchReading

BmpNext == BootInit \/ ReadTemperature \/ BusChanges
BmpSafe == BmpInit /\ [][BmpNext]_bmpVars

--------------------------------------------------------------------------------

\* Every variable has its type.
BmpTypeOK ==
    /\ testMode \in BOOLEAN /\ ready \in BOOLEAN /\ bus \in BOOLEAN
    /\ calib \in {ZeroCalib, Calib} /\ calibrated \in BOOLEAN
    /\ driver \in DriverStates
    /\ sleep \in 0..SleepTime /\ conv \in 0..ConvTime
    /\ adc \in Readings \union {32768}
    /\ mock \in 0..300 /\ measured \in BOOLEAN

\* No temperature is computed from a calibration that was not read: whenever
\* is_calibrated is set the words are the sensor's, and a conversion runs only then.
CalibrationComplete ==
    ~testMode /\ (calibrated \/ driver \in {"command", "sleep"}) => calib = Calib

\* A call that returns 0 returns the conversion it has itself started, compensated
\* with the sensor's words, and not what the register held before: a command that
\* failed or a sleep too short would report an older temperature as a new one.
FreshReading ==
    ~testMode /\ result.err = "ok" =>
        measured /\ result = ComputeTemperature(adc, Calib)
================================================================================
