# Zigbee gateway for the nRF52840 DK: verification project

This directory holds TLA+ models of the programs in `src/`, the TLC
configurations that check them on small instances, and proofs, checked by TLAPS,
of what holds for every value of the constants. `PROJECT.json` is the machine
readable index: components, runs, mutants, the map from definitions to source
lines, findings, hazards and theorems.

## 1. The system

A Zigbee 3.0 network of three programs, each for one nRF52840 DK, each built on
Nordic's nRF Connect SDK: Zephyr RTOS and the closed-source ZBOSS stack.

| Program | Source | What it does |
|---|---|---|
| coordinator | `zigbee_network/network_coordinator/src/main.c` | forms the network, opens it to devices for 180 s at a time, holds the Install Codes of the devices it may admit, is commanded over UART and by buttons, receives temperatures |
| temperature sensor | `zigbee_end_device/bmp180_device/src/` | joins, reads a BMP180 over I2C every RTC period (4 s) and writes the temperature to the coordinator, commanded over UART |
| light switch | `zigbee_end_device/light_switch/src/` | the SDK sample with a temperature report added, short and long presses control a bulb |

Beside them: `zigbee_end_device/bmp180/` (a bring-up program that reads the sensor
once), `shared_components/` (a payload parser), `flash_devices.sh` and the tests.

### Contexts and shared state

Every program runs its own code in four contexts:

* the **ZBOSS thread** runs the signal handler, scheduled callbacks and alarms,
  one at a time and each to its end;
* the **system work queue** runs button handlers and `k_work` items; it is
  cooperative and preempts the ZBOSS thread;
* the **UART thread** (priority 10, the lowest) assembles lines and parses them;
* **interrupts and kernel timers** (RTC2, `reboot_timer`, the button timer).

They meet in a few globals (`g_ic_add_params`, `g_ic_set_params`,
`g_network_joined`, `dev_ctx`, `rtc_work`, `reboot_timer`), in the LEDs, and in
the stack itself: its queue of callbacks, its alarms, its buffers, its
commissioning machine and the non-volatile data.

### Inventory

**Coordinator: network lifecycle and LED.**
State: the stack's network (`ZB_JOINED`, NVRAM), its commissioning machine, the
pending `steering_finished` alarms, the network LED.
Operations: `zboss_signal_handler` (start, restart, formation, steering,
announcement, leave), `steering_finished`, `button_changed` (Button 1; Button 4 held
for a factory reset).
Interaction: signals and alarms from the stack; Button 1 calls the stack from the
work queue, Button 4 has the SDK schedule a reset.
Hard: a period that is opened again while one runs; commissioning started twice;
the checks that abort.
Correct when: an open network has exactly one alarm, the LED shows it, nothing
aborts, a network that forms is opened.

**Coordinator: UART commands and Install Codes.**
State: `g_ic_add_params`, `reboot_timer`, the trust centre's Install Codes.
Operations: `parse_uart_command` (`ic_add`, `reopen`, `factory_reset`, rejects),
`ic_add_callback`, `reopen_steering_cb`, `factory_reset_handler`,
`reboot_timer_handler`, `register_static_development_keys`.
Hard: a global written byte by byte and handed from thread to thread with no lock; the
ignored result of
`ZB_SCHEDULE_APP_CALLBACK`; the second between reset and restart.
Correct when: the trust centre holds what was typed and every command is answered.

**Coordinator: identify mode.** Button 4 and `identify_cb` start and stop an alarm
that reschedules itself and toggles LED 4.
Hard: a cancel that races a toggle already under way.

**Coordinator: received attributes.**
State: the attributes of endpoint 10. Operations: `zcl_device_cb`,
`modify_attr_value_callback`, which print what the stack has stored.
Interaction: write requests and commands of the sensor and the light switch.
Hard: endpoints, clusters, types and units that three programs must agree on by
copied numbers; frames lost, repeated or overtaken; integers printed as decimals.
Correct when: every report is accepted, on one scale, and the log reads as the
temperature measured.

**Sensor: reporting and network membership.**
State: `g_network_joined`, `rtc_work`, the report's stack buffers.
Operations: `rtc2_isr`, `rtc_work_handler`, `trigger_temp_report`,
`send_temperature_cb`, `write_attr_callback`, `zboss_signal_handler`.
Hard: four contexts in a row between the check of the flag and the transmission;
a buffer per report with four ways to end; pools with limits.
Correct when: no buffer is lost, the flag is exact, nothing is reported before the
device is on a network, and reports keep coming.

**Sensor: UART commands.** `ic_set`, `join`, `factory_reset`, `reboot`, `ieee`, over
`g_ic_set_params` and `reboot_timer`. Correct when: the code set is the code typed,
the application of a production device joins only when told, every command is answered.

**Sensor: buttons.** `button_handler` calls SDK helpers, one of which resets the device
when the button is held, and keeps no state.

**BMP180 driver and compensation.** `bmp_180.c`, `bmp180_math.c`: the calibration is
read at boot in one transfer, or, when that failed, at the first reading; a
conversion is started, slept through and fetched; the compensation is in integers.
Hard: any transfer may fail and the sensor may leave between two of them; division
by a value that depends on the calibration, truncation, widths.
Correct when: no temperature is computed from words that were not read or from an
earlier conversion, and a sensor that comes back is used.

**RTC and timer drivers.** `my_rtc.c`, `my_nrf52_timer.c`: RTC2 and its compare
interrupt, which clears the event and the counter and arms it again.
Hard: the counter runs on between any two writes; an interrupt is served late.
Correct when: there is one submission per period, whatever the lateness.

**Light switch.** Buttons (short, long, the 500 ms timer), the bulb's address, the
signal handler, the report pipeline, and a copy of the drivers.

**Install Code checksum, UART encoding.** `ic_crc16_x25`,
`print_production_pairing_commands`, `hex_char_to_val`, `hex_pair_to_byte` and the two
`parse_uart_command`s. Hard: four places that agree on an order of bytes; parsers
that take any character for a digit and any line that is long enough.
Correct when: a line copied whole sets the pair, and a slip sets no other code.

**Payload parser.** `shared_components/src/payload_parser.c`: four bytes and back.

**Test framework.** Unity, vendored in `shared_components/unity/`: the unit tests
stand on its assertions, its jumps out of a failed test, and its counters.

**Host side.** Flashing script, tests on hardware, the e2e tests.

## 2. Plan

| # | Module | Models | Uses | Properties, theorems |
|---|---|---|---|---|
| 1 | `KeyRegistry` | abstract promise about Install Codes | | |
| 2 | `Coordinator` | network lifecycle, LED, commands | | implements `KeyRegistry` |
| 3 | `CoordinatorProofs` | | 2 | types, LED, reopen-only, keys, built-in key, refinement |
| 4 | `EndDevice` | report pipeline, membership, commands | | |
| 5 | `EndDeviceProofs` | | 4 | types and conservation, network flag, Install Code |
| 6 | `LightSwitch` | buttons and timer, bulb address, LEAVE, report pipeline | | |
| 7 | `LightSwitchProofs` | | 6 | types, buffers, long press, short press |
| 8 | `Identify` | self-rescheduling toggle against start and cancel | | coordinator and light switch |
| 9 | `IdentifyProofs` | | 8 | the blinking stops with the mode |
| 10 | `Bmp180Math` | from raw reading to printed temperature | | pure operators |
| 11 | `Bmp180` | lazy calibration, conversion, error paths | 10 | no half-read calibration, no old conversion |
| 12 | `Rtc` | RTC2 counter, compare, interrupt | | one submission per period |
| 13 | `Sampling` | main(), interrupt, work item and driver together | 11, 12 | implements both |
| 14 | `SamplingProofs` | | 13 | all four safety properties, and that it implements its parts |
| 15 | `Telemetry` | three endpoints and the frames between them | 10 | |
| 16 | `TelemetryProofs` | | 15 | the log is a measured temperature, one scale, reports accepted |
| 17 | `InstallCode` | a code from the sensor to both consoles | | |
| 18 | `InstallCodeProofs` | | 17 | what the checksum catches, copied lines pair, slips do no harm |
| 19 | `PayloadParser` | four bytes and back | | |
| 20 | `UnityAssertions`, `Unity` | assertions, printers, runner | | |
| 21 | `UnitTest` | the parser's test under Unity | 19, 20 | |
| 22 | `UnitTestProofs` | | 21 | round trip, assertions, messages, verdict, tear-down, the test passes |

`KeyRegistry` is an abstract specification the coordinator implements by a refinement
mapping. `Sampling` composes two components and implements each. The coordinator and a
sensor are not composed into one specification with both consoles and the air between
them: `Telemetry` and `InstallCode` are the two interfaces they share, each with both
ends of it, and what else each program does is in its own module.

## 3. What the modules model

### Coordinator

| Model | Code (`network_coordinator/src/main.c`) |
|---|---|
| `formed`, `keys` | NVRAM: the stored network and the trust centre's Install Codes |
| `joined`, `bdb`, `leaving` | `ZB_JOINED()`, the stack's commissioning machine, a LEAVE signal under way |
| `alarms` | pending `steering_finished` alarms |
| `led` | `ZIGBEE_NETWORK_STATE_LED` |
| `zboss` | where `zboss_signal_handler` is |
| `queue`, `params`, `uart`, `timer` | callback queue, `g_ic_add_params`, the UART thread, `reboot_timer` |
| `button` | where `button_changed` is |

A callback or an alarm is one step. `zboss_signal_handler` is taken step by step,
because Button 1, on the cooperative work queue, may run between any two of its
calls: `pc = "case"` is the entry of the switch, `"extend"` the schedule after a
successful cancel, `"lamp"` the LED update at the end, `"abort"` a failed
`ZB_ERROR_CHECK` or `ZB_COMM_STATUS_CHECK`, after which the board restarts.
The check of the default handler's own result (main.c:504) may fail on any signal it is
given, since the SDK does not say which errors it returns. `button_changed` has two
steps for Button 1, the cancel and the start. `parse_uart_command` has one step per byte it
stores in `g_ic_add_params` and one for the schedule, since the ZBOSS thread preempts the
UART thread between any two of them; which end of the address comes first does not matter,
and the bytes are numbered in the order they are stored.

Button 4 held (`check_factory_reset_button`, main.c:334) has the SDK schedule
`zb_bdb_reset_via_local_action`: `FactoryResetHeld` and `ButtonResetCallback`. It erases the
network as the command does and starts no timer, so that the coordinator stays without a
network until it is restarted. Button 4 let go earlier starts identify mode, which is
`Identify`'s; there its callbacks take their slots of the queue.

`asked`, `waiting` and `left` are not in the code: what the operator typed, whether
the last command awaits its answer, and what remains of the bounds.

### EndDevice

| Model | Code (`bmp180_device/src/main.c`) |
|---|---|
| `creds`, `member`, `leaving`, `bdb`, `retry` | the stack: NVRAM, association, a LEAVE under way, commissioning, the default handler's retry |
| `joined` | `g_network_joined`, and DK_LED4 that is switched with it |
| `work` | `rtc_work` pending |
| `queue` | callback queue |
| `free`, `wanted`, `reading`, `inflight` | buffers, and the requests for one |
| `param`, `ic`, `uart`, `timer` | `g_ic_set_params`, the code in the stack, the UART thread, `reboot_timer` |

A handler is one step: of what it reads only `param` is written by another thread, byte
by byte, and a thread of lower priority cannot interrupt it. `bdb` tells the joining that
the application or the start began (`"steering"`) from the default handler's own retry
(`"rejoining"`). `rtc2_isr` runs from boot, before the stack has started too. The button
held for a reset is as in the coordinator. `enrolled`, `told`, `everJoined`, `typed`,
`waiting`, `left` are history and bounds: `enrolled` is lost with the network, by a reset or
a LEAVE, `told` is not.

### LightSwitch

| Model | Code (`light_switch/src/main.c`) |
|---|---|
| `net` | the stack's view of the network; a LEAVE under way is a value of it |
| `known`, `bulbLed` | `bulb_ctx.short_addr # 0xFFFF`, `BULB_FOUND_LED` |
| `held` | what `dk_get_buttons` returns: the buttons of the last scan |
| `handler` | where `button_handler` is, with its `has_changed` |
| `pressed`, `longPoll`, `alarm` | `buttons_ctx` |
| `work`, `queue`, `wanted` | `rtc_work`, callbacks, delayed buffer requests by kind |
| `free`, `commands`, `reports` | the stack's buffers, and who holds them |

`button_handler` is stepwise: the scan, the call up to `k_timer_stop`, and the test of
`long_poll` are steps of their own, because the expiry of the alarm is an interrupt
that comes between any two of them. A handler of the ZBOSS thread is one step and
does not run while `button_handler` does, since the work queue is cooperative and
preempts it. NVRAM is erased at each boot, so every start is a first start.
`stepped` and `chorded` are history: whether this press has been found long, and
whether two buttons overlapped in it or in the press that left `long_poll` set.

### Identify

One module for the two programs: `SharedLed` is TRUE for the light switch, whose
`IDENTIFY_LED` is its network LED. `time` is `identify_time`; `queue`, `alarms`,
`led` and `blink` are the callbacks, the `toggle_identify_led` alarms, the LED and
`blink_status`. `joined` is the stack's network and `signal` says that its last change has
not reached the signal handler, which sets the shared LED: the button may come in between.
`missed` is history: how often the mode ended with its toggle in the queue, so that
`identify_cb` found no alarm to cancel. Nothing keeps start and end of the mode apart.

### Rtc, Bmp180, Sampling

| Model | Code |
|---|---|
| `counter`, `running`, `cc`, `events`, `evten`, `inten` | RTC2's registers, written by `my_rtc.c` |
| `setup`, `isr` | where `main()` and `rtc2_isr` are |
| `work` | `rtc_work` pending |
| `testMode`, `ready` | `CONFIG_BMP180_DEVICE_TEST_MODE`, `device_is_ready` |
| `bus`, `conv`, `adc` | the sensor: whether it answers, the conversion that runs, its result register |
| `calib`, `calibrated`, `mock` | `calib_data`, `is_calibrated`, `mock_temp` |
| `driver`, `sleep`, `result` | where `bmp180_read_temperature` is, its sleep, what it returned |
| `asked` | callbacks for a report in the queue |

`rtc2_isr` has one step per register it writes, since the counter runs on in between;
each transfer of the driver is a step, since the bus may come and go before the next.
`since`, `late` and `measured` are history: ticks since the last submission, ticks
the pending interrupt has waited, and whether this call's conversion is in `adc`.

### Bmp180Math, Telemetry

`ComputeTemperature` and `SwitchTemperature` are the two copies of the compensation:
C's division towards zero and 32-bit products, written so that no number in the model
needs more than 32 bits. `LogTemperature` is the `%d.%d` of the coordinator, and
`ReadBack` what a reader takes such a pair for.

`Endpoint` holds what the three programs declare, `Accepts` what ZBOSS does with it.
`air` are the frames under way, delivered in any order, any number of times or
never; `attr` the attributes, which are in RAM and lost by a restart; `logged` the
last line of the log, with the raw reading the report was made of. A device
that does not send (it is on no network, its sensor failed) is in `EndDevice` and
`LightSwitch`; here a report may be made at any time.

### InstallCode

A word is the set of its bits that are 1: `&` is intersection, `|` union, `^` the
symmetric difference, so that the checksum is the code's own, shift by shift, and can be
proved about. A byte has bits 0 to 7; a character is the digit it stands for, with bits
0 to 3, or `Space` or `Other`. The sensor prints another key at each first start, that is
at every boot until it has a network and again after a reset; the boot clears what it was
told, and the stack of the sensor may or may not have the code of before. The operator types
any of the lines printed so far on either console, in any order and any number of times, and
once in all with a slip, of the kinds in `Kinds`: another character (of `Typos`), one left out, one doubled, two swapped.
`Parse` reads anything for a digit, as the code does, and
`Valid` is the stack's check of the CRC. `ic_add` answers success whatever the stack
thinks, `ic_set` what it returned.

### PayloadParser, UnityAssertions, Unity, UnitTest

An assertion is a record made by the macro that casts its arguments (`AssertEqual`,
`AssertArray`, ...); `Fails` is what the code of the assertion decides and `Message` the
two texts it prints, while `Holds`, in `Unity`, is what the assertion claims, by which
the verdict is judged. `Unity` keeps the counters and the two flags; `test` and `todo`
are where the running test is. A failing assertion empties `todo`, which is the jump
out. An int has two bytes and the widest number three in the runs, for the build's
four and eight.

### What the SDK is taken to do

ZBOSS and Zephyr are not in the repository. They are modelled as the code uses them:

* `bdb_start_top_level_commissioning` is refused while the stack starts or another
  commissioning runs, and otherwise is answered by one signal, success or failure;
* `ZB_SCHEDULE_APP_CALLBACK` appends to a bounded queue or returns an error that no
  caller looks at;
* `ZB_SCHEDULE_APP_ALARM_CANCEL(cb, ZB_ALARM_ANY_PARAM)` takes one alarm back. All
  alarms have the same delay, so which one is not distinguished;
* `ZB_ERROR_CHECK` and `ZB_COMM_STATUS_CHECK` abort on failure, and the board restarts;
* a factory reset erases NVRAM, ends commissioning and, on a device that is on a network,
  raises LEAVE; it leaves scheduled callbacks and alarms alone;
* `check_factory_reset_button` schedules such a reset when the button has been held long
  enough, and restarts nothing;
* the coordinator's default handler starts nothing on the signals it is given there, and
  may return an error on any;
* a `k_timer` initialised again while it runs may be lost;
* the default signal handler of a sensor or a switch steers after a first start,
  retries, and steers again after a LEAVE, whether the device has a network or not;
* `dk_get_buttons` returns the buttons as last scanned, before their handler has run;
* a delayed request for a buffer is refused when its slots are taken, and granted in
  any order;
* the stack frees the buffer of a command sent without a callback, and leaves the
  buffer of one sent with a callback to the callback;
* `identify_cb` runs as soon as the mode starts or ends;
* RTC2's event is set when the counter reaches the compare value, and stays until it is
  cleared; the interrupt is taken while the event is set;
* a BMP180 converts in at most 4.5 ms, and keeps its last result until the next one;
* an I2C transfer succeeds whole or fails with no effect;
* ZBOSS delivers a frame whose endpoint has the cluster as a server, and writes an
  attribute that is declared writable with that type; it drops the others;
* `zb_secur_ic_add` and `zb_secur_ic_set` take a code whose last two bytes are the CRC of
  the others, low byte first.

## 4. What the runs check

| Run | Instance | Shows |
|---|---|---|
| `coord_operator` | two devices, production, all commands, an operator who waits; 3 commands, 1 press, 1 hold, 1 signal; fair | `TypeOK`, `LedBacked`, `KeysAsAsked`, `ImplementsKeyRegistry`, `CommandAnswered`, `LedGoesOff`, `NetworkOpens` |
| `coord_reopen` | development, every command but `ic_add`, an operator who does not wait; 4 commands, 1 hold, 3 signals, 1 power cycle | `OneAlarm`, `LedFollowsPeriod`, `NoAbort`, `DevKeyWhenOpen` |
| `ed` | production sensor, credentials kept, codes of two bytes, 3 commands, 1 hold, 1 LEAVE; fair | `TypeOK`, `BuffersConserved`, `FlagExact`, `NoReportBeforeJoin`, `JoinsWhenTold`, `IcAsTyped`, `KeepsReporting`, `CommandAnswered` |
| `light_switch` | any combination of three buttons, 3 presses, 1 LEAVE; fair | `TypeOK`, `ShortPressSends`, `BuffersConserved`, `LongPollBacked`, `DimmingEnds` |
| `identify` | the shared LED, releases of the button and changes of the network at any moment; fair | `BlinkingStops`, `LedRestored`, `KeepsBlinking` |
| `sampling` | period 4 ticks, counter of 8, an interrupt up to 1 tick late, any transfer failing; fair | `NeverSilent`, `NeverEarly`, `CalibrationComplete`, `FreshReading`, `KeepsMeasuring` |
| `telemetry` | the datasheet's calibration, ten readings from -40.0 to 85.0 degrees and around zero, 2 frames in the air | `ReportsAccepted`, `OneScale`, `LoggedIsMeasured` |
| `install_code` | two keys, printed in any order and again, one slip of any kind at any place of the line | `OnlyThePrintedKey`, `CopiedLinesPair` |
| `unit_test` | programs of up to 2 tests, from some ten thousand; three-byte numbers | `VerdictExact`, `MessageTellsApart`, `PayloadComesBack` |

Three runs find the code at odds with what the repository says:

* `coord_torn` violates `KeysAsAsked`: two `ic_add` lines in a row share one
  `g_ic_add_params`; the callback of the first registers the address of the second, or an
  address with bytes of both.
* `coord_dark` violates `LedFollowsPeriod`: `ic_add_callback` opens the network
  again and leaves the earlier alarm, which puts the LED out while it is open.
  For the same reason the alarms of devices registered within 180 s add up until none
  is to be had and the check of the result (main.c:479) aborts: `NoAbort` fails in
  that instance too, with three `ic_add` and two alarm slots.
* `ls_leave` violates `LedMeansBulb`: a LEAVE with reset forgets the static address of
  the bulb, and a switch that joins again lights LED 4 and ignores its buttons.

Other behaviours of the models that a reader of the repository may not expect, with no
run of their own:

* Button 1 starts commissioning from the work queue, between the delivery of a signal
  and the coordinator handler's own start, which is then refused and its check aborts:
  `NoAbort` holds with `MaxPresses` = 0 only.
* The sensor looks at `g_network_joined` when a report is triggered and not when it is
  sent: a LEAVE in between does not stop the report, which the comment at
  main.c:59-61 says is suppressed.
* Identify mode that ends while its toggle is in the queue finds no alarm to cancel; the
  toggle then blinks for ever, and one more after the next such end. The run `identify`
  reaches this: `BlinkingStops` says that no more than that is left, and `LedRestored`
  excepts it.
* After a reset by the button, or a LEAVE, the default handler of the sensor steers a
  production device that has no network and was not told to join again: `JoinsWhenTold`
  asks less of it than of the application.
* A reset by Button 4 leaves the coordinator without a network until it is restarted, with
  no restart of its own.
* The codes of two first starts of a sensor, one on each console, are both answered with
  success and do not pair the devices.
* `ic_add_success` is printed for a code the stack refuses.
* A temperature from -0.9 to -0.1 degrees is logged without its sign, since the
  quotient that would carry it is 0; the drivers also print the remainder's own sign,
  as in `-1.-5`. `LoggedIsMeasured` excepts the former and is about the coordinator.
* The example of `Docs/production_pairing_guide.md:32-40` has a checksum that is not its
  key's: the CRC of 9d22...98bd is sent as 3a e9, the guide shows 520d. The stack
  would refuse it.
* The limits of the temperature attribute, -5000 and 10000, are commented as hundredths of
  a degree (main.c:99-100: -50.00 and 100.00), while the reports are tenths. Nothing in
  `src/` compares a value with them, and no property here does.
* Unity's message for bits above those of an int shows two equal masks
  (`MessageTellsApart` excepts every mask that has one, a negative one too), as does one for strings that differ by a backslash
  in front of an escape's letter.

Two behaviours of the light switch are in the model and contradict no document, so no
run condemns them. Buttons 1 and 2 let go in one scan leave `long_poll` set until the
alarm expires, and a press that begins before that is swallowed: `ShortPressSends`
excepts it by `chorded`. And when the alarm expires between the scan that sees a
release and `k_timer_stop`, it clears `long_poll`, so that a long press sends an
on/off command as well. One more is only logged: `light_switch_button_handler` warns
that the buffer is full when the request was accepted (main.c:642).

### Bounds

Three commands are two `ic_add` and a reset or reopening between, before or after them; the
four of `coord_reopen`, where they overlap, are a reset with its successor and two
reopenings. The three signals of `coord_reopen` are the announcements that extend a period
twice and one more. One power cycle falls at every point of every behaviour; it is in
`coord_reopen` only, which is what bounds `coord_operator` to some half a million states.
Two addresses that differ in both of their bytes tell a torn one from either, a code of one
byte is enough where it cannot tear, and the codes of `ed` have two.
The pools are smaller than the stack's (queue 24, `QueueSize` 2 or 3; alarms, 2 or 3) so
that their limit is reached; every loss they cause in the code is caused in the model.
`MaxBacklog` bounds the RTC periods the ZBOSS thread lags behind. With at least
`QueueSize` of them a callback of a command may be dropped; the real queue of 24
and the period of 4 s make that a stall of a minute and a half, so `ed` has fewer.

`CHECK_DEADLOCK FALSE` is in the coordinator's configurations, where an operator and
a network that have used up their bounds leave nothing to do, and in the unit test's,
whose program ends.
The sensor's RTC never stops, so deadlock is checked there, and in the light switch
and identify mode, which a signal or a button may always disturb.

Three presses of the light switch are a chord, the press it spoils and one after it.
One buffer makes commands and reports wait for each other, two request slots make
requests fail; the stack has 42 buffers. `MaxTime` = 3 is long enough for a toggle to be
followed by another, and for the mode to end at any point of them, and be started again
by a queue of 3, which the two releases of `MaxReleases` never fill: with a queue full of
releases the first toggle would be dropped, and `KeepsBlinking` says so.

The counter of `sampling` is small enough to wrap in one period and lateness too many,
which is what a missed clear would do; `RtcConstants` (the lateness below a period, both
below the counter) holds with 2^24 and 32, as `Bmp180Times` (the conversion no longer than
the sleep) does with 4.5 and 5 ms. Two frames in the air are a report and one that
overtakes it, of either device. The characters typed for another one in `install_code` are
0, 8, f, a space and one that is no digit; the theorem is for all. One slip is where the
checksum's guarantee can be stated: it catches every error of one byte or two neighbours, which is proved. A doubled
character moves the rest of the line; neither of the two keys of the run has a place where
the checksum misses that, but of 200000 random keys 75 have one. Two tests are
one and the next, whose verdict it must not change; the two sizes of number keep the
cases apart in which a printer or a cast is too narrow.

### Fairness

Weak fairness of: the scheduled callbacks and signal handler (the ZBOSS loop runs
them as long as there are any), the answers of the stack (it calls back for every
commissioning started), alarms and kernel timers (they expire), the work queue, the
UART thread (a line once read is parsed; it has the lowest priority, but the other
threads block), the RTC (hardware). There is none of the operator, the buttons, the
network's announcements and leaves, or the mains. In the sensor the stack grants the
buffers it has and confirms what it sent. In the light switch the handler goes on to its
end and a running timer expires; in identify mode the queue and the alarms are served.
For `Sampling`: `main()`, the
counter, the interrupt, the work queue and the ZBOSS thread go on; the bus owes nothing, so
`KeepsMeasuring` supposes that it is up from some time on. No strong fairness is used.

## 5. What is proved

The proofs hold for any number of addresses, codes, commands, presses, signals and
slots: the bounds of the model are constants of it. They rest on the assumptions
`CoordinatorConstants`, `EndDeviceConstants`, `LightSwitchConstants`,
`IdentifyConstants`, `SamplingConstants`, `Bmp180Constants`, `UnitySizes`,
`UnityConstants` and `UnitTestConstants`, `IcAssumption`, which type the constants; on
`RtcConstants` and `Bmp180Times`, which also bound them (above); on `TelAssumption`, which
says what a sensor at work is: its words are typed as in the datasheet, and within its
range no product leaves 32 bits, no divisor is 0 or less and a temperature in tenths of a
degree fits the 16 bits it is sent in (-3276.8 to 3276.7); and on those stated in the theorem.
TLC evaluates all of them in the runs.

What a loop computes is proved by the least number principle (`WFMin` of the library,
applied to `<`): a set of numbers with a counterexample has a least one. `LeastExists`
and `UpTo` state it once for sets of numbers, which is as good as an induction; from it
`Loop` and `PowersExist` show that the recursive functions of the models exist, without
which nothing is known of their values.

`CoordinatorProofs`:

* `TypeCorrect`: `Safe => []TypeOK`. `TypeOK` is inductive; it is split in three
  parts, since most actions leave most of it alone.
* `LedIsBacked`: `Safe => []LedBacked`. `LedBacked` is not inductive alone: a
  `FORMATION` that ends with the LED lit and no alarm would break it. `QuietStart` adds
  that no period runs before the stack has started or while it forms a network. What backs a
  lit LED is an alarm, an answer of the stack or a LEAVE to come, or the thread that is about
  to see to one; a restart does not count, as `reboot_timer` may be lost.
* `ReopenOnly`: if `"ic_add"` is not among the commands and nobody presses Button 1,
  `OneAlarm`, `NoAbort` and `LedFollowsPeriod` hold always, through resets by command and by
  Button 4. `NoAbort` is about the checks of the application's own calls: that of the default
  handler's result (main.c:504) may fail, and is the only one that does. The strengthening is
  `OneAtATime`: an alarm and a running steering exclude each other, and the signals
  that begin or end commissioning find the stack idle. The first hypothesis is needed:
  `coord_dark` is the run without it. So is the second, for the press described above.
  `ReopenOneAlarm` and `ReopenLed` state the parts.
* `DevelopmentKeyHeld`: `DevKeyWhenOpen`, whatever is pressed or held and however impatient
  the operator, if in some byte the built-in key's address differs from zero and from every
  address the operator types (an `ic_add` for that very address would replace the key, as
  asked). The invariant `DevInv` follows the key from the signals that register it to the
  steering that needs it, through both kinds of factory reset and a restart, and with it that
  byte of `params`: it is zero or of some line, whatever is torn, so that no `ic_add`
  is for the built-in address. Without `Development` it holds vacuously.
* `KeysCorrect`: for an operator who waits, `Safe => []KeysAsAsked`, by
  `OneCommand`: one command is under way at a time, so nobody writes
  `g_ic_add_params` between its schedule and its callback. `coord_torn` shows the
  hypothesis is needed.
* `Refinement`: under the same hypothesis, `Safe => KR!Spec`: each step asks,
  registers what was asked, erases, or leaves the registry alone.

`EndDeviceProofs`:

* `Conservation`: `Safe => [](TypeOK /\ BuffersConserved)`, inductive together: the
  sum is what bounds each part.
* `NetworkFlag`: `FlagExact`, `NoReportBeforeJoin` and `JoinsWhenTold`, each with the
  strengthening it needs: before the stack has started the device is on no network;
  it has credentials only if it was enrolled, and a retry only if it was told. `TypeCorrect`,
  `NoEarlyReport` and `JoinsOnlyWhenTold` state the parts. What the last says of the retry is
  the most that holds: it steers a device whose network is gone.
* `CodeAsTyped`: a production sensor's stack holds only a code that was typed. For an
  operator who waits it follows as `KeysCorrect` does: one line is under way at a time.

`LightSwitchProofs`:

* `LongPollNeverStale`: `Safe => [](TypeOK /\ BuffersConserved /\ LongPollBacked)`,
  inductive together.
* `ShortPressesCount`: `Safe => []ShortPressSends`, by `OnePress`: without an overlap
  of buttons, and while there is a bulb, `long_poll` is set only from an expiry of the
  alarm of the button held to the end of the handler that sees it released. After a LEAVE
  with reset `long_poll` may outlive its press, which is why `known` is in it.
* `TypeCorrect` and `SwitchBuffers` state the parts of `LongPollNeverStale`.

`IdentifyProofs`:

* `IdentifyEnds`: `BlinkingStops` by the inductive `Balance`, a count of the toggles, in the
  queue or as alarms, against the mode and the ends of it that were missed: a start adds one
  with the mode, an end takes one with it unless it is missed, a toggle that runs makes
  itself an alarm. No order of the events is assumed.
* `LedIsRestored`: from it. Without a missed end no toggle is under way once the mode is over,
  and the end itself has set the LED.

`SamplingProofs`:

* `RtcNeverSilent`, `RtcNeverEarly`: by one invariant of the timer, which relates the
  counter, the pending event and `since` in each phase of the interrupt: while nothing is
  pending the counter is short of the compare value, once cleared it is no more than the
  lateness. This is where lateness below a period is used: were it not, the counter could
  pass the compare value before it is cleared.
* `BmpCalibrationComplete`, `BmpFreshReading`: by an invariant of the driver in which, during the
  sleep, what remains of the conversion is no more than what remains of the sleep.
* `SamplingImplements`: each step of the composition is a step of the timer or of the
  driver and leaves the other alone, whence `SamplingCorrect`.

`TelemetryProofs`:

* `PrintReadsBack`: for every integer, by the properties of C's division and remainder.
* `LogIsMeasured`: by an invariant that every frame in the air, and the attribute, carry
  what was measured.
* `ReportsOnOneScale`: the compensation is monotone in the reading, rounding and both
  truncations included, and the two copies agree, so that reports of the two devices can be
  compared whatever their order.
* `ReportsAreAccepted`: by an invariant that every frame in the air is one of those the two
  programs make, whose endpoint, cluster, attribute, type and role are those declared by all
  three. The switch's level commands, for a cluster the coordinator does not have, are excepted.

`InstallCodeProofs`:

* `ChecksumCatchesBursts`: eight shifts are injective and linear, and take a high byte to
  itself. If two arrays differ in bytes j and j + 1 only, the states before are the same and
  the states after are too, the steps being injective; the difference of the two first bytes
  must then be that of the second shifted up by eight, which no byte is.
* `CopiedLinesPairDevices`: the digits of a line stand for its bytes, the parsers undo the
  order in which the sensor prints the address, and a code carries its checksum. The
  invariant says of a program whose last line was as printed what it parsed and, once its
  callback has run, holds; earlier lines, with slips too, do not matter, nor do prints of
  other starts. The two lines must be of one print.
* `NoOtherKeyIsTaken`: a valid code leads the checksum to one `Residue`, whatever its key, so
  that two valid codes cannot differ in one byte or two neighbours; a replaced or swapped
  character changes no more, and without one of its characters the line is too short. The
  invariant says that what is parsed and not yet taken is a printed code or invalid.
  A doubled character is left out, because there the property fails for some keys (above).

`UnitTestProofs`:

* `PayloadRoundTrip`: for every payload, by the arithmetic of bytes.
* `AssertionsDecide`: each family of assertions fails exactly when what it claims does not
  hold, for all numbers, arrays, strings and blocks, by the arithmetic of conversions: the
  code compares after a cast, subtracts in the widest type, and stops at the first element
  that differs.
* `VerdictsAreExact`: the counters are those of the tests that have ended, and the verdict
  of the running one is its `Outlook`, which no call changes: what its flags say, or, while
  none is set, what the calls still to be made come to. `WrittenTests` says that tests are
  written with the assertions. There are fewer than 256 of them because the shell keeps a
  byte of the exit status: 256 failures end as a success.
* `EveryTestIsTornDown`, a part of `VerdictExact`, for any tests: the calls of `tearDown`
  fall behind the tests by the one that is in its body.
* `MessagesTellApart`: what is reported is a call that failed, and a failed call shows texts
  that differ. The digits of a number determine it, and those that are printed are enough:
  256^n is at most 1000^n. The mask differs in a bit it shows. No escape begins another once
  backslashes are excluded, so that the first character that differs shows. An array or a
  block shows its first fault, whose two values differ as loaded. The printed string is the
  last of a chain of texts, each the start of the next.
* `PayloadTestPasses`: from the round trip, since an assertion of equal numbers does not fail.

Model-checked only: liveness (out of the prover's reach, as is `ENABLED`);
`OnlyThePrintedKey` for a doubled character; and all that the violations show.

## 6. What is not modelled

Logging and the wording of answers, but for temperatures and Install Codes; the radio; the
inside of ZBOSS, in particular what a call from a thread other than its own may do to its
memory; the assembly of lines from characters by the UART threads. In the light switch:
the search for a bulb (main.c:532-619), which is compiled in and never started, the
start-up loop that sets the TX power, and the address a command is sent to.

In the drivers: the calls nobody makes (stopping a counter, reading it, disabling an
interrupt, rejecting a timer or channel no caller passes) and `my_nrf52_timer.c`, whose TIMER1
`main()` starts and nothing uses. Overflow of the compensation's product wraps in
`Scaled`, as the build does; no reading of the sensor's range reaches it. In Unity: floats
and doubles, the detail stack, `UnityPrintF`, the caller's messages, the command line
options and most configuration macros, which no test of the project uses.

What the SDK does with user input at the sensor's button, but for the reset. The bring-up program reads a sensor once
and stops. The flashing script and the tests on hardware keep no state worth a model.
