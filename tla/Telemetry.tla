------------------------------- MODULE Telemetry -------------------------------
(***************************************************************************)
(* What the devices tell the coordinator: the sensor and the light switch  *)
(* write the temperature attribute of its endpoint 10, the light switch    *)
(* sends it On, Off and Step commands, and any node may write its location *)
(* description.  A frame may be lost or overtaken; the stack of the        *)
(* coordinator gives the application what its endpoint declares and drops  *)
(* the rest.  When a report is made is in EndDevice and LightSwitch.       *)
(***************************************************************************)
EXTENDS Bmp180Math, FiniteSets

CONSTANTS Calib,      \* the calibration of the sensors, both of the same kind
          Raws,       \* raw readings within the sensor's range
          Lengths,    \* length bytes of a location description
          MaxAir      \* bound: frames in the air

VARIABLES air,        \* the frames sent and not delivered
          attr,       \* the attributes of the coordinator's endpoint
          logged      \* the last temperature the coordinator logged, and its frame

Measured(raw) == ComputeTemperature(raw, Calib).temp

\* A sensor within its range: ac5 and ac6 are unsigned words and mc is negative, as in the
\* datasheet; the products fit an int32_t, no divisor is 0, and a reading in tenths of a
\* degree fits an int16_t, as it does between -3276.8 and 3276.7 degrees.
ASSUME TelAssumption ==
    /\ Calib.ac5 \in Nat /\ Calib.ac6 \in Nat /\ Calib.md \in Int
    /\ Calib.mc \in Int /\ Calib.mc <= 0
    /\ \A raw \in Raws :
         /\ raw \in Int
         /\ Fits(raw - Calib.ac6, Calib.ac5)
         /\ Scaled(raw - Calib.ac6, Calib.ac5) + Calib.md > 0
         /\ Measured(raw) \in Int /\ -32768 <= Measured(raw) /\ Measured(raw) <= 32767

telVars == <<air, attr, logged>>

--------------------------------------------------------------------------------
(* The endpoints as the three programs declare them. *)

CoordinatorEndpoint ==
    [id |-> 10, server |-> {"basic", "identify", "on_off", "temp"}, client |-> {}]
SensorEndpoint ==
    [id |-> 1, server |-> {"basic", "identify"}, client |-> {"identify", "temp"}]
SwitchEndpoint ==
    [id |-> 1, server |-> {"basic", "identify"},
     client |-> {"identify", "scenes", "groups", "on_off", "level", "temp"}]

Endpoint == [coordinator |-> CoordinatorEndpoint,
             sensor      |-> SensorEndpoint,
             switch      |-> SwitchEndpoint]

\* What may be written with its type, and what the attributes are at boot.  The limits
\* declared beside the temperature are compared with nothing in src/.
Writable == {<<"temp", "value:S16">>, <<"basic", "location:string">>}
AppClustersAttrInit == [on_off |-> 0, temp |-> 0, location |-> 0]

NothingLogged == [print |-> LogTemperature(0), raw |-> 0]

TelInit == air = {} /\ attr = AppClustersAttrInit /\ logged = NothingLogged

--------------------------------------------------------------------------------
(* The devices. *)

\* A write request of an attribute, or a command; raw, which is not in the frame, says
\* what was measured.
Frame(from, ep, cluster, attribute, value, raw) ==
    [from |-> from, ep |-> ep, cluster |-> cluster, attribute |-> attribute,
     value |-> value, raw |-> raw]
Send(f) ==
    /\ Cardinality(air) < MaxAir
    /\ air' = air \union {f}
    /\ UNCHANGED <<attr, logged>>

Report(from, r, raw) ==
    /\ r.err = "ok"
    /\ Send(Frame(from, 10, "temp", "value:S16", Int16(r.temp), raw))

\* send_temperature_cb of the sensor; without a temperature nothing is sent.
SensorReports == \E raw \in Raws : Report("sensor", ComputeTemperature(raw, Calib), raw)

\* Mutant: the report goes to the endpoint that the switch itself has.
ReportsToOwnEndpoint ==
    \E raw \in Raws :
        /\ SwitchTemperature(raw, Calib).err = "ok"
        /\ Send(Frame("switch", 1, "temp", "value:S16",
                      Int16(SwitchTemperature(raw, Calib).temp), raw))

\* send_temperature_cb of the light switch.
SwitchReports == \E raw \in Raws : Report("switch", SwitchTemperature(raw, Calib), raw)

\* light_switch_send_on_off and light_switch_send_step, to the static address.
SwitchCommands ==
    \/ \E cmd \in {0, 1} : Send(Frame("switch", 10, "on_off", "command", cmd, 0))
    \/ \E dir \in {0, 1} : Send(Frame("switch", 10, "level", "command", dir, 0))

\* Any node of the network; nothing in src/ does.
LocationWritten ==
    \E n \in Lengths :
        Send(Frame("sensor", 10, "basic", "location:string", n, 0))

--------------------------------------------------------------------------------
(* The coordinator. *)

\* What the stack delivers: a cluster of the endpoint, and an attribute that may be written.
Accepts(f) ==
    /\ f.ep = Endpoint.coordinator.id
    /\ f.cluster \in Endpoint.coordinator.server
    /\ f.attribute = "command" \/ <<f.cluster, f.attribute>> \in Writable

\* A write: modify_attr_value_callback and zcl_device_cb print the same value.
TempArrives(f) ==
    /\ f.cluster = "temp"
    /\ attr' = [attr EXCEPT !.temp = f.value]
    /\ logged' = [print |-> LogTemperature(f.value), raw |-> f.raw]

\* A location: up to 32 characters are copied to the buffer and logged.
LocationArrives(f) ==
    /\ f.cluster = "basic"
    /\ attr' = [attr EXCEPT !.location = IF f.value > 32 THEN 32 ELSE f.value]
    /\ UNCHANGED logged

\* zcl_device_cb for an On or an Off.
OnOffArrives(f) ==
    /\ f.cluster = "on_off"
    /\ attr' = [attr EXCEPT !.on_off = f.value]
    /\ UNCHANGED logged

\* The stack delivers a frame, and may deliver it again if its acknowledgement was lost.
Arrives ==
    \E f \in air :
        /\ Accepts(f)
        /\ TempArrives(f) \/ LocationArrives(f) \/ OnOffArrives(f)
        /\ air' \in {air, air \ {f}}

\* The frame is lost, or the stack has no use for it.
Dropped == \E f \in air : air' = air \ {f} /\ UNCHANGED <<attr, logged>>

\* The attributes are in RAM.
CoordinatorRestarts == attr' = AppClustersAttrInit /\ logged' = NothingLogged /\ UNCHANGED air

TelNext ==
    \/ SensorReports \/ SwitchReports \/ SwitchCommands \/ LocationWritten
    \/ Arrives \/ Dropped \/ CoordinatorRestarts

TelSpec == TelInit /\ [][TelNext]_telVars

--------------------------------------------------------------------------------

Reports == {f \in air : f.cluster = "temp"}

\* Three programs agree on what no compiler compares: each report, and each On or Off,
\* goes to a cluster of the endpoint it names that takes it, a write with the type it is
\* declared with, and its sender has declared that it is a client of that cluster.
ReportsAccepted ==
    \A f \in air :
        f.cluster \in {"temp", "on_off"} =>
            Accepts(f) /\ f.cluster \in Endpoint[f.from].client

\* Both devices report on one scale: a warmer reading is never reported as the colder
\* one, whichever copy of the compensation made the two reports.
OneScale == \A f, g \in Reports : f.raw <= g.raw => f.value <= g.value

\* What the coordinator logs reads as the temperature measured, whatever frames were
\* lost or overtaken, but for the sign of -0.9 to -0.1 degrees, which "%d.%d" drops.
LoggedIsMeasured ==
    logged.raw # 0 =>
        LET t == Measured(logged.raw)
        IN  ReadBack(logged.print) = {IF t \in -9..-1 THEN -t ELSE t}
================================================================================
