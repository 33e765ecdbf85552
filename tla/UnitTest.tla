-------------------------------- MODULE UnitTest --------------------------------
(***************************************************************************)
(* tests/test_payload_parser.c: the test of the payload parser, run by     *)
(* Unity among other tests; setUp and tearDown are empty there.            *)
(***************************************************************************)
EXTENDS Unity, PayloadParser

CONSTANT Payloads  \* the inputs of the test

ASSUME UnitTestConstants == Payloads \subseteq SensorPayload

Uint8Style == Style("uint", 1, 1)
Int16Style == Style("int", 2, 2)

\* test_serialization_deserialization_logic, for any input.
SerializationTest(input) ==
    LET output == Deserialize(Serialize(input))
    IN  [body |-> <<AssertEqual(Uint8Style, input.node_id, output.node_id),
                    AssertEqual(Int16Style, input.temperature, output.temperature),
                    AssertEqual(Uint8Style, input.battery_level, output.battery_level)>>,
         teardown |-> <<>>]

\* The test passes for every payload, and not only for the one that it holds: each value
\* comes back, and is compared in its own type.
PayloadComesBack ==
    phase = "teardown" => \A p \in Payloads : test = SerializationTest(p) => ~Unity.failed
================================================================================
