----------------------------- MODULE PayloadParser -----------------------------
(***************************************************************************)
(* The four bytes of a SensorPayload_t: the node, the temperature with its *)
(* high byte first, and the battery level.                                 *)
(***************************************************************************)
EXTENDS Integers, Sequences

Byte  == 0..255
S16   == {v \in Int : -32768 <= v /\ v <= 32767}
SensorPayload == [node_id : Byte, temperature : S16, battery_level : Byte]

\* Mutant: the low byte of the temperature first.
SerializeLittle(p) ==
    <<p.node_id, p.temperature % 256, (p.temperature \div 256) % 256, p.battery_level>>

\* >> of a negative int is arithmetic in the build, as \div is.
Serialize(p) ==
    <<p.node_id, (p.temperature \div 256) % 256, p.temperature % 256, p.battery_level>>

\* The conversion of an int to int16_t wraps in the build.
ToS16(v) == IF v > 32767 THEN v - 65536 ELSE v
Deserialize(b) ==
    [node_id |-> b[1], temperature |-> ToS16(256 * b[2] + b[3]), battery_level |-> b[4]]
================================================================================
