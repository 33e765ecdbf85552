------------------------------ MODULE MCSampling ------------------------------
(* Small instances of Sampling for TLC. *)
EXTENDS Sampling

\* The words of the datasheet's example, and raw values from -40.0 to 85.0 degrees.
MCCalib == [ac5 |-> 32757, ac6 |-> 23153, mc |-> -8711, md |-> 2868]
MCReadings == {23089, 25829, 37770}
================================================================================
