----------------------------- MODULE MCTelemetry -----------------------------
(* Small instances of Telemetry for TLC. *)
EXTENDS Telemetry

\* The words of the datasheet's example, and raw values from -40.0 to 85.0 degrees.
MCCalib == [ac5 |-> 32757, ac6 |-> 23153, mc |-> -8711, md |-> 2868]
MCRaws == {23089, 25829, 26155, 26170, 26190, 26210, 27898, 27899, 27908, 37770}
================================================================================
