------------------------------- MODULE MCIdentify -------------------------------
(* Small instances of Identify for TLC. *)
EXTENDS Identify
================================================================================
