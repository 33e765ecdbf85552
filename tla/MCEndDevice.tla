------------------------------ MODULE MCEndDevice ------------------------------
(* Small instances of EndDevice for TLC. *)
EXTENDS EndDevice

\* Two Install Codes and one whose checksum is wrong, which differ in every byte;
\* the first is the built-in one.
CodeOf(b) == [i \in 1..CodeBytes |-> b]
MCLines == {CodeOf(b) : b \in {1, 2, 3}}
MCValidCodes == {CodeOf(1), CodeOf(2)}
MCDevCode == CodeOf(1)
================================================================================
