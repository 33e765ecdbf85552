----------------------------- MODULE MCCoordinator -----------------------------
(* Small instances of Coordinator for TLC. *)
EXTENDS Coordinator

\* Two devices to pair, which differ in every byte of address and Install Code, so
\* that any mixture of the two shows.  The built-in pair is that of the first.
AddrOf(b) == [i \in 1..AddrBytes |-> b]
CodeOf(b) == [i \in 1..CodeBytes |-> b]
MCPairs == {<<AddrOf(b), CodeOf(b)>> : b \in {1, 2}}
MCDevAddr == AddrOf(1)
MCDevCode == CodeOf(1)
================================================================================
