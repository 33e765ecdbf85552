---------------------------- MODULE MCInstallCode ----------------------------
(* Small instances of InstallCode for TLC. *)
EXTENDS InstallCode

\* The bytes with these values.
Bytes(values) ==
    [i \in 1..Len(values) |-> {b \in 0..7 : (values[i] \div 2 ^ b) % 2 = 1}]

\* f4ce369e3312a7ec, the last byte first.
MCSelf == Bytes(<<236, 167, 18, 51, 158, 54, 206, 244>>)

\* The development key, and the key of the guide's example.
MCKeys ==
    {Bytes(<<255, 238, 221, 204, 187, 170, 153, 136, 119, 102, 85, 68, 51, 34, 17, 0>>),
     Bytes(<<157, 34, 71, 97, 79, 200, 55, 18, 248, 145, 71, 251, 95, 18, 152, 189>>)}
\* What may be typed for another character: 0, 8, f, a space, and a character that is no digit.
MCTypos == {{}, {3}, 0..3, Space, Other}
================================================================================
