------------------------------ MODULE KeyRegistry ------------------------------
(***************************************************************************)
(* What the coordinator promises the operator about Install Codes: the     *)
(* trust centre holds, for a device, a code that was requested for that    *)
(* very device, or none.  Requests arrive at any time; each may be         *)
(* registered, at any later moment, whole; a factory reset forgets all.    *)
(***************************************************************************)

CONSTANTS Addrs,    \* IEEE addresses of the devices
          Codes,    \* Install Codes
          NoCode,   \* "no code registered"
          Built     \* the requests compiled into the firmware

VARIABLES asked,    \* the requests made so far, pairs <<address, code>>
          keys      \* the code registered for each address, or NoCode

registryVars == <<asked, keys>>

Empty == [a \in Addrs |-> NoCode]

Init == asked = Built /\ keys = Empty

Ask(p) ==
    /\ asked' = asked \union {p}
    /\ UNCHANGED keys

Register(p) ==
    /\ p \in asked
    /\ keys' = [keys EXCEPT ![p[1]] = p[2]]
    /\ UNCHANGED asked

Erase ==
    /\ keys' = Empty
    /\ UNCHANGED asked

Next == Erase \/ \E p \in Addrs \X Codes : Ask(p) \/ Register(p)

Spec == Init /\ [][Next]_registryVars
================================================================================
