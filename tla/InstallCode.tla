------------------------------ MODULE InstallCode ------------------------------
(***************************************************************************)
(* An Install Code on its way from the sensor that makes it to the two     *)
(* consoles: the sensor prints its address and 16 random bytes with their  *)
(* CRC-16/X-25; an operator types both on the coordinator (ic_add) and on  *)
(* the sensor (ic_set), with at most one slip; the two parse_uart_command  *)
(* turn the characters into bytes again and hand them to the stack, which  *)
(* takes a code only with the right CRC.                                   *)
(*                                                                         *)
(* A word is the set of its bits that are 1, so that & is intersection, |  *)
(* union and ^ the symmetric difference.  A character is a word of four    *)
(* bits, the value of a hexadecimal digit, or Space or Other.  When        *)
(* commands run, and what else they do, is in Coordinator and EndDevice.   *)
(***************************************************************************)
EXTENDS SequencesExt, Integers

CONSTANTS Self,       \* the address of the sensor, eight bytes, as the stack holds it
          Keys,       \* what sys_rand_get may return, sixteen bytes
          Kinds,      \* the kinds of slip the operator makes
          Typos       \* the characters typed by mistake

Word  == SUBSET (0..15)
Byte  == SUBSET (0..7)
Digit == SUBSET (0..3)
Space == {4}
Other == {5}
Characters == Digit \union {Space, Other}

\* The sequences of n elements of S: an array of the code.
Strings(S, n) == {s \in Seq(S) : Len(s) = n}

SlipKinds == {"another", "left_out", "doubled", "swapped"}

ASSUME IcAssumption ==
    /\ Self \in Strings(Byte, 8)
    /\ Keys \subseteq Strings(Byte, 16)
    /\ Kinds \subseteq SlipKinds
    /\ Typos \subseteq Characters

VARIABLES printed,    \* the arguments of the lines the sensor printed, at one start or another
          slipped,    \* the operator's slip has been made
          params,     \* g_ic_add_params and g_ic_set_params; NoPair until parsed
          called,     \* the programs whose callback is in the queue
          held,       \* the pair the stack of each program took
          said,       \* what each program answered last
          copied      \* history: a program's last line, if it was as printed, or <<>>

icVars == <<printed, slipped, params, called, held, said, copied>>

Programs == {"coordinator", "sensor"}
NoPair == [addr |-> <<>>, ic |-> <<>>]

IcInit ==
    /\ printed = {} /\ slipped = FALSE
    /\ params = [p \in Programs |-> NoPair]
    /\ called = {}
    /\ held = [p \in Programs |-> NoPair]
    /\ said = [p \in Programs |-> "nothing"]
    /\ copied = [p \in Programs |-> <<>>]

--------------------------------------------------------------------------------

\* C's w >> n and w << n.
Right(w, n) == {b - n : b \in {i \in w : i >= n}}
Left(w, n) == {b + n : b \in w}

\* Mutant: the polynomial is left out.
ShiftOnly(crc) == Right(crc, 1)

\* ic_crc16_x25: a bit, with 0x8408, the eight bits of a byte, the bytes.
Shift(crc) == IF 0 \in crc THEN SymDiff(Right(crc, 1), {3, 10, 15}) ELSE Right(crc, 1)
Shifted[crc \in Word] ==
    LET shifted[b \in 0..8] == IF b = 0 THEN crc ELSE Shift(shifted[b - 1])
    IN  shifted[8]
Crc16(data) ==
    LET crc[i \in 0..Len(data)] ==
            IF i = 0 THEN 0..15 ELSE Shifted[SymDiff(crc[i - 1], data[i])]
    IN  SymDiff(crc[Len(data)], 0..15)

LowByte(w) == w \intersect 0..7
HighByte(w) == Right(w, 8)

\* Mutant: the high byte first.
CodeBigEndian(key) == key \o <<HighByte(Crc16(key)), LowByte(Crc16(key))>>

\* The code made of a key: the low byte of the CRC comes first.
CodeOf(key) == key \o <<LowByte(Crc16(key)), HighByte(Crc16(key))>>

\* "%02x" of each byte.
Hex(bytes) ==
    [i \in 1..(2 * Len(bytes)) |->
        IF i % 2 = 1 THEN Right(bytes[(i + 1) \div 2], 4) ELSE bytes[i \div 2] \intersect 0..3]

\* hex_char_to_val: what is no digit counts as 0.
HexCharToVal(c) == IF c \in Digit THEN c ELSE {}
HexPairToByte(args, i) == Left(HexCharToVal(args[i]), 4) \union HexCharToVal(args[i + 1])

\* What follows "ic_add " and "ic_set ": the address, big end first, and the code.
Arguments(addr, ic) == Hex(Reverse(addr)) \o <<Space>> \o Hex(ic)

Malformed(args) == args[17] # Space \/ Len(args) < 53
Parse(args) ==
    [addr |-> Reverse([i \in 1..8 |-> HexPairToByte(args, 2 * i - 1)]),
     ic   |-> [i \in 1..18 |-> HexPairToByte(args, 16 + 2 * i)]]

\* The stack: zb_secur_ic_add and zb_secur_ic_set take a code with the right CRC.
Valid(ic) == ic[17] \union Left(ic[18], 8) = Crc16(SubSeq(ic, 1, 16))

--------------------------------------------------------------------------------

\* print_production_pairing_commands, at every first start: at each boot of a sensor that
\* has no network, for the first time or after a reset, a new code.  The boot has cleared
\* the sensor's memory; the code set before it may be in the flash still.  What the
\* coordinator was told, and the lines on the screen, stay.
PrintProductionPairingCommands ==
    /\ \E key \in Keys : printed' = printed \union {Arguments(Self, CodeOf(key))}
    /\ params' = [params EXCEPT !["sensor"] = NoPair]
    /\ called' = called \ {"sensor"}
    /\ \E kept \in {held["sensor"], NoPair} : held' = [held EXCEPT !["sensor"] = kept]
    /\ said' = [said EXCEPT !["sensor"] = "nothing"]
    /\ copied' = [copied EXCEPT !["sensor"] = <<>>]
    /\ UNCHANGED slipped

\* The slips of an operator: another character, one left out, one doubled, two swapped.
Slip(args) ==
    LET n == Len(args)
    IN  [another  |-> {ReplaceAt(args, i, c) : i \in 1..n, c \in Typos},
         left_out |-> {RemoveAt(args, i) : i \in 1..n},
         doubled  |-> {InsertAt(args, i, args[i]) : i \in 1..n},
         swapped  |-> {[args EXCEPT ![i] = args[i + 1], ![i + 1] = args[i]] : i \in 1..(n - 1)}]
Slips(args) == UNION {Slip(args)[kind] : kind \in Kinds}

\* A line is typed, and parse_uart_command takes it apart on the UART thread.
LineTyped(p, args) ==
    /\ p \notin called
    /\ copied' = [copied EXCEPT ![p] = IF args \in printed THEN args ELSE <<>>]
    /\ IF Malformed(args)
         THEN said' = [said EXCEPT ![p] = "invalid format"] /\ UNCHANGED <<params, called>>
         ELSE /\ params' = [params EXCEPT ![p] = Parse(args)]
              /\ called' = called \union {p}
              /\ UNCHANGED said
    /\ UNCHANGED <<printed, held>>

\* The operator types any line the sensor ever printed on either console.
OperatorTypes ==
    \E p \in Programs, line \in printed :
        \/ LineTyped(p, line) /\ UNCHANGED slipped
        \/ /\ ~slipped /\ slipped' = TRUE
           /\ \E args \in Slips(line) : LineTyped(p, args)

\* ic_add_callback: the stack is given no callback, so that the answer is the same
\* whatever it thinks of the code.
IcAddCallback ==
    /\ "coordinator" \in called /\ called' = called \ {"coordinator"}
    /\ held' = IF Valid(params["coordinator"].ic)
                 THEN [held EXCEPT !["coordinator"] = params["coordinator"]] ELSE held
    /\ said' = [said EXCEPT !["coordinator"] = "ic_add_success"]
    /\ UNCHANGED <<printed, slipped, params, copied>>

\* ic_set_callback: the address is not looked at.
IcSetCallback ==
    /\ "sensor" \in called /\ called' = called \ {"sensor"}
    /\ LET set == Valid(params["sensor"].ic)
       IN  /\ held' = IF set THEN [held EXCEPT !["sensor"] = params["sensor"]] ELSE held
           /\ said' = [said EXCEPT !["sensor"] = IF set THEN "ic_set_success"
                                                        ELSE "ic_set_failed"]
    /\ UNCHANGED <<printed, slipped, params, copied>>

IcNext ==
    \/ PrintProductionPairingCommands \/ OperatorTypes
    \/ IcAddCallback \/ IcSetCallback

IcSpec == IcInit /\ [][IcNext]_icVars

--------------------------------------------------------------------------------

\* No slip gives either side another key than the sensor made at one of its starts: though
\* the parsers take anything for a digit and ignore what follows the code, a code the stack
\* takes is one of those printed.  A doubled character moves all that follow it; at a given
\* place the checksum misses that for one key in some 65536.
OnlyThePrintedKey ==
    \A p \in Programs :
        held[p] # NoPair => \E line \in printed : Hex(held[p].ic) = SubSeq(line, 18, 53)

\* Two lines of the same print, copied as they were, pair the two devices, however often the
\* sensor started and printed other codes in between: both sides hold the same code, and
\* the coordinator holds it for the address of the sensor.
CopiedLinesPair ==
    /\ copied["sensor"] # <<>> /\ copied["coordinator"] = copied["sensor"]
    /\ called = {}
    => /\ held["coordinator"].addr = Self
       /\ held["coordinator"].ic = held["sensor"].ic
       /\ said["sensor"] = "ic_set_success"
================================================================================
