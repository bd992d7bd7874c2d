------------------------------- MODULE Frame --------------------------------
(***************************************************************************)
(* The frames of src/iracc/modbus.c byte by byte: modbus_send appends the  *)
(* CRC of src/iracc/crc16.h to a request, modbus_recv runs it over all the *)
(* bytes that the reader collected and takes a residue of 0 for a whole    *)
(* frame.  On the way the line may damage up to two bytes that follow each *)
(* other, and two frames may reach the reader without a silence between    *)
(* them.  Modbus.tla calls the outcome of both a garbled frame.            *)
(*                                                                         *)
(* A word is the set of its bits that are 1, and so is a byte.             *)
(***************************************************************************)
EXTENDS Integers

CONSTANTS
    Bytes,     \* the bytes that a message is made of
    Errors,    \* the patterns that damage a byte
    MaxLen     \* bound: bytes of a message

Word == SUBSET (0..15)
Byte == SUBSET (0..7)

ASSUME FrameAssumption ==
    /\ Bytes \subseteq Byte
    /\ Errors \subseteq Byte \ {{}}
    /\ MaxLen \in Nat

Xor(a, b) == (a \ b) \cup (b \ a)

\* crc >> 1
Shift(w) == {b - 1 : b \in w \ {0}}

Poly == {0, 13, 15}    \* 0xA001

\* Mutant: without the polynomial.
Step_ShiftsOnly(w) == Shift(w)

Step(w) == IF 0 \in w THEN Xor(Shift(w), Poly) ELSE Shift(w)

Step8(w) == Step(Step(Step(Step(Step(Step(Step(Step(w))))))))

\* crc16_modbus_update
Update(a, crc) == Step8(Xor(crc, a))

\* Mutant: from 0.
InitialCrc_Zero == {}

InitialCrc == 0..15    \* 0xFFFF

Low(w) == w \cap 0..7
High(w) == {b - 8 : b \in w \ 0..7}

VARIABLES
    phase,    \* "body", "low" (the first byte of the CRC is out) or "end"
    len,      \* bytes of the message so far
    tx,       \* the CRC of what was sent of the message
    rx,       \* the CRC of what was received since the reader was flushed
    damage,   \* "none", "open" (the byte before is the first damaged one), "over"
    merged    \* a second frame follows in the same buffer

vars == <<phase, len, tx, rx, damage, merged>>

Init ==
    /\ phase = "body" /\ len = 0
    /\ tx = InitialCrc /\ rx = InitialCrc
    /\ damage = "none" /\ merged = FALSE

\* A byte on the line.  The second damaged byte is the one after the first.
Transmit(byte) ==
    \/ /\ rx' = Update(byte, rx)
       /\ damage' = IF damage = "open" THEN "over" ELSE damage
    \/ /\ \/ damage = "none" /\ ~merged /\ damage' = "open"
          \/ damage = "open" /\ damage' = "over"
       /\ \E e \in Errors : rx' = Update(Xor(byte, e), rx)

SendByte ==
    /\ phase = "body" /\ len < MaxLen
    /\ \E b \in Bytes : tx' = Update(b, tx) /\ Transmit(b)
    /\ len' = len + 1
    /\ UNCHANGED <<phase, merged>>

\* Mutant: the two bytes are not swapped.
First_High(w) == High(w)

\* htons swaps the bytes of the CRC: its low byte goes first.
First(w) == Low(w)

\* No frame is shorter than an address, a code and the CRC.
SendLow ==
    /\ phase = "body" /\ len >= 2
    /\ phase' = "low"
    /\ Transmit(First(tx))
    /\ UNCHANGED <<len, tx, merged>>

Second(w) == High(w)

SendHigh ==
    /\ phase = "low"
    /\ phase' = "end"
    /\ Transmit(Second(tx))
    /\ UNCHANGED <<len, tx, merged>>

\* A second frame before the reader noticed a silence.
NextFrame ==
    /\ phase = "end" /\ damage = "none" /\ ~merged
    /\ merged' = TRUE
    /\ phase' = "body" /\ len' = 0 /\ tx' = InitialCrc
    /\ UNCHANGED <<rx, damage>>

\* The reader is flushed: modbus_recv decides.
Flush ==
    /\ phase = "end"
    /\ phase' = "body" /\ len' = 0
    /\ tx' = InitialCrc /\ rx' = InitialCrc
    /\ damage' = "none" /\ merged' = FALSE

Next == SendByte \/ SendLow \/ SendHigh \/ NextFrame \/ Flush

Spec == Init /\ [][Next]_vars

\* modbus_recv: at least 4 bytes, and the CRC of all of them.
Accepted == len + 2 >= 4 /\ rx = {}

-----------------------------------------------------------------------------
(* Properties *)

TypeOK ==
    /\ phase \in {"body", "low", "end"}
    /\ len \in 0..MaxLen
    /\ tx \in Word /\ rx \in Word
    /\ damage \in {"none", "open", "over"}
    /\ merged \in BOOLEAN

\* A frame that arrives as it was sent is accepted: sender and receiver agree on
\* the order of the CRC's bytes, on any message.
WholeAccepted == phase = "end" /\ damage = "none" /\ ~merged => Accepted

\* A frame with one or two damaged neighbouring bytes, in the message or in the
\* CRC, is never taken for a whole one.
DamagedRejected == phase = "end" /\ damage # "none" => ~Accepted

\* Nor are two whole frames in one buffer, as after an answer that was late.
MergedRejected == phase = "end" /\ merged => ~Accepted
=============================================================================
