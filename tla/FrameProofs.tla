---------------------------- MODULE FrameProofs -----------------------------
(***************************************************************************)
(* What the CRC of Frame is worth, for all messages and error patterns.    *)
(* The proof follows the difference between the receiver's CRC and the one *)
(* that an undamaged frame would give: a byte that arrives shifts it       *)
(* through the register, which never turns a difference into none.         *)
(***************************************************************************)
EXTENDS Frame, TLAPS

USE DEF Word, Byte

-----------------------------------------------------------------------------
(* The exclusive or *)

LEMMA XorType == \A a, b \in Word : Xor(a, b) \in Word
  BY DEF Xor

LEMMA XorByte == \A a, b \in Byte : Xor(a, b) \in Byte
  BY DEF Xor

LEMMA ByteIsWord == Byte \subseteq Word
  OBVIOUS

LEMMA XorEmpty == \A a, b \in Word : Xor(a, b) = {} <=> a = b
  BY DEF Xor

\* A byte that both sides see cancels out, an error stays.
LEMMA XorCancels == \A a, b, c : Xor(Xor(a, c), Xor(b, c)) = Xor(a, b)
  BY Zenon DEF Xor

LEMMA XorDamage == \A a, b, c, e : Xor(Xor(a, Xor(c, e)), Xor(b, c)) = Xor(Xor(a, b), e)
  <1> TAKE a, b, c, e
  <1>1. ASSUME NEW x
        PROVE  x \in Xor(Xor(a, Xor(c, e)), Xor(b, c)) <=> x \in Xor(Xor(a, b), e)
    <2>1. \A p, q : x \in Xor(p, q) <=> ~(x \in p <=> x \in q)
      BY Zenon DEF Xor
    <2> QED BY <2>1, SMT
  <1>2. \A x : x \in Xor(Xor(a, Xor(c, e)), Xor(b, c)) <=> x \in Xor(Xor(a, b), e)
    BY <1>1, Zenon
  <1> QED BY <1>2, SMT DEF Xor

-----------------------------------------------------------------------------
(* One bit *)

LEMMA InShift ==
  ASSUME NEW w \in Word, NEW x
  PROVE  x \in Shift(w) <=> x \in 0..14 /\ x + 1 \in w
  <1>1. ASSUME x \in Shift(w) PROVE x \in 0..14 /\ x + 1 \in w
    <2>1. PICK b \in w \ {0} : x = b - 1
      BY <1>1 DEF Shift
    <2>2. b \in 1..15
      BY <2>1
    <2> QED BY <2>1, <2>2
  <1>2. ASSUME x \in 0..14, x + 1 \in w PROVE x \in Shift(w)
    <2>1. x + 1 \in w \ {0} /\ x = (x + 1) - 1
      BY <1>2
    <2> QED BY <2>1 DEF Shift
  <1> QED BY <1>1, <1>2

LEMMA ShiftType == \A w \in Word : Shift(w) \in Word
  BY InShift

LEMMA StepType == \A w \in Word : Step(w) \in Word
  BY ShiftType, XorType DEF Step, Poly

LEMMA StepEmpty == Step({}) = {}
  BY DEF Step, Shift

\* The step loses nothing.
LEMMA StepNonEmpty ==
  ASSUME NEW w \in Word, w # {}
  PROVE  Step(w) # {}
  <1>1. CASE 0 \in w
    <2>1. 15 \in Poly /\ 15 \notin Shift(w)
      BY InShift DEF Poly
    <2> QED BY <1>1, <2>1 DEF Step, Xor
  <1>2. CASE 0 \notin w
    <2>1. PICK x : x \in w
      OBVIOUS
    <2>2. x - 1 \in 0..14 /\ (x - 1) + 1 = x
      <3>1. x \in 0..15 /\ x # 0
        BY <1>2, <2>1
      <3> QED BY <3>1
    <2>3. x - 1 \in Shift(w)
      BY <2>1, <2>2, InShift
    <2> QED BY <1>2, <2>3 DEF Step
  <1> QED BY <1>1, <1>2

LEMMA ShiftXor ==
  ASSUME NEW a \in Word, NEW b \in Word
  PROVE  Shift(Xor(a, b)) = Xor(Shift(a), Shift(b))
  <1>1. Xor(a, b) \in Word
    BY XorType
  <1>2. ASSUME NEW x
        PROVE  x \in Shift(Xor(a, b)) <=> x \in Xor(Shift(a), Shift(b))
    <2>1. /\ x \in Shift(a) <=> x \in 0..14 /\ x + 1 \in a
          /\ x \in Shift(b) <=> x \in 0..14 /\ x + 1 \in b
          /\ x \in Shift(Xor(a, b)) <=> x \in 0..14 /\ x + 1 \in Xor(a, b)
      BY <1>1, InShift
    <2> QED BY <2>1, Zenon DEF Xor
  <1> QED BY <1>2, Zenon

LEMMA StepXor ==
  ASSUME NEW a \in Word, NEW b \in Word
  PROVE  Step(Xor(a, b)) = Xor(Step(a), Step(b))
  <1>1. Shift(Xor(a, b)) = Xor(Shift(a), Shift(b))
    BY ShiftXor
  <1>2. 0 \in Xor(a, b) <=> ~(0 \in a <=> 0 \in b)
    BY DEF Xor
  <1>3. CASE 0 \in a /\ 0 \in b
    BY <1>1, <1>2, <1>3, XorCancels, Zenon DEF Step
  <1>4. CASE 0 \in a /\ 0 \notin b
    <2>1. Xor(Xor(Shift(a), Shift(b)), Poly) = Xor(Xor(Shift(a), Poly), Shift(b))
      BY Zenon DEF Xor
    <2> QED BY <1>1, <1>2, <1>4, <2>1, Zenon DEF Step
  <1>5. CASE 0 \notin a /\ 0 \in b
    <2>1. Xor(Xor(Shift(a), Shift(b)), Poly) = Xor(Shift(a), Xor(Shift(b), Poly))
      BY Zenon DEF Xor
    <2> QED BY <1>1, <1>2, <1>5, <2>1, Zenon DEF Step
  <1>6. CASE 0 \notin a /\ 0 \notin b
    BY <1>1, <1>2, <1>6, Zenon DEF Step
  <1> QED BY <1>3, <1>4, <1>5, <1>6, Zenon

-----------------------------------------------------------------------------
(* One byte *)

LEMMA Step8Type == \A w \in Word : Step8(w) \in Word
  BY StepType DEF Step8

LEMMA Step8Empty == Step8({}) = {}
  BY StepEmpty DEF Step8

LEMMA Step8NonEmpty == \A w \in Word : w # {} => Step8(w) # {}
  BY StepType, StepNonEmpty DEF Step8

LEMMA Step8Xor == \A a, b \in Word : Step8(Xor(a, b)) = Xor(Step8(a), Step8(b))
  BY StepType, StepXor DEF Step8

\* A byte in the upper half of the register comes down unchanged.
Up(e, k) == {b + k : b \in e}

LEMMA StepUp ==
  ASSUME NEW e \in Byte, NEW k \in 1..8
  PROVE  Step(Up(e, k)) = Up(e, k - 1)
  <1>1. Up(e, k) \in Word /\ 0 \notin Up(e, k)
    BY DEF Up
  <1>2. ASSUME NEW x PROVE x \in Shift(Up(e, k)) <=> x \in Up(e, k - 1)
    <2>1. ASSUME x \in Shift(Up(e, k)) PROVE x \in Up(e, k - 1)
      <3>1. x \in 0..14 /\ x + 1 \in Up(e, k)
        BY <1>1, <2>1, InShift
      <3>2. PICK b \in e : x + 1 = b + k
        BY <3>1 DEF Up
      <3>3. x = b + (k - 1)
        BY <3>1, <3>2
      <3> QED BY <3>3 DEF Up
    <2>2. ASSUME x \in Up(e, k - 1) PROVE x \in Shift(Up(e, k))
      <3>1. PICK b \in e : x = b + (k - 1)
        BY <2>2 DEF Up
      <3>2. x \in 0..14 /\ x + 1 = b + k
        BY <3>1
      <3>3. x + 1 \in Up(e, k)
        BY <3>2 DEF Up
      <3> QED BY <1>1, <3>2, <3>3, InShift
    <2> QED BY <2>1, <2>2
  <1>3. Shift(Up(e, k)) = Up(e, k - 1)
    BY <1>2, Zenon
  <1> QED BY <1>1, <1>3 DEF Step

LEMMA Step8Up ==
  ASSUME NEW e \in Byte
  PROVE  Up(e, 8) \in Word /\ Step8(Up(e, 8)) = e
  <1>1. Up(e, 8) \in Word
    BY DEF Up
  <1>2. /\ Step(Up(e, 8)) = Up(e, 7)
        /\ Step(Up(e, 7)) = Up(e, 6)
        /\ Step(Up(e, 6)) = Up(e, 5)
        /\ Step(Up(e, 5)) = Up(e, 4)
    BY StepUp
  <1>3. /\ Step(Up(e, 4)) = Up(e, 3)
        /\ Step(Up(e, 3)) = Up(e, 2)
        /\ Step(Up(e, 2)) = Up(e, 1)
        /\ Step(Up(e, 1)) = Up(e, 0)
    BY StepUp
  <1>4. Up(e, 0) = e
    <2>1. \A b \in e : b + 0 = b
      OBVIOUS
    <2> QED BY <2>1, Zenon DEF Up
  <1> QED BY <1>1, <1>2, <1>3, <1>4, Zenon DEF Step8

\* The low byte of the CRC removes itself and brings the high byte down.
LEMMA LowByte ==
  ASSUME NEW w \in Word
  PROVE  Low(w) \in Byte /\ High(w) \in Byte /\ Update(Low(w), w) = High(w)
  <1>1. Low(w) \in Byte
    BY DEF Low
  <1>2. High(w) \in Byte
    BY DEF High
  <1>3. Xor(w, Low(w)) = Up(High(w), 8)
    <2>1. Xor(w, Low(w)) = w \ 0..7
      BY DEF Xor, Low
    <2>2. ASSUME NEW x \in w \ 0..7 PROVE x \in Up(High(w), 8)
      <3>1. x - 8 \in High(w) /\ x = (x - 8) + 8
        BY DEF High
      <3> QED BY <3>1 DEF Up
    <2>3. ASSUME NEW x \in Up(High(w), 8) PROVE x \in w \ 0..7
      <3>1. PICK c \in High(w) : x = c + 8
        BY DEF Up
      <3>2. PICK b \in w \ 0..7 : c = b - 8
        BY <3>1 DEF High
      <3>3. x = b
        BY <3>1, <3>2
      <3> QED BY <3>2, <3>3
    <2> QED BY <2>1, <2>2, <2>3
  <1> QED BY <1>1, <1>2, <1>3, Step8Up DEF Update

\* Two damaged neighbours never cancel out.
LEMMA Burst ==
  ASSUME NEW d \in Byte, d # {}, NEW e \in Byte
  PROVE  Xor(Step8(d), e) # {}
  <1>1. Up(e, 8) \in Word /\ Step8(Up(e, 8)) = e
    BY Step8Up
  <1>2. Xor(Step8(d), e) = Step8(Xor(d, Up(e, 8)))
    BY <1>1, ByteIsWord, Step8Xor
  <1>3. PICK x \in d : x \in 0..7
    OBVIOUS
  <1>4. x \notin Up(e, 8)
    BY <1>3 DEF Up
  <1>5. Xor(d, Up(e, 8)) # {}
    BY <1>3, <1>4 DEF Xor
  <1>6. Xor(d, Up(e, 8)) \in Word
    BY <1>1, ByteIsWord, XorType
  <1> QED BY <1>2, <1>5, <1>6, Step8NonEmpty

-----------------------------------------------------------------------------
(* The specification *)

\* The CRC of a receiver that got the frame so far as it was sent.
Expected == CASE phase = "body" -> tx
              [] phase = "low" -> High(tx)
              [] OTHER -> {}

Difference == Xor(rx, Expected)

\* After the first damaged byte the difference is that of the byte alone, which
\* is what makes the next one unable to undo it.
Inv ==
    /\ TypeOK
    /\ damage = "none" /\ ~merged => Difference = {}
    /\ merged => damage = "none" /\ Difference # {}
    /\ damage = "open" => \E e \in Byte \ {{}} : Difference = Step8(e)
    /\ damage = "over" => Difference # {}
    /\ phase # "body" => len >= 2

LEMMA ExpectedType ==
  ASSUME TypeOK
  PROVE  Expected \in Word /\ Difference \in Word
  <1>1. High(tx) \in Word /\ {} \in Word
    BY LowByte, ByteIsWord DEF TypeOK
  <1>2. Expected \in Word
    BY <1>1 DEF TypeOK, Expected
  <1> QED BY <1>2, XorType DEF TypeOK, Difference

LEMMA UpdateType == \A a \in Byte, w \in Word : Update(a, w) \in Word
  BY ByteIsWord, XorType, Step8Type DEF Update

\* What a byte on the line does to the difference.
LEMMA TransmitDifference ==
  ASSUME Inv, NEW byte \in Byte, Transmit(byte), Expected' = Update(byte, Expected),
         Errors \subseteq Byte \ {{}}
  PROVE  \/ damage' = "none" /\ damage = "none" /\ Difference' = Step8(Difference)
         \/ damage' = "over" /\ ~merged /\ Difference' # {}
         \/ damage' = "open" /\ ~merged /\ \E e \in Byte \ {{}} : Difference' = Step8(e)
  <1> DEFINE d == Difference
  <1>1. /\ d \in Word /\ rx \in Word /\ Expected \in Word
        /\ byte \in Word /\ Xor(rx, byte) \in Word /\ Xor(Expected, byte) \in Word
    BY ExpectedType, ByteIsWord, XorType DEF Inv, TypeOK
  <1>2. CASE rx' = Update(byte, rx) /\ damage' = (IF damage = "open" THEN "over" ELSE damage)
    <2>1. Difference' = Step8(d)
      <3>1. Difference' = Xor(Step8(Xor(rx, byte)), Step8(Xor(Expected, byte)))
        BY <1>2 DEF Difference, Update
      <3>2. Difference' = Step8(Xor(Xor(rx, byte), Xor(Expected, byte)))
        BY <3>1, <1>1, Step8Xor
      <3> QED BY <3>2, XorCancels DEF Difference
    <2>2. CASE damage = "none"
      BY <1>2, <2>1, <2>2
    <2>3. CASE damage = "open"
      <3>1. PICK e \in Byte \ {{}} : d = Step8(e)
        BY <2>3 DEF Inv
      <3>2. d # {}
        BY <3>1, Step8NonEmpty, ByteIsWord
      <3> QED BY <1>1, <1>2, <2>1, <2>3, <3>2, Step8NonEmpty DEF Inv
    <2>4. CASE damage = "over"
      BY <1>1, <1>2, <2>1, <2>4, Step8NonEmpty DEF Inv
    <2> QED BY <2>2, <2>3, <2>4 DEF Inv, TypeOK
  <1>3. CASE /\ \/ damage = "none" /\ ~merged /\ damage' = "open"
                \/ damage = "open" /\ damage' = "over"
             /\ \E e \in Errors : rx' = Update(Xor(byte, e), rx)
    <2>1. PICK e \in Byte \ {{}} : rx' = Update(Xor(byte, e), rx)
      BY <1>3
    <2>2. /\ e \in Word /\ Xor(byte, e) \in Word
          /\ Xor(rx, Xor(byte, e)) \in Word
      BY <1>1, ByteIsWord, XorType
    <2>3. Difference' = Step8(Xor(d, e))
      <3>1. Difference' = Xor(Step8(Xor(rx, Xor(byte, e))), Step8(Xor(Expected, byte)))
        BY <2>1 DEF Difference, Update
      <3>2. Difference' = Step8(Xor(Xor(rx, Xor(byte, e)), Xor(Expected, byte)))
        BY <3>1, <1>1, <2>2, Step8Xor
      <3> QED BY <3>2, XorDamage DEF Difference
    <2>4. CASE damage = "none" /\ ~merged /\ damage' = "open"
      <3>1. d = {}
        BY <2>4 DEF Inv
      <3>2. Xor(d, e) = e
        BY <3>1 DEF Xor
      <3> QED BY <2>3, <2>4, <3>2
    <2>5. CASE damage = "open" /\ damage' = "over"
      <3>1. PICK f \in Byte \ {{}} : d = Step8(f)
        BY <2>5 DEF Inv
      <3>2. Xor(d, e) # {} /\ Xor(d, e) \in Word
        BY <1>1, <2>2, <3>1, Burst, XorType
      <3> QED BY <2>3, <2>5, <3>2, Step8NonEmpty DEF Inv
    <2> QED BY <1>3, <2>4, <2>5
  <1> QED BY <1>2, <1>3 DEF Transmit

\* A byte keeps what the invariant says of the difference.
LEMMA TransmitInv ==
  ASSUME Inv, NEW byte \in Byte, Transmit(byte), Expected' = Update(byte, Expected),
         Errors \subseteq Byte \ {{}}, merged' = merged, TypeOK', phase' # "body" => len' >= 2
  PROVE  Inv'
  <1>1. Difference \in Word /\ (Difference = {} => Step8(Difference) = {})
        /\ (Difference # {} => Step8(Difference) # {})
    BY ExpectedType, Step8Empty, Step8NonEmpty DEF Inv
  <1>2. CASE damage' = "none" /\ damage = "none" /\ Difference' = Step8(Difference)
    BY <1>1, <1>2 DEF Inv
  <1>3. CASE damage' = "over" /\ ~merged /\ Difference' # {}
    BY <1>3 DEF Inv
  <1>4. CASE damage' = "open" /\ ~merged /\ \E e \in Byte \ {{}} : Difference' = Step8(e)
    BY <1>4 DEF Inv
  <1> QED BY <1>2, <1>3, <1>4, TransmitDifference

LEMMA TransmitType ==
  ASSUME TypeOK, NEW byte \in Byte, Transmit(byte), Errors \subseteq Byte \ {{}}
  PROVE  rx' \in Word /\ damage' \in {"none", "open", "over"}
  <1>1. \A e \in Errors : Xor(byte, e) \in Byte
    BY XorByte
  <1> QED BY <1>1, UpdateType DEF Transmit, TypeOK

LEMMA Step_Inv ==
  ASSUME Inv, [Next]_vars
  PROVE  Inv'
  <1> USE FrameAssumption
  <1>1. TypeOK
    BY DEF Inv
  <1>2. CASE SendByte
    <2>1. PICK b \in Byte : tx' = Update(b, tx) /\ Transmit(b)
      BY <1>2 DEF SendByte
    <2>2. phase = "body" /\ phase' = "body" /\ len' \in 0..MaxLen /\ merged' = merged
      BY <1>1, <1>2 DEF SendByte, TypeOK
    <2>3. TypeOK'
      BY <1>1, <2>1, <2>2, TransmitType, UpdateType DEF TypeOK
    <2>4. Expected' = Update(b, Expected)
      BY <2>1, <2>2 DEF Expected
    <2> QED BY <2>1, <2>2, <2>3, <2>4, TransmitInv
  <1>3. CASE SendLow
    <2>1. First(tx) \in Byte /\ Transmit(First(tx)) /\ tx' = tx /\ merged' = merged
      BY <1>1, <1>3, LowByte DEF SendLow, First, TypeOK
    <2>2. phase = "body" /\ phase' = "low" /\ len' = len /\ len >= 2
      BY <1>3 DEF SendLow
    <2>3. TypeOK'
      BY <1>1, <2>1, <2>2, TransmitType DEF TypeOK
    <2>4. Expected' = Update(First(tx), Expected)
      BY <1>1, <2>1, <2>2, LowByte DEF Expected, First, TypeOK
    <2> QED BY <2>1, <2>2, <2>3, <2>4, TransmitInv
  <1>4. CASE SendHigh
    <2>1. Second(tx) \in Byte /\ Transmit(Second(tx)) /\ tx' = tx /\ merged' = merged
      BY <1>1, <1>4, LowByte DEF SendHigh, Second, TypeOK
    <2>2. phase = "low" /\ phase' = "end" /\ len' = len
      BY <1>4 DEF SendHigh
    <2>3. TypeOK'
      BY <1>1, <2>1, <2>2, TransmitType DEF TypeOK
    <2>4. Expected' = Update(Second(tx), Expected)
      <3>1. Expected = High(tx) /\ Expected' = {}
        BY <2>2 DEF Expected
      <3>2. Xor(High(tx), High(tx)) = {}
        BY DEF Xor
      <3> QED BY <3>1, <3>2, Step8Empty DEF Update, Second
    <2>5. len' >= 2
      BY <2>2 DEF Inv
    <2> QED BY <2>1, <2>2, <2>3, <2>4, <2>5, TransmitInv
  <1>5. CASE NextFrame
    <2>1. TypeOK'
      BY <1>1, <1>5 DEF NextFrame, TypeOK, InitialCrc
    <2>2. rx = {}
      <3>1. Difference = {} /\ Expected = {}
        BY <1>5 DEF NextFrame, Inv, Expected
      <3> QED BY <3>1 DEF Difference, Xor
    <2>3. Difference' # {}
      <3>1. rx' = {} /\ Expected' = 0..15
        BY <1>5, <2>2 DEF NextFrame, Expected, InitialCrc
      <3>2. 0 \in Difference'
        BY <3>1 DEF Difference, Xor
      <3> QED BY <3>2
    <2> QED BY <1>5, <2>1, <2>3 DEF NextFrame, Inv
  <1>6. CASE Flush
    <2>1. TypeOK'
      <3>1. merged' \in BOOLEAN
        BY <1>6, Zenon DEF Flush
      <3>2. tx' \in Word /\ rx' \in Word
        BY <1>6, Zenon DEF Flush, InitialCrc
      <3> QED BY <1>6, <3>1, <3>2 DEF Flush, TypeOK
    <2>2. Difference' = {}
      BY <1>6 DEF Flush, Difference, Expected, Xor
    <2> QED BY <1>6, <2>1, <2>2 DEF Flush, Inv
  <1>7. CASE UNCHANGED vars
    <2>1. TypeOK' /\ Expected' = Expected
      BY <1>1, <1>7 DEF vars, TypeOK, Expected
    <2>2. Difference' = Difference
      BY <1>7, <2>1 DEF vars, Difference
    <2> QED BY <1>7, <2>1, <2>2 DEF vars, Inv
  <1> QED BY <1>2, <1>3, <1>4, <1>5, <1>6, <1>7 DEF Next

LEMMA Init_Inv ==
  ASSUME Init
  PROVE  Inv
  <1>1. merged \in BOOLEAN
    BY Zenon DEF Init
  <1>2. tx \in Word /\ rx \in Word
    BY Zenon DEF Init, InitialCrc
  <1>3. TypeOK
    BY <1>1, <1>2, FrameAssumption DEF Init, TypeOK
  <1>4. Difference = {}
    BY DEF Init, Difference, Expected, Xor
  <1> QED BY <1>3, <1>4 DEF Init, Inv

LEMMA InvHolds == Spec => []Inv
  BY Init_Inv, Step_Inv, PTL DEF Spec

\* The CRCs are words and the phases those of a frame.
THEOREM TypeCorrect == Spec => []TypeOK
  <1>1. Inv => TypeOK
    BY DEF Inv
  <1> QED BY <1>1, InvHolds, PTL

\* Whatever the message, the residue of an undamaged frame is 0: modbus_send and
\* modbus_recv agree on the CRC and on the order of its two bytes.
THEOREM WholeIsAccepted == Spec => []WholeAccepted
  <1>1. Inv => WholeAccepted
    BY DEF Inv, TypeOK, WholeAccepted, Accepted, Difference, Expected, Xor
  <1> QED BY <1>1, InvHolds, PTL

\* One byte damaged in any way, or two neighbours, is always noticed, wherever
\* they are in a frame of any length.
THEOREM DamagedIsRejected == Spec => []DamagedRejected
  <1>1. ASSUME Inv, phase = "end", damage # "none" PROVE rx # {}
    <2>1. Difference # {}
      <3>1. \A e \in Byte \ {{}} : Step8(e) # {}
        BY ByteIsWord, Step8NonEmpty
      <3> QED BY <1>1, <3>1 DEF Inv, TypeOK
    <2>2. Expected = {}
      BY <1>1 DEF Expected
    <2> QED BY <2>1, <2>2 DEF Difference, Xor
  <1>2. Inv => DamagedRejected
    BY <1>1 DEF DamagedRejected, Accepted
  <1> QED BY <1>2, InvHolds, PTL

\* The same of two frames that ran into each other, of any length: what
\* modbus_recv takes for one answer is never the sum of two.
THEOREM MergedIsRejected == Spec => []MergedRejected
  <1>1. ASSUME Inv, phase = "end", merged PROVE rx # {}
    <2>1. Difference # {} /\ Expected = {}
      BY <1>1 DEF Inv, Expected
    <2> QED BY <2>1 DEF Difference, Xor
  <1>2. Inv => MergedRejected
    BY <1>1 DEF MergedRejected, Accepted
  <1> QED BY <1>2, InvHolds, PTL
=============================================================================
