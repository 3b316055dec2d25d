-------------------------- MODULE PL2303Line_proofs --------------------------
(***************************************************************************)
(* Proofs about the line configuration, for any rates, lengths, stop bits, *)
(* parity flags and codings a chip may start with, and for any failures of *)
(* the control transfers.                                                  *)
(***************************************************************************)
EXTENDS PL2303Line, TLAPS

\* What BeginIO has let through.
Encodable(p) ==
    /\ p.baud <= MaxBaud[type]
    /\ type \notin NoDivisors => p.baud > 0

Offered == phase \in {"check", "serving"}

QueueInv == queue \in Seq(Requests) /\ QueuedIsEncodable

\* The base holds what has been transferred to the chip, byte for byte.
BytesMatch == dev.rate = chip.rate /\ dev.bits = chip.bits /\ dev.stop = chip.stop

CodingInv ==
    /\ phase \in {"clone", "look", "set", "check", "serving", "failed"}
    /\ Offered => BytesMatch /\ ParityKept

\* The checks of _pl2303_serial_setparams refuse a rate of 0 to every chip that
\* divides by it, whatever the search in the table has found.
LEMMA AcceptedIsEncodable ==
    ASSUME NEW p \in Requests, NEW found \in SupportedBaud(p.baud), Accepted(p, found)
    PROVE  Encodable(p)
<1>1. p.baud \in Nat
    BY LineAssumption DEF Requests
<1>2. p.baud = 0 => found = 75
    BY DEF SupportedBaud
<1> QED
    BY <1>1, <1>2 DEF Accepted, Encodable

\* After an update from a coding the base describes that coding.
LEMMA UpdatedMatches ==
    ASSUME NEW d, NEW lc, lc.parity \in {"none", "odd", "even", "mark", "space"}
    PROVE  /\ Updated(d, lc).rate = lc.rate
           /\ Updated(d, lc).bits = lc.bits
           /\ Updated(d, lc).stop = lc.stop
           /\ IF lc.parity = "none"
                THEN Updated(d, lc).flags = {}
                ELSE ParityFlag[lc.parity] \in Updated(d, lc).flags
    BY DEF Updated, ParityFlags

LEMMA QueueStep ==
    ASSUME QueueInv, [Next]_vars
    PROVE  QueueInv'
<1> USE DEF QueueInv
<1>1. CASE UNCHANGED <<queue, type>>
    BY <1>1 DEF QueuedIsEncodable
<1>2. CASE SetUp
    BY <1>1, <1>2 DEF SetUp, CheckClone, Look, SetLine
<1>3. ASSUME NEW p \in Requests, SetParams(p)
      PROVE  QueueInv'
    <2>1. queue' = Append(queue, p) /\ UNCHANGED type
        BY <1>3 DEF SetParams
    <2>2. Encodable(p)
        BY <1>3, AcceptedIsEncodable DEF SetParams
    <2>3. \A i \in 1..Len(queue') : queue'[i] = p \/ (i \in 1..Len(queue) /\ queue'[i] = queue[i])
        BY <2>1
    <2> QED
        BY <2>1, <2>2, <2>3 DEF QueuedIsEncodable, Encodable
<1>4. ASSUME NEW ok \in BOOLEAN, Apply(ok)
      PROVE  QueueInv'
    <2>1. queue' = Tail(queue) /\ queue # <<>> /\ UNCHANGED type
        BY <1>4 DEF Apply
    <2>2. /\ Tail(queue) \in Seq(Requests)
          /\ \A i \in 1..Len(Tail(queue)) :
                i + 1 \in 1..Len(queue) /\ Tail(queue)[i] = queue[i + 1]
        BY <2>1
    <2> QED
        BY <2>1, <2>2 DEF QueuedIsEncodable
<1>5. CASE UNCHANGED vars
    BY <1>1, <1>5 DEF vars
<1> QED
    BY <1>2, <1>3, <1>4, <1>5 DEF Next

LEMMA CodingStep ==
    ASSUME CodingInv, [Next]_vars
    PROVE  CodingInv'
<1> USE DEF CodingInv, Offered
<1>1. ASSUME UNCHANGED <<phase, chip, dev>>
      PROVE  CodingInv'
    BY <1>1 DEF BytesMatch, ParityKept
<1>2. CASE SetUp
    <2>1. CASE CheckClone \/ Look("look", "set")
        BY <2>1 DEF CheckClone, Look
    <2>2. ASSUME NEW ok \in BOOLEAN, SetLine(ok)
          PROVE  CodingInv'
        <3>1. CASE ok
            <4>1. SetupCoding.parity = "none"
                BY DEF SetupCoding
            <4>2. chip' = SetupCoding /\ dev' = Updated(dev, SetupCoding) /\ phase' = "check"
                BY <2>2, <3>1 DEF SetLine
            <4> QED
                BY <4>1, <4>2, UpdatedMatches DEF BytesMatch, ParityKept
        <3>2. CASE ~ok
            BY <2>2, <3>2 DEF SetLine
        <3> QED
            BY <3>1, <3>2
    <2>3. CASE Look("check", "serving")
        <3>1. BytesMatch /\ ParityKept /\ UNCHANGED chip
            BY <2>3 DEF Look
        <3>2. dev' \in {dev, Updated(dev, chip)}
            BY <2>3 DEF Look, GetLine
        <3>3. CASE dev' = dev
            BY <2>3, <3>1, <3>3 DEF Look, BytesMatch, ParityKept
        <3>4. CASE dev' = Updated(dev, chip)
            BY <2>3, <3>1, <3>4 DEF Look, Updated, ParityFlags, BytesMatch, ParityKept
        <3> QED
            BY <3>2, <3>3, <3>4
    <2> QED
        BY <1>2, <2>1, <2>2, <2>3 DEF SetUp
<1>3. ASSUME NEW p \in Requests, SetParams(p)
      PROVE  CodingInv'
    BY <1>1, <1>3 DEF SetParams, setupVars
<1>4. ASSUME NEW ok \in BOOLEAN, Apply(ok)
      PROVE  CodingInv'
    <2>1. UNCHANGED phase
        BY <1>4 DEF Apply, setupVars
    <2>2. CASE ok
        <3>1. chip' = Coding(Head(queue)) /\ dev' = Updated(dev, chip')
            BY <1>4, <2>2 DEF Apply
        <3>2. chip'.parity \in {"none", "odd", "even", "mark", "space"}
            BY <3>1 DEF Coding, AppliedParity
        <3> QED
            BY <2>1, <3>1, <3>2, UpdatedMatches DEF BytesMatch, ParityKept
    <2>3. CASE ~ok
        BY <1>1, <1>4, <2>1, <2>3 DEF Apply
    <2> QED
        BY <2>2, <2>3
<1>5. CASE UNCHANGED vars
    BY <1>1, <1>5 DEF vars, setupVars
<1> QED
    BY <1>2, <1>3, <1>4, <1>5 DEF Next

LEMMA CodingAlways == Spec => []CodingInv
<1>1. Init => CodingInv
    BY DEF Init, CodingInv, Offered
<1> QED
    BY <1>1, CodingStep, PTL DEF Spec

\* The worker never divides by a rate of 0, for any rate a client asks for.
THEOREM EncodableAlways == Spec => []QueuedIsEncodable
<1>1. Init => QueueInv
    BY DEF Init, QueueInv, QueuedIsEncodable
<1>2. QueueInv => QueuedIsEncodable
    BY DEF QueueInv
<1> QED
    BY <1>1, <1>2, QueueStep, PTL DEF Spec

\* The base has the chip's data bits and stop bits, and its rate if that was set as
\* a number - the divisor for it if not -, whatever control transfers fail.
THEOREM BaseAlwaysMatches == Spec => []BaseMatchesChip
<1>1. CodingInv => BaseMatchesChip
    <2> SUFFICES ASSUME BytesMatch
                 PROVE  BaseMatchesChip
        BY DEF CodingInv, Offered, BaseMatchesChip
    <2>1. dev.bits = chip.bits /\ dev.stop = chip.stop /\ dev.rate = chip.rate
        BY DEF BytesMatch
    <2>2. ~IsDivisor(chip.rate) => ChipRate(type, chip.rate) = Number(chip.rate)
        BY DEF ChipRate
    <2> QED
        BY <2>1, <2>2 DEF BaseMatchesChip
<1> QED
    BY <1>1, CodingAlways, PTL

\* The base always holds the flag of the parity the chip works with, and holds
\* none when it works without.
THEOREM ParityAlwaysKept == Spec => []ParityKept
<1>1. CodingInv => ParityKept
    BY DEF CodingInv, Offered, ParityKept
<1> QED
    BY <1>1, CodingAlways, PTL

(***************************************************************************)
(* What the encoder makes of a rate fits into the four bytes of the        *)
(* coding: the loop ends, with a mantissa and an exponent its format has   *)
(* room for.                                                               *)
(***************************************************************************)
LEMMA PowersOfTwo == \A k \in 0..15 : 2^k \in Nat \ {0}
<1> SUFFICES ASSUME NEW k \in 0..15 PROVE 2^k \in Nat \ {0}
    OBVIOUS
<1>0. CASE k = 0
    BY <1>0
<1>1. CASE k = 1
    BY <1>1
<1>2. CASE k = 2
    BY <1>2
<1>3. CASE k = 3
    BY <1>3
<1>4. CASE k = 4
    BY <1>4
<1>5. CASE k = 5
    BY <1>5
<1>6. CASE k = 6
    BY <1>6
<1>7. CASE k = 7
    BY <1>7
<1>8. CASE k = 8
    BY <1>8
<1>9. CASE k = 9
    BY <1>9
<1>10. CASE k = 10
    BY <1>10
<1>11. CASE k = 11
    BY <1>11
<1>12. CASE k = 12
    BY <1>12
<1>13. CASE k = 13
    BY <1>13
<1>14. CASE k = 14
    BY <1>14
<1>15. CASE k = 15
    BY <1>15
<1> QED
    BY <1>0, <1>1, <1>2, <1>3, <1>4, <1>5, <1>6, <1>7, <1>8,
       <1>9, <1>10, <1>11, <1>12, <1>13, <1>14, <1>15

\* The exponent the loop stops with.
LEMMA LeastExponent ==
    ASSUME NEW S \in SUBSET (0..15), S # {}
    PROVE  \E e \in S : \A d \in S : e <= d
<1> SUFFICES ASSUME \A e \in S : \E d \in S : d < e
             PROVE  FALSE
    OBVIOUS
<1>1. {0, 1, 2, 3} \cap S = {}
    OBVIOUS
<1>2. {4, 5, 6, 7} \cap S = {}
    BY <1>1
<1>3. {8, 9, 10, 11} \cap S = {}
    BY <1>1, <1>2
<1>4. {12, 13, 14, 15} \cap S = {}
    BY <1>1, <1>2, <1>3
<1>5. PICK e \in S : TRUE
    OBVIOUS
<1>6. e \in {0, 1, 2, 3} \cup {4, 5, 6, 7} \cup {8, 9, 10, 11} \cup {12, 13, 14, 15}
    OBVIOUS
<1> QED
    BY <1>1, <1>2, <1>3, <1>4, <1>5, <1>6, Zenon

\* For any rate but 0 the mantissa and the exponent are in the range of the format.
LEMMA EncodedInFormat ==
    ASSUME NEW f, f \in {Normal, Alternate}, NEW baud \in Nat, baud > 0
    PROVE  \E m \in 0..(f.size - 1), e \in 0..f.top :
                Encoded(f, baud) = [mantissa |-> m, exponent |-> e]
<1> DEFINE Shifted(e) == Divisor(baud) \div 2^(f.shift * e)
           fits == {e \in 0..f.top : Shifted(e) < f.size}
<1>1. f.top \in {7, 15} /\ f.size \in {512, 2048}
    BY DEF Normal, Alternate
<1>2. \A e \in 0..f.top : Shifted(e) \in Nat
    <2> SUFFICES ASSUME NEW e \in 0..f.top PROVE Shifted(e) \in Nat
        OBVIOUS
    <2>1. f.shift * e \in 0..15
        BY DEF Normal, Alternate
    <2>2. 2^(f.shift * e) \in Nat \ {0}
        BY <2>1, PowersOfTwo
    <2>3. Divisor(baud) \in Nat
        BY DEF Divisor, baseline
    <2>4. \A p \in Nat \ {0} : Divisor(baud) \div p \in Nat
        BY <2>3
    <2> QED
        BY <2>2, <2>4
<1>3. CASE fits = {}
    <2>1. Encoded(f, baud) = [mantissa |-> f.size - 1, exponent |-> f.top]
        BY <1>3 DEF Encoded
    <2> QED
        BY <1>1, <2>1
<1>4. CASE fits # {}
    <2>1. fits \subseteq 0..15
        BY <1>1
    <2>2. PICK e \in fits : e = (CHOOSE x \in fits : \A d \in fits : x <= d)
        <3> HIDE DEF fits
        <3> QED
            BY <1>4, <2>1, LeastExponent
    <2>3. Encoded(f, baud) = [mantissa |-> Shifted(e), exponent |-> e]
        BY <1>4, <2>2 DEF Encoded
    <2>4. e \in 0..f.top /\ Shifted(e) < f.size /\ Shifted(e) \in Nat
        BY <1>2
    <2> HIDE DEF Shifted
    <2> QED
        BY <1>1, <2>3, <2>4
<1> QED
    BY <1>3, <1>4

LEMMA LowByte ==
    ASSUME NEW m \in Nat
    PROVE  m % 256 \in 0..255 /\ m \div 256 \in Nat
    OBVIOUS

LEMMA HighBits ==
    ASSUME NEW m \in Nat, m < 2048
    PROVE  m \div 256 \in 0..7
    OBVIOUS

LEMMA NormalIsBytes ==
    ASSUME NEW m \in Nat, m < 512, NEW e \in 0..7, NEW c, c = [mantissa |-> m, exponent |-> e]
    PROVE  NormalBytes(c) \in Seq(0..255)
<1>1. m % 256 \in 0..255 /\ m \div 256 \in 0..1
    OBVIOUS
<1>2. e * 2 + m \div 256 \in 0..255
    BY <1>1
<1> QED
    BY <1>1, <1>2 DEF NormalBytes

LEMMA AlternateIsBytes ==
    ASSUME NEW m \in Nat, m < 2048, NEW e \in 0..15, NEW c, c = [mantissa |-> m, exponent |-> e]
    PROVE  AlternateBytes(c) \in Seq(0..255)
<1>1. m % 256 \in 0..255 /\ m \div 256 \in 0..7
    BY LowByte, HighBits
<1>2. e % 2 \in 0..1
    OBVIOUS
<1>3. (e - (e % 2)) * 16 \in 0..240
    <2>1. e - (e % 2) \in 0..15
        OBVIOUS
    <2> QED
        BY <2>1
<1>4. (e - (e % 2)) * 16 + m \div 256 \in 0..255
    BY <1>1, <1>3
<1> QED
    BY <1>1, <1>2, <1>4 DEF AlternateBytes

LEMMA DirectIsBytes ==
    ASSUME NEW baud \in Nat
    PROVE  DirectBytes(baud) \in Seq(0..255)
    BY DEF DirectBytes

\* Whatever the chip, a rate that BeginIO has let through becomes bytes.
LEMMA RateIsBytes ==
    ASSUME NEW baud \in Nat, type \notin NoDivisors => baud > 0
    PROVE  RateBytes(type, baud) \in Seq(0..255)
<1>1. CASE type \in NoDivisors
    BY <1>1, DirectIsBytes DEF RateBytes, NoDivisors, AltDivisors
<1>2. CASE type \in AltDivisors
    <2>1. baud > 0 /\ RateBytes(type, baud) = AlternateBytes(Encoded(Alternate, baud))
        BY <1>2 DEF RateBytes, NoDivisors, AltDivisors
    <2>2. Alternate.size = 2048 /\ Alternate.top = 15
        BY DEF Alternate
    <2>3. PICK m \in 0..(Alternate.size - 1), e \in 0..Alternate.top :
            Encoded(Alternate, baud) = [mantissa |-> m, exponent |-> e]
        BY <2>1, EncodedInFormat, Zenon
    <2>4. m \in Nat /\ m < 2048 /\ e \in 0..15
        BY <2>2
    <2> QED
        BY <2>1, <2>3, <2>4, AlternateIsBytes
<1>3. CASE type \notin NoDivisors /\ type \notin AltDivisors
    <2>1. baud > 0 /\ RateBytes(type, baud) = NormalBytes(Encoded(Normal, baud))
        BY <1>3 DEF RateBytes
    <2>2. Normal.size = 512 /\ Normal.top = 7
        BY DEF Normal
    <2>3. PICK m \in 0..(Normal.size - 1), e \in 0..Normal.top :
            Encoded(Normal, baud) = [mantissa |-> m, exponent |-> e]
        BY <2>1, EncodedInFormat, Zenon
    <2>4. m \in Nat /\ m < 512 /\ e \in 0..7
        BY <2>2
    <2> QED
        BY <2>1, <2>3, <2>4, NormalIsBytes
<1> QED
    BY <1>1, <1>2, <1>3

(***************************************************************************)
(* Type correctness: what is transferred to the chip is a line coding.     *)
(***************************************************************************)
Bases == [rate : Seq(0..255), bits : Nat, stop : Nat, flags : Flags]

StopsChecked == \A i \in 1..Len(queue) : queue[i].stop \in 1..2

LineTypeInv == TypeOK /\ QueuedIsEncodable /\ StopsChecked

LEMMA UpdatedIsBase ==
    ASSUME NEW d \in Bases, NEW lc \in Codings
    PROVE  Updated(d, lc) \in Bases
<1>1. ParityFlags(d.flags, lc.parity) \in Flags
    <2>1. d.flags \in Flags /\ lc.parity \in {"none", "odd", "even", "mark", "space"}
        BY DEF Bases, Codings
    <2>2. lc.parity # "none" => ParityFlag[lc.parity] \in {"odd", "on", "mark", "mspon"}
        BY <2>1 DEF ParityFlag
    <2> QED
        BY <2>1, <2>2 DEF ParityFlags, Flags
<1>2. lc.rate \in Seq(0..255) /\ lc.bits \in Nat /\ lc.stop \in Nat
    BY DEF Codings
<1> QED
    BY <1>1, <1>2 DEF Updated, Bases

LEMMA CodingIsCoding ==
    ASSUME NEW p \in Requests, Encodable(p), p.stop \in 1..2
    PROVE  Coding(p) \in Codings
<1>1. p.baud \in Nat /\ p.read \in Nat
    BY LineAssumption DEF Requests
<1>2. RateBytes(type, p.baud) \in Seq(0..255)
    BY <1>1, RateIsBytes DEF Encodable
<1>3. AppliedParity(p.flags) \in {"none", "odd", "even", "mark", "space"}
    BY DEF AppliedParity
<1> QED
    BY <1>1, <1>2, <1>3 DEF Coding, Codings

LEMMA SetupIsCoding == SetupCoding \in Codings
    BY DirectIsBytes DEF SetupCoding, Codings

LEMMA LineTypeStep ==
    ASSUME LineTypeInv, QueueInv', [Next]_vars
    PROVE  LineTypeInv'
<1> USE DEF LineTypeInv
<1>1. QueuedIsEncodable' /\ queue' \in Seq(Requests) /\ dev \in Bases
    BY DEF QueueInv, TypeOK, Bases
<1>2. ASSUME UNCHANGED <<type, queue, asked>>, quirk' \in BOOLEAN, chip' \in Codings,
             phase' \in {"clone", "look", "set", "check", "serving", "failed"},
             dev' \in Bases
      PROVE  LineTypeInv'
    BY <1>1, <1>2 DEF TypeOK, StopsChecked, Bases
<1>3. CASE SetUp
    <2>1. ASSUME NEW ok \in BOOLEAN, GetLine(ok)
          PROVE  dev' \in Bases
        BY <1>1, <2>1, UpdatedIsBase DEF GetLine, TypeOK
    <2>2. CASE CheckClone
        BY <1>2, <2>1, <2>2 DEF CheckClone, TypeOK
    <2>3. CASE Look("look", "set") \/ Look("check", "serving")
        <3>1. dev' \in Bases
            BY <1>1, <2>1, <2>3 DEF Look
        <3> QED
            BY <1>2, <2>3, <3>1 DEF Look, TypeOK
    <2>4. ASSUME NEW ok \in BOOLEAN, SetLine(ok)
          PROVE  LineTypeInv'
        BY <1>1, <1>2, <2>4, SetupIsCoding, UpdatedIsBase DEF SetLine, TypeOK
    <2> QED
        BY <1>3, <2>2, <2>3, <2>4 DEF SetUp
<1>4. ASSUME NEW p \in Requests, SetParams(p)
      PROVE  LineTypeInv'
    <2>1. p.stop \in 1..2
        BY <1>4 DEF SetParams, Accepted
    <2>2. queue' = Append(queue, p) /\ UNCHANGED <<type, phase, quirk, chip, dev, asked>>
        BY <1>4 DEF SetParams, setupVars
    <2>3. \A i \in 1..Len(queue') :
            queue'[i] = p \/ (i \in 1..Len(queue) /\ queue'[i] = queue[i])
        BY <2>2 DEF TypeOK
    <2>4. StopsChecked'
        BY <2>1, <2>3 DEF StopsChecked
    <2> QED
        BY <1>1, <2>2, <2>4 DEF TypeOK
<1>5. ASSUME NEW ok \in BOOLEAN, Apply(ok)
      PROVE  LineTypeInv'
    <2>1. queue # <<>> /\ queue' = Tail(queue) /\ UNCHANGED <<type, phase, quirk>>
        BY <1>5 DEF Apply, setupVars
    <2>2. \A i \in 1..Len(queue') : i + 1 \in 1..Len(queue) /\ queue'[i] = queue[i + 1]
        BY <2>1 DEF TypeOK
    <2>3. StopsChecked'
        BY <2>2 DEF StopsChecked
    <2>4. Head(queue) \in Requests /\ Encodable(Head(queue)) /\ Head(queue).stop \in 1..2
        BY <2>1 DEF TypeOK, QueuedIsEncodable, StopsChecked, Encodable
    <2>5. Coding(Head(queue)) \in Codings
        BY <2>4, CodingIsCoding
    <2>6. chip' \in Codings /\ dev' \in Bases /\ asked' \in Requests \cup {Setup}
        BY <1>1, <1>5, <2>4, <2>5, UpdatedIsBase DEF Apply, TypeOK
    <2> QED
        BY <1>1, <2>1, <2>3, <2>6 DEF TypeOK, Bases
<1>6. CASE UNCHANGED vars
    BY <1>1, <1>2, <1>6 DEF vars, setupVars, TypeOK
<1> QED
    BY <1>3, <1>4, <1>5, <1>6 DEF Next

\* Every coding that reaches the chip consists of four bytes, a length and a number
\* of stop bits it knows, for any rates asked for, and the base always holds what
\* the next opener may be told: the check that refuses a rate of 0 is what the
\* worker's division rests on.
THEOREM LineTypeCorrect == Spec => []TypeOK
<1>1. Init => QueueInv
    BY DEF Init, QueueInv, QueuedIsEncodable
<1>2. Init => LineTypeInv
    <2> SUFFICES ASSUME Init PROVE LineTypeInv
        OBVIOUS
    <2>1. type \in Types /\ chip \in Codings
        BY LineAssumption DEF Init
    <2>2. dev \in Bases
        BY DEF Init, Cleared, Bases, Flags
    <2>3. phase = "clone" \/ phase = "look"
        BY DEF Init
    <2>5. quirk \in BOOLEAN
        BY Zenon DEF Init
    <2>6. queue \in Seq(Requests)
        BY DEF Init
    <2>7. asked \in Requests \cup {Setup}
        BY Zenon DEF Init
    <2>4. QueuedIsEncodable /\ StopsChecked
        BY DEF Init, QueuedIsEncodable, StopsChecked
    <2> QED
        BY <2>1, <2>2, <2>3, <2>4, <2>5, <2>6, <2>7
           DEF LineTypeInv, TypeOK, Bases
<1>3. LineTypeInv /\ QueueInv' /\ [Next]_vars => LineTypeInv'
    BY LineTypeStep
<1>4. LineTypeInv => TypeOK
    BY DEF LineTypeInv
<1> QED
    BY <1>1, <1>2, <1>3, <1>4, QueueStep, PTL DEF Spec

(***************************************************************************)
(* The rate of a chip that takes rates as they are.                        *)
(***************************************************************************)

\* The four bytes of a rate hold it whole.
LEMMA DirectIsExact ==
    ASSUME NEW baud \in Nat, baud < 16777216, NEW t
    PROVE  ChipRate(t, DirectBytes(baud)) = baud
<1>1. baud \div 16777216 = 0
    BY SMT
<1>2. baud = 256 * (baud \div 256) + (baud % 256)
    BY SMT
<1>3. baud \div 256 = 256 * (baud \div 65536) + ((baud \div 256) % 256)
    BY SMT
<1>4. (baud \div 65536) % 256 = baud \div 65536
    BY SMT
<1>5. DirectBytes(baud)[4] = 0
    BY <1>1, SMT DEF DirectBytes
<1>6. DirectBytes(baud)[1] + 256 * DirectBytes(baud)[2] + 65536 * DirectBytes(baud)[3] = baud
    BY <1>2, <1>3, <1>4, SMT DEF DirectBytes
<1> QED
    BY <1>5, <1>6, SMT DEF ChipRate, Number, IsDivisor

RateInv ==
    /\ phase # "serving" => queue = <<>> /\ asked = Setup
    /\ Offered => chip.rate = DirectBytes(asked.baud)
    /\ asked.baud \in Nat /\ asked.baud <= MaxBaud["HXN"]

LEMMA RateIsNumber ==
    ASSUME NEW p \in Requests
    PROVE  p.baud \in Nat
    BY LineAssumption DEF Requests

LEMMA RateStep ==
    ASSUME QueueInv, type \in NoDivisors => RateInv, [Next]_vars, type' \in NoDivisors
    PROVE  RateInv'
<1>1. type' = type
    BY DEF Next, SetUp, CheckClone, Look, SetLine, SetParams, Apply, vars
<1>2. RateInv /\ type \in NoDivisors
    BY <1>1
<1> USE DEF RateInv, Offered
<1>3. ASSUME UNCHANGED <<chip, asked, queue>>,
             \/ phase' = phase
             \/ phase' = "serving" /\ Offered
             \/ phase # "serving" /\ phase' \notin {"serving", "check"}
      PROVE  RateInv'
    BY <1>2, <1>3
<1>4. CASE SetUp
    <2>1. CASE CheckClone \/ Look("look", "set") \/ Look("check", "serving")
        BY <1>3, <2>1 DEF CheckClone, Look
    <2>2. ASSUME NEW ok \in BOOLEAN, SetLine(ok)
          PROVE  RateInv'
        <3>1. CASE ok
            BY <1>2, <2>2, <3>1 DEF SetLine, SetupCoding, Setup
        <3>2. CASE ~ok
            BY <1>3, <2>2, <3>2 DEF SetLine
        <3> QED
            BY <3>1, <3>2
    <2> QED
        BY <1>4, <2>1, <2>2 DEF SetUp
<1>5. ASSUME NEW p \in Requests, SetParams(p)
      PROVE  RateInv'
    BY <1>2, <1>5 DEF SetParams, setupVars
<1>6. ASSUME NEW ok \in BOOLEAN, Apply(ok)
      PROVE  RateInv'
    <2>1. queue # <<>> /\ phase = "serving" /\ UNCHANGED <<type, phase>>
        BY <1>2, <1>6 DEF Apply, setupVars
    <2>2. CASE ok
        <3>1. chip' = Coding(Head(queue)) /\ asked' = Head(queue)
            BY <1>6, <2>2 DEF Apply
        <3>2. chip'.rate = RateBytes(type, asked'.baud)
            BY <3>1 DEF Coding
        <3>3. Head(queue) \in Requests /\ Head(queue).baud <= MaxBaud[type]
            BY <2>1 DEF QueueInv, QueuedIsEncodable
        <3>4. asked'.baud \in Nat
            BY <3>1, <3>3, RateIsNumber
        <3>5. type = "HXN"
            BY <1>2 DEF NoDivisors
        <3>6. RateBytes(type, asked'.baud) = DirectBytes(asked'.baud)
            BY <1>2 DEF RateBytes, NoDivisors, AltDivisors
        <3> QED
            BY <2>1, <3>1, <3>2, <3>3, <3>4, <3>5, <3>6
    <2>3. CASE ~ok
        BY <1>2, <1>6, <2>1, <2>3 DEF Apply
    <2> QED
        BY <2>2, <2>3
<1>7. CASE UNCHANGED vars
    BY <1>3, <1>7 DEF vars, setupVars
<1> QED
    BY <1>4, <1>5, <1>6, <1>7 DEF Next

\* A chip that takes rates as they are runs at exactly the rate last set, whatever
\* rate up to its highest a client has asked for - in the table or not.
THEOREM DirectRateHolds == Spec => [](type \in NoDivisors => RateWithinOnePercent)
<1>1. Init => QueueInv /\ (type \in NoDivisors => RateInv)
    <2>1. 115200 <= MaxBaud["HXN"]
        BY SMT DEF MaxBaud, Types
    <2> QED
        BY <2>1, SMT DEF Init, QueueInv, QueuedIsEncodable, RateInv, Offered, Setup
<1>2. QueueInv /\ (type \in NoDivisors => RateInv) /\ [Next]_vars
        => (type \in NoDivisors => RateInv)'
    BY RateStep
<1>3. RateInv => RateWithinOnePercent
    <2> SUFFICES ASSUME RateInv, phase = "serving"
                 PROVE  ChipRate(type, chip.rate) = asked.baud /\ asked.baud \in Nat
        BY DEF RateWithinOnePercent, WithinOnePercent
    <2>1. MaxBaud["HXN"] = 12000000
        BY SMT DEF MaxBaud, Types
    <2>2. asked.baud \in Nat /\ asked.baud < 16777216
        BY <2>1, SMT DEF RateInv
    <2>3. ChipRate(type, DirectBytes(asked.baud)) = asked.baud
        BY <2>2, DirectIsExact, SMT
    <2> QED
        BY <2>2, <2>3, SMT DEF RateInv, Offered
<1> QED
    BY <1>1, <1>2, <1>3, QueueStep, PTL DEF Spec
=============================================================================
