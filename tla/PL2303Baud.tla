----------------------------- MODULE PL2303Baud -----------------------------
(***************************************************************************)
(* How a baud rate becomes the four bytes of uclc_dwDTERate: as the number *)
(* itself or, with the top bit set, as a divisor of the 384 MHz base clock *)
(* in one of two formats.                                                  *)
(***************************************************************************)
EXTENDS Integers, FiniteSets

Types == {"H", "HX", "TA", "TB", "HXD", "HXN", "UNKNOWN"}

\* pl2303_type_data: the highest rate and the ways a chip takes a rate.
MaxBaud ==
    [t \in Types |-> CASE t = "H" -> 1228800
                       [] t \in {"HX", "TA"} -> 6000000
                       [] t \in {"TB", "HXD", "HXN"} -> 12000000
                       [] t = "UNKNOWN" -> 0]
NoDivisors == {"HXN"}
AltDivisors == {"TA", "TB"}

supported_bauds ==
    {75, 150, 300, 600, 1200, 1800, 2400, 3600, 4800, 7200, 9600, 14400, 19200,
     28800, 38400, 57600, 115200, 230400, 460800, 614400, 921600, 1228800,
     2457600, 3000000, 6000000}

\* A slip: a rate below the table is taken as it is.
SupportedBaudUnbounded(b) ==
    IF \E s \in supported_bauds : s > b THEN {b} ELSE {0, b}

\* _pl2303_get_supported_baud_rate: the values it can return for a rate.  The
\* loop stops at the first entry that is larger; for the largest rate and above
\* there is none, the end mark 0 does not stop it and it goes on through the
\* memory behind the table, to return some word that is not larger than b.
SupportedBaud(b) ==
    IF b < 75
      THEN {75}
      ELSE IF \E s \in supported_bauds : s > b
             THEN {CHOOSE s \in supported_bauds :
                     s <= b /\ \A t \in supported_bauds : t <= b => t <= s}
             ELSE {0, b}

baseline == 12000000 * 32

\* A slip: the normal format halves the mantissa like the alternate one.
NormalHalved == [shift |-> 1, top |-> 7, size |-> 512]

\* The two formats: bits shifted out per step of the exponent, the largest
\* exponent, and the number of mantissas.
Normal == [shift |-> 2, top |-> 7, size |-> 512]
Alternate == [shift |-> 1, top |-> 15, size |-> 2048]

\* The divisor of the base clock; not 0 even for a rate above it.
Divisor(baud) == IF baseline \div baud = 0 THEN 1 ELSE baseline \div baud

\* The loop shifts the mantissa until it fits; with the largest exponent it is
\* cut to the largest mantissa.
Encoded(f, baud) ==
    LET Shifted(e) == Divisor(baud) \div 2^(f.shift * e)
        fits == {e \in 0..f.top : Shifted(e) < f.size}
    IN IF fits = {}
         THEN [mantissa |-> f.size - 1, exponent |-> f.top]
         ELSE LET e == CHOOSE e \in fits : \A d \in fits : e <= d
              IN [mantissa |-> Shifted(e), exponent |-> e]

\* The bytes of uclc_dwDTERate as they lie in memory, lowest first.
DirectBytes(baud) ==
    <<baud % 256, (baud \div 256) % 256, (baud \div 65536) % 256, (baud \div 16777216) % 256>>

\* A slip: the mantissa is not cut to a byte.
NormalBytesWide(c) == <<c.mantissa, c.exponent * 2 + c.mantissa \div 256, 0, 128>>

NormalBytes(c) == <<c.mantissa % 256, c.exponent * 2 + c.mantissa \div 256, 0, 128>>

AlternateBytes(c) ==
    <<c.mantissa % 256, (c.exponent - (c.exponent % 2)) * 16 + c.mantissa \div 256,
      c.exponent % 2, 128>>

\* _pl2303_encode_baud_rate.
RateBytes(type, baud) ==
    CASE type \in NoDivisors -> DirectBytes(baud)
      [] type \in AltDivisors -> AlternateBytes(Encoded(Alternate, baud))
      [] OTHER -> NormalBytes(Encoded(Normal, baud))

\* LE_LONG of the bytes, and the top bit that marks a divisor.
Number(b) == b[1] + 256 * b[2] + 65536 * b[3] + 16777216 * b[4]
IsDivisor(b) == b[4] >= 128

\* What a chip makes of the bytes, by the formulas the source quotes:
\* 12M * 32 / (mantissa * 4^exponent), or with 2^exponent on the TA and TB.
ChipRate(type, b) ==
    CASE ~IsDivisor(b) -> Number(b)
      [] IsDivisor(b) /\ type \notin AltDivisors ->
            (baseline \div (b[1] + 256 * (b[2] % 2))) \div 4^(b[2] \div 2)
      [] IsDivisor(b) /\ type \in AltDivisors ->
            (baseline \div (b[1] + 256 * (b[2] % 8))) \div 2^(2 * (b[2] \div 32) + (b[3] % 2))
=============================================================================
