--------------------------- MODULE Cpu6510Proofs ---------------------------
(***************************************************************************)
(* The line-based core is a 6510: Cpu6510 implements Mos6502 for every set *)
(* of instructions, every kernal vector and every number of steps.         *)
(*                                                                         *)
(* First arithmetic and the areas of memory; then the ways to use an       *)
(* operand; then the groups of opcodes, one lemma each; last the           *)
(* behaviours.  The invariant is that the four switches of the memory      *)
(* configuration are those of the processor port, in the machine and in    *)
(* the snapshot.                                                           *)
(***************************************************************************)
EXTENDS Cpu6510, TLAPS

-----------------------------------------------------------------------------
(* Bytes *)

\* The large sets of numbers by their bounds: the provers would enumerate them
Range(l, h) == l .. h
Within(n, l, h) == n \in l .. h

\* Membership of a range, with its bounds as variables
LEMMA RangeIs == \A l \in Int, h \in Int : \A n : n \in Range(l, h) <=> n \in Int /\ l <= n /\ n <= h
BY DEF Range

\* An area of addresses by its bounds
LEMMA WithinIs == \A n \in Int, l \in Int, h \in Int : Within(n, l, h) <=> l <= n /\ n <= h
BY DEF Within

LEMMA WordIs == \A n : n \in Word <=> n \in Int /\ 0 <= n /\ n <= 65535
<1>1. Word = Range(0, 65535)
  BY DEF Word, Range
<1>. QED  BY <1>1, RangeIs

LEMMA ByteIs == \A n : n \in Byte <=> n \in Int /\ 0 <= n /\ n <= 255
<1>1. Byte = Range(0, 255)
  BY DEF Byte, Range
<1>. QED  BY <1>1, RangeIs

\* The sign bit of a byte is its upper half, and bits are 0 or 1
LEMMA BitIs ==
    ASSUME NEW v \in Byte
    PROVE  /\ Bit(v, 128) = Flag(v >= 128) /\ Bit(v, 1) = v % 2
           /\ \A w \in Weights : Bit(v, w) \in Bool
BY DEF Byte, Bit, Flag, Weights, Bool

\* AND, OR and EOR yield a byte of any operands
LEMMA LogicIs ==
    \A u, v : And(u, v) \in Byte /\ Or(u, v) \in Byte /\ Xor(u, v) \in Byte
<1>1. \A B : FromBits(B) \in Byte
  BY DEF FromBits, Byte
<1>. QED  BY <1>1 DEF And, Or, Xor

\* The two ways to say that a sum of signed bytes is out of range
LEMMA SumOverflows ==
    ASSUME NEW u \in Byte, NEW v \in Byte, NEW c \in Bool
    PROVE  (Bit(u, 128) = Bit(v, 128) /\ Bit(u, 128) # Bit(u + v + c, 128))
           <=> Signed(u) + Signed(v) + c \notin -128 .. 127
<1>1. u + v + c \in 0 .. 511
  BY DEF Byte, Bool
<1>2. \A n \in 0 .. 511 : Bit(n, 128) = IF n \in 0 .. 127 \/ n \in 256 .. 383 THEN 0 ELSE 1
  BY DEF Bit
<1>. QED  BY <1>1, <1>2 DEF Byte, Bool, Signed

\* A negative difference, cut to sixteen bits: its low byte, the borrow that the
\* code reads off the high byte, and its sign bit
LEMMA WrapIs ==
    ASSUME NEW n \in -256 .. 255
    PROVE  LET d == n % 65536 IN
           /\ d = (IF n >= 0 THEN n ELSE n + 65536)
           /\ d % 256 = n % 256 /\ (d < 256 <=> n >= 0)
           /\ Bit(d, 128) = (IF n \in -256 .. -129 \/ n \in 0 .. 127 THEN 0 ELSE 1)
<1>1. n % 65536 = (IF n >= 0 THEN n ELSE n + 65536)
  OBVIOUS
<1>2. CASE n >= 0
  BY <1>1, <1>2 DEF Bit
<1>3. CASE n < 0
  <2>1. (n + 65536) % 256 = n % 256
    OBVIOUS
  <2>2. n \in -256 .. -129 => (n + 65536) \div 128 = 510
    OBVIOUS
  <2>3. n \in -128 .. -1 => (n + 65536) \div 128 = 511
    OBVIOUS
  <2>. QED  BY <1>1, <1>3, <2>1, <2>2, <2>3 DEF Bit
<1>. QED  BY <1>2, <1>3

\* The code subtracts in sixteen bits: result, borrow and overflow of the difference
LEMMA DifferenceIs ==
    ASSUME NEW u \in Byte, NEW v \in Byte, NEW c \in Bool
    PROVE  LET d == (u - v - c) % 65536 IN
           /\ d % 256 = (u - v - c) % 256 /\ (d < 256 <=> u - v - c >= 0)
           /\ (Bit(u, 128) # Bit(d, 128) /\ Bit(u, 128) # Bit(v, 128))
              <=> Signed(u) - Signed(v) - c \notin -128 .. 127
<1>. DEFINE n == u - v - c
<1>1. n \in -256 .. 255
  BY DEF Byte, Bool
<1>2. Bit(u, 128) = Flag(u >= 128) /\ Bit(v, 128) = Flag(v >= 128)
  BY BitIs
<1>3. /\ (n % 65536) % 256 = n % 256 /\ (n % 65536 < 256 <=> n >= 0)
      /\ Bit(n % 65536, 128) = (IF n \in -256 .. -129 \/ n \in 0 .. 127 THEN 0 ELSE 1)
  BY <1>1, WrapIs
<1>4. (Bit(u, 128) # Bit(n % 65536, 128) /\ Bit(u, 128) # Bit(v, 128))
      <=> Signed(u) - Signed(v) - c \notin -128 .. 127
  <2>. DEFINE w == Bit(n % 65536, 128)
  <2>. SUFFICES ASSUME w = (IF n \in -256 .. -129 \/ n \in 0 .. 127 THEN 0 ELSE 1)
                PROVE  (Flag(u >= 128) # w /\ Flag(u >= 128) # Flag(v >= 128))
                       <=> Signed(u) - Signed(v) - c \notin -128 .. 127
    BY <1>2, <1>3
  <2>. HIDE DEF w
  <2>. QED  BY DEF Byte, Bool, Signed, Flag
<1>. QED  BY <1>3, <1>4

\* pc is not cut, but what is pushed and where it ends are those of the cut one
LEMMA PcIs ==
    ASSUME NEW p \in Int, NEW n \in Int
    PROVE  /\ (p + n) % 65536 = ((p % 65536) + n) % 65536
           /\ High(p) = High(p % 65536) /\ Low(p) = Low(p % 65536)
           /\ High(p + n) = High((p % 65536) + n) /\ Low(p + n) = Low((p % 65536) + n)
BY DEF High, Low

(* Decimal digits *)

\* A digit below a multiple of sixteen
LEMMA DigitsOf ==
    ASSUME NEW p \in Int, NEW q \in 0 .. 15
    PROVE  /\ (16 * p + q) % 16 = q /\ (16 * p + q) \div 16 = p
           /\ (16 * p + q) % 256 = 16 * (p % 16) + q
OBVIOUS

\* A digit of a sum: the carry and what is left of it
LEMMA DigitSum ==
    ASSUME NEW n \in 0 .. 19
    PROVE  LET d == IF n > 9 THEN n + 6 ELSE n IN
           /\ Flag(d > 15) = Flag(n > 9) /\ d \in 0 .. 25
           /\ d % 16 = (IF n > 9 THEN n - 10 ELSE n)
BY DEF Flag

Wrapped(n) == n % 65536
Adjusted(w) == Wrapped(w - 6 * Bit(w, 16))

\* A digit of a difference: the borrow and what is left of it
LEMMA DigitDifference ==
    ASSUME NEW n \in -10 .. 9
    PROVE  /\ Bit(Wrapped(n), 16) = Flag(n < 0) /\ Adjusted(Wrapped(n)) \in Int
           /\ Adjusted(Wrapped(n)) % 16 = (IF n < 0 THEN n + 10 ELSE n)
<1>. DEFINE w == Wrapped(n)
<1>1. CASE n >= 0
  <2>1. w = n /\ Bit(n, 16) = 0
    BY <1>1 DEF Bit, Wrapped
  <2>. QED  BY <1>1, <2>1 DEF Flag, Adjusted, Wrapped
<1>2. CASE n < 0
  <2>1. w = n + 65536 /\ Bit(n + 65536, 16) = 1
    BY <1>2 DEF Bit, Wrapped
  <2>2. (n + 65536 - 6) % 65536 = n + 65530 /\ (n + 65530) % 16 = n + 10
    BY <1>2
  <2>. QED  BY <1>2, <2>1, <2>2 DEF Flag, Adjusted, Wrapped
<1>. QED  BY <1>1, <1>2

SumOfDigits(u, v, c) ==
    LET low == (u % 16) + (v % 16) + c
        al == IF low > 9 THEN low + 6 ELSE low
        up == (u \div 16) + (v \div 16) + Flag(al > 15)
        ah == IF up > 9 THEN up + 6 ELSE up
    IN  [sum |-> (16 * ah + (al % 16)) % 256, carry |-> Flag(ah > 15)]

DifferenceOfDigits(u, v, c) ==
    LET low == Wrapped((u % 16) - (v % 16) - c)
        up == Wrapped((u \div 16) - (v \div 16) - Bit(low, 16))
        al == Adjusted(low)
        ah == Adjusted(up)
    IN  (16 * ah + (al % 16)) % 256

\* Two-digit decimals: the corrected sum is the sum modulo a hundred, with its carry
LEMMA SumOfDigitsIs ==
    ASSUME NEW u \in Byte, NEW v \in Byte, NEW c \in Bool, Mos!IsDecimal(u), Mos!IsDecimal(v)
    PROVE  LET r == SumOfDigits(u, v, c)
               n == Mos!Decimal(u) + Mos!Decimal(v) + c
           IN  /\ Mos!IsDecimal(r.sum) /\ Mos!Decimal(r.sum) = n % 100
               /\ r.carry = Flag(n > 99)
<1>. DEFINE low == (u % 16) + (v % 16) + c
            al == IF low > 9 THEN low + 6 ELSE low
            up == (u \div 16) + (v \div 16) + Flag(al > 15)
            ah == IF up > 9 THEN up + 6 ELSE up
<1>1. u % 16 \in 0 .. 9 /\ u \div 16 \in 0 .. 9 /\ v % 16 \in 0 .. 9 /\ v \div 16 \in 0 .. 9
  BY DEF Mos!IsDecimal, Byte
<1>2. low \in 0 .. 19
  BY <1>1 DEF Bool
<1>3. Flag(al > 15) = Flag(low > 9) /\ al % 16 = (IF low > 9 THEN low - 10 ELSE low)
  BY <1>2, DigitSum
<1>4. up \in 0 .. 19
  BY <1>1, <1>3 DEF Flag
<1>5. Flag(ah > 15) = Flag(up > 9) /\ ah % 16 = (IF up > 9 THEN up - 10 ELSE up) /\ ah \in Int
  BY <1>4, DigitSum
<1>6. (16 * ah + (al % 16)) % 256 = 16 * (ah % 16) + (al % 16) /\ al % 16 \in 0 .. 9 /\ ah % 16 \in 0 .. 9
  <2>1. al % 16 \in 0 .. 15
    BY <1>2, <1>3
  <2>. HIDE DEF al, ah
  <2>2. (16 * ah + (al % 16)) % 256 = 16 * (ah % 16) + (al % 16)
    BY <2>1, <1>5, DigitsOf
  <2>. QED  BY <2>2, <1>2, <1>3, <1>4, <1>5
<1>7. SumOfDigits(u, v, c) = [sum |-> 16 * (ah % 16) + (al % 16), carry |-> Flag(up > 9)]
  BY <1>5, <1>6 DEF SumOfDigits
<1>8. Mos!Decimal(u) + Mos!Decimal(v) + c = 10 * ((u \div 16) + (v \div 16)) + low
  BY DEF Mos!Decimal, Byte, Bool
<1>. DEFINE s == 16 * (ah % 16) + (al % 16)
<1>9. s % 16 = al % 16 /\ s \div 16 = ah % 16
  <2>. HIDE DEF ah, al
  <2>1. ah % 16 \in Int /\ al % 16 \in 0 .. 15
    BY <1>6
  <2>. QED  BY <2>1, DigitsOf
<1>10. Mos!IsDecimal(s) /\ Mos!Decimal(s) = 10 * (ah % 16) + (al % 16)
  BY <1>6, <1>9 DEF Mos!IsDecimal, Mos!Decimal
<1>. DEFINE n == Mos!Decimal(u) + Mos!Decimal(v) + c
<1>11. n = 10 * up - 10 * Flag(low > 9) + low
  <2>1. up = (u \div 16) + (v \div 16) + Flag(low > 9)
    BY <1>3
  <2>. HIDE DEF up, low
  <2>. QED  BY <2>1, <1>8, <1>1, <1>2 DEF Flag
<1>12. 10 * (ah % 16) + (al % 16) = n % 100 /\ (n > 99 <=> up > 9)
  <2>. HIDE DEF up, low, n, ah, al
  <2>1. n = 10 * up + (al % 16) /\ al % 16 \in 0 .. 9
    BY <1>11, <1>3, <1>2, <1>4 DEF Flag
  <2>. QED  BY <2>1, <1>4, <1>5
<1>. QED  BY <1>7, <1>10, <1>12 DEF Flag

\* And the corrected difference the difference modulo a hundred
LEMMA DifferenceOfDigitsIs ==
    ASSUME NEW u \in Byte, NEW v \in Byte, NEW c \in Bool, Mos!IsDecimal(u), Mos!IsDecimal(v)
    PROVE  LET r == DifferenceOfDigits(u, v, c)
           IN  Mos!IsDecimal(r) /\ Mos!Decimal(r) = (Mos!Decimal(u) - Mos!Decimal(v) - c) % 100
<1>1. u % 16 \in 0 .. 9 /\ u \div 16 \in 0 .. 9 /\ v % 16 \in 0 .. 9 /\ v \div 16 \in 0 .. 9
  BY DEF Mos!IsDecimal, Byte
<1>2. PICK lo \in -10 .. 9 : lo = (u % 16) - (v % 16) - c
  BY <1>1 DEF Bool
<1>. DEFINE low == Wrapped(lo)
            al == Adjusted(low)
<1>3. Bit(low, 16) = Flag(lo < 0) /\ al % 16 = (IF lo < 0 THEN lo + 10 ELSE lo)
  BY DigitDifference
<1>4. PICK hi \in -10 .. 9 : hi = (u \div 16) - (v \div 16) - Bit(low, 16)
  <2>1. Bit(low, 16) \in {0, 1}
    BY <1>3 DEF Flag
  <2>. HIDE DEF low
  <2>. QED  BY <1>1, <2>1
<1>. DEFINE up == Wrapped(hi)
            ah == Adjusted(up)
<1>5. ah % 16 = (IF hi < 0 THEN hi + 10 ELSE hi) /\ ah \in Int
  BY DigitDifference
<1>6. (16 * ah + (al % 16)) % 256 = 16 * (ah % 16) + (al % 16) /\ al % 16 \in 0 .. 9 /\ ah % 16 \in 0 .. 9
  <2>. HIDE DEF al, ah
  <2>1. al % 16 \in 0 .. 9 /\ ah % 16 \in 0 .. 9
    BY <1>3, <1>5
  <2>2. PICK p \in Int, q \in 0 .. 15 : p = ah /\ q = al % 16
    BY <2>1, <1>5
  <2>3. (16 * p + q) % 256 = 16 * (p % 16) + q
    BY DigitsOf
  <2>. QED  BY <2>1, <2>2, <2>3
<1>. DEFINE s == 16 * (ah % 16) + (al % 16)
<1>7. DifferenceOfDigits(u, v, c) = s
  BY <1>2, <1>4, <1>6 DEF DifferenceOfDigits
<1>9. s % 16 = al % 16 /\ s \div 16 = ah % 16
  <2>. HIDE DEF ah, al
  <2>1. ah % 16 \in Int /\ al % 16 \in 0 .. 15
    BY <1>6
  <2>. QED  BY <2>1, DigitsOf
<1>10. Mos!IsDecimal(s) /\ Mos!Decimal(s) = 10 * (ah % 16) + (al % 16)
  BY <1>6, <1>9 DEF Mos!IsDecimal, Mos!Decimal
<1>. DEFINE n == Mos!Decimal(u) - Mos!Decimal(v) - c
<1>11. n = 10 * hi + 10 * Flag(lo < 0) + lo
  <2>1. hi = (u \div 16) - (v \div 16) - Flag(lo < 0)
    BY <1>3, <1>4
  <2>2. n = 10 * ((u \div 16) - (v \div 16)) + lo
    BY <1>2 DEF Mos!Decimal, Byte, Bool
  <2>. HIDE DEF n
  <2>. QED  BY <2>1, <2>2, <1>1 DEF Flag
<1>12. 10 * (ah % 16) + (al % 16) = n % 100
  <2>. HIDE DEF n, ah, al
  <2>1. n = 10 * hi + (al % 16) /\ al % 16 \in 0 .. 9
    BY <1>11, <1>3 DEF Flag
  <2>. QED  BY <2>1, <1>5
<1>. QED  BY <1>7, <1>10, <1>12

-----------------------------------------------------------------------------
(* Memory *)

\* The four switches are the mode of Mos6502 in another code
LEMMA SwitchesAreMode ==
    ASSUME NEW p
    PROVE  LET c == new_config(p)
               m == Mos!Mode(p)
           IN  /\ c \in Banks /\ m \in 0 .. 7
               /\ c.basic_in = 1 <=> m \in {3, 7}
               /\ c.char_in = 1 <=> m \in {1, 2, 3}
               /\ c.io_in = 1 <=> m \in {5, 6, 7}
               /\ c.kernal_in = 1 <=> m \in {2, 3, 6, 7}
<1>. DEFINE Line(w) == Bit(p.ddr, w) = 0 \/ Bit(p.pr, w) = 1
<1>1. Mos!Mode(p) = Flag(Line(1)) + 2 * Flag(Line(2)) + 4 * Flag(Line(4))
  BY DEF Mos!Mode, Mos!Flag, Mos!Bit, Flag, Bit
<1>2. new_config(p) = [basic_in  |-> Flag(Line(1) /\ Line(2)), kernal_in |-> Flag(Line(2)),
                       char_in |-> Flag((Line(1) \/ Line(2)) /\ ~Line(4)),
                       io_in |-> Flag((Line(1) \/ Line(2)) /\ Line(4))]
  BY DEF new_config
<1>. HIDE DEF Line
<1>. QED  BY <1>1, <1>2 DEF Flag, Banks, Bool

\* The pages of the I/O area, and of the map
LEMMA ChipsAre ==
    ASSUME NEW adr \in Int, 53248 <= adr, adr <= 57343
    PROVE  IoChip(adr) = Mos!Chip(adr)
<1>. DEFINE page == (adr \div 256) % 16
<1>1. page = (adr \div 256) - 208
  OBVIOUS
<1>2. /\ page < 4 <=> adr <= 54271
      /\ page \in 4 .. 7 <=> 54272 <= adr /\ adr <= 55295
      /\ page \in 8 .. 11 <=> 55296 <= adr /\ adr <= 56319
      /\ page = 12 <=> 56320 <= adr /\ adr <= 56575
      /\ page = 13 <=> 56576 <= adr /\ adr <= 56831
  BY <1>1
<1>3. IoChip(adr) = CASE page < 4  -> "VIC"
        [] page \in 4 .. 7 -> "SID"
        [] page \in 8 .. 11 -> "colour"
        [] page = 12 -> "CIA1"
        [] page = 13 -> "CIA2"
        [] OTHER -> "open"
  BY DEF IoChip
<1>4. Mos!Chip(adr) = CASE Within(adr, 53248, 54271) -> "VIC"
        [] Within(adr, 54272, 55295) -> "SID"
        [] Within(adr, 55296, 56319) -> "colour"
        [] Within(adr, 56320, 56575) -> "CIA1"
        [] Within(adr, 56576, 56831) -> "CIA2"
        [] OTHER -> "open"
  BY DEF Mos!Chip, Within
<1>5. /\ Within(adr, 53248, 54271) <=> adr <= 54271
      /\ Within(adr, 54272, 55295) <=> 54272 <= adr /\ adr <= 55295
      /\ Within(adr, 55296, 56319) <=> 55296 <= adr /\ adr <= 56319
      /\ Within(adr, 56320, 56575) <=> 56320 <= adr /\ adr <= 56575
      /\ Within(adr, 56576, 56831) <=> 56576 <= adr /\ adr <= 56831
  BY WithinIs
<1>6. page \in Int
  OBVIOUS
<1>. HIDE DEF page
<1>. QED  BY <1>2, <1>3, <1>4, <1>5, <1>6

\* The code selects by the page of an address, Mos6502 by the bounds of the area
LEMMA PagesAre ==
    ASSUME NEW adr \in Word
    PROVE  LET page == adr \div 4096 IN
           /\ page \in {10, 11} <=> Within(adr, 40960, 49151)
           /\ page = 13 <=> Within(adr, 53248, 57343)
           /\ page \in {14, 15} <=> Within(adr, 57344, 65535)
<1>. DEFINE page == adr \div 4096
<1>1. adr \in Int /\ 0 <= adr /\ adr <= 65535
  BY WordIs
<1>2. page \in Int /\ 4096 * page <= adr /\ adr < 4096 * page + 4096
  BY <1>1
<1>. HIDE DEF page
<1>3. page \in {10, 11} <=> 40960 <= adr /\ adr <= 49151
  BY <1>1, <1>2
<1>4. page = 13 <=> 53248 <= adr /\ adr <= 57343
  BY <1>1, <1>2
<1>5. page \in {14, 15} <=> 57344 <= adr /\ adr <= 65535
  BY <1>1, <1>2
<1>. QED  BY <1>1, <1>3, <1>4, <1>5, WithinIs DEF page

LEMMA AreaIs ==
    ASSUME NEW m, NEW adr
    PROVE  Mos!Area(m, adr) =
             CASE Within(adr, 40960, 49151) /\ m \in {3, 7} -> "basic"
               [] Within(adr, 53248, 57343) /\ m \in {1, 2, 3} -> "char"
               [] Within(adr, 53248, 57343) /\ m \in {5, 6, 7} -> "io"
               [] Within(adr, 57344, 65535) /\ m \in {2, 3, 6, 7} -> "kernal"
               [] OTHER -> "ram"
BY DEF Mos!Area, Within

\* I/O is seen in one area only, and the zero page is always RAM
LEMMA AreasAre ==
    ASSUME NEW m \in 0 .. 7, NEW adr \in Word
    PROVE  /\ Mos!Area(m, adr) = "io" <=> Within(adr, 53248, 57343) /\ m \in {5, 6, 7}
           /\ adr \in Byte => Mos!Area(m, adr) = "ram"
<1>1. adr \in Int /\ 0 <= adr /\ adr <= 65535
  BY WordIs
<1>2. Within(adr, 53248, 57343) => ~Within(adr, 40960, 49151) /\ ~Within(adr, 57344, 65535)
  BY <1>1, WithinIs
<1>3. adr \in Byte => /\ ~Within(adr, 53248, 57343) /\ ~Within(adr, 40960, 49151)
                      /\ ~Within(adr, 57344, 65535)
  BY <1>1, WithinIs, ByteIs
<1>. QED  BY <1>2, <1>3, AreaIs

\* jump() sets pc_base to the memory that the port shows at the address
LEMMA JumpsAreSeen ==
    ASSUME NEW p, NEW adr \in Word
    PROVE  BaseOf(new_config(p), adr) = Mos!Area(Mos!Mode(p), adr)
<1>. DEFINE page == adr \div 4096
            c == new_config(p)
            m == Mos!Mode(p)
<1>1. /\ page \in {10, 11} <=> Within(adr, 40960, 49151)
      /\ page = 13 <=> Within(adr, 53248, 57343)
      /\ page \in {14, 15} <=> Within(adr, 57344, 65535)
  BY PagesAre
<1>2. /\ c.io_in \in Bool /\ m \in 0 .. 7
      /\ c.basic_in = 1 <=> m \in {3, 7}
      /\ c.char_in = 1 <=> m \in {1, 2, 3}
      /\ c.io_in = 1 <=> m \in {5, 6, 7}
      /\ c.kernal_in = 1 <=> m \in {2, 3, 6, 7}
  BY SwitchesAreMode DEF Banks
<1>3. BaseOf(c, adr) = CASE page \in {10, 11} /\ c.basic_in = 1 -> "basic"
          [] page = 13 /\ c.io_in = 1 -> "io"
          [] page = 13 /\ c.io_in = 0 /\ c.char_in = 1 -> "char"
          [] page \in {14, 15} /\ c.kernal_in = 1 -> "kernal"
          [] OTHER -> "ram"
  BY DEF BaseOf
<1>. HIDE DEF page, c, m
<1>4. BaseOf(c, adr) = Mos!Area(m, adr)
  <2>1. adr \in Int /\ 0 <= adr /\ adr <= 65535
    BY WordIs
  <2>2. Within(adr, 53248, 57343) => ~Within(adr, 40960, 49151) /\ ~Within(adr, 57344, 65535)
    BY <2>1, WithinIs
  <2>. QED  BY <1>1, <1>2, <1>3, <2>2, AreaIs DEF Bool
<1>. QED  BY <1>4 DEF c, m

Switched == ram01 \in Ports /\ banks = new_config(ram01)

\* read_byte and read_zp look where the port says
LEMMA ReadsAreSeen ==
    ASSUME NEW adr \in Word, Switched
    PROVE  /\ read_byte(adr) = Mos!Cell(adr)
           /\ adr \in Byte => zp(adr) = Mos!Cell(adr)
<1>. DEFINE area == BaseOf(banks, adr)
            m == Mos!Mode(ram01)
<1>1. area = Mos!Area(m, adr) /\ m \in 0 .. 7
  BY JumpsAreSeen, SwitchesAreMode DEF Switched
<1>2. read_byte(adr) = << IF area = "io" THEN IoChip(adr) ELSE area, adr >>
  BY DEF read_byte, BaseOf
<1>3. Mos!Cell(adr) = << IF area = "io" THEN Mos!Chip(adr) ELSE area, adr >>
  BY <1>1 DEF Mos!Cell, Mos!Seen
<1>. HIDE DEF area, m
<1>4. area = "io" => IoChip(adr) = Mos!Chip(adr)
  <2>1. Mos!Area(m, adr) = "io" => Within(adr, 53248, 57343)
    BY <1>1, AreasAre
  <2>. QED  BY <1>1, <2>1, ChipsAre, WithinIs, WordIs
<1>5. adr \in Byte => area = "ram"
  BY <1>1, AreasAre
<1>. QED  BY <1>2, <1>3, <1>4, <1>5 DEF zp

\* write_byte and write_zp reach the chip or the RAM below the ROMs
LEMMA WritesReach ==
    ASSUME NEW adr \in Word, NEW v, Switched
    PROVE  /\ write_byte(adr, v) = Mos!Put(adr, v)
           /\ adr \in Byte => << "ram", adr, v >> = Mos!Put(adr, v)
<1>. DEFINE m == Mos!Mode(ram01)
            io == Within(adr, 53248, 57343) /\ banks.io_in = 1
<1>1. banks.io_in \in Bool /\ m \in 0 .. 7 /\ (banks.io_in = 1 <=> m \in {5, 6, 7})
  BY SwitchesAreMode DEF Switched, Banks
<1>. HIDE DEF m
<1>2. Mos!Area(m, adr) = "io" <=> io
  BY <1>1, AreasAre
<1>3. Mos!Put(adr, v) = << IF io THEN Mos!Chip(adr) ELSE "ram", adr, v >>
  BY <1>2 DEF Mos!Put, Mos!Reached, m
<1>4. write_byte(adr, v) = << IF io THEN IoChip(adr) ELSE "ram", adr, v >>
  <2>1. adr \in Int
    BY WordIs
  <2>2. Within(adr, 53248, 57343) <=> 53248 <= adr /\ adr < 57344
    BY <2>1, WithinIs
  <2>. QED  BY <1>1, <2>1, <2>2 DEF write_byte, Bool
<1>5. io => IoChip(adr) = Mos!Chip(adr)
  BY ChipsAre, WithinIs, WordIs
<1>6. adr \in Byte => ~io
  BY WithinIs, WordIs, ByteIs
<1>. HIDE DEF io
<1>. QED  BY <1>3, <1>4, <1>5, <1>6

\* A byte stored in cell 0 or 1 changes the port, and the switches with it
LEMMA StoredIs ==
    ASSUME NEW adr \in Word, NEW v \in Byte, Switched, StoresRam(adr, v)
    PROVE  Mos!Stored(adr, v) /\ Switched'
BY DEF StoresRam, Mos!Stored, Switched, memory, Ports, Word

-----------------------------------------------------------------------------
(* Operands *)

Registers ==
    /\ a \in Byte /\ x \in Byte /\ y \in Byte /\ sp \in Byte
    /\ n_flag \in Byte /\ z_flag \in Byte
    /\ v_flag \in Bool /\ d_flag \in Bool /\ i_flag \in Bool /\ c_flag \in Bool

Bases == {"ram", "basic", "kernal", "char", "io"}

Ready == Registers /\ pc \in Int /\ base \in Bases /\ Switched

\* What the step of an instruction leaves behind, its registers aside
Left == pc' \in Int /\ base' \in Bases /\ Switched'

LEMMA WrapsToByte == \A n \in Int : n % 256 \in Byte
BY ByteIs

LEMMA WrapsToWord == \A n \in Int : n % 65536 \in Word
BY WordIs

\* What memory delivers are bytes, and pairs of them words
LEMMA FieldsAre ==
    ASSUME NEW i \in Instruction
    PROVE  /\ i.b \in Byte /\ i.h \in Byte /\ i.lo \in Byte /\ i.hi \in Byte
           /\ i.m \in Byte /\ i.k \in Byte /\ Value(i) \in Byte
           /\ Operand(i) \in Word /\ Pointer(i) \in Word
<1>1. /\ i.b \in Byte /\ i.h \in Byte /\ i.lo \in Byte /\ i.hi \in Byte
      /\ i.m \in Byte /\ i.k \in Byte
  BY DEF Instruction
<1>2. \A lo \in Byte, hi \in Byte : lo + 256 * hi \in Word
  BY ByteIs, WordIs
<1>. QED  BY <1>1, <1>2 DEF Value, Operand, Pointer

\* The two modules read the operands alike
LEMMA SameOperands ==
    \A i : /\ Mos!Operand(i) = Operand(i) /\ Mos!Pointer(i) = Pointer(i)
           /\ Mos!Value(i) = Value(i) /\ Mos!Length(i) = Length(i)
BY DEF Mos!Operand, Operand, Mos!Pointer, Pointer, Mos!Value, Value, Mos!Length, Length

\* The addressing modes: the words that the code cuts are the addresses of the 6510
LEMMA AddressIs ==
    ASSUME NEW i \in Instruction, Registers
    PROVE  /\ read_adr(i) = Mos!Address(i) /\ read_adr(i) \in Word
           /\ ZeroPage(i) => read_adr(i) \in Byte
           /\ Via(i) = Mos!Via(i)
<1>1. i.b \in Int /\ i.b % 256 = i.b /\ x \in Int /\ y \in Int /\ Operand(i) \in Int /\ Pointer(i) \in Int
  BY FieldsAre, ByteIs, WordIs DEF Registers
<1>2. read_adr(i) = Mos!Address(i)
  BY SameOperands DEF read_adr, Mos!Address
<1>3. read_adr(i) \in Word
  <2>1. i.b \in Word /\ (i.b + x) % 256 \in Word /\ (i.b + y) % 256 \in Word
    BY <1>1, FieldsAre, ByteIs, WordIs
  <2>2. /\ (Operand(i) + x) % 65536 \in Word /\ (Operand(i) + y) % 65536 \in Word
        /\ (Pointer(i) + y) % 65536 \in Word
    BY <1>1, WrapsToWord
  <2>. QED  BY <2>1, <2>2, FieldsAre DEF read_adr
<1>4. ZeroPage(i) => read_adr(i) \in Byte
  <2>1. (i.b + x) % 256 \in Byte /\ (i.b + y) % 256 \in Byte
    BY <1>1, WrapsToByte
  <2>. QED  BY <2>1, FieldsAre DEF read_adr, ZeroPage
<1>5. Via(i) = Mos!Via(i)
  BY <1>1 DEF Via, Mos!Via
<1>. QED  BY <1>2, <1>3, <1>4, <1>5

LEMMA LengthIs == \A i : Length(i) \in Int
BY DEF Length

\* pc behind the operands
LEMMA FollowsIs ==
    ASSUME NEW i, Passes(i), pc \in Int
    PROVE  Mos!Follows(i) /\ pc' \in Int
<1>1. \A p \in Int, n \in Int : (p + n) % 65536 = ((p % 65536) + n) % 65536
  BY PcIs
<1>. QED  BY <1>1, LengthIs, SameOperands DEF Passes, Mos!Follows

LEMMA SwitchedStays ==
    ASSUME Switched, UNCHANGED memory
    PROVE  Switched' /\ UNCHANGED ram01
BY DEF Switched, memory

\* The three ways to use an operand, and none
LEMMA QuietIs ==
    ASSUME NEW i, Quiet(i), Ready
    PROVE  Mos!Follows(i) /\ Mos!Quiet /\ UNCHANGED ram01 /\ Left
<1>1. Mos!Follows(i) /\ pc' \in Int
  BY FollowsIs DEF Quiet, Ready
<1>2. Switched' /\ UNCHANGED ram01
  BY SwitchedStays DEF Quiet, Ready
<1>. QED  BY <1>1, <1>2 DEF Quiet, Ready, Left, Passes, Mos!Quiet, Mos!Bus, Bus

LEMMA LoadedIs ==
    ASSUME NEW i \in Instruction, Ready
    PROVE  Loaded(i) = Mos!Cell(Mos!Address(i))
BY AddressIs, ReadsAreSeen DEF Loaded, Ready

LEMMA StoredAtIs ==
    ASSUME NEW i \in Instruction, NEW v, Ready
    PROVE  StoredAt(i, v) = Mos!Put(Mos!Address(i), v)
BY AddressIs, WritesReach DEF StoredAt, Ready

LEMMA ReadsByteIs ==
    ASSUME NEW i \in Instruction, ReadsByte(i), Ready
    PROVE  /\ Mos!Follows(i) /\ UNCHANGED ram01 /\ Left
           /\ Mos!Bus(Mos!Via(i), IF i.mode = "imm" THEN << >> ELSE << Mos!Cell(Mos!Address(i)) >>,
                      << >>)
<1>1. Mos!Follows(i) /\ pc' \in Int
  BY FollowsIs DEF ReadsByte, Ready
<1>2. Switched' /\ UNCHANGED ram01
  BY SwitchedStays DEF ReadsByte, Ready
<1>3. Via(i) = Mos!Via(i) /\ Loaded(i) = Mos!Cell(Mos!Address(i))
  BY AddressIs, LoadedIs DEF Ready
<1>. QED  BY <1>1, <1>2, <1>3 DEF ReadsByte, Ready, Left, Passes, Mos!Bus, Bus

LEMMA WritesByteIs ==
    ASSUME NEW i \in Instruction, NEW v \in Byte, WritesByte(i, v), Ready
    PROVE  /\ Mos!Follows(i) /\ Mos!Stored(Mos!Address(i), v) /\ Left
           /\ Mos!Bus(Mos!Via(i), << >>, << Mos!Put(Mos!Address(i), v) >>)
<1>1. Mos!Follows(i) /\ pc' \in Int
  BY FollowsIs DEF WritesByte, Ready
<1>2. Via(i) = Mos!Via(i) /\ read_adr(i) = Mos!Address(i) /\ read_adr(i) \in Word
  BY AddressIs DEF Ready
<1>3. StoredAt(i, v) = Mos!Put(Mos!Address(i), v)
  BY StoredAtIs
<1>4. Mos!Stored(read_adr(i), v) /\ Switched'
  BY <1>2, StoredIs DEF WritesByte, Ready
<1>. QED  BY <1>1, <1>2, <1>3, <1>4 DEF WritesByte, Ready, Left, Passes, Mos!Bus, Bus

LEMMA ModifiesIs ==
    ASSUME NEW i \in Instruction, NEW v \in Byte, Modifies(i, v), Ready
    PROVE  /\ Mos!Follows(i) /\ Mos!Stored(Mos!Address(i), v) /\ Left
           /\ Mos!Bus(Mos!Via(i), << Mos!Cell(Mos!Address(i)) >>, << Mos!Put(Mos!Address(i), v) >>)
<1>1. Mos!Follows(i) /\ pc' \in Int
  BY FollowsIs DEF Modifies, Ready
<1>2. Via(i) = Mos!Via(i) /\ read_adr(i) = Mos!Address(i) /\ read_adr(i) \in Word
  BY AddressIs DEF Ready
<1>3. StoredAt(i, v) = Mos!Put(Mos!Address(i), v) /\ Loaded(i) = Mos!Cell(Mos!Address(i))
  BY StoredAtIs, LoadedIs
<1>4. Mos!Stored(read_adr(i), v) /\ Switched'
  BY <1>2, StoredIs DEF Modifies, Ready
<1>. QED  BY <1>1, <1>2, <1>3, <1>4 DEF Modifies, Ready, Left, Passes, Mos!Bus, Bus

\* A jump with the switches of the port that is there after it
LEMMA ContinuesIs ==
    ASSUME NEW adr \in Word, Switched', jump(new_config(ram01'), adr)
    PROVE  Mos!Continues(adr) /\ Left
<1>1. base' = Mos!Area(Mos!Mode(ram01'), adr)
  BY JumpsAreSeen DEF jump
<1>2. adr \in Int /\ adr % 65536 = adr
  BY WordIs
<1>3. base' \in Bases
  BY <1>1, AreaIs DEF Bases
<1>. QED  BY <1>1, <1>2, <1>3 DEF jump, Mos!Continues, Left

-----------------------------------------------------------------------------
(* Results and flags *)

\* The operators on bytes of the two modules are the same
LEMMA SameBytes ==
    /\ Mos!Byte = Byte /\ Mos!Bool = Bool
    /\ \A u, w : Mos!Bit(u, w) = Bit(u, w)
    /\ \A u, v : Mos!And(u, v) = And(u, v) /\ Mos!Or(u, v) = Or(u, v) /\ Mos!Xor(u, v) = Xor(u, v)
    /\ \A u : Mos!Signed(u) = Signed(u) /\ Mos!High(u) = High(u) /\ Mos!Low(u) = Low(u)
<1>1. \A u : Mos!Bits(u) = Bits(u)
  BY DEF Mos!Bits, Bits, Mos!Weights, Weights, Mos!Bit, Bit
<1>2. \A B : Mos!FromBits(B) = FromBits(B)
  BY DEF Mos!FromBits, FromBits
<1>3. \A u, v : Mos!And(u, v) = And(u, v) /\ Mos!Or(u, v) = Or(u, v) /\ Mos!Xor(u, v) = Xor(u, v)
  BY <1>1, <1>2 DEF Mos!And, And, Mos!Or, Or, Mos!Xor, Xor
<1>. QED  BY <1>3 DEF Mos!Byte, Byte, Mos!Bool, Bool, Mos!Bit, Bit, Mos!Signed, Signed,
                     Mos!High, High, Mos!Low, Low

\* set_nz keeps the byte, whose bit 7 is N and which is zero for Z
LEMMA SetsNZ ==
    ASSUME NEW v \in Byte, set_nz(v)
    PROVE  Mos!NZ(v) /\ n_flag' \in Byte /\ z_flag' \in Byte
<1>1. Bit(v, 128) = Flag(v >= 128)
  BY BitIs
<1>. QED  BY <1>1 DEF set_nz, Mos!NZ, Mos!Flag, Flag

LEMMA SetsRegister ==
    ASSUME NEW v \in Byte
    PROVE  /\ SetA(v) => Mos!LoadA(v) /\ a' \in Byte
           /\ SetX(v) => Mos!LoadX(v) /\ x' \in Byte
           /\ SetY(v) => Mos!LoadY(v) /\ y' \in Byte
           /\ SetA(v) \/ SetX(v) \/ SetY(v) => n_flag' \in Byte /\ z_flag' \in Byte
BY SetsNZ DEF SetA, SetX, SetY, Mos!LoadA, Mos!LoadX, Mos!LoadY

\* CMP, CPX and CPY: the borrow of the sixteen bits is the order of the bytes
LEMMA ComparedIs ==
    ASSUME NEW v \in Byte, NEW m \in Byte, Compared(v, m)
    PROVE  Mos!Compares(v, m) /\ n_flag' \in Byte /\ z_flag' \in Byte /\ c_flag' \in Bool
<1>. DEFINE d == (v - m) % 65536
            r == (v - m) % 256
<1>1. v \in Int /\ m \in Int /\ 0 <= v /\ v <= 255 /\ 0 <= m /\ m <= 255
  BY ByteIs
<1>2. d % 256 = r /\ (d < 256 <=> v - m >= 0)
  BY <1>1
<1>3. r \in Byte /\ (r = 0 <=> v = m)
  BY <1>1, WrapsToByte
<1>4. set_nz(r) /\ c_flag' = Flag(v >= m)
  BY <1>1, <1>2 DEF Compared
<1>5. Mos!NZ(r) /\ n_flag' \in Byte /\ z_flag' \in Byte
  BY <1>3, <1>4, SetsNZ
<1>. QED  BY <1>1, <1>3, <1>4, <1>5 DEF Mos!Compares, Mos!NZ, Mos!Flag, Flag, Bool

LEMMA FlagIs == \A p : Flag(p) \in Bool
BY DEF Flag, Bool

LEMMA NIs ==
    ASSUME n_flag' \in Byte
    PROVE  Bit(n_flag, 128)' \in Bool
<1>1. Bit(n_flag', 128) \in Bool
  BY BitIs DEF Weights
<1>. QED  BY <1>1

\* do_adc in decimal mode
LEMMA DecimalAdcIs ==
    ASSUME NEW m \in Byte, NEW c \in Bool, a \in Byte, do_adc_bcd(m, c), d_flag = 1
    PROVE  /\ Mos!Adds(m, c) /\ a' \in Byte /\ n_flag' \in Byte /\ z_flag' \in Byte
           /\ v_flag' \in Bool /\ c_flag' \in Bool
<1>1. a \in Int /\ m \in Int /\ c \in Int
  BY ByteIs DEF Bool
<1>2. z_flag' = (a + m + c) % 256 /\ (a + m + c) % 256 \in Byte
  BY <1>1, WrapsToByte DEF do_adc_bcd
<1>3. v_flag' \in Bool /\ c_flag' \in Bool
  BY FlagIs DEF do_adc_bcd
<1>4. n_flag' \in Byte /\ a' \in Byte
  <2>. DEFINE low == (a % 16) + (m % 16) + c
              al == IF low > 9 THEN low + 6 ELSE low
              up == (a \div 16) + (m \div 16) + Flag(al > 15)
              ah == IF up > 9 THEN up + 6 ELSE up
  <2>1. al \in Int /\ up \in Int /\ ah \in Int
    BY <1>1 DEF Flag
  <2>2. n_flag' = (16 * up) % 256 /\ a' = (16 * ah + (al % 16)) % 256
    BY DEF do_adc_bcd
  <2>. HIDE DEF al, up, ah
  <2>3. 16 * up \in Int /\ 16 * ah + (al % 16) \in Int
    BY <2>1
  <2>. QED  BY <2>2, <2>3, WrapsToByte
<1>5. a' = SumOfDigits(a, m, c).sum /\ c_flag' = SumOfDigits(a, m, c).carry
  BY DEF do_adc_bcd, SumOfDigits
<1>. DEFINE decimal == Mos!Decimal(a) + Mos!Decimal(m) + c
<1>6. ASSUME Mos!IsDecimal(a), Mos!IsDecimal(m)
      PROVE  Mos!IsDecimal(a') /\ Mos!Decimal(a') = decimal % 100 /\ c_flag' = Flag(decimal > 99)
  BY <1>5, <1>6, SumOfDigitsIs
<1>7. Mos!Digits(m, decimal)
  BY <1>6 DEF Mos!Digits
<1>8. Flag(z_flag = 0)' = Mos!Flag((a + m + c) % 256 = 0)
  BY <1>2 DEF Flag, Mos!Flag
<1>9. Mos!IsDecimal(a) /\ Mos!IsDecimal(m) => c_flag' = Mos!Flag(decimal > 99)
  BY <1>6 DEF Flag, Mos!Flag
<1>10. Bit(n_flag, 128)' \in Bool
  BY <1>4, NIs
<1>. HIDE DEF decimal
<1>11. /\ a' \in Mos!Byte /\ c_flag' \in Mos!Bool /\ Bit(n_flag, 128)' \in Mos!Bool /\ v_flag' \in Mos!Bool
  BY <1>3, <1>4, <1>10, SameBytes
<1>12. Mos!Adds(m, c)
  BY <1>7, <1>8, <1>9, <1>11 DEF Mos!Adds, decimal
<1>. QED  BY <1>2, <1>3, <1>4, <1>12

\* ADC: a sum of bytes or of decimals, carry and signed overflow
LEMMA AdcIs ==
    ASSUME NEW m \in Byte, NEW c \in Bool, Registers, DoAdc(m, c)
    PROVE  /\ Mos!Adds(m, c) /\ a' \in Byte /\ n_flag' \in Byte /\ z_flag' \in Byte
           /\ v_flag' \in Bool /\ c_flag' \in Bool
<1>1. CASE d_flag = 1
  BY <1>1, DecimalAdcIs DEF DoAdc, Registers
<1>2. CASE d_flag # 1
  <2>. DEFINE sum == a + m + c
  <2>1. sum \in Int /\ sum % 256 \in Byte
    BY ByteIs, WrapsToByte DEF Registers, Bool
  <2>2. /\ c_flag' = Flag(sum > 255) /\ set_nz(sum % 256) /\ a' = sum % 256
        /\ v_flag' = Flag(Bit(a, 128) = Bit(m, 128) /\ Bit(a, 128) # Bit(sum, 128))
    BY <1>2 DEF DoAdc
  <2>3. (Bit(a, 128) = Bit(m, 128) /\ Bit(a, 128) # Bit(sum, 128))
        <=> Signed(a) + Signed(m) + c \notin -128 .. 127
    BY SumOverflows DEF Registers
  <2>. HIDE DEF sum
  <2>4. Mos!NZ(sum % 256) /\ n_flag' \in Byte /\ z_flag' \in Byte
    BY <2>1, <2>2, SetsNZ
  <2>5. v_flag' = Mos!Flag(Mos!Signed(a) + Mos!Signed(m) + c \notin -128 .. 127)
    BY <2>2, <2>3, SameBytes DEF Flag, Mos!Flag
  <2>6. c_flag' = Mos!Flag(sum > 255)
    BY <2>2 DEF Flag, Mos!Flag
  <2>7. Mos!Adds(m, c)
    BY <1>2, <2>2, <2>4, <2>5, <2>6 DEF Mos!Adds, sum
  <2>. QED  BY <2>1, <2>2, <2>4, <2>7, FlagIs
<1>. QED  BY <1>1, <1>2

\* do_sbc in decimal mode
LEMMA DecimalSbcIs ==
    ASSUME NEW m \in Byte, NEW c \in Bool, a \in Byte, do_sbc_bcd(m, c), d_flag = 1
    PROVE  /\ Mos!Subtracts(m, c) /\ a' \in Byte /\ n_flag' \in Byte /\ z_flag' \in Byte
           /\ v_flag' \in Bool /\ c_flag' \in Bool
<1>. DEFINE b == 1 - c
            n == a - m - b
<1>1. a \in Int /\ m \in Int /\ b \in Bool /\ b \in Int /\ n \in Int
  BY ByteIs DEF Bool
<1>2. (n % 65536) % 256 = n % 256 /\ (n % 65536 < 256 <=> n >= 0)
  <2>. HIDE DEF b
  <2>. QED  BY <1>1, DifferenceIs
<1>3. /\ set_nz((n % 65536) % 256) /\ c_flag' = Flag(n % 65536 < 256)
      /\ v_flag' \in Bool
  BY FlagIs DEF do_sbc_bcd
<1>4. a' = DifferenceOfDigits(a, m, b)
  BY DEF do_sbc_bcd, DifferenceOfDigits, Adjusted, Wrapped
<1>. HIDE DEF b
<1>5. a' \in Byte
  <2>. DEFINE low == Wrapped((a % 16) - (m % 16) - b)
              up == Wrapped((a \div 16) - (m \div 16) - Bit(low, 16))
  <2>1. \A w \in Int : Bit(w, 16) \in Int /\ Wrapped(w) \in Int
    BY DEF Bit, Wrapped
  <2>2. low \in Int
    BY <1>1, <2>1
  <2>3. up \in Int
    <3>. HIDE DEF low
    <3>. QED  BY <1>1, <2>1, <2>2
  <2>. HIDE DEF low, up
  <2>4. Adjusted(low) \in Int /\ Adjusted(up) \in Int
    BY <2>1, <2>2, <2>3 DEF Adjusted
  <2>5. 16 * Adjusted(up) + (Adjusted(low) % 16) \in Int
    BY <2>4
  <2>6. a' = (16 * Adjusted(up) + (Adjusted(low) % 16)) % 256
    BY <1>4 DEF DifferenceOfDigits, low, up
  <2>. QED  BY <2>5, <2>6, WrapsToByte
<1>6. n % 256 \in Byte
  BY <1>1, WrapsToByte
<1>. HIDE DEF n
<1>7. Mos!NZ(n % 256) /\ n_flag' \in Byte /\ z_flag' \in Byte
  BY <1>2, <1>3, <1>6, SetsNZ
<1>. DEFINE decimal == Mos!Decimal(a) - Mos!Decimal(m) - b
<1>8. Mos!Digits(m, decimal)
  BY <1>1, <1>4, DifferenceOfDigitsIs DEF Mos!Digits
<1>9. Flag(z_flag = 0)' = Mos!Flag(n % 256 = 0) /\ c_flag' = Mos!Flag(n >= 0)
  BY <1>2, <1>3, <1>7 DEF Mos!NZ, Flag, Mos!Flag
<1>10. Bit(n_flag, 128)' \in Mos!Bool /\ v_flag' \in Mos!Bool /\ a' \in Mos!Byte
  BY <1>3, <1>5, <1>7, NIs, SameBytes
<1>. HIDE DEF decimal
<1>11. Mos!Subtracts(m, c)
  BY <1>8, <1>9, <1>10 DEF Mos!Subtracts, decimal, n, b
<1>. QED  BY <1>3, <1>5, <1>7, <1>11, FlagIs

\* SBC: a difference of bytes or of decimals, borrow and signed overflow
LEMMA SbcIs ==
    ASSUME NEW m \in Byte, NEW c \in Bool, Registers, DoSbc(m, c)
    PROVE  /\ Mos!Subtracts(m, c) /\ a' \in Byte /\ n_flag' \in Byte /\ z_flag' \in Byte
           /\ v_flag' \in Bool /\ c_flag' \in Bool
<1>1. CASE d_flag = 1
  BY <1>1, DecimalSbcIs DEF DoSbc, Registers
<1>2. CASE d_flag # 1
  <2>. DEFINE b == 1 - c
              n == a - m - b
  <2>1. b \in Bool /\ n \in Int /\ n % 256 \in Byte
    BY ByteIs, WrapsToByte DEF Registers, Bool
  <2>2. /\ c_flag' = Flag(n % 65536 < 256) /\ set_nz((n % 65536) % 256) /\ a' = (n % 65536) % 256
        /\ v_flag' = Flag(Bit(a, 128) # Bit(n % 65536, 128) /\ Bit(a, 128) # Bit(m, 128))
    BY <1>2 DEF DoSbc
  <2>. HIDE DEF b
  <2>3. /\ (n % 65536) % 256 = n % 256 /\ (n % 65536 < 256 <=> n >= 0)
        /\ (Bit(a, 128) # Bit(n % 65536, 128) /\ Bit(a, 128) # Bit(m, 128))
           <=> Signed(a) - Signed(m) - b \notin -128 .. 127
    BY <2>1, DifferenceIs DEF Registers
  <2>. HIDE DEF n
  <2>4. Mos!NZ(n % 256) /\ n_flag' \in Byte /\ z_flag' \in Byte /\ a' = n % 256
    BY <2>1, <2>2, <2>3, SetsNZ
  <2>5. v_flag' = Mos!Flag(Mos!Signed(a) - Mos!Signed(m) - b \notin -128 .. 127)
    BY <2>2, <2>3, SameBytes DEF Flag, Mos!Flag
  <2>6. c_flag' = Mos!Flag(n >= 0)
    BY <2>2, <2>3 DEF Flag, Mos!Flag
  <2>7. Mos!Subtracts(m, c)
    BY <1>2, <2>4, <2>5, <2>6 DEF Mos!Subtracts, n, b
  <2>. QED  BY <2>1, <2>2, <2>4, <2>7, FlagIs
<1>. QED  BY <1>1, <1>2

-----------------------------------------------------------------------------
(* The opcodes that read an operand *)

\* An opcode that reads its operand and sets registers from it
LEMMA ReadsIs ==
    ASSUME NEW i \in Instruction, Ready, ReadsByte(i), UNCHANGED <<d_flag, i_flag>>,
           Mos!Loads(i.op, Value(i)) \/ Mos!Computes(i.op, Value(i))
    PROVE  Mos!Reads(i) /\ Left
BY ReadsByteIs, SameOperands DEF Mos!Reads

\* LDA, LDX, LDY
LEMMA LoadGroupIs ==
    ASSUME NEW i \in Instruction, Ready, LoadGroup(i)
    PROVE  Mos!Reads(i) /\ Left /\ Registers'
<1>. DEFINE m == Value(i)
<1>1. m \in Byte
  BY FieldsAre
<1>. HIDE DEF m
<1>2. /\ ReadsByte(i) /\ UNCHANGED <<v_flag, d_flag, i_flag, c_flag>>
      /\ \/ i.op = "LDA" /\ SetA(m)
         \/ i.op = "LDX" /\ SetX(m)
         \/ i.op = "LDY" /\ SetY(m)
  BY DEF LoadGroup, m
<1>3. Mos!Loads(i.op, m) /\ Registers'
  BY <1>1, <1>2, SetsRegister DEF Mos!Loads, Ready, Registers, SetA, SetX, SetY
<1>. QED  BY <1>2, <1>3, ReadsIs DEF m

\* AND, ORA, EOR
LEMMA LogicGroupIs ==
    ASSUME NEW i \in Instruction, Ready, LogicGroup(i)
    PROVE  Mos!Reads(i) /\ Left /\ Registers'
<1>. DEFINE m == Value(i)
<1>1. And(a, m) \in Byte /\ Or(a, m) \in Byte /\ Xor(a, m) \in Byte
  BY LogicIs
<1>. HIDE DEF m
<1>2. /\ ReadsByte(i) /\ UNCHANGED <<v_flag, d_flag, i_flag, c_flag>>
      /\ \/ i.op = "AND" /\ SetA(And(a, m))
         \/ i.op = "ORA" /\ SetA(Or(a, m))
         \/ i.op = "EOR" /\ SetA(Xor(a, m))
  BY DEF LogicGroup, m
<1>3. Mos!Loads(i.op, m) /\ Registers'
  BY <1>1, <1>2, SetsRegister, SameBytes DEF Mos!Loads, Ready, Registers, SetA
<1>. QED  BY <1>2, <1>3, ReadsIs DEF m

\* ADC, SBC
LEMMA ArithmeticGroupIs ==
    ASSUME NEW i \in Instruction, Ready, ArithmeticGroup(i)
    PROVE  Mos!Reads(i) /\ Left /\ Registers'
<1>. DEFINE m == Value(i)
<1>1. m \in Byte
  BY FieldsAre
<1>. HIDE DEF m
<1>2. /\ ReadsByte(i) /\ UNCHANGED <<x, y, sp, d_flag, i_flag>>
      /\ \/ i.op = "ADC" /\ DoAdc(m, c_flag)
         \/ i.op = "SBC" /\ DoSbc(m, c_flag)
  BY DEF ArithmeticGroup, m
<1>3. Registers /\ c_flag \in Bool
  BY DEF Ready, Registers
<1>4. CASE i.op = "ADC" /\ DoAdc(m, c_flag)
  <2>1. /\ Mos!Adds(m, c_flag) /\ a' \in Byte /\ n_flag' \in Byte /\ z_flag' \in Byte
        /\ v_flag' \in Bool /\ c_flag' \in Bool
    BY <1>1, <1>3, <1>4, AdcIs
  <2>2. Mos!Computes(i.op, m) /\ Registers'
    BY <1>2, <1>3, <1>4, <2>1 DEF Mos!Computes, Registers
  <2>. QED  BY <1>2, <2>2, ReadsIs DEF m
<1>5. CASE i.op = "SBC" /\ DoSbc(m, c_flag)
  <2>1. /\ Mos!Subtracts(m, c_flag) /\ a' \in Byte /\ n_flag' \in Byte /\ z_flag' \in Byte
        /\ v_flag' \in Bool /\ c_flag' \in Bool
    BY <1>1, <1>3, <1>5, SbcIs
  <2>2. Mos!Computes(i.op, m) /\ Registers'
    BY <1>2, <1>3, <1>5, <2>1 DEF Mos!Computes, Registers
  <2>. QED  BY <1>2, <2>2, ReadsIs DEF m
<1>. QED  BY <1>2, <1>4, <1>5

\* CMP, CPX, CPY
LEMMA CompareGroupIs ==
    ASSUME NEW i \in Instruction, Ready, CompareGroup(i)
    PROVE  Mos!Reads(i) /\ Left /\ Registers'
<1>. DEFINE m == Value(i)
<1>1. m \in Byte /\ Registers
  BY FieldsAre DEF Ready
<1>. HIDE DEF m
<1>2. /\ ReadsByte(i) /\ UNCHANGED axys
      /\ \/ i.op = "CMP" /\ Compared(a, m)
         \/ i.op = "CPX" /\ Compared(x, m)
         \/ i.op = "CPY" /\ Compared(y, m)
  BY DEF CompareGroup, m
<1>3. UNCHANGED <<v_flag, d_flag, i_flag>>
  BY <1>2 DEF Compared
<1>4. /\ n_flag' \in Byte /\ z_flag' \in Byte /\ c_flag' \in Bool
      /\ \/ i.op = "CMP" /\ Mos!Compares(a, m)
         \/ i.op = "CPX" /\ Mos!Compares(x, m)
         \/ i.op = "CPY" /\ Mos!Compares(y, m)
  BY <1>1, <1>2, ComparedIs DEF Registers
<1>5. Mos!Computes(i.op, m) /\ Registers'
  BY <1>1, <1>2, <1>3, <1>4 DEF Mos!Computes, Mos!axys, axys, Registers
<1>. QED  BY <1>2, <1>3, <1>5, ReadsIs DEF m

\* BIT
LEMMA BitGroupIs ==
    ASSUME NEW i \in Instruction, Ready, BitGroup(i)
    PROVE  Mos!Reads(i) /\ Left /\ Registers'
<1>. DEFINE m == Value(i)
<1>1. m \in Byte /\ Registers
  BY FieldsAre DEF Ready
<1>2. And(a, m) \in Byte /\ Bit(m, 64) \in Bool
  BY <1>1, LogicIs, BitIs DEF Weights
<1>. HIDE DEF m
<1>3. /\ i.op = "BIT" /\ ReadsByte(i) /\ UNCHANGED <<axys, d_flag, i_flag, c_flag>>
      /\ z_flag' = And(a, m) /\ n_flag' = m /\ v_flag' = Bit(m, 64)
  BY DEF BitGroup, m
<1>4. Mos!Computes(i.op, m) /\ Registers'
  BY <1>1, <1>2, <1>3, SameBytes DEF Mos!Computes, Mos!axys, axys, Registers, Mos!Flag, Flag
<1>. QED  BY <1>3, <1>4, ReadsIs DEF m

\* LAX
LEMMA LoadAXGroupIs ==
    ASSUME NEW i \in Instruction, Ready, LoadAXGroup(i)
    PROVE  Mos!Reads(i) /\ Left /\ Registers'
<1>. DEFINE m == Value(i)
<1>1. m \in Byte /\ Registers
  BY FieldsAre DEF Ready
<1>. HIDE DEF m
<1>2. /\ i.op = "LAX" /\ ReadsByte(i) /\ a' = m /\ x' = m /\ set_nz(m)
      /\ UNCHANGED <<y, sp, v_flag, d_flag, i_flag, c_flag>>
  BY DEF LoadAXGroup, m
<1>3. Mos!NZ(m) /\ n_flag' \in Byte /\ z_flag' \in Byte
  BY <1>1, <1>2, SetsNZ
<1>4. Mos!Loads(i.op, m) /\ Registers'
  BY <1>1, <1>2, <1>3 DEF Mos!Loads, Mos!LoadAX, Registers
<1>. QED  BY <1>2, <1>4, ReadsIs DEF m

\* Shifts and rotations as products and quotients
LEMMA ShiftsAre ==
    ASSUME NEW m \in Byte, c_flag \in Bool
    PROVE  /\ ShiftedLeft(m) \in Byte /\ ShiftedLeft(m) = Mos!Left(m)
           /\ ShiftedRight(m) \in Byte /\ ShiftedRight(m) = Mos!Right(m)
           /\ RotatedLeft(m) \in Byte /\ RotatedLeft(m) = Mos!RotatedLeft(m)
           /\ RotatedRight(m) \in Byte /\ RotatedRight(m) = Mos!RotatedRight(m)
<1>1. m \in Int /\ 0 <= m /\ m <= 255 /\ c_flag \in {0, 1}
  BY ByteIs DEF Bool
<1>2. ((2 * m) % 256) + c_flag = (2 * m + c_flag) % 256
  BY <1>1
<1>3. 2 * m + c_flag \in Int /\ 2 * m \in Int
  BY <1>1
<1>4. (m \div 2) \in Byte /\ (m \div 2) + 128 * c_flag \in Byte
  BY <1>1, ByteIs
<1>. QED  BY <1>2, <1>3, <1>4, WrapsToByte
          DEF ShiftedLeft, ShiftedRight, RotatedLeft, RotatedRight, Mos!Left, Mos!Right,
              Mos!RotatedLeft, Mos!RotatedRight

\* ARR in decimal mode: what is defined of it
LEMMA ArrIs ==
    ASSUME NEW w \in Byte, Registers, arr_bcd(w)
    PROVE  /\ a' \in Byte /\ c_flag' \in Bool /\ v_flag' \in Bool
           /\ n_flag' \in Byte /\ z_flag' \in Byte
           /\ Bit(n_flag, 128)' = c_flag /\ z_flag' = RotatedRight(w)
<1>. DEFINE ror == RotatedRight(w)
            carry == w + 16 * Bit(w, 16) >= 96
            fixed == IF (w % 16) + (w % 2) > 5 THEN 16 * (ror \div 16) + ((ror + 6) % 16) ELSE ror
<1>1. ror \in Byte /\ c_flag \in {0, 1}
  BY ShiftsAre DEF Registers, Bool
<1>2. /\ n_flag' = 128 * c_flag /\ z_flag' = ror /\ v_flag' \in Bool /\ c_flag' \in Bool
      /\ a' = IF carry THEN (fixed + 96) % 256 ELSE fixed
  BY FlagIs DEF arr_bcd
<1>3. n_flag' \in Byte /\ Bit(n_flag', 128) = c_flag
  <2>1. 128 * c_flag \in Byte /\ Bit(128 * c_flag, 128) = c_flag
    BY <1>1, ByteIs DEF Bit
  <2>. QED  BY <1>2, <2>1
<1>4. fixed \in Byte
  <2>. HIDE DEF ror
  <2>1. ror \in Int /\ 0 <= ror /\ ror <= 255
    BY <1>1, ByteIs
  <2>2. 16 * (ror \div 16) + ((ror + 6) % 16) \in Byte
    BY <2>1, ByteIs
  <2>. QED  BY <1>1, <2>2
<1>5. a' \in Byte
  <2>. HIDE DEF fixed, carry
  <2>1. (fixed + 96) % 256 \in Byte
    BY <1>4, ByteIs, WrapsToByte
  <2>. QED  BY <1>2, <1>4, <2>1
<1>. QED  BY <1>1, <1>2, <1>3, <1>5

\* ANC, ASR, ARR, ANE, LXA, LAS, SBX
LEMMA ComplexIs ==
    ASSUME NEW i \in Instruction, Ready, Complex(i)
    PROVE  Mos!Reads(i) /\ Left /\ Registers'
<1>. DEFINE m == Value(i)
            v == And(a, m)
<1>1. m \in Byte /\ v \in Byte /\ Registers /\ c_flag \in Bool
  BY FieldsAre, LogicIs DEF Ready, Registers
<1>2. /\ Bit(v, 1) \in Bool /\ Bit(v, 128) = Mos!Flag(v >= 128) /\ Bit(v, 128) \in Bool
      /\ ShiftedRight(v) \in Byte /\ ShiftedRight(v) = Mos!Right(v)
      /\ RotatedRight(v) \in Byte /\ RotatedRight(v) = Mos!RotatedRight(v)
  BY <1>1, BitIs, ShiftsAre DEF Weights, Flag, Mos!Flag
<1>3. v = Mos!And(a, m)
  BY SameBytes
<1>4. ReadsByte(i) /\ UNCHANGED <<d_flag, i_flag>>
  BY DEF Complex
<1>5. \/ i.op = "ANC" /\ SetA(v) /\ c_flag' = Bit(v, 128) /\ UNCHANGED v_flag
      \/ i.op = "ASR" /\ SetA(ShiftedRight(v)) /\ c_flag' = Bit(v, 1) /\ UNCHANGED v_flag
      \/ /\ i.op = "ARR" /\ d_flag = 0 /\ SetA(RotatedRight(v)) /\ c_flag' = Bit(RotatedRight(v), 64)
         /\ v_flag' = Flag(Bit(RotatedRight(v), 64) # Bit(RotatedRight(v), 32))
      \/ i.op = "ARR" /\ d_flag = 1 /\ arr_bcd(v)
      \/ /\ i.op = "ANE" /\ SetA(And(And(m, x), Or(a, 238))) /\ UNCHANGED <<v_flag, c_flag>>
      \/ /\ i.op = "LXA" /\ UNCHANGED <<y, sp, v_flag, c_flag>>
         /\ a' = And(Or(a, 238), m) /\ x' = And(Or(a, 238), m) /\ set_nz(And(Or(a, 238), m))
      \/ /\ i.op = "LAS" /\ UNCHANGED <<y, v_flag, c_flag>>
         /\ a' = And(m, sp) /\ x' = And(m, sp) /\ sp' = And(m, sp) /\ set_nz(And(m, sp))
      \/ /\ i.op = "SBX" /\ UNCHANGED <<a, y, sp, v_flag>>
         /\ c_flag' = Flag((And(x, a) - m) % 65536 < 256) /\ x' = ((And(x, a) - m) % 65536) % 256
         /\ set_nz(((And(x, a) - m) % 65536) % 256)
  BY DEF Complex
<1>. HIDE DEF m, v
<1>. SUFFICES (Mos!Loads(i.op, m) \/ Mos!Computes(i.op, m)) /\ Registers'
  BY <1>4, ReadsIs DEF m
<1>6. CASE i.op = "ANC" /\ SetA(v) /\ c_flag' = Bit(v, 128) /\ UNCHANGED v_flag
  <2>1. Mos!LoadA(v) /\ a' \in Byte /\ n_flag' \in Byte /\ z_flag' \in Byte
    BY <1>1, <1>6, SetsRegister
  <2>. QED  BY <1>1, <1>2, <1>3, <1>4, <1>6, <2>1 DEF Mos!Computes, Registers, SetA
<1>7. CASE i.op = "ASR" /\ SetA(ShiftedRight(v)) /\ c_flag' = Bit(v, 1) /\ UNCHANGED v_flag
  <2>1. Mos!LoadA(ShiftedRight(v)) /\ a' \in Byte /\ n_flag' \in Byte /\ z_flag' \in Byte
    BY <1>2, <1>7, SetsRegister
  <2>. QED  BY <1>1, <1>2, <1>3, <1>4, <1>7, <2>1, SameBytes DEF Mos!Computes, Registers, SetA
<1>8. CASE /\ i.op = "ARR" /\ d_flag = 0 /\ SetA(RotatedRight(v)) /\ c_flag' = Bit(RotatedRight(v), 64)
           /\ v_flag' = Flag(Bit(RotatedRight(v), 64) # Bit(RotatedRight(v), 32))
  <2>. DEFINE w == RotatedRight(v)
  <2>1. Mos!LoadA(w) /\ a' \in Byte /\ n_flag' \in Byte /\ z_flag' \in Byte
    BY <1>2, <1>8, SetsRegister
  <2>2. c_flag' \in Bool /\ v_flag' \in Bool
    BY <1>2, <1>8, BitIs, FlagIs DEF Weights
  <2>3. c_flag' = Mos!Bit(w, 64) /\ v_flag' = Mos!Flag(Mos!Bit(w, 64) # Mos!Bit(w, 32))
    BY <1>8, SameBytes DEF Flag, Mos!Flag
  <2>4. w = Mos!RotatedRight(v)
    BY <1>2
  <2>. HIDE DEF w
  <2>5. Mos!Computes(i.op, m)
    BY <1>3, <1>8, <2>1, <2>3, <2>4 DEF Mos!Computes
  <2>. QED  BY <1>1, <1>4, <1>8, <2>1, <2>2, <2>5 DEF Registers, SetA
<1>9. CASE i.op = "ARR" /\ d_flag = 1 /\ arr_bcd(v)
  <2>1. /\ a' \in Byte /\ c_flag' \in Bool /\ v_flag' \in Bool
        /\ n_flag' \in Byte /\ z_flag' \in Byte
        /\ Bit(n_flag, 128)' = c_flag /\ z_flag' = RotatedRight(v)
    BY <1>1, <1>9, ArrIs
  <2>2. UNCHANGED <<x, y, sp>>
    BY <1>9 DEF arr_bcd
  <2>3. Flag(z_flag = 0)' = Mos!Flag(Mos!RotatedRight(v) = 0)
    BY <1>2, <2>1 DEF Flag, Mos!Flag
  <2>4. a' \in Mos!Byte /\ c_flag' \in Mos!Bool /\ v_flag' \in Mos!Bool
    BY <2>1, SameBytes
  <2>5. Mos!Computes(i.op, m)
    BY <1>3, <1>9, <2>1, <2>2, <2>3, <2>4 DEF Mos!Computes
  <2>. QED  BY <1>1, <1>4, <2>1, <2>2, <2>5 DEF Registers
<1>10. CASE /\ i.op = "ANE" /\ SetA(And(And(m, x), Or(a, 238))) /\ UNCHANGED <<v_flag, c_flag>>
  <2>. DEFINE w == And(And(m, x), Or(a, 238))
  <2>1. w \in Byte /\ w \in Mos!Byte
    BY LogicIs, SameBytes
  <2>. HIDE DEF w
  <2>2. Mos!LoadA(w) /\ a' \in Byte /\ n_flag' \in Byte /\ z_flag' \in Byte
    BY <1>10, <2>1, SetsRegister DEF w
  <2>3. Mos!Loads(i.op, m)
    BY <1>10, <2>1, <2>2 DEF Mos!Loads
  <2>. QED  BY <1>1, <1>4, <1>10, <2>2, <2>3 DEF Registers, SetA
<1>11. CASE /\ i.op = "LXA" /\ UNCHANGED <<y, sp, v_flag, c_flag>>
            /\ a' = And(Or(a, 238), m) /\ x' = And(Or(a, 238), m) /\ set_nz(And(Or(a, 238), m))
  <2>. DEFINE w == And(Or(a, 238), m)
  <2>1. w \in Byte /\ w \in Mos!Byte
    BY LogicIs, SameBytes
  <2>. HIDE DEF w
  <2>2. Mos!NZ(w) /\ n_flag' \in Byte /\ z_flag' \in Byte
    BY <1>11, <2>1, SetsNZ DEF w
  <2>3. Mos!LoadAX(w)
    BY <1>11, <2>2 DEF Mos!LoadAX, w
  <2>4. Mos!Loads(i.op, m)
    BY <1>11, <2>1, <2>3 DEF Mos!Loads
  <2>. QED  BY <1>1, <1>4, <1>11, <2>1, <2>2, <2>4 DEF Registers, w
<1>12. CASE /\ i.op = "LAS" /\ UNCHANGED <<y, v_flag, c_flag>>
            /\ a' = And(m, sp) /\ x' = And(m, sp) /\ sp' = And(m, sp) /\ set_nz(And(m, sp))
  <2>1. And(m, sp) \in Byte /\ And(m, sp) = Mos!And(m, sp)
    BY LogicIs, SameBytes
  <2>2. Mos!NZ(And(m, sp)) /\ n_flag' \in Byte /\ z_flag' \in Byte
    BY <1>12, <2>1, SetsNZ
  <2>3. Mos!Loads(i.op, m)
    BY <1>12, <2>1, <2>2 DEF Mos!Loads
  <2>. QED  BY <1>1, <1>4, <1>12, <2>1, <2>2, <2>3 DEF Registers
<1>13. CASE /\ i.op = "SBX" /\ UNCHANGED <<a, y, sp, v_flag>>
            /\ c_flag' = Flag((And(x, a) - m) % 65536 < 256) /\ x' = ((And(x, a) - m) % 65536) % 256
            /\ set_nz(((And(x, a) - m) % 65536) % 256)
  <2>. DEFINE w == And(x, a)
  <2>1. w \in Byte /\ w = Mos!And(x, a)
    BY LogicIs, SameBytes
  <2>2. Compared(w, m) /\ x' = ((w - m) % 65536) % 256
    BY <1>4, <1>13 DEF Compared
  <2>. HIDE DEF w
  <2>3. Mos!Compares(w, m) /\ n_flag' \in Byte /\ z_flag' \in Byte /\ c_flag' \in Bool
    BY <1>1, <2>1, <2>2, ComparedIs
  <2>4. x' = (w - m) % 256 /\ x' \in Byte
    BY <1>1, <2>1, <2>2, ByteIs, WrapsToByte
  <2>5. Mos!Computes(i.op, m)
    BY <1>13, <2>1, <2>3, <2>4 DEF Mos!Computes
  <2>. QED  BY <1>1, <1>4, <1>13, <2>3, <2>4, <2>5 DEF Registers
<1>. QED  BY <1>5, <1>6, <1>7, <1>8, <1>9, <1>10, <1>11, <1>12, <1>13

-----------------------------------------------------------------------------
(* The opcodes that write a byte *)

WritesValue(op, v) ==
    \/ /\ UNCHANGED sp
       /\ \/ op = "STA" /\ v = a
          \/ op = "STX" /\ v = x
          \/ op = "STY" /\ v = y
          \/ op = "SAX" /\ v = Mos!And(a, x)
          \/ op = "SHA" /\ Mos!Masked(v, Mos!And(a, x))
          \/ op = "SHX" /\ Mos!Masked(v, x)
          \/ op = "SHY" /\ Mos!Masked(v, y)
    \/ op = "SHS" /\ Mos!Masked(v, Mos!And(a, x)) /\ sp' = Mos!And(a, x)

\* An opcode that stores a byte
LEMMA WritesIs ==
    ASSUME NEW i \in Instruction, NEW v \in Byte, Ready, WritesByte(i, v), WritesValue(i.op, v),
           UNCHANGED <<a, x, y, flags>>
    PROVE  Mos!Writes(i) /\ Left
<1>1. /\ Mos!Follows(i) /\ Mos!Stored(Mos!Address(i), v) /\ Left
      /\ Mos!Bus(Mos!Via(i), << >>, << Mos!Put(Mos!Address(i), v) >>)
  BY WritesByteIs
<1>2. v \in Mos!Byte
  BY SameBytes
<1>3. UNCHANGED Mos!flags
  BY DEF Mos!flags, flags
<1>. QED  BY <1>1, <1>2, <1>3 DEF Mos!Writes, WritesValue

\* STA, STX, STY
LEMMA StoreGroupIs ==
    ASSUME NEW i \in Instruction, Ready, StoreGroup(i)
    PROVE  Mos!Writes(i) /\ Left /\ Registers'
<1>1. UNCHANGED <<axys, flags>> /\ Registers
  BY DEF StoreGroup, Ready
<1>2. Registers' /\ UNCHANGED sp /\ UNCHANGED <<a, x, y, flags>>
  BY <1>1 DEF Registers, axys, flags
<1>3. PICK v \in Byte : WritesByte(i, v) /\ WritesValue(i.op, v)
  BY <1>1, <1>2 DEF StoreGroup, WritesValue, Registers
<1>. QED  BY <1>2, <1>3, WritesIs

\* SAX
LEMMA StoreAXGroupIs ==
    ASSUME NEW i \in Instruction, Ready, StoreAXGroup(i)
    PROVE  Mos!Writes(i) /\ Left /\ Registers'
<1>1. UNCHANGED <<axys, flags>> /\ Registers
  BY DEF StoreAXGroup, Ready
<1>2. Registers' /\ UNCHANGED sp /\ UNCHANGED <<a, x, y, flags>>
  BY <1>1 DEF Registers, axys, flags
<1>3. PICK v \in Byte : WritesByte(i, v) /\ WritesValue(i.op, v)
  BY <1>2, LogicIs, SameBytes DEF StoreAXGroup, WritesValue
<1>. QED  BY <1>2, <1>3, WritesIs

\* SHA, SHX, SHY, SHS
LEMMA MaskedStoresIs ==
    ASSUME NEW i \in Instruction, Ready, MaskedStores(i)
    PROVE  Mos!Writes(i) /\ Left /\ Registers'
<1>. DEFINE high == IF i.mode = "ind_y" THEN IF i.b = 255 THEN i.k ELSE i.hi ELSE i.h
            mask == (high + 1) % 256
<1>1. Registers /\ UNCHANGED <<a, x, y, flags>>
  BY DEF MaskedStores, Ready
<1>2. mask \in Byte /\ mask \in Mos!Byte
  <2>1. high \in Byte
    BY FieldsAre
  <2>. HIDE DEF high
  <2>. QED  BY <2>1, ByteIs, WrapsToByte, SameBytes
<1>3. \/ i.op = "SHA" /\ WritesByte(i, And(And(a, x), mask)) /\ UNCHANGED sp
      \/ i.op = "SHX" /\ WritesByte(i, And(x, mask)) /\ UNCHANGED sp
      \/ i.op = "SHY" /\ WritesByte(i, And(y, mask)) /\ UNCHANGED sp
      \/ i.op = "SHS" /\ WritesByte(i, And(And(a, x), mask)) /\ sp' = And(a, x)
  BY DEF MaskedStores
<1>. HIDE DEF mask
<1>4. \A w : Mos!Masked(And(w, mask), w)
  BY <1>2, SameBytes DEF Mos!Masked
<1>5. PICK v \in Byte : WritesByte(i, v) /\ WritesValue(i.op, v)
  BY <1>3, <1>4, LogicIs, SameBytes DEF WritesValue
<1>6. sp' \in Byte
  BY <1>1, <1>3, LogicIs DEF Registers
<1>7. Registers'
  BY <1>1, <1>6 DEF Registers, flags
<1>. QED  BY <1>1, <1>5, <1>7, WritesIs

-----------------------------------------------------------------------------
(* The opcodes that read a byte and write another in its place *)

\* An opcode that reads a cell and writes it
LEMMA RewritesIs ==
    ASSUME NEW i \in Instruction, NEW v \in Byte, Ready, Modifies(i, v),
           UNCHANGED <<x, y, sp, d_flag, i_flag>>, Mos!Rewrites(i.op, i.m, v)
    PROVE  Mos!Modifies(i) /\ Left
<1>1. /\ Mos!Follows(i) /\ Mos!Stored(Mos!Address(i), v) /\ Left
      /\ Mos!Bus(Mos!Via(i), << Mos!Cell(Mos!Address(i)) >>, << Mos!Put(Mos!Address(i), v) >>)
  BY ModifiesIs
<1>2. v \in Mos!Byte
  BY SameBytes
<1>. QED  BY <1>1, <1>2 DEF Mos!Modifies

\* A register and flags that follow a byte
LEMMA CountsIs ==
    ASSUME NEW i \in Instruction, NEW v \in Byte, Ready, Modifies(i, v), set_nz(v), c_flag' \in Bool,
           UNCHANGED <<axys, v_flag, d_flag, i_flag>>,
           Mos!NZ(v) => Mos!Rewrites(i.op, i.m, v)
    PROVE  Mos!Modifies(i) /\ Left /\ Registers'
<1>1. Mos!NZ(v) /\ n_flag' \in Byte /\ z_flag' \in Byte
  BY SetsNZ
<1>2. Registers'
  BY <1>1 DEF Registers, axys, Ready
<1>. QED  BY <1>1, <1>2, RewritesIs DEF axys

LEMMA CountedIs ==
    ASSUME NEW m \in Byte
    PROVE  (m + 1) % 256 \in Byte /\ (m - 1) % 256 \in Byte
BY ByteIs, WrapsToByte

\* The opcodes of IncDecGroup on memory
LEMMA IncDecIs ==
    ASSUME NEW i \in Instruction, Ready, IncDecGroup(i), i.op \in {"INC", "DEC"}
    PROVE  Mos!Modifies(i) /\ Left /\ Registers'
<1>1. /\ UNCHANGED <<v_flag, d_flag, i_flag, c_flag>> /\ c_flag' \in Bool
      /\ i.m \in Byte /\ (i.m + 1) % 256 \in Byte /\ (i.m - 1) % 256 \in Byte
  BY FieldsAre, CountedIs DEF IncDecGroup, Ready, Registers
<1>2. CASE i.op = "INC"
  <2>. DEFINE v == (i.m + 1) % 256
  <2>1. Modifies(i, v) /\ set_nz(v) /\ UNCHANGED axys
    BY <1>2 DEF IncDecGroup
  <2>2. Mos!NZ(v) => Mos!Rewrites(i.op, i.m, v)
    BY <1>1, <1>2, <2>1 DEF Mos!Rewrites, axys
  <2>. HIDE DEF v
  <2>. QED  BY <1>1, <2>1, <2>2, CountsIs DEF v
<1>3. CASE i.op = "DEC"
  <2>. DEFINE v == (i.m - 1) % 256
  <2>1. Modifies(i, v) /\ set_nz(v) /\ UNCHANGED axys
    BY <1>3 DEF IncDecGroup
  <2>2. Mos!NZ(v) => Mos!Rewrites(i.op, i.m, v)
    BY <1>1, <1>3, <2>1 DEF Mos!Rewrites, axys
  <2>. HIDE DEF v
  <2>. QED  BY <1>1, <2>1, <2>2, CountsIs DEF v
<1>. QED  BY <1>2, <1>3

\* The opcodes of ShiftGroup on memory
LEMMA ShiftIs ==
    ASSUME NEW i \in Instruction, Ready, ShiftGroup(i), i.op \in {"ASL", "LSR", "ROL", "ROR"}
    PROVE  Mos!Modifies(i) /\ Left /\ Registers'
<1>. DEFINE m == i.m
<1>1. UNCHANGED <<v_flag, d_flag, i_flag>> /\ m \in Byte /\ c_flag \in Bool
  BY FieldsAre DEF ShiftGroup, Ready, Registers
<1>2. /\ ShiftedLeft(m) \in Byte /\ ShiftedLeft(m) = Mos!Left(m)
      /\ ShiftedRight(m) \in Byte /\ ShiftedRight(m) = Mos!Right(m)
      /\ RotatedLeft(m) \in Byte /\ RotatedLeft(m) = Mos!RotatedLeft(m)
      /\ RotatedRight(m) \in Byte /\ RotatedRight(m) = Mos!RotatedRight(m)
      /\ Bit(m, 1) \in Bool /\ Bit(m, 128) \in Bool
      /\ Bit(m, 1) = Mos!Bit(m, 1) /\ Bit(m, 128) = Mos!Bit(m, 128)
  BY <1>1, ShiftsAre, BitIs, SameBytes DEF Weights
<1>3. PICK v \in Byte, c \in Bool :
        /\ Modifies(i, v) /\ set_nz(v) /\ c_flag' = c /\ UNCHANGED axys
        /\ \/ i.op = "ASL" /\ v = Mos!Left(m) /\ c = Mos!Bit(m, 128)
           \/ i.op = "LSR" /\ v = Mos!Right(m) /\ c = Mos!Bit(m, 1)
           \/ i.op = "ROL" /\ v = Mos!RotatedLeft(m) /\ c = Mos!Bit(m, 128)
           \/ i.op = "ROR" /\ v = Mos!RotatedRight(m) /\ c = Mos!Bit(m, 1)
  <2>1. CASE i.op = "ASL"
    BY <1>2, <2>1 DEF ShiftGroup
  <2>2. CASE i.op = "LSR"
    BY <1>2, <2>2 DEF ShiftGroup
  <2>3. CASE i.op = "ROL"
    BY <1>2, <2>3 DEF ShiftGroup
  <2>4. CASE i.op = "ROR"
    BY <1>2, <2>4 DEF ShiftGroup
  <2>. QED  BY <2>1, <2>2, <2>3, <2>4
<1>4. Mos!NZ(v) => Mos!Rewrites(i.op, i.m, v)
  BY <1>1, <1>3 DEF Mos!Rewrites, axys
<1>. QED  BY <1>1, <1>3, <1>4, CountsIs

\* The undocumented opcodes that shift a byte and combine it with the accumulator
LEMMA ShiftAndCombineIs ==
    ASSUME NEW i \in Instruction, Ready,
           ShiftLeftOr(i) \/ RotateLeftAnd(i) \/ ShiftRightEor(i)
    PROVE  Mos!Modifies(i) /\ Left /\ Registers'
<1>. DEFINE m == i.m
<1>1. Registers /\ m \in Byte /\ c_flag \in Bool
  BY FieldsAre DEF Ready, Registers
<1>2. /\ ShiftedLeft(m) \in Byte /\ ShiftedLeft(m) = Mos!Left(m)
      /\ ShiftedRight(m) \in Byte /\ ShiftedRight(m) = Mos!Right(m)
      /\ RotatedLeft(m) \in Byte /\ RotatedLeft(m) = Mos!RotatedLeft(m)
      /\ Bit(m, 1) \in Bool /\ Bit(m, 128) \in Bool
      /\ Bit(m, 1) = Mos!Bit(m, 1) /\ Bit(m, 128) = Mos!Bit(m, 128)
  BY <1>1, ShiftsAre, BitIs, SameBytes DEF Weights
<1>3. PICK v \in Byte, w \in Byte, c \in Bool :
        /\ Modifies(i, v) /\ SetA(w) /\ c_flag' = c /\ UNCHANGED <<v_flag, d_flag, i_flag>>
        /\ \/ i.op = "SLO" /\ v = Mos!Left(m) /\ w = Mos!Or(a, v) /\ c = Mos!Bit(m, 128)
           \/ i.op = "RLA" /\ v = Mos!RotatedLeft(m) /\ w = Mos!And(a, v) /\ c = Mos!Bit(m, 128)
           \/ i.op = "SRE" /\ v = Mos!Right(m) /\ w = Mos!Xor(a, v) /\ c = Mos!Bit(m, 1)
  <2>1. CASE ShiftLeftOr(i)
    BY <1>2, <2>1, LogicIs, SameBytes DEF ShiftLeftOr
  <2>2. CASE RotateLeftAnd(i)
    BY <1>2, <2>2, LogicIs, SameBytes DEF RotateLeftAnd
  <2>3. CASE ShiftRightEor(i)
    BY <1>2, <2>3, LogicIs, SameBytes DEF ShiftRightEor
  <2>. QED  BY <2>1, <2>2, <2>3
<1>4. Mos!LoadA(w) /\ n_flag' \in Byte /\ z_flag' \in Byte
  BY <1>3, SetsRegister
<1>5. a' = w /\ Mos!NZ(a') /\ UNCHANGED <<x, y, sp, v_flag, d_flag, i_flag>>
  BY <1>3, <1>4 DEF Mos!LoadA
<1>6. Mos!Rewrites(i.op, m, v)
  BY <1>3, <1>5 DEF Mos!Rewrites
<1>7. Registers'
  BY <1>1, <1>3, <1>4, <1>5 DEF Registers
<1>. QED  BY <1>3, <1>5, <1>6, <1>7, RewritesIs

\* RRA
LEMMA RoRightAdcIs ==
    ASSUME NEW i \in Instruction, Ready, RoRightAdc(i)
    PROVE  Mos!Modifies(i) /\ Left /\ Registers'
<1>. DEFINE v == RotatedRight(i.m)
            c == Bit(i.m, 1)
<1>1. Registers /\ i.m \in Byte /\ c_flag \in Bool
  BY FieldsAre DEF Ready, Registers
<1>2. v \in Byte /\ v = Mos!RotatedRight(i.m) /\ c \in Bool /\ c = Mos!Bit(i.m, 1)
  BY <1>1, ShiftsAre, BitIs, SameBytes DEF Weights
<1>3. /\ i.op = "RRA" /\ Modifies(i, v) /\ DoAdc(v, c)
      /\ UNCHANGED <<x, y, sp, d_flag, i_flag>>
  BY DEF RoRightAdc
<1>. HIDE DEF v, c
<1>4. /\ Mos!Adds(v, c) /\ a' \in Byte /\ n_flag' \in Byte /\ z_flag' \in Byte
      /\ v_flag' \in Bool /\ c_flag' \in Bool
  BY <1>1, <1>2, <1>3, AdcIs
<1>5. Mos!Rewrites(i.op, i.m, v)
  BY <1>2, <1>3, <1>4 DEF Mos!Rewrites
<1>6. Registers'
  BY <1>1, <1>3, <1>4 DEF Registers
<1>. QED  BY <1>2, <1>3, <1>5, <1>6, RewritesIs

\* ISB
LEMMA IncSbcIs ==
    ASSUME NEW i \in Instruction, Ready, IncSbc(i)
    PROVE  Mos!Modifies(i) /\ Left /\ Registers'
<1>. DEFINE v == (i.m + 1) % 256
<1>1. Registers /\ c_flag \in Bool /\ v \in Byte
  BY FieldsAre, CountedIs DEF Ready, Registers
<1>2. /\ i.op = "ISB" /\ Modifies(i, v) /\ DoSbc(v, c_flag)
      /\ UNCHANGED <<x, y, sp, d_flag, i_flag>>
  BY DEF IncSbc
<1>. HIDE DEF v
<1>3. /\ Mos!Subtracts(v, c_flag) /\ a' \in Byte /\ n_flag' \in Byte /\ z_flag' \in Byte
      /\ v_flag' \in Bool /\ c_flag' \in Bool
  BY <1>1, <1>2, SbcIs
<1>4. Mos!Rewrites(i.op, i.m, v)
  BY <1>2, <1>3 DEF Mos!Rewrites, v
<1>5. Registers'
  BY <1>1, <1>2, <1>3 DEF Registers
<1>. QED  BY <1>1, <1>2, <1>4, <1>5, RewritesIs

\* DCP
LEMMA DecCompareIs ==
    ASSUME NEW i \in Instruction, Ready, DecCompare(i)
    PROVE  Mos!Modifies(i) /\ Left /\ Registers'
<1>. DEFINE v == (i.m - 1) % 256
<1>1. Registers /\ a \in Byte /\ v \in Byte
  BY FieldsAre, CountedIs DEF Ready, Registers
<1>2. i.op = "DCP" /\ Modifies(i, v) /\ Compared(a, v) /\ UNCHANGED axys
  BY DEF DecCompare
<1>. HIDE DEF v
<1>3. /\ Mos!Compares(a, v) /\ n_flag' \in Byte /\ z_flag' \in Byte /\ c_flag' \in Bool
      /\ UNCHANGED <<v_flag, d_flag, i_flag>>
  BY <1>1, <1>2, ComparedIs DEF Compared
<1>4. Mos!Rewrites(i.op, i.m, v)
  BY <1>2, <1>3 DEF Mos!Rewrites, v, axys
<1>5. Registers'
  BY <1>1, <1>2, <1>3 DEF Registers, axys
<1>. QED  BY <1>1, <1>2, <1>3, <1>4, <1>5, RewritesIs DEF axys

-----------------------------------------------------------------------------
(* The opcodes on registers and flags alone *)

\* An opcode without memory
LEMMA ImpliedIs ==
    ASSUME NEW i, Ready, Quiet(i), Mos!Moves(i.op) \/ Mos!Shifts(i.op) \/ Mos!Sets(i.op)
    PROVE  Mos!Implied(i) /\ Left
BY QuietIs DEF Mos!Implied

\* TAX to TXS
LEMMA TransferGroupIs ==
    ASSUME NEW i \in Instruction, Ready, TransferGroup(i)
    PROVE  Mos!Implied(i) /\ Left /\ Registers'
<1>1. Quiet(i) /\ UNCHANGED <<v_flag, d_flag, i_flag, c_flag>> /\ Registers
  BY DEF TransferGroup, Ready
<1>2. CASE i.op = "TXS"
  <2>1. sp' = x /\ UNCHANGED <<a, x, y, n_flag, z_flag>>
    BY <1>2 DEF TransferGroup
  <2>2. Mos!Moves(i.op) /\ Registers'
    BY <1>1, <1>2, <2>1 DEF Mos!Moves, Registers
  <2>. QED  BY <1>1, <2>2, ImpliedIs
<1>3. CASE i.op # "TXS"
  <2>1. \/ i.op = "TAX" /\ SetX(a)
        \/ i.op = "TXA" /\ SetA(x)
        \/ i.op = "TAY" /\ SetY(a)
        \/ i.op = "TYA" /\ SetA(y)
        \/ i.op = "TSX" /\ SetX(sp)
    BY <1>3 DEF TransferGroup
  <2>2. Mos!Moves(i.op) /\ Registers'
    BY <1>1, <2>1, SetsRegister DEF Mos!Moves, Registers, SetA, SetX, SetY
  <2>. QED  BY <1>1, <2>2, ImpliedIs
<1>. QED  BY <1>2, <1>3

\* The opcodes of IncDecGroup on a register
LEMMA CountRegisterIs ==
    ASSUME NEW i \in Instruction, Ready, IncDecGroup(i), i.op \in {"INX", "DEX", "INY", "DEY"}
    PROVE  Mos!Implied(i) /\ Left /\ Registers'
<1>1. /\ (x + 1) % 256 \in Byte /\ (x - 1) % 256 \in Byte
      /\ (y + 1) % 256 \in Byte /\ (y - 1) % 256 \in Byte
  BY CountedIs DEF Ready, Registers
<1>2. /\ Quiet(i) /\ UNCHANGED <<v_flag, d_flag, i_flag, c_flag>> /\ Registers
      /\ \/ i.op = "INX" /\ SetX((x + 1) % 256)
         \/ i.op = "DEX" /\ SetX((x - 1) % 256)
         \/ i.op = "INY" /\ SetY((y + 1) % 256)
         \/ i.op = "DEY" /\ SetY((y - 1) % 256)
  BY DEF IncDecGroup, Ready
<1>3. CASE i.op = "INX" /\ SetX((x + 1) % 256)
  BY <1>1, <1>2, <1>3, SetsRegister, ImpliedIs DEF Mos!Moves, Registers, SetX
<1>4. CASE i.op = "DEX" /\ SetX((x - 1) % 256)
  BY <1>1, <1>2, <1>4, SetsRegister, ImpliedIs DEF Mos!Moves, Registers, SetX
<1>5. CASE i.op = "INY" /\ SetY((y + 1) % 256)
  BY <1>1, <1>2, <1>5, SetsRegister, ImpliedIs DEF Mos!Moves, Registers, SetY
<1>6. CASE i.op = "DEY" /\ SetY((y - 1) % 256)
  BY <1>1, <1>2, <1>6, SetsRegister, ImpliedIs DEF Mos!Moves, Registers, SetY
<1>. QED  BY <1>2, <1>3, <1>4, <1>5, <1>6

\* The opcodes of ShiftGroup on the accumulator
LEMMA ShiftAIs ==
    ASSUME NEW i \in Instruction, Ready, ShiftGroup(i), i.op \in {"ASL_A", "LSR_A", "ROL_A", "ROR_A"}
    PROVE  Mos!Implied(i) /\ Left /\ Registers'
<1>1. UNCHANGED <<v_flag, d_flag, i_flag>> /\ Registers /\ a \in Byte /\ c_flag \in Bool
  BY DEF ShiftGroup, Ready, Registers
<1>2. /\ ShiftedLeft(a) \in Byte /\ ShiftedLeft(a) = Mos!Left(a)
      /\ ShiftedRight(a) \in Byte /\ ShiftedRight(a) = Mos!Right(a)
      /\ RotatedLeft(a) \in Byte /\ RotatedLeft(a) = Mos!RotatedLeft(a)
      /\ RotatedRight(a) \in Byte /\ RotatedRight(a) = Mos!RotatedRight(a)
      /\ Bit(a, 1) \in Bool /\ Bit(a, 128) \in Bool
      /\ Bit(a, 1) = Mos!Bit(a, 1) /\ Bit(a, 128) = Mos!Bit(a, 128)
  BY <1>1, ShiftsAre, BitIs, SameBytes DEF Weights
<1>3. PICK v \in Byte, c \in Bool :
        /\ Quiet(i) /\ SetA(v) /\ c_flag' = c
        /\ \/ i.op = "ASL_A" /\ v = Mos!Left(a) /\ c = Mos!Bit(a, 128)
           \/ i.op = "LSR_A" /\ v = Mos!Right(a) /\ c = Mos!Bit(a, 1)
           \/ i.op = "ROL_A" /\ v = Mos!RotatedLeft(a) /\ c = Mos!Bit(a, 128)
           \/ i.op = "ROR_A" /\ v = Mos!RotatedRight(a) /\ c = Mos!Bit(a, 1)
  <2>1. CASE i.op = "ASL_A"
    BY <1>2, <2>1 DEF ShiftGroup
  <2>2. CASE i.op = "LSR_A"
    BY <1>2, <2>2 DEF ShiftGroup
  <2>3. CASE i.op = "ROL_A"
    BY <1>2, <2>3 DEF ShiftGroup
  <2>4. CASE i.op = "ROR_A"
    BY <1>2, <2>4 DEF ShiftGroup
  <2>. QED  BY <2>1, <2>2, <2>3, <2>4
<1>4. Mos!LoadA(v) /\ a' \in Byte /\ n_flag' \in Byte /\ z_flag' \in Byte
  BY <1>3, SetsRegister
<1>5. Mos!Shifts(i.op)
  BY <1>1, <1>3, <1>4 DEF Mos!Shifts
<1>6. Registers'
  BY <1>1, <1>3, <1>4 DEF Registers, SetA
<1>. QED  BY <1>3, <1>5, <1>6, ImpliedIs

\* SEC to CLV
LEMMA FlagsGroupIs ==
    ASSUME NEW i \in Instruction, Ready, FlagsGroup(i)
    PROVE  Mos!Implied(i) /\ Left /\ Registers'
<1>1. Quiet(i) /\ UNCHANGED <<axys, n_flag, z_flag>> /\ Registers
  BY DEF FlagsGroup, Ready
<1>2. UNCHANGED <<Mos!axys, Bit(n_flag, 128), Flag(z_flag = 0)>>
  BY <1>1 DEF Mos!axys, axys
<1>3. Mos!Sets(i.op)
  BY <1>2 DEF FlagsGroup, Mos!Sets
<1>4. Registers'
  BY <1>1 DEF FlagsGroup, Registers, axys, Bool
<1>. QED  BY <1>1, <1>3, <1>4, ImpliedIs

\* NOP, with and without operands
LEMMA NopGroupIs ==
    ASSUME NEW i \in Instruction, Ready, NopGroup(i)
    PROVE  Mos!Implied(i) /\ Left /\ Registers'
<1>1. i.op = "NOP" /\ Quiet(i) /\ UNCHANGED <<axys, flags>> /\ Registers
  BY DEF NopGroup, Ready
<1>2. Mos!Moves(i.op) /\ Registers'
  BY <1>1 DEF Mos!Moves, Mos!axys, axys, flags, Registers
<1>. QED  BY <1>1, <1>2, ImpliedIs

-----------------------------------------------------------------------------
(* The stack and the flow of control *)

\* The stack pointer wraps in its page
LEMMA StackIs ==
    ASSUME Registers, NEW n \in 1 .. 3
    PROVE  /\ Below(n) = Mos!Down(n) /\ Above(n) = Mos!Up(n)
           /\ Below(n) \in Byte /\ Above(n) \in Byte
<1>1. sp - n \in Int /\ sp + n \in Int
  BY ByteIs DEF Registers
<1>. QED  BY <1>1, WrapsToByte DEF Below, Above, Mos!Down, Mos!Up

LEMMA SameStack ==
    \A s, v : push_byte(s, v) = Mos!Push(s, v) /\ pop_byte(s) = Mos!Top(s)
BY DEF push_byte, pop_byte, Mos!Push, Mos!Top

\* PHP, BRK and the interrupts push the flags in the order of the 6510
LEMMA StatusIs ==
    ASSUME Registers, NEW b \in Bool
    PROVE  push_flags(b) = Mos!Status(b) /\ push_flags(b) \in Byte
<1>. DEFINE n == Bit(n_flag, 128)
            z == Flag(z_flag = 0)
<1>1. n \in {0, 1} /\ z \in {0, 1}
  BY BitIs, FlagIs DEF Registers, Weights, Bool
<1>2. push_flags(b) = 32 + 128 * n + 64 * v_flag + 16 * b + 8 * d_flag + 4 * i_flag + 2 * z + c_flag
  BY DEF push_flags
<1>3. Mos!Status(b) = c_flag + 2 * z + 4 * i_flag + 8 * d_flag + 16 * b + 32 + 64 * v_flag + 128 * n
  BY DEF Mos!Status
<1>4. /\ v_flag \in {0, 1} /\ d_flag \in {0, 1} /\ i_flag \in {0, 1} /\ c_flag \in {0, 1}
      /\ b \in {0, 1}
  BY DEF Registers, Bool
<1>. HIDE DEF n, z
<1>. QED  BY <1>1, <1>2, <1>3, <1>4, ByteIs

\* PLP and RTI find them again
LEMMA UnpacksIs ==
    ASSUME NEW p \in Byte, pop_flags(p)
    PROVE  /\ Mos!Unpacks(p) /\ n_flag' \in Byte /\ z_flag' \in Byte
           /\ v_flag' \in Bool /\ d_flag' \in Bool /\ i_flag' \in Bool /\ c_flag' \in Bool
<1>1. \A w \in Weights : Bit(p, w) \in Bool
  BY BitIs
<1>2. Flag(z_flag = 0)' = Bit(p, 2)
  BY <1>1 DEF pop_flags, Flag, Weights, Bool
<1>3. z_flag' \in Byte
  BY ByteIs DEF pop_flags, Flag
<1>4. Mos!Unpacks(p)
  BY <1>2, SameBytes DEF pop_flags, Mos!Unpacks
<1>. QED  BY <1>1, <1>3, <1>4 DEF pop_flags, Weights

\* PHA, PHP, PLA, PLP
LEMMA StackGroupIs ==
    ASSUME NEW i \in Instruction, Ready, StackGroup(i)
    PROVE  Mos!Stack(i) /\ Left /\ Registers'
<1>1. Registers /\ i.m \in Byte /\ Passes(i) /\ UNCHANGED <<memory, x, y>>
  BY FieldsAre DEF StackGroup, Ready
<1>2. Mos!Follows(i) /\ UNCHANGED ram01 /\ Left
  <2>1. Mos!Follows(i) /\ pc' \in Int
    BY <1>1, FollowsIs DEF Ready
  <2>2. Switched' /\ UNCHANGED ram01
    BY <1>1, SwitchedStays DEF Ready
  <2>. QED  BY <1>1, <2>1, <2>2 DEF Passes, Ready, Left
<1>3. /\ Below(1) = Mos!Down(1) /\ Above(1) = Mos!Up(1)
      /\ Below(1) \in Byte /\ Above(1) \in Byte
  BY <1>1, StackIs
<1>4. push_flags(1) = Mos!Status(1)
  BY <1>1, StatusIs DEF Bool
<1>5. CASE i.op \in {"PHA", "PHP"} /\ sp' = Below(1) /\ UNCHANGED <<a, flags>>
           /\ \/ i.op = "PHA" /\ Bus(<< >>, << >>, << push_byte(sp, a) >>)
              \/ i.op = "PHP" /\ Bus(<< >>, << >>, << push_byte(sp, push_flags(1)) >>)
  <2>1. Registers' /\ UNCHANGED Mos!flags
    BY <1>1, <1>3, <1>5 DEF Registers, flags, Mos!flags
  <2>2. Mos!Pushes(i.op)
    BY <1>1, <1>3, <1>4, <1>5, <2>1, SameStack DEF Mos!Pushes, Mos!Bus, Bus
  <2>. QED  BY <1>2, <2>1, <2>2 DEF Mos!Stack
<1>6. CASE /\ sp' = Above(1) /\ Bus(<< >>, << pop_byte(Above(1)) >>, << >>)
           /\ i.op = "PLA" /\ a' = i.m /\ set_nz(i.m) /\ UNCHANGED <<v_flag, d_flag, i_flag, c_flag>>
  <2>1. Mos!NZ(i.m) /\ n_flag' \in Byte /\ z_flag' \in Byte
    BY <1>1, <1>6, SetsNZ
  <2>2. Mos!Pops(i.op, i.m)
    BY <1>1, <1>3, <1>6, <2>1, SameStack DEF Mos!Pops, Mos!Bus, Bus
  <2>3. Registers'
    BY <1>1, <1>3, <1>6, <2>1 DEF Registers
  <2>. QED  BY <1>2, <2>2, <2>3 DEF Mos!Stack
<1>7. CASE /\ sp' = Above(1) /\ Bus(<< >>, << pop_byte(Above(1)) >>, << >>)
           /\ i.op = "PLP" /\ pop_flags(i.m) /\ UNCHANGED a
  <2>1. /\ Mos!Unpacks(i.m) /\ n_flag' \in Byte /\ z_flag' \in Byte
        /\ v_flag' \in Bool /\ d_flag' \in Bool /\ i_flag' \in Bool /\ c_flag' \in Bool
    BY <1>1, <1>7, UnpacksIs
  <2>2. Mos!Pops(i.op, i.m)
    BY <1>1, <1>3, <1>7, <2>1, SameStack DEF Mos!Pops, Mos!Bus, Bus
  <2>3. Registers'
    BY <1>1, <1>3, <1>7, <2>1 DEF Registers
  <2>. QED  BY <1>2, <2>2, <2>3 DEF Mos!Stack
<1>. QED  BY <1>5, <1>6, <1>7 DEF StackGroup

\* A jump that leaves the port as it is
LEMMA JumpIs ==
    ASSUME NEW adr \in Word, Ready, jump(banks, adr), UNCHANGED memory
    PROVE  Mos!Continues(adr) /\ Left /\ UNCHANGED ram01
<1>1. Switched' /\ UNCHANGED ram01
  BY SwitchedStays DEF Ready
<1>2. banks = new_config(ram01')
  BY <1>1 DEF Ready, Switched
<1>. QED  BY <1>1, <1>2, ContinuesIs

\* An interrupt pushes pc and flags, sets I and goes through its vector
LEMMA EntersIs ==
    ASSUME NEW i \in Instruction, NEW n \in Int, NEW vector \in {65530, 65534}, NEW b \in Bool,
           Ready, Enters(i, pc + n, vector, b)
    PROVE  Mos!Enters(i, (pc % 65536) + n, vector, b) /\ Left /\ Registers'
<1>1. Registers /\ pc \in Int /\ Switched /\ Pointer(i) \in Word
  BY FieldsAre DEF Ready
<1>2. /\ sp' = Below(3) /\ i_flag' = 1
      /\ UNCHANGED <<a, x, y, n_flag, z_flag, v_flag, d_flag, c_flag, memory>>
      /\ jump(banks, Pointer(i))
      /\ bus' = [via |-> << >>, rd |-> << read_byte(vector), read_byte(vector + 1) >>,
                 wr |-> << push_byte(sp, High(pc + n)), push_byte(Below(1), Low(pc + n)),
                           push_byte(Below(2), push_flags(b)) >>]
  BY DEF Enters, Bus
<1>3. Mos!Continues(Pointer(i)) /\ Left /\ UNCHANGED ram01
  BY <1>1, <1>2, JumpIs
<1>4. /\ Below(1) = Mos!Down(1) /\ Below(2) = Mos!Down(2) /\ Below(3) = Mos!Down(3)
      /\ Below(3) \in Byte
  BY <1>1, StackIs
<1>5. push_flags(b) = Mos!Status(b)
  BY <1>1, StatusIs
<1>6. read_byte(vector) = Mos!Cell(vector) /\ read_byte(vector + 1) = Mos!Cell(vector + 1)
  <2>1. vector \in Word /\ vector + 1 \in Word
    BY WordIs
  <2>. QED  BY <1>1, <2>1, ReadsAreSeen
<1>7. /\ High(pc + n) = Mos!High((pc % 65536) + n)
      /\ Low(pc + n) = Mos!Low((pc % 65536) + n)
  <2>1. High(pc + n) = High((pc % 65536) + n) /\ Low(pc + n) = Low((pc % 65536) + n)
    BY <1>1 DEF High, Low
  <2>. QED  BY <2>1, SameBytes
<1>8. bus' = [via |-> << >>, rd |-> << Mos!Cell(vector), Mos!Cell(vector + 1) >>,
              wr |-> << Mos!Push(sp, Mos!High((pc % 65536) + n)),
                        Mos!Push(Mos!Down(1), Mos!Low((pc % 65536) + n)),
                        Mos!Push(Mos!Down(2), Mos!Status(b)) >>]
  BY <1>2, <1>4, <1>5, <1>6, <1>7, SameStack
<1>9. Registers'
  BY <1>1, <1>2, <1>4 DEF Registers, Bool
<1>10. Mos!Enters(i, (pc % 65536) + n, vector, b)
  BY <1>2, <1>3, <1>4, <1>8, SameOperands DEF Mos!Enters, Mos!Bus
<1>. QED  BY <1>3, <1>9, <1>10

\* NMI, IRQ and BRK
LEMMA InterruptsIs ==
    ASSUME NEW i \in Instruction, Ready, Interrupts(i) \/ (i.op = "BRK" /\ Enters(i, pc + 2, 65534, 1))
    PROVE  Mos!Interrupts(i) /\ Left /\ Registers'
<1>1. pc \in Int /\ pc + 0 = pc /\ (pc % 65536) + 0 = pc % 65536
  BY DEF Ready
<1>2. CASE i.op = "BRK" /\ Enters(i, pc + 2, 65534, 1)
  BY <1>2, EntersIs DEF Mos!Interrupts, Bool
<1>3. CASE i.op = "NMI" /\ Enters(i, pc, 65530, 0)
  <2>1. Enters(i, pc + 0, 65530, 0)
    BY <1>1, <1>3
  <2>2. Mos!Enters(i, (pc % 65536) + 0, 65530, 0) /\ Left /\ Registers'
    BY <2>1, EntersIs DEF Bool
  <2>. QED  BY <1>1, <1>3, <2>2 DEF Mos!Interrupts
<1>4. CASE i.op = "IRQ" /\ i_flag = 0 /\ Enters(i, pc, 65534, 0)
  <2>1. Enters(i, pc + 0, 65534, 0)
    BY <1>1, <1>4
  <2>2. Mos!Enters(i, (pc % 65536) + 0, 65534, 0) /\ Left /\ Registers'
    BY <2>1, EntersIs DEF Bool
  <2>. QED  BY <1>1, <1>4, <2>2 DEF Mos!Interrupts
<1>. QED  BY <1>2, <1>3, <1>4 DEF Interrupts

\* Adding whole pages to an offset leaves the offset within its page alone: the wrap of
\* the indirect jump's second byte (the NMOS bug) is that of its low byte.
LEMMA PageDropped ==
    ASSUME NEW n \in Int, NEW k \in Int, NEW m \in Int, m = n + 256 * k
    PROVE  m % 256 = n % 256
<1>1. PICK q \in Int : q = n \div 256
  OBVIOUS
<1>2. n = 256 * q + (n % 256) /\ 0 <= n % 256 /\ n % 256 <= 255 /\ n % 256 \in Int
  BY <1>1
<1>3. PICK r \in Int : r = n % 256
  BY <1>2
<1>4. m = 256 * (q + k) + r /\ 0 <= r /\ r <= 255
  BY <1>2, <1>3
<1>. QED  BY <1>3, <1>4

\* JSR pushes the address of its last byte
LEMMA PushedPcIs ==
    ASSUME pc \in Int
    PROVE  Mos!High((pc % 65536) + 2) = High(pc + 2) /\ Mos!Low((pc % 65536) + 2) = Low(pc + 2)
<1>1. High(pc + 2) = High((pc % 65536) + 2) /\ Low(pc + 2) = Low((pc % 65536) + 2)
  BY DEF High, Low
<1>. QED  BY <1>1, SameBytes

\* JMP, JMP indirect with the pointer that does not leave its page, JSR, RTS, RTI
LEMMA JumpGroupIs ==
    ASSUME NEW i \in Instruction, Ready, JumpGroup(i), i.op # "BRK"
    PROVE  Mos!Jumps(i) /\ Left /\ Registers'
<1>1. /\ Registers /\ pc \in Int /\ Switched /\ Pointer(i) \in Word /\ Operand(i) \in Word
      /\ i.b \in Byte /\ i.h \in Byte /\ i.m \in Byte
  BY FieldsAre DEF Ready
<1>2. UNCHANGED <<a, x, y, memory>> /\ UNCHANGED <<a, x, y>>
  BY DEF JumpGroup
<1>3. \A adr \in Word : jump(banks, adr) => Mos!Continues(adr) /\ Left
  BY <1>2, JumpIs
<1>4. UNCHANGED ram01
  BY <1>2 DEF memory
<1>5. /\ Below(1) = Mos!Down(1) /\ Below(2) = Mos!Down(2) /\ Below(2) \in Byte
      /\ Above(1) = Mos!Up(1) /\ Above(2) = Mos!Up(2) /\ Above(3) = Mos!Up(3)
      /\ Above(2) \in Byte /\ Above(3) \in Byte
  BY <1>1, StackIs
<1>6. UNCHANGED flags => UNCHANGED Mos!flags
  BY DEF flags, Mos!flags
<1>7. UNCHANGED flags /\ sp' \in Byte => Registers'
  BY <1>1, <1>2 DEF Registers, flags
<1>8. CASE /\ i.op = "JMP" /\ jump(banks, Operand(i)) /\ UNCHANGED <<sp, flags>>
           /\ Bus(<< >>, << >>, << >>)
  <2>1. Mos!Continues(Operand(i)) /\ Left /\ Registers'
    BY <1>1, <1>3, <1>7, <1>8 DEF Registers
  <2>. QED  BY <1>2, <1>4, <1>6, <1>8, <2>1, SameOperands
            DEF Mos!Jumps, Mos!Quiet, Mos!Bus, Bus
<1>9. CASE /\ i.op = "JMP_IND" /\ jump(banks, Pointer(i)) /\ UNCHANGED <<sp, flags>>
           /\ LET adr == Operand(i)
              IN  Bus(<< >>, << read_byte(adr),
                                read_byte(((adr + 1) % 256) + 256 * (adr \div 256)) >>, << >>)
  <2>. DEFINE adr == Operand(i)
              next == 256 * i.h + ((i.b + 1) % 256)
  <2>1. Mos!Continues(Pointer(i)) /\ Left /\ Registers'
    BY <1>1, <1>3, <1>7, <1>9 DEF Registers
  <2>2. ((adr + 1) % 256) + 256 * (adr \div 256) = next /\ next \in Word
    <3>1. /\ i.b \in Int /\ i.h \in Int /\ 0 <= i.b /\ i.b <= 255 /\ 0 <= i.h /\ i.h <= 255
          /\ adr = i.b + 256 * i.h
      BY <1>1, ByteIs DEF Operand
    <3>. HIDE DEF adr
    <3>2. adr \div 256 = i.h
      BY <3>1
    <3>3. adr + 1 = (i.b + 1) + 256 * i.h
      BY <3>1
    <3>4. (adr + 1) % 256 = (i.b + 1) % 256
      BY <3>1, <3>3, PageDropped
    <3>. QED  BY <3>1, <3>2, <3>4, WordIs
  <2>3. read_byte(adr) = Mos!Cell(adr) /\ read_byte(next) = Mos!Cell(next)
    BY <1>1, <2>2, ReadsAreSeen
  <2>4. bus' = [via |-> << >>, rd |-> << Mos!Cell(adr), Mos!Cell(next) >>, wr |-> << >>]
    <3>1. bus' = [via |-> << >>, rd |-> << read_byte(adr), read_byte(next) >>, wr |-> << >>]
      BY <1>9, <2>2 DEF Bus
    <3>. HIDE DEF adr, next
    <3>. QED  BY <2>3, <3>1
  <2>. QED  BY <1>2, <1>4, <1>6, <1>9, <2>1, <2>4, SameOperands DEF Mos!Jumps, Mos!Bus
<1>10. CASE /\ i.op = "JSR" /\ jump(banks, Operand(i)) /\ sp' = Below(2) /\ UNCHANGED flags
            /\ Bus(<< >>, << >>,
                   << push_byte(sp, High(pc + 2)), push_byte(Below(1), Low(pc + 2)) >>)
  <2>1. Mos!Continues(Operand(i)) /\ Left /\ Registers'
    BY <1>1, <1>3, <1>5, <1>7, <1>10
  <2>2. bus' = [via |-> << >>, rd |-> << >>,
                wr |-> << Mos!Push(sp, Mos!High((pc % 65536) + 2)),
                          Mos!Push(Mos!Down(1), Mos!Low((pc % 65536) + 2)) >>]
    BY <1>1, <1>5, <1>10, SameStack, PushedPcIs DEF Bus
  <2>. QED  BY <1>2, <1>4, <1>5, <1>6, <1>10, <2>1, <2>2, SameOperands DEF Mos!Jumps, Mos!Bus
<1>11. CASE /\ i.op = "RTS" /\ jump(banks, (Pointer(i) + 1) % 65536)
            /\ sp' = Above(2) /\ UNCHANGED flags
            /\ Bus(<< >>, << pop_byte(Above(1)), pop_byte(Above(2)) >>, << >>)
  <2>1. (Pointer(i) + 1) % 65536 \in Word
    BY <1>1, WordIs, WrapsToWord
  <2>2. Mos!Continues((Pointer(i) + 1) % 65536) /\ Left /\ Registers'
    BY <1>3, <1>5, <1>7, <1>11, <2>1
  <2>3. bus' = [via |-> << >>, rd |-> << Mos!Top(Mos!Up(1)), Mos!Top(Mos!Up(2)) >>, wr |-> << >>]
    BY <1>5, <1>11, SameStack DEF Bus
  <2>. QED  BY <1>2, <1>4, <1>5, <1>6, <1>11, <2>2, <2>3, SameOperands DEF Mos!Jumps, Mos!Bus
<1>12. CASE /\ i.op = "RTI" /\ jump(banks, Pointer(i)) /\ sp' = Above(3) /\ pop_flags(i.m)
            /\ Bus(<< >>, << pop_byte(Above(1)), pop_byte(Above(2)), pop_byte(Above(3)) >>, << >>)
  <2>1. Mos!Continues(Pointer(i)) /\ Left
    BY <1>1, <1>3, <1>12
  <2>2. bus' = [via |-> << >>, rd |-> << Mos!Top(Mos!Up(1)), Mos!Top(Mos!Up(2)), Mos!Top(Mos!Up(3)) >>,
                wr |-> << >>]
    BY <1>5, <1>12, SameStack DEF Bus
  <2>3. /\ Mos!Unpacks(i.m) /\ n_flag' \in Byte /\ z_flag' \in Byte
        /\ v_flag' \in Bool /\ d_flag' \in Bool /\ i_flag' \in Bool /\ c_flag' \in Bool
    BY <1>1, <1>12, UnpacksIs
  <2>4. Registers'
    BY <1>1, <1>2, <1>5, <1>12, <2>3 DEF Registers
  <2>. QED  BY <1>2, <1>4, <1>5, <1>12, <2>1, <2>2, <2>3, <2>4, SameOperands DEF Mos!Jumps, Mos!Bus
<1>. QED  BY <1>8, <1>9, <1>10, <1>11, <1>12 DEF JumpGroup

\* BCS to BPL: the target is cut or not, the flags are those of the 6510
LEMMA BranchGroupIs ==
    ASSUME NEW i \in Instruction, Ready, BranchGroup(i)
    PROVE  Mos!Branches(i) /\ Left /\ Registers'
<1>. DEFINE n == Bit(n_flag, 128)
            z == Flag(z_flag = 0)
<1>1. Registers /\ pc \in Int /\ Signed(i.b) \in Int
  <2>1. i.b \in Int
    BY FieldsAre, ByteIs
  <2>. QED  BY <2>1 DEF Ready, Signed
<1>2. n \in {0, 1} /\ (z = 1 <=> z_flag = 0) /\ (z = 0 <=> z_flag # 0)
  BY <1>1, BitIs DEF Registers, Weights, Bool, Flag
<1>3. PICK p \in BOOLEAN :
        /\ Branch(i, p)
        /\ \/ i.op = "BCS" /\ p = (c_flag = 1)
           \/ i.op = "BCC" /\ p = (c_flag = 0)
           \/ i.op = "BEQ" /\ p = (z = 1)
           \/ i.op = "BNE" /\ p = (z = 0)
           \/ i.op = "BVS" /\ p = (v_flag = 1)
           \/ i.op = "BVC" /\ p = (v_flag = 0)
           \/ i.op = "BMI" /\ p = (n = 1)
           \/ i.op = "BPL" /\ p = (n = 0)
  <2>. HIDE DEF z
  <2>. QED  BY <1>2 DEF BranchGroup
<1>4. /\ pc' = pc + 2 + IF p THEN Signed(i.b) ELSE 0
      /\ Bus(<< >>, << >>, << >>) /\ UNCHANGED <<axys, flags, memory, base>>
  BY <1>3 DEF Branch
<1>. DEFINE On(q) == pc' % 65536 = ((pc % 65536) + 2 + IF q THEN Mos!Signed(i.b) ELSE 0) % 65536
<1>5. pc' \in Int /\ On(p)
  <2>. DEFINE d == 2 + IF p THEN Signed(i.b) ELSE 0
  <2>1. d \in Int /\ pc' = pc + d
    BY <1>1, <1>4
  <2>. HIDE DEF d
  <2>2. (pc + d) % 65536 = ((pc % 65536) + d) % 65536
    BY <1>1, <2>1
  <2>3. (pc % 65536) + d = (pc % 65536) + 2 + IF p THEN Mos!Signed(i.b) ELSE 0
    BY <1>1, SameBytes DEF d
  <2>. QED  BY <1>1, <2>1, <2>2, <2>3
<1>6. Registers' /\ UNCHANGED <<Mos!axys, Mos!flags, ram01, base>> /\ Mos!Quiet
  BY <1>1, <1>4 DEF Registers, axys, flags, memory, Mos!axys, Mos!flags, Mos!Quiet, Mos!Bus, Bus
<1>7. Left
  <2>1. Switched'
    BY <1>4, SwitchedStays DEF Ready
  <2>. QED  BY <1>4, <1>5, <2>1 DEF Ready, Left
<1>8. Mos!Branches(i)
  <2>. HIDE DEF On
  <2>1. \/ i.op = "BCS" /\ On(c_flag = 1)
        \/ i.op = "BCC" /\ On(c_flag = 0)
        \/ i.op = "BEQ" /\ On(z = 1)
        \/ i.op = "BNE" /\ On(z = 0)
        \/ i.op = "BVS" /\ On(v_flag = 1)
        \/ i.op = "BVC" /\ On(v_flag = 0)
        \/ i.op = "BMI" /\ On(n = 1)
        \/ i.op = "BPL" /\ On(n = 0)
    <3>. HIDE DEF n, z
    <3>. QED  BY <1>3, <1>5
  <2>. QED  BY <1>6, <2>1 DEF Mos!Branches, On
<1>. QED  BY <1>6, <1>7, <1>8
-----------------------------------------------------------------------------
(* Reset, and the opcode that calls the drive *)

\* reset() and an opcode that no 6510 survives: the port cleared, the program
\* at the kernal's vector
LEMMA ResetIs ==
    ASSUME NEW i \in Instruction, Ready, Reset(i), i.op \in {"IEC", "ILLEGAL", "RESET"}
    PROVE  Mos!Resets(i) /\ Left /\ Registers'
<1>1. /\ ram01' = [ddr |-> 0, pr |-> 0] /\ banks' = new_config([ddr |-> 0, pr |-> 0])
      /\ jump(new_config([ddr |-> 0, pr |-> 0]), ResetVector)
      /\ bus' = [via |-> << >>, rd |-> << <<"kernal", 65532>>, <<"kernal", 65533>> >>,
                 wr |-> IF i.m = 1 THEN << <<"ram", 32772, 0>> >> ELSE << >>]
      /\ UNCHANGED <<axys, flags>>
  BY DEF Reset, Bus
<1>2. [ddr |-> 0, pr |-> 0] \in Ports
  BY ByteIs DEF Ports
<1>3. Switched' /\ jump(new_config(ram01'), ResetVector)
  BY <1>1, <1>2 DEF Switched
<1>4. Mos!Continues(ResetVector) /\ Left
  BY <1>3, ContinuesIs, VectorAssumption
<1>5. bus'.rd = << <<"kernal", 65532>>, <<"kernal", 65533>> >>
  BY <1>1
<1>6. UNCHANGED Mos!axys /\ UNCHANGED Mos!flags
  BY <1>1 DEF axys, flags, Mos!axys, Mos!flags
<1>7. Registers'
  BY <1>1 DEF Ready, Registers, axys, flags
<1>. QED  BY <1>1, <1>4, <1>5, <1>6, <1>7 DEF Mos!Resets

\* The asynchronous reset
LEMMA ResetsIs ==
    ASSUME NEW i \in Instruction, Ready, Resets(i)
    PROVE  Mos!Resets(i) /\ Left /\ Registers'
BY ResetIs DEF Resets

\* $f2 in the kernal returns to one of two addresses of it, with the status of
\* the call in cell 144; anywhere else it resets the machine
LEMMA ExtensionIs ==
    ASSUME NEW i \in Instruction, Ready, Extension(i)
    PROVE  (Mos!Calls(i) \/ Mos!Resets(i)) /\ Left /\ Registers'
<1>. DEFINE Returns(adr) == /\ jump(banks, adr)
                            /\ UNCHANGED <<memory, x, y, sp, v_flag, d_flag, i_flag>>
            Status == Bus(<< >>, << zp(144) >>, << <<"ram", 144, Or(i.m, i.k)>> >>)
<1>1. 60844 \in Word /\ 60923 \in Word
  BY WordIs
<1>2. ASSUME Returns(60844) \/ Returns(60923)
      PROVE  /\ Mos!Continues(60844) \/ Mos!Continues(60923)
             /\ Left /\ UNCHANGED <<ram01, x, y, sp, v_flag, d_flag, i_flag>>
  <2>1. UNCHANGED memory /\ UNCHANGED <<x, y, sp, v_flag, d_flag, i_flag>>
    BY <1>2
  <2>2. CASE jump(banks, 60844)
    <3>1. Mos!Continues(60844) /\ Left /\ UNCHANGED ram01
      BY <1>1, <2>1, <2>2, JumpIs
    <3>. QED  BY <2>1, <3>1
  <2>3. CASE jump(banks, 60923)
    <3>1. Mos!Continues(60923) /\ Left /\ UNCHANGED ram01
      BY <1>1, <2>1, <2>3, JumpIs
    <3>. QED  BY <2>1, <3>1
  <2>. QED  BY <1>2, <2>2, <2>3
<1>3. Status => bus'.wr = << <<"ram", 144, Mos!Or(i.m, i.k)>> >>
  <2>1. Status => bus'.wr = << <<"ram", 144, Or(i.m, i.k)>> >>
    BY DEF Bus
  <2>. QED  BY <2>1, SameBytes
<1>4. i.op = "IEC"
  BY DEF Extension
<1>5. CASE /\ Returns(60844) /\ Status /\ c_flag' = 0 /\ UNCHANGED <<a, n_flag, z_flag>>
  <2>1. UNCHANGED Bit(n_flag, 128) /\ UNCHANGED Flag(z_flag = 0)
    BY <1>5
  <2>2. Registers'
    BY <1>2, <1>5 DEF Ready, Registers, Bool
  <2>. HIDE DEF Status, Returns
  <2>. QED  BY <1>2, <1>3, <1>4, <1>5, <2>1, <2>2 DEF Mos!Calls
<1>6. CASE /\ Returns(60844) /\ Status /\ c_flag' = 0 /\ a' = i.lo /\ set_nz(i.lo)
  <2>1. i.lo \in Byte
    BY FieldsAre
  <2>2. Mos!NZ(i.lo) /\ n_flag' \in Byte /\ z_flag' \in Byte
    BY <1>6, <2>1, SetsNZ
  <2>3. Registers'
    BY <1>2, <1>6, <2>1, <2>2 DEF Ready, Registers, Bool
  <2>. HIDE DEF Status, Returns
  <2>. QED  BY <1>2, <1>3, <1>4, <1>6, <2>2, <2>3 DEF Mos!Calls
<1>7. CASE /\ Returns(60844) \/ Returns(60923)
           /\ Bus(<< >>, << >>, << >>) /\ UNCHANGED <<a, n_flag, z_flag, c_flag>>
  <2>1. UNCHANGED Bit(n_flag, 128) /\ UNCHANGED Flag(z_flag = 0)
    BY <1>7
  <2>2. Registers'
    BY <1>2, <1>7 DEF Ready, Registers
  <2>3. Mos!Quiet
    BY <1>7 DEF Mos!Quiet, Mos!Bus, Bus
  <2>. HIDE DEF Returns
  <2>. QED  BY <1>2, <1>4, <1>7, <2>1, <2>2, <2>3 DEF Mos!Calls
<1>8. CASE Reset(i)
  BY <1>4, <1>8, ResetIs
<1>. HIDE DEF Status
<1>. QED
  <2>1. \/ Returns(60844) /\ Status /\ c_flag' = 0 /\ UNCHANGED <<a, n_flag, z_flag>>
        \/ Returns(60844) /\ Status /\ c_flag' = 0 /\ a' = i.lo /\ set_nz(i.lo)
        \/ /\ Returns(60844) \/ Returns(60923)
           /\ Bus(<< >>, << >>, << >>) /\ UNCHANGED <<a, n_flag, z_flag, c_flag>>
        \/ Reset(i)
    BY DEF Extension, Status
  <2>. HIDE DEF Returns
  <2>. QED  BY <1>5, <1>6, <1>7, <1>8, <2>1

-----------------------------------------------------------------------------
(* Any opcode *)

\* An opcode, an interrupt, a reset or a call of the drive is a step of Mos6502
LEMMA GroupIs ==
    ASSUME NEW i \in Instruction, Ready, Group(i)
    PROVE  Mos!Instructs(i) /\ Left /\ Registers'
<1>1. CASE \/ LoadGroup(i) \/ LogicGroup(i) \/ ArithmeticGroup(i) \/ CompareGroup(i)
           \/ BitGroup(i) \/ LoadAXGroup(i) \/ Complex(i)
  <2>1. Mos!Reads(i) /\ Left /\ Registers'
    BY <1>1, LoadGroupIs, LogicGroupIs, ArithmeticGroupIs, CompareGroupIs, BitGroupIs,
       LoadAXGroupIs, ComplexIs
  <2>. QED  BY <2>1 DEF Mos!Instructs
<1>2. CASE StoreGroup(i) \/ StoreAXGroup(i) \/ MaskedStores(i)
  <2>1. Mos!Writes(i) /\ Left /\ Registers'
    BY <1>2, StoreGroupIs, StoreAXGroupIs, MaskedStoresIs
  <2>. QED  BY <2>1 DEF Mos!Instructs
<1>3. CASE \/ ShiftLeftOr(i) \/ RotateLeftAnd(i) \/ ShiftRightEor(i) \/ RoRightAdc(i)
           \/ DecCompare(i) \/ IncSbc(i)
  <2>1. Mos!Modifies(i) /\ Left /\ Registers'
    BY <1>3, ShiftAndCombineIs, RoRightAdcIs, DecCompareIs, IncSbcIs
  <2>. QED  BY <2>1 DEF Mos!Instructs
<1>4. CASE IncDecGroup(i)
  <2>1. i.op \in {"INC", "DEC"} \/ i.op \in {"INX", "DEX", "INY", "DEY"}
    BY <1>4 DEF IncDecGroup
  <2>2. (Mos!Modifies(i) \/ Mos!Implied(i)) /\ Left /\ Registers'
    BY <1>4, <2>1, IncDecIs, CountRegisterIs
  <2>. QED  BY <2>2 DEF Mos!Instructs
<1>5. CASE ShiftGroup(i)
  <2>1. \/ i.op \in {"ASL", "LSR", "ROL", "ROR"}
        \/ i.op \in {"ASL_A", "LSR_A", "ROL_A", "ROR_A"}
    BY <1>5 DEF ShiftGroup
  <2>2. (Mos!Modifies(i) \/ Mos!Implied(i)) /\ Left /\ Registers'
    BY <1>5, <2>1, ShiftIs, ShiftAIs
  <2>. QED  BY <2>2 DEF Mos!Instructs
<1>6. CASE TransferGroup(i) \/ FlagsGroup(i) \/ NopGroup(i)
  <2>1. Mos!Implied(i) /\ Left /\ Registers'
    BY <1>6, TransferGroupIs, FlagsGroupIs, NopGroupIs
  <2>. QED  BY <2>1 DEF Mos!Instructs
<1>7. CASE StackGroup(i)
  <2>1. Mos!Stack(i) /\ Left /\ Registers'
    BY <1>7, StackGroupIs
  <2>. QED  BY <2>1 DEF Mos!Instructs
<1>8. CASE JumpGroup(i) \/ Interrupts(i)
  <2>1. CASE Interrupts(i) \/ (i.op = "BRK" /\ JumpGroup(i))
    <3>1. Interrupts(i) \/ (i.op = "BRK" /\ Enters(i, pc + 2, 65534, 1))
      BY <2>1 DEF JumpGroup
    <3>2. Mos!Interrupts(i) /\ Left /\ Registers'
      BY <3>1, InterruptsIs
    <3>. QED  BY <3>2 DEF Mos!Instructs
  <2>2. CASE i.op # "BRK" /\ JumpGroup(i)
    <3>1. Mos!Jumps(i) /\ Left /\ Registers'
      BY <2>2, JumpGroupIs
    <3>. QED  BY <3>1 DEF Mos!Instructs
  <2>. QED  BY <1>8, <2>1, <2>2
<1>9. CASE BranchGroup(i)
  <2>1. Mos!Branches(i) /\ Left /\ Registers'
    BY <1>9, BranchGroupIs
  <2>. QED  BY <2>1 DEF Mos!Instructs
<1>10. CASE Resets(i) \/ Extension(i)
  <2>1. (Mos!Calls(i) \/ Mos!Resets(i)) /\ Left /\ Registers'
    BY <1>10, ResetsIs, ExtensionIs
  <2>. QED  BY <2>1 DEF Mos!Instructs
<1>. QED  BY <1>1, <1>2, <1>3, <1>4, <1>5, <1>6, <1>7, <1>8, <1>9, <1>10 DEF Group
-----------------------------------------------------------------------------
(* Every behaviour *)

\* A snapshot keeps the port and the switches, which belong together
Matched(s) == s.banks = new_config([ddr |-> s.ddr, pr |-> s.pr])

CInv == TypeOK /\ Switched /\ Matched(saved)

LEMMA ReadyIs == CInv => Ready
BY DEF CInv, TypeOK, Ready, Registers, Bases

\* The fields of a snapshot, in the ranges that the registers have
LEMMA SnapshotIs ==
    ASSUME NEW s \in State
    PROVE  /\ s.a \in Byte /\ s.x \in Byte /\ s.y \in Byte /\ s.p \in Byte
           /\ s.ddr \in Byte /\ s.pr \in Byte /\ s.pc \in Word
           /\ [ddr |-> s.ddr, pr |-> s.pr] \in Ports
           /\ s.sp % 256 = s.sp - 256 /\ s.sp % 256 \in Byte
<1>. HIDE DEF Byte, Word
<1>1. /\ s.a \in Byte /\ s.x \in Byte /\ s.y \in Byte /\ s.p \in Byte
      /\ s.ddr \in Byte /\ s.pr \in Byte /\ s.pc \in Word /\ s.sp \in 256 .. 511
  BY DEF State
<1>2. [ddr |-> s.ddr, pr |-> s.pr] \in Ports
  BY <1>1 DEF Ports
<1>3. PICK n \in Int : n = s.sp /\ 256 <= n /\ n <= 511
  BY <1>1
<1>4. n % 256 = n - 256 /\ 0 <= n - 256 /\ n - 256 <= 255
  BY <1>3
<1>. QED  BY <1>1, <1>2, <1>3, <1>4, ByteIs

\* The processor starts with the switches of an empty port
LEMMA InitCInv == Init => CInv
<1>. SUFFICES ASSUME Init  PROVE CInv
  OBVIOUS
<1>1. [ddr |-> 0, pr |-> 0] \in Ports
  BY ByteIs DEF Ports
<1>2. Switched
  BY <1>1 DEF Init, Switched
<1>3. banks \in Banks /\ ram01 \in Ports
  BY <1>1, SwitchesAreMode DEF Init
<1>4. saved \in State /\ Matched(saved)
  BY SnapshotsAssumption DEF Init, Matched
<1>5. in \in Instruction
  BY InputsAreInstructions DEF Init
<1>6. pc \in Int
  BY VectorAssumption, WordIs DEF Init
<1>7. base \in {"ram", "basic", "kernal", "char", "io"}
  BY DEF Init, BaseOf
<1>8. /\ a \in Byte /\ x \in Byte /\ y \in Byte /\ sp \in Byte
      /\ n_flag \in Byte /\ z_flag \in Byte
      /\ v_flag \in Bool /\ d_flag \in Bool /\ i_flag \in Bool /\ c_flag \in Bool
      /\ steps \in Nat /\ saves \in Nat
  BY ByteIs DEF Init, Bool
<1>. QED  BY <1>2, <1>3, <1>4, <1>5, <1>6, <1>7, <1>8 DEF CInv, TypeOK

\* Reset finds the program where the empty port shows it
LEMMA InitIs == Init => Mos!Init
<1>. SUFFICES ASSUME Init  PROVE Mos!Init
  OBVIOUS
<1>1. CInv
  BY InitCInv
<1>2. ResetVector % 65536 = ResetVector
  <2>1. ResetVector \in Int /\ 0 <= ResetVector /\ ResetVector <= 65535
    BY VectorAssumption, WordIs
  <2>. QED  BY <2>1
<1>3. Mos!Mode([ddr |-> 0, pr |-> 0]) = 7
  BY DEF Mos!Mode, Mos!Flag, Mos!Bit
<1>4. base = Mos!Area(7, pc % 65536)
  BY <1>2, <1>3, VectorAssumption, JumpsAreSeen DEF Init
<1>5. /\ Bit(n_flag, 128) \in Bool /\ Flag(z_flag = 0) \in Bool
  BY DEF Init, Bit, Flag, Bool
<1>6. Mos!Instruction = Instruction
  BY SameBytes DEF Mos!Instruction, Instruction, Mos!Modes, Modes
<1>. QED  BY <1>1, <1>2, <1>4, <1>5, <1>6, SameBytes DEF Mos!Init, Init, CInv, TypeOK

\* One opcode
LEMMA ExecutesIs ==
    ASSUME CInv, Executes
    PROVE  CInv' /\ Mos!Next
<1>1. PICK i \in Inputs : in' = i /\ Group(i)
  BY DEF Executes
<1>2. i \in Instruction
  BY InputsAreInstructions
<1>3. Mos!Instructs(i) /\ Left /\ Registers'
  BY <1>1, <1>2, GroupIs, ReadyIs
<1>4. steps' \in Nat /\ UNCHANGED <<saved, saves>>
  BY DEF Executes, CInv, TypeOK
<1>5. ram01' \in Ports /\ banks' \in Banks
  BY <1>3, SwitchesAreMode DEF Left, Switched
<1>6. CInv'
  BY <1>1, <1>2, <1>3, <1>4, <1>5 DEF CInv, TypeOK, Left, Registers, Bases, Matched
<1>7. in' \in Mos!Instruction
  BY <1>1, <1>2, SameBytes DEF Mos!Instruction, Instruction, Mos!Modes, Modes
<1>8. Mos!Instructs(in')
  BY <1>1, <1>3
<1>. QED  BY <1>4, <1>6, <1>7, <1>8 DEF Mos!Next

\* getState() keeps what the registers say
LEMMA SaveIs ==
    ASSUME CInv, Save, saves' = saves + 1, UNCHANGED steps
    PROVE  CInv' /\ Mos!Save
<1>1. /\ saved' = GetState
      /\ UNCHANGED <<axys, flags, memory, pc, base, in, bus>>
  BY DEF Save
<1>2. Ready /\ Registers
  BY ReadyIs DEF Ready
<1>3. push_flags(0) = Mos!Status(0) /\ push_flags(0) \in Byte
  BY <1>2, StatusIs DEF Bool
<1>4. pc % 65536 \in Word
  BY <1>2, WrapsToWord DEF Ready
<1>5. PICK n \in Int : n = sp /\ 0 <= n /\ n <= 255
  BY <1>2, ByteIs DEF Registers
<1>6. 256 + sp \in 256 .. 511 /\ (256 + sp) - 256 = sp
  BY <1>5
<1>7. ram01.ddr \in Byte /\ ram01.pr \in Byte /\ [ddr |-> ram01.ddr, pr |-> ram01.pr] = ram01
  BY DEF CInv, TypeOK, Ports
<1>8. saved' \in State
  BY <1>1, <1>2, <1>3, <1>4, <1>6, <1>7 DEF GetState, State, CInv, TypeOK, Registers
<1>9. Matched(saved)'
  BY <1>1, <1>7 DEF GetState, Matched, CInv, Switched
<1>10. CInv'
  BY <1>1, <1>8, <1>9 DEF CInv, TypeOK, Switched, axys, flags, memory
<1>11. << saved.a, saved.x, saved.y, saved.sp - 256, saved.p, saved.pc,
          [ddr |-> saved.ddr, pr |-> saved.pr] >>'
       = << a, x, y, sp, Mos!Status(0), pc % 65536, ram01 >>
  BY <1>1, <1>3, <1>6, <1>7 DEF GetState
<1>12. UNCHANGED <<Mos!axys, Mos!flags, pc % 65536, base, ram01, in, bus>>
  BY <1>1 DEF axys, flags, memory, Mos!axys, Mos!flags
<1>. QED  BY <1>10, <1>11, <1>12 DEF Mos!Save

\* setState() finds them again
LEMMA RestoreIs ==
    ASSUME CInv, Restore, UNCHANGED <<steps, saves>>
    PROVE  CInv' /\ Mos!Restore
<1>. DEFINE s == saved
<1>1. /\ a' = s.a /\ x' = s.x /\ y' = s.y /\ sp' = s.sp % 256
      /\ n_flag' = 128 * Bit(s.p, 128) /\ v_flag' = Bit(s.p, 64) /\ d_flag' = Bit(s.p, 8)
      /\ i_flag' = Bit(s.p, 4) /\ z_flag' = Flag(Bit(s.p, 2) = 0) /\ c_flag' = Bit(s.p, 1)
      /\ ram01' = [ddr |-> s.ddr, pr |-> s.pr] /\ banks' = s.banks
      /\ jump(s.banks, s.pc) /\ UNCHANGED <<saved, in, bus>>
  BY DEF Restore, SetState
<1>2. s \in State /\ Matched(s)
  BY DEF CInv, TypeOK
<1>3. /\ s.a \in Byte /\ s.x \in Byte /\ s.y \in Byte /\ s.p \in Byte /\ s.pc \in Word
      /\ [ddr |-> s.ddr, pr |-> s.pr] \in Ports
      /\ s.sp % 256 = s.sp - 256 /\ s.sp % 256 \in Byte
  BY <1>2, SnapshotIs
<1>4. Switched'
  BY <1>1, <1>2, <1>3 DEF Switched, Matched
<1>5. Mos!Continues(s.pc) /\ Left
  BY <1>1, <1>2, <1>3, <1>4, ContinuesIs DEF Matched
<1>6. /\ Bit(s.p, 128) \in Bool /\ Bit(s.p, 64) \in Bool /\ Bit(s.p, 8) \in Bool
      /\ Bit(s.p, 4) \in Bool /\ Bit(s.p, 2) \in Bool /\ Bit(s.p, 1) \in Bool
  BY <1>3, BitIs DEF Weights
<1>7. \A b \in Bool : 128 * b \in Byte /\ Bit(128 * b, 128) = b /\ Flag(Flag(b = 0) = 0) = b
                      /\ Flag(b = 0) \in Byte
  BY ByteIs DEF Bool, Bit, Flag
<1>8. /\ n_flag' \in Byte /\ z_flag' \in Byte
      /\ Bit(n_flag, 128)' = Bit(s.p, 128) /\ Flag(z_flag = 0)' = Bit(s.p, 2)
  BY <1>1, <1>6, <1>7
<1>9. Mos!Unpacks(s.p)
  BY <1>1, <1>8, SameBytes DEF Mos!Unpacks
<1>10. ram01' \in Ports /\ banks' \in Banks
  BY <1>4, SwitchesAreMode DEF Switched
<1>11. CInv'
  BY <1>1, <1>2, <1>3, <1>4, <1>5, <1>6, <1>8, <1>10 DEF CInv, TypeOK, Left, Bases, Matched
<1>. QED  BY <1>1, <1>3, <1>5, <1>9, <1>11 DEF Mos!Restore

\* Each step keeps the invariant and is a step of Mos6502 or leaves it alone
LEMMA NextIs == CInv /\ [Next]_vars => CInv' /\ [Mos!Next]_(Mos!vars)
<1>. SUFFICES ASSUME CInv, [Next]_vars  PROVE CInv' /\ [Mos!Next]_(Mos!vars)
  OBVIOUS
<1>1. CASE Executes
  BY <1>1, ExecutesIs
<1>2. CASE saves < MaxSaves /\ saves' = saves + 1 /\ UNCHANGED steps /\ Save
  BY <1>2, SaveIs DEF Mos!Next
<1>3. CASE UNCHANGED <<steps, saves>> /\ Restore
  BY <1>3, RestoreIs DEF Mos!Next
<1>4. CASE UNCHANGED vars
  <2>1. CInv'
    BY <1>4 DEF vars, axys, flags, CInv, TypeOK, Switched, Matched
  <2>2. UNCHANGED Mos!vars
    BY <1>4 DEF vars, axys, flags, Mos!vars, Mos!axys, Mos!flags
  <2>. QED  BY <2>1, <2>2
<1>. QED  BY <1>1, <1>2, <1>3, <1>4 DEF Next

\* Registers stay bytes and flags stay bits, and the four switches are those of
\* the port after every opcode, interrupt, reset and snapshot
THEOREM CpuInv == Spec => []CInv
<1>1. CInv /\ [Next]_vars => CInv'
  BY NextIs
<1>. QED  BY <1>1, InitCInv, PTL DEF Spec

\* Type correctness: registers are bytes, flags bits and states of snapshots in
\* range after every opcode; pc stays an integer, wherever it goes
THEOREM CpuTypeOK == Spec => []TypeOK
<1>1. CInv => TypeOK
  BY DEF CInv
<1>. QED  BY <1>1, CpuInv, PTL

\* The line-based core is a 6510: whatever the opcodes, the operands, what memory
\* delivers and where the interrupts come, each step is one of Mos6502
THEOREM CpuImplementsMos6502 == Spec => ImplementsMos6502
<1>1. CInv /\ [Next]_vars => [Mos!Next]_(Mos!vars)
  BY NextIs
<1>. QED  BY <1>1, InitIs, CpuInv, PTL DEF Spec, ImplementsMos6502, Mos!Spec
=============================================================================
