------------------------------ MODULE Amounts -------------------------------
(***************************************************************************)
(* How the review writes amounts and percentages (ui_utils.c).  A text is  *)
(* the sequence of its ASCII codes, NoText where a formatter returns false.*)
(* An integer of 64 bits is its eight bytes, least significant first.      *)
(***************************************************************************)
EXTENDS Integers, Sequences

NoText == <<>>
Zero == 48
Point == 46
Space == 32
PercentSign == 37
Sxp == <<83, 88, 80>>

-----------------------------------------------------------------------------
(* The SDK's formatters.                                                   *)

WordBase == 65536
LimbBase == 10000   \* a limb is four decimal digits

\* limbs * 2^16 + word, the least limb first.
TimesPlus(limbs, word) ==
  LET c1 == limbs[1] * WordBase + word
      c2 == limbs[2] * WordBase + c1 \div LimbBase
      c3 == limbs[3] * WordBase + c2 \div LimbBase
      c4 == limbs[4] * WordBase + c3 \div LimbBase
      c5 == limbs[5] * WordBase + c4 \div LimbBase
  IN  <<c1 % LimbBase, c2 % LimbBase, c3 % LimbBase, c4 % LimbBase, c5 % LimbBase>>

Word(bytes, k) == bytes[2 * k - 1] + 256 * bytes[2 * k]

Limbs(bytes) ==
  LET top == <<Word(bytes, 4) % LimbBase, Word(bytes, 4) \div LimbBase, 0, 0, 0>>
  IN  TimesPlus(TimesPlus(TimesPlus(top, Word(bytes, 3)), Word(bytes, 2)), Word(bytes, 1))

\* The decimal digit before which n lower ones stand.
Digit(bytes, n) ==
  (Limbs(bytes)[(n \div 4) + 1] \div <<1, 10, 100, 1000>>[(n % 4) + 1]) % 10

\* format_u64: the decimal digits, the first one first.
Decimal(bytes) ==
  LET digit == [n \in 0..19 |-> Digit(bytes, n)]
      last == CHOOSE n \in 0..19 :
                /\ n = 0 \/ digit[n] # 0
                /\ \A d \in n + 1..19 : digit[d] = 0
  IN  [k \in 1..last + 1 |-> Zero + digit[last + 1 - k]]

\* format_fpu64: a point before the last decimals digits.
FormatFpu64(dstLen, bytes, decimals) ==
  LET digits == Decimal(bytes)
      n == Len(digits)
      zeros == [k \in 1..decimals - n |-> Zero]
  IN  IF n <= decimals
      THEN IF dstLen <= 2 + decimals THEN NoText
           ELSE <<Zero, Point>> \o zeros \o digits
      ELSE IF dstLen <= n + 1 + decimals THEN NoText
           ELSE SubSeq(digits, 1, n - decimals) \o <<Point>>
                  \o SubSeq(digits, n - decimals + 1, n)

-----------------------------------------------------------------------------
(* The app's own.                                                          *)

\* AMOUNT_BUFFER_SIZE.  Slip: without room for the terminator.
UnterminatedBufferSize == 29

AmountBufferSize == 30

\* unpad_amount removes zeros from the end, from the second decimal on.
UnpadAmount(amount, padding) ==
  LET stops(k) == \/ k = 1 \/ amount[k] # Zero
                  \/ k > padding /\ amount[k - padding] = Point
      last == CHOOSE k \in 1..Len(amount) :
                stops(k) /\ \A j \in k + 1..Len(amount) : ~stops(j)
  IN  IF Len(amount) <= 1 THEN amount ELSE SubSeq(amount, 1, last)

\* get_amount_out_min, a uint8_t.
AmountOutMin(amount, tickerLen) == (Len(amount) + 3 + tickerLen) % 256

FormatAmount(dstLen, bytes, decimals, ticker) ==
  LET amount == FormatFpu64(AmountBufferSize, bytes, decimals)
  IN  IF \/ Len(ticker) \notin 3..5 \/ amount = NoText
         \/ dstLen < AmountOutMin(amount, Len(ticker))
      THEN NoText
      ELSE UnpadAmount(amount, 2) \o <<Space>> \o ticker

FormatAmountSxp(dstLen, bytes) == FormatAmount(dstLen, bytes, 8, Sxp)

\* The value has 16 bits.
FormatPercent(dstLen, bytes, decimals) ==
  LET percent == FormatFpu64(dstLen, bytes \o <<0, 0, 0, 0, 0, 0>>, decimals)
  IN  IF dstLen < 9 \/ percent = NoText THEN NoText
      ELSE percent \o <<PercentSign>>
=============================================================================
