-------------------------------- MODULE Base64 --------------------------------
(***************************************************************************)
(* Text of keys and handshake lines, as far as the parsers tell characters *)
(* apart.  A character is a number: 0 to 63 stand for the base64 alphabet  *)
(* in its order, so that the digits of numerals are among them.            *)
(***************************************************************************)
EXTENDS Integers, SequencesExt

Alphabet == 0 .. 63
Slash    == 63
Pad      == 64
Space    == 65
NewLine  == 66
Hash     == 67

\* Three bytes are four characters.
GroupOf(s, k, size, base) ==
  FoldLeft(LAMBDA n, x : n * base + x, 0,
           [j \in 1 .. size |-> LET i == k * size + j
                                IN  IF i <= Len(s) THEN s[i] ELSE 0])
DigitsOf(s, count, from, fromBase, to, toBase) ==
  [i \in 1 .. count |->
     (GroupOf(s, (i - 1) \div to, from, fromBase)
        \div toBase^(to - 1 - ((i - 1) % to))) % toBase]

\* QByteArray::toBase64, and fromBase64, which passes over what is not of
\* the alphabet.
ToBase64(bytes) ==
  LET count == (8 * Len(bytes) + 5) \div 6
  IN  DigitsOf(bytes, count, 3, 256, 4, 64)
        \o [i \in 1 .. 4 * ((Len(bytes) + 2) \div 3) - count |-> Pad]

FromBase64(text) ==
  LET symbols == SelectSeq(text, LAMBDA c : c \in Alphabet)
  IN  DigitsOf(symbols, (6 * Len(symbols)) \div 8, 4, 64, 3, 256)

-----------------------------------------------------------------------------
\* QString::number and toUInt, toLongLong.  Letters follow the digits at 26.
DigitChar(d)  == IF d < 10 THEN 52 + d ELSE 26 + d - 10
DigitValue(c) == CASE c \in 52 .. 61 -> c - 52
                   [] c \in 26 .. 51 -> c - 26 + 10
                   [] c \in 0 .. 25  -> c + 10
                   [] OTHER          -> 99

Numeral(n, base) ==
  LET width == Min({w \in 1 .. 7 : n < base^w})
  IN  [i \in 1 .. width |-> DigitChar((n \div base^(width - i)) % base)]

NotANumber == -1
ToNumber(word, base) ==
  IF word # <<>> /\ \A i \in DOMAIN word : DigitValue(word[i]) < base
  THEN FoldLeft(LAMBDA n, c : n * base + DigitValue(c), 0, word)
  ELSE NotANumber
=============================================================================
