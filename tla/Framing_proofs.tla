---------------------------- MODULE Framing_proofs ----------------------------
(***************************************************************************)
(* Proofs about module Framing and the codec of its payloads, for any      *)
(* items, limits and width of a byte.                                      *)
(***************************************************************************)
EXTENDS Framing, SequenceTheorems, TLAPS

\* The loops of the two modules.
DropLoop   == INSTANCE Loops WITH Op <- DropByte
MoveLoop   == INSTANCE Loops WITH Op <- MoveByte
ReadLoop   == INSTANCE Loops WITH Op <- WithByte
Utf8Loop   == INSTANCE Loops WITH Op <- WithUtf8
NameLoop   == INSTANCE Loops WITH Op <- WithCharacter
SizeLoop   == INSTANCE Loops WITH Op <- AndFrame
ServerLoop == INSTANCE Loops WITH Op <- ServerStep
ReaderLoop == INSTANCE Loops WITH Op <- ReaderStep

LEMMA Induction ==
  ASSUME NEW S, 0 \in S, \A n \in Nat : n \in S => n + 1 \in S
  PROVE  Nat \subseteq S
BY DropLoop!InductionOverNat

-----------------------------------------------------------------------------
(***************************************************************************)
(* Numbers written in bytes.                                               *)
(***************************************************************************)
LEMMA Rounds ==
  ASSUME NEW k \in Nat
  PROVE  /\ [i \in 1 .. 0 |-> i] = <<>>
         /\ [i \in 1 .. k |-> i] \in Seq(Nat)
         /\ [i \in 1 .. k + 1 |-> i] = Append([i \in 1 .. k |-> i], k + 1)
OBVIOUS

LEMMA ShiftedRight ==
  ASSUME NEW n, NEW k \in Nat
  PROVE  /\ ShiftRight(n, 0) = n
         /\ ShiftRight(n, k + 1) = ShiftRight(n, k) \div Byte
<1>1. \A j : ShiftRight(n, j) = DropLoop!Fold(n, [i \in 1 .. j |-> i])
  BY DEF ShiftRight, DropLoop!Fold, DropLoop!FoldLeft, FoldLeft,
         DropLoop!MapThenFoldSet, MapThenFoldSet, DropLoop!Max, Max
<1>2. ShiftRight(n, 0) = DropLoop!Fold(n, <<>>)
  BY <1>1, Rounds
<1> DEFINE s == [i \in 1 .. k |-> i]
<1>3. /\ ShiftRight(n, k + 1) = DropLoop!Fold(n, Append(s, k + 1))
      /\ ShiftRight(n, k) = DropLoop!Fold(n, s)
  BY <1>1, Rounds
<1>4. s \in Seq(Nat) /\ k + 1 \in Nat
  BY Rounds
<1> HIDE DEF s
<1>5. DropLoop!Fold(n, Append(s, k + 1)) = DropByte(DropLoop!Fold(n, s), k + 1)
  BY <1>4, DropLoop!FoldLast
<1>6. DropLoop!Fold(n, <<>>) = n
  BY DropLoop!FoldEmpty
<1> QED BY <1>2, <1>3, <1>5, <1>6 DEF DropByte

LEMMA ShiftedLeft ==
  ASSUME NEW n, NEW k \in Nat
  PROVE  /\ ShiftLeft(n, 0) = n
         /\ ShiftLeft(n, k + 1) = ShiftLeft(n, k) * Byte
<1>1. \A j : ShiftLeft(n, j) = MoveLoop!Fold(n, [i \in 1 .. j |-> i])
  BY DEF ShiftLeft, MoveLoop!Fold, MoveLoop!FoldLeft, FoldLeft,
         MoveLoop!MapThenFoldSet, MapThenFoldSet, MoveLoop!Max, Max
<1>2. ShiftLeft(n, 0) = MoveLoop!Fold(n, <<>>)
  BY <1>1, Rounds
<1> DEFINE s == [i \in 1 .. k |-> i]
<1>3. /\ ShiftLeft(n, k + 1) = MoveLoop!Fold(n, Append(s, k + 1))
      /\ ShiftLeft(n, k) = MoveLoop!Fold(n, s)
  BY <1>1, Rounds
<1>4. s \in Seq(Nat) /\ k + 1 \in Nat
  BY Rounds
<1> HIDE DEF s
<1>5. MoveLoop!Fold(n, Append(s, k + 1)) = MoveByte(MoveLoop!Fold(n, s), k + 1)
  BY <1>4, MoveLoop!FoldLast
<1>6. MoveLoop!Fold(n, <<>>) = n
  BY MoveLoop!FoldEmpty
<1> QED BY <1>2, <1>3, <1>5, <1>6 DEF MoveByte

\* One byte of a number, and the others.
LEMMA LastByte ==
  ASSUME NEW n \in Nat
  PROVE  /\ n \div Byte \in Nat /\ n % Byte \in Bytes
         /\ n = (n \div Byte) * Byte + (n % Byte)
BY ByteAssumption DEF Bytes

LEMMA FewerBytes ==
  ASSUME NEW n \in Nat, NEW p \in Nat, n < p * Byte
  PROVE  n \div Byte < p
<1>1. n = (n \div Byte) * Byte + (n % Byte) /\ n \div Byte \in Nat /\ n % Byte \in Bytes
  BY LastByte
<1> QED BY <1>1, ByteAssumption DEF Bytes

LEMMA ValuesType ==
  ASSUME NEW k \in Nat
  PROVE  /\ ValuesOf(k) \in Nat \ {0} /\ ValuesOf(0) = 1
         /\ ValuesOf(k + 1) = ValuesOf(k) * Byte
<1> DEFINE S == {i \in Nat : ValuesOf(i) \in Nat \ {0}}
<1>1. \A i \in Nat : ValuesOf(i + 1) = ValuesOf(i) * Byte /\ ValuesOf(0) = 1
  BY ShiftedLeft DEF ValuesOf
<1>2. 0 \in S
  BY <1>1
<1>3. ASSUME NEW i \in Nat, i \in S PROVE i + 1 \in S
  <2>1. \A p \in Nat \ {0} : p * Byte \in Nat \ {0}
    BY ByteAssumption
  <2> QED BY <1>1, <1>3, <2>1
<1> HIDE DEF S
<1>4. k \in S
  BY <1>2, <1>3, Induction
<1> QED BY <1>1, <1>4 DEF S

LEMMA ShiftType ==
  ASSUME NEW n \in Nat, NEW k \in Nat
  PROVE  ShiftRight(n, k) \in Nat
<1> DEFINE S == {i \in Nat : ShiftRight(n, i) \in Nat}
<1>1. 0 \in S
  BY ShiftedRight
<1>2. ASSUME NEW i \in Nat, i \in S PROVE i + 1 \in S
  <2>1. ShiftRight(n, i + 1) = ShiftRight(n, i) \div Byte
    BY ShiftedRight
  <2> QED BY <1>2, <2>1, LastByte
<1> HIDE DEF S
<1>3. k \in S
  BY <1>1, <1>2, Induction
<1> QED BY <1>3 DEF S

\* A number of w bytes has none behind the w-th.
LEMMA NoMoreBytes ==
  ASSUME NEW n \in Nat, NEW w \in Nat, n < ValuesOf(w)
  PROVE  ShiftRight(n, w) = 0
<1> DEFINE S == {i \in Nat : i <= w => ShiftRight(n, i) < ValuesOf(w - i)}
<1>1. 0 \in S
  BY ShiftedRight
<1>2. ASSUME NEW i \in Nat, i \in S PROVE i + 1 \in S
  <2> SUFFICES ASSUME i + 1 <= w
               PROVE  ShiftRight(n, i + 1) < ValuesOf(w - (i + 1))
    OBVIOUS
  <2> DEFINE k == w - (i + 1)
  <2>1. k \in Nat /\ k + 1 = w - i
    OBVIOUS
  <2>2. ShiftRight(n, i) < ValuesOf(k + 1)
    BY <1>2, <2>1
  <2> HIDE DEF k
  <2>3. ValuesOf(k + 1) = ValuesOf(k) * Byte /\ ValuesOf(k) \in Nat
    BY <2>1, ValuesType
  <2>4. ShiftRight(n, i) \in Nat
    BY ShiftType
  <2>5. ShiftRight(n, i) \div Byte < ValuesOf(k)
    BY <2>2, <2>3, <2>4, FewerBytes
  <2> QED BY <2>5, ShiftedRight DEF k
<1> HIDE DEF S
<1>3. w \in S
  BY <1>1, <1>2, Induction
<1>4. ShiftRight(n, w) < ValuesOf(w - w)
  BY <1>3 DEF S
<1>5. ValuesOf(w - w) = 1
  BY ValuesType
<1> QED BY <1>4, <1>5, ShiftType

LEMMA Written ==
  ASSUME NEW n \in Nat, NEW w \in Nat
  PROVE  /\ BigEndian(n, w) \in Seq(Bytes) /\ Len(BigEndian(n, w)) = w
         /\ \A i \in 1 .. w : BigEndian(n, w)[i] = ShiftRight(n, w - i) % Byte
<1>1. \A i \in 1 .. w : ShiftRight(n, w - i) % Byte \in Bytes
  <2> SUFFICES ASSUME NEW i \in 1 .. w PROVE ShiftRight(n, w - i) % Byte \in Bytes
    OBVIOUS
  <2>1. w - i \in Nat
    OBVIOUS
  <2>2. ShiftRight(n, w - i) \in Nat
    BY <2>1, ShiftType
  <2> QED BY <2>2, LastByte
<1>2. BigEndian(n, w) = [i \in 1 .. w |-> ShiftRight(n, w - i) % Byte]
  BY DEF BigEndian
<1> QED BY <1>1, <1>2

\* What is written in w bytes is read again.
LEMMA ReadBack ==
  ASSUME NEW n \in Nat, NEW w \in Nat, n < ValuesOf(w)
  PROVE  /\ BigEndian(n, w) \in Seq(Bytes) /\ Len(BigEndian(n, w)) = w
         /\ FromBigEndian(BigEndian(n, w)) = n
<1> DEFINE s == BigEndian(n, w)
<1>1. /\ s \in Seq(Bytes) /\ Len(s) = w
      /\ \A i \in 1 .. w : s[i] = ShiftRight(n, w - i) % Byte
  BY Written
<1>2. FromBigEndian(s) = ReadLoop!Fold(0, s)
  BY DEF FromBigEndian, ReadLoop!Fold, ReadLoop!FoldLeft, FoldLeft,
         ReadLoop!MapThenFoldSet, MapThenFoldSet, ReadLoop!Max, Max
<1> HIDE DEF s
<1>3. PICK a : /\ a[0] = 0
               /\ \A i \in 1 .. Len(s) : a[i] = WithByte(a[i - 1], s[i])
               /\ ReadLoop!Fold(0, s) = a[Len(s)]
  <2>1. s \in Seq(Bytes)
    BY <1>1
  <2> QED BY <2>1, ReadLoop!FoldSteps, ZenonT(30)
<1> DEFINE S == {i \in Nat : i <= w => a[i] = ShiftRight(n, w - i)}
<1>4. 0 \in S
  BY <1>3, NoMoreBytes
<1>5. ASSUME NEW i \in Nat, i \in S PROVE i + 1 \in S
  <2> SUFFICES ASSUME i + 1 <= w
               PROVE  a[i + 1] = ShiftRight(n, w - (i + 1))
    OBVIOUS
  <2> DEFINE k == w - (i + 1)
             m == ShiftRight(n, k)
  <2>1. k \in Nat /\ w - i = k + 1 /\ i + 1 \in 1 .. w /\ (i + 1) - 1 = i
    OBVIOUS
  <2>2. a[i] = ShiftRight(n, k + 1)
    BY <1>5, <2>1
  <2>3. s[i + 1] = ShiftRight(n, w - (i + 1)) % Byte
    BY <1>1, <2>1
  <2>4. s[i + 1] = m % Byte
    BY <2>3
  <2> HIDE DEF k
  <2>5. a[i] = m \div Byte /\ m \in Nat
    BY <2>1, <2>2, ShiftedRight, ShiftType
  <2>6. a[i + 1] = WithByte(a[i], s[i + 1])
    BY <1>1, <1>3, <2>1
  <2> HIDE DEF m
  <2>7. a[i + 1] = m
    BY <2>4, <2>5, <2>6, LastByte DEF WithByte
  <2> QED BY <2>7 DEF m, k
<1> HIDE DEF S
<1>6. w \in S
  BY <1>4, <1>5, Induction
<1>7. a[w] = ShiftRight(n, w - w) /\ ShiftRight(n, w - w) = n
  BY <1>6, ShiftedRight DEF S
<1> QED BY <1>1, <1>2, <1>3, <1>7 DEF s

\* What is read in any bytes is a number.
LEMMA NumberRead == ASSUME NEW s \in Seq(Bytes) PROVE FromBigEndian(s) \in Nat
<1>1. PICK a : /\ a[0] = 0
               /\ \A i \in 1 .. Len(s) : a[i] = WithByte(a[i - 1], s[i])
               /\ ReadLoop!Fold(0, s) = a[Len(s)]
  BY ReadLoop!FoldSteps
<1> DEFINE S == {i \in Nat : i <= Len(s) => a[i] \in Nat}
<1>2. 0 \in S
  BY <1>1
<1>3. ASSUME NEW i \in Nat, i \in S PROVE i + 1 \in S
  <2> SUFFICES ASSUME i + 1 <= Len(s) PROVE a[i + 1] \in Nat
    OBVIOUS
  <2>1. i + 1 \in 1 .. Len(s) /\ (i + 1) - 1 = i /\ a[i] \in Nat
    BY <1>3
  <2>2. s[i + 1] \in Nat
    BY <2>1, ByteAssumption DEF Bytes
  <2>3. a[i + 1] = a[i] * Byte + s[i + 1]
    BY <1>1, <2>1 DEF WithByte
  <2>4. a[i] * Byte \in Nat
    BY <2>1, ByteAssumption
  <2> QED BY <2>2, <2>3, <2>4
<1> HIDE DEF S
<1>4. Len(s) \in Nat
  OBVIOUS
<1>5. Len(s) \in S
  BY <1>2, <1>3, <1>4, Induction
<1>6. FromBigEndian(s) = ReadLoop!Fold(0, s)
  BY DEF FromBigEndian, ReadLoop!Fold, ReadLoop!FoldLeft, FoldLeft,
         ReadLoop!MapThenFoldSet, MapThenFoldSet, ReadLoop!Max, Max
<1> QED BY <1>1, <1>4, <1>5, <1>6 DEF S

-----------------------------------------------------------------------------
(***************************************************************************)
(* Parts of sequences.                                                     *)
(***************************************************************************)
LEMMA Smaller ==
  ASSUME NEW m \in Nat, NEW n \in Nat
  PROVE  Min({m, n}) = IF m <= n THEN m ELSE n
BY DEF Min

LEMMA GreatestNumber ==
  ASSUME NEW N \in Nat, NEW T \in SUBSET (0 .. N), T # {}
  PROVE  Max(T) \in T /\ \A n \in T : n <= Max(T)
<1>1. DropLoop!Max(T) \in T /\ \A n \in T : n <= DropLoop!Max(T)
  BY DropLoop!GreatestNatural
<1> QED BY <1>1 DEF Max, DropLoop!Max

LEMMA LeftPart ==
  ASSUME NEW T, NEW s \in Seq(T), NEW n \in Nat
  PROVE  /\ Left(s, n) \in Seq(T) /\ Len(Left(s, n)) = (IF n <= Len(s) THEN n ELSE Len(s))
         /\ \A i \in 1 .. Len(Left(s, n)) : Left(s, n)[i] = s[i]
         /\ Len(s) <= n => Left(s, n) = s
<1> DEFINE m == IF n <= Len(s) THEN n ELSE Len(s)
<1>1. Left(s, n) = SubSeq(s, 1, m) /\ m \in 0 .. Len(s)
  BY Smaller DEF Left
<1> QED BY <1>1

LEMMA PartBehind ==
  ASSUME NEW T, NEW s \in Seq(T), NEW n \in 0 .. Len(s)
  PROVE  /\ Behind(s, n) \in Seq(T) /\ Len(Behind(s, n)) = Len(s) - n
         /\ \A i \in 1 .. Len(s) - n : Behind(s, n)[i] = s[n + i]
         /\ s = Left(s, n) \o Behind(s, n)
<1>1. /\ Behind(s, n) \in Seq(T) /\ Len(Behind(s, n)) = Len(s) - n
      /\ \A i \in 1 .. Len(s) - n : Behind(s, n)[i] = s[n + i]
  BY DEF Behind
<1>2. Left(s, n) = SubSeq(s, 1, n)
  BY Smaller DEF Left
<1>3. s = SubSeq(s, 1, n) \o SubSeq(s, n + 1, Len(s))
  <2> DEFINE a == SubSeq(s, 1, n)
             b == SubSeq(s, n + 1, Len(s))
  <2>1. a \in Seq(T) /\ Len(a) = n /\ \A i \in 1 .. n : a[i] = s[i]
    OBVIOUS
  <2>2. b \in Seq(T) /\ Len(b) = Len(s) - n /\ \A i \in 1 .. Len(b) : b[i] = s[n + i]
    OBVIOUS
  <2> HIDE DEF a, b
  <2>3. a \o b \in Seq(T) /\ Len(a \o b) = Len(s)
    <3>1. a \in Seq(T) /\ b \in Seq(T) /\ Len(a) = n /\ Len(b) = Len(s) - n
      BY <2>1, <2>2
    <3>2. Len(a \o b) = Len(a) + Len(b)
      BY <3>1
    <3>3. a \o b \in Seq(T)
      BY <3>1
    <3> QED BY <3>1, <3>2, <3>3
  <2>4. ASSUME NEW i \in 1 .. Len(s) PROVE (a \o b)[i] = s[i]
    <3>1. i <= n \/ i > n
      OBVIOUS
    <3>2. CASE i <= n
      BY <2>1, <2>2, <3>2
    <3>3. CASE i > n
      <4>1. i - n \in 1 .. Len(b) /\ (a \o b)[i] = b[i - n] /\ n + (i - n) = i
        BY <2>1, <2>2, <3>3
      <4> QED BY <2>2, <4>1
    <3> QED BY <3>1, <3>2, <3>3
  <2> QED BY <2>3, <2>4, SeqEqual DEF a, b
<1> QED BY <1>1, <1>2, <1>3 DEF Behind

\* Of two sequences, one behind the other, each is found again.
LEMMA Parted ==
  ASSUME NEW T, NEW s \in Seq(T), NEW t \in Seq(T)
  PROVE  Left(s \o t, Len(s)) = s /\ Behind(s \o t, Len(s)) = t
<1>1. s \o t \in Seq(T) /\ Len(s) <= Len(s \o t) /\ Len(s) \in Nat
  OBVIOUS
<1>2. Left(s \o t, Len(s)) = SubSeq(s \o t, 1, Len(s))
  BY <1>1, Smaller DEF Left
<1>3. SubSeq(s \o t, 1, Len(s)) = s
  OBVIOUS
<1>4. SubSeq(s \o t, Len(s) + 1, Len(s \o t)) = t
  OBVIOUS
<1> QED BY <1>2, <1>3, <1>4 DEF Behind

LEMMA MiddlePart ==
  ASSUME NEW T, NEW s \in Seq(T), NEW t \in Seq(T), NEW u \in Seq(T)
  PROVE  Mid(s \o (t \o u), Len(s), Len(t)) = t
<1>1. t \o u \in Seq(T)
  OBVIOUS
<1> QED BY <1>1, Parted DEF Mid

-----------------------------------------------------------------------------
(***************************************************************************)
(* Names of files.                                                         *)
(***************************************************************************)
Begun(name, j) == ToUtf8(Left(name, j))

LEMMA NextCharacter ==
  ASSUME NEW name \in Seq(Characters), NEW j \in Nat, j < Len(name)
  PROVE  /\ Left(name, 0) = <<>> /\ Left(name, j) \in Seq(Characters)
         /\ name[j + 1] \in Characters
         /\ Left(name, j + 1) = Append(Left(name, j), name[j + 1])
<1>1. Left(name, 0) = SubSeq(name, 1, 0) /\ Left(name, j) = SubSeq(name, 1, j)
      /\ Left(name, j + 1) = SubSeq(name, 1, j + 1)
  BY Smaller DEF Left
<1> QED BY <1>1

LEMMA EncodedSteps ==
  ASSUME NEW name \in Seq(Characters), NEW c \in Characters
  PROVE  ToUtf8(<<>>) = <<>> /\ ToUtf8(Append(name, c)) = ToUtf8(name) \o Utf8(c)
<1>1. \A s : ToUtf8(s) = Utf8Loop!Fold(<<>>, s)
  BY DEF ToUtf8, Utf8Loop!Fold, Utf8Loop!FoldLeft, FoldLeft,
         Utf8Loop!MapThenFoldSet, MapThenFoldSet, Utf8Loop!Max, Max
<1>2. Utf8Loop!Fold(<<>>, <<>>) = <<>>
  BY Utf8Loop!FoldEmpty
<1>3. Utf8Loop!Fold(<<>>, Append(name, c)) = WithUtf8(Utf8Loop!Fold(<<>>, name), c)
  BY Utf8Loop!FoldLast
<1> QED BY <1>1, <1>2, <1>3 DEF WithUtf8

LEMMA CharacterBytes ==
  ASSUME NEW c \in Characters
  PROVE  /\ Utf8(c) \in Seq(1 .. 3)
         /\ \/ c = "a" /\ Utf8(c) = <<1>>
            \/ c = "e" /\ Utf8(c) = <<2, 3>>
BY DEF Characters, Utf8

\* Bytes of characters, none of which is cut.
WholeBytes == {s \in Seq(1 .. 3) : s # <<>> => s[Len(s)] # 2}

LEMMA MoreWholeBytes ==
  ASSUME NEW s \in WholeBytes, NEW c \in Characters
  PROVE  <<>> \in WholeBytes /\ s \o Utf8(c) \in WholeBytes
<1>1. s \in Seq(1 .. 3)
  BY DEF WholeBytes
<1>2. /\ s \o <<1>> \in Seq(1 .. 3) /\ Len(s \o <<1>>) = Len(s) + 1
      /\ (s \o <<1>>)[Len(s) + 1] = 1
  BY <1>1
<1>3. /\ s \o <<2, 3>> \in Seq(1 .. 3) /\ Len(s \o <<2, 3>>) = Len(s) + 2
      /\ (s \o <<2, 3>>)[Len(s) + 2] = 3
  BY <1>1
<1> DEFINE Closed(x) == x \in Seq(1 .. 3) /\ x[Len(x)] # 2
<1>4. \A x : Closed(x) => x \in WholeBytes
  BY DEF WholeBytes
<1>5. Closed(s \o <<1>>)
  BY <1>2
<1>6. Closed(s \o <<2, 3>>)
  BY <1>3
<1> HIDE DEF Closed
<1>7. <<>> \in WholeBytes
  BY DEF WholeBytes
<1> QED BY <1>4, <1>5, <1>6, <1>7, CharacterBytes

LEMMA NextBytes ==
  ASSUME NEW name \in Seq(Characters), NEW j \in Nat, j < Len(name)
  PROVE  /\ Begun(name, j + 1) = Begun(name, j) \o Utf8(name[j + 1])
         /\ name[j + 1] \in Characters
BY NextCharacter, EncodedSteps DEF Begun

LEMMA Beginnings ==
  ASSUME NEW name \in Seq(Characters), NEW j \in 0 .. Len(name)
  PROVE  Begun(name, 0) = <<>> /\ Begun(name, j) \in WholeBytes
<1> DEFINE S == {i \in Nat : i <= Len(name) => Begun(name, i) \in WholeBytes}
<1>1. Begun(name, 0) = <<>>
  <2>1. Left(name, 0) = <<>>
    BY Smaller DEF Left
  <2> QED BY <2>1, EncodedSteps DEF Begun, Characters
<1>2. 0 \in S
  <2>1. <<>> \in WholeBytes
    BY DEF WholeBytes
  <2> QED BY <1>1, <2>1
<1>3. ASSUME NEW i \in Nat, i \in S PROVE i + 1 \in S
  <2> SUFFICES ASSUME i + 1 <= Len(name) PROVE Begun(name, i + 1) \in WholeBytes
    OBVIOUS
  <2>1. i < Len(name) /\ Begun(name, i) \in WholeBytes
    BY <1>3
  <2> QED BY <2>1, NextBytes, MoreWholeBytes
<1> HIDE DEF S
<1>4. j \in S
  BY <1>2, <1>3, Induction
<1> QED BY <1>1, <1>4 DEF S

\* A beginning is a beginning of the whole.
LEMMA BeginningOfAll ==
  ASSUME NEW name \in Seq(Characters), NEW j \in 0 .. Len(name),
         NEW l \in j .. Len(name)
  PROVE  /\ Len(Begun(name, j)) <= Len(Begun(name, l))
         /\ \A i \in 1 .. Len(Begun(name, j)) : Begun(name, l)[i] = Begun(name, j)[i]
<1> DEFINE b(i) == Begun(name, i)
           Prefixed(m) == /\ Len(b(j)) <= Len(b(j + m))
                          /\ \A i \in 1 .. Len(b(j)) : b(j + m)[i] = b(j)[i]
           S == {m \in Nat : j + m <= Len(name) => Prefixed(m)}
<1>1. Len(name) \in Nat /\ \A i \in 0 .. Len(name) : b(i) \in Seq(1 .. 3)
  BY Beginnings DEF WholeBytes
<1>2. 0 \in S
  BY <1>1
<1>3. ASSUME NEW m \in Nat, m \in S PROVE m + 1 \in S
  <2> SUFFICES ASSUME j + (m + 1) <= Len(name) PROVE Prefixed(m + 1)
    OBVIOUS
  <2> DEFINE k == j + m
             s == b(k)
             t == Utf8(name[k + 1])
  <2>1. k \in Nat /\ k < Len(name) /\ j + (m + 1) = k + 1 /\ Prefixed(m)
    BY <1>1, <1>3
  <2>2. b(k + 1) = s \o t /\ name[k + 1] \in Characters
    BY <2>1, NextBytes
  <2>3. t \in Seq(1 .. 3)
    BY <2>2, CharacterBytes
  <2>4. s \in Seq(1 .. 3) /\ b(j) \in Seq(1 .. 3)
    BY <1>1, <2>1
  <2> HIDE DEF s, t
  <2>5. Len(s) <= Len(s \o t) /\ \A i \in 1 .. Len(s) : (s \o t)[i] = s[i]
    BY <2>3, <2>4
  <2>6. Len(b(j)) <= Len(s) /\ \A i \in 1 .. Len(b(j)) : s[i] = b(j)[i]
    BY <2>1 DEF s
  <2> HIDE DEF b, k
  <2>7. Len(b(j)) <= Len(s \o t) /\ \A i \in 1 .. Len(b(j)) : (s \o t)[i] = b(j)[i]
    BY <2>3, <2>4, <2>5, <2>6
  <2> QED BY <2>1, <2>2, <2>7
<1> HIDE DEF S
<1>4. l - j \in Nat /\ j + (l - j) = l
  OBVIOUS
<1>5. l - j \in S
  BY <1>2, <1>3, <1>4, Induction
<1>6. Prefixed(l - j)
  BY <1>4, <1>5 DEF S
<1> QED BY <1>4, <1>6

-----------------------------------------------------------------------------
Marks == {"a", "e", "?", ""}
MarksOf(s) == [i \in DOMAIN s |-> CharacterAt(s, i)]

LEMMA OneMore ==
  ASSUME NEW T, NEW s \in Seq(T), NEW x \in T
  PROVE  /\ Append(s, x) \in Seq(T) /\ Len(Append(s, x)) = Len(s) + 1
         /\ Append(s, x)[Len(s) + 1] = x /\ \A i \in 1 .. Len(s) : Append(s, x)[i] = s[i]
OBVIOUS

LEMMA MarkType ==
  ASSUME NEW s \in Seq(1 .. 3)
  PROVE  MarksOf(s) \in Seq(Marks) /\ Len(MarksOf(s)) = Len(s)
<1>1. \A i \in 1 .. Len(s) : CharacterAt(s, i) \in Marks
  BY DEF CharacterAt, Marks
<1>2. MarksOf(s) = [i \in 1 .. Len(s) |-> CharacterAt(s, i)]
  BY DEF MarksOf
<1> QED BY <1>1, <1>2

\* What is read of whole characters does not depend on what comes behind.
LEMMA MarksStay ==
  ASSUME NEW s \in WholeBytes, NEW t \in Seq(1 .. 3), NEW i \in 1 .. Len(s)
  PROVE  CharacterAt(s \o t, i) = CharacterAt(s, i)
<1>1. s \in Seq(1 .. 3) /\ (i = Len(s) => s[i] # 2)
  BY DEF WholeBytes
<1>2. /\ Len(s \o t) = Len(s) + Len(t) /\ (s \o t)[i] = s[i]
      /\ i < Len(s) => (s \o t)[i + 1] = s[i + 1]
  BY <1>1
<1> DEFINE u == s \o t
<1>3. Len(u) >= Len(s) /\ u[i] = s[i] /\ (i < Len(s) => u[i + 1] = s[i + 1])
  BY <1>1, <1>2
<1> HIDE DEF u
<1>4. Len(u) \in Nat \/ Len(u) \notin Nat
  OBVIOUS
<1>5. i \in Nat /\ Len(s) \in Nat /\ i <= Len(s)
  BY <1>1
<1>6. CASE s[i] = 2
  <2>1. i < Len(s)
    BY <1>1, <1>5, <1>6
  <2>2. Len(u) = Len(s) + Len(t) /\ Len(t) \in Nat
    BY <1>2 DEF u
  <2>3. i < Len(u) /\ i # Len(u) /\ i # Len(s)
    BY <1>5, <2>1, <2>2
  <2> QED BY <1>3, <1>6, <2>1, <2>3 DEF CharacterAt, u
<1>7. CASE s[i] # 2
  BY <1>3, <1>7 DEF CharacterAt, u
<1> QED BY <1>6, <1>7

LEMMA MarksAdded ==
  ASSUME NEW s \in WholeBytes
  PROVE  /\ MarksOf(s \o <<1>>)    = Append(MarksOf(s), "a")
         /\ MarksOf(s \o <<2>>)    = Append(MarksOf(s), "?")
         /\ MarksOf(s \o <<2, 3>>) = Append(Append(MarksOf(s), "e"), "")
<1>1. s \in Seq(1 .. 3)
  BY DEF WholeBytes
<1> DEFINE n == Len(s)
           m == MarksOf(s)
<1>2. m \in Seq(Marks) /\ Len(m) = n /\ n \in Nat /\ \A i \in 1 .. n : m[i] = CharacterAt(s, i)
  BY <1>1, MarkType DEF MarksOf
<1>3. ASSUME NEW c \in {1, 2}
      PROVE  MarksOf(s \o <<c>>) = Append(m, IF c = 1 THEN "a" ELSE "?")
  <2> DEFINE u == s \o <<c>>
             x == IF c = 1 THEN "a" ELSE "?"
             v == Append(m, x)
  <2>1. /\ u \in Seq(1 .. 3) /\ Len(u) = n + 1 /\ u[n + 1] = c
    BY <1>1
  <2>2. \A i \in 1 .. n : CharacterAt(u, i) = m[i]
    <3>1. <<c>> \in Seq(1 .. 3)
      OBVIOUS
    <3> QED BY <1>2, <3>1, MarksStay
  <2> HIDE DEF u
  <2>3. CharacterAt(u, n + 1) = x
    <3>1. n + 1 = Len(u) /\ ~(n + 1 < Len(u))
      BY <1>2, <2>1
    <3> HIDE DEF n
    <3>2. CASE c = 1
      BY <2>1, <3>2 DEF CharacterAt
    <3>3. CASE c = 2
      <4>1. u[n + 1] = 2 /\ x = "?"
        BY <2>1, <3>3
      <4> QED BY <3>1, <4>1 DEF CharacterAt
    <3> QED BY <3>2, <3>3
  <2>4. MarksOf(u) \in Seq(Marks) /\ Len(MarksOf(u)) = n + 1
    BY <2>1, MarkType
  <2>5. \A i \in 1 .. n + 1 : MarksOf(u)[i] = CharacterAt(u, i)
    BY <2>1 DEF MarksOf
  <2>6. x \in Marks
    BY DEF Marks
  <2> HIDE DEF n, m, x
  <2>7. v \in Seq(Marks) /\ Len(v) = n + 1 /\ v[n + 1] = x /\ \A i \in 1 .. n : v[i] = m[i]
    BY <1>2, <2>6, OneMore
  <2> HIDE DEF v, x
  <2>8. \A i \in 1 .. n + 1 : MarksOf(u)[i] = v[i]
    BY <1>2, <2>2, <2>3, <2>5, <2>7
  <2>9. MarksOf(u) = v
    BY <2>4, <2>7, <2>8, SeqEqual
  <2> QED BY <2>9 DEF u, v, x
<1>4. MarksOf(s \o <<2, 3>>) = Append(Append(m, "e"), "")
  <2> DEFINE u == s \o <<2, 3>>
             e == "e"
             none == ""
             v == Append(Append(m, e), none)
  <2>1. u \in Seq(1 .. 3) /\ Len(u) = n + 2 /\ u[n + 1] = 2 /\ u[n + 2] = 3
    BY <1>1
  <2>2. \A i \in 1 .. n : CharacterAt(u, i) = m[i]
    <3>1. <<2, 3>> \in Seq(1 .. 3)
      OBVIOUS
    <3> QED BY <1>2, <3>1, MarksStay
  <2> HIDE DEF u
  <2>3. CharacterAt(u, n + 1) = "e"
    <3>1. n + 1 < Len(u) /\ (n + 1) + 1 = n + 2 /\ n + 1 # Len(u)
      BY <1>2, <2>1
    <3> HIDE DEF n
    <3> QED BY <2>1, <3>1 DEF CharacterAt
  <2>4. CharacterAt(u, n + 2) = ""
    BY <2>1 DEF CharacterAt
  <2>5. MarksOf(u) \in Seq(Marks) /\ Len(MarksOf(u)) = n + 2
    BY <2>1, MarkType
  <2>6. \A i \in 1 .. n + 2 : MarksOf(u)[i] = CharacterAt(u, i)
    BY <2>1 DEF MarksOf
  <2> HIDE DEF n, m
  <2>7. CharacterAt(u, n + 1) = e /\ CharacterAt(u, n + 2) = none
    BY <2>3, <2>4
  <2>8. e \in Marks /\ none \in Marks
    BY DEF Marks
  <2> HIDE DEF e, none
  <2>9. /\ v \in Seq(Marks) /\ Len(v) = n + 2 /\ v[n + 1] = e /\ v[n + 2] = none
        /\ \A i \in 1 .. n : v[i] = m[i]
    <3> DEFINE w == Append(m, e)
    <3>1. w \in Seq(Marks) /\ Len(w) = n + 1 /\ w[n + 1] = e /\ \A i \in 1 .. n : w[i] = m[i]
      BY <1>2, <2>8, OneMore
    <3> HIDE DEF w
    <3>2. /\ Append(w, none) \in Seq(Marks) /\ Len(Append(w, none)) = (n + 1) + 1
          /\ Append(w, none)[(n + 1) + 1] = none
          /\ \A i \in 1 .. n + 1 : Append(w, none)[i] = w[i]
      BY <2>8, <3>1, OneMore
    <3> QED BY <1>2, <3>1, <3>2 DEF w
  <2> HIDE DEF v
  <2>10. ASSUME NEW i \in 1 .. n + 2 PROVE MarksOf(u)[i] = v[i]
    <3>1. i \in 1 .. n \/ i = n + 1 \/ i = n + 2
      BY <1>2
    <3> QED BY <1>2, <2>2, <2>7, <2>6, <2>9, <3>1
  <2>11. MarksOf(u) = v
    BY <2>5, <2>9, <2>10, SeqEqual
  <2> QED BY <2>11 DEF u, v, e, none
<1> HIDE DEF m
<1>5. MarksOf(s \o <<1>>) = Append(m, "a")
  BY <1>3
<1>6. MarksOf(s \o <<2>>) = Append(m, "?")
  BY <1>3
<1> QED BY <1>4, <1>5, <1>6 DEF m

\* One character more is read; of half a character, a question mark.
LEMMA CharactersRead ==
  ASSUME NEW s \in WholeBytes
  PROVE  /\ FromUtf8(<<>>) = <<>>
         /\ FromUtf8(s \o <<1>>)    = Append(FromUtf8(s), "a")
         /\ FromUtf8(s \o <<2>>)    = Append(FromUtf8(s), "?")
         /\ FromUtf8(s \o <<2, 3>>) = Append(FromUtf8(s), "e")
<1>1. \A t : FromUtf8(t) = NameLoop!Fold(<<>>, MarksOf(t))
  BY DEF FromUtf8, MarksOf, NameLoop!Fold, NameLoop!FoldLeft, FoldLeft,
         NameLoop!MapThenFoldSet, MapThenFoldSet, NameLoop!Max, Max
<1> DEFINE m == MarksOf(s)
           f(t) == NameLoop!Fold(<<>>, t)
<1>2. m \in Seq(Marks)
  BY MarkType DEF WholeBytes
<1> HIDE DEF m
<1>3. ASSUME NEW t \in Seq(Marks), NEW x \in Marks
      PROVE  f(Append(t, x)) = IF x = "" THEN f(t) ELSE Append(f(t), x)
  BY NameLoop!FoldLast DEF WithCharacter
<1>4. f(<<>>) = <<>>
  BY NameLoop!FoldEmpty
<1>5. FromUtf8(<<>>) = <<>>
  <2>1. MarksOf(<<>>) = <<>>
    BY DEF MarksOf
  <2> QED BY <1>1, <1>4, <2>1
<1>6. /\ Append(m, "e") \in Seq(Marks)
      /\ "a" \in Marks /\ "e" \in Marks /\ "?" \in Marks /\ "" \in Marks
  <2>1. "a" \in Marks /\ "e" \in Marks /\ "?" \in Marks /\ "" \in Marks
    BY DEF Marks
  <2> DEFINE e == "e"
  <2> HIDE DEF e
  <2>2. e \in Marks
    BY <2>1 DEF e
  <2>3. Append(m, e) \in Seq(Marks)
    BY <1>2, <2>2
  <2> QED BY <2>1, <2>3 DEF e
<1> HIDE DEF f
<1>7. /\ f(Append(m, "a")) = Append(f(m), "a") /\ f(Append(m, "?")) = Append(f(m), "?")
      /\ f(Append(m, "e")) = Append(f(m), "e")
  BY <1>2, <1>3, <1>6
<1>8. f(Append(Append(m, "e"), "")) = f(Append(m, "e"))
  BY <1>3, <1>6
<1>9. \A t : FromUtf8(t) = f(MarksOf(t))
  BY <1>1 DEF f
<1> QED BY <1>5, <1>7, <1>8, <1>9, MarksAdded DEF m

LEMMA BeginningRead ==
  ASSUME NEW name \in Seq(Characters), NEW j \in 0 .. Len(name)
  PROVE  FromUtf8(Begun(name, j)) = Left(name, j)
<1> DEFINE S == {i \in Nat : i <= Len(name) => FromUtf8(Begun(name, i)) = Left(name, i)}
<1>1. 0 \in S
  <2>1. Begun(name, 0) = <<>> /\ Begun(name, 0) \in WholeBytes
    BY Beginnings
  <2>2. FromUtf8(<<>>) = <<>>
    BY <2>1, CharactersRead
  <2>3. Left(name, 0) = <<>>
    BY Smaller DEF Left
  <2> QED BY <2>1, <2>2, <2>3
<1>2. ASSUME NEW i \in Nat, i \in S PROVE i + 1 \in S
  <2> SUFFICES ASSUME i + 1 <= Len(name)
               PROVE  FromUtf8(Begun(name, i + 1)) = Left(name, i + 1)
    OBVIOUS
  <2> DEFINE s == Begun(name, i)
             c == name[i + 1]
  <2>1. i < Len(name) /\ FromUtf8(s) = Left(name, i) /\ i \in 0 .. Len(name)
    BY <1>2
  <2>2. s \in WholeBytes
    BY <2>1, Beginnings
  <2>3. Begun(name, i + 1) = s \o Utf8(c) /\ c \in Characters
    BY <2>1, NextBytes
  <2>4. Left(name, i + 1) = Append(Left(name, i), c)
    BY <2>1, NextCharacter
  <2> HIDE DEF s, c
  <2>5. FromUtf8(s \o Utf8(c)) = Append(FromUtf8(s), c)
    BY <2>2, <2>3, CharacterBytes, CharactersRead
  <2> QED BY <2>1, <2>3, <2>4, <2>5
<1> HIDE DEF S
<1>3. j \in S
  BY <1>1, <1>2, Induction
<1> QED BY <1>3 DEF S

\* A name that is cut to the width of its field is read as the characters
\* that fit, and a mark for the one that is cut in two.
LEMMA NameCut ==
  ASSUME NEW name \in Seq(Characters)
  PROVE  /\ FromUtf8(Left(ToUtf8(name), MaxName)) = NameReceived(name)
         /\ ToUtf8(name) \in Seq(1 .. 3)
<1> DEFINE N == Len(name)
           b(j) == Begun(name, j)
           Fits == {j \in 0 .. N : Len(ToUtf8(Left(name, j))) <= MaxName}
           k == Max(Fits)
<1>1. N \in Nat /\ ToUtf8(name) = b(N) /\ MaxName \in Nat
  <2>1. Left(name, N) = name
    BY LeftPart
  <2>2. ValuesOf(2) \in Nat \ {0}
    BY ValuesType
  <2> QED BY <2>1, <2>2 DEF Begun, MaxName
<1>2. \A j \in 0 .. N : b(j) \in WholeBytes /\ b(j) \in Seq(1 .. 3) /\ Len(b(j)) \in Nat
  BY Beginnings DEF WholeBytes
<1>3. k \in Fits /\ \A j \in Fits : j <= k
  <2>1. Len(ToUtf8(Left(name, 0))) = 0
    <3>1. b(0) = <<>>
      BY <1>1, Beginnings
    <3> QED BY <3>1 DEF Begun
  <2>2. 0 \in Fits /\ Fits \in SUBSET (0 .. N)
    BY <1>1, <2>1
  <2> HIDE DEF Fits
  <2> QED BY <1>1, <2>2, GreatestNumber
<1>4. k \in 0 .. N /\ Len(b(k)) <= MaxName /\ \A j \in 0 .. N : Len(b(j)) <= MaxName => j <= k
  BY <1>3 DEF Begun
<1>5. NameReceived(name) = IF k < N /\ Len(b(k)) < MaxName
                           THEN Append(Left(name, k), "?") ELSE Left(name, k)
  BY DEF NameReceived, Begun
<1> HIDE DEF k, Fits
<1>6. FromUtf8(b(k)) = Left(name, k)
  BY <1>4, BeginningRead
<1>7. CASE k = N
  <2>1. Left(b(N), MaxName) = b(N)
    <3>1. b(N) \in Seq(1 .. 3) /\ Len(b(N)) <= MaxName
      BY <1>1, <1>2, <1>4, <1>7
    <3> HIDE DEF b
    <3> QED BY <1>1, <3>1, LeftPart
  <2> QED BY <1>1, <1>2, <1>5, <1>6, <1>7, <2>1
<1>8. CASE k < N
  <2> DEFINE c == name[k + 1]
             s == b(k)
             t == b(k + 1)
             all == b(N)
  <2>1. k \in Nat /\ k + 1 \in 0 .. N /\ N \in (k + 1) .. N /\ ~(k + 1 <= k)
    BY <1>1, <1>4, <1>8
  <2>2. t = s \o Utf8(c) /\ c \in Characters
    BY <1>8, <2>1, NextBytes
  <2>3. s \in WholeBytes /\ s \in Seq(1 .. 3) /\ t \in Seq(1 .. 3) /\ all \in Seq(1 .. 3)
    BY <1>1, <1>2, <1>4, <2>1
  <2>4. Len(t) > MaxName
    <3>1. Len(t) \in Nat
      BY <2>3
    <3> QED BY <1>1, <1>4, <2>1, <3>1
  <2>5. Len(t) <= Len(all) /\ \A i \in 1 .. Len(t) : all[i] = t[i]
    BY <2>1, BeginningOfAll
  <2>6. ToUtf8(name) = all /\ FromUtf8(s) = Left(name, k) /\ Len(s) <= MaxName
    BY <1>1, <1>4, <1>6
  <2>7. NameReceived(name) = IF Len(s) < MaxName
                             THEN Append(Left(name, k), "?") ELSE Left(name, k)
    BY <1>5, <1>8
  <2> HIDE DEF s, t, all, c, N
  <2> DEFINE cut == Left(all, MaxName)
  <2>8. /\ cut \in Seq(1 .. 3) /\ Len(cut) = MaxName
        /\ \A i \in 1 .. MaxName : cut[i] = all[i]
    <3>1. MaxName <= Len(all)
      BY <1>1, <2>3, <2>4, <2>5
    <3> QED BY <1>1, <2>3, <3>1, LeftPart
  <2> HIDE DEF cut
  <2>9. \A i \in 1 .. MaxName : cut[i] = t[i]
    <3>1. Len(t) \in Nat
      BY <2>3
    <3>2. \A i \in 1 .. MaxName : i \in 1 .. Len(t)
      BY <1>1, <2>4, <3>1
    <3> HIDE DEF b
    <3> QED BY <2>5, <2>8, <3>2
  <2>10. CASE Len(s) = MaxName
    <3>1. \A i \in 1 .. MaxName : cut[i] = s[i]
      <4>1. Utf8(c) \in Seq(1 .. 3)
        BY <2>2, CharacterBytes
      <4>2. \A i \in 1 .. Len(s) : (s \o Utf8(c))[i] = s[i]
        BY <2>3, <4>1
      <4> QED BY <2>2, <2>9, <2>10, <4>2
    <3>2. cut = s
      BY <2>3, <2>8, <2>10, <3>1, SeqEqual
    <3> QED BY <2>3, <2>6, <2>7, <2>10, <3>2 DEF cut
  <2>11. CASE Len(s) < MaxName
    <3>1. Utf8(c) = <<2, 3>> /\ Len(s) = MaxName - 1
      <4>1. Utf8(c) = <<1>> => Len(t) = Len(s) + 1
        BY <2>2, <2>3
      <4>2. Utf8(c) = <<2, 3>> => Len(t) = Len(s) + 2
        BY <2>2, <2>3
      <4>3. Len(s) \in Nat
        BY <2>3
      <4> QED BY <1>1, <2>2, <2>4, <2>11, <4>1, <4>2, <4>3, CharacterBytes
    <3> DEFINE u == s \o <<2>>
    <3>2. /\ u \in Seq(1 .. 3) /\ Len(u) = Len(s) + 1 /\ u[Len(s) + 1] = 2
          /\ \A i \in 1 .. Len(s) : u[i] = s[i]
      BY <2>3
    <3>3. /\ t[Len(s) + 1] = 2 /\ \A i \in 1 .. Len(s) : t[i] = s[i]
      <4> DEFINE w == s \o <<2, 3>>
      <4>1. w[Len(s) + 1] = 2 /\ \A i \in 1 .. Len(s) : w[i] = s[i]
        BY <2>3
      <4> QED BY <2>2, <3>1, <4>1
    <3> HIDE DEF u
    <3>4. \A i \in 1 .. MaxName : cut[i] = u[i]
      <4>1. ASSUME NEW i \in 1 .. MaxName PROVE i \in 1 .. Len(s) \/ i = Len(s) + 1
        BY <1>1, <3>1
      <4> QED BY <2>9, <3>2, <3>3, <4>1
    <3>5. Len(u) = MaxName
      BY <1>1, <3>1, <3>2
    <3>6. cut = u
      BY <2>8, <3>2, <3>4, <3>5, SeqEqual
    <3> QED BY <2>3, <2>6, <2>7, <2>11, <3>6, CharactersRead DEF cut, u
  <2>12. Len(s) \in Nat
    BY <2>3
  <2> QED BY <1>1, <2>3, <2>6, <2>10, <2>11, <2>12
<1>9. k = N \/ k < N
  BY <1>1, <1>4
<1> QED BY <1>1, <1>2, <1>7, <1>8, <1>9

-----------------------------------------------------------------------------
(***************************************************************************)
(* What is encoded is decoded again.                                       *)
(***************************************************************************)

\* Four parts of a payload, each found where it was put.
Parts(a, b, c, d) == a \o b \o c \o d

LEMMA FourParts ==
  ASSUME NEW a \in Seq(Bytes), NEW b \in Seq(Bytes), NEW c \in Seq(Bytes),
         NEW d \in Seq(Bytes)
  PROVE  /\ Len(Parts(a, b, c, d)) = Len(a) + Len(b) + Len(c) + Len(d)
         /\ Left(Parts(a, b, c, d), Len(a)) = a /\ Mid(Parts(a, b, c, d), Len(a), Len(b)) = b
         /\ Mid(Parts(a, b, c, d), Len(a) + Len(b), Len(c)) = c
         /\ Mid(Parts(a, b, c, d), Len(a) + Len(b) + Len(c), Len(d)) = d
<1> DEFINE u == Parts(a, b, c, d)
           ab == a \o b
           abc == ab \o c
           cd == c \o d
           bcd == b \o cd
           none == SubSeq(d, 1, 0)
<1>1. /\ ab \in Seq(Bytes) /\ Len(ab) = Len(a) + Len(b)
      /\ cd \in Seq(Bytes) /\ Len(cd) = Len(c) + Len(d)
      /\ none \in Seq(Bytes) /\ d \o none = d
  OBVIOUS
<1>2. abc \in Seq(Bytes) /\ Len(abc) = Len(a) + Len(b) + Len(c)
  BY <1>1
<1>3. bcd \in Seq(Bytes)
  BY <1>1
<1>4. u = abc \o d
  BY DEF Parts
<1>5. u \in Seq(Bytes) /\ Len(u) = Len(a) + Len(b) + Len(c) + Len(d)
  <2> HIDE DEF u, abc
  <2>1. abc \in Seq(Bytes)
    BY <1>2
  <2>2. abc \o d \in Seq(Bytes)
    BY <2>1
  <2>3. Len(abc \o d) = Len(abc) + Len(d)
    BY <2>1
  <2> QED BY <1>2, <1>4, <2>2, <2>3
<1>6. u = ab \o cd
  <2>1. abc \o d = ab \o (c \o d)
    <3>1. ab \in Seq(Bytes)
      BY <1>1
    <3> HIDE DEF ab
    <3> QED BY <3>1, SMTT(30)
  <2> QED BY <1>4, <2>1
<1>7. u = a \o bcd
  <2>1. ab \o cd = a \o (b \o cd)
    <3>1. cd \in Seq(Bytes)
      BY <1>1
    <3> HIDE DEF cd
    <3> QED BY <3>1, SMTT(30)
  <2> QED BY <1>6, <2>1
<1> HIDE DEF u, ab, abc, cd
<1>8. Left(u, Len(a)) = a
  BY <1>3, <1>7, Parted
<1>9. Mid(u, Len(a), Len(b)) = b
  BY <1>1, <1>7, MiddlePart
<1>10. Mid(u, Len(a) + Len(b), Len(c)) = c
  <2>1. u = ab \o (c \o d)
    BY <1>6 DEF cd
  <2>2. Mid(u, Len(ab), Len(c)) = c
    BY <1>1, <2>1, MiddlePart
  <2> QED BY <1>1, <2>2
<1>11. Mid(u, Len(a) + Len(b) + Len(c), Len(d)) = d
  <2>1. u = abc \o (d \o none)
    BY <1>1, <1>4
  <2> HIDE DEF none
  <2>2. Mid(u, Len(abc), Len(d)) = d
    BY <1>1, <1>2, <2>1, MiddlePart
  <2> QED BY <1>2, <2>2
<1> QED BY <1>5, <1>8, <1>9, <1>10, <1>11 DEF u

LEMMA FieldOfId == ASSUME NEW id \in FileIds PROVE id \in Seq(Bytes) /\ Len(id) = FILE_ID_LEN
BY FileIdAssumption DEF FileIds

\* A file's header is read as it was written, but for a name that is cut.
THEOREM HeaderReadBack ==
  ASSUME NEW id \in FileIds, NEW name \in Seq(Characters), NEW size \in Sizes
  PROVE  /\ EncodeFileHeader(id, name, size) \in Seq(Bytes)
         /\ DecodeFileHeader(EncodeFileHeader(id, name, size))
              = [type |-> FILE_HEADER, id |-> id, name |-> NameReceived(name), size |-> size]
<1> DEFINE fn == Left(ToUtf8(name), MaxName)
           b  == BigEndian(Len(fn), 2)
           d  == BigEndian(size, 8)
           u  == Parts(id, b, fn, d)
<1>1. id \in Seq(Bytes) /\ Len(id) = FILE_ID_LEN /\ FILE_ID_LEN \in Nat
  BY FieldOfId, FileIdAssumption
<1>2. MaxName \in Nat /\ MaxName < ValuesOf(2)
  <2>1. ValuesOf(2) \in Nat \ {0}
    BY ValuesType
  <2> QED BY <2>1 DEF MaxName
<1>3. fn \in Seq(Bytes) /\ Len(fn) <= MaxName /\ Len(fn) \in Nat
  <2>1. fn \in Seq(1 .. 3) /\ Len(fn) <= MaxName
    BY <1>2, NameCut, LeftPart
  <2>2. 1 .. 3 \subseteq Bytes
    BY ByteAssumption DEF Bytes
  <2> HIDE DEF fn
  <2> QED BY <2>1, <2>2
<1>4. FromUtf8(fn) = NameReceived(name)
  BY NameCut
<1> HIDE DEF fn
<1>5. b \in Seq(Bytes) /\ Len(b) = 2 /\ FromBigEndian(b) = Len(fn)
  <2>1. ValuesOf(2) \in Nat
    BY ValuesType
  <2>2. Len(fn) < ValuesOf(2)
    BY <1>2, <1>3, <2>1
  <2> QED BY <1>3, <2>2, ReadBack
<1>6. d \in Seq(Bytes) /\ Len(d) = 8 /\ FromBigEndian(d) = size
  <2>1. ValuesOf(8) \in Nat \ {0}
    BY ValuesType
  <2>2. size \in Nat /\ size < ValuesOf(8)
    BY <2>1 DEF Sizes
  <2> QED BY <2>2, ReadBack
<1> HIDE DEF b, d
<1> DEFINE p == FILE_ID_LEN + 2
<1>7. /\ u \in Seq(Bytes) /\ Len(u) = p + Len(fn) + 8
      /\ Left(u, FILE_ID_LEN) = id /\ Mid(u, FILE_ID_LEN, 2) = b
      /\ Mid(u, p, Len(fn)) = fn /\ Mid(u, p + Len(fn), 8) = d
  <2>1. /\ Len(u) = Len(id) + Len(b) + Len(fn) + Len(d)
        /\ Left(u, Len(id)) = id /\ Mid(u, Len(id), Len(b)) = b
        /\ Mid(u, Len(id) + Len(b), Len(fn)) = fn
        /\ Mid(u, Len(id) + Len(b) + Len(fn), Len(d)) = d
    <3>1. id \in Seq(Bytes) /\ b \in Seq(Bytes) /\ fn \in Seq(Bytes) /\ d \in Seq(Bytes)
      BY <1>1, <1>3, <1>5, <1>6
    <3>2. Len(u) = Len(id) + Len(b) + Len(fn) + Len(d)
      BY <3>1, FourParts
    <3>3. Left(u, Len(id)) = id
      BY <3>1, FourParts
    <3>4. Mid(u, Len(id), Len(b)) = b
      BY <3>1, FourParts
    <3>5. Mid(u, Len(id) + Len(b), Len(fn)) = fn
      BY <3>1, FourParts
    <3>6. Mid(u, Len(id) + Len(b) + Len(fn), Len(d)) = d
      BY <3>1, FourParts
    <3> QED BY <3>2, <3>3, <3>4, <3>5, <3>6
  <2>2. u \in Seq(Bytes)
    BY <1>1, <1>3, <1>5, <1>6 DEF Parts
  <2> HIDE DEF u
  <2> QED BY <1>1, <1>3, <1>5, <1>6, <2>1, <2>2
<1>8. EncodeFileHeader(id, name, size) = u
  BY DEF EncodeFileHeader, Parts, fn, b, d
<1> HIDE DEF u
<1>9. NumberAt(u, FILE_ID_LEN, 2) = Len(fn) /\ NumberAt(u, p + Len(fn), 8) = size
  BY <1>5, <1>6, <1>7 DEF NumberAt
<1>10. ~(Len(u) < p + 8 \/ Len(u) < p + Len(fn) + 8)
  BY <1>1, <1>3, <1>7
<1>11. DecodeFileHeader(u)
         = [type |-> FILE_HEADER, id |-> id, name |-> NameReceived(name), size |-> size]
  BY <1>4, <1>7, <1>9, <1>10 DEF DecodeFileHeader
<1> QED BY <1>7, <1>8, <1>11

LEMMA ChunkShape ==
  ASSUME NEW id \in FileIds, NEW offset \in Sizes, NEW chunk \in Seq(Bytes)
  PROVE  /\ EncodeFileChunk(id, offset, chunk) \in Seq(Bytes)
         /\ Len(EncodeFileChunk(id, offset, chunk)) = FILE_ID_LEN + 12 + Len(chunk)
<1> DEFINE b == BigEndian(offset, 8)
           c == BigEndian(Len(chunk), 4)
<1>1. id \in Seq(Bytes) /\ Len(id) = FILE_ID_LEN /\ FILE_ID_LEN \in Nat
  BY FieldOfId, FileIdAssumption
<1>2. offset \in Nat /\ Len(chunk) \in Nat
  BY DEF Sizes
<1>3. b \in Seq(Bytes) /\ Len(b) = 8 /\ c \in Seq(Bytes) /\ Len(c) = 4
  BY <1>2, Written
<1> HIDE DEF b, c
<1>4. /\ id \o b \o c \o chunk \in Seq(Bytes)
      /\ Len(id \o b \o c \o chunk) = FILE_ID_LEN + 12 + Len(chunk)
  <2> DEFINE ib == id \o b
             ibc == ib \o c
             all == ibc \o chunk
  <2>1. id \in Seq(Bytes) /\ b \in Seq(Bytes) /\ c \in Seq(Bytes)
    BY <1>1, <1>3
  <2>2. ib \in Seq(Bytes) /\ Len(ib) = Len(id) + Len(b)
    BY <2>1
  <2> HIDE DEF ib
  <2>3. ibc \in Seq(Bytes) /\ Len(ibc) = Len(ib) + Len(c)
    <3>1. ib \in Seq(Bytes) /\ c \in Seq(Bytes)
      BY <2>1, <2>2
    <3> QED BY <3>1
  <2> HIDE DEF ibc
  <2>4. all \in Seq(Bytes) /\ Len(all) = Len(ibc) + Len(chunk)
    <3>1. ibc \in Seq(Bytes)
      BY <2>3
    <3> QED BY <3>1
  <2> HIDE DEF all
  <2>5. Len(all) = FILE_ID_LEN + 12 + Len(chunk)
    BY <1>1, <1>2, <1>3, <2>2, <2>3, <2>4
  <2> QED BY <2>4, <2>5 DEF all, ib, ibc
<1> QED BY <1>4 DEF EncodeFileChunk, b, c

\* A part of a file is read as it was written.
THEOREM ChunkReadBack ==
  ASSUME NEW id \in FileIds, NEW offset \in Sizes, NEW chunk \in Seq(Bytes),
         Len(chunk) < ValuesOf(4)
  PROVE  DecodeFileChunk(EncodeFileChunk(id, offset, chunk))
           = [type |-> FILE_CHUNK, id |-> id, offset |-> offset, data |-> chunk]
<1> DEFINE b == BigEndian(offset, 8)
           c == BigEndian(Len(chunk), 4)
           u == Parts(id, b, c, chunk)
           p == FILE_ID_LEN + 12
<1>1. id \in Seq(Bytes) /\ Len(id) = FILE_ID_LEN /\ FILE_ID_LEN \in Nat
  BY FieldOfId, FileIdAssumption
<1>2. b \in Seq(Bytes) /\ Len(b) = 8 /\ FromBigEndian(b) = offset
  <2>1. ValuesOf(8) \in Nat \ {0}
    BY ValuesType
  <2>2. offset \in Nat /\ offset < ValuesOf(8)
    BY <2>1 DEF Sizes
  <2> QED BY <2>2, ReadBack
<1>3. c \in Seq(Bytes) /\ Len(c) = 4 /\ FromBigEndian(c) = Len(chunk) /\ Len(chunk) \in Nat
  <2>1. Len(chunk) \in Nat
    OBVIOUS
  <2> QED BY <2>1, ReadBack
<1> HIDE DEF b, c
<1>4. /\ u \in Seq(Bytes) /\ Len(u) = p + Len(chunk)
      /\ Left(u, FILE_ID_LEN) = id /\ Mid(u, FILE_ID_LEN, 8) = b
      /\ Mid(u, FILE_ID_LEN + 8, 4) = c /\ Mid(u, p, Len(chunk)) = chunk
  <2>1. /\ Len(u) = Len(id) + Len(b) + Len(c) + Len(chunk)
        /\ Left(u, Len(id)) = id /\ Mid(u, Len(id), Len(b)) = b
        /\ Mid(u, Len(id) + Len(b), Len(c)) = c
        /\ Mid(u, Len(id) + Len(b) + Len(c), Len(chunk)) = chunk
    <3>1. id \in Seq(Bytes) /\ b \in Seq(Bytes) /\ c \in Seq(Bytes) /\ chunk \in Seq(Bytes)
      BY <1>1, <1>2, <1>3
    <3>2. Len(u) = Len(id) + Len(b) + Len(c) + Len(chunk)
      BY <3>1, FourParts
    <3>3. Left(u, Len(id)) = id
      BY <3>1, FourParts
    <3>4. Mid(u, Len(id), Len(b)) = b
      BY <3>1, FourParts
    <3>5. Mid(u, Len(id) + Len(b), Len(c)) = c
      BY <3>1, FourParts
    <3>6. Mid(u, Len(id) + Len(b) + Len(c), Len(chunk)) = chunk
      BY <3>1, FourParts
    <3> QED BY <3>2, <3>3, <3>4, <3>5, <3>6
  <2>2. u \in Seq(Bytes)
    BY <1>1, <1>2, <1>3 DEF Parts
  <2>3. Len(id) + Len(b) = FILE_ID_LEN + 8 /\ Len(id) + Len(b) + Len(c) = p
    BY <1>1, <1>2, <1>3
  <2> HIDE DEF u, p
  <2> QED BY <1>1, <1>2, <1>3, <2>1, <2>3, <2>2
<1>5. EncodeFileChunk(id, offset, chunk) = u
  BY DEF EncodeFileChunk, Parts, b, c
<1> HIDE DEF u
<1>6. NumberAt(u, FILE_ID_LEN, 8) = offset /\ NumberAt(u, FILE_ID_LEN + 8, 4) = Len(chunk)
  BY <1>2, <1>3, <1>4 DEF NumberAt
<1>7. ToInt(Len(chunk)) <= Len(chunk)
  <2>1. ValuesOf(4) \in Nat
    BY ValuesType
  <2> QED BY <1>3, <2>1 DEF ToInt
<1>8. ~(Len(u) < p \/ Len(u) < p + ToInt(Len(chunk)))
  <2>1. ToInt(Len(chunk)) \in Int
    <3>1. ValuesOf(4) \in Nat
      BY ValuesType
    <3> QED BY <1>3, <3>1 DEF ToInt
  <2> QED BY <1>1, <1>3, <1>4, <1>7, <2>1
<1>9. DecodeFileChunk(u)
        = [type |-> FILE_CHUNK, id |-> id, offset |-> offset, data |-> chunk]
  BY <1>4, <1>6, <1>8 DEF DecodeFileChunk
<1> QED BY <1>5, <1>9

-----------------------------------------------------------------------------
LEMMA TypesDiffer ==
  /\ TEXT \in Types /\ FILE_HEADER \in Types /\ FILE_CHUNK \in Types
  /\ FILE_TRANSFER_END \in Types /\ Types \subseteq Bytes
  /\ CONTROL \notin {TEXT, FILE_HEADER, FILE_CHUNK, FILE_TRANSFER_END}
BY ByteAssumption DEF Types, TEXT, FILE_HEADER, FILE_CHUNK, FILE_TRANSFER_END, CONTROL, Bytes

\* A payload in its frame.
LEMMA FrameShape ==
  ASSUME NEW item, Payload(item) \in Seq(Bytes), item.type \in Types
  PROVE  /\ Frame(item) \in Seq(Bytes) /\ Len(Frame(item)) >= 2
         /\ Len(Frame(item)) > Len(Payload(item))
         /\ TypeOf(Frame(item)) = item.type /\ RestOf(Frame(item)) = Composed(item)
         /\ Composed(item) \in Seq(Bytes) /\ Behind(Composed(item), 2) = Payload(item)
         /\ SelectInSeq(Composed(item), LAMBDA b : b = 0) = 2
<1> DEFINE c == Composed(item)
           pl == Payload(item)
<1>1. Host \in Bytes /\ 0 \in Bytes /\ Host # 0 /\ Host \notin Types
  BY ByteAssumption, HostAssumption DEF Bytes
<1>2. <<Host, 0>> \in Seq(Bytes) /\ Len(<<Host, 0>>) = 2
  BY <1>1
<1>3. c = <<Host, 0>> \o pl /\ pl \in Seq(Bytes)
  BY DEF Composed
<1> DEFINE two == <<Host, 0>>
<1>4. two[1] = Host /\ two[2] = 0
  OBVIOUS
<1> HIDE DEF c, pl, two
<1>5. /\ c \in Seq(Bytes) /\ Len(c) = 2 + Len(pl) /\ c[1] = Host /\ c[2] = 0
      /\ Behind(c, 2) = pl
  <2>1. c = two \o pl /\ two \in Seq(Bytes) /\ Len(two) = 2
    BY <1>2, <1>3 DEF two
  <2>2. c \in Seq(Bytes)
    <3>1. two \in Seq(Bytes) /\ pl \in Seq(Bytes)
      BY <1>3, <2>1
    <3>2. two \o pl \in Seq(Bytes)
      BY <3>1
    <3> QED BY <2>1, <3>2, Zenon
  <2>3. Len(two \o pl) = Len(two) + Len(pl)
    BY <1>3, <2>1
  <2>4. (two \o pl)[1] = two[1] /\ (two \o pl)[2] = two[2]
    BY <1>3, <2>1
  <2>5. Len(c) = 2 + Len(pl) /\ c[1] = two[1] /\ c[2] = two[2]
    BY <2>1, <2>3, <2>4
  <2>6. Behind(c, 2) = pl
    BY <1>3, <2>1, Parted
  <2> QED BY <1>4, <2>2, <2>5, <2>6
<1>6. SelectInSeq(c, LAMBDA b : b = 0) = 2
  <2> DEFINE I == {i \in 1 .. Len(c) : c[i] = 0}
  <2>1. Len(pl) \in Nat
    BY <1>3
  <2>2. 2 \in I /\ \A i \in I : i >= 2
    BY <1>1, <1>5, <2>1
  <2>3. I \subseteq Nat
    OBVIOUS
  <2> HIDE DEF I
  <2>4. Min(I) = 2
    <3> DEFINE m == Min(I)
    <3>1. m \in I /\ \A i \in I : m <= i
      BY <2>2 DEF Min
    <3> HIDE DEF m
    <3>2. m \in Nat /\ m <= 2 /\ m >= 2
      BY <2>2, <2>3, <3>1
    <3>3. m = 2
      BY <3>2
    <3> QED BY <3>3 DEF m
  <2> QED BY <2>2, <2>4 DEF SelectInSeq, I
<1>7. CASE item.type = TEXT /\ item.legacy
  <2>1. Frame(item) = c
    BY <1>7 DEF Frame, c
  <2>2. Len(c) >= 2 /\ Len(c) > Len(pl) /\ c # <<>> /\ Head(c) = Host
    BY <1>3, <1>5
  <2>3. TypeOf(c) = TEXT /\ RestOf(c) = c
    BY <1>1, <2>2 DEF TypeOf, RestOf
  <2> QED BY <1>5, <1>6, <1>7, <2>1, <2>2, <2>3 DEF c, pl
<1>8. CASE ~(item.type = TEXT /\ item.legacy)
  <2> DEFINE t == item.type
             f == <<t>> \o c
  <2>1. Frame(item) = f
    BY <1>8 DEF Frame, WrapWithType, c
  <2>2. t \in Bytes
    BY TypesDiffer
  <2> HIDE DEF t
  <2>3. /\ f \in Seq(Bytes) /\ Len(f) = 1 + Len(c) /\ f # <<>>
        /\ Head(f) = t /\ Tail(f) = c
    BY <1>5, <2>2
  <2> HIDE DEF f
  <2>4. t \in Types
    BY DEF t
  <2>5. TypeOf(f) = t /\ RestOf(f) = c
    BY <2>3, <2>4 DEF TypeOf, RestOf
  <2>6. Len(f) >= 2 /\ Len(f) > Len(pl)
    BY <1>3, <1>5, <2>3
  <2> QED BY <1>5, <1>6, <2>1, <2>3, <2>5, <2>6 DEF c, pl, t
<1> QED BY <1>7, <1>8

LEMMA PayloadShape ==
  ASSUME NEW item \in Items
  PROVE  Payload(item) \in Seq(Bytes) /\ item.type \in Types
<1>1. item \in Texts \/ item \in Headers \/ item \in Chunks \/ item \in Ends
  BY ItemsAssumption
<1>2. CASE item \in Texts
  BY <1>2, TypesDiffer DEF Texts, Payload, TEXT, FILE_HEADER, FILE_CHUNK, FILE_TRANSFER_END
<1>3. CASE item \in Headers
  <2>1. /\ item.type = FILE_HEADER /\ item.id \in FileIds /\ item.name \in Seq(Characters)
        /\ item.size \in Sizes
    BY <1>3 DEF Headers
  <2>2. Payload(item) = EncodeFileHeader(item.id, item.name, item.size)
    BY <2>1 DEF Payload, TEXT, FILE_HEADER, FILE_CHUNK, FILE_TRANSFER_END
  <2> QED BY <2>1, <2>2, HeaderReadBack, TypesDiffer
<1>4. CASE item \in Chunks
  <2>1. /\ item.type = FILE_CHUNK /\ item.id \in FileIds /\ item.data \in Seq(Bytes)
        /\ item.offset \in Sizes
    BY <1>4 DEF Chunks
  <2>2. Payload(item) = EncodeFileChunk(item.id, item.offset, item.data)
    BY <2>1 DEF Payload, TEXT, FILE_HEADER, FILE_CHUNK, FILE_TRANSFER_END
  <2> QED BY <2>1, <2>2, ChunkShape, TypesDiffer
<1>5. CASE item \in Ends
  <2>1. item.type = FILE_TRANSFER_END /\ item.id \in FileIds
    BY <1>5 DEF Ends
  <2>2. Payload(item) = item.id
    BY <2>1 DEF Payload, EncodeFileEnd, TEXT, FILE_HEADER, FILE_CHUNK, FILE_TRANSFER_END
  <2> QED BY <2>1, <2>2, FieldOfId, TypesDiffer
<1> QED BY <1>1, <1>2, <1>3, <1>4, <1>5

LEMMA PayloadDecoded ==
  ASSUME NEW item \in Items
  PROVE  Decoded(item.type, Payload(item)) = Received(item) /\ Received(item) # Invalid
<1>1. item \in Texts \/ item \in Headers \/ item \in Chunks \/ item \in Ends
  BY ItemsAssumption
<1>2. CASE item \in Texts
  <2>1. item.type = TEXT /\ TEXT # CONTROL
    BY <1>2, TypesDiffer DEF Texts
  <2>2. Payload(item) = item.text
    BY <2>1 DEF Payload, TEXT, FILE_HEADER, FILE_CHUNK, FILE_TRANSFER_END
  <2> DEFINE r == [type |-> TEXT, text |-> item.text]
  <2>3. Received(item) = r
    BY <2>1 DEF Received, TEXT, FILE_HEADER
  <2>4. Decoded(item.type, Payload(item)) = r
    BY <2>1, <2>2 DEF Decoded, TEXT, FILE_HEADER, FILE_CHUNK, FILE_TRANSFER_END
  <2>5. r.type = TEXT /\ Invalid.type = CONTROL
    BY DEF Invalid
  <2> QED BY <2>1, <2>3, <2>4, <2>5
<1>3. CASE item \in Headers
  <2>1. /\ item.type = FILE_HEADER /\ item.id \in FileIds /\ item.name \in Seq(Characters)
        /\ item.size \in Sizes /\ FILE_HEADER # CONTROL
    BY <1>3, TypesDiffer DEF Headers
  <2>2. Payload(item) = EncodeFileHeader(item.id, item.name, item.size)
    BY <2>1 DEF Payload, TEXT, FILE_HEADER, FILE_CHUNK, FILE_TRANSFER_END
  <2> DEFINE r == [type |-> FILE_HEADER, id |-> item.id, name |-> NameReceived(item.name),
                   size |-> item.size]
  <2>3. Received(item) = r
    <3>1. Received(item) = [item EXCEPT !.name = NameReceived(item.name)]
      BY <2>1 DEF Received, TEXT, FILE_HEADER
    <3>2. item = [type |-> FILE_HEADER, id |-> item.id, name |-> item.name,
                  size |-> item.size]
      BY <1>3 DEF Headers
    <3> QED BY <3>1, <3>2
  <2>4. Decoded(item.type, Payload(item)) = r
    <3>1. Decoded(item.type, Payload(item)) = DecodeFileHeader(Payload(item))
      BY <2>1 DEF Decoded, TEXT, FILE_HEADER, FILE_CHUNK, FILE_TRANSFER_END
    <3> QED BY <2>1, <2>2, <3>1, HeaderReadBack
  <2>5. r.type = FILE_HEADER /\ Invalid.type = CONTROL
    BY DEF Invalid
  <2> QED BY <2>1, <2>3, <2>4, <2>5
<1>4. CASE item \in Chunks
  <2>1. /\ item.type = FILE_CHUNK /\ item.id \in FileIds /\ item.data \in Seq(Bytes)
        /\ item.offset \in Sizes /\ FILE_CHUNK # CONTROL
    BY <1>4, TypesDiffer DEF Chunks
  <2>2. Payload(item) = EncodeFileChunk(item.id, item.offset, item.data)
    BY <2>1 DEF Payload, TEXT, FILE_HEADER, FILE_CHUNK, FILE_TRANSFER_END
  <2>3. Len(item.data) < ValuesOf(4)
    <3>1. Len(Frame(item)) < ValuesOf(4)
      BY ItemsAssumption
    <3>2. Len(Frame(item)) > Len(Payload(item)) /\ Len(Frame(item)) \in Nat
      <4>1. Payload(item) \in Seq(Bytes) /\ item.type \in Types
        BY PayloadShape
      <4>2. Frame(item) \in Seq(Bytes) /\ Len(Frame(item)) > Len(Payload(item))
        BY <4>1, FrameShape
      <4> QED BY <4>2
    <3>3. Len(Payload(item)) = FILE_ID_LEN + 12 + Len(item.data) /\ Len(item.data) \in Nat
      BY <2>1, <2>2, ChunkShape
    <3>4. ValuesOf(4) \in Nat
      BY ValuesType
    <3> DEFINE f == Len(Frame(item))
               d == Len(item.data)
               v == ValuesOf(4)
    <3>5. f < v /\ v \in Nat /\ f \in Nat /\ d \in Nat /\ f > FILE_ID_LEN + 12 + d
      BY <3>1, <3>2, <3>3, <3>4
    <3> HIDE DEF f, d, v
    <3>6. d < v
      BY <3>5, FileIdAssumption
    <3> QED BY <3>6 DEF d, v
  <2> DEFINE r == [type |-> FILE_CHUNK, id |-> item.id, offset |-> item.offset,
                   data |-> item.data]
  <2>4. Received(item) = r
    <3>1. Received(item) = item
      BY <2>1 DEF Received, TEXT, FILE_HEADER, FILE_CHUNK
    <3>2. item = r
      BY <1>4 DEF Chunks
    <3> QED BY <3>1, <3>2
  <2>5. Decoded(item.type, Payload(item)) = r
    <3>1. Decoded(item.type, Payload(item)) = DecodeFileChunk(Payload(item))
      BY <2>1 DEF Decoded, TEXT, FILE_HEADER, FILE_CHUNK, FILE_TRANSFER_END
    <3> QED BY <2>1, <2>2, <2>3, <3>1, ChunkReadBack
  <2>6. r.type = FILE_CHUNK /\ Invalid.type = CONTROL
    BY DEF Invalid
  <2> QED BY <2>1, <2>4, <2>5, <2>6
<1>5. CASE item \in Ends
  <2>1. /\ item.type = FILE_TRANSFER_END /\ item.id \in FileIds
        /\ FILE_TRANSFER_END # CONTROL
    BY <1>5, TypesDiffer DEF Ends
  <2>2. Payload(item) = item.id
    BY <2>1 DEF Payload, EncodeFileEnd, TEXT, FILE_HEADER, FILE_CHUNK, FILE_TRANSFER_END
  <2>3. item.id \in Seq(Bytes) /\ Len(item.id) = FILE_ID_LEN
    BY <2>1, FieldOfId
  <2>4. Left(item.id, FILE_ID_LEN) = item.id
    BY <2>3, FileIdAssumption, LeftPart
  <2> DEFINE r == [type |-> FILE_TRANSFER_END, id |-> item.id]
  <2>5. Received(item) = r
    <3>1. Received(item) = item
      BY <2>1 DEF Received, TEXT, FILE_HEADER, FILE_TRANSFER_END
    <3>2. item = r
      BY <1>5 DEF Ends
    <3> QED BY <3>1, <3>2
  <2>6. Decoded(item.type, Payload(item)) = r
    <3>1. Len(item.id) >= FILE_ID_LEN
      BY <2>3, FileIdAssumption
    <3> QED BY <2>1, <2>2, <2>4, <3>1
        DEF Decoded, TEXT, FILE_HEADER, FILE_CHUNK, FILE_TRANSFER_END
  <2>7. r.type = FILE_TRANSFER_END /\ Invalid.type = CONTROL
    BY DEF Invalid
  <2> QED BY <2>1, <2>5, <2>6, <2>7
<1> QED BY <1>1, <1>2, <1>3, <1>4, <1>5

\* Of the frame of an item the server emits that item, and nothing else; and
\* the length of the frame fits in its four bytes.
THEOREM ItemReadBack ==
  ASSUME NEW item \in Items
  PROVE  /\ Emitted(Frame(item)) = <<Received(item)>>
         /\ Frame(item) \in Seq(Bytes) /\ Len(Frame(item)) \in 2 .. ValuesOf(4) - 1
         /\ OnWire(Frame(item)) \in Seq(Bytes)
         /\ Len(OnWire(Frame(item))) = 4 + Len(Frame(item))
         /\ FromBigEndian(BigEndian(Len(Frame(item)), 4)) = Len(Frame(item))
<1> DEFINE f == Frame(item)
           c == Composed(item)
           h == BigEndian(Len(f), 4)
<1>1. Payload(item) \in Seq(Bytes) /\ item.type \in Types
  BY PayloadShape
<1>2. f \in Seq(Bytes) /\ Len(f) >= 2
  BY <1>1, FrameShape
<1>3. Len(f) < ValuesOf(4) /\ ValuesOf(4) \in Nat
  BY ItemsAssumption, ValuesType
<1>4. Emitted(f) = <<Received(item)>>
  <2>1. TypeOf(f) = item.type /\ RestOf(f) = c /\ Behind(c, 2) = Payload(item)
    BY <1>1, FrameShape
  <2>2. SelectInSeq(c, LAMBDA b : b = 0) = 2
    BY <1>1, FrameShape
  <2> HIDE DEF c, f
  <2>3. SelectInSeq(RestOf(f), LAMBDA b : b = 0) = 2
    BY <2>1, <2>2
  <2> DEFINE event == Decoded(TypeOf(f), Behind(RestOf(f), 2))
  <2>4. event = Received(item) /\ event # Invalid
    BY <2>1, PayloadDecoded
  <2>5. Emitted(f) = IF 2 = 0 \/ event = Invalid THEN <<>> ELSE <<event>>
    BY <2>3 DEF Emitted
  <2> HIDE DEF event
  <2>6. Emitted(f) = <<event>>
    BY <2>4, <2>5
  <2> QED BY <2>4, <2>6
<1> HIDE DEF f, c
<1>5. Len(f) \in Nat /\ Len(f) \in 2 .. ValuesOf(4) - 1
  BY <1>2, <1>3
<1>6. h \in Seq(Bytes) /\ Len(h) = 4 /\ FromBigEndian(h) = Len(f)
  BY <1>3, <1>5, ReadBack
<1> HIDE DEF h
<1>7. h \o f \in Seq(Bytes) /\ Len(h \o f) = 4 + Len(f)
  <2>1. h \in Seq(Bytes) /\ f \in Seq(Bytes)
    BY <1>2, <1>6
  <2>2. h \o f \in Seq(Bytes) /\ Len(h \o f) = Len(h) + Len(f)
    BY <2>1
  <2> QED BY <1>6, <2>2
<1>8. OnWire(f) = h \o f
  BY DEF OnWire, h
<1> QED BY <1>2, <1>5, <1>6, <1>4, <1>7, <1>8 DEF f, h

-----------------------------------------------------------------------------
(***************************************************************************)
(* Streams: the bytes in a buffer and those on the wire behind them.       *)
(***************************************************************************)
Stream(b, w) == b \o w

LEMMA StreamType ==
  ASSUME NEW T, NEW b \in Seq(T), NEW w \in Seq(T)
  PROVE  Stream(b, w) \in Seq(T)
BY DEF Stream

LEMMA StreamLength ==
  ASSUME NEW T, NEW b \in Seq(T), NEW w \in Seq(T)
  PROVE  Len(Stream(b, w)) = Len(b) + Len(w)
BY DEF Stream

LEMMA StreamFront ==
  ASSUME NEW T, NEW b \in Seq(T), NEW w \in Seq(T), NEW i \in 1 .. Len(b)
  PROVE  Stream(b, w)[i] = b[i]
BY DEF Stream

LEMMA StreamBack ==
  ASSUME NEW T, NEW b \in Seq(T), NEW w \in Seq(T), NEW i \in 1 .. Len(w)
  PROVE  Stream(b, w)[Len(b) + i] = w[i]
BY DEF Stream

\* What stands in front of a stream stands in front of the buffer, once the
\* buffer is as long.
LEMMA TakenFromStream ==
  ASSUME NEW T, NEW b \in Seq(T), NEW w \in Seq(T), NEW h \in Seq(T), NEW t \in Seq(T),
         Stream(b, w) = Stream(h, t), Len(h) <= Len(b)
  PROVE  Left(b, Len(h)) = h /\ Stream(Behind(b, Len(h)), w) = t
<1> DEFINE n == Len(h)
           c == Behind(b, n)
           v == Stream(c, w)
           B == Len(b)
           W == Len(w)
           N == Len(t)
<1>1. n \in 0 .. B /\ n \in Nat /\ B \in Nat /\ W \in Nat /\ N \in Nat
  OBVIOUS
<1>2. n + N = B + W
  <2>1. Len(Stream(b, w)) = B + W
    BY StreamLength
  <2>2. Len(Stream(h, t)) = n + N
    BY StreamLength
  <2> QED BY <2>1, <2>2
<1>3. \A i \in 1 .. n : b[i] = h[i]
  <2> SUFFICES ASSUME NEW i \in 1 .. n PROVE b[i] = h[i]
    OBVIOUS
  <2>1. i \in 1 .. Len(b) /\ i \in 1 .. Len(h)
    OBVIOUS
  <2>2. Stream(b, w)[i] = b[i]
    BY <2>1, StreamFront
  <2>3. Stream(h, t)[i] = h[i]
    BY <2>1, StreamFront
  <2> QED BY <2>2, <2>3
<1>4. \A i \in 1 .. N : Stream(b, w)[n + i] = t[i]
  <2> SUFFICES ASSUME NEW i \in 1 .. N PROVE Stream(b, w)[n + i] = t[i]
    OBVIOUS
  <2>1. Stream(h, t)[Len(h) + i] = t[i]
    BY StreamBack
  <2> QED BY <2>1
<1>5. Left(b, n) = h
  <2> DEFINE l == Left(b, n)
  <2>1. l \in Seq(T) /\ Len(l) = n /\ \A i \in 1 .. n : l[i] = b[i]
    BY <1>1, LeftPart
  <2> HIDE DEF l
  <2>2. l = h
    BY <1>3, <2>1, SeqEqual
  <2> QED BY <2>2 DEF l
<1>6. /\ c \in Seq(T) /\ Len(c) = B - n
      /\ \A i \in 1 .. B - n : c[i] = b[n + i]
  BY <1>1, PartBehind
<1> HIDE DEF c
<1>7. v \in Seq(T)
  BY <1>6, StreamType
<1>8. Len(v) = Len(c) + W
  BY <1>6, StreamLength
<1>9. ASSUME NEW i \in 1 .. N PROVE v[i] = t[i]
  <2>1. i \in Nat /\ i >= 1 /\ i <= N
    OBVIOUS
  <2> DEFINE u == Stream(b, w)
  <2>2. u[n + i] = t[i]
    BY <1>4
  <2>3. CASE i <= B - n
    <3>1. i \in 1 .. Len(c) /\ n + i \in 1 .. Len(b) /\ i \in 1 .. B - n
      BY <1>1, <1>6, <2>1, <2>3
    <3>2. u[n + i] = b[n + i]
      BY <3>1, StreamFront
    <3>3. v[i] = c[i]
      BY <1>6, <3>1, StreamFront
    <3>4. c[i] = b[n + i]
      BY <1>6, <3>1
    <3> HIDE DEF u, v
    <3> QED BY <2>2, <3>2, <3>3, <3>4
  <2>4. CASE ~(i <= B - n)
    <3> DEFINE j == i - (B - n)
    <3> HIDE DEF n, B, W, N, u, v
    <3>1. j \in 1 .. W /\ (B - n) + j = i /\ B + j = n + i
      BY <1>1, <1>2, <2>1, <2>4
    <3> HIDE DEF j
    <3>2. j \in 1 .. Len(w)
      BY <3>1 DEF W
    <3>3. v[Len(c) + j] = w[j]
      <4>1. c \in Seq(T)
        BY <1>6
      <4>2. Stream(c, w)[Len(c) + j] = w[j]
        BY <3>2, <4>1, StreamBack
      <4> QED BY <4>2 DEF v
    <3>4. u[Len(b) + j] = w[j]
      BY <3>2, StreamBack DEF u
    <3>5. v[i] = w[j] /\ u[n + i] = w[j]
      BY <1>6, <3>1, <3>3, <3>4 DEF B
    <3> QED BY <2>2, <3>5
  <2> HIDE DEF u, v, n, B
  <2> QED BY <2>3, <2>4
<1>10. Len(v) = N
  <2> HIDE DEF v, n, B, W, N
  <2> QED BY <1>1, <1>2, <1>6, <1>8
<1> HIDE DEF v
<1>11. v = t
  BY <1>7, <1>9, <1>10, SeqEqual
<1> QED BY <1>5, <1>11 DEF v, c

LEMMA BehindTwice ==
  ASSUME NEW T, NEW s \in Seq(T), NEW m \in Nat, NEW n \in Nat, m + n <= Len(s)
  PROVE  Behind(Behind(s, m), n) = Behind(s, m + n)
<1> DEFINE a == Behind(s, m)
           b == Behind(a, n)
           c == Behind(s, m + n)
<1>1. Len(s) \in Nat /\ m \in 0 .. Len(s) /\ m + n \in 0 .. Len(s)
  OBVIOUS
<1>2. /\ a \in Seq(T) /\ Len(a) = Len(s) - m
      /\ \A i \in 1 .. Len(s) - m : a[i] = s[m + i]
  BY <1>1, PartBehind
<1>3. /\ c \in Seq(T) /\ Len(c) = Len(s) - (m + n)
      /\ \A i \in 1 .. Len(s) - (m + n) : c[i] = s[(m + n) + i]
  BY <1>1, PartBehind
<1> HIDE DEF a, c
<1>4. /\ b \in Seq(T) /\ Len(b) = Len(a) - n
      /\ \A i \in 1 .. Len(a) - n : b[i] = a[n + i]
  <2>1. n \in 0 .. Len(a)
    BY <1>1, <1>2
  <2> QED BY <1>2, <2>1, PartBehind
<1> HIDE DEF b
<1>5. Len(b) = Len(c)
  BY <1>1, <1>2, <1>3, <1>4
<1>6. ASSUME NEW i \in 1 .. Len(b) PROVE b[i] = c[i]
  <2>1. /\ i \in 1 .. Len(s) - (m + n) /\ i \in 1 .. Len(a) - n
        /\ n + i \in 1 .. Len(s) - m /\ m + (n + i) = (m + n) + i
    BY <1>1, <1>2, <1>4
  <2>2. b[i] = a[n + i] /\ c[i] = s[(m + n) + i]
    BY <1>3, <1>4, <2>1
  <2>3. a[n + i] = s[m + (n + i)]
    BY <1>2, <2>1
  <2> QED BY <2>1, <2>2, <2>3
<1>7. b = c
  BY <1>3, <1>4, <1>5, <1>6, SeqEqual
<1> QED BY <1>7 DEF a, b, c

LEMMA Regrouped ==
  ASSUME NEW T, NEW a \in Seq(T), NEW b \in Seq(T), NEW c \in Seq(T)
  PROVE  Stream(Stream(a, b), c) = Stream(a, Stream(b, c))
BY DEF Stream

\* Of a stream that begins with an item, the buffer shows the length of its
\* frame when it holds four bytes, and the frame itself when it holds as many.
LEMMA ItemRead ==
  ASSUME NEW item \in Items, NEW b \in Seq(Bytes), NEW w \in Seq(Bytes), NEW t \in Seq(Bytes),
         Stream(b, w) = Stream(OnWire(Frame(item)), t), Len(b) >= 4
  PROVE  /\ NumberAt(b, 0, 4) = Len(Frame(item))
         /\ Len(b) >= 4 + Len(Frame(item))
              => /\ Mid(b, 4, Len(Frame(item))) = Frame(item)
                 /\ Stream(Behind(b, 4 + Len(Frame(item))), w) = t
<1> DEFINE f == Frame(item)
           h == BigEndian(Len(f), 4)
           c == Behind(b, 4)
<1>1. f \in Seq(Bytes) /\ Len(f) \in Nat /\ FromBigEndian(h) = Len(f)
  BY ItemReadBack
<1>2. h \in Seq(Bytes) /\ Len(h) = 4
  BY <1>1, Written
<1>3. OnWire(f) = Stream(h, f)
  BY DEF OnWire, Stream
<1> HIDE DEF h, f
<1>4. Stream(b, w) = Stream(h, Stream(f, t)) /\ Stream(f, t) \in Seq(Bytes)
  <2>1. Stream(b, w) = Stream(Stream(h, f), t)
    BY <1>3 DEF f
  <2>2. Stream(f, t) \in Seq(Bytes)
    BY <1>1, StreamType
  <2>3. Stream(Stream(h, f), t) = Stream(h, Stream(f, t))
    BY <1>1, <1>2, Regrouped
  <2> QED BY <2>1, <2>2, <2>3
<1>5. Left(b, 4) = h /\ Stream(c, w) = Stream(f, t)
  <2>1. Len(h) <= Len(b)
    BY <1>2
  <2>2. Left(b, Len(h)) = h /\ Stream(Behind(b, Len(h)), w) = Stream(f, t)
    BY <1>2, <1>4, <2>1, TakenFromStream
  <2> QED BY <1>2, <2>2
<1>6. NumberAt(b, 0, 4) = Len(f)
  <2>1. Behind(b, 0) = b
    BY DEF Behind
  <2> QED BY <1>1, <1>5, <2>1 DEF NumberAt, Mid
<1>7. /\ c \in Seq(Bytes) /\ Len(c) = Len(b) - 4
  <2>1. 4 \in 0 .. Len(b)
    OBVIOUS
  <2> QED BY <2>1, PartBehind
<1>8. ASSUME Len(b) >= 4 + Len(f)
      PROVE  Mid(b, 4, Len(f)) = f /\ Stream(Behind(b, 4 + Len(f)), w) = t
  <2>1. Len(f) <= Len(c)
    BY <1>1, <1>7, <1>8
  <2> HIDE DEF c
  <2>2. Left(c, Len(f)) = f /\ Stream(Behind(c, Len(f)), w) = t
    BY <1>1, <1>5, <1>7, <2>1, TakenFromStream
  <2>3. Behind(c, Len(f)) = Behind(b, 4 + Len(f))
    BY <1>1, <1>8, BehindTwice DEF c
  <2>4. Mid(b, 4, Len(f)) = Left(c, Len(f))
    BY DEF Mid, c
  <2> QED BY <2>2, <2>3, <2>4
<1> QED BY <1>6, <1>8 DEF f

\* A frame is its type byte and its payload.
LEMMA FramePut ==
  ASSUME NEW T, NEW b \in Seq(T), NEW n \in Nat, n >= 1, Len(b) >= 4 + n
  PROVE  /\ b[5] \in T /\ Mid(b, 5, n - 1) \in Seq(T)
         /\ <<b[5]>> \o Mid(b, 5, n - 1) = Mid(b, 4, n)
<1> DEFINE p == Mid(b, 5, n - 1)
           q == Mid(b, 4, n)
           five == Behind(b, 5)
           four == Behind(b, 4)
<1>1. Len(b) \in Nat /\ 4 \in 0 .. Len(b) /\ 5 \in 0 .. Len(b) /\ 5 \in 1 .. Len(b) /\ n - 1 \in Nat
  OBVIOUS
<1>2. /\ five \in Seq(T) /\ Len(five) = Len(b) - 5
      /\ \A i \in 1 .. Len(b) - 5 : five[i] = b[5 + i]
  BY <1>1, PartBehind
<1>3. /\ four \in Seq(T) /\ Len(four) = Len(b) - 4
      /\ \A i \in 1 .. Len(b) - 4 : four[i] = b[4 + i]
  BY <1>1, PartBehind
<1> HIDE DEF five, four
<1>4. /\ p \in Seq(T) /\ Len(p) = n - 1 /\ \A i \in 1 .. n - 1 : p[i] = five[i]
  <2>1. p = Left(five, n - 1)
    BY DEF Mid, five
  <2>2. n - 1 <= Len(five)
    BY <1>1, <1>2
  <2> QED BY <1>1, <1>2, <2>1, <2>2, LeftPart
<1>5. /\ q \in Seq(T) /\ Len(q) = n /\ \A i \in 1 .. n : q[i] = four[i]
  <2>1. q = Left(four, n)
    BY DEF Mid, four
  <2>2. n <= Len(four)
    BY <1>1, <1>3
  <2> QED BY <1>1, <1>3, <2>1, <2>2, LeftPart
<1> DEFINE one == <<b[5]>>
           r == Stream(one, p)
<1>6. b[5] \in T /\ one \in Seq(T) /\ Len(one) = 1 /\ one[1] = b[5]
  BY <1>1
<1> HIDE DEF p, q, one
<1>7. /\ r \in Seq(T) /\ Len(r) = Len(one) + Len(p)
      /\ \A i \in 1 .. Len(one) : r[i] = one[i]
      /\ \A i \in 1 .. Len(p) : r[Len(one) + i] = p[i]
  <2>1. p \in Seq(T) /\ one \in Seq(T)
    BY <1>4, <1>6
  <2>2. r \in Seq(T)
    BY <2>1, StreamType
  <2>3. Len(r) = Len(one) + Len(p)
    BY <2>1, StreamLength
  <2>4. \A i \in 1 .. Len(one) : r[i] = one[i]
    BY <2>1, StreamFront
  <2>5. \A i \in 1 .. Len(p) : r[Len(one) + i] = p[i]
    BY <2>1, StreamBack
  <2> QED BY <2>2, <2>3, <2>4, <2>5
<1> HIDE DEF r
<1>8. Len(r) = n
  BY <1>4, <1>6, <1>7
<1>9. ASSUME NEW i \in 1 .. n PROVE r[i] = q[i]
  <2>1. i \in Nat /\ i \in 1 .. Len(b) - 4 /\ q[i] = b[4 + i]
    BY <1>1, <1>3, <1>5
  <2>2. CASE i = 1
    BY <1>6, <1>7, <2>1, <2>2
  <2>3. CASE i # 1
    <3> DEFINE j == i - 1
    <3>1. j \in 1 .. n - 1 /\ 1 + j = i /\ j \in 1 .. Len(b) - 5 /\ 5 + j = 4 + i
      BY <1>1, <2>1, <2>3
    <3> HIDE DEF j
    <3>2. r[1 + j] = p[j] /\ p[j] = five[j] /\ five[j] = b[5 + j]
      BY <1>2, <1>4, <1>6, <1>7, <3>1
    <3> QED BY <2>1, <3>1, <3>2
  <2> QED BY <2>2, <2>3
<1>10. r = q
  BY <1>5, <1>7, <1>8, <1>9, SeqEqual
<1> QED BY <1>4, <1>6, <1>10 DEF r, p, q, one, Stream

-----------------------------------------------------------------------------
(***************************************************************************)
(* What is left of the stream behind each of the items that were sent.     *)
(***************************************************************************)
Remains(items, rest) ==
  /\ rest \in [0 .. Len(items) -> Seq(Bytes)] /\ rest[Len(items)] = <<>>
  /\ \A k \in 1 .. Len(items) : rest[k - 1] = Stream(OnWire(Frame(items[k])), rest[k])

LEMMA RestAt ==
  ASSUME NEW items \in Seq(Items), NEW rest, Remains(items, rest), NEW n \in 0 .. Len(items)
  PROVE  /\ rest[n] \in Seq(Bytes) /\ Len(rest[n]) \in Nat
         /\ n = Len(items) => rest[n] = <<>>
         /\ n < Len(items)
              => /\ items[n + 1] \in Items /\ n + 1 \in 1 .. Len(items)
                 /\ rest[n + 1] \in Seq(Bytes) /\ Len(rest[n + 1]) \in Nat
                 /\ rest[n] = Stream(OnWire(Frame(items[n + 1])), rest[n + 1])
                 /\ Len(rest[n]) = 4 + Len(Frame(items[n + 1])) + Len(rest[n + 1])
<1>1. rest[n] \in Seq(Bytes) /\ Len(rest[n]) \in Nat
  <2>1. rest[n] \in Seq(Bytes)
    BY DEF Remains
  <2> QED BY <2>1
<1>2. ASSUME n < Len(items)
      PROVE  /\ items[n + 1] \in Items /\ n + 1 \in 1 .. Len(items)
             /\ rest[n + 1] \in Seq(Bytes) /\ Len(rest[n + 1]) \in Nat
             /\ rest[n] = Stream(OnWire(Frame(items[n + 1])), rest[n + 1])
             /\ Len(rest[n]) = 4 + Len(Frame(items[n + 1])) + Len(rest[n + 1])
  <2>1. n + 1 \in 1 .. Len(items) /\ n + 1 \in 0 .. Len(items) /\ (n + 1) - 1 = n
    BY <1>2
  <2> DEFINE f == Frame(items[n + 1])
             o == OnWire(f)
             t == rest[n + 1]
  <2>2. items[n + 1] \in Items /\ t \in Seq(Bytes) /\ rest[n] = Stream(o, t)
    BY <2>1 DEF Remains
  <2>3. o \in Seq(Bytes) /\ Len(o) = 4 + Len(f)
    BY <2>2, ItemReadBack
  <2>4. Len(Stream(o, t)) = Len(o) + Len(t)
    <3> HIDE DEF o, t, f
    <3>1. o \in Seq(Bytes) /\ t \in Seq(Bytes)
      BY <2>2, <2>3
    <3> QED BY <3>1, StreamLength
  <2>5. Len(t) \in Nat
    BY <2>2
  <2> HIDE DEF o, t
  <2>6. Len(rest[n]) = 4 + Len(f) + Len(t)
    BY <2>2, <2>3, <2>4
  <2> QED BY <2>1, <2>2, <2>6, <2>5 DEF o, t
<1>3. n = Len(items) => rest[n] = <<>>
  BY DEF Remains
<1> QED BY <1>1, <1>2, <1>3, Zenon

\* What a reader in step with the stream reads.
LEMMA NextItem ==
  ASSUME NEW items \in Seq(Items), NEW rest, Remains(items, rest), NEW n \in 0 .. Len(items),
         NEW b \in Seq(Bytes), NEW w \in Seq(Bytes), Stream(b, w) = rest[n], Len(b) >= 4
  PROVE  LET f == Frame(items[n + 1])
         IN  /\ n < Len(items) /\ items[n + 1] \in Items
             /\ f \in Seq(Bytes) /\ Len(f) \in Nat /\ Len(f) >= 2
             /\ rest[n + 1] \in Seq(Bytes) /\ NumberAt(b, 0, 4) = Len(f)
             /\ Len(b) >= 4 + Len(f) => /\ Mid(b, 4, Len(f)) = f
                                        /\ Stream(Behind(b, 4 + Len(f)), w) = rest[n + 1]
<1>1. Len(rest[n]) = Len(b) + Len(w)
  BY StreamLength
<1>2. n < Len(items)
  <2>1. Len(b) \in Nat /\ Len(w) \in Nat
    OBVIOUS
  <2>2. Len(rest[n]) # 0
    BY <1>1, <2>1
  <2>3. rest[n] # <<>>
    BY <2>2
  <2>4. n # Len(items)
    BY <2>3, RestAt
  <2> QED BY <2>4
<1> DEFINE x == items[n + 1]
           t == rest[n + 1]
<1>3. x \in Items /\ t \in Seq(Bytes) /\ rest[n] = Stream(OnWire(Frame(x)), t)
  BY <1>2, RestAt
<1> HIDE DEF x, t
<1>4. Frame(x) \in Seq(Bytes) /\ Len(Frame(x)) \in 2 .. ValuesOf(4) - 1
  BY <1>3, ItemReadBack
<1>5. Stream(b, w) = Stream(OnWire(Frame(x)), t)
  BY <1>3
<1>6. /\ NumberAt(b, 0, 4) = Len(Frame(x))
      /\ Len(b) >= 4 + Len(Frame(x))
           => /\ Mid(b, 4, Len(Frame(x))) = Frame(x)
              /\ Stream(Behind(b, 4 + Len(Frame(x))), w) = t
  BY <1>3, <1>5, ItemRead
<1>7. Len(Frame(x)) \in Nat /\ Len(Frame(x)) >= 2
  BY <1>4
<1> QED BY <1>2, <1>3, <1>4, <1>6, <1>7 DEF x, t

\* A loop that takes four bytes at least in every round that does anything
\* has nothing more to do after as many rounds as the buffer has room for.
LEMMA LoopEnds ==
  ASSUME NEW L \in Nat, NEW K \in Nat, K = L \div 4, NEW len, NEW idle, len[0] = L,
         \A i \in 0 .. K : len[i] \in Nat /\ (len[i] < 4 => i \in idle),
         \A i \in 1 .. K : i - 1 \in idle => i \in idle,
         \A i \in 1 .. K : i - 1 \notin idle => len[i] <= len[i - 1] - 4
  PROVE  K \in idle
<1> DEFINE S == {i \in Nat : i <= K => i \in idle \/ len[i] + 4 * i <= L}
<1>1. 0 \in S
  OBVIOUS
<1>2. ASSUME NEW i \in Nat, i \in S PROVE i + 1 \in S
  <2> SUFFICES ASSUME i + 1 <= K PROVE i + 1 \in idle \/ len[i + 1] + 4 * (i + 1) <= L
    OBVIOUS
  <2>1. i + 1 \in 1 .. K /\ (i + 1) - 1 = i /\ i \in 0 .. K /\ i + 1 \in 0 .. K
    OBVIOUS
  <2>2. i \in idle \/ len[i] + 4 * i <= L
    BY <1>2, <2>1
  <2>3. len[i] \in Nat /\ len[i + 1] \in Nat
    BY <2>1
  <2>4. i \in idle => i + 1 \in idle
    BY <2>1
  <2>5. i \notin idle => len[i + 1] <= len[i] - 4
    BY <2>1
  <2> QED BY <2>2, <2>3, <2>4, <2>5
<1> HIDE DEF S
<1>3. K \in idle \/ len[K] + 4 * K <= L
  <2>1. K \in S
    BY <1>1, <1>2, Induction
  <2> QED BY <2>1 DEF S
<1>4. len[K] \in Nat /\ (len[K] < 4 => K \in idle)
  OBVIOUS
<1>5. L < 4 * K + 4
  OBVIOUS
<1> QED BY <1>3, <1>4, <1>5

-----------------------------------------------------------------------------
(***************************************************************************)
(* The server's loop.                                                      *)
(***************************************************************************)
ServerOK(s) ==
  /\ s = [buffer |-> s.buffer, emitted |-> s.emitted, open |-> s.open]
  /\ s.buffer \in Seq(Bytes) /\ s.open \in BOOLEAN

\* The server has emitted the first n items, and either reads what is left of
\* the stream behind them, or has stopped at a frame over its limit.
ServerHas(s, w, items, rest, n) ==
  /\ s.emitted = [i \in 1 .. n |-> Received(items[i])]
  /\ \A i \in 1 .. n : Len(Frame(items[i])) <= MaxMessageSize
  /\ s.open => Stream(s.buffer, w) = rest[n]
  /\ ~s.open => /\ s.buffer = <<>> /\ n < Len(items)
                /\ Len(Frame(items[n + 1])) > MaxMessageSize
                /\ Len(w) <= Len(rest[n + 1])
ServerAt(s, w, items, rest) == \E n \in 0 .. Len(items) : ServerHas(s, w, items, rest, n)

ServerIdle(s) == ServerStep(s, 0) = s

LEMMA EmittedOneMore ==
  ASSUME NEW items, NEW n \in Nat
  PROVE  [i \in 1 .. n |-> Received(items[i])] \o <<Received(items[n + 1])>>
           = [i \in 1 .. n + 1 |-> Received(items[i])]
<1> DEFINE T == {Received(items[i]) : i \in 1 .. n + 1}
           a == [i \in 1 .. n |-> Received(items[i])]
           b == [i \in 1 .. n + 1 |-> Received(items[i])]
           x == Received(items[n + 1])
<1>1. a \in Seq(T) /\ Len(a) = n
  <2>1. \A i \in 1 .. n : Received(items[i]) \in T
    OBVIOUS
  <2> HIDE DEF T
  <2> QED BY <2>1
<1>2. b \in Seq(T) /\ Len(b) = n + 1
  <2>1. \A i \in 1 .. n + 1 : Received(items[i]) \in T
    OBVIOUS
  <2> HIDE DEF T
  <2> QED BY <2>1
<1>3. \A i \in 1 .. n : a[i] = b[i]
  OBVIOUS
<1>4. b[n + 1] = x /\ x \in T
  OBVIOUS
<1> HIDE DEF a, b, x, T
<1>5. /\ Append(a, x) \in Seq(T) /\ Len(Append(a, x)) = n + 1
      /\ Append(a, x)[n + 1] = x /\ \A i \in 1 .. n : Append(a, x)[i] = a[i]
  BY <1>1, <1>4, OneMore
<1>6. Append(a, x) = b
  <2> DEFINE y == Append(a, x)
  <2> HIDE DEF y
  <2>1. \A i \in 1 .. n + 1 : y[i] = b[i]
    BY <1>3, <1>4, <1>5 DEF y
  <2>2. y = b
    BY <1>2, <1>5, <2>1, SeqEqual DEF y
  <2> QED BY <2>2 DEF y
<1>7. a \o <<x>> = Append(a, x)
  BY <1>1, <1>4
<1> QED BY <1>6, <1>7 DEF a, b, x

LEMMA ServerRound ==
  ASSUME NEW items \in Seq(Items), NEW rest, Remains(items, rest), NEW w \in Seq(Bytes),
         NEW s, ServerOK(s), ServerAt(s, w, items, rest), NEW i
  PROVE  /\ ServerOK(ServerStep(s, i)) /\ ServerAt(ServerStep(s, i), w, items, rest)
         /\ ServerStep(s, i) = ServerStep(s, 0)
         /\ ServerIdle(s) \/ Len(ServerStep(s, i).buffer) <= Len(s.buffer) - 4
         /\ Len(s.buffer) < 4 => ServerIdle(s)
<1> DEFINE u == ServerStep(s, i)
           b == s.buffer
           m == NumberAt(b, 0, 4)
<1>1. u = ServerStep(s, 0)
  BY DEF ServerStep
<1>2. PICK n \in 0 .. Len(items) : ServerHas(s, w, items, rest, n)
  BY DEF ServerAt
<1>3. b \in Seq(Bytes) /\ Len(b) \in Nat /\ s.open \in BOOLEAN
  BY DEF ServerOK
<1>4. CASE ~s.open \/ Len(b) < 4 \/ Len(b) < 4 + m
  <2>1. u = s
    BY <1>4 DEF ServerStep
  <2> QED BY <1>1, <2>1 DEF ServerIdle
<1>5. CASE ~(~s.open \/ Len(b) < 4 \/ Len(b) < 4 + m)
  <2> DEFINE f == Frame(items[n + 1])
             t == rest[n + 1]
             c == Behind(b, 4 + m)
  <2>1. s.open /\ Len(b) >= 4
    BY <1>3, <1>5
  <2>2. Stream(b, w) = rest[n]
    BY <1>2, <2>1 DEF ServerHas
  <2>3. /\ n < Len(items) /\ items[n + 1] \in Items
        /\ f \in Seq(Bytes) /\ Len(f) \in Nat /\ Len(f) >= 2
        /\ t \in Seq(Bytes) /\ m = Len(f)
        /\ Len(b) >= 4 + Len(f) => /\ Mid(b, 4, Len(f)) = f
                                   /\ Stream(Behind(b, 4 + Len(f)), w) = t
    BY <1>3, <2>1, <2>2, NextItem
  <2> HIDE DEF m
  <2>4. m \in Nat /\ Len(b) >= 4 + m
    BY <1>3, <1>5, <2>3
  <2>5. Mid(b, 4, m) = f /\ Stream(c, w) = t
    BY <2>3, <2>4
  <2>6. c \in Seq(Bytes) /\ Len(c) = Len(b) - (4 + m)
    <3>1. 4 + m \in 0 .. Len(b)
      BY <1>3, <2>4
    <3> QED BY <1>3, <3>1, PartBehind
  <2> HIDE DEF c
  <2>7. CASE m > MaxMessageSize
    <3>1. u = [s EXCEPT !.open = FALSE, !.buffer = <<>>]
      BY <1>5, <2>7 DEF ServerStep, m
    <3>2. u = [buffer |-> <<>>, emitted |-> s.emitted, open |-> FALSE]
      BY <3>1 DEF ServerOK
    <3>3. Len(w) <= Len(t)
      <4>1. Len(t) = Len(c) + Len(w)
        <5>1. c \in Seq(Bytes)
          BY <2>6
        <5>2. Len(Stream(c, w)) = Len(c) + Len(w)
          BY <5>1, StreamLength
        <5> QED BY <2>5, <5>2
      <4>2. Len(c) \in Nat /\ Len(w) \in Nat
        BY <2>6
      <4> QED BY <4>1, <4>2
    <3>4. ServerHas(u, w, items, rest, n)
      BY <1>2, <2>3, <2>7, <3>2, <3>3 DEF ServerHas
    <3>5. ServerOK(u)
      BY <3>2 DEF ServerOK
    <3>6. Len(u.buffer) = 0
      BY <3>2
    <3> QED BY <1>1, <1>2, <1>3, <2>1, <3>4, <3>5, <3>6 DEF ServerAt
  <2>8. CASE ~(m > MaxMessageSize)
    <3>1. u = [s EXCEPT !.buffer = Behind(s.buffer, 4 + m),
                        !.emitted = s.emitted \o Emitted(Mid(s.buffer, 4, m))]
      BY <1>5, <2>8 DEF ServerStep, m
    <3>2. u = [buffer |-> c, emitted |-> s.emitted \o Emitted(f), open |-> s.open]
      BY <2>5, <3>1 DEF ServerOK, c
    <3>3. u.emitted = [j \in 1 .. n + 1 |-> Received(items[j])]
      <4>1. Emitted(f) = <<Received(items[n + 1])>>
        BY <2>3, ItemReadBack
      <4>2. u.emitted = s.emitted \o <<Received(items[n + 1])>>
        BY <3>2, <4>1
      <4>3. s.emitted = [j \in 1 .. n |-> Received(items[j])] /\ n \in Nat
        BY <1>2 DEF ServerHas
      <4> QED BY <4>2, <4>3, EmittedOneMore
    <3>4. \A j \in 1 .. n + 1 : Len(Frame(items[j])) <= MaxMessageSize
      <4>1. \A j \in 1 .. n : Len(Frame(items[j])) <= MaxMessageSize
        BY <1>2 DEF ServerHas
      <4>2. Len(f) <= MaxMessageSize
        BY <2>3, <2>8, LimitAssumption
      <4>3. ASSUME NEW j \in 1 .. n + 1 PROVE j \in 1 .. n \/ j = n + 1
        OBVIOUS
      <4> QED BY <4>1, <4>2, <4>3
    <3>5. u.open /\ u.buffer = c
      BY <2>1, <3>2
    <3>6. ServerHas(u, w, items, rest, n + 1) /\ n + 1 \in 0 .. Len(items)
      <4>1. n + 1 \in 0 .. Len(items)
        BY <2>3
      <4> QED BY <2>5, <3>3, <3>4, <3>5, <4>1 DEF ServerHas
    <3>7. ServerOK(u)
      BY <1>3, <2>6, <3>2 DEF ServerOK
    <3>8. Len(u.buffer) <= Len(b) - 4
      BY <1>3, <2>4, <2>6, <3>5
    <3> QED BY <1>1, <1>3, <2>1, <3>6, <3>7, <3>8 DEF ServerAt
  <2> QED BY <2>7, <2>8
<1> QED BY <1>4, <1>5

-----------------------------------------------------------------------------
LEMMA ServerRuns ==
  ASSUME NEW items \in Seq(Items), NEW rest, Remains(items, rest), NEW w \in Seq(Bytes),
         NEW s, ServerOK(s), ServerAt(s, w, items, rest)
  PROVE  /\ ServerOK(ProcessMessage(s)) /\ ServerAt(ProcessMessage(s), w, items, rest)
         /\ ServerIdle(ProcessMessage(s))
<1> DEFINE L == Len(s.buffer)
           K == L \div 4
           rounds == [i \in 1 .. K |-> i]
<1>1. L \in Nat
  BY DEF ServerOK
<1>2. K \in Nat
  <2> HIDE DEF L
  <2> QED BY <1>1
<1>3. ProcessMessage(s) = ServerLoop!Fold(s, rounds)
  BY DEF ProcessMessage, ServerLoop!Fold, ServerLoop!FoldLeft, FoldLeft,
         ServerLoop!MapThenFoldSet, MapThenFoldSet, ServerLoop!Max, Max
<1> HIDE DEF K
<1>4. rounds \in Seq(Nat) /\ Len(rounds) = K
  BY <1>2
<1> HIDE DEF rounds
<1>5. PICK at : /\ at[0] = s
                /\ \A i \in 1 .. Len(rounds) : at[i] = ServerStep(at[i - 1], rounds[i])
                /\ ServerLoop!Fold(s, rounds) = at[Len(rounds)]
  <2>1. rounds \in Seq(Nat)
    BY <1>4
  <2> QED BY <2>1, ServerLoop!FoldSteps, ZenonT(30)
<1> DEFINE Good(x) == ServerOK(x) /\ ServerAt(x, w, items, rest)
           S == {i \in Nat : i <= K => Good(at[i])}
<1>6. ASSUME NEW i \in 1 .. K, Good(at[i - 1])
      PROVE  /\ Good(at[i]) /\ (ServerIdle(at[i - 1]) => at[i] = at[i - 1])
             /\ ~ServerIdle(at[i - 1]) => Len(at[i].buffer) <= Len(at[i - 1].buffer) - 4
  <2> DEFINE x == at[i - 1]
  <2>1. at[i] = ServerStep(x, rounds[i])
    BY <1>4, <1>5
  <2> HIDE DEF x
  <2>2. ServerOK(x) /\ ServerAt(x, w, items, rest)
    BY <1>6 DEF x
  <2>3. /\ Good(ServerStep(x, rounds[i])) /\ ServerStep(x, rounds[i]) = ServerStep(x, 0)
        /\ ServerIdle(x) \/ Len(ServerStep(x, rounds[i]).buffer) <= Len(x.buffer) - 4
    BY <2>2, ServerRound
  <2> QED BY <2>1, <2>3 DEF ServerIdle, x
<1>7. 0 \in S
  BY <1>5
<1>8. ASSUME NEW i \in Nat, i \in S PROVE i + 1 \in S
  <2> SUFFICES ASSUME i + 1 <= K PROVE Good(at[i + 1])
    OBVIOUS
  <2>1. i + 1 \in 1 .. K /\ (i + 1) - 1 = i /\ Good(at[i])
    BY <1>2, <1>8
  <2> HIDE DEF Good
  <2>2. Good(at[(i + 1) - 1])
    BY <2>1
  <2> QED BY <1>6, <2>1, <2>2
<1> HIDE DEF S
<1>9. \A i \in 0 .. K : Good(at[i])
  <2>1. Nat \subseteq S
    BY <1>7, <1>8, Induction
  <2>2. \A i \in 0 .. K : i \in Nat /\ i <= K
    BY <1>2
  <2> HIDE DEF Good
  <2> QED BY <2>1, <2>2 DEF S
<1> DEFINE len == [i \in 0 .. K |-> Len(at[i].buffer)]
           idle == {i \in 0 .. K : ServerIdle(at[i])}
<1>10. K \in idle
  <2>1. len[0] = L
    BY <1>2, <1>5
  <2>2. ASSUME NEW i \in 0 .. K PROVE len[i] \in Nat /\ (len[i] < 4 => i \in idle)
    <3>1. ServerOK(at[i]) /\ ServerAt(at[i], w, items, rest)
      BY <1>9
    <3>2. Len(at[i].buffer) < 4 => ServerIdle(at[i])
      BY <3>1, ServerRound
    <3>3. Len(at[i].buffer) \in Nat
      BY <3>1 DEF ServerOK
    <3> QED BY <3>2, <3>3
  <2>3. ASSUME NEW i \in 1 .. K
        PROVE  /\ i - 1 \in idle => i \in idle
               /\ i - 1 \notin idle => len[i] <= len[i - 1] - 4
    <3>1. i - 1 \in 0 .. K /\ i \in 0 .. K
      BY <1>2
    <3>2. Good(at[i - 1])
      BY <1>9, <3>1
    <3> HIDE DEF Good
    <3>3. /\ ServerIdle(at[i - 1]) => at[i] = at[i - 1]
          /\ ~ServerIdle(at[i - 1]) => Len(at[i].buffer) <= Len(at[i - 1].buffer) - 4
      BY <1>6, <3>2
    <3> QED BY <3>1, <3>3
  <2>4. K = L \div 4
    BY DEF K
  <2> HIDE DEF len, idle, L
  <2> QED BY <1>1, <1>2, <2>1, <2>2, <2>3, <2>4, LoopEnds
<1>11. Good(at[K]) /\ ServerIdle(at[K])
  BY <1>2, <1>9, <1>10
<1> QED BY <1>3, <1>4, <1>5, <1>11

-----------------------------------------------------------------------------
(***************************************************************************)
(* FrameReader.                                                            *)
(***************************************************************************)
FrameRecords == [type : Bytes, payload : Seq(Bytes)]

ReaderOK(r) ==
  /\ r = [buffer |-> r.buffer, frames |-> r.frames]
  /\ r.buffer \in Seq(Bytes) /\ r.frames \in Seq(FrameRecords)

InStep(r, w, rest, n) == Len(r.frames) = n /\ Stream(r.buffer, w) = rest[n]
Lost(w, items, rest, n) ==
  /\ n < Len(items) /\ Len(Frame(items[n + 1])) > MaxFrame
  /\ Len(w) <= Len(rest[n])

\* FrameReader has called back with the first n frames, and either reads what
\* is left of the stream behind them, or has met a frame over its limit.
ReaderHas(r, w, items, rest, n) ==
  /\ Len(r.frames) >= n
  /\ \A i \in 1 .. n : /\ <<r.frames[i].type>> \o r.frames[i].payload = Frame(items[i])
                       /\ Len(Frame(items[i])) <= MaxFrame
  /\ InStep(r, w, rest, n) \/ Lost(w, items, rest, n)
ReaderAt(r, w, items, rest) == \E n \in 0 .. Len(items) : ReaderHas(r, w, items, rest, n)

ReaderIdle(r) == ReaderStep(r, 0) = r

LEMMA ReaderRound ==
  ASSUME NEW items \in Seq(Items), NEW rest, Remains(items, rest), NEW w \in Seq(Bytes),
         NEW r, ReaderOK(r), ReaderAt(r, w, items, rest), NEW i
  PROVE  /\ ReaderOK(ReaderStep(r, i)) /\ ReaderAt(ReaderStep(r, i), w, items, rest)
         /\ ReaderStep(r, i) = ReaderStep(r, 0)
         /\ ReaderIdle(r) \/ Len(ReaderStep(r, i).buffer) <= Len(r.buffer) - 4
         /\ Len(r.buffer) < 4 => ReaderIdle(r)
<1> DEFINE u == ReaderStep(r, i)
           b == r.buffer
           m == NumberAt(b, 0, 4)
<1>1. u = ReaderStep(r, 0)
  BY DEF ReaderStep
<1>2. PICK n \in 0 .. Len(items) : ReaderHas(r, w, items, rest, n)
  BY DEF ReaderAt
<1>3. b \in Seq(Bytes) /\ Len(b) \in Nat /\ r.frames \in Seq(FrameRecords)
  BY DEF ReaderOK
<1>4. m \in Nat
  <2>1. Behind(b, 0) \in Seq(Bytes)
    BY <1>3 DEF Behind
  <2>2. Mid(b, 0, 4) \in Seq(Bytes)
    BY <2>1, LeftPart DEF Mid
  <2> QED BY <2>2, NumberRead DEF NumberAt
<1>5. InStep(r, w, rest, n) /\ Len(b) >= 4
        => /\ n < Len(items) /\ items[n + 1] \in Items
           /\ m = Len(Frame(items[n + 1])) /\ m >= 2
           /\ Len(b) >= 4 + m => /\ Mid(b, 4, m) = Frame(items[n + 1])
                                 /\ Stream(Behind(b, 4 + m), w) = rest[n + 1]
  BY <1>3, NextItem DEF InStep
<1> HIDE DEF m
<1>6. CASE Len(b) < 4 \/ (1 <= m /\ m <= MaxFrame /\ Len(b) < 4 + m)
  <2>1. u = r
    BY <1>4, <1>6, LimitAssumption DEF ReaderStep, m
  <2> QED BY <1>1, <2>1 DEF ReaderIdle
<1>7. CASE Len(b) >= 4 /\ (m < 1 \/ m > MaxFrame)
  <2>1. u = [r EXCEPT !.buffer = <<>>]
    BY <1>3, <1>7 DEF ReaderStep, m
  <2>2. u = [buffer |-> <<>>, frames |-> r.frames]
    BY <2>1 DEF ReaderOK
  <2>3. ReaderOK(u) /\ Len(u.buffer) = 0 /\ u.frames = r.frames
    BY <1>3, <2>2 DEF ReaderOK
  <2>4. Lost(w, items, rest, n)
    <3>1. CASE InStep(r, w, rest, n)
      <4>1. n < Len(items) /\ Len(Frame(items[n + 1])) > MaxFrame
        BY <1>4, <1>7, <1>5, <3>1
      <4>2. Len(rest[n]) = Len(b) + Len(w)
        BY <1>3, <3>1, StreamLength DEF InStep
      <4>3. Len(w) \in Nat
        OBVIOUS
      <4> QED BY <1>3, <4>1, <4>2, <4>3 DEF Lost
    <3> QED BY <1>2, <3>1 DEF ReaderHas
  <2>5. ReaderHas(u, w, items, rest, n)
    BY <1>2, <2>3, <2>4 DEF ReaderHas
  <2> QED BY <1>1, <1>2, <1>3, <1>7, <2>3, <2>5 DEF ReaderAt
<1>8. CASE Len(b) >= 4 + m /\ 1 <= m /\ m <= MaxFrame
  <2> DEFINE c == Behind(b, 4 + m)
             p == Mid(b, 5, m - 1)
             x == [type |-> b[5], payload |-> p]
             fs == Append(r.frames, x)
             k == Len(r.frames)
  <2>1. u = [buffer |-> c, frames |-> fs]
    BY <1>3, <1>4, <1>8, LimitAssumption DEF ReaderStep, m
  <2>2. /\ b[5] \in Bytes /\ p \in Seq(Bytes)
        /\ <<b[5]>> \o p = Mid(b, 4, m)
    BY <1>3, <1>4, <1>8, FramePut
  <2>3. x \in FrameRecords
    BY <2>2 DEF FrameRecords
  <2>4. c \in Seq(Bytes) /\ Len(c) = Len(b) - (4 + m)
    <3>1. 4 + m \in 0 .. Len(b)
      BY <1>3, <1>4, <1>8
    <3> QED BY <1>3, <3>1, PartBehind
  <2>5. x.type = b[5] /\ x.payload = p
    OBVIOUS
  <2> HIDE DEF c, p, x
  <2>6. /\ fs \in Seq(FrameRecords) /\ Len(fs) = k + 1 /\ fs[k + 1] = x
        /\ \A j \in 1 .. k : fs[j] = r.frames[j]
    BY <1>3, <2>3, OneMore
  <2>7. k \in Nat
    BY <1>3
  <2> HIDE DEF fs, k
  <2>8. ReaderOK(u) /\ u.frames = fs /\ u.buffer = c
    BY <2>1, <2>4, <2>6 DEF ReaderOK
  <2>9. Len(u.buffer) <= Len(b) - 4
    BY <1>3, <1>4, <2>4, <2>8
  <2>10. /\ k >= n /\ n \in Nat
        /\ \A j \in 1 .. n : /\ <<fs[j].type>> \o fs[j].payload = Frame(items[j])
                             /\ Len(Frame(items[j])) <= MaxFrame
    <3>1. k >= n /\ n \in Nat
      BY <1>2 DEF ReaderHas, k
    <3>2. ASSUME NEW j \in 1 .. n
          PROVE  /\ <<fs[j].type>> \o fs[j].payload = Frame(items[j])
                 /\ Len(Frame(items[j])) <= MaxFrame
      <4>1. j \in 1 .. k
        BY <2>7, <3>1
      <4>2. fs[j] = r.frames[j]
        BY <2>6, <4>1
      <4> QED BY <1>2, <4>2 DEF ReaderHas
    <3> QED BY <3>1, <3>2
  <2>11. CASE InStep(r, w, rest, n)
    <3>1. /\ n < Len(items) /\ items[n + 1] \in Items /\ m = Len(Frame(items[n + 1]))
          /\ Mid(b, 4, m) = Frame(items[n + 1]) /\ Stream(c, w) = rest[n + 1]
      BY <1>3, <1>4, <1>8, <1>5, <2>11 DEF c
    <3>2. k = n
      BY <2>11 DEF InStep, k
    <3>3. \A j \in 1 .. n + 1 : /\ <<fs[j].type>> \o fs[j].payload = Frame(items[j])
                                /\ Len(Frame(items[j])) <= MaxFrame
      <4>1. <<fs[n + 1].type>> \o fs[n + 1].payload = Frame(items[n + 1])
        BY <2>2, <2>6, <2>5, <3>1, <3>2
      <4>2. Len(Frame(items[n + 1])) <= MaxFrame
        BY <1>8, <3>1
      <4>3. ASSUME NEW j \in 1 .. n + 1 PROVE j \in 1 .. n \/ j = n + 1
        BY <2>10
      <4> QED BY <2>10, <4>1, <4>2, <4>3
    <3>4. InStep(u, w, rest, n + 1)
      BY <2>6, <2>8, <3>1, <3>2 DEF InStep
    <3>5. Len(u.frames) >= n + 1 /\ n + 1 \in 0 .. Len(items)
      BY <2>6, <2>8, <2>10, <3>1, <3>2
    <3>6. ReaderHas(u, w, items, rest, n + 1)
      BY <2>8, <3>3, <3>4, <3>5 DEF ReaderHas
    <3> QED BY <1>1, <1>8, <2>8, <2>9, <3>5, <3>6, <1>3, <1>4 DEF ReaderAt
  <2>12. CASE Lost(w, items, rest, n)
    <3>1. Len(u.frames) >= n
      BY <2>6, <2>7, <2>8, <2>10
    <3>2. ReaderHas(u, w, items, rest, n)
      BY <2>8, <2>10, <2>12, <3>1 DEF ReaderHas
    <3> QED BY <1>1, <1>8, <2>8, <2>9, <3>2, <1>3, <1>4 DEF ReaderAt
  <2> QED BY <1>2, <2>11, <2>12 DEF ReaderHas
<1> QED BY <1>3, <1>4, <1>6, <1>7, <1>8, LimitAssumption

LEMMA ReaderRuns ==
  ASSUME NEW items \in Seq(Items), NEW rest, Remains(items, rest), NEW w \in Seq(Bytes),
         NEW r, NEW data, LET fed == [r EXCEPT !.buffer = @ \o data]
                          IN  ReaderOK(fed) /\ ReaderAt(fed, w, items, rest)
  PROVE  /\ ReaderOK(Feed(r, data)) /\ ReaderAt(Feed(r, data), w, items, rest)
         /\ ReaderIdle(Feed(r, data))
<1> DEFINE s == [r EXCEPT !.buffer = @ \o data]
<1>1. ReaderOK(s) /\ ReaderAt(s, w, items, rest)
  OBVIOUS
<1> DEFINE L == Len(s.buffer)
           K == L \div 4
           rounds == [i \in 1 .. K |-> i]
<1>2. L \in Nat
  BY <1>1 DEF ReaderOK
<1>3. K \in Nat
  <2> HIDE DEF L
  <2> QED BY <1>2
<1>4. Feed(r, data) = ReaderLoop!Fold(s, rounds)
  BY DEF Feed, ReaderLoop!Fold, ReaderLoop!FoldLeft, FoldLeft,
         ReaderLoop!MapThenFoldSet, MapThenFoldSet, ReaderLoop!Max, Max
<1> HIDE DEF K, s
<1>5. rounds \in Seq(Nat) /\ Len(rounds) = K
  BY <1>3
<1> HIDE DEF rounds
<1>6. PICK at : /\ at[0] = s
                /\ \A i \in 1 .. Len(rounds) : at[i] = ReaderStep(at[i - 1], rounds[i])
                /\ ReaderLoop!Fold(s, rounds) = at[Len(rounds)]
  <2>1. rounds \in Seq(Nat)
    BY <1>5
  <2> QED BY <2>1, ReaderLoop!FoldSteps, ZenonT(30)
<1> DEFINE Good(x) == ReaderOK(x) /\ ReaderAt(x, w, items, rest)
           S == {i \in Nat : i <= K => Good(at[i])}
<1>7. ASSUME NEW i \in 1 .. K, Good(at[i - 1])
      PROVE  /\ Good(at[i]) /\ (ReaderIdle(at[i - 1]) => at[i] = at[i - 1])
             /\ ~ReaderIdle(at[i - 1]) => Len(at[i].buffer) <= Len(at[i - 1].buffer) - 4
  <2> DEFINE x == at[i - 1]
  <2>1. at[i] = ReaderStep(x, rounds[i])
    BY <1>5, <1>6
  <2> HIDE DEF x
  <2>2. ReaderOK(x) /\ ReaderAt(x, w, items, rest)
    BY <1>7 DEF x
  <2>3. /\ Good(ReaderStep(x, rounds[i])) /\ ReaderStep(x, rounds[i]) = ReaderStep(x, 0)
        /\ ReaderIdle(x) \/ Len(ReaderStep(x, rounds[i]).buffer) <= Len(x.buffer) - 4
    BY <2>2, ReaderRound
  <2> QED BY <2>1, <2>3 DEF ReaderIdle, x
<1>8. 0 \in S
  BY <1>1, <1>6
<1>9. ASSUME NEW i \in Nat, i \in S PROVE i + 1 \in S
  <2> SUFFICES ASSUME i + 1 <= K PROVE Good(at[i + 1])
    OBVIOUS
  <2>1. i + 1 \in 1 .. K /\ (i + 1) - 1 = i /\ Good(at[i])
    BY <1>3, <1>9
  <2> HIDE DEF Good
  <2>2. Good(at[(i + 1) - 1])
    BY <2>1
  <2> QED BY <1>7, <2>1, <2>2
<1> HIDE DEF S
<1>10. \A i \in 0 .. K : Good(at[i])
  <2>1. Nat \subseteq S
    BY <1>8, <1>9, Induction
  <2>2. \A i \in 0 .. K : i \in Nat /\ i <= K
    BY <1>3
  <2> HIDE DEF Good
  <2> QED BY <2>1, <2>2 DEF S
<1> DEFINE len == [i \in 0 .. K |-> Len(at[i].buffer)]
           idle == {i \in 0 .. K : ReaderIdle(at[i])}
<1>11. K \in idle
  <2>1. len[0] = L
    BY <1>3, <1>6
  <2>2. ASSUME NEW i \in 0 .. K PROVE len[i] \in Nat /\ (len[i] < 4 => i \in idle)
    <3>1. ReaderOK(at[i]) /\ ReaderAt(at[i], w, items, rest)
      BY <1>10
    <3>2. Len(at[i].buffer) < 4 => ReaderIdle(at[i])
      BY <3>1, ReaderRound
    <3>3. Len(at[i].buffer) \in Nat
      BY <3>1 DEF ReaderOK
    <3> QED BY <3>2, <3>3
  <2>3. ASSUME NEW i \in 1 .. K
        PROVE  /\ i - 1 \in idle => i \in idle
               /\ i - 1 \notin idle => len[i] <= len[i - 1] - 4
    <3>1. i - 1 \in 0 .. K /\ i \in 0 .. K
      BY <1>3
    <3>2. Good(at[i - 1])
      BY <1>10, <3>1
    <3> HIDE DEF Good
    <3>3. /\ ReaderIdle(at[i - 1]) => at[i] = at[i - 1]
          /\ ~ReaderIdle(at[i - 1]) => Len(at[i].buffer) <= Len(at[i - 1].buffer) - 4
      BY <1>7, <3>2
    <3> QED BY <3>1, <3>3
  <2>4. K = L \div 4
    BY DEF K
  <2> HIDE DEF len, idle, L
  <2> QED BY <1>2, <1>3, <2>1, <2>2, <2>3, <2>4, LoopEnds
<1>12. Good(at[K]) /\ ReaderIdle(at[K])
  BY <1>3, <1>10, <1>11
<1> QED BY <1>4, <1>5, <1>6, <1>12

-----------------------------------------------------------------------------
(***************************************************************************)
(* The invariant.                                                          *)
(***************************************************************************)
ReadersInStep ==
  \E rest : /\ Remains(sent, rest)
            /\ ServerAt(server, wire, sent, rest) /\ ReaderAt(reader, wire, sent, rest)

FramingIInv ==
  /\ sent \in Seq(Items) /\ wire \in Seq(Bytes) /\ connections \in 1 .. MaxConnections
  /\ ServerOK(server) /\ ServerIdle(server)
  /\ ReaderOK(reader) /\ ReaderIdle(reader)
  /\ ReadersInStep

\* A connection that has just been made.
LEMMA Fresh ==
  ASSUME NEW s, s = [buffer |-> <<>>, emitted |-> <<>>, open |-> TRUE],
         NEW r, r = [buffer |-> <<>>, frames |-> <<>>]
  PROVE  /\ ServerOK(s) /\ ServerIdle(s) /\ ReaderOK(r) /\ ReaderIdle(r)
         /\ \E rest : /\ Remains(<<>>, rest)
                      /\ ServerAt(s, <<>>, <<>>, rest) /\ ReaderAt(r, <<>>, <<>>, rest)
<1> DEFINE rest == [k \in 0 .. 0 |-> <<>>]
           none == <<>>
<1>1. none \in Seq(Bytes) /\ none \in Seq(FrameRecords) /\ Len(none) = 0 /\ none \in Seq(Items)
      /\ Stream(none, none) = none
  BY DEF Stream
<1>2. ServerOK(s) /\ ReaderOK(r)
  BY <1>1 DEF ServerOK, ReaderOK
<1>3. ServerIdle(s)
  BY DEF ServerIdle, ServerStep
<1>4. ReaderIdle(r)
  BY DEF ReaderIdle, ReaderStep
<1>5. Remains(none, rest) /\ rest[0] = none
  BY <1>1 DEF Remains
<1> HIDE DEF rest
<1>6. ServerHas(s, none, none, rest, 0)
  <2>1. none = [i \in 1 .. 0 |-> Received(none[i])]
    OBVIOUS
  <2> HIDE DEF none
  <2>2. s.emitted = none /\ s.buffer = none /\ s.open
    BY DEF none
  <2> QED BY <1>1, <1>5, <2>1, <2>2 DEF ServerHas
<1>7. ReaderHas(r, none, none, rest, 0)
  <2> HIDE DEF none
  <2>1. r.buffer = none /\ r.frames = none
    BY DEF none
  <2> QED BY <1>1, <1>5, <2>1 DEF ReaderHas, InStep
<1>8. ServerAt(s, none, none, rest) /\ ReaderAt(r, none, none, rest)
  <2>1. 0 \in 0 .. Len(none)
    BY <1>1
  <2> HIDE DEF none
  <2> QED BY <1>6, <1>7, <2>1 DEF ServerAt, ReaderAt
<1> QED BY <1>2, <1>3, <1>4, <1>5, <1>8

\* One item more on the wire.
LEMMA MoreSent ==
  ASSUME NEW items \in Seq(Items), NEW item \in Items, NEW w \in Seq(Bytes),
         NEW s, ServerOK(s), NEW r, ReaderOK(r),
         NEW rest, Remains(items, rest),
         ServerAt(s, w, items, rest), ReaderAt(r, w, items, rest)
  PROVE  \E more : /\ Remains(Append(items, item), more)
                   /\ ServerAt(s, Stream(w, OnWire(Frame(item))), Append(items, item), more)
                   /\ ReaderAt(r, Stream(w, OnWire(Frame(item))), Append(items, item), more)
<1> DEFINE N  == Len(items)
           x  == OnWire(Frame(item))
           v  == Stream(w, x)
           js == Append(items, item)
           more == [k \in 0 .. N + 1 |-> IF k <= N THEN Stream(rest[k], x) ELSE <<>>]
<1>1. N \in Nat /\ x \in Seq(Bytes) /\ Len(x) \in Nat
  <2>1. x \in Seq(Bytes)
    BY ItemReadBack
  <2> HIDE DEF x
  <2> QED BY <2>1
<1>2. /\ js \in Seq(Items) /\ Len(js) = N + 1 /\ js[N + 1] = item
      /\ \A i \in 1 .. N : js[i] = items[i]
  BY OneMore
<1> HIDE DEF js
<1>3. \A k \in 0 .. N : rest[k] \in Seq(Bytes) /\ Len(rest[k]) \in Nat
  BY RestAt
<1>4. /\ \A k \in 0 .. N : more[k] = Stream(rest[k], x) /\ k \in 0 .. N + 1
      /\ more[N + 1] = <<>> /\ DOMAIN more = 0 .. N + 1
      /\ more = [k \in 0 .. N + 1 |-> more[k]]
  <2> HIDE DEF N
  <2> QED BY <1>1
<1> HIDE DEF more
<1>5. \A k \in 0 .. N : more[k] \in Seq(Bytes) /\ Len(more[k]) = Len(rest[k]) + Len(x)
  <2> SUFFICES ASSUME NEW k \in 0 .. N
               PROVE  more[k] \in Seq(Bytes) /\ Len(more[k]) = Len(rest[k]) + Len(x)
    OBVIOUS
  <2> DEFINE p == rest[k]
  <2>1. p \in Seq(Bytes) /\ more[k] = Stream(p, x)
    BY <1>3, <1>4
  <2> HIDE DEF p, x
  <2>2. Stream(p, x) \in Seq(Bytes)
    BY <1>1, <2>1, StreamType
  <2>3. Len(Stream(p, x)) = Len(p) + Len(x)
    BY <1>1, <2>1, StreamLength
  <2> QED BY <2>1, <2>2, <2>3 DEF p
<1>6. Remains(js, more)
  <2>1. more \in [0 .. N + 1 -> Seq(Bytes)]
    <3>1. <<>> \in Seq(Bytes)
      OBVIOUS
    <3>2. \A k \in 0 .. N + 1 : more[k] \in Seq(Bytes)
      <4>1. \A k \in 0 .. N + 1 : k \in 0 .. N \/ k = N + 1
        BY <1>1
      <4> QED BY <1>4, <1>5, <3>1, <4>1
    <3> QED BY <1>4, <3>2
  <2>2. ASSUME NEW k \in 1 .. N + 1
        PROVE  more[k - 1] = Stream(OnWire(Frame(js[k])), more[k])
    <3>1. CASE k = N + 1
      <4>1. k - 1 = N /\ N \in 0 .. N
        BY <1>1, <3>1
      <4>2. rest[N] = <<>>
        BY DEF Remains
      <4>3. more[k - 1] = Stream(<<>>, x)
        BY <1>4, <4>1, <4>2
      <4>4. Stream(<<>>, x) = x /\ Stream(x, <<>>) = x
        <5> HIDE DEF x
        <5> QED BY <1>1 DEF Stream
      <4> QED BY <1>2, <1>4, <3>1, <4>3, <4>4
    <3>2. CASE k # N + 1
      <4> DEFINE o == OnWire(Frame(items[k]))
                 p == rest[k]
      <4>1. k \in 1 .. N /\ k - 1 \in 0 .. N /\ k \in 0 .. N
        BY <1>1, <3>2
      <4>2. rest[k - 1] = Stream(o, p)
        BY <4>1 DEF Remains
      <4>3. items[k] \in Items
        BY <4>1
      <4>4. o \in Seq(Bytes)
        BY <4>3, ItemReadBack
      <4>5. p \in Seq(Bytes)
        BY <1>3, <4>1
      <4>6. more[k - 1] = Stream(Stream(o, p), x) /\ more[k] = Stream(p, x)
        BY <1>4, <4>1, <4>2
      <4>7. js[k] = items[k]
        BY <1>2, <4>1
      <4> HIDE DEF o, p, x
      <4>8. Stream(Stream(o, p), x) = Stream(o, Stream(p, x))
        BY <1>1, <4>4, <4>5, Regrouped
      <4> QED BY <4>6, <4>7, <4>8 DEF o
    <3> QED BY <3>1, <3>2
  <2> QED BY <1>2, <1>4, <2>1, <2>2 DEF Remains
<1>7. Len(v) = Len(w) + Len(x)
  <2> HIDE DEF x
  <2> QED BY <1>1, StreamLength
<1>8. ASSUME NEW b \in Seq(Bytes), NEW k \in 0 .. N, Stream(b, w) = rest[k]
      PROVE  Stream(b, v) = more[k]
  <2>1. more[k] = Stream(Stream(b, w), x)
    BY <1>4, <1>8
  <2> HIDE DEF x
  <2>2. Stream(Stream(b, w), x) = Stream(b, Stream(w, x))
    BY <1>1, Regrouped
  <2> QED BY <2>1, <2>2
<1>9. ASSUME NEW k \in 0 .. N, Len(w) <= Len(rest[k]) PROVE Len(v) <= Len(more[k])
  <2>1. Len(w) \in Nat /\ Len(rest[k]) \in Nat /\ Len(more[k]) = Len(rest[k]) + Len(x)
    BY <1>3, <1>5
  <2> HIDE DEF x, v
  <2> QED BY <1>1, <1>7, <1>9, <2>1
<1>10. ServerAt(s, v, js, more)
  <2>1. PICK n \in 0 .. N : ServerHas(s, w, items, rest, n)
    BY DEF ServerAt
  <2>2. \A i \in 1 .. n : js[i] = items[i] /\ i \in 1 .. N
    BY <1>1, <1>2
  <2>3. s.emitted = [i \in 1 .. n |-> Received(js[i])]
    <3>1. s.emitted = [i \in 1 .. n |-> Received(items[i])]
      BY <2>1 DEF ServerHas
    <3> QED BY <2>2, <3>1
  <2>4. \A i \in 1 .. n : Len(Frame(js[i])) <= MaxMessageSize
    BY <2>1, <2>2 DEF ServerHas
  <2>5. s.open => Stream(s.buffer, v) = more[n]
    BY <1>8, <2>1 DEF ServerHas, ServerOK
  <2>6. ASSUME ~s.open
        PROVE  /\ s.buffer = <<>> /\ n < Len(js)
               /\ Len(Frame(js[n + 1])) > MaxMessageSize
               /\ Len(v) <= Len(more[n + 1])
    <3>1. /\ s.buffer = <<>> /\ n < N /\ Len(Frame(items[n + 1])) > MaxMessageSize
          /\ Len(w) <= Len(rest[n + 1])
      BY <2>1, <2>6 DEF ServerHas
    <3>2. n + 1 \in 1 .. N /\ n + 1 \in 0 .. N /\ n < N + 1
      BY <1>1, <3>1
    <3>3. js[n + 1] = items[n + 1]
      BY <1>2, <3>2
    <3>4. Len(v) <= Len(more[n + 1])
      BY <1>9, <3>1, <3>2
    <3> QED BY <1>2, <3>1, <3>2, <3>3, <3>4
  <2>7. n \in 0 .. Len(js)
    BY <1>1, <1>2
  <2>8. ServerHas(s, v, js, more, n)
    BY <2>3, <2>4, <2>5, <2>6 DEF ServerHas
  <2> QED BY <2>7, <2>8 DEF ServerAt
<1>11. ReaderAt(r, v, js, more)
  <2>1. PICK n \in 0 .. N : ReaderHas(r, w, items, rest, n)
    BY DEF ReaderAt
  <2>2. \A i \in 1 .. n : js[i] = items[i] /\ i \in 1 .. N
    BY <1>1, <1>2
  <2>3. /\ Len(r.frames) >= n
        /\ \A i \in 1 .. n : /\ <<r.frames[i].type>> \o r.frames[i].payload = Frame(js[i])
                             /\ Len(Frame(js[i])) <= MaxFrame
    BY <2>1, <2>2 DEF ReaderHas
  <2>4. InStep(r, w, rest, n) => InStep(r, v, more, n)
    BY <1>8 DEF InStep, ReaderOK
  <2>5. Lost(w, items, rest, n) => Lost(v, js, more, n)
    <3> SUFFICES ASSUME Lost(w, items, rest, n) PROVE Lost(v, js, more, n)
      OBVIOUS
    <3>1. n < N /\ Len(Frame(items[n + 1])) > MaxFrame /\ Len(w) <= Len(rest[n])
      BY DEF Lost
    <3>2. n + 1 \in 1 .. N /\ n < N + 1
      BY <1>1, <3>1
    <3>3. js[n + 1] = items[n + 1]
      BY <1>2, <3>2
    <3>4. Len(v) <= Len(more[n])
      BY <1>9, <3>1
    <3> QED BY <1>2, <3>1, <3>2, <3>3, <3>4 DEF Lost
  <2>6. n \in 0 .. Len(js)
    BY <1>1, <1>2
  <2>7. ReaderHas(r, v, js, more, n)
    BY <2>1, <2>3, <2>4, <2>5 DEF ReaderHas
  <2> QED BY <2>6, <2>7 DEF ReaderAt
<1> QED BY <1>6, <1>10, <1>11 DEF js

\* The server's record with another buffer.
LEMMA BufferPut ==
  ASSUME NEW b, NEW e, NEW o \in BOOLEAN, NEW s, s = [buffer |-> b, emitted |-> e, open |-> o]
  PROVE  \A x : [s EXCEPT !.buffer = x] = [buffer |-> x, emitted |-> e, open |-> o]
BY SMT

\* The server's state behind the bytes d: ServerReads, for any state.
Taken(s, d) == IF s.open THEN ProcessMessage([s EXCEPT !.buffer = @ \o d]) ELSE s

\* Some of the bytes on the wire arrive.
LEMMA MoreRead ==
  ASSUME NEW items \in Seq(Items), NEW rest, Remains(items, rest),
         NEW d \in Seq(Bytes), NEW w \in Seq(Bytes),
         NEW s, ServerOK(s), ServerIdle(s), ServerAt(s, Stream(d, w), items, rest),
         NEW r, ReaderOK(r), ReaderAt(r, Stream(d, w), items, rest)
  PROVE  /\ ServerOK(Taken(s, d)) /\ ServerIdle(Taken(s, d))
         /\ ServerAt(Taken(s, d), w, items, rest)
         /\ ReaderOK(Feed(r, d)) /\ ReaderIdle(Feed(r, d))
         /\ ReaderAt(Feed(r, d), w, items, rest)
<1> DEFINE v == Stream(d, w)
           u == Taken(s, d)
<1>1. Len(w) <= Len(v)
  <2>1. Len(v) = Len(d) + Len(w)
    BY StreamLength
  <2>2. Len(d) \in Nat /\ Len(w) \in Nat
    OBVIOUS
  <2> HIDE DEF v
  <2> QED BY <2>1, <2>2
<1>2. ASSUME NEW n \in 0 .. Len(items), Len(v) <= Len(rest[n]) PROVE Len(w) <= Len(rest[n])
  <2>1. Len(v) \in Int /\ Len(w) \in Nat /\ Len(rest[n]) \in Nat
    <3>1. Len(v) = Len(d) + Len(w) /\ Len(d) \in Nat /\ Len(w) \in Nat
      BY StreamLength
    <3>2. Len(rest[n]) \in Nat
      BY RestAt
    <3> HIDE DEF v
    <3> QED BY <3>1, <3>2
  <2> HIDE DEF v
  <2> QED BY <1>1, <1>2, <2>1
<1>3. ASSUME NEW b \in Seq(Bytes) PROVE Stream(b \o d, w) = Stream(b, v)
  <2>1. Stream(Stream(b, d), w) = Stream(b, Stream(d, w))
    BY Regrouped
  <2> QED BY <2>1 DEF Stream
<1> HIDE DEF v, u
<1>4. ServerAt(s, v, items, rest) /\ ReaderAt(r, v, items, rest)
  BY DEF v
<1>5. ASSUME ~s.open PROVE ServerOK(u) /\ ServerIdle(u) /\ ServerAt(u, w, items, rest)
  <2>1. u = s
    BY <1>5 DEF Taken, u
  <2>2. PICK n \in 0 .. Len(items) : ServerHas(s, v, items, rest, n)
    BY <1>4 DEF ServerAt
  <2>3. n < Len(items) /\ Len(v) <= Len(rest[n + 1])
    BY <1>5, <2>2 DEF ServerHas
  <2>4. Len(w) <= Len(rest[n + 1])
    <3>1. n + 1 \in 0 .. Len(items)
      BY <2>3
    <3> QED BY <1>2, <2>3, <3>1
  <2>5. ServerHas(s, w, items, rest, n)
    BY <1>5, <2>2, <2>4 DEF ServerHas
  <2> QED BY <2>1, <2>5 DEF ServerAt
<1>6. ASSUME s.open PROVE ServerOK(u) /\ ServerIdle(u) /\ ServerAt(u, w, items, rest)
  <2>1. \A x : [s EXCEPT !.buffer = x]
                = [buffer |-> x, emitted |-> s.emitted, open |-> s.open]
    BY BufferPut DEF ServerOK
  <2> DEFINE s0 == [s EXCEPT !.buffer = @ \o d]
  <2>2. s0 = [buffer |-> s.buffer \o d, emitted |-> s.emitted, open |-> s.open]
    BY <2>1, Zenon
  <2>3. s.buffer \in Seq(Bytes) /\ s.open \in BOOLEAN
    BY DEF ServerOK
  <2>4. s.buffer \o d \in Seq(Bytes)
    BY <2>3
  <2>5. u = ProcessMessage(s0)
    BY <1>6 DEF Taken, u
  <2> HIDE DEF s0
  <2>6. s0.buffer = s.buffer \o d /\ s0.emitted = s.emitted /\ s0.open = s.open
    BY <2>2
  <2>7. ServerOK(s0)
    BY <2>2, <2>3, <2>4, <2>6 DEF ServerOK
  <2>8. PICK n \in 0 .. Len(items) : ServerHas(s, v, items, rest, n)
    BY <1>4 DEF ServerAt
  <2>9. Stream(s0.buffer, w) = rest[n]
    <3>1. Stream(s.buffer, v) = rest[n]
      BY <1>6, <2>8 DEF ServerHas
    <3> QED BY <1>3, <2>3, <2>6, <3>1
  <2>10. ServerHas(s0, w, items, rest, n)
    BY <1>6, <2>6, <2>8, <2>9 DEF ServerHas
  <2>11. ServerAt(s0, w, items, rest)
    BY <2>10 DEF ServerAt
  <2> QED BY <2>5, <2>7, <2>11, ServerRuns
<1>7. /\ ReaderOK(Feed(r, d)) /\ ReaderIdle(Feed(r, d))
      /\ ReaderAt(Feed(r, d), w, items, rest)
  <2> DEFINE r0 == [r EXCEPT !.buffer = @ \o d]
  <2>1. r0 = [buffer |-> r.buffer \o d, frames |-> r.frames]
    <3>1. \A x : [r EXCEPT !.buffer = x] = [buffer |-> x, frames |-> r.frames]
      BY DEF ReaderOK
    <3> QED BY <3>1, Zenon
  <2>2. r.buffer \in Seq(Bytes) /\ r.frames \in Seq(FrameRecords)
    BY DEF ReaderOK
  <2>3. r.buffer \o d \in Seq(Bytes)
    BY <2>2
  <2>4. r0.buffer = r.buffer \o d /\ r0.frames = r.frames
    BY <2>1
  <2>5. PICK n \in 0 .. Len(items) : ReaderHas(r, v, items, rest, n)
    BY <1>4 DEF ReaderAt
  <2> HIDE DEF r0
  <2>6. ReaderOK(r0)
    BY <2>1, <2>2, <2>3, <2>4 DEF ReaderOK
  <2>7. InStep(r, v, rest, n) => InStep(r0, w, rest, n)
    BY <1>3, <2>2, <2>4 DEF InStep
  <2>8. Lost(v, items, rest, n) => Lost(w, items, rest, n)
    BY <1>2 DEF Lost
  <2>9. ReaderHas(r0, w, items, rest, n)
    BY <2>4, <2>5, <2>7, <2>8 DEF ReaderHas
  <2>10. ReaderOK(r0) /\ ReaderAt(r0, w, items, rest)
    BY <2>6, <2>9 DEF ReaderAt
  <2> QED BY <2>10, ReaderRuns DEF r0
<1> QED BY <1>5, <1>6, <1>7 DEF u

-----------------------------------------------------------------------------
(***************************************************************************)
(* Where the frames end.                                                   *)
(***************************************************************************)
LEMMA FramesEnd ==
  ASSUME sent \in Seq(Items), NEW rest, Remains(sent, rest), NEW k \in 0 .. Len(sent)
  PROVE  BytesUpTo(k) \in Nat /\ BytesUpTo(k) + Len(rest[k]) = Len(rest[0])
<1> DEFINE N == Len(sent)
           S == {i \in Nat : i <= N => /\ BytesUpTo(i) \in Nat
                                       /\ BytesUpTo(i) + Len(rest[i]) = Len(rest[0])}
<1>1. N \in Nat
  OBVIOUS
<1>2. \A j : BytesUpTo(j) = SizeLoop!Fold(0, Left(sent, j))
  BY DEF BytesUpTo, SizeLoop!Fold, SizeLoop!FoldLeft, FoldLeft,
         SizeLoop!MapThenFoldSet, MapThenFoldSet, SizeLoop!Max, Max
<1>3. \A i \in 0 .. N : Len(rest[i]) \in Nat
  BY RestAt
<1>4. 0 \in S
  <2>1. Left(sent, 0) = <<>>
    BY <1>1, Smaller DEF Left
  <2>2. SizeLoop!Fold(0, <<>>) = 0
    BY SizeLoop!FoldEmpty
  <2>3. BytesUpTo(0) = 0
    BY <1>2, <2>1, <2>2
  <2>4. Len(rest[0]) \in Nat
    BY <1>1, <1>3
  <2> QED BY <2>3, <2>4
<1>5. ASSUME NEW i \in Nat, i \in S PROVE i + 1 \in S
  <2> SUFFICES ASSUME i + 1 <= N
               PROVE  /\ BytesUpTo(i + 1) \in Nat
                      /\ BytesUpTo(i + 1) + Len(rest[i + 1]) = Len(rest[0])
    OBVIOUS
  <2>1. i < N /\ i \in 0 .. N
    BY <1>1
  <2> DEFINE x == sent[i + 1]
             l == Left(sent, i)
             f == Len(Frame(x))
  <2>2. /\ x \in Items /\ Len(rest[i + 1]) \in Nat
        /\ Len(rest[i]) = 4 + f + Len(rest[i + 1])
    BY <2>1, RestAt
  <2>3. f \in Nat
    <3>1. f \in 2 .. ValuesOf(4) - 1
      BY <2>2, ItemReadBack
    <3> QED BY <3>1
  <2>4. l \in Seq(Items) /\ Left(sent, i + 1) = Append(l, x)
    <3>1. l = SubSeq(sent, 1, i) /\ Left(sent, i + 1) = SubSeq(sent, 1, i + 1)
      BY <2>1, Smaller DEF Left
    <3> QED BY <2>1, <3>1
  <2> HIDE DEF x, l
  <2>5. SizeLoop!Fold(0, Append(l, x)) = AndFrame(SizeLoop!Fold(0, l), x)
    BY <2>2, <2>4, SizeLoop!FoldLast
  <2>6. BytesUpTo(i + 1) = BytesUpTo(i) + 4 + f
    BY <1>2, <2>4, <2>5 DEF AndFrame, l
  <2>7. BytesUpTo(i) \in Nat /\ BytesUpTo(i) + Len(rest[i]) = Len(rest[0])
    BY <1>5, <2>1
  <2> DEFINE old == BytesUpTo(i)
             new == BytesUpTo(i + 1)
             r   == Len(rest[i])
             t   == Len(rest[i + 1])
             all == Len(rest[0])
  <2>8. /\ old \in Nat /\ old + r = all /\ new = old + 4 + f
        /\ f \in Nat /\ t \in Nat /\ r = 4 + f + t
    BY <2>2, <2>3, <2>6, <2>7
  <2> HIDE DEF old, new, r, t, all, f
  <2>9. new \in Nat /\ new + t = all
    BY <2>8
  <2> QED BY <2>9 DEF new, t, all
<1> HIDE DEF S
<1>6. k \in S
  BY <1>4, <1>5, Induction
<1> QED BY <1>6 DEF S

\* The stream gets shorter from item to item.
LEMMA StreamShrinks ==
  ASSUME NEW items \in Seq(Items), NEW rest, Remains(items, rest),
         NEW k \in 0 .. Len(items), NEW j \in k .. Len(items)
  PROVE  Len(rest[j]) <= Len(rest[k])
<1> DEFINE N == Len(items)
           S == {i \in Nat : k + i <= N => Len(rest[k + i]) <= Len(rest[k])}
<1>1. k \in Nat /\ N \in Nat
  OBVIOUS
<1>2. \A i \in 0 .. N : Len(rest[i]) \in Nat
  BY RestAt
<1>3. 0 \in S
  <2>1. k + 0 = k /\ Len(rest[k]) \in Nat
    BY <1>2
  <2> QED BY <2>1
<1>4. ASSUME NEW i \in Nat, i \in S PROVE i + 1 \in S
  <2> SUFFICES ASSUME k + (i + 1) <= N PROVE Len(rest[k + (i + 1)]) <= Len(rest[k])
    OBVIOUS
  <2> DEFINE m == k + i
  <2>1. m \in 0 .. N /\ m < N /\ k + (i + 1) = m + 1 /\ Len(rest[m]) <= Len(rest[k])
    BY <1>1, <1>4
  <2> HIDE DEF m
  <2>2. /\ items[m + 1] \in Items /\ Len(rest[m + 1]) \in Nat
        /\ Len(rest[m]) = 4 + Len(Frame(items[m + 1])) + Len(rest[m + 1])
    BY <2>1, RestAt
  <2>3. Len(Frame(items[m + 1])) \in Nat
    <3>1. Len(Frame(items[m + 1])) \in 2 .. ValuesOf(4) - 1
      BY <2>2, ItemReadBack
    <3> QED BY <3>1
  <2>4. Len(rest[k]) \in Nat
    BY <1>2
  <2> DEFINE a == Len(rest[k])
             b == Len(rest[m])
             c == Len(rest[m + 1])
             f == Len(Frame(items[m + 1]))
  <2>5. b <= a /\ b = 4 + f + c /\ a \in Nat /\ c \in Nat /\ f \in Nat
    BY <2>1, <2>2, <2>3, <2>4
  <2> HIDE DEF a, b, c, f
  <2>6. c <= a
    BY <2>5
  <2> QED BY <2>1, <2>6 DEF a, c
<1> HIDE DEF S
<1>5. j - k \in Nat /\ k + (j - k) = j /\ j <= N
  BY <1>1
<1>6. j - k \in S
  BY <1>3, <1>4, <1>5, Induction
<1> QED BY <1>5, <1>6 DEF S

\* A frame has been read whole when no more is on the wire than what comes
\* behind it.
LEMMA ReadWhole ==
  ASSUME sent \in Seq(Items), wire \in Seq(Bytes), NEW rest, Remains(sent, rest),
         NEW k \in 0 .. Len(sent)
  PROVE  BytesUpTo(k) <= Read <=> Len(wire) <= Len(rest[k])
<1>1. BytesUpTo(k) \in Nat /\ BytesUpTo(k) + Len(rest[k]) = Len(rest[0])
  BY FramesEnd
<1>2. Len(sent) \in 0 .. Len(sent) /\ Len(rest[Len(sent)]) = 0
  <2>1. rest[Len(sent)] = <<>>
    BY DEF Remains
  <2> QED BY <2>1
<1> DEFINE all == BytesUpTo(Len(sent))
<1>3. all \in Nat /\ all + 0 = Len(rest[0])
  BY <1>2, FramesEnd
<1>4. Len(rest[k]) \in Nat /\ Len(wire) \in Nat
  BY RestAt
<1>5. Read = all - Len(wire)
  BY DEF Read
<1> HIDE DEF all
<1> QED BY <1>1, <1>3, <1>4, <1>5

\* How many frames have been read whole, up to the first over a limit.
LEMMA WholeFrames ==
  ASSUME sent \in Seq(Items), wire \in Seq(Bytes), NEW rest, Remains(sent, rest),
         NEW limit \in Nat, NEW n \in 0 .. Len(sent), Len(wire) <= Len(rest[n]),
         \A i \in 1 .. n : Len(Frame(sent[i])) <= limit,
         n < Len(sent) => \/ Len(wire) > Len(rest[n + 1])
                          \/ Len(Frame(sent[n + 1])) > limit
  PROVE  WholeWithin(limit) = n
<1> DEFINE T == {k \in 0 .. Len(sent) : /\ BytesUpTo(k) <= Read
                                        /\ \A i \in 1 .. k : Len(Frame(sent[i])) <= limit}
           m == Max(T)
<1>1. n \in T
  BY ReadWhole
<1>2. m \in T /\ n <= m
  <2>1. Len(sent) \in Nat /\ T \in SUBSET (0 .. Len(sent))
    OBVIOUS
  <2> HIDE DEF T
  <2> QED BY <1>1, <2>1, GreatestNumber
<1>3. /\ m \in 0 .. Len(sent) /\ BytesUpTo(m) <= Read
      /\ \A i \in 1 .. m : Len(Frame(sent[i])) <= limit
  BY <1>2
<1>4. WholeWithin(limit) = m
  BY DEF WholeWithin
<1> HIDE DEF m, T
<1>5. ASSUME n < m PROVE FALSE
  <2>1. n < Len(sent) /\ n + 1 \in 1 .. m /\ n + 1 \in 0 .. Len(sent) /\ m \in (n + 1) .. Len(sent)
    BY <1>3, <1>5
  <2> DEFINE g == Len(Frame(sent[n + 1]))
  <2>2. g <= limit
    BY <1>3, <2>1
  <2>3. g \in Nat
    <3>1. sent[n + 1] \in Items
      BY <2>1
    <3>2. g \in 2 .. ValuesOf(4) - 1
      BY <3>1, ItemReadBack
    <3> QED BY <3>2
  <2>4. Len(wire) > Len(rest[n + 1])
    <3>1. g > limit \/ Len(wire) > Len(rest[n + 1])
      BY <2>1
    <3> HIDE DEF g
    <3> QED BY <2>2, <2>3, <3>1
  <2>5. Len(wire) <= Len(rest[m])
    BY <1>3, ReadWhole
  <2>6. Len(rest[m]) <= Len(rest[n + 1])
    BY <2>1, StreamShrinks
  <2>7. Len(rest[m]) \in Nat /\ Len(rest[n + 1]) \in Nat /\ Len(wire) \in Nat
    BY <1>3, <2>1, RestAt
  <2> QED BY <2>4, <2>5, <2>6, <2>7
<1>6. n = m
  BY <1>2, <1>3, <1>5
<1> QED BY <1>4, <1>6

-----------------------------------------------------------------------------
(***************************************************************************)
(* FramingIInv is inductive.                                               *)
(***************************************************************************)
LEMMA FramingInit == Init => FramingIInv
<1> SUFFICES ASSUME Init PROVE FramingIInv
  OBVIOUS
<1>1. /\ sent = <<>> /\ wire = <<>> /\ connections = 1
      /\ server = [buffer |-> <<>>, emitted |-> <<>>, open |-> TRUE]
      /\ reader = [buffer |-> <<>>, frames |-> <<>>]
  BY DEF Init
<1>2. sent \in Seq(Items) /\ wire \in Seq(Bytes)
  BY <1>1
<1>3. connections \in 1 .. MaxConnections
  BY <1>1, FramingBoundsAssumption
<1>4. /\ ServerOK(server) /\ ServerIdle(server) /\ ReaderOK(reader) /\ ReaderIdle(reader)
      /\ ReadersInStep
  BY <1>1, Fresh DEF ReadersInStep
<1> QED BY <1>2, <1>3, <1>4 DEF FramingIInv

LEMMA FramingSend ==
  ASSUME FramingIInv, NEW item \in Items, Send(item)
  PROVE  FramingIInv'
<1>1. /\ sent' = Append(sent, item) /\ wire' = Stream(wire, OnWire(Frame(item)))
      /\ server' = server /\ reader' = reader /\ connections' = connections
  BY DEF Send, Stream
<1>2. /\ sent \in Seq(Items) /\ wire \in Seq(Bytes) /\ connections \in 1 .. MaxConnections
      /\ ServerOK(server) /\ ServerIdle(server) /\ ReaderOK(reader) /\ ReaderIdle(reader)
  BY DEF FramingIInv
<1>3. PICK rest : /\ Remains(sent, rest)
                  /\ ServerAt(server, wire, sent, rest) /\ ReaderAt(reader, wire, sent, rest)
  BY DEF FramingIInv, ReadersInStep
<1>4. sent' \in Seq(Items)
  BY <1>1, <1>2, OneMore
<1>5. wire' \in Seq(Bytes)
  <2>1. OnWire(Frame(item)) \in Seq(Bytes)
    BY ItemReadBack
  <2> QED BY <1>1, <1>2, <2>1, StreamType
<1>6. ReadersInStep'
  <2>1. \E more : /\ Remains(Append(sent, item), more)
                  /\ ServerAt(server, Stream(wire, OnWire(Frame(item))), Append(sent, item), more)
                  /\ ReaderAt(reader, Stream(wire, OnWire(Frame(item))), Append(sent, item), more)
    BY <1>2, <1>3, MoreSent
  <2>2. \E more : /\ Remains(sent', more)
                  /\ ServerAt(server', wire', sent', more)
                  /\ ReaderAt(reader', wire', sent', more)
    BY <1>1, <2>1
  <2> QED BY <2>2 DEF ReadersInStep
<1>7. /\ ServerOK(server') /\ ServerIdle(server') /\ ReaderOK(reader') /\ ReaderIdle(reader')
      /\ connections' \in 1 .. MaxConnections
  BY <1>1, <1>2
<1> QED BY <1>4, <1>5, <1>6, <1>7 DEF FramingIInv

LEMMA FramingArrive ==
  ASSUME FramingIInv, NEW n \in 1 .. Len(wire), Arrive(n)
  PROVE  FramingIInv'
<1> DEFINE d == Left(wire, n)
           w == Behind(wire, n)
<1>1. /\ wire' = w /\ server' = ServerReads(d) /\ reader' = Feed(reader, d)
      /\ sent' = sent /\ connections' = connections
  BY DEF Arrive
<1>2. /\ sent \in Seq(Items) /\ wire \in Seq(Bytes) /\ connections \in 1 .. MaxConnections
      /\ ServerOK(server) /\ ServerIdle(server) /\ ReaderOK(reader)
  BY DEF FramingIInv
<1>3. PICK rest : /\ Remains(sent, rest)
                  /\ ServerAt(server, wire, sent, rest) /\ ReaderAt(reader, wire, sent, rest)
  BY DEF FramingIInv, ReadersInStep
<1>4. d \in Seq(Bytes) /\ w \in Seq(Bytes) /\ wire = Stream(d, w)
  <2>1. n \in Nat /\ n \in 0 .. Len(wire)
    BY <1>2
  <2>2. d \in Seq(Bytes)
    BY <1>2, <2>1, LeftPart
  <2>3. w \in Seq(Bytes) /\ wire = d \o w
    BY <1>2, <2>1, PartBehind
  <2> QED BY <2>2, <2>3 DEF Stream
<1> HIDE DEF d, w
<1>5. server' = Taken(server, d)
  BY <1>1 DEF ServerReads, Taken
<1>6. ServerAt(server, Stream(d, w), sent, rest) /\ ReaderAt(reader, Stream(d, w), sent, rest)
  BY <1>3, <1>4
<1>7. /\ ServerOK(server') /\ ServerIdle(server') /\ ServerAt(server', w, sent, rest)
      /\ ReaderOK(Feed(reader, d)) /\ ReaderIdle(Feed(reader, d))
      /\ ReaderAt(Feed(reader, d), w, sent, rest)
  <2>1. /\ Remains(sent, rest) /\ sent \in Seq(Items) /\ d \in Seq(Bytes) /\ w \in Seq(Bytes)
        /\ ServerOK(server) /\ ServerIdle(server) /\ ServerAt(server, Stream(d, w), sent, rest)
        /\ ReaderOK(reader) /\ ReaderAt(reader, Stream(d, w), sent, rest)
    BY <1>2, <1>3, <1>4, <1>6
  <2> QED BY <1>5, <2>1, MoreRead
<1>8. ReadersInStep'
  <2>1. /\ Remains(sent', rest) /\ ServerAt(server', wire', sent', rest)
        /\ ReaderAt(reader', wire', sent', rest)
    BY <1>1, <1>3, <1>7
  <2> QED BY <2>1 DEF ReadersInStep
<1>9. ReaderOK(reader') /\ ReaderIdle(reader') /\ wire' \in Seq(Bytes)
  BY <1>1, <1>4, <1>7
<1> QED BY <1>1, <1>2, <1>7, <1>8, <1>9 DEF FramingIInv

LEMMA FramingReconnect ==
  ASSUME FramingIInv, Reconnect
  PROVE  FramingIInv'
<1>1. reader' = [buffer |-> <<>>, frames |-> <<>>]
  BY DEF FramingIInv, ReaderOK, Reconnect, Reset
<1>2. /\ sent' = <<>> /\ wire' = <<>> /\ connections' = connections + 1
      /\ connections < MaxConnections
      /\ server' = [buffer |-> <<>>, emitted |-> <<>>, open |-> TRUE]
  BY DEF Reconnect
<1>3. connections' \in 1 .. MaxConnections
  BY <1>2, FramingBoundsAssumption DEF FramingIInv
<1>4. sent' \in Seq(Items) /\ wire' \in Seq(Bytes)
  BY <1>2
<1>5. /\ ServerOK(server') /\ ServerIdle(server') /\ ReaderOK(reader') /\ ReaderIdle(reader')
      /\ ReadersInStep'
  <2>1. \E rest : /\ Remains(sent', rest)
                  /\ ServerAt(server', wire', sent', rest) /\ ReaderAt(reader', wire', sent', rest)
    BY <1>1, <1>2, Fresh
  <2>2. ReadersInStep'
    BY <2>1 DEF ReadersInStep
  <2> QED BY <1>1, <1>2, <2>2, Fresh
<1> QED BY <1>3, <1>4, <1>5 DEF FramingIInv

\* Every step of the model, with every chunk that TCP may hand over and every
\* reconnection, keeps the readers in step with what was sent.
LEMMA FramingNext == FramingIInv /\ [Next]_vars => FramingIInv'
<1> SUFFICES ASSUME FramingIInv, [Next]_vars PROVE FramingIInv'
  OBVIOUS
<1>1. ASSUME NEW item \in Items, Send(item) PROVE FramingIInv'
  BY <1>1, FramingSend
<1>2. ASSUME NEW n \in 1 .. Len(wire), Arrive(n) PROVE FramingIInv'
  BY <1>2, FramingArrive
<1>3. CASE Reconnect
  BY <1>3, FramingReconnect
<1>4. CASE UNCHANGED vars
  BY <1>4 DEF vars, FramingIInv, ReadersInStep
<1> QED BY <1>1, <1>2, <1>3, <1>4 DEF Next

\* In every reachable state the bytes in a reader's buffer, followed by those
\* on the wire, are what remains of the stream behind the frames it has
\* delivered, unless it has met a frame over its limit.
THEOREM FramingInvariant == Spec => []FramingIInv
<1>1. Init => FramingIInv
  BY FramingInit
<1>2. FramingIInv /\ [Next]_vars => FramingIInv'
  BY FramingNext
<1> QED BY <1>1, <1>2, PTL DEF Spec

-----------------------------------------------------------------------------
(***************************************************************************)
(* What the invariant says of the two readers.                             *)
(***************************************************************************)
LEMMA LengthRead ==
  ASSUME NEW b \in Seq(Bytes)
  PROVE  NumberAt(b, 0, 4) \in Nat
<1>1. Behind(b, 0) \in Seq(Bytes)
  BY DEF Behind
<1>2. Mid(b, 0, 4) \in Seq(Bytes)
  BY <1>1, LeftPart DEF Mid
<1> QED BY <1>2, NumberRead DEF NumberAt

\* A reader that has nothing more to do holds less than a frame.
LEMMA ServerWaits ==
  ASSUME NEW s, ServerOK(s), ServerIdle(s), s.open, Len(s.buffer) >= 4
  PROVE  Len(s.buffer) < 4 + NumberAt(s.buffer, 0, 4)
<1> DEFINE b == s.buffer
           m == NumberAt(b, 0, 4)
<1>1. b \in Seq(Bytes) /\ Len(b) \in Nat /\ m \in Nat
  BY LengthRead DEF ServerOK
<1> SUFFICES ASSUME ~(Len(b) < 4 + m) PROVE FALSE
  OBVIOUS
<1>2. ServerStep(s, 0) = s
  BY DEF ServerIdle
<1>3. CASE m > MaxMessageSize
  <2>1. ServerStep(s, 0) = [s EXCEPT !.open = FALSE, !.buffer = <<>>]
    BY <1>1, <1>3 DEF ServerStep
  <2>2. ServerStep(s, 0).buffer = <<>>
    BY <2>1 DEF ServerOK
  <2> QED BY <1>2, <2>2
<1>4. CASE ~(m > MaxMessageSize)
  <2> DEFINE c == Behind(b, 4 + m)
             e == s.emitted \o Emitted(Mid(b, 4, m))
  <2>1. ServerStep(s, 0) = [s EXCEPT !.buffer = c, !.emitted = e]
    BY <1>1, <1>4 DEF ServerStep
  <2>2. Len(c) = Len(b) - (4 + m)
    <3>1. 4 + m \in 0 .. Len(b)
      BY <1>1
    <3> QED BY <1>1, <3>1, PartBehind
  <2> HIDE DEF c, e, m
  <2>3. ServerStep(s, 0).buffer = c
    BY <2>1 DEF ServerOK
  <2> QED BY <1>1, <1>2, <2>2, <2>3
<1> QED BY <1>3, <1>4

LEMMA ReaderWaits ==
  ASSUME NEW r, ReaderOK(r), ReaderIdle(r), Len(r.buffer) >= 4
  PROVE  /\ Len(r.buffer) < 4 + NumberAt(r.buffer, 0, 4)
         /\ NumberAt(r.buffer, 0, 4) <= MaxFrame
<1> DEFINE b == r.buffer
           m == NumberAt(b, 0, 4)
<1>1. b \in Seq(Bytes) /\ Len(b) \in Nat /\ m \in Nat
  BY LengthRead DEF ReaderOK
<1>2. ReaderStep(r, 0) = r
  BY DEF ReaderIdle
<1>3. ASSUME m < 1 \/ m > MaxFrame PROVE FALSE
  <2>1. ReaderStep(r, 0) = [r EXCEPT !.buffer = <<>>]
    BY <1>1, <1>3 DEF ReaderStep
  <2>2. ReaderStep(r, 0).buffer = <<>>
    BY <2>1 DEF ReaderOK
  <2> QED BY <1>2, <2>2
<1>4. ASSUME m >= 1, m <= MaxFrame, ~(Len(b) < 4 + m) PROVE FALSE
  <2> DEFINE c == Behind(b, 4 + m)
             g == Append(r.frames, [type |-> b[5], payload |-> Mid(b, 5, m - 1)])
  <2>1. ReaderStep(r, 0) = [buffer |-> c, frames |-> g]
    BY <1>1, <1>4, LimitAssumption DEF ReaderStep
  <2>2. Len(c) = Len(b) - (4 + m)
    <3>1. 4 + m \in 0 .. Len(b)
      BY <1>1, <1>4
    <3> QED BY <1>1, <3>1, PartBehind
  <2> HIDE DEF c, g, m
  <2>3. ReaderStep(r, 0).buffer = c
    BY <2>1
  <2> QED BY <1>1, <1>2, <2>2, <2>3
<1> HIDE DEF m
<1>5. m <= MaxFrame /\ Len(b) < 4 + m
  BY <1>1, <1>3, <1>4, LimitAssumption
<1> QED BY <1>5 DEF m

LEMMA TypeHolds == FramingIInv => FramingTypeOK
<1> SUFFICES ASSUME FramingIInv PROVE FramingTypeOK
  OBVIOUS
<1>1. /\ sent \in Seq(Items) /\ wire \in Seq(Bytes) /\ connections \in 1 .. MaxConnections
      /\ ServerOK(server) /\ ReaderOK(reader) /\ ReaderIdle(reader)
  BY DEF FramingIInv
<1>2. server.buffer \in Seq(Bytes)
  BY <1>1 DEF ServerOK
<1>3. \A i \in DOMAIN reader.frames : reader.frames[i].type \in Bytes
  <2>1. reader.frames \in Seq(FrameRecords)
    BY <1>1 DEF ReaderOK
  <2>2. \A i \in DOMAIN reader.frames : reader.frames[i] \in FrameRecords
    BY <2>1
  <2>3. \A x \in FrameRecords : x.type \in Bytes
    BY DEF FrameRecords
  <2> QED BY <2>2, <2>3
<1>4. Len(reader.buffer) < 4 + MaxFrame
  <2> DEFINE m == NumberAt(reader.buffer, 0, 4)
             l == Len(reader.buffer)
  <2>1. l \in Nat /\ m \in Nat
    BY <1>1, LengthRead DEF ReaderOK
  <2>2. l >= 4 => l < 4 + m /\ m <= MaxFrame
    BY <1>1, ReaderWaits
  <2>3. MaxFrame \in Nat /\ MaxFrame >= 0
    BY LimitAssumption
  <2> HIDE DEF l, m
  <2>4. l < 4 + MaxFrame
    <3>1. CASE l >= 4
      BY <2>1, <2>2, <2>3, <3>1
    <3>2. CASE l < 4
      BY <2>1, <2>3, <3>2
    <3> QED BY <2>1, <3>1, <3>2
  <2> QED BY <2>4 DEF l
<1> QED BY <1>1, <1>2, <1>3, <1>4 DEF FramingTypeOK, Bytes

\* A buffer that does not hold the next frame whole: its end is on the wire.
LEMMA NotYetWhole ==
  ASSUME NEW items \in Seq(Items), NEW rest, Remains(items, rest), NEW n \in 0 .. Len(items),
         NEW b \in Seq(Bytes), NEW w \in Seq(Bytes), Stream(b, w) = rest[n], n < Len(items),
         Len(b) >= 4 => Len(b) < 4 + NumberAt(b, 0, 4)
  PROVE  Len(w) > Len(rest[n + 1]) /\ Len(w) <= Len(rest[n])
<1> DEFINE f == Len(Frame(items[n + 1]))
           B == Len(b)
           W == Len(w)
           t == Len(rest[n + 1])
           a == Len(rest[n])
<1>1. items[n + 1] \in Items /\ t \in Nat /\ a = 4 + f + t
  BY RestAt
<1>2. f \in Nat
  <2>1. f \in 2 .. ValuesOf(4) - 1
    BY <1>1, ItemReadBack
  <2> QED BY <2>1
<1>3. B \in Nat /\ W \in Nat
  OBVIOUS
<1>4. a = B + W
  BY StreamLength
<1>5. B < 4 + f
  <2>1. CASE B < 4
    <3> HIDE DEF f, B
    <3> QED BY <1>2, <1>3, <2>1
  <2>2. CASE B >= 4
    <3>1. NumberAt(b, 0, 4) = f
      BY <2>2, NextItem
    <3> QED BY <2>2, <3>1
  <2> QED BY <1>3, <2>1, <2>2
<1> HIDE DEF f, B, W, t, a
<1>6. W > t /\ W <= a
  BY <1>1, <1>2, <1>3, <1>4, <1>5
<1> QED BY <1>6 DEF W, t, a

-----------------------------------------------------------------------------
LEMMA ServerExact == FramingIInv => ServerDeliversExactly
<1> SUFFICES ASSUME FramingIInv PROVE ServerDeliversExactly
  OBVIOUS
<1>1. /\ sent \in Seq(Items) /\ wire \in Seq(Bytes) /\ Len(wire) \in Nat
      /\ ServerOK(server) /\ ServerIdle(server)
  BY DEF FramingIInv
<1>2. PICK rest : Remains(sent, rest) /\ ServerAt(server, wire, sent, rest)
  BY DEF FramingIInv, ReadersInStep
<1>3. PICK n \in 0 .. Len(sent) : ServerHas(server, wire, sent, rest, n)
  BY <1>2 DEF ServerAt
<1>4. /\ server.emitted = [i \in 1 .. n |-> Received(sent[i])]
      /\ \A i \in 1 .. n : Len(Frame(sent[i])) <= MaxMessageSize
  BY <1>3 DEF ServerHas
<1>5. Len(rest[n]) \in Nat
  BY <1>1, <1>2, RestAt
<1>6. /\ Len(wire) <= Len(rest[n])
      /\ n < Len(sent) => \/ Len(wire) > Len(rest[n + 1])
                          \/ Len(Frame(sent[n + 1])) > MaxMessageSize
      /\ server.open <=> (n < Len(sent) => Len(wire) > Len(rest[n + 1]))
  <2>1. CASE server.open
    <3>1. server.buffer \in Seq(Bytes) /\ Stream(server.buffer, wire) = rest[n]
      BY <1>1, <1>3, <2>1 DEF ServerHas, ServerOK
    <3>2. Len(server.buffer) >= 4 => Len(server.buffer) < 4 + NumberAt(server.buffer, 0, 4)
      BY <1>1, <2>1, ServerWaits
    <3>3. n < Len(sent) => Len(wire) > Len(rest[n + 1])
      BY <1>1, <1>2, <3>1, <3>2, NotYetWhole
    <3>4. Len(wire) <= Len(rest[n])
      <4>1. Len(Stream(server.buffer, wire)) = Len(server.buffer) + Len(wire)
        BY <1>1, <3>1, StreamLength
      <4>2. Len(server.buffer) \in Nat
        BY <3>1
      <4> QED BY <1>1, <3>1, <4>1, <4>2
    <3> QED BY <2>1, <3>3, <3>4
  <2>2. CASE ~server.open
    <3>1. /\ n < Len(sent) /\ Len(Frame(sent[n + 1])) > MaxMessageSize
          /\ Len(wire) <= Len(rest[n + 1])
      BY <1>3, <2>2 DEF ServerHas
    <3>2. Len(rest[n + 1]) \in Nat
      BY <1>1, <1>2, <3>1, RestAt
    <3>3. Len(rest[n + 1]) <= Len(rest[n])
      <4>1. n + 1 \in n .. Len(sent)
        BY <3>1
      <4> QED BY <1>1, <1>2, <4>1, StreamShrinks
    <3>4. ~(Len(wire) > Len(rest[n + 1]))
      BY <1>1, <3>1, <3>2
    <3>5. Len(wire) <= Len(rest[n])
      BY <1>1, <1>5, <3>1, <3>2, <3>3
    <3> QED BY <2>2, <3>1, <3>4, <3>5
  <2> QED BY <2>1, <2>2
<1>7. WholeWithin(MaxMessageSize) = n
  BY <1>1, <1>2, <1>4, <1>6, LimitAssumption, WholeFrames
<1>8. n < Len(sent) => (Len(wire) > Len(rest[n + 1]) <=> BytesUpTo(n + 1) > Read)
  <2> SUFFICES ASSUME n < Len(sent)
               PROVE  Len(wire) > Len(rest[n + 1]) <=> BytesUpTo(n + 1) > Read
    OBVIOUS
  <2>1. n + 1 \in 0 .. Len(sent) /\ Len(sent) \in 0 .. Len(sent)
    BY <1>1
  <2>2. BytesUpTo(n + 1) \in Nat /\ BytesUpTo(Len(sent)) \in Nat
    BY <1>1, <1>2, <2>1, FramesEnd
  <2>3. Read \in Int
    BY <1>1, <2>2 DEF Read
  <2>4. Len(rest[n + 1]) \in Nat
    BY <1>1, <1>2, <2>1, RestAt
  <2>5. BytesUpTo(n + 1) <= Read <=> Len(wire) <= Len(rest[n + 1])
    BY <1>1, <1>2, <2>1, ReadWhole
  <2> QED BY <1>1, <2>2, <2>3, <2>4, <2>5
<1>9. server.open <=> (n < Len(sent) => BytesUpTo(n + 1) > Read)
  BY <1>6, <1>8
<1> QED BY <1>4, <1>7, <1>9 DEF ServerDeliversExactly

LEMMA ReaderExact == FramingIInv => ReaderDeliversExactly
<1> SUFFICES ASSUME FramingIInv PROVE ReaderDeliversExactly
  OBVIOUS
<1>1. /\ sent \in Seq(Items) /\ wire \in Seq(Bytes) /\ Len(wire) \in Nat
      /\ ReaderOK(reader) /\ ReaderIdle(reader)
  BY DEF FramingIInv
<1>2. PICK rest : Remains(sent, rest) /\ ReaderAt(reader, wire, sent, rest)
  BY DEF FramingIInv, ReadersInStep
<1>3. PICK n \in 0 .. Len(sent) : ReaderHas(reader, wire, sent, rest, n)
  BY <1>2 DEF ReaderAt
<1>4. /\ Len(reader.frames) >= n
      /\ \A i \in 1 .. n :
           /\ <<reader.frames[i].type>> \o reader.frames[i].payload = Frame(sent[i])
           /\ Len(Frame(sent[i])) <= MaxFrame
  BY <1>3 DEF ReaderHas
<1>5. /\ Len(wire) <= Len(rest[n])
      /\ n < Len(sent) => \/ Len(wire) > Len(rest[n + 1])
                          \/ Len(Frame(sent[n + 1])) > MaxFrame
      /\ (\A i \in DOMAIN sent : Len(Frame(sent[i])) <= MaxFrame) => Len(reader.frames) = n
  <2>1. CASE InStep(reader, wire, rest, n)
    <3>1. /\ reader.buffer \in Seq(Bytes) /\ Stream(reader.buffer, wire) = rest[n]
          /\ Len(reader.frames) = n
      BY <1>1, <2>1 DEF InStep, ReaderOK
    <3>2. Len(reader.buffer) >= 4 => Len(reader.buffer) < 4 + NumberAt(reader.buffer, 0, 4)
      BY <1>1, ReaderWaits
    <3>3. n < Len(sent) => Len(wire) > Len(rest[n + 1])
      BY <1>1, <1>2, <3>1, <3>2, NotYetWhole
    <3>4. Len(wire) <= Len(rest[n])
      <4>1. Len(Stream(reader.buffer, wire)) = Len(reader.buffer) + Len(wire)
        BY <1>1, <3>1, StreamLength
      <4>2. Len(reader.buffer) \in Nat
        BY <3>1
      <4> QED BY <1>1, <3>1, <4>1, <4>2
    <3> QED BY <3>1, <3>3, <3>4
  <2>2. CASE Lost(wire, sent, rest, n)
    <3>1. /\ n < Len(sent) /\ Len(Frame(sent[n + 1])) > MaxFrame
          /\ Len(wire) <= Len(rest[n])
      BY <2>2 DEF Lost
    <3>2. ~(\A i \in DOMAIN sent : Len(Frame(sent[i])) <= MaxFrame)
      <4>1. n + 1 \in DOMAIN sent /\ sent[n + 1] \in Items
        BY <1>1, <3>1
      <4>2. Len(Frame(sent[n + 1])) \in Nat
        <5>1. Len(Frame(sent[n + 1])) \in 2 .. ValuesOf(4) - 1
          BY <4>1, ItemReadBack
        <5> QED BY <5>1
      <4> DEFINE f == Len(Frame(sent[n + 1]))
      <4>3. ~(f <= MaxFrame)
        <5>1. f > MaxFrame /\ f \in Nat /\ MaxFrame \in Nat
          BY <3>1, <4>2, LimitAssumption
        <5> HIDE DEF f
        <5> QED BY <5>1
      <4> QED BY <4>1, <4>3
    <3> QED BY <3>1, <3>2
  <2> QED BY <1>3, <2>1, <2>2 DEF ReaderHas
<1>6. WholeWithin(MaxFrame) = n
  BY <1>1, <1>2, <1>4, <1>5, LimitAssumption, WholeFrames
<1> QED BY <1>4, <1>5, <1>6 DEF ReaderDeliversExactly

-----------------------------------------------------------------------------
\* The shape of the state holds; whatever lengths arrive, FrameReader's buffer
\* stays shorter than a frame of the greatest length it accepts (feed).
THEOREM FramingTypeCorrect == Spec => []FramingTypeOK
<1>1. FramingIInv => FramingTypeOK
  BY TypeHolds
<1> QED BY <1>1, FramingInvariant, PTL

\* However TCP cuts the stream, processMessage has emitted exactly what was
\* sent and has been read whole, field by field, and has closed exactly when
\* the next whole frame is over its limit.
THEOREM ServerReadsExactly == Spec => []ServerDeliversExactly
<1>1. FramingIInv => ServerDeliversExactly
  BY ServerExact
<1> QED BY <1>1, FramingInvariant, PTL

\* However TCP cuts the stream, FrameReader has called back with exactly the
\* frames that have been read whole, up to the first over its limit.
THEOREM ReaderReadsExactly == Spec => []ReaderDeliversExactly
<1>1. FramingIInv => ReaderDeliversExactly
  BY ReaderExact
<1> QED BY <1>1, FramingInvariant, PTL
=============================================================================
