------------------------------- MODULE Loops --------------------------------
(***************************************************************************)
(* Loops of the code that a specification writes as a fold or as a         *)
(* recursive function: what those compute, for any operator.  A module     *)
(* that proves something of such a loop takes an instance of this one with *)
(* its own operator for Op.                                                *)
(***************************************************************************)
EXTENDS SequencesExt, WellFoundedInduction, TLAPS

CONSTANT Op(_, _)

-----------------------------------------------------------------------------
(***************************************************************************)
(* Induction over the natural numbers, for a property given as a set.      *)
(***************************************************************************)
LEMMA LeastNatural ==
  ASSUME NEW T \in SUBSET Nat, T # {}
  PROVE  \E n \in T : \A m \in T : n <= m
<1>1. IsWellFoundedOn({ss \in Nat \X Nat : ss[1] < ss[2]}, Nat)
  BY NatLessThanWellFounded DEF OpToRel
<1>2. PICK n \in T : \A m \in T : ~(<<m, n>> \in {ss \in Nat \X Nat : ss[1] < ss[2]})
  BY <1>1, WFMin
<1>3. ASSUME NEW m \in T PROVE n <= m
  <2>1. m \in Nat /\ n \in Nat OBVIOUS
  <2>2. ~(m < n) BY <1>2, <2>1
  <2> QED BY <2>1, <2>2
<1> QED BY <1>3

LEMMA InductionOverNat ==
  ASSUME NEW S, 0 \in S, \A n \in Nat : n \in S => n + 1 \in S
  PROVE  Nat \subseteq S
<1> SUFFICES ASSUME Nat \ S # {} PROVE FALSE
  OBVIOUS
<1>1. PICK n \in Nat \ S : \A m \in Nat \ S : n <= m
  BY LeastNatural
<1>2. n \in Nat /\ n # 0
  BY <1>1
<1>3. n - 1 \in Nat /\ ~(n <= n - 1) /\ (n - 1) + 1 = n
  BY <1>2
<1>4. n - 1 \in S
  BY <1>1, <1>3
<1> QED BY <1>1, <1>3, <1>4

\* A set of numbers with a bound has a greatest element.
LEMMA GreatestNatural ==
  ASSUME NEW N \in Nat, NEW T \in SUBSET (0 .. N), T # {}
  PROVE  Max(T) \in T /\ \A n \in T : n <= Max(T)
<1> DEFINE U == {N - n : n \in T}
<1>1. U \in SUBSET Nat /\ U # {}
  <2>1. \A n \in T : n \in 0 .. N OBVIOUS
  <2>2. \A n \in T : N - n \in Nat BY <2>1
  <2> QED BY <2>2
<1>2. PICK k \in U : \A m \in U : k <= m
  BY <1>1, LeastNatural
<1>3. PICK g \in T : k = N - g
  OBVIOUS
<1>4. \A n \in T : g >= n
  <2> SUFFICES ASSUME NEW n \in T PROVE g >= n
    OBVIOUS
  <2>1. N - n \in U OBVIOUS
  <2>2. N - g <= N - n BY <1>2, <1>3, <2>1
  <2> QED BY <2>2
<1>5. \E x \in T : \A n \in T : x >= n
  BY <1>4
<1>6. Max(T) \in T /\ \A n \in T : Max(T) >= n
  BY <1>5 DEF Max
<1> QED BY <1>6

-----------------------------------------------------------------------------
(***************************************************************************)
(* Folding.                                                                *)
(***************************************************************************)
Fold(base, seq) == FoldLeft(Op, base, seq)

\* What the fold is computed by: a function on the sets of places.
Iterates(iter, base, seq, n) ==
  iter = [s \in SUBSET (1 .. n) |->
            IF s = {} THEN base ELSE Op(iter[s \ {Max(s)}], seq[Max(s)])]

LEMMA IterExists ==
  ASSUME NEW base, NEW seq, NEW n \in Nat
  PROVE  \E iter : Iterates(iter, base, seq, n)
<1> DEFINE S == {m \in Nat : \E iter : Iterates(iter, base, seq, m)}
<1>1. 0 \in S
  <2>1. Iterates([s \in SUBSET (1 .. 0) |-> base], base, seq, 0)
    BY DEF Iterates
  <2> QED BY <2>1
<1>2. ASSUME NEW m \in Nat, m \in S PROVE m + 1 \in S
  <2>1. PICK f : Iterates(f, base, seq, m) BY <1>2
  <2> DEFINE g == [s \in SUBSET (1 .. m + 1) |->
                     IF m + 1 \in s THEN Op(f[s \ {m + 1}], seq[m + 1]) ELSE f[s]]
  <2>2. ASSUME NEW s \in SUBSET (1 .. m + 1)
        PROVE  g[s] = IF s = {} THEN base ELSE Op(g[s \ {Max(s)}], seq[Max(s)])
    <3>1. CASE m + 1 \in s
      <4>1. Max(s) = m + 1
        <5>1. s \in SUBSET (0 .. m + 1) /\ s # {} BY <3>1
        <5>2. m + 1 \in Nat OBVIOUS
        <5>3. Max(s) \in s /\ m + 1 <= Max(s)
          BY <3>1, <5>1, <5>2, GreatestNatural
        <5>4. Max(s) \in 1 .. m + 1 BY <5>3
        <5> QED BY <5>3, <5>4
      <4>2. g[s \ {m + 1}] = f[s \ {m + 1}]
        OBVIOUS
      <4> QED BY <3>1, <4>1, <4>2
    <3>2. CASE m + 1 \notin s
      <4>1. s \in SUBSET (1 .. m) /\ g[s] = f[s] BY <3>2
      <4>2. CASE s = {} BY <2>1, <4>1, <4>2 DEF Iterates
      <4>3. CASE s # {}
        <5>1. s \ {Max(s)} \in SUBSET (1 .. m + 1) /\ m + 1 \notin s \ {Max(s)}
          BY <3>2
        <5>2. g[s \ {Max(s)}] = f[s \ {Max(s)}]
          BY <5>1
        <5>3. f[s] = Op(f[s \ {Max(s)}], seq[Max(s)])
          BY <2>1, <4>1, <4>3 DEF Iterates
        <5> HIDE DEF g
        <5> QED BY <4>1, <4>3, <5>2, <5>3
      <4> QED BY <4>2, <4>3
    <3> QED BY <3>1, <3>2
  <2>3. Iterates(g, base, seq, m + 1)
    <3>1. g = [s \in SUBSET (1 .. m + 1) |-> g[s]]
      OBVIOUS
    <3> HIDE DEF g
    <3> QED BY <2>2, <3>1 DEF Iterates
  <2> HIDE DEF g
  <2>4. \E iter : Iterates(iter, base, seq, m + 1)
    BY <2>3
  <2> QED BY <2>4
<1> HIDE DEF S
<1>3. n \in S
  BY <1>1, <1>2, InductionOverNat
<1> QED BY <1>3 DEF S

\* The fold runs through a sequence of values, one for each element taken.
LEMMA FoldSteps ==
  ASSUME NEW base, NEW T, NEW seq \in Seq(T)
  PROVE  \E at : /\ at[0] = base
                 /\ \A i \in 1 .. Len(seq) : at[i] = Op(at[i - 1], seq[i])
                 /\ Fold(base, seq) = at[Len(seq)]
<1> DEFINE n == Len(seq)
           iter == CHOOSE iter : Iterates(iter, base, seq, n)
           at == [i \in 0 .. n |-> iter[1 .. i]]
<1>1. n \in Nat /\ DOMAIN seq = 1 .. n
  OBVIOUS
<1>2. Iterates(iter, base, seq, n)
  <2> HIDE DEF n
  <2> QED BY <1>1, IterExists
<1>3. Fold(base, seq) = iter[1 .. n]
  BY <1>1 DEF Fold, FoldLeft, MapThenFoldSet, Iterates
<1> HIDE DEF iter, n
<1>4. at[0] = base
  BY <1>1, <1>2 DEF Iterates
<1>5. ASSUME NEW i \in 1 .. n PROVE at[i] = Op(at[i - 1], seq[i])
  <2>1. 1 .. i \in SUBSET (1 .. n) /\ 1 .. i # {} /\ 1 .. i \in SUBSET (0 .. i)
    BY <1>1
  <2>2. Max(1 .. i) = i
    <3>1. Max(1 .. i) \in 1 .. i /\ i <= Max(1 .. i)
      <4>1. i \in Nat /\ i \in 1 .. i BY <1>1
      <4> QED BY <2>1, <4>1, GreatestNatural
    <3> QED BY <1>1, <3>1
  <2>3. (1 .. i) \ {i} = 1 .. (i - 1)
    BY <1>1
  <2>4. iter[1 .. i] = Op(iter[1 .. (i - 1)], seq[i])
    BY <1>2, <2>1, <2>2, <2>3 DEF Iterates
  <2>5. at[i] = iter[1 .. i] /\ at[i - 1] = iter[1 .. (i - 1)]
    BY <1>1
  <2> QED BY <2>4, <2>5
<1>6. at[n] = iter[1 .. n]
  BY <1>1
<1> QED BY <1>3, <1>4, <1>5, <1>6 DEF n

\* Nothing folded, and one element more.
LEMMA FoldEmpty == ASSUME NEW base PROVE Fold(base, <<>>) = base
<1> DEFINE none == <<>>
           T    == {}
<1>1. none \in Seq(T) /\ Len(none) = 0
  OBVIOUS
<1> HIDE DEF none, T
<1>2. PICK at : /\ at[0] = base
                /\ \A i \in 1 .. Len(none) : at[i] = Op(at[i - 1], none[i])
                /\ Fold(base, none) = at[Len(none)]
  BY <1>1, FoldSteps
<1> QED BY <1>1, <1>2 DEF none

LEMMA FoldLast ==
  ASSUME NEW base, NEW T, NEW seq \in Seq(T), NEW x \in T
  PROVE  Fold(base, Append(seq, x)) = Op(Fold(base, seq), x)
<1> DEFINE n == Len(seq)
           more == Append(seq, x)
<1>1. /\ n \in Nat /\ more \in Seq(T) /\ Len(more) = n + 1 /\ more[n + 1] = x
      /\ \A i \in 1 .. n : more[i] = seq[i]
  OBVIOUS
<1> HIDE DEF more
<1>2. PICK a : /\ a[0] = base
               /\ \A i \in 1 .. n : a[i] = Op(a[i - 1], seq[i])
               /\ Fold(base, seq) = a[n]
  BY FoldSteps
<1>3. PICK b : /\ b[0] = base
               /\ \A i \in 1 .. Len(more) : b[i] = Op(b[i - 1], more[i])
               /\ Fold(base, more) = b[Len(more)]
  BY <1>1, FoldSteps
<1> DEFINE S == {i \in Nat : i <= n => a[i] = b[i]}
<1>4. 0 \in S
  BY <1>2, <1>3
<1>5. ASSUME NEW i \in Nat, i \in S PROVE i + 1 \in S
  <2> SUFFICES ASSUME i + 1 <= n PROVE a[i + 1] = b[i + 1]
    OBVIOUS
  <2>1. i + 1 \in 1 .. n /\ i + 1 \in 1 .. Len(more) /\ (i + 1) - 1 = i /\ a[i] = b[i]
    BY <1>1, <1>5
  <2> HIDE DEF n
  <2>2. a[i + 1] = Op(a[i], seq[i + 1])
    BY <1>2, <2>1
  <2>3. b[i + 1] = Op(b[i], more[i + 1])
    BY <1>3, <2>1
  <2> QED BY <1>1, <2>1, <2>2, <2>3
<1> HIDE DEF S
<1>6. n \in S
  BY <1>1, <1>4, <1>5, InductionOverNat
<1>7. a[n] = b[n]
  BY <1>1, <1>6 DEF S
<1>8. b[n + 1] = Op(b[n], x)
  <2>1. n + 1 \in 1 .. Len(more) /\ (n + 1) - 1 = n
    BY <1>1
  <2> HIDE DEF n
  <2> QED BY <1>1, <1>3, <2>1
<1> QED BY <1>1, <1>2, <1>3, <1>7, <1>8 DEF more

-----------------------------------------------------------------------------
(***************************************************************************)
(* The same loop as a recursive function.                                  *)
(***************************************************************************)
Recursive(base, seq) ==
  LET upTo[n \in 0 .. Len(seq)] ==
        IF n = 0 THEN base ELSE Op(upTo[n - 1], seq[n])
  IN  upTo[Len(seq)]

\* What that function is: its value at n is what n rounds compute.
Rounds(upTo, base, seq, n) ==
  upTo = [i \in 0 .. n |-> IF i = 0 THEN base ELSE Op(upTo[i - 1], seq[i])]

LEMMA RoundsExist ==
  ASSUME NEW base, NEW seq, NEW n \in Nat
  PROVE  \E upTo : Rounds(upTo, base, seq, n)
<1> DEFINE S == {m \in Nat : \E upTo : Rounds(upTo, base, seq, m)}
<1>1. 0 \in S
  <2>1. Rounds([i \in 0 .. 0 |-> base], base, seq, 0)
    BY DEF Rounds
  <2> QED BY <2>1
<1>2. ASSUME NEW m \in Nat, m \in S PROVE m + 1 \in S
  <2>1. PICK f : Rounds(f, base, seq, m) BY <1>2
  <2> DEFINE g == [i \in 0 .. m + 1 |->
                     IF i = m + 1 THEN Op(f[m], seq[m + 1]) ELSE f[i]]
  <2>2. ASSUME NEW i \in 0 .. m + 1
        PROVE  g[i] = IF i = 0 THEN base ELSE Op(g[i - 1], seq[i])
    <3>1. CASE i = m + 1
      <4>1. g[i] = Op(f[m], seq[i]) /\ i # 0 /\ i - 1 = m BY <3>1
      <4>2. g[m] = f[m] OBVIOUS
      <4> HIDE DEF g
      <4> QED BY <4>1, <4>2
    <3>2. CASE i # m + 1
      <4>1. i \in 0 .. m /\ g[i] = f[i] BY <3>2
      <4>2. f[i] = IF i = 0 THEN base ELSE Op(f[i - 1], seq[i])
        BY <2>1, <4>1 DEF Rounds
      <4>3. i # 0 => g[i - 1] = f[i - 1] BY <4>1
      <4> HIDE DEF g
      <4> QED BY <4>1, <4>2, <4>3
    <3> QED BY <3>1, <3>2
  <2>3. g = [i \in 0 .. m + 1 |-> g[i]] OBVIOUS
  <2> HIDE DEF g
  <2>4. Rounds(g, base, seq, m + 1) BY <2>2, <2>3 DEF Rounds
  <2> QED BY <2>4
<1> HIDE DEF S
<1>3. n \in S
  BY <1>1, <1>2, InductionOverNat
<1> QED BY <1>3 DEF S

\* The recursive function runs through a sequence of values, one for each
\* element taken, as the fold does.
LEMMA RecursiveSteps ==
  ASSUME NEW base, NEW T, NEW seq \in Seq(T)
  PROVE  \E at : /\ at[0] = base
                 /\ \A i \in 1 .. Len(seq) : at[i] = Op(at[i - 1], seq[i])
                 /\ Recursive(base, seq) = at[Len(seq)]
<1> DEFINE n  == Len(seq)
           at == CHOOSE upTo : Rounds(upTo, base, seq, n)
<1>1. n \in Nat
  OBVIOUS
<1>2. Rounds(at, base, seq, n)
  <2> HIDE DEF n
  <2> QED BY <1>1, RoundsExist
<1>3. Recursive(base, seq) = at[n]
  BY DEF Recursive, Rounds
<1> HIDE DEF at, n
<1>4. at[0] = base
  BY <1>1, <1>2 DEF Rounds
<1>5. ASSUME NEW i \in 1 .. n PROVE at[i] = Op(at[i - 1], seq[i])
  BY <1>1, <1>2 DEF Rounds
<1> QED BY <1>3, <1>4, <1>5 DEF n
=============================================================================
