-------------------------- MODULE ChatWindow_proofs --------------------------
(***************************************************************************)
(* Proofs about module ChatWindow, for any peers, ports and bounds.        *)
(***************************************************************************)
EXTENDS ChatWindow, SequenceTheorems, FiniteSetTheorems, TLAPS

-----------------------------------------------------------------------------
(***************************************************************************)
(* What is kept of a list of marked items.                                 *)
(***************************************************************************)
KeepLoop == INSTANCE Loops WITH Op <- Keep

Marked(T) == [keep : BOOLEAN, item : T]

LEMMA Induction ==
  ASSUME NEW S, 0 \in S, \A n \in Nat : n \in S => n + 1 \in S
  PROVE  Nat \subseteq S
BY KeepLoop!InductionOverNat

LEMMA MarkedItem ==
  ASSUME NEW T, NEW m \in Seq(Marked(T)), NEW i \in 1 .. Len(m)
  PROVE  m[i] \in Marked(T) /\ m[i].keep \in BOOLEAN /\ m[i].item \in T
<1>1. m[i] \in Marked(T)
  OBVIOUS
<1> QED BY <1>1 DEF Marked

\* The list is gone through item by item.
LEMMA KeptSteps ==
  ASSUME NEW T, NEW m \in Seq(Marked(T))
  PROVE  \E at : /\ at[0] = <<>>
                 /\ \A i \in 1 .. Len(m) : at[i] = Keep(at[i - 1], m[i])
                 /\ Kept(m) = at[Len(m)]
<1>1. Kept(m) = KeepLoop!Recursive(<<>>, m)
  BY DEF Kept, KeepLoop!Recursive
<1> QED BY <1>1, KeepLoop!RecursiveSteps

\* Two lists with the same marks on corresponding items, taken side by side.
LEMMA KeptPairs ==
  ASSUME NEW T, NEW m \in Seq(Marked(T)),
         NEW U, NEW l \in Seq(Marked(U)), NEW F,
         Len(l) = Len(m),
         \A i \in 1 .. Len(m) : l[i].keep = m[i].keep /\ l[i].item = F[m[i].item]
  PROVE  /\ Kept(m) \in Seq(T) /\ Kept(l) \in Seq(U) /\ Len(Kept(l)) = Len(Kept(m))
         /\ \A j \in 1 .. Len(Kept(m)) :
              /\ Kept(l)[j] = F[Kept(m)[j]]
              /\ \E i \in 1 .. Len(m) : m[i].keep /\ m[i].item = Kept(m)[j]
<1>1. PICK a : /\ a[0] = <<>>
               /\ \A i \in 1 .. Len(m) : a[i] = Keep(a[i - 1], m[i])
               /\ Kept(m) = a[Len(m)]
  BY KeptSteps
<1>2. PICK b : /\ b[0] = <<>>
               /\ \A i \in 1 .. Len(l) : b[i] = Keep(b[i - 1], l[i])
               /\ Kept(l) = b[Len(l)]
  BY KeptSteps
<1> DEFINE Good(n) == /\ a[n] \in Seq(T) /\ b[n] \in Seq(U) /\ Len(b[n]) = Len(a[n])
                      /\ \A j \in 1 .. Len(a[n]) :
                           /\ b[n][j] = F[a[n][j]]
                           /\ \E i \in 1 .. Len(m) : m[i].keep /\ m[i].item = a[n][j]
           S == {n \in Nat : n <= Len(m) => Good(n)}
<1>3. Good(0)
  BY <1>1, <1>2
<1>4. ASSUME NEW n \in Nat, n + 1 <= Len(m), Good(n) PROVE Good(n + 1)
  <2> DEFINE k == n + 1
  <2>1. k \in 1 .. Len(m) /\ k - 1 = n
    BY <1>4
  <2>2. a[k] = Keep(a[n], m[k]) /\ b[k] = Keep(b[n], l[k])
    BY <1>1, <1>2, <2>1
  <2>3. /\ m[k].keep \in BOOLEAN /\ m[k].item \in T /\ l[k].item \in U
        /\ l[k].keep = m[k].keep /\ l[k].item = F[m[k].item]
    BY <2>1, MarkedItem
  <2> HIDE DEF k
  <2>4. CASE m[k].keep
    <3>1. a[k] = Append(a[n], m[k].item) /\ b[k] = Append(b[n], l[k].item)
      BY <2>2, <2>3, <2>4 DEF Keep
    <3>2. Len(a[k]) = Len(a[n]) + 1 /\ Len(b[k]) = Len(a[n]) + 1
          /\ a[k] \in Seq(T) /\ b[k] \in Seq(U)
      BY <1>4, <2>3, <3>1
    <3>3. ASSUME NEW j \in 1 .. Len(a[k])
          PROVE  /\ b[k][j] = F[a[k][j]]
                 /\ \E i \in 1 .. Len(m) : m[i].keep /\ m[i].item = a[k][j]
      <4>1. CASE j = Len(a[k])
        <5>1. a[k][j] = m[k].item /\ b[k][j] = l[k].item
          BY <1>4, <2>3, <3>1, <3>2, <4>1
        <5> QED BY <2>1, <2>3, <2>4, <5>1
      <4>2. CASE j # Len(a[k])
        <5>1. j \in 1 .. Len(a[n]) /\ a[k][j] = a[n][j] /\ b[k][j] = b[n][j]
          BY <1>4, <2>3, <3>1, <3>2, <4>2
        <5> QED BY <1>4, <5>1
      <4> QED BY <4>1, <4>2
    <3> QED BY <3>2, <3>3 DEF k
  <2>5. CASE ~m[k].keep
    <3>1. a[k] = a[n] /\ b[k] = b[n]
      BY <2>2, <2>3, <2>5 DEF Keep
    <3> QED BY <1>4, <3>1 DEF k
  <2> QED BY <2>4, <2>5, <2>3
<1> HIDE DEF Good
<1>5. 0 \in S /\ \A n \in Nat : n \in S => n + 1 \in S
  BY <1>3, <1>4
<1> HIDE DEF S
<1>6. Nat \subseteq S
  BY <1>5, Induction
<1>7. Len(m) \in S
  BY <1>6
<1>8. Good(Len(m))
  BY <1>7 DEF S
<1> QED BY <1>1, <1>2, <1>8 DEF Good

\* What is kept is of the list.
LEMMA KeptIn ==
  ASSUME NEW T, NEW m \in Seq(Marked(T))
  PROVE  /\ Kept(m) \in Seq(T)
         /\ \A j \in 1 .. Len(Kept(m)) :
              \E i \in 1 .. Len(m) : m[i].keep /\ m[i].item = Kept(m)[j]
<1> DEFINE F == [x \in T |-> x]
<1>1. \A i \in 1 .. Len(m) : m[i].keep = m[i].keep /\ m[i].item = F[m[i].item]
  BY MarkedItem
<1> HIDE DEF F
<1>2. Len(m) = Len(m)
  OBVIOUS
<1> QED BY <1>1, <1>2, KeptPairs

\* Nothing is kept of nothing, and one more item is kept or not.
LEMMA KeptEmpty == Kept(<<>>) = <<>>
<1>1. <<>> \in Seq(Marked({})) /\ Len(<<>>) = 0
  OBVIOUS
<1>2. PICK at : at[0] = <<>> /\ Kept(<<>>) = at[Len(<<>>)]
  BY <1>1, KeptSteps
<1> QED BY <1>1, <1>2

LEMMA KeptAppend ==
  ASSUME NEW T, NEW m \in Seq(Marked(T)), NEW e \in Marked(T)
  PROVE  Kept(Append(m, e)) = IF e.keep THEN Append(Kept(m), e.item) ELSE Kept(m)
<1> DEFINE l == Append(m, e)
<1>1. l \in Seq(Marked(T)) /\ Len(l) = Len(m) + 1 /\ l[Len(m) + 1] = e
      /\ \A i \in 1 .. Len(m) : l[i] = m[i]
  OBVIOUS
<1>2. PICK a : /\ a[0] = <<>>
               /\ \A i \in 1 .. Len(m) : a[i] = Keep(a[i - 1], m[i])
               /\ Kept(m) = a[Len(m)]
  BY KeptSteps
<1> HIDE DEF l
<1>3. PICK b : /\ b[0] = <<>>
               /\ \A i \in 1 .. Len(l) : b[i] = Keep(b[i - 1], l[i])
               /\ Kept(l) = b[Len(l)]
  BY <1>1, KeptSteps
<1> DEFINE S == {n \in Nat : n <= Len(m) => a[n] = b[n]}
<1>4. 0 \in S
  BY <1>2, <1>3
<1>5. ASSUME NEW n \in Nat, n \in S PROVE n + 1 \in S
  <2> SUFFICES ASSUME n + 1 <= Len(m) PROVE a[n + 1] = b[n + 1]
    OBVIOUS
  <2>1. n + 1 \in 1 .. Len(m) /\ n + 1 \in 1 .. Len(l) /\ (n + 1) - 1 = n /\ a[n] = b[n]
    BY <1>1, <1>5
  <2>2. l[n + 1] = m[n + 1] /\ a[n + 1] = Keep(a[n], m[n + 1])
        /\ b[n + 1] = Keep(b[n], l[n + 1])
    BY <1>1, <1>2, <1>3, <2>1
  <2> QED BY <2>1, <2>2
<1> HIDE DEF S
<1>6. Len(m) \in S
  BY <1>4, <1>5, Induction
<1>7. Kept(l) = Keep(Kept(m), e)
  <2>1. a[Len(m)] = b[Len(m)] BY <1>6 DEF S
  <2>2. Len(m) \in Nat /\ Len(m) + 1 \in 1 .. Len(l) /\ (Len(m) + 1) - 1 = Len(m)
    BY <1>1
  <2>3. b[Len(m) + 1] = Keep(b[Len(m)], l[Len(m) + 1])
    BY <1>3, <2>2
  <2> QED BY <1>1, <1>2, <1>3, <2>1, <2>3
<1> QED BY <1>7 DEF l, Keep

\* All is kept of a list whose items are all marked.
LEMMA KeptAll ==
  ASSUME NEW T, NEW m \in Seq(Marked(T)), \A i \in 1 .. Len(m) : m[i].keep
  PROVE  Kept(m) = [i \in 1 .. Len(m) |-> m[i].item]
<1>1. PICK a : /\ a[0] = <<>>
               /\ \A i \in 1 .. Len(m) : a[i] = Keep(a[i - 1], m[i])
               /\ Kept(m) = a[Len(m)]
  BY KeptSteps
<1> DEFINE First(n) == [i \in 1 .. n |-> m[i].item]
           S == {n \in Nat : n <= Len(m) => a[n] = First(n)}
<1>2. 0 \in S
  BY <1>1
<1>3. ASSUME NEW n \in Nat, n \in S PROVE n + 1 \in S
  <2> SUFFICES ASSUME n + 1 <= Len(m) PROVE a[n + 1] = First(n + 1)
    OBVIOUS
  <2>1. n + 1 \in 1 .. Len(m) /\ (n + 1) - 1 = n /\ a[n] = First(n)
    BY <1>3
  <2>2. a[n + 1] = Append(a[n], m[n + 1].item)
    BY <1>1, <2>1 DEF Keep
  <2>3. \A i \in 1 .. n : m[i].item \in T
    BY <2>1, MarkedItem
  <2>4. First(n) \in Seq(T) /\ Len(First(n)) = n
    BY <2>3
  <2>5. Append(First(n), m[n + 1].item) = First(n + 1)
    OBVIOUS
  <2> QED BY <2>1, <2>2, <2>5
<1> HIDE DEF S
<1>4. Len(m) \in S
  BY <1>2, <1>3, Induction
<1> QED BY <1>1, <1>4 DEF S

-----------------------------------------------------------------------------
(***************************************************************************)
(* Lists of messages, rows of the database, and ends of lists.             *)
(***************************************************************************)
Messages == [chat : Peers, id : Nat, clear : BOOLEAN]
Stored   == [chat : Peers, id : Nat, sealed : Nat]

LEMMA AppendAsFunction ==
  ASSUME NEW T, NEW m \in Seq(T), NEW x \in T
  PROVE  Append(m, x) = [i \in 1 .. Len(m) + 1 |-> IF i = Len(m) + 1 THEN x ELSE m[i]]
<1> DEFINE u == Append(m, x)
<1>1. u \in Seq(T) /\ Len(u) = Len(m) + 1 /\ u[Len(m) + 1] = x
      /\ \A i \in 1 .. Len(m) : u[i] = m[i]
  OBVIOUS
<1> HIDE DEF u
<1>2. u = [i \in 1 .. Len(u) |-> u[i]]
  BY <1>1
<1>3. Len(m) \in Nat
  OBVIOUS
<1> QED BY <1>1, <1>2, <1>3 DEF u

Texts(list, refused) ==
  [i \in 1 .. Len(list) |-> [keep |-> list[i].id \notin refused \cup {0},
                            item |-> list[i].id]]

LEMMA TextsType ==
  ASSUME NEW list \in Seq(Messages), NEW refused
  PROVE  /\ Texts(list, refused) \in Seq(Marked(Nat))
         /\ Len(Texts(list, refused)) = Len(list)
         /\ NumbersOf(list, refused) = Kept(Texts(list, refused))
<1>1. Len(list) \in Nat
  OBVIOUS
<1>2. ASSUME NEW i \in 1 .. Len(list)
      PROVE  [keep |-> list[i].id \notin refused \cup {0}, item |-> list[i].id]
               \in Marked(Nat)
  <2>1. list[i] \in Messages OBVIOUS
  <2>2. list[i].id \in Nat BY <2>1 DEF Messages
  <2> QED BY <2>2 DEF Marked
<1>3. Texts(list, refused) \in Seq(Marked(Nat)) /\ Len(Texts(list, refused)) = Len(list)
  BY <1>1, <1>2 DEF Texts
<1> QED BY <1>3 DEF NumbersOf, Texts

LEMMA NumbersIn ==
  ASSUME NEW list \in Seq(Messages), NEW refused
  PROVE  /\ NumbersOf(list, refused) \in Seq(Nat)
         /\ \A j \in 1 .. Len(NumbersOf(list, refused)) :
              \E i \in 1 .. Len(list) : list[i].id = NumbersOf(list, refused)[j]
<1> DEFINE m == Texts(list, refused)
<1>1. m \in Seq(Marked(Nat)) /\ Len(m) = Len(list) /\ NumbersOf(list, refused) = Kept(m)
  BY TextsType
<1>2. \A i \in 1 .. Len(list) : m[i].item = list[i].id
  BY DEF Texts
<1> HIDE DEF m
<1> QED BY <1>1, <1>2, KeptIn

LEMMA NumbersEmpty ==
  ASSUME NEW refused
  PROVE  NumbersOf(<<>>, refused) = <<>>
<1>1. Texts(<<>>, refused) = <<>>
  BY DEF Texts
<1> QED BY <1>1, KeptEmpty DEF NumbersOf, Texts

LEMMA NumbersAppend ==
  ASSUME NEW list \in Seq(Messages), NEW e \in Messages, NEW refused
  PROVE  NumbersOf(Append(list, e), refused) =
           IF e.id \in refused \cup {0} THEN NumbersOf(list, refused)
           ELSE Append(NumbersOf(list, refused), e.id)
<1> DEFINE m == Texts(list, refused)
           x == [keep |-> e.id \notin refused \cup {0}, item |-> e.id]
<1>1. m \in Seq(Marked(Nat)) /\ Len(m) = Len(list) /\ NumbersOf(list, refused) = Kept(m)
  BY TextsType
<1>2. x \in Marked(Nat)
  BY DEF Messages, Marked
<1>3. Append(list, e) \in Seq(Messages)
  OBVIOUS
<1>4. Texts(Append(list, e), refused) = Append(m, x)
  <2>1. Len(Append(list, e)) = Len(list) + 1 /\ Append(list, e)[Len(list) + 1] = e
        /\ \A i \in 1 .. Len(list) : Append(list, e)[i] = list[i]
    OBVIOUS
  <2> DEFINE l == Append(list, e)
  <2> HIDE DEF l
  <2>2. Len(list) \in Nat /\ Len(l) = Len(list) + 1 /\ l[Len(list) + 1] = e
        /\ \A i \in 1 .. Len(list) : l[i] = list[i]
    BY <2>1 DEF l
  <2>3. Texts(l, refused) = [i \in 1 .. Len(list) + 1 |->
                               IF i = Len(list) + 1 THEN x ELSE m[i]]
    BY <2>2 DEF Texts
  <2> HIDE DEF m, x
  <2>4. Append(m, x) = [i \in 1 .. Len(list) + 1 |->
                          IF i = Len(list) + 1 THEN x ELSE m[i]]
    BY <1>1, <1>2, AppendAsFunction
  <2> QED BY <2>3, <2>4 DEF l
<1>5. NumbersOf(Append(list, e), refused) = Kept(Append(m, x))
  BY <1>3, <1>4, TextsType
<1>6. x.keep = (e.id \notin refused \cup {0}) /\ x.item = e.id
  OBVIOUS
<1> HIDE DEF m, x
<1>7. Kept(Append(m, x)) = IF x.keep THEN Append(Kept(m), x.item) ELSE Kept(m)
  BY <1>1, <1>2, KeptAppend
<1> QED BY <1>1, <1>5, <1>6, <1>7

LEMMA NumbersSame ==
  ASSUME NEW list \in Seq(Messages), NEW old, NEW new,
         \A i \in 1 .. Len(list) : list[i].id \in old <=> list[i].id \in new
  PROVE  NumbersOf(list, new) = NumbersOf(list, old)
<1>1. Texts(list, old) = Texts(list, new)
  BY DEF Texts
<1> QED BY <1>1 DEF NumbersOf, Texts

OfMarks(chat, list) ==
  [i \in 1 .. Len(list) |-> [keep |-> list[i].chat = chat, item |-> list[i]]]

LEMMA OfType ==
  ASSUME NEW list \in Seq(Messages), NEW chat
  PROVE  /\ OfMarks(chat, list) \in Seq(Marked(Messages))
         /\ Len(OfMarks(chat, list)) = Len(list)
         /\ Of(chat, list) = Kept(OfMarks(chat, list))
<1>1. Len(list) \in Nat
  OBVIOUS
<1>2. ASSUME NEW i \in 1 .. Len(list)
      PROVE  [keep |-> list[i].chat = chat, item |-> list[i]] \in Marked(Messages)
  <2>1. list[i] \in Messages OBVIOUS
  <2> QED BY <2>1 DEF Marked
<1>3. OfMarks(chat, list) \in Seq(Marked(Messages)) /\ Len(OfMarks(chat, list)) = Len(list)
  BY <1>1, <1>2 DEF OfMarks
<1> QED BY <1>3 DEF Of, OfMarks

LEMMA OfEmpty ==
  ASSUME NEW chat
  PROVE  Of(chat, <<>>) = <<>>
<1>1. OfMarks(chat, <<>>) = <<>>
  BY DEF OfMarks
<1> QED BY <1>1, KeptEmpty DEF Of, OfMarks

LEMMA OfAppend ==
  ASSUME NEW list \in Seq(Messages), NEW e \in Messages, NEW chat
  PROVE  Of(chat, Append(list, e)) =
           IF e.chat = chat THEN Append(Of(chat, list), e) ELSE Of(chat, list)
<1> DEFINE m == OfMarks(chat, list)
           x == [keep |-> e.chat = chat, item |-> e]
<1>1. m \in Seq(Marked(Messages)) /\ Len(m) = Len(list) /\ Of(chat, list) = Kept(m)
  BY OfType
<1>2. x \in Marked(Messages)
  BY DEF Marked
<1>3. Append(list, e) \in Seq(Messages)
  OBVIOUS
<1>4. OfMarks(chat, Append(list, e)) = Append(m, x)
  <2>1. Len(Append(list, e)) = Len(list) + 1 /\ Append(list, e)[Len(list) + 1] = e
        /\ \A i \in 1 .. Len(list) : Append(list, e)[i] = list[i]
    OBVIOUS
  <2> DEFINE l == Append(list, e)
  <2> HIDE DEF l
  <2>2. Len(list) \in Nat /\ Len(l) = Len(list) + 1 /\ l[Len(list) + 1] = e
        /\ \A i \in 1 .. Len(list) : l[i] = list[i]
    BY <2>1 DEF l
  <2>3. OfMarks(chat, l) = [i \in 1 .. Len(list) + 1 |->
                              IF i = Len(list) + 1 THEN x ELSE m[i]]
    BY <2>2 DEF OfMarks
  <2> HIDE DEF m, x
  <2>4. Append(m, x) = [i \in 1 .. Len(list) + 1 |->
                          IF i = Len(list) + 1 THEN x ELSE m[i]]
    BY <1>1, <1>2, AppendAsFunction
  <2> QED BY <2>3, <2>4 DEF l
<1>5. x.keep = (e.chat = chat) /\ x.item = e
  OBVIOUS
<1> HIDE DEF m, x
<1>6. Of(chat, Append(list, e)) = Kept(Append(m, x))
  BY <1>3, <1>4, OfType
<1>7. Kept(Append(m, x)) = IF x.keep THEN Append(Kept(m), x.item) ELSE Kept(m)
  BY <1>1, <1>2, KeptAppend
<1> QED BY <1>1, <1>5, <1>6, <1>7

LEMMA OfAll ==
  ASSUME NEW list \in Seq(Messages), NEW chat,
         \A i \in 1 .. Len(list) : list[i].chat = chat
  PROVE  Of(chat, list) = list
<1> DEFINE m == OfMarks(chat, list)
<1>1. m \in Seq(Marked(Messages)) /\ Len(m) = Len(list) /\ Of(chat, list) = Kept(m)
  BY OfType
<1>2. \A i \in 1 .. Len(list) : m[i].keep /\ m[i].item = list[i]
  BY DEF OfMarks
<1> HIDE DEF m
<1>3. Of(chat, list) = [i \in 1 .. Len(m) |-> m[i].item]
  BY <1>1, <1>2, KeptAll
<1>4. list = [i \in 1 .. Len(list) |-> list[i]]
  OBVIOUS
<1> QED BY <1>1, <1>2, <1>3, <1>4

\* The rows of a chat.
RowMarks(rows, chat) ==
  [i \in 1 .. Len(rows) |-> [keep |-> rows[i].chat = chat, item |-> rows[i].id]]
Rows(rows, chat) == Kept(RowMarks(rows, chat))

LEMMA RowsType ==
  ASSUME NEW rows \in Seq(Stored), NEW chat
  PROVE  /\ RowMarks(rows, chat) \in Seq(Marked(Nat))
         /\ Len(RowMarks(rows, chat)) = Len(rows)
         /\ Rows(rows, chat) \in Seq(Nat)
<1>1. Len(rows) \in Nat
  OBVIOUS
<1>2. ASSUME NEW i \in 1 .. Len(rows)
      PROVE  [keep |-> rows[i].chat = chat, item |-> rows[i].id] \in Marked(Nat)
  <2>1. rows[i] \in Stored OBVIOUS
  <2>2. rows[i].id \in Nat BY <2>1 DEF Stored
  <2> QED BY <2>2 DEF Marked
<1>3. RowMarks(rows, chat) \in Seq(Marked(Nat)) /\ Len(RowMarks(rows, chat)) = Len(rows)
  BY <1>1, <1>2 DEF RowMarks
<1> QED BY <1>3, KeptIn DEF Rows

LEMMA RowsAppend ==
  ASSUME NEW rows \in Seq(Stored), NEW e \in Stored, NEW chat
  PROVE  Rows(Append(rows, e), chat) =
           IF e.chat = chat THEN Append(Rows(rows, chat), e.id) ELSE Rows(rows, chat)
<1> DEFINE m == RowMarks(rows, chat)
           x == [keep |-> e.chat = chat, item |-> e.id]
<1>1. m \in Seq(Marked(Nat)) /\ Len(m) = Len(rows)
  BY RowsType
<1>2. x \in Marked(Nat)
  BY DEF Marked, Stored
<1>3. RowMarks(Append(rows, e), chat) = Append(m, x)
  <2>1. Len(Append(rows, e)) = Len(rows) + 1 /\ Append(rows, e)[Len(rows) + 1] = e
        /\ \A i \in 1 .. Len(rows) : Append(rows, e)[i] = rows[i]
    OBVIOUS
  <2> DEFINE l == Append(rows, e)
  <2> HIDE DEF l
  <2>2. Len(rows) \in Nat /\ Len(l) = Len(rows) + 1 /\ l[Len(rows) + 1] = e
        /\ \A i \in 1 .. Len(rows) : l[i] = rows[i]
    BY <2>1 DEF l
  <2>3. RowMarks(l, chat) = [i \in 1 .. Len(rows) + 1 |->
                               IF i = Len(rows) + 1 THEN x ELSE m[i]]
    BY <2>2 DEF RowMarks
  <2> HIDE DEF m, x
  <2>4. Append(m, x) = [i \in 1 .. Len(rows) + 1 |->
                          IF i = Len(rows) + 1 THEN x ELSE m[i]]
    BY <1>1, <1>2, AppendAsFunction
  <2> QED BY <2>3, <2>4 DEF l
<1>4. x.keep = (e.chat = chat) /\ x.item = e.id
  OBVIOUS
<1>5. Rows(rows, chat) = Kept(m) /\ Rows(Append(rows, e), chat) = Kept(Append(m, x))
  BY <1>3 DEF Rows
<1> HIDE DEF m, x
<1>6. Kept(Append(m, x)) = IF x.keep THEN Append(Kept(m), x.item) ELSE Kept(m)
  BY <1>1, <1>2, KeptAppend
<1> QED BY <1>4, <1>5, <1>6

\* A history that is loaded is of its chat, and all that is on disk of it.
LEMMA LoadFacts ==
  ASSUME store \in Seq(Stored), NEW chat \in Peers, enabled, NEW refused,
         \A i \in 1 .. Len(store) : store[i].id \notin refused \cup {0}
  PROVE  /\ LoadMessages(chat) \in Seq(Messages)
         /\ \A j \in 1 .. Len(LoadMessages(chat)) :
              /\ LoadMessages(chat)[j].chat = chat
              /\ \E i \in 1 .. Len(store) : LoadMessages(chat)[j].id = store[i].id
         /\ NumbersOf(LoadMessages(chat), refused) = Rows(store, chat)
<1> DEFINE m == [i \in 1 .. Len(store) |-> [keep |-> store[i].chat = chat,
                                           item |-> Loaded(i)]]
           l == RowMarks(store, chat)
           F == [x \in Messages |-> x.id]
           list == LoadMessages(chat)
<1>1. Len(store) \in Nat
  OBVIOUS
<1>2. ASSUME NEW i \in 1 .. Len(store)
      PROVE  /\ Loaded(i) \in Messages /\ store[i].id \in Nat
             /\ Loaded(i).chat = store[i].chat /\ Loaded(i).id = store[i].id
             /\ [keep |-> store[i].chat = chat, item |-> Loaded(i)] \in Marked(Messages)
  <2>1. store[i] \in Stored OBVIOUS
  <2>2. store[i].id \in Nat /\ store[i].chat \in Peers BY <2>1 DEF Stored
  <2>3. Loaded(i) \in Messages BY <2>2 DEF Loaded, Messages
  <2>4. Loaded(i).chat = store[i].chat /\ Loaded(i).id = store[i].id
    BY DEF Loaded
  <2> QED BY <2>2, <2>3, <2>4 DEF Marked
<1>3. m \in Seq(Marked(Messages)) /\ Len(m) = Len(store)
  BY <1>1, <1>2
<1>4. l \in Seq(Marked(Nat)) /\ Len(l) = Len(store)
  BY RowsType
<1>5. \A i \in 1 .. Len(m) :
        /\ l[i].keep = m[i].keep /\ l[i].item = F[m[i].item]
        /\ m[i].keep => m[i].item.chat = chat
        /\ m[i].item.id = store[i].id
  BY <1>2, <1>3 DEF RowMarks
<1>6. list = Kept(m)
  BY DEF LoadMessages
<1> HIDE DEF m, l
<1>7. Kept(m) \in Seq(Messages) /\ Len(Kept(l)) = Len(Kept(m))
      /\ \A j \in 1 .. Len(Kept(m)) :
           /\ Kept(l)[j] = F[Kept(m)[j]]
           /\ \E i \in 1 .. Len(m) : m[i].keep /\ m[i].item = Kept(m)[j]
  <2>1. /\ Len(l) = Len(m)
        /\ \A i \in 1 .. Len(m) : l[i].keep = m[i].keep /\ l[i].item = F[m[i].item]
    BY <1>3, <1>4, <1>5
  <2> HIDE DEF F
  <2>2. /\ Kept(m) \in Seq(Messages) /\ Kept(l) \in Seq(Nat)
        /\ Len(Kept(l)) = Len(Kept(m))
        /\ \A j \in 1 .. Len(Kept(m)) :
             /\ Kept(l)[j] = F[Kept(m)[j]]
             /\ \E i \in 1 .. Len(m) : m[i].keep /\ m[i].item = Kept(m)[j]
    BY <1>3, <1>4, <2>1, KeptPairs
  <2> QED BY <2>2
<1>8. ASSUME NEW j \in 1 .. Len(list)
      PROVE  /\ list[j].chat = chat
             /\ \E i \in 1 .. Len(store) : list[j].id = store[i].id
             /\ Kept(l)[j] = list[j].id /\ list[j] \in Messages
  <2> HIDE DEF list
  <2>1. PICK i \in 1 .. Len(m) : m[i].keep /\ m[i].item = list[j]
    BY <1>6, <1>7
  <2>2. list[j] \in Messages /\ Kept(l)[j] = F[list[j]]
    BY <1>6, <1>7
  <2> QED BY <1>3, <1>5, <2>1, <2>2
<1> HIDE DEF list, F
<1>9. Texts(list, refused) \in Seq(Marked(Nat))
      /\ Len(Texts(list, refused)) = Len(list)
      /\ NumbersOf(list, refused) = Kept(Texts(list, refused))
  BY <1>6, <1>7, TextsType
<1>10. \A j \in 1 .. Len(list) :
         Texts(list, refused)[j].keep /\ Texts(list, refused)[j].item = Kept(l)[j]
  BY <1>8 DEF Texts
<1>11. NumbersOf(list, refused) = [j \in 1 .. Len(list) |-> Kept(l)[j]]
  BY <1>9, <1>10, KeptAll
<1>12. Kept(l) \in Seq(Nat)
  BY <1>4, KeptIn
<1>13. Kept(l) = [j \in 1 .. Len(Kept(l)) |-> Kept(l)[j]]
  BY <1>12
<1> QED BY <1>6, <1>7, <1>8, <1>11, <1>13 DEF Rows, l, list

\* Being the end of another list.
Ends(s, t) == Len(s) <= Len(t) /\ s = SubSeq(t, Len(t) - Len(s) + 1, Len(t))

LEMMA EndsEmpty ==
  ASSUME NEW T, NEW t \in Seq(T)
  PROVE  Ends(<<>>, t)
BY DEF Ends

LEMMA EndsItself ==
  ASSUME NEW T, NEW t \in Seq(T)
  PROVE  Ends(t, t)
BY DEF Ends

LEMMA EndsAppend ==
  ASSUME NEW T, NEW s \in Seq(T), NEW t \in Seq(T), NEW e \in T, Ends(s, t)
  PROVE  Ends(Append(s, e), Append(t, e))
<1> DEFINE d == Len(t) - Len(s)
           u == Append(s, e)
           v == Append(t, e)
<1>1. Len(s) \in Nat /\ Len(t) \in Nat /\ d \in Nat /\ Len(s) = Len(t) - d
      /\ \A i \in 1 .. Len(s) : s[i] = t[d + i]
  BY DEF Ends
<1>2. u \in Seq(T) /\ Len(u) = Len(s) + 1 /\ u[Len(s) + 1] = e
      /\ \A i \in 1 .. Len(s) : u[i] = s[i]
  OBVIOUS
<1>3. v \in Seq(T) /\ Len(v) = Len(t) + 1 /\ v[Len(t) + 1] = e
      /\ \A i \in 1 .. Len(t) : v[i] = t[i]
  OBVIOUS
<1> HIDE DEF d, u, v
<1>4. \A i \in 1 .. Len(u) : u[i] = v[d + i]
  BY <1>1, <1>2, <1>3
<1>5. SubSeq(v, d + 1, Len(v)) = [i \in 1 .. Len(u) |-> v[d + i]]
  BY <1>1, <1>2, <1>3
<1>6. u = [i \in 1 .. Len(u) |-> u[i]]
  BY <1>2
<1>7. u = SubSeq(v, d + 1, Len(v))
  BY <1>4, <1>5, <1>6
<1>8. d = Len(v) - Len(u) /\ Len(u) <= Len(v)
  BY <1>1, <1>2, <1>3
<1> QED BY <1>7, <1>8 DEF Ends, u, v

-----------------------------------------------------------------------------
(***************************************************************************)
(* The inductive invariant, for what the window keeps and the network.     *)
(***************************************************************************)

\* The keys of the starts, none of which is ever taken from the settings.
Keys ==
  /\ opens \in Nat \ {0} /\ enabled \in BOOLEAN
  /\ key \in 0 .. opens /\ (enabled => key # 0)
  /\ saved \in [size : Nat, key : 0 .. opens] /\ saved.size # KeySize

\* The database has the messages that it has not refused.
Database ==
  /\ written \in Nat /\ unsaved \subseteq 1 .. written /\ faults \in 0 .. MaxFaults
  /\ store \in Seq(Stored)
  /\ \A i \in 1 .. Len(store) :
       store[i].id \in 1 .. written \ unsaved /\ store[i].sealed \in 1 .. opens
  /\ \A n \in 1 .. written \ unsaved : \E i \in 1 .. Len(store) : store[i].id = n

\* What is in RAM is filed under its chat, and is recent history.
Memory ==
  /\ ram \in [Peers -> Seq(Messages)]
  /\ \A p \in Peers : \A i \in 1 .. Len(ram[p]) :
       ram[p][i].chat = p /\ ram[p][i].id <= written
  /\ RamIsRecentHistory

\* The page that is open.
OpenPage ==
  /\ shown \in Seq(Messages) /\ (\A i \in 1 .. Len(shown) : shown[i].id <= written)
  /\ current \in Peers \cup {NoChat} /\ clientText \in Clients \cup {NoClient}
  /\ current # NoChat => clientText \in Clients
  /\ ShownIsComplete

\* A list of contacts next to what is in RAM: each has messages there, and the
\* fields "order", the places and the latest messages say the same.
Newest(mem, chat) == Last(NumbersOf(mem[chat], {}))
Listed(list, mem) ==
  /\ list \in Seq(Contacts)
  /\ \A i \in 1 .. Len(list) : NumbersOf(mem[list[i].chat], {}) # <<>>
  /\ \A i, j \in 1 .. Len(list) :
       i < j => /\ list[i].chat # list[j].chat /\ list[i].order < list[j].order
                /\ Newest(mem, list[i].chat) > Newest(mem, list[j].chat)

\* The open message boxes.  At most one message of the user is on its way,
\* posted or behind a box.
Boxes == [then : {"open", "sent", "nothing"}, client : Clients \cup {NoClient}]
OnItsWay(stack) == {i \in 1 .. Len(stack) : stack[i].then = "sent"}
Stacked(stack) ==
  /\ stack \in Seq(Boxes) /\ Len(stack) <= MaxDialogs
  /\ \A i \in 1 .. Len(stack) : stack[i].then # "nothing" => stack[i].client \in Clients
  /\ \A i, j \in OnItsWay(stack) : i = j

Events ==
  /\ online \subseteq Peers /\ connected \subseteq Clients
  /\ listening \in [Peers -> Ports]
  /\ queued \in Seq(Clients) /\ Stacked(dialogs)
  /\ queued # <<>> => OnItsWay(dialogs) = {}
  /\ written <= MaxMessages + 1
  /\ queued # <<>> \/ OnItsWay(dialogs) # {} => written <= MaxMessages

\* All of it.
WindowInv == Keys /\ Database /\ Memory /\ OpenPage /\ Listed(contacts, ram) /\ Events

-----------------------------------------------------------------------------
(***************************************************************************)
(* Database and memory, effect by effect.                                  *)
(***************************************************************************)
LEMMA RecentMeans ==
  /\ RamIsRecentHistory
       <=> \A p \in Peers : Ends(NumbersOf(ram[p], unsaved), Rows(store, p))
  /\ RamIsRecentHistory'
       <=> \A p \in Peers : Ends(NumbersOf(ram'[p], unsaved'), Rows(store', p))
<1>1. \A p \in Peers : OnDisk(p) = Rows(store, p) /\ OnDisk(p)' = Rows(store', p)
  BY DEF OnDisk, Rows, RowMarks
<1> QED BY <1>1 DEF RamIsRecentHistory, Ends

LEMMA SaveFacts ==
  ASSUME Keys, Database, NEW chat \in Peers, Save(chat)
  PROVE  /\ written' = written + 1 /\ faults' \in 0 .. MaxFaults
         /\ \/ /\ store' = Append(store, Row(chat)) /\ unsaved' = unsaved
               /\ Row(chat) \in Stored /\ Row(chat).sealed \in 1 .. opens
            \/ store' = store /\ unsaved' = unsaved \cup {written + 1}
<1>1. written' = written + 1 /\ written \in Nat /\ key \in 0 .. opens /\ opens \in Nat
  BY DEF Save, NextId, Keys, Database
<1>2. CASE enabled /\ store' = Append(store, Row(chat)) /\ UNCHANGED <<unsaved, faults>>
  <2>1. key \in 1 .. opens
    BY <1>1, <1>2 DEF Keys
  <2>2. Row(chat) \in Stored /\ Row(chat).sealed \in 1 .. opens
    BY <1>1, <2>1 DEF Row, Stored, NextId
  <2> QED BY <1>1, <1>2, <2>2 DEF Database
<1>3. CASE /\ ~enabled \/ MayFail
           /\ unsaved' = unsaved \cup {NextId}
           /\ faults'  = (IF enabled THEN faults + 1 ELSE faults)
           /\ UNCHANGED store
  <2>1. faults' \in 0 .. MaxFaults
    BY <1>3, BoundsAssumption DEF Database, MayFail
  <2> QED BY <1>1, <1>3, <2>1 DEF NextId
<1> QED BY <1>2, <1>3 DEF Save

LEMMA SaveKeepsDatabase ==
  ASSUME Keys, Database, NEW chat \in Peers, Save(chat), UNCHANGED keys
  PROVE  Database'
<1>1. /\ written \in Nat /\ unsaved \subseteq 1 .. written /\ store \in Seq(Stored)
      /\ \A i \in 1 .. Len(store) :
           store[i].id \in 1 .. written \ unsaved /\ store[i].sealed \in 1 .. opens
      /\ \A n \in 1 .. written \ unsaved : \E i \in 1 .. Len(store) : store[i].id = n
  BY DEF Database
<1>2. written' = written + 1 /\ faults' \in 0 .. MaxFaults /\ opens' = opens
  BY SaveFacts DEF keys
<1>3. CASE /\ store' = Append(store, Row(chat)) /\ unsaved' = unsaved
           /\ Row(chat) \in Stored /\ Row(chat).sealed \in 1 .. opens
  <2>1. /\ store' \in Seq(Stored) /\ Len(store') = Len(store) + 1
        /\ store'[Len(store) + 1] = Row(chat)
        /\ \A i \in 1 .. Len(store) : store'[i] = store[i]
    BY <1>1, <1>3
  <2>2. Row(chat).id = written + 1
    BY DEF Row, NextId
  <2>3. \A i \in 1 .. Len(store') :
          store'[i].id \in 1 .. written' \ unsaved' /\ store'[i].sealed \in 1 .. opens'
    BY <1>1, <1>2, <1>3, <2>1, <2>2
  <2>4. ASSUME NEW n \in 1 .. written' \ unsaved'
        PROVE  \E i \in 1 .. Len(store') : store'[i].id = n
    <3>1. CASE n = written + 1
      BY <2>1, <2>2, <3>1
    <3>2. CASE n # written + 1
      <4>1. n \in 1 .. written \ unsaved
        BY <1>1, <1>2, <1>3, <3>2
      <4>2. PICK i \in 1 .. Len(store) : store[i].id = n
        BY <1>1, <4>1
      <4> QED BY <2>1, <4>2
    <3> QED BY <3>1, <3>2
  <2> QED BY <1>1, <1>2, <1>3, <2>1, <2>3, <2>4 DEF Database
<1>4. CASE store' = store /\ unsaved' = unsaved \cup {written + 1}
  <2>1. /\ 1 .. written' \ unsaved' = 1 .. written \ unsaved
        /\ unsaved' \subseteq 1 .. written' /\ written' \in Nat
    BY <1>1, <1>2, <1>4
  <2>2. /\ store' \in Seq(Stored)
        /\ \A i \in 1 .. Len(store') :
             store'[i].id \in 1 .. written' \ unsaved' /\ store'[i].sealed \in 1 .. opens'
        /\ \A n \in 1 .. written' \ unsaved' : \E i \in 1 .. Len(store') : store'[i].id = n
    BY <1>1, <1>2, <1>4, <2>1
  <2> QED BY <1>2, <2>1, <2>2 DEF Database
<1> QED BY <1>3, <1>4, SaveFacts

\* A message of a chat is added to what is in RAM and saved, or refused.
LEMMA RamAfterMessage ==
  ASSUME Keys, Database, Memory, NEW chat \in Peers, Save(chat),
         ram' = [ram EXCEPT ![chat] = Append(@, Message(chat))]
  PROVE  /\ Memory'
         /\ Message(chat) \in Messages /\ Message(chat).id = written + 1
         /\ \A p \in Peers :
              NumbersOf(ram'[p], {}) = IF p = chat
                                       THEN Append(NumbersOf(ram[p], {}), written + 1)
                                       ELSE NumbersOf(ram[p], {})
<1> DEFINE e == Message(chat)
           w == written + 1
<1>1. /\ written \in Nat /\ unsaved \subseteq 1 .. written /\ store \in Seq(Stored)
      /\ written' = w
  BY SaveFacts DEF Database
<1>2. e \in Messages /\ e.id = w /\ e.chat = chat
  BY <1>1 DEF Message, NextId, Messages
<1>3. /\ ram \in [Peers -> Seq(Messages)]
      /\ \A p \in Peers : ram[p] \in Seq(Messages)
      /\ \A p \in Peers : \A i \in 1 .. Len(ram[p]) :
           ram[p][i].chat = p /\ ram[p][i].id <= written /\ ram[p][i].id \in Nat
  <2>1. \A p \in Peers : \A i \in 1 .. Len(ram[p]) : ram[p][i] \in Messages
    BY DEF Memory
  <2> QED BY <2>1 DEF Memory, Messages
<1> HIDE DEF e
<1>4. /\ \A p \in Peers : p # chat => ram'[p] = ram[p]
      /\ ram'[chat] = Append(ram[chat], e)
  BY <1>3 DEF e
<1>5. ram' \in [Peers -> Seq(Messages)]
  <2>1. Append(ram[chat], e) \in Seq(Messages)
    BY <1>2, <1>3
  <2> QED BY <1>3, <2>1 DEF e
<1>6. ASSUME NEW p \in Peers, NEW i \in 1 .. Len(ram'[p])
      PROVE  ram'[p][i].chat = p /\ ram'[p][i].id <= written'
  <2>1. CASE p # chat
    BY <1>1, <1>3, <1>4, <2>1
  <2>2. CASE p = chat
    <3>1. /\ Len(ram'[p]) = Len(ram[p]) + 1 /\ ram'[p][Len(ram[p]) + 1] = e
          /\ \A k \in 1 .. Len(ram[p]) : ram'[p][k] = ram[p][k]
      BY <1>2, <1>3, <1>4, <2>2
    <3> QED BY <1>1, <1>2, <1>3, <2>2, <3>1
  <2> QED BY <2>1, <2>2
<1>7. ASSUME NEW p \in Peers
      PROVE  Ends(NumbersOf(ram'[p], unsaved'), Rows(store', p))
  <2>1. Ends(NumbersOf(ram[p], unsaved), Rows(store, p))
    BY RecentMeans DEF Memory
  <2>2. NumbersOf(ram[p], unsaved) \in Seq(Nat) /\ Rows(store, p) \in Seq(Nat)
    BY <1>1, <1>3, NumbersIn, RowsType
  <2>3. CASE /\ store' = Append(store, Row(chat)) /\ unsaved' = unsaved
             /\ Row(chat) \in Stored
    <3>1. Row(chat).chat = chat /\ Row(chat).id = w
      BY DEF Row, NextId
    <3>2. w \notin unsaved \cup {0} /\ w \in Nat
      BY <1>1
    <3>3. CASE p = chat
      <4>1. NumbersOf(ram'[p], unsaved') = Append(NumbersOf(ram[p], unsaved), w)
        BY <1>2, <1>3, <1>4, <2>3, <3>2, <3>3, NumbersAppend
      <4>2. Rows(store', p) = Append(Rows(store, p), w)
        BY <1>1, <2>3, <3>1, <3>3, RowsAppend
      <4> QED BY <2>1, <2>2, <3>2, <4>1, <4>2, EndsAppend
    <3>4. CASE p # chat
      <4>1. Rows(store', p) = Rows(store, p)
        BY <1>1, <2>3, <3>1, <3>4, RowsAppend
      <4> QED BY <1>4, <2>1, <2>3, <3>4, <4>1
    <3> QED BY <3>3, <3>4
  <2>4. CASE store' = store /\ unsaved' = unsaved \cup {w}
    <3>1. NumbersOf(ram[p], unsaved') = NumbersOf(ram[p], unsaved)
      <4>1. \A i \in 1 .. Len(ram[p]) : ram[p][i].id \in unsaved <=> ram[p][i].id \in unsaved'
        BY <1>1, <1>3, <2>4
      <4> QED BY <1>3, <4>1, NumbersSame
    <3>2. NumbersOf(ram'[p], unsaved') = NumbersOf(ram[p], unsaved')
      BY <1>2, <1>3, <1>4, <2>4, NumbersAppend
    <3> QED BY <2>1, <2>4, <3>1, <3>2
  <2> QED BY <2>3, <2>4, SaveFacts
<1>8. ASSUME NEW p \in Peers
      PROVE  NumbersOf(ram'[p], {}) = IF p = chat
                                      THEN Append(NumbersOf(ram[p], {}), written + 1)
                                      ELSE NumbersOf(ram[p], {})
  <2>1. w \notin {} \cup {0}
    BY <1>1
  <2>2. CASE p = chat
    BY <1>2, <1>3, <1>4, <2>1, <2>2, NumbersAppend
  <2>3. CASE p # chat
    BY <1>4, <2>3
  <2> QED BY <2>2, <2>3
<1> QED BY <1>2, <1>5, <1>6, <1>7, <1>8, RecentMeans DEF Memory, e

\* A notice is added to what is in RAM, and to no history.
LEMMA RamAfterNotice ==
  ASSUME Database, Memory, NEW chat \in Peers, UNCHANGED disk,
         ram' = [ram EXCEPT ![chat] = Append(@, Notice(chat))]
  PROVE  /\ Memory' /\ Notice(chat) \in Messages /\ Notice(chat).id = 0
         /\ \A p \in Peers : NumbersOf(ram'[p], {}) = NumbersOf(ram[p], {})
<1> DEFINE e == Notice(chat)
<1>1. /\ written \in Nat /\ written' = written /\ unsaved' = unsaved /\ store' = store
  BY DEF Database, disk
<1>2. e \in Messages /\ e.id = 0 /\ e.chat = chat
  BY DEF Notice, Messages
<1>3. /\ ram \in [Peers -> Seq(Messages)]
      /\ \A p \in Peers : ram[p] \in Seq(Messages)
      /\ \A p \in Peers : \A i \in 1 .. Len(ram[p]) :
           ram[p][i].chat = p /\ ram[p][i].id <= written
  BY DEF Memory
<1> HIDE DEF e
<1>4. /\ \A p \in Peers : p # chat => ram'[p] = ram[p]
      /\ ram'[chat] = Append(ram[chat], e)
  BY <1>3 DEF e
<1>5. ram' \in [Peers -> Seq(Messages)]
  <2>1. Append(ram[chat], e) \in Seq(Messages)
    BY <1>2, <1>3
  <2> QED BY <1>3, <2>1 DEF e
<1>6. ASSUME NEW p \in Peers, NEW i \in 1 .. Len(ram'[p])
      PROVE  ram'[p][i].chat = p /\ ram'[p][i].id <= written'
  <2>1. CASE p # chat
    BY <1>1, <1>3, <1>4, <2>1
  <2>2. CASE p = chat
    <3>1. /\ Len(ram'[p]) = Len(ram[p]) + 1 /\ ram'[p][Len(ram[p]) + 1] = e
          /\ \A k \in 1 .. Len(ram[p]) : ram'[p][k] = ram[p][k]
      BY <1>2, <1>3, <1>4, <2>2
    <3> QED BY <1>1, <1>2, <1>3, <2>2, <3>1
  <2> QED BY <2>1, <2>2
<1>7. ASSUME NEW p \in Peers, NEW refused
      PROVE  NumbersOf(ram'[p], refused) = NumbersOf(ram[p], refused)
  BY <1>2, <1>3, <1>4, NumbersAppend
<1>8. RamIsRecentHistory'
  BY <1>1, <1>7, RecentMeans DEF Memory
<1> QED BY <1>2, <1>5, <1>6, <1>7, <1>8 DEF Memory, e

\* What is loaded if there is nothing in RAM is what is on disk.
LEMMA RamAfterOpening ==
  ASSUME Keys, Database, Memory, NEW chat \in Peers,
         UNCHANGED <<store, written, unsaved>>,
         ram' = [ram EXCEPT ![chat] = WithHistory(chat)]
  PROVE  /\ Memory'
         /\ \A p \in Peers : ram[p] # <<>> => ram'[p] = ram[p]
         /\ \A p \in Peers : p # chat => ram'[p] = ram[p]
         /\ ram'[chat] = WithHistory(chat)
<1>1. /\ written \in Nat /\ store \in Seq(Stored)
      /\ \A i \in 1 .. Len(store) :
           store[i].id \notin unsaved \cup {0} /\ store[i].id <= written
  BY DEF Database
<1>2. /\ ram \in [Peers -> Seq(Messages)]
      /\ \A p \in Peers : ram[p] \in Seq(Messages)
      /\ \A p \in Peers : \A i \in 1 .. Len(ram[p]) :
           ram[p][i].chat = p /\ ram[p][i].id <= written
      /\ \A p \in Peers : Ends(NumbersOf(ram[p], unsaved), Rows(store, p))
  BY RecentMeans DEF Memory
<1> DEFINE list == WithHistory(chat)
<1>3. /\ list \in Seq(Messages) /\ (ram[chat] # <<>> => list = ram[chat])
      /\ \A i \in 1 .. Len(list) : list[i].chat = chat /\ list[i].id <= written
      /\ Ends(NumbersOf(list, unsaved), Rows(store, chat))
  <2>1. CASE ram[chat] # <<>>
    BY <1>2, <2>1 DEF WithHistory
  <2>2. CASE ram[chat] = <<>> /\ ~enabled
    <3>1. list = <<>>
      BY <2>2 DEF WithHistory, LoadMessages
    <3> QED BY <1>2, <2>2, <3>1
  <2>3. CASE ram[chat] = <<>> /\ enabled
    <3>1. list = LoadMessages(chat)
      BY <2>3 DEF WithHistory
    <3> HIDE DEF list
    <3>2. /\ list \in Seq(Messages)
          /\ \A j \in 1 .. Len(list) :
               list[j].chat = chat /\ \E i \in 1 .. Len(store) : list[j].id = store[i].id
          /\ NumbersOf(list, unsaved) = Rows(store, chat)
      <4>1. \A i \in 1 .. Len(store) : store[i].id \notin unsaved \cup {0}
        BY <1>1
      <4>2. enabled
        BY <2>3
      <4> QED BY <1>1, <3>1, <4>1, <4>2, LoadFacts
    <3>3. Ends(NumbersOf(list, unsaved), Rows(store, chat))
      BY <1>1, <3>2, RowsType, EndsItself
    <3> QED BY <1>1, <2>3, <3>2, <3>3
  <2>4. enabled \in BOOLEAN
    BY DEF Keys
  <2> QED BY <2>1, <2>2, <2>3, <2>4
<1> HIDE DEF list
<1>4. /\ \A p \in Peers : p # chat => ram'[p] = ram[p]
      /\ ram'[chat] = list /\ ram' \in [Peers -> Seq(Messages)]
  BY <1>2, <1>3 DEF list
<1>5. \A p \in Peers : \A i \in 1 .. Len(ram'[p]) :
        ram'[p][i].chat = p /\ ram'[p][i].id <= written'
  BY <1>2, <1>3, <1>4
<1>6. RamIsRecentHistory'
  <2>1. \A p \in Peers : Ends(NumbersOf(ram'[p], unsaved'), Rows(store', p))
    BY <1>2, <1>3, <1>4
  <2> QED BY <2>1, RecentMeans
<1> QED BY <1>3, <1>4, <1>5, <1>6 DEF Memory, list

-----------------------------------------------------------------------------
(***************************************************************************)
(* The contact list.                                                       *)
(***************************************************************************)

LEMMA ContactFields ==
  ASSUME NEW list \in Seq(Contacts)
  PROVE  /\ Len(list) \in Nat
         /\ \A i \in 1 .. Len(list) :
              /\ list[i] \in Contacts
              /\ list[i].chat \in Peers /\ list[i].client \in Clients
              /\ list[i].order \in Nat /\ list[i].active \in BOOLEAN
<1>1. \A i \in 1 .. Len(list) : list[i] \in Contacts
  OBVIOUS
<1> QED BY <1>1 DEF Contacts

\* s holds the contacts of the list, each once, by rising order.
Arranged(s, list) ==
  /\ s \in Seq(Contacts) /\ Len(s) = Len(list)
  /\ \E from \in [1 .. Len(list) -> 1 .. Len(list)] :
       /\ \A i \in 1 .. Len(list) : s[i] = list[from[i]]
       /\ \A i, j \in 1 .. Len(list) :
            i < j => from[i] # from[j] /\ list[from[i]].order <= list[from[j]].order

\* A list in which one contact has the order 0, and the others the orders of
\* their places, is sorted: ByOrder finds an arrangement, and that is one.
LEMMA Sorted ==
  ASSUME NEW list \in Seq(Contacts), NEW k \in 1 .. Len(list), list[k].order = 0,
         \A i \in 1 .. Len(list) : i # k => list[i].order > 0,
         \A i, j \in 1 .. Len(list) :
           i < j /\ i # k /\ j # k => list[i].order < list[j].order
  PROVE  Arranged(ByOrder(list), list)
<1> DEFINE n == Len(list)
           places == 1 .. n
           Fits(f) == \A i, j \in places :
                        i < j => f[i] # f[j] /\ list[f[i]].order <= list[f[j]].order
           w == [i \in places |-> IF i = 1 THEN k ELSE IF i <= k THEN i - 1 ELSE i]
           from == CHOOSE f \in [places -> places] : Fits(f)
<1>1. n \in Nat /\ k \in places
  OBVIOUS
<1>2. \A i \in places : list[i] \in Contacts /\ list[i].order \in Nat
  BY ContactFields
<1>3. w \in [places -> places]
  BY <1>1
<1>4. Fits(w)
  <2> SUFFICES ASSUME NEW i \in places, NEW j \in places, i < j
               PROVE  w[i] # w[j] /\ list[w[i]].order <= list[w[j]].order
    OBVIOUS
  <2>1. j # 1 /\ i \in Nat /\ j \in Nat /\ k \in Nat
    BY <1>1
  <2>2. w[j] = (IF j <= k THEN j - 1 ELSE j) /\ w[j] \in places /\ w[j] # k
    BY <1>1, <2>1
  <2>3. CASE i = 1
    <3>1. w[i] = k
      BY <2>3
    <3> HIDE DEF w
    <3> QED BY <1>2, <2>2, <3>1
  <2>4. CASE i # 1
    <3>1. w[i] = (IF i <= k THEN i - 1 ELSE i) /\ w[i] \in places /\ w[i] # k
      BY <1>1, <2>1, <2>4
    <3> HIDE DEF w
    <3>2. w[i] < w[j]
      BY <1>1, <2>1, <2>2, <3>1
    <3>3. list[w[i]].order < list[w[j]].order
      BY <2>2, <3>1, <3>2
    <3>4. list[w[i]].order \in Nat /\ list[w[j]].order \in Nat
      BY <1>2, <2>2, <3>1
    <3> QED BY <1>1, <2>2, <3>1, <3>2, <3>3, <3>4
  <2> QED BY <2>3, <2>4
<1> HIDE DEF w
<1>5. from \in [places -> places] /\ Fits(from)
  <2> HIDE DEF Fits
  <2> QED BY <1>3, <1>4
<1>6. ByOrder(list) = [i \in places |-> list[from[i]]]
  BY DEF ByOrder
<1> HIDE DEF from
<1>7. /\ ByOrder(list) \in Seq(Contacts) /\ Len(ByOrder(list)) = n
      /\ \A i \in places : ByOrder(list)[i] = list[from[i]]
  <2>1. \A i \in places : list[from[i]] \in Contacts
    BY <1>2, <1>5
  <2> QED BY <1>1, <1>6, <2>1
<1> QED BY <1>5, <1>7 DEF Arranged

\* The list after a message of a chat that is not at its top.
LEMMA ToTheTop ==
  ASSUME NEW mem, NEW list \in Seq(Contacts), NEW k \in 1 .. Len(list),
         list[k].order = 0,
         \A i \in 1 .. Len(list) : NumbersOf(mem[list[i].chat], {}) # <<>>,
         \A i \in 1 .. Len(list) :
           i # k => /\ list[i].order > 0 /\ list[i].chat # list[k].chat
                    /\ Newest(mem, list[k].chat) > Newest(mem, list[i].chat),
         \A i, j \in 1 .. Len(list) :
           i < j /\ i # k /\ j # k =>
             /\ list[i].chat # list[j].chat /\ list[i].order < list[j].order
             /\ Newest(mem, list[i].chat) > Newest(mem, list[j].chat)
  PROVE  Listed(ByOrder(list), mem)
<1> DEFINE n == Len(list)
<1>1. n \in Nat /\ \A i \in 1 .. n : list[i].order \in Nat
  BY ContactFields
<1>2. Arranged(ByOrder(list), list)
  <2>1. \A i \in 1 .. Len(list) : i # k => list[i].order > 0
    OBVIOUS
  <2>2. \A i, j \in 1 .. Len(list) :
          i < j /\ i # k /\ j # k => list[i].order < list[j].order
    OBVIOUS
  <2> HIDE DEF n
  <2> QED BY <2>1, <2>2, Sorted
<1> DEFINE s == ByOrder(list)
<1> HIDE DEF s
<1>3. PICK from \in [1 .. n -> 1 .. n] :
        /\ s \in Seq(Contacts) /\ Len(s) = n
        /\ \A i \in 1 .. n : s[i] = list[from[i]]
        /\ \A i, j \in 1 .. n :
             i < j => from[i] # from[j] /\ list[from[i]].order <= list[from[j]].order
  BY <1>2 DEF Arranged, s
<1>4. ASSUME NEW i \in 1 .. Len(s)
      PROVE  NumbersOf(mem[s[i].chat], {}) # <<>>
  <2>1. i \in 1 .. n /\ from[i] \in 1 .. n /\ s[i] = list[from[i]]
    BY <1>3
  <2> QED BY <2>1
<1>5. ASSUME NEW i \in 1 .. Len(s), NEW j \in 1 .. Len(s), i < j
      PROVE  /\ s[i].chat # s[j].chat /\ s[i].order < s[j].order
             /\ Newest(mem, s[i].chat) > Newest(mem, s[j].chat)
  <2> DEFINE x == from[i]
             y == from[j]
  <2>1. x \in 1 .. n /\ y \in 1 .. n /\ x # y /\ list[x].order <= list[y].order
        /\ s[i] = list[x] /\ s[j] = list[y]
    BY <1>3, <1>5
  <2> HIDE DEF x, y
  <2>2. CASE x = k
    BY <1>1, <2>1, <2>2
  <2>3. CASE x # k
    <3>1. y # k
      <4> SUFFICES ASSUME y = k PROVE FALSE
        OBVIOUS
      <4>1. list[x].order > 0 /\ list[y].order = 0 /\ list[x].order \in Nat
        BY <1>1, <2>1, <2>3
      <4> QED BY <2>1, <4>1
    <3>2. x < y
      <4> SUFFICES ASSUME ~(x < y) PROVE FALSE
        OBVIOUS
      <4>1. y < x /\ x \in Nat /\ y \in Nat
        BY <1>1, <2>1
      <4>2. list[y].order < list[x].order
        BY <2>1, <2>3, <3>1, <4>1
      <4> QED BY <1>1, <2>1, <4>2
    <3> QED BY <2>1, <2>3, <3>1, <3>2
  <2> QED BY <2>2, <2>3
<1> QED BY <1>3, <1>4, <1>5 DEF Listed, s

\* onNewMessage, for a message that has become the newest of its chat and of
\* all chats.
LEMMA NewMessageListed ==
  ASSUME NEW mem, NEW new, NEW c \in Clients, Listed(contacts, mem),
         NumbersOf(new[ChatOf(c)], {}) # <<>>,
         \A p \in Peers : p # ChatOf(c) =>
           NumbersOf(new[p], {}) = NumbersOf(mem[p], {}),
         \A p \in Peers : p # ChatOf(c) /\ NumbersOf(mem[p], {}) # <<>> =>
           Newest(new, ChatOf(c)) > Newest(mem, p)
  PROVE  Listed(OnNewMessage(c), new)
<1> DEFINE chat == ChatOf(c)
           n == Len(contacts)
           low == Lowered(contacts)
<1>1. /\ contacts \in Seq(Contacts) /\ n \in Nat
      /\ \A i \in 1 .. n : contacts[i] \in Contacts
      /\ \A i \in 1 .. n : /\ contacts[i].chat \in Peers /\ contacts[i].order \in Nat
                           /\ contacts[i].client \in Clients
                           /\ contacts[i].active \in BOOLEAN
  BY ContactFields DEF Listed
<1>2. chat \in Peers
  BY DEF Clients, ChatOf
<1>3. \A i \in 1 .. n : NumbersOf(new[contacts[i].chat], {}) # <<>>
  BY <1>1 DEF Listed
<1>4. \A i \in 1 .. n : contacts[i].chat # chat =>
        /\ Newest(new, contacts[i].chat) = Newest(mem, contacts[i].chat)
        /\ Newest(new, chat) > Newest(new, contacts[i].chat)
  BY <1>1 DEF Listed, Newest
<1>5. /\ low \in Seq(Contacts) /\ Len(low) = n
      /\ \A i \in 1 .. n : /\ low[i].chat = contacts[i].chat
                           /\ low[i].order = contacts[i].order + 1
                           /\ low[i] \in Contacts
  <2>1. \A i \in 1 .. n : low[i] = [contacts[i] EXCEPT !.order = @ + 1]
    BY DEF Lowered
  <2>2. \A i \in 1 .. n : low[i] = [chat   |-> contacts[i].chat,
                                   client |-> contacts[i].client,
                                   order  |-> contacts[i].order + 1,
                                   active |-> contacts[i].active]
    BY <1>1, <2>1 DEF Contacts
  <2>3. ASSUME NEW i \in 1 .. n
        PROVE  /\ low[i].chat = contacts[i].chat
               /\ low[i].order = contacts[i].order + 1
               /\ low[i] \in Contacts
    <3>1. low[i] = [chat |-> contacts[i].chat, client |-> contacts[i].client,
                    order |-> contacts[i].order + 1, active |-> contacts[i].active]
      BY <2>2
    <3> HIDE DEF low
    <3>2. /\ contacts[i].chat \in Peers /\ contacts[i].order + 1 \in Nat
          /\ contacts[i].client \in Clients /\ contacts[i].active \in BOOLEAN
      BY <1>1
    <3> QED BY <3>1, <3>2 DEF Contacts
  <2>4. low = [i \in 1 .. n |-> low[i]]
    BY DEF Lowered
  <2> HIDE DEF low
  <2>5. low \in Seq(Contacts) /\ Len(low) = n
    BY <1>1, <2>3, <2>4
  <2> QED BY <2>3, <2>5
<1>6. \A i, j \in 1 .. n :
        i < j => /\ low[i].chat # low[j].chat /\ low[i].order < low[j].order
                 /\ low[i].chat # chat /\ low[j].chat # chat =>
                      Newest(new, low[i].chat) > Newest(new, low[j].chat)
  <2> HIDE DEF low, chat
  <2> SUFFICES ASSUME NEW i \in 1 .. n, NEW j \in 1 .. n, i < j
               PROVE  /\ low[i].chat # low[j].chat /\ low[i].order < low[j].order
                      /\ low[i].chat # chat /\ low[j].chat # chat =>
                           Newest(new, low[i].chat) > Newest(new, low[j].chat)
    OBVIOUS
  <2>1. /\ contacts[i].chat # contacts[j].chat
        /\ contacts[i].order < contacts[j].order
        /\ Newest(mem, contacts[i].chat) > Newest(mem, contacts[j].chat)
    BY DEF Listed
  <2>2. /\ low[i].chat = contacts[i].chat /\ low[i].order = contacts[i].order + 1
        /\ low[j].chat = contacts[j].chat /\ low[j].order = contacts[j].order + 1
        /\ contacts[i].order \in Nat /\ contacts[j].order \in Nat
    BY <1>1, <1>5
  <2> QED BY <1>4, <2>1, <2>2
<1> HIDE DEF chat, low
<1>7. CASE Indices(chat) = {}
  <2> DEFINE x == NewContact(c)
             list == Append(low, x)
  <2>1. x \in Contacts /\ x.chat = chat /\ x.order = 0
    BY <1>2 DEF NewContact, Contacts, chat
  <2> HIDE DEF x
  <2>2. /\ list \in Seq(Contacts) /\ Len(list) = n + 1 /\ list[n + 1] = x
        /\ \A i \in 1 .. n : list[i] = low[i]
    BY <1>5, <2>1
  <2> HIDE DEF list
  <2>3. \A i \in 1 .. n : contacts[i].chat # chat
    BY <1>7 DEF Indices
  <2>4. n + 1 \in 1 .. Len(list) /\ \A i \in 1 .. Len(list) : i # n + 1 => i \in 1 .. n
    BY <1>1, <2>2
  <2>5. \A i \in 1 .. Len(list) : NumbersOf(new[list[i].chat], {}) # <<>>
    BY <1>3, <1>5, <2>1, <2>2, <2>4 DEF chat
  <2>6. \A i \in 1 .. Len(list) :
          i # n + 1 => /\ list[i].order > 0 /\ list[i].chat # list[n + 1].chat
                       /\ Newest(new, list[n + 1].chat) > Newest(new, list[i].chat)
    <3> SUFFICES ASSUME NEW i \in 1 .. n
                 PROVE  /\ list[i].order > 0 /\ list[i].chat # list[n + 1].chat
                        /\ Newest(new, list[n + 1].chat) > Newest(new, list[i].chat)
      BY <2>4
    <3>1. /\ list[i].chat = contacts[i].chat /\ list[n + 1].chat = chat
          /\ list[i].order = contacts[i].order + 1 /\ contacts[i].order \in Nat
      BY <1>1, <1>5, <2>1, <2>2
    <3> QED BY <1>4, <2>3, <3>1
  <2>7. \A i, j \in 1 .. Len(list) :
          i < j /\ i # n + 1 /\ j # n + 1 =>
            /\ list[i].chat # list[j].chat /\ list[i].order < list[j].order
            /\ Newest(new, list[i].chat) > Newest(new, list[j].chat)
    BY <1>5, <1>6, <2>2, <2>3, <2>4
  <2>8. list[n + 1].order = 0
    BY <2>1, <2>2
  <2>9. Listed(ByOrder(list), new)
    BY <2>2, <2>4, <2>5, <2>6, <2>7, <2>8, ToTheTop
  <2> QED BY <1>7, <2>9 DEF OnNewMessage, chat, list, low, x
<1>8. CASE Indices(chat) # {}
  <2> DEFINE k == CHOOSE j \in Indices(chat) : TRUE
  <2>1. k \in 1 .. n /\ contacts[k].chat = chat
    <3>1. k \in Indices(chat)
      BY <1>8
    <3> QED BY <3>1 DEF Indices
  <2>2. OnNewMessage(c) = IF k = 1 THEN contacts
                          ELSE ByOrder([low EXCEPT ![k].order = 0])
    BY <1>8 DEF OnNewMessage, chat, low
  <2> HIDE DEF k
  <2>3. \A i \in 1 .. n : i # k => contacts[i].chat # chat
    BY <1>1, <2>1 DEF Listed
  <2>4. CASE k = 1
    <3>1. ASSUME NEW i \in 1 .. n, NEW j \in 1 .. n, i < j
          PROVE  /\ contacts[i].chat # contacts[j].chat
                 /\ contacts[i].order < contacts[j].order
                 /\ Newest(new, contacts[i].chat) > Newest(new, contacts[j].chat)
      <4>1. /\ contacts[i].chat # contacts[j].chat
            /\ contacts[i].order < contacts[j].order
            /\ Newest(mem, contacts[i].chat) > Newest(mem, contacts[j].chat)
        BY <3>1 DEF Listed
      <4>2. j # 1
        BY <1>1, <3>1
      <4>3. contacts[j].chat # chat
        BY <2>3, <2>4, <4>2
      <4> QED BY <1>4, <2>1, <4>1, <4>3
    <3> QED BY <1>1, <1>3, <2>2, <2>4, <3>1 DEF Listed
  <2>5. CASE k # 1
    <3> DEFINE list == [low EXCEPT ![k].order = 0]
    <3>1. /\ list \in Seq(Contacts) /\ Len(list) = n
          /\ \A i \in 1 .. n : i # k => list[i] = low[i]
          /\ list[k].order = 0 /\ list[k].chat = chat
      <4>1. low[k] \in Contacts /\ low[k].chat = chat
        BY <1>5, <2>1
      <4>2. [low[k] EXCEPT !.order = 0] \in Contacts
        BY <4>1 DEF Contacts
      <4>3. list = [low EXCEPT ![k] = [low[k] EXCEPT !.order = 0]]
        OBVIOUS
      <4>4. list \in Seq(Contacts) /\ Len(list) = n
            /\ (\A i \in 1 .. n : i # k => list[i] = low[i])
            /\ list[k] = [low[k] EXCEPT !.order = 0]
        BY <1>5, <2>1, <4>2, <4>3
      <4>5. [low[k] EXCEPT !.order = 0].order = 0
            /\ [low[k] EXCEPT !.order = 0].chat = chat
        BY <4>1 DEF Contacts
      <4> QED BY <4>4, <4>5
    <3> HIDE DEF list
    <3>2. \A i \in 1 .. Len(list) : NumbersOf(new[list[i].chat], {}) # <<>>
      BY <1>3, <1>5, <3>1 DEF chat
    <3>3. \A i \in 1 .. Len(list) :
            i # k => /\ list[i].order > 0 /\ list[i].chat # list[k].chat
                     /\ Newest(new, list[k].chat) > Newest(new, list[i].chat)
      BY <1>1, <1>4, <1>5, <2>3, <3>1
    <3>4. \A i, j \in 1 .. Len(list) :
            i < j /\ i # k /\ j # k =>
              /\ list[i].chat # list[j].chat /\ list[i].order < list[j].order
              /\ Newest(new, list[i].chat) > Newest(new, list[j].chat)
      BY <1>5, <1>6, <2>3, <3>1
    <3>5. Listed(ByOrder(list), new)
      BY <2>1, <3>1, <3>2, <3>3, <3>4, ToTheTop
    <3> QED BY <2>2, <2>5, <3>5 DEF list
  <2> QED BY <2>4, <2>5
<1> QED BY <1>7, <1>8

\* setActive touches no order, and no chat.
LEMMA ActiveListed ==
  ASSUME NEW mem, NEW list, NEW chat, Listed(list, mem)
  PROVE  Listed(SetActive(list, chat), mem)
<1> DEFINE s == SetActive(list, chat)
           n == Len(list)
<1>1. /\ list \in Seq(Contacts) /\ n \in Nat
      /\ \A i \in 1 .. n : list[i] \in Contacts
  BY DEF Listed
<1>2. \A i \in 1 .. n : /\ s[i] \in Contacts /\ s[i].chat = list[i].chat
                        /\ s[i].order = list[i].order
  <2>1. \A i \in 1 .. n : s[i] = [list[i] EXCEPT !.active = (list[i].chat = chat)]
    BY DEF SetActive
  <2> HIDE DEF s
  <2> QED BY <1>1, <2>1 DEF Contacts
<1>3. s = [i \in 1 .. n |-> s[i]]
  BY DEF SetActive
<1> HIDE DEF s
<1>4. s \in Seq(Contacts) /\ Len(s) = n
  BY <1>1, <1>2, <1>3
<1> QED BY <1>1, <1>2, <1>4 DEF Listed, s

\* What of RAM matters to the list.
LEMMA StaysListed ==
  ASSUME NEW mem, NEW new, NEW list, Listed(list, mem),
         \A p \in Peers : NumbersOf(mem[p], {}) # <<>> =>
           NumbersOf(new[p], {}) = NumbersOf(mem[p], {})
  PROVE  Listed(list, new)
<1>1. \A i \in 1 .. Len(list) : list[i].chat \in Peers
  BY ContactFields DEF Listed
<1> QED BY <1>1 DEF Listed, Newest

-----------------------------------------------------------------------------
(***************************************************************************)
(* What the handlers do to the window's data.                              *)
(***************************************************************************)
WindowData == Keys /\ Database /\ Memory /\ OpenPage /\ Listed(contacts, ram)

LEMMA DataUntouched ==
  ASSUME WindowData, UNCHANGED <<ram, disk, keys, shown, current, clientText, contacts>>
  PROVE  WindowData'
<1>1. Keys'
  BY DEF WindowData, Keys, keys
<1>2. Database'
  BY DEF WindowData, Database, disk, keys
<1>3. Memory'
  <2>1. RamIsRecentHistory'
    BY RecentMeans DEF WindowData, Memory, disk
  <2> QED BY <2>1 DEF WindowData, Memory, disk
<1>4. OpenPage'
  BY DEF WindowData, OpenPage, disk, ShownIsComplete
<1>5. Listed(contacts, ram)'
  BY DEF WindowData, Listed, Newest
<1> QED BY <1>1, <1>2, <1>3, <1>4, <1>5 DEF WindowData

\* The latest message of a chat is one of those there have been.
LEMMA NewestBound ==
  ASSUME Database, Memory, NEW p \in Peers, NumbersOf(ram[p], {}) # <<>>
  PROVE  Newest(ram, p) \in Nat /\ Newest(ram, p) <= written
<1> DEFINE s == NumbersOf(ram[p], {})
<1>1. ram[p] \in Seq(Messages) /\ \A i \in 1 .. Len(ram[p]) : ram[p][i].id <= written
  BY DEF Memory
<1>2. s \in Seq(Nat) /\ \A j \in 1 .. Len(s) : \E i \in 1 .. Len(ram[p]) : ram[p][i].id = s[j]
  BY <1>1, NumbersIn
<1>3. Newest(ram, p) = s[Len(s)]
  BY DEF Newest, Last
<1> HIDE DEF s
<1>4. s # <<>>
  BY DEF s
<1>5. Len(s) \in 1 .. Len(s) /\ s[Len(s)] \in Nat
  BY <1>2, <1>4
<1> QED BY <1>1, <1>2, <1>3, <1>5

\* A message of the user or of a peer: memory, disk and contact list.
LEMMA AfterMessage ==
  ASSUME WindowData, NEW c \in Clients, Save(ChatOf(c)), UNCHANGED keys,
         ram' = [ram EXCEPT ![ChatOf(c)] = Append(@, Message(ChatOf(c)))]
  PROVE  /\ Keys' /\ Database' /\ Memory' /\ written' = written + 1
         /\ Message(ChatOf(c)) \in Messages /\ Message(ChatOf(c)).id = written + 1
         /\ Listed(OnNewMessage(c), ram')
<1> DEFINE chat == ChatOf(c)
<1>1. chat \in Peers
  BY DEF Clients, ChatOf
<1>2. Keys /\ Database /\ Memory /\ Listed(contacts, ram) /\ written \in Nat
      /\ ram \in [Peers -> Seq(Messages)]
  BY DEF WindowData, Database, Memory
<1>3. Keys'
  BY <1>2 DEF Keys, keys
<1>4. Database' /\ written' = written + 1
  BY <1>1, <1>2, SaveKeepsDatabase, SaveFacts
<1>5. /\ Memory' /\ Message(chat) \in Messages /\ Message(chat).id = written + 1
      /\ \A p \in Peers :
           NumbersOf(ram'[p], {}) = IF p = chat
                                    THEN Append(NumbersOf(ram[p], {}), written + 1)
                                    ELSE NumbersOf(ram[p], {})
  <2> HIDE DEF chat
  <2>1. Save(chat) /\ ram' = [ram EXCEPT ![chat] = Append(@, Message(chat))]
    BY DEF chat
  <2> QED BY <1>1, <1>2, <2>1, RamAfterMessage
<1> HIDE DEF chat
<1>6. NumbersOf(ram'[chat], {}) # <<>> /\ Newest(ram', chat) = written + 1
  <2> DEFINE s == NumbersOf(ram[chat], {})
             n == NumbersOf(ram'[chat], {})
  <2>1. s \in Seq(Nat) /\ n = Append(s, written + 1)
    BY <1>1, <1>2, <1>5, NumbersIn
  <2>2. Newest(ram', chat) = n[Len(n)]
    BY DEF Newest, Last
  <2> HIDE DEF s, n
  <2>3. n # <<>> /\ n[Len(n)] = written + 1
    BY <1>2, <2>1
  <2> QED BY <2>2, <2>3 DEF n
<1>7. ASSUME NEW p \in Peers, p # chat, NumbersOf(ram[p], {}) # <<>>
      PROVE  Newest(ram', chat) > Newest(ram, p)
  <2>1. Newest(ram, p) \in Nat /\ Newest(ram, p) <= written
    BY <1>2, <1>7, NewestBound
  <2> QED BY <1>2, <1>6, <2>1
<1>8. \A p \in Peers : p # chat => NumbersOf(ram'[p], {}) = NumbersOf(ram[p], {})
  BY <1>5
<1>9. Listed(OnNewMessage(c), ram')
  BY <1>2, <1>6, <1>7, <1>8, NewMessageListed DEF chat
<1> QED BY <1>3, <1>4, <1>5, <1>9 DEF chat

\* The model behind the page gets a message or a notice of a chat, and so does
\* RAM.
LEMMA ShownWithMore ==
  ASSUME OpenPage, Memory, NEW chat \in Peers, NEW e \in Messages, e.chat = chat,
         ram' = [ram EXCEPT ![chat] = Append(@, e)],
         shown' = Append(shown, e), current' = current
  PROVE  ShownIsComplete' /\ shown' \in Seq(Messages)
         /\ \A i \in 1 .. Len(shown') :
              shown'[i] = e \/ \E j \in 1 .. Len(shown) : shown'[i] = shown[j]
<1>1. shown \in Seq(Messages) /\ ram \in [Peers -> Seq(Messages)]
  BY DEF OpenPage, Memory
<1>2. /\ shown' \in Seq(Messages) /\ Len(shown') = Len(shown) + 1
      /\ shown'[Len(shown) + 1] = e
      /\ \A i \in 1 .. Len(shown) : shown'[i] = shown[i]
  BY <1>1
<1>3. ASSUME current # NoChat PROVE Of(current, shown') = ram'[current]
  <2>1. current \in Peers /\ Of(current, shown) = ram[current]
    BY <1>3 DEF OpenPage, ShownIsComplete
  <2>2. CASE current = chat
    <3>1. Of(current, shown') = Append(ram[current], e)
      BY <1>1, <2>1, <2>2, OfAppend
    <3> QED BY <1>1, <2>1, <2>2, <3>1
  <2>3. CASE current # chat
    <3>1. Of(current, shown') = ram[current]
      BY <1>1, <2>1, <2>3, OfAppend
    <3> QED BY <1>1, <2>1, <2>3, <3>1
  <2> QED BY <2>2, <2>3
<1>4. ShownIsComplete'
  BY <1>3 DEF ShownIsComplete
<1> QED BY <1>2, <1>4

\* onMessageSent, onMessageArrived.
LEMMA SentKeepsData ==
  ASSUME WindowData, NEW c \in Clients, MessageSent(c), UNCHANGED keys
  PROVE  WindowData' /\ written' = written + 1
<1> DEFINE chat == ChatOf(c)
           e == Message(chat)
<1>1. chat \in Peers /\ OpenPage /\ Memory /\ Database /\ written \in Nat
  BY DEF Clients, ChatOf, WindowData, Database
<1>2. /\ ram' = [ram EXCEPT ![chat] = Append(@, e)] /\ Save(chat)
      /\ shown' = Append(shown, e) /\ contacts' = SetActive(OnNewMessage(c), chat)
      /\ current' = current /\ clientText' = clientText
  BY DEF MessageSent, AddMessage
<1>3. /\ Keys' /\ Database' /\ Memory' /\ written' = written + 1
      /\ e \in Messages /\ e.id = written + 1 /\ Listed(OnNewMessage(c), ram')
  BY <1>2, AfterMessage
<1>4. e.chat = chat
  BY DEF Message
<1> HIDE DEF chat, e
<1>5. ShownIsComplete' /\ shown' \in Seq(Messages)
      /\ \A i \in 1 .. Len(shown') :
           shown'[i] = e \/ \E j \in 1 .. Len(shown) : shown'[i] = shown[j]
  BY <1>1, <1>2, <1>3, <1>4, ShownWithMore
<1>6. \A i \in 1 .. Len(shown') : shown'[i].id <= written'
  <2>1. \A j \in 1 .. Len(shown) : shown[j] \in Messages /\ shown[j].id <= written
    BY <1>1 DEF OpenPage
  <2>2. \A j \in 1 .. Len(shown) : shown[j].id \in Nat
    BY <2>1 DEF Messages
  <2>3. \A i \in 1 .. Len(shown') : shown'[i].id \in Nat /\ shown'[i].id <= written + 1
    BY <1>1, <1>3, <1>5, <2>1, <2>2
  <2> QED BY <1>3, <2>3
<1>7. OpenPage'
  BY <1>1, <1>2, <1>5, <1>6 DEF OpenPage
<1>8. Listed(contacts', ram')
  BY <1>2, <1>3, ActiveListed
<1>9. Listed(contacts, ram)'
  BY <1>8 DEF Listed, Newest
<1> QED BY <1>3, <1>7, <1>9 DEF WindowData

LEMMA ArrivalKeepsData ==
  ASSUME WindowData, listening \in [Peers -> Ports], NEW p \in Peers, MessageArrives(p)
  PROVE  WindowData' /\ written' = written + 1
<1> DEFINE c == At(p)
           e == Message(p)
<1>1. c \in Clients /\ ChatOf(c) = p
  BY DEF At, Clients, ChatOf
<1>2. /\ OpenPage /\ Memory /\ Database /\ written \in Nat
      /\ shown \in Seq(Messages) /\ ram \in [Peers -> Seq(Messages)]
  BY DEF WindowData, Database, OpenPage, Memory
<1>3. /\ ram' = [ram EXCEPT ![p] = Append(@, e)] /\ Save(p) /\ UNCHANGED keys
      /\ current' = current /\ clientText' = clientText
  BY DEF MessageArrives
<1>4. /\ p = current => /\ shown' = Append(shown, e)
                        /\ contacts' = SetActive(OnNewMessage(c), p)
      /\ p # current => contacts' = OnNewMessage(c) /\ shown' = shown
  BY DEF MessageArrives, AddMessage
<1> HIDE DEF c
<1>5. /\ Keys' /\ Database' /\ Memory' /\ written' = written + 1
      /\ e \in Messages /\ e.id = written + 1 /\ Listed(OnNewMessage(c), ram')
  BY <1>1, <1>3, AfterMessage
<1>6. e.chat = p
  BY DEF Message
<1> HIDE DEF e
<1>7. Listed(contacts', ram')
  <2>1. CASE p = current BY <1>4, <1>5, <2>1, ActiveListed
  <2>2. CASE p # current BY <1>4, <1>5, <2>2
  <2> QED BY <2>1, <2>2
<1>8. ShownIsComplete' /\ shown' \in Seq(Messages)
      /\ \A i \in 1 .. Len(shown') :
           shown'[i] = e \/ \E j \in 1 .. Len(shown) : shown'[i] = shown[j]
  <2>1. CASE p = current
    BY <1>2, <1>3, <1>4, <1>5, <1>6, <2>1, ShownWithMore
  <2>2. CASE p # current
    <3>1. shown' = shown /\ \A q \in Peers : q # p => ram'[q] = ram[q]
      BY <1>2, <1>3, <1>4, <2>2
    <3>2. current # NoChat => current \in Peers /\ Of(current, shown) = ram[current]
      BY <1>2 DEF OpenPage, ShownIsComplete
    <3>3. current # NoChat => Of(current', shown') = ram'[current']
      BY <1>3, <2>2, <3>1, <3>2
    <3>4. ShownIsComplete'
      BY <1>3, <3>3 DEF ShownIsComplete
    <3> QED BY <1>2, <3>1, <3>4
  <2> QED BY <2>1, <2>2
<1>9. \A i \in 1 .. Len(shown') : shown'[i].id <= written'
  <2>1. \A j \in 1 .. Len(shown) : shown[j] \in Messages /\ shown[j].id <= written
    BY <1>2 DEF OpenPage
  <2>2. \A j \in 1 .. Len(shown) : shown[j].id \in Nat
    BY <2>1 DEF Messages
  <2> SUFFICES ASSUME NEW i \in 1 .. Len(shown')
               PROVE  shown'[i].id <= written + 1
    BY <1>5
  <2> DEFINE m == shown'[i]
  <2>3. m = e \/ \E j \in 1 .. Len(shown) : m = shown[j]
    BY <1>8
  <2> HIDE DEF m
  <2>4. CASE m = e
    BY <1>2, <1>5, <2>4 DEF m
  <2>5. ASSUME NEW j \in 1 .. Len(shown), m = shown[j]
        PROVE  m.id <= written + 1
    <3>1. m.id \in Nat /\ m.id <= written
      BY <2>1, <2>2, <2>5
    <3> QED BY <1>2, <3>1
  <2> QED BY <1>2, <1>5, <2>3, <2>4, <2>5 DEF m
<1>10. OpenPage'
  BY <1>2, <1>3, <1>8, <1>9 DEF OpenPage
<1>11. Listed(contacts, ram)'
  BY <1>7 DEF Listed, Newest
<1> QED BY <1>5, <1>10, <1>11 DEF WindowData

\* onServerClientDisconnected.
LEMMA LeavingKeepsData ==
  ASSUME WindowData, NEW p \in Peers, PeerLeaves(p)
  PROVE  WindowData'
<1> DEFINE e == Notice(p)
<1>1. CASE p # current
  <2>1. UNCHANGED <<ram, disk, keys, shown, current, clientText, contacts>>
    BY <1>1 DEF PeerLeaves
  <2> QED BY <2>1, DataUntouched
<1>2. CASE p = current
  <2>1. /\ OpenPage /\ Memory /\ Database /\ written \in Nat
        /\ shown \in Seq(Messages) /\ ram \in [Peers -> Seq(Messages)]
    BY DEF WindowData, Database, OpenPage, Memory
  <2>2. /\ ram' = [ram EXCEPT ![p] = Append(@, e)] /\ shown' = Append(shown, e)
        /\ UNCHANGED disk /\ UNCHANGED keys
        /\ current' = current /\ clientText' = clientText /\ contacts' = contacts
    BY <1>2 DEF PeerLeaves, AddMessage
  <2>3. /\ Memory' /\ e \in Messages /\ e.id = 0
        /\ \A q \in Peers : NumbersOf(ram'[q], {}) = NumbersOf(ram[q], {})
    BY <2>1, <2>2, RamAfterNotice
  <2>4. e.chat = p
    BY DEF Notice
  <2> HIDE DEF e
  <2>5. ShownIsComplete' /\ shown' \in Seq(Messages)
        /\ \A i \in 1 .. Len(shown') :
             shown'[i] = e \/ \E j \in 1 .. Len(shown) : shown'[i] = shown[j]
    BY <2>1, <2>2, <2>3, <2>4, ShownWithMore
  <2>6. written' = written
    BY <2>2 DEF disk
  <2>7. \A i \in 1 .. Len(shown') : shown'[i].id <= written'
    <3>1. \A j \in 1 .. Len(shown) : shown[j].id <= written
      BY <2>1 DEF OpenPage
    <3> QED BY <2>1, <2>3, <2>5, <2>6, <3>1
  <2>8. OpenPage'
    BY <2>1, <2>2, <2>5, <2>7 DEF OpenPage
  <2>9. Listed(contacts', ram')
    <3>1. Listed(contacts, ram)
      BY DEF WindowData
    <3>2. Listed(contacts, ram')
      BY <2>3, <3>1, StaysListed
    <3> QED BY <2>2, <3>2
  <2>10. Listed(contacts, ram)'
    BY <2>9 DEF Listed, Newest
  <2>11. Keys' /\ Database'
    BY <2>2 DEF WindowData, Keys, Database, keys, disk
  <2> QED BY <2>3, <2>8, <2>10, <2>11 DEF WindowData
<1> QED BY <1>1, <1>2

\* openChatPage.
LEMMA OpeningKeepsData ==
  ASSUME WindowData, NEW chat \in Peers, NEW c \in Clients, OpenChatPage(chat, c),
         UNCHANGED keys
  PROVE  WindowData' /\ written' = written
<1>1. CASE chat = current
  <2>1. UNCHANGED <<ram, disk, keys, shown, current, clientText, contacts>>
    BY <1>1 DEF OpenChatPage, page
  <2> QED BY <2>1, DataUntouched DEF disk
<1>2. CASE chat # current
  <2>1. /\ Keys /\ OpenPage /\ Memory /\ Database /\ written \in Nat
        /\ Listed(contacts, ram) /\ ram \in [Peers -> Seq(Messages)]
    BY DEF WindowData, Database, Memory
  <2>2. /\ UNCHANGED <<store, written, unsaved>> /\ current' = chat /\ clientText' = c
        /\ contacts' = SetActive(contacts, chat)
        /\ \/ /\ ram' = [ram EXCEPT ![chat] = WithHistory(chat)]
              /\ shown' = WithHistory(chat) /\ faults' = faults
           \/ /\ ram[chat] = <<>> /\ MayFail /\ faults' = faults + 1
              /\ shown' = <<>> /\ ram' = ram
    BY <1>2 DEF OpenChatPage, Page
  <2>3. Keys'
    BY <2>1 DEF Keys, keys
  <2>4. Database'
    <3>1. faults' \in 0 .. MaxFaults
      BY <2>1, <2>2, BoundsAssumption DEF MayFail, Database
    <3>2. opens' = opens
      BY DEF keys
    <3> QED BY <2>1, <2>2, <3>1, <3>2 DEF Database
  <2>5. /\ Memory' /\ Of(chat, shown') = ram'[chat] /\ shown' = ram'[chat]
        /\ \A p \in Peers : ram[p] # <<>> => ram'[p] = ram[p]
    <3>1. CASE /\ ram' = [ram EXCEPT ![chat] = WithHistory(chat)]
               /\ shown' = WithHistory(chat)
      <4>1. /\ Memory' /\ shown' = ram'[chat]
            /\ \A p \in Peers : ram[p] # <<>> => ram'[p] = ram[p]
        BY <2>1, <2>2, <3>1, RamAfterOpening
      <4>2. /\ shown' \in Seq(Messages)
            /\ \A i \in 1 .. Len(shown') : shown'[i].chat = chat
        BY <4>1 DEF Memory
      <4> QED BY <4>1, <4>2, OfAll
    <3>2. CASE ram[chat] = <<>> /\ shown' = <<>> /\ ram' = ram
      <4>1. RamIsRecentHistory'
        BY <2>1, <2>2, <3>2, RecentMeans DEF Memory
      <4>2. Memory'
        BY <2>1, <2>2, <3>2, <4>1 DEF Memory
      <4> QED BY <3>2, <4>2, OfEmpty
    <3> QED BY <2>2, <3>1, <3>2
  <2>6. OpenPage'
    <3>1. /\ shown' \in Seq(Messages)
          /\ \A i \in 1 .. Len(shown') : shown'[i].id <= written'
      BY <2>5 DEF Memory
    <3>2. ShownIsComplete'
      BY <2>2, <2>5 DEF ShownIsComplete
    <3> QED BY <2>2, <3>1, <3>2 DEF OpenPage
  <2>7. Listed(contacts', ram')
    <3>1. \A p \in Peers : NumbersOf(ram[p], {}) # <<>> =>
            NumbersOf(ram'[p], {}) = NumbersOf(ram[p], {})
      BY <2>5, NumbersEmpty
    <3>2. Listed(contacts, ram')
      BY <2>1, <3>1, StaysListed
    <3> QED BY <2>2, <3>2, ActiveListed
  <2>8. Listed(contacts, ram)'
    BY <2>7 DEF Listed, Newest
  <2> QED BY <2>2, <2>3, <2>4, <2>5, <2>6, <2>8 DEF WindowData
<1> QED BY <1>1, <1>2

\* A start of the program.
LEMMA NoMasterKeySaved == Base64Size(KeySize) \in Nat /\ Base64Size(KeySize) # KeySize
BY DEF Base64Size, KeySize

LEMMA RestartKeepsData ==
  ASSUME WindowData, Restart
  PROVE  WindowData' /\ written' = written
<1>1. Keys /\ Database /\ opens \in Nat \ {0} /\ opens' = opens + 1 /\ Open(opens')
      /\ UNCHANGED <<store, written, unsaved>>
  BY DEF WindowData, Restart, Keys
<1>2. Keys' /\ faults' \in 0 .. MaxFaults
  <2>1. CASE /\ enabled' = TRUE /\ key' = MasterKey(saved, opens')
             /\ saved' = SavedAfter(saved, opens') /\ UNCHANGED faults
    <3>1. key' = opens' /\ saved' = [size |-> Base64Size(KeySize), key |-> opens']
      BY <1>1, <2>1 DEF Keys, MasterKey, SavedAfter
    <3> QED BY <1>1, <2>1, <3>1, NoMasterKeySaved DEF Keys, Database
  <2>2. CASE /\ MayFail /\ enabled' = FALSE /\ faults' = faults + 1
             /\ UNCHANGED <<key, saved>>
    <3>1. key' \in 0 .. opens' /\ saved' \in [size : Nat, key : 0 .. opens']
      BY <1>1, <2>2 DEF Keys
    <3>2. faults' \in 0 .. MaxFaults
      BY <1>1, <2>2, BoundsAssumption DEF Database, MayFail
    <3>3. saved'.size # KeySize /\ opens' \in Nat \ {0}
      BY <1>1, <2>2 DEF Keys
    <3> QED BY <2>2, <3>1, <3>2, <3>3 DEF Keys
  <2> QED BY <1>1, <2>1, <2>2 DEF Open
<1>3. Database'
  <2>1. \A i \in 1 .. Len(store') :
          store'[i].id \in 1 .. written' \ unsaved' /\ store'[i].sealed \in 1 .. opens'
    BY <1>1 DEF Database
  <2> QED BY <1>1, <1>2, <2>1 DEF Database
<1>4. ram' = [p \in Peers |-> <<>>] /\ shown' = <<>> /\ current' = NoChat
      /\ clientText' = NoClient /\ contacts' = <<>>
  BY DEF Restart
<1>5. Memory'
  <2>1. ASSUME NEW p \in Peers PROVE Ends(NumbersOf(ram'[p], unsaved'), Rows(store', p))
    <3>1. NumbersOf(ram'[p], unsaved') = <<>>
      BY <1>4, NumbersEmpty
    <3>2. Rows(store', p) \in Seq(Nat)
      BY <1>3, RowsType DEF Database
    <3> QED BY <3>1, <3>2, EndsEmpty
  <2> QED BY <1>4, <2>1, RecentMeans DEF Memory
<1>6. OpenPage'
  BY <1>4 DEF OpenPage, ShownIsComplete
<1>7. Listed(contacts, ram)'
  BY <1>4 DEF Listed
<1> QED BY <1>1, <1>2, <1>3, <1>5, <1>6, <1>7 DEF WindowData

-----------------------------------------------------------------------------
(***************************************************************************)
(* Who is online.                                                          *)
(***************************************************************************)

\* The flag is a truth value, and right.
FlagInv == flag \in BOOLEAN /\ OnlineFlagRight

\* A page that is opened looks its flag up; the page that is open keeps it.
LEMMA OpenKeepsFlag ==
  ASSUME FlagInv, NEW chat, NEW c, OpenChatPage(chat, c), UNCHANGED network
  PROVE  FlagInv'
<1> USE DEF FlagInv, OnlineFlagRight
<1>1. online' = online
  BY DEF network
<1>2. CASE chat = current
  BY <1>1, <1>2 DEF OpenChatPage, page
<1>3. CASE chat # current
  <2>1. flag' = (chat \in online) /\ current' = chat
    BY <1>3 DEF OpenChatPage, OnlineFlag
  <2> QED
    BY <1>1, <2>1
<1> QED
  BY <1>2, <1>3

\* A step that touches neither flag nor page nor who is online.
LEMMA FlagUntouched ==
  ASSUME FlagInv, UNCHANGED <<flag, current, online>>
  PROVE  FlagInv'
BY DEF FlagInv, OnlineFlagRight

LEMMA StepFlag == FlagInv /\ [Next]_vars => FlagInv'
<1> SUFFICES ASSUME FlagInv, [Next]_vars PROVE FlagInv'
  OBVIOUS
<1>1. ASSUME NEW p \in Peers, MessageArrives(p) PROVE FlagInv'
  BY <1>1, FlagUntouched DEF MessageArrives, network
<1>2. ASSUME NEW p \in Peers, PeerJoins(p) PROVE FlagInv'
  <2>1. online' = online \cup {p} /\ current' = current
    BY <1>2 DEF PeerJoins
  <2>2. CASE p = current
    BY <1>2, <2>1, <2>2 DEF PeerJoins, FlagInv, OnlineFlagRight
  <2>3. CASE p # current
    BY <1>2, <2>1, <2>3 DEF PeerJoins, FlagInv, OnlineFlagRight
  <2> QED
    BY <2>2, <2>3
<1>3. ASSUME NEW p \in Peers, PeerLeaves(p) PROVE FlagInv'
  <2>1. online' = online \ {p} /\ current' = current
    BY <1>3 DEF PeerLeaves
  <2>2. CASE p = current
    <3>1. flag' = FALSE
      BY <1>3, <2>2 DEF PeerLeaves
    <3>2. current' \notin online'
      BY <2>1, <2>2
    <3>3. flag' \in BOOLEAN
      BY <3>1
    <3>4. (current' \in online') = FALSE
      BY <3>2
    <3> QED
      BY <3>1, <3>3, <3>4 DEF FlagInv, OnlineFlagRight
  <2>3. CASE p # current
    <3>1. flag' = flag
      BY <1>3, <2>3 DEF PeerLeaves
    <3> QED
      BY <2>1, <2>3, <3>1 DEF FlagInv, OnlineFlagRight
  <2> QED
    BY <2>2, <2>3
<1>4. ASSUME NEW p \in Peers, PeerConnected(p) \/ PeerMoves(p) PROVE FlagInv'
  BY <1>4, FlagUntouched DEF PeerConnected, PeerMoves, page
<1>5. ASSUME NEW c \in connected, PeerDisconnected(c) PROVE FlagInv'
  BY <1>5, FlagUntouched DEF PeerDisconnected, page
<1>6. CASE ClickSend
  BY <1>6, FlagUntouched DEF ClickSend, page, network
<1>7. CASE SendMessage
  <2>1. UNCHANGED <<flag, current, online>>
    BY <1>7 DEF SendMessage, MessageSent, page, network
  <2> QED
    BY <2>1, FlagUntouched
<1>8. CASE CloseBox
  <2>1. CASE OpenChatPage(ChatOf(Head(dialogs).client), Head(dialogs).client)
    BY <1>8, <2>1, OpenKeepsFlag DEF CloseBox
  <2>2. CASE \/ MessageSent(Head(dialogs).client)
             \/ UNCHANGED <<ram, disk, page, contacts>>
    <3>1. UNCHANGED <<flag, current, online>>
      BY <1>8, <2>2 DEF CloseBox, MessageSent, page, network
    <3> QED
      BY <3>1, FlagUntouched
  <2> QED
    BY <1>8, <2>1, <2>2 DEF CloseBox
<1>9. CASE ClickContact
  BY <1>9, OpenKeepsFlag DEF ClickContact
<1>10. CASE Restart
  BY <1>10 DEF Restart, FlagInv, OnlineFlagRight
<1>11. CASE UNCHANGED vars
  BY <1>11, FlagUntouched DEF vars, page, network
<1> QED
  BY <1>1, <1>2, <1>3, <1>4, <1>5, <1>6, <1>7, <1>8, <1>9, <1>10, <1>11 DEF Next

\* isCurrentChatClientOnline is right in every state, also while boxes of older
\* handlers are open and their handlers resume in any order of nesting.
THEOREM FlagAlwaysRight == Spec => []OnlineFlagRight
<1>1. Init => FlagInv
  BY DEF Init, FlagInv, OnlineFlagRight
<1>2. FlagInv => OnlineFlagRight
  BY DEF FlagInv
<1> QED
  BY <1>1, <1>2, StepFlag, PTL DEF Spec

-----------------------------------------------------------------------------
(***************************************************************************)
(* Network, message boxes and posted sends.                                *)
(***************************************************************************)
LEMMA Pushed ==
  ASSUME NEW stack, Stacked(stack), Len(stack) < MaxDialogs, NEW b \in Boxes,
         b.then # "nothing" => b.client \in Clients,
         b.then = "sent" => OnItsWay(stack) = {}
  PROVE  /\ Stacked(<<b>> \o stack)
         /\ b.then # "sent" /\ OnItsWay(stack) = {} => OnItsWay(<<b>> \o stack) = {}
         /\ b.then # "sent" /\ OnItsWay(<<b>> \o stack) # {} => OnItsWay(stack) # {}
<1> DEFINE s == <<b>> \o stack
<1>1. stack \in Seq(Boxes) /\ Len(stack) \in Nat /\ MaxDialogs \in Nat
  BY BoundsAssumption DEF Stacked
<1>2. /\ s \in Seq(Boxes) /\ Len(s) = Len(stack) + 1 /\ s[1] = b
      /\ \A i \in 2 .. Len(s) : i - 1 \in 1 .. Len(stack) /\ s[i] = stack[i - 1]
  BY <1>1
<1> HIDE DEF s
<1>3. ASSUME NEW i \in 1 .. Len(s), s[i].then # "nothing"
      PROVE  s[i].client \in Clients
  <2>1. CASE i = 1
    BY <1>2, <1>3, <2>1
  <2>2. CASE i # 1
    <3>1. i \in 2 .. Len(s)
      BY <1>1, <1>2, <2>2
    <3> QED BY <1>2, <1>3, <3>1 DEF Stacked
  <2> QED BY <2>1, <2>2
<1>4. \A i \in OnItsWay(s) : /\ i \in 1 .. Len(s)
                             /\ i = 1 => b.then = "sent"
                             /\ i # 1 => i - 1 \in OnItsWay(stack) /\ i \in Nat
  <2> SUFFICES ASSUME NEW i \in OnItsWay(s)
               PROVE  /\ i \in 1 .. Len(s)
                      /\ i = 1 => b.then = "sent"
                      /\ i # 1 => i - 1 \in OnItsWay(stack) /\ i \in Nat
    OBVIOUS
  <2>1. i \in 1 .. Len(s) /\ s[i].then = "sent"
    BY DEF OnItsWay
  <2>2. i # 1 => i \in 2 .. Len(s)
    BY <1>1, <1>2, <2>1
  <2> QED BY <1>2, <2>1, <2>2 DEF OnItsWay
<1>5. ASSUME NEW i \in OnItsWay(s), NEW j \in OnItsWay(s)
      PROVE  i = j
  <2>1. CASE b.then = "sent"
    BY <1>4, <2>1
  <2>2. CASE b.then # "sent"
    <3>1. i - 1 \in OnItsWay(stack) /\ j - 1 \in OnItsWay(stack) /\ i \in Nat /\ j \in Nat
      BY <1>4, <2>2
    <3>2. i - 1 = j - 1
      BY <3>1 DEF Stacked
    <3> QED BY <3>1, <3>2
  <2> QED BY <2>1, <2>2
<1>6. b.then # "sent" /\ OnItsWay(s) # {} => OnItsWay(stack) # {}
  BY <1>4
<1>7. Len(s) <= MaxDialogs
  BY <1>1, <1>2
<1>8. Stacked(s)
  BY <1>2, <1>3, <1>5, <1>7 DEF Stacked
<1> QED BY <1>6, <1>8 DEF s

LEMMA Popped ==
  ASSUME NEW stack, Stacked(stack), stack # <<>>
  PROVE  /\ Stacked(Tail(stack)) /\ Head(stack) \in Boxes
         /\ Head(stack).then # "nothing" => Head(stack).client \in Clients
         /\ Head(stack).then = "sent" =>
              OnItsWay(Tail(stack)) = {} /\ OnItsWay(stack) # {}
         /\ OnItsWay(Tail(stack)) # {} => OnItsWay(stack) # {}
<1> DEFINE t == Tail(stack)
<1>1. stack \in Seq(Boxes) /\ Len(stack) \in Nat /\ MaxDialogs \in Nat
  BY BoundsAssumption DEF Stacked
<1>2. /\ t \in Seq(Boxes) /\ Len(t) = Len(stack) - 1 /\ Len(stack) > 0
      /\ Head(stack) = stack[1] /\ 1 \in 1 .. Len(stack)
      /\ \A i \in 1 .. Len(t) : i + 1 \in 2 .. Len(stack) /\ t[i] = stack[i + 1]
  BY <1>1
<1> HIDE DEF t
<1>3. \A i \in 1 .. Len(t) : t[i].then # "nothing" => t[i].client \in Clients
  <2>1. \A i \in 1 .. Len(t) : i + 1 \in 1 .. Len(stack)
    BY <1>1, <1>2
  <2> QED BY <1>2, <2>1 DEF Stacked
<1>4. ASSUME NEW i \in OnItsWay(t)
      PROVE  i \in Nat /\ i + 1 \in OnItsWay(stack) /\ i + 1 # 1
  <2>1. i \in 1 .. Len(t) /\ t[i].then = "sent"
    BY DEF OnItsWay
  <2>2. i \in Nat /\ i + 1 \in 1 .. Len(stack) /\ i + 1 # 1 /\ stack[i + 1].then = "sent"
    BY <1>1, <1>2, <2>1
  <2> QED BY <2>2 DEF OnItsWay
<1>5. ASSUME NEW i \in OnItsWay(t), NEW j \in OnItsWay(t) PROVE i = j
  <2>1. i \in Nat /\ j \in Nat /\ i + 1 = j + 1
    BY <1>4 DEF Stacked
  <2> QED BY <2>1
<1>6. ASSUME Head(stack).then = "sent"
      PROVE  OnItsWay(t) = {} /\ OnItsWay(stack) # {}
  <2>1. 1 \in OnItsWay(stack)
    BY <1>2, <1>6 DEF OnItsWay
  <2> QED BY <1>4, <2>1 DEF Stacked
<1>7. Len(t) <= MaxDialogs
  BY <1>1, <1>2 DEF Stacked
<1>8. Stacked(t)
  BY <1>2, <1>3, <1>5, <1>7 DEF Stacked
<1>9. Head(stack) \in Boxes /\ (Head(stack).then # "nothing" => Head(stack).client \in Clients)
  BY <1>1, <1>2 DEF Stacked
<1> QED BY <1>4, <1>6, <1>8, <1>9 DEF t

\* What happens next is as before, and no more has been written than may be.
LEMMA EventsKept ==
  ASSUME Events, UNCHANGED <<listening, queued, dialogs>>,
         online' \subseteq Peers, connected' \subseteq Clients,
         written' = written \/ (written' = written + 1 /\ Room /\ written \in Nat)
  PROVE  Events'
<1>1. \/ written' = written
      \/ written' <= MaxMessages + 1 /\ written' <= MaxMessages
  <2>1. MaxMessages \in Nat
    BY BoundsAssumption
  <2> QED BY <2>1 DEF Room
<1> QED BY <1>1 DEF Events, Stacked, OnItsWay

\* A box is opened whose handler has nothing to send.
LEMMA EventsWithBox ==
  ASSUME Events, NEW b \in Boxes, b.then # "sent", MayOpenBox,
         b.then # "nothing" => b.client \in Clients,
         dialogs' = <<b>> \o dialogs, written' = written,
         UNCHANGED <<online, listening, queued>>, connected' \subseteq Clients
  PROVE  Events'
<1>1. /\ Stacked(dialogs')
      /\ OnItsWay(dialogs) = {} => OnItsWay(dialogs') = {}
      /\ OnItsWay(dialogs') # {} => OnItsWay(dialogs) # {}
  BY Pushed DEF Events, MayOpenBox
<1> QED BY <1>1 DEF Events

-----------------------------------------------------------------------------
(***************************************************************************)
(* The invariant, step by step.                                            *)
(***************************************************************************)
LEMMA InitWindow == Init => WindowInv
<1> SUFFICES ASSUME Init PROVE WindowInv
  OBVIOUS
<1>1. Keys /\ faults \in 0 .. MaxFaults
  <2>1. CASE enabled = TRUE /\ faults = 0 /\ key = 1 /\ saved = SavedAfter(NothingSaved, 1)
    <3>1. saved = [size |-> Base64Size(KeySize), key |-> 1]
      BY <2>1 DEF SavedAfter, NothingSaved, KeySize
    <3> QED BY <2>1, <3>1, NoMasterKeySaved, BoundsAssumption DEF Init, Keys
  <2>2. CASE enabled = FALSE /\ MaxFaults > 0 /\ faults = 1 /\ key = 0 /\ saved = NothingSaved
    <3>1. saved = [size |-> 0, key |-> 0] /\ opens = 1
      BY <2>2 DEF Init, NothingSaved
    <3>2. saved \in [size : Nat, key : 0 .. opens] /\ saved.size # KeySize
      BY <3>1 DEF KeySize
    <3>3. faults \in 0 .. MaxFaults
      BY <2>2, BoundsAssumption
    <3>4. enabled \in BOOLEAN /\ ~enabled
      BY <2>2
    <3>5. opens \in Nat \ {0} /\ key \in 0 .. opens
      BY <2>2, <3>1
    <3> QED BY <3>2, <3>3, <3>4, <3>5 DEF Keys
  <2> QED BY <2>1, <2>2 DEF Init
<1>2. Database
  BY <1>1 DEF Init, Database
<1>3. Memory
  <2>1. ASSUME NEW p \in Peers PROVE Ends(NumbersOf(ram[p], unsaved), Rows(store, p))
    <3>1. NumbersOf(ram[p], unsaved) = <<>>
      BY NumbersEmpty DEF Init
    <3>2. Rows(store, p) \in Seq(Nat)
      BY <1>2, RowsType DEF Database
    <3> QED BY <3>1, <3>2, EndsEmpty
  <2> QED BY <2>1, RecentMeans DEF Init, Memory
<1>4. OpenPage /\ Listed(contacts, ram)
  BY DEF Init, OpenPage, ShownIsComplete, Listed
<1>5. Events
  BY BoundsAssumption DEF Init, Events, Stacked, OnItsWay
<1> QED BY <1>1, <1>2, <1>3, <1>4, <1>5 DEF WindowInv

LEMMA StepWindow == WindowInv /\ [Next]_vars => WindowInv'
<1> SUFFICES ASSUME WindowInv, [Next]_vars PROVE WindowInv'
  OBVIOUS
<1>1. /\ WindowData /\ Events /\ OpenPage /\ written \in Nat
      /\ online \subseteq Peers /\ connected \subseteq Clients
      /\ listening \in [Peers -> Ports] /\ MaxMessages \in Nat
  BY BoundsAssumption DEF WindowInv, WindowData, Events, Database
<1>2. WindowData' /\ Events' => WindowInv'
  BY DEF WindowInv, WindowData
<1>3. \A p \in Peers : At(p) \in Clients
  BY <1>1 DEF At, Clients
<1>4. ASSUME NEW p \in Peers, MessageArrives(p) PROVE WindowInv'
  <2>1. WindowData' /\ written' = written + 1
    BY <1>1, <1>4, ArrivalKeepsData
  <2>2. UNCHANGED <<online, connected, listening, queued, dialogs>> /\ Room
    BY <1>4 DEF MessageArrives, network
  <2>3. Events'
    BY <1>1, <2>1, <2>2, EventsKept
  <2> QED BY <1>2, <2>1, <2>3
<1>5. ASSUME NEW p \in Peers, PeerJoins(p) PROVE WindowInv'
  <2>1. WindowData'
    BY <1>1, <1>5, DataUntouched DEF PeerJoins
  <2>2. UNCHANGED <<connected, listening, queued, dialogs>> /\ written' = written
        /\ online' = online \cup {p}
    BY <1>5 DEF PeerJoins, disk
  <2>3. Events'
    BY <1>1, <2>2, EventsKept
  <2> QED BY <1>2, <2>1, <2>3
<1>6. ASSUME NEW p \in Peers, PeerLeaves(p) PROVE WindowInv'
  <2>1. WindowData'
    BY <1>1, <1>6, LeavingKeepsData
  <2>2. UNCHANGED <<connected, listening, queued, dialogs>> /\ written' = written
        /\ online' = online \ {p}
    BY <1>6 DEF PeerLeaves, disk
  <2>3. Events'
    BY <1>1, <2>2, EventsKept
  <2> QED BY <1>2, <2>1, <2>3
<1>7. ASSUME NEW p \in Peers, PeerConnected(p) PROVE WindowInv'
  <2> DEFINE b == Box("open", At(p))
  <2>1. WindowData'
    BY <1>1, <1>7, DataUntouched DEF PeerConnected, page
  <2>2. b \in Boxes /\ b.then = "open" /\ b.client \in Clients
    BY <1>3 DEF Box, Boxes
  <2>3. /\ MayOpenBox /\ dialogs' = <<b>> \o dialogs /\ written' = written
        /\ UNCHANGED <<online, listening, queued>> /\ connected' = connected \cup {At(p)}
    BY <1>7 DEF PeerConnected, disk
  <2> HIDE DEF b
  <2>4. Events'
    BY <1>1, <1>3, <2>2, <2>3, EventsWithBox
  <2> QED BY <1>2, <2>1, <2>4
<1>8. ASSUME NEW p \in Peers, PeerMoves(p) PROVE WindowInv'
  <2>1. WindowData'
    BY <1>1, <1>8, DataUntouched DEF PeerMoves, page
  <2>2. PICK q \in Ports \ {listening[p]} : listening' = [listening EXCEPT ![p] = q]
    BY <1>8 DEF PeerMoves
  <2>3. listening' \in [Peers -> Ports]
    BY <1>1, <2>2
  <2>4. UNCHANGED <<online, connected, queued, dialogs>> /\ written' = written
    BY <1>8 DEF PeerMoves, disk
  <2>5. Events'
    BY <1>1, <2>3, <2>4 DEF Events
  <2> QED BY <1>2, <2>1, <2>5
<1>9. ASSUME NEW c \in connected, PeerDisconnected(c) PROVE WindowInv'
  <2> DEFINE b == Box("nothing", NoClient)
  <2>1. WindowData'
    BY <1>1, <1>9, DataUntouched DEF PeerDisconnected, page
  <2>2. b \in Boxes /\ b.then = "nothing"
    BY DEF Box, Boxes
  <2>3. /\ MayOpenBox /\ dialogs' = <<b>> \o dialogs /\ written' = written
        /\ UNCHANGED <<online, listening, queued>> /\ connected' = connected \ {c}
    BY <1>9 DEF PeerDisconnected, disk
  <2> HIDE DEF b
  <2>4. Events'
    BY <1>1, <2>2, <2>3, EventsWithBox
  <2> QED BY <1>2, <2>1, <2>4
<1>10. CASE ClickSend
  <2>1. WindowData'
    BY <1>1, <1>10, DataUntouched DEF ClickSend, page
  <2>2. /\ dialogs = <<>> /\ dialogs' = <<>> /\ queued' = <<clientText>> /\ Room
        /\ UNCHANGED <<online, connected, listening>> /\ written' = written
        /\ clientText \in Clients
    BY <1>1, <1>10 DEF ClickSend, network, disk, OpenPage
  <2>3. queued' \in Seq(Clients)
    BY <2>2
  <2>4. written' <= MaxMessages /\ OnItsWay(dialogs') = {}
    BY <1>1, <2>2 DEF Room, OnItsWay
  <2>5. Events'
    BY <1>1, <2>2, <2>3, <2>4 DEF Events
  <2> QED BY <1>2, <2>1, <2>5
<1>11. CASE SendMessage
  <2>1. /\ queued # <<>> /\ queued' = <<>> /\ UNCHANGED <<online, connected, listening>>
        /\ UNCHANGED keys
    BY <1>11 DEF SendMessage, network
  <2>2. Head(queued) \in Clients /\ OnItsWay(dialogs) = {} /\ written <= MaxMessages
        /\ Stacked(dialogs)
    BY <1>1, <2>1 DEF Events
  <2>3. CASE MessageSent(Head(queued)) /\ UNCHANGED dialogs
    <3>1. WindowData' /\ written' = written + 1
      BY <1>1, <2>1, <2>2, <2>3, SentKeepsData
    <3>2. Stacked(dialogs') /\ OnItsWay(dialogs') = {} /\ written' <= MaxMessages + 1
      BY <1>1, <2>2, <2>3, <3>1
    <3>3. Events'
      BY <1>1, <2>1, <3>2 DEF Events
    <3> QED BY <1>2, <3>1, <3>3
  <2>4. CASE /\ MayOpenBox /\ dialogs' = <<Box("sent", Head(queued))>> \o dialogs
             /\ UNCHANGED <<ram, disk, page, contacts>>
    <3> DEFINE b == Box("sent", Head(queued))
    <3>1. WindowData' /\ written' = written
      BY <1>1, <2>1, <2>4, DataUntouched DEF page, disk
    <3>2. b \in Boxes /\ b.client \in Clients
      BY <2>2 DEF Box, Boxes
    <3> HIDE DEF b
    <3>3. Stacked(<<b>> \o dialogs)
      BY <2>2, <2>4, <3>2, Pushed DEF MayOpenBox
    <3>4. Stacked(dialogs')
      BY <2>4, <3>3 DEF b
    <3>5. written' <= MaxMessages /\ written' <= MaxMessages + 1
      BY <1>1, <2>2, <3>1
    <3>6. Events'
      BY <1>1, <2>1, <3>4, <3>5 DEF Events
    <3> QED BY <1>2, <3>1, <3>6
  <2> QED BY <1>11, <2>3, <2>4 DEF SendMessage
<1>12. CASE CloseBox
  <2> DEFINE box == Head(dialogs)
  <2>1. /\ dialogs # <<>> /\ dialogs' = Tail(dialogs)
        /\ UNCHANGED <<online, connected, listening, queued>> /\ UNCHANGED keys
    BY <1>12 DEF CloseBox, network
  <2>2. /\ Stacked(dialogs') /\ box \in Boxes
        /\ box.then # "nothing" => box.client \in Clients
        /\ box.then = "sent" => OnItsWay(dialogs') = {} /\ OnItsWay(dialogs) # {}
        /\ OnItsWay(dialogs') # {} => OnItsWay(dialogs) # {}
    BY <1>1, <2>1, Popped DEF Events
  <2>3. \/ box.then = "open" /\ OpenChatPage(ChatOf(box.client), box.client)
        \/ box.then = "sent" /\ MessageSent(box.client)
        \/ box.then = "nothing" /\ UNCHANGED <<ram, disk, page, contacts>>
    BY <1>12 DEF CloseBox
  <2> HIDE DEF box
  <2>4. CASE box.then = "sent" /\ MessageSent(box.client)
    <3>1. WindowData' /\ written' = written + 1
      BY <1>1, <2>1, <2>2, <2>4, SentKeepsData
    <3>2. written <= MaxMessages /\ queued = <<>>
      BY <1>1, <2>2, <2>4 DEF Events
    <3>3. written' <= MaxMessages + 1 /\ OnItsWay(dialogs') = {} /\ queued' = <<>>
      BY <1>1, <2>1, <2>2, <2>4, <3>1, <3>2
    <3>4. Events'
      BY <1>1, <2>1, <2>2, <3>3 DEF Events
    <3> QED BY <1>2, <3>1, <3>4
  <2>5. CASE \/ box.then = "open" /\ OpenChatPage(ChatOf(box.client), box.client)
             \/ box.then = "nothing" /\ UNCHANGED <<ram, disk, page, contacts>>
    <3>1. WindowData' /\ written' = written
      <4>1. CASE box.then = "open" /\ OpenChatPage(ChatOf(box.client), box.client)
        <5>1. box.client \in Clients /\ ChatOf(box.client) \in Peers
          BY <2>2, <4>1 DEF Clients, ChatOf
        <5> QED BY <1>1, <2>1, <4>1, <5>1, OpeningKeepsData
      <4>2. CASE UNCHANGED <<ram, disk, page, contacts>>
        BY <1>1, <2>1, <4>2, DataUntouched DEF page, disk
      <4> QED BY <2>5, <4>1, <4>2
    <3>2. Events'
      BY <1>1, <2>1, <2>2, <3>1 DEF Events
    <3> QED BY <1>2, <3>1, <3>2
  <2> QED BY <2>3, <2>4, <2>5
<1>13. CASE ClickContact
  <2>1. PICK i \in 1 .. Len(contacts) : OpenChatPage(contacts[i].chat, contacts[i].client)
    BY <1>13 DEF ClickContact
  <2>2. contacts[i].chat \in Peers /\ contacts[i].client \in Clients
    BY <1>1, ContactFields DEF WindowData, Listed
  <2>3. UNCHANGED keys /\ UNCHANGED <<online, connected, listening, queued, dialogs>>
    BY <1>13 DEF ClickContact, network
  <2>4. WindowData' /\ written' = written
    BY <1>1, <2>1, <2>2, <2>3, OpeningKeepsData
  <2>5. Events'
    BY <1>1, <2>3, <2>4, EventsKept
  <2> QED BY <1>2, <2>4, <2>5
<1>14. CASE Restart
  <2>1. WindowData' /\ written' = written
    BY <1>1, <1>14, RestartKeepsData
  <2>2. /\ online' = {} /\ connected' = {} /\ listening' = listening
        /\ queued' = <<>> /\ dialogs' = <<>>
    BY <1>14 DEF Restart
  <2>3. Stacked(dialogs') /\ OnItsWay(dialogs') = {}
    BY <2>2, BoundsAssumption DEF Stacked, OnItsWay
  <2>4. Events'
    BY <1>1, <2>1, <2>2, <2>3 DEF Events
  <2> QED BY <1>2, <2>1, <2>4
<1>15. CASE UNCHANGED vars
  <2>1. WindowData'
    BY <1>1, <1>15, DataUntouched DEF vars, page
  <2>2. UNCHANGED <<online, connected, listening, queued, dialogs>> /\ written' = written
    BY <1>15 DEF vars, network, disk
  <2>3. Events'
    BY <1>1, <2>2, EventsKept
  <2> QED BY <1>2, <2>1, <2>3
<1> QED
  BY <1>4, <1>5, <1>6, <1>7, <1>8, <1>9, <1>10, <1>11, <1>12, <1>13, <1>14, <1>15
     DEF Next

\* What the invariant says of the types.
LEMMA WindowTypes == WindowInv /\ FlagInv => TypeOK
<1> SUFFICES ASSUME WindowInv, FlagInv PROVE TypeOK
  OBVIOUS
<1>1. Keys /\ Database /\ Memory /\ OpenPage /\ Listed(contacts, ram) /\ Events
      /\ MaxMessages \in Nat /\ written \in Nat /\ written <= MaxMessages + 1
  BY BoundsAssumption DEF WindowInv, Events, Database
<1>2. ASSUME NEW list \in Seq(Messages), \A i \in 1 .. Len(list) : list[i].id <= written
      PROVE  list \in Seq(Entries)
  <2>1. ASSUME NEW i \in 1 .. Len(list) PROVE list[i] \in Entries
    <3>1. list[i] \in Messages /\ list[i].id <= written
      BY <1>2
    <3>2. list[i].id \in 0 .. MaxMessages + 1
      BY <1>1, <3>1 DEF Messages
    <3> QED BY <3>1, <3>2 DEF Messages, Entries
  <2>2. list = [i \in 1 .. Len(list) |-> list[i]] /\ Len(list) \in Nat
    OBVIOUS
  <2> QED BY <2>1, <2>2
<1>3. \A p \in Peers : ram[p] \in Seq(Entries)
  BY <1>1, <1>2 DEF Memory
<1>4. shown \in Seq(Entries)
  BY <1>1, <1>2 DEF OpenPage
<1>5. \A i \in 1 .. Len(store) : store[i].chat \in Peers /\ store[i].sealed \in 1 .. opens
  <2>1. \A i \in 1 .. Len(store) : store[i] \in Stored
    BY <1>1 DEF Database
  <2> QED BY <1>1, <2>1 DEF Database, Stored
<1>6. {store[i].id : i \in 1 .. Len(store)} = 1 .. written \ unsaved
  BY <1>1 DEF Database
<1>7. ASSUME NEW p \in Peers PROVE Cardinality(Indices(p)) <= 1
  <2>1. ASSUME NEW i \in Indices(p), NEW j \in Indices(p) PROVE i = j
    <3>1. i \in 1 .. Len(contacts) /\ j \in 1 .. Len(contacts)
          /\ contacts[i].chat = contacts[j].chat
      BY DEF Indices
    <3>2. ~(i < j) /\ ~(j < i) /\ Len(contacts) \in Nat
      BY <1>1, <3>1 DEF Listed
    <3> QED BY <3>1, <3>2
  <2>2. CASE Indices(p) = {}
    <3>1. Cardinality(Indices(p)) = 0
      BY <2>2, FS_EmptySet
    <3> QED BY <3>1
  <2>3. CASE Indices(p) # {}
    <3>1. PICK i : Indices(p) = {i}
      BY <2>1, <2>3
    <3>2. Cardinality(Indices(p)) = 1
      BY <3>1, FS_Singleton
    <3> QED BY <3>2
  <2> QED BY <2>2, <2>3
<1>8. /\ enabled \in BOOLEAN /\ faults \in 0 .. MaxFaults
      /\ key \in 0 .. opens /\ saved.key \in 0 .. opens
      /\ current \in Peers \cup {NoChat}
      /\ clientText \in Clients \cup {NoClient} /\ flag \in BOOLEAN
      /\ contacts \in Seq(Contacts)
      /\ online \subseteq Peers /\ connected \subseteq Clients
      /\ listening \in [Peers -> Ports]
      /\ queued \in Seq(Clients) /\ Len(dialogs) <= MaxDialogs
  BY <1>1 DEF Keys, Database, OpenPage, Listed, Events, Stacked, FlagInv
<1> QED BY <1>3, <1>4, <1>5, <1>6, <1>7, <1>8 DEF TypeOK

\* The handlers of the window keep the whole invariant, in every nesting of
\* their message boxes.
THEOREM WindowInvariant == Spec => []WindowInv
BY InitWindow, StepWindow, PTL DEF Spec

\* The state keeps its shape: one contact per chat, every message saved or
\* known to have failed.
THEOREM WindowTypeCorrect == Spec => []TypeOK
<1>1. Init => FlagInv
  BY DEF Init, FlagInv, OnlineFlagRight
<1> QED
  BY <1>1, InitWindow, StepWindow, StepFlag, WindowTypes, PTL DEF Spec

\* Memory is the latest part of what is on disk, whichever saves, loads and
\* starts of the database fail.
THEOREM HistoryWithoutGaps == Spec => []RamIsRecentHistory
<1>1. WindowInv => RamIsRecentHistory
  BY DEF WindowInv, Memory
<1> QED BY <1>1, WindowInvariant, PTL

\* The open page misses nothing of its chat, whatever was sent and received
\* while message boxes were open.
THEOREM PageMissesNothing == Spec => []ShownIsComplete
<1>1. WindowInv => ShownIsComplete
  BY DEF WindowInv, OpenPage
<1> QED BY <1>1, WindowInvariant, PTL

\* The contact list has the chats in the order of their latest messages.
THEOREM ContactsInOrder == Spec => []ContactsByRecency
<1>1. WindowInv => ContactsByRecency
  BY DEF WindowInv, Listed, ContactsByRecency, Latest, Newest
<1> QED BY <1>1, WindowInvariant, PTL
=============================================================================
