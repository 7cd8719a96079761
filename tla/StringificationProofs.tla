----------------------- MODULE StringificationProofs -----------------------
(* Log lines show the values that are logged, however deep they are nested,   *)
(* in buffers of any length.                                                  *)
EXTENDS Stringification, Integers, Sequences, SequenceTheorems,
        WellFoundedInduction, TLAPS

-----------------------------------------------------------------------------
(* Induction: a set with 0 and the successor of each of its numbers. *)
LEMMA Upwards ==
  ASSUME NEW D, 0 \in D, \A n \in Nat : n \in D => n + 1 \in D
  PROVE  \A n \in Nat : n \in D
  <1> DEFINE R == OpToRel(<, Nat)
  <1> SUFFICES ASSUME NEW n \in Nat, n \notin D
               PROVE  FALSE
    OBVIOUS
  <1>1. IsWellFoundedOn(R, Nat)
    BY NatLessThanWellFounded
  <1>2. \A i, j \in Nat : <<i, j>> \in R <=> i < j
    BY DEF OpToRel
  <1> HIDE DEF R
  <1>3. PICK least \in Nat \ D : \A y \in Nat \ D : ~(<<y, least>> \in R)
    BY <1>1, WFMin
  <1>4. least \in Nat /\ least # 0
    OBVIOUS
  <1>5. least - 1 \in Nat /\ least - 1 < least
    BY <1>4
  <1>6. least - 1 \in D
    BY <1>2, <1>3, <1>5
  <1>7. (least - 1) + 1 \in D /\ (least - 1) + 1 = least
    BY <1>4, <1>5, <1>6
  <1> QED
    BY <1>3, <1>7

(* A function on 1..m is a sequence of length m. *)
LEMMA ListIsSeq ==
  ASSUME NEW S, NEW m \in Nat, NEW s \in [1..m -> S]
  PROVE  s \in Seq(S) /\ Len(s) = m
  <1>1. s \in Seq(S)
    BY SeqDef
  <1>2. Len(s) \in Nat /\ DOMAIN s = 1..Len(s) /\ DOMAIN s = 1..m
    BY <1>1, LenProperties
  <1> QED
    BY <1>1, <1>2

(* Concatenation joins the pieces one by one. *)
LEMMA JoinedTexts ==
  ASSUME NEW n \in Nat, NEW pieces \in [1..n -> Texts]
  PROVE  \E upto \in [0..n -> Texts] :
           /\ upto[0] = <<>>
           /\ \A i \in 1..n : upto[i] = upto[i - 1] \o pieces[i]
           /\ Concatenation(pieces) = upto[n]
  <1> DEFINE Step(g, i) == IF i = 0 THEN <<>> ELSE g[i - 1] \o pieces[i]
             Follows(g, m) == g = [i \in 0..m |-> Step(g, i)]
             D == {m \in Nat : \E g : Follows(g, m)}
             upto == CHOOSE g : Follows(g, n)
  <1>1. 0 \in D
    <2> DEFINE g == [i \in 0..0 |-> <<>>]
    <2>1. Follows(g, 0)
      OBVIOUS
    <2> HIDE DEF g, Follows
    <2> QED
      BY <2>1
  <1>2. ASSUME NEW m \in Nat, m \in D
        PROVE  m + 1 \in D
    <2>1. PICK g : Follows(g, m)
      <3> HIDE DEF Follows
      <3> QED
        BY <1>2
    <2> DEFINE h == [i \in 0..(m + 1) |-> IF i = m + 1 THEN Step(g, m + 1) ELSE g[i]]
    <2>2. \A i \in 0..m : g[i] = Step(g, i)
      BY <2>1
    <2>3. \A i \in 0..m : h[i] = g[i]
      <3> HIDE DEF Step
      <3> QED
        OBVIOUS
    <2>4. h[m + 1] = Step(g, m + 1)
      <3> HIDE DEF Step
      <3> QED
        OBVIOUS
    <2>5. \A i \in 0..(m + 1) : Step(h, i) = Step(g, i)
      <3> HIDE DEF h
      <3> SUFFICES ASSUME NEW i \in 0..(m + 1)
                   PROVE  Step(h, i) = Step(g, i)
        OBVIOUS
      <3>1. i # 0 => i - 1 \in 0..m
        OBVIOUS
      <3>2. i # 0 => h[i - 1] = g[i - 1]
        BY <2>3, <3>1
      <3> QED
        BY <3>2
    <2>6. \A i \in 0..(m + 1) : h[i] = Step(h, i)
      <3> HIDE DEF Step, h
      <3>1. \A i \in 0..(m + 1) : i \in 0..m \/ i = m + 1
        OBVIOUS
      <3> QED
        BY <2>2, <2>3, <2>4, <2>5, <3>1
    <2>7. Follows(h, m + 1)
      <3> HIDE DEF Step
      <3>1. h = [i \in 0..(m + 1) |-> h[i]]
        OBVIOUS
      <3> HIDE DEF h
      <3> QED
        BY <2>6, <3>1
    <2> HIDE DEF h, Follows
    <2> QED
      BY <2>7
  <1>3. n \in D
    <2> HIDE DEF D
    <2> QED
      BY <1>1, <1>2, Upwards
  <1>4. Follows(upto, n)
    <2> HIDE DEF Follows
    <2> QED
      BY <1>3
  <1>5. upto = [i \in 0..n |-> upto[i]] /\ \A i \in 0..n : upto[i] = Step(upto, i)
    <2> HIDE DEF upto, Step
    <2> QED
      BY <1>4
  <1>6. upto[0] = <<>> /\ \A i \in 1..n : upto[i] = upto[i - 1] \o pieces[i]
    <2> HIDE DEF upto
    <2>1. 0 \in 0..n /\ \A i \in 1..n : i \in 0..n /\ i # 0
      OBVIOUS
    <2> QED
      BY <1>5, <2>1
  <1>7. Concatenation(pieces) = upto[n]
    <2>1. Len(pieces) = n
      BY ListIsSeq
    <2> QED
      BY <2>1 DEF Concatenation
  <1> HIDE DEF upto
  <1> DEFINE E == {i \in Nat : i <= n => upto[i] \in Texts}
  <1>8. 0 \in E
    BY <1>6, EmptySeq DEF Texts
  <1>9. ASSUME NEW i \in Nat, i \in E
        PROVE  i + 1 \in E
    <2> SUFFICES ASSUME i + 1 <= n
                 PROVE  upto[i + 1] \in Texts
      OBVIOUS
    <2>1. i + 1 \in 1..n /\ (i + 1) - 1 = i
      OBVIOUS
    <2>2. upto[i + 1] = upto[i] \o pieces[i + 1]
      BY <1>6, <2>1
    <2>3. upto[i] \in Texts /\ pieces[i + 1] \in Texts
      BY <1>9, <2>1
    <2> QED
      BY <2>2, <2>3, ConcatProperties DEF Texts
  <1>10. \A i \in Nat : i \in E
    <2> HIDE DEF E
    <2> QED
      BY <1>8, <1>9, Upwards
  <1>11. upto \in [0..n -> Texts]
    <2>1. \A i \in 0..n : upto[i] \in Texts
      BY <1>10
    <2> QED
      BY <1>5, <2>1
  <1> QED
    BY <1>6, <1>7, <1>11

-----------------------------------------------------------------------------
(* Values inside values. *)
LEMMA Nested ==
  /\ \A v \in Loggable :
       /\ Nesting[v] \in Nat
       /\ Inside(v) \in Seq(Loggable)
       /\ \A i \in DOMAIN Inside(v) :
            /\ Inside(v)[i] \in Loggable
            /\ Nesting[Inside(v)[i]] \in Nat
            /\ Nesting[Inside(v)[i]] < Nesting[v]
  /\ \E n \in Nat : \A v \in Loggable : Nesting[v] < n
  <1>1. ASSUME NEW v \in Loggable
        PROVE  /\ Nesting[v] \in Nat
               /\ Inside(v) \in Seq(Loggable)
               /\ \A i \in DOMAIN Inside(v) :
                    /\ Inside(v)[i] \in Loggable
                    /\ Nesting[Inside(v)[i]] \in Nat
                    /\ Nesting[Inside(v)[i]] < Nesting[v]
    <2>1. Nesting \in [Loggable -> Nat] /\ Inside(v) \in Seq(Loggable)
          /\ \A i \in DOMAIN Inside(v) : Nesting[Inside(v)[i]] < Nesting[v]
      BY LogAssumption
    <2> DEFINE s == Inside(v)
    <2> HIDE DEF s
    <2>2. s \in Seq(Loggable)
      BY <2>1 DEF s
    <2>3. DOMAIN s = 1..Len(s) /\ \A i \in 1..Len(s) : s[i] \in Loggable
      BY <2>2, LenProperties, ElementOfSeq
    <2> QED
      BY <2>1, <2>3 DEF s
  <1>2. PICK deepest \in Loggable : \A v \in Loggable : Nesting[v] <= Nesting[deepest]
    BY LogAssumption
  <1>3. Nesting[deepest] + 1 \in Nat
        /\ \A v \in Loggable : Nesting[v] < Nesting[deepest] + 1
    BY <1>1, <1>2
  <1> QED
    BY <1>1, <1>3

(* The recursive functions of Stringification are defined by their equations: *)
(* nothing is inside itself.                                                  *)
LEMMA RecursionIs ==
  /\ ValueToString =
       [v \in Loggable |-> Writer(v, [i \in DOMAIN Inside(v) |-> ValueToString[Inside(v)[i]]])]
  /\ Shown =
       [v \in Loggable |-> TextOf(v, [i \in DOMAIN Inside(v) |-> Shown[Inside(v)[i]]])]
  /\ HasStruct =
       [v \in Loggable |-> AnyStruct(v, [i \in DOMAIN Inside(v) |-> HasStruct[Inside(v)[i]]])]
  <1> DEFINE Of(f, v) ==
               <<Writer(v, [i \in DOMAIN Inside(v) |-> f[Inside(v)[i]][1]]),
                 TextOf(v, [i \in DOMAIN Inside(v) |-> f[Inside(v)[i]][2]]),
                 AnyStruct(v, [i \in DOMAIN Inside(v) |-> f[Inside(v)[i]][3]])>>
             Holds(f, d) == \A v \in Loggable : Nesting[v] < d => f[v] = Of(f, v)
             D == {d \in Nat : \E f : Holds(f, d)}
  <1>1. 0 \in D
    <2> DEFINE f == <<>>
    <2>1. \A v \in Loggable : ~(Nesting[v] < 0)
      BY Nested
    <2> HIDE DEF f, Of
    <2>2. Holds(f, 0)
      BY <2>1
    <2> HIDE DEF Holds
    <2> QED
      BY <2>2
  <1>2. ASSUME NEW d \in Nat, d \in D
        PROVE  d + 1 \in D
    <2>1. PICK f : Holds(f, d)
      <3> HIDE DEF Holds
      <3> QED
        BY <1>2
    <2> HIDE DEF Of
    <2> DEFINE g == [v \in Loggable |-> IF Nesting[v] < d THEN f[v] ELSE Of(f, v)]
    <2>2. \A v \in Loggable : Nesting[v] < d => g[v] = f[v]
      OBVIOUS
    <2>3. \A v \in Loggable : g[v] = Of(f, v)
      BY <2>1
    <2> HIDE DEF g
    <2>4. ASSUME NEW v \in Loggable, Nesting[v] < d + 1
          PROVE  g[v] = Of(g, v)
      <3>1. ASSUME NEW i \in DOMAIN Inside(v)
            PROVE  f[Inside(v)[i]] = g[Inside(v)[i]]
        <4>1. Inside(v)[i] \in Loggable /\ Nesting[Inside(v)[i]] < d
          BY <2>4, Nested
        <4> QED
          BY <2>2, <4>1
      <3>2. ASSUME NEW k \in {1, 2, 3}
            PROVE  [i \in DOMAIN Inside(v) |-> f[Inside(v)[i]][k]]
                     = [i \in DOMAIN Inside(v) |-> g[Inside(v)[i]][k]]
        BY <3>1
      <3>3. Of(f, v) = Of(g, v)
        <4>1. 1 \in {1, 2, 3} /\ 2 \in {1, 2, 3} /\ 3 \in {1, 2, 3}
          OBVIOUS
        <4> QED
          BY <3>2, <4>1, Zenon DEF Of
      <3> QED
        BY <2>3, <3>3
    <2>5. Holds(g, d + 1)
      BY <2>4
    <2> HIDE DEF Holds
    <2> QED
      BY <2>5
  <1>3. PICK n \in Nat : \A v \in Loggable : Nesting[v] < n
    BY Nested
  <1>4. n \in D
    <2> HIDE DEF D
    <2> QED
      BY <1>1, <1>2, Upwards
  <1>5. PICK f : Holds(f, n)
    <2> HIDE DEF Holds
    <2> QED
      BY <1>4
  <1>6. \A v \in Loggable : f[v] = Of(f, v)
    <2> HIDE DEF Of
    <2> QED
      BY <1>3, <1>5
  <1> DEFINE a == [v \in Loggable |-> f[v][1]]
             b == [v \in Loggable |-> f[v][2]]
             c == [v \in Loggable |-> f[v][3]]
             WriterSolves(h) ==
               h = [v \in Loggable |-> Writer(v, [i \in DOMAIN Inside(v) |-> h[Inside(v)[i]]])]
             TextSolves(h) ==
               h = [v \in Loggable |-> TextOf(v, [i \in DOMAIN Inside(v) |-> h[Inside(v)[i]]])]
             StructSolves(h) ==
               h = [v \in Loggable |-> AnyStruct(v, [i \in DOMAIN Inside(v) |-> h[Inside(v)[i]]])]
  <1>7. ASSUME NEW v \in Loggable
        PROVE  /\ [i \in DOMAIN Inside(v) |-> f[Inside(v)[i]][1]]
                    = [i \in DOMAIN Inside(v) |-> a[Inside(v)[i]]]
               /\ [i \in DOMAIN Inside(v) |-> f[Inside(v)[i]][2]]
                    = [i \in DOMAIN Inside(v) |-> b[Inside(v)[i]]]
               /\ [i \in DOMAIN Inside(v) |-> f[Inside(v)[i]][3]]
                    = [i \in DOMAIN Inside(v) |-> c[Inside(v)[i]]]
    <2>1. \A i \in DOMAIN Inside(v) : Inside(v)[i] \in Loggable
      BY Nested
    <2> QED
      BY <2>1
  <1>8. WriterSolves(a) /\ TextSolves(b) /\ StructSolves(c)
    <2>1. \A v \in Loggable :
            /\ f[v][1] = Writer(v, [i \in DOMAIN Inside(v) |-> a[Inside(v)[i]]])
            /\ f[v][2] = TextOf(v, [i \in DOMAIN Inside(v) |-> b[Inside(v)[i]]])
            /\ f[v][3] = AnyStruct(v, [i \in DOMAIN Inside(v) |-> c[Inside(v)[i]]])
      <3> HIDE DEF a, b, c
      <3> SUFFICES ASSUME NEW v \in Loggable
                   PROVE  /\ f[v][1] = Writer(v, [i \in DOMAIN Inside(v) |-> a[Inside(v)[i]]])
                          /\ f[v][2] = TextOf(v, [i \in DOMAIN Inside(v) |-> b[Inside(v)[i]]])
                          /\ f[v][3] = AnyStruct(v, [i \in DOMAIN Inside(v) |-> c[Inside(v)[i]]])
        OBVIOUS
      <3>1. f[v] = <<Writer(v, [i \in DOMAIN Inside(v) |-> a[Inside(v)[i]]]),
                     TextOf(v, [i \in DOMAIN Inside(v) |-> b[Inside(v)[i]]]),
                     AnyStruct(v, [i \in DOMAIN Inside(v) |-> c[Inside(v)[i]]])>>
        BY <1>6, <1>7, Zenon DEF Of
      <3> DEFINE x == Writer(v, [i \in DOMAIN Inside(v) |-> a[Inside(v)[i]]])
                 y == TextOf(v, [i \in DOMAIN Inside(v) |-> b[Inside(v)[i]]])
                 z == AnyStruct(v, [i \in DOMAIN Inside(v) |-> c[Inside(v)[i]]])
      <3>2. f[v] = <<x, y, z>>
        BY <3>1
      <3> HIDE DEF x, y, z
      <3>3. f[v][1] = x /\ f[v][2] = y /\ f[v][3] = z
        BY <3>2
      <3> QED
        BY <3>3 DEF x, y, z
    <2> QED
      BY <2>1, Zenon
  <1>9. /\ ValueToString = CHOOSE h : WriterSolves(h)
        /\ Shown = CHOOSE h : TextSolves(h)
        /\ HasStruct = CHOOSE h : StructSolves(h)
    BY DEF ValueToString, Shown, HasStruct
  <1> HIDE DEF a, b, c
  <1>10. WriterSolves(ValueToString) /\ TextSolves(Shown) /\ StructSolves(HasStruct)
    <2> HIDE DEF WriterSolves, TextSolves, StructSolves
    <2> QED
      BY <1>8, <1>9
  <1> QED
    BY <1>10

(* The buffer before the first of some writers and behind each of them. *)
LEMMA InTurnIs ==
  ASSUME NEW n \in Nat, NEW writers, Len(writers) = n, NEW w
  PROVE  /\ InTurn(writers, w)[0] = w
         /\ \A i \in 1..n :
              InTurn(writers, w)[i] = writers[i][InTurn(writers, w)[i - 1]]
  <1> DEFINE Step(g, i) == IF i = 0 THEN w ELSE writers[i][g[i - 1]]
             Follows(g, m) == g = [i \in 0..m |-> Step(g, i)]
             D == {m \in Nat : \E g : Follows(g, m)}
             upto == CHOOSE g : Follows(g, n)
  <1>1. 0 \in D
    <2> DEFINE g == [i \in 0..0 |-> w]
    <2>1. Follows(g, 0)
      OBVIOUS
    <2> HIDE DEF g, Follows
    <2> QED
      BY <2>1
  <1>2. ASSUME NEW m \in Nat, m \in D
        PROVE  m + 1 \in D
    <2>1. PICK g : Follows(g, m)
      <3> HIDE DEF Follows
      <3> QED
        BY <1>2
    <2> DEFINE h == [i \in 0..(m + 1) |-> IF i = m + 1 THEN Step(g, m + 1) ELSE g[i]]
    <2>2. \A i \in 0..m : g[i] = Step(g, i)
      BY <2>1
    <2>3. \A i \in 0..m : h[i] = g[i]
      <3> HIDE DEF Step
      <3> QED
        OBVIOUS
    <2>4. h[m + 1] = Step(g, m + 1)
      <3> HIDE DEF Step
      <3> QED
        OBVIOUS
    <2>5. \A i \in 0..(m + 1) : Step(h, i) = Step(g, i)
      <3> HIDE DEF h
      <3> SUFFICES ASSUME NEW i \in 0..(m + 1)
                   PROVE  Step(h, i) = Step(g, i)
        OBVIOUS
      <3>1. i # 0 => i - 1 \in 0..m
        OBVIOUS
      <3>2. i # 0 => h[i - 1] = g[i - 1]
        BY <2>3, <3>1
      <3> QED
        BY <3>2
    <2>6. \A i \in 0..(m + 1) : h[i] = Step(h, i)
      <3> HIDE DEF Step, h
      <3>1. \A i \in 0..(m + 1) : i \in 0..m \/ i = m + 1
        OBVIOUS
      <3> QED
        BY <2>2, <2>3, <2>4, <2>5, <3>1
    <2>7. Follows(h, m + 1)
      <3> HIDE DEF Step
      <3>1. h = [i \in 0..(m + 1) |-> h[i]]
        OBVIOUS
      <3> HIDE DEF h
      <3> QED
        BY <2>6, <3>1
    <2> HIDE DEF h, Follows
    <2> QED
      BY <2>7
  <1>3. n \in D
    <2> HIDE DEF D
    <2> QED
      BY <1>1, <1>2, Upwards
  <1>4. Follows(upto, n)
    <2> HIDE DEF Follows
    <2> QED
      BY <1>3
  <1>5. upto = [i \in 0..n |-> upto[i]] /\ \A i \in 0..n : upto[i] = Step(upto, i)
    <2> HIDE DEF upto, Step
    <2> QED
      BY <1>4
  <1>6. upto[0] = w /\ \A i \in 1..n : upto[i] = writers[i][upto[i - 1]]
    <2> HIDE DEF upto
    <2>1. 0 \in 0..n /\ \A i \in 1..n : i \in 0..n /\ i # 0
      OBVIOUS
    <2> QED
      BY <1>5, <2>1
  <1>7. InTurn(writers, w) = upto
    BY DEF InTurn
  <1> HIDE DEF upto
  <1> QED
    BY <1>6, <1>7

-----------------------------------------------------------------------------
(* Buffers and texts. *)
(* A buffer of the given size into which a text has been written, as far as   *)
(* it reaches.                                                                *)
Written(w, text, size) ==
  /\ w \in LogBuffers /\ text \in Texts
  /\ Len(w.buffer) = size
  /\ w.pos = Least(Len(text), size)
  /\ \A i \in 1..w.pos : w.buffer[i] = text[i]

(* A log buffer is the record of its two fields. *)
LEMMA BufferIs ==
  /\ \A w \in LogBuffers : /\ w.buffer \in Texts /\ w.pos \in Int
                           /\ w = [buffer |-> w.buffer, pos |-> w.pos]
  /\ \A b \in Texts, p \in Int : [buffer |-> b, pos |-> p] \in LogBuffers
  <1> HIDE DEF Texts
  <1> QED
    BY DEF LogBuffers

(* Two texts behind one another: the length and every character. *)
LEMMA TextJoins ==
  ASSUME NEW a \in Texts, NEW b \in Texts
  PROVE  /\ Len(a) \in Nat /\ Len(b) \in Nat
         /\ a \o b \in Texts /\ Len(a \o b) = Len(a) + Len(b)
         /\ \A i \in 1..(Len(a) + Len(b)) :
              (a \o b)[i] = IF i <= Len(a) THEN a[i] ELSE b[i - Len(a)]
         /\ <<>> \o a = a /\ a \o <<>> = a
         /\ \A i \in 1..Len(a) : a[i] \in Chars
  BY LenProperties, ConcatProperties, ConcatEmptySeq, ElementOfSeq DEF Texts

(* The order in which texts are joined.                                       *)
Associates(a, b, c) == (a \o b) \o c = a \o (b \o c)
AllAssociate(t, a, b, c, d) ==
  (((t \o a) \o b) \o c) \o d = t \o (((a \o b) \o c) \o d)

(* Joining three texts in either order gives the same text. *)
LEMMA TextsAssociate ==
  ASSUME NEW a \in Texts, NEW b \in Texts, NEW c \in Texts
  PROVE  Associates(a, b, c)
  BY ConcatAssociative DEF Texts, Associates

(* The same for the text so far and four pieces. *)
LEMMA FiveTextsAssociate ==
  ASSUME NEW t \in Texts, NEW a \in Texts, NEW b \in Texts, NEW c \in Texts, NEW d \in Texts
  PROVE  AllAssociate(t, a, b, c, d)
  <1> DEFINE x == a \o b
  <1>1. x \in Texts
    BY TextJoins
  <1>2. Associates(t, a, b)
    BY TextsAssociate
  <1> HIDE DEF x
  <1> DEFINE y == x \o c
  <1>3. y \in Texts
    BY <1>1, TextJoins
  <1>4. Associates(t, x, c)
    BY <1>1, TextsAssociate
  <1> HIDE DEF y
  <1>5. Associates(t, y, d)
    BY <1>3, TextsAssociate
  <1> QED
    BY <1>2, <1>4, <1>5 DEF x, y, Associates, AllAssociate

(* A part of a text is a text: its length and every character. *)
LEMMA Cuts ==
  ASSUME NEW a \in Texts, NEW m \in Int, NEW n \in Int,
         1 <= m, m <= n + 1, n <= Len(a)
  PROVE  /\ SubSeq(a, m, n) \in Texts
         /\ Len(SubSeq(a, m, n)) = n - m + 1
         /\ \A i \in 1..(n - m + 1) : SubSeq(a, m, n)[i] = a[m + i - 1]
  BY SubSeqProperties, LenProperties DEF Texts

(* std::format_to_n: m characters of a text behind the first at of a buffer.  *)
Overwritten(b, text, at, m) ==
  SubSeq(b, 1, at) \o SubSeq(text, 1, m) \o SubSeq(b, at + m + 1, Len(b))

(* Writing m characters at a place changes those and no others. *)
LEMMA Overwrites ==
  ASSUME NEW b \in Texts, NEW text \in Texts, NEW at \in Nat, NEW m \in Nat,
         at + m <= Len(b), m <= Len(text)
  PROVE  LET r == Overwritten(b, text, at, m)
         IN  /\ r \in Texts /\ Len(r) = Len(b)
             /\ \A i \in 1..at : r[i] = b[i]
             /\ \A i \in 1..m : r[at + i] = text[i]
  <1> DEFINE before == SubSeq(b, 1, at)
             new == SubSeq(text, 1, m)
             behind == SubSeq(b, at + m + 1, Len(b))
  <1>1. Len(b) \in Nat /\ Len(text) \in Nat
    BY TextJoins
  <1>2. /\ before \in Texts /\ Len(before) = at
        /\ \A i \in 1..at : before[i] = b[i]
    BY <1>1, Cuts
  <1>3. /\ new \in Texts /\ Len(new) = m
        /\ \A i \in 1..m : new[i] = text[i]
    BY <1>1, Cuts
  <1>4. behind \in Texts /\ Len(behind) = Len(b) - at - m
    BY <1>1, Cuts
  <1> HIDE DEF before, new, behind
  <1>5. /\ before \o new \in Texts /\ Len(before \o new) = at + m
        /\ \A i \in 1..(at + m) :
             (before \o new)[i] = IF i <= at THEN before[i] ELSE new[i - at]
    BY <1>2, <1>3, TextJoins
  <1> DEFINE first == before \o new
  <1> HIDE DEF first
  <1>6. first \in Texts /\ Len(first) = at + m
    BY <1>5 DEF first
  <1>7. /\ first \o behind \in Texts /\ Len(first \o behind) = Len(b)
        /\ \A i \in 1..(at + m) : (first \o behind)[i] = first[i]
    <2>1. /\ first \o behind \in Texts
          /\ Len(first \o behind) = Len(first) + Len(behind)
          /\ \A i \in 1..(Len(first) + Len(behind)) :
               (first \o behind)[i] = IF i <= Len(first) THEN first[i]
                                      ELSE behind[i - Len(first)]
      BY <1>4, <1>6, TextJoins
    <2>2. Len(first) + Len(behind) = Len(b) /\ at + m <= Len(b)
      BY <1>1, <1>4, <1>6
    <2> QED
      BY <1>1, <1>6, <2>1, <2>2
  <1>8. \A i \in 1..at : first[i] = b[i]
    BY <1>2, <1>5 DEF first
  <1>9. \A i \in 1..m : first[at + i] = text[i]
    <2>1. \A i \in 1..m : at + i \in 1..(at + m) /\ ~(at + i <= at) /\ (at + i) - at = i
      OBVIOUS
    <2> QED
      BY <1>3, <1>5, <2>1 DEF first
  <1>10. \A i \in 1..m : at + i \in 1..(at + m)
    OBVIOUS
  <1>11. \A i \in 1..at : i \in 1..(at + m)
    OBVIOUS
  <1> QED
    BY <1>7, <1>8, <1>9, <1>10, <1>11 DEF before, new, behind, first, Overwritten

(* What a writer that appends m characters of a text leaves. *)
LEMMA Appends ==
  ASSUME NEW w, NEW text, NEW size, Written(w, text, size), NEW more \in Texts,
         NEW m \in Nat, m <= Len(more), w.pos = Len(text), Len(text) + m <= size,
         m = Len(more) \/ Len(text) + m = size,
         NEW x, x = [WriteN(w, more, m) EXCEPT !.pos = w.pos + m]
  PROVE  Written(x, text \o more, size)
  <1> DEFINE at == Len(text)
             b == w.buffer
  <1>1. /\ b \in Texts /\ w.pos \in Int /\ text \in Texts /\ Len(b) = size
        /\ w = [buffer |-> b, pos |-> w.pos] /\ w.pos = at
        /\ \A i \in 1..at : b[i] = text[i]
    BY BufferIs DEF Written
  <1>2. at \in Nat /\ size \in Nat /\ Len(more) \in Nat
    BY <1>1, TextJoins
  <1> HIDE DEF at, b
  <1> DEFINE r == Overwritten(b, more, at, m)
  <1>3. /\ r \in Texts /\ Len(r) = size
        /\ \A i \in 1..at : r[i] = b[i]
        /\ \A i \in 1..m : r[at + i] = more[i]
    <2>1. at + m <= Len(b) /\ m <= Len(more) /\ Len(b) = size
      BY <1>1 DEF at
    <2> QED
      BY <1>1, <1>2, <2>1, Overwrites
  <1>4. WriteN(w, more, m) = [w EXCEPT !.buffer = r]
    <2>1. Least(w.pos, size) = at /\ Least(m, size - at) = m
      BY <1>1, <1>2 DEF Least, at
    <2> QED
      BY <1>1, <2>1 DEF WriteN, b, Overwritten
  <1> HIDE DEF r
  <1>5. x = [buffer |-> r, pos |-> at + m]
    BY <1>1, <1>4
  <1>6. x \in LogBuffers /\ x.buffer = r /\ x.pos = at + m
    <2> DEFINE p == at + m
    <2>1. p \in Int
      BY <1>2
    <2> HIDE DEF p
    <2>2. [buffer |-> r, pos |-> p] \in LogBuffers
      BY <1>3, <2>1, BufferIs
    <2>3. x = [buffer |-> r, pos |-> p]
      BY <1>5 DEF p
    <2>4. x \in LogBuffers
      BY <2>2, <2>3
    <2>5. x.buffer = r /\ x.pos = p
      BY <2>3
    <2> QED
      BY <2>4, <2>5 DEF p
  <1>7. /\ text \o more \in Texts /\ Len(text \o more) = at + Len(more)
        /\ \A i \in 1..(at + Len(more)) :
             (text \o more)[i] = IF i <= at THEN text[i] ELSE more[i - at]
    BY <1>1, TextJoins DEF at
  <1>8. at + m = Least(at + Len(more), size)
    BY <1>2 DEF Least, at
  <1>9. \A i \in 1..(at + m) : r[i] = (text \o more)[i]
    <2> SUFFICES ASSUME NEW i \in 1..(at + m)
                 PROVE  r[i] = (text \o more)[i]
      OBVIOUS
    <2>1. i \in 1..(at + Len(more))
      BY <1>2
    <2>2. CASE i <= at
      <3>1. i \in 1..at
        BY <1>2, <2>2
      <3> QED
        BY <1>1, <1>3, <1>7, <2>1, <2>2, <3>1
    <2>3. CASE ~(i <= at)
      <3>1. i - at \in 1..m /\ at + (i - at) = i
        BY <1>2, <2>3
      <3>2. r[i] = more[i - at]
        <4> DEFINE k == i - at
        <4>1. k \in 1..m /\ at + k = i
          BY <3>1
        <4> HIDE DEF k
        <4>2. r[i] = more[k]
          BY <1>3, <4>1
        <4> QED
          BY <4>2 DEF k
      <3> QED
        BY <1>7, <2>1, <2>3, <3>2
    <2> QED
      BY <2>2, <2>3
  <1> QED
    BY <1>3, <1>6, <1>7, <1>8, <1>9 DEF Written

(* FORMAT_TO writes behind what is there, as far as the buffer reaches.       *)
LEMMA FormatWrites ==
  ASSUME NEW w, NEW text, NEW size, Written(w, text, size), NEW more \in Texts
  PROVE  Written(FormatTo(w, more), text \o more, size)
  <1> DEFINE n == Least(Len(more), size - w.pos)
  <1>1. /\ w.buffer \in Texts /\ text \in Texts /\ Len(w.buffer) = size
        /\ w.pos = Least(Len(text), size)
    BY BufferIs DEF Written
  <1>2. Len(text) \in Nat /\ size \in Nat /\ Len(more) \in Nat
    BY <1>1, TextJoins
  <1>3. CASE w.pos < size
    <2>1. w.pos = Len(text) /\ Len(text) < size
      BY <1>1, <1>2, <1>3 DEF Least
    <2>2. n \in Nat /\ n <= Len(more) /\ Len(text) + n <= size
          /\ (n = Len(more) \/ Len(text) + n = size)
      BY <1>2, <2>1 DEF Least
    <2>3. FormatTo(w, more) = [WriteN(w, more, n) EXCEPT !.pos = w.pos + n]
      BY <1>1, <1>3 DEF FormatTo
    <2> HIDE DEF n
    <2> QED
      BY <2>1, <2>2, <2>3, Appends
  <1>4. CASE ~(w.pos < size)
    <2>1. FormatTo(w, more) = w
      BY <1>1, <1>4 DEF FormatTo
    <2>2. w.pos = size /\ size <= Len(text)
      BY <1>1, <1>2, <1>4 DEF Least
    <2>3. /\ text \o more \in Texts /\ Len(text \o more) = Len(text) + Len(more)
          /\ \A i \in 1..(Len(text) + Len(more)) :
               (text \o more)[i] = IF i <= Len(text) THEN text[i] ELSE more[i - Len(text)]
      BY <1>1, TextJoins
    <2>4. Least(Len(text) + Len(more), size) = size
      BY <1>2, <2>2 DEF Least
    <2>5. \A i \in 1..size : (text \o more)[i] = text[i]
      BY <1>2, <2>2, <2>3
    <2> QED
      BY <2>1, <2>2, <2>3, <2>4, <2>5 DEF Written
  <1> QED
    BY <1>3, <1>4

(* That of kv_to_string does, where there is room for all of it. *)
LEMMA FormatKeyWrites ==
  ASSUME NEW w, NEW text, NEW size, Written(w, text, size), NEW more \in Texts,
         Len(text) + Len(more) <= size
  PROVE  Written(FormatKeyTo(w, more), text \o more, size)
  <1>1. /\ w.buffer \in Texts /\ text \in Texts /\ Len(w.buffer) = size
        /\ w.pos = Least(Len(text), size)
    BY BufferIs DEF Written
  <1>2. Len(text) \in Nat /\ size \in Nat /\ Len(more) \in Nat
    BY <1>1, TextJoins
  <1>3. w.pos = Len(text) /\ Least(Len(more), size) = Len(more)
    BY <1>1, <1>2 DEF Least
  <1>4. FormatKeyTo(w, more) = [WriteN(w, more, Len(more)) EXCEPT !.pos = w.pos + Len(more)]
    BY <1>1, <1>3 DEF FormatKeyTo
  <1> DEFINE m == Len(more)
  <1>5. m \in Nat /\ m <= Len(more) /\ Len(text) + m <= size
    BY <1>2
  <1>6. FormatKeyTo(w, more) = [WriteN(w, more, m) EXCEPT !.pos = w.pos + m]
        /\ m = Len(more)
    BY <1>4
  <1> HIDE DEF m
  <1> QED
    BY <1>3, <1>5, <1>6, Appends

(* pos -= 2 takes a ", " back that has been written. *)
LEMMA TakesBack ==
  ASSUME NEW w, NEW text \in Texts, NEW last \in Texts, Len(last) = 2, NEW size,
         Written(w, text \o last, size), Len(text) + 2 <= size
  PROVE  Written([w EXCEPT !.pos = w.pos - 2], text, size)
  <1> DEFINE b == w.buffer
             p == w.pos
  <1>1. /\ b \in Texts /\ p \in Int /\ Len(b) = size
        /\ w = [buffer |-> b, pos |-> p]
        /\ p = Least(Len(text \o last), size)
        /\ \A i \in 1..p : b[i] = (text \o last)[i]
    BY BufferIs DEF Written
  <1> HIDE DEF b, p
  <1>2. /\ Len(text) \in Nat /\ size \in Nat /\ Len(text \o last) = Len(text) + 2
        /\ \A i \in 1..(Len(text) + 2) :
             (text \o last)[i] = IF i <= Len(text) THEN text[i] ELSE last[i - Len(text)]
    <2>1. Len(b) \in Nat
      BY <1>1, TextJoins
    <2>2. /\ Len(text) \in Nat /\ Len(text \o last) = Len(text) + Len(last)
          /\ \A i \in 1..(Len(text) + Len(last)) :
               (text \o last)[i] = IF i <= Len(text) THEN text[i] ELSE last[i - Len(text)]
      BY TextJoins
    <2> QED
      BY <1>1, <2>1, <2>2
  <1> HIDE DEF b, p
  <1>3. p = Len(text) + 2 /\ p - 2 = Len(text)
    BY <1>1, <1>2 DEF Least
  <1>4. [w EXCEPT !.pos = p - 2] = [buffer |-> b, pos |-> Len(text)]
    BY <1>1, <1>3
  <1>5. \A i \in 1..Len(text) : b[i] = text[i]
    BY <1>1, <1>2, <1>3
  <1>6. Least(Len(text), size) = Len(text)
    BY <1>2 DEF Least
  <1> DEFINE x == [buffer |-> b, pos |-> Len(text)]
  <1>7. x \in LogBuffers /\ x.buffer = b /\ x.pos = Len(text)
    <2>1. Len(text) \in Int
      BY <1>2
    <2> QED
      BY <1>1, <2>1, BufferIs
  <1> HIDE DEF x
  <1>8. Written(x, text, size)
    BY <1>1, <1>5, <1>6, <1>7 DEF Written
  <1> QED
    BY <1>4, <1>8 DEF x, p

(* The characters that value_to_string adds. *)
LEMMA Literals ==
  /\ <<>> \in Texts /\ Len(<<>>) = 0
  /\ Comma \in Texts /\ Len(Comma) = 2
  /\ \A c \in {"{", "}", "[", "]", ":"} : <<c>> \in Texts /\ Len(<<c>>) = 1
  <1>1. {",", " ", "{", "}", "[", "]", ":", "?"} \subseteq Chars
    BY LogAssumption
  <1>2. \A c \in Chars : <<c>> \in Seq(Chars) /\ Len(<<c>>) = 1
    OBVIOUS
  <1>3. \A c, d \in Chars : <<c, d>> \in Seq(Chars) /\ Len(<<c, d>>) = 2
    OBVIOUS
  <1> QED
    BY <1>1, <1>2, <1>3, EmptySeq DEF Texts, Comma

(* Nothing has been written to the empty buffer. *)
LEMMA EmptyWritten ==
  ASSUME NEW size \in Nat
  PROVE  Written(EmptyBuffer(size), <<>>, size)
  <1> DEFINE b == [i \in 1..size |-> "?"]
  <1>1. "?" \in Chars
    BY LogAssumption
  <1>2. b \in [1..size -> Chars]
    BY <1>1
  <1> HIDE DEF b
  <1>3. b \in Texts /\ Len(b) = size
    BY <1>2, ListIsSeq DEF Texts
  <1>4. EmptyBuffer(size) = [buffer |-> b, pos |-> 0]
    BY DEF EmptyBuffer, b
  <1> DEFINE x == [buffer |-> b, pos |-> 0]
  <1>5. x \in LogBuffers /\ x.buffer = b /\ x.pos = 0
    BY <1>3, BufferIs
  <1>6. Least(Len(<<>>), size) = 0 /\ <<>> \in Texts
    <2>1. Least(0, size) = 0
      BY DEF Least
    <2> QED
      BY <2>1, Literals
  <1> HIDE DEF x
  <1>7. Written(x, <<>>, size)
    BY <1>3, <1>5, <1>6 DEF Written
  <1> QED
    BY <1>4, <1>7 DEF x

(* The texts behind the first of some pieces, the first two, ...: none is     *)
(* longer than the whole.                                                     *)
LEMMA Growing ==
  ASSUME NEW n \in Nat, NEW texts \in [1..n -> Texts], NEW upto \in [0..n -> Texts],
         \A i \in 1..n : upto[i] = upto[i - 1] \o texts[i]
  PROVE  \A i \in 0..n : Len(upto[i]) <= Len(upto[n])
  <1> DEFINE D == {k \in Nat : k <= n => Len(upto[n - k]) <= Len(upto[n])}
  <1>1. \A i \in 0..n : Len(upto[i]) \in Nat
    <2>1. \A i \in 0..n : upto[i] \in Texts
      OBVIOUS
    <2> QED
      BY <2>1, TextJoins
  <1>2. 0 \in D
    <2>1. n - 0 = n /\ n \in 0..n
      OBVIOUS
    <2> QED
      BY <1>1, <2>1
  <1>3. ASSUME NEW k \in Nat, k \in D
        PROVE  k + 1 \in D
    <2> SUFFICES ASSUME k + 1 <= n
                 PROVE  Len(upto[n - (k + 1)]) <= Len(upto[n])
      OBVIOUS
    <2> DEFINE i == n - k
    <2>1. i \in 1..n /\ i - 1 = n - (k + 1) /\ i - 1 \in 0..n /\ n \in 0..n /\ i \in 0..n
      OBVIOUS
    <2>2. Len(upto[i]) <= Len(upto[n])
      BY <1>3
    <2> HIDE DEF i
    <2>3. upto[i] = upto[i - 1] \o texts[i] /\ upto[i - 1] \in Texts /\ texts[i] \in Texts
      BY <2>1
    <2>4. Len(upto[i]) = Len(upto[i - 1]) + Len(texts[i]) /\ Len(texts[i]) \in Nat
      BY <2>3, TextJoins
    <2>5. Len(upto[i - 1]) <= Len(upto[n])
      <3> DEFINE a == Len(upto[i - 1])
                 b == Len(texts[i])
                 c == Len(upto[n])
      <3>1. a \in Nat /\ b \in Nat /\ c \in Nat /\ a + b <= c
        BY <1>1, <2>1, <2>2, <2>4
      <3> HIDE DEF a, b, c
      <3>2. a <= c
        BY <3>1
      <3> QED
        BY <3>2 DEF a, c
    <2> QED
      BY <2>1, <2>5
  <1>4. \A k \in Nat : k \in D
    <2> HIDE DEF D
    <2> QED
      BY <1>2, <1>3, Upwards
  <1> SUFFICES ASSUME NEW i \in 0..n
               PROVE  Len(upto[i]) <= Len(upto[n])
    OBVIOUS
  <1> DEFINE k == n - i
  <1>5. k \in Nat /\ k <= n /\ n - k = i
    OBVIOUS
  <1> HIDE DEF k
  <1>6. k \in D
    BY <1>4, <1>5
  <1> QED
    BY <1>5, <1>6

(* Room for a text and what follows, if any is needed. *)
HasRoom(tight, text, more, slack, size) ==
  tight => Len(text) + Len(more) + slack <= size

(* Writers that write one text each, ... *)
EachWrites(n, writers, texts, size, tight, slack) ==
  \A i \in 1..n : \A x, t :
    Written(x, t, size) /\ HasRoom(tight, t, texts[i], slack, size)
      => Written(writers[i][x], t \o texts[i], size)

(* Writers that write one text each write them one after the other.  When     *)
(* they need room (tight), it is as much as they and what follows take.       *)
LEMMA WritesInTurn ==
  ASSUME NEW n \in Nat, NEW texts \in [1..n -> Texts], NEW upto \in [0..n -> Texts],
         upto[0] = <<>>, \A i \in 1..n : upto[i] = upto[i - 1] \o texts[i],
         NEW writers, Len(writers) = n,
         NEW w, NEW text, NEW size, Written(w, text, size),
         NEW tight \in BOOLEAN, NEW slack \in Nat,
         HasRoom(tight, text, upto[n], slack, size),
         EachWrites(n, writers, texts, size, tight, slack)
  PROVE  \A i \in 0..n : Written(InTurn(writers, w)[i], text \o upto[i], size)
  <1> DEFINE after == InTurn(writers, w)
             D == {i \in Nat : i <= n => Written(after[i], text \o upto[i], size)}
  <1>1. after[0] = w /\ \A i \in 1..n : after[i] = writers[i][after[i - 1]]
    BY InTurnIs
  <1> HIDE DEF after
  <1>2. text \in Texts
    BY DEF Written
  <1>3. text \o <<>> = text
    BY <1>2, Literals, TextJoins
  <1>4. 0 \in D
    BY <1>1, <1>3
  <1>5. ASSUME NEW i \in Nat, i \in D
        PROVE  i + 1 \in D
    <2> SUFFICES ASSUME i + 1 <= n
                 PROVE  Written(after[i + 1], text \o upto[i + 1], size)
      OBVIOUS
    <2> DEFINE j == i + 1
    <2>1. j \in 1..n /\ j - 1 = i /\ i \in 0..n /\ j \in 0..n
      OBVIOUS
    <2>2. Written(after[i], text \o upto[i], size)
      BY <1>5
    <2> HIDE DEF j
    <2>3. upto[i] \in Texts /\ texts[j] \in Texts /\ upto[j] = upto[i] \o texts[j]
          /\ upto[j] \in Texts /\ upto[n] \in Texts
      BY <2>1
    <2> DEFINE sofar == upto[i]
               next == texts[j]
               whole == upto[n]
    <2> HIDE DEF sofar, next, whole
    <2>4. (text \o sofar) \o next = text \o upto[j] /\ upto[j] = sofar \o next
          /\ sofar \in Texts /\ next \in Texts /\ whole \in Texts
      <3>1. upto[j] = sofar \o next /\ sofar \in Texts /\ next \in Texts /\ whole \in Texts
        BY <2>3 DEF sofar, next, whole
      <3>2. Associates(text, sofar, next)
        BY <1>2, <3>1, TextsAssociate
      <3> QED
        BY <3>1, <3>2 DEF Associates
    <2>5. HasRoom(tight, text \o sofar, next, slack, size)
      <3>1. /\ Len(text \o sofar) = Len(text) + Len(sofar)
            /\ Len(text) \in Nat /\ Len(sofar) \in Nat
        BY <1>2, <2>4, TextJoins
      <3>2. Len(upto[j]) = Len(sofar) + Len(next) /\ Len(next) \in Nat
        BY <2>4, TextJoins
      <3>3. Len(upto[j]) <= Len(whole) /\ Len(whole) \in Nat
        <4>1. Len(upto[j]) <= Len(upto[n])
          BY <2>1, Growing
        <4> QED
          BY <2>4, <4>1, TextJoins DEF whole
      <3>4. size \in Int
        <4>1. Len(w.buffer) = size /\ w.buffer \in Texts
          BY BufferIs DEF Written
        <4> QED
          BY <4>1, TextJoins
      <3>5. tight => Len(text) + Len(whole) + slack <= size
        BY DEF whole, HasRoom
      <3> DEFINE a == Len(text)
                 b == Len(sofar)
                 c == Len(next)
                 d == Len(whole)
      <3>6. /\ a \in Nat /\ b \in Nat /\ c \in Nat /\ d \in Nat /\ b + c <= d
            /\ Len(text \o sofar) = a + b
            /\ (tight => a + d + slack <= size)
        BY <3>1, <3>2, <3>3, <3>5
      <3> HIDE DEF a, b, c, d
      <3>7. tight => (a + b) + c + slack <= size
        BY <3>4, <3>6
      <3> QED
        BY <3>6, <3>7 DEF c, HasRoom
    <2>6. Written(writers[j][after[i]], (text \o sofar) \o next, size)
      BY <2>1, <2>2, <2>5 DEF sofar, next, EachWrites
    <2>7. after[j] = writers[j][after[i]]
      BY <1>1, <2>1
    <2> QED
      BY <2>4, <2>6, <2>7 DEF j
  <1>6. \A i \in Nat : i \in D
    <2> HIDE DEF D
    <2> QED
      BY <1>4, <1>5, Upwards
  <1> QED
    BY <1>6 DEF after

(* Braces around what has a key. *)
Brace(c, with_key) == IF with_key THEN <<c>> ELSE <<>>

(* A brace is written when the value has a key, and only then. *)
LEMMA BracesWrite ==
  ASSUME NEW with_key \in BOOLEAN, NEW c \in {"{", "}"}
  PROVE  /\ Brace(c, with_key) \in Texts
         /\ \A w, text, size : Written(w, text, size) =>
              Written(Braced(w, with_key, c), text \o Brace(c, with_key), size)
  <1>1. <<c>> \in Texts /\ <<>> \in Texts /\ Len(<<c>>) = 1 /\ Len(<<>>) = 0
    BY Literals
  <1>2. ASSUME NEW w, NEW text, NEW size, Written(w, text, size)
        PROVE  Written(Braced(w, with_key, c), text \o Brace(c, with_key), size)
    <2>1. CASE with_key
      <3>1. Written(FormatTo(w, <<c>>), text \o <<c>>, size)
        BY <1>1, <1>2, FormatWrites
      <3> QED
        BY <2>1, <3>1 DEF Braced, Brace
    <2>2. CASE ~with_key
      <3>1. text \in Texts
        BY <1>2 DEF Written
      <3>2. text \o <<>> = text
        BY <3>1, <1>1, TextJoins
      <3> QED
        BY <1>2, <2>2, <3>2 DEF Braced, Brace
    <2> QED
      BY <2>1, <2>2
  <1>3. Brace(c, with_key) \in Texts
    <2>1. CASE with_key
      BY <1>1, <2>1 DEF Brace
    <2>2. CASE ~with_key
      BY <1>1, <2>2 DEF Brace
    <2> QED
      BY <2>1, <2>2
  <1> QED
    BY <1>2, <1>3

(* InBraces is the text between what the two braces add. *)
LEMMA InBracesIs ==
  ASSUME NEW with_key \in BOOLEAN, NEW text \in Texts
  PROVE  /\ InBraces(text, with_key)
              = (Brace("{", with_key) \o text) \o Brace("}", with_key)
         /\ InBraces(text, with_key) \in Texts
         /\ Len(InBraces(text, with_key)) =
              Len(Brace("{", with_key)) + Len(text) + Len(Brace("}", with_key))
  <1> DEFINE o == Brace("{", with_key)
             c == Brace("}", with_key)
  <1>1. o \in Texts /\ c \in Texts
    BY BracesWrite
  <1>2. o \o text \in Texts /\ Len(o \o text) = Len(o) + Len(text)
    BY <1>1, TextJoins
  <1>3. (o \o text) \o c \in Texts
        /\ Len((o \o text) \o c) = Len(o \o text) + Len(c)
    BY <1>1, <1>2, TextJoins
  <1>4. InBraces(text, with_key) = (o \o text) \o c
    <2>1. CASE with_key
      BY <2>1 DEF InBraces, Brace
    <2>2. CASE ~with_key
      <3>1. <<>> \o text = text /\ text \o <<>> = text
        BY TextJoins
      <3> QED
        BY <2>2, <3>1 DEF InBraces, Brace
    <2> QED
      BY <2>1, <2>2
  <1> QED
    BY <1>2, <1>3, <1>4

(* A text that is written in two braces has been written. *)
LEMMA BracedWrites ==
  ASSUME NEW with_key \in BOOLEAN, NEW w, NEW text \in Texts, NEW inner \in Texts, NEW size,
         Written(w, (text \o Brace("{", with_key)) \o inner, size)
  PROVE  Written(Braced(w, with_key, "}"), text \o InBraces(inner, with_key), size)
  <1> DEFINE o == Brace("{", with_key)
             c == Brace("}", with_key)
  <1>1. o \in Texts /\ c \in Texts
    BY BracesWrite
  <1>2. Written(Braced(w, with_key, "}"), ((text \o o) \o inner) \o c, size)
    BY BracesWrite
  <1> HIDE DEF o, c
  <1>3. text \o o \in Texts /\ o \o inner \in Texts
    BY <1>1, TextJoins
  <1>4. (text \o o) \o inner = text \o (o \o inner)
    <2>1. Associates(text, o, inner)
      BY <1>1, TextsAssociate
    <2> QED
      BY <2>1 DEF Associates
  <1>5. (text \o (o \o inner)) \o c = text \o ((o \o inner) \o c)
    <2> DEFINE first == o \o inner
    <2>1. first \in Texts
      BY <1>3
    <2> HIDE DEF first
    <2>2. Associates(text, first, c)
      BY <1>1, <2>1, TextsAssociate
    <2> QED
      BY <2>2 DEF first, Associates
  <1>6. InBraces(inner, with_key) = (o \o inner) \o c
    BY InBracesIs DEF o, c
  <1> QED
    BY <1>2, <1>4, <1>5, <1>6

(* A function on 1..m has length m. *)
LEMMA LengthOfList ==
  ASSUME NEW m \in Nat, NEW s, s = [i \in 1..m |-> s[i]]
  PROVE  Len(s) = m /\ DOMAIN s = 1..m
  <1>1. s \in [1..m -> {s[i] : i \in 1..m}]
    OBVIOUS
  <1>2. Len(s) = m
    BY <1>1, ListIsSeq
  <1> QED
    BY <1>1, <1>2

(* Texts with separators between them. *)
LEMMA JoinedIs ==
  ASSUME NEW n \in Nat, NEW texts \in [1..n -> Texts]
  PROVE  /\ Joined(texts) \in Texts
         /\ \E upto \in [0..n -> Texts] :
              /\ upto[0] = <<>>
              /\ \A i \in 1..n :
                   upto[i] = upto[i - 1] \o (IF i < n THEN texts[i] \o Comma ELSE texts[i])
              /\ Joined(texts) = upto[n]
  <1> DEFINE pieces == [i \in 1..n |-> IF i < n THEN texts[i] \o Comma ELSE texts[i]]
  <1>1. Len(texts) = n /\ DOMAIN texts = 1..n
    BY LengthOfList
  <1>2. Joined(texts) = Concatenation(pieces)
    BY <1>1 DEF Joined
  <1>3. ASSUME NEW i \in 1..n
        PROVE  (IF i < n THEN texts[i] \o Comma ELSE texts[i]) \in Texts
    <2>1. texts[i] \in Texts
      OBVIOUS
    <2>2. texts[i] \o Comma \in Texts
      BY <2>1, Literals, TextJoins
    <2> QED
      BY <2>1, <2>2
  <1>4. pieces \in [1..n -> Texts]
    BY <1>3
  <1>5. \A i \in 1..n : pieces[i] = IF i < n THEN texts[i] \o Comma ELSE texts[i]
    OBVIOUS
  <1> HIDE DEF pieces
  <1>6. PICK upto \in [0..n -> Texts] :
          /\ upto[0] = <<>>
          /\ \A i \in 1..n : upto[i] = upto[i - 1] \o pieces[i]
          /\ Concatenation(pieces) = upto[n]
    BY <1>4, JoinedTexts
  <1>7. \A i \in 1..n :
          upto[i] = upto[i - 1] \o (IF i < n THEN texts[i] \o Comma ELSE texts[i])
    BY <1>5, <1>6
  <1>8. upto[n] \in Texts
    OBVIOUS
  <1> QED
    BY <1>2, <1>6, <1>7, <1>8

-----------------------------------------------------------------------------
(* What holds of every value: its writer writes its text, if there is room    *)
(* for it and a separator or no struct in it.                                 *)
Prints(v) ==
  /\ HasStruct[v] \in BOOLEAN
  /\ \A with_key \in BOOLEAN : Shown[v][with_key] \in Texts
  /\ \A with_key \in BOOLEAN : \A w, text, size :
       /\ Written(w, text, size)
       /\ HasStruct[v] => Len(text) + Len(Shown[v][with_key]) + 2 <= size
       => Written(ValueToString[v][<<with_key, w>>], text \o Shown[v][with_key], size)

ShownInside(v) == [i \in DOMAIN Inside(v) |-> Shown[Inside(v)[i]]]
WritersInside(v) == [i \in DOMAIN Inside(v) |-> ValueToString[Inside(v)[i]]]

(* The two recursive functions at v, by what is inside v. *)
LEMMA ValueIs ==
  ASSUME NEW v \in Loggable
  PROVE  /\ \A with_key \in BOOLEAN : Shown[v][with_key] = Show(v, ShownInside(v), with_key)
         /\ \A with_key \in BOOLEAN : \A w \in LogBuffers :
              ValueToString[v][<<with_key, w>>] = Stringify(v, WritersInside(v), with_key, w)
         /\ HasStruct[v] \in BOOLEAN
         /\ v.kind = "struct" => HasStruct[v]
         /\ \A i \in DOMAIN Inside(v) : HasStruct[Inside(v)[i]] => HasStruct[v]
  <1>1. Shown[v] = TextOf(v, ShownInside(v))
    BY RecursionIs, Zenon DEF ShownInside
  <1>2. ValueToString[v] = Writer(v, WritersInside(v))
    BY RecursionIs, Zenon DEF WritersInside
  <1>3. HasStruct[v] = AnyStruct(v, [i \in DOMAIN Inside(v) |-> HasStruct[Inside(v)[i]]])
    BY RecursionIs, Zenon
  <1>4. \A with_key \in BOOLEAN : \A w \in LogBuffers :
          ValueToString[v][<<with_key, w>>] = Stringify(v, WritersInside(v), with_key, w)
    <2> SUFFICES ASSUME NEW with_key \in BOOLEAN, NEW w \in LogBuffers
                 PROVE  ValueToString[v][<<with_key, w>>]
                          = Stringify(v, WritersInside(v), with_key, w)
      OBVIOUS
    <2>1. <<with_key, w>> \in BOOLEAN \X LogBuffers
      OBVIOUS
    <2> QED
      BY <1>2, <2>1 DEF Writer
  <1>5. \A with_key \in BOOLEAN : Shown[v][with_key] = Show(v, ShownInside(v), with_key)
    BY <1>1 DEF TextOf
  <1> DEFINE any == v.kind = "struct" \/ \E i \in DOMAIN Inside(v) : HasStruct[Inside(v)[i]]
  <1>6. HasStruct[v] = any
    BY <1>3 DEF AnyStruct
  <1>7. any \in BOOLEAN
    BY Zenon
  <1> QED
    BY <1>4, <1>5, <1>6, <1>7, Zenon

(* value_to_string of what is written in one go. *)
LEMMA PlainPrints ==
  ASSUME NEW v \in Loggable, v.kind = "plain"
  PROVE  Prints(v)
  <1>1. v.text \in Texts
    BY LogAssumption DEF IsLoggable
  <1>2. ASSUME NEW with_key \in BOOLEAN
        PROVE  Shown[v][with_key] = v.text
    BY ValueIs DEF Show
  <1>3. ASSUME NEW with_key \in BOOLEAN, NEW w, NEW text, NEW size, Written(w, text, size)
        PROVE  Written(ValueToString[v][<<with_key, w>>], text \o v.text, size)
    <2>1. w \in LogBuffers
      BY <1>3 DEF Written
    <2>2. ValueToString[v][<<with_key, w>>] = FormatTo(w, v.text)
      <3>1. Stringify(v, WritersInside(v), with_key, w) = FormatTo(w, v.text)
        BY DEF Stringify
      <3> QED
        BY <2>1, <3>1, ValueIs
    <2> QED
      BY <1>1, <1>3, <2>2, FormatWrites
  <1> QED
    BY <1>1, <1>2, <1>3, ValueIs DEF Prints

(* of what has a format or a to_string of its own. *)
LEMMA CustomPrints ==
  ASSUME NEW v \in Loggable, v.kind = "custom"
  PROVE  Prints(v)
  <1>1. v.text \in Texts
    BY LogAssumption DEF IsLoggable
  <1>2. ASSUME NEW with_key \in BOOLEAN
        PROVE  /\ Shown[v][with_key] = InBraces(v.text, with_key)
               /\ Shown[v][with_key] \in Texts
    <2>1. Shown[v][with_key] = InBraces(v.text, with_key)
      BY ValueIs DEF Show
    <2> QED
      BY <1>1, <2>1, InBracesIs
  <1>3. ASSUME NEW with_key \in BOOLEAN, NEW w, NEW text, NEW size, Written(w, text, size)
        PROVE  Written(ValueToString[v][<<with_key, w>>],
                       text \o Shown[v][with_key], size)
    <2>1. w \in LogBuffers /\ text \in Texts
      BY <1>3 DEF Written
    <2> DEFINE open == Braced(w, with_key, "{")
               inside == FormatTo(open, v.text)
    <2>2. ValueToString[v][<<with_key, w>>] = Braced(inside, with_key, "}")
      <3>1. Stringify(v, WritersInside(v), with_key, w) = Braced(inside, with_key, "}")
        BY DEF Stringify
      <3> HIDE DEF inside
      <3> QED
        BY <2>1, <3>1, ValueIs
    <2>3. Written(open, text \o Brace("{", with_key), size)
      BY <1>3, BracesWrite
    <2> HIDE DEF open
    <2>4. Written(inside, (text \o Brace("{", with_key)) \o v.text, size)
      BY <1>1, <2>3, FormatWrites
    <2> HIDE DEF inside
    <2>5. Written(Braced(inside, with_key, "}"), text \o InBraces(v.text, with_key), size)
      BY <1>1, <2>1, <2>4, BracedWrites
    <2> QED
      BY <1>2, <2>2, <2>5
  <1> QED
    BY <1>2, <1>3, ValueIs DEF Prints

(* of a pointer: its address, and what it points to. *)
LEMMA PointerPrints ==
  ASSUME NEW v \in Loggable, v.kind = "pointer", Prints(v.to)
  PROVE  Prints(v)
  <1> DEFINE to == v.to
             address == v.address
  <1>1. address \in Texts
    BY LogAssumption DEF IsLoggable
  <1>2. Inside(v) = <<to>> /\ 1 \in DOMAIN Inside(v) /\ Inside(v)[1] = to
    BY DEF Inside
  <1>3. /\ ShownInside(v)[1] = Shown[to]
        /\ WritersInside(v)[1] = ValueToString[to]
        /\ HasStruct[to] => HasStruct[v]
    BY <1>2, ValueIs DEF ShownInside, WritersInside
  <1>4. ASSUME NEW with_key \in BOOLEAN
        PROVE  /\ Shown[v][with_key] = address \o Shown[to][with_key]
               /\ Shown[v][with_key] \in Texts /\ Shown[to][with_key] \in Texts
               /\ Len(Shown[v][with_key]) = Len(address) + Len(Shown[to][with_key])
               /\ Len(address) \in Nat /\ Len(Shown[to][with_key]) \in Nat
    <2>1. Shown[v][with_key] = address \o ShownInside(v)[1][with_key]
      BY ValueIs DEF Show
    <2>2. Shown[to][with_key] \in Texts
      BY DEF Prints
    <2> QED
      BY <1>1, <1>3, <2>1, <2>2, TextJoins
  <1>5. ASSUME NEW with_key \in BOOLEAN, NEW w, NEW text, NEW size, Written(w, text, size),
               HasStruct[v] => Len(text) + Len(Shown[v][with_key]) + 2 <= size
        PROVE  Written(ValueToString[v][<<with_key, w>>],
                       text \o Shown[v][with_key], size)
    <2>1. w \in LogBuffers /\ text \in Texts
      BY <1>5 DEF Written
    <2> DEFINE x == FormatTo(w, address)
               shown == Shown[to][with_key]
    <2>2. ValueToString[v][<<with_key, w>>] = ValueToString[to][<<with_key, x>>]
      <3>1. Stringify(v, WritersInside(v), with_key, w) = WritersInside(v)[1][<<with_key, x>>]
        BY DEF Stringify
      <3>2. ValueToString[v][<<with_key, w>>] = Stringify(v, WritersInside(v), with_key, w)
        BY <2>1, ValueIs
      <3> QED
        BY <1>3, <3>1, <3>2
    <2>3. Written(x, text \o address, size)
      BY <1>1, <1>5, FormatWrites
    <2> HIDE DEF x
    <2>4. HasStruct[to] => Len(text \o address) + Len(shown) + 2 <= size
      <3>1. Len(text \o address) = Len(text) + Len(address) /\ Len(text) \in Nat
        BY <1>1, <2>1, TextJoins
      <3>2. HasStruct[v] => Len(text) + (Len(address) + Len(shown)) + 2 <= size
        BY <1>4, <1>5
      <3>3. Len(address) \in Nat /\ Len(shown) \in Nat
        BY <1>4
      <3>4. size \in Int
        <4>1. Len(w.buffer) = size /\ w.buffer \in Texts
          BY <1>5, BufferIs DEF Written
        <4> QED
          BY <4>1, TextJoins
      <3> DEFINE a == Len(text)
                 b == Len(address)
                 c == Len(shown)
                 d == Len(text \o address)
      <3>5. /\ a \in Nat /\ b \in Nat /\ c \in Nat /\ d = a + b
            /\ (HasStruct[v] => a + (b + c) + 2 <= size)
        BY <3>1, <3>2, <3>3
      <3> HIDE DEF shown, address, a, b, c, d
      <3>6. HasStruct[v] => d + c + 2 <= size
        BY <3>4, <3>5
      <3> QED
        BY <1>3, <3>6 DEF c, d
    <2>5. Written(ValueToString[to][<<with_key, x>>], (text \o address) \o shown, size)
      BY <2>3, <2>4 DEF Prints
    <2>6. (text \o address) \o shown = text \o (address \o shown)
      <3>1. text \in Texts /\ address \in Texts /\ shown \in Texts
        BY <1>1, <1>4, <2>1
      <3> HIDE DEF shown, address
      <3>2. Associates(text, address, shown)
        BY <3>1, TextsAssociate
      <3> QED
        BY <3>2 DEF Associates
    <2>7. Shown[v][with_key] = address \o shown
      BY <1>4
    <2> HIDE DEF shown, address
    <2> QED
      BY <2>2, <2>5, <2>6, <2>7
  <1> QED
    BY <1>4, <1>5, ValueIs DEF Prints

(* What is inside a value, its texts and its writers. *)
LEMMA PartsAre ==
  ASSUME NEW v \in Loggable
  PROVE  /\ Len(Inside(v)) \in Nat /\ DOMAIN Inside(v) = 1..Len(Inside(v))
         /\ Len(ShownInside(v)) = Len(Inside(v))
         /\ Len(WritersInside(v)) = Len(Inside(v))
         /\ DOMAIN ShownInside(v) = 1..Len(Inside(v))
         /\ DOMAIN WritersInside(v) = 1..Len(Inside(v))
         /\ \A i \in 1..Len(Inside(v)) :
              /\ Inside(v)[i] \in Loggable
              /\ ShownInside(v)[i] = Shown[Inside(v)[i]]
              /\ WritersInside(v)[i] = ValueToString[Inside(v)[i]]
              /\ HasStruct[Inside(v)[i]] => HasStruct[v]
  <1> DEFINE s == Inside(v)
             n == Len(s)
             a == ShownInside(v)
             b == WritersInside(v)
  <1>1. s \in Seq(Loggable)
    BY Nested
  <1> HIDE DEF s
  <1>2. n \in Nat /\ DOMAIN s = 1..n /\ \A i \in 1..n : s[i] \in Loggable
    BY <1>1, LenProperties, ElementOfSeq
  <1> HIDE DEF n
  <1>3. a = [i \in 1..n |-> Shown[s[i]]] /\ b = [i \in 1..n |-> ValueToString[s[i]]]
    BY <1>2 DEF s, ShownInside, WritersInside
  <1> HIDE DEF a, b
  <1>4. /\ \A i \in 1..n : a[i] = Shown[s[i]] /\ b[i] = ValueToString[s[i]]
        /\ a = [i \in 1..n |-> a[i]] /\ b = [i \in 1..n |-> b[i]]
    BY <1>3
  <1>5. /\ Len(a) = n /\ DOMAIN a = 1..n
        /\ Len(b) = n /\ DOMAIN b = 1..n
    BY <1>2, <1>4, LengthOfList
  <1>6. \A i \in 1..n : HasStruct[s[i]] => HasStruct[v]
    BY <1>2, ValueIs DEF s
  <1> QED
    BY <1>2, <1>4, <1>5, <1>6 DEF s, n, a, b

(* A separator behind a text. *)
LEMMA CommaJoins ==
  ASSUME NEW a \in Texts
  PROVE  /\ a \o Comma \in Texts /\ Len(a \o Comma) = Len(a) + 2
         /\ \A t \in Texts : (t \o a) \o Comma = t \o (a \o Comma)
  <1>1. Comma \in Texts /\ Len(Comma) = 2
    BY Literals
  <1> DEFINE c == Comma
  <1>2. c \in Texts /\ Len(c) = 2
    BY <1>1
  <1> HIDE DEF c
  <1>3. a \o c \in Texts /\ Len(a \o c) = Len(a) + Len(c)
    BY <1>2, TextJoins
  <1>4. \A t \in Texts : Associates(t, a, c)
    BY <1>2, TextsAssociate
  <1> QED
    BY <1>2, <1>3, <1>4 DEF c, Associates

(* One element of a range, and the comma behind it. *)
LEMMA ElementWrites ==
  ASSUME NEW v \in Loggable, NEW i \in 1..Len(Inside(v)), Prints(Inside(v)[i]),
         NEW shown, shown = ShownInside(v)[i][TRUE],
         NEW n, n = Least(Len(Inside(v)), MAX_PRINT_SIZE), i <= n,
         NEW piece, piece = (IF i < n THEN shown \o Comma ELSE shown),
         NEW x, NEW t, NEW size, Written(x, t, size),
         HasStruct[v] => Len(t) + Len(piece) + 2 <= size
  PROVE  /\ shown \in Texts /\ piece \in Texts
         /\ Written(Element(WritersInside(v), i)[x], t \o piece, size)
  <1>1. /\ x \in LogBuffers /\ t \in Texts /\ x.buffer \in Texts /\ Len(x.buffer) = size
    BY BufferIs DEF Written
  <1>2. Len(t) \in Nat /\ size \in Nat
    BY <1>1, TextJoins
  <1>3. shown = Shown[Inside(v)[i]][TRUE] /\ shown \in Texts /\ Len(shown) \in Nat
    <2>1. shown = Shown[Inside(v)[i]][TRUE]
      BY PartsAre
    <2>2. shown \in Texts
      BY <2>1 DEF Prints
    <2> QED
      BY <2>1, <2>2, TextJoins
  <1>4. /\ piece \in Texts /\ Len(piece) \in Nat /\ Len(shown) <= Len(piece)
    <2> DEFINE longer == shown \o Comma
    <2>1. longer \in Texts /\ Len(longer) = Len(shown) + 2
      BY <1>3, CommaJoins
    <2> HIDE DEF longer
    <2>2. Len(longer) \in Nat /\ Len(shown) <= Len(longer) /\ Len(shown) <= Len(shown)
      <3> DEFINE k == Len(shown)
      <3>1. k \in Nat /\ Len(longer) = k + 2
        BY <1>3, <2>1
      <3> HIDE DEF k
      <3>2. k + 2 \in Nat /\ k <= k + 2 /\ k <= k
        BY <3>1
      <3> QED
        BY <3>1, <3>2 DEF k
    <2>3. piece = longer \/ piece = shown
      BY DEF longer
    <2> QED
      BY <1>3, <2>1, <2>2, <2>3, Zenon
  <1> DEFINE y == WritersInside(v)[i][<<TRUE, x>>]
  <1>5. Written(y, t \o shown, size)
    <2>1. HasStruct[Inside(v)[i]] => Len(t) + Len(shown) + 2 <= size
      <3>1. HasStruct[Inside(v)[i]] => HasStruct[v]
        BY PartsAre
      <3> DEFINE a == Len(t)
                 b == Len(shown)
                 c == Len(piece)
      <3>2. a \in Nat /\ b \in Nat /\ c \in Nat /\ b <= c
            /\ (HasStruct[v] => a + c + 2 <= size)
        BY <1>2, <1>3, <1>4
      <3> HIDE DEF a, b, c
      <3>3. HasStruct[v] => a + b + 2 <= size
        BY <1>2, <3>2
      <3> QED
        BY <3>1, <3>3 DEF a, b
    <2>2. Written(ValueToString[Inside(v)[i]][<<TRUE, x>>], t \o Shown[Inside(v)[i]][TRUE], size)
      BY <1>3, <2>1 DEF Prints
    <2>3. WritersInside(v)[i] = ValueToString[Inside(v)[i]]
      BY PartsAre
    <2> QED
      BY <1>3, <2>2, <2>3
  <1>6. Element(WritersInside(v), i)[x] = IF i < n THEN FormatTo(y, Comma) ELSE y
    <2>1. Len(WritersInside(v)) = Len(Inside(v)) /\ Len(Inside(v)) \in Nat
      BY PartsAre
    <2>2. i \in Int
      BY <2>1
    <2>3. (i < MAX_PRINT_SIZE /\ i < Len(WritersInside(v))) <=> i < n
      BY <2>1, <2>2 DEF Least, MAX_PRINT_SIZE
    <2>4. Element(WritersInside(v), i)[x]
            = IF i < MAX_PRINT_SIZE /\ i < Len(WritersInside(v)) THEN FormatTo(y, Comma) ELSE y
      BY <1>1 DEF Element
    <2> HIDE DEF y
    <2> QED
      BY <2>3, <2>4
  <1> HIDE DEF y
  <1>7. Written(Element(WritersInside(v), i)[x], t \o piece, size)
    <2>1. CASE i < n
      <3>1. Written(FormatTo(y, Comma), (t \o shown) \o Comma, size)
        BY <1>5, Literals, FormatWrites
      <3>2. (t \o shown) \o Comma = t \o (shown \o Comma)
        BY <1>1, <1>3, CommaJoins
      <3> QED
        BY <1>6, <2>1, <3>1, <3>2
    <2>2. CASE ~(i < n)
      BY <1>5, <1>6, <2>2
    <2> QED
      BY <2>1, <2>2
  <1> QED
    BY <1>3, <1>4, <1>7

(* The loop over the elements of a range. *)
LEMMA ElementsWrite ==
  ASSUME NEW v \in Loggable,
         \A i \in DOMAIN Inside(v) : Prints(Inside(v)[i]),
         NEW n, n = Least(Len(Inside(v)), MAX_PRINT_SIZE),
         NEW joined, joined = Joined([i \in 1..n |-> ShownInside(v)[i][TRUE]])
  PROVE  /\ joined \in Texts
         /\ \A w, text, size :
              Written(w, text, size) /\ (HasStruct[v] => Len(text) + Len(joined) + 2 <= size)
                => Written(RangeToString(WritersInside(v), w), text \o joined, size)
  <1> DEFINE parts == WritersInside(v)
             shown == ShownInside(v)
             texts == [i \in 1..n |-> shown[i][TRUE]]
             pieces == [i \in 1..n |-> IF i < n THEN texts[i] \o Comma ELSE texts[i]]
             writers == [i \in 1..n |-> Element(parts, i)]
  <1>1. /\ n \in Nat /\ \A i \in 1..n : i \in 1..Len(Inside(v)) /\ i <= n
        /\ DOMAIN Inside(v) = 1..Len(Inside(v))
    <2> DEFINE k == Len(Inside(v))
    <2>1. k \in Nat /\ DOMAIN Inside(v) = 1..k
      BY PartsAre
    <2> HIDE DEF k
    <2>2. n = Least(k, 8)
      BY DEF k, MAX_PRINT_SIZE
    <2>3. n \in Nat /\ n <= k
      BY <2>1, <2>2 DEF Least
    <2> QED
      BY <2>1, <2>3 DEF k
  <1>2. \A i \in 1..n : texts[i] \in Texts
    <2> SUFFICES ASSUME NEW i \in 1..n
                 PROVE  shown[i][TRUE] \in Texts
      OBVIOUS
    <2>1. shown[i] = Shown[Inside(v)[i]] /\ Prints(Inside(v)[i])
      BY <1>1, PartsAre
    <2> QED
      BY <2>1 DEF Prints
  <1>3. \A i \in 1..n : texts[i] = shown[i][TRUE]
    <2> HIDE DEF shown
    <2> QED
      OBVIOUS
  <1>4. texts \in [1..n -> Texts]
    BY <1>2
  <1>5. joined = Joined(texts)
    OBVIOUS
  <1> HIDE DEF texts
  <1>6. \A i \in 1..n : pieces[i] = IF i < n THEN texts[i] \o Comma ELSE texts[i]
    OBVIOUS
  <1>7. pieces \in [1..n -> Texts]
    <2> SUFFICES ASSUME NEW i \in 1..n
                 PROVE  (IF i < n THEN texts[i] \o Comma ELSE texts[i]) \in Texts
      OBVIOUS
    <2>1. texts[i] \in Texts
      BY <1>4
    <2>2. texts[i] \o Comma \in Texts
      BY <2>1, CommaJoins
    <2> QED
      BY <2>1, <2>2
  <1>8. PICK upto \in [0..n -> Texts] :
          /\ upto[0] = <<>>
          /\ \A i \in 1..n :
               upto[i] = upto[i - 1] \o (IF i < n THEN texts[i] \o Comma ELSE texts[i])
          /\ Joined(texts) = upto[n]
    BY <1>1, <1>4, JoinedIs
  <1> HIDE DEF pieces
  <1>9. \A i \in 1..n : upto[i] = upto[i - 1] \o pieces[i]
    BY <1>6, <1>8
  <1>10. Len(writers) = n /\ \A i \in 1..n : writers[i] = Element(parts, i)
    <2>1. \A i \in 1..n : writers[i] = Element(parts, i)
      BY Zenon
    <2>2. writers = [i \in 1..n |-> writers[i]]
      BY Zenon
    <2> HIDE DEF writers
    <2> QED
      BY <1>1, <2>1, <2>2, LengthOfList
  <1> HIDE DEF writers
  <1>11. ASSUME NEW w, NEW text, NEW size, Written(w, text, size),
                HasStruct[v] => Len(text) + Len(joined) + 2 <= size
         PROVE  Written(RangeToString(parts, w), text \o joined, size)
    <2> DEFINE tight == HasStruct[v]
    <2>1. tight \in BOOLEAN
      BY ValueIs
    <2>2. ASSUME NEW i \in 1..n, NEW x, NEW t, Written(x, t, size),
                 HasRoom(tight, t, pieces[i], 2, size)
          PROVE  Written(writers[i][x], t \o pieces[i], size)
      <3> DEFINE s == texts[i]
                 p == pieces[i]
      <3>1. s = ShownInside(v)[i][TRUE]
        BY <1>3
      <3>2. p = IF i < n THEN s \o Comma ELSE s
        BY <1>6
      <3>3. i \in 1..Len(Inside(v)) /\ i <= n /\ Prints(Inside(v)[i])
        BY <1>1
      <3>4. HasStruct[v] => Len(t) + Len(p) + 2 <= size
        BY <2>2 DEF HasRoom
      <3> HIDE DEF s, p
      <3>5. Written(Element(WritersInside(v), i)[x], t \o p, size)
        BY <2>2, <3>1, <3>2, <3>3, <3>4, ElementWrites
      <3> QED
        BY <1>10, <3>5 DEF p
    <2>3. HasRoom(tight, text, upto[n], 2, size)
      BY <1>5, <1>8, <1>11 DEF HasRoom
    <2> HIDE DEF tight
    <2>4. Written(InTurn(writers, w)[n], text \o upto[n], size)
      <3>1. 2 \in Nat /\ n \in Nat /\ n \in 0..n
        BY <1>1
      <3>2. Len(writers) = n /\ upto[0] = <<>>
        BY <1>8, <1>10
      <3>3. EachWrites(n, writers, pieces, size, tight, 2)
        BY <2>2 DEF EachWrites
      <3>4. \A i \in 0..n : Written(InTurn(writers, w)[i], text \o upto[i], size)
        <4>1. /\ pieces \in [1..n -> Texts] /\ upto \in [0..n -> Texts]
              /\ \A i \in 1..n : upto[i] = upto[i - 1] \o pieces[i]
          BY <1>7, <1>9
        <4>2. Written(w, text, size)
          BY <1>11
        <4>3. HasRoom(tight, text, upto[n], 2, size)
          BY <2>3
        <4> HIDE DEF writers, pieces
        <4> QED
          BY <2>1, <3>1, <3>2, <3>3, <4>1, <4>2, <4>3, WritesInTurn
      <3> QED
        BY <3>1, <3>4
    <2>5. RangeToString(parts, w) = InTurn(writers, w)[n]
      <3>1. Len(parts) = Len(Inside(v))
        BY PartsAre
      <3>2. n = Least(Len(parts), MAX_PRINT_SIZE)
        BY <3>1
      <3> QED
        BY <3>2 DEF RangeToString, writers
    <2> QED
      BY <1>5, <1>8, <2>4, <2>5
  <1>12. joined \in Texts
    BY <1>1, <1>4, <1>5, JoinedIs
  <1> QED
    BY <1>11, <1>12

(* value_to_string of a range: its first elements and how many more there are.*)
LEMMA RangePrints ==
  ASSUME NEW v \in Loggable, v.kind = "range",
         \A i \in DOMAIN Inside(v) : Prints(Inside(v)[i])
  PROVE  Prints(v)
  <1> DEFINE parts == WritersInside(v)
             count == Len(Inside(v))
             n == Least(count, MAX_PRINT_SIZE)
             joined == Joined([i \in 1..n |-> ShownInside(v)[i][TRUE]])
             rest == IF count > MAX_PRINT_SIZE THEN More(count - MAX_PRINT_SIZE) ELSE <<>>
             open == <<"[">>
             close == <<"]">>
             inner == open \o joined \o rest \o close
  <1>1. /\ count \in Nat /\ Len(parts) = count /\ Len(ShownInside(v)) = count
    BY PartsAre
  <1>2. joined \in Texts
    BY ElementsWrite
  <1>3. /\ \A w, text, size :
              Written(w, text, size) /\ (HasStruct[v] => Len(text) + Len(joined) + 2 <= size)
                => Written(RangeToString(parts, w), text \o joined, size)
    BY ElementsWrite
  <1>4. rest \in Texts
    <2>1. v.of = Inside(v)
      BY DEF Inside
    <2>2. count > MAX_PRINT_SIZE => More(count - MAX_PRINT_SIZE) \in Texts
      BY <2>1, LogAssumption DEF IsLoggable
    <2>3. <<>> \in Texts
      BY Literals
    <2> QED
      BY <2>2, <2>3
  <1>5. open \in Texts /\ close \in Texts /\ Len(open) = 1 /\ Len(close) = 1
    BY Literals
  <1>6. ASSUME NEW with_key \in BOOLEAN
        PROVE  Shown[v][with_key] = InBraces(inner, with_key)
    <2>1. Shown[v][with_key] = Show(v, ShownInside(v), with_key)
      BY ValueIs
    <2>2. Show(v, ShownInside(v), with_key) = InBraces(inner, with_key)
      BY <1>1 DEF Show
    <2> QED
      BY <2>1, <2>2
  <1>7. ASSUME NEW with_key \in BOOLEAN, NEW w \in LogBuffers
        PROVE  LET x == RangeToString(parts, FormatTo(Braced(w, with_key, "{"), open))
                   y == IF count > MAX_PRINT_SIZE
                        THEN FormatTo(x, More(count - MAX_PRINT_SIZE)) ELSE x
               IN  ValueToString[v][<<with_key, w>>]
                     = Braced(FormatTo(y, close), with_key, "}")
    <2> DEFINE x == RangeToString(parts, FormatTo(Braced(w, with_key, "{"), open))
    <2>1. ValueToString[v][<<with_key, w>>] = Stringify(v, parts, with_key, w)
      BY ValueIs
    <2>2. (count - MAX_PRINT_SIZE > 0) <=> count > MAX_PRINT_SIZE
      BY <1>1 DEF MAX_PRINT_SIZE
    <2> DEFINE y == IF count - MAX_PRINT_SIZE > 0
                    THEN FormatTo(x, More(count - MAX_PRINT_SIZE)) ELSE x
               z == IF count > MAX_PRINT_SIZE
                    THEN FormatTo(x, More(count - MAX_PRINT_SIZE)) ELSE x
    <2>3. Stringify(v, parts, with_key, w) = Braced(FormatTo(y, close), with_key, "}")
      BY <1>1 DEF Stringify
    <2>4. y = z
      <3> HIDE DEF x, count
      <3> QED
        BY <2>2, Zenon
    <2> HIDE DEF y, z
    <2>5. ValueToString[v][<<with_key, w>>] = Braced(FormatTo(z, close), with_key, "}")
      BY <2>1, <2>3, <2>4, Zenon
    <2> QED
      BY <2>5 DEF z
  <1> HIDE DEF joined, rest, open, close, parts
  <1>8. /\ open \o joined \in Texts /\ (open \o joined) \o rest \in Texts /\ inner \in Texts
        /\ Len(joined) \in Nat /\ Len(joined) + 2 <= Len(inner)
    <2>1. /\ open \o joined \in Texts /\ Len(open \o joined) = Len(open) + Len(joined)
          /\ Len(joined) \in Nat
      BY <1>2, <1>5, TextJoins
    <2>2. /\ (open \o joined) \o rest \in Texts /\ Len(rest) \in Nat
          /\ Len((open \o joined) \o rest) = Len(open \o joined) + Len(rest)
      BY <1>4, <2>1, TextJoins
    <2>3. inner \in Texts /\ Len(inner) = Len((open \o joined) \o rest) + Len(close)
      BY <1>5, <2>2, TextJoins
    <2>4. Len(inner) = ((1 + Len(joined)) + Len(rest)) + 1
      BY <1>5, <2>1, <2>2, <2>3
    <2> DEFINE a == Len(joined)
               b == Len(rest)
               c == Len(inner)
    <2>5. a \in Nat /\ b \in Nat /\ c = ((1 + a) + b) + 1
      BY <2>1, <2>2, <2>4
    <2> HIDE DEF a, b, c
    <2>6. a + 2 <= c
      BY <2>5
    <2> QED
      BY <2>1, <2>2, <2>3, <2>6 DEF a, c
  <1> HIDE DEF n, count
  <1>9. ASSUME NEW with_key \in BOOLEAN, NEW w, NEW text, NEW size, Written(w, text, size),
               HasStruct[v] => Len(text) + Len(Shown[v][with_key]) + 2 <= size
        PROVE  Written(ValueToString[v][<<with_key, w>>],
                       text \o Shown[v][with_key], size)
    <2> DEFINE brace == Brace("{", with_key)
               w1 == Braced(w, with_key, "{")
               w2 == FormatTo(w1, open)
               x == RangeToString(parts, w2)
               y == IF count > MAX_PRINT_SIZE
                    THEN FormatTo(x, More(count - MAX_PRINT_SIZE)) ELSE x
               z == FormatTo(y, close)
               t == text \o brace
    <2>1. /\ w \in LogBuffers /\ text \in Texts /\ w.buffer \in Texts /\ Len(w.buffer) = size
      BY <1>9, BufferIs DEF Written
    <2>2. brace \in Texts /\ t \in Texts /\ Len(t) = Len(text) + Len(brace)
          /\ Len(text) \in Nat /\ Len(brace) \in Nat /\ size \in Nat
      <3>1. brace \in Texts
        BY BracesWrite
      <3> HIDE DEF brace
      <3> QED
        BY <2>1, <3>1, TextJoins
    <2>3. ValueToString[v][<<with_key, w>>] = Braced(z, with_key, "}")
      BY <1>7, <2>1
    <2>4. Written(w1, t, size)
      BY <1>9, BracesWrite
    <2> HIDE DEF brace, w1, t
    <2>5. Written(w2, t \o open, size)
      BY <1>5, <2>4, FormatWrites
    <2> HIDE DEF w2
    <2>6. HasStruct[v] => Len(t \o open) + Len(joined) + 2 <= size
      <3>1. Len(t \o open) = Len(t) + 1
        <4>1. Len(t \o open) = Len(t) + Len(open)
          BY <1>5, <2>2, TextJoins
        <4> QED
          BY <1>5, <4>1
      <3>2. /\ Len(InBraces(inner, with_key)) = Len(brace) + Len(inner) + Len(Brace("}", with_key))
            /\ Len(Brace("}", with_key)) \in Nat
        <4>1. Brace("}", with_key) \in Texts
          BY BracesWrite
        <4>2. Len(Brace("}", with_key)) \in Nat
          BY <4>1, TextJoins
        <4> HIDE DEF inner
        <4> QED
          BY <1>8, <4>2, InBracesIs DEF brace
      <3>3. HasStruct[v] => Len(text) + Len(InBraces(inner, with_key)) + 2 <= size
        BY <1>6, <1>9
      <3> DEFINE a == Len(text)
                 b == Len(brace)
                 c == Len(inner)
                 d == Len(Brace("}", with_key))
                 e == Len(joined)
                 f == Len(t \o open)
                 has == HasStruct[v]
      <3>4. Len(inner) \in Nat
        <4> HIDE DEF inner
        <4> QED
          BY <1>8, TextJoins
      <3>5. /\ a \in Nat /\ b \in Nat /\ c \in Nat /\ d \in Nat /\ e \in Nat /\ e + 2 <= c
            /\ f = (a + b) + 1
            /\ (has => a + (b + c + d) + 2 <= size)
        BY <1>8, <2>2, <3>1, <3>2, <3>3, <3>4
      <3> HIDE DEF a, b, c, d, e, f, has
      <3>6. has => f + e + 2 <= size
        BY <2>2, <3>5
      <3> QED
        BY <3>6 DEF has, e, f
    <2>7. Written(x, (t \o open) \o joined, size)
      BY <1>3, <2>5, <2>6
    <2> HIDE DEF x
    <2>8. Written(y, ((t \o open) \o joined) \o rest, size)
      <3>1. CASE count > MAX_PRINT_SIZE
        <4>1. rest = More(count - MAX_PRINT_SIZE) /\ y = FormatTo(x, rest)
          BY <3>1 DEF rest
        <4> HIDE DEF y
        <4> QED
          BY <1>4, <2>7, <4>1, FormatWrites
      <3>2. CASE ~(count > MAX_PRINT_SIZE)
        <4>1. y = x /\ rest = <<>>
          BY <3>2 DEF rest
        <4>2. (t \o open) \o joined \in Texts
          BY <2>7 DEF Written
        <4>3. ((t \o open) \o joined) \o <<>> = (t \o open) \o joined
          BY <4>2, TextJoins
        <4> QED
          BY <2>7, <4>1, <4>3
      <3> QED
        BY <3>1, <3>2
    <2> HIDE DEF y
    <2>9. Written(z, (((t \o open) \o joined) \o rest) \o close, size)
      BY <1>5, <2>8, FormatWrites
    <2> HIDE DEF z
    <2>10. (((t \o open) \o joined) \o rest) \o close = t \o inner
      <3>1. /\ t \in Texts /\ open \in Texts /\ joined \in Texts
            /\ rest \in Texts /\ close \in Texts
        BY <1>2, <1>4, <1>5, <2>2
      <3>2. AllAssociate(t, open, joined, rest, close)
        BY <3>1, FiveTextsAssociate
      <3> QED
        BY <3>2 DEF AllAssociate
    <2> HIDE DEF inner
    <2>11. Written(z, (text \o Brace("{", with_key)) \o inner, size)
      BY <2>9, <2>10 DEF t, brace
    <2>12. Written(Braced(z, with_key, "}"), text \o InBraces(inner, with_key), size)
      BY <1>8, <2>1, <2>11, BracedWrites
    <2> QED
      BY <1>6, <2>3, <2>12
  <1> HIDE DEF inner
  <1>10. ASSUME NEW with_key \in BOOLEAN
         PROVE  Shown[v][with_key] \in Texts
    BY <1>6, <1>8, InBracesIs
  <1>11. HasStruct[v] \in BOOLEAN
    BY ValueIs
  <1> QED
    BY <1>9, <1>10, <1>11 DEF Prints

(* One member of a struct: its key, its value and a separator. *)
LEMMA MemberWrites ==
  ASSUME NEW v \in Loggable, v.kind = "struct",
         NEW i \in 1..Len(Inside(v)), Prints(Inside(v)[i]),
         NEW shown, shown = ShownInside(v)[i][TRUE],
         NEW member, member = (v.keys[i] \o <<":">>) \o shown,
         NEW x, NEW t, NEW size, Written(x, t, size),
         Len(t) + Len(member) + 2 <= size
  PROVE  Written(Member(v.keys, WritersInside(v), i)[x], t \o (member \o Comma), size)
  <1> DEFINE colon == <<":">>
             name == v.keys[i]
             key == name \o colon
             y == FormatKeyTo(x, key)
             z == WritersInside(v)[i][<<TRUE, y>>]
  <1>1. /\ x \in LogBuffers /\ t \in Texts /\ x.buffer \in Texts /\ Len(x.buffer) = size
    BY BufferIs DEF Written
  <1>2. Len(t) \in Nat /\ size \in Nat
    BY <1>1, TextJoins
  <1>3. shown = Shown[Inside(v)[i]][TRUE] /\ shown \in Texts /\ Len(shown) \in Nat
    <2>1. shown = Shown[Inside(v)[i]][TRUE]
      BY PartsAre
    <2>2. shown \in Texts
      BY <2>1 DEF Prints
    <2> QED
      BY <2>1, <2>2, TextJoins
  <1>4. name \in Texts /\ Append(name, ":") = key
    <2>1. v.keys \in Seq(Texts) /\ Len(v.keys) = Len(v.of) /\ v.of = Inside(v)
      BY LogAssumption DEF IsLoggable, Inside
    <2>2. v.keys[i] \in Texts
      BY <2>1, ElementOfSeq
    <2>3. ":" \in Chars
      BY LogAssumption
    <2> HIDE DEF name
    <2>4. name \in Seq(Chars)
      BY <2>2 DEF name, Texts
    <2> QED
      BY <2>3, <2>4, AppendIsConcat DEF Texts
  <1>5. colon \in Texts /\ key \in Texts
    <2>1. colon \in Texts
      BY Literals
    <2> HIDE DEF colon, name
    <2> QED
      BY <1>4, <2>1, TextJoins
  <1>6. Member(v.keys, WritersInside(v), i)[x] = FormatTo(z, Comma)
    <2>1. Member(v.keys, WritersInside(v), i)[x]
            = FormatTo(WritersInside(v)[i][<<TRUE, FormatKeyTo(x, Append(v.keys[i], ":"))>>], Comma)
      BY <1>1 DEF Member
    <2> QED
      BY <1>4, <2>1
  <1> HIDE DEF key, z
  <1>7. /\ member = key \o shown /\ member \in Texts /\ Len(member) = Len(key) + Len(shown)
        /\ Len(key) \in Nat /\ t \o key \in Texts /\ Len(t \o key) = Len(t) + Len(key)
    <2>1. member = key \o shown
      BY DEF key
    <2>2. key \in Texts /\ shown \in Texts /\ t \in Texts
      BY <1>1, <1>3, <1>5
    <2> DEFINE joined == key \o shown
    <2>3. joined \in Texts /\ Len(joined) = Len(key) + Len(shown) /\ Len(key) \in Nat
      BY <2>2, TextJoins
    <2>4. t \o key \in Texts /\ Len(t \o key) = Len(t) + Len(key)
      BY <2>2, TextJoins
    <2> HIDE DEF joined
    <2>5. member = joined
      BY <2>1 DEF joined
    <2> QED
      BY <2>1, <2>3, <2>4, <2>5
  <1>8. Len(t) + Len(key) <= size /\ Len(t \o key) + Len(shown) + 2 <= size
    <2> DEFINE a == Len(t)
               b == Len(key)
               c == Len(shown)
               d == Len(t \o key)
    <2>1. a \in Nat /\ b \in Nat /\ c \in Nat /\ d = a + b /\ a + (b + c) + 2 <= size
      BY <1>2, <1>3, <1>7
    <2> HIDE DEF a, b, c, d
    <2>2. a + b <= size /\ d + c + 2 <= size
      BY <1>2, <2>1
    <2> QED
      BY <2>2 DEF a, b, c, d
  <1>9. Written(y, t \o key, size)
    BY <1>5, <1>8, FormatKeyWrites
  <1> HIDE DEF y
  <1>10. Written(z, (t \o key) \o shown, size)
    <2>1. Written(ValueToString[Inside(v)[i]][<<TRUE, y>>],
                  (t \o key) \o Shown[Inside(v)[i]][TRUE], size)
      BY <1>3, <1>8, <1>9 DEF Prints
    <2>2. WritersInside(v)[i] = ValueToString[Inside(v)[i]]
      BY PartsAre
    <2> QED
      BY <1>3, <2>1, <2>2 DEF z
  <1>11. (t \o key) \o shown = t \o member
    <2>1. key \in Texts /\ shown \in Texts /\ t \in Texts
      BY <1>1, <1>3, <1>5
    <2>2. Associates(t, key, shown)
      BY <2>1, TextsAssociate
    <2> QED
      BY <1>7, <2>2 DEF Associates
  <1>12. Written(FormatTo(z, Comma), (t \o member) \o Comma, size)
    <2>1. Comma \in Texts
      BY Literals
    <2> QED
      BY <1>10, <1>11, <2>1, FormatWrites
  <1>13. (t \o member) \o Comma = t \o (member \o Comma)
    BY <1>1, <1>7, CommaJoins
  <1> QED
    BY <1>6, <1>12, <1>13

(* The same texts, with a separator behind the last one as well. *)
LEMMA AllSeparated ==
  ASSUME NEW n \in Nat, NEW texts \in [1..n -> Texts]
  PROVE  \E upto \in [0..n -> Texts] :
           /\ upto[0] = <<>>
           /\ \A i \in 1..n : upto[i] = upto[i - 1] \o (texts[i] \o Comma)
           /\ upto[n] = IF n = 0 THEN Joined(texts) ELSE Joined(texts) \o Comma
  <1>1. PICK less \in [0..n -> Texts] :
          /\ less[0] = <<>>
          /\ \A i \in 1..n :
               less[i] = less[i - 1] \o (IF i < n THEN texts[i] \o Comma ELSE texts[i])
          /\ Joined(texts) = less[n]
    BY JoinedIs
  <1>2. \A i \in 0..n : less[i] \in Texts /\ less[i] \o Comma \in Texts
    <2>1. \A i \in 0..n : less[i] \in Texts
      OBVIOUS
    <2> QED
      BY <2>1, CommaJoins
  <1> DEFINE full == [i \in 0..n |-> IF i < n \/ n = 0 THEN less[i] ELSE less[i] \o Comma]
  <1>3. full \in [0..n -> Texts]
    BY <1>2
  <1>4. \A i \in 0..n : full[i] = IF i < n \/ n = 0 THEN less[i] ELSE less[i] \o Comma
    OBVIOUS
  <1> HIDE DEF full
  <1>5. full[0] = <<>> /\ full[n] = IF n = 0 THEN Joined(texts) ELSE Joined(texts) \o Comma
    <2>1. 0 \in 0..n /\ n \in 0..n /\ (0 < n \/ n = 0) /\ ~(n < n)
      OBVIOUS
    <2> QED
      BY <1>1, <1>4, <2>1
  <1>6. ASSUME NEW i \in 1..n
        PROVE  full[i] = full[i - 1] \o (texts[i] \o Comma)
    <2>1. i \in 0..n /\ i - 1 \in 0..n /\ i - 1 < n /\ n # 0
      OBVIOUS
    <2>2. full[i - 1] = less[i - 1]
      BY <1>4, <2>1
    <2>3. CASE i < n
      BY <1>1, <1>4, <2>1, <2>2, <2>3
    <2>4. CASE ~(i < n)
      <3>1. full[i] = less[i] \o Comma /\ less[i] = less[i - 1] \o texts[i]
        BY <1>1, <1>4, <2>1, <2>4
      <3>2. texts[i] \in Texts /\ less[i - 1] \in Texts
        BY <1>2, <2>1
      <3>3. (less[i - 1] \o texts[i]) \o Comma = less[i - 1] \o (texts[i] \o Comma)
        BY <3>2, CommaJoins
      <3> QED
        BY <2>2, <3>1, <3>3
    <2> QED
      BY <2>3, <2>4
  <1> QED
    BY <1>3, <1>5, <1>6

(* The buffer behind the members: the last separator is taken back.           *)
Untrailed(parts, x) == IF parts = <<>> THEN x ELSE [x EXCEPT !.pos = x.pos - 2]

(* The loop over the members of a struct, where there is room. *)
LEMMA MembersWrite ==
  ASSUME NEW v \in Loggable, v.kind = "struct",
         \A i \in DOMAIN Inside(v) : Prints(Inside(v)[i]),
         NEW n, n = Len(Inside(v)),
         NEW joined,
         joined = Joined([i \in 1..n |-> v.keys[i] \o <<":">> \o ShownInside(v)[i][TRUE]])
  PROVE  /\ joined \in Texts
         /\ \A w, text, size :
              Written(w, text, size) /\ Len(text) + Len(joined) + 2 <= size
                => Written(Untrailed(WritersInside(v),
                                     FieldsToString(v.keys, WritersInside(v), w)),
                           text \o joined, size)
  <1> DEFINE parts == WritersInside(v)
             shown == ShownInside(v)
             texts == [i \in 1..n |-> v.keys[i] \o <<":">> \o shown[i][TRUE]]
             pieces == [i \in 1..n |-> texts[i] \o Comma]
             writers == [i \in 1..n |-> Member(v.keys, parts, i)]
  <1>1. n \in Nat /\ DOMAIN Inside(v) = 1..n /\ DOMAIN parts = 1..n /\ Len(parts) = n
    BY PartsAre
  <1>2. \A i \in 1..n : texts[i] \in Texts
    <2> SUFFICES ASSUME NEW i \in 1..n
                 PROVE  v.keys[i] \o <<":">> \o shown[i][TRUE] \in Texts
      OBVIOUS
    <2> DEFINE a == v.keys[i]
               b == <<":">>
               c == shown[i][TRUE]
    <2>1. v.keys \in Seq(Texts) /\ Len(v.keys) = Len(v.of) /\ v.of = Inside(v)
      BY LogAssumption DEF IsLoggable, Inside
    <2>2. a \in Texts
      BY <2>1, ElementOfSeq
    <2>3. b \in Texts
      BY Literals
    <2>4. c \in Texts
      <3>1. shown[i] = Shown[Inside(v)[i]] /\ Prints(Inside(v)[i])
        BY <1>1, PartsAre
      <3> QED
        BY <3>1 DEF Prints
    <2> HIDE DEF a, b, c
    <2>5. a \o b \in Texts
      BY <2>2, <2>3, TextJoins
    <2>6. (a \o b) \o c \in Texts
      BY <2>4, <2>5, TextJoins
    <2> QED
      BY <2>6 DEF a, b, c
  <1>3. \A i \in 1..n : texts[i] = (v.keys[i] \o <<":">>) \o shown[i][TRUE]
    <2> HIDE DEF shown
    <2> QED
      OBVIOUS
  <1>4. texts \in [1..n -> Texts]
    BY <1>2
  <1>5. joined = Joined(texts)
    OBVIOUS
  <1> HIDE DEF texts
  <1>6. \A i \in 1..n : pieces[i] = texts[i] \o Comma
    OBVIOUS
  <1>7. pieces \in [1..n -> Texts]
    <2> SUFFICES ASSUME NEW i \in 1..n
                 PROVE  texts[i] \o Comma \in Texts
      OBVIOUS
    <2>1. texts[i] \in Texts
      BY <1>4
    <2> QED
      BY <2>1, CommaJoins
  <1>8. PICK upto \in [0..n -> Texts] :
           /\ upto[0] = <<>>
           /\ \A i \in 1..n : upto[i] = upto[i - 1] \o (texts[i] \o Comma)
           /\ upto[n] = IF n = 0 THEN Joined(texts) ELSE Joined(texts) \o Comma
    BY <1>1, <1>4, AllSeparated
  <1> HIDE DEF pieces
  <1>9. \A i \in 1..n : upto[i] = upto[i - 1] \o pieces[i]
    BY <1>6, <1>8
  <1>10. Len(writers) = n /\ \A i \in 1..n : writers[i] = Member(v.keys, parts, i)
    <2>1. \A i \in 1..n : writers[i] = Member(v.keys, parts, i)
      BY Zenon
    <2>2. writers = [i \in 1..n |-> writers[i]]
      BY Zenon
    <2> HIDE DEF writers
    <2> QED
      BY <1>1, <2>1, <2>2, LengthOfList
  <1>11. joined \in Texts
    BY <1>1, <1>4, <1>5, JoinedIs
  <1>12. \A w : FieldsToString(v.keys, parts, w) = InTurn(writers, w)[n]
    <2> HIDE DEF parts
    <2> QED
      BY <1>1 DEF FieldsToString
  <1> HIDE DEF writers
  <1>13. ASSUME NEW w, NEW text, NEW size, Written(w, text, size),
                Len(text) + Len(joined) + 2 <= size
         PROVE  Written(Untrailed(parts, FieldsToString(v.keys, parts, w)),
                        text \o joined, size)
    <2> DEFINE x == InTurn(writers, w)[n]
    <2>1. /\ text \in Texts /\ Len(text) \in Nat /\ size \in Nat
      <3>1. text \in Texts /\ w.buffer \in Texts /\ Len(w.buffer) = size
        BY <1>13, BufferIs DEF Written
      <3> QED
        BY <3>1, TextJoins
    <2>2. Len(text) + Len(upto[n]) <= size
      <3>1. Len(joined \o Comma) = Len(joined) + 2
        BY <1>11, CommaJoins
      <3> DEFINE a == Len(joined)
      <3>2. a \in Nat
        BY <1>11, TextJoins
      <3>3. Len(upto[n]) = a \/ Len(upto[n]) = a + 2
        BY <1>5, <1>8, <3>1
      <3>4. Len(text) + a + 2 <= size
        BY <1>13
      <3> HIDE DEF a
      <3> QED
        BY <2>1, <3>2, <3>3, <3>4
    <2>3. HasRoom(TRUE, text, upto[n], 0, size)
      <3> DEFINE a == Len(upto[n])
      <3>1. upto[n] \in Texts
        BY <1>1
      <3>2. a \in Nat
        BY <3>1, TextJoins
      <3>3. Len(text) + a <= size
        BY <2>2
      <3> HIDE DEF a
      <3>4. Len(text) + a + 0 <= size
        BY <2>1, <3>2, <3>3
      <3> QED
        BY <3>4 DEF a, HasRoom
    <2>4. ASSUME NEW i \in 1..n, NEW y, NEW t, Written(y, t, size),
                 HasRoom(TRUE, t, pieces[i], 0, size)
          PROVE  Written(writers[i][y], t \o pieces[i], size)
      <3> DEFINE member == texts[i]
                 s == shown[i][TRUE]
      <3>1. member = (v.keys[i] \o <<":">>) \o s
        BY <1>3
      <3>2. pieces[i] = member \o Comma /\ member \in Texts
        BY <1>4, <1>6
      <3>3. i \in 1..Len(Inside(v)) /\ Prints(Inside(v)[i])
        BY <1>1
      <3>4. s = ShownInside(v)[i][TRUE]
        OBVIOUS
      <3> HIDE DEF member, s, shown
      <3>5. Len(t) + Len(member) + 2 <= size
        <4>1. t \in Texts
          BY <2>4 DEF Written
        <4>2. Len(member \o Comma) = Len(member) + 2 /\ Len(member) \in Nat /\ Len(t) \in Nat
          BY <3>2, <4>1, CommaJoins, TextJoins
        <4> DEFINE a == Len(pieces[i])
                   b == Len(member)
        <4>3. a = b + 2 /\ b \in Nat
          BY <3>2, <4>2
        <4>4. Len(t) + a + 0 <= size
          BY <2>4 DEF HasRoom
        <4> HIDE DEF a, b
        <4>5. Len(t) + b + 2 <= size
          BY <2>1, <4>2, <4>3, <4>4
        <4> QED
          BY <4>5 DEF b
      <3>6. Written(Member(v.keys, WritersInside(v), i)[y], t \o (member \o Comma), size)
        BY <2>4, <3>1, <3>3, <3>4, <3>5, MemberWrites
      <3> QED
        BY <1>10, <3>2, <3>6
    <2>5. Written(x, text \o upto[n], size)
      <3>1. 0 \in Nat /\ n \in Nat /\ n \in 0..n /\ TRUE \in BOOLEAN
        BY <1>1
      <3>2. Len(writers) = n /\ upto[0] = <<>>
        BY <1>8, <1>10
      <3>3. EachWrites(n, writers, pieces, size, TRUE, 0)
        BY <2>4 DEF EachWrites
      <3>4. \A i \in 0..n : Written(InTurn(writers, w)[i], text \o upto[i], size)
        <4>1. /\ pieces \in [1..n -> Texts] /\ upto \in [0..n -> Texts]
              /\ \A i \in 1..n : upto[i] = upto[i - 1] \o pieces[i]
          BY <1>7, <1>9
        <4>2. Written(w, text, size)
          BY <1>13
        <4> QED
          BY <2>3, <3>1, <3>2, <3>3, <4>1, <4>2, WritesInTurn
      <3> QED
        BY <3>1, <3>4
    <2>6. FieldsToString(v.keys, parts, w) = x
      BY <1>12
    <2> HIDE DEF x
    <2>7. CASE n = 0
      <3>1. parts = <<>>
        <4>1. parts \in [1..n -> {parts[i] : i \in 1..n}]
          BY <1>1 DEF WritersInside
        <4>2. parts \in Seq({parts[i] : i \in 1..n})
          BY <1>1, <4>1, ListIsSeq
        <4> HIDE DEF parts
        <4> QED
          BY <1>1, <2>7, <4>2, EmptySeq
      <3>2. Untrailed(parts, x) = x /\ upto[n] = joined
        BY <1>5, <1>8, <2>7, <3>1 DEF Untrailed
      <3> QED
        BY <2>5, <2>6, <3>2
    <2>8. CASE n # 0
      <3>1. parts # <<>>
        <4>1. Len(<<>>) = 0
          BY Literals
        <4> QED
          BY <1>1, <2>8, <4>1
      <3>2. Untrailed(parts, x) = [x EXCEPT !.pos = x.pos - 2] /\ upto[n] = joined \o Comma
        BY <1>5, <1>8, <2>8, <3>1 DEF Untrailed
      <3> DEFINE whole == text \o joined
      <3>3. whole \in Texts /\ Len(whole) = Len(text) + Len(joined) /\ Len(joined) \in Nat
        BY <1>11, <2>1, TextJoins
      <3>4. (text \o joined) \o Comma = text \o (joined \o Comma)
        BY <1>11, <2>1, CommaJoins
      <3>5. Written(x, whole \o Comma, size)
        BY <2>5, <3>2, <3>4
      <3> HIDE DEF whole
      <3>6. Len(whole) + 2 <= size
        <4> DEFINE a == Len(joined)
        <4>1. a \in Nat /\ Len(whole) = Len(text) + a /\ Len(text) + a + 2 <= size
          BY <1>13, <3>3
        <4> HIDE DEF a
        <4> QED
          BY <2>1, <4>1
      <3>7. Comma \in Texts /\ Len(Comma) = 2
        BY Literals
      <3>8. Written([x EXCEPT !.pos = x.pos - 2], whole, size)
        BY <3>3, <3>5, <3>6, <3>7, TakesBack
      <3> QED
        BY <2>6, <3>2, <3>8 DEF whole
    <2> QED
      BY <2>7, <2>8
  <1> QED
    BY <1>11, <1>13

(* value_to_string of a struct: its keys and values. *)
LEMMA StructPrints ==
  ASSUME NEW v \in Loggable, v.kind = "struct",
         \A i \in DOMAIN Inside(v) : Prints(Inside(v)[i])
  PROVE  Prints(v)
  <1> DEFINE parts == WritersInside(v)
             n == Len(Inside(v))
             joined == Joined([i \in 1..n |->
                         v.keys[i] \o <<":">> \o ShownInside(v)[i][TRUE]])
  <1>1. DOMAIN ShownInside(v) = 1..n
    BY PartsAre
  <1>2. joined \in Texts
    BY MembersWrite
  <1>3. \A w, text, size :
          Written(w, text, size) /\ Len(text) + Len(joined) + 2 <= size
            => Written(Untrailed(parts, FieldsToString(v.keys, parts, w)),
                       text \o joined, size)
    BY MembersWrite
  <1>4. ASSUME NEW with_key \in BOOLEAN
        PROVE  Shown[v][with_key] = InBraces(joined, with_key)
    <2>1. Shown[v][with_key] = Show(v, ShownInside(v), with_key)
      BY ValueIs
    <2>2. Show(v, ShownInside(v), with_key) = InBraces(joined, with_key)
      BY <1>1 DEF Show
    <2> QED
      BY <2>1, <2>2
  <1>5. ASSUME NEW with_key \in BOOLEAN, NEW w \in LogBuffers
        PROVE  ValueToString[v][<<with_key, w>>]
                 = Braced(Untrailed(parts, FieldsToString(v.keys, parts, Braced(w, with_key, "{"))),
                          with_key, "}")
    <2>1. ValueToString[v][<<with_key, w>>] = Stringify(v, parts, with_key, w)
      BY ValueIs
    <2> HIDE DEF parts
    <2>2. Stringify(v, parts, with_key, w)
                 = Braced(Untrailed(parts, FieldsToString(v.keys, parts, Braced(w, with_key, "{"))),
                          with_key, "}")
      BY DEF Stringify, Untrailed
    <2> QED
      BY <2>1, <2>2
  <1> HIDE DEF joined, parts
  <1>6. ASSUME NEW with_key \in BOOLEAN, NEW w, NEW text, NEW size, Written(w, text, size),
               HasStruct[v] => Len(text) + Len(Shown[v][with_key]) + 2 <= size
        PROVE  Written(ValueToString[v][<<with_key, w>>],
                       text \o Shown[v][with_key], size)
    <2> DEFINE brace == Brace("{", with_key)
               w1 == Braced(w, with_key, "{")
               x == Untrailed(parts, FieldsToString(v.keys, parts, w1))
               t == text \o brace
    <2>1. /\ w \in LogBuffers /\ text \in Texts /\ w.buffer \in Texts /\ Len(w.buffer) = size
      BY <1>6, BufferIs DEF Written
    <2>2. brace \in Texts /\ t \in Texts /\ Len(t) = Len(text) + Len(brace)
          /\ Len(text) \in Nat /\ Len(brace) \in Nat /\ size \in Nat
      <3>1. brace \in Texts
        BY BracesWrite
      <3> HIDE DEF brace
      <3> QED
        BY <2>1, <3>1, TextJoins
    <2>3. ValueToString[v][<<with_key, w>>] = Braced(x, with_key, "}")
      BY <1>5, <2>1
    <2>4. Written(w1, t, size)
      BY <1>6, BracesWrite
    <2> HIDE DEF brace, w1, t
    <2>5. Len(t) + Len(joined) + 2 <= size
      <3>1. /\ Len(InBraces(joined, with_key)) = Len(brace) + Len(joined) + Len(Brace("}", with_key))
            /\ Len(Brace("}", with_key)) \in Nat
        <4>1. Brace("}", with_key) \in Texts
          BY BracesWrite
        <4>2. Len(Brace("}", with_key)) \in Nat
          BY <4>1, TextJoins
        <4> QED
          BY <1>2, <4>2, InBracesIs DEF brace
      <3>2. HasStruct[v]
        BY ValueIs
      <3>3. Len(text) + Len(InBraces(joined, with_key)) + 2 <= size
        BY <1>4, <1>6, <3>2
      <3>4. Len(joined) \in Nat
        BY <1>2, TextJoins
      <3> DEFINE a == Len(text)
                 b == Len(brace)
                 c == Len(joined)
                 d == Len(Brace("}", with_key))
                 e == Len(t)
      <3>5. /\ a \in Nat /\ b \in Nat /\ c \in Nat /\ d \in Nat /\ e = a + b
            /\ a + (b + c + d) + 2 <= size
        BY <2>2, <3>1, <3>3, <3>4
      <3> HIDE DEF a, b, c, d, e
      <3>6. e + c + 2 <= size
        BY <2>2, <3>5
      <3> QED
        BY <3>6 DEF c, e
    <2>6. Written(x, t \o joined, size)
      BY <1>3, <2>4, <2>5
    <2> HIDE DEF x
    <2>7. Written(x, (text \o Brace("{", with_key)) \o joined, size)
      BY <2>6 DEF t, brace
    <2>8. Written(Braced(x, with_key, "}"), text \o InBraces(joined, with_key), size)
      BY <1>2, <2>1, <2>7, BracedWrites
    <2> QED
      BY <1>4, <2>3, <2>8
  <1>7. ASSUME NEW with_key \in BOOLEAN
        PROVE  Shown[v][with_key] \in Texts
    BY <1>2, <1>4, InBracesIs
  <1>8. HasStruct[v] \in BOOLEAN
    BY ValueIs
  <1> QED
    BY <1>6, <1>7, <1>8 DEF Prints

(* value_to_string writes what its value is shown as. *)
LEMMA EveryValuePrints ==
  \A v \in Loggable : Prints(v)
  <1> DEFINE D == {d \in Nat : \A v \in Loggable : Nesting[v] < d => Prints(v)}
  <1>1. 0 \in D
    <2>1. \A v \in Loggable : ~(Nesting[v] < 0)
      BY Nested
    <2> QED
      BY <2>1
  <1>2. ASSUME NEW d \in Nat, d \in D
        PROVE  d + 1 \in D
    <2> SUFFICES ASSUME NEW v \in Loggable, Nesting[v] < d + 1
                 PROVE  Prints(v)
      OBVIOUS
    <2>1. \A i \in DOMAIN Inside(v) : Prints(Inside(v)[i])
      <3> SUFFICES ASSUME NEW i \in DOMAIN Inside(v)
                   PROVE  Prints(Inside(v)[i])
        OBVIOUS
      <3>1. Inside(v)[i] \in Loggable /\ Nesting[Inside(v)[i]] < d
        BY Nested
      <3> QED
        BY <1>2, <3>1
    <2>2. v.kind \in {"plain", "custom", "pointer", "range", "struct"}
      BY LogAssumption
    <2>3. CASE v.kind = "plain"
      BY <2>3, PlainPrints
    <2>4. CASE v.kind = "custom"
      BY <2>4, CustomPrints
    <2>5. CASE v.kind = "pointer"
      <3>1. Inside(v) = <<v.to>>
        BY <2>5 DEF Inside
      <3>2. Prints(v.to)
        BY <2>1, <3>1
      <3> QED
        BY <2>5, <3>2, PointerPrints
    <2>6. CASE v.kind = "range"
      BY <2>1, <2>6, RangePrints
    <2>7. CASE v.kind = "struct"
      BY <2>1, <2>7, StructPrints
    <2> QED
      BY <2>2, <2>3, <2>4, <2>5, <2>6, <2>7
  <1>3. PICK n \in Nat : \A v \in Loggable : Nesting[v] < n
    BY Nested
  <1>4. n \in D
    <2> HIDE DEF D
    <2> QED
      BY <1>1, <1>2, Upwards
  <1> QED
    BY <1>3, <1>4

(* Texts of one length with the same characters are equal. *)
LEMMA SameText ==
  ASSUME NEW a \in Texts, NEW b \in Texts, Len(a) = Len(b),
         \A i \in 1..Len(a) : a[i] = b[i]
  PROVE  a = b
  BY SeqEqual DEF Texts

(* Two neighbouring parts of a text. *)
LEMMA PartsJoin ==
  ASSUME NEW b \in Texts, NEW p \in Nat, NEW q \in Nat, p <= q, q <= Len(b)
  PROVE  SubSeq(b, 1, p) \o SubSeq(b, p + 1, q) = SubSeq(b, 1, q)
  <1>1. /\ b \in Seq(Chars) /\ Len(b) \in Nat
        /\ 1 \in 1..(Len(b) + 1) /\ p \in (1 - 1)..Len(b) /\ q \in p..Len(b)
    BY TextJoins DEF Texts
  <1> QED
    BY <1>1, ConcatAdjacentSubSeq

(* The text behind the first few pieces is the beginning of the whole.        *)
LEMMA Beginning ==
  ASSUME NEW n \in Nat, NEW texts \in [1..n -> Texts], NEW upto \in [0..n -> Texts],
         \A i \in 1..n : upto[i] = upto[i - 1] \o texts[i]
  PROVE  \A i \in 0..n : \A k \in 1..Len(upto[i]) : upto[n][k] = upto[i][k]
  <1> DEFINE Starts(i) == \A k \in 1..Len(upto[i]) : upto[n][k] = upto[i][k]
             D == {k \in Nat : k <= n => Starts(n - k)}
  <1>1. 0 \in D
    <2>1. n - 0 = n
      OBVIOUS
    <2> QED
      BY <2>1
  <1>2. ASSUME NEW k \in Nat, k \in D
        PROVE  k + 1 \in D
    <2> SUFFICES ASSUME k + 1 <= n
                 PROVE  Starts(n - (k + 1))
      <3> HIDE DEF Starts
      <3> QED
        OBVIOUS
    <2> DEFINE i == n - k
    <2>1. i \in 1..n /\ i - 1 = n - (k + 1) /\ i - 1 \in 0..n /\ i \in 0..n
      OBVIOUS
    <2>2. k <= n
      OBVIOUS
    <2>3. Starts(i)
      <3> HIDE DEF Starts
      <3> QED
        BY <1>2, <2>2
    <2> HIDE DEF i
    <2>4. upto[i] = upto[i - 1] \o texts[i] /\ upto[i - 1] \in Texts /\ texts[i] \in Texts
      BY <2>1
    <2> DEFINE a == upto[i - 1]
               b == texts[i]
    <2>5. upto[i] = a \o b /\ a \in Texts /\ b \in Texts
      BY <2>4
    <2> HIDE DEF a, b
    <2>6. /\ Len(a) \in Nat /\ Len(b) \in Nat /\ Len(a \o b) = Len(a) + Len(b)
          /\ \A j \in 1..(Len(a) + Len(b)) :
               (a \o b)[j] = IF j <= Len(a) THEN a[j] ELSE b[j - Len(a)]
      BY <2>5, TextJoins
    <2>7. \A j \in 1..Len(a) : upto[n][j] = a[j]
      <3> SUFFICES ASSUME NEW j \in 1..Len(a)
                   PROVE  upto[n][j] = a[j]
        OBVIOUS
      <3>1. j \in 1..(Len(a) + Len(b)) /\ j <= Len(a)
        BY <2>6
      <3>2. upto[n][j] = (a \o b)[j]
        BY <2>3, <2>5, <2>6, <3>1
      <3> QED
        BY <2>6, <3>1, <3>2
    <2> QED
      BY <2>1, <2>7 DEF a
  <1>3. \A k \in Nat : k \in D
    <2> HIDE DEF D
    <2> QED
      BY <1>1, <1>2, Upwards
  <1> SUFFICES ASSUME NEW i \in 0..n
               PROVE  Starts(i)
    OBVIOUS
  <1> DEFINE k == n - i
  <1>4. k \in Nat /\ k <= n /\ n - k = i
    OBVIOUS
  <1> HIDE DEF k, Starts
  <1>5. k \in D
    BY <1>3, <1>4
  <1> QED
    BY <1>4, <1>5

(* The texts of the arguments of a statement. *)
ArgTexts(args) == [i \in DOMAIN args |-> Shown[args[i]][FALSE]]

(* The texts of the arguments of a statement, one for each. *)
LEMMA ArgTextsAre ==
  ASSUME NEW args \in Seq(Loggable)
  PROVE  /\ Len(args) \in Nat /\ DOMAIN args = 1..Len(args)
         /\ ArgTexts(args) \in [1..Len(args) -> Texts]
         /\ \A i \in 1..Len(args) :
              args[i] \in Loggable /\ Prints(args[i])
              /\ ArgTexts(args)[i] = Shown[args[i]][FALSE]
  <1> DEFINE n == Len(args)
  <1>1. n \in Nat /\ DOMAIN args = 1..n /\ \A i \in 1..n : args[i] \in Loggable
    BY LenProperties, ElementOfSeq
  <1>2. \A i \in 1..n : Prints(args[i])
    BY <1>1, EveryValuePrints
  <1>3. \A i \in 1..n : Shown[args[i]][FALSE] \in Texts
    BY <1>2 DEF Prints
  <1> HIDE DEF n
  <1>4. ArgTexts(args) = [i \in 1..n |-> Shown[args[i]][FALSE]]
    BY <1>1 DEF ArgTexts
  <1> QED
    BY <1>1, <1>2, <1>3, <1>4 DEF n

(* The arguments of a statement are written one after the other: as far as    *)
(* the buffer reaches if there is no struct among them (~tight), or if there  *)
(* is room for all and a separator (tight).                                   *)
LEMMA LineWrites ==
  ASSUME NEW args \in Seq(Loggable), NEW size \in Nat, NEW tight \in BOOLEAN,
         tight => Len(Concatenation(ArgTexts(args))) + 2 <= size,
         ~tight => \A i \in DOMAIN args : ~HasStruct[args[i]]
  PROVE  \E upto \in [0..Len(args) -> Texts] :
           /\ upto[0] = <<>>
           /\ \A i \in 1..Len(args) : upto[i] = upto[i - 1] \o ArgTexts(args)[i]
           /\ Concatenation(ArgTexts(args)) = upto[Len(args)]
           /\ \A i \in 0..Len(args) :
                Written(ToStringArgs(args, EmptyBuffer(size))[i], upto[i], size)
  <1> DEFINE n == Len(args)
             texts == ArgTexts(args)
             w == EmptyBuffer(size)
             writers == [i \in 1..n |-> [x \in LogBuffers |-> ValueToString[args[i]][<<FALSE, x>>]]]
  <1>1. n \in Nat /\ DOMAIN args = 1..n /\ texts \in [1..n -> Texts]
    BY ArgTextsAre
  <1>2. \A i \in 1..n : args[i] \in Loggable /\ Prints(args[i]) /\ texts[i] = Shown[args[i]][FALSE]
    BY ArgTextsAre
  <1> HIDE DEF n, texts, w
  <1>3. PICK upto \in [0..n -> Texts] :
          /\ upto[0] = <<>>
          /\ \A i \in 1..n : upto[i] = upto[i - 1] \o texts[i]
          /\ Concatenation(texts) = upto[n]
    BY <1>1, JoinedTexts
  <1>4. Len(writers) = n
        /\ \A i \in 1..n : \A x \in LogBuffers : writers[i][x] = ValueToString[args[i]][<<FALSE, x>>]
    <2>1. \A i \in 1..n : \A x \in LogBuffers : writers[i][x] = ValueToString[args[i]][<<FALSE, x>>]
      BY Zenon
    <2>2. writers = [i \in 1..n |-> writers[i]]
      BY Zenon
    <2> HIDE DEF writers
    <2> QED
      BY <1>1, <2>1, <2>2, LengthOfList
  <1>5. ToStringArgs(args, w) = InTurn(writers, w)
    BY <1>1 DEF ToStringArgs
  <1> HIDE DEF writers
  <1>6. Written(w, <<>>, size)
    BY EmptyWritten DEF w
  <1>7. HasRoom(tight, <<>>, upto[n], 2, size)
    <2>1. tight => Len(upto[n]) + 2 <= size
      BY <1>3 DEF texts
    <2>2. upto[n] \in Texts /\ Len(<<>>) = 0
      <3>1. n \in 0..n
        BY <1>1
      <3>2. upto[n] \in Texts
        BY <3>1
      <3> QED
        BY <3>2, Literals
    <2> DEFINE a == Len(upto[n])
    <2>3. a \in Nat
      BY <2>2, TextJoins
    <2>4. tight => a + 2 <= size
      BY <2>1
    <2> HIDE DEF a
    <2>5. tight => 0 + a + 2 <= size
      BY <2>3, <2>4
    <2> QED
      BY <2>2, <2>5 DEF a, HasRoom
  <1>8. EachWrites(n, writers, texts, size, tight, 2)
    <2> SUFFICES ASSUME NEW i \in 1..n, NEW x, NEW t, Written(x, t, size),
                        HasRoom(tight, t, texts[i], 2, size)
                 PROVE  Written(writers[i][x], t \o texts[i], size)
      BY DEF EachWrites
    <2>1. writers[i][x] = ValueToString[args[i]][<<FALSE, x>>]
      BY <1>4 DEF Written
    <2>2. HasStruct[args[i]] => Len(t) + Len(Shown[args[i]][FALSE]) + 2 <= size
      <3>1. HasStruct[args[i]] => tight
        BY <1>1
      <3> QED
        BY <1>2, <3>1 DEF HasRoom
    <2>3. FALSE \in BOOLEAN
      OBVIOUS
    <2>4. Written(ValueToString[args[i]][<<FALSE, x>>], t \o Shown[args[i]][FALSE], size)
      BY <1>2, <2>2, <2>3 DEF Prints
    <2> QED
      BY <1>2, <2>1, <2>4
  <1>9. \A i \in 0..n : Written(InTurn(writers, w)[i], <<>> \o upto[i], size)
    <2>1. upto[0] = <<>> /\ Len(writers) = n /\ 2 \in Nat
          /\ \A i \in 1..n : upto[i] = upto[i - 1] \o texts[i]
      BY <1>3, <1>4
    <2> QED
      BY <1>1, <1>6, <1>7, <1>8, <2>1, WritesInTurn
  <1>10. \A i \in 0..n : <<>> \o upto[i] = upto[i]
    <2>1. \A i \in 0..n : upto[i] \in Texts
      OBVIOUS
    <2> QED
      BY <2>1, TextJoins
  <1>11. \A i \in 0..n : Written(ToStringArgs(args, w)[i], upto[i], size)
    BY <1>5, <1>9, <1>10
  <1> QED
    BY <1>3, <1>11 DEF n, texts, w

(* The views are between the positions behind the arguments. *)
ViewsOf(args, size) ==
  LET after == ToStringArgs(args, EmptyBuffer(size))
  IN  [i \in DOMAIN args |->
         SubSeq(after[Len(args)].buffer, after[i - 1].pos + 1, after[i].pos)]

(* With room for the line and one more ", " every view shows its argument. *)
LEMMA ViewsShowWhole ==
  ASSUME NEW args \in Seq(Loggable), NEW size \in Nat,
         Len(Concatenation(ArgTexts(args))) + 2 <= size
  PROVE  ViewsOf(args, size) = ArgTexts(args)
  <1> DEFINE n == Len(args)
             texts == ArgTexts(args)
             after == ToStringArgs(args, EmptyBuffer(size))
             b == after[n].buffer
  <1>1. n \in Nat /\ DOMAIN args = 1..n /\ texts \in [1..n -> Texts]
    BY ArgTextsAre
  <1>2. PICK upto \in [0..n -> Texts] :
          /\ upto[0] = <<>>
          /\ \A i \in 1..n : upto[i] = upto[i - 1] \o texts[i]
          /\ Concatenation(texts) = upto[n]
          /\ \A i \in 0..n : Written(after[i], upto[i], size)
    <2>1. TRUE \in BOOLEAN
      OBVIOUS
    <2> QED
      BY <2>1, LineWrites
  <1>3. Len(upto[n]) + 2 <= size
    BY <1>2
  <1>4. ViewsOf(args, size) = [i \in 1..n |-> SubSeq(b, after[i - 1].pos + 1, after[i].pos)]
    BY <1>1 DEF ViewsOf
  <1> HIDE DEF n, texts, after
  <1>5. \A i \in 0..n : Len(upto[i]) \in Nat /\ Len(upto[i]) <= Len(upto[n])
    <2>1. \A i \in 0..n : upto[i] \in Texts
      OBVIOUS
    <2>2. \A i \in 0..n : Len(upto[i]) \in Nat
      BY <2>1, TextJoins
    <2>3. \A i \in 1..n : upto[i] = upto[i - 1] \o texts[i]
      BY <1>2
    <2>4. \A i \in 0..n : Len(upto[i]) <= Len(upto[n])
      BY <1>1, <2>3, Growing
    <2> QED
      BY <2>2, <2>4
  <1>6. \A i \in 0..n : after[i].pos = Len(upto[i])
    <2> SUFFICES ASSUME NEW i \in 0..n
                 PROVE  after[i].pos = Len(upto[i])
      OBVIOUS
    <2>1. after[i].pos = Least(Len(upto[i]), size)
      BY <1>2 DEF Written
    <2> DEFINE a == Len(upto[i])
               c == Len(upto[n])
    <2>2. a \in Nat /\ c \in Nat /\ a <= c /\ c + 2 <= size
      BY <1>1, <1>3, <1>5
    <2> HIDE DEF a, c
    <2>3. Least(a, size) = a
      BY <2>2 DEF Least
    <2> QED
      BY <2>1, <2>3 DEF a
  <1>7. /\ b \in Texts /\ Len(b) = size
        /\ \A k \in 1..Len(upto[n]) : b[k] = upto[n][k]
    <2>1. Written(after[n], upto[n], size) /\ after[n].pos = Len(upto[n])
      BY <1>1, <1>2, <1>6
    <2> QED
      BY <2>1, BufferIs DEF Written
  <1> HIDE DEF b
  <1>8. \A i \in 0..n : \A k \in 1..Len(upto[i]) : upto[n][k] = upto[i][k]
    BY <1>1, <1>2, Beginning
  <1>9. ASSUME NEW i \in 1..n
        PROVE  SubSeq(b, after[i - 1].pos + 1, after[i].pos) = texts[i]
    <2>1. i \in 0..n /\ i - 1 \in 0..n
      BY <1>1
    <2> DEFINE u == upto[i - 1]
               t == texts[i]
               p == Len(u)
               q == Len(t)
    <2>2. u \in Texts /\ t \in Texts /\ upto[i] = u \o t
      BY <1>1, <1>2, <2>1
    <2>3. after[i - 1].pos = p
      BY <1>6, <2>1
    <2>4. after[i].pos = Len(upto[i]) /\ Len(upto[i]) <= Len(upto[n]) /\ Len(upto[n]) \in Nat
      BY <1>1, <1>5, <1>6, <2>1
    <2>5. \A k \in 1..Len(upto[i]) : upto[n][k] = upto[i][k]
      BY <1>8, <2>1
    <2> HIDE DEF u, t
    <2>6. /\ p \in Nat /\ q \in Nat /\ Len(u \o t) = p + q
          /\ \A k \in 1..(p + q) : (u \o t)[k] = IF k <= p THEN u[k] ELSE t[k - p]
      BY <2>2, TextJoins
    <2> HIDE DEF p, q
    <2> DEFINE c == Len(upto[n])
    <2>7. c \in Nat /\ p + q <= c /\ c + 2 <= size
      BY <1>3, <2>2, <2>4, <2>6
    <2>8. after[i].pos = p + q
      BY <2>2, <2>4, <2>6
    <2>9. \A k \in 1..c : b[k] = upto[n][k]
      BY <1>7
    <2> HIDE DEF c
    <2>10. \A k \in 1..(p + q) : b[k] = (u \o t)[k]
      <3>1. \A k \in 1..(p + q) : k \in 1..c
        BY <2>6, <2>7
      <3>2. \A k \in 1..(p + q) : upto[n][k] = (u \o t)[k]
        BY <2>2, <2>5, <2>6
      <3> QED
        BY <2>9, <3>1, <3>2
    <2> DEFINE x == SubSeq(b, p + 1, p + q)
    <2>11. x \in Texts /\ Len(x) = q /\ \A k \in 1..q : x[k] = b[p + k]
      <3>1. 1 <= p + 1 /\ p + 1 <= (p + q) + 1 /\ p + q <= Len(b)
            /\ p + 1 \in Int /\ p + q \in Int
        BY <1>7, <2>6, <2>7
      <3>2. /\ x \in Texts /\ Len(x) = (p + q) - (p + 1) + 1
            /\ \A k \in 1..((p + q) - (p + 1) + 1) : x[k] = b[(p + 1) + k - 1]
        BY <1>7, <3>1, Cuts
      <3>3. (p + q) - (p + 1) + 1 = q /\ \A k \in 1..q : (p + 1) + k - 1 = p + k
        BY <2>6
      <3> QED
        BY <3>2, <3>3
    <2> HIDE DEF x
    <2>12. \A k \in 1..q : x[k] = t[k]
      <3> SUFFICES ASSUME NEW k \in 1..q
                   PROVE  x[k] = t[k]
        OBVIOUS
      <3> DEFINE j == p + k
      <3>1. j \in 1..(p + q) /\ ~(j <= p) /\ j - p = k
        BY <2>6
      <3> HIDE DEF j
      <3>2. b[j] = t[k]
        BY <2>6, <2>10, <3>1
      <3> QED
        BY <2>11, <3>2 DEF j
    <2>13. x = t
      BY <2>2, <2>11, <2>12, SameText DEF q
    <2> QED
      BY <2>3, <2>8, <2>13 DEF x, t
  <1>10. texts = [i \in 1..n |-> texts[i]]
    BY <1>1
  <1>11. ViewsOf(args, size) = texts
    BY <1>4, <1>9, <1>10
  <1> QED
    BY <1>11 DEF texts

(* Without structs the views show the beginning of the line, to the buffer's end. *)
LEMMA ViewsShowBeginning ==
  ASSUME NEW args \in Seq(Loggable), NEW size \in Nat,
         \A i \in DOMAIN args : ~HasStruct[args[i]]
  PROVE  LET line == Concatenation(ArgTexts(args))
         IN  Concatenation(ViewsOf(args, size)) = SubSeq(line, 1, Least(Len(line), size))
  <1> DEFINE n == Len(args)
             texts == ArgTexts(args)
             after == ToStringArgs(args, EmptyBuffer(size))
             b == after[n].buffer
             pos == [i \in 0..n |-> after[i].pos]
             shown == ViewsOf(args, size)
  <1>1. n \in Nat /\ DOMAIN args = 1..n /\ texts \in [1..n -> Texts]
    BY ArgTextsAre
  <1>2. PICK upto \in [0..n -> Texts] :
          /\ upto[0] = <<>>
          /\ \A i \in 1..n : upto[i] = upto[i - 1] \o texts[i]
          /\ Concatenation(texts) = upto[n]
          /\ \A i \in 0..n : Written(after[i], upto[i], size)
    <2>1. FALSE \in BOOLEAN
      OBVIOUS
    <2> QED
      BY <2>1, LineWrites
  <1>3. shown = [i \in 1..n |-> SubSeq(b, after[i - 1].pos + 1, after[i].pos)]
    BY <1>1 DEF ViewsOf
  <1> HIDE DEF n, texts, after, shown
  <1>4. \A i \in 0..n : pos[i] = after[i].pos
    OBVIOUS
  <1> HIDE DEF pos
  <1>5. \A i \in 1..n : i \in 0..n /\ i - 1 \in 0..n
    BY <1>1
  <1>6. n \in 0..n /\ 0 \in 0..n
    BY <1>1
  <1>7. \A i \in 0..n : upto[i] \in Texts /\ Len(upto[i]) \in Nat
    <2>1. \A i \in 0..n : upto[i] \in Texts
      OBVIOUS
    <2> QED
      BY <2>1, TextJoins
  <1>8. \A i \in 0..n : /\ pos[i] = Least(Len(upto[i]), size)
                        /\ pos[i] \in Nat /\ pos[i] <= size
    <2> SUFFICES ASSUME NEW i \in 0..n
                 PROVE  /\ pos[i] = Least(Len(upto[i]), size)
                        /\ pos[i] \in Nat /\ pos[i] <= size
      OBVIOUS
    <2>1. pos[i] = Least(Len(upto[i]), size)
      BY <1>2, <1>4 DEF Written
    <2>2. Len(upto[i]) \in Nat
      BY <1>7
    <2> QED
      BY <2>1, <2>2 DEF Least
  <1>9. pos[0] = 0
    <2>1. Len(upto[0]) = 0
      BY <1>2, Literals
    <2>2. Least(0, size) = 0
      BY DEF Least
    <2> QED
      BY <1>6, <1>8, <2>1, <2>2
  <1>10. \A i \in 1..n : pos[i - 1] <= pos[i]
    <2> SUFFICES ASSUME NEW i \in 1..n
                 PROVE  pos[i - 1] <= pos[i]
      OBVIOUS
    <2> DEFINE u == upto[i - 1]
               t == texts[i]
    <2>1. u \in Texts /\ t \in Texts /\ upto[i] = u \o t
      BY <1>1, <1>2, <1>5
    <2>2. pos[i] = Least(Len(upto[i]), size) /\ pos[i - 1] = Least(Len(u), size)
      BY <1>5, <1>8
    <2> HIDE DEF u, t
    <2> DEFINE p == Len(u)
               q == Len(t)
    <2>3. p \in Nat /\ q \in Nat /\ Len(upto[i]) = p + q
      BY <2>1, TextJoins
    <2> HIDE DEF p, q
    <2>4. Least(p, size) <= Least(p + q, size)
      BY <2>3 DEF Least
    <2> QED
      BY <2>2, <2>3, <2>4 DEF p
  <1>11. b \in Texts /\ Len(b) = size /\ \A k \in 1..pos[n] : b[k] = upto[n][k]
    <2>1. Written(after[n], upto[n], size)
      BY <1>2, <1>6
    <2>2. pos[n] = after[n].pos
      BY <1>4, <1>6
    <2> QED
      BY <2>1, <2>2, BufferIs DEF Written
  <1> HIDE DEF b
  <1>12. \A i \in 1..n : shown[i] = SubSeq(b, pos[i - 1] + 1, pos[i])
    <2> SUFFICES ASSUME NEW i \in 1..n
                 PROVE  shown[i] = SubSeq(b, pos[i - 1] + 1, pos[i])
      OBVIOUS
    <2>1. shown[i] = SubSeq(b, after[i - 1].pos + 1, after[i].pos)
      BY <1>3
    <2>2. pos[i] = after[i].pos /\ pos[i - 1] = after[i - 1].pos
      BY <1>4, <1>5
    <2> QED
      BY <2>1, <2>2
  <1>13. shown \in [1..n -> Texts]
    <2>1. ASSUME NEW i \in 1..n
          PROVE  SubSeq(b, pos[i - 1] + 1, pos[i]) \in Texts
      <3> DEFINE p == pos[i - 1]
                 q == pos[i]
      <3>1. p \in Nat /\ q \in Nat /\ p <= q /\ q <= size
        BY <1>5, <1>8, <1>10
      <3> HIDE DEF p, q
      <3>2. p + 1 \in Int /\ q \in Int /\ 1 <= p + 1 /\ p + 1 <= q + 1 /\ q <= Len(b)
        BY <1>11, <3>1
      <3>3. SubSeq(b, p + 1, q) \in Texts
        BY <1>11, <3>2, Cuts
      <3> QED
        BY <3>3 DEF p, q
    <2>2. shown = [i \in 1..n |-> shown[i]]
      BY <1>3
    <2> QED
      BY <1>12, <2>1, <2>2
  <1>14. PICK so \in [0..n -> Texts] :
           /\ so[0] = <<>>
           /\ \A i \in 1..n : so[i] = so[i - 1] \o shown[i]
           /\ Concatenation(shown) = so[n]
    BY <1>1, <1>13, JoinedTexts
  <1> DEFINE D == {i \in Nat : i <= n => so[i] = SubSeq(b, 1, pos[i])}
  <1>15. 0 \in D
    <2>1. SubSeq(b, 1, 0) = <<>>
      BY SubSeqEmpty
    <2> QED
      BY <1>9, <1>14, <2>1
  <1>16. ASSUME NEW k \in Nat, k \in D
         PROVE  k + 1 \in D
    <2> SUFFICES ASSUME k + 1 <= n
                 PROVE  so[k + 1] = SubSeq(b, 1, pos[k + 1])
      OBVIOUS
    <2> DEFINE i == k + 1
    <2>1. i \in 1..n /\ i - 1 = k /\ i \in 0..n /\ k \in 0..n
      BY <1>1
    <2>2. so[k] = SubSeq(b, 1, pos[k])
      BY <1>1, <1>16
    <2> HIDE DEF i
    <2>3. so[i] = so[k] \o SubSeq(b, pos[k] + 1, pos[i])
      BY <1>12, <1>14, <2>1
    <2>4. pos[k] \in Nat /\ pos[i] \in Nat /\ pos[k] <= pos[i] /\ pos[i] <= Len(b)
      BY <1>8, <1>10, <1>11, <2>1
    <2>5. SubSeq(b, 1, pos[k]) \o SubSeq(b, pos[k] + 1, pos[i]) = SubSeq(b, 1, pos[i])
      BY <1>11, <2>4, PartsJoin
    <2> QED
      BY <2>2, <2>3, <2>5 DEF i
  <1>17. n \in D
    <2> HIDE DEF D
    <2> QED
      BY <1>1, <1>15, <1>16, Upwards
  <1>18. Concatenation(shown) = SubSeq(b, 1, pos[n])
    BY <1>1, <1>14, <1>17
  <1> HIDE DEF D
  <1> DEFINE line == upto[n]
             m == pos[n]
  <1>19. line \in Texts /\ Len(line) \in Nat /\ m = Least(Len(line), size) /\ m \in Nat /\ m <= size
    BY <1>6, <1>7, <1>8
  <1>20. \A k \in 1..m : b[k] = line[k]
    BY <1>11
  <1> HIDE DEF line, m
  <1>21. m <= Len(line)
    BY <1>19 DEF Least
  <1>22. SubSeq(b, 1, m) = SubSeq(line, 1, m)
    <2> DEFINE x == SubSeq(b, 1, m)
               y == SubSeq(line, 1, m)
    <2>1. x \in Texts /\ Len(x) = m /\ \A k \in 1..m : x[k] = b[k]
      BY <1>11, <1>19, Cuts
    <2>2. y \in Texts /\ Len(y) = m /\ \A k \in 1..m : y[k] = line[k]
      BY <1>19, <1>21, Cuts
    <2> HIDE DEF x, y
    <2>3. x = y
      BY <1>20, <2>1, <2>2, SameText
    <2> QED
      BY <2>3 DEF x, y
  <1>23. Concatenation(texts) = line
    BY <1>2 DEF line
  <1> QED
    BY <1>18, <1>19, <1>22, <1>23 DEF m, shown, texts

(* What ViewsShowArguments says of one statement and its views. *)
Shows(args, size, shown) ==
  LET texts == ArgTexts(args)
      line  == Concatenation(texts)
      room  == Len(line) + 2 <= size
  IN  /\ room => shown = texts
      /\ (\A i \in DOMAIN args : ~HasStruct[args[i]]) =>
           Concatenation(shown) = SubSeq(line, 1, Least(Len(line), size))

(* Both, for every statement there is and for the state before the first. *)
LEMMA StatementShows ==
  /\ \A args \in Seq(Loggable), size \in Nat : Shows(args, size, ViewsOf(args, size))
  /\ Shows(<<>>, 0, <<>>)
  <1>1. \A args \in Seq(Loggable), size \in Nat : Shows(args, size, ViewsOf(args, size))
    BY ViewsShowWhole, ViewsShowBeginning DEF Shows
  <1>2. ViewsOf(<<>>, 0) = <<>>
    <2> DEFINE shown == ViewsOf(<<>>, 0)
    <2>1. DOMAIN shown = {}
      BY DEF ViewsOf
    <2>2. shown \in [1..0 -> {}]
      BY <2>1 DEF ViewsOf
    <2>3. shown \in Seq({}) /\ Len(shown) = 0
      BY <2>2, ListIsSeq
    <2> HIDE DEF shown
    <2> QED
      BY <2>3, EmptySeq DEF shown
  <1>3. <<>> \in Seq(Loggable) /\ 0 \in Nat
    BY EmptySeq
  <1> QED
    BY <1>1, <1>2, <1>3

(* Every log line shows its arguments: INFO_LOG and the others with any       *)
(* arguments, in a buffer of any length.                                      *)
THEOREM LogLinesShowArguments == LogSpec => []ViewsShowArguments
  <1>1. ViewsShowArguments <=> Shows(statement.args, statement.len, views)
    BY DEF ViewsShowArguments, Shows, ArgTexts
  <1>2. LogInit => ViewsShowArguments
    <2> SUFFICES ASSUME LogInit
                 PROVE  Shows(statement.args, statement.len, views)
      BY <1>1
    <2>1. statement.args = <<>> /\ statement.len = 0 /\ views = <<>>
      BY DEF LogInit, NoStatement
    <2> QED
      BY <2>1, StatementShows
  <1>3. ViewsShowArguments /\ [LogNext]_logVars => ViewsShowArguments'
    <2> SUFFICES ASSUME ViewsShowArguments, [LogNext]_logVars
                 PROVE  ViewsShowArguments'
      OBVIOUS
    <2>1. ASSUME NEW s \in Statements, Log(s)
          PROVE  ViewsShowArguments'
      <3>1. s.args \in Seq(Loggable) /\ s.len \in Nat
        BY LogAssumption
      <3>2. statement' = s /\ views' = ViewsOf(s.args, s.len)
        BY <2>1 DEF Log, ViewsOf
      <3>3. Shows(s.args, s.len, ViewsOf(s.args, s.len))
        BY <3>1, StatementShows
      <3>4. Shows(statement.args, statement.len, views)'
        BY <3>2, <3>3
      <3> QED
        BY <3>4 DEF ViewsShowArguments, Shows, ArgTexts
    <2>2. CASE UNCHANGED logVars
      BY <2>2 DEF logVars, ViewsShowArguments
    <2> QED
      BY <2>1, <2>2 DEF LogNext
  <1> QED
    BY <1>2, <1>3, PTL DEF LogSpec
=============================================================================
