----------------------------- MODULE WireProofs -----------------------------
(* What is serialized can be read back unless there is an Expected with an    *)
(* error in it, and takes as many bytes as get_serialize_size says unless     *)
(* there is an Expected in it: for all types, however deep they are nested,   *)
(* and all their values.  So a remote call carries arguments and a result     *)
(* without such errors, whatever the pieces in which the two messages arrive, *)
(* for any functions, types and values.                                       *)
EXTENDS Wire, SequenceTheorems, WellFoundedInduction, TLAPS

-----------------------------------------------------------------------------
(* Induction: a set with 0 and the successor of each of its numbers. *)
LEMMA Upwards ==
  ASSUME NEW D, 0 \in D, \A n \in Nat : n \in D => n + 1 \in D
  PROVE  \A n \in Nat : n \in D
  <1> DEFINE R == OpToRel(<, Nat)
  <1> SUFFICES ASSUME NEW n \in Nat, n \notin D
               PROVE  FALSE
    OBVIOUS
  <1>1. IsWellFoundedOn(R, Nat)
    BY NatLessThanWellFounded
  <1>2. \A i, j \in Nat : <<i, j>> \in R <=> i < j
    BY DEF OpToRel
  <1> HIDE DEF R
  <1>3. PICK least \in Nat \ D : \A y \in Nat \ D : ~(<<y, least>> \in R)
    BY <1>1, WFMin
  <1>4. least \in Nat /\ least # 0
    OBVIOUS
  <1>5. least - 1 \in Nat /\ least - 1 < least
    BY <1>4
  <1>6. least - 1 \in D
    BY <1>2, <1>3, <1>5
  <1>7. (least - 1) + 1 \in D /\ (least - 1) + 1 = least
    BY <1>4, <1>5, <1>6
  <1> QED
    BY <1>3, <1>7

(* A function on 1..m is a sequence of length m. *)
LEMMA ListIsSeq ==
  ASSUME NEW S, NEW m \in Nat, NEW s \in [1..m -> S]
  PROVE  s \in Seq(S) /\ Len(s) = m
  <1>1. s \in Seq(S)
    BY SeqDef
  <1>2. Len(s) \in Nat /\ DOMAIN s = 1..Len(s) /\ DOMAIN s = 1..m
    BY <1>1, LenProperties
  <1> QED
    BY <1>1, <1>2

-----------------------------------------------------------------------------
(* Joining byte sequences. *)
LEMMA Joins ==
  ASSUME NEW a \in Bytes, NEW b \in Bytes
  PROVE  /\ Len(a) \in Nat /\ Len(b) \in Nat
         /\ a \o b \in Bytes /\ Len(a \o b) = Len(a) + Len(b)
         /\ \A i \in 1..(Len(a) + Len(b)) :
              (a \o b)[i] = IF i <= Len(a) THEN a[i] ELSE b[i - Len(a)]
  <1> DEFINE S == Int \X Nat
  <1>1. a \in Seq(S) /\ b \in Seq(S)
    BY DEF Bytes
  <1> HIDE DEF S
  <1>2. Len(a) \in Nat /\ Len(b) \in Nat
    BY <1>1, LenProperties
  <1>3. /\ a \o b \in Seq(S) /\ Len(a \o b) = Len(a) + Len(b)
        /\ \A i \in 1..(Len(a) + Len(b)) :
             (a \o b)[i] = IF i <= Len(a) THEN a[i] ELSE b[i - Len(a)]
    BY <1>1, ConcatProperties
  <1> QED
    BY <1>2, <1>3 DEF Bytes, S

LEMMA JoinsThree ==
  ASSUME NEW a \in Bytes, NEW b \in Bytes, NEW c \in Bytes
  PROVE  (a \o b) \o c = a \o (b \o c)
  <1> DEFINE S == Int \X Nat
  <1>1. a \in Seq(S) /\ b \in Seq(S) /\ c \in Seq(S)
    BY DEF Bytes
  <1> HIDE DEF S
  <1> QED
    BY <1>1, ConcatAssociative

LEMMA NoBytes ==
  /\ <<>> \in Bytes /\ Len(<<>>) = 0
  /\ \A a \in Bytes : <<>> \o a = a /\ a \o <<>> = a
  <1> DEFINE S == Int \X Nat
  <1>1. <<>> \in Seq(S) /\ Len(<<>>) = 0
    BY EmptySeq
  <1>2. \A a \in Seq(S) : <<>> \o a = a /\ a \o <<>> = a
    <2> HIDE DEF S
    <2> QED
      BY ConcatEmptySeq
  <1> QED
    BY <1>1, <1>2 DEF Bytes

(* What was joined can be taken apart. *)
LEMMA TakenApart ==
  ASSUME NEW a \in Bytes, NEW b \in Bytes
  PROVE  /\ SubSeq(a \o b, 1, Len(a)) = a
         /\ SubSeq(a \o b, Len(a) + 1, Len(a \o b)) = b
  <1> DEFINE S == Int \X Nat
  <1>1. a \in Seq(S) /\ b \in Seq(S)
    BY DEF Bytes
  <1> HIDE DEF S
  <1>2. Len(a) \in Nat /\ Len(b) \in Nat /\ Len(a \o b) = Len(a) + Len(b)
        /\ a \o b \in Seq(S)
    BY <1>1, LenProperties, ConcatProperties
  <1>3. \A i \in 1..(Len(a) + Len(b)) :
          (a \o b)[i] = IF i <= Len(a) THEN a[i] ELSE b[i - Len(a)]
    BY <1>1, ConcatProperties
  <1>4. /\ SubSeq(a \o b, 1, Len(a)) \in Seq(S)
        /\ Len(SubSeq(a \o b, 1, Len(a))) = Len(a)
        /\ \A i \in 1..Len(a) : SubSeq(a \o b, 1, Len(a))[i] = (a \o b)[i]
    BY <1>2, SubSeqProperties
  <1>5. SubSeq(a \o b, 1, Len(a)) = a
    BY <1>1, <1>2, <1>3, <1>4, SeqEqual
  <1>6. /\ SubSeq(a \o b, Len(a) + 1, Len(a \o b)) \in Seq(S)
        /\ Len(SubSeq(a \o b, Len(a) + 1, Len(a \o b))) = Len(b)
        /\ \A i \in 1..Len(b) : SubSeq(a \o b, Len(a) + 1, Len(a \o b))[i]
                                  = (a \o b)[Len(a) + i]
    BY <1>2, SubSeqProperties
  <1>7. SubSeq(a \o b, Len(a) + 1, Len(a \o b)) = b
    BY <1>1, <1>2, <1>3, <1>6, SeqEqual
  <1> QED
    BY <1>5, <1>7

-----------------------------------------------------------------------------
(* Concatenation joins the pieces one by one. *)
LEMMA JoinedPieces ==
  ASSUME NEW n \in Nat, NEW pieces \in [1..n -> Bytes]
  PROVE  \E upto \in [0..n -> Bytes] :
           /\ upto[0] = <<>>
           /\ \A i \in 1..n : upto[i] = upto[i - 1] \o pieces[i]
           /\ Concatenation(pieces) = upto[n]
  <1> DEFINE Step(g, i) == IF i = 0 THEN <<>> ELSE g[i - 1] \o pieces[i]
             Follows(g, m) == g = [i \in 0..m |-> Step(g, i)]
             D == {m \in Nat : \E g : Follows(g, m)}
             upto == CHOOSE g : Follows(g, n)
  <1>1. 0 \in D
    <2> DEFINE g == [i \in 0..0 |-> <<>>]
    <2>1. Follows(g, 0)
      OBVIOUS
    <2> HIDE DEF g, Follows
    <2> QED
      BY <2>1
  <1>2. ASSUME NEW m \in Nat, m \in D
        PROVE  m + 1 \in D
    <2>1. PICK g : Follows(g, m)
      <3> HIDE DEF Follows
      <3> QED
        BY <1>2
    <2> DEFINE h == [i \in 0..(m + 1) |-> IF i = m + 1 THEN Step(g, m + 1) ELSE g[i]]
    <2>2. \A i \in 0..m : g[i] = Step(g, i)
      BY <2>1
    <2>3. \A i \in 0..m : h[i] = g[i]
      <3> HIDE DEF Step
      <3> QED
        OBVIOUS
    <2>4. h[m + 1] = Step(g, m + 1)
      <3> HIDE DEF Step
      <3> QED
        OBVIOUS
    <2>5. \A i \in 0..(m + 1) : Step(h, i) = Step(g, i)
      <3> HIDE DEF h
      <3> SUFFICES ASSUME NEW i \in 0..(m + 1)
                   PROVE  Step(h, i) = Step(g, i)
        OBVIOUS
      <3>1. i # 0 => i - 1 \in 0..m
        OBVIOUS
      <3>2. i # 0 => h[i - 1] = g[i - 1]
        BY <2>3, <3>1
      <3> QED
        BY <3>2
    <2>6. \A i \in 0..(m + 1) : h[i] = Step(h, i)
      <3> HIDE DEF Step, h
      <3>1. \A i \in 0..(m + 1) : i \in 0..m \/ i = m + 1
        OBVIOUS
      <3> QED
        BY <2>2, <2>3, <2>4, <2>5, <3>1
    <2>7. Follows(h, m + 1)
      <3> HIDE DEF Step
      <3>1. h = [i \in 0..(m + 1) |-> h[i]]
        OBVIOUS
      <3> HIDE DEF h
      <3> QED
        BY <2>6, <3>1
    <2> HIDE DEF h, Follows
    <2> QED
      BY <2>7
  <1>3. n \in D
    <2> HIDE DEF D
    <2> QED
      BY <1>1, <1>2, Upwards
  <1>4. Follows(upto, n)
    <2> HIDE DEF Follows
    <2> QED
      BY <1>3
  <1>5. upto = [i \in 0..n |-> upto[i]] /\ \A i \in 0..n : upto[i] = Step(upto, i)
    <2> HIDE DEF upto, Step
    <2> QED
      BY <1>4
  <1>6. upto[0] = <<>> /\ \A i \in 1..n : upto[i] = upto[i - 1] \o pieces[i]
    <2> HIDE DEF upto
    <2>1. 0 \in 0..n /\ \A i \in 1..n : i \in 0..n /\ i # 0
      OBVIOUS
    <2> QED
      BY <1>5, <2>1
  <1>7. Concatenation(pieces) = upto[n]
    <2>1. Len(pieces) = n
      BY ListIsSeq
    <2> QED
      BY <2>1 DEF Concatenation
  <1> HIDE DEF upto
  <1> DEFINE E == {i \in Nat : i <= n => upto[i] \in Bytes}
  <1>8. 0 \in E
    BY <1>6, NoBytes
  <1>9. ASSUME NEW i \in Nat, i \in E
        PROVE  i + 1 \in E
    <2> SUFFICES ASSUME i + 1 <= n
                 PROVE  upto[i + 1] \in Bytes
      OBVIOUS
    <2>1. i + 1 \in 1..n /\ (i + 1) - 1 = i
      OBVIOUS
    <2>2. upto[i + 1] = upto[i] \o pieces[i + 1]
      BY <1>6, <2>1
    <2>3. upto[i] \in Bytes /\ pieces[i + 1] \in Bytes
      BY <1>9, <2>1
    <2> QED
      BY <2>2, <2>3, Joins
  <1>10. \A i \in Nat : i \in E
    <2> HIDE DEF E
    <2> QED
      BY <1>8, <1>9, Upwards
  <1>11. upto \in [0..n -> Bytes]
    <2>1. \A i \in 0..n : upto[i] \in Bytes
      BY <1>10
    <2> QED
      BY <1>5, <2>1
  <1> QED
    BY <1>6, <1>7, <1>11

(* What follows the first i pieces. *)
LEMMA Remainders ==
  ASSUME NEW n \in Nat, NEW pieces \in [1..n -> Bytes], NEW rest \in Bytes
  PROVE  /\ Concatenation(pieces) \in Bytes
         /\ \E tail \in [0..n -> Bytes] :
              /\ tail[0] = Concatenation(pieces) \o rest
              /\ \A i \in 1..n : tail[i - 1] = pieces[i] \o tail[i]
              /\ tail[n] = rest
  <1>1. PICK upto \in [0..n -> Bytes] :
          /\ upto[0] = <<>>
          /\ \A i \in 1..n : upto[i] = upto[i - 1] \o pieces[i]
          /\ Concatenation(pieces) = upto[n]
    BY JoinedPieces
  <1> DEFINE Remains(m, r, t) == /\ t \in [0..m -> Bytes]
                               /\ t[0] = upto[m] \o r /\ t[m] = r
                               /\ \A i \in 1..m : t[i - 1] = pieces[i] \o t[i]
             D == {m \in Nat : m <= n => \A r \in Bytes : \E t : Remains(m, r, t)}
  <1>2. 0 \in D
    <2> SUFFICES ASSUME NEW r \in Bytes
                 PROVE  \E t : Remains(0, r, t)
      OBVIOUS
    <2>1. upto[0] \o r = r
      BY <1>1, NoBytes
    <2>2. Remains(0, r, [i \in 0..0 |-> r])
      BY <2>1
    <2> HIDE DEF Remains
    <2> QED
      BY <2>2
  <1>3. ASSUME NEW m \in Nat, m \in D
        PROVE  m + 1 \in D
    <2> SUFFICES ASSUME m + 1 <= n, NEW r \in Bytes
                 PROVE  \E t : Remains(m + 1, r, t)
      <3> HIDE DEF Remains
      <3> QED
        OBVIOUS
    <2> DEFINE piece == pieces[m + 1]
    <2>1. m \in 0..n /\ m + 1 \in 1..n /\ m + 1 \in 0..n /\ (m + 1) - 1 = m
      OBVIOUS
    <2>2. piece \in Bytes /\ upto[m] \in Bytes /\ upto[m + 1] = upto[m] \o piece
      BY <1>1, <2>1
    <2>3. piece \o r \in Bytes
      BY <2>2, Joins
    <2>4. PICK t : Remains(m, piece \o r, t)
      <3> HIDE DEF Remains, piece
      <3> QED
        BY <1>3, <2>1, <2>3
    <2> DEFINE u == [i \in 0..(m + 1) |-> IF i = m + 1 THEN r ELSE t[i]]
    <2>5. u \in [0..(m + 1) -> Bytes]
      <3>1. \A i \in 0..(m + 1) : i = m + 1 \/ i \in 0..m
        OBVIOUS
      <3> QED
        BY <2>4, <3>1
    <2>6. \A i \in 0..m : u[i] = t[i]
      OBVIOUS
    <2>7. u[m + 1] = r
      OBVIOUS
    <2>8. u[0] = upto[m + 1] \o r
      <3> HIDE DEF u, piece
      <3>1. t[0] = upto[m] \o (piece \o r) /\ u[0] = t[0]
        <4>1. t[0] = upto[m] \o (piece \o r)
          BY <2>4
        <4>2. 0 \in 0..m
          OBVIOUS
        <4> QED
          BY <2>6, <4>1, <4>2
      <3>2. (upto[m] \o piece) \o r = upto[m] \o (piece \o r)
        BY <2>2, JoinsThree
      <3> QED
        BY <2>2, <3>1, <3>2
    <2>9. \A i \in 1..(m + 1) : u[i - 1] = pieces[i] \o u[i]
      <3> HIDE DEF u
      <3>1. u[m] = piece \o u[m + 1]
        BY <2>4, <2>6, <2>7
      <3>2. \A i \in 1..m : u[i - 1] = pieces[i] \o u[i]
        <4>1. \A i \in 1..m : t[i - 1] = pieces[i] \o t[i]
          BY <2>4
        <4>2. \A i \in 1..m : u[i - 1] = t[i - 1] /\ u[i] = t[i]
          <5>1. \A i \in 1..m : i - 1 \in 0..m /\ i \in 0..m
            OBVIOUS
          <5> QED
            BY <2>6, <5>1
        <4> QED
          BY <4>1, <4>2
      <3>3. \A i \in 1..(m + 1) : i \in 1..m \/ (i = m + 1 /\ i - 1 = m)
        OBVIOUS
      <3> QED
        BY <3>1, <3>2, <3>3
    <2>10. Remains(m + 1, r, u)
      <3> HIDE DEF u
      <3> QED
        BY <2>5, <2>7, <2>8, <2>9
    <2> HIDE DEF Remains, u
    <2> QED
      BY <2>10
  <1>4. n \in D
    <2> HIDE DEF D
    <2> QED
      BY <1>2, <1>3, Upwards
  <1>5. PICK t : Remains(n, rest, t)
    <2> HIDE DEF Remains
    <2> QED
      BY <1>4
  <1>6. Concatenation(pieces) \in Bytes
    BY <1>1
  <1> QED
    BY <1>1, <1>5, <1>6

(* Total adds numbers up, and the lengths of pieces to that of what is joined *)
(* from them.                                                                 *)
LEMMA AddedUp ==
  ASSUME NEW n \in Nat, NEW sizes \in [1..n -> Nat]
  PROVE  \E upto \in [0..n -> Nat] :
           /\ upto[0] = 0
           /\ \A i \in 1..n : upto[i] = upto[i - 1] + sizes[i]
           /\ Total(sizes) = upto[n]
  <1> DEFINE Step(g, i) == IF i = 0 THEN 0 ELSE g[i - 1] + sizes[i]
             Follows(g, m) == g = [i \in 0..m |-> Step(g, i)]
             D == {m \in Nat : \E g : Follows(g, m)}
             upto == CHOOSE g : Follows(g, n)
  <1>1. 0 \in D
    <2> DEFINE g == [i \in 0..0 |-> 0]
    <2>1. Follows(g, 0)
      OBVIOUS
    <2> HIDE DEF g, Follows
    <2> QED
      BY <2>1
  <1>2. ASSUME NEW m \in Nat, m \in D
        PROVE  m + 1 \in D
    <2>1. PICK g : Follows(g, m)
      <3> HIDE DEF Follows
      <3> QED
        BY <1>2
    <2> DEFINE h == [i \in 0..(m + 1) |-> IF i = m + 1 THEN Step(g, m + 1) ELSE g[i]]
    <2>2. \A i \in 0..m : g[i] = Step(g, i)
      BY <2>1
    <2>3. \A i \in 0..m : h[i] = g[i]
      <3> HIDE DEF Step
      <3> QED
        OBVIOUS
    <2>4. h[m + 1] = Step(g, m + 1)
      <3> HIDE DEF Step
      <3> QED
        OBVIOUS
    <2>5. \A i \in 0..(m + 1) : Step(h, i) = Step(g, i)
      <3> HIDE DEF h
      <3> SUFFICES ASSUME NEW i \in 0..(m + 1)
                   PROVE  Step(h, i) = Step(g, i)
        OBVIOUS
      <3>1. i # 0 => i - 1 \in 0..m
        OBVIOUS
      <3>2. i # 0 => h[i - 1] = g[i - 1]
        BY <2>3, <3>1
      <3> QED
        BY <3>2
    <2>6. \A i \in 0..(m + 1) : h[i] = Step(h, i)
      <3> HIDE DEF Step, h
      <3>1. \A i \in 0..(m + 1) : i \in 0..m \/ i = m + 1
        OBVIOUS
      <3> QED
        BY <2>2, <2>3, <2>4, <2>5, <3>1
    <2>7. Follows(h, m + 1)
      <3> HIDE DEF Step
      <3>1. h = [i \in 0..(m + 1) |-> h[i]]
        OBVIOUS
      <3> HIDE DEF h
      <3> QED
        BY <2>6, <3>1
    <2> HIDE DEF h, Follows
    <2> QED
      BY <2>7
  <1>3. n \in D
    <2> HIDE DEF D
    <2> QED
      BY <1>1, <1>2, Upwards
  <1>4. Follows(upto, n)
    <2> HIDE DEF Follows
    <2> QED
      BY <1>3
  <1>5. upto = [i \in 0..n |-> upto[i]] /\ \A i \in 0..n : upto[i] = Step(upto, i)
    <2> HIDE DEF upto, Step
    <2> QED
      BY <1>4
  <1>6. upto[0] = 0 /\ \A i \in 1..n : upto[i] = upto[i - 1] + sizes[i]
    <2> HIDE DEF upto
    <2>1. 0 \in 0..n /\ \A i \in 1..n : i \in 0..n /\ i # 0
      OBVIOUS
    <2> QED
      BY <1>5, <2>1
  <1>7. Total(sizes) = upto[n]
    <2>1. Len(sizes) = n
      BY ListIsSeq
    <2> QED
      BY <2>1 DEF Total
  <1> HIDE DEF upto
  <1> DEFINE E == {i \in Nat : i <= n => upto[i] \in Nat}
  <1>8. 0 \in E
    BY <1>6
  <1>9. ASSUME NEW i \in Nat, i \in E
        PROVE  i + 1 \in E
    <2> SUFFICES ASSUME i + 1 <= n
                 PROVE  upto[i + 1] \in Nat
      OBVIOUS
    <2>1. i + 1 \in 1..n /\ (i + 1) - 1 = i
      OBVIOUS
    <2>2. upto[i + 1] = upto[i] + sizes[i + 1]
      BY <1>6, <2>1
    <2>3. upto[i] \in Nat /\ sizes[i + 1] \in Nat
      BY <1>9, <2>1
    <2> QED
      BY <2>2, <2>3
  <1>10. \A i \in Nat : i \in E
    <2> HIDE DEF E
    <2> QED
      BY <1>8, <1>9, Upwards
  <1>11. upto \in [0..n -> Nat]
    <2>1. \A i \in 0..n : upto[i] \in Nat
      BY <1>10
    <2> QED
      BY <1>5, <2>1
  <1> QED
    BY <1>6, <1>7, <1>11

LEMMA LengthsAddUp ==
  ASSUME NEW n \in Nat, NEW pieces \in [1..n -> Bytes], NEW sizes \in [1..n -> Nat],
         \A i \in 1..n : sizes[i] = Len(pieces[i])
  PROVE  Total(sizes) = Len(Concatenation(pieces))
  <1>1. PICK bytes \in [0..n -> Bytes] :
          /\ bytes[0] = <<>>
          /\ \A i \in 1..n : bytes[i] = bytes[i - 1] \o pieces[i]
          /\ Concatenation(pieces) = bytes[n]
    BY JoinedPieces
  <1>2. PICK upto \in [0..n -> Nat] :
          /\ upto[0] = 0
          /\ \A i \in 1..n : upto[i] = upto[i - 1] + sizes[i]
          /\ Total(sizes) = upto[n]
    BY AddedUp
  <1> DEFINE D == {i \in Nat : i <= n => upto[i] = Len(bytes[i])}
  <1>3. 0 \in D
    BY <1>1, <1>2, NoBytes
  <1>4. ASSUME NEW i \in Nat, i \in D
        PROVE  i + 1 \in D
    <2> SUFFICES ASSUME i + 1 <= n
                 PROVE  upto[i + 1] = Len(bytes[i + 1])
      OBVIOUS
    <2>1. i \in 0..n /\ i + 1 \in 1..n /\ (i + 1) - 1 = i
      OBVIOUS
    <2>2. upto[i + 1] = upto[i] + sizes[i + 1] /\ bytes[i + 1] = bytes[i] \o pieces[i + 1]
      BY <1>1, <1>2, <2>1
    <2>3. bytes[i] \in Bytes /\ pieces[i + 1] \in Bytes
      BY <2>1
    <2>4. Len(bytes[i + 1]) = Len(bytes[i]) + Len(pieces[i + 1])
      BY <2>2, <2>3, Joins
    <2>5. upto[i] = Len(bytes[i])
      BY <1>4, <2>1
    <2> QED
      BY <2>1, <2>2, <2>4, <2>5
  <1>5. n \in D
    <2> HIDE DEF D
    <2> QED
      BY <1>3, <1>4, Upwards
  <1> QED
    BY <1>1, <1>2, <1>5

-----------------------------------------------------------------------------
(* Types and values. *)
LEMMA Kinds ==
  ASSUME NEW T \in Types
  PROVE  /\ T.kind \in {"number", "string", "range", "pointer", "expected", "struct"}
         /\ T.kind = "number" => T.width \in Nat \ {0}
         /\ T.kind = "struct" => IsSequence(T.members)
         /\ LeadingSize(T) \in Nat
         /\ LeadingSize(T) = 0 <=> T.kind = "struct"
         /\ Depth[T] \in Nat
         /\ \A U \in Inner(T) : U \in Types /\ Depth[U] < Depth[T] /\ Depth[U] \in Nat
  <1>1. IsType(T)
    BY SerializationAssumption
  <1>2. /\ T.kind \in {"number", "string", "range", "pointer", "expected", "struct"}
        /\ T.kind = "number" => T.width \in Nat \ {0}
        /\ T.kind = "struct" => IsSequence(T.members)
    BY <1>1 DEF IsType
  <1>3. LeadingSize(T) \in Nat /\ (LeadingSize(T) = 0 <=> T.kind = "struct")
    BY <1>2 DEF LeadingSize
  <1>4. \A U \in Inner(T) : U \in Types
    BY SerializationAssumption
  <1> QED
    BY <1>2, <1>3, <1>4, SerializationAssumption

LEMMA SequencesHaveLists ==
  ASSUME NEW s, IsSequence(s)
  PROVE  Len(s) \in Nat /\ DOMAIN s = 1..Len(s) /\ s = [i \in 1..Len(s) |-> s[i]]
  BY DEF IsSequence

LEMMA NothingInside == IsSequence(<<>>) /\ Len(<<>>) = 0 /\ DOMAIN <<>> = 1..0
  BY DEF IsSequence

LEMMA OneInside ==
  ASSUME NEW e
  PROVE  IsSequence(<<e>>) /\ Len(<<e>>) = 1 /\ <<e>>[1] = e /\ DOMAIN <<e>> = 1..1
  BY DEF IsSequence

(* What a value contains: a sequence of values of inner types. *)
LEMMA Inside ==
  ASSUME NEW x \in Values
  PROVE  LET T == x[1]
             contents == Contents(T, x[2])
         IN  /\ T \in Types /\ x = <<x[1], x[2]>>
             /\ IsSequence(contents)
             /\ Len(contents) \in Nat /\ DOMAIN contents = 1..Len(contents)
             /\ Leading(T, x[2]) \in Int
             /\ T.kind = "struct" => Leading(T, x[2]) = 0
             /\ \A i \in 1..Len(contents) :
                  LET p == Part(T, x[2], i)
                  IN  /\ p \in Values
                      /\ p = <<ContentType(T, Leading(T, x[2]), i), contents[i]>>
                      /\ ContentType(T, Leading(T, x[2]), i) \in Inner(T)
  <1> DEFINE T == x[1]
             value == x[2]
             contents == Contents(T, value)
             leading == Leading(T, value)
  <1>1. T \in Types /\ x = <<T, value>> /\ IsValue(T, value)
    BY SerializationAssumption
  <1> HIDE DEF T, value
  <1>2. IsSequence(contents) /\ leading \in Int /\ (T.kind = "struct" => leading = 0)
    <2>1. CASE T.kind = "number"
      BY <1>1, <2>1, NothingInside DEF IsValue, Contents, Leading
    <2>2. CASE T.kind = "expected"
      BY <1>1, <2>2, OneInside DEF IsValue, Contents, Leading, ExpectedFlag
    <2>3. CASE T.kind \in {"string", "range"}
      <3>1. IsSequence(value)
        BY <1>1, <2>3 DEF IsValue
      <3>2. Len(value) \in Nat
        BY <3>1, SequencesHaveLists
      <3>3. contents = value /\ leading = Len(value) /\ T.kind # "struct"
        BY <2>3 DEF Contents, Leading
      <3> QED
        BY <3>1, <3>2, <3>3
    <2>4. CASE T.kind = "pointer"
      BY <1>1, <2>4 DEF IsValue, Contents, Leading
    <2>5. CASE T.kind = "struct"
      BY <1>1, <2>5 DEF IsValue, Contents, Leading
    <2> QED
      BY <1>1, <2>1, <2>2, <2>3, <2>4, <2>5, Kinds
  <1>3. Len(contents) \in Nat /\ DOMAIN contents = 1..Len(contents)
    <2> HIDE DEF contents
    <2> QED
      BY <1>2, SequencesHaveLists
  <1>4. ASSUME NEW i \in 1..Len(contents)
        PROVE  /\ Part(T, value, i) \in Values
               /\ Part(T, value, i) = <<ContentType(T, leading, i), contents[i]>>
               /\ ContentType(T, leading, i) \in Inner(T)
    <2>1. Part(T, value, i) \in Parts(T, value)
      BY <1>3 DEF Parts
    <2>2. Part(T, value, i) \in Values
      BY <2>1, SerializationAssumption DEF T, value
    <2>3. ContentType(T, leading, i) \in Inner(T)
      <3>1. CASE T.kind = "number"
        BY <3>1, NothingInside DEF Contents
      <3>2. CASE T.kind = "string"
        BY <3>2 DEF ContentType, Inner
      <3>3. CASE T.kind = "range"
        BY <3>3 DEF ContentType, Inner
      <3>4. CASE T.kind = "pointer"
        BY <3>4 DEF ContentType, Inner
      <3>5. CASE T.kind = "expected"
        BY <3>5 DEF ContentType, ExpectedContent, Inner
      <3>6. CASE T.kind = "struct"
        <4>1. contents = value /\ Len(value) = Len(T.members)
          BY <1>1, <3>6 DEF IsValue, Contents
        <4>2. DOMAIN T.members = 1..Len(T.members)
          BY <1>1, <3>6, Kinds, SequencesHaveLists
        <4>3. i \in DOMAIN T.members
          BY <4>1, <4>2
        <4> QED
          BY <3>6, <4>3 DEF ContentType, Inner
      <3> QED
        BY <1>1, <3>1, <3>2, <3>3, <3>4, <3>5, <3>6, Kinds
    <2> QED
      BY <2>2, <2>3 DEF Part
  <1> QED
    BY <1>1, <1>2, <1>3, <1>4 DEF T, value

LEMMA LowerParts ==
  ASSUME NEW x \in Values, NEW p \in Parts(x[1], x[2])
  PROVE  /\ p \in Values /\ Depth[p[1]] < Depth[x[1]]
         /\ Depth[p[1]] \in Nat /\ Depth[x[1]] \in Nat
  <1>1. PICK i \in 1..Len(Contents(x[1], x[2])) : p = Part(x[1], x[2], i)
    BY Inside DEF Parts
  <1>2. p \in Values /\ x[1] \in Types /\ p[1] \in Inner(x[1])
    BY <1>1, Inside
  <1> QED
    BY <1>2, Kinds

(* Induction over values: what holds of a value if it holds of its parts. *)
LEMMA ValueInduction ==
  ASSUME NEW G,
         \A x \in Values : (\A p \in Parts(x[1], x[2]) : p \in G) => x \in G
  PROVE  \A x \in Values : x \in G
  <1> DEFINE D == {d \in Nat : \A x \in Values : Depth[x[1]] < d => x \in G}
  <1>1. 0 \in D
    BY Inside, Kinds
  <1>2. ASSUME NEW d \in Nat, d \in D
        PROVE  d + 1 \in D
    <2> SUFFICES ASSUME NEW x \in Values, Depth[x[1]] < d + 1
                 PROVE  x \in G
      OBVIOUS
    <2>1. ASSUME NEW p \in Parts(x[1], x[2])
          PROVE  p \in G
      <3>1. p \in Values /\ Depth[p[1]] < d
        BY LowerParts
      <3> QED
        BY <1>2, <3>1
    <2> QED
      BY <2>1
  <1> SUFFICES ASSUME NEW x \in Values
               PROVE  x \in G
    OBVIOUS
  <1>3. Depth[x[1]] \in Nat
    BY Inside, Kinds
  <1>4. Depth[x[1]] + 1 \in Nat /\ Depth[x[1]] < Depth[x[1]] + 1
    BY <1>3
  <1>5. Depth[x[1]] + 1 \in D
    <2> HIDE DEF D
    <2> QED
      BY <1>1, <1>2, <1>4, Upwards
  <1> QED
    BY <1>4, <1>5

-----------------------------------------------------------------------------
(* serialize: the function that it defines, and that it writes bytes. *)
LEMMA WriteLooksAtParts ==
  ASSUME NEW x \in Values, NEW f, NEW g, \A p \in Parts(x[1], x[2]) : f[p] = g[p]
  PROVE  Write(f, x[1], x[2]) = Write(g, x[1], x[2])
  <1>1. \A i \in DOMAIN Contents(x[1], x[2]) :
          f[Part(x[1], x[2], i)] = g[Part(x[1], x[2], i)]
    BY DEF Parts
  <1>2. [i \in DOMAIN Contents(x[1], x[2]) |-> f[Part(x[1], x[2], i)]]
          = [i \in DOMAIN Contents(x[1], x[2]) |-> g[Part(x[1], x[2], i)]]
    BY <1>1
  <1> QED
    BY <1>2 DEF Write

LEMMA SerializedIs ==
  Serialized = [x \in Values |-> Write(Serialized, x[1], x[2])]
  <1> DEFINE Equal(f, x) == f[x] = Write(f, x[1], x[2])
             Holds(f, d) == /\ f = [x \in Values |-> f[x]]
                            /\ \A x \in Values : Depth[x[1]] < d => Equal(f, x)
             D == {d \in Nat : \E f : Holds(f, d)}
  <1>1. 0 \in D
    <2> DEFINE f == [x \in Values |-> <<>>]
    <2>1. \A x \in Values : ~(Depth[x[1]] < 0)
      BY Inside, Kinds
    <2>2. f = [x \in Values |-> f[x]]
      OBVIOUS
    <2> HIDE DEF f, Equal
    <2>3. Holds(f, 0)
      BY <2>1, <2>2
    <2> HIDE DEF Holds
    <2> QED
      BY <2>3
  <1>2. ASSUME NEW d \in Nat, d \in D
        PROVE  d + 1 \in D
    <2>1. PICK f : Holds(f, d)
      <3> HIDE DEF Holds
      <3> QED
        BY <1>2
    <2> DEFINE g == [x \in Values |-> IF Depth[x[1]] < d THEN f[x]
                                      ELSE Write(f, x[1], x[2])]
    <2>2. g = [x \in Values |-> g[x]]
      OBVIOUS
    <2>3. \A x \in Values : Depth[x[1]] < d => g[x] = f[x]
      OBVIOUS
    <2>4. \A x \in Values : g[x] = Write(f, x[1], x[2])
      BY <2>1
    <2> HIDE DEF g
    <2>5. ASSUME NEW x \in Values, Depth[x[1]] < d + 1
          PROVE  Equal(g, x)
      <3>1. ASSUME NEW p \in Parts(x[1], x[2])
            PROVE  f[p] = g[p]
        <4>1. p \in Values /\ Depth[p[1]] < Depth[x[1]] /\ Depth[p[1]] \in Nat
              /\ Depth[x[1]] \in Nat
          BY LowerParts
        <4>2. Depth[p[1]] < d
          BY <2>5, <4>1
        <4> QED
          BY <2>3, <4>1, <4>2
      <3>2. Write(f, x[1], x[2]) = Write(g, x[1], x[2])
        BY <3>1, WriteLooksAtParts
      <3> QED
        BY <2>4, <3>2
    <2>6. Holds(g, d + 1)
      <3> HIDE DEF Equal
      <3> QED
        BY <2>2, <2>5
    <2> HIDE DEF Holds
    <2> QED
      BY <2>6
  <1>3. PICK deepest \in Types : \A T \in Types : Depth[T] <= Depth[deepest]
    BY SerializationAssumption
  <1> DEFINE d == Depth[deepest] + 1
  <1>4. d \in Nat /\ \A x \in Values : Depth[x[1]] < d
    BY <1>3, Inside, Kinds
  <1>5. d \in D
    <2> HIDE DEF D, d
    <2> QED
      BY <1>1, <1>2, <1>4, Upwards
  <1>6. PICK f : Holds(f, d)
    <2> HIDE DEF Holds, d
    <2> QED
      BY <1>5
  <1>7. f = [x \in Values |-> Write(f, x[1], x[2])]
    <2> HIDE DEF d
    <2> QED
      BY <1>4, <1>6
  <1> DEFINE Solves(h) == h = [x \in Values |-> Write(h, x[1], x[2])]
  <1>8. Serialized = CHOOSE h : Solves(h)
    BY DEF Serialized
  <1>9. Solves(Serialized)
    <2>1. Solves(f)
      BY <1>7
    <2> HIDE DEF Solves
    <2> QED
      BY <1>8, <2>1
  <1> QED
    BY <1>9

LEMMA NumberBytes ==
  ASSUME NEW n \in Int, NEW w \in Nat
  PROVE  BytesOf(n, w) \in Bytes /\ Len(BytesOf(n, w)) = w
  <1>1. BytesOf(n, w) \in [1..w -> Int \X Nat]
    BY DEF BytesOf
  <1> QED
    BY <1>1, ListIsSeq DEF Bytes

LEMMA Writes ==
  ASSUME NEW x \in Values
  PROVE  LET n == Len(Contents(x[1], x[2]))
             pieces == [i \in 1..n |-> Serialized[Part(x[1], x[2], i)]]
         IN  /\ n \in Nat /\ pieces \in [1..n -> Bytes]
             /\ Serialized[x] = BytesOf(Leading(x[1], x[2]), LeadingSize(x[1]))
                                  \o Concatenation(pieces)
             /\ Serialized[x] \in Bytes
  <1> DEFINE size(y) == Len(Contents(y[1], y[2]))
             pieces(y) == [i \in 1..size(y) |-> Serialized[Part(y[1], y[2], i)]]
             first(y) == BytesOf(Leading(y[1], y[2]), LeadingSize(y[1]))
  <1>1. ASSUME NEW y \in Values
        PROVE  Serialized[y] = first(y) \o Concatenation(pieces(y))
    <2>1. Serialized[y] = Write(Serialized, y[1], y[2])
      BY SerializedIs
    <2>2. DOMAIN Contents(y[1], y[2]) = 1..size(y)
      BY Inside
    <2> QED
      BY <2>1, <2>2 DEF Write
  <1>2. ASSUME NEW y \in Values,
               \A p \in Parts(y[1], y[2]) : Serialized[p] \in Bytes
        PROVE  /\ size(y) \in Nat /\ pieces(y) \in [1..size(y) -> Bytes]
               /\ Serialized[y] \in Bytes
    <2>1. size(y) \in Nat /\ \A i \in 1..size(y) : Part(y[1], y[2], i) \in Parts(y[1], y[2])
      BY Inside DEF Parts
    <2>2. pieces(y) \in [1..size(y) -> Bytes]
      BY <1>2, <2>1
    <2>3. Concatenation(pieces(y)) \in Bytes
      <3> HIDE DEF pieces, size
      <3> QED
        BY <2>1, <2>2, NoBytes, Remainders
    <2>4. first(y) \in Bytes
      BY Inside, Kinds, NumberBytes
    <2> HIDE DEF pieces, size, first
    <2> QED
      BY <1>1, <2>1, <2>2, <2>3, <2>4, Joins
  <1> DEFINE G == {y \in Values : Serialized[y] \in Bytes}
  <1>3. \A y \in Values : y \in G
    <2>1. ASSUME NEW y \in Values, \A p \in Parts(y[1], y[2]) : p \in G
          PROVE  y \in G
      BY <1>2, <2>1
    <2> HIDE DEF G
    <2> QED
      BY <2>1, ValueInduction
  <1>4. \A p \in Parts(x[1], x[2]) : Serialized[p] \in Bytes
    BY <1>3, LowerParts
  <1> QED
    BY <1>1, <1>2, <1>4

-----------------------------------------------------------------------------
(* get_serialize_size: the function that it defines, and when it is exact. *)
LEMMA SizeLooksAtParts ==
  ASSUME NEW x \in Values, NEW f, NEW g, \A p \in Parts(x[1], x[2]) : f[p] = g[p]
  PROVE  Size(f, x[1], x[2]) = Size(g, x[1], x[2])
  <1>1. \A i \in DOMAIN Contents(x[1], x[2]) :
          f[Part(x[1], x[2], i)] = g[Part(x[1], x[2], i)]
    BY DEF Parts
  <1>2. [i \in DOMAIN Contents(x[1], x[2]) |-> f[Part(x[1], x[2], i)]]
          = [i \in DOMAIN Contents(x[1], x[2]) |-> g[Part(x[1], x[2], i)]]
    BY <1>1
  <1> QED
    BY <1>2 DEF Size

LEMMA SizedIs ==
  Sized = [x \in Values |-> Size(Sized, x[1], x[2])]
  <1> DEFINE Equal(f, x) == f[x] = Size(f, x[1], x[2])
             Holds(f, d) == /\ f = [x \in Values |-> f[x]]
                            /\ \A x \in Values : Depth[x[1]] < d => Equal(f, x)
             D == {d \in Nat : \E f : Holds(f, d)}
  <1>1. 0 \in D
    <2> DEFINE f == [x \in Values |-> 0]
    <2>1. \A x \in Values : ~(Depth[x[1]] < 0)
      BY Inside, Kinds
    <2>2. f = [x \in Values |-> f[x]]
      OBVIOUS
    <2> HIDE DEF f, Equal
    <2>3. Holds(f, 0)
      BY <2>1, <2>2
    <2> HIDE DEF Holds
    <2> QED
      BY <2>3
  <1>2. ASSUME NEW d \in Nat, d \in D
        PROVE  d + 1 \in D
    <2>1. PICK f : Holds(f, d)
      <3> HIDE DEF Holds
      <3> QED
        BY <1>2
    <2> DEFINE g == [x \in Values |-> IF Depth[x[1]] < d THEN f[x]
                                      ELSE Size(f, x[1], x[2])]
    <2>2. g = [x \in Values |-> g[x]]
      OBVIOUS
    <2>3. \A x \in Values : Depth[x[1]] < d => g[x] = f[x]
      OBVIOUS
    <2>4. \A x \in Values : g[x] = Size(f, x[1], x[2])
      BY <2>1
    <2> HIDE DEF g
    <2>5. ASSUME NEW x \in Values, Depth[x[1]] < d + 1
          PROVE  Equal(g, x)
      <3>1. ASSUME NEW p \in Parts(x[1], x[2])
            PROVE  f[p] = g[p]
        <4>1. p \in Values /\ Depth[p[1]] < Depth[x[1]] /\ Depth[p[1]] \in Nat
              /\ Depth[x[1]] \in Nat
          BY LowerParts
        <4>2. Depth[p[1]] < d
          BY <2>5, <4>1
        <4> QED
          BY <2>3, <4>1, <4>2
      <3>2. Size(f, x[1], x[2]) = Size(g, x[1], x[2])
        BY <3>1, SizeLooksAtParts
      <3> QED
        BY <2>4, <3>2
    <2>6. Holds(g, d + 1)
      <3> HIDE DEF Equal
      <3> QED
        BY <2>2, <2>5
    <2> HIDE DEF Holds
    <2> QED
      BY <2>6
  <1>3. PICK deepest \in Types : \A T \in Types : Depth[T] <= Depth[deepest]
    BY SerializationAssumption
  <1> DEFINE d == Depth[deepest] + 1
  <1>4. d \in Nat /\ \A x \in Values : Depth[x[1]] < d
    BY <1>3, Inside, Kinds
  <1>5. d \in D
    <2> HIDE DEF D, d
    <2> QED
      BY <1>1, <1>2, <1>4, Upwards
  <1>6. PICK f : Holds(f, d)
    <2> HIDE DEF Holds, d
    <2> QED
      BY <1>5
  <1>7. f = [x \in Values |-> Size(f, x[1], x[2])]
    <2> HIDE DEF d
    <2> QED
      BY <1>4, <1>6
  <1> DEFINE Solves(h) == h = [x \in Values |-> Size(h, x[1], x[2])]
  <1>8. Sized = CHOOSE h : Solves(h)
    BY DEF Sized
  <1>9. Solves(Sized)
    <2>1. Solves(f)
      BY <1>7
    <2> HIDE DEF Solves
    <2> QED
      BY <1>8, <2>1
  <1> QED
    BY <1>9

LEMMA Sizes ==
  ASSUME NEW x \in Values
  PROVE  LET n == Len(Contents(x[1], x[2]))
             sizes == [i \in 1..n |-> Sized[Part(x[1], x[2], i)]]
         IN  /\ n \in Nat /\ sizes \in [1..n -> Nat]
             /\ x[1].kind # "expected" => Sized[x] = LeadingSize(x[1]) + Total(sizes)
             /\ Sized[x] \in Nat
  <1> DEFINE size(y) == Len(Contents(y[1], y[2]))
             sizes(y) == [i \in 1..size(y) |-> Sized[Part(y[1], y[2], i)]]
  <1>1. ASSUME NEW y \in Values
        PROVE  /\ y[1].kind = "expected" => Sized[y] = 5
               /\ y[1].kind # "expected" =>
                    Sized[y] = LeadingSize(y[1]) + Total(sizes(y))
    <2>1. Sized[y] = Size(Sized, y[1], y[2])
      BY SizedIs
    <2>2. DOMAIN Contents(y[1], y[2]) = 1..size(y)
      BY Inside
    <2>3. Bool.width + Int32.width = 5
      BY DEF Bool, Int32, Number
    <2>4. y[1].kind \in {"number", "string", "range", "pointer", "expected", "struct"}
      BY Inside, Kinds
    <2>5. CASE y[1].kind = "expected"
      BY <2>1, <2>3, <2>5 DEF Size, ExpectedSize
    <2>6. CASE y[1].kind \in {"string", "range"}
      <3>1. Sized[y] = LengthSize + Total(sizes(y))
        BY <2>1, <2>2, <2>6 DEF Size
      <3>2. LeadingSize(y[1]) = LengthSize
        BY <2>6 DEF LeadingSize, LengthSize
      <3> QED
        BY <2>6, <3>1, <3>2
    <2>7. CASE y[1].kind \in {"number", "pointer", "struct"}
      BY <2>1, <2>2, <2>7 DEF Size
    <2> QED
      BY <2>4, <2>5, <2>6, <2>7
  <1>2. ASSUME NEW y \in Values,
               \A p \in Parts(y[1], y[2]) : Sized[p] \in Nat
        PROVE  /\ size(y) \in Nat /\ sizes(y) \in [1..size(y) -> Nat]
               /\ Sized[y] \in Nat
    <2>1. size(y) \in Nat /\ \A i \in 1..size(y) : Part(y[1], y[2], i) \in Parts(y[1], y[2])
      BY Inside DEF Parts
    <2>2. sizes(y) \in [1..size(y) -> Nat]
      BY <1>2, <2>1
    <2>3. Total(sizes(y)) \in Nat
      <3> HIDE DEF sizes, size
      <3>1. PICK upto \in [0..size(y) -> Nat] : Total(sizes(y)) = upto[size(y)]
        BY <2>1, <2>2, AddedUp
      <3> QED
        BY <2>1, <3>1
    <2>4. LeadingSize(y[1]) \in Nat
      BY Inside, Kinds
    <2> HIDE DEF sizes, size
    <2> QED
      BY <1>1, <2>1, <2>2, <2>3, <2>4
  <1> DEFINE G == {y \in Values : Sized[y] \in Nat}
  <1>3. \A y \in Values : y \in G
    <2>1. ASSUME NEW y \in Values, \A p \in Parts(y[1], y[2]) : p \in G
          PROVE  y \in G
      BY <1>2, <2>1
    <2> HIDE DEF G
    <2> QED
      BY <2>1, ValueInduction
  <1>4. \A p \in Parts(x[1], x[2]) : Sized[p] \in Nat
    BY <1>3, LowerParts
  <1> QED
    BY <1>1, <1>2, <1>4

(* get_serialize_size returns the number of bytes that serialize writes,      *)
(* whatever the value, when neither its type nor a type inside it is an       *)
(* Expected.                                                                  *)
THEOREM SizesExact ==
  ASSUME NEW Exact \in SUBSET Types,
         \A T \in Exact : T.kind # "expected" /\ Inner(T) \subseteq Exact
  PROVE  \A T \in Exact : \A value :
           <<T, value>> \in Values =>
             SizeOf(T, value) = Len(Serialize(T, value))
  <1> DEFINE G == {x \in Values : x[1] \in Exact => Sized[x] = Len(Serialized[x])}
  <1>1. ASSUME NEW x \in Values, \A p \in Parts(x[1], x[2]) : p \in G
        PROVE  x \in G
    <2> SUFFICES ASSUME x[1] \in Exact
                 PROVE  Sized[x] = Len(Serialized[x])
      OBVIOUS
    <2> DEFINE n == Len(Contents(x[1], x[2]))
               pieces == [i \in 1..n |-> Serialized[Part(x[1], x[2], i)]]
               sizes == [i \in 1..n |-> Sized[Part(x[1], x[2], i)]]
               first == BytesOf(Leading(x[1], x[2]), LeadingSize(x[1]))
    <2>1. /\ n \in Nat /\ pieces \in [1..n -> Bytes]
          /\ Serialized[x] = first \o Concatenation(pieces)
      BY Writes
    <2>2. sizes \in [1..n -> Nat] /\ Sized[x] = LeadingSize(x[1]) + Total(sizes)
      BY Sizes
    <2>3. ASSUME NEW i \in 1..n
          PROVE  sizes[i] = Len(pieces[i])
      <3>1. Part(x[1], x[2], i) \in Parts(x[1], x[2])
        BY Inside DEF Parts
      <3>2. Part(x[1], x[2], i)[1] \in Exact
        BY Inside
      <3> QED
        BY <1>1, <3>1, <3>2
    <2>4. first \in Bytes /\ Len(first) = LeadingSize(x[1])
      BY Inside, Kinds, NumberBytes
    <2> HIDE DEF pieces, sizes, n, first
    <2>5. Total(sizes) = Len(Concatenation(pieces))
      BY <2>1, <2>2, <2>3, LengthsAddUp
    <2>6. Concatenation(pieces) \in Bytes
      BY <2>1, NoBytes, Remainders
    <2>7. Len(Serialized[x]) = Len(first) + Len(Concatenation(pieces))
      BY <2>1, <2>4, <2>6, Joins
    <2> QED
      BY <2>2, <2>4, <2>5, <2>7
  <1>2. \A x \in Values : x \in G
    <2> HIDE DEF G
    <2> QED
      BY <1>1, ValueInduction
  <1> QED
    BY <1>2 DEF SizeOf, Serialize

-----------------------------------------------------------------------------
(* deserialize: one number, then the parts one after the other. *)
LEMMA NumberRead ==
  ASSUME NEW w \in Nat, NEW bytes \in Bytes
  PROVE  LET r == ReadNumber(w, bytes)
         IN  r.val \in Int /\ r.rest \in Bytes /\ r.ok \in BOOLEAN
  <1>1. Len(bytes) \in Nat /\ \A i \in 1..Len(bytes) : bytes[i] \in Int \X Nat
    BY DEF Bytes
  <1>2. Garbage \in Int
    BY DEF Garbage
  <1>3. CASE w <= Len(bytes)
    <2> DEFINE piece == SubSeq(bytes, 1, w)
    <2>1. piece \in Bytes /\ SubSeq(bytes, w + 1, Len(bytes)) \in Bytes
      BY <1>1, <1>3, SubSeqProperties DEF Bytes
    <2> HIDE DEF piece
    <2>2. piece # <<>> => piece[1][1] \in Int
      <3> SUFFICES ASSUME piece # <<>>
                   PROVE  piece[1][1] \in Int
        OBVIOUS
      <3>1. 1 \in 1..Len(piece) /\ piece \in Seq(Int \X Nat)
        BY <2>1, EmptySeq DEF Bytes
      <3>2. piece[1] \in Int \X Nat
        BY <3>1, ElementOfSeq
      <3> QED
        BY <3>2
    <2>3. NumberIn(piece) \in Int
      BY <1>2, <2>2 DEF NumberIn
    <2> QED
      BY <1>3, <2>1, <2>3 DEF ReadNumber, piece
  <1>4. CASE ~(w <= Len(bytes))
    BY <1>2, <1>4 DEF ReadNumber
  <1> QED
    BY <1>3, <1>4

LEMMA NumberReadBack ==
  ASSUME NEW number \in Int, NEW w \in Nat, w = 0 => number = 0, NEW rest \in Bytes
  PROVE  ReadNumber(w, BytesOf(number, w) \o rest) =
           [val |-> number, rest |-> rest, ok |-> TRUE]
  <1> DEFINE piece == BytesOf(number, w)
             bytes == piece \o rest
  <1>1. piece \in Bytes /\ Len(piece) = w
    BY NumberBytes
  <1>2. w <= Len(bytes)
    <2> HIDE DEF piece
    <2>1. Len(bytes) = w + Len(rest) /\ Len(rest) \in Nat
      BY <1>1, Joins
    <2> QED
      BY <2>1
  <1>3. SubSeq(bytes, 1, w) = piece /\ SubSeq(bytes, w + 1, Len(bytes)) = rest
    <2> HIDE DEF piece
    <2> QED
      BY <1>1, TakenApart
  <1>4. NumberIn(piece) = number
    <2>1. CASE w = 0
      <3>1. piece = <<>>
        BY <1>1, <2>1 DEF BytesOf
      <3> QED
        BY <2>1, <3>1 DEF NumberIn
    <2>2. CASE w # 0
      <3>1. 1 \in 1..w
        BY <2>2
      <3>2. piece[1] = <<number, 1>>
        BY <3>1 DEF BytesOf
      <3>3. piece # <<>>
        <4> HIDE DEF piece
        <4> QED
          BY <1>1, <2>2, NoBytes
      <3>4. piece[1][1] = number
        BY <3>2
      <3>5. piece = BytesOf(piece[1][1], Len(piece))
        <4> HIDE DEF piece
        <4>1. piece = BytesOf(number, w)
          BY DEF piece
        <4> QED
          BY <1>1, <3>4, <4>1
      <3> HIDE DEF piece
      <3> QED
        BY <3>3, <3>4, <3>5 DEF NumberIn
    <2> QED
      BY <2>1, <2>2
  <1> HIDE DEF piece, bytes
  <1>5. ReadNumber(w, bytes) = [val |-> number, rest |-> rest, ok |-> TRUE]
    BY <1>2, <1>3, <1>4 DEF ReadNumber
  <1> QED
    BY <1>5 DEF piece, bytes

(* The loop over the parts. *)
LEMMA PartsRead ==
  ASSUME NEW reader, NEW T, NEW r, Count(T, r.val) \in Nat
  PROVE  LET n == Count(T, r.val)
         IN  \E upto :
               /\ upto[0] = NoParts(T, r)
               /\ \A i \in 1..n :
                    upto[i] = ReadPart(reader, T, r.val, upto[i - 1], i)
               /\ ReadParts(reader, T, r) = upto[n]
  <1> DEFINE n == Count(T, r.val)
  <1>0. n \in Nat
    OBVIOUS
  <1> DEFINE Step(g, i) == IF i = 0 THEN NoParts(T, r)
                           ELSE ReadPart(reader, T, r.val, g[i - 1], i)
             Follows(g, m) == g = [i \in 0..m |-> Step(g, i)]
             D == {m \in Nat : \E g : Follows(g, m)}
             upto == CHOOSE g : Follows(g, n)
  <1>1. 0 \in D
    <2> DEFINE g == [i \in 0..0 |-> NoParts(T, r)]
    <2>1. Follows(g, 0)
      OBVIOUS
    <2> HIDE DEF g, Follows
    <2> QED
      BY <2>1
  <1>2. ASSUME NEW m \in Nat, m \in D
        PROVE  m + 1 \in D
    <2>1. PICK g : Follows(g, m)
      <3> HIDE DEF Follows
      <3> QED
        BY <1>2
    <2> DEFINE h == [i \in 0..(m + 1) |-> IF i = m + 1 THEN Step(g, m + 1) ELSE g[i]]
    <2>2. \A i \in 0..m : g[i] = Step(g, i)
      BY <2>1
    <2>3. \A i \in 0..m : h[i] = g[i]
      <3> HIDE DEF Step
      <3> QED
        OBVIOUS
    <2>4. h[m + 1] = Step(g, m + 1)
      <3> HIDE DEF Step
      <3> QED
        OBVIOUS
    <2>5. \A i \in 0..(m + 1) : Step(h, i) = Step(g, i)
      <3> HIDE DEF h
      <3> SUFFICES ASSUME NEW i \in 0..(m + 1)
                   PROVE  Step(h, i) = Step(g, i)
        OBVIOUS
      <3>1. i # 0 => i - 1 \in 0..m
        OBVIOUS
      <3>2. i # 0 => h[i - 1] = g[i - 1]
        BY <2>3, <3>1
      <3> QED
        BY <3>2
    <2>6. \A i \in 0..(m + 1) : h[i] = Step(h, i)
      <3> HIDE DEF Step, h
      <3>1. \A i \in 0..(m + 1) : i \in 0..m \/ i = m + 1
        OBVIOUS
      <3> QED
        BY <2>2, <2>3, <2>4, <2>5, <3>1
    <2>7. Follows(h, m + 1)
      <3> HIDE DEF Step
      <3>1. h = [i \in 0..(m + 1) |-> h[i]]
        OBVIOUS
      <3> HIDE DEF h
      <3> QED
        BY <2>6, <3>1
    <2> HIDE DEF h, Follows
    <2> QED
      BY <2>7
  <1>3. n \in D
    <2> HIDE DEF D
    <2> QED
      BY <1>1, <1>2, Upwards
  <1>4. Follows(upto, n)
    <2> HIDE DEF Follows
    <2> QED
      BY <1>3
  <1>5. upto = [i \in 0..n |-> upto[i]] /\ \A i \in 0..n : upto[i] = Step(upto, i)
    <2> HIDE DEF upto, Step
    <2> QED
      BY <1>4
  <1>6. /\ upto[0] = NoParts(T, r)
        /\ \A i \in 1..n : upto[i] = ReadPart(reader, T, r.val, upto[i - 1], i)
    <2> HIDE DEF upto
    <2>1. 0 \in 0..n /\ \A i \in 1..n : i \in 0..n /\ i # 0
      OBVIOUS
    <2> QED
      BY <1>5, <2>1
  <1>7. ReadParts(reader, T, r) = upto[n]
    BY DEF ReadParts
  <1> HIDE DEF upto
  <1> QED
    BY <1>6, <1>7

(* The parts are read in inner types, whatever number comes first. *)
LEMMA PartTypes ==
  ASSUME NEW T \in Types, NEW leading \in Int
  PROVE  /\ Count(T, leading) \in Nat
         /\ \A i \in 1..Count(T, leading) : ContentType(T, leading, i) \in Inner(T)
  <1>1. CASE T.kind = "number"
    BY <1>1 DEF Count
  <1>2. CASE T.kind = "string"
    BY <1>2 DEF Count, Elements, ContentType, Inner
  <1>3. CASE T.kind = "range"
    BY <1>3 DEF Count, Elements, ContentType, Inner
  <1>4. CASE T.kind = "pointer"
    BY <1>4 DEF Count, ContentType, Inner
  <1>5. CASE T.kind = "expected"
    BY <1>5 DEF Count, ContentType, ExpectedContent, Inner
  <1>6. CASE T.kind = "struct"
    <2>1. Len(T.members) \in Nat /\ DOMAIN T.members = 1..Len(T.members)
      BY <1>6, Kinds, SequencesHaveLists
    <2>2. Count(T, leading) = Len(T.members)
      BY <1>6 DEF Count
    <2> QED
      BY <1>6, <2>1, <2>2 DEF ContentType, Inner
  <1> QED
    BY <1>1, <1>2, <1>3, <1>4, <1>5, <1>6, Kinds

(* What deserialize returns depends on the inner types alone, and the bytes    *)
(* that it leaves are bytes.                                                   *)
LEMMA ReadLooksAtParts ==
  ASSUME NEW T \in Types, NEW bytes \in Bytes, NEW f, NEW g,
         \A U \in Inner(T) : \A b \in Bytes :
           f[<<U, b>>] = g[<<U, b>>] /\ f[<<U, b>>].rest \in Bytes
  PROVE  Read(f, T, bytes) = Read(g, T, bytes) /\ Read(f, T, bytes).rest \in Bytes
  <1> DEFINE r == ReadNumber(LeadingSize(T), bytes)
             n == Count(T, r.val)
  <1>1. r.val \in Int /\ r.rest \in Bytes
    <2>1. LeadingSize(T) \in Nat
      BY Kinds
    <2> QED
      BY <2>1, NumberRead
  <1> HIDE DEF r
  <1>2. n \in Nat /\ \A i \in 1..n : ContentType(T, r.val, i) \in Inner(T)
    BY <1>1, PartTypes
  <1>3. PICK uf : /\ uf[0] = NoParts(T, r)
                  /\ \A i \in 1..n : uf[i] = ReadPart(f, T, r.val, uf[i - 1], i)
                  /\ ReadParts(f, T, r) = uf[n]
    BY <1>2, PartsRead
  <1>4. PICK ug : /\ ug[0] = NoParts(T, r)
                  /\ \A i \in 1..n : ug[i] = ReadPart(g, T, r.val, ug[i - 1], i)
                  /\ ReadParts(g, T, r) = ug[n]
    BY <1>2, PartsRead
  <1> HIDE DEF n
  <1> DEFINE D == {i \in Nat : i <= n => uf[i] = ug[i] /\ uf[i].rest \in Bytes}
  <1>5. 0 \in D
    BY <1>1, <1>3, <1>4 DEF NoParts
  <1>6. ASSUME NEW i \in Nat, i \in D
        PROVE  i + 1 \in D
    <2> SUFFICES ASSUME i + 1 <= n
                 PROVE  uf[i + 1] = ug[i + 1] /\ uf[i + 1].rest \in Bytes
      OBVIOUS
    <2>1. i + 1 \in 1..n /\ (i + 1) - 1 = i
      BY <1>2
    <2> DEFINE sofar == uf[i]
               U == ContentType(T, r.val, i + 1)
    <2>2. ug[i] = sofar /\ sofar.rest \in Bytes
      BY <1>2, <1>6
    <2>3. uf[i + 1] = ReadPart(f, T, r.val, sofar, i + 1)
          /\ ug[i + 1] = ReadPart(g, T, r.val, sofar, i + 1)
      BY <1>3, <1>4, <2>1, <2>2
    <2>4. U \in Inner(T)
      BY <1>2, <2>1
    <2> HIDE DEF sofar
    <2>5. f[<<U, sofar.rest>>] = g[<<U, sofar.rest>>] /\ f[<<U, sofar.rest>>].rest \in Bytes
      BY <2>2, <2>4
    <2>6. ReadPart(f, T, r.val, sofar, i + 1) = ReadPart(g, T, r.val, sofar, i + 1)
          /\ ReadPart(f, T, r.val, sofar, i + 1).rest \in Bytes
      BY <2>2, <2>5 DEF ReadPart
    <2> QED
      BY <2>3, <2>6
  <1>7. n \in D
    <2> HIDE DEF D
    <2> QED
      BY <1>2, <1>5, <1>6, Upwards
  <1>8. ReadParts(f, T, r) = ReadParts(g, T, r) /\ ReadParts(f, T, r).rest \in Bytes
    BY <1>2, <1>3, <1>4, <1>7
  <1> QED
    BY <1>8 DEF Read, r

LEMMA DeserializedIs ==
  Deserialized = [x \in Types \X Bytes |-> Read(Deserialized, x[1], x[2])]
  <1> DEFINE S == Types \X Bytes
             Equal(f, x) == f[x] = Read(f, x[1], x[2])
             Holds(f, d) == /\ f = [x \in S |-> f[x]]
                            /\ \A x \in S : f[x].rest \in Bytes
                            /\ \A x \in S : Depth[x[1]] < d => Equal(f, x)
             D == {d \in Nat : \E f : Holds(f, d)}
  <1>1. 0 \in D
    <2> DEFINE f == [x \in S |-> [val |-> 0, rest |-> x[2], ok |-> FALSE]]
    <2>1. \A x \in S : ~(Depth[x[1]] < 0)
      BY Kinds
    <2>2. f = [x \in S |-> f[x]] /\ \A x \in S : f[x].rest \in Bytes
      OBVIOUS
    <2> HIDE DEF f, Equal
    <2>3. Holds(f, 0)
      BY <2>1, <2>2
    <2> HIDE DEF Holds
    <2> QED
      BY <2>3
  <1>2. ASSUME NEW d \in Nat, d \in D
        PROVE  d + 1 \in D
    <2>1. PICK f : Holds(f, d)
      <3> HIDE DEF Holds
      <3> QED
        BY <1>2
    <2> DEFINE g == [x \in S |-> IF Depth[x[1]] < d THEN f[x] ELSE Read(f, x[1], x[2])]
    <2>2. g = [x \in S |-> g[x]]
      OBVIOUS
    <2>3. \A x \in S : Depth[x[1]] < d => g[x] = f[x]
      OBVIOUS
    <2>4. \A x \in S : Depth[x[1]] < d + 1 => g[x] = Read(f, x[1], x[2])
      <3>1. \A x \in S : Depth[x[1]] < d => f[x] = Read(f, x[1], x[2])
        BY <2>1
      <3>2. \A x \in S : g[x] = IF Depth[x[1]] < d THEN f[x] ELSE Read(f, x[1], x[2])
        OBVIOUS
      <3> HIDE DEF g, S
      <3> QED
        BY <3>1, <3>2
    <2>5. \A x \in S : ~(Depth[x[1]] < d) => g[x] = Read(f, x[1], x[2])
      OBVIOUS
    <2> HIDE DEF g
    <2>6. ASSUME NEW x \in S, Depth[x[1]] < d + 1
          PROVE  g[x] = Read(g, x[1], x[2]) /\ g[x].rest \in Bytes
      <3>1. x[1] \in Types /\ x[2] \in Bytes /\ Depth[x[1]] \in Nat
        BY Kinds
      <3>2. ASSUME NEW U \in Inner(x[1]), NEW b \in Bytes
            PROVE  f[<<U, b>>] = g[<<U, b>>] /\ f[<<U, b>>].rest \in Bytes
        <4>1. U \in Types /\ Depth[U] < Depth[x[1]] /\ Depth[U] \in Nat
          BY <3>1, Kinds
        <4>2. <<U, b>> \in S /\ Depth[<<U, b>>[1]] < d
          BY <2>6, <3>1, <4>1
        <4> HIDE DEF S
        <4> QED
          BY <2>1, <2>3, <4>2
      <3>3. Read(f, x[1], x[2]) = Read(g, x[1], x[2]) /\ Read(f, x[1], x[2]).rest \in Bytes
        BY <3>1, <3>2, ReadLooksAtParts
      <3> QED
        BY <2>4, <2>6, <3>3
    <2> DEFINE h == [x \in S |-> IF Depth[x[1]] < d + 1 THEN g[x]
                                ELSE [val |-> 0, rest |-> x[2], ok |-> FALSE]]
    <2>7. h = [x \in S |-> h[x]]
      OBVIOUS
    <2>8. \A x \in S : Depth[x[1]] < d + 1 => h[x] = g[x]
      OBVIOUS
    <2>9. \A x \in S : h[x].rest \in Bytes
      <3>1. \A x \in S : h[x] = IF Depth[x[1]] < d + 1 THEN g[x]
                                ELSE [val |-> 0, rest |-> x[2], ok |-> FALSE]
        OBVIOUS
      <3>2. \A x \in S : x[2] \in Bytes
        OBVIOUS
      <3> HIDE DEF h, S
      <3>3. SUFFICES ASSUME NEW x \in S
                     PROVE  h[x].rest \in Bytes
        OBVIOUS
      <3>4. CASE Depth[x[1]] < d + 1
        BY <2>6, <3>1, <3>4
      <3>5. CASE ~(Depth[x[1]] < d + 1)
        <4>1. h[x] = [val |-> 0, rest |-> x[2], ok |-> FALSE] /\ x[2] \in Bytes
          BY <3>1, <3>2, <3>5
        <4> DEFINE b == x[2]
        <4> HIDE DEF b
        <4>2. h[x] = [val |-> 0, rest |-> b, ok |-> FALSE] /\ b \in Bytes
          BY <4>1 DEF b
        <4> QED
          BY <4>2
      <3> QED
        BY <3>4, <3>5
    <2> HIDE DEF h
    <2>10. ASSUME NEW x \in S, Depth[x[1]] < d + 1
           PROVE  Equal(h, x)
      <3>1. x[1] \in Types /\ x[2] \in Bytes /\ Depth[x[1]] \in Nat
        BY Kinds
      <3>2. ASSUME NEW U \in Inner(x[1]), NEW b \in Bytes
            PROVE  g[<<U, b>>] = h[<<U, b>>] /\ g[<<U, b>>].rest \in Bytes
        <4>1. U \in Types /\ Depth[U] < Depth[x[1]] /\ Depth[U] \in Nat
          BY <3>1, Kinds
        <4>2. <<U, b>> \in S /\ Depth[<<U, b>>[1]] < d + 1
          BY <2>10, <3>1, <4>1
        <4> HIDE DEF S
        <4> QED
          BY <2>6, <2>8, <4>2
      <3>3. Read(g, x[1], x[2]) = Read(h, x[1], x[2])
        BY <3>1, <3>2, ReadLooksAtParts
      <3> QED
        BY <2>6, <2>8, <2>10, <3>3
    <2>11. Holds(h, d + 1)
      <3> HIDE DEF Equal
      <3> QED
        BY <2>7, <2>9, <2>10
    <2> HIDE DEF Holds
    <2> QED
      BY <2>11
  <1>3. PICK deepest \in Types : \A T \in Types : Depth[T] <= Depth[deepest]
    BY SerializationAssumption
  <1> DEFINE d == Depth[deepest] + 1
  <1>4. d \in Nat /\ \A x \in S : Depth[x[1]] < d
    BY <1>3, Kinds
  <1>5. d \in D
    <2> HIDE DEF D, d
    <2> QED
      BY <1>1, <1>2, <1>4, Upwards
  <1>6. PICK f : Holds(f, d)
    <2> HIDE DEF Holds, d
    <2> QED
      BY <1>5
  <1>7. f = [x \in S |-> Read(f, x[1], x[2])]
    <2> HIDE DEF d
    <2> QED
      BY <1>4, <1>6
  <1> DEFINE Solves(h) == h = [x \in S |-> Read(h, x[1], x[2])]
  <1>8. Deserialized = CHOOSE h : Solves(h)
    BY DEF Deserialized
  <1>9. Solves(Deserialized)
    <2>1. Solves(f)
      BY <1>7
    <2> HIDE DEF Solves
    <2> QED
      BY <1>8, <2>1
  <1> QED
    BY <1>9

(* A list with its next element. *)
LEMMA OneMore ==
  ASSUME NEW n \in Nat, NEW c, NEW i \in Nat, i + 1 <= n
  PROVE  Append([j \in 1..i |-> c[j]], c[i + 1]) = [j \in 1..(i + 1) |-> c[j]]
  <1> DEFINE S == {c[j] : j \in 1..n}
             a == [j \in 1..i |-> c[j]]
             b == [j \in 1..(i + 1) |-> c[j]]
             e == c[i + 1]
  <1>1. a \in [1..i -> S] /\ b \in [1..(i + 1) -> S] /\ e \in S /\ i + 1 \in Nat
    <2>1. \A j \in 1..(i + 1) : j \in 1..n
      OBVIOUS
    <2>2. i + 1 \in 1..n /\ \A j \in 1..i : j \in 1..n
      OBVIOUS
    <2> QED
      BY <2>1, <2>2
  <1>2. (\A j \in 1..i : a[j] = c[j]) /\ (\A j \in 1..(i + 1) : b[j] = c[j])
    OBVIOUS
  <1> HIDE DEF a, b, S
  <1>3. a \in Seq(S) /\ Len(a) = i /\ b \in Seq(S) /\ Len(b) = i + 1
    BY <1>1, ListIsSeq
  <1>4. /\ Append(a, e) \in Seq(S) /\ Len(Append(a, e)) = i + 1
        /\ \A j \in 1..i : Append(a, e)[j] = a[j]
        /\ Append(a, e)[i + 1] = e
    BY <1>1, <1>3, AppendProperties
  <1>5. \A j \in 1..(i + 1) : Append(a, e)[j] = b[j]
    <2>1. \A j \in 1..(i + 1) : j \in 1..i \/ j = i + 1
      OBVIOUS
    <2>2. i + 1 \in 1..(i + 1) /\ \A j \in 1..i : j \in 1..(i + 1)
      OBVIOUS
    <2> QED
      BY <1>2, <1>4, <2>1, <2>2 DEF e
  <1>6. Append(a, e) = b
    BY <1>3, <1>4, <1>5, SeqEqual
  <1> QED
    BY <1>6 DEF a, b, e

(* HoldsError: the predicate that it defines, and what it excludes. *)
LEMMA HoldsErrorIs ==
  HoldsError = [x \in Values |-> Erring(HoldsError, x)]
  <1> DEFINE Equal(f, x) == f[x] = Erring(f, x)
             Holds(f, d) == /\ f = [x \in Values |-> f[x]]
                            /\ \A x \in Values : Depth[x[1]] < d => Equal(f, x)
             D == {d \in Nat : \E f : Holds(f, d)}
  <1>1. 0 \in D
    <2> DEFINE f == [x \in Values |-> FALSE]
    <2>1. \A x \in Values : ~(Depth[x[1]] < 0)
      BY Inside, Kinds
    <2>2. f = [x \in Values |-> f[x]]
      OBVIOUS
    <2> HIDE DEF f, Equal
    <2>3. Holds(f, 0)
      BY <2>1, <2>2
    <2> HIDE DEF Holds
    <2> QED
      BY <2>3
  <1>2. ASSUME NEW d \in Nat, d \in D
        PROVE  d + 1 \in D
    <2>1. PICK f : Holds(f, d)
      <3> HIDE DEF Holds
      <3> QED
        BY <1>2
    <2> DEFINE g == [x \in Values |-> IF Depth[x[1]] < d THEN f[x]
                                      ELSE Erring(f, x)]
    <2>2. g = [x \in Values |-> g[x]]
      OBVIOUS
    <2>3. \A x \in Values : Depth[x[1]] < d => g[x] = f[x]
      OBVIOUS
    <2>4. \A x \in Values : g[x] = Erring(f, x)
      BY <2>1
    <2> HIDE DEF g
    <2>5. ASSUME NEW x \in Values, Depth[x[1]] < d + 1
          PROVE  Equal(g, x)
      <3>1. ASSUME NEW p \in Parts(x[1], x[2])
            PROVE  f[p] = g[p]
        <4>1. p \in Values /\ Depth[p[1]] < Depth[x[1]] /\ Depth[p[1]] \in Nat
              /\ Depth[x[1]] \in Nat
          BY LowerParts
        <4>2. Depth[p[1]] < d
          BY <2>5, <4>1
        <4> QED
          BY <2>3, <4>1, <4>2
      <3>2. Erring(f, x) = Erring(g, x)
        BY <3>1 DEF Erring
      <3> QED
        BY <2>4, <3>2
    <2>6. Holds(g, d + 1)
      <3> HIDE DEF Equal
      <3> QED
        BY <2>2, <2>5
    <2> HIDE DEF Holds
    <2> QED
      BY <2>6
  <1>3. PICK deepest \in Types : \A T \in Types : Depth[T] <= Depth[deepest]
    BY SerializationAssumption
  <1> DEFINE d == Depth[deepest] + 1
  <1>4. d \in Nat /\ \A x \in Values : Depth[x[1]] < d
    BY <1>3, Inside, Kinds
  <1>5. d \in D
    <2> HIDE DEF D, d
    <2> QED
      BY <1>1, <1>2, <1>4, Upwards
  <1>6. PICK f : Holds(f, d)
    <2> HIDE DEF Holds, d
    <2> QED
      BY <1>5
  <1>7. f = [x \in Values |-> Erring(f, x)]
    <2> HIDE DEF d
    <2> QED
      BY <1>4, <1>6
  <1> DEFINE Solves(h) == h = [x \in Values |-> Erring(h, x)]
  <1>8. HoldsError = CHOOSE h : Solves(h)
    BY DEF HoldsError
  <1>9. Solves(HoldsError)
    <2>1. Solves(f)
      BY <1>7
    <2> HIDE DEF Solves
    <2> QED
      BY <1>8, <2>1
  <1> QED
    BY <1>9

LEMMA Faultless ==
  ASSUME NEW x \in Values, ~HoldsError[x]
  PROVE  /\ x[1].kind = "expected" => x[2][1]
         /\ \A p \in Parts(x[1], x[2]) : ~HoldsError[p]
  <1>1. HoldsError[x] = Erring(HoldsError, x)
    BY HoldsErrorIs
  <1> QED
    BY <1>1 DEF Erring

(* How many parts are read back, and the value that is made of them. *)
LEMMA CountedBack ==
  ASSUME NEW x \in Values
  PROVE  LET leading == Leading(x[1], x[2])
             contents == Contents(x[1], x[2])
         IN  /\ Count(x[1], leading) = Len(contents)
             /\ Accepted(x[1], leading)
             /\ ~HoldsError[x] => ValueOf(x[1], leading, contents) = x[2]
  <1> DEFINE T == x[1]
             value == x[2]
             leading == Leading(T, value)
             contents == Contents(T, value)
  <1>1. /\ T \in Types /\ IsValue(T, value)
        /\ ~HoldsError[x] => (T.kind = "expected" => value[1])
    BY SerializationAssumption, Faultless
  <1> SUFFICES /\ Count(T, leading) = Len(contents) /\ Accepted(T, leading)
               /\ ~HoldsError[x] => ValueOf(T, leading, contents) = value
    OBVIOUS
  <1> HIDE DEF T, value
  <1>2. CASE T.kind = "number"
    BY <1>2, NothingInside DEF Count, ValueOf, Leading, Contents, Accepted
  <1>3. CASE T.kind \in {"string", "range"}
    <2>1. IsSequence(value)
      BY <1>1, <1>3 DEF IsValue
    <2>2. Len(value) \in Nat
      BY <2>1, SequencesHaveLists
    <2>3. leading = Len(value) /\ contents = value
      BY <1>3 DEF Leading, Contents
    <2>4. Elements(leading) = Len(value)
      BY <2>2, <2>3 DEF Elements
    <2> QED
      BY <1>3, <2>2, <2>3, <2>4 DEF Count, ValueOf, Accepted
  <1>4. CASE T.kind = "pointer"
    <2>1. IsSequence(value) /\ Len(value) <= 1
      BY <1>1, <1>4 DEF IsValue
    <2>2. Len(value) \in Nat /\ value = [i \in 1..Len(value) |-> value[i]]
      BY <2>1, SequencesHaveLists
    <2>3. Len(value) = 0 <=> value = <<>>
      <3> DEFINE S == {value[i] : i \in 1..Len(value)}
      <3>1. value \in [1..Len(value) -> S]
        BY <2>2
      <3> HIDE DEF S
      <3>2. value \in Seq(S)
        BY <2>2, <3>1, ListIsSeq
      <3> QED
        BY <3>2, EmptySeq
    <2>4. leading = (IF value = <<>> THEN 1 ELSE 0) /\ contents = value
      BY <1>4 DEF Leading, Contents
    <2>5. Count(T, leading) = IF leading = 0 THEN 1 ELSE 0
      BY <1>4 DEF Count
    <2>6. Count(T, leading) = Len(value)
      BY <2>1, <2>2, <2>3, <2>4, <2>5
    <2> QED
      BY <1>4, <2>4, <2>6 DEF ValueOf, Accepted
  <1>5. CASE T.kind = "expected"
    <2>1. value = <<value[1], value[2]>> /\ value[1] \in BOOLEAN
      BY <1>1, <1>5 DEF IsValue
    <2>2. leading = (IF value[1] THEN 1 ELSE 0) /\ contents = <<value[2]>>
      BY <1>5 DEF Leading, Contents, ExpectedFlag
    <2>3. /\ Count(T, leading) = 1 /\ Accepted(T, leading)
          /\ leading # 0 => ValueOf(T, leading, contents) = <<TRUE, contents[1]>>
      BY <1>5 DEF Count, ValueOf, ExpectedRead, Accepted
    <2>4. Len(contents) = 1 /\ contents[1] = value[2]
      BY <2>2, OneInside
    <2>5. ~HoldsError[x] => value[1] = TRUE /\ leading # 0
      BY <1>1, <1>5, <2>1, <2>2
    <2> QED
      BY <2>1, <2>3, <2>4, <2>5
  <1>6. CASE T.kind = "struct"
    BY <1>1, <1>6 DEF IsValue, Count, ValueOf, Contents, Accepted
  <1> QED
    BY <1>1, <1>2, <1>3, <1>4, <1>5, <1>6, Kinds

(* deserialize (serialization.hpp 115-176) reads every value that serialize   *)
(* (64-113) wrote to its end and leaves what follows it in the buffer, and    *)
(* gives it back unless there is an Expected with an error in it              *)
(* (error_struct.h 90).                                                       *)
THEOREM ReadBack ==
  \A T \in Types : \A value : \A rest \in Bytes :
    <<T, value>> \in Values =>
      LET r == Deserialize(T, Serialize(T, value) \o rest)
      IN  /\ Serialize(T, value) \in Bytes
          /\ r.ok = TRUE /\ r.rest = rest
          /\ ~HoldsError[<<T, value>>] => r.val = value
  <1> DEFINE Back(r, x, value, rest) == /\ r.ok = TRUE /\ r.rest = rest
                                        /\ ~HoldsError[x] => r.val = value
             Comes(x, rest) ==
               Back(Deserialized[<<x[1], Serialized[x] \o rest>>], x, x[2], rest)
             G == {x \in Values : \A rest \in Bytes : Comes(x, rest)}
  <1>1. ASSUME NEW x \in Values, \A p \in Parts(x[1], x[2]) : p \in G
        PROVE  x \in G
    <2> SUFFICES ASSUME NEW rest \in Bytes
                 PROVE  Comes(x, rest)
      <3> HIDE DEF Comes
      <3> QED
        OBVIOUS
    <2> DEFINE T == x[1]
               leading == Leading(T, x[2])
               contents == Contents(T, x[2])
               n == Len(contents)
               pieces == [i \in 1..n |-> Serialized[Part(T, x[2], i)]]
               first == BytesOf(leading, LeadingSize(T))
               r == [val |-> leading, rest |-> Concatenation(pieces) \o rest, ok |-> TRUE]
    <2>1. /\ n \in Nat /\ pieces \in [1..n -> Bytes]
          /\ Serialized[x] = first \o Concatenation(pieces) /\ Serialized[x] \in Bytes
      BY Writes
    <2>2. /\ T \in Types /\ leading \in Int /\ (T.kind = "struct" => leading = 0)
          /\ IsSequence(contents)
      BY Inside
    <2>3. LeadingSize(T) \in Nat /\ (LeadingSize(T) = 0 => leading = 0)
      BY <2>2, Kinds
    <2>4. /\ Count(T, leading) = n /\ Accepted(T, leading)
          /\ ~HoldsError[x] => ValueOf(T, leading, contents) = x[2]
      BY CountedBack
    <2>5. first \in Bytes
      BY <2>2, <2>3, NumberBytes
    <2>6. \A i \in 1..n : pieces[i] = Serialized[Part(T, x[2], i)]
      OBVIOUS
    <2>7. ASSUME NEW i \in 1..n
          PROVE  /\ Part(T, x[2], i) \in G
                 /\ ~HoldsError[x] => ~HoldsError[Part(T, x[2], i)]
                 /\ Part(T, x[2], i) = <<ContentType(T, leading, i), contents[i]>>
      <3>1. Part(T, x[2], i) \in Parts(T, x[2])
        BY Inside DEF Parts
      <3>2. Part(T, x[2], i) = <<ContentType(T, leading, i), contents[i]>>
        BY Inside
      <3>3. ~HoldsError[x] => ~HoldsError[Part(T, x[2], i)]
        BY <3>1, Faultless
      <3> HIDE DEF G
      <3> QED
        BY <1>1, <3>1, <3>2, <3>3
    <2> HIDE DEF pieces, first, n
    <2>8. Concatenation(pieces) \in Bytes
      BY <2>1, NoBytes, Remainders
    <2>9. Concatenation(pieces) \o rest \in Bytes
      BY <2>8, Joins
    <2>10. /\ Serialized[x] \o rest = first \o (Concatenation(pieces) \o rest)
           /\ Serialized[x] \o rest \in Bytes
      <3> DEFINE c == Concatenation(pieces)
      <3> HIDE DEF c
      <3>1. c \in Bytes /\ Serialized[x] = first \o c
        BY <2>1, <2>8 DEF c
      <3>2. (first \o c) \o rest = first \o (c \o rest)
        BY <2>5, <3>1, JoinsThree
      <3>3. Serialized[x] \o rest \in Bytes
        BY <2>1, Joins
      <3> QED
        BY <3>1, <3>2, <3>3 DEF c
    <2>11. ReadNumber(LeadingSize(T), Serialized[x] \o rest) = r
      <3> HIDE DEF leading
      <3> QED
        BY <2>2, <2>3, <2>9, <2>10, NumberReadBack DEF first
    <2>12. PICK tail \in [0..n -> Bytes] :
             /\ tail[0] = Concatenation(pieces) \o rest
             /\ \A i \in 1..n : tail[i - 1] = pieces[i] \o tail[i]
             /\ tail[n] = rest
      BY <2>1, Remainders
    <2>13. r.val = leading /\ r.rest = tail[0] /\ r.ok = TRUE
      BY <2>12
    <2> HIDE DEF r, leading, contents, T
    <2>14. PICK upto : /\ upto[0] = NoParts(T, r)
                       /\ \A i \in 1..n :
                            upto[i] = ReadPart(Deserialized, T, r.val, upto[i - 1], i)
                       /\ ReadParts(Deserialized, T, r) = upto[n]
      <3>1. Count(T, r.val) = n
        BY <2>4, <2>13
      <3> DEFINE m == Count(T, r.val)
      <3>2. Count(T, r.val) \in Nat
        BY <2>1, <3>1
      <3>3. \E upto : /\ upto[0] = NoParts(T, r)
                      /\ \A i \in 1..m :
                           upto[i] = ReadPart(Deserialized, T, r.val, upto[i - 1], i)
                      /\ ReadParts(Deserialized, T, r) = upto[m]
        BY <3>2, PartsRead
      <3> HIDE DEF m
      <3>4. m = n
        BY <3>1 DEF m
      <3> QED
        BY <3>3, <3>4
    <2> DEFINE Sofar(i) == [j \in 1..i |-> contents[j]]
               D == {i \in Nat : i <= n => Back(upto[i], x, Sofar(i), tail[i])}
    <2>15. 0 \in D
      <3>1. Sofar(0) = <<>>
        OBVIOUS
      <3>2. upto[0].ok = TRUE /\ upto[0].rest = tail[0] /\ upto[0].val = <<>>
        <4>1. Accepted(T, r.val) /\ r.ok = TRUE
          BY <2>4, <2>13
        <4> DEFINE ok == r.ok /\ Accepted(T, r.val)
        <4>2. ok = TRUE
          BY <4>1
        <4>3. upto[0] = [val |-> <<>>, rest |-> r.rest, ok |-> ok]
          BY <2>14 DEF NoParts
        <4> HIDE DEF D, ok
        <4> QED
          BY <2>13, <4>2, <4>3
      <3> HIDE DEF Sofar
      <3> QED
        BY <3>1, <3>2
    <2>16. ASSUME NEW i \in Nat, i \in D
           PROVE  i + 1 \in D
      <3> SUFFICES ASSUME i + 1 <= n
                   PROVE  Back(upto[i + 1], x, Sofar(i + 1), tail[i + 1])
        <4> HIDE DEF Back, Sofar
        <4> QED
          OBVIOUS
      <3>1. i + 1 \in 1..n /\ (i + 1) - 1 = i /\ i <= n /\ i + 1 \in 0..n
        BY <2>1
      <3> DEFINE U == ContentType(T, leading, i + 1)
                 p == Part(T, x[2], i + 1)
                 e == Deserialized[<<U, tail[i]>>]
      <3>2. Back(upto[i], x, Sofar(i), tail[i])
        BY <2>16, <3>1
      <3>3. upto[i + 1] = ReadPart(Deserialized, T, leading, upto[i], i + 1)
        BY <2>13, <2>14, <3>1
      <3>4. tail[i] = Serialized[p] \o tail[i + 1] /\ tail[i + 1] \in Bytes
        BY <2>6, <2>12, <3>1
      <3>5. /\ Comes(p, tail[i + 1]) /\ p = <<U, contents[i + 1]>>
            /\ ~HoldsError[x] => ~HoldsError[p]
        <4> HIDE DEF Comes
        <4> QED
          BY <2>7, <3>1, <3>4
      <3>6. Back(e, x, contents[i + 1], tail[i + 1])
        <4>1. p[1] = U /\ p[2] = contents[i + 1]
          BY <3>5
        <4>2. Back(Deserialized[<<p[1], Serialized[p] \o tail[i + 1]>>], p, p[2], tail[i + 1])
          BY <3>5
        <4> HIDE DEF p, U
        <4>3. Deserialized[<<p[1], Serialized[p] \o tail[i + 1]>>] = e
          BY <3>4, <4>1
        <4> HIDE DEF e
        <4> QED
          BY <3>5, <4>1, <4>2, <4>3
      <3>7. Append(Sofar(i), contents[i + 1]) = Sofar(i + 1)
        BY <2>1, OneMore
      <3>8. upto[i + 1] = [val |-> Append(upto[i].val, e.val), rest |-> e.rest, ok |-> e.ok]
        BY <3>2, <3>3 DEF ReadPart
      <3> HIDE DEF Sofar, U, p, e
      <3> QED
        BY <3>2, <3>6, <3>7, <3>8
    <2>17. n \in D
      <3> HIDE DEF D
      <3> QED
        BY <2>1, <2>15, <2>16, Upwards
    <2>18. Sofar(n) = contents
      BY <2>2, SequencesHaveLists DEF n
    <2>19. Back(ReadParts(Deserialized, T, r), x, contents, rest)
      <3> HIDE DEF Sofar, Back
      <3>1. n <= n => Back(upto[n], x, Sofar(n), tail[n])
        BY <2>17
      <3> HIDE DEF D
      <3>2. n <= n
        BY <2>1
      <3>3. Back(upto[n], x, Sofar(n), tail[n])
        BY <3>1, <3>2
      <3>4. tail[n] = rest
        BY <2>12
      <3>5. ReadParts(Deserialized, T, r) = upto[n]
        BY <2>14
      <3> QED
        BY <2>18, <3>3, <3>4, <3>5
    <2>20. Back(Read(Deserialized, T, Serialized[x] \o rest), x, x[2], rest)
      <3> DEFINE parts == ReadParts(Deserialized, T, r)
      <3>1. Read(Deserialized, T, Serialized[x] \o rest)
              = [val |-> IF parts.ok THEN ValueOf(T, r.val, parts.val) ELSE Garbage,
                 rest |-> parts.rest, ok |-> parts.ok]
        BY <2>11 DEF Read
      <3>2. Back(parts, x, contents, rest)
        BY <2>19
      <3> HIDE DEF parts
      <3> QED
        BY <2>4, <2>13, <3>1, <3>2
    <2>21. Deserialized[<<T, Serialized[x] \o rest>>]
             = Read(Deserialized, T, Serialized[x] \o rest)
      BY <2>2, <2>10, DeserializedIs
    <2> QED
      BY <2>20, <2>21 DEF T
  <1>2. \A x \in Values : x \in G
    <2> HIDE DEF G
    <2> QED
      BY <1>1, ValueInduction
  <1> SUFFICES ASSUME NEW T \in Types, NEW value, NEW rest \in Bytes, <<T, value>> \in Values
               PROVE  /\ Serialize(T, value) \in Bytes
                      /\ Back(Deserialize(T, Serialize(T, value) \o rest), <<T, value>>,
                              value, rest)
    OBVIOUS
  <1>3. Comes(<<T, value>>, rest)
    <2> HIDE DEF Comes
    <2> QED
      BY <1>2
  <1>4. Serialized[<<T, value>>] \in Bytes
    BY Writes
  <1> QED
    BY <1>3, <1>4 DEF Serialize, Deserialize

-----------------------------------------------------------------------------
(* The message of a call. *)

(* The messages of a call. *)
RequestPayload(f) ==
  Padded(Body(Calls[f].params, Calls[f].args),
         PayloadSize(Calls[f].params, Calls[f].args))
ResponsePayload(f) ==
  Padded(Body(<<Calls[f].ret>>, <<Calls[f].result>>),
         PayloadSize(<<Calls[f].ret>>, <<Calls[f].result>>))

(* What a call relies on of Serializer<T>: values are written as bytes, their *)
(* sizes are numbers, a header has the same size whatever is in it, and what  *)
(* was written can be read back.  SerializerReads proves it.                  *)
Serializer ==
  /\ HeaderSize \in Nat \ {0}
  /\ \A f \in DOMAIN Calls :
       /\ \A h \in {RequestHeader(f), ResponseHeader(f)} :
            /\ Serialize(PackageHeader, h) \in Bytes
            /\ Len(Serialize(PackageHeader, h)) = HeaderSize
            /\ ~HoldsError[<<PackageHeader, h>>]
       /\ Body(Calls[f].params, Calls[f].args) \in Bytes
       /\ PayloadSize(Calls[f].params, Calls[f].args) \in Nat
       /\ Body(<<Calls[f].ret>>, <<Calls[f].result>>) \in Bytes
       /\ PayloadSize(<<Calls[f].ret>>, <<Calls[f].result>>) \in Nat
       /\ MessagesReadBack(f)

(* Messages of the size that receive asserts.                                 *)
ShortMessages ==
  \A f \in DOMAIN Calls :
    /\ PayloadSize(Calls[f].params, Calls[f].args) <= BUFFER_SIZE - HeaderSize
    /\ PayloadSize(<<Calls[f].ret>>, <<Calls[f].result>>) <= BUFFER_SIZE - HeaderSize

(* What the assertions about a message say.                                   *)
BuffersSuffice ==
  \A f \in DOMAIN Calls :
    LET size == PayloadSize(Calls[f].params, Calls[f].args)
        answer == PayloadSize(<<Calls[f].ret>>, <<Calls[f].result>>)
    IN  /\ HeaderSize + size <= LOCAL_BUFFER_SIZE
        /\ Len(Body(Calls[f].params, Calls[f].args)) = size
        /\ size <= BUFFER_SIZE - HeaderSize
        /\ Len(Body(<<Calls[f].ret>>, <<Calls[f].result>>)) <= answer
        /\ answer <= BUFFER_SIZE - HeaderSize

-----------------------------------------------------------------------------
(* What is on its way: the message of the phase. *)
Sent == IF phase = "request"
        THEN [header |-> RequestHeader(id), payload |-> RequestPayload(id)]
        ELSE [header |-> ResponseHeader(id), payload |-> ResponsePayload(id)]

(* The receiver has a part of it, and the connection the rest. *)
Delivery ==
  Receiving =>
    /\ header = <<>> =>
         /\ data \o stream = Serialize(PackageHeader, Sent.header) \o Sent.payload
         /\ payload = <<>>
         /\ Len(data) < HeaderSize
    /\ header # <<>> =>
         /\ header = Sent.header
         /\ payload \o stream = Sent.payload

(* What has been sent did fit. *)
Written ==
  /\ phase # "idle" => id \in DOMAIN Calls
  /\ phase = "request" => ~Overflows(Calls[id].params, Calls[id].args)
  /\ phase = "response" => ~Overflows(<<Calls[id].ret>>, <<Calls[id].result>>)

WireInv == WireTypeOK /\ Written /\ Delivery /\ RequestIntact /\ ResultIntact

-----------------------------------------------------------------------------
(* The members of PackageHeader are read where they were put. *)
LEMMA Fields ==
  ASSUME NEW type, NEW rpc_id, NEW rpc_type, NEW port, NEW payload_len
  PROVE  LET h == HeaderOf(type, rpc_id, rpc_type, port, payload_len)
         IN  /\ Field(h, "flags") = type
             /\ Field(h, "rpc_id") = rpc_id
             /\ Field(h, "rpc_type") = rpc_type
             /\ Field(h, "payload_len") = payload_len
             /\ h # <<>>
             /\ DOMAIN h = DOMAIN HeaderFields
  <1> DEFINE h == HeaderOf(type, rpc_id, rpc_type, port, payload_len)
             at(name) == CHOOSE i \in DOMAIN HeaderFields : HeaderFields[i] = name
  <1>1. /\ DOMAIN HeaderFields = 1..9 /\ DOMAIN h = 1..9
        /\ HeaderFields[1] = "version" /\ HeaderFields[2] = "reserved"
        /\ HeaderFields[3] = "server_port" /\ HeaderFields[4] = "flags"
        /\ HeaderFields[5] = "rpc_id" /\ HeaderFields[6] = "restart"
        /\ HeaderFields[7] = "rpc_type" /\ HeaderFields[8] = "payload_len"
        /\ HeaderFields[9] = "checksum"
    BY DEF HeaderFields, HeaderOf
  <1>2. h[4] = type /\ h[5] = rpc_id /\ h[7] = rpc_type /\ h[8] = payload_len
    BY DEF HeaderOf
  <1>3. \A i \in 1..9 : i \in {1, 2, 3, 4, 5, 6, 7, 8, 9}
    OBVIOUS
  <1>4. at("flags") = 4 /\ at("rpc_id") = 5 /\ at("rpc_type") = 7
        /\ at("payload_len") = 8
    <2>1. at("flags") = 4
      BY <1>1, <1>3
    <2>2. at("rpc_id") = 5
      BY <1>1, <1>3
    <2>3. at("rpc_type") = 7
      BY <1>1, <1>3
    <2>4. at("payload_len") = 8
      BY <1>1, <1>3
    <2> QED
      BY <2>1, <2>2, <2>3, <2>4
  <1>5. h # <<>>
    BY <1>1
  <1> QED
    BY <1>1, <1>2, <1>4, <1>5 DEF Field

(* A piece goes from the connection to the buffer. *)
LEMMA PieceMoves ==
  ASSUME NEW got \in Bytes, NEW rest \in Bytes, NEW n \in 1..Len(rest)
  PROVE  LET piece == SubSeq(rest, 1, n)
             left == SubSeq(rest, n + 1, Len(rest))
         IN  /\ got \o piece \in Bytes /\ left \in Bytes
             /\ Len(got \o piece) = Len(got) + n
             /\ Len(left) = Len(rest) - n
             /\ (got \o piece) \o left = got \o rest
  <1> DEFINE piece == SubSeq(rest, 1, n)
             left == SubSeq(rest, n + 1, Len(rest))
  <1>1. Len(rest) \in Nat /\ \A i \in 1..Len(rest) : rest[i] \in Int \X Nat
    BY DEF Bytes
  <1>2. piece \in Bytes /\ Len(piece) = n
    BY <1>1, SubSeqProperties DEF Bytes
  <1>3. left \in Bytes /\ Len(left) = Len(rest) - n
    BY <1>1, SubSeqProperties DEF Bytes
  <1>4. piece \o left = rest
    <2>1. SubSeq(rest, 1, n) \o SubSeq(rest, n + 1, Len(rest)) =
            SubSeq(rest, 1, Len(rest))
      BY <1>1, ConcatAdjacentSubSeq DEF Bytes
    <2>2. SubSeq(rest, 1, Len(rest)) = rest
      BY SubSeqFull DEF Bytes
    <2> QED
      BY <2>1, <2>2
  <1> HIDE DEF piece, left
  <1>5. got \o piece \in Bytes /\ Len(got \o piece) = Len(got) + n
    BY <1>2, Joins
  <1>6. (got \o piece) \o left = got \o rest
    <2> DEFINE S == Int \X Nat
    <2>1. got \in Seq(S) /\ piece \in Seq(S) /\ left \in Seq(S)
      BY <1>2, <1>3 DEF Bytes
    <2> HIDE DEF S
    <2>2. (got \o piece) \o left = got \o (piece \o left)
      BY <2>1, ConcatAssociative
    <2> QED
      BY <1>4, <2>2
  <1> QED
    BY <1>3, <1>5, <1>6 DEF piece, left

(* Two messages that are the same have the same first bytes. *)
LEMMA SameParts ==
  ASSUME NEW a \in Bytes, NEW b \in Bytes, NEW c \in Bytes, NEW d \in Bytes,
         a \o b = c \o d, Len(a) = Len(c)
  PROVE  a = c /\ b = d
  <1>1. /\ Len(a) \in Nat /\ Len(b) \in Nat /\ Len(d) \in Nat
        /\ \A i \in 1..(Len(a) + Len(b)) :
             (a \o b)[i] = IF i <= Len(a) THEN a[i] ELSE b[i - Len(a)]
        /\ \A i \in 1..(Len(c) + Len(d)) :
             (c \o d)[i] = IF i <= Len(c) THEN c[i] ELSE d[i - Len(c)]
    BY Joins
  <1>2. \A i \in 1..Len(a) : a[i] = c[i]
    BY <1>1
  <1> DEFINE S == Int \X Nat
  <1>3. a \in Seq(S) /\ b \in Seq(S) /\ c \in Seq(S) /\ d \in Seq(S)
    BY DEF Bytes
  <1> HIDE DEF S
  <1>4. a = c
    BY <1>2, <1>3, SeqEqual
  <1>5. b = d
    BY <1>3, <1>4, ConcatSimplifications
  <1> QED
    BY <1>4, <1>5

-----------------------------------------------------------------------------
(* The unwritten rest of a buffer is bytes too. *)
LEMMA Unread ==
  ASSUME NEW body \in Bytes, NEW len \in Nat
  PROVE  [i \in 1..(len - Len(body)) |-> Unwritten] \in Bytes
  <1> DEFINE n == len - Len(body)
             S == Int \X Nat
             m == IF n > 0 THEN n ELSE 0
             rest == [i \in 1..n |-> Unwritten]
  <1>1. Len(body) \in Nat /\ n \in Int
    BY DEF Bytes
  <1>2. Unwritten \in S
    BY DEF Unwritten, Garbage
  <1>3. m \in Nat /\ 1..n = 1..m
    BY <1>1
  <1> HIDE DEF S, m, n
  <1>4. rest \in [1..m -> S]
    BY <1>2, <1>3
  <1>5. rest \in Seq(S)
    BY <1>3, <1>4, ListIsSeq
  <1> QED
    BY <1>5 DEF S, n, Bytes

LEMMA PaddedIs ==
  ASSUME NEW body \in Bytes, NEW len \in Nat
  PROVE  /\ Padded(body, len) \in Bytes
         /\ Fits(len, body) => Len(Padded(body, len)) = len
  <1> DEFINE n == len - Len(body)
             rest == [i \in 1..n |-> Unwritten]
  <1>1. Len(body) \in Nat /\ n \in Int
    BY DEF Bytes
  <1>2. rest \in Bytes /\ Len(rest) = IF n > 0 THEN n ELSE 0
    <2>1. Unwritten \in Int \X Nat
      BY DEF Unwritten, Garbage
    <2> DEFINE S == Int \X Nat
               m == IF n > 0 THEN n ELSE 0
    <2>2. m \in Nat /\ 1..n = 1..m
      BY <1>1
    <2> HIDE DEF S, m, n
    <2>3. rest \in [1..m -> S]
      BY <2>1, <2>2 DEF S
    <2>4. rest \in Seq(S) /\ Len(rest) = m
      BY <2>2, <2>3, ListIsSeq
    <2> QED
      BY <2>4 DEF S, m, Bytes
  <1> HIDE DEF n, rest
  <1>3. body \o rest \in Bytes /\ Len(body \o rest) = Len(body) + Len(rest)
    BY <1>2, Joins
  <1>4. Fits(len, body) => Len(body) + Len(rest) = len
    BY <1>1, <1>2 DEF Fits, n
  <1> QED
    BY <1>3, <1>4 DEF Padded, n, rest

(* The two messages of a call, if what is written fits. *)
LEMMA Messages ==
  ASSUME Serializer, NEW f \in DOMAIN Calls
  PROVE  /\ RequestPayload(f) \in Bytes /\ ResponsePayload(f) \in Bytes
         /\ ~Overflows(Calls[f].params, Calls[f].args) =>
              Len(RequestPayload(f)) = PayloadSize(Calls[f].params, Calls[f].args)
         /\ ~Overflows(<<Calls[f].ret>>, <<Calls[f].result>>) =>
              Len(ResponsePayload(f)) =
                PayloadSize(<<Calls[f].ret>>, <<Calls[f].result>>)
  <1>1. /\ Body(Calls[f].params, Calls[f].args) \in Bytes
        /\ PayloadSize(Calls[f].params, Calls[f].args) \in Nat
        /\ Body(<<Calls[f].ret>>, <<Calls[f].result>>) \in Bytes
        /\ PayloadSize(<<Calls[f].ret>>, <<Calls[f].result>>) \in Nat
    BY DEF Serializer
  <1> QED
    BY <1>1, PaddedIs DEF RequestPayload, ResponsePayload, Overflows

(* A header that has come is that of the message, and what has come of the    *)
(* payload and what the connection still has are the rest.                    *)
LEMMA Received ==
  ASSUME Serializer, WireInv, Receiving, header # <<>>
  PROVE  LET size == Field(header, "payload_len")
         IN  /\ size \in Nat /\ Len(payload) \in Nat /\ Len(stream) \in Nat
             /\ Len(payload) + Len(stream) = size
             /\ Complete => payload = Sent.payload /\ stream = <<>>
             /\ id \in DOMAIN Calls
             /\ Field(header, "flags") = IF phase = "request" THEN REQUEST ELSE RESPONSE
             /\ Field(header, "rpc_type") = id
             /\ Field(header, "rpc_id") = CoroId
  <1> DEFINE size == Field(header, "payload_len")
  <1>1. /\ phase \in {"request", "response"} /\ id \in DOMAIN Calls
        /\ payload \in Bytes /\ stream \in Bytes
        /\ header = Sent.header /\ payload \o stream = Sent.payload
        /\ phase = "request" => ~Overflows(Calls[id].params, Calls[id].args)
        /\ phase = "response" => ~Overflows(<<Calls[id].ret>>, <<Calls[id].result>>)
    BY DEF WireInv, WireTypeOK, Written, Delivery, Receiving
  <1>2. /\ Sent.payload \in Bytes /\ size \in Nat /\ Len(Sent.payload) = size
        /\ Field(header, "flags") = IF phase = "request" THEN REQUEST ELSE RESPONSE
        /\ Field(header, "rpc_type") = id
        /\ Field(header, "rpc_id") = CoroId
    <2>1. CASE phase = "request"
      <3>1. header = RequestHeader(id) /\ Sent.payload = RequestPayload(id)
        BY <1>1, <2>1 DEF Sent
      <3>2. PayloadSize(Calls[id].params, Calls[id].args) \in Nat
        BY <1>1 DEF Serializer
      <3>3. size = PayloadSize(Calls[id].params, Calls[id].args)
        BY <3>1, Fields DEF RequestHeader
      <3>4. /\ Field(header, "flags") = REQUEST
            /\ Field(header, "rpc_type") = id
            /\ Field(header, "rpc_id") = CoroId
        BY <3>1, Fields DEF RequestHeader
      <3>5. RequestPayload(id) \in Bytes /\ Len(RequestPayload(id)) = size
        BY <1>1, <2>1, <3>3, Messages
      <3> QED
        BY <2>1, <3>1, <3>2, <3>3, <3>4, <3>5
    <2>2. CASE phase = "response"
      <3>1. header = ResponseHeader(id) /\ Sent.payload = ResponsePayload(id)
        BY <1>1, <2>2 DEF Sent
      <3>2. PayloadSize(<<Calls[id].ret>>, <<Calls[id].result>>) \in Nat
        BY <1>1 DEF Serializer
      <3>3. size = PayloadSize(<<Calls[id].ret>>, <<Calls[id].result>>)
        BY <3>1, Fields DEF ResponseHeader
      <3>4. /\ Field(header, "flags") = RESPONSE
            /\ Field(header, "rpc_type") = id
            /\ Field(header, "rpc_id") = CoroId
        BY <3>1, Fields DEF ResponseHeader
      <3>5. ResponsePayload(id) \in Bytes /\ Len(ResponsePayload(id)) = size
        BY <1>1, <2>2, <3>3, Messages
      <3> QED
        BY <2>2, <3>1, <3>2, <3>3, <3>4, <3>5
    <2> QED
      BY <1>1, <2>1, <2>2
  <1>3. /\ Len(payload) \in Nat /\ Len(stream) \in Nat
        /\ Len(payload) + Len(stream) = size
    BY <1>1, <1>2, Joins
  <1>4. ASSUME Complete PROVE payload = Sent.payload /\ stream = <<>>
    <2>1. Len(payload) >= size
      BY <1>2, <1>3, <1>4 DEF Complete, PayloadMissing
    <2>2. Len(stream) = 0
      BY <1>2, <1>3, <2>1
    <2>3. stream = <<>>
      BY <1>1, <2>2, EmptySeq DEF Bytes
    <2>4. payload \o <<>> = payload
      BY <1>1, ConcatEmptySeq DEF Bytes
    <2> QED
      BY <1>1, <2>3, <2>4
  <1> QED
    BY <1>1, <1>2, <1>3, <1>4

-----------------------------------------------------------------------------
(* A header: its members are numbers, and so its size is that of any header.  *)
LEMMA NumberSized ==
  ASSUME NEW w, NEW v, <<Number(w), v>> \in Values
  PROVE  Sized[<<Number(w), v>>] = w
  <1> DEFINE x == <<Number(w), v>>
             n == Len(Contents(x[1], x[2]))
             sizes == [i \in 1..n |-> Sized[Part(x[1], x[2], i)]]
  <1>1. x[1].kind = "number" /\ x[1].width = w
    BY DEF Number
  <1>2. LeadingSize(x[1]) = w /\ n = 0
    BY <1>1, NothingInside DEF LeadingSize, Contents
  <1>3. sizes \in [1..n -> Nat] /\ Sized[x] = LeadingSize(x[1]) + Total(sizes)
    BY <1>1, Sizes
  <1>4. w \in Nat
    <2>1. x[1] \in Types
      BY Inside
    <2> QED
      BY <1>2, <2>1, Kinds
  <1> HIDE DEF x, n, sizes
  <1>5. sizes \in [1..0 -> Nat]
    BY <1>2, <1>3
  <1>6. Total(sizes) = 0
    BY <1>5, AddedUp
  <1> QED
    BY <1>2, <1>3, <1>4, <1>6 DEF x

LEMMA HeaderSized ==
  ASSUME NEW h, <<PackageHeader, h>> \in Values
  PROVE  /\ Sized[<<PackageHeader, h>>]
              = Total([i \in 1..9 |-> PackageHeader.members[i].width])
         /\ Len(Serialized[<<PackageHeader, h>>]) = Sized[<<PackageHeader, h>>]
  <1> DEFINE x == <<PackageHeader, h>>
             n == Len(Contents(x[1], x[2]))
             sizes == [i \in 1..n |-> Sized[Part(x[1], x[2], i)]]
             width(i) == PackageHeader.members[i].width
             Exact == {PackageHeader, Number(2), Number(4), Number(8)}
  <1>1. /\ PackageHeader.kind = "struct" /\ LeadingSize(PackageHeader) = 0
        /\ Len(PackageHeader.members) = 9 /\ DOMAIN PackageHeader.members = 1..9
        /\ \A i \in 1..9 : /\ PackageHeader.members[i] \in {Number(2), Number(4), Number(8)}
                           /\ PackageHeader.members[i] = Number(width(i))
    BY DEF PackageHeader, Struct, LeadingSize, Number
  <1>2. IsValue(PackageHeader, h) /\ PackageHeader \in Types
    BY SerializationAssumption
  <1>3. Contents(x[1], x[2]) = h /\ n = 9
    BY <1>1, <1>2 DEF Contents, IsValue
  <1>4. ASSUME NEW i \in 1..9
        PROVE  Sized[Part(x[1], x[2], i)] = width(i)
    <2>1. Part(x[1], x[2], i) \in Values
          /\ Part(x[1], x[2], i) = <<ContentType(x[1], Leading(x[1], x[2]), i), h[i]>>
      <3>1. \A j \in 1..n :
              /\ Part(x[1], x[2], j) \in Values
              /\ Part(x[1], x[2], j) = <<ContentType(x[1], Leading(x[1], x[2]), j),
                                        Contents(x[1], x[2])[j]>>
        BY Inside
      <3> HIDE DEF x, n
      <3> QED
        BY <1>3, <3>1
    <2>2. ContentType(x[1], Leading(x[1], x[2]), i) = Number(width(i))
      BY <1>1 DEF ContentType
    <2> QED
      BY <2>1, <2>2, NumberSized
  <1>5. Sized[x] = LeadingSize(x[1]) + Total(sizes)
    BY <1>1, Sizes
  <1>6. sizes = [i \in 1..9 |-> width(i)]
    BY <1>3, <1>4
  <1>7. Sized[x] = Total(sizes)
    <2>1. Total(sizes) \in Nat
      <3>1. sizes \in [1..9 -> Nat]
        BY <1>3, Sizes
      <3> HIDE DEF sizes
      <3>2. PICK upto \in [0..9 -> Nat] : Total(sizes) = upto[9]
        BY <3>1, AddedUp
      <3> QED
        BY <3>2
    <2> QED
      BY <1>1, <1>5, <2>1
  <1>8. Len(Serialized[x]) = Sized[x]
    <2>1. Exact \subseteq Types
      <3>1. Inner(PackageHeader) = {PackageHeader.members[i] : i \in 1..9}
        BY <1>1 DEF Inner
      <3>2. /\ PackageHeader.members[1] = Number(2) /\ PackageHeader.members[5] = Number(8)
            /\ PackageHeader.members[9] = Number(4)
        BY DEF PackageHeader, Struct
      <3>3. \A U \in Inner(PackageHeader) : U \in Types
        BY <1>2, Kinds
      <3> HIDE DEF width
      <3> QED
        BY <1>2, <3>1, <3>2, <3>3
    <2>2. ASSUME NEW T \in Exact
          PROVE  T.kind # "expected" /\ Inner(T) \subseteq Exact
      <3>1. CASE T = PackageHeader
        BY <1>1, <3>1 DEF Inner
      <3>2. CASE T \in {Number(2), Number(4), Number(8)}
        BY <3>2 DEF Number, Inner
      <3> QED
        BY <3>1, <3>2
    <2>3. \A T \in Exact : \A value :
            <<T, value>> \in Values => SizeOf(T, value) = Len(Serialize(T, value))
      <3> HIDE DEF Exact
      <3> QED
        BY <2>1, <2>2, SizesExact
    <2> QED
      BY <2>3 DEF SizeOf, Serialize
  <1> QED
    BY <1>6, <1>7, <1>8

(* A number holds no error, and so a header holds none.                       *)
LEMMA NumberFaultless ==
  ASSUME NEW w, NEW v, <<Number(w), v>> \in Values
  PROVE  ~HoldsError[<<Number(w), v>>]
  <1> DEFINE x == <<Number(w), v>>
  <1>1. x[1].kind = "number"
    BY DEF Number
  <1>2. Parts(x[1], x[2]) = {}
    BY <1>1, NothingInside DEF Parts, Contents
  <1>3. HoldsError[x] = Erring(HoldsError, x)
    BY HoldsErrorIs
  <1> HIDE DEF x
  <1>4. ~HoldsError[x]
    BY <1>1, <1>2, <1>3 DEF Erring
  <1> QED
    BY <1>4 DEF x

LEMMA HeaderFaultless ==
  ASSUME NEW h, <<PackageHeader, h>> \in Values
  PROVE  ~HoldsError[<<PackageHeader, h>>]
  <1> DEFINE x == <<PackageHeader, h>>
             member(i) == PackageHeader.members[i]
  <1>1. /\ PackageHeader.kind = "struct" /\ DOMAIN PackageHeader.members = 1..9
        /\ Len(PackageHeader.members) = 9
        /\ \A i \in 1..9 : member(i) \in {Number(2), Number(4), Number(8)}
    BY DEF PackageHeader, Struct
  <1>2. x[1] = PackageHeader /\ x[2] = h /\ x \in Values
    OBVIOUS
  <1> HIDE DEF x, member
  <1>3. ASSUME NEW p \in Parts(x[1], x[2])
        PROVE  ~HoldsError[p]
    <2>1. PICK i \in DOMAIN Contents(x[1], x[2]) : p = Part(x[1], x[2], i)
      BY DEF Parts
    <2>2. /\ p \in Values /\ ContentType(x[1], Leading(x[1], x[2]), i) \in Inner(x[1])
          /\ p = <<ContentType(x[1], Leading(x[1], x[2]), i), Contents(x[1], x[2])[i]>>
      BY <1>2, <2>1, Inside
    <2>3. ContentType(x[1], Leading(x[1], x[2]), i) \in {Number(2), Number(4), Number(8)}
      BY <1>1, <1>2, <2>2 DEF Inner, member
    <2> QED
      BY <2>2, <2>3, NumberFaultless
  <1>4. HoldsError[x] = Erring(HoldsError, x)
    BY <1>2, HoldsErrorIs
  <1>5. ~HoldsError[x]
    BY <1>1, <1>2, <1>3, <1>4 DEF Erring
  <1> QED
    BY <1>5 DEF x

LEMMA HeaderIsSized ==
  HeaderSize \in Nat \ {0}
  <1> DEFINE h == HeaderOf(0, 0, 0, 0, 0)
             widths == [i \in 1..9 |-> PackageHeader.members[i].width]
  <1>1. HeaderSize = Total(widths)
    BY WireAssumption, HeaderSized DEF HeaderSize, SizeOf
  <1>2. widths \in [1..9 -> Nat] /\ widths[9] = 4
    BY DEF PackageHeader, Struct, Number
  <1> HIDE DEF widths
  <1>3. PICK upto \in [0..9 -> Nat] :
          /\ \A i \in 1..9 : upto[i] = upto[i - 1] + widths[i]
          /\ Total(widths) = upto[9]
    BY <1>2, AddedUp
  <1>4. upto[9] = upto[8] + 4 /\ upto[8] \in Nat
    <2>1. 9 \in 1..9 /\ 8 \in 0..9 /\ 9 - 1 = 8
      OBVIOUS
    <2> QED
      BY <1>2, <1>3, <2>1
  <1> QED
    BY <1>1, <1>3, <1>4

(* The one member of a struct is written like the member itself.              *)
LEMMA OneMember ==
  ASSUME NEW T, NEW value, <<Struct(<<T>>), <<value>> >> \in Values
  PROVE  /\ T \in Types /\ <<T, value>> \in Values
         /\ Serialize(Struct(<<T>>), <<value>>) = Serialize(T, value)
  <1> DEFINE x == <<Struct(<<T>>), <<value>> >>
             n == Len(Contents(x[1], x[2]))
             pieces == [i \in 1..n |-> Serialized[Part(x[1], x[2], i)]]
             first == BytesOf(Leading(x[1], x[2]), LeadingSize(x[1]))
  <1>1. /\ x[1].kind = "struct" /\ x[1].members = <<T>> /\ x[2] = <<value>>
        /\ Contents(x[1], x[2]) = <<value>> /\ LeadingSize(x[1]) = 0
    BY DEF Struct, Contents, LeadingSize
  <1>2. n = 1 /\ Contents(x[1], x[2])[1] = value
    BY <1>1, OneInside
  <1>3. Part(x[1], x[2], 1) = <<T, value>>
    <2>1. ContentType(x[1], Leading(x[1], x[2]), 1) = T
      BY <1>1 DEF ContentType
    <2> QED
      BY <1>2, <2>1 DEF Part
  <1>4. <<T, value>> \in Values
    <2>1. 1 \in 1..n
      BY <1>2
    <2>2. Part(x[1], x[2], 1) \in Values
      BY <2>1, Inside
    <2> QED
      BY <1>3, <2>2
  <1>5. T \in Types
    <2>1. <<T, value>>[1] \in Types
      BY <1>4, Inside
    <2> QED
      BY <2>1
  <1>6. first = <<>>
    <2>1. \A v : BytesOf(v, 0) = <<>>
      BY DEF BytesOf
    <2> QED
      BY <1>1, <2>1
  <1>7. pieces \in [1..n -> Bytes] /\ Serialized[x] = first \o Concatenation(pieces)
    BY Writes
  <1>8. pieces[1] = Serialized[<<T, value>>] /\ Serialized[<<T, value>>] \in Bytes
    <2>1. pieces[1] = Serialized[Part(x[1], x[2], 1)]
      BY <1>2
    <2>2. Serialized[<<T, value>>] \in Bytes
      BY <1>4, Writes
    <2> QED
      BY <1>3, <2>1, <2>2
  <1> HIDE DEF x, n, pieces, first
  <1>9. pieces \in [1..1 -> Bytes]
    BY <1>2, <1>7
  <1>10. PICK upto \in [0..1 -> Bytes] :
           /\ upto[0] = <<>>
           /\ \A i \in 1..1 : upto[i] = upto[i - 1] \o pieces[i]
           /\ Concatenation(pieces) = upto[1]
    BY <1>9, JoinedPieces
  <1>11. Concatenation(pieces) = Serialized[<<T, value>>]
    <2>1. 1 \in 1..1 /\ 1 - 1 = 0
      OBVIOUS
    <2>2. upto[1] = <<>> \o pieces[1]
      BY <1>10, <2>1
    <2> QED
      BY <1>8, <1>10, <2>2, NoBytes
  <1>12. Serialized[x] = Serialized[<<T, value>>]
    BY <1>6, <1>7, <1>8, <1>11, NoBytes
  <1> QED
    BY <1>4, <1>5, <1>12 DEF Serialize, x

(* What is written into a buffer is read back, whatever follows it.           *)
LEMMA ReadsPadded ==
  ASSUME NEW T, NEW value, NEW len \in Nat, <<T, value>> \in Values
  PROVE  /\ ReadsBack(T, Serialize(T, value), value)
         /\ ReadsBack(T, Padded(Serialize(T, value), len), value)
  <1> DEFINE bytes == Serialize(T, value)
             rest == [i \in 1..(len - Len(bytes)) |-> Unwritten]
  <1>1. <<T, value>>[1] \in Types /\ <<T, value>>[1] = T
    BY Inside
  <1>2. T \in Types
    BY <1>1
  <1>3. <<>> \in Bytes
    BY NoBytes
  <1>4. /\ bytes \in Bytes
        /\ \A r \in Bytes :
             LET d == Deserialize(T, bytes \o r)
             IN  d.ok = TRUE /\ (~HoldsError[<<T, value>>] => d.val = value)
    BY <1>2, <1>3, ReadBack
  <1>5. rest \in Bytes
    BY <1>4, Unread
  <1> HIDE DEF bytes, rest
  <1>6. ASSUME NEW r \in Bytes
        PROVE  ReadsBack(T, bytes \o r, value)
    BY <1>4 DEF ReadsBack, Arrived
  <1>7. bytes \o <<>> = bytes
    BY <1>4, NoBytes
  <1>8. ReadsBack(T, bytes, value)
    <2>1. ReadsBack(T, bytes \o <<>>, value)
      BY <1>3, <1>6
    <2> QED
      BY <1>7, <2>1
  <1>9. ReadsBack(T, bytes \o rest, value)
    BY <1>5, <1>6
  <1>10. Padded(bytes, len) = bytes \o rest
    BY DEF Padded, rest
  <1> QED
    BY <1>8, <1>9, <1>10 DEF bytes

(* Values are written as bytes, and their sizes are numbers.                  *)
LEMMA WrittenAndSized ==
  ASSUME NEW T, NEW value, <<T, value>> \in Values
  PROVE  Serialize(T, value) \in Bytes /\ SizeOf(T, value) \in Nat
  BY Writes, Sizes DEF Serialize, SizeOf

(* A header, the arguments and the result of a call are read as they were     *)
(* written.                                                                   *)
LEMMA CallReadsBack ==
  ASSUME NEW f \in DOMAIN Calls
  PROVE  MessagesReadBack(f)
  <1> DEFINE c == Calls[f]
             ret == <<c.ret>>
             value == <<c.result>>
  <1> SUFFICES /\ \A h \in {RequestHeader(f), ResponseHeader(f)} :
                    ReadsBack(PackageHeader, Serialize(PackageHeader, h), h)
               /\ ReadsBack(Struct(c.params),
                            Padded(Body(c.params, c.args),
                                   PayloadSize(c.params, c.args)), c.args)
               /\ ReadsBack(c.ret, Padded(Body(ret, value),
                                          PayloadSize(ret, value)), c.result)
    BY DEF MessagesReadBack
  <1>1. /\ <<Struct(c.params), c.args>> \in Values
        /\ <<Struct(<<c.ret>>), <<c.result>> >> \in Values
        /\ <<PackageHeader, RequestHeader(f)>> \in Values
        /\ <<PackageHeader, ResponseHeader(f)>> \in Values
    BY WireAssumption
  <1>2. \A h \in {RequestHeader(f), ResponseHeader(f)} :
          ReadsBack(PackageHeader, Serialize(PackageHeader, h), h)
    <2>1. 0 \in Nat
      OBVIOUS
    <2> QED
      BY <1>1, <2>1, ReadsPadded
  <1>3. ReadsBack(Struct(c.params),
                  Padded(Body(c.params, c.args), PayloadSize(c.params, c.args)), c.args)
    <2>1. PayloadSize(c.params, c.args) \in Nat
      BY <1>1, WrittenAndSized DEF PayloadSize
    <2> QED
      BY <1>1, <2>1, ReadsPadded DEF Body
  <1>4. ReadsBack(c.ret, Padded(Body(<<c.ret>>, <<c.result>>),
                                PayloadSize(<<c.ret>>, <<c.result>>)), c.result)
    <2>1. PayloadSize(<<c.ret>>, <<c.result>>) \in Nat
      BY <1>1, WrittenAndSized DEF PayloadSize
    <2>2. <<c.ret, c.result>> \in Values
          /\ Body(<<c.ret>>, <<c.result>>) = Serialize(c.ret, c.result)
      BY <1>1, OneMember DEF Body
    <2> QED
      BY <2>1, <2>2, ReadsPadded
  <1> QED
    BY <1>2, <1>3, <1>4

LEMMA SerializerReads == Serializer
  <1>1. ASSUME NEW f \in DOMAIN Calls
        PROVE  /\ \A h \in {RequestHeader(f), ResponseHeader(f)} :
                    /\ Serialize(PackageHeader, h) \in Bytes
                    /\ Len(Serialize(PackageHeader, h)) = HeaderSize
                    /\ ~HoldsError[<<PackageHeader, h>>]
               /\ Body(Calls[f].params, Calls[f].args) \in Bytes
               /\ PayloadSize(Calls[f].params, Calls[f].args) \in Nat
               /\ Body(<<Calls[f].ret>>, <<Calls[f].result>>) \in Bytes
               /\ PayloadSize(<<Calls[f].ret>>, <<Calls[f].result>>) \in Nat
    <2>1. /\ <<Struct(Calls[f].params), Calls[f].args>> \in Values
          /\ <<Struct(<<Calls[f].ret>>), <<Calls[f].result>> >> \in Values
          /\ \A h \in {RequestHeader(f), ResponseHeader(f)} : <<PackageHeader, h>> \in Values
          /\ <<PackageHeader, HeaderOf(0, 0, 0, 0, 0)>> \in Values
      BY WireAssumption
    <2>2. ASSUME NEW h \in {RequestHeader(f), ResponseHeader(f)}
          PROVE  /\ Serialize(PackageHeader, h) \in Bytes
                 /\ Len(Serialize(PackageHeader, h)) = HeaderSize
                 /\ ~HoldsError[<<PackageHeader, h>>]
      <3>1. <<PackageHeader, h>> \in Values
        BY <2>1
      <3>2. Serialize(PackageHeader, h) \in Bytes
        BY <3>1, WrittenAndSized
      <3>3. Len(Serialized[<<PackageHeader, h>>]) =
              Sized[<<PackageHeader, HeaderOf(0, 0, 0, 0, 0)>>]
        BY <2>1, <3>1, HeaderSized
      <3>4. ~HoldsError[<<PackageHeader, h>>]
        BY <3>1, HeaderFaultless
      <3> QED
        BY <3>2, <3>3, <3>4 DEF Serialize, HeaderSize, SizeOf
    <2>3. /\ Body(Calls[f].params, Calls[f].args) \in Bytes
          /\ PayloadSize(Calls[f].params, Calls[f].args) \in Nat
      BY <2>1, WrittenAndSized DEF Body, PayloadSize
    <2>4. /\ Body(<<Calls[f].ret>>, <<Calls[f].result>>) \in Bytes
          /\ PayloadSize(<<Calls[f].ret>>, <<Calls[f].result>>) \in Nat
      BY <2>1, WrittenAndSized DEF Body, PayloadSize
    <2> QED
      BY <2>2, <2>3, <2>4
  <1> QED
    BY <1>1, HeaderIsSized, CallReadsBack DEF Serializer

LEMMA ShortMessagesSuffice ==
  ASSUME \A T \in Types : T.kind # "expected", ShortMessages
  PROVE  BuffersSuffice
  <1>1. ASSUME NEW T \in Types, NEW value, <<T, value>> \in Values
        PROVE  Len(Serialize(T, value)) = SizeOf(T, value)
    <2>1. \A U \in Types : U.kind # "expected" /\ Inner(U) \subseteq Types
      BY Kinds
    <2>2. \A U \in Types : \A v :
            <<U, v>> \in Values => SizeOf(U, v) = Len(Serialize(U, v))
      BY <2>1, SizesExact
    <2> QED
      BY <1>1, <2>2
  <1> SUFFICES ASSUME NEW f \in DOMAIN Calls
               PROVE  LET size == PayloadSize(Calls[f].params, Calls[f].args)
                          answer == PayloadSize(<<Calls[f].ret>>, <<Calls[f].result>>)
                      IN  /\ HeaderSize + size <= LOCAL_BUFFER_SIZE
                          /\ Len(Body(Calls[f].params, Calls[f].args)) = size
                          /\ size <= BUFFER_SIZE - HeaderSize
                          /\ Len(Body(<<Calls[f].ret>>, <<Calls[f].result>>)) <= answer
                          /\ answer <= BUFFER_SIZE - HeaderSize
    BY DEF BuffersSuffice
  <1> DEFINE size == PayloadSize(Calls[f].params, Calls[f].args)
             answer == PayloadSize(<<Calls[f].ret>>, <<Calls[f].result>>)
             S == Struct(Calls[f].params)
             R == Struct(<<Calls[f].ret>>)
  <1>2. <<S, Calls[f].args>> \in Values /\ <<R, <<Calls[f].result>> >> \in Values
    BY WireAssumption
  <1> HIDE DEF S, R
  <1>3. S \in Types /\ R \in Types
    <2>1. <<S, Calls[f].args>>[1] \in Types /\ <<R, <<Calls[f].result>> >>[1] \in Types
      BY <1>2, Inside
    <2> QED
      BY <2>1
  <1>4. /\ Len(Body(Calls[f].params, Calls[f].args)) = size
        /\ Len(Body(<<Calls[f].ret>>, <<Calls[f].result>>)) = answer
    BY <1>1, <1>2, <1>3 DEF Body, PayloadSize, S, R
  <1>5. size <= BUFFER_SIZE - HeaderSize /\ answer <= BUFFER_SIZE - HeaderSize
    BY DEF ShortMessages
  <1>6. size \in Nat /\ answer \in Nat /\ HeaderSize \in Nat
    BY <1>2, WrittenAndSized, HeaderIsSized DEF PayloadSize, S, R
  <1> HIDE DEF size, answer
  <1>7. HeaderSize + size <= LOCAL_BUFFER_SIZE
    BY <1>5, <1>6 DEF BUFFER_SIZE, LOCAL_BUFFER_SIZE
  <1>8. Len(Body(<<Calls[f].ret>>, <<Calls[f].result>>)) <= answer
    BY <1>4, <1>6
  <1> QED
    BY <1>4, <1>5, <1>7, <1>8 DEF size, answer

-----------------------------------------------------------------------------
(* Nothing has been sent before the first call. *)
LEMMA InitWire ==
  ASSUME Serializer, WireInit
  PROVE  WireInv
  <1>1. <<>> \in Bytes /\ Len(<<>>) = 0
    BY EmptySeq DEF Bytes
  <1>2. WireTypeOK
    BY <1>1 DEF WireInit, WireTypeOK, Phase, Serializer
  <1> QED
    BY <1>2 DEF WireInit, WireInv, Written, Delivery, Receiving, RequestIntact,
                ResultIntact

(* The end of the process, or of a connection, leaves what has come.          *)
LEMMA StopStep ==
  ASSUME Serializer, WireInv, NEW reason,
         reason \in {"local buffer", "exception", "size of arguments"},
         Stop(reason), id' \in DOMAIN Calls, UNCHANGED <<arguments, result>>
  PROVE  WireInv'
  <1>1. WireTypeOK'
    BY DEF WireInv, WireTypeOK, Stop, Phase
  <1>2. phase' = "stopped"
    BY DEF Stop
  <1> QED
    BY <1>1, <1>2 DEF WireInv, Written, Delivery, Receiving, RequestIntact,
                      ResultIntact

(* A message is sent: all of it is on the connection, nothing has come.       *)
LEMMA ConnectStep ==
  ASSUME Serializer, WireInv, NEW h, NEW body,
         Serialize(PackageHeader, h) \in Bytes, body \in Bytes,
         Connect(Serialize(PackageHeader, h) \o body),
         Sent' = [header |-> h, payload |-> body],
         phase' \in {"request", "response"}, id' \in DOMAIN Calls, Written',
         UNCHANGED <<arguments, result, failure>>
  PROVE  WireInv'
  <1> DEFINE bytes == Serialize(PackageHeader, h) \o body
  <1>1. stream' = bytes /\ data' = <<>> /\ payload' = <<>> /\ header' = <<>>
    BY DEF Connect
  <1>2. bytes \in Bytes /\ <<>> \in Bytes /\ Len(<<>>) = 0 /\ <<>> \o bytes = bytes
    <2>1. bytes \in Bytes
      BY Joins
    <2> HIDE DEF bytes
    <2> QED
      BY <2>1, EmptySeq, ConcatEmptySeq DEF Bytes
  <1>3. WireTypeOK'
    <2> HIDE DEF bytes
    <2>1. Len(data') <= HeaderSize
      BY <1>1, <1>2 DEF Serializer
    <2>2. id' \in DOMAIN Calls /\ phase' \in Phase /\ failure' = failure
      BY DEF Phase
    <2> QED
      BY <1>1, <1>2, <2>1, <2>2 DEF WireInv, WireTypeOK
  <1>4. Delivery'
    <2>1. data' \o stream' = Serialize(PackageHeader, h) \o body
      BY <1>1, <1>2
    <2>2. Sent'.header = h /\ Sent'.payload = body
      OBVIOUS
    <2>3. Len(data') < HeaderSize
      BY <1>1, <1>2 DEF Serializer
    <2> QED
      BY <1>1, <2>1, <2>2, <2>3 DEF Delivery
  <1> QED
    BY <1>3, <1>4 DEF WireInv, RequestIntact, ResultIntact

(* with_args and await_suspend of a call (async_action.ipp 43-84).            *)
LEMMA SendRequestStep ==
  ASSUME Serializer, WireInv, NEW f \in DOMAIN Calls, SendRequest(f)
  PROVE  WireInv'
  <1> DEFINE c == Calls[f]
             size == PayloadSize(c.params, c.args)
  <1>1. id' = f /\ UNCHANGED <<arguments, result>>
    BY DEF SendRequest
  <1>2. CASE Stop("local buffer") \/ Stop("exception") \/ Stop("size of arguments")
    BY <1>1, <1>2, StopStep
  <1>3. CASE /\ ~Overflows(c.params, c.args) /\ ~(Len(Body(c.params, c.args)) < size)
             /\ Connect(Message(RequestHeader(f), c.params, c.args))
             /\ phase' = "request" /\ UNCHANGED failure
    <2>1. /\ Serialize(PackageHeader, RequestHeader(f)) \in Bytes
          /\ RequestPayload(f) \in Bytes
      BY Messages DEF Serializer
    <2>2. Connect(Serialize(PackageHeader, RequestHeader(f)) \o RequestPayload(f))
      BY <1>3 DEF Message, RequestPayload
    <2>3. Sent' = [header |-> RequestHeader(f), payload |-> RequestPayload(f)]
      BY <1>1, <1>3 DEF Sent
    <2>4. Written'
      BY <1>1, <1>3 DEF Written
    <2> QED
      BY <1>1, <1>3, <2>1, <2>2, <2>3, <2>4, ConnectStep
  <1>4. \/ Stop("local buffer") \/ Stop("exception") \/ Stop("size of arguments")
        \/ /\ ~Overflows(c.params, c.args) /\ ~(Len(Body(c.params, c.args)) < size)
           /\ Connect(Message(RequestHeader(f), c.params, c.args))
           /\ phase' = "request" /\ UNCHANGED failure
    <2>1. HeaderSize \in Nat /\ size \in Nat /\ Len(Body(c.params, c.args)) \in Nat
      <3>1. Body(c.params, c.args) \in Bytes /\ size \in Nat /\ HeaderSize \in Nat
        BY DEF Serializer
      <3> QED
        BY <3>1, Joins
    <2>2. HeaderSize + size > LOCAL_BUFFER_SIZE \/ HeaderSize + size <= LOCAL_BUFFER_SIZE
      BY <2>1 DEF LOCAL_BUFFER_SIZE
    <2> HIDE DEF c, size
    <2>3. CASE HeaderSize + size > LOCAL_BUFFER_SIZE
      BY <2>3 DEF SendRequest, c, size
    <2>4. CASE ~(HeaderSize + size > LOCAL_BUFFER_SIZE)
      BY <2>2, <2>4 DEF SendRequest, c, size
    <2> QED
      BY <2>3, <2>4
  <1> QED
    BY <1>2, <1>3, <1>4

(* A piece of the header (net_service.cpp 71-86).                             *)
LEMMA ReadHeaderStep ==
  ASSUME Serializer, WireInv, NEW n, ReadHeader(n)
  PROVE  WireInv'
  <1> DEFINE received == data \o SubSeq(stream, 1, n)
             left == SubSeq(stream, n + 1, Len(stream))
             head == Serialize(PackageHeader, Sent.header)
  <1>1. /\ phase \in {"request", "response"} /\ id \in DOMAIN Calls
        /\ header = <<>> /\ payload = <<>> /\ Len(data) < HeaderSize
        /\ data \in Bytes /\ stream \in Bytes
        /\ data \o stream = head \o Sent.payload
    BY DEF ReadHeader, WireInv, WireTypeOK, Written, Delivery, Receiving
  <1>2. /\ data' = received /\ stream' = left
        /\ header' = IF Len(received) < HeaderSize THEN <<>>
                     ELSE Deserialize(PackageHeader, received).val
        /\ UNCHANGED <<id, phase, payload, arguments, result, failure>>
        /\ n \in Pieces(HeaderSize - Len(data))
    BY DEF ReadHeader
  <1>3. /\ Sent.header \in {RequestHeader(id), ResponseHeader(id)}
        /\ head \in Bytes /\ Sent.payload \in Bytes
    BY <1>1, Messages DEF Sent, Serializer
  <1>4. Len(head) = HeaderSize /\ HeaderSize \in Nat
    BY <1>1, <1>3 DEF Serializer
  <1>5. n \in 1..Len(stream) /\ n <= HeaderSize - Len(data)
    <2>1. Len(data) \in Nat /\ Len(stream) \in Nat
      BY <1>1, Joins
    <2> QED
      BY <1>1, <1>2, <1>4, <2>1 DEF Pieces
  <1>6. /\ received \in Bytes /\ left \in Bytes
        /\ Len(received) = Len(data) + n /\ Len(data) \in Nat /\ n \in Nat
        /\ received \o left = data \o stream
    <2>1. Len(data) \in Nat /\ Len(stream) \in Nat
      BY <1>1, Joins
    <2>2. n \in Nat
      BY <1>5, <2>1
    <2> QED
      BY <1>1, <1>5, <2>1, <2>2, PieceMoves
  <1> HIDE DEF received, left, head
  <1>7. CASE Len(received) < HeaderSize
    <2>1. header' = <<>>
      BY <1>2, <1>7
    <2>2. WireTypeOK'
      <3>1. Len(data') <= HeaderSize
        BY <1>2, <1>4, <1>6, <1>7
      <3> QED
        BY <1>1, <1>2, <1>6, <2>1, <3>1 DEF WireInv, WireTypeOK
    <2>3. Sent' = Sent
      BY <1>2 DEF Sent
    <2>4. Delivery'
      BY <1>1, <1>2, <1>6, <1>7, <2>1, <2>3 DEF Delivery, head
    <2> QED
      BY <1>1, <1>2, <2>1, <2>2, <2>4
         DEF WireInv, Written, RequestIntact, ResultIntact
  <1>8. CASE ~(Len(received) < HeaderSize)
    <2>1. Len(received) = Len(head)
      <3> DEFINE r == Len(received)
                 d == Len(data)
      <3>1. r = d + n /\ d \in Nat /\ n \in Nat /\ n <= HeaderSize - d /\ ~(r < HeaderSize)
        BY <1>5, <1>6, <1>8
      <3> HIDE DEF r, d
      <3>2. r = HeaderSize
        BY <1>4, <3>1
      <3> QED
        BY <1>4, <3>2 DEF r
    <2>2. received = head /\ left = Sent.payload
      BY <1>1, <1>3, <1>6, <2>1, SameParts
    <2>3. header' = Sent.header
      <3>1. ReadsBack(PackageHeader, head, Sent.header)
        BY <1>1, <1>3 DEF Serializer, MessagesReadBack, head
      <3>2. ~HoldsError[<<PackageHeader, Sent.header>>]
        BY <1>1, <1>3 DEF Serializer
      <3> QED
        BY <1>2, <1>8, <2>2, <3>1, <3>2 DEF ReadsBack, Arrived
    <2>4. header' # <<>> /\ DOMAIN header' = DOMAIN HeaderFields
      BY <1>3, <2>3, Fields DEF RequestHeader, ResponseHeader
    <2>5. WireTypeOK'
      <3>1. Len(data') <= HeaderSize
        BY <1>2, <1>4, <2>1
      <3> QED
        BY <1>1, <1>2, <1>6, <2>4, <3>1 DEF WireInv, WireTypeOK
    <2>6. Sent' = Sent
      BY <1>2 DEF Sent
    <2>7. payload' \o stream' = Sent.payload
      <3>1. payload' = <<>> /\ stream' = Sent.payload
        BY <1>1, <1>2, <2>2
      <3> QED
        BY <1>3, <3>1, ConcatEmptySeq DEF Bytes
    <2>8. Delivery'
      BY <2>3, <2>4, <2>6, <2>7 DEF Delivery
    <2> QED
      BY <1>1, <1>2, <2>5, <2>8
         DEF WireInv, Written, RequestIntact, ResultIntact
  <1> QED
    BY <1>7, <1>8

(* A piece of the payload (net_service.cpp 89-94).                            *)
LEMMA ReadPayloadStep ==
  ASSUME Serializer, WireInv, NEW n, ReadPayload(n)
  PROVE  WireInv'
  <1> DEFINE received == payload \o SubSeq(stream, 1, n)
             left == SubSeq(stream, n + 1, Len(stream))
  <1>1. /\ phase \in {"request", "response"} /\ id \in DOMAIN Calls
        /\ header # <<>> /\ header = Sent.header
        /\ payload \in Bytes /\ stream \in Bytes
        /\ payload \o stream = Sent.payload
    BY DEF ReadPayload, PayloadMissing, WireInv, WireTypeOK, Written, Delivery,
           Receiving
  <1>2. /\ payload' = received /\ stream' = left
        /\ UNCHANGED <<id, phase, data, header, arguments, result, failure>>
        /\ n \in Pieces(Field(header, "payload_len") - Len(payload))
    BY DEF ReadPayload
  <1>3. n \in 1..Len(stream)
    <2>1. /\ Field(header, "payload_len") \in Nat /\ Len(payload) \in Nat
          /\ Len(stream) \in Nat
      BY <1>1, Received DEF Receiving
    <2> QED
      BY <1>2, <2>1 DEF Pieces
  <1>4. /\ received \in Bytes /\ left \in Bytes
        /\ received \o left = payload \o stream
    BY <1>1, <1>3, PieceMoves
  <1> HIDE DEF received, left
  <1>5. WireTypeOK'
    BY <1>1, <1>2, <1>4 DEF WireInv, WireTypeOK
  <1>6. Sent' = Sent
    BY <1>2 DEF Sent
  <1>7. Delivery'
    BY <1>1, <1>2, <1>4, <1>6 DEF Delivery
  <1> QED
    BY <1>1, <1>2, <1>5, <1>7 DEF WireInv, Written, RequestIntact, ResultIntact

(* The arguments are read (rpc_mapper.cpp 15-46): the function is called.     *)
LEMMA HandleRequestStep ==
  ASSUME Serializer, WireInv, HandleRequest
  PROVE  /\ WireInv' /\ phase' = "running"
         /\ failure' = IF Field(header, "payload_len") > BUFFER_SIZE - HeaderSize
                       THEN "payload_len" ELSE failure
  <1>1. /\ phase = "request" /\ Complete /\ header # <<>> /\ Receiving
    BY DEF HandleRequest, Complete, Receiving
  <1>2. /\ payload = RequestPayload(id) /\ id \in DOMAIN Calls
        /\ Field(header, "rpc_type") = id
    BY <1>1, Received DEF Sent
  <1>3. /\ header = RequestHeader(id)
        /\ ~Overflows(Calls[id].params, Calls[id].args)
    BY <1>1 DEF WireInv, Delivery, Sent, Written
  <1>4. ReadsBack(Struct(Calls[id].params), payload, Calls[id].args)
    BY <1>2, <1>3 DEF Serializer, MessagesReadBack, RequestPayload
  <1>5. /\ Arrived(Struct(Calls[id].params), Calls[id].args, arguments')
        /\ phase' = "running"
        /\ failure' = Asserted
        /\ UNCHANGED <<id, stream, data, payload, header, result>>
    BY <1>2, <1>4 DEF HandleRequest, ReadsBack
  <1>6. WireTypeOK'
    BY <1>5 DEF WireInv, WireTypeOK, Phase, Asserted
  <1>7. RequestIntact'
    BY <1>3, <1>5 DEF RequestIntact, RequestHeader, Arrived
  <1> QED
    BY <1>2, <1>5, <1>6, <1>7
       DEF WireInv, Written, Delivery, Receiving, ResultIntact, Asserted

(* The final suspension answers (task.ipp, task.cpp).                         *)
LEMMA SendResponseStep ==
  ASSUME Serializer, WireInv, SendResponse
  PROVE  WireInv'
  <1> DEFINE ret == <<Calls[id].ret>>
             value == <<Calls[id].result>>
  <1>1. /\ phase = "running" /\ id \in DOMAIN Calls /\ header = RequestHeader(id)
        /\ UNCHANGED <<id, arguments, result>>
    BY DEF SendResponse, WireInv, Written, RequestIntact
  <1>2. Field(header, "rpc_id") = CoroId /\ Field(header, "rpc_type") = id
    BY <1>1, Fields DEF RequestHeader
  <1>3. HeaderOf(RESPONSE, Field(header, "rpc_id"), Field(header, "rpc_type"),
                 ServerPort, PayloadSize(ret, value)) = ResponseHeader(id)
    BY <1>2 DEF ResponseHeader
  <1>4. \/ Stop("exception")
        \/ /\ ~Overflows(ret, value)
           /\ Connect(Message(ResponseHeader(id), ret, value))
           /\ phase' = "response" /\ UNCHANGED failure
    BY <1>3 DEF SendResponse
  <1>5. CASE Stop("exception")
    BY <1>1, <1>5, StopStep
  <1>6. CASE /\ ~Overflows(ret, value)
             /\ Connect(Message(ResponseHeader(id), ret, value))
             /\ phase' = "response" /\ UNCHANGED failure
    <2>1. /\ Serialize(PackageHeader, ResponseHeader(id)) \in Bytes
          /\ ResponsePayload(id) \in Bytes
      BY <1>1, Messages DEF Serializer
    <2>2. Connect(Serialize(PackageHeader, ResponseHeader(id)) \o ResponsePayload(id))
      BY <1>6 DEF Message, ResponsePayload
    <2>3. Sent' = [header |-> ResponseHeader(id), payload |-> ResponsePayload(id)]
      BY <1>1, <1>6 DEF Sent, ResponseHeader, ResponsePayload
    <2>4. Written'
      BY <1>1, <1>6 DEF Written
    <2> QED
      BY <1>1, <1>6, <2>1, <2>2, <2>3, <2>4, ConnectStep
  <1> QED
    BY <1>4, <1>5, <1>6

(* The result is read (async_action.ipp 96-123).                              *)
LEMMA HandleResponseStep ==
  ASSUME Serializer, WireInv, HandleResponse
  PROVE  /\ WireInv' /\ phase' = "answered"
         /\ failure' = IF Field(header, "payload_len") > BUFFER_SIZE - HeaderSize
                       THEN "payload_len" ELSE failure
  <1>1. /\ phase = "response" /\ Complete /\ header # <<>> /\ Receiving
    BY DEF HandleResponse, Complete, Receiving
  <1>2. /\ payload = ResponsePayload(id) /\ id \in DOMAIN Calls
        /\ Field(header, "rpc_id") = CoroId
    BY <1>1, Received DEF Sent
  <1>3. ~Overflows(<<Calls[id].ret>>, <<Calls[id].result>>)
    BY <1>1 DEF WireInv, Written
  <1>4. ReadsBack(Calls[id].ret, payload, Calls[id].result)
    BY <1>2, <1>3 DEF Serializer, MessagesReadBack, ResponsePayload
  <1>5. /\ Len(result') = 1 /\ Arrived(Calls[id].ret, Calls[id].result, result'[1])
        /\ phase' = "answered"
        /\ failure' = Asserted
        /\ UNCHANGED <<id, stream, data, payload, header, arguments>>
    BY <1>2, <1>4 DEF HandleResponse, ReadsBack
  <1>6. WireTypeOK'
    BY <1>5 DEF WireInv, WireTypeOK, Phase, Asserted
  <1> QED
    BY <1>2, <1>5, <1>6
       DEF WireInv, Written, Delivery, Receiving, RequestIntact, ResultIntact, Asserted

(* A connection that breaks (net_service.cpp 124-131).                        *)
LEMMA ConnectionLostStep ==
  ASSUME WireInv, ConnectionLost
  PROVE  WireInv'
  <1>1. /\ phase' = "lost" /\ phase # "idle"
        /\ UNCHANGED <<id, stream, data, payload, header, arguments, result, failure>>
    BY DEF ConnectionLost, Receiving
  <1>2. WireTypeOK'
    BY <1>1 DEF WireInv, WireTypeOK, Phase
  <1> QED
    BY <1>1, <1>2 DEF WireInv, Written, Delivery, Receiving, RequestIntact,
                      ResultIntact

LEMMA WireStep ==
  ASSUME Serializer, WireInv, [WireNext]_wireVars
  PROVE  WireInv'
  <1>1. CASE \E f \in DOMAIN Calls : SendRequest(f)
    BY <1>1, SendRequestStep
  <1>2. CASE \E n \in 1..HeaderSize : ReadHeader(n)
    BY <1>2, ReadHeaderStep
  <1>3. CASE \E n \in 1..Len(stream) : ReadPayload(n)
    BY <1>3, ReadPayloadStep
  <1>4. CASE HandleRequest
    BY <1>4, HandleRequestStep
  <1>5. CASE HandleResponse
    BY <1>5, HandleResponseStep
  <1>6. CASE SendResponse
    BY <1>6, SendResponseStep
  <1>7. CASE ConnectionLost
    BY <1>7, ConnectionLostStep
  <1>8. CASE UNCHANGED wireVars
    BY <1>8 DEF wireVars, WireInv, WireTypeOK, Written, Delivery, Receiving, Sent,
                RequestIntact, ResultIntact
  <1> QED
    BY <1>1, <1>2, <1>3, <1>4, <1>5, <1>6, <1>7, <1>8 DEF WireNext, Receive

(* Between two actions the receiver has a part of the message, and the        *)
(* connection the rest.                                                       *)
LEMMA WireInvariant == WireSpec => []WireInv
  <1>1. WireInit => WireInv
    BY SerializerReads, InitWire
  <1>2. WireInv /\ [WireNext]_wireVars => WireInv'
    BY SerializerReads, WireStep
  <1> QED
    BY <1>1, <1>2, PTL DEF WireSpec

LEMMA ArrivesWhole ==
  ASSUME Serializer, WireInv
  PROVE  WholeMessage
  <1> SUFFICES ASSUME Receiving
               PROVE  /\ Complete <=> stream = <<>>
                      /\ Complete => Len(payload) = Field(header, "payload_len")
    BY DEF WholeMessage
  <1>1. CASE header = <<>>
    <2>1. ~Complete
      BY <1>1 DEF Complete
    <2>2. /\ data \o stream = Serialize(PackageHeader, Sent.header) \o Sent.payload
          /\ Len(data) < HeaderSize /\ id \in DOMAIN Calls
          /\ data \in Bytes /\ stream \in Bytes
      BY <1>1 DEF WireInv, WireTypeOK, Delivery, Written, Receiving
    <2> DEFINE head == Serialize(PackageHeader, Sent.header)
               rest == Sent.payload
    <2>3. head \in Bytes /\ Len(head) = HeaderSize /\ rest \in Bytes
      BY <2>2, Messages DEF Sent, Serializer
    <2>4. data \o stream = head \o rest /\ Len(data) < HeaderSize
      BY <2>2
    <2> HIDE DEF head, rest
    <2>5. /\ Len(data \o stream) = Len(data) + Len(stream)
          /\ Len(head \o rest) = HeaderSize + Len(rest)
          /\ Len(rest) \in Nat /\ Len(data) \in Nat /\ Len(stream) \in Nat
      BY <2>2, <2>3, Joins
    <2>6. HeaderSize \in Nat
      BY DEF Serializer
    <2>7. Len(stream) # 0
      BY <2>5, <2>6, <2>4
    <2>8. stream # <<>>
      BY <2>7, EmptySeq
    <2> QED
      BY <2>1, <2>8
  <1>2. CASE header # <<>>
    <2>1. /\ Field(header, "payload_len") \in Nat
          /\ Len(payload) \in Nat /\ Len(stream) \in Nat
          /\ Len(payload) + Len(stream) = Field(header, "payload_len")
          /\ Complete => stream = <<>>
      BY <1>2, Received
    <2>2. ASSUME stream = <<>> PROVE Complete
      <3>1. Len(stream) = 0
        BY <2>2, EmptySeq
      <3> QED
        BY <1>2, <2>1, <3>1 DEF Complete, PayloadMissing
    <2>3. ASSUME Complete PROVE Len(payload) = Field(header, "payload_len")
      <3>1. Len(stream) = 0
        BY <2>1, <2>3, EmptySeq
      <3> QED
        BY <2>1, <3>1
    <2> QED
      BY <2>1, <2>2, <2>3
  <1> QED
    BY <1>1, <1>2

-----------------------------------------------------------------------------
(* Every state of a call has its types: nothing is read behind the header's   *)
(* size into data, and no assertion but the listed ones fails.                *)
THEOREM WireTypes ==
  WireSpec => []WireTypeOK
  <1>1. WireInv => WireTypeOK
    BY DEF WireInv
  <1> QED
    BY <1>1, WireInvariant, PTL

(* What a caller or the called function writes is what the other one reads,   *)
(* in any types: the headers, the arguments and the result of every call,     *)
(* where these hold no Expected with an error; with one they are still read   *)
(* to their end (serialization.hpp 64-176, error_struct.h 47-105).            *)
THEOREM ReadsWhatIsWritten ==
  WireSpec => []RoundTrip
  <1>1. WireInv => RoundTrip
    BY CallReadsBack DEF WireInv, WireTypeOK, RoundTrip
  <1> QED
    BY <1>1, WireInvariant, PTL

(* receive (net_service.cpp 71-131) has a message exactly when the connection *)
(* has delivered all that was sent, for every division into pieces, and so    *)
(* with one of no payload.                                                    *)
THEOREM MessagesArriveWhole ==
  WireSpec => []WholeMessage
  <1>1. WireInv => WholeMessage
    BY SerializerReads, ArrivesWhole
  <1> QED
    BY <1>1, WireInvariant, PTL

(* The function is called with the arguments of the caller, if there is no    *)
(* Expected with an error in them, and its header names the coroutine, port   *)
(* and function in any case (rpc_mapper.cpp 15-46).                           *)
THEOREM RequestsIntact ==
  WireSpec => []RequestIntact
  <1>1. WireInv => RequestIntact
    BY DEF WireInv
  <1> QED
    BY <1>1, WireInvariant, PTL

(* A caller that is answered has what the function returned, if there is no   *)
(* Expected with an error in that (async_action.ipp 96-123).                  *)
THEOREM ResultsIntact ==
  WireSpec => []ResultIntact
  <1>1. WireInv => ResultIntact
    BY DEF WireInv
  <1> QED
    BY <1>1, WireInvariant, PTL

(* The payload of a message that has come is no longer than receive asserts.  *)
LEMMA PayloadFits ==
  ASSUME Serializer, BuffersSuffice, WireInv, Receiving, header # <<>>
  PROVE  ~(Field(header, "payload_len") > BUFFER_SIZE - HeaderSize)
  <1>1. header = Sent.header /\ id \in DOMAIN Calls
    BY DEF WireInv, Delivery, Written, Receiving
  <1>2. /\ Field(RequestHeader(id), "payload_len") =
             PayloadSize(Calls[id].params, Calls[id].args)
        /\ Field(ResponseHeader(id), "payload_len") =
             PayloadSize(<<Calls[id].ret>>, <<Calls[id].result>>)
    BY Fields DEF RequestHeader, ResponseHeader
  <1>3. Field(header, "payload_len") <= BUFFER_SIZE - HeaderSize
    BY <1>1, <1>2 DEF BuffersSuffice, Sent
  <1>4. Field(header, "payload_len") \in Nat /\ HeaderSize \in Nat
    BY Received DEF Serializer
  <1> QED
    BY <1>3, <1>4 DEF BUFFER_SIZE

LEMMA NothingFails ==
  ASSUME Serializer, BuffersSuffice, WireInv, failure = "none",
         [WireNext]_wireVars
  PROVE  failure' = "none"
  <1>1. ASSUME NEW f \in DOMAIN Calls, SendRequest(f) PROVE failure' = "none"
    <2> DEFINE c == Calls[f]
               size == PayloadSize(c.params, c.args)
               len == Len(Body(c.params, c.args))
    <2>1. HeaderSize \in Nat /\ size \in Nat
      BY DEF Serializer
    <2>2. HeaderSize + size <= LOCAL_BUFFER_SIZE /\ len = size
      BY DEF BuffersSuffice
    <2>3. ~Overflows(c.params, c.args)
      BY <2>1, <2>2 DEF Overflows, Fits
    <2>4. ~(HeaderSize + size > LOCAL_BUFFER_SIZE) /\ ~(len < size)
      BY <2>1, <2>2 DEF LOCAL_BUFFER_SIZE
    <2> HIDE DEF c, size, len
    <2> QED
      BY <1>1, <2>3, <2>4 DEF SendRequest, c, size, len
  <1>2. CASE \E n \in 1..HeaderSize : ReadHeader(n)
    BY <1>2 DEF ReadHeader
  <1>3. CASE \E n \in 1..Len(stream) : ReadPayload(n)
    BY <1>3 DEF ReadPayload
  <1>4. CASE HandleRequest
    BY <1>4, HandleRequestStep, PayloadFits DEF HandleRequest, Complete, Receiving
  <1>5. CASE HandleResponse
    BY <1>5, HandleResponseStep, PayloadFits DEF HandleResponse, Complete, Receiving
  <1>6. CASE SendResponse
    <2>1. id \in DOMAIN Calls
      BY <1>6 DEF SendResponse, WireInv, Written
    <2>2. ~Overflows(<<Calls[id].ret>>, <<Calls[id].result>>)
      BY <2>1 DEF BuffersSuffice, Overflows, Fits
    <2> QED
      BY <1>6, <2>2 DEF SendResponse
  <1>7. CASE ConnectionLost
    BY <1>7 DEF ConnectionLost
  <1>8. CASE UNCHANGED wireVars
    BY <1>8 DEF wireVars
  <1> QED
    BY <1>1, <1>2, <1>3, <1>4, <1>5, <1>6, <1>7, <1>8 DEF WireNext, Receive

(* When there is no Expected in a message, and messages are as short as       *)
(* receive asserts, no assertion about a length and no exception "which       *)
(* should not happen" (serialization.hpp 84) ends a call.                     *)
THEOREM LengthsAgree ==
  ASSUME \A T \in Types : T.kind # "expected",
         ShortMessages
  PROVE  WireSpec => []SizesAgree
  <1>1. Serializer /\ BuffersSuffice
    BY SerializerReads, ShortMessagesSuffice
  <1>2. WireInit => SizesAgree
    BY DEF WireInit, SizesAgree
  <1>3. WireInv /\ SizesAgree /\ [WireNext]_wireVars => SizesAgree'
    BY <1>1, NothingFails DEF SizesAgree
  <1> QED
    BY <1>2, <1>3, WireInvariant, PTL DEF WireSpec
==============================================================================
