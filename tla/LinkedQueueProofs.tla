-------------------------- MODULE LinkedQueueProofs --------------------------
(* What the operations of LinkedQueue do to a queue that is well linked, for  *)
(* any number of frames and of other queues on the same heap.                 *)
EXTENDS LinkedQueue, FiniteSetTheorems, SequenceTheorems, WellFoundedInduction,
        TLAPS

(* Induction over the natural numbers, in the form the proofs use it.         *)
LEMMA LeastNumber ==
  ASSUME NEW S \in SUBSET Nat, S # {}
  PROVE  \E n \in S : \A m \in S : n <= m
  <1> DEFINE R == OpToRel(<, Nat)
  <1>1. IsWellFoundedOn(R, Nat)
    BY NatLessThanWellFounded
  <1>2. \A i, j \in Nat : <<i, j>> \in R <=> i < j
    BY DEF OpToRel
  <1> HIDE DEF R
  <1>3. PICK n \in S : \A m \in S : ~(<<m, n>> \in R)
    BY <1>1, WFMin
  <1>4. \A m \in S : ~(m < n)
    BY <1>2, <1>3
  <1>5. \A m \in S : n <= m
    BY <1>4
  <1> QED
    BY <1>5

(* A list without repetition has at most as many elements as there are.       *)
LEMMA ListBound ==
  ASSUME NEW n \in Nat, NEW s \in [1..n -> Frames],
         \A i, j \in 1..n : s[i] = s[j] => i = j
  PROVE  n <= Cardinality(Frames)
  <1>1. s \in Injection(1..n, Frames)
    BY DEF Injection, IsInjective
  <1>2. IsFiniteSet(1..n) /\ Cardinality(1..n) = n
    BY FS_Interval
  <1> QED
    BY <1>1, <1>2, FS_Injection, FramesAssumption

(* A queue that represents a list is read along its links as that list.       *)
LEMMA ChainIs ==
  ASSUME NEW q \in Queues, NEW heap \in Heaps, NEW s \in [1..q.size -> Frames],
         Represents(q, heap, s)
  PROVE  Chain(q, heap) = s
  <1> DEFINE n == q.size
             steps == 1..Cardinality(Frames)
             next == [f \in Frames \cup {Null} |-> IF f = Null THEN Null ELSE heap[f]]
             Step(g, i) == IF i = 1 THEN q.head ELSE next[g[i - 1]]
             walk == CHOOSE g : g = [i \in steps |-> Step(g, i)]
             list == [i \in steps |-> IF i \in 1..n THEN s[i] ELSE Null]
  <1>1. n \in Nat /\ Cardinality(Frames) \in Nat
    BY FramesAssumption, FS_CardinalityType DEF Queues
  <1>2. n <= Cardinality(Frames)
    BY <1>1, ListBound DEF Represents
  <1>3. Chain(q, heap) = [i \in {m \in steps : walk[m] # Null} |-> walk[i]]
    BY DEF Chain
  <1>4. \A f \in Frames : next[f] = heap[f]
    BY FramesAssumption
  <1>5. next[Null] = Null
    OBVIOUS
  <1> HIDE DEF next
  <1>6. list = [i \in steps |-> Step(list, i)]
    <2> SUFFICES ASSUME NEW i \in steps PROVE list[i] = Step(list, i)
      OBVIOUS
    <2>1. CASE i = 1
      BY <1>1, <1>2, <2>1 DEF Represents
    <2>2. CASE i # 1 /\ i - 1 \in 1..n
      <3>1. i - 1 \in steps /\ list[i - 1] = s[i - 1] /\ s[i - 1] \in Frames
        BY <1>1, <1>2, <2>2
      <3>2. heap[s[i - 1]] = IF i - 1 = n THEN Null ELSE s[i]
        BY <1>1, <2>2 DEF Represents
      <3> QED
        BY <1>1, <1>4, <2>2, <3>1, <3>2
    <2>3. CASE i # 1 /\ i - 1 \notin 1..n
      <3>1. i - 1 \in steps /\ list[i - 1] = Null /\ i \notin 1..n
        BY <1>1, <2>3
      <3> QED
        BY <1>5, <2>3, <3>1
    <2> QED
      BY <2>1, <2>2, <2>3
  <1>7. walk = [i \in steps |-> Step(walk, i)]
    <2> HIDE DEF list, Step
    <2> QED
      BY <1>6
  <1> HIDE DEF walk
  <1>8. \A i \in steps : walk[i] = list[i]
    <2> DEFINE wrong == {i \in steps : walk[i] # list[i]}
    <2>1. SUFFICES ASSUME wrong # {} PROVE FALSE
      OBVIOUS
    <2>2. PICK i \in wrong : \A j \in wrong : i <= j
      <3>1. wrong \in SUBSET Nat
        BY <1>1
      <3> QED
        BY <2>1, <3>1, LeastNumber
    <2>3. i \in steps /\ walk[i] # list[i]
      OBVIOUS
    <2>4. i # 1 => i - 1 \in steps /\ walk[i - 1] = list[i - 1]
      <3>1. i # 1 => i - 1 \in steps /\ ~(i <= i - 1)
        BY <1>1, <2>3
      <3> QED
        BY <2>2, <3>1
    <2>5. walk[i] = Step(walk, i) /\ list[i] = Step(list, i)
      BY <1>6, <1>7, <2>3
    <2> HIDE DEF list
    <2> QED
      BY <2>3, <2>4, <2>5
  <1>9. {m \in steps : walk[m] # Null} = 1..n
    BY <1>1, <1>2, <1>8, FramesAssumption
  <1>10. \A i \in 1..n : walk[i] = s[i]
    BY <1>1, <1>2, <1>8
  <1> QED
    BY <1>3, <1>9, <1>10

(* at leads from the places of the list t, in order, to all the places of s   *)
(* that hold an element of S.                                                 *)
Selects(at, t, s, S) ==
  LET m == Cardinality(Places(s, S))
  IN  /\ at \in [1..m -> Places(s, S)]
      /\ \A k \in 1..m : t[k] = s[at[k]]
      /\ \A k, l \in 1..m : k < l => at[k] < at[l]
      /\ \A i \in Places(s, S) : \E k \in 1..m : at[k] = i

(* Those(s, S) walks the places of s that hold an element of S in order.      *)
LEMMA ThoseIs ==
  ASSUME NEW n \in Nat, NEW s \in [1..n -> Frames], NEW S
  PROVE  LET m == Cardinality(Places(s, S))
         IN  /\ m \in Nat
             /\ Those(s, S) \in [1..m -> Frames]
             /\ \E at : Selects(at, Those(s, S), s, S)
  <1> DEFINE places == Places(s, S)
             m == Cardinality(places)
             Upto(i) == {j \in places : j <= i}
             Rank(i) == Cardinality(Upto(i))
             at == [k \in 1..m |-> CHOOSE i \in places : Rank(i) = k]
  <1>1. places = {i \in 1..n : s[i] \in S}
    BY DEF Places
  <1>2. IsFiniteSet(places) /\ m \in Nat
    <2>1. IsFiniteSet(1..n) /\ places \in SUBSET (1..n)
      BY <1>1, FS_Interval
    <2> QED
      BY <2>1, FS_Subset, FS_CardinalityType
  <1>3. Those(s, S) = [k \in 1..m |-> s[CHOOSE i \in places : Rank(i) = k]]
    BY DEF Those
  <1>4. ASSUME NEW i \in places PROVE Rank(i) \in 1..m
    <2>1. Upto(i) \in SUBSET places /\ i \in Upto(i)
      BY <1>1
    <2> HIDE DEF places, Upto
    <2>2. IsFiniteSet(Upto(i)) /\ Rank(i) <= m
      BY <1>2, <2>1, FS_Subset
    <2>3. Rank(i) \in Nat /\ Rank(i) # 0
      BY <2>1, <2>2, FS_CardinalityType, FS_EmptySet
    <2> QED
      BY <1>2, <2>2, <2>3
  <1>5. ASSUME NEW i \in places, NEW j \in places, i < j PROVE Rank(i) < Rank(j)
    <2>1. Upto(i) \in SUBSET Upto(j) /\ j \in Upto(j) /\ j \notin Upto(i)
      BY <1>1, <1>5
    <2>2. Upto(j) \in SUBSET places
      OBVIOUS
    <2> HIDE DEF places, Upto
    <2>3. Rank(i) \in 1..m /\ Rank(j) \in 1..m
      BY <1>4
    <2>4. IsFiniteSet(Upto(j))
      BY <1>2, <2>2, FS_Subset
    <2>5. Rank(i) <= Rank(j) /\ Rank(i) # Rank(j)
      BY <2>1, <2>4, FS_Subset
    <2> HIDE DEF Rank
    <2> QED
      BY <1>2, <2>3, <2>5
  <1>6. \A i, j \in places : Rank(i) = Rank(j) => i = j
    <2>1. ASSUME NEW i \in places, NEW j \in places, i # j
          PROVE  i < j \/ j < i
      BY <1>1, <2>1
    <2> HIDE DEF Rank, places
    <2>2. ASSUME NEW i \in places, NEW j \in places, i < j
          PROVE  Rank(i) # Rank(j)
      <3>1. Rank(i) < Rank(j) /\ Rank(i) \in Int /\ Rank(j) \in Int
        BY <1>2, <1>4, <1>5, <2>2
      <3> QED
        BY <3>1
    <2> QED
      BY <2>1, <2>2
  <1>7. ASSUME NEW k \in 1..m PROVE \E i \in places : Rank(i) = k
    <2> DEFINE rank == [i \in places |-> Rank(i)]
    <2> HIDE DEF Rank, places
    <2>1. rank \in Injection(places, 1..m)
      BY <1>4, <1>6 DEF Injection, IsInjective
    <2>2. IsFiniteSet(1..m) /\ Cardinality(1..m) = m
      BY <1>2, FS_Interval
    <2>3. rank \in Surjection(places, 1..m)
      BY <2>1, <2>2, FS_Injection
    <2> QED
      BY <2>3 DEF Surjection
  <1> HIDE DEF Rank
  <1>8. \A k \in 1..m : at[k] \in places /\ Rank(at[k]) = k
    BY <1>7
  <1>9. /\ at \in [1..m -> places]
        /\ \A k \in 1..m : Those(s, S)[k] = s[at[k]]
    BY <1>3, <1>8
  <1>10. Those(s, S) \in [1..m -> Frames]
    <2>1. Those(s, S) = [k \in 1..m |-> s[at[k]]]
      BY <1>3
    <2>2. \A k \in 1..m : at[k] \in 1..n
      BY <1>1, <1>9
    <2> HIDE DEF at, places
    <2> QED
      BY <2>1, <2>2
  <1>11. \A k, l \in 1..m : k < l => at[k] < at[l]
    <2> SUFFICES ASSUME NEW k \in 1..m, NEW l \in 1..m, k < l, ~(at[k] < at[l])
                 PROVE  FALSE
      OBVIOUS
    <2> HIDE DEF at
    <2>1. at[k] \in places /\ at[l] \in places
      BY <1>9
    <2>2. at[k] \in 1..n /\ at[l] \in 1..n /\ k \in Nat /\ l \in Nat
      BY <1>1, <1>2, <2>1
    <2> HIDE DEF places
    <2>3. at[k] = at[l] \/ at[l] < at[k]
      BY <2>2
    <2>4. at[k] # at[l]
      BY <1>8, <2>2
    <2>5. CASE at[l] < at[k]
      <3>1. Rank(at[l]) < Rank(at[k])
        BY <1>5, <2>1, <2>5
      <3> QED
        BY <1>8, <2>2, <3>1
    <2> QED
      BY <2>3, <2>4, <2>5
  <1>12. \A i \in places : \E k \in 1..m : at[k] = i
    <2> HIDE DEF at, places
    <2> QED
      BY <1>4, <1>6, <1>8
  <1> HIDE DEF at
  <1>13. Selects(at, Those(s, S), s, S)
    BY <1>9, <1>11, <1>12 DEF Selects
  <1> QED
    BY <1>2, <1>10, <1>13

-----------------------------------------------------------------------------
(* A list as a sequence: its length and its ends.                             *)
LEMMA ListEnds ==
  ASSUME NEW m \in Nat, NEW t \in [1..m -> Frames]
  PROVE  /\ Len(t) = m
         /\ First(t) = IF m = 0 THEN Null ELSE t[1]
         /\ Last(t) = IF m = 0 THEN Null ELSE t[m]
  <1>1. t \in Seq(Frames)
    BY SeqDef
  <1>2. Len(t) = m
    <2>1. DOMAIN t = 1..m /\ DOMAIN t = 1..Len(t) /\ Len(t) \in Nat
      BY <1>1, LenProperties
    <2> QED
      BY <2>1
  <1>3. t = <<>> <=> m = 0
    BY <1>1, <1>2, EmptySeq
  <1> QED
    BY <1>1, <1>2, <1>3 DEF First, Last

(* The links of a list without repetition.                                    *)
LEMMA LinkedIs ==
  ASSUME NEW m \in Nat, NEW t \in [1..m -> Frames],
         \A i, j \in 1..m : t[i] = t[j] => i = j
  PROVE  /\ DOMAIN Linked(t) = {t[i] : i \in 1..m}
         /\ \A i \in 1..m : Linked(t)[t[i]] = IF i = m THEN Null ELSE t[i + 1]
  <1>1. DOMAIN t = 1..m /\ Len(t) = m
    BY ListEnds
  <1>2. DOMAIN Linked(t) = {t[i] : i \in 1..m}
    BY <1>1 DEF Linked
  <1>3. ASSUME NEW i \in 1..m
        PROVE  Linked(t)[t[i]] = IF i = m THEN Null ELSE t[i + 1]
    <2> DEFINE place == CHOOSE j \in DOMAIN t : t[j] = t[i]
    <2>1. place = i
      BY <1>1
    <2>2. Linked(t)[t[i]] = IF place = Len(t) THEN Null ELSE t[place + 1]
      BY <1>1 DEF Linked
    <2> HIDE DEF place
    <2> QED
      BY <1>1, <2>1, <2>2
  <1> QED
    BY <1>2, <1>3

(* A queue that is the list its links spell out.                              *)
IsList(q, heap) ==
  /\ q \in Queues
  /\ Chain(q, heap) \in [1..q.size -> Frames]
  /\ Represents(q, heap, Chain(q, heap))

(* What a list occupies.                                                      *)
Members(q, heap) == {Chain(q, heap)[i] : i \in 1..q.size}

(* To show that a queue is a list it is enough to name the list.              *)
LEMMA ListIs ==
  ASSUME NEW q \in Queues, NEW heap \in Heaps, NEW s \in [1..q.size -> Frames],
         Represents(q, heap, s)
  PROVE  IsList(q, heap) /\ Chain(q, heap) = s
  BY ChainIs DEF IsList

(* The empty queue is the empty list.                                         *)
LEMMA EmptyIsList ==
  ASSUME NEW heap \in Heaps
  PROVE  /\ IsList(EmptyQueue, heap)
         /\ EmptyQueue.size = 0 /\ Chain(EmptyQueue, heap) = [i \in 1..0 |-> Null]
  <1> DEFINE s == [i \in 1..0 |-> Null]
  <1>1. EmptyQueue \in Queues /\ EmptyQueue.size = 0
    BY DEF EmptyQueue, Queues
  <1>2. s \in [1..EmptyQueue.size -> Frames]
    BY <1>1
  <1>3. Represents(EmptyQueue, heap, s)
    BY DEF Represents, EmptyQueue
  <1> HIDE DEF s
  <1>4. IsList(EmptyQueue, heap) /\ Chain(EmptyQueue, heap) = s
    BY <1>1, <1>2, <1>3, ListIs
  <1> QED
    BY <1>1, <1>4 DEF s

(* A step that leaves the links of a list's frames alone keeps the list: the  *)
(* queues of the process share one heap, and an operation of one of them may  *)
(* only write the links of its own frames.                                    *)
LEMMA KeepsList ==
  ASSUME NEW q, NEW heap \in Heaps, NEW next \in Heaps, IsList(q, heap),
         \A i \in 1..q.size : next[Chain(q, heap)[i]] = heap[Chain(q, heap)[i]]
  PROVE  IsList(q, next) /\ Chain(q, next) = Chain(q, heap)
  <1> DEFINE s == Chain(q, heap)
  <1>1. q \in Queues /\ s \in [1..q.size -> Frames] /\ Represents(q, heap, s)
    BY DEF IsList
  <1>2. Represents(q, next, s)
    BY <1>1 DEF Represents
  <1> HIDE DEF s
  <1>3. IsList(q, next) /\ Chain(q, next) = s
    BY <1>1, <1>2, ListIs
  <1> QED
    BY <1>3 DEF s

-----------------------------------------------------------------------------
(* append_to_tail (queue.ipp 37-47): a frame that is linked to nothing and    *)
(* not in the list becomes its last one.                                      *)
LEMMA AppendExtends ==
  ASSUME NEW q \in Queues, NEW heap \in Heaps, NEW f \in Frames,
         NEW s \in [1..q.size -> Frames],
         Represents(q, heap, s),
         heap[f] = Null,
         \A i \in 1..q.size : s[i] # f
  PROVE  LET r == AppendToTail(q, heap, f)
             t == [i \in 1..(q.size + 1) |-> IF i = q.size + 1 THEN f ELSE s[i]]
         IN  /\ r.queue \in Queues /\ r.queue.size = q.size + 1
             /\ r.link \in Heaps
             /\ t \in [1..r.queue.size -> Frames]
             /\ Represents(r.queue, r.link, t)
             /\ \A g \in Frames :
                  g # f /\ (\A i \in 1..q.size : s[i] # g) => r.link[g] = heap[g]
  <1> DEFINE n == q.size
             r == AppendToTail(q, heap, f)
             t == [i \in 1..(n + 1) |-> IF i = n + 1 THEN f ELSE s[i]]
  <1>1. n \in Nat
    BY DEF Queues
  <1>2. /\ r.queue = [head |-> IF n = 0 THEN f ELSE q.head, tail |-> f,
                      size |-> n + 1]
        /\ r.link = IF n = 0 THEN heap ELSE [heap EXCEPT ![q.tail] = f]
    BY DEF AppendToTail
  <1>3. n # 0 => q.tail = s[n] /\ q.tail \in Frames
    BY <1>1 DEF Represents
  <1>4. r.queue \in Queues /\ r.queue.size = n + 1
    BY <1>1, <1>2 DEF Queues
  <1>5. r.link \in Heaps
    BY <1>2, <1>3 DEF Heaps
  <1>6. t \in [1..r.queue.size -> Frames]
    BY <1>1, <1>4
  <1>7. \A i, j \in 1..(n + 1) : t[i] = t[j] => i = j
    BY <1>1 DEF Represents
  <1>8. ASSUME NEW g \in Frames
        PROVE  r.link[g] = IF n # 0 /\ g = s[n] THEN f ELSE heap[g]
    BY <1>2, <1>3 DEF Heaps
  <1>9. \A i \in 1..(n + 1) : r.link[t[i]] = IF i = n + 1 THEN Null ELSE t[i + 1]
    <2>1. r.link[t[n + 1]] = Null
      BY <1>1, <1>8
    <2>2. ASSUME NEW i \in 1..n PROVE r.link[t[i]] = t[i + 1]
      <3>1. s[i] \in Frames /\ t[i] = s[i]
        BY <1>1
      <3>2. CASE i = n
        BY <1>1, <1>8, <3>1, <3>2
      <3>3. CASE i # n
        <4>1. s[i] # s[n] /\ heap[s[i]] = s[i + 1] /\ t[i + 1] = s[i + 1]
          BY <1>1, <3>3 DEF Represents
        <4> QED
          BY <1>8, <3>1, <4>1
      <3> QED
        BY <3>2, <3>3
    <2>3. \A i \in 1..(n + 1) : IF i = n + 1 THEN TRUE ELSE i \in 1..n
      BY <1>1
    <2>4. \A i \in 1..n : i # n + 1
      BY <1>1
    <2> HIDE DEF t, r
    <2> QED
      BY <2>1, <2>2, <2>3, <2>4
  <1>10. r.queue.head = t[1] /\ r.queue.tail = t[n + 1]
    BY <1>1, <1>2 DEF Represents
  <1>11. Represents(r.queue, r.link, t)
    BY <1>1, <1>4, <1>7, <1>9, <1>10 DEF Represents
  <1>12. ASSUME NEW g \in Frames, \A i \in 1..n : s[i] # g
         PROVE  r.link[g] = heap[g]
    BY <1>1, <1>8, <1>12
  <1> QED
    BY <1>4, <1>5, <1>6, <1>11, <1>12

(* pop_from_head (queue.ipp 73-85): the first frame leaves, linked to        *)
(* nothing, and the rest of the list stays.                                  *)
LEMMA PopShortens ==
  ASSUME NEW q \in Queues, NEW heap \in Heaps,
         NEW s \in [1..q.size -> Frames],
         Represents(q, heap, s),
         q.size # 0
  PROVE  LET r == PopFromHead(q, heap)
             t == [i \in 1..(q.size - 1) |-> s[i + 1]]
         IN  /\ r.queue \in Queues /\ r.queue.size = q.size - 1
             /\ r.link \in Heaps
             /\ \A g \in Frames : r.link[g] = IF g = s[1] THEN Null ELSE heap[g]
             /\ q.head = s[1] /\ s[1] \in Frames
             /\ t \in [1..r.queue.size -> Frames]
             /\ Represents(r.queue, r.link, t)
  <1> DEFINE n == q.size
             r == PopFromHead(q, heap)
             t == [i \in 1..(n - 1) |-> s[i + 1]]
  <1>1. n \in Nat /\ n # 0
    BY DEF Queues
  <1>2. /\ s[1] \in Frames /\ s[n] \in Frames
        /\ q.head = s[1] /\ q.tail = s[n]
        /\ s[1] = s[n] <=> n = 1
    BY <1>1 DEF Represents
  <1>3. /\ r.link \in Heaps
        /\ \A g \in Frames : r.link[g] = IF g = s[1] THEN Null ELSE heap[g]
    BY <1>2 DEF PopFromHead, Heaps
  <1>4. r.queue = [head |-> IF n = 1 THEN Null ELSE heap[s[1]],
                   tail |-> IF n = 1 THEN Null ELSE s[n],
                   size |-> n - 1]
    BY <1>2 DEF PopFromHead
  <1>5. n # 1 => heap[s[1]] = s[2] /\ s[2] \in Frames
    BY <1>1 DEF Represents
  <1>6. r.queue \in Queues /\ r.queue.size = n - 1
    BY <1>1, <1>2, <1>4, <1>5 DEF Queues
  <1>7. t \in [1..(n - 1) -> Frames]
    BY <1>1
  <1>8. \A i, j \in 1..(n - 1) : t[i] = t[j] => i = j
    BY <1>1 DEF Represents
  <1>9. ASSUME NEW i \in 1..(n - 1)
        PROVE  r.link[t[i]] = IF i = n - 1 THEN Null ELSE t[i + 1]
    <2>1. i + 1 \in 1..n /\ t[i] = s[i + 1] /\ s[i + 1] \in Frames
      BY <1>1
    <2>2. s[i + 1] # s[1]
      BY <1>1, <2>1 DEF Represents
    <2>3. r.link[t[i]] = heap[s[i + 1]]
      BY <1>3, <2>1, <2>2 DEF Heaps
    <2>4. heap[s[i + 1]] = IF i + 1 = n THEN Null ELSE s[i + 2]
      BY <1>1, <2>1 DEF Represents
    <2> QED
      BY <1>1, <2>1, <2>3, <2>4
  <1>10. /\ r.queue.head = IF n - 1 = 0 THEN Null ELSE t[1]
         /\ r.queue.tail = IF n - 1 = 0 THEN Null ELSE t[n - 1]
    BY <1>1, <1>4, <1>5
  <1>11. Represents(r.queue, r.link, t)
    <2> HIDE DEF r, t
    <2> QED
      BY <1>6, <1>8, <1>9, <1>10 DEF Represents
  <1> QED
    BY <1>2, <1>3, <1>6, <1>7, <1>11

(* The same of queues that are lists.                                         *)
LEMMA AppendList ==
  ASSUME NEW q, NEW heap \in Heaps, IsList(q, heap), NEW f \in Frames,
         heap[f] = Null, f \notin Members(q, heap)
  PROVE  LET r == AppendToTail(q, heap, f)
         IN  /\ IsList(r.queue, r.link) /\ r.link \in Heaps
             /\ r.queue.size = q.size + 1
             /\ Chain(r.queue, r.link) =
                  [i \in 1..(q.size + 1) |->
                     IF i = q.size + 1 THEN f ELSE Chain(q, heap)[i]]
             /\ Members(r.queue, r.link) = Members(q, heap) \cup {f}
             /\ \A g \in Frames :
                  g # f /\ g \notin Members(q, heap) => r.link[g] = heap[g]
  <1> DEFINE n == q.size
             s == Chain(q, heap)
             r == AppendToTail(q, heap, f)
             t == [i \in 1..(n + 1) |-> IF i = n + 1 THEN f ELSE s[i]]
  <1>1. /\ q \in Queues /\ n \in Nat /\ s \in [1..n -> Frames]
        /\ Represents(q, heap, s)
    BY DEF IsList, Queues
  <1>2. \A i \in 1..n : s[i] # f
    BY DEF Members
  <1> HIDE DEF r, s
  <1>3. /\ r.queue \in Queues /\ r.queue.size = n + 1
        /\ r.link \in Heaps
        /\ t \in [1..r.queue.size -> Frames]
        /\ Represents(r.queue, r.link, t)
        /\ \A g \in Frames :
             g # f /\ (\A i \in 1..n : s[i] # g) => r.link[g] = heap[g]
    BY <1>1, <1>2, AppendExtends DEF r
  <1> HIDE DEF t
  <1>4. IsList(r.queue, r.link) /\ Chain(r.queue, r.link) = t
    BY <1>3, ListIs
  <1>5. {t[i] : i \in 1..(n + 1)} = {s[i] : i \in 1..n} \cup {f}
    <2>1. \A i \in 1..n : t[i] = s[i] /\ i \in 1..(n + 1)
      BY <1>1 DEF t
    <2>2. t[n + 1] = f /\ n + 1 \in 1..(n + 1)
      BY <1>1 DEF t
    <2>3. \A i \in 1..(n + 1) : i = n + 1 \/ i \in 1..n
      BY <1>1
    <2> QED
      BY <2>1, <2>2, <2>3
  <1>6. Members(r.queue, r.link) = Members(q, heap) \cup {f}
    BY <1>3, <1>4, <1>5 DEF Members, s
  <1>7. \A g \in Frames : g # f /\ g \notin Members(q, heap) => r.link[g] = heap[g]
    BY <1>3 DEF Members, s
  <1> QED
    BY <1>3, <1>4, <1>6, <1>7 DEF r, s, t

LEMMA PopList ==
  ASSUME NEW q, NEW heap \in Heaps, IsList(q, heap), q.size # 0
  PROVE  LET r == PopFromHead(q, heap)
         IN  /\ IsList(r.queue, r.link) /\ r.link \in Heaps
             /\ q.size - 1 \in Nat /\ r.queue.size = q.size - 1
             /\ Chain(r.queue, r.link) =
                  [i \in 1..(q.size - 1) |-> Chain(q, heap)[i + 1]]
             /\ q.head \in Members(q, heap) /\ q.head = Chain(q, heap)[1]
             /\ Members(r.queue, r.link) = Members(q, heap) \ {q.head}
             /\ \A g \in Frames :
                  r.link[g] = IF g = q.head THEN Null ELSE heap[g]
  <1> DEFINE n == q.size
             s == Chain(q, heap)
             r == PopFromHead(q, heap)
             t == [i \in 1..(n - 1) |-> s[i + 1]]
  <1>1. /\ q \in Queues /\ n \in Nat /\ s \in [1..n -> Frames]
        /\ Represents(q, heap, s)
    BY DEF IsList, Queues
  <1>2. n - 1 \in Nat
    BY <1>1
  <1> HIDE DEF r, s
  <1>3. /\ r.queue \in Queues /\ r.queue.size = n - 1
        /\ r.link \in Heaps
        /\ \A g \in Frames : r.link[g] = IF g = s[1] THEN Null ELSE heap[g]
        /\ q.head = s[1] /\ s[1] \in Frames
        /\ t \in [1..r.queue.size -> Frames]
        /\ Represents(r.queue, r.link, t)
    BY <1>1, PopShortens DEF r
  <1>4. {t[i] : i \in 1..(n - 1)} = {s[i] : i \in 1..n} \ {s[1]}
    <2>1. ASSUME NEW i \in 1..n, s[i] # s[1]
          PROVE  \E j \in 1..(n - 1) : t[j] = s[i]
      <3>1. i - 1 \in 1..(n - 1) /\ t[i - 1] = s[i]
        BY <1>1, <2>1
      <3> QED
        BY <3>1
    <2>2. ASSUME NEW j \in 1..(n - 1)
          PROVE  t[j] # s[1] /\ \E i \in 1..n : t[j] = s[i]
      <3>1. j + 1 \in 1..n /\ t[j] = s[j + 1] /\ j + 1 # 1 /\ 1 \in 1..n
        BY <1>1
      <3> QED
        BY <1>1, <3>1 DEF Represents
    <2> HIDE DEF t
    <2> QED
      BY <2>1, <2>2
  <1> HIDE DEF t
  <1>5. IsList(r.queue, r.link) /\ Chain(r.queue, r.link) = t
    BY <1>3, ListIs
  <1>6. 1 \in 1..n
    BY <1>1
  <1>7. /\ Members(r.queue, r.link) = Members(q, heap) \ {q.head}
        /\ q.head \in Members(q, heap)
    <2>1. /\ Members(r.queue, r.link) = {t[i] : i \in 1..(n - 1)}
          /\ Members(q, heap) = {s[i] : i \in 1..n}
      BY <1>3, <1>5 DEF Members, s
    <2> QED
      BY <1>3, <1>4, <1>6, <2>1
  <1> QED
    BY <1>1, <1>3, <1>5, <1>7, <1>2 DEF r, s, t

(* Two parts of a sequence have the length of the whole.                      *)
LEMMA TwoParts ==
  ASSUME NEW n \in Nat, NEW A, NEW B, A \cup B = 1..n, A \cap B = {}
  PROVE  Cardinality(A) + Cardinality(B) = n
  <1>1. IsFiniteSet(1..n) /\ Cardinality(1..n) = n
    BY FS_Interval
  <1>2. A \in SUBSET (1..n) /\ B \in SUBSET (1..n)
    OBVIOUS
  <1>3. IsFiniteSet(A) /\ IsFiniteSet(B)
    BY <1>1, <1>2, FS_Subset
  <1>4. Cardinality(A) \in Nat /\ Cardinality(B) \in Nat
    BY <1>3, FS_CardinalityType
  <1>5. Cardinality(A \cup B) =
          Cardinality(A) + Cardinality(B) - Cardinality(A \cap B)
    BY <1>3, FS_Union
  <1>6. Cardinality(A \cap B) = 0
    BY FS_EmptySet
  <1>7. Cardinality(A \cup B) = n
    BY <1>1
  <1> QED
    BY <1>4, <1>5, <1>6, <1>7

(* fetch_nodes (queue.ipp 49-71) splits a list, as long as the last frame     *)
(* only leaves when all leave: else tail_ is left on a frame that is gone.    *)
LEMMA FetchSplits ==
  ASSUME NEW q, NEW heap \in Heaps, IsList(q, heap), NEW T,
         Last(Chain(q, heap)) \in T => Members(q, heap) \subseteq T
  PROVE  LET s == Chain(q, heap)
             r == FetchNodes(q, heap, T)
         IN  /\ r.link \in Heaps
             /\ IsList(r.queue, r.link) /\ IsList(r.target, r.link)
             /\ Chain(r.queue, r.link) = Those(s, Frames \ T)
             /\ Chain(r.target, r.link) = Those(s, T)
             /\ Members(r.queue, r.link) = Members(q, heap) \ T
             /\ Members(r.target, r.link) = Members(q, heap) \cap T
             /\ \A g \in Frames :
                  g \notin Members(q, heap) => r.link[g] = heap[g]
  <1> DEFINE n == q.size
             s == Chain(q, heap)
             r == FetchNodes(q, heap, T)
             stay == Places(s, Frames \ T)
             go == Places(s, T)
             kept == Those(s, Frames \ T)
             taken == Those(s, T)
             k == Cardinality(stay)
             m == Cardinality(go)
  <1>1. /\ q \in Queues /\ n \in Nat /\ s \in [1..n -> Frames]
        /\ Represents(q, heap, s)
    BY DEF IsList, Queues
  <1>2. \A i, j \in 1..n : s[i] = s[j] => i = j
    BY <1>1 DEF Represents
  <1>3. r = [queue  |-> [head |-> IF n - Len(taken) = 0 THEN Null ELSE First(kept),
                         tail |-> IF n - Len(taken) = 0 THEN Null ELSE q.tail,
                         size |-> n - Len(taken)],
             target |-> [head |-> First(taken), tail |-> Last(taken),
                         size |-> Len(taken)],
             link   |-> [f \in Frames |->
                           IF f \in DOMAIN Linked(taken) THEN Linked(taken)[f]
                           ELSE IF f \in DOMAIN Linked(kept) THEN Linked(kept)[f]
                           ELSE heap[f]]]
    BY DEF FetchNodes
  <1>4. Last(s) = IF n = 0 THEN Null ELSE s[n]
    BY <1>1, ListEnds
  <1>5. n # 0 /\ s[n] \in T => \A i \in 1..n : s[i] \in T
    BY <1>4 DEF Members
  <1>6. Members(q, heap) = {s[i] : i \in 1..n}
    BY DEF Members
  <1> HIDE DEF r, s
  <1>7. /\ stay = {i \in 1..n : s[i] \in Frames \ T}
        /\ go = {i \in 1..n : s[i] \in T}
    BY <1>1 DEF Places
  <1>8. PICK up : Selects(up, kept, s, Frames \ T)
    BY <1>1, ThoseIs
  <1>9. /\ up \in [1..k -> stay]
        /\ \A i \in 1..k : kept[i] = s[up[i]]
        /\ \A i, j \in 1..k : i < j => up[i] < up[j]
        /\ \A i \in stay : \E j \in 1..k : up[j] = i
    BY <1>8 DEF Selects
  <1>10. k \in Nat /\ kept \in [1..k -> Frames]
    BY <1>1, ThoseIs
  <1>11. PICK at : Selects(at, taken, s, T)
    BY <1>1, ThoseIs
  <1>12. /\ at \in [1..m -> go]
         /\ \A i \in 1..m : taken[i] = s[at[i]]
         /\ \A i, j \in 1..m : i < j => at[i] < at[j]
         /\ \A i \in go : \E j \in 1..m : at[j] = i
    BY <1>11 DEF Selects
  <1>13. m \in Nat /\ taken \in [1..m -> Frames]
    BY <1>1, ThoseIs
  <1>14. k + m = n
    <2>1. stay \cup go = 1..n /\ stay \cap go = {}
      BY <1>1, <1>7
    <2> HIDE DEF stay, go
    <2> QED
      BY <1>1, <2>1, TwoParts
  <1> HIDE DEF kept, taken, k, m, stay, go
  <1>15. \A i \in 1..k : up[i] \in 1..n /\ s[up[i]] \in Frames \ T
    BY <1>7, <1>9
  <1>16. \A i \in 1..m : at[i] \in 1..n /\ s[at[i]] \in T
    BY <1>7, <1>12
  <1>17. /\ \A i \in 1..n : s[i] \in Frames \ T => \E j \in 1..k : up[j] = i
         /\ \A i \in 1..n : s[i] \in T => \E j \in 1..m : at[j] = i
    BY <1>7, <1>9, <1>12
  <1>18. \A i, j \in 1..k : kept[i] = kept[j] => i = j
    <2> SUFFICES ASSUME NEW i \in 1..k, NEW j \in 1..k, kept[i] = kept[j], i # j
                 PROVE  FALSE
      OBVIOUS
    <2>1. up[i] = up[j]
      BY <1>2, <1>9, <1>15
    <2>2. i < j \/ j < i
      BY <1>10
    <2>3. up[i] \in Nat /\ up[j] \in Nat
      BY <1>1, <1>15
    <2> QED
      BY <1>9, <2>1, <2>2, <2>3
  <1>19. \A i, j \in 1..m : taken[i] = taken[j] => i = j
    <2> SUFFICES ASSUME NEW i \in 1..m, NEW j \in 1..m, taken[i] = taken[j], i # j
                 PROVE  FALSE
      OBVIOUS
    <2>1. at[i] = at[j]
      BY <1>2, <1>12, <1>16
    <2>2. i < j \/ j < i
      BY <1>13
    <2>3. at[i] \in Nat /\ at[j] \in Nat
      BY <1>1, <1>16
    <2> QED
      BY <1>12, <2>1, <2>2, <2>3
  <1>20. {kept[i] : i \in 1..k} = {s[i] : i \in 1..n} \ T
    <2>1. \A i \in 1..k : kept[i] \in {s[j] : j \in 1..n} \ T
      BY <1>9, <1>15
    <2>2. \A j \in 1..n : s[j] \notin T => \E i \in 1..k : kept[i] = s[j]
      BY <1>1, <1>9, <1>17
    <2> QED
      BY <2>1, <2>2
  <1>21. {taken[i] : i \in 1..m} = {s[i] : i \in 1..n} \cap T
    <2>1. \A i \in 1..m : taken[i] \in {s[j] : j \in 1..n} \cap T
      BY <1>12, <1>16
    <2>2. \A j \in 1..n : s[j] \in T => \E i \in 1..m : taken[i] = s[j]
      BY <1>1, <1>12, <1>17
    <2> QED
      BY <2>1, <2>2
  <1>22. /\ DOMAIN Linked(kept) = {kept[i] : i \in 1..k}
         /\ \A i \in 1..k :
              Linked(kept)[kept[i]] = IF i = k THEN Null ELSE kept[i + 1]
    BY <1>10, <1>18, LinkedIs
  <1>23. /\ DOMAIN Linked(taken) = {taken[i] : i \in 1..m}
         /\ \A i \in 1..m :
              Linked(taken)[taken[i]] = IF i = m THEN Null ELSE taken[i + 1]
    BY <1>13, <1>19, LinkedIs
  <1>24. /\ Len(taken) = m /\ n - m = k
         /\ First(kept) = IF k = 0 THEN Null ELSE kept[1]
         /\ First(taken) = IF m = 0 THEN Null ELSE taken[1]
         /\ Last(taken) = IF m = 0 THEN Null ELSE taken[m]
    BY <1>1, <1>10, <1>13, <1>14, ListEnds
  <1>25. /\ r.queue = [head |-> IF k = 0 THEN Null ELSE First(kept),
                       tail |-> IF k = 0 THEN Null ELSE q.tail,
                       size |-> k]
         /\ r.target = [head |-> First(taken), tail |-> Last(taken), size |-> m]
         /\ \A f \in Frames :
              r.link[f] = IF f \in DOMAIN Linked(taken) THEN Linked(taken)[f]
                          ELSE IF f \in DOMAIN Linked(kept) THEN Linked(kept)[f]
                          ELSE heap[f]
         /\ DOMAIN r.link = Frames
         /\ r.link = [f \in Frames |-> r.link[f]]
    BY <1>3, <1>24
  <1> HIDE DEF r
  <1>26. \A i \in 1..m : r.link[taken[i]] = IF i = m THEN Null ELSE taken[i + 1]
    BY <1>13, <1>23, <1>25
  <1>27. \A i \in 1..k : r.link[kept[i]] = IF i = k THEN Null ELSE kept[i + 1]
    <2> SUFFICES ASSUME NEW i \in 1..k
                 PROVE  r.link[kept[i]] = IF i = k THEN Null ELSE kept[i + 1]
      OBVIOUS
    <2>1. kept[i] \in Frames /\ kept[i] \notin T
      BY <1>9, <1>10, <1>15
    <2>2. kept[i] \notin DOMAIN Linked(taken) /\ kept[i] \in DOMAIN Linked(kept)
      BY <1>21, <1>22, <1>23, <2>1
    <2> QED
      BY <1>22, <1>25, <2>1, <2>2
  <1>28. \A g \in Frames :
           g \notin {s[i] : i \in 1..n} => r.link[g] = heap[g]
    BY <1>20, <1>21, <1>22, <1>23, <1>25
  <1>29. \A g \in Frames : r.link[g] \in Frames \cup {Null}
    <2> SUFFICES ASSUME NEW g \in Frames PROVE r.link[g] \in Frames \cup {Null}
      OBVIOUS
    <2>1. CASE g \in {taken[i] : i \in 1..m}
      <3>1. PICK i \in 1..m : g = taken[i]
        BY <2>1
      <3>2. i = m \/ taken[i + 1] \in Frames
        BY <1>13
      <3> QED
        BY <1>26, <3>1, <3>2
    <2>2. CASE g \in {kept[i] : i \in 1..k}
      <3>1. PICK i \in 1..k : g = kept[i]
        BY <2>2
      <3>2. i = k \/ kept[i + 1] \in Frames
        BY <1>10
      <3> QED
        BY <1>27, <3>1, <3>2
    <2>3. CASE g \notin {taken[i] : i \in 1..m} /\ g \notin {kept[i] : i \in 1..k}
      BY <1>22, <1>23, <1>25, <2>3 DEF Heaps
    <2> QED
      BY <2>1, <2>2, <2>3
  <1>30. r.link \in Heaps
    BY <1>25, <1>29 DEF Heaps
  <1>31. k # 0 => q.tail = kept[k] /\ q.tail \in Frames
    <2> SUFFICES ASSUME k # 0 PROVE q.tail = kept[k] /\ q.tail \in Frames
      OBVIOUS
    <2>1. n # 0 /\ n \in 1..n /\ k \in 1..k /\ q.tail = s[n]
      BY <1>1, <1>10, <1>13, <1>14 DEF Represents
    <2>2. s[n] \notin T
      BY <1>5, <1>15, <2>1
    <2>3. PICK j \in 1..k : up[j] = n
      BY <1>1, <1>17, <2>1, <2>2
    <2>4. j = k
      <3>1. j = k \/ j < k
        BY <1>10
      <3>2. up[k] \in 1..n
        BY <1>15, <2>1
      <3> QED
        BY <1>1, <1>9, <2>1, <2>3, <3>1, <3>2
    <2> QED
      BY <1>1, <1>9, <2>1, <2>3, <2>4
  <1>32. r.queue \in Queues /\ r.queue.size = k
    <2>1. k # 0 => kept[1] \in Frames
      BY <1>10
    <2> QED
      BY <1>10, <1>24, <1>25, <1>31, <2>1 DEF Queues
  <1>33. r.target \in Queues /\ r.target.size = m
    <2>1. m # 0 => taken[1] \in Frames /\ taken[m] \in Frames
      BY <1>13
    <2> QED
      BY <1>13, <1>24, <1>25, <2>1 DEF Queues
  <1>34. Represents(r.queue, r.link, kept)
    <2>1. /\ r.queue.head = IF k = 0 THEN Null ELSE kept[1]
          /\ r.queue.tail = IF k = 0 THEN Null ELSE kept[k]
      BY <1>24, <1>25, <1>31
    <2> QED
      BY <1>18, <1>27, <1>32, <2>1 DEF Represents
  <1>35. Represents(r.target, r.link, taken)
    <2>1. /\ r.target.head = IF m = 0 THEN Null ELSE taken[1]
          /\ r.target.tail = IF m = 0 THEN Null ELSE taken[m]
      BY <1>24, <1>25
    <2> QED
      BY <1>19, <1>26, <1>33, <2>1 DEF Represents
  <1>36. IsList(r.queue, r.link) /\ Chain(r.queue, r.link) = kept
    BY <1>10, <1>30, <1>32, <1>34, ListIs
  <1>37. IsList(r.target, r.link) /\ Chain(r.target, r.link) = taken
    BY <1>13, <1>30, <1>33, <1>35, ListIs
  <1>38. /\ Members(r.queue, r.link) = Members(q, heap) \ T
         /\ Members(r.target, r.link) = Members(q, heap) \cap T
    <2>1. Members(r.queue, r.link) = {kept[i] : i \in 1..k}
      BY <1>32, <1>36 DEF Members
    <2>2. Members(r.target, r.link) = {taken[i] : i \in 1..m}
      BY <1>33, <1>37 DEF Members
    <2> QED
      BY <1>6, <1>20, <1>21, <2>1, <2>2
  <1>39. \A g \in Frames : g \notin Members(q, heap) => r.link[g] = heap[g]
    BY <1>6, <1>28
  <1> QED
    BY <1>30, <1>36, <1>37, <1>38, <1>39 DEF r, s, kept, taken
==============================================================================
