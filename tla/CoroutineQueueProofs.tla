------------------------ MODULE CoroutineQueueProofs ------------------------
(* append_to_tail, pop_from_head and fetch_nodes keep a queue and the batch   *)
(* taken from it well linked, and read along the links they behave as a FIFO, *)
(* for any number of frames and both ways a queue is used.                    *)
EXTENDS CoroutineQueue, LinkedQueueProofs

-----------------------------------------------------------------------------
(* WellLinked, with the two lists read off the links. *)
QInv ==
  /\ TypeOK
  /\ IsList(queue, link) /\ IsList(batch, link)
  /\ Members(queue, link) \cap Members(batch, link) = {}
  /\ free = Frames \ (Members(queue, link) \cup Members(batch, link))
  /\ \A f \in free : link[f] = Null

(* What QInv says of one queue, as the steps below use it. *)
LEMMA QueueFacts ==
  ASSUME QInv
  PROVE  /\ queue \in Queues /\ batch \in Queues /\ link \in Heaps
         /\ queue.size \in Nat /\ batch.size \in Nat
         /\ Chain(queue, link) \in [1..queue.size -> Frames]
         /\ Chain(batch, link) \in [1..batch.size -> Frames]
         /\ Members(queue, link) \subseteq Frames
         /\ Members(batch, link) \subseteq Frames
  BY DEF QInv, TypeOK, IsList, Queues, Members

(* Elements of the refinement are the members of the queues. *)
LEMMA ElementsAre ==
  ASSUME QInv
  PROVE  /\ Fifo!Elements(Chain(queue, link)) = Members(queue, link)
         /\ Fifo!Elements(Chain(batch, link)) = Members(batch, link)
  BY QueueFacts DEF Fifo!Elements, Members

(* An append to the queue (common_execute_module.h 15, time_service.cpp 57):  *)
(* the frame comes from its owner, linked to nothing.                         *)
LEMMA AppendStep ==
  ASSUME NEW f \in Frames, QInv, AppendFrame(f)
  PROVE  QInv' /\ Fifo!Put(f)
  <1> DEFINE r == AppendToTail(queue, link, f)
             list == Chain(queue, link)
             n == queue.size
  <1>1. /\ f \in free /\ queue' = r.queue /\ link' = r.link
        /\ free' = free \ {f} /\ batch' = batch
    BY DEF AppendFrame
  <1>2. /\ link[f] = Null /\ f \notin Members(queue, link)
        /\ f \notin Members(batch, link)
    BY <1>1 DEF QInv
  <1>3. /\ IsList(queue', link') /\ link' \in Heaps
        /\ Chain(queue', link') =
             [i \in 1..(n + 1) |-> IF i = n + 1 THEN f ELSE list[i]]
        /\ Members(queue', link') = Members(queue, link) \cup {f}
        /\ \A g \in Frames :
             g # f /\ g \notin Members(queue, link) => link'[g] = link[g]
    <2> HIDE DEF r
    <2>1. IsList(queue, link) /\ link \in Heaps
      BY DEF QInv, TypeOK
    <2> QED
      BY <1>1, <1>2, <2>1, AppendList DEF r
  <1> HIDE DEF r
  <1>4. \A g \in Members(batch, link) : link'[g] = link[g]
    BY <1>2, <1>3, QueueFacts DEF QInv
  <1>5. IsList(batch', link') /\ Chain(batch', link') = Chain(batch, link)
    <2>1. \A i \in 1..batch.size :
            link'[Chain(batch, link)[i]] = link[Chain(batch, link)[i]]
      BY <1>4 DEF Members
    <2> QED
      BY <1>1, <1>3, <2>1, QueueFacts, KeepsList DEF QInv
  <1>6. Members(batch', link') = Members(batch, link)
    BY <1>1, <1>5 DEF Members
  <1>7. QInv'
    <2>1. TypeOK'
      BY <1>1, <1>3, <1>5 DEF IsList, TypeOK, QInv
    <2>2. \A g \in free' : link'[g] = Null
      BY <1>1, <1>3 DEF QInv, TypeOK
    <2> QED
      BY <1>1, <1>2, <1>3, <1>5, <1>6, <2>1, <2>2 DEF QInv
  <1>8. Chain(queue', link') = Append(list, f)
    <2>1. list \in Seq(Frames) /\ Len(list) = n /\ n \in Nat
      BY QueueFacts, SeqDef, ListEnds
    <2>2. /\ Append(list, f) \in Seq(Frames) /\ Len(Append(list, f)) = n + 1
          /\ \A i \in 1..n : Append(list, f)[i] = list[i]
          /\ Append(list, f)[n + 1] = f
      BY <2>1, AppendProperties
    <2> DEFINE longer == [i \in 1..(n + 1) |-> IF i = n + 1 THEN f ELSE list[i]]
    <2>3. longer \in [1..(n + 1) -> Frames]
      BY QueueFacts
    <2>4. longer \in Seq(Frames) /\ Len(longer) = n + 1
      BY <2>1, <2>3, SeqDef, ListEnds
    <2>5. \A i \in 1..(n + 1) : Append(list, f)[i] = longer[i]
      BY <2>1, <2>2
    <2> HIDE DEF longer
    <2>6. Append(list, f) = longer
      BY <2>2, <2>4, <2>5, SeqEqual
    <2> QED
      BY <1>3, <2>6 DEF longer
  <1>9. Fifo!Put(f)
    BY <1>2, <1>5, <1>8, ElementsAre DEF Fifo!Put
  <1> QED
    BY <1>7, <1>9

(* The list without its first element. *)
LEMMA TailIs ==
  ASSUME NEW n \in Nat, n # 0, NEW s \in [1..n -> Frames]
  PROVE  s # <<>> /\ Tail(s) = [i \in 1..(n - 1) |-> s[i + 1]]
  <1> DEFINE t == [i \in 1..(n - 1) |-> s[i + 1]]
  <1>1. s \in Seq(Frames) /\ Len(s) = n
    BY SeqDef, ListEnds
  <1>2. s # <<>>
    BY <1>1, EmptySeq
  <1>3. /\ Tail(s) \in Seq(Frames) /\ Len(Tail(s)) = n - 1
        /\ \A i \in 1..(n - 1) : Tail(s)[i] = s[i + 1]
    BY <1>1, <1>2, HeadTailProperties
  <1>4. t \in [1..(n - 1) -> Frames] /\ n - 1 \in Nat
    OBVIOUS
  <1>5. t \in Seq(Frames) /\ Len(t) = n - 1
    BY <1>4, SeqDef, ListEnds
  <1>6. \A i \in 1..(n - 1) : Tail(s)[i] = t[i]
    BY <1>3
  <1> HIDE DEF t
  <1>7. Tail(s) = t
    BY <1>3, <1>5, <1>6, SeqEqual
  <1> QED
    BY <1>2, <1>7 DEF t

(* A worker's pop (scheduler.cpp 75): the frame is its owner's again, linked  *)
(* to nothing.                                                                *)
LEMMA PopStep ==
  ASSUME QInv, PopFrame PROVE QInv' /\ Fifo!Take
  <1> DEFINE r == PopFromHead(queue, link)
             f == queue.head
  <1>1. /\ queue.size # 0 /\ queue' = r.queue /\ link' = r.link
        /\ free' = free \cup {f} /\ batch' = batch
    BY DEF PopFrame
  <1>2. /\ IsList(queue', link') /\ link' \in Heaps
        /\ Chain(queue', link') =
             [i \in 1..(queue.size - 1) |-> Chain(queue, link)[i + 1]]
        /\ f \in Members(queue, link)
        /\ Members(queue', link') = Members(queue, link) \ {f}
        /\ \A g \in Frames : link'[g] = IF g = f THEN Null ELSE link[g]
    <2> HIDE DEF r
    <2>1. IsList(queue, link) /\ link \in Heaps
      BY DEF QInv, TypeOK
    <2> QED
      BY <1>1, <2>1, PopList DEF r
  <1> HIDE DEF r
  <1>3. IsList(batch', link') /\ Chain(batch', link') = Chain(batch, link)
    <2>1. \A g \in Members(batch, link) : link'[g] = link[g]
      BY <1>2, QueueFacts DEF QInv
    <2>2. \A i \in 1..batch.size :
            link'[Chain(batch, link)[i]] = link[Chain(batch, link)[i]]
      BY <2>1 DEF Members
    <2> QED
      BY <1>1, <1>2, <2>2, QueueFacts, KeepsList DEF QInv
  <1>4. Members(batch', link') = Members(batch, link)
    BY <1>1, <1>3 DEF Members
  <1>5. QInv'
    <2>1. TypeOK'
      BY <1>1, <1>2, <1>3, QueueFacts DEF IsList, TypeOK, QInv
    <2>2. \A g \in free' : link'[g] = Null
      BY <1>1, <1>2, QueueFacts DEF QInv
    <2>3. free' = Frames \ (Members(queue', link') \cup Members(batch', link'))
      BY <1>1, <1>2, <1>4, QueueFacts DEF QInv
    <2> QED
      BY <1>1, <1>2, <1>3, <1>4, <2>1, <2>2, <2>3 DEF QInv
  <1>6. Fifo!Take
    BY <1>1, <1>2, <1>3, QueueFacts, TailIs DEF Fifo!Take
  <1> QED
    BY <1>5, <1>6

(* The step of a scan that hands one frame of the batch over                  *)
(* (time_service.cpp 106-110) mirrors PopFrame.                               *)
LEMMA HandOverStep ==
  ASSUME QInv, HandOverFrame PROVE QInv' /\ Fifo!HandOver
  <1> DEFINE r == PopFromHead(batch, link)
             f == batch.head
  <1>1. /\ batch.size # 0 /\ batch' = r.queue /\ link' = r.link
        /\ free' = free \cup {f} /\ queue' = queue
    BY DEF HandOverFrame
  <1>2. /\ IsList(batch', link') /\ link' \in Heaps
        /\ Chain(batch', link') =
             [i \in 1..(batch.size - 1) |-> Chain(batch, link)[i + 1]]
        /\ f \in Members(batch, link)
        /\ Members(batch', link') = Members(batch, link) \ {f}
        /\ \A g \in Frames : link'[g] = IF g = f THEN Null ELSE link[g]
    <2> HIDE DEF r
    <2>1. IsList(batch, link) /\ link \in Heaps
      BY DEF QInv, TypeOK
    <2> QED
      BY <1>1, <2>1, PopList DEF r
  <1> HIDE DEF r
  <1>3. IsList(queue', link') /\ Chain(queue', link') = Chain(queue, link)
    <2>1. \A g \in Members(queue, link) : link'[g] = link[g]
      BY <1>2, QueueFacts DEF QInv
    <2>2. \A i \in 1..queue.size :
            link'[Chain(queue, link)[i]] = link[Chain(queue, link)[i]]
      BY <2>1 DEF Members
    <2> QED
      BY <1>1, <1>2, <2>2, QueueFacts, KeepsList DEF QInv
  <1>4. Members(queue', link') = Members(queue, link)
    BY <1>1, <1>3 DEF Members
  <1>5. QInv'
    <2>1. TypeOK'
      BY <1>1, <1>2, <1>3, QueueFacts DEF IsList, TypeOK, QInv
    <2>2. \A g \in free' : link'[g] = Null
      BY <1>1, <1>2, QueueFacts DEF QInv
    <2>3. free' = Frames \ (Members(queue', link') \cup Members(batch', link'))
      BY <1>1, <1>2, <1>4, QueueFacts DEF QInv
    <2> QED
      BY <1>1, <1>2, <1>3, <1>4, <2>1, <2>2, <2>3 DEF QInv
  <1>6. Fifo!HandOver
    BY <1>1, <1>2, <1>3, QueueFacts, TailIs DEF Fifo!HandOver
  <1> QED
    BY <1>5, <1>6

(* What Those selects is what the abstract queue extracts. *)
LEMMA ThoseSublist ==
  ASSUME NEW n \in Nat, NEW s \in [1..n -> Frames], NEW S
  PROVE  Fifo!Sublist(Those(s, S), s, S)
  <1> DEFINE t == Those(s, S)
             m == Cardinality(Places(s, S))
  <1>1. m \in Nat /\ t \in [1..m -> Frames]
    BY ThoseIs
  <1>2. PICK at : Selects(at, t, s, S)
    BY ThoseIs
  <1> HIDE DEF t, m
  <1>3. /\ at \in [1..m -> Places(s, S)]
        /\ \A k \in 1..m : t[k] = s[at[k]]
        /\ \A k, l \in 1..m : k < l => at[k] < at[l]
        /\ \A i \in Places(s, S) : \E k \in 1..m : at[k] = i
    BY <1>2 DEF Selects, m
  <1>4. DOMAIN t = 1..m
    BY <1>1
  <1>5. at \in [DOMAIN t -> DOMAIN s]
    BY <1>3, <1>4 DEF Places
  <1>6. {at[i] : i \in DOMAIN t} = Places(s, S)
    BY <1>3, <1>4
  <1> QED
    BY <1>3, <1>4, <1>5, <1>6 DEF Fifo!Sublist, Places, t

(* A scan (time_service.cpp 97-104) takes its batch out of the list and       *)
(* leaves the rest, both in the order they had.                               *)
LEMMA FetchStep ==
  ASSUME NEW Taken \in SUBSET Frames, QInv, FetchFrames(Taken)
  PROVE  QInv' /\ Fifo!Extract(Taken)
  <1> DEFINE r == FetchNodes(queue, link, Taken)
             s == Chain(queue, link)
  <1>1. /\ queue' = r.queue /\ batch' = r.target /\ link' = r.link
        /\ free' = free /\ batch.size = 0
    BY DEF FetchFrames
  <1>2. Last(s) \in Taken => Members(queue, link) \subseteq Taken
    <2>1. DOMAIN s = 1..queue.size
      BY QueueFacts
    <2> QED
      BY <2>1 DEF FetchFrames, Members
  <1>3. /\ link' \in Heaps
        /\ IsList(queue', link') /\ IsList(batch', link')
        /\ Chain(queue', link') = Those(s, Frames \ Taken)
        /\ Chain(batch', link') = Those(s, Taken)
        /\ Members(queue', link') = Members(queue, link) \ Taken
        /\ Members(batch', link') = Members(queue, link) \cap Taken
        /\ \A g \in Frames :
             g \notin Members(queue, link) => link'[g] = link[g]
    <2> HIDE DEF r
    <2>1. IsList(queue, link) /\ link \in Heaps
      BY DEF QInv, TypeOK
    <2> QED
      BY <1>1, <1>2, <2>1, FetchSplits DEF r
  <1> HIDE DEF r
  <1>4. Members(batch, link) = {} /\ Chain(batch, link) = <<>>
    <2>1. Chain(batch, link) \in [1..0 -> Frames]
      BY <1>1, QueueFacts
    <2>2. Chain(batch, link) \in Seq(Frames) /\ Len(Chain(batch, link)) = 0
      BY <2>1, SeqDef, ListEnds
    <2> QED
      BY <1>1, <2>2, EmptySeq DEF Members
  <1>5. QInv'
    <2>1. TypeOK'
      BY <1>1, <1>3 DEF IsList, TypeOK, QInv
    <2>2. \A g \in free' : link'[g] = Null
      BY <1>1, <1>3 DEF QInv
    <2>3. free' = Frames \ (Members(queue', link') \cup Members(batch', link'))
      BY <1>1, <1>3, <1>4 DEF QInv
    <2> QED
      BY <1>3, <2>1, <2>2, <2>3 DEF QInv
  <1>6. Fifo!Extract(Taken)
    BY <1>3, <1>4, QueueFacts, ThoseSublist DEF Fifo!Extract
  <1> QED
    BY <1>5, <1>6

-----------------------------------------------------------------------------
(* QInv is WellLinked with the lists named. *)
LEMMA QInvWellLinked == QInv => WellLinked
  <1> SUFFICES ASSUME QInv PROVE WellLinked
    OBVIOUS
  <1> DEFINE s == Chain(queue, link)
             t == Chain(batch, link)
  <1>1. /\ s \in [1..queue.size -> Frames] /\ t \in [1..batch.size -> Frames]
        /\ Represents(queue, link, s) /\ Represents(batch, link, t)
        /\ {s[i] : i \in 1..queue.size} \cap {t[i] : i \in 1..batch.size} = {}
        /\ free = Frames \ ({s[i] : i \in 1..queue.size}
                              \cup {t[i] : i \in 1..batch.size})
        /\ \A f \in free : link[f] = Null
    BY DEF QInv, IsList, Members
  <1> HIDE DEF s, t
  <1> QED
    BY <1>1 DEF WellLinked

(* Before the first operation both queues are empty. *)
LEMMA QInvInit == Init => QInv /\ Fifo!Init
  <1> SUFFICES ASSUME Init PROVE QInv /\ Fifo!Init
    OBVIOUS
  <1>1. /\ queue = EmptyQueue /\ batch = EmptyQueue /\ link = Unlinked
        /\ free = Frames
    BY DEF Init
  <1>2. link \in Heaps /\ \A f \in Frames : link[f] = Null
    BY <1>1 DEF Unlinked, Heaps
  <1>3. /\ IsList(EmptyQueue, link) /\ EmptyQueue.size = 0
        /\ Chain(EmptyQueue, link) = [i \in 1..0 |-> Null]
    BY <1>2, EmptyIsList
  <1>4. Members(EmptyQueue, link) = {}
    BY <1>3 DEF Members
  <1>5. QInv
    BY <1>1, <1>2, <1>3, <1>4 DEF QInv, TypeOK, IsList
  <1>6. Chain(EmptyQueue, link) = <<>>
    BY <1>3
  <1> QED
    BY <1>1, <1>5, <1>6 DEF Fifo!Init

(* Every operation keeps QInv and is a step of the abstract queue. *)
LEMMA QueueNext ==
  QInv /\ [Next]_vars =>
    QInv' /\ [Fifo!Next]_<<Chain(queue, link), Chain(batch, link)>>
  <1> SUFFICES ASSUME QInv, [Next]_vars
               PROVE  QInv' /\ [Fifo!Next]_<<Chain(queue, link), Chain(batch, link)>>
    OBVIOUS
  <1>1. CASE \E f \in Frames : AppendFrame(f)
    BY <1>1, AppendStep DEF Fifo!Next
  <1>2. CASE PopFrame
    BY <1>2, PopStep DEF Fifo!Next
  <1>3. CASE \E Taken \in SUBSET Frames : FetchFrames(Taken)
    BY <1>3, FetchStep DEF Fifo!Next
  <1>4. CASE HandOverFrame
    BY <1>4, HandOverStep DEF Fifo!Next
  <1>5. CASE UNCHANGED vars
    BY <1>5 DEF vars, QInv, TypeOK
  <1> QED
    BY <1>1, <1>2, <1>3, <1>4, <1>5 DEF Next

(* Every state of a queue and its batch is one of the type of queue.h 49-60.  *)
THEOREM QueueTypeOK == Spec => []TypeOK
  <1>1. QInv => TypeOK
    BY DEF QInv
  <1> QED
    BY <1>1, QInvInit, QueueNext, PTL DEF Spec

(* Queue and batch are well linked in every reachable state: no frame is lost *)
(* from its list, listed twice or left with a link, whatever the order of     *)
(* append_to_tail, pop_from_head and fetch_nodes (queue.ipp 37-85), as long   *)
(* as fetch_nodes never takes the last frame and leaves another.              *)
THEOREM QueueWellLinked == Spec => []WellLinked
  BY QInvInit, QueueNext, QInvWellLinked, PTL DEF Spec

(* Read along their links, queue and batch implement the abstract FIFO: what  *)
(* is put in comes out in that order, from the head one by one (the           *)
(* scheduler's use) or extracted into a batch (the timer's).                  *)
THEOREM QueueImplementsFifo == Spec => RefinesFifo
  BY QInvInit, QueueNext, PTL DEF Spec, RefinesFifo, Fifo!Spec
=============================================================================
