----------------------------- MODULE LinkedQueue -----------------------------
(* CoroutineQueue (queue.h 49-60, queue.ipp 37-85): an intrusive, singly     *)
(* linked queue of coroutine frames.  A queue is the record of its three     *)
(* members; the links live in the frames (in_queue_link_next_), so every     *)
(* queue of the process shares one heap, the function link.  An operation is *)
(* an operator from a queue and a heap to the pair of their new values.      *)
EXTENDS Naturals, FiniteSets, Sequences

CONSTANTS Frames,   \* the LinkedCoroutine objects
          Null      \* nullptr

ASSUME FramesAssumption == IsFiniteSet(Frames) /\ Null \notin Frames

Queues == [head : Frames \cup {Null}, tail : Frames \cup {Null}, size : Nat]
Heaps  == [Frames -> Frames \cup {Null}]

EmptyQueue == [head |-> Null, tail |-> Null, size |-> 0]
Unlinked   == [f \in Frames |-> Null]

\* Mutant: the new frame is linked but tail_ stays where it was.
AppendToTail_KeepTail(q, link, f) ==
  [queue |-> [head |-> IF q.size = 0 THEN f ELSE q.head,
              tail |-> IF q.size = 0 THEN f ELSE q.tail,
              size |-> q.size + 1],
   link  |-> IF q.size = 0 THEN link ELSE [link EXCEPT ![q.tail] = f]]

(* append_to_tail; its assertion is the property AppendAssert of the client. *)
AppendToTail(q, link, f) ==
  [queue |-> [head |-> IF q.size = 0 THEN f ELSE q.head,
              tail |-> f,
              size |-> q.size + 1],
   link  |-> IF q.size = 0 THEN link ELSE [link EXCEPT ![q.tail] = f]]

\* Mutant: size_ is decremented in the branch and again after it.
PopFromHead_CountTwice(q, link) ==
  [queue |-> [head |-> IF q.head = q.tail THEN Null ELSE link[q.head],
              tail |-> IF q.head = q.tail THEN Null ELSE q.tail,
              size |-> IF q.head = q.tail THEN q.size - 2 ELSE q.size - 1],
   link  |-> [link EXCEPT ![q.head] = Null]]

(* pop_from_head; the frame it returns is q.head. *)
PopFromHead(q, link) ==
  [queue |-> [head |-> IF q.head = q.tail THEN Null ELSE link[q.head],
              tail |-> IF q.head = q.tail THEN Null ELSE q.tail,
              size |-> q.size - 1],
   link  |-> [link EXCEPT ![q.head] = Null]]

(* The frames a walk from head_ along the links visits, in order.  A walk    *)
(* longer than the number of frames would be going round a cycle.            *)
Chain(q, link) ==
  LET steps == 1..Cardinality(Frames)
      next == [f \in Frames \cup {Null} |-> IF f = Null THEN Null ELSE link[f]]
      walk[n \in steps] == IF n = 1 THEN q.head ELSE next[walk[n - 1]]
  IN  [n \in {m \in steps : walk[m] # Null} |-> walk[n]]

(* The elements of the list s that are in S, in the order of s.               *)
Places(s, S) == {i \in DOMAIN s : s[i] \in S}

Those(s, S) ==
  LET Rank(i) == Cardinality({j \in Places(s, S) : j <= i})
  IN  [k \in 1..Cardinality(Places(s, S)) |->
         s[CHOOSE i \in Places(s, S) : Rank(i) = k]]

(* The link of each frame of the list s, the last one pointing nowhere. *)
Linked(s) ==
  [f \in {s[i] : i \in DOMAIN s} |->
     LET i == CHOOSE j \in DOMAIN s : s[j] = f
     IN  IF i = Len(s) THEN Null ELSE s[i + 1]]

First(s) == IF s = <<>> THEN Null ELSE Head(s)
Last(s)  == IF s = <<>> THEN Null ELSE s[Len(s)]

\* Mutant: the link before an unlinked frame is not redirected at the head.
FetchNodes_KeepHead(q, link, Taken) ==
  LET walk  == Chain(q, link)
      kept  == Those(walk, Frames \ Taken)
      taken == Those(walk, Taken)
      size  == q.size - Len(taken)
  IN  [queue  |-> [head |-> IF size = 0 THEN Null ELSE q.head,
                   tail |-> IF size = 0 THEN Null ELSE q.tail,
                   size |-> size],
       target |-> [head |-> First(taken), tail |-> Last(taken),
                   size |-> Len(taken)],
       link   |-> [f \in Frames |->
                     IF f \in DOMAIN Linked(taken) THEN Linked(taken)[f]
                     ELSE IF f \in DOMAIN Linked(kept) THEN Linked(kept)[f]
                     ELSE link[f]]]

\* Mutant: unlinked frames are pushed at the head of the target.
FetchNodes_PushFront(q, link, Taken) ==
  LET walk  == Chain(q, link)
      kept  == Those(walk, Frames \ Taken)
      due   == Those(walk, Taken)
      taken == [i \in 1..Len(due) |-> due[Len(due) + 1 - i]]
      size  == q.size - Len(taken)
  IN  [queue  |-> [head |-> IF size = 0 THEN Null ELSE First(kept),
                   tail |-> IF size = 0 THEN Null ELSE q.tail,
                   size |-> size],
       target |-> [head |-> First(taken), tail |-> Last(taken),
                   size |-> Len(taken)],
       link   |-> [f \in Frames |->
                     IF f \in DOMAIN Linked(taken) THEN Linked(taken)[f]
                     ELSE IF f \in DOMAIN Linked(kept) THEN Linked(kept)[f]
                     ELSE link[f]]]

(* fetch_nodes: unlinks the frames of the walk that satisfy the condition    *)
(* (the set Taken) and appends them to a target queue that is empty when it  *)
(* starts (time_service.cpp 94).  tail_ is only reset when the queue becomes *)
(* empty, whatever was unlinked.                                             *)
FetchNodes(q, link, Taken) ==
  LET walk  == Chain(q, link)
      kept  == Those(walk, Frames \ Taken)
      taken == Those(walk, Taken)
      size  == q.size - Len(taken)
  IN  [queue  |-> [head |-> IF size = 0 THEN Null ELSE First(kept),
                   tail |-> IF size = 0 THEN Null ELSE q.tail,
                   size |-> size],
       target |-> [head |-> First(taken), tail |-> Last(taken),
                   size |-> Len(taken)],
       link   |-> [f \in Frames |->
                     IF f \in DOMAIN Linked(taken) THEN Linked(taken)[f]
                     ELSE IF f \in DOMAIN Linked(kept) THEN Linked(kept)[f]
                     ELSE link[f]]]

(* The representation invariant: queue q on heap link is the list s of its    *)
(* size_ frames.                                                              *)
Represents(q, link, s) ==
  LET n == q.size
  IN  /\ \A i, j \in 1..n : s[i] = s[j] => i = j
      /\ \A i \in 1..n : link[s[i]] = IF i = n THEN Null ELSE s[i + 1]
      /\ q.head = IF n = 0 THEN Null ELSE s[1]
      /\ q.tail = IF n = 0 THEN Null ELSE s[n]
==============================================================================
