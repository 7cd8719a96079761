------------------------------ MODULE FifoQueue ------------------------------
(* What a CoroutineQueue promises its users, without pointers: a sequence of *)
(* distinct frames, taken out in the order they were put in, either one by   *)
(* one from the head (the scheduler) or by extracting those that satisfy a   *)
(* condition into a batch that is then handed over in order (the timer).     *)
EXTENDS Naturals, Sequences

CONSTANT Frames

VARIABLES items,   \* the frames in the queue
          batch    \* the frames extracted and not handed over yet

Elements(s) == {s[i] : i \in DOMAIN s}

Init == items = <<>> /\ batch = <<>>

Put(f) == /\ f \notin Elements(items) \cup Elements(batch)
          /\ items' = Append(items, f)
          /\ UNCHANGED batch

Take == /\ items # <<>>
        /\ items' = Tail(items)
        /\ UNCHANGED batch

(* t lists the elements of s that are in S, in the order of s. *)
Sublist(t, s, S) ==
  \E at \in [DOMAIN t -> DOMAIN s] :
    /\ \A i, j \in DOMAIN t : i < j => at[i] < at[j]
    /\ \A i \in DOMAIN t : t[i] = s[at[i]]
    /\ {at[i] : i \in DOMAIN t} = {i \in DOMAIN s : s[i] \in S}

Extract(S) == /\ batch = <<>>
              /\ Sublist(items', items, Frames \ S)
              /\ Sublist(batch', items, S)

HandOver == /\ batch # <<>>
            /\ batch' = Tail(batch)
            /\ UNCHANGED items

Next == \/ \E f \in Frames : Put(f)
        \/ Take
        \/ \E S \in SUBSET Frames : Extract(S)
        \/ HandOver

Spec == Init /\ [][Next]_<<items, batch>>
==============================================================================
