--------------------------- MODULE CoroutineQueue ---------------------------
(* A CoroutineQueue under its operations.  FetchPolicy says which:           *)
(*   "none"     the scheduler's: append_to_tail and pop_from_head            *)
(*   "tailLast" fetch_nodes as well, on a bucket whose last frame is never   *)
(*             due before another one, as when one worker runs all           *)
(*             coroutines and they sleep for the same time.  When the last   *)
(*             frame leaves and another one stays, fetch_nodes leaves tail_  *)
(*             on a frame that is gone: the run TimeService_mixed shows how  *)
(*             that comes about.                                             *)
EXTENDS LinkedQueue

CONSTANT FetchPolicy
ASSUME FetchPolicyAssumption == FetchPolicy \in {"none", "tailLast"}

VARIABLES queue,   \* the shared queue
          batch,   \* ready_queue of wakeup_frame_on_bucket_, local to a scan
          link,    \* in_queue_link_next_ of every frame
          free     \* the frames that are in neither queue, for their owners

vars == <<queue, batch, link, free>>

Init == /\ queue = EmptyQueue
        /\ batch = EmptyQueue
        /\ link = Unlinked
        /\ free = Frames

(* register_frame 59, CommonExecuteModule::commit 15 *)
AppendFrame(f) ==
  /\ f \in free
  /\ LET r == AppendToTail(queue, link, f)
     IN  queue' = r.queue /\ link' = r.link
  /\ free' = free \ {f}
  /\ UNCHANGED batch

(* loop_ of the scheduler 75-77: one frame leaves when the queue has any. *)
PopFrame ==
  /\ queue.size # 0
  /\ queue.head # Null
  /\ LET r == PopFromHead(queue, link)
     IN  queue' = r.queue /\ link' = r.link
  /\ free' = free \cup {queue.head}
  /\ UNCHANGED batch

(* wakeup_frame_on_bucket_ 97-104: the frames of Taken are the due ones. *)
FetchFrames(Taken) ==
  /\ FetchPolicy = "tailLast"
  /\ batch.size = 0
  /\ LET walk == Chain(queue, link)
     IN  Last(walk) \in Taken => \A i \in DOMAIN walk : walk[i] \in Taken
  /\ LET r == FetchNodes(queue, link, Taken)
     IN  queue' = r.queue /\ batch' = r.target /\ link' = r.link
  /\ UNCHANGED free

(* wakeup_frame_on_bucket_ 106-110: the batch goes to the scheduler. *)
HandOverFrame ==
  /\ batch.size # 0
  /\ batch.head # Null
  /\ LET r == PopFromHead(batch, link)
     IN  batch' = r.queue /\ link' = r.link
  /\ free' = free \cup {batch.head}
  /\ UNCHANGED queue

Next == \/ \E f \in Frames : AppendFrame(f)
        \/ PopFrame
        \/ \E Taken \in SUBSET Frames : FetchFrames(Taken)
        \/ HandOverFrame

Spec == Init /\ [][Next]_vars

-----------------------------------------------------------------------------
TypeOK == /\ queue \in Queues
          /\ batch \in Queues
          /\ link \in Heaps
          /\ free \subseteq Frames

(* The two queues and the free frames partition the frames: each queue is a  *)
(* list without repetition that ends at its tail_ and has size_ frames, no   *)
(* list runs into the other, and a free frame is linked to nothing.  It is   *)
(* what append_to_tail, pop_from_head and fetch_nodes must each restore.     *)
WellLinked ==
  \E s \in [1..queue.size -> Frames], t \in [1..batch.size -> Frames] :
     LET inQueue == {s[i] : i \in 1..queue.size}
         inBatch == {t[i] : i \in 1..batch.size}
     IN  /\ Represents(queue, link, s)
         /\ Represents(batch, link, t)
         /\ inQueue \cap inBatch = {}
         /\ free = Frames \ (inQueue \cup inBatch)
         /\ \A f \in free : link[f] = Null

(* Read along their links, the two queues behave as the abstract FIFO. *)
Fifo == INSTANCE FifoQueue
          WITH items <- Chain(queue, link), batch <- Chain(batch, link)
RefinesFifo == Fifo!Spec
=============================================================================
