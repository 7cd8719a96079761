----------------------------- MODULE TimeService -----------------------------
(* TimeService (time_service.h, time_service.cpp) and co_sleep               *)
(* (async_action.ipp 17-24): a timer wheel of BUCKET_NUM linked queues that   *)
(* one thread scans round-robin, one bucket per precision_, while the threads *)
(* that run coroutines register frames in it.  Time is the steady clock in    *)
(* whole ticks; a bucket's spin lock makes a scan and a registration atomic.  *)
EXTENDS Integers, LinkedQueue

CONSTANTS
  Registrars,  \* the worker threads that run co_sleep
  BUCKET_NUM,  \* number of buckets
  precision,   \* precision_, in ticks
  Scenarios    \* the surroundings of a time service, records of
               \*   sleepers    the frames that sleep
               \*   sleepTimes  for how long they do
               \*   until       bound: the clock stops here
               \*   prompt      TRUE: it never advances while a thread can step
               \*   mayStop     TRUE: the owner may call stop()

ASSUME TimeServiceAssumption ==
  /\ BUCKET_NUM \in Nat \ {0, 1} /\ precision \in Nat \ {0}
  /\ Scenarios \subseteq [sleepers : SUBSET Frames, sleepTimes : SUBSET (Nat \ {0}),
                          until : Nat, prompt : BOOLEAN, mayStop : BOOLEAN]

VARIABLES
  scenario,            \* one of Scenarios, for good
  now,                 \* SteadyClockTime::now()
  stop_flag,           \* stop_flag_
  start_bucket_run_ts, \* start_bukcet_run_ts_
  scan_over_ts,        \* per bucket: scan_over_ts_
  waiting_queue,       \* per bucket: waiting_queue_
  ready_queue,         \* local to wakeup_frame_on_bucket_
  link,                \* in_queue_link_next_ of every frame
  lpc, idx,            \* the loop thread: where it is, and its idx
  rpc, rframe, rstart, \* per registrar: where it is, its frame, the start read
  wake_up_ts,          \* per frame: wake_up_ts_
  frame,               \* per frame: what happens to it
  bucket_of            \* history: the bucket a frame was put in

vars == <<scenario, now, stop_flag, start_bucket_run_ts, scan_over_ts, waiting_queue,
          ready_queue, link, lpc, idx, rpc, rframe, rstart, wake_up_ts, frame,
          bucket_of>>
Buckets == 0..(BUCKET_NUM - 1)
Times   == 0..scenario.until

wheel     == <<scan_over_ts, waiting_queue, ready_queue, link>>
registrar == <<rpc, rframe, rstart, wake_up_ts>>

TypeOK ==
  /\ scenario \in Scenarios
  /\ now \in Times
  /\ stop_flag \in BOOLEAN
  /\ start_bucket_run_ts \in Times
  /\ scan_over_ts \in [Buckets -> Times]
  /\ waiting_queue \in [Buckets -> Queues]
  /\ ready_queue \in Queues
  /\ link \in Heaps
  /\ lpc \in {"advance", "scan", "hand_over", "wait", "force_scan",
              "force_hand_over", "exited"}
  /\ idx \in Buckets
  /\ rpc \in [Registrars -> {"idle", "read_start", "insert", "missed"}]
  /\ rframe \in [Registrars -> Frames \cup {Null}]
  /\ rstart \in [Registrars -> Times]
  /\ wake_up_ts \in [Frames -> Times]
  /\ frame \in [Frames -> {"awake", "registering", "asleep", "due"}]
  /\ bucket_of \in [Frames -> Buckets]

(* start() has run: the loop thread is about to take its first step.  The    *)
(* start time is that of the constructor.                                     *)
Init ==
  /\ scenario \in Scenarios
  /\ now = 0
  /\ stop_flag = FALSE
  /\ start_bucket_run_ts = 0
  /\ scan_over_ts = [b \in Buckets |-> 0]
  /\ waiting_queue = [b \in Buckets |-> EmptyQueue]
  /\ ready_queue = EmptyQueue
  /\ link = Unlinked
  /\ lpc = "advance"
  /\ idx = 0
  /\ rpc = [r \in Registrars |-> "idle"]
  /\ rframe = [r \in Registrars |-> Null]
  /\ rstart = [r \in Registrars |-> 0]
  /\ wake_up_ts = [f \in Frames |-> 0]
  /\ frame = [f \in Frames |-> "awake"]
  /\ bucket_of = [f \in Frames |-> 0]

-----------------------------------------------------------------------------
(* co_sleep::await_suspend: the wake-up time is set from the clock ... *)
Sleep(r, f, duration) ==
  /\ rpc[r] = "idle"
  /\ frame[f] = "awake"
  /\ now + duration <= scenario.until
  /\ wake_up_ts' = [wake_up_ts EXCEPT ![f] = now + duration]
  /\ frame' = [frame EXCEPT ![f] = "registering"]
  /\ rframe' = [rframe EXCEPT ![r] = f]
  /\ rpc' = [rpc EXCEPT ![r] = "read_start"]
  /\ UNCHANGED <<now, stop_flag, start_bucket_run_ts, wheel, lpc, idx, rstart,
                 bucket_of>>

(* ... and register_frame reads the start of the revolution, without a lock: *)
(* the loop thread may begin a new one before the frame is inserted.          *)
ReadStart(r) ==
  /\ rpc[r] = "read_start"
  /\ rstart' = [rstart EXCEPT ![r] = start_bucket_run_ts]
  /\ rpc' = [rpc EXCEPT ![r] = IF start_bucket_run_ts >= wake_up_ts[rframe[r]]
                               THEN "missed" ELSE "insert"]
  /\ UNCHANGED <<now, stop_flag, start_bucket_run_ts, wheel, lpc, idx, rframe,
                 wake_up_ts, frame, bucket_of>>

\* Mutant: the division rounds down.
BucketOf_Floor(wake, start) == ((wake - start) \div precision + 1) % BUCKET_NUM

(* The bucket of a wake-up time: the first tick of the wheel not before it.  *)
BucketOf(wake, start) == (((wake - start) - 1) \div precision + 1) % BUCKET_NUM

\* Mutant: scan_over_ts_ is not looked at again under the lock.
Insert_NoRecheck(r) ==
  LET f == rframe[r]
      b == BucketOf(wake_up_ts[f], rstart[r])
      q == AppendToTail(waiting_queue[b], link, f)
  IN  /\ rpc[r] = "insert"
      /\ waiting_queue' = [waiting_queue EXCEPT ![b] = q.queue]
      /\ link' = q.link
      /\ frame' = [frame EXCEPT ![f] = "asleep"]
      /\ bucket_of' = [bucket_of EXCEPT ![f] = b]
      /\ rpc' = [rpc EXCEPT ![r] = "idle"]
      /\ rframe' = [rframe EXCEPT ![r] = Null]
      /\ UNCHANGED <<now, stop_flag, start_bucket_run_ts, scan_over_ts,
                     ready_queue, lpc, idx, rstart, wake_up_ts>>

(* register_frame with the bucket's lock: too late if the bucket has been     *)
(* scanned at or after the wake-up time, else the frame goes to its tail.     *)
Insert(r) ==
  LET f == rframe[r]
      b == BucketOf(wake_up_ts[f], rstart[r])
      q == AppendToTail(waiting_queue[b], link, f)
  IN  /\ rpc[r] = "insert"
      /\ \/ /\ scan_over_ts[b] >= wake_up_ts[f]
            /\ rpc' = [rpc EXCEPT ![r] = "missed"]
            /\ UNCHANGED <<waiting_queue, link, rframe, frame, bucket_of>>
         \/ /\ scan_over_ts[b] < wake_up_ts[f]
            /\ waiting_queue' = [waiting_queue EXCEPT ![b] = q.queue]
            /\ link' = q.link
            /\ frame' = [frame EXCEPT ![f] = "asleep"]
            /\ bucket_of' = [bucket_of EXCEPT ![f] = b]
            /\ rpc' = [rpc EXCEPT ![r] = "idle"]
            /\ rframe' = [rframe EXCEPT ![r] = Null]
      /\ UNCHANGED <<now, stop_flag, start_bucket_run_ts, scan_over_ts,
                     ready_queue, lpc, idx, rstart, wake_up_ts>>

(* register_frame: a frame that came too late goes back to the scheduler. *)
CommitMissed(r) ==
  /\ rpc[r] = "missed"
  /\ frame' = [frame EXCEPT ![rframe[r]] = "awake"]
  /\ rpc' = [rpc EXCEPT ![r] = "idle"]
  /\ rframe' = [rframe EXCEPT ![r] = Null]
  /\ UNCHANGED <<now, stop_flag, start_bucket_run_ts, wheel, lpc, idx, rstart,
                 wake_up_ts, bucket_of>>

-----------------------------------------------------------------------------
\* Mutant: the index is not masked.
Advance_NoMask ==
  /\ lpc = "advance"
  /\ idx' = idx + 1
  /\ start_bucket_run_ts' = IF idx' = 0 THEN now ELSE start_bucket_run_ts
  /\ lpc' = "scan"
  /\ UNCHANGED <<now, stop_flag, wheel, registrar, frame, bucket_of>>

(* loop_: the next bucket; a revolution starts at bucket 0. *)
Advance ==
  /\ lpc = "advance"
  /\ idx' = (idx + 1) % BUCKET_NUM
  /\ start_bucket_run_ts' = IF idx' = 0 THEN now ELSE start_bucket_run_ts
  /\ lpc' = "scan"
  /\ UNCHANGED <<now, stop_flag, wheel, registrar, frame, bucket_of>>

(* wakeup_frame_on_bucket_ with the bucket's lock: the frames to wake move to *)
(* the local ready_queue.                                                     *)
ScanBucket(waking) ==
  \E r \in {FetchNodes(waiting_queue[idx], link, waking)} :
    \E moved \in {Chain(r.target, r.link)} :
      /\ scan_over_ts' = [scan_over_ts EXCEPT ![idx] = now]
      /\ waiting_queue' = [waiting_queue EXCEPT ![idx] = r.queue]
      /\ ready_queue' = r.target
      /\ link' = r.link
      /\ frame' = [f \in Frames |-> IF \E i \in DOMAIN moved : moved[i] = f
                                    THEN "due" ELSE frame[f]]

\* Mutant: the whole bucket wakes up.
Scan_WholeBucket ==
  /\ lpc = "scan"
  /\ ScanBucket(Frames)
  /\ lpc' = "hand_over"
  /\ UNCHANGED <<now, stop_flag, start_bucket_run_ts, idx, registrar, bucket_of>>

Scan ==
  /\ lpc = "scan"
  /\ ScanBucket({f \in Frames : wake_up_ts[f] <= now})
  /\ lpc' = "hand_over"
  /\ UNCHANGED <<now, stop_flag, start_bucket_run_ts, idx, registrar, bucket_of>>

(* wakeup_frame_on_bucket_ without the lock: one frame after the other is     *)
(* popped from ready_queue and committed to the scheduler.                    *)
HandOverOne ==
  /\ lpc \in {"hand_over", "force_hand_over"}
  /\ ready_queue.size # 0
  /\ ready_queue.head # Null
  /\ LET r == PopFromHead(ready_queue, link)
     IN  ready_queue' = r.queue /\ link' = r.link
  /\ frame' = [frame EXCEPT ![ready_queue.head] = "awake"]
  /\ UNCHANGED <<now, stop_flag, start_bucket_run_ts, scan_over_ts,
                 waiting_queue, lpc, idx, registrar, bucket_of>>

HandOverEnds ==
  /\ lpc = "hand_over"
  /\ ready_queue.size = 0
  /\ lpc' = "wait"
  /\ UNCHANGED <<now, stop_flag, start_bucket_run_ts, wheel, idx, registrar,
                 frame, bucket_of>>

(* loop_: the wait for the next bucket's time, cut short by stop(), and the   *)
(* condition of the loop.                                                     *)
NextRun == start_bucket_run_ts + precision * (idx + 1)

\* Mutant: the loop does not look at stop_flag_.
WaitEnds_IgnoreStop ==
  /\ lpc = "wait"
  /\ now >= NextRun
  /\ lpc' = "advance"
  /\ UNCHANGED <<now, stop_flag, start_bucket_run_ts, wheel, idx, registrar,
                 frame, bucket_of>>

WaitEnds ==
  /\ lpc = "wait"
  /\ \/ ~stop_flag /\ now >= NextRun /\ lpc' = "advance" /\ UNCHANGED idx
     \/ stop_flag /\ lpc' = "force_scan" /\ idx' = 0
  /\ UNCHANGED <<now, stop_flag, start_bucket_run_ts, wheel, registrar, frame,
                 bucket_of>>

(* After the loop every bucket is emptied, once. *)
ForceScan ==
  /\ lpc = "force_scan"
  /\ ScanBucket(Frames)
  /\ lpc' = "force_hand_over"
  /\ UNCHANGED <<now, stop_flag, start_bucket_run_ts, idx, registrar, bucket_of>>

ForceHandOverEnds ==
  /\ lpc = "force_hand_over"
  /\ ready_queue.size = 0
  /\ \/ idx + 1 \in Buckets /\ idx' = idx + 1 /\ lpc' = "force_scan"
     \/ idx + 1 \notin Buckets /\ lpc' = "exited" /\ UNCHANGED idx
  /\ UNCHANGED <<now, stop_flag, start_bucket_run_ts, wheel, registrar, frame,
                 bucket_of>>

-----------------------------------------------------------------------------
(* stop() of the owner *)
Stop ==
  /\ scenario.mayStop
  /\ ~stop_flag
  /\ stop_flag' = TRUE
  /\ UNCHANGED <<now, start_bucket_run_ts, wheel, lpc, idx, registrar, frame,
                 bucket_of>>

(* The clock.  In a prompt system it stands still while a thread has a step. *)
Tick ==
  /\ now < scenario.until
  /\ scenario.prompt =>
       /\ lpc = "exited" \/ (lpc = "wait" /\ ~stop_flag /\ now < NextRun)
       /\ \A r \in Registrars : rpc[r] = "idle"
  /\ now' = now + 1
  /\ UNCHANGED <<stop_flag, start_bucket_run_ts, wheel, lpc, idx, registrar,
                 frame, bucket_of>>

(* At its bound the clock stands still: the model ends here, the code does not. *)
ClockEnds == now = scenario.until /\ UNCHANGED vars

Registrar(r) ==
  (ReadStart(r) \/ Insert(r) \/ CommitMissed(r)) /\ UNCHANGED scenario
Loop ==
  /\ \/ Advance \/ Scan \/ HandOverOne \/ HandOverEnds \/ WaitEnds
     \/ ForceScan \/ ForceHandOverEnds
  /\ UNCHANGED scenario
Surroundings ==
  /\ \/ \E r \in Registrars, f \in scenario.sleepers,
          duration \in scenario.sleepTimes : Sleep(r, f, duration)
     \/ Stop \/ Tick \/ ClockEnds
  /\ UNCHANGED scenario

Next == (\E r \in Registrars : Registrar(r)) \/ Loop \/ Surroundings

Spec == Init /\ [][Next]_vars

(* The loop thread goes on, as does a thread that is registering a frame. *)
FairSpec == Spec /\ WF_vars(Loop) /\ \A r \in Registrars : WF_vars(Registrar(r))

-----------------------------------------------------------------------------
(* The frames on the list of a bucket, and on the list of the last scan. *)
Listed(q) == LET walk == Chain(q, link) IN {walk[i] : i \in DOMAIN walk}

(* A sleeping frame can be reached from the head of its bucket, where the     *)
(* scan looks for it, and nothing else can be: registrations and scans        *)
(* neither lose a frame nor leave one behind in a queue it has left.          *)
SleepersReachable ==
  /\ \A b \in Buckets :
       Listed(waiting_queue[b]) =
         {f \in Frames : frame[f] = "asleep" /\ bucket_of[f] = b}
  /\ Listed(ready_queue) = {f \in Frames : frame[f] = "due"}

(* No frame sleeps behind a scan that should have woken it: however a         *)
(* registration and the scan of the same bucket interleave, what is in a      *)
(* bucket is due after the bucket's last scan.                                *)
DueAfterScan ==
  \A f \in Frames : frame[f] = "asleep" => wake_up_ts[f] > scan_over_ts[bucket_of[f]]

(* A coroutine is not given back to the scheduler before its time, unless the *)
(* service has been stopped.                                                  *)
NoEarlyWake ==
  [][\A f \in Frames : frame[f] # "awake" /\ frame'[f] = "awake" =>
       now >= wake_up_ts[f] \/ stop_flag]_vars

(* In a prompt system a frame sleeps less than precision_ too long, whatever  *)
(* the duration, in which revolution and next to which scan it registers.     *)
(* Frames due within precision_ of the constructor are excepted: loop_ scans  *)
(* bucket 1 as soon as it starts, before its time, so that a frame put there  *)
(* afterwards waits for the next revolution.                                  *)
LessThanATickLate ==
  scenario.prompt => \A f \in Frames :
    frame[f] \in {"asleep", "due"} /\ wake_up_ts[f] > precision =>
      now < wake_up_ts[f] + precision

(* A scan that takes the last frame of its bucket takes all of them.  One     *)
(* that leaves another breaks the queue, for fetch_nodes (queue.ipp 67-70)    *)
(* keeps tail_ at the frame it has unlinked.                                  *)
TailLast ==
  \A b \in Buckets : lpc = "scan" /\ idx = b =>
    LET walk == Chain(waiting_queue[b], link)
    IN  \A i \in DOMAIN walk :
          wake_up_ts[Last(walk)] <= now => wake_up_ts[walk[i]] <= now

(* The thread that stop() asks to end does, so that wait() returns. *)
LoopExits == stop_flag ~> lpc = "exited"

(* queue.ipp 38: a frame register_frame appends is linked to nothing. *)
AppendAssert == \A r \in Registrars : rpc[r] = "insert" => link[rframe[r]] = Null

(* time_service.cpp 89, "force awake all frames on bucket": when the loop     *)
(* thread is gone no frame sleeps in a bucket any more.                       *)
ForceAwakesAll == lpc = "exited" => \A f \in Frames : frame[f] # "asleep"
==============================================================================
