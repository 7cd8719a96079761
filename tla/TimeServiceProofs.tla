-------------------------- MODULE TimeServiceProofs --------------------------
(* The timer wheel wakes every sleeper in time, for any number of frames,     *)
(* threads and buckets, any precision, any durations and any bound of the     *)
(* clock, as long as no scan takes the last frame of a bucket and leaves      *)
(* another one (WholeScans), which breaks the bucket's queue.                 *)
EXTENDS TimeService, LinkedQueueProofs

(* In these surroundings frames enter the wheel in the order of their wake-up *)
(* times: one coroutine sleeps, or all sleep for the same time and one thread *)
(* registers them or the threads are quicker than the clock.  No scan breaks  *)
(* a queue then; in others a scan may, as TimeService_mixed shows.            *)
InOrder(s) ==
  \/ \A f, g \in s.sleepers : f = g
  \/ /\ \A d, e \in s.sleepTimes : d = e
     /\ s.prompt \/ \A r, t \in Registrars : r = t

AllInOrder == \A s \in Scenarios : InOrder(s)

-----------------------------------------------------------------------------
(* Every queue is a list: of the frames asleep in its bucket, or of those the *)
(* last scan took; other frames are linked to nothing.                        *)
Lists ==
  /\ \A b \in Buckets : IsList(waiting_queue[b], link)
  /\ IsList(ready_queue, link)
  /\ \A b \in Buckets, f \in Frames :
       f \in Members(waiting_queue[b], link) <=> frame[f] = "asleep" /\ bucket_of[f] = b
  /\ \A f \in Frames : f \in Members(ready_queue, link) <=> frame[f] = "due"
  /\ \A f \in Frames : frame[f] \in {"awake", "registering"} => link[f] = Null

(* A frame that is being registered belongs to one thread, which is at it.    *)
Owners ==
  /\ \A r \in Registrars : rpc[r] # "idle" =>
       rframe[r] \in Frames /\ frame[rframe[r]] = "registering"
  /\ \A f \in Frames : frame[f] = "registering" =>
       \E r \in Registrars : rpc[r] # "idle" /\ rframe[r] = f
  /\ \A r, t \in Registrars :
       rpc[r] # "idle" /\ rpc[t] # "idle" /\ rframe[r] = rframe[t] => r = t

(* A bucket lists its frames in the order of their wake-up times ... *)
Sorted(q, heap, wake) ==
  LET s == Chain(q, heap)
  IN  \A i, j \in 1..q.size : i < j => wake[s[i]] <= wake[s[j]]

SortedBuckets == \A b \in Buckets : Sorted(waiting_queue[b], link, wake_up_ts)

(* ... for no frame is on its way that is to wake up before one in a bucket.  *)
WakeOrder ==
  /\ \A f, g \in Frames :
       frame[f] = "registering" /\ frame[g] \in {"registering", "asleep"} =>
         wake_up_ts[g] <= wake_up_ts[f]
  /\ \A f \in Frames : frame[f] # "awake" => f \in scenario.sleepers
  /\ \A f \in Frames : frame[f] \in {"registering", "asleep"} =>
       \E d \in scenario.sleepTimes : wake_up_ts[f] <= now + d
  /\ scenario.prompt => \A f \in Frames : frame[f] = "registering" =>
       \E d \in scenario.sleepTimes : wake_up_ts[f] = now + d

(* What has happened has happened at or before the clock's time. *)
Past ==
  /\ start_bucket_run_ts <= now
  /\ \A b \in Buckets : scan_over_ts[b] <= now
  /\ \A r \in Registrars : rpc[r] = "missed" => wake_up_ts[rframe[r]] <= now
  /\ \A f \in Frames : frame[f] = "due" => wake_up_ts[f] <= now \/ stop_flag

(* Where the loop thread is. *)
LoopAt ==
  /\ lpc \in {"force_scan", "force_hand_over", "exited"} => stop_flag
  /\ lpc \notin {"hand_over", "force_hand_over"} => ready_queue.size = 0
  /\ stop_flag => scenario.mayStop

(* WheelInv holds whatever the order, OrderInv where frames enter in order.   *)
WheelInv == TypeOK /\ Lists /\ Owners /\ Past /\ LoopAt /\ DueAfterScan
OrderInv == SortedBuckets /\ WakeOrder

-----------------------------------------------------------------------------
(* The types of TypeOK without the bound of the clock. *)
LEMMA Types ==
  ASSUME TypeOK
  PROVE  /\ scenario \in Scenarios
         /\ scenario.sleepers \subseteq Frames
         /\ scenario.sleepTimes \subseteq Nat \ {0}
         /\ scenario.until \in Nat
         /\ scenario.prompt \in BOOLEAN /\ scenario.mayStop \in BOOLEAN
         /\ now \in Nat /\ now <= scenario.until
         /\ start_bucket_run_ts \in Nat
         /\ scan_over_ts \in [Buckets -> Nat]
         /\ waiting_queue \in [Buckets -> Queues]
         /\ link \in Heaps
         /\ idx \in Buckets /\ idx \in Nat
         /\ rstart \in [Registrars -> Nat]
         /\ wake_up_ts \in [Frames -> Nat]
         /\ frame \in [Frames -> {"awake", "registering", "asleep", "due"}]
         /\ bucket_of \in [Frames -> Buckets]
         /\ BUCKET_NUM \in Nat /\ BUCKET_NUM >= 2
         /\ precision \in Nat /\ precision >= 1
  <1>1. scenario \in [sleepers : SUBSET Frames, sleepTimes : SUBSET (Nat \ {0}),
                      until : Nat, prompt : BOOLEAN, mayStop : BOOLEAN]
    BY TimeServiceAssumption DEF TypeOK
  <1>2. /\ BUCKET_NUM \in Nat /\ BUCKET_NUM >= 2
        /\ precision \in Nat /\ precision >= 1
    BY TimeServiceAssumption
  <1>3. Times \subseteq Nat /\ \A t \in Times : t <= scenario.until
    BY <1>1 DEF Times
  <1>4. Buckets \subseteq Nat
    BY <1>2 DEF Buckets
  <1> QED
    BY <1>1, <1>2, <1>3, <1>4 DEF TypeOK

(* The wheel before the first step. *)
LEMMA WheelInit == Init => WheelInv /\ OrderInv
  <1> SUFFICES ASSUME Init PROVE WheelInv /\ OrderInv
    OBVIOUS
  <1>1. /\ scenario \in Scenarios /\ scenario.until \in Nat
        /\ BUCKET_NUM \in Nat /\ BUCKET_NUM >= 2
    BY TimeServiceAssumption DEF Init
  <1>2. 0 \in Times /\ 0 \in Buckets
    BY <1>1 DEF Times, Buckets
  <1>3. /\ link = Unlinked /\ link \in Heaps
        /\ EmptyQueue \in Queues
    BY DEF Init, Unlinked, Heaps, EmptyQueue, Queues
  <1>4. TypeOK
    BY <1>1, <1>2, <1>3 DEF Init, TypeOK
  <1>5. IsList(EmptyQueue, link) /\ EmptyQueue.size = 0
    BY <1>3, EmptyIsList
  <1>6. Members(EmptyQueue, link) = {}
    BY <1>5 DEF Members
  <1>7. Lists
    BY <1>3, <1>5, <1>6 DEF Init, Lists, Unlinked
  <1>8. SortedBuckets
    BY <1>5 DEF Init, SortedBuckets, Sorted
  <1> QED
    BY <1>4, <1>5, <1>7, <1>8
       DEF Init, WheelInv, OrderInv, Owners, WakeOrder, Past, LoopAt, DueAfterScan

-----------------------------------------------------------------------------
(* What stands on the list of a bucket. *)
LEMMA OnList ==
  ASSUME Lists, NEW b \in Buckets, NEW i \in 1..waiting_queue[b].size
  PROVE  LET f == Chain(waiting_queue[b], link)[i]
         IN  /\ f \in Frames /\ f \in Members(waiting_queue[b], link)
             /\ frame[f] = "asleep" /\ bucket_of[f] = b
  <1> DEFINE q == waiting_queue[b]
             f == Chain(q, link)[i]
  <1>1. f \in Frames /\ f \in Members(q, link)
    <2>1. IsList(q, link)
      BY DEF Lists
    <2> HIDE DEF q
    <2> QED
      BY <2>1 DEF IsList, Members, q
  <1>2. \A g \in Frames :
          g \in Members(q, link) => frame[g] = "asleep" /\ bucket_of[g] = b
    BY DEF Lists
  <1> HIDE DEF f, q
  <1>3. frame[f] = "asleep" /\ bucket_of[f] = b
    BY <1>1, <1>2
  <1> QED
    BY <1>1, <1>3 DEF f, q

(* Steps that touch no queue keep the lists, if they put no frame to sleep    *)
(* and hand none over ...                                                     *)
LEMMA ListsKept ==
  ASSUME TypeOK, TypeOK', Lists,
         UNCHANGED <<waiting_queue, ready_queue, link, bucket_of>>,
         \A f \in Frames : /\ frame'[f] = "asleep" <=> frame[f] = "asleep"
                           /\ frame'[f] = "due" <=> frame[f] = "due"
  PROVE  Lists'
  <1>1. \A f \in Frames : frame'[f] \in {"awake", "registering"} =>
          frame[f] \in {"awake", "registering"}
    BY DEF TypeOK
  <1> QED
    BY <1>1 DEF Lists

(* ... and their order, if they leave the wake-up times of sleepers alone.    *)
LEMMA SortedKept ==
  ASSUME Lists, UNCHANGED <<waiting_queue, link>>,
         \A f \in Frames : frame[f] = "asleep" => wake_up_ts'[f] = wake_up_ts[f]
  PROVE  SortedBuckets => SortedBuckets'
  <1> SUFFICES ASSUME SortedBuckets, NEW b \in Buckets
               PROVE  Sorted(waiting_queue[b], link, wake_up_ts')
    BY DEF SortedBuckets
  <1> DEFINE q == waiting_queue[b]
             s == Chain(q, link)
  <1>1. \A i \in 1..q.size : s[i] \in Frames /\ frame[s[i]] = "asleep"
    BY OnList
  <1>2. Sorted(q, link, wake_up_ts)
    BY DEF SortedBuckets
  <1> HIDE DEF q, s
  <1>3. \A i \in 1..q.size : wake_up_ts'[s[i]] = wake_up_ts[s[i]]
    BY <1>1
  <1>4. Sorted(q, link, wake_up_ts')
    BY <1>2, <1>3 DEF Sorted, s
  <1> QED
    BY <1>4 DEF q

(* co_sleep (async_action.ipp 17-24): the new sleeper wakes up after all that *)
(* are in the wheel.                                                          *)
LEMMA SleepStep ==
  ASSUME WheelInv, UNCHANGED scenario,
         NEW r \in Registrars, NEW f \in scenario.sleepers,
         NEW duration \in scenario.sleepTimes, Sleep(r, f, duration)
  PROVE  WheelInv' /\ (AllInOrder /\ OrderInv => OrderInv')
  <1>1. TypeOK /\ f \in Frames /\ duration \in Nat
    BY Types DEF WheelInv
  <1>2. /\ rpc[r] = "idle" /\ frame[f] = "awake"
        /\ now + duration <= scenario.until
        /\ wake_up_ts' = [wake_up_ts EXCEPT ![f] = now + duration]
        /\ frame' = [frame EXCEPT ![f] = "registering"]
        /\ rframe' = [rframe EXCEPT ![r] = f]
        /\ rpc' = [rpc EXCEPT ![r] = "read_start"]
        /\ UNCHANGED <<scenario, now, stop_flag, start_bucket_run_ts,
                       scan_over_ts, waiting_queue, ready_queue, link, lpc,
                       idx, rstart, bucket_of>>
    BY DEF Sleep, wheel
  <1>3. now + duration \in Times
    BY <1>1, <1>2, Types DEF Times
  <1>4. TypeOK'
    BY <1>1, <1>2, <1>3 DEF TypeOK, Times
  <1>5. /\ \A g \in Frames : frame'[g] = IF g = f THEN "registering" ELSE frame[g]
        /\ \A g \in Frames :
             wake_up_ts'[g] = IF g = f THEN now + duration ELSE wake_up_ts[g]
    BY <1>1, <1>2 DEF TypeOK
  <1>6. Lists' /\ (SortedBuckets => SortedBuckets')
    BY <1>1, <1>2, <1>4, <1>5, ListsKept, SortedKept DEF WheelInv
  <1>7. Owners'
    <2>1. \A t \in Registrars :
            /\ rpc'[t] = IF t = r THEN "read_start" ELSE rpc[t]
            /\ rframe'[t] = IF t = r THEN f ELSE rframe[t]
      BY <1>1, <1>2 DEF TypeOK
    <2>2. \A t \in Registrars : rpc[t] # "idle" => rframe[t] # f
      BY <1>2 DEF WheelInv, Owners
    <2> QED
      BY <1>1, <1>2, <1>5, <2>1, <2>2 DEF WheelInv, Owners
  <1>8. ASSUME AllInOrder, WakeOrder PROVE WakeOrder'
    <2>1. InOrder(scenario)
      BY <1>1, <1>8 DEF AllInOrder, TypeOK
    <2>2. \A g \in Frames : frame[g] \in {"registering", "asleep"} =>
            g # f /\ g \in scenario.sleepers
              /\ \E d \in scenario.sleepTimes : wake_up_ts[g] <= now + d
      BY <1>2, <1>8 DEF WakeOrder
    <2>3. ASSUME NEW g \in Frames, NEW h \in Frames, frame'[g] = "registering",
                 frame'[h] \in {"registering", "asleep"}
          PROVE  wake_up_ts'[h] <= wake_up_ts'[g]
      <3>1. wake_up_ts'[f] = now + duration /\ now + duration \in Nat
        BY <1>1, <1>5, Types
      <3>2. CASE g = f /\ h = f
        BY <3>1, <3>2
      <3>3. CASE g = f /\ h # f
        <4>1. frame[h] \in {"registering", "asleep"} /\ wake_up_ts'[h] = wake_up_ts[h]
          BY <1>5, <2>3, <3>3
        <4>2. PICK d \in scenario.sleepTimes : wake_up_ts[h] <= now + d
          BY <2>2, <4>1
        <4>3. d = duration
          BY <2>1, <2>2, <4>1 DEF InOrder
        <4> QED
          BY <3>1, <3>3, <4>1, <4>2, <4>3
      <3>4. CASE g # f
        <4>1. frame[g] = "registering" /\ wake_up_ts'[g] = wake_up_ts[g]
          BY <1>5, <2>3, <3>4
        <4>2. PICK t \in Registrars : rpc[t] # "idle" /\ rframe[t] = g
          BY <4>1 DEF WheelInv, Owners
        <4>3. t # r
          BY <1>2, <4>2
        <4>4. /\ scenario.prompt
              /\ \A d, e \in scenario.sleepTimes : d = e
          BY <2>1, <2>2, <3>4, <4>1, <4>2, <4>3 DEF InOrder
        <4>5. PICK d \in scenario.sleepTimes : wake_up_ts[g] = now + d
          BY <1>8, <4>1, <4>4 DEF WakeOrder
        <4>6. wake_up_ts[g] = now + duration
          BY <4>4, <4>5
        <4>7. CASE h = f
          BY <3>1, <4>1, <4>6, <4>7
        <4>8. CASE h # f
          BY <1>5, <1>8, <2>3, <4>1, <4>8 DEF WakeOrder
        <4> QED
          BY <4>7, <4>8
      <3> QED
        BY <3>2, <3>3, <3>4
    <2>4. \A g \in Frames : frame'[g] # "awake" => g \in scenario.sleepers
      BY <1>5, <1>8 DEF WakeOrder
    <2>5. \A g \in Frames : frame'[g] \in {"registering", "asleep"} =>
            \E d \in scenario.sleepTimes : wake_up_ts'[g] <= now + d
      BY <1>1, <1>5, <2>2, Types
    <2>6. scenario.prompt => \A g \in Frames : frame'[g] = "registering" =>
            \E d \in scenario.sleepTimes : wake_up_ts'[g] = now + d
      BY <1>5, <1>8 DEF WakeOrder
    <2> QED
      BY <1>2, <2>3, <2>4, <2>5, <2>6 DEF WakeOrder
  <1>9. Past'
    <2>1. \A t \in Registrars : rpc'[t] = "missed" =>
            rpc[t] = "missed" /\ rframe'[t] = rframe[t] /\ rframe[t] # f
              /\ rframe[t] \in Frames
      BY <1>1, <1>2 DEF WheelInv, Owners, TypeOK
    <2> QED
      BY <1>2, <1>5, <2>1 DEF WheelInv, Past
  <1>10. LoopAt' /\ DueAfterScan'
    BY <1>2, <1>5 DEF WheelInv, LoopAt, DueAfterScan
  <1> QED
    BY <1>4, <1>6, <1>7, <1>8, <1>9, <1>10 DEF WheelInv, OrderInv

(* register_frame (time_service.cpp 39-48) reads the start of the revolution. *)
LEMMA ReadStartStep ==
  ASSUME WheelInv, UNCHANGED scenario, NEW r \in Registrars, ReadStart(r)
  PROVE  WheelInv' /\ (OrderInv => OrderInv')
  <1>1. TypeOK /\ Owners
    BY DEF WheelInv
  <1>2. /\ rpc[r] = "read_start"
        /\ rstart' = [rstart EXCEPT ![r] = start_bucket_run_ts]
        /\ rpc' = [rpc EXCEPT
                     ![r] = IF start_bucket_run_ts >= wake_up_ts[rframe[r]]
                            THEN "missed" ELSE "insert"]
        /\ UNCHANGED <<scenario, now, stop_flag, start_bucket_run_ts, scan_over_ts,
                       waiting_queue, ready_queue, link, lpc, idx, rframe,
                       wake_up_ts, frame, bucket_of>>
    BY DEF ReadStart, wheel
  <1>3. /\ \A t \in Registrars : rpc'[t] # "idle" <=> rpc[t] # "idle"
        /\ \A t \in Registrars : t # r => rpc'[t] = rpc[t]
        /\ rpc'[r] = "missed" => wake_up_ts[rframe[r]] <= start_bucket_run_ts
    BY <1>1, <1>2, Types DEF Owners, TypeOK
  <1>4. TypeOK'
    <2>1. rpc' \in [Registrars -> {"idle", "read_start", "insert", "missed"}]
      BY <1>1, <1>2 DEF TypeOK
    <2>2. rstart' \in [Registrars -> Times]
      BY <1>1, <1>2 DEF TypeOK
    <2> QED
      BY <1>1, <1>2, <2>1, <2>2 DEF TypeOK, Times
  <1>5. Lists' /\ (SortedBuckets => SortedBuckets')
    BY <1>1, <1>2, <1>4, ListsKept, SortedKept DEF WheelInv
  <1>6. Owners'
    BY <1>1, <1>2, <1>3 DEF Owners
  <1>7. Past'
    <2>1. rframe[r] \in Frames
      BY <1>1, <1>2 DEF Owners
    <2>2. rpc'[r] = "missed" => wake_up_ts[rframe[r]] <= now
      BY <1>1, <1>3, <2>1, Types DEF WheelInv, Past
    <2> QED
      BY <1>2, <1>3, <2>2 DEF WheelInv, Past
  <1>8. (WakeOrder => WakeOrder') /\ LoopAt' /\ DueAfterScan'
    BY <1>2 DEF WheelInv, WakeOrder, LoopAt, DueAfterScan
  <1> QED
    BY <1>4, <1>5, <1>6, <1>7, <1>8 DEF WheelInv, OrderInv

(* A frame that came too late goes back to the scheduler                      *)
(* (time_service.cpp 58-60).                                                  *)
LEMMA CommitMissedStep ==
  ASSUME WheelInv, UNCHANGED scenario, NEW r \in Registrars, CommitMissed(r)
  PROVE  WheelInv' /\ (OrderInv => OrderInv')
  <1>1. TypeOK /\ Owners
    BY DEF WheelInv
  <1> DEFINE f == rframe[r]
  <1>2. /\ rpc[r] = "missed"
        /\ frame' = [frame EXCEPT ![f] = "awake"]
        /\ rpc' = [rpc EXCEPT ![r] = "idle"]
        /\ rframe' = [rframe EXCEPT ![r] = Null]
        /\ UNCHANGED <<scenario, now, stop_flag, start_bucket_run_ts, scan_over_ts,
                       waiting_queue, ready_queue, link, lpc, idx, rstart,
                       wake_up_ts, bucket_of>>
    BY DEF CommitMissed, wheel
  <1>3. f \in Frames /\ frame[f] = "registering"
    BY <1>1, <1>2 DEF Owners
  <1> HIDE DEF f
  <1>4. \A g \in Frames : frame'[g] = IF g = f THEN "awake" ELSE frame[g]
    BY <1>1, <1>2, <1>3 DEF TypeOK
  <1>5. TypeOK'
    BY <1>1, <1>2, <1>3 DEF TypeOK, Times
  <1>6. Lists' /\ (SortedBuckets => SortedBuckets')
    BY <1>1, <1>2, <1>3, <1>4, <1>5, ListsKept, SortedKept DEF WheelInv
  <1>7. \A t \in Registrars :
          /\ rpc'[t] = IF t = r THEN "idle" ELSE rpc[t]
          /\ rframe'[t] = IF t = r THEN Null ELSE rframe[t]
    BY <1>1, <1>2 DEF TypeOK
  <1>8. Owners'
    <2>1. \A t \in Registrars : t # r /\ rpc[t] # "idle" => rframe[t] # f
      BY <1>1, <1>2 DEF Owners, f
    <2>2. \A t \in Registrars : rpc'[t] # "idle" => t # r /\ rpc[t] # "idle"
      BY <1>7
    <2>3. \A t \in Registrars : rpc'[t] # "idle" =>
            rframe'[t] \in Frames /\ frame'[rframe'[t]] = "registering"
      BY <1>1, <1>4, <1>7, <2>1, <2>2 DEF Owners
    <2>4. ASSUME NEW g \in Frames, frame'[g] = "registering"
          PROVE  \E t \in Registrars : rpc'[t] # "idle" /\ rframe'[t] = g
      <3>1. g # f /\ frame[g] = "registering"
        BY <1>4, <2>4
      <3>2. PICK t \in Registrars : rpc[t] # "idle" /\ rframe[t] = g
        BY <1>1, <3>1 DEF Owners
      <3>3. t # r
        BY <3>1, <3>2 DEF f
      <3> QED
        BY <1>7, <3>2, <3>3
    <2>5. \A t, u \in Registrars :
            rpc'[t] # "idle" /\ rpc'[u] # "idle" /\ rframe'[t] = rframe'[u] => t = u
      BY <1>1, <1>7, <2>2 DEF Owners
    <2> QED
      BY <2>3, <2>4, <2>5 DEF Owners
  <1>9. Past'
    <2>1. \A t \in Registrars : rpc'[t] = "missed" =>
            rpc[t] = "missed" /\ rframe'[t] = rframe[t]
      BY <1>7
    <2>2. \A g \in Frames : frame'[g] = "due" => frame[g] = "due"
      BY <1>4
    <2> QED
      BY <1>2, <2>1, <2>2 DEF WheelInv, Past
  <1>10. WakeOrder => WakeOrder'
    <2>1. \A g \in Frames : /\ frame'[g] # "awake" => frame[g] # "awake"
                            /\ frame'[g] = "registering" => frame[g] = "registering"
                            /\ frame'[g] = "asleep" => frame[g] = "asleep"
      BY <1>4
    <2> QED
      BY <1>2, <2>1 DEF WakeOrder
  <1>11. LoopAt' /\ DueAfterScan'
    BY <1>2, <1>4 DEF WheelInv, LoopAt, DueAfterScan
  <1> QED
    BY <1>5, <1>6, <1>8, <1>9, <1>10, <1>11 DEF WheelInv, OrderInv

(* Division with remainder, in the form the proofs use it. *)
LEMMA DivMod ==
  ASSUME NEW n \in Nat \ {0}, NEW a \in Int
  PROVE  /\ a \div n \in Int /\ a % n \in 0..(n - 1)
         /\ a = n * (a \div n) + (a % n)
  OBVIOUS

(* Every bucket a frame is sent to exists. *)
LEMMA BucketOfType ==
  ASSUME NEW wake \in Int, NEW start \in Int
  PROVE  BucketOf(wake, start) \in Buckets
  <1> DEFINE a == (wake - start) - 1
             c == a \div precision + 1
  <1>1. /\ precision \in Nat \ {0} /\ BUCKET_NUM \in Nat \ {0}
        /\ a \in Int
    BY TimeServiceAssumption
  <1> HIDE DEF a
  <1>2. c \in Int
    BY <1>1, DivMod
  <1> HIDE DEF c
  <1>3. c % BUCKET_NUM \in Buckets
    BY <1>1, <1>2, DivMod DEF Buckets
  <1> QED
    BY <1>3 DEF BucketOf, a, c

(* register_frame under the bucket's lock (time_service.cpp 50-57): a frame   *)
(* that the bucket's last scan did not miss goes to the tail of its bucket,   *)
(* after all that wake up before it.                                          *)
LEMMA InsertStep ==
  ASSUME WheelInv, UNCHANGED scenario, NEW r \in Registrars, Insert(r)
  PROVE  WheelInv' /\ (OrderInv => OrderInv')
  <1>1. TypeOK /\ Owners /\ Lists
    BY DEF WheelInv
  <1> DEFINE f == rframe[r]
             b == BucketOf(wake_up_ts[f], rstart[r])
             a == AppendToTail(waiting_queue[b], link, f)
  <1>2. /\ rpc[r] = "insert"
        /\ UNCHANGED <<scenario, now, stop_flag, start_bucket_run_ts, scan_over_ts,
                       ready_queue, lpc, idx, rstart, wake_up_ts>>
    BY DEF Insert
  <1>3. f \in Frames /\ frame[f] = "registering"
    BY <1>1, <1>2 DEF Owners
  <1>4. b \in Buckets
    <2>1. wake_up_ts[f] \in Int /\ rstart[r] \in Int
      BY <1>1, <1>3, Types
    <2> QED
      BY <2>1, BucketOfType
  <1>5. CASE /\ scan_over_ts[b] >= wake_up_ts[f]
             /\ rpc' = [rpc EXCEPT ![r] = "missed"]
             /\ UNCHANGED <<waiting_queue, link, rframe, frame, bucket_of>>
    <2>1. \A t \in Registrars : rpc'[t] = IF t = r THEN "missed" ELSE rpc[t]
      BY <1>1, <1>5 DEF TypeOK
    <2>2. TypeOK'
      BY <1>1, <1>2, <1>5 DEF TypeOK, Times
    <2>3. Lists' /\ (SortedBuckets => SortedBuckets')
      BY <1>1, <1>2, <1>5, <2>2, ListsKept, SortedKept DEF WheelInv
    <2>4. Owners'
      BY <1>1, <1>2, <1>5, <2>1 DEF Owners
    <2>5. wake_up_ts[f] <= now
      BY <1>1, <1>3, <1>4, <1>5, Types DEF WheelInv, Past
    <2>6. Past'
      BY <1>2, <1>5, <2>1, <2>5 DEF WheelInv, Past
    <2>7. (WakeOrder => WakeOrder') /\ LoopAt' /\ DueAfterScan'
      BY <1>2, <1>5 DEF WheelInv, WakeOrder, LoopAt, DueAfterScan
    <2> QED
      BY <2>2, <2>3, <2>4, <2>6, <2>7 DEF WheelInv, OrderInv
  <1>6. CASE /\ scan_over_ts[b] < wake_up_ts[f]
             /\ waiting_queue' = [waiting_queue EXCEPT ![b] = a.queue]
             /\ link' = a.link
             /\ frame' = [frame EXCEPT ![f] = "asleep"]
             /\ bucket_of' = [bucket_of EXCEPT ![f] = b]
             /\ rpc' = [rpc EXCEPT ![r] = "idle"]
             /\ rframe' = [rframe EXCEPT ![r] = Null]
    <2> DEFINE q == waiting_queue[b]
               n == q.size
    <2>1. link \in Heaps /\ IsList(q, link) /\ link[f] = Null
      BY <1>1, <1>3, <1>4, Types DEF Lists
    <2>2. \A c \in Buckets : f \notin Members(waiting_queue[c], link)
      BY <1>1, <1>3 DEF Lists
    <2>3. f \notin Members(ready_queue, link)
      BY <1>1, <1>3 DEF Lists
    <2> HIDE DEF a, b, f
    <2>4. /\ IsList(a.queue, a.link) /\ a.link \in Heaps
          /\ a.queue.size = n + 1
          /\ Chain(a.queue, a.link) =
               [i \in 1..(n + 1) |-> IF i = n + 1 THEN f ELSE Chain(q, link)[i]]
          /\ Members(a.queue, a.link) = Members(q, link) \cup {f}
          /\ \A g \in Frames :
               g # f /\ g \notin Members(q, link) => a.link[g] = link[g]
      BY <1>3, <1>4, <2>1, <2>2, AppendList DEF a
    <2>5. /\ \A c \in Buckets :
               waiting_queue'[c] = IF c = b THEN a.queue ELSE waiting_queue[c]
          /\ \A g \in Frames :
               /\ frame'[g] = IF g = f THEN "asleep" ELSE frame[g]
               /\ bucket_of'[g] = IF g = f THEN b ELSE bucket_of[g]
          /\ \A t \in Registrars :
               /\ rpc'[t] = IF t = r THEN "idle" ELSE rpc[t]
               /\ rframe'[t] = IF t = r THEN Null ELSE rframe[t]
      BY <1>1, <1>4, <1>6 DEF TypeOK
    <2>6. a.queue \in Queues
      BY <2>4 DEF IsList
    <2>7. TypeOK'
      <3>1. /\ waiting_queue' \in [Buckets -> Queues] /\ link' \in Heaps
            /\ frame' \in [Frames -> {"awake", "registering", "asleep", "due"}]
            /\ bucket_of' \in [Frames -> Buckets]
            /\ rpc' \in [Registrars -> {"idle", "read_start", "insert", "missed"}]
            /\ rframe' \in [Registrars -> Frames \cup {Null}]
        BY <1>1, <1>4, <1>6, <2>4, <2>6 DEF TypeOK
      <3> QED
        BY <1>1, <1>2, <3>1 DEF TypeOK, Times
    <2>8. ASSUME NEW c \in Buckets, c # b
          PROVE  /\ waiting_queue'[c] = waiting_queue[c]
                 /\ IsList(waiting_queue[c], link')
                 /\ Chain(waiting_queue[c], link') = Chain(waiting_queue[c], link)
                 /\ Members(waiting_queue[c], link') = Members(waiting_queue[c], link)
      <3> DEFINE p == waiting_queue[c]
      <3>1. IsList(p, link)
        BY <1>1 DEF Lists
      <3>2. \A i \in 1..p.size :
              LET g == Chain(p, link)[i]
              IN  g \in Frames /\ g # f /\ g \notin Members(q, link)
        <4> SUFFICES ASSUME NEW i \in 1..p.size
                     PROVE  LET g == Chain(p, link)[i]
                            IN  g \in Frames /\ g # f /\ g \notin Members(q, link)
          OBVIOUS
        <4> DEFINE g == Chain(p, link)[i]
        <4>1. /\ g \in Frames /\ g \in Members(p, link)
              /\ frame[g] = "asleep" /\ bucket_of[g] = c
          BY <1>1, OnList
        <4> HIDE DEF g
        <4>2. g \notin Members(q, link)
          BY <1>1, <1>4, <2>8, <4>1 DEF Lists
        <4>3. g # f
          BY <2>2, <4>1
        <4> QED
          BY <4>1, <4>2, <4>3 DEF g
      <3> HIDE DEF p, q
      <3>3. \A i \in 1..p.size : link'[Chain(p, link)[i]] = link[Chain(p, link)[i]]
        BY <1>6, <2>4, <3>2
      <3>4. IsList(p, link') /\ Chain(p, link') = Chain(p, link)
        BY <1>6, <2>1, <2>4, <3>1, <3>3, KeepsList
      <3>5. Members(p, link') = Members(p, link)
        BY <3>4 DEF Members
      <3> QED
        BY <2>5, <2>8, <3>4, <3>5 DEF p
    <2>9. IsList(ready_queue, link') /\ Members(ready_queue, link') = Members(ready_queue, link)
      <3>1. IsList(ready_queue, link)
        BY <1>1 DEF Lists
      <3>2. ASSUME NEW i \in 1..ready_queue.size
            PROVE  LET g == Chain(ready_queue, link)[i]
                   IN  g \in Frames /\ g \in Members(ready_queue, link)
        BY <3>1 DEF IsList, Members
      <3>3. \A g \in Frames : g \in Members(ready_queue, link) =>
              g # f /\ g \notin Members(q, link)
        BY <1>1, <1>4, <2>3 DEF Lists
      <3> HIDE DEF q
      <3>4. \A i \in 1..ready_queue.size :
              link'[Chain(ready_queue, link)[i]] = link[Chain(ready_queue, link)[i]]
        BY <1>6, <2>4, <3>2, <3>3
      <3>5. IsList(ready_queue, link') /\ Chain(ready_queue, link') = Chain(ready_queue, link)
        BY <1>6, <2>1, <2>4, <3>1, <3>4, KeepsList
      <3> QED
        BY <3>5 DEF Members
    <2>10. Lists'
      <3>1. \A c \in Buckets : IsList(waiting_queue'[c], link')
        BY <1>6, <2>4, <2>5, <2>8
      <3>2. ASSUME NEW c \in Buckets, NEW g \in Frames
            PROVE  g \in Members(waiting_queue'[c], link')
                     <=> frame'[g] = "asleep" /\ bucket_of'[g] = c
        <4>1. g \in Members(waiting_queue[c], link)
                <=> frame[g] = "asleep" /\ bucket_of[g] = c
          BY <1>1 DEF Lists
        <4>2. CASE c = b
          <5>1. Members(waiting_queue'[c], link') = Members(waiting_queue[c], link) \cup {f}
            BY <1>6, <2>4, <2>5, <4>2
          <5> QED
            BY <2>5, <4>1, <4>2, <5>1
        <4>3. CASE c # b
          <5>1. Members(waiting_queue'[c], link') = Members(waiting_queue[c], link)
            BY <2>8, <4>3
          <5>2. g = f => g \notin Members(waiting_queue[c], link)
            BY <2>2
          <5> QED
            BY <2>5, <4>1, <4>3, <5>1, <5>2
        <4> QED
          BY <4>2, <4>3
      <3>3. \A g \in Frames :
              g \in Members(ready_queue', link') <=> frame'[g] = "due"
        BY <1>1, <1>2, <1>3, <2>5, <2>9 DEF Lists
      <3>4. \A g \in Frames :
              frame'[g] \in {"awake", "registering"} => link'[g] = Null
        <4> SUFFICES ASSUME NEW g \in Frames, frame'[g] \in {"awake", "registering"}
                     PROVE  link'[g] = Null
          OBVIOUS
        <4>1. g # f /\ frame[g] \in {"awake", "registering"}
          BY <2>5
        <4>2. g \notin Members(q, link) /\ link[g] = Null
          BY <1>1, <1>4, <4>1 DEF Lists
        <4> QED
          BY <1>6, <2>4, <4>1, <4>2
      <3> QED
        BY <1>2, <2>9, <3>1, <3>2, <3>3, <3>4 DEF Lists
    <2>11. ASSUME OrderInv PROVE SortedBuckets'
      <3> SUFFICES ASSUME NEW c \in Buckets
                   PROVE  Sorted(waiting_queue'[c], link', wake_up_ts)
        BY <1>2 DEF SortedBuckets
      <3>1. Sorted(waiting_queue[c], link, wake_up_ts)
        BY <2>11 DEF OrderInv, SortedBuckets
      <3>2. CASE c # b
        BY <2>8, <3>1, <3>2 DEF Sorted
      <3>3. CASE c = b
        <4> DEFINE s == Chain(q, link)
        <4>1. \A i \in 1..n : s[i] \in Frames /\ wake_up_ts[s[i]] <= wake_up_ts[f]
          <5>1. \A i \in 1..n : s[i] \in Frames /\ frame[s[i]] = "asleep"
            BY <1>1, <1>4, OnList
          <5> HIDE DEF s
          <5> QED
            BY <1>3, <2>11, <5>1 DEF OrderInv, WakeOrder
        <4>2. \A i, j \in 1..n : i < j => wake_up_ts[s[i]] <= wake_up_ts[s[j]]
          BY <3>1, <3>3 DEF Sorted
        <4>3. n \in Nat
          BY <2>1 DEF IsList, Queues
        <4> HIDE DEF s, n
        <4>4. \A i \in 1..(n + 1) :
                Chain(a.queue, a.link)[i] = IF i = n + 1 THEN f ELSE s[i]
          BY <2>4 DEF s
        <4>5. ASSUME NEW i \in 1..(n + 1), NEW j \in 1..(n + 1), i < j
              PROVE  wake_up_ts[Chain(a.queue, a.link)[i]]
                       <= wake_up_ts[Chain(a.queue, a.link)[j]]
          <5>1. i \in 1..n /\ i # n + 1 /\ (j = n + 1 \/ (j \in 1..n /\ j # n + 1))
            BY <4>3, <4>5
          <5> QED
            BY <4>1, <4>2, <4>4, <4>5, <5>1
        <4>6. Sorted(a.queue, a.link, wake_up_ts)
          BY <2>4, <4>5 DEF Sorted
        <4> QED
          BY <1>6, <2>5, <3>3, <4>6
      <3> QED
        BY <3>2, <3>3
    <2>12. Owners'
      <3>1. \A t \in Registrars : t # r /\ rpc[t] # "idle" => rframe[t] # f
        BY <1>1, <1>2 DEF Owners, f
      <3>2. \A t \in Registrars : rpc'[t] # "idle" => t # r /\ rpc[t] # "idle"
        BY <2>5
      <3>3. \A t \in Registrars : rpc'[t] # "idle" =>
              rframe'[t] \in Frames /\ frame'[rframe'[t]] = "registering"
        BY <1>1, <2>5, <3>1, <3>2 DEF Owners
      <3>4. ASSUME NEW g \in Frames, frame'[g] = "registering"
            PROVE  \E t \in Registrars : rpc'[t] # "idle" /\ rframe'[t] = g
        <4>1. g # f /\ frame[g] = "registering"
          BY <2>5, <3>4
        <4>2. PICK t \in Registrars : rpc[t] # "idle" /\ rframe[t] = g
          BY <1>1, <4>1 DEF Owners
        <4>3. t # r
          BY <4>1, <4>2 DEF f
        <4> QED
          BY <2>5, <4>2, <4>3
      <3>5. \A t, u \in Registrars :
              rpc'[t] # "idle" /\ rpc'[u] # "idle" /\ rframe'[t] = rframe'[u] => t = u
        BY <1>1, <2>5, <3>2 DEF Owners
      <3> QED
        BY <3>3, <3>4, <3>5 DEF Owners
    <2>13. Past'
      <3>1. \A t \in Registrars : rpc'[t] = "missed" =>
              rpc[t] = "missed" /\ rframe'[t] = rframe[t]
        BY <2>5
      <3>2. \A g \in Frames : frame'[g] = "due" => frame[g] = "due"
        BY <2>5
      <3> QED
        BY <1>2, <3>1, <3>2 DEF WheelInv, Past
    <2>14. WakeOrder => WakeOrder'
      <3>1. \A g \in Frames :
              /\ frame'[g] # "awake" => frame[g] # "awake"
              /\ frame'[g] = "registering" => frame[g] = "registering"
              /\ frame'[g] \in {"registering", "asleep"} =>
                   frame[g] \in {"registering", "asleep"}
        BY <1>3, <2>5
      <3> QED
        BY <1>2, <3>1 DEF WakeOrder
    <2>15. LoopAt'
      BY <1>2 DEF WheelInv, LoopAt
    <2>16. DueAfterScan'
      <3> SUFFICES ASSUME NEW g \in Frames, frame'[g] = "asleep"
                   PROVE  wake_up_ts[g] > scan_over_ts[bucket_of'[g]]
        BY <1>2 DEF DueAfterScan
      <3>1. CASE g = f
        BY <1>1, <1>3, <1>4, <1>6, <2>5, <3>1, Types
      <3>2. CASE g # f
        BY <2>5, <3>2 DEF WheelInv, DueAfterScan
      <3> QED
        BY <3>1, <3>2
    <2> QED
      BY <2>7, <2>10, <2>11, <2>12, <2>13, <2>14, <2>15, <2>16
         DEF WheelInv, OrderInv
  <1> QED
    BY <1>5, <1>6 DEF Insert

-----------------------------------------------------------------------------
(* Steps of the loop thread that only move it on (time_service.cpp 66-91).    *)
LEMMA LoopMovesOn ==
  ASSUME WheelInv, TypeOK', LoopAt', start_bucket_run_ts' <= now,
         UNCHANGED <<scenario, now, stop_flag, scan_over_ts, waiting_queue,
                     ready_queue, link, rpc, rframe, rstart, wake_up_ts, frame,
                     bucket_of>>
  PROVE  WheelInv' /\ (OrderInv => OrderInv')
  <1>1. Lists' /\ (SortedBuckets => SortedBuckets')
    BY ListsKept, SortedKept DEF WheelInv
  <1> QED
    BY <1>1 DEF WheelInv, OrderInv, Owners, WakeOrder, Past, DueAfterScan

LEMMA AdvanceStep ==
  ASSUME WheelInv, UNCHANGED scenario, Advance PROVE WheelInv' /\ (OrderInv => OrderInv')
  <1>1. TypeOK
    BY DEF WheelInv
  <1>2. /\ lpc = "advance" /\ lpc' = "scan" /\ idx' = (idx + 1) % BUCKET_NUM
        /\ start_bucket_run_ts' = IF idx' = 0 THEN now ELSE start_bucket_run_ts
        /\ UNCHANGED <<scenario, now, stop_flag, scan_over_ts, waiting_queue,
                       ready_queue, link, rpc, rframe, rstart, wake_up_ts, frame,
                       bucket_of>>
    BY DEF Advance, wheel, registrar
  <1>3. idx' \in Buckets
    <2>1. idx + 1 \in Int /\ BUCKET_NUM \in Nat \ {0}
      BY <1>1, Types
    <2>2. (idx + 1) % BUCKET_NUM \in 0..(BUCKET_NUM - 1)
      BY <2>1, DivMod
    <2> QED
      BY <1>2, <2>2 DEF Buckets
  <1>4. start_bucket_run_ts' <= now
    BY <1>1, <1>2, Types DEF WheelInv, Past
  <1>5. TypeOK'
    BY <1>1, <1>2, <1>3 DEF TypeOK, Times
  <1>6. LoopAt'
    BY <1>2 DEF WheelInv, LoopAt
  <1> QED
    BY <1>2, <1>4, <1>5, <1>6, LoopMovesOn

LEMMA HandOverEndsStep ==
  ASSUME WheelInv, UNCHANGED scenario, HandOverEnds PROVE WheelInv' /\ (OrderInv => OrderInv')
  <1>1. /\ lpc = "hand_over" /\ lpc' = "wait" /\ ready_queue.size = 0
        /\ UNCHANGED <<scenario, now, stop_flag, start_bucket_run_ts, scan_over_ts,
                       waiting_queue, ready_queue, link, idx, rpc, rframe, rstart,
                       wake_up_ts, frame, bucket_of>>
    BY DEF HandOverEnds, wheel, registrar
  <1>2. TypeOK' /\ LoopAt' /\ start_bucket_run_ts' <= now
    BY <1>1 DEF WheelInv, TypeOK, Times, LoopAt, Past
  <1> QED
    BY <1>1, <1>2, LoopMovesOn

LEMMA WaitEndsStep ==
  ASSUME WheelInv, UNCHANGED scenario, WaitEnds PROVE WheelInv' /\ (OrderInv => OrderInv')
  <1>1. /\ lpc = "wait"
        /\ UNCHANGED <<scenario, now, stop_flag, start_bucket_run_ts, scan_over_ts,
                       waiting_queue, ready_queue, link, rpc, rframe, rstart,
                       wake_up_ts, frame, bucket_of>>
        /\ \/ lpc' = "advance" /\ idx' = idx
           \/ stop_flag /\ lpc' = "force_scan" /\ idx' = 0
    BY DEF WaitEnds, wheel, registrar
  <1>2. TypeOK
    BY DEF WheelInv
  <1>3. idx' \in Buckets
    BY <1>1, <1>2, Types DEF Buckets
  <1>4. TypeOK' /\ LoopAt' /\ start_bucket_run_ts' <= now
    BY <1>1, <1>3 DEF WheelInv, TypeOK, Times, LoopAt, Past
  <1> QED
    BY <1>1, <1>4, LoopMovesOn

LEMMA ForceHandOverEndsStep ==
  ASSUME WheelInv, UNCHANGED scenario, ForceHandOverEnds PROVE WheelInv' /\ (OrderInv => OrderInv')
  <1>1. /\ lpc = "force_hand_over" /\ ready_queue.size = 0
        /\ UNCHANGED <<scenario, now, stop_flag, start_bucket_run_ts, scan_over_ts,
                       waiting_queue, ready_queue, link, rpc, rframe, rstart,
                       wake_up_ts, frame, bucket_of>>
        /\ \/ idx + 1 \in Buckets /\ idx' = idx + 1 /\ lpc' = "force_scan"
           \/ lpc' = "exited" /\ UNCHANGED idx
    BY DEF ForceHandOverEnds, wheel, registrar
  <1>2. TypeOK' /\ LoopAt' /\ start_bucket_run_ts' <= now
    BY <1>1 DEF WheelInv, TypeOK, Times, LoopAt, Past
  <1> QED
    BY <1>1, <1>2, LoopMovesOn

(* stop() (time_service.cpp 27-32). *)
LEMMA StopStep ==
  ASSUME WheelInv, UNCHANGED scenario, Stop PROVE WheelInv' /\ (OrderInv => OrderInv')
  <1>1. /\ scenario.mayStop /\ stop_flag' = TRUE
        /\ UNCHANGED <<scenario, now, start_bucket_run_ts, scan_over_ts,
                       waiting_queue, ready_queue, link, lpc, idx, rpc, rframe,
                       rstart, wake_up_ts, frame, bucket_of>>
    BY DEF Stop, wheel, registrar
  <1>2. TypeOK'
    BY <1>1 DEF WheelInv, TypeOK, Times
  <1>3. Lists' /\ (SortedBuckets => SortedBuckets')
    BY <1>1, <1>2, ListsKept, SortedKept DEF WheelInv
  <1> QED
    BY <1>1, <1>2, <1>3
       DEF WheelInv, OrderInv, Owners, WakeOrder, Past, LoopAt, DueAfterScan

(* The clock goes on: in a prompt system no frame is being registered then,   *)
(* so that the next one to come still wakes up after those in the wheel.      *)
LEMMA TickStep ==
  ASSUME WheelInv, UNCHANGED scenario, Tick PROVE WheelInv' /\ (OrderInv => OrderInv')
  <1>1. /\ now < scenario.until /\ now' = now + 1
        /\ scenario.prompt => \A r \in Registrars : rpc[r] = "idle"
        /\ UNCHANGED <<scenario, stop_flag, start_bucket_run_ts, scan_over_ts,
                       waiting_queue, ready_queue, link, lpc, idx, rpc, rframe,
                       rstart, wake_up_ts, frame, bucket_of>>
    BY DEF Tick, wheel, registrar
  <1>2. TypeOK
    BY DEF WheelInv
  <1>3. TypeOK'
    BY <1>1, <1>2, Types DEF TypeOK, Times
  <1>4. Lists' /\ (SortedBuckets => SortedBuckets')
    BY <1>1, <1>2, <1>3, ListsKept, SortedKept DEF WheelInv
  <1>5. ASSUME WakeOrder PROVE WakeOrder'
    <2>1. \A f \in Frames : frame[f] \in {"registering", "asleep"} =>
            \E d \in scenario.sleepTimes : wake_up_ts[f] <= now' + d
      BY <1>1, <1>2, <1>5, Types DEF WakeOrder
    <2>2. scenario.prompt => \A f \in Frames : frame[f] # "registering"
      BY <1>1 DEF WheelInv, Owners
    <2> QED
      BY <1>1, <1>5, <2>1, <2>2 DEF WakeOrder
  <1>6. Past'
    <2>1. \A r \in Registrars : rpc[r] = "missed" => rframe[r] \in Frames
      BY DEF WheelInv, Owners
    <2> QED
      BY <1>1, <1>2, <2>1, Types DEF WheelInv, Past
  <1> QED
    BY <1>1, <1>3, <1>4, <1>5, <1>6
       DEF WheelInv, OrderInv, Owners, LoopAt, DueAfterScan

LEMMA StutterStep ==
  ASSUME WheelInv, UNCHANGED vars PROVE WheelInv' /\ (OrderInv => OrderInv')
  <1>1. TypeOK'
    BY DEF vars, WheelInv, TypeOK, Times
  <1>2. Lists' /\ (SortedBuckets => SortedBuckets')
    BY <1>1, ListsKept, SortedKept DEF vars, WheelInv
  <1> QED
    BY <1>1, <1>2
       DEF vars, WheelInv, OrderInv, Owners, WakeOrder, Past, LoopAt, DueAfterScan

-----------------------------------------------------------------------------
(* A scan (time_service.cpp 93-104): the frames of the bucket that are in T   *)
(* become due, the rest stays in order, the other buckets are not touched.    *)
LEMMA ScanEffect ==
  ASSUME WheelInv, NEW T \in SUBSET Frames, ScanBucket(T), ready_queue.size = 0,
         UNCHANGED <<bucket_of, wake_up_ts>>,
         Last(Chain(waiting_queue[idx], link)) \in T =>
           Members(waiting_queue[idx], link) \subseteq T
  PROVE  /\ Lists' /\ (SortedBuckets => SortedBuckets')
         /\ \A f \in Frames :
              frame'[f] = IF frame[f] = "asleep" /\ bucket_of[f] = idx /\ f \in T
                          THEN "due" ELSE frame[f]
         /\ \A b \in Buckets :
              scan_over_ts'[b] = IF b = idx THEN now ELSE scan_over_ts[b]
         /\ scan_over_ts' \in [Buckets -> Times]
         /\ waiting_queue' \in [Buckets -> Queues]
         /\ ready_queue' \in Queues /\ link' \in Heaps
         /\ frame' \in [Frames -> {"awake", "registering", "asleep", "due"}]
  <1> DEFINE q == waiting_queue[idx]
             s == Chain(q, link)
             a == FetchNodes(q, link, T)
             moved == Chain(a.target, a.link)
  <1>1. TypeOK /\ Lists /\ idx \in Buckets /\ link \in Heaps
    BY Types DEF WheelInv
  <1>2. IsList(q, link)
    BY <1>1 DEF Lists
  <1>3. /\ scan_over_ts' = [scan_over_ts EXCEPT ![idx] = now]
        /\ waiting_queue' = [waiting_queue EXCEPT ![idx] = a.queue]
        /\ ready_queue' = a.target
        /\ link' = a.link
        /\ frame' = [f \in Frames |-> IF \E i \in DOMAIN moved : moved[i] = f
                                      THEN "due" ELSE frame[f]]
    BY DEF ScanBucket
  <1>4. Last(s) \in T => Members(q, link) \subseteq T
    OBVIOUS
  <1> HIDE DEF q, a, s
  <1>5. /\ link' \in Heaps
        /\ IsList(a.queue, link') /\ IsList(a.target, link')
        /\ Chain(a.queue, link') = Those(s, Frames \ T)
        /\ Members(a.queue, link') = Members(q, link) \ T
        /\ Members(a.target, link') = Members(q, link) \cap T
        /\ \A g \in Frames : g \notin Members(q, link) => link'[g] = link[g]
    <2>1. Last(Chain(q, link)) \in T => Members(q, link) \subseteq T
      BY <1>4 DEF s
    <2>2. /\ a.link \in Heaps
          /\ IsList(a.queue, a.link) /\ IsList(a.target, a.link)
          /\ Chain(a.queue, a.link) = Those(Chain(q, link), Frames \ T)
          /\ Members(a.queue, a.link) = Members(q, link) \ T
          /\ Members(a.target, a.link) = Members(q, link) \cap T
          /\ \A g \in Frames : g \notin Members(q, link) => a.link[g] = link[g]
      <3>1. link \in Heaps /\ IsList(q, link)
        BY <1>1, <1>2
      <3> QED
        BY <2>1, <3>1, FetchSplits DEF a
    <2> QED
      BY <1>3, <2>2 DEF s
  <1>6. a.queue \in Queues /\ a.target \in Queues
    BY <1>5 DEF IsList
  <1>7. /\ \A b \in Buckets :
             /\ scan_over_ts'[b] = IF b = idx THEN now ELSE scan_over_ts[b]
             /\ waiting_queue'[b] = IF b = idx THEN a.queue ELSE waiting_queue[b]
        /\ scan_over_ts' \in [Buckets -> Times]
        /\ waiting_queue' \in [Buckets -> Queues]
    BY <1>1, <1>3, <1>6 DEF TypeOK
  <1>8. \A f \in Frames :
          f \in Members(q, link) <=> frame[f] = "asleep" /\ bucket_of[f] = idx
    BY <1>1 DEF Lists, q
  <1>9. \A f \in Frames :
          frame'[f] = IF frame[f] = "asleep" /\ bucket_of[f] = idx /\ f \in T
                      THEN "due" ELSE frame[f]
    <2>1. DOMAIN moved = 1..a.target.size
      BY <1>3, <1>5 DEF IsList
    <2>2. \A f : (\E i \in DOMAIN moved : moved[i] = f) <=> f \in Members(a.target, link')
      BY <1>3, <2>1 DEF Members
    <2> HIDE DEF moved
    <2> QED
      BY <1>3, <1>5, <1>8, <2>2
  <1>10. frame' \in [Frames -> {"awake", "registering", "asleep", "due"}]
    <2>1. frame' = [f \in Frames |-> frame'[f]]
      BY <1>3
    <2>2. \A f \in Frames : frame'[f] \in {"awake", "registering", "asleep", "due"}
      BY <1>1, <1>9 DEF TypeOK
    <2> QED
      BY <2>1, <2>2
  <1>11. ASSUME NEW b \in Buckets, b # idx
         PROVE  /\ IsList(waiting_queue[b], link')
                /\ Chain(waiting_queue[b], link') = Chain(waiting_queue[b], link)
                /\ Members(waiting_queue[b], link') = Members(waiting_queue[b], link)
    <2> DEFINE p == waiting_queue[b]
    <2>1. IsList(p, link)
      BY <1>1 DEF Lists
    <2>2. ASSUME NEW i \in 1..p.size
          PROVE  Chain(p, link)[i] \in Frames
                   /\ Chain(p, link)[i] \notin Members(q, link)
      <3>1. /\ Chain(p, link)[i] \in Frames
            /\ bucket_of[Chain(p, link)[i]] = b
        BY <1>1, OnList
      <3> QED
        BY <1>8, <1>11, <3>1
    <2> HIDE DEF p
    <2>3. \A i \in 1..p.size : link'[Chain(p, link)[i]] = link[Chain(p, link)[i]]
      BY <1>5, <2>2
    <2>4. IsList(p, link') /\ Chain(p, link') = Chain(p, link)
      BY <1>1, <1>5, <2>1, <2>3, KeepsList
    <2>5. Members(p, link') = Members(p, link)
      BY <2>4 DEF Members
    <2> QED
      BY <2>4, <2>5 DEF p
  <1>12. \A f \in Frames : frame[f] # "due"
    <2>1. Members(ready_queue, link) = {}
      BY DEF Members
    <2> QED
      BY <1>1, <2>1 DEF Lists
  <1>13. Lists'
    <2>1. \A b \in Buckets : IsList(waiting_queue'[b], link')
      BY <1>5, <1>7, <1>11
    <2>2. ASSUME NEW b \in Buckets, NEW f \in Frames
          PROVE  f \in Members(waiting_queue'[b], link')
                   <=> frame'[f] = "asleep" /\ bucket_of'[f] = b
      <3>1. CASE b = idx
        <4>1. Members(waiting_queue'[b], link') = Members(q, link) \ T
          BY <1>5, <1>7, <3>1
        <4> QED
          BY <1>8, <1>9, <3>1, <4>1
      <3>2. CASE b # idx
        <4>1. Members(waiting_queue'[b], link') = Members(waiting_queue[b], link)
          BY <1>7, <1>11, <3>2
        <4>2. f \in Members(waiting_queue[b], link)
                <=> frame[f] = "asleep" /\ bucket_of[f] = b
          BY <1>1 DEF Lists
        <4> QED
          BY <1>9, <3>2, <4>1, <4>2
      <3> QED
        BY <3>1, <3>2
    <2>3. \A f \in Frames : f \in Members(ready_queue', link') <=> frame'[f] = "due"
      BY <1>3, <1>5, <1>8, <1>9, <1>12
    <2>4. \A f \in Frames : frame'[f] \in {"awake", "registering"} => link'[f] = Null
      <3>1. \A f \in Frames : frame'[f] \in {"awake", "registering"} =>
              frame[f] \in {"awake", "registering"} /\ f \notin Members(q, link)
        BY <1>8, <1>9
      <3> QED
        BY <1>1, <1>5, <3>1 DEF Lists
    <2> QED
      BY <1>3, <1>5, <2>1, <2>2, <2>3, <2>4 DEF Lists
  <1>14. ASSUME SortedBuckets PROVE SortedBuckets'
    <2> SUFFICES ASSUME NEW b \in Buckets
                 PROVE  Sorted(waiting_queue'[b], link', wake_up_ts)
      BY DEF SortedBuckets
    <2>1. Sorted(waiting_queue[b], link, wake_up_ts)
      BY <1>14 DEF SortedBuckets
    <2>2. CASE b # idx
      BY <1>7, <1>11, <2>1, <2>2 DEF Sorted
    <2>3. CASE b = idx
      <3> DEFINE n == q.size
                 t == Those(s, Frames \ T)
                 m == Cardinality(Places(s, Frames \ T))
      <3>1. n \in Nat /\ s \in [1..n -> Frames]
        BY <1>2 DEF IsList, Queues, s
      <3>2. m \in Nat /\ t \in [1..m -> Frames] /\ \E at : Selects(at, t, s, Frames \ T)
        BY <3>1, ThoseIs
      <3>3. PICK at : Selects(at, t, s, Frames \ T)
        BY <3>2
      <3> HIDE DEF t, m, n
      <3>4. /\ at \in [1..m -> Places(s, Frames \ T)]
            /\ \A k \in 1..m : t[k] = s[at[k]]
            /\ \A k, l \in 1..m : k < l => at[k] < at[l]
        BY <3>3 DEF Selects, m
      <3>5. \A k \in 1..m : at[k] \in 1..n
        BY <3>1, <3>4 DEF Places
      <3>6. DOMAIN t = 1..m /\ DOMAIN t = 1..a.queue.size
        BY <1>5, <3>2 DEF IsList, t
      <3>7. \A i, j \in 1..n : i < j => wake_up_ts[s[i]] <= wake_up_ts[s[j]]
        BY <2>1, <2>3 DEF Sorted, s, n, q
      <3>8. \A k, l \in 1..m : k < l => wake_up_ts[t[k]] <= wake_up_ts[t[l]]
        BY <3>4, <3>5, <3>7
      <3>9. Sorted(a.queue, link', wake_up_ts)
        BY <1>5, <3>6, <3>8 DEF Sorted, t
      <3> QED
        BY <1>7, <2>3, <3>9
    <2> QED
      BY <2>2, <2>3
  <1> QED
    BY <1>3, <1>5, <1>6, <1>7, <1>9, <1>10, <1>13, <1>14

(* The last frame of a sorted bucket is due only when all of them are ...     *)
LEMMA SortedTailLast ==
  ASSUME WheelInv, SortedBuckets PROVE TailLast
  <1> DEFINE q == waiting_queue[idx]
             s == Chain(q, link)
             n == q.size
  <1>1. idx \in Buckets /\ wake_up_ts \in [Frames -> Nat] /\ now \in Nat
    BY Types DEF WheelInv
  <1>2. n \in Nat /\ s \in [1..n -> Frames]
    <2>1. IsList(q, link)
      BY <1>1 DEF WheelInv, Lists
    <2> HIDE DEF q
    <2> QED
      BY <2>1 DEF IsList, Queues
  <1>3. \A i, j \in 1..n : i < j => wake_up_ts[s[i]] <= wake_up_ts[s[j]]
    BY <1>1 DEF SortedBuckets, Sorted
  <1> HIDE DEF n, s, q
  <1>4. Last(s) = IF n = 0 THEN Null ELSE s[n]
    BY <1>2, ListEnds
  <1>5. ASSUME wake_up_ts[Last(s)] <= now, NEW i \in 1..n
        PROVE  wake_up_ts[s[i]] <= now
    <2>1. Last(s) = s[n] /\ n \in 1..n /\ s[i] \in Frames /\ (i = n \/ i < n)
      BY <1>2, <1>4
    <2>2. i = n \/ wake_up_ts[s[i]] <= wake_up_ts[s[n]]
      BY <1>3, <2>1
    <2> QED
      BY <1>1, <1>2, <1>5, <2>1, <2>2
  <1> QED
    BY <1>2, <1>5 DEF TailLast, s, q

(* ... and then the scan takes all.                                           *)
LEMMA LastTaken ==
  ASSUME WheelInv, TailLast, lpc = "scan"
  PROVE  LET T == {f \in Frames : wake_up_ts[f] <= now}
         IN  Last(Chain(waiting_queue[idx], link)) \in T =>
               Members(waiting_queue[idx], link) \subseteq T
  <1> DEFINE q == waiting_queue[idx]
             s == Chain(q, link)
  <1>0. idx \in Buckets
    BY Types DEF WheelInv
  <1>1. IsList(q, link)
    BY <1>0 DEF WheelInv, Lists
  <1>2. \A i \in DOMAIN s : wake_up_ts[Last(s)] <= now => wake_up_ts[s[i]] <= now
    BY <1>0 DEF TailLast
  <1> HIDE DEF q
  <1>3. s \in [1..q.size -> Frames] /\ Members(q, link) = {s[i] : i \in 1..q.size}
    BY <1>1 DEF IsList, Members
  <1> HIDE DEF s
  <1> QED
    BY <1>2, <1>3 DEF q, s

(* What holds of the wheel after a scan that wakes the frames of T in time.   *)
LEMMA ScanKeeps ==
  ASSUME WheelInv, NEW T \in SUBSET Frames, ScanBucket(T), ready_queue.size = 0,
         Last(Chain(waiting_queue[idx], link)) \in T =>
           Members(waiting_queue[idx], link) \subseteq T,
         \A f \in T : wake_up_ts[f] <= now \/ stop_flag,
         \A f \in Frames : wake_up_ts[f] <= now => f \in T,
         lpc' \in {"hand_over", "force_hand_over"},
         lpc' = "force_hand_over" => stop_flag,
         UNCHANGED <<scenario, now, stop_flag, start_bucket_run_ts, idx, rpc,
                     rframe, rstart, wake_up_ts, bucket_of>>
  PROVE  WheelInv' /\ (OrderInv => OrderInv')
  <1>1. /\ Lists' /\ (SortedBuckets => SortedBuckets')
        /\ \A f \in Frames :
             frame'[f] = IF frame[f] = "asleep" /\ bucket_of[f] = idx /\ f \in T
                         THEN "due" ELSE frame[f]
        /\ \A b \in Buckets :
             scan_over_ts'[b] = IF b = idx THEN now ELSE scan_over_ts[b]
        /\ scan_over_ts' \in [Buckets -> Times]
        /\ waiting_queue' \in [Buckets -> Queues]
        /\ ready_queue' \in Queues /\ link' \in Heaps
        /\ frame' \in [Frames -> {"awake", "registering", "asleep", "due"}]
    BY ScanEffect
  <1>2. TypeOK
    BY DEF WheelInv
  <1>3. TypeOK'
    BY <1>1, <1>2 DEF TypeOK, Times
  <1>4. \A f \in Frames :
          /\ frame'[f] # "awake" => frame[f] # "awake"
          /\ frame'[f] = "registering" <=> frame[f] = "registering"
          /\ frame'[f] = "asleep" => frame[f] = "asleep"
          /\ frame'[f] = "due" => frame[f] = "due" \/ f \in T
    BY <1>1
  <1>5. Owners'
    BY <1>4 DEF WheelInv, Owners
  <1>6. WakeOrder => WakeOrder'
    <2>1. \A f \in Frames : frame'[f] \in {"registering", "asleep"} =>
            frame[f] \in {"registering", "asleep"}
      BY <1>4
    <2> QED
      BY <1>4, <2>1 DEF WakeOrder
  <1>7. Past'
    <2>1. \A b \in Buckets : scan_over_ts'[b] <= now
      BY <1>1, <1>2, Types DEF WheelInv, Past
    <2> QED
      BY <1>4, <2>1 DEF WheelInv, Past
  <1>8. LoopAt'
    BY DEF WheelInv, LoopAt
  <1>9. DueAfterScan'
    <2> SUFFICES ASSUME NEW f \in Frames, frame'[f] = "asleep"
                 PROVE  wake_up_ts[f] > scan_over_ts'[bucket_of[f]]
      BY DEF DueAfterScan
    <2>1. frame[f] = "asleep" /\ bucket_of[f] \in Buckets
      BY <1>2, <1>4, Types
    <2>2. CASE bucket_of[f] = idx
      <3>1. f \notin T
        BY <1>1, <2>1, <2>2
      <3>2. ~(wake_up_ts[f] <= now)
        BY <3>1
      <3> QED
        BY <1>1, <1>2, <2>1, <2>2, <3>2, Types
    <2>3. CASE bucket_of[f] # idx
      BY <1>1, <2>1, <2>3 DEF WheelInv, DueAfterScan
    <2> QED
      BY <2>2, <2>3
  <1> QED
    BY <1>1, <1>3, <1>5, <1>6, <1>7, <1>8, <1>9 DEF WheelInv, OrderInv

LEMMA ScanStep ==
  ASSUME WheelInv, TailLast, UNCHANGED scenario, Scan
  PROVE  WheelInv' /\ (OrderInv => OrderInv')
  <1> DEFINE T == {f \in Frames : wake_up_ts[f] <= now}
  <1>1. /\ lpc = "scan" /\ ScanBucket(T) /\ lpc' = "hand_over"
        /\ UNCHANGED <<scenario, now, stop_flag, start_bucket_run_ts, idx, rpc,
                       rframe, rstart, wake_up_ts, bucket_of>>
    BY DEF Scan, registrar
  <1>2. ready_queue.size = 0 /\ idx \in Buckets
    BY <1>1, Types DEF WheelInv, LoopAt
  <1>3. Last(Chain(waiting_queue[idx], link)) \in T =>
          Members(waiting_queue[idx], link) \subseteq T
    BY <1>1, <1>2, LastTaken
  <1>4. T \in SUBSET Frames /\ \A f \in Frames : f \in T <=> wake_up_ts[f] <= now
    OBVIOUS
  <1> HIDE DEF T
  <1> QED
    BY <1>1, <1>2, <1>3, <1>4, ScanKeeps

(* Once the loop has ended every frame of a bucket is taken                   *)
(* (time_service.cpp 86-90).                                                  *)
LEMMA ForceScanStep ==
  ASSUME WheelInv, UNCHANGED scenario, ForceScan PROVE WheelInv' /\ (OrderInv => OrderInv')
  <1>1. /\ lpc = "force_scan" /\ ScanBucket(Frames) /\ lpc' = "force_hand_over"
        /\ UNCHANGED <<scenario, now, stop_flag, start_bucket_run_ts, idx, rpc,
                       rframe, rstart, wake_up_ts, bucket_of>>
    BY DEF ForceScan, registrar
  <1>2. ready_queue.size = 0 /\ stop_flag /\ idx \in Buckets
    BY <1>1, Types DEF WheelInv, LoopAt
  <1>3. Members(waiting_queue[idx], link) \subseteq Frames
    <2>1. IsList(waiting_queue[idx], link)
      BY <1>2 DEF WheelInv, Lists
    <2> QED
      BY <2>1 DEF IsList, Members
  <1> QED
    BY <1>1, <1>2, <1>3, ScanKeeps

(* A frame of ready_queue goes back to the scheduler                          *)
(* (time_service.cpp 106-110).                                                *)
LEMMA HandOverOneStep ==
  ASSUME WheelInv, UNCHANGED scenario, HandOverOne PROVE WheelInv' /\ (OrderInv => OrderInv')
  <1> DEFINE a == PopFromHead(ready_queue, link)
             f == ready_queue.head
  <1>1. /\ lpc \in {"hand_over", "force_hand_over"} /\ ready_queue.size # 0
        /\ ready_queue' = a.queue /\ link' = a.link
        /\ frame' = [frame EXCEPT ![f] = "awake"]
        /\ UNCHANGED <<scenario, now, stop_flag, start_bucket_run_ts, scan_over_ts,
                       waiting_queue, lpc, idx, rpc, rframe, rstart, wake_up_ts,
                       bucket_of>>
    BY DEF HandOverOne, registrar
  <1>2. TypeOK /\ Lists /\ IsList(ready_queue, link) /\ link \in Heaps
    BY Types DEF WheelInv, Lists
  <1> HIDE DEF a, f
  <1>3. /\ IsList(a.queue, a.link) /\ a.link \in Heaps
        /\ f \in Members(ready_queue, link)
        /\ Members(a.queue, a.link) = Members(ready_queue, link) \ {f}
        /\ \A g \in Frames : a.link[g] = IF g = f THEN Null ELSE link[g]
    <2>1. ready_queue.size # 0 /\ IsList(ready_queue, link) /\ link \in Heaps
      BY <1>1, <1>2
    <2>2. /\ IsList(a.queue, a.link) /\ a.link \in Heaps
          /\ ready_queue.head \in Members(ready_queue, link)
          /\ Members(a.queue, a.link) =
               Members(ready_queue, link) \ {ready_queue.head}
      BY <2>1, PopList DEF a
    <2>3. \A g \in Frames :
            a.link[g] = IF g = ready_queue.head THEN Null ELSE link[g]
      BY <2>1 DEF a, PopFromHead, Heaps
    <2> QED
      BY <2>2, <2>3 DEF f
  <1>4. f \in Frames /\ frame[f] = "due"
    <2>1. Members(ready_queue, link) \subseteq Frames
      BY <1>2 DEF IsList, Members
    <2> QED
      BY <1>2, <1>3, <2>1 DEF Lists
  <1>5. \A g \in Frames : frame'[g] = IF g = f THEN "awake" ELSE frame[g]
    BY <1>1, <1>2, <1>4 DEF TypeOK
  <1>6. TypeOK'
    <2>1. /\ a.queue \in Queues
          /\ frame' \in [Frames -> {"awake", "registering", "asleep", "due"}]
      BY <1>1, <1>2, <1>3, <1>4 DEF TypeOK, IsList
    <2> QED
      BY <1>1, <1>2, <1>3, <2>1 DEF TypeOK, Times
  <1>7. ASSUME NEW b \in Buckets
        PROVE  /\ IsList(waiting_queue[b], link')
               /\ Chain(waiting_queue[b], link') = Chain(waiting_queue[b], link)
               /\ Members(waiting_queue[b], link') = Members(waiting_queue[b], link)
    <2> DEFINE p == waiting_queue[b]
    <2>1. IsList(p, link)
      BY <1>2 DEF Lists
    <2>2. ASSUME NEW i \in 1..p.size
          PROVE  Chain(p, link)[i] \in Frames /\ Chain(p, link)[i] # f
      BY <1>2, <1>4, OnList
    <2> HIDE DEF p
    <2>3. \A i \in 1..p.size : link'[Chain(p, link)[i]] = link[Chain(p, link)[i]]
      BY <1>1, <1>3, <2>2
    <2>4. IsList(p, link') /\ Chain(p, link') = Chain(p, link)
      BY <1>1, <1>2, <1>3, <2>1, <2>3, KeepsList
    <2>5. Members(p, link') = Members(p, link)
      BY <2>4 DEF Members
    <2> QED
      BY <2>4, <2>5 DEF p
  <1>8. Lists'
    <2>1. \A b \in Buckets, g \in Frames :
            g \in Members(waiting_queue[b], link')
              <=> frame'[g] = "asleep" /\ bucket_of[g] = b
      BY <1>2, <1>4, <1>5, <1>7 DEF Lists
    <2>2. \A g \in Frames : g \in Members(ready_queue', link') <=> frame'[g] = "due"
      BY <1>1, <1>2, <1>3, <1>5 DEF Lists
    <2>3. \A g \in Frames : frame'[g] \in {"awake", "registering"} => link'[g] = Null
      BY <1>1, <1>2, <1>3, <1>5 DEF Lists
    <2> QED
      BY <1>1, <1>3, <1>7, <2>1, <2>2, <2>3 DEF Lists
  <1>9. SortedBuckets => SortedBuckets'
    BY <1>1, <1>7 DEF SortedBuckets, Sorted
  <1>10. \A g \in Frames :
           /\ frame'[g] # "awake" => frame[g] # "awake"
           /\ frame'[g] = "registering" <=> frame[g] = "registering"
           /\ frame'[g] = "asleep" <=> frame[g] = "asleep"
           /\ frame'[g] = "due" => frame[g] = "due"
    BY <1>4, <1>5
  <1>11. Owners'
    BY <1>1, <1>10 DEF WheelInv, Owners
  <1>12. WakeOrder => WakeOrder'
    BY <1>1, <1>10 DEF WakeOrder
  <1>13. Past' /\ LoopAt' /\ DueAfterScan'
    BY <1>1, <1>10 DEF WheelInv, Past, LoopAt, DueAfterScan
  <1> QED
    BY <1>6, <1>8, <1>9, <1>11, <1>12, <1>13 DEF WheelInv, OrderInv

-----------------------------------------------------------------------------
(* Every step keeps the wheel, if a scan takes the last frame of a bucket     *)
(* only with all the others ...                                               *)
LEMMA WheelNext ==
  WheelInv /\ [Next]_vars /\ [Scan => TailLast]_vars => WheelInv'
  <1> SUFFICES ASSUME WheelInv, [Next]_vars, [Scan => TailLast]_vars
               PROVE  WheelInv'
    OBVIOUS
  <1>1. CASE \E r \in Registrars : Registrar(r)
    BY <1>1, ReadStartStep, InsertStep, CommitMissedStep DEF Registrar
  <1>2. CASE Loop
    <2>1. Scan => TailLast
      BY DEF Scan, TailLast, vars
    <2> QED
      BY <1>2, <2>1, AdvanceStep, ScanStep, HandOverOneStep, HandOverEndsStep,
         WaitEndsStep, ForceScanStep, ForceHandOverEndsStep DEF Loop
  <1>3. CASE Surroundings
    BY <1>3, SleepStep, StopStep, TickStep, StutterStep DEF Surroundings, ClockEnds
  <1>4. CASE UNCHANGED vars
    BY <1>4, StutterStep
  <1> QED
    BY <1>1, <1>2, <1>3, <1>4 DEF Next

(* ... which every scan does where frames enter the wheel in order.           *)
LEMMA OrderNext ==
  ASSUME AllInOrder
  PROVE  WheelInv /\ OrderInv /\ [Next]_vars =>
           WheelInv' /\ OrderInv' /\ [Scan => TailLast]_vars
  <1> SUFFICES ASSUME WheelInv, OrderInv, [Next]_vars
               PROVE  WheelInv' /\ OrderInv' /\ (Scan => TailLast)
    OBVIOUS
  <1>1. Scan => TailLast
    BY SortedTailLast DEF OrderInv
  <1>2. CASE \E r \in Registrars : Registrar(r)
    BY <1>1, <1>2, ReadStartStep, InsertStep, CommitMissedStep DEF Registrar
  <1>3. CASE Loop
    BY <1>1, <1>3, AdvanceStep, ScanStep, HandOverOneStep, HandOverEndsStep,
       WaitEndsStep, ForceScanStep, ForceHandOverEndsStep DEF Loop
  <1>4. CASE Surroundings
    BY <1>1, <1>4, SleepStep, StopStep, TickStep, StutterStep
       DEF Surroundings, ClockEnds
  <1>5. CASE UNCHANGED vars
    BY <1>1, <1>5, StutterStep
  <1> QED
    BY <1>2, <1>3, <1>4, <1>5 DEF Next

(* The scans of a behaviour (time_service.cpp 93-104) break no queue.         *)
WholeScans == [][Scan => TailLast]_vars

(* Where frames enter the wheel in the order of their wake-up times no scan   *)
(* takes the last frame of a bucket and leaves another (queue.ipp 49-71).     *)
THEOREM OrderedScans ==
  ASSUME AllInOrder PROVE Spec => WholeScans
  <1>1. Init => WheelInv /\ OrderInv
    BY WheelInit
  <1>2. WheelInv /\ OrderInv /\ [Next]_vars =>
          WheelInv' /\ OrderInv' /\ [Scan => TailLast]_vars
    BY OrderNext
  <1> QED
    BY <1>1, <1>2, PTL DEF Spec, WholeScans

(* Every state of the time service is one of its types: no index leaves the   *)
(* wheel and no size of a queue falls below zero (time_service.h 36-58).      *)
THEOREM TimerTypeOK ==
  Spec /\ WholeScans => []TypeOK
  <1>1. WheelInv => TypeOK
    BY DEF WheelInv
  <1> QED
    BY <1>1, WheelInit, WheelNext, PTL DEF Spec, WholeScans

(* A sleeping frame is on the list of its bucket, where the scan looks for it,*)
(* and nothing else is: registrations and scans (time_service.cpp 39-60,      *)
(* 93-111) neither lose a frame nor leave one in a queue it has left.         *)
THEOREM SleepersStayReachable ==
  Spec /\ WholeScans => []SleepersReachable
  <1>1. WheelInv => SleepersReachable
    <2> SUFFICES ASSUME WheelInv PROVE SleepersReachable
      OBVIOUS
    <2>1. ASSUME NEW q, IsList(q, link)
          PROVE  Listed(q) = Members(q, link) /\ Members(q, link) \subseteq Frames
      BY <2>1 DEF Listed, Members, IsList
    <2>2. ASSUME NEW b \in Buckets
          PROVE  Listed(waiting_queue[b]) =
                   {f \in Frames : frame[f] = "asleep" /\ bucket_of[f] = b}
      <3>1. IsList(waiting_queue[b], link)
        BY DEF WheelInv, Lists
      <3> QED
        BY <2>1, <3>1 DEF WheelInv, Lists
    <2>3. Listed(ready_queue) = {f \in Frames : frame[f] = "due"}
      <3>1. IsList(ready_queue, link)
        BY DEF WheelInv, Lists
      <3> QED
        BY <2>1, <3>1 DEF WheelInv, Lists
    <2> QED
      BY <2>2, <2>3 DEF SleepersReachable
  <1> QED
    BY <1>1, WheelInit, WheelNext, PTL DEF Spec, WholeScans

(* No frame sleeps behind a scan that should have woken it, however its       *)
(* registration and the scan interleave (time_service.cpp 50-57, 97-104).     *)
THEOREM SleepersDueAfterScan ==
  Spec /\ WholeScans => []DueAfterScan
  <1>1. WheelInv => DueAfterScan
    BY DEF WheelInv
  <1> QED
    BY <1>1, WheelInit, WheelNext, PTL DEF Spec, WholeScans

(* The assertion of append_to_tail (queue.ipp 38) holds at every registration.*)
THEOREM AppendsHold ==
  Spec /\ WholeScans => []AppendAssert
  <1>1. WheelInv => AppendAssert
    BY DEF WheelInv, Lists, Owners, AppendAssert
  <1> QED
    BY <1>1, WheelInit, WheelNext, PTL DEF Spec, WholeScans

(* A step gives a frame back to the scheduler only when it is time, or after  *)
(* stop() (time_service.cpp 58-60, 106-110).                                  *)
LEMMA WakesInTime ==
  ASSUME WheelInv, Next
  PROVE  \A f \in Frames : frame[f] # "awake" /\ frame'[f] = "awake" =>
           now >= wake_up_ts[f] \/ stop_flag
  <1> SUFFICES ASSUME NEW f \in Frames, frame[f] # "awake", frame'[f] = "awake"
               PROVE  now >= wake_up_ts[f] \/ stop_flag
    OBVIOUS
  <1>1. /\ now \in Nat /\ wake_up_ts[f] \in Nat
        /\ DOMAIN frame = Frames
    BY Types DEF WheelInv
  <1>2. CASE \E r \in Registrars : CommitMissed(r)
    <2>1. PICK r \in Registrars : CommitMissed(r)
      BY <1>2
    <2>2. f = rframe[r] /\ rpc[r] = "missed"
      BY <1>1, <2>1 DEF CommitMissed
    <2>3. wake_up_ts[f] <= now
      BY <2>2 DEF WheelInv, Past
    <2> QED
      BY <1>1, <2>3
  <1>3. CASE HandOverOne
    <2>1. f = ready_queue.head
      BY <1>1, <1>3 DEF HandOverOne
    <2>2. f \in Members(ready_queue, link)
      <3>1. IsList(ready_queue, link) /\ link \in Heaps /\ ready_queue.size # 0
        BY <1>3, Types DEF WheelInv, Lists, HandOverOne
      <3> QED
        BY <2>1, <3>1, PopList
    <2>3. frame[f] = "due"
      BY <2>2 DEF WheelInv, Lists
    <2> QED
      BY <1>1, <2>3 DEF WheelInv, Past
  <1>4. CASE \E r \in Registrars : ReadStart(r) \/ Insert(r)
    <2>1. ASSUME NEW r \in Registrars, ReadStart(r) PROVE FALSE
      BY <2>1 DEF ReadStart
    <2>2. ASSUME NEW r \in Registrars, Insert(r) PROVE FALSE
      <3>1. frame' = frame \/ frame' = [frame EXCEPT ![rframe[r]] = "asleep"]
        BY <2>2 DEF Insert
      <3> QED
        BY <1>1, <3>1
    <2> QED
      BY <1>4, <2>1, <2>2
  <1>5. CASE Scan \/ ForceScan
    <2>1. ASSUME NEW T, ScanBucket(T) PROVE FALSE
      BY <1>1, <2>1 DEF ScanBucket
    <2> QED
      BY <1>5, <2>1 DEF Scan, ForceScan
  <1>6. CASE Advance \/ HandOverEnds \/ WaitEnds \/ ForceHandOverEnds \/ Stop
               \/ Tick \/ ClockEnds
    BY <1>6 DEF Advance, HandOverEnds, WaitEnds, ForceHandOverEnds, Stop, Tick,
                ClockEnds, vars
  <1>7. CASE \E r \in Registrars, g \in scenario.sleepers,
               d \in scenario.sleepTimes : Sleep(r, g, d)
    <2>1. PICK r \in Registrars, g \in scenario.sleepers,
               d \in scenario.sleepTimes : Sleep(r, g, d)
      BY <1>7
    <2>2. frame' = [frame EXCEPT ![g] = "registering"]
      BY <2>1 DEF Sleep
    <2> QED
      BY <1>1, <2>2
  <1> QED
    BY <1>2, <1>3, <1>4, <1>5, <1>6, <1>7 DEF Next, Registrar, Loop, Surroundings

(* A coroutine does not go on before its time, unless the service was stopped.*)
THEOREM NobodyWakesEarly ==
  Spec /\ WholeScans => NoEarlyWake
  <1>1. WheelInv /\ [Next]_vars =>
          [\A f \in Frames : frame[f] # "awake" /\ frame'[f] = "awake" =>
             now >= wake_up_ts[f] \/ stop_flag]_vars
    BY WakesInTime
  <1> QED
    BY <1>1, WheelInit, WheelNext, PTL DEF Spec, WholeScans, NoEarlyWake

-----------------------------------------------------------------------------
(* How late a prompt system is, as long as nobody stops the service.          *)
Unstopped == \A s \in Scenarios : s.prompt => ~s.mayStop

Revolution == precision * BUCKET_NUM

(* The bucket has been scanned in the revolution the loop is in, and when the *)
(* next scan of it is to be.                                                  *)
Scanned(b) == IF lpc = "scan" THEN b < idx ELSE b <= idx
NextScan(b) == IF Scanned(b) THEN start_bucket_run_ts + Revolution + precision * b
               ELSE start_bucket_run_ts + precision * b

(* The loop thread keeps to its times, the first turn of it excepted, where   *)
(* bucket 1 is scanned as soon as the thread starts; a revolution starts at a *)
(* multiple of its length, and so does the one a thread has read.             *)
Punctual ==
  /\ ~stop_flag /\ lpc \in {"advance", "scan", "hand_over", "wait"}
  /\ start_bucket_run_ts % Revolution = 0
  /\ \A r \in Registrars : rpc[r] = "insert" => rstart[r] % Revolution = 0
  /\ lpc = "advance" => now = NextRun
                          \/ (now = 0 /\ start_bucket_run_ts = 0 /\ idx = 0)
  /\ lpc = "scan" => now = start_bucket_run_ts + precision * idx
                       \/ (now = 0 /\ start_bucket_run_ts = 0 /\ idx = 1)
  /\ lpc = "hand_over" => now <= start_bucket_run_ts + precision * idx
  /\ lpc = "wait" => now <= NextRun

(* A bucket was last scanned a revolution before its next scan ... *)
LastScans ==
  \A b \in Buckets : \/ NextScan(b) - Revolution <= scan_over_ts[b]
                     \/ NextScan(b) - Revolution <= precision

(* ... so that a frame in it, which is in the bucket of its wake-up time      *)
(* whatever the revolution it was registered in, is to wake up after that.    *)
Slots ==
  \A f \in Frames : frame[f] = "asleep" =>
    /\ bucket_of[f] = BucketOf(wake_up_ts[f], 0)
    /\ wake_up_ts[f] > precision =>
         \A b \in Buckets : bucket_of[f] = b => NextScan(b) - Revolution < wake_up_ts[f]

DueInTime ==
  \A f \in Frames : frame[f] = "due" /\ wake_up_ts[f] > precision =>
    now < wake_up_ts[f] + precision

OnTime == scenario.prompt => Punctual /\ LastScans /\ Slots /\ DueInTime

(* Multiplication and division, as far as the provers need help with it. *)
LEMMA TimesMono ==
  ASSUME NEW n \in Nat, NEW a \in Int, NEW b \in Int, a <= b
  PROVE  n * a <= n * b /\ n * a \in Int /\ n * b \in Int
  OBVIOUS

LEMMA DivModUnique ==
  ASSUME NEW n \in Nat \ {0}, NEW k \in Int, NEW m \in 0..(n - 1),
         NEW a \in Int, a = n * k + m
  PROVE  a \div n = k /\ a % n = m
  <1> DEFINE d == a \div n
             e == a % n
  <1>1. d \in Int /\ e \in 0..(n - 1) /\ n * d + e = n * k + m
    BY DivMod
  <1> HIDE DEF d, e
  <1>2. ASSUME d >= k + 1 PROVE FALSE
    <2>1. n * d >= n * (k + 1)
      BY <1>1, <1>2, TimesMono
    <2>2. n * (k + 1) = n * k + n
      OBVIOUS
    <2> QED
      BY <1>1, <2>1, <2>2
  <1>3. ASSUME k >= d + 1 PROVE FALSE
    <2>1. n * k >= n * (d + 1)
      BY <1>1, <1>3, TimesMono
    <2>2. n * (d + 1) = n * d + n
      BY <1>1
    <2> QED
      BY <1>1, <2>1, <2>2
  <1>4. d = k
    BY <1>1, <1>2, <1>3
  <1> QED
    BY <1>1, <1>4 DEF d, e

(* The wheel's sizes. *)
LEMMA Sizes ==
  /\ precision \in Nat \ {0} /\ BUCKET_NUM \in Nat \ {0} /\ BUCKET_NUM >= 2
  /\ Revolution \in Nat \ {0} /\ Revolution >= 2 * precision
  /\ \A k \in Int : precision * k \in Int /\ Revolution * k \in Int
                      /\ precision * (BUCKET_NUM * k) = Revolution * k
  <1>1. precision \in Nat \ {0} /\ BUCKET_NUM \in Nat \ {0} /\ BUCKET_NUM >= 2
    BY TimeServiceAssumption
  <1>2. precision * BUCKET_NUM >= precision * 2 /\ precision * BUCKET_NUM \in Int
    BY <1>1, TimesMono
  <1>3. Revolution \in Nat \ {0} /\ Revolution >= 2 * precision
    BY <1>1, <1>2 DEF Revolution
  <1>4. ASSUME NEW k \in Int
        PROVE  /\ precision * k \in Int /\ Revolution * k \in Int
               /\ precision * (BUCKET_NUM * k) = Revolution * k
    BY <1>1, <1>3 DEF Revolution
  <1> QED
    BY <1>1, <1>3, <1>4

(* The bucket of a wake-up time is that of the first tick not before it,      *)
(* counted from the start of any revolution.                                  *)
LEMMA BucketTick ==
  ASSUME NEW wake \in Int, NEW start \in Int, start % Revolution = 0
  PROVE  /\ BucketOf(wake, start) = BucketOf(wake, 0)
         /\ \E k \in Int :
              LET tick == precision * BucketOf(wake, 0) + Revolution * k
              IN  wake <= tick /\ tick < wake + precision
  <1> DEFINE k == start \div Revolution
             a == wake - 1
             d == a \div precision
             x == a % precision
             c == d + 1
             m == c % BUCKET_NUM
             n == c \div BUCKET_NUM
  <1>1. k \in Int /\ start = Revolution * k
    BY Sizes, DivMod
  <1>2. a \in Int /\ a = wake - 1
    OBVIOUS
  <1> HIDE DEF a
  <1>3. d \in Int /\ x \in 0..(precision - 1) /\ a = precision * d + x
    BY <1>2, Sizes, DivMod
  <1>4. BucketOf(wake, 0) = m
    <2>1. (wake - 0) - 1 = a
      BY <1>2
    <2> QED
      BY <2>1 DEF BucketOf
  <1> HIDE DEF k, d, x
  <1>5. c \in Int
    BY <1>3
  <1> HIDE DEF c
  <1>6. m \in 0..(BUCKET_NUM - 1) /\ n \in Int /\ c = BUCKET_NUM * n + m
    BY <1>5, Sizes, DivMod
  <1> HIDE DEF m, n
  <1>7. BucketOf(wake, start) = m
    <2> DEFINE b == (wake - start) - 1
               e == d - BUCKET_NUM * k
               g == e + 1
               l == n - k
    <2>1. e \in Int /\ BUCKET_NUM * k \in Int /\ l \in Int
      BY <1>1, <1>3, <1>6, Sizes
    <2>2. precision * e = precision * d - Revolution * k
      BY <1>1, <1>3, <2>1, Sizes
    <2>3. precision * d \in Int /\ Revolution * k \in Int
      BY <1>1, <1>3, Sizes
    <2>4. b \in Int /\ b = precision * e + x
      BY <1>1, <1>2, <1>3, <2>2, <2>3
    <2>5. BUCKET_NUM * l = BUCKET_NUM * n - BUCKET_NUM * k /\ BUCKET_NUM * n \in Int
      BY <1>1, <1>6, Sizes
    <2>6. g \in Int /\ g = BUCKET_NUM * l + m
      BY <1>3, <1>6, <2>1, <2>5 DEF c
    <2> HIDE DEF b, e, g, l
    <2>7. b \div precision = e
      <3>1. /\ precision \in Nat \ {0} /\ e \in Int /\ x \in 0..(precision - 1)
            /\ b \in Int /\ b = precision * e + x
        BY <1>3, <2>1, <2>4, Sizes
      <3> QED
        BY <3>1, DivModUnique
    <2>8. g % BUCKET_NUM = m
      <3>1. /\ BUCKET_NUM \in Nat \ {0} /\ l \in Int /\ m \in 0..(BUCKET_NUM - 1)
            /\ g \in Int /\ g = BUCKET_NUM * l + m
        BY <1>6, <2>1, <2>6, Sizes
      <3> QED
        BY <3>1, DivModUnique
    <2>9. BucketOf(wake, start) = (b \div precision + 1) % BUCKET_NUM
      BY DEF b, BucketOf
    <2> QED
      BY <2>7, <2>8, <2>9 DEF g
  <1>8. precision * m + Revolution * n = precision * c
    <2>1. precision * c = precision * (BUCKET_NUM * n) + precision * m
      BY <1>6, Sizes
    <2> QED
      BY <1>6, <2>1, Sizes
  <1>9. precision * c = precision * d + precision /\ precision * d \in Int
    BY <1>3, Sizes DEF c
  <1>10. wake <= precision * c /\ precision * c < wake + precision
    BY <1>2, <1>3, <1>9, Sizes
  <1> QED
    BY <1>4, <1>6, <1>7, <1>8, <1>10

(* The wheel's times, and the order in which the loop thread comes to them.   *)
LEMMA Ticks ==
  ASSUME TypeOK
  PROVE  /\ start_bucket_run_ts \in Nat /\ now \in Nat
         /\ \A b \in Buckets : /\ b \in Nat /\ b + 1 <= BUCKET_NUM
                               /\ precision * b \in Nat
                               /\ precision * (b + 1) = precision * b + precision
                               /\ precision * b + precision <= Revolution
                               /\ NextScan(b) \in Nat
         /\ \A b, c \in Buckets : b <= c => precision * b <= precision * c
         /\ \A b, c \in Buckets : b < c => precision * b + precision <= precision * c
  <1>1. start_bucket_run_ts \in Nat /\ now \in Nat
    BY Types
  <1>2. ASSUME NEW b \in Buckets, NEW c \in Nat, c <= BUCKET_NUM
        PROVE  /\ b \in Nat /\ b + 1 <= BUCKET_NUM /\ precision * b \in Nat
               /\ precision * (b + 1) = precision * b + precision
               /\ b <= c => precision * b <= precision * c
               /\ b < c => precision * b + precision <= precision * c
    <2>1. b \in Nat /\ b + 1 <= BUCKET_NUM
      BY Sizes DEF Buckets
    <2>2. precision * b \in Nat /\ precision * (b + 1) = precision * b + precision
      BY <2>1, Sizes
    <2>3. b <= c => precision * b <= precision * c
      BY <1>2, <2>1, Sizes, TimesMono
    <2>4. b + 1 <= c => precision * (b + 1) <= precision * c
      BY <1>2, <2>1, Sizes, TimesMono
    <2> QED
      BY <1>2, <2>1, <2>2, <2>3, <2>4
  <1>3. ASSUME NEW b \in Buckets
        PROVE  precision * b + precision <= Revolution
    <2>1. b \in Nat /\ b < BUCKET_NUM /\ BUCKET_NUM \in Nat
      BY Sizes DEF Buckets
    <2>2. precision * b + precision <= precision * BUCKET_NUM
      BY <1>2, <2>1
    <2> QED
      BY <2>2 DEF Revolution
  <1>4. ASSUME NEW b \in Buckets PROVE NextScan(b) \in Nat
    BY <1>1, <1>2, Sizes DEF NextScan
  <1>5. ASSUME NEW b \in Buckets, NEW c \in Buckets
        PROVE  /\ b <= c => precision * b <= precision * c
               /\ b < c => precision * b + precision <= precision * c
    <2>1. c \in Nat /\ c <= BUCKET_NUM
      BY Sizes DEF Buckets
    <2> QED
      BY <1>2, <2>1
  <1>6. BUCKET_NUM \in Nat /\ BUCKET_NUM <= BUCKET_NUM
    BY Sizes
  <1> QED
    BY <1>1, <1>2, <1>3, <1>4, <1>5, <1>6

(* No scan is behind its time. *)
LEMMA ScansAhead ==
  ASSUME TypeOK, Punctual, NEW b \in Buckets
  PROVE  now <= NextScan(b)
  <1> DEFINE s == start_bucket_run_ts
             pb == precision * b
             pi == precision * idx
  <1>1. idx \in Buckets /\ idx \in Nat
    BY Types
  <1>2. /\ s \in Nat /\ now \in Nat /\ pb \in Nat /\ pi \in Nat /\ b \in Nat
        /\ precision \in Nat /\ Revolution \in Nat
        /\ precision * (idx + 1) = pi + precision /\ pi + precision <= Revolution
        /\ b <= idx => pb <= pi
        /\ idx <= b => pi <= pb
        /\ idx < b => pi + precision <= pb
    BY <1>1, Ticks, Sizes
  <1>3. NextRun = s + (pi + precision)
    BY <1>2 DEF NextRun
  <1>4. NextScan(b) = IF Scanned(b) THEN s + Revolution + pb ELSE s + pb
    BY DEF NextScan
  <1>5. \/ lpc = "advance" /\ (now = NextRun \/ now = 0)
        \/ lpc = "scan" /\ (now = s + pi \/ now = 0)
        \/ lpc = "hand_over" /\ now <= s + pi
        \/ lpc = "wait" /\ now <= NextRun
    BY DEF Punctual
  <1>6. Scanned(b) <=> IF lpc = "scan" THEN b < idx ELSE b <= idx
    BY DEF Scanned
  <1> HIDE DEF s, pb, pi
  <1> QED
    BY <1>1, <1>2, <1>3, <1>4, <1>5, <1>6

(* The next scan of its bucket wakes a sleeper less than precision too late.  *)
LEMMA AwaitedInTime ==
  ASSUME TypeOK, Punctual, Slots,
         NEW f \in Frames, frame[f] = "asleep", wake_up_ts[f] > precision
  PROVE  NextScan(bucket_of[f]) < wake_up_ts[f] + precision
  <1> DEFINE s == start_bucket_run_ts
             k == s \div Revolution
             b == bucket_of[f]
             w == wake_up_ts[f]
             pb == precision * b
             K == IF Scanned(b) THEN k + 1 ELSE k
  <1>1. b \in Buckets /\ w \in Nat /\ s \in Nat /\ s % Revolution = 0
    BY Types DEF Punctual
  <1>2. k \in Int /\ s = Revolution * k
    BY <1>1, Sizes, DivMod
  <1>3. b = BucketOf(w, 0) /\ NextScan(b) - Revolution < w
    <2>1. PICK c \in Buckets : c = b
      BY <1>1
    <2>2. NextScan(c) - Revolution < w
      BY <2>1 DEF Slots
    <2> QED
      BY <2>1, <2>2 DEF Slots
  <1>4. NextScan(b) = IF Scanned(b) THEN s + Revolution + pb ELSE s + pb
    BY DEF NextScan
  <1>5. pb \in Nat /\ NextScan(b) \in Nat /\ precision \in Nat /\ Revolution \in Nat
    BY <1>1, Ticks, Sizes
  <1>6. 0 % Revolution = 0
    BY Sizes
  <1>7. PICK l \in Int : LET tick == precision * b + Revolution * l
                         IN  w <= tick /\ tick < w + precision
    BY <1>1, <1>3, <1>6, BucketTick
  <1> HIDE DEF s, k, b, w, pb
  <1>8. K \in Int
    BY <1>2
  <1>9. NextScan(b) = pb + Revolution * K
    <2>1. Revolution * (k + 1) = Revolution * k + Revolution
      BY <1>2, Sizes
    <2>2. Revolution * k \in Int
      BY <1>2, Sizes
    <2> QED
      BY <1>2, <1>4, <1>5, <2>1, <2>2
  <1> HIDE DEF K
  <1>10. K <= l
    <2> SUFFICES ASSUME l <= K - 1 PROVE FALSE
      BY <1>8
    <2>1. K - 1 \in Int /\ Revolution * l <= Revolution * (K - 1)
      BY <1>5, <1>8, TimesMono
    <2>2. Revolution * (K - 1) = Revolution * K - Revolution
      BY <1>8, Sizes
    <2>3. Revolution * K \in Int /\ Revolution * l \in Int
      BY <1>8, Sizes
    <2>4. w <= pb + Revolution * l
      BY <1>7 DEF pb
    <2> QED
      BY <1>1, <1>3, <1>5, <1>9, <2>1, <2>2, <2>3, <2>4
  <1>11. Revolution * K <= Revolution * l /\ Revolution * K \in Int /\ Revolution * l \in Int
    BY <1>5, <1>8, <1>10, TimesMono
  <1>12. pb + Revolution * l < w + precision
    BY <1>7 DEF pb
  <1>13. NextScan(b) < w + precision
    BY <1>1, <1>5, <1>9, <1>11, <1>12
  <1> QED
    BY <1>13 DEF b, w

(* The wheel starts on time. *)
LEMMA OnTimeInit == Init => OnTime
  <1> SUFFICES ASSUME Init PROVE OnTime
    OBVIOUS
  <1>1. TypeOK
    BY WheelInit DEF WheelInv
  <1>2. /\ now = 0 /\ start_bucket_run_ts = 0 /\ idx = 0 /\ lpc = "advance"
        /\ \A b \in Buckets : scan_over_ts[b] = 0
        /\ \A f \in Frames : frame[f] = "awake"
        /\ \A r \in Registrars : rpc[r] = "idle"
        /\ ~stop_flag
    BY DEF Init
  <1>3. 0 % Revolution = 0
    BY Sizes
  <1>4. Punctual
    BY <1>2, <1>3 DEF Punctual
  <1>5. ASSUME NEW b \in Buckets PROVE NextScan(b) - Revolution <= scan_over_ts[b]
    <2>1. /\ NextScan(b) = IF Scanned(b) THEN 0 + Revolution + precision * b
                           ELSE 0 + precision * b
          /\ Scanned(b) <=> b <= 0
      BY <1>2 DEF NextScan, Scanned
    <2>2. b \in Nat /\ precision * b \in Nat /\ precision * b <= Revolution
            /\ precision * 0 = 0 /\ Revolution \in Nat /\ precision \in Nat
      BY <1>1, Ticks, Sizes
    <2> QED
      BY <1>2, <2>1, <2>2
  <1> QED
    BY <1>2, <1>4, <1>5 DEF OnTime, LastScans, Slots, DueInTime

(* Steps that move neither the clock nor the loop thread past a bucket.       *)
LEMMA NextScanKept ==
  ASSUME UNCHANGED <<start_bucket_run_ts, idx>>, lpc' = "scan" <=> lpc = "scan"
  PROVE  \A b \in Buckets : NextScan(b)' = NextScan(b)
  BY DEF NextScan, Scanned

(* co_sleep and register_frame (time_service.cpp 39-60): the bucket a frame   *)
(* is put in is that of its wake-up time, and its last scan is over.          *)
LEMMA SleepOnTime ==
  ASSUME WheelInv, OnTime, UNCHANGED scenario,
         NEW r \in Registrars, NEW f \in scenario.sleepers,
         NEW duration \in scenario.sleepTimes, Sleep(r, f, duration)
  PROVE  OnTime'
  <1> SUFFICES ASSUME scenario.prompt PROVE OnTime'
    BY DEF OnTime
  <1>1. Punctual /\ LastScans /\ Slots /\ DueInTime
    BY DEF OnTime
  <1>2. TypeOK /\ f \in Frames
    BY Types DEF WheelInv
  <1>3. /\ frame[f] = "awake"
        /\ wake_up_ts' = [wake_up_ts EXCEPT ![f] = now + duration]
        /\ frame' = [frame EXCEPT ![f] = "registering"]
        /\ rpc' = [rpc EXCEPT ![r] = "read_start"]
        /\ UNCHANGED <<scenario, now, stop_flag, start_bucket_run_ts,
                       scan_over_ts, lpc, idx, rstart, bucket_of>>
    BY DEF Sleep, wheel
  <1>4. \A t \in Registrars : rpc'[t] = "insert" => rpc[t] = "insert"
    BY <1>2, <1>3 DEF TypeOK
  <1>5. Punctual'
    BY <1>1, <1>3, <1>4 DEF Punctual, NextRun
  <1>6. \A b \in Buckets : NextScan(b)' = NextScan(b)
    BY <1>3, NextScanKept
  <1>7. LastScans'
    BY <1>1, <1>3, <1>6 DEF LastScans
  <1>8. \A g \in Frames : frame'[g] \in {"asleep", "due"} =>
          /\ frame[g] = frame'[g] /\ wake_up_ts'[g] = wake_up_ts[g]
          /\ bucket_of'[g] = bucket_of[g] /\ bucket_of[g] \in Buckets
    BY <1>2, <1>3, Types DEF TypeOK
  <1>9. Slots'
    BY <1>1, <1>6, <1>8 DEF Slots
  <1>10. DueInTime'
    BY <1>1, <1>3, <1>8 DEF DueInTime
  <1> QED
    BY <1>5, <1>7, <1>9, <1>10 DEF OnTime

LEMMA ReadStartOnTime ==
  ASSUME WheelInv, OnTime, UNCHANGED scenario, NEW r \in Registrars, ReadStart(r)
  PROVE  OnTime'
  <1> SUFFICES ASSUME scenario.prompt PROVE OnTime'
    BY DEF OnTime
  <1>1. Punctual /\ LastScans /\ Slots /\ DueInTime /\ TypeOK
    BY DEF OnTime, WheelInv
  <1>2. /\ rstart' = [rstart EXCEPT ![r] = start_bucket_run_ts]
        /\ \E at : rpc' = [rpc EXCEPT ![r] = at]
        /\ UNCHANGED <<scenario, now, stop_flag, start_bucket_run_ts, scan_over_ts,
                       lpc, idx, wake_up_ts, frame, bucket_of>>
    BY DEF ReadStart, wheel
  <1>3. \A t \in Registrars : rpc'[t] = "insert" => rstart'[t] % Revolution = 0
    BY <1>1, <1>2 DEF TypeOK, Punctual
  <1>4. Punctual'
    BY <1>1, <1>2, <1>3 DEF Punctual, NextRun
  <1>5. \A b \in Buckets : NextScan(b)' = NextScan(b)
    BY <1>2, NextScanKept
  <1>6. LastScans'
    BY <1>1, <1>2, <1>5 DEF LastScans
  <1>7. \A f \in Frames : bucket_of[f] \in Buckets
    BY <1>1, Types
  <1>8. Slots' /\ DueInTime'
    BY <1>1, <1>2, <1>5, <1>7 DEF Slots, DueInTime
  <1> QED
    BY <1>4, <1>6, <1>8 DEF OnTime

LEMMA InsertOnTime ==
  ASSUME WheelInv, OnTime, UNCHANGED scenario, NEW r \in Registrars, Insert(r)
  PROVE  OnTime'
  <1> SUFFICES ASSUME scenario.prompt PROVE OnTime'
    BY DEF OnTime
  <1> DEFINE f == rframe[r]
             w == wake_up_ts[f]
             b == BucketOf(w, rstart[r])
  <1>1. Punctual /\ LastScans /\ Slots /\ DueInTime /\ TypeOK
    BY DEF OnTime, WheelInv
  <1>2. /\ rpc[r] = "insert"
        /\ UNCHANGED <<scenario, now, stop_flag, start_bucket_run_ts, scan_over_ts,
                       lpc, idx, rstart, wake_up_ts>>
        /\ \/ /\ rpc' = [rpc EXCEPT ![r] = "missed"]
              /\ UNCHANGED <<frame, bucket_of>>
           \/ /\ scan_over_ts[b] < w
              /\ frame' = [frame EXCEPT ![f] = "asleep"]
              /\ bucket_of' = [bucket_of EXCEPT ![f] = b]
              /\ rpc' = [rpc EXCEPT ![r] = "idle"]
    BY DEF Insert
  <1>3. f \in Frames /\ w \in Nat /\ rstart[r] \in Nat /\ rstart[r] % Revolution = 0
    BY <1>1, <1>2, Types DEF WheelInv, Owners, Punctual
  <1>4. b \in Buckets /\ b = BucketOf(w, 0)
    <2>1. w \in Int /\ rstart[r] \in Int
      BY <1>3
    <2> HIDE DEF w
    <2> QED
      BY <1>3, <2>1, BucketOfType, BucketTick
  <1>5. \A t \in Registrars : rpc'[t] = "insert" => rpc[t] = "insert"
    BY <1>1, <1>2 DEF TypeOK
  <1>6. Punctual'
    BY <1>1, <1>2, <1>5 DEF Punctual, NextRun
  <1>7. \A c \in Buckets : NextScan(c)' = NextScan(c)
    BY <1>2, NextScanKept
  <1>8. LastScans'
    BY <1>1, <1>2, <1>7 DEF LastScans
  <1> HIDE DEF f, b
  <1>9. CASE UNCHANGED <<frame, bucket_of>>
    <2>1. Slots' /\ DueInTime'
      BY <1>1, <1>2, <1>7, <1>9 DEF Slots, DueInTime
    <2> QED
      BY <1>6, <1>8, <2>1 DEF OnTime
  <1>10. CASE /\ scan_over_ts[b] < w
              /\ frame' = [frame EXCEPT ![f] = "asleep"]
              /\ bucket_of' = [bucket_of EXCEPT ![f] = b]
    <2>1. \A g \in Frames :
            /\ frame'[g] = IF g = f THEN "asleep" ELSE frame[g]
            /\ bucket_of'[g] = IF g = f THEN b ELSE bucket_of[g]
      BY <1>1, <1>10 DEF TypeOK
    <2>2. ASSUME NEW c \in Buckets, c = b, w > precision
          PROVE  NextScan(c) - Revolution < w
      <3>1. \/ NextScan(c) - Revolution <= scan_over_ts[c]
            \/ NextScan(c) - Revolution <= precision
        BY <1>1 DEF LastScans
      <3>2. /\ NextScan(c) \in Nat /\ scan_over_ts[c] \in Nat
            /\ Revolution \in Nat /\ precision \in Nat
        BY <1>1, Ticks, Types, Sizes
      <3>3. scan_over_ts[c] < w
        BY <1>10, <2>2
      <3> HIDE DEF w
      <3> QED
        BY <1>3, <2>2, <3>1, <3>2, <3>3
    <2>3. Slots'
      <3>1. ASSUME NEW g \in Frames, frame'[g] = "asleep"
            PROVE  bucket_of'[g] = BucketOf(wake_up_ts[g], 0)
        BY <1>1, <1>4, <2>1, <3>1 DEF Slots
      <3>2. ASSUME NEW g \in Frames, frame'[g] = "asleep", wake_up_ts[g] > precision,
                   NEW c \in Buckets, bucket_of'[g] = c
            PROVE  NextScan(c) - Revolution < wake_up_ts[g]
        <4>1. CASE g = f
          BY <2>1, <2>2, <3>2, <4>1
        <4>2. CASE g # f
          BY <1>1, <2>1, <3>2, <4>2 DEF Slots
        <4> QED
          BY <4>1, <4>2
      <3> QED
        BY <1>2, <1>7, <3>1, <3>2 DEF Slots
    <2>4. DueInTime'
      BY <1>1, <1>2, <2>1 DEF DueInTime
    <2> QED
      BY <1>6, <1>8, <2>3, <2>4 DEF OnTime
  <1> QED
    BY <1>2, <1>9, <1>10

LEMMA CommitMissedOnTime ==
  ASSUME WheelInv, OnTime, UNCHANGED scenario, NEW r \in Registrars, CommitMissed(r)
  PROVE  OnTime'
  <1> SUFFICES ASSUME scenario.prompt PROVE OnTime'
    BY DEF OnTime
  <1>1. Punctual /\ LastScans /\ Slots /\ DueInTime /\ TypeOK
    BY DEF OnTime, WheelInv
  <1>2. /\ frame' = [frame EXCEPT ![rframe[r]] = "awake"]
        /\ rpc' = [rpc EXCEPT ![r] = "idle"]
        /\ UNCHANGED <<scenario, now, stop_flag, start_bucket_run_ts, scan_over_ts,
                       lpc, idx, rstart, wake_up_ts, bucket_of>>
    BY DEF CommitMissed, wheel
  <1>3. \A t \in Registrars : rpc'[t] = "insert" => rpc[t] = "insert"
    BY <1>1, <1>2 DEF TypeOK
  <1>4. Punctual'
    BY <1>1, <1>2, <1>3 DEF Punctual, NextRun
  <1>5. \A b \in Buckets : NextScan(b)' = NextScan(b)
    BY <1>2, NextScanKept
  <1>6. LastScans'
    BY <1>1, <1>2, <1>5 DEF LastScans
  <1>7. \A f \in Frames :
          /\ frame'[f] \in {"asleep", "due"} => frame'[f] = frame[f]
          /\ bucket_of[f] \in Buckets
    BY <1>1, <1>2, Types DEF TypeOK
  <1>8. Slots' /\ DueInTime'
    BY <1>1, <1>2, <1>5, <1>7 DEF Slots, DueInTime
  <1> QED
    BY <1>4, <1>6, <1>8 DEF OnTime

(* The loop thread, on time: a frame goes back to the scheduler, the hand-over*)
(* ends, the wait for the next bucket ends at its time.                       *)
LEMMA HandOverOneOnTime ==
  ASSUME WheelInv, OnTime, UNCHANGED scenario, HandOverOne PROVE OnTime'
  <1> SUFFICES ASSUME scenario.prompt PROVE OnTime'
    BY DEF OnTime
  <1>1. Punctual /\ LastScans /\ Slots /\ DueInTime /\ TypeOK
    BY DEF OnTime, WheelInv
  <1>2. /\ frame' = [frame EXCEPT ![ready_queue.head] = "awake"]
        /\ UNCHANGED <<scenario, now, stop_flag, start_bucket_run_ts, scan_over_ts,
                       lpc, idx, rpc, rstart, wake_up_ts, bucket_of>>
    BY DEF HandOverOne, registrar
  <1>3. Punctual'
    BY <1>1, <1>2 DEF Punctual, NextRun
  <1>4. \A b \in Buckets : NextScan(b)' = NextScan(b)
    BY <1>2, NextScanKept
  <1>5. LastScans'
    BY <1>1, <1>2, <1>4 DEF LastScans
  <1>6. \A f \in Frames : frame'[f] \in {"asleep", "due"} => frame'[f] = frame[f]
    BY <1>1, <1>2 DEF TypeOK
  <1>7. Slots' /\ DueInTime'
    BY <1>1, <1>2, <1>4, <1>6 DEF Slots, DueInTime
  <1> QED
    BY <1>3, <1>5, <1>7 DEF OnTime

(* What is left to show when the loop thread or the clock moves on and the    *)
(* wheel stays as it is.                                                      *)
LEMMA StaysOnTime ==
  ASSUME LastScans, Slots, DueInTime, Punctual',
         UNCHANGED <<scan_over_ts, bucket_of, wake_up_ts, frame>>,
         \A b \in Buckets : NextScan(b)' = NextScan(b),
         now' # now => \A f \in Frames : frame[f] # "due"
  PROVE  OnTime'
  <1>1. LastScans'
    BY DEF LastScans
  <1>2. Slots' /\ DueInTime'
    BY DEF Slots, DueInTime
  <1> QED
    BY <1>1, <1>2 DEF OnTime

LEMMA HandOverEndsOnTime ==
  ASSUME WheelInv, OnTime, UNCHANGED scenario, HandOverEnds PROVE OnTime'
  <1> SUFFICES ASSUME scenario.prompt PROVE OnTime'
    BY DEF OnTime
  <1>1. Punctual /\ LastScans /\ Slots /\ DueInTime /\ TypeOK
    BY DEF OnTime, WheelInv
  <1>2. /\ lpc = "hand_over" /\ lpc' = "wait"
        /\ UNCHANGED <<now, stop_flag, start_bucket_run_ts, scan_over_ts, idx, rpc,
                       rstart, wake_up_ts, frame, bucket_of>>
    BY DEF HandOverEnds, wheel, registrar
  <1>3. now <= NextRun
    <2> DEFINE p == precision * idx
               s == start_bucket_run_ts
    <2>1. /\ now <= s + p /\ NextRun = s + (p + precision)
          /\ s \in Nat /\ p \in Nat /\ precision \in Nat /\ now \in Nat
      BY <1>1, <1>2, Types, Ticks DEF Punctual, NextRun
    <2> HIDE DEF p, s
    <2> QED
      BY <2>1
  <1>4. Punctual'
    BY <1>1, <1>2, <1>3 DEF Punctual, NextRun
  <1>5. \A b \in Buckets : NextScan(b)' = NextScan(b)
    BY <1>2, NextScanKept
  <1> QED
    BY <1>1, <1>2, <1>4, <1>5, StaysOnTime

LEMMA WaitEndsOnTime ==
  ASSUME WheelInv, OnTime, UNCHANGED scenario, WaitEnds PROVE OnTime'
  <1> SUFFICES ASSUME scenario.prompt PROVE OnTime'
    BY DEF OnTime
  <1>1. Punctual /\ LastScans /\ Slots /\ DueInTime /\ TypeOK
    BY DEF OnTime, WheelInv
  <1>2. /\ lpc = "wait" /\ now >= NextRun /\ lpc' = "advance"
        /\ UNCHANGED <<now, stop_flag, start_bucket_run_ts, scan_over_ts, idx, rpc,
                       rstart, wake_up_ts, frame, bucket_of>>
    BY <1>1 DEF WaitEnds, wheel, registrar, Punctual
  <1>3. now = NextRun
    <2>1. now <= NextRun /\ now \in Nat /\ NextRun \in Nat
      BY <1>1, <1>2, Types, Ticks, Sizes DEF Punctual, NextRun
    <2> QED
      BY <1>2, <2>1
  <1>4. Punctual'
    BY <1>1, <1>2, <1>3 DEF Punctual, NextRun
  <1>5. \A b \in Buckets : NextScan(b)' = NextScan(b)
    BY <1>2, NextScanKept
  <1> QED
    BY <1>1, <1>2, <1>4, <1>5, StaysOnTime

(* The clock goes on while the loop thread waits, and no frame is due then.   *)
LEMMA TickOnTime ==
  ASSUME WheelInv, OnTime, UNCHANGED scenario, Tick PROVE OnTime'
  <1> SUFFICES ASSUME scenario.prompt PROVE OnTime'
    BY DEF OnTime
  <1>1. Punctual /\ LastScans /\ Slots /\ DueInTime /\ TypeOK
    BY DEF OnTime, WheelInv
  <1>2. /\ lpc = "wait" /\ now < NextRun /\ now' = now + 1
        /\ UNCHANGED <<stop_flag, start_bucket_run_ts, scan_over_ts, lpc, idx, rpc,
                       rstart, wake_up_ts, frame, bucket_of>>
    BY <1>1 DEF Tick, wheel, registrar, Punctual
  <1>3. now' <= NextRun
    <2>1. now \in Nat /\ NextRun \in Nat
      BY <1>1, Types, Ticks, Sizes DEF NextRun
    <2> QED
      BY <1>2, <2>1
  <1>4. Punctual'
    BY <1>1, <1>2, <1>3 DEF Punctual, NextRun
  <1>5. \A b \in Buckets : NextScan(b)' = NextScan(b)
    BY <1>2, NextScanKept
  <1>6. \A f \in Frames : frame[f] # "due"
    <2>1. ready_queue.size = 0
      BY <1>2 DEF WheelInv, LoopAt
    <2>2. Members(ready_queue, link) = {}
      BY <2>1 DEF Members
    <2> QED
      BY <2>2 DEF WheelInv, Lists
  <1> QED
    BY <1>1, <1>2, <1>4, <1>5, <1>6, StaysOnTime

(* loop_ (time_service.cpp 71-76): the next bucket, and after the last one    *)
(* the next revolution, a Revolution after this one.                          *)
LEMMA AdvanceOnTime ==
  ASSUME WheelInv, OnTime, UNCHANGED scenario, Advance PROVE OnTime'
  <1> SUFFICES ASSUME scenario.prompt PROVE OnTime'
    BY DEF OnTime
  <1> DEFINE s == start_bucket_run_ts
  <1>1. Punctual /\ LastScans /\ Slots /\ DueInTime /\ TypeOK
    BY DEF OnTime, WheelInv
  <1>2. /\ lpc = "advance" /\ lpc' = "scan" /\ idx' = (idx + 1) % BUCKET_NUM
        /\ start_bucket_run_ts' = IF idx' = 0 THEN now ELSE start_bucket_run_ts
        /\ UNCHANGED <<now, stop_flag, scan_over_ts, rpc, rstart, wake_up_ts, frame,
                       bucket_of>>
    BY DEF Advance, wheel, registrar
  <1>3. now = NextRun \/ (now = 0 /\ s = 0 /\ idx = 0)
    BY <1>1, <1>2 DEF Punctual
  <1>4. idx \in Buckets /\ idx \in Nat /\ s \in Nat /\ s % Revolution = 0
    BY <1>1, Types DEF Punctual
  <1>5. CASE idx + 1 < BUCKET_NUM
    <2>1. idx' = idx + 1 /\ start_bucket_run_ts' = s
      BY <1>2, <1>4, <1>5, Sizes
    <2>2. \/ now = start_bucket_run_ts' + precision * idx'
          \/ (now = 0 /\ start_bucket_run_ts' = 0 /\ idx' = 1)
      BY <1>3, <2>1 DEF NextRun
    <2>3. Punctual'
      BY <1>1, <1>2, <2>1, <2>2 DEF Punctual, NextRun
    <2>4. ASSUME NEW b \in Buckets PROVE NextScan(b)' = NextScan(b)
      <3>1. b \in Nat /\ (b < idx + 1 <=> b <= idx)
        BY <1>1, <1>4, Ticks
      <3> QED
        BY <1>2, <2>1, <3>1 DEF NextScan, Scanned
    <2> QED
      BY <1>1, <1>2, <2>3, <2>4, StaysOnTime
  <1>6. CASE idx + 1 = BUCKET_NUM
    <2>1. idx # 0 /\ idx' = 0
      BY <1>2, <1>4, <1>6, Sizes
    <2>2. start_bucket_run_ts' = now /\ now = s + Revolution
      BY <1>2, <1>3, <1>6, <2>1 DEF NextRun, Revolution
    <2>3. (s + Revolution) % Revolution = 0
      <3> DEFINE k == s \div Revolution
                 a == s + Revolution
                 l == k + 1
      <3>1. k \in Int /\ s = Revolution * k /\ Revolution \in Nat \ {0}
        BY <1>4, Sizes, DivMod
      <3> HIDE DEF k
      <3>2. l \in Int /\ Revolution * l = Revolution * k + Revolution
        BY <3>1, Sizes
      <3>3. a \in Int /\ a = Revolution * l + 0 /\ 0 \in 0..(Revolution - 1)
        <4>1. Revolution * l \in Int
          BY <3>2, Sizes
        <4> QED
          BY <1>4, <3>1, <3>2, <4>1
      <3> HIDE DEF a, l
      <3>4. a % Revolution = 0
        BY <3>1, <3>2, <3>3, DivModUnique
      <3> QED
        BY <3>4 DEF a
    <2>4. now = start_bucket_run_ts' + precision * idx'
      <3>1. now \in Nat /\ precision * 0 = 0
        BY <1>1, Types, Sizes
      <3> QED
        BY <2>1, <2>2, <3>1
    <2>5. Punctual'
      BY <1>1, <1>2, <2>1, <2>2, <2>3, <2>4 DEF Punctual, NextRun
    <2>6. ASSUME NEW b \in Buckets PROVE NextScan(b)' = NextScan(b)
      <3>1. b \in Nat /\ b <= idx /\ ~(b < 0)
        BY <1>1, <1>4, <1>6, Ticks
      <3>2. Scanned(b) /\ ~Scanned(b)'
        BY <1>2, <2>1, <3>1 DEF Scanned
      <3> QED
        BY <2>2, <3>2 DEF NextScan
    <2> QED
      BY <1>1, <1>2, <2>5, <2>6, StaysOnTime
  <1>7. idx + 1 < BUCKET_NUM \/ idx + 1 = BUCKET_NUM
    BY <1>4, Sizes DEF Buckets
  <1> QED
    BY <1>5, <1>6, <1>7

(* A scan on time (time_service.cpp 93-104): the bucket's next scan is a      *)
(* revolution away, for frames that are to wake up after this one.            *)
LEMMA ScanOnTime ==
  ASSUME WheelInv, TailLast, OnTime, UNCHANGED scenario, Scan PROVE OnTime'
  <1> SUFFICES ASSUME scenario.prompt PROVE OnTime'
    BY DEF OnTime
  <1> DEFINE T == {f \in Frames : wake_up_ts[f] <= now}
             s == start_bucket_run_ts
             p == precision * idx
  <1>1. Punctual /\ LastScans /\ Slots /\ DueInTime /\ TypeOK
    BY DEF OnTime, WheelInv
  <1>2. /\ lpc = "scan" /\ ScanBucket(T) /\ lpc' = "hand_over"
        /\ UNCHANGED <<now, stop_flag, start_bucket_run_ts, idx, rpc, rstart,
                       wake_up_ts, bucket_of>>
    BY DEF Scan, registrar
  <1>3. ready_queue.size = 0 /\ idx \in Buckets /\ idx \in Nat
    BY <1>1, <1>2, Types DEF WheelInv, LoopAt
  <1>4. Last(Chain(waiting_queue[idx], link)) \in T =>
          Members(waiting_queue[idx], link) \subseteq T
    BY <1>2, LastTaken
  <1>5. T \in SUBSET Frames /\ \A f \in Frames : f \in T <=> wake_up_ts[f] <= now
    OBVIOUS
  <1> HIDE DEF T
  <1>6. /\ \A f \in Frames :
             frame'[f] = IF frame[f] = "asleep" /\ bucket_of[f] = idx /\ f \in T
                         THEN "due" ELSE frame[f]
        /\ \A b \in Buckets :
             scan_over_ts'[b] = IF b = idx THEN now ELSE scan_over_ts[b]
    BY <1>2, <1>3, <1>4, <1>5, ScanEffect
  <1>7. /\ s \in Nat /\ p \in Nat /\ now \in Nat
        /\ precision \in Nat /\ Revolution \in Nat
        /\ now = s + p \/ (now = 0 /\ s = 0 /\ idx = 1)
        /\ idx = 1 => p = precision
    BY <1>1, <1>2, <1>3, Ticks, Sizes DEF Punctual
  <1>8. Punctual'
    <2>1. now <= s + p
      BY <1>7
    <2> QED
      BY <1>1, <1>2, <2>1 DEF Punctual, NextRun
  <1>9. NextScan(idx) = s + p /\ now <= s + p
    BY <1>2, <1>3, <1>7 DEF NextScan, Scanned
  <1>10. ASSUME NEW b \in Buckets
         PROVE  NextScan(b)' = IF b = idx THEN s + Revolution + p ELSE NextScan(b)
    <2>1. b \in Nat /\ (b # idx => (b <= idx <=> b < idx))
      BY <1>1, <1>3, Ticks
    <2> QED
      BY <1>2, <1>3, <2>1 DEF NextScan, Scanned
  <1> HIDE DEF s, p
  <1>11. LastScans'
    <2> SUFFICES ASSUME NEW b \in Buckets
                 PROVE  \/ NextScan(b)' - Revolution <= scan_over_ts'[b]
                        \/ NextScan(b)' - Revolution <= precision
      BY DEF LastScans
    <2>1. CASE b = idx
      <3>1. NextScan(b)' - Revolution = s + p /\ scan_over_ts'[b] = now
        BY <1>6, <1>7, <1>10, <2>1
      <3> QED
        BY <1>7, <3>1
    <2>2. CASE b # idx
      BY <1>1, <1>6, <1>10, <2>2 DEF LastScans
    <2> QED
      BY <2>1, <2>2
  <1>12. Slots'
    <2>1. \A f \in Frames : frame'[f] = "asleep" =>
            frame[f] = "asleep" /\ (bucket_of[f] = idx => f \notin T)
      BY <1>6
    <2>2. ASSUME NEW f \in Frames, frame'[f] = "asleep", wake_up_ts[f] > precision,
                 NEW b \in Buckets, bucket_of[f] = b
          PROVE  NextScan(b)' - Revolution < wake_up_ts[f]
      <3>1. wake_up_ts[f] \in Nat
        BY <1>1, Types
      <3>2. CASE b = idx
        <4>1. now < wake_up_ts[f]
          BY <1>5, <1>7, <2>1, <2>2, <3>1, <3>2
        <4>2. NextScan(b)' - Revolution = s + p
          BY <1>7, <1>10, <3>2
        <4> QED
          BY <1>7, <2>2, <3>1, <4>1, <4>2
      <3>3. CASE b # idx
        BY <1>1, <1>10, <2>1, <2>2, <3>3 DEF Slots
      <3> QED
        BY <3>2, <3>3
    <2> QED
      BY <1>1, <1>2, <2>1, <2>2 DEF Slots
  <1>13. DueInTime'
    <2> SUFFICES ASSUME NEW f \in Frames, frame'[f] = "due", wake_up_ts[f] > precision
                 PROVE  now < wake_up_ts[f] + precision
      BY <1>2 DEF DueInTime
    <2>1. CASE frame[f] = "due"
      BY <1>1, <2>1 DEF DueInTime
    <2>2. CASE frame[f] # "due"
      <3>1. frame[f] = "asleep" /\ bucket_of[f] = idx
        BY <1>6, <2>2
      <3>2. NextScan(idx) < wake_up_ts[f] + precision
        BY <1>1, <3>1, AwaitedInTime
      <3>3. wake_up_ts[f] \in Nat
        BY <1>1, Types
      <3> QED
        BY <1>7, <1>9, <3>2, <3>3
    <2> QED
      BY <2>1, <2>2
  <1> QED
    BY <1>8, <1>11, <1>12, <1>13 DEF OnTime

LEMMA OnTimeNext ==
  ASSUME Unstopped
  PROVE  WheelInv /\ OnTime /\ [Next]_vars /\ [Scan => TailLast]_vars => OnTime'
  <1> SUFFICES ASSUME WheelInv, OnTime, [Next]_vars, [Scan => TailLast]_vars
               PROVE  OnTime'
    OBVIOUS
  <1>1. CASE \E r \in Registrars : Registrar(r)
    BY <1>1, ReadStartOnTime, InsertOnTime, CommitMissedOnTime DEF Registrar
  <1>2. ASSUME UNCHANGED scenario, ForceScan \/ ForceHandOverEnds PROVE OnTime'
    BY <1>2 DEF OnTime, Punctual, ForceScan, ForceHandOverEnds
  <1>3. CASE Loop
    <2>1. Scan => TailLast
      BY DEF Scan, TailLast, vars
    <2> QED
      BY <1>2, <1>3, <2>1, AdvanceOnTime, ScanOnTime, HandOverOneOnTime,
         HandOverEndsOnTime, WaitEndsOnTime DEF Loop
  <1>4. ASSUME UNCHANGED scenario, Stop PROVE OnTime'
    <2>1. scenario.mayStop /\ scenario \in Scenarios
      BY <1>4 DEF Stop, WheelInv, TypeOK
    <2> QED
      BY <1>4, <2>1 DEF Unstopped, OnTime
  <1>5. CASE UNCHANGED vars
    <2>1. \A b \in Buckets : NextScan(b)' = NextScan(b)
      BY <1>5, NextScanKept DEF vars
    <2>2. scenario.prompt => Punctual'
      BY <1>5 DEF vars, OnTime, Punctual, NextRun
    <2> QED
      BY <1>5, <2>1, <2>2, StaysOnTime DEF vars, OnTime
  <1>6. CASE Surroundings
    BY <1>4, <1>5, <1>6, SleepOnTime, TickOnTime DEF Surroundings, ClockEnds
  <1> QED
    BY <1>1, <1>3, <1>5, <1>6 DEF Next

(* In a prompt system that nobody stops a coroutine sleeps less than          *)
(* precision_ too long, whatever durations the coroutines sleep for, however  *)
(* many revolutions, and next to which scan register_frame puts one in its    *)
(* bucket (time_service.cpp 39-84), as long as no scan breaks a queue.        *)
THEOREM SleepersWakeInTime ==
  ASSUME Unstopped PROVE Spec /\ WholeScans => []LessThanATickLate
  <1>1. WheelInv /\ OnTime => LessThanATickLate
    <2> SUFFICES ASSUME WheelInv, OnTime, scenario.prompt,
                        NEW f \in Frames, frame[f] \in {"asleep", "due"},
                        wake_up_ts[f] > precision
                 PROVE  now < wake_up_ts[f] + precision
      BY DEF LessThanATickLate
    <2>1. TypeOK /\ Punctual /\ Slots /\ DueInTime
      BY DEF WheelInv, OnTime
    <2>2. CASE frame[f] = "asleep"
      <3>1. PICK b \in Buckets : b = bucket_of[f]
        BY <2>1, Types
      <3>2. NextScan(b) < wake_up_ts[f] + precision
        BY <2>1, <2>2, <3>1, AwaitedInTime
      <3>3. /\ now <= NextScan(b) /\ NextScan(b) \in Nat /\ now \in Nat
            /\ wake_up_ts[f] \in Nat /\ precision \in Nat
        BY <2>1, ScansAhead, Ticks, Types
      <3> QED
        BY <3>2, <3>3
    <2>3. CASE frame[f] = "due"
      BY <2>1, <2>3 DEF DueInTime
    <2> QED
      BY <2>2, <2>3
  <1> QED
    BY <1>1, WheelInit, WheelNext, OnTimeInit, OnTimeNext, PTL DEF Spec, WholeScans
==============================================================================
