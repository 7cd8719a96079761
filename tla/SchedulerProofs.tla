--------------------------- MODULE SchedulerProofs ---------------------------
(* Safety of Scheduler for every number of workers, clients and frames.      *)
EXTENDS Scheduler, FiniteSetTheorems, TLAPS

(* Who holds a frame, as the actions rely on it: a thread or worker that is   *)
(* at a step that touches its frame has one, in the state that step expects,  *)
(* and shares it with nobody of its kind; the queue holds distinct frames.    *)
ThreadsOwn ==
  /\ \A t \in Threads :
       /\ tpc[t] \in {"idle", "notify"} => tframe[t] = None
       /\ tpc[t] = "count" => tframe[t] # None /\ frame[tframe[t]] = "accepted"
       /\ tpc[t] = "append" => /\ tframe[t] # None
                               /\ frame[tframe[t]] \in {"counted", "given"}
  /\ \A t, u \in Threads : tframe[t] = tframe[u] /\ tframe[t] # None => t = u

WorkersOwn ==
  /\ \A w \in Workers :
       /\ wpc[w] \notin {"resume", "finish"} => wframe[w] = None
       /\ wpc[w] = "resume" => wframe[w] # None /\ frame[wframe[w]] = "running"
       /\ wpc[w] = "finish" => wframe[w] # None /\ frame[wframe[w]] = "finishing"
  /\ \A v, w \in Workers : wframe[v] = wframe[w] /\ wframe[v] # None => v = w

QueueOwns ==
  /\ \A i \in 1..Len(coroutine_queue) : frame[coroutine_queue[i]] = "queued"
  /\ \A i, j \in 1..Len(coroutine_queue) :
       coroutine_queue[i] = coroutine_queue[j] => i = j

Inv == TypeOK /\ ThreadsOwn /\ WorkersOwn /\ QueueOwns /\ CountExact

(* Live is finite, and has a member only if its cardinality is positive. *)
LEMMA LiveCounted ==
  /\ IsFiniteSet(Live)
  /\ Cardinality(Live) \in Nat
  /\ \A f \in Live : Cardinality(Live) >= 1
  <1>1. IsFiniteSet(Live)
    BY SchedulerAssumption, FS_Subset DEF Live
  <1>2. Cardinality(Live) \in Nat
    BY <1>1, FS_CardinalityType
  <1>3. Cardinality(Live) = 0 <=> Live = {}
    BY <1>1, FS_EmptySet
  <1> QED
    BY <1>1, <1>2, <1>3

(* No step leaves the types: a thread or worker at a step that touches its    *)
(* frame has one, and the count is decremented only while a counted frame     *)
(* runs (task.ipp 97-98).                                                     *)
LEMMA TypeStep == Inv /\ Next => TypeOK'
  <1> SUFFICES ASSUME Inv, Next PROVE TypeOK'
    OBVIOUS
  <1> USE SchedulerAssumption DEF Inv, TypeOK, MainPC, WorkerPC, ThreadPC, FrameState
  <1>1. ASSUME StartNet PROVE TypeOK' BY <1>1 DEF StartNet
  <1>2. ASSUME ClearStopFlag PROVE TypeOK' BY <1>2 DEF ClearStopFlag
  <1>3. ASSUME NEW w \in Workers, SpawnWorker(w) PROVE TypeOK'
    BY <1>3 DEF SpawnWorker
  <1>4. ASSUME SetStopFlag PROVE TypeOK' BY <1>4 DEF SetStopFlag, Live
  <1>5. ASSUME NotifyAll PROVE TypeOK' BY <1>5 DEF NotifyAll
  <1>6. ASSUME StopServices \/ JoinTime \/ JoinNet \/ JoinWorkers PROVE TypeOK'
    BY <1>6 DEF StopServices, JoinTime, JoinNet, JoinWorkers
  <1>7. ASSUME UNCHANGED vars PROVE TypeOK' BY <1>7 DEF vars
  <1>8. ASSUME NEW t \in Threads, NEW f \in Frames, CommitCheck(t, f) PROVE TypeOK'
    <2>1. CASE stop_flag
      <3>1. PICK r \in {"dropped", "refused"} : frame' = [frame EXCEPT ![f] = r]
        BY <1>8, <2>1 DEF CommitCheck
      <3> QED
        BY <1>8, <2>1, <3>1 DEF CommitCheck
    <2>2. CASE ~stop_flag
      <3>1. /\ frame' = [frame EXCEPT ![f] = "accepted"]
            /\ tpc' = [tpc EXCEPT ![t] = "count"]
            /\ tframe' = [tframe EXCEPT ![t] = f]
            /\ UNCHANGED <<main, stop_flag, running_coro_cnt, coroutine_queue,
                           wpc, wframe, turns, early>>
        BY <1>8, <2>2 DEF CommitCheck
      <3> QED
        BY <3>1
    <2> QED
      BY <2>1, <2>2
  <1>9. ASSUME NEW t \in Threads, NEW f \in Frames, GiveBack(t, f) PROVE TypeOK'
    BY <1>9 DEF GiveBack
  <1>10. ASSUME NEW t \in Threads, CommitCount(t) PROVE TypeOK'
    <2>1. tframe[t] \in Frames
      BY <1>10 DEF CommitCount, ThreadsOwn
    <2> QED
      BY <1>10, <2>1 DEF CommitCount
  <1>11. ASSUME NEW t \in Threads, CommitAppend(t) PROVE TypeOK'
    <2>1. tframe[t] \in Frames
      BY <1>11 DEF CommitAppend, ThreadsOwn
    <2> QED
      BY <1>11, <2>1 DEF CommitAppend
  <1>12. ASSUME NEW t \in Threads, CommitNotify(t) PROVE TypeOK'
    BY <1>12 DEF CommitNotify, NotifyOne
  <1>13. ASSUME NEW w \in Workers,
                EnterLoop(w) \/ LeaveLoop(w) \/ StartWait(w) \/ Sleep(w)
                \/ Expire(w) \/ WakeSpuriously(w)
         PROVE TypeOK'
    BY <1>13 DEF EnterLoop, LeaveLoop, StartWait, Sleep, Expire, WakeSpuriously
  <1>14. ASSUME NEW w \in Workers, EndWait(w) PROVE TypeOK'
    <2>1. CASE coroutine_queue = <<>>
      BY <1>14, <2>1 DEF EndWait, TakeFrame
    <2>2. CASE coroutine_queue # <<>>
      <3>1. Head(coroutine_queue) \in Frames /\ Tail(coroutine_queue) \in Seq(Frames)
        BY <2>2
      <3>2. /\ wpc' = [wpc EXCEPT ![w] = "resume"]
            /\ wframe' = [wframe EXCEPT ![w] = Head(coroutine_queue)]
            /\ frame' = [frame EXCEPT ![Head(coroutine_queue)] = "running"]
            /\ coroutine_queue' = Tail(coroutine_queue)
            /\ UNCHANGED <<main, stop_flag, running_coro_cnt, tpc, tframe,
                           turns, early>>
        BY <1>14, <2>2 DEF EndWait, TakeFrame
      <3> QED
        BY <3>1, <3>2
    <2> QED
      BY <2>1, <2>2
  <1>15. ASSUME NEW w \in Workers, Yield(w) PROVE TypeOK'
    <2>1. wframe[w] \in Frames
      BY <1>15 DEF Yield, WorkersOwn
    <2> QED
      BY <1>15, <2>1 DEF Yield
  <1>16. ASSUME NEW w \in Workers, YieldNotify(w) PROVE TypeOK'
    BY <1>16 DEF YieldNotify, NotifyOne
  <1>17. ASSUME NEW w \in Workers, Park(w) PROVE TypeOK'
    <2>1. wframe[w] \in Frames
      BY <1>17 DEF Park, WorkersOwn
    <2> QED
      BY <1>17, <2>1 DEF Park
  <1>18. ASSUME NEW w \in Workers, FinishCount(w) PROVE TypeOK'
    <2>1. wframe[w] \in Frames /\ wframe[w] \in Live
      BY <1>18 DEF FinishCount, WorkersOwn, Live
    <2>2. running_coro_cnt >= 1
      BY <2>1, LiveCounted DEF CountExact
    <2> QED
      BY <1>18, <2>1, <2>2 DEF FinishCount
  <1>19. ASSUME NEW w \in Workers, FinishSignal(w) PROVE TypeOK'
    BY <1>19 DEF FinishSignal
  <1> QED
    BY <1>1, <1>2, <1>3, <1>4, <1>5, <1>6, <1>7, <1>8, <1>9, <1>10, <1>11,
       <1>12, <1>13, <1>14, <1>15, <1>16, <1>17, <1>18, <1>19
    DEF Next, StartUp, ShutDown, Terminated, Commit, Worker

(* Commits and hand-overs keep their frames apart: a thread lets go of its    *)
(* frame in the step that appends it (common_execute_module.h 12-18).         *)
LEMMA ThreadsStep == Inv /\ Next => ThreadsOwn'
  <1> SUFFICES ASSUME Inv, Next PROVE ThreadsOwn'
    OBVIOUS
  <1> USE SchedulerAssumption DEF Inv, TypeOK, ThreadPC, ThreadsOwn
  <1>1. ASSUME UNCHANGED <<tpc, tframe, frame>> PROVE ThreadsOwn'
    BY <1>1
  <1>2. ASSUME NEW t \in Threads, NEW f \in Frames, CommitCheck(t, f)
        PROVE ThreadsOwn'
    <2>1. CASE stop_flag
      <3>1. /\ UNCHANGED <<tpc, tframe>> /\ frame[f] = "new"
            /\ \A g \in Frames : g # f => frame'[g] = frame[g]
        BY <1>2, <2>1 DEF CommitCheck
      <3> QED
        BY <3>1
    <2>2. CASE ~stop_flag
      BY <1>2, <2>2 DEF CommitCheck
    <2> QED
      BY <2>1, <2>2
  <1>3. ASSUME NEW t \in Threads, NEW f \in Frames, GiveBack(t, f)
        PROVE ThreadsOwn'
    BY <1>3 DEF GiveBack
  <1>4. ASSUME NEW t \in Threads, CommitCount(t) PROVE ThreadsOwn'
    BY <1>4 DEF CommitCount
  <1>5. ASSUME NEW t \in Threads, CommitAppend(t) PROVE ThreadsOwn'
    BY <1>5 DEF CommitAppend
  <1>6. ASSUME NEW t \in Threads, CommitNotify(t) PROVE ThreadsOwn'
    BY <1>6 DEF CommitNotify
  <1>7. ASSUME NEW w \in Workers, EndWait(w) PROVE ThreadsOwn'
    BY <1>7 DEF EndWait, TakeFrame, QueueOwns
  <1>8. ASSUME NEW w \in Workers,
               Yield(w) \/ Park(w) \/ FinishCount(w) \/ FinishSignal(w)
        PROVE ThreadsOwn'
    <2>1. PICK r \in FrameState : frame' = [frame EXCEPT ![wframe[w]] = r]
      BY <1>8 DEF Yield, Park, FinishCount, FinishSignal, FrameState
    <2>2. frame[wframe[w]] \in {"running", "finishing"} /\ wframe[w] \in Frames
      BY <1>8 DEF Yield, Park, FinishCount, FinishSignal, WorkersOwn
    <2>3. UNCHANGED <<tpc, tframe>>
      BY <1>8 DEF Yield, Park, FinishCount, FinishSignal
    <2>4. \A f \in Frames : f # wframe[w] => frame'[f] = frame[f]
      BY <2>1
    <2>5. \A t \in Threads :
            tpc[t] \in {"count", "append"} => tframe[t] # wframe[w]
      BY <2>2
    <2> QED
      BY <2>3, <2>4, <2>5
  <1> QED
    BY <1>1, <1>2, <1>3, <1>4, <1>5, <1>6, <1>7, <1>8
    DEF Next, StartUp, ShutDown, Terminated, Commit, Worker, vars, StartNet,
        ClearStopFlag, SpawnWorker, SetStopFlag, StopServices, NotifyAll,
        JoinTime, JoinNet, JoinWorkers, EnterLoop, LeaveLoop, StartWait, Sleep,
        Expire, WakeSpuriously, YieldNotify

(* Workers keep their frames apart: a frame is resumed by the worker that      *)
(* popped it until the await_suspend that gives it away (scheduler.cpp 82-91). *)
LEMMA WorkersStep == Inv /\ Next => WorkersOwn'
  <1> SUFFICES ASSUME Inv, Next PROVE WorkersOwn'
    OBVIOUS
  <1> USE SchedulerAssumption DEF Inv, TypeOK, WorkerPC, WorkersOwn
  <1>1. ASSUME UNCHANGED <<wpc, wframe, frame>> PROVE WorkersOwn'
    BY <1>1
  <1>2. ASSUME NEW w \in Workers, SpawnWorker(w) PROVE WorkersOwn'
    BY <1>2 DEF SpawnWorker
  <1>3. ASSUME NotifyAll PROVE WorkersOwn'
    BY <1>3 DEF NotifyAll
  <1>4. ASSUME NEW f \in Frames, UNCHANGED <<wpc, wframe>>,
               frame[f] \notin {"running", "finishing"},
               \A g \in Frames : g # f => frame'[g] = frame[g]
        PROVE  WorkersOwn'
    BY <1>4
  <1>5. ASSUME NEW t \in Threads, NEW f \in Frames,
               CommitCheck(t, f) \/ GiveBack(t, f)
        PROVE  WorkersOwn'
    <2>1. \A g \in Frames : g # f => frame'[g] = frame[g]
      BY <1>5 DEF CommitCheck, GiveBack
    <2> QED
      BY <1>4, <1>5, <2>1 DEF CommitCheck, GiveBack
  <1>6. ASSUME NEW t \in Threads, CommitCount(t) \/ CommitAppend(t)
        PROVE  WorkersOwn'
    <2>1. tframe[t] \in Frames /\ frame[tframe[t]] \notin {"running", "finishing"}
      BY <1>6 DEF CommitCount, CommitAppend, ThreadsOwn
    <2>2. \A g \in Frames : g # tframe[t] => frame'[g] = frame[g]
      BY <1>6 DEF CommitCount, CommitAppend
    <2> QED
      BY <1>4, <1>6, <2>1, <2>2 DEF CommitCount, CommitAppend
  <1>7. ASSUME NEW t \in Threads, CommitNotify(t) PROVE WorkersOwn'
    BY <1>7 DEF CommitNotify, NotifyOne
  <1>8. ASSUME NEW w \in Workers,
               EnterLoop(w) \/ LeaveLoop(w) \/ StartWait(w) \/ Sleep(w)
               \/ Expire(w) \/ WakeSpuriously(w)
        PROVE  WorkersOwn'
    BY <1>8 DEF EnterLoop, LeaveLoop, StartWait, Sleep, Expire, WakeSpuriously
  <1>9. ASSUME NEW w \in Workers, EndWait(w) PROVE WorkersOwn'
    <2>1. CASE coroutine_queue = <<>>
      BY <1>9, <2>1 DEF EndWait, TakeFrame
    <2>2. CASE coroutine_queue # <<>>
      <3> DEFINE f == Head(coroutine_queue)
      <3>1. f \in Frames /\ frame[f] = "queued"
        BY <2>2 DEF QueueOwns
      <3>2. /\ wpc' = [wpc EXCEPT ![w] = "resume"]
            /\ wframe' = [wframe EXCEPT ![w] = f]
            /\ frame' = [frame EXCEPT ![f] = "running"]
        BY <1>9, <2>2 DEF EndWait, TakeFrame
      <3>3. \A v \in Workers : wframe[v] # f
        BY <3>1
      <3> HIDE DEF f
      <3> QED
        BY <3>1, <3>2, <3>3, <1>9 DEF EndWait
    <2> QED
      BY <2>1, <2>2
  <1>10. ASSUME NEW w \in Workers, Yield(w) PROVE WorkersOwn'
    BY <1>10 DEF Yield
  <1>11. ASSUME NEW w \in Workers, YieldNotify(w) PROVE WorkersOwn'
    BY <1>11 DEF YieldNotify, NotifyOne
  <1>12. ASSUME NEW w \in Workers, Park(w) PROVE WorkersOwn'
    BY <1>12 DEF Park
  <1>13. ASSUME NEW w \in Workers, FinishCount(w) PROVE WorkersOwn'
    BY <1>13 DEF FinishCount
  <1>14. ASSUME NEW w \in Workers, FinishSignal(w) PROVE WorkersOwn'
    BY <1>14 DEF FinishSignal
  <1> QED
    BY <1>1, <1>2, <1>3, <1>5, <1>6, <1>7, <1>8, <1>9, <1>10, <1>11, <1>12,
       <1>13, <1>14
    DEF Next, StartUp, ShutDown, Terminated, Commit, Worker, vars, StartNet,
        ClearStopFlag, SetStopFlag, StopServices, JoinTime, JoinNet, JoinWorkers

(* The ready queue never holds a frame twice, whoever appends (scheduler.cpp  *)
(* 74-76, common_execute_module.h 12-18).                                     *)
LEMMA QueueStep == Inv /\ Next => QueueOwns'
  <1> SUFFICES ASSUME Inv, Next PROVE QueueOwns'
    OBVIOUS
  <1> USE SchedulerAssumption DEF Inv, TypeOK, QueueOwns
  <1>1. ASSUME UNCHANGED <<coroutine_queue, frame>> PROVE QueueOwns'
    BY <1>1
  <1>2. ASSUME NEW f \in Frames, UNCHANGED coroutine_queue,
               frame[f] # "queued",
               \A g \in Frames : g # f => frame'[g] = frame[g]
        PROVE  QueueOwns'
    BY <1>2
  <1>3. ASSUME NEW f \in Frames, frame[f] # "queued",
               coroutine_queue' = Append(coroutine_queue, f),
               frame' = [frame EXCEPT ![f] = "queued"]
        PROVE  QueueOwns'
    BY <1>3
  <1>4. ASSUME NEW t \in Threads, NEW f \in Frames,
               CommitCheck(t, f) \/ GiveBack(t, f)
        PROVE  QueueOwns'
    <2>1. \A g \in Frames : g # f => frame'[g] = frame[g]
      BY <1>4 DEF CommitCheck, GiveBack
    <2> QED
      BY <1>2, <1>4, <2>1 DEF CommitCheck, GiveBack
  <1>5. ASSUME NEW t \in Threads, CommitCount(t) PROVE QueueOwns'
    BY <1>2, <1>5 DEF CommitCount, ThreadsOwn
  <1>6. ASSUME NEW t \in Threads, CommitAppend(t) PROVE QueueOwns'
    BY <1>3, <1>6 DEF CommitAppend, ThreadsOwn
  <1>7. ASSUME NEW w \in Workers, EndWait(w) PROVE QueueOwns'
    <2>1. CASE coroutine_queue = <<>>
      BY <1>7, <1>1, <2>1 DEF EndWait, TakeFrame
    <2>2. CASE coroutine_queue # <<>>
      <3>1. /\ frame' = [frame EXCEPT ![Head(coroutine_queue)] = "running"]
            /\ coroutine_queue' = Tail(coroutine_queue)
        BY <1>7, <2>2 DEF EndWait, TakeFrame
      <3>2. \A i \in 1..Len(coroutine_queue') :
               /\ i + 1 \in 1..Len(coroutine_queue)
               /\ coroutine_queue'[i] = coroutine_queue[i + 1]
               /\ coroutine_queue'[i] # Head(coroutine_queue)
               /\ coroutine_queue'[i] \in Frames
        BY <2>2, <3>1
      <3>3. \A i \in 1..Len(coroutine_queue') : frame'[coroutine_queue'[i]] = "queued"
        BY <3>1, <3>2
      <3>4. \A i, j \in 1..Len(coroutine_queue') :
               coroutine_queue'[i] = coroutine_queue'[j] => i = j
        <4> SUFFICES ASSUME NEW i \in 1..Len(coroutine_queue'),
                            NEW j \in 1..Len(coroutine_queue'),
                            coroutine_queue'[i] = coroutine_queue'[j]
                     PROVE  i = j
          OBVIOUS
        <4>1. i + 1 = j + 1
          BY <3>2
        <4> QED
          BY <4>1
      <3> QED
        BY <3>3, <3>4
    <2> QED
      BY <2>1, <2>2
  <1>8. ASSUME NEW w \in Workers, Yield(w) PROVE QueueOwns'
    BY <1>3, <1>8 DEF Yield, WorkersOwn
  <1>9. ASSUME NEW w \in Workers, Park(w) \/ FinishCount(w) \/ FinishSignal(w)
        PROVE  QueueOwns'
    <2>1. wframe[w] \in Frames /\ frame[wframe[w]] # "queued"
      BY <1>9 DEF Park, FinishCount, FinishSignal, WorkersOwn
    <2>2. \A g \in Frames : g # wframe[w] => frame'[g] = frame[g]
      BY <1>9 DEF Park, FinishCount, FinishSignal
    <2> QED
      BY <1>2, <1>9, <2>1, <2>2 DEF Park, FinishCount, FinishSignal
  <1> QED
    BY <1>1, <1>4, <1>5, <1>6, <1>7, <1>8, <1>9
    DEF Next, StartUp, ShutDown, Terminated, Commit, Worker, vars, StartNet,
        ClearStopFlag, SpawnWorker, SetStopFlag, StopServices, NotifyAll,
        JoinTime, JoinNet, JoinWorkers, CommitNotify, EnterLoop, LeaveLoop,
        StartWait, Sleep, Expire, WakeSpuriously, YieldNotify

(* The count follows the frames: only commit (scheduler.h 67) and the final   *)
(* suspension (task.ipp 98) change either, and they change both.              *)
LEMMA CountStep == Inv /\ Next => CountExact'
  <1> SUFFICES ASSUME Inv, Next PROVE CountExact'
    OBVIOUS
  <1> USE SchedulerAssumption DEF Inv, TypeOK, CountExact
  <1> DEFINE Counted == {"counted", "queued", "running", "parked", "given"}
  <1>1. ASSUME NEW f \in Frames, NEW r, frame' = [frame EXCEPT ![f] = r]
        PROVE  Live' = IF r \in Counted THEN Live \cup {f} ELSE Live \ {f}
    BY <1>1 DEF Live
  <1>2. ASSUME UNCHANGED <<running_coro_cnt, frame>> PROVE CountExact'
    BY <1>2 DEF Live
  <1>3. ASSUME NEW f \in Frames, NEW r, frame' = [frame EXCEPT ![f] = r],
               r \in Counted <=> frame[f] \in Counted,
               UNCHANGED running_coro_cnt
        PROVE  CountExact'
    <2>1. Live' = Live
      BY <1>1, <1>3 DEF Live
    <2> QED
      BY <1>3, <2>1
  <1>4. ASSUME NEW t \in Threads, NEW f \in Frames, CommitCheck(t, f)
        PROVE  CountExact'
    <2>1. PICK r \in {"refused", "dropped", "accepted"} :
            frame' = [frame EXCEPT ![f] = r]
      BY <1>4 DEF CommitCheck
    <2> QED
      BY <1>3, <1>4, <2>1 DEF CommitCheck
  <1>5. ASSUME NEW t \in Threads, NEW f \in Frames, GiveBack(t, f)
        PROVE  CountExact'
    BY <1>3, <1>5 DEF GiveBack
  <1>6. ASSUME NEW t \in Threads, CommitCount(t) PROVE CountExact'
    <2>1. tframe[t] \in Frames /\ tframe[t] \notin Live
      BY <1>6 DEF CommitCount, ThreadsOwn, Live
    <2>2. Live' = Live \cup {tframe[t]}
      <3>1. frame' = [frame EXCEPT ![tframe[t]] = "counted"]
        BY <1>6 DEF CommitCount
      <3> QED
        BY <1>1, <2>1, <3>1
    <2>3. Cardinality(Live') = Cardinality(Live) + 1
      BY <2>1, <2>2, LiveCounted, FS_AddElement
    <2> QED
      BY <1>6, <2>3 DEF CommitCount
  <1>7. ASSUME NEW t \in Threads, CommitAppend(t) PROVE CountExact'
    BY <1>3, <1>7 DEF CommitAppend, ThreadsOwn
  <1>8. ASSUME NEW w \in Workers, EndWait(w) PROVE CountExact'
    <2>1. CASE coroutine_queue = <<>>
      BY <1>2, <1>8, <2>1 DEF EndWait, TakeFrame
    <2>2. CASE coroutine_queue # <<>>
      <3>1. /\ Head(coroutine_queue) \in Frames
            /\ frame[Head(coroutine_queue)] = "queued"
        BY <2>2 DEF QueueOwns
      <3>2. /\ frame' = [frame EXCEPT ![Head(coroutine_queue)] = "running"]
            /\ UNCHANGED running_coro_cnt
        BY <1>8, <2>2 DEF EndWait, TakeFrame
      <3> QED
        BY <1>3, <3>1, <3>2
    <2> QED
      BY <2>1, <2>2
  <1>9. ASSUME NEW w \in Workers, Yield(w) PROVE CountExact'
    BY <1>3, <1>9 DEF Yield, WorkersOwn
  <1>10. ASSUME NEW w \in Workers, Park(w) PROVE CountExact'
    BY <1>3, <1>10 DEF Park, WorkersOwn
  <1>11. ASSUME NEW w \in Workers, FinishCount(w) PROVE CountExact'
    <2>1. wframe[w] \in Frames /\ wframe[w] \in Live
      BY <1>11 DEF FinishCount, WorkersOwn, Live
    <2>2. frame' = [frame EXCEPT ![wframe[w]] = "finishing"]
      BY <1>11 DEF FinishCount
    <2>3. Live' = Live \ {wframe[w]}
      <3>1. \A g \in Frames :
              frame'[g] = IF g = wframe[w] THEN "finishing" ELSE frame[g]
        BY <2>1, <2>2
      <3> QED
        BY <2>1, <3>1 DEF Live
    <2>4. Cardinality(Live') = Cardinality(Live) - 1
      BY <2>1, <2>3, LiveCounted, FS_RemoveElement
    <2> QED
      BY <1>11, <2>4 DEF FinishCount
  <1>12. ASSUME NEW w \in Workers, FinishSignal(w) PROVE CountExact'
    BY <1>3, <1>12 DEF FinishSignal, WorkersOwn
  <1> QED
    BY <1>2, <1>4, <1>5, <1>6, <1>7, <1>8, <1>9, <1>10, <1>11, <1>12
    DEF Next, StartUp, ShutDown, Terminated, Commit, Worker, vars, StartNet,
        ClearStopFlag, SpawnWorker, SetStopFlag, StopServices, NotifyAll,
        JoinTime, JoinNet, JoinWorkers, CommitNotify, EnterLoop, LeaveLoop,
        StartWait, Sleep, Expire, WakeSpuriously, YieldNotify

(* A framework under construction (scheduler.h 27-37) satisfies Inv. *)
LEMMA InitInv == Init => Inv
  <1> SUFFICES ASSUME Init PROVE Inv
    OBVIOUS
  <1> USE SchedulerAssumption DEF Init
  <1>1. TypeOK
    BY DEF TypeOK, MainPC, WorkerPC, ThreadPC, FrameState
  <1>2. ThreadsOwn /\ WorkersOwn /\ QueueOwns
    BY DEF ThreadsOwn, WorkersOwn, QueueOwns
  <1>3. Live = {}
    BY DEF Live
  <1>4. CountExact
    BY <1>3, FS_EmptySet DEF CountExact
  <1> QED
    BY <1>1, <1>2, <1>4 DEF Inv

(* Inv is inductive: ownership, types and the count need each other. *)
LEMMA InvStep == Inv /\ [Next]_vars => Inv'
  <1>1. ASSUME Inv, Next PROVE Inv'
    BY <1>1, TypeStep, ThreadsStep, WorkersStep, QueueStep, CountStep DEF Inv
  <1>2. ASSUME Inv, UNCHANGED vars PROVE Inv'
    BY <1>2 DEF vars, Inv, TypeOK, ThreadsOwn, WorkersOwn, QueueOwns,
                CountExact, Live
  <1> QED
    BY <1>1, <1>2

-----------------------------------------------------------------------------
(* What the wake-up argument needs besides: before start() clears stop_flag_ *)
(* no worker runs, workers leave only a stopped framework, and a worker that *)
(* is about to sleep, with lock_, found the queue empty.                     *)
FlagInv ==
  /\ main \in {"net_start", "clear_flag"} =>
       \A w \in Workers : wpc[w] = "unborn"
  /\ main \in {"spawn", "up"} => ~stop_flag
  /\ \A w \in Workers : wpc[w] = "exited" => stop_flag

BlockInv == \A w \in Workers : wpc[w] = "blocking" => coroutine_queue = <<>>

(* start() clears stop_flag_ before it spawns the workers (scheduler.cpp      *)
(* 21-30), and only stop() raises it again.                                   *)
LEMMA FlagStep == Inv /\ FlagInv /\ Next => FlagInv'
  <1> SUFFICES ASSUME Inv, FlagInv, Next PROVE FlagInv'
    OBVIOUS
  <1> USE DEF Inv, TypeOK, MainPC, WorkerPC, FlagInv
  <1>1. ASSUME UNCHANGED <<main, stop_flag, wpc>> PROVE FlagInv'
    BY <1>1
  <1>2. ASSUME StartNet \/ ClearStopFlag PROVE FlagInv'
    BY <1>2 DEF StartNet, ClearStopFlag
  <1>3. ASSUME NEW w \in Workers, SpawnWorker(w) PROVE FlagInv'
    BY <1>3 DEF SpawnWorker
  <1>4. ASSUME SetStopFlag \/ StopServices \/ NotifyAll \/ JoinTime \/ JoinNet
               \/ JoinWorkers
        PROVE  FlagInv'
    BY <1>4 DEF SetStopFlag, StopServices, NotifyAll, JoinTime, JoinNet, JoinWorkers
  <1>5. ASSUME NEW w \in Workers, LeaveLoop(w) PROVE FlagInv'
    BY <1>5 DEF LeaveLoop
  <1>6. ASSUME NEW w \in Workers, wpc[w] # "unborn",
               UNCHANGED <<main, stop_flag>>,
               \A v \in Workers : wpc'[v] = "exited" => wpc[v] = "exited"
        PROVE  FlagInv'
    BY <1>6
  <1>7. ASSUME NEW w \in Workers,
               EnterLoop(w) \/ StartWait(w) \/ Sleep(w) \/ Expire(w)
               \/ WakeSpuriously(w) \/ EndWait(w) \/ Yield(w) \/ Park(w)
               \/ FinishCount(w) \/ FinishSignal(w)
        PROVE  FlagInv'
    <2>1. PICK r \in WorkerPC \ {"exited"} : wpc' = [wpc EXCEPT ![w] = r]
      BY <1>7 DEF EnterLoop, StartWait, Sleep, Expire, WakeSpuriously, EndWait,
                  TakeFrame, Yield, Park, FinishCount, FinishSignal
    <2>2. wpc[w] # "unborn" /\ UNCHANGED <<main, stop_flag>>
      BY <1>7 DEF EnterLoop, StartWait, Sleep, Expire, WakeSpuriously, EndWait,
                  Yield, Park, FinishCount, FinishSignal
    <2> QED
      BY <1>6, <2>1, <2>2
  <1>8. ASSUME NEW t \in Threads, CommitNotify(t) PROVE FlagInv'
    BY <1>8 DEF CommitNotify, NotifyOne
  <1>9. ASSUME NEW w \in Workers, YieldNotify(w) PROVE FlagInv'
    BY <1>9 DEF YieldNotify, NotifyOne
  <1> QED
    BY <1>1, <1>2, <1>3, <1>4, <1>5, <1>7, <1>8, <1>9
    DEF Next, StartUp, ShutDown, Terminated, Commit, Worker, vars, CommitCheck,
        GiveBack, CommitCount, CommitAppend

(* While a worker goes to sleep with lock_ held nobody appends (scheduler.cpp *)
(* 69-72).                                                                    *)
LEMMA BlockStep == Inv /\ BlockInv /\ Next => BlockInv'
  <1> SUFFICES ASSUME Inv, BlockInv, Next PROVE BlockInv'
    OBVIOUS
  <1> USE DEF Inv, TypeOK, WorkerPC, BlockInv
  <1>1. ASSUME UNCHANGED coroutine_queue,
               \A w \in Workers : wpc'[w] = "blocking" => wpc[w] = "blocking"
        PROVE  BlockInv'
    BY <1>1
  <1>2. ASSUME LockFree,
               \A w \in Workers : wpc'[w] = "blocking" => wpc[w] = "blocking"
        PROVE  BlockInv'
    BY <1>2 DEF LockFree
  <1>3. ASSUME NEW w \in Workers, StartWait(w) PROVE BlockInv'
    BY <1>3 DEF StartWait, Predicate
  <1>4. ASSUME NEW t \in Threads, CommitAppend(t) PROVE BlockInv'
    BY <1>2, <1>4 DEF CommitAppend
  <1>5. ASSUME NEW w \in Workers, EndWait(w) \/ Yield(w) PROVE BlockInv'
    BY <1>2, <1>5 DEF EndWait, TakeFrame, Yield
  <1>6. ASSUME NEW t \in Threads, CommitNotify(t) PROVE BlockInv'
    BY <1>1, <1>6 DEF CommitNotify, NotifyOne
  <1>7. ASSUME NEW w \in Workers, YieldNotify(w) PROVE BlockInv'
    BY <1>1, <1>7 DEF YieldNotify, NotifyOne
  <1>8. ASSUME NEW w \in Workers,
               SpawnWorker(w) \/ EnterLoop(w) \/ LeaveLoop(w) \/ Sleep(w)
               \/ Expire(w) \/ WakeSpuriously(w) \/ Park(w)
               \/ FinishCount(w) \/ FinishSignal(w)
        PROVE  BlockInv'
    BY <1>1, <1>8 DEF SpawnWorker, EnterLoop, LeaveLoop, Sleep, Expire,
                      WakeSpuriously, Park, FinishCount, FinishSignal
  <1>9. ASSUME NotifyAll PROVE BlockInv'
    BY <1>1, <1>9 DEF NotifyAll
  <1> QED
    BY <1>1, <1>3, <1>4, <1>5, <1>6, <1>7, <1>8, <1>9
    DEF Next, StartUp, ShutDown, Terminated, Commit, Worker, vars, CommitCheck,
        GiveBack, CommitCount, StartNet, ClearStopFlag, SetStopFlag,
        StopServices, JoinTime, JoinNet, JoinWorkers

(* No step loses a wake-up: an append is followed by a notification, and a    *)
(* worker that falls asleep saw an empty queue (scheduler.cpp 70-72).         *)
LEMMA WakeStep == Inv /\ FlagInv /\ BlockInv /\ NoLostWakeup /\ Next => NoLostWakeup'
  <1> SUFFICES ASSUME Inv, FlagInv, BlockInv, NoLostWakeup, Next,
                      (coroutine_queue # <<>>)', (~stop_flag)'
               PROVE  \/ \E w \in Workers : OnItsWay(w)'
                      \/ \E t \in Threads : tpc'[t] = "notify"
    BY DEF NoLostWakeup, OnItsWay
  <1> DEFINE Goal == \/ \E w \in Workers : OnItsWay(w)'
                     \/ \E t \in Threads : tpc'[t] = "notify"
  <1> USE DEF Inv, TypeOK, WorkerPC, ThreadPC, OnItsWay
  \* Steps that leave the queue, the flag and everyone's way as they were.
  <1>1. ASSUME UNCHANGED <<coroutine_queue, stop_flag>>,
               \A t \in Threads : tpc[t] = "notify" => tpc'[t] = "notify",
               \A w \in Workers : OnItsWay(w) => OnItsWay(w)'
        PROVE  Goal
    BY <1>1 DEF NoLostWakeup
  <1>2. ASSUME NEW w \in Workers, OnItsWay(w)' PROVE Goal
    BY <1>2
  <1>3. ASSUME ClearStopFlag PROVE Goal
    <2>1. PICK w \in Workers : TRUE
      BY SchedulerAssumption
    <2> QED
      BY <1>2, <1>3, <2>1 DEF ClearStopFlag, FlagInv
  <1>4. ASSUME NEW w \in Workers,
               SpawnWorker(w) \/ EnterLoop(w) \/ Expire(w) \/ WakeSpuriously(w)
               \/ EndWait(w) \/ Yield(w) \/ Park(w) \/ FinishCount(w)
               \/ FinishSignal(w)
        PROVE  Goal
    BY <1>2, <1>4 DEF SpawnWorker, EnterLoop, Expire, WakeSpuriously, EndWait,
                      TakeFrame, Yield, Park, FinishCount, FinishSignal
  <1>5. ASSUME NEW w \in Workers, YieldNotify(w) PROVE Goal
    <2>1. OnItsWay(w)'
      BY <1>5 DEF YieldNotify, NotifyOne
    <2> QED
      BY <1>2, <2>1
  \* A worker goes to sleep only on an empty queue, and leaves only when stopped.
  <1>6. ASSUME NEW w \in Workers, StartWait(w) PROVE Goal
    BY <1>6 DEF StartWait, Predicate
  <1>7. ASSUME NEW w \in Workers, Sleep(w) PROVE Goal
    BY <1>7 DEF Sleep, BlockInv
  <1>8. ASSUME NEW w \in Workers, LeaveLoop(w) PROVE Goal
    BY <1>8 DEF LeaveLoop
  <1>9. ASSUME NotifyAll PROVE Goal
    BY <1>1, <1>9 DEF NotifyAll
  <1>10. ASSUME NEW t \in Threads, CommitAppend(t) PROVE Goal
    BY <1>10 DEF CommitAppend
  \* A notification wakes a sleeper, or every worker is awake already.
  <1>11. ASSUME NEW t \in Threads, CommitNotify(t) PROVE Goal
    <2>1. UNCHANGED <<coroutine_queue, stop_flag>>
      BY <1>11 DEF CommitNotify
    <2>2. CASE \E w \in Workers : /\ wpc[w] = "waiting"
                                  /\ wpc' = [wpc EXCEPT ![w] = "woken"]
      BY <2>2
    <2>3. CASE /\ \A w \in Workers : wpc[w] # "waiting"
               /\ wpc' = wpc
      <3>1. PICK w \in Workers : TRUE
        BY SchedulerAssumption
      <3>2. wpc[w] \notin {"waiting", "blocking", "exited"}
        BY <2>1, <2>3 DEF BlockInv, FlagInv
      <3> QED
        BY <2>3, <3>2
    <2> QED
      BY <1>11, <2>2, <2>3 DEF CommitNotify, NotifyOne
  <1>12. ASSUME NEW t \in Threads, NEW f \in Frames,
                CommitCheck(t, f) \/ GiveBack(t, f)
         PROVE  Goal
    BY <1>1, <1>12 DEF CommitCheck, GiveBack
  <1>13. ASSUME NEW t \in Threads, CommitCount(t) PROVE Goal
    BY <1>1, <1>13 DEF CommitCount
  <1>14. ASSUME \/ StartNet \/ SetStopFlag \/ StopServices \/ JoinTime
                \/ JoinNet \/ JoinWorkers \/ UNCHANGED vars
         PROVE  Goal
    BY <1>1, <1>14 DEF StartNet, SetStopFlag, StopServices, JoinTime, JoinNet,
                       JoinWorkers, vars
  <1> QED
    BY <1>3, <1>4, <1>5, <1>6, <1>7, <1>8, <1>9, <1>10, <1>11, <1>12, <1>13,
       <1>14
    DEF Next, StartUp, ShutDown, Terminated, Commit, Worker

(* The frames counted when stop_flag_ rose never start over. *)
EarlyInv ==
  /\ \A f \in early : frame[f] \notin {"new", "refused", "dropped", "accepted"}
  /\ EarlyWorkFinished

(* No worker leaves loop_ before the early frames are done: at the exit the   *)
(* count is zero (scheduler.cpp 67).                                          *)
LEMMA EarlyStep == Inv /\ FlagInv /\ EarlyInv /\ Next => EarlyInv'
  <1> SUFFICES ASSUME Inv, FlagInv, EarlyInv, Next PROVE EarlyInv'
    OBVIOUS
  <1> USE DEF Inv, TypeOK, WorkerPC, FrameState, EarlyInv, EarlyWorkFinished
  <1> DEFINE Exited == {w \in Workers : wpc[w] = "exited"}
  <1>1. ASSUME UNCHANGED <<frame, early>>, Exited' \subseteq Exited
        PROVE  EarlyInv'
    BY <1>1
  \* One frame takes a step that only a frame at work, or a new one, can take.
  <1>2. ASSUME NEW f \in Frames, NEW r \in FrameState,
               frame' = [frame EXCEPT ![f] = r],
               UNCHANGED early, Exited' \subseteq Exited,
               \/ frame[f] \in {"new", "accepted"}
               \/ /\ frame[f] \notin {"finishing", "done"}
                  /\ r \notin {"new", "refused", "dropped", "accepted"}
               \/ r \in {"finishing", "done"}
        PROVE  EarlyInv'
    BY <1>2
  <1>3. ASSUME SetStopFlag PROVE EarlyInv'
    BY <1>3 DEF SetStopFlag, FlagInv, Live
  <1>4. ASSUME NEW w \in Workers, LeaveLoop(w) PROVE EarlyInv'
    <2>1. Live = {}
      BY <1>4, LiveCounted DEF LeaveLoop, CountExact
    <2>2. \A f \in early : frame[f] \in {"finishing", "done"}
      BY <2>1 DEF Live
    <2> QED
      BY <1>4, <2>2 DEF LeaveLoop
  <1>5. ASSUME NEW t \in Threads, NEW f \in Frames, CommitCheck(t, f)
        PROVE  EarlyInv'
    <2>1. PICK r \in {"refused", "dropped", "accepted"} :
            frame' = [frame EXCEPT ![f] = r]
      BY <1>5 DEF CommitCheck
    <2> QED
      BY <1>2, <1>5, <2>1 DEF CommitCheck
  <1>6. ASSUME NEW t \in Threads, NEW f \in Frames, GiveBack(t, f)
        PROVE  EarlyInv'
    BY <1>2, <1>6 DEF GiveBack
  <1>7. ASSUME NEW t \in Threads, CommitCount(t) PROVE EarlyInv'
    BY <1>2, <1>7 DEF CommitCount, ThreadsOwn
  <1>8. ASSUME NEW t \in Threads, CommitAppend(t) PROVE EarlyInv'
    BY <1>2, <1>8 DEF CommitAppend, ThreadsOwn
  <1>9. ASSUME NEW t \in Threads, CommitNotify(t) PROVE EarlyInv'
    BY <1>1, <1>9 DEF CommitNotify, NotifyOne
  <1>10. ASSUME NEW w \in Workers, EndWait(w) PROVE EarlyInv'
    <2>1. Exited' \subseteq Exited /\ UNCHANGED early
      BY <1>10 DEF EndWait, TakeFrame
    <2>2. CASE coroutine_queue = <<>>
      BY <1>1, <1>10, <2>1, <2>2 DEF EndWait, TakeFrame
    <2>3. CASE coroutine_queue # <<>>
      <3>1. /\ Head(coroutine_queue) \in Frames
            /\ frame[Head(coroutine_queue)] = "queued"
        BY <2>3 DEF QueueOwns
      <3>2. frame' = [frame EXCEPT ![Head(coroutine_queue)] = "running"]
        BY <1>10, <2>3 DEF EndWait, TakeFrame
      <3> QED
        BY <1>2, <2>1, <3>1, <3>2
    <2> QED
      BY <2>2, <2>3
  <1>11. ASSUME NEW w \in Workers,
                Yield(w) \/ Park(w) \/ FinishCount(w) \/ FinishSignal(w)
         PROVE  EarlyInv'
    <2>1. Exited' \subseteq Exited /\ UNCHANGED early
      BY <1>11 DEF Yield, Park, FinishCount, FinishSignal
    <2>2. wframe[w] \in Frames
      BY <1>11 DEF Yield, Park, FinishCount, FinishSignal, WorkersOwn
    <2>3. CASE Yield(w)
      BY <1>2, <2>1, <2>2, <2>3 DEF Yield, WorkersOwn
    <2>4. CASE Park(w)
      BY <1>2, <2>1, <2>2, <2>4 DEF Park, WorkersOwn
    <2>5. CASE FinishCount(w)
      BY <1>2, <2>1, <2>2, <2>5 DEF FinishCount, WorkersOwn
    <2>6. CASE FinishSignal(w)
      BY <1>2, <2>1, <2>2, <2>6 DEF FinishSignal, WorkersOwn
    <2> QED
      BY <1>11, <2>3, <2>4, <2>5, <2>6
  <1>12. ASSUME NEW w \in Workers,
                SpawnWorker(w) \/ EnterLoop(w) \/ StartWait(w) \/ Sleep(w)
                \/ Expire(w) \/ WakeSpuriously(w)
         PROVE  EarlyInv'
    BY <1>1, <1>12 DEF SpawnWorker, EnterLoop, StartWait, Sleep, Expire,
                       WakeSpuriously
  <1>13. ASSUME NEW w \in Workers, YieldNotify(w) PROVE EarlyInv'
    BY <1>1, <1>13 DEF YieldNotify, NotifyOne
  <1>14. ASSUME NotifyAll PROVE EarlyInv'
    BY <1>1, <1>14 DEF NotifyAll
  <1>15. ASSUME \/ StartNet \/ ClearStopFlag \/ StopServices \/ JoinTime
                \/ JoinNet \/ JoinWorkers \/ UNCHANGED vars
         PROVE  EarlyInv'
    BY <1>1, <1>15 DEF StartNet, ClearStopFlag, StopServices, JoinTime, JoinNet,
                       JoinWorkers, vars
  <1> QED
    BY <1>3, <1>4, <1>5, <1>6, <1>7, <1>8, <1>9, <1>10, <1>11, <1>12, <1>13,
       <1>14, <1>15
    DEF Next, StartUp, ShutDown, Terminated, Commit, Worker

(* The converse of ThreadsOwn, WorkersOwn and QueueOwns: a frame on its way *)
(* is somewhere.                                                            *)
Placed ==
  \A f \in Frames :
    /\ frame[f] \in {"accepted", "counted", "given"} =>
         \E t \in Threads : tframe[t] = f
    /\ frame[f] = "queued" =>
         \E i \in 1..Len(coroutine_queue) : coroutine_queue[i] = f
    /\ frame[f] \in {"running", "finishing"} =>
         \E w \in Workers : wframe[w] = f

(* No step drops a frame: whoever gives a frame away puts it somewhere else   *)
(* in the same step.                                                          *)
LEMMA PlacedStep == Inv /\ Placed /\ Next => Placed'
  <1> SUFFICES ASSUME Inv, Placed, Next PROVE Placed'
    OBVIOUS
  <1> USE SchedulerAssumption DEF Inv, TypeOK, Placed
  <1>1. ASSUME UNCHANGED <<frame, tframe, wframe, coroutine_queue>> PROVE Placed'
    BY <1>1
  <1>2. ASSUME NEW t \in Threads, NEW f \in Frames, CommitCheck(t, f)
        PROVE  Placed'
    <2>1. CASE stop_flag
      BY <1>2, <2>1 DEF CommitCheck, ThreadsOwn
    <2>2. CASE ~stop_flag
      <3>1. tframe[t] = None
        BY <1>2 DEF CommitCheck, ThreadsOwn
      <3>2. /\ frame' = [frame EXCEPT ![f] = "accepted"]
            /\ tframe' = [tframe EXCEPT ![t] = f]
            /\ UNCHANGED <<wframe, coroutine_queue>>
        BY <1>2, <2>2 DEF CommitCheck
      <3> QED
        BY <3>1, <3>2
    <2> QED
      BY <2>1, <2>2
  <1>3. ASSUME NEW t \in Threads, NEW f \in Frames, GiveBack(t, f) PROVE Placed'
    <2>1. tframe[t] = None
      BY <1>3 DEF GiveBack, ThreadsOwn
    <2> QED
      BY <1>3, <2>1 DEF GiveBack
  <1>4. ASSUME NEW t \in Threads, CommitCount(t) PROVE Placed'
    BY <1>4 DEF CommitCount, ThreadsOwn
  <1>5. ASSUME NEW f \in Frames, frame' = [frame EXCEPT ![f] = "queued"],
               coroutine_queue' = Append(coroutine_queue, f),
               NEW g \in Frames, frame'[g] = "queued"
        PROVE  \E i \in 1..Len(coroutine_queue') : coroutine_queue'[i] = g
    <2>1. CASE g = f
      <3>1. Len(coroutine_queue) + 1 \in 1..Len(coroutine_queue')
        BY <1>5
      <3> QED
        BY <1>5, <2>1, <3>1
    <2>2. CASE g # f
      <3>1. PICK i \in 1..Len(coroutine_queue) : coroutine_queue[i] = g
        BY <1>5, <2>2
      <3> QED
        BY <1>5, <3>1
    <2> QED
      BY <2>1, <2>2
  <1>6. ASSUME NEW t \in Threads, CommitAppend(t) PROVE Placed'
    <2>1. tframe[t] \in Frames
      BY <1>6 DEF CommitAppend, ThreadsOwn
    <2>2. \A g \in Frames : frame'[g] = "queued" =>
            \E i \in 1..Len(coroutine_queue') : coroutine_queue'[i] = g
      BY <1>5, <1>6, <2>1 DEF CommitAppend
    <2> QED
      BY <1>6, <2>1, <2>2 DEF CommitAppend, ThreadsOwn
  <1>7. ASSUME NEW w \in Workers, EndWait(w) PROVE Placed'
    <2>1. CASE coroutine_queue = <<>>
      BY <1>1, <1>7, <2>1 DEF EndWait, TakeFrame
    <2>2. CASE coroutine_queue # <<>>
      <3> DEFINE h == Head(coroutine_queue)
      <3>1. /\ frame' = [frame EXCEPT ![h] = "running"]
            /\ wframe' = [wframe EXCEPT ![w] = h]
            /\ coroutine_queue' = Tail(coroutine_queue)
            /\ UNCHANGED tframe
        BY <1>7, <2>2 DEF EndWait, TakeFrame
      <3>2. h \in Frames /\ wframe[w] = None
        <4>1. wpc[w] \in {"lock", "woken", "expired"}
          BY <1>7 DEF EndWait
        <4>2. wframe[w] = None
          BY <4>1 DEF WorkersOwn
        <4>3. Head(coroutine_queue) \in Frames
          BY <2>2
        <4> QED
          BY <4>2, <4>3
      <3>3. ASSUME NEW g \in Frames, frame'[g] = "queued"
            PROVE  \E i \in 1..Len(coroutine_queue') : coroutine_queue'[i] = g
        <4>1. g # h /\ frame[g] = "queued"
          BY <3>1, <3>2, <3>3
        <4>2. PICK i \in 1..Len(coroutine_queue) : coroutine_queue[i] = g
          BY <4>1
        <4>3. i # 1
          BY <2>2, <4>1, <4>2
        <4>4. i - 1 \in 1..Len(coroutine_queue') /\ coroutine_queue'[i - 1] = g
          BY <2>2, <3>1, <4>2, <4>3
        <4> QED
          BY <4>4
      <3> HIDE DEF h
      <3> QED
        BY <3>1, <3>2, <3>3
    <2> QED
      BY <2>1, <2>2
  <1>8. ASSUME NEW w \in Workers, Yield(w) PROVE Placed'
    <2>1. wframe[w] \in Frames
      BY <1>8 DEF Yield, WorkersOwn
    <2>2. \A g \in Frames : frame'[g] = "queued" =>
            \E i \in 1..Len(coroutine_queue') : coroutine_queue'[i] = g
      BY <1>5, <1>8, <2>1 DEF Yield
    <2>3. /\ UNCHANGED tframe
          /\ \A g \in Frames : frame'[g] # "queued" => frame'[g] = frame[g]
          /\ \A g \in Frames : frame'[g] # "queued" => g # wframe[w]
          /\ \A v \in Workers : v # w => wframe'[v] = wframe[v]
      BY <1>8, <2>1 DEF Yield
    <2> QED
      BY <2>2, <2>3
  <1>9. ASSUME NEW w \in Workers, Park(w) PROVE Placed'
    BY <1>9 DEF Park, WorkersOwn
  <1>10. ASSUME NEW w \in Workers, FinishCount(w) PROVE Placed'
    BY <1>10 DEF FinishCount, WorkersOwn
  <1>11. ASSUME NEW w \in Workers, FinishSignal(w) PROVE Placed'
    BY <1>11 DEF FinishSignal, WorkersOwn
  <1> QED
    BY <1>1, <1>2, <1>3, <1>4, <1>6, <1>7, <1>8, <1>9, <1>10, <1>11
    DEF Next, StartUp, ShutDown, Terminated, Commit, Worker, vars, StartNet,
        ClearStopFlag, SpawnWorker, SetStopFlag, StopServices, NotifyAll,
        JoinTime, JoinNet, JoinWorkers, CommitNotify, EnterLoop, LeaveLoop,
        StartWait, Sleep, Expire, WakeSpuriously, YieldNotify

(* Somewhere, and in no two places: exactly one holder of every frame that is *)
(* on its way through commit, the queue and consume_ready_coroutine_.         *)
LEMMA PlacedOnce == Inv /\ Placed => HeldOnce
  <1> SUFFICES ASSUME Inv, Placed, NEW f \in Frames
               PROVE  Places(f) = IF frame[f] \in {"new", "refused", "dropped",
                                                   "parked", "done"}
                                  THEN 0 ELSE 1
    BY DEF HeldOnce
  <1> USE SchedulerAssumption DEF Inv, TypeOK, FrameState
  <1> DEFINE Q == {i \in DOMAIN coroutine_queue : coroutine_queue[i] = f}
             W == {w \in Workers : wframe[w] = f}
             T == {t \in Threads : tframe[t] = f}
             Size(S) == IF S = {} THEN 0 ELSE 1
  <1>1. \A i, j \in Q : i = j
    <2>1. DOMAIN coroutine_queue = 1..Len(coroutine_queue)
      OBVIOUS
    <2> QED
      BY <2>1 DEF QueueOwns
  <1>2. \A v, w \in W : v = w
    BY DEF WorkersOwn
  <1>3. \A t, u \in T : t = u
    BY DEF ThreadsOwn
  <1>4. ASSUME NEW S, \A x, y \in S : x = y
        PROVE  Cardinality(S) = Size(S)
    <2>1. CASE S = {}
      BY <2>1, FS_EmptySet
    <2>2. CASE S # {}
      <3>1. PICK x \in S : TRUE
        BY <2>2
      <3>2. S = {x}
        BY <1>4, <3>1
      <3> QED
        BY <2>2, <3>2, FS_Singleton
    <2> QED
      BY <2>1, <2>2
  <1>5. Places(f) = Size(Q) + Size(W) + Size(T)
    <2>1. Cardinality(Q) = Size(Q)
      BY <1>1, <1>4
    <2>2. Cardinality(W) = Size(W)
      BY <1>2, <1>4
    <2>3. Cardinality(T) = Size(T)
      BY <1>3, <1>4
    <2> QED
      BY <2>1, <2>2, <2>3 DEF Places
  <1>6. Q # {} <=> frame[f] = "queued"
    BY DEF QueueOwns, Placed
  <1>7. W # {} <=> frame[f] \in {"running", "finishing"}
    BY DEF WorkersOwn, Placed, WorkerPC
  <1>8. T # {} <=> frame[f] \in {"accepted", "counted", "given"}
    <2>1. ASSUME NEW t \in T
          PROVE  frame[f] \in {"accepted", "counted", "given"}
      <3>1. t \in Threads /\ tframe[t] = f
        BY <2>1
      <3>2. tpc[t] \in {"count", "append"}
        BY <3>1 DEF ThreadsOwn, ThreadPC
      <3> QED
        BY <3>1, <3>2 DEF ThreadsOwn
    <2>2. ASSUME frame[f] \in {"accepted", "counted", "given"} PROVE T # {}
      BY <2>2 DEF Placed
    <2> QED
      BY <2>1, <2>2
  <1> HIDE DEF Q, W, T
  <1> QED
    BY <1>5, <1>6, <1>7, <1>8

(* The inductive invariant of the whole argument. *)
IInv == /\ Inv /\ Placed
        /\ FlagInv /\ BlockInv /\ NoLostWakeup
        /\ EarlyInv

(* The inductive invariant holds in every reachable state of the scheduler. *)
LEMMA IInvAlways == Spec => []IInv
  <1>1. Init => IInv
    <2> SUFFICES ASSUME Init PROVE IInv
      OBVIOUS
    <2>1. Inv
      BY InitInv
    <2>2. FlagInv /\ BlockInv /\ NoLostWakeup
      BY DEF Init, FlagInv, BlockInv, NoLostWakeup
    <2>3. EarlyInv
      BY DEF Init, EarlyInv, EarlyWorkFinished
    <2>4. Placed
      BY DEF Init, Placed
    <2> QED
      BY <2>1, <2>2, <2>3, <2>4 DEF IInv
  <1>2. IInv /\ [Next]_vars => IInv'
    <2>1. ASSUME IInv, Next PROVE IInv'
      BY <2>1, InvStep, PlacedStep, FlagStep, BlockStep, WakeStep,
         EarlyStep DEF IInv
    <2>2. ASSUME IInv, UNCHANGED vars PROVE IInv'
      <3>1. Inv'
        BY <2>2, InvStep DEF IInv
      <3>2. FlagInv' /\ BlockInv'
        BY <2>2 DEF vars, IInv, FlagInv, BlockInv
      <3>3. NoLostWakeup'
        BY <2>2 DEF vars, IInv, NoLostWakeup, OnItsWay
      <3>4. EarlyInv'
        BY <2>2 DEF vars, IInv, EarlyInv, EarlyWorkFinished
      <3>5. Placed'
        BY <2>2 DEF vars, IInv, Placed
      <3> QED
        BY <3>1, <3>2, <3>3, <3>4, <3>5 DEF IInv
    <2> QED
      BY <2>1, <2>2
  <1> QED
    BY <1>1, <1>2, PTL DEF Spec

-----------------------------------------------------------------------------
(* Every variable keeps its type: in particular running_coro_cnt_, unsigned  *)
(* in the code, is never decremented below zero (scheduler.h 67, task.ipp    *)
(* 98).                                                                      *)
THEOREM TypeCorrect == Spec => []TypeOK
  <1>1. IInv => TypeOK
    BY DEF IInv, Inv
  <1> QED
    BY <1>1, IInvAlways, PTL

(* running_coro_cnt_, incremented by commit before the append and decremented *)
(* by the final suspension, is the number of coroutines on their way.         *)
THEOREM CountCorrect == Spec => []CountExact
  <1>1. IInv => CountExact
    BY DEF IInv, Inv
  <1> QED
    BY <1>1, IInvAlways, PTL

(* A committed frame is in one place at a time: no frame is queued twice or   *)
(* resumed by two workers, and none is forgotten, although commit, co_suspend *)
(* and the services pass frames on without a lock on the frame.               *)
THEOREM FramesHeldOnce == Spec => []HeldOnce
  <1>1. IInv => HeldOnce
    BY PlacedOnce DEF IInv
  <1> QED
    BY <1>1, IInvAlways, PTL

(* No append to the ready queue is left without a worker coming for it, for  *)
(* any number of committing threads and workers, with the notification sent  *)
(* after lock_ is released (common_execute_module.h 12-18).                  *)
THEOREM WakeupsKept == Spec => []NoLostWakeup
  <1>1. IInv => NoLostWakeup
    BY DEF IInv
  <1> QED
    BY <1>1, IInvAlways, PTL

(* stop() drains: no worker leaves loop_ (scheduler.cpp 67) before every      *)
(* coroutine counted when stop_flag_ rose has returned.                       *)
THEOREM StopDrains == Spec => []EarlyWorkFinished
  <1>1. IInv => EarlyWorkFinished
    BY DEF IInv, EarlyInv
  <1> QED
    BY <1>1, IInvAlways, PTL
==============================================================================
