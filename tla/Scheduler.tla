------------------------------ MODULE Scheduler ------------------------------
(* CoroScheduler and its base CommonExecuteModule (scheduler.h, scheduler.cpp,*)
(* common_execute_module.h): the life cycle of the framework, the threads     *)
(* that commit coroutines, the worker pool that resumes them, and the final   *)
(* suspension of a root coroutine.  The ready queue is a sequence: module     *)
(* CoroutineQueue shows the linked queue to be one under append and pop.      *)
EXTENDS Naturals, FiniteSets, Sequences

CONSTANTS
  Workers,   \* the threads of workers_
  Clients,   \* user threads that call commit
  Net,       \* the thread of NetService: commits requests, gives frames back
  Timer,     \* the thread of TimeService: gives frames back
  Frames,    \* root coroutine frames
  None,      \* no frame
  MaxTurns   \* bound: how often a frame suspends before it returns

Threads == Clients \cup {Net, Timer}

ASSUME SchedulerAssumption ==
  /\ IsFiniteSet(Frames) /\ None \notin Frames
  /\ Workers # {}
  /\ Net \notin Clients /\ Timer \notin Clients /\ Net # Timer
  /\ MaxTurns \in Nat

VARIABLES
  main,             \* where the owner is in start(), stop() and wait()
  stop_flag,        \* stop_flag_
  running_coro_cnt, \* running_coro_cnt_
  coroutine_queue,  \* coroutine_queue_
  wpc, wframe,      \* per worker: where it is, and the frame it resumes
  tpc, tframe,      \* per other thread: where it is in a commit, and of what
  frame,            \* per frame: how far it has come
  turns,            \* per frame: how often it has suspended
  early             \* history: the frames counted when stop_flag_ was set

vars == <<main, stop_flag, running_coro_cnt, coroutine_queue, wpc, wframe,
          tpc, tframe, frame, turns, early>>

MainPC   == {"net_start", "clear_flag", "spawn", "up", "stop_services",
             "notify_all", "join_time", "join_net", "join_workers", "joined"}
WorkerPC == {"unborn", "test", "lock", "blocking", "waiting", "woken",
             "expired", "resume", "notify", "finish", "exited"}
ThreadPC == {"idle", "count", "append", "notify"}

FrameState == {"new", "refused", "dropped", "accepted", "counted", "queued",
               "running", "parked", "given", "finishing", "done"}

(* The frames running_coro_cnt_ counts: committed and not returned yet. *)
Live == {f \in Frames :
           frame[f] \in {"counted", "queued", "running", "parked", "given"}}

TypeOK ==
  /\ main \in MainPC
  /\ stop_flag \in BOOLEAN
  /\ running_coro_cnt \in Nat
  /\ coroutine_queue \in Seq(Frames)
  /\ wpc \in [Workers -> WorkerPC]
  /\ wframe \in [Workers -> Frames \cup {None}]
  /\ tpc \in [Threads -> ThreadPC]
  /\ tframe \in [Threads -> Frames \cup {None}]
  /\ frame \in [Frames -> FrameState]
  /\ turns \in [Frames -> 0..MaxTurns]
  /\ early \subseteq Frames

Init ==
  /\ main = "net_start"
  /\ stop_flag = TRUE
  /\ running_coro_cnt = 0
  /\ coroutine_queue = <<>>
  /\ wpc = [w \in Workers |-> "unborn"]
  /\ wframe = [w \in Workers |-> None]
  /\ tpc = [t \in Threads |-> "idle"]
  /\ tframe = [t \in Threads |-> None]
  /\ frame = [f \in Frames |-> "new"]
  /\ turns = [f \in Frames |-> 0]
  /\ early = {}

-----------------------------------------------------------------------------
(* lock_ is held across steps only by a worker between its predicate and its *)
(* sleep; every other critical section is one step.                          *)
LockFree == \A w \in Workers : wpc[w] # "blocking"

(* The predicate of cv_.wait_for; stop_flag_ is read outside lock_. *)
Predicate == coroutine_queue # <<>> \/ stop_flag

(* cv_.notify_one by a worker or thread whose own step leaves the workers at  *)
(* pc: one sleeper, if there is any, wakes up.                                *)
NotifyOne(pc) ==
  \/ \E w \in Workers : /\ pc[w] = "waiting"
                        /\ wpc' = [pc EXCEPT ![w] = "woken"]
  \/ /\ \A w \in Workers : pc[w] # "waiting"
     /\ wpc' = pc

-----------------------------------------------------------------------------
(* start(), in the constructor: the network module listens before stop_flag_ *)
(* is cleared, and it is cleared before the workers run.                     *)
StartNet ==
  /\ main = "net_start"
  /\ main' = "clear_flag"
  /\ UNCHANGED <<stop_flag, running_coro_cnt, coroutine_queue, wpc, wframe,
                 tpc, tframe, frame, turns, early>>

ClearStopFlag ==
  /\ main = "clear_flag"
  /\ stop_flag' = FALSE
  /\ main' = "spawn"
  /\ UNCHANGED <<running_coro_cnt, coroutine_queue, wpc, wframe, tpc, tframe,
                 frame, turns, early>>

SpawnWorker(w) ==
  /\ main = "spawn"
  /\ wpc[w] = "unborn"
  /\ wpc' = [wpc EXCEPT ![w] = "test"]
  /\ main' = IF \A v \in Workers \ {w} : wpc[v] # "unborn"
             THEN "up" ELSE "spawn"
  /\ UNCHANGED <<stop_flag, running_coro_cnt, coroutine_queue, wframe, tpc,
                 tframe, frame, turns, early>>

(* stop(), first step: from here on commit refuses. *)
SetStopFlag ==
  /\ main = "up"
  /\ stop_flag' = TRUE
  /\ main' = "stop_services"
  /\ early' = Live
  /\ UNCHANGED <<running_coro_cnt, coroutine_queue, wpc, wframe, tpc, tframe,
                 frame, turns>>

(* time_module_.stop() and net_module_.stop(): no new network handler starts. *)
StopServices ==
  /\ main = "stop_services"
  /\ main' = "notify_all"
  /\ UNCHANGED <<stop_flag, running_coro_cnt, coroutine_queue, wpc, wframe,
                 tpc, tframe, frame, turns, early>>

(* cv_.notify_all(), without lock_ *)
NotifyAll ==
  /\ main = "notify_all"
  /\ wpc' = [w \in Workers |->
               IF wpc[w] = "waiting" THEN "woken" ELSE wpc[w]]
  /\ main' = "join_time"
  /\ UNCHANGED <<stop_flag, running_coro_cnt, coroutine_queue, wframe, tpc,
                 tframe, frame, turns, early>>

(* wait() joins the timer thread, the network thread and the workers. *)
JoinTime ==
  /\ main = "join_time"
  /\ tpc[Timer] = "idle"
  /\ main' = "join_net"
  /\ UNCHANGED <<stop_flag, running_coro_cnt, coroutine_queue, wpc, wframe,
                 tpc, tframe, frame, turns, early>>

JoinNet ==
  /\ main = "join_net"
  /\ tpc[Net] = "idle"
  /\ main' = "join_workers"
  /\ UNCHANGED <<stop_flag, running_coro_cnt, coroutine_queue, wpc, wframe,
                 tpc, tframe, frame, turns, early>>

JoinWorkers ==
  /\ main = "join_workers"
  /\ \A w \in Workers : wpc[w] = "exited"
  /\ main' = "joined"
  /\ UNCHANGED <<stop_flag, running_coro_cnt, coroutine_queue, wpc, wframe,
                 tpc, tframe, frame, turns, early>>

-----------------------------------------------------------------------------
(* A client commits once the constructor has returned.  The network thread   *)
(* handles messages from the moment it listens until io_ctx_ is stopped; the *)
(* timer thread gives frames back until it is joined.                        *)
NetHandles    == main \in {"clear_flag", "spawn", "up", "stop_services"}
TimerRuns     == main \notin {"join_net", "join_workers", "joined"}
MayCommit(t)  == \/ t \in Clients /\ main \notin {"net_start", "clear_flag", "spawn"}
                 \/ t = Net /\ NetHandles
MayGive(t)    == \/ t = Net /\ NetHandles
                 \/ t = Timer /\ TimerRuns

(* CoroScheduler::commit: the test of stop_flag_.  A client gets              *)
(* HAS_BEEN_STOPPED back; a request the network thread could not commit is    *)
(* dropped, after the assertion on the result.                                *)
CommitCheck(t, f) ==
  /\ MayCommit(t)
  /\ tpc[t] = "idle"
  /\ frame[f] = "new"
  /\ \/ /\ stop_flag
        /\ frame' = [frame EXCEPT ![f] = IF t = Net THEN "dropped" ELSE "refused"]
        /\ UNCHANGED <<tpc, tframe>>
     \/ /\ ~stop_flag
        /\ frame' = [frame EXCEPT ![f] = "accepted"]
        /\ tpc' = [tpc EXCEPT ![t] = "count"]
        /\ tframe' = [tframe EXCEPT ![t] = f]
  /\ UNCHANGED <<main, stop_flag, running_coro_cnt, coroutine_queue, wpc,
                 wframe, turns, early>>

\* Mutant: the frame is committed without being counted.
CommitCount_Uncounted(t) ==
  /\ tpc[t] = "count"
  /\ frame' = [frame EXCEPT ![tframe[t]] = "counted"]
  /\ tpc' = [tpc EXCEPT ![t] = "append"]
  /\ UNCHANGED <<main, stop_flag, running_coro_cnt, coroutine_queue, wpc,
                 wframe, tframe, turns, early>>

(* running_coro_cnt_++, before the frame can run *)
CommitCount(t) ==
  /\ tpc[t] = "count"
  /\ running_coro_cnt' = running_coro_cnt + 1
  /\ frame' = [frame EXCEPT ![tframe[t]] = "counted"]
  /\ tpc' = [tpc EXCEPT ![t] = "append"]
  /\ UNCHANGED <<main, stop_flag, coroutine_queue, wpc, wframe, tframe, turns,
                 early>>

\* Mutant: a service gives the frame back with CoroScheduler::commit, which
\* counts it again.
GiveBack_Recount(t, f) ==
  /\ MayGive(t)
  /\ tpc[t] = "idle"
  /\ frame[f] = "parked"
  /\ running_coro_cnt' = running_coro_cnt + 1
  /\ frame' = [frame EXCEPT ![f] = "given"]
  /\ tpc' = [tpc EXCEPT ![t] = "append"]
  /\ tframe' = [tframe EXCEPT ![t] = f]
  /\ UNCHANGED <<main, stop_flag, coroutine_queue, wpc, wframe, turns, early>>

(* TimeService or NetService takes a suspended frame to give it back. *)
GiveBack(t, f) ==
  /\ MayGive(t)
  /\ tpc[t] = "idle"
  /\ frame[f] = "parked"
  /\ frame' = [frame EXCEPT ![f] = "given"]
  /\ tpc' = [tpc EXCEPT ![t] = "append"]
  /\ tframe' = [tframe EXCEPT ![t] = f]
  /\ UNCHANGED <<main, stop_flag, running_coro_cnt, coroutine_queue, wpc,
                 wframe, turns, early>>

(* CommonExecuteModule::commit: append under lock_; then, without lock_,      *)
(* notify_one.  Once appended the frame is no longer the thread's.            *)
CommitAppend(t) ==
  /\ tpc[t] = "append"
  /\ LockFree
  /\ coroutine_queue' = Append(coroutine_queue, tframe[t])
  /\ frame' = [frame EXCEPT ![tframe[t]] = "queued"]
  /\ tpc' = [tpc EXCEPT ![t] = "notify"]
  /\ tframe' = [tframe EXCEPT ![t] = None]
  /\ UNCHANGED <<main, stop_flag, running_coro_cnt, wpc, wframe, turns, early>>

\* Mutant: notify only when the frame found the queue empty.
CommitNotify_IfSingle(t) ==
  /\ tpc[t] = "notify"
  /\ tpc' = [tpc EXCEPT ![t] = "idle"]
  /\ IF Len(coroutine_queue) = 1 THEN NotifyOne(wpc) ELSE UNCHANGED wpc
  /\ UNCHANGED <<main, stop_flag, running_coro_cnt, coroutine_queue, wframe,
                 tframe, frame, turns, early>>

CommitNotify(t) ==
  /\ tpc[t] = "notify"
  /\ tpc' = [tpc EXCEPT ![t] = "idle"]
  /\ NotifyOne(wpc)
  /\ UNCHANGED <<main, stop_flag, running_coro_cnt, coroutine_queue, wframe,
                 tframe, frame, turns, early>>

-----------------------------------------------------------------------------
(* loop_: the condition of the loop.  Once the workers run stop_flag_ only   *)
(* rises, so reading it and then running_coro_cnt_ is one step.              *)
EnterLoop(w) ==
  /\ wpc[w] = "test"
  /\ ~stop_flag \/ running_coro_cnt # 0
  /\ wpc' = [wpc EXCEPT ![w] = "lock"]
  /\ UNCHANGED <<main, stop_flag, running_coro_cnt, coroutine_queue, wframe,
                 tpc, tframe, frame, turns, early>>

\* Mutant: the loop condition forgets running_coro_cnt_.
LeaveLoop_StopOnly(w) ==
  /\ wpc[w] = "test"
  /\ stop_flag
  /\ wpc' = [wpc EXCEPT ![w] = "exited"]
  /\ UNCHANGED <<main, stop_flag, running_coro_cnt, coroutine_queue, wframe,
                 tpc, tframe, frame, turns, early>>

LeaveLoop(w) ==
  /\ wpc[w] = "test"
  /\ stop_flag /\ running_coro_cnt = 0
  /\ wpc' = [wpc EXCEPT ![w] = "exited"]
  /\ UNCHANGED <<main, stop_flag, running_coro_cnt, coroutine_queue, wframe,
                 tpc, tframe, frame, turns, early>>

\* Mutant: the frame is read from the queue but not popped.
TakeFrame_Peek(w) ==
  IF coroutine_queue = <<>>
  THEN /\ wpc' = [wpc EXCEPT ![w] = "test"]
       /\ UNCHANGED <<coroutine_queue, wframe, frame>>
  ELSE /\ wpc' = [wpc EXCEPT ![w] = "resume"]
       /\ wframe' = [wframe EXCEPT ![w] = Head(coroutine_queue)]
       /\ frame' = [frame EXCEPT ![Head(coroutine_queue)] = "running"]
       /\ UNCHANGED coroutine_queue

(* With lock_, after the wait: one frame if there is any. *)
TakeFrame(w) ==
  IF coroutine_queue = <<>>
  THEN /\ wpc' = [wpc EXCEPT ![w] = "test"]
       /\ UNCHANGED <<coroutine_queue, wframe, frame>>
  ELSE /\ wpc' = [wpc EXCEPT ![w] = "resume"]
       /\ wframe' = [wframe EXCEPT ![w] = Head(coroutine_queue)]
       /\ frame' = [frame EXCEPT ![Head(coroutine_queue)] = "running"]
       /\ coroutine_queue' = Tail(coroutine_queue)

(* wait_for with lock_: the predicate holds, or its time is over. *)
EndWait(w) ==
  /\ \/ wpc[w] \in {"lock", "woken"} /\ Predicate
     \/ wpc[w] = "expired"
  /\ LockFree
  /\ TakeFrame(w)
  /\ UNCHANGED <<main, stop_flag, running_coro_cnt, tpc, tframe, turns, early>>

(* wait_for: the predicate was false and the worker is about to sleep ... *)
StartWait(w) ==
  /\ wpc[w] \in {"lock", "woken"}
  /\ LockFree
  /\ ~Predicate
  /\ wpc' = [wpc EXCEPT ![w] = "blocking"]
  /\ UNCHANGED <<main, stop_flag, running_coro_cnt, coroutine_queue, wframe,
                 tpc, tframe, frame, turns, early>>

(* ... and sleeps, releasing lock_. *)
Sleep(w) ==
  /\ wpc[w] = "blocking"
  /\ wpc' = [wpc EXCEPT ![w] = "waiting"]
  /\ UNCHANGED <<main, stop_flag, running_coro_cnt, coroutine_queue, wframe,
                 tpc, tframe, frame, turns, early>>

\* Mutant: cv_.wait instead of cv_.wait_for.
Expire_Never(w) ==
  /\ wpc[w] = "waiting"
  /\ FALSE
  /\ UNCHANGED vars

(* The 2000 to 3000 ms of wait_for have passed. *)
Expire(w) ==
  /\ wpc[w] = "waiting"
  /\ wpc' = [wpc EXCEPT ![w] = "expired"]
  /\ UNCHANGED <<main, stop_flag, running_coro_cnt, coroutine_queue, wframe,
                 tpc, tframe, frame, turns, early>>

(* A condition variable may wake a sleeper for no reason. *)
WakeSpuriously(w) ==
  /\ wpc[w] = "waiting"
  /\ wpc' = [wpc EXCEPT ![w] = "woken"]
  /\ UNCHANGED <<main, stop_flag, running_coro_cnt, coroutine_queue, wframe,
                 tpc, tframe, frame, turns, early>>

-----------------------------------------------------------------------------
(* consume_ready_coroutine_ resumes the frame, which runs to its next        *)
(* suspension: co_suspend, or a co_sleep that register_frame finds to be over *)
(* already, appends the frame to the ready queue itself ...                  *)
Yield(w) ==
  /\ wpc[w] = "resume"
  /\ turns[wframe[w]] < MaxTurns
  /\ LockFree
  /\ coroutine_queue' = Append(coroutine_queue, wframe[w])
  /\ frame' = [frame EXCEPT ![wframe[w]] = "queued"]
  /\ turns' = [turns EXCEPT ![wframe[w]] = @ + 1]
  /\ wframe' = [wframe EXCEPT ![w] = None]
  /\ wpc' = [wpc EXCEPT ![w] = "notify"]
  /\ UNCHANGED <<main, stop_flag, running_coro_cnt, tpc, tframe, early>>

YieldNotify(w) ==
  /\ wpc[w] = "notify"
  /\ NotifyOne([wpc EXCEPT ![w] = "test"])
  /\ UNCHANGED <<main, stop_flag, running_coro_cnt, coroutine_queue, wframe,
                 tpc, tframe, frame, turns, early>>

(* ... co_sleep and co_rpc leave it with TimeService or NetService ... *)
Park(w) ==
  /\ wpc[w] = "resume"
  /\ turns[wframe[w]] < MaxTurns
  /\ frame' = [frame EXCEPT ![wframe[w]] = "parked"]
  /\ turns' = [turns EXCEPT ![wframe[w]] = @ + 1]
  /\ wframe' = [wframe EXCEPT ![w] = None]
  /\ wpc' = [wpc EXCEPT ![w] = "test"]
  /\ UNCHANGED <<main, stop_flag, running_coro_cnt, coroutine_queue, tpc,
                 tframe, early>>

(* ... and the final suspension of a root takes it out of the count ... *)
FinishCount(w) ==
  /\ wpc[w] = "resume"
  /\ running_coro_cnt' = running_coro_cnt - 1
  /\ frame' = [frame EXCEPT ![wframe[w]] = "finishing"]
  /\ wpc' = [wpc EXCEPT ![w] = "finish"]
  /\ UNCHANGED <<main, stop_flag, coroutine_queue, wframe, tpc, tframe, turns,
                 early>>

(* ... before it tells the task's waiters, or answers the remote caller. *)
FinishSignal(w) ==
  /\ wpc[w] = "finish"
  /\ frame' = [frame EXCEPT ![wframe[w]] = "done"]
  /\ wframe' = [wframe EXCEPT ![w] = None]
  /\ wpc' = [wpc EXCEPT ![w] = "test"]
  /\ UNCHANGED <<main, stop_flag, running_coro_cnt, coroutine_queue, tpc,
                 tframe, turns, early>>

-----------------------------------------------------------------------------
StartUp  == StartNet \/ ClearStopFlag \/ \E w \in Workers : SpawnWorker(w)
ShutDown == \/ StopServices \/ NotifyAll \/ JoinTime \/ JoinNet \/ JoinWorkers

Commit(t) == CommitCount(t) \/ CommitAppend(t) \/ CommitNotify(t)

Worker(w) ==
  \/ EnterLoop(w) \/ LeaveLoop(w)
  \/ StartWait(w) \/ Sleep(w) \/ Expire(w) \/ EndWait(w)
  \/ Yield(w) \/ YieldNotify(w) \/ Park(w)
  \/ FinishCount(w) \/ FinishSignal(w)

(* After the join nothing is left to do. *)
Terminated == main = "joined" /\ UNCHANGED vars

Next ==
  \/ StartUp \/ SetStopFlag \/ ShutDown \/ Terminated
  \/ \E t \in Threads : \/ Commit(t)
                        \/ \E f \in Frames : CommitCheck(t, f) \/ GiveBack(t, f)
  \/ \E w \in Workers : Worker(w) \/ WakeSpuriously(w)

Spec == Init /\ [][Next]_vars

(* A thread that has begun something goes on; one that waits for lock_ gets   *)
(* it in the end, since no holder keeps it across anything that blocks.  That *)
(* anybody commits, that the owner stops the framework, that a service gives  *)
(* a frame back and that a sleeper wakes for no reason is not assumed.        *)
Fairness ==
  /\ WF_vars(StartUp) /\ WF_vars(ShutDown)
  /\ \A t \in Threads : WF_vars(Commit(t)) /\ SF_vars(CommitAppend(t))
  /\ \A w \in Workers :
        WF_vars(Worker(w)) /\ SF_vars(StartWait(w) \/ EndWait(w))

FairSpec == Spec /\ Fairness

-----------------------------------------------------------------------------
(* running_coro_cnt_ is the number of frames committed and not returned: it   *)
(* never misses a frame that somebody may already be running, so it neither   *)
(* wraps below zero nor lets a worker leave too early.                        *)
CountExact == running_coro_cnt = Cardinality(Live)

(* A frame on its way is in exactly one place: one position of the queue, one *)
(* worker, one committing thread or one service; a frame that is not, nowhere.*)
(* It is what makes handing frames over without a lock on them safe: nobody   *)
(* touches a frame after the append that may let another thread resume it.    *)
Places(f) == Cardinality({i \in DOMAIN coroutine_queue : coroutine_queue[i] = f})
           + Cardinality({w \in Workers : wframe[w] = f})
           + Cardinality({t \in Threads : tframe[t] = f})
HeldOnce ==
  \A f \in Frames :
    Places(f) = IF frame[f] \in {"new", "refused", "dropped", "parked", "done"}
                THEN 0 ELSE 1

(* No lost wake-up: while frames are queued in a running framework, some      *)
(* worker is on its way to the queue, or a thread that appended is about to   *)
(* wake one.  The time-outs of wait_for would hide the loss for seconds.      *)
OnItsWay(w) == wpc[w] \notin {"blocking", "waiting", "exited"}
NoLostWakeup ==
  coroutine_queue # <<>> /\ ~stop_flag =>
    \/ \E w \in Workers : OnItsWay(w)
    \/ \E t \in Threads : tpc[t] = "notify"

(* stop() lets the work already accepted finish: no worker has left while a   *)
(* coroutine counted before stop_flag_ rose has not returned.                 *)
EarlyWorkFinished ==
  (\E w \in Workers : wpc[w] = "exited") =>
    \A f \in early : frame[f] \in {"finishing", "done"}

(* Liveness, where TimeService and NetService give back what they were given. *)
ServicesGiveBack == \A f \in Frames : []<>(frame[f] # "parked")

(* A coroutine counted while the framework runs returns and its waiters are   *)
(* told, whatever happens afterwards.                                         *)
CommittedFinishes ==
  ServicesGiveBack =>
    \A f \in Frames : (frame[f] = "counted" /\ ~stop_flag) ~> frame[f] = "done"

(* stop() and wait() come to an end: every worker leaves, although stop()     *)
(* notifies without lock_ and its notification can be missed.                 *)
ShutdownCompletes ==
  ServicesGiveBack => (main = "stop_services" ~> main = "joined")
==============================================================================
