------------------------------ MODULE CoroTask ------------------------------
(* Coroutine frames and the CoroTask objects that refer to them (task.h,     *)
(* task.ipp, the ring of LinkedCoroutine in queue.h and queue.ipp, RefCount  *)
(* of utils.h, CoroLocalVar): who owns a frame, how co_await links a callee  *)
(* to its caller and the final suspension finds the way back, and when a     *)
(* frame, its coroutine-local variables and a waiter's wait end.  A frame in *)
(* state "ready" is in a queue or with a service: see Scheduler.             *)
EXTENDS Integers, FiniteSets

CONSTANTS
  Frames,    \* memory for coroutine frames; none is used a second time
  Handles,   \* CoroTask variables of the program, in any of its threads
  Threads,   \* threads that resume coroutines
  NULL,      \* nullptr
  Uses,      \* which operations of CoroTask the program uses
  MaxTurns,  \* bound: how often frames give themselves to a queue or service
  MaxRefs    \* bound: copies are made of frames with fewer references

ASSUME TaskAssumption ==
  /\ IsFiniteSet(Handles)
  /\ IsFiniteSet(Frames) /\ NULL \notin Frames
  /\ MaxTurns \in Nat /\ MaxRefs \in Nat

VARIABLES
  promise, waiting,      \* handles: promise_; those inside wait()
  pc, cur,               \* threads: where, and in which frame
  state,                 \* frames: how far the coroutine has come
  ref_cnt,               \* frames: ref_cnt_
  prev, next,            \* frames: the ring, prev_ and next_
  held,                  \* frames: callees whose MiddleAwaitable still exists
  callers,               \* history, frames: who awaits it, directly or not
  local_var,             \* frames: coro_local_var_, by the frame it is of
  local_vars,            \* the CoroLocalVar objects that exist
  serving,               \* frames with response_info_
  done_flag,             \* frames: done_flag_
  counted,               \* frames: frame_running_cnt_ is set
  running_coro_cnt,      \* running_coro_cnt_ of the framework
  turns,                 \* suspensions so far
  roots                  \* history: frames started other than by co_await

handleVars == <<promise, waiting>>
threadVars == <<pc, cur>>
ringVars   == <<prev, next>>
callVars   == <<held, callers>>
localVars  == <<local_var, local_vars, serving>>
rootVars   == <<done_flag, counted, running_coro_cnt, roots>>
vars == <<handleVars, threadVars, state, ref_cnt, ringVars, callVars, localVars,
          rootVars, turns>>

FrameOrNull == Frames \cup {NULL}
ThreadPC == {"idle", "body", "final", "tell", "delete", "release"}
FrameState == {"none", "initial", "ready", "running", "calling", "final",
               "destroyed"}

Exists(f) == state[f] \notin {"none", "destroyed"}

TypeOK ==
  /\ promise \in [Handles -> FrameOrNull]
  /\ waiting \subseteq Handles
  /\ pc \in [Threads -> ThreadPC]
  /\ cur \in [Threads -> FrameOrNull]
  /\ state \in [Frames -> FrameState]
  /\ ref_cnt \in [Frames -> Nat]
  /\ prev \in [Frames -> FrameOrNull] /\ next \in [Frames -> FrameOrNull]
  /\ held \in [Frames -> SUBSET Frames]
  /\ callers \in [Frames -> SUBSET Frames]
  /\ local_var \in [Frames -> FrameOrNull]
  /\ local_vars \subseteq Frames /\ serving \subseteq Frames
  /\ done_flag \in [Frames -> BOOLEAN] /\ counted \in [Frames -> BOOLEAN]
  /\ running_coro_cnt \in Int
  /\ turns \in 0..MaxTurns
  /\ roots \subseteq Frames

Init ==
  /\ promise = [h \in Handles |-> NULL] /\ waiting = {}
  /\ pc = [t \in Threads |-> "idle"] /\ cur = [t \in Threads |-> NULL]
  /\ state = [f \in Frames |-> "none"]
  /\ ref_cnt = [f \in Frames |-> 0]
  /\ prev = [f \in Frames |-> NULL] /\ next = [f \in Frames |-> NULL]
  /\ held = [f \in Frames |-> {}] /\ callers = [f \in Frames |-> {}]
  /\ local_var = [f \in Frames |-> NULL]
  /\ local_vars = {} /\ serving = {}
  /\ done_flag = [f \in Frames |-> FALSE]
  /\ counted = [f \in Frames |-> FALSE]
  /\ running_coro_cnt = 0
  /\ turns = 0
  /\ roots = {}

-----------------------------------------------------------------------------
\* Mutant: the new count is looked at.
LetGo_NewCount(f) ==
  /\ ref_cnt' = [ref_cnt EXCEPT ![f] = IF @ = 0 THEN 0 ELSE @ - 1]
  /\ state' = IF ref_cnt[f] <= 1 THEN [state EXCEPT ![f] = "destroyed"]
                                 ELSE state

\* Mutant: the frame stays, its count goes below zero.
LetGo_Keep(f) ==
  /\ ref_cnt' = [ref_cnt EXCEPT ![f] = @ - 1]
  /\ UNCHANGED state

(* RefCount::dec returns the count before it is decremented, and whoever     *)
(* sees zero destroys the frame; the count itself would wrap then.           *)
LetGo(f) ==
  /\ ref_cnt' = [ref_cnt EXCEPT ![f] = IF @ = 0 THEN 0 ELSE @ - 1]
  /\ state' = IF ref_cnt[f] = 0 THEN [state EXCEPT ![f] = "destroyed"]
                                ELSE state

\* Mutant: the reference is not counted.
Inc_Uncounted(f) == UNCHANGED ref_cnt

Inc(f) == ref_cnt' = [ref_cnt EXCEPT ![f] = @ + 1]

(* LinkedCoroutine::link_next and remove_self *)
LinkNext(f, callee) ==
  /\ next' = [next EXCEPT ![f] = callee, ![callee] = next[f]]
  /\ prev' = [prev EXCEPT ![callee] = f, ![next[f]] = callee]

\* Mutant: the frame behind keeps its prev_.
RemoveSelf_KeepPrev(f) ==
  /\ next' = [next EXCEPT ![prev[f]] = next[f], ![f] = NULL]
  /\ prev' = [prev EXCEPT ![f] = NULL]

RemoveSelf(f) ==
  /\ next' = [next EXCEPT ![prev[f]] = next[f], ![f] = NULL]
  /\ prev' = [prev EXCEPT ![next[f]] = prev[f], ![f] = NULL]

(* A handle the program may work with: not the one a thread waits on. *)
Free(h) == h \notin waiting
Usable(h) == Free(h) /\ promise[h] # NULL

-----------------------------------------------------------------------------
(* Memory for a frame: which one makes no difference. *)
HasUnused == \E f \in Frames : state[f] = "none"
Unused == CHOOSE f \in Frames : state[f] = "none"

(* A coroutine function is called: its frame is allocated and the CoroTask   *)
(* it returns takes over the first reference.                                *)
Create(h) ==
  /\ Free(h) /\ promise[h] = NULL
  /\ HasUnused
  /\ LET f == Unused IN
       /\ promise' = [promise EXCEPT ![h] = f]
       /\ state' = [state EXCEPT ![f] = "initial"]
       /\ ref_cnt' = [ref_cnt EXCEPT ![f] = 1]
       /\ prev' = [prev EXCEPT ![f] = f]
       /\ next' = [next EXCEPT ![f] = f]
  /\ UNCHANGED <<waiting, threadVars, callVars, localVars, rootVars, turns>>

(* Copy construction (promise_[h] is NULL) and copy assignment, which takes  *)
(* the new reference but does not let go of the old one.                     *)
Copy(h, from) ==
  /\ "copy" \in Uses
  /\ h # from /\ Free(h) /\ promise[from] # NULL
  /\ ref_cnt[promise[from]] < MaxRefs
  /\ promise' = [promise EXCEPT ![h] = promise[from]]
  /\ Inc(promise[from])
  /\ UNCHANGED <<waiting, threadVars, state, ringVars, callVars, localVars,
                 rootVars, turns>>

MoveConstruct(h, from) ==
  /\ "move" \in Uses
  /\ h # from /\ Free(h) /\ promise[h] = NULL /\ Usable(from)
  /\ promise' = [promise EXCEPT ![h] = promise[from], ![from] = NULL]
  /\ UNCHANGED <<waiting, threadVars, state, ref_cnt, ringVars, callVars,
                 localVars, rootVars, turns>>

(* Move assignment only clears the right-hand side, which is what reset()    *)
(* does: the left-hand side keeps its promise_.                              *)
MoveAssignOrReset(from) ==
  /\ "reset" \in Uses
  /\ Usable(from)
  /\ promise' = [promise EXCEPT ![from] = NULL]
  /\ UNCHANGED <<waiting, threadVars, state, ref_cnt, ringVars, callVars,
                 localVars, rootVars, turns>>

(* ~CoroTask *)
Destruct(h) ==
  /\ Usable(h)
  /\ LetGo(promise[h])
  /\ promise' = [promise EXCEPT ![h] = NULL]
  /\ UNCHANGED <<waiting, threadVars, ringVars, callVars, localVars, rootVars,
                 turns>>

(* wait() sleeps on cv_ until done_flag_ is set. *)
BeginWait(h) ==
  /\ Usable(h)
  /\ waiting' = waiting \cup {h}
  /\ UNCHANGED <<promise, threadVars, state, ref_cnt, ringVars, callVars,
                 localVars, rootVars, turns>>

EndWait(h) ==
  /\ h \in waiting
  /\ done_flag[promise[h]]
  /\ waiting' = waiting \ {h}
  /\ UNCHANGED <<promise, threadVars, state, ref_cnt, ringVars, callVars,
                 localVars, rootVars, turns>>

(* reflect_commit_function gives the task of a request its local variables  *)
(* and the address of the caller before it commits it.                      *)
Serve(h) ==
  /\ "serve" \in Uses
  /\ Usable(h)
  /\ LET f == promise[h] IN
       /\ state[f] = "initial" /\ ref_cnt[f] = 1 /\ local_var[f] = NULL
       /\ local_var' = [local_var EXCEPT ![f] = f]
       /\ local_vars' = local_vars \cup {f}
       /\ serving' = serving \cup {f}
  /\ UNCHANGED <<handleVars, threadVars, state, ref_cnt, ringVars, callVars,
                 rootVars, turns>>

(* CoroScheduler::commit, of a framework that does not stop *)
Commit(h) ==
  /\ Usable(h)
  /\ LET f == promise[h] IN
       /\ state[f] = "initial"
       /\ Inc(f)
       /\ running_coro_cnt' = running_coro_cnt + 1
       /\ counted' = [counted EXCEPT ![f] = TRUE]
       /\ state' = [state EXCEPT ![f] = "ready"]
       /\ roots' = roots \cup {f}
  /\ UNCHANGED <<handleVars, threadVars, ringVars, callVars, localVars,
                 done_flag, turns>>

-----------------------------------------------------------------------------
(* InitialAwaitable::await_resume: a coroutine that inherits no local        *)
(* variables makes its own.                                                  *)
EnterBody(t, f) ==
  /\ pc' = [pc EXCEPT ![t] = "body"]
  /\ cur' = [cur EXCEPT ![t] = f]
  /\ state' = [state EXCEPT ![f] = "running"]
  /\ IF local_var[f] = NULL
     THEN /\ local_var' = [local_var EXCEPT ![f] = f]
          /\ local_vars' = local_vars \cup {f}
     ELSE UNCHANGED <<local_var, local_vars>>
  /\ UNCHANGED serving

(* A worker resumes a frame it took from the queue. *)
ResumeReady(t) ==
  /\ pc[t] = "idle"
  /\ \E f \in Frames : state[f] = "ready" /\ EnterBody(t, f)
  /\ UNCHANGED <<handleVars, ref_cnt, ringVars, callVars, rootVars, turns>>

(* promise_->handle_.resume(), as in main.cpp: no framework, no commit. *)
ResumeDirectly(t, h) ==
  /\ pc[t] = "idle"
  /\ Usable(h)
  /\ LET f == promise[h] IN
       /\ state[f] = "initial" /\ f \notin serving
       /\ EnterBody(t, f)
       /\ roots' = roots \cup {f}
  /\ UNCHANGED <<handleVars, ref_cnt, ringVars, callVars, done_flag, counted,
                 running_coro_cnt, turns>>

\* Mutant: the coroutine goes on although it has handed itself over.
Suspend_GoOn(t) ==
  /\ pc[t] = "body"
  /\ turns < MaxTurns
  /\ turns' = turns + 1
  /\ state' = [state EXCEPT ![cur[t]] = "ready"]
  /\ UNCHANGED <<handleVars, threadVars, ref_cnt, ringVars, callVars, localVars,
                 rootVars>>

(* The coroutine hands itself to a queue or a service. *)
Suspend(t) ==
  /\ pc[t] = "body"
  /\ turns < MaxTurns
  /\ turns' = turns + 1
  /\ state' = [state EXCEPT ![cur[t]] = "ready"]
  /\ pc' = [pc EXCEPT ![t] = "idle"]
  /\ cur' = [cur EXCEPT ![t] = NULL]
  /\ UNCHANGED <<handleVars, ref_cnt, ringVars, callVars, localVars, rootVars>>

\* Mutant: the callee is not given the local variables.
Await_NoLocalVar(t, callee) ==
  LET f == cur[t] IN
    /\ LinkNext(f, callee)
    /\ held' = [held EXCEPT ![f] = @ \cup {callee}]
    /\ callers' = [callers EXCEPT ![callee] = callers[f] \cup {f}]
    /\ state' = [state EXCEPT ![f] = "calling", ![callee] = "running"]
    /\ cur' = [cur EXCEPT ![t] = callee]
    /\ UNCHANGED <<waiting, pc, localVars, rootVars, turns>>

(* co_await of a coroutine: await_transform links the callee, gives it the  *)
(* local variables and moves its CoroTask into a MiddleAwaitable, whose     *)
(* await_suspend transfers the thread to it.                                *)
Await(t, callee) ==
  LET f == cur[t] IN
    /\ LinkNext(f, callee)
    /\ local_var' = [local_var EXCEPT ![callee] = local_var[f]]
    /\ held' = [held EXCEPT ![f] = @ \cup {callee}]
    /\ callers' = [callers EXCEPT ![callee] = callers[f] \cup {f}]
    /\ state' = [state EXCEPT ![f] = "calling", ![callee] = "running"]
    /\ cur' = [cur EXCEPT ![t] = callee]
    /\ UNCHANGED <<waiting, pc, local_vars, serving, rootVars, turns>>

(* co_await f(): the frame is made for the call. *)
CallNew(t) ==
  /\ "call" \in Uses
  /\ pc[t] = "body"
  /\ HasUnused
  /\ ref_cnt' = [ref_cnt EXCEPT ![Unused] = 1]
  /\ Await(t, Unused)
  /\ UNCHANGED promise

(* co_await std::move(task) *)
CallHandle(t, h) ==
  /\ "call" \in Uses
  /\ pc[t] = "body"
  /\ Usable(h)
  /\ state[promise[h]] = "initial" /\ promise[h] \notin serving
  /\ Await(t, promise[h])
  /\ promise' = [promise EXCEPT ![h] = NULL]
  /\ UNCHANGED ref_cnt

(* The MiddleAwaitable of a call that has returned lives until the end of   *)
(* the full expression; its task_ is destructed with it.                    *)
DropAwaitable(t) ==
  /\ pc[t] = "body"
  /\ \E c \in held[cur[t]] :
       /\ LetGo(c)
       /\ held' = [held EXCEPT ![cur[t]] = @ \ {c}]
  /\ UNCHANGED <<handleVars, threadVars, ringVars, callers, localVars,
                 rootVars, turns>>

(* co_return: the coroutine is at its final suspension, done() is true. *)
Return(t) ==
  /\ pc[t] = "body"
  /\ held[cur[t]] = {}
  /\ state' = [state EXCEPT ![cur[t]] = "final"]
  /\ pc' = [pc EXCEPT ![t] = "final"]
  /\ UNCHANGED <<handleVars, cur, ref_cnt, ringVars, callVars, localVars,
                 rootVars, turns>>

-----------------------------------------------------------------------------
(* FinalAwaitable::await_suspend of a frame that is not alone in its ring:   *)
(* the thread goes to prev_, whose await_resume copies result_.              *)
FinalCallee(t) ==
  /\ pc[t] = "final"
  /\ LET f == cur[t] IN
       /\ prev[f] # f
       /\ RemoveSelf(f)
       /\ cur' = [cur EXCEPT ![t] = prev[f]]
       /\ state' = [state EXCEPT ![prev[f]] = "running"]
  /\ pc' = [pc EXCEPT ![t] = "body"]
  /\ UNCHANGED <<handleVars, ref_cnt, callVars, localVars, rootVars, turns>>

\* Mutant: the test of frame_running_cnt_ is missing.
FinalRoot_Always(t) ==
  /\ pc[t] = "final"
  /\ prev[cur[t]] = cur[t]
  /\ running_coro_cnt' = running_coro_cnt - 1
  /\ pc' = [pc EXCEPT ![t] = "tell"]
  /\ UNCHANGED <<handleVars, cur, state, ref_cnt, ringVars, callVars, localVars,
                 done_flag, counted, roots, turns>>

(* ... and of one that is: first the framework's count, *)
FinalRoot(t) ==
  /\ pc[t] = "final"
  /\ prev[cur[t]] = cur[t]
  /\ running_coro_cnt' = IF counted[cur[t]] THEN running_coro_cnt - 1
                                            ELSE running_coro_cnt
  /\ pc' = [pc EXCEPT ![t] = "tell"]
  /\ UNCHANGED <<handleVars, cur, state, ref_cnt, ringVars, callVars, localVars,
                 done_flag, counted, roots, turns>>

\* Mutant: a callee's end is told, a root's is not.
Tell_NotRoot(t) ==
  /\ pc[t] = "tell"
  /\ done_flag' = IF cur[t] \in serving \cup roots THEN done_flag
                                        ELSE [done_flag EXCEPT ![cur[t]] = TRUE]
  /\ pc' = [pc EXCEPT ![t] = "delete"]
  /\ UNCHANGED <<handleVars, cur, state, ref_cnt, ringVars, callVars, localVars,
                 counted, running_coro_cnt, roots, turns>>

(* then the response, or done_flag_ and notify_all under lock_, *)
Tell(t) ==
  /\ pc[t] = "tell"
  /\ done_flag' = IF cur[t] \in serving THEN done_flag
                                        ELSE [done_flag EXCEPT ![cur[t]] = TRUE]
  /\ pc' = [pc EXCEPT ![t] = "delete"]
  /\ UNCHANGED <<handleVars, cur, state, ref_cnt, ringVars, callVars, localVars,
                 counted, running_coro_cnt, roots, turns>>

(* then the local variables, *)
DeleteLocalVar(t) ==
  /\ pc[t] = "delete"
  /\ local_vars' = local_vars \ {local_var[cur[t]]}
  /\ local_var' = [local_var EXCEPT ![cur[t]] = NULL]
  /\ pc' = [pc EXCEPT ![t] = "release"]
  /\ UNCHANGED <<handleVars, cur, state, ref_cnt, ringVars, callVars, serving,
                 rootVars, turns>>

(* and the coroutine's own reference at last. *)
ReleaseSelf(t) ==
  /\ pc[t] = "release"
  /\ LetGo(cur[t])
  /\ pc' = [pc EXCEPT ![t] = "idle"]
  /\ cur' = [cur EXCEPT ![t] = NULL]
  /\ UNCHANGED <<handleVars, ringVars, callVars, localVars, rootVars, turns>>

-----------------------------------------------------------------------------
Handle(h) ==
  \/ Create(h) \/ MoveAssignOrReset(h) \/ Destruct(h)
  \/ \E from \in Handles : Copy(h, from) \/ MoveConstruct(h, from)
  \/ BeginWait(h) \/ EndWait(h) \/ Serve(h) \/ Commit(h)
  \/ \E t \in Threads : ResumeDirectly(t, h)

(* What a thread does of itself: it does not start a coroutine directly. *)
Thread(t) ==
  \/ ResumeReady(t) \/ Suspend(t)
  \/ CallNew(t) \/ \E h \in Handles : CallHandle(t, h)
  \/ DropAwaitable(t) \/ Return(t)
  \/ FinalCallee(t) \/ FinalRoot(t) \/ Tell(t) \/ DeleteLocalVar(t)
  \/ ReleaseSelf(t)

Next == (\E h \in Handles : Handle(h)) \/ (\E t \in Threads : Thread(t))

Spec == Init /\ [][Next]_vars

(* Threads run, coroutine bodies come to their end (they suspend and call   *)
(* finitely often), and a waiter that was notified wakes up.                *)
Fairness ==
  /\ \A t \in Threads : WF_vars(Thread(t))
  /\ \A h \in Handles : WF_vars(EndWait(h))

FairSpec == Spec /\ Fairness

-----------------------------------------------------------------------------
(* A frame whose coroutine has started and not given up the thread for good. *)
InThread(f) == \E t \in Threads : cur[t] = f
Active(f) == state[f] \in {"ready", "running", "calling"} \/ InThread(f)

(* No CoroTask, no thread, no MiddleAwaitable of a frame that still exists   *)
(* and no link of an active frame refers to a destroyed frame: RefCount and  *)
(* commit's own reference keep a frame while the final suspension still uses *)
(* it after it has told the waiter, who may drop the last handle.            *)
NothingDangling ==
  /\ \A h \in Handles : promise[h] # NULL => Exists(promise[h])
  /\ \A t \in Threads : cur[t] # NULL => Exists(cur[t])
  /\ \A f \in Frames : Exists(f) => \A c \in held[f] : Exists(c)
  /\ \A f \in Frames : Active(f) => Exists(prev[f]) /\ Exists(next[f])

(* A frame is destroyed before it was started or after its final suspension, *)
(* not while it is in a queue, runs or waits for its callee.                 *)
DestroysNoneAtWork ==
  [][\A f \in Frames :
       state[f] # "destroyed" /\ state'[f] = "destroyed"
         => state[f] \in {"initial", "final"}]_vars

(* The ring leads the final suspension of a callee to the frame that awaits  *)
(* it, however deep, and tells a root from a callee: link_next, remove_self. *)
ReturnsToCaller ==
  \A f \in Frames : Active(f) =>
    /\ f \notin roots => state[prev[f]] = "calling" /\ f \in held[prev[f]]
    /\ f \in roots /\ state[f] # "calling" => prev[f] = f

(* A chain of calls has one place where it goes on: one thread or one queue. *)
OneControl ==
  /\ \A t \in Threads : cur[t] # NULL =>
       /\ state[cur[t]] \in {"running", "final"}
       /\ \A u \in Threads \ {t} : cur[u] # cur[t]
  /\ \A f, g \in Frames :
       /\ f # g /\ Active(f) /\ Active(g)
       /\ state[f] # "calling" /\ state[g] # "calling"
       => local_var[f] = NULL \/ local_var[f] # local_var[g]

(* Every frame of a chain uses the CoroLocalVar of its root, which exists as *)
(* long as one of them may use it and is deleted by the root's end.          *)
LocalVarOfChain ==
  /\ \A f \in Frames : local_var[f] # NULL /\ Active(f)
       => /\ local_var[f] \in local_vars
          /\ f \notin roots => local_var[f] = local_var[prev[f]]
  /\ \A f \in Frames : state[f] \in {"running", "calling"} => local_var[f] # NULL
  /\ \A f \in local_vars : Active(f) \/ state[f] = "initial"

(* running_coro_cnt_ counts the committed roots that have not ended: callees *)
(* and coroutines that were resumed directly end without it.                 *)
CountsRoots ==
  running_coro_cnt =
    Cardinality({f \in roots : /\ counted[f]
                               /\ \/ state[f] \in {"ready", "running", "calling"}
                                  \/ \E t \in Threads : cur[t] = f /\ pc[t] = "final"})

(* wait() returns for every coroutine that was committed or resumed, unless  *)
(* it answers an RPC; one that is awaited by another never sets done_flag_.  *)
WaitReturns ==
  \A h \in Handles :
    h \in waiting /\ promise[h] \in roots \ serving ~> h \notin waiting

(* task.h:32-33: "when coroutine executed done, it's memory still remain if  *)
(* there is any CoroTask exists, or coroutine's memory will be destoryed     *)
(* immediately".                                                             *)
FreedWhenDone ==
  \A f \in Frames :
    /\ state[f] = "final" /\ ~InThread(f)
    => \/ \E h \in Handles : promise[h] = f
       \/ \E g \in Frames : Exists(g) /\ f \in held[g]
=============================================================================
