--------------------------- MODULE CoroTaskProofs ---------------------------
(* Safety of CoroTask for every number of frames, handles and threads.  The   *)
(* inductive invariant Inv says of each frame who refers to it and where in   *)
(* the ring of its chain it is; Moves sums the actions up by what they do to  *)
(* frames and threads, and each part of Inv is shown to survive each move.    *)
EXTENDS CoroTask, FiniteSetTheorems, TLAPS

(* A root whose final suspension has let go of its own reference. *)
Ended(f) == state[f] = "final" /\ f \in roots /\ ~InThread(f)

(* The frames that are active (see ReturnsToCaller). *)
Going == {f \in Frames : Active(f)}

(* Where a thread is, and what that says of its frame; no frame has two. *)
Leaving == {"tell", "delete", "release"}
ThreadInv ==
  /\ \A t \in Threads :
       /\ pc[t] = "idle" <=> cur[t] = NULL
       /\ pc[t] = "body" => state[cur[t]] = "running"
       /\ pc[t] \in {"final"} \cup Leaving => state[cur[t]] = "final"
       /\ pc[t] \in Leaving => cur[t] \in roots
  /\ \A t, u \in Threads : cur[t] # NULL /\ cur[t] = cur[u] => t = u
  /\ \A f \in Frames : state[f] = "running" => InThread(f)

(* What has not begun has no callees and callers, is no root, and has no      *)
(* variables but those reflect_commit_function made for it; what has ended    *)
(* has dropped its calls.                                                     *)
FrameInv ==
  \A f \in Frames :
    /\ state[f] \in {"none", "initial"} =>
         /\ f \notin roots /\ ~counted[f] /\ callers[f] = {}
         /\ local_var[f] # NULL => local_var[f] = f /\ f \in serving \cap local_vars
    /\ state[f] = "none" => f \notin serving
    /\ state[f] \notin {"running", "calling", "ready"} => held[f] = {}

(* Each reference to a frame is counted, but the final suspension of a root   *)
(* that was not committed lets go of one it never had.                        *)
RefsTo(f) == {h \in Handles : promise[h] = f}
Held(f) == IF \E g \in Frames : f \in held[g] THEN 1 ELSE 0
Own(f) == IF counted[f] THEN 1 ELSE 0
Missing(f) == IF Ended(f) THEN 1 ELSE 0

Counted(f) ==
  Cardinality(RefsTo(f)) + Held(f) + Own(f) <= ref_cnt[f] + Missing(f)

HeldInv ==
  \A f, g \in Frames : f \in held[g] =>
    /\ Exists(f) /\ state[f] # "initial" /\ f \notin roots
    /\ \A k \in Frames : f \in held[k] => k = g

RefInv ==
  /\ \A h \in Handles : promise[h] # NULL => Exists(promise[h])
  /\ \A f \in Frames : Exists(f) => Counted(f)

(* The ring of a chain: root, callee, its callee, ..., and back to the root   *)
(* from the frame in which the chain goes on.                                 *)
Root(f) == IF local_var[f] = NULL THEN f ELSE local_var[f]

RingInv ==
  /\ \A f \in Frames : state[f] = "initial" => next[f] = f /\ prev[f] = f
  /\ \A f \in Frames : state[f] = "calling" =>
       /\ next[f] \in held[f] \cap Going
       /\ prev[next[f]] = f
  /\ \A f \in roots : state[f] = "calling" =>
       /\ prev[f] \in Going
       /\ state[prev[f]] # "calling" /\ local_var[prev[f]] = f
  /\ \A f \in Going \ roots :
       /\ prev[f] \in Frames
       /\ state[prev[f]] = "calling" /\ next[prev[f]] = f
  /\ \A f \in Going : state[f] # "calling" =>
       next[f] = Root(f) /\ prev[Root(f)] = f

(* The variables of a chain are those of its root.                            *)
LocalInv ==
  /\ \A f \in Going :
       local_var[f] # NULL => local_var[f] \in local_vars \cap roots
  /\ \A f \in Going \ roots :
       local_var[f] # NULL /\ local_var[f] = local_var[prev[f]]
  /\ \A f \in Going \cap roots : local_var[f] \in {NULL, f}
  /\ \A f \in Frames : state[f] \in {"running", "calling"} => local_var[f] # NULL
  /\ \A t \in Threads :
       /\ pc[t] \in {"final", "tell", "delete"} => local_var[cur[t]] # NULL
       /\ pc[t] = "release" => local_var[cur[t]] = NULL
  /\ \A f \in local_vars :
       /\ local_var[f] = f
       /\ \/ f \in Going \cap roots
          \/ state[f] = "initial" /\ f \in serving

(* The callers of a frame wait, in one order with all frames of the chain.    *)
CallersInv ==
  /\ \A f \in Going \cap roots : callers[f] = {}
  /\ \A f \in Going \ roots : callers[f] = callers[prev[f]] \cup {prev[f]}
  /\ \A f \in Going :
       /\ f \notin callers[f]
       /\ \A g \in callers[f] : /\ state[g] = "calling"
                                /\ local_var[g] = local_var[f]
                                /\ callers[g] \subseteq callers[f]
  /\ \A f, g \in Going : local_var[f] # NULL /\ local_var[f] = local_var[g]
       => f = g \/ f \in callers[g] \/ g \in callers[f]

Inv == /\ TypeOK /\ ThreadInv /\ FrameInv /\ HeldInv
       /\ RingInv /\ LocalInv /\ CallersInv /\ RefInv

-----------------------------------------------------------------------------
(* What the steps do to frames and threads: many do the same.                 *)
frameVars == <<threadVars, state, ringVars, callVars, localVars, counted, roots>>

Quiet == UNCHANGED frameVars

(* The last reference to a frame that has ended goes. *)
Destroyed(f) ==
  /\ Ended(f)
  /\ state' = [state EXCEPT ![f] = "destroyed"]
  /\ UNCHANGED <<threadVars, ringVars, callVars, localVars, counted, roots>>

Made(f) ==
  /\ state[f] = "none"
  /\ state' = [state EXCEPT ![f] = "initial"]
  /\ prev' = [prev EXCEPT ![f] = f]
  /\ next' = [next EXCEPT ![f] = f]
  /\ UNCHANGED <<threadVars, callVars, localVars, counted, roots>>

Served(f) ==
  /\ state[f] = "initial" /\ local_var[f] = NULL
  /\ local_var' = [local_var EXCEPT ![f] = f]
  /\ local_vars' = local_vars \cup {f}
  /\ serving' = serving \cup {f}
  /\ UNCHANGED <<threadVars, state, ringVars, callVars, counted, roots>>

Committed(f) ==
  /\ state[f] = "initial"
  /\ counted' = [counted EXCEPT ![f] = TRUE]
  /\ state' = [state EXCEPT ![f] = "ready"]
  /\ roots' = roots \cup {f}
  /\ UNCHANGED <<threadVars, ringVars, callVars, localVars>>

(* A thread enters a frame from the queue, or one that has not been started.  *)
Entered(t, f) ==
  /\ pc[t] = "idle"
  /\ EnterBody(t, f)
  /\ \/ state[f] = "ready" /\ UNCHANGED roots
     \/ state[f] = "initial" /\ f \notin serving /\ roots' = roots \cup {f}
  /\ UNCHANGED <<ringVars, callVars, counted>>

Called(t, c) ==
  /\ pc[t] = "body"
  /\ state[c] \in {"none", "initial"} /\ c \notin serving
  /\ Await(t, c)

(* A MiddleAwaitable goes, its frame stays.                                   *)
Dropped(t, c) ==
  /\ pc[t] = "body" /\ c \in held[cur[t]]
  /\ held' = [held EXCEPT ![cur[t]] = @ \ {c}]
  /\ UNCHANGED <<threadVars, state, ringVars, callers, localVars, counted, roots>>

(* A root goes on in its final suspension.                                    *)
Passed(t) ==
  /\ \/ /\ pc[t] = "final" /\ prev[cur[t]] = cur[t]
        /\ pc' = [pc EXCEPT ![t] = "tell"]
     \/ pc[t] = "tell" /\ pc' = [pc EXCEPT ![t] = "delete"]
  /\ UNCHANGED <<cur, state, ringVars, callVars, localVars, counted, roots>>

Released(t) ==
  /\ pc[t] = "release"
  /\ \/ UNCHANGED state
     \/ state' = [state EXCEPT ![cur[t]] = "destroyed"]
  /\ pc' = [pc EXCEPT ![t] = "idle"]
  /\ cur' = [cur EXCEPT ![t] = NULL]
  /\ UNCHANGED <<ringVars, callVars, localVars, counted, roots>>

Move ==
  \/ Quiet
  \/ \E f \in Frames : Destroyed(f) \/ Made(f) \/ Served(f) \/ Committed(f)
  \/ \E t \in Threads, f \in Frames : Entered(t, f) \/ Called(t, f) \/ Dropped(t, f)
  \/ \E t \in Threads : \/ Suspend(t) \/ Return(t) \/ FinalCallee(t)
                        \/ Passed(t) \/ DeleteLocalVar(t) \/ Released(t)

-----------------------------------------------------------------------------
LEMMA UnusedFrame == HasUnused => Unused \in Frames /\ state[Unused] = "none"
  BY DEF HasUnused, Unused

(* A thread that does not rest has a frame. *)
LEMMA HasFrame ==
  ASSUME TypeOK, ThreadInv, NEW t \in Threads, pc[t] # "idle"
  PROVE  cur[t] \in Frames /\ cur[t] # NULL
  BY TaskAssumption DEF TypeOK, ThreadInv, FrameOrNull

LEMMA GoingFrames ==
  ASSUME TypeOK, ThreadInv
  PROVE  /\ Going \subseteq Frames
         /\ \A f \in Frames :
              state[f] \in {"ready", "running", "calling"} => f \in Going
         /\ \A f \in Going : \/ state[f] \in {"ready", "running", "calling"}
                             \/ \E t \in Threads : cur[t] = f /\ state[f] = "final"
         /\ \A t \in Threads : pc[t] # "idle" => cur[t] \in Going
  <1>1. \A t \in Threads : cur[t] # NULL => state[cur[t]] \in {"running", "final"}
    BY DEF TypeOK, ThreadInv, ThreadPC, Leaving
  <1>2. \A t \in Threads : pc[t] # "idle" => cur[t] \in Frames
    BY HasFrame
  <1> QED
    BY <1>1, <1>2, TaskAssumption DEF Going, Active, InThread

-----------------------------------------------------------------------------
(* No step leaves the types: a thread touches a frame only where it has one.  *)
LEMMA TypeStep == Inv /\ [Next]_vars => TypeOK'
  <1> SUFFICES ASSUME Inv, [Next]_vars PROVE TypeOK'
    OBVIOUS
  <1> USE TaskAssumption
          DEF TypeOK, FrameOrNull, ThreadPC, FrameState, handleVars, threadVars,
              ringVars, callVars, localVars, rootVars
  <1>0. TypeOK /\ ThreadInv
    BY DEF Inv
  <1>1. ASSUME NEW h \in Handles, Create(h) PROVE TypeOK'
    <2>1. Unused \in Frames
      BY <1>1, UnusedFrame DEF Create
    <2> QED
      BY <1>0, <1>1, <2>1 DEF Create
  <1>2. ASSUME NEW h \in Handles, NEW from \in Handles, Copy(h, from) PROVE TypeOK'
    BY <1>0, <1>2 DEF Copy, Inc
  <1>3. ASSUME NEW h \in Handles, NEW from \in Handles, MoveConstruct(h, from)
        PROVE  TypeOK'
    BY <1>0, <1>3 DEF MoveConstruct
  <1>4. ASSUME NEW h \in Handles, MoveAssignOrReset(h) PROVE TypeOK'
    BY <1>0, <1>4 DEF MoveAssignOrReset
  <1>5. ASSUME NEW f \in Frames, LetGo(f) PROVE ref_cnt' \in [Frames -> Nat] /\ state' \in [Frames -> FrameState]
    BY <1>0, <1>5 DEF LetGo
  <1>6. ASSUME NEW h \in Handles, Destruct(h) PROVE TypeOK'
    <2>1. promise[h] \in Frames
      BY <1>0, <1>6 DEF Destruct, Usable
    <2>2. ref_cnt' \in [Frames -> Nat] /\ state' \in [Frames -> FrameState]
      BY <1>5, <1>6, <2>1 DEF Destruct
    <2> QED
      BY <1>0, <1>6, <2>2 DEF Destruct
  <1>7. ASSUME NEW h \in Handles, BeginWait(h) \/ EndWait(h) PROVE TypeOK'
    BY <1>0, <1>7 DEF BeginWait, EndWait
  <1>8. ASSUME NEW h \in Handles, Serve(h) \/ Commit(h) PROVE TypeOK'
    <2>1. promise[h] \in Frames
      BY <1>0, <1>8 DEF Serve, Commit, Usable
    <2>2. CASE Serve(h)
      BY <1>0, <2>1, <2>2 DEF Serve
    <2>3. CASE Commit(h)
      BY <1>0, <2>1, <2>3 DEF Commit, Inc
    <2> QED
      BY <1>8, <2>2, <2>3
  <1>9. ASSUME NEW t \in Threads, NEW f \in Frames, EnterBody(t, f)
        PROVE  /\ pc' \in [Threads -> ThreadPC] /\ cur' \in [Threads -> FrameOrNull]
               /\ state' \in [Frames -> FrameState]
               /\ local_var' \in [Frames -> FrameOrNull]
               /\ local_vars' \subseteq Frames /\ serving' \subseteq Frames
    BY <1>0, <1>9 DEF EnterBody
  <1>10. ASSUME NEW t \in Threads, ResumeReady(t) PROVE TypeOK'
    BY <1>0, <1>9, <1>10 DEF ResumeReady
  <1>11. ASSUME NEW t \in Threads, NEW h \in Handles, ResumeDirectly(t, h)
         PROVE  TypeOK'
    <2>1. promise[h] \in Frames
      BY <1>0, <1>11 DEF ResumeDirectly, Usable
    <2>2. EnterBody(t, promise[h]) /\ roots' = roots \cup {promise[h]}
      BY <1>11 DEF ResumeDirectly
    <2>3. UNCHANGED <<handleVars, ref_cnt, ringVars, callVars, done_flag, counted,
                      running_coro_cnt, turns>>
      BY <1>11 DEF ResumeDirectly
    <2> QED
      BY <1>0, <1>9, <2>1, <2>2, <2>3
  <1>12. ASSUME NEW t \in Threads, Suspend(t) PROVE TypeOK'
    <2>1. turns' \in 0..MaxTurns
      BY <1>0, <1>12 DEF Suspend
    <2>2. state' \in [Frames -> FrameState]
      BY <1>0, <1>12 DEF Suspend
    <2>3. pc' \in [Threads -> ThreadPC] /\ cur' \in [Threads -> FrameOrNull]
      BY <1>0, <1>12 DEF Suspend
    <2> QED
      BY <1>0, <1>12, <2>1, <2>2, <2>3 DEF Suspend
  <1>13. ASSUME NEW t \in Threads, NEW c \in Frames, pc[t] = "body", Await(t, c)
         PROVE  /\ cur' \in [Threads -> FrameOrNull]
                /\ state' \in [Frames -> FrameState]
                /\ prev' \in [Frames -> FrameOrNull] /\ next' \in [Frames -> FrameOrNull]
                /\ held' \in [Frames -> SUBSET Frames]
                /\ callers' \in [Frames -> SUBSET Frames]
                /\ local_var' \in [Frames -> FrameOrNull]
                /\ UNCHANGED <<waiting, pc, local_vars, serving, rootVars, turns>>
    <2>1. cur[t] \in Frames
      BY <1>0, <1>13, HasFrame
    <2> QED
      BY <1>0, <1>13, <2>1 DEF Await, LinkNext
  <1>14. ASSUME NEW t \in Threads, CallNew(t) PROVE TypeOK'
    <2>1. Unused \in Frames
      BY <1>14, UnusedFrame DEF CallNew
    <2> QED
      BY <1>0, <1>13, <1>14, <2>1 DEF CallNew
  <1>15. ASSUME NEW t \in Threads, NEW h \in Handles, CallHandle(t, h) PROVE TypeOK'
    <2>1. promise[h] \in Frames
      BY <1>0, <1>15 DEF CallHandle, Usable
    <2> QED
      BY <1>0, <1>13, <1>15, <2>1 DEF CallHandle
  <1>16. ASSUME NEW t \in Threads, DropAwaitable(t) PROVE TypeOK'
    <2>1. cur[t] \in Frames
      BY <1>0, <1>16, HasFrame DEF DropAwaitable
    <2>2. PICK c \in held[cur[t]] :
            LetGo(c) /\ held' = [held EXCEPT ![cur[t]] = @ \ {c}]
      BY <1>16 DEF DropAwaitable
    <2>3. c \in Frames
      BY <1>0, <2>1
    <2>4. ref_cnt' \in [Frames -> Nat] /\ state' \in [Frames -> FrameState]
      BY <1>5, <2>2, <2>3
    <2> QED
      BY <1>0, <1>16, <2>1, <2>2, <2>4 DEF DropAwaitable
  <1>17. ASSUME NEW t \in Threads, Return(t) \/ Tell(t) \/ DeleteLocalVar(t)
         PROVE  TypeOK'
    BY <1>0, <1>17 DEF Return, Tell, DeleteLocalVar
  <1>18. ASSUME NEW t \in Threads, FinalCallee(t) PROVE TypeOK'
    <2>1. cur[t] \in Frames
      BY <1>0, <1>18, HasFrame DEF FinalCallee
    <2> QED
      BY <1>0, <1>18, <2>1 DEF FinalCallee, RemoveSelf
  <1>19. ASSUME NEW t \in Threads, FinalRoot(t) PROVE TypeOK'
    BY <1>0, <1>19 DEF FinalRoot
  <1>20. ASSUME NEW t \in Threads, ReleaseSelf(t) PROVE TypeOK'
    <2>1. cur[t] \in Frames
      BY <1>0, <1>20, HasFrame DEF ReleaseSelf
    <2>2. ref_cnt' \in [Frames -> Nat] /\ state' \in [Frames -> FrameState]
      BY <1>5, <1>20, <2>1 DEF ReleaseSelf
    <2> QED
      BY <1>0, <1>20, <2>2 DEF ReleaseSelf
  <1>21. ASSUME UNCHANGED vars PROVE TypeOK'
    BY <1>0, <1>21 DEF vars
  <1> QED
    BY <1>1, <1>2, <1>3, <1>4, <1>6, <1>7, <1>8, <1>10, <1>11, <1>12, <1>14,
       <1>15, <1>16, <1>17, <1>18, <1>19, <1>20, <1>21
    DEF Next, Handle, Thread

-----------------------------------------------------------------------------
LEMMA RefsFinite ==
  ASSUME NEW f
  PROVE  /\ IsFiniteSet(RefsTo(f)) /\ Cardinality(RefsTo(f)) \in Nat
         /\ \A h \in Handles : promise[h] = f => Cardinality(RefsTo(f)) >= 1
  <1>1. IsFiniteSet(RefsTo(f))
    BY TaskAssumption, FS_Subset DEF RefsTo
  <1>2. Cardinality(RefsTo(f)) \in Nat
    BY <1>1, FS_CardinalityType
  <1>3. Cardinality(RefsTo(f)) = 0 <=> RefsTo(f) = {}
    BY <1>1, FS_EmptySet
  <1> QED
    BY <1>1, <1>2, <1>3 DEF RefsTo

(* A frame with a count of zero that somebody refers to is a root whose final *)
(* suspension is over (utils.h 24, task.ipp 66).                              *)
LEMMA ZeroMeansEnded ==
  ASSUME TypeOK, RefInv, NEW f \in Frames, Exists(f), ref_cnt[f] = 0,
         Cardinality(RefsTo(f)) + Held(f) + Own(f) >= 1
  PROVE  Ended(f) /\ Cardinality(RefsTo(f)) + Held(f) + Own(f) = 1
  <1>1. Cardinality(RefsTo(f)) + Held(f) + Own(f) <= 0 + Missing(f)
    BY DEF RefInv, Counted
  <1>2. Cardinality(RefsTo(f)) + Held(f) + Own(f) \in Nat
    BY RefsFinite DEF Held, Own
  <1>3. Missing(f) = IF Ended(f) THEN 1 ELSE 0
    BY DEF Missing
  <1> QED
    BY <1>1, <1>2, <1>3

(* What every step does to frames and threads.                                *)
LEMMA Moves == Inv /\ [Next]_vars => Move
  <1> SUFFICES ASSUME Inv, [Next]_vars PROVE Move
    OBVIOUS
  <1> USE DEF frameVars, handleVars, threadVars, ringVars, callVars, localVars, rootVars
  <1>0. TypeOK /\ ThreadInv /\ FrameInv /\ HeldInv /\ RefInv
    BY DEF Inv
  <1>1. ASSUME NEW h \in Handles, promise[h] # NULL
        PROVE  promise[h] \in Frames /\ Exists(promise[h])
    BY <1>0, <1>1 DEF TypeOK, FrameOrNull, RefInv
  <1>2. ASSUME NEW h \in Handles, Create(h) PROVE Move
    <2>1. Unused \in Frames /\ state[Unused] = "none"
      BY <1>2, UnusedFrame DEF Create
    <2>2. Made(Unused)
      BY <1>2, <2>1 DEF Create, Made
    <2> QED
      BY <2>1, <2>2 DEF Move
  <1>3. ASSUME NEW h \in Handles, NEW from \in Handles,
               Copy(h, from) \/ MoveConstruct(h, from) \/ MoveAssignOrReset(h)
               \/ BeginWait(h) \/ EndWait(h)
        PROVE  Move
    BY <1>3 DEF Copy, MoveConstruct, MoveAssignOrReset, BeginWait, EndWait, Quiet, Move
  <1>4. ASSUME NEW h \in Handles, Destruct(h) PROVE Move
    <2> DEFINE f == promise[h]
    <2>1. f \in Frames /\ Exists(f)
      BY <1>1, <1>4 DEF Destruct, Usable
    <2>2. CASE ref_cnt[f] = 0
      <3>1. Cardinality(RefsTo(f)) >= 1 /\ Cardinality(RefsTo(f)) \in Nat
        BY RefsFinite
      <3>2. Cardinality(RefsTo(f)) + Held(f) + Own(f) >= 1
        BY <3>1 DEF Held, Own
      <3>3. Ended(f)
        BY <1>0, <2>1, <2>2, <3>2, ZeroMeansEnded
      <3>4. Destroyed(f)
        BY <1>4, <2>2, <3>3 DEF Destruct, LetGo, Destroyed
      <3> QED
        BY <2>1, <3>4 DEF Move
    <2>3. CASE ref_cnt[f] # 0
      BY <1>4, <2>3 DEF Destruct, LetGo, Quiet, Move
    <2> QED
      BY <2>2, <2>3
  <1>5. ASSUME NEW h \in Handles, Serve(h) PROVE Move
    <2>1. promise[h] \in Frames
      BY <1>1, <1>5 DEF Serve, Usable
    <2>2. Served(promise[h])
      BY <1>5 DEF Serve, Served
    <2> QED
      BY <2>1, <2>2 DEF Move
  <1>6. ASSUME NEW h \in Handles, Commit(h) PROVE Move
    <2>1. promise[h] \in Frames
      BY <1>1, <1>6 DEF Commit, Usable
    <2>2. Committed(promise[h])
      BY <1>6 DEF Commit, Committed
    <2> QED
      BY <2>1, <2>2 DEF Move
  <1>7. ASSUME NEW t \in Threads, ResumeReady(t) PROVE Move
    BY <1>7 DEF ResumeReady, Entered, Move
  <1>8. ASSUME NEW t \in Threads, NEW h \in Handles, ResumeDirectly(t, h) PROVE Move
    <2>1. promise[h] \in Frames
      BY <1>1, <1>8 DEF ResumeDirectly, Usable
    <2>2. Entered(t, promise[h])
      BY <1>8 DEF ResumeDirectly, Entered
    <2> QED
      BY <2>1, <2>2 DEF Move
  <1>9. ASSUME NEW t \in Threads, CallNew(t) PROVE Move
    <2>1. Unused \in Frames /\ state[Unused] = "none"
      BY <1>9, UnusedFrame DEF CallNew
    <2>2. Called(t, Unused)
      BY <1>0, <1>9, <2>1 DEF CallNew, Called, FrameInv
    <2> QED
      BY <2>1, <2>2 DEF Move
  <1>10. ASSUME NEW t \in Threads, NEW h \in Handles, CallHandle(t, h) PROVE Move
    <2>1. promise[h] \in Frames
      BY <1>1, <1>10 DEF CallHandle, Usable
    <2>2. Called(t, promise[h])
      BY <1>10 DEF CallHandle, Called
    <2> QED
      BY <2>1, <2>2 DEF Move
  <1>11. ASSUME NEW t \in Threads, DropAwaitable(t) PROVE Move
    <2>1. cur[t] \in Frames
      BY <1>0, <1>11, HasFrame DEF DropAwaitable
    <2>2. PICK c \in held[cur[t]] :
            LetGo(c) /\ held' = [held EXCEPT ![cur[t]] = @ \ {c}]
      BY <1>11 DEF DropAwaitable
    <2>3. c \in Frames
      BY <1>0, <2>1 DEF TypeOK
    <2>4. Exists(c) /\ c \notin roots
      BY <1>0, <2>1, <2>3 DEF HeldInv
    <2>5. Held(c) = 1 /\ Own(c) \in Nat /\ Cardinality(RefsTo(c)) \in Nat
      BY <2>1, RefsFinite DEF Held, Own
    <2>6. ref_cnt[c] # 0
      BY <1>0, <2>3, <2>4, <2>5, ZeroMeansEnded DEF Ended
    <2>7. Dropped(t, c)
      BY <1>11, <2>2, <2>6 DEF DropAwaitable, LetGo, Dropped
    <2> QED
      BY <2>3, <2>7 DEF Move
  <1>12. ASSUME NEW t \in Threads, Suspend(t) \/ Return(t) \/ FinalCallee(t)
                                   \/ DeleteLocalVar(t)
         PROVE  Move
    BY <1>12 DEF Move
  <1>13. ASSUME NEW t \in Threads, FinalRoot(t) \/ Tell(t) PROVE Move
    BY <1>13 DEF FinalRoot, Tell, Passed, Move
  <1>14. ASSUME NEW t \in Threads, ReleaseSelf(t) PROVE Move
    BY <1>14 DEF ReleaseSelf, LetGo, Released, Move
  <1>15. ASSUME UNCHANGED vars PROVE Move
    BY <1>15 DEF vars, Quiet, Move
  <1> QED
    BY <1>2, <1>3, <1>4, <1>5, <1>6, <1>7, <1>8, <1>9, <1>10, <1>11, <1>12,
       <1>13, <1>14, <1>15
    DEF Next, Handle, Thread

(* What a thread has runs or is in its final suspension.                      *)
LEMMA OnThread ==
  ASSUME TypeOK, ThreadInv, NEW u \in Threads, cur[u] # NULL
  PROVE  cur[u] \in Frames /\ state[cur[u]] \in {"running", "final"}
  <1>1. pc[u] \in ThreadPC /\ cur[u] \in FrameOrNull /\ pc[u] # "idle"
    BY DEF TypeOK, ThreadInv
  <1>2. cur[u] \in Frames
    BY <1>1 DEF FrameOrNull
  <1>3. pc[u] = "body" \/ pc[u] \in {"final"} \cup Leaving
    BY <1>1 DEF ThreadPC, Leaving
  <1>4. state[cur[u]] = "running" \/ state[cur[u]] = "final"
    BY <1>3 DEF ThreadInv
  <1> QED
    BY <1>2, <1>4

(* A resume changes the frame it resumes and no other.                        *)
LEMMA EnterChanges ==
  ASSUME TypeOK, NEW t \in Threads, NEW f \in Frames, Entered(t, f)
  PROVE  /\ state[f] \in {"initial", "ready"} /\ state'[f] = "running"
         /\ \A g \in Frames : g # f => state'[g] = state[g]
         /\ \A g \in Frames : g # f => local_var'[g] = local_var[g]
         /\ local_var'[f] = IF local_var[f] = NULL THEN f ELSE local_var[f]
  <1>1. state \in [Frames -> FrameState] /\ local_var \in [Frames -> FrameOrNull]
    BY DEF TypeOK
  <1>2. /\ state' = [state EXCEPT ![f] = "running"]
        /\ state[f] \in {"initial", "ready"}
        /\ local_var' = IF local_var[f] = NULL THEN [local_var EXCEPT ![f] = f]
                        ELSE local_var
    BY DEF Entered, EnterBody
  <1> QED
    BY <1>1, <1>2

-----------------------------------------------------------------------------
(* The final suspension of a frame that is not alone in its ring is that of a *)
(* callee, behind its caller and before the root (task.ipp 93-95).            *)
LEMMA CalleeEnds ==
  ASSUME Inv, NEW t \in Threads, FinalCallee(t),
         NEW f, f = cur[t], NEW g, g = prev[f], NEW r, r = next[f]
  PROVE  /\ f \in Going /\ f \in Frames /\ f \notin roots /\ state[f] = "final"
         /\ g \in Frames /\ g \in Going /\ state[g] = "calling" /\ next[g] = f /\ g # f
         /\ r \in Frames /\ r \in Going /\ r \in roots /\ prev[r] = f /\ r # f
         /\ local_var[f] = r /\ local_var[g] = r /\ local_var[r] = r
  <1>1. TypeOK /\ ThreadInv /\ RingInv /\ LocalInv /\ FrameInv
    BY DEF Inv
  <1>2. f \in Going /\ f \in Frames /\ state[f] = "final" /\ g # f /\ local_var[f] # NULL
    BY <1>1, HasFrame, GoingFrames DEF FinalCallee, ThreadInv, LocalInv
  <1>3. next[f] = Root(f) /\ prev[Root(f)] = f /\ Root(f) = local_var[f]
    BY <1>1, <1>2 DEF RingInv, Root
  <1>4. r = local_var[f] /\ prev[r] = f /\ r \in local_vars /\ r \in roots
    BY <1>1, <1>2, <1>3 DEF LocalInv
  <1>5. r # f
    BY <1>2, <1>4
  <1>6. f \notin roots
    BY <1>1, <1>2, <1>4, <1>5 DEF LocalInv
  <1>7. g \in Frames /\ state[g] = "calling" /\ next[g] = f
    BY <1>1, <1>2, <1>6 DEF RingInv
  <1>8. g \in Going
    BY <1>1, <1>7, GoingFrames
  <1>9. local_var[g] = r
    BY <1>1, <1>2, <1>4, <1>6 DEF LocalInv
  <1>10. r \in Frames /\ local_var[r] = r /\ r \in Going
    BY <1>1, <1>4 DEF LocalInv, FrameInv, TypeOK
  <1> QED
    BY <1>2, <1>4, <1>5, <1>6, <1>7, <1>8, <1>9, <1>10

(* A frame that is alone in its ring is a root.                               *)
LEMMA RootEnds ==
  ASSUME TypeOK, ThreadInv, RingInv, NEW t \in Threads, pc[t] = "final",
         prev[cur[t]] = cur[t]
  PROVE  cur[t] \in roots
  <1>1. cur[t] \in Going /\ state[cur[t]] = "final"
    BY GoingFrames DEF ThreadInv
  <1> QED
    BY <1>1 DEF RingInv

(* A frame that a thread awaits is in no ring but its own, if in one.         *)
LEMMA CalleeBegins ==
  ASSUME Inv, NEW t \in Threads, NEW c \in Frames, Called(t, c),
         NEW f, f = cur[t], NEW r, r = next[f]
  PROVE  /\ f \in Going /\ f \in Frames /\ state[f] = "running" /\ f # c
         /\ c \notin Going /\ c \notin roots
         /\ r \in Frames /\ r \in Going /\ r \in roots /\ prev[r] = f /\ r # c
         /\ local_var[f] = r /\ local_var[r] = r /\ c \notin local_vars
  <1>1. TypeOK /\ ThreadInv /\ RingInv /\ LocalInv /\ FrameInv
    BY DEF Inv
  <1>2. f \in Going /\ f \in Frames /\ state[f] = "running" /\ local_var[f] # NULL
    BY <1>1, HasFrame, GoingFrames DEF Called, ThreadInv, LocalInv
  <1>3. state[c] \in {"none", "initial"} /\ c \notin serving
    BY DEF Called
  <1>4. c \notin Going
    BY <1>1, <1>3, GoingFrames
  <1>5. next[f] = Root(f) /\ prev[Root(f)] = f /\ Root(f) = local_var[f]
    BY <1>1, <1>2 DEF RingInv, Root
  <1>6. r = local_var[f] /\ prev[r] = f /\ r \in local_vars /\ r \in roots
    BY <1>1, <1>2, <1>5 DEF LocalInv
  <1>7. r \in Frames /\ local_var[r] = r /\ r \in Going
    BY <1>1, <1>6 DEF LocalInv, FrameInv, TypeOK
  <1>8. c \notin roots /\ c \notin local_vars
    BY <1>1, <1>3, <1>4 DEF LocalInv, FrameInv
  <1> QED
    BY <1>2, <1>3, <1>4, <1>6, <1>7, <1>8

(* A thread goes to frame f, which no thread has: the frame it had, if any,   *)
(* does not run any more.                                                     *)
LEMMA ThreadParts ==
  ASSUME TypeOK, ThreadInv, NEW t \in Threads, NEW f \in Frames,
         f # NULL, \A u \in Threads : cur[u] # f,
         pc' = [pc EXCEPT ![t] = "body"], cur' = [cur EXCEPT ![t] = f],
         roots \subseteq roots', state'[f] = "running",
         \A g \in Frames : g # f /\ g # cur[t] => state'[g] = state[g],
         cur[t] \in Frames => state'[cur[t]] # "running"
  PROVE  ThreadInv'
  <1>1. pc'[t] = "body" /\ cur'[t] = f
    BY DEF TypeOK
  <1>2. \A u \in Threads : u # t => pc'[u] = pc[u] /\ cur'[u] = cur[u]
    BY DEF TypeOK
  <1>3. \A u \in Threads : u # t /\ pc[u] # "idle" =>
          cur[u] \in Frames /\ cur[u] # f /\ cur[u] # cur[t]
    BY HasFrame DEF ThreadInv
  <1>4. \A u \in Threads :
          /\ pc'[u] = "idle" <=> cur'[u] = NULL
          /\ pc'[u] = "body" => state'[cur'[u]] = "running"
          /\ pc'[u] \in {"final"} \cup Leaving => state'[cur'[u]] = "final"
          /\ pc'[u] \in Leaving => cur'[u] \in roots'
    <2> TAKE u \in Threads
    <2>1. CASE u = t
      BY <1>1, <2>1 DEF Leaving
    <2>2. CASE u # t
      BY <1>2, <1>3, <2>2 DEF ThreadInv, Leaving
    <2> QED
      BY <2>1, <2>2
  <1>5. \A u, v \in Threads : cur'[u] # NULL /\ cur'[u] = cur'[v] => u = v
    BY <1>1, <1>2 DEF ThreadInv
  <1>6. \A g \in Frames : state'[g] = "running" => \E u \in Threads : cur'[u] = g
    <2> TAKE g \in Frames
    <2>1. CASE g = f
      BY <1>1, <2>1
    <2>2. CASE g # f /\ state'[g] = "running"
      <3>1. g # cur[t] /\ state[g] = "running"
        BY <2>2
      <3>2. PICK u \in Threads : cur[u] = g
        BY <3>1 DEF ThreadInv, InThread
      <3> QED
        BY <1>2, <3>1, <3>2
    <2> QED
      BY <2>1, <2>2
  <1> QED
    BY <1>4, <1>5, <1>6 DEF ThreadInv, InThread, Leaving

(* A thread lets go of its frame, which does not run any more.                *)
LEMMA ThreadLeaves ==
  ASSUME TypeOK, ThreadInv, NEW t \in Threads, pc[t] # "idle",
         pc' = [pc EXCEPT ![t] = "idle"], cur' = [cur EXCEPT ![t] = NULL],
         UNCHANGED roots, \A g \in Frames : g # cur[t] => state'[g] = state[g],
         state'[cur[t]] # "running"
  PROVE  ThreadInv'
  <1>1. pc'[t] = "idle" /\ cur'[t] = NULL
    BY DEF TypeOK
  <1>2. \A u \in Threads : u # t => pc'[u] = pc[u] /\ cur'[u] = cur[u]
    BY DEF TypeOK
  <1>3. \A u \in Threads : u # t /\ pc[u] # "idle" =>
          cur[u] \in Frames /\ cur[u] # cur[t]
    BY HasFrame DEF ThreadInv
  <1>4. \A u \in Threads :
          /\ pc'[u] = "idle" <=> cur'[u] = NULL
          /\ pc'[u] = "body" => state'[cur'[u]] = "running"
          /\ pc'[u] \in {"final"} \cup Leaving => state'[cur'[u]] = "final"
          /\ pc'[u] \in Leaving => cur'[u] \in roots'
    <2> TAKE u \in Threads
    <2>1. CASE u = t
      BY <1>1, <2>1 DEF Leaving
    <2>2. CASE u # t
      BY <1>2, <1>3, <2>2 DEF ThreadInv, Leaving
    <2> QED
      BY <2>1, <2>2
  <1>5. \A u, v \in Threads : cur'[u] # NULL /\ cur'[u] = cur'[v] => u = v
    BY <1>1, <1>2 DEF ThreadInv
  <1>6. \A g \in Frames : state'[g] = "running" => \E u \in Threads : cur'[u] = g
    <2> TAKE g \in Frames
    <2>1. CASE g = cur[t]
      BY <2>1
    <2>2. CASE g # cur[t] /\ state'[g] = "running"
      <3>1. PICK u \in Threads : cur[u] = g
        BY <2>2 DEF ThreadInv, InThread
      <3> QED
        BY <1>2, <2>2, <3>1
    <2> QED
      BY <2>1, <2>2
  <1> QED
    BY <1>4, <1>5, <1>6 DEF ThreadInv, InThread, Leaving

LEMMA ThreadStep == Inv /\ Move /\ TypeOK' => ThreadInv'
  <1> SUFFICES ASSUME Inv, Move, TypeOK' PROVE ThreadInv'
    OBVIOUS
  <1> USE DEF frameVars, threadVars, ringVars, callVars, localVars
  <1>0. TypeOK /\ ThreadInv /\ FrameInv
    BY DEF Inv
  <1>1. ASSUME NEW t \in Threads, pc[t] # "idle"
        PROVE  cur[t] \in Frames /\ cur[t] # NULL
    BY <1>0, <1>1, HasFrame
  <1>2. CASE Quiet
    BY <1>0, <1>2 DEF Quiet, ThreadInv, InThread
  <1>3. ASSUME NEW f \in Frames, Destroyed(f) PROVE ThreadInv'
    BY <1>0, <1>3 DEF Destroyed, Ended, ThreadInv, InThread, TypeOK, Leaving
  <1>4. ASSUME NEW f \in Frames, Made(f) PROVE ThreadInv'
    BY <1>0, <1>4 DEF Made, ThreadInv, InThread, TypeOK, Leaving
  <1>5. ASSUME NEW f \in Frames, Served(f) PROVE ThreadInv'
    BY <1>0, <1>5 DEF Served, ThreadInv, InThread, TypeOK, Leaving
  <1>6. ASSUME NEW f \in Frames, Committed(f) PROVE ThreadInv'
    <2>1. \A u \in Threads : cur[u] # f
      BY <1>0, <1>6, TaskAssumption DEF Committed, ThreadInv, TypeOK, ThreadPC, Leaving
    <2>2. \A g \in Frames : state'[g] = IF g = f THEN "ready" ELSE state[g]
      BY <1>0, <1>6 DEF Committed, TypeOK
    <2>3. roots \subseteq roots'
      BY <1>6 DEF Committed
    <2>4. UNCHANGED <<pc, cur>>
      BY <1>6 DEF Committed
    <2> QED
      BY <1>0, <1>1, <2>1, <2>2, <2>3, <2>4 DEF ThreadInv, InThread, Leaving
  <1>7. ASSUME NEW t \in Threads, NEW f \in Frames, Entered(t, f) PROVE ThreadInv'
    <2>1. f # NULL /\ \A u \in Threads : cur[u] # f
      <3>1. f # NULL /\ state[f] \in {"initial", "ready"}
        BY <1>0, <1>7, TaskAssumption, EnterChanges
      <3> QED
        BY <1>0, <3>1, OnThread
    <2>2. /\ pc' = [pc EXCEPT ![t] = "body"] /\ cur' = [cur EXCEPT ![t] = f]
          /\ state' = [state EXCEPT ![f] = "running"]
          /\ roots \subseteq roots'
      BY <1>7 DEF Entered, EnterBody
    <2>3. pc[t] = "idle" /\ cur[t] = NULL
      BY <1>0, <1>7 DEF Entered, ThreadInv
    <2>4. \A g \in Frames : state'[g] = IF g = f THEN "running" ELSE state[g]
      BY <1>0, <2>2 DEF TypeOK
    <2> QED
      BY <1>0, <2>1, <2>2, <2>3, <2>4, TaskAssumption, ThreadParts
  <1>8. ASSUME NEW t \in Threads, NEW c \in Frames, Called(t, c) PROVE ThreadInv'
    <2>1. c # NULL /\ \A u \in Threads : cur[u] # c
      <3>1. c # NULL /\ state[c] \in {"none", "initial"}
        BY <1>8, TaskAssumption DEF Called
      <3> QED
        BY <1>0, <3>1, OnThread
    <2>2. /\ pc[t] = "body" /\ cur[t] \in Frames /\ cur[t] # NULL /\ cur[t] # c
          /\ UNCHANGED <<pc, roots>> /\ cur' = [cur EXCEPT ![t] = c]
          /\ state' = [state EXCEPT ![cur[t]] = "calling", ![c] = "running"]
      BY <1>1, <1>8, <2>1 DEF Called, Await, rootVars
    <2>3. /\ state'[c] = "running" /\ state'[cur[t]] = "calling"
          /\ \A g \in Frames : g # c /\ g # cur[t] => state'[g] = state[g]
      BY <1>0, <2>2 DEF TypeOK
    <2>4. pc' = [pc EXCEPT ![t] = "body"]
      BY <1>0, <2>2 DEF TypeOK
    <2>5. state'[cur[t]] # "running"
      BY <2>3
    <2>6. roots \subseteq roots' /\ cur' = [cur EXCEPT ![t] = c]
      BY <2>2
    <2> QED
      BY <1>0, <2>1, <2>3, <2>4, <2>5, <2>6, ThreadParts
  <1>9. ASSUME NEW t \in Threads, NEW c \in Frames, Dropped(t, c) PROVE ThreadInv'
    BY <1>0, <1>9 DEF Dropped, ThreadInv, InThread
  <1>10. ASSUME NEW t \in Threads, Suspend(t) PROVE ThreadInv'
    <2>1. cur[t] \in Frames /\ cur[t] # NULL /\ UNCHANGED roots
      BY <1>1, <1>10 DEF Suspend, rootVars
    <2>2. \A g \in Frames : state'[g] = IF g = cur[t] THEN "ready" ELSE state[g]
      BY <1>0, <1>10 DEF TypeOK, Suspend
    <2>3. /\ pc[t] # "idle" /\ pc' = [pc EXCEPT ![t] = "idle"]
          /\ cur' = [cur EXCEPT ![t] = NULL]
      BY <1>10 DEF Suspend
    <2> QED
      BY <1>0, <2>1, <2>2, <2>3, ThreadLeaves
  <1>11. ASSUME NEW t \in Threads, Return(t) PROVE ThreadInv'
    <2>1. cur[t] \in Frames /\ cur[t] # NULL /\ UNCHANGED roots
      BY <1>1, <1>11 DEF Return, rootVars
    <2> QED
      BY <1>0, <1>11, <2>1 DEF Return, ThreadInv, InThread, TypeOK, Leaving
  <1>12. ASSUME NEW t \in Threads, FinalCallee(t) PROVE ThreadInv'
    <2> DEFINE f == cur[t]  g == prev[cur[t]]
    <2>1. f \in Frames /\ state[f] = "final" /\ g \in Frames /\ state[g] = "calling"
      BY <1>12, CalleeEnds
    <2>2. g # NULL /\ \A u \in Threads : cur[u] # g
      BY <1>0, <2>1, TaskAssumption, OnThread
    <2>3. /\ pc[t] = "final" /\ pc' = [pc EXCEPT ![t] = "body"]
          /\ cur' = [cur EXCEPT ![t] = g]
          /\ state' = [state EXCEPT ![g] = "running"] /\ UNCHANGED roots
      BY <1>12 DEF FinalCallee, rootVars
    <2>4. \A h \in Frames : state'[h] = IF h = g THEN "running" ELSE state[h]
      BY <1>0, <2>3 DEF TypeOK
    <2>5. state'[cur[t]] # "running"
      BY <2>1, <2>4
    <2>6. /\ pc' = [pc EXCEPT ![t] = "body"] /\ roots \subseteq roots'
          /\ state'[g] = "running" /\ cur' = [cur EXCEPT ![t] = g]
          /\ \A h \in Frames : h # g /\ h # cur[t] => state'[h] = state[h]
      BY <2>1, <2>3, <2>4
    <2> HIDE DEF f, g
    <2> QED
      BY <1>0, <2>1, <2>2, <2>5, <2>6, ThreadParts
  <1>13. ASSUME NEW t \in Threads, Passed(t) PROVE ThreadInv'
    <2>1. pc[t] = "final" => cur[t] \in roots
      BY <1>0, <1>13, RootEnds DEF Passed, Inv
    <2> QED
      BY <1>0, <1>13, <2>1 DEF Passed, ThreadInv, InThread, TypeOK, Leaving
  <1>14. ASSUME NEW t \in Threads, DeleteLocalVar(t) PROVE ThreadInv'
    BY <1>0, <1>14 DEF DeleteLocalVar, rootVars, ThreadInv, InThread, TypeOK, Leaving
  <1>15. ASSUME NEW t \in Threads, Released(t) PROVE ThreadInv'
    <2>1. cur[t] \in Frames /\ state[cur[t]] = "final" /\ UNCHANGED roots
      BY <1>0, <1>1, <1>15 DEF Released, ThreadInv, Leaving
    <2>2. /\ \A g \in Frames : g # cur[t] => state'[g] = state[g]
          /\ state'[cur[t]] # "running"
      BY <1>0, <1>15, <2>1 DEF Released, TypeOK
    <2>3. /\ pc[t] # "idle" /\ pc' = [pc EXCEPT ![t] = "idle"]
          /\ cur' = [cur EXCEPT ![t] = NULL]
      BY <1>15 DEF Released
    <2> QED
      BY <1>0, <2>1, <2>2, <2>3, ThreadLeaves
  <1> QED
    BY <1>2, <1>3, <1>4, <1>5, <1>6, <1>7, <1>8, <1>9, <1>10, <1>11, <1>12,
       <1>13, <1>14, <1>15
    DEF Move

LEMMA InitInv == Init => Inv
  <1> SUFFICES ASSUME Init PROVE Inv
    OBVIOUS
  <1>1. TypeOK
    BY TaskAssumption DEF Init, TypeOK, FrameOrNull, ThreadPC, FrameState
  <1>2. /\ \A f \in Frames : /\ state[f] = "none" /\ held[f] = {}
                              /\ callers[f] = {} /\ local_var[f] = NULL /\ ~counted[f]
        /\ \A t \in Threads : pc[t] = "idle" /\ cur[t] = NULL
        /\ \A h \in Handles : promise[h] = NULL
        /\ local_vars = {} /\ serving = {} /\ roots = {}
    BY DEF Init
  <1>3. ThreadInv
    BY <1>2 DEF ThreadInv, Leaving
  <1>4. Going = {}
    BY <1>2, TaskAssumption DEF Going, Active, InThread
  <1>5. FrameInv /\ HeldInv /\ RefInv
    BY <1>2 DEF FrameInv, HeldInv, RefInv, Exists
  <1>6. RingInv
    BY <1>2, <1>4 DEF RingInv
  <1>7. LocalInv
    BY <1>2, <1>4 DEF LocalInv
  <1>8. CallersInv
    BY <1>4 DEF CallersInv
  <1> QED
    BY <1>1, <1>3, <1>5, <1>6, <1>7, <1>8 DEF Inv

-----------------------------------------------------------------------------
(* A frame is active in a queue, waiting for its callee, or with a thread.    *)
LEMMA GoingIs ==
  ASSUME TypeOK, ThreadInv
  PROVE  Going = {f \in Frames : state[f] \in {"ready", "calling"} \/ InThread(f)}
  BY DEF Going, Active, ThreadInv

LEMMA GoingIsNext ==
  ASSUME TypeOK', ThreadInv'
  PROVE  Going' = {f \in Frames : state'[f] \in {"ready", "calling"}
                                  \/ \E t \in Threads : cur'[t] = f}
  BY DEF Going, Active, ThreadInv, InThread

(* Which frames are active after a step.                                      *)
LEMMA GoingStep ==
  ASSUME Inv, TypeOK', ThreadInv'
  PROVE  /\ Quiet => Going' = Going
         /\ \A f \in Frames : Destroyed(f) \/ Made(f) \/ Served(f) => Going' = Going
         /\ \A f \in Frames : Committed(f) => Going' = Going \cup {f}
         /\ \A t \in Threads, f \in Frames :
              /\ Entered(t, f) \/ Called(t, f) => Going' = Going \cup {f}
              /\ Dropped(t, f) => Going' = Going
         /\ \A t \in Threads :
              /\ Suspend(t) \/ Return(t) \/ Passed(t) \/ DeleteLocalVar(t)
                   => Going' = Going
              /\ FinalCallee(t) \/ Released(t) => Going' = Going \ {cur[t]}
  <1> USE DEF frameVars, threadVars, ringVars, callVars, localVars
  <1>0. /\ TypeOK /\ ThreadInv
        /\ Going = {f \in Frames : state[f] \in {"ready", "calling"} \/ InThread(f)}
        /\ Going' = {f \in Frames : state'[f] \in {"ready", "calling"}
                                    \/ \E t \in Threads : cur'[t] = f}
    BY GoingIs, GoingIsNext DEF Inv
  <1>1. ASSUME NEW t \in Threads, pc[t] # "idle"
        PROVE  cur[t] \in Frames /\ cur[t] # NULL
    BY <1>0, <1>1, HasFrame
  <1>2. Quiet => Going' = Going
    BY <1>0 DEF Quiet, InThread
  <1>3. ASSUME NEW f \in Frames, Destroyed(f) \/ Made(f) \/ Served(f)
        PROVE  Going' = Going
    BY <1>0, <1>3 DEF Destroyed, Ended, Made, Served, InThread, TypeOK
  <1>4. ASSUME NEW f \in Frames, Committed(f) PROVE Going' = Going \cup {f}
    BY <1>0, <1>4 DEF Committed, InThread, TypeOK
  <1>5. ASSUME NEW t \in Threads, NEW f \in Frames, Entered(t, f)
        PROVE  Going' = Going \cup {f}
    <2>1. /\ cur[t] = NULL /\ cur' = [cur EXCEPT ![t] = f]
          /\ state' = [state EXCEPT ![f] = "running"]
      BY <1>0, <1>5 DEF Entered, EnterBody, ThreadInv
    <2>2. \A u \in Threads : cur'[u] = IF u = t THEN f ELSE cur[u]
      BY <1>0, <2>1 DEF TypeOK
    <2>3. \A g \in Frames : g # f => state'[g] = state[g]
      BY <1>0, <2>1 DEF TypeOK
    <2>4. \A g \in Frames : g # f => (g \in Going' <=> g \in Going)
      BY <1>0, <2>1, <2>2, <2>3, TaskAssumption DEF InThread
    <2>5. f \in Going'
      BY <1>0, <2>2
    <2> QED
      BY <1>0, <2>4, <2>5
  <1>6. ASSUME NEW t \in Threads, NEW c \in Frames, Called(t, c)
        PROVE  Going' = Going \cup {c}
    <2>1. /\ cur[t] \in Frames /\ cur' = [cur EXCEPT ![t] = c]
          /\ state' = [state EXCEPT ![cur[t]] = "calling", ![c] = "running"]
          /\ cur[t] # c /\ cur[t] \in Going
      BY <1>1, <1>6, CalleeBegins DEF Called, Await
    <2>2. \A u \in Threads : cur'[u] = IF u = t THEN c ELSE cur[u]
      BY <1>0, <2>1 DEF TypeOK
    <2>3. /\ state'[cur[t]] = "calling"
          /\ \A g \in Frames : g # c /\ g # cur[t] => state'[g] = state[g]
      BY <1>0, <2>1 DEF TypeOK
    <2>4. \A g \in Frames : g # c /\ g # cur[t] => (g \in Going' <=> g \in Going)
      BY <1>0, <2>2, <2>3 DEF InThread
    <2>5. c \in Going' /\ cur[t] \in Going'
      BY <1>0, <2>1, <2>2, <2>3
    <2> QED
      BY <1>0, <2>1, <2>4, <2>5
  <1>7. ASSUME NEW t \in Threads, NEW c \in Frames, Dropped(t, c)
        PROVE  Going' = Going
    BY <1>0, <1>7 DEF Dropped, InThread
  <1>8. ASSUME NEW t \in Threads, Suspend(t) PROVE Going' = Going
    <2>1. /\ cur[t] \in Frames /\ cur[t] # NULL /\ cur' = [cur EXCEPT ![t] = NULL]
          /\ state' = [state EXCEPT ![cur[t]] = "ready"]
      BY <1>1, <1>8 DEF Suspend
    <2>2. \A u \in Threads : cur'[u] = IF u = t THEN NULL ELSE cur[u]
      BY <1>0, <2>1 DEF TypeOK
    <2>3. /\ state'[cur[t]] = "ready"
          /\ \A g \in Frames : g # cur[t] => state'[g] = state[g]
      BY <1>0, <2>1 DEF TypeOK
    <2>4. \A g \in Frames : g # cur[t] => (g \in Going' <=> g \in Going)
      BY <1>0, <2>2, <2>3, TaskAssumption DEF InThread
    <2>5. cur[t] \in Going' /\ cur[t] \in Going
      BY <1>0, <2>1, <2>3 DEF InThread
    <2> QED
      BY <1>0, <2>4, <2>5
  <1>9. ASSUME NEW t \in Threads, Return(t) PROVE Going' = Going
    <2>1. /\ cur[t] \in Frames /\ cur' = cur
          /\ state' = [state EXCEPT ![cur[t]] = "final"]
      BY <1>1, <1>9 DEF Return
    <2>2. \A g \in Frames : g # cur[t] => state'[g] = state[g]
      BY <1>0, <2>1 DEF TypeOK
    <2> QED
      BY <1>0, <2>1, <2>2 DEF InThread
  <1>10. ASSUME NEW t \in Threads, Passed(t) \/ DeleteLocalVar(t)
         PROVE  Going' = Going
    BY <1>0, <1>10 DEF Passed, DeleteLocalVar, InThread
  <1>11. ASSUME NEW t \in Threads, FinalCallee(t) PROVE Going' = Going \ {cur[t]}
    <2> DEFINE f == cur[t]  g == prev[f]
    <2>a. /\ f \in Frames /\ g \in Frames /\ f # g /\ g \in Going
          /\ state[f] = "final"
      BY <1>11, CalleeEnds
    <2>b. cur' = [cur EXCEPT ![t] = g] /\ state' = [state EXCEPT ![g] = "running"]
      BY <1>11 DEF FinalCallee
    <2>1. /\ cur' = [cur EXCEPT ![t] = g] /\ state' = [state EXCEPT ![g] = "running"]
          /\ f \in Frames /\ g \in Frames /\ f # g /\ g \in Going /\ state[f] = "final"
          /\ f # NULL
      BY <1>1, <1>11, <2>a, <2>b DEF FinalCallee
    <2> HIDE DEF g
    <2>2. \A u \in Threads : cur'[u] = IF u = t THEN g ELSE cur[u]
      BY <1>0, <2>1 DEF TypeOK
    <2>3. \A h \in Frames : h # g => state'[h] = state[h]
      BY <1>0, <2>1 DEF TypeOK
    <2>4. \A h \in Frames : h # f /\ h # g => (h \in Going' <=> h \in Going)
      BY <1>0, <2>2, <2>3 DEF InThread
    <2>5. g \in Going'
      BY <1>0, <2>1, <2>2
    <2>6. f \notin Going'
      BY <1>0, <2>1, <2>2, <2>3 DEF ThreadInv
    <2> QED
      BY <1>0, <2>1, <2>4, <2>5, <2>6
  <1>12. ASSUME NEW t \in Threads, Released(t) PROVE Going' = Going \ {cur[t]}
    <2>1. /\ cur[t] \in Frames /\ cur[t] # NULL /\ cur' = [cur EXCEPT ![t] = NULL]
          /\ state[cur[t]] = "final"
      BY <1>0, <1>1, <1>12 DEF Released, ThreadInv, Leaving
    <2>2. \A u \in Threads : cur'[u] = IF u = t THEN NULL ELSE cur[u]
      BY <1>0, <2>1 DEF TypeOK
    <2>3. /\ state'[cur[t]] \in {"final", "destroyed"}
          /\ \A g \in Frames : g # cur[t] => state'[g] = state[g]
      BY <1>0, <1>12, <2>1 DEF TypeOK, Released
    <2>4. \A g \in Frames : g # cur[t] => (g \in Going' <=> g \in Going)
      BY <1>0, <2>2, <2>3, TaskAssumption DEF InThread
    <2>5. cur[t] \notin Going'
      BY <1>0, <2>1, <2>2, <2>3 DEF ThreadInv
    <2> QED
      BY <1>0, <2>4, <2>5
  <1> QED
    BY <1>2, <1>3, <1>4, <1>5, <1>6, <1>7, <1>8, <1>9, <1>10, <1>11, <1>12

-----------------------------------------------------------------------------
LEMMA FrameStep == Inv /\ Move => FrameInv'
  <1> SUFFICES ASSUME Inv, Move PROVE FrameInv'
    OBVIOUS
  <1> USE DEF frameVars, threadVars, ringVars, callVars, localVars, rootVars
  <1>0. TypeOK /\ ThreadInv /\ FrameInv
    BY DEF Inv
  <1>1. ASSUME NEW t \in Threads, pc[t] # "idle"
        PROVE  cur[t] \in Frames /\ cur[t] # NULL
    BY <1>0, <1>1, HasFrame
  <1>2. CASE Quiet
    BY <1>0, <1>2 DEF Quiet, FrameInv
  <1>3. ASSUME NEW f \in Frames, Destroyed(f) PROVE FrameInv'
    BY <1>0, <1>3 DEF Destroyed, Ended, FrameInv, TypeOK
  <1>4. ASSUME NEW f \in Frames, Made(f) PROVE FrameInv'
    BY <1>0, <1>4 DEF Made, FrameInv, TypeOK
  <1>5. ASSUME NEW f \in Frames, Served(f) PROVE FrameInv'
    BY <1>0, <1>5 DEF Served, FrameInv, TypeOK
  <1>6. ASSUME NEW f \in Frames, Committed(f) PROVE FrameInv'
    BY <1>0, <1>6 DEF Committed, FrameInv, TypeOK
  <1>7. ASSUME NEW t \in Threads, NEW f \in Frames, Entered(t, f) PROVE FrameInv'
    <2>1. /\ state' = [state EXCEPT ![f] = "running"] /\ UNCHANGED <<callVars, counted, serving>>
          /\ roots' \subseteq roots \cup {f}
          /\ local_var' = local_var \/ local_var' = [local_var EXCEPT ![f] = f]
          /\ local_vars \subseteq local_vars'
      BY <1>7 DEF Entered, EnterBody
    <2>2. state'[f] = "running" /\ \A g \in Frames : g # f =>
            state'[g] = state[g] /\ local_var'[g] = local_var[g]
      BY <1>0, <2>1 DEF TypeOK
    <2> QED
      BY <1>0, <2>1, <2>2 DEF FrameInv
  <1>8. ASSUME NEW t \in Threads, NEW c \in Frames, Called(t, c) PROVE FrameInv'
    <2> DEFINE f == cur[t]
    <2>1. f \in Frames /\ f # c
      BY <1>8, CalleeBegins
    <2>2. /\ state'[f] = "calling" /\ state'[c] = "running"
          /\ \A g \in Frames : g # f /\ g # c =>
               /\ state'[g] = state[g] /\ held'[g] = held[g]
               /\ callers'[g] = callers[g] /\ local_var'[g] = local_var[g]
          /\ UNCHANGED <<local_vars, serving, counted, roots>>
      BY <1>0, <1>8, <2>1 DEF Called, Await, TypeOK
    <2> HIDE DEF f
    <2> QED
      BY <1>0, <2>1, <2>2 DEF FrameInv
  <1>9. ASSUME NEW t \in Threads, NEW c \in Frames, Dropped(t, c) PROVE FrameInv'
    <2>1. \A g \in Frames : held'[g] \subseteq held[g]
      BY <1>0, <1>9 DEF Dropped, TypeOK
    <2> QED
      BY <1>0, <1>9, <2>1 DEF Dropped, FrameInv
  <1>10. ASSUME NEW t \in Threads, Suspend(t) PROVE FrameInv'
    BY <1>0, <1>10 DEF Suspend, FrameInv, TypeOK
  <1>11. ASSUME NEW t \in Threads, Return(t) PROVE FrameInv'
    BY <1>0, <1>11 DEF Return, FrameInv, TypeOK
  <1>12. ASSUME NEW t \in Threads, FinalCallee(t) PROVE FrameInv'
    <2>1. prev[cur[t]] \in Frames
      BY <1>12, CalleeEnds
    <2>2. /\ \A g \in Frames : g # prev[cur[t]] => state'[g] = state[g]
          /\ state'[prev[cur[t]]] = "running"
          /\ UNCHANGED <<callVars, localVars, counted, roots>>
      BY <1>0, <1>12, <2>1 DEF FinalCallee, TypeOK
    <2> QED
      BY <1>0, <2>2 DEF FrameInv
  <1>13. ASSUME NEW t \in Threads, Passed(t) PROVE FrameInv'
    BY <1>0, <1>13 DEF Passed, FrameInv
  <1>14. ASSUME NEW t \in Threads, DeleteLocalVar(t) PROVE FrameInv'
    <2>1. cur[t] \in Going /\ LocalInv /\ Going \subseteq Frames
      BY <1>0, <1>14, GoingFrames DEF DeleteLocalVar, Inv
    <2>2. local_var[cur[t]] # NULL => local_var[cur[t]] \in roots
      BY <2>1 DEF LocalInv
    <2>3. /\ state' = state /\ \A g \in Frames : local_var'[g] \in {NULL, local_var[g]}
          /\ local_vars' = local_vars \ {local_var[cur[t]]}
          /\ UNCHANGED <<callVars, serving, counted, roots>>
      BY <1>0, <1>14 DEF DeleteLocalVar, TypeOK
    <2> QED
      BY <1>0, <2>2, <2>3 DEF FrameInv
  <1>15. ASSUME NEW t \in Threads, Released(t) PROVE FrameInv'
    <2>1. cur[t] \in Frames /\ state[cur[t]] = "final"
      BY <1>0, <1>1, <1>15 DEF Released, ThreadInv, Leaving
    <2>2. /\ \A g \in Frames : g # cur[t] => state'[g] = state[g]
          /\ state'[cur[t]] \in {"final", "destroyed"}
          /\ UNCHANGED <<callVars, localVars, counted, roots>>
      BY <1>0, <1>15, <2>1 DEF Released, TypeOK
    <2> QED
      BY <1>0, <2>1, <2>2 DEF FrameInv
  <1> QED
    BY <1>2, <1>3, <1>4, <1>5, <1>6, <1>7, <1>8, <1>9, <1>10, <1>11, <1>12,
       <1>13, <1>14, <1>15
    DEF Move

LEMMA HeldStep == Inv /\ Move => HeldInv'
  <1> SUFFICES ASSUME Inv, Move PROVE HeldInv'
    OBVIOUS
  <1> USE DEF frameVars, threadVars, ringVars, callVars, localVars, rootVars, Exists
  <1>0. TypeOK /\ ThreadInv /\ FrameInv /\ HeldInv
    BY DEF Inv
  <1>1. ASSUME NEW t \in Threads, pc[t] # "idle"
        PROVE  cur[t] \in Frames /\ cur[t] # NULL
    BY <1>0, <1>1, HasFrame
  <1>2. CASE Quiet
    BY <1>0, <1>2 DEF Quiet, HeldInv
  <1>3. ASSUME NEW f \in Frames, Destroyed(f) PROVE HeldInv'
    BY <1>0, <1>3 DEF Destroyed, Ended, HeldInv, TypeOK
  <1>4. ASSUME NEW f \in Frames, Made(f) PROVE HeldInv'
    BY <1>0, <1>4 DEF Made, HeldInv, TypeOK
  <1>5. ASSUME NEW f \in Frames, Served(f) PROVE HeldInv'
    BY <1>0, <1>5 DEF Served, HeldInv, TypeOK
  <1>6. ASSUME NEW f \in Frames, Committed(f) PROVE HeldInv'
    BY <1>0, <1>6 DEF Committed, HeldInv, TypeOK
  <1>7. ASSUME NEW t \in Threads, NEW f \in Frames, Entered(t, f) PROVE HeldInv'
    <2>1. /\ state' = [state EXCEPT ![f] = "running"] /\ UNCHANGED callVars
          /\ \/ roots' = roots
             \/ roots' = roots \cup {f} /\ state[f] = "initial"
      BY <1>7 DEF Entered, EnterBody
    <2>2. state'[f] = "running" /\ \A g \in Frames : g # f => state'[g] = state[g]
      BY <1>0, <2>1 DEF TypeOK
    <2> QED
      BY <1>0, <2>1, <2>2 DEF HeldInv
  <1>8. ASSUME NEW t \in Threads, NEW c \in Frames, Called(t, c) PROVE HeldInv'
    <2> DEFINE f == cur[t]
    <2>1. f \in Frames /\ f # c /\ c \notin roots
      BY <1>8, CalleeBegins
    <2>2. /\ state'[f] = "calling" /\ state'[c] = "running"
          /\ \A g \in Frames : g # f /\ g # c => state'[g] = state[g]
          /\ held'[f] = held[f] \cup {c}
          /\ \A g \in Frames : g # f => held'[g] = held[g]
          /\ UNCHANGED roots
      BY <1>0, <1>8, <2>1 DEF Called, Await, TypeOK
    <2>3. \A g \in Frames : c \notin held[g]
      BY <1>0, <1>8 DEF HeldInv, Called
    <2> HIDE DEF f
    <2>4. \A e, g \in Frames : e \in held'[g] =>
            \/ e = c /\ g = f
            \/ e # c /\ e \in held[g]
      BY <2>1, <2>2, <2>3
    <2>5. \A e \in Frames : state'[e] = state[e] \/ state'[e] \in {"calling", "running"}
      BY <2>2
    <2> QED
      BY <1>0, <2>1, <2>2, <2>4, <2>5 DEF HeldInv
  <1>9. ASSUME NEW t \in Threads, NEW c \in Frames, Dropped(t, c) PROVE HeldInv'
    <2>1. \A g \in Frames : held'[g] \subseteq held[g]
      BY <1>0, <1>9 DEF Dropped, TypeOK
    <2> QED
      BY <1>0, <1>9, <2>1 DEF Dropped, HeldInv
  <1>10. ASSUME NEW t \in Threads, Suspend(t) PROVE HeldInv'
    BY <1>0, <1>10 DEF Suspend, HeldInv, TypeOK
  <1>11. ASSUME NEW t \in Threads, Return(t) PROVE HeldInv'
    BY <1>0, <1>11 DEF Return, HeldInv, TypeOK
  <1>12. ASSUME NEW t \in Threads, FinalCallee(t) PROVE HeldInv'
    <2>1. prev[cur[t]] \in Frames
      BY <1>12, CalleeEnds
    <2>2. /\ \A g \in Frames : g # prev[cur[t]] => state'[g] = state[g]
          /\ state'[prev[cur[t]]] = "running"
          /\ UNCHANGED <<callVars, localVars, counted, roots>>
      BY <1>0, <1>12, <2>1 DEF FinalCallee, TypeOK
    <2> QED
      BY <1>0, <2>2 DEF HeldInv
  <1>13. ASSUME NEW t \in Threads, Passed(t) PROVE HeldInv'
    BY <1>0, <1>13 DEF Passed, HeldInv
  <1>14. ASSUME NEW t \in Threads, DeleteLocalVar(t) PROVE HeldInv'
    BY <1>0, <1>14 DEF DeleteLocalVar, HeldInv, TypeOK
  <1>15. ASSUME NEW t \in Threads, Released(t) PROVE HeldInv'
    <2>1. cur[t] \in Frames /\ state[cur[t]] = "final" /\ cur[t] \in roots
      BY <1>0, <1>1, <1>15 DEF Released, ThreadInv, Leaving
    <2>2. /\ \A g \in Frames : g # cur[t] => state'[g] = state[g]
          /\ UNCHANGED <<callVars, localVars, counted, roots>>
      BY <1>0, <1>15, <2>1 DEF Released, TypeOK
    <2> QED
      BY <1>0, <2>1, <2>2 DEF HeldInv
  <1> QED
    BY <1>2, <1>3, <1>4, <1>5, <1>6, <1>7, <1>8, <1>9, <1>10, <1>11, <1>12,
       <1>13, <1>14, <1>15
    DEF Move

-----------------------------------------------------------------------------
(* A step that leaves the rings and what RingInv asks of their frames alone.  *)
LEMMA RingSame ==
  ASSUME TypeOK, RingInv, Going' = Going, UNCHANGED <<ringVars, roots>>,
         \A f \in Frames : state'[f] = "initial" => state[f] = "initial",
         \A f \in Frames : state'[f] = "calling" <=> state[f] = "calling",
         \A f \in Frames : state[f] = "calling" => held'[f] = held[f],
         \A f \in Going : local_var'[f] # local_var[f] =>
           {local_var[f], local_var'[f]} \subseteq {NULL, f} /\ state[f] # "calling"
  PROVE  RingInv'
  <1>1. Going \subseteq Frames
    BY DEF Going
  <1>2. next' = next /\ prev' = prev /\ roots' = roots
    BY DEF ringVars
  <1>3. \A f \in Going : Root(f)' = Root(f)
    BY DEF Root
  <1>4. \A f \in Frames : state'[f] = "initial" => next[f] = f /\ prev[f] = f
    BY DEF RingInv
  <1>5. \A f \in Frames : state'[f] = "calling" =>
          next[f] \in held'[f] \cap Going /\ prev[next[f]] = f
    BY DEF RingInv
  <1>6. \A f \in roots : state'[f] = "calling" =>
          prev[f] \in Going /\ state'[prev[f]] # "calling" /\ local_var'[prev[f]] = f
    BY <1>1, TaskAssumption DEF RingInv, TypeOK
  <1>7. \A f \in Going \ roots :
          prev[f] \in Frames /\ state'[prev[f]] = "calling" /\ next[prev[f]] = f
    BY DEF RingInv
  <1>8. \A f \in Going : state'[f] # "calling" =>
          next[f] = Root(f)' /\ prev[Root(f)'] = f
    BY <1>1, <1>3 DEF RingInv
  <1> QED
    BY <1>2, <1>4, <1>5, <1>6, <1>7, <1>8 DEF RingInv

(* A frame that has not begun and is in no ring becomes a root of its own.    *)
LEMMA RingBegins ==
  ASSUME TypeOK, RingInv, LocalInv, FrameInv, NEW f \in Frames,
         state[f] = "initial", Going' = Going \cup {f}, UNCHANGED <<ringVars, held>>,
         roots' = roots \cup {f}, state'[f] \in {"ready", "running"},
         \A g \in Frames : g # f => state'[g] = state[g] /\ local_var'[g] = local_var[g],
         local_var'[f] \in {NULL, f}, f \notin Going
  PROVE  RingInv'
  <1>1. Going \subseteq Frames
    BY DEF Going
  <1>2. next' = next /\ prev' = prev /\ held' = held
    BY DEF ringVars
  <1>3. \A g \in Going : Root(g)' = Root(g)
    BY <1>1 DEF Root
  <1>4. Root(f)' = f /\ next[f] = f /\ prev[f] = f
    BY DEF Root, RingInv
  <1>5. \A g \in Frames : state'[g] = "initial" => next[g] = g /\ prev[g] = g
    BY DEF RingInv
  <1>6. \A g \in Frames : state'[g] = "calling" =>
          next[g] \in held[g] \cap Going' /\ prev[next[g]] = g
    BY DEF RingInv
  <1>7. \A g \in roots' : state'[g] = "calling" =>
          prev[g] \in Going' /\ state'[prev[g]] # "calling" /\ local_var'[prev[g]] = g
    BY <1>1 DEF RingInv, TypeOK
  <1>8. \A g \in Going' \ roots' :
          prev[g] \in Frames /\ state'[prev[g]] = "calling" /\ next[prev[g]] = g
    BY <1>1 DEF RingInv
  <1>9. \A g \in Going' : state'[g] # "calling" =>
          next[g] = Root(g)' /\ prev[Root(g)'] = g
    BY <1>1, <1>3, <1>4 DEF RingInv
  <1> QED
    BY <1>2, <1>5, <1>6, <1>7, <1>8, <1>9 DEF RingInv

(* link_next: a callee comes between the frame and the root of its chain.     *)
LEMMA RingCalled ==
  ASSUME Inv, NEW t \in Threads, NEW c \in Frames, Called(t, c),
         Going' = Going \cup {c}
  PROVE  RingInv'
  <1> DEFINE f == cur[t]  r == next[cur[t]]
  <1>0. TypeOK /\ RingInv /\ LocalInv /\ HeldInv /\ FrameInv /\ Going \subseteq Frames
    BY DEF Inv, Going
  <1>1. /\ f \in Going /\ f \in Frames /\ state[f] = "running" /\ f # c
        /\ c \notin Going /\ c \notin roots
        /\ r \in Frames /\ r \in Going /\ r \in roots /\ prev[r] = f /\ r # c
        /\ local_var[f] = r /\ local_var[r] = r
    BY CalleeBegins
  <1>2. /\ next'[f] = c /\ next'[c] = r
        /\ \A g \in Frames : g # f /\ g # c => next'[g] = next[g]
    BY <1>0, <1>1 DEF Called, Await, LinkNext, TypeOK
  <1>3. /\ prev'[c] = f /\ prev'[r] = c
        /\ \A g \in Frames : g # c /\ g # r => prev'[g] = prev[g]
    BY <1>0, <1>1 DEF Called, Await, LinkNext, TypeOK
  <1>4. /\ state'[f] = "calling" /\ state'[c] = "running"
        /\ \A g \in Frames : g # f /\ g # c => state'[g] = state[g]
        /\ c \in held'[f] /\ \A g \in Frames : held[g] \subseteq held'[g]
        /\ local_var'[c] = r
        /\ \A g \in Frames : g # c => local_var'[g] = local_var[g]
        /\ roots' = roots
    BY <1>0, <1>1 DEF Called, Await, TypeOK, rootVars
  <1>5. state[c] \in {"none", "initial"} /\ r # NULL
    BY <1>1, TaskAssumption DEF Called
  <1> HIDE DEF f, r
  <1>6. \A g \in Frames : state[g] = "calling" => next[g] # r
    BY <1>0, <1>1 DEF RingInv, HeldInv
  <1>7. \A g \in Frames : state'[g] = "initial" => next'[g] = g /\ prev'[g] = g
    <2> TAKE g \in Frames
    <2> HAVE state'[g] = "initial"
    <2>1. g # f /\ g # c /\ state[g] = "initial"
      BY <1>4
    <2>2. next[g] = g /\ prev[g] = g
      BY <1>0, <2>1 DEF RingInv
    <2>3. g # r
      BY <1>1, <2>1, <2>2
    <2> QED
      BY <1>2, <1>3, <2>1, <2>2, <2>3
  <1>8. \A g \in Frames : state'[g] = "calling" =>
          next'[g] \in held'[g] \cap Going' /\ prev'[next'[g]] = g
    <2> TAKE g \in Frames
    <2> HAVE state'[g] = "calling"
    <2>1. CASE g = f
      BY <1>2, <1>3, <1>4, <2>1
    <2>2. CASE g # f
      <3>1. g # c /\ state[g] = "calling"
        BY <1>4, <2>2
      <3>2. next[g] \in held[g] \cap Going /\ prev[next[g]] = g /\ next[g] # r
        BY <1>0, <1>6, <3>1 DEF RingInv
      <3>3. next[g] \in Frames /\ next[g] # c
        BY <1>0, <1>1, <3>2
      <3> QED
        BY <1>2, <1>3, <1>4, <2>2, <3>1, <3>2, <3>3
    <2> QED
      BY <2>1, <2>2
  <1>9. \A g \in roots : state'[g] = "calling" =>
          prev'[g] \in Going' /\ state'[prev'[g]] # "calling" /\ local_var'[prev'[g]] = g
    <2> TAKE g \in roots
    <2> HAVE state'[g] = "calling"
    <2>1. CASE g = r
      BY <1>3, <1>4, <2>1
    <2>2. CASE g # r
      <3>1. g \in Frames /\ g # c /\ g # f
        BY <1>0, <1>1, <2>2 DEF LocalInv, TypeOK
      <3>2. state[g] = "calling" /\ prev'[g] = prev[g]
        BY <1>3, <1>4, <2>2, <3>1
      <3>3. prev[g] \in Going /\ state[prev[g]] # "calling" /\ local_var[prev[g]] = g
        BY <1>0, <3>2 DEF RingInv
      <3>4. prev[g] # f /\ prev[g] # c /\ prev[g] \in Frames
        BY <1>0, <1>1, <2>2, <3>3
      <3> QED
        BY <1>4, <3>2, <3>3, <3>4
    <2> QED
      BY <2>1, <2>2
  <1>10. \A g \in Going' \ roots :
           prev'[g] \in Frames /\ state'[prev'[g]] = "calling" /\ next'[prev'[g]] = g
    <2> TAKE g \in Going' \ roots
    <2>1. CASE g = c
      BY <1>1, <1>2, <1>3, <1>4, <2>1
    <2>2. CASE g # c
      <3>1. g \in Going \ roots /\ g \in Frames /\ g # r
        BY <1>0, <1>1, <2>2
      <3>2. prev[g] \in Frames /\ state[prev[g]] = "calling" /\ next[prev[g]] = g
        BY <1>0, <3>1 DEF RingInv
      <3>3. prev[g] # f /\ prev[g] # c
        BY <1>1, <1>5, <3>2
      <3> QED
        BY <1>2, <1>3, <1>4, <2>2, <3>1, <3>2, <3>3
    <2> QED
      BY <2>1, <2>2
  <1>11. \A g \in Going' : state'[g] # "calling" =>
           next'[g] = Root(g)' /\ prev'[Root(g)'] = g
    <2> TAKE g \in Going'
    <2> HAVE state'[g] # "calling"
    <2>1. CASE g = c
      BY <1>2, <1>3, <1>4, <1>5, <2>1 DEF Root
    <2>2. CASE g # c
      <3>1. g \in Going /\ g \in Frames /\ g # f
        BY <1>0, <1>4, <2>2
      <3>2. state[g] # "calling" /\ Root(g)' = Root(g)
        BY <1>4, <2>2, <3>1 DEF Root
      <3>3. next[g] = Root(g) /\ prev[Root(g)] = g
        BY <1>0, <3>1, <3>2 DEF RingInv
      <3>4. Root(g) \in Frames /\ Root(g) # c /\ Root(g) # r
        BY <1>0, <1>1, <2>2, <3>1, <3>3 DEF Root, LocalInv, TypeOK
      <3> QED
        BY <1>2, <1>3, <2>2, <3>1, <3>2, <3>3, <3>4
    <2> QED
      BY <2>1, <2>2
  <1> QED
    BY <1>4, <1>7, <1>8, <1>9, <1>10, <1>11 DEF RingInv

(* remove_self: the caller and the root of the chain are linked again.        *)
LEMMA RingReturned ==
  ASSUME Inv, NEW t \in Threads, FinalCallee(t), Going' = Going \ {cur[t]}
  PROVE  RingInv'
  <1> DEFINE f == cur[t]  g == prev[cur[t]]  r == next[cur[t]]
  <1>0. TypeOK /\ RingInv /\ LocalInv /\ HeldInv /\ FrameInv /\ Going \subseteq Frames
    BY DEF Inv, Going
  <1>1. /\ f \in Going /\ f \in Frames /\ f \notin roots /\ state[f] = "final"
        /\ g \in Frames /\ g \in Going /\ state[g] = "calling" /\ next[g] = f /\ g # f
        /\ r \in Frames /\ r \in Going /\ r \in roots /\ prev[r] = f /\ r # f
        /\ local_var[f] = r /\ local_var[g] = r /\ local_var[r] = r
    BY CalleeEnds
  <1>2. /\ next'[g] = r
        /\ \A h \in Frames : h # f /\ h # g => next'[h] = next[h]
    BY <1>0, <1>1 DEF FinalCallee, RemoveSelf, TypeOK
  <1>3. /\ prev'[r] = g
        /\ \A h \in Frames : h # f /\ h # r => prev'[h] = prev[h]
    BY <1>0, <1>1 DEF FinalCallee, RemoveSelf, TypeOK
  <1>4. /\ state' = [state EXCEPT ![g] = "running"]
        /\ UNCHANGED <<held, local_var, roots>>
    BY DEF FinalCallee, callVars, localVars, rootVars
  <1>5. /\ state'[g] = "running"
        /\ \A h \in Frames : h # g => state'[h] = state[h]
    BY <1>0, <1>1, <1>4 DEF TypeOK
  <1>6. r # NULL
    BY <1>1, TaskAssumption
  <1>7. prev[f] = g
    OBVIOUS
  <1>8. Going' = Going \ {f}
    OBVIOUS
  <1> HIDE DEF f, g, r
  <1>9. \A h \in Frames : state'[h] = "initial" => next'[h] = h /\ prev'[h] = h
    <2> TAKE h \in Frames
    <2> HAVE state'[h] = "initial"
    <2>1. h # g /\ h # f /\ state[h] = "initial"
      BY <1>1, <1>5
    <2>2. next[h] = h /\ prev[h] = h
      BY <1>0, <2>1 DEF RingInv
    <2>3. h # r
      BY <1>1, <2>2
    <2> QED
      BY <1>2, <1>3, <2>1, <2>2, <2>3
  <1>10. \A h \in Frames : state'[h] = "calling" =>
           next'[h] \in held'[h] \cap Going' /\ prev'[next'[h]] = h
    <2> TAKE h \in Frames
    <2> HAVE state'[h] = "calling"
    <2>1. h # g /\ h # f /\ state[h] = "calling"
      BY <1>1, <1>5
    <2>2. next[h] \in held[h] \cap Going /\ prev[next[h]] = h
      BY <1>0, <2>1 DEF RingInv
    <2>3. next[h] \in Frames /\ next[h] # f /\ next[h] # r
      BY <1>0, <1>1, <1>7, <2>1, <2>2 DEF HeldInv
    <2> QED
      BY <1>2, <1>3, <1>4, <1>8, <2>1, <2>2, <2>3
  <1>11. \A h \in roots : state'[h] = "calling" =>
           prev'[h] \in Going' /\ state'[prev'[h]] # "calling" /\ local_var[prev'[h]] = h
    <2> TAKE h \in roots
    <2> HAVE state'[h] = "calling"
    <2>1. CASE h = r
      BY <1>1, <1>3, <1>5, <1>8, <2>1
    <2>2. CASE h # r
      <3>1. h \in Frames /\ h # f /\ h # g /\ state[h] = "calling"
        BY <1>0, <1>1, <1>5 DEF TypeOK
      <3>2. prev'[h] = prev[h]
        BY <1>3, <2>2, <3>1
      <3>3. prev[h] \in Going /\ state[prev[h]] # "calling" /\ local_var[prev[h]] = h
        BY <1>0, <3>1 DEF RingInv
      <3>4. prev[h] # f /\ prev[h] # g /\ prev[h] \in Frames
        BY <1>0, <1>1, <2>2, <3>3
      <3> QED
        BY <1>5, <1>8, <3>2, <3>3, <3>4
    <2> QED
      BY <2>1, <2>2
  <1>12. \A h \in Going' \ roots :
           prev'[h] \in Frames /\ state'[prev'[h]] = "calling" /\ next'[prev'[h]] = h
    <2> TAKE h \in Going' \ roots
    <2>1. h \in Going \ roots /\ h \in Frames /\ h # f /\ h # r
      BY <1>0, <1>1, <1>8
    <2>2. prev[h] \in Frames /\ state[prev[h]] = "calling" /\ next[prev[h]] = h
      BY <1>0, <2>1 DEF RingInv
    <2>3. prev[h] # g /\ prev[h] # f
      BY <1>1, <2>1, <2>2
    <2> QED
      BY <1>2, <1>3, <1>5, <2>1, <2>2, <2>3
  <1>13. \A h \in Going' : state'[h] # "calling" =>
           next'[h] = Root(h) /\ prev'[Root(h)] = h
    <2> TAKE h \in Going'
    <2> HAVE state'[h] # "calling"
    <2>1. CASE h = g
      BY <1>1, <1>2, <1>3, <1>6, <2>1 DEF Root
    <2>2. CASE h # g
      <3>1. h \in Going /\ h \in Frames /\ h # f /\ state[h] # "calling"
        BY <1>0, <1>5, <1>8, <2>2
      <3>2. next[h] = Root(h) /\ prev[Root(h)] = h
        BY <1>0, <3>1 DEF RingInv
      <3>3. Root(h) \in Frames /\ Root(h) # f /\ Root(h) # r
        BY <1>0, <1>1, <3>1, <3>2 DEF Root, LocalInv, TypeOK
      <3> QED
        BY <1>2, <1>3, <2>2, <3>1, <3>2, <3>3
    <2> QED
      BY <2>1, <2>2
  <1>14. \A h : Root(h)' = Root(h)
    BY <1>4 DEF Root
  <1> QED
    BY <1>4, <1>9, <1>10, <1>11, <1>12, <1>13, <1>14 DEF RingInv

LEMMA RingStep == Inv /\ Move /\ TypeOK' /\ ThreadInv' => RingInv'
  <1> SUFFICES ASSUME Inv, Move, TypeOK', ThreadInv' PROVE RingInv'
    OBVIOUS
  <1> USE DEF frameVars, threadVars, callVars, localVars, rootVars
  <1>0. /\ TypeOK /\ ThreadInv /\ FrameInv /\ HeldInv /\ RingInv /\ LocalInv
        /\ Going \subseteq Frames
    BY DEF Inv, Going
  <1>1. ASSUME NEW t \in Threads, pc[t] # "idle"
        PROVE  cur[t] \in Frames /\ cur[t] # NULL /\ cur[t] \in Going
    BY <1>0, <1>1, HasFrame, GoingFrames
  <1>2. CASE Quiet
    BY <1>0, <1>2, GoingStep, RingSame DEF Quiet
  <1>3. ASSUME NEW f \in Frames, Destroyed(f) PROVE RingInv'
    <2>1. Going' = Going
      BY <1>3, GoingStep
    <2>2. \A g \in Frames : g # f => state'[g] = state[g]
      BY <1>0, <1>3 DEF Destroyed, TypeOK
    <2>3. state[f] = "final" /\ state'[f] = "destroyed"
      BY <1>0, <1>3 DEF Destroyed, Ended, TypeOK
    <2>4. UNCHANGED <<ringVars, held, local_var, roots>>
      BY <1>3 DEF Destroyed
    <2> QED
      BY <1>0, <2>1, <2>2, <2>3, <2>4, RingSame
  <1>4. ASSUME NEW f \in Frames, Made(f) PROVE RingInv'
    <2>1. Going' = Going /\ f \notin Going /\ f \notin roots
      BY <1>0, <1>4, GoingStep, GoingFrames DEF Made, FrameInv
    <2>2. /\ state'[f] = "initial" /\ next'[f] = f /\ prev'[f] = f
          /\ \A g \in Frames : g # f =>
               state'[g] = state[g] /\ next'[g] = next[g] /\ prev'[g] = prev[g]
          /\ UNCHANGED <<held, local_var, roots>>
      BY <1>0, <1>4 DEF Made, TypeOK
    <2>3. state[f] = "none"
      BY <1>4 DEF Made
    <2>4. \A g : Root(g)' = Root(g)
      BY <2>2 DEF Root
    <2>5. \A g \in Frames : state'[g] = "initial" => next'[g] = g /\ prev'[g] = g
      BY <1>0, <2>2 DEF RingInv
    <2>6. \A g \in Frames : state'[g] = "calling" =>
            next'[g] \in held'[g] \cap Going' /\ prev'[next'[g]] = g
      BY <1>0, <2>1, <2>2 DEF RingInv
    <2>7. \A g \in roots : state'[g] = "calling" =>
            prev'[g] \in Going' /\ state'[prev'[g]] # "calling" /\ local_var'[prev'[g]] = g
      BY <1>0, <2>1, <2>2 DEF RingInv, TypeOK
    <2>8. \A g \in Going' \ roots :
            prev'[g] \in Frames /\ state'[prev'[g]] = "calling" /\ next'[prev'[g]] = g
      BY <1>0, <2>1, <2>2, <2>3 DEF RingInv
    <2>9. \A g \in Going : Root(g) \in Frames /\ Root(g) # f
      BY <1>0, <2>1 DEF Root, LocalInv, TypeOK
    <2>10. \A g \in Going' : state'[g] # "calling" =>
             next'[g] = Root(g) /\ prev'[Root(g)] = g
      BY <1>0, <2>1, <2>2, <2>9 DEF RingInv
    <2> QED
      BY <2>2, <2>4, <2>5, <2>6, <2>7, <2>8, <2>10 DEF RingInv
  <1>5. ASSUME NEW f \in Frames, Served(f) PROVE RingInv'
    <2>1. Going' = Going /\ f \notin Going
      BY <1>0, <1>5, GoingStep, GoingFrames DEF Served, ThreadInv
    <2>2. /\ \A g \in Frames : g # f => local_var'[g] = local_var[g]
          /\ UNCHANGED <<ringVars, state, held, roots>>
      BY <1>0, <1>5 DEF Served, TypeOK
    <2> QED
      BY <1>0, <2>1, <2>2, RingSame
  <1>6. ASSUME NEW f \in Frames, Committed(f) PROVE RingInv'
    <2>1. Going' = Going \cup {f} /\ f \notin Going
      BY <1>0, <1>6, GoingStep, GoingFrames DEF Committed
    <2>2. /\ \A g \in Frames : g # f => state'[g] = state[g]
          /\ state[f] = "initial" /\ state'[f] = "ready"
          /\ UNCHANGED <<ringVars, local_var, held>> /\ roots' = roots \cup {f}
      BY <1>0, <1>6 DEF Committed, TypeOK
    <2>3. local_var[f] \in {NULL, f}
      BY <1>0, <2>2 DEF FrameInv
    <2> QED
      BY <1>0, <2>1, <2>2, <2>3, RingBegins
  <1>7. ASSUME NEW t \in Threads, NEW f \in Frames, Entered(t, f) PROVE RingInv'
    <2>1. /\ \A g \in Frames : g # f => state'[g] = state[g] /\ local_var'[g] = local_var[g]
          /\ state'[f] = "running"
          /\ local_var'[f] = IF local_var[f] = NULL THEN f ELSE local_var[f]
          /\ UNCHANGED <<ringVars, held>> /\ Going' = Going \cup {f}
      BY <1>0, <1>7, GoingStep, EnterChanges DEF Entered
    <2>2. CASE state[f] = "initial"
      <3>1. f \notin Going /\ local_var'[f] = f
        BY <1>0, <2>1, <2>2, GoingFrames DEF FrameInv
      <3>2. roots' = roots \cup {f}
        BY <1>7, <2>2 DEF Entered
      <3> QED
        BY <1>0, <2>1, <2>2, <3>1, <3>2, RingBegins
    <2>3. CASE state[f] = "ready" /\ roots' = roots
      <3>1. f \in Going /\ Going' = Going
        BY <1>0, <2>1, <2>3, GoingFrames
      <3> QED
        BY <1>0, <2>1, <2>3, <3>1, RingSame
    <2> QED
      BY <1>7, <2>2, <2>3 DEF Entered
  <1>8. ASSUME NEW t \in Threads, NEW c \in Frames, Called(t, c) PROVE RingInv'
    BY <1>8, GoingStep, RingCalled
  <1>9. ASSUME NEW t \in Threads, NEW c \in Frames, Dropped(t, c) PROVE RingInv'
    <2>1. state[cur[t]] = "running" /\ Going' = Going
      BY <1>0, <1>9, GoingStep DEF Dropped, ThreadInv
    <2>2. \A g \in Frames : g # cur[t] => held'[g] = held[g]
      BY <1>0, <1>9 DEF Dropped, TypeOK
    <2>3. UNCHANGED <<ringVars, state, local_var, roots>>
      BY <1>9 DEF Dropped
    <2> QED
      BY <1>0, <2>1, <2>2, <2>3, RingSame
  <1>10. ASSUME NEW t \in Threads, Suspend(t) \/ Return(t) PROVE RingInv'
    <2>1. state[cur[t]] = "running" /\ Going' = Going
      BY <1>0, <1>10, GoingStep DEF Suspend, Return, ThreadInv
    <2>2. state'[cur[t]] \in {"ready", "final"} \/ cur[t] \notin Frames
      BY <1>0, <1>10 DEF Suspend, Return, TypeOK
    <2>3. \A g \in Frames : g # cur[t] => state'[g] = state[g]
      BY <1>0, <1>10 DEF Suspend, Return, TypeOK
    <2>4. UNCHANGED <<ringVars, held, local_var, roots>>
      BY <1>10 DEF Suspend, Return
    <2> QED
      BY <1>0, <2>1, <2>2, <2>3, <2>4, RingSame
  <1>11. ASSUME NEW t \in Threads, FinalCallee(t) PROVE RingInv'
    BY <1>11, GoingStep, RingReturned
  <1>12. ASSUME NEW t \in Threads, Passed(t) PROVE RingInv'
    BY <1>0, <1>12, GoingStep, RingSame DEF Passed
  <1>13. ASSUME NEW t \in Threads, DeleteLocalVar(t) PROVE RingInv'
    <2>1. /\ cur[t] \in Going \cap roots /\ state[cur[t]] = "final" /\ Going' = Going
          /\ cur[t] \in Frames
      BY <1>0, <1>1, <1>13, GoingStep DEF DeleteLocalVar, ThreadInv, Leaving
    <2>2. /\ local_var'[cur[t]] = NULL /\ local_var[cur[t]] \in {NULL, cur[t]}
          /\ \A g \in Frames : g # cur[t] => local_var'[g] = local_var[g]
      BY <1>0, <1>13, <2>1 DEF DeleteLocalVar, LocalInv, TypeOK
    <2>3. UNCHANGED <<ringVars, held, state, roots>>
      BY <1>13 DEF DeleteLocalVar
    <2> QED
      BY <1>0, <2>1, <2>2, <2>3, RingSame
  <1>14. ASSUME NEW t \in Threads, Released(t) PROVE RingInv'
    <2> DEFINE f == cur[t]
    <2>1. /\ f \in Going \cap roots /\ state[f] = "final" /\ Going' = Going \ {f}
          /\ f \in Frames
      BY <1>0, <1>1, <1>14, GoingStep DEF Released, ThreadInv, Leaving
    <2>2. /\ state'[f] \in {"final", "destroyed"}
          /\ \A g \in Frames : g # f => state'[g] = state[g]
          /\ next' = next /\ prev' = prev /\ held' = held
          /\ local_var' = local_var /\ roots' = roots
      BY <1>0, <1>14, <2>1 DEF Released, TypeOK, ringVars
    <2>3. \A g : Root(g)' = Root(g)
      BY <2>2 DEF Root
    <2>4. local_var[f] \in {NULL, f}
      BY <1>0, <2>1 DEF LocalInv
    <2> HIDE DEF f
    <2>5. \A g \in Frames : state'[g] = "initial" => next[g] = g /\ prev[g] = g
      BY <1>0, <2>2 DEF RingInv
    <2>6. \A g \in Frames : state'[g] = "calling" =>
            next[g] \in held[g] \cap Going' /\ prev[next[g]] = g
      BY <1>0, <2>1, <2>2 DEF RingInv, HeldInv
    <2>7. \A g \in roots : state'[g] = "calling" =>
            prev[g] \in Going' /\ state'[prev[g]] # "calling" /\ local_var[prev[g]] = g
      BY <1>0, <2>1, <2>2, <2>4, TaskAssumption DEF RingInv, TypeOK
    <2>8. \A g \in Going' \ roots :
            prev[g] \in Frames /\ state'[prev[g]] = "calling" /\ next[prev[g]] = g
      BY <1>0, <2>1, <2>2 DEF RingInv
    <2>9. \A g \in Going' : state'[g] # "calling" =>
            next[g] = Root(g) /\ prev[Root(g)] = g
      BY <1>0, <2>1, <2>2 DEF RingInv
    <2> QED
      BY <2>2, <2>3, <2>5, <2>6, <2>7, <2>8, <2>9 DEF RingInv
  <1> QED
    BY <1>2, <1>3, <1>4, <1>5, <1>6, <1>7, <1>8, <1>9, <1>10, <1>11, <1>12,
       <1>13, <1>14
    DEF Move

-----------------------------------------------------------------------------
(* A step that leaves the variables alone and ends no frame that has some.    *)
LEMMA LocalSame ==
  ASSUME TypeOK, LocalInv, UNCHANGED <<localVars, roots>>, Going' \subseteq Going,
         \A f \in Going \cap local_vars : f \in Going',
         \A f \in Going' \ roots : prev'[f] = prev[f],
         \A f \in Frames : state'[f] \in {"running", "calling"} => local_var[f] # NULL,
         \A f \in Frames : state[f] = "initial" => state'[f] = "initial",
         \A t \in Threads :
           /\ pc'[t] \in {"final", "tell", "delete"} => local_var[cur'[t]] # NULL
           /\ pc'[t] = "release" => local_var[cur'[t]] = NULL
  PROVE  LocalInv'
  <1>1. /\ local_var' = local_var /\ local_vars' = local_vars
        /\ serving' = serving /\ roots' = roots
    BY DEF localVars
  <1>2. \A f \in local_vars : f \in Frames
    BY DEF TypeOK
  <1>3. \A f \in Going' :
          local_var[f] # NULL => local_var[f] \in local_vars \cap roots
    BY DEF LocalInv
  <1>4. \A f \in Going' \ roots :
          local_var[f] # NULL /\ local_var[f] = local_var[prev'[f]]
    BY DEF LocalInv
  <1>5. \A f \in Going' \cap roots : local_var[f] \in {NULL, f}
    BY DEF LocalInv
  <1>6. \A f \in local_vars :
          /\ local_var[f] = f
          /\ \/ f \in Going' \cap roots
             \/ state'[f] = "initial" /\ f \in serving
    BY <1>2 DEF LocalInv
  <1> QED
    BY <1>1, <1>3, <1>4, <1>5, <1>6 DEF LocalInv

(* Frame f becomes a root that uses its own variables, or has none yet.       *)
LEMMA LocalRoot ==
  ASSUME Inv, NEW f \in Frames, state[f] \in {"initial", "ready"},
         Going' = Going \cup {f}, roots' = roots \cup {f},
         UNCHANGED <<prev, serving>>,
         \A g \in Frames : g # f => state'[g] = state[g] /\ local_var'[g] = local_var[g],
         \/ local_var'[f] = f /\ local_vars' = local_vars \cup {f}
         \/ local_var'[f] = NULL /\ local_vars' = local_vars /\ f \notin local_vars,
         state'[f] \in {"running", "calling"} => local_var'[f] # NULL,
         \A t \in Threads :
           pc'[t] \notin {"idle", "body"} => pc'[t] = pc[t] /\ cur'[t] = cur[t]
  PROVE  LocalInv'
  <1>1. TypeOK /\ ThreadInv /\ RingInv /\ LocalInv /\ Going \subseteq Frames
    BY DEF Inv, Going
  <1>2. \A t \in Threads : pc'[t] \notin {"idle", "body"} =>
          cur[t] \in Frames /\ cur[t] # f
    BY <1>1, HasFrame DEF ThreadInv, TypeOK, ThreadPC, Leaving
  <1>3. \A g \in Going' :
          local_var'[g] # NULL => local_var'[g] \in local_vars' \cap roots'
    BY <1>1 DEF LocalInv
  <1>4. \A g \in Going' \ roots' :
          local_var'[g] # NULL /\ local_var'[g] = local_var'[prev[g]]
    <2> TAKE g \in Going' \ roots'
    <2>1. g \in Going \ roots /\ g # f /\ g \in Frames
      BY <1>1
    <2>2. prev[g] \in Frames /\ state[prev[g]] = "calling"
      BY <1>1, <2>1 DEF RingInv
    <2> QED
      BY <1>1, <2>1, <2>2 DEF LocalInv
  <1>5. \A g \in Going' \cap roots' : local_var'[g] \in {NULL, g}
    BY <1>1 DEF LocalInv
  <1>6. \A g \in Frames :
          state'[g] \in {"running", "calling"} => local_var'[g] # NULL
    BY <1>1 DEF LocalInv
  <1>7. \A t \in Threads :
          /\ pc'[t] \in {"final", "tell", "delete"} => local_var'[cur'[t]] # NULL
          /\ pc'[t] = "release" => local_var'[cur'[t]] = NULL
    BY <1>1, <1>2 DEF LocalInv
  <1>8. \A g \in local_vars' :
          /\ local_var'[g] = g
          /\ \/ g \in Going' \cap roots'
             \/ state'[g] = "initial" /\ g \in serving
    BY <1>1 DEF LocalInv, TypeOK
  <1> QED
    BY <1>3, <1>4, <1>5, <1>6, <1>7, <1>8 DEF LocalInv

LEMMA LocalStep == Inv /\ Move /\ TypeOK' /\ ThreadInv' => LocalInv'
  <1> SUFFICES ASSUME Inv, Move, TypeOK', ThreadInv' PROVE LocalInv'
    OBVIOUS
  <1> USE DEF frameVars, threadVars, callVars, ringVars, rootVars
  <1>0. /\ TypeOK /\ ThreadInv /\ FrameInv /\ RingInv /\ LocalInv /\ CallersInv
        /\ Going \subseteq Frames /\ local_vars \subseteq Frames
    BY DEF Inv, Going, TypeOK
  <1>1. ASSUME NEW t \in Threads, pc[t] # "idle"
        PROVE  cur[t] \in Frames /\ cur[t] # NULL /\ cur[t] \in Going
    BY <1>0, <1>1, HasFrame, GoingFrames
  <1>2. ASSUME NEW t \in Threads
        PROVE  /\ pc[t] \in {"final", "tell", "delete"} => local_var[cur[t]] # NULL
               /\ pc[t] = "release" => local_var[cur[t]] = NULL
    BY <1>0 DEF LocalInv
  <1>3. \A f \in Frames : state[f] \in {"running", "calling"} => local_var[f] # NULL
    BY <1>0 DEF LocalInv
  <1>4. CASE Quiet
    BY <1>0, <1>2, <1>3, <1>4, GoingStep, LocalSame DEF Quiet
  <1>5. ASSUME NEW f \in Frames, Destroyed(f) PROVE LocalInv'
    <2>1. Going' = Going /\ UNCHANGED <<localVars, roots, pc, cur, prev>>
      BY <1>5, GoingStep DEF Destroyed
    <2>2. state[f] = "final" /\ state'[f] = "destroyed"
          /\ \A g \in Frames : g # f => state'[g] = state[g]
      BY <1>0, <1>5 DEF Destroyed, Ended, TypeOK
    <2> QED
      BY <1>0, <1>2, <1>3, <2>1, <2>2, LocalSame
  <1>6. ASSUME NEW f \in Frames, Made(f) PROVE LocalInv'
    <2>1. Going' = Going /\ UNCHANGED <<localVars, roots, pc, cur>> /\ f \notin Going
      BY <1>0, <1>6, GoingStep, GoingFrames DEF Made
    <2>2. /\ state[f] = "none" /\ state'[f] = "initial"
          /\ \A g \in Frames : g # f => state'[g] = state[g] /\ prev'[g] = prev[g]
      BY <1>0, <1>6 DEF Made, TypeOK
    <2> QED
      BY <1>0, <1>2, <1>3, <2>1, <2>2, LocalSame
  <1>7. ASSUME NEW f \in Frames, Served(f) PROVE LocalInv'
    <2>1. /\ Going' = Going /\ state[f] = "initial" /\ f \notin Going
          /\ UNCHANGED <<threadVars, state, ringVars, roots>>
          /\ local_vars' = local_vars \cup {f} /\ serving' = serving \cup {f}
      BY <1>0, <1>7, GoingStep, GoingFrames DEF Served, ThreadInv
    <2>2. local_var'[f] = f /\ \A g \in Frames : g # f => local_var'[g] = local_var[g]
      BY <1>0, <1>7 DEF Served, TypeOK
    <2>3. \A g \in Going : local_var'[g] # NULL => local_var'[g] \in local_vars' \cap roots
      BY <1>0, <2>1, <2>2 DEF LocalInv
    <2>4. \A g \in Going \ roots :
            local_var'[g] # NULL /\ local_var'[g] = local_var'[prev[g]]
      BY <1>0, <2>1, <2>2 DEF LocalInv, RingInv
    <2>5. \A g \in Going \cap roots : local_var'[g] \in {NULL, g}
      BY <1>0, <2>1, <2>2 DEF LocalInv
    <2>6. \A t \in Threads : cur[t] # f /\ (pc[t] # "idle" => cur[t] \in Frames)
      BY <1>0, <1>1, <2>1, TaskAssumption DEF ThreadInv
    <2>7. \A t \in Threads :
            /\ pc[t] \in {"final", "tell", "delete"} => local_var'[cur[t]] # NULL
            /\ pc[t] = "release" => local_var'[cur[t]] = NULL
      BY <1>2, <2>2, <2>6
    <2>8. \A g \in Frames : state[g] \in {"running", "calling"} => local_var'[g] # NULL
      BY <1>3, <2>1, <2>2
    <2>9. \A g \in local_vars' :
            /\ local_var'[g] = g
            /\ g \in Going \cap roots \/ (state[g] = "initial" /\ g \in serving')
      <3> TAKE g \in local_vars'
      <3>1. CASE g = f
        BY <2>1, <2>2, <3>1
      <3>2. CASE g # f
        <4>1. g \in local_vars /\ g \in Frames
          BY <1>0, <2>1, <3>2
        <4>2. /\ local_var[g] = g
              /\ g \in Going \cap roots \/ (state[g] = "initial" /\ g \in serving)
          BY <1>0, <4>1 DEF LocalInv
        <4> QED
          BY <2>1, <2>2, <3>2, <4>1, <4>2
      <3> QED
        BY <3>1, <3>2
    <2> QED
      BY <2>1, <2>3, <2>4, <2>5, <2>7, <2>8, <2>9 DEF LocalInv
  <1>8. ASSUME NEW f \in Frames, Committed(f) PROVE LocalInv'
    <2>1. Going' = Going \cup {f} /\ roots' = roots \cup {f} /\ state[f] = "initial"
          /\ UNCHANGED <<threadVars, prev, localVars>>
      BY <1>8, GoingStep DEF Committed
    <2>2. state'[f] = "ready" /\ \A g \in Frames : g # f => state'[g] = state[g]
      BY <1>0, <1>8 DEF Committed, TypeOK
    <2>3. \/ local_var[f] = f /\ f \in local_vars
          \/ local_var[f] = NULL /\ f \notin local_vars
      BY <1>0, <2>1, TaskAssumption DEF FrameInv, LocalInv
    <2>4. serving' = serving /\ local_var' = local_var /\ local_vars' = local_vars
      BY <2>1 DEF localVars
    <2>5. local_vars' = local_vars \cup {f} \/ f \notin local_vars
      BY <2>4
    <2> QED
      BY <2>1, <2>2, <2>3, <2>4, <2>5, LocalRoot
  <1>9. ASSUME NEW t \in Threads, NEW f \in Frames, Entered(t, f) PROVE LocalInv'
    <2>1. /\ Going' = Going \cup {f} /\ UNCHANGED <<prev, serving>>
          /\ state[f] \in {"initial", "ready"} /\ state'[f] = "running"
          /\ \A g \in Frames : g # f => state'[g] = state[g] /\ local_var'[g] = local_var[g]
          /\ \A u \in Threads : IF u = t THEN pc'[u] = "body"
                                         ELSE pc'[u] = pc[u] /\ cur'[u] = cur[u]
      <3>1. \A u \in Threads : IF u = t THEN pc'[u] = "body"
                                         ELSE pc'[u] = pc[u] /\ cur'[u] = cur[u]
        BY <1>0, <1>9 DEF Entered, EnterBody, TypeOK
      <3>2. UNCHANGED <<prev, serving>>
        BY <1>9 DEF Entered, EnterBody
      <3> QED
        BY <1>0, <1>9, <3>1, <3>2, GoingStep, EnterChanges
    <2>2. CASE local_var[f] = NULL
      <3>1. local_var'[f] = f /\ local_vars' = local_vars \cup {f}
        BY <1>0, <1>9, <2>2 DEF Entered, EnterBody, TypeOK
      <3>2. roots' = roots \cup {f}
        BY <1>0, <1>9, <2>2, GoingFrames DEF Entered, LocalInv
      <3>3. local_var'[f] # NULL
        BY <3>1, TaskAssumption
      <3> QED
        BY <2>1, <3>1, <3>2, <3>3, LocalRoot
    <2>3. CASE local_var[f] # NULL
      <3>1. state[f] = "ready" /\ roots' = roots /\ UNCHANGED localVars
        BY <1>0, <1>9, <2>3 DEF Entered, EnterBody, FrameInv, localVars
      <3>2. Going' = Going
        BY <1>0, <2>1, <3>1, GoingFrames
      <3>3. \A u \in Threads :
              /\ pc'[u] \in {"final", "tell", "delete"} => local_var[cur'[u]] # NULL
              /\ pc'[u] = "release" => local_var[cur'[u]] = NULL
        BY <1>2, <2>1
      <3> QED
        BY <1>0, <1>3, <2>1, <2>3, <3>1, <3>2, <3>3, LocalSame
    <2> QED
      BY <2>2, <2>3
  <1>10. ASSUME NEW t \in Threads, NEW c \in Frames, Called(t, c) PROVE LocalInv'
    <2> DEFINE f == cur[t]  r == next[cur[t]]
    <2>1. /\ f \in Going /\ f \in Frames /\ f # c /\ c \notin Going /\ c \notin roots
          /\ r \in roots /\ local_var[f] = r /\ local_var[r] = r /\ c \notin local_vars
          /\ r \in Frames /\ state[c] \in {"none", "initial"} /\ r # c
      BY <1>10, CalleeBegins DEF Called
    <2>a. /\ prev'[c] = f /\ \A g \in Frames : g # c /\ g # r => prev'[g] = prev[g]
      BY <1>0, <1>10, <2>1 DEF Called, Await, LinkNext, TypeOK
    <2>b. /\ \A g \in Frames : g # f /\ g # c => state'[g] = state[g]
          /\ state'[f] = "calling"
      BY <1>0, <1>10, <2>1 DEF Called, Await, TypeOK
    <2>c. /\ local_var'[c] = r /\ \A g \in Frames : g # c => local_var'[g] = local_var[g]
          /\ UNCHANGED <<local_vars, serving, roots, pc>>
          /\ \A u \in Threads : u # t => cur'[u] = cur[u]
      BY <1>0, <1>10, <2>1 DEF Called, Await, TypeOK
    <2>d. pc[t] = "body" /\ state[f] = "running" /\ Going' = Going \cup {c}
      BY <1>0, <1>10, GoingStep DEF Called, ThreadInv
    <2>2. /\ local_var'[c] = r /\ prev'[c] = f /\ Going' = Going \cup {c}
          /\ \A g \in Frames : g # c => local_var'[g] = local_var[g]
          /\ \A g \in Frames : g # c /\ g # r => prev'[g] = prev[g]
          /\ \A g \in Frames : g # f /\ g # c => state'[g] = state[g]
          /\ UNCHANGED <<local_vars, serving, roots, pc>>
          /\ \A u \in Threads : u # t => cur'[u] = cur[u]
          /\ pc[t] = "body" /\ state[f] = "running" /\ state'[f] = "calling"
      BY <2>a, <2>b, <2>c, <2>d
    <2>3. r # NULL /\ r \in local_vars
      BY <1>0, <2>1, TaskAssumption DEF LocalInv
    <2> HIDE DEF f, r
    <2>4. \A g \in Going' : local_var'[g] # NULL => local_var'[g] \in local_vars \cap roots
      BY <1>0, <2>1, <2>2, <2>3 DEF LocalInv
    <2>5. \A g \in Going' \ roots :
            local_var'[g] # NULL /\ local_var'[g] = local_var'[prev'[g]]
      <3> TAKE g \in Going' \ roots
      <3>1. CASE g = c
        BY <2>1, <2>2, <2>3, <3>1
      <3>2. CASE g # c
        <4>1. g \in Going \ roots /\ g \in Frames /\ prev'[g] = prev[g]
          BY <1>0, <2>1, <2>2, <3>2
        <4>2. prev[g] \in Frames /\ prev[g] # c
          BY <1>0, <2>1, <4>1 DEF RingInv
        <4> QED
          BY <1>0, <2>2, <3>2, <4>1, <4>2 DEF LocalInv
      <3> QED
        BY <3>1, <3>2
    <2>6. \A g \in Going' \cap roots : local_var'[g] \in {NULL, g}
      BY <1>0, <2>1, <2>2 DEF LocalInv
    <2>7. \A g \in Frames : state'[g] \in {"running", "calling"} => local_var'[g] # NULL
      BY <1>3, <2>1, <2>2, <2>3
    <2>8. \A u \in Threads : u # t /\ pc[u] # "idle" => cur[u] \in Frames /\ cur[u] # c
      BY <1>1, <2>1
    <2>9. \A u \in Threads :
            /\ pc[u] \in {"final", "tell", "delete"} => local_var'[cur'[u]] # NULL
            /\ pc[u] = "release" => local_var'[cur'[u]] = NULL
      <3> TAKE u \in Threads
      <3>1. CASE u = t
        BY <2>2, <3>1
      <3>2. CASE u # t
        BY <1>2, <2>2, <2>8, <3>2
      <3> QED
        BY <3>1, <3>2
    <2>10. \A g \in local_vars :
             /\ local_var'[g] = g
             /\ g \in Going' \cap roots \/ (state'[g] = "initial" /\ g \in serving)
      <3> TAKE g \in local_vars
      <3>1. g \in Frames /\ g # c
        BY <1>0, <2>1
      <3>2. /\ local_var[g] = g
            /\ g \in Going \cap roots \/ (state[g] = "initial" /\ g \in serving)
        BY <1>0 DEF LocalInv
      <3>3. state[g] = "initial" => state'[g] = "initial"
        BY <2>2, <3>1
      <3> QED
        BY <2>2, <3>1, <3>2, <3>3
    <2> QED
      BY <2>2, <2>4, <2>5, <2>6, <2>7, <2>9, <2>10 DEF LocalInv

  <1>11. ASSUME NEW t \in Threads, NEW c \in Frames, Dropped(t, c) PROVE LocalInv'
    BY <1>0, <1>2, <1>3, <1>11, GoingStep, LocalSame DEF Dropped
  <1>12. ASSUME NEW t \in Threads, Suspend(t) PROVE LocalInv'
    <2>1. /\ Going' = Going /\ UNCHANGED <<prev, localVars, roots>>
          /\ cur[t] \in Frames /\ state[cur[t]] = "running"
      BY <1>0, <1>1, <1>12, GoingStep DEF Suspend, ThreadInv
    <2>2. state'[cur[t]] = "ready" /\ \A g \in Frames : g # cur[t] => state'[g] = state[g]
      BY <1>0, <1>12, <2>1 DEF Suspend, TypeOK
    <2>3. \A u \in Threads : IF u = t THEN pc'[u] = "idle"
                                      ELSE pc'[u] = pc[u] /\ cur'[u] = cur[u]
      BY <1>0, <1>12 DEF Suspend, TypeOK
    <2>4. \A u \in Threads :
            /\ pc'[u] \in {"final", "tell", "delete"} => local_var[cur'[u]] # NULL
            /\ pc'[u] = "release" => local_var[cur'[u]] = NULL
      BY <1>2, <2>3
    <2> QED
      BY <1>0, <1>3, <2>1, <2>2, <2>4, LocalSame
  <1>13. ASSUME NEW t \in Threads, Return(t) PROVE LocalInv'
    <2>1. /\ Going' = Going /\ UNCHANGED <<prev, localVars, roots, cur>>
          /\ cur[t] \in Frames /\ state[cur[t]] = "running"
      BY <1>0, <1>1, <1>13, GoingStep DEF Return, ThreadInv
    <2>2. state'[cur[t]] = "final" /\ \A g \in Frames : g # cur[t] => state'[g] = state[g]
      BY <1>0, <1>13, <2>1 DEF Return, TypeOK
    <2>3. \A u \in Threads : IF u = t THEN pc'[u] = "final" ELSE pc'[u] = pc[u]
      BY <1>0, <1>13 DEF Return, TypeOK
    <2>4. \A u \in Threads :
            /\ pc'[u] \in {"final", "tell", "delete"} => local_var[cur'[u]] # NULL
            /\ pc'[u] = "release" => local_var[cur'[u]] = NULL
      BY <1>2, <1>3, <2>1, <2>3
    <2> QED
      BY <1>0, <1>3, <2>1, <2>2, <2>4, LocalSame
  <1>14. ASSUME NEW t \in Threads, FinalCallee(t) PROVE LocalInv'
    <2> DEFINE f == cur[t]  g == prev[cur[t]]  r == next[cur[t]]
    <2>1. /\ f \in Going /\ f \in Frames /\ f \notin roots /\ g \in Frames /\ r \in roots
          /\ r \in Frames /\ local_var[g] = r /\ state[f] = "final" /\ state[g] = "calling"
      BY <1>14, CalleeEnds
    <2>2. /\ Going' = Going \ {f} /\ UNCHANGED <<localVars, roots>>
          /\ state'[g] = "running" /\ \A h \in Frames : h # g => state'[h] = state[h]
          /\ \A h \in Frames : h # f /\ h # r => prev'[h] = prev[h]
      BY <1>0, <1>14, <2>1, GoingStep DEF FinalCallee, RemoveSelf, TypeOK
    <2>3. \A u \in Threads : IF u = t THEN pc'[u] = "body"
                                      ELSE pc'[u] = pc[u] /\ cur'[u] = cur[u]
      BY <1>0, <1>14 DEF FinalCallee, TypeOK
    <2>4. \A u \in Threads :
            /\ pc'[u] \in {"final", "tell", "delete"} => local_var[cur'[u]] # NULL
            /\ pc'[u] = "release" => local_var[cur'[u]] = NULL
      BY <1>2, <2>3
    <2> HIDE DEF f, g, r
    <2>5. \A h \in Going \cap local_vars : h \in Going'
      BY <1>0, <2>1, <2>2 DEF LocalInv
    <2>6. \A h \in Going' \ roots : prev'[h] = prev[h]
      BY <1>0, <2>1, <2>2
    <2>7. r # NULL
      BY <2>1, TaskAssumption
    <2>8. \A h \in Frames : state'[h] \in {"running", "calling"} => local_var[h] # NULL
      BY <1>3, <2>1, <2>2, <2>7
    <2>9. \A h \in Frames : state[h] = "initial" => state'[h] = "initial"
      BY <2>1, <2>2
    <2> QED
      BY <1>0, <2>2, <2>4, <2>5, <2>6, <2>8, <2>9, LocalSame
  <1>15. ASSUME NEW t \in Threads, Passed(t) PROVE LocalInv'
    <2>1. \A u \in Threads :
            /\ pc'[u] \in {"final", "tell", "delete"} => local_var[cur[u]] # NULL
            /\ pc'[u] = "release" => local_var[cur[u]] = NULL
      BY <1>0, <1>2, <1>15 DEF Passed, TypeOK
    <2> QED
      BY <1>0, <1>3, <1>15, <2>1, GoingStep, LocalSame DEF Passed
  <1>16. ASSUME NEW t \in Threads, DeleteLocalVar(t) PROVE LocalInv'
    <2> DEFINE f == cur[t]
    <2>1. /\ f \in Going \cap roots /\ f \in Frames /\ state[f] = "final"
          /\ local_var[f] = f /\ f # NULL
      BY <1>0, <1>1, <1>2, <1>16 DEF DeleteLocalVar, ThreadInv, LocalInv, Leaving
    <2>2. /\ Going' = Going /\ UNCHANGED <<state, prev, roots, serving, cur>>
          /\ local_var'[f] = NULL
          /\ \A g \in Frames : g # f => local_var'[g] = local_var[g]
          /\ local_vars' = local_vars \ {f}
          /\ \A u \in Threads : IF u = t THEN pc'[u] = "release" ELSE pc'[u] = pc[u]
      BY <1>0, <1>16, <2>1, GoingStep DEF DeleteLocalVar, TypeOK
    <2>3. \A u \in Threads : u # t /\ pc[u] # "idle" => cur[u] \in Frames /\ cur[u] # f
      BY <1>0, <1>1 DEF ThreadInv
    <2>4. \A u \in Threads :
            /\ pc'[u] \in {"final", "tell", "delete"} => local_var'[cur[u]] # NULL
            /\ pc'[u] = "release" => local_var'[cur[u]] = NULL
      <3> TAKE u \in Threads
      <3>1. CASE u = t
        BY <2>2, <3>1
      <3>2. CASE u # t
        BY <1>2, <2>2, <2>3, <3>2
      <3> QED
        BY <3>1, <3>2
    <2> HIDE DEF f
    <2>5. \A g \in Going : g # f => local_var[g] # f
      <3> TAKE g \in Going
      <3> SUFFICES ASSUME g # f, local_var[g] = f PROVE FALSE
        OBVIOUS
      <3>1. f \in callers[g] \/ g \in callers[f]
        BY <1>0, <2>1 DEF CallersInv
      <3>2. callers[f] = {} /\ (f \in callers[g] => state[f] = "calling")
        BY <1>0, <2>1 DEF CallersInv
      <3> QED
        BY <2>1, <3>1, <3>2
    <2>6. \A g \in Going : local_var'[g] # NULL => local_var'[g] \in local_vars' \cap roots
      BY <1>0, <2>1, <2>2, <2>5 DEF LocalInv
    <2>7. \A g \in Going \ roots :
            local_var'[g] # NULL /\ local_var'[g] = local_var'[prev[g]]
      BY <1>0, <2>1, <2>2 DEF LocalInv, RingInv
    <2>8. \A g \in Going \cap roots : local_var'[g] \in {NULL, g}
      BY <1>0, <2>2 DEF LocalInv
    <2>9. \A g \in Frames : state[g] \in {"running", "calling"} => local_var'[g] # NULL
      BY <1>3, <2>1, <2>2
    <2>10. \A g \in local_vars' :
             /\ local_var'[g] = g
             /\ g \in Going \cap roots \/ (state[g] = "initial" /\ g \in serving)
      <3> TAKE g \in local_vars'
      <3>1. g \in local_vars /\ g \in Frames /\ g # f
        BY <1>0, <2>2
      <3>2. /\ local_var[g] = g
            /\ g \in Going \cap roots \/ (state[g] = "initial" /\ g \in serving)
        BY <1>0, <3>1 DEF LocalInv
      <3> QED
        BY <2>2, <3>1, <3>2
    <2> QED
      BY <2>2, <2>4, <2>6, <2>7, <2>8, <2>9, <2>10 DEF LocalInv
  <1>17. ASSUME NEW t \in Threads, Released(t) PROVE LocalInv'
    <2> DEFINE f == cur[t]
    <2>1. /\ f \in Going \cap roots /\ state[f] = "final" /\ f \in Frames /\ f # NULL
          /\ local_var[f] = NULL
      BY <1>0, <1>1, <1>2, <1>17 DEF Released, ThreadInv, Leaving
    <2>2. /\ Going' = Going \ {f} /\ UNCHANGED <<localVars, prev, roots>>
          /\ state'[f] \in {"final", "destroyed"}
          /\ \A g \in Frames : g # f => state'[g] = state[g]
          /\ \A u \in Threads : IF u = t THEN pc'[u] = "idle"
                                         ELSE pc'[u] = pc[u] /\ cur'[u] = cur[u]
      BY <1>0, <1>17, <2>1, GoingStep DEF Released, TypeOK
    <2>3. \A u \in Threads :
            /\ pc'[u] \in {"final", "tell", "delete"} => local_var[cur'[u]] # NULL
            /\ pc'[u] = "release" => local_var[cur'[u]] = NULL
      BY <1>2, <2>2
    <2> HIDE DEF f
    <2>4. f \notin local_vars
      BY <1>0, <2>1 DEF LocalInv
    <2>5. \A g \in Going \cap local_vars : g \in Going'
      BY <2>2, <2>4
    <2> QED
      BY <1>0, <1>3, <2>1, <2>2, <2>3, <2>5, LocalSame
  <1> QED
    BY <1>4, <1>5, <1>6, <1>7, <1>8, <1>9, <1>10, <1>11, <1>12, <1>13, <1>14,
       <1>15, <1>16, <1>17
    DEF Move

-----------------------------------------------------------------------------
(* A step by which nobody gets a caller and no caller that is left goes on.   *)
LEMMA CallersSame ==
  ASSUME CallersInv, UNCHANGED <<callers, roots>>, Going' \subseteq Going,
         \A f \in Going' \ roots : prev'[f] = prev[f],
         \A f \in Going' : \A g \in callers[f] :
           state'[g] = "calling" /\ local_var'[g] = local_var'[f],
         \A f, g \in Going' :
           local_var'[f] # NULL /\ local_var'[f] = local_var'[g]
             => f = g \/ (local_var[f] # NULL /\ local_var[f] = local_var[g])
  PROVE  CallersInv'
  <1>1. callers' = callers /\ roots' = roots
    OBVIOUS
  <1>2. \A f \in Going' \ roots : callers[f] = callers[prev'[f]] \cup {prev'[f]}
    BY DEF CallersInv
  <1>3. \A f \in Going' :
          /\ f \notin callers[f]
          /\ \A g \in callers[f] : /\ state'[g] = "calling"
                                   /\ local_var'[g] = local_var'[f]
                                   /\ callers[g] \subseteq callers[f]
    BY DEF CallersInv
  <1>4. \A f, g \in Going' : local_var'[f] # NULL /\ local_var'[f] = local_var'[g]
          => f = g \/ f \in callers[g] \/ g \in callers[f]
    BY DEF CallersInv
  <1>5. \A f \in Going' \cap roots : callers[f] = {}
    BY DEF CallersInv
  <1> QED
    BY <1>1, <1>2, <1>3, <1>4, <1>5 DEF CallersInv

(* A frame that has not begun becomes a root.                                 *)
LEMMA CallersRoot ==
  ASSUME Inv, NEW f \in Frames, state[f] = "initial", state'[f] # "calling",
         Going' = Going \cup {f}, roots' = roots \cup {f}, UNCHANGED <<prev, callers>>,
         \A g \in Frames : g # f => state'[g] = state[g] /\ local_var'[g] = local_var[g],
         local_var'[f] \in {NULL, f}
  PROVE  CallersInv'
  <1>1. /\ TypeOK /\ FrameInv /\ RingInv /\ LocalInv /\ CallersInv
        /\ Going \subseteq Frames
    BY DEF Inv, Going
  <1>2. callers[f] = {} /\ f \notin roots
    BY <1>1 DEF FrameInv
  <1>3. \A g \in Going : g # f => g \in Frames /\ callers[g] \subseteq Frames
    BY <1>1 DEF TypeOK
  <1>4. \A g \in Going' \cap roots' : callers[g] = {}
    BY <1>1, <1>2 DEF CallersInv
  <1>5. \A g \in Going' \ roots' : callers[g] = callers[prev[g]] \cup {prev[g]}
    BY <1>1 DEF CallersInv
  <1>6. \A g \in Going' :
          /\ g \notin callers[g]
          /\ \A h \in callers[g] : /\ state'[h] = "calling"
                                   /\ local_var'[h] = local_var'[g]
                                   /\ callers[h] \subseteq callers[g]
    <2> TAKE g \in Going'
    <2>1. CASE g = f
      BY <1>2, <2>1
    <2>2. CASE g # f
      <3>1. g \in Going /\ callers[g] \subseteq Frames /\ g \in Frames
        BY <1>3, <2>2
      <3>2. \A h \in callers[g] : /\ state[h] = "calling" /\ h # f
                                  /\ local_var[h] = local_var[g]
                                  /\ callers[h] \subseteq callers[g]
        BY <1>1, <3>1 DEF CallersInv
      <3>3. g \notin callers[g]
        BY <1>1, <3>1 DEF CallersInv
      <3> QED
        BY <2>2, <3>1, <3>2, <3>3
    <2> QED
      BY <2>1, <2>2
  <1>7. \A g \in Going : g # f => local_var'[g] # f
    BY <1>1, <1>2, TaskAssumption DEF LocalInv
  <1>8. \A g, h \in Going' : local_var'[g] # NULL /\ local_var'[g] = local_var'[h]
          => g = h \/ g \in callers[h] \/ h \in callers[g]
    BY <1>1, <1>7 DEF CallersInv
  <1> QED
    BY <1>4, <1>5, <1>6, <1>8 DEF CallersInv

(* A callee gets the callers of its caller, and its caller.                   *)
LEMMA CallersCalled ==
  ASSUME Inv, NEW t \in Threads, NEW c \in Frames, Called(t, c),
         Going' = Going \cup {c}
  PROVE  CallersInv'
  <1> DEFINE f == cur[t]  r == next[cur[t]]
  <1>0. TypeOK /\ RingInv /\ CallersInv /\ Going \subseteq Frames
    BY DEF Inv, Going
  <1>1. /\ f \in Going /\ f \in Frames /\ state[f] = "running" /\ f # c
        /\ c \notin Going /\ c \notin roots /\ r \in roots /\ r \in Frames /\ r # c
        /\ local_var[f] = r
    BY CalleeBegins
  <1>2. /\ prev'[c] = f
        /\ \A g \in Frames : g # c /\ g # r => prev'[g] = prev[g]
    BY <1>0, <1>1 DEF Called, Await, LinkNext, TypeOK
  <1>3. /\ state'[f] = "calling"
        /\ \A g \in Frames : g # f /\ g # c => state'[g] = state[g]
    BY <1>0, <1>1 DEF Called, Await, TypeOK
  <1>4. /\ local_var'[c] = r
        /\ \A g \in Frames : g # c => local_var'[g] = local_var[g]
    BY <1>0, <1>1 DEF Called, Await, TypeOK
  <1>5. /\ callers'[c] = callers[f] \cup {f}
        /\ \A g \in Frames : g # c => callers'[g] = callers[g]
        /\ roots' = roots
    BY <1>0, <1>1 DEF Called, Await, TypeOK, rootVars
  <1>6. state[c] # "calling"
    BY DEF Called
  <1> HIDE DEF f, r
  <1>7. \A g \in Going : \A h \in callers[g] :
          /\ h \in Frames /\ h # c /\ h # f /\ state[h] = "calling"
          /\ local_var[h] = local_var[g] /\ callers[h] \subseteq callers[g]
    BY <1>0, <1>1, <1>6 DEF CallersInv, TypeOK
  <1>8. \A g \in Going : g \in Frames /\ g # c
    BY <1>0, <1>1
  <1>9. \A g \in Going' \cap roots : callers'[g] = {}
    BY <1>0, <1>1, <1>5, <1>8 DEF CallersInv
  <1>10. \A g \in Going' \ roots : callers'[g] = callers'[prev'[g]] \cup {prev'[g]}
    <2> TAKE g \in Going' \ roots
    <2>1. CASE g = c
      BY <1>1, <1>2, <1>5, <2>1
    <2>2. CASE g # c
      <3>1. g \in Going \ roots /\ g \in Frames /\ prev'[g] = prev[g]
        BY <1>1, <1>2, <1>8, <2>2
      <3>2. prev[g] \in Frames /\ prev[g] # c
        BY <1>0, <1>6, <3>1 DEF RingInv
      <3> QED
        BY <1>0, <1>5, <2>2, <3>1, <3>2 DEF CallersInv
    <2> QED
      BY <2>1, <2>2
  <1>11. \A g \in Going' :
           /\ g \notin callers'[g]
           /\ \A h \in callers'[g] : /\ state'[h] = "calling"
                                     /\ local_var'[h] = local_var'[g]
                                     /\ callers'[h] \subseteq callers'[g]
    <2> TAKE g \in Going'
    <2>1. CASE g = c
      BY <1>1, <1>3, <1>4, <1>5, <1>7, <2>1
    <2>2. CASE g # c
      <3>1. g \in Going /\ g \in Frames /\ g \notin callers[g]
        BY <1>0, <1>8, <2>2 DEF CallersInv
      <3> QED
        BY <1>3, <1>4, <1>5, <1>7, <2>2, <3>1
    <2> QED
      BY <2>1, <2>2
  <1>12. \A g \in Going : local_var[g] = r => g = f \/ g \in callers[f]
    <2>1. r # NULL
      BY <1>1, TaskAssumption
    <2>2. \A g \in Going : f \notin callers[g]
      BY <1>7
    <2> QED
      BY <1>0, <1>1, <2>1, <2>2 DEF CallersInv
  <1>13. \A g, h \in Going' : local_var'[g] # NULL /\ local_var'[g] = local_var'[h]
           => g = h \/ g \in callers'[h] \/ h \in callers'[g]
    <2> TAKE g, h \in Going'
    <2> HAVE local_var'[g] # NULL /\ local_var'[g] = local_var'[h]
    <2>1. CASE g # c /\ h # c
      <3>1. g \in Going /\ h \in Going
        BY <2>1
      <3> QED
        BY <1>0, <1>4, <1>5, <1>8, <2>1, <3>1 DEF CallersInv
    <2>2. CASE g = c \/ h = c
      BY <1>4, <1>5, <1>8, <1>12, <2>2
    <2> QED
      BY <2>1, <2>2
  <1> QED
    BY <1>5, <1>9, <1>10, <1>11, <1>13 DEF CallersInv

(* The frame a thread returns to has no callee left that waits for it.        *)
LEMMA CallersReturned ==
  ASSUME Inv, NEW t \in Threads, FinalCallee(t), Going' = Going \ {cur[t]}
  PROVE  CallersInv'
  <1> DEFINE f == cur[t]  g == prev[cur[t]]  r == next[cur[t]]
  <1>0. TypeOK /\ CallersInv /\ Going \subseteq Frames
    BY DEF Inv, Going
  <1>1. /\ f \in Going /\ f \in Frames /\ f \notin roots /\ state[f] = "final"
        /\ g \in Frames /\ g \in Going /\ state[g] = "calling"
        /\ r \in roots /\ r \in Frames /\ local_var[f] = r /\ local_var[g] = r
    BY CalleeEnds
  <1>2. \A h \in Frames : h # f /\ h # r => prev'[h] = prev[h]
    BY <1>0, <1>1 DEF FinalCallee, RemoveSelf, TypeOK
  <1>3. /\ \A h \in Frames : h # g => state'[h] = state[h]
        /\ local_var' = local_var /\ UNCHANGED <<callers, roots>>
    BY <1>0, <1>1 DEF FinalCallee, TypeOK, callVars, localVars, rootVars
  <1>4. callers[f] = callers[g] \cup {g}
    BY <1>0, <1>1 DEF CallersInv
  <1> HIDE DEF g, r
  <1>5. ASSUME NEW h \in Going', g \in callers[h] PROVE FALSE
    <2>1. h \in Going /\ h # f
      OBVIOUS
    <2>2. local_var[h] = r /\ r # NULL
      BY <1>0, <1>1, <1>5, <2>1, TaskAssumption DEF CallersInv
    <2>3. f \in callers[h] \/ h \in callers[f]
      BY <1>0, <1>1, <2>1, <2>2 DEF CallersInv
    <2>4. f \notin callers[h]
      BY <1>0, <1>1, <2>1 DEF CallersInv
    <2>5. h = g \/ h \in callers[g]
      BY <1>4, <2>3, <2>4
    <2>6. g \in callers[g]
      BY <1>0, <1>1, <1>5, <2>5 DEF CallersInv
    <2> QED
      BY <1>0, <1>1, <2>6 DEF CallersInv
  <1>6. \A h \in Going' : \A k \in callers[h] :
          state'[k] = "calling" /\ local_var'[k] = local_var'[h]
    BY <1>0, <1>3, <1>5 DEF CallersInv, TypeOK
  <1>7. \A h \in Going' \ roots : prev'[h] = prev[h]
    BY <1>0, <1>1, <1>2
  <1> QED
    BY <1>0, <1>3, <1>6, <1>7, CallersSame

LEMMA CallersStep == Inv /\ Move /\ TypeOK' /\ ThreadInv' => CallersInv'
  <1> SUFFICES ASSUME Inv, Move, TypeOK', ThreadInv' PROVE CallersInv'
    OBVIOUS
  <1> USE DEF frameVars, threadVars, callVars, localVars, ringVars, rootVars
  <1>0. /\ TypeOK /\ ThreadInv /\ FrameInv /\ LocalInv /\ CallersInv
        /\ Going \subseteq Frames
    BY DEF Inv, Going
  <1>1. ASSUME NEW t \in Threads, pc[t] # "idle"
        PROVE  cur[t] \in Frames /\ cur[t] # NULL /\ cur[t] \in Going
    BY <1>0, <1>1, HasFrame, GoingFrames
  <1>2. \A f \in Going : \A g \in callers[f] :
          state[g] = "calling" /\ local_var[g] = local_var[f] /\ g \in Frames
    BY <1>0 DEF CallersInv, TypeOK
  (* What waits goes on waiting. *)
  <1>3. ASSUME Going' \subseteq Going, UNCHANGED <<prev, callers, local_var, roots>>,
               \A g \in Frames : state[g] = "calling" => state'[g] = "calling"
        PROVE  CallersInv'
    BY <1>0, <1>2, <1>3, CallersSame
  <1>4. CASE Quiet
    BY <1>3, <1>4, GoingStep DEF Quiet
  <1>5. ASSUME NEW f \in Frames, Destroyed(f) PROVE CallersInv'
    BY <1>0, <1>3, <1>5, GoingStep DEF Destroyed, Ended, TypeOK
  <1>6. ASSUME NEW f \in Frames, Made(f) PROVE CallersInv'
    <2>1. Going' = Going /\ UNCHANGED <<callers, local_var, roots>> /\ f \notin Going
      BY <1>0, <1>6, GoingStep, GoingFrames DEF Made
    <2>2. /\ state[f] = "none"
          /\ \A g \in Frames : g # f => state'[g] = state[g] /\ prev'[g] = prev[g]
      BY <1>0, <1>6 DEF Made, TypeOK
    <2> QED
      BY <1>0, <1>2, <2>1, <2>2, CallersSame
  <1>7. ASSUME NEW f \in Frames, Served(f) PROVE CallersInv'
    <2>1. /\ Going' = Going /\ UNCHANGED <<callers, state, prev, roots>>
          /\ state[f] = "initial" /\ f \notin Going
      BY <1>0, <1>7, GoingStep, GoingFrames DEF Served, ThreadInv
    <2>2. \A g \in Frames : g # f => local_var'[g] = local_var[g]
      BY <1>0, <1>7 DEF Served, TypeOK
    <2> QED
      BY <1>0, <1>2, <2>1, <2>2, CallersSame
  <1>8. ASSUME NEW f \in Frames, Committed(f) PROVE CallersInv'
    <2>1. /\ Going' = Going \cup {f} /\ roots' = roots \cup {f}
          /\ state[f] = "initial" /\ UNCHANGED <<prev, callers, local_var>>
      BY <1>8, GoingStep DEF Committed
    <2>2. state'[f] # "calling" /\ \A g \in Frames : g # f => state'[g] = state[g]
      BY <1>0, <1>8 DEF Committed, TypeOK
    <2>3. local_var[f] \in {NULL, f}
      BY <1>0, <2>1 DEF FrameInv
    <2> QED
      BY <2>1, <2>2, <2>3, CallersRoot
  <1>9. ASSUME NEW t \in Threads, NEW f \in Frames, Entered(t, f) PROVE CallersInv'
    <2>1. /\ \A g \in Frames : g # f => state'[g] = state[g] /\ local_var'[g] = local_var[g]
          /\ state'[f] # "calling"
          /\ local_var'[f] = IF local_var[f] = NULL THEN f ELSE local_var[f]
          /\ UNCHANGED <<prev, callers>> /\ Going' = Going \cup {f}
      <3>1. UNCHANGED <<prev, callers>>
        BY <1>9 DEF Entered
      <3> QED
        BY <1>0, <1>9, <3>1, GoingStep, EnterChanges
    <2>2. CASE state[f] = "initial"
      <3>1. local_var'[f] = f
        BY <1>0, <2>1, <2>2 DEF FrameInv
      <3>2. roots' = roots \cup {f}
        BY <1>9, <2>2 DEF Entered
      <3> QED
        BY <2>1, <2>2, <3>1, <3>2, CallersRoot
    <2>3. CASE state[f] = "ready" /\ roots' = roots
      <3>1. f \in Going /\ Going' = Going
        BY <1>0, <2>1, <2>3, GoingFrames
      <3>2. CASE local_var[f] # NULL
        <4>1. \A g \in Frames : local_var'[g] = local_var[g]
          BY <2>1, <3>2
        <4>2. \A g \in Going : \A h \in callers[g] : state'[h] = "calling"
          BY <1>2, <2>1, <2>3
        <4> QED
          BY <1>0, <1>2, <2>1, <2>3, <3>1, <4>1, <4>2, CallersSame
      <3>3. CASE local_var[f] = NULL
        <4>1. f \in roots /\ callers[f] = {} /\ local_var'[f] = f /\ f # NULL
          BY <1>0, <2>1, <3>1, <3>3, TaskAssumption DEF LocalInv, CallersInv
        <4>2. \A g \in Going : g # f => local_var[g] # f
          BY <1>0, <3>3, <4>1 DEF LocalInv
        <4>3. \A g \in Going : \A h \in callers[g] :
                state'[h] = "calling" /\ local_var'[h] = local_var'[g]
          BY <1>0, <1>2, <2>1, <2>3, <4>1
        <4>4. \A g, h \in Going' :
                local_var'[g] # NULL /\ local_var'[g] = local_var'[h]
                  => g = h \/ (local_var[g] # NULL /\ local_var[g] = local_var[h])
          BY <1>0, <2>1, <3>1, <4>1, <4>2
        <4> QED
          BY <1>0, <2>1, <2>3, <3>1, <4>3, <4>4, CallersSame
      <3> QED
        BY <3>2, <3>3
    <2> QED
      BY <1>9, <2>2, <2>3 DEF Entered
  <1>10. ASSUME NEW t \in Threads, NEW c \in Frames, Called(t, c) PROVE CallersInv'
    BY <1>10, GoingStep, CallersCalled
  <1>11. ASSUME NEW t \in Threads, NEW c \in Frames, Dropped(t, c) PROVE CallersInv'
    BY <1>3, <1>11, GoingStep DEF Dropped
  <1>12. ASSUME NEW t \in Threads, Suspend(t) \/ Return(t) PROVE CallersInv'
    <2>1. /\ Going' = Going /\ UNCHANGED <<prev, callers, local_var, roots>>
          /\ state[cur[t]] = "running"
      BY <1>0, <1>12, GoingStep DEF Suspend, Return, ThreadInv
    <2>2. \A g \in Frames : g # cur[t] => state'[g] = state[g]
      BY <1>0, <1>12 DEF Suspend, Return, TypeOK
    <2> QED
      BY <1>3, <2>1, <2>2
  <1>13. ASSUME NEW t \in Threads, FinalCallee(t) PROVE CallersInv'
    BY <1>13, GoingStep, CallersReturned
  <1>14. ASSUME NEW t \in Threads, Passed(t) PROVE CallersInv'
    BY <1>3, <1>14, GoingStep DEF Passed
  <1>15. ASSUME NEW t \in Threads, DeleteLocalVar(t) PROVE CallersInv'
    <2>1. /\ cur[t] \in Going \cap roots /\ state[cur[t]] = "final"
          /\ Going' = Going /\ cur[t] \in Frames /\ callers[cur[t]] = {}
          /\ UNCHANGED <<prev, callers, state, roots>>
      BY <1>0, <1>1, <1>15, GoingStep DEF DeleteLocalVar, ThreadInv, Leaving, CallersInv
    <2>2. /\ local_var'[cur[t]] = NULL
          /\ \A g \in Frames : g # cur[t] => local_var'[g] = local_var[g]
      BY <1>0, <1>15, <2>1 DEF DeleteLocalVar, TypeOK
    <2>3. \A g \in Going : \A h \in callers[g] :
            state'[h] = "calling" /\ local_var'[h] = local_var'[g]
      BY <1>0, <1>2, <2>1, <2>2
    <2>4. \A g, h \in Going' :
            local_var'[g] # NULL /\ local_var'[g] = local_var'[h]
              => g = h \/ (local_var[g] # NULL /\ local_var[g] = local_var[h])
      BY <1>0, <2>1, <2>2
    <2> QED
      BY <1>0, <2>1, <2>3, <2>4, CallersSame
  <1>16. ASSUME NEW t \in Threads, Released(t) PROVE CallersInv'
    <2>1. /\ Going' = Going \ {cur[t]} /\ UNCHANGED <<prev, callers, local_var, roots>>
          /\ state[cur[t]] = "final"
      BY <1>0, <1>16, GoingStep DEF Released, ThreadInv, Leaving
    <2>2. \A g \in Frames : g # cur[t] => state'[g] = state[g]
      BY <1>0, <1>16 DEF Released, TypeOK
    <2> QED
      BY <1>3, <2>1, <2>2
  <1> QED
    BY <1>4, <1>5, <1>6, <1>7, <1>8, <1>9, <1>10, <1>11, <1>12, <1>13, <1>14,
       <1>15, <1>16
    DEF Move

-----------------------------------------------------------------------------
(* A root that has ended stays so until it is destroyed.                      *)
LEMMA EndedStays ==
  ASSUME Inv, Move, TypeOK', ThreadInv', NEW f \in Frames, Ended(f),
         state'[f] # "destroyed"
  PROVE  Ended(f)'
  <1> USE DEF frameVars, threadVars, callVars, localVars, ringVars, rootVars
  <1>0. TypeOK /\ ThreadInv /\ Going \subseteq Frames
    BY DEF Inv, Going
  <1>1. state[f] = "final" /\ f \in roots /\ f \notin Going
    BY <1>0 DEF Ended, Going, Active
  <1>2. ASSUME NEW t \in Threads, pc[t] # "idle"
        PROVE  cur[t] \in Frames /\ cur[t] \in Going /\ cur[t] # f
    BY <1>0, <1>1, <1>2, HasFrame, GoingFrames
  <1>3. state'[f] = "final" /\ f \in roots' /\ f \notin Going'
    <2>1. CASE Quiet
      BY <1>1, <2>1, GoingStep DEF Quiet
    <2>2. ASSUME NEW g \in Frames, Destroyed(g) \/ Made(g) \/ Served(g)
          PROVE  state'[f] = "final" /\ f \in roots' /\ f \notin Going'
      BY <1>0, <1>1, <2>2, GoingStep DEF Destroyed, Made, Served, TypeOK
    <2>3. ASSUME NEW g \in Frames, Committed(g)
          PROVE  state'[f] = "final" /\ f \in roots' /\ f \notin Going'
      <3>1. Going' = Going \cup {g} /\ roots \subseteq roots' /\ g # f
        BY <1>1, <2>3, GoingStep DEF Committed
      <3>2. state'[f] = state[f]
        BY <1>0, <2>3, <3>1 DEF Committed, TypeOK
      <3> QED
        BY <1>1, <3>1, <3>2
    <2>4. ASSUME NEW t \in Threads, NEW g \in Frames, Entered(t, g)
          PROVE  state'[f] = "final" /\ f \in roots' /\ f \notin Going'
      <3>1. Going' = Going \cup {g} /\ roots \subseteq roots' /\ g # f
        BY <1>1, <2>4, GoingStep DEF Entered
      <3>2. state'[f] = state[f]
        BY <1>0, <2>4, <3>1 DEF Entered, EnterBody, TypeOK
      <3> QED
        BY <1>1, <3>1, <3>2
    <2>5. ASSUME NEW t \in Threads, NEW c \in Frames, Called(t, c)
          PROVE  state'[f] = "final" /\ f \in roots' /\ f \notin Going'
      <3>1. Going' = Going \cup {c} /\ roots' = roots /\ cur[t] # f /\ c # f
        BY <1>1, <1>2, <2>5, GoingStep DEF Called, Await
      <3>2. state'[f] = state[f]
        BY <1>0, <2>5, <3>1 DEF Called, Await, TypeOK
      <3> QED
        BY <1>1, <3>1, <3>2
    <2>6. ASSUME NEW t \in Threads, NEW c \in Frames, Dropped(t, c)
          PROVE  state'[f] = "final" /\ f \in roots' /\ f \notin Going'
      BY <1>1, <2>6, GoingStep DEF Dropped
    <2>7. ASSUME NEW t \in Threads,
                 Suspend(t) \/ Return(t) \/ Passed(t) \/ DeleteLocalVar(t) \/ Released(t)
          PROVE  state'[f] = "final" /\ f \in roots' /\ f \notin Going'
      <3>1. cur[t] # f
        BY <1>2, <2>7 DEF Suspend, Return, Passed, DeleteLocalVar, Released
      <3>2. roots' = roots /\ Going' \subseteq Going
        BY <2>7, GoingStep DEF Suspend, Return, Passed, DeleteLocalVar, Released
      <3>3. \/ state' = state
            \/ \E s \in {"ready", "final", "destroyed"} : state' = [state EXCEPT ![cur[t]] = s]
        BY <2>7 DEF Suspend, Return, Passed, DeleteLocalVar, Released
      <3>4. state'[f] = state[f]
        BY <1>0, <3>1, <3>3 DEF TypeOK
      <3> QED
        BY <1>1, <3>2, <3>4
    <2>8. ASSUME NEW t \in Threads, FinalCallee(t)
          PROVE  state'[f] = "final" /\ f \in roots' /\ f \notin Going'
      <3>1. state[prev[cur[t]]] = "calling"
        BY <2>8, CalleeEnds
      <3>2. roots' = roots /\ Going' \subseteq Going
        BY <2>8, GoingStep DEF FinalCallee
      <3>3. state' = [state EXCEPT ![prev[cur[t]]] = "running"]
        BY <2>8 DEF FinalCallee
      <3>4. state'[f] = state[f]
        BY <1>0, <1>1, <3>1, <3>3 DEF TypeOK
      <3> QED
        BY <1>1, <3>2, <3>4
    <2> QED
      BY <2>1, <2>2, <2>3, <2>4, <2>5, <2>6, <2>7, <2>8 DEF Move
  <1>4. ~InThread(f)'
    BY <1>3 DEF Going, Active
  <1> QED
    BY <1>3, <1>4 DEF Ended

(* What refers to a frame, as a number.                                       *)
Refs(f) == Cardinality(RefsTo(f)) + Held(f) + Own(f)

LEMMA RefsType ==
  ASSUME NEW f
  PROVE  /\ Refs(f) \in Nat /\ Missing(f) \in {0, 1}
         /\ Held(f) \in {0, 1} /\ Own(f) \in {0, 1}
  BY RefsFinite DEF Refs, Held, Own, Missing

LEMMA RefsTypeNext ==
  ASSUME NEW f
  PROVE  /\ IsFiniteSet(RefsTo(f)') /\ Cardinality(RefsTo(f)') \in Nat
         /\ (Cardinality(RefsTo(f)') = 0 <=> RefsTo(f)' = {})
         /\ Refs(f)' \in Nat /\ Missing(f)' \in {0, 1}
         /\ Held(f)' \in {0, 1} /\ Own(f)' \in {0, 1}
         /\ Refs(f)' = Cardinality(RefsTo(f)') + Held(f)' + Own(f)'
  <1>1. IsFiniteSet(RefsTo(f)')
    BY TaskAssumption, FS_Subset DEF RefsTo
  <1>2. /\ Cardinality(RefsTo(f)') \in Nat
        /\ Cardinality(RefsTo(f)') = 0 <=> RefsTo(f)' = {}
    BY <1>1, FS_CardinalityType, FS_EmptySet
  <1> QED
    BY <1>1, <1>2 DEF Refs, Held, Own, Missing

(* The count of a frame may fall by no more than the references to it.        *)
LEMMA CountedKeeps ==
  ASSUME Inv, Move, TypeOK', ThreadInv', NEW f \in Frames, Exists(f), Exists(f)',
         Refs(f)' + ref_cnt[f] <= Refs(f) + ref_cnt'[f]
  PROVE  Counted(f)'
  <1>1. Ended(f) => Ended(f)'
    BY EndedStays DEF Exists
  <1>2. Missing(f) <= Missing(f)'
    BY <1>1 DEF Missing
  <1>3. Refs(f) <= ref_cnt[f] + Missing(f)
    BY DEF Inv, RefInv, Counted, Refs
  <1>4. ref_cnt[f] \in Nat /\ ref_cnt'[f] \in Nat
    BY DEF Inv, TypeOK
  <1>5. Refs(f)' <= ref_cnt'[f] + Missing(f)'
    BY <1>2, <1>3, <1>4, RefsType, RefsTypeNext
  <1> QED
    BY <1>5 DEF Counted, Refs

LEMMA RefSame ==
  ASSUME Inv, Move, TypeOK', ThreadInv', UNCHANGED <<promise, held, counted, ref_cnt>>,
         \A f \in Frames : Exists(f)' <=> Exists(f)
  PROVE  RefInv'
  <1>1. \A h \in Handles : promise'[h] # NULL => Exists(promise[h])'
    BY DEF Inv, RefInv, TypeOK, FrameOrNull
  <1>2. \A f : Refs(f)' = Refs(f)
    BY DEF Refs, RefsTo, Held, Own
  <1>3. ASSUME NEW f \in Frames, Exists(f)' PROVE Counted(f)'
    <2>1. Refs(f)' + ref_cnt[f] <= Refs(f) + ref_cnt'[f]
      BY <1>2, RefsType DEF Inv, TypeOK
    <2> QED
      BY <1>3, <2>1, CountedKeeps
  <1> QED
    BY <1>1, <1>3 DEF RefInv

(* A handle is set to a frame or to nullptr.                                  *)
LEMMA SetHandle ==
  ASSUME TypeOK, NEW h \in Handles, NEW x, promise' = [promise EXCEPT ![h] = x], NEW f
  PROVE  /\ promise[h] = f /\ x # f
              => Cardinality(RefsTo(f)') = Cardinality(RefsTo(f)) - 1
         /\ promise[h] # f /\ x = f
              => Cardinality(RefsTo(f)') = Cardinality(RefsTo(f)) + 1
         /\ (promise[h] = f <=> x = f) => RefsTo(f)' = RefsTo(f)
         /\ x # f => Cardinality(RefsTo(f)') <= Cardinality(RefsTo(f))
         /\ Cardinality(RefsTo(f)') <= Cardinality(RefsTo(f)) + 1
  <1>1. promise'[h] = x /\ \A k \in Handles : k # h => promise'[k] = promise[k]
    BY DEF TypeOK
  <1>2. IsFiniteSet(RefsTo(f))
    BY RefsFinite
  <1>3. ASSUME promise[h] = f, x # f
        PROVE  Cardinality(RefsTo(f)') = Cardinality(RefsTo(f)) - 1
    <2>1. RefsTo(f)' = RefsTo(f) \ {h} /\ h \in RefsTo(f)
      BY <1>1, <1>3 DEF RefsTo
    <2> QED
      BY <1>2, <2>1, FS_RemoveElement
  <1>4. ASSUME promise[h] # f, x = f
        PROVE  Cardinality(RefsTo(f)') = Cardinality(RefsTo(f)) + 1
    <2>1. RefsTo(f)' = RefsTo(f) \cup {h} /\ h \notin RefsTo(f)
      BY <1>1, <1>4 DEF RefsTo
    <2> QED
      BY <1>2, <2>1, FS_AddElement
  <1>5. ASSUME promise[h] = f <=> x = f PROVE RefsTo(f)' = RefsTo(f)
    BY <1>1, <1>5 DEF RefsTo
  <1>6. Cardinality(RefsTo(f)) \in Nat
    BY RefsFinite
  <1>7. /\ x # f => Cardinality(RefsTo(f)') <= Cardinality(RefsTo(f))
        /\ Cardinality(RefsTo(f)') <= Cardinality(RefsTo(f)) + 1
    BY <1>3, <1>4, <1>5, <1>6
  <1> QED
    BY <1>3, <1>4, <1>5, <1>7

(* A CoroTask that is moved from hands its reference over.                    *)
LEMMA MoveHandle ==
  ASSUME TypeOK, NEW h \in Handles, NEW from \in Handles, h # from,
         promise[h] = NULL, promise[from] # NULL,
         promise' = [promise EXCEPT ![h] = promise[from], ![from] = NULL],
         NEW f \in Frames
  PROVE  Cardinality(RefsTo(f)') = Cardinality(RefsTo(f))
  <1>1. /\ promise'[h] = promise[from] /\ promise'[from] = NULL
        /\ \A k \in Handles : k # h /\ k # from => promise'[k] = promise[k]
    BY DEF TypeOK
  <1>2. f # NULL
    BY TaskAssumption
  <1>3. CASE promise[from] = f
    <2> DEFINE S == RefsTo(f) \ {from}
    <2>1. IsFiniteSet(RefsTo(f)) /\ Cardinality(RefsTo(f)) \in Nat
      BY RefsFinite
    <2>2. IsFiniteSet(S) /\ Cardinality(S) = Cardinality(RefsTo(f)) - 1
      BY <1>3, <2>1, FS_RemoveElement DEF RefsTo
    <2>3. RefsTo(f)' = S \cup {h} /\ h \notin S
      BY <1>1, <1>2, <1>3 DEF RefsTo
    <2> HIDE DEF S
    <2>4. Cardinality(S \cup {h}) = Cardinality(S) + 1
      BY <2>2, <2>3, FS_AddElement
    <2> QED
      BY <2>1, <2>2, <2>3, <2>4
  <1>4. CASE promise[from] # f
    <2>1. RefsTo(f)' = RefsTo(f)
      BY <1>1, <1>2, <1>4 DEF RefsTo
    <2> QED
      BY <2>1
  <1> QED
    BY <1>3, <1>4

LEMMA RefStep == Inv /\ [Next]_vars /\ Move /\ TypeOK' /\ ThreadInv' => RefInv'
  <1> SUFFICES ASSUME Inv, [Next]_vars, Move, TypeOK', ThreadInv' PROVE RefInv'
    OBVIOUS
  <1> USE DEF handleVars, threadVars, callVars, localVars, ringVars, rootVars
  <1>0. TypeOK /\ ThreadInv /\ FrameInv /\ HeldInv /\ RefInv /\ LocalInv
    BY DEF Inv
  <1>1. ASSUME NEW h \in Handles, promise[h] # NULL
        PROVE  promise[h] \in Frames /\ Exists(promise[h])
    BY <1>0, <1>1 DEF TypeOK, FrameOrNull, RefInv
  <1>2. ASSUME NEW t \in Threads, pc[t] # "idle"
        PROVE  cur[t] \in Frames /\ cur[t] # NULL
    BY <1>0, <1>2, HasFrame
  <1>3. \A f \in Frames : ref_cnt[f] \in Nat /\ ref_cnt'[f] \in Nat /\ Refs(f) \in Nat
    BY <1>0, RefsType DEF TypeOK
  <1>4. \A f \in Frames : ~Exists(f) \/ state[f] = "initial" =>
          /\ \A g \in Frames : f \notin held[g]
          /\ Held(f) = 0
    BY <1>0 DEF HeldInv, Held
  <1>5. \A f \in Frames : ~Exists(f) => RefsTo(f) = {} /\ Cardinality(RefsTo(f)) = 0
    BY <1>1, TaskAssumption, FS_EmptySet DEF RefsTo
  (* The frames of which nothing changes. *)
  <1>6. ASSUME NEW f \in Frames, Exists(f), Exists(f)',
               Cardinality(RefsTo(f)') <= Cardinality(RefsTo(f)),
               Held(f)' = Held(f), Own(f)' = Own(f), ref_cnt'[f] = ref_cnt[f]
        PROVE  Counted(f)'
    <2>1. Refs(f)' <= Refs(f)
      BY <1>6, RefsFinite, RefsType, RefsTypeNext DEF Refs
    <2>2. Refs(f)' + ref_cnt[f] <= Refs(f) + ref_cnt'[f]
      BY <1>3, <1>6, <2>1, RefsTypeNext
    <2> QED
      BY <1>6, <2>2, CountedKeeps
  <1>7. ASSUME NEW h \in Handles, Create(h) PROVE RefInv'
    <2>1. PICK u \in Frames : u = Unused /\ state[u] = "none" /\ ~Exists(u) /\ u # NULL
      BY <1>7, UnusedFrame, TaskAssumption DEF Create, Exists
    <2>2. /\ promise[h] = NULL /\ promise' = [promise EXCEPT ![h] = u]
          /\ UNCHANGED <<held, counted>>
      BY <1>7, <2>1 DEF Create
    <2>3. /\ state'[u] = "initial" /\ ref_cnt'[u] = 1
          /\ \A f \in Frames : f # u => state'[f] = state[f] /\ ref_cnt'[f] = ref_cnt[f]
      BY <1>0, <1>7, <2>1 DEF Create, TypeOK
    <2>4. \A k \in Handles : promise'[k] # NULL => Exists(promise[k])'
      <3> TAKE k \in Handles
      <3>1. CASE k = h
        BY <1>0, <2>2, <2>3, <3>1 DEF Exists, TypeOK
      <3>2. CASE k # h /\ promise[k] # NULL
        <4>1. promise'[k] = promise[k] /\ promise[k] # u
          BY <1>0, <1>1, <2>1, <2>2, <3>2 DEF TypeOK
        <4> QED
          BY <1>1, <2>3, <3>2, <4>1 DEF Exists
      <3>3. CASE k # h /\ promise[k] = NULL
        BY <1>0, <2>2, <3>3 DEF TypeOK
      <3> QED
        BY <3>1, <3>2, <3>3
    <2>5. Counted(u)'
      <3>1. Cardinality(RefsTo(u)') = 1
        <4>1. Cardinality(RefsTo(u)') = Cardinality(RefsTo(u)) + 1
          BY <1>0, <2>1, <2>2, SetHandle
        <4> QED
          BY <1>5, <2>1, <4>1
      <3>2. Held(u)' = 0
        BY <1>4, <2>1, <2>2 DEF Held
      <3>3. Own(u)' = 0
        BY <1>0, <2>1, <2>2 DEF Own, FrameInv
      <3> QED
        BY <2>3, <3>1, <3>2, <3>3, RefsTypeNext DEF Counted
    <2>6. ASSUME NEW f \in Frames, Exists(f)', f # u PROVE Counted(f)'
      <3>1. RefsTo(f)' = RefsTo(f)
        BY <1>0, <2>2, <2>6, TaskAssumption, SetHandle
      <3>2. Exists(f) /\ ref_cnt'[f] = ref_cnt[f]
        BY <2>3, <2>6 DEF Exists
      <3>3. Cardinality(RefsTo(f)') <= Cardinality(RefsTo(f))
        BY <3>1, RefsFinite
      <3>4. Held(f)' = Held(f) /\ Own(f)' = Own(f)
        BY <2>2 DEF Held, Own
      <3> QED
        BY <1>6, <2>6, <3>2, <3>3, <3>4
    <2> QED
      BY <2>4, <2>5, <2>6 DEF RefInv
  <1>8. ASSUME NEW h \in Handles, NEW from \in Handles, Copy(h, from) PROVE RefInv'
    <2>1. PICK c \in Frames : c = promise[from] /\ Exists(c) /\ c # NULL
      BY <1>1, <1>8 DEF Copy
    <2>2. /\ promise' = [promise EXCEPT ![h] = c]
          /\ UNCHANGED <<held, counted, state>>
      BY <1>8, <2>1 DEF Copy
    <2>3. /\ ref_cnt'[c] = ref_cnt[c] + 1
          /\ \A f \in Frames : f # c => ref_cnt'[f] = ref_cnt[f]
      BY <1>0, <1>8, <2>1 DEF Copy, Inc, TypeOK
    <2>4. \A k \in Handles : promise'[k] # NULL => Exists(promise[k])'
      BY <1>0, <1>1, <2>1, <2>2 DEF Exists, TypeOK
    <2>5. ASSUME NEW f \in Frames, Exists(f)' PROVE Counted(f)'
      <3>1. Exists(f)
        BY <2>2, <2>5 DEF Exists
      <3>2. Held(f)' = Held(f) /\ Own(f)' = Own(f)
        BY <2>2 DEF Held, Own
      <3>3. CASE f = c
        <4>1. Cardinality(RefsTo(f)') <= Cardinality(RefsTo(f)) + 1
          BY <1>0, <2>2, SetHandle
        <4>2. Refs(f)' + ref_cnt[f] <= Refs(f) + ref_cnt'[f]
          BY <1>3, <2>3, <3>2, <3>3, <4>1, RefsType, RefsTypeNext, RefsFinite DEF Refs
        <4> QED
          BY <2>5, <3>1, <4>2, CountedKeeps
      <3>4. CASE f # c
        <4>1. Cardinality(RefsTo(f)') <= Cardinality(RefsTo(f))
          BY <1>0, <2>2, <3>4, SetHandle
        <4> QED
          BY <1>6, <2>3, <2>5, <3>1, <3>2, <3>4, <4>1
      <3> QED
        BY <3>3, <3>4
    <2> QED
      BY <2>4, <2>5 DEF RefInv
  <1>9. ASSUME NEW h \in Handles, NEW from \in Handles, MoveConstruct(h, from)
        PROVE  RefInv'
    <2>1. /\ promise' = [promise EXCEPT ![h] = promise[from], ![from] = NULL]
          /\ UNCHANGED <<held, counted, state, ref_cnt>>
          /\ h # from /\ promise[h] = NULL /\ promise[from] # NULL
      BY <1>9 DEF MoveConstruct, Usable
    <2>2. \A k \in Handles : promise'[k] # NULL => Exists(promise[k])'
      BY <1>0, <1>1, <2>1 DEF Exists, TypeOK
    <2>3. ASSUME NEW f \in Frames, Exists(f)' PROVE Counted(f)'
      <3>1. Cardinality(RefsTo(f)') <= Cardinality(RefsTo(f))
        <4>1. Cardinality(RefsTo(f)') = Cardinality(RefsTo(f))
          BY <1>0, <2>1, MoveHandle
        <4> QED
          BY <4>1, RefsFinite
      <3>2. /\ Exists(f) /\ Held(f)' = Held(f) /\ Own(f)' = Own(f)
            /\ ref_cnt'[f] = ref_cnt[f]
        BY <2>1, <2>3 DEF Held, Own, Exists
      <3> QED
        BY <1>6, <2>3, <3>1, <3>2
    <2> QED
      BY <2>2, <2>3 DEF RefInv
  <1>10. ASSUME NEW h \in Handles, MoveAssignOrReset(h) PROVE RefInv'
    <2>1. /\ promise' = [promise EXCEPT ![h] = NULL]
          /\ UNCHANGED <<held, counted, state, ref_cnt>>
      BY <1>10 DEF MoveAssignOrReset
    <2>2. \A k \in Handles : promise'[k] # NULL => Exists(promise[k])'
      BY <1>0, <1>1, <2>1 DEF Exists, TypeOK
    <2>3. ASSUME NEW f \in Frames, Exists(f)' PROVE Counted(f)'
      <3>1. Cardinality(RefsTo(f)') <= Cardinality(RefsTo(f))
        BY <1>0, <2>1, SetHandle, TaskAssumption
      <3>2. /\ Exists(f) /\ Held(f)' = Held(f) /\ Own(f)' = Own(f)
            /\ ref_cnt'[f] = ref_cnt[f]
        BY <2>1, <2>3 DEF Held, Own, Exists
      <3> QED
        BY <1>6, <2>3, <3>1, <3>2
    <2> QED
      BY <2>2, <2>3 DEF RefInv
  <1>11. ASSUME NEW h \in Handles, Destruct(h) PROVE RefInv'
    <2>1. PICK d \in Frames : d = promise[h] /\ Exists(d) /\ d # NULL
      BY <1>1, <1>11 DEF Destruct, Usable
    <2>2. /\ promise' = [promise EXCEPT ![h] = NULL] /\ UNCHANGED <<held, counted>>
          /\ LetGo(d)
      BY <1>11, <2>1 DEF Destruct
    <2>3. /\ ref_cnt'[d] = IF ref_cnt[d] = 0 THEN 0 ELSE ref_cnt[d] - 1
          /\ \A f \in Frames : f # d => ref_cnt'[f] = ref_cnt[f] /\ state'[f] = state[f]
          /\ state'[d] = IF ref_cnt[d] = 0 THEN "destroyed" ELSE state[d]
      BY <1>0, <2>1, <2>2 DEF LetGo, TypeOK
    <2>5. Cardinality(RefsTo(d)') = Cardinality(RefsTo(d)) - 1
      BY <1>0, <2>1, <2>2, SetHandle
    <2>6. \A k \in Handles : promise'[k] # NULL => k # h /\ promise'[k] = promise[k]
      BY <1>0, <2>2 DEF TypeOK
    <2>7. ref_cnt[d] = 0 => RefsTo(d)' = {}
      <3> SUFFICES ASSUME ref_cnt[d] = 0 PROVE RefsTo(d)' = {}
        OBVIOUS
      <3>1. Cardinality(RefsTo(d)) >= 1 /\ Cardinality(RefsTo(d)) \in Nat
        BY <2>1, RefsFinite
      <3>2. Cardinality(RefsTo(d)) + Held(d) + Own(d) = 1
        BY <1>0, <2>1, <3>1, ZeroMeansEnded, RefsType
      <3>3. Cardinality(RefsTo(d)') = 0
        BY <2>5, <3>1, <3>2, RefsType
      <3> QED
        BY <3>3, RefsTypeNext
    <2>8. \A k \in Handles : promise'[k] # NULL => Exists(promise[k])'
      <3> TAKE k \in Handles
      <3> HAVE promise'[k] # NULL
      <3>1. promise'[k] = promise[k] /\ promise[k] \in Frames /\ Exists(promise[k])
        BY <1>1, <2>6
      <3>2. promise[k] = d => ref_cnt[d] # 0
        <4>1. promise[k] = d => RefsTo(d)' # {}
          BY <3>1 DEF RefsTo
        <4> QED
          BY <2>7, <4>1
      <3> QED
        BY <2>3, <3>1, <3>2 DEF Exists
    <2>9. ASSUME NEW f \in Frames, Exists(f)' PROVE Counted(f)'
      <3>1. Held(f)' = Held(f) /\ Own(f)' = Own(f)
        BY <2>2 DEF Held, Own
      <3>2. CASE f = d
        <4>1. ref_cnt[f] # 0 /\ Exists(f)
          BY <2>1, <2>3, <2>9, <3>2 DEF Exists
        <4>2. Refs(f)' + ref_cnt[f] <= Refs(f) + ref_cnt'[f]
          BY <1>3, <2>3, <2>5, <3>1, <3>2, <4>1, RefsType, RefsTypeNext, RefsFinite DEF Refs
        <4> QED
          BY <2>9, <4>1, <4>2, CountedKeeps
      <3>3. CASE f # d
        <4>1. Cardinality(RefsTo(f)') <= Cardinality(RefsTo(f))
          BY <1>0, <2>2, <3>3, SetHandle, TaskAssumption
        <4>2. Exists(f) /\ ref_cnt'[f] = ref_cnt[f]
          BY <2>3, <2>9, <3>3 DEF Exists
        <4> QED
          BY <1>6, <2>9, <3>1, <4>1, <4>2
      <3> QED
        BY <3>2, <3>3
    <2> QED
      BY <2>8, <2>9 DEF RefInv
  <1>12. ASSUME NEW h \in Handles, BeginWait(h) \/ EndWait(h) \/ Serve(h) PROVE RefInv'
    <2>1. UNCHANGED <<promise, held, counted, ref_cnt, state>>
      BY <1>12 DEF BeginWait, EndWait, Serve
    <2> QED
      BY <2>1, RefSame DEF Exists
  <1>13. ASSUME NEW h \in Handles, Commit(h) PROVE RefInv'
    <2>1. PICK c \in Frames : c = promise[h] /\ Exists(c) /\ state[c] = "initial"
      BY <1>1, <1>13 DEF Commit, Usable
    <2>2. /\ counted' = [counted EXCEPT ![c] = TRUE] /\ UNCHANGED <<promise, held>>
          /\ ref_cnt' = [ref_cnt EXCEPT ![c] = @ + 1]
          /\ state' = [state EXCEPT ![c] = "ready"]
      BY <1>13, <2>1 DEF Commit, Inc
    <2>3. /\ counted'[c] /\ ref_cnt'[c] = ref_cnt[c] + 1 /\ state'[c] = "ready"
          /\ \A f \in Frames : f # c => /\ counted'[f] = counted[f]
                                       /\ ref_cnt'[f] = ref_cnt[f]
                                       /\ state'[f] = state[f]
      BY <1>0, <2>2 DEF TypeOK
    <2>4. \A f \in Frames : Exists(f)' <=> Exists(f)
      BY <2>1, <2>3 DEF Exists
    <2>5. \A k \in Handles : promise'[k] # NULL => Exists(promise[k])'
      BY <1>1, <2>2, <2>4
    <2>6. ASSUME NEW f \in Frames, Exists(f)' PROVE Counted(f)'
      <3>1. RefsTo(f)' = RefsTo(f) /\ Held(f)' = Held(f)
        BY <2>2 DEF RefsTo, Held
      <3>2. CASE f = c
        <4>1. Own(f)' <= Own(f) + 1
          BY RefsType, RefsTypeNext
        <4>2. Refs(f)' + ref_cnt[f] <= Refs(f) + ref_cnt'[f]
          BY <1>3, <2>3, <3>1, <3>2, <4>1, RefsType, RefsTypeNext, RefsFinite DEF Refs
        <4> QED
          BY <2>4, <2>6, <4>2, CountedKeeps
      <3>3. CASE f # c
        <4>1. Own(f)' = Own(f) /\ ref_cnt'[f] = ref_cnt[f]
          BY <2>3, <3>3 DEF Own
        <4>2. Cardinality(RefsTo(f)') <= Cardinality(RefsTo(f))
          BY <3>1, RefsFinite
        <4> QED
          BY <1>6, <2>4, <2>6, <3>1, <4>1, <4>2
      <3> QED
        BY <3>2, <3>3
    <2> QED
      BY <2>5, <2>6 DEF RefInv
  <1>14. ASSUME NEW t \in Threads, NEW f \in Frames, EnterBody(t, f), Exists(f),
                UNCHANGED <<promise, held, counted, ref_cnt>>
         PROVE  RefInv'
    <2>1. \A g \in Frames : Exists(g)' <=> Exists(g)
      BY <1>0, <1>14 DEF EnterBody, Exists, TypeOK
    <2> QED
      BY <1>14, <2>1, RefSame
  <1>15. ASSUME NEW t \in Threads, ResumeReady(t) PROVE RefInv'
    <2>1. PICK f \in Frames : state[f] = "ready" /\ EnterBody(t, f)
      BY <1>15 DEF ResumeReady
    <2> QED
      BY <1>14, <1>15, <2>1 DEF ResumeReady, Exists
  <1>16. ASSUME NEW t \in Threads, NEW h \in Handles, ResumeDirectly(t, h) PROVE RefInv'
    <2>1. PICK f \in Frames : f = promise[h] /\ Exists(f)
      BY <1>1, <1>16 DEF ResumeDirectly, Usable
    <2>2. EnterBody(t, f) /\ UNCHANGED <<promise, held, counted, ref_cnt>>
      BY <1>16, <2>1 DEF ResumeDirectly
    <2> QED
      BY <1>14, <2>1, <2>2
  <1>17. ASSUME NEW t \in Threads,
                \/ Suspend(t) \/ Return(t) \/ FinalRoot(t) \/ Tell(t) \/ DeleteLocalVar(t)
         PROVE  RefInv'
    <2>1. UNCHANGED <<promise, held, counted, ref_cnt>>
      BY <1>17 DEF Suspend, Return, FinalRoot, Tell, DeleteLocalVar
    <2>2. Suspend(t) \/ Return(t) => Exists(cur[t])
      BY <1>0 DEF Suspend, Return, ThreadInv, Exists
    <2>3. \A f \in Frames : Exists(f)' <=> Exists(f)
      BY <1>0, <1>17, <2>2
      DEF Suspend, Return, FinalRoot, Tell, DeleteLocalVar, Exists, TypeOK
    <2> QED
      BY <2>1, <2>3, RefSame
  <1>18. ASSUME NEW t \in Threads, FinalCallee(t) PROVE RefInv'
    <2>1. UNCHANGED <<promise, held, counted, ref_cnt>>
      BY <1>18 DEF FinalCallee
    <2>2. Exists(prev[cur[t]])
      BY <1>18, CalleeEnds DEF Exists
    <2>3. \A f \in Frames : Exists(f)' <=> Exists(f)
      BY <1>0, <1>18, <2>2 DEF FinalCallee, Exists, TypeOK
    <2> QED
      BY <2>1, <2>3, RefSame
  (* What co_await does to the frames that exist and to those that are held. *)
  <1>19. ASSUME NEW t \in Threads, NEW c \in Frames, Called(t, c)
         PROVE  /\ Exists(c)' /\ \A f \in Frames : f # c => (Exists(f)' <=> Exists(f))
                /\ Held(c) = 0 /\ Held(c)' = 1
                /\ \A f \in Frames : f # c => Held(f)' = Held(f)
                /\ \A f \in Frames : Own(f)' = Own(f)
    <2>1. cur[t] \in Frames /\ state[cur[t]] = "running" /\ cur[t] # c
      BY <1>19, CalleeBegins
    <2>2. /\ state'[c] = "running" /\ state'[cur[t]] = "calling"
          /\ \A f \in Frames : f # c /\ f # cur[t] => state'[f] = state[f]
      BY <1>0, <1>19, <2>1 DEF Called, Await, TypeOK
    <2>3. /\ held'[cur[t]] = held[cur[t]] \cup {c}
          /\ \A f \in Frames : f # cur[t] => held'[f] = held[f]
          /\ counted' = counted
      BY <1>0, <1>19, <2>1 DEF Called, Await, TypeOK
    <2>4. /\ Exists(c)' /\ \A f \in Frames : f # c => (Exists(f)' <=> Exists(f))
      BY <2>1, <2>2 DEF Exists
    <2>5. Held(c) = 0
      BY <1>4, <1>19 DEF Called, Exists
    <2>6. Held(c)' = 1
      BY <2>1, <2>3 DEF Held
    <2>7. \A f \in Frames : f # c => Held(f)' = Held(f)
      BY <2>1, <2>3 DEF Held
    <2> QED
      BY <2>3, <2>4, <2>5, <2>6, <2>7 DEF Own
  <1>20. ASSUME NEW t \in Threads, CallNew(t) PROVE RefInv'
    <2>1. PICK c \in Frames : c = Unused /\ state[c] = "none" /\ ~Exists(c)
      BY <1>20, UnusedFrame DEF CallNew, Exists
    <2>2. /\ Called(t, c) /\ promise' = promise
          /\ ref_cnt' = [ref_cnt EXCEPT ![c] = 1]
      BY <1>0, <1>20, <2>1 DEF CallNew, Called, FrameInv
    <2>3. ref_cnt'[c] = 1 /\ \A f \in Frames : f # c => ref_cnt'[f] = ref_cnt[f]
      BY <1>0, <2>2 DEF TypeOK
    <2>4. \A k \in Handles : promise'[k] # NULL => Exists(promise[k])'
      <3> TAKE k \in Handles
      <3> HAVE promise'[k] # NULL
      <3>1. PICK f \in Frames : f = promise[k] /\ Exists(f) /\ f # c
        BY <1>1, <2>1, <2>2
      <3>2. Exists(f)'
        BY <1>19, <2>2, <3>1
      <3> QED
        BY <2>2, <3>1, <3>2 DEF Exists
    <2>5. Counted(c)'
      <3>1. RefsTo(c)' = {}
        BY <1>5, <2>1, <2>2 DEF RefsTo
      <3>2. Cardinality(RefsTo(c)') = 0
        BY <3>1, RefsTypeNext
      <3>3. Held(c)' = 1
        BY <1>19, <2>2
      <3>4. Own(c) = 0
        BY <1>0, <2>1 DEF FrameInv, Own
      <3>5. Own(c)' = 0
        BY <1>19, <2>2, <3>4
      <3> QED
        BY <2>3, <3>2, <3>3, <3>5, RefsTypeNext DEF Counted
    <2>6. ASSUME NEW f \in Frames, Exists(f)', f # c PROVE Counted(f)'
      <3>1. Exists(f) /\ Held(f)' = Held(f) /\ Own(f)' = Own(f)
        BY <1>19, <2>2, <2>6
      <3>2. RefsTo(f)' = RefsTo(f)
        BY <2>2 DEF RefsTo
      <3>3. Cardinality(RefsTo(f)') <= Cardinality(RefsTo(f))
        BY <3>2, RefsFinite
      <3> QED
        BY <1>6, <2>3, <2>6, <3>1, <3>3
    <2> QED
      BY <2>4, <2>5, <2>6 DEF RefInv
  <1>21. ASSUME NEW t \in Threads, NEW h \in Handles, CallHandle(t, h) PROVE RefInv'
    <2>1. PICK c \in Frames : c = promise[h] /\ Exists(c) /\ c # NULL
      BY <1>1, <1>21, TaskAssumption DEF CallHandle, Usable
    <2>2. /\ Called(t, c) /\ promise' = [promise EXCEPT ![h] = NULL]
          /\ ref_cnt' = ref_cnt
      BY <1>21, <2>1 DEF CallHandle, Called
    <2>3. \A k \in Handles : promise'[k] # NULL => Exists(promise[k])'
      <3> TAKE k \in Handles
      <3> HAVE promise'[k] # NULL
      <3>1. promise'[k] = promise[k]
        BY <1>0, <2>2 DEF TypeOK
      <3>2. PICK f \in Frames : f = promise[k] /\ Exists(f)
        BY <1>1, <3>1
      <3>3. Exists(f)'
        BY <1>19, <2>2, <3>2
      <3> QED
        BY <3>1, <3>2, <3>3 DEF Exists
    <2>4. ASSUME NEW f \in Frames, Exists(f)' PROVE Counted(f)'
      <3>1. Own(f)' = Own(f) /\ ref_cnt'[f] = ref_cnt[f]
        BY <1>19, <2>2
      <3>2. CASE f = c
        <4>1. Cardinality(RefsTo(f)') = Cardinality(RefsTo(f)) - 1
          BY <1>0, <2>1, <2>2, <3>2, SetHandle
        <4>2. Held(f) = 0 /\ Held(f)' = 1
          BY <1>19, <2>2, <3>2
        <4>3. Refs(f)' + ref_cnt[f] <= Refs(f) + ref_cnt'[f]
          BY <1>3, <3>1, <4>1, <4>2, RefsType, RefsTypeNext, RefsFinite DEF Refs
        <4> QED
          BY <2>1, <2>4, <3>2, <4>3, CountedKeeps
      <3>3. CASE f # c
        <4>1. Exists(f) /\ Held(f)' = Held(f)
          BY <1>19, <2>2, <2>4, <3>3
        <4>2. Cardinality(RefsTo(f)') <= Cardinality(RefsTo(f))
          BY <1>0, <2>2, SetHandle, TaskAssumption
        <4> QED
          BY <1>6, <2>4, <3>1, <4>1, <4>2
      <3> QED
        BY <3>2, <3>3
    <2> QED
      BY <2>3, <2>4 DEF RefInv
  <1>22. ASSUME NEW t \in Threads, DropAwaitable(t) PROVE RefInv'
    <2>1. cur[t] \in Frames
      BY <1>2, <1>22 DEF DropAwaitable
    <2>2. PICK c \in held[cur[t]] :
            LetGo(c) /\ held' = [held EXCEPT ![cur[t]] = @ \ {c}]
      BY <1>22 DEF DropAwaitable
    <2>3. c \in Frames
      BY <1>0, <2>1 DEF TypeOK
    <2>4. Exists(c) /\ c \notin roots /\ \A g \in Frames : c \in held[g] => g = cur[t]
      BY <1>0, <2>1, <2>3 DEF HeldInv
    <2>5. Held(c) = 1
      BY <2>1 DEF Held
    <2>6. ref_cnt[c] # 0
      BY <1>0, <2>3, <2>4, <2>5, ZeroMeansEnded, RefsType, RefsFinite DEF Ended
    <2>7. /\ UNCHANGED <<promise, counted, state>> /\ ref_cnt'[c] = ref_cnt[c] - 1
          /\ \A f \in Frames : f # c => ref_cnt'[f] = ref_cnt[f]
      BY <1>0, <1>22, <2>2, <2>3, <2>6 DEF DropAwaitable, LetGo, TypeOK
    <2>8. /\ held'[cur[t]] = held[cur[t]] \ {c}
          /\ \A g \in Frames : g # cur[t] => held'[g] = held[g]
      BY <1>0, <2>1, <2>2 DEF TypeOK
    <2>9. Held(c)' = 0
      BY <2>1, <2>4, <2>8 DEF Held
    <2>10. \A k \in Handles : promise'[k] # NULL => Exists(promise[k])'
      BY <1>1, <2>7 DEF Exists
    <2>11. ASSUME NEW f \in Frames, Exists(f)' PROVE Counted(f)'
      <3>1. Exists(f) /\ RefsTo(f)' = RefsTo(f) /\ Own(f)' = Own(f)
        BY <2>7, <2>11 DEF Exists, RefsTo, Own
      <3>2. CASE f = c
        <4>1. Refs(f)' + ref_cnt[f] <= Refs(f) + ref_cnt'[f]
          BY <1>3, <2>5, <2>7, <2>9, <3>1, <3>2, RefsType, RefsTypeNext, RefsFinite DEF Refs
        <4> QED
          BY <2>11, <3>1, <4>1, CountedKeeps
      <3>3. CASE f # c
        <4>1. Held(f)' = Held(f)
          BY <2>1, <2>8, <3>3 DEF Held
        <4>2. Cardinality(RefsTo(f)') <= Cardinality(RefsTo(f))
          BY <3>1, RefsFinite
        <4> QED
          BY <1>6, <2>7, <2>11, <3>1, <3>3, <4>1, <4>2
      <3> QED
        BY <3>2, <3>3
    <2> QED
      BY <2>10, <2>11 DEF RefInv
  <1>23. ASSUME NEW t \in Threads, ReleaseSelf(t) PROVE RefInv'
    <2>1. PICK c \in Frames : c = cur[t] /\ state[c] = "final" /\ c \in roots /\ c # NULL
      BY <1>0, <1>2, <1>23 DEF ReleaseSelf, ThreadInv, Leaving
    <2>2. /\ UNCHANGED <<promise, held, counted, roots>> /\ LetGo(c)
          /\ cur' = [cur EXCEPT ![t] = NULL]
      BY <1>23, <2>1 DEF ReleaseSelf
    <2>3. /\ ref_cnt'[c] = IF ref_cnt[c] = 0 THEN 0 ELSE ref_cnt[c] - 1
          /\ \A f \in Frames : f # c => ref_cnt'[f] = ref_cnt[f] /\ state'[f] = state[f]
          /\ state'[c] = IF ref_cnt[c] = 0 THEN "destroyed" ELSE state[c]
      BY <1>0, <2>2 DEF LetGo, TypeOK
    <2>4. ~Ended(c)
      BY <2>1 DEF Ended, InThread
    <2>5. Refs(c) <= ref_cnt[c]
      <3>1. Refs(c) <= ref_cnt[c] + Missing(c)
        BY <1>0, <2>1 DEF RefInv, Counted, Refs, Exists
      <3> QED
        BY <1>3, <2>4, <3>1 DEF Missing
    <2>6. \A f : Refs(f)' = Refs(f) /\ RefsTo(f)' = RefsTo(f)
                /\ Held(f)' = Held(f) /\ Own(f)' = Own(f)
      BY <2>2 DEF Refs, RefsTo, Held, Own
    <2>7. ref_cnt[c] = 0 => \A k \in Handles : promise[k] # c
      <3> SUFFICES ASSUME ref_cnt[c] = 0, NEW k \in Handles, promise[k] = c PROVE FALSE
        OBVIOUS
      <3>1. Cardinality(RefsTo(c)) >= 1 /\ Cardinality(RefsTo(c)) \in Nat
        BY RefsFinite
      <3> QED
        BY <2>5, <3>1, RefsType DEF Refs
    <2>8. \A k \in Handles : promise'[k] # NULL => Exists(promise[k])'
      BY <1>1, <2>2, <2>3, <2>7 DEF Exists
    <2>9. ASSUME NEW f \in Frames, Exists(f)' PROVE Counted(f)'
      <3>1. CASE f = c
        <4>1. ref_cnt[c] # 0 /\ state'[c] = "final"
          BY <2>1, <2>3, <2>9, <3>1 DEF Exists
        <4>2. \A u \in Threads : cur'[u] # c
          BY <1>0, <2>1, <2>2 DEF ThreadInv, TypeOK
        <4>3. Ended(c)'
          BY <2>1, <2>2, <4>1, <4>2 DEF Ended, InThread
        <4>4. Missing(c)' = 1
          BY <4>3 DEF Missing
        <4>5. Refs(c)' <= ref_cnt'[c] + Missing(c)'
          BY <1>3, <2>3, <2>5, <2>6, <4>1, <4>4
        <4> QED
          BY <3>1, <4>5 DEF Counted, Refs
      <3>2. CASE f # c
        <4>1. Exists(f) /\ ref_cnt'[f] = ref_cnt[f]
          BY <2>3, <2>9, <3>2 DEF Exists
        <4>2. Refs(f)' + ref_cnt[f] <= Refs(f) + ref_cnt'[f]
          BY <1>3, <2>6, <4>1
        <4> QED
          BY <2>9, <4>1, <4>2, CountedKeeps
      <3> QED
        BY <3>1, <3>2
    <2> QED
      BY <2>8, <2>9 DEF RefInv
  <1>24. CASE UNCHANGED vars
    BY <1>24, RefSame DEF vars, Exists
  <1> QED
    BY <1>7, <1>8, <1>9, <1>10, <1>11, <1>12, <1>13, <1>15, <1>16, <1>17, <1>18,
       <1>20, <1>21, <1>22, <1>23, <1>24
    DEF Next, Handle, Thread

LEMMA InvStep == Inv /\ [Next]_vars => Inv'
  <1> SUFFICES ASSUME Inv, [Next]_vars PROVE Inv'
    OBVIOUS
  <1>1. TypeOK' /\ Move
    BY TypeStep, Moves
  <1>2. ThreadInv'
    BY <1>1, ThreadStep
  <1>3. /\ FrameInv' /\ HeldInv' /\ RingInv' /\ LocalInv' /\ CallersInv' /\ RefInv'
    BY <1>1, <1>2, FrameStep, HeldStep, RingStep, LocalStep, CallersStep, RefStep
  <1> QED
    BY <1>1, <1>2, <1>3 DEF Inv

LEMMA Invariance == Spec => []Inv
  <1>1. Init => Inv
    BY InitInv
  <1>2. Inv /\ [Next]_vars => Inv'
    BY InvStep
  <1> QED
    BY <1>1, <1>2, PTL DEF Spec

-----------------------------------------------------------------------------
LEMMA InvImpliesDangling == Inv => NothingDangling
  <1> SUFFICES ASSUME Inv PROVE NothingDangling
    OBVIOUS
  <1>0. /\ TypeOK /\ ThreadInv /\ HeldInv /\ RingInv /\ LocalInv /\ RefInv
        /\ Going \subseteq Frames
    BY DEF Inv, Going
  <1>1. \A f \in Going : Exists(f)
    BY <1>0, GoingFrames DEF Exists
  <1>2. \A t \in Threads : cur[t] # NULL => Exists(cur[t])
    BY <1>0, <1>1, GoingFrames DEF ThreadInv
  <1>3. ASSUME NEW f \in Going PROVE Exists(prev[f]) /\ Exists(next[f])
    <2>1. CASE state[f] = "calling"
      <3>1. next[f] \in Going
        BY <1>0, <2>1 DEF RingInv
      <3>2. f \in roots => prev[f] \in Going
        BY <1>0, <2>1 DEF RingInv
      <3>3. f \notin roots => state[prev[f]] = "calling"
        BY <1>0 DEF RingInv
      <3> QED
        BY <1>1, <3>1, <3>2, <3>3 DEF Exists
    <2>2. CASE state[f] # "calling"
      <3>1. next[f] = Root(f) /\ prev[Root(f)] = f
        BY <1>0, <2>2 DEF RingInv
      <3>2. Exists(Root(f))
        BY <1>0, <1>1 DEF Root, LocalInv, Exists
      <3>3. f \notin roots => state[prev[f]] = "calling"
        BY <1>0 DEF RingInv
      <3>4. f \in roots => Root(f) = f
        BY <1>0 DEF Root, LocalInv
      <3> QED
        BY <1>1, <3>1, <3>2, <3>3, <3>4 DEF Exists
    <2> QED
      BY <2>1, <2>2
  <1>4. \A f \in Frames : \A c \in held[f] : Exists(c)
    BY <1>0 DEF HeldInv, TypeOK
  <1>5. \A f \in Frames : Active(f) => f \in Going
    BY DEF Going
  <1>6. \A h \in Handles : promise[h] # NULL => Exists(promise[h])
    BY <1>0 DEF RefInv
  <1> QED
    BY <1>2, <1>3, <1>4, <1>5, <1>6 DEF NothingDangling

LEMMA InvImpliesReturns == Inv => ReturnsToCaller
  <1> SUFFICES ASSUME Inv, NEW f \in Frames, f \in Going
               PROVE  /\ f \notin roots => state[prev[f]] = "calling" /\ f \in held[prev[f]]
                      /\ f \in roots /\ state[f] # "calling" => prev[f] = f
    BY DEF ReturnsToCaller, Going
  <1>0. RingInv /\ LocalInv
    BY DEF Inv
  <1>1. f \notin roots => state[prev[f]] = "calling" /\ f \in held[prev[f]]
    <2> HAVE f \notin roots
    <2>1. prev[f] \in Frames /\ state[prev[f]] = "calling" /\ next[prev[f]] = f
      BY <1>0 DEF RingInv
    <2>2. next[prev[f]] \in held[prev[f]]
      BY <1>0, <2>1 DEF RingInv
    <2> QED
      BY <2>1, <2>2
  <1>2. f \in roots /\ state[f] # "calling" => prev[f] = f
    <2> HAVE f \in roots /\ state[f] # "calling"
    <2>1. local_var[f] \in {NULL, f}
      BY <1>0 DEF LocalInv
    <2>2. Root(f) = f
      BY <2>1 DEF Root
    <2> QED
      BY <1>0, <2>2 DEF RingInv
  <1> QED
    BY <1>1, <1>2

LEMMA InvImpliesControl == Inv => OneControl
  <1> SUFFICES ASSUME Inv PROVE OneControl
    OBVIOUS
  <1>0. TypeOK /\ ThreadInv /\ CallersInv
    BY DEF Inv
  <1>1. ASSUME NEW t \in Threads, cur[t] # NULL
        PROVE  /\ state[cur[t]] \in {"running", "final"}
               /\ \A u \in Threads \ {t} : cur[u] # cur[t]
    BY <1>0, <1>1 DEF ThreadInv, TypeOK, ThreadPC, Leaving
  <1>2. ASSUME NEW f \in Frames, NEW g \in Frames, f # g, f \in Going, g \in Going,
               state[f] # "calling", state[g] # "calling",
               local_var[f] # NULL, local_var[f] = local_var[g]
        PROVE  FALSE
    BY <1>0, <1>2 DEF CallersInv
  <1> QED
    BY <1>1, <1>2 DEF OneControl, Going

LEMMA InvImpliesLocal == Inv => LocalVarOfChain
  <1> SUFFICES ASSUME Inv PROVE LocalVarOfChain
    OBVIOUS
  <1>0. LocalInv
    BY DEF Inv
  <1>1. \A f \in Frames : Active(f) <=> f \in Going
    BY DEF Going
  <1>2. \A f \in Frames : local_var[f] # NULL /\ Active(f)
          => /\ local_var[f] \in local_vars
             /\ f \notin roots => local_var[f] = local_var[prev[f]]
    BY <1>0, <1>1 DEF LocalInv
  <1>3. \A f \in local_vars : Active(f) \/ state[f] = "initial"
    BY <1>0 DEF LocalInv, Going
  <1> QED
    BY <1>0, <1>2, <1>3 DEF LocalInv, LocalVarOfChain

LEMMA OnlyEndedDestroyed ==
  ASSUME Inv, [Next]_vars
  PROVE  \A f \in Frames : state[f] # "destroyed" /\ state'[f] = "destroyed"
           => state[f] \in {"initial", "final"}
  <1>0. TypeOK /\ ThreadInv /\ Move
    BY Moves DEF Inv
  <1> USE DEF frameVars
  <1> SUFFICES ASSUME NEW f \in Frames, state[f] # "destroyed", state'[f] = "destroyed"
               PROVE  state[f] = "final"
    OBVIOUS
  <1>1. CASE Quiet
    BY <1>1 DEF Quiet
  <1>2. ASSUME NEW g \in Frames, Destroyed(g) \/ Made(g) \/ Served(g) \/ Committed(g)
        PROVE  state[f] = "final"
    BY <1>0, <1>2 DEF Destroyed, Ended, Made, Served, Committed, TypeOK
  <1>3. ASSUME NEW t \in Threads, NEW g \in Frames,
               Entered(t, g) \/ Called(t, g) \/ Dropped(t, g)
        PROVE  state[f] = "final"
    BY <1>0, <1>3 DEF Entered, EnterBody, Called, Await, Dropped, TypeOK
  <1>4. ASSUME NEW t \in Threads, Suspend(t) \/ Return(t) \/ FinalCallee(t)
                                  \/ Passed(t) \/ DeleteLocalVar(t)
        PROVE  state[f] = "final"
    BY <1>0, <1>4 DEF Suspend, Return, FinalCallee, Passed, DeleteLocalVar, TypeOK
  <1>5. ASSUME NEW t \in Threads, Released(t) PROVE state[f] = "final"
    BY <1>0, <1>5 DEF Released, ThreadInv, Leaving, TypeOK
  <1> QED
    BY <1>0, <1>1, <1>2, <1>3, <1>4, <1>5 DEF Move

(* The committed roots that have not ended.                                   *)
Waits(f) == \/ state[f] \in {"ready", "running", "calling"}
            \/ \E t \in Threads : cur[t] = f /\ pc[t] = "final"
AtWork == {f \in roots : counted[f] /\ Waits(f)}

LEMMA AtWorkStep ==
  ASSUME Inv, [Next]_vars, TypeOK'
  PROVE  \/ AtWork' = AtWork /\ running_coro_cnt' = running_coro_cnt
         \/ \E f \in Frames : /\ f \notin AtWork /\ AtWork' = AtWork \cup {f}
                             /\ running_coro_cnt' = running_coro_cnt + 1
         \/ \E f \in AtWork : /\ AtWork' = AtWork \ {f}
                             /\ running_coro_cnt' = running_coro_cnt - 1
  <1> USE DEF handleVars, threadVars, callVars, localVars, ringVars, rootVars
  <1>0. TypeOK /\ ThreadInv /\ FrameInv /\ RefInv /\ RingInv /\ roots \subseteq Frames
    BY DEF Inv, TypeOK
  <1>1. ASSUME NEW t \in Threads, pc[t] # "idle"
        PROVE  cur[t] \in Frames /\ cur[t] # NULL
    BY <1>0, <1>1, HasFrame
  <1>2. ASSUME NEW h \in Handles, promise[h] # NULL PROVE promise[h] \in Frames
    BY <1>0, <1>2 DEF TypeOK, FrameOrNull
  <1>3. \A f \in Frames : state[f] \in {"none", "initial"} => ~counted[f] /\ f \notin roots
    BY <1>0 DEF FrameInv
  <1> DEFINE Same == AtWork' = AtWork /\ running_coro_cnt' = running_coro_cnt
  (* As many frames wait for their end if each root does as before. *)
  <1>4. ASSUME roots' = roots, counted' = counted, running_coro_cnt' = running_coro_cnt,
               \A f \in roots : Waits(f)' <=> Waits(f)
        PROVE  Same
    BY <1>4 DEF AtWork
  <1>5. ASSUME UNCHANGED <<state, pc, cur, roots, counted, running_coro_cnt>> PROVE Same
    BY <1>4, <1>5 DEF Waits
  <1>6. ASSUME NEW h \in Handles, Create(h) PROVE Same
    <2>1. Unused \in Frames /\ state[Unused] = "none"
      BY <1>6, UnusedFrame DEF Create
    <2>2. \A f \in roots : state'[f] = state[f]
      BY <1>0, <1>3, <1>6, <2>1 DEF Create, TypeOK
    <2> QED
      BY <1>4, <1>6, <2>2 DEF Create, Waits
  <1>7. ASSUME NEW h \in Handles, NEW from \in Handles,
               \/ Copy(h, from) \/ MoveConstruct(h, from) \/ MoveAssignOrReset(h)
               \/ BeginWait(h) \/ EndWait(h) \/ Serve(h)
        PROVE  Same
    BY <1>5, <1>7
    DEF Copy, MoveConstruct, MoveAssignOrReset, BeginWait, EndWait, Serve
  <1>8. ASSUME NEW h \in Handles, Destruct(h) PROVE Same
    <2>1. UNCHANGED <<pc, cur, roots, counted, running_coro_cnt>>
      BY <1>8 DEF Destruct
    <2>2. state' = state \/ \E f \in Frames : Destroyed(f)
      <3>1. CASE state' = state
        BY <3>1
      <3>2. CASE state' # state
        <4>1. PICK f \in Frames : f = promise[h]
          BY <1>2, <1>8 DEF Destruct, Usable
        <4>2. ref_cnt[f] = 0 /\ state' = [state EXCEPT ![f] = "destroyed"] /\ Exists(f)
          BY <1>0, <1>8, <3>2, <4>1 DEF Destruct, LetGo, RefInv, Usable
        <4>3. Cardinality(RefsTo(f)) + Held(f) + Own(f) >= 1
          BY <4>1, RefsFinite, RefsType
        <4>4. Ended(f)
          BY <1>0, <4>2, <4>3, ZeroMeansEnded
        <4>5. Destroyed(f)
          BY <1>8, <4>2, <4>4 DEF Destruct, Destroyed
        <4> QED
          BY <4>5
      <3> QED
        BY <3>1, <3>2
    <2>3. \A f \in roots : Waits(f)' <=> Waits(f)
      BY <1>0, <2>1, <2>2 DEF Destroyed, Ended, InThread, Waits, TypeOK
    <2> QED
      BY <1>4, <2>1, <2>3
  <1>9. ASSUME NEW h \in Handles, Commit(h)
        PROVE  \E f \in Frames : /\ f \notin AtWork /\ AtWork' = AtWork \cup {f}
                                /\ running_coro_cnt' = running_coro_cnt + 1
    <2>1. PICK c \in Frames : c = promise[h]
      BY <1>2, <1>9 DEF Commit, Usable
    <2>2. /\ state[c] = "initial" /\ running_coro_cnt' = running_coro_cnt + 1
          /\ counted' = [counted EXCEPT ![c] = TRUE]
          /\ state' = [state EXCEPT ![c] = "ready"]
          /\ roots' = roots \cup {c} /\ pc' = pc /\ cur' = cur
      BY <1>9, <2>1 DEF Commit
    <2>3. /\ state'[c] = "ready" /\ counted'[c]
          /\ \A f \in Frames : f # c => state'[f] = state[f] /\ counted'[f] = counted[f]
      BY <1>0, <2>2 DEF TypeOK
    <2>4. c \notin roots
      BY <1>3, <2>2
    <2>5. Waits(c)' /\ \A f \in roots : (Waits(f)' <=> Waits(f)) /\ counted'[f] = counted[f]
      BY <1>0, <2>2, <2>3, <2>4 DEF Waits
    <2>6. c \notin AtWork /\ AtWork' = AtWork \cup {c}
      BY <2>2, <2>3, <2>4, <2>5 DEF AtWork
    <2> QED
      BY <2>2, <2>6
  <1>10. ASSUME NEW t \in Threads, ResumeReady(t) PROVE Same
    <2>1. PICK f \in Frames : state[f] = "ready" /\ EnterBody(t, f)
      BY <1>10 DEF ResumeReady
    <2>2. /\ state'[f] = "running" /\ \A g \in Frames : g # f => state'[g] = state[g]
          /\ pc[t] = "idle" /\ cur[t] = NULL
          /\ \A u \in Threads : IF u = t THEN pc'[u] = "body"
                                         ELSE pc'[u] = pc[u] /\ cur'[u] = cur[u]
      BY <1>0, <1>10, <2>1 DEF ResumeReady, EnterBody, ThreadInv, TypeOK
    <2>3. \A g \in roots : Waits(g)' <=> Waits(g)
      BY <1>0, <2>1, <2>2 DEF Waits
    <2> QED
      BY <1>4, <1>10, <2>3 DEF ResumeReady
  <1>11. ASSUME NEW t \in Threads, NEW h \in Handles, ResumeDirectly(t, h) PROVE Same
    <2>1. PICK f \in Frames : f = promise[h]
      BY <1>2, <1>11 DEF ResumeDirectly, Usable
    <2>2. /\ \A g \in Frames : g # f => state'[g] = state[g]
          /\ pc[t] = "idle" /\ state[f] = "initial"
          /\ \A u \in Threads : IF u = t THEN pc'[u] = "body"
                                         ELSE pc'[u] = pc[u] /\ cur'[u] = cur[u]
          /\ roots' = roots \cup {f} /\ UNCHANGED <<counted, running_coro_cnt>>
      BY <1>0, <1>11, <2>1 DEF ResumeDirectly, EnterBody, TypeOK
    <2>3. f \notin roots /\ ~counted[f]
      BY <1>3, <2>2
    <2>4. \A g \in roots : Waits(g)' <=> Waits(g)
      BY <1>0, <2>2, <2>3 DEF Waits
    <2> QED
      BY <2>2, <2>3, <2>4 DEF AtWork
  <1>12. ASSUME NEW t \in Threads, Suspend(t) \/ Return(t) PROVE Same
    <2>1. cur[t] \in Frames /\ state[cur[t]] = "running" /\ pc[t] = "body"
      BY <1>0, <1>1, <1>12 DEF Suspend, Return, ThreadInv
    <2>2. \A f \in Frames : f # cur[t] => state'[f] = state[f]
      BY <1>0, <1>12 DEF Suspend, Return, TypeOK
    <2>3. \A u \in Threads : u # t => pc'[u] = pc[u] /\ cur'[u] = cur[u]
      BY <1>0, <1>12 DEF Suspend, Return, TypeOK
    <2>4. \/ state'[cur[t]] = "ready" /\ pc'[t] = "idle" /\ cur'[t] = NULL
          \/ cur'[t] = cur[t] /\ pc'[t] = "final"
      BY <1>0, <1>12, <2>1 DEF Suspend, Return, TypeOK
    <2>5. Waits(cur[t]) /\ \A f \in Frames : f = cur[t] => Waits(f)'
      BY <2>1, <2>4 DEF Waits
    <2>6. \A f \in Frames : f # cur[t] => (Waits(f)' <=> Waits(f))
      BY <2>1, <2>2, <2>3, <2>4, TaskAssumption DEF Waits
    <2>7. \A f \in roots : Waits(f)' <=> Waits(f)
      BY <1>0, <2>5, <2>6
    <2> QED
      BY <1>4, <1>12, <2>7 DEF Suspend, Return
  <1>13. ASSUME NEW t \in Threads, NEW c \in Frames, Called(t, c) PROVE Same
    <2>1. /\ cur[t] \in Frames /\ state[cur[t]] = "running" /\ pc[t] = "body"
          /\ c # cur[t] /\ c \notin roots
      BY <1>0, <1>13, CalleeBegins DEF Called, ThreadInv
    <2>2. /\ state'[cur[t]] = "calling"
          /\ \A f \in Frames : f # cur[t] /\ f # c => state'[f] = state[f]
          /\ pc' = pc /\ \A u \in Threads : u # t => cur'[u] = cur[u]
      BY <1>0, <1>13, <2>1 DEF Called, Await, TypeOK
    <2>3. Waits(cur[t]) /\ \A f \in Frames : f = cur[t] => Waits(f)'
      BY <2>1, <2>2 DEF Waits
    <2>4. \A f \in roots : f # cur[t] => (Waits(f)' <=> Waits(f))
      BY <1>0, <2>1, <2>2 DEF Waits
    <2>5. \A f \in roots : Waits(f)' <=> Waits(f)
      BY <1>0, <2>3, <2>4
    <2> QED
      BY <1>4, <1>13, <2>5 DEF Called, Await
  <1>14. ASSUME NEW t \in Threads, CallNew(t) PROVE Same
    <2>1. PICK c \in Frames : c = Unused /\ state[c] = "none"
      BY <1>14, UnusedFrame DEF CallNew
    <2>2. Called(t, c)
      BY <1>0, <1>14, <2>1 DEF CallNew, Called, FrameInv
    <2> QED
      BY <1>13, <2>2
  <1>15. ASSUME NEW t \in Threads, NEW h \in Handles, CallHandle(t, h) PROVE Same
    <2>1. PICK c \in Frames : c = promise[h]
      BY <1>2, <1>15 DEF CallHandle, Usable
    <2>2. Called(t, c)
      BY <1>15, <2>1 DEF CallHandle, Called
    <2> QED
      BY <1>13, <2>2
  <1>16. ASSUME NEW t \in Threads, DropAwaitable(t) PROVE Same
    <2>1. cur[t] \in Frames
      BY <1>1, <1>16 DEF DropAwaitable
    <2>2. PICK c \in held[cur[t]] : LetGo(c)
      BY <1>16 DEF DropAwaitable
    <2>3. c \in Frames /\ Exists(c) /\ c \notin roots
      BY <1>0, <2>1 DEF Inv, HeldInv, TypeOK
    <2>4. \A f \in roots : state'[f] = state[f]
      BY <1>0, <2>2, <2>3 DEF LetGo, TypeOK
    <2> QED
      BY <1>4, <1>16, <2>4 DEF DropAwaitable, Waits
  <1>17. ASSUME NEW t \in Threads, FinalCallee(t) PROVE Same
    <2>1. /\ cur[t] \in Frames /\ cur[t] \notin roots /\ prev[cur[t]] \in Frames
          /\ state[prev[cur[t]]] = "calling"
      BY <1>17, CalleeEnds
    <2>2. /\ state'[prev[cur[t]]] = "running" /\ pc'[t] = "body" /\ pc[t] = "final"
          /\ \A f \in Frames : f # prev[cur[t]] => state'[f] = state[f]
          /\ \A u \in Threads : u # t => pc'[u] = pc[u] /\ cur'[u] = cur[u]
      BY <1>0, <1>17, <2>1 DEF FinalCallee, TypeOK
    <2>3. \A f \in Frames : f = prev[cur[t]] => Waits(f) /\ Waits(f)'
      BY <2>1, <2>2 DEF Waits
    <2>4. \A f \in roots : f # prev[cur[t]] => (Waits(f)' <=> Waits(f))
      BY <1>0, <2>1, <2>2 DEF Waits
    <2>5. \A f \in roots : Waits(f)' <=> Waits(f)
      BY <1>0, <2>3, <2>4
    <2> QED
      BY <1>4, <1>17, <2>5 DEF FinalCallee
  <1>18. ASSUME NEW t \in Threads, FinalRoot(t)
         PROVE  \/ Same
                \/ \E f \in AtWork : /\ AtWork' = AtWork \ {f}
                                    /\ running_coro_cnt' = running_coro_cnt - 1
    <2>1. PICK c \in Frames : c = cur[t] /\ c # NULL /\ c \in roots /\ state[c] = "final"
      BY <1>0, <1>1, <1>18, RootEnds DEF FinalRoot, ThreadInv
    <2>2. /\ pc[t] = "final" /\ pc'[t] = "tell" /\ UNCHANGED <<cur, state, roots, counted>>
          /\ \A u \in Threads : u # t => pc'[u] = pc[u]
          /\ running_coro_cnt' = IF counted[c] THEN running_coro_cnt - 1
                                               ELSE running_coro_cnt
      BY <1>0, <1>18, <2>1 DEF FinalRoot, TypeOK
    <2>3. \A u \in Threads : cur[u] = c => u = t
      BY <1>0, <2>1 DEF ThreadInv
    <2>4. Waits(c) /\ ~Waits(c)'
      BY <2>1, <2>2, <2>3 DEF Waits
    <2>5. \A f \in roots : f # c => (Waits(f)' <=> Waits(f))
      BY <2>1, <2>2 DEF Waits
    <2>6. CASE counted[c]
      <3>1. c \in AtWork /\ AtWork' = AtWork \ {c}
        BY <2>1, <2>2, <2>4, <2>5, <2>6 DEF AtWork
      <3> QED
        BY <2>2, <2>6, <3>1
    <2>7. CASE ~counted[c]
      BY <2>2, <2>5, <2>7 DEF AtWork
    <2> QED
      BY <2>6, <2>7
  <1>19. ASSUME NEW t \in Threads, Tell(t) \/ DeleteLocalVar(t) PROVE Same
    <2>1. /\ pc[t] # "final" /\ pc'[t] # "final" /\ cur' = cur /\ state' = state
          /\ \A u \in Threads : u # t => pc'[u] = pc[u]
      BY <1>0, <1>19 DEF Tell, DeleteLocalVar, TypeOK
    <2>2. \A f \in roots : Waits(f)' <=> Waits(f)
      BY <2>1 DEF Waits
    <2> QED
      BY <1>4, <1>19, <2>2 DEF Tell, DeleteLocalVar
  <1>20. ASSUME NEW t \in Threads, ReleaseSelf(t) PROVE Same
    <2>1. PICK c \in Frames : c = cur[t] /\ state[c] = "final" /\ c # NULL
      BY <1>0, <1>1, <1>20 DEF ReleaseSelf, ThreadInv, Leaving
    <2>2. /\ pc[t] = "release" /\ pc'[t] = "idle" /\ LetGo(c)
          /\ \A u \in Threads : u # t => pc'[u] = pc[u] /\ cur'[u] = cur[u]
      BY <1>0, <1>20, <2>1 DEF ReleaseSelf, TypeOK
    <2>3. /\ state'[c] \in {"final", "destroyed"}
          /\ \A f \in Frames : f # c => state'[f] = state[f]
      BY <1>0, <2>1, <2>2 DEF LetGo, TypeOK
    <2>4. \A f \in roots : Waits(f)' <=> Waits(f)
      BY <1>0, <2>1, <2>2, <2>3 DEF Waits
    <2> QED
      BY <1>4, <1>20, <2>4 DEF ReleaseSelf
  <1>21. CASE UNCHANGED vars
    BY <1>5, <1>21 DEF vars
  <1> QED
    BY <1>6, <1>7, <1>8, <1>9, <1>10, <1>11, <1>12, <1>14, <1>15, <1>16, <1>17,
       <1>18, <1>19, <1>20, <1>21
    DEF Next, Handle, Thread

CountInv == Inv /\ running_coro_cnt = Cardinality(AtWork)

LEMMA CountStep == CountInv /\ [Next]_vars => CountInv'
  <1> SUFFICES ASSUME CountInv, [Next]_vars PROVE CountInv'
    OBVIOUS
  <1>1. Inv /\ Inv' /\ TypeOK'
    BY InvStep DEF CountInv, Inv
  <1>2. IsFiniteSet(AtWork) /\ Cardinality(AtWork) \in Nat
    BY <1>1, TaskAssumption, FS_Subset, FS_CardinalityType DEF AtWork, Inv, TypeOK
  <1>3. running_coro_cnt = Cardinality(AtWork)
    BY DEF CountInv
  <1>4. CASE AtWork' = AtWork /\ running_coro_cnt' = running_coro_cnt
    BY <1>1, <1>3, <1>4 DEF CountInv
  <1>5. ASSUME NEW f \in Frames, f \notin AtWork, AtWork' = AtWork \cup {f},
               running_coro_cnt' = running_coro_cnt + 1
        PROVE  CountInv'
    BY <1>1, <1>2, <1>3, <1>5, FS_AddElement DEF CountInv
  <1>6. ASSUME NEW f \in AtWork, AtWork' = AtWork \ {f},
               running_coro_cnt' = running_coro_cnt - 1
        PROVE  CountInv'
    BY <1>1, <1>2, <1>3, <1>6, FS_RemoveElement DEF CountInv
  <1> QED
    BY <1>1, <1>4, <1>5, <1>6, AtWorkStep

LEMMA CountInitially == Init => CountInv
  <1> SUFFICES ASSUME Init PROVE CountInv
    OBVIOUS
  <1>1. AtWork = {} /\ running_coro_cnt = 0
    BY DEF Init, AtWork
  <1> QED
    BY <1>1, InitInv, FS_EmptySet DEF CountInv

(* The state of the frames, their counts, the rings and the threads keep      *)
(* their types: no step follows a nullptr out of a frame or a thread.         *)
THEOREM TypeCorrect == Spec => []TypeOK
  <1>1. Inv => TypeOK
    BY DEF Inv
  <1> QED
    BY <1>1, Invariance, PTL

(* No CoroTask, thread, MiddleAwaitable or link of an active frame refers to  *)
(* a frame that the last CoroTask or the final suspension has destroyed.      *)
THEOREM Dangling == Spec => []NothingDangling
  BY Invariance, InvImpliesDangling, PTL

(* The final suspension of a callee finds its caller, which waits for it, and *)
(* a root is alone in its ring when the chain is back in it.                  *)
THEOREM Returns == Spec => []ReturnsToCaller
  BY Invariance, InvImpliesReturns, PTL

(* A chain of calls goes on in one frame, which at most one thread has.       *)
THEOREM Control == Spec => []OneControl
  BY Invariance, InvImpliesControl, PTL

(* A callee uses the local variables of its root, which are not deleted       *)
(* before the chain has ended and are deleted then.                           *)
THEOREM LocalVars == Spec => []LocalVarOfChain
  BY Invariance, InvImpliesLocal, PTL

(* Neither ~CoroTask nor a MiddleAwaitable that goes destroys a frame that is *)
(* queued, runs or waits for its callee.                                      *)
THEOREM DestroyedAtRest == Spec => DestroysNoneAtWork
  <1>1. Inv /\ [Next]_vars => [\A f \in Frames :
          state[f] # "destroyed" /\ state'[f] = "destroyed"
            => state[f] \in {"initial", "final"}]_vars
    BY OnlyEndedDestroyed
  <1> QED
    BY <1>1, Invariance, PTL DEF Spec, DestroysNoneAtWork

(* stop() waits for running_coro_cnt_ to fall to zero: it counts the roots    *)
(* that were committed and have not ended, each once.                         *)
THEOREM Counting == Spec => []CountsRoots
  <1>1. CountInv => CountsRoots
    BY DEF CountInv, CountsRoots, AtWork, Waits
  <1> QED
    BY <1>1, CountInitially, CountStep, PTL DEF Spec

=============================================================================
