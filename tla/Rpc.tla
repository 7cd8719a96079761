--------------------------------- MODULE Rpc ---------------------------------
(* Remote calls: co_rpc and RpcBase (async_action.h, async_action.ipp), the   *)
(* map of waiting coroutines, the time-out, send and receive coroutines of    *)
(* NetService (net_service.h, net_service.cpp), the dispatch of a request     *)
(* (rpc_mapper.cpp) and the answer at the end of its coroutine (task.ipp,     *)
(* task.cpp).  One process calls, the others serve; its restarts included.    *)
(* A message that is never delivered is lost; nothing forces a delivery.      *)
EXTENDS Naturals, FiniteSets, Sequences

CONSTANTS
  Coros,       \* the coroutines that call; their names are their coro_id_
  Workers,     \* the worker threads of the calling process
  Client,      \* the endpoint the calling process listens on
  Servers,     \* the endpoints the serving processes listen on
  Ephemeral,   \* the port of an outgoing connection
  Targets,     \* the lists of endpoints a call may be sent to, as sets
  Conditions,  \* the finish conditions a call may have
  Functions,   \* the functions a call may name
  Reflected,   \* the functions the serving processes have registered
  LateWrite,   \* TRUE: a connection may be made after its call has ended
  MaxCalls,    \* bound: calls per coroutine
  MaxRestarts, \* bound: restarts of the calling process
  None

EndPoints == Servers \cup {Client}

ASSUME RpcAssumption ==
  /\ IsFiniteSet(Servers) /\ Client \notin Servers
  /\ \A e \in EndPoints : e = [ip |-> e.ip, port |-> e.port] /\ e.port # Ephemeral
  /\ Targets \subseteq SUBSET Servers
  /\ Conditions \subseteq {"WHEN_ANY", "WHEN_ALL", "WHEN_MAJORITY"}
  /\ LateWrite \in BOOLEAN
  /\ MaxCalls \in Nat /\ MaxRestarts \in Nat
  /\ None \notin Coros

VARIABLES
  io_running,    \* the thread runs the handlers of io_ctx_
  epoch,         \* history: how often the process has been restarted
  calls,         \* history: how many calls a coroutine has made
  rpc,           \* per coroutine: its RpcBase, while the expression is evaluated
  worker,        \* per worker: the await_suspend it is in
  waiting_coros, \* waiting_coros_: per coroutine the call waited for, 0 if none
  timers,        \* the timeout_ coroutines whose timer has not expired
  sends,         \* the send_ coroutines that are still connecting
  taken,         \* the coroutine a handler is about to commit
  committed,     \* per coroutine: how often it is in the ready queue
  messages,      \* requests and responses on their way
  tasks          \* the coroutines of the servers that have not returned

vars == <<io_running, epoch, calls, rpc, worker, waiting_coros, timers, sends,
          taken, committed, messages, tasks>>

Calls   == 1..MaxCalls
CallIds == [epoch : 0..MaxRestarts, coro : Coros, n : Calls]
Bodies  == [rpc_id : Coros, rpc_type : Functions, of : CallIds]
Peers   == [ip : {e.ip : e \in EndPoints}, port : {e.port : e \in EndPoints} \cup {Ephemeral}]

RpcBase == [n : Calls, endpoints : SUBSET Servers, finish_condition : Conditions,
            func_id : Functions, flagged : SUBSET Servers,
            results : Seq([from : Servers, of : CallIds]),
            expired : SUBSET Servers]
Awaits  == [pc : {"insert", "spawn"}, body : Bodies, left : SUBSET Servers]

ASSUME NoneAssumption == None \notin RpcBase /\ None \notin Awaits

TypeOK ==
  /\ io_running \in BOOLEAN
  /\ epoch \in 0..MaxRestarts
  /\ calls \in [Coros -> 0..MaxCalls]
  /\ rpc \in [Coros -> RpcBase \cup {None}]
  /\ worker \in [Workers -> Awaits \cup {None}]
  /\ waiting_coros \in [Coros -> 0..MaxCalls]
  /\ timers \subseteq [coro : Coros, n : Calls]
  /\ sends \subseteq [to : Servers, body : Bodies]
  /\ taken \in Coros \cup {None}
  /\ committed \in [Coros -> Nat]
  /\ messages \subseteq
       [type : {"REQUEST", "RESPONSE"}, to : Peers, ip : {e.ip : e \in EndPoints},
        server_port : {e.port : e \in EndPoints}, body : Bodies, sent_for : CallIds]
  /\ tasks \subseteq [at : Servers, response_to : Peers, body : Bodies,
                      sent_for : CallIds]

Init ==
  /\ io_running = TRUE
  /\ epoch = 0
  /\ calls = [c \in Coros |-> 0]
  /\ rpc = [c \in Coros |-> None]
  /\ worker = [w \in Workers |-> None]
  /\ waiting_coros = [c \in Coros |-> 0]
  /\ timers = {}
  /\ sends = {}
  /\ taken = None
  /\ committed = [c \in Coros |-> 0]
  /\ messages = {}
  /\ tasks = {}

-----------------------------------------------------------------------------
(* The object co_rpc builds, with its endpoints, finish condition and         *)
(* function; received_results_ is kept as results (the answers, in order) and *)
(* expired (the endpoints entered with RPC_TIMEOUT), the flags of endpoints_  *)
(* as the set of endpoints flagged.                                           *)
NewRpc(n, endpoints, condition, function) ==
  [n |-> n, endpoints |-> endpoints, finish_condition |-> condition,
   func_id |-> function, flagged |-> {}, results |-> <<>>, expired |-> {}]

(* Whether the object of a call has not been destroyed yet. *)
Alive(id) == /\ id.epoch = epoch
             /\ rpc[id.coro] # None
             /\ rpc[id.coro].n = id.n

(* What with_args and await_suspend write into send_buffer_. *)
SendBuffer(c) == [rpc_id |-> c, rpc_type |-> rpc[c].func_id,
                  of |-> [epoch |-> epoch, coro |-> c, n |-> rpc[c].n]]

(* RpcBase::await_suspend: a coroutine on a worker awaits its next call. *)
AwaitSuspend(w, c) ==
  /\ worker[w] = None
  /\ rpc[c] = None
  /\ calls[c] < MaxCalls
  /\ calls' = [calls EXCEPT ![c] = @ + 1]
  /\ \E endpoints \in Targets, condition \in Conditions, function \in Functions :
       /\ rpc' = [rpc EXCEPT ![c] = NewRpc(calls'[c], endpoints, condition, function)]
       /\ worker' = [worker EXCEPT ![w] =
            [pc |-> "insert", left |-> endpoints,
             body |-> [rpc_id |-> c, rpc_type |-> function,
                       of |-> [epoch |-> epoch, coro |-> c, n |-> calls'[c]]]]]
  /\ UNCHANGED <<io_running, epoch, waiting_coros, timers, sends, taken,
                 committed, messages, tasks>>

(* commit_send_request_task with lock_: from here on a handler may resume the *)
(* coroutine.  insert keeps an entry that is there already.                   *)
Insert(w) ==
  LET id == worker[w].body.of
  IN  /\ worker[w] # None
      /\ worker[w].pc = "insert"
      /\ timers' = timers \cup {[coro |-> id.coro, n |-> id.n]}
      /\ waiting_coros' = [waiting_coros EXCEPT ![id.coro] = IF @ = 0 THEN id.n ELSE @]
      /\ worker' = [worker EXCEPT ![w].pc = "spawn"]
      /\ UNCHANGED <<io_running, epoch, calls, rpc, sends, taken, committed,
                     messages, tasks>>

(* commit_send_request_task without lock_: one send_ per endpoint.  If        *)
(* another worker has ended the call the endpoints are read from freed memory *)
(* and may be any.                                                            *)
SpawnSend(w) ==
  /\ worker[w] # None
  /\ worker[w].pc = "spawn"
  /\ \E e \in worker[w].left, to \in Servers :
       /\ to = e \/ ~Alive(worker[w].body.of)
       /\ worker' = [worker EXCEPT ![w].left = @ \ {e}]
       /\ sends' = sends \cup {[to |-> to, body |-> worker[w].body]}
  /\ UNCHANGED <<io_running, epoch, calls, rpc, waiting_coros, timers, taken,
                 committed, messages, tasks>>

(* await_suspend returns and the worker goes on with other coroutines. *)
AwaitSuspendReturns(w) ==
  /\ worker[w] # None
  /\ worker[w].pc = "spawn"
  /\ worker[w].left = {}
  /\ worker' = [worker EXCEPT ![w] = None]
  /\ UNCHANGED <<io_running, epoch, calls, rpc, waiting_coros, timers, sends,
                 taken, committed, messages, tasks>>

(* await_resume: the results are moved to the caller and the object goes. *)
AwaitResume(w, c) ==
  /\ worker[w] = None
  /\ committed[c] > 0
  /\ committed' = [committed EXCEPT ![c] = @ - 1]
  /\ rpc' = [rpc EXCEPT ![c] = None]
  /\ UNCHANGED <<io_running, epoch, calls, worker, waiting_coros, timers, sends,
                 taken, messages, tasks>>

-----------------------------------------------------------------------------
(* The thread of NetService runs one handler at a time. *)
Handler == io_running /\ taken = None

(* send_: when the connection is made the view of send_buffer_ is written.    *)
(* After the end of the call its memory may hold another request, or what     *)
(* the receiver's assertion on the checksum takes for a lost one.             *)
SendRequest(s) ==
  /\ Handler
  /\ s \in sends
  /\ Alive(s.body.of) \/ LateWrite
  /\ sends' = sends \ {s}
  /\ \E body \in {s.body} \cup {SendBuffer(c) : c \in {d \in Coros : rpc[d] # None}} :
       /\ body = s.body \/ ~Alive(s.body.of)
       /\ messages' = messages \cup
            {[type |-> "REQUEST", to |-> s.to, ip |-> Client.ip,
              server_port |-> Client.port, body |-> body, sent_for |-> s.body.of]}
  /\ UNCHANGED <<io_running, epoch, calls, rpc, worker, waiting_coros, timers,
                 taken, committed, tasks>>

\* Mutant: the port of the connection stays in the peer's endpoint.
PeerEndPoint_OfConnection(m) == [ip |-> m.ip, port |-> Ephemeral]

(* receive: the peer's address with the port it listens on. *)
PeerEndPoint(m) == [ip |-> m.ip, port |-> m.server_port]

\* Mutant: a majority is half of the endpoints.
NeedAwaken_Half(condition, size, total) ==
  CASE condition = "WHEN_ANY"      -> TRUE
    [] condition = "WHEN_ALL"      -> size = total
    [] condition = "WHEN_MAJORITY" -> size = (total + 1) \div 2

(* process_buffer_cb: whether the size-th of total results ends the call. *)
NeedAwaken(condition, size, total) ==
  CASE condition = "WHEN_ANY"      -> TRUE
    [] condition = "WHEN_ALL"      -> size = total
    [] condition = "WHEN_MAJORITY" -> size = total \div 2 + 1

\* Mutant: the endpoint that answered is not flagged.
ProcessBuffer_NoFlag(r, peer, of) ==
  [r EXCEPT !.results = Append(@, [from |-> peer, of |-> of])]

(* process_buffer_cb: the result is entered whoever sent it.  The callback of *)
(* on_each_result decides nothing: need_awaken is assigned after it.          *)
ProcessBuffer(r, peer, of) ==
  [r EXCEPT !.results = Append(@, [from |-> peer, of |-> of]),
            !.flagged = @ \cup ({peer} \cap r.endpoints)]

\* Mutant: the entry stays when the coroutine is taken.
TakeIf_KeepEntry(need_awaken, c) ==
  /\ taken' = IF need_awaken THEN c ELSE None
  /\ UNCHANGED waiting_coros

(* receive and timeout_, with lock_: a coroutine to wake leaves the map. *)
TakeIf(need_awaken, c) ==
  IF need_awaken
  THEN taken' = c /\ waiting_coros' = [waiting_coros EXCEPT ![c] = 0]
  ELSE UNCHANGED <<taken, waiting_coros>>

(* receive of a response: it belongs to the call its coroutine waits for, or  *)
(* to none.                                                                   *)
ReceiveResponse(m) ==
  LET c == m.body.rpc_id
  IN  /\ Handler
      /\ m \in messages
      /\ m.type = "RESPONSE"
      /\ m.to = Client
      /\ messages' = messages \ {m}
      /\ \/ waiting_coros[c] = 0 /\ UNCHANGED <<rpc, taken, waiting_coros>>
         \/ /\ waiting_coros[c] # 0
            /\ rpc' = [rpc EXCEPT ![c] = ProcessBuffer(@, PeerEndPoint(m), m.body.of)]
            /\ TakeIf(NeedAwaken(rpc[c].finish_condition, Len(rpc'[c].results),
                                 Cardinality(rpc[c].endpoints)), c)
      /\ UNCHANGED <<io_running, epoch, calls, worker, timers, sends, committed,
                     tasks>>

\* Mutant: a time-out wakes only a coroutine that has no answer.
TimeOut_IfNothing(t) ==
  /\ Handler
  /\ t \in timers
  /\ timers' = timers \ {t}
  /\ \/ waiting_coros[t.coro] = 0 /\ UNCHANGED <<rpc, taken, waiting_coros>>
     \/ /\ waiting_coros[t.coro] # 0
        /\ rpc' = [rpc EXCEPT ![t.coro].expired =
                     rpc[t.coro].endpoints \ rpc[t.coro].flagged]
        /\ TakeIf(rpc[t.coro].results = <<>>, t.coro)
  /\ UNCHANGED <<io_running, epoch, calls, worker, sends, committed, messages,
                 tasks>>

(* timeout_ and timeout_cb: the call its coroutine waits for is over, every   *)
(* endpoint without a flag is entered with RPC_TIMEOUT.                       *)
TimeOut(t) ==
  /\ Handler
  /\ t \in timers
  /\ timers' = timers \ {t}
  /\ \/ waiting_coros[t.coro] = 0 /\ UNCHANGED <<rpc, taken, waiting_coros>>
     \/ /\ waiting_coros[t.coro] # 0
        /\ rpc' = [rpc EXCEPT ![t.coro].expired =
                     rpc[t.coro].endpoints \ rpc[t.coro].flagged]
        /\ TakeIf(TRUE, t.coro)
  /\ UNCHANGED <<io_running, epoch, calls, worker, sends, committed, messages,
                 tasks>>

(* receive and timeout_, without lock_: the coroutine goes to the scheduler;  *)
(* io_ctx_.stop() lets the handler come this far.                             *)
CommitTaken ==
  /\ taken # None
  /\ committed' = [committed EXCEPT ![taken] = @ + 1]
  /\ taken' = None
  /\ UNCHANGED <<io_running, epoch, calls, rpc, worker, waiting_coros, timers,
                 sends, messages, tasks>>

(* NetService::stop *)
StopNet ==
  /\ io_running
  /\ io_running' = FALSE
  /\ UNCHANGED <<epoch, calls, rpc, worker, waiting_coros, timers, sends, taken,
                 committed, messages, tasks>>

(* The process ends or crashes and starts anew, on the same port: coroutine   *)
(* ids start over.                                                            *)
Restart ==
  /\ epoch < MaxRestarts
  /\ epoch' = epoch + 1
  /\ io_running' = TRUE
  /\ calls' = [c \in Coros |-> 0]
  /\ rpc' = [c \in Coros |-> None]
  /\ worker' = [w \in Workers |-> None]
  /\ waiting_coros' = [c \in Coros |-> 0]
  /\ timers' = {}
  /\ sends' = {}
  /\ taken' = None
  /\ committed' = [c \in Coros |-> 0]
  /\ UNCHANGED <<messages, tasks>>

-----------------------------------------------------------------------------
(* reflect_commit_function: where the result of a request goes, to the port   *)
(* the caller listens on.                                                     *)
ResponseInfo(m) == [at |-> m.to,
                    response_to |-> [ip |-> m.ip, port |-> m.server_port],
                    body |-> m.body, sent_for |-> m.sent_for]

(* receive of a request: a coroutine of its function is committed, if the     *)
(* function is registered; else it is dropped, after the assertion.           *)
ReceiveRequest(m) ==
  /\ m \in messages
  /\ m.type = "REQUEST"
  /\ messages' = messages \ {m}
  /\ \/ m.body.rpc_type \in Reflected /\ tasks' = tasks \cup {ResponseInfo(m)}
     \/ m.body.rpc_type \notin Reflected /\ UNCHANGED tasks
  /\ UNCHANGED <<io_running, epoch, calls, rpc, worker, waiting_coros, timers,
                 sends, taken, committed>>

\* Mutant: the response carries the id of the server's own coroutine, which
\* counts from zero like the caller's.
SendResponse_OwnId(t) ==
  /\ t \in tasks
  /\ tasks' = tasks \ {t}
  /\ \E own_id \in Coros :
       messages' = messages \cup
         {[type |-> "RESPONSE", to |-> t.response_to, ip |-> t.at.ip,
           server_port |-> t.at.port, body |-> [t.body EXCEPT !.rpc_id = own_id],
           sent_for |-> t.sent_for]}
  /\ UNCHANGED <<io_running, epoch, calls, rpc, worker, waiting_coros, timers,
                 sends, taken, committed>>

(* The final suspension of that coroutine sends the result to the caller. *)
SendResponse(t) ==
  /\ t \in tasks
  /\ tasks' = tasks \ {t}
  /\ messages' = messages \cup
       {[type |-> "RESPONSE", to |-> t.response_to, ip |-> t.at.ip,
         server_port |-> t.at.port, body |-> t.body, sent_for |-> t.sent_for]}
  /\ UNCHANGED <<io_running, epoch, calls, rpc, worker, waiting_coros, timers,
                 sends, taken, committed>>

-----------------------------------------------------------------------------
AwaitGoesOn(w) == Insert(w) \/ SpawnSend(w) \/ AwaitSuspendReturns(w)

(* The bound on calls is reached, or the network thread has ended. *)
Rest == /\ \/ \A c \in Coros : calls[c] = MaxCalls /\ rpc[c] = None
           \/ ~io_running
        /\ UNCHANGED vars

Next ==
  \/ \E w \in Workers :
       \/ AwaitGoesOn(w)
       \/ \E c \in Coros : AwaitSuspend(w, c) \/ AwaitResume(w, c)
  \/ \E s \in sends : SendRequest(s)
  \/ \E m \in messages : ReceiveRequest(m) \/ ReceiveResponse(m)
  \/ \E t \in timers : TimeOut(t)
  \/ \E t \in tasks : SendResponse(t)
  \/ CommitTaken \/ StopNet \/ Restart \/ Rest

Spec == Init /\ [][Next]_vars
(* The threads go on: a worker leaves await_suspend, io_ctx_ runs what is     *)
(* ready in its order, timers expire and the ready queue is first in, first   *)
(* out.  No delivery, no server and no restart is taken for granted.          *)
FairSpec ==
  /\ Spec
  /\ \A w \in Workers : WF_vars(AwaitGoesOn(w))
  /\ \A c \in Coros, n \in Calls : SF_vars(TimeOut([coro |-> c, n |-> n]))
  /\ \A c \in Coros : SF_vars(\E w \in Workers : AwaitResume(w, c))
  /\ WF_vars(CommitTaken)

-----------------------------------------------------------------------------
(* A coroutine is suspended in its call once await_suspend has put it in the  *)
(* map, until await_resume.                                                   *)
Inserting(c) == \E w \in Workers : /\ worker[w] # None
                                   /\ worker[w].pc = "insert"
                                   /\ worker[w].body.rpc_id = c
Suspended(c) == rpc[c] # None /\ ~Inserting(c)

(* No dangling callback: an entry of waiting_coros_ points to the RpcBase of  *)
(* the call its coroutine is in, never to one whose expression has ended,     *)
(* whatever answers, time-outs of earlier calls and resumptions come between. *)
CallbackAlive ==
  \A c \in Coros : waiting_coros[c] # 0 => /\ rpc[c] # None
                                           /\ rpc[c].n = waiting_coros[c]

(* A suspended coroutine is held once: by the map, by the handler that took   *)
(* it out, or by the ready queue.  One held twice would be resumed while it   *)
(* runs, or after its end; one not held never.                                *)
Places(c) == (IF waiting_coros[c] # 0 THEN 1 ELSE 0)
           + (IF taken = c THEN 1 ELSE 0) + committed[c]
HeldOnce == \A c \in Coros : Places(c) = IF Suspended(c) THEN 1 ELSE 0

(* What the finish condition asks of the number of answers. *)
Enough(r) ==
  LET size == Len(r.results)  total == Cardinality(r.endpoints)
  IN  \/ r.finish_condition = "WHEN_ANY" /\ size > 0
      \/ r.finish_condition = "WHEN_ALL" /\ size >= total
      \/ r.finish_condition = "WHEN_MAJORITY" /\ 2 * size > total

(* A call ends exactly when it should: it waits while its answers do not meet *)
(* its finish condition, and ends with enough of them or with a result for    *)
(* every endpoint; a single call always has the one await_resume takes.  A    *)
(* call to no endpoint at all waits for its time-out.                         *)
EndsWhenEnough ==
  \A c \in Coros :
    rpc[c] # None /\ rpc[c].endpoints # {} =>
      /\ waiting_coros[c] # 0 => ~Enough(rpc[c])
      /\ taken = c \/ committed[c] > 0 =>
           \/ Enough(rpc[c])
           \/ rpc[c].endpoints = rpc[c].flagged \cup rpc[c].expired

(* The results of a call answer that call, under CleanSpec: they are the      *)
(* servers' answers to it, from endpoints it was sent to, at most one from    *)
(* each.  rpc_struct.h 67 says of rpc_id_ "for response to find request in    *)
(* map"; a coroutine's next call has the same, so what is left of an earlier  *)
(* call can be taken for an answer to it.                                     *)
OwnAnswers ==
  \A c \in Coros : rpc[c] # None =>
    LET results == rpc[c].results
    IN  \A i \in DOMAIN results :
          /\ results[i].of = [epoch |-> epoch, coro |-> c, n |-> rpc[c].n]
          /\ results[i].from \in rpc[c].endpoints
          /\ \A j \in DOMAIN results : results[j].from = results[i].from => i = j

(* The request buffers of all calls that some worker, send_, message or       *)
(* server's task still carries.                                               *)
Pending == {worker[w].body : w \in {v \in Workers : worker[v] # None}}
             \cup {item.body : item \in sends \cup messages \cup tasks}

(* A coroutine calls again only when nothing of its calls is pending, and a   *)
(* connection is made while its call goes on.                                 *)
CleanStart ==
  \A w \in Workers, c \in Coros :
    AwaitSuspend(w, c) => \A body \in Pending : body.rpc_id # c
ConnectsInTime == \A s \in sends : SendRequest(s) => Alive(s.body.of)
CleanSpec == Init /\ [][Next /\ CleanStart /\ ConnectsInTime]_vars

(* Nothing comes too late: besides, a response that a call is waiting for, by *)
(* the id of its coroutine, answers that call and no earlier one.             *)
AnswersInTime ==
  \A m \in messages :
    ReceiveResponse(m) /\ waiting_coros[m.body.rpc_id] # 0 => Alive(m.body.of)
InTime == ConnectsInTime /\ AnswersInTime
InTimeSpec == Init /\ [][Next /\ InTime]_vars

(* What RpcCall sees of the calls.                                            *)
Awaited ==
  [c \in Coros |->
     IF rpc[c] = None THEN None
     ELSE [endpoints |-> rpc[c].endpoints,
           condition |-> rpc[c].finish_condition,
           answered  |-> rpc[c].flagged,
           expired   |-> rpc[c].expired,
           over      |-> Suspended(c) /\ waiting_coros[c] = 0]]

(* The call promises what RpcCall says, under InTimeSpec: time-outs of        *)
(* earlier calls, restarts and lost messages included.                        *)
Call == INSTANCE RpcCall WITH NoCall <- None, call <- Awaited
ASSUME NoCallAssumption == None \notin Call!CallStates
RefinesCall == Call!Spec

(* A suspended coroutine is resumed in the end, also when no server answers,  *)
(* as long as the network thread runs; one that a handler has taken is even   *)
(* if it does not.                                                            *)
CallEnds ==
  \A c \in Coros :
    Suspended(c) ~> \/ ~Suspended(c)
                    \/ ~io_running /\ waiting_coros[c] # 0

-----------------------------------------------------------------------------
(* error_struct.h 12, RPC_TIMEOUT: "rpc response not returned at specified    *)
(* time span": a call times out when its own timer has expired.               *)
OwnTimeOut ==
  \A c \in Coros : rpc[c] # None /\ rpc[c].expired # {} =>
    [coro |-> c, n |-> rpc[c].n] \notin timers

(* async_action.ipp 131: after a time-out there are as many results as        *)
(* endpoints.                                                                 *)
TimeOutAssert ==
  \A c \in Coros : rpc[c] # None /\ rpc[c].expired # {} =>
    Len(rpc[c].results) + Cardinality(rpc[c].expired) = Cardinality(rpc[c].endpoints)
==============================================================================
