# NewRpc: TLA+ specifications and proofs

NewRpc (`src/`) is a C++23 coroutine framework with timers and remote calls: a
pool of worker threads resumes stackless coroutines, a timer thread wakes those
that sleep, and an asio thread sends requests, receives responses and turns
incoming requests into new coroutines.  This directory holds TLA+ modules that
model it, TLC configurations that check them on small instances, and proofs,
checked by TLAPS, that hold for every instance.  Paths below are relative to
`src/src/coroutine_framework/` unless they start with another directory.

## 1. Inventory of the system

| Component | Source | State | Operations | Model |
|---|---|---|---|---|
| Coroutine queue | `queue.h`, `queue.ipp` | `head_`, `tail_`, `size_`; one link per frame | `append_to_tail`, `pop_from_head`, `fetch_nodes` | `LinkedQueue`, `CoroutineQueue`, `FifoQueue`; `LinkedQueueProofs`, `CoroutineQueueProofs` |
| Scheduler | `scheduler.h/.cpp`, `common_execute_module.h` | ready queue, `lock_`, `cv_`, `stop_flag_`, `running_coro_cnt_`, worker threads | constructor/`start`, `stop`, `wait`, `commit`, `loop_` | `Scheduler`, `SchedulerProofs` |
| Time service | `time_module/` | 4096 buckets (`scan_over_ts_`, `waiting_queue_`, spin lock), start of the revolution, `stop_flag_` | `register_frame`, `loop_`, `wakeup_frame_on_bucket_`, `stop` | `TimeService`, `TimeServiceProofs` |
| Asynchronous actions | `async_action/` | one object in the awaiting frame | `co_suspend`, `co_sleep`, `co_rpc` | the first two in `Scheduler` and `TimeService`; `co_rpc` in `Rpc`, `RpcCall`, `RpcProofs` |
| Network service | `net_module/net_service.*` | `waiting_coros_` by coroutine id, asio context, one thread | `start`, `stop`, listen, receive, send, time out | `Rpc`, `RpcProofs`; its part in commits and start/stop in `Scheduler` |
| Coroutine tasks | `task.h`, `task.ipp`, `task.cpp` | promise, reference count, ring of nested calls, `done_flag_` | copy, move, reset, destroy, `co_await`, `wait`, final suspension | `CoroTask`, `CoroTaskProofs`; the response in `Wire`; the end of a root as the workers see it in `Scheduler` |
| Coroutine-local variables | `local_var.h/.cpp` | id, wake-up time, address of the caller | created by the first resume, inherited by callees, deleted by the root | life time in `CoroTask`; contents in `TimeService`, `Rpc` |
| RPC registration | `net_module/rpc_mapper.*`, `rpc_register.h` | a table the compiler builds | dispatch of a request | `Rpc` |
| Serialization, messages | `src/src/mechanism/serialization.hpp`, `error_define/`, `net_module/rpc_struct.h` | a buffer and a position; a connection | size, write, read; build, deliver in pieces, put together | `Buffers`, `Serialization`, `Wire`; `WireProofs` |
| Stringification, log | `src/src/mechanism/stringification.hpp`, `src/src/log` | a buffer and a position per statement | bounded formatting, views | `Stringification`, `StringificationProofs` |
| Reflection, literals | `src/src/mechanism`, `src/src/literal.h` | none | compile-time | not modelled: no state a property could tell apart |
| spdlog, demos, tests | `src/src/spdlog`, `src/demo`, `src/unittests` | - | - | vendored, or uses of the framework that were read as such |

### How the parts interact

* A user thread calls `commit(task)`.  The scheduler refuses after `stop()`;
  otherwise it counts the coroutine (`running_coro_cnt_`) and appends its frame
  to the ready queue under `lock_`; then, without the lock, `notify_one`.
* A worker takes one frame per turn and resumes it.  The coroutine runs until it
  suspends: `co_suspend` appends the frame to the ready queue again; `co_sleep`
  registers it in a timer bucket; `co_rpc` leaves it in the network service's
  map; a nested coroutine's end resumes its caller on the same worker; the end
  of a root decrements the count and tells the waiters or answers the caller.
* The timer thread and the network thread give frames back with
  `CommonExecuteModule::commit`, which neither tests `stop_flag_` nor counts.
* An incoming request is committed like a user's task, by the network thread.
* The destructor calls `stop()` (flag, timer, network, `notify_all`) and `wait()`
  (join timer, network, workers).  Workers leave when the flag is set and the
  count is zero, so that accepted work drains.

### What is hard, and what makes it correct

* Frames change hands without a lock of their own: one holder at any time
  (`HeldOnce`), which is what makes it right not to touch a frame after giving
  it away.
* The condition variable is notified outside its lock, also by `stop()`:
  nobody's wake-up may be lost (`NoLostWakeup`, `ShutdownCompletes`).
* The count decides when workers may leave: exact (`CountExact`), and leaving
  never strands accepted work (`EarlyWorkFinished`, `CommittedFinishes`).
* A registration in the timer wheel races with the scan of the same bucket and
  with the start of the next revolution (`DueAfterScan`, `SleepersReachable`);
  rounding to a bucket must be neither early nor more than a precision late
  (`NoEarlyWake`, `LessThanATickLate`).
* The intrusive queue shares one link per frame between all queues
  (`WellLinked`, `RefinesFifo`).
* A remote call is known to the network thread by its coroutine's id alone, and
  nothing about an earlier call is ever cancelled: answers, time-outs and slow
  connections of one call meet the next.  No callback may outlive its object
  (`CallbackAlive`), a coroutine may be resumed once (`HeldOnce`), a call must
  end exactly when its finish condition or its time-out says so
  (`EndsWhenEnough`, `CallEnds`), and its results should be its own
  (`OwnAnswers`, `RefinesCall`, which hold as long as nothing of an earlier call
  gets in the way, and not otherwise: findings 3 and 4).
* A frame belongs to CoroTask variables, to the queue or service that will
  resume it, and to its caller's awaitable; the final suspension goes on using
  it after it has told the waiter, who may drop the last variable.  Nothing may
  be destroyed too early (`NothingDangling`, `DestroysNoneAtWork`) and a frame
  that is done should go (`FreedWhenDone`, finding 5).
* A callee's end transfers the thread along a ring of links: to its caller
  however deep, and to nobody from a root (`ReturnsToCaller`, `OneControl`).
  All frames of a chain use one object by pointer (`LocalVarOfChain`).
* Size, writing and reading of a value are three recursions over its type that
  must agree to the byte (`SizesAgree`, `RoundTrip`; an Expected with an error is
  not read back), and a socket delivers any pieces
  (`WholeMessage`, `RequestIntact`, `ResultIntact`).
* The arguments of a log statement share one bounded buffer
  (`ViewsShowArguments`).
* Still ahead: the shutdown of the whole framework with calls pending.

`PROJECT.json` lists these hazards at their lines.

## 2. The modules

**LinkedQueue** defines the three queue operations as operators from a queue
record and a heap of links to their new values.  `Chain` is the walk along the
links (a recursive function, cut off after as many steps as there are frames),
`Those` picks the elements of a walk that are in a set, and `Represents` says that
a queue on a heap is a given list.
`fetch_nodes` is written by its effect: the walk is divided into the frames that
satisfy the condition and those that stay, both are relinked, and `tail_` is
reset only if the queue becomes empty, as in `queue.ipp` 67-70.

**CoroutineQueue** is the state machine of one queue under its operations:
appends and pops (all the scheduler does), and with `FetchPolicy = "tailLast"`
also scans (a timer bucket); hand-overs empty the list a scan has taken.  The
policy `tailLast` is the condition under which `fetch_nodes` keeps the queue well
linked: the last frame does not leave while another stays.  So what is shown of this
queue is not about the other scans: those break it, which is finding 2.  There are
none when one worker runs all coroutines (the framework's default) and they sleep
for one duration, so that frames enter in the order they are due (`OrderedScans` in
`TimeServiceProofs`).

**FifoQueue** is what the queue promises: a sequence of distinct frames, taken
from the head or extracted in order.  `CoroutineQueue` implements it with
`items <- Chain(queue, link)` and the same for the batch of a scan.

**Scheduler** models the framework's life cycle (`main`), the committing threads
(clients, the network and the timer thread, `tpc`) and the workers (`wpc`).
Each action is the code between two points where another thread can see a
difference: the test of `stop_flag_`, the increment, the append under `lock_`,
the notification, the loop condition, the predicate, the moment of falling
asleep.  The only critical section that spans two steps is a worker's between
predicate and sleep (`"blocking"`, `LockFree`), because that is where a
notification without the lock can come; all others are one step.  Spurious
wake-ups and time-outs are actions.  What a coroutine does is its next
suspension: `Yield`, `Park` or `FinishCount`.  The ready queue is a sequence;
`CoroutineQueue` is the reason why it may be one.

| Code | Actions |
|---|---|
| `CoroScheduler::start` | `StartNet`, `ClearStopFlag`, `SpawnWorker` |
| `stop`, `wait` | `SetStopFlag`, `StopServices`, `NotifyAll`, `JoinTime`, `JoinNet`, `JoinWorkers` |
| `CoroScheduler::commit` | `CommitCheck`, `CommitCount`, then `CommitAppend`, `CommitNotify` |
| `CommonExecuteModule::commit` by a service | `GiveBack`, then `CommitAppend`, `CommitNotify` |
| `loop_`, `cv_.wait_for` | `EnterLoop`, `LeaveLoop`, `StartWait`, `Sleep`, `Expire`, `WakeSpuriously`, `EndWait` (with `TakeFrame`) |
| `co_suspend`; `co_sleep`, `co_rpc` | `Yield`, `YieldNotify`; `Park` |
| `FinalAwaitable::await_suspend` | `FinishCount`, `FinishSignal` |

**TimeService** models the wheel, the loop thread (`lpc`) and the registering
workers (`rpc`).  Time is a counter of ticks.  A registration is three steps
(`Sleep` reads the clock, `ReadStart` reads the start of the revolution without
a lock, `Insert` works under the bucket's lock), because the loop thread can
move between any two; `CommitMissed` is the way out of a frame that came too
late.  A scan is one step under the lock (`Scan`), and the hand-over afterwards
one step per frame.  What surrounds the service is a `scenario`, one of the
constant `Scenarios`, chosen at the start: who sleeps, for how long, until when,
and whether `stop()` may come.  A `prompt` scenario lets the clock move only
when no thread has a step: that is the system whose lateness can be bounded.  In
the others threads are arbitrarily slow.  Scans are what the code does, also where
it takes the last frame of a bucket and leaves another; `TailLast` says of a state
that the scan ahead does not, and the properties of coroutines with several
durations are stated of behaviours whose scans satisfy it.  **MCTimeService** names
the scenarios of the runs.

**RpcCall** is what a remote call promises: it is sent to a set of endpoints, and
ends once, as soon as the answers meet its finish condition, at most one from
each endpoint, or else with RPC_TIMEOUT for all that have not answered.  `Crash` is
the end of the calling process.

**Rpc** models one calling process, the servers, and the messages between them.
`rpc[c]` is the `RpcBase` in the frame of coroutine `c` while its `co_await`
expression is evaluated; `waiting_coros` says for which call the map holds an
entry.  `results` are the answers in `received_results_`, `expired` the endpoints
that `timeout_cb` entered with RPC_TIMEOUT, `flagged` those whose flag in
`endpoints_` is set.  Argument and result values are abstracted to the call they
belong to: `of` in a message body is the request a server answers, `sent_for`
the call whose `send_` wrote it (the two differ only after a late write).  A
list of endpoints is a set: no endpoint is listed twice.

| Code | Actions |
|---|---|
| `on`, `with_args`, `await_suspend` | `AwaitSuspend` |
| `commit_send_request_task` | `Insert` under `lock_`, `SpawnSend` per endpoint, `AwaitSuspendReturns` |
| `await_resume` | `AwaitResume` |
| `send_` | `SendRequest` (`SendResponse` on the server's side) |
| `receive`, a response | `ReceiveResponse` under `lock_`, then `CommitTaken` |
| `process_buffer_cb` | `ProcessBuffer`, `NeedAwaken` in `ReceiveResponse` |
| `timeout_`, `timeout_cb` | `TimeOut` under `lock_`, then `CommitTaken` |
| `receive`, a request; `reflect_commit_function` | `ReceiveRequest` |
| the final suspension with `response_info_` | `SendResponse` |
| `NetService::stop` | `StopNet`: no handler begins any more |

The workers' and the network thread's steps interleave freely, so that an answer
or a time-out may come while a worker is still iterating over the endpoints
(`SpawnSend`).  If the coroutine has been resumed and its object destroyed by
then, the iteration reads freed memory: the model lets it address any server.
In the same way a `send_` that connects after its call has ended
(`LateWrite = TRUE`) writes a request that may be any of those whose buffers
exist, or its own; what is no request at all is dropped by the receiver's
assertion on the checksum, like a lost one.  `LateWrite = FALSE` is the system in
which connections are made before the call ends.  A message that is never
received is lost; messages are received in any order; a response is sent once
per request, since the code has no retry.  A server that crashes is one whose
tasks never answer, so servers have no restart of their own.  `Restart` is the
end of the calling process, by a crash or not, and its new start on the same
port with its coroutine ids from the beginning, while messages and tasks at the
servers remain.  `epoch`, `calls` and the fields `of` and `sent_for` are history:
no guard of a handler reads them, except `Alive`, which says whether memory has
been freed.  A call to no endpoint at all waits for its time-out.

`Spec` leaves all that to happen in any order.  Two restrictions of it say where the
results of a call are its own.  Both ask that connections are made while their call
goes on (`ConnectsInTime`).  `InTimeSpec` asks besides that a response which arrives
while its coroutine waits answers the call it waits for (`AnswersInTime`); time-outs
of earlier calls, their requests, their tasks and their answers to nobody are
included, and so are losses and restarts.  `CleanSpec` asks that a coroutine
calls only when nothing of its earlier calls is carried by a worker, a `send_`, a
message or a task (`CleanStart`): the condition a program can establish by waiting
long enough.  The code ensures neither, which is finding 3.

**MCRpc** gives the endpoints: the caller shares its host with one server, and
two servers on different hosts share a port number, so that a response is
attributed correctly only if address and port are both right.

**CoroTask** models frames and the CoroTask variables of the program.  Each
action is a member of CoroTask, an await, or one step of the final suspension;
a thread's `pc` says where in the final suspension it is, because between its
steps a waiter may return and drop its variable.  The ring is `prev` and `next`,
as `link_next` and `remove_self` change it.  `LetGo` is `RefCount::dec` with the
comparison that every caller makes.  A frame that is `"ready"` is in a queue or
with a service; which one, and when it comes back, is `Scheduler`'s.  `callers`
and `roots` are history.  `Uses` restricts the program to some of the operations.

| Code | Actions |
|---|---|
| the coroutine function, copy, move, `reset`, `~CoroTask` | `Create`, `Copy`, `MoveConstruct`, `MoveAssignOrReset`, `Destruct` |
| `wait` | `BeginWait`, `EndWait` |
| `reflect_commit_function`; `commit`; `handle_.resume()` | `Serve`; `Commit`, `ResumeReady`; `ResumeDirectly` |
| `co_await` of an asynchronous action | `Suspend` |
| `co_await` of a coroutine; the end of its expression | `CallNew`, `CallHandle` (both `Await`); `DropAwaitable` |
| `co_return`, `FinalAwaitable::await_suspend` | `Return`; `FinalCallee`, or `FinalRoot`, `Tell`, `DeleteLocalVar`, `ReleaseSelf` |

The model does what the program may do with the class as it is documented: it
does not await a coroutine that has been started or answers a request, and does
not use a variable that some thread waits on.  `wait()` on a coroutine that is
awaited by another, or that answers a request, never returns: neither sets
`done_flag_` (`WaitReturns` is about the others).

**Buffers** has the types, the bytes and the buffers that serialization and
messages are about.  A byte is the pair of its number and its place in it, so that
reading at a wrong position gives `Garbage` and not, by luck, a number.
**Serialization** is `Serializer<T>`: what is written for a value, what is read from
bytes, and what `get_serialize_size` says.  The specialisations of the template
have one shape, which the module makes explicit: a value is a number (itself, a
length, whether a pointer is null, whether an Expected has a value) followed by its
parts.  `Leading`, `LeadingSize`, `Contents`, `ContentType` and `Count` are the
cases per kind of type; `Serialized`, `Deserialized` and `Sized` are recursive
functions over them.  `ExpectedFlag`, `ExpectedContent`, `ExpectedRead` and
`ExpectedSize` are the specialisation for Expected: it writes a flag and a value or
an error, but reads an error into an Expected that goes on to hold a value
(`Garbage`), and counts the bytes of an error in any case.  A length that no memory
can hold is refused (`Accepted`), by the exception of `resize` or `reserve`.
`HoldsError` says of a value that an Expected with an error is in it, which the
properties except.  The compiler instantiates the template for finitely many types,
none of which is a part of itself, and that is `SerializationAssumption` about the
constants `Types`, `Values` (pairs of a type and a value of it) and `Depth`.

**Wire** is one remote call as bytes.  It assumes that the types and values of the
calls and of their headers are among those of `Serialization`, and that no function
returns an Expected other than in a struct: `co_rpc` of one does not compile
(`async_action.ipp` 94 calls a `deserialize` that `Serializer<Expected>` lacks).
Its actions are the request that `with_args` and
`await_suspend` build, the pieces in which `receive` gets it, the call, the
response of the final suspension, and what the caller reads from it.  An
assertion that fails or an exception that ends the process is a value of
`failure`.  A connection may break (`ConnectionLost`) as long as the message is
not complete.

**Stringification** models `value_to_string` and the views that a log statement
makes.  `Stringify` has the cases of the template; the writers of what is inside a
value are given to it, and `ValueToString` is the recursive function that ties the
two together.  Its loops run along a sequence of writers (`InTurn`).  `Shown` says, by
the structure of a value alone, what its text is.  The constants are the characters
(`Chars`), the values that are logged with all that is inside them (`Loggable`), how
deep those are nested (`Nesting`) and the log statements.  `LogAssumption` asks that
no value is inside itself, directly or through pointers, and that some value is
nested deepest: the program has finitely many, and `value_to_string` of a value that
leads back to itself never returns.

**MCData** puts one queue, one call and one log statement side by side: they have
no state in common, and one run checks all three.

**LinkedQueueProofs** holds the lemmas about the queue operations;
**CoroutineQueueProofs**, **TimeServiceProofs**, **SchedulerProofs**, **RpcProofs**,
**CoroTaskProofs**, **WireProofs** and **StringificationProofs** hold the theorems
(section 5).

Definitions named `X_Something` above a definition `X` are plausible wrong
versions of it; they are used by nothing and serve to show that each property
tells them from the right one.

## 3. The runs

| Run | Module, cfg | Question | Instance |
|---|---|---|---|
| data | `MCData`, `Data` | is the queue well linked and a FIFO under its operations? is what was serialized read back, do messages arrive whole, do log lines show their arguments? | 4 frames, every subset due that does not take the last frame and leave another; 5 functions with every kind of type, an Expected with a value and one with an error; every division into pieces; 6 log statements in buffers of every size up to 40, 100 and 1024 |
| scheduler | `Scheduler`, `Scheduler` | count, single holder, no lost wake-up, drain; does accepted work end, and does shutdown? | 1 worker, 1 client, network and timer thread, 2 frames, each suspended at most once |
| timer | `MCTimeService`, `TimeService` | how late is a wake-up? registration against scan; does the loop thread end? | 2 buckets of 2 ticks; one prompt coroutine, durations from 1 to 17 ticks, 40 ticks; three prompt coroutines, durations 3 and 10, 13 ticks, without scans that break a bucket (`CONSTRAINT TailLast`); two frames with one duration, 1 worker, slow threads, stop at any time, 7 ticks |
| rpc | `MCRpc`, `Rpc` | dangling callbacks; is a waiting coroutine in one place; does a call end, and when it should? | 1 coroutine, a call before and after a restart, 2 workers, 2 servers, a function they lack, all finish conditions, slow connections |
| rpc_call | `MCRpc`, `Rpc_call` | own answers; does it implement `RpcCall`? | `CleanSpec`: 2 coroutines, 2 calls each before and after a restart, 2 servers, finish condition all, slow connections |
| task | `CoroTask`, `CoroTask` | who owns a frame; where does its end lead; does `wait()` return? | 3 frames, 2 variables, 1 thread, 1 suspension, all operations |
| timer_late | `MCTimeService`, `TimeService_late` | finding 1 | 4 buckets, 2 frames |
| timer_mixed | `MCTimeService`, `TimeService_mixed` | finding 2 | 4 buckets, 3 frames, durations 2 and 10 |
| rpc_timeout_count | `MCRpc`, `Rpc_timeout_count` | finding 3 | 2 calls to different servers |
| rpc_early_timeout | `MCRpc`, `Rpc_early_timeout` | finding 4 | 1 coroutine, 2 calls, 1 server |
| task_leak | `CoroTask`, `CoroTask_leak` | finding 5 | 2 frames, 1 variable, no copies |
| wire_expected | `MCData`, `Data_expected` | finding 6 | a function that returns an Expected in a struct |

`Scheduler`, `TimeService` and `Rpc` are checked for deadlock: `Scheduler` ends in
`Terminated`, after the last join; `TimeService` stutters (`ClockEnds`) only where the clock has reached its
bound, and `Rpc` (`Rest`) only where every coroutine has made its `MaxCalls`
calls and returned, or the network thread has ended.  The runs of `MCData` and
`CoroTask` are not: a call that was answered, a written log line and a program
whose memory for frames (`Frames`, each used once) is spent really stop.

### Why the bounds are enough

* Scheduler: the hazards need three threads that append, a worker that is asleep
  or about to sleep, and two frames in the queue at once, one of which a service
  may hold meanwhile.  One suspension per frame (`MaxTurns`) makes it pass the
  queue twice.  That more workers, clients and frames break nothing is what the
  theorems of `SchedulerProofs` say of each of the five invariants.
* Timer: what matters is where a wake-up time lies relative to a bucket's
  boundary, a revolution and the last scan.  Durations 1 to 17 with a revolution
  of 4 ticks cover below, at and above a precision, a revolution and several.
  With two buckets a revolution is short enough for registration, scan and the
  next revolution to overlap in seven ticks.  That more frames, threads, buckets,
  revolutions and other precisions change nothing is what the theorems of
  `TimeServiceProofs` say of every property of the run but `LoopExits`.  Several
  durations need three frames in one bucket for a scan to leave one and take two,
  or the other way round, and durations below and above a revolution for a frame
  to be passed by a scan: 3 and 10 with a revolution of 4.  Behaviours end at
  a scan that would take the last frame and leave another, which is finding 2; no
  behaviour of the other two scenarios has one (`OrderedScans`), so that the
  constraint takes nothing away from them, nor from `LoopExits`, which only they are
  about.
* Queue: four frames give every position (first, middle, last, only); for any
  number see `CoroutineQueueProofs`.
* Messages: every constructor of a type, empty and non-empty, nested once in
  every other.  `Types` and `Values` are those of the five calls with all their parts,
  and headers of every `payload_len` up to `BUFFER_SIZE`, so that a function that is
  taken for another or a wrong size shows as such and not as a missing value.  What
  other types, values and headers do is what `WireProofs`
  says.  Every division into pieces is taken because a message is a few
  dozen bytes.  A log statement is cut at every position of its text;
  `StringificationProofs` is about all values and buffers of any length.
* Tasks: three frames are a root, a callee and a callee's callee, or a root beside
  a chain; two variables are one that is waited on and one that is dropped
  meanwhile, or the two sides of an assignment.  Two threads of the program may
  use them in any order because each operation is a step.  A second worker adds
  no interleaving to these: a chain is at one place at a time (`OneControl`), and
  what two roots have in common is `running_coro_cnt_`, an atomic.  That longer
  chains, more variables, more threads and more suspensions break no safety
  property is what `CoroTaskProofs` says.
* Remote calls: what an earlier call leaves behind meets the next one of the same
  coroutine, so two calls suffice, and one to each side of a restart
  (`MaxCalls`, `MaxRestarts`).  Two servers make an answer incomplete and let
  answers overtake each other; for a majority two endpoints are the even and one
  the odd case.  Two workers are needed for a coroutine to be resumed while its
  `await_suspend` is still running.  `rpc_call` has a second coroutine for answers
  to be confused; the two can be exchanged in everything, so that `Symmetry` of
  `MCRpc` is sound for its two safety properties.  Its finish condition is `all`: what
  is asked there is whose answers are entered, and when a call ends under which
  condition is a question of the run `rpc`.  `CleanSpec` is checked and not the weaker
  `InTimeSpec`, whose instances of this size TLC does not finish; that `RefinesCall`
  holds under it too, and with any conditions, is what `KeepsPromise` says.
* `until` bounds the clock: no registration is made whose time lies behind it.

### Fairness

`Scheduler`: weak fairness of every thread that has begun something, and strong
fairness of taking `lock_`, whose holders release it within a bounded number of
their own instructions, so that a waiting thread gets it in the end.  `Expire`
belongs to the worker's own fairness: `wait_for` has a time limit.  Not assumed:
that anybody commits, that the owner stops the framework, that a sleeper wakes
spuriously.  `CommittedFinishes` and `ShutdownCompletes` are conditional on
`ServicesGiveBack`, that no service keeps a frame for ever; findings and hazards
say where the timer and the network service do.  `TimeService`: weak fairness
of the loop thread and of a registration in progress; the clock is not fair.

`Rpc`: weak fairness of a worker in `await_suspend` and of a handler that has
taken a coroutine (plain progress of a thread); strong fairness of each time-out
(its timer expires, and the asio context runs what is ready in its order, so
that it is not passed over for ever) and of resuming a queued coroutine (the
ready queue is first in, first out, and no worker is kept in `await_suspend`).
No fairness of deliveries, connections, servers, `StopNet` or `Restart`.
`CallEnds` excepts a call that waits when the network thread has ended.

`CoroTask`: weak fairness of each thread, and of a waiter whose `done_flag_` is
set.  That a thread goes on includes that a coroutine body ends, which
`MaxTurns` and the finite set of frames make true of the model.  Nobody is
assumed to drop a variable, to commit, or to resume.

## 4. Findings

1. `time_module/time_service.cpp` 89, "force awake all frames on bucket": a
   coroutine that registers after the final scan of its bucket is not woken, and
   the workers wait for it for ever (`timer_late`).
2. `queue.ipp` 38 asserts that an appended frame is linked to nothing.
   `fetch_nodes` leaves `tail_` on an unlinked frame when the last frame of a
   bucket is due and an earlier one is not; the frame appended next is linked to
   a frame elsewhere, and cannot be reached in its bucket.  It takes two
   coroutines whose different sleep times fall into one bucket (a revolution is
   4096 ms; `timer_mixed`).  With two workers one sleep time is enough, if a
   worker is delayed between reading the clock and inserting its frame: with
   `Registrars = {r1, r2}` in `TimeService.cfg`, `SleepersReachable` is
   violated.  The timer runs that pass have one registering worker for that
   reason.
3. `async_action/async_action.ipp` 131 asserts that a time-out leaves one result
   per endpoint.  `net_module/rpc_struct.h` 67, `rpc_id_` is "for response to find
   request in map", but it names the coroutine and not the request: an answer
   that comes after the time-out of its call is entered into the next call of
   the same coroutine, whatever function that one names.  If it comes from an
   endpoint that call was not sent to, its time-out adds a result for every
   endpoint and the assertion fails (`rpc_timeout_count`).  `OwnAnswers` fails
   for the same reason with `Spec` in place of `CleanSpec` in `Rpc_call.cfg`.
4. `src/src/error_define/error_struct.h` 12, RPC_TIMEOUT is "rpc response not
   returned at specified time span.": the timer of an answered call runs on and
   times out the coroutine's next call before its time (`rpc_early_timeout`).

5. `task.h` 32, "when coroutine executed done, it's memory still remain if there is
   any CoroTask exists, or coroutine's memory will be destoryed immediately":
   `RefCount::dec` returns the count before the decrement (`utils.h` 24) and its
   callers compare it with zero, so that the last reference sees one and the frame
   stays (`task_leak`).  The new count would be right for coroutines that are
   committed, but not for one that is resumed directly (`src/src/main.cpp`): it has
   no reference of its own, and with `LetGo_NewCount` the run `task` destroys it
   while it is suspended.
6. `src/src/mechanism/serialization.hpp` 84, "serization out of buffer range, which
   should not happen": `get_serialize_size` of an `Expected` looks at a local flag
   that is always false (`error_define/error_struct.h` 97), and counts four bytes
   for any value.  A function that returns a struct with an `Expected<int64_t>` in
   it that holds a value ends the server: the exception leaves the final suspension,
   which is `noexcept` (`wire_expected`).  So does one that returns the Expected
   itself, if a peer asks for it: `co_rpc` of this repository does not compile for
   such a function.

Seen while modelling, and visible in the modules without a run of its own:

* `net_module/net_service.cpp` 122 asserts that a payload is at most 128 bytes less
  the header, after the message has been read into a buffer of its own size;
  `with_args` allows 1 KiB (`Asserted` in `Wire`).
* `error_define/error_struct.h` 90 reads an error into `data.error()` of an
  Expected that holds a value, which the language does not define: the error is
  lost, and the Expected that was read still holds a value, which nobody wrote
  (`ExpectedRead` in `Serialization`).  `RoundTrip`, `RequestIntact` and
  `ResultIntact` except values with such an Expected in them.
* `net_module/net_service.cpp` 98 asserts that committing a request succeeds.
  It fails in the window between `net_module_.start()` and
  `stop_flag_.store(false)` in `start()`, and in the one between
  `stop_flag_.store(true)` and `net_module_.stop()` in `stop()`: the frame is
  `"dropped"` in `Scheduler`.
* `net_module/rpc_struct.h` 68, `process_restart_counter_` is "for restart refuse
  older message": it is always 1 and never read, so that an answer from before a
  restart is entered into a call made after it (`OwnAnswers` fails with `Spec`,
  `MaxCalls = 1` and `LateWrite = FALSE` in `Rpc_call.cfg`).
* `async_action/async_action.h` 140 calls the third parameter of the
  `on_each_result` callback `need_resume`: what it is set to is overwritten by
  the finish condition (`async_action.ipp` 106-118), so that the callback has no
  effect in `ProcessBuffer`.

Behaviour without a statement in the code to hold it against: `loop_` scans
bucket 1 as soon as it starts, so that a coroutine due within the first
precision that registers after that scan sleeps a revolution too long
(`LessThanATickLate` excepts it); a `commit` that overlaps `stop()` can pass the
test of `stop_flag_` and append to a queue whose workers have all left.

## 5. What is proved

`LinkedQueueProofs` says what the three queue operations do to any queue that is a
list (`IsList`: the walk from `head_` represents it) on a heap that other queues
share.  `ChainIs` comes first: if a queue represents a list, the walk is that list;
it is an induction over the steps of the walk, by the least step at which the two
would differ (`LeastNumber`).  `AppendList`, `PopList` and `FetchSplits` are one
lemma per operation: the new list, its members, and the frames whose links do not
change, which keeps every other list as it was (`KeepsList`).  `FetchSplits` has
the hypothesis that the last frame leaves only if all do, the one that finding 2
violates; `ThoseIs` says that what the walk sorts out keeps its order.

`CoroutineQueueProofs` proves, for any finite set of frames and both policies:

| Theorem | States |
|---|---|
| `QueueTypeOK` | `Spec => []TypeOK` |
| `QueueWellLinked` | `Spec => []WellLinked` |
| `QueueImplementsFifo` | `Spec => RefinesFifo`, that is `CoroutineQueue` implements `FifoQueue` |

The invariant `QInv` is `WellLinked` with the two lists named by the walks; each
operation has one lemma (`AppendStep`, `PopStep`, `FetchStep`, `HandOverStep`) that
says both that `QInv` is kept and which step of the FIFO it is.

`TimeServiceProofs` proves every safety property of the run `timer`, for any number
of frames, registering threads and buckets, any precision, and any scenarios and
durations, of all behaviours without a scan that takes the last frame of a bucket
and leaves another (`WholeScans`, that is `[][Scan => TailLast]_vars`):

| Theorem | States |
|---|---|
| `TimerTypeOK` | `Spec /\ WholeScans => []TypeOK` |
| `SleepersStayReachable` | `Spec /\ WholeScans => []SleepersReachable` |
| `SleepersDueAfterScan` | `Spec /\ WholeScans => []DueAfterScan` |
| `AppendsHold` | `Spec /\ WholeScans => []AppendAssert` |
| `NobodyWakesEarly` | `Spec /\ WholeScans => NoEarlyWake` |
| `SleepersWakeInTime` | `Spec /\ WholeScans => []LessThanATickLate`, if no prompt scenario has a `stop()` (`Unstopped`) |
| `OrderedScans` | `Spec => WholeScans`, if frames enter a bucket in the order they are due (`AllInOrder`) |

`WholeScans` is not a convenience of the proof: a scan that it excludes leaves
`tail_` on a frame that is gone, the next append links a frame of another list, and
the lists that everything rests on are no lists any more (finding 2).  Coroutines of
different durations may share a bucket and satisfy it, as the three of the run
`timer` do (`Together` in `MCTimeService`).  `AllInOrder` asks of each scenario that one coroutine sleeps, or
that all sleep for the same time and either one thread registers them or the threads
are quicker than the clock; then `WholeScans` holds by itself, and so it does in the
other two scenarios of the run.
`Unstopped` is needed because `stop()` wakes frames before they are due and leaves
those that come later asleep (finding 1).

`WheelInv` says that every bucket and the batch of the scan are lists of exactly
the frames that sleep there or are due (`Lists`) and that a frame under registration
belongs to one thread (`Owners`); `Past` and `LoopAt` are about the clock and the
place of the loop thread.  A scan keeps it because `TailLast` is the hypothesis of
`FetchSplits`.  For `OrderedScans`, `OrderInv` adds that each bucket lists its frames
in the order of their wake-up times (`SortedBuckets`) and that no frame on its way is
due before one that sleeps (`WakeOrder`), so that a scan takes a prefix of its list
(`LastDueAllDue`).

For the lateness, `OnTime` adds that the loop thread scans each bucket when its
time comes (`Punctual`), that its last scan was a revolution before its next one
(`LastScans`), and that a sleeping frame is due after that last scan (`Slots`).
`BucketTick` is the arithmetic of `register_frame` 52-54: the bucket of a wake-up
time is that of the first multiple of the precision not before it, whichever
revolution's start the thread has read, since those starts are a whole number of
revolutions apart.  So the first scan of the bucket that comes at or after the
wake-up time comes less than a precision after it (`AwaitedInTime`), and `Slots`
says that this scan is the next one.

`SchedulerProofs` proves, for all finite sets of frames and all sets of workers
and clients that satisfy `SchedulerAssumption`, with any `MaxTurns`:

| Theorem | States |
|---|---|
| `TypeCorrect` | `Spec => []TypeOK`; the unsigned `running_coro_cnt_` does not wrap |
| `CountCorrect` | `Spec => []CountExact` |
| `FramesHeldOnce` | `Spec => []HeldOnce` |
| `WakeupsKept` | `Spec => []NoLostWakeup` |
| `StopDrains` | `Spec => []EarlyWorkFinished` |

None of the five is inductive alone.  `IInv` strengthens them by who holds which
frame: a thread or worker at a step that touches its frame has one in the state
the step expects and shares it with nobody (`ThreadsOwn`, `WorkersOwn`), the
queue holds distinct frames (`QueueOwns`), and a frame on its way is somewhere
(`Placed`).  The count is decremented only for a frame that is `"running"`, so
that it is positive then: types, ownership and count have to be proved together
(`Inv`).  The wake-up argument adds that before `start()` clears the flag no
worker runs and that workers leave only a stopped framework (`FlagInv`), and
that a worker about to sleep found the queue empty, since it holds the lock
(`BlockInv`).  The drain argument adds that an early frame never starts over
(`EarlyInv`).  There is one lemma per part, with one step per action, and
`IInvAlways` combines them.

`RpcProofs` proves, for any sets of coroutines, workers and servers that satisfy
`RpcAssumption`, any number of calls and restarts, and slow connections
included:

| Theorem | States |
|---|---|
| `TypeCorrect` | `Spec => []TypeOK` |
| `CoroutinesHeldOnce` | `Spec => []HeldOnce` |
| `NoDanglingCallback` | `Spec => []CallbackAlive` |
| `CallsEndWhenEnough` | `Spec => []EndsWhenEnough`, for any number of endpoints |

Again the first three need each other: a handler may write to the object an entry
points to because the entry's call is going on (`CallbackAlive`); the entry that
a worker inserts is the current call's because a coroutine in the middle of
`await_suspend` is in no place from which it could be resumed (`HeldOnce`, and
`AwaitsOwn` for the worker); and results come from servers because requests go
to servers only and a response carries its sender's own port (`Addressed`).
`Moves` groups the steps by what they do to the coroutines, so that each of the
remaining lemmas has one step per group.  On top of that `EInv` says when calls
end: a call that is not in the map yet has no answers, and the lemma
`AnswerEnds` does the arithmetic: the finish conditions test the number of
results for equality, and that steps over nothing because they are tested at
every answer and the call ends at the first that meets them.

The second part of `RpcProofs` is about the results of calls, under the two
restrictions that section 2 describes; for a call that an answer to an earlier one
or a slow connection reaches too late, findings 3 and 4 show the opposite.
Coroutines, workers, servers, lists of endpoints, finish conditions, functions and
the numbers of calls and restarts are any that satisfy `RpcAssumption`.

| Theorem | States |
|---|---|
| `OwnAnswersOnly` | `CleanSpec => []OwnAnswers` |
| `KeepsPromise` | `InTimeSpec => RefinesCall`, that is `Rpc` implements `RpcCall` |

`CleanSpecIsInTime` shows that `CleanSpec` is the stronger restriction, and
`OneCallIsClean` that `Spec` satisfies it where each coroutine makes one call in one
process and connections are made in time (`MaxCalls = 1`, `MaxRestarts = 0`,
`LateWrite = FALSE`): there both properties hold of the code as it is.

Whether a result is the call's own cannot be seen where it is entered, since
`receive` looks at the coroutine's id alone: it depends on everything that is on
its way.  First, nothing that is on its way belongs to a call that has not begun
(`Begun`, preserved by `PendingStep`): what is left over from earlier calls cannot
be taken for a part of the one that begins.  Then `CInv` says of each coroutine
(`Tracked`) that every `send_`, request, task and response of its current call is
for one of its endpoints (`Regular`); that for one endpoint there is one of these at
a time, and none once the endpoint has answered (`OneStage`), so that no endpoint
answers twice; and that the results are the answers of the flagged endpoints, one
each (`OwnResults`).  The lemmas `Kept` and `Onward` do the work for all steps: a
step that creates nothing of the current call keeps it tracked, which covers every
loss and all that happens to what earlier calls left behind, and one that takes the
call to an endpoint from one stage to the next does too.  `OwnAnswers` follows, under
`InTimeSpec` and so under `CleanSpec`.  That `CleanSpec` is within `InTimeSpec` needs
an invariant of its own: whatever is pending of a coroutine that waits is of the
call it waits for (`NoneLeft`).

For the refinement, `Awaited` maps a call to the endpoints that have answered and
expired and calls it over when its coroutine has left the map.  There is one
lemma per step of `RpcCall`: `BeginImplemented`, `AnswerImplemented`,
`TimeOutImplemented`, `ReturnImplemented`, and `AwaitUnseen` and `OthersUnseen`
for the steps it does not see; `Restart` is `Crash`.  A time-out of an earlier call
that ends this one is a `TimeOut` of `RpcCall`, which does not promise when it comes
(finding 4).  An answer ends the abstract call when the flagged endpoints meet the
finish condition and the concrete one when the number of results does; `OwnResults`
makes the two the same (`EnoughIsMet`).

`CoroTaskProofs` proves every safety property of the run `task`, for any finite
sets of frames and variables, any set of threads, whichever operations the
program uses (`Uses`), and any `MaxTurns` and `MaxRefs`:

| Theorem | States |
|---|---|
| `TypeCorrect` | `Spec => []TypeOK` |
| `Dangling` | `Spec => []NothingDangling` |
| `Returns` | `Spec => []ReturnsToCaller` |
| `Control` | `Spec => []OneControl` |
| `LocalVars` | `Spec => []LocalVarOfChain` |
| `DestroyedAtRest` | `Spec => DestroysNoneAtWork` |
| `Counting` | `Spec => []CountsRoots` |

None of them is inductive alone.  `Inv` adds to `TypeOK`:

* `ThreadInv`, `FrameInv`: which frame a thread has at which step, and what the
  state of a frame says of its handle, its caller and its ring;
* `HeldInv`: a callee is in the awaitables of one caller at most, so that a
  `MiddleAwaitable` that goes away destroys nobody else's callee;
* `RefInv`: the count of a frame is not below the number of its references.  The
  exception is a root that was resumed without `commit`: its final suspension
  lets go of a reference it never took, and the count may be one short from then
  on.  `dec` returns the count before it decrements, so zero is seen only by the
  last reference to such a root (`ZeroMeansEnded`): nothing dangles, and frames
  that were counted right stay behind (finding 5);
* `RingInv`: the frames of a chain form the ring root, callee, ..., root that
  `await_suspend` and the final suspension of a callee change at two places;
* `LocalInv`: the variables a frame points to are those of the root of its ring;
* `CallersInv`: the model's record of who called whom orders a chain.  It is what
  shows that when a root deletes its variables nobody else has them, and that
  the caller which a callee returns to waits for no other frame.

`Moves` groups the steps of `Next` by what they do to frames, each part of `Inv`
has one lemma with one step per group, and `Invariance` combines them.
`Counting` needs one more: the set of roots that were counted and have not let
go gains one frame at a `commit`, loses one at the end of a counted root, and no
other step changes it, which `CountStep` compares with the counter.

The first part of `WireProofs` is about `Serialization` alone.  It proves, for any
types and values that satisfy `SerializationAssumption`:

| Theorem | States |
|---|---|
| `ReadBack` | `deserialize` of what `serialize` wrote, followed by any bytes, succeeds and leaves those bytes; it gives the value, unless an Expected with an error is in it |
| `SizesExact` | `get_serialize_size` is the number of bytes written, if no type is an Expected (finding 6) |

That a recursive function over values has a value at all is not taken for granted:
it is defined by choice among the functions that satisfy its equation, so there has
to be one.  `Serialized`, `Sized` and `Deserialized` look at a value's or a type's
parts only, whose nesting (`Depth`) is smaller; `SerializedIs`, `SizedIs` and
`DeserializedIs` build, by induction on the depth, a function that satisfies the
equation up to it, for the deepest type everywhere.  Then `ValueInduction`: what holds of a
value if it holds of its parts holds of all.  Within one value the parts are taken
one after the other: `JoinedPieces` and `Remainders` say of a concatenation which bytes
belong to which piece and which are left behind it, `LengthsAddUp` that its length is
the sum, and `PartsRead` goes through the loop of `deserialize` along them.
`CountedBack` says, per kind of type, that the number read tells `deserialize` how
many parts there are and of which types, and `NumberReadBack` that it is the one
written.  An Expected with an error is read to its end, so that what follows it in
the same message is read where it begins, but not given back (`ExpectedRead`):
`HoldsError` is the exception in the claim for a value, and what holds an error in
one of its parts holds one.

The second part proves every invariant of a remote call as bytes, for any
functions, types, values, ports and coroutine id that satisfy `WireAssumption`, and
for every division of the two messages into pieces:

| Theorem | States |
|---|---|
| `ReadsWhatIsWritten` | `WireSpec => []RoundTrip` |
| `WireTypes` | `WireSpec => []WireTypeOK` |
| `MessagesArriveWhole` | `WireSpec => []WholeMessage` |
| `RequestsIntact` | `WireSpec => []RequestIntact` |
| `ResultsIntact` | `WireSpec => []ResultIntact` |
| `LengthsAgree` | `WireSpec => []SizesAgree`, if no type is an Expected and messages are as short as the program asserts (`ShortMessages`) |

`Serializer` collects what the steps of a call need of `Serialization`: bytes are
written, sizes are numbers, a header takes the same number of bytes whatever is in it,
and what was written is read back; `SerializerReads` derives it from `ReadBack`.  The
argument that `RoundTrip` has beyond `ReadBack` is that the two ends use different
types (`OneMember`: a result is written as a struct of one member and read alone) and
that a buffer may be longer than what was written (`ReadsPadded`).  `RoundTrip` leaves
out what does not fit its buffer, so the first five theorems hold of a function that
returns a struct with an Expected as well, whose calls may end in an exception
(finding 6).  `RoundTrip`, `RequestIntact` and `ResultIntact` compare what was read
with what was written by `Arrived`, which excepts an Expected with an error.  That
`get_serialize_size` is wrong for an Expected and that `with_args` allows longer
messages than `receive` asserts is why `LengthsAgree` has two hypotheses.

The invariant is `WireInv`.  Beside the properties it has `Delivery`: while a
message is on its way, the bytes of `data` (or, once the header has been read, of
the payload) followed by those the connection still has are the message that was
sent.  `PieceMoves` is the lemma about one `async_read_some`: a piece moves from the
connection to the end of what was received and their concatenation stays the same;
`SameParts` cuts that concatenation at the header's size, and `Received` concludes
that the payload is complete exactly when the connection has nothing left.

`StringificationProofs` proves, for any values, statements and buffer lengths that
satisfy `LogAssumption`:

| Theorem | States |
|---|---|
| `LogLinesShowArguments` | `LogSpec => []ViewsShowArguments` |

What is written at any moment is a text of which the buffer has the beginning
(`Written`): `pos` is the length of the text or the end of the buffer, whichever is
less, and the characters up to there are those of the text.  `FormatWrites` says
that one `FORMAT_TO` of `value_to_string` appends to it.  The `FORMAT_TO` of
`kv_to_string` does so only if the buffer has room (`FormatKeyWrites`), and taking
back the last `", "` needs that both its characters were written (`TakesBack`).
Those two are the reason why `ViewsShowArguments` asks for room where a struct is
involved, and why each lemma carries a condition on the room that is left
(`HasRoom`): for a struct it is its text and two characters more, for anything else
nothing.  `WritesInTurn` goes through a loop: if each of the writers appends its
text, then all of them append the concatenation.  `Prints` is the claim for a value,
that `ValueToString` appends `Shown`; there is one lemma per kind of value
(`PlainPrints`, `CustomPrints`, `PointerPrints`, `RangePrints`, `StructPrints`) that
derives it from the claim for what is inside, and `EveryValuePrints` concludes by
induction on the nesting.  As above, that the recursive functions have values is
proved first (`RecursionIs`).  `LineWrites` then goes along the arguments of a
statement.  A view is read after all arguments have been written, and what is
written later leaves the characters before `pos` as they are, so that the view of
the i-th argument is the i-th text (`ViewsShowWhole`); without structs the views
are what is left of the texts when the line is cut at the end of the buffer
(`ViewsShowBeginning`).

Every safety property of the passing runs is stated by one of these theorems.  Only
model-checked are the liveness properties (`LoopExits`, `CommittedFinishes`,
`ShutdownCompletes`, `CallEnds`, `WaitReturns`), since liveness under fairness is
beyond the proof system as installed.

## 6. What is not modelled

Thread-local pointers, the random part of the wait time, the exception path of
`start()`.  Memory orders: every atomic and every critical section is
sequentially consistent in the models; `sync_cnt_` exists only to order memory
and has no counterpart.  Coroutines that commit other coroutines do so like a
client.  `GetPromiseOp`, which nothing uses; `done()` and `get_result()`, which
change nothing.  Byte order, and what `kv_to_string` does behind the end of its
buffer.  Custom serializers other than those of `Error` and `Expected` (there are
none).  Log levels and sinks, unit literals, static reflection: no state that a
property could tell apart.

Of the 29649 lines under `src/`, about 26700 are spdlog with its copy of fmt,
vendored and used through one macro; what is left, about 2600 lines, includes
headers of declarations, demos and tests.  The modules stand for the code in it
that has behaviour at run time; a larger share of the whole could only be had by
modelling a formatting library that is not this program's.

## 7. Plan

1. (done) `LinkedQueue`, `CoroutineQueue`, `FifoQueue`; `Scheduler`,
   `SchedulerProofs`, `CoroutineQueueProofs`; `TimeService`.
2. (done) `RpcCall`, `Rpc`, `MCRpc`, `RpcProofs`.
3. (done) `CoroTask`, `CoroTaskProofs`.
4. (done) `Serialization`, `Wire`, `Stringification`, `MCData`.
5. (open) `Framework`: `Scheduler` composed with the timer's and the network's
   shutdown, to replace `ServicesGiveBack` by what the services do.
6. (done) the second part of `RpcProofs`: own answers, and `Rpc` implements `RpcCall`.
7. (done) `LinkedQueueProofs`, `CoroutineQueueProofs` for both policies,
   `TimeServiceProofs`.
8. (done) `WireProofs`: messages arrive whole for every division into pieces.
9. (done) `Serialization` as recursive functions over types of any finite depth,
   and the first part of `WireProofs`: what was written is read back, for all types and values.
10. (done) `Stringification` in the same way, and `StringificationProofs`:
    `ViewsShowArguments` for buffers of any length.
