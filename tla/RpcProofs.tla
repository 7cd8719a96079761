------------------------------ MODULE RpcProofs ------------------------------
(* Safety of Rpc for every set of coroutines, workers, servers and endpoints, *)
(* every number of calls and restarts, and slow connections as well; and that *)
(* Rpc implements RpcCall as long as nothing comes too late.                  *)
EXTENDS Rpc, FiniteSetTheorems, TLAPS

(* A worker that is about to insert an entry does so for the call its         *)
(* coroutine is in, and no other worker does.                                 *)
AboutToInsert(w) == worker[w] # None /\ worker[w].pc = "insert"
AwaitsOwn ==
  /\ \A w \in Workers : AboutToInsert(w) =>
       LET body == worker[w].body
       IN  /\ body.of.coro = body.rpc_id
           /\ rpc[body.rpc_id] # None
           /\ rpc[body.rpc_id].n = body.of.n
  /\ \A v, w \in Workers :
       AboutToInsert(v) /\ AboutToInsert(w)
         /\ worker[v].body.rpc_id = worker[w].body.rpc_id => v = w

(* Requests go to servers, and what receive makes of the sender of a response *)
(* is a server's endpoint.                                                    *)
Addressed ==
  \A m \in messages : /\ m.type = "REQUEST" => m.to \in Servers
                      /\ m.type = "RESPONSE" => PeerEndPoint(m) \in Servers

IInv == TypeOK /\ AwaitsOwn /\ Addressed /\ HeldOnce /\ CallbackAlive

LEMMA NewRpcType ==
  ASSUME NEW n \in Calls, NEW endpoints \in Targets, NEW condition \in Conditions,
         NEW function \in Functions
  PROVE  /\ NewRpc(n, endpoints, condition, function) \in RpcBase
         /\ NewRpc(n, endpoints, condition, function).n = n
         /\ NewRpc(n, endpoints, condition, function) # None
  <1>1. <<>> \in Seq([from : Servers, of : CallIds])
    OBVIOUS
  <1>2. endpoints \in SUBSET Servers
    BY RpcAssumption
  <1>3. NewRpc(n, endpoints, condition, function) \in RpcBase
    BY <1>1, <1>2 DEF NewRpc, RpcBase
  <1> QED
    BY <1>3, NoneAssumption DEF NewRpc

(* An answer changes the results and flags of an object, not its call.        *)
LEMMA AnsweredType ==
  ASSUME NEW r \in RpcBase, NEW flagged \in SUBSET Servers,
         NEW results \in Seq([from : Servers, of : CallIds])
  PROVE  /\ [r EXCEPT !.results = results, !.flagged = flagged] \in RpcBase
         /\ [r EXCEPT !.results = results, !.flagged = flagged].n = r.n
  BY DEF RpcBase

LEMMA ProcessBufferType ==
  ASSUME NEW r \in RpcBase, NEW peer \in Servers, NEW of \in CallIds
  PROVE  /\ ProcessBuffer(r, peer, of) \in RpcBase
         /\ ProcessBuffer(r, peer, of).n = r.n
         /\ ProcessBuffer(r, peer, of) # None
  <1> DEFINE results == Append(r.results, [from |-> peer, of |-> of])
             flagged == r.flagged \cup ({peer} \cap r.endpoints)
             after   == [r EXCEPT !.results = results, !.flagged = flagged]
  <1>1. results \in Seq([from : Servers, of : CallIds])
    BY DEF RpcBase
  <1>2. flagged \in SUBSET Servers
    BY DEF RpcBase
  <1>3. ProcessBuffer(r, peer, of) = after
    BY DEF ProcessBuffer
  <1>4. after \in RpcBase /\ after.n = r.n
    <2> HIDE DEF results, flagged
    <2> QED BY <1>1, <1>2, AnsweredType
  <1> HIDE DEF after
  <1> QED
    BY <1>3, <1>4, NoneAssumption

(* A time-out changes the entries with RPC_TIMEOUT only.                      *)
LEMMA ExpiredType ==
  ASSUME NEW r \in RpcBase, NEW expired \in SUBSET Servers
  PROVE  /\ [r EXCEPT !.expired = expired] \in RpcBase
         /\ [r EXCEPT !.expired = expired].n = r.n
         /\ [r EXCEPT !.expired = expired] # None
  BY NoneAssumption DEF RpcBase

-----------------------------------------------------------------------------
LEMMA InitInv == Init => IInv
  BY RpcAssumption, NoneAssumption
  DEF Init, IInv, TypeOK, AwaitsOwn, AboutToInsert, Addressed, HeldOnce,
      Places, Suspended, CallbackAlive, EndPoints

-----------------------------------------------------------------------------
(* The body of a message is that of the call whose send_ is carried out, or,  *)
(* after the end of that call, of a call that is still going on.              *)
LEMMA SendBufferType ==
  ASSUME TypeOK, NEW c \in Coros, rpc[c] # None
  PROVE  SendBuffer(c) \in Bodies
  <1>1. rpc[c] \in RpcBase
    BY DEF TypeOK
  <1> QED
    BY <1>1 DEF SendBuffer, Bodies, CallIds, RpcBase, TypeOK

(* No step leaves the types: a handler works on an object only while its      *)
(* entry is in the map, and every answer comes from a server's endpoint.      *)
LEMMA TypeStep == IInv /\ [Next]_vars => TypeOK'
  <1> SUFFICES ASSUME IInv, [Next]_vars PROVE TypeOK'
    OBVIOUS
  <1> USE DEF TypeOK
  <1>0. TypeOK
    BY DEF IInv
  <1>1. ASSUME NEW w \in Workers, NEW c \in Coros, AwaitSuspend(w, c)
        PROVE  TypeOK'
    <2>1. calls[c] \in 0..MaxCalls /\ calls[c] < MaxCalls /\ MaxCalls \in Nat
      BY <1>0, <1>1, RpcAssumption DEF AwaitSuspend
    <2>2. calls[c] + 1 \in Calls /\ calls' = [calls EXCEPT ![c] = @ + 1]
      BY <1>1, <2>1 DEF AwaitSuspend, Calls
    <2>3. calls' \in [Coros -> 0..MaxCalls] /\ calls'[c] \in Calls
      BY <1>0, <2>1, <2>2
    <2>4. PICK endpoints \in Targets, condition \in Conditions, function \in Functions :
            /\ rpc' = [rpc EXCEPT ![c] = NewRpc(calls'[c], endpoints, condition, function)]
            /\ worker' = [worker EXCEPT ![w] =
                 [pc |-> "insert", left |-> endpoints,
                  body |-> [rpc_id |-> c, rpc_type |-> function,
                            of |-> [epoch |-> epoch, coro |-> c, n |-> calls'[c]]]]]
      BY <1>1 DEF AwaitSuspend
    <2>5. rpc' \in [Coros -> RpcBase \cup {None}]
      BY <1>0, <2>3, <2>4, NewRpcType
    <2>6. [rpc_id |-> c, rpc_type |-> function,
           of |-> [epoch |-> epoch, coro |-> c, n |-> calls'[c]]] \in Bodies
      BY <1>0, <2>3 DEF Bodies, CallIds
    <2>7. endpoints \in SUBSET Servers
      BY RpcAssumption
    <2>8. worker' \in [Workers -> Awaits \cup {None}]
      BY <1>0, <2>4, <2>6, <2>7 DEF Awaits
    <2> QED
      BY <1>0, <1>1, <2>3, <2>5, <2>8 DEF AwaitSuspend
  <1>2. ASSUME NEW w \in Workers, Insert(w) PROVE TypeOK'
    <2>1. worker[w] \in Awaits
      BY <1>0, <1>2 DEF Insert
    <2>2. /\ worker[w].body.of.coro \in Coros
          /\ worker[w].body.of.n \in Calls
          /\ worker[w].body.of.n \in 0..MaxCalls
      BY <2>1, RpcAssumption DEF Awaits, Bodies, CallIds, Calls
    <2>3. [worker[w] EXCEPT !.pc = "spawn"] \in Awaits
      BY <2>1 DEF Awaits
    <2>4. worker' = [worker EXCEPT ![w] = [worker[w] EXCEPT !.pc = "spawn"]]
      BY <1>0, <1>2 DEF Insert
    <2>5. worker' \in [Workers -> Awaits \cup {None}]
      BY <1>0, <2>3, <2>4
    <2>6. waiting_coros' \in [Coros -> 0..MaxCalls]
      BY <1>0, <1>2, <2>2 DEF Insert
    <2>7. timers' \subseteq [coro : Coros, n : Calls]
      BY <1>0, <1>2, <2>2 DEF Insert
    <2> QED
      BY <1>0, <1>2, <2>5, <2>6, <2>7 DEF Insert
  <1>3. ASSUME NEW w \in Workers, SpawnSend(w) PROVE TypeOK'
    <2>1. worker[w] \in Awaits
      BY <1>0, <1>3 DEF SpawnSend
    <2>2. PICK e \in worker[w].left, to \in Servers :
            /\ worker' = [worker EXCEPT ![w].left = @ \ {e}]
            /\ sends' = sends \cup {[to |-> to, body |-> worker[w].body]}
      BY <1>3 DEF SpawnSend
    <2>3. [worker[w] EXCEPT !.left = worker[w].left \ {e}] \in Awaits
      BY <2>1 DEF Awaits
    <2>4. worker' = [worker EXCEPT ![w] = [worker[w] EXCEPT !.left = worker[w].left \ {e}]]
      BY <1>0, <2>2
    <2>5. worker' \in [Workers -> Awaits \cup {None}]
      BY <1>0, <2>3, <2>4
    <2>6. sends' \subseteq [to : Servers, body : Bodies]
      BY <1>0, <2>1, <2>2 DEF Awaits
    <2> QED
      BY <1>0, <1>3, <2>5, <2>6 DEF SpawnSend
  <1>4. ASSUME NEW w \in Workers, AwaitSuspendReturns(w) PROVE TypeOK'
    BY <1>0, <1>4 DEF AwaitSuspendReturns
  <1>5. ASSUME NEW w \in Workers, NEW c \in Coros, AwaitResume(w, c) PROVE TypeOK'
    BY <1>0, <1>5 DEF AwaitResume
  <1>6. ASSUME NEW s \in sends, SendRequest(s) PROVE TypeOK'
    <2>1. s.to \in Servers /\ s.body \in Bodies
      BY <1>0
    <2>2. PICK body \in {s.body} \cup {SendBuffer(c) : c \in {d \in Coros : rpc[d] # None}} :
            messages' = messages \cup
              {[type |-> "REQUEST", to |-> s.to, ip |-> Client.ip,
                server_port |-> Client.port, body |-> body, sent_for |-> s.body.of]}
      BY <1>6 DEF SendRequest
    <2>3. body \in Bodies
      BY <1>0, <2>1, SendBufferType
    <2>4. s.body.of \in CallIds
      BY <2>1 DEF Bodies
    <2>5. s.to \in Peers
      BY <2>1, RpcAssumption DEF Peers, EndPoints
    <2>6. Client.ip \in {e.ip : e \in EndPoints} /\ Client.port \in {e.port : e \in EndPoints}
      BY DEF EndPoints
    <2> QED
      BY <1>0, <1>6, <2>2, <2>3, <2>4, <2>5, <2>6 DEF SendRequest
  <1>7. ASSUME NEW m \in messages, ReceiveRequest(m) PROVE TypeOK'
    <2>1. CASE UNCHANGED tasks
      BY <1>0, <1>7, <2>1 DEF ReceiveRequest
    <2>2. CASE tasks' = tasks \cup {ResponseInfo(m)}
      <3>1. m.to \in Servers
        BY <1>7 DEF ReceiveRequest, IInv, Addressed
      <3>2. /\ m.body \in Bodies /\ m.sent_for \in CallIds
            /\ m.ip \in {e.ip : e \in EndPoints}
            /\ m.server_port \in {e.port : e \in EndPoints}
        BY <1>0
      <3>3. [ip |-> m.ip, port |-> m.server_port] \in Peers
        BY <3>2 DEF Peers
      <3>4. ResponseInfo(m) \in [at : Servers, response_to : Peers, body : Bodies,
                                 sent_for : CallIds]
        BY <3>1, <3>2, <3>3 DEF ResponseInfo
      <3> QED
        BY <1>0, <1>7, <2>2, <3>4 DEF ReceiveRequest
    <2> QED
      BY <1>7, <2>1, <2>2 DEF ReceiveRequest
  <1>8. ASSUME NEW m \in messages, ReceiveResponse(m) PROVE TypeOK'
    <2> DEFINE c == m.body.rpc_id
    <2>0. m.body \in Bodies
      BY <1>0
    <2>1. c \in Coros /\ m.body.of \in CallIds /\ PeerEndPoint(m) \in Servers
      BY <2>0, <1>8 DEF ReceiveResponse, Bodies, IInv, Addressed
    <2>2. CASE waiting_coros[c] = 0 /\ UNCHANGED <<rpc, taken, waiting_coros>>
      BY <1>0, <1>8, <2>2 DEF ReceiveResponse
    <2>3. CASE waiting_coros[c] # 0
      <3>1. rpc[c] \in RpcBase
        BY <1>0, <2>1, <2>3 DEF IInv, CallbackAlive
      <3>2. rpc' = [rpc EXCEPT ![c] = ProcessBuffer(@, PeerEndPoint(m), m.body.of)]
        BY <1>8, <2>3 DEF ReceiveResponse
      <3>3. rpc' \in [Coros -> RpcBase \cup {None}]
        BY <1>0, <2>1, <3>1, <3>2, ProcessBufferType, RpcAssumption
      <3>4. taken' \in Coros \cup {None} /\ waiting_coros' \in [Coros -> 0..MaxCalls]
        BY <1>0, <1>8, <2>1, <2>3, RpcAssumption DEF ReceiveResponse, TakeIf
      <3> QED
        BY <1>0, <1>8, <3>3, <3>4 DEF ReceiveResponse
    <2> QED
      BY <1>8, <2>2, <2>3 DEF ReceiveResponse
  <1>9. ASSUME NEW t \in timers, TimeOut(t) PROVE TypeOK'
    <2> DEFINE c == t.coro
    <2>1. c \in Coros
      BY <1>0
    <2>2. CASE waiting_coros[c] = 0 /\ UNCHANGED <<rpc, taken, waiting_coros>>
      BY <1>0, <1>9, <2>2 DEF TimeOut
    <2>3. CASE waiting_coros[c] # 0
      <3>1. rpc[c] \in RpcBase
        BY <1>0, <2>1, <2>3 DEF IInv, CallbackAlive
      <3> DEFINE expired == rpc[c].endpoints \ rpc[c].flagged
      <3>2. expired \in SUBSET Servers
        BY <3>1 DEF RpcBase
      <3>3. rpc' = [rpc EXCEPT ![c] = [rpc[c] EXCEPT !.expired = expired]]
        BY <1>0, <1>9, <2>3 DEF TimeOut
      <3>4. rpc' \in [Coros -> RpcBase \cup {None}]
        BY <1>0, <2>1, <3>1, <3>2, <3>3, ExpiredType
      <3>5. taken' \in Coros \cup {None} /\ waiting_coros' \in [Coros -> 0..MaxCalls]
        BY <1>0, <1>9, <2>1, <2>3, RpcAssumption DEF TimeOut, TakeIf
      <3> QED
        BY <1>0, <1>9, <3>4, <3>5 DEF TimeOut
    <2> QED
      BY <1>9, <2>2, <2>3 DEF TimeOut
  <1>10. ASSUME NEW t \in tasks, SendResponse(t) PROVE TypeOK'
    BY <1>0, <1>10 DEF SendResponse, EndPoints, Peers
  <1>11. ASSUME CommitTaken PROVE TypeOK'
    BY <1>0, <1>11 DEF CommitTaken
  <1>12. ASSUME StopNet \/ Restart PROVE TypeOK'
    <2>1. CASE StopNet
      BY <1>0, <2>1 DEF StopNet
    <2>2. CASE Restart
      <3>1. epoch' \in 0..MaxRestarts
        BY <1>0, <2>2, RpcAssumption DEF Restart
      <3>2. /\ calls' \in [Coros -> 0..MaxCalls]
            /\ waiting_coros' \in [Coros -> 0..MaxCalls]
            /\ committed' \in [Coros -> Nat]
        BY <2>2, RpcAssumption DEF Restart
      <3>3. /\ rpc' \in [Coros -> RpcBase \cup {None}]
            /\ worker' \in [Workers -> Awaits \cup {None}]
        BY <2>2 DEF Restart
      <3> QED
        BY <1>0, <2>2, <3>1, <3>2, <3>3 DEF Restart
    <2> QED
      BY <1>12, <2>1, <2>2
  <1>13. ASSUME UNCHANGED vars PROVE TypeOK'
    BY <1>0, <1>13 DEF vars
  <1> HIDE DEF TypeOK
  <1>14. ASSUME NEW w \in Workers,
                AwaitGoesOn(w) \/ \E c \in Coros : AwaitSuspend(w, c) \/ AwaitResume(w, c)
         PROVE  TypeOK'
    BY <1>1, <1>2, <1>3, <1>4, <1>5, <1>14 DEF AwaitGoesOn
  <1>15. CASE CommitTaken \/ StopNet \/ Restart \/ Rest
    BY <1>11, <1>12, <1>13, <1>15 DEF Rest
  <1> QED
    BY <1>6, <1>7, <1>8, <1>9, <1>10, <1>13, <1>14, <1>15 DEF Next

-----------------------------------------------------------------------------
(* What a response or a time-out does to the coroutine it is for: its object  *)
(* goes on in the same call, and it stays in the map or is taken out of it.   *)
EntersResult(c) ==
  /\ taken = None
  /\ waiting_coros[c] # 0
  /\ \E r \in RpcBase : /\ r.n = rpc[c].n
                        /\ r # None
                        /\ rpc' = [rpc EXCEPT ![c] = r]
  /\ \/ taken' = c /\ waiting_coros' = [waiting_coros EXCEPT ![c] = 0]
     \/ UNCHANGED <<taken, waiting_coros>>
  /\ UNCHANGED <<worker, committed>>

Unheld == UNCHANGED <<rpc, worker, waiting_coros, taken, committed>>

LEMMA ReceiveResponseEnters ==
  ASSUME IInv, NEW m \in messages, ReceiveResponse(m)
  PROVE  Unheld \/ \E c \in Coros : EntersResult(c)
  <1> DEFINE c == m.body.rpc_id
  <1>1. m.body \in Bodies
    BY DEF IInv, TypeOK
  <1>2. c \in Coros /\ m.body.of \in CallIds /\ PeerEndPoint(m) \in Servers
    BY <1>1 DEF ReceiveResponse, Bodies, IInv, Addressed
  <1>3. CASE waiting_coros[c] = 0 /\ UNCHANGED <<rpc, taken, waiting_coros>>
    BY <1>3 DEF ReceiveResponse, Unheld
  <1>4. CASE waiting_coros[c] # 0
    <2>1. rpc[c] \in RpcBase
      BY <1>2, <1>4 DEF IInv, TypeOK, CallbackAlive
    <2>2. rpc' = [rpc EXCEPT ![c] = ProcessBuffer(@, PeerEndPoint(m), m.body.of)]
      BY <1>4 DEF ReceiveResponse
    <2> DEFINE r == ProcessBuffer(rpc[c], PeerEndPoint(m), m.body.of)
    <2>3. r \in RpcBase /\ r.n = rpc[c].n /\ r # None
      BY <1>2, <2>1, ProcessBufferType, RpcAssumption
    <2>4. rpc' = [rpc EXCEPT ![c] = r]
      BY <2>2
    <2>5. \/ taken' = c /\ waiting_coros' = [waiting_coros EXCEPT ![c] = 0]
          \/ UNCHANGED <<taken, waiting_coros>>
      BY <1>4 DEF ReceiveResponse, TakeIf
    <2>6. taken = None /\ UNCHANGED <<worker, committed>>
      BY DEF ReceiveResponse, Handler
    <2>7. EntersResult(c)
      <3> HIDE DEF c, r
      <3> QED BY <1>4, <2>3, <2>4, <2>5, <2>6 DEF EntersResult
    <2> QED
      BY <1>2, <2>7
  <1> QED
    BY <1>3, <1>4 DEF ReceiveResponse

LEMMA TimeOutEnters ==
  ASSUME IInv, NEW t \in timers, TimeOut(t)
  PROVE  Unheld \/ \E c \in Coros : EntersResult(c)
  <1> DEFINE c == t.coro
  <1>1. c \in Coros
    BY DEF IInv, TypeOK
  <1>2. CASE waiting_coros[c] = 0 /\ UNCHANGED <<rpc, taken, waiting_coros>>
    BY <1>2 DEF TimeOut, Unheld
  <1>3. CASE waiting_coros[c] # 0
    <2> DEFINE expired == rpc[c].endpoints \ rpc[c].flagged
               r == [rpc[c] EXCEPT !.expired = expired]
    <2>1. rpc[c] \in RpcBase
      BY <1>1, <1>3 DEF IInv, TypeOK, CallbackAlive
    <2>2. expired \in SUBSET Servers
      BY <2>1 DEF RpcBase
    <2>3. r \in RpcBase /\ r.n = rpc[c].n /\ r # None
      BY <2>1, <2>2, ExpiredType
    <2>4. rpc' = [rpc EXCEPT ![c] = r]
      BY <1>1, <1>3 DEF TimeOut, IInv, TypeOK
    <2>5. taken' = c /\ waiting_coros' = [waiting_coros EXCEPT ![c] = 0]
      BY <1>3 DEF TimeOut, TakeIf
    <2>6. taken = None /\ UNCHANGED <<worker, committed>>
      BY DEF TimeOut, Handler
    <2>7. EntersResult(c)
      <3> HIDE DEF c, r
      <3> QED BY <1>3, <2>3, <2>4, <2>5, <2>6 DEF EntersResult
    <2> QED
      BY <1>1, <2>7
  <1> QED
    BY <1>2, <1>3 DEF TimeOut

(* The steps that move a coroutine, and all the others.                       *)
Moves ==
  \/ \E w \in Workers, c \in Coros : AwaitSuspend(w, c) \/ AwaitResume(w, c)
  \/ \E w \in Workers : Insert(w) \/ SpawnSend(w) \/ AwaitSuspendReturns(w)
  \/ \E c \in Coros : EntersResult(c)
  \/ CommitTaken \/ Restart \/ Unheld

LEMMA NextMoves == IInv /\ [Next]_vars => Moves
  <1> SUFFICES ASSUME IInv, [Next]_vars PROVE Moves
    OBVIOUS
  <1>1. ASSUME NEW s \in sends, SendRequest(s) PROVE Unheld
    BY <1>1 DEF SendRequest, Unheld
  <1>2. ASSUME NEW m \in messages, ReceiveRequest(m) PROVE Unheld
    BY <1>2 DEF ReceiveRequest, Unheld
  <1>3. ASSUME NEW t \in tasks, SendResponse(t) PROVE Unheld
    BY <1>3 DEF SendResponse, Unheld
  <1>4. ASSUME StopNet \/ Rest \/ UNCHANGED vars PROVE Unheld
    BY <1>4 DEF StopNet, Rest, vars, Unheld
  <1>5. ASSUME NEW w \in Workers,
               AwaitGoesOn(w) \/ \E c \in Coros : AwaitSuspend(w, c) \/ AwaitResume(w, c)
        PROVE  Moves
    BY <1>5 DEF AwaitGoesOn, Moves
  <1>6. CASE CommitTaken \/ StopNet \/ Restart \/ Rest
    BY <1>4, <1>6 DEF Moves
  <1> QED
    BY <1>1, <1>2, <1>3, <1>4, <1>5, <1>6, ReceiveResponseEnters, TimeOutEnters
    DEF Next, Moves

-----------------------------------------------------------------------------
(* A coroutine in a place is suspended, so no worker is inserting its entry.  *)
LEMMA HeldIsSuspended ==
  ASSUME IInv, NEW c \in Coros, waiting_coros[c] # 0 \/ taken = c \/ committed[c] > 0
  PROVE  /\ rpc[c] # None /\ ~Inserting(c)
         /\ Places(c) = 1
  <1>1. committed[c] \in Nat
    BY DEF IInv, TypeOK
  <1>2. Places(c) > 0
    BY <1>1 DEF Places
  <1>3. Places(c) = IF Suspended(c) THEN 1 ELSE 0
    BY DEF IInv, HeldOnce
  <1>4. Suspended(c) /\ Places(c) = 1
    BY <1>2, <1>3
  <1> QED
    BY <1>4 DEF Suspended

LEMMA AwaitsStep == IInv /\ Moves => AwaitsOwn'
  <1> SUFFICES ASSUME IInv, Moves PROVE AwaitsOwn'
    OBVIOUS
  <1>0. TypeOK /\ AwaitsOwn
    BY DEF IInv
  <1>1. ASSUME NEW w \in Workers, NEW c \in Coros, AwaitSuspend(w, c)
        PROVE  AwaitsOwn'
    <2>1. PICK endpoints \in Targets, condition \in Conditions, function \in Functions :
            /\ rpc' = [rpc EXCEPT ![c] = NewRpc(calls'[c], endpoints, condition, function)]
            /\ worker' = [worker EXCEPT ![w] =
                 [pc |-> "insert", left |-> endpoints,
                  body |-> [rpc_id |-> c, rpc_type |-> function,
                            of |-> [epoch |-> epoch, coro |-> c, n |-> calls'[c]]]]]
      BY <1>1 DEF AwaitSuspend
    <2>2. calls'[c] \in Calls
      BY <1>0, <1>1, RpcAssumption DEF AwaitSuspend, TypeOK, Calls
    <2>3. /\ rpc'[c] # None /\ rpc'[c].n = calls'[c]
          /\ \A d \in Coros \ {c} : rpc'[d] = rpc[d]
      BY <1>0, <2>1, <2>2, NewRpcType DEF TypeOK
    <2>4. /\ worker'[w].body.rpc_id = c
          /\ worker'[w].body.of.coro = c
          /\ worker'[w].body.of.n = calls'[c]
          /\ \A v \in Workers \ {w} : worker'[v] = worker[v]
      BY <1>0, <2>1 DEF TypeOK
    <2>5. ~AboutToInsert(w)
      BY <1>1 DEF AwaitSuspend, AboutToInsert
    <2>6. \A v \in Workers \ {w} : AboutToInsert(v)' =>
            /\ AboutToInsert(v)
            /\ worker[v].body.rpc_id # c
            /\ worker[v].body.rpc_id \in Coros
      BY <1>0, <1>1, <2>4
      DEF AwaitSuspend, AboutToInsert, AwaitsOwn, TypeOK, Awaits, Bodies
    <2> QED
      BY <1>0, <2>3, <2>4, <2>6 DEF AwaitsOwn
  <1>2. ASSUME NEW w \in Workers, Insert(w) \/ SpawnSend(w) \/ AwaitSuspendReturns(w)
        PROVE  AwaitsOwn'
    <2>1. rpc' = rpc /\ \A v \in Workers \ {w} : worker'[v] = worker[v]
      BY <1>0, <1>2 DEF Insert, SpawnSend, AwaitSuspendReturns, TypeOK
    <2>2. worker'[w] = None \/ worker'[w].pc = "spawn"
      <3>1. CASE Insert(w)
        BY <1>0, <3>1 DEF Insert, TypeOK, Awaits
      <3>2. CASE SpawnSend(w)
        BY <1>0, <3>2 DEF SpawnSend, TypeOK, Awaits
      <3>3. CASE AwaitSuspendReturns(w)
        BY <1>0, <3>3 DEF AwaitSuspendReturns, TypeOK
      <3> QED
        BY <1>2, <3>1, <3>2, <3>3
    <2> QED
      BY <1>0, <2>1, <2>2 DEF AwaitsOwn, AboutToInsert
  <1>3. ASSUME NEW w \in Workers, NEW c \in Coros, AwaitResume(w, c)
        PROVE  AwaitsOwn'
    <2>1. ~Inserting(c)
      BY <1>3, HeldIsSuspended DEF AwaitResume
    <2>2. /\ worker' = worker
          /\ \A d \in Coros \ {c} : rpc'[d] = rpc[d]
      BY <1>0, <1>3 DEF AwaitResume, TypeOK
    <2>3. \A v \in Workers : AboutToInsert(v) =>
            worker[v].body.rpc_id \in Coros \ {c}
      BY <1>0, <2>1 DEF Inserting, AboutToInsert, TypeOK, Awaits, Bodies
    <2> QED
      BY <1>0, <2>2, <2>3 DEF AwaitsOwn, AboutToInsert
  <1>4. ASSUME NEW c \in Coros, EntersResult(c) PROVE AwaitsOwn'
    <2>1. PICK r \in RpcBase : /\ r.n = rpc[c].n
                               /\ r # None
                               /\ rpc' = [rpc EXCEPT ![c] = r]
      BY <1>4 DEF EntersResult
    <2>2. \A d \in Coros : rpc[d] # None => rpc'[d] # None /\ rpc'[d].n = rpc[d].n
      BY <1>0, <2>1 DEF TypeOK
    <2>3. \A v \in Workers : AboutToInsert(v) => worker[v].body.rpc_id \in Coros
      BY <1>0 DEF AboutToInsert, TypeOK, Awaits, Bodies
    <2> QED
      BY <1>0, <1>4, <2>2, <2>3 DEF EntersResult, AwaitsOwn, AboutToInsert
  <1>5. CASE CommitTaken \/ Unheld
    BY <1>0, <1>5 DEF CommitTaken, Unheld, AwaitsOwn, AboutToInsert
  <1>6. CASE Restart
    BY <1>6 DEF Restart, AwaitsOwn, AboutToInsert
  <1> QED
    BY <1>1, <1>2, <1>3, <1>4, <1>5, <1>6 DEF Moves

LEMMA AddressedStep == IInv /\ [Next]_vars => Addressed'
  <1> SUFFICES ASSUME IInv, [Next]_vars PROVE Addressed'
    OBVIOUS
  <1>0. TypeOK /\ Addressed
    BY DEF IInv
  <1>1. ASSUME NEW s \in sends, SendRequest(s) PROVE Addressed'
    <2>1. PICK body :
            messages' = messages \cup
              {[type |-> "REQUEST", to |-> s.to, ip |-> Client.ip,
                server_port |-> Client.port, body |-> body, sent_for |-> s.body.of]}
      BY <1>1 DEF SendRequest
    <2> DEFINE request ==
          [type |-> "REQUEST", to |-> s.to, ip |-> Client.ip,
           server_port |-> Client.port, body |-> body, sent_for |-> s.body.of]
    <2>2. request.type = "REQUEST" /\ request.to \in Servers
      BY <1>0 DEF TypeOK
    <2>3. messages' = messages \cup {request}
      BY <2>1
    <2> HIDE DEF request
    <2> QED
      BY <1>0, <2>2, <2>3 DEF Addressed, PeerEndPoint
  <1>2. ASSUME NEW t \in tasks, SendResponse(t) PROVE Addressed'
    <2>1. t.at \in Servers
      BY <1>0 DEF TypeOK
    <2>2. t.at = [ip |-> t.at.ip, port |-> t.at.port]
      BY <2>1, RpcAssumption DEF EndPoints
    <2> DEFINE response ==
          [type |-> "RESPONSE", to |-> t.response_to, ip |-> t.at.ip,
           server_port |-> t.at.port, body |-> t.body, sent_for |-> t.sent_for]
    <2>3. response.type = "RESPONSE" /\ PeerEndPoint(response) \in Servers
      BY <2>1, <2>2 DEF PeerEndPoint
    <2>4. messages' = messages \cup {response}
      BY <1>2 DEF SendResponse
    <2> HIDE DEF response
    <2> QED
      BY <1>0, <2>3, <2>4 DEF Addressed, PeerEndPoint
  <1>3. ASSUME messages' \subseteq messages PROVE Addressed'
    BY <1>0, <1>3 DEF Addressed, PeerEndPoint
  <1>4. ASSUME NEW w \in Workers, NEW c \in Coros,
               AwaitSuspend(w, c) \/ AwaitResume(w, c)
        PROVE  messages' = messages
    BY <1>4 DEF AwaitSuspend, AwaitResume
  <1>5. ASSUME NEW w \in Workers, AwaitGoesOn(w) PROVE messages' = messages
    BY <1>5 DEF AwaitGoesOn, Insert, SpawnSend, AwaitSuspendReturns
  <1>6. ASSUME NEW m \in messages, ReceiveRequest(m) \/ ReceiveResponse(m)
        PROVE  messages' \subseteq messages
    BY <1>6 DEF ReceiveRequest, ReceiveResponse
  <1>7. ASSUME NEW t \in timers, TimeOut(t) PROVE messages' = messages
    BY <1>7 DEF TimeOut
  <1>8. ASSUME CommitTaken \/ StopNet \/ Restart \/ Rest \/ UNCHANGED vars
        PROVE  messages' = messages
    BY <1>8 DEF CommitTaken, StopNet, Restart, Rest, vars
  <1> QED
    BY <1>1, <1>2, <1>3, <1>4, <1>5, <1>6, <1>7, <1>8 DEF Next

-----------------------------------------------------------------------------
(* A coroutine that a step does not touch stays where it is.                  *)
LEMMA Untouched ==
  ASSUME IInv, NEW d \in Coros,
         (rpc'[d] = None) <=> (rpc[d] = None),
         Inserting(d)' <=> Inserting(d),
         (waiting_coros'[d] = 0) <=> (waiting_coros[d] = 0),
         (taken' = d) <=> (taken = d),
         committed'[d] = committed[d]
  PROVE  Places(d)' = IF Suspended(d)' THEN 1 ELSE 0
  <1>1. Places(d)' = Places(d)
    BY DEF Places
  <1>2. Suspended(d)' <=> Suspended(d)
    BY DEF Suspended
  <1> QED
    BY <1>1, <1>2 DEF IInv, HeldOnce

(* Who inserts an entry does not change, except at the worker that acts.      *)
LEMMA InsertingKept ==
  ASSUME NEW d \in Coros, NEW w \in Workers,
         \A v \in Workers \ {w} : worker'[v] = worker[v],
         ~(AboutToInsert(w) /\ worker[w].body.rpc_id = d),
         ~(AboutToInsert(w)' /\ worker'[w].body.rpc_id = d)
  PROVE  Inserting(d)' <=> Inserting(d)
  BY DEF Inserting, AboutToInsert

LEMMA HeldStep == IInv /\ Moves => HeldOnce'
  <1> SUFFICES ASSUME IInv, Moves PROVE HeldOnce'
    OBVIOUS
  <1>0. TypeOK /\ AwaitsOwn /\ HeldOnce
    BY DEF IInv
  <1>1. ASSUME NEW w \in Workers, NEW c \in Coros, AwaitSuspend(w, c)
        PROVE  HeldOnce'
    <2>1. PICK endpoints \in Targets, condition \in Conditions, function \in Functions :
            /\ rpc' = [rpc EXCEPT ![c] = NewRpc(calls'[c], endpoints, condition, function)]
            /\ worker' = [worker EXCEPT ![w] =
                 [pc |-> "insert", left |-> endpoints,
                  body |-> [rpc_id |-> c, rpc_type |-> function,
                            of |-> [epoch |-> epoch, coro |-> c, n |-> calls'[c]]]]]
      BY <1>1 DEF AwaitSuspend
    <2>2. /\ worker'[w] # None => worker'[w].body.rpc_id = c
          /\ \A v \in Workers \ {w} : worker'[v] = worker[v]
      BY <1>0, <2>1 DEF TypeOK
    <2>3. ~AboutToInsert(w) /\ UNCHANGED <<waiting_coros, taken, committed>>
      BY <1>1 DEF AwaitSuspend, AboutToInsert
    <2>4. ASSUME NEW d \in Coros \ {c}
          PROVE  Places(d)' = IF Suspended(d)' THEN 1 ELSE 0
      <3>1. rpc'[d] = rpc[d]
        BY <1>0, <2>1 DEF TypeOK
      <3>2. ~(AboutToInsert(w)' /\ worker'[w].body.rpc_id = d)
        BY <2>2 DEF AboutToInsert
      <3>3. Inserting(d)' <=> Inserting(d)
        BY <2>2, <2>3, <3>2, InsertingKept
      <3> QED
        BY <2>3, <3>1, <3>3, Untouched
    <2>5. Places(c)' = IF Suspended(c)' THEN 1 ELSE 0
      <3>1. Places(c) = 0
        BY <1>0, <1>1 DEF AwaitSuspend, HeldOnce, Suspended
      <3>2. Places(c)' = Places(c)
        BY <2>3 DEF Places
      <3> DEFINE await == [pc |-> "insert", left |-> endpoints,
                           body |-> [rpc_id |-> c, rpc_type |-> function,
                                     of |-> [epoch |-> epoch, coro |-> c, n |-> calls'[c]]]]
      <3>3. await \in Awaits
        <4>1. calls'[c] \in Calls
          BY <1>0, <1>1, RpcAssumption DEF AwaitSuspend, TypeOK, Calls
        <4>2. endpoints \in SUBSET Servers
          BY RpcAssumption
        <4>3. [rpc_id |-> c, rpc_type |-> function,
               of |-> [epoch |-> epoch, coro |-> c, n |-> calls'[c]]] \in Bodies
          BY <1>0, <4>1 DEF Bodies, CallIds, TypeOK
        <4> QED
          BY <4>2, <4>3 DEF Awaits
      <3>4. worker'[w] = await
        BY <1>0, <2>1 DEF TypeOK
      <3>5. worker'[w] # None /\ worker'[w].pc = "insert"
        BY <3>3, <3>4, NoneAssumption
      <3>6. worker'[w].body.rpc_id = c
        BY <2>2, <3>5
      <3>7. Inserting(c)'
        BY <3>5, <3>6 DEF Inserting
      <3> QED
        BY <3>1, <3>2, <3>7 DEF Suspended
    <2> QED
      BY <2>4, <2>5 DEF HeldOnce
  <1>2. ASSUME NEW w \in Workers, Insert(w) PROVE HeldOnce'
    <2>1. worker[w] \in Awaits
      BY <1>0, <1>2 DEF Insert, TypeOK
    <2>2. PICK c \in Coros, n \in Calls :
            c = worker[w].body.rpc_id /\ n = worker[w].body.of.n
      BY <2>1 DEF Awaits, Bodies, CallIds
    <2>3. AboutToInsert(w) /\ worker[w].body.rpc_id = c
      BY <1>2, <2>2 DEF Insert, AboutToInsert
    <2>4. worker[w].body.of.coro = c /\ rpc[c] # None
      BY <1>0, <2>3 DEF AwaitsOwn
    <2>5. /\ rpc' = rpc /\ taken' = taken /\ committed' = committed
          /\ waiting_coros' = [waiting_coros EXCEPT ![c] = IF @ = 0 THEN n ELSE @]
      BY <1>2, <2>2, <2>4 DEF Insert
    <2>6. /\ worker'[w].pc = "spawn"
          /\ \A v \in Workers \ {w} : worker'[v] = worker[v]
      BY <1>0, <1>2, <2>1 DEF Insert, TypeOK, Awaits
    <2>7. ~AboutToInsert(w)'
      BY <2>6 DEF AboutToInsert
    <2>8. ASSUME NEW d \in Coros \ {c}
          PROVE  Places(d)' = IF Suspended(d)' THEN 1 ELSE 0
      <3>1. waiting_coros'[d] = waiting_coros[d]
        BY <1>0, <2>5 DEF TypeOK
      <3>2. Inserting(d)' <=> Inserting(d)
        BY <2>3, <2>6, <2>7, InsertingKept
      <3> QED
        BY <2>5, <3>1, <3>2, Untouched
    <2>9. Places(c)' = IF Suspended(c)' THEN 1 ELSE 0
      <3>1. Inserting(c)
        BY <2>3 DEF Inserting, AboutToInsert
      <3>2. waiting_coros[c] = 0 /\ taken # c /\ ~(committed[c] > 0)
        BY <2>2, <3>1, HeldIsSuspended
      <3>3. committed[c] = 0
        BY <1>0, <2>2, <3>2 DEF TypeOK
      <3>4. waiting_coros'[c] # 0
        BY <1>0, <2>2, <2>5, <3>2, RpcAssumption DEF TypeOK, Calls
      <3>5. Places(c)' = 1
        BY <2>5, <3>2, <3>3, <3>4 DEF Places
      <3>6. ~Inserting(c)'
        <4>1. ASSUME NEW v \in Workers, AboutToInsert(v)', worker'[v].body.rpc_id = c
              PROVE  FALSE
          <5>1. v # w
            BY <2>7, <4>1
          <5>2. AboutToInsert(v) /\ worker[v].body.rpc_id = c
            BY <2>6, <4>1, <5>1 DEF AboutToInsert
          <5> QED
            BY <1>0, <2>3, <5>1, <5>2 DEF AwaitsOwn
        <4> QED
          BY <4>1 DEF Inserting, AboutToInsert
      <3> QED
        BY <2>4, <2>5, <3>5, <3>6 DEF Suspended
    <2> QED
      BY <2>8, <2>9 DEF HeldOnce
  <1>3. ASSUME NEW w \in Workers, SpawnSend(w) \/ AwaitSuspendReturns(w)
        PROVE  HeldOnce'
    <2>1. /\ UNCHANGED <<rpc, waiting_coros, taken, committed>>
          /\ \A v \in Workers \ {w} : worker'[v] = worker[v]
          /\ ~AboutToInsert(w)
      BY <1>0, <1>3 DEF SpawnSend, AwaitSuspendReturns, AboutToInsert, TypeOK
    <2>2. ~AboutToInsert(w)'
      <3>1. CASE SpawnSend(w)
        BY <1>0, <3>1 DEF SpawnSend, AboutToInsert, TypeOK, Awaits
      <3>2. CASE AwaitSuspendReturns(w)
        BY <1>0, <3>2 DEF AwaitSuspendReturns, AboutToInsert, TypeOK
      <3> QED
        BY <1>3, <3>1, <3>2
    <2>3. \A d \in Coros : Inserting(d)' <=> Inserting(d)
      BY <2>1, <2>2, InsertingKept
    <2> QED
      BY <2>1, <2>3, Untouched DEF HeldOnce
  <1>4. ASSUME NEW w \in Workers, NEW c \in Coros, AwaitResume(w, c)
        PROVE  HeldOnce'
    <2>1. /\ UNCHANGED <<worker, waiting_coros, taken>>
          /\ rpc'[c] = None
          /\ committed[c] > 0 /\ committed'[c] = committed[c] - 1
          /\ \A d \in Coros \ {c} : rpc'[d] = rpc[d] /\ committed'[d] = committed[d]
      BY <1>0, <1>4 DEF AwaitResume, TypeOK
    <2>2. \A d \in Coros : Inserting(d)' <=> Inserting(d)
      BY <2>1 DEF Inserting
    <2>3. Places(c)' = 0
      BY <1>0, <2>1, HeldIsSuspended DEF Places, TypeOK
    <2>4. Places(c)' = IF Suspended(c)' THEN 1 ELSE 0
      BY <2>1, <2>3 DEF Suspended
    <2>5. \A d \in Coros \ {c} : Places(d)' = IF Suspended(d)' THEN 1 ELSE 0
      BY <2>1, <2>2, Untouched
    <2> QED
      BY <2>4, <2>5 DEF HeldOnce
  <1>5. ASSUME NEW c \in Coros, EntersResult(c) PROVE HeldOnce'
    <2>1. PICK r \in RpcBase : /\ r # None
                               /\ rpc' = [rpc EXCEPT ![c] = r]
      BY <1>5 DEF EntersResult
    <2>2. /\ taken = None /\ waiting_coros[c] # 0 /\ UNCHANGED <<worker, committed>>
          /\ \/ taken' = c /\ waiting_coros' = [waiting_coros EXCEPT ![c] = 0]
             \/ UNCHANGED <<taken, waiting_coros>>
      BY <1>5 DEF EntersResult
    <2>3. \A d \in Coros : Inserting(d)' <=> Inserting(d)
      BY <2>2 DEF Inserting
    <2>4. /\ rpc'[c] # None
          /\ \A d \in Coros \ {c} : rpc'[d] = rpc[d]
      BY <1>0, <2>1 DEF TypeOK
    <2>5. ASSUME NEW d \in Coros \ {c}
          PROVE  Places(d)' = IF Suspended(d)' THEN 1 ELSE 0
      <3>1. /\ waiting_coros'[d] = waiting_coros[d]
            /\ (taken' = d) <=> (taken = d)
        BY <1>0, <2>2, RpcAssumption DEF TypeOK
      <3> QED
        BY <2>2, <2>3, <2>4, <3>1, Untouched
    <2>6. Places(c)' = IF Suspended(c)' THEN 1 ELSE 0
      <3>1. rpc[c] # None /\ ~Inserting(c) /\ Places(c) = 1
        BY <2>2, HeldIsSuspended
      <3>2. Suspended(c)'
        BY <2>3, <2>4, <3>1 DEF Suspended
      <3>3. Places(c)' = 1
        BY <1>0, <2>2, <3>1, RpcAssumption DEF Places, TypeOK
      <3> QED
        BY <3>2, <3>3
    <2> QED
      BY <2>5, <2>6 DEF HeldOnce
  <1>6. CASE CommitTaken
    <2>1. /\ taken \in Coros /\ taken' = None
          /\ UNCHANGED <<rpc, worker, waiting_coros>>
          /\ committed'[taken] = committed[taken] + 1
          /\ \A d \in Coros \ {taken} : committed'[d] = committed[d]
      BY <1>0, <1>6 DEF CommitTaken, TypeOK
    <2>2. \A d \in Coros : /\ Inserting(d)' <=> Inserting(d)
                           /\ Suspended(d)' <=> Suspended(d)
      BY <2>1 DEF Inserting, Suspended
    <2>3. \A d \in Coros : Places(d)' = Places(d)
      BY <1>0, <2>1, RpcAssumption DEF Places, TypeOK
    <2> QED
      BY <1>0, <2>2, <2>3 DEF HeldOnce
  <1>7. CASE Restart
    BY <1>7, RpcAssumption DEF Restart, HeldOnce, Places, Suspended
  <1>8. CASE Unheld
    BY <1>0, <1>8 DEF Unheld, HeldOnce, Places, Suspended, Inserting
  <1> QED
    BY <1>1, <1>2, <1>3, <1>4, <1>5, <1>6, <1>7, <1>8 DEF Moves

LEMMA CallbackStep == IInv /\ Moves => CallbackAlive'
  <1> SUFFICES ASSUME IInv, Moves PROVE CallbackAlive'
    OBVIOUS
  <1>0. TypeOK /\ AwaitsOwn /\ CallbackAlive
    BY DEF IInv
  <1>1. ASSUME NEW w \in Workers, NEW c \in Coros,
               AwaitSuspend(w, c) \/ AwaitResume(w, c)
        PROVE  CallbackAlive'
    <2>1. waiting_coros' = waiting_coros
      BY <1>1 DEF AwaitSuspend, AwaitResume
    <2>2. \A d \in Coros \ {c} : rpc'[d] = rpc[d]
      BY <1>0, <1>1 DEF AwaitSuspend, AwaitResume, TypeOK
    <2>3. waiting_coros[c] = 0
      <3>1. CASE AwaitSuspend(w, c)
        BY <1>0, <3>1 DEF AwaitSuspend, CallbackAlive
      <3>2. CASE AwaitResume(w, c)
        <4>1. committed[c] > 0
          BY <3>2 DEF AwaitResume
        <4> QED
          BY <1>0, <4>1, HeldIsSuspended DEF Places, TypeOK
      <3> QED
        BY <1>1, <3>1, <3>2
    <2> QED
      BY <1>0, <2>1, <2>2, <2>3 DEF CallbackAlive
  <1>2. ASSUME NEW w \in Workers, Insert(w) PROVE CallbackAlive'
    <2>1. worker[w] \in Awaits
      BY <1>0, <1>2 DEF Insert, TypeOK
    <2>2. PICK c \in Coros, n \in Calls :
            c = worker[w].body.rpc_id /\ n = worker[w].body.of.n
      BY <2>1 DEF Awaits, Bodies, CallIds
    <2>3. worker[w].body.of.coro = c /\ rpc[c] # None /\ rpc[c].n = n
      BY <1>0, <1>2, <2>2 DEF Insert, AboutToInsert, AwaitsOwn
    <2>4. /\ rpc' = rpc
          /\ waiting_coros' = [waiting_coros EXCEPT ![c] = IF @ = 0 THEN n ELSE @]
      BY <1>2, <2>2, <2>3 DEF Insert
    <2> QED
      BY <1>0, <2>3, <2>4 DEF CallbackAlive, TypeOK
  <1>3. ASSUME NEW w \in Workers, SpawnSend(w) \/ AwaitSuspendReturns(w)
        PROVE  CallbackAlive'
    BY <1>0, <1>3 DEF SpawnSend, AwaitSuspendReturns, CallbackAlive
  <1>4. ASSUME NEW c \in Coros, EntersResult(c) PROVE CallbackAlive'
    <2>1. PICK r \in RpcBase : /\ r.n = rpc[c].n
                               /\ r # None
                               /\ rpc' = [rpc EXCEPT ![c] = r]
      BY <1>4 DEF EntersResult
    <2>2. \/ waiting_coros' = [waiting_coros EXCEPT ![c] = 0]
          \/ waiting_coros' = waiting_coros
      BY <1>4 DEF EntersResult
    <2> QED
      BY <1>0, <2>1, <2>2 DEF CallbackAlive, TypeOK
  <1>5. CASE CommitTaken \/ Unheld
    BY <1>0, <1>5 DEF CommitTaken, Unheld, CallbackAlive
  <1>6. CASE Restart
    BY <1>6 DEF Restart, CallbackAlive
  <1> QED
    BY <1>1, <1>2, <1>3, <1>4, <1>5, <1>6 DEF Moves

-----------------------------------------------------------------------------
LEMMA IInvAlways == Spec => []IInv
  <1>1. IInv /\ [Next]_vars => IInv'
    BY NextMoves, TypeStep, AwaitsStep, AddressedStep, HeldStep, CallbackStep DEF IInv
  <1> QED
    BY InitInv, <1>1, PTL DEF Spec

-----------------------------------------------------------------------------
(* When a call ends.  A call that is still being put into the map has no      *)
(* answers, and only endpoints the call was sent to are flagged.              *)
Ended(r) == Enough(r) \/ r.endpoints = r.flagged \cup r.expired

EndsRight(c) ==
  rpc[c] # None =>
    /\ rpc[c].flagged \subseteq rpc[c].endpoints
    /\ Inserting(c) => rpc[c].results = <<>>
    /\ rpc[c].endpoints # {} =>
         /\ waiting_coros[c] # 0 => ~Enough(rpc[c])
         /\ taken = c \/ committed[c] > 0 => Ended(rpc[c])

EInv == \A c \in Coros : EndsRight(c)

(* The number of endpoints of a call.                                         *)
LEMMA EndPointCount ==
  ASSUME NEW r \in RpcBase
  PROVE  /\ Cardinality(r.endpoints) \in Nat
         /\ r.endpoints # {} => Cardinality(r.endpoints) > 0
         /\ r.finish_condition \in {"WHEN_ANY", "WHEN_ALL", "WHEN_MAJORITY"}
         /\ Len(r.results) \in Nat
  <1>1. r.endpoints \in SUBSET Servers /\ r.finish_condition \in Conditions
    BY DEF RpcBase
  <1>2. IsFiniteSet(r.endpoints)
    BY <1>1, RpcAssumption, FS_Subset
  <1>3. Cardinality(r.endpoints) \in Nat
    BY <1>2, FS_CardinalityType
  <1>4. r.endpoints # {} => Cardinality(r.endpoints) # 0
    BY <1>2, FS_EmptySet
  <1>5. r.results \in Seq([from : Servers, of : CallIds])
    BY DEF RpcBase
  <1>6. Len(r.results) \in Nat
    BY <1>5
  <1> QED
    BY <1>1, <1>3, <1>4, <1>6, RpcAssumption

LEMMA NothingIsNotEnough ==
  ASSUME NEW r \in RpcBase, r.endpoints # {}, r.results = <<>>
  PROVE  ~Enough(r)
  <1>1. Len(r.results) = 0
    OBVIOUS
  <1> QED
    BY <1>1, EndPointCount DEF Enough

(* The arithmetic of the finish conditions, whose tests for equality step     *)
(* over nothing as long as they are made at every answer.                     *)
LEMMA AnswerEnds ==
  ASSUME NEW r \in RpcBase, NEW after \in RpcBase, ~Enough(r),
         after.finish_condition = r.finish_condition,
         after.endpoints = r.endpoints,
         Len(after.results) = Len(r.results) + 1
  PROVE  Enough(after) <=> NeedAwaken(r.finish_condition, Len(after.results),
                                      Cardinality(r.endpoints))
  <1> DEFINE size == Len(r.results)
             total == Cardinality(r.endpoints)
  <1>1. size \in Nat /\ total \in Nat
    BY EndPointCount
  <1>2. CASE r.finish_condition = "WHEN_ANY"
    BY <1>1, <1>2 DEF Enough, NeedAwaken
  <1>3. CASE r.finish_condition = "WHEN_ALL"
    <2>1. size < total
      BY <1>1, <1>3 DEF Enough
    <2> QED
      BY <1>1, <1>3, <2>1 DEF Enough, NeedAwaken
  <1>4. CASE r.finish_condition = "WHEN_MAJORITY"
    <2>1. 2 * size <= total
      BY <1>1, <1>4 DEF Enough
    <2>2. Enough(after) <=> 2 * (size + 1) > total
      BY <1>4 DEF Enough
    <2>3. NeedAwaken(r.finish_condition, Len(after.results), total)
            <=> size + 1 = total \div 2 + 1
      BY <1>4 DEF NeedAwaken
    <2>4. 2 * (size + 1) > total <=> size + 1 = total \div 2 + 1
      <3> HIDE DEF size, total
      <3> QED BY <1>1, <2>1
    <2> QED
      BY <2>2, <2>3, <2>4
  <1> QED
    BY <1>2, <1>3, <1>4, EndPointCount

(* What process_buffer_cb leaves of an object.                                *)
LEMMA AnsweredFields ==
  ASSUME NEW r \in RpcBase, NEW peer \in Servers, NEW of \in CallIds
  PROVE  LET after == ProcessBuffer(r, peer, of)
         IN  /\ after.finish_condition = r.finish_condition
             /\ after.endpoints = r.endpoints
             /\ after.flagged = r.flagged \cup ({peer} \cap r.endpoints)
             /\ Len(after.results) = Len(r.results) + 1
  <1> DEFINE results == Append(r.results, [from |-> peer, of |-> of])
             flagged == r.flagged \cup ({peer} \cap r.endpoints)
             after   == [r EXCEPT !.results = results, !.flagged = flagged]
  <1>1. Len(results) = Len(r.results) + 1
    BY DEF RpcBase
  <1>2. /\ after.finish_condition = r.finish_condition
        /\ after.endpoints = r.endpoints
        /\ after.flagged = flagged
        /\ after.results = results
    <2> HIDE DEF results, flagged
    <2> QED BY DEF RpcBase
  <1>3. ProcessBuffer(r, peer, of) = after
    BY DEF ProcessBuffer
  <1> HIDE DEF results, after
  <1> QED
    BY <1>1, <1>2, <1>3

LEMMA EndsKept ==
  ASSUME NEW d \in Coros, EndsRight(d), rpc'[d] = rpc[d],
         Inserting(d)' => Inserting(d),
         waiting_coros'[d] # 0 => waiting_coros[d] # 0,
         taken' = d \/ committed'[d] > 0 => taken = d \/ committed[d] > 0
  PROVE  EndsRight(d)'
  <1>1. Enough(rpc[d])' <=> Enough(rpc[d])
    BY DEF Enough
  <1>2. Ended(rpc[d])' <=> Ended(rpc[d])
    BY <1>1 DEF Ended
  <1> QED
    BY <1>1, <1>2 DEF EndsRight

LEMMA EndsInit == Init => EInv
  BY DEF Init, EInv, EndsRight

(* The handler of a response enters one answer and tests the condition.       *)
LEMMA ResponseEnds ==
  ASSUME IInv, EInv, NEW m \in messages, ReceiveResponse(m), ~Unheld
  PROVE  \E c \in Coros :
           /\ EntersResult(c)
           /\ rpc[c] # None
           /\ rpc'[c].flagged \subseteq rpc'[c].endpoints
           /\ rpc'[c].endpoints # {} =>
                /\ waiting_coros'[c] # 0 => ~Enough(rpc'[c])
                /\ taken' = c => Enough(rpc'[c])
  <1>1. m.body \in Bodies
    BY DEF IInv, TypeOK
  <1>2. PICK c \in Coros : c = m.body.rpc_id
    BY <1>1 DEF Bodies
  <1>3. PICK of \in CallIds : of = m.body.of
    BY <1>1 DEF Bodies
  <1>4. PICK peer \in Servers : peer = PeerEndPoint(m)
    BY DEF ReceiveResponse, IInv, Addressed
  <1> DEFINE r == rpc[c]
             after == ProcessBuffer(r, peer, of)
  <1>5. waiting_coros[c] # 0
    BY <1>2 DEF ReceiveResponse, Unheld
  <1>6. r \in RpcBase /\ r # None /\ TypeOK
    BY <1>5 DEF IInv, TypeOK, CallbackAlive
  <1>7. rpc' = [rpc EXCEPT ![c] = after] /\ rpc'[c] = after
    BY <1>2, <1>3, <1>4, <1>5, <1>6 DEF ReceiveResponse, TypeOK
  <1>8. /\ after \in RpcBase /\ after.n = r.n /\ after # None
        /\ after.finish_condition = r.finish_condition
        /\ after.endpoints = r.endpoints
        /\ after.flagged = r.flagged \cup ({peer} \cap r.endpoints)
        /\ Len(after.results) = Len(r.results) + 1
    BY <1>6, ProcessBufferType, AnsweredFields
  <1> DEFINE need_awaken == NeedAwaken(r.finish_condition, Len(after.results),
                                       Cardinality(r.endpoints))
  <1>9. TakeIf(need_awaken, c)
    BY <1>2, <1>5, <1>7 DEF ReceiveResponse
  <1>10. taken = None /\ UNCHANGED <<worker, committed>>
    BY DEF ReceiveResponse, Handler
  <1>11. r.endpoints # {} => ~Enough(r)
    BY <1>5, <1>6 DEF EInv, EndsRight
  <1>12. r.flagged \subseteq r.endpoints
    BY <1>6 DEF EInv, EndsRight
  <1>13. r.endpoints # {} => (Enough(after) <=> need_awaken)
    BY <1>6, <1>8, <1>11, AnswerEnds
  <1> HIDE DEF after, need_awaken
  <1>14. EntersResult(c)
    BY <1>5, <1>6, <1>7, <1>8, <1>9, <1>10 DEF EntersResult, TakeIf
  <1>15. /\ waiting_coros'[c] # 0 => ~need_awaken
         /\ taken' = c => need_awaken
    BY <1>6, <1>9, <1>10, RpcAssumption DEF TakeIf, TypeOK
  <1> QED
    BY <1>6, <1>7, <1>8, <1>12, <1>13, <1>14, <1>15

(* The handler of a time-out enters the endpoints that are missing.           *)
LEMMA TimeOutEnds ==
  ASSUME IInv, EInv, NEW t \in timers, TimeOut(t), ~Unheld
  PROVE  \E c \in Coros :
           /\ EntersResult(c)
           /\ rpc[c] # None
           /\ rpc'[c].flagged \subseteq rpc'[c].endpoints
           /\ waiting_coros'[c] = 0
           /\ rpc'[c].endpoints = rpc'[c].flagged \cup rpc'[c].expired
  <1>1. PICK c \in Coros : c = t.coro
    BY DEF IInv, TypeOK
  <1>2. waiting_coros[c] # 0
    BY <1>1 DEF TimeOut, Unheld
  <1>3. rpc[c] \in RpcBase /\ rpc[c] # None /\ TypeOK
    BY <1>2 DEF IInv, TypeOK, CallbackAlive
  <1> DEFINE expired == rpc[c].endpoints \ rpc[c].flagged
             r == [rpc[c] EXCEPT !.expired = expired]
  <1>4. expired \in SUBSET Servers
    BY <1>3 DEF RpcBase
  <1>5. r \in RpcBase /\ r.n = rpc[c].n /\ r # None
    BY <1>3, <1>4, ExpiredType
  <1>6. rpc' = [rpc EXCEPT ![c] = r]
    BY <1>1, <1>2, <1>3 DEF TimeOut, TypeOK
  <1>7. taken' = c /\ waiting_coros' = [waiting_coros EXCEPT ![c] = 0]
    BY <1>1, <1>2 DEF TimeOut, TakeIf
  <1>8. taken = None /\ UNCHANGED <<worker, committed>>
    BY DEF TimeOut, Handler
  <1>9. r.flagged = rpc[c].flagged /\ r.endpoints = rpc[c].endpoints /\ r.expired = expired
    BY <1>3 DEF RpcBase
  <1>10. rpc[c].flagged \subseteq rpc[c].endpoints
    BY <1>3 DEF EInv, EndsRight
  <1>11. rpc'[c] = r /\ waiting_coros'[c] = 0
    BY <1>3, <1>6, <1>7 DEF TypeOK
  <1>12. EntersResult(c)
    <2> HIDE DEF r
    <2> QED BY <1>2, <1>5, <1>6, <1>7, <1>8 DEF EntersResult
  <1>13. /\ r.flagged \subseteq r.endpoints
         /\ r.endpoints = r.flagged \cup r.expired
    <2> HIDE DEF r
    <2> QED BY <1>9, <1>10
  <1> HIDE DEF r
  <1> QED
    BY <1>3, <1>11, <1>12, <1>13

(* Either way the coroutines concerned and the others are right afterwards.   *)
LEMMA EntersEnds ==
  ASSUME IInv, EInv, NEW c \in Coros, EntersResult(c), rpc[c] # None,
         rpc'[c].flagged \subseteq rpc'[c].endpoints,
         rpc'[c].endpoints # {} =>
           /\ waiting_coros'[c] # 0 => ~Enough(rpc'[c])
           /\ taken' = c => \/ Enough(rpc'[c])
                            \/ rpc'[c].endpoints = rpc'[c].flagged \cup rpc'[c].expired
  PROVE  EInv'
  <1>1. /\ taken = None /\ waiting_coros[c] # 0 /\ UNCHANGED <<worker, committed>>
        /\ \/ taken' = c /\ waiting_coros' = [waiting_coros EXCEPT ![c] = 0]
           \/ UNCHANGED <<taken, waiting_coros>>
    BY DEF EntersResult
  <1>2. \A d \in Coros \ {c} : rpc'[d] = rpc[d]
    BY DEF EntersResult, IInv, TypeOK
  <1>3. \A d \in Coros : Inserting(d)' <=> Inserting(d)
    BY <1>1 DEF Inserting
  <1>4. ASSUME NEW d \in Coros \ {c} PROVE EndsRight(d)'
    <2>1. EndsRight(d)
      BY DEF EInv
    <2>2. /\ waiting_coros'[d] = waiting_coros[d]
          /\ taken' # d
          /\ committed'[d] = committed[d]
      BY <1>1, RpcAssumption DEF IInv, TypeOK
    <2> QED
      BY <1>2, <1>3, <2>1, <2>2, EndsKept
  <1>5. EndsRight(c)'
    <2>1. ~Inserting(c) /\ Places(c) = 1
      BY <1>1, HeldIsSuspended
    <2>2. ~(committed[c] > 0)
      BY <1>1, <2>1 DEF Places, IInv, TypeOK
    <2>3. ~Inserting(c)' /\ ~(committed'[c] > 0)
      BY <1>1, <1>3, <2>1, <2>2
    <2>4. Enough(rpc[c])' <=> Enough(rpc'[c])
      BY DEF Enough
    <2> QED
      BY <2>3, <2>4 DEF EndsRight, Ended
  <1> QED
    BY <1>4, <1>5 DEF EInv

LEMMA EndsStep == IInv /\ EInv /\ [Next]_vars => EInv'
  <1> SUFFICES ASSUME IInv, EInv, [Next]_vars PROVE EInv'
    OBVIOUS
  <1>0. TypeOK /\ AwaitsOwn
    BY DEF IInv
  <1>1. ASSUME NEW w \in Workers, NEW c \in Coros, AwaitSuspend(w, c)
        PROVE  EInv'
    <2>1. PICK endpoints \in Targets, condition \in Conditions, function \in Functions :
            /\ rpc' = [rpc EXCEPT ![c] = NewRpc(calls'[c], endpoints, condition, function)]
            /\ worker' = [worker EXCEPT ![w] =
                 [pc |-> "insert", left |-> endpoints,
                  body |-> [rpc_id |-> c, rpc_type |-> function,
                            of |-> [epoch |-> epoch, coro |-> c, n |-> calls'[c]]]]]
      BY <1>1 DEF AwaitSuspend
    <2>2. /\ worker'[w] # None => worker'[w].body.rpc_id = c
          /\ \A v \in Workers \ {w} : worker'[v] = worker[v]
      BY <1>0, <2>1 DEF TypeOK
    <2>3. ~AboutToInsert(w) /\ UNCHANGED <<waiting_coros, taken, committed>>
      BY <1>1 DEF AwaitSuspend, AboutToInsert
    <2>4. ASSUME NEW d \in Coros \ {c} PROVE EndsRight(d)'
      <3>1. rpc'[d] = rpc[d]
        BY <1>0, <2>1 DEF TypeOK
      <3>2. ~(AboutToInsert(w)' /\ worker'[w].body.rpc_id = d)
        BY <2>2 DEF AboutToInsert
      <3>3. Inserting(d)' <=> Inserting(d)
        BY <2>2, <2>3, <3>2, InsertingKept
      <3>4. EndsRight(d)
        BY DEF EInv
      <3> QED
        BY <2>3, <3>1, <3>3, <3>4, EndsKept
    <2>5. EndsRight(c)'
      <3>1. rpc'[c] = NewRpc(calls'[c], endpoints, condition, function)
        BY <1>0, <2>1 DEF TypeOK
      <3>2. rpc'[c].flagged = {} /\ rpc'[c].results = <<>>
        BY <3>1 DEF NewRpc
      <3>3. waiting_coros[c] = 0 /\ taken # c /\ ~(committed[c] > 0)
        BY <1>1, HeldIsSuspended DEF AwaitSuspend
      <3> QED
        BY <2>3, <3>2, <3>3 DEF EndsRight
    <2> QED
      BY <2>4, <2>5 DEF EInv
  <1>2. ASSUME NEW w \in Workers, Insert(w) PROVE EInv'
    <2>1. worker[w] \in Awaits
      BY <1>0, <1>2 DEF Insert, TypeOK
    <2>2. PICK c \in Coros, n \in Calls :
            c = worker[w].body.rpc_id /\ n = worker[w].body.of.n
      BY <2>1 DEF Awaits, Bodies, CallIds
    <2>3. AboutToInsert(w) /\ worker[w].body.rpc_id = c
      BY <1>2, <2>2 DEF Insert, AboutToInsert
    <2>4. worker[w].body.of.coro = c /\ rpc[c] # None
      BY <1>0, <2>3 DEF AwaitsOwn
    <2>5. /\ rpc' = rpc /\ taken' = taken /\ committed' = committed
          /\ waiting_coros' = [waiting_coros EXCEPT ![c] = IF @ = 0 THEN n ELSE @]
      BY <1>2, <2>2, <2>4 DEF Insert
    <2>6. /\ worker'[w].pc = "spawn"
          /\ \A v \in Workers \ {w} : worker'[v] = worker[v]
      BY <1>0, <1>2, <2>1 DEF Insert, TypeOK, Awaits
    <2>7. \A d \in Coros : Inserting(d)' => Inserting(d)
      BY <2>6 DEF Inserting
    <2>8. ASSUME NEW d \in Coros \ {c} PROVE EndsRight(d)'
      <3>1. waiting_coros'[d] = waiting_coros[d]
        BY <1>0, <2>5 DEF TypeOK
      <3>2. EndsRight(d)
        BY DEF EInv
      <3> QED
        BY <2>5, <2>7, <3>1, <3>2, EndsKept
    <2>9. EndsRight(c)'
      <3>1. Inserting(c)
        BY <2>3 DEF Inserting, AboutToInsert
      <3>2. rpc[c].results = <<>> /\ rpc[c].flagged \subseteq rpc[c].endpoints
        BY <2>4, <3>1 DEF EInv, EndsRight
      <3>3. taken # c /\ ~(committed[c] > 0)
        BY <3>1, HeldIsSuspended
      <3>4. rpc[c] \in RpcBase
        BY <1>0, <2>4 DEF TypeOK
      <3>5. rpc[c].endpoints # {} => ~Enough(rpc[c])
        BY <3>2, <3>4, NothingIsNotEnough
      <3>6. Enough(rpc[c])' <=> Enough(rpc[c])
        BY <2>5 DEF Enough
      <3> QED
        BY <2>5, <3>2, <3>3, <3>5, <3>6 DEF EndsRight
    <2> QED
      BY <2>8, <2>9 DEF EInv
  <1>3. ASSUME NEW w \in Workers, SpawnSend(w) \/ AwaitSuspendReturns(w)
        PROVE  EInv'
    <2>1. /\ UNCHANGED <<rpc, waiting_coros, taken, committed>>
          /\ \A v \in Workers \ {w} : worker'[v] = worker[v]
      BY <1>0, <1>3 DEF SpawnSend, AwaitSuspendReturns, TypeOK
    <2>2. worker'[w] = None \/ worker'[w].pc = "spawn"
      <3>1. CASE SpawnSend(w)
        BY <1>0, <3>1 DEF SpawnSend, TypeOK, Awaits
      <3>2. CASE AwaitSuspendReturns(w)
        BY <1>0, <3>2 DEF AwaitSuspendReturns, TypeOK
      <3> QED
        BY <1>3, <3>1, <3>2
    <2>3. \A d \in Coros : Inserting(d)' => Inserting(d)
      BY <2>1, <2>2 DEF Inserting
    <2>4. \A d \in Coros : EndsRight(d)
      BY DEF EInv
    <2>5. ASSUME NEW d \in Coros PROVE EndsRight(d)'
      BY <2>1, <2>3, <2>4, EndsKept
    <2> QED
      BY <2>5 DEF EInv
  <1>4. ASSUME NEW w \in Workers, NEW c \in Coros, AwaitResume(w, c)
        PROVE  EInv'
    <2>1. /\ UNCHANGED <<worker, waiting_coros, taken>>
          /\ rpc'[c] = None
          /\ \A d \in Coros \ {c} : rpc'[d] = rpc[d] /\ committed'[d] = committed[d]
      BY <1>0, <1>4 DEF AwaitResume, TypeOK
    <2>2. \A d \in Coros : Inserting(d)' => Inserting(d)
      BY <2>1 DEF Inserting
    <2>3. EndsRight(c)'
      BY <2>1 DEF EndsRight
    <2>4. ASSUME NEW d \in Coros \ {c} PROVE EndsRight(d)'
      <3>1. EndsRight(d)
        BY DEF EInv
      <3> QED
        BY <2>1, <2>2, <3>1, EndsKept
    <2> QED
      BY <2>3, <2>4 DEF EInv
  <1>5. CASE Unheld
    <2>1. \A d \in Coros : Inserting(d)' => Inserting(d)
      BY <1>5 DEF Unheld, Inserting
    <2>2. ASSUME NEW d \in Coros PROVE EndsRight(d)'
      <3>1. EndsRight(d)
        BY DEF EInv
      <3> QED
        BY <1>5, <2>1, <3>1, EndsKept DEF Unheld
    <2> QED
      BY <2>2 DEF EInv
  <1>6. ASSUME NEW m \in messages, ReceiveResponse(m) PROVE EInv'
    <2>1. CASE ~Unheld
      BY <1>6, <2>1, ResponseEnds, EntersEnds
    <2> QED
      BY <1>5, <2>1
  <1>7. ASSUME NEW t \in timers, TimeOut(t) PROVE EInv'
    <2>1. CASE ~Unheld
      BY <1>7, <2>1, TimeOutEnds, EntersEnds
    <2> QED
      BY <1>5, <2>1
  <1>8. CASE CommitTaken
    <2>1. /\ taken \in Coros /\ taken' = None
          /\ UNCHANGED <<rpc, worker, waiting_coros>>
          /\ \A d \in Coros \ {taken} : committed'[d] = committed[d]
      BY <1>0, <1>8 DEF CommitTaken, TypeOK
    <2>2. \A d \in Coros : Inserting(d)' => Inserting(d)
      BY <2>1 DEF Inserting
    <2>3. ASSUME NEW d \in Coros PROVE EndsRight(d)'
      <3>1. EndsRight(d)
        BY DEF EInv
      <3>2. taken' = d \/ committed'[d] > 0 => taken = d \/ committed[d] > 0
        BY <2>1, RpcAssumption
      <3> QED
        BY <2>1, <2>2, <3>1, <3>2, EndsKept
    <2> QED
      BY <2>3 DEF EInv
  <1>9. CASE Restart
    BY <1>9 DEF Restart, EInv, EndsRight
  <1>10. ASSUME NEW s \in sends, SendRequest(s) PROVE Unheld
    BY <1>10 DEF SendRequest, Unheld
  <1>11. ASSUME NEW m \in messages, ReceiveRequest(m) PROVE Unheld
    BY <1>11 DEF ReceiveRequest, Unheld
  <1>12. ASSUME NEW t \in tasks, SendResponse(t) PROVE Unheld
    BY <1>12 DEF SendResponse, Unheld
  <1>13. ASSUME StopNet \/ Rest \/ UNCHANGED vars PROVE Unheld
    BY <1>13 DEF StopNet, Rest, vars, Unheld
  <1>14. ASSUME NEW w \in Workers,
                AwaitGoesOn(w) \/ \E c \in Coros : AwaitSuspend(w, c) \/ AwaitResume(w, c)
         PROVE  EInv'
    BY <1>1, <1>2, <1>3, <1>4, <1>14 DEF AwaitGoesOn
  <1>15. CASE CommitTaken \/ StopNet \/ Restart \/ Rest
    BY <1>5, <1>8, <1>9, <1>13, <1>15
  <1> QED
    BY <1>5, <1>6, <1>7, <1>10, <1>11, <1>12, <1>13, <1>14, <1>15 DEF Next

LEMMA EInvAlways == Spec => []EInv
  BY InitInv, EndsInit, EndsStep, IInvAlways, PTL DEF Spec

-----------------------------------------------------------------------------
(* Every variable keeps its type: an answer is entered into an object of a    *)
(* coroutine that exists, from the endpoint of a server, and the ready queue  *)
(* receives known coroutines only.                                            *)
THEOREM TypeCorrect == Spec => []TypeOK
  BY IInvAlways, PTL DEF IInv

(* Whatever answers, time-outs, resumptions and restarts come between, a      *)
(* coroutine suspended in a remote call is held once, by waiting_coros_, the  *)
(* handler that took it out or the ready queue, and one that is not suspended *)
(* is held by none of them.                                                   *)
THEOREM CoroutinesHeldOnce == Spec => []HeldOnce
  BY IInvAlways, PTL DEF IInv

(* No callback in waiting_coros_ outlives the RpcBase it points to.           *)
THEOREM NoDanglingCallback == Spec => []CallbackAlive
  BY IInvAlways, PTL DEF IInv

(* A call waits while its answers do not meet its finish condition, and when  *)
(* it has ended they do, or every endpoint has answered or is entered with    *)
(* RPC_TIMEOUT; for any number of endpoints.                                  *)
THEOREM CallsEndWhenEnough == Spec => []EndsWhenEnough
  <1>1. EInv => EndsWhenEnough
    BY DEF EInv, EndsRight, Ended, EndsWhenEnough
  <1> QED
    BY <1>1, EInvAlways, PTL

-----------------------------------------------------------------------------
(* A remote call keeps the promise of RpcCall as long as nothing comes too    *)
(* late, and then its results are its own, for any coroutines, workers,       *)
(* servers, finish conditions and functions, any number of calls of one       *)
(* coroutine and any restarts.  The runs rpc_early_timeout and                *)
(* rpc_timeout_count show what an answer that comes too late does to this.    *)

(* An id that a call has had, in this process or before a restart.            *)
Issued(id) == \/ id.epoch < epoch
              \/ id.epoch = epoch /\ id.n <= calls[id.coro]

(* What is pending belongs to calls that have begun.                          *)
Begun ==
  /\ \A body \in Pending : body.rpc_id = body.of.coro /\ Issued(body.of)
  /\ \A c \in Coros : rpc[c] # None => rpc[c].n <= calls[c]

LEMMA PendingType ==
  ASSUME TypeOK
  PROVE  Pending \subseteq Bodies
  <1>1. \A w \in Workers : worker[w] # None => worker[w].body \in Bodies
    BY DEF TypeOK, Awaits
  <1>2. \A item \in sends \cup messages \cup tasks : item.body \in Bodies
    BY DEF TypeOK
  <1> QED
    BY <1>1, <1>2 DEF Pending

(* The calls go on, or end, and none begins.                                  *)
NoneBegins ==
  /\ epoch' = epoch /\ calls' = calls
  /\ \A c \in Coros : rpc'[c] # None => rpc[c] # None /\ rpc'[c].n = rpc[c].n

LEMMA ResultsGoOn ==
  ASSUME IInv, Unheld \/ \E c \in Coros : EntersResult(c)
  PROVE  \A c \in Coros : rpc'[c] # None => rpc[c] # None /\ rpc'[c].n = rpc[c].n
  <1>1. CASE Unheld
    BY <1>1 DEF Unheld
  <1>2. ASSUME NEW d \in Coros, EntersResult(d)
        PROVE  \A c \in Coros : rpc'[c] # None => rpc[c] # None /\ rpc'[c].n = rpc[c].n
    <2>1. rpc[d] # None
      BY <1>2 DEF EntersResult, IInv, CallbackAlive
    <2>2. rpc'[d].n = rpc[d].n /\ \A c \in Coros \ {d} : rpc'[c] = rpc[c]
      BY <1>2 DEF EntersResult, IInv, TypeOK
    <2> QED
      BY <2>1, <2>2
  <1> QED
    BY <1>1, <1>2

(* Nothing becomes pending but a call that begins, and, where a connection is *)
(* made after the end of its call, what its buffer's memory holds by then.    *)
LEMMA PendingStep ==
  ASSUME IInv, [Next]_vars
  PROVE  \/ \E w \in Workers, c \in Coros :
              AwaitSuspend(w, c) /\ Pending' \subseteq Pending \cup {worker'[w].body}
         \/ Restart /\ Pending' \subseteq Pending
         \/ /\ NoneBegins
            /\ \A body \in Pending' \ Pending :
                 \E c \in Coros : rpc[c] # None /\ body = SendBuffer(c)
            /\ ConnectsInTime => Pending' \subseteq Pending
  <1>0. TypeOK
    BY DEF IInv
  <1> DEFINE Same == /\ NoneBegins
                     /\ Pending' \subseteq Pending
  <1> SUFFICES ASSUME ~Same
      PROVE  \/ \E w \in Workers, c \in Coros :
                  AwaitSuspend(w, c) /\ Pending' \subseteq Pending \cup {worker'[w].body}
             \/ Restart /\ Pending' \subseteq Pending
             \/ /\ NoneBegins
                /\ \A body \in Pending' \ Pending :
                     \E c \in Coros : rpc[c] # None /\ body = SendBuffer(c)
                /\ ConnectsInTime => Pending' \subseteq Pending
    OBVIOUS
  <1>1. ASSUME NEW w \in Workers, NEW c \in Coros, AwaitSuspend(w, c)
        PROVE  Pending' \subseteq Pending \cup {worker'[w].body}
    <2>1. \A v \in Workers \ {w} : worker'[v] = worker[v]
      BY <1>0, <1>1 DEF AwaitSuspend, TypeOK
    <2>2. UNCHANGED <<sends, messages, tasks>>
      BY <1>1 DEF AwaitSuspend
    <2> QED
      BY <2>1, <2>2 DEF Pending
  <1>2. CASE Restart
    BY <1>2 DEF Restart, Pending
  <1>3. ASSUME NEW w \in Workers, AwaitGoesOn(w) PROVE Same
    <2>1. worker[w] # None /\ worker[w] \in Awaits
      BY <1>0, <1>3 DEF AwaitGoesOn, Insert, SpawnSend, AwaitSuspendReturns, TypeOK
    <2>2. /\ \A v \in Workers \ {w} : worker'[v] = worker[v]
          /\ worker'[w] # None => worker'[w].body = worker[w].body
      BY <1>0, <1>3, <2>1 DEF AwaitGoesOn, Insert, SpawnSend, AwaitSuspendReturns,
                              TypeOK, Awaits
    <2>3. /\ \A s \in sends' \ sends : s.body = worker[w].body
          /\ UNCHANGED <<epoch, calls, rpc, messages, tasks>>
      BY <1>3 DEF AwaitGoesOn, Insert, SpawnSend, AwaitSuspendReturns
    <2>4. Pending' \subseteq Pending
      BY <2>1, <2>2, <2>3 DEF Pending
    <2> QED
      BY <2>3, <2>4 DEF NoneBegins
  <1>4. ASSUME NEW w \in Workers, NEW c \in Coros, AwaitResume(w, c) PROVE Same
    <2>1. UNCHANGED <<epoch, calls, worker, sends, messages, tasks>>
      BY <1>4 DEF AwaitResume
    <2>2. rpc'[c] = None /\ \A d \in Coros \ {c} : rpc'[d] = rpc[d]
      BY <1>0, <1>4 DEF AwaitResume, TypeOK
    <2> QED
      BY <2>1, <2>2 DEF NoneBegins, Pending
  <1>5. ASSUME NEW s \in sends, SendRequest(s)
        PROVE  /\ NoneBegins
               /\ \A body \in Pending' \ Pending :
                    \E c \in Coros : rpc[c] # None /\ body = SendBuffer(c)
               /\ ConnectsInTime => Pending' \subseteq Pending
    <2>1. PICK body \in {s.body} \cup {SendBuffer(c) : c \in {d \in Coros : rpc[d] # None}} :
            /\ body = s.body \/ ~Alive(s.body.of)
            /\ messages' = messages \cup
                 {[type |-> "REQUEST", to |-> s.to, ip |-> Client.ip,
                   server_port |-> Client.port, body |-> body, sent_for |-> s.body.of]}
      BY <1>5 DEF SendRequest
    <2>2. /\ UNCHANGED <<epoch, calls, rpc, worker, tasks>>
          /\ sends' = sends \ {s}
          /\ \A m \in messages' \ messages : m.body = body
      BY <1>5, <2>1 DEF SendRequest
    <2>3. Pending' \subseteq Pending \cup {body}
      BY <2>2 DEF Pending
    <2>4. s.body \in Pending
      BY DEF Pending
    <2>5. ConnectsInTime => body = s.body
      BY <1>5, <2>1 DEF ConnectsInTime
    <2> QED
      BY <2>1, <2>2, <2>3, <2>4, <2>5 DEF NoneBegins
  <1>6. ASSUME NEW m \in messages, ReceiveRequest(m) PROVE Same
    <2>1. /\ UNCHANGED <<epoch, calls, rpc, worker, sends>>
          /\ messages' \subseteq messages
          /\ \A t \in tasks' \ tasks : t.body = m.body
      BY <1>6 DEF ReceiveRequest, ResponseInfo
    <2> QED
      BY <2>1 DEF NoneBegins, Pending
  <1>7. ASSUME NEW t \in tasks, SendResponse(t) PROVE Same
    <2>1. /\ UNCHANGED <<epoch, calls, rpc, worker, sends>>
          /\ tasks' \subseteq tasks
          /\ \A m \in messages' \ messages : m.body = t.body
      BY <1>7 DEF SendResponse
    <2> QED
      BY <2>1 DEF NoneBegins, Pending
  <1>8. ASSUME \/ \E m \in messages : ReceiveResponse(m)
               \/ \E t \in timers : TimeOut(t)
        PROVE  Same
    <2>1. /\ UNCHANGED <<epoch, calls, worker, sends, tasks>>
          /\ messages' \subseteq messages
      BY <1>8 DEF ReceiveResponse, TimeOut
    <2>2. \A c \in Coros : rpc'[c] # None => rpc[c] # None /\ rpc'[c].n = rpc[c].n
      BY <1>8, ReceiveResponseEnters, TimeOutEnters, ResultsGoOn
    <2> QED
      BY <2>1, <2>2 DEF NoneBegins, Pending
  <1>9. ASSUME CommitTaken \/ StopNet \/ Rest \/ UNCHANGED vars PROVE Same
    <2>1. UNCHANGED <<epoch, calls, rpc, worker, sends, messages, tasks>>
      BY <1>9 DEF CommitTaken, StopNet, Rest, vars
    <2> QED
      BY <2>1 DEF NoneBegins, Pending
  <1> QED
    BY <1>1, <1>2, <1>3, <1>4, <1>5, <1>6, <1>7, <1>8, <1>9 DEF Next

LEMMA BegunStep == IInv /\ Begun /\ [Next]_vars => Begun'
  <1> SUFFICES ASSUME IInv, Begun, [Next]_vars PROVE Begun'
    OBVIOUS
  <1>0. TypeOK /\ Pending \subseteq Bodies
    BY PendingType DEF IInv
  <1>1. \A body \in Pending : /\ body.of.coro \in Coros /\ body.of.epoch \in Nat
                              /\ body.of.n \in Nat
                              /\ body.rpc_id = body.of.coro /\ Issued(body.of)
    BY <1>0, RpcAssumption DEF Bodies, CallIds, Calls, Begun
  <1>2. /\ epoch \in Nat /\ \A c \in Coros : calls[c] \in Nat
        /\ \A c \in Coros : rpc[c] # None => rpc[c].n <= calls[c]
    BY <1>0, RpcAssumption DEF TypeOK, Begun
  <1>3. ASSUME NEW w \in Workers, NEW c \in Coros, AwaitSuspend(w, c),
               Pending' \subseteq Pending \cup {worker'[w].body}
        PROVE  Begun'
    <2>1. PICK endpoints \in Targets, condition \in Conditions, function \in Functions :
            /\ rpc' = [rpc EXCEPT ![c] = NewRpc(calls'[c], endpoints, condition, function)]
            /\ worker' = [worker EXCEPT ![w] =
                 [pc |-> "insert", left |-> endpoints,
                  body |-> [rpc_id |-> c, rpc_type |-> function,
                            of |-> [epoch |-> epoch, coro |-> c, n |-> calls'[c]]]]]
      BY <1>3 DEF AwaitSuspend
    <2>2. /\ epoch' = epoch /\ calls'[c] = calls[c] + 1
          /\ \A d \in Coros \ {c} : calls'[d] = calls[d] /\ rpc'[d] = rpc[d]
      BY <1>0, <1>3, <2>1 DEF AwaitSuspend, TypeOK
    <2>3. rpc'[c].n = calls'[c]
      BY <1>0, <2>1 DEF TypeOK, NewRpc
    <2>4. worker'[w].body = [rpc_id |-> c, rpc_type |-> function,
                             of |-> [epoch |-> epoch, coro |-> c, n |-> calls'[c]]]
      BY <1>0, <2>1 DEF TypeOK
    <2>5. \A d \in Coros : calls'[d] \in Nat /\ calls[d] <= calls'[d]
      BY <1>2, <2>2
    <2>6. \A d \in Coros : rpc'[d] # None => rpc'[d].n <= calls'[d]
      BY <1>2, <2>2, <2>3, <2>5
    <2>7. \A body \in Pending : Issued(body.of)'
      BY <1>1, <1>2, <2>2, <2>5 DEF Issued
    <2>8. ASSUME NEW body, body = worker'[w].body
          PROVE  body.rpc_id = body.of.coro /\ Issued(body.of)'
      BY <2>2, <2>4, <2>5, <2>8 DEF Issued
    <2> QED
      BY <1>1, <1>3, <2>6, <2>7, <2>8 DEF Begun
  <1>4. ASSUME Restart, Pending' \subseteq Pending PROVE Begun'
    <2>1. epoch' = epoch + 1 /\ \A c \in Coros : rpc'[c] = None
      BY <1>4 DEF Restart
    <2>2. \A body \in Pending : Issued(body.of)'
      BY <1>1, <1>2, <2>1 DEF Issued
    <2> QED
      BY <1>1, <1>4, <2>1, <2>2 DEF Begun
  <1>5. ASSUME NoneBegins,
               \A body \in Pending' \ Pending :
                 \E c \in Coros : rpc[c] # None /\ body = SendBuffer(c)
        PROVE  Begun'
    <2>1. epoch' = epoch /\ calls' = calls
      BY <1>5 DEF NoneBegins
    <2>2. \A id : Issued(id)' <=> Issued(id)
      BY <2>1 DEF Issued
    <2>3. \A c \in Coros : rpc'[c] # None => rpc'[c].n <= calls'[c]
      BY <1>2, <1>5, <2>1 DEF NoneBegins
    <2>4. \A c \in Coros : rpc[c] # None =>
            /\ SendBuffer(c).rpc_id = SendBuffer(c).of.coro
            /\ Issued(SendBuffer(c).of)
      BY <1>2 DEF SendBuffer, Issued
    <2>5. \A body \in Pending' : body.rpc_id = body.of.coro /\ Issued(body.of)
      BY <1>1, <1>5, <2>4
    <2> QED
      BY <2>2, <2>3, <2>5 DEF Begun
  <1> QED
    BY <1>3, <1>4, <1>5, PendingStep

LEMMA BegunAlways == Spec => []Begun
  <1>1. Init => Begun
    BY DEF Init, Begun, Pending
  <1> QED
    BY <1>1, BegunStep, IInvAlways, PTL DEF Spec

-----------------------------------------------------------------------------
(* What there can be of the call of a coroutine to an endpoint, one after the *)
(* other: a send_, its request, the task at the server and its response.      *)
CallOf(c) == SendBuffer(c).of
SendTo(c, e) == [to |-> e, body |-> SendBuffer(c)]
RequestTo(c, e) ==
  [type |-> "REQUEST", to |-> e, ip |-> Client.ip, server_port |-> Client.port,
   body |-> SendBuffer(c), sent_for |-> CallOf(c)]
TaskAt(c, e) ==
  [at |-> e, response_to |-> [ip |-> Client.ip, port |-> Client.port],
   body |-> SendBuffer(c), sent_for |-> CallOf(c)]
ResponseOf(c, e) ==
  [type |-> "RESPONSE", to |-> [ip |-> Client.ip, port |-> Client.port],
   ip |-> e.ip, server_port |-> e.port,
   body |-> SendBuffer(c), sent_for |-> CallOf(c)]

AwaitsFor(w, c) == worker[w] # None /\ worker[w].body.of = CallOf(c)

(* What there is of it, is for one of its endpoints.                          *)
Regular(c) ==
  /\ \A w \in Workers : AwaitsFor(w, c) => /\ worker[w].body = SendBuffer(c)
                                           /\ worker[w].left \subseteq rpc[c].endpoints
  /\ \A v, w \in Workers : AwaitsFor(v, c) /\ AwaitsFor(w, c) => v = w
  /\ \A s \in sends : s.body.of = CallOf(c) =>
       \E e \in rpc[c].endpoints : s = SendTo(c, e)
  /\ \A m \in messages : m.body.of = CallOf(c) =>
       \E e \in rpc[c].endpoints : m = RequestTo(c, e) \/ m = ResponseOf(c, e)
  /\ \A t \in tasks : t.body.of = CallOf(c) =>
       \E e \in rpc[c].endpoints : t = TaskAt(c, e)

(* The call to an endpoint is in one stage.                                   *)
Unsent(c, e) == \E w \in Workers : AwaitsFor(w, c) /\ e \in worker[w].left

OneStage(c, e) ==
  /\ Unsent(c, e) => /\ SendTo(c, e) \notin sends
                     /\ RequestTo(c, e) \notin messages
                     /\ TaskAt(c, e) \notin tasks
                     /\ ResponseOf(c, e) \notin messages
                     /\ e \notin rpc[c].flagged
  /\ SendTo(c, e) \in sends => /\ RequestTo(c, e) \notin messages
                               /\ TaskAt(c, e) \notin tasks
                               /\ ResponseOf(c, e) \notin messages
                               /\ e \notin rpc[c].flagged
  /\ RequestTo(c, e) \in messages => /\ TaskAt(c, e) \notin tasks
                                     /\ ResponseOf(c, e) \notin messages
                                     /\ e \notin rpc[c].flagged
  /\ TaskAt(c, e) \in tasks => /\ ResponseOf(c, e) \notin messages
                               /\ e \notin rpc[c].flagged
  /\ ResponseOf(c, e) \in messages => e \notin rpc[c].flagged

(* The results are the answers of the flagged endpoints, one of each.         *)
OwnResults(c) ==
  LET results == rpc[c].results
  IN  /\ rpc[c].flagged \subseteq rpc[c].endpoints
      /\ Len(results) = Cardinality(rpc[c].flagged)
      /\ \A i \in DOMAIN results : /\ results[i].of = CallOf(c)
                                   /\ results[i].from \in rpc[c].flagged
      /\ \A i, j \in DOMAIN results : results[i].from = results[j].from => i = j

Tracked(c) ==
  rpc[c] # None => /\ Regular(c)
                   /\ \A e \in Servers : OneStage(c, e)
                   /\ OwnResults(c)

CInv == \A c \in Coros : Tracked(c)

-----------------------------------------------------------------------------
(* Items of a call are told apart by their endpoint, and by their type.       *)
LEMMA ItemFields ==
  ASSUME NEW c \in Coros, NEW e \in Servers
  PROVE  /\ SendBuffer(c).rpc_id = c /\ CallOf(c).coro = c
         /\ SendTo(c, e).to = e /\ SendTo(c, e).body = SendBuffer(c)
         /\ RequestTo(c, e).type = "REQUEST" /\ RequestTo(c, e).to = e
         /\ RequestTo(c, e).body = SendBuffer(c)
         /\ TaskAt(c, e).at = e /\ TaskAt(c, e).body = SendBuffer(c)
         /\ ResponseOf(c, e).type = "RESPONSE"
         /\ PeerEndPoint(ResponseOf(c, e)) = e
         /\ ResponseOf(c, e).body = SendBuffer(c)
  <1>1. e = [ip |-> e.ip, port |-> e.port]
    BY RpcAssumption DEF EndPoints
  <1>2. SendBuffer(c).rpc_id = c /\ CallOf(c).coro = c
    BY DEF SendBuffer, CallOf
  <1> HIDE DEF SendBuffer
  <1>3. PeerEndPoint(ResponseOf(c, e)) = [ip |-> e.ip, port |-> e.port]
    BY DEF PeerEndPoint, ResponseOf
  <1> QED
    BY <1>1, <1>2, <1>3 DEF SendTo, RequestTo, TaskAt, ResponseOf

(* Two coroutines are in two calls.                                           *)
LEMMA CallsDiffer ==
  ASSUME NEW c \in Coros, NEW d \in Coros, c # d
  PROVE  CallOf(d).coro # c
  BY DEF CallOf, SendBuffer

(* A call that goes on is that of its object.                                 *)
LEMMA AliveIs ==
  ASSUME NEW id \in CallIds, Alive(id)
  PROVE  id.coro \in Coros /\ rpc[id.coro] # None /\ id = CallOf(id.coro)
  BY DEF Alive, CallIds, CallOf, SendBuffer

(* The call of c goes on.                                                     *)
SameCall(c) ==
  /\ epoch' = epoch
  /\ rpc[c] # None /\ rpc'[c] # None
  /\ rpc'[c].n = rpc[c].n
  /\ rpc'[c].func_id = rpc[c].func_id
  /\ rpc'[c].endpoints = rpc[c].endpoints

LEMMA ItemsKept ==
  ASSUME NEW c \in Coros, SameCall(c)
  PROVE  /\ SendBuffer(c)' = SendBuffer(c) /\ CallOf(c)' = CallOf(c)
         /\ \A e \in Servers : /\ SendTo(c, e)' = SendTo(c, e)
                               /\ RequestTo(c, e)' = RequestTo(c, e)
                               /\ TaskAt(c, e)' = TaskAt(c, e)
                               /\ ResponseOf(c, e)' = ResponseOf(c, e)
  <1>1. SendBuffer(c)' = SendBuffer(c)
    BY DEF SameCall, SendBuffer
  <1> QED
    BY <1>1 DEF CallOf, SendTo, RequestTo, TaskAt, ResponseOf

(* The workers do not take on anything of the call with this id.              *)
WorkersGoOn(id) ==
  \A w \in Workers : worker'[w] # None /\ worker'[w].body.of = id =>
    /\ worker[w] # None
    /\ worker'[w].body = worker[w].body
    /\ worker'[w].left \subseteq worker[w].left

(* No item of it comes up.                                                    *)
NoNewItem(id) ==
  /\ WorkersGoOn(id)
  /\ \A s \in sends' : s.body.of = id => s \in sends
  /\ \A m \in messages' : m.body.of = id => m \in messages
  /\ \A t \in tasks' : t.body.of = id => t \in tasks

LEMMA NoMoreUnsent ==
  ASSUME NEW c \in Coros, SameCall(c), WorkersGoOn(CallOf(c))
  PROVE  /\ \A w \in Workers : AwaitsFor(w, c)' => AwaitsFor(w, c)
         /\ \A e \in Servers : Unsent(c, e)' => Unsent(c, e)
  <1>1. CallOf(c)' = CallOf(c)
    BY ItemsKept
  <1>2. \A w \in Workers : AwaitsFor(w, c)' =>
          AwaitsFor(w, c) /\ worker'[w].left \subseteq worker[w].left
    BY <1>1 DEF AwaitsFor, WorkersGoOn
  <1> QED
    BY <1>2 DEF Unsent

(* What is on its way may be lost, and the step of another coroutine does not *)
(* matter; nor does anything once the call has ended.                         *)
LEMMA Kept ==
  ASSUME NEW c \in Coros, TypeOK, Tracked(c),
         rpc'[c] # None => /\ SameCall(c)
                           /\ NoNewItem(CallOf(c))
                           /\ rpc'[c].flagged = rpc[c].flagged
                           /\ rpc'[c].results = rpc[c].results
  PROVE  Tracked(c)'
  <1> SUFFICES ASSUME rpc'[c] # None
               PROVE  /\ Regular(c)' /\ \A e \in Servers : OneStage(c, e)'
                      /\ OwnResults(c)'
    BY DEF Tracked
  <1>1. SameCall(c) /\ NoNewItem(CallOf(c)) /\ Regular(c) /\ OwnResults(c)
    BY DEF Tracked, SameCall
  <1>2. rpc[c].endpoints \subseteq Servers
    BY <1>1 DEF TypeOK, RpcBase, SameCall
  <1>3. \A w \in Workers : AwaitsFor(w, c)' =>
          /\ AwaitsFor(w, c)
          /\ worker'[w].body = worker[w].body
          /\ worker'[w].left \subseteq worker[w].left
    BY <1>1, ItemsKept DEF AwaitsFor, NoNewItem, WorkersGoOn
  <1>4. Regular(c)'
    BY <1>1, <1>2, <1>3, ItemsKept DEF Regular, NoNewItem, SameCall
  <1>5. ASSUME NEW e \in Servers PROVE OneStage(c, e)'
    <2>1. OneStage(c, e)
      BY <1>1 DEF Tracked, SameCall
    <2>2. Unsent(c, e)' => Unsent(c, e)
      BY <1>3 DEF Unsent
    <2>3. /\ SendTo(c, e).body.of = CallOf(c)
          /\ RequestTo(c, e).body.of = CallOf(c)
          /\ TaskAt(c, e).body.of = CallOf(c)
          /\ ResponseOf(c, e).body.of = CallOf(c)
      BY ItemFields DEF CallOf
    <2>4. /\ SendTo(c, e)' \in sends' => SendTo(c, e) \in sends
          /\ RequestTo(c, e)' \in messages' => RequestTo(c, e) \in messages
          /\ TaskAt(c, e)' \in tasks' => TaskAt(c, e) \in tasks
          /\ ResponseOf(c, e)' \in messages' => ResponseOf(c, e) \in messages
      BY <1>1, <2>3, ItemsKept DEF NoNewItem
    <2> QED
      BY <2>1, <2>2, <2>4 DEF OneStage
  <1>6. OwnResults(c)'
    BY <1>1, ItemsKept DEF OwnResults, SameCall
  <1> QED
    BY <1>4, <1>5, <1>6

(* A step takes the call to one endpoint to its next stage.                   *)
NewItemsFor(c, e) ==
  /\ WorkersGoOn(CallOf(c))
  /\ \A s \in sends' : s.body.of = CallOf(c) => s \in sends \/ s = SendTo(c, e)
  /\ \A m \in messages' : m.body.of = CallOf(c) =>
       m \in messages \/ m = RequestTo(c, e) \/ m = ResponseOf(c, e)
  /\ \A t \in tasks' : t.body.of = CallOf(c) => t \in tasks \/ t = TaskAt(c, e)

LEMMA Onward ==
  ASSUME NEW c \in Coros, NEW e \in Servers, TypeOK, Tracked(c), SameCall(c),
         e \in rpc[c].endpoints, NewItemsFor(c, e),
         \A d \in Servers \ {e} : d \in rpc'[c].flagged => d \in rpc[c].flagged,
         OneStage(c, e)', OwnResults(c)'
  PROVE  Tracked(c)'
  <1>1. rpc[c] # None /\ rpc'[c] # None
    BY DEF SameCall
  <1>2. Regular(c) /\ \A d \in Servers : OneStage(c, d)
    BY <1>1 DEF Tracked
  <1>3. rpc[c].endpoints \subseteq Servers
    BY <1>1 DEF TypeOK, RpcBase
  <1>4. \A w \in Workers : AwaitsFor(w, c)' =>
          /\ AwaitsFor(w, c)
          /\ worker'[w].body = worker[w].body
          /\ worker'[w].left \subseteq worker[w].left
    BY ItemsKept DEF AwaitsFor, NewItemsFor, WorkersGoOn
  <1>5. Regular(c)'
    BY <1>2, <1>3, <1>4, ItemsKept DEF Regular, NewItemsFor, SameCall
  <1>6. ASSUME NEW d \in Servers \ {e} PROVE OneStage(c, d)'
    <2>1. Unsent(c, d)' => Unsent(c, d)
      BY <1>4 DEF Unsent
    <2>2. /\ SendTo(c, d).body.of = CallOf(c)
          /\ RequestTo(c, d).body.of = CallOf(c)
          /\ TaskAt(c, d).body.of = CallOf(c)
          /\ ResponseOf(c, d).body.of = CallOf(c)
      BY ItemFields DEF CallOf
    <2>3. /\ SendTo(c, d) # SendTo(c, e)
          /\ RequestTo(c, d) \notin {RequestTo(c, e), ResponseOf(c, e)}
          /\ TaskAt(c, d) # TaskAt(c, e)
          /\ ResponseOf(c, d) \notin {RequestTo(c, e), ResponseOf(c, e)}
      BY ItemFields
    <2>4. /\ SendTo(c, d)' \in sends' => SendTo(c, d) \in sends
          /\ RequestTo(c, d)' \in messages' => RequestTo(c, d) \in messages
          /\ TaskAt(c, d)' \in tasks' => TaskAt(c, d) \in tasks
          /\ ResponseOf(c, d)' \in messages' => ResponseOf(c, d) \in messages
      BY <2>2, <2>3, ItemsKept DEF NewItemsFor
    <2>5. d \in rpc'[c].flagged => d \in rpc[c].flagged
      OBVIOUS
    <2> QED
      BY <1>2, <2>1, <2>4, <2>5 DEF OneStage
  <1> QED
    BY <1>1, <1>5, <1>6 DEF Tracked

(* A step that does nothing to the call of c.                                 *)
LEMMA Elsewhere ==
  ASSUME NEW c \in Coros, TypeOK, Tracked(c), rpc[c] # None => NoNewItem(CallOf(c)),
         epoch' = epoch, rpc'[c] = rpc[c]
  PROVE  Tracked(c)'
  BY Kept DEF SameCall

-----------------------------------------------------------------------------
(* A call begins (async_action.ipp, RpcBase::await_suspend).                  *)
LEMMA AwaitSuspendTracks ==
  ASSUME IInv, Begun, CInv,
         NEW w \in Workers, NEW c \in Coros, AwaitSuspend(w, c)
  PROVE  CInv'
  <1>0. TypeOK
    BY DEF IInv
  <1>1. PICK endpoints \in Targets, condition \in Conditions, function \in Functions :
          /\ rpc' = [rpc EXCEPT ![c] = NewRpc(calls'[c], endpoints, condition, function)]
          /\ worker' = [worker EXCEPT ![w] =
               [pc |-> "insert", left |-> endpoints,
                body |-> [rpc_id |-> c, rpc_type |-> function,
                          of |-> [epoch |-> epoch, coro |-> c, n |-> calls'[c]]]]]
    BY DEF AwaitSuspend
  <1>2. /\ calls' = [calls EXCEPT ![c] = @ + 1]
        /\ UNCHANGED <<epoch, sends, messages, tasks>>
    BY DEF AwaitSuspend
  <1>3. calls[c] \in Nat /\ calls'[c] = calls[c] + 1
    BY <1>0, <1>2, RpcAssumption DEF TypeOK
  <1> DEFINE of == [epoch |-> epoch, coro |-> c, n |-> calls'[c]]
  <1>4. /\ worker'[w].left = endpoints
        /\ worker'[w].body = [rpc_id |-> c, rpc_type |-> function, of |-> of]
        /\ \A v \in Workers \ {w} : worker'[v] = worker[v]
    BY <1>0, <1>1 DEF TypeOK
  <1>5. worker'[w].body.of = of /\ of.coro = c
    BY <1>4
  <1>6. /\ \A v \in Workers : worker[v] # None => worker[v].body.of # of
        /\ \A item \in sends \cup messages \cup tasks : item.body.of # of
    <2>1. ~Issued(of)
      BY <1>0, <1>3, RpcAssumption DEF Issued, TypeOK
    <2>2. \A body \in Pending : body.of # of
      <3> HIDE DEF of
      <3> QED BY <2>1 DEF Begun
    <2> HIDE DEF of
    <2> QED
      BY <2>2 DEF Pending
  <1>7. ASSUME NEW d \in Coros \ {c} PROVE Tracked(d)'
    <2>1. of # CallOf(d)
      BY <1>5, CallsDiffer
    <2>2. NoNewItem(CallOf(d))
      <3> HIDE DEF of
      <3> QED BY <1>2, <1>4, <1>5, <2>1 DEF NoNewItem, WorkersGoOn
    <2>3. rpc'[d] = rpc[d]
      BY <1>0, <1>1 DEF TypeOK
    <2> QED
      BY <1>0, <1>2, <2>2, <2>3, Elsewhere DEF CInv
  <1>8. Tracked(c)'
    <2>1. rpc'[c] = NewRpc(calls'[c], endpoints, condition, function)
      BY <1>0, <1>1 DEF TypeOK
    <2>2. /\ rpc'[c].n = calls'[c] /\ rpc'[c].func_id = function
          /\ rpc'[c].endpoints = endpoints /\ rpc'[c].flagged = {}
          /\ rpc'[c].results = <<>>
      BY <2>1 DEF NewRpc
    <2>3. worker'[w].body = SendBuffer(c)' /\ CallOf(c)' = of
      BY <1>2, <1>4, <2>2 DEF SendBuffer, CallOf
    <2> HIDE DEF of
    <2>4. \A v \in Workers : AwaitsFor(v, c)' => v = w
      BY <1>4, <1>6, <2>3 DEF AwaitsFor
    <2>5. \A item \in sends' \cup messages' \cup tasks' : item.body.of # CallOf(c)'
      BY <1>2, <1>6, <2>3
    <2>6. Regular(c)'
      BY <1>4, <2>2, <2>3, <2>4, <2>5 DEF Regular
    <2>7. ASSUME NEW e \in Servers PROVE OneStage(c, e)'
      <3>1. /\ SendTo(c, e)'.body.of = CallOf(c)'
            /\ RequestTo(c, e)'.body.of = CallOf(c)'
            /\ TaskAt(c, e)'.body.of = CallOf(c)'
            /\ ResponseOf(c, e)'.body.of = CallOf(c)'
        BY DEF SendTo, RequestTo, TaskAt, ResponseOf, CallOf
      <3>2. /\ SendTo(c, e)' \notin sends'
            /\ RequestTo(c, e)' \notin messages'
            /\ TaskAt(c, e)' \notin tasks'
            /\ ResponseOf(c, e)' \notin messages'
        BY <2>5, <3>1
      <3> QED
        BY <2>2, <3>2 DEF OneStage
    <2>8. OwnResults(c)'
      BY <2>2, FS_EmptySet DEF OwnResults
    <2> QED
      BY <2>6, <2>7, <2>8 DEF Tracked
  <1> QED
    BY <1>7, <1>8 DEF CInv

(* A send_ is spawned: to the endpoint it is for, as long as the call is      *)
(* going on (net_service.cpp, commit_send_request_task).                      *)
LEMMA SpawnSendTracks ==
  ASSUME IInv, CInv, NEW w \in Workers, SpawnSend(w)
  PROVE  CInv'
  <1>0. TypeOK
    BY DEF IInv
  <1>1. worker[w] # None /\ worker[w] \in Awaits
    BY <1>0 DEF SpawnSend, TypeOK
  <1>2. PICK e \in worker[w].left, to \in Servers :
          /\ to = e \/ ~Alive(worker[w].body.of)
          /\ worker' = [worker EXCEPT ![w].left = @ \ {e}]
          /\ sends' = sends \cup {[to |-> to, body |-> worker[w].body]}
    BY DEF SpawnSend
  <1>3. UNCHANGED <<epoch, rpc, messages, tasks>>
    BY DEF SpawnSend
  <1>4. /\ worker'[w].body = worker[w].body
        /\ worker'[w].left = worker[w].left \ {e}
        /\ \A v \in Workers \ {w} : worker'[v] = worker[v]
    BY <1>0, <1>1, <1>2 DEF TypeOK, Awaits
  <1>5. \A id : WorkersGoOn(id)
    BY <1>1, <1>4 DEF WorkersGoOn
  <1> SUFFICES ASSUME NEW c \in Coros PROVE Tracked(c)'
    BY DEF CInv
  <1>6. Tracked(c)
    BY DEF CInv
  <1>7. CASE rpc[c] = None \/ worker[w].body.of # CallOf(c)
    <2>1. worker[w].body.of # CallOf(c) => NoNewItem(CallOf(c))
      BY <1>2, <1>3, <1>5 DEF NoNewItem
    <2> QED
      BY <1>0, <1>3, <1>6, <1>7, <2>1, Elsewhere
  <1>8. CASE rpc[c] # None /\ worker[w].body.of = CallOf(c)
    <2>1. SameCall(c)
      BY <1>3, <1>8 DEF SameCall
    <2>2. /\ Regular(c) /\ OwnResults(c) /\ AwaitsFor(w, c)
          /\ worker[w].body = SendBuffer(c)
          /\ e \in rpc[c].endpoints
      BY <1>1, <1>6, <1>8 DEF Tracked, Regular, AwaitsFor
    <2>3. e \in Servers /\ Unsent(c, e)
      BY <1>0, <1>8, <2>2 DEF TypeOK, RpcBase, Unsent
    <2>4. Alive(worker[w].body.of)
      BY <1>8 DEF Alive, CallOf, SendBuffer
    <2>5. sends' = sends \cup {SendTo(c, e)}
      BY <1>2, <2>2, <2>4 DEF SendTo
    <2>6. NewItemsFor(c, e)
      BY <1>3, <1>5, <2>5 DEF NewItemsFor
    <2>7. OneStage(c, e)'
      <3>1. OneStage(c, e)
        BY <1>6, <1>8, <2>3 DEF Tracked
      <3>2. ~Unsent(c, e)'
        <4>1. \A v \in Workers : AwaitsFor(v, c)' => v = w
          BY <1>5, <2>1, <2>2, <2>3, NoMoreUnsent DEF Regular
        <4> QED
          BY <1>4, <4>1 DEF Unsent
      <3> QED
        BY <1>3, <2>1, <2>3, <3>1, <3>2, ItemsKept DEF OneStage
    <2>8. OwnResults(c)'
      BY <1>3, <2>1, <2>2, ItemsKept DEF OwnResults
    <2> QED
      BY <1>0, <1>3, <1>6, <2>1, <2>2, <2>3, <2>6, <2>7, <2>8, Onward
  <1> QED
    BY <1>7, <1>8

(* The request leaves with what send_buffer_ held at the call.                *)
LEMMA SendRequestTracks ==
  ASSUME IInv, CInv, NEW s \in sends, SendRequest(s), Alive(s.body.of)
  PROVE  CInv'
  <1>0. TypeOK
    BY DEF IInv
  <1> DEFINE request ==
        [type |-> "REQUEST", to |-> s.to, ip |-> Client.ip,
         server_port |-> Client.port, body |-> s.body, sent_for |-> s.body.of]
  <1>1. messages' = messages \cup {request} /\ request.body = s.body
    BY DEF SendRequest
  <1>2. UNCHANGED <<epoch, rpc, worker, tasks>> /\ sends' = sends \ {s}
    BY DEF SendRequest
  <1>3. \A id : WorkersGoOn(id)
    BY <1>2 DEF WorkersGoOn
  <1> SUFFICES ASSUME NEW c \in Coros PROVE Tracked(c)'
    BY DEF CInv
  <1>4. Tracked(c)
    BY DEF CInv
  <1>5. CASE rpc[c] = None \/ s.body.of # CallOf(c)
    <2> HIDE DEF request
    <2>1. s.body.of # CallOf(c) => NoNewItem(CallOf(c))
      BY <1>1, <1>2, <1>3 DEF NoNewItem
    <2> QED
      BY <1>0, <1>2, <1>4, <1>5, <2>1, Elsewhere
  <1>6. CASE rpc[c] # None /\ s.body.of = CallOf(c)
    <2>1. SameCall(c)
      BY <1>2, <1>6 DEF SameCall
    <2>2. Regular(c) /\ OwnResults(c)
      BY <1>4, <1>6 DEF Tracked
    <2>3. PICK e \in rpc[c].endpoints : s = SendTo(c, e)
      BY <1>6, <2>2 DEF Regular
    <2>4. e \in Servers
      BY <1>0, <1>6 DEF TypeOK, RpcBase
    <2>5. request = RequestTo(c, e)
      BY <2>3, <2>4, ItemFields DEF RequestTo, CallOf
    <2> HIDE DEF request
    <2>6. NewItemsFor(c, e)
      BY <1>1, <1>2, <1>3, <2>5 DEF NewItemsFor
    <2>7. OneStage(c, e)'
      <3>1. OneStage(c, e)
        BY <1>4, <1>6, <2>4 DEF Tracked
      <3>2. Unsent(c, e)' => Unsent(c, e)
        BY <1>3, <2>1, <2>4, NoMoreUnsent
      <3>3. RequestTo(c, e) # ResponseOf(c, e)
        BY <2>4, ItemFields
      <3> QED
        BY <1>1, <1>2, <2>1, <2>3, <2>4, <2>5, <3>1, <3>2, <3>3, ItemsKept DEF OneStage
    <2>8. OwnResults(c)'
      BY <1>2, <2>1, <2>2, ItemsKept DEF OwnResults
    <2> QED
      BY <1>0, <1>2, <1>4, <2>1, <2>4, <2>6, <2>7, <2>8, Onward
  <1> QED
    BY <1>5, <1>6

(* The server has a task for the request, if it knows the function.           *)
LEMMA ReceiveRequestTracks ==
  ASSUME IInv, CInv, NEW m \in messages, ReceiveRequest(m)
  PROVE  CInv'
  <1>0. TypeOK
    BY DEF IInv
  <1>1. /\ UNCHANGED <<epoch, rpc, worker, sends>>
        /\ messages' = messages \ {m} /\ m.type = "REQUEST"
        /\ tasks' = tasks \cup {ResponseInfo(m)} \/ tasks' = tasks
    BY DEF ReceiveRequest
  <1>2. \A id : WorkersGoOn(id)
    BY <1>1 DEF WorkersGoOn
  <1>3. ResponseInfo(m).body = m.body
    BY DEF ResponseInfo
  <1> SUFFICES ASSUME NEW c \in Coros PROVE Tracked(c)'
    BY DEF CInv
  <1>4. Tracked(c)
    BY DEF CInv
  <1>5. CASE rpc[c] = None \/ m.body.of # CallOf(c)
    <2>1. m.body.of # CallOf(c) => NoNewItem(CallOf(c))
      BY <1>1, <1>2, <1>3 DEF NoNewItem
    <2> QED
      BY <1>0, <1>1, <1>4, <1>5, <2>1, Elsewhere
  <1>6. CASE rpc[c] # None /\ m.body.of = CallOf(c)
    <2>1. SameCall(c)
      BY <1>1, <1>6 DEF SameCall
    <2>2. Regular(c) /\ OwnResults(c)
      BY <1>4, <1>6 DEF Tracked
    <2>3. rpc[c].endpoints \subseteq Servers
      BY <1>0, <1>6 DEF TypeOK, RpcBase
    <2>4. PICK e \in rpc[c].endpoints : m = RequestTo(c, e)
      BY <1>1, <1>6, <2>2, <2>3, ItemFields DEF Regular
    <2>5. ResponseInfo(m) = TaskAt(c, e)
      <3>1. /\ m.to = e /\ m.ip = Client.ip /\ m.server_port = Client.port
            /\ m.body = SendBuffer(c) /\ m.sent_for = CallOf(c)
        BY <2>4 DEF RequestTo
      <3> QED
        BY <3>1 DEF ResponseInfo, TaskAt
    <2>6. NewItemsFor(c, e)
      BY <1>1, <1>2, <2>5 DEF NewItemsFor
    <2>7. OneStage(c, e)'
      <3>1. OneStage(c, e)
        BY <1>4, <1>6, <2>3 DEF Tracked
      <3>2. Unsent(c, e)' => Unsent(c, e)
        BY <1>2, <2>1, <2>3, NoMoreUnsent
      <3> QED
        BY <1>1, <2>1, <2>3, <2>4, <2>5, <3>1, <3>2, ItemsKept DEF OneStage
    <2>8. OwnResults(c)'
      BY <1>1, <2>1, <2>2, ItemsKept DEF OwnResults
    <2> QED
      BY <1>0, <1>1, <1>4, <2>1, <2>3, <2>6, <2>7, <2>8, Onward
  <1> QED
    BY <1>5, <1>6

(* The task ends and its response is on the way.                              *)
LEMMA SendResponseTracks ==
  ASSUME IInv, CInv, NEW t \in tasks, SendResponse(t)
  PROVE  CInv'
  <1>0. TypeOK
    BY DEF IInv
  <1> DEFINE response ==
        [type |-> "RESPONSE", to |-> t.response_to, ip |-> t.at.ip,
         server_port |-> t.at.port, body |-> t.body, sent_for |-> t.sent_for]
  <1>1. /\ UNCHANGED <<epoch, rpc, worker, sends>>
        /\ tasks' = tasks \ {t}
        /\ messages' = messages \cup {response}
        /\ response.body = t.body
    BY DEF SendResponse
  <1>2. \A id : WorkersGoOn(id)
    BY <1>1 DEF WorkersGoOn
  <1> SUFFICES ASSUME NEW c \in Coros PROVE Tracked(c)'
    BY DEF CInv
  <1>3. Tracked(c)
    BY DEF CInv
  <1>4. CASE rpc[c] = None \/ t.body.of # CallOf(c)
    <2> HIDE DEF response
    <2>1. t.body.of # CallOf(c) => NoNewItem(CallOf(c))
      BY <1>1, <1>2 DEF NoNewItem
    <2> QED
      BY <1>0, <1>1, <1>3, <1>4, <2>1, Elsewhere
  <1>5. CASE rpc[c] # None /\ t.body.of = CallOf(c)
    <2>1. SameCall(c)
      BY <1>1, <1>5 DEF SameCall
    <2>2. Regular(c) /\ OwnResults(c)
      BY <1>3, <1>5 DEF Tracked
    <2>3. PICK e \in rpc[c].endpoints : t = TaskAt(c, e)
      BY <1>5, <2>2 DEF Regular
    <2>4. e \in Servers
      BY <1>0, <1>5 DEF TypeOK, RpcBase
    <2>5. response = ResponseOf(c, e)
      <3>1. /\ t.at = e /\ t.response_to = [ip |-> Client.ip, port |-> Client.port]
            /\ t.body = SendBuffer(c) /\ t.sent_for = CallOf(c)
        BY <2>3 DEF TaskAt
      <3> QED
        BY <3>1 DEF ResponseOf
    <2> HIDE DEF response
    <2>6. NewItemsFor(c, e)
      BY <1>1, <1>2, <2>5 DEF NewItemsFor
    <2>7. OneStage(c, e)'
      <3>1. OneStage(c, e)
        BY <1>3, <1>5, <2>4 DEF Tracked
      <3>2. Unsent(c, e)' => Unsent(c, e)
        BY <1>2, <2>1, <2>4, NoMoreUnsent
      <3>3. RequestTo(c, e) # ResponseOf(c, e)
        BY <2>4, ItemFields
      <3> QED
        BY <1>1, <2>1, <2>3, <2>4, <2>5, <3>1, <3>2, <3>3, ItemsKept DEF OneStage
    <2>8. OwnResults(c)'
      BY <1>1, <2>1, <2>2, ItemsKept DEF OwnResults
    <2> QED
      BY <1>0, <1>1, <1>3, <2>1, <2>4, <2>6, <2>7, <2>8, Onward
  <1> QED
    BY <1>4, <1>5

(* A response to a call that goes on is the first of one of its endpoints,    *)
(* and carries the id of its coroutine.                                       *)
LEMMA FirstAnswer ==
  ASSUME IInv, CInv, NEW m \in messages, ReceiveResponse(m),
         NEW c \in Coros, c = m.body.rpc_id, Alive(m.body.of)
  PROVE  /\ m = ResponseOf(c, PeerEndPoint(m))
         /\ PeerEndPoint(m) \in rpc[c].endpoints
         /\ PeerEndPoint(m) \in Servers
         /\ PeerEndPoint(m) \notin rpc[c].flagged
         /\ m.body.of = CallOf(c)
  <1>1. m.type = "RESPONSE" /\ m.body.of \in CallIds
    BY DEF ReceiveResponse, IInv, TypeOK, Bodies
  <1>2. PICK d \in Coros : rpc[d] # None /\ m.body.of = CallOf(d)
    BY <1>1, AliveIs
  <1>3. rpc[d].endpoints \subseteq Servers
    BY <1>2 DEF IInv, TypeOK, RpcBase
  <1>4. Regular(d)
    BY <1>2 DEF CInv, Tracked
  <1>5. PICK e \in rpc[d].endpoints : m = ResponseOf(d, e)
    BY <1>1, <1>2, <1>3, <1>4, ItemFields DEF Regular
  <1>6. PeerEndPoint(m) = e /\ m.body = SendBuffer(d) /\ d = c
    BY <1>3, <1>5, ItemFields
  <1>7. OneStage(d, e)
    BY <1>2, <1>3 DEF CInv, Tracked
  <1> QED
    BY <1>2, <1>3, <1>5, <1>6, <1>7 DEF OneStage

(* What an answer adds to the results.                                        *)
LEMMA AnsweredResults ==
  ASSUME NEW r \in RpcBase, NEW peer \in Servers, NEW of \in CallIds
  PROVE  LET after == ProcessBuffer(r, peer, of)
         IN  /\ after.results = Append(r.results, [from |-> peer, of |-> of])
             /\ after.n = r.n /\ after.func_id = r.func_id
             /\ after.expired = r.expired
  <1> DEFINE results == Append(r.results, [from |-> peer, of |-> of])
             flagged == r.flagged \cup ({peer} \cap r.endpoints)
             after   == [r EXCEPT !.results = results, !.flagged = flagged]
  <1>1. /\ after.results = results
        /\ after.n = r.n /\ after.func_id = r.func_id
        /\ after.expired = r.expired
    <2> HIDE DEF results, flagged
    <2> QED BY DEF RpcBase
  <1>2. ProcessBuffer(r, peer, of) = after
    BY DEF ProcessBuffer
  <1> HIDE DEF results, after
  <1> QED
    BY <1>1, <1>2 DEF results

(* A response is entered into the call it answers.                            *)
LEMMA ReceiveResponseTracks ==
  ASSUME IInv, CInv, NEW m \in messages, ReceiveResponse(m),
         waiting_coros[m.body.rpc_id] # 0 => Alive(m.body.of)
  PROVE  CInv'
  <1>0. TypeOK
    BY DEF IInv
  <1>1. m.body \in Bodies
    BY <1>0 DEF TypeOK
  <1>2. PICK c \in Coros : c = m.body.rpc_id
    BY <1>1 DEF Bodies
  <1>3. /\ UNCHANGED <<epoch, worker, sends, tasks>>
        /\ messages' = messages \ {m}
    BY DEF ReceiveResponse
  <1>4. \A id : NoNewItem(id)
    BY <1>3 DEF NoNewItem, WorkersGoOn
  <1>5. CASE waiting_coros[c] = 0 /\ rpc' = rpc
    BY <1>0, <1>3, <1>4, <1>5, Elsewhere DEF CInv
  <1>6. CASE waiting_coros[c] # 0
    <2> DEFINE e == PeerEndPoint(m)
               of == m.body.of
               after == ProcessBuffer(rpc[c], e, of)
    <2>1. rpc[c] # None /\ rpc[c] \in RpcBase
      BY <1>0, <1>6 DEF IInv, CallbackAlive, TypeOK
    <2>2. /\ m = ResponseOf(c, e)
          /\ e \in rpc[c].endpoints /\ e \in Servers
          /\ e \notin rpc[c].flagged
          /\ of = CallOf(c)
      BY <1>2, <1>6, FirstAnswer
    <2>3. of \in CallIds
      BY <1>1 DEF Bodies
    <2>4. rpc' = [rpc EXCEPT ![c] = after]
      BY <1>2, <1>6 DEF ReceiveResponse
    <2>5. /\ after # None
          /\ after.n = rpc[c].n /\ after.func_id = rpc[c].func_id
          /\ after.endpoints = rpc[c].endpoints
          /\ after.flagged = rpc[c].flagged \cup {e}
          /\ after.results = Append(rpc[c].results, [from |-> e, of |-> of])
      <3>1. rpc[c].flagged \cup ({e} \cap rpc[c].endpoints) = rpc[c].flagged \cup {e}
        BY <2>2
      <3> HIDE DEF e, of
      <3> QED
        BY <2>1, <2>2, <2>3, <3>1, ProcessBufferType, AnsweredFields, AnsweredResults
    <2> HIDE DEF e, of, after
    <2>6. rpc'[c] = after /\ \A d \in Coros \ {c} : rpc'[d] = rpc[d]
      BY <1>0, <2>4 DEF TypeOK
    <2>7. ASSUME NEW d \in Coros \ {c} PROVE Tracked(d)'
      BY <1>0, <1>3, <1>4, <2>6, Elsewhere DEF CInv
    <2>8. Tracked(c)'
      <3>0. Tracked(c) /\ Regular(c) /\ OwnResults(c) /\ OneStage(c, e)
        BY <2>1, <2>2 DEF CInv, Tracked
      <3>1. SameCall(c)
        BY <1>3, <2>1, <2>5, <2>6 DEF SameCall
      <3>2. NewItemsFor(c, e)
        BY <1>4 DEF NoNewItem, NewItemsFor
      <3>3. OneStage(c, e)'
        <4>1. Unsent(c, e)' => Unsent(c, e)
          BY <1>4, <2>2, <3>1, NoMoreUnsent DEF NoNewItem
        <4> QED
          BY <1>3, <2>2, <3>0, <3>1, <4>1, ItemsKept DEF OneStage
      <3>4. OwnResults(c)'
        <4> DEFINE flagged == rpc[c].flagged
                   results == rpc[c].results
        <4>1. IsFiniteSet(flagged)
          <5>1. flagged \subseteq Servers
            BY <2>1 DEF RpcBase
          <5> QED
            BY <5>1, RpcAssumption, FS_Subset
        <4>2. Cardinality(flagged \cup {e}) = Cardinality(flagged) + 1
          BY <2>2, <4>1, FS_AddElement
        <4>3. results \in Seq([from : Servers, of : CallIds])
          BY <2>1 DEF RpcBase
        <4>4. /\ flagged \subseteq rpc[c].endpoints
              /\ Len(results) = Cardinality(flagged)
              /\ \A i \in DOMAIN results : /\ results[i].of = of
                                           /\ results[i].from \in flagged
              /\ \A i, j \in DOMAIN results : results[i].from = results[j].from => i = j
          BY <2>2, <3>0 DEF OwnResults
        <4> DEFINE answer == [from |-> e, of |-> of]
                   now == Append(results, answer)
        <4>5. answer \in [from : Servers, of : CallIds]
          BY <2>2, <2>3
        <4>6. answer.from = e /\ answer.of = of
          OBVIOUS
        <4> HIDE DEF answer, flagged, results
        <4>7. /\ Len(now) = Len(results) + 1
              /\ DOMAIN now = DOMAIN results \cup {Len(results) + 1}
              /\ \A i \in DOMAIN results : now[i] = results[i] /\ i # Len(results) + 1
              /\ now[Len(results) + 1] = answer
          BY <4>3, <4>5
        <4> HIDE DEF now
        <4>8. /\ \A i \in DOMAIN now : /\ now[i].of = of
                                       /\ now[i].from \in flagged \cup {e}
              /\ \A i, j \in DOMAIN now : now[i].from = now[j].from => i = j
          BY <2>2, <4>4, <4>6, <4>7 DEF flagged
        <4>9. /\ rpc'[c].results = now
              /\ rpc'[c].flagged = flagged \cup {e}
              /\ rpc'[c].endpoints = rpc[c].endpoints
              /\ CallOf(c)' = CallOf(c)
          BY <2>5, <2>6, <3>1, ItemsKept DEF now, flagged, results, answer
        <4> QED
          BY <2>2, <4>2, <4>4, <4>7, <4>8, <4>9 DEF OwnResults
      <3>5. \A d \in Servers \ {e} : d \in rpc'[c].flagged => d \in rpc[c].flagged
        BY <2>5, <2>6
      <3> QED
        BY <1>0, <2>2, <3>0, <3>1, <3>2, <3>3, <3>4, <3>5, Onward
    <2> QED
      BY <2>7, <2>8 DEF CInv
  <1> QED
    BY <1>2, <1>5, <1>6 DEF ReceiveResponse

(* A time-out leaves the call its results.                                    *)
LEMMA TimeOutTracks ==
  ASSUME IInv, CInv, NEW t \in timers, TimeOut(t)
  PROVE  CInv'
  <1>0. TypeOK
    BY DEF IInv
  <1>1. PICK c \in Coros : c = t.coro
    BY <1>0 DEF TypeOK
  <1>2. UNCHANGED <<epoch, worker, sends, messages, tasks>>
    BY DEF TimeOut
  <1>3. \A id : NoNewItem(id)
    BY <1>2 DEF NoNewItem, WorkersGoOn
  <1>4. CASE rpc' = rpc
    BY <1>0, <1>2, <1>3, <1>4, Elsewhere DEF CInv
  <1>5. CASE waiting_coros[c] # 0
    <2> DEFINE after == [rpc[c] EXCEPT !.expired = rpc[c].endpoints \ rpc[c].flagged]
    <2>1. rpc[c] # None /\ rpc[c] \in RpcBase
      BY <1>0, <1>5 DEF IInv, CallbackAlive, TypeOK
    <2>2. rpc' = [rpc EXCEPT ![c] = after]
      BY <1>0, <1>1, <1>5 DEF TimeOut, TypeOK
    <2>3. rpc'[c] = after /\ \A d \in Coros \ {c} : rpc'[d] = rpc[d]
      BY <1>0, <2>2 DEF TypeOK
    <2>4. /\ after.n = rpc[c].n /\ after.func_id = rpc[c].func_id
          /\ after.endpoints = rpc[c].endpoints
          /\ after.flagged = rpc[c].flagged
          /\ after.results = rpc[c].results
      BY <2>1 DEF RpcBase
    <2> HIDE DEF after
    <2>5. rpc'[c] # None => /\ SameCall(c) /\ NoNewItem(CallOf(c))
                            /\ rpc'[c].flagged = rpc[c].flagged
                            /\ rpc'[c].results = rpc[c].results
      BY <1>2, <1>3, <2>1, <2>3, <2>4 DEF SameCall
    <2>6. Tracked(c)'
      BY <1>0, <2>5, Kept DEF CInv
    <2>7. ASSUME NEW d \in Coros \ {c} PROVE Tracked(d)'
      BY <1>0, <1>2, <1>3, <2>3, Elsewhere DEF CInv
    <2> QED
      BY <2>6, <2>7 DEF CInv
  <1> QED
    BY <1>1, <1>4, <1>5 DEF TimeOut

(* The steps of a call that create nothing, and its end.                      *)
LEMMA OthersTrack ==
  ASSUME IInv, CInv,
         \/ \E w \in Workers : Insert(w) \/ AwaitSuspendReturns(w)
         \/ \E w \in Workers, c \in Coros : AwaitResume(w, c)
         \/ CommitTaken \/ StopNet \/ UNCHANGED vars
  PROVE  CInv'
  <1>0. TypeOK
    BY DEF IInv
  <1>1. UNCHANGED <<epoch, sends, messages, tasks>>
    BY DEF Insert, AwaitSuspendReturns, AwaitResume, CommitTaken, StopNet, vars
  <1>2. \A id : WorkersGoOn(id)
    <2>1. ASSUME NEW w \in Workers, Insert(w)
          PROVE  /\ worker[w] # None /\ worker'[w].body = worker[w].body
                 /\ worker'[w].left = worker[w].left
                 /\ \A v \in Workers \ {w} : worker'[v] = worker[v]
      <3>1. worker[w] # None /\ worker[w] \in Awaits
        BY <1>0, <2>1 DEF Insert, TypeOK
      <3>2. worker' = [worker EXCEPT ![w] = [worker[w] EXCEPT !.pc = "spawn"]]
        BY <1>0, <2>1 DEF Insert, TypeOK
      <3> QED
        BY <1>0, <3>1, <3>2 DEF TypeOK, Awaits
    <2>2. ASSUME NEW w \in Workers, AwaitSuspendReturns(w)
          PROVE  /\ worker'[w] = None
                 /\ \A v \in Workers \ {w} : worker'[v] = worker[v]
      BY <1>0, <2>2 DEF AwaitSuspendReturns, TypeOK
    <2>3. CASE UNCHANGED worker
      BY <2>3 DEF WorkersGoOn
    <2>4. ASSUME NEW w \in Workers, Insert(w) \/ AwaitSuspendReturns(w)
          PROVE  \A id : WorkersGoOn(id)
      BY <2>1, <2>2, <2>4 DEF WorkersGoOn
    <2> QED
      BY <2>3, <2>4 DEF AwaitResume, CommitTaken, StopNet, vars
  <1>3. \A id : NoNewItem(id)
    BY <1>1, <1>2 DEF NoNewItem
  <1>4. CASE rpc' = rpc
    BY <1>0, <1>1, <1>3, <1>4, Elsewhere DEF CInv
  <1>5. ASSUME NEW w \in Workers, NEW c \in Coros, AwaitResume(w, c) PROVE CInv'
    <2>1. rpc'[c] = None /\ \A d \in Coros \ {c} : rpc'[d] = rpc[d]
      BY <1>0, <1>5 DEF AwaitResume, TypeOK
    <2>2. Tracked(c)'
      BY <2>1 DEF Tracked
    <2>3. ASSUME NEW d \in Coros \ {c} PROVE Tracked(d)'
      BY <1>0, <1>1, <1>3, <2>1, Elsewhere DEF CInv
    <2> QED
      BY <2>2, <2>3 DEF CInv
  <1> QED
    BY <1>4, <1>5 DEF Insert, AwaitSuspendReturns, CommitTaken, StopNet, vars

LEMMA TracksInit == Init => CInv
  BY DEF Init, CInv, Tracked

LEMMA TracksStep == IInv /\ Begun /\ CInv /\ [Next /\ InTime]_vars => CInv'
  <1> SUFFICES ASSUME IInv, Begun, CInv, [Next /\ InTime]_vars PROVE CInv'
    OBVIOUS
  <1>1. CASE Restart
    BY <1>1 DEF Restart, CInv, Tracked
  <1>2. ASSUME NEW w \in Workers,
               AwaitGoesOn(w) \/ \E c \in Coros : AwaitSuspend(w, c) \/ AwaitResume(w, c)
        PROVE  CInv'
    BY <1>2, AwaitSuspendTracks, SpawnSendTracks, OthersTrack DEF AwaitGoesOn
  <1>3. CASE CommitTaken \/ StopNet \/ Rest \/ UNCHANGED vars
    BY <1>3, OthersTrack DEF Rest
  <1>4. ASSUME InTime, NEW s \in sends, SendRequest(s) PROVE CInv'
    BY <1>4, SendRequestTracks DEF InTime, ConnectsInTime
  <1>5. ASSUME NEW m \in messages, ReceiveRequest(m) PROVE CInv'
    BY <1>5, ReceiveRequestTracks
  <1>6. ASSUME InTime, NEW m \in messages, ReceiveResponse(m) PROVE CInv'
    BY <1>6, ReceiveResponseTracks DEF InTime, AnswersInTime
  <1>7. ASSUME NEW t \in timers, TimeOut(t) PROVE CInv'
    BY <1>7, TimeOutTracks
  <1>8. ASSUME NEW t \in tasks, SendResponse(t) PROVE CInv'
    BY <1>8, SendResponseTracks
  <1> QED
    BY <1>1, <1>2, <1>3, <1>4, <1>5, <1>6, <1>7, <1>8 DEF Next

LEMMA InTimeIsSpec == InTimeSpec => Spec
  <1>1. [Next /\ InTime]_vars => [Next]_vars
    OBVIOUS
  <1> QED
    BY <1>1, PTL DEF InTimeSpec, Spec

LEMMA TracksAlways == InTimeSpec => []CInv
  BY TracksInit, TracksStep, IInvAlways, BegunAlways, InTimeIsSpec, PTL DEF InTimeSpec

-----------------------------------------------------------------------------
(* What a step does to a call, as RpcCall sees it.                            *)
View(c) ==
  IF rpc[c] = None THEN None
  ELSE [endpoints |-> rpc[c].endpoints,
        condition |-> rpc[c].finish_condition,
        answered  |-> rpc[c].flagged,
        expired   |-> rpc[c].expired,
        over      |-> Suspended(c) /\ waiting_coros[c] = 0]

LEMMA ViewIs == /\ \A c \in Coros : Awaited[c] = View(c)
                /\ Awaited = [c \in Coros |-> Awaited[c]]
  BY DEF Awaited, View

LEMMA ViewKept ==
  ASSUME NEW d \in Coros, rpc'[d] = rpc[d],
         Suspended(d)' <=> Suspended(d),
         (waiting_coros'[d] = 0) <=> (waiting_coros[d] = 0)
  PROVE  Awaited'[d] = Awaited[d]
  <1>1. (Suspended(d) /\ waiting_coros[d] = 0)' = (Suspended(d) /\ waiting_coros[d] = 0)
    OBVIOUS
  <1>2. View(d)' = View(d)
    BY <1>1 DEF View
  <1> QED
    BY <1>2, ViewIs DEF Awaited, View

LEMMA ViewChanged ==
  ASSUME NEW c \in Coros, NEW after, Awaited'[c] = after,
         \A d \in Coros \ {c} : Awaited'[d] = Awaited[d]
  PROVE  Awaited' = [Awaited EXCEPT ![c] = after]
  <1>1. Awaited' = [d \in Coros |-> Awaited'[d]]
    BY DEF Awaited
  <1>2. Awaited = [d \in Coros |-> Awaited[d]]
    BY ViewIs
  <1> QED
    BY <1>1, <1>2

LEMMA ViewUnchanged ==
  ASSUME \A d \in Coros : Awaited'[d] = Awaited[d]
  PROVE  Awaited' = Awaited
  <1>1. Awaited' = [d \in Coros |-> Awaited'[d]]
    BY DEF Awaited
  <1>2. Awaited = [d \in Coros |-> Awaited[d]]
    BY ViewIs
  <1> QED
    BY <1>1, <1>2

(* The calls of coroutines are call states.                                   *)
LEMMA OverIs ==
  ASSUME TypeOK, NEW c \in Coros, rpc[c] # None
  PROVE  /\ Awaited[c] = [endpoints |-> rpc[c].endpoints,
                          condition |-> rpc[c].finish_condition,
                          answered  |-> rpc[c].flagged,
                          expired   |-> rpc[c].expired,
                          over      |-> (Suspended(c) /\ waiting_coros[c] = 0)]
         /\ Awaited[c] # None
         /\ Awaited[c].over = (Suspended(c) /\ waiting_coros[c] = 0)
  <1> DEFINE over == Suspended(c) /\ waiting_coros[c] = 0
             state == [endpoints |-> rpc[c].endpoints,
                       condition |-> rpc[c].finish_condition,
                       answered  |-> rpc[c].flagged,
                       expired   |-> rpc[c].expired,
                       over      |-> over]
  <1>1. Awaited[c] = state
    BY ViewIs DEF View
  <1>2. over \in BOOLEAN
    OBVIOUS
  <1>3. state \in Call!CallStates
    <2>1. /\ rpc[c].endpoints \in SUBSET Servers
          /\ rpc[c].finish_condition \in Call!FinishConditions
          /\ rpc[c].flagged \in SUBSET Servers
          /\ rpc[c].expired \in SUBSET Servers
      BY RpcAssumption DEF TypeOK, RpcBase, Call!FinishConditions
    <2> HIDE DEF over
    <2> QED
      BY <1>2, <2>1 DEF Call!CallStates
  <1>4. state.over = over
    OBVIOUS
  <1> QED
    BY <1>1, <1>3, <1>4, NoCallAssumption

(* await_suspend begins a call: it is not over while it is put into the map.  *)
LEMMA BeginImplemented ==
  ASSUME IInv, IInv', NEW w \in Workers, NEW c \in Coros, AwaitSuspend(w, c)
  PROVE  Call!Begin(c)
  <1>0. TypeOK /\ TypeOK'
    BY DEF IInv
  <1>1. PICK endpoints \in Targets, condition \in Conditions, function \in Functions :
          /\ rpc' = [rpc EXCEPT ![c] = NewRpc(calls'[c], endpoints, condition, function)]
          /\ worker' = [worker EXCEPT ![w] =
               [pc |-> "insert", left |-> endpoints,
                body |-> [rpc_id |-> c, rpc_type |-> function,
                          of |-> [epoch |-> epoch, coro |-> c, n |-> calls'[c]]]]]
    BY DEF AwaitSuspend
  <1>2. rpc[c] = None /\ worker[w] = None /\ UNCHANGED waiting_coros
    BY DEF AwaitSuspend
  <1>3. calls'[c] \in Calls
    BY <1>0, RpcAssumption DEF AwaitSuspend, TypeOK, Calls
  <1>4. /\ rpc'[c] = NewRpc(calls'[c], endpoints, condition, function)
        /\ rpc'[c] # None
        /\ \A d \in Coros \ {c} : rpc'[d] = rpc[d]
    BY <1>0, <1>1, <1>3, NewRpcType DEF TypeOK
  <1>5. /\ worker'[w].pc = "insert" /\ worker'[w].body.rpc_id = c
        /\ \A v \in Workers \ {w} : worker'[v] = worker[v]
    BY <1>0, <1>1 DEF TypeOK
  <1> DEFINE await == [pc |-> "insert", left |-> endpoints,
                       body |-> [rpc_id |-> c, rpc_type |-> function,
                                 of |-> [epoch |-> epoch, coro |-> c, n |-> calls'[c]]]]
  <1>6. worker'[w] # None
    <2>1. endpoints \in SUBSET Servers
      BY RpcAssumption
    <2>2. [rpc_id |-> c, rpc_type |-> function,
           of |-> [epoch |-> epoch, coro |-> c, n |-> calls'[c]]] \in Bodies
      BY <1>0, <1>3 DEF Bodies, CallIds, TypeOK
    <2>3. await \in Awaits
      BY <2>1, <2>2 DEF Awaits
    <2>4. worker'[w] = await
      BY <1>0, <1>1 DEF TypeOK
    <2> HIDE DEF await
    <2> QED
      BY <2>3, <2>4, NoneAssumption
  <1>7. Inserting(c)'
    BY <1>5, <1>6 DEF Inserting
  <1>8. ASSUME NEW d \in Coros \ {c} PROVE Awaited'[d] = Awaited[d]
    <2>1. Inserting(d)' <=> Inserting(d)
      BY <1>2, <1>5 DEF Inserting
    <2>2. Suspended(d)' <=> Suspended(d)
      BY <1>4, <2>1 DEF Suspended
    <2> QED
      BY <1>2, <1>4, <2>2, ViewKept
  <1> DEFINE state == [endpoints |-> endpoints, condition |-> condition,
                       answered |-> {}, expired |-> {}, over |-> FALSE]
  <1>9. Awaited'[c] = state
    <2>1. (Suspended(c) /\ waiting_coros[c] = 0)' = FALSE
      BY <1>7 DEF Suspended
    <2>2. /\ rpc'[c].endpoints = endpoints
          /\ rpc'[c].finish_condition = condition
          /\ rpc'[c].flagged = {} /\ rpc'[c].expired = {}
      BY <1>4 DEF NewRpc
    <2> QED
      BY <1>4, <2>1, <2>2 DEF Awaited
  <1>10. Awaited' = [Awaited EXCEPT ![c] = state]
    <2> HIDE DEF state
    <2> QED BY <1>8, <1>9, ViewChanged
  <1>11. Awaited[c] = None
    BY <1>2 DEF Awaited
  <1>12. endpoints \in SUBSET Servers /\ condition \in Call!FinishConditions
    BY RpcAssumption DEF Call!FinishConditions
  <1> QED
    BY <1>10, <1>11, <1>12 DEF Call!Begin

(* await_resume ends it: a coroutine in the ready queue has left the map.     *)
LEMMA ReturnImplemented ==
  ASSUME IInv, NEW w \in Workers, NEW c \in Coros, AwaitResume(w, c)
  PROVE  Call!Return(c)
  <1>0. TypeOK
    BY DEF IInv
  <1>1. /\ UNCHANGED <<worker, waiting_coros>> /\ committed[c] > 0
        /\ rpc'[c] = None /\ \A d \in Coros \ {c} : rpc'[d] = rpc[d]
    BY <1>0 DEF AwaitResume, TypeOK
  <1>2. rpc[c] # None /\ ~Inserting(c) /\ Places(c) = 1
    BY <1>1, HeldIsSuspended
  <1>3. waiting_coros[c] = 0
    BY <1>0, <1>1, <1>2 DEF Places, TypeOK
  <1>4. Awaited[c] # None /\ Awaited[c].over
    <2>1. Suspended(c) /\ waiting_coros[c] = 0
      BY <1>2, <1>3 DEF Suspended
    <2>2. (Suspended(c) /\ waiting_coros[c] = 0) = TRUE
      BY <2>1
    <2>3. Awaited[c].over = TRUE
      BY <1>0, <1>2, <2>2, OverIs
    <2> QED
      BY <1>0, <1>2, <2>3, OverIs
  <1>5. ASSUME NEW d \in Coros \ {c} PROVE Awaited'[d] = Awaited[d]
    <2>1. Suspended(d)' <=> Suspended(d)
      BY <1>1 DEF Suspended, Inserting
    <2> QED
      BY <1>1, <2>1, ViewKept
  <1>6. Awaited'[c] = None
    BY <1>1 DEF Awaited
  <1>7. Awaited' = [Awaited EXCEPT ![c] = None]
    BY <1>5, <1>6, ViewChanged
  <1> QED
    BY <1>4, <1>7 DEF Call!Return

(* RpcCall counts as Rpc does.                                                *)
LEMMA SameCardinality ==
  ASSUME NEW S PROVE Call!Cardinality(S) = Cardinality(S)
  BY DEF Call!Cardinality, Cardinality

(* The arithmetic of the finish conditions again, now by who has answered.    *)
LEMMA EnoughIsMet ==
  ASSUME NEW r \in RpcBase, r.flagged \subseteq r.endpoints,
         Len(r.results) = Cardinality(r.flagged)
  PROVE  r.endpoints # {} =>
           (Enough(r) <=> Call!Met(r.finish_condition, r.flagged, r.endpoints))
  <1> DEFINE size == Len(r.results)
             total == Cardinality(r.endpoints)
             missing == Cardinality(r.endpoints \ r.flagged)
  <1>1. IsFiniteSet(r.endpoints)
    <2>1. r.endpoints \subseteq Servers
      BY DEF RpcBase
    <2> QED
      BY <2>1, RpcAssumption, FS_Subset
  <1>2. /\ IsFiniteSet(r.flagged) /\ IsFiniteSet(r.endpoints \ r.flagged)
        /\ size \in Nat /\ total \in Nat /\ missing \in Nat
    BY <1>1, FS_Subset, FS_Difference, FS_CardinalityType
  <1>3. missing = total - size
    <2>1. r.endpoints \cap r.flagged = r.flagged
      OBVIOUS
    <2>2. missing = total - Cardinality(r.endpoints \cap r.flagged)
      BY <1>1, FS_Difference
    <2> QED
      BY <2>1, <2>2
  <1>4. size > 0 <=> r.flagged # {}
    BY <1>2, FS_EmptySet
  <1>5. size >= total <=> r.flagged = r.endpoints
    <2>1. r.flagged # r.endpoints => size < total
      BY <1>1, <1>2, FS_Subset
    <2> QED
      BY <1>2, <2>1
  <1>6. 2 * size > total <=> size > missing
    <2> HIDE DEF size, total, missing
    <2> QED BY <1>2, <1>3
  <1> DEFINE condition == r.finish_condition
             met == Call!Met(condition, r.flagged, r.endpoints)
  <1>7. condition \in {"WHEN_ANY", "WHEN_ALL", "WHEN_MAJORITY"}
    BY EndPointCount
  <1>8. CASE condition = "WHEN_ANY"
    BY <1>4, <1>8 DEF Enough, Call!Met
  <1>9. CASE condition = "WHEN_ALL"
    BY <1>5, <1>9 DEF Enough, Call!Met
  <1>10. CASE condition = "WHEN_MAJORITY"
    <2>1. Enough(r) <=> 2 * size > total
      BY <1>10 DEF Enough
    <2>2. met <=> size > missing
      BY <1>10, SameCardinality DEF Call!Met
    <2> QED
      BY <1>6, <2>1, <2>2
  <1> QED
    BY <1>7, <1>8, <1>9, <1>10

(* Fields of one value of a function.                                         *)
LEMMA TwoFields ==
  ASSUME NEW c \in Coros, NEW f, f = [d \in Coros |-> f[d]], NEW x, NEW over
  PROVE  /\ [f EXCEPT ![c].answered = x, ![c].over = over]
              = [f EXCEPT ![c] = [[f[c] EXCEPT !.answered = x] EXCEPT !.over = over]]
         /\ [f EXCEPT ![c].expired = x, ![c].over = over]
              = [f EXCEPT ![c] = [[f[c] EXCEPT !.expired = x] EXCEPT !.over = over]]
  OBVIOUS

(* What a handler that enters a result changes of the calls.                  *)
LEMMA OthersSeen ==
  ASSUME IInv, NEW c \in Coros, UNCHANGED worker,
         \A d \in Coros \ {c} : /\ rpc'[d] = rpc[d]
                                /\ waiting_coros'[d] = waiting_coros[d]
  PROVE  \A d \in Coros \ {c} : Awaited'[d] = Awaited[d]
  <1>1. ASSUME NEW d \in Coros \ {c} PROVE Awaited'[d] = Awaited[d]
    <2>1. Suspended(d)' <=> Suspended(d)
      BY DEF Suspended, Inserting
    <2> QED
      BY <2>1, ViewKept
  <1> QED
    BY <1>1

(* A response that a call is waiting for is an answer, the last one if the  *)
(* finish condition is met.                                                   *)
LEMMA AnswerImplemented ==
  ASSUME IInv, EInv, CInv, IInv', CInv', NEW m \in messages, ReceiveResponse(m),
         waiting_coros[m.body.rpc_id] # 0 => Alive(m.body.of)
  PROVE  UNCHANGED Awaited \/ \E c \in Coros : Call!Answer(c)
  <1>0. TypeOK /\ TypeOK'
    BY DEF IInv
  <1>1. m.body \in Bodies
    BY <1>0 DEF TypeOK
  <1>2. PICK c \in Coros : c = m.body.rpc_id
    BY <1>1 DEF Bodies
  <1>3. taken = None /\ UNCHANGED worker
    BY DEF ReceiveResponse, Handler
  <1>4. CASE waiting_coros[c] = 0 /\ UNCHANGED <<rpc, waiting_coros>>
    <2>1. \A d \in Coros : Suspended(d)' <=> Suspended(d)
      BY <1>3, <1>4 DEF Suspended, Inserting
    <2>2. \A d \in Coros : Awaited'[d] = Awaited[d]
      BY <1>4, <2>1, ViewKept
    <2> QED
      BY <2>2, ViewUnchanged
  <1>5. CASE waiting_coros[c] # 0
    <2>1. rpc[c] # None /\ rpc[c] \in RpcBase /\ ~Inserting(c)
      BY <1>0, <1>5, HeldIsSuspended DEF TypeOK
    <2>0. PICK of \in CallIds : of = m.body.of
      BY <1>1 DEF Bodies
    <2>2. PICK e \in rpc[c].endpoints :
            e = PeerEndPoint(m) /\ e \in Servers /\ e \notin rpc[c].flagged
      BY <1>2, <1>5, FirstAnswer
    <2> DEFINE after == ProcessBuffer(rpc[c], e, of)
               need_awaken == NeedAwaken(rpc[c].finish_condition, Len(after.results),
                                         Cardinality(rpc[c].endpoints))
    <2>4. rpc' = [rpc EXCEPT ![c] = after] /\ rpc'[c] = after
      BY <1>0, <1>2, <1>5, <2>0, <2>2 DEF ReceiveResponse, TypeOK
    <2>5. TakeIf(need_awaken, c)
      BY <1>2, <1>5, <2>4 DEF ReceiveResponse
    <2>6. /\ after \in RpcBase /\ after # None
          /\ after.finish_condition = rpc[c].finish_condition
          /\ after.endpoints = rpc[c].endpoints
          /\ after.flagged = rpc[c].flagged \cup {e}
          /\ after.expired = rpc[c].expired
          /\ Len(after.results) = Len(rpc[c].results) + 1
      <3>1. rpc[c].flagged \cup ({e} \cap rpc[c].endpoints) = rpc[c].flagged \cup {e}
        BY <2>2
      <3>2. after \in RpcBase /\ after # None
        BY <2>1, <2>2, ProcessBufferType
      <3>3. /\ after.finish_condition = rpc[c].finish_condition
            /\ after.endpoints = rpc[c].endpoints
            /\ after.flagged = rpc[c].flagged \cup ({e} \cap rpc[c].endpoints)
            /\ Len(after.results) = Len(rpc[c].results) + 1
        BY <2>1, <2>2, AnsweredFields
      <3>4. after.expired = rpc[c].expired
        BY <2>1, <2>2, AnsweredResults
      <3> HIDE DEF after
      <3> QED
        BY <3>1, <3>2, <3>3, <3>4
    <2>7. Enough(after) <=> need_awaken
      <3>1. ~Enough(rpc[c])
        BY <1>5, <2>1, <2>2 DEF EInv, EndsRight
      <3> HIDE DEF after
      <3> QED
        BY <2>1, <2>6, <3>1, AnswerEnds
    <2> DEFINE answered == rpc[c].flagged \cup {e}
               met == Call!Met(rpc[c].finish_condition, answered, rpc[c].endpoints)
    <2> HIDE DEF after, need_awaken
    <2>8. Enough(after) <=> met
      <3>1. after.flagged \subseteq after.endpoints
            /\ Len(after.results) = Cardinality(after.flagged)
        BY <2>4, <2>6 DEF CInv, Tracked, OwnResults
      <3> QED
        BY <2>2, <2>6, <3>1, EnoughIsMet
    <2>9. /\ waiting_coros'[c] = 0 <=> need_awaken
          /\ \A d \in Coros \ {c} : waiting_coros'[d] = waiting_coros[d]
      BY <1>0, <1>5, <2>5 DEF TakeIf, TypeOK
    <2>10. (Suspended(c) /\ waiting_coros[c] = 0)' <=> met
      <3>1. ~Inserting(c)'
        BY <1>3, <2>1 DEF Inserting
      <3>2. Suspended(c)'
        BY <2>4, <2>6, <3>1 DEF Suspended
      <3> QED
        BY <2>7, <2>8, <2>9, <3>2
    <2>11. met \in BOOLEAN
      BY DEF Call!Met
    <2> DEFINE state == [endpoints |-> rpc[c].endpoints,
                         condition |-> rpc[c].finish_condition,
                         answered  |-> answered,
                         expired   |-> rpc[c].expired,
                         over      |-> met]
    <2>12. Awaited'[c] = state
      <3> DEFINE over == Suspended(c) /\ waiting_coros[c] = 0
      <3>1. over' = met
        BY <2>10, <2>11
      <3>2. rpc'[c] # None
        BY <2>4, <2>6
      <3>3. Awaited'[c] = [endpoints |-> rpc'[c].endpoints,
                           condition |-> rpc'[c].finish_condition,
                           answered  |-> rpc'[c].flagged,
                           expired   |-> rpc'[c].expired,
                           over      |-> over']
        BY <3>2 DEF Awaited
      <3> HIDE DEF over, met
      <3> QED
        BY <2>4, <2>6, <3>1, <3>3
    <2>13. \A d \in Coros \ {c} : Awaited'[d] = Awaited[d]
      <3>1. \A d \in Coros \ {c} : rpc'[d] = rpc[d]
        BY <1>0, <2>4 DEF TypeOK
      <3> QED
        BY <1>3, <2>9, <3>1, OthersSeen
    <2> HIDE DEF met, answered
    <2>14. Awaited' = [Awaited EXCEPT ![c] = state]
      <3> HIDE DEF state
      <3> QED BY <2>12, <2>13, ViewChanged
    <2> DEFINE was == Suspended(c) /\ waiting_coros[c] = 0
    <2>15. Awaited[c] = [endpoints |-> rpc[c].endpoints,
                         condition |-> rpc[c].finish_condition,
                         answered  |-> rpc[c].flagged,
                         expired   |-> rpc[c].expired,
                         over      |-> was]
           /\ Awaited[c] # None /\ Awaited[c].over = was
      BY <1>0, <2>1, OverIs
    <2>16. was = FALSE
      BY <1>5
    <2> HIDE DEF was
    <2>17. /\ Awaited[c].endpoints = rpc[c].endpoints
           /\ Awaited[c].condition = rpc[c].finish_condition
           /\ Awaited[c].answered = rpc[c].flagged
           /\ ~Awaited[c].over
      <3>1. Awaited[c].over = FALSE
        BY <2>15, <2>16
      <3> QED
        BY <2>15, <3>1
    <2>18. Awaited' = [Awaited EXCEPT ![c].answered = answered, ![c].over = met]
      <3>1. [[Awaited[c] EXCEPT !.answered = answered] EXCEPT !.over = met] = state
        <4> DEFINE first == [endpoints |-> rpc[c].endpoints,
                             condition |-> rpc[c].finish_condition,
                             answered  |-> answered,
                             expired   |-> rpc[c].expired,
                             over      |-> was]
        <4>1. [Awaited[c] EXCEPT !.answered = answered] = first
          BY <2>15
        <4>2. [first EXCEPT !.over = met] = state
          OBVIOUS
        <4> HIDE DEF first, state
        <4> QED
          BY <4>1, <4>2
      <3>2. Awaited = [d \in Coros |-> Awaited[d]]
        BY ViewIs
      <3> HIDE DEF state
      <3> QED
        BY <2>14, <3>1, <3>2, TwoFields
    <2>19. Call!Answer(c)
      <3>1. e \in Awaited[c].endpoints \ Awaited[c].answered
        BY <2>2, <2>17
      <3>2. Awaited[c].answered \cup {e} = answered
        BY <2>17 DEF answered
      <3>3. met = Call!Met(Awaited[c].condition, answered, Awaited[c].endpoints)
        BY <2>17 DEF met
      <3> QED
        BY <2>15, <2>17, <2>18, <3>1, <3>2, <3>3 DEF Call!Answer
    <2> QED
      BY <2>19
  <1> QED
    BY <1>2, <1>4, <1>5 DEF ReceiveResponse

(* A time-out that its coroutine waits for, of whatever call, ends the call.  *)
LEMMA TimeOutImplemented ==
  ASSUME IInv, NEW t \in timers, TimeOut(t)
  PROVE  UNCHANGED Awaited \/ \E c \in Coros : Call!TimeOut(c)
  <1>0. TypeOK
    BY DEF IInv
  <1>1. PICK c \in Coros : c = t.coro
    BY <1>0 DEF TypeOK
  <1>2. UNCHANGED worker
    BY DEF TimeOut
  <1>3. CASE UNCHANGED <<rpc, waiting_coros>>
    <2>1. \A d \in Coros : Suspended(d)' <=> Suspended(d)
      BY <1>2, <1>3 DEF Suspended, Inserting
    <2>2. \A d \in Coros : Awaited'[d] = Awaited[d]
      BY <1>3, <2>1, ViewKept
    <2> QED
      BY <2>2, ViewUnchanged
  <1>4. CASE waiting_coros[c] # 0
    <2>1. rpc[c] # None /\ rpc[c] \in RpcBase /\ ~Inserting(c)
      BY <1>0, <1>4, HeldIsSuspended DEF TypeOK
    <2> DEFINE expired == rpc[c].endpoints \ rpc[c].flagged
               after == [rpc[c] EXCEPT !.expired = expired]
    <2>2. rpc' = [rpc EXCEPT ![c] = after] /\ TakeIf(TRUE, c)
      BY <1>0, <1>1, <1>4 DEF TimeOut, TypeOK
    <2>3. /\ after.finish_condition = rpc[c].finish_condition
          /\ after.endpoints = rpc[c].endpoints
          /\ after.flagged = rpc[c].flagged
          /\ after.expired = expired
      BY <2>1 DEF RpcBase
    <2>4. after # None
      <3>1. expired \in SUBSET Servers
        BY <2>1 DEF RpcBase
      <3> HIDE DEF expired
      <3> QED
        BY <2>1, <3>1, ExpiredType
    <2> HIDE DEF after, expired
    <2>5. rpc'[c] = after /\ \A d \in Coros \ {c} : rpc'[d] = rpc[d]
      BY <1>0, <2>2 DEF TypeOK
    <2>6. /\ waiting_coros'[c] = 0
          /\ \A d \in Coros \ {c} : waiting_coros'[d] = waiting_coros[d]
      BY <1>0, <2>2 DEF TakeIf, TypeOK
    <2> DEFINE was == Suspended(c) /\ waiting_coros[c] = 0
               over == TRUE
               state == [endpoints |-> rpc[c].endpoints,
                         condition |-> rpc[c].finish_condition,
                         answered  |-> rpc[c].flagged,
                         expired   |-> expired,
                         over      |-> over]
    <2>7. was' = over
      BY <1>2, <2>1, <2>4, <2>5, <2>6 DEF Suspended, Inserting
    <2> HIDE DEF over
    <2>8. Awaited'[c] = state
      <3>1. Awaited'[c] = [endpoints |-> rpc'[c].endpoints,
                           condition |-> rpc'[c].finish_condition,
                           answered  |-> rpc'[c].flagged,
                           expired   |-> rpc'[c].expired,
                           over      |-> was']
        BY <2>4, <2>5 DEF Awaited
      <3> HIDE DEF was
      <3> QED
        BY <2>3, <2>5, <2>7, <3>1
    <2>9. Awaited' = [Awaited EXCEPT ![c] = state]
      <3>1. \A d \in Coros \ {c} : Awaited'[d] = Awaited[d]
        BY <1>2, <2>5, <2>6, OthersSeen
      <3> HIDE DEF state
      <3> QED BY <2>8, <3>1, ViewChanged
    <2>10. was = FALSE
      BY <1>4
    <2>11. /\ Awaited[c] = [endpoints |-> rpc[c].endpoints,
                            condition |-> rpc[c].finish_condition,
                            answered  |-> rpc[c].flagged,
                            expired   |-> rpc[c].expired,
                            over      |-> was]
           /\ Awaited[c] # None
      BY <1>0, <2>1, OverIs
    <2> HIDE DEF was
    <2>12. Awaited' = [Awaited EXCEPT ![c].expired = expired, ![c].over = over]
      <3> DEFINE first == [endpoints |-> rpc[c].endpoints,
                           condition |-> rpc[c].finish_condition,
                           answered  |-> rpc[c].flagged,
                           expired   |-> expired,
                           over      |-> was]
      <3>1. [Awaited[c] EXCEPT !.expired = expired] = first
        BY <2>11
      <3>2. [first EXCEPT !.over = over] = state
        OBVIOUS
      <3>3. Awaited = [d \in Coros |-> Awaited[d]]
        BY ViewIs
      <3> HIDE DEF first, state
      <3> QED
        BY <2>9, <3>1, <3>2, <3>3, TwoFields
    <2>13. ~Awaited[c].over /\ expired = Awaited[c].endpoints \ Awaited[c].answered
      <3>1. Awaited[c].over = FALSE
        BY <2>10, <2>11
      <3> QED
        BY <2>11, <3>1 DEF expired
    <2> QED
      BY <2>11, <2>12, <2>13 DEF over, Call!TimeOut
  <1> QED
    BY <1>1, <1>3, <1>4 DEF TimeOut

(* To put the entry into the map, to spawn a send_ and to return from         *)
(* await_suspend are nothing RpcCall sees.                                    *)
LEMMA AwaitUnseen ==
  ASSUME IInv, NEW w \in Workers, AwaitGoesOn(w)
  PROVE  UNCHANGED Awaited
  <1>0. TypeOK /\ AwaitsOwn
    BY DEF IInv
  <1>1. worker[w] # None /\ worker[w] \in Awaits /\ rpc' = rpc
    BY <1>0 DEF AwaitGoesOn, Insert, SpawnSend, AwaitSuspendReturns, TypeOK
  <1>2. \A v \in Workers \ {w} : worker'[v] = worker[v]
    BY <1>0 DEF AwaitGoesOn, Insert, SpawnSend, AwaitSuspendReturns, TypeOK
  <1>3. PICK c \in Coros, n \in Calls :
          c = worker[w].body.rpc_id /\ n = worker[w].body.of.n
    BY <1>1 DEF Awaits, Bodies, CallIds
  <1>4. CASE Insert(w)
    <2>1. AboutToInsert(w) /\ worker[w].body.rpc_id = c
      BY <1>3, <1>4 DEF Insert, AboutToInsert
    <2>2. worker[w].body.of.coro = c
      BY <1>0, <2>1 DEF AwaitsOwn
    <2>3. waiting_coros' = [waiting_coros EXCEPT ![c] = IF @ = 0 THEN n ELSE @]
      BY <1>3, <1>4, <2>2 DEF Insert
    <2>4. ~AboutToInsert(w)'
      BY <1>0, <1>1, <1>4 DEF Insert, TypeOK, Awaits, AboutToInsert
    <2>5. ASSUME NEW d \in Coros \ {c} PROVE Awaited'[d] = Awaited[d]
      <3>1. waiting_coros'[d] = waiting_coros[d]
        BY <1>0, <2>3 DEF TypeOK
      <3>2. Inserting(d)' <=> Inserting(d)
        BY <1>2, <2>1, <2>4, InsertingKept
      <3> QED
        BY <1>1, <3>1, <3>2, ViewKept DEF Suspended
    <2>6. Awaited'[c] = Awaited[c]
      <3> DEFINE over == Suspended(c) /\ waiting_coros[c] = 0
      <3>1. over = FALSE
        BY <2>1 DEF Suspended, Inserting, AboutToInsert
      <3>2. over' = FALSE
        BY <1>0, <2>3, RpcAssumption DEF TypeOK, Calls
      <3>3. Awaited[c] = IF rpc[c] = None THEN None
                         ELSE [endpoints |-> rpc[c].endpoints,
                               condition |-> rpc[c].finish_condition,
                               answered  |-> rpc[c].flagged,
                               expired   |-> rpc[c].expired,
                               over      |-> over]
        BY DEF Awaited
      <3>4. Awaited'[c] = IF rpc'[c] = None THEN None
                          ELSE [endpoints |-> rpc'[c].endpoints,
                                condition |-> rpc'[c].finish_condition,
                                answered  |-> rpc'[c].flagged,
                                expired   |-> rpc'[c].expired,
                                over      |-> over']
        BY DEF Awaited
      <3>5. over' = over
        BY <3>1, <3>2
      <3> HIDE DEF over
      <3> QED
        BY <1>1, <3>3, <3>4, <3>5
    <2> QED
      BY <2>5, <2>6, ViewUnchanged
  <1>5. CASE SpawnSend(w) \/ AwaitSuspendReturns(w)
    <2>1. ~AboutToInsert(w)
      BY <1>5 DEF SpawnSend, AwaitSuspendReturns, AboutToInsert
    <2>2. ~AboutToInsert(w)'
      BY <1>0, <1>1, <1>5 DEF SpawnSend, AwaitSuspendReturns, TypeOK, Awaits, AboutToInsert
    <2>3. UNCHANGED waiting_coros
      BY <1>5 DEF SpawnSend, AwaitSuspendReturns
    <2>4. ASSUME NEW d \in Coros PROVE Awaited'[d] = Awaited[d]
      <3>1. Inserting(d)' <=> Inserting(d)
        BY <1>2, <2>1, <2>2, InsertingKept
      <3> QED
        BY <1>1, <2>3, <3>1, ViewKept DEF Suspended
    <2> QED
      BY <2>4, ViewUnchanged
  <1> QED
    BY <1>4, <1>5 DEF AwaitGoesOn

(* Neither are the other steps of the network thread and the servers.         *)
LEMMA OthersUnseen ==
  ASSUME UNCHANGED <<rpc, worker, waiting_coros>>
  PROVE  UNCHANGED Awaited
  <1>1. \A d \in Coros : Suspended(d)' <=> Suspended(d)
    BY DEF Suspended, Inserting
  <1>2. \A d \in Coros : Awaited'[d] = Awaited[d]
    BY <1>1, ViewKept
  <1> QED
    BY <1>2, ViewUnchanged

-----------------------------------------------------------------------------
LEMMA CallInit == Init => Call!Init
  BY DEF Init, Call!Init, Awaited

LEMMA CallStep ==
  IInv /\ EInv /\ CInv /\ IInv' /\ CInv' /\ [Next /\ InTime]_vars
    => [Call!Next]_Awaited
  <1> SUFFICES ASSUME IInv, EInv, CInv, IInv', CInv', [Next /\ InTime]_vars
               PROVE  Call!Next \/ UNCHANGED Awaited
    OBVIOUS
  <1>1. ASSUME Restart PROVE Call!Next
    <2>1. \A c \in Coros : Awaited'[c] = None
      BY <1>1 DEF Restart, Awaited
    <2>2. Awaited' = [c \in Coros |-> None]
      BY <2>1 DEF Awaited
    <2> QED
      BY <2>2 DEF Call!Next, Call!Crash
  <1>2. ASSUME NEW w \in Workers, AwaitGoesOn(w) PROVE UNCHANGED Awaited
    BY <1>2, AwaitUnseen
  <1>3. ASSUME NEW w \in Workers, NEW c \in Coros, AwaitSuspend(w, c)
        PROVE  Call!Next
    BY <1>3, BeginImplemented DEF Call!Next
  <1>4. ASSUME NEW w \in Workers, NEW c \in Coros, AwaitResume(w, c)
        PROVE  Call!Next
    BY <1>4, ReturnImplemented DEF Call!Next
  <1>5. ASSUME InTime, NEW m \in messages, ReceiveResponse(m)
        PROVE  Call!Next \/ UNCHANGED Awaited
    BY <1>5, AnswerImplemented DEF Call!Next, InTime, AnswersInTime
  <1>6. ASSUME NEW t \in timers, TimeOut(t)
        PROVE  Call!Next \/ UNCHANGED Awaited
    BY <1>6, TimeOutImplemented DEF Call!Next
  <1>7. ASSUME \/ \E s \in sends : SendRequest(s)
               \/ \E m \in messages : ReceiveRequest(m)
               \/ \E t \in tasks : SendResponse(t)
               \/ CommitTaken \/ StopNet \/ Rest \/ UNCHANGED vars
        PROVE  UNCHANGED Awaited
    <2>1. UNCHANGED <<rpc, worker, waiting_coros>>
      BY <1>7 DEF SendRequest, ReceiveRequest, SendResponse, CommitTaken, StopNet,
                  Rest, vars
    <2> QED
      BY <2>1, OthersUnseen
  <1> QED
    BY <1>1, <1>2, <1>3, <1>4, <1>5, <1>6, <1>7 DEF Next

(* co_rpc keeps the promise of RpcCall, whatever the coroutine called before  *)
(* and however often the process starts anew, as long as nothing comes too    *)
(* late: await_suspend begins a call, a response enters an answer of an       *)
(* endpoint that has not answered and ends the call as soon as the finish     *)
(* condition is met, timeout_, also that of an earlier call, ends it with     *)
(* RPC_TIMEOUT for the endpoints that have not, await_resume returns from it, *)
(* and nothing else that any thread or server does can be seen of it.         *)
THEOREM KeepsPromise == InTimeSpec => RefinesCall
  <1>1. Init => Call!Init
    BY CallInit
  <1>2. IInv /\ EInv /\ CInv /\ IInv' /\ CInv' /\ [Next /\ InTime]_vars
          => [Call!Next]_Awaited
    BY CallStep
  <1> QED
    BY <1>1, <1>2, InTimeIsSpec, IInvAlways, EInvAlways, TracksAlways, PTL
    DEF InTimeSpec, RefinesCall, Call!Spec

-----------------------------------------------------------------------------
(* What carries the id of a coroutine belongs to the call that it is in.      *)
NoneLeft ==
  \A body \in Pending : rpc[body.rpc_id] # None => body.of = CallOf(body.rpc_id)

(* A clean start keeps it so: what a call leaves behind meets no other call.  *)
LEMMA NoneLeftStep ==
  IInv /\ NoneLeft /\ [Next /\ CleanStart /\ ConnectsInTime]_vars => NoneLeft'
  <1> SUFFICES ASSUME IInv, NoneLeft, [Next /\ CleanStart /\ ConnectsInTime]_vars
               PROVE  NoneLeft'
    OBVIOUS
  <1>0. TypeOK /\ \A body \in Pending : body.rpc_id \in Coros
    BY PendingType DEF IInv, Bodies
  <1>1. CASE UNCHANGED vars
    BY <1>1 DEF vars, NoneLeft, Pending, CallOf, SendBuffer
  <1>2. ASSUME Next, CleanStart, ConnectsInTime PROVE NoneLeft'
    <2>1. ASSUME NEW w \in Workers, NEW c \in Coros, AwaitSuspend(w, c),
                 Pending' \subseteq Pending \cup {worker'[w].body}
          PROVE  NoneLeft'
      <3>1. \A body \in Pending : body.rpc_id # c
        BY <1>2, <2>1 DEF CleanStart
      <3>2. PICK endpoints \in Targets, condition \in Conditions, function \in Functions :
              /\ rpc' = [rpc EXCEPT ![c] = NewRpc(calls'[c], endpoints, condition, function)]
              /\ worker' = [worker EXCEPT ![w] =
                   [pc |-> "insert", left |-> endpoints,
                    body |-> [rpc_id |-> c, rpc_type |-> function,
                              of |-> [epoch |-> epoch, coro |-> c, n |-> calls'[c]]]]]
        BY <2>1 DEF AwaitSuspend
      <3>3. epoch' = epoch /\ \A d \in Coros \ {c} : rpc'[d] = rpc[d]
        BY <1>0, <2>1, <3>2 DEF AwaitSuspend, TypeOK
      <3>4. rpc'[c].n = calls'[c]
        BY <1>0, <3>2 DEF TypeOK, NewRpc
      <3>5. /\ worker'[w].body.rpc_id = c
            /\ worker'[w].body.of = [epoch |-> epoch, coro |-> c, n |-> calls'[c]]
        BY <1>0, <3>2 DEF TypeOK
      <3>6. worker'[w].body.of = CallOf(c)'
        BY <3>3, <3>4, <3>5 DEF CallOf, SendBuffer
      <3>7. ASSUME NEW d \in Coros \ {c} PROVE CallOf(d)' = CallOf(d)
        BY <3>3 DEF CallOf, SendBuffer
      <3>8. ASSUME NEW body \in Pending, rpc'[body.rpc_id] # None
            PROVE  body.of = CallOf(body.rpc_id)'
        BY <1>0, <3>1, <3>3, <3>7, <3>8 DEF NoneLeft
      <3> QED
        BY <2>1, <3>5, <3>6, <3>8 DEF NoneLeft
    <2>2. CASE Restart /\ Pending' \subseteq Pending
      BY <1>0, <2>2 DEF Restart, NoneLeft
    <2>3. CASE NoneBegins /\ Pending' \subseteq Pending
      <3>1. ASSUME NEW c \in Coros, rpc'[c] # None
            PROVE  rpc[c] # None /\ CallOf(c)' = CallOf(c)
        BY <2>3, <3>1 DEF NoneBegins, CallOf, SendBuffer
      <3>2. ASSUME NEW body \in Pending, rpc'[body.rpc_id] # None
            PROVE  body.of = CallOf(body.rpc_id)'
        BY <1>0, <3>1, <3>2 DEF NoneLeft
      <3> QED
        BY <2>3, <3>2 DEF NoneLeft
    <2> QED
      BY <1>2, <2>1, <2>2, <2>3, PendingStep
  <1> QED
    BY <1>1, <1>2

(* A response that is waited for is then an answer of the call that waits.    *)
LEMMA CleanIsInTime ==
  IInv /\ NoneLeft /\ [Next /\ CleanStart /\ ConnectsInTime]_vars
    => [Next /\ InTime]_vars
  <1>1. ASSUME IInv, NoneLeft, NEW m \in messages, waiting_coros[m.body.rpc_id] # 0
        PROVE  Alive(m.body.of)
    <2>1. m.body \in Pending
      BY DEF Pending
    <2>2. m.body.rpc_id \in Coros
      BY <1>1 DEF IInv, TypeOK, Bodies
    <2>3. rpc[m.body.rpc_id] # None
      BY <1>1, <2>2 DEF IInv, CallbackAlive
    <2>4. m.body.of = CallOf(m.body.rpc_id)
      BY <1>1, <2>1, <2>3 DEF NoneLeft
    <2> QED
      BY <2>3, <2>4 DEF Alive, CallOf, SendBuffer
  <1> QED
    BY <1>1 DEF InTime, AnswersInTime

LEMMA CleanSpecIsInTime == CleanSpec => InTimeSpec
  <1>1. [Next /\ CleanStart /\ ConnectsInTime]_vars => [Next]_vars
    OBVIOUS
  <1>2. CleanSpec => Spec
    BY <1>1, PTL DEF CleanSpec, Spec
  <1>3. Init => NoneLeft
    BY DEF Init, NoneLeft, Pending
  <1> QED
    BY <1>2, <1>3, NoneLeftStep, CleanIsInTime, IInvAlways, PTL DEF CleanSpec, InTimeSpec

(* Where each coroutine makes one call, the process does not start anew and   *)
(* connections are made while their calls go on, every start is clean.        *)
LEMMA OneCallIsClean ==
  ASSUME MaxCalls = 1, MaxRestarts = 0, LateWrite = FALSE
  PROVE  Spec => CleanSpec
  <1>1. IInv /\ Begun => CleanStart /\ ConnectsInTime
    <2> SUFFICES ASSUME IInv, Begun PROVE CleanStart /\ ConnectsInTime
      OBVIOUS
    <2>1. ASSUME NEW w \in Workers, NEW c \in Coros, AwaitSuspend(w, c),
                 NEW body \in Pending
          PROVE  body.rpc_id # c
      <3>1. calls[c] = 0 /\ epoch = 0
        BY <2>1 DEF AwaitSuspend, IInv, TypeOK
      <3>2. /\ body.of.n \in Calls /\ body.of.epoch \in Nat
            /\ body.rpc_id = body.of.coro /\ Issued(body.of)
        BY PendingType DEF IInv, Bodies, CallIds, Begun
      <3> QED
        BY <3>1, <3>2 DEF Issued, Calls
    <2>2. ASSUME NEW s \in sends, SendRequest(s) PROVE Alive(s.body.of)
      BY <2>2 DEF SendRequest
    <2> QED
      BY <2>1, <2>2 DEF CleanStart, ConnectsInTime
  <1> QED
    BY <1>1, IInvAlways, BegunAlways, PTL DEF Spec, CleanSpec

(* The results of a remote call are answers to this call, of endpoints it was *)
(* sent to and one from each, however requests and responses overtake each    *)
(* other or get lost, whatever its coroutine called before and however often  *)
(* the process starts anew: the id of the coroutine is enough for receive to  *)
(* find the call as long as a coroutine does not call again before everything *)
(* of its earlier calls is gone, and connects in time.                        *)
THEOREM OwnAnswersOnly == CleanSpec => []OwnAnswers
  <1>1. IInv /\ CInv => OwnAnswers
    <2> SUFFICES ASSUME IInv, CInv, NEW c \in Coros, rpc[c] # None,
                        NEW i \in DOMAIN rpc[c].results
                 PROVE  LET results == rpc[c].results
                        IN  /\ results[i].of = [epoch |-> epoch, coro |-> c, n |-> rpc[c].n]
                            /\ results[i].from \in rpc[c].endpoints
                            /\ \A j \in DOMAIN results :
                                 results[j].from = results[i].from => i = j
      BY DEF OwnAnswers
    <2>1. OwnResults(c)
      BY DEF CInv, Tracked
    <2>2. CallOf(c) = [epoch |-> epoch, coro |-> c, n |-> rpc[c].n]
      BY DEF CallOf, SendBuffer
    <2> QED
      BY <2>1, <2>2 DEF OwnResults
  <1> QED
    BY <1>1, CleanSpecIsInTime, InTimeIsSpec, IInvAlways, TracksAlways, PTL
=============================================================================
