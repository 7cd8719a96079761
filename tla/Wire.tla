-------------------------------- MODULE Wire --------------------------------
(* One RPC as bytes: RpcBase::with_args and await_suspend build the request  *)
(* (async_action.ipp), NetService::send_ and receive carry it piece by piece *)
(* (net_service.cpp), reflect_commit_function reads the arguments            *)
(* (rpc_mapper.cpp), the final suspension and prepare_buffer build the       *)
(* response (task.ipp, task.cpp) and process_buffer_cb reads the result.     *)
(* Which call a response belongs to, and when it comes, is module Rpc's.     *)
EXTENDS Serialization, Integers, Sequences

CONSTANTS
  Calls,      \* per function id: records of params, args, ret and result, the
              \* types of the function and the values it gets and returns
  ClientPort, ServerPort,  \* the ports the two processes listen on
  CoroId      \* the coro_id_ of the calling coroutine

VARIABLES
  id,         \* the function that is called
  phase,      \* how far it has come
  stream,     \* what the connection still has to deliver
  data,       \* data: the bytes of the header received so far
  payload,    \* the received part of received_buffer
  header,     \* the header as it was read
  arguments,  \* what the function was called with
  result,     \* what the caller got
  failure     \* the first assertion that failed, or an exception that ends
              \* the process

wireVars == <<id, phase, stream, data, payload, header, arguments, result, failure>>

LOCAL_BUFFER_SIZE == 1024
BUFFER_SIZE == 128
MAGIC_NUMBER == 12345
REQUEST == 1
RESPONSE == 2

(* PackageHeader, in the order of its STATIC_REFLECT *)
HeaderFields == <<"version", "reserved", "server_port", "flags", "rpc_id",
                  "restart", "rpc_type", "payload_len", "checksum">>
PackageHeader ==
  Struct(<<Number(2), Number(2), Number(2), Number(2), Number(8),
           Number(2), Number(2), Number(8), Number(4)>>)
HeaderOf(type, rpc_id, rpc_type, port, payload_len) ==
  <<1, 0, port, type, rpc_id, 1, rpc_type, payload_len, MAGIC_NUMBER>>
Field(h, name) == h[CHOOSE i \in DOMAIN HeaderFields : HeaderFields[i] = name]
HeaderSize == SizeOf(PackageHeader, HeaderOf(0, 0, 0, 0, 0))

WireInit ==
  /\ id = 0
  /\ phase = "idle"
  /\ stream = <<>> /\ data = <<>> /\ payload = <<>>
  /\ header = <<>> /\ arguments = <<>> /\ result = <<>>
  /\ failure = "none"

-----------------------------------------------------------------------------
(* A message: NetBuffer of the size that get_serialize_size computes for the *)
(* header and the payload, and what is serialized into it.                   *)
Body(Ts, parts) == Serialize(Struct(Ts), parts)
PayloadSize(Ts, parts) == SizeOf(Struct(Ts), parts)
Overflows(Ts, parts) == ~Fits(PayloadSize(Ts, parts), Body(Ts, parts))

(* What serialize leaves of the buffer is sent as it was allocated. *)
Unwritten == <<Garbage, 0>>
Padded(bytes, len) ==
  bytes \o [i \in 1..(len - Len(bytes)) |-> Unwritten]
Message(h, Ts, parts) ==
  Serialize(PackageHeader, h) \o Padded(Body(Ts, parts), PayloadSize(Ts, parts))

(* The header of the request that await_suspend writes, and of its response. *)
RequestHeader(f) ==
  HeaderOf(REQUEST, CoroId, f, ClientPort,
           PayloadSize(Calls[f].params, Calls[f].args))
ResponseHeader(f) ==
  HeaderOf(RESPONSE, CoroId, f, ServerPort,
           PayloadSize(<<Calls[f].ret>>, <<Calls[f].result>>))

(* The types of Serialization are those of the messages, its values what is   *)
(* serialized into them.  process_buffer_cb calls a deserialize of the result *)
(* that an Expected does not have: a function that returns one, other than in *)
(* a struct, cannot be called with co_rpc.                                    *)
ASSUME WireAssumption ==
  /\ <<PackageHeader, HeaderOf(0, 0, 0, 0, 0)>> \in Values
  /\ \A f \in DOMAIN Calls :
       /\ <<Struct(Calls[f].params), Calls[f].args>> \in Values
       /\ <<Struct(<<Calls[f].ret>>), <<Calls[f].result>> >> \in Values
       /\ Calls[f].ret.kind # "expected"
       /\ <<PackageHeader, RequestHeader(f)>> \in Values
       /\ <<PackageHeader, ResponseHeader(f)>> \in Values

Connect(message) ==
  /\ stream' = message
  /\ data' = <<>> /\ payload' = <<>> /\ header' = <<>>

(* An exception leaves a coroutine body through unhandled_exception, which   *)
(* aborts, and the final suspension, which is noexcept, through terminate.   *)
Stop(reason) ==
  /\ failure' = reason
  /\ phase' = "stopped"
  /\ UNCHANGED <<stream, data, payload, header>>

SendRequest(func_id) ==
  /\ phase = "idle"
  /\ id' = func_id
  /\ LET c == Calls[func_id]
         size == PayloadSize(c.params, c.args)
     IN CASE HeaderSize + size > LOCAL_BUFFER_SIZE -> Stop("local buffer")
          [] HeaderSize + size <= LOCAL_BUFFER_SIZE
             /\ Overflows(c.params, c.args) -> Stop("exception")
          [] HeaderSize + size <= LOCAL_BUFFER_SIZE
             /\ Len(Body(c.params, c.args)) < size -> Stop("size of arguments")
          [] OTHER ->
               /\ Connect(Message(RequestHeader(func_id), c.params, c.args))
               /\ phase' = "request"
               /\ UNCHANGED failure
  /\ UNCHANGED <<arguments, result>>

-----------------------------------------------------------------------------
(* receive: async_read_some delivers any piece of what it is asked for. *)
Receiving == phase \in {"request", "response"}

Pieces(wanted) == 1..(IF wanted < Len(stream) THEN wanted ELSE Len(stream))

\* Mutant: read_idx does not count.
ReadHeader_FromStart(n) ==
  /\ Receiving
  /\ header = <<>>
  /\ n \in Pieces(HeaderSize)
  /\ LET received == data \o SubSeq(stream, 1, n)
     IN  /\ data' = received
         /\ header' = IF Len(received) < HeaderSize THEN <<>>
                      ELSE Deserialize(PackageHeader, received).val
  /\ stream' = SubSeq(stream, n + 1, Len(stream))
  /\ UNCHANGED <<id, phase, payload, arguments, result, failure>>

ReadHeader(n) ==
  /\ Receiving
  /\ header = <<>>
  /\ n \in Pieces(HeaderSize - Len(data))
  /\ LET received == data \o SubSeq(stream, 1, n)
     IN  /\ data' = received
         /\ header' = IF Len(received) < HeaderSize THEN <<>>
                      ELSE Deserialize(PackageHeader, received).val
  /\ stream' = SubSeq(stream, n + 1, Len(stream))
  /\ UNCHANGED <<id, phase, payload, arguments, result, failure>>

\* Mutant: read_idx is not reset.
PayloadMissing_NoReset ==
  header # <<>> /\ Len(data) + Len(payload) < Field(header, "payload_len")

PayloadMissing ==
  header # <<>> /\ Len(payload) < Field(header, "payload_len")

ReadPayload(n) ==
  /\ Receiving
  /\ PayloadMissing
  /\ n \in Pieces(Field(header, "payload_len") - Len(payload))
  /\ payload' = payload \o SubSeq(stream, 1, n)
  /\ stream' = SubSeq(stream, n + 1, Len(stream))
  /\ UNCHANGED <<id, phase, data, header, arguments, result, failure>>

(* The message is there: it is handled, and the assertion about its size     *)
(* comes afterwards.                                                         *)
Complete == header # <<>> /\ ~PayloadMissing
Asserted == IF Field(header, "payload_len") > BUFFER_SIZE - HeaderSize
            THEN "payload_len" ELSE failure

HandleRequest ==
  /\ phase = "request"
  /\ Complete
  /\ Field(header, "flags") = REQUEST
  /\ LET f == Calls[Field(header, "rpc_type")]
         r == Deserialize(Struct(f.params), payload)
     IN  /\ arguments' = r.val
         /\ phase' = IF r.ok THEN "running" ELSE "lost"
         /\ failure' = IF r.ok THEN Asserted ELSE failure
  /\ UNCHANGED <<id, stream, data, payload, header, result>>

(* The final suspension of the function. *)
SendResponse ==
  /\ phase = "running"
  /\ LET ret == <<Calls[id].ret>>
         value == <<Calls[id].result>>
         h == HeaderOf(RESPONSE, Field(header, "rpc_id"), Field(header, "rpc_type"),
                       ServerPort, PayloadSize(ret, value))
     IN  IF Overflows(ret, value) THEN Stop("exception")
         ELSE Connect(Message(h, ret, value)) /\ phase' = "response"
              /\ UNCHANGED failure
  /\ UNCHANGED <<id, arguments, result>>

\* Mutant: the wrong one of the two buffers.
HandleResponse_OfHeader ==
  /\ phase = "response"
  /\ Complete
  /\ result' = <<Deserialize(Calls[id].ret, data).val>>
  /\ phase' = "answered"
  /\ UNCHANGED <<id, stream, data, payload, header, arguments, failure>>

HandleResponse ==
  /\ phase = "response"
  /\ Complete
  /\ Field(header, "flags") = RESPONSE
  /\ LET r == Deserialize(Calls[id].ret, payload)
         found == Field(header, "rpc_id") = CoroId
     IN  /\ result' = IF found THEN <<r.val>> ELSE result
         /\ phase' = IF r.ok /\ found THEN "answered" ELSE "lost"
         /\ failure' = IF found => r.ok THEN Asserted ELSE failure
  /\ UNCHANGED <<id, stream, data, payload, header, arguments>>

(* async_read_some throws: the connection is closed, nothing is handled. *)
ConnectionLost ==
  /\ Receiving
  /\ ~Complete
  /\ phase' = "lost"
  /\ UNCHANGED <<id, stream, data, payload, header, arguments, result, failure>>

Receive ==
  \/ \E n \in 1..HeaderSize : ReadHeader(n)
  \/ \E n \in 1..Len(stream) : ReadPayload(n)
  \/ HandleRequest \/ HandleResponse

WireNext ==
  \/ \E f \in DOMAIN Calls : SendRequest(f)
  \/ Receive \/ SendResponse \/ ConnectionLost

WireSpec == WireInit /\ [][WireNext]_wireVars
-----------------------------------------------------------------------------
Phase == {"idle", "request", "running", "response", "answered", "lost",
          "stopped"}

WireTypeOK ==
  /\ id \in {0} \cup DOMAIN Calls
  /\ phase \in Phase
  /\ stream \in Bytes /\ data \in Bytes /\ payload \in Bytes
  /\ Len(data) <= HeaderSize
  /\ header = <<>> \/ DOMAIN header = DOMAIN HeaderFields
  /\ failure \in {"none", "local buffer", "exception", "size of arguments",
                  "payload_len"}

(* What has arrived is what was sent, unless an Expected with an error was. *)
Arrived(T, value, received) == HoldsError[<<T, value>>] \/ received = value

(* deserialize reads back what serialize wrote, in the types of the two ends  *)
(* and whatever of the buffer is left unwritten: the headers of a call and,   *)
(* unless serialize throws, its arguments and its result.  One with an error  *)
(* in it is read to its end, but not as what it was.                          *)
ReadsBack(T, bytes, value) ==
  LET r == Deserialize(T, bytes) IN r.ok /\ Arrived(T, value, r.val)
MessagesReadBack(f) ==
  LET c == Calls[f]
      ret == <<c.ret>>
      value == <<c.result>>
  IN  /\ \A h \in {RequestHeader(f), ResponseHeader(f)} :
           ReadsBack(PackageHeader, Serialize(PackageHeader, h), h)
      /\ ~Overflows(c.params, c.args) =>
           ReadsBack(Struct(c.params),
                     Padded(Body(c.params, c.args), PayloadSize(c.params, c.args)),
                     c.args)
      /\ ~Overflows(ret, value) =>
           ReadsBack(c.ret, Padded(Body(ret, value), PayloadSize(ret, value)),
                     c.result)
RoundTrip == id # 0 => MessagesReadBack(id)

(* get_serialize_size, serialize and the two ends of a connection agree on   *)
(* every length: no "which should not happen" exception, none of the         *)
(* assertions in with_args and receive fails.                                *)
SizesAgree == failure = "none"

(* receive stops reading exactly when everything that was sent has come,     *)
(* whatever the pieces: it neither leaves bytes behind nor waits for bytes   *)
(* that nobody sends, for a message without payload either.                  *)
WholeMessage ==
  Receiving =>
    /\ Complete <=> stream = <<>>
    /\ Complete => Len(payload) = Field(header, "payload_len")

(* The function is called with the caller's arguments, unless there is an    *)
(* Expected with an error among them, and can answer: its header names the   *)
(* caller's coroutine, port and the function.                                *)
RequestIntact ==
  phase = "running" =>
    /\ Arrived(Struct(Calls[id].params), Calls[id].args, arguments)
    /\ header = RequestHeader(id)

(* The caller gets what the function returned, unless that holds an Expected  *)
(* with an error.                                                             *)
ResultIntact ==
  phase = "answered" =>
    /\ Len(result) = 1
    /\ Arrived(Calls[id].ret, Calls[id].result, result[1])
=============================================================================
