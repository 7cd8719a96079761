------------------------------- MODULE MCData -------------------------------
(* The parts of the program that work on data of their own, side by side: a   *)
(* CoroutineQueue, the message of a remote call, a log statement.  Every      *)
(* behaviour is one of one of them.                                           *)
EXTENDS CoroutineQueue, Wire, Serialization, Stringification

-----------------------------------------------------------------------------
(* Wire: calls whose arguments and results have every kind of type; what an   *)
(* Expected holds here takes as many bytes as an error.                       *)
Point == Struct(<<Int64, Int64>>)
Person == Struct(<<Text, Int32>>)
MCCalls == <<
  [params |-> <<Int64, Int64>>, args |-> <<1, 2>>,
   ret |-> Int64, result |-> 3],
  [params |-> <<>>, args |-> <<>>, ret |-> Int64, result |-> 7],
  [params |-> <<Point, Point>>, args |-> << <<1, 1>>, <<2, 2>> >>,
   ret |-> Point, result |-> <<3, 3>>],
  [params |-> <<RangeOf(Person), PointerTo(Int64)>>,
   args |-> << << <<<<97, 98>>, 30>>, <<<<>>, 31>> >>, <<5>> >>,
   ret |-> Text, result |-> <<120, 121>>],
  [params |-> <<PointerTo(Text), RangeOf(RangeOf(Bool))>>,
   args |-> << <<>>, << <<1, 0>>, <<>> >> >>,
   ret |-> RangeOf(PointerTo(Int32)), result |-> << <<>>, <<4>> >>],
  [params |-> <<Expect(Int32), Bool>>, args |-> << <<TRUE, 8>>, 1>>,
   ret |-> Struct(<<Expect(Int64), Int32>>), result |-> << <<FALSE, 9>>, 6>>] >>

(* A function that returns an Expected with a value of eight bytes, in a      *)
(* struct.                                                                    *)
ExpectedCalls == <<
  [params |-> <<Int64>>, args |-> <<1>>,
   ret |-> Struct(<<Expect(Int64)>>), result |-> << <<TRUE, 2>> >>] >>

-----------------------------------------------------------------------------
(* Serialization: the types and values of these calls and of their headers,   *)
(* and the parts of these.                                                    *)
MCHeaders ==
  {HeaderOf(0, 0, 0, 0, 0)}
    \cup {HeaderOf(message[1], CoroId, f, message[2], payload_len) :
            message \in {<<REQUEST, ClientPort>>, <<RESPONSE, ServerPort>>},
            f \in DOMAIN Calls, payload_len \in 0..BUFFER_SIZE}
MCMessages ==
  {<<Struct(Calls[f].params), Calls[f].args>> : f \in DOMAIN Calls}
    \cup {<<Struct(<<Calls[f].ret>>), <<Calls[f].result>> >> : f \in DOMAIN Calls}
MCValues ==
  LET with(S) == S \cup UNION {Parts(x[1], x[2]) : x \in S}
  IN  with({<<PackageHeader, h>> : h \in MCHeaders})
        \cup with(with(with(with(MCMessages))))
MCTypes ==
  LET with(S) == S \cup UNION {Inner(T) : T \in S}
  IN  with({PackageHeader}) \cup with(with(with(with({x[1] : x \in MCMessages}))))
MCDepth[T \in MCTypes] ==
  LET parts == {0} \cup {1 + MCDepth[U] : U \in Inner(T)}
  IN  CHOOSE n \in parts : \A k \in parts : k <= n

-----------------------------------------------------------------------------
(* Stringification: a string, an endpoint, lists, a pointer and structs, in   *)
(* buffers of every size from none to more than enough.                       *)
Str(c) == Plain(<<c, c>>)
Peer == Custom(<<"1", ".", "2">>)
Pair == Members(<< <<"a">>, <<"b">> >>, <<Str("x"), Peer>>)
Args == {
  <<Str("s"), Peer>>,
  <<List(<<Str("1"), Peer>>), Str("t")>>,
  <<List([i \in 1..9 |-> Str("1")])>>,
  <<Pointer(<<"0", ":">>, List(<<>>)), List([i \in 1..8 |-> Str("8")])>>,
  <<Pair, Str("u"), Pair>>,
  <<List(<<Pair, Pair>>),
    Members(<< <<"k">>, <<"l">> >>, <<Members(<<>>, <<>>), Pair>>)>> }
MCLoggable ==
  LET with(S) == S \cup UNION {{Inside(v)[i] : i \in DOMAIN Inside(v)} : v \in S}
  IN  with(with(with(UNION {{args[i] : i \in DOMAIN args} : args \in Args})))
MCNesting[v \in MCLoggable] ==
  LET inside == {0} \cup {1 + MCNesting[Inside(v)[i]] : i \in DOMAIN Inside(v)}
  IN  CHOOSE n \in inside : \A k \in inside : k <= n
MCChars == STRING
Cut == {args \in Args : \A i \in DOMAIN args : ~HasStruct[args[i]]}
MCStatements == [args : Cut, len : 0..40] \cup [args : Args, len : {100, 1024}]

-----------------------------------------------------------------------------
VARIABLE part

AllInit ==
  /\ part \in {"queue", "wire", "log"}
  /\ Init /\ WireInit /\ LogInit

AllNext ==
  /\ \/ part = "queue" /\ Next /\ UNCHANGED <<wireVars, logVars>>
     \/ part = "wire" /\ WireNext /\ UNCHANGED <<vars, logVars>>
     \/ part = "log" /\ LogNext /\ UNCHANGED <<vars, wireVars>>
  /\ UNCHANGED part

AllSpec == AllInit /\ [][AllNext]_<<vars, wireVars, logVars, part>>
=============================================================================
