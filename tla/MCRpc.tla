-------------------------------- MODULE MCRpc --------------------------------
(* Rpc between processes on two hosts: the caller shares its host with one    *)
(* server, and two servers on different hosts share a port number.            *)
EXTENDS Rpc, TLC

Caller == [ip |-> "a", port |-> 1]
Local  == [ip |-> "a", port |-> 2]
Remote == [ip |-> "b", port |-> 2]
Third  == [ip |-> "b", port |-> 1]
Port0  == 0

Two    == {Local, Remote}
Three  == {Local, Remote, Third}
Pairs  == {{Local, Remote}}
Lists  == {{Remote}, {Local, Remote}}
Singles == {{Remote}}
PairOrOther == {{Local}, {Remote, Third}}
AllConditions == {"WHEN_ANY", "WHEN_ALL", "WHEN_MAJORITY"}
AllOnly == {"WHEN_ALL"}
Symmetry == Permutations(Coros)
==============================================================================
