------------------------------- MODULE RpcCall -------------------------------
(* What a remote call promises to the coroutine that awaits it: it is sent to *)
(* a set of endpoints and ends once, as soon as the answers it has received,  *)
(* at most one from each of these endpoints, meet its finish condition, or    *)
(* else with RPC_TIMEOUT for every endpoint that has not answered.            *)
EXTENDS Naturals, FiniteSets

CONSTANTS Coros, Servers, NoCall

VARIABLE call   \* per coroutine: the call it awaits

FinishConditions == {"WHEN_ANY", "WHEN_ALL", "WHEN_MAJORITY"}

Met(condition, answered, endpoints) ==
  \/ condition = "WHEN_ANY" /\ answered # {}
  \/ condition = "WHEN_ALL" /\ answered = endpoints
  \/ /\ condition = "WHEN_MAJORITY"
     /\ Cardinality(answered) > Cardinality(endpoints \ answered)

(* What is known of a call; NoCall is none of these. *)
CallStates == [endpoints : SUBSET Servers, condition : FinishConditions,
               answered : SUBSET Servers, expired : SUBSET Servers, over : BOOLEAN]

Init == call = [c \in Coros |-> NoCall]

Begin(c) ==
  /\ call[c] = NoCall
  /\ \E endpoints \in SUBSET Servers, condition \in FinishConditions :
       call' = [call EXCEPT ![c] =
                  [endpoints |-> endpoints, condition |-> condition,
                   answered |-> {}, expired |-> {}, over |-> FALSE]]

Answer(c) ==
  /\ call[c] # NoCall
  /\ ~call[c].over
  /\ \E e \in call[c].endpoints \ call[c].answered :
       LET answered == call[c].answered \cup {e}
       IN  call' = [call EXCEPT
                      ![c].answered = answered,
                      ![c].over = Met(call[c].condition, answered,
                                     call[c].endpoints)]

TimeOut(c) ==
  /\ call[c] # NoCall
  /\ ~call[c].over
  /\ call' = [call EXCEPT ![c].expired = call[c].endpoints \ call[c].answered,
                          ![c].over = TRUE]

Return(c) ==
  /\ call[c] # NoCall
  /\ call[c].over
  /\ call' = [call EXCEPT ![c] = NoCall]

(* The calling process ends, and its calls with it. *)
Crash == call' = [c \in Coros |-> NoCall]

Next ==
  \/ \E c \in Coros : Begin(c) \/ Answer(c) \/ TimeOut(c) \/ Return(c)
  \/ Crash

Spec == Init /\ [][Next]_call
==============================================================================
