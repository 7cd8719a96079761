--------------------------- MODULE MCTimeService ---------------------------
(* TimeService with one coroutine in a prompt system, which sleeps for less   *)
(* and for more than a revolution of the wheel, with coroutines of one        *)
(* duration while the threads run at any speed, or with coroutines of several *)
(* durations.                                                                 *)
EXTENDS TimeService

CONSTANTS f1, f2, f3

Alone == [sleepers |-> {f1}, sleepTimes |-> {1, 2, 3, 5, 6, 9, 17}, until |-> 40,
          prompt |-> TRUE, mayStop |-> FALSE]
Racing == [sleepers |-> {f1, f2}, sleepTimes |-> {3}, until |-> 7,
           prompt |-> FALSE, mayStop |-> TRUE]

(* Registrations after the final scan. *)
Stopping == {[Racing EXCEPT !.until = 12]}

(* Two durations in one bucket. *)
Mixed == {[sleepers |-> {f1, f2, f3}, sleepTimes |-> {2, 10}, until |-> 20,
           prompt |-> TRUE, mayStop |-> FALSE]}

(* Any durations of coroutines that sleep at the same time, shorter and        *)
(* longer than a revolution.                                                  *)
Together == [sleepers |-> {f1, f2, f3}, sleepTimes |-> {3, 10}, until |-> 13,
             prompt |-> TRUE, mayStop |-> FALSE]

AnySpeed == {Alone, Racing, Together}
=============================================================================
