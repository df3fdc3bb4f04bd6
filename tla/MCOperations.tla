---------------------------- MODULE MCOperations ----------------------------
(* The programs that TLC checks, one for each way that services meet.      *)
EXTENDS Operations

(* A program that uses nothing.                                            *)
Plain ==
  [jobs |-> <<>>, store |-> FALSE, ttl |-> FALSE, fails |-> FALSE, stops |-> FALSE,
   callers |-> {}, session |-> "s", quota |-> [hour |-> 0, day |-> 0],
   reregisters |-> FALSE, payer |-> Nobody, cost |-> 0, budget |-> 0,
   alert |-> [percent |-> FALSE, at |-> 1], subs |-> <<>>, capacity |-> 1,
   crashes |-> 0, maxTime |-> 0, maxCalls |-> 0]

(* Callers share a session that expires, over a disk that fills up and a   *)
(* process that dies.                                                      *)
Stored == [Plain EXCEPT !.store = TRUE, !.ttl = TRUE, !.fails = TRUE,
                        !.callers = {Nobody}, !.crashes = 1, !.maxCalls = 2]

(* A job with an interval and one with a calendar, one session.            *)
EveryHour == [interval |-> 1, times |-> {}, session |-> "s", retries |-> 1]
Daily == [interval |-> 0, times |-> {2}, session |-> Nobody, retries |-> 0]
Scheduled == [Plain EXCEPT !.jobs = ("j" :> EveryHour @@ "k" :> Daily),
                           !.fails = TRUE, !.stops = TRUE, !.maxTime = 2]
StoredJob == [Plain EXCEPT !.jobs = ("j" :> EveryHour), !.store = TRUE, !.maxTime = 2]

(* A tenant with both quotas, who may be registered again.                 *)
Limited == [Plain EXCEPT !.callers = {"acme"}, !.quota = [hour |-> 1, day |-> 2],
                         !.reregisters = TRUE, !.maxTime = 3, !.maxCalls = 4]

(* A tenant whose runs are paid for and saved.                             *)
Paid(percent) ==
  [Plain EXCEPT !.callers = {"acme"}, !.payer = "acme", !.cost = 2, !.budget = 4,
                !.alert = [percent |-> percent, at |-> IF percent THEN 100 ELSE 3],
                !.maxTime = 2, !.maxCalls = 3]

(* Two subscribers of a topic, one of them twice.                          *)
Subscribed == [Plain EXCEPT !.subs = <<"a", "b", "a">>, !.stops = TRUE,
                            !.maxCalls = 2]

MCSetups == {Stored, Scheduled, StoredJob, Limited, Paid(TRUE), Paid(FALSE), Subscribed}
=============================================================================
