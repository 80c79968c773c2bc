----------------------------- MODULE MCRouting -----------------------------
EXTENDS Routing

Rule(cohort, target) == [cohort |-> cohort, target |-> target]

(* A canary behind a header and a weight, whose first header rule keeps a   *)
(* cohort on the stable pool; promotion makes the plain policy of it.       *)
OneCanary ==
    {[stable |-> "p1", canary |-> "p2", percent |-> 50,
      headers |-> <<Rule("c1", "stable"), Rule("c2", "canary")>>]}

StartUp == [p \in {"p1"} |-> "m1"]

(* The canary's pool, and the start-up pool's name taken by another model.  *)
Registered == {<<"p2", "m1">>, <<"p1", "m2">>}

Terms(v, t) == [version |-> v, terms |-> t]
(* A second model; the first one disabled; its terms changed under the same *)
(* price version and under a new one.                                       *)
Offered ==
    {[model |-> "m2", enabled |-> TRUE, def |-> Terms(1, 1)],
     [model |-> "m1", enabled |-> FALSE, def |-> Terms(1, 1)],
     [model |-> "m1", enabled |-> TRUE, def |-> Terms(1, 2)],
     [model |-> "m1", enabled |-> TRUE, def |-> Terms(2, 2)]}
=============================================================================
