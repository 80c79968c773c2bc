-------------------------- MODULE MCManagedTraffic --------------------------
(* Small instances of ManagedTraffic for TLC.                              *)
EXTENDS ManagedTraffic

(* A pool without autoscaling, drained and reopened by hand.               *)
ByHand == [identified |-> Sessions, required |-> TRUE, managed |-> FALSE,
           minimum |-> 1, replicas |-> {1}, manual |-> TRUE, rolledOut |-> TRUE,
           versions |-> 1, sequences |-> 3]

(* A pool KEDA resizes under traffic ...                                   *)
Scaled == [identified |-> {}, required |-> FALSE, managed |-> TRUE,
           minimum |-> 1, replicas |-> {1, 2}, manual |-> FALSE, rolledOut |-> TRUE,
           versions |-> 2, sequences |-> 2]

(* ... and while an administrator interferes.                              *)
Interfered == [Scaled EXCEPT !.manual = TRUE, !.sequences = 1]

(* The same from before the roll-out and through more revisions, without   *)
(* gateways, and a pool that is resized by hand only.                      *)
Edited == [Interfered EXCEPT !.rolledOut = FALSE, !.versions = 3, !.sequences = 0]
Resized == [Edited EXCEPT !.managed = FALSE]

Pools == [byhand |-> ByHand, scaled |-> Scaled, interfered |-> Interfered,
          edited |-> Edited, resized |-> Resized]

(* A scaled pool with identified gateways.                                 *)
KedaOnly == [keda |-> [Scaled EXCEPT !.identified = Sessions, !.required = TRUE,
                                     !.sequences = 3]]
=============================================================================
