------------------------- MODULE MCClusterDelivery -------------------------
EXTENDS ClusterDelivery

(* Two objects: create both; replace one under its identity; delete one;    *)
(* one good item beside one the agent refuses.                              *)
TwoObjects == {[n \in Names |-> "put"]}
    \cup {[n1 |-> "bound", n2 |-> "skip"], [n1 |-> "delete", n2 |-> "put"],
          [n1 |-> "put", n2 |-> "bad"]}
=============================================================================
