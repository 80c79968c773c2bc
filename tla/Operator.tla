------------------------------ MODULE Operator ------------------------------
(* The model operator: how one ModelDeployment is turned into the objects    *)
(* that run it (kubernetes/controller.rs, resources.rs, autoscaling.rs,      *)
(* recommendation.rs and operator/main.rs).                                  *)
(*                                                                           *)
(* A reconciliation works on the copy of the ModelDeployment that the watch  *)
(* delivered, reads the children one after another, checks that it may touch *)
(* all of them, and writes them one after another, each write fenced by the  *)
(* resource version of the copy it was made from.  The election lets one     *)
(* replica reconcile at a time (a leader stops itself within eight seconds   *)
(* of a failed renewal, its lease lasts fifteen); a request that it had sent *)
(* may still arrive.                                                         *)
(*                                                                           *)
(* Children that the code treats alike are modelled once: "workload" stands  *)
(* for the Deployment and the Service, which are always wanted, "extra" for  *)
(* the disruption budget and the InferencePool, "scale" for the ModelScale   *)
(* recommendation and "scaler" for the ScaledObject.  A child remembers the  *)
(* model (UID) that controls it, 0 for anybody else, and the generation it   *)
(* was written from.  As in ClusterDelivery a copy is clean while nobody     *)
(* wrote the object.                                                         *)
EXTENDS Naturals, Sequences, FiniteSets

CONSTANTS Specs,          \* [scaling, extra]: by hand, by KEDA or by KEDA's
                          \* recommendation; optional children
          Edits,          \* bound: the changes of spec, <<from, to>>
          MaxGeneration,  \* bound: generations of one ModelDeployment
          MaxUpsets       \* bound: crashes, lost requests, bystanders

ASSUME OperatorAssumption ==
    /\ Specs \subseteq [scaling : {"manual", "direct", "managed"}, extra : BOOLEAN]
    /\ Edits \subseteq Specs \X Specs
    /\ {MaxGeneration, MaxUpsets} \subseteq Nat

Kinds == {"scale", "workload", "extra", "scaler"}

VARIABLES model,     \* the ModelDeployment with its status
          children,  \* the objects of its name
          legacy,    \* the HPA that an old operator made: 0 none, else its controller
          hpa,       \* KEDA's HPA: 0 none, else the UID of its ScaledObject
          run,       \* the reconciliation under way
          late,      \* requests whose sender no longer waits for them
          upsets     \* faults so far

operatorVars == <<model, children, legacy, hpa, run, late, upsets>>

NoChild == [uid |-> 0, owner |-> 0, generation |-> 0, deleting |-> FALSE]
NoCopy == [uid |-> 0, owner |-> 0, deleting |-> FALSE, clean |-> FALSE]
Copy(object) == [uid |-> object.uid, owner |-> object.owner, deleting |-> object.deleting,
                 clean |-> TRUE]

(* Reads in the order of reconcile_inner; the recommendation is read when it *)
(* is its turn to be written.                                                *)
ReadOrder == <<"workload", "hpas", "scaler", "extra">>
WriteOrder == <<"scale", "workload", "extra", "scaler">>

Down == [pc |-> "down", model |-> [uid |-> 0], fresh |-> FALSE, next |-> 0,
         held |-> [k \in Kinds |-> NoCopy], legacy |-> 0, hpa |-> 0]
Resting == [Down EXCEPT !.pc = "idle"]

Upset == upsets < MaxUpsets /\ upsets' = upsets + 1

(* A UID that nobody remembers.  Only that of a ScaledObject is told from    *)
(* others, by KEDA's HPA; the rest are 1.                                    *)
RememberedUids == {0, hpa, run.hpa, children["scaler"].uid, run.held["scaler"].uid}
FreshUid(k) == IF k = "scaler" THEN CHOOSE u \in 1 .. 5 : u \notin RememberedUids ELSE 1

OperatorInit ==
    /\ \E spec \in Specs : model = [uid |-> 1, generation |-> 1, spec |-> spec,
                                    observed |-> 0, ok |-> FALSE]
    /\ children = [k \in Kinds |-> NoChild]
    /\ legacy \in {0, 1}
    /\ hpa = 0
    /\ run = Down
    /\ late = {}
    /\ upsets = 0

-----------------------------------------------------------------------------
(* The owner of the model, and bystanders.                                   *)

(* A new spec, or a scaler's write to the scale subresource.                 *)
ChangeSpec(spec) ==
    /\ model.generation < MaxGeneration /\ <<model.spec, spec>> \in Edits
    /\ model' = [model EXCEPT !.generation = @ + 1, !.spec = spec]
    /\ run' = [run EXCEPT !.fresh = FALSE]
    /\ UNCHANGED <<children, legacy, hpa, late, upsets>>

(* The model is deleted and created again under the same name.               *)
Recreate ==
    /\ Upset
    /\ model' = [model EXCEPT !.uid = @ + 1, !.generation = 1, !.observed = 0, !.ok = FALSE]
    /\ run' = [run EXCEPT !.fresh = FALSE]
    /\ UNCHANGED <<children, legacy, hpa, late>>

Soiled(k) == [run EXCEPT !.held[k].clean = FALSE]
StillPossible(k) == {w \in late : w.kind # k \/ w.uid = 0}

CreateForeignChild(k) ==
    /\ Upset
    /\ children[k].uid = 0
    /\ children' = [children EXCEPT ![k] = [NoChild EXCEPT !.uid = FreshUid(k)]]
    /\ run' = Soiled(k)
    /\ late' = StillPossible(k)
    /\ UNCHANGED <<model, legacy, hpa>>

(* A status or another controller's field is written, which matters to a     *)
(* copy or a request that depends on the object.                             *)
TouchChild(k) ==
    /\ Upset
    /\ children[k].uid # 0
    /\ run.held[k].clean \/ \E w \in late : w.kind = k
    /\ run' = Soiled(k)
    /\ late' = StillPossible(k)
    /\ UNCHANGED <<model, children, legacy, hpa>>

(* Kubernetes removes the children of a model that is gone, and KEDA's       *)
(* finalizer holds a ScaledObject until KEDA has let go of it.               *)
Collect(k) ==
    /\ children[k].owner \notin {0, model.uid}
    /\ ~children[k].deleting
    /\ children' = [children EXCEPT ![k] = IF k = "scaler" THEN [@ EXCEPT !.deleting = TRUE]
                                           ELSE NoChild]
    /\ run' = Soiled(k)
    /\ late' = StillPossible(k)
    /\ UNCHANGED <<model, legacy, hpa, upsets>>

CollectLegacy ==
    /\ legacy \notin {0, model.uid}
    /\ legacy' = 0
    /\ UNCHANGED <<model, children, hpa, run, late, upsets>>

FinishScaler ==
    /\ children["scaler"].deleting
    /\ children' = [children EXCEPT !["scaler"] = NoChild]
    /\ run' = Soiled("scaler")
    /\ UNCHANGED <<model, legacy, hpa, late, upsets>>

CreateHpa ==
    /\ hpa = 0
    /\ children["scaler"].owner # 0
    /\ ~children["scaler"].deleting
    /\ hpa' = children["scaler"].uid
    /\ UNCHANGED <<model, children, legacy, run, late, upsets>>

CollectHpa ==
    /\ hpa \notin {0, children["scaler"].uid}
    /\ hpa' = 0
    /\ UNCHANGED <<model, children, legacy, run, late, upsets>>

-----------------------------------------------------------------------------
(* A request to the Kubernetes API about one child.                          *)

Admitted(w) == IF w.uid = 0 THEN children[w.kind].uid = 0 ELSE w.clean

StoredChild(w) ==
    IF w.op = "delete"
      THEN IF w.kind = "scaler" THEN [children[w.kind] EXCEPT !.deleting = TRUE] ELSE NoChild
    ELSE IF w.uid = 0
      THEN [uid |-> FreshUid(w.kind), owner |-> w.owner, generation |-> w.generation, deleting |-> FALSE]
    ELSE [children[w.kind] EXCEPT !.generation = w.generation]

ExecuteLateRequest(w) ==
    /\ Admitted(w)
    /\ children' = [children EXCEPT ![w.kind] = StoredChild(w)]
    /\ run' = Soiled(w.kind)
    /\ late' = StillPossible(w.kind) \ {w}
    /\ UNCHANGED <<model, legacy, hpa, upsets>>

-----------------------------------------------------------------------------
(* The leader.                                                               *)

Lead ==
    /\ run.pc = "down"
    /\ run' = Resting
    /\ UNCHANGED <<model, children, legacy, hpa, late, upsets>>

(* A crash, or a renewal that failed: the reconciliation is aborted.         *)
StopLeading ==
    /\ run.pc # "down"
    /\ Upset
    /\ run' = Down
    /\ UNCHANGED <<model, children, legacy, hpa, late>>

(* A watch event or a requeue: work on what the watch last delivered, which  *)
(* may be behind by the time the children are read.                          *)
Begin ==
    /\ run.pc = "idle"
    /\ run' = [Resting EXCEPT !.pc = "reading", !.model = model, !.fresh = TRUE, !.next = 1]
    /\ UNCHANGED <<model, children, legacy, hpa, late, upsets>>

Read ==
    /\ run.pc = "reading"
    /\ run.next <= Len(ReadOrder)
    /\ LET k == ReadOrder[run.next] IN
       run' = IF k = "hpas"
                THEN [run EXCEPT !.legacy = legacy, !.hpa = hpa, !.next = @ + 1]
                ELSE [run EXCEPT !.held[k] = Copy(children[k]),
                                 !.next = @ + 1]
    /\ UNCHANGED <<model, children, legacy, hpa, late, upsets>>

(* reconcile writes the failure to the status, fenced by the copy of the     *)
(* model, and the controller tries again.                                    *)
Fail ==
    /\ run' = Resting
    /\ model' = IF run.fresh THEN [model EXCEPT !.ok = FALSE] ELSE model

(* KEDA scales the ModelDeployment itself, or the recommendation if the      *)
(* control plane manages the scaling.                                        *)
Autoscaled(spec) == spec.scaling # "manual"
Enabled(spec) == spec.scaling = "managed"
Wanted(k) ==
    CASE k = "workload" -> TRUE
      [] k = "extra"    -> run.model.spec.extra
      [] k = "scaler"   -> Autoscaled(run.model.spec)
      [] k = "scale"    -> Enabled(run.model.spec)

Ours_ByName(object) == object.uid # 0
Ours(object) == object.uid # 0 /\ object.owner = run.model.uid
NotOurs(object) == object.uid # 0 /\ object.owner # run.model.uid

(* Every identity is checked before the first write: a wanted child, the     *)
(* scaler in any case, and every HPA that would scale the model too.  KEDA's *)
(* HPA must belong to the ScaledObject that was read.                        *)
Conflict ==
    \/ \E k \in {"workload", "extra"} : Wanted(k) /\ NotOurs(run.held[k])
    \/ NotOurs(run.held["scaler"])
    \/ run.legacy \notin {0, run.model.uid}
    \/ run.hpa # 0 /\ run.hpa # run.held["scaler"].uid

(* The recommendation is read again, then written, before the transition.    *)
CheckAll ==
    /\ run.pc = "reading"
    /\ run.next > Len(ReadOrder)
    /\ IF Conflict
         THEN Fail
         ELSE /\ run' = [run EXCEPT !.pc = "writing", !.next = 1,
                                    !.held["scale"] = Copy(children["scale"])]
              /\ UNCHANGED model
    /\ UNCHANGED <<children, legacy, hpa, late, upsets>>

Transition_NoWait ==
    LET scaler == run.held["scaler"] IN
    IF ~Autoscaled(run.model.spec) /\ scaler.uid # 0 THEN "remove_scaler" ELSE "apply"
Transition_KeepsScaler ==
    IF run.legacy # 0 THEN "remove_legacy"
    ELSE IF run.held["scaler"].deleting THEN "wait"
    ELSE "apply"
Transition ==
    LET scaler == run.held["scaler"] IN
    IF run.legacy # 0 THEN "remove_legacy"
    ELSE IF scaler.deleting THEN "wait"
    ELSE IF Autoscaled(run.model.spec) THEN "apply"
    ELSE IF scaler.uid # 0 THEN "remove_scaler"
    ELSE IF run.hpa # 0 THEN "wait"
    ELSE "apply"

Turn == run.pc = "writing" /\ run.next <= Len(WriteOrder)
Switching == WriteOrder[run.next] = "workload" /\ Transition # "apply"

(* Removing a scaling writer, or waiting for it to be gone, ends the         *)
(* reconciliation before the workload is written.                            *)
RemoveLegacy ==
    /\ Turn /\ Switching /\ Transition = "remove_legacy"
    /\ IF legacy = run.legacy
         THEN legacy' = 0 /\ run' = Resting /\ UNCHANGED model
         ELSE UNCHANGED legacy /\ Fail
    /\ UNCHANGED <<children, hpa, late, upsets>>

(* What resources::sync asks of the API for the child whose turn it is.      *)
Subject == IF Switching THEN "scaler" ELSE WriteOrder[run.next]
RequestFor(k, op) ==
    [kind |-> k, op |-> op, uid |-> run.held[k].uid, clean |-> run.held[k].clean,
     owner |-> run.model.uid, generation |-> run.model.generation]
Requests ==
    IF ~Turn \/ (Switching /\ Transition # "remove_scaler") THEN {}
    ELSE IF ~Switching /\ Wanted(Subject) /\ ~NotOurs(run.held[Subject])
      THEN {RequestFor(Subject, "apply")}
    ELSE IF ~Wanted(Subject) /\ (Switching \/ Subject # "scaler") /\ Ours(run.held[Subject])
      THEN {RequestFor(Subject, "delete")}
    ELSE {}

Wait ==
    /\ Turn /\ Switching /\ Transition # "remove_legacy" /\ Requests = {}
    /\ run' = Resting
    /\ UNCHANGED <<model, children, legacy, hpa, late, upsets>>

(* The copies that are no longer needed are dropped.                         *)
Advanced == [run EXCEPT !.next = @ + 1, !.held[Subject] = NoCopy,
                        !.hpa = IF Subject = "workload" THEN 0 ELSE @]

Sync(w) ==
    /\ Admitted(w)
    /\ children' = [children EXCEPT ![w.kind] = StoredChild(w)]
    /\ late' = IF children' = children THEN late ELSE StillPossible(w.kind)
    /\ run' = IF Switching THEN Resting ELSE Advanced
    /\ UNCHANGED <<model, legacy, hpa, upsets>>

SyncNothing ==
    /\ Turn /\ ~Switching /\ Requests = {}
    /\ IF Wanted(Subject)
         THEN Fail
         ELSE run' = Advanced /\ UNCHANGED model
    /\ UNCHANGED <<children, legacy, hpa, late, upsets>>

SyncRefused(w) ==
    /\ ~Admitted(w)
    /\ Fail
    /\ UNCHANGED <<children, legacy, hpa, late, upsets>>

(* No answer: the request may still arrive.                                  *)
SyncLost(w) ==
    /\ Admitted(w)
    /\ Upset
    /\ late' = late \cup {w}
    /\ Fail
    /\ UNCHANGED <<children, legacy, hpa>>

(* A read fails, or a write for a reason of its own.                         *)
ApiError ==
    /\ run.pc \in {"reading", "writing"}
    /\ Upset
    /\ Fail
    /\ UNCHANGED <<children, legacy, hpa, late>>

(* The status is written when it differs, fenced by the copy of the model.   *)
StatusFenced_Never == TRUE
StatusFenced == run.fresh

WriteStatus ==
    /\ run.pc = "writing"
    /\ run.next > Len(WriteOrder)
    /\ model' = IF StatusFenced
                  THEN [model EXCEPT !.observed = run.model.generation, !.ok = TRUE]
                  ELSE model
    /\ run' = Resting
    /\ UNCHANGED <<children, legacy, hpa, late, upsets>>

-----------------------------------------------------------------------------
Reconcile ==
    \/ Lead \/ Begin \/ Read \/ CheckAll \/ Wait \/ RemoveLegacy \/ SyncNothing
    \/ \E w \in Requests : Sync(w) \/ SyncRefused(w)
    \/ WriteStatus

Cluster ==
    \/ \E k \in Kinds : Collect(k)
    \/ CollectLegacy \/ FinishScaler \/ CreateHpa \/ CollectHpa

OperatorNext ==
    \/ \E spec \in Specs : ChangeSpec(spec)
    \/ Recreate
    \/ \E k \in Kinds : CreateForeignChild(k) \/ TouchChild(k)
    \/ Cluster
    \/ \E w \in late : ExecuteLateRequest(w)
    \/ Reconcile
    \/ StopLeading
    \/ \E w \in Requests : SyncLost(w)
    \/ ApiError

(* Some replica leads and works, Kubernetes collects garbage and KEDA        *)
(* finishes what it was told to delete.                                      *)
OperatorFairness ==
    /\ WF_operatorVars(Reconcile)
    /\ \A k \in Kinds : WF_operatorVars(Collect(k))
    /\ WF_operatorVars(CollectLegacy) /\ WF_operatorVars(FinishScaler) /\ WF_operatorVars(CollectHpa)

OperatorSpec == OperatorInit /\ [][OperatorNext]_operatorVars /\ OperatorFairness

-----------------------------------------------------------------------------
(* A status that reports generation g as reconciled is backed by a workload  *)
(* of this very model written from g or a newer generation, whatever was     *)
(* aborted, refused, lost or late before (controller.rs write_status,        *)
(* resources.rs sync).                                                       *)
StatusIsBacked ==
    model.ok => /\ children["workload"].owner = model.uid
                /\ children["workload"].generation >= model.observed

(* The HPA of the old operator and a ScaledObject of the same model never    *)
(* exist together, and KEDA is not told to scale while the old HPA does      *)
(* (autoscaling.rs transition: writers change only after observing deletion).*)
OneScalingWriter == legacy = model.uid => children["scaler"].owner # model.uid

(* No step changes or removes an object that belongs to somebody else; one   *)
(* of a model that neither the reconciliation nor a late request works for   *)
(* is at most collected; and no write takes a child back to an older         *)
(* generation (controller.rs ensure_owner, resources.rs preflight and sync). *)
NothingForeignTouched ==
    [][\A k \in Kinds :
         LET old == children[k]
             new == children'[k]
         IN old.uid # 0 /\ new # old =>
              /\ old.owner # 0
              /\ old.owner \notin {run.model.uid} \cup {w.owner : w \in late} =>
                   new \in {NoChild, [old EXCEPT !.deleting = TRUE]}
              /\ new.uid = old.uid => new.generation >= old.generation]_operatorVars

(* An object of somebody else stands where the model wants its own.          *)
Occupied == \E k \in Kinds : children[k].uid # 0 /\ children[k].owner = 0

Settled ==
    /\ model.ok /\ model.observed = model.generation
    /\ legacy = 0
    /\ children["workload"].generation = model.generation
    /\ (children["scaler"].owner = model.uid) = Autoscaled(model.spec)
    /\ (children["scale"].owner = model.uid) = Enabled(model.spec)
    /\ (children["extra"].owner = model.uid) = model.spec.extra
    /\ ~Autoscaled(model.spec) => hpa = 0

(* After the last change and the last fault the cluster settles: everything  *)
(* that the newest spec wants exists and nothing else of ours does, the old  *)
(* scaling writers are gone, and the status says so.                         *)
Converges == []<>(Settled \/ Occupied)
=============================================================================
