--------------------------- MODULE ClusterDelivery ---------------------------
(* The outbound delivery protocol of one member cluster.  The control plane  *)
(* keeps one row per cluster (desired and acknowledged version, the lease of *)
(* the delivery that is out, the credential) and an append-only list of      *)
(* desired revisions (control-plane/clusters.rs).  A member agent that holds *)
(* the writer election polls, applies a revision to the Kubernetes API one   *)
(* object after another and reports (cluster-agent/pull.rs).                 *)
(*                                                                           *)
(* The election has no fencing token, so an agent whose process was paused   *)
(* still writes after another one took over: any number of agents may be     *)
(* active.  What protects the cluster is the delivery lease, the version     *)
(* annotation and the preconditions (resource version, UID) of each write.   *)
(*                                                                           *)
(* Abstractions: a resource version is not a number, a copy read from the    *)
(* API is `clean' while nobody has written the object since; the digest of a *)
(* revision is its version (a revision is never rewritten); lease_until is   *)
(* folded into the lease, 0 meaning none or run out; a fresh lease UUID is   *)
(* one that nobody remembers.                                                *)
EXTENDS Naturals, Sequences, FiniteSets

CONSTANTS Names,        \* names of ModelDeployment objects
          Agents,       \* replicas of the member agent
          Shapes,       \* what an operator asks for: functions Names -> Ops
          MaxVersion,   \* bound: desired revisions
          MaxFaults     \* bound: disturbances by network, scheduler, bystanders
                        \* and changes of the credential

Ops == {"skip", "put", "bound", "bad", "delete"}

ASSUME DeliveryAssumption ==
    /\ Shapes \subseteq [Names -> Ops]
    /\ {MaxVersion, MaxFaults} \subseteq Nat

VARIABLES row,          \* the cluster's row
          revisions,    \* cluster_desired_revision, one payload per version
          mounted,      \* credential epoch in the agents' projected Secret
          agents,       \* what each agent is doing
          objects,      \* the member cluster's ModelDeployment objects
          lastUid,      \* UIDs handed out by the Kubernetes API
          writes,       \* requests whose sender no longer waits for them
          reports,      \* reports on their way to the control plane
          faults

vars == <<row, revisions, mounted, agents, objects, lastUid, writes, reports, faults>>

Absent == [uid |-> 0, owned |-> FALSE, version |-> 0]
Standing == [pc |-> "standby", token |-> 0, version |-> 0, lease |-> 0,
             todo |-> {}, name |-> "", uid |-> 0, clean |-> FALSE]
Waiting == [Standing EXCEPT !.pc = "idle"]

(* The lease ids that could still come back, and one that cannot.            *)
Remembered == {row.lease} \cup {agents[a].lease : a \in Agents}
                          \cup {r.lease : r \in reports}
FreshLease == CHOOSE l \in 1 .. Cardinality(Remembered) + 1 : l \notin Remembered

Fault == faults < MaxFaults /\ faults' = faults + 1

Init ==
    /\ row = [desired |-> 0, acked |-> 0, delivery |-> 0, lease |-> 0,
              epoch |-> 1, credential |-> "valid"]
    /\ revisions = <<>>
    /\ mounted = 1
    /\ agents = [a \in Agents |-> Standing]
    /\ objects = [n \in Names |-> Absent]
    /\ lastUid = 0
    /\ writes = {}
    /\ reports = {}
    /\ faults = 0

-----------------------------------------------------------------------------
(* The control plane.                                                        *)

(* A payload names each object at most once; a deletion carries the UID that *)
(* was last observed, a bound specification the UID it was made for.         *)
Payload(shape, uid) ==
    [n \in Names |-> [op  |-> IF shape[n] = "bound" THEN "put" ELSE shape[n],
                      uid |-> IF shape[n] \in {"bound", "delete"} THEN uid ELSE 0]]
NeedsUid(shape) == \E n \in Names : shape[n] \in {"bound", "delete"}

PutDesired(shape, uid) ==
    /\ row.credential # "revoked"
    /\ row.desired < MaxVersion
    /\ revisions' = Append(revisions, Payload(shape, uid))
    /\ row' = [row EXCEPT !.desired = @ + 1]
    /\ UNCHANGED <<mounted, agents, objects, lastUid, writes, reports, faults>>

Rotate ==
    /\ Fault
    /\ row' = [row EXCEPT !.epoch = @ + 1, !.credential = "valid", !.lease = 0]
    /\ UNCHANGED <<revisions, mounted, agents, objects, lastUid, writes, reports>>

Revoke ==
    /\ Fault
    /\ row.credential # "revoked"
    /\ row' = [row EXCEPT !.credential = "revoked", !.lease = 0]
    /\ UNCHANGED <<revisions, mounted, agents, objects, lastUid, writes, reports>>

(* expires_at passes.                                                        *)
CredentialExpires ==
    /\ Fault
    /\ row.credential = "valid"
    /\ row' = [row EXCEPT !.credential = "expired"]
    /\ UNCHANGED <<revisions, mounted, agents, objects, lastUid, writes, reports>>

(* The operator installs the credential that the rotation displayed.         *)
MountSecret ==
    /\ mounted # row.epoch
    /\ mounted' = row.epoch
    /\ UNCHANGED <<row, revisions, agents, objects, lastUid, writes, reports, faults>>

Authenticated(token) == row.credential = "valid" /\ token = row.epoch

(* The sixty seconds of a lease run out.  An agent that carries on reports   *)
(* within fifty (forty to apply, ten to post), so while somebody still acts  *)
(* on the lease, running out takes a fault: a pause or a slow network.       *)
ActedOn == \/ \E a \in Agents : agents[a].lease = row.lease
           \/ \E r \in reports : r.lease = row.lease

LeaseExpires ==
    /\ row.lease # 0 /\ ~ActedOn
    /\ row' = [row EXCEPT !.lease = 0]
    /\ UNCHANGED <<revisions, mounted, agents, objects, lastUid, writes, reports, faults>>

LeaseExpiresEarly ==
    /\ row.lease # 0 /\ ActedOn
    /\ Fault
    /\ row' = [row EXCEPT !.lease = 0]
    /\ UNCHANGED <<revisions, mounted, agents, objects, lastUid, writes, reports>>

(* report_cluster: which reports are known already, which are current.       *)
Known(r) == r.ok /\ r.version = row.acked
Current_AnyLease(r) == r.version = row.delivery /\ r.version >= row.acked
Current(r) ==
    /\ r.version = row.delivery
    /\ r.lease = row.lease
    /\ row.lease # 0
    /\ r.version >= row.acked

Report(r) ==
    /\ reports' = reports \ {r}
    /\ row' = IF Authenticated(r.token) /\ ~Known(r) /\ Current(r)
                THEN [row EXCEPT !.lease = 0,
                                 !.acked = IF r.ok THEN r.version ELSE @]
                ELSE row
    /\ UNCHANGED <<revisions, mounted, agents, objects, lastUid, writes, faults>>

LoseReport(r) ==
    /\ Fault
    /\ reports' = reports \ {r}
    /\ UNCHANGED <<row, revisions, mounted, agents, objects, lastUid, writes>>

-----------------------------------------------------------------------------
(* The Kubernetes API.                                                       *)

(* A request carries the object it creates, replaces or deletes; it passes   *)
(* when nothing happened to the copy it was made from.                       *)
Passes(w) == IF w.uid = 0 THEN objects[w.name].uid = 0 ELSE w.clean

(* Somebody wrote the object: no copy of it is clean any more, and a         *)
(* replacement or deletion that is still under way can only be refused.      *)
Soil(n) ==
    /\ agents' = [a \in Agents |-> IF agents[a].name = n
                                     THEN [agents[a] EXCEPT !.clean = FALSE]
                                     ELSE agents[a]]
    /\ writes' = {w \in writes : w.name # n \/ w.uid = 0}

Stored(w) ==
    IF w.op = "delete"
      THEN Absent
      ELSE [uid |-> IF w.uid = 0 THEN lastUid + 1 ELSE w.uid, owned |-> TRUE,
            version |-> w.version]

Execute(w) ==
    /\ objects' = [objects EXCEPT ![w.name] = Stored(w)]
    /\ lastUid' = IF w.uid = 0 THEN lastUid + 1 ELSE lastUid

(* A request whose sender gave up arrives after all.                         *)
ExecuteLate(w) ==
    /\ Passes(w)
    /\ Execute(w)
    /\ agents' = [a \in Agents |-> IF agents[a].name = w.name
                                     THEN [agents[a] EXCEPT !.clean = FALSE]
                                     ELSE agents[a]]
    /\ writes' = {x \in writes \ {w} : x.name # w.name \/ x.uid = 0}
    /\ UNCHANGED <<row, revisions, mounted, reports, faults>>

(* The operator writes a status, an autoscaler the scale subresource.        *)
Touch(n) ==
    /\ Fault
    /\ objects[n].uid # 0
    /\ Soil(n)
    /\ UNCHANGED <<row, revisions, mounted, objects, lastUid, reports>>

(* Somebody else creates an object of that name.                             *)
CreateForeign(n) ==
    /\ Fault
    /\ objects[n].uid = 0
    /\ objects' = [objects EXCEPT ![n] = [Absent EXCEPT !.uid = lastUid + 1]]
    /\ lastUid' = lastUid + 1
    /\ Soil(n)
    /\ UNCHANGED <<row, revisions, mounted, reports>>

-----------------------------------------------------------------------------
(* The member agent.                                                         *)

Becomes(a, state) == agents' = [agents EXCEPT ![a] = state]

(* run: the election is won, or a renewal fails and the writer is aborted    *)
(* wherever it stands.                                                       *)
BecomeWriter(a) ==
    /\ agents[a].pc = "standby"
    /\ Becomes(a, Waiting)
    /\ UNCHANGED <<row, revisions, mounted, objects, lastUid, writes, reports, faults>>

Standby(a) ==
    /\ agents[a].pc # "standby"
    /\ Fault
    /\ Becomes(a, Standing)
    /\ UNCHANGED <<row, revisions, mounted, objects, lastUid, writes, reports>>

(* poll_cluster hands out the newest revision under a new lease unless one   *)
(* is out; apply validates all of it before it touches the first object.     *)
Delivered ==
    /\ Authenticated(mounted)
    /\ row.lease = 0
    /\ row.desired > row.acked
    /\ row' = [row EXCEPT !.delivery = row.desired, !.lease = FreshLease]

Valid(payload) == \A n \in Names : payload[n].op # "bad"

Poll(a) ==
    /\ agents[a].pc = "idle"
    /\ Delivered
    /\ LET payload == revisions[row.desired] IN
       Becomes(a, [Waiting EXCEPT
                     !.pc = IF Valid(payload) THEN "apply" ELSE "rejected",
                     !.token = mounted, !.version = row.desired,
                     !.lease = FreshLease,
                     !.todo = {n \in Names : payload[n].op # "skip"}])
    /\ UNCHANGED <<revisions, mounted, objects, lastUid, writes, reports, faults>>

(* The answer to a poll is lost: the lease is out and nobody holds it.       *)
PollLost(a) ==
    /\ agents[a].pc = "idle"
    /\ Delivered
    /\ Fault
    /\ UNCHANGED <<revisions, mounted, agents, objects, lastUid, writes, reports>>

Item(a, n) == revisions[agents[a].version][n]
Rejecting(a) == [agents[a] EXCEPT !.pc = "rejected", !.todo = {}, !.name = "",
                                  !.uid = 0, !.clean = FALSE]

(* The checks of apply between reading an object and writing it.             *)
IdentityMismatch(item, current) == item.op # "delete" /\ item.uid # 0 /\ current.uid # item.uid
OwnershipConflict_AnyVersion(item, current, version) ==
    current.uid # 0 /\ (~current.owned \/ (item.op = "delete" /\ current.uid # item.uid))
OwnershipConflict(item, current, version) ==
    /\ current.uid # 0
    /\ \/ ~current.owned
       \/ current.version > version
       \/ item.op = "delete" /\ current.uid # item.uid

Get(a, n) ==
    /\ agents[a].pc = "apply"
    /\ n \in agents[a].todo
    /\ LET item == Item(a, n)
           current == objects[n]
       IN Becomes(a,
            IF \/ IdentityMismatch(item, current)
               \/ OwnershipConflict(item, current, agents[a].version)
              THEN Rejecting(a)
            ELSE IF item.op = "delete" /\ current.uid = 0
              THEN [agents[a] EXCEPT !.todo = @ \ {n}]
            ELSE [agents[a] EXCEPT !.pc = "held", !.name = n, !.uid = current.uid,
                                   !.clean = TRUE])
    /\ UNCHANGED <<row, revisions, mounted, objects, lastUid, writes, reports, faults>>

Request(a) ==
    LET s == agents[a] IN
    [name |-> s.name, op |-> Item(a, s.name).op, version |-> s.version,
     uid |-> s.uid, clean |-> s.clean]

Write(a) ==
    /\ agents[a].pc = "held"
    /\ LET w == Request(a) IN
       /\ Passes(w)
       /\ Execute(w)
       /\ agents' = [b \in Agents |->
            IF b = a THEN [agents[a] EXCEPT !.pc = "apply", !.todo = @ \ {w.name},
                                            !.name = "", !.uid = 0, !.clean = FALSE]
            ELSE IF agents[b].name = w.name THEN [agents[b] EXCEPT !.clean = FALSE]
            ELSE agents[b]]
       /\ writes' = {x \in writes : x.name # w.name \/ x.uid = 0}
    /\ UNCHANGED <<row, revisions, mounted, reports, faults>>

WriteRefused(a) ==
    /\ agents[a].pc = "held"
    /\ ~Passes(Request(a))
    /\ Becomes(a, Rejecting(a))
    /\ UNCHANGED <<row, revisions, mounted, objects, lastUid, writes, reports, faults>>

(* No answer: the request may still arrive.  At most one copy of a request   *)
(* is kept (a bound: the client does not repeat requests by itself).         *)
WriteLost(a) ==
    /\ agents[a].pc = "held"
    /\ Passes(Request(a))
    /\ Request(a) \notin writes
    /\ Fault
    /\ writes' = writes \cup {Request(a)}
    /\ Becomes(a, Rejecting(a))
    /\ UNCHANGED <<row, revisions, mounted, objects, lastUid, reports>>

(* A read fails, or the forty seconds are over.                              *)
GiveUp(a) ==
    /\ agents[a].pc \in {"apply", "held"}
    /\ Fault
    /\ Becomes(a, Rejecting(a))
    /\ UNCHANGED <<row, revisions, mounted, objects, lastUid, writes, reports>>

Applied_Early(s) == s.pc = "apply" /\ Cardinality(s.todo) < 2
Applied(s) == s.pc = "apply" /\ s.todo = {}

(* The report repeats the token of the poll; the agent waits for at most ten *)
(* seconds and polls again, whatever became of it.                           *)
SendReport(a) ==
    /\ Applied(agents[a]) \/ agents[a].pc = "rejected"
    /\ reports' = reports \cup {[token |-> agents[a].token, version |-> agents[a].version,
                                 lease |-> agents[a].lease, ok |-> Applied(agents[a])]}
    /\ Becomes(a, Waiting)
    /\ UNCHANGED <<row, revisions, mounted, objects, lastUid, writes, faults>>

-----------------------------------------------------------------------------
AgentStep(a) ==
    \/ BecomeWriter(a) \/ Poll(a) \/ (\E n \in Names : Get(a, n))
    \/ Write(a) \/ WriteRefused(a) \/ SendReport(a)

Next ==
    \/ \E shape \in Shapes :
         \E uid \in IF NeedsUid(shape) THEN 1 .. lastUid ELSE {0} : PutDesired(shape, uid)
    \/ Rotate \/ Revoke \/ CredentialExpires \/ MountSecret
    \/ LeaseExpires \/ LeaseExpiresEarly
    \/ \E r \in reports : Report(r) \/ LoseReport(r)
    \/ \E w \in writes : ExecuteLate(w)
    \/ \E n \in Names : Touch(n) \/ CreateForeign(n)
    \/ \E a \in Agents : AgentStep(a) \/ Standby(a) \/ PollLost(a) \/ WriteLost(a) \/ GiveUp(a)

(* Every agent replica keeps running its loop, reports that are not lost     *)
(* arrive, and time passes.                                                  *)
Fairness ==
    /\ \A a \in Agents : WF_vars(AgentStep(a))
    /\ WF_vars(\E r \in reports : Report(r))
    /\ WF_vars(LeaseExpires)

Spec == Init /\ [][Next]_vars /\ Fairness

-----------------------------------------------------------------------------
(* Once a version is acknowledged, whatever crashed, timed out, was repeated *)
(* or arrived late: each object it specifies exists in the member cluster,   *)
(* owned and at that version or a newer one, unless a newer revision deletes *)
(* it; and the object it deletes is gone.  A revision with a specification   *)
(* that the agent refuses is never acknowledged and leaves nothing behind,   *)
(* although its items are applied one by one (clusters.rs report_cluster and *)
(* pull.rs apply).                                                           *)
AckedIsApplied ==
    /\ row.acked > 0 =>
         \A n \in Names :
           LET item == revisions[row.acked][n] IN
           /\ item.op = "put" =>
                \/ objects[n].owned /\ objects[n].version >= row.acked
                \/ \E v \in row.acked + 1 .. row.desired : revisions[v][n].op = "delete"
           /\ item.op = "delete" => objects[n].uid # item.uid
    /\ \A v \in DOMAIN revisions :
         (\E n \in Names : revisions[v][n].op = "bad") =>
           row.acked # v /\ \A n \in Names : objects[n].version # v

(* No step, a delayed one included, takes an object back to an older         *)
(* revision, writes or deletes one that the agent does not own, deletes one  *)
(* that no revision lists by its UID, or lets a specification bound to a UID *)
(* reach another object of the same name (the checks of apply and the        *)
(* preconditions of its replace and delete).                                 *)
WritesAreFenced ==
    [][\A n \in Names :
         objects[n] # objects'[n] /\ objects[n].uid # 0 =>
           /\ objects[n].owned
           /\ IF objects'[n].uid = objects[n].uid
                THEN /\ objects'[n].version >= objects[n].version
                     /\ revisions[objects'[n].version][n].uid \in {0, objects[n].uid}
                ELSE \E v \in DOMAIN revisions :
                       revisions[v][n].op = "delete" /\ revisions[v][n].uid = objects[n].uid]_vars

(* What is in the way of the newest revision for good: a credential the      *)
(* agents cannot use, a refused specification, an object of somebody else or *)
(* of another identity.                                                      *)
Obstructed ==
    \/ ~Authenticated(mounted)
    \/ ~Valid(revisions[row.desired])
    \/ \E n \in Names :
         LET item == revisions[row.desired][n] IN
         item.op # "skip" /\ (\/ IdentityMismatch(item, objects[n])
                              \/ OwnershipConflict(item, objects[n], row.desired))

(* After the last fault the newest revision is acknowledged unless it is     *)
(* obstructed: a lost answer, an aborted writer, a half-applied delivery or  *)
(* a lease that nobody holds never stops the cluster for good.               *)
DesiredIsReached == []<>(row.acked = row.desired \/ Obstructed)
=============================================================================
