------------------------- MODULE MemberClusterProofs -------------------------
(***************************************************************************)
(* Proofs about the member cluster: ClusterDelivery, from a revision to    *)
(* the ModelDeployment objects, and Operator, from a ModelDeployment to    *)
(* the objects that run it.                                                *)
(*                                                                         *)
(* Both proofs have the same plan.  A step may change the objects only in  *)
(* the few ways that Moves (OpMoves) lists, all of which respect owners,   *)
(* UIDs and versions; a request, also one whose sender has given up, can   *)
(* only make such a move because its copy is clean or names nothing that   *)
(* exists.  The inductive invariants say this of every copy and request,   *)
(* and what has been done by the steps behind an agent or a reconciliation.*)
(* An acknowledgement and a status then only repeat it.                    *)
(***************************************************************************)
EXTENDS ClusterDelivery, Operator, TLAPS

-----------------------------------------------------------------------------
(* ClusterDelivery.                                                        *)

\* What a revision says of one name, with the UID it names, 0 for any.
Entry == [op : {"skip", "put", "bad", "delete"}, uid : Nat]
\* A ModelDeployment object of the member cluster.
Obj == [uid : Nat, owned : BOOLEAN, version : Nat]
\* A write that an agent sends to the Kubernetes API.
Req == [name : Names, op : {"put", "delete"}, version : Nat, uid : Nat, clean : BOOLEAN]
\* The cluster's row; L is a set that holds every lease id in use.
Row(L) == [desired : Nat, acked : Nat, delivery : Nat, lease : L, epoch : Nat,
           credential : {"valid", "revoked", "expired"}]
\* What an agent holds.
Agent(L) == [pc : {"standby", "idle", "apply", "held", "rejected"}, token : Nat,
             version : Nat, lease : L, todo : SUBSET Names, name : Names \cup {""},
             uid : Nat, clean : BOOLEAN]
\* A report on its way to the control plane.
Rep(L) == [token : Nat, version : Nat, lease : L, ok : BOOLEAN]

\* The parts of the state in which lease ids occur.
Typed(L) ==
    /\ 0 \in L
    /\ row \in Row(L)
    /\ mounted \in Nat
    /\ agents \in [Agents -> Agent(L)]
    /\ reports \subseteq Rep(L)

\* The types. A lease id is fresh, not bounded, so that the set of ids is
\* quantified.
Types ==
    /\ \E L : Typed(L)
    /\ revisions \in Seq([Names -> Entry])
    /\ Len(revisions) = row.desired
    /\ objects \in [Names -> Obj]
    /\ lastUid \in Nat
    /\ writes \subseteq Req

\* The versions issued so far.
Issued == 1 .. row.desired

\* A revision names UIDs that exist or existed, and a deletion always names
\* one.
RevisionsOK ==
    \A v \in Issued, n \in Names :
        /\ revisions[v][n].uid <= lastUid
        /\ revisions[v][n].op = "delete" => revisions[v][n].uid # 0

\* A version that an agent may apply as a whole.
Accepted(v) == v \in Issued /\ Valid(revisions[v])

\* A managed object was written from an accepted version; any other object
\* carries none.
ObjectsOK ==
    \A n \in Names :
        /\ objects[n].uid <= lastUid
        /\ objects[n].owned => objects[n].uid # 0 /\ Accepted(objects[n].version)
        /\ ~objects[n].owned => objects[n].version = 0

\* A request, or the copy it will be made from, asks what its accepted
\* version asks of the name, and while the copy is clean the object is ours,
\* the one that was read, and no newer than the version.
Justified(n, op, v, uid, clean) ==
    /\ Accepted(v)
    /\ op = revisions[v][n].op
    /\ op \in {"put", "delete"}
    /\ revisions[v][n].uid \in {0, uid}
    /\ clean /\ uid # 0 =>
         objects[n].uid = uid /\ objects[n].owned /\ objects[n].version <= v

\* What version v asks of name n has been done, or a later version has
\* undone it on purpose.
Done(n, v) ==
    /\ revisions[v][n].op = "put" =>
         \/ objects[n].owned /\ objects[n].version >= v
         \/ \E u \in v + 1 .. row.desired : revisions[u][n].op = "delete"
    /\ revisions[v][n].op = "delete" => objects[n].uid # revisions[v][n].uid

\* All that an accepted version asks.
AllDone(v) == Accepted(v) /\ \A n \in Names : Done(n, v)

\* An agent that applies a version holds an accepted one; every name that it
\* no longer has to do is done, and what it is about to send is justified.
AgentOK(a) ==
    /\ agents[a].pc \in {"apply", "held"} =>
         /\ Accepted(agents[a].version)
         /\ \A n \in agents[a].todo : revisions[agents[a].version][n].op # "skip"
         /\ \A n \in Names \ agents[a].todo : Done(n, agents[a].version)
    /\ agents[a].pc = "held" =>
         /\ agents[a].name \in Names
         /\ Justified(agents[a].name, Item(a, agents[a].name).op, agents[a].version,
                      agents[a].uid, agents[a].clean)

\* So is every request that its sender no longer waits for.
WritesOK == \A w \in writes : Justified(w.name, w.op, w.version, w.uid, w.clean)
\* A report of success stands for a version that is applied.
ReportsOK == \A r \in reports : r.ok => AllDone(r.version)
\* So does the acknowledgement in the cluster's row.
AckedOK == row.acked > 0 => AllDone(row.acked)

\* The inductive invariant.
IInv ==
    /\ Types /\ RevisionsOK /\ ObjectsOK
    /\ \A a \in Agents : AgentOK(a)
    /\ WritesOK /\ ReportsOK /\ AckedOK

-----------------------------------------------------------------------------
\* The object at n is new.
Created(n) ==
    /\ objects[n].uid = 0
    /\ lastUid' = lastUid + 1
    /\ objects'[n].uid = lastUid + 1
    /\ objects'[n].owned => Accepted(objects'[n].version)
    /\ ~objects'[n].owned => objects'[n].version = 0

\* Our object at n is updated, from a version that is not older and does not
\* name another UID.
Replaced(n) ==
    /\ objects[n].uid # 0 /\ objects[n].owned
    /\ lastUid' = lastUid
    /\ objects'[n].uid = objects[n].uid /\ objects'[n].owned
    /\ objects'[n].version >= objects[n].version
    /\ Accepted(objects'[n].version)
    /\ revisions[objects'[n].version][n].uid \in {0, objects[n].uid}

\* Our object at n is removed, because a version not older than it asks for
\* the removal of this very UID.
Deleted(n) ==
    /\ objects[n].uid # 0 /\ objects[n].owned
    /\ lastUid' = lastUid
    /\ objects'[n] = Absent
    /\ \E v \in Issued : /\ revisions[v][n].op = "delete"
                         /\ revisions[v][n].uid = objects[n].uid
                         /\ objects[n].version <= v

\* What a step may do to the objects of the member cluster: one of the
\* above, at one name.
Moves(n) ==
    /\ objects' \in [Names -> Obj]
    /\ \A m \in Names \ {n} : objects'[m] = objects[m]
    /\ Created(n) \/ Replaced(n) \/ Deleted(n) \/ UNCHANGED <<objects, lastUid>>

\* The types of the parts.
LEMMA RevisionTypes ==
  ASSUME Types
  PROVE  /\ row.desired \in Nat /\ row.acked \in Nat
         /\ \A v \in Issued : revisions[v] \in [Names -> Entry]
         /\ \A v \in Issued, n \in Names :
              /\ revisions[v][n].op \in {"skip", "put", "bad", "delete"}
              /\ revisions[v][n].uid \in Nat
         /\ \A n \in Names : /\ objects[n].uid \in Nat /\ objects[n].version \in Nat
                             /\ objects[n].owned \in BOOLEAN
<1>1. row.desired \in Nat /\ row.acked \in Nat
  BY DEF Types, Typed, Row
<1>2. \A v \in Issued : revisions[v] \in [Names -> Entry]
  BY <1>1 DEF Types, Issued
<1>3. \A n \in Names : objects[n] \in Obj
  BY DEF Types
<1>. QED
  BY <1>1, <1>2, <1>3 DEF Entry, Obj

\* A justified request that the API accepts is such a move.
LEMMA ExecuteMoves ==
  ASSUME Types, RevisionsOK, NEW w \in Req, Passes(w), Execute(w),
         Justified(w.name, w.op, w.version, w.uid, w.clean)
  PROVE  Moves(w.name)
<1> DEFINE n == w.name
           v == w.version
<1>1. /\ n \in Names /\ v \in Nat /\ w.uid \in Nat /\ w.op \in {"put", "delete"}
  BY DEF Req
<1>2. /\ v \in Issued /\ Accepted(v) /\ w.op = revisions[v][n].op
      /\ revisions[v][n].uid \in {0, w.uid}
  BY DEF Justified, Accepted
<1>3. w.op = "delete" => w.uid # 0 /\ revisions[v][n].uid = w.uid
  BY <1>1, <1>2 DEF RevisionsOK
<1>4. /\ objects \in [Names -> Obj] /\ lastUid \in Nat /\ objects[n] \in Obj
  BY <1>1 DEF Types
<1>5. Stored(w) \in Obj
  BY <1>1, <1>4 DEF Stored, Absent, Obj
<1>6. /\ objects' \in [Names -> Obj] /\ objects'[n] = Stored(w)
      /\ \A m \in Names \ {n} : objects'[m] = objects[m]
  BY <1>1, <1>4, <1>5 DEF Execute
<1>7. CASE w.uid = 0
  <2>1. w.op = "put"
    BY <1>1, <1>3, <1>7
  <2>2. Created(n)
    BY <1>2, <1>4, <1>6, <1>7, <2>1 DEF Created, Passes, Execute, Stored
  <2>. QED
    BY <1>6, <2>2 DEF Moves
<1>8. CASE w.uid # 0
  <2>1. /\ objects[n].uid = w.uid /\ objects[n].owned /\ objects[n].version <= v
        /\ lastUid' = lastUid
    BY <1>8 DEF Justified, Passes, Execute
  <2>2. CASE w.op = "delete"
    BY <1>2, <1>3, <1>6, <1>8, <2>1, <2>2 DEF Moves, Deleted, Stored
  <2>3. CASE w.op = "put"
    <3>1. Stored(w).uid = w.uid /\ Stored(w).owned /\ Stored(w).version = v
      BY <1>8, <2>3 DEF Stored
    <3>. QED
      BY <1>1, <1>2, <1>4, <1>6, <1>8, <2>1, <3>1 DEF Moves, Replaced, Obj
  <2>. QED
    BY <1>1, <2>2, <2>3
<1>. QED
  BY <1>7, <1>8

\* A move keeps the objects within the invariant and undoes nothing that is
\* done: an update is not older, and a removed object does not come back
\* with its UID.
LEMMA MovesKeep ==
  ASSUME Types, RevisionsOK, ObjectsOK, NEW n \in Names, Moves(n), UNCHANGED <<row, revisions>>
  PROVE  /\ RevisionsOK' /\ ObjectsOK'
         /\ lastUid' \in Nat
         /\ \A m \in Names, v \in Issued : Done(m, v) => Done(m, v)'
<1>0. lastUid \in Nat /\ lastUid' \in Nat /\ lastUid <= lastUid'
  BY DEF Types, Moves, Created, Replaced, Deleted
<1>1. RevisionsOK'
  BY <1>0, RevisionTypes DEF RevisionsOK, Issued
<1>2. \A v : Accepted(v)' = Accepted(v)
  BY DEF Accepted, Valid, Issued
<1>3. ObjectsOK'
  <2> SUFFICES ASSUME NEW m \in Names
               PROVE  /\ objects'[m].uid <= lastUid'
                      /\ objects'[m].owned => objects'[m].uid # 0 /\ Accepted(objects'[m].version)
                      /\ ~objects'[m].owned => objects'[m].version = 0
    BY <1>2 DEF ObjectsOK
  <2>1. CASE m # n
    BY <1>0, <2>1, RevisionTypes DEF Moves, ObjectsOK
  <2>2. CASE m = n
    BY <1>0, <2>2, RevisionTypes DEF Moves, ObjectsOK, Created, Replaced, Deleted, Absent
  <2>. QED
    BY <2>1, <2>2
<1>4. ASSUME NEW m \in Names, NEW v \in Issued, Done(m, v)
      PROVE  Done(m, v)'
  <2>1. CASE m # n
    BY <1>4, <2>1 DEF Moves, Done
  <2>2. CASE m = n /\ Created(n)
    <3>1. ~objects[m].owned /\ revisions[v][m].uid <= lastUid /\ revisions[v][m].uid \in Nat
      BY <2>2, RevisionTypes DEF Created, ObjectsOK, RevisionsOK
    <3>. QED
      BY <1>0, <1>4, <2>2, <3>1 DEF Created, Done
  <2>3. CASE m = n /\ Replaced(n)
    <3>1. objects'[m].version \in Nat /\ objects[m].version \in Nat /\ v \in Nat
      BY RevisionTypes DEF Moves, Obj, Issued
    <3>. QED
      BY <1>4, <2>3, <3>1 DEF Replaced, Done
  <2>4. CASE m = n /\ Deleted(n)
    <3>1. PICK u \in Issued : /\ revisions[u][n].op = "delete"
                              /\ revisions[u][n].uid = objects[n].uid
                              /\ objects[n].version <= u
      BY <2>4 DEF Deleted
    <3>2. /\ objects[n].version \in Nat /\ v \in Nat /\ u \in Nat /\ row.desired \in Nat
          /\ u <= row.desired
      BY RevisionTypes DEF Issued
    <3>3. ASSUME revisions[v][n].op = "put", objects[n].version >= v
          PROVE  u \in v + 1 .. row.desired
      <4>1. u # v
        BY <3>1, <3>3
      <4>. QED
        BY <3>1, <3>2, <3>3, <4>1
    <3>4. Absent.uid = 0
      BY DEF Absent
    <3>5. revisions[v][n].op = "delete" => revisions[v][n].uid # 0
      BY DEF RevisionsOK
    <3>. QED
      BY <1>4, <2>4, <3>1, <3>3, <3>4, <3>5 DEF Done, Deleted
  <2>5. CASE UNCHANGED objects
    BY <1>4, <2>5 DEF Done
  <2>. QED
    BY <2>1, <2>2, <2>3, <2>4, <2>5 DEF Moves
<1>. QED
  BY <1>0, <1>1, <1>3, <1>4

\* Whatever leaves the revisions and the objects alone leaves what is done
\* and justified alone.
LEMMA Frame ==
  ASSUME IInv, UNCHANGED <<revisions, objects, lastUid>>, row'.desired = row.desired
  PROVE  /\ RevisionsOK' /\ ObjectsOK'
         /\ \A v : Accepted(v)' = Accepted(v)
         /\ \A n, v : Done(n, v)' = Done(n, v)
         /\ \A v : AllDone(v)' = AllDone(v)
         /\ \A n, op, v, uid, clean : Justified(n, op, v, uid, clean)' = Justified(n, op, v, uid, clean)
<1>1. \A v : Accepted(v)' = Accepted(v)
  BY DEF Accepted, Valid, Issued
<1>2. \A n, v : Done(n, v)' = Done(n, v)
  BY DEF Done
<1>3. \A v : AllDone(v)' = AllDone(v)
  BY <1>1, <1>2 DEF AllDone
<1>4. \A n, op, v, uid, clean : Justified(n, op, v, uid, clean)' = Justified(n, op, v, uid, clean)
  BY <1>1 DEF Justified
<1>5. RevisionsOK'
  BY DEF IInv, RevisionsOK, Issued
<1>6. ObjectsOK'
  BY <1>1 DEF IInv, ObjectsOK
<1>. QED
  BY <1>1, <1>2, <1>3, <1>4, <1>5, <1>6

\* So it does for an agent that does not move.
LEMMA AgentKept ==
  ASSUME IInv, UNCHANGED <<revisions, objects, lastUid>>, row'.desired = row.desired,
         NEW a \in Agents, agents'[a] = agents[a]
  PROVE  AgentOK(a)'
<1>1. AgentOK(a)
  BY DEF IInv
<1>4. /\ Accepted(agents[a].version)' = Accepted(agents[a].version)
      /\ \A n : Done(n, agents[a].version)' = Done(n, agents[a].version)
  BY DEF Accepted, Done, Valid, Issued
<1>5. Justified(agents[a].name, Item(a, agents[a].name).op, agents[a].version,
                agents[a].uid, agents[a].clean)'
      = Justified(agents[a].name, Item(a, agents[a].name).op, agents[a].version,
                agents[a].uid, agents[a].clean)
  BY <1>4 DEF Justified, Item
<1>. QED
  BY <1>1, <1>4, <1>5 DEF AgentOK

\* A step that touches neither objects, agents nor requests.
LEMMA QuietSteps ==
  ASSUME IInv, UNCHANGED <<revisions, agents, objects, lastUid, writes>>,
         row'.desired = row.desired, row'.acked = row.acked,
         \E L : Typed(L)', reports' \subseteq reports
  PROVE  IInv'
<1>1. Types'
  BY DEF IInv, Types
<1>2. \A a \in Agents : AgentOK(a)'
  BY AgentKept
<1>3. WritesOK' /\ ReportsOK' /\ AckedOK'
  BY Frame DEF IInv, WritesOK, ReportsOK, AckedOK
<1>. QED
  BY <1>1, <1>2, <1>3, Frame DEF IInv

\* Credentials and leases change, a report is lost.
LEMMA ControlPlaneKeeps ==
  ASSUME IInv, \/ Rotate \/ Revoke \/ CredentialExpires \/ MountSecret
               \/ LeaseExpires \/ LeaseExpiresEarly
               \/ \E r \in reports : LoseReport(r)
  PROVE  IInv'
<1>1. PICK L : Typed(L)
  BY DEF IInv, Types
<1>2. row \in Row(L) /\ 0 \in L /\ mounted \in Nat /\ row.epoch \in Nat /\ row.epoch + 1 \in Nat
  BY <1>1 DEF Typed, Row
<1>3. row' \in Row(L) /\ row'.desired = row.desired /\ row'.acked = row.acked
  BY <1>2 DEF Rotate, Revoke, CredentialExpires, MountSecret, LeaseExpires, LeaseExpiresEarly,
              LoseReport, Row
<1>4. mounted' \in Nat
  BY <1>2 DEF Rotate, Revoke, CredentialExpires, MountSecret, LeaseExpires, LeaseExpiresEarly,
              LoseReport
<1>5. reports' \subseteq reports /\ UNCHANGED <<revisions, agents, objects, lastUid, writes>>
  BY DEF Rotate, Revoke, CredentialExpires, MountSecret, LeaseExpires, LeaseExpiresEarly,
         LoseReport
<1>6. Typed(L)'
  BY <1>1, <1>3, <1>4, <1>5 DEF Typed
<1>. QED
  BY <1>3, <1>5, <1>6, QuietSteps

\* The control plane acknowledges what a report of the current lease says.
LEMMA ReportKeeps ==
  ASSUME IInv, NEW r \in reports, Report(r)
  PROVE  IInv'
<1>1. PICK L : Typed(L)
  BY DEF IInv, Types
<1>2. row \in Row(L) /\ 0 \in L /\ r \in Rep(L) /\ r.version \in Nat
  BY <1>1 DEF Typed, Rep
<1>3. /\ row' \in Row(L) /\ row'.desired = row.desired
      /\ row'.acked = row.acked \/ (r.ok /\ row'.acked = r.version)
  BY <1>2 DEF Report, Row
<1>4. reports' \subseteq reports /\ UNCHANGED <<revisions, mounted, agents, objects, lastUid, writes>>
  BY DEF Report
<1>5. Types'
  BY <1>1, <1>3, <1>4 DEF Typed, Types, IInv
<1>6. r.ok => AllDone(r.version)
  BY DEF IInv, ReportsOK
<1>7. row'.acked > 0 => AllDone(row'.acked)
  BY <1>3, <1>6 DEF IInv, AckedOK
<1>9. AckedOK'
  BY <1>3, <1>4, <1>7 DEF AckedOK, AllDone, Accepted, Valid, Done, Issued
<1>10. \A a \in Agents : AgentOK(a)'
  BY <1>3, <1>4, AgentKept
<1>11. WritesOK' /\ ReportsOK' /\ RevisionsOK' /\ ObjectsOK'
  BY <1>3, <1>4, Frame DEF IInv, WritesOK, ReportsOK
<1>. QED
  BY <1>5, <1>9, <1>10, <1>11 DEF IInv

\* A new revision: it changes no object, and what was done before stays
\* done.
LEMMA PutDesiredKeeps ==
  ASSUME IInv, NEW shape \in Shapes,
         NEW uid \in IF NeedsUid(shape) THEN 1 .. lastUid ELSE {0}, PutDesired(shape, uid)
  PROVE  IInv'
<1>1. PICK L : Typed(L)
  BY DEF IInv, Types
<1>2. /\ row \in Row(L) /\ row.desired \in Nat /\ row.desired + 1 \in Nat /\ lastUid \in Nat
  BY <1>1 DEF Typed, Row, IInv, Types
<1>3. uid \in Nat /\ uid <= lastUid
  BY <1>2
<1>4. shape \in [Names -> Ops]
  BY DeliveryAssumption
<1> DEFINE payload == Payload(shape, uid)
<1>5. \A n \in Names : shape[n] \in Ops /\ payload[n] \in Entry /\ payload[n].uid <= lastUid
  BY <1>2, <1>3, <1>4 DEF Payload, Entry, Ops
<1>6. \A n \in Names : payload[n].op = "delete" => payload[n].uid # 0
  BY <1>2, <1>4 DEF Payload, NeedsUid
<1>7. payload \in [Names -> Entry]
  BY <1>5 DEF Payload
<1> HIDE DEF payload
<1>8. revisions' = Append(revisions, payload)
  BY DEF PutDesired, payload
<1>9. /\ row' \in Row(L) /\ row'.desired = row.desired + 1 /\ row'.acked = row.acked
  BY <1>2 DEF PutDesired, Row
<1>10. /\ revisions \in Seq([Names -> Entry]) /\ Len(revisions) = row.desired
  BY DEF IInv, Types
<1>11. /\ revisions' \in Seq([Names -> Entry]) /\ Len(revisions') = row'.desired
       /\ \A v \in Issued : revisions'[v] = revisions[v]
       /\ revisions'[row'.desired] = payload
  BY <1>2, <1>7, <1>8, <1>9, <1>10 DEF Issued
<1>12. UNCHANGED <<mounted, agents, objects, lastUid, writes, reports>>
  BY DEF PutDesired
<1>13. Types'
  BY <1>1, <1>9, <1>11, <1>12 DEF Typed, Types, IInv
<1>14. \A v : v \in Issued' <=> v \in Issued \/ v = row'.desired
  BY <1>2, <1>9 DEF Issued
<1>15. RevisionsOK'
  BY <1>5, <1>6, <1>11, <1>12, <1>14 DEF IInv, RevisionsOK
<1>16. \A v : Accepted(v) => Accepted(v)'
  BY <1>11, <1>14 DEF Accepted, Valid
<1>17. ASSUME NEW n \in Names, NEW v \in Issued, Done(n, v)
       PROVE  Done(n, v)'
  <2>1. /\ v \in Nat /\ revisions'[v] = revisions[v] /\ objects' = objects
        /\ \A u \in v + 1 .. row.desired : u \in Issued /\ u \in v + 1 .. row'.desired
    BY <1>2, <1>9, <1>11, <1>12 DEF Issued
  <2>. QED
    BY <1>11, <1>17, <2>1 DEF Done
<1>18. \A v : AllDone(v) => AllDone(v)'
  BY <1>16, <1>17 DEF AllDone, Accepted
<1>19. ASSUME NEW n \in Names, NEW op, NEW v, NEW u, NEW c, Justified(n, op, v, u, c)
       PROVE  Justified(n, op, v, u, c)'
  <2>1. revisions'[v] = revisions[v]
    BY <1>11, <1>19 DEF Justified, Accepted
  <2>. QED
    BY <1>12, <1>16, <1>19, <2>1 DEF Justified
<1>20. ObjectsOK'
  BY <1>12, <1>16 DEF IInv, ObjectsOK
<1>21. WritesOK' /\ ReportsOK' /\ AckedOK'
  <2>1. \A w \in writes : w.name \in Names
    BY DEF IInv, Types, Req
  <2>2. WritesOK' /\ ReportsOK'
    BY <1>12, <1>18, <1>19, <2>1 DEF IInv, WritesOK, ReportsOK
  <2>3. row.acked > 0 => AllDone(row.acked)'
    <3>1. \A v : v = row.acked /\ v > 0 => AllDone(v)'
      BY <1>18 DEF IInv, AckedOK
    <3>. QED
      BY <1>9, <3>1 DEF AllDone, Accepted, Valid, Issued, Done
  <2>. QED
    BY <1>9, <2>2, <2>3 DEF AckedOK
<1>22. ASSUME NEW a \in Agents PROVE AgentOK(a)'
  <2>1. AgentOK(a) /\ agents'[a] = agents[a]
    BY <1>12 DEF IInv
  <2>2. ASSUME agents[a].pc \in {"apply", "held"}
        PROVE  /\ agents[a].version \in Issued
               /\ revisions'[agents[a].version] = revisions[agents[a].version]
               /\ Accepted(agents[a].version)'
    <3>1. Accepted(agents[a].version)
      BY <2>1, <2>2 DEF AgentOK
    <3>2. \A v : v = agents[a].version => Accepted(v)'
      BY <1>16, <3>1
    <3>. QED
      BY <1>11, <2>1, <3>1, <3>2 DEF Accepted, Issued, Valid
  <2>3. \A n, v : v = agents[a].version /\ v \in Issued /\ n \in Names \ agents[a].todo /\ agents[a].pc \in {"apply", "held"}
           => Done(n, v)'
    BY <1>17, <2>1 DEF AgentOK
  <2>4. \A n \in Names \ agents[a].todo : agents[a].pc \in {"apply", "held"} =>
           Done(n, agents[a].version)'
    BY <2>1, <2>2, <2>3 DEF Done
  <2>5. agents[a].pc = "held" => Justified(agents[a].name, Item(a, agents[a].name).op, agents[a].version, agents[a].uid, agents[a].clean)'
    BY <1>12, <2>1, <2>2 DEF AgentOK, Justified, Item
  <2>. QED
    BY <2>1, <2>2, <2>4, <2>5 DEF AgentOK
<1>. QED
  BY <1>13, <1>15, <1>20, <1>21, <1>22 DEF IInv

\* An agent whose copy is soiled by a move at its name keeps its promises.
LEMMA SoiledAgent ==
  ASSUME IInv, NEW n \in Names, Moves(n), UNCHANGED <<row, revisions>>, NEW b \in Agents,
         agents'[b] = IF agents[b].name = n THEN [agents[b] EXCEPT !.clean = FALSE] ELSE agents[b]
  PROVE  AgentOK(b)'
<1>1. PICK L : Typed(L)
  BY DEF IInv, Types
<1>2. agents[b] \in Agent(L)
  BY <1>1 DEF Typed
<1>3. /\ agents'[b].pc = agents[b].pc /\ agents'[b].version = agents[b].version
      /\ agents'[b].todo = agents[b].todo /\ agents'[b].name = agents[b].name
      /\ agents'[b].uid = agents[b].uid
      /\ agents'[b].clean => agents[b].clean /\ agents[b].name # n
  BY <1>2 DEF Agent
<1>4. AgentOK(b)
  BY DEF IInv
<1>5. Accepted(agents[b].version)' = Accepted(agents[b].version)
  BY <1>3 DEF Accepted, Valid, Issued
<1>6. \A m \in Names, v \in Issued : Done(m, v) => Done(m, v)'
  BY MovesKeep DEF IInv
<1>7. \A m, v : v = agents[b].version /\ v \in Issued /\ m \in Names \ agents[b].todo
                /\ agents[b].pc \in {"apply", "held"} => Done(m, v)'
  BY <1>4, <1>6 DEF AgentOK
<1>8. agents[b].pc \in {"apply", "held"} =>
        /\ \A m \in agents[b].todo : revisions'[agents'[b].version][m].op # "skip"
        /\ \A m \in Names \ agents[b].todo : Done(m, agents[b].version)'
  BY <1>3, <1>4, <1>7 DEF Done, AgentOK, Accepted
<1>9. agents[b].pc = "held" => Justified(agents[b].name, Item(b, agents[b].name).op,
                                         agents[b].version, agents[b].uid, agents[b].clean)'
  BY <1>3, <1>4, <1>5 DEF AgentOK, Justified, Item, Moves
<1>. QED
  BY <1>3, <1>4, <1>5, <1>8, <1>9 DEF AgentOK

\* A move, together with what the agents and requests lose by it.
LEMMA MoveStep ==
  ASSUME IInv, NEW n \in Names, Moves(n), UNCHANGED <<row, revisions, mounted, reports>>,
         writes' \subseteq {x \in writes : x.name # n \/ x.uid = 0},
         \E L : Typed(L)', \A a \in Agents : AgentOK(a)'
  PROVE  IInv'
<1>1. /\ RevisionsOK' /\ ObjectsOK' /\ lastUid' \in Nat
      /\ \A m \in Names, v \in Issued : Done(m, v) => Done(m, v)'
  BY MovesKeep DEF IInv
<1>2. \A v : Accepted(v)' = Accepted(v)
  BY DEF Accepted, Valid, Issued
<1>3. \A v : AllDone(v) => AllDone(v)'
  BY <1>1, <1>2 DEF AllDone, Accepted
<1>4. Types'
  BY <1>1 DEF IInv, Types, Moves
<1>5. WritesOK'
  <2> SUFFICES ASSUME NEW w \in writes'
               PROVE  Justified(w.name, w.op, w.version, w.uid, w.clean)'
    BY DEF WritesOK
  <2>1. w.name \in Names /\ Justified(w.name, w.op, w.version, w.uid, w.clean)
    BY DEF IInv, Types, Req, WritesOK
  <2>. QED
    BY <1>2, <2>1 DEF Justified, Moves
<1>6. ReportsOK' /\ AckedOK'
  <2>1. \A v : v = row.acked /\ v > 0 => AllDone(v)'
    BY <1>3 DEF IInv, AckedOK
  <2>2. row.acked > 0 => AllDone(row.acked)'
    BY <2>1 DEF AllDone, Accepted, Valid, Issued, Done
  <2>. QED
    BY <1>3, <2>2 DEF IInv, ReportsOK, AckedOK
<1>. QED
  BY <1>1, <1>4, <1>5, <1>6 DEF IInv

\* Soiling copies keeps the types.
LEMMA SoiledAgents ==
  ASSUME NEW L, Typed(L), NEW n,
         agents' = [a \in Agents |-> IF agents[a].name = n
                                       THEN [agents[a] EXCEPT !.clean = FALSE] ELSE agents[a]],
         UNCHANGED <<row, mounted, reports>>
  PROVE  Typed(L)'
<1>1. \A a \in Agents : agents[a] \in Agent(L) /\ [agents[a] EXCEPT !.clean = FALSE] \in Agent(L)
  BY DEF Typed, Agent
<1>2. agents' \in [Agents -> Agent(L)]
  BY <1>1
<1>. QED
  BY <1>2 DEF Typed

\* Somebody else's object is such a move too.
LEMMA ForeignMoves ==
  ASSUME IInv, NEW n \in Names, CreateForeign(n)
  PROVE  Moves(n)
<1>1. Absent \in Obj /\ ~Absent.owned /\ Absent.version = 0
  BY DEF Absent, Obj
<1>2. lastUid \in Nat /\ lastUid + 1 \in Nat /\ objects \in [Names -> Obj]
  BY DEF IInv, Types
<1>3. /\ [Absent EXCEPT !.uid = lastUid + 1] \in Obj
      /\ [Absent EXCEPT !.uid = lastUid + 1].uid = lastUid + 1
      /\ [Absent EXCEPT !.uid = lastUid + 1].owned = Absent.owned
      /\ [Absent EXCEPT !.uid = lastUid + 1].version = Absent.version
  BY <1>1, <1>2 DEF Obj
<1>4. /\ objects[n].uid = 0 /\ lastUid' = lastUid + 1
      /\ objects' \in [Names -> Obj]
      /\ objects'[n] = [Absent EXCEPT !.uid = lastUid + 1]
      /\ \A m \in Names \ {n} : objects'[m] = objects[m]
  BY <1>2, <1>3 DEF CreateForeign
<1>. QED
  BY <1>1, <1>3, <1>4 DEF Moves, Created

\* A late request and a bystander.
LEMMA BystandersKeep ==
  ASSUME IInv, \/ \E w \in writes : ExecuteLate(w)
               \/ \E n \in Names : Touch(n) \/ CreateForeign(n)
  PROVE  IInv'
<1>1. PICK L : Typed(L)
  BY DEF IInv, Types
<1>2. ASSUME NEW w \in writes, ExecuteLate(w)
      PROVE  IInv'
  <2>1. w \in Req /\ w.name \in Names
    BY DEF IInv, Types, Req
  <2>2. Moves(w.name)
    BY <1>2, <2>1, ExecuteMoves DEF ExecuteLate, IInv, WritesOK
  <2>3. /\ UNCHANGED <<row, revisions, mounted, reports>>
        /\ writes' \subseteq {x \in writes : x.name # w.name \/ x.uid = 0}
    BY <1>2 DEF ExecuteLate
  <2>4. Typed(L)'
    BY <1>1, <1>2, SoiledAgents DEF ExecuteLate
  <2>5. \A a \in Agents : AgentOK(a)'
    BY <1>2, <2>1, <2>2, <2>3, SoiledAgent DEF ExecuteLate
  <2>. QED
    BY <2>1, <2>2, <2>3, <2>4, <2>5, MoveStep
<1>3. ASSUME NEW n \in Names, Touch(n) \/ CreateForeign(n)
      PROVE  IInv'
  <2>1. Moves(n)
    <3>1. CASE Touch(n)
      BY <3>1 DEF Touch, Moves, IInv, Types
    <3>2. CASE CreateForeign(n)
      BY <3>2, ForeignMoves
    <3>. QED
      BY <1>3, <3>1, <3>2
  <2>2. /\ UNCHANGED <<row, revisions, mounted, reports>> /\ Soil(n)
    BY <1>3 DEF Touch, CreateForeign
  <2>3. writes' \subseteq {x \in writes : x.name # n \/ x.uid = 0}
    BY <2>2 DEF Soil
  <2>4. Typed(L)'
    BY <1>1, <2>2, SoiledAgents DEF Soil
  <2>5. \A a \in Agents : AgentOK(a)'
    BY <2>1, <2>2, SoiledAgent DEF Soil
  <2>. QED
    BY <2>1, <2>2, <2>3, <2>4, <2>5, MoveStep
<1>. QED
  BY <1>2, <1>3

\* An agent's write that is answered: the name is done.
LEMMA WriteKeeps ==
  ASSUME IInv, NEW a \in Agents, Write(a)
  PROVE  IInv' /\ \E n \in Names : Moves(n)
<1>1. PICK L : Typed(L)
  BY DEF IInv, Types
<1>2. /\ agents[a] \in Agent(L) /\ agents[a].pc = "held" /\ AgentOK(a)
  BY <1>1 DEF Typed, Write, IInv
<1> DEFINE w == Request(a)
<1>14. PICK n, v : n = agents[a].name /\ v = agents[a].version
  OBVIOUS
<1>3. /\ n \in Names /\ Accepted(v) /\ v \in Issued
      /\ Justified(n, Item(a, n).op, v, agents[a].uid, agents[a].clean)
  BY <1>2, <1>14 DEF AgentOK, Accepted
<1>4. /\ w.name = n /\ w.op = Item(a, n).op /\ w.version = v
      /\ w.uid = agents[a].uid /\ w.clean = agents[a].clean
      /\ w = [name |-> n, op |-> Item(a, n).op, version |-> v, uid |-> agents[a].uid,
              clean |-> agents[a].clean]
  BY <1>14 DEF Request
<1>5. w \in Req
  BY <1>2, <1>3, <1>4, <1>14 DEF Req, Agent, Justified
<1>6. /\ Passes(w) /\ Execute(w) /\ UNCHANGED <<row, revisions, mounted, reports>>
      /\ writes' \subseteq {x \in writes : x.name # n \/ x.uid = 0}
  BY <1>4 DEF Write
<1> HIDE DEF w
<1>7. Moves(n)
  BY <1>3, <1>4, <1>5, <1>6, ExecuteMoves DEF IInv
<1>8. /\ agents'[a] = [agents[a] EXCEPT !.pc = "apply", !.todo = @ \ {n},
                                        !.name = "", !.uid = 0, !.clean = FALSE]
      /\ \A b \in Agents \ {a} : agents'[b] = IF agents[b].name = n
              THEN [agents[b] EXCEPT !.clean = FALSE] ELSE agents[b]
      /\ agents' \in [Agents -> Agent(L)]
  <2>1. \A b \in Agents : agents[b] \in Agent(L)
    BY <1>1 DEF Typed
  <2>2. \A b \in Agents : [agents[b] EXCEPT !.clean = FALSE] \in Agent(L)
    BY <2>1 DEF Agent
  <2>3. [agents[a] EXCEPT !.pc = "apply", !.todo = @ \ {n}, !.name = "", !.uid = 0, !.clean = FALSE]
          \in Agent(L)
    BY <2>1 DEF Agent
  <2>4. agents' = [b \in Agents |->
            IF b = a THEN [agents[a] EXCEPT !.pc = "apply", !.todo = @ \ {n},
                                            !.name = "", !.uid = 0, !.clean = FALSE]
            ELSE IF agents[b].name = n THEN [agents[b] EXCEPT !.clean = FALSE]
            ELSE agents[b]]
    BY <1>4 DEF Write, w
  <2>. QED
    BY <2>1, <2>2, <2>3, <2>4
<1>9. Typed(L)'
  BY <1>1, <1>6, <1>8 DEF Typed
<1>10. \A b \in Agents \ {a} : AgentOK(b)'
  BY <1>3, <1>6, <1>7, <1>8, SoiledAgent
<1>11. AgentOK(a)'
  <2>1. /\ agents'[a].pc = "apply" /\ agents'[a].todo = agents[a].todo \ {n}
        /\ agents'[a].version = v
    BY <1>2, <1>8, <1>14 DEF Agent
  <2>2. \A m \in Names, u \in Issued : Done(m, u) => Done(m, u)'
    BY <1>3, <1>6, <1>7, MovesKeep DEF IInv
  <2>3. Done(n, v)'
    <3>1. objects'[n] = Stored(w)
      BY <1>3, <1>4, <1>6 DEF Execute, IInv, Types
    <3>2. revisions' = revisions /\ row' = row /\ v \in Nat
      BY <1>2, <1>6, <1>14 DEF Agent
    <3>3. w.op = revisions[v][n].op /\ w.op \in {"put", "delete"}
      BY <1>3, <1>4, <1>14 DEF Item, Justified
    <3>4. CASE w.op = "delete"
      <4>1. objects'[n].uid = 0
        BY <3>1, <3>4 DEF Stored, Absent
      <4>2. revisions[v][n].uid # 0
        BY <1>3, <3>3, <3>4 DEF IInv, RevisionsOK
      <4>. QED
        BY <3>2, <3>3, <3>4, <4>1, <4>2, <2>1 DEF Done
    <3>5. CASE w.op = "put"
      <4>1. objects'[n].owned /\ objects'[n].version = v
        BY <1>4, <3>1, <3>5 DEF Stored
      <4>. QED
        BY <2>1, <3>2, <3>3, <3>5, <4>1 DEF Done
    <3>. QED
      BY <3>3, <3>4, <3>5
  <2>4. \A m, u : u = v /\ m \in Names \ agents[a].todo => Done(m, u)'
    BY <1>2, <1>3, <1>14, <2>2 DEF AgentOK
  <2>5. \A m \in Names \ agents'[a].todo : Done(m, agents[a].version)'
    BY <1>6, <1>14, <2>1, <2>3, <2>4 DEF Done
  <2>6. Accepted(agents[a].version)'
    BY <1>3, <1>6, <1>14, <2>1 DEF Accepted, Valid, Issued
  <2>. QED
    BY <1>2, <1>6, <1>14, <2>1, <2>5, <2>6 DEF AgentOK
<1>. QED
  BY <1>3, <1>6, <1>7, <1>9, <1>10, <1>11, MoveStep

\* A step of one agent that leaves the objects alone.
LEMMA OneAgent ==
  ASSUME IInv, UNCHANGED <<revisions, objects, lastUid>>,
         row'.desired = row.desired, row'.acked = row.acked,
         NEW a \in Agents, \A b \in Agents \ {a} : agents'[b] = agents[b], AgentOK(a)',
         \E L : Typed(L)', writes' \subseteq Req, WritesOK', ReportsOK'
  PROVE  IInv'
<1>1. Types'
  BY DEF IInv, Types
<1>2. \A b \in Agents : AgentOK(b)'
  BY AgentKept
<1>3. AckedOK'
  BY Frame DEF IInv, AckedOK
<1>. QED
  BY <1>1, <1>2, <1>3, Frame DEF IInv

\* The types of an agent that has nothing to do.
LEMMA IdleAgents ==
  ASSUME NEW L, 0 \in L
  PROVE  /\ Standing \in Agent(L) /\ Standing.pc = "standby"
         /\ Waiting \in Agent(L) /\ Waiting.pc = "idle"
<1>1. Standing \in Agent(L) /\ Standing.pc = "standby"
  BY DEF Standing, Agent
<1>. QED
  BY <1>1 DEF Waiting, Agent

\* The type of an agent that will report a failure.
LEMMA RejectingAgent ==
  ASSUME NEW L, Typed(L), NEW a \in Agents
  PROVE  Rejecting(a) \in Agent(L) /\ Rejecting(a).pc = "rejected"
<1>1. agents[a] \in Agent(L)
  BY DEF Typed
<1>. QED
  BY <1>1 DEF Rejecting, Agent

\* An agent that holds nothing owes nothing.
LEMMA IdleStep ==
  ASSUME IInv, NEW L, Typed(L), NEW a \in Agents, NEW s \in Agent(L), Becomes(a, s),
         s.pc \notin {"apply", "held"}, UNCHANGED <<row, revisions, mounted, objects, lastUid>>,
         writes' \subseteq Req, WritesOK', ReportsOK', reports' \subseteq Rep(L)
  PROVE  IInv'
<1>1. /\ agents' \in [Agents -> Agent(L)] /\ agents'[a] = s
      /\ \A b \in Agents \ {a} : agents'[b] = agents[b]
  BY DEF Becomes, Typed
<1>2. Typed(L)'
  BY <1>1 DEF Typed
<1>3. AgentOK(a)'
  BY <1>1 DEF AgentOK
<1>. QED
  BY <1>1, <1>2, <1>3, OneAgent

\* An agent that takes or gives up its work.
LEMMA ReleaseKeeps ==
  ASSUME IInv, NEW a \in Agents,
         BecomeWriter(a) \/ Standby(a) \/ WriteRefused(a) \/ GiveUp(a)
  PROVE  IInv'
<1>1. PICK L : Typed(L)
  BY DEF IInv, Types
<1>2. 0 \in L /\ reports \subseteq Rep(L) /\ writes \subseteq Req
  BY <1>1 DEF Typed, IInv, Types
<1>3. UNCHANGED <<row, revisions, mounted, objects, lastUid, writes, reports>>
  BY DEF BecomeWriter, Standby, WriteRefused, GiveUp
<1>4. \E s \in {Standing, Waiting, Rejecting(a)} : Becomes(a, s)
  BY DEF BecomeWriter, Standby, WriteRefused, GiveUp
<1>5. \A s \in {Standing, Waiting, Rejecting(a)} : s \in Agent(L) /\ s.pc \notin {"apply", "held"}
  BY <1>1, <1>2, IdleAgents, RejectingAgent
<1>6. WritesOK' /\ ReportsOK'
  BY <1>3, Frame DEF WritesOK, ReportsOK, IInv
<1>. QED
  BY <1>1, <1>2, <1>3, <1>4, <1>5, <1>6, IdleStep

\* What an agent sends is what it justified when it read.
LEMMA RequestJustified ==
  ASSUME IInv, NEW a \in Agents, agents[a].pc = "held"
  PROVE  /\ Request(a) \in Req
         /\ Justified(Request(a).name, Request(a).op, Request(a).version,
                      Request(a).uid, Request(a).clean)
<1>1. PICK L : Typed(L)
  BY DEF IInv, Types
<1>2. agents[a] \in Agent(L) /\ AgentOK(a)
  BY <1>1 DEF Typed, IInv
<1>3. /\ agents[a].name \in Names
      /\ Justified(agents[a].name, Item(a, agents[a].name).op, agents[a].version,
                   agents[a].uid, agents[a].clean)
  BY <1>2 DEF AgentOK
<1>4. Item(a, agents[a].name).op \in {"put", "delete"}
  BY <1>3 DEF Justified
<1>. QED
  BY <1>2, <1>3, <1>4 DEF Request, Req, Agent

\* A write without an answer stays possible, and the agent reports a
\* failure.
LEMMA WriteLostKeeps ==
  ASSUME IInv, NEW a \in Agents, WriteLost(a)
  PROVE  IInv'
<1>1. PICK L : Typed(L)
  BY DEF IInv, Types
<1>2. reports \subseteq Rep(L) /\ writes \subseteq Req
  BY <1>1 DEF Typed, IInv, Types
<1>3. /\ UNCHANGED <<row, revisions, mounted, objects, lastUid, reports>>
      /\ writes' = writes \cup {Request(a)} /\ Becomes(a, Rejecting(a)) /\ agents[a].pc = "held"
  BY DEF WriteLost
<1>4. ReportsOK'
  BY <1>3, Frame DEF ReportsOK, IInv
<1>5. PICK w : w = Request(a)
  OBVIOUS
<1>6. w \in Req /\ Justified(w.name, w.op, w.version, w.uid, w.clean)
  BY <1>3, <1>5, RequestJustified
<1>7. writes' = writes \cup {w}
  BY <1>3, <1>5
<1>8. WritesOK'
  BY <1>3, <1>6, <1>7, Frame DEF WritesOK, IInv
<1>. QED
  BY <1>1, <1>2, <1>3, <1>4, <1>6, <1>7, <1>8, RejectingAgent, IdleStep

\* An agent reports success when no name is left to do: then all is done.
LEMMA SendReportKeeps ==
  ASSUME IInv, NEW a \in Agents, SendReport(a)
  PROVE  IInv'
<1>1. PICK L : Typed(L)
  BY DEF IInv, Types
<1>2. 0 \in L /\ reports \subseteq Rep(L) /\ writes \subseteq Req /\ agents[a] \in Agent(L)
  BY <1>1 DEF Typed, IInv, Types
<1>3. PICK r : r = [token |-> agents[a].token, version |-> agents[a].version,
                    lease |-> agents[a].lease, ok |-> Applied(agents[a])]
  OBVIOUS
<1>4. r \in Rep(L)
  BY <1>2, <1>3 DEF Rep, Agent, Applied
<1>5. /\ UNCHANGED <<row, revisions, mounted, objects, lastUid, writes>>
      /\ reports' = reports \cup {r} /\ Becomes(a, Waiting)
  BY <1>3 DEF SendReport
<1>6. r.ok => AllDone(r.version)
  <2>1. r.ok => agents[a].pc = "apply" /\ agents[a].todo = {} /\ r.version = agents[a].version
    BY <1>3 DEF Applied
  <2>2. AgentOK(a)
    BY DEF IInv
  <2>. QED
    BY <2>1, <2>2 DEF AgentOK, AllDone
<1>7. ReportsOK' /\ WritesOK'
  BY <1>5, <1>6, Frame DEF ReportsOK, WritesOK, IInv
<1>. QED
  BY <1>1, <1>2, <1>4, <1>5, <1>7, IdleAgents, IdleStep

\* An agent receives a version under a fresh lease.
LEMMA PollKeeps ==
  ASSUME IInv, NEW a \in Agents, Poll(a) \/ PollLost(a)
  PROVE  IInv'
<1>1. PICK L : Typed(L)
  BY DEF IInv, Types
<1>2. PICK M : M = L \cup {FreshLease}
  OBVIOUS
<1>3. /\ row \in Row(L) /\ 0 \in L /\ agents \in [Agents -> Agent(L)] /\ reports \subseteq Rep(L)
      /\ mounted \in Nat
  BY <1>1 DEF Typed
<1>4. /\ row \in Row(M) /\ 0 \in M /\ agents \in [Agents -> Agent(M)] /\ reports \subseteq Rep(M)
      /\ FreshLease \in M /\ row.desired \in Nat /\ row.acked \in Nat
  <2>1. L \subseteq M /\ FreshLease \in M
    BY <1>2
  <2>2. Agent(L) \subseteq Agent(M)
    BY <2>1 DEF Agent
  <2>3. Rep(L) \subseteq Rep(M)
    BY <2>1 DEF Rep
  <2>4. row \in Row(M) /\ row.desired \in Nat /\ row.acked \in Nat
    BY <1>3, <2>1 DEF Row
  <2>. QED
    BY <1>3, <2>1, <2>2, <2>3, <2>4
<1>5. /\ row.desired > row.acked
      /\ row' = [row EXCEPT !.delivery = row.desired, !.lease = FreshLease]
      /\ UNCHANGED <<revisions, mounted, objects, lastUid, writes, reports>>
  BY DEF Poll, PollLost, Delivered
<1>6. /\ row' \in Row(M) /\ row'.desired = row.desired /\ row'.acked = row.acked
  BY <1>4, <1>5 DEF Row
<1>7. WritesOK' /\ ReportsOK'
  BY <1>5, <1>6, Frame DEF WritesOK, ReportsOK, IInv
<1>8. CASE PollLost(a)
  <2>1. Typed(M)' /\ agents' = agents
    BY <1>3, <1>4, <1>5, <1>6, <1>8 DEF Typed, PollLost
  <2>. QED
    BY <1>5, <1>6, <2>1, QuietSteps
<1>9. CASE Poll(a)
  <2> DEFINE payload == revisions[row.desired]
             todo == {n \in Names : payload[n].op # "skip"}
             pc == IF Valid(payload) THEN "apply" ELSE "rejected"
  <2>1. PICK s : s = [Waiting EXCEPT !.pc = pc, !.token = mounted, !.version = row.desired,
                                     !.lease = FreshLease, !.todo = todo]
    OBVIOUS
  <2>2. Becomes(a, s)
    BY <1>9, <2>1 DEF Poll
  <2>3. pc \in {"apply", "rejected"} /\ todo \in SUBSET Names
    OBVIOUS
  <2>4. s \in Agent(M) /\ s.pc = pc /\ s.version = row.desired /\ s.todo = todo
    <3>1. Waiting \in Agent(M)
      BY <1>4, IdleAgents
    <3> HIDE DEF pc, todo
    <3>. QED
      BY <1>3, <1>4, <2>1, <2>3, <3>1 DEF Agent
  <2>5. /\ agents' \in [Agents -> Agent(M)] /\ agents'[a] = s
        /\ \A b \in Agents \ {a} : agents'[b] = agents[b]
    BY <1>4, <2>2, <2>4 DEF Becomes
  <2>6. Typed(M)'
    BY <1>3, <1>4, <1>5, <1>6, <2>5 DEF Typed
  <2>7. AgentOK(a)'
    <3>1. /\ row.desired \in Issued /\ row.desired \in Issued'
      BY <1>4, <1>5, <1>6 DEF Issued
    <3>2. s.pc = "apply" => Accepted(row.desired)'
      BY <1>5, <1>6, <2>4, <3>1 DEF Accepted, Valid
    <3>3. \A n \in Names \ todo : revisions[row.desired][n].op = "skip"
      OBVIOUS
    <3>4. \A n \in Names \ todo : Done(n, row.desired)'
      BY <1>5, <1>6, <3>3 DEF Done
    <3>5. s.pc # "held"
      BY <2>4
    <3>6. /\ agents'[a].pc = s.pc /\ agents'[a].version = row.desired /\ agents'[a].todo = todo
          /\ row'.desired = row.desired /\ revisions' = revisions
      BY <1>5, <1>6, <2>4, <2>5
    <3>7. s.pc = "apply" => Accepted(agents[a].version)'
      BY <3>2, <3>6 DEF Accepted, Valid, Issued
    <3>8. \A n \in Names \ todo : Done(n, agents[a].version)'
      BY <3>4, <3>6 DEF Done
    <3>9. \A n \in todo : revisions'[agents'[a].version][n].op # "skip"
      BY <3>6
    <3> HIDE DEF todo, pc
    <3>. QED
      BY <3>5, <3>6, <3>7, <3>8, <3>9 DEF AgentOK
  <2>. QED
    BY <1>5, <1>6, <1>7, <2>5, <2>6, <2>7, OneAgent DEF IInv, Types
<1>. QED
  BY <1>8, <1>9

\* An agent reads an object: the name is done already, has to be written, or
\* is refused.
LEMMA GetKeeps ==
  ASSUME IInv, NEW a \in Agents, NEW n \in Names, Get(a, n)
  PROVE  IInv'
<1>1. PICK L : Typed(L)
  BY DEF IInv, Types
<1>2. PICK s : s = agents[a]
  OBVIOUS
<1>3. /\ s \in Agent(L) /\ AgentOK(a) /\ reports \subseteq Rep(L) /\ writes \subseteq Req
      /\ agents \in [Agents -> Agent(L)]
  BY <1>1, <1>2 DEF Typed, IInv, Types
<1>4. s.pc = "apply" /\ n \in s.todo /\ s.version \in Nat
  BY <1>2, <1>3 DEF Get, Agent
<1>5. /\ Accepted(s.version) /\ s.version \in Issued
      /\ \A m \in s.todo : revisions[s.version][m].op # "skip"
      /\ \A m \in Names \ s.todo : Done(m, s.version)
  BY <1>2, <1>3, <1>4 DEF AgentOK, Accepted
<1>6. PICK item : item = revisions[s.version][n]
  OBVIOUS
<1>7. item.op \in {"put", "delete"} /\ item.uid \in Nat
      /\ (item.op = "delete" => item.uid # 0)
  BY <1>4, <1>5, <1>6, RevisionTypes DEF IInv, Accepted, Valid, RevisionsOK
<1>8. UNCHANGED <<row, revisions, mounted, objects, lastUid, writes, reports>>
  BY DEF Get
<1>9. WritesOK' /\ ReportsOK'
  BY <1>8, Frame DEF WritesOK, ReportsOK, IInv
<1>10. CASE Becomes(a, Rejecting(a))
  BY <1>1, <1>3, <1>8, <1>9, <1>10, RejectingAgent, IdleStep
<1>11. ASSUME NEW t \in Agent(L), Becomes(a, t), AgentOK(a)'
       PROVE  IInv'
  <2>1. /\ agents' \in [Agents -> Agent(L)] /\ \A b \in Agents \ {a} : agents'[b] = agents[b]
    BY <1>3, <1>11 DEF Becomes
  <2>2. Typed(L)'
    BY <1>1, <1>8, <2>1 DEF Typed
  <2>. QED
    BY <1>3, <1>8, <1>9, <1>11, <2>1, <2>2, OneAgent
<1>12. /\ \A v : Accepted(v)' = Accepted(v)
       /\ \A m, v : Done(m, v)' = Done(m, v)
       /\ \A m, op, v, uid, c : Justified(m, op, v, uid, c)' = Justified(m, op, v, uid, c)
  BY <1>8, Frame
<1>13. ASSUME item.op = "delete", objects[n].uid = 0, Becomes(a, [s EXCEPT !.todo = @ \ {n}])
       PROVE  IInv'
  <2>1. PICK t : t = [s EXCEPT !.todo = @ \ {n}]
    OBVIOUS
  <2>2. t \in Agent(L) /\ t.pc = "apply" /\ t.todo = s.todo \ {n} /\ t.version = s.version
    BY <1>3, <1>4, <2>1 DEF Agent
  <2>3. agents'[a] = t
    BY <1>3, <1>13, <2>1 DEF Becomes
  <2>4. Done(n, s.version)
    BY <1>6, <1>7, <1>13 DEF Done
  <2>5. /\ Accepted(agents[a].version)'
        /\ \A m \in Names \ t.todo : Done(m, agents[a].version)'
    <3>1. /\ Accepted(s.version)' /\ \A m \in Names \ t.todo : Done(m, s.version)'
      BY <1>5, <1>12, <2>2, <2>4
    <3>. QED
      BY <2>2, <2>3, <3>1 DEF Accepted, Valid, Issued, Done
  <2>6. AgentOK(a)'
    BY <1>5, <1>8, <2>2, <2>3, <2>5 DEF AgentOK
  <2>. QED
    BY <1>11, <1>13, <2>1, <2>2, <2>6
<1>14. ASSUME ~IdentityMismatch(item, objects[n]), ~OwnershipConflict(item, objects[n], s.version),
              ~(item.op = "delete" /\ objects[n].uid = 0),
              Becomes(a, [s EXCEPT !.pc = "held", !.name = n, !.uid = objects[n].uid, !.clean = TRUE])
       PROVE  IInv'
  <2>1. PICK t : t = [s EXCEPT !.pc = "held", !.name = n, !.uid = objects[n].uid, !.clean = TRUE]
    OBVIOUS
  <2>2. objects[n].uid \in Nat /\ objects[n].version \in Nat
    BY RevisionTypes DEF IInv
  <2>3. /\ t \in Agent(L) /\ t.pc = "held" /\ t.todo = s.todo /\ t.version = s.version
        /\ t.name = n /\ t.uid = objects[n].uid /\ t.clean
    BY <1>3, <1>4, <2>1, <2>2 DEF Agent
  <2>4. agents'[a] = t
    BY <1>3, <1>14, <2>1 DEF Becomes
  <2>5. item.uid \in {0, objects[n].uid}
    BY <1>7, <1>14, <2>2 DEF IdentityMismatch, OwnershipConflict
  <2>6. objects[n].uid # 0 => objects[n].owned /\ objects[n].version <= s.version
    BY <1>4, <1>14, <2>2 DEF OwnershipConflict
  <2>7. Justified(n, item.op, s.version, t.uid, t.clean)
    BY <1>5, <1>6, <1>7, <2>3, <2>5, <2>6 DEF Justified
  <2>8. /\ Accepted(s.version)' /\ \A m \in Names \ t.todo : Done(m, s.version)'
        /\ Justified(n, item.op, s.version, t.uid, t.clean)'
    BY <1>5, <1>12, <2>3, <2>7
  <2>9. /\ Accepted(agents[a].version)'
        /\ \A m \in Names \ t.todo : Done(m, agents[a].version)'
    BY <2>3, <2>4, <2>8 DEF Accepted, Valid, Issued, Done
  <2>10. /\ agents'[a].version = s.version /\ agents'[a].name = n /\ agents'[a].uid = t.uid
         /\ agents'[a].clean = t.clean /\ agents'[a].pc = "held" /\ agents'[a].todo = t.todo
         /\ Item(a, agents[a].name).op' = item.op
    BY <1>6, <1>8, <2>3, <2>4 DEF Item
  <2>11. Justified(agents[a].name, Item(a, agents[a].name).op, agents[a].version,
                   agents[a].uid, agents[a].clean)'
    BY <2>8, <2>10 DEF Justified, Accepted, Valid, Issued
  <2>12. AgentOK(a)'
    BY <1>5, <1>8, <2>3, <2>9, <2>10, <2>11 DEF AgentOK
  <2>. QED
    BY <1>11, <1>14, <2>1, <2>3, <2>12
<1>. QED
  BY <1>2, <1>6, <1>10, <1>13, <1>14 DEF Get, Item

\* The invariant holds at the start.
LEMMA InitIInv == Init => IInv
<1> SUFFICES ASSUME Init PROVE IInv
  OBVIOUS
<1>1. row = [desired |-> 0, acked |-> 0, delivery |-> 0, lease |-> 0, epoch |-> 1,
             credential |-> "valid"]
      /\ revisions = <<>> /\ mounted = 1 /\ agents = [a \in Agents |-> Standing]
      /\ objects = [n \in Names |-> Absent] /\ lastUid = 0 /\ writes = {} /\ reports = {}
  BY DEF Init
<1>2. Typed({0})
  <2>1. row \in Row({0})
    BY <1>1 DEF Row
  <2>2. Standing \in Agent({0})
    BY IdleAgents
  <2>. QED
    BY <1>1, <2>1, <2>2 DEF Typed
<1>3. Absent \in Obj /\ Absent.uid = 0 /\ ~Absent.owned /\ Absent.version = 0
  BY DEF Absent, Obj
<1>4. Types
  BY <1>1, <1>2, <1>3 DEF Types
<1>5. RevisionsOK /\ ObjectsOK
  BY <1>1, <1>3 DEF RevisionsOK, ObjectsOK, Issued
<1>6. \A a \in Agents : AgentOK(a)
  BY <1>1, IdleAgents DEF AgentOK
<1>. QED
  BY <1>1, <1>4, <1>5, <1>6 DEF IInv, WritesOK, ReportsOK, AckedOK

\* Every step keeps it.
LEMMA StepIInv == IInv /\ [Next]_vars => IInv'
<1> SUFFICES ASSUME IInv, [Next]_vars PROVE IInv'
  OBVIOUS
<1>1. CASE UNCHANGED vars
  <2>1. \A L : Typed(L) => Typed(L)'
    BY <1>1 DEF vars, Typed
  <2>. QED
    BY <1>1, <2>1, QuietSteps DEF vars, IInv, Types
<1>2. ASSUME NEW a \in Agents,
             AgentStep(a) \/ Standby(a) \/ PollLost(a) \/ WriteLost(a) \/ GiveUp(a)
      PROVE  IInv'
  BY <1>2, ReleaseKeeps, PollKeeps, GetKeeps, WriteKeeps, WriteLostKeeps, SendReportKeeps
     DEF AgentStep
<1>. QED
  BY <1>1, <1>2, PutDesiredKeeps, ControlPlaneKeeps, ReportKeeps, BystandersKeep DEF Next

\* It always holds.
LEMMA Inductive == Spec => []IInv
  BY InitIInv, StepIInv, PTL DEF Spec

\* What a cluster acknowledges is applied (AckedIsApplied), for any names,
\* agents, revisions and numbers of faults: an acknowledgement passes over
\* no name whose object was not written, deleted or superseded, however
\* requests are lost, late or soiled by others.
THEOREM AckedIsAppliedAlways == Spec => []AckedIsApplied
<1>1. IInv => AckedIsApplied
  <2> SUFFICES ASSUME IInv PROVE AckedIsApplied
    OBVIOUS
  <2>1. row.acked > 0 => AllDone(row.acked)
    BY DEF IInv, AckedOK
  <2>2. ASSUME NEW v \in DOMAIN revisions, \E n \in Names : revisions[v][n].op = "bad"
        PROVE  row.acked # v /\ \A n \in Names : objects[n].version # v
    <3>1. ~Accepted(v)
      BY <2>2 DEF Accepted, Valid
    <3>2. v > 0 /\ v \in Nat
      BY <2>2 DEF IInv, Types
    <3>. QED
      BY <2>1, <3>1, <3>2 DEF AllDone, IInv, ObjectsOK
  <2>. QED
    BY <2>1, <2>2 DEF AckedIsApplied, AllDone, Done
<1>. QED
  BY <1>1, Inductive, PTL

\* No write touches an object that is not ours, goes back to an older
\* version or removes an object by another UID (WritesAreFenced).
THEOREM WritesAreFencedAlways == Spec => WritesAreFenced
<1> DEFINE Fenced(n) ==
         objects[n] # objects'[n] /\ objects[n].uid # 0 =>
           /\ objects[n].owned
           /\ IF objects'[n].uid = objects[n].uid
                THEN /\ objects'[n].version >= objects[n].version
                     /\ revisions[objects'[n].version][n].uid \in {0, objects[n].uid}
                ELSE \E v \in DOMAIN revisions :
                       revisions[v][n].op = "delete" /\ revisions[v][n].uid = objects[n].uid
<1>1. IInv /\ [Next]_vars => [\A n \in Names : Fenced(n)]_vars
  <2> SUFFICES ASSUME IInv, Next PROVE \A n \in Names : Fenced(n)
    BY DEF vars
  <2>1. UNCHANGED objects \/ \E m \in Names : Moves(m)
    <3>1. ASSUME NEW w \in writes, ExecuteLate(w) PROVE \E m \in Names : Moves(m)
      <4>1. w \in Req /\ w.name \in Names
        BY DEF IInv, Types, Req
      <4>. QED
        BY <3>1, <4>1, ExecuteMoves DEF ExecuteLate, IInv, WritesOK
    <3>2. ASSUME NEW n \in Names, CreateForeign(n) PROVE \E m \in Names : Moves(m)
      BY <3>2, ForeignMoves
    <3>. QED
      BY <3>1, <3>2, WriteKeeps
         DEF Next, AgentStep, PutDesired, Rotate, Revoke, CredentialExpires, MountSecret,
             LeaseExpires, LeaseExpiresEarly, Report, LoseReport, Touch, BecomeWriter, Poll,
             Get, WriteRefused, SendReport, Standby, PollLost, WriteLost, GiveUp
  <2>2. DOMAIN revisions = Issued
    BY DEF IInv, Types, Issued
  <2>3. ASSUME NEW m \in Names, Moves(m), NEW n \in Names PROVE Fenced(n)
    <3>1. CASE n # m
      BY <2>3, <3>1 DEF Moves
    <3>2. CASE n = m
      BY <2>2, <2>3, <3>2 DEF Moves, Created, Replaced, Deleted, Absent
    <3>. QED
      BY <3>1, <3>2
  <2>. QED
    BY <2>1, <2>3
<1>. QED
  BY <1>1, Inductive, PTL DEF Spec, WritesAreFenced

-----------------------------------------------------------------------------
(* Operator.                                                                *)

\* An object of the model's name.
Child == [uid : Nat, owner : Nat, generation : Nat, deleting : BOOLEAN]
\* The copy of one that a reconciliation holds.
Held == [uid : Nat, owner : Nat, deleting : BOOLEAN, clean : BOOLEAN]
\* The ModelDeployment.
ModelRow == [uid : Nat, generation : Nat, spec : Specs, observed : Nat, ok : BOOLEAN]
\* The reconciliation; before its first step it holds no model.
Run == [pc : {"down", "idle", "reading", "writing"}, model : ModelRow \cup {[uid |-> 0]},
        fresh : BOOLEAN, next : Nat, held : [Kinds -> Held], legacy : Nat, hpa : Nat]
\* A request about a child.
OpWrite == [kind : Kinds, op : {"apply", "delete"}, uid : Nat, clean : BOOLEAN,
          owner : Nat, generation : Nat]

\* The types. A model that exists has a UID.
OpTypes ==
    /\ model \in ModelRow /\ model.uid # 0
    /\ children \in [Kinds -> Child]
    /\ legacy \in Nat /\ hpa \in Nat
    /\ run \in Run
    /\ late \subseteq OpWrite

\* A reconciliation is under way.
Active == run.pc \in {"reading", "writing"}

\* A child or request of this owner and generation is not ahead of model m:
\* it is of an earlier model of the name, or not of a newer generation.
Upto(owner, generation, m) == owner < m.uid \/ (owner = m.uid /\ generation <= m.generation)

\* A child with an owner exists, only a ScaledObject lingers while it is
\* deleted, and no child is ahead of the model.
ChildrenOK ==
    \A k \in Kinds :
        /\ children[k].owner # 0 => children[k].uid # 0
        /\ children[k].deleting => k = "scaler" /\ children[k].owner # 0
        /\ Upto(children[k].owner, children[k].generation, model)

\* A late request may do no harm: it belongs to a model that was there,
\* never removes a workload, creates or updates a scaler only after the old
\* HPA is gone, and while its copy is clean the object is the one that was
\* read, ours and not newer.
Sound(w) ==
    /\ w.owner # 0
    /\ Upto(w.owner, w.generation, model)
    /\ w.kind = "workload" => w.op = "apply"
    /\ w.op = "delete" => w.uid # 0
    /\ w.kind = "scaler" /\ w.op = "apply" => legacy = 0
    /\ w.uid # 0 /\ w.clean =>
         /\ children[w.kind].uid = w.uid /\ children[w.kind].owner = w.owner
         /\ children[w.kind].generation <= w.generation
         /\ ~children[w.kind].deleting

\* All late requests are sound.
OpWritesOK == \A w \in late : Sound(w)

\* A ScaledObject of any model excludes the old HPA.
ScalerOK == children["scaler"].owner # 0 => legacy = 0

\* A clean copy is what the object still is.
CopiesOK ==
    \A k \in Kinds : run.held[k].uid # 0 /\ run.held[k].clean =>
        /\ children[k].uid = run.held[k].uid /\ children[k].owner = run.held[k].owner
        /\ children[k].deleting = run.held[k].deleting

\* Nothing is ahead of the model that the reconciliation works from, and
\* while its copy is fresh that is the model itself. This is what keeps a
\* write from taking a child back.
NewestOK ==
    /\ run.model \in ModelRow /\ run.model.uid # 0
    /\ Upto(run.model.uid, run.model.generation, model)
    /\ run.fresh => run.model.uid = model.uid /\ run.model.generation = model.generation
    /\ \A k \in Kinds : Upto(children[k].owner, children[k].generation, run.model)
    /\ \A w \in late : Upto(w.owner, w.generation, run.model)

\* Where the reconciliation stands in its order: it writes only after the
\* scaler was found to be ours or absent, an old HPA that was not there when
\* it was read is still not there, and past the workload there is no old HPA
\* and no scaler under deletion.
SwitchOK ==
    /\ run.next # 0
    /\ run.pc = "writing" => ~NotOurs(run.held["scaler"])
    /\ run.pc = "writing" \/ run.next > 2 => (run.legacy = 0 => legacy = 0)
    /\ run.pc = "writing" /\ run.next > 2 => run.legacy = 0 /\ ~run.held["scaler"].deleting

\* Past the workload's turn the workload is this model's and no older than
\* the generation under way, which is what the status will say.
WorkloadOK ==
    run.pc = "writing" /\ run.next > 2 /\ run.model.uid = model.uid =>
        /\ children["workload"].owner = model.uid
        /\ children["workload"].generation >= run.model.generation

\* The promises of a reconciliation under way.
RunOK == Active => NewestOK /\ CopiesOK /\ SwitchOK /\ WorkloadOK

\* The inductive invariant.
OpIInv == OpTypes /\ ChildrenOK /\ OpWritesOK /\ ScalerOK /\ StatusIsBacked /\ RunOK
-----------------------------------------------------------------------------
\* The fixed records and their types.
LEMMA Records ==
  /\ NoChild \in Child /\ NoChild.uid = 0 /\ NoChild.owner = 0 /\ NoChild.generation = 0
  /\ ~NoChild.deleting
  /\ NoCopy \in Held /\ NoCopy.uid = 0 /\ ~NoCopy.deleting /\ ~NoCopy.clean
  /\ Down \in Run /\ Down.pc = "down" /\ Resting \in Run /\ Resting.pc = "idle"
  /\ \A k \in Kinds : Resting.held[k] = NoCopy
<1>1. /\ NoChild \in Child /\ NoChild.uid = 0 /\ NoChild.owner = 0 /\ NoChild.generation = 0
      /\ ~NoChild.deleting
  BY DEF NoChild, Child
<1>2. NoCopy \in Held /\ NoCopy.uid = 0 /\ ~NoCopy.deleting /\ ~NoCopy.clean
  BY DEF NoCopy, Held
<1>3. [k \in Kinds |-> NoCopy] \in [Kinds -> Held]
  BY <1>2
<1>4. Down \in Run /\ Down.pc = "down" /\ Down.held = [k \in Kinds |-> NoCopy]
  BY <1>3 DEF Down, Run
<1>5. Resting \in Run /\ Resting.pc = "idle" /\ Resting.held = Down.held
  BY <1>4 DEF Resting, Run
<1>. QED
  BY <1>1, <1>2, <1>4, <1>5

\* The two orders, written out.
LEMMA Orders ==
  /\ Len(ReadOrder) = 4 /\ Len(WriteOrder) = 4
  /\ WriteOrder[1] = "scale" /\ WriteOrder[2] = "workload"
  /\ WriteOrder[3] = "extra" /\ WriteOrder[4] = "scaler"
  /\ ReadOrder[1] = "workload" /\ ReadOrder[2] = "hpas"
  /\ ReadOrder[3] = "scaler" /\ ReadOrder[4] = "extra"
  BY DEF ReadOrder, WriteOrder

\* A fresh UID is one: five candidates are too many to be all remembered.
LEMMA FreshIsNew ==
  ASSUME NEW k
  PROVE  FreshUid(k) \in Nat \ {0}
<1>1. CASE k = "scaler"
  <2>1. \E u \in 1 .. 5 : u \notin RememberedUids
    <3> SUFFICES ASSUME \A u \in 1 .. 5 : u \in RememberedUids PROVE FALSE
      OBVIOUS
    <3>1. 1 \in RememberedUids /\ 2 \in RememberedUids /\ 3 \in RememberedUids /\ 4 \in RememberedUids /\ 5 \in RememberedUids
      OBVIOUS
    <3>. QED
      BY <3>1 DEF RememberedUids
  <2>2. FreshUid(k) \in 1 .. 5
    BY <1>1, <2>1 DEF FreshUid
  <2>. QED
    BY <2>2
<1>2. CASE k # "scaler"
  BY <1>2 DEF FreshUid
<1>. QED
  BY <1>1, <1>2

\* The workload is always wanted.
LEMMA WorkloadWanted == Wanted("workload")
  BY Zenon DEF Wanted

\* The types of the parts.
LEMMA FieldTypes ==
  ASSUME OpTypes
  PROVE  /\ \A k \in Kinds : /\ children[k] \in Child /\ children[k].uid \in Nat
                             /\ children[k].owner \in Nat /\ children[k].generation \in Nat
                             /\ children[k].deleting \in BOOLEAN
         /\ \A k \in Kinds : /\ run.held[k] \in Held /\ run.held[k].uid \in Nat
                             /\ run.held[k].owner \in Nat /\ run.held[k].clean \in BOOLEAN
                             /\ run.held[k].deleting \in BOOLEAN
         /\ model.uid \in Nat /\ model.generation \in Nat /\ model.observed \in Nat
         /\ run.next \in Nat /\ run.legacy \in Nat /\ run.fresh \in BOOLEAN
         /\ run.held \in [Kinds -> Held]
         /\ \A w \in late : /\ w.kind \in Kinds /\ w.uid \in Nat /\ w.owner \in Nat
                            /\ w.generation \in Nat /\ w.clean \in BOOLEAN
                            /\ w.op \in {"apply", "delete"}
<1>1. \A k \in Kinds : children[k] \in Child
  BY DEF OpTypes
<1>2. run.held \in [Kinds -> Held] /\ run.next \in Nat /\ run.legacy \in Nat /\ run.fresh \in BOOLEAN
  BY DEF OpTypes, Run
<1>3. \A k \in Kinds : run.held[k] \in Held
  BY <1>2
<1>4. model.uid \in Nat /\ model.generation \in Nat /\ model.observed \in Nat
  BY DEF OpTypes, ModelRow
<1>5. \A w \in late : /\ w.kind \in Kinds /\ w.uid \in Nat /\ w.owner \in Nat
                      /\ w.generation \in Nat /\ w.clean \in BOOLEAN
                      /\ w.op \in {"apply", "delete"}
  BY DEF OpTypes, OpWrite
<1>. QED
  BY <1>1, <1>2, <1>3, <1>4, <1>5 DEF Child, Held

\* Soiling a copy changes nothing else of the reconciliation.
LEMMA SoiledRun ==
  ASSUME OpTypes, NEW k \in Kinds
  PROVE  /\ Soiled(k) \in Run
         /\ Soiled(k).pc = run.pc /\ Soiled(k).model = run.model /\ Soiled(k).fresh = run.fresh
         /\ Soiled(k).next = run.next /\ Soiled(k).legacy = run.legacy
         /\ \A j \in Kinds : /\ Soiled(k).held[j].uid = run.held[j].uid
                             /\ Soiled(k).held[j].owner = run.held[j].owner
                             /\ Soiled(k).held[j].deleting = run.held[j].deleting
                             /\ Soiled(k).held[j].clean => j # k /\ run.held[j].clean
<1>1. run \in Run /\ run.held \in [Kinds -> Held]
  BY DEF OpTypes, Run
<1>2. \A j \in Kinds : run.held[j] \in Held
  BY <1>1
<1>3. PICK c : c = [run.held[k] EXCEPT !.clean = FALSE]
  OBVIOUS
<1>4. /\ c \in Held /\ c.uid = run.held[k].uid /\ c.owner = run.held[k].owner
      /\ c.deleting = run.held[k].deleting /\ ~c.clean
  BY <1>2, <1>3 DEF Held
<1>5. PICK h : h = [run.held EXCEPT ![k] = c]
  OBVIOUS
<1>6. h \in [Kinds -> Held] /\ h[k] = c /\ \A j \in Kinds \ {k} : h[j] = run.held[j]
  BY <1>1, <1>4, <1>5
<1>7. Soiled(k) = [run EXCEPT !.held = h]
  BY <1>3, <1>5 DEF Soiled
<1>8. /\ Soiled(k) \in Run /\ Soiled(k).held = h
      /\ Soiled(k).pc = run.pc /\ Soiled(k).model = run.model /\ Soiled(k).fresh = run.fresh
      /\ Soiled(k).next = run.next /\ Soiled(k).legacy = run.legacy
  BY <1>1, <1>6, <1>7 DEF Run
<1>. QED
  BY <1>2, <1>4, <1>6, <1>8

-----------------------------------------------------------------------------
\* The models that somebody works for: the reconciliation, and late
\* requests.
Masters == {run.model.uid} \cup {w.owner : w \in late}

\* A child appears where there was none; a scaler of ours only without the
\* old HPA.
Born(k) ==
    /\ children[k].uid = 0 /\ children'[k].uid # 0 /\ ~children'[k].deleting
    /\ k = "scaler" /\ children'[k].owner # 0 => legacy = 0

\* A child of one of the masters is written again, not from an older
\* generation.
Renewed(k) ==
    /\ children[k].owner # 0 /\ children[k].owner \in Masters
    /\ children'[k].uid = children[k].uid /\ children'[k].owner = children[k].owner
    /\ children'[k].deleting = children[k].deleting
    /\ children'[k].generation >= children[k].generation

\* A child that has an owner goes, or begins to; the workload only when its
\* model is gone.
Leaves(k) ==
    /\ children[k].owner # 0
    /\ k = "workload" => children[k].owner # model.uid
    /\ \/ children'[k] = NoChild
       \/ k = "scaler" /\ children'[k] = [children[k] EXCEPT !.deleting = TRUE]

\* What a step may do to the children: one of the above, at one kind, and
\* never ahead of the model or of the reconciliation's model.
OpMoves(k) ==
    /\ children' \in [Kinds -> Child]
    /\ \A j \in Kinds \ {k} : children'[j] = children[j]
    /\ Upto(children'[k].owner, children'[k].generation, model)
    /\ Active => Upto(children'[k].owner, children'[k].generation, run.model)
    /\ Born(k) \/ Renewed(k) \/ Leaves(k) \/ children'[k] = children[k]

\* Marking a child as deleted changes nothing else of it.
LEMMA GoneOrMarked ==
  ASSUME OpTypes, NEW k \in Kinds
  PROVE  /\ [children[k] EXCEPT !.deleting = TRUE] \in Child
         /\ [children[k] EXCEPT !.deleting = TRUE].uid = children[k].uid
         /\ [children[k] EXCEPT !.deleting = TRUE].owner = children[k].owner
         /\ [children[k] EXCEPT !.deleting = TRUE].generation = children[k].generation
         /\ [children[k] EXCEPT !.deleting = TRUE].deleting
<1>1. children[k] \in Child
  BY FieldTypes
<1>. QED
  BY <1>1 DEF Child

\* No child is ahead of anybody.
LEMMA NothingIsOld ==
  ASSUME OpTypes, Active => run.model \in ModelRow /\ run.model.uid # 0
  PROVE  /\ Upto(0, 0, model)
         /\ Active => Upto(0, 0, run.model)
<1>1. model.uid \in Nat /\ model.uid # 0 /\ (Active => run.model.uid \in Nat /\ run.model.uid # 0)
  BY DEF OpTypes, ModelRow
<1>. QED
  BY <1>1 DEF Upto

\* A sound request that the API accepts is such a move.
LEMMA PassMoves ==
  ASSUME OpIInv, NEW w \in OpWrite, Sound(w), Admitted(w), w.owner \in Masters,
         Active => Upto(w.owner, w.generation, run.model),
         children' = [children EXCEPT ![w.kind] = StoredChild(w)]
  PROVE  OpMoves(w.kind)
<1>1. PICK k \in Kinds : k = w.kind
  BY DEF OpWrite
<1>2. /\ w.uid \in Nat /\ w.owner \in Nat /\ w.generation \in Nat /\ w.op \in {"apply", "delete"}
  BY DEF OpWrite
<1>3. children \in [Kinds -> Child] /\ children[k] \in Child
  BY DEF OpIInv, OpTypes
<1>4. Active => run.model \in ModelRow /\ run.model.uid # 0
  BY DEF OpIInv, RunOK, NewestOK
<1>5. /\ Upto(children[k].owner, children[k].generation, model)
      /\ Active => Upto(children[k].owner, children[k].generation, run.model)
  BY DEF OpIInv, ChildrenOK, RunOK, NewestOK
<1>6. ASSUME StoredChild(w) \in Child
      PROVE  /\ children' \in [Kinds -> Child] /\ children'[k] = StoredChild(w)
             /\ \A j \in Kinds \ {k} : children'[j] = children[j]
  BY <1>1, <1>3, <1>6
<1>7. CASE w.op = "delete"
  <2>1. /\ w.uid # 0 /\ children[k].owner = w.owner /\ w.owner # 0 /\ k # "workload"
    BY <1>1, <1>7 DEF Sound, Admitted
  <2>2. CASE k = "scaler"
    <3>1. StoredChild(w) = [children[k] EXCEPT !.deleting = TRUE]
      BY <1>1, <1>7, <2>2 DEF StoredChild
    <3>. QED
      BY <1>1, <1>5, <1>6, <2>1, <2>2, <3>1, GoneOrMarked DEF OpMoves, Leaves, OpIInv
  <2>3. CASE k # "scaler"
    <3>1. StoredChild(w) = NoChild
      BY <1>1, <1>7, <2>3 DEF StoredChild
    <3>. QED
      BY <1>1, <1>4, <1>6, <2>1, <3>1, Records, NothingIsOld DEF OpMoves, Leaves, OpIInv
  <2>. QED
    BY <2>2, <2>3
<1>8. CASE w.op = "apply" /\ w.uid = 0
  <2>1. FreshUid(k) \in Nat /\ FreshUid(k) # 0
    BY FreshIsNew
  <2>2. StoredChild(w) = [uid |-> FreshUid(k), owner |-> w.owner, generation |-> w.generation,
                     deleting |-> FALSE]
    BY <1>1, <1>8 DEF StoredChild
  <2>3. /\ StoredChild(w) \in Child /\ StoredChild(w).uid # 0 /\ StoredChild(w).owner = w.owner
        /\ StoredChild(w).generation = w.generation /\ ~StoredChild(w).deleting
    BY <1>2, <2>1, <2>2 DEF Child
  <2>4. children[k].uid = 0 /\ (k = "scaler" => legacy = 0) /\ Upto(w.owner, w.generation, model)
    BY <1>1, <1>8 DEF Admitted, Sound
  <2>. QED
    BY <1>1, <1>6, <2>3, <2>4 DEF OpMoves, Born
<1>9. CASE w.op = "apply" /\ w.uid # 0
  <2>1. /\ children[k].uid = w.uid /\ children[k].owner = w.owner /\ w.owner # 0
        /\ children[k].generation <= w.generation /\ Upto(w.owner, w.generation, model)
    BY <1>1, <1>9 DEF Admitted, Sound
  <2>2. StoredChild(w) = [children[k] EXCEPT !.generation = w.generation]
    BY <1>1, <1>9 DEF StoredChild
  <2>3. /\ StoredChild(w) \in Child /\ StoredChild(w).uid = children[k].uid
        /\ StoredChild(w).owner = children[k].owner /\ StoredChild(w).generation = w.generation
        /\ StoredChild(w).deleting = children[k].deleting
    BY <1>2, <1>3, <2>2 DEF Child
  <2>4. children[k].generation \in Nat
    BY <1>3 DEF Child
  <2>. QED
    BY <1>1, <1>2, <1>6, <2>1, <2>3, <2>4 DEF OpMoves, Renewed
<1>. QED
  BY <1>2, <1>7, <1>8, <1>9

\* A move keeps children, late requests, scalers and the status within the
\* invariant.
LEMMA OpMovesKeep ==
  ASSUME OpIInv, NEW k \in Kinds, OpMoves(k), UNCHANGED <<model, legacy>>,
         late' \subseteq {w \in late : w.kind # k \/ w.uid = 0 \/ ~w.clean}
  PROVE  ChildrenOK' /\ OpWritesOK' /\ ScalerOK' /\ StatusIsBacked'
<1>1. children[k] \in Child /\ children'[k] \in Child
  BY DEF OpIInv, OpTypes, OpMoves
<1>2. /\ children'[k].owner # 0 => children'[k].uid # 0
      /\ children'[k].deleting => k = "scaler" /\ children'[k].owner # 0
      /\ k = "scaler" /\ children'[k].owner # 0 => legacy = 0
  <2>1. /\ children[k].owner # 0 => children[k].uid # 0
        /\ children[k].deleting => k = "scaler" /\ children[k].owner # 0
        /\ k = "scaler" /\ children[k].owner # 0 => legacy = 0
    BY DEF OpIInv, ChildrenOK, ScalerOK
  <2>2. CASE Born(k)
    BY <2>2 DEF Born
  <2>3. CASE Renewed(k) \/ children'[k] = children[k]
    BY <2>1, <2>3 DEF Renewed
  <2>4. CASE Leaves(k)
    BY <2>1, <2>4, Records, GoneOrMarked DEF Leaves, OpIInv
  <2>. QED
    BY <2>2, <2>3, <2>4 DEF OpMoves
<1>3. ChildrenOK'
  <2> SUFFICES ASSUME NEW j \in Kinds
               PROVE  /\ children'[j].owner # 0 => children'[j].uid # 0
                      /\ children'[j].deleting => j = "scaler" /\ children'[j].owner # 0
                      /\ Upto(children'[j].owner, children'[j].generation, model)
    BY DEF ChildrenOK, Upto
  <2>. QED
    BY <1>2 DEF OpMoves, OpIInv, ChildrenOK
<1>4. OpWritesOK'
  <2> SUFFICES ASSUME NEW w \in late' PROVE Sound(w)'
    BY DEF OpWritesOK
  <2>1. w \in late /\ Sound(w) /\ w.kind \in Kinds /\ (w.kind # k \/ w.uid = 0 \/ ~w.clean)
    BY FieldTypes DEF OpIInv, OpWritesOK
  <2>. QED
    BY <2>1 DEF Sound, Upto, OpMoves
<1>5. ScalerOK'
  BY <1>2 DEF ScalerOK, OpIInv, OpMoves, Kinds
<1>6. StatusIsBacked'
  <2>1. CASE k # "workload"
    BY <2>1 DEF StatusIsBacked, OpIInv, OpMoves, Kinds
  <2>2. CASE k = "workload" /\ model.ok
    <3>1. /\ children[k].owner = model.uid /\ children[k].generation >= model.observed
          /\ children[k].uid # 0 /\ model.observed \in Nat /\ children[k].generation \in Nat
          /\ children'[k].generation \in Nat
      BY <1>1, <2>2, FieldTypes DEF StatusIsBacked, OpIInv, ChildrenOK, OpTypes, Child
    <3>. QED
      BY <2>2, <3>1 DEF StatusIsBacked, OpMoves, Born, Renewed, Leaves
  <2>. QED
    BY <2>1, <2>2 DEF StatusIsBacked
<1>. QED
  BY <1>3, <1>4, <1>5, <1>6

\* So it does together with a copy that is soiled by it.
LEMMA SoiledKeeps ==
  ASSUME OpIInv, NEW k \in Kinds, OpMoves(k), UNCHANGED <<model, legacy, hpa>>, run' = Soiled(k),
         late' \subseteq {w \in late : w.kind # k \/ w.uid = 0 \/ ~w.clean}
  PROVE  OpIInv'
<1>1. ChildrenOK' /\ OpWritesOK' /\ ScalerOK' /\ StatusIsBacked'
  BY OpMovesKeep
<1>2. /\ run' \in Run
      /\ run'.pc = run.pc /\ run'.model = run.model /\ run'.fresh = run.fresh
      /\ run'.next = run.next /\ run'.legacy = run.legacy
      /\ \A j \in Kinds : /\ run'.held[j].uid = run.held[j].uid
                          /\ run'.held[j].owner = run.held[j].owner
                          /\ run'.held[j].deleting = run.held[j].deleting
                          /\ run'.held[j].clean => j # k /\ run.held[j].clean
  BY SoiledRun DEF OpIInv
<1>3. OpTypes'
  BY <1>2 DEF OpIInv, OpTypes, OpMoves
<1>4. ASSUME Active' PROVE NewestOK' /\ CopiesOK' /\ SwitchOK' /\ WorkloadOK'
  <2>1. Active /\ NewestOK /\ CopiesOK /\ SwitchOK /\ WorkloadOK
    BY <1>2, <1>4 DEF Active, OpIInv, RunOK
  <2>2. \A j \in Kinds : Upto(children'[j].owner, children'[j].generation, run.model)
    BY <2>1 DEF OpMoves, NewestOK
  <2>3. NewestOK'
    BY <1>2, <2>1, <2>2 DEF NewestOK, Upto
  <2>4. CopiesOK'
    BY <1>2, <2>1 DEF CopiesOK, OpMoves
  <2>5. SwitchOK'
    BY <1>2, <2>1 DEF SwitchOK, NotOurs, Kinds
  <2>6. WorkloadOK'
    <3>1. CASE k # "workload"
      BY <1>2, <2>1, <3>1 DEF WorkloadOK, OpMoves, Kinds
    <3>2. CASE k = "workload" /\ run.pc = "writing" /\ run.next > 2 /\ run.model.uid = model.uid
      <4>1. /\ children[k].owner = model.uid /\ children[k].generation >= run.model.generation
            /\ children[k].uid # 0 /\ children[k].generation \in Nat
            /\ run.model.generation \in Nat /\ children'[k].generation \in Nat
        BY <2>1, <3>2, FieldTypes DEF WorkloadOK, NewestOK, ModelRow, OpIInv, ChildrenOK,
           OpTypes, OpMoves, Child
      <4>. QED
        BY <1>2, <3>2, <4>1 DEF WorkloadOK, OpMoves, Born, Renewed, Leaves
    <3>. QED
      BY <1>2, <3>1, <3>2 DEF WorkloadOK
  <2>. QED
    BY <2>3, <2>4, <2>5, <2>6
<1>. QED
  BY <1>1, <1>3, <1>4 DEF OpIInv, RunOK

-----------------------------------------------------------------------------
\* A bystander's object or write, and garbage collection.
LEMMA OpBystandersKeep ==
  ASSUME OpIInv, NEW k \in Kinds, CreateForeignChild(k) \/ TouchChild(k) \/ Collect(k)
  PROVE  OpIInv' /\ OpMoves(k)
<1>1. UNCHANGED <<model, legacy, hpa>> /\ run' = Soiled(k) /\ late' = StillPossible(k)
  BY DEF CreateForeignChild, TouchChild, Collect
<1>2. late' \subseteq {w \in late : w.kind # k \/ w.uid = 0 \/ ~w.clean}
  BY <1>1 DEF StillPossible
<1>3. children \in [Kinds -> Child] /\ OpTypes
  BY DEF OpIInv, OpTypes
<1>4. Active => run.model \in ModelRow /\ run.model.uid # 0
  BY DEF OpIInv, RunOK, NewestOK
<1>5. /\ Upto(children[k].owner, children[k].generation, model)
      /\ Active => Upto(children[k].owner, children[k].generation, run.model)
  BY DEF OpIInv, ChildrenOK, RunOK, NewestOK
<1>6. OpMoves(k)
  <2>1. CASE TouchChild(k)
    BY <1>3, <1>5, <2>1 DEF TouchChild, OpMoves
  <2>2. CASE CreateForeignChild(k)
    <3>1. PICK c : c = [NoChild EXCEPT !.uid = FreshUid(k)]
      OBVIOUS
    <3>2. FreshUid(k) \in Nat /\ FreshUid(k) # 0
      BY FreshIsNew
    <3>3. c \in Child /\ c.uid # 0 /\ c.owner = 0 /\ c.generation = 0 /\ ~c.deleting
      BY <3>1, <3>2, Records DEF Child
    <3>4. /\ children' \in [Kinds -> Child] /\ children'[k] = c /\ children[k].uid = 0
          /\ \A j \in Kinds \ {k} : children'[j] = children[j]
      BY <1>3, <2>2, <3>1, <3>3 DEF CreateForeignChild
    <3>. QED
      BY <1>3, <1>4, <3>3, <3>4, NothingIsOld DEF OpMoves, Born
  <2>3. CASE Collect(k)
    <3>1. children[k].owner # 0 /\ children[k].owner # model.uid
      BY <2>3 DEF Collect
    <3>2. CASE k = "scaler"
      <4>1. /\ children' \in [Kinds -> Child]
            /\ children'[k] = [children[k] EXCEPT !.deleting = TRUE]
            /\ \A j \in Kinds \ {k} : children'[j] = children[j]
        BY <1>3, <2>3, <3>2, GoneOrMarked DEF Collect
      <4>. QED
        BY <1>3, <1>5, <3>1, <3>2, <4>1, GoneOrMarked DEF OpMoves, Leaves
    <3>3. CASE k # "scaler"
      <4>1. /\ children' \in [Kinds -> Child] /\ children'[k] = NoChild
            /\ \A j \in Kinds \ {k} : children'[j] = children[j]
        BY <1>3, <2>3, <3>3, Records DEF Collect
      <4>. QED
        BY <1>3, <1>4, <3>1, <4>1, Records, NothingIsOld DEF OpMoves, Leaves
    <3>. QED
      BY <3>2, <3>3
  <2>. QED
    BY <2>1, <2>2, <2>3
<1>. QED
  BY <1>1, <1>2, <1>6, SoiledKeeps

\* KEDA lets a ScaledObject go.
LEMMA FinishScalerKeeps ==
  ASSUME OpIInv, FinishScaler
  PROVE  OpIInv' /\ OpMoves("scaler")
<1>1. UNCHANGED <<model, legacy, hpa, late>> /\ run' = Soiled("scaler") /\ "scaler" \in Kinds
  BY DEF FinishScaler, Kinds
<1>2. children["scaler"].deleting /\ children["scaler"].owner # 0
  BY <1>1 DEF FinishScaler, OpIInv, ChildrenOK
<1>3. late' \subseteq {w \in late : w.kind # "scaler" \/ w.uid = 0 \/ ~w.clean}
  BY <1>1, <1>2 DEF OpIInv, OpWritesOK, Sound
<1>4. Active => run.model \in ModelRow /\ run.model.uid # 0
  BY DEF OpIInv, RunOK, NewestOK
<1>5. /\ children' \in [Kinds -> Child] /\ children'["scaler"] = NoChild
      /\ \A j \in Kinds \ {"scaler"} : children'[j] = children[j]
  BY <1>1, Records DEF FinishScaler, OpIInv, OpTypes
<1>6. OpMoves("scaler")
  BY <1>2, <1>4, <1>5, Records, NothingIsOld DEF OpMoves, Leaves, OpIInv
<1>. QED
  BY <1>1, <1>3, <1>6, SoiledKeeps

\* A late request arrives.
LEMMA ExecuteLateKeeps ==
  ASSUME OpIInv, NEW w \in late, ExecuteLateRequest(w)
  PROVE  OpIInv' /\ w.kind \in Kinds /\ OpMoves(w.kind)
<1>1. w \in OpWrite /\ w.kind \in Kinds /\ Sound(w) /\ w.owner \in Masters
  BY FieldTypes DEF OpIInv, OpTypes, OpWritesOK, Masters
<1>2. Active => Upto(w.owner, w.generation, run.model)
  BY DEF OpIInv, RunOK, NewestOK
<1>3. OpMoves(w.kind)
  BY <1>1, <1>2, PassMoves DEF ExecuteLateRequest
<1>4. /\ UNCHANGED <<model, legacy, hpa>> /\ run' = Soiled(w.kind)
      /\ late' \subseteq {x \in late : x.kind # w.kind \/ x.uid = 0 \/ ~x.clean}
  BY DEF ExecuteLateRequest, StillPossible
<1>. QED
  BY <1>1, <1>3, <1>4, SoiledKeeps

\* Steps that leave the children and the requests alone.
LEMMA QuietStep ==
  ASSUME OpIInv, OpTypes', UNCHANGED <<children, late>>, legacy' \in {0, legacy},
         model.uid <= model'.uid, model'.uid = model.uid => model.generation <= model'.generation,
         StatusIsBacked', RunOK'
  PROVE  OpIInv'
<1>1. \A o \in Nat, g \in Nat : Upto(o, g, model) => Upto(o, g, model')
  BY FieldTypes DEF Upto, OpIInv, OpTypes, ModelRow
<1>2. ChildrenOK'
  <2>1. \A k \in Kinds : Upto(children[k].owner, children[k].generation, model')
    BY <1>1, FieldTypes DEF OpIInv, ChildrenOK
  <2>. QED
    BY <2>1 DEF OpIInv, ChildrenOK, Upto
<1>3. OpWritesOK'
  <2> SUFFICES ASSUME NEW w \in late PROVE Sound(w)'
    BY DEF OpWritesOK
  <2>1. Sound(w) /\ Upto(w.owner, w.generation, model')
    BY <1>1, FieldTypes DEF OpIInv, OpWritesOK, Sound
  <2>. QED
    BY <2>1 DEF Sound, Upto
<1>4. ScalerOK'
  BY DEF OpIInv, ScalerOK
<1>. QED
  BY <1>2, <1>3, <1>4 DEF OpIInv

\* A new spec or a new model of the name: what was up to the old one is up
\* to the new one.
LEMMA OwnerKeeps ==
  ASSUME OpIInv, (\E spec \in Specs : ChangeSpec(spec)) \/ Recreate
  PROVE  OpIInv'
<1>1. model \in ModelRow /\ model.uid # 0 /\ run \in Run
  BY DEF OpIInv, OpTypes
<1>2. /\ model.uid \in Nat /\ model.generation \in Nat
      /\ model.uid + 1 \in Nat /\ model.generation + 1 \in Nat
  BY <1>1 DEF ModelRow
<1>3. /\ UNCHANGED <<children, legacy, hpa, late>> /\ run' = [run EXCEPT !.fresh = FALSE]
  BY DEF ChangeSpec, Recreate
<1>4. /\ run' \in Run /\ run'.pc = run.pc /\ run'.model = run.model /\ run'.held = run.held
      /\ run'.next = run.next /\ run'.legacy = run.legacy /\ ~run'.fresh
  BY <1>1, <1>3 DEF Run
<1>5. /\ model' \in ModelRow /\ model'.uid # 0
      /\ \/ /\ model'.uid = model.uid /\ model'.generation = model.generation + 1
            /\ model'.ok = model.ok /\ model'.observed = model.observed
         \/ model'.uid = model.uid + 1 /\ ~model'.ok
  <2>1. ASSUME Recreate
        PROVE  model' \in ModelRow /\ model'.uid = model.uid + 1 /\ ~model'.ok
    BY <1>1, <1>2, <2>1 DEF Recreate, ModelRow
  <2>2. ASSUME NEW spec \in Specs, ChangeSpec(spec)
        PROVE  /\ model' \in ModelRow /\ model'.uid = model.uid
               /\ model'.generation = model.generation + 1
               /\ model'.ok = model.ok /\ model'.observed = model.observed
    BY <1>1, <1>2, <2>2 DEF ChangeSpec, ModelRow
  <2>. QED
    BY <1>1, <1>2, <2>1, <2>2
<1>6. OpTypes'
  BY <1>3, <1>4, <1>5 DEF OpIInv, OpTypes
<1>7. StatusIsBacked'
  BY <1>3, <1>5 DEF OpIInv, StatusIsBacked
<1>8. ASSUME Active' PROVE NewestOK' /\ CopiesOK' /\ SwitchOK' /\ WorkloadOK'
  <2>1. Active /\ NewestOK /\ CopiesOK /\ SwitchOK /\ WorkloadOK
    BY <1>4, <1>8 DEF Active, OpIInv, RunOK
  <2>2. /\ run.model.uid \in Nat /\ run.model.generation \in Nat
        /\ run.model.uid < model.uid \/ (run.model.uid = model.uid /\ run.model.generation <= model.generation)
    BY <2>1 DEF NewestOK, ModelRow, Upto
  <2>3. Upto(run.model.uid, run.model.generation, model')
    BY <1>2, <1>5, <2>2 DEF Upto
  <2>4. NewestOK'
    BY <1>3, <1>4, <2>1, <2>3 DEF NewestOK, Upto
  <2>5. CopiesOK' /\ SwitchOK'
    BY <1>3, <1>4, <2>1 DEF CopiesOK, SwitchOK, NotOurs
  <2>6. WorkloadOK'
    BY <1>2, <1>3, <1>4, <1>5, <2>1, <2>2 DEF WorkloadOK
  <2>. QED
    BY <2>4, <2>5, <2>6
<1>9. model.uid <= model'.uid /\ (model'.uid = model.uid => model.generation <= model'.generation)
  BY <1>2, <1>5
<1>. QED
  BY <1>3, <1>6, <1>7, <1>8, <1>9, QuietStep DEF RunOK

\* A step that ends the reconciliation and writes no child.
LEMMA RestKeeps ==
  ASSUME OpIInv, run' \in Run, run'.pc \in {"down", "idle"}, UNCHANGED <<children, late>>,
         legacy' \in {0, legacy}, hpa' \in Nat,
         model' = model \/ model' = [model EXCEPT !.ok = FALSE]
  PROVE  OpIInv'
<1>1. /\ model' \in ModelRow /\ model'.uid = model.uid /\ model'.generation = model.generation
      /\ model'.ok => model' = model
  BY DEF OpIInv, OpTypes, ModelRow
<1>2. OpTypes'
  BY <1>1 DEF OpIInv, OpTypes
<1>3. StatusIsBacked'
  BY <1>1 DEF OpIInv, StatusIsBacked
<1>4. RunOK'
  BY DEF RunOK, Active
<1>. QED
  BY <1>1, <1>2, <1>3, <1>4, QuietStep, FieldTypes DEF OpIInv

\* A reconciliation that fails.
LEMMA FailKeeps ==
  ASSUME OpIInv, Fail, UNCHANGED <<children, late, legacy, hpa>>
  PROVE  OpIInv'
  BY RestKeeps, Records DEF Fail, OpIInv, OpTypes

\* The garbage collection of HPAs.
LEMMA ClusterQuiet ==
  ASSUME OpIInv, CollectLegacy \/ CreateHpa \/ CollectHpa
  PROVE  OpIInv'
<1>1. /\ UNCHANGED <<model, children, run, late>> /\ legacy' \in {0, legacy}
      /\ hpa' \in Nat
  BY FieldTypes DEF CollectLegacy, CreateHpa, CollectHpa, OpIInv, OpTypes, Kinds
<1>2. OpTypes' /\ StatusIsBacked'
  BY <1>1 DEF OpIInv, OpTypes, StatusIsBacked
<1>3. RunOK'
  BY <1>1 DEF OpIInv, RunOK, Active, NewestOK, CopiesOK, SwitchOK, WorkloadOK, NotOurs, Upto
<1>. QED
  BY <1>1, <1>2, <1>3, QuietStep, FieldTypes DEF OpIInv

\* An election, its end, and a reconciliation that waits for a scaling
\* writer.
LEMMA LeadKeeps ==
  ASSUME OpIInv, Lead \/ StopLeading \/ Wait
  PROVE  OpIInv'
  BY RestKeeps, Records DEF Lead, StopLeading, Wait, OpIInv, OpTypes

\* The old HPA is removed.
LEMMA RemoveLegacyKeeps ==
  ASSUME OpIInv, RemoveLegacy
  PROVE  OpIInv'
  BY RestKeeps, FailKeeps, Records DEF RemoveLegacy, OpIInv, OpTypes

\* A reconciliation begins with the newest model, which nothing is ahead of.
LEMMA BeginKeeps ==
  ASSUME OpIInv, Begin
  PROVE  OpIInv'
<1>1. UNCHANGED <<model, children, legacy, hpa, late>> /\ model \in ModelRow /\ model.uid # 0
  BY DEF Begin, OpIInv, OpTypes
<1>2. /\ run' \in Run /\ run'.pc = "reading" /\ run'.model = model /\ run'.next = 1
      /\ run'.held = Resting.held
  BY <1>1, Records DEF Begin, Run
<1>3. NewestOK'
  <2>1. /\ \A k \in Kinds : Upto(children[k].owner, children[k].generation, model)
        /\ \A w \in late : Upto(w.owner, w.generation, model)
    BY DEF OpIInv, ChildrenOK, OpWritesOK, Sound
  <2>2. Upto(model.uid, model.generation, model)
    BY <1>1 DEF Upto, ModelRow
  <2>. QED
    BY <1>1, <1>2, <2>1, <2>2 DEF NewestOK, Upto
<1>4. CopiesOK' /\ SwitchOK' /\ WorkloadOK'
  BY <1>1, <1>2, Records DEF CopiesOK, SwitchOK, WorkloadOK
<1>5. OpTypes' /\ StatusIsBacked' /\ RunOK'
  BY <1>1, <1>2, <1>3, <1>4 DEF OpIInv, OpTypes, StatusIsBacked, RunOK
<1>. QED
  BY <1>1, <1>5, QuietStep, FieldTypes DEF OpIInv

\* The copy of a child.
LEMMA CopyType ==
  ASSUME OpTypes, NEW k \in Kinds
  PROVE  /\ Copy(children[k]) \in Held /\ Copy(children[k]).uid = children[k].uid
         /\ Copy(children[k]).owner = children[k].owner
         /\ Copy(children[k]).deleting = children[k].deleting
  BY FieldTypes DEF Copy, Held

\* Reading one more child, or the recommendation before the writes.
LEMMA ReadKeeps ==
  ASSUME OpIInv, Read
  PROVE  OpIInv'
<1>1. /\ UNCHANGED <<model, children, legacy, hpa, late>> /\ run.pc = "reading"
      /\ run.next \in Nat /\ run.next + 1 \in Nat /\ run \in Run /\ legacy \in Nat /\ hpa \in Nat
  BY FieldTypes DEF Read, OpIInv, OpTypes
<1>2. NewestOK /\ CopiesOK /\ SwitchOK
  BY <1>1 DEF OpIInv, RunOK, Active
<1>3. ASSUME run' \in Run, run'.pc = "reading", run'.model = run.model, run'.fresh = run.fresh,
             CopiesOK', run'.next = run.next + 1,
             run'.next > 2 => (run'.legacy = 0 => legacy = 0)
      PROVE  OpIInv'
  <2>1. NewestOK'
    BY <1>1, <1>2, <1>3 DEF NewestOK, Upto
  <2>2. SwitchOK' /\ WorkloadOK'
    BY <1>1, <1>3 DEF SwitchOK, WorkloadOK
  <2>3. OpTypes' /\ StatusIsBacked' /\ RunOK'
    BY <1>1, <1>3, <2>1, <2>2 DEF OpIInv, OpTypes, StatusIsBacked, RunOK
  <2>. QED
    BY <1>1, <2>3, QuietStep, FieldTypes DEF OpIInv
<1>4. CASE run' = [run EXCEPT !.legacy = legacy, !.hpa = hpa, !.next = @ + 1]
  <2>1. /\ run' \in Run /\ run'.pc = "reading" /\ run'.model = run.model
        /\ run'.fresh = run.fresh /\ run'.held = run.held /\ run'.legacy = legacy
        /\ run'.next = run.next + 1
    BY <1>1, <1>4 DEF Run
  <2>2. CopiesOK'
    BY <1>1, <1>2, <2>1 DEF CopiesOK
  <2>. QED
    BY <1>3, <2>1, <2>2
<1>5. ASSUME NEW k \in Kinds, k = ReadOrder[run.next], run.next \in {1, 3, 4},
             run' = [run EXCEPT !.held[k] = Copy(children[k]), !.next = @ + 1]
      PROVE  OpIInv'
  <2>1. PICK h : h = [run.held EXCEPT ![k] = Copy(children[k])]
    OBVIOUS
  <2>2. /\ h \in [Kinds -> Held] /\ h[k] = Copy(children[k])
        /\ \A j \in Kinds \ {k} : h[j] = run.held[j]
    BY <2>1, CopyType, FieldTypes DEF OpIInv
  <2>3. run' = [run EXCEPT !.held = h, !.next = @ + 1]
    BY <1>5, <2>1
  <2>4. /\ run' \in Run /\ run'.pc = "reading" /\ run'.model = run.model /\ run'.held = h
        /\ run'.fresh = run.fresh /\ run'.next = run.next + 1 /\ run'.legacy = run.legacy
    BY <1>1, <2>2, <2>3 DEF Run
  <2>5. CopiesOK'
    BY <1>1, <1>2, <2>2, <2>4, CopyType DEF CopiesOK, OpIInv
  <2>6. run'.next > 2 => (run'.legacy = 0 => legacy = 0)
    BY <1>1, <1>2, <1>5, <2>4 DEF SwitchOK
  <2>. QED
    BY <1>3, <2>4, <2>5, <2>6
<1>6. run.next \in {1, 2, 3, 4}
  BY <1>1, <1>2, Orders DEF Read, SwitchOK
<1>7. CASE run.next = 2
  <2>1. run' = [run EXCEPT !.legacy = legacy, !.hpa = hpa, !.next = @ + 1]
    BY <1>7, Orders DEF Read
  <2>. QED
    BY <1>4, <2>1
<1>8. CASE run.next \in {1, 3, 4}
  <2>1. PICK k : k = ReadOrder[run.next]
    OBVIOUS
  <2>2. k \in Kinds /\ k # "hpas"
    BY <1>8, <2>1, Orders DEF Kinds
  <2>3. run' = [run EXCEPT !.held[k] = Copy(children[k]), !.next = @ + 1]
    BY <2>1, <2>2 DEF Read
  <2>. QED
    BY <1>5, <1>8, <2>1, <2>2, <2>3
<1>. QED
  BY <1>6, <1>7, <1>8

\* All identities are checked and the recommendation is read.
LEMMA CheckAllKeeps ==
  ASSUME OpIInv, CheckAll
  PROVE  OpIInv'
<1>1. CASE Conflict
  BY <1>1, FailKeeps DEF CheckAll
<1>2. CASE ~Conflict
  <2>1. /\ UNCHANGED <<model, children, legacy, hpa, late>> /\ run.pc = "reading"
        /\ run.next > 4 /\ run.next \in Nat /\ run \in Run
        /\ run' = [run EXCEPT !.pc = "writing", !.next = 1, !.held["scale"] = Copy(children["scale"])]
    BY <1>2, FieldTypes, Orders DEF CheckAll, OpIInv, OpTypes
  <2>2. NewestOK /\ CopiesOK /\ SwitchOK
    BY <2>1 DEF OpIInv, RunOK, Active
  <2>3. PICK h : h = [run.held EXCEPT !["scale"] = Copy(children["scale"])]
    OBVIOUS
  <2>4. "scale" \in Kinds /\ "scaler" \in Kinds
    BY DEF Kinds
  <2>5. /\ h \in [Kinds -> Held] /\ h["scale"] = Copy(children["scale"])
        /\ \A j \in Kinds \ {"scale"} : h[j] = run.held[j]
    BY <2>3, <2>4, CopyType, FieldTypes DEF OpIInv
  <2>6. run' = [run EXCEPT !.pc = "writing", !.next = 1, !.held = h]
    BY <2>1, <2>3
  <2>7. /\ run' \in Run /\ run'.pc = "writing" /\ run'.model = run.model /\ run'.held = h
        /\ run'.fresh = run.fresh /\ run'.next = 1 /\ run'.legacy = run.legacy
    <3>1. run \in Run /\ h \in [Kinds -> Held]
      BY <2>1, <2>5
    <3>. QED
      BY <2>6, <3>1 DEF Run
  <2>8. CopiesOK'
    BY <2>1, <2>2, <2>4, <2>5, <2>7, CopyType DEF CopiesOK, OpIInv
  <2>9. NewestOK'
    BY <2>1, <2>2, <2>7 DEF NewestOK, Upto
  <2>10. SwitchOK' /\ WorkloadOK'
    BY <1>2, <2>1, <2>2, <2>4, <2>5, <2>7 DEF SwitchOK, WorkloadOK, Conflict, NotOurs
  <2>11. OpTypes' /\ StatusIsBacked' /\ RunOK'
    BY <2>1, <2>7, <2>8, <2>9, <2>10 DEF OpIInv, OpTypes, StatusIsBacked, RunOK
  <2>. QED
    BY <2>1, <2>11, QuietStep, FieldTypes DEF OpIInv
<1>. QED
  BY <1>1, <1>2

\* The status says what the workload backs: the copy of the model is fresh,
\* so that nothing was changed or created again since it was read.
LEMMA WriteStatusKeeps ==
  ASSUME OpIInv, WriteStatus
  PROVE  OpIInv'
<1>1. /\ UNCHANGED <<children, legacy, hpa, late>> /\ run.pc = "writing" /\ run' = Resting
      /\ run.next > 4 /\ run.next \in Nat /\ run.fresh \in BOOLEAN
      /\ model' = IF run.fresh THEN [model EXCEPT !.observed = run.model.generation, !.ok = TRUE]
                   ELSE model
  BY FieldTypes, Orders DEF WriteStatus, StatusFenced, OpIInv
<1>2. CASE ~run.fresh
  BY <1>1, <1>2, RestKeeps, Records DEF OpIInv, OpTypes
<1>3. CASE run.fresh
  <2>1. /\ run.model \in ModelRow /\ run.model.generation \in Nat
        /\ run.model.uid = model.uid /\ model \in ModelRow /\ model.uid # 0
        /\ children["workload"].owner = model.uid
        /\ children["workload"].generation >= run.model.generation
    BY <1>1, <1>3 DEF OpIInv, OpTypes, RunOK, Active, NewestOK, WorkloadOK, ModelRow
  <2>2. /\ model' \in ModelRow /\ model'.uid = model.uid /\ model'.generation = model.generation
        /\ model'.observed = run.model.generation
    BY <1>1, <1>3, <2>1 DEF ModelRow
  <2>3. OpTypes' /\ StatusIsBacked' /\ RunOK'
    BY <1>1, <2>1, <2>2, Records DEF OpIInv, OpTypes, StatusIsBacked, RunOK, Active
  <2>. QED
    BY <1>1, <2>2, <2>3, QuietStep, FieldTypes DEF OpIInv
<1>. QED
  BY <1>1, <1>2, <1>3

-----------------------------------------------------------------------------
\* The turn to write is one of four.
LEMMA TurnRange ==
  ASSUME OpIInv, Turn
  PROVE  run.pc = "writing" /\ run.next \in 1 .. 4
<1>1. run.pc = "writing" /\ run.next <= 4 /\ run.next \in Nat
  BY FieldTypes, Orders DEF Turn, OpIInv
<1>2. run.next # 0
  BY <1>1 DEF OpIInv, RunOK, Active, SwitchOK
<1>. QED
  BY <1>1, <1>2

\* What the reconciliation asks for is sound. For a removal the copy is
\* ours; for the scaler the old HPA is gone; and a clean copy of ours is not
\* newer because nothing is.
LEMMA RequestSound ==
  ASSUME OpIInv, NEW w \in Requests
  PROVE  /\ Turn /\ w \in OpWrite /\ w.owner = run.model.uid
         /\ w.kind = Subject /\ Sound(w) /\ Upto(w.owner, w.generation, run.model)
         /\ Switching => w.op = "delete"
         /\ ~Switching /\ run.next = 2 => w.op = "apply" /\ w.generation = run.model.generation
<1>1. Turn /\ run.pc = "writing" /\ run.next \in 1 .. 4 /\ run \in Run
  <2>1. Turn
    BY DEF Requests
  <2>. QED
    BY <2>1, TurnRange DEF OpIInv, OpTypes
<1>2. NewestOK /\ CopiesOK /\ SwitchOK
  BY <1>1 DEF OpIInv, RunOK, Active
<1>3. Subject \in Kinds /\ (~Switching => Subject = WriteOrder[run.next])
      /\ (Switching => Subject = "scaler" /\ run.next = 2)
  BY <1>1, Orders DEF Subject, Switching, Kinds
<1>4. PICK k \in Kinds : k = Subject
  BY <1>3
<1>5. /\ w \in {RequestFor(k, "apply"), RequestFor(k, "delete")}
      /\ Switching => w = RequestFor(k, "delete") /\ Transition = "remove_scaler"
      /\ ~Switching /\ w.op = "apply" => ~NotOurs(run.held[k])
      /\ ~Switching /\ w.op = "delete" => k # "scaler" /\ Ours(run.held[k]) /\ ~Wanted(k)
  BY <1>3, <1>4 DEF Requests, RequestFor
<1>6. /\ w.kind = k /\ w.uid = run.held[k].uid /\ w.clean = run.held[k].clean
      /\ w.owner = run.model.uid /\ w.generation = run.model.generation
      /\ w.op \in {"apply", "delete"} /\ (Switching => w.op = "delete")
  BY <1>5 DEF RequestFor
<1>7. w \in OpWrite
  <2>1. /\ run.held[k].uid \in Nat /\ run.held[k].clean \in BOOLEAN
        /\ run.model.uid \in Nat /\ run.model.generation \in Nat
    BY <1>2, FieldTypes DEF OpIInv, NewestOK, ModelRow
  <2>. QED
    BY <1>5, <2>1 DEF RequestFor, OpWrite
<1>8. Upto(w.owner, w.generation, run.model)
  BY <1>2, <1>6 DEF Upto, NewestOK, ModelRow
<1>9. k = "workload" => w.op = "apply"
  BY <1>3, <1>4, <1>5, <1>6, WorkloadWanted
<1>10. Switching => ~run.held["scaler"].deleting /\ run.held["scaler"].uid # 0
  BY <1>5 DEF Transition
<1>11. w.op = "delete" => w.uid # 0 /\ run.held[k].owner = run.model.uid
  <2>1. Switching => ~NotOurs(run.held["scaler"])
    BY <1>1, <1>2 DEF SwitchOK
  <2>. QED
    BY <1>3, <1>4, <1>5, <1>6, <1>10, <2>1 DEF NotOurs, Ours
<1>12. k = "scaler" /\ w.op = "apply" => legacy = 0
  BY <1>1, <1>2, <1>3, <1>4, <1>6, Orders DEF SwitchOK
<1>13. ASSUME w.uid # 0, w.clean
       PROVE  /\ children[k].uid = w.uid /\ children[k].owner = w.owner
              /\ children[k].generation <= w.generation
              /\ ~children[k].deleting
  <2>1. /\ children[k].uid = w.uid /\ children[k].owner = run.held[k].owner
        /\ children[k].deleting = run.held[k].deleting
    BY <1>2, <1>6, <1>13 DEF CopiesOK
  <2>2. run.held[k].owner = run.model.uid
    BY <1>5, <1>6, <1>11, <1>13 DEF NotOurs
  <2>3. children[k].generation <= run.model.generation
    BY <1>2, <2>1, <2>2 DEF NewestOK, Upto, ModelRow
  <2>4. ~children[k].deleting
    <3>1. CASE k # "scaler"
      BY <3>1 DEF OpIInv, ChildrenOK
    <3>2. CASE k = "scaler" /\ Switching
      BY <1>10, <2>1, <3>2
    <3>3. CASE k = "scaler" /\ ~Switching
      BY <1>1, <1>2, <1>3, <1>4, <2>1, <3>3, Orders DEF SwitchOK
    <3>. QED
      BY <3>1, <3>2, <3>3
  <2>. QED
    BY <1>6, <2>1, <2>2, <2>3, <2>4
<1>14. Sound(w)
  BY <1>2, <1>6, <1>9, <1>11, <1>12, <1>13 DEF Sound, NewestOK
<1>. QED
  BY <1>1, <1>3, <1>4, <1>6, <1>7, <1>8, <1>9, <1>14, Orders

\* An accepted apply leaves the child ours and at the generation under way.
LEMMA AppliedIsCurrent ==
  ASSUME OpIInv, NEW w \in OpWrite, Sound(w), Admitted(w), w.op = "apply"
  PROVE  StoredChild(w).owner = w.owner /\ StoredChild(w).generation = w.generation
<1>1. children[w.kind] \in Child
  BY FieldTypes DEF OpIInv, OpWrite
<1>2. CASE w.uid = 0
  BY <1>2 DEF StoredChild
<1>3. CASE w.uid # 0
  <2>1. children[w.kind].owner = w.owner
    BY <1>3 DEF Admitted, Sound
  <2>2. StoredChild(w) = [children[w.kind] EXCEPT !.generation = w.generation]
    BY <1>3 DEF StoredChild
  <2>. QED
    BY <1>1, <2>1, <2>2 DEF Child
<1>. QED
  BY <1>2, <1>3

\* The reconciliation passes on to the next child.
LEMMA AdvancedRun ==
  ASSUME OpIInv, Subject \in Kinds
  PROVE  /\ Advanced \in Run /\ Advanced.pc = run.pc /\ Advanced.model = run.model
         /\ Advanced.fresh = run.fresh /\ Advanced.next = run.next + 1
         /\ Advanced.legacy = run.legacy /\ Advanced.held[Subject] = NoCopy
         /\ \A j \in Kinds \ {Subject} : Advanced.held[j] = run.held[j]
<1>1. run \in Run /\ run.held \in [Kinds -> Held] /\ run.hpa \in Nat /\ run.next + 1 \in Nat
  BY DEF OpIInv, OpTypes, Run
<1>2. PICK k : k = Subject
  OBVIOUS
<1>3. PICK h : h = [run.held EXCEPT ![k] = NoCopy]
  OBVIOUS
<1>4. h \in [Kinds -> Held] /\ h[k] = NoCopy /\ \A j \in Kinds \ {k} : h[j] = run.held[j]
  BY <1>1, <1>2, <1>3, Records
<1>5. PICK p : p = IF Subject = "workload" THEN 0 ELSE run.hpa
  OBVIOUS
<1>6. p \in Nat
  BY <1>1, <1>5
<1>7. Advanced = [run EXCEPT !.next = @ + 1, !.held = h, !.hpa = p]
  BY <1>2, <1>3, <1>5 DEF Advanced
<1>8. /\ Advanced \in Run /\ Advanced.pc = run.pc /\ Advanced.model = run.model
      /\ Advanced.fresh = run.fresh /\ Advanced.next = run.next + 1
      /\ Advanced.legacy = run.legacy /\ Advanced.held = h
  BY <1>1, <1>4, <1>6, <1>7 DEF Run
<1>. QED
  BY <1>2, <1>4, <1>8

\* Whose turn it is.
LEMMA CurrentKind ==
  ASSUME OpIInv, Turn
  PROVE  /\ Subject \in Kinds
         /\ Switching => Subject = "scaler" /\ run.next = 2
         /\ ~Switching => /\ run.next = 1 => Subject = "scale"
                          /\ run.next = 2 => Subject = "workload" /\ Transition = "apply"
                          /\ run.next = 3 => Subject = "extra"
                          /\ run.next = 4 => Subject = "scaler"
  BY TurnRange, Orders DEF Subject, Switching, Kinds

\* Passing on after a move, or after nothing, at the current child; passing
\* the workload needs the workload to be written.
LEMMA AdvanceKeeps ==
  ASSUME OpIInv, Turn, ~Switching, OpMoves(Subject), UNCHANGED <<model, legacy, hpa>>,
         run' = Advanced,
         \/ UNCHANGED <<children, late>>
         \/ late' \subseteq {w \in late : w.kind # Subject \/ w.uid = 0 \/ ~w.clean},
         Subject = "workload" =>
             /\ children'["workload"].owner = run.model.uid
             /\ children'["workload"].generation >= run.model.generation
  PROVE  OpIInv'
<1>1. PICK k \in Kinds : k = Subject
  BY CurrentKind
<1>2. run.pc = "writing" /\ run.next \in 1 .. 4 /\ NewestOK /\ CopiesOK /\ SwitchOK /\ WorkloadOK
  BY TurnRange DEF OpIInv, RunOK, Active
<1>3. /\ run' \in Run /\ run'.pc = run.pc /\ run'.model = run.model /\ run'.fresh = run.fresh
      /\ run'.next = run.next + 1 /\ run'.legacy = run.legacy /\ run'.held[k] = NoCopy
      /\ \A j \in Kinds \ {k} : run'.held[j] = run.held[j]
  BY <1>1, AdvancedRun
<1>4. OpMoves(k) /\ late' \subseteq late
  BY <1>1
<1>5. ChildrenOK' /\ OpWritesOK' /\ ScalerOK' /\ StatusIsBacked'
  <2>1. CASE UNCHANGED <<children, late>>
    BY <2>1 DEF OpIInv, ChildrenOK, OpWritesOK, ScalerOK, StatusIsBacked, Sound, Upto
  <2>2. CASE late' \subseteq {w \in late : w.kind # Subject \/ w.uid = 0 \/ ~w.clean}
    BY <1>1, <1>4, <2>2, OpMovesKeep
  <2>. QED
    BY <2>1, <2>2
<1>6. OpTypes'
  BY <1>3, <1>4 DEF OpIInv, OpTypes, OpMoves
<1>7. NewestOK'
  <2>1. \A j \in Kinds : Upto(children'[j].owner, children'[j].generation, run.model)
    BY <1>2, <1>4 DEF OpMoves, NewestOK, Active
  <2>. QED
    BY <1>2, <1>3, <1>4, <2>1 DEF NewestOK, Upto
<1>8. CopiesOK'
  BY <1>2, <1>3, <1>4, Records DEF CopiesOK, OpMoves
<1>9. SwitchOK'
  <2>1. "scaler" \in Kinds /\ (run.next = 2 => k # "scaler")
    BY <1>1, CurrentKind DEF Kinds
  <2>2. ~NotOurs(run.held["scaler"])' /\ (run.legacy = 0 => legacy = 0)
    BY <1>2, <1>3, <2>1, Records DEF SwitchOK, NotOurs
  <2>3. run.next >= 2 => run.legacy = 0 /\ ~run'.held["scaler"].deleting
    <3>1. run.next = 2 => run.legacy = 0 /\ ~run.held["scaler"].deleting
      BY CurrentKind DEF Transition
    <3>. QED
      BY <1>2, <1>3, <2>1, <3>1, Records DEF SwitchOK
  <2>4. run'.next # 0 /\ (run'.next > 2 => run.next >= 2)
    BY <1>2, <1>3
  <2>. QED
    BY <1>2, <1>3, <2>2, <2>3, <2>4 DEF SwitchOK
<1>10. WorkloadOK'
  <2>1. CASE run.next = 1
    BY <1>3, <2>1 DEF WorkloadOK
  <2>2. CASE run.next = 2
    BY <1>3, <2>2, CurrentKind DEF WorkloadOK
  <2>3. CASE run.next > 2
    <3>1. k # "workload" /\ "workload" \in Kinds
      BY <1>1, <1>2, <2>3, CurrentKind DEF Kinds
    <3>. QED
      BY <1>2, <1>3, <1>4, <2>3, <3>1 DEF WorkloadOK, OpMoves
  <2>. QED
    BY <1>2, <2>1, <2>2, <2>3
<1>. QED
  BY <1>5, <1>6, <1>7, <1>8, <1>9, <1>10 DEF OpIInv, RunOK

\* A child is written.
LEMMA SyncKeeps ==
  ASSUME OpIInv, NEW w \in Requests, Sync(w)
  PROVE  OpIInv' /\ w.kind \in Kinds /\ OpMoves(w.kind)
<1>1. /\ Turn /\ w \in OpWrite /\ w.kind \in Kinds /\ w.kind = Subject /\ Sound(w)
      /\ Upto(w.owner, w.generation, run.model) /\ w.owner \in Masters
  BY RequestSound DEF OpWrite, Masters
<1>2. OpMoves(w.kind)
  BY <1>1, PassMoves DEF Sync
<1>3. /\ UNCHANGED <<model, legacy, hpa>>
      /\ \/ UNCHANGED <<children, late>>
         \/ late' \subseteq {x \in late : x.kind # Subject \/ x.uid = 0 \/ ~x.clean}
  BY <1>1 DEF Sync, StillPossible
<1>4. CASE Switching
  <2>1. run' = Resting
    BY <1>4 DEF Sync
  <2>2. OpTypes' /\ RunOK'
    BY <1>2, <1>3, <2>1, Records DEF OpIInv, OpTypes, OpMoves, RunOK, Active
  <2>3. ChildrenOK' /\ OpWritesOK' /\ ScalerOK' /\ StatusIsBacked'
    <3>1. CASE UNCHANGED <<children, late>>
      BY <1>3, <3>1 DEF OpIInv, ChildrenOK, OpWritesOK, ScalerOK, StatusIsBacked,
         Sound, Upto
    <3>2. CASE late' \subseteq {x \in late : x.kind # Subject \/ x.uid = 0 \/ ~x.clean}
      BY <1>1, <1>2, <1>3, <3>2, OpMovesKeep
    <3>. QED
      BY <1>3, <3>1, <3>2
  <2>. QED
    BY <1>1, <1>2, <2>2, <2>3 DEF OpIInv
<1>5. CASE ~Switching
  <2>1. run' = Advanced
    BY <1>5 DEF Sync
  <2>2. ASSUME Subject = "workload"
        PROVE  /\ children'["workload"].owner = run.model.uid
               /\ children'["workload"].generation >= run.model.generation
    <3>1. run.next = 2
      BY <1>1, <1>5, <2>2, TurnRange, CurrentKind
    <3>2. w.op = "apply" /\ w.generation = run.model.generation /\ w.owner = run.model.uid
          /\ w.generation \in Nat
      BY <1>1, <1>5, <3>1, RequestSound DEF OpWrite
    <3>3. children'["workload"] = StoredChild(w)
      BY <1>1, <2>2 DEF Sync, OpIInv, OpTypes
    <3>. QED
      BY <1>1, <3>2, <3>3, AppliedIsCurrent DEF Sync
  <2>. QED
    BY <1>1, <1>2, <1>3, <1>5, <2>1, <2>2, AdvanceKeeps
<1>. QED
  BY <1>4, <1>5

\* There is nothing to write: the child is not wanted and not ours, or it is
\* somebody else's and the reconciliation fails.
LEMMA SyncNothingKeeps ==
  ASSUME OpIInv, SyncNothing
  PROVE  OpIInv'
<1>1. Turn /\ ~Switching /\ UNCHANGED <<children, legacy, hpa, late>>
  BY DEF SyncNothing
<1>2. CASE Wanted(Subject)
  BY <1>1, <1>2, FailKeeps DEF SyncNothing
<1>3. CASE ~Wanted(Subject)
  <2>1. run' = Advanced /\ UNCHANGED model
    BY <1>3 DEF SyncNothing
  <2>2. Subject \in Kinds /\ Subject # "workload"
    BY <1>1, <1>3, CurrentKind, WorkloadWanted
  <2>3. OpMoves(Subject)
    BY <1>1, <2>2 DEF OpMoves, OpIInv, OpTypes, ChildrenOK, RunOK, NewestOK
  <2>. QED
    BY <1>1, <2>1, <2>2, <2>3, AdvanceKeeps
<1>. QED
  BY <1>2, <1>3

\* A request without an answer stays possible, and it is sound.
LEMMA SyncLostKeeps ==
  ASSUME OpIInv, NEW w \in Requests, SyncLost(w)
  PROVE  OpIInv'
<1>1. w \in OpWrite /\ Sound(w)
  BY RequestSound
<1>2. /\ UNCHANGED <<children, legacy, hpa>> /\ late' = late \cup {w} /\ run' = Resting
      /\ model' = model \/ model' = [model EXCEPT !.ok = FALSE]
  BY DEF SyncLost, Fail
<1>3. /\ model' \in ModelRow /\ model'.uid = model.uid /\ model'.generation = model.generation
      /\ model'.ok => model' = model
  BY <1>2 DEF OpIInv, OpTypes, ModelRow
<1>4. OpTypes' /\ StatusIsBacked' /\ RunOK'
  BY <1>1, <1>2, <1>3, Records DEF OpIInv, OpTypes, StatusIsBacked, RunOK, Active
<1>5. ChildrenOK' /\ ScalerOK'
  BY <1>2, <1>3 DEF OpIInv, ChildrenOK, ScalerOK, Upto
<1>6. OpWritesOK'
  BY <1>1, <1>2, <1>3 DEF OpIInv, OpWritesOK, Sound, Upto
<1>. QED
  BY <1>4, <1>5, <1>6 DEF OpIInv

\* The API fails, or refuses a write.
LEMMA ErrorKeeps ==
  ASSUME OpIInv, ApiError \/ (\E w \in Requests : SyncRefused(w))
  PROVE  OpIInv'
  BY FailKeeps DEF ApiError, SyncRefused

-----------------------------------------------------------------------------
\* The invariant holds at the start.
LEMMA OpInitIInv == OperatorInit => OpIInv
<1> SUFFICES ASSUME OperatorInit PROVE OpIInv
  OBVIOUS
<1>1. /\ model \in ModelRow /\ model.uid = 1 /\ ~model.ok
  BY DEF OperatorInit, ModelRow
<1>2. /\ \A k \in Kinds : children[k] = NoChild
      /\ children \in [Kinds -> Child]
  BY Records DEF OperatorInit
<1>3. OpTypes
  BY <1>1, <1>2, Records DEF OperatorInit, OpTypes
<1>4. ChildrenOK
  BY <1>1, <1>2, Records DEF ChildrenOK, Upto
<1>5. OpWritesOK /\ ScalerOK /\ StatusIsBacked /\ RunOK
  BY <1>1, <1>2, Records DEF OperatorInit, OpWritesOK, ScalerOK, StatusIsBacked, RunOK,
     Active, Kinds
<1>. QED
  BY <1>3, <1>4, <1>5 DEF OpIInv

\* Nothing changes.
LEMMA StutterKeeps ==
  ASSUME OpIInv, UNCHANGED operatorVars
  PROVE  OpIInv'
  BY DEF OpIInv, operatorVars, OpTypes, ChildrenOK, OpWritesOK, Sound, Upto, ScalerOK,
     StatusIsBacked, RunOK,
         Active, NewestOK, CopiesOK, SwitchOK, NotOurs, WorkloadOK

\* Every step keeps it.
LEMMA OpStepIInv == OpIInv /\ [OperatorNext]_operatorVars => OpIInv'
<1> SUFFICES ASSUME OpIInv, [OperatorNext]_operatorVars PROVE OpIInv'
  OBVIOUS
<1>1. CASE (\E spec \in Specs : ChangeSpec(spec)) \/ Recreate
  BY <1>1, OwnerKeeps
<1>2. CASE \E k \in Kinds : CreateForeignChild(k) \/ TouchChild(k) \/ Collect(k)
  BY <1>2, OpBystandersKeep
<1>3. CASE CollectLegacy \/ CreateHpa \/ CollectHpa
  BY <1>3, ClusterQuiet
<1>4. CASE FinishScaler
  BY <1>4, FinishScalerKeeps
<1>5. CASE \E w \in late : ExecuteLateRequest(w)
  BY <1>5, ExecuteLateKeeps
<1>6. CASE Lead \/ StopLeading \/ Wait
  BY <1>6, LeadKeeps
<1>7. CASE Begin \/ Read \/ CheckAll
  BY <1>7, BeginKeeps, ReadKeeps, CheckAllKeeps
<1>8. CASE RemoveLegacy \/ SyncNothing \/ WriteStatus
  BY <1>8, RemoveLegacyKeeps, SyncNothingKeeps, WriteStatusKeeps
<1>9. CASE \E w \in Requests : Sync(w) \/ SyncLost(w)
  BY <1>9, SyncKeeps, SyncLostKeeps
<1>10. CASE ApiError \/ (\E w \in Requests : SyncRefused(w))
  BY <1>10, ErrorKeeps
<1>11. CASE UNCHANGED operatorVars
  BY <1>11, StutterKeeps
<1>. QED
  BY <1>1, <1>2, <1>3, <1>4, <1>5, <1>6, <1>7, <1>8, <1>9, <1>10, <1>11
  DEF OperatorNext, Cluster, Reconcile

\* It always holds.
LEMMA OpInductive == OperatorSpec => []OpIInv
  BY OpInitIInv, OpStepIInv, PTL DEF OperatorSpec

\* A status that reports a generation as reconciled is backed by a workload
\* of this very model from that generation or a newer one (StatusIsBacked),
\* for any specs, generations and numbers of crashes, lost or late requests
\* and bystanders.
THEOREM StatusIsBackedAlways == OperatorSpec => []StatusIsBacked
<1>1. OpIInv => StatusIsBacked
  BY DEF OpIInv
<1>. QED
  BY <1>1, OpInductive, PTL

\* The old operator's HPA and a ScaledObject of the same model never exist
\* together (OneScalingWriter).
THEOREM OneScalingWriterAlways == OperatorSpec => []OneScalingWriter
<1>1. OpIInv => OneScalingWriter
  BY DEF OpIInv, ScalerOK, OneScalingWriter, OpTypes
<1>. QED
  BY <1>1, OpInductive, PTL

\* A move respects what belongs to others.
LEMMA MovesLeaveOthers ==
  ASSUME OpIInv, NEW k \in Kinds, OpMoves(k), NEW j \in Kinds,
         children[j].uid # 0, children'[j] # children[j]
  PROVE  /\ children[j].owner # 0
         /\ children[j].owner \notin {run.model.uid} \cup {w.owner : w \in late} =>
              children'[j] \in {NoChild, [children[j] EXCEPT !.deleting = TRUE]}
         /\ children'[j].uid = children[j].uid => children'[j].generation >= children[j].generation
<1>1. j = k /\ (Born(k) \/ Renewed(k) \/ Leaves(k))
  BY DEF OpMoves
<1>2. CASE Born(k)
  BY <1>1, <1>2 DEF Born
<1>3. CASE Renewed(k)
  BY <1>1, <1>3 DEF Renewed, Masters
<1>4. CASE Leaves(k)
  <2>1. children[k].generation \in Nat /\ children[k].owner # 0
    BY <1>4, FieldTypes DEF OpIInv, Leaves
  <2>2. CASE children'[k] = NoChild
    BY <1>1, <2>1, <2>2, Records
  <2>3. CASE children'[k] = [children[k] EXCEPT !.deleting = TRUE]
    BY <1>1, <2>1, <2>3, GoneOrMarked DEF OpIInv
  <2>. QED
    BY <1>4, <2>2, <2>3 DEF Leaves
<1>. QED
  BY <1>1, <1>2, <1>3, <1>4

\* No step changes or removes somebody else's object, and no write takes a
\* child back to an older generation (NothingForeignTouched).
THEOREM NothingForeignTouchedAlways == OperatorSpec => NothingForeignTouched
<1>1. ASSUME OpIInv, OperatorNext PROVE UNCHANGED children \/ \E k \in Kinds : OpMoves(k)
  <2>1. CASE \E k \in Kinds : CreateForeignChild(k) \/ TouchChild(k) \/ Collect(k)
    BY <1>1, <2>1, OpBystandersKeep
  <2>2. CASE FinishScaler
    BY <1>1, <2>2, FinishScalerKeeps DEF Kinds
  <2>3. CASE \E w \in late : ExecuteLateRequest(w)
    BY <1>1, <2>3, ExecuteLateKeeps
  <2>4. CASE \E w \in Requests : Sync(w)
    BY <1>1, <2>4, SyncKeeps
  <2>5. CASE \/ \E spec \in Specs : ChangeSpec(spec)
             \/ Recreate \/ CollectLegacy \/ CreateHpa \/ CollectHpa
             \/ Lead \/ StopLeading \/ Wait \/ Begin \/ Read \/ CheckAll
             \/ RemoveLegacy \/ SyncNothing \/ WriteStatus \/ ApiError
             \/ \E w \in Requests : SyncRefused(w) \/ SyncLost(w)
    BY <2>5 DEF ChangeSpec, Recreate, CollectLegacy, CreateHpa,
       CollectHpa, Lead, StopLeading,
                Wait, Begin, Read, CheckAll, RemoveLegacy, SyncNothing, WriteStatus, ApiError,
                SyncRefused, SyncLost
  <2>. QED
    BY <1>1, <2>1, <2>2, <2>3, <2>4, <2>5 DEF OperatorNext, Cluster, Reconcile
<1>2. OpIInv /\ [OperatorNext]_operatorVars =>
        [\A k \in Kinds :
           LET old == children[k]
               new == children'[k]
           IN old.uid # 0 /\ new # old =>
                /\ old.owner # 0
                /\ old.owner \notin {run.model.uid} \cup {w.owner : w \in late} =>
                     new \in {NoChild, [old EXCEPT !.deleting = TRUE]}
                /\ new.uid = old.uid => new.generation >= old.generation]_operatorVars
  BY <1>1, MovesLeaveOthers
<1>. QED
  BY <1>2, OpInductive, PTL DEF OperatorSpec, NothingForeignTouched
=============================================================================
