---------------------------- MODULE QuotaProofs ----------------------------
(***************************************************************************)
(* Proofs about Quota, for any requests, gateways, limits and clocks.  The *)
(* argument has two halves: what the two scripts keep true of one hash,    *)
(* whoever sends them and however often, and what the gateways may have    *)
(* concluded from the replies once the hash is gone.                       *)
(***************************************************************************)
EXTENDS Quota, TotalsTheorems, TLAPS

Stored == Amount \cup {Absent}

Hash == [requests : Nat, tokens : Nat, r : [Requests -> Stored], s : [Requests -> Stored]]

Callers == {"new", "reserving", "refused", "admitted", "settling", "done"}

Ids(h) == {i \in Requests : h.r[i] # Absent}

\* What a reservation counts for now, and what of its promise is left.
Charge(h) == [i \in Requests |-> IF h.s[i] # Absent THEN h.s[i] ELSE h.r[i]]
Promise(h) ==
    [i \in Requests |-> IF h.s[i] # Absent /\ h.s[i] < h.r[i] THEN h.s[i] ELSE h.r[i]]

\* The hash of one minute: its counters are what it records, and what it
\* records is within the limits of the key.
GoodHash(h) ==
    /\ h \in Hash
    /\ \A i \in Requests : h.s[i] # Absent => h.r[i] # Absent
    /\ h.requests = Cardinality(Ids(h))
    /\ h.tokens = Total(Ids(h), Charge(h))
    /\ h.requests <= limit.rpm
    /\ Total(Ids(h), Promise(h)) <= limit.tpm

-----------------------------------------------------------------------------
(* The scripts.                                                            *)

LEMMA IdsFinite == ASSUME NEW h PROVE IsFiniteSet(Ids(h))
  BY QuotaAssumption, FS_Subset DEF Ids

\* A minute nobody has used is consistent.
LEMMA EmptyIsGood == ASSUME limit \in Limits PROVE GoodHash(NoHash)
<1>1. NoHash \in Hash
  BY DEF NoHash, Hash, Stored
<1>2. Ids(NoHash) = {}
  BY DEF Ids, NoHash
<1>3. ASSUME NEW f PROVE Total({}, f) = 0
  <2>1. Units({}, f) = {}
    BY DEF Units
  <2>. QED
    BY <2>1, FS_EmptySet DEF Total
<1>4. Cardinality({}) = 0
  BY FS_EmptySet
<1>5. limit.rpm \in Nat /\ limit.tpm \in Nat
  BY QuotaAssumption
<1>6. \A i \in Requests : NoHash.s[i] = Absent
  BY DEF NoHash
<1>7. NoHash.requests = 0 /\ NoHash.tokens = 0
  BY DEF NoHash
<1>. QED
  BY <1>1, <1>2, <1>3, <1>4, <1>5, <1>6, <1>7 DEF GoodHash

\* RESERVE_SCRIPT: it counts an identity once, and only within the limits and
\* before the minute expires.
LEMMA ReserveGood ==
  ASSUME NEW h, GoodHash(h), NEW r \in Requests, asked[r] \in Amount, limit \in Limits,
         h.r[r] # Absent => h.r[r] = asked[r]
  PROVE  LET k == ReserveScript(h, r).hash IN
         /\ GoodHash(k)
         /\ \A i \in Requests : i # r => k.r[i] = h.r[i]
         /\ k # h => h.r[r] = Absent /\ k.r[r] = asked[r] /\ ~WindowExpired(window[r])
         /\ ReserveScript(h, r).reply = "allowed" => k.r[r] = asked[r]
<1> DEFINE k == ReserveScript(h, r).hash
           n == [h EXCEPT !.requests = @ + 1, !.tokens = @ + asked[r], !.r[r] = asked[r]]
<1>0. h \in Hash /\ limit.rpm \in Nat /\ limit.tpm \in Nat
  BY QuotaAssumption DEF GoodHash
<1>a. asked[r] \in Nat /\ asked[r] # Absent
  BY MaxAmountAssumption DEF Amount, Absent
<1>1. CASE SeenReserve(h, r)
  <2>1. k = h /\ h.r[r] # Absent
    BY <1>1 DEF ReserveScript, SeenReserve
  <2>. QED
    BY <2>1
<1>2. CASE ~SeenReserve(h, r) /\ (WindowExpired(window[r]) \/ ~FitsRpm(h) \/ ~FitsTpm(h, r))
  <2>1. k = h /\ ReserveScript(h, r).reply # "allowed"
    BY <1>2 DEF ReserveScript
  <2>. QED
    BY <2>1
<1>3. CASE ~SeenReserve(h, r) /\ ~WindowExpired(window[r]) /\ FitsRpm(h) /\ FitsTpm(h, r)
  <2>1. k = n
    BY <1>3 DEF ReserveScript
  <2>2. h.r[r] = Absent
    BY <1>3 DEF SeenReserve
  <2>3. /\ n.requests = h.requests + 1 /\ n.tokens = h.tokens + asked[r]
        /\ n.r = [h.r EXCEPT ![r] = asked[r]] /\ n.s = h.s
    BY <1>0 DEF Hash
  <2>4. /\ h.requests \in Nat /\ h.tokens \in Nat
        /\ h.r \in [Requests -> Stored] /\ h.s \in [Requests -> Stored]
    BY <1>0 DEF Hash
  <2>5. n \in Hash
    <3>1. h.requests + 1 \in Nat /\ h.tokens + asked[r] \in Nat
      BY <2>4, <1>a
    <3>2. [h.r EXCEPT ![r] = asked[r]] \in [Requests -> Stored]
      BY <2>4 DEF Stored
    <3>. QED
      BY <3>1, <3>2, <2>4, <1>0 DEF Hash
  <2>6. h.s[r] = Absent
    BY <2>2 DEF GoodHash
  <2>7. n.r[r] = asked[r] /\ \A i \in Requests : i # r => n.r[i] = h.r[i]
    BY <2>3, <2>4
  <2> HIDE DEF n
  <2>8. Ids(n) = Ids(h) \cup {r} /\ r \notin Ids(h)
    BY <2>2, <2>7, <1>a DEF Ids
  <2>9. Cardinality(Ids(n)) = Cardinality(Ids(h)) + 1
    BY <2>8, IdsFinite, FS_AddElement
  <2>10. Total(Ids(n), Charge(n)) = Total(Ids(h), Charge(h)) + asked[r]
    <3>1. Total(Ids(n), Charge(n)) = Total(Ids(h), Charge(n)) + Charge(n)[r]
      <4>1. Charge(n)[r] = asked[r]
        BY <2>3, <2>6, <2>7 DEF Charge
      <4>. QED
        BY <4>1, <2>8, IdsFinite, TotalInsert
    <3>2. Charge(n)[r] = asked[r]
      BY <2>3, <2>6, <2>7 DEF Charge
    <3>3. \A i \in Ids(h) : Charge(n)[i] = Charge(h)[i]
      BY <2>3, <2>7, <2>8 DEF Charge, Ids
    <3>4. Total(Ids(h), Charge(n)) = Total(Ids(h), Charge(h))
      BY <3>3, TotalSame
    <3>. QED
      BY <3>1, <3>2, <3>4
  <2>11. Total(Ids(n), Promise(n)) = Total(Ids(h), Promise(h)) + asked[r]
    <3>2. Promise(n)[r] = asked[r]
      BY <2>3, <2>6, <2>7 DEF Promise
    <3>1. Total(Ids(n), Promise(n)) = Total(Ids(h), Promise(n)) + Promise(n)[r]
      BY <3>2, <2>8, IdsFinite, TotalInsert
    <3>3. \A i \in Ids(h) : Promise(n)[i] = Promise(h)[i]
      BY <2>3, <2>7, <2>8 DEF Promise, Ids
    <3>4. Total(Ids(h), Promise(n)) = Total(Ids(h), Promise(h))
      BY <3>3, TotalSame
    <3>. QED
      BY <3>1, <3>2, <3>4
  <2>12. Total(Ids(h), Promise(h)) <= Total(Ids(h), Charge(h))
    <3>1. \A i \in Ids(h) : /\ Promise(h)[i] \in Int /\ Charge(h)[i] \in Int
                            /\ Promise(h)[i] <= Charge(h)[i]
      BY <2>4, MaxAmountAssumption DEF Ids, Promise, Charge, Stored, Absent, Amount
    <3>. QED
      BY <3>1, IdsFinite, TotalMonotone
  <2>13. Total(Ids(h), Promise(h)) \in Nat /\ Total(Ids(h), Charge(h)) \in Nat
    BY IdsFinite, TotalType
  <2>14. n.requests <= limit.rpm /\ Total(Ids(n), Promise(n)) <= limit.tpm
    <3>1. h.requests + 1 <= limit.rpm /\ h.tokens + asked[r] <= limit.tpm
      BY <1>3 DEF FitsRpm, FitsTpm
    <3>2. h.tokens = Total(Ids(h), Charge(h))
      BY DEF GoodHash
    <3>. QED
      BY <3>1, <3>2, <2>3, <2>4, <2>11, <2>12, <2>13, <1>0, <1>a
  <2>15. \A i \in Requests : n.s[i] # Absent => n.r[i] # Absent
    BY <2>3, <2>7, <1>a DEF GoodHash
  <2>16. GoodHash(n)
    BY <2>3, <2>5, <2>9, <2>10, <2>14, <2>15 DEF GoodHash
  <2>. QED
    BY <2>1, <2>2, <2>7, <2>16, <1>3
<1> HIDE DEF k
<1>. QED
  BY <1>1, <1>2, <1>3 DEF k

\* SETTLE_SCRIPT: it replaces a reserved amount by the actual one, once; the
\* floor at zero is never needed.
LEMMA SettleGood ==
  ASSUME NEW h, GoodHash(h), NEW r \in Requests, actual[r] \in Amount, limit \in Limits
  PROVE  /\ GoodHash(SettleScript(h, r).hash)
         /\ SettleScript(h, r).hash.r = h.r
         /\ h = NoHash => SettleScript(h, r).hash = h
         /\ SettleScript(h, r).reply \in {"settled", "error"}
<1> DEFINE left == h.tokens - h.r[r] + actual[r]
           n == [h EXCEPT !.tokens = IF left < 0 THEN 0 ELSE left, !.s[r] = actual[r]]
<1>0. h \in Hash /\ limit.rpm \in Nat /\ limit.tpm \in Nat
  BY QuotaAssumption DEF GoodHash
<1>1. CASE SettleScript(h, r).hash = h
  BY <1>1 DEF SettleScript
<1>2. CASE /\ h.requests # 0 /\ h.r[r] # Absent /\ h.s[r] = Absent
           /\ SettleScript(h, r) = [hash |-> n, reply |-> "settled"]
  <2>1. /\ h.requests \in Nat /\ h.tokens \in Nat
        /\ h.r \in [Requests -> Stored] /\ h.s \in [Requests -> Stored]
    BY <1>0 DEF Hash
  <2>2. actual[r] \in Nat /\ actual[r] # Absent /\ h.r[r] \in Nat /\ h.r[r] \in Amount
    BY <1>2, <2>1, MaxAmountAssumption DEF Amount, Absent, Stored
  <2>3. left \in Int
    BY <2>1, <2>2
  <2>4. /\ n.requests = h.requests /\ n.tokens = (IF left < 0 THEN 0 ELSE left)
        /\ n.r = h.r /\ n.s = [h.s EXCEPT ![r] = actual[r]]
    BY <1>0 DEF Hash
  <2>5. n \in Hash
    <3>2. [h.s EXCEPT ![r] = actual[r]] \in [Requests -> Stored]
      BY <2>1 DEF Stored
    <3>3. (IF left < 0 THEN 0 ELSE left) \in Nat
      BY <2>3
    <3> HIDE DEF left
    <3>. QED
      BY <3>2, <3>3, <2>1, <1>0 DEF Hash
  <2> HIDE DEF n
  <2>6. Ids(n) = Ids(h) /\ r \in Ids(h) /\ IsFiniteSet(Ids(h))
    BY <2>4, <1>2, IdsFinite DEF Ids
  <2>7. n.s[r] = actual[r] /\ \A i \in Requests : i # r => n.s[i] = h.s[i]
    BY <2>1, <2>4
  <2>8. Total(Ids(h), Charge(n)) = Total(Ids(h), Charge(h)) - h.r[r] + actual[r]
    <3>1. Charge(n)[r] = actual[r] /\ Charge(h)[r] = h.r[r]
      BY <2>2, <2>7, <1>2 DEF Charge
    <3>2. \A i \in Ids(h) \ {r} : Charge(h)[i] = Charge(n)[i]
      BY <2>4, <2>7 DEF Charge, Ids
    <3>3. Total(Ids(h), Charge(n))
            = Total(Ids(h), Charge(h)) - Part(Ids(h), Charge(h), r) + Part(Ids(h), Charge(n), r)
      BY <3>1, <3>2, <2>2, <2>6, TotalUpdate
    <3>. QED
      BY <3>1, <3>3, <2>6 DEF Part
  <2>9. n.tokens = Total(Ids(n), Charge(n))
    <3>1. Total(Ids(h), Charge(n)) \in Nat
      BY <2>6, TotalType
    <3>2. left = Total(Ids(h), Charge(n))
      BY <2>8 DEF GoodHash
    <3>. QED
      BY <3>1, <3>2, <2>4, <2>6
  <2>10. Total(Ids(n), Promise(n)) <= limit.tpm
    <3>1. \A i \in Ids(h) : /\ Promise(n)[i] \in Int /\ Promise(h)[i] \in Int
                            /\ Promise(n)[i] <= Promise(h)[i]
      <4> SUFFICES ASSUME NEW i \in Ids(h)
                   PROVE  /\ Promise(n)[i] \in Int /\ Promise(h)[i] \in Int
                          /\ Promise(n)[i] <= Promise(h)[i]
        OBVIOUS
      <4>1. CASE i = r
        BY <4>1, <2>2, <2>4, <2>7, <1>2 DEF Promise, Ids
      <4>2. CASE i # r
        BY <4>2, <2>1, <2>4, <2>7, MaxAmountAssumption DEF Promise, Ids, Stored, Absent, Amount
      <4>. QED
        BY <4>1, <4>2
    <3>2. Total(Ids(h), Promise(n)) <= Total(Ids(h), Promise(h))
      BY <3>1, <2>6, TotalMonotone
    <3>3. Total(Ids(h), Promise(n)) \in Nat /\ Total(Ids(h), Promise(h)) \in Nat
      BY <2>6, TotalType
    <3>. QED
      BY <3>2, <3>3, <2>6, <1>0 DEF GoodHash
  <2>11. GoodHash(n)
    BY <2>4, <2>5, <2>6, <2>7, <2>9, <2>10, <1>2 DEF GoodHash
  <2>12. h # NoHash
    BY <1>2 DEF NoHash
  <2>. QED
    BY <1>2, <2>4, <2>11, <2>12
<1>. QED
  BY <1>1, <1>2 DEF SettleScript

-----------------------------------------------------------------------------
(* The invariant.                                                          *)

Kinds == {"reserve", "settle"}

Types ==
    /\ caller \in [Requests -> Callers] /\ window \in [Requests -> Minutes]
    /\ gateway \in [Requests -> Gateways \cup {None}]
    /\ asked \in [Requests -> Amount] /\ actual \in [Requests -> Amount]
    /\ queue \in [Gateways -> Seq(Requests)] /\ work \in [Gateways -> Requests \cup {None}]
    /\ wire \in [Kinds -> [Requests -> Int]]
    /\ hash \in [Minutes -> Hash] /\ limit \in Limits /\ now \in Nat
    /\ local \in [Gateways -> [minute : Minutes, count : Nat]]
    /\ rewound \subseteq Gateways

\* A hash records the reservations of its own minute, with what they asked
\* for; before a request has asked, nothing of it is on its way either.
RecordsOwn ==
    \A i \in Requests :
        /\ \A w \in Minutes : hash[w].r[i] # Absent =>
              window[i] = w /\ asked[i] = hash[w].r[i] /\ caller[i] # "new"
        /\ caller[i] = "new" => \A k \in Kinds : wire[k][i] <= 0

\* Only requests of the gateways that share Redis wait for its worker.
WaitersShare == \A i \in Requests : Waiting(i) => gateway[i] \in Distributed

HashesGood == \A w \in Minutes : GoodHash(hash[w])

\* A minute that is over has no hash, and admitted no more than it might.
ExpiredHeld ==
    \A w \in Minutes : now >= w + 2 =>
        hash[w] = NoHash /\ Cardinality(AdmittedIn(Distributed, w)) <= limit.rpm

\* A gateway on its own whose clock never went back counts at least what it
\* admitted in its minute, and has admitted nothing in a later one.
CountsItsOwn(g) ==
    /\ local[g].count <= limit.rpm
    /\ Cardinality(AdmittedIn({g}, local[g].minute)) <= local[g].count
    /\ \A w \in Minutes :
          /\ w > local[g].minute => AdmittedIn({g}, w) = {}
          /\ Cardinality(AdmittedIn({g}, w)) <= limit.rpm

LocalHeld == \A g \in Gateways \ (Distributed \cup rewound) : CountsItsOwn(g)

IInv == /\ Types /\ RecordsOwn /\ WaitersShare /\ HashesGood
        /\ AdmittedIsCounted /\ ExpiredHeld /\ LocalHeld

\* While a minute lives, whoever was admitted is recorded in its hash.
LEMMA LiveHeld ==
  ASSUME IInv, NEW w \in Minutes, now < w + 2
  PROVE  Cardinality(AdmittedIn(Distributed, w)) <= limit.rpm
<1>1. AdmittedIn(Distributed, w) \in SUBSET Ids(hash[w])
  <2> SUFFICES ASSUME NEW i \in AdmittedIn(Distributed, w)
               PROVE  i \in Ids(hash[w])
    OBVIOUS
  <2>1. hash[w].r[i] = asked[i] /\ i \in Requests
    BY DEF AdmittedIn, IInv, AdmittedIsCounted
  <2>2. asked[i] # Absent
    BY <2>1, MaxAmountAssumption DEF IInv, Types, Amount, Absent
  <2>. QED
    BY <2>1, <2>2 DEF Ids
<1>2. /\ Cardinality(AdmittedIn(Distributed, w)) <= Cardinality(Ids(hash[w]))
      /\ Cardinality(Ids(hash[w])) \in Nat /\ Cardinality(AdmittedIn(Distributed, w)) \in Nat
  BY <1>1, IdsFinite, FS_Subset, FS_CardinalityType
<1>3. Cardinality(Ids(hash[w])) <= limit.rpm /\ limit.rpm \in Nat
  BY QuotaAssumption DEF IInv, HashesGood, GoodHash, Types
<1>. QED
  BY <1>2, <1>3

\* The inductive invariant holds at the start.
LEMMA InitIInv == Init => IInv
<1> SUFFICES ASSUME Init
             PROVE  IInv
  OBVIOUS
<1>0. limit \in Limits /\ limit.rpm \in Nat
  BY QuotaAssumption DEF Init
<1>1. NoHash \in Hash
  BY DEF NoHash, Hash, Stored
<1>2. 0 \in Minutes /\ 0 \in Amount
  BY QuotaAssumption, MaxAmountAssumption DEF Minutes, Amount
<1>3. Types
  BY <1>0, <1>1, <1>2 DEF Init, Types, Callers, Kinds
<1>4. \A w \in Minutes, i \in Requests : hash[w].r[i] = Absent
  BY DEF Init, NoHash
<1>5. RecordsOwn
  BY <1>4 DEF Init, RecordsOwn, Kinds
<1>6. WaitersShare /\ AdmittedIsCounted
  BY DEF Init, WaitersShare, AdmittedIsCounted, Waiting, Granted
<1>7. HashesGood
  BY <1>0, EmptyIsGood DEF Init, HashesGood
<1>8. \A G, w : AdmittedIn(G, w) = {}
  BY DEF Init, AdmittedIn, Granted
<1>9. Cardinality({}) = 0
  BY FS_EmptySet
<1>10. ExpiredHeld
  BY <1>8, <1>9, <1>0 DEF Init, ExpiredHeld
<1>11. LocalHeld
  <2>1. ASSUME NEW g \in Gateways
        PROVE  CountsItsOwn(g)
    <3>1. local[g].count = 0 /\ local[g].minute = 0
      BY DEF Init
    <3>. QED
      BY <3>1, <1>0, <1>8, <1>9 DEF CountsItsOwn
  <2>. QED
    BY <2>1 DEF LocalHeld
<1>. QED
  BY <1>3, <1>5, <1>6, <1>7, <1>10, <1>11 DEF IInv

\* Running a script, in time or late, once or again: no hash goes bad, what is
\* recorded stays recorded, and an expired minute stays empty.
LEMMA ExecutedGood ==
  ASSUME IInv, NEW r \in Requests, caller[r] # "new", NEW k \in Kinds, Executed(k, r),
         UNCHANGED limit
  PROVE  /\ hash' \in [Minutes -> Hash]
         /\ HashesGood'
         /\ \A w \in Minutes : now >= w + 2 => hash'[w] = NoHash
         /\ \A w \in Minutes, i \in Requests :
              /\ hash'[w].r[i] # Absent =>
                   window[i] = w /\ asked[i] = hash'[w].r[i] /\ caller[i] # "new"
              /\ hash[w].r[i] # Absent => hash'[w].r[i] = hash[w].r[i]
         /\ Script(k, r).reply = "allowed" =>
              k = "reserve" /\ hash'[window[r]].r[r] = asked[r] /\ now < window[r] + 2
<1> DEFINE v == window[r]
           h == hash[v]
           x == Script(k, r).hash
<1>0. v \in Minutes /\ asked[r] \in Amount /\ actual[r] \in Amount /\ limit \in Limits
      /\ hash \in [Minutes -> Hash] /\ now \in Nat
  BY DEF IInv, Types
<1>1. GoodHash(h) /\ (h.r[r] # Absent => h.r[r] = asked[r])
  BY <1>0 DEF IInv, HashesGood, RecordsOwn
<1>2. hash' = [hash EXCEPT ![v] = x]
  BY DEF Executed
<1>a. asked[r] # Absent
  BY <1>0, MaxAmountAssumption DEF Amount, Absent
<1>m. v \in Nat
  BY <1>0, QuotaAssumption DEF Minutes
<1>h. now >= v + 2 => h = NoHash
  BY <1>0 DEF IInv, ExpiredHeld
<1>e. WindowExpired(v) <=> now >= v + 2
  BY DEF WindowExpired, ExpiresAt
<1>n. NoHash.r[r] = Absent
  BY DEF NoHash
<1>3. /\ GoodHash(x)
      /\ \A i \in Requests : i # r => x.r[i] = h.r[i]
      /\ h.r[r] # Absent => x.r[r] = h.r[r]
      /\ x.r[r] # Absent => x.r[r] = asked[r]
      /\ now >= v + 2 => x = NoHash
      /\ Script(k, r).reply = "allowed" => k = "reserve" /\ x.r[r] = asked[r] /\ now < v + 2
  <2>1. CASE k = "reserve"
    <3>1. x = ReserveScript(h, r).hash /\ Script(k, r).reply = ReserveScript(h, r).reply
      BY <2>1 DEF Script
    <3>2. /\ GoodHash(x)
          /\ \A i \in Requests : i # r => x.r[i] = h.r[i]
          /\ x # h => h.r[r] = Absent /\ x.r[r] = asked[r] /\ ~WindowExpired(v)
          /\ Script(k, r).reply = "allowed" => x.r[r] = asked[r]
      BY <3>1, <1>0, <1>1, ReserveGood
    <3> HIDE DEF x, h, v
    <3>3. now >= v + 2 => x = NoHash
      BY <3>2, <1>h, <1>e
    <3>4. Script(k, r).reply = "allowed" => now < v + 2
      BY <3>2, <3>3, <1>n, <1>a, <1>0, <1>m
    <3>. QED
      BY <3>2, <3>3, <3>4, <1>1, <2>1
  <2>2. CASE k = "settle"
    <3>1. x = SettleScript(h, r).hash /\ Script(k, r).reply = SettleScript(h, r).reply
      BY <2>2 DEF Script
    <3>2. /\ GoodHash(x) /\ x.r = h.r
          /\ h = NoHash => x = h
          /\ Script(k, r).reply \in {"settled", "error"}
      BY <3>1, <1>0, <1>1, SettleGood
    <3> HIDE DEF x, h, v
    <3>. QED
      BY <3>2, <1>1, <1>h
  <2>. QED
    BY <2>1, <2>2 DEF Kinds
<1> HIDE DEF x
<1>4. hash'[v] = x /\ \A w \in Minutes : w # v => hash'[w] = hash[w]
  BY <1>0, <1>2
<1>5. hash' \in [Minutes -> Hash]
  BY <1>0, <1>2, <1>3 DEF GoodHash
<1>6. HashesGood'
  <2> SUFFICES ASSUME NEW w \in Minutes
               PROVE  GoodHash(hash[w])'
    BY DEF HashesGood
  <2>1. GoodHash(hash'[w])
    BY <1>3, <1>4 DEF IInv, HashesGood
  <2>. QED
    BY <2>1 DEF GoodHash
<1>7. \A w \in Minutes : now >= w + 2 => hash'[w] = NoHash
  BY <1>3, <1>4 DEF IInv, ExpiredHeld
<1>8. \A w \in Minutes, i \in Requests :
        /\ hash'[w].r[i] # Absent =>
              window[i] = w /\ asked[i] = hash'[w].r[i] /\ caller[i] # "new"
        /\ hash[w].r[i] # Absent => hash'[w].r[i] = hash[w].r[i]
  <2> SUFFICES ASSUME NEW w \in Minutes, NEW i \in Requests
               PROVE  /\ hash'[w].r[i] # Absent =>
                           window[i] = w /\ asked[i] = hash'[w].r[i] /\ caller[i] # "new"
                      /\ hash[w].r[i] # Absent => hash'[w].r[i] = hash[w].r[i]
    OBVIOUS
  <2>1. hash[w].r[i] # Absent =>
          window[i] = w /\ asked[i] = hash[w].r[i] /\ caller[i] # "new"
    BY DEF IInv, RecordsOwn
  <2>2. CASE w # v
    BY <2>1, <2>2, <1>4
  <2>3. CASE w = v /\ i # r
    BY <2>1, <2>3, <1>3, <1>4
  <2>4. CASE w = v /\ i = r
    BY <2>1, <2>4, <1>3, <1>4
  <2>. QED
    BY <2>2, <2>3, <2>4
<1>. QED
  BY <1>3, <1>4, <1>5, <1>6, <1>7, <1>8

\* A step that grants nothing leaves every minute's admissions alone.
LEMMA GrantsSame ==
  ASSUME NEW G, NEW w,
         \A i \in Requests :
            /\ caller'[i] \in Granted <=> caller[i] \in Granted
            /\ caller[i] \in Granted => window'[i] = window[i] /\ gateway'[i] = gateway[i]
  PROVE  AdmittedIn(G, w)' = AdmittedIn(G, w)
  BY DEF AdmittedIn

\* A request that has asked keeps its minute, its gateway and its amount, and
\* nothing is on its way for one that has not.
Monotone ==
    \A i \in Requests :
        /\ caller[i] # "new" =>
              /\ caller'[i] # "new" /\ window'[i] = window[i]
              /\ asked'[i] = asked[i] /\ gateway'[i] = gateway[i]
        /\ caller'[i] = "new" => \A k \in Kinds : wire'[k][i] <= 0

\* The steps that run no script and grant nothing.
LEMMA QuietKeeps ==
  ASSUME IInv, Types', WaitersShare', Monotone, UNCHANGED <<hash, limit, now, own>>,
         \A i \in Requests : caller'[i] \in Granted <=> caller[i] \in Granted
  PROVE  IInv'
<1>0. \A i \in Requests : caller[i] \in Granted =>
        window'[i] = window[i] /\ gateway'[i] = gateway[i] /\ asked'[i] = asked[i]
  BY DEF Monotone, Granted
<1>1. \A G, w : AdmittedIn(G, w)' = AdmittedIn(G, w)
  BY <1>0, GrantsSame
<1>2. RecordsOwn'
  BY DEF IInv, RecordsOwn, Monotone
<1>3. HashesGood'
  BY DEF IInv, HashesGood, GoodHash
<1>4. AdmittedIsCounted'
  BY <1>0 DEF IInv, AdmittedIsCounted
<1>5. ExpiredHeld'
  BY <1>1 DEF IInv, ExpiredHeld
<1>6. LocalHeld'
  BY <1>1 DEF IInv, LocalHeld, CountsItsOwn, own
<1>. QED
  BY <1>2, <1>3, <1>4, <1>5, <1>6 DEF IInv

\* The steps that run a script: only its reply "allowed" grants anything.
LEMMA ScriptKeeps ==
  ASSUME IInv, NEW r \in Requests, caller[r] # "new", NEW k \in Kinds, Executed(k, r),
         Types', WaitersShare', Monotone, UNCHANGED <<window, gateway, asked, limit, now, own>>,
         \A i \in Requests : i # r => (caller'[i] \in Granted <=> caller[i] \in Granted),
         caller[r] \in Granted => caller'[r] \in Granted,
         caller'[r] \in Granted /\ caller[r] \notin Granted =>
            Script(k, r).reply = "allowed" /\ gateway[r] \in Distributed
  PROVE  IInv'
<1>0. /\ HashesGood'
      /\ \A w \in Minutes : now >= w + 2 => hash'[w] = NoHash
      /\ \A w \in Minutes, i \in Requests :
           /\ hash'[w].r[i] # Absent =>
                window[i] = w /\ asked[i] = hash'[w].r[i] /\ caller[i] # "new"
           /\ hash[w].r[i] # Absent => hash'[w].r[i] = hash[w].r[i]
      /\ Script(k, r).reply = "allowed" =>
           k = "reserve" /\ hash'[window[r]].r[r] = asked[r] /\ now < window[r] + 2
  BY ExecutedGood
<1>t. Types
  BY DEF IInv
<1>1. RecordsOwn'
  BY <1>0 DEF RecordsOwn, Monotone
<1>2. AdmittedIsCounted'
  <2> SUFFICES ASSUME NEW i \in Requests, caller'[i] \in Granted, gateway[i] \in Distributed,
                      now < window[i] + 2
               PROVE  hash'[window[i]].r[i] = asked[i]
    BY DEF AdmittedIsCounted
  <2>1. window[i] \in Minutes /\ asked[i] # Absent
    BY <1>t, MaxAmountAssumption DEF Types, Amount, Absent
  <2>2. CASE caller[i] \in Granted
    BY <2>1, <2>2, <1>0 DEF IInv, AdmittedIsCounted
  <2>3. CASE caller[i] \notin Granted
    BY <2>3, <1>0
  <2>. QED
    BY <2>2, <2>3
<1>3. ASSUME NEW w \in Minutes, now >= w + 2
      PROVE  AdmittedIn(Distributed, w)' = AdmittedIn(Distributed, w)
  <2>1. \A i \in Requests : window[i] = w => (caller'[i] \in Granted <=> caller[i] \in Granted)
    BY <1>0, <1>3, <1>t, QuotaAssumption DEF Types, Minutes
  <2>. QED
    BY <2>1 DEF AdmittedIn
<1>4. ExpiredHeld'
  BY <1>0, <1>3 DEF IInv, ExpiredHeld
<1>5. ASSUME NEW g \in Gateways \ Distributed, NEW w
      PROVE  AdmittedIn({g}, w)' = AdmittedIn({g}, w)
  <2>1. \A i \in Requests : gateway[i] = g => (caller'[i] \in Granted <=> caller[i] \in Granted)
    BY <1>5
  <2>. QED
    BY <2>1 DEF AdmittedIn
<1>6. LocalHeld'
  BY <1>5 DEF IInv, LocalHeld, CountsItsOwn, own
<1>. QED
  BY <1>0, <1>1, <1>2, <1>4, <1>6 DEF IInv

\* Every step of callers, workers and Redis keeps the inductive invariant.
LEMMA StepIInv == IInv /\ [Next]_vars => IInv'
<1> SUFFICES ASSUME IInv, [Next]_vars
             PROVE  IInv'
  OBVIOUS
<1>t. Types /\ WaitersShare /\ RecordsOwn
  BY DEF IInv
<1>n. \A i \in Requests : caller[i] = "new" => \A k \in Kinds : wire[k][i] <= 0
  BY DEF IInv, RecordsOwn
<1> USE DEF Callers, Granted
<1>1. ASSUME NEW r \in Requests, NEW g \in Gateways, NEW m \in Minutes, NEW t \in Asks,
             Reserve(r, g, m, t)
      PROVE  IInv'
  <2>1. t \in Amount
    BY QuotaAssumption
  <2>0. Append(queue[g], r) \in Seq(Requests)
    BY <1>t DEF Types
  <2>2. queue' \in [Gateways -> Seq(Requests)]
    BY <1>t, <1>1, <2>0 DEF Reserve, Types
  <2>3. Types'
    BY <1>t, <1>1, <2>1, <2>2 DEF Reserve, Types, own
  <2>4. WaitersShare' /\ Monotone
    BY <1>t, <1>n, <1>1 DEF Reserve, Types, WaitersShare, Waiting, Monotone
  <2>5. \A i \in Requests : caller'[i] \in Granted <=> caller[i] \in Granted
    BY <1>t, <1>1 DEF Reserve, Types
  <2>. QED
    BY <1>1, <2>3, <2>4, <2>5, QuietKeeps DEF Reserve
<1>2. ASSUME NEW r \in Requests, GiveUp(r)
      PROVE  IInv'
  <2>1. Types'
    BY <1>t, <1>2 DEF GiveUp, Failed, Types, call, channel, own
  <2>2. WaitersShare' /\ Monotone
    BY <1>t, <1>n, <1>2 DEF GiveUp, Failed, Types, call, WaitersShare, Waiting, Monotone
  <2>3. \A i \in Requests : caller'[i] \in Granted <=> caller[i] \in Granted
    BY <1>t, <1>2 DEF GiveUp, Failed, Types, Waiting
  <2>. QED
    BY <1>2, <2>1, <2>2, <2>3, QuietKeeps DEF GiveUp, call
<1>3. ASSUME NEW r \in Requests, NEW n \in Actuals, Settle(r, n)
      PROVE  IInv'
  <2>1. n \in Amount
    BY QuotaAssumption
  <2>2. queue' \in [Gateways -> Seq(Requests)]
    BY <1>t, <1>3, QuotaAssumption DEF Settle, Types
  <2>3. Types'
    BY <1>t, <1>3, <2>1, <2>2 DEF Settle, Types, call, own
  <2>4. WaitersShare' /\ Monotone
    BY <1>t, <1>n, <1>3 DEF Settle, Types, call, WaitersShare, Waiting, Monotone
  <2>5. \A i \in Requests : caller'[i] \in Granted <=> caller[i] \in Granted
    BY <1>t, <1>3 DEF Settle, Types
  <2>. QED
    BY <1>3, <2>3, <2>4, <2>5, QuietKeeps DEF Settle, call
<1>4. ASSUME NEW r \in Requests, Retain(r)
      PROVE  IInv'
  <2>1. Types'
    BY <1>t, <1>4 DEF Retain, Types, call, channel, own
  <2>2. WaitersShare' /\ Monotone
    BY <1>t, <1>n, <1>4 DEF Retain, Types, call, WaitersShare, Waiting, Monotone
  <2>3. \A i \in Requests : caller'[i] \in Granted <=> caller[i] \in Granted
    BY <1>t, <1>4 DEF Retain, Types
  <2>. QED
    BY <1>4, <2>1, <2>2, <2>3, QuietKeeps DEF Retain, call
<1>5. ASSUME NEW g \in Gateways, Recv(g)
      PROVE  IInv'
  <2>1. queue[g] \in Seq(Requests) /\ queue[g] # <<>>
    BY <1>t, <1>5 DEF Recv, Types
  <2>2. Head(queue[g]) \in Requests /\ Tail(queue[g]) \in Seq(Requests)
    BY <2>1
  <2>3. Types'
    BY <1>t, <1>5, <2>2 DEF Recv, Types, call, own
  <2>4. WaitersShare' /\ Monotone
    BY <1>t, <1>n, <1>5 DEF Recv, call, WaitersShare, Waiting, Monotone
  <2>. QED
    BY <1>5, <2>3, <2>4, QuietKeeps DEF Recv, call
<1>6. ASSUME NEW g \in Gateways, AnswerError(g)
      PROVE  IInv'
  <2>0. work[g] \in Requests
    BY <1>t, <1>6 DEF AnswerError, Types
  <2>1. Types'
    BY <1>t, <1>6, <2>0 DEF AnswerError, Failed, Types, call, own
  <2>2. WaitersShare' /\ Monotone
    BY <1>t, <1>n, <1>6, <2>0 DEF AnswerError, Failed, Types, call, WaitersShare, Waiting, Monotone
  <2>3. \A i \in Requests : caller'[i] \in Granted <=> caller[i] \in Granted
    BY <1>t, <1>6, <2>0 DEF AnswerError, Failed, Types, Waiting
  <2>. QED
    BY <1>6, <2>1, <2>2, <2>3, QuietKeeps DEF AnswerError, call
<1>7. ASSUME NEW g \in Gateways, Succeed(g)
      PROVE  IInv'
  <2> DEFINE r == work[g]
             k == Kind(r)
  <2>1. /\ Attempting(g) /\ Script(k, r).reply # "error" /\ Executed(k, r)
        /\ caller' = [caller EXCEPT ![r] = Answer(Script(k, r).reply)]
        /\ work' = [work EXCEPT ![g] = None]
        /\ UNCHANGED <<call, actual, queue, tries, wire, now, own>>
    BY <1>7 DEF Succeed
  <2>2. r \in Requests /\ Waiting(r)
    BY <1>t, <2>1 DEF Attempting, Types
  <2>3. k \in Kinds /\ (caller[r] = "reserving" <=> k = "reserve")
    BY DEF Kind, Kinds
  <2>4. /\ Script(k, r).reply \in {"allowed", "denied", "settled"}
        /\ k = "settle" => Script(k, r).reply = "settled"
        /\ k = "reserve" => Script(k, r).reply # "settled"
    BY <2>1, <2>3 DEF Kinds, Script, ReserveScript, SettleScript
  <2>5. Answer(Script(k, r).reply) \in {"admitted", "refused", "done"}
        /\ (k = "settle" => Answer(Script(k, r).reply) = "done")
        /\ (Script(k, r).reply = "denied" => Answer(Script(k, r).reply) = "refused")
    BY <2>4 DEF Answer
  <2>6. hash' \in [Minutes -> Hash]
    BY <2>1, <2>2, <2>3, ExecutedGood DEF call, Waiting
  <2> DEFINE a == Answer(Script(k, r).reply)
  <2>7. /\ caller' = [caller EXCEPT ![r] = a] /\ a \in {"admitted", "refused", "done"}
        /\ k = "settle" => a = "done"
        /\ a # "refused" /\ k = "reserve" => Script(k, r).reply = "allowed"
    BY <2>1, <2>4, <2>5
  <2> HIDE DEF r, k, a
  <2>8. Types'
    BY <1>t, <2>1, <2>2, <2>6, <2>7 DEF Types, call, own
  <2>9. WaitersShare' /\ Monotone
    BY <1>t, <1>n, <2>1, <2>2, <2>7 DEF Types, call, WaitersShare, Waiting, Monotone
  <2>10. /\ \A i \in Requests : i # r => (caller'[i] \in Granted <=> caller[i] \in Granted)
         /\ caller'[r] = a
    BY <1>t, <2>2, <2>7 DEF Types
  <2>11. gateway[r] \in Distributed /\ caller[r] # "new"
    BY <1>t, <2>2 DEF WaitersShare, Waiting
  <2>12. caller[r] \in Granted => caller'[r] \in Granted
    BY <2>2, <2>3, <2>7, <2>10 DEF Waiting, Kinds
  <2>13. caller'[r] \in Granted /\ caller[r] \notin Granted => Script(k, r).reply = "allowed"
    BY <2>2, <2>3, <2>7, <2>10 DEF Waiting
  <2>14. UNCHANGED <<window, gateway, asked, limit, now, own>>
    BY <2>1 DEF call
  <2>. QED
    BY <2>1, <2>2, <2>3, <2>8, <2>9, <2>10, <2>11, <2>12, <2>13, <2>14, ScriptKeeps
<1>8. ASSUME NEW g \in Gateways, Fail(g)
      PROVE  IInv'
  <2> DEFINE r == work[g]
             k == Kind(r)
  <2>1. /\ Attempting(g)
        /\ \/ UNCHANGED <<wire, hash>>
           \/ Executed(k, r) /\ UNCHANGED wire
           \/ wire' = [wire EXCEPT ![k][r] = @ + 1] /\ UNCHANGED hash
        /\ UNCHANGED <<caller, call, actual, queue, work, now, own>>
    BY <1>8 DEF Fail
  <2>2. r \in Requests /\ Waiting(r) /\ caller[r] # "new"
    BY <1>t, <2>1 DEF Attempting, Types, Waiting
  <2>3. k \in Kinds
    BY DEF Kind, Kinds
  <2>4. hash' \in [Minutes -> Hash]
    <3>1. CASE UNCHANGED hash
      BY <3>1, <1>t DEF Types
    <3>2. CASE Executed(k, r)
      BY <3>2, <2>1, <2>2, <2>3, ExecutedGood DEF call
    <3>. QED
      BY <3>1, <3>2, <2>1
  <2> HIDE DEF r, k
  <2>5. wire' \in [Kinds -> [Requests -> Int]]
    BY <1>t, <2>1, <2>2, <2>3 DEF Types
  <2>6. \A i \in Requests : i # r => \A j \in Kinds : wire'[j][i] = wire[j][i]
    BY <1>t, <2>1, <2>2, <2>3 DEF Types
  <2>7. Types'
    BY <1>t, <2>1, <2>4, <2>5 DEF Types, call, own
  <2>8. WaitersShare' /\ Monotone
    BY <1>t, <1>n, <2>1, <2>2, <2>6 DEF call, WaitersShare, Waiting, Monotone
  <2>9. CASE UNCHANGED hash
    BY <2>1, <2>7, <2>8, <2>9, QuietKeeps DEF call
  <2>10. CASE Executed(k, r)
    BY <2>1, <2>2, <2>3, <2>7, <2>8, <2>10, ScriptKeeps DEF call
  <2>. QED
    BY <2>1, <2>9, <2>10
<1>9. ASSUME NEW k \in Kinds, NEW r \in Requests, ExecuteLate(k, r)
      PROVE  IInv'
  <2>1. wire[k][r] \in Int /\ wire[k][r] > 0 /\ Executed(k, r)
    BY <1>t, <1>9 DEF ExecuteLate, Types
  <2>2. caller[r] # "new"
    BY <1>n, <2>1
  <2>3. hash' \in [Minutes -> Hash]
    BY <1>9, <2>1, <2>2, ExecutedGood DEF ExecuteLate, call
  <2>4. wire' \in [Kinds -> [Requests -> Int]]
    BY <1>t, <1>9 DEF Types, ExecuteLate
  <2>5. \A i \in Requests : i # r => \A j \in Kinds : wire'[j][i] = wire[j][i]
    BY <1>t, <1>9 DEF Types, ExecuteLate
  <2>6. Types'
    BY <1>t, <1>9, <2>3, <2>4 DEF Types, ExecuteLate, call, channel, own
  <2>7. WaitersShare' /\ Monotone
    BY <1>t, <1>n, <1>9, <2>2, <2>5 DEF ExecuteLate, call, WaitersShare, Waiting, Monotone
  <2>. QED
    BY <1>9, <2>1, <2>2, <2>6, <2>7, ScriptKeeps DEF ExecuteLate, call
<1>10. ASSUME NEW r \in Requests, NEW g \in Gateways, NEW m \in Minutes, CheckRateLimit(r, g, m)
       PROVE  IInv'
  <2> DEFINE cur == LocalWindow(g, m)
             fits == cur.count < limit.rpm
             A(w) == AdmittedIn({g}, w)
  <2>1. /\ g \notin Distributed /\ caller[r] = "new"
        /\ rewound' = IF m < local[g].minute THEN rewound \cup {g} ELSE rewound
        /\ window' = [window EXCEPT ![r] = m] /\ gateway' = [gateway EXCEPT ![r] = g]
        /\ local' = [local EXCEPT ![g] = IF fits THEN [cur EXCEPT !.count = @ + 1] ELSE cur]
        /\ caller' = [caller EXCEPT ![r] = IF fits THEN "admitted" ELSE "refused"]
        /\ UNCHANGED <<asked, limit, actual, channel, wire, hash, now>>
    BY <1>10 DEF CheckRateLimit
  <2>2. /\ local[g] \in [minute : Minutes, count : Nat] /\ limit.rpm \in Nat
        /\ local[g].minute \in Nat /\ m \in Nat
        /\ g \notin rewound => CountsItsOwn(g)
    BY <1>t, <2>1, QuotaAssumption DEF Types, IInv, LocalHeld, Minutes
  <2>k. cur \in [minute : Minutes, count : Nat] /\ cur.minute = m
    BY <2>2 DEF LocalWindow
  <2>o. g \notin rewound' => g \notin rewound /\ m >= local[g].minute
    BY <2>1, <2>2
  <2>3. ASSUME g \notin rewound'
        PROVE  cur.count <= limit.rpm /\ Cardinality(A(m)) <= cur.count
    <3>0. CountsItsOwn(g) /\ m >= local[g].minute
      BY <2>2, <2>o, <2>3
    <3>1. CASE m = local[g].minute
      BY <3>0, <3>1, <2>2 DEF LocalWindow, CountsItsOwn
    <3>2. CASE m > local[g].minute
      <4>1. cur = [minute |-> m, count |-> 0] /\ A(m) = {}
        BY <3>0, <3>2, <2>2 DEF LocalWindow, CountsItsOwn
      <4>. QED
        BY <4>1, <2>2, FS_EmptySet
    <3>. QED
      BY <3>0, <3>1, <3>2, <2>2
  <2>4. local'[g] = IF fits THEN [cur EXCEPT !.count = @ + 1] ELSE cur
    BY <1>t, <2>1 DEF Types
  <2>5. \A o \in Gateways : o # g => local'[o] = local[o]
    BY <1>t, <2>1 DEF Types
  <2> HIDE DEF cur
  <2>6. /\ local'[g] \in [minute : Minutes, count : Nat] /\ local'[g].minute = m
        /\ local'[g].count = (IF fits THEN cur.count + 1 ELSE cur.count)
    BY <2>k, <2>4
  <2> HIDE DEF fits
  <2>7. Types'
    <3>1. local' \in [Gateways -> [minute : Minutes, count : Nat]]
      BY <1>t, <2>1, <2>4, <2>6 DEF Types
    <3>. QED
      BY <1>t, <2>1, <3>1 DEF Types, channel
  <2>8. \A i \in Requests : i # r =>
          caller'[i] = caller[i] /\ window'[i] = window[i] /\ gateway'[i] = gateway[i]
    BY <1>t, <2>1 DEF Types
  <2>9. /\ window'[r] = m /\ gateway'[r] = g
        /\ caller'[r] = (IF fits THEN "admitted" ELSE "refused")
    BY <1>t, <2>1 DEF Types
  <2>10. WaitersShare'
    BY <1>t, <2>8, <2>9 DEF WaitersShare, Waiting
  <2>11. RecordsOwn'
    BY <1>t, <2>1, <2>8, <2>9 DEF RecordsOwn
  <2>12. HashesGood'
    BY <2>1 DEF IInv, HashesGood, GoodHash
  <2>13. AdmittedIsCounted'
    BY <2>1, <2>8, <2>9 DEF IInv, AdmittedIsCounted
  <2>14. ASSUME NEW G, g \notin G, NEW w
         PROVE  AdmittedIn(G, w)' = AdmittedIn(G, w)
    BY <2>1, <2>8, <2>9, <2>14 DEF AdmittedIn
  <2>15. ExpiredHeld'
    BY <2>1, <2>14 DEF IInv, ExpiredHeld
  <2>16. ASSUME NEW w
         PROVE  A(w)' = IF fits /\ w = m THEN A(w) \cup {r} ELSE A(w)
    BY <2>1, <2>8, <2>9 DEF AdmittedIn
  <2>17. \A w : IsFiniteSet(A(w)) /\ r \notin A(w) /\ Cardinality(A(w)) \in Nat
    BY <2>1, QuotaAssumption, FS_Subset, FS_CardinalityType DEF AdmittedIn
  <2>18. fits => Cardinality(A(m)') = Cardinality(A(m)) + 1
    BY <2>16, <2>17, FS_AddElement
  <2>19. ASSUME g \notin rewound'
         PROVE  /\ Cardinality(A(m)') <= local'[g].count
                /\ local'[g].count <= limit.rpm /\ local'[g].count \in Nat
    <3>1. cur.count \in Nat /\ cur.count <= limit.rpm /\ Cardinality(A(m)) <= cur.count
      BY <2>k, <2>3, <2>19
    <3>2. CASE fits
      BY <3>1, <3>2, <2>2, <2>6, <2>17, <2>18 DEF fits
    <3>3. CASE ~fits
      BY <3>1, <3>3, <2>6, <2>16
    <3>. QED
      BY <3>2, <3>3
  <2>20. ASSUME g \notin rewound'
         PROVE  CountsItsOwn(g)'
    <3>0. /\ m >= local[g].minute
          /\ \A w \in Minutes : /\ w > local[g].minute => A(w) = {}
                              /\ Cardinality(A(w)) <= limit.rpm
      BY <2>2, <2>o, <2>20 DEF CountsItsOwn
    <3>m. \A w \in Minutes : w \in Nat
      BY QuotaAssumption DEF Minutes
    <3>c. Cardinality(A(m)') \in Nat
      <4>1. IsFiniteSet(A(m)')
        BY QuotaAssumption, FS_Subset DEF AdmittedIn
      <4>. QED
        BY <4>1, FS_CardinalityType
    <3> HIDE DEF A
    <3>1. ASSUME NEW w \in Minutes, w > m
          PROVE  A(w)' = {}
      BY <3>0, <3>1, <3>m, <2>1, <2>2, <2>16
    <3>2. ASSUME NEW w \in Minutes
          PROVE  Cardinality(A(w)') <= limit.rpm
      <4>1. CASE w = m
        BY <4>1, <3>c, <2>2, <2>19, <2>20
      <4>2. CASE w # m
        BY <4>2, <3>0, <2>16
      <4>. QED
        BY <4>1, <4>2
    <3>. QED
      BY <3>1, <3>2, <2>1, <2>6, <2>19, <2>20 DEF CountsItsOwn, A
  <2>21. ASSUME NEW o \in Gateways \ (Distributed \cup rewound'), o # g
         PROVE  CountsItsOwn(o)'
    <3>1. \A w : AdmittedIn({o}, w)' = AdmittedIn({o}, w)
      BY <2>14, <2>21
    <3>2. CountsItsOwn(o) /\ local'[o] = local[o]
      BY <2>1, <2>5, <2>21 DEF IInv, LocalHeld
    <3>. QED
      BY <3>1, <3>2, <2>1 DEF CountsItsOwn
  <2>22. LocalHeld'
    BY <2>20, <2>21 DEF LocalHeld
  <2>. QED
    BY <2>7, <2>10, <2>11, <2>12, <2>13, <2>15, <2>22 DEF IInv
<1>11. ASSUME RedisTick
       PROVE  IInv'
  <2>1. /\ now' = now + 1 /\ now \in Nat /\ limit \in Limits
        /\ UNCHANGED <<caller, call, actual, channel, wire, own>>
    BY <1>t, <1>11 DEF RedisTick, Types
  <2>2. \A w \in Minutes : hash'[w] = IF now + 1 >= w + 2 THEN NoHash ELSE hash[w]
    BY <1>11, <2>1 DEF RedisTick, ExpiresAt
  <2>3. NoHash \in Hash /\ \A i \in Requests : NoHash.r[i] = Absent
    BY DEF NoHash, Hash, Stored
  <2>m. \A w \in Minutes : w \in Nat
    BY QuotaAssumption DEF Minutes
  <2>4. hash' \in [Minutes -> Hash]
    BY <1>t, <1>11, <2>3 DEF RedisTick, Types
  <2>5. Types'
    BY <1>t, <2>1, <2>4 DEF Types, call, channel, own
  <2>6. WaitersShare'
    BY <1>t, <2>1 DEF WaitersShare, Waiting, call
  <2>7. RecordsOwn'
    BY <1>t, <2>1, <2>2, <2>3 DEF RecordsOwn, call
  <2>8. HashesGood'
    <3>1. GoodHash(NoHash)
      BY <2>1, EmptyIsGood
    <3>2. \A w \in Minutes : GoodHash(hash'[w])
      BY <3>1, <2>2 DEF IInv, HashesGood
    <3>. QED
      BY <3>2, <2>1 DEF HashesGood, GoodHash, call
  <2>9. AdmittedIsCounted'
    <3> SUFFICES ASSUME NEW i \in Requests, caller[i] \in Granted, gateway[i] \in Distributed,
                        now + 1 < window[i] + 2
                 PROVE  hash'[window[i]].r[i] = asked[i]
      BY <2>1 DEF AdmittedIsCounted, call
    <3>1. window[i] \in Minutes
      BY <1>t DEF Types
    <3>2. hash'[window[i]] = hash[window[i]] /\ now < window[i] + 2
      BY <3>1, <2>1, <2>2, <2>m
    <3>. QED
      BY <3>2 DEF IInv, AdmittedIsCounted
  <2>10. \A G, w : AdmittedIn(G, w)' = AdmittedIn(G, w)
    BY <2>1, GrantsSame DEF call
  <2>11. ExpiredHeld'
    <3>1. ASSUME NEW w \in Minutes
          PROVE  Cardinality(AdmittedIn(Distributed, w)) <= limit.rpm
      BY <2>1, <2>m, LiveHeld DEF IInv, ExpiredHeld
    <3>. QED
      BY <3>1, <2>1, <2>2, <2>10 DEF ExpiredHeld, call
  <2>12. LocalHeld'
    BY <2>1, <2>10 DEF IInv, LocalHeld, CountsItsOwn, call, own
  <2>. QED
    BY <2>5, <2>6, <2>7, <2>8, <2>9, <2>11, <2>12 DEF IInv
<1>12. CASE UNCHANGED vars
  <2>1. Types' /\ WaitersShare' /\ Monotone
    BY <1>t, <1>n, <1>12 DEF vars, Types, WaitersShare, Waiting, Monotone
  <2>. QED
    BY <1>12, <2>1, QuietKeeps DEF vars, own
<1>. QED
  BY <1>1, <1>2, <1>3, <1>4, <1>5, <1>6, <1>7, <1>8, <1>9, <1>10, <1>11, <1>12
  DEF Next, Kinds

\* The inductive invariant holds in every reachable state.
LEMMA Inductive == Spec => []IInv
  BY InitIInv, StepIInv, PTL DEF Spec

-----------------------------------------------------------------------------
(* The results.                                                            *)

\* The scripts of quota.rs under the worker's two attempts: however late or
\* repeated its commands, a minute's counters are exactly the reservations it
\* records, each at what it was settled for or else reserved.
THEOREM CountersCorrect == Spec => []CountersAgree
<1>1. IInv => CountersAgree
  BY DEF IInv, HashesGood, GoodHash, CountersAgree, Ids, Charge
<1>. QED
  BY <1>1, Inductive, PTL

\* EXPIREAT and the refusal of an expired minute (quota.rs): a request admitted
\* over Redis holds its reservation through its minute and the one after it.
THEOREM AdmissionsCorrect == Spec => []AdmittedIsCounted
<1>1. IInv => AdmittedIsCounted
  BY DEF IInv
<1>. QED
  BY <1>1, Inductive, PTL

\* The limits of a key (quota.rs, auth.rs), for any number of gateways: over
\* Redis, at most rpm requests are ever admitted for a minute, however wrong
\* the gateways' clocks; by a gateway on its own too, unless its clock goes
\* back past a minute it counted in; and what the reservations of a minute
\* were promised stays within tpm.
THEOREM LimitsCorrect == Spec => []LimitsHold
<1>1. IInv => LimitsHold
  <2> SUFFICES ASSUME IInv
               PROVE  LimitsHold
    OBVIOUS
  <2>1. ASSUME NEW w \in Minutes
        PROVE  Cardinality(AdmittedIn(Distributed, w)) <= limit.rpm
    <3>1. now \in Nat /\ w \in Nat
      BY QuotaAssumption DEF IInv, Types, Minutes
    <3>. QED
      BY <3>1, LiveHeld DEF IInv, ExpiredHeld
  <2>2. \A w \in Minutes, g \in Gateways \ (Distributed \cup rewound) :
          Cardinality(AdmittedIn({g}, w)) <= limit.rpm
    BY DEF IInv, LocalHeld, CountsItsOwn
  <2>3. \A w \in Minutes : Total(Ids(hash[w]), Promise(hash[w])) <= limit.tpm
    BY DEF IInv, HashesGood, GoodHash
  <2>. QED
    BY <2>1, <2>2, <2>3 DEF LimitsHold, Ids, Promise
<1>. QED
  BY <1>1, Inductive, PTL

=============================================================================
