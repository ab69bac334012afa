----------------------- MODULE ServiceEntryStoreProofs -----------------------
(***************************************************************************)
(* Proofs about ServiceEntryStore: what a change of the store and a sync   *)
(* make of the syncer and of the cluster, whatever the entries, the order  *)
(* in which they are visited and the call that fails.                      *)
(*                                                                         *)
(* Two things are said of what an Update reaches, entry by entry.  The one *)
(* holds always: an object is shared by those who know it.  The other only *)
(* while no read has failed, for then at most one entry is new, none is    *)
(* shared, and the cluster changes to what is published alone.             *)
(***************************************************************************)
EXTENDS ServiceEntryStore, FiniteSetTheorems, WellFoundedInduction, TLAPS

-----------------------------------------------------------------------------
IsObject(x) ==
  x = [name |-> x.name, spec |-> x.spec, fresh |-> x.fresh, peers |-> x.peers]
ObjectsKnown(known) ==
  \A h \in DOMAIN known :
    /\ IsObject(known[h]) /\ known[h].name \in Hosts
    /\ h \in known[h].peers /\ known[h].peers \subseteq DOMAIN known
StoreOK(known, served) ==
  /\ DOMAIN known \subseteq Hosts /\ DOMAIN served \subseteq Hosts
  /\ ObjectsKnown(known)

StoreInv ==
  /\ DOMAIN entries \subseteq Hosts
  /\ StoreOK(synced, cluster)

(* The syncer holds an object of its own for each of some entries, with    *)
(* their specifications.                                                   *)
Own(known, h) == known[h].name = h /\ known[h].peers = {h}
Mirrors(known, some) ==
  /\ DOMAIN known = DOMAIN some
  /\ \A h \in DOMAIN some : Own(known, h) /\ known[h].spec = some[h]

-----------------------------------------------------------------------------
(* Induction.                                                              *)
LEMMA LeastNumber ==
  ASSUME NEW T \in SUBSET Nat, T # {}
  PROVE  \E x \in T : \A y \in T : x <= y
<1>1. PICK x \in T : \A y \in T : <<y, x>> \notin OpToRel(<, Nat)
  BY NatLessThanWellFounded, WFMin
<1>2. ASSUME NEW y \in T PROVE x <= y
  <2>1. x \in Nat /\ y \in Nat
    OBVIOUS
  <2>2. ~(y < x)
    BY <1>1, <2>1 DEF OpToRel
  <2> QED BY <2>1, <2>2
<1> QED BY <1>2

(* What an Update reaches after so many entries, from st on.               *)
IsRun(run, st, new, order, f, n) ==
  /\ DOMAIN run = 0..n /\ run[0] = st
  /\ \A i \in 1..n : run[i] = UpdateEntry(run[i - 1], order[i], new[order[i]], f)
Step(run, i, st, new, order, f) ==
  IF i = 0 THEN st ELSE UpdateEntry(run[i - 1], order[i], new[order[i]], f)

LEMMA RunExists ==
  ASSUME NEW st, NEW new, NEW order, NEW f, NEW n \in Nat
  PROVE  \E run : run = [i \in 0..n |-> Step(run, i, st, new, order, f)]
<1> DEFINE Ends(m) == \E run : run = [i \in 0..m |-> Step(run, i, st, new, order, f)]
           T == {m \in Nat : ~Ends(m)}
<1>1. SUFFICES ASSUME T # {} PROVE FALSE
  OBVIOUS
<1>2. PICK m \in T : \A y \in T : m <= y
  <2> HIDE DEF Ends
  <2> QED BY <1>1, LeastNumber
<1>3. Ends(0)
  <2> DEFINE run == [i \in 0..0 |-> st]
  <2>1. run = [i \in 0..0 |-> Step(run, i, st, new, order, f)]
    BY DEF Step
  <2> QED BY <2>1
<1>4. m # 0 /\ m - 1 \in Nat /\ m - 1 \notin T
  <2> HIDE DEF Ends
  <2> QED BY <1>2, <1>3
<1>5. PICK run : run = [i \in 0..m - 1 |-> Step(run, i, st, new, order, f)]
  BY <1>4
<1>6. Ends(m)
  <2> DEFINE longer == [i \in 0..m |-> IF i = m THEN Step(run, i, st, new, order, f) ELSE run[i]]
  <2>1. ASSUME NEW i \in 0..m PROVE longer[i] = Step(longer, i, st, new, order, f)
    <3>1. Step(run, i, st, new, order, f) = Step(longer, i, st, new, order, f)
      <4>1. i # 0 => i - 1 \in 0..m /\ i - 1 # m /\ longer[i - 1] = run[i - 1]
        BY <1>2
      <4> QED BY <4>1 DEF Step
    <3>2. i # m => longer[i] = Step(run, i, st, new, order, f)
      <4>1. i # m => i \in 0..m - 1
        BY <1>4
      <4> HIDE DEF longer
      <4>2. i # m => longer[i] = run[i]
        BY DEF longer
      <4> QED BY <4>1, <4>2, <1>5
    <3> QED BY <3>1, <3>2
  <2>2. longer = [i \in 0..m |-> Step(longer, i, st, new, order, f)]
    BY <2>1
  <2> QED BY <2>2
<1> QED BY <1>2, <1>6

LEMMA UpdateRuns ==
  ASSUME NEW new, NEW order, NEW f, Len(order) \in Nat
  PROVE  \E run : /\ IsRun(run, Pruned(DOMAIN synced \ DOMAIN new, f), new, order, f, Len(order))
                  /\ Update(new, order, f) = run[Len(order)]
<1> DEFINE st == Pruned(DOMAIN synced \ DOMAIN new, f)
           Is(run) == run = [i \in 0..Len(order) |-> Step(run, i, st, new, order, f)]
           run == CHOOSE reached : Is(reached)
<1>1. \E reached : Is(reached)
  BY RunExists
<1>2. Is(run)
  <2> HIDE DEF Is
  <2> QED BY <1>1
<1>3. Update(new, order, f) = run[Len(order)]
  BY DEF Update, Step
<1>4. IsRun(run, st, new, order, f, Len(order))
  <2> HIDE DEF run, st
  <2> QED BY <1>2 DEF IsRun, Step
<1> QED BY <1>3, <1>4

-----------------------------------------------------------------------------
(* Each operation of the syncer keeps the objects shared among those who   *)
(* know them.                                                              *)
IsState(st) ==
  st = [synced |-> st.synced, cluster |-> st.cluster, read |-> st.read,
        returned |-> st.returned]
StateOK(st) == IsState(st) /\ StoreOK(st.synced, st.cluster) /\ st.read \subseteq Hosts

LEMMA StaleKnown ==
  ASSUME NEW known, NEW names, ObjectsKnown(known)
  PROVE  /\ DOMAIN Stale(known, names) = DOMAIN known
         /\ ObjectsKnown(Stale(known, names))
         /\ \A h \in DOMAIN known :
              LET x == Stale(known, names)[h]
              IN x.name = known[h].name /\ x.spec = known[h].spec /\ x.peers = known[h].peers
<1> DEFINE stale == Stale(known, names)
<1>1. DOMAIN stale = DOMAIN known
  BY DEF Stale
<1>2. ASSUME NEW h \in DOMAIN known
      PROVE  /\ IsObject(stale[h])
             /\ stale[h].name = known[h].name /\ stale[h].spec = known[h].spec
             /\ stale[h].peers = known[h].peers
  <2>1. known[h] = [name |-> known[h].name, spec |-> known[h].spec,
                    fresh |-> known[h].fresh, peers |-> known[h].peers]
    BY DEF ObjectsKnown, IsObject
  <2>2. stale[h] = [known[h] EXCEPT !.fresh = @ /\ known[h].name \notin names]
    BY DEF Stale
  <2>3. stale[h] = [name |-> known[h].name, spec |-> known[h].spec,
                    fresh |-> (known[h].fresh /\ known[h].name \notin names),
                    peers |-> known[h].peers]
    BY <2>1, <2>2
  <2> QED BY <2>3 DEF IsObject
<1> HIDE DEF stale
<1>3. ObjectsKnown(stale)
  BY <1>1, <1>2 DEF ObjectsKnown
<1> QED BY <1>1, <1>2, <1>3 DEF stale

LEMMA RememberKnown ==
  ASSUME NEW known, ObjectsKnown(known), NEW hosts,
         NEW object, IsObject(object), object.name \in Hosts, object.peers = hosts
  PROVE  /\ DOMAIN Remember(known, hosts, object) = DOMAIN known \union hosts
         /\ ObjectsKnown(Remember(known, hosts, object))
BY DEF Remember, ObjectsKnown

LEMMA UpdateToK8sOK ==
  ASSUME NEW st, StateOK(st), NEW h \in DOMAIN st.synced, NEW spec, NEW f
  PROVE  /\ StateOK(UpdateToK8s(st, h, spec, f))
         /\ UpdateToK8s(st, h, spec, f).read = st.read
         /\ UpdateToK8s(st, h, spec, f).returned = st.returned
<1> DEFINE o == st.synced[h]
           written == o.fresh /\ o.name \in DOMAIN st.cluster /\ f # <<"update", h>>
           base == IF written THEN Stale(st.synced, {o.name}) ELSE st.synced
           new == [o EXCEPT !.spec = spec]
           known == Remember(base, o.peers, new)
           served == IF written THEN With(st.cluster, o.name, spec) ELSE st.cluster
           out == UpdateToK8s(st, h, spec, f)
<1>1. CASE o.spec = spec
  BY <1>1 DEF UpdateToK8s
<1>2. CASE o.spec # spec
  <2>1. o = [name |-> o.name, spec |-> o.spec, fresh |-> o.fresh, peers |-> o.peers]
        /\ o.name \in Hosts /\ ObjectsKnown(st.synced) /\ o.peers \subseteq DOMAIN st.synced
    BY DEF StateOK, StoreOK, ObjectsKnown, IsObject
  <2>2. new = [name |-> o.name, spec |-> spec, fresh |-> o.fresh, peers |-> o.peers]
    BY <2>1
  <2>3. IsObject(new) /\ new.name \in Hosts /\ new.peers = o.peers
    BY <2>1, <2>2 DEF IsObject
  <2>4. ObjectsKnown(base) /\ DOMAIN base = DOMAIN st.synced
    BY <2>1, StaleKnown
  <2>5. ObjectsKnown(known) /\ DOMAIN known = DOMAIN st.synced
    <3> HIDE DEF base, new
    <3>1. DOMAIN known = DOMAIN base \union o.peers /\ ObjectsKnown(known)
      BY <2>3, <2>4, RememberKnown
    <3> QED BY <2>1, <2>4, <3>1
  <2>6. DOMAIN served \subseteq Hosts
    BY <2>1 DEF StateOK, StoreOK, With
  <2>7. out = [st EXCEPT !.synced = known, !.cluster = served]
    BY <1>2 DEF UpdateToK8s
  <2> HIDE DEF known, served, out
  <2>8. out = [synced |-> known, cluster |-> served, read |-> st.read, returned |-> st.returned]
    BY <2>7 DEF StateOK, IsState
  <2>9. StoreOK(known, served)
    BY <2>5, <2>6 DEF StateOK, StoreOK
  <2>10. StateOK(out) /\ out.read = st.read /\ out.returned = st.returned
    BY <2>8, <2>9 DEF StateOK, IsState
  <2> QED BY <2>10 DEF out
<1> QED BY <1>1, <1>2

LEMMA GetFromK8sOK ==
  ASSUME NEW st, StateOK(st), NEW h \in DOMAIN st.cluster
  PROVE  /\ StateOK(GetFromK8s(st, h))
         /\ h \in DOMAIN GetFromK8s(st, h).synced
<1> DEFINE shared == st.read \union {h}
           new == Object(h, st.cluster[h], TRUE, shared)
           known == Remember(st.synced, shared, new)
           out == GetFromK8s(st, h)
<1>1. IsObject(new) /\ new.name \in Hosts /\ new.peers = shared /\ shared \subseteq Hosts
  BY DEF Object, IsObject, StateOK, StoreOK
<1>2. ObjectsKnown(known) /\ DOMAIN known = DOMAIN st.synced \union shared
  <2> HIDE DEF new, shared
  <2> QED BY <1>1, RememberKnown DEF StateOK, StoreOK
<1>3. out = [st EXCEPT !.read = shared, !.synced = known]
  BY DEF GetFromK8s
<1> HIDE DEF out, known
<1>4. out = [synced |-> known, cluster |-> st.cluster, read |-> shared,
             returned |-> st.returned]
  BY <1>3 DEF StateOK, IsState
<1>5. StateOK(out) /\ h \in DOMAIN out.synced
  BY <1>1, <1>2, <1>4 DEF StateOK, IsState, StoreOK
<1> QED BY <1>5 DEF out

LEMMA AddToK8sOK ==
  ASSUME NEW st, StateOK(st), NEW h \in Hosts, NEW spec, NEW f
  PROVE  StateOK(AddToK8s(st, h, spec, f))
<1> DEFINE created == f # <<"create", h>>
           base == IF created THEN Stale(st.synced, {h}) ELSE st.synced
           new == Object(h, spec, created, {h})
           known == Remember(base, {h}, new)
           served == IF created THEN With(st.cluster, h, spec) ELSE st.cluster
           out == AddToK8s(st, h, spec, f)
<1>1. IsObject(new) /\ new.name \in Hosts /\ new.peers = {h}
  BY DEF Object, IsObject
<1>2. ObjectsKnown(base) /\ DOMAIN base = DOMAIN st.synced
  BY StaleKnown DEF StateOK, StoreOK
<1>3. ObjectsKnown(known) /\ DOMAIN known = DOMAIN base \union {h}
  <2> HIDE DEF new, base
  <2> QED BY <1>1, <1>2, RememberKnown
<1>4. DOMAIN served \subseteq Hosts
  BY DEF StateOK, StoreOK, With
<1>5. out = [st EXCEPT !.synced = known, !.cluster = served]
  BY DEF AddToK8s
<1> HIDE DEF out, known, served, base
<1>6. out = [synced |-> known, cluster |-> served, read |-> st.read, returned |-> st.returned]
  BY <1>5 DEF StateOK, IsState
<1>7. StateOK(out)
  BY <1>2, <1>3, <1>4, <1>6 DEF StateOK, IsState, StoreOK
<1> QED BY <1>7 DEF out

LEMMA UpdateEntryOK ==
  ASSUME NEW st, StateOK(st), NEW h \in Hosts, NEW spec, NEW f
  PROVE  StateOK(UpdateEntry(st, h, spec, f))
<1>1. CASE st.returned
  BY <1>1 DEF UpdateEntry
<1>2. CASE ~st.returned /\ h \in DOMAIN st.synced
  BY <1>2, UpdateToK8sOK DEF UpdateEntry
<1>3. CASE ~st.returned /\ h \notin DOMAIN st.synced /\ f = <<"get", h>>
  <2>1. UpdateEntry(st, h, spec, f) = [st EXCEPT !.returned = TRUE]
    BY <1>3 DEF UpdateEntry
  <2>2. PICK out : out = UpdateEntry(st, h, spec, f)
    OBVIOUS
  <2>3. out = [synced |-> st.synced, cluster |-> st.cluster, read |-> st.read,
               returned |-> TRUE]
    BY <2>1, <2>2 DEF StateOK, IsState
  <2> QED BY <2>2, <2>3 DEF StateOK, IsState
<1>4. CASE ~st.returned /\ h \notin DOMAIN st.synced /\ f # <<"get", h>> /\ h \in DOMAIN st.cluster
  <2>1. UpdateEntry(st, h, spec, f) = UpdateToK8s(GetFromK8s(st, h), h, spec, f)
    BY <1>4 DEF UpdateEntry
  <2> QED BY <1>4, <2>1, GetFromK8sOK, UpdateToK8sOK
<1>5. CASE ~st.returned /\ h \notin DOMAIN st.synced /\ f # <<"get", h>> /\ h \notin DOMAIN st.cluster
  BY <1>5, AddToK8sOK DEF UpdateEntry
<1> QED BY <1>1, <1>2, <1>3, <1>4, <1>5

LEMMA PrunedOK ==
  ASSUME StoreOK(synced, cluster), NEW gone, NEW f
  PROVE  StateOK(Pruned(gone, f))
<1> DEFINE st == [synced |-> synced, cluster |-> cluster, read |-> {}, returned |-> FALSE]
           known == Detached(synced, gone)
           names == {synced[h].name : h \in {g \in gone : f # <<"delete", g>>}}
           served == Without(cluster, names)
<1>1. Pruned(gone, f) = [st EXCEPT !.synced = known, !.cluster = served]
  BY DEF Pruned, DeleteFromK8s
<1>2. Pruned(gone, f)
        = [synced |-> known, cluster |-> served, read |-> {}, returned |-> FALSE]
  <2> HIDE DEF known, served
  <2> QED BY <1>1
<1>3. DOMAIN known = DOMAIN synced \ gone
  BY DEF Detached
<1>4. ASSUME NEW h \in DOMAIN known
      PROVE  /\ IsObject(known[h]) /\ known[h].name = synced[h].name
             /\ known[h].peers = synced[h].peers \ gone
  <2>1. synced[h] = [name |-> synced[h].name, spec |-> synced[h].spec,
                     fresh |-> synced[h].fresh, peers |-> synced[h].peers]
    BY <1>3 DEF StoreOK, ObjectsKnown, IsObject
  <2>2. known[h] = [synced[h] EXCEPT !.peers = @ \ gone]
    BY <1>3 DEF Detached
  <2>3. known[h] = [name |-> synced[h].name, spec |-> synced[h].spec,
                    fresh |-> synced[h].fresh, peers |-> synced[h].peers \ gone]
    BY <2>1, <2>2
  <2> QED BY <2>3 DEF IsObject
<1>5. DOMAIN served \subseteq Hosts
  BY DEF StoreOK, Without
<1> HIDE DEF known, served
<1>6. ObjectsKnown(known)
  BY <1>3, <1>4 DEF StoreOK, ObjectsKnown
<1>7. StoreOK(known, served)
  BY <1>3, <1>5, <1>6 DEF StoreOK
<1> QED BY <1>2, <1>7 DEF StateOK, IsState

(* The orders in which the entries are visited.                            *)
LEMMA Orders ==
  ASSUME NEW S, IsFiniteSet(S), NEW order \in SetToSeqs(S)
  PROVE  /\ Len(order) \in Nat /\ \A i \in 1..Len(order) : order[i] \in S
         /\ \A x \in S : \E i \in 1..Len(order) : order[i] = x
<1> DEFINE n == Cardinality(S)
<1>1. n \in Nat
  BY FS_CardinalityType
<1>2. order \in [1..n -> S] /\ \A i, j \in 1..n : i # j => order[i] # order[j]
  BY DEF SetToSeqs
<1>3. Len(order) = n
  <2> HIDE DEF n
  <2>1. order \in Seq(S) /\ DOMAIN order = 1..n
    BY <1>1, <1>2
  <2> QED BY <1>1, <2>1
<1>4. \A x \in S : \E i \in 1..n : order[i] = x
  <2> DEFINE R == {order[i] : i \in 1..n}
  <2>1. R \subseteq S
    BY <1>2
  <2>2. IsFiniteSet(1..n) /\ Cardinality(1..n) = n
    BY <1>1, FS_Interval
  <2>3. order \in Bijection(1..n, R)
    <3>1. order \in [1..n -> R] /\ \A x \in R : \E i \in 1..n : order[i] = x
      BY <1>2
    <3>2. IsInjective(order)
      BY <1>2 DEF IsInjective
    <3> QED BY <3>1, <3>2 DEF Bijection, Injection, Surjection
  <2>4. Cardinality(R) = n
    <3>1. order \in Bijection(1..n, R) => ExistsBijection(1..n, R)
      BY DEF ExistsBijection
    <3> HIDE DEF R, n
    <3> QED BY <2>2, <2>3, <3>1, FS_Bijection
  <2>5. R = S
    <3> HIDE DEF R
    <3> QED BY <2>1, <2>4, FS_Subset
  <2> QED BY <2>5
<1> QED BY <1>1, <1>2, <1>3, <1>4

LEMMA UpdateOK ==
  ASSUME StoreOK(synced, cluster), NEW new, DOMAIN new \subseteq Hosts,
         NEW order \in SetToSeqs(DOMAIN new), NEW f
  PROVE  StateOK(Update(new, order, f))
<1>1. /\ Len(order) \in Nat
      /\ \A i \in 1..Len(order) : order[i] \in Hosts
  BY HostsAssumption, FS_Subset, Orders
<1> DEFINE n == Len(order)
           st == Pruned(DOMAIN synced \ DOMAIN new, f)
<1>2. PICK run : IsRun(run, st, new, order, f, n) /\ Update(new, order, f) = run[n]
  BY <1>1, UpdateRuns
<1>3. StateOK(st)
  BY PrunedOK
<1> DEFINE T == {i \in 0..n : ~StateOK(run[i])}
<1> HIDE DEF st, n
<1>4. n \in Nat
  BY <1>1 DEF n
<1>5. ASSUME T # {} PROVE FALSE
  <2>1. PICK i \in T : \A j \in T : i <= j
    <3>1. T \in SUBSET Nat
      BY <1>4
    <3> HIDE DEF T
    <3> QED BY <3>1, <1>5, LeastNumber
  <2>2. i # 0
    BY <1>2, <1>3, <2>1 DEF IsRun
  <2>3. i \in 1..n /\ i - 1 \in 0..n /\ i - 1 \notin T
    BY <1>4, <2>1, <2>2
  <2>4. StateOK(run[i - 1])
    BY <2>3
  <2>5. run[i] = UpdateEntry(run[i - 1], order[i], new[order[i]], f)
    BY <1>2, <2>3 DEF IsRun
  <2>6. order[i] \in Hosts
    BY <1>1, <2>3 DEF n
  <2>7. StateOK(run[i])
    BY <2>4, <2>5, <2>6, UpdateEntryOK
  <2> QED BY <2>1, <2>7
<1>6. StateOK(run[n])
  BY <1>4, <1>5
<1> QED BY <1>2, <1>6

(* A change of the store makes of it what it says, whatever fails.         *)
LEMMA SetEntriesOK ==
  ASSUME StoreInv, NEW new, DOMAIN new \subseteq Hosts, NEW f, SetEntries(new, f)
  PROVE  entries' = new /\ StoreInv'
<1>1. CASE new = entries
  BY <1>1 DEF SetEntries, StoreInv
<1>2. CASE new # entries
  <2>1. PICK order \in SetToSeqs(DOMAIN new) :
          /\ synced' = Update(new, order, f).synced
          /\ cluster' = Update(new, order, f).cluster
    BY <1>2 DEF SetEntries
  <2>2. StoreOK(Update(new, order, f).synced, Update(new, order, f).cluster)
    BY UpdateOK DEF StoreInv, StateOK
  <2>3. entries' = new
    BY <1>2 DEF SetEntries
  <2> QED BY <2>1, <2>2, <2>3 DEF StoreInv
<1> QED BY <1>1, <1>2

(* The calls of the registries, and the sync.                              *)
LEMMA StoreDeleteOK ==
  ASSUME StoreInv, NEW hosts, NEW f, StoreDelete(hosts, f)
  PROVE  /\ StoreInv'
         /\ DOMAIN entries' = DOMAIN entries \ hosts
         /\ \A h \in DOMAIN entries' : entries'[h] = entries[h]
<1>1. PICK new : new = Without(entries, hosts)
  OBVIOUS
<1>2. /\ DOMAIN new = DOMAIN entries \ hosts
      /\ \A h \in DOMAIN new : new[h] = entries[h]
  BY <1>1 DEF Without
<1>3. DOMAIN new \subseteq Hosts /\ SetEntries(new, f)
  BY <1>1, <1>2 DEF StoreInv, StoreDelete
<1>4. entries' = new /\ StoreInv'
  BY <1>3, SetEntriesOK
<1> QED BY <1>2, <1>4

LEMMA StoreUpdateOK ==
  ASSUME StoreInv, NEW h \in Hosts, NEW spec, NEW f, StoreUpdate(h, spec, f)
  PROVE  /\ StoreInv'
         /\ DOMAIN entries' = DOMAIN entries \union {h}
         /\ \A g \in DOMAIN entries' : entries'[g] = IF g = h THEN spec ELSE entries[g]
<1>1. PICK new : new = With(entries, h, spec)
  OBVIOUS
<1>2. /\ DOMAIN new = DOMAIN entries \union {h}
      /\ \A g \in DOMAIN new : new[g] = IF g = h THEN spec ELSE entries[g]
  BY <1>1 DEF With
<1>3. DOMAIN new \subseteq Hosts /\ SetEntries(new, f)
  BY <1>1, <1>2 DEF StoreInv, StoreUpdate
<1>4. entries' = new /\ StoreInv'
  BY <1>3, SetEntriesOK
<1> QED BY <1>2, <1>4

LEMMA SyncOK ==
  ASSUME StoreInv, Sync
  PROVE  StoreInv'
<1>1. PICK f : /\ cluster' = Persisted(f) /\ entries' = entries
               /\ synced' = Stale(synced, {h \in Hosts : ~Same(cluster, cluster', h)})
  BY DEF Sync
<1>2. DOMAIN Persisted(f) \subseteq Hosts
  BY DEF Persisted, StoreInv, StoreOK
<1>3. PICK names : synced' = Stale(synced, names)
  BY <1>1
<1>4. DOMAIN synced' = DOMAIN synced /\ ObjectsKnown(synced')
  BY <1>3, StaleKnown DEF StoreInv, StoreOK
<1> QED BY <1>1, <1>2, <1>4 DEF StoreInv, StoreOK

-----------------------------------------------------------------------------
(* While no read has failed.  What an Update has reached is tidy: what it  *)
(* knows is an object for each entry it is to have and does not lack, and  *)
(* the cluster has changed to the new entries alone.                       *)
Becomes(served, new) ==
  \A h \in Hosts : Same(cluster, served, h) \/ Same(served, new, h)
Tidy(st, new) ==
  /\ StateOK(st) /\ ~st.returned
  /\ DOMAIN st.synced \subseteq DOMAIN new
  /\ DOMAIN new \intersect DOMAIN entries \subseteq DOMAIN st.synced
  /\ st.read \subseteq DOMAIN new \ DOMAIN entries
  /\ \A h \in DOMAIN st.synced : Own(st.synced, h)
  /\ Becomes(st.cluster, new)
Done(st, h, new) == h \in DOMAIN st.synced /\ st.synced[h].spec = new[h]
Progress(st, next, h, new) ==
  /\ Done(next, h, new)
  /\ \A g \in DOMAIN new : Done(st, g, new) => Done(next, g, new)
AtMostOneNew(new) == \A g, h \in DOMAIN new \ DOMAIN entries : g = h

LEMMA WithBecomes ==
  ASSUME NEW served, NEW new, Becomes(served, new), NEW h \in DOMAIN new
  PROVE  Becomes(With(served, h, new[h]), new)
<1>1. PICK more : more = With(served, h, new[h])
  OBVIOUS
<1>2. /\ DOMAIN more = DOMAIN served \union {h} /\ more[h] = new[h]
      /\ \A g \in DOMAIN served : g # h => more[g] = served[g]
  BY <1>1 DEF With
<1>3. Becomes(more, new)
  BY <1>2 DEF Becomes, Same
<1> QED BY <1>1, <1>3

LEMMA UpdateToK8sTidy ==
  ASSUME NEW st, NEW new, Tidy(st, new), NEW h \in DOMAIN st.synced, NEW f
  PROVE  /\ Tidy(UpdateToK8s(st, h, new[h], f), new)
         /\ Progress(st, UpdateToK8s(st, h, new[h], f), h, new)
<1> DEFINE o == st.synced[h]
           written == o.fresh /\ o.name \in DOMAIN st.cluster /\ f # <<"update", h>>
           base == IF written THEN Stale(st.synced, {o.name}) ELSE st.synced
           object == [o EXCEPT !.spec = new[h]]
           known == Remember(base, o.peers, object)
           served == IF written THEN With(st.cluster, o.name, new[h]) ELSE st.cluster
           out == UpdateToK8s(st, h, new[h], f)
<1>1. CASE o.spec = new[h]
  BY <1>1 DEF UpdateToK8s, Progress, Done
<1>2. CASE o.spec # new[h]
  <2>1. /\ IsObject(o) /\ ObjectsKnown(st.synced)
        /\ o.name = h /\ o.peers = {h} /\ h \in DOMAIN new
    BY DEF Tidy, StateOK, StoreOK, ObjectsKnown, Own
  <2>2. o = [name |-> h, spec |-> o.spec, fresh |-> o.fresh, peers |-> {h}]
    BY <2>1 DEF IsObject
  <2>3. object = [name |-> h, spec |-> new[h], fresh |-> o.fresh, peers |-> {h}]
    BY <2>2
  <2>4. /\ DOMAIN base = DOMAIN st.synced
        /\ \A g \in DOMAIN base : Own(base, g) /\ base[g].spec = st.synced[g].spec
    <3>1. \A g \in DOMAIN st.synced : Own(st.synced, g)
      BY DEF Tidy
    <3>2. CASE written
      BY <2>1, <3>1, <3>2, StaleKnown DEF Own
    <3>3. CASE ~written
      BY <3>1, <3>3
    <3> QED BY <3>2, <3>3
  <2>5. /\ DOMAIN known = DOMAIN st.synced /\ known[h] = object
        /\ \A g \in DOMAIN known : g # h => known[g] = base[g]
    <3> HIDE DEF base, object
    <3> QED BY <2>1, <2>4 DEF Remember
  <2>6. Becomes(served, new)
    BY <2>1, WithBecomes DEF Tidy
  <2>7. StateOK(out) /\ out.read = st.read /\ out.returned = st.returned
    BY UpdateToK8sOK DEF Tidy
  <2>8. out = [st EXCEPT !.synced = known, !.cluster = served]
    BY <1>2 DEF UpdateToK8s
  <2> HIDE DEF known, served, out, object, base
  <2>9. out.synced = known /\ out.cluster = served
    BY <2>8 DEF Tidy, StateOK, IsState
  <2>10. \A g \in DOMAIN known : Own(known, g)
    BY <2>3, <2>4, <2>5 DEF Own
  <2>11. Tidy(out, new)
    BY <2>5, <2>6, <2>7, <2>9, <2>10 DEF Tidy
  <2>12. Progress(st, out, h, new)
    BY <2>1, <2>3, <2>4, <2>5, <2>9 DEF Progress, Done
  <2> QED BY <2>11, <2>12 DEF out
<1> QED BY <1>1, <1>2

LEMMA GetFromK8sTidy ==
  ASSUME NEW st, NEW new, Tidy(st, new), AtMostOneNew(new),
         NEW h \in DOMAIN new, h \notin DOMAIN st.synced, h \in DOMAIN st.cluster
  PROVE  /\ Tidy(GetFromK8s(st, h), new) /\ h \in DOMAIN GetFromK8s(st, h).synced
         /\ \A g \in DOMAIN new : Done(st, g, new) => Done(GetFromK8s(st, h), g, new)
<1> DEFINE shared == st.read \union {h}
           object == Object(h, st.cluster[h], TRUE, shared)
           known == Remember(st.synced, shared, object)
           out == GetFromK8s(st, h)
<1>1. shared = {h} /\ h \notin DOMAIN entries
  BY DEF Tidy, AtMostOneNew
<1>2. /\ DOMAIN known = DOMAIN st.synced \union {h} /\ Own(known, h)
      /\ \A g \in DOMAIN known : g # h => known[g] = st.synced[g]
  BY <1>1 DEF Remember, Object, Own
<1>3. StateOK(out)
  BY GetFromK8sOK DEF Tidy
<1>4. out = [st EXCEPT !.read = shared, !.synced = known]
  BY DEF GetFromK8s
<1> HIDE DEF out, known
<1>5. /\ out.synced = known /\ out.cluster = st.cluster /\ out.read = {h}
      /\ out.returned = st.returned
  BY <1>1, <1>4 DEF Tidy, StateOK, IsState
<1>6. \A g \in DOMAIN known : Own(known, g)
  BY <1>2 DEF Tidy, Own
<1>7. Tidy(out, new)
  BY <1>1, <1>2, <1>3, <1>5, <1>6 DEF Tidy
<1>8. \A g \in DOMAIN new : Done(st, g, new) => Done(out, g, new)
  BY <1>2, <1>5 DEF Done
<1> QED BY <1>2, <1>5, <1>7, <1>8 DEF out

LEMMA AddToK8sTidy ==
  ASSUME NEW st, NEW new, Tidy(st, new), DOMAIN new \subseteq Hosts,
         NEW h \in DOMAIN new, h \notin DOMAIN st.synced, NEW f
  PROVE  /\ Tidy(AddToK8s(st, h, new[h], f), new)
         /\ Progress(st, AddToK8s(st, h, new[h], f), h, new)
<1> DEFINE created == f # <<"create", h>>
           base == IF created THEN Stale(st.synced, {h}) ELSE st.synced
           object == Object(h, new[h], created, {h})
           known == Remember(base, {h}, object)
           served == IF created THEN With(st.cluster, h, new[h]) ELSE st.cluster
           out == AddToK8s(st, h, new[h], f)
<1>1. h \in Hosts /\ ObjectsKnown(st.synced)
  BY DEF Tidy, StateOK, StoreOK
<1>2. /\ DOMAIN base = DOMAIN st.synced
      /\ \A g \in DOMAIN base : Own(base, g) /\ base[g].spec = st.synced[g].spec
  <2>1. \A g \in DOMAIN st.synced : Own(st.synced, g)
    BY DEF Tidy
  <2>2. CASE created
    BY <1>1, <2>1, <2>2, StaleKnown DEF Own
  <2>3. CASE ~created
    BY <2>1, <2>3
  <2> QED BY <2>2, <2>3
<1>3. object.name = h /\ object.peers = {h} /\ object.spec = new[h]
  BY DEF Object
<1>4. /\ DOMAIN known = DOMAIN st.synced \union {h} /\ known[h] = object
      /\ \A g \in DOMAIN known : g # h => known[g] = base[g]
  <2> HIDE DEF base, object
  <2> QED BY <1>2 DEF Remember
<1>5. Becomes(served, new)
  BY WithBecomes DEF Tidy
<1>6. StateOK(out)
  BY <1>1, AddToK8sOK DEF Tidy
<1>7. out = [st EXCEPT !.synced = known, !.cluster = served]
  BY DEF AddToK8s
<1> HIDE DEF known, served, out, object, base
<1>8. /\ out.synced = known /\ out.cluster = served /\ out.read = st.read
      /\ out.returned = st.returned
  BY <1>7 DEF Tidy, StateOK, IsState
<1>9. \A g \in DOMAIN known : Own(known, g)
  BY <1>2, <1>3, <1>4 DEF Own
<1>10. Tidy(out, new)
  BY <1>4, <1>5, <1>6, <1>8, <1>9 DEF Tidy
<1>11. Progress(st, out, h, new)
  BY <1>2, <1>3, <1>4, <1>8 DEF Progress, Done
<1> QED BY <1>10, <1>11 DEF out

LEMMA UpdateEntryTidy ==
  ASSUME NEW st, NEW new, Tidy(st, new), AtMostOneNew(new), DOMAIN new \subseteq Hosts,
         NEW h \in DOMAIN new, NEW f, f # <<"get", h>>
  PROVE  /\ Tidy(UpdateEntry(st, h, new[h], f), new)
         /\ Progress(st, UpdateEntry(st, h, new[h], f), h, new)
<1>1. ~st.returned
  BY DEF Tidy
<1>2. CASE h \in DOMAIN st.synced
  BY <1>1, <1>2, UpdateToK8sTidy DEF UpdateEntry
<1>3. CASE h \notin DOMAIN st.synced /\ h \in DOMAIN st.cluster
  <2>1. UpdateEntry(st, h, new[h], f) = UpdateToK8s(GetFromK8s(st, h), h, new[h], f)
    BY <1>1, <1>3 DEF UpdateEntry
  <2>2. PICK got : got = GetFromK8s(st, h)
    OBVIOUS
  <2>3. /\ Tidy(got, new) /\ h \in DOMAIN got.synced
        /\ \A g \in DOMAIN new : Done(st, g, new) => Done(got, g, new)
    BY <1>3, <2>2, GetFromK8sTidy
  <2>4. PICK out : out = UpdateToK8s(got, h, new[h], f)
    OBVIOUS
  <2>5. Tidy(out, new) /\ Progress(got, out, h, new)
    BY <2>3, <2>4, UpdateToK8sTidy
  <2>6. Progress(st, out, h, new)
    BY <2>3, <2>5 DEF Progress
  <2> QED BY <2>1, <2>2, <2>4, <2>5, <2>6
<1>4. CASE h \notin DOMAIN st.synced /\ h \notin DOMAIN st.cluster
  BY <1>1, <1>4, AddToK8sTidy DEF UpdateEntry
<1> QED BY <1>2, <1>3, <1>4

LEMMA PrunedTidy ==
  ASSUME StoreInv, Mirrors(synced, entries), NEW new, NEW f
  PROVE  Tidy(Pruned(DOMAIN synced \ DOMAIN new, f), new)
<1> DEFINE gone == DOMAIN synced \ DOMAIN new
           st == [synced |-> synced, cluster |-> cluster, read |-> {}, returned |-> FALSE]
           known == Detached(synced, gone)
           names == {synced[h].name : h \in {g \in gone : f # <<"delete", g>>}}
           served == Without(cluster, names)
<1>1. Pruned(gone, f) = [st EXCEPT !.synced = known, !.cluster = served]
  BY DEF Pruned, DeleteFromK8s
<1>2. Pruned(gone, f)
        = [synced |-> known, cluster |-> served, read |-> {}, returned |-> FALSE]
  <2> HIDE DEF known, served
  <2> QED BY <1>1
<1>3. DOMAIN known = DOMAIN entries \intersect DOMAIN new
  BY DEF Detached, Mirrors
<1>4. ASSUME NEW h \in DOMAIN known PROVE Own(known, h)
  <2>1. synced[h] = [name |-> h, spec |-> synced[h].spec,
                     fresh |-> synced[h].fresh, peers |-> {h}]
    BY <1>3 DEF Mirrors, Own, StoreInv, StoreOK, ObjectsKnown, IsObject
  <2>2. known[h] = [synced[h] EXCEPT !.peers = @ \ gone]
    BY <1>3 DEF Detached, Mirrors
  <2>3. known[h].name = h /\ known[h].peers = {h} \ gone
    BY <2>1, <2>2
  <2> QED BY <1>3, <2>3 DEF Own
<1>5. \A n \in names : n \notin DOMAIN new
  BY DEF Mirrors, Own
<1>6. Becomes(served, new)
  <2> HIDE DEF names
  <2> QED BY <1>5 DEF Becomes, Same, Without
<1>7. StateOK(Pruned(gone, f))
  BY PrunedOK DEF StoreInv
<1> HIDE DEF known, served, gone
<1>8. PICK out : out = Pruned(gone, f)
  OBVIOUS
<1>9. /\ out.synced = known /\ out.cluster = served /\ out.read = {} /\ ~out.returned
  BY <1>2, <1>8
<1>10. Tidy(out, new)
  BY <1>3, <1>4, <1>6, <1>7, <1>8, <1>9 DEF Tidy
<1> QED BY <1>8, <1>10 DEF gone

LEMMA UpdateTidy ==
  ASSUME StoreInv, Mirrors(synced, entries),
         NEW new, DOMAIN new \subseteq Hosts, AtMostOneNew(new),
         NEW order \in SetToSeqs(DOMAIN new), NEW f, f[1] # "get"
  PROVE  /\ Tidy(Update(new, order, f), new)
         /\ \A h \in DOMAIN new : Done(Update(new, order, f), h, new)
<1>1. /\ Len(order) \in Nat
      /\ \A i \in 1..Len(order) : order[i] \in DOMAIN new
      /\ \A h \in DOMAIN new : \E i \in 1..Len(order) : order[i] = h
  BY HostsAssumption, FS_Subset, Orders
<1> DEFINE n == Len(order)
           st == Pruned(DOMAIN synced \ DOMAIN new, f)
<1>2. PICK run : IsRun(run, st, new, order, f, n) /\ Update(new, order, f) = run[n]
  BY <1>1, UpdateRuns
<1>3. Tidy(st, new)
  BY PrunedTidy
<1> DEFINE Good(i) == /\ Tidy(run[i], new)
                      /\ \A j \in 1..i : Done(run[i], order[j], new)
           T == {i \in 0..n : ~Good(i)}
<1> HIDE DEF st, n
<1>4. n \in Nat
  BY <1>1 DEF n
<1>5. ASSUME T # {} PROVE FALSE
  <2>1. PICK i \in T : \A j \in T : i <= j
    <3>1. T \in SUBSET Nat
      BY <1>4
    <3> HIDE DEF T
    <3> QED BY <3>1, <1>5, LeastNumber
  <2>2. i # 0
    BY <1>2, <1>3, <2>1 DEF IsRun
  <2>3. i \in 1..n /\ i - 1 \in 0..n /\ i - 1 \notin T
    BY <1>4, <2>1, <2>2
  <2>4. Good(i - 1)
    BY <2>3
  <2>5. run[i] = UpdateEntry(run[i - 1], order[i], new[order[i]], f)
    BY <1>2, <2>3 DEF IsRun
  <2>6. order[i] \in DOMAIN new /\ \A j \in 1..n : order[j] \in DOMAIN new
    BY <1>1, <2>3 DEF n
  <2>7. f # <<"get", order[i]>>
    OBVIOUS
  <2>8. Tidy(run[i], new) /\ Progress(run[i - 1], run[i], order[i], new)
    BY <2>4, <2>5, <2>6, <2>7, UpdateEntryTidy
  <2>9. \A j \in 1..i : Done(run[i], order[j], new)
    <3>1. ASSUME NEW j \in 1..i, j # i PROVE Done(run[i], order[j], new)
      <4>1. j \in 1..i - 1 /\ j \in 1..n
        BY <1>4, <2>3, <3>1
      <4> QED BY <2>4, <2>6, <2>8, <4>1 DEF Progress
    <3> QED BY <2>8, <3>1 DEF Progress
  <2> QED BY <2>1, <2>8, <2>9
<1>6. Good(n)
  <2> HIDE DEF Good
  <2> QED BY <1>4, <1>5
<1>7. \A h \in DOMAIN new : Done(run[n], h, new)
  BY <1>1, <1>6 DEF n
<1> QED BY <1>2, <1>6, <1>7

(* A change of the store that brings at most one new entry leaves the      *)
(* syncer with an object of its own for each entry, and the cluster        *)
(* changed to the new entries alone.                                       *)
LEMMA SetEntriesMirrors ==
  ASSUME StoreInv, Mirrors(synced, entries),
         NEW new, DOMAIN new \subseteq Hosts, AtMostOneNew(new),
         NEW f, f[1] # "get", SetEntries(new, f)
  PROVE  Mirrors(synced, entries)' /\ Becomes(cluster', new)
<1>1. CASE new = entries
  <2>1. Becomes(cluster, new)
    BY DEF Becomes, Same
  <2> QED BY <1>1, <2>1 DEF SetEntries
<1>2. CASE new # entries
  <2>1. PICK order \in SetToSeqs(DOMAIN new) :
          /\ synced' = Update(new, order, f).synced
          /\ cluster' = Update(new, order, f).cluster
    BY <1>2 DEF SetEntries
  <2>2. PICK st : st = Update(new, order, f)
    OBVIOUS
  <2>3. Tidy(st, new) /\ \A h \in DOMAIN new : Done(st, h, new)
    BY <2>2, UpdateTidy
  <2>4. Mirrors(st.synced, new) /\ Becomes(st.cluster, new)
    BY <2>3 DEF Tidy, Done, Mirrors
  <2>5. entries' = new /\ synced' = st.synced /\ cluster' = st.cluster
    BY <1>2, <2>1, <2>2 DEF SetEntries
  <2> QED BY <2>4, <2>5
<1> QED BY <1>1, <1>2

LEMMA StoreDeleteMirrors ==
  ASSUME StoreInv, Mirrors(synced, entries),
         NEW hosts, NEW f, f[1] # "get", StoreDelete(hosts, f)
  PROVE  Mirrors(synced, entries)' /\ Becomes(cluster', entries')
<1>1. PICK new : new = Without(entries, hosts)
  OBVIOUS
<1>2. DOMAIN new \subseteq Hosts /\ AtMostOneNew(new) /\ SetEntries(new, f)
  BY <1>1 DEF StoreInv, StoreDelete, Without, AtMostOneNew
<1>3. entries' = new
  BY <1>2, SetEntriesOK
<1> QED BY <1>2, <1>3, SetEntriesMirrors

LEMMA StoreUpdateMirrors ==
  ASSUME StoreInv, Mirrors(synced, entries),
         NEW h \in Hosts, NEW spec, NEW f, f[1] # "get", StoreUpdate(h, spec, f)
  PROVE  Mirrors(synced, entries)' /\ Becomes(cluster', entries')
<1>1. PICK new : new = With(entries, h, spec)
  OBVIOUS
<1>2. DOMAIN new \subseteq Hosts /\ AtMostOneNew(new) /\ SetEntries(new, f)
  BY <1>1 DEF StoreInv, StoreUpdate, With, AtMostOneNew
<1>3. entries' = new
  BY <1>2, SetEntriesOK
<1> QED BY <1>2, <1>3, SetEntriesMirrors

LEMMA SyncMirrors ==
  ASSUME StoreInv, Mirrors(synced, entries), Sync
  PROVE  Mirrors(synced, entries)' /\ Becomes(cluster', entries)
<1>1. PICK f : /\ cluster' = Persisted(f) /\ entries' = entries
               /\ synced' = Stale(synced, {h \in Hosts : ~Same(cluster, cluster', h)})
  BY DEF Sync
<1>2. PICK names : synced' = Stale(synced, names)
  BY <1>1
<1>3. PICK known : known = Stale(synced, names)
  OBVIOUS
<1>4. Mirrors(known, entries)
  BY <1>3, StaleKnown DEF StoreInv, StoreOK, Mirrors, Own
<1>5. Becomes(Persisted(f), entries)
  BY DEF Persisted, Becomes, Same, Mirrors
<1> QED BY <1>1, <1>2, <1>3, <1>4, <1>5
=============================================================================
