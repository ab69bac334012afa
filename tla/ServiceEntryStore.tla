-------------------------- MODULE ServiceEntryStore --------------------------
(***************************************************************************)
(* The store of service entries and the syncer that writes them to the     *)
(* cluster.  A change of the store calls Update of the syncer while it     *)
(* holds the store's lock, so the two are one step here; a ticker calls    *)
(* sync.  Every call to the API server may fail.                           *)
(*                                                                         *)
(* What the syncer remembers of an entry is a pointer to the object it     *)
(* wrote or read: "name" is the object's own, "fresh" that its resource    *)
(* version is the cluster's, "peers" the entries that hold the same        *)
(* pointer (all those that one Update has read share one variable).        *)
(*                                                                         *)
(* A definition X_Fault just before X is X with a plausible mistake in it. *)
(***************************************************************************)
EXTENDS Naturals, FiniteSets, SequencesExt

CONSTANTS
  Hosts,      \* the names of the service entries
  MaxEvents,  \* bound of the exploration: what happens from outside
  MaxFaults   \* bound of the exploration: the failures among that

ASSUME HostsAssumption == IsFiniteSet(Hosts)
ASSUME BoundAssumption == MaxEvents \in Nat

VARIABLES
  entries,    \* serviceEntryStore.entries: host -> specification
  synced,     \* serviceEntrySyncer.entries
  cluster,    \* the ServiceEntries of the cluster, labelled as the registry's
  events,     \* history: failures, restarts and changes from outside so far
  faults      \* history: the failures among them

counters == <<events, faults>>
storeVars == <<entries, synced, cluster, counters>>

Nothing == [h \in {} |-> h]
Same(f, g, h) == (h \in DOMAIN f <=> h \in DOMAIN g) /\ (h \in DOMAIN f => f[h] = g[h])
Without(f, hosts) == [h \in DOMAIN f \ hosts |-> f[h]]
With(f, h, v) == [g \in DOMAIN f \union {h} |-> IF g = h THEN v ELSE f[g]]

(* A failure is the operation that fails and what it was called for.       *)
NoFault == <<"none", "none">>
MayFail == events < MaxEvents /\ faults < MaxFaults
Fails(ops, things) == {NoFault} \union IF MayFail THEN ops \X things ELSE {}
Count(f) ==
  IF f = NoFault THEN UNCHANGED counters
  ELSE events' = events + 1 /\ faults' = faults + 1
Failure == MayFail /\ events' = events + 1 /\ faults' = faults + 1
Event == events < MaxEvents /\ events' = events + 1 /\ UNCHANGED faults

StoreInit ==
  /\ entries = Nothing /\ synced = Nothing /\ cluster = Nothing /\ faults = 0

-----------------------------------------------------------------------------
(* Each function below maps what one Update or sync has reached to what it *)
(* reaches next: the syncer's entries, the cluster, the entries that point *)
(* to the variable of this Update, and whether it has returned early.      *)
Object(name, spec, fresh, peers) ==
  [name |-> name, spec |-> spec, fresh |-> fresh, peers |-> peers]

Remember(known, hosts, object) ==
  [h \in DOMAIN known \union hosts |-> IF h \in hosts THEN object ELSE known[h]]

(* Whoever else holds an object of that name has an old version of it now. *)
Stale(known, names) ==
  [h \in DOMAIN known |-> [known[h] EXCEPT !.fresh = @ /\ known[h].name \notin names]]

(* Entries are forgotten; nobody shares an object with them any more.      *)
Detached(known, hosts) ==
  [h \in DOMAIN known \ hosts |-> [known[h] EXCEPT !.peers = @ \ hosts]]

(* deleteFromK8s for each of some hosts, the order of which makes no       *)
(* difference.                                                             *)
DeleteFromK8s(st, hosts, f) ==
  [st EXCEPT !.synced = Detached(@, hosts),
             !.cluster = Without(@, {st.synced[h].name :
                                       h \in {g \in hosts : f # <<"delete", g>>}})]

AddToK8s(st, h, spec, f) ==
  LET created == f # <<"create", h>>
  IN [st EXCEPT !.synced = Remember(IF created THEN Stale(@, {h}) ELSE @,
                                    {h}, Object(h, spec, created, {h})),
                !.cluster = IF created THEN With(@, h, spec) ELSE @]

UpdateToK8s_SpecOnSuccess(st, h, spec, f) ==
  LET o == st.synced[h]
      written == o.fresh /\ o.name \in DOMAIN st.cluster /\ f # <<"update", h>>
  IN IF o.spec = spec \/ ~written THEN st
     ELSE [st EXCEPT !.synced = Remember(Stale(@, {o.name}), o.peers, [o EXCEPT !.spec = spec]),
                     !.cluster = With(@, o.name, spec)]

(* The object takes the new specification before it is written; the API    *)
(* server refuses an object whose resource version is not the latest.      *)
UpdateToK8s(st, h, spec, f) ==
  LET o == st.synced[h]
      written == o.fresh /\ o.name \in DOMAIN st.cluster /\ f # <<"update", h>>
  IN IF o.spec = spec THEN st
     ELSE [st EXCEPT !.synced = Remember(IF written THEN Stale(@, {o.name}) ELSE @,
                                         o.peers, [o EXCEPT !.spec = spec]),
                     !.cluster = IF written THEN With(@, o.name, spec) ELSE @]

(* The object read takes the place of what this Update has read before.    *)
GetFromK8s(st, h) ==
  LET shared == st.read \union {h}
  IN [st EXCEPT !.read = shared,
                !.synced = Remember(@, shared, Object(h, st.cluster[h], TRUE, shared))]

UpdateEntry(st, h, spec, f) ==
  IF st.returned THEN st
  ELSE IF h \in DOMAIN st.synced THEN UpdateToK8s(st, h, spec, f)
  ELSE IF f = <<"get", h>> THEN [st EXCEPT !.returned = TRUE]
  ELSE IF h \in DOMAIN st.cluster THEN UpdateToK8s(GetFromK8s(st, h), h, spec, f)
  ELSE AddToK8s(st, h, spec, f)

(* Update of the syncer, for the entries in the order of the map: what it  *)
(* has reached after i of them.                                            *)
Pruned(gone, f) ==
  DeleteFromK8s([synced |-> synced, cluster |-> cluster, read |-> {}, returned |-> FALSE],
                gone, f)
Update(new, order, f) ==
  LET reached[i \in 0..Len(order)] ==
        IF i = 0 THEN Pruned(DOMAIN synced \ DOMAIN new, f)
        ELSE UpdateEntry(reached[i - 1], order[i], new[order[i]], f)
  IN reached[Len(order)]

(* Update and Delete of the store, with the call of the syncer: nothing is *)
(* done for an entry that is equal or not there.  Consecutive deletions    *)
(* under the lock of one registry are taken together.                      *)
SetEntries(new, f) ==
  IF new = entries
  THEN f = NoFault /\ UNCHANGED <<entries, synced, cluster>>
  ELSE /\ entries' = new
       /\ \E order \in SetToSeqs(DOMAIN new) :
            LET st == Update(new, order, f)
            IN /\ f = NoFault \/ st # Update(new, order, NoFault)
               /\ synced' = st.synced /\ cluster' = st.cluster

StoreUpdate(h, spec, f) == SetEntries(With(entries, h, spec), f)
StoreDelete(hosts, f) == SetEntries(Without(entries, hosts), f)

UpdateFaults(new) ==
  Fails({"get", "create", "update", "delete"}, DOMAIN entries \union DOMAIN synced \union new)

(* The periodic sync: what the syncer does not know is deleted, what it    *)
(* knows is written again if it differs.  The objects read are not kept.   *)
(* A list that fails changes nothing.                                      *)
Persisted(f) ==
  LET unknown == {h \in DOMAIN cluster \ DOMAIN synced : f # <<"delete", h>>}
      missing == {h \in DOMAIN synced \ DOMAIN cluster : f # <<"create", h>>}
      differing == {h \in DOMAIN synced \intersect DOMAIN cluster : f # <<"update", h>>}
  IN [h \in (DOMAIN cluster \ unknown) \union missing |->
        IF h \in missing \union differing THEN synced[h].spec ELSE cluster[h]]

Sync ==
  \E f \in Fails({"create", "update", "delete"}, DOMAIN cluster \union DOMAIN synced) :
    /\ f = NoFault \/ Persisted(f) # Persisted(NoFault)
    /\ cluster' = Persisted(f)
    /\ synced' = Stale(synced, {h \in Hosts : ~Same(cluster, cluster', h)})
    /\ Count(f)
    /\ UNCHANGED entries

(* A new process starts with an empty store and an empty syncer.           *)
StoreRestart == entries' = Nothing /\ synced' = Nothing /\ UNCHANGED cluster
=============================================================================
