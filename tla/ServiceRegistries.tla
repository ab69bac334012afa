-------------------------- MODULE ServiceRegistries --------------------------
(***************************************************************************)
(* The ServiceRegistry controller and the registry manager above the Nacos *)
(* and Consul registries: from the resources that users write, by way of   *)
(* the registries and the store, to the ServiceEntries of the cluster.     *)
(*                                                                         *)
(* One worker reconciles.  A request asks for every registry: first those  *)
(* known from before, then those that are new.  An error abandons the rest *)
(* and the request is repeated.                                            *)
(***************************************************************************)
EXTENDS NacosRegistry, ConsulRegistry

VARIABLES
  resources,  \* the ServiceRegistry resources: name -> resource
  previous,   \* prevServiceRegistries: name -> resource as last handled
  queued,     \* a request waits
  phase,      \* "idle", or what Reconcile goes through: "known" or "new"
  todo,       \* what is left of it
  written     \* the status about to be written

controllerVars == <<resources, previous, queued, phase, todo, written>>
vars == <<registryVars, storeVars, controllerVars>>

NoWrite == [name |-> "none"]
NoStatus == [reason |-> "none", gen |-> 0]

Init ==
  /\ StoreInit /\ RegistryInit
  /\ resources = Nothing /\ previous = Nothing
  /\ queued = FALSE /\ phase = "idle" /\ todo = {} /\ written = NoWrite

-----------------------------------------------------------------------------
(* Users.  A resource starts at generation 1; uid tells it from another    *)
(* that had its name.                                                      *)
Edit(new) ==
  /\ Event
  /\ resources' = new /\ queued' = TRUE
  /\ UNCHANGED <<previous, phase, todo, written, registryVars, entries, synced, cluster>>

Create(r, c) ==
  /\ r \notin DOMAIN resources
  /\ Edit(With(resources, r,
               [uid |-> events + 1, gen |-> 1, config |-> c, status |-> NoStatus]))

Change(r, c) ==
  /\ r \in DOMAIN resources /\ resources[r].config # c
  /\ Edit([resources EXCEPT ![r].gen = @ + 1, ![r].config = c])

Withdraw(r) ==
  /\ r \in DOMAIN resources
  /\ Edit(Without(resources, {r}))

-----------------------------------------------------------------------------
Begin ==
  /\ phase = "idle" /\ queued
  /\ queued' = FALSE /\ phase' = "known" /\ todo' = DOMAIN previous
  /\ UNCHANGED <<resources, previous, written, registryVars, storeVars>>

(* Reconcile is over with the last of the new ones.                        *)
Proceed(now, left, write) ==
  phase' = IF now = "new" /\ left = {} /\ write = NoWrite THEN "idle" ELSE now

List ==
  /\ phase = "known" /\ todo = {} /\ written = NoWrite
  /\ todo' = DOMAIN resources \ DOMAIN previous
  /\ Proceed("new", todo', NoWrite)
  /\ UNCHANGED <<resources, previous, queued, written, registryVars, storeVars>>

(* The rest is abandoned, and the request is queued again.                 *)
Abandon ==
  /\ queued' = TRUE /\ phase' = "idle" /\ todo' = {} /\ written' = NoWrite
  /\ UNCHANGED <<resources, previous>>

GetFails ==
  /\ phase # "idle" /\ written = NoWrite /\ todo # {} /\ Failure
  /\ Abandon
  /\ UNCHANGED <<registryVars, entries, synced, cluster>>

(* DeleteRegistry, which has nothing to stop if it never started.          *)
DeleteRegistry(r, f) ==
  IF Running(r) = {}
  THEN f = NoFault /\ UNCHANGED <<objects, subs, holes, entries, synced, cluster>>
  ELSE \E o \in Running(r) :
         IF IsConsul(objects[o].config) THEN f \in UpdateFaults({}) /\ ConsulStop(o, f)
         ELSE Stop(o, f)

Forget(r) ==
  /\ r \notin DOMAIN resources
  /\ previous' = Without(previous, {r}) /\ todo' = todo \ {r}
  /\ \E f \in UpdateFaults({}) \union ServiceFaults : DeleteRegistry(r, f) /\ Count(f)
  /\ Proceed(phase, todo', NoWrite)
  /\ UNCHANGED <<resources, queued, written, backend>>

(* UpdateRegistry: nothing if the generation is that of last time, whose   *)
(* outcome is not looked at again.                                         *)
Unchanged(r) == r \in DOMAIN previous /\ previous[r].gen = resources[r].gen

StartRegistry(r, c, f) ==
  /\ IF IsConsul(c) THEN f = NoFault /\ ConsulStart(r, c)
     ELSE f \in ServiceFaults /\ Start(r, c, f)
  /\ UNCHANGED <<entries, synced, cluster>>

UpdateRegistry_NeverReloads(r, f) ==
  LET c == resources[r].config
  IN IF Unchanged(r)
     THEN f = NoFault /\ UNCHANGED <<objects, subs, holes, entries, synced, cluster>>
     ELSE StartRegistry(r, c, f)

UpdateRegistry(r, f) ==
  LET c == resources[r].config
  IN IF Unchanged(r)
     THEN /\ f = NoFault
          /\ UNCHANGED <<objects, subs, entries, synced, cluster>>
          /\ Made(f, IF previous[r].uid = resources[r].uid THEN {} ELSE {"generation"})
     ELSE IF Running(r) = {}
     THEN \/ StartRegistry(r, c, f)
          \/ Failed(f) /\ Unstarted(f)
     ELSE \E o \in Running(r) :
            IF IsConsul(c)
            THEN \/ f \in UpdateFaults({}) /\ ConsulReload(o, c, f)
                 \/ Failed(f) /\ ConsulUnloaded(f)
            ELSE \/ ~Failed(f) /\ Reload(o, c, f)
                 \/ Failed(f) /\ Unloaded(o, c, f)

(* What SetAccepted says; the status is written only if that changes it.   *)
Keep(r) ==
  /\ r \in DOMAIN resources
  /\ \E f \in UpdateFaults({}) \union ServiceFaults \union ClientFaults :
       LET status == [reason |-> IF Failed(f) THEN "Invalid" ELSE "Accepted",
                      gen |-> resources[r].gen]
       IN /\ UpdateRegistry(r, f) /\ Count(f)
          /\ written' = IF status = resources[r].status THEN NoWrite
                        ELSE [name |-> r, uid |-> resources[r].uid, status |-> status]
  /\ previous' = With(previous, r, [uid |-> resources[r].uid, gen |-> resources[r].gen])
  /\ todo' = todo \ {r}
  /\ Proceed(phase, todo', written')
  /\ UNCHANGED <<resources, queued, backend>>

Handle ==
  /\ phase # "idle" /\ written = NoWrite
  /\ \E r \in todo : Forget(r) \/ Keep(r)

(* UpdateStatus is refused for a resource that has changed or gone.        *)
Conflict ==
  LET r == written.name
  IN r \in DOMAIN resources =>
       <<resources[r].uid, resources[r].gen>> # <<written.uid, written.status.gen>>

WriteStatus ==
  /\ written # NoWrite /\ ~Conflict
  /\ resources' = [resources EXCEPT ![written.name].status = written.status]
  /\ written' = NoWrite
  /\ Proceed(phase, todo, NoWrite)
  /\ UNCHANGED <<previous, queued, todo, registryVars, storeVars>>

WriteFails ==
  /\ written # NoWrite
  /\ IF Conflict THEN UNCHANGED counters ELSE Failure
  /\ Abandon
  /\ UNCHANGED <<registryVars, entries, synced, cluster>>

Reconcile == Begin \/ List \/ GetFails \/ Handle \/ WriteStatus \/ WriteFails

(* The controller's process starts anew; what it finds in the cluster asks *)
(* it to reconcile.                                                        *)
Restart ==
  /\ Event
  /\ StoreRestart /\ RegistryRestart
  /\ previous' = Nothing /\ queued' = (DOMAIN resources # {})
  /\ phase' = "idle" /\ todo' = {} /\ written' = NoWrite
  /\ UNCHANGED <<resources>>

RefreshOf(r) ==
  \E o \in DOMAIN objects :
    /\ objects[o].name = r
    /\ IF IsConsul(objects[o].config) THEN ConsulRefresh(o) ELSE Refresh(o)

Refreshes == \E r \in Registries : RefreshOf(r) /\ UNCHANGED controllerVars

(* The worker goes on, each client reports what it has subscribed, and the *)
(* ticker of the sync ticks, in some order: a single weak fairness is      *)
(* enough, since none of them can go on for ever without the others.       *)
Internal ==
  \/ Reconcile
  \/ \E s \in Services : Callback(s) /\ UNCHANGED controllerVars
  \/ Sync /\ UNCHANGED <<registryVars, controllerVars>>

Next ==
  \/ \E r \in Registries, c \in Configs : Create(r, c) \/ Change(r, c)
  \/ \E r \in Registries : Withdraw(r)
  \/ Internal
  \/ Refreshes
  \/ \E o \in DOMAIN objects : StopRefreshing(o) /\ UNCHANGED controllerVars
  \/ \E sub \in subs : ReportEmpty(sub) /\ UNCHANGED controllerVars
  \/ \E c \in Configs, s \in Services :
       /\ ServerChange(c, s)
       /\ UNCHANGED <<objects, subs, holes, entries, synced, cluster, controllerVars>>
  \/ Restart

Spec == Init /\ [][Next]_vars
FairSpec == Spec /\ WF_vars(Internal) /\ WF_vars(Refreshes)

-----------------------------------------------------------------------------
(* Type correctness of the store, the registries and the controller.       *)
TypeOK ==
  /\ DOMAIN entries \subseteq Hosts /\ DOMAIN cluster \subseteq Hosts
  /\ \A h \in DOMAIN synced : h \in synced[h].peers /\ synced[h].peers \subseteq DOMAIN synced
  /\ \A sub \in subs : sub.object \in DOMAIN objects /\ (sub.active \/ sub.updating # NoList)
  /\ \A r \in Registries : Cardinality(Running(r)) <= 1
  /\ DOMAIN resources \subseteq Registries /\ DOMAIN previous \subseteq Registries
  /\ phase \in {"idle", "known", "new"} /\ todo \subseteq Registries
  /\ phase = "idle" => todo = {} /\ written = NoWrite

(* The hosts an entry may be published under and every entry a server has  *)
(* offered for each of them.  Consul registries publish one without hosts. *)
Entries == [host : Hosts, from : UNION Worlds, hosts : 0..MaxEvents + 1]
Least(c) == IF IsConsul(c) THEN 0 ELSE 1
Sources ==
  [world \in Worlds |->
    [h \in Hosts |-> {p \in world \X Keys : \E r \in Registries : Host(r, p[1], p[2]) = h}]]
Offered ==
  [h \in Hosts |->
     UNION {{SpecOf(h, p[1], n) : n \in Least(p[1])..backend[p[1]][Name(p[2])].latest} :
              p \in Sources[Configs][h]}]

Directory == INSTANCE ServiceDirectory WITH
  Hosts <- Hosts, Entry <- Entries, offered <- Offered,
  published <- entries, served <- cluster, trusted <- "get" \notin holes

(* The store and the cluster are a service directory: whatever the order   *)
(* of callbacks, reconciliations, failed writes and restarts, only what a  *)
(* server has offered under a host is published under it, a change of the  *)
(* cluster always is one to what the store holds by then, and the sync     *)
(* makes the cluster catch up.                                             *)
ImplementsDirectory == Directory!Spec

(* Each service that a running registry watches has an active subscription *)
(* of its present client: what refresh has subscribed outside the lock and *)
(* what Reload subscribes anew are never taken back by the wrong one.      *)
(* Excepted: a failure, a tag that refresh meets, a Reload or Stop between *)
(* the halves of a Consul registry's refresh.                              *)
WatchedIsSubscribed ==
  holes \intersect {"subscribe", "fetch", "tag", "overlap"} = {} =>
    \A r \in Registries : \A o \in Running(r) : \A s \in objects[o].watching :
      \E sub \in Of(o, objects[o].client, {s}) : sub.active

(* Each entry of the store is one that Stop of a running registry deletes, *)
(* or will once the refresh under way is through: nothing is left behind   *)
(* when the resource goes.                                                 *)
EntriesAreOwned ==
  holes \intersect {"stale", "namespace", "fetch", "tag", "overlap"} = {} =>
    \A h \in DOMAIN entries : \E r \in Registries : \E o \in Running(r) :
      h \in HostsOf(o, objects[o].config, Kept(o))

(* An entry is deleted only when the configuration changes (or goes), or   *)
(* when a Nacos subscription reports an empty list of hosts: what the      *)
(* client promises, so that a list of services that misses one does no     *)
(* harm.                                                                   *)
DeletedForCause ==
  [][\A h \in DOMAIN entries \ DOMAIN entries' :
       \/ objects' = <<>>
       \/ \E o \in DOMAIN objects : objects'[o].client # objects[o].client
       \/ \E o \in DOMAIN objects : objects'[o].stopped # objects[o].stopped
       \/ \E sub \in subs : /\ HostOf(sub) = h
                            /\ HostsNow(sub) = 0]_vars

Settled(r) ==
  IF r \notin DOMAIN resources
  THEN /\ Running(r) = {}
       /\ \A c \in Configs, k \in Keys : Host(r, c, k) \notin DOMAIN entries
  ELSE LET c == resources[r].config
       IN /\ \E o \in Running(r) : objects[o].config = c
          /\ resources[r].status = [reason |-> "Accepted", gen |-> resources[r].gen]
          /\ \A s \in Services : backend[c][s].hosts > 0 =>
               LET h == Host(r, c, KeyOf(c, s))
               IN /\ h \in DOMAIN entries
                  /\ entries[h] = SpecOf(h, c, backend[c][s].hosts)

(* Users, servers and failures being at rest, every resource is Accepted,  *)
(* its registry runs with its configuration, what its server has is in the *)
(* store and in the cluster, and what belonged to a resource that is gone  *)
(* is in neither; unless one of the things that the code does not make     *)
(* good has happened since the controller started.                         *)
Converges ==
  <>[](holes = {} => /\ phase = "idle" /\ ~queued
                     /\ \A r \in Registries : Settled(r)
                     /\ cluster = entries)
=============================================================================
