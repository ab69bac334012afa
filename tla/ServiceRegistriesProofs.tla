---------------------- MODULE ServiceRegistriesProofs ----------------------
(***************************************************************************)
(* Proofs about ServiceRegistries: for any servers, services, failures and *)
(* restarts, what a running registry watches is subscribed, what is in the *)
(* store belongs to a running registry and is deleted for a cause, and the *)
(* steps of the whole are steps of a service directory.                    *)
(*                                                                         *)
(* Nothing here is inductive alone.  That a registry watches only what it  *)
(* has subscribed needs to be said of what a Consul registry has fetched   *)
(* and not yet taken over, and of the names of both; that the entries are  *)
(* owned needs the configuration of every subscription to be that of its   *)
(* client; and that the cluster changes only to what is published needs    *)
(* the syncer to hold, for each entry, an object of its own.               *)
(***************************************************************************)
EXTENDS ServiceRegistries, ServiceEntryStoreProofs

-----------------------------------------------------------------------------
(* The servers.                                                            *)
Service == [listed : BOOLEAN, hosts : Nat, latest : Nat, tag : {k[1] : k \in Keys}]
ServersInv ==
  /\ Configs \in Worlds
  /\ backend \in [Configs -> [Services -> Service]]
  /\ \A c \in Configs, s \in Services :
       KeyOf(c, s) \in Keys /\ backend[c][s].hosts <= backend[c][s].latest

(* The objects of the registries, all of one kind.                         *)
NacosObjects ==
  [name : Registries, config : Configs, client : Nat, watching : SUBSET Keys,
   soft : SUBSET Keys, next : {{}}, stopped : BOOLEAN, refreshing : {"waits", "no"}]
ConsulObjects ==
  [name : Registries, config : Configs, client : Nat, watching : SUBSET Keys,
   soft : SUBSET Keys, next : SUBSET Keys, stopped : BOOLEAN,
   refreshing : {"waits", "subscribed", "no"}, query : Configs, asked : Configs]
Objects == IF Configs \subseteq ConsulConfigs THEN ConsulObjects ELSE NacosObjects
Distinct(keys) == \A k, l \in keys : Name(k) = Name(l) => k = l
ObjectOK(reg) ==
  /\ Distinct(reg.watching) /\ Distinct(reg.next)
  /\ reg.refreshing # "subscribed" => reg.next = {}
ObjectsInv ==
  /\ objects \in Seq(Objects)
  /\ \A o \in DOMAIN objects : ObjectOK(objects[o])
OneRuns ==
  \A o, p \in DOMAIN objects :
    objects[o].name = objects[p].name /\ ~objects[o].stopped /\ ~objects[p].stopped => o = p

(* The subscriptions: those of the present client have its configuration,  *)
(* and a callback is about to store what the server has had.               *)
Subs ==
  [object : Nat, client : Nat, config : Configs, service : Keys, held : BOOLEAN,
   seen : Nat, updating : Nat, active : BOOLEAN]
HasHad(sub) ==
  sub.updating \in Least(sub.config) .. backend[sub.config][Name(sub.service)].latest
SubOK(sub) ==
  /\ sub.object \in DOMAIN objects
  /\ sub.client <= objects[sub.object].client
  /\ sub.client = objects[sub.object].client => sub.config = objects[sub.object].config
  /\ sub.updating = NoList => sub.active
  /\ sub.updating # NoList => HasHad(sub)
SubsInv == subs \subseteq Subs /\ \A sub \in subs : SubOK(sub)

-----------------------------------------------------------------------------
(* What is watched, or is about to be, is subscribed; and the second half  *)
(* of a refresh does not stop, by name, what the first has found.          *)
Subscribed(o, k) ==
  \E sub \in subs : /\ sub.object = o /\ sub.client = objects[o].client
                    /\ sub.service = k /\ sub.active
WatchedOf(o) ==
  ~objects[o].stopped =>
    /\ \A k \in objects[o].watching \union objects[o].next : Subscribed(o, k)
    /\ objects[o].refreshing = "subscribed" =>
         Names(objects[o].watching \ objects[o].next) \intersect Names(objects[o].next) = {}
Watchable == holes \intersect {"subscribe", "fetch", "tag", "overlap"} = {}
WatchedInv == Watchable => \A o \in DOMAIN objects : WatchedOf(o)

(* The entries of the store have an owner.                                 *)
Owns(o, h) == ~objects[o].stopped /\ h \in HostsOf(o, objects[o].config, Kept(o))
Ownable == holes \intersect {"stale", "namespace", "fetch", "tag", "overlap"} = {}
OwnedInv == Ownable => \A h \in DOMAIN entries : \E o \in DOMAIN objects : Owns(o, h)

(* The controller.                                                         *)
Resource ==
  [uid : Nat, gen : Nat, config : Configs,
   status : [reason : {"none", "Invalid", "Accepted"}, gen : Nat]]
Write == [name : Registries, uid : Nat, status : [reason : {"Invalid", "Accepted"}, gen : Nat]]
ControllerInv ==
  /\ events \in Nat
  /\ DOMAIN resources \subseteq Registries /\ resources \in [DOMAIN resources -> Resource]
  /\ DOMAIN previous \subseteq Registries
  /\ phase \in {"idle", "known", "new"} /\ todo \subseteq Registries
  /\ phase = "idle" => todo = {} /\ written = NoWrite
  /\ written = NoWrite \/ written \in Write

RegistriesInv ==
  /\ ServersInv /\ ObjectsInv /\ OneRuns /\ SubsInv
  /\ WatchedInv /\ OwnedInv /\ StoreInv
IInv == RegistriesInv /\ ControllerInv

-----------------------------------------------------------------------------
(* The servers and the keys.                                               *)
LEMMA ListedKeys ==
  ASSUME ServersInv, NEW c \in Configs
  PROVE  Listed(c) \subseteq Keys /\ Distinct(Listed(c))
BY DEF ServersInv, Listed, Distinct, Name, KeyOf

LEMMA FetchedKeys ==
  ASSUME ServersInv, NEW c \in Configs, NEW f
  PROVE  Fetched(c, f) \subseteq Keys /\ Distinct(Fetched(c, f))
BY ListedKeys DEF Fetched, Distinct

LEMMA Kinds ==
  ASSUME ServersInv, NEW c \in Configs
  PROVE  /\ c \in UNION Worlds
         /\ IsConsul(c) <=> Configs \subseteq ConsulConfigs
BY WorldsAssumption DEF ServersInv, IsConsul

LEMMA NacosObjectsOnly ==
  ASSUME ServersInv, ObjectsInv, NEW c \in Configs, ~IsConsul(c)
  PROVE  Objects = NacosObjects
BY Kinds DEF Objects

LEMMA ConsulObjectsOnly ==
  ASSUME ServersInv, ObjectsInv, NEW c \in Configs, IsConsul(c)
  PROVE  Objects = ConsulObjects
BY Kinds DEF Objects

LEMMA ObjectFields ==
  ASSUME ServersInv, ObjectsInv, NEW o \in DOMAIN objects
  PROVE  /\ objects[o] \in Objects
         /\ objects[o].name \in Registries /\ objects[o].config \in Configs
         /\ objects[o].client \in Nat /\ objects[o].watching \subseteq Keys
         /\ objects[o].soft \subseteq Keys /\ objects[o].next \subseteq Keys
         /\ objects[o].stopped \in BOOLEAN /\ o \in Nat
<1>1. objects[o] \in Objects /\ o \in Nat
  BY DEF ObjectsInv
<1>2. CASE Objects = NacosObjects
  BY <1>1, <1>2 DEF NacosObjects
<1>3. CASE Objects = ConsulObjects
  BY <1>1, <1>3 DEF ConsulObjects
<1> QED BY <1>1, <1>2, <1>3 DEF Objects

(* One object changes.                                                     *)
Changes(o, new) ==
  /\ DOMAIN objects' = DOMAIN objects /\ objects'[o] = new
  /\ \A p \in DOMAIN objects \ {o} : objects'[p] = objects[p]
LEMMA ObjectChanges ==
  ASSUME ObjectsInv, UNCHANGED backend, NEW o \in DOMAIN objects,
         NEW new \in Objects, ObjectOK(new), objects' = [objects EXCEPT ![o] = new]
  PROVE  ObjectsInv' /\ Changes(o, new)
<1>1. Objects' = Objects
  BY DEF Objects, NacosObjects, ConsulObjects, Configs
<1>2. objects' \in Seq(Objects) /\ Changes(o, new)
  BY DEF ObjectsInv, Changes
<1>3. ObjectsInv'
  BY <1>1, <1>2 DEF ObjectsInv, Changes, ObjectOK, Distinct
<1> QED BY <1>2, <1>3

(* One object more.                                                        *)
Adds(new) ==
  /\ DOMAIN objects' = DOMAIN objects \union {Len(objects) + 1}
  /\ Len(objects) + 1 \notin DOMAIN objects /\ objects'[Len(objects) + 1] = new
  /\ \A p \in DOMAIN objects : objects'[p] = objects[p]
LEMMA ObjectAdded ==
  ASSUME ObjectsInv, UNCHANGED backend,
         NEW new \in Objects, ObjectOK(new), objects' = Append(objects, new)
  PROVE  ObjectsInv' /\ Adds(new)
<1>1. Objects' = Objects
  BY DEF Objects, NacosObjects, ConsulObjects, Configs
<1>2. objects' \in Seq(Objects) /\ Adds(new)
  BY DEF ObjectsInv, Adds
<1>3. ObjectsInv'
  BY <1>1, <1>2 DEF ObjectsInv, Adds, ObjectOK, Distinct
<1> QED BY <1>2, <1>3

-----------------------------------------------------------------------------
(* Subscriptions after a step: old ones, some of them taken back, and new  *)
(* ones.                                                                   *)
Akin(a, b) ==
  a.object = b.object /\ a.client = b.client /\ a.config = b.config /\ a.service = b.service
ComesFrom(a, b) ==
  /\ Akin(a, b)
  /\ \/ a.updating = b.updating /\ (a.active # b.active => a.updating # NoList)
     \/ a.updating = NoList /\ a.active
Old(a) == \E b \in subs : ComesFrom(a, b)
New(a) ==
  /\ a.object \in DOMAIN objects' /\ a.client = objects'[a.object].client
  /\ a.config = objects'[a.object].config /\ a.active /\ a.updating = NoList
ObjectsFollow ==
  \A p \in DOMAIN objects :
    /\ p \in DOMAIN objects'
    /\ \/ objects'[p].client = objects[p].client /\ objects'[p].config = objects[p].config
       \/ objects'[p].client = objects[p].client + 1
Retained(p) ==
  \A sub \in subs : sub.object = p /\ sub.active =>
    \E a \in subs' : Akin(a, sub) /\ a.active

LEMMA SubsStep ==
  ASSUME ServersInv, ObjectsInv, SubsInv, UNCHANGED backend, ObjectsFollow,
         subs' \subseteq Subs, \A a \in subs' : Old(a) \/ New(a)
  PROVE  SubsInv'
<1>1. Subs' = Subs
  BY DEF Subs, Configs
<1>2. ASSUME NEW a \in subs', New(a) PROVE SubOK(a)'
  <2>1. a.client \in Nat
    BY DEF Subs
  <2> QED BY <1>2, <2>1 DEF New, SubOK
<1>3. ASSUME NEW a \in subs', Old(a) PROVE SubOK(a)'
  <2>1. PICK b \in subs : ComesFrom(a, b)
    BY <1>3 DEF Old
  <2>2. SubOK(b) /\ b \in Subs
    BY DEF SubsInv
  <2>3. b.client \in Nat /\ b.object \in DOMAIN objects /\ a.active \in BOOLEAN
    BY <2>2 DEF Subs, SubOK
  <2>4. objects[b.object].client \in Nat
    BY <2>3, ObjectFields
  <2>5. a.updating = b.updating => (HasHad(b) => HasHad(a)')
    BY <2>1 DEF ComesFrom, Akin, HasHad, Least, IsConsul
  <2>6. /\ b.object \in DOMAIN objects'
        /\ \/ /\ objects'[b.object].client = objects[b.object].client
              /\ objects'[b.object].config = objects[b.object].config
           \/ objects'[b.object].client = objects[b.object].client + 1
    BY <2>3 DEF ObjectsFollow
  <2>7. /\ b.client <= objects'[b.object].client
        /\ b.client = objects'[b.object].client => b.config = objects'[b.object].config
    BY <2>2, <2>3, <2>4, <2>6 DEF SubOK
  <2>8. /\ a.updating = NoList => a.active
        /\ a.updating # NoList => HasHad(a)'
    <3>1. CASE a.updating = b.updating /\ (a.active # b.active => a.updating # NoList)
      BY <2>2, <2>5, <3>1 DEF SubOK
    <3>2. CASE a.updating = NoList /\ a.active
      BY <3>2
    <3> QED BY <2>1, <3>1, <3>2 DEF ComesFrom
  <2> QED BY <2>1, <2>6, <2>7, <2>8 DEF ComesFrom, Akin, SubOK, NoList
<1> QED BY <1>1, <1>2, <1>3 DEF SubsInv

LEMMA TakenBackSubs ==
  ASSUME SubsInv, NEW all, all \subseteq Subs, NEW some, some \subseteq all
  PROVE  /\ TakenBack(all, some) \subseteq Subs
         /\ \A a \in TakenBack(all, some) :
              \E b \in all : /\ Akin(a, b) /\ a.updating = b.updating
                             /\ a = b \/ a.updating # NoList
         /\ all \ some \subseteq TakenBack(all, some)
<1>1. ASSUME NEW a \in TakenBack(all, some), a \notin all \ some
      PROVE  /\ a \in Subs
             /\ \E b \in all : /\ Akin(a, b) /\ a.updating = b.updating
                               /\ a = b \/ a.updating # NoList
  <2>1. PICK b \in some : b.updating # NoList /\ a = [b EXCEPT !.active = FALSE]
    BY <1>1 DEF TakenBack
  <2>2. b \in Subs /\ b \in all
    OBVIOUS
  <2>3. a \in Subs /\ Akin(a, b) /\ a.updating = b.updating
    BY <2>1, <2>2 DEF Subs, Akin
  <2> QED BY <2>1, <2>2, <2>3
<1>2. all \ some \subseteq TakenBack(all, some)
  BY DEF TakenBack
<1> QED BY <1>1, <1>2 DEF Akin

LEMMA SubscriptionsNew ==
  ASSUME NEW o \in Nat, NEW n \in Nat, NEW c \in Configs, NEW keys, keys \subseteq Keys
  PROVE  /\ Subscriptions(o, n, c, keys) \subseteq Subs
         /\ \A a \in Subscriptions(o, n, c, keys) :
              a.object = o /\ a.client = n /\ a.config = c /\ a.active /\ a.updating = NoList
         /\ \A k \in keys : \E a \in Subscriptions(o, n, c, keys) :
              a.object = o /\ a.client = n /\ a.service = k /\ a.active
<1>1. NoList \in Nat
  BY BoundAssumption DEF NoList
<1>2. ASSUME NEW k \in keys, NEW a,
             a = [object |-> o, client |-> n, config |-> c, service |-> k, held |-> TRUE,
                  seen |-> NoList, updating |-> NoList, active |-> TRUE]
      PROVE  /\ a \in Subs /\ a.object = o /\ a.client = n /\ a.config = c /\ a.service = k
             /\ a.active /\ a.updating = NoList
  BY <1>1, <1>2 DEF Subs
<1>3. \A a \in Subscriptions(o, n, c, keys) : \E k \in keys :
         a = [object |-> o, client |-> n, config |-> c, service |-> k, held |-> TRUE,
              seen |-> NoList, updating |-> NoList, active |-> TRUE]
  BY DEF Subscriptions
<1>4. \A k \in keys : \E a \in Subscriptions(o, n, c, keys) :
         a = [object |-> o, client |-> n, config |-> c, service |-> k, held |-> TRUE,
              seen |-> NoList, updating |-> NoList, active |-> TRUE]
  BY DEF Subscriptions
<1> QED BY <1>2, <1>3, <1>4

(* What is watched by the others, and owned by them, stays so.             *)
LEMMA WatchedStep ==
  ASSUME WatchedInv, holes \subseteq holes', NEW o,
         \A p \in DOMAIN objects' \ {o} :
           p \in DOMAIN objects /\ objects'[p] = objects[p] /\ Retained(p),
         Watchable' /\ o \in DOMAIN objects' => WatchedOf(o)'
  PROVE  WatchedInv'
<1>1. Watchable' => Watchable
  BY DEF Watchable
<1>2. ASSUME NEW p \in DOMAIN objects' \ {o}, NEW k, Subscribed(p, k)
      PROVE  Subscribed(p, k)'
  <2>1. PICK sub \in subs : /\ sub.object = p /\ sub.client = objects[p].client
                            /\ sub.service = k /\ sub.active
    BY <1>2 DEF Subscribed
  <2>2. PICK a \in subs' : Akin(a, sub) /\ a.active
    BY <2>1 DEF Retained
  <2> QED BY <2>1, <2>2 DEF Akin, Subscribed
<1>3. ASSUME NEW p \in DOMAIN objects' \ {o}, WatchedOf(p) PROVE WatchedOf(p)'
  BY <1>2, <1>3 DEF WatchedOf, Names
<1> QED BY <1>1, <1>3 DEF WatchedInv

LEMMA OwnedStep ==
  ASSUME OwnedInv, holes \subseteq holes', NEW o,
         \A p \in DOMAIN objects \ {o} : p \in DOMAIN objects' /\ objects'[p] = objects[p],
         Ownable' => \A h \in DOMAIN entries' :
           /\ h \notin DOMAIN entries => \E p \in DOMAIN objects' : Owns(p, h)'
           /\ o \in DOMAIN objects /\ Owns(o, h) => o \in DOMAIN objects' /\ Owns(o, h)'
  PROVE  OwnedInv'
<1>1. Ownable' => Ownable
  BY DEF Ownable
<1>2. ASSUME NEW p \in DOMAIN objects \ {o}, NEW h, Owns(p, h) PROVE Owns(p, h)'
  BY <1>2 DEF Owns, HostsOf, Kept
<1> QED BY <1>1, <1>2 DEF OwnedInv

-----------------------------------------------------------------------------
(* What has to be shown of a step that changes one object, and of one that *)
(* changes none.                                                           *)
LEMMA ServersStep ==
  ASSUME ServersInv, UNCHANGED backend
  PROVE  ServersInv'
BY DEF ServersInv, Configs, Service, KeyOf

LEMMA ChangeStep ==
  ASSUME RegistriesInv, UNCHANGED backend, StoreInv', holes \subseteq holes',
         NEW o \in DOMAIN objects, NEW new \in Objects, ObjectOK(new),
         objects' = [objects EXCEPT ![o] = new],
         new.name = objects[o].name, objects[o].stopped => new.stopped,
         \/ new.client = objects[o].client /\ new.config = objects[o].config
         \/ new.client = objects[o].client + 1,
         subs' \subseteq Subs, \A a \in subs' : Old(a) \/ New(a),
         \A p \in DOMAIN objects \ {o} : Retained(p),
         Watchable' => WatchedOf(o)',
         Ownable' => \A h \in DOMAIN entries' :
           /\ h \notin DOMAIN entries => \E p \in DOMAIN objects' : Owns(p, h)'
           /\ Owns(o, h) => Owns(o, h)'
  PROVE  RegistriesInv'
<1>1. ServersInv'
  BY ServersStep DEF RegistriesInv
<1>2. ObjectsInv' /\ Changes(o, new)
  BY ObjectChanges DEF RegistriesInv
<1>3. OneRuns'
  BY <1>2 DEF RegistriesInv, OneRuns, Changes
<1>4. ObjectsFollow
  BY <1>2 DEF ObjectsFollow, Changes
<1>5. SubsInv'
  BY <1>4, SubsStep DEF RegistriesInv
<1>6. WatchedInv'
  BY <1>2, WatchedStep DEF RegistriesInv, Changes
<1>7. OwnedInv'
  BY <1>2, OwnedStep DEF RegistriesInv, Changes
<1> QED BY <1>1, <1>2, <1>3, <1>5, <1>6, <1>7 DEF RegistriesInv

LEMMA NoChangeStep ==
  ASSUME RegistriesInv, UNCHANGED <<backend, objects>>, StoreInv', holes \subseteq holes',
         subs' \subseteq Subs, \A a \in subs' : Old(a) \/ New(a),
         \A p \in DOMAIN objects : Retained(p),
         Ownable' => \A h \in DOMAIN entries' \ DOMAIN entries :
           \E p \in DOMAIN objects' : Owns(p, h)'
  PROVE  RegistriesInv'
<1>1. ServersInv'
  BY ServersStep DEF RegistriesInv
<1>2. ObjectsInv' /\ OneRuns' /\ ObjectsFollow
  BY DEF RegistriesInv, ObjectsInv, OneRuns, ObjectsFollow, Objects, NacosObjects,
         ConsulObjects, Configs, ObjectOK, Distinct
<1>3. SubsInv'
  BY <1>2, SubsStep DEF RegistriesInv
<1>4. 0 \notin DOMAIN objects
  BY DEF RegistriesInv, ObjectsInv
<1>5. WatchedInv'
  BY <1>4, WatchedStep DEF RegistriesInv
<1>6. OwnedInv'
  BY <1>4, OwnedStep DEF RegistriesInv
<1> QED BY <1>1, <1>2, <1>3, <1>5, <1>6 DEF RegistriesInv

LEMMA AddStep ==
  ASSUME RegistriesInv, UNCHANGED backend, StoreInv', holes \subseteq holes',
         NEW new \in Objects, ObjectOK(new), objects' = Append(objects, new),
         Running(new.name) = {},
         subs' \subseteq Subs, \A a \in subs' : Old(a) \/ New(a), subs \subseteq subs',
         NEW o, o = Len(objects) + 1, Watchable' => WatchedOf(o)',
         DOMAIN entries' = DOMAIN entries
  PROVE  RegistriesInv'
<1>1. ServersInv'
  BY ServersStep DEF RegistriesInv
<1>2. ObjectsInv' /\ Adds(new)
  BY ObjectAdded DEF RegistriesInv
<1>3. OneRuns'
  BY <1>2 DEF RegistriesInv, OneRuns, Adds, Running
<1>4. ObjectsFollow
  BY <1>2 DEF ObjectsFollow, Adds
<1>5. SubsInv'
  BY <1>4, SubsStep DEF RegistriesInv
<1>6. \A p \in DOMAIN objects : Retained(p)
  BY DEF Retained, Akin
<1>7. WatchedInv'
  BY <1>2, <1>6, WatchedStep DEF RegistriesInv, Adds
<1>8. OwnedInv'
  BY <1>2, OwnedStep DEF RegistriesInv, Adds
<1> QED BY <1>1, <1>2, <1>3, <1>5, <1>7, <1>8 DEF RegistriesInv

LEMMA OwnsMore ==
  ASSUME NEW o, NEW h, Owns(o, h), objects'[o].name = objects[o].name,
         objects'[o].config = objects[o].config, objects'[o].stopped = objects[o].stopped,
         Kept(o) \subseteq Kept(o)'
  PROVE  Owns(o, h)'
BY DEF Owns, HostsOf

-----------------------------------------------------------------------------
(* The steps of a Nacos registry.                                          *)
LEMMA MadeHoles ==
  ASSUME NEW f, NEW extra, Made(f, extra)
  PROVE  /\ holes \subseteq holes' /\ extra \subseteq holes'
         /\ f[1] \in {"get", "client", "fetch", "subscribe"} => f[1] \in holes'
BY DEF Made

LEMMA RefreshStep ==
  ASSUME RegistriesInv, NEW o \in DOMAIN objects, ~IsConsul(objects[o].config), Refresh(o)
  PROVE  RegistriesInv'
<1>1. PICK reg : reg = objects[o]
  OBVIOUS
<1>2. PICK f \in ServiceFaults :
        LET fetched == Fetched(reg.config, f)
            new == fetched \ reg.watching
            gone == reg.watching \ fetched
        IN /\ objects' = [objects EXCEPT ![o].watching = fetched, ![o].soft = @ \union gone]
           /\ subs' = Resubscribed(o, Unsubscribe(o, reg.client, gone, f), Served(new, f))
           /\ Made(f, {})
  BY <1>1 DEF Refresh
<1>3. PICK fetched : fetched = Fetched(reg.config, f)
  OBVIOUS
<1> DEFINE fresh == Served(fetched \ reg.watching, f)
           gone == reg.watching \ fetched
           lost == {sub \in Of(o, reg.client, gone) : f # <<"unsubscribe", sub.service>>}
           again == {sub \in Of(o, reg.client, fresh) : sub.active}
           all == TakenBack(subs, lost)
<1>4. /\ reg \in NacosObjects /\ reg.config \in Configs /\ o \in Nat /\ ObjectOK(reg)
      /\ ServersInv /\ SubsInv /\ StoreInv /\ reg.next = {}
  BY <1>1, ObjectFields, NacosObjectsOnly DEF RegistriesInv, ObjectsInv, NacosObjects
<1>5. fetched \subseteq Keys /\ Distinct(fetched)
  BY <1>3, <1>4, FetchedKeys
<1>6. PICK new : new = [reg EXCEPT !.watching = fetched, !.soft = @ \union gone]
  OBVIOUS
<1>7. /\ new \in NacosObjects /\ new.watching = fetched /\ new.soft = reg.soft \union gone
      /\ new.next = {} /\ new.name = reg.name /\ new.config = reg.config
      /\ new.client = reg.client /\ new.stopped = reg.stopped
      /\ new.refreshing = reg.refreshing
  BY <1>4, <1>5, <1>6 DEF NacosObjects
<1>8. objects' = [objects EXCEPT ![o] = new]
  BY <1>1, <1>2, <1>3, <1>6
<1>9. new \in Objects /\ ObjectOK(new)
  BY <1>1, <1>4, <1>5, <1>7, NacosObjectsOnly DEF RegistriesInv, ObjectOK, Distinct
<1>10. UNCHANGED <<backend, entries, synced, cluster>>
  BY DEF Refresh
<1>11. Changes(o, new)
  BY <1>8, <1>9, <1>10, ObjectChanges DEF RegistriesInv
<1>12. subs' = TakenBack(all, again) \union Subscriptions(o, reg.client, reg.config, fresh)
  BY <1>1, <1>2, <1>3 DEF Resubscribed, Unsubscribe
<1>13. /\ lost \subseteq subs /\ again \subseteq subs \ lost /\ fresh \subseteq Keys
       /\ \A sub \in lost \union again :
            sub.object = o /\ sub.client = reg.client /\ sub.service \in gone \union fresh
  BY <1>5 DEF Of, Served
<1> HIDE DEF lost, again, fresh
<1>14. /\ all \subseteq Subs /\ subs \ lost \subseteq all
       /\ \A a \in all : \E b \in subs :
            Akin(a, b) /\ a.updating = b.updating /\ (a = b \/ a.updating # NoList)
  BY <1>4, <1>13, TakenBackSubs DEF SubsInv
<1> HIDE DEF all
<1>15. /\ TakenBack(all, again) \subseteq Subs /\ all \ again \subseteq TakenBack(all, again)
       /\ \A a \in TakenBack(all, again) : \E b \in all :
            Akin(a, b) /\ a.updating = b.updating /\ (a = b \/ a.updating # NoList)
  BY <1>4, <1>13, <1>14, TakenBackSubs
<1>16. /\ Subscriptions(o, reg.client, reg.config, fresh) \subseteq Subs
       /\ \A a \in Subscriptions(o, reg.client, reg.config, fresh) :
            /\ a.object = o /\ a.client = reg.client /\ a.config = reg.config
            /\ a.active /\ a.updating = NoList
       /\ \A k \in fresh : \E a \in Subscriptions(o, reg.client, reg.config, fresh) :
            a.object = o /\ a.client = reg.client /\ a.service = k /\ a.active
  <2>1. reg.client \in Nat
    BY <1>4 DEF NacosObjects
  <2> QED BY <1>4, <1>13, <2>1, SubscriptionsNew
<1>17. subs' \subseteq Subs
  BY <1>12, <1>15, <1>16
<1>18. \A a \in subs' : Old(a) \/ New(a)
  <2>1. ASSUME NEW a \in TakenBack(all, again) PROVE Old(a)
    <3>1. PICK b \in all : Akin(a, b) /\ a.updating = b.updating /\ (a = b \/ a.updating # NoList)
      BY <1>15
    <3>2. PICK c \in subs : Akin(b, c) /\ b.updating = c.updating /\ (b = c \/ b.updating # NoList)
      BY <1>14
    <3> QED BY <3>1, <3>2 DEF Old, ComesFrom, Akin
  <2>2. ASSUME NEW a \in Subscriptions(o, reg.client, reg.config, fresh) PROVE New(a)
    BY <1>7, <1>11, <1>16 DEF New, Changes
  <2> QED BY <1>12, <2>1, <2>2
<1>19. subs \ (lost \union again) \subseteq subs'
  BY <1>12, <1>14, <1>15
<1>20. \A p \in DOMAIN objects \ {o} : Retained(p)
  BY <1>13, <1>19 DEF Retained, Akin
<1>21. holes \subseteq holes' /\ (f[1] = "subscribe" => "subscribe" \in holes')
  BY <1>2, MadeHoles
<1>22. Watchable' => WatchedOf(o)'
  <2> SUFFICES ASSUME Watchable', ~reg.stopped PROVE \A k \in fetched : Subscribed(o, k)'
    BY <1>4, <1>7, <1>11 DEF WatchedOf, Changes, NacosObjects
  <2> TAKE k \in fetched
  <2>1. CASE k \in reg.watching
    <3>1. Subscribed(o, k)
      BY <1>1, <1>21, <2>1 DEF RegistriesInv, WatchedInv, WatchedOf, Watchable
    <3>2. PICK sub \in subs : /\ sub.object = o /\ sub.client = reg.client
                              /\ sub.service = k /\ sub.active
      BY <1>1, <3>1 DEF Subscribed
    <3>3. sub \in subs'
      BY <1>13, <1>19, <2>1, <3>2 DEF fresh, Served
    <3> QED BY <1>7, <1>11, <3>2, <3>3 DEF Subscribed, Changes
  <2>2. CASE k \notin reg.watching
    <3>1. f # <<"subscribe", k>>
      BY <1>21 DEF Watchable
    <3>2. k \in fresh
      BY <2>2, <3>1 DEF fresh, Served
    <3> QED BY <1>7, <1>11, <1>12, <1>16, <3>2 DEF Subscribed, Changes
  <2> QED BY <2>1, <2>2
<1>23. ASSUME NEW h, Owns(o, h) PROVE Owns(o, h)'
  <2>1. Kept(o) \subseteq Kept(o)'
    BY <1>1, <1>4, <1>7, <1>11 DEF Kept, Changes
  <2> QED BY <1>1, <1>7, <1>11, <1>23, <2>1, OwnsMore DEF Changes
<1>24. StoreInv'
  BY <1>4, <1>10 DEF StoreInv
<1> QED BY <1>1, <1>7, <1>8, <1>9, <1>10, <1>17, <1>18, <1>20, <1>21, <1>22, <1>23, <1>24,
           ChangeStep

LEMMA StopStep ==
  ASSUME RegistriesInv, NEW o \in DOMAIN objects, ~IsConsul(objects[o].config),
         UNCHANGED backend, NEW f, Stop(o, f)
  PROVE  RegistriesInv'
<1>1. PICK reg : reg = objects[o]
  OBVIOUS
<1> DEFINE lost == {sub \in Of(o, reg.client, reg.watching) : f # <<"unsubscribe", sub.service>>}
           hosts == HostsOf(o, reg.config, reg.watching \union reg.soft)
           g == IF f[1] = "unsubscribe" THEN NoFault ELSE f
<1>2. /\ objects' = [objects EXCEPT ![o].stopped = TRUE]
      /\ subs' = TakenBack(subs, lost)
      /\ StoreDelete(hosts, g) /\ Made(f, {})
  BY <1>1 DEF Stop, Unsubscribe
<1>3. /\ reg \in NacosObjects /\ ObjectOK(reg) /\ reg.next = {}
      /\ ServersInv /\ SubsInv /\ StoreInv
  BY <1>1, ObjectFields, NacosObjectsOnly DEF RegistriesInv, ObjectsInv, NacosObjects
<1>4. PICK new : new = [reg EXCEPT !.stopped = TRUE]
  OBVIOUS
<1>5. /\ new \in NacosObjects /\ new.stopped /\ new.name = reg.name
      /\ new.config = reg.config /\ new.client = reg.client /\ new.watching = reg.watching
      /\ new.next = reg.next /\ new.refreshing = reg.refreshing
  BY <1>3, <1>4 DEF NacosObjects
<1>6. objects' = [objects EXCEPT ![o] = new]
  BY <1>1, <1>2, <1>4
<1>7. new \in Objects /\ ObjectOK(new)
  BY <1>1, <1>3, <1>5, ObjectFields, NacosObjectsOnly DEF RegistriesInv, ObjectOK, Distinct
<1>8. Changes(o, new)
  BY <1>6, <1>7, ObjectChanges DEF RegistriesInv
<1>9. lost \subseteq subs /\ \A sub \in lost : sub.object = o
  BY DEF Of
<1>10. /\ StoreInv' /\ DOMAIN entries' = DOMAIN entries \ hosts
  <2>1. PICK h, e : h = hosts /\ e = g
    OBVIOUS
  <2>2. StoreDelete(h, e)
    BY <1>2, <2>1
  <2> QED BY <1>3, <2>1, <2>2, StoreDeleteOK
<1>11. holes \subseteq holes'
  BY <1>2, MadeHoles
<1> HIDE DEF lost
<1>12. /\ subs' \subseteq Subs /\ subs \ lost \subseteq subs'
       /\ \A a \in subs' : \E b \in subs :
            Akin(a, b) /\ a.updating = b.updating /\ (a = b \/ a.updating # NoList)
  BY <1>2, <1>3, <1>9, TakenBackSubs DEF SubsInv
<1>13. \A a \in subs' : Old(a) \/ New(a)
  BY <1>12 DEF Old, ComesFrom, Akin
<1>14. \A p \in DOMAIN objects \ {o} : Retained(p)
  BY <1>9, <1>12 DEF Retained, Akin
<1>15. WatchedOf(o)'
  BY <1>5, <1>8 DEF WatchedOf, Changes
<1>16. ASSUME NEW h, Owns(o, h) PROVE h \in hosts
  BY <1>1, <1>3, <1>16 DEF Owns, HostsOf, Kept
<1>17. \A h \in DOMAIN entries' : h \in DOMAIN entries /\ ~Owns(o, h)
  BY <1>10, <1>16
<1> QED BY <1>1, <1>5, <1>6, <1>7, <1>10, <1>11, <1>12, <1>13, <1>14, <1>15, <1>17, ChangeStep

LEMMA ReloadStep ==
  ASSUME RegistriesInv, NEW o \in DOMAIN objects, ~IsConsul(objects[o].config),
         UNCHANGED backend, NEW c \in Configs, NEW f, Reload(o, c, f)
  PROVE  RegistriesInv'
<1>1. PICK reg : reg = objects[o]
  OBVIOUS
<1>2. PICK fetched : fetched = Fetched(c, f)
  OBVIOUS
<1> DEFINE known == reg.soft \union reg.watching
           gone == known \ fetched
           left == HostsOf(o, reg.config, known) \ HostsOf(o, c, known)
           hosts == HostsOf(o, c, gone)
           extra == IF left = {} THEN {} ELSE {"namespace"}
           g == IF f[1] \in {"miss", "subscribe"} THEN NoFault ELSE f
           fresh == Served(fetched, f)
<1>3. /\ objects' = [objects EXCEPT ![o].config = c, ![o].client = @ + 1,
                                      ![o].watching = fetched, ![o].soft = {}]
      /\ subs' = subs \union Subscriptions(o, reg.client + 1, c, fresh)
      /\ StoreDelete(hosts, g) /\ Made(f, extra)
  BY <1>1, <1>2 DEF Reload
<1>4. /\ reg \in NacosObjects /\ ObjectOK(reg) /\ reg.next = {} /\ reg.client \in Nat
      /\ ServersInv /\ SubsInv /\ StoreInv /\ o \in Nat
  BY <1>1, ObjectFields, NacosObjectsOnly DEF RegistriesInv, ObjectsInv, NacosObjects
<1>5. fetched \subseteq Keys /\ Distinct(fetched)
  BY <1>2, <1>4, FetchedKeys
<1>client. PICK n : n = reg.client + 1 /\ n \in Nat
  BY <1>4
<1>6. PICK new : new = [reg EXCEPT !.config = c, !.client = n,
                                   !.watching = fetched, !.soft = {}]
  OBVIOUS
<1>7. /\ new \in NacosObjects /\ new.watching = fetched /\ new.soft = {} /\ new.next = {}
      /\ new.name = reg.name /\ new.config = c /\ new.client = n
      /\ new.stopped = reg.stopped /\ new.refreshing = reg.refreshing
  BY <1>4, <1>5, <1>6, <1>client DEF NacosObjects
<1>8. objects' = [objects EXCEPT ![o] = new]
  BY <1>1, <1>3, <1>6, <1>client
<1>9. new \in Objects /\ ObjectOK(new)
  BY <1>1, <1>4, <1>5, <1>7, ObjectFields, NacosObjectsOnly DEF RegistriesInv, ObjectOK, Distinct
<1>10. Changes(o, new)
  BY <1>8, <1>9, ObjectChanges DEF RegistriesInv
<1>11. StoreInv' /\ DOMAIN entries' = DOMAIN entries \ hosts
  <2>1. PICK h, e : h = hosts /\ e = g
    OBVIOUS
  <2>2. StoreDelete(h, e)
    BY <1>3, <2>1
  <2> QED BY <1>4, <2>1, <2>2, StoreDeleteOK
<1>12. /\ holes \subseteq holes' /\ extra \subseteq holes'
       /\ f[1] = "subscribe" => "subscribe" \in holes'
  <2>1. PICK e : e = extra
    OBVIOUS
  <2> QED BY <1>3, <2>1, MadeHoles
<1>13. fresh \subseteq Keys
  BY <1>5 DEF Served
<1> HIDE DEF fresh
<1>14. /\ Subscriptions(o, n, c, fresh) \subseteq Subs
       /\ \A a \in Subscriptions(o, n, c, fresh) :
            /\ a.object = o /\ a.client = n /\ a.config = c
            /\ a.active /\ a.updating = NoList
       /\ \A k \in fresh : \E a \in Subscriptions(o, n, c, fresh) :
            a.object = o /\ a.client = n /\ a.service = k /\ a.active
  BY <1>4, <1>6, <1>client, <1>13, SubscriptionsNew
<1>15. subs' \subseteq Subs /\ subs \subseteq subs'
  BY <1>3, <1>4, <1>6, <1>client, <1>14 DEF SubsInv
<1>16. \A a \in subs' : Old(a) \/ New(a)
  <2>1. \A a \in subs : Old(a)
    BY DEF Old, ComesFrom, Akin
  <2>2. \A a \in Subscriptions(o, n, c, fresh) : New(a)
    BY <1>7, <1>10, <1>14 DEF New, Changes
  <2> QED BY <1>3, <1>6, <1>client, <2>1, <2>2
<1>17. \A p \in DOMAIN objects \ {o} : Retained(p)
  BY <1>15 DEF Retained, Akin
<1>18. Watchable' => WatchedOf(o)'
  <2> SUFFICES ASSUME Watchable' PROVE \A k \in fetched : Subscribed(o, k)'
    BY <1>4, <1>7, <1>10 DEF WatchedOf, Changes, NacosObjects
  <2> TAKE k \in fetched
  <2>1. k \in fresh
    BY <1>12 DEF Watchable, fresh, Served
  <2>2. PICK a \in Subscriptions(o, n, c, fresh) :
          a.object = o /\ a.client = n /\ a.service = k /\ a.active
    BY <1>14, <2>1
  <2>3. a \in subs'
    BY <1>3, <1>client, <2>2
  <2> QED BY <1>7, <1>10, <2>2, <2>3 DEF Subscribed, Changes
<1>19. Ownable' => \A h \in DOMAIN entries' : Owns(o, h) => Owns(o, h)'
  <2> SUFFICES ASSUME Ownable', NEW h \in DOMAIN entries', Owns(o, h) PROVE Owns(o, h)'
    OBVIOUS
  <2>1. left = {}
    BY <1>12 DEF Ownable
  <2>2. h \in HostsOf(o, reg.config, known)
    BY <1>1, <1>4 DEF Owns, Kept
  <2>3. h \in HostsOf(o, c, known) /\ h \notin HostsOf(o, c, gone)
    BY <1>11, <2>1, <2>2
  <2>4. h \in HostsOf(o, c, fetched)
    BY <2>3 DEF HostsOf
  <2>5. HostsOf(o, c, fetched)' = HostsOf(o, c, fetched)
    BY <1>1, <1>7, <1>10 DEF HostsOf, Changes
  <2>6. Kept(o)' = fetched
    BY <1>7, <1>10 DEF Kept, Changes
  <2>7. ~objects[o].stopped
    BY DEF Owns
  <2> QED BY <1>1, <1>7, <1>10, <2>4, <2>5, <2>6, <2>7 DEF Owns, Changes, HostsOf
<1> QED BY <1>1, <1>6, <1>client, <1>7, <1>8, <1>9, <1>11, <1>12, <1>15, <1>16, <1>17, <1>18, <1>19, ChangeStep

LEMMA UnloadedStep ==
  ASSUME RegistriesInv, NEW o \in DOMAIN objects, ~IsConsul(objects[o].config),
         UNCHANGED backend, NEW c \in Configs, NEW f, Failed(f), Unloaded(o, c, f)
  PROVE  RegistriesInv'
<1>1. PICK reg : reg = objects[o]
  OBVIOUS
<1>2. /\ reg \in NacosObjects /\ ObjectOK(reg) /\ reg.client \in Nat /\ ServersInv /\ SubsInv
  BY <1>1, ObjectFields, NacosObjectsOnly DEF RegistriesInv, ObjectsInv, NacosObjects
<1>3. UNCHANGED <<subs, entries, synced, cluster>> /\ Made(f, {})
  BY DEF Unloaded
<1>4. f[1] = "client" \/ f[1] = "fetch"
  BY DEF Failed
<1>5. holes \subseteq holes' /\ f[1] \in holes'
  BY <1>3, <1>4, MadeHoles
<1>6. StoreInv'
  BY <1>3 DEF RegistriesInv, StoreInv
<1>7. subs' \subseteq Subs /\ \A a \in subs' : Old(a)
  BY <1>2, <1>3 DEF SubsInv, Old, ComesFrom, Akin
<1>8. \A p \in DOMAIN objects : Retained(p)
  BY <1>3 DEF Retained, Akin
<1>9. CASE f[1] = "client"
  <2>1. UNCHANGED <<backend, objects>>
    BY <1>9 DEF Unloaded
  <2> QED BY <1>3, <1>5, <1>6, <1>7, <1>8, <2>1, NoChangeStep
<1>10. CASE f[1] = "fetch"
  <2>client. PICK n : n = reg.client + 1 /\ n \in Nat
    BY <1>2
  <2>1. PICK new : new = [reg EXCEPT !.config = c, !.client = n]
    OBVIOUS
  <2>2. /\ new \in NacosObjects /\ new.name = reg.name /\ new.client = n
        /\ new.stopped = reg.stopped /\ new.watching = reg.watching
        /\ new.next = reg.next /\ new.refreshing = reg.refreshing
    BY <1>2, <2>1, <2>client DEF NacosObjects
  <2>3. objects' = [objects EXCEPT ![o] = new]
    BY <1>1, <1>10, <2>1, <2>client DEF Unloaded
  <2>4. new \in Objects /\ ObjectOK(new)
    BY <1>1, <1>2, <2>2, ObjectFields, NacosObjectsOnly DEF RegistriesInv, ObjectOK, Distinct
  <2>5. ~Watchable' /\ ~Ownable'
    BY <1>5, <1>10 DEF Watchable, Ownable
  <2> QED BY <1>1, <1>5, <1>6, <1>7, <1>8, <2>2, <2>3, <2>4, <2>5, <2>client, ChangeStep
<1> QED BY <1>4, <1>9, <1>10

LEMMA StartStep ==
  ASSUME RegistriesInv, UNCHANGED <<backend, entries, synced, cluster>>,
         NEW r \in Registries, Running(r) = {},
         NEW c \in Configs, ~IsConsul(c), NEW f, Start(r, c, f)
  PROVE  RegistriesInv'
<1>1. PICK o : o = Len(objects) + 1
  OBVIOUS
<1>2. PICK watching : watching = Served(Fetched(c, f), f)
  OBVIOUS
<1>3. PICK new : new = [name |-> r, config |-> c, client |-> 1, watching |-> watching,
                        soft |-> {}, next |-> {}, stopped |-> FALSE, refreshing |-> "waits"]
  OBVIOUS
<1>4. /\ objects' = Append(objects, new)
      /\ subs' = subs \union Subscriptions(o, 1, c, watching)
      /\ Made(NoFault, {})
  BY <1>1, <1>2, <1>3 DEF Start
<1>5. ServersInv /\ SubsInv /\ o \in Nat /\ Objects = NacosObjects
  BY <1>1, NacosObjectsOnly DEF RegistriesInv, ObjectsInv
<1>6. watching \subseteq Keys /\ Distinct(watching)
  BY <1>2, <1>5, FetchedKeys DEF Served, Distinct
<1>7. new \in Objects /\ ObjectOK(new) /\ new.name = r
  BY <1>3, <1>5, <1>6 DEF NacosObjects, ObjectOK, Distinct
<1>8. Adds(new)
  BY <1>4, <1>7, ObjectAdded DEF RegistriesInv
<1>9. /\ Subscriptions(o, 1, c, watching) \subseteq Subs
      /\ \A a \in Subscriptions(o, 1, c, watching) :
           a.object = o /\ a.client = 1 /\ a.config = c /\ a.active /\ a.updating = NoList
      /\ \A k \in watching : \E a \in Subscriptions(o, 1, c, watching) :
           a.object = o /\ a.client = 1 /\ a.service = k /\ a.active
  BY <1>5, <1>6, SubscriptionsNew
<1>10. subs' \subseteq Subs /\ subs \subseteq subs'
  BY <1>4, <1>5, <1>9 DEF SubsInv
<1>11. \A a \in subs' : Old(a) \/ New(a)
  <2>1. \A a \in subs : Old(a)
    BY DEF Old, ComesFrom, Akin
  <2>2. \A a \in Subscriptions(o, 1, c, watching) : New(a)
    BY <1>1, <1>3, <1>8, <1>9 DEF New, Adds
  <2> QED BY <1>4, <2>1, <2>2
<1>12. WatchedOf(o)'
  <2>1. ASSUME NEW k \in watching PROVE Subscribed(o, k)'
    BY <1>1, <1>3, <1>4, <1>8, <1>9 DEF Subscribed, Adds
  <2> QED BY <1>1, <1>3, <1>8, <2>1 DEF WatchedOf, Adds
<1>13. StoreInv' /\ holes \subseteq holes'
  BY <1>4, MadeHoles DEF RegistriesInv, StoreInv
<1> QED BY <1>1, <1>4, <1>7, <1>10, <1>11, <1>12, <1>13, AddStep

-----------------------------------------------------------------------------
(* The steps of a Consul registry.                                         *)
LEMMA ForgottenSubs ==
  ASSUME NEW o, NEW names, NEW all, all \subseteq Subs
  PROVE  /\ Forgotten(o, names, all) \subseteq Subs
         /\ \A a \in Forgotten(o, names, all) : \E b \in all :
              Akin(a, b) /\ a.updating = b.updating /\ a.active = b.active
         /\ \A b \in all : \E a \in Forgotten(o, names, all) :
              Akin(a, b) /\ a.active = b.active
<1> DEFINE Lets(b) == IF b.object = o /\ Name(b.service) \in names
                      THEN [b EXCEPT !.held = FALSE] ELSE b
<1>1. Forgotten(o, names, all) = {Lets(b) : b \in all}
  BY DEF Forgotten
<1>2. ASSUME NEW b \in all
      PROVE  /\ Lets(b) \in Subs /\ Akin(Lets(b), b) /\ Lets(b).updating = b.updating
             /\ Lets(b).active = b.active
  BY DEF Subs, Akin
<1> HIDE DEF Lets
<1> QED BY <1>1, <1>2

LEMMA StopPlansSubs ==
  ASSUME SubsInv, NEW o, NEW names
  PROVE  /\ StopPlans(o, names) \subseteq Subs
         /\ \A a \in StopPlans(o, names) : \E b \in subs :
              Akin(a, b) /\ a.updating = b.updating /\ (a = b \/ a.updating # NoList)
         /\ \A sub \in subs : sub.object # o \/ Name(sub.service) \notin names =>
              sub \in StopPlans(o, names)
<1>1. PlansOf(o, names) \subseteq subs /\ subs \subseteq Subs
  BY DEF PlansOf, SubsInv
<1>2. \A sub \in subs : sub.object # o \/ Name(sub.service) \notin names =>
        sub \in subs \ PlansOf(o, names)
  BY DEF PlansOf
<1> QED BY <1>1, <1>2, TakenBackSubs DEF StopPlans

LEMMA ConsulStartStep ==
  ASSUME RegistriesInv, UNCHANGED <<backend, entries, synced, cluster>>,
         NEW r \in Registries, Running(r) = {},
         NEW c \in Configs, IsConsul(c), ConsulStart(r, c)
  PROVE  RegistriesInv'
<1>1. PICK o : o = Len(objects) + 1
  OBVIOUS
<1>2. PICK watching : watching = Listed(c)
  OBVIOUS
<1>3. PICK new : new = [name |-> r, config |-> c, client |-> 1, watching |-> watching,
                        soft |-> {}, next |-> {}, stopped |-> FALSE, refreshing |-> "waits",
                        query |-> c, asked |-> c]
  OBVIOUS
<1>4. /\ objects' = Append(objects, new)
      /\ subs' = subs \union Subscriptions(o, 1, c, watching)
      /\ Made(NoFault, {})
  BY <1>1, <1>2, <1>3 DEF ConsulStart
<1>5. ServersInv /\ SubsInv /\ o \in Nat /\ Objects = ConsulObjects
  BY <1>1, ConsulObjectsOnly DEF RegistriesInv, ObjectsInv
<1>6. watching \subseteq Keys /\ Distinct(watching)
  BY <1>2, <1>5, ListedKeys
<1>7. new \in Objects /\ ObjectOK(new) /\ new.name = r
  BY <1>3, <1>5, <1>6 DEF ConsulObjects, ObjectOK, Distinct
<1>8. Adds(new)
  BY <1>4, <1>7, ObjectAdded DEF RegistriesInv
<1>9. /\ Subscriptions(o, 1, c, watching) \subseteq Subs
      /\ \A a \in Subscriptions(o, 1, c, watching) :
           a.object = o /\ a.client = 1 /\ a.config = c /\ a.active /\ a.updating = NoList
      /\ \A k \in watching : \E a \in Subscriptions(o, 1, c, watching) :
           a.object = o /\ a.client = 1 /\ a.service = k /\ a.active
  BY <1>5, <1>6, SubscriptionsNew
<1>10. subs' \subseteq Subs /\ subs \subseteq subs'
  BY <1>4, <1>5, <1>9 DEF SubsInv
<1>11. \A a \in subs' : Old(a) \/ New(a)
  <2>1. \A a \in subs : Old(a)
    BY DEF Old, ComesFrom, Akin
  <2>2. \A a \in Subscriptions(o, 1, c, watching) : New(a)
    BY <1>1, <1>3, <1>8, <1>9 DEF New, Adds
  <2> QED BY <1>4, <2>1, <2>2
<1>12. WatchedOf(o)'
  <2>1. ASSUME NEW k \in watching PROVE Subscribed(o, k)'
    BY <1>1, <1>3, <1>4, <1>8, <1>9 DEF Subscribed, Adds
  <2> QED BY <1>1, <1>3, <1>8, <2>1 DEF WatchedOf, Adds
<1>13. StoreInv' /\ holes \subseteq holes'
  BY <1>4, MadeHoles DEF RegistriesInv, StoreInv
<1> QED BY <1>1, <1>4, <1>7, <1>10, <1>11, <1>12, <1>13, AddStep

LEMMA ConsulSubscribeStep ==
  ASSUME RegistriesInv, NEW o \in DOMAIN objects, IsConsul(objects[o].config),
         ConsulSubscribe(o)
  PROVE  RegistriesInv'
<1>1. PICK reg : reg = objects[o]
  OBVIOUS
<1>2. PICK fetched : fetched = Listed(reg.asked)
  OBVIOUS
<1> DEFINE fresh == fetched \ reg.watching
           untagged == {<<NoTag, s>> : s \in Names(fresh)}
           extra == IF untagged = fresh /\ Names(fresh) \intersect Names(reg.watching) = {}
                    THEN {} ELSE {"tag"}
<1>3. /\ reg.refreshing = "waits" /\ UNCHANGED <<backend, entries, synced, cluster>>
      /\ objects' = [objects EXCEPT ![o].next = fetched, ![o].refreshing = "subscribed"]
      /\ IF reg.stopped THEN UNCHANGED <<subs, holes>>
         ELSE /\ subs' = Forgotten(o, Names(fresh), subs)
                           \union Subscriptions(o, reg.client, reg.config, untagged)
              /\ Made(NoFault, extra)
  BY <1>1, <1>2 DEF ConsulSubscribe, storeVars
<1>4. /\ reg \in ConsulObjects /\ ObjectOK(reg) /\ reg.next = {} /\ reg.client \in Nat
      /\ reg.config \in Configs /\ reg.asked \in Configs
      /\ ServersInv /\ SubsInv /\ StoreInv /\ o \in Nat
  BY <1>1, <1>3, ObjectFields, ConsulObjectsOnly
     DEF RegistriesInv, ObjectsInv, ConsulObjects, ObjectOK
<1>5. fetched \subseteq Keys /\ Distinct(fetched)
  BY <1>2, <1>4, ListedKeys
<1>6. PICK new : new = [reg EXCEPT !.next = fetched, !.refreshing = "subscribed"]
  OBVIOUS
<1>7. /\ new \in ConsulObjects /\ new.next = fetched /\ new.refreshing = "subscribed"
      /\ new.watching = reg.watching /\ new.soft = reg.soft /\ new.name = reg.name
      /\ new.config = reg.config /\ new.client = reg.client /\ new.stopped = reg.stopped
  BY <1>4, <1>5, <1>6 DEF ConsulObjects
<1>8. objects' = [objects EXCEPT ![o] = new]
  BY <1>1, <1>3, <1>6
<1>9. new \in Objects /\ ObjectOK(new)
  BY <1>1, <1>4, <1>5, <1>7, ObjectFields, ConsulObjectsOnly DEF RegistriesInv, ObjectOK, Distinct
<1>10. Changes(o, new)
  BY <1>3, <1>8, <1>9, ObjectChanges DEF RegistriesInv
<1>11. StoreInv'
  BY <1>3, <1>4 DEF StoreInv
<1>12. ASSUME NEW h, Owns(o, h) PROVE Owns(o, h)'
  <2>1. Kept(o) \subseteq Kept(o)'
    BY <1>1, <1>4, <1>7, <1>10 DEF Kept, Changes
  <2> QED BY <1>1, <1>7, <1>10, <1>12, <2>1, OwnsMore DEF Changes
<1>13. CASE reg.stopped
  <2>1. \A a \in subs' : Old(a)
    BY <1>3, <1>13 DEF Old, ComesFrom, Akin
  <2>2. \A p \in DOMAIN objects : Retained(p)
    BY <1>3, <1>13 DEF Retained, Akin
  <2>3. WatchedOf(o)'
    BY <1>7, <1>10, <1>13 DEF WatchedOf, Changes
  <2>4. subs' \subseteq Subs /\ holes \subseteq holes'
    BY <1>3, <1>4, <1>13 DEF SubsInv
  <2> QED BY <1>1, <1>3, <1>7, <1>8, <1>9, <1>11, <1>12, <2>1, <2>2, <2>3, <2>4, ChangeStep
<1>14. CASE ~reg.stopped
  <2>1. untagged \subseteq Keys
    BY <1>5, KeysAssumption DEF Names, Name
  <2>2. holes \subseteq holes' /\ extra \subseteq holes'
    <3>1. PICK e : e = extra
      OBVIOUS
    <3> QED BY <1>3, <1>14, <3>1, MadeHoles
  <2>3. Watchable' => /\ untagged = fresh
                      /\ Names(fresh) \intersect Names(reg.watching) = {}
    BY <2>2 DEF Watchable
  <2> HIDE DEF untagged, extra
  <2>4. /\ Subscriptions(o, reg.client, reg.config, untagged) \subseteq Subs
        /\ \A a \in Subscriptions(o, reg.client, reg.config, untagged) :
             /\ a.object = o /\ a.client = reg.client /\ a.config = reg.config
             /\ a.active /\ a.updating = NoList
        /\ \A k \in untagged : \E a \in Subscriptions(o, reg.client, reg.config, untagged) :
             a.object = o /\ a.client = reg.client /\ a.service = k /\ a.active
    BY <1>4, <2>1, SubscriptionsNew
  <2>5. PICK names : names = Names(fresh)
    OBVIOUS
  <2>6. /\ Forgotten(o, names, subs) \subseteq Subs
        /\ \A a \in Forgotten(o, names, subs) : \E b \in subs :
             Akin(a, b) /\ a.updating = b.updating /\ a.active = b.active
        /\ \A b \in subs : \E a \in Forgotten(o, names, subs) :
             Akin(a, b) /\ a.active = b.active
    BY <1>4, ForgottenSubs DEF SubsInv
  <2>7. subs' = Forgotten(o, names, subs)
                  \union Subscriptions(o, reg.client, reg.config, untagged)
    BY <1>3, <1>14, <2>5
  <2>8. subs' \subseteq Subs
    BY <2>4, <2>6, <2>7
  <2>9. \A a \in subs' : Old(a) \/ New(a)
    <3>1. \A a \in Forgotten(o, names, subs) : Old(a)
      BY <2>6 DEF Old, ComesFrom
    <3>2. \A a \in Subscriptions(o, reg.client, reg.config, untagged) : New(a)
      BY <1>7, <1>10, <2>4 DEF New, Changes
    <3> QED BY <2>7, <3>1, <3>2
  <2>10. ASSUME NEW sub \in subs, sub.active PROVE \E a \in subs' : Akin(a, sub) /\ a.active
    BY <2>6, <2>7, <2>10
  <2>11. \A p \in DOMAIN objects : Retained(p)
    BY <2>10 DEF Retained
  <2>12. ASSUME NEW k, Subscribed(o, k) PROVE Subscribed(o, k)'
    <3>1. PICK sub \in subs : /\ sub.object = o /\ sub.client = reg.client
                              /\ sub.service = k /\ sub.active
      BY <1>1, <2>12 DEF Subscribed
    <3>2. PICK a \in subs' : Akin(a, sub) /\ a.active
      BY <2>10, <3>1
    <3> QED BY <1>7, <1>10, <3>1, <3>2 DEF Subscribed, Changes, Akin
  <2>13. Watchable' => WatchedOf(o)'
    <3> SUFFICES ASSUME Watchable'
                 PROVE  /\ \A k \in reg.watching \union fetched : Subscribed(o, k)'
                        /\ Names(reg.watching \ fetched) \intersect Names(fetched) = {}
      BY <1>7, <1>10 DEF WatchedOf, Changes, Names
    <3>1. \A k \in reg.watching : Subscribed(o, k)
      BY <1>1, <1>14, <2>2 DEF RegistriesInv, WatchedInv, WatchedOf, Watchable
    <3>2. ASSUME NEW k \in fresh PROVE Subscribed(o, k)'
      <4>1. PICK a \in Subscriptions(o, reg.client, reg.config, untagged) :
              a.object = o /\ a.client = reg.client /\ a.service = k /\ a.active
        BY <2>3, <2>4, <3>2
      <4>2. a \in subs'
        BY <2>7
      <4> QED BY <1>7, <1>10, <4>1, <4>2 DEF Subscribed, Changes
    <3>3. ASSUME NEW k \in reg.watching \ fetched, NEW l \in fetched, Name(k) = Name(l)
          PROVE  FALSE
      <4>1. CASE l \in reg.watching
        BY <1>4, <3>3, <4>1 DEF ObjectOK, Distinct
      <4>2. CASE l \notin reg.watching
        <5>1. Name(l) \in Names(fresh) /\ Name(k) \in Names(reg.watching)
          BY <4>2 DEF Names
        <5> QED BY <2>3, <3>3, <5>1
      <4> QED BY <4>1, <4>2
    <3> QED BY <2>12, <3>1, <3>2, <3>3 DEF Names
  <2> QED BY <1>1, <1>3, <1>7, <1>8, <1>9, <1>11, <1>12, <2>2, <2>8, <2>9, <2>11, <2>13,
             ChangeStep
<1> QED BY <1>13, <1>14

LEMMA ConsulSwapStep ==
  ASSUME RegistriesInv, NEW o \in DOMAIN objects, IsConsul(objects[o].config),
         ConsulSwap(o)
  PROVE  RegistriesInv'
<1>1. PICK reg : reg = objects[o]
  OBVIOUS
<1>2. PICK gone : gone = reg.watching \ reg.next
  OBVIOUS
<1>3. PICK asked : asked = Asked(reg.config, reg.query)
  OBVIOUS
<1>4. PICK new : new = IF reg.stopped THEN Ended(reg)
                       ELSE [reg EXCEPT !.watching = reg.next, !.soft = @ \union gone,
                                        !.next = {}, !.refreshing = "waits", !.asked = asked]
  OBVIOUS
<1>5. PICK names : names = Names(gone)
  OBVIOUS
<1>6. /\ reg.refreshing = "subscribed" /\ UNCHANGED <<backend, holes, entries, synced, cluster>>
      /\ objects' = [objects EXCEPT ![o] = new]
      /\ subs' = StopPlans(o, names)
  BY <1>1, <1>2, <1>3, <1>4, <1>5 DEF ConsulSwap, storeVars
<1>7. /\ reg \in ConsulObjects /\ ObjectOK(reg) /\ ServersInv /\ SubsInv /\ StoreInv
      /\ reg.config \in Configs /\ reg.query \in Configs
  BY <1>1, ObjectFields, ConsulObjectsOnly DEF RegistriesInv, ObjectsInv, ConsulObjects
<1>8. asked \in Configs
  BY <1>3, <1>7, AskedAssumption DEF ServersInv
<1>9. /\ new \in ConsulObjects /\ new.next = {} /\ new.name = reg.name
      /\ new.config = reg.config /\ new.client = reg.client /\ new.stopped = reg.stopped
      /\ new.refreshing # "subscribed"
      /\ new.watching = IF reg.stopped THEN {} ELSE reg.next
      /\ ~reg.stopped => new.soft = reg.soft \union gone
  <2>1. gone \subseteq Keys
    BY <1>2, <1>7 DEF ConsulObjects
  <2>2. CASE reg.stopped
    BY <1>4, <1>7, <2>2 DEF ConsulObjects, Ended
  <2>3. CASE ~reg.stopped
    BY <1>4, <1>7, <1>8, <2>1, <2>3 DEF ConsulObjects
  <2> QED BY <2>2, <2>3
<1>10. new \in Objects /\ ObjectOK(new)
  BY <1>1, <1>7, <1>9, ObjectFields, ConsulObjectsOnly DEF RegistriesInv, ObjectOK, Distinct
<1>11. Changes(o, new)
  BY <1>6, <1>10, ObjectChanges DEF RegistriesInv
<1>12. StoreInv' /\ holes \subseteq holes'
  BY <1>6, <1>7 DEF StoreInv
<1>13. /\ subs' \subseteq Subs
       /\ \A a \in subs' : \E b \in subs :
            Akin(a, b) /\ a.updating = b.updating /\ (a = b \/ a.updating # NoList)
       /\ \A sub \in subs : sub.object # o \/ Name(sub.service) \notin names => sub \in subs'
  BY <1>6, <1>7, StopPlansSubs
<1>14. \A a \in subs' : Old(a)
  BY <1>13 DEF Old, ComesFrom
<1>15. \A p \in DOMAIN objects \ {o} : Retained(p)
  BY <1>13 DEF Retained, Akin
<1>16. Watchable' => WatchedOf(o)'
  <2> SUFFICES ASSUME Watchable', ~reg.stopped PROVE \A k \in reg.next : Subscribed(o, k)'
    BY <1>9, <1>11 DEF WatchedOf, Changes
  <2> TAKE k \in reg.next
  <2>1. Subscribed(o, k) /\ names \intersect Names(reg.next) = {}
    BY <1>1, <1>2, <1>5, <1>6 DEF RegistriesInv, WatchedInv, WatchedOf, Watchable
  <2>2. PICK sub \in subs : /\ sub.object = o /\ sub.client = reg.client
                            /\ sub.service = k /\ sub.active
    BY <1>1, <2>1 DEF Subscribed
  <2>3. sub \in subs'
    BY <1>13, <2>1, <2>2 DEF Names
  <2> QED BY <1>9, <1>11, <2>2, <2>3 DEF Subscribed, Changes
<1>17. ASSUME NEW h, Owns(o, h) PROVE Owns(o, h)'
  <2>1. ~reg.stopped
    BY <1>1, <1>17 DEF Owns
  <2>2. Kept(o) \subseteq Kept(o)'
    BY <1>1, <1>2, <1>9, <1>11, <2>1 DEF Kept, Changes
  <2> QED BY <1>1, <1>9, <1>11, <1>17, <2>2, OwnsMore DEF Changes
<1> QED BY <1>1, <1>6, <1>9, <1>10, <1>12, <1>13, <1>14, <1>15, <1>16, <1>17, ChangeStep

LEMMA ConsulStopStep ==
  ASSUME RegistriesInv, NEW o \in DOMAIN objects, IsConsul(objects[o].config),
         UNCHANGED backend, NEW f, ConsulStop(o, f)
  PROVE  RegistriesInv'
<1>1. PICK reg : reg = objects[o]
  OBVIOUS
<1>2. PICK names, hosts, extra :
        /\ names = Names(reg.watching)
        /\ hosts = HostsOf(o, reg.config, reg.watching \union reg.soft)
        /\ extra = Overlap(o, reg.watching)
  OBVIOUS
<1>3. /\ objects' = [objects EXCEPT ![o].stopped = TRUE]
      /\ subs' = StopPlans(o, names)
      /\ StoreDelete(hosts, f) /\ Made(f, extra)
  BY <1>1, <1>2 DEF ConsulStop
<1>4. /\ reg \in ConsulObjects /\ ObjectOK(reg) /\ ServersInv /\ SubsInv /\ StoreInv
  BY <1>1, ObjectFields, ConsulObjectsOnly DEF RegistriesInv, ObjectsInv, ConsulObjects
<1>5. PICK new : new = [reg EXCEPT !.stopped = TRUE]
  OBVIOUS
<1>6. /\ new \in ConsulObjects /\ new.stopped /\ new.name = reg.name
      /\ new.config = reg.config /\ new.client = reg.client /\ new.watching = reg.watching
      /\ new.next = reg.next /\ new.refreshing = reg.refreshing
  BY <1>4, <1>5 DEF ConsulObjects
<1>7. objects' = [objects EXCEPT ![o] = new]
  BY <1>1, <1>3, <1>5
<1>8. new \in Objects /\ ObjectOK(new)
  BY <1>1, <1>4, <1>6, ObjectFields, ConsulObjectsOnly DEF RegistriesInv, ObjectOK, Distinct
<1>9. Changes(o, new)
  BY <1>7, <1>8, ObjectChanges DEF RegistriesInv
<1>10. StoreInv' /\ DOMAIN entries' = DOMAIN entries \ hosts
  BY <1>3, <1>4, StoreDeleteOK
<1>11. holes \subseteq holes' /\ extra \subseteq holes'
  BY <1>3, MadeHoles
<1>12. /\ subs' \subseteq Subs
       /\ \A a \in subs' : \E b \in subs :
            Akin(a, b) /\ a.updating = b.updating /\ (a = b \/ a.updating # NoList)
       /\ \A sub \in subs : sub.object # o \/ Name(sub.service) \notin names => sub \in subs'
  BY <1>3, <1>4, StopPlansSubs
<1>13. \A a \in subs' : Old(a)
  BY <1>12 DEF Old, ComesFrom
<1>14. \A p \in DOMAIN objects \ {o} : Retained(p)
  BY <1>12 DEF Retained, Akin
<1>15. WatchedOf(o)'
  BY <1>6, <1>9 DEF WatchedOf, Changes
<1>16. ASSUME Ownable', NEW h, Owns(o, h) PROVE h \in hosts
  <2>1. reg.next \subseteq reg.watching
    BY <1>1, <1>2, <1>4, <1>11, <1>16 DEF Overlap, Ownable, ObjectOK
  <2> QED BY <1>1, <1>2, <1>16, <2>1 DEF Owns, HostsOf, Kept
<1>17. Ownable' => \A h \in DOMAIN entries' : h \in DOMAIN entries /\ ~Owns(o, h)
  BY <1>10, <1>16
<1> QED BY <1>1, <1>6, <1>7, <1>8, <1>10, <1>11, <1>12, <1>13, <1>14, <1>15, <1>17, ChangeStep

LEMMA ConsulReloadStep ==
  ASSUME RegistriesInv, NEW o \in DOMAIN objects, IsConsul(objects[o].config),
         UNCHANGED backend, NEW c \in Configs, NEW f, ConsulReload(o, c, f)
  PROVE  RegistriesInv'
<1>1. PICK reg : reg = objects[o]
  OBVIOUS
<1>2. PICK fetched : fetched = Listed(c)
  OBVIOUS
<1> DEFINE known == reg.soft \union reg.watching
           left == HostsOf(o, reg.config, known \intersect fetched) \ HostsOf(o, c, fetched)
<1>3. PICK hosts, extra, names, old, stopped, n :
        /\ hosts = HostsOf(o, reg.config, known \ fetched)
        /\ extra = (Overlap(o, fetched) \union (IF left = {} THEN {} ELSE {"namespace"})
                      \union IF Asked(c, reg.query) = c THEN {} ELSE {"datacenter"})
        /\ names = Names(fetched) /\ old = Names(reg.watching)
        /\ stopped = StopPlans(o, old) /\ n = reg.client + 1
  OBVIOUS
<1>4. /\ objects' = [objects EXCEPT ![o].config = c, ![o].client = @ + 1,
                                    ![o].watching = fetched, ![o].soft = {}]
      /\ subs' = Forgotten(o, names, stopped) \union Subscriptions(o, n, c, fetched)
      /\ StoreDelete(hosts, f) /\ Made(f, extra)
  BY <1>1, <1>2, <1>3 DEF ConsulReload
<1>5. /\ reg \in ConsulObjects /\ ObjectOK(reg) /\ reg.client \in Nat
      /\ ServersInv /\ SubsInv /\ StoreInv /\ o \in Nat /\ n \in Nat
  <2>1. /\ reg \in ConsulObjects /\ ObjectOK(reg) /\ reg.client \in Nat
        /\ ServersInv /\ SubsInv /\ StoreInv /\ o \in Nat
    BY <1>1, ObjectFields, ConsulObjectsOnly DEF RegistriesInv, ObjectsInv, ConsulObjects
  <2> QED BY <1>3, <2>1
<1>6. fetched \subseteq Keys /\ Distinct(fetched)
  BY <1>2, <1>5, ListedKeys
<1>7. PICK new : new = [reg EXCEPT !.config = c, !.client = n, !.watching = fetched, !.soft = {}]
  OBVIOUS
<1>8. /\ new \in ConsulObjects /\ new.watching = fetched /\ new.soft = {}
      /\ new.next = reg.next /\ new.name = reg.name /\ new.config = c /\ new.client = n
      /\ new.stopped = reg.stopped /\ new.refreshing = reg.refreshing
  BY <1>5, <1>6, <1>7 DEF ConsulObjects
<1>9. objects' = [objects EXCEPT ![o] = new]
  BY <1>1, <1>3, <1>4, <1>7
<1>10. new \in Objects /\ ObjectOK(new)
  BY <1>1, <1>5, <1>6, <1>8, ObjectFields, ConsulObjectsOnly DEF RegistriesInv, ObjectOK, Distinct
<1>11. Changes(o, new)
  BY <1>9, <1>10, ObjectChanges DEF RegistriesInv
<1>12. StoreInv' /\ DOMAIN entries' = DOMAIN entries \ hosts
  BY <1>4, <1>5, StoreDeleteOK
<1>13. holes \subseteq holes' /\ extra \subseteq holes'
  BY <1>4, MadeHoles
<1>14. /\ Subscriptions(o, n, c, fetched) \subseteq Subs
       /\ \A a \in Subscriptions(o, n, c, fetched) :
            a.object = o /\ a.client = n /\ a.config = c /\ a.active /\ a.updating = NoList
       /\ \A k \in fetched : \E a \in Subscriptions(o, n, c, fetched) :
            a.object = o /\ a.client = n /\ a.service = k /\ a.active
  BY <1>5, <1>6, SubscriptionsNew
<1>15. /\ stopped \subseteq Subs
       /\ \A a \in stopped : \E b \in subs :
            Akin(a, b) /\ a.updating = b.updating /\ (a = b \/ a.updating # NoList)
       /\ \A sub \in subs : sub.object # o \/ Name(sub.service) \notin old => sub \in stopped
  BY <1>3, <1>5, StopPlansSubs
<1>16. /\ Forgotten(o, names, stopped) \subseteq Subs
       /\ \A a \in Forgotten(o, names, stopped) : \E b \in stopped :
            Akin(a, b) /\ a.updating = b.updating /\ a.active = b.active
       /\ \A b \in stopped : \E a \in Forgotten(o, names, stopped) :
            Akin(a, b) /\ a.active = b.active
  BY <1>15, ForgottenSubs
<1>17. subs' \subseteq Subs
  BY <1>4, <1>14, <1>16
<1>18. \A a \in subs' : Old(a) \/ New(a)
  <2>1. ASSUME NEW a \in Forgotten(o, names, stopped) PROVE Old(a)
    <3>1. PICK b \in stopped : Akin(a, b) /\ a.updating = b.updating /\ a.active = b.active
      BY <1>16
    <3>2. PICK d \in subs : Akin(b, d) /\ b.updating = d.updating /\ (b = d \/ b.updating # NoList)
      BY <1>15
    <3> QED BY <3>1, <3>2 DEF Old, ComesFrom, Akin
  <2>2. ASSUME NEW a \in Subscriptions(o, n, c, fetched) PROVE New(a)
    BY <1>8, <1>11, <1>14 DEF New, Changes
  <2> QED BY <1>4, <2>1, <2>2
<1>19. \A p \in DOMAIN objects \ {o} : Retained(p)
  BY <1>4, <1>15, <1>16 DEF Retained
<1>20. Watchable' \/ Ownable' =>
         \/ reg.refreshing # "subscribed" /\ reg.next = {}
         \/ reg.next = reg.watching /\ reg.next = fetched
  BY <1>1, <1>3, <1>5, <1>13 DEF Watchable, Ownable, Overlap, ObjectOK
<1>21. ASSUME NEW k \in fetched PROVE Subscribed(o, k)'
  <2>1. PICK a \in Subscriptions(o, n, c, fetched) :
          a.object = o /\ a.client = n /\ a.service = k /\ a.active
    BY <1>14
  <2> QED BY <1>4, <1>8, <1>11, <2>1 DEF Subscribed, Changes
<1>22. Watchable' => WatchedOf(o)'
  BY <1>8, <1>11, <1>20, <1>21 DEF WatchedOf, Changes, Names
<1>23. Ownable' => \A h \in DOMAIN entries' : Owns(o, h) => Owns(o, h)'
  <2> SUFFICES ASSUME Ownable', NEW h \in DOMAIN entries', Owns(o, h) PROVE Owns(o, h)'
    OBVIOUS
  <2>1. left = {}
    BY <1>3, <1>13 DEF Ownable
  <2>2. h \in HostsOf(o, reg.config, known)
    BY <1>1, <1>20 DEF Owns, Kept, HostsOf
  <2>3. h \notin HostsOf(o, reg.config, known \ fetched)
    BY <1>3, <1>12
  <2>4. h \in HostsOf(o, reg.config, known \intersect fetched)
    BY <2>2, <2>3 DEF HostsOf
  <2>5. h \in HostsOf(o, c, fetched)
    BY <2>1, <2>4
  <2>6. ~objects[o].stopped
    BY DEF Owns
  <2>7. fetched \subseteq Kept(o)'
    BY <1>8, <1>11 DEF Kept, Changes
  <2> QED BY <1>1, <1>8, <1>11, <2>5, <2>6, <2>7 DEF Owns, Changes, HostsOf
<1> QED BY <1>1, <1>3, <1>8, <1>9, <1>10, <1>12, <1>13, <1>17, <1>18, <1>19, <1>22, <1>23,
           ChangeStep

-----------------------------------------------------------------------------
(* The goroutines of both kinds.                                           *)
LEMMA StopRefreshingStep ==
  ASSUME RegistriesInv, NEW o \in DOMAIN objects, StopRefreshing(o)
  PROVE  RegistriesInv'
<1>1. PICK reg : reg = objects[o]
  OBVIOUS
<1>2. PICK new : new = Ended(reg)
  OBVIOUS
<1>3. /\ reg.stopped /\ UNCHANGED <<backend, subs, holes, entries, synced, cluster>>
      /\ objects' = [objects EXCEPT ![o] = new]
  BY <1>1, <1>2 DEF StopRefreshing, storeVars
<1>4. reg \in Objects /\ SubsInv /\ StoreInv
  BY <1>1, ObjectFields DEF RegistriesInv
<1>5. /\ new \in Objects /\ new.name = reg.name /\ new.stopped = reg.stopped
      /\ new.config = reg.config /\ new.client = reg.client
      /\ new.watching = {} /\ new.next = {}
  BY <1>2, <1>4 DEF Objects, NacosObjects, ConsulObjects, Ended
<1>6. ObjectOK(new)
  BY <1>5 DEF ObjectOK, Distinct
<1>7. Changes(o, new)
  BY <1>3, <1>5, <1>6, ObjectChanges DEF RegistriesInv
<1>8. StoreInv' /\ holes \subseteq holes' /\ subs' \subseteq Subs
  BY <1>3, <1>4 DEF StoreInv, SubsInv
<1>9. \A a \in subs' : Old(a)
  BY <1>3 DEF Old, ComesFrom, Akin
<1>10. \A p \in DOMAIN objects : Retained(p)
  BY <1>3 DEF Retained, Akin
<1>11. WatchedOf(o)' /\ \A h : ~Owns(o, h)
  BY <1>1, <1>3, <1>5, <1>7 DEF WatchedOf, Changes, Owns
<1> QED BY <1>1, <1>3, <1>5, <1>6, <1>8, <1>9, <1>10, <1>11, ChangeStep

(* One subscription is replaced by another, or goes.                       *)
LEMMA SubReplaced ==
  ASSUME RegistriesInv, NEW sub \in subs, NEW a \in Subs,
         Akin(a, sub), a.active = sub.active, subs' = (subs \ {sub}) \union {a}
  PROVE  /\ subs' \subseteq Subs
         /\ \A b \in subs' : b = a \/ Old(b)
         /\ \A p \in DOMAIN objects : Retained(p)
BY DEF RegistriesInv, SubsInv, Old, ComesFrom, Retained, Akin

LEMMA ReportStep ==
  ASSUME RegistriesInv, NEW sub \in subs, Report(sub)
  PROVE  RegistriesInv'
<1>1. PICK hosts : hosts = HostsNow(sub)
  OBVIOUS
<1>2. PICK a : a = [sub EXCEPT !.seen = hosts, !.updating = hosts]
  OBVIOUS
<1>3. /\ sub.active /\ UNCHANGED <<backend, objects, holes, entries, synced, cluster>>
      /\ hosts > 0 \/ IsConsul(sub.config)
      /\ subs' = (subs \ {sub}) \union {a}
  BY <1>1, <1>2 DEF Report, storeVars
<1>4. /\ sub \in Subs /\ SubOK(sub) /\ ServersInv /\ ObjectsInv /\ StoreInv
      /\ sub.service \in Keys /\ sub.config \in Configs
  BY DEF RegistriesInv, SubsInv, Subs
<1>5. PICK b : b = backend[sub.config][Name(sub.service)]
  OBVIOUS
<1>6. /\ hosts = b.hosts /\ hosts \in Nat /\ b.latest \in Nat /\ hosts <= b.latest
  <2>1. Name(sub.service) \in Services
    BY <1>4, KeysAssumption DEF Name
  <2> QED BY <1>1, <1>4, <1>5, <2>1 DEF HostsNow, ServersInv, Service
<1>7. hosts \in Least(sub.config) .. b.latest
  BY <1>3, <1>6 DEF Least
<1>8. /\ a \in Subs /\ Akin(a, sub) /\ a.active /\ a.updating = hosts
  BY <1>2, <1>3, <1>4, <1>6 DEF Subs, Akin
<1>9. /\ subs' \subseteq Subs /\ \A d \in subs' : d = a \/ Old(d)
      /\ \A p \in DOMAIN objects : Retained(p)
  BY <1>3, <1>8, SubReplaced
<1>10. SubsInv'
  <2>1. Subs' = Subs
    BY <1>3 DEF Subs, Configs
  <2>2. SubOK(a)'
    BY <1>3, <1>4, <1>5, <1>7, <1>8 DEF SubOK, Akin, HasHad, Least, IsConsul, NoList
  <2>3. \A d \in subs : SubOK(d)'
    BY <1>3 DEF RegistriesInv, SubsInv, SubOK, HasHad, Least, IsConsul, NoList
  <2> QED BY <1>3, <1>9, <2>1, <2>2, <2>3 DEF SubsInv
<1>11. 0 \notin DOMAIN objects /\ holes \subseteq holes'
  BY <1>3, <1>4 DEF ObjectsInv
<1>12. WatchedInv'
  BY <1>3, <1>9, <1>11, WatchedStep DEF RegistriesInv
<1>13. OwnedInv'
  BY <1>3, <1>11, OwnedStep DEF RegistriesInv
<1>14. ServersInv' /\ ObjectsInv' /\ OneRuns'
  BY <1>3, ServersStep DEF RegistriesInv, ObjectsInv, OneRuns, Objects, NacosObjects,
                           ConsulObjects, Configs, ObjectOK, Distinct
<1>15. StoreInv'
  BY <1>3, <1>4 DEF StoreInv
<1> QED BY <1>10, <1>12, <1>13, <1>14, <1>15 DEF RegistriesInv

LEMMA UpdateServiceStep ==
  ASSUME RegistriesInv, NEW sub \in subs, UpdateService(sub)
  PROVE  RegistriesInv'
<1>1. PICK h, spec : h = HostOf(sub) /\ spec = SpecOf(HostOf(sub), sub.config, sub.updating)
  OBVIOUS
<1>2. PICK extra : extra = IF IsCurrent(sub) \/ entries' = entries THEN {} ELSE {"stale"}
  OBVIOUS
<1>3. PICK f : StoreUpdate(h, spec, f) /\ Made(f, extra)
  BY <1>1, <1>2 DEF UpdateService
<1>4. /\ UNCHANGED <<backend, objects>> /\ sub.updating # NoList
      /\ subs' = (subs \ {sub})
                   \union IF sub.active THEN {[sub EXCEPT !.updating = NoList]} ELSE {}
  BY DEF UpdateService
<1>5. /\ sub \in Subs /\ SubOK(sub) /\ ServersInv /\ ObjectsInv /\ StoreInv
      /\ sub.service \in Keys /\ sub.config \in Configs /\ sub.object \in DOMAIN objects
  BY DEF RegistriesInv, SubsInv, Subs, SubOK
<1>6. h \in Hosts
  <2>1. objects[sub.object].name \in Registries /\ sub.config \in UNION Worlds
    BY <1>5, ObjectFields, Kinds
  <2> QED BY <1>1, <1>5, <2>1, HostAssumption DEF HostOf
<1>7. StoreInv' /\ DOMAIN entries' = DOMAIN entries \union {h}
  BY <1>3, <1>5, <1>6, StoreUpdateOK
<1>8. holes \subseteq holes' /\ extra \subseteq holes'
  BY <1>3, MadeHoles
<1>9. /\ subs' \subseteq Subs /\ \A a \in subs' : Old(a) \/ New(a)
      /\ \A p \in DOMAIN objects : Retained(p)
  <2>1. CASE sub.active
    <3>1. PICK a : a = [sub EXCEPT !.updating = NoList]
      OBVIOUS
    <3>2. NoList \in Nat
      BY BoundAssumption DEF NoList
    <3>3. /\ a \in Subs /\ Akin(a, sub) /\ a.active /\ a.updating = NoList
      BY <1>5, <2>1, <3>1, <3>2 DEF Subs, Akin
    <3>4. subs' = (subs \ {sub}) \union {a}
      BY <1>4, <2>1, <3>1
    <3>5. /\ subs' \subseteq Subs /\ \A b \in subs' : b = a \/ Old(b)
          /\ \A p \in DOMAIN objects : Retained(p)
      BY <2>1, <3>3, <3>4, SubReplaced
    <3>6. Old(a)
      BY <3>3 DEF Old, ComesFrom
    <3> QED BY <3>5, <3>6
  <2>2. CASE ~sub.active
    BY <1>4, <2>2 DEF RegistriesInv, SubsInv, Old, ComesFrom, Retained, Akin
  <2> QED BY <2>1, <2>2
<1>10. Ownable' => \A g \in DOMAIN entries' \ DOMAIN entries :
                     \E p \in DOMAIN objects' : Owns(p, g)'
  BY <1>1, <1>2, <1>4, <1>5, <1>7, <1>8
     DEF Ownable, IsCurrent, SubOK, Owns, HostsOf, HostOf, Kept
<1> QED BY <1>4, <1>7, <1>8, <1>9, <1>10, NoChangeStep

LEMMA ReportEmptyStep ==
  ASSUME RegistriesInv, NEW sub \in subs, ReportEmpty(sub)
  PROVE  RegistriesInv'
<1>1. PICK hosts : hosts = {HostOf(sub)}
  OBVIOUS
<1>2. PICK extra : extra = IF IsCurrent(sub) \/ entries' = entries THEN {} ELSE {"stale"}
  OBVIOUS
<1>3. PICK f : StoreDelete(hosts, f) /\ Made(f, extra)
  BY <1>1, <1>2 DEF ReportEmpty
<1>4. PICK a : a = [sub EXCEPT !.seen = 0]
  OBVIOUS
<1>5. UNCHANGED <<backend, objects>> /\ subs' = (subs \ {sub}) \union {a}
  BY <1>4 DEF ReportEmpty
<1>6. sub \in Subs /\ StoreInv
  BY DEF RegistriesInv, SubsInv
<1>7. a \in Subs /\ Akin(a, sub) /\ a.active = sub.active /\ a.updating = sub.updating
  BY <1>4, <1>6 DEF Subs, Akin
<1>8. StoreInv' /\ DOMAIN entries' = DOMAIN entries \ hosts
  BY <1>3, <1>6, StoreDeleteOK
<1>9. holes \subseteq holes'
  BY <1>3, MadeHoles
<1>10. /\ subs' \subseteq Subs /\ \A b \in subs' : b = a \/ Old(b)
       /\ \A p \in DOMAIN objects : Retained(p)
  BY <1>5, <1>7, SubReplaced
<1>11. Old(a)
  BY <1>7 DEF Old, ComesFrom
<1> QED BY <1>5, <1>8, <1>9, <1>10, <1>11, NoChangeStep

(* Nothing happens to the registries but that a failure is noted.          *)
Quiet == UNCHANGED <<backend, objects, subs, entries, synced, cluster>> /\ holes \subseteq holes'
LEMMA QuietStep ==
  ASSUME RegistriesInv, Quiet
  PROVE  RegistriesInv'
<1>1. StoreInv' /\ subs' \subseteq Subs
  BY DEF Quiet, RegistriesInv, StoreInv, SubsInv
<1>2. \A a \in subs' : Old(a)
  BY DEF Quiet, Old, ComesFrom, Akin
<1>3. \A p \in DOMAIN objects : Retained(p)
  BY DEF Quiet, Retained, Akin
<1> QED BY <1>1, <1>2, <1>3, NoChangeStep DEF Quiet

LEMMA SyncStep ==
  ASSUME RegistriesInv, Sync, UNCHANGED registryVars
  PROVE  RegistriesInv'
<1>1. StoreInv' /\ subs' \subseteq Subs
  BY SyncOK DEF registryVars, RegistriesInv, SubsInv
<1>2. \A a \in subs' : Old(a)
  BY DEF registryVars, Old, ComesFrom, Akin
<1>3. \A p \in DOMAIN objects : Retained(p)
  BY DEF registryVars, Retained, Akin
<1>4. entries' = entries
  BY DEF Sync
<1> QED BY <1>1, <1>2, <1>3, <1>4, NoChangeStep DEF registryVars

LEMMA RestartStep ==
  ASSUME RegistriesInv, RegistryRestart, StoreRestart
  PROVE  RegistriesInv'
<1>1. /\ objects' = <<>> /\ subs' = {} /\ holes' = {} /\ UNCHANGED <<backend, cluster>>
      /\ DOMAIN entries' = {} /\ DOMAIN synced' = {}
  BY DEF RegistryRestart, StoreRestart, Nothing
<1>2. ServersInv'
  BY <1>1, ServersStep DEF RegistriesInv
<1>3. ObjectsInv' /\ OneRuns' /\ SubsInv' /\ WatchedInv' /\ OwnedInv'
  BY <1>1 DEF ObjectsInv, OneRuns, SubsInv, WatchedInv, OwnedInv
<1>4. StoreInv'
  BY <1>1 DEF RegistriesInv, StoreInv, StoreOK, ObjectsKnown
<1> QED BY <1>2, <1>3, <1>4 DEF RegistriesInv

(* The servers change, and keep what has been had.                         *)
LEMMA ServersChange ==
  ASSUME ServersInv, NEW c \in Configs, NEW s \in Services, ServerChange(c, s)
  PROVE  /\ ServersInv' /\ Configs' = Configs
         /\ \A d \in Configs, t \in Services :
              backend[d][t].latest <= backend'[d][t].latest
<1>1. PICK new : /\ backend' = [backend EXCEPT ![c][s] = new]
                 /\ \/ new = Server(TRUE, backend[c][s].latest + 1, backend[c][s].latest + 1,
                                    backend[c][s].tag)
                    \/ new = Server(FALSE, 0, backend[c][s].latest, backend[c][s].tag)
                    \/ \E t \in Tags(s) :
                         new = Server(TRUE, backend[c][s].hosts, backend[c][s].latest, t)
                    \/ new = Server(TRUE, 0, backend[c][s].latest, backend[c][s].tag)
  BY DEF ServerChange
<1>2. PICK b : b = backend[c][s]
  OBVIOUS
<1>3. /\ b \in Service /\ <<b.tag, s>> \in Keys /\ b.hosts <= b.latest
      /\ b.hosts \in Nat /\ b.latest \in Nat
  BY <1>2 DEF ServersInv, Service, KeyOf
<1>4. \A t \in Tags(s) : t \in {k[1] : k \in Keys} /\ <<t, s>> \in Keys
  BY DEF Tags
<1>5. /\ new \in Service /\ <<new.tag, s>> \in Keys /\ new.hosts <= new.latest
      /\ b.latest <= new.latest
  <2>1. /\ b.tag \in {k[1] : k \in Keys} /\ b.latest + 1 \in Nat /\ b.latest <= b.latest + 1
        /\ 0 <= b.latest
    BY <1>3 DEF Service
  <2>2. CASE new = Server(TRUE, b.latest + 1, b.latest + 1, b.tag)
    BY <1>3, <2>1, <2>2 DEF Server, Service
  <2>3. CASE new = Server(FALSE, 0, b.latest, b.tag)
    BY <1>3, <2>1, <2>3 DEF Server, Service
  <2>4. ASSUME NEW t \in Tags(s), new = Server(TRUE, b.hosts, b.latest, t)
        PROVE  /\ new \in Service /\ <<new.tag, s>> \in Keys /\ new.hosts <= new.latest
               /\ b.latest <= new.latest
    BY <1>3, <1>4, <2>4 DEF Server, Service
  <2>5. CASE new = Server(TRUE, 0, b.latest, b.tag)
    BY <1>3, <2>1, <2>5 DEF Server, Service
  <2> QED BY <1>1, <1>2, <2>2, <2>3, <2>4, <2>5
<1>6. /\ backend' \in [Configs -> [Services -> Service]] /\ backend'[c][s] = new
      /\ \A d \in Configs, t \in Services :
           d # c \/ t # s => backend'[d][t] = backend[d][t]
  BY <1>1, <1>5 DEF ServersInv
<1>7. Configs' = Configs
  BY <1>6 DEF Configs
<1>8. \A d \in Configs, t \in Services :
        /\ backend[d][t].latest \in Nat
        /\ KeyOf(d, t) \in Keys /\ backend[d][t].hosts <= backend[d][t].latest
  BY DEF ServersInv, Service
<1>9. ASSUME NEW d \in Configs, NEW t \in Services
      PROVE  /\ <<backend'[d][t].tag, t>> \in Keys
             /\ backend'[d][t].hosts <= backend'[d][t].latest
             /\ backend[d][t].latest <= backend'[d][t].latest
  <2>1. CASE d = c /\ t = s
    BY <1>2, <1>5, <1>6, <2>1
  <2>2. CASE d # c \/ t # s
    BY <1>6, <1>8, <2>2 DEF KeyOf
  <2> QED BY <2>1, <2>2
<1>10. ServersInv'
  BY <1>6, <1>7, <1>9 DEF ServersInv, KeyOf, Service
<1> QED BY <1>7, <1>9, <1>10

LEMMA ServerChangeStep ==
  ASSUME RegistriesInv, NEW c \in Configs, NEW s \in Services, ServerChange(c, s),
         UNCHANGED <<objects, subs, holes, entries, synced, cluster>>
  PROVE  RegistriesInv'
<1>1. /\ ServersInv' /\ Configs' = Configs
      /\ \A d \in Configs, t \in Services : backend[d][t].latest <= backend'[d][t].latest
  BY ServersChange DEF RegistriesInv
<1>2. ObjectsInv' /\ OneRuns' /\ WatchedInv' /\ OwnedInv' /\ StoreInv'
  <2>1. Objects' = Objects
    BY <1>1 DEF Objects, NacosObjects, ConsulObjects
  <2>2. ObjectsInv'
    BY <2>1 DEF RegistriesInv, ObjectsInv, ObjectOK, Distinct
  <2>3. OneRuns' /\ StoreInv'
    BY DEF RegistriesInv, OneRuns, StoreInv
  <2>4. \A o \in DOMAIN objects : WatchedOf(o) => WatchedOf(o)'
    BY DEF WatchedOf, Subscribed, Names
  <2>5. \A o \in DOMAIN objects, h \in DOMAIN entries : Owns(o, h) => Owns(o, h)'
    BY DEF Owns, HostsOf, Kept
  <2> QED BY <2>2, <2>3, <2>4, <2>5 DEF RegistriesInv, WatchedInv, OwnedInv, Watchable, Ownable
<1>3. SubsInv'
  <2>1. Subs' = Subs
    BY <1>1 DEF Subs
  <2>2. ASSUME NEW sub \in subs PROVE SubOK(sub)'
    <3>1. /\ SubOK(sub) /\ sub.config \in Configs /\ Name(sub.service) \in Services
          /\ sub.updating \in Nat
      BY KeysAssumption DEF RegistriesInv, SubsInv, Subs, Name
    <3>2. /\ backend[sub.config][Name(sub.service)].latest \in Nat
          /\ backend'[sub.config][Name(sub.service)].latest \in Nat
      BY <1>1, <3>1 DEF RegistriesInv, ServersInv, Service
    <3>3. HasHad(sub) => HasHad(sub)'
      BY <1>1, <3>1, <3>2 DEF HasHad, Least, IsConsul
    <3> QED BY <3>1, <3>3 DEF SubOK, NoList
  <2> QED BY <2>1, <2>2 DEF RegistriesInv, SubsInv
<1> QED BY <1>1, <1>2, <1>3 DEF RegistriesInv

-----------------------------------------------------------------------------
(* The steps of the controller, as the registries see them.                *)
LEMMA QuietEnough ==
  ASSUME UNCHANGED <<registryVars, entries, synced, cluster>>
  PROVE  Quiet
BY DEF Quiet, registryVars

LEMMA StartRegistryStep ==
  ASSUME RegistriesInv, UNCHANGED backend, NEW r \in Registries, Running(r) = {},
         NEW c \in Configs, NEW f, StartRegistry(r, c, f)
  PROVE  RegistriesInv'
BY StartStep, ConsulStartStep DEF StartRegistry

LEMMA DeleteRegistryStep ==
  ASSUME RegistriesInv, UNCHANGED backend, NEW r, NEW f, DeleteRegistry(r, f)
  PROVE  RegistriesInv'
<1>1. CASE Running(r) = {}
  BY <1>1, QuietStep DEF DeleteRegistry, Quiet
<1>2. CASE Running(r) # {}
  <2>1. PICK o \in Running(r) :
          IF IsConsul(objects[o].config) THEN ConsulStop(o, f) ELSE Stop(o, f)
    BY <1>2 DEF DeleteRegistry
  <2>2. o \in DOMAIN objects
    BY DEF Running
  <2> QED BY <2>1, <2>2, StopStep, ConsulStopStep
<1> QED BY <1>1, <1>2

LEMMA UpdateRegistryStep ==
  ASSUME RegistriesInv, UNCHANGED backend, NEW r \in Registries,
         resources[r].config \in Configs, NEW f, UpdateRegistry(r, f)
  PROVE  RegistriesInv'
<1>1. PICK c \in Configs : c = resources[r].config
  OBVIOUS
<1>2. CASE Unchanged(r)
  <2>1. PICK extra : Made(f, extra)
    BY <1>2 DEF UpdateRegistry
  <2>2. Quiet
    BY <1>2, <2>1, MadeHoles DEF UpdateRegistry, Quiet
  <2> QED BY <2>2, QuietStep
<1>3. CASE ~Unchanged(r) /\ Running(r) = {}
  <2>1. StartRegistry(r, c, f) \/ Unstarted(f)
    BY <1>1, <1>3 DEF UpdateRegistry
  <2>2. CASE Unstarted(f)
    BY <2>2, MadeHoles, QuietStep DEF Unstarted, Quiet
  <2> QED BY <1>3, <2>1, <2>2, StartRegistryStep
<1>4. CASE ~Unchanged(r) /\ Running(r) # {}
  <2>1. PICK o \in Running(r) :
          IF IsConsul(c) THEN ConsulReload(o, c, f) \/ ConsulUnloaded(f)
          ELSE Reload(o, c, f) \/ (Failed(f) /\ Unloaded(o, c, f))
    BY <1>1, <1>4 DEF UpdateRegistry
  <2>2. o \in DOMAIN objects
    BY DEF Running
  <2>3. IsConsul(objects[o].config) <=> IsConsul(c)
    BY <2>2, Kinds, ObjectFields DEF RegistriesInv
  <2>4. CASE ConsulUnloaded(f)
    BY <2>4, MadeHoles, QuietStep DEF ConsulUnloaded, Quiet
  <2> QED BY <2>1, <2>2, <2>3, <2>4, ReloadStep, UnloadedStep, ConsulReloadStep
<1> QED BY <1>2, <1>3, <1>4

LEMMA HandleStep ==
  ASSUME IInv, Handle
  PROVE  RegistriesInv'
<1>1. PICK r \in todo : Forget(r) \/ Keep(r)
  BY DEF Handle
<1>2. RegistriesInv /\ r \in Registries /\ UNCHANGED backend
  BY <1>1 DEF IInv, ControllerInv, Forget, Keep
<1>3. CASE Forget(r)
  <2>1. PICK f : DeleteRegistry(r, f)
    BY <1>3 DEF Forget
  <2> QED BY <1>2, <2>1, DeleteRegistryStep
<1>4. CASE Keep(r)
  <2>1. PICK f : UpdateRegistry(r, f)
    BY <1>4 DEF Keep
  <2>2. resources[r].config \in Configs
    BY <1>4 DEF Keep, IInv, ControllerInv, Resource
  <2> QED BY <1>2, <2>1, <2>2, UpdateRegistryStep
<1> QED BY <1>1, <1>3, <1>4

LEMMA ReconcileStep ==
  ASSUME IInv, Reconcile
  PROVE  RegistriesInv'
<1>1. CASE Begin \/ List \/ GetFails \/ WriteStatus \/ WriteFails
  <2>1. UNCHANGED <<registryVars, entries, synced, cluster>>
    BY <1>1 DEF Begin, List, GetFails, WriteStatus, WriteFails, storeVars
  <2> QED BY <2>1, QuietEnough, QuietStep DEF IInv
<1> QED BY <1>1, HandleStep DEF Reconcile

LEMMA CallbackStep ==
  ASSUME RegistriesInv, NEW s \in Services, Callback(s)
  PROVE  RegistriesInv'
BY ReportStep, UpdateServiceStep DEF Callback

LEMMA RefreshesStep ==
  ASSUME RegistriesInv, Refreshes
  PROVE  RegistriesInv'
<1>1. PICK o \in DOMAIN objects :
        IF IsConsul(objects[o].config) THEN ConsulRefresh(o) ELSE Refresh(o)
  BY DEF Refreshes, RefreshOf
<1> QED BY <1>1, RefreshStep, ConsulSubscribeStep, ConsulSwapStep DEF ConsulRefresh

LEMMA EditStep ==
  ASSUME RegistriesInv, NEW new, Edit(new)
  PROVE  RegistriesInv'
BY QuietEnough, QuietStep DEF Edit

LEMMA RegistriesStep ==
  ASSUME IInv, [Next]_vars
  PROVE  RegistriesInv'
<1>1. RegistriesInv
  BY DEF IInv
<1>2. ASSUME NEW r \in Registries, NEW c \in Configs, Create(r, c) \/ Change(r, c)
      PROVE  RegistriesInv'
  BY <1>1, <1>2, EditStep DEF Create, Change
<1>3. ASSUME NEW r \in Registries, Withdraw(r) PROVE RegistriesInv'
  BY <1>1, <1>3, EditStep DEF Withdraw
<1>4. CASE Internal
  BY <1>1, <1>4, ReconcileStep, CallbackStep, SyncStep DEF Internal
<1>5. CASE Refreshes
  BY <1>1, <1>5, RefreshesStep
<1>6. ASSUME NEW o \in DOMAIN objects, StopRefreshing(o) PROVE RegistriesInv'
  BY <1>1, <1>6, StopRefreshingStep
<1>7. ASSUME NEW sub \in subs, ReportEmpty(sub) PROVE RegistriesInv'
  BY <1>1, <1>7, ReportEmptyStep
<1>8. ASSUME NEW c \in Configs, NEW s \in Services, ServerChange(c, s),
             UNCHANGED <<objects, subs, holes, entries, synced, cluster>>
      PROVE  RegistriesInv'
  BY <1>1, <1>8, ServerChangeStep
<1>9. CASE Restart
  BY <1>1, <1>9, RestartStep DEF Restart
<1>10. CASE UNCHANGED vars
  BY <1>1, <1>10, QuietEnough, QuietStep DEF vars, storeVars
<1> QED BY <1>2, <1>3, <1>4, <1>5, <1>6, <1>7, <1>8, <1>9, <1>10 DEF Next

-----------------------------------------------------------------------------
(* The controller's own state.                                             *)
LEMMA CountNat ==
  ASSUME events \in Nat, NEW f, Count(f)
  PROVE  events' \in Nat
BY DEF Count, counters

LEMMA EventNat ==
  ASSUME events \in Nat, Event
  PROVE  events' \in Nat
BY DEF Event

LEMMA FailureNat ==
  ASSUME events \in Nat, Failure
  PROVE  events' \in Nat
BY DEF Failure

LEMMA ControllerRests ==
  ASSUME ControllerInv, UNCHANGED controllerVars, events' \in Nat, Configs' = Configs
  PROVE  ControllerInv'
BY DEF ControllerInv, controllerVars, Resource, Write, NoWrite

(* A request in progress has no more written than a status.                *)
LEMMA ControllerMoves ==
  ASSUME ControllerInv, UNCHANGED <<resources, backend>>, events' \in Nat,
         DOMAIN previous' \subseteq Registries,
         phase' \in {"idle", "known", "new"}, todo' \subseteq Registries,
         phase' = "idle" => todo' = {} /\ written' = NoWrite,
         written' = NoWrite \/ written' \in Write
  PROVE  ControllerInv'
BY DEF ControllerInv, Resource, Write, NoWrite, Configs

LEMMA EditController ==
  ASSUME ControllerInv, NEW new, Edit(new), DOMAIN new \subseteq Registries,
         new \in [DOMAIN new -> Resource]
  PROVE  ControllerInv'
<1>1. events' \in Nat
  BY EventNat DEF Edit, ControllerInv
<1>2. Configs' = Configs
  BY DEF Edit, registryVars, Configs
<1> QED BY <1>1, <1>2 DEF ControllerInv, Edit, Resource, Write, NoWrite

LEMMA CreateController ==
  ASSUME ControllerInv, NEW r \in Registries, NEW c \in Configs, Create(r, c)
  PROVE  ControllerInv'
<1>1. PICK x : x = [uid |-> events + 1, gen |-> 1, config |-> c, status |-> NoStatus]
  OBVIOUS
<1>2. x \in Resource
  BY <1>1 DEF Resource, NoStatus, ControllerInv
<1>3. PICK new : new = With(resources, r, x)
  OBVIOUS
<1>4. DOMAIN new \subseteq Registries /\ new \in [DOMAIN new -> Resource]
  BY <1>2, <1>3 DEF With, ControllerInv
<1>5. Edit(new)
  BY <1>1, <1>3 DEF Create
<1> QED BY <1>4, <1>5, EditController

LEMMA ChangeController ==
  ASSUME ControllerInv, NEW r \in Registries, NEW c \in Configs, Change(r, c)
  PROVE  ControllerInv'
<1>1. PICK x : x = resources[r]
  OBVIOUS
<1>2. r \in DOMAIN resources /\ x \in Resource
  BY <1>1 DEF Change, ControllerInv
<1>3. PICK y : y = [x EXCEPT !.gen = @ + 1, !.config = c]
  OBVIOUS
<1>4. PICK n \in Nat : n = x.gen + 1
  BY <1>2 DEF Resource
<1>5. y = [x EXCEPT !.gen = n, !.config = c]
  BY <1>2, <1>3, <1>4 DEF Resource
<1>6. y \in Resource
  BY <1>2, <1>5 DEF Resource
<1>7. PICK new : new = [resources EXCEPT ![r].gen = @ + 1, ![r].config = c]
  OBVIOUS
<1>8. new = [resources EXCEPT ![r] = y]
  BY <1>1, <1>2, <1>3, <1>7 DEF Resource, ControllerInv
<1>9. DOMAIN new \subseteq Registries /\ new \in [DOMAIN new -> Resource]
  BY <1>2, <1>6, <1>8 DEF ControllerInv
<1>10. Edit(new)
  BY <1>7 DEF Change
<1> QED BY <1>9, <1>10, EditController

LEMMA WithdrawController ==
  ASSUME ControllerInv, NEW r \in Registries, Withdraw(r)
  PROVE  ControllerInv'
<1>1. PICK new : new = Without(resources, {r})
  OBVIOUS
<1>2. DOMAIN new \subseteq Registries /\ new \in [DOMAIN new -> Resource]
  BY <1>1 DEF Without, ControllerInv
<1> QED BY <1>1, <1>2, EditController DEF Withdraw

LEMMA ForgetController ==
  ASSUME ControllerInv, NEW r \in todo, written = NoWrite, phase # "idle", Forget(r)
  PROVE  ControllerInv'
<1>1. PICK f : Count(f)
  BY DEF Forget
<1>2. events' \in Nat
  BY <1>1, CountNat DEF ControllerInv
<1>3. DOMAIN previous' \subseteq Registries /\ todo' \subseteq Registries
  BY DEF Forget, Without, ControllerInv
<1>4. /\ phase' \in {"idle", "known", "new"}
      /\ phase' = "idle" => todo' = {} /\ written' = NoWrite
  BY DEF Forget, Proceed, ControllerInv
<1> QED BY <1>2, <1>3, <1>4, ControllerMoves DEF Forget

LEMMA KeepController ==
  ASSUME ControllerInv, NEW r \in todo, written = NoWrite, phase # "idle", Keep(r)
  PROVE  ControllerInv'
<1>1. r \in Registries /\ resources[r] \in Resource
  BY DEF Keep, ControllerInv
<1>2. PICK f : /\ Count(f)
               /\ \/ written' = NoWrite
                  \/ written' = [name |-> r, uid |-> resources[r].uid, status |->
                                   [reason |-> IF Failed(f) THEN "Invalid" ELSE "Accepted",
                                    gen |-> resources[r].gen]]
  BY DEF Keep
<1>3. events' \in Nat
  BY <1>2, CountNat DEF ControllerInv
<1>4. written' = NoWrite \/ written' \in Write
  BY <1>1, <1>2 DEF Write, Resource
<1>5. DOMAIN previous' \subseteq Registries /\ todo' \subseteq Registries
  BY <1>1 DEF Keep, With, ControllerInv
<1>6. /\ phase' \in {"idle", "known", "new"}
      /\ phase' = "idle" => todo' = {} /\ written' = NoWrite
  BY DEF Keep, Proceed, ControllerInv
<1> QED BY <1>3, <1>4, <1>5, <1>6, ControllerMoves DEF Keep

LEMMA WriteStatusController ==
  ASSUME ControllerInv, WriteStatus
  PROVE  ControllerInv'
<1>1. PICK r : r = written.name
  OBVIOUS
<1>2. written \in Write /\ r \in Registries /\ written.status.reason \in {"Invalid", "Accepted"}
  BY <1>1 DEF WriteStatus, ControllerInv, Write
<1>3. PICK status : status = written.status
  OBVIOUS
<1>4. status \in [reason : {"none", "Invalid", "Accepted"}, gen : Nat]
  BY <1>2, <1>3 DEF Write
<1>5. r \in DOMAIN resources => [resources[r] EXCEPT !.status = status] \in Resource
  BY <1>4 DEF ControllerInv, Resource
<1>6. resources' = [resources EXCEPT ![r].status = status]
  BY <1>1, <1>3 DEF WriteStatus
<1>7. DOMAIN resources' = DOMAIN resources /\ resources' \in [DOMAIN resources' -> Resource]
  BY <1>5, <1>6 DEF ControllerInv
<1>8. Configs' = Configs /\ events' = events
  BY DEF WriteStatus, registryVars, storeVars, counters, Configs
<1>9. /\ phase' \in {"idle", "known", "new"}
      /\ phase' = "idle" => todo' = {}
  BY DEF WriteStatus, Proceed, ControllerInv
<1>10. written' = NoWrite /\ UNCHANGED <<previous, todo>>
  BY DEF WriteStatus
<1>11. Resource' = Resource
  BY <1>8 DEF Resource
<1> QED BY <1>7, <1>8, <1>9, <1>10, <1>11 DEF ControllerInv

LEMMA ReconcileController ==
  ASSUME ControllerInv, Reconcile
  PROVE  ControllerInv'
<1>1. CASE Begin
  BY <1>1, ControllerMoves DEF Begin, ControllerInv, registryVars, storeVars, counters
<1>2. CASE List
  BY <1>2, ControllerMoves DEF List, Proceed, ControllerInv, registryVars, storeVars, counters
<1>3. CASE GetFails
  <2>1. events' \in Nat
    BY <1>3, FailureNat DEF GetFails, ControllerInv
  <2> QED BY <1>3, <2>1, ControllerMoves DEF GetFails, Abandon, ControllerInv, registryVars
<1>4. CASE Handle
  BY <1>4, ForgetController, KeepController DEF Handle
<1>5. CASE WriteStatus
  BY <1>5, WriteStatusController
<1>6. CASE WriteFails
  <2>1. events' \in Nat
    BY <1>6, FailureNat DEF WriteFails, ControllerInv, counters
  <2> QED BY <1>6, <2>1, ControllerMoves DEF WriteFails, Abandon, ControllerInv, registryVars
<1> QED BY <1>1, <1>2, <1>3, <1>4, <1>5, <1>6 DEF Reconcile

LEMMA ControllerStep ==
  ASSUME IInv, [Next]_vars
  PROVE  ControllerInv'
<1>1. ControllerInv /\ events \in Nat
  BY DEF IInv, ControllerInv
<1>2. ASSUME UNCHANGED controllerVars, events' \in Nat, UNCHANGED backend
      PROVE  ControllerInv'
  BY <1>1, <1>2, ControllerRests DEF Configs
<1>3. ASSUME NEW r \in Registries, NEW c \in Configs, Create(r, c) \/ Change(r, c)
      PROVE  ControllerInv'
  BY <1>1, <1>3, CreateController, ChangeController
<1>4. ASSUME NEW r \in Registries, Withdraw(r) PROVE ControllerInv'
  BY <1>1, <1>4, WithdrawController
<1>5. ASSUME NEW s \in Services, Callback(s), UNCHANGED controllerVars PROVE ControllerInv'
  <2>1. PICK sub \in subs : Report(sub) \/ UpdateService(sub)
    BY <1>5 DEF Callback
  <2>2. CASE Report(sub)
    BY <1>1, <1>2, <1>5, <2>2 DEF Report, storeVars, counters
  <2>3. CASE UpdateService(sub)
    BY <1>1, <1>2, <1>5, <2>3, CountNat DEF UpdateService
  <2> QED BY <2>1, <2>2, <2>3
<1>6. CASE Sync /\ UNCHANGED <<registryVars, controllerVars>>
  BY <1>1, <1>2, <1>6, CountNat DEF Sync, registryVars
<1>7. CASE Refreshes
  <2>1. PICK o \in DOMAIN objects : ConsulSubscribe(o) \/ ConsulSwap(o) \/ Refresh(o)
    BY <1>7 DEF Refreshes, RefreshOf, ConsulRefresh
  <2>2. UNCHANGED controllerVars
    BY <1>7 DEF Refreshes
  <2>3. CASE ConsulSubscribe(o) \/ ConsulSwap(o)
    BY <1>1, <1>2, <2>2, <2>3 DEF ConsulSubscribe, ConsulSwap, storeVars, counters
  <2>4. CASE Refresh(o)
    <3>1. PICK f : Count(f)
      BY <2>4 DEF Refresh
    <3> QED BY <1>1, <1>2, <2>2, <2>4, <3>1, CountNat DEF Refresh
  <2> QED BY <2>1, <2>3, <2>4
<1>8. ASSUME NEW o \in DOMAIN objects, StopRefreshing(o), UNCHANGED controllerVars
      PROVE  ControllerInv'
  BY <1>1, <1>2, <1>8 DEF StopRefreshing, storeVars, counters
<1>9. ASSUME NEW sub \in subs, ReportEmpty(sub), UNCHANGED controllerVars PROVE ControllerInv'
  BY <1>1, <1>2, <1>9, CountNat DEF ReportEmpty
<1>10. ASSUME NEW c \in Configs, NEW s \in Services, ServerChange(c, s), UNCHANGED controllerVars
       PROVE  ControllerInv'
  BY <1>1, <1>10, ServersChange, EventNat, ControllerRests DEF ServerChange, IInv, RegistriesInv
<1>11. CASE Restart
  BY <1>1, <1>11, ControllerMoves, EventNat
     DEF Restart, RegistryRestart, ControllerInv, Nothing
<1>12. CASE UNCHANGED vars
  BY <1>1, <1>2, <1>12 DEF vars, registryVars, storeVars, counters
<1> QED BY <1>1, <1>3, <1>4, <1>5, <1>6, <1>7, <1>8, <1>9, <1>10, <1>11, <1>12,
           ReconcileController DEF Next, Internal

-----------------------------------------------------------------------------
LEMMA InitServers ==
  ASSUME RegistryInit
  PROVE  /\ ServersInv
         /\ \A c \in Configs, s \in Services : backend[c][s].latest <= 1
<1>1. PICK world \in Worlds :
        backend = [c \in world |-> [s \in Services |->
                    IF \E t \in Tags(s) : <<c, s, t>> \in Registered
                    THEN Server(TRUE, 1, 1, CHOOSE t \in Tags(s) : <<c, s, t>> \in Registered)
                    ELSE Server(FALSE, 0, 0, NoTag)]]
  BY DEF RegistryInit
<1>2. Configs = world
  BY <1>1 DEF Configs
<1>3. ASSUME NEW c \in world, NEW s \in Services
      PROVE  /\ backend[c][s] \in Service /\ <<backend[c][s].tag, s>> \in Keys
             /\ backend[c][s].hosts <= backend[c][s].latest /\ backend[c][s].latest <= 1
  <2>1. CASE \E t \in Tags(s) : <<c, s, t>> \in Registered
    <3>1. PICK t \in Tags(s) : t = CHOOSE u \in Tags(s) : <<c, s, u>> \in Registered
      BY <2>1
    <3>2. t \in {k[1] : k \in Keys} /\ <<t, s>> \in Keys
      BY DEF Tags
    <3>3. backend[c][s] = Server(TRUE, 1, 1, t)
      BY <1>1, <2>1, <3>1
    <3> QED BY <3>2, <3>3 DEF Server, Service
  <2>2. CASE ~\E t \in Tags(s) : <<c, s, t>> \in Registered
    <3>1. <<NoTag, s>> \in Keys
      BY KeysAssumption
    <3>2. NoTag \in {k[1] : k \in Keys}
      BY <3>1
    <3>3. backend[c][s] = Server(FALSE, 0, 0, NoTag)
      BY <1>1, <2>2
    <3> QED BY <3>1, <3>2, <3>3 DEF Server, Service
  <2> QED BY <2>1, <2>2
<1>4. backend \in [world -> [Services -> Service]]
  <2>1. DOMAIN backend = world /\ \A c \in world : DOMAIN backend[c] = Services
    BY <1>1
  <2>2. \A c \in world : backend[c] = [s \in Services |-> backend[c][s]]
    BY <1>1
  <2>3. \A c \in world : backend[c] \in [Services -> Service]
    BY <1>3, <2>2
  <2> QED BY <1>1, <2>1, <2>3
<1> QED BY <1>2, <1>3, <1>4 DEF ServersInv, KeyOf

LEMMA InitInv == Init => IInv
<1> SUFFICES ASSUME Init PROVE IInv
  OBVIOUS
<1>1. ServersInv
  BY InitServers DEF Init
<1>2. /\ objects = <<>> /\ subs = {} /\ DOMAIN entries = {}
      /\ DOMAIN synced = {} /\ DOMAIN cluster = {}
  BY DEF Init, RegistryInit, StoreInit, Nothing
<1>3. ObjectsInv /\ OneRuns /\ SubsInv /\ WatchedInv /\ OwnedInv
  BY <1>2 DEF ObjectsInv, OneRuns, SubsInv, WatchedInv, OwnedInv
<1>4. StoreInv
  BY <1>2 DEF StoreInv, StoreOK, ObjectsKnown
<1>5. events \in Nat
  <2>1. Budget(Configs) \in 0..MaxEvents
    BY <1>1, WorldsAssumption DEF ServersInv
  <2> QED BY <2>1, BoundAssumption DEF Init, RegistryInit, Configs
<1>6. ControllerInv
  BY <1>5 DEF ControllerInv, Init, Nothing
<1> QED BY <1>1, <1>3, <1>4, <1>6 DEF IInv, RegistriesInv

(* Of every behaviour: a subscription belongs to an object, and to its     *)
(* present configuration if it is of its present client; at most one       *)
(* object of a name runs; and the two invariants below hold.               *)
THEOREM Invariance == Spec => []IInv
<1>1. IInv /\ [Next]_vars => IInv'
  BY RegistriesStep, ControllerStep DEF IInv
<1> QED BY InitInv, <1>1, PTL DEF Spec

(* The store, the registries and the controller are typed, and at most one *)
(* registry of a name runs: what DeleteRegistry and UpdateRegistry find    *)
(* under the name is all there is to stop.                                 *)
THEOREM TypeCorrectness == Spec => []TypeOK
<1>1. ASSUME IInv PROVE TypeOK
  <2>1. /\ ControllerInv /\ OneRuns /\ SubsInv /\ StoreInv
    BY <1>1 DEF IInv, RegistriesInv
  <2>2. ASSUME NEW r \in Registries PROVE Cardinality(Running(r)) <= 1
    <3>1. CASE Running(r) = {}
      BY <3>1, FS_EmptySet
    <3>2. ASSUME NEW o \in Running(r) PROVE Cardinality(Running(r)) <= 1
      <4>1. Running(r) = {o}
        BY <2>1 DEF OneRuns, Running
      <4> QED BY <4>1, FS_Singleton
    <3> QED BY <3>1, <3>2
  <2>3. \A sub \in subs : sub.object \in DOMAIN objects /\ (sub.active \/ sub.updating # NoList)
    BY <2>1 DEF SubsInv, SubOK
  <2>4. /\ DOMAIN entries \subseteq Hosts /\ DOMAIN cluster \subseteq Hosts
        /\ \A h \in DOMAIN synced :
             h \in synced[h].peers /\ synced[h].peers \subseteq DOMAIN synced
    BY <2>1 DEF StoreInv, StoreOK, ObjectsKnown
  <2> QED BY <2>1, <2>2, <2>3, <2>4 DEF TypeOK, ControllerInv
<1> QED BY <1>1, Invariance, PTL

(* Whatever the servers have, whichever calls fail and however refreshes,  *)
(* callbacks, Reload and Stop of any number of registries interleave, what *)
(* a running registry watches has an active subscription of its present    *)
(* client (but for a failed subscription, a tag, or an overlap).           *)
THEOREM WatchedSubscribed == Spec => []WatchedIsSubscribed
<1>1. ASSUME IInv PROVE WatchedIsSubscribed
  <2> SUFFICES ASSUME Watchable, NEW r \in Registries, NEW o \in Running(r),
                      NEW s \in objects[o].watching
               PROVE  \E sub \in Of(o, objects[o].client, {s}) : sub.active
    BY DEF WatchedIsSubscribed, Watchable
  <2>1. WatchedOf(o) /\ ~objects[o].stopped
    BY <1>1 DEF IInv, RegistriesInv, WatchedInv, Running
  <2>2. Subscribed(o, s)
    BY <2>1 DEF WatchedOf
  <2> QED BY <2>2 DEF Subscribed, Of
<1> QED BY <1>1, Invariance, PTL

(* Whatever happens, an entry of the store is one that Stop of a running   *)
(* registry deletes, or will (but for a callback that is late, another     *)
(* namespace, a failed fetch, a tag, or an overlap).                       *)
THEOREM EntriesOwned == Spec => []EntriesAreOwned
<1>1. ASSUME IInv PROVE EntriesAreOwned
  <2> SUFFICES ASSUME Ownable, NEW h \in DOMAIN entries
               PROVE  \E r \in Registries : \E o \in Running(r) :
                        h \in HostsOf(o, objects[o].config, Kept(o))
    BY DEF EntriesAreOwned, Ownable
  <2>1. PICK o \in DOMAIN objects : Owns(o, h)
    BY <1>1 DEF IInv, RegistriesInv, OwnedInv
  <2>2. objects[o].name \in Registries
    BY <1>1, ObjectFields DEF IInv, RegistriesInv
  <2> QED BY <2>1, <2>2 DEF Owns, Running
<1> QED BY <1>1, Invariance, PTL

-----------------------------------------------------------------------------
(* What a step does to the store: nothing, a deletion for a cause, an      *)
(* update by a callback, a sync, or a restart.  A read that fails is noted *)
(* (Noted), and the servers change alone.                                  *)
Noted(f) == holes \subseteq holes' /\ (f[1] = "get" => "get" \in holes')
Caused(h) ==
  \/ \E o \in DOMAIN objects : objects'[o].client # objects[o].client
  \/ \E o \in DOMAIN objects : objects'[o].stopped # objects[o].stopped
  \/ \E sub \in subs : HostOf(sub) = h /\ HostsNow(sub) = 0
Rests == UNCHANGED <<backend, entries, synced, cluster>> /\ holes \subseteq holes'
Serves ==
  /\ \E c \in Configs, s \in Services : ServerChange(c, s)
  /\ UNCHANGED <<entries, cluster, synced, holes>>
Deletes ==
  /\ UNCHANGED backend
  /\ \E hosts, f : StoreDelete(hosts, f) /\ Noted(f) /\ \A h \in hosts : Caused(h)
Puts ==
  /\ UNCHANGED backend
  /\ \E sub \in subs : \E f :
       /\ sub.updating # NoList /\ Noted(f)
       /\ StoreUpdate(HostOf(sub), SpecOf(HostOf(sub), sub.config, sub.updating), f)
Syncs == Sync /\ UNCHANGED registryVars
Restarts == StoreRestart /\ RegistryRestart
StoreStep == Rests \/ Serves \/ Deletes \/ Puts \/ Syncs \/ Restarts

LEMMA HostInHosts ==
  ASSUME RegistriesInv, NEW sub \in subs
  PROVE  HostOf(sub) \in Hosts /\ sub.config \in Configs /\ sub.service \in Keys
<1>1. /\ sub.service \in Keys /\ sub.config \in Configs /\ sub.object \in DOMAIN objects
  BY DEF RegistriesInv, SubsInv, Subs, SubOK
<1>2. objects[sub.object].name \in Registries /\ sub.config \in UNION Worlds
  BY <1>1, ObjectFields, Kinds DEF RegistriesInv
<1> QED BY <1>1, <1>2, HostAssumption DEF HostOf

LEMMA MadeNoted ==
  ASSUME NEW f, NEW extra, Made(f, extra)
  PROVE  Noted(f)
BY MadeHoles DEF Noted

LEMMA ObjectRecords ==
  ASSUME ServersInv, ObjectsInv, NEW o \in DOMAIN objects, NEW reg, reg = objects[o]
  PROVE  /\ "stopped" \in DOMAIN reg /\ "client" \in DOMAIN reg
         /\ reg.client \in Nat
         /\ objects \in [1..Len(objects) -> Objects]
<1>1. reg \in Objects /\ reg.client \in Nat
  BY ObjectFields
<1>2. "stopped" \in DOMAIN reg /\ "client" \in DOMAIN reg
  BY <1>1 DEF Objects, NacosObjects, ConsulObjects
<1> QED BY <1>1, <1>2 DEF ObjectsInv

LEMMA StopsForCause ==
  ASSUME ServersInv, ObjectsInv, NEW o \in DOMAIN objects, ~objects[o].stopped,
         objects' = [objects EXCEPT ![o].stopped = TRUE]
  PROVE  \A h : Caused(h)
<1>1. PICK reg : reg = objects[o]
  OBVIOUS
<1>2. objects'[o].stopped = TRUE
  BY <1>1, ObjectRecords
<1> QED BY <1>2 DEF Caused

LEMMA DeleteRegistryStores ==
  ASSUME RegistriesInv, UNCHANGED backend, NEW r, NEW f, DeleteRegistry(r, f)
  PROVE  StoreStep
<1>1. CASE Running(r) = {}
  BY <1>1 DEF DeleteRegistry, StoreStep, Rests
<1>2. CASE Running(r) # {}
  <2>1. PICK o \in Running(r) :
          IF IsConsul(objects[o].config) THEN ConsulStop(o, f) ELSE Stop(o, f)
    BY <1>2 DEF DeleteRegistry
  <2>2. o \in DOMAIN objects /\ ~objects[o].stopped
    BY DEF Running
  <2>3. objects' = [objects EXCEPT ![o].stopped = TRUE]
    BY <2>1 DEF Stop, ConsulStop
  <2>4. \A h : Caused(h)
    BY <2>2, <2>3, StopsForCause DEF RegistriesInv
  <2>5. PICK extra : Made(f, extra)
    BY <2>1 DEF Stop, ConsulStop
  <2>6. Noted(f) /\ Noted(NoFault)
    BY <2>5, MadeNoted, MadeHoles DEF Noted, NoFault
  <2>7. \E hosts : StoreDelete(hosts, f) \/ StoreDelete(hosts, NoFault)
    BY <2>1 DEF Stop, ConsulStop
  <2> QED BY <2>4, <2>6, <2>7 DEF StoreStep, Deletes
<1> QED BY <1>1, <1>2

LEMMA ReloadStores ==
  ASSUME RegistriesInv, UNCHANGED backend, NEW o \in DOMAIN objects, NEW c, NEW f,
         Reload(o, c, f) \/ ConsulReload(o, c, f)
  PROVE  StoreStep
<1>1. PICK reg : reg = objects[o]
  OBVIOUS
<1>2. PICK fetched :
        objects' = [objects EXCEPT ![o].config = c, ![o].client = @ + 1,
                                   ![o].watching = fetched, ![o].soft = {}]
  BY DEF Reload, ConsulReload
<1>3. objects'[o].client = reg.client + 1
  BY <1>1, <1>2, ObjectRecords DEF RegistriesInv
<1>4. \A h : Caused(h)
  BY <1>1, <1>3, ObjectRecords DEF RegistriesInv, Caused
<1>5. PICK extra : Made(f, extra)
  BY DEF Reload, ConsulReload
<1>6. Noted(f) /\ Noted(NoFault)
  BY <1>5, MadeNoted, MadeHoles DEF Noted, NoFault
<1>7. \E hosts : StoreDelete(hosts, f) \/ StoreDelete(hosts, NoFault)
  BY DEF Reload, ConsulReload
<1> QED BY <1>4, <1>6, <1>7 DEF StoreStep, Deletes

LEMMA UpdateRegistryStores ==
  ASSUME RegistriesInv, UNCHANGED backend, NEW r, NEW f, UpdateRegistry(r, f)
  PROVE  StoreStep
<1>1. PICK c : c = resources[r].config
  OBVIOUS
<1>2. CASE UNCHANGED <<entries, synced, cluster>>
  <2>1. \E g, extra : Made(g, extra)
    BY DEF UpdateRegistry, StartRegistry, Start, ConsulStart, Unstarted, Reload, ConsulReload,
           Unloaded, ConsulUnloaded
  <2> QED BY <1>2, <2>1, MadeHoles DEF StoreStep, Rests
<1>3. ASSUME NEW o \in Running(r), Reload(o, c, f) \/ ConsulReload(o, c, f) PROVE StoreStep
  BY <1>3, ReloadStores DEF Running
<1> QED BY <1>1, <1>2, <1>3 DEF UpdateRegistry, StartRegistry, Unstarted, ConsulUnloaded, Unloaded

LEMMA CallbackStores ==
  ASSUME RegistriesInv, NEW s, Callback(s)
  PROVE  StoreStep
<1>1. PICK sub \in subs : Report(sub) \/ UpdateService(sub)
  BY DEF Callback
<1>2. CASE Report(sub)
  BY <1>2 DEF Report, storeVars, StoreStep, Rests
<1>3. CASE UpdateService(sub)
  <2>1. PICK f, extra : /\ StoreUpdate(HostOf(sub), SpecOf(HostOf(sub), sub.config, sub.updating), f)
                        /\ Made(f, extra)
    BY <1>3 DEF UpdateService
  <2>2. Noted(f)
    BY <2>1, MadeNoted
  <2> QED BY <1>3, <2>1, <2>2 DEF UpdateService, StoreStep, Puts
<1> QED BY <1>1, <1>2, <1>3

LEMMA ReportEmptyStores ==
  ASSUME NEW sub \in subs, ReportEmpty(sub)
  PROVE  StoreStep
<1>1. PICK f, extra : StoreDelete({HostOf(sub)}, f) /\ Made(f, extra)
  BY DEF ReportEmpty
<1>2. Noted(f) /\ \A h \in {HostOf(sub)} : Caused(h)
  BY <1>1, MadeNoted DEF Caused, ReportEmpty
<1> QED BY <1>1, <1>2 DEF ReportEmpty, StoreStep, Deletes

LEMMA HandleStores ==
  ASSUME IInv, Handle
  PROVE  StoreStep
<1>1. PICK r \in todo : Forget(r) \/ Keep(r)
  BY DEF Handle
<1>2. CASE Forget(r)
  BY <1>2, DeleteRegistryStores DEF Forget, IInv
<1>3. CASE Keep(r)
  <2>1. PICK f : UpdateRegistry(r, f)
    BY <1>3 DEF Keep
  <2> QED BY <1>3, <2>1, UpdateRegistryStores DEF Keep, IInv
<1> QED BY <1>1, <1>2, <1>3

LEMMA StepStores ==
  ASSUME IInv, [Next]_vars
  PROVE  StoreStep
<1>1. CASE UNCHANGED <<backend, entries, synced, cluster, holes>>
  BY <1>1 DEF StoreStep, Rests
<1>2. CASE Reconcile
  BY <1>1, <1>2, HandleStores
     DEF Reconcile, Begin, List, GetFails, WriteStatus, WriteFails, registryVars, storeVars
<1>3. CASE Internal
  BY <1>2, <1>3, CallbackStores DEF Internal, IInv, StoreStep, Syncs
<1>4. CASE Refreshes
  <2>1. PICK o \in DOMAIN objects : ConsulSubscribe(o) \/ ConsulSwap(o) \/ Refresh(o)
    BY <1>4 DEF Refreshes, RefreshOf, ConsulRefresh
  <2>2. UNCHANGED <<backend, entries, synced, cluster>>
    BY <2>1 DEF ConsulSubscribe, ConsulSwap, Refresh, storeVars
  <2>3. holes' = holes \/ \E f, extra : Made(f, extra)
    BY <2>1 DEF ConsulSubscribe, ConsulSwap, Refresh
  <2> QED BY <2>2, <2>3, MadeHoles DEF StoreStep, Rests
<1>5. ASSUME NEW r, NEW c, Create(r, c) \/ Change(r, c) \/ Withdraw(r) PROVE StoreStep
  BY <1>1, <1>5 DEF Create, Change, Withdraw, Edit, registryVars
<1>6. ASSUME NEW o, StopRefreshing(o) PROVE StoreStep
  BY <1>1, <1>6 DEF StopRefreshing, storeVars
<1>7. ASSUME NEW c \in Configs, NEW s \in Services, ServerChange(c, s),
             UNCHANGED <<objects, subs, holes, entries, synced, cluster>>
      PROVE  StoreStep
  BY <1>7 DEF StoreStep, Serves
<1>8. CASE Restart
  BY <1>8 DEF Restart, StoreStep, Restarts
<1>9. CASE UNCHANGED vars
  BY <1>1, <1>9 DEF vars, registryVars, storeVars
<1> QED BY <1>3, <1>4, <1>5, <1>6, <1>7, <1>8, <1>9, ReportEmptyStores DEF Next

(* An entry is deleted only by Stop, by Reload, by a restart, or when a    *)
(* Nacos service has no hosts: no list of services, complete or not, ever  *)
(* deletes one.                                                            *)
THEOREM DeletionsHaveCauses == Spec => DeletedForCause
<1> DEFINE A ==
      \A h \in DOMAIN entries \ DOMAIN entries' :
         \/ objects' = <<>>
         \/ \E o \in DOMAIN objects : objects'[o].client # objects[o].client
         \/ \E o \in DOMAIN objects : objects'[o].stopped # objects[o].stopped
         \/ \E sub \in subs : /\ HostOf(sub) = h
                              /\ HostsNow(sub) = 0
<1>1. IInv /\ [Next]_vars => [A]_vars
  <2> SUFFICES ASSUME IInv, [Next]_vars PROVE A
    OBVIOUS
  <2>1. StoreInv
    BY DEF IInv, RegistriesInv
  <2>2. CASE DOMAIN entries \subseteq DOMAIN entries'
    BY <2>2
  <2>3. CASE Deletes
    <3>1. PICK hosts, f : StoreDelete(hosts, f) /\ \A h \in hosts : Caused(h)
      BY <2>3 DEF Deletes
    <3>2. DOMAIN entries' = DOMAIN entries \ hosts
      BY <2>1, <3>1, StoreDeleteOK
    <3>3. \A h \in DOMAIN entries \ DOMAIN entries' : Caused(h)
      BY <3>1, <3>2
    <3> QED BY <3>3 DEF Caused
  <2>4. CASE Puts
    <3>1. PICK sub \in subs : \E f :
            StoreUpdate(HostOf(sub), SpecOf(HostOf(sub), sub.config, sub.updating), f)
      BY <2>4 DEF Puts
    <3>2. PICK h, spec : h = HostOf(sub) /\ spec = SpecOf(HostOf(sub), sub.config, sub.updating)
      OBVIOUS
    <3>3. PICK f : StoreUpdate(h, spec, f)
      BY <3>1, <3>2
    <3>4. h \in Hosts
      BY <3>2, HostInHosts DEF IInv
    <3> QED BY <2>1, <2>2, <3>3, <3>4, StoreUpdateOK
  <2> QED BY <2>2, <2>3, <2>4, StepStores
        DEF StoreStep, Rests, Serves, Syncs, Sync, Restarts, RegistryRestart
<1> QED BY <1>1, Invariance, PTL DEF Spec, DeletedForCause

-----------------------------------------------------------------------------
(* While no read has failed, the syncer holds an object of its own for     *)
(* each entry, with its specification.                                     *)
Mirrored == "get" \notin holes => Mirrors(synced, entries)
Follows == "get" \notin holes' => Becomes(cluster', entries')

LEMMA MirroredStep ==
  ASSUME IInv, Mirrored, StoreStep
  PROVE  Mirrored' /\ (Follows \/ Restarts)
<1>1. StoreInv /\ RegistriesInv
  BY DEF IInv, RegistriesInv
<1>2. CASE UNCHANGED <<entries, synced, cluster>> /\ holes \subseteq holes'
  <2>1. Becomes(cluster', entries')
    BY <1>2 DEF Becomes, Same
  <2>2. Mirrored'
    BY <1>2 DEF Mirrored, Mirrors, Own
  <2> QED BY <2>1, <2>2 DEF Follows
<1>3. CASE Deletes
  <2>1. PICK hosts, f : StoreDelete(hosts, f) /\ Noted(f)
    BY <1>3 DEF Deletes
  <2>2. CASE "get" \in holes'
    BY <2>2 DEF Mirrored, Follows
  <2>3. CASE "get" \notin holes'
    <3>1. f[1] # "get" /\ Mirrors(synced, entries)
      BY <2>1, <2>3 DEF Noted, Mirrored
    <3> QED BY <1>1, <2>1, <3>1, StoreDeleteMirrors DEF Mirrored, Follows
  <2> QED BY <2>2, <2>3
<1>4. CASE Puts
  <2>1. PICK sub \in subs : \E f :
          /\ Noted(f)
          /\ StoreUpdate(HostOf(sub), SpecOf(HostOf(sub), sub.config, sub.updating), f)
    BY <1>4 DEF Puts
  <2>2. PICK h, spec : h = HostOf(sub) /\ spec = SpecOf(HostOf(sub), sub.config, sub.updating)
    OBVIOUS
  <2>3. PICK f : Noted(f) /\ StoreUpdate(h, spec, f)
    BY <2>1, <2>2
  <2>4. h \in Hosts
    BY <1>1, <2>2, HostInHosts
  <2>5. CASE "get" \in holes'
    BY <2>5 DEF Mirrored, Follows
  <2>6. CASE "get" \notin holes'
    <3>1. f[1] # "get" /\ Mirrors(synced, entries)
      BY <2>3, <2>6 DEF Noted, Mirrored
    <3> QED BY <1>1, <2>3, <2>4, <3>1, StoreUpdateMirrors DEF Mirrored, Follows
  <2> QED BY <2>5, <2>6
<1>5. CASE Syncs
  <2>1. UNCHANGED holes /\ entries' = entries
    BY <1>5 DEF Syncs, Sync, registryVars
  <2>2. CASE "get" \notin holes
    <3>1. Mirrors(synced, entries)' /\ Becomes(cluster', entries)
      BY <1>1, <1>5, <2>2, SyncMirrors DEF Syncs, Mirrored
    <3> QED BY <2>1, <3>1 DEF Mirrored, Follows
  <2> QED BY <2>1, <2>2 DEF Mirrored, Follows
<1>6. CASE Restarts
  <2>1. DOMAIN entries' = {} /\ DOMAIN synced' = {}
    BY <1>6 DEF Restarts, StoreRestart, Nothing
  <2> QED BY <1>6, <2>1 DEF Mirrored, Mirrors
<1> QED BY <1>2, <1>3, <1>4, <1>5, <1>6 DEF StoreStep, Rests, Serves

LEMMA InitMirrored == Init => Mirrored
BY DEF Init, StoreInit, Nothing, Mirrored, Mirrors

-----------------------------------------------------------------------------
(* What has been offered.                                                  *)
Offers(h, e) ==
  \E c \in Configs, k \in Keys, r \in Registries :
    /\ Host(r, c, k) = h
    /\ \E n \in Least(c)..backend[c][Name(k)].latest : e = SpecOf(h, c, n)

LEMMA OfferedIs ==
  ServersInv => /\ Offered = [h \in Hosts |-> Offered[h]]
                /\ \A h \in Hosts : \A e : e \in Offered[h] <=> Offers(h, e)
<1> SUFFICES ASSUME ServersInv
             PROVE  /\ Offered = [h \in Hosts |-> Offered[h]]
                    /\ \A h \in Hosts : \A e : e \in Offered[h] <=> Offers(h, e)
  OBVIOUS
<1>1. Offered = [h \in Hosts |-> Offered[h]]
  BY DEF Offered
<1>2. ASSUME NEW h \in Hosts, NEW e PROVE e \in Offered[h] <=> Offers(h, e)
  <2>1. e \in Offered[h] <=>
          \E p \in Sources[Configs][h] :
            \E n \in Least(p[1])..backend[p[1]][Name(p[2])].latest : e = SpecOf(h, p[1], n)
    BY DEF Offered
  <2>2. Sources[Configs][h] = {p \in Configs \X Keys : \E r \in Registries : Host(r, p[1], p[2]) = h}
    BY DEF ServersInv, Sources
  <2>3. ASSUME e \in Offered[h] PROVE Offers(h, e)
    <3>1. PICK p \in Sources[Configs][h] :
            \E n \in Least(p[1])..backend[p[1]][Name(p[2])].latest : e = SpecOf(h, p[1], n)
      BY <2>1, <2>3
    <3>2. PICK c, k : c = p[1] /\ k = p[2]
      OBVIOUS
    <3>3. c \in Configs /\ k \in Keys /\ \E r \in Registries : Host(r, c, k) = h
      BY <2>2, <3>2
    <3> QED BY <3>1, <3>2, <3>3 DEF Offers
  <2>4. ASSUME Offers(h, e) PROVE e \in Offered[h]
    <3>1. PICK c \in Configs, k \in Keys, r \in Registries :
            /\ Host(r, c, k) = h
            /\ \E n \in Least(c)..backend[c][Name(k)].latest : e = SpecOf(h, c, n)
      BY <2>4 DEF Offers
    <3>2. PICK p : p = <<c, k>>
      OBVIOUS
    <3>3. p[1] = c /\ p[2] = k /\ p \in Sources[Configs][h]
      BY <2>2, <3>1, <3>2
    <3> QED BY <2>1, <3>1, <3>3
  <2> QED BY <2>3, <2>4
<1> QED BY <1>1, <1>2

LEMMA OfferedTyped ==
  ASSUME ServersInv, \A c \in Configs, s \in Services : backend[c][s].latest <= 1
  PROVE  Offered \in [Hosts -> SUBSET Entries]
<1>1. ASSUME NEW h \in Hosts, NEW e, Offers(h, e) PROVE e \in Entries
  <2>1. PICK c \in Configs, k \in Keys :
          \E n \in Least(c)..backend[c][Name(k)].latest : e = SpecOf(h, c, n)
    BY <1>1 DEF Offers
  <2>2. Name(k) \in Services /\ c \in UNION Worlds
    BY Kinds, KeysAssumption DEF Name
  <2>3. /\ backend[c][Name(k)].latest <= 1 /\ backend[c][Name(k)].latest \in Nat
        /\ Least(c) \in Nat
    BY <2>2 DEF ServersInv, Service, Least
  <2>4. PICK n \in 0..MaxEvents + 1 : e = SpecOf(h, c, n)
    BY <2>1, <2>3, BoundAssumption
  <2> QED BY <2>2, <2>4 DEF SpecOf, Entries
<1> QED BY <1>1, OfferedIs

LEMMA OfferedStays ==
  ASSUME UNCHANGED backend
  PROVE  Offered' = Offered
BY DEF Offered, Configs, SpecOf, Least

LEMMA OfferedGrows ==
  ASSUME IInv, Serves
  PROVE  \A h \in Hosts : Offered[h] \subseteq Offered'[h]
<1>1. ServersInv /\ ServersInv' /\ Configs' = Configs
      /\ \A d \in Configs, t \in Services : backend[d][t].latest <= backend'[d][t].latest
  BY ServersChange DEF Serves, IInv, RegistriesInv
<1>2. ASSUME NEW h \in Hosts, NEW e, Offers(h, e) PROVE Offers(h, e)'
  <2>1. PICK c \in Configs, k \in Keys, r \in Registries :
          /\ Host(r, c, k) = h
          /\ \E n \in Least(c)..backend[c][Name(k)].latest : e = SpecOf(h, c, n)
    BY <1>2 DEF Offers
  <2>2. Name(k) \in Services
    BY KeysAssumption DEF Name
  <2>3. backend[c][Name(k)].latest \in Nat /\ backend'[c][Name(k)].latest \in Nat
        /\ Least(c) \in Nat
    BY <1>1, <2>2 DEF ServersInv, Service, Least
  <2>4. PICK n \in Least(c)..backend'[c][Name(k)].latest : e = SpecOf(h, c, n)
    BY <1>1, <2>1, <2>2, <2>3
  <2> QED BY <1>1, <2>1, <2>4 DEF Offers, Least, IsConsul, SpecOf
<1>3. (ServersInv => /\ Offered = [h \in Hosts |-> Offered[h]]
                     /\ \A h \in Hosts : \A e : e \in Offered[h] <=> Offers(h, e))'
  BY OfferedIs, PTL
<1> QED BY <1>1, <1>2, <1>3, OfferedIs

(* What a callback puts in the store has been offered under its host.      *)
LEMMA PutsOffered ==
  ASSUME RegistriesInv, NEW sub \in subs, sub.updating # NoList
  PROVE  SpecOf(HostOf(sub), sub.config, sub.updating) \in Offered[HostOf(sub)]
<1>1. /\ HasHad(sub) /\ sub.object \in DOMAIN objects
  BY DEF RegistriesInv, SubsInv, SubOK
<1>2. objects[sub.object].name \in Registries
  BY <1>1, ObjectFields DEF RegistriesInv
<1>3. Offers(HostOf(sub), SpecOf(HostOf(sub), sub.config, sub.updating))
  BY <1>1, <1>2, HostInHosts DEF HasHad, HostOf, Offers
<1> QED BY <1>3, HostInHosts, OfferedIs DEF RegistriesInv

-----------------------------------------------------------------------------
LEMMA InitDirectory ==
  ASSUME Init
  PROVE  Directory!Init
<1>1. Offered \in [Hosts -> SUBSET Entries]
  BY InitServers, OfferedTyped DEF Init
<1> QED BY <1>1 DEF Directory!Init, Directory!Nothing, Init, StoreInit, RegistryInit, Nothing

LEMMA DirectoryStep ==
  ASSUME IInv, Mirrored, StoreStep
  PROVE  Directory!Next
<1>1. Mirrored' /\ (Follows \/ Restarts)
  BY MirroredStep
<1>2. CASE Serves
  BY <1>2, OfferedGrows DEF Directory!Next, Directory!Offer, Serves
<1>3. CASE Restarts
  <2>1. holes' = {} /\ entries' = Nothing /\ UNCHANGED <<backend, cluster>>
    BY <1>3 DEF Restarts, StoreRestart, RegistryRestart
  <2>2. Offered' = Offered
    BY <2>1, OfferedStays
  <2>3. entries' = Directory!Nothing
    BY <2>1 DEF Directory!Nothing, Nothing
  <2>4. ("get" \notin holes)' = TRUE
    BY <2>1
  <2>5. Directory!Restart
    BY <2>1, <2>2, <2>3, <2>4 DEF Directory!Restart
  <2> QED BY <2>5 DEF Directory!Next
<1>4. ASSUME UNCHANGED backend, holes \subseteq holes', Follows,
             \A h \in Hosts : \/ Directory!Same(entries, entries', h)
                              \/ h \notin DOMAIN entries'
                              \/ entries'[h] \in Offered[h]
      PROVE  Directory!Next
  <2>1. Offered' = Offered
    BY <1>4, OfferedStays
  <2>2. ASSUME NEW h \in Hosts, "get" \notin holes'
        PROVE  Directory!Same(cluster, cluster', h) \/ Directory!Same(cluster', entries', h)
    BY <1>4, <2>2 DEF Follows, Becomes, Same, Directory!Same
  <2>3. Directory!Publish
    BY <1>4, <2>1, <2>2 DEF Directory!Publish
  <2> QED BY <2>3 DEF Directory!Next
<1>5. StoreInv /\ RegistriesInv
  BY DEF IInv, RegistriesInv
<1>6. CASE Rests \/ Syncs
  <2>1. entries' = entries /\ UNCHANGED backend /\ holes \subseteq holes'
    BY <1>6 DEF Rests, Syncs, Sync, registryVars
  <2>2. \A h \in Hosts : Directory!Same(entries, entries', h)
    BY <2>1 DEF Directory!Same
  <2> QED BY <1>1, <1>3, <1>4, <2>1, <2>2
<1>7. CASE Deletes
  <2>1. PICK hosts, f : StoreDelete(hosts, f) /\ Noted(f)
    BY <1>7 DEF Deletes
  <2>2. \A h \in Hosts : Directory!Same(entries, entries', h) \/ h \notin DOMAIN entries'
    BY <1>5, <2>1, StoreDeleteOK DEF Directory!Same
  <2> QED BY <1>1, <1>3, <1>4, <1>7, <2>1, <2>2 DEF Deletes, Noted
<1>8. CASE Puts
  <2>1. PICK sub \in subs : \E f :
          /\ sub.updating # NoList /\ Noted(f)
          /\ StoreUpdate(HostOf(sub), SpecOf(HostOf(sub), sub.config, sub.updating), f)
    BY <1>8 DEF Puts
  <2>2. PICK h, spec : h = HostOf(sub) /\ spec = SpecOf(HostOf(sub), sub.config, sub.updating)
    OBVIOUS
  <2>3. PICK f : Noted(f) /\ StoreUpdate(h, spec, f)
    BY <2>1, <2>2
  <2>4. h \in Hosts /\ spec \in Offered[h]
    BY <1>5, <2>1, <2>2, HostInHosts, PutsOffered
  <2>5. \A g \in Hosts : Directory!Same(entries, entries', g) \/ entries'[g] \in Offered[g]
    BY <1>5, <2>3, <2>4, StoreUpdateOK DEF Directory!Same
  <2> QED BY <1>1, <1>3, <1>4, <1>8, <2>3, <2>5 DEF Puts, Noted
<1> QED BY <1>2, <1>3, <1>6, <1>7, <1>8 DEF StoreStep

(* The store and the cluster go through what a service directory goes      *)
(* through.  Only what a server has offered under a host is published      *)
(* under it; while no read of the cluster has failed, the cluster changes  *)
(* only to what the store holds by then, whatever writes fail; and a new   *)
(* controller starts from nothing.  (That the cluster catches up needs     *)
(* fairness and is left to the model checker.)                             *)
THEOREM DirectorySafety == Spec => Directory!Init /\ [][Directory!Next]_(Directory!vars)
<1>1. Init => IInv /\ Mirrored /\ Directory!Init
  BY InitInv, InitMirrored, InitDirectory
<1>2. IInv /\ Mirrored /\ [Next]_vars => IInv' /\ Mirrored' /\ [Directory!Next]_(Directory!vars)
  BY RegistriesStep, ControllerStep, StepStores, MirroredStep, DirectoryStep DEF IInv
<1> QED BY <1>1, <1>2, PTL DEF Spec
=============================================================================
