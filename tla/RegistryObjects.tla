-------------------------- MODULE RegistryObjects --------------------------
(***************************************************************************)
(* What the kinds of service registries have in common: the objects that   *)
(* the controller starts, stops and reloads, what they have subscribed,    *)
(* and the callbacks that put what a server has in the store.              *)
(*                                                                         *)
(* External: the servers and their SDKs, as the code uses them.  A         *)
(* subscription reports the latest hosts of a service, one list after the  *)
(* other and not necessarily each.                                         *)
(***************************************************************************)
EXTENDS ServiceEntryStore

CONSTANTS
  Registries,     \* the names of the ServiceRegistry resources
  Worlds,         \* sets of configurations, of which a behaviour has one
  Budget(_),      \* bound of the exploration: the events of each, up to MaxEvents
  ConsulConfigs,  \* the configurations of Consul registries; others are Nacos'
  Services,       \* the names of the services
  Keys,           \* what a registry watches: a tag (or a group) and a service
  NoTag,          \* the tag of a service without tags, or the only group
  Catalogue,      \* the services a configuration's server may ever have: pairs
  Registered,     \* those it has at first: triples, with a tag
  Host(_, _, _)   \* getServiceEntryKey of a registry, a configuration, a key

(* All servers of a behaviour are of one kind: a resource keeps its type.  *)
ASSUME WorldsAssumption ==
  \A world \in Worlds :
    /\ world \subseteq ConsulConfigs \/ world \intersect ConsulConfigs = {}
    /\ Budget(world) \in 0..MaxEvents
ASSUME KeysAssumption ==
  /\ \A k \in Keys : k = <<k[1], k[2]>> /\ k[2] \in Services
  /\ \A s \in Services : <<NoTag, s>> \in Keys
ASSUME HostAssumption ==
  \A r \in Registries, c \in UNION Worlds, k \in Keys : Host(r, c, k) \in Hosts

VARIABLES
  backend,   \* configuration -> service -> what the server has
  objects,   \* the registries created by this process, in order
  subs,      \* the subscriptions of all their clients
  holes      \* history: what has happened that the code does not make good

registryVars == <<backend, objects, subs, holes>>

(* The lists of hosts of a service are numbered; 0 is the empty one.       *)
Server(listed, hosts, latest, tag) ==
  [listed |-> listed, hosts |-> hosts, latest |-> latest, tag |-> tag]
NoList == MaxEvents + 2

(* A registry watches a service by name and the tag it had when listed.    *)
Name(k) == k[2]
Tags(s) == {t \in {k[1] : k \in Keys} : <<t, s>> \in Keys}
Names(keys) == {Name(k) : k \in keys}
KeyOf(c, s) == <<backend[c][s].tag, s>>
Listed(c) == {KeyOf(c, s) : s \in {t \in Services : backend[c][t].listed}}

Configs == DOMAIN backend
IsConsul(c) == c \in ConsulConfigs

(* generateServiceEntry: the host and the endpoints.                       *)
SpecOf(host, c, hosts) == [host |-> host, from |-> c, hosts |-> hosts]

RegistryInit ==
  /\ \E world \in Worlds :
       backend = [c \in world |-> [s \in Services |->
                   IF \E t \in Tags(s) : <<c, s, t>> \in Registered
                   THEN Server(TRUE, 1, 1, CHOOSE t \in Tags(s) : <<c, s, t>> \in Registered)
                   ELSE Server(FALSE, 0, 0, NoTag)]]
  /\ objects = <<>> /\ subs = {} /\ holes = {}
  /\ events = MaxEvents - Budget(DOMAIN backend)

Running(r) == {o \in DOMAIN objects : objects[o].name = r /\ ~objects[o].stopped}
Made(f, extra) ==
  holes' = holes \union extra
             \union IF f[1] \in {"get", "client", "fetch", "subscribe"} THEN {f[1]} ELSE {}

(* A service gets other hosts, loses them, is taken from the list, or gets *)
(* another tag.  Consul lists a service exactly while it has hosts.        *)
ServerChange(c, s) ==
  /\ <<c, s>> \in Catalogue /\ Event
  /\ LET b == backend[c][s]
         more == Server(TRUE, b.latest + 1, b.latest + 1, b.tag)
         gone == Server(FALSE, 0, b.latest, b.tag)
     IN \E new \in {more, gone} \union
                     IF IsConsul(c)
                     THEN {Server(TRUE, b.hosts, b.latest, t) : t \in Tags(s)}
                     ELSE {Server(TRUE, 0, b.latest, b.tag)} :
          /\ new # b /\ (b.listed \/ new = more)
          /\ backend' = [backend EXCEPT ![c][s] = new]

-----------------------------------------------------------------------------
(* A subscription: "held" if its registry can still find it, "seen" the    *)
(* list reported last, "updating" the one its callback is about to store.  *)
Subscriptions(o, n, c, keys) ==
  {[object |-> o, client |-> n, config |-> c, service |-> k, held |-> TRUE,
    seen |-> NoList, updating |-> NoList, active |-> TRUE] : k \in keys}
Of(o, n, keys) ==
  {sub \in subs : sub.object = o /\ sub.client = n /\ sub.service \in keys}

(* A subscription taken back reports no more, but the callback that is     *)
(* running runs on.                                                        *)
TakenBack(all, some) ==
  (all \ some)
    \union {[sub EXCEPT !.active = FALSE] : sub \in {t \in some : t.updating # NoList}}

HostOf(sub) == Host(objects[sub.object].name, sub.config, sub.service)
HostsOf(o, c, keys) == {Host(objects[o].name, c, k) : k \in keys}
HostsNow(sub) == backend[sub.config][Name(sub.service)].hosts

(* What Stop and Reload would find, and what a refresh has just found.     *)
Kept(o) == objects[o].watching \union objects[o].soft \union objects[o].next

(* The subscription is the one its registry relies on.                     *)
IsCurrent(sub) ==
  LET reg == objects[sub.object]
  IN /\ ~reg.stopped /\ sub.active /\ sub.client = reg.client
     /\ sub.service \in reg.watching \union reg.next

ClientFaults == Fails({"client", "fetch"}, {"server"})
ServiceFaults == Fails({"miss", "subscribe", "unsubscribe"}, Keys)
Failed(f) == f \in {"client", "fetch"} \X {"server"}

(* Start fails: no object is kept.                                         *)
Unstarted(f) == UNCHANGED <<objects, subs, entries, synced, cluster>> /\ Made(f, {})

(* The goroutine of refresh ends once done is closed.                      *)
Ended(reg) == [reg EXCEPT !.refreshing = "no", !.watching = {}, !.soft = {}, !.next = {}]
StopRefreshing(o) ==
  /\ objects[o].refreshing = "waits" /\ objects[o].stopped
  /\ objects' = [objects EXCEPT ![o] = Ended(@)]
  /\ UNCHANGED <<backend, subs, holes, storeVars>>

-----------------------------------------------------------------------------
(* The callback of a subscription: it tests "stopped", then updates the    *)
(* store.                                                                  *)
Report(sub) ==
  /\ sub.active /\ sub.updating = NoList /\ ~objects[sub.object].stopped
  /\ LET hosts == HostsNow(sub)
     IN /\ hosts # sub.seen /\ (hosts > 0 \/ IsConsul(sub.config))
        /\ subs' = (subs \ {sub})
                     \union {[sub EXCEPT !.seen = hosts, !.updating = hosts]}
  /\ UNCHANGED <<backend, objects, holes, storeVars>>

UpdateService(sub) ==
  /\ sub.updating # NoList
  /\ subs' = (subs \ {sub})
               \union IF sub.active THEN {[sub EXCEPT !.updating = NoList]} ELSE {}
  /\ \E f \in UpdateFaults({HostOf(sub)}) :
       /\ StoreUpdate(HostOf(sub), SpecOf(HostOf(sub), sub.config, sub.updating), f)
       /\ Made(f, IF IsCurrent(sub) \/ entries' = entries THEN {} ELSE {"stale"})
       /\ Count(f)
  /\ UNCHANGED <<backend, objects>>

Callback(s) ==
  \E sub \in subs : Name(sub.service) = s /\ (Report(sub) \/ UpdateService(sub))

RegistryRestart == objects' = <<>> /\ subs' = {} /\ holes' = {} /\ UNCHANGED backend
=============================================================================
