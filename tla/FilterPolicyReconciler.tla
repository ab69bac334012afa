----------------------- MODULE FilterPolicyReconciler -----------------------
(***************************************************************************)
(* The controller of filter policies (filterpolicy_controller.go) and what *)
(* it writes with (component/k8s.go), in a cluster whose users create,     *)
(* change and delete policies, routes and gateways.                        *)
(*                                                                         *)
(* The controller reads informers' copies, which lag behind the API server *)
(* (watch, efWatch).  It reconciles every policy at once, in steps that    *)
(* the informers and the users interleave with: list the policies, resolve *)
(* them one by one, add what is embedded in annotations, write the         *)
(* EnvoyFilters, write the statuses.  Each step may fail.                  *)
(*                                                                         *)
(* A resource is `valid` if ValidateFilterPolicy, ValidateVirtualService   *)
(* or ValidateGateway finds it so.  What changes a resource changes its    *)
(* generation or an annotation.  EmbeddedMode and GatewayAPI are enabled.  *)
(***************************************************************************)
EXTENDS PolicyTranslation

CONSTANTS
  Policies, Routes, Gateways,  \* the names of resources, all distinct
  Specs,       \* Specs[n]: the specifications that users may give n
  Clusters,    \* what there may be at first: the setting lds, specifications by
               \* name, and the bounds on the users' writes and on failures and restarts
  Absent

VARIABLES
  api,         \* the resources in the API server
  cache,       \* the informers' copy of them
  watch,       \* for each kind, the changes its informer has yet to see
  efs,         \* the EnvoyFilters in the API server
  efCache,     \* the informer's copy of them
  efWatch,     \* the changes it has yet to see
  lds,         \* EnableLDSPluginViaECDS
  queued,      \* a reconciliation is asked for
  phase,       \* "idle", "resolve", "output" or "status"
  items,       \* the policies listed, with their computed statuses
  at,          \* the next of them
  init,        \* the InitState
  gateways,    \* the gateways to be indexed
  routeIndex, gwIndex,  \* the resources whose changes matter
  holes,       \* history: what the code misses, until it makes it good
  fresh,       \* history: the reconciliation started with copies up to date
  writes, faults  \* those left

resources == <<api, cache, watch>>
outputs == <<efs, efCache, efWatch>>
work == <<items, at, init, gateways>>
indexes == <<routeIndex, gwIndex>>
vars == <<resources, outputs, work, indexes, lds, queued, phase, holes, fresh, writes, faults>>

Names == Policies \union Routes \union Gateways
Kinds == {"policy", "route", "gateway"}
KindOf(n) == CASE n \in Policies -> "policy" [] n \in Routes -> "route" [] n \in Gateways -> "gateway"
Existing(objects, names) == {n \in names : objects[n] # Absent}

(* IsSpecChanged, IsValid, SetAccepted: the condition and its generation.  *)
NoStatus == [reason |-> "none", gen |-> 0]
Status(obj, reason) == [reason |-> reason, gen |-> obj.gen]
IsSpecChanged(obj) == obj.status.gen # obj.gen
KnownInvalid(obj) == obj.status = Status(obj, "Invalid")

MaxAge == 2 + Max({c.writes : c \in Clusters})

(* What n may be given, at first or by users.                              *)
Given(n) == Specs[n] \union {c.specs[n] : c \in {x \in Clusters : n \in DOMAIN x.specs}}
Object(n, spec, created) ==
  IF n \notin Policies THEN spec
  ELSE [spec |-> spec, gen |-> 1, created |-> created, status |-> NoStatus]
WithSpec(n, obj, spec) ==
  IF n \notin Policies THEN spec ELSE [obj EXCEPT !.spec = spec, !.gen = @ + 1]
SpecOf(n, obj) == IF n \in Policies /\ obj # Absent THEN obj.spec ELSE obj

(* The names of a route's gateways.                                        *)
Named(route) == IF route.kind = "HTTPRoute" THEN {ref.name : ref \in route.gateways} ELSE route.gateways

ASSUME NamesAssumption ==
  /\ IsFiniteSet(Names) /\ Absent \notin Names
  /\ Policies \intersect Routes = {} /\ Policies \intersect Gateways = {} /\ Routes \intersect Gateways = {}
ASSUME ClustersAssumption ==
  /\ MaxAge \in Nat
  /\ \A c \in Clusters : c.lds \in BOOLEAN /\ c.faults \in Nat /\ c.writes \in Nat /\ c.writes < MaxAge
(* Specifications have types.  "any" is no name of a section.  Valid is    *)
(* what validation lets through: a policy for an HTTPRoute without sections *)
(* (ValidateFilterPolicy), a VirtualService with routes, a gateway with a  *)
(* server (Istio's own validation); gateways of the Gateway API, which are *)
(* what an HTTPRoute names, are never found invalid.                       *)
ASSUME SpecsAssumption ==
  /\ \A n \in Names : Absent \notin Given(n)
  /\ \A p \in Policies : \A s \in Given(p) :
       s.target \in Routes \union Gateways \union {Absent} /\ s.valid \in BOOLEAN
  /\ \A R \in Routes : \A s \in Given(R) :
       /\ s.kind \in {"VirtualService", "HTTPRoute"} /\ s.valid \in BOOLEAN /\ Named(s) \subseteq Gateways
       /\ s.kind = "HTTPRoute" => \A g \in Named(s) : \A t \in Given(g) : t.valid
  /\ \A g \in Gateways : \A s \in Given(g) :
       /\ s.kind \in {"Istio", "K8s"} /\ s.valid \in BOOLEAN
       /\ s.servers \in Seq(Range(s.servers)) /\ (s.valid => s.servers # <<>>)
ASSUME SectionsAssumption ==
  /\ \A R \in Routes : \A s \in Given(R) :
       /\ "any" \notin s.routes
       /\ s.kind = "VirtualService" /\ s.valid => s.routes # {}
       /\ s.kind = "HTTPRoute" => \A p \in Policies : \A t \in Given(p) :
            t.valid /\ t.target = R => t.section = "any" /\ DOMAIN t.sub = {}
  /\ \A g \in Gateways : \A s \in Given(g) : \A i \in DOMAIN s.servers : s.servers[i].name # "any"
(* Policies have an order; an annotation has no policy's name.             *)
ASSUME AlphabeticalAssumption ==
  /\ Alphabetical \in Seq(Range(Alphabetical))
  /\ Policies \union {"embedded"} \subseteq Range(Alphabetical) /\ "embedded" \notin Policies
(* No object is confused with its absence.                                 *)
Reasons == {"none", "Invalid", "Accepted", "TargetNotFound"}
Objects(p) == [spec : Given(p), gen : Nat, created : Nat, status : [reason : Reasons, gen : Nat]]
ASSUME AbsentAssumption == \A p \in Policies : Absent \notin Objects(p)

Translated(p, obj) ==
  [name |-> p, created |-> obj.created, section |-> obj.spec.section,
   filters |-> obj.spec.filters, sub |-> obj.spec.sub]
Embedded(spec) ==
  [name |-> "embedded", created |-> 0, section |-> "any",
   filters |-> spec.embedded.filters, sub |-> spec.embedded.sub]
HasEmbedded(n, obj) == n \notin Policies /\ obj # Absent /\ obj.embedded # Absent

(* What asks for a reconciliation when informers start: they report what    *)
(* there is as created, and nothing is indexed.                            *)
Wakes(objects, l) ==
  \E n \in Existing(objects, Names) :
    n \in Policies \/ HasEmbedded(n, objects[n]) \/ (l /\ n \in Gateways)

Init ==
  /\ \E c \in Clusters :
       /\ lds = c.lds /\ writes = c.writes /\ faults = c.faults
       /\ api = [n \in Names |-> IF n \in DOMAIN c.specs THEN Object(n, c.specs[n], 1) ELSE Absent]
  /\ cache = api
  /\ watch = [k \in Kinds |-> <<>>]
  /\ efs = Nothing /\ efCache = Nothing /\ efWatch = <<>>
  /\ queued = Wakes(api, lds) /\ phase = "idle"
  /\ items = <<>> /\ at = 1 /\ init = NewInitState /\ gateways = {}
  /\ routeIndex = {} /\ gwIndex = {}
  /\ holes = {} /\ fresh = FALSE

-----------------------------------------------------------------------------
(* Users, and the informers of what they write.                            *)
Write(n, obj) ==
  /\ writes > 0
  /\ writes' = writes - 1
  /\ api' = [api EXCEPT ![n] = obj]
  /\ watch' = [watch EXCEPT ![KindOf(n)] = Append(@, <<n, obj>>)]
  /\ fresh' = FALSE
  /\ UNCHANGED <<cache, outputs, work, indexes, lds, queued, phase, holes, faults>>

Create(n) == api[n] = Absent /\ \E spec \in Specs[n] : Write(n, Object(n, spec, MaxAge - writes))
Change(n) ==
  /\ api[n] # Absent
  /\ \E spec \in Specs[n] \ {SpecOf(n, api[n])} : Write(n, WithSpec(n, api[n], spec))
Withdraw(n) == api[n] # Absent /\ Write(n, Absent)
Users == \E n \in Names : Create(n) \/ Change(n) \/ Withdraw(n)

(* GenerationChangedPredicate; FindAffectedObjects of the old object and   *)
(* of the new one.                                                         *)
GenerationChanged_UpdatesOnly(old, new) == old # Absent /\ new # Absent /\ old.gen # new.gen
GenerationChanged(old, new) == old = Absent \/ new = Absent \/ old.gen # new.gen

FindAffectedObjects(n, old, new) ==
  \/ HasEmbedded(n, old) \/ HasEmbedded(n, new)
  \/ lds /\ n \in Gateways
  \/ n \in routeIndex \union gwIndex

Triggers(n, old, new) ==
  IF n \in Policies THEN GenerationChanged(old, new) ELSE FindAffectedObjects(n, old, new)

(* A change of a gateway that the reconciliation under way has read, and   *)
(* has yet to index, is missed.                                            *)
Observe(kind) ==
  /\ watch[kind] # <<>>
  /\ LET n == Head(watch[kind])[1]
         obj == Head(watch[kind])[2]
         triggers == Triggers(n, cache[n], obj)
     IN /\ cache' = [cache EXCEPT ![n] = obj]
        /\ queued' = (queued \/ triggers)
        /\ holes' = holes \union IF ~triggers /\ n \in gateways THEN {"gateway"} ELSE {}
  /\ watch' = [watch EXCEPT ![kind] = Tail(@)]
  /\ UNCHANGED <<api, outputs, work, indexes, lds, phase, fresh, writes, faults>>

ObserveOutput ==
  /\ efWatch # <<>>
  /\ LET key == Head(efWatch)[1]
         now == Head(efWatch)[2]
     IN efCache' = IF now = {} THEN [k \in DOMAIN efCache \ {key} |-> efCache[k]]
                   ELSE Put(efCache, key, CHOOSE ef \in now : TRUE)
  /\ efWatch' = Tail(efWatch)
  /\ UNCHANGED <<resources, efs, work, indexes, lds, queued, phase, holes, fresh, writes, faults>>

-----------------------------------------------------------------------------
(* One reconciliation.  policyToTranslationState up to the index of routes. *)
Item(p) == [name |-> p, obj |-> cache[p], status |-> cache[p].status]

(* Nothing that users wrote is still to be seen.                           *)
UpToDate ==
  /\ \A n \in Names : SpecOf(n, cache[n]) = SpecOf(n, api[n])
  /\ \A e \in UNION {Range(watch[kind]) : kind \in Kinds} :
       SpecOf(e[1], e[2]) = SpecOf(e[1], api[e[1]])

Begin ==
  /\ phase = "idle" /\ queued
  /\ phase' = "resolve" /\ queued' = FALSE
  /\ \E order \in SetToSeqs(Existing(cache, Policies)) : items' = [i \in DOMAIN order |-> Item(order[i])]
  /\ at' = 1 /\ init' = NewInitState /\ gateways' = {}
  /\ routeIndex' = {cache[p].spec.target : p \in Existing(cache, Policies)} \intersect Routes
  /\ holes' = holes \ {"gateway", "status"}
  /\ fresh' = UpToDate
  /\ UNCHANGED <<resources, outputs, gwIndex, lds, writes, faults>>

(* An error: what is done so far is abandoned, and the request retried.    *)
Abandon_Keeps == phase' = "idle" /\ queued' = TRUE /\ UNCHANGED work
Abandon ==
  /\ phase' = "idle" /\ queued' = TRUE
  /\ items' = <<>> /\ at' = 1 /\ init' = NewInitState /\ gateways' = {}
Fault == faults > 0 /\ faults' = faults - 1

(* What resolving a policy changes.                                        *)
Resolution(reason, st, indexed) == [reason |-> reason, init |-> st, indexed |-> indexed]

Usable(route, g) ==
  /\ cache[g] # Absent
  /\ IF route.kind = "VirtualService" THEN cache[g].valid
     ELSE \E ref \in route.gateways, i \in DOMAIN cache[g].servers :
            /\ ref.name = g
            /\ ref.section \in {"any", cache[g].servers[i].name}
            /\ cache[g].servers[i].allows

(* resolveWithVirtualService, resolveHTTPRoute: with the gateways of the   *)
(* policy before, if there is one for the route.                           *)
ResolveWithRoute_IndexUsable(policy, name, st) ==
  LET route == cache[name]
      gws == {g \in Named(route) : Usable(route, g)}
  IN IF name \notin DOMAIN st.routes /\ gws = {} THEN Resolution("TargetNotFound", st, {})
     ELSE Resolution("Accepted", AddPolicyForRoute(st, policy, name, route, {cache[g] : g \in gws}), gws)
ResolveWithRoute(policy, name, st) ==
  LET route == cache[name]
      gws == {g \in Named(route) : Usable(route, g)}
  IN CASE name \in DOMAIN st.routes ->
            Resolution("Accepted", AddPolicyForRoute(st, policy, name, route, {}), {})
       [] name \notin DOMAIN st.routes /\ gws # {} ->
            Resolution("Accepted", AddPolicyForRoute(st, policy, name, route, {cache[g] : g \in gws}),
                       Named(route))
       [] name \notin DOMAIN st.routes /\ gws = {} ->
            Resolution("TargetNotFound", st, Named(route))

TargetFound(spec) ==
  LET target == cache[spec.target]
      sections == IF spec.target \in Routes THEN target.routes
                  ELSE {target.servers[i].name : i \in DOMAIN target.servers}
  IN target # Absent /\ target.valid /\ spec.section \in sections \union {"any"}

AddPolicyForGateway(policy, name, st) ==
  [st EXCEPT !.listeners = AddGateways(@, cache, <<name>>, [g \in {name} |-> {policy}])]

Resolve(p, obj) ==
  LET policy == Translated(p, obj)
      t == obj.spec.target
  IN CASE t = Absent \/ KnownInvalid(obj) \/ (IsSpecChanged(obj) /\ ~obj.spec.valid) ->
            Resolution(IF t = Absent \/ IsSpecChanged(obj) THEN "Invalid" ELSE "same", init, {})
       [] OTHER ->
            IF t \in Gateways /\ ~lds THEN Resolution("same", init, {})
            ELSE IF ~TargetFound(obj.spec) THEN Resolution("TargetNotFound", init, {t} \intersect Gateways)
            ELSE IF t \in Routes THEN ResolveWithRoute(policy, t, init)
            ELSE Resolution("Accepted", AddPolicyForGateway(policy, t, init), {t})

ResolveNext ==
  /\ phase = "resolve" /\ at <= Len(items) /\ at' = at + 1
  /\ LET item == items[at]
         r == Resolve(item.name, item.obj)
     IN /\ init' = r.init
        /\ gateways' = gateways \union r.indexed
        /\ items' = IF r.reason = "same" THEN items
                    ELSE [items EXCEPT ![at].status = Status(item.obj, r.reason)]
  /\ UNCHANGED <<resources, outputs, indexes, lds, queued, phase, holes, fresh, writes, faults>>

(* Get fails otherwise than with NotFound.                                 *)
GetFails_NotFound ==
  /\ phase = "resolve" /\ at <= Len(items) /\ Fault
  /\ items' = [items EXCEPT ![at].status = Status(items[at].obj, "TargetNotFound")]
  /\ at' = at + 1
  /\ UNCHANGED <<resources, outputs, init, gateways, indexes, lds, queued, phase, holes, fresh, writes>>
GetFails ==
  /\ phase = "resolve" /\ at <= Len(items) /\ Fault
  /\ Abandon
  /\ UNCHANGED <<resources, outputs, indexes, lds, holes, fresh, writes>>

(* What annotations embed; when gateways have policies, every gateway; and *)
(* the index of gateways, now that nothing failed.                         *)
Hosts == {n \in Existing(cache, Routes) : cache[n].kind = "VirtualService" /\ HasEmbedded(n, cache[n])}
AddEmbedded(st) ==  \* each of them for itself
  LET resolved == [n \in Hosts |-> ResolveWithRoute(Embedded(cache[n]), n, st)]
  IN [routes |-> [n \in DOMAIN st.routes \union {h \in Hosts : resolved[h].reason = "Accepted"} |->
                    IF n \in Hosts THEN resolved[n].init.routes[n] ELSE st.routes[n]],
      indexed |-> UNION {resolved[n].indexed : n \in Hosts}]

Istio == {g \in Existing(cache, Gateways) : cache[g].kind = "Istio"}
Owners == {g \in Istio : HasEmbedded(g, cache[g])}
AddAllGateways(ls, owners, istio, others) ==
  AddGateways(AddGateways(ls, cache, owners, [g \in Owners |-> {Embedded(cache[g])}]),
              cache, istio \o others, [g \in Existing(cache, Gateways) |-> {}])

Finish ==
  /\ phase = "resolve" /\ at > Len(items)
  /\ phase' = "output" /\ gateways' = {} /\ at' = 1
  /\ routeIndex' = routeIndex \union Hosts
  /\ gwIndex' = gateways \union AddEmbedded(init).indexed \union IF lds THEN Owners ELSE {}
  /\ \E istio \in SetToSeqs(Istio), others \in SetToSeqs(Existing(cache, Gateways) \ Istio),
        owners \in SetToSeqs(Owners) :  \* in the order of istio
       /\ \A i, j \in DOMAIN owners : i < j => Rank(istio, owners[i]) < Rank(istio, owners[j])
       /\ init' = [routes |-> AddEmbedded(init).routes,
                   listeners |-> IF lds THEN AddAllGateways(init.listeners, owners, istio, others)
                                 ELSE init.listeners]
  /\ UNCHANGED <<resources, outputs, items, lds, queued, holes, fresh, writes, faults>>

(* diffGeneratedEnvoyFilters: deletes, then creates and updates, in any    *)
(* order, until one fails.  The API server refuses what it does not have,  *)
(* what it has already, and the update of an old copy.                     *)
Outdated(key) == \E i \in DOMAIN efWatch : efWatch[i][1] = key
Refused(key, generated) ==
  IF key \in DOMAIN generated \ DOMAIN efCache THEN key \in DOMAIN efs
  ELSE key \notin DOMAIN efs \/ (key \in DOMAIN generated /\ Outdated(key))

Deletes(generated) == DOMAIN efCache \ DOMAIN generated
Upserts_Create(generated) == DOMAIN generated
Upserts(generated) ==
  {k \in DOMAIN generated : k \in DOMAIN efCache => efCache[k].spec # generated[k].spec}

(* The writes `done`, in this order.                                       *)
WriteFilters(done, generated) ==
  LET gone == Range(done) \ DOMAIN generated
      put == Range(done) \intersect DOMAIN generated
      Event(key) == <<key, IF key \in gone THEN {} ELSE {generated[key]}>>
  IN /\ efs' = [k \in (DOMAIN efs \ gone) \union put |-> IF k \in put THEN generated[k] ELSE efs[k]]
     /\ efWatch' = efWatch \o [i \in DOMAIN done |-> Event(done[i])]

SpecsOf(filters) == [k \in DOMAIN filters |-> filters[k].spec]

(* The writes done are those of a prefix of some order.                    *)
Done(generated) ==
  LET Allowed(keys) == {k \in keys : ~Refused(k, generated)}
      some == {<<d, {}>> : d \in SUBSET Allowed(Deletes(generated))}
      most == IF Allowed(Deletes(generated)) # Deletes(generated) THEN {}
              ELSE {<<Deletes(generated), u>> : u \in SUBSET Allowed(Upserts(generated))}
  IN {done \in some \union most : IsFiniteSet(done[1]) /\ IsFiniteSet(done[2])}

Output ==
  /\ phase = "output" /\ phase' \in {"status", "idle"}
  /\ \E generated \in Process(init) : \E done \in Done(generated) :
       LET todo == <<Deletes(generated), Upserts(generated)>>
           all == done = todo
           stuck == \E k \in (IF done[1] # todo[1] THEN todo[1] \ done[1] ELSE todo[2] \ done[2]) :
                      Refused(k, generated)
       IN /\ \E a \in SetToSeqs(done[1]), b \in SetToSeqs(done[2]) : WriteFilters(a \o b, generated)
          /\ \/ /\ all
                /\ phase' = "status" /\ init' = NewInitState
                /\ holes' = (holes \ {"output", "orphan"}) \union
                            IF SpecsOf(efs') # SpecsOf(generated) THEN {"output"} ELSE {}
                /\ UNCHANGED <<queued, items, at, gateways, faults>>
             \/ /\ ~all
                /\ IF stuck THEN UNCHANGED faults ELSE Fault
                /\ Abandon
                /\ UNCHANGED holes
  /\ UNCHANGED <<resources, efCache, indexes, lds, fresh, writes>>

(* updatePolicies: the statuses that changed, until one write fails.  That *)
(* nothing changed may be so in an old copy only.                          *)
Changed(i) == items[i].status # items[i].obj.status
KeepStatus ==
  /\ phase = "status" /\ at <= Len(items) /\ ~Changed(at)
  /\ LET p == items[at].name
     IN holes' = holes \union IF api[p] # Absent /\ api[p].status # items[at].status THEN {"status"} ELSE {}
  /\ at' = at + 1
  /\ UNCHANGED <<resources, outputs, items, init, gateways, indexes, lds, queued, phase, fresh, writes, faults>>

WriteStatus ==
  /\ phase = "status" /\ at <= Len(items) /\ Changed(at)
  /\ LET item == items[at]
         obj == [item.obj EXCEPT !.status = item.status]
     IN /\ api[item.name] = item.obj
        /\ api' = [api EXCEPT ![item.name] = obj]
        /\ watch' = [watch EXCEPT !["policy"] = Append(@, <<item.name, obj>>)]
  /\ at' = at + 1
  /\ UNCHANGED <<cache, outputs, items, init, gateways, indexes, lds, queued, phase, holes, fresh, writes, faults>>

(* The policy has changed since it was listed, or the API server fails.    *)
StatusFails ==
  /\ phase = "status" /\ at <= Len(items) /\ Changed(at)
  /\ IF api[items[at].name] # items[at].obj THEN UNCHANGED faults ELSE Fault
  /\ Abandon
  /\ UNCHANGED <<resources, outputs, indexes, lds, holes, fresh, writes>>

Rest ==
  /\ phase = "status" /\ at > Len(items)
  /\ phase' = "idle" /\ items' = <<>> /\ at' = 1
  /\ UNCHANGED <<resources, outputs, init, gateways, indexes, lds, queued, holes, fresh, writes, faults>>

Reconcile == Begin \/ ResolveNext \/ Finish \/ Output \/ KeepStatus \/ WriteStatus \/ StatusFails \/ Rest

(* A new process: the informers list everything, and report it as created. *)
(* When none of that asks for a reconciliation, old EnvoyFilters stay.     *)
Restart ==
  /\ Fault
  /\ cache' = api /\ watch' = [k \in Kinds |-> <<>>]
  /\ efCache' = efs /\ efWatch' = <<>>
  /\ phase' = "idle" /\ items' = <<>> /\ at' = 1 /\ init' = NewInitState /\ gateways' = {}
  /\ routeIndex' = {} /\ gwIndex' = {}
  /\ queued' = Wakes(api, lds)
  /\ holes' = IF queued' THEN holes \ {"gateway", "status"}
              ELSE IF DOMAIN efs = {} THEN {} ELSE {"orphan"}
  /\ fresh' = FALSE
  /\ UNCHANGED <<api, efs, lds, writes>>

Informers == ObserveOutput \/ \E kind \in Kinds : Observe(kind)
Next == Users \/ Informers \/ Reconcile \/ GetFails \/ Restart

(* A failed reconciliation is retried, and informers report every change;  *)
(* users need not write, and nothing needs to fail.                        *)
Spec == Init /\ [][Next]_vars /\ WF_vars(Reconcile) /\ WF_vars(Informers)
=============================================================================
