------------------------- MODULE ConsumerReconciler -------------------------
(***************************************************************************)
(* The control plane of consumers (controller/internal/controller/         *)
(* consumer_controller.go): Consumer resources are reconciled into one     *)
(* EnvoyFilter, and each resource gets an Accepted condition.              *)
(*                                                                         *)
(* Users write resources through the API server at any time.  The          *)
(* controller reads them from an informer's cache, which applies the API   *)
(* server's events in order and may lag behind, its own status writes      *)
(* included.  A reconciliation lists the cache, writes the EnvoyFilter,    *)
(* then writes the changed statuses one by one; a write based on an old    *)
(* version is refused, and any error starts the reconciliation over.       *)
(*                                                                         *)
(* A definition X_Fault just before X is X with a plausible mistake in it. *)
(***************************************************************************)
EXTENDS Naturals, Sequences, FiniteSets, Functions

CONSTANTS
  Consumers,    \* the resources there may be: records [ns, name]
  SpecsOf,      \* bound: the specifications users write for each of them
  Absent,       \* stands for a resource that does not exist
  Budgets,      \* bound: how often users write each of them, in one behaviour or another
  MaxWrites,    \* bound: the most of these
  MaxFaults     \* bound: failed calls to the API server and restarts

(* A specification: the name the consumer is known by ("" for the          *)
(* resource's own), the credentials of its auth plugins, whether           *)
(* ValidateConsumer accepts it, and whether the data plane, whose plugins  *)
(* may be another build's, can load it.                                    *)
Specs == UNION {SpecsOf[r] : r \in Consumers}

ASSUME ConsumersAssumption ==
  /\ IsFiniteSet(Consumers)
  /\ \A r \in Consumers : r = [ns |-> r.ns, name |-> r.name]
  /\ \A s \in Specs : /\ s = [name |-> s.name, creds |-> s.creds,
                            valid |-> s.valid, loads |-> s.loads]
                      /\ s.valid \in BOOLEAN /\ s.loads \in BOOLEAN
  /\ MaxWrites \in Nat /\ Budgets \subseteq [Consumers -> 0 .. MaxWrites]
  /\ MaxFaults \in Nat

(* The Accepted condition: its reason and the generation it observed.      *)
Status == [reason: {"None", "Accepted", "Invalid"}, gen: 0 .. MaxWrites]
NoStatus == [reason |-> "None", gen |-> 0]

Object == [gen: 1 .. MaxWrites, spec: Specs, status: Status]

ASSUME AbsentAssumption == Absent \notin Object

(* An item of the list under reconciliation: the object as listed, its     *)
(* status as computed, and whether that status is to be written.           *)
Item == [res: Consumers, gen: 1 .. MaxWrites, spec: Specs, status: Status,
         changed: BOOLEAN]

VARIABLES
  store,       \* the API server's objects
  watch,       \* its events that the informer has not applied yet, in order
  cache,       \* the informer's copy of the objects
  queued,      \* the single request is in the controller's work queue
  pc,          \* where Reconcile is
  items,       \* consumers.Items of the reconciliation
  outdated,    \* resources written since the version that was listed
  envoyFilter, \* the consumers in the generated EnvoyFilter, by namespace and name
  writes,      \* the writes left to the users of each resource
  faults,
  restarted    \* history: the controller has been started again

reconcilerVars == <<store, watch, cache, queued, pc, items, outdated, envoyFilter,
                    writes, faults, restarted>>

Live(objects) == {r \in Consumers : objects[r] # Absent}

(* The name a consumer is known by in its namespace.                       *)
ConsumerName(r, spec) == IF spec.name = "" THEN r.name ELSE spec.name
Key(r, spec) == <<r.ns, ConsumerName(r, spec)>>

(* What Marshal keeps of a specification.                                  *)
Marshal(spec) == [creds |-> spec.creds, loads |-> spec.loads]

-----------------------------------------------------------------------------
(* consumersToState.                                                       *)

IsSpecChanged(x) == x.status.reason = "None" \/ x.status.gen # x.gen
IsValid_AnyGeneration(x) == x.status.reason # "Invalid"
IsValid(x) == ~(x.status.gen = x.gen /\ x.status.reason = "Invalid")

SetAccepted(x, reason) ==
  LET status == [reason |-> reason, gen |-> x.gen]
  IN [x EXCEPT !.status = status, !.changed = (status # x.status)]

(* A specification is validated once for a generation: an answer for the   *)
(* present one stands.                                                     *)
Qualifies(x) == IsValid(x) /\ (IsSpecChanged(x) => x.spec.valid)

(* Whether an item before the i-th has taken its name in its namespace:    *)
(* the first that qualifies does.                                          *)
Duplicate_NoDefaultName(list, i) ==
  \E j \in 1 .. i - 1 : /\ Qualifies(list[j]) /\ list[j].res.ns = list[i].res.ns
                        /\ list[j].spec.name = list[i].spec.name
Duplicate(list, i) ==
  \E j \in 1 .. i - 1 : /\ Qualifies(list[j])
                        /\ Key(list[j].res, list[j].spec) = Key(list[i].res, list[i].spec)

Examine(list, i) ==
  IF ~IsValid(list[i]) THEN list[i]
  ELSE SetAccepted(list[i], IF Qualifies(list[i]) /\ ~Duplicate(list, i)
                            THEN "Accepted" ELSE "Invalid")

Listed(r) == [res |-> r, gen |-> cache[r].gen, spec |-> cache[r].spec,
              status |-> cache[r].status, changed |-> FALSE]

consumersToState(list) == [i \in DOMAIN list |-> Examine(list, i)]

(* Whether an item that was examined is in namespaceToConsumers.           *)
TakesEffect(x) == x.status = [reason |-> "Accepted", gen |-> x.gen]

(* generateCustomResource: what goes into the EnvoyFilter.                 *)
Effective(list) == {list[i] : i \in {k \in DOMAIN list : TakesEffect(list[k])}}
Named(list, ns, n) ==
  CHOOSE x \in Effective(list) : Key(x.res, x.spec) = <<ns, n>>
Generated(list) ==
  [ns \in {x.res.ns : x \in Effective(list)} |->
     [n \in {ConsumerName(x.res, x.spec) : x \in {y \in Effective(list) : y.res.ns = ns}} |->
        [v |-> Named(list, ns, n).gen, d |-> Marshal(Named(list, ns, n).spec)]]]

NoConsumers == [ns \in {} |-> [n \in {} |-> NoStatus]]

-----------------------------------------------------------------------------
ReconcilerInit ==
  /\ store = [r \in Consumers |-> Absent] /\ cache = store /\ watch = <<>>
  /\ queued = FALSE /\ pc = "idle" /\ items = <<>> /\ outdated = {}
  /\ envoyFilter = NoConsumers
  /\ writes \in Budgets /\ faults = 0 /\ restarted = FALSE

Fault == faults < MaxFaults /\ faults' = faults + 1

(* The API server accepts a write: the informer will hear of it.           *)
Store(r, object) ==
  /\ store' = [store EXCEPT ![r] = object]
  /\ watch' = Append(watch, [res |-> r, object |-> object])

UserWrite(r, object) ==
  /\ writes[r] > 0 /\ writes' = [writes EXCEPT ![r] = @ - 1]
  /\ Store(r, object)
  /\ outdated' = IF pc = "idle" THEN {} ELSE outdated \union {r}
  /\ UNCHANGED <<cache, queued, pc, items, envoyFilter, faults, restarted>>

(* The status subresource is not the user's to write.                      *)
Create(r, spec) ==
  /\ store[r] = Absent
  /\ UserWrite(r, [gen |-> 1, spec |-> spec, status |-> NoStatus])
UpdateSpec(r, spec) ==
  /\ store[r] # Absent /\ spec # store[r].spec
  /\ UserWrite(r, [store[r] EXCEPT !.spec = spec, !.gen = @ + 1])
Delete(r) ==
  /\ store[r] # Absent
  /\ UserWrite(r, Absent)

(* The informer applies the next event.  GenerationChangedPredicate drops  *)
(* the updates of a status.                                                *)
GenerationChanged_UpdatesOnly(old, new) ==
  old = Absent \/ (new # Absent /\ old.gen # new.gen)
GenerationChanged(old, new) ==
  old = Absent \/ new = Absent \/ old.gen # new.gen
Observe ==
  /\ watch # <<>>
  /\ LET event == Head(watch)
     IN /\ cache' = [cache EXCEPT ![event.res] = event.object]
        /\ queued' = (queued \/ GenerationChanged(cache[event.res], event.object))
  /\ watch' = Tail(watch)
  /\ UNCHANGED <<store, pc, items, outdated, envoyFilter, writes, faults, restarted>>

(* Reconcile, first part: List returns the cache in any order.             *)
List ==
  /\ pc = "idle" /\ queued
  /\ pc' = "generate" /\ queued' = FALSE
  /\ \E order \in Bijection(1 .. Cardinality(Live(cache)), Live(cache)) :
       items' = consumersToState([i \in DOMAIN order |-> Listed(order[i])])
  /\ outdated' = {watch[i].res : i \in DOMAIN watch}
  /\ UNCHANGED <<store, watch, cache, envoyFilter, writes, faults, restarted>>

(* Reconcile returns; with an error the request is queued again.           *)
Finish == pc' = "idle" /\ items' = <<>> /\ outdated' = {}
Requeue == Finish /\ queued' = TRUE

generateCustomResource ==
  /\ pc = "generate"
  /\ pc' = "status"
  /\ envoyFilter' = Generated(items)
  /\ UNCHANGED <<store, watch, cache, queued, items, outdated, writes, faults, restarted>>

(* The write of the EnvoyFilter fails, or its answer is lost.              *)
GenerateFails ==
  /\ pc = "generate" /\ Fault
  /\ envoyFilter' \in {envoyFilter, Generated(items)}
  /\ Requeue
  /\ UNCHANGED <<store, watch, cache, writes, restarted>>

(* updateConsumers goes through the items; what is left of them is still   *)
(* to be looked at.  The next status to write:                             *)
Due(i) == items[i].changed /\ \A j \in 1 .. i - 1 : ~items[j].changed

WriteStatus(x) ==
  /\ x.res \notin outdated
  /\ Store(x.res, [store[x.res] EXCEPT !.status = x.status])

UpdateStatus ==
  /\ pc = "status"
  /\ \E i \in DOMAIN items :
       Due(i) /\ WriteStatus(items[i]) /\ items' = SubSeq(items, i + 1, Len(items))
  /\ UNCHANGED <<cache, queued, pc, outdated, envoyFilter, writes, faults, restarted>>

(* The resource was written or deleted since it was listed.                *)
Conflict_RetriesTheWrite ==
  /\ pc = "status"
  /\ \E i \in DOMAIN items : Due(i) /\ items[i].res \in outdated
  /\ UNCHANGED reconcilerVars
Conflict ==
  /\ pc = "status"
  /\ \E i \in DOMAIN items : Due(i) /\ items[i].res \in outdated
  /\ Requeue
  /\ UNCHANGED <<store, watch, cache, envoyFilter, writes, faults, restarted>>

(* The status update fails for another reason, or its answer is lost.      *)
UpdateStatusFails ==
  /\ pc = "status" /\ Fault
  /\ \E i \in DOMAIN items :
       Due(i) /\ (WriteStatus(items[i]) \/ UNCHANGED <<store, watch>>)
  /\ Requeue
  /\ UNCHANGED <<cache, envoyFilter, writes, restarted>>

Reconciled ==
  /\ pc = "status" /\ \A i \in DOMAIN items : ~items[i].changed
  /\ Finish
  /\ UNCHANGED <<store, watch, cache, queued, envoyFilter, writes, faults, restarted>>

(* A new process lists every resource and queues a request for each.       *)
ControllerRestart ==
  /\ Fault /\ restarted' = TRUE
  /\ cache' = store /\ watch' = <<>>
  /\ queued' = (Live(store) # {})
  /\ Finish
  /\ UNCHANGED <<store, envoyFilter, writes>>

User == \E r \in Consumers :
  Delete(r) \/ \E spec \in SpecsOf[r] : Create(r, spec) \/ UpdateSpec(r, spec)

Reconcile ==
  List \/ generateCustomResource \/ UpdateStatus \/ Conflict \/ Reconciled

ReconcilerNext ==
  \/ User
  \/ Observe
  \/ Reconcile
  \/ GenerateFails
  \/ UpdateStatusFails
  \/ ControllerRestart

(* Nothing is under way in the control plane.                              *)
Quiet == pc = "idle" /\ ~queued /\ watch = <<>>

ReconcilerTypeOK ==
  /\ store \in [Consumers -> Object \union {Absent}]
  /\ cache \in [Consumers -> Object \union {Absent}]
  /\ watch \in Seq([res: Consumers, object: Object \union {Absent}])
  /\ queued \in BOOLEAN /\ pc \in {"idle", "generate", "status"}
  /\ items \in Seq(Item) /\ outdated \subseteq Consumers
  /\ \A ns \in DOMAIN envoyFilter : \A n \in DOMAIN envoyFilter[ns] :
       /\ envoyFilter[ns][n].v \in 1 .. MaxWrites
       /\ \E spec \in Specs : envoyFilter[ns][n].d = Marshal(spec)
  /\ writes \in [Consumers -> 0 .. MaxWrites] /\ faults \in 0 .. MaxFaults /\ restarted \in BOOLEAN
=============================================================================
