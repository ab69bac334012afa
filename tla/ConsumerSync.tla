---------------------------- MODULE ConsumerSync ----------------------------
(***************************************************************************)
(* Consumers end to end: the controller's EnvoyFilter reaches the data     *)
(* plane as the configuration of the consumer manager, whose parser calls  *)
(* UpdateConsumers.  Delivery skips what was overwritten in between; Envoy *)
(* may restart with nothing.                                               *)
(***************************************************************************)
EXTENDS ConsumerReconciler, ConsumerManager

VARIABLES
  applied,   \* the configuration the data plane parsed last
  contested  \* history: names two resources have claimed at once

syncVars == <<applied, contested>>
vars == <<reconcilerVars, managerVars, syncVars>>

Claims(objects, k) == {r \in Live(objects) : Key(r, objects[r].spec) = k}
Keys(objects) == {Key(r, objects[r].spec) : r \in Live(objects)}
Entries(filter) ==
  UNION {{[ns |-> ns, name |-> n, entry |-> filter[ns][n]] : n \in DOMAIN filter[ns]} :
           ns \in DOMAIN filter}

Init ==
  /\ ReconcilerInit /\ ManagerInit
  /\ applied = NoConsumers /\ contested = {}

ControlPlane ==
  /\ ReconcilerNext
  /\ contested' = contested \union
       {k \in Keys(store') : Cardinality(Claims(store', k)) > 1}
  /\ UNCHANGED <<managerVars, applied>>

Push ==
  /\ applied # envoyFilter
  /\ applied' = envoyFilter
  /\ UNCHANGED <<reconcilerVars, contested>>
  /\ UpdateConsumers(envoyFilter)

EnvoyRestart ==
  /\ Fault
  /\ Restart
  /\ applied' = NoConsumers
  /\ UNCHANGED <<store, watch, cache, queued, pc, items, outdated, envoyFilter, writes,
                 restarted, contested>>

Next == ControlPlane \/ Push \/ EnvoyRestart

Spec == Init /\ [][Next]_vars

(* The informer keeps up in the end, Reconcile runs on once it is asked    *)
(* to, and a configuration that differs reaches Envoy.                     *)
FairSpec ==
  /\ Spec
  /\ WF_reconcilerVars(Observe)
  /\ WF_reconcilerVars(Reconcile)
  /\ WF_vars(Push)

-----------------------------------------------------------------------------
(* Type correctness of the controller, the data plane and their histories. *)
TypeOK ==
  /\ ReconcilerTypeOK
  /\ DOMAIN scopeIndex = DOMAIN resourceIndex
  /\ \A ns \in DOMAIN resourceIndex :
       \A c \in DOMAIN scopeIndex[ns] : scopeIndex[ns][c] \in DOMAIN resourceIndex[ns]
  /\ contested \subseteq {<<r.ns, ConsumerName(q, s)>> : r, q \in Consumers, s \in Specs}

Uncontested(r) == Key(r, store[r].spec) \notin contested
Accepted(r) == store[r].status = [reason |-> "Accepted", gen |-> store[r].gen]
Entry(r) == [v |-> store[r].gen, d |-> Marshal(store[r].spec)]
Serves(filter, k, entry) ==
  k[1] \in DOMAIN filter /\ k[2] \in DOMAIN filter[k[1]] /\ filter[k[1]][k[2]] = entry

(* Once the controller is quiet, every consumer whose name no other        *)
(* resource has claimed has an answer for its current generation, it is    *)
(* Accepted exactly if its specification is valid, and then the            *)
(* EnvoyFilter holds it as it is.  Reconcile writes the EnvoyFilter first  *)
(* and the statuses after it, from a list that may be old, and any of      *)
(* these writes may fail.                                                  *)
AcceptedIsServed ==
  Quiet => \A r \in Live(store) : Uncontested(r) =>
    /\ store[r].status.gen = store[r].gen
    /\ Accepted(r) <=> store[r].spec.valid
    /\ Accepted(r) => Serves(envoyFilter, Key(r, store[r].spec), Entry(r))

(* Once the controller is quiet, the EnvoyFilter holds nothing else: each  *)
(* uncontested entry is that of an existing, Accepted resource.  A         *)
(* controller that starts when no resource is left is never asked to       *)
(* reconcile, hence the exception.                                         *)
ServedIsAccepted ==
  Quiet /\ (Live(store) # {} \/ ~restarted) =>
    \A e \in Entries(envoyFilter) : <<e.ns, e.name>> \notin contested =>
      \E r \in Live(store) : /\ Key(r, store[r].spec) = <<e.ns, e.name>>
                             /\ Accepted(r) /\ Entry(r) = e.entry

(* A consumer never turns from Accepted to Invalid within one generation,  *)
(* unless another resource has claimed its name: ValidateConsumer is asked *)
(* about a generation once.                                                *)
AcceptanceIsStable ==
  [][\A r \in Consumers :
       store[r] # Absent /\ store'[r] # Absent /\ Accepted(r) /\
       store'[r].gen = store[r].gen /\ store'[r].spec = store[r].spec /\
       store'[r].status.reason = "Invalid"
         => Key(r, store[r].spec) \in contested]_store

(* The data plane takes what it has for a name to be current, since the    *)
(* generation is: it cannot tell a resource from one deleted and created   *)
(* anew, see SpecTracked.                                                  *)
Mistaken(ns, n) ==
  \E e \in Entries(envoyFilter), f \in Entries(resourceIndex) :
    /\ e.ns = ns /\ f.ns = ns /\ e.name = n /\ f.name = n
    /\ e.entry.v = f.entry.v /\ e.entry # f.entry

Settled == Quiet /\ applied = envoyFilter

(* Once all is quiet and delivered, a credential finds only a consumer     *)
(* that is Accepted and has that credential now.  A namespace that has     *)
(* left the EnvoyFilter is an exception, see DeletedIsRevoked.             *)
AuthenticatesAccepted ==
  Settled /\ (Live(store) # {} \/ ~restarted) =>
    \A e \in Entries(resourceIndex) :
      e.ns \in DOMAIN envoyFilter /\ <<e.ns, e.name>> \notin contested
        /\ ~Mistaken(e.ns, e.name) =>
      \A c \in UNION {s.creds : s \in Specs} : e.name \in LookupConsumer(e.ns, c) =>
        \E r \in Live(store) : /\ Key(r, store[r].spec) = <<e.ns, e.name>>
                               /\ Accepted(r) /\ c \in store[r].spec.creds

(* Once all is quiet and delivered, each credential of an Accepted,        *)
(* uncontested consumer that the data plane can load finds it, unless      *)
(* another consumer of the namespace has the same credential.              *)
AcceptedAuthenticates ==
  Settled =>
    \A r \in Live(store) :
      LET k == Key(r, store[r].spec)
      IN /\ Accepted(r) /\ store[r].spec.loads /\ k \notin contested
         /\ ~Mistaken(k[1], k[2])
         => \A c \in store[r].spec.creds :
              \/ LookupConsumer(k[1], c) = {k[2]}
              \/ \E n \in DOMAIN resourceIndex[k[1]] :
                   n # k[2] /\ c \in resourceIndex[k[1]][n].d.creds

(* The writes of users, the failures and the restarts being over, the      *)
(* controller comes to rest, its own status writes notwithstanding, and    *)
(* the data plane has what it generated.                                   *)
Converges == <>[]Settled

-----------------------------------------------------------------------------
(* Of two valid consumers that claim one name, one takes effect and the    *)
(* other is ignored: the message of consumersToState for the duplicate.    *)
DuplicateTakesEffect ==
  Quiet => \A k \in Keys(store) :
    /\ Cardinality(Claims(store, k)) > 1
    /\ \A r \in Claims(store, k) : store[r].spec.valid
    => \E r \in Claims(store, k) : Accepted(r)

(* To revoke a consumer's permission, it is enough to delete it.           *)
DeletedIsRevoked ==
  Settled => \A ns \in DOMAIN scopeIndex : \A c \in DOMAIN scopeIndex[ns] :
    \E r \in Live(store) : Key(r, store[r].spec) = <<ns, scopeIndex[ns][c]>>

(* The generation tracks the changes of the specification: what the data   *)
(* plane has for a consumer in effect is its current specification.        *)
SpecTracked ==
  Settled => \A e \in Entries(envoyFilter) : \A f \in Entries(resourceIndex) :
    e.ns = f.ns /\ e.name = f.name => f.entry = e.entry
=============================================================================
