-------------------------- MODULE ConsumerManager --------------------------
(***************************************************************************)
(* The data plane's index of consumers (api/internal/consumer/             *)
(* consumer_manager.go): UpdateConsumers applies one configuration as a    *)
(* whole, under the write lock; LookupConsumer finds the consumer a        *)
(* credential belongs to.  An entry of a configuration is [v, d]: the      *)
(* resource's generation and the marshalled specification.                 *)
(***************************************************************************)
EXTENDS Naturals, FiniteSets, Functions

VARIABLES
  resourceIndex, \* by namespace and name: the entry the consumer was made from
  scopeIndex     \* by namespace and credential: the name of the consumer found

managerVars == <<resourceIndex, scopeIndex>>

Nothing == [ns \in {} |-> [n \in {} |-> 0]]
ManagerInit == resourceIndex = Nothing /\ scopeIndex = Nothing

(* A consumer is kept when its generation has not changed.                 *)
Kept_ByName(ns, n, entry) ==
  ns \in DOMAIN resourceIndex /\ n \in DOMAIN resourceIndex[ns]
Kept(ns, n, entry) ==
  /\ ns \in DOMAIN resourceIndex /\ n \in DOMAIN resourceIndex[ns]
  /\ resourceIndex[ns][n].v = entry.v

(* The new index of a namespace: a consumer that cannot be unmarshalled or *)
(* initialised is left out.                                                *)
NewIndex_AllOrNothing(ns, value) ==
  IF \A n \in DOMAIN value : value[n].d.loads THEN value ELSE <<>>
NewIndex(ns, value) ==
  [n \in {m \in DOMAIN value : Kept(ns, m, value[m]) \/ value[m].d.loads} |->
     IF Kept(ns, n, value[n]) THEN resourceIndex[ns][n] ELSE value[n]]

(* The index by credential; rank is the order in which Go visits the map.  *)
Scope(index, rank) ==
  [c \in UNION {index[n].d.creds : n \in DOMAIN index} |->
     CHOOSE n \in DOMAIN index :
       /\ c \in index[n].d.creds
       /\ \A m \in DOMAIN index : c \in index[m].d.creds => rank[n] <= rank[m]]
Ranks(index) == Bijection(DOMAIN index, 1 .. Cardinality(DOMAIN index))

(* Namespaces the configuration does not mention stay as they are.         *)
Synced(value) ==
  [ns \in DOMAIN value \union DOMAIN resourceIndex |->
     IF ns \in DOMAIN value THEN NewIndex(ns, value[ns]) ELSE resourceIndex[ns]]

(* The indices by credential that the orders of visiting can make.         *)
Scopes(index) ==
  {[ns \in DOMAIN index |-> Scope(index[ns], rank[ns])] :
     rank \in {f \in [DOMAIN index -> UNION {Ranks(index[ns]) : ns \in DOMAIN index}] :
                 \A ns \in DOMAIN index : f[ns] \in Ranks(index[ns])}}

UpdateConsumers_ScopeOfPush(value) ==
  /\ resourceIndex' = Synced(value)
  /\ scopeIndex' \in Scopes([ns \in DOMAIN value |-> NewIndex(ns, value[ns])])
UpdateConsumers(value) ==
  /\ resourceIndex' = Synced(value)
  /\ scopeIndex' \in Scopes(Synced(value))

LookupConsumer(ns, c) ==
  IF ns \in DOMAIN scopeIndex /\ c \in DOMAIN scopeIndex[ns]
  THEN {scopeIndex[ns][c]} ELSE {}

(* Envoy starts again with an empty index.                                 *)
Restart == resourceIndex' = Nothing /\ scopeIndex' = Nothing
=============================================================================
