-------------------------- MODULE ServiceDirectory --------------------------
(***************************************************************************)
(* What the service registries promise: a mesh sees a service under its    *)
(* host, with endpoints that a registry has offered for that very host,    *)
(* and what is published reaches the cluster in the end.                   *)
(*                                                                         *)
(* "trusted" says that the controller knows what it has published.  When   *)
(* a read from the cluster fails it no longer does, and promises nothing   *)
(* of the cluster until it restarts.                                       *)
(***************************************************************************)
CONSTANTS
  Hosts,    \* the names under which services are published
  Entry     \* what can be published

VARIABLES
  offered,    \* host -> every entry a registry has had for it so far
  published,  \* host -> entry, what the controller has accepted to publish
  served,     \* host -> entry, what the cluster has
  trusted

vars == <<offered, published, served, trusted>>

Nothing == [h \in {} |-> h]
Same(f, g, h) ==
  /\ h \in DOMAIN f <=> h \in DOMAIN g
  /\ h \in DOMAIN f => f[h] = g[h]

Init ==
  /\ offered \in [Hosts -> SUBSET Entry]
  /\ published = Nothing /\ served = Nothing /\ trusted = TRUE

Offer ==
  /\ UNCHANGED <<published, served, trusted>>
  /\ \A h \in Hosts : offered[h] \subseteq offered'[h]

(* The controller publishes what was offered or withdraws it; as long as   *)
(* it can be trusted, the cluster changes only to what is published then.  *)
Publish ==
  /\ \A h \in Hosts :
       /\ \/ Same(published, published', h)
          \/ h \notin DOMAIN published'
          \/ published'[h] \in offered[h]
       /\ trusted' => \/ Same(served, served', h)
                      \/ Same(served', published', h)
  /\ trusted' => trusted
  /\ UNCHANGED offered

(* A new process knows nothing, and the cluster keeps what it has.         *)
Restart ==
  /\ published' = Nothing /\ trusted' = TRUE
  /\ UNCHANGED <<offered, served>>

Next == Offer \/ Publish \/ Restart

CatchesUp == []<>(trusted => served = published)

Spec == Init /\ [][Next]_vars /\ CatchesUp
=============================================================================
