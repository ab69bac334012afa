--------------------------- MODULE ConsulRegistry ---------------------------
(***************************************************************************)
(* The Consul registry.  Start, Stop and Reload are called by the          *)
(* controller; a goroutine asks the server for its services, again and     *)
(* again, and refreshes with each answer.  A plan watches the hosts of one *)
(* service and calls back.                                                 *)
(*                                                                         *)
(* Only Stop and the second half of refresh hold the registry's lock:      *)
(* refresh subscribes before it takes it, and Reload never does.           *)
(***************************************************************************)
EXTENDS RegistryObjects

CONSTANT
  Asked(_, _)  \* the configuration whose services the server of the first
               \* lists for the datacenter and the namespace of the second

ASSUME AskedAssumption == \A world \in Worlds : \A c, d \in world : Asked(c, d) \in world

(* subscribe: the plan takes the place of the service's other one in the   *)
(* map, which runs on.                                                     *)
Forgotten(o, names, some) ==
  {IF sub.object = o /\ Name(sub.service) \in names THEN [sub EXCEPT !.held = FALSE] ELSE sub :
     sub \in some}

(* unsubscribe: by the name of the service alone.                          *)
PlansOf(o, names) ==
  {sub \in subs : sub.object = o /\ sub.held /\ sub.active /\ Name(sub.service) \in names}
StopPlans(o, names) == TakenBack(subs, PlansOf(o, names))

ConsulStart(r, c) ==
  /\ objects' = Append(objects, [name |-> r, config |-> c, client |-> 1,
                                 watching |-> Listed(c), soft |-> {}, next |-> {},
                                 stopped |-> FALSE, refreshing |-> "waits",
                                 query |-> c, asked |-> c])
  /\ subs' = subs \union Subscriptions(Len(objects) + 1, 1, c, Listed(c))
  /\ Made(NoFault, {})

(* The server answers, and refresh subscribes what is new, without tags.   *)
(* (The plans of a stopped registry report to nobody and are left out.)    *)
ConsulSubscribe(o) ==
  /\ objects[o].refreshing = "waits"
  /\ LET reg == objects[o]
         fetched == Listed(reg.asked)
         new == fetched \ reg.watching
         untagged == {<<NoTag, s>> : s \in Names(new)}
     IN /\ objects' = [objects EXCEPT ![o].next = fetched, ![o].refreshing = "subscribed"]
        /\ IF reg.stopped THEN UNCHANGED <<subs, holes>>
           ELSE /\ subs' = Forgotten(o, Names(new), subs)
                             \union Subscriptions(o, reg.client, reg.config, untagged)
                /\ Made(NoFault, IF untagged = new /\ Names(new) \intersect Names(reg.watching) = {}
                                 THEN {} ELSE {"tag"})
  /\ UNCHANGED <<backend, storeVars>>

ConsulSwap_NoSoftDelete(o) ==
  /\ objects[o].refreshing = "subscribed"
  /\ LET reg == objects[o]
         gone == reg.watching \ reg.next
     IN /\ objects' = [objects EXCEPT ![o] =
             IF reg.stopped THEN Ended(reg)
             ELSE [reg EXCEPT !.watching = reg.next, !.next = {},
                            !.refreshing = "waits", !.asked = Asked(reg.config, reg.query)]]
        /\ subs' = StopPlans(o, Names(gone))
  /\ UNCHANGED <<backend, holes, storeVars>>

ConsulSwap_AsksAsBefore(o) ==
  /\ objects[o].refreshing = "subscribed"
  /\ LET reg == objects[o]
         gone == reg.watching \ reg.next
     IN /\ objects' = [objects EXCEPT ![o] =
             IF reg.stopped THEN Ended(reg)
             ELSE [reg EXCEPT !.watching = reg.next, !.soft = @ \union gone, !.next = {},
                            !.refreshing = "waits"]]
        /\ subs' = StopPlans(o, Names(gone))
  /\ UNCHANGED <<backend, holes, storeVars>>

(* The rest of refresh: what is no longer listed is unsubscribed, but its  *)
(* entry stays until Reload or Stop.  The server is asked again, for what  *)
(* Start was given.                                                        *)
ConsulSwap(o) ==
  /\ objects[o].refreshing = "subscribed"
  /\ LET reg == objects[o]
         gone == reg.watching \ reg.next
     IN /\ objects' = [objects EXCEPT ![o] =
             IF reg.stopped THEN Ended(reg)
             ELSE [reg EXCEPT !.watching = reg.next, !.soft = @ \union gone, !.next = {},
                            !.refreshing = "waits", !.asked = Asked(reg.config, reg.query)]]
        /\ subs' = StopPlans(o, Names(gone))
  /\ UNCHANGED <<backend, holes, storeVars>>

ConsulRefresh(o) == ConsulSubscribe(o) \/ ConsulSwap(o)

(* Between the halves of a refresh, Stop and Reload do not know of the     *)
(* first, nor the second of them.                                          *)
Overlap(o, fetched) ==
  LET reg == objects[o]
  IN IF reg.refreshing = "subscribed" /\ ~(reg.next = reg.watching /\ reg.next = fetched)
     THEN {"overlap"} ELSE {}

ConsulStop(o, f) ==
  LET reg == objects[o]
  IN /\ objects' = [objects EXCEPT ![o].stopped = TRUE]
     /\ subs' = StopPlans(o, Names(reg.watching))
     /\ StoreDelete(HostsOf(o, reg.config, reg.watching \union reg.soft), f)
     /\ Made(f, Overlap(o, reg.watching))

ConsulReload_SubscribesNew(o, c, f) ==
  LET reg == objects[o]
      fetched == Listed(c)
      known == reg.soft \union reg.watching
      left == HostsOf(o, reg.config, known \intersect fetched) \ HostsOf(o, c, fetched)
  IN /\ objects' = [objects EXCEPT ![o].config = c, ![o].client = @ + 1,
                                      ![o].watching = fetched, ![o].soft = {}]
     /\ subs' = Forgotten(o, Names(fetched), StopPlans(o, Names(reg.watching)))
                  \union Subscriptions(o, reg.client + 1, c, fetched \ reg.watching)
     /\ StoreDelete(HostsOf(o, reg.config, known \ fetched), f)
     /\ Made(f, Overlap(o, fetched) \union (IF left = {} THEN {} ELSE {"namespace"})
                  \union IF Asked(c, reg.query) = c THEN {} ELSE {"datacenter"})

(* Reload: what the new server does not have is deleted under the keys of  *)
(* the old client, and everything else subscribed anew.                    *)
ConsulReload(o, c, f) ==
  LET reg == objects[o]
      fetched == Listed(c)
      known == reg.soft \union reg.watching
      left == HostsOf(o, reg.config, known \intersect fetched) \ HostsOf(o, c, fetched)
  IN /\ objects' = [objects EXCEPT ![o].config = c, ![o].client = @ + 1,
                                      ![o].watching = fetched, ![o].soft = {}]
     /\ subs' = Forgotten(o, Names(fetched), StopPlans(o, Names(reg.watching)))
                  \union Subscriptions(o, reg.client + 1, c, fetched)
     /\ StoreDelete(HostsOf(o, reg.config, known \ fetched), f)
     /\ Made(f, Overlap(o, fetched) \union (IF left = {} THEN {} ELSE {"namespace"})
                  \union IF Asked(c, reg.query) = c THEN {} ELSE {"datacenter"})

(* Reload fails: the old client stays.                                     *)
ConsulUnloaded(f) == UNCHANGED <<objects, subs, entries, synced, cluster>> /\ Made(f, {})
=============================================================================
