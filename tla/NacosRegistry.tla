--------------------------- MODULE NacosRegistry ---------------------------
(***************************************************************************)
(* The Nacos registry: objects that fetch the list of services, subscribe  *)
(* each, and put what the subscriptions report in the store.  Start, Stop  *)
(* and Reload are called by the controller, refresh by a ticker, the       *)
(* callbacks by the SDK of each client the object has ever created.        *)
(*                                                                         *)
(* External: the SDK.  A client goes on with a subscription until it is    *)
(* taken back from that very client, and may or may not report that a      *)
(* service has no hosts.                                                   *)
(***************************************************************************)
EXTENDS RegistryObjects

(* The client.  FetchAllServices may miss a service that is there.         *)
Fetched(c, f) == {k \in Listed(c) : f # <<"miss", k>>}
Served(keys, f) == {k \in keys : f # <<"subscribe", k>>}
Unsubscribe(o, n, keys, f) ==
  TakenBack(subs, {sub \in Of(o, n, keys) : f # <<"unsubscribe", sub.service>>})
(* A service that could not be unsubscribed before is subscribed once.     *)
Resubscribed(o, all, keys) ==
  LET reg == objects[o]
      again == {sub \in Of(o, reg.client, keys) : sub.active}
  IN TakenBack(all, again) \union Subscriptions(o, reg.client, reg.config, keys)

-----------------------------------------------------------------------------
Start_WatchesAll(r, c, f) ==
  LET o == Len(objects) + 1
      watching == Served(Fetched(c, f), f)
  IN /\ f[1] \in {"miss", "subscribe"} => f[2] \in Listed(c)
     /\ f[1] # "unsubscribe"
     /\ objects' = Append(objects, [name |-> r, config |-> c, client |-> 1,
                                    watching |-> Fetched(c, f), soft |-> {}, next |-> {},
                                    stopped |-> FALSE, refreshing |-> "waits"])
     /\ subs' = subs \union Subscriptions(o, 1, c, watching)
     /\ Made(NoFault, {})

(* A service whose subscription fails is not watched: refresh tries again. *)
Start(r, c, f) ==
  LET o == Len(objects) + 1
      watching == Served(Fetched(c, f), f)
  IN /\ f[1] \in {"miss", "subscribe"} => f[2] \in Listed(c)
     /\ f[1] # "unsubscribe"
     /\ objects' = Append(objects, [name |-> r, config |-> c, client |-> 1,
                                    watching |-> watching, soft |-> {}, next |-> {},
                                    stopped |-> FALSE, refreshing |-> "waits"])
     /\ subs' = subs \union Subscriptions(o, 1, c, watching)
     /\ Made(NoFault, {})

Refresh_NoSoftDelete(o) ==
  /\ objects[o].refreshing = "waits"
  /\ \E f \in ServiceFaults :
       LET reg == objects[o]
           fetched == Fetched(reg.config, f)
           new == fetched \ reg.watching
           gone == reg.watching \ fetched
       IN /\ f[1] = "miss" => f[2] \in Listed(reg.config)
          /\ f[1] = "subscribe" => f[2] \in new
          /\ f[1] = "unsubscribe" => f[2] \in gone
          /\ objects' = [objects EXCEPT ![o].watching = fetched]
          /\ subs' = Resubscribed(o, Unsubscribe(o, reg.client, gone, f), Served(new, f))
          /\ Made(f, {}) /\ Count(f)
  /\ UNCHANGED <<backend, entries, synced, cluster>>

Refresh_Deletes(o) ==
  /\ objects[o].refreshing = "waits"
  /\ \E f \in ServiceFaults :
       LET reg == objects[o]
           fetched == Fetched(reg.config, f)
           new == fetched \ reg.watching
           gone == reg.watching \ fetched
       IN /\ f[1] = "miss" => f[2] \in Listed(reg.config)
          /\ f[1] = "subscribe" => f[2] \in new
          /\ f[1] = "unsubscribe" => f[2] \in gone
          /\ objects' = [objects EXCEPT ![o].watching = fetched, ![o].soft = @ \union gone]
          /\ subs' = Resubscribed(o, Unsubscribe(o, reg.client, gone, f), Served(new, f))
          /\ StoreDelete(HostsOf(o, reg.config, gone), NoFault)
          /\ Made(f, {}) /\ Count(f)
  /\ UNCHANGED backend

(* refresh: new services are subscribed, those no longer listed            *)
(* unsubscribed, but their entries stay until Reload or Stop.              *)
Refresh(o) ==
  /\ objects[o].refreshing = "waits"
  /\ \E f \in ServiceFaults :
       LET reg == objects[o]
           fetched == Fetched(reg.config, f)
           new == fetched \ reg.watching
           gone == reg.watching \ fetched
       IN /\ f[1] = "miss" => f[2] \in Listed(reg.config)
          /\ f[1] = "subscribe" => f[2] \in new
          /\ f[1] = "unsubscribe" => f[2] \in gone
          /\ objects' = [objects EXCEPT ![o].watching = fetched, ![o].soft = @ \union gone]
          /\ subs' = Resubscribed(o, Unsubscribe(o, reg.client, gone, f), Served(new, f))
          /\ Made(f, {}) /\ Count(f)
  /\ UNCHANGED <<backend, entries, synced, cluster>>

Stop(o, f) ==
  LET reg == objects[o]
  IN /\ f[1] = "unsubscribe" => f[2] \in reg.watching
     /\ f[1] \notin {"miss", "subscribe"}
     /\ objects' = [objects EXCEPT ![o].stopped = TRUE]
     /\ subs' = Unsubscribe(o, reg.client, reg.watching, f)
     /\ StoreDelete(HostsOf(o, reg.config, reg.watching \union reg.soft),
                    IF f[1] = "unsubscribe" THEN NoFault ELSE f)
     /\ Made(f, {})

Reload_SubscribesNew(o, c, f) ==
  LET reg == objects[o]
      fetched == Fetched(c, f)
      gone == (reg.soft \union reg.watching) \ fetched
      left == HostsOf(o, reg.config, reg.soft \union reg.watching)
                \ HostsOf(o, c, reg.soft \union reg.watching)
  IN /\ f[1] \in {"miss", "subscribe"} => f[2] \in Listed(c)
     /\ f[1] # "unsubscribe"
     /\ objects' = [objects EXCEPT ![o].config = c, ![o].client = @ + 1,
                                      ![o].watching = fetched, ![o].soft = {}]
     /\ subs' = subs \union Subscriptions(o, reg.client + 1, c, Served(fetched \ reg.watching, f))
     /\ StoreDelete(HostsOf(o, c, gone),
                    IF f[1] \in {"miss", "subscribe"} THEN NoFault ELSE f)
     /\ Made(f, IF left = {} THEN {} ELSE {"namespace"})

(* Reload: the new client takes the place of the old one first, so the     *)
(* keys of the entries are those of its namespace, and nothing is taken    *)
(* back from the old client.                                               *)
Reload(o, c, f) ==
  LET reg == objects[o]
      fetched == Fetched(c, f)
      gone == (reg.soft \union reg.watching) \ fetched
      left == HostsOf(o, reg.config, reg.soft \union reg.watching)
                \ HostsOf(o, c, reg.soft \union reg.watching)
  IN /\ f[1] \in {"miss", "subscribe"} => f[2] \in Listed(c)
     /\ f[1] # "unsubscribe"
     /\ objects' = [objects EXCEPT ![o].config = c, ![o].client = @ + 1,
                                      ![o].watching = fetched, ![o].soft = {}]
     /\ subs' = subs \union Subscriptions(o, reg.client + 1, c, Served(fetched, f))
     /\ StoreDelete(HostsOf(o, c, gone),
                    IF f[1] \in {"miss", "subscribe"} THEN NoFault ELSE f)
     /\ Made(f, IF left = {} THEN {} ELSE {"namespace"})

(* Reload fails: a client that could be created stays.                     *)
Unloaded(o, c, f) ==
  /\ objects' = IF f[1] = "client" THEN objects
                ELSE [objects EXCEPT ![o].config = c, ![o].client = @ + 1]
  /\ UNCHANGED <<subs, entries, synced, cluster>>
  /\ Made(f, {})

-----------------------------------------------------------------------------
(* "hosts is empty": the entry is deleted, whether stopped or not.         *)
ReportEmpty(sub) ==
  /\ sub.active /\ sub.updating = NoList /\ ~IsConsul(sub.config)
  /\ HostsNow(sub) = 0 /\ sub.seen # 0
  /\ subs' = (subs \ {sub}) \union {[sub EXCEPT !.seen = 0]}
  /\ \E f \in UpdateFaults({}) :
       /\ StoreDelete({HostOf(sub)}, f)
       /\ Made(f, IF IsCurrent(sub) \/ entries' = entries THEN {} ELSE {"stale"})
       /\ Count(f)
  /\ UNCHANGED <<backend, objects>>
=============================================================================
