------------------------ MODULE MCServiceRegistries ------------------------
(* Small instances of ServiceRegistries for TLC.                           *)
EXTENDS ServiceRegistries

(* Two Nacos servers with one namespace, one with two namespaces, two      *)
(* Consul servers with one datacenter, and one with two datacenters.       *)
MCWorlds == {{"A", "B"}, {"A", "C"}, {"K", "L"}, {"M", "N"}}
MCBudget(world) == IF "B" \in world THEN 4 ELSE IF "C" \in world THEN 2 ELSE 3
Place ==
  [A |-> "one", B |-> "one", C |-> "two", K |-> "one", L |-> "one", M |-> "one", N |-> "two"]
MCAsked(c, d) == IF {c, d} = {"M", "N"} THEN d ELSE c

MCKeys == {<<"-", "s1">>, <<"-", "s2">>, <<"t", "s1">>}
MCHost(r, c, k) == <<k, Place[c], r>>
MCHosts ==
  {MCHost(r, "A", k) : r \in Registries, k \in MCKeys} \union
  {MCHost(r, "N", k) : r \in Registries, k \in MCKeys}

MCCatalogue ==
  {<<"A", "s1">>, <<"A", "s2">>, <<"K", "s1">>, <<"L", "s1">>, <<"N", "s2">>}
MCRegistered ==
  {<<"A", "s1", "-">>, <<"B", "s1", "-">>, <<"C", "s1", "-">>,
   <<"K", "s1", "-">>, <<"M", "s2", "-">>, <<"N", "s1", "-">>}
=============================================================================
