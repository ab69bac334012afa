------------------------- MODULE PolicyTranslation -------------------------
(***************************************************************************)
(* The translation of filter policies (controller/internal/translation):   *)
(* from the policies and the resources they were resolved with, by way of  *)
(* the virtual hosts and the listeners, to EnvoyFilters.  It is a function *)
(* of the state that the reconciler has collected, but for the order of    *)
(* Go's maps.                                                              *)
(*                                                                         *)
(* One namespace.  A port stands for its number, bind address and          *)
(* protocol.  The filters of a policy are a function from plugins to       *)
(* configurations.  EnvoyFilters that never change are left out, and so is *)
(* the name that an EnvoyFilter has when its host is no valid name.        *)
(*                                                                         *)
(* A definition X_Fault just before X is X with a plausible mistake in it. *)
(***************************************************************************)
EXTENDS Naturals, FiniteSets, Sequences, SequencesExt

CONSTANT Alphabetical  \* the names of policies, in alphabetical order

Nothing == [k \in {} |-> k]
Put(f, key, value) == [k \in DOMAIN f \union {key} |-> IF k = key THEN value ELSE f[k]]
Rank(seq, x) == CHOOSE i \in DOMAIN seq : seq[i] = x

-----------------------------------------------------------------------------
(* Hosts: labels from the top-level domain on, after "*." or not.          *)
AnyHost == [wild |-> TRUE, labels |-> <<>>]

hostMatch_SameOnly(gwHost, host) ==
  \/ gwHost = host
  \/ gwHost.wild /\ IsStrictPrefix(gwHost.labels, host.labels)
hostMatch(gwHost, host) ==
  CASE gwHost.wild /\ host.wild -> \/ IsPrefix(gwHost.labels, host.labels)
                                   \/ IsPrefix(host.labels, gwHost.labels)
    [] gwHost.wild /\ ~host.wild -> IsStrictPrefix(gwHost.labels, host.labels)
    [] ~gwHost.wild /\ host.wild -> IsStrictPrefix(host.labels, gwHost.labels)
    [] ~gwHost.wild /\ ~host.wild -> gwHost = host

(* The virtual hosts of a VirtualService or an HTTPRoute, gateway by       *)
(* gateway.  A listener is matched if any parent names it, or names none.  *)
VirtualHost(host, port) == [host |-> host, port |-> port]

buildVirtualHostsWithIstioGw(vs, gw) ==
  {VirtualHost(x[1], gw.servers[x[2]].port) :
     x \in {y \in vs.hosts \X DOMAIN gw.servers :
              \E h \in gw.servers[y[2]].hosts : hostMatch(h, y[1])}}

Listener(ls, host) == IF host = AnyHost /\ ls.hosts # {} THEN CHOOSE h \in ls.hosts : TRUE ELSE host
buildVirtualHostsWithK8sGw(route, gw) ==
  LET hosts == IF route.hosts = {} THEN {AnyHost} ELSE route.hosts
      matched == {i \in DOMAIN gw.servers :
                    /\ gw.servers[i].allows
                    /\ \E ref \in route.gateways : ref.section \in {"any", gw.servers[i].name}}
  IN {VirtualHost(Listener(gw.servers[x[2]], x[1]), gw.servers[x[2]].port) :
        x \in {y \in hosts \X matched :
                 LET own == gw.servers[y[2]].hosts
                 IN own = {} \/ \E h \in own : hostMatch(h, y[1])}}

VirtualHosts(route, gws) ==
  UNION {IF route.kind = "VirtualService" THEN buildVirtualHostsWithIstioGw(route, gw)
         ELSE buildVirtualHostsWithK8sGw(route, gw) : gw \in gws}

-----------------------------------------------------------------------------
(* InitState: for each route resource, what it was when it was first       *)
(* resolved, its gateways, and which policies apply to which of its        *)
(* routes; for each section of a gateway that owns its port, the policies. *)
NoListeners == [sections |-> Nothing, bare |-> Nothing, owner |-> Nothing]
NewInitState == [routes |-> Nothing, listeners |-> NoListeners]

Wrapper(policy, scope, filters) ==
  [by |-> policy.name, created |-> policy.created, scope |-> scope, filters |-> filters]

(* The policies for the routes of an HTTPRoute: all of them.  For those of *)
(* a VirtualService: all, with the sub-policies beside, or the section     *)
(* that the target names.                                                  *)
RoutePolicies(policy, route) ==
  LET whole == {<<r, Wrapper(policy, "Route", policy.filters)>> : r \in route.routes}
      sub == {<<r, Wrapper(policy, "Rule", policy.sub[r])>> : r \in route.routes \intersect DOMAIN policy.sub}
  IN CASE route.kind = "HTTPRoute" -> whole
       [] route.kind = "VirtualService" /\ policy.section = "any" -> whole \union sub
       [] route.kind = "VirtualService" /\ policy.section # "any" ->
            {<<policy.section, Wrapper(policy, "Rule", policy.filters)>>}

AddPolicyForRoute(st, policy, name, route, gws) ==
  LET before == IF name \in DOMAIN st.routes THEN st.routes[name]
                ELSE [route |-> route, gws |-> gws, policies |-> {}]
      after == [before EXCEPT !.policies = @ \union RoutePolicies(policy, route)]
  IN [st EXCEPT !.routes = Put(@, name, after)]

(* Gateways are added in this order, each with the policies given for it,  *)
(* one or none.  A port belongs to the first section that asks for it, and *)
(* the others are ignored.                                                 *)
AddGateways(ls, objects, order, policies) ==
  LET server(x) == objects[x[1]].servers[x[2]]
      section(x) == <<x[1], server(x).name>>
      wrappers(x) == {Wrapper(p, IF p.section = "any" THEN "Gateway" ELSE "Port", p.filters) : p \in policies[x[1]]}
      asking == {x \in UNION {{g} \X DOMAIN objects[g].servers : g \in Range(order)} :
                   \A p \in policies[x[1]] : p.section \in {"any", server(x).name}}
      before(x, y) == \/ Rank(order, x[1]) < Rank(order, y[1])
                      \/ x[1] = y[1] /\ x[2] <= y[2]
      first(xs) == CHOOSE x \in xs : \A y \in xs : before(x, y)
      owner == [port \in DOMAIN ls.owner \union {server(x).port : x \in asking} |->
                  IF port \in DOMAIN ls.owner THEN ls.owner[port]
                  ELSE section(first({x \in asking : server(x).port = port}))]
      heard == {x \in asking : owner[server(x).port] = section(x)}
      with == {x \in heard : policies[x[1]] # {}}
      of(xs, s) == {x \in xs : section(x) = s}
      prior(s) == IF s \in DOMAIN ls.sections THEN ls.sections[s]
                    ELSE [port |-> server(first(of(with, s))).port, policies |-> {}]
  IN [owner |-> owner,
      sections |-> [s \in DOMAIN ls.sections \union {section(x) : x \in with} |->
                      [prior(s) EXCEPT !.policies = @ \union UNION {wrappers(x) : x \in of(with, s)}]],
      bare |-> [s \in DOMAIN ls.bare \union {section(x) : x \in heard \ with} |->
                  IF s \in DOMAIN ls.bare THEN ls.bare[s] ELSE server(first(of(heard \ with, s))).port]]

-----------------------------------------------------------------------------
(* toDataPlaneState, with the resources in this order.  A virtual host     *)
(* belongs to the first resource with it.  All virtual hosts of a resource *)
(* have the same map of routes; a resource whose virtual host is already   *)
(* there adds its routes to the map of the resource that came first.       *)
RoutesOf(resource) ==
  [r \in {p[1] : p \in resource.policies} |-> {p[2] : p \in {q \in resource.policies : q[1] = r}}]

toDataPlaneState(st, order) ==
  LET vhosts == [n \in DOMAIN st.routes |-> VirtualHosts(st.routes[n].route, st.routes[n].gws)]
      own == [n \in DOMAIN st.routes |-> RoutesOf(st.routes[n])]
      first(names) == CHOOSE n \in names : \A m \in names : Rank(order, n) <= Rank(order, m)
      last(names) == CHOOSE n \in names : \A m \in names : Rank(order, m) <= Rank(order, n)
      owner == [v \in UNION {vhosts[n] : n \in DOMAIN vhosts} |-> first({n \in DOMAIN vhosts : v \in vhosts[n]})]
      joining(n) == {m \in DOMAIN vhosts : m = n \/ \E v \in vhosts[m] : owner[v] = n}
  IN [owner |-> owner,
      routes |-> [n \in DOMAIN vhosts |->
                    [r \in UNION {DOMAIN own[m] : m \in joining(n)} |->
                       own[last({m \in joining(n) : r \in DOMAIN own[m]})][r]]]]

Sections(ls, port) == {s \in DOMAIN ls.sections : ls.sections[s].port = port}
Ports(ls) == {ls.sections[s].port : s \in DOMAIN ls.sections} \union {ls.bare[s] : s \in DOMAIN ls.bare}

-----------------------------------------------------------------------------
(* sortFilterPolicy: the more specific scope, then the older, then the     *)
(* name.  A plugin has the configuration of the first policy with it.      *)
Scopes == <<"Rule", "Route", "Port", "Gateway">>

Precedes_NewestFirst(a, b) ==
  \/ Rank(Scopes, a.scope) < Rank(Scopes, b.scope)
  \/ a.scope = b.scope /\ a.created > b.created
  \/ /\ a.scope = b.scope /\ a.created = b.created
     /\ Rank(Alphabetical, a.by) < Rank(Alphabetical, b.by)
Precedes(a, b) ==
  \/ Rank(Scopes, a.scope) < Rank(Scopes, b.scope)
  \/ a.scope = b.scope /\ a.created < b.created
  \/ /\ a.scope = b.scope /\ a.created = b.created
     /\ Rank(Alphabetical, a.by) < Rank(Alphabetical, b.by)

toMergedPolicy(wrappers) ==
  LET plugins == UNION {DOMAIN w.filters : w \in wrappers}
      having(f) == {w \in wrappers : f \in DOMAIN w.filters}
      first == [f \in plugins |-> CHOOSE w \in having(f) : \A v \in having(f) \ {w} : Precedes(w, v)]
  IN [filters |-> [f \in plugins |-> first[f].filters[f]],
      info |-> {first[f].by : f \in plugins}]

(* toFinalState: one EnvoyFilter for a host, whatever the ports, unless it *)
(* is any host; and one for a listener.                                    *)
Patch(vhost, route, merged) == [vhost |-> vhost, route |-> route, filters |-> merged.filters]
HostKey(v) == <<"h", v.host, IF v.host = AnyHost THEN v.port ELSE 0>>
ListenerKey(port) == <<"lds", port>>

RouteFilters(dp) ==
  LET of(v) == dp.routes[dp.owner[v]]
      configured == {v \in DOMAIN dp.owner : DOMAIN of(v) # {}}
      vhosts(key) == {v \in configured : HostKey(v) = key}
      merged(v, r) == toMergedPolicy(of(v)[r])
      filter(key) ==
        [spec |-> UNION {{Patch(v, r, merged(v, r)) : r \in DOMAIN of(v)} : v \in vhosts(key)},
         info |-> UNION {UNION {merged(v, r).info : r \in DOMAIN of(v)} : v \in vhosts(key)}]
  IN [key \in {HostKey(v) : v \in configured} |-> filter(key)]

ListenerFilters(ls) ==
  LET merged(port) == IF Sections(ls, port) = {} THEN toMergedPolicy({})
                      ELSE toMergedPolicy(ls.sections[CHOOSE s \in Sections(ls, port) : TRUE].policies)
  IN [key \in {ListenerKey(p) : p \in Ports(ls)} |->
        [spec |-> {Patch("listener", "any", merged(key[2]))}, info |-> merged(key[2]).info]]

(* Process: what it may return, depending on the order of the maps.        *)
Generated(hosts, listeners) ==
  [key \in DOMAIN hosts \union DOMAIN listeners |->
     IF key \in DOMAIN hosts THEN hosts[key] ELSE listeners[key]]
Process(st) ==
  {Generated(RouteFilters(dp), ListenerFilters(st.listeners)) :
     dp \in {toDataPlaneState(st, order) : order \in SetToSeqs(DOMAIN st.routes)}}
=============================================================================
