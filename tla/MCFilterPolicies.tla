-------------------------- MODULE MCFilterPolicies --------------------------
(* A small instance of FilterPolicies for TLC.                             *)
EXTENDS FilterPolicies, TLC

Exact(labels) == [wild |-> FALSE, labels |-> labels]
Wild(labels) == [wild |-> TRUE, labels |-> labels]
A == <<"com", "a">>
MCDomains == {<<"com">>, A, <<"com", "b">>, <<"com", "a", "w">>, <<"com", "a", "w", "x">>, <<"org">>}
MCAlphabetical == <<"embedded", "p1", "p2">>

Policy(target, section, valid, filters, sub) ==
  [target |-> target, section |-> section, valid |-> valid, filters |-> filters, sub |-> sub]
Limit(n) == "limit" :> n
Auth(n) == "auth" :> n
Whole == Policy("vs", "any", TRUE, Limit(1) @@ Auth(1), "r1" :> Limit(2))
Section == Policy("vs", "r1", TRUE, Limit(3), Nothing)
Wrong == Policy("vs", "any", FALSE, Limit(4), Nothing)
Other == Policy("vs", "any", TRUE, Limit(5), Nothing)
OnRoute == Policy("hr", "any", TRUE, Limit(6), Nothing)
OnGateway == Policy("ig", "any", TRUE, Auth(7), Nothing)
OnListener == Policy("kg", "web", TRUE, Auth(8), Nothing)

VS(hosts, gws, valid, embedded) ==
  [kind |-> "VirtualService", hosts |-> hosts, routes |-> {"r1", "r2"}, gateways |-> gws,
   valid |-> valid, embedded |-> embedded]
Plain == VS({Exact(A), Wild(A)}, {"ig"}, TRUE, Absent)
Annotated == VS({Wild(A)}, {"ig"}, TRUE, [filters |-> Auth(9), sub |-> Nothing])
HR == [kind |-> "HTTPRoute", hosts |-> {}, routes |-> {"h1"}, valid |-> TRUE, embedded |-> Absent,
       gateways |-> {[name |-> "kg", section |-> "any"]}]

Server(name, port, hosts, allows) == [name |-> name, port |-> port, hosts |-> hosts, allows |-> allows]
Gateway(kind, valid, servers) == [kind |-> kind, valid |-> valid, servers |-> servers, embedded |-> Absent]
IG(valid) == Gateway("Istio", valid, <<Server("http", 80, {Wild(<<"com">>)}, TRUE)>>)
Gated == [IG(TRUE) EXCEPT !.embedded = [filters |-> Limit(10), sub |-> Nothing]]
KG(allows) == Gateway("K8s", TRUE, <<Server("web", 8080, {Wild(<<"com", "a", "w">>)}, allows),
                                     Server("alt", 8081, {}, TRUE)>>)

MCSpecs == [p1 |-> {Whole, Section}, p2 |-> {Other, OnGateway, Wrong},
            vs |-> {Plain, Annotated}, hr |-> {HR}, ig |-> {IG(TRUE), IG(FALSE)}, kg |-> {KG(TRUE), KG(FALSE)}]
(* A gateway that becomes valid; two policies and an annotation; a route of *)
(* the Gateway API; gateways with policies of their own.                    *)
Cluster(l, w, f, specs) == [lds |-> l, writes |-> w, faults |-> f, specs |-> specs]
MCClusters == {
  Cluster(FALSE, 2, 0, [p1 |-> Whole, vs |-> Plain, ig |-> IG(FALSE)]),
  Cluster(FALSE, 1, 1, [p1 |-> Whole, p2 |-> Other, vs |-> Annotated, ig |-> IG(TRUE)]),
  Cluster(FALSE, 1, 2, [p2 |-> OnRoute, hr |-> HR, kg |-> KG(TRUE)]),
  Cluster(TRUE, 1, 1, [p1 |-> OnListener, kg |-> KG(TRUE)]),
  Cluster(TRUE, 1, 1, [p2 |-> OnGateway, vs |-> Plain, ig |-> Gated])}
=============================================================================
