--------------------------- MODULE FilterPolicies ---------------------------
(***************************************************************************)
(* What the controller of filter policies promises.  What should be        *)
(* enforced is defined here from the resources alone, and from the names   *)
(* that hosts cover, not from the way the translation matches them.        *)
(***************************************************************************)
EXTENDS FilterPolicyReconciler

CONSTANT Domains  \* the domain names of the instance, as labels

-----------------------------------------------------------------------------
(* What the resources ask for.                                             *)
Covers(host, domain) ==
  IF host.wild THEN IsStrictPrefix(host.labels, domain) ELSE host.labels = domain
Overlap(a, b) == \E d \in Domains : Covers(a, d) /\ Covers(b, d)

(* Hosts are sequences of labels, and each covers a domain of the instance. *)
ServersIn(spec) == {spec.servers[i] : i \in DOMAIN spec.servers}
HostsIn(n) ==
  UNION {IF n \in Routes THEN s.hosts ELSE UNION {x.hosts : x \in ServersIn(s)} : s \in Given(n)}
ASSUME DomainsAssumption ==
  /\ \A d \in Domains : d \in Seq(Range(d))
  /\ \A h \in UNION {HostsIn(n) : n \in Routes \union Gateways} :
       /\ h = [wild |-> h.wild, labels |-> h.labels] /\ h.wild \in BOOLEAN
       /\ h.labels \in Seq(Range(h.labels)) /\ (h.wild \/ h.labels # <<>>)
       /\ \E d \in Domains : Covers(h, d)

Spec0(p) == api[p].spec
Live(p) == api[p] # Absent /\ Spec0(p).target # Absent /\ Spec0(p).valid
Sound(n) == api[n] # Absent /\ api[n].valid
IsRoute(R) == api[R].kind = "HTTPRoute"

(* The servers of gateways; those of sound ones that a route is attached   *)
(* to.                                                                     *)
Slots == UNION {{g} \X DOMAIN api[g].servers : g \in Existing(api, Gateways)}
ServerAt(slot) == api[slot[1]].servers[slot[2]]
AttachedTo(R, g, s) ==
  IF IsRoute(R) THEN s.allows /\ \E ref \in api[R].gateways : ref.name = g /\ ref.section \in {"any", s.name}
  ELSE g \in api[R].gateways
Servers(R) == {ServerAt(x) : x \in {y \in Slots : Sound(y[1]) /\ AttachedTo(R, y[1], ServerAt(y))}}
Attached(R) == api[R] # Absent /\ Servers(R) # {}

HasSection(p) ==
  LET t == Spec0(p).target
  IN \/ Spec0(p).section = "any"
     \/ t \in Routes /\ Spec0(p).section \in api[t].routes
     \/ t \in Gateways /\ \E i \in DOMAIN api[t].servers : api[t].servers[i].name = Spec0(p).section
Effective(p) ==
  /\ Live(p) /\ Sound(Spec0(p).target) /\ HasSection(p)
  /\ IF Spec0(p).target \in Routes THEN Attached(Spec0(p).target) ELSE lds

(* The configurations that apply to a route of a route resource, or to a   *)
(* section of a gateway, each with how specific and how old it is.  An     *)
(* annotation counts in Istio's own resources, valid or not.               *)
Config(specific, p, filters) == [specific |-> specific, age |-> api[p].created, name |-> p, filters |-> filters]
OfAnnotation(specific, filters) == [specific |-> specific, age |-> 0, name |-> "embedded", filters |-> filters]
HasAnnotation(n) == api[n].embedded # Absent /\ api[n].kind \in {"VirtualService", "Istio"}
PoliciesOf(n) == {p \in Policies : Effective(p) /\ Spec0(p).target = n}
RouteConfigs(R, r) ==
  LET whole == {p \in PoliciesOf(R) : Spec0(p).section = "any"}
  IN {Config(0, p, Spec0(p).filters) : p \in whole}
     \union {Config(1, p, Spec0(p).sub[r]) : p \in {q \in whole : r \in DOMAIN Spec0(q).sub}}
     \union {Config(1, p, Spec0(p).filters) : p \in {q \in PoliciesOf(R) : Spec0(q).section = r}}
     \union IF ~HasAnnotation(R) THEN {}
            ELSE {OfAnnotation(0, api[R].embedded.filters)}
                 \union {OfAnnotation(1, api[R].embedded.sub[s]) : s \in {r} \intersect DOMAIN api[R].embedded.sub}
SectionConfigs(g, s) ==
  {Config(0, p, Spec0(p).filters) : p \in {q \in PoliciesOf(g) : Spec0(q).section = "any"}}
  \union {Config(1, p, Spec0(p).filters) : p \in {q \in PoliciesOf(g) : Spec0(q).section = s}}
  \union IF HasAnnotation(g) THEN {OfAnnotation(0, api[g].embedded.filters)} ELSE {}

(* GEP-713: the more specific configuration of a plugin, or else the older *)
(* one, or else the first by name.                                         *)
Wins(c, d) ==
  IF c.specific # d.specific THEN c.specific > d.specific
  ELSE IF c.age # d.age THEN c.age < d.age
  ELSE c.name = d.name \/ Rank(Alphabetical, c.name) < Rank(Alphabetical, d.name)
InForce(configs) ==
  [f \in UNION {DOMAIN c.filters : c \in configs} |->
     LET rivals == {c \in configs : f \in DOMAIN c.filters}
     IN (CHOOSE c \in rivals : \A d \in rivals : Wins(c, d)).filters[f]]

(* The virtual hosts of a route resource.                                  *)
Serves(R, s, host) == (IsRoute(R) /\ s.hosts = {}) \/ \E h \in s.hosts : Overlap(h, host)
HostOf(R, s, host) ==
  IF IsRoute(R) /\ host = AnyHost /\ s.hosts # {} THEN CHOOSE h \in s.hosts : TRUE ELSE host
HostsOf(R) == IF IsRoute(R) /\ api[R].hosts = {} THEN {AnyHost} ELSE api[R].hosts
VHosts(R) == {VirtualHost(HostOf(R, x[1], x[2]), x[1].port) :
                x \in {y \in Servers(R) \X HostsOf(R) : Serves(R, y[1], y[2])}}
Targeted(R) == Attached(R) /\ (PoliciesOf(R) # {} \/ HasAnnotation(R))

(* Where the order of maps decides, nothing is asked for: virtual hosts of *)
(* two resources, ports of two sections.                                   *)
Alone(R) == \A S \in Routes \ {R} : Targeted(S) => VHosts(S) \intersect VHosts(R) = {}
SlotsOf(port) == {x \in Slots : ServerAt(x).port = port}
AskedPorts == IF lds THEN {ServerAt(x).port : x \in Slots} ELSE {}

(* Resources that the translation does not see for what they are: routes   *)
(* resources without routes, whose virtual hosts others join; those that   *)
(* name sections and several gateways, as each section is looked for in    *)
(* all of them; gateways with servers of one name and several ports.  They *)
(* affect others, and nothing is asked for then.                           *)
Bare(R) == (IsRoute(R) \/ HasAnnotation(R)) /\ api[R].routes = {}
Sectioned(R) ==
  IsRoute(R) /\ \E a, b \in api[R].gateways : a.name # b.name /\ a.section # "any"
Misread ==
  \/ \E R \in Existing(api, Routes) : Bare(R) \/ Sectioned(R)
  \/ \E x, y \in Slots : /\ x[1] = y[1] /\ ServerAt(x).name = ServerAt(y).name
                         /\ ServerAt(x).port # ServerAt(y).port

Patches == UNION {efs[k].spec : k \in {x \in DOMAIN efs : x[1] = "h"}}
RoutesCorrect ==
  /\ \A R \in Routes : Targeted(R) /\ Alone(R) =>
       \A v \in VHosts(R) :
         {q \in Patches : q.vhost = v} =
           {[vhost |-> v, route |-> r, filters |-> InForce(RouteConfigs(R, r))] :
              r \in {s \in api[R].routes : RouteConfigs(R, s) # {}}}
  /\ {q.vhost : q \in Patches} = UNION {VHosts(R) : R \in {S \in Routes : Targeted(S)}}
ListenersCorrect ==
  /\ {k[2] : k \in {x \in DOMAIN efs : x[1] = "lds"}} = AskedPorts
  /\ \A x \in Slots :
       LET port == ServerAt(x).port
       IN lds /\ SlotsOf(port) = {x} =>
            efs[ListenerKey(port)].spec =
              {[vhost |-> "listener", route |-> "any",
                filters |-> InForce(SectionConfigs(x[1], ServerAt(x).name))]}
Correct == ~Misread => RoutesCorrect /\ ListenersCorrect

-----------------------------------------------------------------------------
(* At rest: nothing asked for, under way or on its way.                    *)
Seen == \A k \in Kinds : watch[k] = <<>>
Quiet == phase = "idle" /\ ~queued /\ Seen /\ efWatch = <<>>

(* Reconcile's variables have the values the code gives them, and nothing  *)
(* is retained from a reconciliation that is over.                         *)
PolicyTypeOK ==
  /\ phase \in {"idle", "resolve", "output", "status"}
  /\ at \in 1..(Len(items) + 1)
  /\ phase = "idle" => items = <<>>
  /\ init # NewInitState => phase \in {"resolve", "output"}
  /\ routeIndex \subseteq Routes /\ gwIndex \subseteq Gateways /\ gateways \subseteq Gateways
  /\ \A p \in Policies : api[p] # Absent => api[p].status.gen <= api[p].gen
  /\ Seen => cache = api
  /\ efWatch = <<>> => efCache = efs

(* At rest the EnvoyFilters are those that the resources ask for, unless   *)
(* the code has missed something (holes): each virtual host and route has, *)
(* for each plugin, the configuration that takes precedence, and nothing   *)
(* else is patched (Reconcile, with everything it calls).                  *)
Enforced == Quiet /\ holes \subseteq {"status"} => Correct

(* At rest the condition of a policy says what became of its current       *)
(* generation, unless a gateway's change was missed, or the status in the  *)
(* informer's copy was older than the API server's (updatePolicies).       *)
Reason(p) == CASE ~Live(p) -> "Invalid"
               [] Live(p) /\ Effective(p) -> "Accepted"
               [] Live(p) /\ ~Effective(p) -> "TargetNotFound"
StatusIsTrue ==
  Quiet /\ holes \intersect {"gateway", "status"} = {} =>
    \A p \in Policies :
      api[p] # Absent /\ (Live(p) /\ Spec0(p).target \in Gateways => lds) =>
        api[p].status = [reason |-> Reason(p), gen |-> api[p].gen]

(* At rest a policy's route, and the gateways of the route, are indexed,   *)
(* whatever they are: what is invalid or absent wakes the controller up    *)
(* when that changes (resolveWithVirtualService).                          *)
WatchesDependencies ==
  Quiet => \A p \in Policies :
    Live(p) /\ Spec0(p).target \in Routes =>
      LET R == Spec0(p).target
      IN /\ R \in routeIndex
         /\ Sound(R) /\ HasSection(p) => Named(api[R]) \subseteq gwIndex

(* Whatever fails, and even if the controller restarts, it comes to rest   *)
(* once the users do: no error is retried for ever, and no two steps undo  *)
(* one another.                                                            *)
Converges == <>[]Quiet

(* What is enforced stays enforced as long as no user changes anything:    *)
(* neither failures, nor restarts, nor retries with old copies take it     *)
(* away (Reconcile returns at the first error, before any output).         *)
Undisturbed == UpToDate /\ (phase = "idle" \/ fresh)
UndisturbedStays == [][Undisturbed /\ Correct => Correct']_efs
=============================================================================
