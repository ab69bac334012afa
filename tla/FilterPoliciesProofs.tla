------------------------ MODULE FilterPoliciesProofs ------------------------
(***************************************************************************)
(* Theorems about the controller of filter policies, for any resources,    *)
(* writes, failures and restarts.                                          *)
(*                                                                         *)
(* The invariant says what the controller knows at each point of a         *)
(* reconciliation: what it has listed, resolved, indexed and judged is so  *)
(* of the informers' copies as they are now, unless a reconciliation is    *)
(* asked for again; and the changes on their way to an informer lead from  *)
(* its copy to what the API server has.  At rest none is on its way, and   *)
(* the theorems follow.                                                    *)
(*                                                                         *)
(* A second invariant (CInv) says the same of what has been collected for  *)
(* the translation, and of the EnvoyFilters written from it.  That what is *)
(* collected of all policies comes to what is to be enforced is a fact of  *)
(* the translation alone: of hosts, precedence, virtual hosts and ports.   *)
(***************************************************************************)
EXTENDS FilterPolicies, FiniteSetTheorems, TLAPS

-----------------------------------------------------------------------------
(* Types.                                                                  *)
Statuses == [reason : Reasons, gen : Nat]
Targeting(spec) == spec.target # Absent /\ spec.valid
JudgedRight(o) == o.status.gen = o.gen => (o.status.reason = "Invalid" <=> ~Targeting(o.spec))
PolicyVersions(p) ==
  {o \in Objects(p) : o.created > 0 /\ o.gen > 0 /\ o.status.gen <= o.gen /\ JudgedRight(o)}
Versions(n) == {Absent} \union IF n \in Policies THEN PolicyVersions(n) ELSE Given(n)
Version == UNION {Versions(n) : n \in Names}
WithStatus(o, status) == [o EXCEPT !.status = status]

Typed(objects) == objects \in [Names -> Version] /\ \A n \in Names : objects[n] \in Versions(n)
Events == Names \X Version
TypedWatch ==
  /\ watch \in [Kinds -> Seq(Events)]
  /\ \A k \in Kinds : \A i \in DOMAIN watch[k] :
       /\ KindOf(watch[k][i][1]) = k
       /\ watch[k][i][2] \in Versions(watch[k][i][1])
Listing == [name : Policies, obj : Version, status : Statuses]
ItemsTyped ==
  /\ items \in Seq(Listing)
  /\ \A i \in DOMAIN items :
       /\ items[i].obj \in PolicyVersions(items[i].name)
       /\ WithStatus(items[i].obj, items[i].status) \in PolicyVersions(items[i].name)
  /\ \A i, j \in DOMAIN items : items[i].name = items[j].name => i = j

Collected(st) == st = [routes |-> st.routes, listeners |-> st.listeners]
Scalars ==
  /\ phase \in {"idle", "resolve", "output", "status"}
  /\ lds \in BOOLEAN /\ queued \in BOOLEAN
  /\ writes \in Nat /\ writes < MaxAge /\ faults \in Nat
  /\ at \in 1..(Len(items) + 1)
  /\ phase = "idle" => items = <<>>
  /\ phase = "output" => at = 1
  /\ Collected(init)
  /\ init # NewInitState => phase \in {"resolve", "output"}
  /\ routeIndex \subseteq Routes /\ gwIndex \subseteq Gateways /\ gateways \subseteq Gateways
Untouched == phase = "resolve" => \A i \in DOMAIN items : i >= at => items[i].status = items[i].obj.status

(* The informers' copies, and what is on its way to them.                  *)
Follows(old, new) ==
  old # Absent /\ new # Absent /\ old.gen = new.gen => old.spec = new.spec /\ old.created = new.created
Tracked(w, n, old, new) ==
  \/ old = new /\ \A i \in DOMAIN w : w[i][1] # n
  \/ \E i \in DOMAIN w : w[i][1] = n /\ w[i][2] = new /\ \A j \in DOMAIN w : j > i => w[j][1] # n
Successive(w, n, old) ==
  \A j \in DOMAIN w : w[j][1] = n =>
    \/ Follows(old, w[j][2]) /\ \A i \in DOMAIN w : i < j => w[i][1] # n
    \/ \E i \in DOMAIN w : /\ i < j /\ w[i][1] = n /\ Follows(w[i][2], w[j][2])
                           /\ \A l \in DOMAIN w : i < l /\ l < j => w[l][1] # n
Synced ==
  /\ \A n \in Names : Tracked(watch[KindOf(n)], n, cache[n], api[n])
  /\ \A p \in Policies : Successive(watch["policy"], p, cache[p])

(* The same of EnvoyFilters.                                               *)
Found(filters, key) == IF key \in DOMAIN filters THEN {filters[key]} ELSE {}
OutputTyped ==
  /\ efs = [k \in DOMAIN efs |-> efs[k]]
  /\ efCache = [k \in DOMAIN efCache |-> efCache[k]]
  /\ efWatch \in Seq(Range(efWatch))
  /\ \A i \in DOMAIN efWatch : efWatch[i][2] = {} \/ \E ef \in efWatch[i][2] : efWatch[i][2] = {ef}
Keys == DOMAIN efs \union DOMAIN efCache \union {efWatch[i][1] : i \in DOMAIN efWatch}
OutputSynced == \A key \in Keys : Tracked(efWatch, key, Found(efCache, key), Found(efs, key))

(* What the controller knows.                                              *)
SameSpec(old, new) == old.gen = new.gen /\ old.spec = new.spec /\ old.created = new.created
Listed ==
  phase # "idle" /\ ~queued =>
    /\ \A p \in Policies : cache[p] # Absent => \E i \in DOMAIN items : items[i].name = p
    /\ \A i \in DOMAIN items : /\ cache[items[i].name] # Absent
                               /\ SameSpec(items[i].obj, cache[items[i].name])
RoutesWatched ==
  ~queued => \A p \in Policies :
    cache[p] # Absent /\ cache[p].spec.target \in Routes => cache[p].spec.target \in routeIndex

Resolved(p) ==
  cache[p] # Absent /\ (phase = "resolve" => \E i \in DOMAIN items : i < at /\ items[i].name = p)
DependsOn(spec) ==
  IF ~Targeting(spec) THEN {}
  ELSE IF spec.target \in Gateways THEN IF lds THEN {spec.target} ELSE {}
  ELSE IF TargetFound(spec) THEN Named(cache[spec.target]) ELSE {}
Watched == IF phase = "resolve" THEN gateways ELSE gwIndex
GatewaysWatched == ~queued => \A p \in Policies : Resolved(p) => DependsOn(cache[p].spec) \subseteq Watched

HasGateway(R) == \E g \in Named(cache[R]) : Usable(cache[R], g)
RoutesResolved ==
  phase = "resolve" /\ ~queued => \A R \in DOMAIN init.routes :
    /\ R \in routeIndex /\ cache[R] # Absent /\ Named(cache[R]) \subseteq gateways
    /\ "gateway" \notin holes => HasGateway(R)

Verdict(spec) ==
  IF ~Targeting(spec) THEN "Invalid"
  ELSE IF TargetFound(spec) /\ (spec.target \in Routes => HasGateway(spec.target)) THEN "Accepted"
  ELSE "TargetNotFound"
Judged(spec) == Targeting(spec) /\ spec.target \in Gateways => lds
StatusesComputed ==
  ~queued /\ "gateway" \notin holes => \A i \in DOMAIN items :
    Judged(items[i].obj.spec) /\ (phase = "resolve" => i < at) =>
      items[i].status = [reason |-> Verdict(items[i].obj.spec), gen |-> items[i].obj.gen]

Pending(p) ==
  \E i \in DOMAIN watch["policy"] :
    /\ watch["policy"][i][1] = p
    /\ watch["policy"][i][2] = Absent \/ watch["policy"][i][2].gen # cache[p].gen
Settled(p) ==
  /\ api[p] # Absent /\ api[p].gen = cache[p].gen
  /\ api[p].status = [reason |-> Verdict(cache[p].spec), gen |-> cache[p].gen]
Written(p) ==
  \/ phase = "idle" /\ cache[p] # Absent
  \/ phase = "status" /\ \E i \in DOMAIN items : i < at /\ items[i].name = p
StatusesWritten ==
  ~queued /\ holes \intersect {"gateway", "status"} = {} => \A p \in Policies :
    Written(p) /\ Judged(cache[p].spec) => Pending(p) \/ Settled(p)

IInv ==
  /\ Typed(api) /\ Typed(cache) /\ TypedWatch /\ ItemsTyped /\ Scalars /\ Untouched
  /\ Synced /\ OutputTyped /\ OutputSynced
  /\ Listed /\ RoutesWatched /\ GatewaysWatched /\ RoutesResolved
  /\ StatusesComputed /\ StatusesWritten

-----------------------------------------------------------------------------
(* What is on its way to an informer.                                      *)
LEMMA AppendFacts ==
  ASSUME NEW S, NEW w \in Seq(S), NEW e \in S
  PROVE  /\ Append(w, e) \in Seq(S)
         /\ DOMAIN w = 1..Len(w) /\ Len(w) \in Nat
         /\ DOMAIN Append(w, e) = 1..(Len(w) + 1)
         /\ \A i \in DOMAIN w : Append(w, e)[i] = w[i]
         /\ Append(w, e)[Len(w) + 1] = e
OBVIOUS

(* The first event seen: what is left is what comes after it.              *)
LEMMA TailFacts ==
  ASSUME NEW S, NEW w \in Seq(S), w # <<>>
  PROVE  /\ Tail(w) \in Seq(S)
         /\ DOMAIN w = 1..Len(w) /\ Len(w) \in Nat /\ Len(w) >= 1
         /\ DOMAIN Tail(w) = 1..(Len(w) - 1)
         /\ \A i \in DOMAIN Tail(w) : Tail(w)[i] = w[i + 1]
         /\ Head(w) = w[1]
OBVIOUS

(* A new event leads to what it brings.                                    *)
LEMMA TrackedAppend ==
  ASSUME NEW S, NEW w \in Seq(S), NEW e \in S, NEW n, NEW old, NEW now,
         Tracked(w, n, old, now)
  PROVE  /\ e[1] = n => Tracked(Append(w, e), n, old, e[2])
         /\ e[1] # n => Tracked(Append(w, e), n, old, now)
<1> DEFINE a == Append(w, e)
<1>1. /\ DOMAIN w = 1..Len(w) /\ Len(w) \in Nat /\ DOMAIN a = 1..(Len(w) + 1)
      /\ \A i \in DOMAIN w : a[i] = w[i]
      /\ a[Len(w) + 1] = e
  BY AppendFacts
<1> HIDE DEF a
<1>2. e[1] = n => Tracked(a, n, old, e[2])
  <2>1. Len(w) + 1 \in DOMAIN a /\ \A j \in DOMAIN a : ~(j > Len(w) + 1)
    BY <1>1
  <2>2. QED BY <2>1, <1>1 DEF Tracked
<1>3. ASSUME e[1] # n PROVE Tracked(a, n, old, now)
  <2>1. CASE old = now /\ \A i \in DOMAIN w : w[i][1] # n
    <3>1. \A i \in DOMAIN a : a[i][1] # n BY <1>1, <1>3, <2>1
    <3>2. QED BY <3>1, <2>1 DEF Tracked
  <2>2. CASE \E i \in DOMAIN w : w[i][1] = n /\ w[i][2] = now /\ \A j \in DOMAIN w : j > i => w[j][1] # n
    <3>1. PICK i \in DOMAIN w : w[i][1] = n /\ w[i][2] = now /\ \A j \in DOMAIN w : j > i => w[j][1] # n
      BY <2>2
    <3>2. i \in DOMAIN a /\ a[i][1] = n /\ a[i][2] = now BY <3>1, <1>1
    <3>3. \A j \in DOMAIN a : j > i => a[j][1] # n BY <3>1, <1>1, <1>3
    <3>4. QED BY <3>2, <3>3 DEF Tracked
  <2>3. QED BY <2>1, <2>2 DEF Tracked
<1>4. QED BY <1>2, <1>3 DEF a

(* Seeing the first event brings the copy forward.                         *)
LEMMA TrackedTail ==
  ASSUME NEW S, NEW w \in Seq(S), w # <<>>, NEW n, NEW old, NEW now,
         Tracked(w, n, old, now)
  PROVE  /\ Head(w)[1] = n => Tracked(Tail(w), n, Head(w)[2], now)
         /\ Head(w)[1] # n => Tracked(Tail(w), n, old, now)
<1> DEFINE t == Tail(w)
<1>1. /\ DOMAIN w = 1..Len(w) /\ Len(w) \in Nat /\ Len(w) >= 1 /\ DOMAIN t = 1..(Len(w) - 1)
      /\ \A i \in DOMAIN t : t[i] = w[i + 1]
      /\ Head(w) = w[1]
  BY TailFacts
<1> HIDE DEF t
<1>2. CASE old = now /\ \A i \in DOMAIN w : w[i][1] # n
  <2>1. Head(w)[1] # n BY <1>1, <1>2
  <2>2. \A i \in DOMAIN t : t[i][1] # n BY <1>1, <1>2
  <2>3. QED BY <2>1, <2>2, <1>2 DEF Tracked, t
<1>3. CASE \E i \in DOMAIN w : w[i][1] = n /\ w[i][2] = now /\ \A j \in DOMAIN w : j > i => w[j][1] # n
  <2>1. PICK i \in DOMAIN w : w[i][1] = n /\ w[i][2] = now /\ \A j \in DOMAIN w : j > i => w[j][1] # n
    BY <1>3
  <2>2. CASE i = 1
    <3>1. \A j \in DOMAIN t : t[j][1] # n
      <4>1. TAKE j \in DOMAIN t
      <4>2. j + 1 \in DOMAIN w /\ j + 1 > i /\ t[j] = w[j + 1] BY <1>1, <2>2
      <4>3. QED BY <4>2, <2>1
    <3>2. QED BY <3>1, <1>1, <2>1, <2>2 DEF Tracked, t
  <2>3. CASE i # 1
    <3>1. i - 1 \in DOMAIN t /\ t[i - 1] = w[i] BY <1>1, <2>3
    <3>2. \A j \in DOMAIN t : j > i - 1 => t[j][1] # n
      <4>1. SUFFICES ASSUME NEW j \in DOMAIN t, j > i - 1 PROVE t[j][1] # n OBVIOUS
      <4>2. j + 1 \in DOMAIN w /\ j + 1 > i /\ t[j] = w[j + 1] BY <1>1, <4>1, <2>3
      <4>3. QED BY <4>2, <2>1
    <3>3. QED BY <3>1, <3>2, <2>1 DEF Tracked, t
  <2>4. QED BY <2>2, <2>3
<1>4. QED BY <1>2, <1>3 DEF Tracked

(* A new event that follows the last version keeps versions in order.      *)
LEMMA SuccessiveAppend ==
  ASSUME NEW S, NEW w \in Seq(S), NEW e \in S, NEW n, NEW old, NEW now,
         Successive(w, n, old), Tracked(w, n, old, now),
         e[1] = n => Follows(now, e[2])
  PROVE  Successive(Append(w, e), n, old)
<1> DEFINE a == Append(w, e)
<1>1. /\ DOMAIN w = 1..Len(w) /\ Len(w) \in Nat /\ DOMAIN a = 1..(Len(w) + 1)
      /\ \A i \in DOMAIN w : a[i] = w[i]
      /\ a[Len(w) + 1] = e
  BY AppendFacts
<1> HIDE DEF a
<1> DEFINE Fine(j) ==
      \/ Follows(old, a[j][2]) /\ \A i \in DOMAIN a : i < j => a[i][1] # n
      \/ \E i \in DOMAIN a : /\ i < j /\ a[i][1] = n /\ Follows(a[i][2], a[j][2])
                             /\ \A l \in DOMAIN a : i < l /\ l < j => a[l][1] # n
<1>2. SUFFICES ASSUME NEW j \in DOMAIN a, a[j][1] = n PROVE Fine(j)
  BY DEF Successive, a
<1>3. CASE j \in DOMAIN w
  <2>0. w[j][1] = n /\ a[j] = w[j] BY <1>1, <1>2, <1>3
  <2>1. CASE Follows(old, w[j][2]) /\ \A i \in DOMAIN w : i < j => w[i][1] # n
    <3>1. \A i \in DOMAIN a : i < j => a[i][1] # n BY <1>1, <1>3, <2>1
    <3>2. QED BY <3>1, <2>0, <2>1
  <2>2. CASE \E i \in DOMAIN w : /\ i < j /\ w[i][1] = n /\ Follows(w[i][2], w[j][2])
                                /\ \A l \in DOMAIN w : i < l /\ l < j => w[l][1] # n
    <3>1. PICK i \in DOMAIN w : /\ i < j /\ w[i][1] = n /\ Follows(w[i][2], w[j][2])
                                /\ \A l \in DOMAIN w : i < l /\ l < j => w[l][1] # n
      BY <2>2
    <3>2. i \in DOMAIN a /\ a[i] = w[i] BY <1>1
    <3>3. \A l \in DOMAIN a : i < l /\ l < j => a[l][1] # n BY <1>1, <1>3, <3>1
    <3>4. QED BY <3>1, <3>2, <3>3, <2>0
  <2>3. QED BY <2>0, <2>1, <2>2, <1>3 DEF Successive
<1>4. CASE j \notin DOMAIN w
  <2>1. j = Len(w) + 1 /\ a[j] = e /\ Follows(now, e[2]) BY <1>1, <1>2, <1>4
  <2>2. CASE old = now /\ \A i \in DOMAIN w : w[i][1] # n
    <3>1. \A i \in DOMAIN a : i < j => a[i][1] # n BY <1>1, <2>1, <2>2
    <3>2. QED BY <3>1, <2>1, <2>2
  <2>3. CASE \E i \in DOMAIN w : w[i][1] = n /\ w[i][2] = now /\ \A l \in DOMAIN w : l > i => w[l][1] # n
    <3>1. PICK i \in DOMAIN w : w[i][1] = n /\ w[i][2] = now /\ \A l \in DOMAIN w : l > i => w[l][1] # n
      BY <2>3
    <3>2. i \in DOMAIN a /\ a[i] = w[i] /\ i < j BY <1>1, <2>1
    <3>3. \A l \in DOMAIN a : i < l /\ l < j => a[l][1] # n BY <1>1, <2>1, <3>1
    <3>4. QED BY <3>1, <3>2, <3>3, <2>1
  <2>4. QED BY <2>2, <2>3 DEF Tracked
<1>5. QED BY <1>3, <1>4

(* So does seeing the first event.                                         *)
LEMMA SuccessiveTail ==
  ASSUME NEW S, NEW w \in Seq(S), w # <<>>, NEW n, NEW old, Successive(w, n, old)
  PROVE  /\ Head(w)[1] = n => Successive(Tail(w), n, Head(w)[2]) /\ Follows(old, Head(w)[2])
         /\ Head(w)[1] # n => Successive(Tail(w), n, old)
<1> DEFINE t == Tail(w)
<1>1. /\ DOMAIN w = 1..Len(w) /\ Len(w) \in Nat /\ Len(w) >= 1 /\ DOMAIN t = 1..(Len(w) - 1)
      /\ \A i \in DOMAIN t : t[i] = w[i + 1]
      /\ Head(w) = w[1]
  BY TailFacts
<1> HIDE DEF t
<1>2. Head(w)[1] = n => Follows(old, Head(w)[2])
  <2>1. 1 \in DOMAIN w /\ \A i \in DOMAIN w : ~(i < 1) BY <1>1
  <2>2. QED BY <2>1, <1>1 DEF Successive
<1> DEFINE first == IF Head(w)[1] = n THEN Head(w)[2] ELSE old
           Fine(j) ==
             \/ Follows(first, t[j][2]) /\ \A i \in DOMAIN t : i < j => t[i][1] # n
             \/ \E i \in DOMAIN t : /\ i < j /\ t[i][1] = n /\ Follows(t[i][2], t[j][2])
                                    /\ \A l \in DOMAIN t : i < l /\ l < j => t[l][1] # n
<1>3. ASSUME NEW j \in DOMAIN t, t[j][1] = n PROVE Fine(j)
  <2>0. j + 1 \in DOMAIN w /\ t[j] = w[j + 1] /\ w[j + 1][1] = n BY <1>1, <1>3
  <2>1. CASE Follows(old, w[j + 1][2]) /\ \A i \in DOMAIN w : i < j + 1 => w[i][1] # n
    <3>1. Head(w)[1] # n
      <4>1. 1 \in DOMAIN w /\ 1 < j + 1 BY <1>1
      <4>2. QED BY <4>1, <2>1, <1>1
    <3>2. \A i \in DOMAIN t : i < j => t[i][1] # n
      <4>1. SUFFICES ASSUME NEW i \in DOMAIN t, i < j PROVE t[i][1] # n OBVIOUS
      <4>2. i + 1 \in DOMAIN w /\ i + 1 < j + 1 /\ t[i] = w[i + 1] BY <1>1, <4>1
      <4>3. QED BY <4>2, <2>1
    <3>3. QED BY <3>1, <3>2, <2>0, <2>1
  <2>2. CASE \E i \in DOMAIN w : /\ i < j + 1 /\ w[i][1] = n /\ Follows(w[i][2], w[j + 1][2])
                                /\ \A l \in DOMAIN w : i < l /\ l < j + 1 => w[l][1] # n
    <3>1. PICK i \in DOMAIN w : /\ i < j + 1 /\ w[i][1] = n /\ Follows(w[i][2], w[j + 1][2])
                                /\ \A l \in DOMAIN w : i < l /\ l < j + 1 => w[l][1] # n
      BY <2>2
    <3>2. \A l \in DOMAIN t : i < l + 1 /\ l < j => t[l][1] # n
      <4>1. SUFFICES ASSUME NEW l \in DOMAIN t, i < l + 1, l < j PROVE t[l][1] # n OBVIOUS
      <4>2. l + 1 \in DOMAIN w /\ l + 1 < j + 1 /\ t[l] = w[l + 1] BY <1>1, <4>1
      <4>3. QED BY <4>1, <4>2, <3>1
    <3>3. CASE i = 1
      <4>1. first = Head(w)[2] /\ Follows(first, t[j][2]) BY <3>1, <3>3, <1>1, <2>0
      <4>2. \A l \in DOMAIN t : l < j => t[l][1] # n BY <3>2, <3>3, <1>1
      <4>3. QED BY <4>1, <4>2
    <3>4. CASE i # 1
      <4>1. i - 1 \in DOMAIN t /\ t[i - 1] = w[i] /\ i - 1 < j BY <1>1, <3>1, <3>4
      <4>2. \A l \in DOMAIN t : i - 1 < l /\ l < j => t[l][1] # n BY <3>2, <1>1, <3>4
      <4>3. QED BY <4>1, <4>2, <3>1, <2>0
    <3>5. QED BY <3>3, <3>4
  <2>3. QED BY <2>0, <2>1, <2>2 DEF Successive
<1>4. Successive(t, n, first) BY <1>3 DEF Successive
<1>5. QED BY <1>2, <1>4 DEF t

-----------------------------------------------------------------------------
(* Objects.                                                                *)
LEMMA KindFacts ==
  ASSUME NEW n \in Names
  PROVE  /\ KindOf(n) \in Kinds
         /\ n \in Policies <=> KindOf(n) = "policy"
         /\ n \in Routes <=> KindOf(n) = "route"
         /\ n \in Gateways <=> KindOf(n) = "gateway"
BY NamesAssumption DEF Names, KindOf, Kinds

(* What is known of a policy in the API server or a copy.                  *)
LEMMA PolicyVersionFacts ==
  ASSUME NEW p \in Policies, NEW o \in PolicyVersions(p)
  PROVE  /\ o # Absent
         /\ o \in Objects(p)
         /\ o.spec \in Given(p) /\ o.gen \in Nat /\ o.gen > 0 /\ o.created \in Nat /\ o.created > 0
         /\ o.status \in Statuses /\ o.status.gen \in Nat /\ o.status.gen <= o.gen
         /\ o.status.reason \in Reasons
         /\ o.status = [reason |-> o.status.reason, gen |-> o.status.gen]
         /\ JudgedRight(o)
BY AbsentAssumption DEF PolicyVersions, Objects, Statuses

(* A policy's versions are absence and objects.                            *)
LEMMA VersionsFacts ==
  ASSUME NEW n \in Names
  PROVE  /\ Versions(n) \subseteq Version /\ Absent \in Versions(n)
         /\ n \in Policies => \A o \in Versions(n) : o # Absent => o \in PolicyVersions(n)
         /\ n \in Policies => PolicyVersions(n) \subseteq Versions(n)
         /\ n \notin Policies => Versions(n) = Given(n) \union {Absent}
         /\ Absent \notin Given(n)
BY SpecsAssumption DEF Versions, Version, Names

(* The target of a policy is a route, a gateway or missing.                *)
LEMMA PolicySpecFacts ==
  ASSUME NEW p \in Policies, NEW s \in Given(p)
  PROVE  /\ s.target \in Routes \union Gateways \union {Absent} /\ s.valid \in BOOLEAN
         /\ Targeting(s) \in BOOLEAN
         /\ Targeting(s) => s.target \in Routes \union Gateways /\ s.target \in Names
BY SpecsAssumption DEF Targeting, Names

(* Writing a status leaves the rest of the policy alone.                   *)
LEMMA WithStatusFacts ==
  ASSUME NEW p \in Policies, NEW o \in PolicyVersions(p), NEW reason \in Reasons,
         reason = "Invalid" <=> ~Targeting(o.spec)
  PROVE  /\ WithStatus(o, Status(o, reason)) \in PolicyVersions(p)
         /\ SameSpec(o, WithStatus(o, Status(o, reason)))
<1> DEFINE q == WithStatus(o, Status(o, reason))
<1>1. /\ o \in Objects(p) /\ o.gen \in Nat /\ o.gen > 0 /\ o.created > 0
  BY PolicyVersionFacts
<1>2. q \in Objects(p)
  BY <1>1 DEF WithStatus, Status, Objects
<1>3. q.status.gen = o.gen /\ q.status.reason = reason /\ q.gen = o.gen /\ q.spec = o.spec /\ q.created = o.created
  BY <1>1 DEF WithStatus, Status, Objects
<1> HIDE DEF q
<1>4. q \in PolicyVersions(p)
  BY <1>1, <1>2, <1>3 DEF PolicyVersions, JudgedRight
<1>5. QED BY <1>3, <1>4 DEF SameSpec, q

(* Writing the status that is there changes nothing.                       *)
LEMMA WithStatusSame ==
  ASSUME NEW p \in Policies, NEW o \in PolicyVersions(p), NEW st
  PROVE  /\ WithStatus(o, o.status) = o
         /\ SameSpec(o, WithStatus(o, st)) /\ WithStatus(o, st).status = st
         /\ WithStatus(o, st).gen = o.gen
BY PolicyVersionFacts DEF WithStatus, Objects, SameSpec

(* A resource that is created.                                             *)
LEMMA ObjectFacts ==
  ASSUME NEW n \in Names, NEW spec \in Given(n), NEW created \in Nat, created > 0
  PROVE  Object(n, spec, created) \in Versions(n) /\ Object(n, spec, created) # Absent
<1>1. CASE n \notin Policies
  BY <1>1, VersionsFacts DEF Object
<1>2. CASE n \in Policies
  <2> DEFINE o == Object(n, spec, created)
  <2>1. o = [spec |-> spec, gen |-> 1, created |-> created, status |-> NoStatus]
    BY <1>2 DEF Object
  <2>2. o \in Objects(n) /\ o.created > 0 /\ o.gen > 0 /\ o.status.gen <= o.gen
    BY <2>1 DEF Objects, NoStatus, Reasons
  <2>3. JudgedRight(o) BY <2>1 DEF JudgedRight, NoStatus
  <2> HIDE DEF o
  <2>4. o \in PolicyVersions(n) BY <2>2, <2>3 DEF PolicyVersions
  <2>5. QED BY <2>4, <1>2, VersionsFacts, PolicyVersionFacts DEF o
<1>3. QED BY <1>1, <1>2

(* A resource that is changed: a new generation of a policy.               *)
LEMMA WithSpecFacts ==
  ASSUME NEW n \in Names, NEW spec \in Given(n), NEW old \in Versions(n), old # Absent
  PROVE  /\ WithSpec(n, old, spec) \in Versions(n) /\ WithSpec(n, old, spec) # Absent
         /\ n \in Policies => WithSpec(n, old, spec).gen # old.gen
<1>1. CASE n \notin Policies
  BY <1>1, VersionsFacts DEF WithSpec
<1>2. CASE n \in Policies
  <2> DEFINE o == WithSpec(n, old, spec)
  <2>0. old \in PolicyVersions(n) BY <1>2, VersionsFacts
  <2>1. o = [old EXCEPT !.spec = spec, !.gen = @ + 1]
    BY <1>2 DEF WithSpec
  <2>2. /\ old \in Objects(n) /\ old.gen \in Nat /\ old.created > 0
        /\ old.status.gen \in Nat /\ old.status.gen <= old.gen
    BY <2>0, <1>2, PolicyVersionFacts
  <2> DEFINE q == [old EXCEPT !.spec = spec]
  <2>q. /\ q \in Objects(n)
        /\ q.gen = old.gen /\ q.status = old.status /\ q.created = old.created
    BY <2>2 DEF Objects
  <2>o. o = [q EXCEPT !.gen = old.gen + 1]
    BY <2>1, <2>q
  <2> HIDE DEF q
  <2>3. /\ o \in Objects(n)
        /\ o.gen = old.gen + 1 /\ o.status = old.status /\ o.created = old.created
    BY <2>o, <2>q, <2>2 DEF Objects
  <2> HIDE DEF o
  <2>4. o.gen > 0 /\ o.status.gen <= o.gen /\ o.created > 0 /\ o.gen # old.gen
    BY <2>2, <2>3
  <2>5. JudgedRight(o)
    <3>1. o.status.gen # o.gen BY <2>2, <2>3
    <3>2. QED BY <3>1 DEF JudgedRight
  <2>6. o \in PolicyVersions(n) BY <2>3, <2>4, <2>5 DEF PolicyVersions
  <2>7. QED BY <2>4, <2>6, <1>2, VersionsFacts, PolicyVersionFacts DEF o
<1>3. QED BY <1>1, <1>2

(* Users never give a resource its absence.                                *)
LEMMA GivenFacts ==
  ASSUME NEW n
  PROVE  /\ \A s \in Specs[n] : s \in Given(n)
         /\ \A c \in Clusters : n \in DOMAIN c.specs => c.specs[n] \in Given(n)
BY DEF Given

(* Versions of a generation with one specification.                        *)
LEMMA SameSpecFacts ==
  ASSUME NEW x, NEW y, NEW z
  PROVE  /\ SameSpec(x, x)
         /\ SameSpec(x, y) /\ SameSpec(y, z) => SameSpec(x, z)
         /\ SameSpec(x, y) => SameSpec(y, x)
         /\ SameSpec(x, y) => Follows(x, y)
BY DEF SameSpec, Follows

(* An order of a finite set has each of its elements.                     *)
LEMMA Orders ==
  ASSUME NEW S, IsFiniteSet(S), NEW order \in SetToSeqs(S)
  PROVE  /\ Len(order) \in Nat /\ \A i \in 1..Len(order) : order[i] \in S
         /\ \A x \in S : \E i \in 1..Len(order) : order[i] = x
<1> DEFINE n == Cardinality(S)
<1>1. n \in Nat
  BY FS_CardinalityType
<1>2. order \in [1..n -> S] /\ \A i, j \in 1..n : i # j => order[i] # order[j]
  BY DEF SetToSeqs
<1>3. Len(order) = n
  <2> HIDE DEF n
  <2>1. order \in Seq(S) /\ DOMAIN order = 1..n
    BY <1>1, <1>2
  <2> QED BY <1>1, <2>1
<1>4. \A x \in S : \E i \in 1..n : order[i] = x
  <2> DEFINE R == {order[i] : i \in 1..n}
  <2>1. R \subseteq S
    BY <1>2
  <2>2. IsFiniteSet(1..n) /\ Cardinality(1..n) = n
    BY <1>1, FS_Interval
  <2>3. order \in Bijection(1..n, R)
    <3>1. order \in [1..n -> R] /\ \A x \in R : \E i \in 1..n : order[i] = x
      BY <1>2
    <3>2. IsInjective(order)
      BY <1>2 DEF IsInjective
    <3> QED BY <3>1, <3>2 DEF Bijection, Injection, Surjection
  <2>4. Cardinality(R) = n
    <3>1. order \in Bijection(1..n, R) => ExistsBijection(1..n, R)
      BY DEF ExistsBijection
    <3> HIDE DEF R, n
    <3> QED BY <2>2, <2>3, <3>1, FS_Bijection
  <2>5. R = S
    <3> HIDE DEF R
    <3> QED BY <2>1, <2>4, FS_Subset
  <2> QED BY <2>5
<1> QED BY <1>1, <1>2, <1>3, <1>4

(* The order in which a finite set is listed has each element once.        *)
LEMMA OrderFacts ==
  ASSUME NEW S, IsFiniteSet(S), NEW order \in SetToSeqs(S)
  PROVE  /\ order \in Seq(S) /\ Len(order) \in Nat /\ DOMAIN order = 1..Len(order)
         /\ Range(order) = S
         /\ \A i, j \in DOMAIN order : order[i] = order[j] => i = j
<1> DEFINE n == Cardinality(S)
<1>1. n \in Nat
  BY FS_CardinalityType
<1>2. order \in [1..n -> S] /\ \A i, j \in 1..n : i # j => order[i] # order[j]
  BY DEF SetToSeqs
<1> HIDE DEF n
<1>3. order \in Seq(S) /\ DOMAIN order = 1..n
  BY <1>1, <1>2
<1>4. Len(order) = n BY <1>1, <1>3
<1>5. \A x \in S : \E i \in 1..Len(order) : order[i] = x
  BY Orders
<1>6. QED BY <1>1, <1>2, <1>3, <1>4, <1>5 DEF Range

-----------------------------------------------------------------------------
(* The resources, and the informers of them.                               *)
Resources == Typed(api) /\ Typed(cache) /\ TypedWatch /\ Synced

Posted(n, obj) ==
  /\ api' = [api EXCEPT ![n] = obj]
  /\ watch' = [watch EXCEPT ![KindOf(n)] = Append(@, <<n, obj>>)]
  /\ UNCHANGED cache

(* One resource written.                                                   *)
LEMMA TypedUpdate ==
  ASSUME NEW objects, Typed(objects), NEW n \in Names, NEW obj \in Versions(n)
  PROVE  /\ Typed([objects EXCEPT ![n] = obj])
         /\ [objects EXCEPT ![n] = obj][n] = obj
         /\ \A m \in Names : m # n => [objects EXCEPT ![n] = obj][m] = objects[m]
<1>1. obj \in Version BY VersionsFacts
<1>2. QED BY <1>1 DEF Typed

(* The events of a kind.                                                   *)
LEMMA WatchFacts ==
  ASSUME TypedWatch, NEW k \in Kinds
  PROVE  /\ watch[k] \in Seq(Events)
         /\ \A i \in DOMAIN watch[k] :
              /\ watch[k][i] = <<watch[k][i][1], watch[k][i][2]>>
              /\ watch[k][i][1] \in Names /\ KindOf(watch[k][i][1]) = k
              /\ watch[k][i][2] \in Versions(watch[k][i][1])
<1>1. watch[k] \in Seq(Events) BY DEF TypedWatch
<1>2. \A i \in DOMAIN watch[k] : watch[k][i] \in Events BY <1>1
<1>3. QED BY <1>1, <1>2 DEF TypedWatch, Events

(* An event posted to the informer of its kind.                            *)
LEMMA PostedWatch ==
  ASSUME TypedWatch, NEW n \in Names, NEW obj \in Versions(n), Posted(n, obj)
  PROVE  /\ watch'[KindOf(n)] = Append(watch[KindOf(n)], <<n, obj>>)
         /\ \A k \in Kinds : k # KindOf(n) => watch'[k] = watch[k]
         /\ <<n, obj>> \in Events
         /\ TypedWatch'
<1> DEFINE kind == KindOf(n)
           e == <<n, obj>>
<1>1. kind \in Kinds BY KindFacts
<1>2. e \in Events BY VersionsFacts DEF Events
<1>3. watch[kind] \in Seq(Events) BY <1>1, WatchFacts
<1>4. /\ Append(watch[kind], e) \in Seq(Events)
      /\ DOMAIN watch[kind] = 1..Len(watch[kind]) /\ Len(watch[kind]) \in Nat
      /\ DOMAIN Append(watch[kind], e) = 1..(Len(watch[kind]) + 1)
      /\ \A i \in DOMAIN watch[kind] : Append(watch[kind], e)[i] = watch[kind][i]
      /\ Append(watch[kind], e)[Len(watch[kind]) + 1] = e
  BY <1>2, <1>3, AppendFacts
<1>e. e[1] = n /\ e[2] = obj OBVIOUS
<1>w. watch' = [watch EXCEPT ![kind] = Append(watch[kind], e)] BY DEF Posted
<1> HIDE DEF kind, e
<1>5. watch'[kind] = Append(watch[kind], e) /\ \A k \in Kinds : k # kind => watch'[k] = watch[k]
  BY <1>w, <1>1 DEF TypedWatch
<1>6. watch' \in [Kinds -> Seq(Events)] BY <1>w, <1>1, <1>4 DEF TypedWatch
<1>7. ASSUME NEW k \in Kinds, NEW i \in DOMAIN watch'[k]
      PROVE  KindOf(watch'[k][i][1]) = k /\ watch'[k][i][2] \in Versions(watch'[k][i][1])
  <2>1. CASE k # kind BY <2>1, <1>5 DEF TypedWatch
  <2>2. CASE k = kind /\ i \in DOMAIN watch[kind] BY <2>2, <1>5, <1>4, <1>1 DEF TypedWatch
  <2>3. CASE k = kind /\ i \notin DOMAIN watch[kind]
    <3>1. i = Len(watch[kind]) + 1 BY <2>3, <1>5, <1>4
    <3>2. watch'[k][i] = e BY <3>1, <2>3, <1>5, <1>4
    <3>3. QED BY <3>2, <1>e, <2>3 DEF kind
  <2>4. QED BY <2>1, <2>2, <2>3
<1>8. QED BY <1>2, <1>5, <1>6, <1>7 DEF TypedWatch, kind, e

(* A write keeps the copies in step.                                       *)
LEMMA PostedResources ==
  ASSUME Resources, NEW n \in Names, NEW obj \in Versions(n), Posted(n, obj),
         n \in Policies => Follows(api[n], obj)
  PROVE  Resources'
<1> DEFINE kind == KindOf(n)
           e == <<n, obj>>
<1>1. api' = [api EXCEPT ![n] = obj] /\ cache' = cache BY DEF Posted
<1>2. Typed(api)' /\ api'[n] = obj /\ \A m \in Names : m # n => api'[m] = api[m]
  <2>1. Typed(api) BY DEF Resources
  <2>2. QED BY <1>1, <2>1, TypedUpdate DEF Typed
<1>3. Typed(cache)' BY <1>1 DEF Resources, Typed
<1>4. /\ watch'[kind] = Append(watch[kind], e)
      /\ \A k \in Kinds : k # kind => watch'[k] = watch[k]
      /\ e \in Events /\ TypedWatch'
  BY PostedWatch DEF Resources
<1>5. kind \in Kinds /\ watch[kind] \in Seq(Events) BY WatchFacts, KindFacts DEF Resources
<1>e. e[1] = n /\ e[2] = obj OBVIOUS
<1> HIDE DEF e
<1>6. ASSUME NEW m \in Names PROVE Tracked(watch'[KindOf(m)], m, cache'[m], api'[m])
  <2>0. Tracked(watch[KindOf(m)], m, cache[m], api[m]) BY DEF Resources, Synced
  <2>1. CASE m = n
    <3>1. Tracked(Append(watch[kind], e), n, cache[n], e[2])
      BY <2>1, <2>0, <1>4, <1>5, <1>e, TrackedAppend
    <3>2. QED BY <3>1, <2>1, <1>1, <1>2, <1>4, <1>e
  <2>2. CASE m # n /\ KindOf(m) = kind
    <3>1. Tracked(Append(watch[kind], e), m, cache[m], api[m])
      BY <2>2, <2>0, <1>4, <1>5, <1>e, TrackedAppend
    <3>2. QED BY <3>1, <2>2, <1>1, <1>2, <1>4
  <2>3. CASE KindOf(m) # kind
    BY <2>3, <2>0, <1>1, <1>2, <1>4, KindFacts
  <2>4. QED BY <2>1, <2>2, <2>3
<1>7. ASSUME NEW p \in Policies PROVE Successive(watch'["policy"], p, cache'[p])
  <2>0. /\ Successive(watch["policy"], p, cache[p]) /\ p \in Names /\ KindOf(p) = "policy"
        /\ Tracked(watch["policy"], p, cache[p], api[p])
    <3>1. p \in Names /\ KindOf(p) = "policy" BY KindFacts DEF Names
    <3>2. QED BY <3>1 DEF Resources, Synced
  <2>1. CASE kind = "policy"
    <3>1. n \in Policies BY <2>1, KindFacts
    <3>2. e[1] = p => Follows(api[p], e[2]) BY <3>1, <1>e
    <3>3. Successive(Append(watch["policy"], e), p, cache[p])
      BY <3>2, <2>0, <2>1, <1>4, <1>5, SuccessiveAppend
    <3>4. QED BY <3>3, <2>1, <1>1, <1>4
  <2>2. CASE kind # "policy"
    <3>1. "policy" \in Kinds BY DEF Kinds
    <3>2. QED BY <3>1, <2>0, <2>2, <1>1, <1>4
  <2>3. QED BY <2>1, <2>2
<1>8. QED BY <1>2, <1>3, <1>4, <1>6, <1>7 DEF Resources, Synced

Observed(kind, n, obj) ==
  /\ watch[kind] # <<>> /\ n = Head(watch[kind])[1] /\ obj = Head(watch[kind])[2]
  /\ cache' = [cache EXCEPT ![n] = obj]
  /\ watch' = [watch EXCEPT ![kind] = Tail(@)]
  /\ UNCHANGED api

(* An event that an informer sees.                                         *)
LEMMA ObservedFacts ==
  ASSUME Resources, NEW kind \in Kinds, NEW n, NEW obj, Observed(kind, n, obj)
  PROVE  /\ n \in Names /\ KindOf(n) = kind /\ obj \in Versions(n)
         /\ n \in Policies => Follows(cache[n], obj)
         /\ cache'[n] = obj /\ \A m \in Names : m # n => cache'[m] = cache[m]
         /\ watch'[kind] = Tail(watch[kind])
         /\ \A k \in Kinds : k # kind => watch'[k] = watch[k]
         /\ Typed(cache)'
<1>1. /\ watch[kind] \in Seq(Events)
      /\ \A i \in DOMAIN watch[kind] :
           /\ watch[kind][i][1] \in Names /\ KindOf(watch[kind][i][1]) = kind
           /\ watch[kind][i][2] \in Versions(watch[kind][i][1])
  BY WatchFacts DEF Resources
<1>2. watch[kind] # <<>> /\ n = Head(watch[kind])[1] /\ obj = Head(watch[kind])[2]
  BY DEF Observed
<1>3. 1 \in DOMAIN watch[kind] /\ Head(watch[kind]) = watch[kind][1]
  BY <1>1, <1>2
<1>4. n \in Names /\ KindOf(n) = kind /\ obj \in Versions(n)
  BY <1>1, <1>2, <1>3
<1>5. ASSUME n \in Policies PROVE Follows(cache[n], obj)
  <2>1. kind = "policy" BY <1>4, <1>5, KindFacts
  <2>2. Successive(watch[kind], n, cache[n]) BY <1>5, <2>1 DEF Resources, Synced
  <2>3. QED BY <1>1, <1>2, <2>2, SuccessiveTail
<1>6. cache' = [cache EXCEPT ![n] = obj] /\ watch' = [watch EXCEPT ![kind] = Tail(watch[kind])]
  BY DEF Observed
<1>7. Typed(cache) /\ TypedWatch BY DEF Resources
<1>8. Typed(cache)' /\ cache'[n] = obj /\ \A m \in Names : m # n => cache'[m] = cache[m]
  BY <1>4, <1>6, <1>7, TypedUpdate DEF Typed
<1>9. watch'[kind] = Tail(watch[kind]) /\ \A k \in Kinds : k # kind => watch'[k] = watch[k]
  BY <1>6, <1>7 DEF TypedWatch
<1>10. QED BY <1>4, <1>5, <1>8, <1>9

(* Seeing an event keeps the copies in step.                               *)
LEMMA ObservedResources ==
  ASSUME Resources, NEW kind \in Kinds, NEW n, NEW obj, Observed(kind, n, obj)
  PROVE  Resources'
<1> DEFINE w == watch[kind]
<1>1. /\ n \in Names /\ KindOf(n) = kind /\ obj \in Versions(n)
      /\ cache'[n] = obj /\ \A m \in Names : m # n => cache'[m] = cache[m]
      /\ watch'[kind] = Tail(w)
      /\ \A k \in Kinds : k # kind => watch'[k] = watch[k]
      /\ Typed(cache)'
  BY ObservedFacts
<1>2. w \in Seq(Events) /\ w # <<>> /\ Head(w)[1] = n /\ Head(w)[2] = obj
  BY WatchFacts DEF Observed, Resources
<1>3. /\ Tail(w) \in Seq(Events) /\ DOMAIN Tail(w) = 1..(Len(w) - 1) /\ Len(w) \in Nat
      /\ \A i \in DOMAIN Tail(w) : Tail(w)[i] = w[i + 1] /\ i + 1 \in DOMAIN w
  <2> HIDE DEF w
  <2>1. QED BY <1>2, TailFacts
<1>4. api' = api BY DEF Observed
<1>5. watch' = [watch EXCEPT ![kind] = Tail(w)] BY DEF Observed
<1>6. TypedWatch'
  <2>1. watch' \in [Kinds -> Seq(Events)]
    <3>1. watch \in [Kinds -> Seq(Events)] BY DEF Resources, TypedWatch
    <3> HIDE DEF w
    <3>2. QED BY <3>1, <1>3, <1>5
  <2>2. ASSUME NEW k \in Kinds, NEW i \in DOMAIN watch'[k]
        PROVE  KindOf(watch'[k][i][1]) = k /\ watch'[k][i][2] \in Versions(watch'[k][i][1])
    <3>1. CASE k # kind BY <3>1, <1>1 DEF Resources, TypedWatch
    <3>2. CASE k = kind
      <4>1. watch'[k][i] = w[i + 1] /\ i + 1 \in DOMAIN w BY <3>2, <1>1, <1>3
      <4>2. QED BY <4>1, <3>2 DEF Resources, TypedWatch
    <3>3. QED BY <3>1, <3>2
  <2>3. QED BY <2>1, <2>2 DEF TypedWatch
<1>7. ASSUME NEW m \in Names PROVE Tracked(watch'[KindOf(m)], m, cache'[m], api'[m])
  <2>0. Tracked(watch[KindOf(m)], m, cache[m], api[m]) BY DEF Resources, Synced
  <2>1. CASE KindOf(m) = kind
    <3>1. Tracked(w, m, cache[m], api[m]) BY <2>0, <2>1
    <3> HIDE DEF w
    <3>2. /\ Head(w)[1] = m => Tracked(Tail(w), m, Head(w)[2], api[m])
          /\ Head(w)[1] # m => Tracked(Tail(w), m, cache[m], api[m])
      BY <3>1, <1>2, TrackedTail
    <3>3. QED BY <3>2, <2>1, <1>1, <1>2, <1>4
  <2>2. CASE KindOf(m) # kind
    BY <2>2, <2>0, <1>1, <1>4, KindFacts
  <2>3. QED BY <2>1, <2>2
<1>8. ASSUME NEW p \in Policies PROVE Successive(watch'["policy"], p, cache'[p])
  <2>0. Successive(watch["policy"], p, cache[p]) /\ p \in Names /\ "policy" \in Kinds /\ KindOf(p) = "policy"
    BY KindFacts DEF Resources, Synced, Names, Kinds
  <2>1. CASE kind = "policy"
    <3>1. Successive(w, p, cache[p]) BY <2>0, <2>1
    <3> HIDE DEF w
    <3>2. /\ Head(w)[1] = p => Successive(Tail(w), p, Head(w)[2])
          /\ Head(w)[1] # p => Successive(Tail(w), p, cache[p])
      BY <3>1, <1>2, SuccessiveTail
    <3>3. QED BY <3>2, <2>0, <2>1, <1>1, <1>2
  <2>2. CASE kind # "policy" BY <2>0, <2>2, <1>1
  <2>3. QED BY <2>1, <2>2
<1>9. Typed(api)' BY <1>4 DEF Resources, Typed
<1>10. QED BY <1>1, <1>6, <1>7, <1>8, <1>9 DEF Resources, Synced

(* A restart lists everything anew.                                        *)
LEMMA RestartedResources ==
  ASSUME Resources, cache' = api, watch' = [k \in Kinds |-> <<>>], UNCHANGED api
  PROVE  Resources'
<1>1. Typed(api)' /\ Typed(cache)' BY DEF Resources, Typed
<1>2. \A k \in Kinds : watch'[k] = <<>> /\ DOMAIN watch'[k] = {} OBVIOUS
<1>3. TypedWatch' BY <1>2 DEF TypedWatch
<1>4. Synced'
  <2>1. \A n \in Names : Tracked(watch'[KindOf(n)], n, cache'[n], api'[n])
    BY <1>2, KindFacts DEF Tracked
  <2>2. \A p \in Policies : Successive(watch'["policy"], p, cache'[p])
    BY <1>2 DEF Successive, Kinds
  <2>3. QED BY <2>1, <2>2 DEF Synced
<1>5. QED BY <1>1, <1>3, <1>4 DEF Resources

(* At first the copies are what there is.                                  *)
LEMMA InitResources ==
  ASSUME Init
  PROVE  Resources
<1>1. PICK c \in Clusters : api = [n \in Names |-> IF n \in DOMAIN c.specs THEN Object(n, c.specs[n], 1) ELSE Absent]
  BY DEF Init
<1>2. \A n \in Names : api[n] \in Versions(n) /\ api[n] \in Version
  <2>1. TAKE n \in Names
  <2>2. CASE n \in DOMAIN c.specs
    <3>1. c.specs[n] \in Given(n) BY <2>2, GivenFacts
    <3>2. Object(n, c.specs[n], 1) \in Versions(n) BY <3>1, ObjectFacts
    <3>3. QED BY <3>2, <2>2, <1>1, VersionsFacts
  <2>3. CASE n \notin DOMAIN c.specs
    BY <2>3, <1>1, VersionsFacts
  <2>4. QED BY <2>2, <2>3
<1>3. Typed(api)
  <2>1. api \in [Names -> Version] BY <1>1, <1>2
  <2>2. QED BY <2>1, <1>2 DEF Typed
<1>4. cache = api /\ watch = [k \in Kinds |-> <<>>] BY DEF Init
<1>5. Typed(cache) BY <1>3, <1>4
<1>6. \A k \in Kinds : watch[k] = <<>> /\ DOMAIN watch[k] = {} BY <1>4
<1>7. TypedWatch BY <1>4, <1>6 DEF TypedWatch
<1>8. Synced
  <2>1. \A n \in Names : Tracked(watch[KindOf(n)], n, cache[n], api[n])
    BY <1>4, <1>6, KindFacts DEF Tracked
  <2>2. \A p \in Policies : Successive(watch["policy"], p, cache[p])
    BY <1>6 DEF Successive, Kinds
  <2>3. QED BY <2>1, <2>2 DEF Synced
<1>9. QED BY <1>3, <1>5, <1>7, <1>8 DEF Resources

-----------------------------------------------------------------------------
(* Who changes the resources, and what else they change.                   *)
Others == <<cache, outputs, work, indexes, lds, queued, phase, holes, faults>>

(* What users write is a version that follows the one in force.            *)
LEMMA UsersFacts ==
  ASSUME Resources, Scalars, Users
  PROVE  /\ \E n \in Names : \E obj \in Versions(n) :
              /\ Posted(n, obj)
              /\ n \in Policies => Follows(api[n], obj)
              /\ n \in Policies /\ api[n] # Absent /\ obj # Absent => obj.gen # api[n].gen
         /\ UNCHANGED Others
         /\ writes' \in Nat /\ writes' < MaxAge
<1>1. PICK n \in Names : Create(n) \/ Change(n) \/ Withdraw(n)
  BY DEF Users
<1>2. ASSUME NEW obj, Write(n, obj)
      PROVE  /\ Posted(n, obj) /\ UNCHANGED Others
             /\ writes' \in Nat /\ writes' < MaxAge
  <2>1. /\ writes > 0 /\ writes' = writes - 1 /\ writes \in Nat /\ writes < MaxAge /\ MaxAge \in Nat
    BY <1>2, ClustersAssumption DEF Write, Scalars
  <2>2. Posted(n, obj) /\ UNCHANGED Others
    BY <1>2 DEF Write, Posted, Others
  <2>3. QED BY <2>1, <2>2
<1>3. api[n] \in Versions(n) BY DEF Resources, Typed
<1>4. CASE Create(n)
  <2>1. PICK spec \in Specs[n] : Write(n, Object(n, spec, MaxAge - writes)) BY <1>4 DEF Create
  <2> DEFINE obj == Object(n, spec, MaxAge - writes)
  <2>2. MaxAge - writes \in Nat /\ MaxAge - writes > 0
    BY ClustersAssumption DEF Scalars
  <2>3. obj \in Versions(n) BY <2>2, GivenFacts, ObjectFacts
  <2>4. api[n] = Absent BY <1>4 DEF Create
  <2>5. Write(n, obj) BY <2>1
  <2> HIDE DEF obj
  <2>6. QED BY <2>3, <2>4, <2>5, <1>2 DEF Follows
<1>5. CASE Change(n)
  <2>1. PICK spec \in Specs[n] : Write(n, WithSpec(n, api[n], spec)) BY <1>5 DEF Change
  <2> DEFINE obj == WithSpec(n, api[n], spec)
  <2>2. api[n] # Absent BY <1>5 DEF Change
  <2>3. obj \in Versions(n) /\ (n \in Policies => obj.gen # api[n].gen)
    BY <2>2, <1>3, GivenFacts, WithSpecFacts
  <2>5. Write(n, obj) BY <2>1
  <2> HIDE DEF obj
  <2>6. QED BY <2>3, <2>5, <1>2 DEF Follows
<1>6. CASE Withdraw(n)
  <2>1. Write(n, Absent) /\ Absent \in Versions(n) BY <1>6, VersionsFacts DEF Withdraw
  <2>2. QED BY <2>1, <1>2 DEF Follows
<1>7. QED BY <1>1, <1>4, <1>5, <1>6

(* What is listed of a policy.                                             *)
LEMMA ItemFacts ==
  ASSUME ItemsTyped, NEW i \in DOMAIN items
  PROVE  /\ DOMAIN items = 1..Len(items) /\ Len(items) \in Nat
         /\ items[i] \in Listing
         /\ items[i].name \in Policies /\ items[i].name \in Names
         /\ items[i].obj \in PolicyVersions(items[i].name)
         /\ items[i].obj \in Versions(items[i].name) /\ items[i].obj # Absent
         /\ items[i].obj.spec \in Given(items[i].name)
         /\ items[i].status \in Statuses
         /\ WithStatus(items[i].obj, items[i].status) \in PolicyVersions(items[i].name)
         /\ WithStatus(items[i].obj, items[i].status) \in Versions(items[i].name)
         /\ \A j \in DOMAIN items : items[j].name = items[i].name => j = i
<1>1. items[i] \in Listing
  BY DEF ItemsTyped
<1>2. items[i].name \in Policies /\ items[i].name \in Names /\ items[i].status \in Statuses
  BY <1>1 DEF Names, Listing
<1>3. /\ items[i].obj \in PolicyVersions(items[i].name)
      /\ WithStatus(items[i].obj, items[i].status) \in PolicyVersions(items[i].name)
      /\ DOMAIN items = 1..Len(items) /\ Len(items) \in Nat
      /\ \A j \in DOMAIN items : items[j].name = items[i].name => j = i
  BY DEF ItemsTyped
<1>4. QED BY <1>1, <1>2, <1>3, PolicyVersionFacts, VersionsFacts

(* The item to be looked at next.                                          *)
LEMMA AtFacts ==
  ASSUME ItemsTyped, Scalars, at <= Len(items)
  PROVE  at \in DOMAIN items /\ at \in Nat /\ at + 1 \in 1..(Len(items) + 1)
<1>1. DOMAIN items = 1..Len(items) /\ Len(items) \in Nat BY DEF ItemsTyped
<1>2. QED BY <1>1 DEF Scalars

(* A status that is written makes a version that follows.                  *)
LEMMA WriteStatusFacts ==
  ASSUME Resources, ItemsTyped, Scalars, WriteStatus
  PROVE  LET n == items[at].name
             obj == WithStatus(items[at].obj, items[at].status)
         IN /\ at \in DOMAIN items /\ n \in Names /\ n \in Policies /\ obj \in Versions(n)
            /\ Posted(n, obj)
            /\ api[n] = items[at].obj /\ Follows(api[n], obj) /\ SameSpec(items[at].obj, obj)
            /\ obj.status = items[at].status
<1> DEFINE n == items[at].name
           obj == WithStatus(items[at].obj, items[at].status)
<1>1. at \in DOMAIN items BY AtFacts DEF WriteStatus
<1>2. n \in Names /\ n \in Policies /\ obj \in Versions(n) /\ items[at].obj \in PolicyVersions(n)
  BY <1>1, ItemFacts
<1>3. SameSpec(items[at].obj, obj) /\ obj.status = items[at].status
  BY <1>2, WithStatusSame
<1>4. api[n] = items[at].obj BY DEF WriteStatus
<1>5. Posted(n, obj)
  <2>1. KindOf(n) = "policy" BY <1>2, KindFacts
  <2>2. QED BY <2>1 DEF WriteStatus, Posted, WithStatus
<1>6. QED BY <1>1, <1>2, <1>3, <1>4, <1>5, SameSpecFacts

(* Observe, as an event of its kind.                                       *)
LEMMA ObserveFacts ==
  ASSUME NEW kind \in Kinds, Observe(kind)
  PROVE  \E n, obj :
           /\ Observed(kind, n, obj)
           /\ queued' = (queued \/ Triggers(n, cache[n], obj))
           /\ holes' = holes \union IF ~Triggers(n, cache[n], obj) /\ n \in gateways THEN {"gateway"} ELSE {}
           /\ UNCHANGED <<api, outputs, work, indexes, lds, phase, fresh, writes, faults>>
<1> DEFINE n == Head(watch[kind])[1]
           obj == Head(watch[kind])[2]
<1>1. Observed(kind, n, obj) BY DEF Observe, Observed
<1>2. /\ queued' = (queued \/ Triggers(n, cache[n], obj))
      /\ holes' = holes \union IF ~Triggers(n, cache[n], obj) /\ n \in gateways THEN {"gateway"} ELSE {}
      /\ UNCHANGED <<api, outputs, work, indexes, lds, phase, fresh, writes, faults>>
  BY DEF Observe
<1>3. QED BY <1>1, <1>2

(* Steps that leave resources alone.                                       *)
LEMMA UnchangedResources ==
  ASSUME Resources, UNCHANGED resources
  PROVE  Resources'
BY DEF Resources, resources, Typed, TypedWatch, Synced

(* Each step keeps the informers' copies of resources in step.             *)
LEMMA ResourcesStep ==
  ASSUME Resources, ItemsTyped, Scalars, [Next]_vars
  PROVE  Resources'
<1>1. CASE Users BY <1>1, UsersFacts, PostedResources
<1>2. CASE WriteStatus
  <2> DEFINE n == items[at].name
             obj == WithStatus(items[at].obj, items[at].status)
  <2>1. n \in Names /\ obj \in Versions(n) /\ Posted(n, obj) /\ Follows(api[n], obj)
    BY <1>2, WriteStatusFacts
  <2> HIDE DEF n, obj
  <2>2. QED BY <2>1, PostedResources
<1>3. CASE \E kind \in Kinds : Observe(kind) BY <1>3, ObserveFacts, ObservedResources
<1>4. CASE Restart BY <1>4, RestartedResources DEF Restart
<1>5. CASE ObserveOutput \/ Begin \/ ResolveNext \/ Finish \/ Output \/ KeepStatus \/ StatusFails \/ Rest
           \/ GetFails \/ UNCHANGED vars
  <2>1. UNCHANGED resources
    BY <1>5 DEF ObserveOutput, Begin, ResolveNext, Finish, Output, KeepStatus, StatusFails, Rest, GetFails, vars
  <2>2. QED BY <2>1, UnchangedResources
<1>6. QED BY <1>1, <1>2, <1>3, <1>4, <1>5 DEF Next, Informers, Reconcile

-----------------------------------------------------------------------------
(* The EnvoyFilters, and the informer of them.                             *)
Outputs == OutputTyped /\ OutputSynced

(* A sequence is one over its elements.                                    *)
LEMMA SeqRange ==
  ASSUME NEW S, NEW w \in Seq(S)
  PROVE  w \in Seq(Range(w)) /\ Range(w) \subseteq S
<1>1. DOMAIN w = 1..Len(w) /\ Len(w) \in Nat OBVIOUS
<1>2. \A i \in DOMAIN w : w[i] \in Range(w) /\ w[i] \in S BY DEF Range
<1>3. w \in [1..Len(w) -> Range(w)]
  <2>1. w = [i \in 1..Len(w) |-> w[i]] OBVIOUS
  <2>2. QED BY <1>1, <1>2, <2>1
<1>4. Range(w) \subseteq S BY <1>2 DEF Range
<1> DEFINE R == Range(w)
           n == Len(w)
<1>5. n \in Nat /\ w \in [1..n -> R] BY <1>1, <1>3
<1> HIDE DEF R, n
<1>6. w \in Seq(R) BY <1>5
<1>7. QED BY <1>4, <1>6 DEF R

(* Two sequences in a row.                                                 *)
LEMMA ConcatFacts ==
  ASSUME NEW S, NEW w \in Seq(S), NEW v \in Seq(S)
  PROVE  /\ w \o v \in Seq(S)
         /\ DOMAIN w = 1..Len(w) /\ Len(w) \in Nat /\ DOMAIN v = 1..Len(v) /\ Len(v) \in Nat
         /\ DOMAIN (w \o v) = 1..(Len(w) + Len(v))
         /\ \A i \in DOMAIN w : (w \o v)[i] = w[i]
         /\ \A i \in DOMAIN v : (w \o v)[Len(w) + i] = v[i]
OBVIOUS

(* Several events posted at once, about different things.                  *)
LEMMA TrackedConcat ==
  ASSUME NEW S, NEW w \in Seq(S), NEW v \in Seq(S), NEW n, NEW old, NEW now,
         Tracked(w, n, old, now)
  PROVE  /\ (\A i \in DOMAIN v : v[i][1] # n) => Tracked(w \o v, n, old, now)
         /\ \A i \in DOMAIN v :
              v[i][1] = n /\ (\A j \in DOMAIN v : v[j][1] = n => j = i) => Tracked(w \o v, n, old, v[i][2])
<1> DEFINE a == w \o v
           m == Len(w)
<1>1. /\ DOMAIN w = 1..m /\ m \in Nat /\ DOMAIN v = 1..Len(v) /\ Len(v) \in Nat
      /\ DOMAIN a = 1..(m + Len(v))
      /\ \A i \in DOMAIN w : a[i] = w[i]
      /\ \A i \in DOMAIN v : a[m + i] = v[i]
  BY ConcatFacts
<1> HIDE DEF a, m
<1>2. ASSUME NEW j \in DOMAIN a PROVE j \in DOMAIN w \/ \E i \in DOMAIN v : j = m + i
  <2>1. CASE j <= m BY <2>1, <1>1
  <2>2. CASE j > m
    <3>1. j - m \in DOMAIN v /\ j = m + (j - m) BY <2>2, <1>1
    <3>2. QED BY <3>1
  <2>3. QED BY <2>1, <2>2, <1>1
<1>3. ASSUME \A i \in DOMAIN v : v[i][1] # n PROVE Tracked(a, n, old, now)
  <2>1. CASE old = now /\ \A i \in DOMAIN w : w[i][1] # n
    <3>1. \A j \in DOMAIN a : a[j][1] # n BY <1>1, <1>2, <1>3, <2>1
    <3>2. QED BY <3>1, <2>1 DEF Tracked
  <2>2. CASE \E i \in DOMAIN w : w[i][1] = n /\ w[i][2] = now /\ \A j \in DOMAIN w : j > i => w[j][1] # n
    <3>1. PICK i \in DOMAIN w : w[i][1] = n /\ w[i][2] = now /\ \A j \in DOMAIN w : j > i => w[j][1] # n
      BY <2>2
    <3>2. i \in DOMAIN a /\ a[i] = w[i] BY <1>1
    <3>3. \A j \in DOMAIN a : j > i => a[j][1] # n BY <1>1, <1>2, <1>3, <3>1
    <3>4. QED BY <3>1, <3>2, <3>3 DEF Tracked
  <2>3. QED BY <2>1, <2>2 DEF Tracked
<1>4. ASSUME NEW i \in DOMAIN v, v[i][1] = n, \A j \in DOMAIN v : v[j][1] = n => j = i
      PROVE  Tracked(a, n, old, v[i][2])
  <2>1. m + i \in DOMAIN a /\ a[m + i] = v[i] BY <1>1
  <2>2. \A j \in DOMAIN a : j > m + i => a[j][1] # n
    <3>1. SUFFICES ASSUME NEW j \in DOMAIN a, j > m + i PROVE a[j][1] # n OBVIOUS
    <3>2. j \notin DOMAIN w BY <3>1, <1>1
    <3>3. PICK l \in DOMAIN v : j = m + l BY <3>2, <1>2
    <3>4. a[j] = v[l] /\ l # i BY <3>1, <3>3, <1>1
    <3>5. QED BY <3>4, <1>4
  <2>3. QED BY <2>1, <2>2, <1>4 DEF Tracked
<1>5. QED BY <1>3, <1>4 DEF a

(* OutputSynced, for any EnvoyFilter, present or not.                      *)
LEMMA OutputTracked ==
  ASSUME Outputs, NEW key
  PROVE  Tracked(efWatch, key, Found(efCache, key), Found(efs, key))
<1>1. CASE key \in Keys BY <1>1 DEF Outputs, OutputSynced
<1>2. CASE key \notin Keys BY <1>2 DEF Keys, Found, Tracked
<1>3. QED BY <1>1, <1>2

(* At first there are no EnvoyFilters.                                     *)
LEMMA InitOutputs ==
  ASSUME Init
  PROVE  Outputs
<1>1. efs = Nothing /\ efCache = Nothing /\ efWatch = <<>> BY DEF Init
<1>2. DOMAIN efWatch = {} /\ efWatch \in Seq(Range(efWatch)) BY <1>1
<1>3. OutputTyped BY <1>1, <1>2 DEF OutputTyped, Nothing
<1>4. OutputSynced BY <1>1, <1>2 DEF OutputSynced, Tracked
<1>5. QED BY <1>3, <1>4 DEF Outputs

(* A restart lists the EnvoyFilters anew.                                  *)
LEMMA RestartedOutputs ==
  ASSUME Outputs, efCache' = efs, efWatch' = <<>>, UNCHANGED efs
  PROVE  Outputs'
<1>1. DOMAIN efWatch' = {} /\ efWatch' \in Seq(Range(efWatch')) OBVIOUS
<1>2. OutputTyped' BY <1>1 DEF Outputs, OutputTyped
<1>3. OutputSynced' BY <1>1 DEF OutputSynced, Tracked
<1>4. QED BY <1>2, <1>3 DEF Outputs

(* Seeing an EnvoyFilter's event keeps the copy in step.                   *)
LEMMA ObservedOutputs ==
  ASSUME Outputs, ObserveOutput
  PROVE  Outputs'
<1> DEFINE key == Head(efWatch)[1]
           now == Head(efWatch)[2]
           R == Range(efWatch)
           w == efWatch
<1>1. w \in Seq(R) /\ w # <<>> BY DEF Outputs, OutputTyped, ObserveOutput
<1>2. /\ efWatch' = Tail(w) /\ efs' = efs
      /\ efCache' = IF now = {} THEN [k \in DOMAIN efCache \ {key} |-> efCache[k]]
                    ELSE Put(efCache, key, CHOOSE ef \in now : TRUE)
  BY DEF ObserveOutput
<1>3. /\ Tail(w) \in Seq(R) /\ DOMAIN Tail(w) = 1..(Len(w) - 1) /\ Len(w) \in Nat /\ Len(w) >= 1
      /\ DOMAIN w = 1..Len(w)
      /\ \A i \in DOMAIN Tail(w) : Tail(w)[i] = w[i + 1]
      /\ Head(w) = w[1]
  <2> HIDE DEF w, R
  <2>1. QED BY <1>1, TailFacts
<1>4. now = {} \/ \E ef \in now : now = {ef}
  <2>1. 1 \in DOMAIN w BY <1>3
  <2>2. QED BY <2>1, <1>3 DEF Outputs, OutputTyped
<1>5. \A k : Found(efCache', k) = IF k = key THEN now ELSE Found(efCache, k)
  <2> HIDE DEF key, now
  <2>1. CASE now = {}
    <3>1. QED BY <2>1, <1>2 DEF Found
  <2>2. CASE now # {}
    <3>1. PICK ef \in now : now = {ef} BY <2>2, <1>4
    <3>2. (CHOOSE e \in now : TRUE) = ef BY <3>1
    <3>3. efCache' = Put(efCache, key, ef) BY <3>2, <2>2, <1>2
    <3>4. QED BY <3>1, <3>3 DEF Found, Put
  <2>3. QED BY <2>1, <2>2
<1>6. efCache' = [k \in DOMAIN efCache' |-> efCache'[k]]
  <2> HIDE DEF key, now
  <2>1. QED BY <1>2 DEF Put
<1>7. ASSUME NEW k PROVE Tracked(efWatch', k, Found(efCache', k), Found(efs', k))
  <2>1. Tracked(w, k, Found(efCache, k), Found(efs, k)) BY OutputTracked
  <2>2. Head(w)[1] = key /\ Head(w)[2] = now OBVIOUS
  <2> HIDE DEF w, key, now, R
  <2>3. /\ key = k => Tracked(Tail(w), k, now, Found(efs, k))
        /\ key # k => Tracked(Tail(w), k, Found(efCache, k), Found(efs, k))
    BY <1>1, <2>1, <2>2, TrackedTail
  <2>4. QED BY <2>3, <1>2, <1>5
<1>8. \A i \in DOMAIN efWatch' : efWatch'[i][2] = {} \/ \E ef \in efWatch'[i][2] : efWatch'[i][2] = {ef}
  <2>1. \A i \in DOMAIN Tail(w) : i + 1 \in DOMAIN w BY <1>3
  <2>2. QED BY <2>1, <1>2, <1>3 DEF Outputs, OutputTyped
<1>9. efWatch' \in Seq(Range(efWatch'))
  <2> HIDE DEF w, R
  <2>1. QED BY <1>2, <1>3, SeqRange
<1>10. efs' = [k \in DOMAIN efs' |-> efs'[k]] BY <1>2 DEF Outputs, OutputTyped
<1>11. OutputTyped' BY <1>6, <1>8, <1>9, <1>10 DEF OutputTyped
<1>12. QED BY <1>7, <1>11 DEF Outputs, OutputSynced

(* The events of the writes `done`, one after another.                     *)
Writing(key, gone, generated) == <<key, IF key \in gone THEN {} ELSE {generated[key]}>>
WritingEvents(done, generated) ==
  [i \in DOMAIN done |-> Writing(done[i], Range(done) \ DOMAIN generated, generated)]

(* The events of the writes done.                                          *)
LEMMA EventsOfWrites ==
  ASSUME NEW generated, NEW S, NEW done \in Seq(S)
  PROVE  LET v == WritingEvents(done, generated)
         IN /\ v \in Seq(Range(v)) /\ DOMAIN v = DOMAIN done
            /\ \A i \in DOMAIN done :
                 /\ v[i][1] = done[i]
                 /\ v[i][2] = IF done[i] \in DOMAIN generated THEN {generated[done[i]]} ELSE {}
<1> DEFINE v == WritingEvents(done, generated)
           n == Len(done)
           R == Range(v)
<1>1. DOMAIN done = 1..n /\ n \in Nat OBVIOUS
<1>2. DOMAIN v = 1..n /\ \A i \in 1..n : v[i] = Writing(done[i], Range(done) \ DOMAIN generated, generated)
  BY <1>1 DEF WritingEvents
<1>3. \A i \in 1..n : done[i] \in Range(done) BY <1>1 DEF Range
<1>4. \A i \in 1..n : /\ v[i][1] = done[i]
                      /\ v[i][2] = IF done[i] \in DOMAIN generated THEN {generated[done[i]]} ELSE {}
  <2>1. TAKE i \in 1..n
  <2>2. v[i] = Writing(done[i], Range(done) \ DOMAIN generated, generated) BY <1>2
  <2>3. done[i] \in Range(done) BY <1>3
  <2> HIDE DEF v
  <2>4. v[i][1] = done[i] BY <2>2 DEF Writing
  <2>5. v[i][2] = IF done[i] \in Range(done) \ DOMAIN generated THEN {} ELSE {generated[done[i]]}
    BY <2>2 DEF Writing
  <2>6. QED BY <2>3, <2>4, <2>5
<1>5. v = [i \in 1..n |-> v[i]] BY <1>1 DEF WritingEvents
<1>6. \A i \in 1..n : v[i] \in R BY <1>2 DEF Range
<1>7. v \in Seq(R)
  <2> HIDE DEF v, n, R
  <2>1. v \in [1..n -> R] BY <1>5, <1>6
  <2>2. QED BY <2>1, <1>1
<1>8. QED BY <1>1, <1>2, <1>4, <1>7

(* The EnvoyFilters after the writes done.                                 *)
LEMMA WrittenFilters ==
  ASSUME NEW done, NEW generated, WriteFilters(done, generated)
  PROVE  /\ \A k : Found(efs', k) =
              IF k \notin Range(done) THEN Found(efs, k)
              ELSE IF k \in DOMAIN generated THEN {generated[k]} ELSE {}
         /\ efs' = [k \in DOMAIN efs' |-> efs'[k]]
         /\ efWatch' = efWatch \o WritingEvents(done, generated)
<1> DEFINE gone == Range(done) \ DOMAIN generated
           put == Range(done) \intersect DOMAIN generated
<1>1. efs' = [k \in (DOMAIN efs \ gone) \union put |-> IF k \in put THEN generated[k] ELSE efs[k]]
  BY DEF WriteFilters
<1>2. efWatch' = efWatch \o WritingEvents(done, generated)
  BY DEF WriteFilters, WritingEvents, Writing
<1>3. ASSUME NEW k
      PROVE  Found(efs', k) = IF k \notin Range(done) THEN Found(efs, k)
                              ELSE IF k \in DOMAIN generated THEN {generated[k]} ELSE {}
  BY <1>1 DEF Found
<1>4. efs' = [k \in DOMAIN efs' |-> efs'[k]]
  <2> HIDE DEF gone, put
  <2>1. QED BY <1>1
<1>5. QED BY <1>2, <1>3, <1>4

(* Writing EnvoyFilters keeps the copy in step.                            *)
LEMMA WritesOutputs ==
  ASSUME Outputs, NEW generated, NEW S, NEW done \in Seq(S),
         \A i, j \in DOMAIN done : done[i] = done[j] => i = j,
         WriteFilters(done, generated), UNCHANGED efCache
  PROVE  Outputs'
<1> DEFINE v == WritingEvents(done, generated)
           w == efWatch
           T == Range(w) \union Range(v)
<1>1. /\ v \in Seq(Range(v)) /\ DOMAIN v = DOMAIN done
      /\ \A i \in DOMAIN done :
           /\ v[i][1] = done[i]
           /\ v[i][2] = IF done[i] \in DOMAIN generated THEN {generated[done[i]]} ELSE {}
  BY EventsOfWrites
<1>2. w \in Seq(Range(w)) BY DEF Outputs, OutputTyped
<1>3. /\ \A k : Found(efs', k) = IF k \notin Range(done) THEN Found(efs, k)
                                 ELSE IF k \in DOMAIN generated THEN {generated[k]} ELSE {}
      /\ efs' = [k \in DOMAIN efs' |-> efs'[k]]
      /\ efWatch' = w \o v
  BY WrittenFilters
<1>4. \A i \in DOMAIN w : w[i][2] = {} \/ \E ef \in w[i][2] : w[i][2] = {ef}
  BY DEF Outputs, OutputTyped
<1>5. \A k : Tracked(w, k, Found(efCache, k), Found(efs, k))
  BY OutputTracked
<1> HIDE DEF v, w
<1>6. w \in Seq(T) /\ v \in Seq(T)
  <2>1. Range(w) \subseteq T /\ Range(v) \subseteq T OBVIOUS
  <2> HIDE DEF T
  <2>2. QED BY <1>1, <1>2, <2>1
<1> HIDE DEF T
<1>7. /\ w \o v \in Seq(T)
      /\ DOMAIN w = 1..Len(w) /\ Len(w) \in Nat /\ DOMAIN v = 1..Len(v) /\ Len(v) \in Nat
      /\ DOMAIN (w \o v) = 1..(Len(w) + Len(v))
      /\ \A i \in DOMAIN w : (w \o v)[i] = w[i]
      /\ \A i \in DOMAIN v : (w \o v)[Len(w) + i] = v[i]
  BY <1>6, ConcatFacts
<1>8. efWatch' \in Seq(Range(efWatch')) BY <1>3, <1>7, SeqRange
<1>9. ASSUME NEW j \in DOMAIN efWatch'
      PROVE  efWatch'[j][2] = {} \/ \E ef \in efWatch'[j][2] : efWatch'[j][2] = {ef}
  <2>1. CASE j \in DOMAIN w BY <2>1, <1>3, <1>4, <1>7
  <2>2. CASE j \notin DOMAIN w
    <3>1. j - Len(w) \in DOMAIN v /\ j = Len(w) + (j - Len(w)) BY <2>2, <1>3, <1>7
    <3>2. PICK i \in DOMAIN v : j = Len(w) + i BY <3>1
    <3>3. efWatch'[j] = v[i] BY <3>2, <1>3, <1>7
    <3>4. v[i][2] = {} \/ v[i][2] = {generated[done[i]]} BY <1>1
    <3>5. QED BY <3>3, <3>4
  <2>3. QED BY <2>1, <2>2
<1>10. ASSUME NEW k PROVE Tracked(w \o v, k, Found(efCache, k), Found(efs', k))
  <2>0. Tracked(w, k, Found(efCache, k), Found(efs, k)) BY <1>5
  <2>1. CASE k \notin Range(done)
    <3>1. ASSUME NEW i \in DOMAIN v PROVE v[i][1] # k
      <4>1. v[i][1] = done[i] /\ i \in DOMAIN done BY <1>1
      <4>2. QED BY <4>1, <2>1 DEF Range
    <3>2. Tracked(w \o v, k, Found(efCache, k), Found(efs, k)) BY <3>1, <2>0, <1>6, TrackedConcat
    <3>3. QED BY <3>2, <2>1, <1>3
  <2>2. CASE k \in Range(done)
    <3>1. PICK i \in DOMAIN done : done[i] = k BY <2>2 DEF Range
    <3>2. i \in DOMAIN v /\ v[i][1] = k /\ \A j \in DOMAIN v : v[j][1] = k => j = i BY <3>1, <1>1
    <3>3. Tracked(w \o v, k, Found(efCache, k), v[i][2]) BY <3>2, <2>0, <1>6, TrackedConcat
    <3>4. v[i][2] = Found(efs', k) BY <3>1, <1>1, <1>3, <2>2
    <3>5. QED BY <3>3, <3>4
  <2>3. QED BY <2>1, <2>2
<1>11. OutputTyped' BY <1>3, <1>8, <1>9 DEF Outputs, OutputTyped
<1>12. OutputSynced' BY <1>3, <1>10 DEF OutputSynced
<1>13. QED BY <1>11, <1>12 DEF Outputs

(* One order after another.                                                *)
LEMMA OrdersOfTwo ==
  ASSUME NEW A, NEW B, IsFiniteSet(A), IsFiniteSet(B), A \intersect B = {},
         NEW a \in SetToSeqs(A), NEW b \in SetToSeqs(B)
  PROVE  /\ a \o b \in Seq(A \union B) /\ Range(a \o b) = A \union B
         /\ \A i, j \in DOMAIN (a \o b) : (a \o b)[i] = (a \o b)[j] => i = j
<1> DEFINE c == a \o b
           T == A \union B
           m == Len(a)
<1>1. /\ a \in Seq(A) /\ Range(a) = A /\ \A i, j \in DOMAIN a : a[i] = a[j] => i = j
      /\ b \in Seq(B) /\ Range(b) = B /\ \A i, j \in DOMAIN b : b[i] = b[j] => i = j
  BY OrderFacts
<1>2. a \in Seq(T) /\ b \in Seq(T)
  <2>1. A \subseteq T /\ B \subseteq T OBVIOUS
  <2> HIDE DEF T
  <2>2. QED BY <1>1, <2>1
<1> HIDE DEF T
<1>3. /\ c \in Seq(T)
      /\ DOMAIN a = 1..m /\ m \in Nat /\ DOMAIN b = 1..Len(b) /\ Len(b) \in Nat
      /\ DOMAIN c = 1..(m + Len(b))
      /\ \A i \in DOMAIN a : c[i] = a[i]
      /\ \A i \in DOMAIN b : c[m + i] = b[i]
  BY <1>2, ConcatFacts
<1>4. (\A i \in DOMAIN a : a[i] \in A) /\ (\A i \in DOMAIN b : b[i] \in B)
  BY <1>1 DEF Range
<1> HIDE DEF c, m
<1>5. ASSUME NEW j \in DOMAIN c, j \notin DOMAIN a PROVE \E i \in DOMAIN b : j = m + i
  <2>1. j - m \in DOMAIN b /\ j = m + (j - m) BY <1>5, <1>3
  <2>2. QED BY <2>1
<1>6. ASSUME NEW i \in DOMAIN c, NEW j \in DOMAIN c, c[i] = c[j] PROVE i = j
  <2>1. CASE i \in DOMAIN a /\ j \in DOMAIN a BY <2>1, <1>6, <1>1, <1>3
  <2>2. CASE i \notin DOMAIN a /\ j \notin DOMAIN a
    <3>1. PICK k \in DOMAIN b : i = m + k BY <2>2, <1>5
    <3>2. PICK l \in DOMAIN b : j = m + l BY <2>2, <1>5
    <3>3. b[k] = b[l] BY <3>1, <3>2, <1>3, <1>6
    <3>4. QED BY <3>1, <3>2, <3>3, <1>1
  <2>3. CASE i \in DOMAIN a /\ j \notin DOMAIN a
    <3>1. PICK l \in DOMAIN b : j = m + l BY <2>3, <1>5
    <3>2. c[i] \in A /\ c[j] \in B BY <3>1, <2>3, <1>3, <1>4
    <3>3. QED BY <3>2, <1>6
  <2>4. CASE i \notin DOMAIN a /\ j \in DOMAIN a
    <3>1. PICK l \in DOMAIN b : i = m + l BY <2>4, <1>5
    <3>2. c[j] \in A /\ c[i] \in B BY <3>1, <2>4, <1>3, <1>4
    <3>3. QED BY <3>2, <1>6
  <2>5. QED BY <2>1, <2>2, <2>3, <2>4
<1>7. ASSUME NEW x \in A PROVE x \in Range(c)
  <2>1. PICK i \in DOMAIN a : a[i] = x BY <1>1, <1>7 DEF Range
  <2>2. i \in DOMAIN c /\ c[i] = x BY <2>1, <1>3
  <2>3. QED BY <2>2 DEF Range
<1>8. ASSUME NEW x \in B PROVE x \in Range(c)
  <2>1. PICK i \in DOMAIN b : b[i] = x BY <1>1, <1>8 DEF Range
  <2>2. m + i \in DOMAIN c /\ c[m + i] = x BY <2>1, <1>3
  <2>3. QED BY <2>2 DEF Range
<1>9. Range(c) \subseteq T BY <1>3, SeqRange
<1>10. QED BY <1>3, <1>6, <1>7, <1>8, <1>9 DEF c, T

(* The writes done are finitely many, and deletes are no upserts.          *)
LEMMA DoneFacts ==
  ASSUME NEW generated, NEW done \in Done(generated)
  PROVE  /\ IsFiniteSet(done[1]) /\ IsFiniteSet(done[2])
         /\ done[1] \subseteq Deletes(generated)
         /\ done[2] \subseteq Upserts(generated)
         /\ done[2] # {} => done[1] = Deletes(generated)
         /\ done[1] \intersect done[2] = {}
<1>1. IsFiniteSet(done[1]) /\ IsFiniteSet(done[2]) BY DEF Done
<1>2. \/ \E d \in SUBSET Deletes(generated) : done = <<d, {}>>
      \/ \E u \in SUBSET Upserts(generated) : done = <<Deletes(generated), u>>
  BY DEF Done
<1>3. QED BY <1>1, <1>2 DEF Deletes, Upserts

(* Each step keeps the informer's copy of EnvoyFilters in step.            *)
LEMMA OutputsStep ==
  ASSUME Outputs, [Next]_vars
  PROVE  Outputs'
<1>1. CASE ObserveOutput BY <1>1, ObservedOutputs
<1>2. CASE Output
  <2>1. PICK generated \in Process(init) : \E done \in Done(generated) :
          \E a \in SetToSeqs(done[1]), b \in SetToSeqs(done[2]) : WriteFilters(a \o b, generated)
    BY <1>2 DEF Output
  <2>2. PICK done \in Done(generated) :
          \E a \in SetToSeqs(done[1]), b \in SetToSeqs(done[2]) : WriteFilters(a \o b, generated)
    BY <2>1
  <2> DEFINE A == done[1]
             B == done[2]
  <2>3. PICK a \in SetToSeqs(A), b \in SetToSeqs(B) : WriteFilters(a \o b, generated)
    BY <2>2
  <2>4. IsFiniteSet(A) /\ IsFiniteSet(B) /\ A \intersect B = {}
    BY DoneFacts
  <2> HIDE DEF A, B
  <2>5. /\ a \o b \in Seq(A \union B)
        /\ \A i, j \in DOMAIN (a \o b) : (a \o b)[i] = (a \o b)[j] => i = j
    BY <2>4, OrdersOfTwo
  <2>6. UNCHANGED efCache BY <1>2 DEF Output
  <2> DEFINE c == a \o b
             T == A \union B
  <2>7. c \in Seq(T) /\ (\A i, j \in DOMAIN c : c[i] = c[j] => i = j) /\ WriteFilters(c, generated)
    BY <2>3, <2>5
  <2> HIDE DEF c, T
  <2>8. QED BY <2>6, <2>7, WritesOutputs
<1>3. CASE Restart BY <1>3, RestartedOutputs DEF Restart
<1>4. CASE Users \/ (\E kind \in Kinds : Observe(kind)) \/ Begin \/ ResolveNext \/ Finish \/ KeepStatus
           \/ WriteStatus \/ StatusFails \/ Rest \/ GetFails \/ UNCHANGED vars
  <2>1. UNCHANGED outputs
    BY <1>4 DEF Users, Create, Change, Withdraw, Write, Observe, Begin, ResolveNext, Finish, KeepStatus,
                WriteStatus, StatusFails, Rest, GetFails, vars
  <2>2. QED BY <2>1 DEF Outputs, outputs, OutputTyped, OutputSynced, Keys
<1>5. QED BY <1>1, <1>2, <1>3, <1>4 DEF Next, Informers, Reconcile

-----------------------------------------------------------------------------
(* What resolving a policy comes to.                                       *)
LEMMA AddPolicyForRouteFacts ==
  ASSUME NEW st, Collected(st),
         NEW policy, NEW name, NEW route, NEW gws
  PROVE  /\ DOMAIN AddPolicyForRoute(st, policy, name, route, gws).routes = DOMAIN st.routes \union {name}
         /\ AddPolicyForRoute(st, policy, name, route, gws).listeners = st.listeners
         /\ Collected(AddPolicyForRoute(st, policy, name, route, gws))
<1> DEFINE before == IF name \in DOMAIN st.routes THEN st.routes[name]
                     ELSE [route |-> route, gws |-> gws, policies |-> {}]
           after == [before EXCEPT !.policies = @ \union RoutePolicies(policy, route)]
           routes == Put(st.routes, name, after)
<1>1. AddPolicyForRoute(st, policy, name, route, gws) = [st EXCEPT !.routes = routes]
  BY DEF AddPolicyForRoute
<1> HIDE DEF after
<1>2. DOMAIN routes = DOMAIN st.routes \union {name} BY DEF Put
<1> HIDE DEF routes
<1>3. [st EXCEPT !.routes = routes] = [routes |-> routes, listeners |-> st.listeners]
  BY DEF Collected
<1>4. QED BY <1>1, <1>2, <1>3 DEF Collected

(* Adding a policy of a gateway leaves the routes alone.                   *)
LEMMA AddPolicyForGatewayFacts ==
  ASSUME NEW st, Collected(st),
         NEW policy, NEW name
  PROVE  /\ AddPolicyForGateway(policy, name, st).routes = st.routes
         /\ Collected(AddPolicyForGateway(policy, name, st))
<1> DEFINE ls == AddGateways(st.listeners, cache, <<name>>, [g \in {name} |-> {policy}])
<1>1. AddPolicyForGateway(policy, name, st) = [st EXCEPT !.listeners = ls]
  BY DEF AddPolicyForGateway
<1> HIDE DEF ls
<1>2. [st EXCEPT !.listeners = ls] = [routes |-> st.routes, listeners |-> ls]
  BY DEF Collected
<1>3. QED BY <1>1, <1>2 DEF Collected

RouteOutcome(r, name, st) ==
  /\ r.reason \in {"Accepted", "TargetNotFound"}
  /\ r.reason = "Accepted" <=> name \in DOMAIN st.routes \/ HasGateway(name)
  /\ r.indexed = {} \/ r.indexed = Named(cache[name])
  /\ name \notin DOMAIN st.routes => r.indexed = Named(cache[name])
  /\ r.reason = "Accepted" => DOMAIN r.init.routes = DOMAIN st.routes \union {name}
  /\ r.reason # "Accepted" => r.init = st
  /\ Collected(r.init)
  /\ r.init.listeners = st.listeners

(* The outcome for a policy of a route, by what is there already.          *)
LEMMA ResolveWithRouteFacts ==
  ASSUME NEW st, Collected(st), NEW policy, NEW name
  PROVE  RouteOutcome(ResolveWithRoute(policy, name, st), name, st)
<1> DEFINE route == cache[name]
           gws == {g \in Named(route) : Usable(route, g)}
           r == ResolveWithRoute(policy, name, st)
           a(gs) == AddPolicyForRoute(st, policy, name, route, gs)
<1>1. gws # {} <=> HasGateway(name) BY DEF HasGateway
<1>2. \A gs : /\ DOMAIN a(gs).routes = DOMAIN st.routes \union {name}
              /\ a(gs).listeners = st.listeners
              /\ Collected(a(gs))
  <2>1. TAKE gs
  <2>2. QED BY AddPolicyForRouteFacts
<1>3. CASE name \in DOMAIN st.routes
  <2>1. r = Resolution("Accepted", a({}), {})
    BY <1>3 DEF ResolveWithRoute
  <2> HIDE DEF r, a
  <2>2. r.reason = "Accepted" /\ r.init = a({}) /\ r.indexed = {} BY <2>1 DEF Resolution
  <2>3. RouteOutcome(r, name, st) BY <2>2, <1>2, <1>3 DEF RouteOutcome
  <2>4. QED BY <2>3 DEF r
<1>4. CASE name \notin DOMAIN st.routes /\ gws # {}
  <2>1. r = Resolution("Accepted", a({cache[g] : g \in gws}), Named(route))
    BY <1>4 DEF ResolveWithRoute
  <2> HIDE DEF r, a
  <2>2. r.reason = "Accepted" /\ r.init = a({cache[g] : g \in gws}) /\ r.indexed = Named(route)
    BY <2>1 DEF Resolution
  <2> HIDE DEF gws
  <2>3. RouteOutcome(r, name, st) BY <2>2, <1>1, <1>2, <1>4 DEF RouteOutcome
  <2>4. QED BY <2>3 DEF r
<1>5. CASE name \notin DOMAIN st.routes /\ gws = {}
  <2>1. r = Resolution("TargetNotFound", st, Named(route))
    BY <1>5 DEF ResolveWithRoute
  <2> HIDE DEF r
  <2>2. r.reason = "TargetNotFound" /\ r.init = st /\ r.indexed = Named(route)
    BY <2>1 DEF Resolution
  <2> HIDE DEF gws
  <2>3. RouteOutcome(r, name, st) BY <2>2, <1>1, <1>5 DEF RouteOutcome
  <2>4. QED BY <2>3 DEF r
<1>6. QED BY <1>3, <1>4, <1>5

Outcome(r, reason, indexed) == r.reason = reason /\ r.indexed = indexed

(* The outcome for any policy.                                             *)
LEMMA ResolveFacts ==
  ASSUME Scalars, NEW p \in Policies, NEW obj \in PolicyVersions(p)
  PROVE  LET r == Resolve(p, obj)
             t == obj.spec.target
         IN /\ Collected(r.init)
            /\ \/ /\ ~Targeting(obj.spec) /\ r.reason \in {"Invalid", "same"} /\ r.indexed = {} /\ r.init = init
               \/ /\ Targeting(obj.spec) /\ t \in Gateways /\ ~lds
                  /\ Outcome(r, "same", {}) /\ r.init = init
               \/ /\ Targeting(obj.spec) /\ (t \in Gateways => lds) /\ ~TargetFound(obj.spec)
                  /\ Outcome(r, "TargetNotFound", {t} \intersect Gateways) /\ r.init = init
               \/ /\ Targeting(obj.spec) /\ t \in Gateways /\ lds /\ TargetFound(obj.spec)
                  /\ Outcome(r, "Accepted", {t}) /\ r.init.routes = init.routes
                  /\ r.init = AddPolicyForGateway(Translated(p, obj), t, init)
               \/ /\ Targeting(obj.spec) /\ t \in Routes /\ TargetFound(obj.spec)
                  /\ r = ResolveWithRoute(Translated(p, obj), t, init)
<1> DEFINE r == Resolve(p, obj)
           t == obj.spec.target
           policy == Translated(p, obj)
           hopeless == t = Absent \/ KnownInvalid(obj) \/ (IsSpecChanged(obj) /\ ~obj.spec.valid)
<1>0. Collected(init) BY DEF Scalars
<1>1. /\ obj.spec \in Given(p) /\ obj.status.gen \in Nat /\ obj.gen \in Nat /\ JudgedRight(obj)
      /\ obj.status = [reason |-> obj.status.reason, gen |-> obj.status.gen]
  BY PolicyVersionFacts
<1>2. /\ t \in Routes \union Gateways \union {Absent} /\ obj.spec.valid \in BOOLEAN
      /\ (Targeting(obj.spec) => t \in Routes \union Gateways)
  BY <1>1, PolicySpecFacts
<1>3. KnownInvalid(obj) <=> obj.status.gen = obj.gen /\ obj.status.reason = "Invalid"
  BY <1>1 DEF KnownInvalid, Status
<1>4. hopeless <=> ~Targeting(obj.spec)
  BY <1>1, <1>2, <1>3 DEF JudgedRight, IsSpecChanged, Targeting
<1>5. CASE hopeless
  <2>1. r = Resolution(IF t = Absent \/ IsSpecChanged(obj) THEN "Invalid" ELSE "same", init, {})
    BY <1>5 DEF Resolve
  <2> HIDE DEF r, hopeless
  <2>2. r.reason \in {"Invalid", "same"} /\ r.init = init /\ r.indexed = {}
    BY <2>1 DEF Resolution
  <2>3. QED BY <2>2, <1>0, <1>4, <1>5 DEF r
<1>6. CASE ~hopeless
  <2>0. r = IF t \in Gateways /\ ~lds THEN Resolution("same", init, {})
            ELSE IF ~TargetFound(obj.spec) THEN Resolution("TargetNotFound", init, {t} \intersect Gateways)
            ELSE IF t \in Routes THEN ResolveWithRoute(policy, t, init)
            ELSE Resolution("Accepted", AddPolicyForGateway(policy, t, init), {t})
    BY <1>6 DEF Resolve
  <2>1. Targeting(obj.spec) /\ t \in Routes \union Gateways BY <1>2, <1>4, <1>6
  <2> HIDE DEF r, hopeless, t, policy
  <2>2. CASE t \in Gateways /\ ~lds
    <3>1. r.reason = "same" /\ r.init = init /\ r.indexed = {} BY <2>0, <2>2 DEF Resolution
    <3>2. QED BY <3>1, <2>1, <2>2, <1>0 DEF Outcome, r, t
  <2>3. CASE ~(t \in Gateways /\ ~lds) /\ ~TargetFound(obj.spec)
    <3>1. r.reason = "TargetNotFound" /\ r.init = init /\ r.indexed = {t} \intersect Gateways
      BY <2>0, <2>3 DEF Resolution
    <3>2. QED BY <3>1, <2>1, <2>3, <1>0 DEF Outcome, r, t
  <2>4. CASE ~(t \in Gateways /\ ~lds) /\ TargetFound(obj.spec) /\ t \in Routes
    <3>1. r = ResolveWithRoute(policy, t, init) BY <2>0, <2>4
    <3>2. Collected(r.init)
      BY <3>1, <1>0, ResolveWithRouteFacts DEF RouteOutcome
    <3>3. QED BY <3>1, <3>2, <2>1, <2>4 DEF r, t, policy
  <2>5. CASE ~(t \in Gateways /\ ~lds) /\ TargetFound(obj.spec) /\ t \notin Routes
    <3>1. r = Resolution("Accepted", AddPolicyForGateway(policy, t, init), {t}) BY <2>0, <2>5
    <3>2. r.reason = "Accepted" /\ r.init = AddPolicyForGateway(policy, t, init) /\ r.indexed = {t}
      BY <3>1 DEF Resolution
    <3>3. r.init.routes = init.routes /\ Collected(r.init)
      BY <3>2, <1>0, AddPolicyForGatewayFacts
    <3>4. QED BY <3>2, <3>3, <2>1, <2>5, NamesAssumption DEF Outcome, r, t, policy
  <2>6. QED BY <2>2, <2>3, <2>4, <2>5
<1>7. QED BY <1>5, <1>6

-----------------------------------------------------------------------------
(* What is listed.                                                         *)
LEMMA ExistingFinite ==
  ASSUME NEW objects, NEW names, names \subseteq Names
  PROVE  IsFiniteSet(Existing(objects, names)) /\ Existing(objects, names) \subseteq names
<1>1. Existing(objects, names) \subseteq Names BY DEF Existing
<1>2. IsFiniteSet(Existing(objects, names)) BY <1>1, NamesAssumption, FS_Subset
<1>3. QED BY <1>2 DEF Existing

(* What Begin lists: each policy of the copy, once.                        *)
LEMMA BeginFacts ==
  ASSUME Resources, Begin
  PROVE  /\ ItemsTyped'
         /\ \A i \in DOMAIN items' :
              /\ items'[i].name \in Policies /\ cache[items'[i].name] # Absent
              /\ items'[i].obj = cache[items'[i].name]
         /\ \A p \in Policies : cache[p] # Absent => \E i \in DOMAIN items' : items'[i].name = p
<1> DEFINE S == Existing(cache, Policies)
<1>1. PICK order \in SetToSeqs(S) : items' = [i \in DOMAIN order |-> Item(order[i])]
  BY DEF Begin
<1>2. IsFiniteSet(S) /\ S \subseteq Policies BY ExistingFinite DEF Names
<1>3. \A p \in S : p \in Policies /\ cache[p] # Absent BY DEF Existing
<1>4. \A p \in Policies : cache[p] # Absent => p \in S BY DEF Existing
<1> HIDE DEF S
<1>5. /\ order \in Seq(S) /\ Len(order) \in Nat /\ DOMAIN order = 1..Len(order)
      /\ Range(order) = S
      /\ \A i, j \in DOMAIN order : order[i] = order[j] => i = j
  BY <1>1, <1>2, OrderFacts
<1>6. DOMAIN items' = 1..Len(order) /\ \A i \in 1..Len(order) : items'[i] = Item(order[i])
  BY <1>1, <1>5
<1>7. ASSUME NEW i \in 1..Len(order)
      PROVE  /\ order[i] \in S /\ items'[i].name = order[i] /\ items'[i].obj = cache[order[i]]
             /\ items'[i].status = cache[order[i]].status
             /\ items'[i] \in Listing
             /\ items'[i].obj \in PolicyVersions(items'[i].name)
             /\ WithStatus(items'[i].obj, items'[i].status) \in PolicyVersions(items'[i].name)
  <2>1. order[i] \in S BY <1>5
  <2>2. items'[i] = [name |-> order[i], obj |-> cache[order[i]], status |-> cache[order[i]].status]
    BY <1>6 DEF Item
  <2> DEFINE p == order[i]
             o == cache[p]
  <2>3. p \in Policies /\ o # Absent BY <2>1, <1>3
  <2>4. p \in Names /\ o \in Versions(p) BY <2>3 DEF Names, Resources, Typed
  <2>5. o \in PolicyVersions(p) /\ o \in Version BY <2>3, <2>4, VersionsFacts
  <2>6. o.status \in Statuses /\ WithStatus(o, o.status) = o BY <2>3, <2>5, PolicyVersionFacts, WithStatusSame
  <2> HIDE DEF p, o
  <2>7. items'[i] \in Listing BY <2>2, <2>3, <2>5, <2>6 DEF Listing, p, o
  <2>8. items'[i].name = p /\ items'[i].obj = o /\ items'[i].status = o.status BY <2>2 DEF p, o
  <2>9. QED BY <2>1, <2>5, <2>6, <2>7, <2>8 DEF p, o
<1>8. items' \in Seq(Listing)
  <2> DEFINE n == Len(order)
             its == items'
  <2>1. its = [i \in 1..n |-> its[i]] BY <1>1, <1>5
  <2>2. \A i \in 1..n : its[i] \in Listing BY <1>7
  <2>3. n \in Nat BY <1>5
  <2> HIDE DEF n, its
  <2>4. its \in [1..n -> Listing] BY <2>1, <2>2
  <2>5. its \in Seq(Listing) BY <2>3, <2>4
  <2>6. QED BY <2>5 DEF its
<1>9. \A i, j \in DOMAIN items' : items'[i].name = items'[j].name => i = j
  BY <1>5, <1>6, <1>7
<1>10. ItemsTyped' BY <1>6, <1>7, <1>8, <1>9 DEF ItemsTyped
<1>11. \A i \in DOMAIN items' : /\ items'[i].name \in Policies /\ cache[items'[i].name] # Absent
                                /\ items'[i].obj = cache[items'[i].name]
  BY <1>3, <1>6, <1>7
<1>12. ASSUME NEW p \in Policies, cache[p] # Absent PROVE \E i \in DOMAIN items' : items'[i].name = p
  <2>1. p \in Range(order) BY <1>4, <1>5, <1>12
  <2>2. PICK i \in DOMAIN order : order[i] = p BY <2>1 DEF Range
  <2>3. QED BY <2>2, <1>5, <1>6, <1>7
<1>13. QED BY <1>10, <1>11, <1>12

(* The status of one item computed.                                        *)
LEMMA StatusUpdate ==
  ASSUME ItemsTyped, NEW a \in DOMAIN items, NEW reason \in Reasons,
         reason = "Invalid" <=> ~Targeting(items[a].obj.spec),
         items' = [items EXCEPT ![a].status = Status(items[a].obj, reason)]
  PROVE  /\ ItemsTyped' /\ DOMAIN items' = DOMAIN items /\ Len(items') = Len(items)
         /\ \A i \in DOMAIN items : i # a => items'[i] = items[i]
         /\ items'[a].name = items[a].name /\ items'[a].obj = items[a].obj
         /\ items'[a].status = Status(items[a].obj, reason)
<1> DEFINE x == items[a]
           st == Status(x.obj, reason)
           y == [x EXCEPT !.status = st]
<1>1. /\ x \in Listing /\ x.obj \in PolicyVersions(x.name) /\ x.name \in Policies
  BY ItemFacts
<1>2. WithStatus(x.obj, st) \in PolicyVersions(x.name) /\ x.obj.gen \in Nat
  BY <1>1, WithStatusFacts, PolicyVersionFacts
<1>3. st \in Statuses BY <1>2 DEF Status, Statuses
<1>4. items' = [items EXCEPT ![a] = y] OBVIOUS
<1> HIDE DEF x, st
<1>5. y \in Listing /\ y.name = x.name /\ y.obj = x.obj /\ y.status = st
  BY <1>1, <1>3 DEF Listing
<1> HIDE DEF y
<1>6. items \in Seq(Listing) BY DEF ItemsTyped
<1>7. items' \in Seq(Listing) /\ DOMAIN items' = DOMAIN items /\ Len(items') = Len(items)
  BY <1>4, <1>5, <1>6
<1>8. items'[a] = y /\ \A i \in DOMAIN items : i # a => items'[i] = items[i]
  BY <1>4, <1>6
<1>9. \A i \in DOMAIN items : items'[i].name = items[i].name /\ items'[i].obj = items[i].obj
  BY <1>5, <1>8 DEF x
<1>10. \A i, j \in DOMAIN items' : items'[i].name = items'[j].name => i = j
  BY <1>7, <1>9 DEF ItemsTyped
<1>11. \A i \in DOMAIN items' :
         /\ items'[i].obj \in PolicyVersions(items'[i].name)
         /\ WithStatus(items'[i].obj, items'[i].status) \in PolicyVersions(items'[i].name)
  <2>1. TAKE i \in DOMAIN items'
  <2>2. CASE i = a BY <2>2, <1>1, <1>2, <1>5, <1>8
  <2>3. CASE i # a BY <2>3, <1>7, <1>8 DEF ItemsTyped
  <2>4. QED BY <2>2, <2>3
<1>12. ItemsTyped' BY <1>7, <1>10, <1>11 DEF ItemsTyped
<1>13. QED BY <1>5, <1>7, <1>8, <1>12 DEF x, st

(* Nothing listed.                                                         *)
LEMMA NoItems ==
  ASSUME items' = <<>>
  PROVE  ItemsTyped' /\ DOMAIN items' = {} /\ Len(items') = 0
<1>1. items' \in Seq(Listing) /\ DOMAIN items' = {} /\ Len(items') = 0 OBVIOUS
<1>2. QED BY <1>1 DEF ItemsTyped

(* One policy resolved: its status, and those of the others as they were.  *)
LEMMA ResolveNextFacts ==
  ASSUME Resources, ItemsTyped, Scalars, ResolveNext
  PROVE  LET r == Resolve(items[at].name, items[at].obj)
         IN /\ at \in DOMAIN items /\ at' = at + 1 /\ phase = "resolve" /\ phase' = "resolve"
            /\ init' = r.init /\ gateways' = gateways \union r.indexed
            /\ items[at].name \in Policies /\ items[at].obj \in PolicyVersions(items[at].name)
            /\ ItemsTyped' /\ DOMAIN items' = DOMAIN items /\ Len(items') = Len(items)
            /\ \A i \in DOMAIN items : i # at => items'[i] = items[i]
            /\ items'[at].name = items[at].name /\ items'[at].obj = items[at].obj
            /\ items'[at].status = IF r.reason = "same" THEN items[at].status
                                   ELSE Status(items[at].obj, r.reason)
            /\ UNCHANGED <<resources, outputs, indexes, lds, queued, phase, holes, fresh, writes, faults>>
<1> DEFINE r == Resolve(items[at].name, items[at].obj)
<1>1. at \in DOMAIN items BY AtFacts DEF ResolveNext
<1>2. items[at].name \in Policies /\ items[at].obj \in PolicyVersions(items[at].name)
      /\ items[at].obj.spec \in Given(items[at].name)
  BY <1>1, ItemFacts
<1>3. /\ at' = at + 1 /\ phase = "resolve" /\ phase' = "resolve"
      /\ init' = r.init /\ gateways' = gateways \union r.indexed
      /\ items' = IF r.reason = "same" THEN items
                  ELSE [items EXCEPT ![at].status = Status(items[at].obj, r.reason)]
      /\ UNCHANGED <<resources, outputs, indexes, lds, queued, phase, holes, fresh, writes, faults>>
  BY DEF ResolveNext
<1>4. r.reason = "same" \/ (r.reason \in Reasons /\ (r.reason = "Invalid" <=> ~Targeting(items[at].obj.spec)))
  <2> DEFINE obj == items[at].obj
             t == obj.spec.target
             policy == Translated(items[at].name, obj)
  <2>1. \/ /\ ~Targeting(obj.spec) /\ r.reason \in {"Invalid", "same"}
        \/ r.reason = "same"
        \/ /\ Targeting(obj.spec) /\ r.reason \in {"TargetNotFound", "Accepted"}
        \/ /\ Targeting(obj.spec) /\ r = ResolveWithRoute(policy, t, init)
    BY <1>2, ResolveFacts DEF Outcome
  <2> HIDE DEF r, policy, t
  <2>2. CASE r = ResolveWithRoute(policy, t, init) /\ Targeting(obj.spec)
    <3>0. Collected(init) BY DEF Scalars
    <3>1. r.reason \in {"TargetNotFound", "Accepted"}
      BY <2>2, <3>0, ResolveWithRouteFacts DEF RouteOutcome
    <3>2. QED BY <3>1, <2>2 DEF Reasons
  <2>3. QED BY <2>1, <2>2 DEF Reasons
<1> HIDE DEF r
<1>5. CASE r.reason = "same"
  <2>1. items' = items BY <1>3, <1>5
  <2>2. ItemsTyped' BY <2>1 DEF ItemsTyped
  <2>3. QED BY <2>1, <2>2, <1>1, <1>2, <1>3, <1>5 DEF r
<1>6. CASE r.reason # "same"
  <2>1. items' = [items EXCEPT ![at].status = Status(items[at].obj, r.reason)] BY <1>3, <1>6
  <2>2. /\ ItemsTyped' /\ DOMAIN items' = DOMAIN items /\ Len(items') = Len(items)
        /\ \A i \in DOMAIN items : i # at => items'[i] = items[i]
        /\ items'[at].name = items[at].name /\ items'[at].obj = items[at].obj
        /\ items'[at].status = Status(items[at].obj, r.reason)
    BY <2>1, <1>1, <1>4, <1>6, StatusUpdate
  <2>3. QED BY <2>2, <1>1, <1>2, <1>3, <1>6 DEF r
<1>7. QED BY <1>5, <1>6

-----------------------------------------------------------------------------
(* The controller's variables have their types.                            *)
LEMMA NamedFacts ==
  ASSUME Typed(cache), NEW R \in Routes, cache[R] # Absent
  PROVE  Named(cache[R]) \subseteq Gateways /\ cache[R] \in Given(R)
<1>1. R \in Names /\ R \notin Policies BY NamesAssumption DEF Names
<1>2. cache[R] \in Given(R) BY <1>1, VersionsFacts DEF Typed
<1>3. QED BY <1>2, SpecsAssumption

(* Only gateways are indexed.                                              *)
LEMMA ResolvedIndexed ==
  ASSUME Resources, Scalars, NEW p \in Policies, NEW obj \in PolicyVersions(p)
  PROVE  Resolve(p, obj).indexed \subseteq Gateways
<1> DEFINE r == Resolve(p, obj)
           t == obj.spec.target
           policy == Translated(p, obj)
<1>1. \/ r.indexed = {}
      \/ r.indexed = {t} \intersect Gateways
      \/ t \in Gateways /\ r.indexed = {t}
      \/ t \in Routes /\ TargetFound(obj.spec) /\ r = ResolveWithRoute(policy, t, init)
  BY ResolveFacts DEF Outcome
<1> HIDE DEF r, policy
<1>2. CASE t \in Routes /\ TargetFound(obj.spec) /\ r = ResolveWithRoute(policy, t, init)
  <2>0. Collected(init) BY DEF Scalars
  <2>1. r.indexed = {} \/ r.indexed = Named(cache[t]) BY <1>2, <2>0, ResolveWithRouteFacts DEF RouteOutcome
  <2>2. cache[t] # Absent BY <1>2 DEF TargetFound
  <2>3. QED BY <2>1, <2>2, <1>2, NamedFacts DEF Resources, r
<1>3. QED BY <1>1, <1>2 DEF r

(* Annotations embed policies in routes that exist.                        *)
LEMMA HostsFacts == Hosts \subseteq Routes /\ \A n \in Hosts : cache[n] # Absent
BY DEF Hosts, Existing

(* Only gateways are indexed for embedded policies.                        *)
LEMMA EmbeddedIndexed ==
  ASSUME Resources, Scalars
  PROVE  AddEmbedded(init).indexed \subseteq Gateways
<1> DEFINE resolved(n) == ResolveWithRoute(Embedded(cache[n]), n, init)
<1>1. AddEmbedded(init).indexed = UNION {resolved(n).indexed : n \in Hosts}
  BY DEF AddEmbedded
<1>2. ASSUME NEW n \in Hosts PROVE resolved(n).indexed \subseteq Gateways
  <2>0. Collected(init) BY DEF Scalars
  <2> DEFINE policy == Embedded(cache[n])
  <2> HIDE DEF policy
  <2>1. ResolveWithRoute(policy, n, init).indexed = {} \/ ResolveWithRoute(policy, n, init).indexed = Named(cache[n])
    BY <2>0, ResolveWithRouteFacts DEF RouteOutcome
  <2>2. Named(cache[n]) \subseteq Gateways BY HostsFacts, NamedFacts DEF Resources
  <2>3. QED BY <2>1, <2>2 DEF policy
<1> HIDE DEF resolved
<1>3. QED BY <1>1, <1>2

(* What an error leaves behind.                                            *)
LEMMA AbandonFacts ==
  ASSUME Scalars, Abandon, faults' \in Nat, UNCHANGED <<indexes, lds, writes>>
  PROVE  ItemsTyped' /\ Scalars'
<1>1. ItemsTyped' /\ Len(items') = 0 BY NoItems DEF Abandon
<1>2. init' = NewInitState /\ at' = 1 /\ phase' = "idle" /\ items' = <<>> /\ queued' = TRUE /\ gateways' = {}
  BY DEF Abandon
<1>3. Collected(init') BY <1>2 DEF NewInitState, Collected
<1>4. QED BY <1>1, <1>2, <1>3 DEF Scalars, indexes

(* Failures are counted down.                                              *)
LEMMA FaultFacts == ASSUME Scalars, Fault PROVE faults' \in Nat
BY DEF Scalars, Fault

(* Each step keeps the types of the controller's variables.                *)
LEMMA BasicsStep ==
  ASSUME Resources, ItemsTyped, Scalars, [Next]_vars
  PROVE  ItemsTyped' /\ Scalars'
<1>a. Len(items) \in Nat BY DEF ItemsTyped
<1>n. Collected(NewInitState)
  BY DEF NewInitState, Collected
<1>1. CASE Users
  <2>1. UNCHANGED Others /\ writes' \in Nat /\ writes' < MaxAge BY <1>1, UsersFacts
  <2>2. QED BY <2>1 DEF Others, work, indexes, Scalars, ItemsTyped
<1>2. CASE ObserveOutput BY <1>2 DEF ObserveOutput, work, indexes, Scalars, ItemsTyped
<1>3. CASE \E kind \in Kinds : Observe(kind)
  <2>1. PICK n, obj : /\ queued' = (queued \/ Triggers(n, cache[n], obj))
                      /\ UNCHANGED <<work, indexes, lds, phase, writes, faults>>
    BY <1>3, ObserveFacts
  <2>2. QED BY <2>1 DEF work, indexes, Scalars, ItemsTyped
<1>4. CASE Begin
  <2>1. ItemsTyped' BY <1>4, BeginFacts
  <2>2. Len(items') \in Nat BY <2>1 DEF ItemsTyped
  <2>3. /\ phase' = "resolve" /\ queued' = FALSE /\ at' = 1 /\ init' = NewInitState /\ gateways' = {}
        /\ routeIndex' \subseteq Routes /\ UNCHANGED <<gwIndex, lds, writes, faults>>
    BY <1>4 DEF Begin
  <2>4. at' \in 1..(Len(items') + 1) BY <2>2, <2>3
  <2>5. Collected(init') BY <2>3, <1>n
  <2>6. Scalars' BY <2>3, <2>4, <2>5 DEF Scalars
  <2>7. QED BY <2>1, <2>6
<1>5. CASE ResolveNext
  <2> DEFINE r == Resolve(items[at].name, items[at].obj)
  <2>1. /\ at \in DOMAIN items /\ at' = at + 1 /\ phase' = "resolve"
        /\ init' = r.init /\ gateways' = gateways \union r.indexed
        /\ items[at].name \in Policies /\ items[at].obj \in PolicyVersions(items[at].name)
        /\ ItemsTyped' /\ Len(items') = Len(items)
        /\ UNCHANGED <<indexes, lds, queued, writes, faults>>
    BY <1>5, ResolveNextFacts
  <2>2. r.indexed \subseteq Gateways BY <2>1, ResolvedIndexed
  <2>3. Collected(r.init) BY <2>1, ResolveFacts
  <2> HIDE DEF r
  <2>4. at' \in 1..(Len(items') + 1)
    <3>1. at + 1 \in 1..(Len(items) + 1) BY <1>5, AtFacts DEF ResolveNext
    <3>2. QED BY <3>1, <2>1
  <2>5. QED BY <2>1, <2>2, <2>3, <2>4 DEF Scalars, indexes
<1>6. CASE Finish
  <2>1. /\ phase' = "output" /\ gateways' = {} /\ at' = 1
        /\ routeIndex' = routeIndex \union Hosts
        /\ gwIndex' = gateways \union AddEmbedded(init).indexed \union IF lds THEN Owners ELSE {}
        /\ \E rs, ls : init' = [routes |-> rs, listeners |-> ls]
        /\ UNCHANGED <<items, lds, queued, writes, faults>>
    BY <1>6 DEF Finish
  <2>2. Owners \subseteq Gateways BY DEF Owners, Istio, Existing
  <2>3. AddEmbedded(init).indexed \subseteq Gateways BY EmbeddedIndexed
  <2>4. ItemsTyped' BY <2>1 DEF ItemsTyped
  <2>5. Collected(init') BY <2>1 DEF Collected
  <2>6. gwIndex' \subseteq Gateways BY <2>1, <2>2, <2>3 DEF Scalars
  <2>7. routeIndex' \subseteq Routes BY <2>1, HostsFacts DEF Scalars
  <2>8. QED BY <2>1, <2>4, <2>5, <2>6, <2>7, <1>a DEF Scalars
<1>7. CASE Output
  <2>1. \/ /\ phase' = "status" /\ init' = NewInitState /\ UNCHANGED <<queued, items, at, gateways, faults>>
        \/ /\ Abandon /\ (UNCHANGED faults \/ Fault)
    BY <1>7 DEF Output
  <2>2. UNCHANGED <<indexes, lds, writes>> BY <1>7 DEF Output
  <2>3. CASE phase' = "status" /\ init' = NewInitState /\ UNCHANGED <<queued, items, at, gateways, faults>>
    BY <2>2, <2>3, <1>n DEF Scalars, ItemsTyped, indexes
  <2>4. CASE Abandon /\ (UNCHANGED faults \/ Fault)
    <3>1. faults' \in Nat BY <2>4, FaultFacts DEF Scalars
    <3>2. QED BY <3>1, <2>2, <2>4, AbandonFacts
  <2>5. QED BY <2>1, <2>3, <2>4
<1>8. CASE KeepStatus \/ WriteStatus
  <2>1. /\ at' = at + 1 /\ at <= Len(items) /\ phase = "status"
        /\ UNCHANGED <<items, init, gateways, indexes, lds, queued, phase, writes, faults>>
    BY <1>8 DEF KeepStatus, WriteStatus
  <2>2. at' \in 1..(Len(items') + 1) BY <2>1, AtFacts
  <2>3. QED BY <2>1, <2>2 DEF Scalars, ItemsTyped, indexes
<1>9. CASE StatusFails
  <2>1. Abandon /\ (UNCHANGED faults \/ Fault) /\ UNCHANGED <<indexes, lds, writes>>
    BY <1>9 DEF StatusFails
  <2>2. faults' \in Nat BY <2>1, FaultFacts DEF Scalars
  <2>3. QED BY <2>1, <2>2, AbandonFacts
<1>10. CASE Rest
  <2>1. /\ phase = "status" /\ phase' = "idle" /\ items' = <<>> /\ at' = 1
        /\ UNCHANGED <<init, gateways, indexes, lds, queued, writes, faults>>
    BY <1>10 DEF Rest
  <2>2. ItemsTyped' /\ Len(items') = 0 BY <2>1, NoItems
  <2>3. QED BY <2>1, <2>2 DEF Scalars, indexes
<1>11. CASE GetFails
  <2>1. Abandon /\ Fault /\ UNCHANGED <<indexes, lds, writes>> BY <1>11 DEF GetFails
  <2>2. QED BY <2>1, FaultFacts, AbandonFacts
<1>12. CASE Restart
  <2>1. /\ phase' = "idle" /\ items' = <<>> /\ at' = 1 /\ init' = NewInitState /\ gateways' = {}
        /\ routeIndex' = {} /\ gwIndex' = {} /\ queued' = Wakes(api, lds) /\ Fault
        /\ UNCHANGED <<lds, writes>>
    BY <1>12 DEF Restart
  <2>2. ItemsTyped' /\ Len(items') = 0 BY <2>1, NoItems
  <2>3. queued' \in BOOLEAN BY <2>1 DEF Wakes
  <2>4. faults' \in Nat BY <2>1, FaultFacts
  <2>5. QED BY <2>1, <2>2, <2>3, <2>4, <1>n DEF Scalars
<1>13. CASE UNCHANGED vars BY <1>13 DEF vars, work, indexes, Scalars, ItemsTyped
<1>14. QED BY <1>1, <1>2, <1>3, <1>4, <1>5, <1>6, <1>7, <1>8, <1>9, <1>10, <1>11, <1>12, <1>13
         DEF Next, Informers, Reconcile

(* So has it at first.                                                     *)
LEMMA InitBasics ==
  ASSUME Init
  PROVE  ItemsTyped /\ Scalars
<1>1. PICK c \in Clusters : lds = c.lds /\ writes = c.writes /\ faults = c.faults BY DEF Init
<1>2. lds \in BOOLEAN /\ faults \in Nat /\ writes \in Nat /\ writes < MaxAge BY <1>1, ClustersAssumption
<1>3. /\ phase = "idle" /\ items = <<>> /\ at = 1 /\ init = NewInitState /\ gateways = {}
      /\ routeIndex = {} /\ gwIndex = {} /\ queued \in BOOLEAN
  BY DEF Init, Wakes
<1>4. items \in Seq(Listing) /\ DOMAIN items = {} /\ Len(items) = 0 BY <1>3
<1>5. ItemsTyped BY <1>4 DEF ItemsTyped
<1>6. Collected(init) BY <1>3 DEF NewInitState, Collected
<1>7. QED BY <1>2, <1>3, <1>4, <1>5, <1>6 DEF Scalars

-----------------------------------------------------------------------------
(* What depends on the copies of some resources only.                      *)
LEMMA SameTarget ==
  ASSUME NEW spec, cache'[spec.target] = cache[spec.target]
  PROVE  TargetFound(spec)' <=> TargetFound(spec)
BY DEF TargetFound

(* The gateways of a route, unchanged, can be used as before.              *)
LEMMA SameGateways ==
  ASSUME NEW R, cache'[R] = cache[R], \A g \in Named(cache[R]) : cache'[g] = cache[g]
  PROVE  HasGateway(R)' <=> HasGateway(R)
<1>1. HasGateway(R)' <=> \E g \in Named(cache'[R]) : Usable(cache[R], g)' BY DEF HasGateway
<1>2. \A g \in Named(cache[R]) : Usable(cache[R], g)' <=> Usable(cache[R], g)
  BY DEF Usable
<1>3. QED BY <1>1, <1>2 DEF HasGateway

(* What a policy depends on is decided by its target.                      *)
LEMMA SameDependsOn ==
  ASSUME NEW spec, UNCHANGED lds, Targeting(spec) /\ spec.target \notin Gateways => cache'[spec.target] = cache[spec.target]
  PROVE  DependsOn(spec)' = DependsOn(spec)
<1>1. CASE Targeting(spec) /\ spec.target \notin Gateways
  <2>1. TargetFound(spec)' <=> TargetFound(spec) BY <1>1, SameTarget
  <2>2. cache'[spec.target] = cache[spec.target] BY <1>1
  <2>3. DependsOn(spec)' = IF TargetFound(spec)' THEN Named(cache'[spec.target]) ELSE {}
    BY <1>1 DEF DependsOn
  <2>4. DependsOn(spec) = IF TargetFound(spec) THEN Named(cache[spec.target]) ELSE {}
    BY <1>1 DEF DependsOn
  <2>5. QED BY <2>1, <2>2, <2>3, <2>4
<1>2. CASE ~(Targeting(spec) /\ spec.target \notin Gateways)
  BY <1>2 DEF DependsOn
<1>3. QED BY <1>1, <1>2

(* Its verdict is decided by its target and the target's gateways.         *)
LEMMA SameVerdict ==
  ASSUME NEW spec, Targeting(spec) => cache'[spec.target] = cache[spec.target],
         Targeting(spec) /\ TargetFound(spec) /\ spec.target \in Routes =>
           \A g \in Named(cache[spec.target]) : cache'[g] = cache[g]
  PROVE  Verdict(spec)' = Verdict(spec)
<1>1. CASE Targeting(spec) /\ TargetFound(spec) /\ spec.target \in Routes
  <2>1. HasGateway(spec.target)' <=> HasGateway(spec.target) BY <1>1, SameGateways
  <2>2. TargetFound(spec)' <=> TargetFound(spec) BY <1>1, SameTarget
  <2>3. QED BY <2>1, <2>2, <1>1 DEF Verdict
<1>2. CASE Targeting(spec) /\ ~(TargetFound(spec) /\ spec.target \in Routes)
  <2>1. TargetFound(spec)' <=> TargetFound(spec) BY <1>2, SameTarget
  <2>2. QED BY <2>1, <1>2 DEF Verdict
<1>3. CASE ~Targeting(spec) BY <1>3 DEF Verdict
<1>4. QED BY <1>1, <1>2, <1>3

(* The same, when no copy changes.                                         *)
LEMMA SameCache ==
  ASSUME UNCHANGED <<cache, lds>>
  PROVE  /\ \A R : HasGateway(R)' <=> HasGateway(R)
         /\ \A spec : TargetFound(spec)' <=> TargetFound(spec)
         /\ \A spec : DependsOn(spec)' = DependsOn(spec)
         /\ \A spec : Verdict(spec)' = Verdict(spec)
         /\ \A spec : Judged(spec)' <=> Judged(spec)
<1>1. \A R : HasGateway(R)' <=> HasGateway(R) BY SameGateways
<1>2. \A spec : TargetFound(spec)' <=> TargetFound(spec) BY SameTarget
<1>3. \A spec : DependsOn(spec)' = DependsOn(spec) BY SameDependsOn
<1>4. \A spec : Verdict(spec)' = Verdict(spec) BY <1>1, <1>2 DEF Verdict
<1>5. \A spec : Judged(spec)' <=> Judged(spec) BY DEF Judged
<1>6. QED BY <1>1, <1>2, <1>3, <1>4, <1>5

(* A change that does not wake the controller up.                          *)
Ignored(n, obj) ==
  /\ ~queued /\ ~Triggers(n, cache[n], obj)
  /\ holes' = holes \union IF n \in gateways THEN {"gateway"} ELSE {}
  /\ UNCHANGED <<work, indexes, lds, queued, phase>>

(* An event that asks for nothing: a policy of the same generation, or a   *)
(* resource that is not watched.                                           *)
LEMMA IgnoredFacts ==
  ASSUME Resources, Scalars, RoutesWatched,
         NEW kind \in Kinds, NEW n, NEW obj, Observed(kind, n, obj), Ignored(n, obj)
  PROVE  /\ \A p \in Policies : /\ cache'[p] = Absent <=> cache[p] = Absent
                                /\ cache[p] # Absent => SameSpec(cache[p], cache'[p]) /\ cache'[p].spec = cache[p].spec
         /\ \A R \in routeIndex : cache'[R] = cache[R]
         /\ \A g \in gwIndex : cache'[g] = cache[g]
         /\ lds => \A g \in Gateways : cache'[g] = cache[g]
         /\ "gateway" \notin holes' => \A g \in gateways : cache'[g] = cache[g]
<1>1. /\ n \in Names /\ obj \in Versions(n)
      /\ n \in Policies => Follows(cache[n], obj)
      /\ cache'[n] = obj /\ \A m \in Names : m # n => cache'[m] = cache[m]
  BY ObservedFacts
<1>2. routeIndex \subseteq Routes /\ gwIndex \subseteq Gateways /\ gateways \subseteq Gateways
  BY DEF Scalars
<1>3. n \in Policies => cache[n] # Absent /\ obj # Absent /\ cache[n].gen = obj.gen
  BY DEF Ignored, Triggers, GenerationChanged
<1>4. n \in Policies => SameSpec(cache[n], obj)
  BY <1>1, <1>3 DEF Follows, SameSpec
<1>5. n \notin Policies => n \notin routeIndex \union gwIndex /\ ~(lds /\ n \in Gateways)
  BY DEF Ignored, Triggers, FindAffectedObjects
<1>6. "gateway" \notin holes' => n \notin gateways
  BY DEF Ignored
<1>7. ASSUME NEW p \in Policies
      PROVE  /\ cache'[p] = Absent <=> cache[p] = Absent
             /\ cache[p] # Absent => SameSpec(cache[p], cache'[p]) /\ cache'[p].spec = cache[p].spec
  <2>1. CASE p = n BY <2>1, <1>1, <1>3, <1>4 DEF SameSpec
  <2>2. CASE p # n
    <3>1. cache'[p] = cache[p] BY <2>2, <1>1 DEF Names
    <3>2. QED BY <3>1 DEF SameSpec
  <2>3. QED BY <2>1, <2>2
<1>8. n \notin Policies => \A m \in Names : m \in routeIndex \union gwIndex \/ (lds /\ m \in Gateways) => m # n
  BY <1>5
<1>9. n \in Policies => n \notin Routes /\ n \notin Gateways
  BY NamesAssumption
<1>10. (\A R \in routeIndex : cache'[R] = cache[R]) /\ (\A g \in gwIndex : cache'[g] = cache[g])
       /\ (lds => \A g \in Gateways : cache'[g] = cache[g])
  BY <1>1, <1>2, <1>5, <1>9 DEF Names
<1>11. "gateway" \notin holes' => \A g \in gateways : cache'[g] = cache[g]
  BY <1>1, <1>2, <1>6 DEF Names
<1>12. QED BY <1>7, <1>10, <1>11

Knowledge == Listed /\ RoutesWatched /\ GatewaysWatched /\ RoutesResolved /\ StatusesComputed

(* Once a reconciliation is asked for, nothing need be known.              *)
LEMMA QueuedKnowledge == ASSUME queued' PROVE Knowledge'
BY DEF Knowledge, Listed, RoutesWatched, GatewaysWatched, RoutesResolved, StatusesComputed

(* Steps that leave the copies and the controller alone.                   *)
LEMMA SameKnowledge ==
  ASSUME Knowledge, UNCHANGED <<cache, work, indexes, lds, queued, phase, holes>>
  PROVE  Knowledge'
<1>1. UNCHANGED <<cache, items, at, init, gateways, routeIndex, gwIndex, lds, queued, phase, holes>>
  BY DEF work, indexes
<1>2. /\ \A R : HasGateway(R)' <=> HasGateway(R)
      /\ \A spec : DependsOn(spec)' = DependsOn(spec)
      /\ \A spec : Verdict(spec)' = Verdict(spec)
      /\ \A spec : Judged(spec)' <=> Judged(spec)
  BY <1>1, SameCache
<1>3. Listed' BY <1>1 DEF Knowledge, Listed
<1>4. RoutesWatched' BY <1>1 DEF Knowledge, RoutesWatched
<1>5. GatewaysWatched'
  <2>1. \A p : Resolved(p)' <=> Resolved(p) BY <1>1 DEF Resolved
  <2>2. Watched' = Watched BY <1>1 DEF Watched
  <2>3. QED BY <2>1, <2>2, <1>1, <1>2 DEF Knowledge, GatewaysWatched
<1>6. RoutesResolved' BY <1>1, <1>2 DEF Knowledge, RoutesResolved
<1>7. StatusesComputed' BY <1>1, <1>2 DEF Knowledge, StatusesComputed
<1>8. QED BY <1>3, <1>4, <1>5, <1>6, <1>7 DEF Knowledge

(* The items are the policies of the copy.                                 *)
LEMMA ListedFacts ==
  ASSUME ItemsTyped, Listed, phase # "idle", ~queued, NEW i \in DOMAIN items
  PROVE  /\ items[i].name \in Policies /\ cache[items[i].name] # Absent
         /\ SameSpec(items[i].obj, cache[items[i].name])
         /\ items[i].obj.spec = cache[items[i].name].spec /\ items[i].obj.gen = cache[items[i].name].gen
BY ItemFacts DEF Listed, SameSpec

(* The route of a policy is not a gateway.                                 *)
LEMMA TargetRoute ==
  ASSUME Resources, NEW p \in Policies, cache[p] # Absent
  PROVE  /\ cache[p] \in PolicyVersions(p) /\ cache[p].spec \in Given(p)
         /\ cache[p].spec.target \in Routes \union Gateways \union {Absent}
         /\ Targeting(cache[p].spec) => cache[p].spec.target \in Routes \union Gateways
<1>1. p \in Names BY DEF Names
<1>2. cache[p] \in Versions(p) BY <1>1 DEF Resources, Typed
<1>3. cache[p] \in PolicyVersions(p) BY <1>1, <1>2, VersionsFacts
<1>4. cache[p].spec \in Given(p) BY <1>3, PolicyVersionFacts
<1>5. QED BY <1>3, <1>4, PolicySpecFacts

(* What a policy whose gateways are watched depends on is unaffected.      *)
LEMMA IgnoredPolicy ==
  ASSUME Resources, Scalars, RoutesWatched, GatewaysWatched,
         NEW kind \in Kinds, NEW n, NEW obj, Observed(kind, n, obj), Ignored(n, obj),
         NEW p \in Policies, cache[p] # Absent, NEW s, s = cache[p].spec
  PROVE  /\ DependsOn(s)' = DependsOn(s)
         /\ Judged(s)' <=> Judged(s)
         /\ Resolved(p) /\ Judged(s) /\ "gateway" \notin holes' => Verdict(s)' = Verdict(s)
<1>1. /\ \A R \in routeIndex : cache'[R] = cache[R]
      /\ \A g \in gwIndex : cache'[g] = cache[g]
      /\ lds => \A g \in Gateways : cache'[g] = cache[g]
      /\ "gateway" \notin holes' => \A g \in gateways : cache'[g] = cache[g]
  BY IgnoredFacts
<1>2. ~queued /\ UNCHANGED lds BY DEF Ignored
<1>3. s.target \in Routes => cache'[s.target] = cache[s.target]
  BY <1>1, <1>2 DEF RoutesWatched
<1>4. Targeting(s) => s.target \in Routes \union Gateways BY TargetRoute
<1>d. Resolved(p) => DependsOn(s) \subseteq Watched BY <1>2 DEF GatewaysWatched
<1>5. DependsOn(s)' = DependsOn(s) BY <1>2, <1>3, <1>4, SameDependsOn
<1>6. Judged(s)' <=> Judged(s) BY <1>2 DEF Judged
<1>7. ASSUME Resolved(p), Judged(s), "gateway" \notin holes' PROVE Verdict(s)' = Verdict(s)
  <2>1. Targeting(s) => cache'[s.target] = cache[s.target] BY <1>1, <1>3, <1>4, <1>7, <1>2 DEF Judged
  <2>2. ASSUME Targeting(s), TargetFound(s), s.target \in Routes PROVE \A g \in Named(cache[s.target]) : cache'[g] = cache[g]
    <3>1. s.target \notin Gateways BY <2>2, NamesAssumption
    <3>2. DependsOn(s) = Named(cache[s.target]) BY <3>1, <2>2, <1>7 DEF DependsOn, Judged
    <3>3. Named(cache[s.target]) \subseteq Watched BY <3>2, <1>7, <1>d
    <3>4. \A g \in Watched : cache'[g] = cache[g] BY <1>1, <1>7 DEF Watched
    <3>5. QED BY <3>3, <3>4
  <2>3. QED BY <2>1, <2>2, SameVerdict
<1>8. QED BY <1>5, <1>6, <1>7

(* What is known outlives an event that asks for nothing.                  *)
LEMMA IgnoredKnowledge ==
  ASSUME Resources, ItemsTyped, Scalars, Knowledge,
         NEW kind \in Kinds, NEW n, NEW obj, Observed(kind, n, obj), Ignored(n, obj)
  PROVE  Knowledge'
<1>1. /\ \A p \in Policies : /\ cache'[p] = Absent <=> cache[p] = Absent
                             /\ cache[p] # Absent => SameSpec(cache[p], cache'[p]) /\ cache'[p].spec = cache[p].spec
      /\ \A R \in routeIndex : cache'[R] = cache[R]
      /\ \A g \in gwIndex : cache'[g] = cache[g]
      /\ lds => \A g \in Gateways : cache'[g] = cache[g]
      /\ "gateway" \notin holes' => \A g \in gateways : cache'[g] = cache[g]
  BY IgnoredFacts DEF Knowledge
<1>2. /\ ~queued /\ UNCHANGED <<items, at, init, gateways, routeIndex, gwIndex, lds, queued, phase>>
      /\ holes \subseteq holes'
  BY DEF Ignored, work, indexes
<1>3. ASSUME NEW p \in Policies, cache[p] # Absent, NEW s, s = cache[p].spec
      PROVE  /\ DependsOn(s)' = DependsOn(s) /\ (Judged(s)' <=> Judged(s))
             /\ Resolved(p) /\ Judged(s) /\ "gateway" \notin holes' => Verdict(s)' = Verdict(s)
  BY <1>3, IgnoredPolicy DEF Knowledge
<1>4. Listed'
  <2>1. SUFFICES ASSUME phase # "idle"
        PROVE  /\ \A p \in Policies : cache'[p] # Absent => \E i \in DOMAIN items : items[i].name = p
               /\ \A i \in DOMAIN items : /\ cache'[items[i].name] # Absent
                                          /\ SameSpec(items[i].obj, cache'[items[i].name])
    BY <1>2 DEF Listed
  <2>2. \A p \in Policies : cache'[p] # Absent => \E i \in DOMAIN items : items[i].name = p
    BY <1>1, <1>2, <2>1 DEF Knowledge, Listed
  <2>3. ASSUME NEW i \in DOMAIN items
        PROVE  cache'[items[i].name] # Absent /\ SameSpec(items[i].obj, cache'[items[i].name])
    <3>1. /\ items[i].name \in Policies /\ cache[items[i].name] # Absent
          /\ SameSpec(items[i].obj, cache[items[i].name])
      BY <1>2, <2>1, ListedFacts DEF Knowledge
    <3>2. QED BY <3>1, <1>1, SameSpecFacts
  <2>4. QED BY <2>2, <2>3
<1>5. RoutesWatched' BY <1>1, <1>2 DEF Knowledge, RoutesWatched
<1>6. GatewaysWatched'
  <2>1. \A p \in Policies : Resolved(p)' <=> Resolved(p) BY <1>1, <1>2 DEF Resolved
  <2>2. Watched' = Watched BY <1>2 DEF Watched
  <2>3. ASSUME NEW p \in Policies, Resolved(p)' PROVE DependsOn(cache[p].spec)' \subseteq Watched'
    <3> DEFINE s == cache[p].spec
    <3>1. Resolved(p) /\ cache[p] # Absent BY <2>1, <2>3 DEF Resolved
    <3>2. DependsOn(s) \subseteq Watched BY <3>1, <1>2 DEF Knowledge, GatewaysWatched
    <3>3. cache'[p].spec = s BY <3>1, <1>1
    <3>4. PICK t : t = s OBVIOUS
    <3>5. DependsOn(t)' = DependsOn(t) BY <3>1, <3>4, <1>3
    <3>6. QED BY <3>2, <3>3, <3>4, <3>5, <2>2
  <2>4. QED BY <2>3 DEF GatewaysWatched
<1>7. RoutesResolved'
  <2>1. SUFFICES ASSUME phase = "resolve", NEW R \in DOMAIN init.routes
        PROVE  /\ R \in routeIndex' /\ cache'[R] # Absent /\ Named(cache'[R]) \subseteq gateways'
               /\ "gateway" \notin holes' => HasGateway(R)'
    BY <1>2 DEF RoutesResolved
  <2>2. /\ R \in routeIndex /\ cache[R] # Absent /\ Named(cache[R]) \subseteq gateways
        /\ "gateway" \notin holes => HasGateway(R)
    BY <2>1, <1>2 DEF Knowledge, RoutesResolved
  <2>3. cache'[R] = cache[R] BY <2>2, <1>1
  <2>4. ASSUME "gateway" \notin holes' PROVE HasGateway(R)'
    <3>1. "gateway" \notin holes /\ \A g \in Named(cache[R]) : cache'[g] = cache[g]
      BY <2>2, <2>4, <1>1, <1>2
    <3>2. QED BY <3>1, <2>2, <2>3, SameGateways
  <2>5. QED BY <2>2, <2>3, <2>4, <1>2
<1>8. StatusesComputed'
  <2>1. SUFFICES ASSUME "gateway" \notin holes', NEW i \in DOMAIN items,
                        Judged(items[i].obj.spec)', phase = "resolve" => i < at
        PROVE  items[i].status = [reason |-> Verdict(items[i].obj.spec)', gen |-> items[i].obj.gen]
    <3>1. items' = items /\ phase' = phase /\ at' = at BY <1>2
    <3>2. QED BY <3>1 DEF StatusesComputed
  <2> DEFINE p == items[i].name
  <2>2. phase # "idle" BY <2>1 DEF Scalars
  <2>3. p \in Policies /\ cache[p] # Absent /\ items[i].obj.spec = cache[p].spec
    BY <2>2, <1>2, ListedFacts DEF Knowledge
  <2>4. Resolved(p) BY <2>1, <2>3 DEF Resolved
  <2>5. PICK s : s = cache[p].spec OBVIOUS
  <2>6. /\ Judged(s)' <=> Judged(s)
        /\ Judged(s) => Verdict(s)' = Verdict(s)
    BY <2>1, <2>3, <2>4, <2>5, <1>3
  <2>7. s = items[i].obj.spec /\ items'[i].obj.spec = s BY <2>3, <2>5, <1>2
  <2>8. Judged(s)' BY <2>1, <2>7
  <2>9. Judged(items[i].obj.spec) => items[i].status = [reason |-> Verdict(items[i].obj.spec), gen |-> items[i].obj.gen]
    BY <2>1, <1>2 DEF Knowledge, StatusesComputed
  <2>10. Verdict(items[i].obj.spec)' = Verdict(s)' BY <2>7
  <2>11. QED BY <2>6, <2>7, <2>8, <2>9, <2>10
<1>9. QED BY <1>4, <1>5, <1>6, <1>7, <1>8 DEF Knowledge

-----------------------------------------------------------------------------
(* What the controller knows, step by step.                                *)
LEMMA BeginKnowledge ==
  ASSUME Resources, Scalars, Begin
  PROVE  Knowledge'
<1>1. /\ \A i \in DOMAIN items' :
           /\ items'[i].name \in Policies /\ cache[items'[i].name] # Absent
           /\ items'[i].obj = cache[items'[i].name]
      /\ \A p \in Policies : cache[p] # Absent => \E i \in DOMAIN items' : items'[i].name = p
      /\ ItemsTyped'
  BY BeginFacts
<1>2. /\ phase' = "resolve" /\ at' = 1 /\ init' = NewInitState
      /\ routeIndex' = {cache[p].spec.target : p \in Existing(cache, Policies)} \intersect Routes
      /\ UNCHANGED cache
  BY DEF Begin, resources
<1>3. \A i \in DOMAIN items' : ~(i < 1)
  <2>1. DOMAIN items' = 1..Len(items') /\ Len(items') \in Nat BY <1>1 DEF ItemsTyped
  <2>2. QED BY <2>1
<1>4. Listed' BY <1>1, <1>2, SameSpecFacts DEF Listed
<1>5. RoutesWatched' BY <1>2 DEF RoutesWatched, Existing
<1>6. GatewaysWatched' BY <1>2, <1>3 DEF GatewaysWatched, Resolved
<1>7. RoutesResolved'
  <2>1. DOMAIN init'.routes = {} BY <1>2 DEF NewInitState, Nothing
  <2>2. QED BY <2>1 DEF RoutesResolved
<1>8. StatusesComputed' BY <1>2, <1>3 DEF StatusesComputed
<1>9. QED BY <1>4, <1>5, <1>6, <1>7, <1>8 DEF Knowledge

(* The same, said of one policy that is resolved now.                      *)
Resolving(p, obj, r) ==
  /\ DependsOn(obj.spec) \subseteq gateways \union r.indexed
  /\ Judged(obj.spec) /\ "gateway" \notin holes =>
       \/ ~Targeting(obj.spec) /\ (r.reason = "Invalid" \/ (r.reason = "same" /\ obj.status = Status(obj, "Invalid")))
       \/ Targeting(obj.spec) /\ r.reason = Verdict(obj.spec) /\ r.reason # "same"
  /\ \A R \in DOMAIN r.init.routes :
       \/ R \in DOMAIN init.routes
       \/ /\ R = obj.spec.target /\ R \in Routes /\ cache[R] # Absent /\ HasGateway(R)
          /\ Named(cache[R]) \subseteq r.indexed

(* The reasons that resolving a policy may give.                           *)
LEMMA ResolveReasons ==
  ASSUME NEW p \in Policies, NEW obj \in PolicyVersions(p), ~Targeting(obj.spec)
  PROVE  /\ Resolve(p, obj).reason \in {"Invalid", "same"}
         /\ Resolve(p, obj).reason = "same" => obj.status = Status(obj, "Invalid")
<1> DEFINE r == Resolve(p, obj)
           t == obj.spec.target
           hopeless == t = Absent \/ KnownInvalid(obj) \/ (IsSpecChanged(obj) /\ ~obj.spec.valid)
<1>1. /\ obj.spec \in Given(p) /\ obj.status.gen \in Nat /\ obj.gen \in Nat /\ JudgedRight(obj)
      /\ obj.status = [reason |-> obj.status.reason, gen |-> obj.status.gen]
  BY PolicyVersionFacts
<1>2. KnownInvalid(obj) <=> obj.status.gen = obj.gen /\ obj.status.reason = "Invalid"
  BY <1>1 DEF KnownInvalid, Status
<1>3. hopeless
  BY <1>1, <1>2 DEF JudgedRight, IsSpecChanged, Targeting
<1>4. r = Resolution(IF t = Absent \/ IsSpecChanged(obj) THEN "Invalid" ELSE "same", init, {})
  BY <1>3 DEF Resolve
<1> HIDE DEF r, hopeless
<1>5. r.reason = IF t = Absent \/ IsSpecChanged(obj) THEN "Invalid" ELSE "same"
  BY <1>4 DEF Resolution
<1>6. r.reason = "same" => obj.status = Status(obj, "Invalid")
  BY <1>5, <1>1 DEF IsSpecChanged, JudgedRight, Status
<1>7. QED BY <1>5, <1>6 DEF r

(* Resolving a policy gives the verdict on it, and indexes what it depends *)
(* on.                                                                     *)
LEMMA ResolvingFacts ==
  ASSUME Resources, ItemsTyped, Scalars, Knowledge, ResolveNext, ~queued
  PROVE  Resolving(items[at].name, items[at].obj, Resolve(items[at].name, items[at].obj))
<1> DEFINE p == items[at].name
           obj == items[at].obj
           r == Resolve(p, obj)
           t == obj.spec.target
           policy == Translated(p, obj)
<1>1. p \in Policies /\ obj \in PolicyVersions(p) /\ at \in DOMAIN items /\ phase = "resolve"
  BY ResolveNextFacts
<1>2. cache[p] # Absent /\ obj.spec = cache[p].spec
  BY <1>1, ListedFacts DEF Knowledge
<1>3. t \in Routes => t \in routeIndex
  BY <1>1, <1>2 DEF Knowledge, RoutesWatched
<1>4. \/ /\ ~Targeting(obj.spec) /\ r.reason \in {"Invalid", "same"} /\ r.indexed = {} /\ r.init = init
      \/ /\ Targeting(obj.spec) /\ t \in Gateways /\ ~lds
         /\ Outcome(r, "same", {}) /\ r.init = init
      \/ /\ Targeting(obj.spec) /\ (t \in Gateways => lds) /\ ~TargetFound(obj.spec)
         /\ Outcome(r, "TargetNotFound", {t} \intersect Gateways) /\ r.init = init
      \/ /\ Targeting(obj.spec) /\ t \in Gateways /\ lds /\ TargetFound(obj.spec)
         /\ Outcome(r, "Accepted", {t}) /\ r.init.routes = init.routes
      \/ /\ Targeting(obj.spec) /\ t \in Routes /\ TargetFound(obj.spec)
         /\ r = ResolveWithRoute(policy, t, init)
  BY <1>1, ResolveFacts
<1>5. ~Targeting(obj.spec) => r.reason = "Invalid" \/ (r.reason = "same" /\ obj.status = Status(obj, "Invalid"))
  BY <1>1, ResolveReasons
<1>6. \A R \in DOMAIN init.routes : /\ R \in routeIndex /\ cache[R] # Absent /\ Named(cache[R]) \subseteq gateways
                                    /\ "gateway" \notin holes => HasGateway(R)
  BY <1>1 DEF Knowledge, RoutesResolved
<1>7. t \in Routes => t \notin Gateways BY NamesAssumption
<1>8. Collected(init) BY DEF Scalars
<1> HIDE DEF r, policy, p, obj, t
<1>g. SUFFICES Resolving(p, obj, r) BY DEF p, obj, r
<1> DEFINE s == obj.spec
<1>t. t = s.target BY DEF t
<1> HIDE DEF s
<1>9. CASE ~Targeting(s) /\ r.indexed = {} /\ r.init = init
  BY <1>9, <1>5 DEF Resolving, DependsOn, s
<1>10. CASE Targeting(s) /\ t \in Gateways /\ ~lds /\ Outcome(r, "same", {}) /\ r.init = init
  BY <1>10, <1>t DEF Resolving, DependsOn, Judged, Outcome, s
<1>11. CASE Targeting(s) /\ (t \in Gateways => lds) /\ ~TargetFound(s)
            /\ Outcome(r, "TargetNotFound", {t} \intersect Gateways) /\ r.init = init
  BY <1>11, <1>t DEF Resolving, DependsOn, Judged, Outcome, Verdict, s
<1>12. CASE Targeting(s) /\ t \in Gateways /\ lds /\ TargetFound(s)
            /\ Outcome(r, "Accepted", {t}) /\ r.init.routes = init.routes
  BY <1>12, <1>t, <1>7 DEF Resolving, DependsOn, Judged, Outcome, Verdict, s
<1>13. CASE Targeting(s) /\ t \in Routes /\ TargetFound(s) /\ r = ResolveWithRoute(policy, t, init)
  <2>1. RouteOutcome(r, t, init) BY <1>13, <1>8, ResolveWithRouteFacts
  <2>2. DependsOn(s) = Named(cache[t]) BY <1>13, <1>7, <1>t DEF DependsOn
  <2>3. Verdict(s) = IF HasGateway(t) THEN "Accepted" ELSE "TargetNotFound" BY <1>13, <1>t DEF Verdict
  <2>4. cache[t] # Absent BY <1>13, <1>t DEF TargetFound
  <2>5. CASE t \in DOMAIN init.routes
    <3>1. r.reason = "Accepted" /\ DOMAIN r.init.routes = DOMAIN init.routes
      BY <2>1, <2>5 DEF RouteOutcome
    <3>2. Named(cache[t]) \subseteq gateways /\ ("gateway" \notin holes => HasGateway(t)) BY <2>5, <1>6
    <3>3. QED BY <3>1, <3>2, <2>2, <2>3, <1>13 DEF Resolving, s
  <2>6. CASE t \notin DOMAIN init.routes
    <3>1. /\ r.indexed = Named(cache[t]) /\ r.reason \in {"Accepted", "TargetNotFound"}
          /\ r.reason = "Accepted" <=> HasGateway(t)
          /\ r.reason = "Accepted" => DOMAIN r.init.routes = DOMAIN init.routes \union {t}
          /\ r.reason # "Accepted" => r.init = init
      BY <2>1, <2>6 DEF RouteOutcome
    <3>2. QED BY <3>1, <2>2, <2>3, <2>4, <1>13 DEF Resolving, s, t
  <2>7. QED BY <2>5, <2>6
<1>14. QED BY <1>4, <1>9, <1>10, <1>11, <1>12, <1>13 DEF s

(* What is known after one more policy is resolved.                        *)
LEMMA ResolveNextKnowledge ==
  ASSUME Resources, ItemsTyped, Scalars, Untouched, Knowledge, ResolveNext
  PROVE  Knowledge'
<1> DEFINE p == items[at].name
           obj == items[at].obj
           r == Resolve(p, obj)
<1>1. /\ at \in DOMAIN items /\ at' = at + 1 /\ phase = "resolve" /\ phase' = "resolve"
      /\ init' = r.init /\ gateways' = gateways \union r.indexed
      /\ p \in Policies /\ obj \in PolicyVersions(p)
      /\ DOMAIN items' = DOMAIN items
      /\ \A i \in DOMAIN items : i # at => items'[i] = items[i]
      /\ items'[at].name = p /\ items'[at].obj = obj
      /\ items'[at].status = IF r.reason = "same" THEN items[at].status ELSE Status(obj, r.reason)
      /\ UNCHANGED <<cache, routeIndex, gwIndex, lds, queued, phase, holes>>
  BY ResolveNextFacts DEF resources, indexes
<1>2. CASE queued BY <1>1, <1>2, QueuedKnowledge
<1>3. CASE ~queued
  <2>1. Resolving(p, obj, r) BY <1>3, ResolvingFacts
  <2>2. /\ \A R : HasGateway(R)' <=> HasGateway(R)
        /\ \A spec : DependsOn(spec)' = DependsOn(spec)
        /\ \A spec : Verdict(spec)' = Verdict(spec)
        /\ \A spec : Judged(spec)' <=> Judged(spec)
    BY <1>1, SameCache
  <2>3. \A i \in DOMAIN items : items'[i].name = items[i].name /\ items'[i].obj = items[i].obj
    BY <1>1
  <2>4. DOMAIN items = 1..Len(items) /\ Len(items) \in Nat BY DEF ItemsTyped
  <2>5. \A i \in DOMAIN items : i < at' => i < at \/ i = at BY <2>4, <1>1
  <2>6. obj.spec = cache[p].spec /\ cache[p] # Absent BY <1>1, <1>3, ListedFacts DEF Knowledge
  <2>7. \A i \in DOMAIN items : items[i].name = p => i = at BY <1>1 DEF ItemsTyped
  <2>8. (obj.spec.target \in Routes => obj.spec.target \in routeIndex)
    BY <2>6, <1>1, <1>3 DEF Knowledge, RoutesWatched
  <2>o. at < at' BY <1>1, <2>4
  <2> HIDE DEF p, obj, r
  <2>9. Listed' BY <1>1, <2>3 DEF Knowledge, Listed
  <2>10. RoutesWatched' BY <1>1 DEF Knowledge, RoutesWatched
  <2>11. GatewaysWatched'
    <3>1. SUFFICES ASSUME NEW q \in Policies, Resolved(q)' PROVE DependsOn(cache[q].spec)' \subseteq Watched'
      BY DEF GatewaysWatched
    <3>2. PICK i \in DOMAIN items : i < at' /\ items[i].name = q /\ cache[q] # Absent
      BY <3>1, <1>1, <2>3 DEF Resolved
    <3>3. DependsOn(cache[q].spec)' = DependsOn(cache[q].spec) BY <2>2, <1>1
    <3>4. Watched' = gateways \union r.indexed /\ Watched = gateways BY <1>1 DEF Watched
    <3>5. CASE i < at
      <4>1. Resolved(q) BY <3>2, <3>5 DEF Resolved
      <4>2. DependsOn(cache[q].spec) \subseteq gateways BY <4>1, <3>4, <1>3 DEF Knowledge, GatewaysWatched
      <4>3. QED BY <4>2, <3>3, <3>4
    <3>6. CASE i = at
      <4>1. q = p BY <3>2, <3>6 DEF p
      <4>2. DependsOn(obj.spec) \subseteq gateways \union r.indexed BY <2>1 DEF Resolving
      <4>3. QED BY <4>1, <4>2, <2>6, <3>3, <3>4
    <3>7. QED BY <3>2, <3>5, <3>6, <2>5
  <2>12. RoutesResolved'
    <3>1. SUFFICES ASSUME NEW R \in DOMAIN r.init.routes
          PROVE  /\ R \in routeIndex /\ cache[R] # Absent /\ Named(cache[R]) \subseteq gateways'
                 /\ "gateway" \notin holes => HasGateway(R)
      BY <1>1, <2>2 DEF RoutesResolved
    <3>2. CASE R \in DOMAIN init.routes
      BY <3>2, <1>1, <1>3 DEF Knowledge, RoutesResolved
    <3>3. CASE R \notin DOMAIN init.routes
      <4>1. /\ R = obj.spec.target /\ R \in Routes /\ cache[R] # Absent /\ HasGateway(R)
            /\ Named(cache[R]) \subseteq r.indexed
        BY <3>3, <2>1 DEF Resolving
      <4>2. QED BY <4>1, <2>8, <1>1
    <3>4. QED BY <3>2, <3>3
  <2>13. StatusesComputed'
    <3>1. SUFFICES ASSUME "gateway" \notin holes, NEW i \in DOMAIN items, Judged(items[i].obj.spec), i < at'
          PROVE  items'[i].status = [reason |-> Verdict(items[i].obj.spec), gen |-> items[i].obj.gen]
      <4>1. \A i \in DOMAIN items : Judged(items[i].obj.spec)' <=> Judged(items'[i].obj.spec)
        BY <2>2
      <4>2. \A i \in DOMAIN items : Verdict(items[i].obj.spec)' = Verdict(items'[i].obj.spec)
        BY <2>2
      <4>3. QED BY <1>1, <2>3, <3>1, <4>1, <4>2 DEF StatusesComputed
    <3>2. CASE i < at
      <4>1. i # at BY <3>2, <2>4, <1>1
      <4>2. QED BY <4>1, <3>1, <3>2, <1>1, <1>3 DEF Knowledge, StatusesComputed
    <3>3. CASE i = at
      <4>0. items[i].obj = obj BY <3>3 DEF obj
      <4>1. \/ ~Targeting(obj.spec) /\ (r.reason = "Invalid" \/ (r.reason = "same" /\ obj.status = Status(obj, "Invalid")))
            \/ Targeting(obj.spec) /\ r.reason = Verdict(obj.spec) /\ r.reason # "same"
        BY <4>0, <3>1, <2>1 DEF Resolving
      <4>2. CASE Targeting(obj.spec) BY <4>0, <4>1, <4>2, <1>1, <3>3 DEF Status
      <4>3. CASE ~Targeting(obj.spec)
        <5>1. items[at].status = obj.status
          <6>1. at >= at BY <2>4, <1>1
          <6>2. QED BY <6>1, <1>1 DEF Untouched, obj
        <5>2. items'[at].status = Status(obj, "Invalid") BY <4>1, <4>3, <5>1, <1>1
        <5>3. Verdict(obj.spec) = "Invalid" BY <4>3 DEF Verdict
        <5>4. QED BY <4>0, <5>2, <5>3, <3>3 DEF Status
      <4>4. QED BY <4>2, <4>3
    <3>4. QED BY <3>1, <3>2, <3>3, <2>5
  <2>14. QED BY <2>9, <2>10, <2>11, <2>12, <2>13 DEF Knowledge
<1>4. QED BY <1>2, <1>3

(* Items that are not resolved yet keep their statuses.                    *)
LEMMA UntouchedStep ==
  ASSUME Resources, ItemsTyped, Scalars, Untouched, [Next]_vars
  PROVE  Untouched'
<1>1. CASE Begin
  <2>1. PICK order \in SetToSeqs(Existing(cache, Policies)) : items' = [i \in DOMAIN order |-> Item(order[i])]
    BY <1>1 DEF Begin
  <2>2. \A i \in DOMAIN items' : items'[i].status = items'[i].obj.status
    BY <2>1 DEF Item
  <2>3. QED BY <2>2 DEF Untouched
<1>2. CASE ResolveNext
  <2>1. /\ at \in DOMAIN items /\ at' = at + 1 /\ phase = "resolve"
        /\ DOMAIN items' = DOMAIN items
        /\ \A i \in DOMAIN items : i # at => items'[i] = items[i]
    BY <1>2, ResolveNextFacts
  <2>2. DOMAIN items = 1..Len(items) /\ Len(items) \in Nat BY DEF ItemsTyped
  <2>3. \A i \in DOMAIN items : i >= at' => i # at /\ i >= at BY <2>1, <2>2
  <2>4. QED BY <2>1, <2>3 DEF Untouched
<1>3. CASE Users
  <2>1. UNCHANGED <<items, at, phase>> BY <1>3, UsersFacts DEF Others, work
  <2>2. QED BY <2>1 DEF Untouched
<1>4. CASE ObserveOutput \/ \E kind \in Kinds : Observe(kind)
  <2>1. UNCHANGED <<items, at, phase>> BY <1>4 DEF ObserveOutput, Observe, work
  <2>2. QED BY <2>1 DEF Untouched
<1>5. CASE Finish \/ Output \/ KeepStatus \/ WriteStatus \/ StatusFails \/ Rest \/ GetFails \/ Restart
  <2>1. phase' # "resolve"
    BY <1>5 DEF Finish, Output, KeepStatus, WriteStatus, StatusFails, Rest, GetFails, Restart, Abandon
  <2>2. QED BY <2>1 DEF Untouched
<1>6. CASE UNCHANGED vars
  <2>1. UNCHANGED <<items, at, phase>> BY <1>6 DEF vars, work
  <2>2. QED BY <2>1 DEF Untouched
<1>7. QED BY <1>1, <1>2, <1>3, <1>4, <1>5, <1>6 DEF Next, Informers, Reconcile

(* What is known once all policies are resolved.                           *)
LEMMA FinishKnowledge ==
  ASSUME Resources, ItemsTyped, Scalars, Knowledge, Finish
  PROVE  Knowledge'
<1>1. /\ phase = "resolve" /\ at > Len(items) /\ phase' = "output"
      /\ routeIndex \subseteq routeIndex' /\ gateways \subseteq gwIndex'
      /\ UNCHANGED <<cache, items, lds, queued, holes>>
  BY DEF Finish, resources
<1>2. /\ \A spec : DependsOn(spec)' = DependsOn(spec)
      /\ \A spec : Verdict(spec)' = Verdict(spec)
      /\ \A spec : Judged(spec)' <=> Judged(spec)
  BY <1>1, SameCache
<1>3. \A i \in DOMAIN items : i < at
  <2>1. DOMAIN items = 1..Len(items) /\ Len(items) \in Nat BY DEF ItemsTyped
  <2>2. at \in Nat BY <2>1 DEF Scalars
  <2>3. QED BY <2>1, <2>2, <1>1
<1>4. Listed' BY <1>1 DEF Knowledge, Listed
<1>5. RoutesWatched' BY <1>1 DEF Knowledge, RoutesWatched
<1>6. GatewaysWatched'
  <2>1. SUFFICES ASSUME ~queued, NEW p \in Policies, cache[p] # Absent PROVE DependsOn(cache[p].spec)' \subseteq Watched'
    BY <1>1 DEF GatewaysWatched, Resolved
  <2>2. PICK i \in DOMAIN items : items[i].name = p BY <1>1, <2>1 DEF Knowledge, Listed
  <2>3. Resolved(p) BY <2>1, <2>2, <1>3 DEF Resolved
  <2>4. DependsOn(cache[p].spec) \subseteq gateways BY <2>1, <2>3, <1>1 DEF Knowledge, GatewaysWatched, Watched
  <2>5. Watched' = gwIndex' BY <1>1 DEF Watched
  <2>6. DependsOn(cache[p].spec)' = DependsOn(cache[p].spec) BY <1>1, <1>2
  <2>7. QED BY <2>4, <2>5, <2>6, <1>1
<1>7. RoutesResolved' BY <1>1 DEF RoutesResolved
<1>8. StatusesComputed' BY <1>1, <1>2, <1>3 DEF Knowledge, StatusesComputed
<1>9. QED BY <1>4, <1>5, <1>6, <1>7, <1>8 DEF Knowledge

(* Writing the output and the statuses changes nothing of what is known.   *)
LEMMA LaterKnowledge ==
  ASSUME Resources, ItemsTyped, Scalars, Knowledge, Output \/ KeepStatus \/ WriteStatus \/ Rest, ~queued'
  PROVE  Knowledge'
<1>1. /\ phase \in {"output", "status"} /\ phase' \in {"status", "idle"}
      /\ UNCHANGED <<cache, routeIndex, gwIndex, lds, queued>>
      /\ phase' = "status" => items' = items
      /\ phase' = "idle" => items' = <<>>
      /\ "gateway" \notin holes' => "gateway" \notin holes
  BY DEF Output, KeepStatus, WriteStatus, Rest, resources, indexes, Abandon
<1>2. /\ \A spec : DependsOn(spec)' = DependsOn(spec)
      /\ \A spec : Verdict(spec)' = Verdict(spec)
      /\ \A spec : Judged(spec)' <=> Judged(spec)
  BY <1>1, SameCache
<1>3. Listed' BY <1>1 DEF Knowledge, Listed
<1>4. RoutesWatched' BY <1>1 DEF Knowledge, RoutesWatched
<1>5. GatewaysWatched'
  <2>1. SUFFICES ASSUME ~queued, NEW p \in Policies, cache[p] # Absent PROVE DependsOn(cache[p].spec)' \subseteq Watched'
    BY <1>1 DEF GatewaysWatched, Resolved
  <2>2. Resolved(p) BY <2>1, <1>1 DEF Resolved
  <2>3. DependsOn(cache[p].spec) \subseteq gwIndex BY <2>1, <2>2, <1>1 DEF Knowledge, GatewaysWatched, Watched
  <2>4. Watched' = gwIndex' BY <1>1 DEF Watched
  <2>5. DependsOn(cache[p].spec)' = DependsOn(cache[p].spec) BY <1>1, <1>2
  <2>6. QED BY <2>3, <2>4, <2>5, <1>1
<1>6. RoutesResolved' BY <1>1 DEF RoutesResolved
<1>7. StatusesComputed'
  <2>1. CASE phase' = "status"
    <3>1. items' = items /\ phase # "resolve" /\ phase' # "resolve" BY <1>1, <2>1
    <3>2. QED BY <3>1, <1>1, <1>2 DEF Knowledge, StatusesComputed
  <2>2. CASE phase' = "idle"
    <3>1. DOMAIN items' = {} BY <2>2, <1>1, NoItems
    <3>2. QED BY <3>1 DEF StatusesComputed
  <2>3. QED BY <2>1, <2>2, <1>1
<1>8. QED BY <1>3, <1>4, <1>5, <1>6, <1>7 DEF Knowledge

(* After a restart that asks for nothing there are no policies.            *)
LEMMA RestartKnowledge ==
  ASSUME Resources, Restart
  PROVE  Knowledge'
<1>1. /\ cache' = api /\ phase' = "idle" /\ items' = <<>> /\ queued' = Wakes(api, lds)
  BY DEF Restart
<1>2. CASE queued' BY <1>2, QueuedKnowledge
<1>3. CASE ~queued'
  <2>1. \A p \in Policies : cache'[p] = Absent BY <1>1, <1>3 DEF Wakes, Existing, Names
  <2>2. DOMAIN items' = {} BY <1>1, NoItems
  <2>3. QED BY <1>1, <2>1, <2>2 DEF Knowledge, Listed, RoutesWatched, GatewaysWatched, Resolved, RoutesResolved,
                                   StatusesComputed
<1>4. QED BY <1>2, <1>3

(* Each step keeps what the controller knows true.                         *)
LEMMA KnowledgeStep ==
  ASSUME Resources, ItemsTyped, Scalars, Untouched, Knowledge, [Next]_vars
  PROVE  Knowledge'
<1>1. CASE Users
  <2>1. UNCHANGED <<cache, work, indexes, lds, queued, phase, holes>> BY <1>1, UsersFacts DEF Others
  <2>2. QED BY <2>1, SameKnowledge
<1>2. CASE ObserveOutput
  <2>1. UNCHANGED <<cache, work, indexes, lds, queued, phase, holes>> BY <1>2 DEF ObserveOutput, resources
  <2>2. QED BY <2>1, SameKnowledge
<1>3. CASE \E kind \in Kinds : Observe(kind)
  <2>0. PICK kind \in Kinds : Observe(kind) BY <1>3
  <2>1. PICK n, obj : /\ Observed(kind, n, obj)
                      /\ queued' = (queued \/ Triggers(n, cache[n], obj))
                      /\ holes' = holes \union IF ~Triggers(n, cache[n], obj) /\ n \in gateways THEN {"gateway"} ELSE {}
                      /\ UNCHANGED <<work, indexes, lds, phase>>
    BY <2>0, ObserveFacts
  <2>2. CASE queued \/ Triggers(n, cache[n], obj) BY <2>1, <2>2, QueuedKnowledge
  <2>3. CASE ~queued /\ ~Triggers(n, cache[n], obj)
    <3>1. queued' = queued BY <2>1, <2>3 DEF Scalars
    <3>2. Ignored(n, obj) BY <2>1, <2>3, <3>1 DEF Ignored
    <3>3. QED BY <2>1, <3>2, IgnoredKnowledge
  <2>4. QED BY <2>2, <2>3
<1>4. CASE Begin BY <1>4, BeginKnowledge
<1>5. CASE ResolveNext BY <1>5, ResolveNextKnowledge
<1>6. CASE Finish BY <1>6, FinishKnowledge
<1>7. CASE Output \/ KeepStatus \/ WriteStatus \/ Rest BY <1>7, LaterKnowledge, QueuedKnowledge
<1>8. CASE StatusFails \/ GetFails
  <2>1. queued' BY <1>8 DEF StatusFails, GetFails, Abandon
  <2>2. QED BY <2>1, QueuedKnowledge
<1>9. CASE Restart BY <1>9, RestartKnowledge
<1>10. CASE UNCHANGED vars
  <2>1. UNCHANGED <<cache, work, indexes, lds, queued, phase, holes>> BY <1>10 DEF vars, resources
  <2>2. QED BY <2>1, SameKnowledge
<1>11. QED BY <1>1, <1>2, <1>3, <1>4, <1>5, <1>6, <1>7, <1>8, <1>9, <1>10 DEF Next, Informers, Reconcile

-----------------------------------------------------------------------------
(* What is written: the statuses.                                          *)
LEMMA PendingFacts ==
  ASSUME Resources, NEW p \in Policies
  PROVE  /\ p \in Names /\ KindOf(p) = "policy" /\ "policy" \in Kinds
         /\ watch["policy"] \in Seq(Events)
         /\ DOMAIN watch["policy"] = 1..Len(watch["policy"]) /\ Len(watch["policy"]) \in Nat
<1>1. p \in Names /\ KindOf(p) = "policy" /\ "policy" \in Kinds BY KindFacts DEF Names, Kinds
<1>2. watch["policy"] \in Seq(Events) BY <1>1, WatchFacts DEF Resources
<1>3. QED BY <1>1, <1>2

(* A status is missing from the copy if and only if the events tell.       *)
LEMMA PendingOrSame ==
  ASSUME Resources, NEW p \in Policies
  PROVE  Pending(p) \/ (api[p] # Absent /\ api[p].gen = cache[p].gen) \/ (api[p] = Absent /\ cache[p] = Absent)
<1>1. Tracked(watch["policy"], p, cache[p], api[p])
  BY PendingFacts DEF Resources, Synced
<1>2. QED BY <1>1 DEF Tracked, Pending

(* A write by others keeps a policy's status settled, or announces another *)
(* generation.                                                             *)
LEMMA PendingPosted ==
  ASSUME Resources, NEW n \in Names, NEW obj \in Versions(n), Posted(n, obj), NEW p \in Policies
  PROVE  /\ Pending(p) => Pending(p)'
         /\ n = p /\ (obj = Absent \/ obj.gen # cache[p].gen) => Pending(p)'
<1> DEFINE w == watch["policy"]
           e == <<n, obj>>
<1>0. UNCHANGED cache BY DEF Posted
<1>1. /\ watch'[KindOf(n)] = Append(watch[KindOf(n)], e)
      /\ \A k \in Kinds : k # KindOf(n) => watch'[k] = watch[k]
      /\ e \in Events
  BY PostedWatch DEF Resources
<1>2. KindOf(p) = "policy" /\ "policy" \in Kinds /\ w \in Seq(Events) BY PendingFacts
<1>e. e[1] = n /\ e[2] = obj OBVIOUS
<1>3. CASE KindOf(n) # "policy"
  <2>1. watch'["policy"] = w /\ n # p BY <1>1, <1>2, <1>3
  <2>2. QED BY <2>1, <1>0 DEF Pending
<1>4. CASE KindOf(n) = "policy"
  <2> HIDE DEF e
  <2>1. watch'["policy"] = Append(w, e) BY <1>1, <1>4
  <2> HIDE DEF w
  <2>2. /\ DOMAIN w = 1..Len(w) /\ Len(w) \in Nat
        /\ DOMAIN Append(w, e) = 1..(Len(w) + 1)
        /\ \A i \in DOMAIN w : Append(w, e)[i] = w[i]
        /\ Append(w, e)[Len(w) + 1] = e
    BY <1>1, <1>2, AppendFacts
  <2>3. ASSUME Pending(p) PROVE Pending(p)'
    <3>1. PICK i \in DOMAIN w : w[i][1] = p /\ (w[i][2] = Absent \/ w[i][2].gen # cache[p].gen)
      BY <2>3 DEF Pending, w
    <3>2. i \in DOMAIN watch'["policy"] /\ watch'["policy"][i] = w[i] BY <2>1, <2>2
    <3>3. QED BY <3>1, <3>2, <1>0 DEF Pending
  <2>4. ASSUME n = p, obj = Absent \/ obj.gen # cache[p].gen PROVE Pending(p)'
    <3>1. Len(w) + 1 \in DOMAIN watch'["policy"] /\ watch'["policy"][Len(w) + 1] = e BY <2>1, <2>2
    <3>2. QED BY <3>1, <2>4, <1>0, <1>e DEF Pending
  <2>5. QED BY <2>3, <2>4
<1>5. QED BY <1>3, <1>4

(* Users' writes and written statuses.                                     *)
LEMMA UsersStatuses ==
  ASSUME Resources, Scalars, StatusesWritten, Users
  PROVE  StatusesWritten'
<1>1. PICK n \in Names, obj \in Version :
        /\ obj \in Versions(n) /\ Posted(n, obj)
        /\ n \in Policies /\ api[n] # Absent /\ obj # Absent => obj.gen # api[n].gen
  BY UsersFacts, VersionsFacts
<1>2. UNCHANGED <<cache, items, at, lds, queued, phase, holes>> BY UsersFacts DEF Others, work
<1>3. /\ \A spec : Verdict(spec)' = Verdict(spec)
      /\ \A spec : Judged(spec)' <=> Judged(spec)
  BY <1>2, SameCache
<1>4. api' = [api EXCEPT ![n] = obj] BY <1>1 DEF Posted
<1>5. api'[n] = obj /\ \A m \in Names : m # n => api'[m] = api[m]
  <2>1. Typed(api) BY DEF Resources
  <2>2. QED BY <1>1, <1>4, <2>1, TypedUpdate
<1>6. \A p : Written(p)' <=> Written(p) BY <1>2 DEF Written
<1>7. SUFFICES ASSUME ~queued, holes \intersect {"gateway", "status"} = {}, NEW p \in Policies,
                      Written(p), Judged(cache[p].spec)
               PROVE  Pending(p)' \/ Settled(p)'
  <2>1. \A p : Judged(cache[p].spec)' <=> Judged(cache[p].spec) BY <1>2, <1>3
  <2>2. QED BY <2>1, <1>2, <1>6, <1>7 DEF StatusesWritten
<1>8. Pending(p) \/ Settled(p) BY <1>7 DEF StatusesWritten
<1>9. CASE Pending(p) BY <1>9, <1>1, PendingPosted
<1>10. CASE Settled(p) /\ n = p
  <2>1. api[p] # Absent /\ api[p].gen = cache[p].gen BY <1>10 DEF Settled
  <2>2. obj = Absent \/ obj.gen # cache[p].gen BY <2>1, <1>1, <1>10
  <2>3. QED BY <2>2, <1>1, <1>10, PendingPosted
<1>11. CASE Settled(p) /\ n # p
  <2>1. api'[p] = api[p] BY <1>5, <1>11 DEF Names
  <2>2. Verdict(cache[p].spec)' = Verdict(cache[p].spec) BY <1>2, <1>3
  <2>3. QED BY <2>1, <2>2, <1>2, <1>11 DEF Settled
<1>12. QED BY <1>8, <1>9, <1>10, <1>11

(* Steps that change neither resources nor what is known.                  *)
LEMMA SameStatuses ==
  ASSUME StatusesWritten, UNCHANGED <<api, cache, watch, items, at, lds, queued, phase, holes>>
  PROVE  StatusesWritten'
<1>1. /\ \A spec : Verdict(spec)' = Verdict(spec)
      /\ \A spec : Judged(spec)' <=> Judged(spec)
  BY SameCache
<1>2. \A p : Written(p)' <=> Written(p) BY DEF Written
<1>3. \A p : Pending(p)' <=> Pending(p) BY DEF Pending
<1>4. \A p : Judged(cache[p].spec)' <=> Judged(cache[p].spec) BY <1>1
<1>5. \A p : Verdict(cache[p].spec)' = Verdict(cache[p].spec) BY <1>1
<1>6. \A p : Settled(p)' <=> Settled(p) BY <1>5 DEF Settled
<1>7. QED BY <1>2, <1>3, <1>4, <1>6 DEF StatusesWritten

(* An event that asks for nothing and written statuses.                    *)
LEMMA IgnoredStatuses ==
  ASSUME Resources, ItemsTyped, Scalars, Knowledge, StatusesWritten,
         NEW kind \in Kinds, NEW n, NEW obj, Observed(kind, n, obj), Ignored(n, obj)
  PROVE  StatusesWritten'
<1>1. \A p \in Policies : /\ cache'[p] = Absent <=> cache[p] = Absent
                          /\ cache[p] # Absent => SameSpec(cache[p], cache'[p]) /\ cache'[p].spec = cache[p].spec
  BY IgnoredFacts DEF Knowledge
<1>2. /\ ~queued /\ UNCHANGED <<items, at, lds, queued, phase>> /\ holes \subseteq holes'
      /\ UNCHANGED api
  BY DEF Ignored, work, Observed
<1>3. SUFFICES ASSUME holes' \intersect {"gateway", "status"} = {}, NEW p \in Policies,
                      Written(p)', Judged(cache[p].spec)'
               PROVE  Pending(p)' \/ Settled(p)'
  BY DEF StatusesWritten
<1>4. Written(p) /\ cache[p] # Absent /\ Resolved(p)
  <2>1. CASE phase = "idle" BY <2>1, <1>1, <1>2, <1>3 DEF Written, Resolved
  <2>2. CASE phase = "status"
    <3>1. PICK i \in DOMAIN items : i < at /\ items[i].name = p BY <2>2, <1>2, <1>3 DEF Written
    <3>2. cache[p] # Absent BY <3>1, <2>2, <1>2, ListedFacts DEF Knowledge
    <3>3. QED BY <3>1, <3>2, <2>2 DEF Written, Resolved
  <2>3. QED BY <2>1, <2>2, <1>2, <1>3 DEF Written
<1>5. PICK s : s = cache[p].spec OBVIOUS
<1>6. "gateway" \notin holes' BY <1>3
<1>7. /\ Judged(s)' <=> Judged(s)
      /\ Judged(s) => Verdict(s)' = Verdict(s)
  BY <1>4, <1>5, <1>6, IgnoredPolicy DEF Knowledge
<1>8. cache'[p].spec = s /\ cache'[p].gen = cache[p].gen BY <1>1, <1>4, <1>5 DEF SameSpec
<1>9. Judged(s) /\ Judged(cache[p].spec) BY <1>3, <1>5, <1>7, <1>8
<1>10. Verdict(cache[p].spec)' = Verdict(cache[p].spec) BY <1>5, <1>7, <1>8, <1>9
<1>11. Pending(p) \/ Settled(p) BY <1>2, <1>3, <1>4, <1>9 DEF StatusesWritten
<1>12. CASE Settled(p) BY <1>12, <1>2, <1>8, <1>10 DEF Settled
<1>13. CASE Pending(p)
  <2> DEFINE w == watch["policy"]
  <2>1. PICK i \in DOMAIN w : w[i][1] = p /\ (w[i][2] = Absent \/ w[i][2].gen # cache[p].gen)
    BY <1>13 DEF Pending
  <2>2. /\ watch'[kind] = Tail(watch[kind])
        /\ \A k \in Kinds : k # kind => watch'[k] = watch[k]
        /\ KindOf(n) = kind /\ n \in Names /\ cache'[n] = obj
    BY ObservedFacts
  <2>3. "policy" \in Kinds /\ w \in Seq(Events) BY PendingFacts
  <2>4. CASE kind # "policy"
    <3>1. watch'["policy"] = w BY <2>2, <2>3, <2>4
    <3>2. QED BY <3>1, <2>1, <1>8 DEF Pending
  <2>5. CASE kind = "policy"
    <3>1. watch'["policy"] = Tail(w) /\ w # <<>> /\ n = Head(w)[1] /\ obj = Head(w)[2]
      BY <2>2, <2>5 DEF Observed
    <3> HIDE DEF w
    <3>2. /\ DOMAIN w = 1..Len(w) /\ Len(w) \in Nat /\ Len(w) >= 1
          /\ DOMAIN Tail(w) = 1..(Len(w) - 1)
          /\ \A j \in DOMAIN Tail(w) : Tail(w)[j] = w[j + 1]
          /\ Head(w) = w[1]
      BY <2>3, <3>1, TailFacts
    <3>3. i # 1
      <4>1. SUFFICES ASSUME i = 1 PROVE FALSE OBVIOUS
      <4>2. n = p /\ obj = w[i][2] BY <4>1, <3>1, <3>2, <2>1
      <4>3. obj # Absent /\ obj.gen = cache[p].gen BY <4>2, <2>2, <1>1, <1>4 DEF SameSpec
      <4>4. QED BY <4>2, <4>3, <2>1
    <3>4. i - 1 \in DOMAIN Tail(w) /\ Tail(w)[i - 1] = w[i]
      BY <3>2, <3>3
    <3>5. QED BY <3>1, <3>4, <2>1, <1>8 DEF Pending
  <2>6. QED BY <2>4, <2>5
<1>14. QED BY <1>11, <1>12, <1>13

(* The policy whose status is looked at.                                   *)
LEMMA AtStatus ==
  ASSUME Resources, ItemsTyped, Scalars, Knowledge, KeepStatus \/ WriteStatus, ~queued,
         holes \intersect {"gateway", "status"} = {}
  PROVE  LET p == items[at].name
             obj == items[at].obj
         IN /\ phase = "status" /\ at \in DOMAIN items /\ at' = at + 1
            /\ p \in Policies /\ cache[p] # Absent /\ obj.spec = cache[p].spec /\ obj.gen = cache[p].gen
            /\ Judged(obj.spec) => items[at].status = [reason |-> Verdict(obj.spec), gen |-> obj.gen]
            /\ \A i \in DOMAIN items : i < at' => i < at \/ i = at
            /\ UNCHANGED <<cache, items, lds, queued, phase>>
<1>1. /\ phase = "status" /\ at <= Len(items) /\ at' = at + 1
      /\ UNCHANGED <<cache, items, lds, queued, phase>>
  BY DEF KeepStatus, WriteStatus, resources
<1>2. at \in DOMAIN items /\ at \in Nat BY <1>1, AtFacts
<1>3. /\ items[at].name \in Policies /\ cache[items[at].name] # Absent
      /\ items[at].obj.spec = cache[items[at].name].spec /\ items[at].obj.gen = cache[items[at].name].gen
  BY <1>1, <1>2, ListedFacts DEF Knowledge
<1>4. Judged(items[at].obj.spec) =>
        items[at].status = [reason |-> Verdict(items[at].obj.spec), gen |-> items[at].obj.gen]
  BY <1>1, <1>2 DEF Knowledge, StatusesComputed
<1>5. \A i \in DOMAIN items : i < at' => i < at \/ i = at
  <2>1. DOMAIN items = 1..Len(items) /\ Len(items) \in Nat BY DEF ItemsTyped
  <2>2. QED BY <2>1, <1>1, <1>2
<1>6. QED BY <1>1, <1>2, <1>3, <1>4, <1>5

(* A status that did not change: it is the one in force, unless a hole is  *)
(* recorded.                                                               *)
LEMMA KeepStatusStatuses ==
  ASSUME Resources, ItemsTyped, Scalars, Knowledge, StatusesWritten, KeepStatus
  PROVE  StatusesWritten'
<1> DEFINE p == items[at].name
           obj == items[at].obj
<1>1. /\ holes' = holes \union IF api[p] # Absent /\ api[p].status # items[at].status THEN {"status"} ELSE {}
      /\ UNCHANGED <<api, cache, watch, items, lds, queued, phase>>
  BY DEF KeepStatus, resources
<1>2. SUFFICES ASSUME ~queued, holes' \intersect {"gateway", "status"} = {}, NEW q \in Policies,
                      Written(q)', Judged(cache[q].spec)'
               PROVE  Pending(q)' \/ Settled(q)'
  BY <1>1 DEF StatusesWritten
<1>3. holes \intersect {"gateway", "status"} = {} BY <1>1, <1>2
<1>4. /\ phase = "status" /\ at \in DOMAIN items
      /\ p \in Policies /\ cache[p] # Absent /\ obj.spec = cache[p].spec /\ obj.gen = cache[p].gen
      /\ Judged(obj.spec) => items[at].status = [reason |-> Verdict(obj.spec), gen |-> obj.gen]
      /\ \A i \in DOMAIN items : i < at' => i < at \/ i = at
  BY <1>2, <1>3, AtStatus
<1>5. /\ \A spec : Verdict(spec)' = Verdict(spec)
      /\ \A spec : Judged(spec)' <=> Judged(spec)
  BY <1>1, SameCache
<1>6. /\ Judged(cache[q].spec) /\ Verdict(cache[q].spec)' = Verdict(cache[q].spec)
  <2>1. Judged(cache[q].spec)' <=> Judged(cache'[q].spec) BY <1>5
  <2>2. QED BY <2>1, <1>1, <1>2, <1>5
<1>7. (Pending(q)' <=> Pending(q)) /\ (Settled(q)' <=> Settled(q))
  BY <1>1, <1>6 DEF Pending, Settled
<1>8. PICK i \in DOMAIN items : i < at' /\ items[i].name = q
  BY <1>1, <1>2, <1>4 DEF Written
<1>9. CASE i < at
  <2>1. Written(q) BY <1>4, <1>8, <1>9 DEF Written
  <2>2. QED BY <2>1, <1>2, <1>3, <1>6, <1>7 DEF StatusesWritten
<1>10. CASE i = at
  <2>1. q = p BY <1>8, <1>10
  <2>2. items[at].status = [reason |-> Verdict(obj.spec), gen |-> obj.gen] BY <2>1, <1>4, <1>6
  <2>3. api[p] = Absent \/ api[p].status = items[at].status BY <1>1, <1>2
  <2>4. Pending(q) \/ (api[q] # Absent /\ api[q].gen = cache[q].gen) BY <2>1, <1>4, PendingOrSame
  <2>5. (api[q] # Absent /\ api[q].gen = cache[q].gen) => Settled(q)
    BY <2>1, <2>2, <2>3, <1>4 DEF Settled
  <2>6. QED BY <2>4, <2>5, <1>7
<1>11. QED BY <1>4, <1>8, <1>9, <1>10

(* A status written is the one in force.                                   *)
LEMMA WriteStatusStatuses ==
  ASSUME Resources, ItemsTyped, Scalars, Knowledge, StatusesWritten, WriteStatus
  PROVE  StatusesWritten'
<1> DEFINE p == items[at].name
           obj == items[at].obj
           new == WithStatus(obj, items[at].status)
<1>1. /\ at \in DOMAIN items /\ p \in Names /\ p \in Policies /\ new \in Versions(p)
      /\ Posted(p, new)
      /\ api[p] = obj /\ SameSpec(obj, new) /\ new.status = items[at].status
  BY WriteStatusFacts
<1>2. UNCHANGED <<cache, items, lds, queued, phase, holes>> BY DEF WriteStatus
<1>3. SUFFICES ASSUME ~queued, holes \intersect {"gateway", "status"} = {}, NEW q \in Policies,
                      Written(q)', Judged(cache[q].spec)'
               PROVE  Pending(q)' \/ Settled(q)'
  BY <1>2 DEF StatusesWritten
<1>4. /\ phase = "status"
      /\ cache[p] # Absent /\ obj.spec = cache[p].spec /\ obj.gen = cache[p].gen
      /\ Judged(obj.spec) => items[at].status = [reason |-> Verdict(obj.spec), gen |-> obj.gen]
      /\ \A i \in DOMAIN items : i < at' => i < at \/ i = at
  BY <1>3, AtStatus
<1>5. /\ \A spec : Verdict(spec)' = Verdict(spec)
      /\ \A spec : Judged(spec)' <=> Judged(spec)
  BY <1>2, SameCache
<1>6. /\ Judged(cache[q].spec) /\ Verdict(cache[q].spec)' = Verdict(cache[q].spec)
  <2>1. Judged(cache[q].spec)' <=> Judged(cache'[q].spec) BY <1>5
  <2>2. QED BY <2>1, <1>2, <1>3, <1>5
<1>n. new # Absent BY <1>1, ItemFacts, PolicyVersionFacts
<1> HIDE DEF new, p
<1>a. api' = [api EXCEPT ![p] = new] BY <1>1 DEF Posted
<1>7. api'[p] = new /\ \A m \in Names : m # p => api'[m] = api[m]
  <2>1. Typed(api) BY DEF Resources
  <2>2. QED BY <1>1, <1>a, <2>1, TypedUpdate
<1>8. PICK i \in DOMAIN items : i < at' /\ items[i].name = q
  BY <1>2, <1>3, <1>4 DEF Written
<1>9. CASE q = p
  <2>1. items[at].status = [reason |-> Verdict(obj.spec), gen |-> obj.gen] BY <1>9, <1>4, <1>6
  <2>2. api'[q].gen = cache'[q].gen /\ api'[q] # Absent BY <1>1, <1>2, <1>4, <1>7, <1>9, <1>n DEF SameSpec
  <2>3. api'[q].status = [reason |-> Verdict(cache[q].spec), gen |-> cache[q].gen]
    BY <2>1, <1>1, <1>4, <1>7, <1>9
  <2>4. QED BY <2>2, <2>3, <1>2, <1>6 DEF Settled
<1>10. CASE q # p
  <2>1. i < at BY <1>4, <1>8, <1>10 DEF p
  <2>2. Written(q) BY <2>1, <1>4, <1>8 DEF Written
  <2>3. Pending(q) \/ Settled(q) BY <2>2, <1>3, <1>6 DEF StatusesWritten
  <2>4. Pending(q) => Pending(q)' BY <1>1, PendingPosted
  <2>5. api'[q] = api[q] BY <1>7, <1>10 DEF Names
  <2>6. Settled(q) => Settled(q)' BY <2>5, <1>2, <1>6 DEF Settled
  <2>7. QED BY <2>3, <2>4, <2>6
<1>11. QED BY <1>9, <1>10

(* At the end every policy's status was looked at.                         *)
LEMMA RestStatuses ==
  ASSUME ItemsTyped, Scalars, Knowledge, StatusesWritten, Rest
  PROVE  StatusesWritten'
<1>1. /\ phase = "status" /\ at > Len(items) /\ phase' = "idle"
      /\ UNCHANGED <<api, cache, watch, lds, queued, holes>>
  BY DEF Rest, resources
<1>2. SUFFICES ASSUME ~queued, holes \intersect {"gateway", "status"} = {}, NEW p \in Policies,
                      Written(p)', Judged(cache[p].spec)'
               PROVE  Pending(p)' \/ Settled(p)'
  BY <1>1 DEF StatusesWritten
<1>3. /\ \A spec : Verdict(spec)' = Verdict(spec)
      /\ \A spec : Judged(spec)' <=> Judged(spec)
  BY <1>1, SameCache
<1>4. /\ Judged(cache[p].spec) /\ Verdict(cache[p].spec)' = Verdict(cache[p].spec)
  <2>1. Judged(cache[p].spec)' <=> Judged(cache'[p].spec) BY <1>3
  <2>2. QED BY <2>1, <1>1, <1>2, <1>3
<1>5. cache[p] # Absent BY <1>1, <1>2 DEF Written
<1>6. PICK i \in DOMAIN items : items[i].name = p BY <1>1, <1>2, <1>5 DEF Knowledge, Listed
<1>7. i < at
  <2>1. DOMAIN items = 1..Len(items) /\ Len(items) \in Nat BY DEF ItemsTyped
  <2>2. at \in Nat BY <2>1 DEF Scalars
  <2>3. QED BY <2>1, <2>2, <1>1
<1>8. Written(p) BY <1>1, <1>6, <1>7 DEF Written
<1>9. Pending(p) \/ Settled(p) BY <1>2, <1>4, <1>8 DEF StatusesWritten
<1>10. (Pending(p)' <=> Pending(p)) /\ (Settled(p)' <=> Settled(p))
  BY <1>1, <1>4 DEF Pending, Settled
<1>11. QED BY <1>9, <1>10

(* Each step keeps the written statuses true.                              *)
LEMMA StatusesStep ==
  ASSUME Resources, ItemsTyped, Scalars, Knowledge, StatusesWritten, [Next]_vars
  PROVE  StatusesWritten'
<1>1. CASE Users BY <1>1, UsersStatuses
<1>2. CASE ObserveOutput \/ UNCHANGED vars
  <2>1. UNCHANGED <<api, cache, watch, items, at, lds, queued, phase, holes>>
    BY <1>2 DEF ObserveOutput, vars, resources, work
  <2>2. QED BY <2>1, SameStatuses
<1>3. CASE \E kind \in Kinds : Observe(kind)
  <2>0. PICK kind \in Kinds : Observe(kind) BY <1>3
  <2>1. PICK n, obj : /\ Observed(kind, n, obj)
                      /\ queued' = (queued \/ Triggers(n, cache[n], obj))
                      /\ holes' = holes \union IF ~Triggers(n, cache[n], obj) /\ n \in gateways THEN {"gateway"} ELSE {}
                      /\ UNCHANGED <<work, indexes, lds, phase>>
    BY <2>0, ObserveFacts
  <2>2. CASE queued \/ Triggers(n, cache[n], obj) BY <2>1, <2>2 DEF StatusesWritten
  <2>3. CASE ~queued /\ ~Triggers(n, cache[n], obj)
    <3>1. queued' = queued BY <2>1, <2>3 DEF Scalars
    <3>2. Ignored(n, obj) BY <2>1, <2>3, <3>1 DEF Ignored
    <3>3. QED BY <2>1, <3>2, IgnoredStatuses
  <2>4. QED BY <2>2, <2>3
<1>4. CASE Begin \/ ResolveNext \/ Finish
  <2>1. phase' \in {"resolve", "output"} BY <1>4 DEF Begin, ResolveNext, Finish
  <2>2. QED BY <2>1 DEF StatusesWritten, Written
<1>5. CASE Output
  <2>1. CASE queued' BY <2>1 DEF StatusesWritten
  <2>2. CASE ~queued'
    <3>1. phase = "output" /\ phase' = "status" /\ UNCHANGED <<items, at>>
      BY <1>5, <2>2 DEF Output, Abandon
    <3>2. at' = 1 /\ DOMAIN items' = 1..Len(items) /\ Len(items) \in Nat
      BY <3>1 DEF Scalars, ItemsTyped
    <3>3. \A i \in DOMAIN items' : ~(i < at') BY <3>2
    <3>4. QED BY <3>1, <3>3 DEF StatusesWritten, Written
  <2>3. QED BY <2>1, <2>2
<1>6. CASE KeepStatus BY <1>6, KeepStatusStatuses
<1>7. CASE WriteStatus BY <1>7, WriteStatusStatuses
<1>8. CASE StatusFails \/ GetFails
  <2>1. queued' BY <1>8 DEF StatusFails, GetFails, Abandon
  <2>2. QED BY <2>1 DEF StatusesWritten
<1>9. CASE Rest BY <1>9, RestStatuses
<1>10. CASE Restart
  <2>1. /\ cache' = api /\ phase' = "idle" /\ queued' = Wakes(api, lds)
    BY <1>10 DEF Restart
  <2>2. ~queued' => \A p \in Policies : cache'[p] = Absent BY <2>1 DEF Wakes, Existing, Names
  <2>3. QED BY <2>1, <2>2 DEF StatusesWritten, Written
<1>11. QED BY <1>1, <1>2, <1>3, <1>4, <1>5, <1>6, <1>7, <1>8, <1>9, <1>10 DEF Next, Informers, Reconcile

-----------------------------------------------------------------------------
(* The invariant.                                                          *)
LEMMA InitInvariant ==
  ASSUME Init
  PROVE  IInv
<1>1. Resources /\ Outputs BY InitResources, InitOutputs
<1>2. ItemsTyped /\ Scalars BY InitBasics
<1>3. /\ cache = api /\ phase = "idle" /\ items = <<>> /\ queued = Wakes(api, lds)
  BY DEF Init
<1>4. DOMAIN items = {} BY <1>3
<1>5. Untouched BY <1>3 DEF Untouched
<1>6. ~queued => \A p \in Policies : cache[p] = Absent BY <1>3 DEF Wakes, Existing, Names
<1>7. Knowledge
  BY <1>3, <1>4, <1>6 DEF Knowledge, Listed, RoutesWatched, GatewaysWatched, Resolved, RoutesResolved, StatusesComputed
<1>8. StatusesWritten BY <1>3, <1>6 DEF StatusesWritten, Written
<1>9. QED BY <1>1, <1>2, <1>5, <1>7, <1>8 DEF IInv, Resources, Outputs, Knowledge

(* Each step keeps the invariant.                                          *)
LEMMA InvariantStep ==
  ASSUME IInv, [Next]_vars
  PROVE  IInv'
<1>1. Resources /\ Outputs /\ Knowledge /\ ItemsTyped /\ Scalars /\ Untouched /\ StatusesWritten
  BY DEF IInv, Resources, Outputs, Knowledge
<1>2. Resources' BY <1>1, ResourcesStep
<1>3. Outputs' BY <1>1, OutputsStep
<1>4. ItemsTyped' /\ Scalars' BY <1>1, BasicsStep
<1>5. Untouched' BY <1>1, UntouchedStep
<1>6. Knowledge' BY <1>1, KnowledgeStep
<1>7. StatusesWritten' BY <1>1, StatusesStep
<1>8. QED BY <1>2, <1>3, <1>4, <1>5, <1>6, <1>7 DEF IInv, Resources, Outputs, Knowledge

(* The strengthening holds in every reachable state.                       *)
THEOREM Invariant == Spec => []IInv
<1>1. Init => IInv BY InitInvariant
<1>2. IInv /\ [Next]_vars => IInv' BY InvariantStep
<1>3. QED BY <1>1, <1>2, PTL DEF Spec

(* When informers have seen everything, the copies are what there is.      *)
LEMMA SeenFacts ==
  ASSUME IInv, Seen
  PROVE  cache = api
<1>1. Typed(api) /\ Typed(cache) BY DEF IInv
<1>2. \A n \in Names : cache[n] = api[n]
  <2>1. TAKE n \in Names
  <2>2. Tracked(watch[KindOf(n)], n, cache[n], api[n]) BY DEF IInv, Synced
  <2>3. watch[KindOf(n)] = <<>> BY KindFacts DEF Seen
  <2>4. QED BY <2>2, <2>3 DEF Tracked
<1>3. api = [n \in Names |-> api[n]] /\ cache = [n \in Names |-> cache[n]] BY <1>1 DEF Typed
<1>4. QED BY <1>2, <1>3

(* The controller's variables have the values that the code gives them,    *)
(* and the informers' copies catch up (Reconcile, and the informers).      *)
THEOREM PolicyTypesHold == Spec => []PolicyTypeOK
<1>1. ASSUME IInv PROVE PolicyTypeOK
  <2>1. \A p \in Policies : api[p] # Absent => api[p].status.gen <= api[p].gen
    <3>1. TAKE p \in Policies
    <3>2. HAVE api[p] # Absent
    <3>3. p \in Names /\ api[p] \in Versions(p) BY <1>1 DEF IInv, Typed, Names
    <3>4. api[p] \in PolicyVersions(p) BY <3>2, <3>3, VersionsFacts
    <3>5. QED BY <3>4, PolicyVersionFacts
  <2>2. Seen => cache = api BY <1>1, SeenFacts
  <2>3. ASSUME efWatch = <<>> PROVE efCache = efs
    <3>1. Outputs BY <1>1 DEF IInv, Outputs
    <3>2. \A k : Found(efCache, k) = Found(efs, k) BY <3>1, <2>3, OutputTracked DEF Tracked
    <3>3. DOMAIN efCache = DOMAIN efs
      <4>1. \A k : k \in DOMAIN efCache <=> k \in DOMAIN efs BY <3>2 DEF Found
      <4>2. QED BY <4>1
    <3>4. \A k \in DOMAIN efs : efCache[k] = efs[k] BY <3>2, <3>3 DEF Found
    <3>5. efs = [k \in DOMAIN efs |-> efs[k]] /\ efCache = [k \in DOMAIN efCache |-> efCache[k]]
      BY <3>1 DEF Outputs, OutputTyped
    <3>6. QED BY <3>3, <3>4, <3>5
  <2>4. QED BY <1>1, <2>1, <2>2, <2>3 DEF IInv, Scalars, PolicyTypeOK
<1>2. IInv => PolicyTypeOK BY <1>1
<1>3. QED BY <1>2, Invariant, PTL

(* A live policy is one that asks for a valid target.                      *)
LEMMA LiveFacts ==
  ASSUME IInv, Quiet, NEW p \in Policies, api[p] # Absent
  PROVE  /\ cache = api /\ Resolved(p) /\ Written(p) /\ ~Pending(p)
         /\ Live(p) <=> Targeting(cache[p].spec)
         /\ Live(p) => Spec0(p).target \in Routes \union Gateways
<1>1. cache = api BY SeenFacts DEF Quiet
<1>2. Resolved(p) /\ Written(p) BY <1>1 DEF Quiet, Resolved, Written
<1>3. ~Pending(p)
  <2>1. watch["policy"] = <<>> BY DEF Quiet, Seen, Kinds
  <2>2. QED BY <2>1 DEF Pending
<1>4. Live(p) <=> Targeting(cache[p].spec) BY <1>1 DEF Live, Targeting, Spec0
<1>5. Resources BY DEF IInv, Resources
<1>6. Live(p) => Spec0(p).target \in Routes \union Gateways BY <1>1, <1>4, <1>5, TargetRoute DEF Spec0
<1>7. QED BY <1>1, <1>2, <1>3, <1>4, <1>6

(* At rest, a target is found if and only if it is sound and has the       *)
(* section.                                                                *)
LEMMA FoundAtRest ==
  ASSUME cache = api, NEW p \in Policies, Spec0(p).target \in Routes \union Gateways
  PROVE  TargetFound(Spec0(p)) <=> Sound(Spec0(p).target) /\ HasSection(p)
<1>1. CASE Spec0(p).target \in Routes
  <2>1. Spec0(p).target \notin Gateways BY <1>1, NamesAssumption
  <2>2. QED BY <1>1, <2>1 DEF TargetFound, Sound, HasSection
<1>2. CASE Spec0(p).target \in Gateways
  <2>1. Spec0(p).target \notin Routes BY <1>2, NamesAssumption
  <2>2. QED BY <1>2, <2>1 DEF TargetFound, Sound, HasSection
<1>3. QED BY <1>1, <1>2

(* At rest a policy's route and that route's gateways are indexed, whether *)
(* valid, invalid or absent, so that what becomes of them wakes the        *)
(* controller up (resolveWithVirtualService, resolveHTTPRoute).            *)
THEOREM DependenciesAreWatched == Spec => []WatchesDependencies
<1>1. ASSUME IInv, Quiet, NEW p \in Policies, Live(p), Spec0(p).target \in Routes
      PROVE  /\ Spec0(p).target \in routeIndex
             /\ Sound(Spec0(p).target) /\ HasSection(p) => Named(api[Spec0(p).target]) \subseteq gwIndex
  <2>1. api[p] # Absent /\ phase = "idle" /\ ~queued BY <1>1 DEF Live, Quiet
  <2>2. cache = api /\ Resolved(p) /\ Targeting(cache[p].spec) BY <1>1, <2>1, LiveFacts
  <2>3. Spec0(p) = cache[p].spec /\ cache[p] # Absent BY <2>1, <2>2 DEF Spec0
  <2>4. Spec0(p).target \in routeIndex BY <1>1, <2>1, <2>3 DEF IInv, RoutesWatched
  <2>5. ASSUME Sound(Spec0(p).target), HasSection(p) PROVE Named(api[Spec0(p).target]) \subseteq gwIndex
    <3>1. TargetFound(Spec0(p)) BY <1>1, <2>2, <2>5, FoundAtRest
    <3>2. Spec0(p).target \notin Gateways BY <1>1, NamesAssumption
    <3>3. DependsOn(Spec0(p)) = Named(cache[Spec0(p).target]) BY <3>1, <3>2, <2>2, <2>3 DEF DependsOn
    <3>4. DependsOn(cache[p].spec) \subseteq Watched BY <2>1, <2>2, <1>1 DEF IInv, GatewaysWatched
    <3>5. QED BY <3>3, <3>4, <2>1, <2>2, <2>3 DEF Watched
  <2>6. QED BY <2>4, <2>5
<1>2. IInv => WatchesDependencies BY <1>1 DEF WatchesDependencies
<1>3. QED BY <1>2, Invariant, PTL

(* A gateway can be used where a route is attached to one of its servers.  *)
LEMMA SlotFacts ==
  ASSUME NEW y
  PROVE  y \in Slots <=> \E g \in Gateways : api[g] # Absent /\ \E i \in DOMAIN api[g].servers : y = <<g, i>>
BY DEF Slots, Existing

(* The specification of a route that exists.                               *)
LEMMA RouteSpecFacts ==
  ASSUME Typed(api), NEW R \in Routes, api[R] # Absent
  PROVE  /\ api[R].kind \in {"VirtualService", "HTTPRoute"}
         /\ Named(api[R]) \subseteq Gateways
         /\ api[R].kind = "HTTPRoute" => \A g \in Named(api[R]) : api[g] # Absent => api[g].valid
<1>1. R \in Names /\ R \notin Policies BY NamesAssumption DEF Names
<1>2. api[R] \in Given(R) BY <1>1, VersionsFacts DEF Typed
<1>3. \A g \in Gateways : api[g] # Absent => api[g] \in Given(g)
  BY NamesAssumption, VersionsFacts DEF Typed, Names
<1>4. /\ api[R].kind \in {"VirtualService", "HTTPRoute"} /\ Named(api[R]) \subseteq Gateways
      /\ api[R].kind = "HTTPRoute" => \A g \in Named(api[R]) : \A t \in Given(g) : t.valid
  BY <1>2, SpecsAssumption
<1>5. QED BY <1>3, <1>4

(* The specification of a gateway that exists.                             *)
LEMMA GatewaySpecFacts ==
  ASSUME Typed(api), NEW g \in Gateways, api[g] # Absent
  PROVE  /\ api[g].valid \in BOOLEAN
         /\ DOMAIN api[g].servers = 1..Len(api[g].servers) /\ Len(api[g].servers) \in Nat
         /\ api[g].valid => 1 \in DOMAIN api[g].servers
<1>1. api[g] \in Given(g) BY NamesAssumption, VersionsFacts DEF Typed, Names
<1> DEFINE ss == api[g].servers
           S == Range(ss)
<1>2. api[g].valid \in BOOLEAN /\ ss \in Seq(S) /\ (api[g].valid => ss # <<>>)
  BY <1>1, SpecsAssumption
<1> HIDE DEF S
<1>3. DOMAIN ss = 1..Len(ss) /\ Len(ss) \in Nat /\ (ss # <<>> => 1 \in DOMAIN ss) BY <1>2
<1>4. QED BY <1>2, <1>3

(* At rest a route has a gateway to be used if and only if it is attached  *)
(* to a server.                                                            *)
LEMMA AttachedAtRest ==
  ASSUME cache = api, Typed(api), NEW R \in Routes, api[R] # Absent
  PROVE  Attached(R) <=> HasGateway(R)
<1> DEFINE route == api[R]
           attached(g, s) ==
             IF route.kind = "HTTPRoute"
             THEN s.allows /\ \E ref \in route.gateways : ref.name = g /\ ref.section \in {"any", s.name}
             ELSE g \in route.gateways
           Good(y) == Sound(y[1]) /\ attached(y[1], ServerAt(y))
<1>1. api[R] # Absent OBVIOUS
<1>2. /\ route.kind \in {"VirtualService", "HTTPRoute"}
      /\ Named(route) \subseteq Gateways
      /\ route.kind = "HTTPRoute" => \A g \in Named(route) : api[g] # Absent => api[g].valid
  BY <1>1, RouteSpecFacts
<1>3. Attached(R) <=> \E y \in Slots : Good(y)
  <2>1. \A g, s : AttachedTo(R, g, s) <=> attached(g, s) BY DEF AttachedTo, IsRoute
  <2> HIDE DEF attached
  <2>2. QED BY <1>1, <2>1 DEF Attached, Servers
<1>4. ASSUME NEW g \in Gateways, api[g] # Absent, NEW i \in DOMAIN api[g].servers
      PROVE  <<g, i>> \in Slots /\ <<g, i>>[1] = g /\ ServerAt(<<g, i>>) = api[g].servers[i]
  BY <1>4, SlotFacts DEF ServerAt
<1>5. CASE route.kind = "VirtualService"
  <2>1. Named(route) = route.gateways BY <1>5 DEF Named
  <2>2. \A g : Usable(route, g) <=> api[g] # Absent /\ api[g].valid BY <1>5 DEF Usable
  <2>3. HasGateway(R) <=> \E g \in route.gateways : Sound(g) BY <2>1, <2>2 DEF HasGateway, Sound
  <2>4. \A y : Good(y) <=> Sound(y[1]) /\ y[1] \in route.gateways BY <1>5
  <2> HIDE DEF Good
  <2>5. ASSUME NEW g \in route.gateways, Sound(g) PROVE \E y \in Slots : Good(y)
    <3>1. g \in Gateways /\ api[g] # Absent /\ 1 \in DOMAIN api[g].servers
      BY <2>1, <2>5, <1>2, GatewaySpecFacts DEF Sound
    <3>2. <<g, 1>> \in Slots /\ <<g, 1>>[1] = g BY <3>1, <1>4
    <3>3. Good(<<g, 1>>) BY <3>2, <2>4, <2>5
    <3>4. QED BY <3>2, <3>3
  <2>6. QED BY <1>3, <2>3, <2>4, <2>5
<1>6. CASE route.kind = "HTTPRoute"
  <2>1. Named(route) = {ref.name : ref \in route.gateways} BY <1>6 DEF Named
  <2>2. ASSUME HasGateway(R) PROVE \E y \in Slots : Good(y)
    <3>1. PICK g \in Named(route) : Usable(route, g) BY <2>2 DEF HasGateway
    <3>2. api[g] # Absent /\ g \in Gateways /\ api[g].valid
      BY <3>1, <1>2, <1>6 DEF Usable
    <3>3. PICK ref \in route.gateways, i \in DOMAIN api[g].servers :
             /\ ref.name = g /\ ref.section \in {"any", api[g].servers[i].name}
             /\ api[g].servers[i].allows
      BY <3>1, <1>6 DEF Usable
    <3>4. <<g, i>> \in Slots /\ <<g, i>>[1] = g /\ ServerAt(<<g, i>>) = api[g].servers[i]
      BY <3>2, <1>4
    <3> DEFINE y == <<g, i>>
    <3>5. Good(y)
      <4>1. y[1] = g /\ ServerAt(y) = api[g].servers[i] BY <3>4
      <4> HIDE DEF y
      <4>2. Sound(y[1]) BY <4>1, <3>2 DEF Sound
      <4>3. QED BY <4>1, <4>2, <3>3, <1>6
    <3>6. QED BY <3>4, <3>5
  <2>3. ASSUME NEW y \in Slots, Good(y) PROVE HasGateway(R)
    <3>1. PICK g \in Gateways : api[g] # Absent /\ \E i \in DOMAIN api[g].servers : y = <<g, i>>
      BY SlotFacts
    <3>2. PICK i \in DOMAIN api[g].servers : y = <<g, i>> BY <3>1
    <3>3. y[1] = g /\ ServerAt(y) = api[g].servers[i] BY <3>2, <1>4, <3>1
    <3>4. attached(g, api[g].servers[i]) BY <3>3, <2>3
    <3>5. api[g].servers[i].allows /\ \E ref \in route.gateways : ref.name = g /\ ref.section \in {"any", api[g].servers[i].name}
      BY <3>4, <1>6
    <3>6. g \in Named(route) BY <3>5, <2>1
    <3>7. Usable(route, g) BY <3>1, <3>5, <1>6 DEF Usable
    <3>8. QED BY <3>6, <3>7 DEF HasGateway
  <2>4. QED BY <1>3, <2>2, <2>3
<1>7. QED BY <1>2, <1>5, <1>6

(* At rest the verdict on a policy is the reason asked for.                *)
LEMMA VerdictAtRest ==
  ASSUME cache = api, Typed(api), NEW p \in Policies, api[p] # Absent,
         Live(p) <=> Targeting(Spec0(p)), Live(p) => Spec0(p).target \in Routes \union Gateways,
         Live(p) /\ Spec0(p).target \in Gateways => lds
  PROVE  Verdict(Spec0(p)) = Reason(p)
<1> DEFINE s == Spec0(p)
           t == s.target
<1>1. CASE ~Live(p) BY <1>1 DEF Verdict, Reason
<1>2. CASE Live(p)
  <2>1. TargetFound(s) <=> Sound(t) /\ HasSection(p) BY <1>2, FoundAtRest
  <2>2. t \in Gateways => t \notin Routes BY NamesAssumption
  <2>3. t \in Routes /\ Sound(t) => (Attached(t) <=> HasGateway(t)) BY AttachedAtRest DEF Sound
  <2>4. Effective(p) <=> TargetFound(s) /\ (t \in Routes => HasGateway(t))
    BY <1>2, <2>1, <2>2, <2>3 DEF Effective
  <2>5. Verdict(s) = IF Effective(p) THEN "Accepted" ELSE "TargetNotFound"
    BY <1>2, <2>4 DEF Verdict
  <2>6. Reason(p) = IF Effective(p) THEN "Accepted" ELSE "TargetNotFound"
    <3> USE <1>2 DEF Reason
    <3>1. CASE Effective(p) BY <3>1
    <3>2. CASE ~Effective(p) BY <3>2
    <3>3. QED BY <3>1, <3>2
  <2>7. QED BY <2>5, <2>6
<1>3. QED BY <1>1, <1>2

(* At rest the condition of a policy tells what became of its current      *)
(* generation, unless the code has missed something (policyToTranslation-  *)
(* State, updatePolicies).                                                 *)
THEOREM StatusesAreTrue == Spec => []StatusIsTrue
<1>1. ASSUME IInv, Quiet, holes \intersect {"gateway", "status"} = {}, NEW p \in Policies,
             api[p] # Absent, Live(p) /\ Spec0(p).target \in Gateways => lds
      PROVE  api[p].status = [reason |-> Reason(p), gen |-> api[p].gen]
  <2>1. /\ cache = api /\ Written(p) /\ ~Pending(p)
        /\ Live(p) <=> Targeting(cache[p].spec)
        /\ Live(p) => Spec0(p).target \in Routes \union Gateways
    BY <1>1, LiveFacts
  <2>2. Spec0(p) = cache[p].spec /\ ~queued BY <2>1, <1>1 DEF Spec0, Quiet
  <2>3. Judged(cache[p].spec) BY <2>1, <2>2, <1>1 DEF Judged
  <2>4. Settled(p) BY <2>1, <2>2, <2>3, <1>1 DEF IInv, StatusesWritten
  <2>5. Typed(api) BY <1>1 DEF IInv
  <2>6. Verdict(Spec0(p)) = Reason(p) BY <1>1, <2>1, <2>2, <2>5, VerdictAtRest
  <2>7. api[p].status = [reason |-> Verdict(cache[p].spec), gen |-> cache[p].gen] BY <2>4 DEF Settled
  <2>8. Verdict(cache[p].spec) = Reason(p) BY <2>2, <2>6
  <2>9. QED BY <2>1, <2>7, <2>8
<1>2. IInv => StatusIsTrue BY <1>1 DEF StatusIsTrue
<1>3. QED BY <1>2, Invariant, PTL

-----------------------------------------------------------------------------
(* The smallest of numbers.                                                *)
LEMMA SmallestNumber ==
  ASSUME NEW T, T \subseteq Nat, T # {}
  PROVE  \E m \in T : \A k \in T : m <= k
<1> DEFINE R == {ss \in Nat \X Nat : ss[1] < ss[2]}
<1>1. PICK m \in T : \A k \in T : <<k, m>> \notin R
  <2>1. IsWellFoundedOn(R, Nat) BY NatLessThanWellFounded DEF OpToRel
  <2> HIDE DEF R
  <2>2. QED BY <2>1, WFMin
<1>2. \A k \in T : ~(k < m) BY <1>1
<1>3. QED BY <1>2

(* What has the smallest number, by one number, by two and by three.       *)
LEMMA FirstByOne ==
  ASSUME NEW S, S # {}, NEW f, \A x \in S : f[x] \in Nat
  PROVE  \E x \in S : \A y \in S : f[x] <= f[y]
<1> DEFINE T == {f[x] : x \in S}
<1>1. PICK m \in T : \A k \in T : m <= k
  <2>1. T \subseteq Nat /\ T # {} OBVIOUS
  <2> HIDE DEF T
  <2>2. QED BY <2>1, SmallestNumber
<1>2. QED BY <1>1

LEMMA FirstByTwo ==
  ASSUME NEW S, S # {}, NEW f, NEW g, \A x \in S : f[x] \in Nat /\ g[x] \in Nat
  PROVE  \E x \in S : \A y \in S : f[x] < f[y] \/ (f[x] = f[y] /\ g[x] <= g[y])
<1>1. PICK m \in S : \A y \in S : f[m] <= f[y] BY FirstByOne
<1> DEFINE T == {x \in S : f[x] = f[m]}
<1>2. PICK n \in T : \A y \in T : g[n] <= g[y]
  <2>1. T # {} /\ \A x \in T : g[x] \in Nat OBVIOUS
  <2> HIDE DEF T
  <2>2. QED BY <2>1, FirstByOne
<1>3. \A y \in S : f[n] < f[y] \/ (f[n] = f[y] /\ g[n] <= g[y]) BY <1>1, <1>2
<1>4. QED BY <1>2, <1>3

LEMMA FirstByThree ==
  ASSUME NEW S, S # {}, NEW f, NEW g, NEW h, \A x \in S : f[x] \in Nat /\ g[x] \in Nat /\ h[x] \in Nat
  PROVE  \E x \in S : \A y \in S :
           \/ f[x] < f[y]
           \/ f[x] = f[y] /\ g[x] < g[y]
           \/ f[x] = f[y] /\ g[x] = g[y] /\ h[x] <= h[y]
<1>1. PICK m \in S : \A y \in S : f[m] <= f[y] BY FirstByOne
<1> DEFINE T == {x \in S : f[x] = f[m]}
<1>2. PICK n \in T : \A y \in T : g[n] < g[y] \/ (g[n] = g[y] /\ h[n] <= h[y])
  <2>1. T # {} /\ \A x \in T : g[x] \in Nat /\ h[x] \in Nat OBVIOUS
  <2> HIDE DEF T
  <2>2. QED BY <2>1, FirstByTwo
<1>3. \A y \in S : \/ f[n] < f[y]
                   \/ f[n] = f[y] /\ g[n] < g[y]
                   \/ f[n] = f[y] /\ g[n] = g[y] /\ h[n] <= h[y]
  BY <1>1, <1>2
<1>4. QED BY <1>2, <1>3

-----------------------------------------------------------------------------
(* Hosts: what the translation matches is what overlaps.                   *)
LEMMA PrefixFacts ==
  ASSUME NEW s, NEW t, s \in Seq(Range(s)), t \in Seq(Range(t))
  PROVE  /\ Len(s) \in Nat /\ Len(t) \in Nat
         /\ IsPrefix(s, t) <=> Len(s) <= Len(t) /\ \A i \in 1..Len(s) : s[i] = t[i]
         /\ IsPrefix(s, t) /\ s # t => Len(s) < Len(t)
         /\ IsPrefix(s, t) /\ Len(s) < Len(t) => s # t
<1> DEFINE S == Range(s)
           T == Range(t)
<1>0. s \in Seq(S) /\ t \in Seq(T) OBVIOUS
<1> HIDE DEF S, T
<1>1. Len(s) \in Nat /\ Len(t) \in Nat /\ DOMAIN s = 1..Len(s) /\ DOMAIN t = 1..Len(t) BY <1>0
<1>2. s = t <=> Len(s) = Len(t) /\ \A i \in 1..Len(s) : s[i] = t[i]
  <2>1. s = [i \in 1..Len(s) |-> s[i]] /\ t = [i \in 1..Len(t) |-> t[i]] BY <1>0
  <2>2. ASSUME Len(s) = Len(t), \A i \in 1..Len(s) : s[i] = t[i] PROVE s = t
    <3>1. s = [i \in 1..Len(s) |-> t[i]] BY <2>1, <2>2
    <3>2. t = [i \in 1..Len(s) |-> t[i]] BY <2>1, <2>2
    <3>3. QED BY <3>1, <3>2
  <2>3. QED BY <2>2
<1>3. IsPrefix(s, t) <=> Len(s) <= Len(t) /\ \A i \in 1..Len(s) : s[i] = t[i]
  <2>1. CASE Len(s) <= Len(t)
    <3> DEFINE n == Len(s)
    <3>1. SubSeq(s, 1, n) = [i \in 1..n |-> s[i]] BY <1>0, <1>1
    <3>2. SubSeq(t, 1, n) = [i \in 1..n |-> t[i]] BY <1>0, <1>1, <2>1
    <3> HIDE DEF n
    <3>3. SubSeq(s, 1, n) = SubSeq(t, 1, n) <=> \A i \in 1..n : s[i] = t[i]
      BY <3>1, <3>2
    <3>4. QED BY <3>3, <2>1 DEF IsPrefix, n
  <2>2. CASE ~(Len(s) <= Len(t)) BY <2>2 DEF IsPrefix
  <2>3. QED BY <2>1, <2>2
<1>4. ASSUME IsPrefix(s, t), s # t PROVE Len(s) < Len(t)
  <2> DEFINE m == Len(s)
             n == Len(t)
  <2>1. m <= n /\ m # n BY <1>2, <1>3, <1>4
  <2>2. m \in Nat /\ n \in Nat BY <1>1
  <2> HIDE DEF m, n
  <2>3. m < n BY <2>1, <2>2
  <2>4. QED BY <2>3 DEF m, n
<1>5. Len(s) < Len(t) => s # t BY <1>1
<1>6. QED BY <1>1, <1>3, <1>4, <1>5

GoodHost(h) ==
  /\ h = [wild |-> h.wild, labels |-> h.labels] /\ h.wild \in BOOLEAN
  /\ h.labels \in Seq(Range(h.labels)) /\ (h.wild \/ h.labels # <<>>)
Covering(h) == \E d \in Domains : Covers(h, d)

(* One of two prefixes of a sequence is a prefix of the other.             *)
LEMMA PrefixesCompare ==
  ASSUME NEW s, NEW t, NEW d, s \in Seq(Range(s)), t \in Seq(Range(t)), d \in Seq(Range(d)),
         IsStrictPrefix(s, d), IsStrictPrefix(t, d)
  PROVE  IsPrefix(s, t) \/ IsPrefix(t, s)
<1>1. /\ Len(s) \in Nat /\ Len(t) \in Nat
      /\ IsPrefix(s, t) <=> Len(s) <= Len(t) /\ \A i \in 1..Len(s) : s[i] = t[i]
      /\ IsPrefix(t, s) <=> Len(t) <= Len(s) /\ \A i \in 1..Len(t) : t[i] = s[i]
  BY PrefixFacts
<1>2. /\ Len(s) <= Len(d) /\ \A i \in 1..Len(s) : s[i] = d[i]
      /\ Len(t) <= Len(d) /\ \A i \in 1..Len(t) : t[i] = d[i]
  BY PrefixFacts DEF IsStrictPrefix
<1>3. CASE Len(s) <= Len(t)
  <2>1. \A i \in 1..Len(s) : i \in 1..Len(t) BY <1>1, <1>3
  <2>2. QED BY <2>1, <1>1, <1>2, <1>3
<1>4. CASE Len(t) <= Len(s)
  <2>1. \A i \in 1..Len(t) : i \in 1..Len(s) BY <1>1, <1>4
  <2>2. QED BY <2>1, <1>1, <1>2, <1>4
<1>5. QED BY <1>1, <1>3, <1>4

(* What extends a prefix strictly extends what it is a prefix of.          *)
LEMMA PrefixExtends ==
  ASSUME NEW s, NEW t, NEW d, s \in Seq(Range(s)), t \in Seq(Range(t)), d \in Seq(Range(d)),
         IsPrefix(s, t), IsStrictPrefix(t, d)
  PROVE  IsStrictPrefix(s, d)
<1>1. /\ Len(s) \in Nat /\ Len(t) \in Nat /\ Len(d) \in Nat
      /\ Len(s) <= Len(t) /\ \A i \in 1..Len(s) : s[i] = t[i]
      /\ Len(t) < Len(d) /\ \A i \in 1..Len(t) : t[i] = d[i]
  BY PrefixFacts DEF IsStrictPrefix
<1>2. Len(s) < Len(d) /\ \A i \in 1..Len(s) : s[i] = d[i]
  <2>1. \A i \in 1..Len(s) : i \in 1..Len(t) BY <1>1
  <2>2. QED BY <2>1, <1>1
<1>3. IsPrefix(s, d) BY <1>1, <1>2, PrefixFacts
<1>4. QED BY <1>2, <1>3, PrefixFacts DEF IsStrictPrefix

(* The host of a server matches another if and only if they overlap.       *)
LEMMA MatchIsOverlap ==
  ASSUME NEW a, NEW b, GoodHost(a), GoodHost(b), Covering(a), Covering(b)
  PROVE  hostMatch(a, b) <=> Overlap(a, b)
<1>0. /\ a.wild \in BOOLEAN /\ b.wild \in BOOLEAN
      /\ a.labels \in Seq(Range(a.labels)) /\ b.labels \in Seq(Range(b.labels))
      /\ \A d \in Domains : d \in Seq(Range(d))
  BY DomainsAssumption DEF GoodHost
<1>1. CASE a.wild /\ b.wild
  <2>1. hostMatch(a, b) <=> IsPrefix(a.labels, b.labels) \/ IsPrefix(b.labels, a.labels)
    BY <1>1 DEF hostMatch
  <2>2. \A d : /\ Covers(a, d) <=> IsStrictPrefix(a.labels, d)
               /\ Covers(b, d) <=> IsStrictPrefix(b.labels, d)
    BY <1>1 DEF Covers
  <2>3. ASSUME Overlap(a, b) PROVE IsPrefix(a.labels, b.labels) \/ IsPrefix(b.labels, a.labels)
    <3>1. PICK d \in Domains : Covers(a, d) /\ Covers(b, d) BY <2>3 DEF Overlap
    <3>2. QED BY <3>1, <2>2, <1>0, PrefixesCompare
  <2>4. ASSUME IsPrefix(a.labels, b.labels) PROVE Overlap(a, b)
    <3>1. PICK d \in Domains : Covers(b, d) BY DEF Covering
    <3>2. Covers(a, d) BY <3>1, <2>2, <2>4, <1>0, PrefixExtends
    <3>3. QED BY <3>1, <3>2 DEF Overlap
  <2>5. ASSUME IsPrefix(b.labels, a.labels) PROVE Overlap(a, b)
    <3>1. PICK d \in Domains : Covers(a, d) BY DEF Covering
    <3>2. Covers(b, d) BY <3>1, <2>2, <2>5, <1>0, PrefixExtends
    <3>3. QED BY <3>1, <3>2 DEF Overlap
  <2>6. QED BY <2>1, <2>3, <2>4, <2>5
<1>2. CASE a.wild /\ ~b.wild
  <2>1. hostMatch(a, b) <=> IsStrictPrefix(a.labels, b.labels) BY <1>2 DEF hostMatch
  <2>2. \A d : /\ Covers(a, d) <=> IsStrictPrefix(a.labels, d)
               /\ Covers(b, d) <=> b.labels = d
    BY <1>2 DEF Covers
  <2>3. QED BY <2>1, <2>2 DEF Overlap, Covering
<1>3. CASE ~a.wild /\ b.wild
  <2>1. hostMatch(a, b) <=> IsStrictPrefix(b.labels, a.labels) BY <1>3 DEF hostMatch
  <2>2. \A d : /\ Covers(a, d) <=> a.labels = d
               /\ Covers(b, d) <=> IsStrictPrefix(b.labels, d)
    BY <1>3 DEF Covers
  <2>3. QED BY <2>1, <2>2 DEF Overlap, Covering
<1>4. CASE ~a.wild /\ ~b.wild
  <2>1. hostMatch(a, b) <=> a = b BY <1>4 DEF hostMatch
  <2>2. \A d : /\ Covers(a, d) <=> a.labels = d
               /\ Covers(b, d) <=> b.labels = d
    BY <1>4 DEF Covers
  <2>3. a = b <=> a.labels = b.labels
    <3>1. a = [wild |-> a.wild, labels |-> a.labels] /\ b = [wild |-> b.wild, labels |-> b.labels]
      BY DEF GoodHost
    <3>2. a.wild = b.wild BY <1>0, <1>4
    <3>3. QED BY <3>1, <3>2
  <2>4. QED BY <2>1, <2>2, <2>3 DEF Overlap, Covering
<1>5. QED BY <1>0, <1>1, <1>2, <1>3, <1>4

(* Any host overlaps all that cover a name.                                *)
LEMMA AnyHostFacts ==
  ASSUME NEW a, GoodHost(a), Covering(a)
  PROVE  GoodHost(AnyHost) /\ Covering(AnyHost)
<1>1. AnyHost.wild = TRUE /\ AnyHost.labels = <<>> BY DEF AnyHost
<1>2. <<>> \in Seq(Range(<<>>)) /\ Len(<<>>) = 0 OBVIOUS
<1>3. GoodHost(AnyHost) BY <1>1, <1>2 DEF GoodHost, AnyHost
<1>4. PICK d \in Domains : Covers(a, d) BY DEF Covering
<1>5. d \in Seq(Range(d)) /\ a.labels \in Seq(Range(a.labels)) BY DomainsAssumption DEF GoodHost
<1>6. Len(d) > 0
  <2>1. CASE a.wild
    <3>1. IsStrictPrefix(a.labels, d) BY <2>1, <1>4 DEF Covers
    <3>2. QED BY <3>1, <1>5, PrefixFacts DEF IsStrictPrefix
  <2>2. CASE ~a.wild
    <3>1. d # <<>> BY <2>2, <1>4 DEF Covers, GoodHost
    <3>2. QED BY <3>1, <1>5
  <2>3. QED BY <2>1, <2>2
<1>7. IsStrictPrefix(<<>>, d)
  <2> DEFINE e == <<>>
  <2>1. e \in Seq(Range(e)) /\ Len(e) = 0 BY <1>2
  <2> HIDE DEF e
  <2>2. IsPrefix(e, d)
    <3>1. Len(e) <= Len(d) /\ \A i \in 1..Len(e) : e[i] = d[i] BY <2>1, <1>6
    <3>2. IsPrefix(e, d) <=> Len(e) <= Len(d) /\ \A i \in 1..Len(e) : e[i] = d[i]
      BY <2>1, <1>5, PrefixFacts
    <3>3. QED BY <3>1, <3>2
  <2>3. e # d BY <2>1, <2>2, <1>5, <1>6, PrefixFacts
  <2>4. QED BY <2>2, <2>3 DEF IsStrictPrefix, e
<1>8. Covers(AnyHost, d) BY <1>1, <1>7 DEF Covers
<1>9. QED BY <1>3, <1>8 DEF Covering

-----------------------------------------------------------------------------
(* Precedence: what the translation merges is what wins.                   *)
LEMMA RankFacts ==
  ASSUME NEW seq, NEW x, x \in Range(seq)
  PROVE  Rank(seq, x) \in DOMAIN seq /\ seq[Rank(seq, x)] = x
BY DEF Rank, Range

(* The order of names.                                                     *)
LEMMA AlphabeticalFacts ==
  ASSUME NEW x \in Policies \union {"embedded"}, NEW y \in Policies \union {"embedded"}
  PROVE  /\ Rank(Alphabetical, x) \in Nat
         /\ Rank(Alphabetical, x) = Rank(Alphabetical, y) => x = y
<1>1. x \in Range(Alphabetical) /\ y \in Range(Alphabetical) BY AlphabeticalAssumption
<1>2. \A i \in DOMAIN Alphabetical : i \in Nat
  <2> DEFINE S == Range(Alphabetical)
  <2>1. Alphabetical \in Seq(S) BY AlphabeticalAssumption
  <2> HIDE DEF S
  <2>2. QED BY <2>1
<1>3. QED BY <1>1, <1>2, RankFacts

(* The order of scopes.                                                    *)
LEMMA ScopeFacts ==
  /\ Rank(Scopes, "Rule") = 1 /\ Rank(Scopes, "Route") = 2
  /\ Rank(Scopes, "Port") = 3 /\ Rank(Scopes, "Gateway") = 4
<1>1. /\ Scopes[1] = "Rule" /\ Scopes[2] = "Route" /\ Scopes[3] = "Port" /\ Scopes[4] = "Gateway"
      /\ DOMAIN Scopes = 1..4
  BY DEF Scopes
<1>2. \A x \in {"Rule", "Route", "Port", "Gateway"} : x \in Range(Scopes)
  BY <1>1 DEF Range
<1>3. \A x \in {"Rule", "Route", "Port", "Gateway"} : Rank(Scopes, x) \in 1..4 /\ Scopes[Rank(Scopes, x)] = x
  BY <1>1, <1>2, RankFacts
<1>4. \A i \in 1..4 : i = 1 \/ i = 2 \/ i = 3 \/ i = 4 OBVIOUS
<1>5. QED BY <1>1, <1>3, <1>4

(* Policies of two scopes, each of which has a policy once.                *)
Mergeable(W, high, low) ==
  /\ <<high, low>> \in {<<"Rule", "Route">>, <<"Port", "Gateway">>}
  /\ \A w \in W : /\ w.scope \in {high, low} /\ w.created \in Nat
                  /\ w.by \in Policies \union {"embedded"}
  /\ \A v, w \in W : v.scope = w.scope /\ v.by = w.by => v = w
SameAs(w, c, high) ==
  /\ c.age = w.created /\ c.name = w.by /\ c.filters = w.filters
  /\ c.specific = IF w.scope = high THEN 1 ELSE 0

(* Of policies there is a first one.                                       *)
LEMMA FirstPolicy ==
  ASSUME NEW W, W # {}, NEW high, NEW low, Mergeable(W, high, low)
  PROVE  \E w \in W : \A v \in W \ {w} : Precedes(w, v)
<1> DEFINE f == [w \in W |-> Rank(Scopes, w.scope)]
           g == [w \in W |-> w.created]
           h == [w \in W |-> Rank(Alphabetical, w.by)]
<1>1. \A w \in W : w.scope \in {"Rule", "Route", "Port", "Gateway"} BY DEF Mergeable
<1>2. \A w \in W : f[w] \in Nat /\ g[w] \in Nat /\ h[w] \in Nat
  <2>1. \A w \in W : f[w] \in Nat BY <1>1, ScopeFacts
  <2>2. \A w \in W : g[w] \in Nat BY DEF Mergeable
  <2>3. \A w \in W : h[w] \in Nat BY AlphabeticalFacts DEF Mergeable
  <2>4. QED BY <2>1, <2>2, <2>3
<1>3. PICK w \in W : \A v \in W : \/ f[w] < f[v]
                                  \/ f[w] = f[v] /\ g[w] < g[v]
                                  \/ f[w] = f[v] /\ g[w] = g[v] /\ h[w] <= h[v]
  <2>1. \A F, G, H : (\A x \in W : F[x] \in Nat /\ G[x] \in Nat /\ H[x] \in Nat) =>
          \E x \in W : \A y \in W :
             \/ F[x] < F[y]
             \/ F[x] = F[y] /\ G[x] < G[y]
             \/ F[x] = F[y] /\ G[x] = G[y] /\ H[x] <= H[y]
    BY FirstByThree
  <2> HIDE DEF f, g, h
  <2>2. QED BY <1>2, <2>1
<1>4. ASSUME NEW v \in W \ {w} PROVE Precedes(w, v)
  <2>1. v \in W /\ f[v] = Rank(Scopes, v.scope) /\ g[v] = v.created /\ h[v] = Rank(Alphabetical, v.by) OBVIOUS
  <2>2. f[w] = Rank(Scopes, w.scope) /\ g[w] = w.created /\ h[w] = Rank(Alphabetical, w.by) OBVIOUS
  <2>3. f[w] = f[v] => w.scope = v.scope BY <2>1, <2>2, <1>1, ScopeFacts
  <2>4. h[w] = h[v] => w.by = v.by BY <2>1, <2>2, AlphabeticalFacts DEF Mergeable
  <2>5. ~(w.scope = v.scope /\ w.by = v.by) BY DEF Mergeable
  <2>6. h[w] \in Nat /\ h[v] \in Nat BY <1>2
  <2>7. \/ f[w] < f[v]
        \/ f[w] = f[v] /\ g[w] < g[v]
        \/ f[w] = f[v] /\ g[w] = g[v] /\ h[w] <= h[v]
    BY <1>3
  <2> HIDE DEF f, g, h
  <2>8. \/ f[w] < f[v]
        \/ w.scope = v.scope /\ g[w] < g[v]
        \/ w.scope = v.scope /\ g[w] = g[v] /\ h[w] < h[v]
    BY <2>3, <2>4, <2>5, <2>6, <2>7
  <2>9. QED BY <2>1, <2>2, <2>8 DEF Precedes
<1>5. QED BY <1>4

(* Precedence decides who wins.                                            *)
LEMMA PrecedesWins ==
  ASSUME NEW w, NEW v, NEW c, NEW d, NEW high, NEW low, NEW W, Mergeable(W, high, low), w \in W, v \in W,
         SameAs(w, c, high), SameAs(v, d, high), Precedes(w, v)
  PROVE  Wins(c, d) /\ ~Wins(d, c)
<1>1. /\ w.scope \in {high, low} /\ v.scope \in {high, low} /\ high # low
      /\ Rank(Scopes, high) < Rank(Scopes, low)
      /\ Rank(Scopes, high) \in Nat /\ Rank(Scopes, low) \in Nat
  <2>1. (high = "Rule" /\ low = "Route") \/ (high = "Port" /\ low = "Gateway") BY DEF Mergeable
  <2>2. QED BY <2>1, ScopeFacts DEF Mergeable
<1>2. /\ c.age = w.created /\ d.age = v.created /\ c.name = w.by /\ d.name = v.by
      /\ c.specific = IF w.scope = high THEN 1 ELSE 0
      /\ d.specific = IF v.scope = high THEN 1 ELSE 0
      /\ c.age \in Nat /\ d.age \in Nat
  BY DEF SameAs, Mergeable
<1>3. /\ Rank(Alphabetical, w.by) \in Nat /\ Rank(Alphabetical, v.by) \in Nat
  BY AlphabeticalFacts DEF Mergeable
<1>4. \/ c.specific = 1 /\ d.specific = 0
      \/ c.specific = d.specific /\ c.age < d.age
      \/ c.specific = d.specific /\ c.age = d.age /\ Rank(Alphabetical, c.name) < Rank(Alphabetical, d.name)
  BY <1>1, <1>2 DEF Precedes
<1>5. QED BY <1>2, <1>3, <1>4 DEF Wins

(* What policies come to is what is in force of the configurations.        *)
LEMMA MergedIsInForce ==
  ASSUME NEW W, NEW C, NEW high, NEW low, Mergeable(W, high, low),
         \A w \in W : \E c \in C : SameAs(w, c, high),
         \A c \in C : \E w \in W : SameAs(w, c, high)
  PROVE  toMergedPolicy(W).filters = InForce(C)
<1> DEFINE plugins == UNION {DOMAIN w.filters : w \in W}
           having(f) == {w \in W : f \in DOMAIN w.filters}
           first == [f \in plugins |-> CHOOSE w \in having(f) : \A v \in having(f) \ {w} : Precedes(w, v)]
           filters == [f \in plugins |-> first[f].filters[f]]
           rivals(f) == {c \in C : f \in DOMAIN c.filters}
           winner(f) == CHOOSE c \in rivals(f) : \A d \in rivals(f) : Wins(c, d)
<1>1. toMergedPolicy(W).filters = filters BY DEF toMergedPolicy
<1>2. plugins = UNION {DOMAIN c.filters : c \in C}
  <2>1. \A f : f \in plugins <=> \E w \in W : f \in DOMAIN w.filters OBVIOUS
  <2>2. \A f : f \in UNION {DOMAIN c.filters : c \in C} <=> \E c \in C : f \in DOMAIN c.filters OBVIOUS
  <2>3. \A f : (\E w \in W : f \in DOMAIN w.filters) <=> \E c \in C : f \in DOMAIN c.filters
    BY DEF SameAs
  <2>4. \A f : f \in plugins <=> f \in UNION {DOMAIN c.filters : c \in C} BY <2>1, <2>2, <2>3
  <2>5. QED BY <2>4
<1>3. InForce(C) = [f \in plugins |-> winner(f).filters[f]] BY <1>2 DEF InForce
<1>4. ASSUME NEW f \in plugins PROVE first[f].filters[f] = winner(f).filters[f]
  <2> DEFINE H == having(f)
             R == rivals(f)
             w0 == CHOOSE w \in H : \A v \in H \ {w} : Precedes(w, v)
             c1 == CHOOSE c \in R : \A d \in R : Wins(c, d)
  <2>0. first[f] = w0 /\ winner(f) = c1 OBVIOUS
  <2>1. H # {} /\ H \subseteq W OBVIOUS
  <2>2. /\ \A w \in H : \E c \in R : SameAs(w, c, high)
        /\ \A c \in R : \E w \in H : SameAs(w, c, high)
    BY DEF SameAs
  <2>3. Mergeable(H, high, low) BY <2>1 DEF Mergeable
  <2> HIDE DEF H, R
  <2>4. w0 \in H /\ \A v \in H \ {w0} : Precedes(w0, v) BY <2>1, <2>3, FirstPolicy
  <2> HIDE DEF w0
  <2>5. PICK c0 \in R : SameAs(w0, c0, high) BY <2>2, <2>4
  <2>6. \A d \in R : Wins(c0, d)
    <3>1. TAKE d \in R
    <3>2. PICK v \in H : SameAs(v, d, high) BY <2>2
    <3>3. CASE v = w0 BY <3>2, <3>3, <2>5 DEF SameAs, Wins
    <3>4. CASE v # w0
      <4>1. Precedes(w0, v) BY <3>4, <2>4
      <4>2. QED BY <4>1, <3>2, <2>3, <2>4, <2>5, PrecedesWins
    <3>5. QED BY <3>3, <3>4
  <2>7. c1 \in R /\ \A d \in R : Wins(c1, d) BY <2>6
  <2> HIDE DEF c1
  <2>8. PICK w1 \in H : SameAs(w1, c1, high) BY <2>2, <2>7
  <2>9. w1 = w0
    <3>1. SUFFICES ASSUME w1 # w0 PROVE FALSE OBVIOUS
    <3>2. Precedes(w0, w1) BY <3>1, <2>4
    <3>3. ~Wins(c1, c0) BY <3>2, <2>3, <2>4, <2>5, <2>8, PrecedesWins
    <3>4. QED BY <3>3, <2>7
  <2>10. c1.filters = w0.filters BY <2>8, <2>9 DEF SameAs
  <2>11. QED BY <2>0, <2>10
<1> HIDE DEF plugins, first, winner
<1>5. filters = [f \in plugins |-> winner(f).filters[f]] BY <1>4
<1>6. QED BY <1>1, <1>3, <1>5

-----------------------------------------------------------------------------
(* What a reconciliation should have collected, of the copies: for each    *)
(* route with an accepted policy, or with an annotation and a gateway, its *)
(* gateways to be used, and the policies for its routes.                   *)
Chosen(done, t) ==
  {p \in done : cache[p] # Absent /\ cache[p].spec.target = t /\ Verdict(cache[p].spec) = "Accepted"}
InUse(R) == {g \in Named(cache[R]) : Usable(cache[R], g)}
AppliedTo(p, R) == RoutePolicies(Translated(p, cache[p]), cache[R])
Applied(done, R) == UNION {AppliedTo(p, R) : p \in Chosen(done, R)}
EmbeddedFor(R) == IF R \in Hosts THEN RoutePolicies(Embedded(cache[R]), cache[R]) ELSE {}
EntryOf(route, gws, policies) == [route |-> route, gws |-> gws, policies |-> policies]
RouteEntry(R, entry, policies) ==
  /\ entry.route = cache[R] /\ entry.gws = {cache[g] : g \in InUse(R)} /\ entry.policies = policies
  /\ entry = EntryOf(entry.route, entry.gws, entry.policies)
RoutesComplete(routes) ==
  /\ DOMAIN routes = {R \in Routes : Chosen(Policies, R) # {} \/ (R \in Hosts /\ HasGateway(R))}
  /\ \A R \in DOMAIN routes : RouteEntry(R, routes[R], Applied(Policies, R) \union EmbeddedFor(R))

AtRest == cache = api /\ Typed(api)

(* The policies chosen are those in effect.                                *)
LEMMA ChosenAtRest ==
  ASSUME AtRest, NEW t, t \in Routes \/ (t \in Gateways /\ lds)
  PROVE  Chosen(Policies, t) = PoliciesOf(t)
<1>1. ASSUME NEW p \in Policies
      PROVE  p \in Chosen(Policies, t) <=> p \in PoliciesOf(t)
  <2>1. CASE api[p] # Absent /\ Spec0(p).target = t
    <3>1. t # Absent /\ t \in Names BY NamesAssumption DEF Names
    <3>2. Live(p) <=> Targeting(Spec0(p)) BY <2>1 DEF Live, Targeting
    <3>3. Verdict(Spec0(p)) = Reason(p)
      BY <2>1, <3>2, VerdictAtRest, NamesAssumption DEF AtRest
    <3>4. Reason(p) = "Accepted" <=> Effective(p)
      <4>1. CASE ~Live(p) BY <4>1 DEF Reason, Effective
      <4>2. CASE Live(p) /\ Effective(p) BY <4>2 DEF Reason
      <4>3. CASE Live(p) /\ ~Effective(p) BY <4>3 DEF Reason
      <4>4. QED BY <4>1, <4>2, <4>3
    <3>5. cache[p] = api[p] /\ cache[p].spec = Spec0(p) BY DEF AtRest, Spec0
    <3>6. QED BY <2>1, <3>3, <3>4, <3>5 DEF Chosen, PoliciesOf
  <2>2. CASE ~(api[p] # Absent /\ Spec0(p).target = t)
    <3>1. cache[p] = api[p] /\ cache[p].spec = Spec0(p) BY DEF AtRest, Spec0
    <3>2. QED BY <2>2, <3>1 DEF Chosen, PoliciesOf, Effective, Live
  <2>3. QED BY <2>1, <2>2
<1>2. QED BY <1>1 DEF Chosen, PoliciesOf

(* The routes collected are those with something to apply.                 *)
LEMMA TargetedAtRest ==
  ASSUME AtRest, NEW R \in Routes
  PROVE  /\ Chosen(Policies, R) # {} \/ (R \in Hosts /\ HasGateway(R)) <=> Targeted(R)
         /\ Targeted(R) => api[R] # Absent /\ (R \in Hosts <=> HasAnnotation(R))
<1>1. Chosen(Policies, R) = PoliciesOf(R) BY ChosenAtRest
<1>2. \A p \in PoliciesOf(R) : Attached(R) BY DEF PoliciesOf, Effective
<1>3. api[R] # Absent => (Attached(R) <=> HasGateway(R)) BY AttachedAtRest DEF AtRest
<1>4. Attached(R) => api[R] # Absent BY DEF Attached
<1>5. ASSUME api[R] # Absent PROVE R \in Hosts <=> HasAnnotation(R)
  <2>1. R \notin Policies BY NamesAssumption
  <2>2. api[R].kind \in {"VirtualService", "HTTPRoute"} BY <1>5, RouteSpecFacts DEF AtRest
  <2>3. cache[R] = api[R] BY DEF AtRest
  <2>4. QED BY <1>5, <2>1, <2>2, <2>3 DEF Hosts, HasEmbedded, HasAnnotation, Existing
<1>6. R \in Hosts => api[R] # Absent BY HostsFacts DEF AtRest
<1>7. QED BY <1>1, <1>2, <1>3, <1>4, <1>5, <1>6 DEF Targeted

(* What one policy gives the routes of a resource.                         *)
Grants(policy, routes, r, w) ==
  \/ policy.section = "any" /\ r \in routes /\ w = Wrapper(policy, "Route", policy.filters)
  \/ /\ policy.section = "any" /\ r \in routes /\ r \in DOMAIN policy.sub
     /\ w = Wrapper(policy, "Rule", policy.sub[r])
  \/ policy.section # "any" /\ r = policy.section /\ w = Wrapper(policy, "Rule", policy.filters)

LEMMA RoutePoliciesFacts ==
  ASSUME NEW policy, NEW route, route.kind \in {"VirtualService", "HTTPRoute"},
         route.kind = "HTTPRoute" => policy.section = "any" /\ DOMAIN policy.sub = {}
  PROVE  /\ \A x \in RoutePolicies(policy, route) : x = <<x[1], x[2]>>
         /\ \A r, w : <<r, w>> \in RoutePolicies(policy, route) <=> Grants(policy, route.routes, r, w)
<1> DEFINE whole == {<<r, Wrapper(policy, "Route", policy.filters)>> : r \in route.routes}
           sub == {<<r, Wrapper(policy, "Rule", policy.sub[r])>> : r \in route.routes \intersect DOMAIN policy.sub}
           one == {<<policy.section, Wrapper(policy, "Rule", policy.filters)>>}
<1>1. /\ \A r, w : <<r, w>> \in whole <=> r \in route.routes /\ w = Wrapper(policy, "Route", policy.filters)
      /\ \A x \in whole : x = <<x[1], x[2]>>
  OBVIOUS
<1>2. /\ \A r, w : <<r, w>> \in sub <=>
            r \in route.routes /\ r \in DOMAIN policy.sub /\ w = Wrapper(policy, "Rule", policy.sub[r])
      /\ \A x \in sub : x = <<x[1], x[2]>>
  OBVIOUS
<1>3. /\ \A r, w : <<r, w>> \in one <=> r = policy.section /\ w = Wrapper(policy, "Rule", policy.filters)
      /\ \A x \in one : x = <<x[1], x[2]>>
  OBVIOUS
<1>4. RoutePolicies(policy, route) = CASE route.kind = "HTTPRoute" -> whole
       [] route.kind = "VirtualService" /\ policy.section = "any" -> whole \union sub
       [] route.kind = "VirtualService" /\ policy.section # "any" -> one
  BY DEF RoutePolicies
<1> HIDE DEF whole, sub, one
<1>5. CASE route.kind = "HTTPRoute"
  <2>1. RoutePolicies(policy, route) = whole BY <1>4, <1>5
  <2>2. QED BY <2>1, <1>1, <1>5 DEF Grants
<1>6. CASE route.kind = "VirtualService" /\ policy.section = "any"
  <2>1. RoutePolicies(policy, route) = whole \union sub BY <1>4, <1>6
  <2>2. QED BY <2>1, <1>1, <1>2, <1>6 DEF Grants
<1>7. CASE route.kind = "VirtualService" /\ policy.section # "any"
  <2>1. RoutePolicies(policy, route) = one BY <1>4, <1>7
  <2>2. QED BY <2>1, <1>3, <1>7 DEF Grants
<1>8. QED BY <1>5, <1>6, <1>7

(* What all policies of a route resource give its routes.                  *)
Gives(R, r, w) ==
  \/ \E p \in PoliciesOf(R) : Grants(Translated(p, api[p]), api[R].routes, r, w)
  \/ HasAnnotation(R) /\ Grants(Embedded(api[R]), api[R].routes, r, w)

(* A policy in effect on a route.                                          *)
LEMMA PolicyOfRoute ==
  ASSUME AtRest, NEW R \in Routes, NEW p \in PoliciesOf(R)
  PROVE  /\ p \in Policies /\ api[p] # Absent /\ api[R] # Absent /\ Spec0(p) = api[p].spec
         /\ api[p].created \in Nat
         /\ api[R].kind = "HTTPRoute" => Spec0(p).section = "any" /\ DOMAIN Spec0(p).sub = {}
         /\ Spec0(p).section = "any" \/ Spec0(p).section \in api[R].routes
         /\ "any" \notin api[R].routes
<1>1. /\ p \in Policies /\ api[p] # Absent /\ Spec0(p).target = R /\ Spec0(p).valid
      /\ api[R] # Absent /\ HasSection(p)
  BY DEF PoliciesOf, Effective, Live, Sound
<1>2. p \in Names /\ R \in Names /\ R \notin Policies /\ R \notin Gateways BY <1>1, NamesAssumption DEF Names
<1>3. api[p] \in PolicyVersions(p) BY <1>1, <1>2, VersionsFacts DEF AtRest, Typed
<1>4. api[p].created \in Nat /\ api[p].spec \in Given(p) BY <1>1, <1>3, PolicyVersionFacts
<1>5. api[R] \in Given(R) BY <1>1, <1>2, VersionsFacts DEF AtRest, Typed
<1>6. Spec0(p) = api[p].spec BY DEF Spec0
<1>7. "any" \notin api[R].routes BY <1>5, SectionsAssumption
<1>8. ASSUME api[R].kind = "HTTPRoute" PROVE Spec0(p).section = "any" /\ DOMAIN Spec0(p).sub = {}
  BY <1>1, <1>4, <1>5, <1>6, <1>8, SectionsAssumption
<1>9. Spec0(p).section = "any" \/ Spec0(p).section \in api[R].routes BY <1>1, <1>2 DEF HasSection
<1>10. QED BY <1>1, <1>4, <1>6, <1>7, <1>8, <1>9

(* What is collected for a route is what its policies give.                *)
LEMMA AppliedAtRest ==
  ASSUME AtRest, NEW R \in Routes, Targeted(R), NEW policies, policies = Applied(Policies, R) \union EmbeddedFor(R)
  PROVE  /\ \A x \in policies : x = <<x[1], x[2]>>
         /\ \A r, w : <<r, w>> \in policies <=> Gives(R, r, w)
<1>1. api[R] # Absent /\ (R \in Hosts <=> HasAnnotation(R)) /\ Chosen(Policies, R) = PoliciesOf(R)
  BY TargetedAtRest, ChosenAtRest
<1>2. api[R].kind \in {"VirtualService", "HTTPRoute"} BY <1>1, RouteSpecFacts DEF AtRest
<1>3. ASSUME NEW p \in PoliciesOf(R)
      PROVE  /\ \A x \in AppliedTo(p, R) : x = <<x[1], x[2]>>
             /\ \A r, w : <<r, w>> \in AppliedTo(p, R) <=> Grants(Translated(p, api[p]), api[R].routes, r, w)
  <2> DEFINE policy == Translated(p, api[p])
  <2>1. policy.section = Spec0(p).section /\ policy.sub = Spec0(p).sub BY DEF Translated, Spec0
  <2>2. api[R].kind = "HTTPRoute" => policy.section = "any" /\ DOMAIN policy.sub = {}
    BY <2>1, PolicyOfRoute
  <2>3. AppliedTo(p, R) = RoutePolicies(policy, api[R]) BY DEF AppliedTo, AtRest
  <2> HIDE DEF policy
  <2>4. /\ \A x \in RoutePolicies(policy, api[R]) : x = <<x[1], x[2]>>
        /\ \A r, w : <<r, w>> \in RoutePolicies(policy, api[R]) <=> Grants(policy, api[R].routes, r, w)
    BY <2>2, <1>2, RoutePoliciesFacts
  <2>5. QED BY <2>3, <2>4 DEF policy
<1>4. ASSUME HasAnnotation(R)
      PROVE  /\ \A x \in EmbeddedFor(R) : x = <<x[1], x[2]>>
             /\ \A r, w : <<r, w>> \in EmbeddedFor(R) <=> Grants(Embedded(api[R]), api[R].routes, r, w)
  <2> DEFINE policy == Embedded(api[R])
  <2>1. policy.section = "any" BY DEF Embedded
  <2>2. api[R].kind = "VirtualService" BY <1>2, <1>4 DEF HasAnnotation
  <2>3. EmbeddedFor(R) = RoutePolicies(policy, api[R]) BY <1>1, <1>4 DEF EmbeddedFor, AtRest
  <2> HIDE DEF policy
  <2>4. /\ \A x \in RoutePolicies(policy, api[R]) : x = <<x[1], x[2]>>
        /\ \A r, w : <<r, w>> \in RoutePolicies(policy, api[R]) <=> Grants(policy, api[R].routes, r, w)
    BY <2>2, <1>2, RoutePoliciesFacts
  <2>5. QED BY <2>3, <2>4 DEF policy
<1>5. ~HasAnnotation(R) => EmbeddedFor(R) = {} BY <1>1 DEF EmbeddedFor
<1>6. \A x : x \in policies <=> (\E p \in PoliciesOf(R) : x \in AppliedTo(p, R)) \/ x \in EmbeddedFor(R)
  BY <1>1 DEF Applied
<1>7. \A x \in policies : x = <<x[1], x[2]>> BY <1>3, <1>4, <1>5, <1>6
<1>8. \A r, w : <<r, w>> \in policies <=> Gives(R, r, w)
  <2>1. ASSUME NEW r, NEW w PROVE <<r, w>> \in policies <=> Gives(R, r, w)
    <3>2. <<r, w>> \in policies <=> (\E p \in PoliciesOf(R) : <<r, w>> \in AppliedTo(p, R)) \/ <<r, w>> \in EmbeddedFor(R)
      BY <1>6
    <3>3. \A p \in PoliciesOf(R) : <<r, w>> \in AppliedTo(p, R) <=> Grants(Translated(p, api[p]), api[R].routes, r, w)
      BY <1>3
    <3>4. <<r, w>> \in EmbeddedFor(R) <=> HasAnnotation(R) /\ Grants(Embedded(api[R]), api[R].routes, r, w)
      BY <1>4, <1>5
    <3>5. QED BY <3>2, <3>3, <3>4 DEF Gives
  <2>2. QED BY <2>1, ZenonT(30)
<1>9. QED BY <1>7, <1>8

(* A policy as the translation sees it, and as a configuration.            *)
LEMMA WrapperFacts ==
  ASSUME NEW policy, NEW scope, NEW filters
  PROVE  /\ Wrapper(policy, scope, filters).by = policy.name
         /\ Wrapper(policy, scope, filters).created = policy.created
         /\ Wrapper(policy, scope, filters).scope = scope
         /\ Wrapper(policy, scope, filters).filters = filters
BY DEF Wrapper

LEMMA ConfigFacts ==
  ASSUME NEW p, NEW specific, NEW filters
  PROVE  /\ Config(specific, p, filters).specific = specific /\ Config(specific, p, filters).age = api[p].created
         /\ Config(specific, p, filters).name = p /\ Config(specific, p, filters).filters = filters
         /\ OfAnnotation(specific, filters).specific = specific /\ OfAnnotation(specific, filters).age = 0
         /\ OfAnnotation(specific, filters).name = "embedded" /\ OfAnnotation(specific, filters).filters = filters
BY DEF Config, OfAnnotation

LEMMA TranslatedFacts ==
  ASSUME NEW p, NEW R
  PROVE  /\ Translated(p, api[p]).name = p /\ Translated(p, api[p]).created = api[p].created
         /\ Translated(p, api[p]).section = Spec0(p).section /\ Translated(p, api[p]).filters = Spec0(p).filters
         /\ Translated(p, api[p]).sub = Spec0(p).sub
         /\ Embedded(api[R]).name = "embedded" /\ Embedded(api[R]).created = 0
         /\ Embedded(api[R]).section = "any" /\ Embedded(api[R]).filters = api[R].embedded.filters
         /\ Embedded(api[R]).sub = api[R].embedded.sub
BY DEF Translated, Embedded, Spec0

(* What the policies of a route give it are the configurations of the      *)
(* route.                                                                  *)
LEMMA RouteConfigsFacts ==
  ASSUME NEW R, NEW r, NEW c
  PROVE  c \in RouteConfigs(R, r) <=>
           \/ \E p \in PoliciesOf(R) : Spec0(p).section = "any" /\ c = Config(0, p, Spec0(p).filters)
           \/ \E p \in PoliciesOf(R) : /\ Spec0(p).section = "any" /\ r \in DOMAIN Spec0(p).sub
                                       /\ c = Config(1, p, Spec0(p).sub[r])
           \/ \E p \in PoliciesOf(R) : Spec0(p).section = r /\ c = Config(1, p, Spec0(p).filters)
           \/ HasAnnotation(R) /\ c = OfAnnotation(0, api[R].embedded.filters)
           \/ /\ HasAnnotation(R) /\ r \in DOMAIN api[R].embedded.sub
              /\ c = OfAnnotation(1, api[R].embedded.sub[r])
<1> DEFINE E == IF ~HasAnnotation(R) THEN {}
            ELSE {OfAnnotation(0, api[R].embedded.filters)}
                 \union {OfAnnotation(1, api[R].embedded.sub[s]) : s \in {r} \intersect DOMAIN api[R].embedded.sub}
           whole == {p \in PoliciesOf(R) : Spec0(p).section = "any"}
<1>1. c \in E <=> \/ HasAnnotation(R) /\ c = OfAnnotation(0, api[R].embedded.filters)
                  \/ /\ HasAnnotation(R) /\ r \in DOMAIN api[R].embedded.sub
                     /\ c = OfAnnotation(1, api[R].embedded.sub[r])
  OBVIOUS
<1>2. RouteConfigs(R, r) =
        {Config(0, p, Spec0(p).filters) : p \in whole}
        \union {Config(1, p, Spec0(p).sub[r]) : p \in {q \in whole : r \in DOMAIN Spec0(q).sub}}
        \union {Config(1, p, Spec0(p).filters) : p \in {q \in PoliciesOf(R) : Spec0(q).section = r}}
        \union E
  BY DEF RouteConfigs
<1> HIDE DEF E
<1>3. QED BY <1>1, <1>2

LEMMA GivenConfigs ==
  ASSUME AtRest, NEW R \in Routes, NEW r, NEW w, Gives(R, r, w)
  PROVE  r \in api[R].routes /\ \E c \in RouteConfigs(R, r) : SameAs(w, c, "Rule")
<1>1. CASE \E p \in PoliciesOf(R) : Grants(Translated(p, api[p]), api[R].routes, r, w)
  <2>1. PICK p \in PoliciesOf(R) : Grants(Translated(p, api[p]), api[R].routes, r, w) BY <1>1
  <2> DEFINE policy == Translated(p, api[p])
  <2>2. /\ policy.name = p /\ policy.created = api[p].created /\ policy.section = Spec0(p).section
        /\ policy.filters = Spec0(p).filters /\ policy.sub = Spec0(p).sub
    BY TranslatedFacts
  <2>3. Spec0(p).section = "any" \/ Spec0(p).section \in api[R].routes BY PolicyOfRoute
  <2> HIDE DEF policy
  <2>4. Grants(policy, api[R].routes, r, w) BY <2>1 DEF policy
  <2>5. CASE policy.section = "any" /\ r \in api[R].routes /\ w = Wrapper(policy, "Route", policy.filters)
    <3>1. SameAs(w, Config(0, p, Spec0(p).filters), "Rule")
      BY <2>2, <2>5, WrapperFacts, ConfigFacts DEF SameAs
    <3>2. Config(0, p, Spec0(p).filters) \in RouteConfigs(R, r) BY <2>2, <2>5, RouteConfigsFacts
    <3>3. QED BY <3>1, <3>2, <2>5
  <2>6. CASE /\ policy.section = "any" /\ r \in api[R].routes /\ r \in DOMAIN policy.sub
             /\ w = Wrapper(policy, "Rule", policy.sub[r])
    <3>1. SameAs(w, Config(1, p, Spec0(p).sub[r]), "Rule")
      BY <2>2, <2>6, WrapperFacts, ConfigFacts DEF SameAs
    <3>2. Config(1, p, Spec0(p).sub[r]) \in RouteConfigs(R, r) BY <2>2, <2>6, RouteConfigsFacts
    <3>3. QED BY <3>1, <3>2, <2>6
  <2>7. CASE policy.section # "any" /\ r = policy.section /\ w = Wrapper(policy, "Rule", policy.filters)
    <3>1. SameAs(w, Config(1, p, Spec0(p).filters), "Rule")
      BY <2>2, <2>7, WrapperFacts, ConfigFacts DEF SameAs
    <3>2. Config(1, p, Spec0(p).filters) \in RouteConfigs(R, r) BY <2>2, <2>7, RouteConfigsFacts
    <3>3. QED BY <3>1, <3>2, <2>2, <2>3, <2>7
  <2>8. QED BY <2>4, <2>5, <2>6, <2>7 DEF Grants
<1>2. CASE HasAnnotation(R) /\ Grants(Embedded(api[R]), api[R].routes, r, w)
  <2> DEFINE policy == Embedded(api[R])
  <2>1. /\ policy.name = "embedded" /\ policy.created = 0 /\ policy.section = "any"
        /\ policy.filters = api[R].embedded.filters /\ policy.sub = api[R].embedded.sub
    BY TranslatedFacts
  <2> HIDE DEF policy
  <2>2. Grants(policy, api[R].routes, r, w) BY <1>2 DEF policy
  <2>3. CASE r \in api[R].routes /\ w = Wrapper(policy, "Route", policy.filters)
    <3>1. SameAs(w, OfAnnotation(0, api[R].embedded.filters), "Rule")
      BY <2>1, <2>3, WrapperFacts, ConfigFacts DEF SameAs
    <3>2. OfAnnotation(0, api[R].embedded.filters) \in RouteConfigs(R, r) BY <1>2, RouteConfigsFacts
    <3>3. QED BY <3>1, <3>2, <2>3
  <2>4. CASE r \in api[R].routes /\ r \in DOMAIN policy.sub /\ w = Wrapper(policy, "Rule", policy.sub[r])
    <3>1. SameAs(w, OfAnnotation(1, api[R].embedded.sub[r]), "Rule")
      BY <2>1, <2>4, WrapperFacts, ConfigFacts DEF SameAs
    <3>2. OfAnnotation(1, api[R].embedded.sub[r]) \in RouteConfigs(R, r) BY <1>2, <2>1, <2>4, RouteConfigsFacts
    <3>3. QED BY <3>1, <3>2, <2>4
  <2>5. QED BY <2>1, <2>2, <2>3, <2>4 DEF Grants
<1>3. QED BY <1>1, <1>2 DEF Gives

LEMMA ConfigsGiven ==
  ASSUME AtRest, NEW R \in Routes, NEW r \in api[R].routes, NEW c \in RouteConfigs(R, r)
  PROVE  \E w : Gives(R, r, w) /\ SameAs(w, c, "Rule")
<1> DEFINE T(p) == Translated(p, api[p])
           E == Embedded(api[R])
<1>1. ASSUME NEW p \in PoliciesOf(R), Spec0(p).section = "any", c = Config(0, p, Spec0(p).filters)
      PROVE  \E w : Gives(R, r, w) /\ SameAs(w, c, "Rule")
  <2> DEFINE w == Wrapper(T(p), "Route", T(p).filters)
  <2>1. SameAs(w, c, "Rule") BY <1>1, TranslatedFacts, WrapperFacts, ConfigFacts DEF SameAs
  <2>2. Gives(R, r, w) BY <1>1, TranslatedFacts DEF Gives, Grants
  <2>3. QED BY <2>1, <2>2
<1>2. ASSUME NEW p \in PoliciesOf(R), Spec0(p).section = "any", r \in DOMAIN Spec0(p).sub,
             c = Config(1, p, Spec0(p).sub[r])
      PROVE  \E w : Gives(R, r, w) /\ SameAs(w, c, "Rule")
  <2> DEFINE w == Wrapper(T(p), "Rule", T(p).sub[r])
  <2>1. SameAs(w, c, "Rule") BY <1>2, TranslatedFacts, WrapperFacts, ConfigFacts DEF SameAs
  <2>2. Gives(R, r, w) BY <1>2, TranslatedFacts DEF Gives, Grants
  <2>3. QED BY <2>1, <2>2
<1>3. ASSUME NEW p \in PoliciesOf(R), Spec0(p).section = r, c = Config(1, p, Spec0(p).filters)
      PROVE  \E w : Gives(R, r, w) /\ SameAs(w, c, "Rule")
  <2> DEFINE w == Wrapper(T(p), "Rule", T(p).filters)
  <2>1. SameAs(w, c, "Rule") BY <1>3, TranslatedFacts, WrapperFacts, ConfigFacts DEF SameAs
  <2>2. Spec0(p).section # "any" BY <1>3, PolicyOfRoute
  <2>3. Gives(R, r, w) BY <1>3, <2>2, TranslatedFacts DEF Gives, Grants
  <2>4. QED BY <2>1, <2>3
<1>4. ASSUME HasAnnotation(R), c = OfAnnotation(0, api[R].embedded.filters)
      PROVE  \E w : Gives(R, r, w) /\ SameAs(w, c, "Rule")
  <2> DEFINE w == Wrapper(E, "Route", E.filters)
  <2>1. SameAs(w, c, "Rule") BY <1>4, TranslatedFacts, WrapperFacts, ConfigFacts DEF SameAs
  <2>2. Gives(R, r, w) BY <1>4, TranslatedFacts DEF Gives, Grants
  <2>3. QED BY <2>1, <2>2
<1>5. ASSUME HasAnnotation(R), r \in DOMAIN api[R].embedded.sub, c = OfAnnotation(1, api[R].embedded.sub[r])
      PROVE  \E w : Gives(R, r, w) /\ SameAs(w, c, "Rule")
  <2> DEFINE w == Wrapper(E, "Rule", E.sub[r])
  <2>1. SameAs(w, c, "Rule") BY <1>5, TranslatedFacts, WrapperFacts, ConfigFacts DEF SameAs
  <2>2. Gives(R, r, w) BY <1>5, TranslatedFacts DEF Gives, Grants
  <2>3. QED BY <2>1, <2>2
<1>6. QED BY <1>1, <1>2, <1>3, <1>4, <1>5, RouteConfigsFacts

(* Each of them gives a route one wrapper for each scope.                  *)
LEMMA GivenMergeable ==
  ASSUME AtRest, NEW R \in Routes, NEW r, NEW W, \A w \in W : Gives(R, r, w)
  PROVE  Mergeable(W, "Rule", "Route")
<1> DEFINE Of(w, policy) == Grants(policy, api[R].routes, r, w)
<1>1. ASSUME NEW w, NEW policy, Of(w, policy)
      PROVE  w.by = policy.name /\ w.created = policy.created /\ w.scope \in {"Rule", "Route"}
  BY <1>1, WrapperFacts DEF Grants
<1>2. ASSUME NEW v, NEW w, NEW policy, Of(v, policy), Of(w, policy), v.scope = w.scope
      PROVE  v = w
  BY <1>2, WrapperFacts DEF Grants
<1>3. \A w \in W : \/ \E p \in PoliciesOf(R) : Of(w, Translated(p, api[p]))
                   \/ HasAnnotation(R) /\ Of(w, Embedded(api[R]))
  BY DEF Gives
<1>4. \A p \in PoliciesOf(R) : /\ p \in Policies /\ Translated(p, api[p]).name = p
                               /\ Translated(p, api[p]).created \in Nat
  BY PolicyOfRoute, TranslatedFacts
<1>5. Embedded(api[R]).name = "embedded" /\ Embedded(api[R]).created = 0 BY TranslatedFacts
<1> HIDE DEF Of
<1>6. \A w \in W : w.scope \in {"Rule", "Route"} /\ w.created \in Nat /\ w.by \in Policies \union {"embedded"}
  BY <1>1, <1>3, <1>4, <1>5
<1>7. ASSUME NEW v \in W, NEW w \in W, v.scope = w.scope, v.by = w.by PROVE v = w
  <2>1. CASE w.by = "embedded"
    <3>1. \A p \in PoliciesOf(R) : p # "embedded" BY <1>4, AlphabeticalAssumption
    <3>2. Of(w, Embedded(api[R])) /\ Of(v, Embedded(api[R])) BY <2>1, <3>1, <1>1, <1>3, <1>4, <1>7
    <3>3. QED BY <3>2, <1>2, <1>7
  <2>2. CASE w.by # "embedded"
    <3>1. PICK p \in PoliciesOf(R) : Of(w, Translated(p, api[p])) BY <2>2, <1>1, <1>3, <1>5
    <3>2. PICK q \in PoliciesOf(R) : Of(v, Translated(q, api[q])) BY <2>2, <1>1, <1>3, <1>5, <1>7
    <3>3. p = q BY <3>1, <3>2, <1>1, <1>4, <1>7
    <3>4. QED BY <3>1, <3>2, <3>3, <1>2, <1>7
  <2>3. QED BY <2>1, <2>2
<1>8. QED BY <1>6, <1>7 DEF Mergeable

-----------------------------------------------------------------------------
(* The virtual hosts of a route resource.                                  *)
LEMMA HostFacts ==
  ASSUME AtRest
  PROVE  /\ \A R \in Routes : api[R] # Absent => \A h \in api[R].hosts : GoodHost(h) /\ Covering(h)
         /\ \A g \in Gateways : api[g] # Absent =>
              \A i \in DOMAIN api[g].servers : \A h \in api[g].servers[i].hosts : GoodHost(h) /\ Covering(h)
<1>1. \A h \in UNION {HostsIn(n) : n \in Routes \union Gateways} : GoodHost(h) /\ Covering(h)
  BY DomainsAssumption DEF GoodHost, Covering
<1>2. \A n \in Routes \union Gateways : api[n] # Absent => api[n] \in Given(n)
  BY NamesAssumption, VersionsFacts DEF AtRest, Typed, Names
<1>3. ASSUME NEW R \in Routes, api[R] # Absent, NEW h \in api[R].hosts PROVE GoodHost(h) /\ Covering(h)
  <2>1. h \in HostsIn(R) BY <1>2, <1>3 DEF HostsIn
  <2>2. QED BY <2>1, <1>1
<1>4. ASSUME NEW g \in Gateways, api[g] # Absent, NEW i \in DOMAIN api[g].servers,
             NEW h \in api[g].servers[i].hosts
      PROVE  GoodHost(h) /\ Covering(h)
  <2>1. api[g] \in Given(g) /\ g \notin Routes BY <1>2, <1>4, NamesAssumption
  <2>2. api[g].servers[i] \in ServersIn(api[g]) BY DEF ServersIn
  <2>3. h \in UNION {x.hosts : x \in ServersIn(api[g])} BY <2>2
  <2>4. h \in HostsIn(g) BY <2>1, <2>3 DEF HostsIn
  <2>5. QED BY <2>4, <1>1
<1>5. QED BY <1>3, <1>4

(* The servers that a route is attached to.                                *)
LEMMA ServersFacts ==
  ASSUME NEW R, NEW s
  PROVE  s \in Servers(R) <=>
           \E g \in Gateways : Sound(g) /\ \E i \in DOMAIN api[g].servers :
             s = api[g].servers[i] /\ AttachedTo(R, g, s)
<1>1. s \in Servers(R) <=> \E y \in Slots : Sound(y[1]) /\ AttachedTo(R, y[1], ServerAt(y)) /\ s = ServerAt(y)
  BY DEF Servers
<1>2. ASSUME NEW g \in Gateways, api[g] # Absent, NEW i \in DOMAIN api[g].servers
      PROVE  <<g, i>> \in Slots /\ <<g, i>>[1] = g /\ ServerAt(<<g, i>>) = api[g].servers[i]
  BY <1>2, SlotFacts DEF ServerAt
<1>3. ASSUME NEW y \in Slots
      PROVE  \E g \in Gateways : api[g] # Absent /\ \E i \in DOMAIN api[g].servers :
               y[1] = g /\ ServerAt(y) = api[g].servers[i]
  <2>1. PICK g \in Gateways : api[g] # Absent /\ \E i \in DOMAIN api[g].servers : y = <<g, i>> BY SlotFacts
  <2>2. PICK i \in DOMAIN api[g].servers : y = <<g, i>> BY <2>1
  <2>3. y[1] = g /\ ServerAt(y) = api[g].servers[i] BY <2>1, <2>2, <1>2
  <2>4. QED BY <2>1, <2>3
<1>4. ASSUME NEW g \in Gateways, Sound(g), NEW i \in DOMAIN api[g].servers, s = api[g].servers[i],
             AttachedTo(R, g, s)
      PROVE  s \in Servers(R)
  <2>1. PICK y : y = <<g, i>> OBVIOUS
  <2>2. y \in Slots /\ y[1] = g /\ ServerAt(y) = s BY <2>1, <1>2, <1>4 DEF Sound
  <2>3. QED BY <2>2, <1>1, <1>4
<1>5. ASSUME s \in Servers(R)
      PROVE  \E g \in Gateways : Sound(g) /\ \E i \in DOMAIN api[g].servers :
               s = api[g].servers[i] /\ AttachedTo(R, g, s)
  <2>1. PICK y \in Slots : Sound(y[1]) /\ AttachedTo(R, y[1], ServerAt(y)) /\ s = ServerAt(y) BY <1>1, <1>5
  <2>2. PICK g \in Gateways : \E i \in DOMAIN api[g].servers : y[1] = g /\ ServerAt(y) = api[g].servers[i]
    BY <1>3
  <2>3. QED BY <2>1, <2>2
<1>6. QED BY <1>4, <1>5

(* The virtual hosts that are asked for.                                   *)
LEMMA VHostsFacts ==
  ASSUME NEW R, NEW v
  PROVE  v \in VHosts(R) <=>
           \E s \in Servers(R), h \in HostsOf(R) : Serves(R, s, h) /\ v = VirtualHost(HostOf(R, s, h), s.port)
<1> DEFINE found == {y \in Servers(R) \X HostsOf(R) : Serves(R, y[1], y[2])}
<1>1. VHosts(R) = {VirtualHost(HostOf(R, x[1], x[2]), x[1].port) : x \in found} BY DEF VHosts
<1>2. \A s, h : <<s, h>> \in found <=> s \in Servers(R) /\ h \in HostsOf(R) /\ Serves(R, s, h) OBVIOUS
<1>3. \A x \in found : x = <<x[1], x[2]>> OBVIOUS
<1> HIDE DEF found
<1>4. v \in VHosts(R) <=> \E x \in found : v = VirtualHost(HostOf(R, x[1], x[2]), x[1].port) BY <1>1
<1>5. ASSUME NEW s \in Servers(R), NEW h \in HostsOf(R), Serves(R, s, h),
             v = VirtualHost(HostOf(R, s, h), s.port)
      PROVE  v \in VHosts(R)
  <2>1. PICK x : x = <<s, h>> OBVIOUS
  <2>2. x \in found /\ x[1] = s /\ x[2] = h BY <2>1, <1>2, <1>5
  <2>3. QED BY <2>2, <1>4, <1>5
<1>6. ASSUME v \in VHosts(R)
      PROVE  \E s \in Servers(R), h \in HostsOf(R) : Serves(R, s, h) /\ v = VirtualHost(HostOf(R, s, h), s.port)
  <2>1. PICK x \in found : v = VirtualHost(HostOf(R, x[1], x[2]), x[1].port) BY <1>4, <1>6
  <2>2. x[1] \in Servers(R) /\ x[2] \in HostsOf(R) /\ Serves(R, x[1], x[2]) BY <2>1, <1>2, <1>3
  <2>3. QED BY <2>1, <2>2
<1>7. QED BY <1>5, <1>6

(* The virtual hosts of a VirtualService.                                  *)
LEMMA IstioHostsAtRest ==
  ASSUME AtRest, NEW R \in Routes, api[R] # Absent, api[R].kind = "VirtualService"
  PROVE  VirtualHosts(cache[R], {cache[g] : g \in InUse(R)}) = VHosts(R)
<1> DEFINE route == api[R]
           Hit(s, h) == \E k \in s.hosts : hostMatch(k, h)
<1>1. ASSUME NEW gw, NEW v
      PROVE  v \in buildVirtualHostsWithIstioGw(route, gw) <=>
               \E i \in DOMAIN gw.servers, h \in route.hosts :
                 Hit(gw.servers[i], h) /\ v = VirtualHost(h, gw.servers[i].port)
  <2> DEFINE found == {y \in route.hosts \X DOMAIN gw.servers :
                         \E h \in gw.servers[y[2]].hosts : hostMatch(h, y[1])}
  <2>1. buildVirtualHostsWithIstioGw(route, gw) = {VirtualHost(x[1], gw.servers[x[2]].port) : x \in found}
    BY DEF buildVirtualHostsWithIstioGw
  <2>2. \A h, i : <<h, i>> \in found <=> h \in route.hosts /\ i \in DOMAIN gw.servers /\ Hit(gw.servers[i], h)
    OBVIOUS
  <2>3. \A x \in found : x = <<x[1], x[2]>> OBVIOUS
  <2> HIDE DEF found, Hit
  <2>4. v \in buildVirtualHostsWithIstioGw(route, gw) <=> \E x \in found : v = VirtualHost(x[1], gw.servers[x[2]].port)
    BY <2>1
  <2>5. ASSUME NEW i \in DOMAIN gw.servers, NEW h \in route.hosts, Hit(gw.servers[i], h),
               v = VirtualHost(h, gw.servers[i].port)
        PROVE  v \in buildVirtualHostsWithIstioGw(route, gw)
    <3>1. PICK x : x = <<h, i>> OBVIOUS
    <3>2. x \in found /\ x[1] = h /\ x[2] = i BY <3>1, <2>2, <2>5
    <3>3. QED BY <3>2, <2>4, <2>5
  <2>6. ASSUME v \in buildVirtualHostsWithIstioGw(route, gw)
        PROVE  \E i \in DOMAIN gw.servers, h \in route.hosts :
                 Hit(gw.servers[i], h) /\ v = VirtualHost(h, gw.servers[i].port)
    <3>1. PICK x \in found : v = VirtualHost(x[1], gw.servers[x[2]].port) BY <2>4, <2>6
    <3>2. x[1] \in route.hosts /\ x[2] \in DOMAIN gw.servers /\ Hit(gw.servers[x[2]], x[1])
      BY <3>1, <2>2, <2>3
    <3>3. QED BY <3>1, <3>2
  <2>7. QED BY <2>5, <2>6
<1>2. cache = api BY DEF AtRest
<1>3. \A g : g \in InUse(R) <=> g \in route.gateways /\ Sound(g)
  BY <1>2 DEF InUse, Usable, Named, Sound
<1>4. Named(route) = route.gateways /\ route.gateways \subseteq Gateways BY RouteSpecFacts DEF Named, AtRest
<1> HIDE DEF Hit
<1>5. ASSUME NEW v
      PROVE  v \in VirtualHosts(cache[R], {cache[g] : g \in InUse(R)}) <=>
               \E g \in InUse(R) : v \in buildVirtualHostsWithIstioGw(route, api[g])
  BY <1>2 DEF VirtualHosts
<1>6. ~IsRoute(R) BY DEF IsRoute
<1>7. HostsOf(R) = route.hosts /\ (\A s, h : HostOf(R, s, h) = h)
      /\ (\A s, h : Serves(R, s, h) <=> \E k \in s.hosts : Overlap(k, h))
      /\ (\A g, s : AttachedTo(R, g, s) <=> g \in route.gateways)
  BY <1>6 DEF HostsOf, HostOf, Serves, AttachedTo
<1>8. ASSUME NEW g \in Gateways, api[g] # Absent, NEW i \in DOMAIN api[g].servers, NEW h \in route.hosts
      PROVE  Hit(api[g].servers[i], h) <=> Serves(R, api[g].servers[i], h)
  <2>1. GoodHost(h) /\ Covering(h) BY HostFacts
  <2>2. \A k \in api[g].servers[i].hosts : GoodHost(k) /\ Covering(k) BY <1>8, HostFacts
  <2>3. \A k \in api[g].servers[i].hosts : hostMatch(k, h) <=> Overlap(k, h) BY <2>1, <2>2, MatchIsOverlap
  <2>4. QED BY <2>3, <1>7 DEF Hit
<1>9. ASSUME NEW v, v \in VirtualHosts(cache[R], {cache[g] : g \in InUse(R)})
      PROVE  v \in VHosts(R)
  <2>1. PICK g \in InUse(R) : v \in buildVirtualHostsWithIstioGw(route, api[g]) BY <1>5, <1>9
  <2>2. PICK i \in DOMAIN api[g].servers, h \in route.hosts :
           Hit(api[g].servers[i], h) /\ v = VirtualHost(h, api[g].servers[i].port)
    BY <2>1, <1>1
  <2>3. g \in Gateways /\ Sound(g) /\ api[g] # Absent /\ AttachedTo(R, g, api[g].servers[i])
    BY <1>3, <1>4, <1>7 DEF Sound
  <2>4. api[g].servers[i] \in Servers(R) BY <2>3, ServersFacts
  <2>5. Serves(R, api[g].servers[i], h) BY <2>2, <2>3, <1>8
  <2>6. QED BY <2>2, <2>4, <2>5, <1>7, VHostsFacts
<1>10. ASSUME NEW v, v \in VHosts(R)
       PROVE  v \in VirtualHosts(cache[R], {cache[g] : g \in InUse(R)})
  <2>1. PICK s \in Servers(R), h \in HostsOf(R) : Serves(R, s, h) /\ v = VirtualHost(HostOf(R, s, h), s.port)
    BY <1>10, VHostsFacts
  <2>2. PICK g \in Gateways : Sound(g) /\ \E i \in DOMAIN api[g].servers :
                                s = api[g].servers[i] /\ AttachedTo(R, g, s)
    BY ServersFacts
  <2>3. PICK i \in DOMAIN api[g].servers : s = api[g].servers[i] /\ AttachedTo(R, g, s) BY <2>2
  <2>4. g \in InUse(R) /\ api[g] # Absent BY <2>2, <2>3, <1>3, <1>7 DEF Sound
  <2>5. Hit(api[g].servers[i], h) BY <2>1, <2>3, <2>4, <1>7, <1>8
  <2>6. v = VirtualHost(h, api[g].servers[i].port) BY <2>1, <2>3, <1>7
  <2>7. v \in buildVirtualHostsWithIstioGw(route, api[g]) BY <2>5, <2>6, <2>1, <1>1, <1>7
  <2>8. QED BY <2>4, <2>7, <1>5
<1>11. QED BY <1>9, <1>10

(* The virtual hosts of an HTTPRoute, unless it names sections of one of   *)
(* several gateways.                                                       *)
LEMMA K8sHostsAtRest ==
  ASSUME AtRest, NEW R \in Routes, api[R] # Absent, api[R].kind = "HTTPRoute", ~Sectioned(R)
  PROVE  VirtualHosts(cache[R], {cache[g] : g \in InUse(R)}) = VHosts(R)
<1> DEFINE route == api[R]
           Asked(s) == s.allows /\ \E ref \in route.gateways : ref.section \in {"any", s.name}
           Hit(s, h) == s.hosts = {} \/ \E k \in s.hosts : hostMatch(k, h)
<1>2. cache = api BY DEF AtRest
<1>6. IsRoute(R) BY DEF IsRoute
<1>1. ASSUME NEW gw, NEW v
      PROVE  v \in buildVirtualHostsWithK8sGw(route, gw) <=>
               \E i \in DOMAIN gw.servers, h \in HostsOf(R) :
                 /\ Asked(gw.servers[i]) /\ Hit(gw.servers[i], h)
                 /\ v = VirtualHost(Listener(gw.servers[i], h), gw.servers[i].port)
  <2> DEFINE hosts == IF route.hosts = {} THEN {AnyHost} ELSE route.hosts
             matched == {i \in DOMAIN gw.servers :
                           /\ gw.servers[i].allows
                           /\ \E ref \in route.gateways : ref.section \in {"any", gw.servers[i].name}}
             found == {y \in hosts \X matched :
                         LET own == gw.servers[y[2]].hosts
                         IN own = {} \/ \E h \in own : hostMatch(h, y[1])}
  <2>1. buildVirtualHostsWithK8sGw(route, gw) =
          {VirtualHost(Listener(gw.servers[x[2]], x[1]), gw.servers[x[2]].port) : x \in found}
    BY DEF buildVirtualHostsWithK8sGw
  <2>2. hosts = HostsOf(R) BY <1>6 DEF HostsOf
  <2>3. \A i : i \in matched <=> i \in DOMAIN gw.servers /\ Asked(gw.servers[i]) OBVIOUS
  <2>4. \A x : x \in found <=> x \in hosts \X matched /\ Hit(gw.servers[x[2]], x[1]) OBVIOUS
  <2> HIDE DEF hosts, matched, found, Asked, Hit
  <2>5. \A h, i : <<h, i>> \in found <=> h \in hosts /\ i \in matched /\ Hit(gw.servers[i], h)
    BY <2>4
  <2>6. \A x \in found : x = <<x[1], x[2]>> BY <2>4
  <2>7. v \in buildVirtualHostsWithK8sGw(route, gw) <=>
          \E x \in found : v = VirtualHost(Listener(gw.servers[x[2]], x[1]), gw.servers[x[2]].port)
    BY <2>1
  <2>8. ASSUME NEW i \in matched, NEW h \in hosts, Hit(gw.servers[i], h),
               v = VirtualHost(Listener(gw.servers[i], h), gw.servers[i].port)
        PROVE  v \in buildVirtualHostsWithK8sGw(route, gw)
    <3>1. PICK x : x = <<h, i>> OBVIOUS
    <3>2. x \in found /\ x[1] = h /\ x[2] = i BY <3>1, <2>5, <2>8
    <3>3. QED BY <3>2, <2>7, <2>8
  <2>9. ASSUME v \in buildVirtualHostsWithK8sGw(route, gw)
        PROVE  \E i \in DOMAIN gw.servers, h \in HostsOf(R) :
                 /\ Asked(gw.servers[i]) /\ Hit(gw.servers[i], h)
                 /\ v = VirtualHost(Listener(gw.servers[i], h), gw.servers[i].port)
    <3>1. PICK x \in found : v = VirtualHost(Listener(gw.servers[x[2]], x[1]), gw.servers[x[2]].port)
      BY <2>7, <2>9
    <3>2. x[1] \in hosts /\ x[2] \in matched /\ Hit(gw.servers[x[2]], x[1]) BY <3>1, <2>4
    <3>3. QED BY <3>1, <3>2, <2>2, <2>3
  <2>10. QED BY <2>2, <2>3, <2>8, <2>9
<1>3. /\ Named(route) = {ref.name : ref \in route.gateways} /\ Named(route) \subseteq Gateways
      /\ \A g \in Named(route) : api[g] # Absent => Sound(g)
  BY RouteSpecFacts DEF Named, AtRest, Sound
<1>4. \A s, h : HostOf(R, s, h) = Listener(s, h) BY <1>6 DEF HostOf, Listener
<1>5. ASSUME NEW v
      PROVE  v \in VirtualHosts(cache[R], {cache[g] : g \in InUse(R)}) <=>
               \E g \in InUse(R) : v \in buildVirtualHostsWithK8sGw(route, api[g])
  BY <1>2 DEF VirtualHosts
<1>7. \A g, s : AttachedTo(R, g, s) <=>
        s.allows /\ \E ref \in route.gateways : ref.name = g /\ ref.section \in {"any", s.name}
  BY <1>6 DEF AttachedTo
<1>8. ASSUME NEW g \in Gateways, api[g] # Absent, NEW i \in DOMAIN api[g].servers, NEW h \in HostsOf(R)
      PROVE  Hit(api[g].servers[i], h) <=> Serves(R, api[g].servers[i], h)
  <2>1. \A k \in api[g].servers[i].hosts : GoodHost(k) /\ Covering(k) BY <1>8, HostFacts
  <2>2. ASSUME NEW k \in api[g].servers[i].hosts PROVE hostMatch(k, h) <=> Overlap(k, h)
    <3>1. GoodHost(h) /\ Covering(h)
      <4>1. CASE h = AnyHost BY <4>1, <2>1, <2>2, AnyHostFacts
      <4>2. CASE h # AnyHost
        <5>1. h \in route.hosts BY <4>2, <1>6 DEF HostsOf
        <5>2. QED BY <5>1, HostFacts
      <4>3. QED BY <4>1, <4>2
    <3>2. QED BY <3>1, <2>1, MatchIsOverlap
  <2>3. QED BY <2>2, <1>6 DEF Serves
<1>9. ASSUME NEW g \in Gateways, api[g] # Absent, NEW i \in DOMAIN api[g].servers
      PROVE  g \in InUse(R) /\ Asked(api[g].servers[i]) <=> AttachedTo(R, g, api[g].servers[i])
  <2> DEFINE s == api[g].servers[i]
  <2>1. g \in InUse(R) <=> /\ g \in Named(route)
                           /\ \E ref \in route.gateways, j \in DOMAIN api[g].servers :
                                /\ ref.name = g /\ ref.section \in {"any", api[g].servers[j].name}
                                /\ api[g].servers[j].allows
    BY <1>2, <1>9 DEF InUse, Usable
  <2>2. ASSUME AttachedTo(R, g, s) PROVE g \in InUse(R) /\ Asked(s)
    <3>1. PICK ref \in route.gateways : ref.name = g /\ ref.section \in {"any", s.name} /\ s.allows
      BY <2>2, <1>7
    <3>2. g \in Named(route) BY <3>1, <1>3
    <3>3. QED BY <3>1, <3>2, <2>1
  <2>3. ASSUME g \in InUse(R), Asked(s) PROVE AttachedTo(R, g, s)
    <3>1. PICK ref \in route.gateways : ref.section \in {"any", s.name} /\ s.allows BY <2>3
    <3>2. PICK own \in route.gateways : own.name = g BY <2>1, <2>3
    <3>3. CASE ref.name = g BY <3>1, <3>3, <1>7
    <3>4. CASE ref.name # g
      <4>1. own.section = "any" BY <3>2, <3>4, <1>6 DEF Sectioned
      <4>2. QED BY <4>1, <3>1, <3>2, <1>7
    <3>5. QED BY <3>3, <3>4
  <2>4. QED BY <2>2, <2>3
<1> HIDE DEF Asked, Hit
<1>10. ASSUME NEW v, v \in VirtualHosts(cache[R], {cache[g] : g \in InUse(R)})
       PROVE  v \in VHosts(R)
  <2>1. PICK g \in InUse(R) : v \in buildVirtualHostsWithK8sGw(route, api[g]) BY <1>5, <1>10
  <2>2. PICK i \in DOMAIN api[g].servers, h \in HostsOf(R) :
           /\ Asked(api[g].servers[i]) /\ Hit(api[g].servers[i], h)
           /\ v = VirtualHost(Listener(api[g].servers[i], h), api[g].servers[i].port)
    BY <2>1, <1>1
  <2>3. g \in Gateways /\ Sound(g) /\ api[g] # Absent BY <1>2, <1>3 DEF InUse, Usable
  <2>4. AttachedTo(R, g, api[g].servers[i]) BY <2>2, <2>3, <1>9
  <2>5. api[g].servers[i] \in Servers(R) BY <2>3, <2>4, ServersFacts
  <2>6. Serves(R, api[g].servers[i], h) BY <2>2, <2>3, <1>8
  <2>7. QED BY <2>2, <2>5, <2>6, <1>4, VHostsFacts
<1>11. ASSUME NEW v, v \in VHosts(R)
       PROVE  v \in VirtualHosts(cache[R], {cache[g] : g \in InUse(R)})
  <2>1. PICK s \in Servers(R), h \in HostsOf(R) : Serves(R, s, h) /\ v = VirtualHost(HostOf(R, s, h), s.port)
    BY <1>11, VHostsFacts
  <2>2. PICK g \in Gateways : Sound(g) /\ \E i \in DOMAIN api[g].servers :
                                s = api[g].servers[i] /\ AttachedTo(R, g, s)
    BY ServersFacts
  <2>3. PICK i \in DOMAIN api[g].servers : s = api[g].servers[i] /\ AttachedTo(R, g, s) BY <2>2
  <2>4. g \in InUse(R) /\ Asked(s) /\ Hit(s, h) BY <2>1, <2>2, <2>3, <1>8, <1>9 DEF Sound
  <2>5. v = VirtualHost(Listener(s, h), s.port) BY <2>1, <1>4
  <2>6. v \in buildVirtualHostsWithK8sGw(route, api[g]) BY <2>1, <2>3, <2>4, <2>5, <1>1
  <2>7. QED BY <2>4, <2>6, <1>5
<1>12. QED BY <1>10, <1>11

LEMMA VirtualHostsAtRest ==
  ASSUME AtRest, NEW R \in Routes, api[R] # Absent, ~Sectioned(R)
  PROVE  VirtualHosts(cache[R], {cache[g] : g \in InUse(R)}) = VHosts(R)
<1>1. api[R].kind \in {"VirtualService", "HTTPRoute"} BY RouteSpecFacts DEF AtRest
<1>2. QED BY <1>1, IstioHostsAtRest, K8sHostsAtRest

-----------------------------------------------------------------------------
(* The routes of a resource, each with what applies to it.                 *)
LEMMA RoutesOfFacts ==
  ASSUME NEW entry, \A x \in entry.policies : x = <<x[1], x[2]>>, NEW r
  PROVE  /\ r \in DOMAIN RoutesOf(entry) <=> \E w : <<r, w>> \in entry.policies
         /\ r \in DOMAIN RoutesOf(entry) => \A w : w \in RoutesOf(entry)[r] <=> <<r, w>> \in entry.policies
<1>1. DOMAIN RoutesOf(entry) = {p[1] : p \in entry.policies} BY DEF RoutesOf
<1>2. ASSUME NEW w, <<r, w>> \in entry.policies
      PROVE  r \in DOMAIN RoutesOf(entry)
  <2>1. PICK x : x = <<r, w>> OBVIOUS
  <2>2. x \in entry.policies /\ x[1] = r BY <2>1, <1>2
  <2>3. QED BY <2>2, <1>1
<1>3. ASSUME r \in DOMAIN RoutesOf(entry)
      PROVE  \E w : <<r, w>> \in entry.policies
  <2>1. PICK x \in entry.policies : r = x[1] BY <1>1, <1>3
  <2>2. x = <<r, x[2]>> BY <2>1
  <2>3. QED BY <2>1, <2>2
<1>4. ASSUME r \in DOMAIN RoutesOf(entry), NEW w
      PROVE  w \in RoutesOf(entry)[r] <=> <<r, w>> \in entry.policies
  <2>1. RoutesOf(entry)[r] = {p[2] : p \in {q \in entry.policies : q[1] = r}} BY <1>4 DEF RoutesOf
  <2>2. ASSUME <<r, w>> \in entry.policies PROVE w \in RoutesOf(entry)[r]
    <3>1. PICK x : x = <<r, w>> OBVIOUS
    <3>2. x \in entry.policies /\ x[1] = r /\ x[2] = w BY <3>1, <2>2
    <3>3. QED BY <3>2, <2>1
  <2>3. ASSUME w \in RoutesOf(entry)[r] PROVE <<r, w>> \in entry.policies
    <3>1. PICK x \in entry.policies : x[1] = r /\ x[2] = w BY <2>1, <2>3
    <3>2. x = <<r, w>> BY <3>1
    <3>3. QED BY <3>1, <3>2
  <2>4. QED BY <2>2, <2>3
<1>5. QED BY <1>2, <1>3, <1>4

(* A resource that is asked for has a route for what applies to it.        *)
LEMMA NotBareFacts ==
  ASSUME AtRest, NEW R \in Routes, Targeted(R), ~Bare(R)
  PROVE  \E r \in api[R].routes : RouteConfigs(R, r) # {}
<1>1. api[R] # Absent /\ (PoliciesOf(R) # {} \/ HasAnnotation(R)) BY TargetedAtRest DEF Targeted
<1>2. CASE HasAnnotation(R)
  <2>1. PICK r \in api[R].routes : TRUE BY <1>2 DEF Bare
  <2>2. OfAnnotation(0, api[R].embedded.filters) \in RouteConfigs(R, r) BY <1>2, RouteConfigsFacts
  <2>3. QED BY <2>2
<1>3. ASSUME NEW p \in PoliciesOf(R)
      PROVE  \E r \in api[R].routes : RouteConfigs(R, r) # {}
  <2>1. CASE Spec0(p).section = "any"
    <3>1. api[R].routes # {}
      <4>1. CASE IsRoute(R) BY <4>1 DEF Bare
      <4>2. CASE ~IsRoute(R)
        <5>1. api[R].kind = "VirtualService" BY <4>2, <1>1, RouteSpecFacts DEF AtRest, IsRoute
        <5>2. api[R].valid BY DEF PoliciesOf, Effective, Sound
        <5>3. R \in Names /\ R \notin Policies BY NamesAssumption DEF Names
        <5>4. api[R] \in Given(R) BY <1>1, <5>3, VersionsFacts DEF AtRest, Typed
        <5>5. QED BY <5>1, <5>2, <5>4, SectionsAssumption
      <4>3. QED BY <4>1, <4>2
    <3>2. PICK r \in api[R].routes : TRUE BY <3>1
    <3>3. Config(0, p, Spec0(p).filters) \in RouteConfigs(R, r) BY <2>1, RouteConfigsFacts
    <3>4. QED BY <3>3
  <2>2. CASE Spec0(p).section # "any"
    <3>1. Spec0(p).section \in api[R].routes BY <2>2, PolicyOfRoute
    <3>2. Config(1, p, Spec0(p).filters) \in RouteConfigs(R, Spec0(p).section) BY RouteConfigsFacts
    <3>3. QED BY <3>1, <3>2
  <2>3. QED BY <2>1, <2>2
<1>4. QED BY <1>1, <1>2, <1>3

(* What the translation makes of the policies for a resource's routes.     *)
LEMMA RoutesAtRest ==
  ASSUME AtRest, NEW R \in Routes, Targeted(R), NEW entry,
         RouteEntry(R, entry, Applied(Policies, R) \union EmbeddedFor(R))
  PROVE  /\ DOMAIN RoutesOf(entry) = {r \in api[R].routes : RouteConfigs(R, r) # {}}
         /\ \A r \in DOMAIN RoutesOf(entry) :
              toMergedPolicy(RoutesOf(entry)[r]).filters = InForce(RouteConfigs(R, r))
<1> DEFINE policies == entry.policies
<1>1. policies = Applied(Policies, R) \union EmbeddedFor(R) BY DEF RouteEntry
<1>2. /\ \A x \in policies : x = <<x[1], x[2]>>
      /\ \A r, w : <<r, w>> \in policies <=> Gives(R, r, w)
  <2> HIDE DEF policies
  <2>1. QED BY <1>1, AppliedAtRest
<1>3. ASSUME NEW r
      PROVE  r \in DOMAIN RoutesOf(entry) <=> r \in api[R].routes /\ RouteConfigs(R, r) # {}
  <2>1. r \in DOMAIN RoutesOf(entry) <=> \E w : Gives(R, r, w) BY <1>2, RoutesOfFacts
  <2>2. ASSUME NEW w, Gives(R, r, w) PROVE r \in api[R].routes /\ RouteConfigs(R, r) # {}
    BY <2>2, GivenConfigs
  <2>3. ASSUME r \in api[R].routes, NEW c \in RouteConfigs(R, r) PROVE \E w : Gives(R, r, w)
    BY <2>3, ConfigsGiven
  <2>4. QED BY <2>1, <2>2, <2>3
<1>4. ASSUME NEW r \in DOMAIN RoutesOf(entry)
      PROVE  toMergedPolicy(RoutesOf(entry)[r]).filters = InForce(RouteConfigs(R, r))
  <2> DEFINE W == RoutesOf(entry)[r]
             C == RouteConfigs(R, r)
  <2>1. \A w : w \in W <=> Gives(R, r, w) BY <1>2, RoutesOfFacts
  <2>2. r \in api[R].routes BY <1>3
  <2> HIDE DEF W
  <2>3. Mergeable(W, "Rule", "Route") BY <2>1, GivenMergeable
  <2>4. \A w \in W : \E c \in C : SameAs(w, c, "Rule") BY <2>1, GivenConfigs
  <2>5. \A c \in C : \E w \in W : SameAs(w, c, "Rule") BY <2>1, <2>2, ConfigsGiven
  <2> HIDE DEF C
  <2>6. toMergedPolicy(W).filters = InForce(C) BY <2>3, <2>4, <2>5, MergedIsInForce
  <2>7. QED BY <2>6 DEF W, C
<1>5. QED BY <1>3, <1>4

-----------------------------------------------------------------------------
(* The data plane state: who owns a virtual host, and the routes of those  *)
(* whose virtual hosts are no other's.                                     *)
CollectedHosts(st, n) == VirtualHosts(st.routes[n].route, st.routes[n].gws)
LEMMA DataPlaneFacts ==
  ASSUME NEW st, IsFiniteSet(DOMAIN st.routes), NEW order \in SetToSeqs(DOMAIN st.routes),
         NEW dp, dp = toDataPlaneState(st, order)
  PROVE  /\ DOMAIN dp.owner = UNION {CollectedHosts(st, n) : n \in DOMAIN st.routes}
         /\ \A v \in DOMAIN dp.owner : dp.owner[v] \in DOMAIN st.routes /\ v \in CollectedHosts(st, dp.owner[v])
         /\ DOMAIN dp.routes = DOMAIN st.routes
         /\ \A n \in DOMAIN st.routes : DOMAIN RoutesOf(st.routes[n]) \subseteq DOMAIN dp.routes[n]
         /\ \A n \in DOMAIN st.routes :
              (\A m \in DOMAIN st.routes : m # n => CollectedHosts(st, m) \intersect CollectedHosts(st, n) = {}) =>
                \A r \in DOMAIN dp.routes[n] :
                  r \in DOMAIN RoutesOf(st.routes[n]) /\ dp.routes[n][r] = RoutesOf(st.routes[n])[r]
<1> DEFINE D == DOMAIN st.routes
           vhosts == [n \in DOMAIN st.routes |-> VirtualHosts(st.routes[n].route, st.routes[n].gws)]
           own == [n \in DOMAIN st.routes |-> RoutesOf(st.routes[n])]
           first(names) == CHOOSE n \in names : \A m \in names : Rank(order, n) <= Rank(order, m)
           last(names) == CHOOSE n \in names : \A m \in names : Rank(order, m) <= Rank(order, n)
           owner == [v \in UNION {vhosts[n] : n \in DOMAIN vhosts} |-> first({n \in DOMAIN vhosts : v \in vhosts[n]})]
           joining(n) == {m \in DOMAIN vhosts : m = n \/ \E v \in vhosts[m] : owner[v] = n}
           routesOf(n) == [r \in UNION {DOMAIN own[m] : m \in joining(n)} |->
                             own[last({m \in joining(n) : r \in DOMAIN own[m]})][r]]
<1> DEFINE routes == [n \in DOMAIN vhosts |-> routesOf(n)]
<1>0. dp = [owner |-> owner, routes |-> routes]
  BY Zenon DEF toDataPlaneState
<1>2. DOMAIN vhosts = D /\ \A n \in D : vhosts[n] = CollectedHosts(st, n) /\ own[n] = RoutesOf(st.routes[n])
  BY DEF CollectedHosts
<1>3. \A n \in D : Rank(order, n) \in Nat
  <2>1. Range(order) = D /\ DOMAIN order = 1..Len(order) /\ Len(order) \in Nat BY OrderFacts
  <2>2. QED BY <2>1, RankFacts
<1> HIDE DEF vhosts, own, D
<1>1. dp.owner = owner /\ dp.routes = routes
  <2> HIDE DEF owner, routes
  <2>1. QED BY <1>0
<1>4. ASSUME NEW names, names \subseteq D, names # {}
      PROVE  first(names) \in names
  <2> DEFINE f == [n \in D |-> Rank(order, n)]
  <2>1. \A n \in names : f[n] \in Nat /\ f[n] = Rank(order, n) BY <1>3, <1>4
  <2> HIDE DEF f
  <2>2. \E n \in names : \A m \in names : f[n] <= f[m] BY <2>1, <1>4, FirstByOne
  <2>3. \E n \in names : \A m \in names : Rank(order, n) <= Rank(order, m) BY <2>1, <2>2
  <2>4. QED BY <2>3
<1>5. DOMAIN owner = UNION {CollectedHosts(st, n) : n \in D} BY <1>2
<1>6. \A v \in DOMAIN owner : owner[v] \in D /\ v \in vhosts[owner[v]]
  <2>1. ASSUME NEW v \in DOMAIN owner PROVE owner[v] \in D /\ v \in vhosts[owner[v]]
    <3> DEFINE names == {n \in D : v \in vhosts[n]}
    <3>1. owner[v] = first(names) BY <1>2
    <3>2. names # {} BY <1>2
    <3> HIDE DEF first, owner
    <3>3. first(names) \in names BY <3>2, <1>4
    <3>4. QED BY <3>1, <3>3
  <2>2. QED BY <2>1
<1> HIDE DEF owner, first
<1>7. \A n \in D : dp.routes[n] = routesOf(n) BY <1>1, <1>2
<1>8. \A n \in D : DOMAIN own[n] \subseteq DOMAIN routesOf(n) BY <1>2
<1>9. ASSUME NEW n \in D, \A m \in D : m # n => vhosts[m] \intersect vhosts[n] = {}
      PROVE  \A r \in DOMAIN routesOf(n) : r \in DOMAIN own[n] /\ routesOf(n)[r] = own[n][r]
  <2>1. joining(n) = {n}
    <3>1. ASSUME NEW m \in D, NEW v \in vhosts[m], owner[v] = n PROVE m = n
      <4>1. v \in DOMAIN owner BY <3>1, <1>2, <1>5
      <4>2. v \in vhosts[n] BY <4>1, <1>6, <3>1
      <4>3. QED BY <4>2, <3>1, <1>9
    <3>2. QED BY <3>1, <1>2
  <2> HIDE DEF joining
  <2>2. DOMAIN routesOf(n) = DOMAIN own[n] BY <2>1
  <2>3. ASSUME NEW r \in DOMAIN own[n] PROVE routesOf(n)[r] = own[n][r]
    <3>1. {m \in joining(n) : r \in DOMAIN own[m]} = {n} BY <2>1
    <3>2. last({n}) = n BY <1>3
    <3> HIDE DEF last
    <3>3. routesOf(n)[r] = own[last({m \in joining(n) : r \in DOMAIN own[m]})][r] BY <2>2
    <3>4. QED BY <3>1, <3>2, <3>3
  <2>4. QED BY <2>2, <2>3
<1> HIDE DEF routesOf
<1>10. \A n \in D : (\A m \in D : m # n => CollectedHosts(st, m) \intersect CollectedHosts(st, n) = {}) =>
          \A r \in DOMAIN dp.routes[n] :
            r \in DOMAIN RoutesOf(st.routes[n]) /\ dp.routes[n][r] = RoutesOf(st.routes[n])[r]
  BY <1>2, <1>7, <1>9
<1>11. DOMAIN dp.routes = D BY <1>1, <1>2
<1>12. QED BY <1>1, <1>2, <1>5, <1>6, <1>7, <1>8, <1>10, <1>11 DEF D

-----------------------------------------------------------------------------
(* The EnvoyFilters for hosts.                                             *)
RoutesAt(dp, v) == dp.routes[dp.owner[v]]
MergedAt(dp, v, r) == toMergedPolicy(RoutesAt(dp, v)[r])
Patched(dp, q) ==
  \E v \in DOMAIN dp.owner : \E r \in DOMAIN RoutesAt(dp, v) : q = Patch(v, r, MergedAt(dp, v, r))

LEMMA RouteFiltersFacts ==
  ASSUME NEW dp
  PROVE  /\ \A key \in DOMAIN RouteFilters(dp) : key[1] = "h"
         /\ \A v \in DOMAIN dp.owner : DOMAIN RoutesAt(dp, v) # {} => HostKey(v) \in DOMAIN RouteFilters(dp)
         /\ \A key \in DOMAIN RouteFilters(dp) : \A q :
              q \in RouteFilters(dp)[key].spec <=>
                \E v \in DOMAIN dp.owner : /\ HostKey(v) = key
                                           /\ \E r \in DOMAIN RoutesAt(dp, v) : q = Patch(v, r, MergedAt(dp, v, r))
<1> DEFINE of(v) == dp.routes[dp.owner[v]]
           configured == {v \in DOMAIN dp.owner : DOMAIN of(v) # {}}
           vhosts(key) == {v \in configured : HostKey(v) = key}
           merged(v, r) == toMergedPolicy(of(v)[r])
           patches(v) == {Patch(v, r, merged(v, r)) : r \in DOMAIN of(v)}
           filter(key) ==
             [spec |-> UNION {patches(v) : v \in vhosts(key)},
              info |-> UNION {UNION {merged(v, r).info : r \in DOMAIN of(v)} : v \in vhosts(key)}]
<1>1. RouteFilters(dp) = [key \in {HostKey(v) : v \in configured} |-> filter(key)] BY Zenon DEF RouteFilters
<1>2. \A key : filter(key).spec = UNION {patches(v) : v \in vhosts(key)} OBVIOUS
<1>3. \A v, r : of(v) = RoutesAt(dp, v) /\ merged(v, r) = MergedAt(dp, v, r) BY DEF RoutesAt, MergedAt
<1>4. \A v, q : q \in patches(v) <=> \E r \in DOMAIN of(v) : q = Patch(v, r, merged(v, r)) OBVIOUS
<1> HIDE DEF filter, merged, patches
<1>5. /\ DOMAIN RouteFilters(dp) = {HostKey(v) : v \in configured}
      /\ \A key \in DOMAIN RouteFilters(dp) : RouteFilters(dp)[key] = filter(key)
  BY <1>1
<1>6. \A v : HostKey(v)[1] = "h" BY DEF HostKey
<1>7. \A key : \A q : q \in filter(key).spec <=> \E v \in vhosts(key) : q \in patches(v)
  BY <1>2
<1>8. \A v : v \in configured <=> v \in DOMAIN dp.owner /\ DOMAIN RoutesAt(dp, v) # {} BY <1>3
<1> HIDE DEF of, configured
<1>9. ASSUME NEW key \in DOMAIN RouteFilters(dp), NEW q
      PROVE  q \in RouteFilters(dp)[key].spec <=>
                \E v \in DOMAIN dp.owner : /\ HostKey(v) = key
                                           /\ \E r \in DOMAIN RoutesAt(dp, v) : q = Patch(v, r, MergedAt(dp, v, r))
  <2>1. q \in RouteFilters(dp)[key].spec <=> \E v \in configured : HostKey(v) = key /\ q \in patches(v)
    BY <1>5, <1>7
  <2>2. \A v : q \in patches(v) <=> \E r \in DOMAIN RoutesAt(dp, v) : q = Patch(v, r, MergedAt(dp, v, r))
    BY <1>3, <1>4
  <2>3. QED BY <2>1, <2>2, <1>8
<1>10. QED BY <1>5, <1>6, <1>8, <1>9

(* The EnvoyFilters for listeners.                                         *)
PoliciesAt(ls, port) ==
  IF Sections(ls, port) = {} THEN {} ELSE ls.sections[CHOOSE s \in Sections(ls, port) : TRUE].policies
LEMMA ListenerFiltersFacts ==
  ASSUME NEW ls
  PROVE  /\ DOMAIN ListenerFilters(ls) = {ListenerKey(p) : p \in Ports(ls)}
         /\ \A p \in Ports(ls) : ListenerFilters(ls)[ListenerKey(p)].spec =
                                   {Patch("listener", "any", toMergedPolicy(PoliciesAt(ls, p)))}
         /\ \A p : ListenerKey(p)[1] = "lds" /\ ListenerKey(p)[2] = p
<1> DEFINE merged(port) ==
             IF Sections(ls, port) = {} THEN toMergedPolicy({})
             ELSE toMergedPolicy(ls.sections[CHOOSE s \in Sections(ls, port) : TRUE].policies)
           filter(key) == [spec |-> {Patch("listener", "any", merged(key[2]))}, info |-> merged(key[2]).info]
<1>1. ListenerFilters(ls) = [key \in {ListenerKey(p) : p \in Ports(ls)} |-> filter(key)] BY Zenon DEF ListenerFilters
<1>2. \A key : filter(key).spec = {Patch("listener", "any", merged(key[2]))} OBVIOUS
<1>3. \A port : merged(port) = toMergedPolicy(PoliciesAt(ls, port))
  <2>1. ASSUME NEW port PROVE merged(port) = toMergedPolicy(PoliciesAt(ls, port))
    <3>1. CASE Sections(ls, port) = {} BY <3>1 DEF PoliciesAt
    <3>2. CASE Sections(ls, port) # {} BY <3>2 DEF PoliciesAt
    <3>3. QED BY <3>1, <3>2
  <2>2. QED BY <2>1
<1> HIDE DEF filter, merged
<1>4. \A p : ListenerKey(p)[1] = "lds" /\ ListenerKey(p)[2] = p BY DEF ListenerKey
<1>5. \A key \in {ListenerKey(p) : p \in Ports(ls)} : ListenerFilters(ls)[key] = filter(key) BY <1>1
<1>6. DOMAIN ListenerFilters(ls) = {ListenerKey(p) : p \in Ports(ls)} BY <1>1
<1>7. QED BY <1>2, <1>3, <1>4, <1>5, <1>6

(* EnvoyFilters as they are generated.                                     *)
GeneratedFrom(dp, ls) == SpecsOf(efs) = SpecsOf(Generated(RouteFilters(dp), ListenerFilters(ls)))
LEMMA GeneratedFacts ==
  ASSUME NEW dp, NEW ls, GeneratedFrom(dp, ls)
  PROVE  /\ \A q : q \in Patches <=> Patched(dp, q)
         /\ {k[2] : k \in {x \in DOMAIN efs : x[1] = "lds"}} = Ports(ls)
         /\ \A p \in Ports(ls) : efs[ListenerKey(p)].spec =
                                   {Patch("listener", "any", toMergedPolicy(PoliciesAt(ls, p)))}
<1> DEFINE hosts == RouteFilters(dp)
           listeners == ListenerFilters(ls)
           g == Generated(hosts, listeners)
<1>1. /\ \A key \in DOMAIN hosts : key[1] = "h"
      /\ \A v \in DOMAIN dp.owner : DOMAIN RoutesAt(dp, v) # {} => HostKey(v) \in DOMAIN hosts
      /\ \A key \in DOMAIN hosts : \A q :
              q \in hosts[key].spec <=>
                \E v \in DOMAIN dp.owner : /\ HostKey(v) = key
                                           /\ \E r \in DOMAIN RoutesAt(dp, v) : q = Patch(v, r, MergedAt(dp, v, r))
  <2> HIDE DEF hosts
  <2>1. QED BY RouteFiltersFacts DEF hosts
<1>2. /\ DOMAIN listeners = {ListenerKey(p) : p \in Ports(ls)}
      /\ \A p \in Ports(ls) : listeners[ListenerKey(p)].spec =
                                   {Patch("listener", "any", toMergedPolicy(PoliciesAt(ls, p)))}
      /\ \A p : ListenerKey(p)[1] = "lds" /\ ListenerKey(p)[2] = p
  <2> HIDE DEF listeners
  <2>1. QED BY ListenerFiltersFacts DEF listeners
<1>3. SpecsOf(efs) = SpecsOf(g) BY DEF GeneratedFrom
<1> HIDE DEF hosts, listeners
<1>4. /\ DOMAIN g = DOMAIN hosts \union DOMAIN listeners
      /\ \A k \in DOMAIN hosts : g[k] = hosts[k]
      /\ \A k \in DOMAIN listeners : k \notin DOMAIN hosts => g[k] = listeners[k]
  BY DEF Generated
<1> HIDE DEF g
<1>5. DOMAIN efs = DOMAIN g /\ \A k \in DOMAIN efs : efs[k].spec = g[k].spec
  <2>1. /\ \A f : DOMAIN SpecsOf(f) = DOMAIN f
        /\ \A f : \A k \in DOMAIN f : SpecsOf(f)[k] = f[k].spec
    BY DEF SpecsOf
  <2>2. QED BY <2>1, <1>3
<1>6. \A k \in DOMAIN listeners : k[1] = "lds" /\ k \notin DOMAIN hosts BY <1>1, <1>2
<1>7. ASSUME NEW q PROVE q \in Patches <=> Patched(dp, q)
  <2>1. q \in Patches <=> \E k \in DOMAIN efs : k[1] = "h" /\ q \in efs[k].spec BY DEF Patches
  <2>2. q \in Patches <=> \E k \in DOMAIN hosts : q \in hosts[k].spec BY <2>1, <1>1, <1>4, <1>5, <1>6
  <2>3. QED BY <2>2, <1>1 DEF Patched
<1>8. {k[2] : k \in {x \in DOMAIN efs : x[1] = "lds"}} = Ports(ls)
  <2>1. {x \in DOMAIN efs : x[1] = "lds"} = DOMAIN listeners BY <1>1, <1>4, <1>5, <1>6
  <2>2. QED BY <2>1, <1>2
<1>9. \A p \in Ports(ls) : efs[ListenerKey(p)].spec =
                                   {Patch("listener", "any", toMergedPolicy(PoliciesAt(ls, p)))}
  BY <1>2, <1>4, <1>5, <1>6
<1>10. QED BY <1>7, <1>8, <1>9

-----------------------------------------------------------------------------
(* At rest the routes have what the resources ask for.                     *)
LEMMA RoutesAreCorrect ==
  ASSUME AtRest, ~Misread, NEW st, RoutesComplete(st.routes), NEW order \in SetToSeqs(DOMAIN st.routes),
         GeneratedFrom(toDataPlaneState(st, order), st.listeners)
  PROVE  RoutesCorrect
<1> DEFINE D == DOMAIN st.routes
           dp == toDataPlaneState(st, order)
           own(R) == RoutesOf(st.routes[R])
<1>1. D = {R \in Routes : Targeted(R)} BY TargetedAtRest DEF RoutesComplete
<1>2. \A R \in D : RouteEntry(R, st.routes[R], Applied(Policies, R) \union EmbeddedFor(R)) BY DEF RoutesComplete
<1>3. IsFiniteSet(D)
  <2>1. D \subseteq Names /\ IsFiniteSet(Names) BY <1>1, NamesAssumption DEF Names
  <2>2. QED BY <2>1, FS_Subset
<1>4. \A R \in D : R \in Routes /\ api[R] # Absent /\ ~Bare(R) /\ ~Sectioned(R)
  BY <1>1, TargetedAtRest DEF Misread, Existing
<1>5. \A R \in D : CollectedHosts(st, R) = VHosts(R)
  <2>1. ASSUME NEW R \in D PROVE CollectedHosts(st, R) = VHosts(R)
    <3>1. st.routes[R].route = cache[R] /\ st.routes[R].gws = {cache[g] : g \in InUse(R)}
      BY <1>2 DEF RouteEntry
    <3>2. VirtualHosts(cache[R], {cache[g] : g \in InUse(R)}) = VHosts(R) BY <1>4, VirtualHostsAtRest
    <3>3. QED BY <3>1, <3>2 DEF CollectedHosts
  <2>2. QED BY <2>1
<1>6. \A R \in D : /\ DOMAIN own(R) = {r \in api[R].routes : RouteConfigs(R, r) # {}}
                   /\ \A r \in DOMAIN own(R) : toMergedPolicy(own(R)[r]).filters = InForce(RouteConfigs(R, r))
  BY <1>1, <1>2, RoutesAtRest
<1>7. \A R \in D : DOMAIN own(R) # {} BY <1>1, <1>4, <1>6, NotBareFacts
<1> HIDE DEF dp
<1>8. /\ DOMAIN dp.owner = UNION {CollectedHosts(st, n) : n \in D}
      /\ \A v \in DOMAIN dp.owner : dp.owner[v] \in D /\ v \in CollectedHosts(st, dp.owner[v])
      /\ \A n \in D : DOMAIN own(n) \subseteq DOMAIN dp.routes[n]
      /\ \A n \in D : (\A m \in D : m # n => CollectedHosts(st, m) \intersect CollectedHosts(st, n) = {}) =>
           \A r \in DOMAIN dp.routes[n] : r \in DOMAIN own(n) /\ dp.routes[n][r] = own(n)[r]
  BY <1>3, DataPlaneFacts DEF dp
<1>9. \A q : q \in Patches <=> Patched(dp, q) BY GeneratedFacts DEF dp
<1> HIDE DEF D, own
<1>10. \A v, r, m : Patch(v, r, m).vhost = v /\ Patch(v, r, m) = [vhost |-> v, route |-> r, filters |-> m.filters]
  BY DEF Patch
<1>11. ASSUME NEW R \in Routes, Targeted(R), Alone(R), NEW v \in VHosts(R)
       PROVE  {q \in Patches : q.vhost = v} =
                {[vhost |-> v, route |-> r, filters |-> InForce(RouteConfigs(R, r))] :
                  r \in {s \in api[R].routes : RouteConfigs(R, s) # {}}}
  <2>1. R \in D BY <1>1, <1>11
  <2>2. \A m \in D : m # R => CollectedHosts(st, m) \intersect CollectedHosts(st, R) = {}
    BY <1>1, <1>5, <2>1, <1>11 DEF Alone
  <2>3. v \in DOMAIN dp.owner /\ dp.owner[v] = R BY <1>8, <2>1, <2>2, <1>5, <1>11
  <2>4. /\ DOMAIN RoutesAt(dp, v) = DOMAIN own(R)
        /\ \A r \in DOMAIN own(R) : RoutesAt(dp, v)[r] = own(R)[r]
    BY <1>8, <2>1, <2>2, <2>3 DEF RoutesAt
  <2>5. \A r \in DOMAIN own(R) : MergedAt(dp, v, r).filters = InForce(RouteConfigs(R, r))
    BY <1>6, <2>1, <2>4 DEF MergedAt
  <2>6. ASSUME NEW q
        PROVE  q \in Patches /\ q.vhost = v <=> \E r \in DOMAIN own(R) : q = Patch(v, r, MergedAt(dp, v, r))
    <3>1. q \in Patches <=> Patched(dp, q) BY <1>9
    <3>2. ASSUME q \in Patches, q.vhost = v PROVE \E r \in DOMAIN own(R) : q = Patch(v, r, MergedAt(dp, v, r))
      <4>1. PICK w \in DOMAIN dp.owner : \E r \in DOMAIN RoutesAt(dp, w) : q = Patch(w, r, MergedAt(dp, w, r))
        BY <3>1, <3>2 DEF Patched
      <4>2. w = v BY <4>1, <3>2, <1>10
      <4>3. QED BY <4>1, <4>2, <2>4
    <3>3. ASSUME NEW r \in DOMAIN own(R), q = Patch(v, r, MergedAt(dp, v, r)) PROVE q \in Patches /\ q.vhost = v
      BY <3>1, <3>3, <2>3, <2>4, <1>10 DEF Patched
    <3>4. QED BY <3>2, <3>3
  <2>7. DOMAIN own(R) = {s \in api[R].routes : RouteConfigs(R, s) # {}} BY <1>6, <2>1
  <2>8. \A r \in DOMAIN own(R) : Patch(v, r, MergedAt(dp, v, r)) =
           [vhost |-> v, route |-> r, filters |-> InForce(RouteConfigs(R, r))]
    BY <2>5, <1>10
  <2>9. \A q : q \in Patches /\ q.vhost = v <=>
          \E r \in DOMAIN own(R) : q = [vhost |-> v, route |-> r, filters |-> InForce(RouteConfigs(R, r))]
    BY <2>6, <2>8
  <2>10. QED BY <2>7, <2>9
<1>12. {q.vhost : q \in Patches} = UNION {VHosts(R) : R \in {S \in Routes : Targeted(S)}}
  <2>1. \A v \in DOMAIN dp.owner : \E r : r \in DOMAIN RoutesAt(dp, v) BY <1>7, <1>8 DEF RoutesAt
  <2>2. ASSUME NEW v PROVE (\E q \in Patches : v = q.vhost) <=> v \in DOMAIN dp.owner
    <3>1. ASSUME NEW q \in Patches, v = q.vhost PROVE v \in DOMAIN dp.owner
      BY <3>1, <1>9, <1>10 DEF Patched
    <3>2. ASSUME v \in DOMAIN dp.owner PROVE \E q \in Patches : v = q.vhost
      <4>1. PICK r : r \in DOMAIN RoutesAt(dp, v) BY <2>1, <3>2
      <4>2. PICK q : q = Patch(v, r, MergedAt(dp, v, r)) OBVIOUS
      <4>3. q \in Patches /\ q.vhost = v BY <4>1, <4>2, <3>2, <1>9, <1>10 DEF Patched
      <4>4. QED BY <4>3
    <3>3. QED BY <3>1, <3>2
  <2>3. DOMAIN dp.owner = UNION {VHosts(R) : R \in D} BY <1>5, <1>8
  <2>4. \A v : v \in {q.vhost : q \in Patches} <=> v \in UNION {VHosts(R) : R \in D} BY <2>2, <2>3
  <2>5. QED BY <2>4, <1>1
<1>13. QED BY <1>11, <1>12 DEF RoutesCorrect

-----------------------------------------------------------------------------
(* The listeners: the servers of gateways, as they are in the copies.      *)
CachedSlots == UNION {{g} \X DOMAIN cache[g].servers : g \in Existing(cache, Gateways)}
ServerOf(x) == cache[x[1]].servers[x[2]]
SectionOf(x) == <<x[1], ServerOf(x).name>>
DistinctNames == \A x, y \in CachedSlots : SectionOf(x) = SectionOf(y) => ServerOf(x).port = ServerOf(y).port
Owns(x) == \A y \in CachedSlots : ServerOf(y).port = ServerOf(x).port => y = x

(* What has been collected is of these servers.                            *)
Heard(ls, s) == IF s \in DOMAIN ls.sections THEN ls.sections[s].policies ELSE {}
OfSlots(ls) ==
  /\ \A port \in DOMAIN ls.owner :
       \E x \in CachedSlots : ServerOf(x).port = port /\ ls.owner[port] = SectionOf(x)
  /\ \A s \in DOMAIN ls.sections :
       /\ ls.sections[s] = [port |-> ls.sections[s].port, policies |-> ls.sections[s].policies]
       /\ \E x \in CachedSlots : s = SectionOf(x) /\ ls.sections[s].port = ServerOf(x).port
  /\ \A s \in DOMAIN ls.bare : \E x \in CachedSlots : s = SectionOf(x) /\ ls.bare[s] = ServerOf(x).port

(* The policies among these for a server.                                  *)
SectionWrapper(p) == Wrapper(p, IF p.section = "any" THEN "Gateway" ELSE "Port", p.filters)
Fitting(policies, x) ==
  {SectionWrapper(p) : p \in {q \in policies : q.section \in {"any", ServerOf(x).name}}}
AddedTo(x, order, policies) == IF x[1] \in Range(order) THEN Fitting(policies[x[1]], x) ELSE {}

LEMMA CachedSlotFacts ==
  ASSUME Typed(cache)
  PROVE  /\ \A y : y \in CachedSlots <=>
              \E g \in Gateways : cache[g] # Absent /\ \E i \in DOMAIN cache[g].servers : y = <<g, i>>
         /\ \A x \in CachedSlots : x = <<x[1], x[2]>> /\ x[1] \in Existing(cache, Gateways) /\ x[2] \in Nat
                                   /\ x[2] \in DOMAIN cache[x[1]].servers
         /\ \A g \in Existing(cache, Gateways) : \A i \in DOMAIN cache[g].servers : <<g, i>> \in CachedSlots
<1>1. \A y : y \in CachedSlots <=>
        \E g \in Gateways : cache[g] # Absent /\ \E i \in DOMAIN cache[g].servers : y = <<g, i>>
  BY DEF CachedSlots, Existing
<1>2. ASSUME NEW g \in Gateways, cache[g] # Absent
      PROVE  DOMAIN cache[g].servers \subseteq Nat
  <2>1. g \in Names /\ g \notin Policies BY NamesAssumption DEF Names
  <2>2. cache[g] \in Given(g) BY <1>2, <2>1, VersionsFacts DEF Typed
  <2>3. cache[g].servers \in Seq(Range(cache[g].servers)) BY <2>2, SpecsAssumption
  <2>4. QED BY <2>3
<1>3. ASSUME NEW x \in CachedSlots
      PROVE  x = <<x[1], x[2]>> /\ x[1] \in Existing(cache, Gateways) /\ x[2] \in Nat
             /\ x[2] \in DOMAIN cache[x[1]].servers
  <2>1. PICK g \in Gateways : cache[g] # Absent /\ \E i \in DOMAIN cache[g].servers : x = <<g, i>> BY <1>1
  <2>2. PICK i \in DOMAIN cache[g].servers : x = <<g, i>> BY <2>1
  <2>3. x[1] = g /\ x[2] = i BY <2>2
  <2>4. QED BY <2>1, <2>2, <2>3, <1>2 DEF Existing
<1>4. ASSUME NEW g \in Existing(cache, Gateways), NEW i \in DOMAIN cache[g].servers
      PROVE  <<g, i>> \in CachedSlots
  <2>1. PICK y : y = <<g, i>> OBVIOUS
  <2>2. y \in CachedSlots BY <2>1, <1>1 DEF Existing
  <2>3. QED BY <2>1, <2>2
<1>5. QED BY <1>1, <1>3, <1>4

(* What adding gateways makes of it: each section that has its port for    *)
(* itself has the policies for it.                                         *)
LEMMA AddGatewaysFacts ==
  ASSUME Typed(cache), DistinctNames, NEW ls, OfSlots(ls), NEW order, NEW policies,
         Range(order) \subseteq Existing(cache, Gateways), DOMAIN order \subseteq Nat,
         \A g \in Range(order) : policies[g] = {} \/ \E p : policies[g] = {p},
         NEW new, new = AddGateways(ls, cache, order, policies)
  PROVE  /\ OfSlots(new)
         /\ \A x \in CachedSlots : Owns(x) =>
              Heard(new, SectionOf(x)) = Heard(ls, SectionOf(x)) \union AddedTo(x, order, policies)
         /\ (Range(order) = Existing(cache, Gateways) /\ \A g \in Range(order) : policies[g] = {}) =>
              Ports(new) = {ServerOf(x).port : x \in CachedSlots}
<1> DEFINE server(x) == cache[x[1]].servers[x[2]]
           section(x) == <<x[1], server(x).name>>
           wrappers(x) == {Wrapper(p, IF p.section = "any" THEN "Gateway" ELSE "Port", p.filters) : p \in policies[x[1]]}
           asking == {x \in UNION {{g} \X DOMAIN cache[g].servers : g \in Range(order)} :
                        \A p \in policies[x[1]] : p.section \in {"any", server(x).name}}
           before(x, y) == \/ Rank(order, x[1]) < Rank(order, y[1])
                           \/ x[1] = y[1] /\ x[2] <= y[2]
           first(xs) == CHOOSE x \in xs : \A y \in xs : before(x, y)
           owner == [port \in DOMAIN ls.owner \union {server(x).port : x \in asking} |->
                       IF port \in DOMAIN ls.owner THEN ls.owner[port]
                       ELSE section(first({x \in asking : server(x).port = port}))]
           heard == {x \in asking : owner[server(x).port] = section(x)}
           with == {x \in heard : policies[x[1]] # {}}
           of(xs, s) == {x \in xs : section(x) = s}
           prior(s) == IF s \in DOMAIN ls.sections THEN ls.sections[s]
                         ELSE [port |-> server(first(of(with, s))).port, policies |-> {}]
           sections == [s \in DOMAIN ls.sections \union {section(x) : x \in with} |->
                          [prior(s) EXCEPT !.policies = @ \union UNION {wrappers(x) : x \in of(with, s)}]]
           bare == [s \in DOMAIN ls.bare \union {section(x) : x \in heard \ with} |->
                      IF s \in DOMAIN ls.bare THEN ls.bare[s] ELSE server(first(of(heard \ with, s))).port]
<1>0. new = [owner |-> owner, sections |-> sections, bare |-> bare]
  BY Zenon DEF AddGateways
<1>1. \A x : server(x) = ServerOf(x) /\ section(x) = SectionOf(x) BY DEF ServerOf, SectionOf
<1>2. /\ \A x \in CachedSlots : x = <<x[1], x[2]>> /\ x[1] \in Existing(cache, Gateways) /\ x[2] \in Nat
                                /\ x[2] \in DOMAIN cache[x[1]].servers
      /\ \A g \in Existing(cache, Gateways) : \A i \in DOMAIN cache[g].servers : <<g, i>> \in CachedSlots
  BY CachedSlotFacts
<1>3. \A x : x \in asking <=> /\ x \in CachedSlots /\ x[1] \in Range(order)
                              /\ \A p \in policies[x[1]] : p.section \in {"any", server(x).name}
  <2>1. ASSUME NEW x PROVE x \in UNION {{g} \X DOMAIN cache[g].servers : g \in Range(order)}
                             <=> x \in CachedSlots /\ x[1] \in Range(order)
    <3>1. ASSUME NEW g \in Range(order), x \in {g} \X DOMAIN cache[g].servers
          PROVE  x \in CachedSlots /\ x[1] \in Range(order)
      <4>1. PICK i \in DOMAIN cache[g].servers : x = <<g, i>> BY <3>1
      <4>2. QED BY <4>1, <3>1, <1>2
    <3>2. ASSUME x \in CachedSlots, x[1] \in Range(order)
          PROVE  \E g \in Range(order) : x \in {g} \X DOMAIN cache[g].servers
      <4>1. x = <<x[1], x[2]>> /\ x[2] \in DOMAIN cache[x[1]].servers BY <3>2, <1>2
      <4> DEFINE g == x[1]
                 i == x[2]
      <4>2. x = <<g, i>> /\ i \in DOMAIN cache[g].servers BY <4>1
      <4> HIDE DEF g, i
      <4>3. x \in {g} \X DOMAIN cache[g].servers BY <4>2
      <4>4. QED BY <4>3, <3>2 DEF g
    <3>3. QED BY <3>1, <3>2
  <2>2. QED BY <2>1
<1> HIDE DEF asking, server, section
<1>4. ASSUME NEW xs, xs \subseteq asking, xs # {}
      PROVE  first(xs) \in xs
  <2> DEFINE f == [x \in xs |-> Rank(order, x[1])]
             h == [x \in xs |-> x[2]]
  <2>1. ASSUME NEW x \in xs
        PROVE  /\ f[x] \in Nat /\ h[x] \in Nat /\ f[x] = Rank(order, x[1]) /\ h[x] = x[2]
               /\ order[f[x]] = x[1]
    <3>1. x[1] \in Range(order) /\ x[2] \in Nat BY <1>2, <1>3, <1>4
    <3>2. Rank(order, x[1]) \in DOMAIN order /\ order[Rank(order, x[1])] = x[1] BY <3>1, RankFacts
    <3>3. QED BY <3>1, <3>2
  <2> HIDE DEF f, h
  <2>4. \A F, G : (\A x \in xs : F[x] \in Nat /\ G[x] \in Nat) =>
          \E x \in xs : \A y \in xs : F[x] < F[y] \/ (F[x] = F[y] /\ G[x] <= G[y])
    BY <1>4, FirstByTwo
  <2>2. PICK x \in xs : \A y \in xs : f[x] < f[y] \/ (f[x] = f[y] /\ h[x] <= h[y])
    BY <2>1, <2>4
  <2>3. \A y \in xs : before(x, y) BY <2>1, <2>2
  <2> HIDE DEF before
  <2>5. QED BY <2>3
<1> HIDE DEF first
<1>5. ASSUME NEW port \in DOMAIN owner
      PROVE  \E x \in CachedSlots : ServerOf(x).port = port /\ owner[port] = SectionOf(x)
  <2>1. CASE port \in DOMAIN ls.owner BY <2>1 DEF OfSlots
  <2>2. CASE port \notin DOMAIN ls.owner
    <3> DEFINE xs == {x \in asking : server(x).port = port}
    <3>1. xs # {} /\ xs \subseteq asking BY <2>2, <1>5
    <3>2. owner[port] = section(first(xs)) BY <2>2
    <3>3. \A x \in xs : x \in CachedSlots /\ server(x).port = port BY <1>3
    <3> HIDE DEF xs
    <3>4. first(xs) \in xs BY <3>1, <1>4
    <3>5. QED BY <3>2, <3>3, <3>4, <1>1
  <2>3. QED BY <2>1, <2>2
<1>6. DOMAIN owner = DOMAIN ls.owner \union {server(x).port : x \in asking} OBVIOUS
<1> HIDE DEF owner
<1>7. /\ \A x : x \in heard <=> x \in asking /\ owner[server(x).port] = section(x)
      /\ \A x : x \in with <=> x \in heard /\ policies[x[1]] # {}
  OBVIOUS
<1>8. \A s, xs : first(of(xs, s)) \in of(xs, s) \/ of(xs, s) = {} \/ ~(xs \subseteq asking)
  BY <1>4
<1>9. \A xs, s, x : x \in of(xs, s) <=> x \in xs /\ section(x) = s OBVIOUS
<1>10. with \subseteq asking /\ heard \ with \subseteq asking BY <1>7
<1> HIDE DEF heard, with, of
<1>11. DOMAIN sections = DOMAIN ls.sections \union {section(x) : x \in with} OBVIOUS
<1>12. ASSUME NEW s \in DOMAIN sections
       PROVE  /\ sections[s] = [port |-> sections[s].port, policies |-> sections[s].policies]
              /\ \E x \in CachedSlots : s = SectionOf(x) /\ sections[s].port = ServerOf(x).port
              /\ sections[s].policies = Heard(ls, s) \union UNION {wrappers(x) : x \in of(with, s)}
  <2> DEFINE more == UNION {wrappers(x) : x \in of(with, s)}
  <2>1. sections[s] = [prior(s) EXCEPT !.policies = @ \union more] OBVIOUS
  <2>2. /\ prior(s) = [port |-> prior(s).port, policies |-> prior(s).policies]
        /\ prior(s).policies = Heard(ls, s)
        /\ \E x \in CachedSlots : s = SectionOf(x) /\ prior(s).port = ServerOf(x).port
    <3>1. CASE s \in DOMAIN ls.sections
      <4>1. prior(s) = ls.sections[s] BY <3>1
      <4> HIDE DEF prior
      <4>2. QED BY <4>1, <3>1 DEF OfSlots, Heard
    <3>2. CASE s \notin DOMAIN ls.sections
      <4>1. of(with, s) # {} BY <3>2, <1>9, <1>11
      <4>2. first(of(with, s)) \in of(with, s) BY <4>1, <1>8, <1>10
      <4>3. PICK x : x = first(of(with, s)) OBVIOUS
      <4>4. x \in CachedSlots /\ section(x) = s BY <4>2, <4>3, <1>3, <1>9, <1>10
      <4>5. prior(s) = [port |-> server(x).port, policies |-> {}] BY <3>2, <4>3
      <4> HIDE DEF prior
      <4>6. prior(s).port = server(x).port /\ prior(s).policies = {} BY <4>5
      <4>7. QED BY <4>4, <4>5, <4>6, <3>2, <1>1 DEF Heard
    <3>3. QED BY <3>1, <3>2
  <2> HIDE DEF prior, more, sections
  <2>3. /\ sections[s].port = prior(s).port
        /\ sections[s].policies = prior(s).policies \union more
        /\ sections[s] = [port |-> sections[s].port, policies |-> sections[s].policies]
    BY <2>1, <2>2
  <2>4. QED BY <2>2, <2>3 DEF more
<1>13. DOMAIN bare = DOMAIN ls.bare \union {section(x) : x \in heard \ with} OBVIOUS
<1>14. ASSUME NEW s \in DOMAIN bare
       PROVE  \E x \in CachedSlots : s = SectionOf(x) /\ bare[s] = ServerOf(x).port
  <2>1. CASE s \in DOMAIN ls.bare BY <2>1 DEF OfSlots
  <2>2. CASE s \notin DOMAIN ls.bare
    <3>1. of(heard \ with, s) # {} BY <2>2, <1>9, <1>13
    <3>2. first(of(heard \ with, s)) \in of(heard \ with, s) BY <3>1, <1>8, <1>10
    <3>3. PICK x : x = first(of(heard \ with, s)) OBVIOUS
    <3>4. x \in CachedSlots /\ section(x) = s BY <3>2, <3>3, <1>3, <1>9, <1>10
    <3>5. bare[s] = server(x).port BY <2>2, <3>3, <1>14
    <3>6. QED BY <3>4, <3>5, <1>1
  <2>3. QED BY <2>1, <2>2
<1> HIDE DEF sections, bare, prior
<1>15. new.owner = owner /\ new.sections = sections /\ new.bare = bare BY <1>0
<1>16. OfSlots(new) BY <1>5, <1>12, <1>14, <1>15 DEF OfSlots
<1>17. ASSUME NEW x \in CachedSlots, Owns(x)
       PROVE  Heard(new, SectionOf(x)) = Heard(ls, SectionOf(x)) \union AddedTo(x, order, policies)
  <2> DEFINE s == SectionOf(x)
  <2>1. of(with, s) \subseteq {x}
    <3>1. ASSUME NEW y \in of(with, s) PROVE y = x
      <4>1. y \in CachedSlots /\ SectionOf(y) = SectionOf(x) BY <3>1, <1>1, <1>3, <1>9, <1>10
      <4>2. ServerOf(y).port = ServerOf(x).port BY <4>1 DEF DistinctNames
      <4>3. QED BY <4>1, <4>2, <1>17 DEF Owns
    <3>2. QED BY <3>1
  <2>2. Heard(new, s) = Heard(ls, s) \union UNION {wrappers(y) : y \in of(with, s)}
    <3>1. CASE s \in DOMAIN sections BY <3>1, <1>12, <1>15 DEF Heard
    <3>2. CASE s \notin DOMAIN sections
      <4>1. s \notin DOMAIN ls.sections /\ of(with, s) = {} BY <3>2, <1>9, <1>11
      <4>2. QED BY <3>2, <4>1, <1>15 DEF Heard
    <3>3. QED BY <3>1, <3>2
  <2>3. x \in with <=> x \in asking /\ policies[x[1]] # {}
    <3>1. ASSUME x \in asking PROVE owner[server(x).port] = section(x)
      <4>1. server(x).port \in DOMAIN owner BY <3>1, <1>6
      <4>2. PICK y \in CachedSlots : ServerOf(y).port = server(x).port /\ owner[server(x).port] = SectionOf(y)
        BY <4>1, <1>5
      <4>3. y = x BY <4>2, <1>1, <1>17 DEF Owns
      <4>4. QED BY <4>2, <4>3, <1>1
    <3>2. QED BY <3>1, <1>7
  <2>4. UNION {wrappers(y) : y \in of(with, s)} = AddedTo(x, order, policies)
    <3>1. CASE x \in with
      <4>1. of(with, s) = {x} BY <3>1, <2>1, <1>1, <1>9
      <4>2. x[1] \in Range(order) /\ \A p \in policies[x[1]] : p.section \in {"any", ServerOf(x).name}
        BY <3>1, <2>3, <1>1, <1>3
      <4>3. UNION {wrappers(y) : y \in of(with, s)} = wrappers(x) BY <4>1
      <4>4. wrappers(x) = {SectionWrapper(p) : p \in policies[x[1]]} BY DEF SectionWrapper
      <4>5. {q \in policies[x[1]] : q.section \in {"any", ServerOf(x).name}} = policies[x[1]] BY <4>2
      <4>6. QED BY <4>2, <4>3, <4>4, <4>5 DEF AddedTo, Fitting
    <3>2. CASE x \notin with
      <4>1. of(with, s) = {} BY <3>2, <2>1, <1>9
      <4>2. AddedTo(x, order, policies) = {}
        <5>1. CASE x[1] \notin Range(order) BY <5>1 DEF AddedTo
        <5>2. CASE x[1] \in Range(order) /\ policies[x[1]] = {} BY <5>2 DEF AddedTo, Fitting
        <5>3. CASE x[1] \in Range(order) /\ policies[x[1]] # {}
          <6>1. x \notin asking BY <3>2, <2>3, <5>3
          <6>2. PICK p : policies[x[1]] = {p} BY <5>3
          <6>3. p.section \notin {"any", ServerOf(x).name} BY <6>1, <6>2, <5>3, <1>1, <1>3
          <6>4. {q \in policies[x[1]] : q.section \in {"any", ServerOf(x).name}} = {} BY <6>2, <6>3
          <6>5. QED BY <6>4 DEF AddedTo, Fitting
        <5>4. QED BY <5>1, <5>2, <5>3
      <4>3. QED BY <4>1, <4>2
    <3>3. QED BY <3>1, <3>2
  <2>5. QED BY <2>2, <2>4
<1>18. ASSUME Range(order) = Existing(cache, Gateways), \A g \in Range(order) : policies[g] = {}
       PROVE  Ports(new) = {ServerOf(x).port : x \in CachedSlots}
  <2>1. \A x \in CachedSlots : x \in asking /\ policies[x[1]] = {} BY <1>2, <1>3, <1>18
  <2>2. ASSUME NEW x \in CachedSlots PROVE ServerOf(x).port \in {bare[s] : s \in DOMAIN bare}
    <3>1. ServerOf(x).port \in DOMAIN owner BY <2>1, <1>1, <1>6
    <3>2. PICK y \in CachedSlots : ServerOf(y).port = ServerOf(x).port /\ owner[ServerOf(x).port] = SectionOf(y)
      BY <3>1, <1>5
    <3>3. y \in heard \ with BY <3>2, <2>1, <1>1, <1>7
    <3>4. SectionOf(y) \in DOMAIN bare BY <3>3, <1>1, <1>13
    <3>5. PICK z \in CachedSlots : SectionOf(y) = SectionOf(z) /\ bare[SectionOf(y)] = ServerOf(z).port
      BY <3>4, <1>14
    <3>6. ServerOf(z).port = ServerOf(y).port BY <3>5 DEF DistinctNames
    <3>7. QED BY <3>2, <3>4, <3>5, <3>6
  <2>3. \A s \in DOMAIN sections : sections[s].port \in {ServerOf(x).port : x \in CachedSlots} BY <1>12
  <2>4. \A s \in DOMAIN bare : bare[s] \in {ServerOf(x).port : x \in CachedSlots} BY <1>14
  <2>5. Ports(new) = {sections[s].port : s \in DOMAIN sections} \union {bare[s] : s \in DOMAIN bare}
    BY <1>15 DEF Ports
  <2>6. QED BY <2>2, <2>3, <2>4, <2>5
<1>19. QED BY <1>16, <1>17, <1>18

-----------------------------------------------------------------------------
(* What a reconciliation has collected: of the policies resolved so far,   *)
(* or, in the end, of all policies and annotations.                        *)
Handled == {items[i].name : i \in {j \in DOMAIN items : j < at}}
AppliedAt(done, x) == Fitting({Translated(p, cache[p]) : p \in Chosen(done, x[1])}, x)
EmbeddedAt(x) == IF x[1] \in Owners THEN Fitting({Embedded(cache[x[1]])}, x) ELSE {}
RoutesFor(done, routes) ==
  /\ DOMAIN routes = {R \in Routes : Chosen(done, R) # {}}
  /\ \A R \in DOMAIN routes : RouteEntry(R, routes[R], Applied(done, R))
ListenersFor(done, ls) ==
  IF ~lds THEN ls = NoListeners
  ELSE DistinctNames => /\ OfSlots(ls)
                        /\ \A x \in CachedSlots : Owns(x) => Heard(ls, SectionOf(x)) = AppliedAt(done, x)
ListenersComplete(ls) ==
  IF ~lds THEN ls = NoListeners
  ELSE DistinctNames =>
         /\ OfSlots(ls) /\ Ports(ls) = {ServerOf(x).port : x \in CachedSlots}
         /\ \A x \in CachedSlots : Owns(x) => Heard(ls, SectionOf(x)) = AppliedAt(Policies, x) \union EmbeddedAt(x)
Complete(st) == RoutesComplete(st.routes) /\ ListenersComplete(st.listeners)

Reliable == ~queued /\ "gateway" \notin holes
Collecting ==
  Reliable =>
    /\ phase = "resolve" => RoutesFor(Handled, init.routes) /\ ListenersFor(Handled, init.listeners)
    /\ phase = "output" => Complete(init)
EmbeddedWatched == ~queued /\ phase # "resolve" => \A R \in Hosts : Named(cache[R]) \subseteq gwIndex
Enforcing ==
  phase \in {"status", "idle"} /\ ~queued /\ holes \subseteq {"status"} =>
    \E st : /\ Complete(st)
            /\ \E generated \in Process(st) : SpecsOf(efs) = SpecsOf(generated)
CInv == Collecting /\ EmbeddedWatched /\ Enforcing

-----------------------------------------------------------------------------
(* The configurations of a section of a gateway.                           *)
LEMMA SectionConfigsFacts ==
  ASSUME NEW g, NEW s, NEW c
  PROVE  c \in SectionConfigs(g, s) <=>
           \/ \E p \in PoliciesOf(g) : Spec0(p).section = "any" /\ c = Config(0, p, Spec0(p).filters)
           \/ \E p \in PoliciesOf(g) : Spec0(p).section = s /\ c = Config(1, p, Spec0(p).filters)
           \/ HasAnnotation(g) /\ c = OfAnnotation(0, api[g].embedded.filters)
<1> DEFINE E == IF HasAnnotation(g) THEN {OfAnnotation(0, api[g].embedded.filters)} ELSE {}
<1>1. c \in E <=> HasAnnotation(g) /\ c = OfAnnotation(0, api[g].embedded.filters) OBVIOUS
<1>2. SectionConfigs(g, s) =
        {Config(0, p, Spec0(p).filters) : p \in {q \in PoliciesOf(g) : Spec0(q).section = "any"}}
        \union {Config(1, p, Spec0(p).filters) : p \in {q \in PoliciesOf(g) : Spec0(q).section = s}}
        \union E
  BY DEF SectionConfigs
<1> HIDE DEF E
<1>3. QED BY <1>1, <1>2

LEMMA FittingFacts ==
  ASSUME NEW policies, NEW x, NEW w
  PROVE  w \in Fitting(policies, x) <=>
           \E p \in policies : p.section \in {"any", ServerOf(x).name} /\ w = SectionWrapper(p)
BY DEF Fitting

(* What is collected for a section comes to its configurations.            *)
LEMMA SectionAtRest ==
  ASSUME AtRest, lds, NEW x \in CachedSlots
  PROVE  toMergedPolicy(AppliedAt(Policies, x) \union EmbeddedAt(x)).filters =
           InForce(SectionConfigs(x[1], ServerOf(x).name))
<1> DEFINE W == AppliedAt(Policies, x) \union EmbeddedAt(x)
           C == SectionConfigs(x[1], ServerOf(x).name)
           g == x[1]
           name == ServerOf(x).name
           T(p) == Translated(p, api[p])
           A == Embedded(api[g])
<1>1. cache = api /\ Typed(cache) BY DEF AtRest
<1>2. g \in Gateways /\ api[g] # Absent /\ g \in Names /\ g \notin Policies /\ name # "any"
  <2>1. g \in Gateways /\ api[g] # Absent /\ x[2] \in DOMAIN cache[g].servers
    BY <1>1, CachedSlotFacts DEF Existing
  <2>2. g \in Names /\ g \notin Policies BY <2>1, NamesAssumption DEF Names
  <2>3. api[g] \in Given(g) BY <1>1, <2>1, <2>2, VersionsFacts DEF Typed
  <2>4. api[g].servers[x[2]].name # "any" BY <1>1, <2>1, <2>3, SectionsAssumption
  <2>5. QED BY <2>1, <2>2, <2>4, <1>1 DEF ServerOf
<1>3. Chosen(Policies, g) = PoliciesOf(g) BY <1>2, ChosenAtRest
<1>4. \A p \in PoliciesOf(g) : /\ p \in Policies /\ p # "embedded" /\ api[p].created \in Nat
                               /\ Spec0(p).section \in {"any"} \union {Spec0(p).section}
  <2>1. ASSUME NEW p \in PoliciesOf(g) PROVE p \in Policies /\ p # "embedded" /\ api[p].created \in Nat
    <3>1. p \in Policies /\ api[p] # Absent BY DEF PoliciesOf, Effective, Live
    <3>2. p \in Names BY <3>1 DEF Names
    <3>3. api[p] \in PolicyVersions(p) BY <3>1, <3>2, <1>1, VersionsFacts DEF Typed
    <3>4. QED BY <3>1, <3>3, PolicyVersionFacts, AlphabeticalAssumption
  <2>2. QED BY <2>1
<1>5. g \in Owners <=> HasAnnotation(g)
  <2>1. api[g] \in Given(g) BY <1>1, <1>2, VersionsFacts DEF Typed
  <2>2. api[g].kind \in {"Istio", "K8s"} BY <1>2, <2>1, SpecsAssumption
  <2>3. QED BY <1>1, <1>2, <2>2 DEF Owners, Istio, HasEmbedded, HasAnnotation, Existing
<1>6. ASSUME NEW w
      PROVE  w \in W <=>
               \/ \E p \in PoliciesOf(g) : T(p).section \in {"any", name} /\ w = SectionWrapper(T(p))
               \/ HasAnnotation(g) /\ A.section \in {"any", name} /\ w = SectionWrapper(A)
  <2> DEFINE P == {Translated(p, cache[p]) : p \in Chosen(Policies, g)}
  <2>1. w \in AppliedAt(Policies, x) <=> \E q \in P : q.section \in {"any", name} /\ w = SectionWrapper(q)
    <3>1. AppliedAt(Policies, x) = Fitting(P, x) BY DEF AppliedAt
    <3> HIDE DEF P
    <3>2. QED BY <3>1, FittingFacts
  <2>2. (\E q \in P : q.section \in {"any", name} /\ w = SectionWrapper(q)) <=>
          \E p \in PoliciesOf(g) : T(p).section \in {"any", name} /\ w = SectionWrapper(T(p))
    BY <1>1, <1>3
  <2>3. w \in EmbeddedAt(x) <=> HasAnnotation(g) /\ A.section \in {"any", name} /\ w = SectionWrapper(A)
    <3>1. CASE HasAnnotation(g)
      <4>1. EmbeddedAt(x) = Fitting({A}, x) BY <3>1, <1>1, <1>5 DEF EmbeddedAt
      <4> HIDE DEF A
      <4>2. QED BY <4>1, <3>1, FittingFacts
    <3>2. CASE ~HasAnnotation(g)
      <4>1. EmbeddedAt(x) = {} BY <3>2, <1>5 DEF EmbeddedAt
      <4>2. QED BY <4>1, <3>2
    <3>3. QED BY <3>1, <3>2
  <2>4. QED BY <2>1, <2>2, <2>3
<1> HIDE DEF W
<1>7. ASSUME NEW p \in PoliciesOf(g)
      PROVE  /\ SectionWrapper(T(p)).by = p /\ SectionWrapper(T(p)).created = api[p].created
             /\ SectionWrapper(T(p)).filters = Spec0(p).filters
             /\ SectionWrapper(T(p)).scope = IF Spec0(p).section = "any" THEN "Gateway" ELSE "Port"
             /\ T(p).section = Spec0(p).section
  BY TranslatedFacts, WrapperFacts DEF SectionWrapper
<1>8. /\ SectionWrapper(A).by = "embedded" /\ SectionWrapper(A).created = 0
      /\ SectionWrapper(A).filters = api[g].embedded.filters /\ SectionWrapper(A).scope = "Gateway"
      /\ A.section = "any"
  BY TranslatedFacts, WrapperFacts DEF SectionWrapper
<1> HIDE DEF A
<1>9. Mergeable(W, "Port", "Gateway")
  <2>1. \A w \in W : w.scope \in {"Port", "Gateway"} /\ w.created \in Nat /\ w.by \in Policies \union {"embedded"}
    BY <1>4, <1>6, <1>7, <1>8
  <2>2. ASSUME NEW v \in W, NEW w \in W, v.scope = w.scope, v.by = w.by PROVE v = w
    <3>1. CASE w.by = "embedded" BY <3>1, <2>2, <1>4, <1>6, <1>7
    <3>2. CASE w.by # "embedded"
      <4>1. PICK p \in PoliciesOf(g) : w = SectionWrapper(T(p)) BY <3>2, <1>6, <1>8
      <4>2. PICK q \in PoliciesOf(g) : v = SectionWrapper(T(q)) BY <3>2, <2>2, <1>6, <1>8
      <4>3. p = q BY <4>1, <4>2, <2>2, <1>7
      <4>4. QED BY <4>1, <4>2, <4>3
    <3>3. QED BY <3>1, <3>2
  <2>3. QED BY <2>1, <2>2 DEF Mergeable
<1>10. ASSUME NEW p \in PoliciesOf(g)
       PROVE  /\ Spec0(p).section = "any" => SameAs(SectionWrapper(T(p)), Config(0, p, Spec0(p).filters), "Port")
              /\ Spec0(p).section # "any" => SameAs(SectionWrapper(T(p)), Config(1, p, Spec0(p).filters), "Port")
  BY <1>7, ConfigFacts DEF SameAs
<1>11. SameAs(SectionWrapper(A), OfAnnotation(0, api[g].embedded.filters), "Port") BY <1>8, ConfigFacts DEF SameAs
<1>12. \A w \in W : \E c \in C : SameAs(w, c, "Port")
  <2>1. ASSUME NEW w \in W PROVE \E c \in C : SameAs(w, c, "Port")
    <3>1. CASE \E p \in PoliciesOf(g) : T(p).section \in {"any", name} /\ w = SectionWrapper(T(p))
      <4>1. PICK p \in PoliciesOf(g) : T(p).section \in {"any", name} /\ w = SectionWrapper(T(p)) BY <3>1
      <4>2. CASE Spec0(p).section = "any"
        <5>1. Config(0, p, Spec0(p).filters) \in C BY <4>2, SectionConfigsFacts
        <5>2. QED BY <5>1, <4>1, <4>2, <1>10
      <4>3. CASE Spec0(p).section # "any"
        <5>1. Spec0(p).section = name BY <4>1, <4>3, <1>7
        <5>2. Config(1, p, Spec0(p).filters) \in C BY <5>1, SectionConfigsFacts
        <5>3. QED BY <5>2, <4>1, <4>3, <1>10
      <4>4. QED BY <4>2, <4>3
    <3>2. CASE HasAnnotation(g) /\ w = SectionWrapper(A)
      <4>1. OfAnnotation(0, api[g].embedded.filters) \in C BY <3>2, SectionConfigsFacts
      <4>2. QED BY <4>1, <3>2, <1>11
    <3>3. QED BY <3>1, <3>2, <1>6
  <2>2. QED BY <2>1
<1>13. \A c \in C : \E w \in W : SameAs(w, c, "Port")
  <2>1. ASSUME NEW c \in C PROVE \E w \in W : SameAs(w, c, "Port")
    <3>1. ASSUME NEW p \in PoliciesOf(g), Spec0(p).section = "any", c = Config(0, p, Spec0(p).filters)
          PROVE  \E w \in W : SameAs(w, c, "Port")
      <4>1. SectionWrapper(T(p)) \in W BY <3>1, <1>6, <1>7
      <4>2. QED BY <4>1, <3>1, <1>10
    <3>2. ASSUME NEW p \in PoliciesOf(g), Spec0(p).section = name, c = Config(1, p, Spec0(p).filters)
          PROVE  \E w \in W : SameAs(w, c, "Port")
      <4>1. SectionWrapper(T(p)) \in W BY <3>2, <1>6, <1>7
      <4>2. Spec0(p).section # "any" BY <3>2, <1>2
      <4>3. QED BY <4>1, <4>2, <3>2, <1>10
    <3>3. ASSUME HasAnnotation(g), c = OfAnnotation(0, api[g].embedded.filters)
          PROVE  \E w \in W : SameAs(w, c, "Port")
      <4>1. SectionWrapper(A) \in W BY <3>3, <1>6, <1>8
      <4>2. QED BY <4>1, <3>3, <1>11
    <3>4. QED BY <3>1, <3>2, <3>3, SectionConfigsFacts
  <2>2. QED BY <2>1
<1> HIDE DEF C
<1>14. toMergedPolicy(W).filters = InForce(C) BY <1>9, <1>12, <1>13, MergedIsInForce
<1>15. QED BY <1>14 DEF W, C

(* At rest listeners have what the gateways ask for.                       *)
LEMMA ListenersAreCorrect ==
  ASSUME AtRest, ~Misread, NEW st, ListenersComplete(st.listeners), NEW dp, GeneratedFrom(dp, st.listeners)
  PROVE  ListenersCorrect
<1> DEFINE ls == st.listeners
<1>1. cache = api /\ Typed(cache) BY DEF AtRest
<1>2. Slots = CachedSlots /\ \A x : ServerAt(x) = ServerOf(x)
  BY <1>1 DEF Slots, CachedSlots, ServerAt, ServerOf
<1>3. DistinctNames
  <2>1. ASSUME NEW x \in CachedSlots, NEW y \in CachedSlots, SectionOf(x) = SectionOf(y)
        PROVE  ServerOf(x).port = ServerOf(y).port
    <3>1. x[1] = y[1] /\ ServerAt(x).name = ServerAt(y).name BY <2>1, <1>2 DEF SectionOf
    <3>2. QED BY <3>1, <1>2 DEF Misread
  <2>2. QED BY <2>1 DEF DistinctNames
<1>4. Ports(ls) = AskedPorts
  <2>1. CASE lds BY <2>1, <1>2, <1>3 DEF ListenersComplete, AskedPorts
  <2>2. CASE ~lds
    <3>1. ls = NoListeners BY <2>2 DEF ListenersComplete
    <3>2. Ports(ls) = {} BY <3>1 DEF Ports, NoListeners, Nothing
    <3>3. QED BY <3>2, <2>2 DEF AskedPorts
  <2>3. QED BY <2>1, <2>2
<1>5. {k[2] : k \in {x \in DOMAIN efs : x[1] = "lds"}} = AskedPorts BY <1>4, GeneratedFacts
<1>6. ASSUME NEW x \in Slots, lds, SlotsOf(ServerAt(x).port) = {x}
      PROVE  efs[ListenerKey(ServerAt(x).port)].spec =
               {[vhost |-> "listener", route |-> "any", filters |-> InForce(SectionConfigs(x[1], ServerAt(x).name))]}
  <2> DEFINE port == ServerAt(x).port
             s == SectionOf(x)
             merged == toMergedPolicy(PoliciesAt(ls, port))
  <2>1. x \in CachedSlots /\ ServerAt(x) = ServerOf(x) BY <1>2, <1>6
  <2>2. Owns(x)
    <3>1. \A y \in Slots : ServerAt(y).port = port => y = x BY <1>6 DEF SlotsOf
    <3>2. QED BY <3>1, <1>2 DEF Owns
  <2>3. OfSlots(ls) /\ Heard(ls, s) = AppliedAt(Policies, x) \union EmbeddedAt(x)
    BY <1>3, <1>6, <2>1, <2>2 DEF ListenersComplete
  <2>4. PoliciesAt(ls, port) = Heard(ls, s)
    <3>1. ASSUME NEW t \in DOMAIN ls.sections
          PROVE  t = s <=> ls.sections[t].port = port
      <4>1. PICK y \in CachedSlots : t = SectionOf(y) /\ ls.sections[t].port = ServerOf(y).port
        BY <2>3 DEF OfSlots
      <4>2. t = s => ServerOf(y).port = ServerOf(x).port BY <4>1, <2>1, <1>3 DEF DistinctNames
      <4>3. ServerOf(y).port = ServerOf(x).port => y = x BY <2>2 DEF Owns
      <4>4. QED BY <4>1, <4>2, <4>3, <2>1
    <3>2. Sections(ls, port) = IF s \in DOMAIN ls.sections THEN {s} ELSE {} BY <3>1 DEF Sections
    <3>3. CASE s \in DOMAIN ls.sections
      <4>1. (CHOOSE t \in {s} : TRUE) = s OBVIOUS
      <4>2. QED BY <3>2, <3>3, <4>1 DEF PoliciesAt, Heard
    <3>4. CASE s \notin DOMAIN ls.sections BY <3>2, <3>4 DEF PoliciesAt, Heard
    <3>5. QED BY <3>3, <3>4
  <2>5. merged.filters = InForce(SectionConfigs(x[1], ServerAt(x).name))
    BY <2>1, <2>3, <2>4, <1>6, SectionAtRest
  <2>6. port \in Ports(ls) BY <1>4, <1>6 DEF AskedPorts
  <2> HIDE DEF merged, port
  <2>7. efs[ListenerKey(port)].spec = {Patch("listener", "any", merged)} BY <2>6, GeneratedFacts DEF merged
  <2>8. Patch("listener", "any", merged) = [vhost |-> "listener", route |-> "any", filters |-> merged.filters]
    BY DEF Patch
  <2>9. QED BY <2>5, <2>7, <2>8 DEF port
<1>7. QED BY <1>5, <1>6 DEF ListenersCorrect

(* What a complete reconciliation writes is correct once all is seen.      *)
LEMMA CompleteIsCorrect ==
  ASSUME AtRest, NEW st, Complete(st), NEW generated \in Process(st), SpecsOf(efs) = SpecsOf(generated)
  PROVE  Correct
<1>1. SUFFICES ASSUME ~Misread PROVE RoutesCorrect /\ ListenersCorrect BY DEF Correct
<1>2. PICK order \in SetToSeqs(DOMAIN st.routes) :
         generated = Generated(RouteFilters(toDataPlaneState(st, order)), ListenerFilters(st.listeners))
  BY Zenon DEF Process
<1>3. GeneratedFrom(toDataPlaneState(st, order), st.listeners) BY <1>2 DEF GeneratedFrom
<1>4. RoutesComplete(st.routes) /\ ListenersComplete(st.listeners) BY DEF Complete
<1>5. QED BY <1>1, <1>3, <1>4, RoutesAreCorrect, ListenersAreCorrect
-----------------------------------------------------------------------------
(* What has been collected remains right while the copies it was collected *)
(* from remain what they are.                                              *)
Kept(R) == cache'[R] = cache[R] /\ \A g \in Named(cache[R]) : cache'[g] = cache[g]
SameChoice(done) ==
  /\ UNCHANGED lds
  /\ \A p \in done : /\ cache'[p] = Absent <=> cache[p] = Absent
                     /\ cache[p] # Absent => SameSpec(cache[p], cache'[p])
  /\ \A p \in done : \A s : s = cache[p].spec /\ cache[p] # Absent /\ Judged(s) => Verdict(s)' = Verdict(s)
  /\ \A R \in Routes : Chosen(done, R) # {} => Kept(R)
  /\ lds => \A g \in Gateways : cache'[g] = cache[g]
SameHosts == Hosts' = Hosts /\ \A R \in Hosts : Kept(R)

LEMMA SameChosen ==
  ASSUME NEW done, done \subseteq Policies, SameChoice(done), NEW t,
         t \in Routes \/ (t \in Gateways /\ lds)
  PROVE  /\ Chosen(done, t)' = Chosen(done, t)
         /\ \A p \in Chosen(done, t) : Translated(p, cache'[p]) = Translated(p, cache[p])
<1>0. t \notin Gateways \/ lds BY NamesAssumption
<1>1. ASSUME NEW p \in done
      PROVE  p \in Chosen(done, t)' <=> p \in Chosen(done, t)
  <2>1. CASE cache[p] = Absent
    <3>1. cache'[p] = Absent BY <2>1 DEF SameChoice
    <3>2. QED BY <2>1, <3>1 DEF Chosen
  <2>2. CASE cache[p] # Absent
    <3>1. cache'[p] # Absent /\ SameSpec(cache[p], cache'[p]) BY <2>2 DEF SameChoice
    <3>2. PICK s : s = cache[p].spec OBVIOUS
    <3>3. cache'[p].spec = s BY <3>1, <3>2 DEF SameSpec
    <3>4. CASE s.target # t BY <3>2, <3>3, <3>4 DEF Chosen
    <3>5. CASE s.target = t
      <4>1. Judged(s) BY <3>5, <1>0 DEF Judged
      <4>2. Verdict(s)' = Verdict(s) BY <4>1, <3>2, <2>2 DEF SameChoice
      <4>3. Verdict(cache[p].spec)' = Verdict(s)' BY <3>3
      <4>4. QED BY <4>2, <4>3, <3>1, <3>2, <3>3, <2>2 DEF Chosen
    <3>6. QED BY <3>4, <3>5
  <2>3. QED BY <2>1, <2>2
<1>2. \A p \in Chosen(done, t) : Translated(p, cache'[p]) = Translated(p, cache[p])
  <2>1. TAKE p \in Chosen(done, t)
  <2>2. p \in done /\ cache[p] # Absent BY DEF Chosen
  <2>3. SameSpec(cache[p], cache'[p]) BY <2>2 DEF SameChoice
  <2>4. cache[p].spec = cache'[p].spec /\ cache[p].created = cache'[p].created BY <2>3 DEF SameSpec
  <2>5. QED BY <2>4 DEF Translated
<1>3. Chosen(done, t) \subseteq done /\ Chosen(done, t)' \subseteq done BY DEF Chosen
<1>4. Chosen(done, t)' = Chosen(done, t) BY <1>1, <1>3
<1>5. QED BY <1>2, <1>4

(* What is collected for a route resource.                                 *)
LEMMA SameEntry ==
  ASSUME NEW done, done \subseteq Policies, SameChoice(done), NEW R \in Routes, Kept(R)
  PROVE  /\ Applied(done, R)' = Applied(done, R)
         /\ \A entry, policies : RouteEntry(R, entry, policies)' <=> RouteEntry(R, entry, policies)
         /\ HasGateway(R)' <=> HasGateway(R)
<1>1. cache'[R] = cache[R] /\ \A g \in Named(cache[R]) : cache'[g] = cache[g] BY DEF Kept
<1>2. /\ Chosen(done, R)' = Chosen(done, R)
      /\ \A p \in Chosen(done, R) : Translated(p, cache'[p]) = Translated(p, cache[p])
  BY SameChosen
<1>3. \A p \in Chosen(done, R) : AppliedTo(p, R)' = AppliedTo(p, R) BY <1>1, <1>2 DEF AppliedTo
<1>4. Applied(done, R)' = Applied(done, R) BY <1>2, <1>3 DEF Applied
<1>5. \A g \in Named(cache[R]) : Usable(cache[R], g)' <=> Usable(cache[R], g) BY <1>1 DEF Usable
<1>6. InUse(R)' = InUse(R) BY <1>1, <1>5 DEF InUse
<1>7. \A g \in InUse(R) : cache'[g] = cache[g] BY <1>1 DEF InUse
<1>8. {cache[g] : g \in InUse(R)}' = {cache[g] : g \in InUse(R)} BY <1>6, <1>7
<1>9. \A entry, policies : RouteEntry(R, entry, policies)' <=> RouteEntry(R, entry, policies)
  BY <1>1, <1>8 DEF RouteEntry
<1>10. HasGateway(R)' <=> HasGateway(R) BY <1>1, SameGateways
<1>11. QED BY <1>4, <1>9, <1>10

LEMMA SameRoutes ==
  ASSUME NEW done, done \subseteq Policies, SameChoice(done), NEW routes
  PROVE  /\ RoutesFor(done, routes) => RoutesFor(done, routes)'
         /\ done = Policies /\ SameHosts /\ RoutesComplete(routes) => RoutesComplete(routes)'
<1>1. \A R \in Routes : Chosen(done, R)' = Chosen(done, R) BY SameChosen
<1>2. \A R \in Routes : Chosen(done, R) # {} => Kept(R) BY DEF SameChoice
<1>3. ASSUME RoutesFor(done, routes) PROVE RoutesFor(done, routes)'
  <2>1. DOMAIN routes = {R \in Routes : Chosen(done, R)' # {}} BY <1>1, <1>3 DEF RoutesFor
  <2>2. ASSUME NEW R \in DOMAIN routes PROVE RouteEntry(R, routes[R], Applied(done, R))'
    <3>1. R \in Routes /\ Kept(R) BY <1>2, <1>3 DEF RoutesFor
    <3>2. RouteEntry(R, routes[R], Applied(done, R)) BY <1>3 DEF RoutesFor
    <3>3. /\ Applied(done, R)' = Applied(done, R)
          /\ \A entry, policies : RouteEntry(R, entry, policies)' <=> RouteEntry(R, entry, policies)
      BY <3>1, SameEntry
    <3>4. PICK a : a = Applied(done, R) OBVIOUS
    <3>5. RouteEntry(R, routes[R], a)' BY <3>2, <3>3, <3>4
    <3>6. QED BY <3>3, <3>4, <3>5
  <2>3. QED BY <2>1, <2>2 DEF RoutesFor
<1>4. ASSUME done = Policies, SameHosts, RoutesComplete(routes) PROVE RoutesComplete(routes)'
  <2>1. Hosts' = Hosts /\ \A R \in Hosts : Kept(R) BY <1>4 DEF SameHosts
  <2>2. \A R \in Routes : R \in Hosts => (HasGateway(R)' <=> HasGateway(R)) BY <2>1, SameEntry
  <2>3. \A R \in Routes : (Chosen(Policies, R)' # {} \/ (R \in Hosts' /\ HasGateway(R)'))
                           <=> (Chosen(Policies, R) # {} \/ (R \in Hosts /\ HasGateway(R)))
    BY <1>1, <1>4, <2>1, <2>2
  <2>4. DOMAIN routes = {R \in Routes : Chosen(Policies, R) # {} \/ (R \in Hosts /\ HasGateway(R))}
    BY <1>4 DEF RoutesComplete
  <2>5. DOMAIN routes = {R \in Routes : Chosen(Policies, R)' # {} \/ (R \in Hosts' /\ HasGateway(R)')}
    BY <2>3, <2>4
  <2>6. ASSUME NEW R \in DOMAIN routes
        PROVE  RouteEntry(R, routes[R], Applied(Policies, R) \union EmbeddedFor(R))'
    <3>1. R \in Routes /\ Kept(R) BY <1>2, <1>4, <2>1, <2>4
    <3>2. RouteEntry(R, routes[R], Applied(Policies, R) \union EmbeddedFor(R)) BY <1>4 DEF RoutesComplete
    <3>3. /\ Applied(Policies, R)' = Applied(Policies, R)
          /\ \A entry, policies : RouteEntry(R, entry, policies)' <=> RouteEntry(R, entry, policies)
      BY <3>1, <1>4, SameEntry
    <3>4. EmbeddedFor(R)' = EmbeddedFor(R) BY <3>1, <2>1 DEF EmbeddedFor, Kept
    <3>5. PICK a : a = Applied(Policies, R) \union EmbeddedFor(R) OBVIOUS
    <3>6. RouteEntry(R, routes[R], a)' BY <3>2, <3>3, <3>5
    <3>7. QED BY <3>3, <3>4, <3>5, <3>6
  <2>7. QED BY <2>5, <2>6 DEF RoutesComplete
<1>5. QED BY <1>3, <1>4
(* What is collected for the sections of gateways.                         *)
LEMMA SameSlots ==
  ASSUME Typed(cache), \A g \in Gateways : cache'[g] = cache[g]
  PROVE  /\ CachedSlots' = CachedSlots
         /\ \A x \in CachedSlots : /\ ServerOf(x)' = ServerOf(x) /\ SectionOf(x)' = SectionOf(x)
                                   /\ x[1] \in Gateways /\ x[1] \in Existing(cache, Gateways)
         /\ DistinctNames' <=> DistinctNames
         /\ \A x \in CachedSlots : Owns(x)' <=> Owns(x)
         /\ Existing(cache, Gateways)' = Existing(cache, Gateways)
<1>1. Existing(cache, Gateways)' = Existing(cache, Gateways) BY DEF Existing
<1>2. CachedSlots' = CachedSlots
  <2>1. \A g \in Existing(cache, Gateways) : ({g} \X DOMAIN cache[g].servers)' = {g} \X DOMAIN cache[g].servers
    BY DEF Existing
  <2>2. QED BY <1>1, <2>1 DEF CachedSlots
<1>3. \A x \in CachedSlots : x[1] \in Gateways /\ x[1] \in Existing(cache, Gateways)
  BY CachedSlotFacts DEF Existing
<1>4. \A x \in CachedSlots : ServerOf(x)' = ServerOf(x) /\ SectionOf(x)' = SectionOf(x)
  BY <1>3 DEF ServerOf, SectionOf
<1>5. DistinctNames' <=> DistinctNames BY <1>2, <1>4 DEF DistinctNames
<1>6. \A x \in CachedSlots : Owns(x)' <=> Owns(x) BY <1>2, <1>4 DEF Owns
<1>7. QED BY <1>1, <1>2, <1>3, <1>4, <1>5, <1>6

LEMMA SameOfSlots ==
  ASSUME Typed(cache), \A g \in Gateways : cache'[g] = cache[g], NEW ls
  PROVE  OfSlots(ls)' <=> OfSlots(ls)
<1>1. /\ CachedSlots' = CachedSlots
      /\ \A x \in CachedSlots : ServerOf(x)' = ServerOf(x) /\ SectionOf(x)' = SectionOf(x)
  BY SameSlots
<1>2. QED BY <1>1 DEF OfSlots

LEMMA SameFitting ==
  ASSUME Typed(cache), \A g \in Gateways : cache'[g] = cache[g], NEW x \in CachedSlots, NEW policies
  PROVE  Fitting(policies, x)' = Fitting(policies, x)
<1>1. ServerOf(x)' = ServerOf(x) BY SameSlots
<1>2. QED BY <1>1 DEF Fitting

LEMMA SameListeners ==
  ASSUME NEW done, done \subseteq Policies, SameChoice(done), Typed(cache), NEW ls
  PROVE  /\ ListenersFor(done, ls) => ListenersFor(done, ls)'
         /\ done = Policies /\ ListenersComplete(ls) => ListenersComplete(ls)'
<1>0. lds' = lds BY DEF SameChoice
<1>1. CASE ~lds BY <1>0, <1>1 DEF ListenersFor, ListenersComplete
<1>2. CASE lds
  <2>1. \A g \in Gateways : cache'[g] = cache[g] BY <1>2 DEF SameChoice
  <2>2. /\ CachedSlots' = CachedSlots
        /\ \A x \in CachedSlots : /\ ServerOf(x)' = ServerOf(x) /\ SectionOf(x)' = SectionOf(x)
                                  /\ x[1] \in Gateways /\ x[1] \in Existing(cache, Gateways)
        /\ DistinctNames' <=> DistinctNames
        /\ \A x \in CachedSlots : Owns(x)' <=> Owns(x)
        /\ Existing(cache, Gateways)' = Existing(cache, Gateways)
    BY <2>1, SameSlots
  <2>3. OfSlots(ls)' <=> OfSlots(ls) BY <2>1, SameOfSlots
  <2>4. ASSUME NEW x \in CachedSlots PROVE AppliedAt(done, x)' = AppliedAt(done, x)
    <3>1. x[1] \in Gateways BY <2>2
    <3>2. PICK t : t = x[1] OBVIOUS
    <3>3. /\ Chosen(done, t)' = Chosen(done, t)
          /\ \A p \in Chosen(done, t) : Translated(p, cache'[p]) = Translated(p, cache[p])
      BY <3>1, <3>2, <1>2, SameChosen
    <3>4. PICK policies : policies = {Translated(p, cache[p]) : p \in Chosen(done, x[1])} OBVIOUS
    <3>5. {Translated(p, cache'[p]) : p \in Chosen(done, x[1])'} = policies BY <3>2, <3>3, <3>4
    <3>6. Fitting(policies, x)' = Fitting(policies, x) BY <2>1, SameFitting
    <3>7. AppliedAt(done, x) = Fitting(policies, x) BY <3>4 DEF AppliedAt
    <3>8. AppliedAt(done, x)' = Fitting(policies, x)' BY <3>5 DEF AppliedAt
    <3>9. QED BY <3>6, <3>7, <3>8
  <2>5. ASSUME NEW x \in CachedSlots PROVE EmbeddedAt(x)' = EmbeddedAt(x)
    <3>1. x[1] \in Gateways BY <2>2
    <3>2. Owners' = Owners BY <2>1, <2>2 DEF Owners, Istio, HasEmbedded, Existing
    <3>3. cache'[x[1]] = cache[x[1]] BY <2>1, <3>1
    <3>4. PICK policies : policies = {Embedded(cache[x[1]])} OBVIOUS
    <3>5. Fitting(policies, x)' = Fitting(policies, x) BY <2>1, SameFitting
    <3>6. QED BY <3>2, <3>3, <3>4, <3>5 DEF EmbeddedAt
  <2>6. \A x \in CachedSlots : Heard(ls, SectionOf(x))' = Heard(ls, SectionOf(x)) BY <2>2 DEF Heard
  <2>7. Ports(ls) = {ServerOf(x).port : x \in CachedSlots} =>
          Ports(ls) = {ServerOf(x)'.port : x \in CachedSlots'}
    BY <2>2
  <2>8. ListenersFor(done, ls) => ListenersFor(done, ls)'
    BY <1>2, <1>0, <2>2, <2>3, <2>4, <2>6 DEF ListenersFor
  <2>9. done = Policies /\ ListenersComplete(ls) => ListenersComplete(ls)'
    BY <1>2, <1>0, <2>2, <2>3, <2>4, <2>5, <2>6, <2>7 DEF ListenersComplete
  <2>10. QED BY <2>8, <2>9
<1>3. QED BY <1>1, <1>2

(* All of it.                                                              *)
LEMMA SameComplete ==
  ASSUME SameChoice(Policies), SameHosts, Typed(cache), NEW st, Complete(st)
  PROVE  Complete(st)'
<1>1. PICK routes, ls : routes = st.routes /\ ls = st.listeners OBVIOUS
<1>2. RoutesComplete(routes) /\ ListenersComplete(ls) BY <1>1 DEF Complete
<1>3. RoutesComplete(routes)' BY <1>2, SameRoutes
<1>4. ListenersComplete(ls)' BY <1>2, SameListeners
<1>5. QED BY <1>1, <1>3, <1>4 DEF Complete

(* When no copy changes.                                                   *)
LEMMA SameCopies ==
  ASSUME UNCHANGED <<cache, lds>>, NEW done \in SUBSET Policies
  PROVE  SameChoice(done) /\ SameHosts /\ (Hosts' = Hosts)
<1>1. \A spec : Verdict(spec)' = Verdict(spec) BY SameCache
<1>2. Hosts' = Hosts BY DEF Hosts, Existing, HasEmbedded
<1>3. \A R : Kept(R) BY DEF Kept
<1>4. SameChoice(done) BY <1>1, <1>3, SameSpecFacts DEF SameChoice
<1>5. QED BY <1>2, <1>3, <1>4 DEF SameHosts
-----------------------------------------------------------------------------
(* An event that asks for nothing leaves what has been collected right.    *)
Collectible == IF phase = "resolve" THEN Handled ELSE Policies

LEMMA HandledFacts ==
  ASSUME ItemsTyped
  PROVE  /\ Handled \subseteq Policies /\ Collectible \subseteq Policies
         /\ \A p \in Collectible : cache[p] # Absent => Resolved(p)
<1>1. \A i \in DOMAIN items : items[i].name \in Policies BY ItemFacts
<1>2. QED BY <1>1 DEF Handled, Collectible, Resolved

LEMMA IgnoredHosts ==
  ASSUME Resources, EmbeddedWatched, Scalars, RoutesWatched,
         NEW kind \in Kinds, NEW n, NEW obj, Observed(kind, n, obj), Ignored(n, obj)
  PROVE  /\ Hosts' = Hosts /\ \A R \in Hosts : cache'[R] = cache[R]
         /\ phase # "resolve" => SameHosts
<1>1. n \in Names /\ cache'[n] = obj /\ \A m \in Names : m # n => cache'[m] = cache[m] BY ObservedFacts
<1>2. n \notin Policies => ~HasEmbedded(n, cache[n]) /\ ~HasEmbedded(n, obj)
  BY DEF Ignored, Triggers, FindAffectedObjects
<1>3. n \notin Hosts /\ n \notin Hosts' BY <1>1, <1>2 DEF Hosts, HasEmbedded
<1>4. \A m \in Routes : m # n => (m \in Hosts' <=> m \in Hosts) BY <1>1 DEF Hosts, Existing, HasEmbedded, Names
<1>5. Hosts' = Hosts
  <2>1. Hosts \subseteq Routes /\ Hosts' \subseteq Routes BY DEF Hosts, Existing
  <2>2. QED BY <2>1, <1>3, <1>4
<1>6. \A R \in Hosts : cache'[R] = cache[R] BY <1>1, <1>3, HostsFacts DEF Names
<1>7. ASSUME phase # "resolve" PROVE SameHosts
  <2>1. \A R \in Hosts : Named(cache[R]) \subseteq gwIndex BY <1>7 DEF EmbeddedWatched, Ignored
  <2>2. \A g \in gwIndex : cache'[g] = cache[g] BY IgnoredFacts
  <2>3. QED BY <1>5, <1>6, <2>1, <2>2 DEF SameHosts, Kept
<1>8. QED BY <1>5, <1>6, <1>7

LEMMA IgnoredChoice ==
  ASSUME Resources, ItemsTyped, Scalars, Knowledge,
         NEW kind \in Kinds, NEW n, NEW obj, Observed(kind, n, obj), Ignored(n, obj), "gateway" \notin holes',
         NEW done, done = Collectible
  PROVE  SameChoice(done) /\ done \subseteq Policies
<1>1. /\ \A p \in Policies : /\ cache'[p] = Absent <=> cache[p] = Absent
                             /\ cache[p] # Absent => SameSpec(cache[p], cache'[p]) /\ cache'[p].spec = cache[p].spec
      /\ \A R \in routeIndex : cache'[R] = cache[R]
      /\ \A g \in gwIndex : cache'[g] = cache[g]
      /\ lds => \A g \in Gateways : cache'[g] = cache[g]
      /\ "gateway" \notin holes' => \A g \in gateways : cache'[g] = cache[g]
  BY IgnoredFacts DEF Knowledge
<1>2. ~queued /\ UNCHANGED lds BY DEF Ignored
<1>3. done \subseteq Policies /\ \A p \in done : cache[p] # Absent => Resolved(p) BY HandledFacts
<1>4. \A p \in done : \A s : s = cache[p].spec /\ cache[p] # Absent /\ Judged(s) => Verdict(s)' = Verdict(s)
  <2>1. TAKE p \in done
  <2>2. TAKE s
  <2>3. HAVE s = cache[p].spec /\ cache[p] # Absent /\ Judged(s)
  <2>4. QED BY <2>3, <1>3, IgnoredPolicy DEF Knowledge
<1>5. ASSUME NEW R \in Routes, Chosen(done, R) # {} PROVE Kept(R)
  <2>1. PICK p \in Chosen(done, R) : TRUE BY <1>5
  <2>2. p \in done /\ cache[p] # Absent /\ cache[p].spec.target = R /\ Verdict(cache[p].spec) = "Accepted"
    BY DEF Chosen
  <2>3. R \in routeIndex BY <2>2, <1>2, <1>3 DEF Knowledge, RoutesWatched
  <2>4. R \notin Gateways BY NamesAssumption
  <2>5. Targeting(cache[p].spec) /\ TargetFound(cache[p].spec) BY <2>2 DEF Verdict
  <2>6. DependsOn(cache[p].spec) = Named(cache[R]) BY <2>2, <2>4, <2>5 DEF DependsOn
  <2>7. Named(cache[R]) \subseteq Watched BY <2>2, <2>6, <1>2, <1>3 DEF Knowledge, GatewaysWatched
  <2>8. \A g \in Watched : cache'[g] = cache[g] BY <1>1 DEF Watched
  <2>9. QED BY <2>3, <2>7, <2>8, <1>1 DEF Kept
<1>6. SameChoice(done) BY <1>1, <1>2, <1>3, <1>4, <1>5 DEF SameChoice
<1>7. QED BY <1>3, <1>6

(* The EnvoyFilters of a complete reconciliation.                          *)
LEMMA SameEnforcing ==
  ASSUME Enforcing, UNCHANGED efs, \A st : Complete(st) => Complete(st)',
         phase \in {"status", "idle"} /\ ~queued /\ holes \subseteq {"status"}
  PROVE  Enforcing'
<1>1. PICK st : Complete(st) /\ \E generated \in Process(st) : SpecsOf(efs) = SpecsOf(generated)
  BY DEF Enforcing
<1>2. Complete(st)' BY <1>1
<1>3. QED BY <1>1, <1>2 DEF Enforcing, SpecsOf

LEMMA IgnoredCollected ==
  ASSUME Resources, ItemsTyped, Scalars, Knowledge, CInv, UNCHANGED efs,
         NEW kind \in Kinds, NEW n, NEW obj, Observed(kind, n, obj), Ignored(n, obj)
  PROVE  CInv'
<1>1. /\ ~queued /\ ~queued' /\ UNCHANGED <<items, at, init, gateways, routeIndex, gwIndex, lds, phase>>
      /\ holes \subseteq holes'
  BY DEF Ignored, work, indexes
<1>2. Hosts' = Hosts /\ (\A R \in Hosts : cache'[R] = cache[R]) /\ (phase # "resolve" => SameHosts)
  BY IgnoredHosts DEF CInv, Knowledge
<1>t. Typed(cache) BY DEF Resources
<1>3. EmbeddedWatched' BY <1>1, <1>2 DEF CInv, EmbeddedWatched
<1>4. PICK done : done = Collectible OBVIOUS
<1>5. "gateway" \notin holes' => SameChoice(done) /\ done \subseteq Policies BY <1>4, IgnoredChoice
<1>6. ASSUME "gateway" \notin holes', phase # "resolve" PROVE \A st : Complete(st) => Complete(st)'
  <2>1. done = Policies /\ SameChoice(Policies) BY <1>4, <1>5, <1>6 DEF Collectible
  <2>2. QED BY <2>1, <1>2, <1>6, <1>t, SameComplete
<1>7. Collecting'
  <2>1. SUFFICES ASSUME "gateway" \notin holes'
        PROVE  /\ phase = "resolve" => RoutesFor(Handled, init.routes)' /\ ListenersFor(Handled, init.listeners)'
               /\ phase = "output" => Complete(init)'
    BY <1>1 DEF Collecting, Reliable
  <2>2. Reliable BY <2>1, <1>1 DEF Reliable
  <2>3. ASSUME phase = "resolve" PROVE RoutesFor(Handled, init.routes)' /\ ListenersFor(Handled, init.listeners)'
    <3>1. done = Handled /\ Handled' = done BY <2>3, <1>1, <1>4 DEF Handled, Collectible
    <3>2. PICK routes, ls : routes = init.routes /\ ls = init.listeners OBVIOUS
    <3>3. init'.routes = routes /\ init'.listeners = ls BY <3>2, <1>1
    <3>4. RoutesFor(done, routes) /\ ListenersFor(done, ls) BY <2>2, <2>3, <3>1, <3>2 DEF CInv, Collecting
    <3>5. RoutesFor(done, routes)' BY <3>4, <2>1, <1>5, SameRoutes
    <3>6. ListenersFor(done, ls)' BY <3>4, <2>1, <1>5, <1>t, SameListeners
    <3>7. QED BY <3>1, <3>3, <3>5, <3>6
  <2>4. ASSUME phase = "output" PROVE Complete(init)'
    <3>1. PICK st : st = init OBVIOUS
    <3>2. Complete(st) BY <2>2, <2>4, <3>1 DEF CInv, Collecting
    <3>3. Complete(st)' BY <3>2, <2>1, <2>4, <1>6
    <3>4. QED BY <3>1, <3>3, <1>1
  <2>5. QED BY <2>3, <2>4
<1>8. Enforcing'
  <2>1. SUFFICES ASSUME phase \in {"status", "idle"}, holes' \subseteq {"status"} PROVE Enforcing'
    BY <1>1 DEF Enforcing
  <2>2. "gateway" \notin holes' /\ holes \subseteq {"status"} BY <2>1, <1>1
  <2>3. \A st : Complete(st) => Complete(st)' BY <2>1, <2>2, <1>6
  <2>4. QED BY <2>1, <2>2, <2>3, <1>1, SameEnforcing DEF CInv
<1>9. QED BY <1>3, <1>7, <1>8 DEF CInv
-----------------------------------------------------------------------------
(* Steps that leave the copies alone.                                      *)
LEMMA SameCollected ==
  ASSUME Resources, ItemsTyped, CInv, UNCHANGED <<cache, lds, efs, gwIndex, queued>>, holes \subseteq holes',
         \/ UNCHANGED <<items, at, init, phase>>
         \/ phase = "status" /\ phase' \in {"status", "idle"}
  PROVE  CInv'
<1>t. Typed(cache) BY DEF Resources
<1>1. \A done \in SUBSET Policies : SameChoice(done) /\ SameHosts /\ (Hosts' = Hosts)
  <2>1. TAKE done \in SUBSET Policies
  <2>2. QED BY SameCopies
<1>2. \A st : Complete(st) => Complete(st)' BY <1>1, <1>t, SameComplete
<1>3. EmbeddedWatched'
  <2>1. phase' = phase \/ (phase # "resolve" /\ phase' # "resolve") OBVIOUS
  <2>2. QED BY <2>1, <1>1 DEF CInv, EmbeddedWatched
<1>4. Collecting'
  <2>1. SUFFICES ASSUME Reliable, UNCHANGED <<items, at, init, phase>>
        PROVE  /\ phase = "resolve" => RoutesFor(Handled, init.routes)' /\ ListenersFor(Handled, init.listeners)'
               /\ phase = "output" => Complete(init)'
    BY DEF Collecting, Reliable
  <2>2. ASSUME phase = "resolve" PROVE RoutesFor(Handled, init.routes)' /\ ListenersFor(Handled, init.listeners)'
    <3>0. RoutesFor(Handled, init.routes) /\ ListenersFor(Handled, init.listeners)
      BY <2>1, <2>2 DEF CInv, Collecting
    <3>1. PICK done, routes, ls : done = Handled /\ routes = init.routes /\ ls = init.listeners OBVIOUS
    <3>2. done' = Handled' /\ Handled' = done BY <2>1, <3>1 DEF Handled
    <3>3. init'.routes = routes /\ init'.listeners = ls BY <3>1, <2>1
    <3>4. RoutesFor(done, routes) /\ ListenersFor(done, ls) BY <3>0, <3>1
    <3>5. done \subseteq Policies BY <3>1, HandledFacts
    <3>6. RoutesFor(done, routes)' BY <3>4, <3>5, <1>1, SameRoutes
    <3>7. ListenersFor(done, ls)' BY <3>4, <3>5, <1>1, <1>t, SameListeners
    <3>8. QED BY <3>2, <3>3, <3>6, <3>7
  <2>3. ASSUME phase = "output" PROVE Complete(init)'
    <3>1. PICK st : st = init OBVIOUS
    <3>2. Complete(st) BY <2>1, <2>3, <3>1 DEF CInv, Collecting
    <3>3. Complete(st)' BY <3>2, <1>2
    <3>4. QED BY <3>1, <3>3, <2>1
  <2>4. QED BY <2>2, <2>3
<1>5. Enforcing'
  <2>1. SUFFICES ASSUME phase' \in {"status", "idle"}, ~queued', holes' \subseteq {"status"} PROVE Enforcing'
    BY DEF Enforcing
  <2>2. phase \in {"status", "idle"} /\ ~queued /\ holes \subseteq {"status"} BY <2>1
  <2>3. QED BY <2>2, <1>2, SameEnforcing DEF CInv
<1>6. QED BY <1>3, <1>4, <1>5 DEF CInv

(* Once a reconciliation is asked for, nothing need be collected.          *)
LEMMA QueuedCollected == ASSUME queued' PROVE CInv'
BY DEF CInv, Collecting, Reliable, EmbeddedWatched, Enforcing

(* At the beginning nothing is.                                            *)
LEMMA NothingCollected ==
  RoutesFor({}, NewInitState.routes) /\ (Typed(cache) => ListenersFor({}, NewInitState.listeners))
<1>1. NewInitState.routes = Nothing /\ NewInitState.listeners = NoListeners BY DEF NewInitState
<1>2. DOMAIN Nothing = {} BY DEF Nothing
<1>3. \A t : Chosen({}, t) = {} BY DEF Chosen
<1>4. RoutesFor({}, Nothing) BY <1>2, <1>3 DEF RoutesFor
<1>5. ASSUME Typed(cache) PROVE ListenersFor({}, NoListeners)
  <2>1. NoListeners.owner = Nothing /\ NoListeners.sections = Nothing /\ NoListeners.bare = Nothing
    BY DEF NoListeners
  <2>2. OfSlots(NoListeners) BY <2>1, <1>2 DEF OfSlots
  <2>3. \A s : Heard(NoListeners, s) = {} BY <2>1, <1>2 DEF Heard
  <2>4. \A x : AppliedAt({}, x) = {} BY <1>3 DEF AppliedAt, Fitting
  <2>5. QED BY <2>2, <2>3, <2>4 DEF ListenersFor
<1>6. QED BY <1>1, <1>4, <1>5

LEMMA BeginCollected ==
  ASSUME Resources, Begin
  PROVE  CInv'
<1>1. phase' = "resolve" /\ at' = 1 /\ init' = NewInitState /\ UNCHANGED cache BY DEF Begin, resources
<1>2. ItemsTyped' BY BeginFacts
<1>3. \A i \in DOMAIN items' : ~(i < 1)
  <2>1. DOMAIN items' = 1..Len(items') /\ Len(items') \in Nat BY <1>2 DEF ItemsTyped
  <2>2. QED BY <2>1
<1>4. Handled' = {} BY <1>1, <1>3 DEF Handled
<1>5. Typed(cache)' BY <1>1 DEF Resources, Typed
<1>6. RoutesFor({}, NewInitState.routes)' /\ ListenersFor({}, NewInitState.listeners)'
  BY <1>5, NothingCollected, PTL
<1>7. RoutesFor(Handled, init.routes)' /\ ListenersFor(Handled, init.listeners)' BY <1>1, <1>4, <1>6
<1>8. Collecting' BY <1>1, <1>7 DEF Collecting
<1>9. QED BY <1>1, <1>8 DEF CInv, EmbeddedWatched, Enforcing
-----------------------------------------------------------------------------
(* A policy resolved, or an annotation: what it adds to a route resource.  *)
LEMMA EntryAdded ==
  ASSUME NEW st, Collected(st), NEW policy, NEW name, NEW route, NEW gws,
         NEW new, new = AddPolicyForRoute(st, policy, name, route, gws).routes
  PROVE  /\ \A n \in DOMAIN st.routes : n # name => new[n] = st.routes[n]
         /\ name \notin DOMAIN st.routes => new[name] = EntryOf(route, gws, RoutePolicies(policy, route))
         /\ name \in DOMAIN st.routes =>
              \A x, y, z : st.routes[name] = EntryOf(x, y, z) =>
                new[name] = EntryOf(x, y, z \union RoutePolicies(policy, route))
<1> DEFINE before == IF name \in DOMAIN st.routes THEN st.routes[name]
                     ELSE [route |-> route, gws |-> gws, policies |-> {}]
           added == RoutePolicies(policy, route)
           after == [before EXCEPT !.policies = @ \union added]
           routes == Put(st.routes, name, after)
<1>1. AddPolicyForRoute(st, policy, name, route, gws) = [st EXCEPT !.routes = routes]
  BY DEF AddPolicyForRoute
<1> HIDE DEF added
<1>a. name \notin DOMAIN st.routes => before = EntryOf(route, gws, {}) BY DEF EntryOf
<1>b. name \in DOMAIN st.routes => before = st.routes[name] OBVIOUS
<1> HIDE DEF before
<1>c. ASSUME NEW x, NEW y, NEW z, before = EntryOf(x, y, z) PROVE after = EntryOf(x, y, z \union added)
  BY <1>c DEF EntryOf
<1> HIDE DEF after
<1>2. DOMAIN routes = DOMAIN st.routes \union {name} /\ routes[name] = after
      /\ \A n \in DOMAIN st.routes : n # name => routes[n] = st.routes[n]
  BY DEF Put
<1> HIDE DEF routes
<1>3. [st EXCEPT !.routes = routes].routes = routes
  BY DEF Collected
<1>4. new = routes BY <1>1, <1>3
<1>5. {} \union added = added OBVIOUS
<1>6. ASSUME name \notin DOMAIN st.routes PROVE new[name] = EntryOf(route, gws, RoutePolicies(policy, route))
  <2>1. after = EntryOf(route, gws, {} \union added) BY <1>6, <1>a, <1>c
  <2>2. QED BY <2>1, <1>5, <1>2, <1>4 DEF added
<1>7. ASSUME name \in DOMAIN st.routes, NEW x, NEW y, NEW z, st.routes[name] = EntryOf(x, y, z)
      PROVE  new[name] = EntryOf(x, y, z \union RoutePolicies(policy, route))
  BY <1>7, <1>b, <1>c, <1>2, <1>4 DEF added
<1>8. QED BY <1>2, <1>4, <1>6, <1>7

(* One entry has gained policies, or is new.                               *)
Gains(routes, new, R, added) ==
  /\ DOMAIN new = DOMAIN routes \union {R}
  /\ \A n \in DOMAIN routes : n # R => new[n] = routes[n]
  /\ R \notin DOMAIN routes => new[R] = EntryOf(cache[R], {cache[g] : g \in InUse(R)}, added)
  /\ R \in DOMAIN routes =>
       \A x, y, z : routes[R] = EntryOf(x, y, z) => new[R] = EntryOf(x, y, z \union added)

LEMMA RouteAdded ==
  ASSUME NEW st, Collected(st), NEW policy, NEW name,
         NEW r, r = ResolveWithRoute(policy, name, st), r.reason = "Accepted"
  PROVE  Gains(st.routes, r.init.routes, name, RoutePolicies(policy, cache[name]))
<1> DEFINE route == cache[name]
           gws == {g \in Named(route) : Usable(route, g)}
           objects == {cache[g] : g \in gws}
           a(gs) == AddPolicyForRoute(st, policy, name, route, gs)
<1>0. gws = InUse(name) /\ objects = {cache[g] : g \in InUse(name)} BY DEF InUse
<1>1. r = CASE name \in DOMAIN st.routes -> Resolution("Accepted", a({}), {})
            [] name \notin DOMAIN st.routes /\ gws # {} -> Resolution("Accepted", a(objects), Named(route))
            [] name \notin DOMAIN st.routes /\ gws = {} -> Resolution("TargetNotFound", st, Named(route))
  BY DEF ResolveWithRoute
<1> HIDE DEF gws, route, a, objects
<1>2. \A x, y, z : /\ Resolution(x, y, z).reason = x /\ Resolution(x, y, z).init = y BY DEF Resolution
<1>3. name \in DOMAIN st.routes => r.init = a({}) BY <1>1, <1>2
<1>4. name \notin DOMAIN st.routes => r.init = a(objects) BY <1>1, <1>2
<1>5. \A gs : /\ \A n \in DOMAIN st.routes : n # name => a(gs).routes[n] = st.routes[n]
              /\ name \notin DOMAIN st.routes => a(gs).routes[name] = EntryOf(route, gs, RoutePolicies(policy, route))
              /\ name \in DOMAIN st.routes =>
                   \A x, y, z : st.routes[name] = EntryOf(x, y, z) =>
                     a(gs).routes[name] = EntryOf(x, y, z \union RoutePolicies(policy, route))
  <2>1. TAKE gs
  <2>2. PICK new : new = AddPolicyForRoute(st, policy, name, route, gs).routes OBVIOUS
  <2>3. a(gs).routes = new BY <2>2 DEF a
  <2>4. /\ \A n \in DOMAIN st.routes : n # name => new[n] = st.routes[n]
        /\ name \notin DOMAIN st.routes => new[name] = EntryOf(route, gs, RoutePolicies(policy, route))
        /\ name \in DOMAIN st.routes =>
             \A x, y, z : st.routes[name] = EntryOf(x, y, z) =>
               new[name] = EntryOf(x, y, z \union RoutePolicies(policy, route))
    BY <2>2, EntryAdded
  <2>5. QED BY <2>3, <2>4
<1>6. ASSUME name \in DOMAIN st.routes
      PROVE  \A x, y, z : st.routes[name] = EntryOf(x, y, z) =>
                r.init.routes[name] = EntryOf(x, y, z \union RoutePolicies(policy, cache[name]))
  BY <1>6, <1>3, <1>5 DEF route
<1>7. ASSUME name \notin DOMAIN st.routes
      PROVE  r.init.routes[name] = EntryOf(cache[name], {cache[g] : g \in InUse(name)}, RoutePolicies(policy, cache[name]))
  BY <1>7, <1>4, <1>5, <1>0 DEF route
<1>8. \A n \in DOMAIN st.routes : n # name => r.init.routes[n] = st.routes[n] BY <1>3, <1>4, <1>5
<1>9. DOMAIN r.init.routes = DOMAIN st.routes \union {name}
  <2>1. RouteOutcome(r, name, st) BY ResolveWithRouteFacts
  <2>2. QED BY <2>1 DEF RouteOutcome
<1>10. QED BY <1>6, <1>7, <1>8, <1>9 DEF Gains
(* One more policy resolved.                                               *)
Choosing(p, t) == cache[p].spec.target = t /\ Verdict(cache[p].spec) = "Accepted"

LEMMA OneMoreChosen ==
  ASSUME NEW done, NEW p, cache[p] # Absent, NEW t
  PROVE  /\ Choosing(p, t) => Chosen(done \union {p}, t) = Chosen(done, t) \union {p}
         /\ ~Choosing(p, t) => Chosen(done \union {p}, t) = Chosen(done, t)
BY DEF Chosen, Choosing

LEMMA NoMoreRoutes ==
  ASSUME NEW done, NEW routes, RoutesFor(done, routes), NEW p, cache[p] # Absent,
         \A R \in Routes : ~Choosing(p, R)
  PROVE  RoutesFor(done \union {p}, routes)
<1>1. \A R \in Routes : Chosen(done \union {p}, R) = Chosen(done, R) BY OneMoreChosen
<1>2. \A R \in Routes : Applied(done \union {p}, R) = Applied(done, R) BY <1>1 DEF Applied
<1>3. QED BY <1>1, <1>2 DEF RoutesFor

LEMMA MoreRoutes ==
  ASSUME NEW done, NEW routes, RoutesFor(done, routes), NEW p, cache[p] # Absent,
         NEW R \in Routes, NEW new, Choosing(p, R), Gains(routes, new, R, AppliedTo(p, R))
  PROVE  RoutesFor(done \union {p}, new)
<1> DEFINE more == done \union {p}
<1>1. \A t : /\ Choosing(p, t) => Chosen(more, t) = Chosen(done, t) \union {p}
             /\ ~Choosing(p, t) => Chosen(more, t) = Chosen(done, t)
  BY OneMoreChosen
<1> HIDE DEF more
<1>2. \A S \in Routes : ~Choosing(p, S) => Applied(more, S) = Applied(done, S) BY <1>1 DEF Applied
<1>3. \A S \in Routes : Choosing(p, S) => Applied(more, S) = Applied(done, S) \union AppliedTo(p, S)
  BY <1>1 DEF Applied
<1>4. /\ DOMAIN routes = {S \in Routes : Chosen(done, S) # {}}
      /\ \A S \in DOMAIN routes : RouteEntry(S, routes[S], Applied(done, S))
  BY DEF RoutesFor
<1>5. /\ DOMAIN new = DOMAIN routes \union {R}
      /\ \A n \in DOMAIN routes : n # R => new[n] = routes[n]
      /\ R \notin DOMAIN routes => new[R] = EntryOf(cache[R], {cache[g] : g \in InUse(R)}, AppliedTo(p, R))
      /\ R \in DOMAIN routes =>
           \A x, y, z : routes[R] = EntryOf(x, y, z) => new[R] = EntryOf(x, y, z \union AppliedTo(p, R))
  BY DEF Gains
<1>6. \A S \in Routes : S # R => ~Choosing(p, S) BY DEF Choosing
<1>7. DOMAIN new = {S \in Routes : Chosen(more, S) # {}}
  <2>1. \A S \in Routes : Chosen(more, S) # {} <=> S = R \/ Chosen(done, S) # {} BY <1>1, <1>5, <1>6
  <2>2. QED BY <2>1, <1>4, <1>5
<1>8. ASSUME NEW S \in DOMAIN new PROVE RouteEntry(S, new[S], Applied(more, S))
  <2>1. CASE S # R
    <3>1. S \in DOMAIN routes /\ S \in Routes BY <2>1, <1>4, <1>5
    <3>2. QED BY <3>1, <2>1, <1>2, <1>4, <1>5, <1>6
  <2>2. CASE S = R
    <3>1. Applied(more, R) = Applied(done, R) \union AppliedTo(p, R) BY <1>3, <1>5
    <3>2. CASE R \in DOMAIN routes
      <4>1. RouteEntry(R, routes[R], Applied(done, R)) BY <3>2, <1>4
      <4>2. routes[R] = EntryOf(cache[R], {cache[g] : g \in InUse(R)}, Applied(done, R))
        BY <4>1 DEF RouteEntry
      <4>3. new[R] = EntryOf(cache[R], {cache[g] : g \in InUse(R)}, Applied(more, R))
        BY <4>2, <3>1, <3>2, <1>5
      <4>4. QED BY <4>3, <2>2 DEF RouteEntry, EntryOf
    <3>3. CASE R \notin DOMAIN routes
      <4>1. Applied(done, R) = {} BY <3>3, <1>4 DEF Applied
      <4>2. new[R] = EntryOf(cache[R], {cache[g] : g \in InUse(R)}, Applied(more, R))
        BY <4>1, <3>1, <3>3, <1>5
      <4>3. QED BY <4>2, <2>2 DEF RouteEntry, EntryOf
    <3>4. QED BY <3>2, <3>3
  <2>3. QED BY <2>1, <2>2
<1>9. QED BY <1>7, <1>8 DEF RoutesFor, more

LEMMA FittingUnion ==
  ASSUME NEW A, NEW B, NEW x
  PROVE  Fitting(A \union B, x) = Fitting(A, x) \union Fitting(B, x)
BY DEF Fitting

LEMMA NoMoreListeners ==
  ASSUME Typed(cache), NEW done, NEW ls, ListenersFor(done, ls), NEW p, cache[p] # Absent,
         ~lds \/ \A g \in Gateways : ~Choosing(p, g)
  PROVE  ListenersFor(done \union {p}, ls)
<1>1. CASE ~lds BY <1>1 DEF ListenersFor
<1>2. CASE lds
  <2>1. \A x \in CachedSlots : x[1] \in Gateways BY CachedSlotFacts DEF Existing
  <2>2. \A x \in CachedSlots : Chosen(done \union {p}, x[1]) = Chosen(done, x[1]) BY <1>2, <2>1, OneMoreChosen
  <2>3. \A x \in CachedSlots : AppliedAt(done \union {p}, x) = AppliedAt(done, x) BY <2>2 DEF AppliedAt
  <2>4. QED BY <2>3, <1>2 DEF ListenersFor
<1>3. QED BY <1>1, <1>2

LEMMA MoreListeners ==
  ASSUME Typed(cache), NEW done, NEW ls, ListenersFor(done, ls), NEW p, cache[p] # Absent,
         NEW t \in Gateways, NEW policies, NEW new, lds, Choosing(p, t), cache[t] # Absent,
         policies[t] = {Translated(p, cache[p])},
         new = AddGateways(ls, cache, <<t>>, policies)
  PROVE  ListenersFor(done \union {p}, new)
<1> DEFINE more == done \union {p}
<1>1. \A x : /\ Choosing(p, x) => Chosen(more, x) = Chosen(done, x) \union {p}
             /\ ~Choosing(p, x) => Chosen(more, x) = Chosen(done, x)
  BY OneMoreChosen
<1> HIDE DEF more
<1>2. SUFFICES ASSUME DistinctNames
      PROVE  /\ OfSlots(new)
             /\ \A x \in CachedSlots : Owns(x) => Heard(new, SectionOf(x)) = AppliedAt(more, x)
  BY DEF ListenersFor, more
<1>3. OfSlots(ls) /\ \A x \in CachedSlots : Owns(x) => Heard(ls, SectionOf(x)) = AppliedAt(done, x)
  BY <1>2 DEF ListenersFor
<1>4. PICK order : order = <<t>> OBVIOUS
<1>5. Range(order) = {t} /\ DOMAIN order \subseteq Nat
  <2>1. DOMAIN order = 1..1 /\ order[1] = t BY <1>4
  <2>2. QED BY <2>1 DEF Range
<1>6. Range(order) \subseteq Existing(cache, Gateways) BY <1>5 DEF Existing
<1>7. \A g \in Range(order) : policies[g] = {} \/ \E q : policies[g] = {q} BY <1>5
<1>8. new = AddGateways(ls, cache, order, policies) BY <1>4
<1>9. /\ OfSlots(new)
      /\ \A x \in CachedSlots : Owns(x) =>
           Heard(new, SectionOf(x)) = Heard(ls, SectionOf(x)) \union AddedTo(x, order, policies)
  BY ONLY Typed(cache), <1>2, <1>3, <1>5, <1>6, <1>7, <1>8, AddGatewaysFacts
<1>10. ASSUME NEW x \in CachedSlots PROVE AppliedAt(more, x) = AppliedAt(done, x) \union AddedTo(x, order, policies)
  <2>1. CASE x[1] = t
    <3>1. Chosen(more, x[1]) = Chosen(done, x[1]) \union {p} BY <2>1, <1>1
    <3>2. {Translated(q, cache[q]) : q \in Chosen(more, x[1])} =
            {Translated(q, cache[q]) : q \in Chosen(done, x[1])} \union {Translated(p, cache[p])}
      BY <3>1
    <3>3. AppliedAt(more, x) = AppliedAt(done, x) \union Fitting({Translated(p, cache[p])}, x)
      BY <3>2, FittingUnion DEF AppliedAt
    <3>4. AddedTo(x, order, policies) = Fitting({Translated(p, cache[p])}, x)
      BY <2>1, <1>5 DEF AddedTo
    <3>5. QED BY <3>3, <3>4
  <2>2. CASE x[1] # t
    <3>1. ~Choosing(p, x[1]) BY <2>2 DEF Choosing
    <3>2. AppliedAt(more, x) = AppliedAt(done, x) BY <3>1, <1>1 DEF AppliedAt
    <3>3. AddedTo(x, order, policies) = {} BY <2>2, <1>5 DEF AddedTo
    <3>4. QED BY <3>2, <3>3
  <2>3. QED BY <2>1, <2>2
<1>11. QED BY <1>3, <1>9, <1>10
(* What is collected after one more policy is resolved.                    *)
LEMMA ResolveCollected ==
  ASSUME Resources, ItemsTyped, Scalars, Knowledge, ResolveNext, Reliable,
         NEW done, RoutesFor(done, init.routes), ListenersFor(done, init.listeners),
         NEW p, p = items[at].name
  PROVE  /\ RoutesFor(done \union {p}, init'.routes)
         /\ ListenersFor(done \union {p}, init'.listeners)
<1> DEFINE obj == items[at].obj
           r == Resolve(p, obj)
           s == obj.spec
           t == s.target
           policy == Translated(p, obj)
           more == done \union {p}
<1>1. p \in Policies /\ obj \in PolicyVersions(p) /\ at \in DOMAIN items /\ phase = "resolve" /\ init' = r.init
  BY ResolveNextFacts
<1>2. cache[p] # Absent /\ SameSpec(obj, cache[p]) /\ s = cache[p].spec
  BY <1>1, ListedFacts DEF Knowledge, Reliable
<1>3. policy = Translated(p, cache[p]) BY <1>2 DEF Translated, SameSpec
<1>4. \/ ~Targeting(s) /\ r.init = init
      \/ Targeting(s) /\ t \in Gateways /\ ~lds /\ r.init = init
      \/ Targeting(s) /\ ~TargetFound(s) /\ r.init = init
      \/ /\ Targeting(s) /\ t \in Gateways /\ lds /\ TargetFound(s)
         /\ r.init.routes = init.routes
         /\ r.init = AddPolicyForGateway(policy, t, init)
      \/ Targeting(s) /\ t \in Routes /\ TargetFound(s) /\ r = ResolveWithRoute(policy, t, init)
  BY <1>1, ResolveFacts
<1>5. Resolving(p, obj, r) BY <1>1, ResolvingFacts DEF Reliable
<1>6. Collected(init) BY DEF Scalars
<1>7. \A n \in Routes : n \notin Gateways BY NamesAssumption
<1>8. Typed(cache) BY DEF Resources
<1> HIDE DEF r, obj, policy
<1>9. \A n : Choosing(p, n) => t = n /\ Verdict(s) = "Accepted" BY <1>2 DEF Choosing
<1>10. t \in Gateways => Verdict(s) = IF ~Targeting(s) THEN "Invalid" ELSE IF TargetFound(s) THEN "Accepted" ELSE "TargetNotFound"
  BY <1>7 DEF Verdict
<1> HIDE DEF s, t
<1>11. SUFFICES RoutesFor(more, r.init.routes) /\ ListenersFor(more, r.init.listeners) BY <1>1
<1>12. /\ (\A R \in Routes : ~Choosing(p, R)) => RoutesFor(more, init.routes)
       /\ ~lds \/ (\A g \in Gateways : ~Choosing(p, g)) => ListenersFor(more, init.listeners)
  <2>1. PICK routes, ls : routes = init.routes /\ ls = init.listeners OBVIOUS
  <2>2. (\A R \in Routes : ~Choosing(p, R)) => RoutesFor(more, routes) BY <2>1, <1>2, NoMoreRoutes
  <2>3. ~lds \/ (\A g \in Gateways : ~Choosing(p, g)) => ListenersFor(more, ls)
    BY <2>1, <1>2, <1>8, NoMoreListeners
  <2>4. QED BY <2>1, <2>2, <2>3
<1> HIDE DEF more
<1>13. CASE ~Targeting(s) /\ r.init = init
  <2>1. Verdict(s) = "Invalid" BY <1>13 DEF Verdict
  <2>2. \A n : ~Choosing(p, n) BY <2>1, <1>9
  <2>3. QED BY <2>2, <1>12, <1>13
<1>14. CASE Targeting(s) /\ t \in Gateways /\ ~lds /\ r.init = init
  <2>1. \A R \in Routes : ~Choosing(p, R) BY <1>14, <1>9, <1>7
  <2>2. QED BY <2>1, <1>12, <1>14
<1>15. CASE Targeting(s) /\ ~TargetFound(s) /\ r.init = init
  <2>1. Verdict(s) = "TargetNotFound" BY <1>15 DEF Verdict
  <2>2. \A n : ~Choosing(p, n) BY <2>1, <1>9
  <2>3. QED BY <2>2, <1>12, <1>15
<1>16. CASE /\ Targeting(s) /\ t \in Gateways /\ lds /\ TargetFound(s)
            /\ r.init.routes = init.routes
            /\ r.init = AddPolicyForGateway(policy, t, init)
  <2>1. \A R \in Routes : ~Choosing(p, R) BY <1>16, <1>9, <1>7
  <2>2. RoutesFor(more, r.init.routes) BY <2>1, <1>12, <1>16
  <2> DEFINE policies == [g \in {t} |-> {policy}]
             new == AddGateways(init.listeners, cache, <<t>>, policies)
  <2>3. AddPolicyForGateway(policy, t, init) = [init EXCEPT !.listeners = new]
    BY DEF AddPolicyForGateway
  <2>4. policies[t] = {Translated(p, cache[p])} BY <1>3
  <2> HIDE DEF policies
  <2>n. PICK ls : ls = new OBVIOUS
  <2> HIDE DEF new
  <2>5. [init EXCEPT !.listeners = new].listeners = new BY <1>6 DEF Collected
  <2>6. r.init.listeners = ls BY <2>3, <2>5, <2>n, <1>16
  <2>7. Choosing(p, t) BY <1>16, <1>10, <1>2 DEF Choosing, t
  <2>8. cache[t] # Absent BY <1>16 DEF TargetFound, t
  <2>9. PICK before, F, T : before = init.listeners /\ F = policies /\ T = t OBVIOUS
  <2>10. ls = AddGateways(before, cache, <<T>>, F) BY <2>n, <2>9 DEF new
  <2>h. ListenersFor(done, before) BY <2>9
  <2>i. T \in Gateways /\ lds /\ Choosing(p, T) /\ cache[T] # Absent /\ F[T] = {Translated(p, cache[p])}
    BY <2>4, <2>7, <2>8, <2>9, <1>16
  <2>11. ListenersFor(done \union {p}, ls) BY <2>10, <2>h, <2>i, <1>2, <1>8, MoreListeners
  <2>12. QED BY <2>2, <2>6, <2>11 DEF more
<1>17. CASE Targeting(s) /\ t \in Routes /\ TargetFound(s) /\ r = ResolveWithRoute(policy, t, init)
  <2>1. RouteOutcome(r, t, init) BY <1>17, <1>6, ResolveWithRouteFacts
  <2>2. r.reason = Verdict(s)
    <3>1. Judged(s) /\ "gateway" \notin holes BY <1>17, <1>7 DEF Judged, Reliable, t
    <3>2. QED BY <3>1, <1>17, <1>5 DEF Resolving, s
  <2>3. \A g \in Gateways : ~Choosing(p, g) BY <1>17, <1>9, <1>7
  <2>4. r.init.listeners = init.listeners BY <2>1 DEF RouteOutcome
  <2>5. ListenersFor(more, r.init.listeners) BY <2>3, <2>4, <1>12
  <2>6. CASE r.reason # "Accepted"
    <3>1. r.init = init BY <2>1, <2>6 DEF RouteOutcome
    <3>2. \A n : ~Choosing(p, n) BY <1>9, <2>2, <2>6
    <3>3. QED BY <3>1, <3>2, <1>12
  <2>7. CASE r.reason = "Accepted"
    <3>2. Choosing(p, t) BY <2>2, <2>7, <1>2 DEF Choosing, t
    <3>3. PICK st, q, T, u : st = init /\ q = policy /\ T = t /\ u = r OBVIOUS
    <3>4. Gains(st.routes, u.init.routes, T, RoutePolicies(q, cache[T]))
      <4>1. Collected(st) /\ u = ResolveWithRoute(q, T, st) /\ u.reason = "Accepted" BY <3>3, <1>6, <1>17, <2>7
      <4>2. QED BY <4>1, RouteAdded
    <3>5. AppliedTo(p, T) = RoutePolicies(q, cache[T]) BY <1>3, <3>3 DEF AppliedTo
    <3>6. PICK routes, new : routes = init.routes /\ new = r.init.routes OBVIOUS
    <3>7. RoutesFor(done \union {p}, new)
      <4>1. Gains(routes, new, T, AppliedTo(p, T)) BY <3>3, <3>4, <3>5, <3>6
      <4>2. RoutesFor(done, routes) /\ T \in Routes /\ Choosing(p, T) BY <3>2, <3>3, <3>6, <1>17
      <4>3. QED BY <4>1, <4>2, <1>2, MoreRoutes
    <3>8. QED BY <3>6, <3>7, <2>5 DEF more
  <2>8. QED BY <2>6, <2>7
<1>18. QED BY <1>4, <1>13, <1>14, <1>15, <1>16, <1>17

LEMMA ResolveNextCollected ==
  ASSUME Resources, ItemsTyped, Scalars, Knowledge, CInv, ResolveNext
  PROVE  CInv'
<1>1. /\ at \in DOMAIN items /\ at' = at + 1 /\ phase = "resolve" /\ phase' = "resolve"
      /\ DOMAIN items' = DOMAIN items
      /\ \A i \in DOMAIN items : i # at => items'[i] = items[i]
      /\ items'[at].name = items[at].name
      /\ UNCHANGED <<cache, lds, queued, holes>>
  BY ResolveNextFacts DEF resources
<1>2. EmbeddedWatched' /\ Enforcing' BY <1>1 DEF EmbeddedWatched, Enforcing
<1>3. ASSUME Reliable PROVE RoutesFor(Handled, init.routes)' /\ ListenersFor(Handled, init.listeners)'
  <2>1. PICK p, done : p = items[at].name /\ done = Handled OBVIOUS
  <2>2. RoutesFor(done, init.routes) /\ ListenersFor(done, init.listeners)
    BY <1>1, <1>3, <2>1 DEF CInv, Collecting
  <2>3. RoutesFor(done \union {p}, init'.routes) /\ ListenersFor(done \union {p}, init'.listeners)
    BY <2>1, <2>2, <1>3, ResolveCollected
  <2>4. Handled' = done \union {p}
    <3>1. DOMAIN items = 1..Len(items) /\ Len(items) \in Nat BY DEF ItemsTyped
    <3>2. \A i \in DOMAIN items : items'[i].name = items[i].name BY <1>1
    <3>3. \A i \in DOMAIN items : i < at' <=> i < at \/ i = at BY <3>1, <1>1
    <3>4. QED BY <3>2, <3>3, <2>1, <1>1 DEF Handled
  <2>5. /\ \A routes : RoutesFor(done \union {p}, routes) => RoutesFor(done \union {p}, routes)'
        /\ \A ls : ListenersFor(done \union {p}, ls) => ListenersFor(done \union {p}, ls)'
    <3>1. done \union {p} \in SUBSET Policies BY <2>1, <1>1, HandledFacts, ItemFacts
    <3>2. PICK more : more = done \union {p} OBVIOUS
    <3>3. SameChoice(more) /\ Typed(cache) BY <3>1, <3>2, <1>1, SameCopies DEF Resources
    <3>4. \A routes : RoutesFor(more, routes) => RoutesFor(more, routes)' BY <3>1, <3>2, <3>3, SameRoutes
    <3>5. \A ls : ListenersFor(more, ls) => ListenersFor(more, ls)' BY <3>1, <3>2, <3>3, SameListeners
    <3>6. QED BY <3>2, <3>4, <3>5
  <2>6. PICK routes, ls : routes = init'.routes /\ ls = init'.listeners OBVIOUS
  <2>7. RoutesFor(done \union {p}, routes)' /\ ListenersFor(done \union {p}, ls)' BY <2>3, <2>5, <2>6
  <2>8. QED BY <2>4, <2>6, <2>7
<1>4. Collecting' BY <1>1, <1>3 DEF Collecting, Reliable
<1>5. QED BY <1>2, <1>4 DEF CInv
-----------------------------------------------------------------------------
(* What annotations add.                                                   *)
OfHost(h, st) == ResolveWithRoute(Embedded(cache[h]), h, st)
LEMMA AddEmbeddedFacts ==
  ASSUME NEW st, Collected(st)
  PROVE  /\ \A h \in Hosts : RouteOutcome(OfHost(h, st), h, st)
         /\ AddEmbedded(st).indexed = UNION {OfHost(h, st).indexed : h \in Hosts}
         /\ DOMAIN AddEmbedded(st).routes = DOMAIN st.routes \union {h \in Hosts : h \in DOMAIN st.routes \/ HasGateway(h)}
         /\ \A n \in DOMAIN AddEmbedded(st).routes :
              /\ n \notin Hosts => AddEmbedded(st).routes[n] = st.routes[n]
              /\ n \in Hosts => /\ OfHost(n, st).reason = "Accepted"
                                /\ AddEmbedded(st).routes[n] = OfHost(n, st).init.routes[n]
<1> DEFINE resolved == [n \in Hosts |-> OfHost(n, st)]
           routes == [n \in DOMAIN st.routes \union {h \in Hosts : resolved[h].reason = "Accepted"} |->
                        IF n \in Hosts THEN resolved[n].init.routes[n] ELSE st.routes[n]]
           indexed == UNION {resolved[n].indexed : n \in Hosts}
<1>1. AddEmbedded(st) = [routes |-> routes, indexed |-> indexed] BY Zenon DEF AddEmbedded, OfHost
<1>2. \A h \in Hosts : resolved[h] = OfHost(h, st) OBVIOUS
<1> HIDE DEF resolved
<1>3. \A h \in Hosts : RouteOutcome(OfHost(h, st), h, st)
  <2>1. TAKE h \in Hosts
  <2>2. QED BY ResolveWithRouteFacts DEF OfHost
<1>4. \A h \in Hosts : resolved[h].reason = "Accepted" <=> h \in DOMAIN st.routes \/ HasGateway(h)
  BY <1>2, <1>3 DEF RouteOutcome
<1>5. indexed = UNION {OfHost(h, st).indexed : h \in Hosts} BY <1>2
<1>6. DOMAIN routes = DOMAIN st.routes \union {h \in Hosts : h \in DOMAIN st.routes \/ HasGateway(h)}
  <2>1. DOMAIN routes = DOMAIN st.routes \union {h \in Hosts : resolved[h].reason = "Accepted"} OBVIOUS
  <2>2. QED BY <2>1, <1>4
<1>7. \A n \in DOMAIN routes : /\ n \notin Hosts => routes[n] = st.routes[n]
                               /\ n \in Hosts => routes[n] = resolved[n].init.routes[n]
  OBVIOUS
<1> HIDE DEF routes, indexed
<1>8. AddEmbedded(st).routes = routes /\ AddEmbedded(st).indexed = indexed BY <1>1
<1>9. ASSUME NEW n \in DOMAIN routes, n \in Hosts
      PROVE  OfHost(n, st).reason = "Accepted" /\ routes[n] = OfHost(n, st).init.routes[n]
  <2>1. n \in DOMAIN st.routes \/ HasGateway(n) BY <1>6, <1>9
  <2>2. QED BY <2>1, <1>2, <1>4, <1>7, <1>9
<1>10. QED BY <1>3, <1>5, <1>6, <1>7, <1>8, <1>9

(* The routes collected are complete with them.                            *)
LEMMA EmbeddedRoutes ==
  ASSUME NEW st, Collected(st), NEW done, RoutesFor(done, st.routes),
         \A R \in DOMAIN st.routes : HasGateway(R),
         \A R \in Routes : Chosen(done, R) = Chosen(Policies, R)
  PROVE  RoutesComplete(AddEmbedded(st).routes)
<1>1. PICK routes, new : routes = st.routes /\ new = AddEmbedded(st).routes OBVIOUS
<1>2. /\ DOMAIN new = DOMAIN routes \union {h \in Hosts : h \in DOMAIN routes \/ HasGateway(h)}
      /\ \A n \in DOMAIN new :
           /\ n \notin Hosts => new[n] = routes[n]
           /\ n \in Hosts => OfHost(n, st).reason = "Accepted" /\ new[n] = OfHost(n, st).init.routes[n]
  BY <1>1, AddEmbeddedFacts
<1>3. /\ DOMAIN routes = {R \in Routes : Chosen(Policies, R) # {}}
      /\ \A R \in DOMAIN routes : RouteEntry(R, routes[R], Applied(Policies, R))
  BY <1>1 DEF RoutesFor, Applied
<1>4. DOMAIN new = {R \in Routes : Chosen(Policies, R) # {} \/ (R \in Hosts /\ HasGateway(R))}
  <2>1. Hosts \subseteq Routes BY HostsFacts
  <2>2. \A R \in DOMAIN routes : HasGateway(R) BY <1>1
  <2>3. QED BY <2>1, <2>2, <1>2, <1>3
<1>5. ASSUME NEW R \in DOMAIN new PROVE RouteEntry(R, new[R], Applied(Policies, R) \union EmbeddedFor(R))
  <2>1. CASE R \notin Hosts
    <3>1. EmbeddedFor(R) = {} BY <2>1 DEF EmbeddedFor
    <3>2. R \in DOMAIN routes BY <2>1, <1>2
    <3>3. Applied(Policies, R) \union EmbeddedFor(R) = Applied(Policies, R) BY <3>1
    <3>4. QED BY <3>2, <3>3, <2>1, <1>2, <1>3
  <2>2. CASE R \in Hosts
    <3>1. PICK u, q : u = OfHost(R, st) /\ q = Embedded(cache[R]) OBVIOUS
    <3>2. u = ResolveWithRoute(q, R, st) /\ u.reason = "Accepted" BY <3>1, <2>2, <1>2 DEF OfHost
    <3>3. Gains(st.routes, u.init.routes, R, RoutePolicies(q, cache[R])) BY <3>2, RouteAdded
    <3>4. new[R] = u.init.routes[R] BY <3>1, <2>2, <1>2
    <3>5. EmbeddedFor(R) = RoutePolicies(q, cache[R]) BY <3>1, <2>2 DEF EmbeddedFor
    <3>6. new[R] = EntryOf(cache[R], {cache[g] : g \in InUse(R)}, Applied(Policies, R) \union EmbeddedFor(R))
      <4>1. CASE R \in DOMAIN routes
        <5>1. RouteEntry(R, routes[R], Applied(Policies, R)) BY <4>1, <1>3
        <5>2. routes[R] = EntryOf(cache[R], {cache[g] : g \in InUse(R)}, Applied(Policies, R))
          BY <5>1 DEF RouteEntry
        <5>3. QED BY <5>2, <4>1, <3>3, <3>4, <3>5, <1>1 DEF Gains
      <4>2. CASE R \notin DOMAIN routes
        <5>1. R \in Routes BY <2>2, HostsFacts
        <5>2. Applied(Policies, R) = {} BY <5>1, <4>2, <1>3 DEF Applied
        <5>3. new[R] = EntryOf(cache[R], {cache[g] : g \in InUse(R)}, EmbeddedFor(R))
          BY <4>2, <3>3, <3>4, <3>5, <1>1 DEF Gains
        <5>4. Applied(Policies, R) \union EmbeddedFor(R) = EmbeddedFor(R) BY <5>2
        <5>5. QED BY <5>3, <5>4
      <4>3. QED BY <4>1, <4>2
    <3>7. QED BY <3>6 DEF RouteEntry, EntryOf
  <2>3. QED BY <2>1, <2>2
<1>6. RoutesComplete(new) BY <1>4, <1>5 DEF RoutesComplete
<1>7. QED BY <1>1, <1>6

(* The listeners collected are complete once every gateway is added.       *)
LEMMA AllListeners ==
  ASSUME Typed(cache), lds, NEW done, NEW ls, ListenersFor(done, ls),
         \A g \in Gateways : Chosen(done, g) = Chosen(Policies, g),
         NEW istio \in SetToSeqs(Istio), NEW others \in SetToSeqs(Existing(cache, Gateways) \ Istio),
         NEW owners \in SetToSeqs(Owners),
         NEW new, new = AddAllGateways(ls, owners, istio, others)
  PROVE  ListenersComplete(new)
<1>1. SUFFICES ASSUME DistinctNames
      PROVE  /\ OfSlots(new) /\ Ports(new) = {ServerOf(x).port : x \in CachedSlots}
             /\ \A x \in CachedSlots : Owns(x) =>
                  Heard(new, SectionOf(x)) = AppliedAt(Policies, x) \union EmbeddedAt(x)
  BY DEF ListenersComplete
<1> DEFINE all == Existing(cache, Gateways)
<1>2. IsFiniteSet(all) /\ all \subseteq Gateways BY ExistingFinite DEF Names
<1>3. Istio \subseteq all /\ Owners \subseteq Istio BY DEF Istio, Owners
<1>4. IsFiniteSet(Istio) /\ IsFiniteSet(all \ Istio) /\ IsFiniteSet(Owners) BY <1>2, <1>3, FS_Subset
<1> HIDE DEF all
<1>5. /\ istio \in Seq(Istio) /\ Range(istio) = Istio /\ DOMAIN istio = 1..Len(istio)
      /\ owners \in Seq(Owners) /\ Range(owners) = Owners /\ DOMAIN owners = 1..Len(owners) /\ Len(owners) \in Nat
  BY <1>4, OrderFacts
<1>6. others \in Seq(all \ Istio) /\ Range(others) = all \ Istio BY <1>4, OrderFacts DEF all
<1> DEFINE embedded == [g \in Owners |-> {Embedded(cache[g])}]
           none == [g \in all |-> {}]
<1>7. PICK order, F, N, mid : /\ order = istio \o others /\ F = embedded /\ N = none
                              /\ mid = AddGateways(ls, cache, owners, F)
  OBVIOUS
<1>8. new = AddGateways(mid, cache, order, N) BY <1>7 DEF AddAllGateways, all
<1>9. Range(order) = all /\ DOMAIN order \subseteq Nat
  <2>1. istio \in Seq(all) /\ others \in Seq(all) BY <1>3, <1>5, <1>6
  <2>2. /\ DOMAIN order = 1..(Len(istio) + Len(others)) /\ Len(istio) \in Nat /\ Len(others) \in Nat
        /\ DOMAIN istio = 1..Len(istio) /\ DOMAIN others = 1..Len(others)
        /\ \A i \in DOMAIN istio : order[i] = istio[i]
        /\ \A i \in DOMAIN others : order[Len(istio) + i] = others[i]
        /\ order \in Seq(all)
    BY <2>1, <1>7, ConcatFacts
  <2>3. Range(order) \subseteq all BY <2>2 DEF Range
  <2>4. ASSUME NEW g \in all PROVE g \in Range(order)
    <3>1. CASE g \in Istio
      <4>1. PICK i \in DOMAIN istio : istio[i] = g BY <3>1, <1>5 DEF Range
      <4>2. i \in DOMAIN order /\ order[i] = g BY <4>1, <2>2
      <4>3. QED BY <4>2 DEF Range
    <3>2. CASE g \notin Istio
      <4>1. PICK i \in DOMAIN others : others[i] = g BY <3>2, <1>6 DEF Range
      <4>2. Len(istio) + i \in DOMAIN order /\ order[Len(istio) + i] = g BY <4>1, <2>2
      <4>3. QED BY <4>2 DEF Range
    <3>3. QED BY <3>1, <3>2
  <2>5. DOMAIN order \subseteq Nat BY <2>2
  <2>6. Range(order) = all BY <2>3, <2>4
  <2>7. QED BY <2>5, <2>6
<1>10. /\ \A g \in Owners : F[g] = {Embedded(cache[g])}
       /\ \A g \in all : N[g] = {}
  BY <1>7
<1>11. OfSlots(ls) /\ \A x \in CachedSlots : Owns(x) => Heard(ls, SectionOf(x)) = AppliedAt(done, x)
  BY <1>1 DEF ListenersFor
<1>12. /\ OfSlots(mid)
       /\ \A x \in CachedSlots : Owns(x) =>
            Heard(mid, SectionOf(x)) = Heard(ls, SectionOf(x)) \union AddedTo(x, owners, F)
  <2>1. Range(owners) \subseteq Existing(cache, Gateways) /\ DOMAIN owners \subseteq Nat BY <1>3, <1>5 DEF all
  <2>2. \A g \in Range(owners) : F[g] = {} \/ \E p : F[g] = {p} BY <1>5, <1>10
  <2>3. mid = AddGateways(ls, cache, owners, F) BY <1>7
  <2>4. OfSlots(ls) BY <1>11
  <2>5. QED BY ONLY Typed(cache), <1>1, <2>1, <2>2, <2>3, <2>4, AddGatewaysFacts
<1>13. /\ OfSlots(new) /\ Ports(new) = {ServerOf(x).port : x \in CachedSlots}
       /\ \A x \in CachedSlots : Owns(x) =>
            Heard(new, SectionOf(x)) = Heard(mid, SectionOf(x)) \union AddedTo(x, order, N)
  <2>1. Range(order) = Existing(cache, Gateways) BY <1>9 DEF all
  <2>2. \A g \in Range(order) : N[g] = {} BY <1>9, <1>10
  <2>3. QED BY ONLY Typed(cache), <1>1, <1>8, <1>9, <1>12, <2>1, <2>2, AddGatewaysFacts
<1>14. ASSUME NEW x \in CachedSlots
       PROVE  /\ AppliedAt(done, x) = AppliedAt(Policies, x)
              /\ AddedTo(x, owners, F) = EmbeddedAt(x) /\ AddedTo(x, order, N) = {}
  <2>1. x[1] \in all /\ x[1] \in Gateways BY CachedSlotFacts, <1>2 DEF all
  <2>2. AppliedAt(done, x) = AppliedAt(Policies, x) BY <2>1 DEF AppliedAt
  <2>3. AddedTo(x, owners, F) = EmbeddedAt(x) BY <1>5, <1>10 DEF AddedTo, EmbeddedAt
  <2>4. AddedTo(x, order, N) = {} BY <2>1, <1>10 DEF AddedTo, Fitting
  <2>5. QED BY <2>2, <2>3, <2>4
<1>15. QED BY <1>11, <1>12, <1>13, <1>14
(* What is collected once all policies are resolved is complete.           *)
LEMMA FinishCollected ==
  ASSUME Resources, ItemsTyped, Scalars, Knowledge, CInv, Finish, ~queued
  PROVE  CInv'
<1>1. /\ phase = "resolve" /\ phase' = "output" /\ at > Len(items)
      /\ gwIndex' = gateways \union AddEmbedded(init).indexed \union IF lds THEN Owners ELSE {}
      /\ UNCHANGED <<cache, lds, queued, holes>>
  BY DEF Finish, resources
<1>2. Collected(init) /\ Typed(cache) BY DEF Scalars, Resources
<1>3. \A R \in DOMAIN init.routes : /\ Named(cache[R]) \subseteq gateways
                                    /\ "gateway" \notin holes => HasGateway(R)
  BY <1>1 DEF Knowledge, RoutesResolved
<1>4. Hosts' = Hosts BY <1>1 DEF Hosts, Existing, HasEmbedded
<1>5. EmbeddedWatched'
  <2>1. SUFFICES ASSUME NEW R \in Hosts PROVE Named(cache[R]) \subseteq gwIndex'
    BY <1>1, <1>4 DEF EmbeddedWatched
  <2>2. RouteOutcome(OfHost(R, init), R, init) /\ OfHost(R, init).indexed \subseteq AddEmbedded(init).indexed
    <3>1. PICK st : st = init OBVIOUS
    <3>2. RouteOutcome(OfHost(R, st), R, st) /\ AddEmbedded(st).indexed = UNION {OfHost(h, st).indexed : h \in Hosts}
      BY <1>2, <3>1, AddEmbeddedFacts
    <3>3. QED BY <3>1, <3>2
  <2>3. CASE R \in DOMAIN init.routes BY <2>3, <1>1, <1>3
  <2>4. CASE R \notin DOMAIN init.routes
    <3>1. OfHost(R, init).indexed = Named(cache[R]) BY <2>2, <2>4 DEF RouteOutcome
    <3>2. QED BY <3>1, <2>2, <1>1
  <2>5. QED BY <2>3, <2>4
<1>6. ASSUME "gateway" \notin holes PROVE Complete(init)'
  <2>1. PICK st, done : st = init /\ done = Handled OBVIOUS
  <2>2. RoutesFor(done, st.routes) /\ ListenersFor(done, st.listeners)
    BY <1>1, <1>6, <2>1 DEF CInv, Collecting, Reliable
  <2>3. \A t : Chosen(done, t) = Chosen(Policies, t)
    <3>1. \A i \in DOMAIN items : i < at
      <4>1. DOMAIN items = 1..Len(items) /\ Len(items) \in Nat BY DEF ItemsTyped
      <4>2. at \in Nat BY <4>1 DEF Scalars
      <4>3. QED BY <4>1, <4>2, <1>1
    <3>2. \A p \in Policies : cache[p] # Absent => p \in done
      BY <3>1, <2>1, <1>1 DEF Knowledge, Listed, Handled
    <3>3. done \subseteq Policies BY <2>1, HandledFacts
    <3>4. QED BY <3>2, <3>3 DEF Chosen
  <2>4. RoutesComplete(AddEmbedded(st).routes)
    <3>1. \A R \in DOMAIN st.routes : HasGateway(R) BY <2>1, <1>3, <1>6
    <3>2. QED BY <3>1, <2>1, <2>2, <2>3, <1>2, EmbeddedRoutes
  <2>5. PICK istio \in SetToSeqs(Istio), others \in SetToSeqs(Existing(cache, Gateways) \ Istio), owners \in SetToSeqs(Owners) :
          init' = [routes |-> AddEmbedded(st).routes,
                   listeners |-> IF lds THEN AddAllGateways(st.listeners, owners, istio, others) ELSE st.listeners]
    BY <2>1 DEF Finish
  <2>6. PICK all, routes : all = AddAllGateways(st.listeners, owners, istio, others) /\ routes = AddEmbedded(st).routes
    OBVIOUS
  <2>7. init'.routes = routes /\ init'.listeners = IF lds THEN all ELSE st.listeners BY <2>5, <2>6
  <2>8. ListenersComplete(IF lds THEN all ELSE st.listeners)
    <3>1. CASE ~lds BY <3>1, <2>2 DEF ListenersFor, ListenersComplete
    <3>2. CASE lds
      <4>1. PICK ls : ls = st.listeners OBVIOUS
      <4>2. ListenersFor(done, ls) /\ all = AddAllGateways(ls, owners, istio, others) BY <4>1, <2>2, <2>6
      <4>3. ListenersComplete(all) BY <4>2, <3>2, <2>3, <1>2, AllListeners
      <4>4. QED BY <4>3, <3>2
    <3>3. QED BY <3>1, <3>2
  <2>9. PICK ls : ls = IF lds THEN all ELSE st.listeners OBVIOUS
  <2>10. SameChoice(Policies) /\ SameHosts BY <1>1, SameCopies
  <2>11. RoutesComplete(routes)' BY <2>4, <2>6, <2>10, SameRoutes
  <2>12. ListenersComplete(ls)' BY <2>8, <2>9, <2>10, <1>2, SameListeners
  <2>13. init'.routes = routes /\ init'.listeners = ls BY <2>7, <2>9
  <2>14. QED BY <2>11, <2>12, <2>13 DEF Complete
<1>7. Collecting' BY <1>1, <1>6 DEF Collecting, Reliable
<1>8. Enforcing' BY <1>1 DEF Enforcing
<1>9. QED BY <1>5, <1>7, <1>8 DEF CInv

(* What is written is what a complete reconciliation generates.            *)
LEMMA OutputCollected ==
  ASSUME Resources, ItemsTyped, Scalars, CInv, Output, ~queued'
  PROVE  CInv'
<1>1. /\ phase = "output" /\ phase' = "status"
      /\ UNCHANGED <<cache, lds, gwIndex, queued>>
      /\ \E generated \in Process(init) :
           holes' = (holes \ {"output", "orphan"}) \union IF SpecsOf(efs') # SpecsOf(generated) THEN {"output"} ELSE {}
  BY DEF Output, Abandon, resources, indexes
<1>2. SameChoice(Policies) /\ SameHosts /\ Hosts' = Hosts BY <1>1, SameCopies
<1>3. EmbeddedWatched' BY <1>1, <1>2 DEF CInv, EmbeddedWatched
<1>4. Collecting' BY <1>1 DEF Collecting
<1>5. ASSUME holes' \subseteq {"status"}
      PROVE  \E st : Complete(st)' /\ \E generated \in Process(st) : SpecsOf(efs)' = SpecsOf(generated)
  <2>1. PICK st : st = init OBVIOUS
  <2>2. PICK generated \in Process(st) :
          holes' = (holes \ {"output", "orphan"}) \union IF SpecsOf(efs') # SpecsOf(generated) THEN {"output"} ELSE {}
    BY <1>1, <2>1
  <2>3. SpecsOf(efs') = SpecsOf(generated) /\ "gateway" \notin holes BY <2>2, <1>5
  <2>4. Complete(st) BY <2>1, <2>3, <1>1 DEF CInv, Collecting, Reliable
  <2>5. Complete(st)' BY <2>4, <1>2, SameComplete DEF Resources
  <2>6. SpecsOf(efs)' = SpecsOf(efs') BY DEF SpecsOf
  <2>7. QED BY <2>3, <2>5, <2>6
<1>6. Enforcing' BY <1>5 DEF Enforcing
<1>7. QED BY <1>3, <1>4, <1>6 DEF CInv
-----------------------------------------------------------------------------
(* When nothing asks for a reconciliation there is nothing to generate.    *)
LEMMA NothingComplete ==
  ASSUME Typed(cache), \A p \in Policies : cache[p] = Absent, Hosts = {},
         lds => \A g \in Gateways : cache[g] = Absent
  PROVE  Complete(NewInitState)
<1>1. NewInitState.routes = Nothing /\ NewInitState.listeners = NoListeners BY DEF NewInitState
<1>2. DOMAIN Nothing = {} BY DEF Nothing
<1>3. \A t : Chosen(Policies, t) = {} BY DEF Chosen
<1>4. RoutesComplete(Nothing) BY <1>2, <1>3 DEF RoutesComplete
<1>5. ListenersComplete(NoListeners)
  <2>1. CASE ~lds BY <2>1 DEF ListenersComplete
  <2>2. CASE lds
    <3>1. CachedSlots = {} BY <2>2 DEF CachedSlots, Existing
    <3>2. NoListeners.owner = Nothing /\ NoListeners.sections = Nothing /\ NoListeners.bare = Nothing
      BY DEF NoListeners
    <3>3. OfSlots(NoListeners) BY <3>2, <1>2 DEF OfSlots
    <3>4. Ports(NoListeners) = {} BY <3>2, <1>2 DEF Ports
    <3>5. QED BY <2>2, <3>1, <3>3, <3>4 DEF ListenersComplete
  <2>3. QED BY <2>1, <2>2
<1>6. QED BY <1>1, <1>4, <1>5 DEF Complete

LEMMA NothingGenerated ==
  ASSUME NEW filters, DOMAIN filters = {}
  PROVE  \E generated \in Process(NewInitState) : SpecsOf(filters) = SpecsOf(generated)
<1>1. NewInitState.routes = Nothing /\ NewInitState.listeners = NoListeners BY DEF NewInitState
<1>2. DOMAIN Nothing = {} BY DEF Nothing
<1>3. PICK order : order \in SetToSeqs({})
  <2>1. Cardinality({}) = 0 BY FS_EmptySet
  <2>2. 1..0 = {} OBVIOUS
  <2>3. \E f : f \in [{} -> {}]
    <3>1. [x \in {} |-> x] \in [{} -> {}] OBVIOUS
    <3>2. QED BY <3>1
  <2>4. QED BY <2>1, <2>2, <2>3 DEF SetToSeqs
<1>4. PICK dp, generated : /\ dp = toDataPlaneState(NewInitState, order)
                           /\ generated = Generated(RouteFilters(dp), ListenerFilters(NoListeners))
  OBVIOUS
<1>5. generated \in Process(NewInitState) BY <1>1, <1>2, <1>3, <1>4 DEF Process
<1>6. DOMAIN dp.owner = {}
  <2>1. PICK st : st = NewInitState OBVIOUS
  <2>2. DOMAIN st.routes = {} BY <2>1, <1>1, <1>2
  <2>3. IsFiniteSet(DOMAIN st.routes) BY <2>2, FS_EmptySet
  <2>4. order \in SetToSeqs(DOMAIN st.routes) BY <1>3, <2>2
  <2>5. dp = toDataPlaneState(st, order) BY <1>4, <2>1
  <2>6. DOMAIN dp.owner = UNION {CollectedHosts(st, n) : n \in DOMAIN st.routes}
    BY ONLY <2>3, <2>4, <2>5, DataPlaneFacts
  <2>7. QED BY <2>2, <2>6
<1>7. DOMAIN RouteFilters(dp) = {}
  <2>1. DOMAIN RouteFilters(dp) \subseteq {HostKey(v) : v \in DOMAIN dp.owner} BY DEF RouteFilters
  <2>2. QED BY <2>1, <1>6
<1>8. DOMAIN ListenerFilters(NoListeners) = {}
  <2>1. NoListeners.sections = Nothing /\ NoListeners.bare = Nothing BY DEF NoListeners
  <2>2. Ports(NoListeners) = {} BY <2>1, <1>2 DEF Ports
  <2>3. QED BY <2>2, ListenerFiltersFacts
<1>9. DOMAIN generated = {} BY <1>4, <1>7, <1>8 DEF Generated
<1>10. SpecsOf(filters) = SpecsOf(generated) BY <1>9 DEF SpecsOf
<1>11. QED BY <1>5, <1>10

LEMMA AsleepCollected ==
  ASSUME Typed(cache), phase = "idle", queued = Wakes(cache, lds),
         ~queued /\ holes \subseteq {"status"} => DOMAIN efs = {}
  PROVE  CInv
<1>1. SUFFICES ASSUME ~queued PROVE CInv BY DEF CInv, Collecting, Reliable, EmbeddedWatched, Enforcing
<1>2. /\ \A p \in Policies : cache[p] = Absent
      /\ \A n \in Names : cache[n] # Absent => ~HasEmbedded(n, cache[n])
      /\ lds => \A g \in Gateways : cache[g] = Absent
  BY <1>1 DEF Wakes, Existing, Names
<1>3. Hosts = {} BY <1>2 DEF Hosts, Existing, Names
<1>4. EmbeddedWatched BY <1>3 DEF EmbeddedWatched
<1>5. Collecting BY DEF Collecting
<1>6. Complete(NewInitState) BY <1>2, <1>3, NothingComplete
<1>7. ASSUME holes \subseteq {"status"}
      PROVE  \E generated \in Process(NewInitState) : SpecsOf(efs) = SpecsOf(generated)
  <2>1. PICK filters : filters = efs OBVIOUS
  <2>2. DOMAIN filters = {} BY <2>1, <1>1, <1>7
  <2>3. QED BY <2>1, <2>2, NothingGenerated
<1>8. Enforcing BY <1>6, <1>7 DEF Enforcing
<1>9. QED BY <1>4, <1>5, <1>8 DEF CInv

LEMMA InitCollected ==
  ASSUME Init
  PROVE  CInv
<1>1. phase = "idle" /\ queued = Wakes(cache, lds) /\ efs = Nothing BY DEF Init
<1>2. DOMAIN efs = {} BY <1>1 DEF Nothing
<1>3. Typed(cache) BY InitResources DEF Resources
<1>4. QED BY <1>1, <1>2, <1>3, AsleepCollected

LEMMA RestartCollected ==
  ASSUME Resources, Restart
  PROVE  CInv'
<1>1. /\ cache' = api /\ phase' = "idle" /\ queued' = Wakes(api, lds) /\ UNCHANGED <<lds, efs>>
      /\ ~queued' => holes' = IF DOMAIN efs = {} THEN {} ELSE {"orphan"}
  BY DEF Restart
<1>2. Typed(cache)' BY <1>1 DEF Resources, Typed
<1>3. phase' = "idle" /\ queued' = Wakes(cache', lds') BY <1>1
<1>4. ~queued' /\ holes' \subseteq {"status"} => DOMAIN efs' = {} BY <1>1
<1>5. (/\ Typed(cache) /\ phase = "idle" /\ queued = Wakes(cache, lds)
       /\ ~queued /\ holes \subseteq {"status"} => DOMAIN efs = {})'
  BY <1>2, <1>3, <1>4
<1>6. QED BY <1>5, AsleepCollected, PTL

(* Each step keeps what has been collected, and what is enforced, right.   *)
LEMMA CollectedStep ==
  ASSUME Resources, ItemsTyped, Scalars, Knowledge, CInv, [Next]_vars
  PROVE  CInv'
<1>1. CASE Users
  <2>1. UNCHANGED <<cache, lds, efs, gwIndex, queued>> /\ UNCHANGED <<items, at, init, phase>> /\ UNCHANGED holes
    BY <1>1, UsersFacts DEF Others, outputs, work, indexes
  <2>2. QED BY <2>1, SameCollected
<1>2. CASE ObserveOutput
  <2>1. UNCHANGED <<cache, lds, efs, gwIndex, queued>> /\ UNCHANGED <<items, at, init, phase>> /\ UNCHANGED holes
    BY <1>2 DEF ObserveOutput, resources, work, indexes
  <2>2. QED BY <2>1, SameCollected
<1>3. CASE \E kind \in Kinds : Observe(kind)
  <2>0. PICK kind \in Kinds : Observe(kind) BY <1>3
  <2>1. PICK n, obj : /\ Observed(kind, n, obj)
                      /\ queued' = (queued \/ Triggers(n, cache[n], obj))
                      /\ holes' = holes \union IF ~Triggers(n, cache[n], obj) /\ n \in gateways THEN {"gateway"} ELSE {}
                      /\ UNCHANGED <<outputs, work, indexes, lds, phase>>
    BY <2>0, ObserveFacts
  <2>2. CASE queued \/ Triggers(n, cache[n], obj) BY <2>1, <2>2, QueuedCollected
  <2>3. CASE ~queued /\ ~Triggers(n, cache[n], obj)
    <3>1. queued' = queued BY <2>1, <2>3 DEF Scalars
    <3>2. Ignored(n, obj) BY <2>1, <2>3, <3>1 DEF Ignored
    <3>3. UNCHANGED efs BY <2>1 DEF outputs
    <3>4. QED BY <2>1, <3>2, <3>3, IgnoredCollected
  <2>4. QED BY <2>2, <2>3
<1>4. CASE Begin BY <1>4, BeginCollected
<1>5. CASE ResolveNext BY <1>5, ResolveNextCollected
<1>6. CASE Finish
  <2>1. queued' = queued BY <1>6 DEF Finish
  <2>2. CASE queued BY <2>1, <2>2, QueuedCollected
  <2>3. CASE ~queued BY <1>6, <2>3, FinishCollected
  <2>4. QED BY <2>2, <2>3
<1>7. CASE Output BY <1>7, OutputCollected, QueuedCollected
<1>8. CASE KeepStatus \/ WriteStatus \/ Rest
  <2>1. UNCHANGED <<cache, lds, efs, gwIndex, queued>> /\ holes \subseteq holes'
    BY <1>8 DEF KeepStatus, WriteStatus, Rest, resources, outputs, indexes
  <2>2. phase = "status" /\ phase' \in {"status", "idle"}
    BY <1>8 DEF KeepStatus, WriteStatus, Rest
  <2>3. QED BY <2>1, <2>2, SameCollected
<1>9. CASE StatusFails \/ GetFails
  <2>1. queued' BY <1>9 DEF StatusFails, GetFails, Abandon
  <2>2. QED BY <2>1, QueuedCollected
<1>10. CASE Restart BY <1>10, RestartCollected
<1>11. CASE UNCHANGED vars
  <2>1. UNCHANGED <<cache, lds, efs, gwIndex, queued>> /\ UNCHANGED <<items, at, init, phase>> /\ UNCHANGED holes
    BY <1>11 DEF vars, resources, outputs, work, indexes
  <2>2. QED BY <2>1, SameCollected
<1>12. QED
  BY <1>1, <1>2, <1>3, <1>4, <1>5, <1>6, <1>7, <1>8, <1>9, <1>10, <1>11 DEF Next, Informers, Reconcile

(* At rest, and if the code has not missed anything, the EnvoyFilters are  *)
(* those that the resources ask for: each virtual host, route, gateway and *)
(* section has, for each plugin, the configuration that takes precedence,  *)
(* and nothing else is patched (Reconcile, and the translation it calls).  *)
THEOREM EnforcedHolds == Spec => []Enforced
<1>1. Init => IInv /\ CInv BY InitInvariant, InitCollected
<1>2. IInv /\ CInv /\ [Next]_vars => IInv' /\ CInv'
  <2>1. IInv => Resources /\ ItemsTyped /\ Scalars /\ Knowledge BY DEF IInv, Resources, Knowledge
  <2>2. QED BY <2>1, InvariantStep, CollectedStep
<1>3. ASSUME IInv, CInv, Quiet, holes \subseteq {"status"} PROVE Correct
  <2>1. AtRest
    <3>1. cache = api BY <1>3, SeenFacts DEF Quiet
    <3>2. QED BY <1>3, <3>1 DEF AtRest, IInv
  <2>2. phase \in {"status", "idle"} /\ ~queued BY <1>3 DEF Quiet
  <2>3. PICK st : /\ Complete(st)
                  /\ \E generated \in Process(st) : SpecsOf(efs) = SpecsOf(generated)
    BY <1>3, <2>2 DEF CInv, Enforcing
  <2>4. QED BY <2>1, <2>3, CompleteIsCorrect
<1>4. IInv /\ CInv => Enforced BY <1>3 DEF Enforced
<1>5. QED BY <1>1, <1>2, <1>4, PTL DEF Spec
=============================================================================
