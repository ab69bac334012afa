------------------------- MODULE ConsumerSyncProofs -------------------------
(***************************************************************************)
(* Proofs about ConsumerSync: for any resources, specifications, numbers   *)
(* of writes and of faults, whenever the system is at rest the statuses,   *)
(* the EnvoyFilter and the credentials agree.                              *)
(*                                                                         *)
(* What has to be carried from the moment of a list to the moment all is   *)
(* quiet is said about a log h, which exists but is no variable: the       *)
(* versions of the resources the informer will have, event by event, until *)
(* it has those of the API server.  A resource is steady if no version to  *)
(* come differs in generation or specification: then no request is to come *)
(* either, so unless one is queued, the last list was about this version,  *)
(* and its answer has been written, or is about to be.  One thing is an    *)
(* exception: a new process that finds no resource makes no request.       *)
(***************************************************************************)
EXTENDS ConsumerSync, FiniteSetTheorems, SequenceTheorems, WellFoundedInduction, TLAPS

-----------------------------------------------------------------------------
(* Versions of a resource.                                                 *)

(* An item x, or a version of a resource, has the generation and the       *)
(* specification of the object o.                                          *)
Matches(x, o) == o # Absent /\ x.gen = o.gen /\ x.spec = o.spec
Same(a, b) == a # Absent /\ Matches(a, b)

(* A status has been computed for the present generation; it is the right  *)
(* one.                                                                    *)
Answered(x) == x.status.gen = x.gen
Right(x) == Answered(x) /\ (x.status.reason = "Accepted" <=> x.spec.valid)

(* What may come after a version of a resource.                            *)
Follows(new, old) ==
  \/ GenerationChanged(old, new)
  \/ Same(old, new) /\ (Answered(old) => Answered(new))

Versions == Object \union {Absent}
Event == [res: Consumers, object: Versions]
After(objects, r, o) == [objects EXCEPT ![r] = o]
WithEvent(w, r, o) == Append(w, [res |-> r, object |-> o])
Doubles(objects) == {k \in Keys(objects) : Cardinality(Claims(objects, k)) > 1}

-----------------------------------------------------------------------------
(* The log: h[k] is what the informer will have after k more events.  The  *)
(* arguments are cache, watch, store and contested.                        *)
LogType(h, c, w, s) ==
  /\ w \in Seq(Event) /\ h \in [0 .. Len(w) -> [Consumers -> Versions]]
  /\ h[0] = c /\ h[Len(w)] = s
Replays(h, w) ==
  \A k \in 1 .. Len(w) :
    /\ h[k] = [h[k - 1] EXCEPT ![w[k].res] = w[k].object]
    /\ Follows(w[k].object, h[k - 1][w[k].res])
NotesDoubles(h, w, t) == \A k \in 0 .. Len(w) : Doubles(h[k]) \subseteq t
RightStatuses(h, w, t) ==
  \A k \in 0 .. Len(w), r \in Consumers :
    /\ h[k][r] # Absent /\ Answered(h[k][r])
    /\ Key(r, h[k][r].spec) \notin t
    => Right(h[k][r])

(* What no event is left for is up to date.                                *)
UpToDate(h, w, s) ==
  \A k \in 0 .. Len(w), r \in Consumers :
    (\A j \in k + 1 .. Len(w) : w[j].res # r) => h[k][r] = s[r]

(* From the k-th version on, only the status of r changes.                 *)
SteadyFrom(h, w, s, k, r) == \A j \in k .. Len(w) : Same(h[j][r], s[r])
StaysAnswered(h, w, s) ==
  \A k \in 0 .. Len(w), r \in Consumers :
    SteadyFrom(h, w, s, k, r) /\ Answered(h[k][r]) => Answered(s[r])

IsLog(h, c, w, s, t) ==
  /\ LogType(h, c, w, s) /\ Replays(h, w)
  /\ NotesDoubles(h, w, t) /\ RightStatuses(h, w, t)
  /\ UpToDate(h, w, s) /\ StaysAnswered(h, w, s)

-----------------------------------------------------------------------------
(* The items of a reconciliation.                                          *)
ItemsRight(its, t) ==
  \A i \in DOMAIN its :
    /\ its[i].changed => Answered(its[i])
    /\ Key(its[i].res, its[i].spec) \notin t => Right(its[i])
ItemsDistinct(its) == \A i, j \in DOMAIN its : its[i].res = its[j].res => i = j
ItemsMatch(its, out, s) ==
  \A i \in DOMAIN its : its[i].res \notin out => Matches(its[i], s[its[i].res])
OneTakesEffect(its) ==
  \A i, j \in DOMAIN its :
    /\ TakesEffect(its[i]) /\ TakesEffect(its[j])
    /\ Key(its[i].res, its[i].spec) = Key(its[j].res, its[j].spec)
    => i = j
ItemsInv ==
  /\ ItemsRight(items, contested) /\ ItemsDistinct(items)
  /\ ItemsMatch(items, outdated, store)
  /\ pc = "generate" => OneTakesEffect(items)
  /\ pc = "idle" => items = <<>>

-----------------------------------------------------------------------------
(* What holds while no request is queued: from the list under way, or the  *)
(* last one, to what users have written since.                             *)
Pending(r) == \E i \in DOMAIN items : /\ items[i].res = r /\ items[i].changed
                                      /\ Matches(items[i], store[r])
Considered(r) == \E i \in DOMAIN items : /\ items[i].res = r
                                         /\ Matches(items[i], store[r])
Steady(h, r) == SteadyFrom(h, watch, store, 0, r)
StatusOnItsWay(h) ==
  \A r \in Consumers : Steady(h, r) /\ Uncontested(r) => Answered(store[r]) \/ Pending(r)
Served(h) ==
  \A r \in Consumers :
    Steady(h, r) /\ Uncontested(r) /\ store[r].spec.valid
      => Serves(envoyFilter, Key(r, store[r].spec), Entry(r))
Listing(h) ==
  /\ \A r \in Consumers : Steady(h, r) => Considered(r)
  /\ \A i \in DOMAIN items : Matches(items[i], cache[items[i].res])

(* e is the entry of r as the informer has it.                             *)
IsEntryOf(e, r, o) ==
  /\ o # Absent /\ o.spec.valid
  /\ Key(r, o.spec) = <<e.ns, e.name>>
  /\ e.entry = [v |-> o.gen, d |-> Marshal(o.spec)]
NothingElseServed ==
  \A e \in Entries(envoyFilter) :
    <<e.ns, e.name>> \notin contested => \E r \in Consumers : IsEntryOf(e, r, cache[r])

Abreast(h) ==
  ~queued =>
    /\ StatusOnItsWay(h)
    /\ pc # "generate" => Served(h)
    /\ pc # "generate" /\ (Live(cache) # {} \/ ~restarted) => NothingElseServed
    /\ pc = "generate" => Listing(h)

-----------------------------------------------------------------------------
(* The data plane.                                                         *)
FiniteNames(f) == \A ns \in DOMAIN f : IsFiniteSet(DOMAIN f[ns])
Loaded ==
  \A ns \in DOMAIN applied :
    /\ ns \in DOMAIN resourceIndex
    /\ \A n \in DOMAIN resourceIndex[ns] :
         n \in DOMAIN applied[ns] /\ resourceIndex[ns][n].v = applied[ns][n].v
    /\ \A n \in DOMAIN applied[ns] :
         applied[ns][n].d.loads => n \in DOMAIN resourceIndex[ns]
ScopeRight ==
  \A ns \in DOMAIN resourceIndex :
    /\ \A c \in DOMAIN scopeIndex[ns] :
         /\ scopeIndex[ns][c] \in DOMAIN resourceIndex[ns]
         /\ c \in resourceIndex[ns][scopeIndex[ns][c]].d.creds
    /\ \A n \in DOMAIN resourceIndex[ns] :
         resourceIndex[ns][n].d.creds \subseteq DOMAIN scopeIndex[ns]
DataInv ==
  /\ FiniteNames(envoyFilter) /\ FiniteNames(resourceIndex)
  /\ DOMAIN scopeIndex = DOMAIN resourceIndex
  /\ Loaded /\ ScopeRight

WithinBudget ==
  \A r \in Consumers : store[r] # Absent =>
    store[r].gen + writes[r] <= MaxWrites /\ store[r].status.gen <= store[r].gen
Claimable == {<<r.ns, ConsumerName(q, s)>> : r, q \in Consumers, s \in Specs}
ControlTyped == ReconcilerTypeOK /\ contested \subseteq Claimable

(* The inductive invariant.                                                *)
SyncInv ==
  /\ ControlTyped /\ WithinBudget /\ ItemsInv /\ DataInv
  /\ \E h : IsLog(h, cache, watch, store, contested) /\ Abreast(h)
-----------------------------------------------------------------------------
(* Facts about versions.                                                   *)

LEMMA ObjectFields ==
  ASSUME NEW o \in Object
  PROVE  /\ o # Absent /\ o.gen \in 1 .. MaxWrites /\ o.spec \in Specs /\ o.status \in Status
         /\ o.spec.valid \in BOOLEAN
         /\ o = [gen |-> o.gen, spec |-> o.spec, status |-> o.status]
BY ConsumersAssumption, AbsentAssumption DEF Object

LEMMA StatusFields ==
  ASSUME NEW s \in Status
  PROVE  /\ s.reason \in {"None", "Accepted", "Invalid"} /\ s.gen \in 0 .. MaxWrites
         /\ s = [reason |-> s.reason, gen |-> s.gen]
BY DEF Status

(* An update of the specification, or of the status.                       *)
WithSpec(s, spec) == [s EXCEPT !.spec = spec, !.gen = @ + 1]
WithStatus(s, t) == [s EXCEPT !.status = t]

LEMMA NewSpec ==
  ASSUME NEW s \in Object, NEW spec \in Specs, s.gen + 1 \in 1 .. MaxWrites,
         NEW o, o = WithSpec(s, spec)
  PROVE  o \in Object /\ o.gen = s.gen + 1 /\ o.spec = spec /\ o.status = s.status
BY DEF Object, WithSpec

LEMMA NewStatus ==
  ASSUME NEW s \in Object, NEW t \in Status, NEW o, o = WithStatus(s, t)
  PROVE  o \in Object /\ o.gen = s.gen /\ o.spec = s.spec /\ o.status = t
BY DEF Object, WithStatus

(* Two resources that claim one name are a double claim.                   *)
LEMMA DoubleClaim ==
  ASSUME NEW objects \in [Consumers -> Versions],
         NEW r \in Live(objects), NEW q \in Live(objects), r # q, Key(r, objects[r].spec) = Key(q, objects[q].spec)
  PROVE  Key(r, objects[r].spec) \in Doubles(objects)
<1> DEFINE C == Claims(objects, Key(r, objects[r].spec))
<1>1. C \in SUBSET Consumers /\ {r, q} \in SUBSET C
  BY DEF Claims, Live
<1>2. IsFiniteSet(C)
  BY <1>1, ConsumersAssumption, FS_Subset
<1>3. Cardinality({r, q}) = 2
  <2>1. IsFiniteSet({r}) /\ Cardinality({r}) = 1
    BY FS_Singleton
  <2>2. Cardinality({r} \union {q}) = 2
    BY <2>1, FS_AddElement
  <2>3. {r} \union {q} = {r, q}
    OBVIOUS
  <2> QED BY <2>2, <2>3
<1>4. Cardinality({r, q}) <= Cardinality(C) /\ Cardinality(C) \in Nat
  BY <1>1, <1>2, FS_Subset, FS_CardinalityType
<1> QED BY <1>3, <1>4 DEF Doubles, Keys

-----------------------------------------------------------------------------
(* How the log changes.                                                    *)

(* The log knows what the informer and the API server have.                *)
LEMMA LogEnds ==
  ASSUME NEW h, NEW c, NEW w, NEW s, NEW t, IsLog(h, c, w, s, t)
  PROVE  /\ Len(w) \in Nat /\ DOMAIN w = 1 .. Len(w)
         /\ \A k \in 1 .. Len(w) : w[k] \in Event
         /\ h[0] = c /\ h[Len(w)] = s
         /\ \A k \in 0 .. Len(w) : h[k] \in [Consumers -> Versions]
         /\ c \in [Consumers -> Versions] /\ s \in [Consumers -> Versions]
         /\ Doubles(c) \subseteq t /\ Doubles(s) \subseteq t
<1>1. w \in Seq(Event) /\ h \in [0 .. Len(w) -> [Consumers -> Versions]]
      /\ h[0] = c /\ h[Len(w)] = s
  BY DEF IsLog, LogType
<1>2. Len(w) \in Nat /\ DOMAIN w = 1 .. Len(w) /\ \A k \in 1 .. Len(w) : w[k] \in Event
  BY <1>1, LenProperties, ElementOfSeq
<1>3. 0 \in 0 .. Len(w) /\ Len(w) \in 0 .. Len(w)
  BY <1>2
<1> QED BY <1>1, <1>2, <1>3 DEF IsLog, NotesDoubles

(* What is steady after a write was so before, but for its status.         *)
Continues(h, w, s, g, v, z) ==
  \A q \in Consumers :
    SteadyFrom(g, v, z, 0, q) => SteadyFrom(h, w, s, 0, q) /\ Same(s[q], z[q])

(* The API server has accepted a write.                                    *)
LEMMA LogAppend ==
  ASSUME NEW h, NEW c, NEW w, NEW s, NEW t, IsLog(h, c, w, s, t),
         NEW r \in Consumers, NEW o \in Versions, NEW u, t \subseteq u,
         NEW v, v = WithEvent(w, r, o), NEW z, z = After(s, r, o),
         Follows(o, s[r]), Doubles(z) \subseteq u,
         o # Absent /\ Answered(o) /\ Key(r, o.spec) \notin u => Right(o)
  PROVE  \E g : IsLog(g, c, v, z, u) /\ Continues(h, w, s, g, v, z)
<1> DEFINE e == [res |-> r, object |-> o]
           L == Len(w)
           g == [k \in 0 .. L + 1 |-> IF k <= L THEN h[k] ELSE z]
<1>0. v = Append(w, e) /\ z = [s EXCEPT ![r] = o]
  BY DEF WithEvent, After
<1>1. /\ L \in Nat /\ DOMAIN w = 1 .. L /\ h[0] = c /\ h[L] = s
      /\ \A k \in 0 .. L : h[k] \in [Consumers -> Versions]
      /\ s \in [Consumers -> Versions]
  BY LogEnds
<1>2. w \in Seq(Event) /\ e \in Event
  BY DEF IsLog, LogType, Event
<1>3. v \in Seq(Event) /\ Len(v) = L + 1 /\ v[L + 1] = e /\ \A k \in 1 .. L : v[k] = w[k]
  BY <1>0, <1>1, <1>2
<1>4. z \in [Consumers -> Versions] /\ z[r] = o /\ \A q \in Consumers : q # r => z[q] = s[q]
  BY <1>0, <1>1
<1>5. g[L + 1] = z /\ \A k \in 0 .. L : g[k] = h[k]
  BY <1>1
<1>6. LogType(g, c, v, z)
  BY <1>1, <1>3, <1>4, <1>5 DEF LogType
<1> HIDE DEF g, L
<1>7. Replays(g, v)
  <2> SUFFICES ASSUME NEW k \in 1 .. Len(v)
               PROVE  /\ g[k] = [g[k - 1] EXCEPT ![v[k].res] = v[k].object]
                      /\ Follows(v[k].object, g[k - 1][v[k].res])
    BY DEF Replays
  <2>1. CASE k = L + 1
    <3>1. g[k] = z /\ g[k - 1] = s /\ v[k].res = r /\ v[k].object = o
      BY <1>1, <1>3, <1>5, <2>1
    <3>2. g[k] = [g[k - 1] EXCEPT ![v[k].res] = v[k].object]
      BY <1>0, <3>1
    <3> QED BY <3>1, <3>2
  <2>2. CASE k \in 1 .. L
    <3>1. g[k] = h[k] /\ g[k - 1] = h[k - 1] /\ v[k] = w[k]
      BY <1>1, <1>3, <1>5, <2>2
    <3> QED BY <3>1, <2>2 DEF IsLog, Replays, L
  <2> QED BY <1>1, <1>3, <2>1, <2>2
<1>8. NotesDoubles(g, v, u)
  <2> SUFFICES ASSUME NEW k \in 0 .. Len(v) PROVE Doubles(g[k]) \subseteq u
    BY DEF NotesDoubles
  <2>1. CASE k = L + 1
    BY <1>5, <2>1
  <2>2. CASE k \in 0 .. L
    BY <1>5, <2>2 DEF IsLog, NotesDoubles, L
  <2> QED BY <1>1, <1>3, <2>1, <2>2
<1>9. RightStatuses(g, v, u)
  <2> SUFFICES ASSUME NEW k \in 0 .. Len(v), NEW q \in Consumers,
                      g[k][q] # Absent, Answered(g[k][q]), Key(q, g[k][q].spec) \notin u
               PROVE  Right(g[k][q])
    BY DEF RightStatuses
  <2>1. ASSUME NEW l \in 0 .. L, g[k][q] = h[l][q] PROVE Right(g[k][q])
    BY <2>1 DEF IsLog, RightStatuses, L
  <2>2. CASE k \in 0 .. L
    BY <1>5, <2>1, <2>2
  <2>3. CASE k = L + 1 /\ q # r
    <3>1. g[k] = z
      BY <1>5, <2>3
    <3>2. z[q] = s[q]
      BY <1>4, <2>3
    <3>3. g[k][q] = h[L][q] /\ L \in 0 .. L
      BY <1>1, <3>1, <3>2
    <3> QED BY <2>1, <3>3
  <2>4. CASE k = L + 1 /\ q = r
    BY <1>4, <1>5, <2>4
  <2> QED BY <1>1, <1>3, <2>2, <2>3, <2>4
<1>10. UpToDate(g, v, z)
  <2> SUFFICES ASSUME NEW k \in 0 .. Len(v), NEW q \in Consumers,
                      \A j \in k + 1 .. Len(v) : v[j].res # q
               PROVE  g[k][q] = z[q]
    BY DEF UpToDate
  <2>1. CASE k = L + 1
    BY <1>5, <2>1
  <2>2. CASE k \in 0 .. L
    <3>1. q # r
      BY <1>1, <1>3, <2>2
    <3>2. \A j \in k + 1 .. L : w[j].res # q
      BY <1>1, <1>3, <2>2
    <3>3. h[k][q] = s[q]
      BY <3>2, <2>2 DEF IsLog, UpToDate, L
    <3> QED BY <1>4, <1>5, <2>2, <3>1, <3>3
  <2> QED BY <1>1, <1>3, <2>1, <2>2
<1>11. ASSUME NEW k \in 0 .. L, NEW q \in Consumers, SteadyFrom(g, v, z, k, q)
       PROVE  SteadyFrom(h, w, s, k, q) /\ Same(s[q], z[q])
  <2>1. \A j \in k .. L + 1 : Same(g[j][q], z[q])
    BY <1>3, <1>11 DEF SteadyFrom
  <2>2. \A j \in k .. L : Same(h[j][q], z[q])
    BY <1>1, <1>5, <2>1
  <2>3. Same(s[q], z[q])
    BY <1>1, <2>2
  <2>4. \A j \in k .. L : Same(h[j][q], s[q])
    BY <2>2, <2>3 DEF Same, Matches
  <2> QED BY <2>3, <2>4 DEF SteadyFrom, L
<1>12. StaysAnswered(g, v, z)
  <2> SUFFICES ASSUME NEW k \in 0 .. Len(v), NEW q \in Consumers,
                      SteadyFrom(g, v, z, k, q), Answered(g[k][q])
               PROVE  Answered(z[q])
    BY DEF StaysAnswered
  <2>1. CASE k = L + 1
    BY <1>5, <2>1
  <2>2. CASE k \in 0 .. L
    <3>1. SteadyFrom(h, w, s, k, q) /\ Same(s[q], z[q])
      BY <1>11, <2>2
    <3>2. Answered(h[k][q])
      BY <1>5, <2>2
    <3>3. Answered(s[q])
      BY <3>1, <3>2, <2>2 DEF IsLog, StaysAnswered, L
    <3>4. CASE q # r
      BY <1>4, <3>3, <3>4
    <3>5. CASE q = r
      BY <1>4, <3>1, <3>3, <3>5 DEF Follows, GenerationChanged, Same, Matches
    <3> QED BY <3>4, <3>5
  <2> QED BY <1>1, <1>3, <2>1, <2>2
<1>13. IsLog(g, c, v, z, u)
  BY <1>6, <1>7, <1>8, <1>9, <1>10, <1>12 DEF IsLog
<1>14. Continues(h, w, s, g, v, z)
  BY <1>1, <1>11 DEF Continues
<1> QED BY <1>13, <1>14

(* The informer applies an event: what was steady without it is steady     *)
(* with it, unless the event asks for a reconciliation.                    *)
LEMMA LogObserve ==
  ASSUME NEW h, NEW c, NEW w, NEW s, NEW t, IsLog(h, c, w, s, t), w # <<>>
  PROVE  /\ Head(w) \in Event /\ Follows(Head(w).object, c[Head(w).res])
         /\ \E g : /\ IsLog(g, After(c, Head(w).res, Head(w).object), Tail(w), s, t)
                   /\ ~GenerationChanged(c[Head(w).res], Head(w).object) =>
                        \A q \in Consumers : SteadyFrom(g, Tail(w), s, 0, q)
                                               => SteadyFrom(h, w, s, 0, q)
<1> DEFINE e == Head(w)
           v == Tail(w)
           d == [c EXCEPT ![e.res] = e.object]
           L == Len(v)
           g == [k \in 0 .. L |-> h[k + 1]]
<1>1. /\ Len(w) \in Nat /\ DOMAIN w = 1 .. Len(w) /\ h[0] = c /\ h[Len(w)] = s
      /\ \A k \in 0 .. Len(w) : h[k] \in [Consumers -> Versions]
      /\ c \in [Consumers -> Versions] /\ s \in [Consumers -> Versions]
  BY LogEnds
<1>2. w \in Seq(Event)
  BY DEF IsLog, LogType
<1>3. /\ e \in Event /\ v \in Seq(Event) /\ L = Len(w) - 1
      /\ \A k \in 1 .. L : v[k] = w[k + 1]
  BY <1>2, HeadTailProperties
<1>4. L \in Nat /\ 1 \in 1 .. Len(w) /\ e = w[1]
  <2>1. L \in Nat
    BY <1>3, LenProperties
  <2> QED BY <1>1, <1>2, <1>3, <2>1
<1> HIDE DEF e, v, L
<1>5. h[1] = d /\ Follows(e.object, c[e.res])
  <2>1. h[1] = [h[1 - 1] EXCEPT ![w[1].res] = w[1].object]
        /\ Follows(w[1].object, h[1 - 1][w[1].res])
    BY <1>4 DEF IsLog, Replays
  <2>2. 1 - 1 = 0
    OBVIOUS
  <2> QED BY <1>1, <1>4, <2>1, <2>2
<1>6. /\ g[0] = d /\ g[L] = s /\ \A k \in 0 .. L : g[k] = h[k + 1] /\ k + 1 \in 0 .. Len(w)
      /\ \A k \in 0 .. L : g[k] \in [Consumers -> Versions]
  BY <1>1, <1>3, <1>4, <1>5
<1>7. LogType(g, d, v, s)
  BY <1>3, <1>4, <1>6 DEF LogType, L
<1> HIDE DEF g, d
<1>8. Replays(g, v)
  <2> SUFFICES ASSUME NEW k \in 1 .. L
               PROVE  /\ g[k] = [g[k - 1] EXCEPT ![v[k].res] = v[k].object]
                      /\ Follows(v[k].object, g[k - 1][v[k].res])
    BY DEF Replays, L
  <2>1. g[k] = h[k + 1] /\ g[k - 1] = h[k] /\ v[k] = w[k + 1] /\ k + 1 \in 1 .. Len(w)
    BY <1>3, <1>4, <1>6
  <2>2. /\ h[k + 1] = [h[k + 1 - 1] EXCEPT ![w[k + 1].res] = w[k + 1].object]
        /\ Follows(w[k + 1].object, h[k + 1 - 1][w[k + 1].res])
    BY <2>1 DEF IsLog, Replays
  <2>3. k + 1 - 1 = k
    OBVIOUS
  <2> QED BY <2>1, <2>2, <2>3
<1>9. NotesDoubles(g, v, t)
  BY <1>6 DEF IsLog, NotesDoubles, L
<1>10. RightStatuses(g, v, t)
  BY <1>6 DEF IsLog, RightStatuses, L
<1>11. UpToDate(g, v, s)
  <2> SUFFICES ASSUME NEW k \in 0 .. L, NEW q \in Consumers,
                      \A j \in k + 1 .. L : v[j].res # q
               PROVE  g[k][q] = s[q]
    BY DEF UpToDate, L
  <2>1. \A j \in k + 2 .. Len(w) : w[j].res # q
    <3> SUFFICES ASSUME NEW j \in k + 2 .. Len(w) PROVE w[j].res # q
      OBVIOUS
    <3>1. j - 1 \in k + 1 .. L /\ j - 1 \in 1 .. L
      BY <1>1, <1>3, <1>4
    <3>2. v[j - 1] = w[j]
      BY <1>3, <3>1
    <3> QED BY <3>1, <3>2
  <2>2. \A j \in (k + 1) + 1 .. Len(w) : w[j].res # q
    BY <2>1
  <2> QED BY <1>6, <2>2 DEF IsLog, UpToDate
<1>12. ASSUME NEW k \in 0 .. L, NEW q \in Consumers, SteadyFrom(g, v, s, k, q)
       PROVE  SteadyFrom(h, w, s, k + 1, q)
  <2> SUFFICES ASSUME NEW j \in k + 1 .. Len(w) PROVE Same(h[j][q], s[q])
    BY DEF SteadyFrom
  <2>1. j - 1 \in k .. L /\ j - 1 \in 0 .. L
    BY <1>1, <1>3, <1>4
  <2>2. g[j - 1] = h[j]
    BY <1>6, <2>1
  <2> QED BY <1>12, <2>1, <2>2 DEF SteadyFrom, L
<1>13. StaysAnswered(g, v, s)
  BY <1>6, <1>12 DEF IsLog, StaysAnswered, L
<1>14. ASSUME ~GenerationChanged(c[e.res], e.object), NEW q \in Consumers,
              SteadyFrom(g, v, s, 0, q)
       PROVE  SteadyFrom(h, w, s, 0, q)
  <2>1. SteadyFrom(h, w, s, 1, q)
    BY <1>4, <1>12, <1>14
  <2>2. Same(h[1][q], s[q])
    BY <1>1, <1>4, <2>1 DEF SteadyFrom
  <2>3. Same(c[q], s[q])
    <3>1. CASE q = e.res
      <4>1. h[1][q] = e.object
        BY <1>1, <1>5, <3>1 DEF d
      <4>2. Same(c[q], e.object)
        BY <1>5, <1>14, <3>1 DEF Follows
      <4> QED BY <2>2, <4>1, <4>2 DEF Same, Matches
    <3>2. CASE q # e.res
      BY <1>1, <1>5, <2>2, <3>2 DEF d
    <3> QED BY <3>1, <3>2
  <2> SUFFICES ASSUME NEW j \in 0 .. Len(w) PROVE Same(h[j][q], s[q])
    BY DEF SteadyFrom
  <2>4. CASE j = 0
    BY <1>1, <2>3, <2>4
  <2>5. CASE j \in 1 .. Len(w)
    BY <2>1, <2>5 DEF SteadyFrom
  <2> QED BY <1>1, <2>4, <2>5
<1>15. IsLog(g, d, v, s, t)
  BY <1>7, <1>8, <1>9, <1>10, <1>11, <1>13 DEF IsLog
<1>16. d = After(c, e.res, e.object)
  BY DEF d, After
<1> QED BY <1>3, <1>5, <1>14, <1>15, <1>16 DEF v, e

(* A log of the present alone.                                             *)
LEMMA LogStart ==
  ASSUME NEW s \in [Consumers -> Versions], NEW t, Doubles(s) \subseteq t,
         \A r \in Consumers : /\ s[r] # Absent /\ Answered(s[r])
                              /\ Key(r, s[r].spec) \notin t
                              => Right(s[r])
  PROVE  IsLog([k \in 0 .. 0 |-> s], s, <<>>, s, t)
<1> DEFINE h == [k \in 0 .. 0 |-> s]
<1>1. Len(<<>>) = 0 /\ <<>> \in Seq(Event)
  BY EmptySeq
<1>2. h[0] = s /\ \A k \in 0 .. Len(<<>>) : k = 0
  BY <1>1
<1>3. h \in [0 .. Len(<<>>) -> [Consumers -> Versions]]
  BY <1>1
<1> HIDE DEF h
<1>4. LogType(h, s, <<>>, s)
  BY <1>1, <1>2, <1>3 DEF LogType
<1>5. Replays(h, <<>>)
  BY <1>1 DEF Replays
<1>6. NotesDoubles(h, <<>>, t)
  BY <1>2 DEF NotesDoubles
<1>7. RightStatuses(h, <<>>, t)
  BY <1>2 DEF RightStatuses
<1>8. UpToDate(h, <<>>, s)
  BY <1>2 DEF UpToDate
<1>9. StaysAnswered(h, <<>>, s)
  BY <1>2 DEF StaysAnswered
<1> QED BY <1>4, <1>5, <1>6, <1>7, <1>8, <1>9 DEF IsLog, h

(* The statuses of the API server are right.                               *)
LEMMA LogRight ==
  ASSUME NEW h, NEW c, NEW w, NEW s, NEW t, IsLog(h, c, w, s, t), NEW r \in Consumers,
         Key(r, s[r].spec) \notin t, s[r] # Absent, Answered(s[r])
  PROVE  Right(s[r])
BY LogEnds DEF IsLog, RightStatuses

(* Likewise for what the informer has.                                     *)
LEMMA CacheRight ==
  ASSUME NEW h, NEW c, NEW w, NEW s, NEW t, IsLog(h, c, w, s, t), NEW r \in Consumers,
         Key(r, c[r].spec) \notin t, c[r] # Absent, Answered(c[r])
  PROVE  Right(c[r])
BY LogEnds DEF IsLog, RightStatuses

-----------------------------------------------------------------------------
(* consumersToState.                                                       *)

LEMMA ItemFields ==
  ASSUME NEW x \in Item
  PROVE  /\ x.res \in Consumers /\ x.gen \in 1 .. MaxWrites /\ x.spec \in Specs
         /\ x.status \in Status /\ x.changed \in BOOLEAN /\ x.spec.valid \in BOOLEAN
BY ConsumersAssumption DEF Item

(* What SetAccepted does.                                                  *)
LEMMA SetAcceptedItem ==
  ASSUME NEW x \in Item, NEW a \in {"Accepted", "Invalid"},
         NEW y, y = SetAccepted(x, a)
  PROVE  /\ y \in Item /\ y.res = x.res /\ y.gen = x.gen /\ y.spec = x.spec
         /\ y.status.reason = a /\ Answered(y)
         /\ TakesEffect(y) <=> a = "Accepted"
         /\ ~y.changed => y.status = x.status
<1> DEFINE s == [reason |-> a, gen |-> x.gen]
<1>1. x.gen \in 1 .. MaxWrites /\ x.status \in Status
  BY ItemFields
<1>2. x.gen \in 0 .. MaxWrites
  BY <1>1, ConsumersAssumption
<1>3. s \in Status /\ s.reason = a /\ s.gen = x.gen
  BY <1>2 DEF Status
<1>4. s = [reason |-> "Accepted", gen |-> x.gen] <=> a = "Accepted"
  OBVIOUS
<1>5. y = [x EXCEPT !.status = s, !.changed = (s # x.status)]
  BY DEF SetAccepted
<1> HIDE DEF s
<1>6. y \in Item /\ y.res = x.res /\ y.gen = x.gen /\ y.spec = x.spec
  BY <1>3, <1>5 DEF Item
<1>7. y.status = s /\ y.changed = (s # x.status)
  BY <1>5 DEF Item
<1>8. ~y.changed => y.status = x.status
  BY <1>7
<1> QED BY <1>3, <1>4, <1>6, <1>7, <1>8 DEF Answered, TakesEffect

(* An item is accepted if it qualifies and no item before it has taken its *)
(* name; it gets the right status unless one has.                          *)
LEMMA Examined ==
  ASSUME NEW list, NEW i, NEW x \in Item, x = list[i], ~x.changed,
         NEW y, y = Examine(list, i)
  PROVE  /\ y \in Item /\ y.res = x.res /\ y.gen = x.gen /\ y.spec = x.spec
         /\ y.changed => Answered(y)
         /\ ~y.changed => y.status = x.status
         /\ TakesEffect(y) <=> Qualifies(x) /\ ~Duplicate(list, i)
         /\ ~Duplicate(list, i) /\ (Answered(x) => Right(x)) => Right(y)
<1> DEFINE reason == IF Qualifies(x) /\ ~Duplicate(list, i) THEN "Accepted" ELSE "Invalid"
<1>1. /\ x \in Item /\ ~x.changed /\ x.gen \in 1 .. MaxWrites /\ x.status \in Status
      /\ x.spec.valid \in BOOLEAN
  BY ItemFields
<1>2. /\ x.status.reason \in {"None", "Accepted", "Invalid"}
      /\ x.status = [reason |-> x.status.reason, gen |-> x.status.gen]
  BY <1>1, StatusFields
<1>3. CASE ~IsValid(x)
  <2>1. y = x /\ x.status.gen = x.gen /\ x.status.reason = "Invalid"
    BY <1>3 DEF Examine, IsValid
  <2>2. ~TakesEffect(y)
    BY <2>1 DEF TakesEffect
  <2>3. ~Qualifies(x)
    BY <1>3 DEF Qualifies
  <2>4. ~Duplicate(list, i) /\ (Answered(x) => Right(x)) => Right(y)
    BY <2>1 DEF Answered
  <2>5. /\ y \in Item /\ y.res = x.res /\ y.gen = x.gen /\ y.spec = x.spec
        /\ ~y.changed /\ y.status = x.status
    BY <1>1, <2>1
  <2> QED BY <2>2, <2>3, <2>4, <2>5
<1>4. CASE IsValid(x)
  <2>1. y = SetAccepted(x, reason)
    BY <1>4 DEF Examine
  <2>2. reason \in {"Accepted", "Invalid"}
    OBVIOUS
  <2> HIDE DEF reason
  <2>3. /\ y \in Item /\ y.res = x.res /\ y.gen = x.gen /\ y.spec = x.spec
        /\ y.status.reason = reason /\ Answered(y)
        /\ TakesEffect(y) <=> reason = "Accepted"
        /\ ~y.changed => y.status = x.status
    BY <1>1, <2>1, <2>2, SetAcceptedItem
  <2>6. reason = "Accepted" <=> Qualifies(x) /\ ~Duplicate(list, i)
    BY DEF reason
  <2>7. ASSUME ~Duplicate(list, i), Answered(x) => Right(x) PROVE Right(y)
    <3>1. y.status.reason = "Accepted" <=> Qualifies(x)
      BY <2>3, <2>6, <2>7
    <3>2. CASE IsSpecChanged(x)
      <4>1. Qualifies(x) <=> x.spec.valid
        BY <1>1, <1>4, <3>2 DEF Qualifies
      <4> QED BY <2>3, <3>1, <4>1 DEF Right
    <3>3. CASE ~IsSpecChanged(x)
      <4>1. Answered(x) /\ x.status.reason # "None"
        BY <3>3 DEF IsSpecChanged, Answered
      <4>2. x.status.reason = "Accepted"
        BY <1>2, <1>4, <4>1 DEF IsValid, Answered
      <4>3. x.spec.valid /\ Qualifies(x)
        BY <1>4, <2>7, <3>3, <4>1, <4>2 DEF Right, Qualifies
      <4> QED BY <2>3, <3>1, <4>3 DEF Right
    <3> QED BY <3>2, <3>3
  <2> QED BY <2>3, <2>6, <2>7
<1> QED BY <1>3, <1>4

(* What List makes of the cache.                                           *)
ListOf(order) == [i \in DOMAIN order |-> Listed(order[i])]
LEMMA ListedItems ==
  ASSUME NEW h, IsLog(h, cache, watch, store, contested),
         NEW order \in Bijection(1 .. Cardinality(Live(cache)), Live(cache)),
         NEW its, its = consumersToState(ListOf(order))
  PROVE  /\ its \in Seq(Item)
         /\ \A i \in DOMAIN its :
              /\ its[i].res \in Live(cache) /\ Matches(its[i], cache[its[i].res])
              /\ ~its[i].changed => its[i].status = cache[its[i].res].status
         /\ \A r \in Live(cache) : \E i \in DOMAIN its : its[i].res = r
         /\ ItemsRight(its, contested) /\ ItemsDistinct(its) /\ OneTakesEffect(its)
<1> DEFINE n == Cardinality(Live(cache))
           list == ListOf(order)
<1>1. IsFiniteSet(Live(cache)) /\ n \in Nat
  <2>1. Live(cache) \in SUBSET Consumers
    BY DEF Live
  <2> QED BY <2>1, ConsumersAssumption, FS_Subset, FS_CardinalityType
<1> HIDE DEF n
<1>2. /\ order \in [1 .. n -> Live(cache)] /\ DOMAIN order = 1 .. n
      /\ \A i, j \in 1 .. n : order[i] = order[j] => i = j
      /\ \A r \in Live(cache) : \E i \in 1 .. n : order[i] = r
  BY DEF Bijection, Injection, IsInjective, Surjection, n
<1>3. cache \in [Consumers -> Versions]
  BY LogEnds
<1>4. ASSUME NEW i \in 1 .. n
      PROVE  /\ list[i] \in Item /\ ~list[i].changed
             /\ list[i].res = order[i] /\ order[i] \in Live(cache) /\ order[i] \in Consumers
             /\ Matches(list[i], cache[order[i]])
             /\ list[i].status = cache[order[i]].status
  <2>1. order[i] \in Live(cache) /\ order[i] \in Consumers /\ cache[order[i]] \in Object
    BY <1>2, <1>3 DEF Live, Versions
  <2>2. list[i] = Listed(order[i])
    BY <1>2 DEF ListOf
  <2>3. cache[order[i]].gen \in 1 .. MaxWrites /\ cache[order[i]].spec \in Specs
        /\ cache[order[i]].status \in Status /\ cache[order[i]] # Absent
    BY <2>1, ObjectFields
  <2> HIDE DEF list
  <2> DEFINE x == list[i]
             c == cache[order[i]]
  <2>4. /\ x = [res |-> order[i], gen |-> c.gen, spec |-> c.spec, status |-> c.status,
                changed |-> FALSE]
        /\ c.gen \in 1 .. MaxWrites /\ c.spec \in Specs /\ c.status \in Status /\ c # Absent
    BY <2>2, <2>3 DEF Listed
  <2> HIDE DEF x, c
  <2>5. x \in Item /\ ~x.changed /\ x.res = order[i] /\ Matches(x, c) /\ x.status = c.status
    BY <2>1, <2>4 DEF Item, Matches
  <2> QED BY <2>1, <2>5 DEF x, c
<1>5. DOMAIN its = 1 .. n /\ \A i \in 1 .. n : its[i] = Examine(list, i)
  BY <1>2 DEF consumersToState, ListOf
<1> HIDE DEF list
<1>6. ASSUME NEW i \in 1 .. n
      PROVE  /\ its[i] \in Item /\ its[i].res = order[i] /\ its[i].gen = list[i].gen
             /\ its[i].spec = list[i].spec
             /\ its[i].changed => Answered(its[i])
             /\ ~its[i].changed => its[i].status = list[i].status
             /\ TakesEffect(its[i]) <=> Qualifies(list[i]) /\ ~Duplicate(list, i)
             /\ ~Duplicate(list, i) /\ (Answered(list[i]) => Right(list[i])) => Right(its[i])
  <2> DEFINE x == list[i]
             y == its[i]
  <2>1. x \in Item /\ x = list[i] /\ ~x.changed /\ y = Examine(list, i) /\ x.res = order[i]
    BY <1>4, <1>5
  <2> HIDE DEF x, y
  <2>2. /\ y \in Item /\ y.res = x.res /\ y.gen = x.gen /\ y.spec = x.spec
        /\ y.changed => Answered(y)
        /\ ~y.changed => y.status = x.status
        /\ TakesEffect(y) <=> Qualifies(x) /\ ~Duplicate(list, i)
        /\ ~Duplicate(list, i) /\ (Answered(x) => Right(x)) => Right(y)
    BY <2>1, Examined
  <2> QED BY <2>1, <2>2 DEF x, y
<1>7. its \in Seq(Item)
  <2>1. its \in [1 .. n -> Item]
    <3>1. its = [i \in 1 .. n |-> its[i]]
      BY <1>2 DEF consumersToState, list, ListOf
    <3> QED BY <1>6, <3>1
  <2> QED BY <1>1, <2>1, SeqDef
<1>8. ASSUME NEW i \in 1 .. n
      PROVE  /\ its[i].res \in Live(cache) /\ Matches(its[i], cache[its[i].res])
             /\ ~its[i].changed => its[i].status = cache[its[i].res].status
  BY <1>4, <1>6 DEF Matches
<1>9. \A r \in Live(cache) : \E i \in 1 .. n : its[i].res = r
  BY <1>2, <1>6
<1>10. ItemsDistinct(its)
  <2>1. \A i \in 1 .. n : its[i].res = order[i]
    BY <1>6
  <2>2. ASSUME NEW i \in 1 .. n, NEW j \in 1 .. n, its[i].res = its[j].res PROVE i = j
    <3>1. order[i] = order[j]
      BY <2>1, <2>2
    <3> QED BY <1>2, <3>1
  <2> QED BY <1>5, <2>2 DEF ItemsDistinct
<1>11. ASSUME NEW i \in 1 .. n, Key(its[i].res, its[i].spec) \notin contested
       PROVE  Right(its[i])
  <2> DEFINE r == order[i]
  <2>1. /\ r \in Live(cache) /\ r \in Consumers /\ cache[r] # Absent
        /\ list[i].res = r /\ list[i].spec = cache[r].spec /\ list[i].gen = cache[r].gen
        /\ list[i].status = cache[r].status
        /\ its[i].res = r /\ its[i].spec = cache[r].spec
    BY <1>4, <1>6 DEF Matches, Live
  <2> HIDE DEF r
  <2>2. Key(r, cache[r].spec) \notin contested
    BY <1>11, <2>1
  <2>3. ~Duplicate(list, i)
    <3> SUFFICES ASSUME NEW j \in 1 .. i - 1,
                        Key(list[j].res, list[j].spec) = Key(list[i].res, list[i].spec)
                 PROVE  FALSE
      BY DEF Duplicate
    <3>1. j \in 1 .. n /\ j # i
      BY <1>1
    <3> DEFINE q == order[j]
    <3>2. q \in Live(cache) /\ list[j].res = q /\ list[j].spec = cache[q].spec
      BY <1>4, <3>1 DEF Matches
    <3>3. q # r
      BY <1>2, <3>1 DEF r
    <3> HIDE DEF q
    <3>4. Key(r, cache[r].spec) \in Doubles(cache)
      BY <1>3, <2>1, <3>2, <3>3, DoubleClaim
    <3> QED BY <2>2, <3>4, LogEnds
  <2>4. Answered(cache[r]) => Right(cache[r])
    BY <2>1, <2>2, CacheRight
  <2>5. Answered(list[i]) => Right(list[i])
    BY <2>1, <2>4 DEF Answered, Right
  <2> QED BY <1>6, <2>3, <2>5
<1>12. ItemsRight(its, contested)
  BY <1>5, <1>6, <1>11 DEF ItemsRight
<1>13. OneTakesEffect(its)
  <2>1. ASSUME NEW i \in 1 .. n, NEW j \in 1 .. n, TakesEffect(its[i]), TakesEffect(its[j]),
               Key(its[i].res, its[i].spec) = Key(its[j].res, its[j].spec), j < i
        PROVE  FALSE
    <3>1. Qualifies(list[j]) /\ ~Duplicate(list, i)
      BY <1>6, <2>1
    <3>2. Key(list[j].res, list[j].spec) = Key(list[i].res, list[i].spec)
      BY <1>4, <1>6, <2>1
    <3>3. j \in 1 .. i - 1
      BY <2>1
    <3> QED BY <3>1, <3>2, <3>3 DEF Duplicate
  <2>2. \A i, j \in 1 .. n : /\ TakesEffect(its[i]) /\ TakesEffect(its[j])
                             /\ Key(its[i].res, its[i].spec) = Key(its[j].res, its[j].spec)
                             => i = j
    <3> SUFFICES ASSUME NEW i \in 1 .. n, NEW j \in 1 .. n,
                        TakesEffect(its[i]), TakesEffect(its[j]),
                        Key(its[i].res, its[i].spec) = Key(its[j].res, its[j].spec)
                 PROVE  i = j
      OBVIOUS
    <3>1. ~(j < i) /\ ~(i < j)
      BY <2>1
    <3> QED BY <1>1, <3>1
  <2> QED BY <1>5, <2>2 DEF OneTakesEffect
<1> QED BY <1>5, <1>7, <1>8, <1>9, <1>10, <1>12, <1>13

-----------------------------------------------------------------------------
(* generateCustomResource.                                                 *)

NamesIn(list, ns) ==
  {ConsumerName(x.res, x.spec) : x \in {y \in Effective(list) : y.res.ns = ns}}

(* The EnvoyFilter, unfolded.                                              *)
LEMMA GeneratedAt ==
  ASSUME NEW list
  PROVE  /\ DOMAIN Generated(list) = {x.res.ns : x \in Effective(list)}
         /\ \A ns \in DOMAIN Generated(list) :
              /\ DOMAIN Generated(list)[ns] = NamesIn(list, ns)
              /\ \A n \in NamesIn(list, ns) :
                   Generated(list)[ns][n] = [v |-> Named(list, ns, n).gen,
                                             d |-> Marshal(Named(list, ns, n).spec)]
BY DEF Generated, NamesIn

LEMMA NamesInKeys ==
  ASSUME NEW list, NEW ns, NEW n
  PROVE  n \in NamesIn(list, ns) <=> \E x \in Effective(list) : Key(x.res, x.spec) = <<ns, n>>
BY DEF NamesIn, Key

(* An entry of the EnvoyFilter comes from an item that takes effect.       *)
LEMMA GeneratedFrom ==
  ASSUME NEW list, NEW ns \in DOMAIN Generated(list), NEW n \in DOMAIN Generated(list)[ns]
  PROVE  \E i \in DOMAIN list :
           /\ TakesEffect(list[i]) /\ Key(list[i].res, list[i].spec) = <<ns, n>>
           /\ Generated(list)[ns][n] = [v |-> list[i].gen, d |-> Marshal(list[i].spec)]
<1> DEFINE x == Named(list, ns, n)
<1>1. n \in NamesIn(list, ns) /\ Generated(list)[ns][n] = [v |-> x.gen, d |-> Marshal(x.spec)]
  BY GeneratedAt
<1>2. x \in Effective(list) /\ Key(x.res, x.spec) = <<ns, n>>
  BY <1>1, NamesInKeys DEF Named
<1> HIDE DEF x
<1>3. PICK i \in DOMAIN list : TakesEffect(list[i]) /\ x = list[i]
  BY <1>2 DEF Effective
<1> QED BY <1>1, <1>2, <1>3

(* An item that takes effect is served as it is.                           *)
LEMMA GeneratedServes ==
  ASSUME NEW list, OneTakesEffect(list), NEW i \in DOMAIN list, TakesEffect(list[i])
  PROVE  Serves(Generated(list), Key(list[i].res, list[i].spec),
                [v |-> list[i].gen, d |-> Marshal(list[i].spec)])
<1> DEFINE x == list[i]
           ns == x.res.ns
           n == ConsumerName(x.res, x.spec)
<1>1. x \in Effective(list) /\ Key(x.res, x.spec) = <<ns, n>>
  BY DEF Effective, Key
<1> HIDE DEF n
<1>2. ns \in DOMAIN Generated(list)
  BY <1>1, GeneratedAt
<1>3. n \in DOMAIN Generated(list)[ns]
  <2> HIDE DEF x, ns
  <2>1. n \in NamesIn(list, ns)
    BY <1>1, NamesInKeys
  <2> QED BY <1>2, <2>1, GeneratedAt
<1>4. PICK j \in DOMAIN list :
           /\ TakesEffect(list[j]) /\ Key(list[j].res, list[j].spec) = <<ns, n>>
           /\ Generated(list)[ns][n] = [v |-> list[j].gen, d |-> Marshal(list[j].spec)]
  BY <1>2, <1>3, GeneratedFrom
<1>5. j = i
  BY <1>1, <1>4 DEF OneTakesEffect
<1>6. Generated(list)[ns][n] = [v |-> x.gen, d |-> Marshal(x.spec)]
  BY <1>4, <1>5
<1> DEFINE k == Key(x.res, x.spec)
<1>7. k[1] = ns /\ k[2] = n
  BY <1>1
<1> HIDE DEF x, ns, k
<1> QED BY <1>2, <1>3, <1>6, <1>7 DEF Serves, x, k

(* Its names are finitely many.                                            *)
LEMMA GeneratedFinite ==
  ASSUME NEW list \in Seq(Item)
  PROVE  FiniteNames(Generated(list))
<1> SUFFICES ASSUME NEW ns \in DOMAIN Generated(list)
             PROVE  IsFiniteSet(DOMAIN Generated(list)[ns])
  BY DEF FiniteNames
<1> DEFINE f == [i \in DOMAIN list |-> ConsumerName(list[i].res, list[i].spec)]
           T == {f[i] : i \in DOMAIN list}
<1>1. IsFiniteSet(DOMAIN list)
  <2>1. Len(list) \in Nat /\ DOMAIN list = 1 .. Len(list)
    BY LenProperties
  <2> QED BY <2>1, FS_Interval
<1>2. f \in Surjection(DOMAIN list, T)
  BY DEF Surjection
<1>3. IsFiniteSet(T)
  BY <1>1, <1>2, FS_Surjection
<1>4. DOMAIN Generated(list)[ns] = NamesIn(list, ns)
  BY GeneratedAt
<1>5. NamesIn(list, ns) \in SUBSET T
  BY DEF NamesIn, Effective
<1> QED BY <1>3, <1>4, <1>5, FS_Subset

(* What the controller may have written into the EnvoyFilter.              *)
EntriesTyped(f) ==
  \A ns \in DOMAIN f : \A n \in DOMAIN f[ns] :
    f[ns][n].v \in 1 .. MaxWrites /\ \E spec \in Specs : f[ns][n].d = Marshal(spec)

LEMMA GeneratedTyped ==
  ASSUME NEW list \in Seq(Item)
  PROVE  EntriesTyped(Generated(list))
<1> SUFFICES ASSUME NEW ns \in DOMAIN Generated(list), NEW n \in DOMAIN Generated(list)[ns]
             PROVE  /\ Generated(list)[ns][n].v \in 1 .. MaxWrites
                    /\ \E spec \in Specs : Generated(list)[ns][n].d = Marshal(spec)
  BY DEF EntriesTyped
<1>1. PICK i \in DOMAIN list :
           Generated(list)[ns][n] = [v |-> list[i].gen, d |-> Marshal(list[i].spec)]
  BY GeneratedFrom
<1>2. list[i] \in Item
  BY ElementOfSeq, LenProperties
<1>3. list[i].gen \in 1 .. MaxWrites /\ list[i].spec \in Specs
  BY <1>2, ItemFields
<1> QED BY <1>1, <1>3

-----------------------------------------------------------------------------
(* What the steps share.                                                   *)

LEMMA KeysTyped ==
  ASSUME NEW objects \in [Consumers -> Versions]
  PROVE  Doubles(objects) \subseteq Claimable
<1> SUFFICES ASSUME NEW k \in Keys(objects)
             PROVE  k \in Claimable
  BY DEF Doubles
<1>1. PICK r \in Live(objects) : k = Key(r, objects[r].spec)
  BY DEF Keys
<1>2. r \in Consumers /\ objects[r] \in Object
  BY DEF Live, Versions
<1>3. objects[r].spec \in Specs
  BY <1>2, ObjectFields
<1> QED BY <1>1, <1>2, <1>3 DEF Key, Claimable

(* The variables of the controller, one by one.                            *)
LEMMA Types ==
  ASSUME ControlTyped
  PROVE  /\ store \in [Consumers -> Versions] /\ cache \in [Consumers -> Versions]
         /\ watch \in Seq(Event) /\ queued \in BOOLEAN /\ pc \in {"idle", "generate", "status"}
         /\ items \in Seq(Item) /\ outdated \subseteq Consumers /\ EntriesTyped(envoyFilter)
         /\ writes \in [Consumers -> 0 .. MaxWrites] /\ faults \in 0 .. MaxFaults
         /\ restarted \in BOOLEAN
BY DEF ControlTyped, ReconcilerTypeOK, Versions, Event, EntriesTyped

LEMMA TypesAfter ==
  ASSUME store' \in [Consumers -> Versions], cache' \in [Consumers -> Versions],
         watch' \in Seq(Event), queued' \in BOOLEAN, pc' \in {"idle", "generate", "status"},
         items' \in Seq(Item), outdated' \subseteq Consumers, EntriesTyped(envoyFilter'),
         writes' \in [Consumers -> 0 .. MaxWrites], faults' \in 0 .. MaxFaults,
         restarted' \in BOOLEAN, contested' \subseteq Claimable
  PROVE  ControlTyped'
BY DEF ControlTyped, ReconcilerTypeOK, Versions, Event, EntriesTyped

LEMMA ContestedTyped ==
  ASSUME ControlTyped, store' \in [Consumers -> Versions],
         contested' = contested \union Doubles(store')
  PROVE  contested' \subseteq Claimable
<1>1. Doubles(store') \subseteq Claimable
  BY KeysTyped
<1> QED BY <1>1 DEF ControlTyped

LEMMA FaultTyped ==
  ASSUME ControlTyped, Fault
  PROVE  faults' \in 0 .. MaxFaults
BY Types, ConsumersAssumption DEF Fault

(* The items of a reconciliation.                                          *)
LEMMA ItemsTyped ==
  ASSUME ControlTyped
  PROVE  /\ Len(items) \in Nat /\ DOMAIN items = 1 .. Len(items)
         /\ \A i \in DOMAIN items : items[i] \in Item
<1>1. items \in Seq(Item)
  BY Types
<1> QED BY <1>1, LenProperties, ElementOfSeq

(* A store that does not change brings no new double claim.                *)
LEMMA NothingContested ==
  ASSUME NEW h, IsLog(h, cache, watch, store, contested), UNCHANGED store,
         contested' = contested \union Doubles(store')
  PROVE  contested' = contested
BY LogEnds

LEMMA DataFrame ==
  ASSUME DataInv, UNCHANGED <<managerVars, applied>>, FiniteNames(envoyFilter')
  PROVE  DataInv'
BY DEF DataInv, FiniteNames, Loaded, ScopeRight, managerVars

(* Less is steady, and the list under way or the last one is still right   *)
(* about it.                                                               *)
LEMMA AbreastFrame ==
  ASSUME NEW h, NEW g, Abreast(h), UNCHANGED <<pc, items, envoyFilter>>,
         contested \subseteq contested', ~queued, ~queued',
         \A q \in Consumers : Steady(g, q)' => Steady(h, q) /\ store'[q] = store[q]
  PROVE  /\ StatusOnItsWay(g)'
         /\ pc # "generate" => Served(g)'
         /\ pc = "generate" => \A r \in Consumers : Steady(g, r)' => Considered(r)'
<1>1. ASSUME NEW q \in Consumers, Steady(g, q)'
      PROVE  /\ Steady(h, q) /\ store'[q] = store[q]
             /\ Uncontested(q)' => Uncontested(q)
             /\ Pending(q)' = Pending(q) /\ Considered(q)' = Considered(q)
             /\ Entry(q)' = Entry(q)
  <2>1. Steady(h, q) /\ store'[q] = store[q]
    BY <1>1
  <2> QED BY <2>1 DEF Uncontested, Pending, Considered, Entry
<1>2. StatusOnItsWay(g)'
  BY <1>1 DEF Abreast, StatusOnItsWay
<1>3. ASSUME pc # "generate" PROVE Served(g)'
  BY <1>1, <1>3 DEF Abreast, Served
<1>4. ASSUME pc = "generate", NEW r \in Consumers, Steady(g, r)' PROVE Considered(r)'
  BY <1>1, <1>4 DEF Abreast, Listing
<1> QED BY <1>2, <1>3, <1>4

-----------------------------------------------------------------------------
(* The first state.                                                        *)
LEMMA InitInv == Init => SyncInv
<1> SUFFICES ASSUME Init PROVE SyncInv
  OBVIOUS
<1>1. /\ store = [r \in Consumers |-> Absent] /\ cache = store /\ watch = <<>>
      /\ queued = FALSE /\ pc = "idle" /\ items = <<>> /\ outdated = {}
      /\ envoyFilter = NoConsumers /\ writes \in Budgets /\ faults = 0 /\ restarted = FALSE
      /\ resourceIndex = Nothing /\ scopeIndex = Nothing
      /\ applied = NoConsumers /\ contested = {}
  BY DEF Init, ReconcilerInit, ManagerInit
<1>2. DOMAIN NoConsumers = {} /\ DOMAIN Nothing = {}
  BY DEF NoConsumers, Nothing
<1>3. store \in [Consumers -> Versions] /\ cache \in [Consumers -> Versions]
  BY <1>1 DEF Versions
<1>4. \A r \in Consumers : store[r] = Absent /\ cache[r] = Absent
  BY <1>1
<1>5. <<>> \in Seq(Event) /\ <<>> \in Seq(Item) /\ Len(<<>>) = 0 /\ DOMAIN <<>> = {}
  BY EmptySeq
<1>6. writes \in [Consumers -> 0 .. MaxWrites] /\ faults \in 0 .. MaxFaults
  BY <1>1, ConsumersAssumption
<1>7. ControlTyped
  <2>1. EntriesTyped(envoyFilter)
    BY <1>1, <1>2 DEF EntriesTyped
  <2>2. /\ watch \in Seq(Event) /\ queued \in BOOLEAN /\ pc \in {"idle", "generate", "status"}
        /\ items \in Seq(Item) /\ outdated \subseteq Consumers /\ restarted \in BOOLEAN
        /\ contested \subseteq Claimable
    BY <1>1, <1>5
  <2> QED BY <1>3, <1>6, <2>1, <2>2
     DEF ControlTyped, ReconcilerTypeOK, Versions, Event, EntriesTyped
<1>8. WithinBudget
  BY <1>4 DEF WithinBudget
<1>9. ItemsInv
  BY <1>1, <1>5 DEF ItemsInv, ItemsRight, ItemsDistinct, ItemsMatch
<1>10. DataInv
  BY <1>1, <1>2 DEF DataInv, FiniteNames, Loaded, ScopeRight
<1> DEFINE h == [k \in 0 .. 0 |-> store]
<1>11. IsLog(h, store, <<>>, store, contested)
  <2>1. Doubles(store) \subseteq contested
    BY <1>4 DEF Doubles, Keys, Live
  <2> QED BY <1>3, <1>4, <2>1, LogStart
<1> HIDE DEF h
<1>12. IsLog(h, cache, watch, store, contested)
  BY <1>1, <1>11
<1>13. \A r \in Consumers : ~Steady(h, r)
  <2> SUFFICES ASSUME NEW r \in Consumers, Steady(h, r) PROVE FALSE
    OBVIOUS
  <2>1. Same(h[Len(watch)][r], store[r])
    BY <1>1, <1>5 DEF Steady, SteadyFrom
  <2> QED BY <1>4, <2>1 DEF Same, Matches
<1>14. Abreast(h)
  <2>1. NothingElseServed
    BY <1>1, <1>2 DEF NothingElseServed, Entries
  <2> QED BY <1>1, <1>13, <2>1 DEF Abreast, StatusOnItsWay, Served
<1> QED BY <1>7, <1>8, <1>9, <1>10, <1>12, <1>14 DEF SyncInv

-----------------------------------------------------------------------------
(* Users.                                                                  *)

(* The specification of r changes, or it comes or goes.                    *)
LEMMA WriteStep ==
  ASSUME SyncInv, NEW r \in Consumers, NEW o \in Versions, UserWrite(r, o),
         GenerationChanged(store[r], o),
         o # Absent => /\ o.gen + (writes[r] - 1) <= MaxWrites
                       /\ o.status.gen <= o.gen /\ ~Answered(o),
         contested' = contested \union Doubles(store'),
         UNCHANGED <<managerVars, applied>>
  PROVE  SyncInv'
<1>1. /\ writes[r] > 0 /\ writes' = [writes EXCEPT ![r] = @ - 1]
      /\ store' = [store EXCEPT ![r] = o] /\ watch' = Append(watch, [res |-> r, object |-> o])
      /\ outdated' = IF pc = "idle" THEN {} ELSE outdated \union {r}
      /\ UNCHANGED <<cache, queued, pc, items, envoyFilter, faults, restarted>>
  BY DEF UserWrite, Store
<1>2. ControlTyped /\ WithinBudget /\ ItemsInv /\ DataInv
  BY DEF SyncInv
<1>3. PICK h : IsLog(h, cache, watch, store, contested) /\ Abreast(h)
  BY DEF SyncInv
<1>4. /\ store' \in [Consumers -> Versions] /\ store'[r] = o
      /\ \A q \in Consumers : q # r => store'[q] = store[q]
  BY <1>1, <1>2, Types
<1>5. ControlTyped'
  <2>1. watch' \in Seq(Event)
    <3>1. [res |-> r, object |-> o] \in Event /\ watch \in Seq(Event)
      BY <1>2, Types DEF Event
    <3> QED BY <1>1, <3>1
  <2>2. writes' \in [Consumers -> 0 .. MaxWrites]
    BY <1>1, <1>2, Types, ConsumersAssumption
  <2>3. outdated' \subseteq Consumers
    BY <1>1, <1>2, Types
  <2>4. EntriesTyped(envoyFilter')
    BY <1>1, <1>2, Types
  <2>5. contested' \subseteq Claimable
    BY <1>2, <1>4, ContestedTyped
  <2>6. /\ cache' \in [Consumers -> Versions] /\ queued' \in BOOLEAN
        /\ pc' \in {"idle", "generate", "status"} /\ items' \in Seq(Item)
        /\ faults' \in 0 .. MaxFaults /\ restarted' \in BOOLEAN
    BY <1>1, <1>2, Types
  <2> QED BY ONLY <1>4, <2>1, <2>2, <2>3, <2>4, <2>5, <2>6, TypesAfter
<1>6. WithinBudget'
  <2> SUFFICES ASSUME NEW q \in Consumers, store'[q] # Absent
               PROVE  /\ store'[q].gen + writes'[q] <= MaxWrites
                      /\ store'[q].status.gen <= store'[q].gen
    BY DEF WithinBudget
  <2>1. CASE q = r
    BY <1>1, <1>2, <1>4, <2>1, Types
  <2>2. CASE q # r
    BY <1>1, <1>2, <1>4, <2>2, Types DEF WithinBudget
  <2> QED BY <2>1, <2>2
<1>7. ItemsInv'
  <2>1. ItemsMatch(items', outdated', store')
    <3> SUFFICES ASSUME NEW i \in DOMAIN items, items[i].res \notin outdated'
                 PROVE  Matches(items[i], store'[items[i].res])
      BY <1>1 DEF ItemsMatch
    <3>1. pc # "idle"
      BY <1>2, EmptySeq DEF ItemsInv
    <3>2. items[i].res # r /\ items[i].res \notin outdated
      BY <1>1, <3>1
    <3>3. items[i].res \in Consumers
      BY <1>2, ItemsTyped, ItemFields
    <3> QED BY <1>2, <1>4, <3>2, <3>3 DEF ItemsInv, ItemsMatch
  <2>2. ItemsRight(items', contested')
    BY <1>1, <1>2 DEF ItemsInv, ItemsRight
  <2> QED BY <1>1, <1>2, <2>1, <2>2 DEF ItemsInv
<1>8. DataInv'
  BY <1>1, <1>2, DataFrame DEF DataInv
<1>9. PICK g : /\ IsLog(g, cache, watch', store', contested')
               /\ Continues(h, watch, store, g, watch', store')
  <2>1. Follows(o, store[r])
    BY DEF Follows
  <2>2. contested \subseteq contested' /\ Doubles(store') \subseteq contested'
    BY <1>1
  <2>3. o # Absent /\ Answered(o) /\ Key(r, o.spec) \notin contested' => Right(o)
    OBVIOUS
  <2>4. watch' = WithEvent(watch, r, o) /\ store' = After(store, r, o)
    BY <1>1 DEF WithEvent, After
  <2> QED BY ONLY r \in Consumers, o \in Versions, <1>3, <2>1, <2>2, <2>3, <2>4, LogAppend
<1>10. \A q \in Consumers : Steady(g, q)' => Steady(h, q) /\ store'[q] = store[q]
  <2> SUFFICES ASSUME NEW q \in Consumers, Steady(g, q)'
               PROVE  Steady(h, q) /\ store'[q] = store[q]
    OBVIOUS
  <2>1. SteadyFrom(h, watch, store, 0, q) /\ Same(store[q], store'[q])
    BY <1>9 DEF Steady, Continues
  <2>2. q # r
    BY <1>4, <2>1 DEF GenerationChanged, Same, Matches
  <2> QED BY <1>4, <2>1, <2>2 DEF Steady
<1>11. Abreast(g)'
  <2> SUFFICES ASSUME ~queued'
               PROVE  /\ StatusOnItsWay(g)'
                      /\ pc' # "generate" => Served(g)'
                      /\ pc' # "generate" /\ (Live(cache) # {} \/ ~restarted)'
                         => NothingElseServed'
                      /\ pc' = "generate" => Listing(g)'
    BY DEF Abreast
  <2>1. ~queued /\ contested \subseteq contested'
    BY <1>1
  <2>2. /\ StatusOnItsWay(g)'
        /\ pc # "generate" => Served(g)'
        /\ pc = "generate" => \A q \in Consumers : Steady(g, q)' => Considered(q)'
    BY <1>1, <1>3, <1>10, <2>1, AbreastFrame
  <2>3. ASSUME pc # "generate", (Live(cache) # {} \/ ~restarted)' PROVE NothingElseServed'
    <3>1. NothingElseServed
      BY <1>1, <1>3, <2>1, <2>3 DEF Abreast, Live
    <3> QED BY <1>1, <2>1, <3>1 DEF NothingElseServed
  <2>4. ASSUME pc = "generate"
        PROVE  \A i \in DOMAIN items' : Matches(items'[i], cache'[items'[i].res])
    BY <1>1, <1>3, <2>1, <2>4 DEF Abreast, Listing
  <2> QED BY <1>1, <2>2, <2>3, <2>4 DEF Listing
<1>12. IsLog(g, cache', watch', store', contested')
  BY <1>1, <1>9
<1> QED BY <1>5, <1>6, <1>7, <1>8, <1>11, <1>12 DEF SyncInv

LEMMA UserStep ==
  ASSUME SyncInv, User, contested' = contested \union Doubles(store'),
         UNCHANGED <<managerVars, applied>>
  PROVE  SyncInv'
<1>1. ControlTyped /\ WithinBudget
  BY DEF SyncInv
<1>2. PICK r \in Consumers :
        Delete(r) \/ \E spec \in SpecsOf[r] : Create(r, spec) \/ UpdateSpec(r, spec)
  BY DEF User
<1>3. SpecsOf[r] \subseteq Specs
  BY DEF Specs
<1>4. /\ writes[r] \in 0 .. MaxWrites /\ MaxWrites \in Nat
      /\ store[r] # Absent => /\ store[r] \in Object /\ store[r].gen + writes[r] <= MaxWrites
                              /\ store[r].status.gen <= store[r].gen
  BY <1>1, Types, ConsumersAssumption DEF WithinBudget, Versions
<1>5. CASE Delete(r)
  <2>1. UserWrite(r, Absent) /\ GenerationChanged(store[r], Absent) /\ Absent \in Versions
    BY <1>5 DEF Delete, GenerationChanged, Versions
  <2> QED BY <2>1, WriteStep
<1>6. CASE \E spec \in SpecsOf[r] : Create(r, spec)
  <2>1. PICK spec \in SpecsOf[r] : Create(r, spec)
    BY <1>6
  <2> DEFINE o == [gen |-> 1, spec |-> spec, status |-> NoStatus]
  <2>2. UserWrite(r, o) /\ store[r] = Absent
    BY <2>1 DEF Create
  <2>3. writes[r] > 0
    BY <2>2 DEF UserWrite
  <2>4. NoStatus \in Status /\ NoStatus.gen = 0
    BY <1>4 DEF NoStatus, Status
  <2>5. o \in Object /\ o.gen = 1 /\ o.status = NoStatus
    BY <1>3, <1>4, <2>3, <2>4 DEF Object
  <2> HIDE DEF o
  <2>6. o \in Versions /\ GenerationChanged(store[r], o)
    BY <2>2, <2>5 DEF Versions, GenerationChanged
  <2>7. o.gen + (writes[r] - 1) <= MaxWrites /\ o.status.gen <= o.gen /\ ~Answered(o)
    BY <1>4, <2>4, <2>5 DEF Answered
  <2> QED BY <2>2, <2>6, <2>7, WriteStep
<1>7. CASE \E spec \in SpecsOf[r] : UpdateSpec(r, spec)
  <2>1. PICK spec \in SpecsOf[r] : UpdateSpec(r, spec)
    BY <1>7
  <2> DEFINE s == store[r]
             o == [s EXCEPT !.spec = spec, !.gen = @ + 1]
  <2>2. UserWrite(r, o) /\ s # Absent
    BY <2>1 DEF UpdateSpec
  <2>3. writes[r] > 0
    BY <2>2 DEF UserWrite
  <2>4. /\ s \in Object /\ s.gen + writes[r] <= MaxWrites /\ s.status.gen <= s.gen
        /\ s.gen \in 1 .. MaxWrites /\ s.status \in Status /\ s.status.gen \in 0 .. MaxWrites
    BY <1>4, <2>2, ObjectFields, StatusFields
  <2> HIDE DEF s
  <2>5. o = WithSpec(s, spec)
    BY DEF WithSpec
  <2> HIDE DEF o
  <2>6. s.gen + 1 \in 1 .. MaxWrites
    BY <1>4, <2>3, <2>4
  <2>7. o \in Object /\ o.gen = s.gen + 1 /\ o.spec = spec /\ o.status = s.status
    BY <1>3, <2>4, <2>5, <2>6, NewSpec
  <2>8. o \in Versions /\ GenerationChanged(s, o)
    BY <2>4, <2>7 DEF Versions, GenerationChanged
  <2>9. o.gen + (writes[r] - 1) <= MaxWrites /\ o.status.gen <= o.gen /\ ~Answered(o)
    BY <1>4, <2>4, <2>7 DEF Answered
  <2> QED BY <2>2, <2>8, <2>9, WriteStep DEF s
<1> QED BY <1>2, <1>5, <1>6, <1>7

-----------------------------------------------------------------------------
(* The informer.                                                           *)
LEMMA ObserveStep ==
  ASSUME SyncInv, Observe, contested' = contested \union Doubles(store'),
         UNCHANGED <<managerVars, applied>>
  PROVE  SyncInv'
<1> DEFINE r == Head(watch).res
           o == Head(watch).object
<1>1. /\ watch # <<>> /\ cache' = After(cache, r, o) /\ watch' = Tail(watch)
      /\ queued' = (queued \/ GenerationChanged(cache[r], o))
      /\ UNCHANGED <<store, pc, items, outdated, envoyFilter, writes, faults, restarted>>
  BY DEF Observe, After
<1>2. ControlTyped /\ WithinBudget /\ ItemsInv /\ DataInv
  BY DEF SyncInv
<1>3. PICK h : IsLog(h, cache, watch, store, contested) /\ Abreast(h)
  BY DEF SyncInv
<1>4. /\ Head(watch) \in Event /\ Follows(o, cache[r])
      /\ \E g : /\ IsLog(g, After(cache, r, o), Tail(watch), store, contested)
                /\ ~GenerationChanged(cache[r], o) =>
                     \A q \in Consumers : SteadyFrom(g, Tail(watch), store, 0, q)
                                            => SteadyFrom(h, watch, store, 0, q)
  BY <1>1, <1>3, LogObserve
<1>5. r \in Consumers /\ o \in Versions
  BY <1>4 DEF Event
<1> HIDE DEF r, o
<1>6. contested' = contested
  BY <1>1, <1>3, NothingContested
<1>7. PICK g : /\ IsLog(g, cache', watch', store', contested')
               /\ ~GenerationChanged(cache[r], o) =>
                    \A q \in Consumers : Steady(g, q)' => Steady(h, q)
  BY <1>1, <1>4, <1>6 DEF Steady
<1>8. /\ cache' \in [Consumers -> Versions] /\ cache'[r] = o
      /\ \A q \in Consumers : q # r => cache'[q] = cache[q]
  BY <1>1, <1>2, <1>5, Types DEF After
<1>9. ControlTyped'
  <2>1. watch' \in Seq(Event)
    BY <1>1, <1>2, Types, HeadTailProperties
  <2>2. queued' \in BOOLEAN
    BY <1>1, <1>2, Types DEF GenerationChanged
  <2>3. /\ store' \in [Consumers -> Versions] /\ pc' \in {"idle", "generate", "status"}
        /\ items' \in Seq(Item) /\ outdated' \subseteq Consumers /\ EntriesTyped(envoyFilter')
        /\ writes' \in [Consumers -> 0 .. MaxWrites] /\ faults' \in 0 .. MaxFaults
        /\ restarted' \in BOOLEAN
    BY <1>1, <1>2, Types
  <2>4. contested' \subseteq Claimable
    BY <1>2, <1>6 DEF ControlTyped
  <2> QED BY ONLY <1>8, <2>1, <2>2, <2>3, <2>4, TypesAfter
<1>10. WithinBudget' /\ ItemsInv' /\ DataInv'
  <2>1. WithinBudget'
    BY <1>1, <1>2 DEF WithinBudget
  <2>2. ItemsInv'
    BY <1>1, <1>2, <1>6 DEF ItemsInv
  <2>3. DataInv'
    BY <1>1, <1>2, DataFrame DEF DataInv
  <2> QED BY <2>1, <2>2, <2>3
<1>11. Abreast(g)'
  <2> SUFFICES ASSUME ~queued'
               PROVE  /\ StatusOnItsWay(g)'
                      /\ pc' # "generate" => Served(g)'
                      /\ pc' # "generate" /\ (Live(cache) # {} \/ ~restarted)'
                         => NothingElseServed'
                      /\ pc' = "generate" => Listing(g)'
    BY DEF Abreast
  <2>1. ~queued /\ ~GenerationChanged(cache[r], o)
    BY <1>1
  <2>2. Same(cache[r], o)
    BY <1>4, <2>1 DEF Follows
  <2>3. \A q \in Consumers : cache'[q] = cache[q] \/ (q = r /\ Same(cache[q], cache'[q]))
    BY <1>8, <2>2
  <2>4. /\ StatusOnItsWay(g)'
        /\ pc # "generate" => Served(g)'
        /\ pc = "generate" => \A q \in Consumers : Steady(g, q)' => Considered(q)'
    <3>1. \A q \in Consumers : Steady(g, q)' => Steady(h, q) /\ store'[q] = store[q]
      BY <1>1, <1>7, <2>1
    <3> QED BY <1>1, <1>3, <1>6, <2>1, <3>1, AbreastFrame
  <2>5. ASSUME pc # "generate", (Live(cache) # {} \/ ~restarted)' PROVE NothingElseServed'
    <3>1. Live(cache') \subseteq Live(cache)
      BY <2>3 DEF Live, Same
    <3>2. NothingElseServed
      BY <1>1, <1>3, <2>1, <2>5, <3>1 DEF Abreast, Live
    <3>3. ASSUME NEW e, NEW q \in Consumers, IsEntryOf(e, q, cache[q])
          PROVE  IsEntryOf(e, q, cache'[q])
      BY <2>3, <3>3 DEF IsEntryOf, Same, Matches
    <3> QED BY <1>1, <1>6, <3>2, <3>3 DEF NothingElseServed
  <2>6. ASSUME pc = "generate", NEW i \in DOMAIN items
        PROVE  Matches(items[i], cache'[items[i].res])
    <3>1. Matches(items[i], cache[items[i].res])
      BY <1>3, <2>1, <2>6 DEF Abreast, Listing
    <3>2. items[i].res \in Consumers
      BY <1>2, ItemsTyped, ItemFields
    <3> QED BY <2>3, <3>1, <3>2 DEF Same, Matches
  <2> QED BY <1>1, <2>4, <2>5, <2>6 DEF Listing
<1> QED BY <1>7, <1>9, <1>10, <1>11 DEF SyncInv

-----------------------------------------------------------------------------
(* Reconcile, first part.                                                  *)
LEMMA ListStep ==
  ASSUME SyncInv, List, contested' = contested \union Doubles(store'),
         UNCHANGED <<managerVars, applied>>
  PROVE  SyncInv'
<1>1. /\ pc = "idle" /\ queued /\ pc' = "generate" /\ queued' = FALSE
      /\ outdated' = {watch[i].res : i \in DOMAIN watch}
      /\ UNCHANGED <<store, watch, cache, envoyFilter, writes, faults, restarted>>
  BY DEF List
<1>2. ControlTyped /\ WithinBudget /\ ItemsInv /\ DataInv
  BY DEF SyncInv
<1>3. PICK h : IsLog(h, cache, watch, store, contested) /\ Abreast(h)
  BY DEF SyncInv
<1>4. contested' = contested
  BY <1>1, <1>3, NothingContested
<1>5. /\ items' \in Seq(Item)
      /\ \A i \in DOMAIN items' :
           /\ items'[i].res \in Live(cache) /\ Matches(items'[i], cache[items'[i].res])
           /\ ~items'[i].changed => items'[i].status = cache[items'[i].res].status
      /\ \A r \in Live(cache) : \E i \in DOMAIN items' : items'[i].res = r
      /\ ItemsRight(items', contested) /\ ItemsDistinct(items') /\ OneTakesEffect(items')
  <2>1. PICK order \in Bijection(1 .. Cardinality(Live(cache)), Live(cache)) :
          items' = consumersToState(ListOf(order))
    BY DEF List, ListOf
  <2> QED BY <1>3, <2>1, ListedItems
<1>6. /\ Len(watch) \in Nat /\ DOMAIN watch = 1 .. Len(watch)
      /\ \A k \in 1 .. Len(watch) : watch[k] \in Event
      /\ h[0] = cache
  BY <1>3, LogEnds
<1>7. ControlTyped'
  <2>1. outdated' \subseteq Consumers
    BY <1>1, <1>6 DEF Event
  <2>2. contested' \subseteq Claimable
    BY <1>2, <1>4 DEF ControlTyped
  <2>3. /\ store' \in [Consumers -> Versions] /\ cache' \in [Consumers -> Versions]
        /\ watch' \in Seq(Event) /\ queued' \in BOOLEAN /\ pc' \in {"idle", "generate", "status"}
        /\ EntriesTyped(envoyFilter')
        /\ writes' \in [Consumers -> 0 .. MaxWrites] /\ faults' \in 0 .. MaxFaults
        /\ restarted' \in BOOLEAN
    BY <1>1, <1>2, Types
  <2> QED BY ONLY <1>5, <2>1, <2>2, <2>3, TypesAfter
<1>8. WithinBudget' /\ DataInv'
  <2>1. WithinBudget'
    BY <1>1, <1>2 DEF WithinBudget
  <2>2. DataInv'
    BY <1>1, <1>2, DataFrame DEF DataInv
  <2> QED BY <2>1, <2>2
<1>9. ItemsInv'
  <2>1. ItemsMatch(items', outdated', store')
    <3> SUFFICES ASSUME NEW i \in DOMAIN items', items'[i].res \notin outdated'
                 PROVE  Matches(items'[i], store[items'[i].res])
      BY <1>1 DEF ItemsMatch
    <3> DEFINE r == items'[i].res
    <3>1. r \in Consumers /\ Matches(items'[i], cache[r])
      BY <1>5 DEF Live
    <3> HIDE DEF r
    <3>2. \A j \in 0 + 1 .. Len(watch) : watch[j].res # r
      BY <1>1, <1>6 DEF r
    <3>3. cache[r] = store[r]
      BY <1>3, <1>6, <3>1, <3>2 DEF IsLog, UpToDate
    <3> QED BY <3>1, <3>3 DEF r
  <2> QED BY <1>1, <1>4, <1>5, <2>1 DEF ItemsInv
<1>10. ASSUME NEW r \in Consumers, Steady(h, r)
       PROVE  /\ r \in Live(cache) /\ Same(cache[r], store[r])
              /\ Answered(cache[r]) => Answered(store[r])
              /\ \E i \in DOMAIN items' : items'[i].res = r /\ Matches(items'[i], store[r])
  <2>1. SteadyFrom(h, watch, store, 0, r) /\ 0 \in 0 .. Len(watch)
    BY <1>6, <1>10 DEF Steady
  <2>2. Same(cache[r], store[r])
    BY <1>6, <2>1 DEF SteadyFrom
  <2>3. Answered(cache[r]) => Answered(store[r])
    BY <1>3, <1>6, <2>1 DEF IsLog, StaysAnswered
  <2>4. r \in Live(cache)
    BY <2>2 DEF Live, Same
  <2>5. PICK i \in DOMAIN items' : items'[i].res = r
    BY <1>5, <2>4
  <2>6. Matches(items'[i], store[r])
    BY <1>5, <2>2, <2>5 DEF Same, Matches
  <2> QED BY <2>2, <2>3, <2>4, <2>5, <2>6
<1>11. StatusOnItsWay(h)'
  <2> SUFFICES ASSUME NEW r \in Consumers, Steady(h, r), Uncontested(r)'
               PROVE  Answered(store[r]) \/ Pending(r)'
    BY <1>1 DEF StatusOnItsWay, Steady
  <2>1. PICK i \in DOMAIN items' : items'[i].res = r /\ Matches(items'[i], store[r])
    BY <1>10
  <2>2. CASE items'[i].changed
    BY <1>1, <2>1, <2>2 DEF Pending
  <2>3. CASE ~items'[i].changed
    <3>1. Key(r, items'[i].spec) \notin contested
      BY <1>1, <1>4, <2>1 DEF Uncontested, Matches
    <3>2. Right(items'[i])
      BY <1>5, <2>1, <3>1 DEF ItemsRight
    <3>3. /\ items'[i].status = cache[r].status /\ items'[i].gen = cache[r].gen
      BY <1>5, <2>1, <2>3 DEF Matches
    <3>4. Answered(cache[r])
      BY <3>2, <3>3 DEF Right, Answered
    <3> QED BY <1>10, <3>4
  <2> QED BY <2>2, <2>3
<1>12. Listing(h)'
  <2>1. \A r \in Consumers : Steady(h, r)' => Considered(r)'
    BY <1>1, <1>10 DEF Steady, Considered
  <2>2. \A i \in DOMAIN items' : Matches(items'[i], cache'[items'[i].res])
    BY <1>1, <1>5
  <2> QED BY <2>1, <2>2 DEF Listing
<1>13. Abreast(h)' /\ IsLog(h, cache', watch', store', contested')
  BY <1>1, <1>3, <1>4, <1>11, <1>12 DEF Abreast
<1> QED BY <1>7, <1>8, <1>9, <1>13 DEF SyncInv

-----------------------------------------------------------------------------
(* The EnvoyFilter.                                                        *)

(* A reconciliation ends.                                                  *)
LEMMA FinishItems ==
  ASSUME Finish
  PROVE  /\ ItemsInv' /\ pc' = "idle"
         /\ items' \in Seq(Item) /\ outdated' \subseteq Consumers
<1>1. pc' = "idle" /\ items' = <<>> /\ outdated' = {}
  BY DEF Finish
<1>2. <<>> \in Seq(Item) /\ DOMAIN <<>> = {}
  BY EmptySeq
<1> QED BY <1>1, <1>2 DEF ItemsInv, ItemsRight, ItemsDistinct, ItemsMatch

(* Of an item that takes effect, what the informer has is valid.           *)
LEMMA ItemInEffect ==
  ASSUME NEW its, NEW t, ItemsRight(its, t), NEW i \in DOMAIN its, its[i] \in Item,
         Key(its[i].res, its[i].spec) \notin t
  PROVE  TakesEffect(its[i]) <=> its[i].spec.valid
<1> DEFINE x == its[i]
<1>1. Right(x) /\ x \in Item
  BY DEF ItemsRight
<1> HIDE DEF x
<1>2. x.status \in Status
  BY <1>1, ItemFields
<1> DEFINE s == x.status
<1>3. s = [reason |-> s.reason, gen |-> s.gen] /\ s.gen = x.gen
      /\ (s.reason = "Accepted" <=> x.spec.valid)
  BY <1>1, <1>2, StatusFields DEF Right, Answered
<1> HIDE DEF s
<1>4. s = [reason |-> "Accepted", gen |-> x.gen] <=> s.reason = "Accepted"
  BY <1>3
<1> QED BY <1>3, <1>4 DEF TakesEffect, s, x

LEMMA GenerateStep ==
  ASSUME SyncInv, generateCustomResource, contested' = contested \union Doubles(store'),
         UNCHANGED <<managerVars, applied>>
  PROVE  SyncInv'
<1>1. /\ pc = "generate" /\ pc' = "status" /\ envoyFilter' = Generated(items)
      /\ UNCHANGED <<store, watch, cache, queued, items, outdated, writes, faults, restarted>>
  BY DEF generateCustomResource
<1>2. ControlTyped /\ WithinBudget /\ ItemsInv /\ DataInv
  BY DEF SyncInv
<1>3. PICK h : IsLog(h, cache, watch, store, contested) /\ Abreast(h)
  BY DEF SyncInv
<1>4. contested' = contested
  BY <1>1, <1>3, NothingContested
<1>5. items \in Seq(Item) /\ \A i \in DOMAIN items : items[i] \in Item
  BY <1>2, Types, ItemsTyped
<1>6. ControlTyped'
  <2>1. EntriesTyped(envoyFilter')
    BY <1>1, <1>5, GeneratedTyped
  <2>2. contested' \subseteq Claimable
    BY <1>2, <1>4 DEF ControlTyped
  <2>3. /\ store' \in [Consumers -> Versions] /\ cache' \in [Consumers -> Versions]
        /\ watch' \in Seq(Event) /\ queued' \in BOOLEAN /\ pc' \in {"idle", "generate", "status"}
        /\ items' \in Seq(Item) /\ outdated' \subseteq Consumers
        /\ writes' \in [Consumers -> 0 .. MaxWrites] /\ faults' \in 0 .. MaxFaults
        /\ restarted' \in BOOLEAN
    BY <1>1, <1>2, Types
  <2> QED BY ONLY <2>1, <2>2, <2>3, TypesAfter
<1>7. WithinBudget' /\ ItemsInv' /\ DataInv'
  <2>1. WithinBudget'
    BY <1>1, <1>2 DEF WithinBudget
  <2>2. ItemsInv'
    BY <1>1, <1>2, <1>4 DEF ItemsInv
  <2>3. FiniteNames(envoyFilter')
    BY <1>1, <1>5, GeneratedFinite
  <2>4. DataInv'
    BY <1>2, <2>3, DataFrame
  <2> QED BY <2>1, <2>2, <2>4
<1>8. \A i \in DOMAIN items : Key(items[i].res, items[i].spec) \notin contested =>
        (TakesEffect(items[i]) <=> items[i].spec.valid)
  BY <1>2, <1>5, ItemInEffect DEF ItemsInv
<1>9. ASSUME ~queued, NEW r \in Consumers, Steady(h, r), Uncontested(r), store[r].spec.valid
      PROVE  Serves(Generated(items), Key(r, store[r].spec), Entry(r))
  <2>1. PICK i \in DOMAIN items : items[i].res = r /\ Matches(items[i], store[r])
    BY <1>1, <1>3, <1>9 DEF Abreast, Listing, Considered
  <2>2. items[i].spec = store[r].spec /\ items[i].gen = store[r].gen
    BY <2>1 DEF Matches
  <2>3. TakesEffect(items[i])
    BY <1>8, <1>9, <2>1, <2>2 DEF Uncontested
  <2>4. OneTakesEffect(items)
    BY <1>1, <1>2 DEF ItemsInv
  <2>5. Serves(Generated(items), Key(items[i].res, items[i].spec),
               [v |-> items[i].gen, d |-> Marshal(items[i].spec)])
    BY <2>3, <2>4, GeneratedServes
  <2> QED BY <2>1, <2>2, <2>5 DEF Entry
<1>10. ASSUME ~queued, NEW e \in Entries(Generated(items)), <<e.ns, e.name>> \notin contested
       PROVE  \E r \in Consumers : IsEntryOf(e, r, cache[r])
  <2>1. /\ e.ns \in DOMAIN Generated(items) /\ e.name \in DOMAIN Generated(items)[e.ns]
        /\ e.entry = Generated(items)[e.ns][e.name]
    BY <1>10 DEF Entries
  <2> DEFINE ns == e.ns
             n == e.name
  <2> HIDE DEF ns, n
  <2>2. PICK i \in DOMAIN items :
          /\ TakesEffect(items[i]) /\ Key(items[i].res, items[i].spec) = <<ns, n>>
          /\ Generated(items)[ns][n] = [v |-> items[i].gen, d |-> Marshal(items[i].spec)]
    <3>1. ns \in DOMAIN Generated(items) /\ n \in DOMAIN Generated(items)[ns]
      BY <2>1 DEF ns, n
    <3> QED BY <3>1, GeneratedFrom
  <2>3. items[i].spec.valid
    BY <1>8, <1>10, <2>2 DEF ns, n
  <2> DEFINE r == items[i].res
  <2>4. r \in Consumers /\ Matches(items[i], cache[r])
    BY <1>1, <1>3, <1>5, <1>10, ItemFields DEF Abreast, Listing
  <2>5. IsEntryOf(e, r, cache[r])
    BY <2>1, <2>2, <2>3, <2>4 DEF IsEntryOf, Matches, ns, n
  <2> QED BY <2>4, <2>5
<1>11. Abreast(h)'
  <2> SUFFICES ASSUME ~queued PROVE StatusOnItsWay(h)' /\ Served(h)' /\ NothingElseServed'
    BY <1>1 DEF Abreast
  <2>1. StatusOnItsWay(h)'
    BY <1>1, <1>3, <1>4 DEF Abreast, StatusOnItsWay, Steady, Uncontested, Pending
  <2>2. Served(h)'
    BY <1>1, <1>4, <1>9 DEF Served, Steady, Uncontested, Entry
  <2>3. NothingElseServed'
    BY <1>1, <1>4, <1>10 DEF NothingElseServed
  <2> QED BY <2>1, <2>2, <2>3
<1>12. IsLog(h, cache', watch', store', contested')
  BY <1>1, <1>3, <1>4
<1> QED BY <1>6, <1>7, <1>11, <1>12 DEF SyncInv

(* A reconciliation ends with an error.                                    *)
LEMMA RequeueStep ==
  ASSUME SyncInv, Requeue, UNCHANGED <<cache, writes, restarted, managerVars, applied>>,
         store' \in [Consumers -> Versions], watch' \in Seq(Event), WithinBudget',
         faults' \in 0 .. MaxFaults, EntriesTyped(envoyFilter'), FiniteNames(envoyFilter'),
         contested' \subseteq Claimable,
         NEW g, IsLog(g, cache', watch', store', contested')
  PROVE  SyncInv'
<1>1. ControlTyped /\ DataInv
  BY DEF SyncInv
<1>2. Finish /\ queued' = TRUE
  BY DEF Requeue
<1>3. ItemsInv' /\ pc' = "idle" /\ items' \in Seq(Item) /\ outdated' \subseteq Consumers
  BY <1>2, FinishItems
<1>4. ControlTyped'
  <2>1. /\ cache' \in [Consumers -> Versions] /\ queued' \in BOOLEAN
        /\ pc' \in {"idle", "generate", "status"}
        /\ writes' \in [Consumers -> 0 .. MaxWrites] /\ restarted' \in BOOLEAN
    BY <1>1, <1>2, <1>3, Types
  <2> QED BY <1>3, <2>1, TypesAfter
<1>5. DataInv'
  BY <1>1, DataFrame
<1>6. Abreast(g)'
  BY <1>2 DEF Abreast
<1> QED BY <1>3, <1>4, <1>5, <1>6 DEF SyncInv

LEMMA GenerateFailsStep ==
  ASSUME SyncInv, GenerateFails, contested' = contested \union Doubles(store'),
         UNCHANGED <<managerVars, applied>>
  PROVE  SyncInv'
<1>1. /\ Fault /\ envoyFilter' \in {envoyFilter, Generated(items)} /\ Requeue
      /\ UNCHANGED <<store, watch, cache, writes, restarted>>
  BY DEF GenerateFails
<1>2. ControlTyped /\ WithinBudget /\ DataInv
  BY DEF SyncInv
<1>3. PICK h : IsLog(h, cache, watch, store, contested)
  BY DEF SyncInv
<1>4. contested' = contested /\ contested' \subseteq Claimable
  BY <1>1, <1>2, <1>3, NothingContested DEF ControlTyped
<1>5. EntriesTyped(envoyFilter') /\ FiniteNames(envoyFilter')
  <2>1. items \in Seq(Item) /\ EntriesTyped(envoyFilter) /\ FiniteNames(envoyFilter)
    BY <1>2, Types DEF DataInv
  <2> QED BY <1>1, <2>1, GeneratedTyped, GeneratedFinite
<1>6. /\ store' \in [Consumers -> Versions] /\ watch' \in Seq(Event)
      /\ faults' \in 0 .. MaxFaults /\ WithinBudget'
  BY <1>1, <1>2, Types, FaultTyped DEF WithinBudget
<1>7. IsLog(h, cache', watch', store', contested')
  BY <1>1, <1>3, <1>4
<1> QED BY <1>1, <1>4, <1>5, <1>6, <1>7, RequeueStep

-----------------------------------------------------------------------------
(* The statuses.                                                           *)

(* A status that is written is for the generation the resource has, and    *)
(* the right one.                                                          *)
LEMMA StatusWrite ==
  ASSUME SyncInv, NEW i \in DOMAIN items, Due(i), WriteStatus(items[i]),
         contested' = contested \union Doubles(store'),
         NEW h, IsLog(h, cache, watch, store, contested),
         NEW r, r = items[i].res
  PROVE  /\ r \in Consumers
         /\ store' \in [Consumers -> Versions] /\ watch' \in Seq(Event)
         /\ contested' \subseteq Claimable
         /\ \A q \in Consumers : q # r => store'[q] = store[q]
         /\ Same(store[r], store'[r]) /\ Answered(store'[r])
         /\ store'[r].status = items[i].status
         /\ store'[r] \in Object
         /\ \E g : /\ IsLog(g, cache, watch', store', contested')
                   /\ Continues(h, watch, store, g, watch', store')
<1> DEFINE s == store[r]
           t == items[i].status
           o == WithStatus(s, t)
<1>1. ControlTyped /\ ItemsInv /\ items[i].changed /\ items[i] \in Item
  BY ItemsTyped DEF SyncInv, Due
<1>2. r \in Consumers /\ r \notin outdated /\ t \in Status
  BY <1>1, ItemFields DEF WriteStatus
<1>3. Matches(items[i], s) /\ Answered(items[i])
  BY <1>1, <1>2 DEF ItemsInv, ItemsMatch, ItemsRight
<1>4. s \in Object
  BY <1>1, <1>2, <1>3, Types DEF Matches, Versions
<1>5. store' = After(store, r, o) /\ watch' = WithEvent(watch, r, o)
  BY DEF WriteStatus, Store, After, WithEvent, WithStatus
<1> HIDE DEF s, t
<1>6. o \in Object /\ o.gen = s.gen /\ o.spec = s.spec /\ o.status = t
  BY <1>2, <1>4, NewStatus
<1> HIDE DEF o
<1>7. o \in Versions /\ o # Absent
  BY <1>6, AbsentAssumption DEF Versions
<1>8. /\ store' \in [Consumers -> Versions] /\ store'[r] = o
      /\ \A q \in Consumers : q # r => store'[q] = store[q]
  BY <1>1, <1>2, <1>5, <1>7, Types DEF After
<1>9. Answered(o) /\ Same(s, o)
  BY <1>3, <1>6, <1>7 DEF Answered, Same, Matches, t
<1>10. watch' \in Seq(Event)
  <2>1. [res |-> r, object |-> o] \in Event /\ watch \in Seq(Event)
    BY <1>1, <1>2, <1>7, Types DEF Event
  <2> QED BY <1>5, <2>1 DEF WithEvent
<1>11. contested' \subseteq Claimable
  BY <1>1, <1>8, ContestedTyped
<1>12. \E g : /\ IsLog(g, cache, watch', store', contested')
              /\ Continues(h, watch, store, g, watch', store')
  <2>1. Follows(o, store[r])
    BY <1>9 DEF Follows, s
  <2>2. contested \subseteq contested' /\ Doubles(store') \subseteq contested'
    OBVIOUS
  <2>3. ASSUME Key(r, o.spec) \notin contested' PROVE Right(o)
    <3>1. Key(r, items[i].spec) \notin contested /\ items[i].spec = o.spec
      BY <1>3, <1>6, <2>3 DEF Matches
    <3>2. Right(items[i])
      BY <1>1, <3>1 DEF ItemsInv, ItemsRight
    <3> QED BY <1>6, <1>9, <3>1, <3>2 DEF Right, t
  <2>4. o # Absent /\ Answered(o) /\ Key(r, o.spec) \notin contested' => Right(o)
    BY <2>3
  <2>5. IsLog(h, cache, watch, store, contested)
    OBVIOUS
  <2> QED BY ONLY <1>2, <1>5, <1>7, <2>1, <2>2, <2>4, <2>5, LogAppend
<1> QED BY <1>2, <1>6, <1>8, <1>9, <1>10, <1>11, <1>12 DEF s, t

(* It takes none of the user's budget.                                     *)
LEMMA StatusBudget ==
  ASSUME WithinBudget, UNCHANGED writes, NEW r \in Consumers,
         \A q \in Consumers : q # r => store'[q] = store[q],
         Same(store[r], store'[r]), Answered(store'[r]), store'[r] \in Object
  PROVE  WithinBudget'
<1> SUFFICES ASSUME NEW q \in Consumers, store'[q] # Absent
             PROVE  /\ store'[q].gen + writes'[q] <= MaxWrites
                    /\ store'[q].status.gen <= store'[q].gen
  BY DEF WithinBudget
<1>1. CASE q = r
  <2>1. store'[r].gen \in 1 .. MaxWrites /\ store'[r].status.gen = store'[r].gen
    BY ObjectFields DEF Answered
  <2>2. store[r] # Absent /\ store'[r].gen = store[r].gen
    BY DEF Same, Matches
  <2>3. store[r].gen + writes[r] <= MaxWrites
    BY <2>2 DEF WithinBudget
  <2>4. store'[r].gen \in Nat
    BY <2>1, ConsumersAssumption
  <2> QED BY <1>1, <2>1, <2>2, <2>3, <2>4
<1>2. CASE q # r
  BY <1>2 DEF WithinBudget
<1> QED BY <1>1, <1>2

LEMMA UpdateStatusStep ==
  ASSUME SyncInv, UpdateStatus, contested' = contested \union Doubles(store'),
         UNCHANGED <<managerVars, applied>>
  PROVE  SyncInv'
<1>1. /\ pc = "status"
      /\ UNCHANGED <<cache, queued, pc, outdated, envoyFilter, writes, faults, restarted>>
  BY DEF UpdateStatus
<1>2. PICK i \in DOMAIN items :
        Due(i) /\ WriteStatus(items[i]) /\ items' = SubSeq(items, i + 1, Len(items))
  BY DEF UpdateStatus
<1>3. ControlTyped /\ WithinBudget /\ ItemsInv /\ DataInv
  BY DEF SyncInv
<1>4. PICK h : IsLog(h, cache, watch, store, contested) /\ Abreast(h)
  BY DEF SyncInv
<1>0. PICK r : r = items[i].res
  OBVIOUS
<1>5. /\ r \in Consumers
      /\ store' \in [Consumers -> Versions] /\ watch' \in Seq(Event)
      /\ contested' \subseteq Claimable
      /\ \A q \in Consumers : q # r => store'[q] = store[q]
      /\ Same(store[r], store'[r]) /\ Answered(store'[r])
      /\ store'[r] \in Object
      /\ \E g : /\ IsLog(g, cache, watch', store', contested')
                /\ Continues(h, watch, store, g, watch', store')
  <2>1. r = items[i].res /\ Due(i) /\ WriteStatus(items[i])
    BY <1>0, <1>2
  <2>2. IsLog(h, cache, watch, store, contested) /\ contested' = contested \union Doubles(store')
    BY <1>4
  <2> QED BY ONLY SyncInv, i \in DOMAIN items, <2>1, <2>2, StatusWrite
<1>6. PICK g : /\ IsLog(g, cache, watch', store', contested')
               /\ \A q \in Consumers : Steady(g, q)' => Steady(h, q) /\ Same(store[q], store'[q])
  BY <1>5 DEF Steady, Continues
<1>7. /\ Len(items) \in Nat /\ DOMAIN items = 1 .. Len(items)
      /\ \A j \in DOMAIN items : items[j] \in Item
  BY <1>3, ItemsTyped
<1>8. /\ items' \in Seq(Item) /\ DOMAIN items' = 1 .. Len(items) - i
      /\ \A k \in 1 .. Len(items) - i :
           items'[k] = items[k + i] /\ k + i \in DOMAIN items /\ k + i # i
  <2>1. items \in Seq(Item) /\ i \in 1 .. Len(items) /\ Len(items) \in Nat
    BY <1>3, <1>7, Types
  <2>2. \A k \in 1 .. Len(items) - i : k + i \in DOMAIN items /\ k + i # i
    BY <1>7, <2>1
  <2>3. /\ items' \in Seq(Item) /\ Len(items') = Len(items) - i
        /\ \A k \in 1 .. Len(items) - i : items'[k] = items[k + i]
    <3>1. i + 1 \in 1 .. Len(items) + 1 /\ Len(items) \in (i + 1) - 1 .. Len(items)
      BY <2>1
    <3>2. \A k \in i + 1 .. Len(items) : items[k] \in Item
      BY <1>7, <2>1
    <3>3. /\ SubSeq(items, i + 1, Len(items)) \in Seq(Item)
          /\ Len(SubSeq(items, i + 1, Len(items))) = Len(items) - i
          /\ \A k \in 1 .. Len(items) - i : SubSeq(items, i + 1, Len(items))[k] = items[k + i]
      BY <2>1, <3>1, <3>2
    <3> QED BY <1>2, <3>3
  <2>4. DOMAIN items' = 1 .. Len(items')
    BY <2>3
  <2> QED BY <2>2, <2>3, <2>4
<1>9. \A k \in DOMAIN items' : /\ items'[k] = items[k + i] /\ k + i \in DOMAIN items
                              /\ items'[k].res \in Consumers /\ items'[k].res # r
  <2>1. ItemsDistinct(items)
    BY <1>3 DEF ItemsInv
  <2> QED BY <1>0, <1>7, <1>8, <2>1, ItemFields DEF ItemsDistinct
<1>10. ControlTyped'
  <2>1. /\ cache' \in [Consumers -> Versions] /\ queued' \in BOOLEAN
        /\ pc' \in {"idle", "generate", "status"}
        /\ outdated' \subseteq Consumers /\ EntriesTyped(envoyFilter')
        /\ writes' \in [Consumers -> 0 .. MaxWrites] /\ faults' \in 0 .. MaxFaults
        /\ restarted' \in BOOLEAN
    BY <1>1, <1>3, Types
  <2> QED BY ONLY <1>5, <1>8, <2>1, TypesAfter
<1>11. WithinBudget'
  BY <1>1, <1>3, <1>5, StatusBudget
<1>12. ItemsInv'
  <2>1. ItemsRight(items', contested')
    BY <1>3, <1>9 DEF ItemsInv, ItemsRight
  <2>2. ItemsDistinct(items')
    <3> SUFFICES ASSUME NEW k \in DOMAIN items', NEW l \in DOMAIN items',
                        items'[k].res = items'[l].res
                 PROVE  k = l
      BY DEF ItemsDistinct
    <3>1. k + i = l + i
      BY <1>3, <1>9 DEF ItemsInv, ItemsDistinct
    <3> QED BY <1>7, <1>8, <3>1
  <2>3. ItemsMatch(items', outdated', store')
    <3> SUFFICES ASSUME NEW k \in DOMAIN items', items'[k].res \notin outdated
                 PROVE  Matches(items'[k], store'[items'[k].res])
      BY <1>1 DEF ItemsMatch
    <3>1. Matches(items'[k], store[items'[k].res])
      BY <1>3, <1>9 DEF ItemsInv, ItemsMatch
    <3> QED BY <1>5, <1>9, <3>1
  <2> QED BY <1>1, <2>1, <2>2, <2>3 DEF ItemsInv
<1>13. DataInv'
  BY <1>1, <1>3, DataFrame DEF DataInv
<1>14. Abreast(g)'
  <2> SUFFICES ASSUME ~queued
               PROVE  /\ StatusOnItsWay(g)' /\ Served(g)'
                      /\ (Live(cache) # {} \/ ~restarted)' => NothingElseServed'
    BY <1>1 DEF Abreast
  <2>1. ASSUME NEW q \in Consumers, Steady(g, q)', Uncontested(q)'
        PROVE  /\ Steady(h, q) /\ Same(store[q], store'[q]) /\ Uncontested(q)
               /\ Key(q, store'[q].spec) = Key(q, store[q].spec) /\ Entry(q)' = Entry(q)
               /\ store'[q].spec = store[q].spec
    <3>1. Steady(h, q) /\ Same(store[q], store'[q])
      BY <1>6, <2>1
    <3>2. store'[q].spec = store[q].spec /\ store'[q].gen = store[q].gen
      BY <3>1 DEF Same, Matches
    <3> QED BY <2>1, <3>1, <3>2 DEF Uncontested, Entry
  <2>2. ASSUME NEW q \in Consumers, Steady(g, q)', Uncontested(q)'
        PROVE  Answered(store'[q]) \/ Pending(q)'
    <3>1. CASE q = r
      BY <1>5, <3>1
    <3>2. CASE q # r
      <4>1. store'[q] = store[q] /\ (Answered(store[q]) \/ Pending(q))
        BY <1>4, <1>5, <2>1, <2>2, <3>2 DEF Abreast, StatusOnItsWay
      <4>2. CASE Pending(q)
        <5>1. PICK j \in DOMAIN items :
                items[j].res = q /\ items[j].changed /\ Matches(items[j], store[q])
          BY <4>2 DEF Pending
        <5>2. j # i /\ ~(j \in 1 .. i - 1)
          BY <1>0, <1>2, <3>2, <5>1 DEF Due
        <5>3. j - i \in DOMAIN items' /\ (j - i) + i = j
          BY <1>7, <1>8, <5>2
        <5>4. items'[j - i] = items[j]
          BY <1>9, <5>3
        <5> QED BY <4>1, <5>1, <5>3, <5>4 DEF Pending
      <4> QED BY <4>1, <4>2
    <3> QED BY <3>1, <3>2
  <2>3. StatusOnItsWay(g)'
    BY <2>2 DEF StatusOnItsWay
  <2>4. Served(g)'
    BY <1>1, <1>4, <2>1 DEF Served, Abreast
  <2>5. ASSUME (Live(cache) # {} \/ ~restarted)' PROVE NothingElseServed'
    <3>1. NothingElseServed
      BY <1>1, <1>4, <2>5 DEF Abreast, Live
    <3> QED BY <1>1, <3>1 DEF NothingElseServed
  <2> QED BY <2>3, <2>4, <2>5
<1>15. IsLog(g, cache', watch', store', contested')
  BY <1>1, <1>6
<1> QED BY <1>10, <1>11, <1>12, <1>13, <1>14, <1>15 DEF SyncInv

LEMMA ConflictStep ==
  ASSUME SyncInv, Conflict, contested' = contested \union Doubles(store'),
         UNCHANGED <<managerVars, applied>>
  PROVE  SyncInv'
<1>1. Requeue /\ UNCHANGED <<store, watch, cache, envoyFilter, writes, faults, restarted>>
  BY DEF Conflict
<1>2. ControlTyped /\ WithinBudget /\ DataInv
  BY DEF SyncInv
<1>3. PICK h : IsLog(h, cache, watch, store, contested)
  BY DEF SyncInv
<1>4. contested' = contested /\ contested' \subseteq Claimable
  BY <1>1, <1>2, <1>3, NothingContested DEF ControlTyped
<1>5. /\ store' \in [Consumers -> Versions] /\ watch' \in Seq(Event)
      /\ faults' \in 0 .. MaxFaults /\ WithinBudget'
      /\ EntriesTyped(envoyFilter') /\ FiniteNames(envoyFilter')
  BY <1>1, <1>2, Types DEF WithinBudget, DataInv
<1>6. IsLog(h, cache', watch', store', contested')
  BY <1>1, <1>3, <1>4
<1> QED BY <1>1, <1>4, <1>5, <1>6, RequeueStep

LEMMA UpdateStatusFailsStep ==
  ASSUME SyncInv, UpdateStatusFails, contested' = contested \union Doubles(store'),
         UNCHANGED <<managerVars, applied>>
  PROVE  SyncInv'
<1>1. Fault /\ Requeue /\ UNCHANGED <<cache, envoyFilter, writes, restarted>>
  BY DEF UpdateStatusFails
<1>2. ControlTyped /\ WithinBudget /\ DataInv
  BY DEF SyncInv
<1>3. PICK h : IsLog(h, cache, watch, store, contested)
  BY DEF SyncInv
<1>4. /\ faults' \in 0 .. MaxFaults
      /\ EntriesTyped(envoyFilter') /\ FiniteNames(envoyFilter')
  BY <1>1, <1>2, Types, FaultTyped DEF DataInv
<1>5. PICK i \in DOMAIN items : Due(i) /\ (WriteStatus(items[i]) \/ UNCHANGED <<store, watch>>)
  BY DEF UpdateStatusFails
<1>6. CASE WriteStatus(items[i])
  <2>0. PICK r : r = items[i].res
    OBVIOUS
  <2>1. r = items[i].res /\ Due(i) /\ WriteStatus(items[i])
    BY <1>5, <1>6, <2>0
  <2>2. IsLog(h, cache, watch, store, contested) /\ contested' = contested \union Doubles(store')
    BY <1>3
  <2>3. /\ r \in Consumers
        /\ store' \in [Consumers -> Versions] /\ watch' \in Seq(Event)
        /\ contested' \subseteq Claimable
        /\ \A q \in Consumers : q # r => store'[q] = store[q]
        /\ Same(store[r], store'[r]) /\ Answered(store'[r])
        /\ store'[r] \in Object
        /\ \E g : /\ IsLog(g, cache, watch', store', contested')
                  /\ Continues(h, watch, store, g, watch', store')
    BY ONLY SyncInv, i \in DOMAIN items, <2>1, <2>2, StatusWrite
  <2>4. PICK g : IsLog(g, cache', watch', store', contested')
    BY <1>1, <2>3
  <2>5. WithinBudget'
    BY <1>1, <1>2, <2>3, StatusBudget
  <2> QED BY <1>1, <1>4, <2>3, <2>4, <2>5, RequeueStep
<1>7. CASE UNCHANGED <<store, watch>>
  <2>1. contested' = contested /\ contested' \subseteq Claimable
    BY <1>2, <1>3, <1>7, NothingContested DEF ControlTyped
  <2>2. store' \in [Consumers -> Versions] /\ watch' \in Seq(Event) /\ WithinBudget'
    BY <1>1, <1>2, <1>7, Types DEF WithinBudget
  <2>3. IsLog(h, cache', watch', store', contested')
    BY <1>1, <1>3, <1>7, <2>1
  <2> QED BY <1>1, <1>4, <2>1, <2>2, <2>3, RequeueStep
<1> QED BY <1>5, <1>6, <1>7

LEMMA ReconciledStep ==
  ASSUME SyncInv, Reconciled, contested' = contested \union Doubles(store'),
         UNCHANGED <<managerVars, applied>>
  PROVE  SyncInv'
<1>1. /\ pc = "status" /\ (\A i \in DOMAIN items : ~items[i].changed) /\ Finish
      /\ UNCHANGED <<store, watch, cache, queued, envoyFilter, writes, faults, restarted>>
  BY DEF Reconciled
<1>2. ControlTyped /\ WithinBudget /\ DataInv
  BY DEF SyncInv
<1>3. PICK h : IsLog(h, cache, watch, store, contested) /\ Abreast(h)
  BY DEF SyncInv
<1>4. contested' = contested
  BY <1>1, <1>3, NothingContested
<1>5. ItemsInv' /\ pc' = "idle" /\ items' \in Seq(Item) /\ outdated' \subseteq Consumers
  BY <1>1, FinishItems
<1>6. ControlTyped'
  <2>1. /\ store' \in [Consumers -> Versions] /\ cache' \in [Consumers -> Versions]
        /\ watch' \in Seq(Event) /\ queued' \in BOOLEAN /\ pc' \in {"idle", "generate", "status"}
        /\ EntriesTyped(envoyFilter') /\ faults' \in 0 .. MaxFaults
        /\ writes' \in [Consumers -> 0 .. MaxWrites] /\ restarted' \in BOOLEAN
    BY <1>1, <1>2, <1>5, Types
  <2>2. contested' \subseteq Claimable
    BY <1>2, <1>4 DEF ControlTyped
  <2> QED BY ONLY <1>5, <2>1, <2>2, TypesAfter
<1>7. WithinBudget' /\ DataInv'
  <2>1. WithinBudget'
    BY <1>1, <1>2 DEF WithinBudget
  <2>2. DataInv'
    BY <1>1, <1>2, DataFrame DEF DataInv
  <2> QED BY <2>1, <2>2
<1>8. Abreast(h)'
  <2> SUFFICES ASSUME ~queued
               PROVE  /\ StatusOnItsWay(h)' /\ Served(h)'
                      /\ (Live(cache) # {} \/ ~restarted)' => NothingElseServed'
    BY <1>1, <1>5 DEF Abreast
  <2>1. StatusOnItsWay(h)'
    <3>1. \A r \in Consumers : ~Pending(r)
      BY <1>1 DEF Pending
    <3> QED BY <1>1, <1>3, <1>4, <3>1 DEF Abreast, StatusOnItsWay, Steady, Uncontested
  <2>2. Served(h)'
    BY <1>1, <1>3, <1>4 DEF Abreast, Served, Steady, Uncontested, Entry
  <2>3. ASSUME (Live(cache) # {} \/ ~restarted)' PROVE NothingElseServed'
    <3>1. NothingElseServed
      BY <1>1, <1>3, <2>3 DEF Abreast, Live
    <3> QED BY <1>1, <1>4, <3>1 DEF NothingElseServed
  <2> QED BY <2>1, <2>2, <2>3
<1>9. IsLog(h, cache', watch', store', contested')
  BY <1>1, <1>3, <1>4
<1> QED BY <1>5, <1>6, <1>7, <1>8, <1>9 DEF SyncInv

-----------------------------------------------------------------------------
(* A new process.                                                          *)
LEMMA RestartStep ==
  ASSUME SyncInv, ControllerRestart, contested' = contested \union Doubles(store'),
         UNCHANGED <<managerVars, applied>>
  PROVE  SyncInv'
<1>1. /\ Fault /\ restarted' = TRUE /\ cache' = store /\ watch' = <<>>
      /\ queued' = (Live(store) # {}) /\ Finish
      /\ UNCHANGED <<store, envoyFilter, writes>>
  BY DEF ControllerRestart
<1>2. ControlTyped /\ WithinBudget /\ DataInv
  BY DEF SyncInv
<1>3. PICK h : IsLog(h, cache, watch, store, contested)
  BY DEF SyncInv
<1>4. contested' = contested
  BY <1>1, <1>3, NothingContested
<1>5. ItemsInv' /\ pc' = "idle" /\ items' \in Seq(Item) /\ outdated' \subseteq Consumers
  BY <1>1, FinishItems
<1>6. ControlTyped'
  <2>1. /\ store' \in [Consumers -> Versions] /\ cache' \in [Consumers -> Versions]
        /\ queued' \in BOOLEAN /\ pc' \in {"idle", "generate", "status"}
        /\ EntriesTyped(envoyFilter')
        /\ writes' \in [Consumers -> 0 .. MaxWrites] /\ restarted' \in BOOLEAN
    BY <1>1, <1>2, <1>5, Types
  <2>2. contested' \subseteq Claimable
    BY <1>2, <1>4 DEF ControlTyped
  <2>3. faults' \in 0 .. MaxFaults
    BY <1>1, <1>2, FaultTyped
  <2>4. watch' \in Seq(Event)
    BY <1>1, EmptySeq
  <2> QED BY ONLY <1>5, <2>1, <2>2, <2>3, <2>4, TypesAfter
<1>7. WithinBudget' /\ DataInv'
  <2>1. WithinBudget'
    BY <1>1, <1>2 DEF WithinBudget
  <2>2. DataInv'
    BY <1>1, <1>2, DataFrame DEF DataInv
  <2> QED BY <2>1, <2>2
<1>8. PICK g : g = [k \in 0 .. 0 |-> store] /\ IsLog(g, store, <<>>, store, contested)
  <2>1. store \in [Consumers -> Versions] /\ Doubles(store) \subseteq contested
    BY <1>3, LogEnds
  <2>2. \A r \in Consumers : /\ store[r] # Absent /\ Answered(store[r])
                             /\ Key(r, store[r].spec) \notin contested
                             => Right(store[r])
    BY <1>3, LogRight
  <2> QED BY <2>1, <2>2, LogStart
<1>9. IsLog(g, cache', watch', store', contested')
  BY <1>1, <1>4, <1>8
<1>10. Abreast(g)'
  <2> SUFFICES ASSUME Live(store) = {}
               PROVE  StatusOnItsWay(g)' /\ Served(g)'
    BY <1>1, <1>5 DEF Abreast, Live
  <2>1. \A r \in Consumers : ~Steady(g, r)'
    <3> SUFFICES ASSUME NEW r \in Consumers, Steady(g, r)' PROVE FALSE
      OBVIOUS
    <3>1. Len(watch') \in 0 .. Len(watch') /\ 0 \in 0 .. Len(watch')
      BY <1>1, EmptySeq
    <3>2. Same(g[Len(watch')][r], store'[r])
      BY <3>1 DEF Steady, SteadyFrom
    <3>3. store[r] # Absent
      BY <1>1, <3>2 DEF Same, Matches
    <3> QED BY <3>3 DEF Live
  <2> QED BY <2>1 DEF StatusOnItsWay, Served
<1> QED BY <1>5, <1>6, <1>7, <1>9, <1>10 DEF SyncInv

LEMMA ControlPlaneStep == SyncInv /\ ControlPlane => SyncInv'
<1> SUFFICES ASSUME SyncInv, ControlPlane PROVE SyncInv'
  OBVIOUS
<1>1. /\ ReconcilerNext /\ contested' = contested \union Doubles(store')
      /\ UNCHANGED <<managerVars, applied>>
  BY DEF ControlPlane, Doubles
<1>2. CASE User
  BY <1>1, <1>2, UserStep
<1>3. CASE Observe
  BY <1>1, <1>3, ObserveStep
<1>4. CASE List
  BY <1>1, <1>4, ListStep
<1>5. CASE generateCustomResource
  BY <1>1, <1>5, GenerateStep
<1>6. CASE UpdateStatus
  BY <1>1, <1>6, UpdateStatusStep
<1>7. CASE Conflict
  BY <1>1, <1>7, ConflictStep
<1>8. CASE Reconciled
  BY <1>1, <1>8, ReconciledStep
<1>9. CASE GenerateFails
  BY <1>1, <1>9, GenerateFailsStep
<1>10. CASE UpdateStatusFails
  BY <1>1, <1>10, UpdateStatusFailsStep
<1>11. CASE ControllerRestart
  BY <1>1, <1>11, RestartStep
<1> QED BY <1>1, <1>2, <1>3, <1>4, <1>5, <1>6, <1>7, <1>8, <1>9, <1>10, <1>11
     DEF ReconcilerNext, Reconcile

-----------------------------------------------------------------------------
(* The data plane.                                                         *)

(* A nonempty set of numbers has a least one.                              *)
LEMMA LeastNumber ==
  ASSUME NEW T \in SUBSET Nat, T # {}
  PROVE  \E x \in T : \A y \in T : x <= y
<1>1. PICK x \in T : \A y \in T : <<y, x>> \notin OpToRel(<, Nat)
  BY NatLessThanWellFounded, WFMin
<1>2. ASSUME NEW y \in T PROVE x <= y
  <2>1. x \in Nat /\ y \in Nat
    OBVIOUS
  <2>2. ~(y < x)
    BY <1>1, <2>1 DEF OpToRel
  <2> QED BY <2>1, <2>2
<1> QED BY <1>2

(* The index by credential finds a consumer that has it, in whatever order *)
(* the consumers are visited.                                              *)
LEMMA ScopeFinds ==
  ASSUME NEW index, NEW rank \in [DOMAIN index -> Nat], NEW s, s = Scope(index, rank)
  PROVE  /\ \A c \in DOMAIN s : s[c] \in DOMAIN index /\ c \in index[s[c]].d.creds
         /\ \A n \in DOMAIN index : index[n].d.creds \subseteq DOMAIN s
<1>1. /\ DOMAIN s = UNION {index[n].d.creds : n \in DOMAIN index}
      /\ \A c \in DOMAIN s : s[c] = CHOOSE n \in DOMAIN index :
            /\ c \in index[n].d.creds
            /\ \A m \in DOMAIN index : c \in index[m].d.creds => rank[n] <= rank[m]
  BY DEF Scope
<1>2. ASSUME NEW c \in DOMAIN s
      PROVE  s[c] \in DOMAIN index /\ c \in index[s[c]].d.creds
  <2> DEFINE H == {n \in DOMAIN index : c \in index[n].d.creds}
             T == {rank[n] : n \in H}
  <2>1. H # {} /\ H \subseteq DOMAIN index
    BY <1>1, <1>2
  <2>2. T \in SUBSET Nat /\ T # {}
    BY <2>1
  <2>3. PICK x \in T : \A y \in T : x <= y
    <3> HIDE DEF T
    <3> QED BY <2>2, LeastNumber
  <2>4. PICK n \in H : x = rank[n]
    OBVIOUS
  <2>5. \A m \in H : rank[n] <= rank[m]
    BY <2>3, <2>4
  <2>6. \E p \in DOMAIN index :
          /\ c \in index[p].d.creds
          /\ \A m \in DOMAIN index : c \in index[m].d.creds => rank[p] <= rank[m]
    BY <2>4, <2>5
  <2> QED BY <1>1, <2>6
<1>3. \A n \in DOMAIN index : index[n].d.creds \subseteq DOMAIN s
  BY <1>1
<1> QED BY <1>2, <1>3

(* The new index of a namespace has what was pushed, but for what cannot   *)
(* be loaded; of the same generation it keeps what it had.                 *)
LEMMA NewIndexHas ==
  ASSUME NEW ns, NEW value, NEW index, index = NewIndex(ns, value)
  PROVE  /\ DOMAIN index \subseteq DOMAIN value
         /\ \A n \in DOMAIN index : index[n].v = value[n].v
         /\ \A n \in DOMAIN value : value[n].d.loads => n \in DOMAIN index
BY DEF NewIndex, Kept

LEMMA PushData ==
  ASSUME DataInv, Push
  PROVE  DataInv'
<1>1. /\ applied' = envoyFilter /\ envoyFilter' = envoyFilter
      /\ resourceIndex' = Synced(envoyFilter) /\ scopeIndex' \in Scopes(resourceIndex')
  BY DEF Push, UpdateConsumers, reconcilerVars
<1>2. PICK rank :
        /\ DOMAIN rank = DOMAIN resourceIndex'
        /\ \A ns \in DOMAIN resourceIndex' : rank[ns] \in Ranks(resourceIndex'[ns])
        /\ scopeIndex' = [ns \in DOMAIN resourceIndex' |-> Scope(resourceIndex'[ns], rank[ns])]
  BY <1>1 DEF Scopes
<1>3. /\ DOMAIN resourceIndex' = DOMAIN envoyFilter \union DOMAIN resourceIndex
      /\ \A ns \in DOMAIN envoyFilter : resourceIndex'[ns] = NewIndex(ns, envoyFilter[ns])
      /\ \A ns \in DOMAIN resourceIndex \ DOMAIN envoyFilter :
           resourceIndex'[ns] = resourceIndex[ns]
  BY <1>1 DEF Synced
<1>4. \A ns \in DOMAIN envoyFilter :
        /\ DOMAIN resourceIndex'[ns] \subseteq DOMAIN envoyFilter[ns]
        /\ \A n \in DOMAIN resourceIndex'[ns] : resourceIndex'[ns][n].v = envoyFilter[ns][n].v
        /\ \A n \in DOMAIN envoyFilter[ns] :
             envoyFilter[ns][n].d.loads => n \in DOMAIN resourceIndex'[ns]
  BY <1>3, NewIndexHas
<1>5. FiniteNames(envoyFilter') /\ FiniteNames(resourceIndex')
  <2>1. FiniteNames(envoyFilter) /\ FiniteNames(resourceIndex)
    BY DEF DataInv
  <2>2. ASSUME NEW ns \in DOMAIN resourceIndex' PROVE IsFiniteSet(DOMAIN resourceIndex'[ns])
    <3>1. CASE ns \in DOMAIN envoyFilter
      <4>1. IsFiniteSet(DOMAIN envoyFilter[ns])
        BY <2>1, <3>1 DEF FiniteNames
      <4> QED BY <1>4, <3>1, <4>1, FS_Subset
    <3>2. CASE ns \notin DOMAIN envoyFilter
      BY <1>3, <2>1, <2>2, <3>2 DEF FiniteNames
    <3> QED BY <3>1, <3>2
  <2> QED BY <1>1, <2>1, <2>2 DEF FiniteNames
<1>6. DOMAIN scopeIndex' = DOMAIN resourceIndex'
  BY <1>2
<1>7. Loaded'
  BY <1>1, <1>3, <1>4 DEF Loaded
<1>8. ScopeRight'
  <2> SUFFICES ASSUME NEW ns \in DOMAIN resourceIndex'
               PROVE  /\ \A c \in DOMAIN scopeIndex'[ns] :
                           /\ scopeIndex'[ns][c] \in DOMAIN resourceIndex'[ns]
                           /\ c \in resourceIndex'[ns][scopeIndex'[ns][c]].d.creds
                      /\ \A n \in DOMAIN resourceIndex'[ns] :
                           resourceIndex'[ns][n].d.creds \subseteq DOMAIN scopeIndex'[ns]
    BY DEF ScopeRight
  <2>0. PICK index, s, f : index = resourceIndex'[ns] /\ s = scopeIndex'[ns] /\ f = rank[ns]
    OBVIOUS
  <2>1. s = Scope(index, f) /\ f \in Ranks(index)
    BY <1>2, <2>0
  <2>2. IsFiniteSet(DOMAIN index)
    BY <1>5, <2>0 DEF FiniteNames
  <2>3. f \in [DOMAIN index -> Nat]
    <3>1. f \in [DOMAIN index -> 1 .. Cardinality(DOMAIN index)]
      BY <2>1 DEF Ranks, Bijection, Injection, Surjection
    <3>2. Cardinality(DOMAIN index) \in Nat
      BY <2>2, FS_CardinalityType
    <3> QED BY <3>1, <3>2
  <2>4. /\ \A c \in DOMAIN s : s[c] \in DOMAIN index /\ c \in index[s[c]].d.creds
        /\ \A n \in DOMAIN index : index[n].d.creds \subseteq DOMAIN s
    BY <2>1, <2>3, ScopeFinds
  <2> QED BY <2>0, <2>4
<1> QED BY <1>5, <1>6, <1>7, <1>8 DEF DataInv

(* The controller is where it was.                                         *)
LEMMA ControlFrame ==
  ASSUME SyncInv, DataInv', faults' \in 0 .. MaxFaults,
         UNCHANGED <<store, watch, cache, queued, pc, items, outdated, envoyFilter, writes,
                     restarted, contested>>
  PROVE  SyncInv'
<1>1. ControlTyped /\ WithinBudget /\ ItemsInv
  BY DEF SyncInv
<1>2. PICK h : IsLog(h, cache, watch, store, contested) /\ Abreast(h)
  BY DEF SyncInv
<1>3. ControlTyped' /\ WithinBudget' /\ ItemsInv'
  BY <1>1 DEF ControlTyped, ReconcilerTypeOK, WithinBudget, ItemsInv
<1>4. IsLog(h, cache', watch', store', contested')
  BY <1>2
<1>5. Abreast(h)'
  BY <1>2 DEF Abreast, StatusOnItsWay, Served, NothingElseServed, Listing, Steady, Uncontested,
              Pending, Considered, Entry, Live
<1> QED BY <1>3, <1>4, <1>5 DEF SyncInv

LEMMA PushStep == SyncInv /\ Push => SyncInv'
<1> SUFFICES ASSUME SyncInv, Push PROVE SyncInv'
  OBVIOUS
<1>1. DataInv'
  BY PushData DEF SyncInv
<1>2. UNCHANGED <<store, watch, cache, queued, pc, items, outdated, envoyFilter, writes,
                  restarted, contested, faults>>
  BY DEF Push, reconcilerVars
<1>3. faults' \in 0 .. MaxFaults
  BY <1>2, Types DEF SyncInv
<1> QED BY <1>1, <1>2, <1>3, ControlFrame

LEMMA EnvoyRestartStep == SyncInv /\ EnvoyRestart => SyncInv'
<1> SUFFICES ASSUME SyncInv, EnvoyRestart PROVE SyncInv'
  OBVIOUS
<1>1. /\ UNCHANGED <<store, watch, cache, queued, pc, items, outdated, envoyFilter, writes,
                     restarted, contested>>
      /\ applied' = NoConsumers /\ resourceIndex' = Nothing /\ scopeIndex' = Nothing
  BY DEF EnvoyRestart, Restart
<1>2. DataInv'
  <2>1. DOMAIN NoConsumers = {} /\ DOMAIN Nothing = {}
    BY DEF NoConsumers, Nothing
  <2>2. FiniteNames(envoyFilter)
    BY DEF SyncInv, DataInv
  <2> QED BY <1>1, <2>1, <2>2 DEF DataInv, FiniteNames, Loaded, ScopeRight
<1>3. faults' \in 0 .. MaxFaults
  BY FaultTyped DEF EnvoyRestart, SyncInv
<1> QED BY <1>1, <1>2, <1>3, ControlFrame

-----------------------------------------------------------------------------
(* The inductive invariant holds of every behaviour.                       *)
LEMMA NextStep == SyncInv /\ [Next]_vars => SyncInv'
<1> SUFFICES ASSUME SyncInv, [Next]_vars PROVE SyncInv'
  OBVIOUS
<1>1. CASE ControlPlane
  BY <1>1, ControlPlaneStep
<1>2. CASE Push
  BY <1>2, PushStep
<1>3. CASE EnvoyRestart
  BY <1>3, EnvoyRestartStep
<1>4. CASE UNCHANGED vars
  <2>1. /\ UNCHANGED <<store, watch, cache, queued, pc, items, outdated, envoyFilter, writes,
                       restarted, contested>>
        /\ faults' = faults /\ UNCHANGED <<managerVars, applied>>
    BY <1>4 DEF vars, reconcilerVars, syncVars
  <2>2. DataInv'
    BY <2>1, DataFrame DEF SyncInv, DataInv
  <2>3. faults' \in 0 .. MaxFaults
    BY <2>1, Types DEF SyncInv
  <2> QED BY <2>1, <2>2, <2>3, ControlFrame
<1> QED BY <1>1, <1>2, <1>3, <1>4 DEF Next

(* At every moment of every behaviour, the informer's events lead from     *)
(* what it has to what the API server has, the reconciliation's items are  *)
(* right about what was not written since, and while no request is queued  *)
(* whatever no event is left for is answered and served, or about to be.   *)
THEOREM SyncInvariance == Spec => []SyncInv
<1> QED BY InitInv, NextStep, PTL DEF Spec

(* The variables of the controller and of the data plane are typed.        *)
THEOREM TypeCorrectness == Spec => []TypeOK
<1>1. SyncInv => TypeOK
  BY DEF SyncInv, ControlTyped, Claimable, DataInv, ScopeRight, TypeOK
<1> QED BY <1>1, SyncInvariance, PTL

-----------------------------------------------------------------------------
(* What follows from it.                                                   *)

(* Once the controller is quiet, the list it made last is the store.       *)
LEMMA AtRest ==
  ASSUME SyncInv, Quiet
  PROVE  /\ cache = store
         /\ \A r \in Live(store) : Uncontested(r) =>
              /\ Answered(store[r])
              /\ Accepted(r) <=> store[r].spec.valid
              /\ Accepted(r) => Serves(envoyFilter, Key(r, store[r].spec), Entry(r))
         /\ Live(store) # {} \/ ~restarted => NothingElseServed
<1>1. pc = "idle" /\ ~queued /\ watch = <<>> /\ items = <<>>
  BY DEF Quiet, SyncInv, ItemsInv
<1>2. PICK h : IsLog(h, cache, watch, store, contested) /\ Abreast(h)
  BY DEF SyncInv
<1>3. Len(watch) = 0 /\ DOMAIN items = {}
  BY <1>1, EmptySeq
<1>4. h[0] = cache /\ h[0] = store
  BY <1>2, <1>3, LogEnds
<1>5. ASSUME NEW r \in Live(store), Uncontested(r)
      PROVE  /\ Answered(store[r])
             /\ Accepted(r) <=> store[r].spec.valid
             /\ Accepted(r) => Serves(envoyFilter, Key(r, store[r].spec), Entry(r))
  <2>1. r \in Consumers /\ store[r] # Absent
    BY DEF Live
  <2>2. Steady(h, r)
    BY <1>3, <1>4, <2>1 DEF Steady, SteadyFrom, Same, Matches
  <2>3. Answered(store[r])
    BY <1>1, <1>2, <1>3, <1>5, <2>1, <2>2 DEF Abreast, StatusOnItsWay, Pending
  <2>4. Right(store[r])
    BY <1>2, <1>5, <2>1, <2>3, LogRight DEF Uncontested
  <2>5. Accepted(r) <=> store[r].spec.valid
    <3>1. store[r] \in Object
      BY <2>1, Types DEF SyncInv, Versions
    <3> DEFINE s == store[r].status
    <3>2. s \in Status
      BY <3>1, ObjectFields
    <3>3. s.gen = store[r].gen /\ (s.reason = "Accepted" <=> store[r].spec.valid)
      BY <2>4 DEF Right, Answered
    <3> HIDE DEF s
    <3>4. s = [reason |-> s.reason, gen |-> s.gen]
      BY <3>2, StatusFields
    <3>5. s = [reason |-> "Accepted", gen |-> store[r].gen] <=> s.reason = "Accepted"
      BY <3>3, <3>4
    <3> QED BY <3>3, <3>5 DEF Accepted, s
  <2>6. store[r].spec.valid => Serves(envoyFilter, Key(r, store[r].spec), Entry(r))
    BY <1>1, <1>2, <1>5, <2>1, <2>2 DEF Abreast, Served
  <2> QED BY <2>3, <2>5, <2>6
<1>6. Live(store) # {} \/ ~restarted => NothingElseServed
  BY <1>1, <1>2, <1>4 DEF Abreast
<1> QED BY <1>4, <1>5, <1>6

(* Once the controller is quiet, an uncontested resource has the right     *)
(* answer for its generation, and is served if it is Accepted.             *)
THEOREM AcceptedServed == Spec => []AcceptedIsServed
<1>1. SyncInv => AcceptedIsServed
  BY AtRest DEF AcceptedIsServed, Answered
<1> QED BY <1>1, SyncInvariance, PTL

LEMMA RestServed == SyncInv => ServedIsAccepted
<1> SUFFICES ASSUME SyncInv, Quiet, Live(store) # {} \/ ~restarted,
                    NEW e \in Entries(envoyFilter), <<e.ns, e.name>> \notin contested
             PROVE  \E r \in Live(store) : /\ Key(r, store[r].spec) = <<e.ns, e.name>>
                                           /\ Accepted(r) /\ Entry(r) = e.entry
  BY DEF ServedIsAccepted
<1>1. cache = store /\ NothingElseServed
  BY AtRest
<1>2. PICK r \in Consumers : IsEntryOf(e, r, store[r])
  BY <1>1 DEF NothingElseServed
<1>3. /\ r \in Live(store) /\ store[r].spec.valid /\ Key(r, store[r].spec) = <<e.ns, e.name>>
      /\ Entry(r) = e.entry
  BY <1>2 DEF IsEntryOf, Live, Entry
<1>4. Accepted(r)
  BY <1>3, AtRest DEF Uncontested
<1> QED BY <1>3, <1>4

(* The EnvoyFilter serves nothing else.                                    *)
THEOREM ServedAccepted == Spec => []ServedIsAccepted
<1> QED BY RestServed, SyncInvariance, PTL

(* A credential finds the consumer that the EnvoyFilter has under its      *)
(* name, unless the data plane keeps one of an equal generation.           *)
LEMMA IndexFollows ==
  ASSUME DataInv, applied = envoyFilter, NEW ns \in DOMAIN envoyFilter,
         NEW n \in DOMAIN resourceIndex[ns], ~Mistaken(ns, n)
  PROVE  /\ ns \in DOMAIN resourceIndex
         /\ n \in DOMAIN envoyFilter[ns] /\ resourceIndex[ns][n] = envoyFilter[ns][n]
<1>1. ns \in DOMAIN resourceIndex
  BY DEF DataInv, Loaded
<1>2. n \in DOMAIN envoyFilter[ns] /\ resourceIndex[ns][n].v = envoyFilter[ns][n].v
  BY DEF DataInv, Loaded
<1> DEFINE e == [ns |-> ns, name |-> n, entry |-> envoyFilter[ns][n]]
           f == [ns |-> ns, name |-> n, entry |-> resourceIndex[ns][n]]
<1>3. e \in Entries(envoyFilter) /\ f \in Entries(resourceIndex)
  BY <1>1, <1>2 DEF Entries
<1>4. e.entry = f.entry
  BY <1>2, <1>3 DEF Mistaken
<1> QED BY <1>1, <1>2, <1>4

LEMMA RestAuthenticates == SyncInv => AuthenticatesAccepted
<1> SUFFICES ASSUME SyncInv, Settled, Live(store) # {} \/ ~restarted,
                    NEW e \in Entries(resourceIndex), e.ns \in DOMAIN envoyFilter,
                    <<e.ns, e.name>> \notin contested, ~Mistaken(e.ns, e.name),
                    NEW c \in UNION {s.creds : s \in Specs}, e.name \in LookupConsumer(e.ns, c)
             PROVE  \E r \in Live(store) : /\ Key(r, store[r].spec) = <<e.ns, e.name>>
                                           /\ Accepted(r) /\ c \in store[r].spec.creds
  BY DEF AuthenticatesAccepted
<1>1. DataInv /\ Quiet /\ applied = envoyFilter /\ ServedIsAccepted
  BY RestServed DEF SyncInv, Settled
<1>2. PICK ns, n : ns = e.ns /\ n = e.name
  OBVIOUS
<1>3. ns \in DOMAIN scopeIndex /\ c \in DOMAIN scopeIndex[ns] /\ scopeIndex[ns][c] = n
  BY <1>2 DEF LookupConsumer
<1>4. n \in DOMAIN resourceIndex[ns] /\ c \in resourceIndex[ns][n].d.creds
  BY <1>1, <1>3 DEF DataInv, ScopeRight
<1>5. n \in DOMAIN envoyFilter[ns] /\ resourceIndex[ns][n] = envoyFilter[ns][n]
  BY <1>1, <1>2, <1>4, IndexFollows
<1> DEFINE f == [ns |-> ns, name |-> n, entry |-> envoyFilter[ns][n]]
<1>6. /\ f \in Entries(envoyFilter) /\ f.ns = ns /\ f.name = n
      /\ f.entry = envoyFilter[ns][n]
  BY <1>2, <1>5 DEF Entries
<1> HIDE DEF f
<1>7. PICK r \in Live(store) : /\ Key(r, store[r].spec) = <<f.ns, f.name>>
                               /\ Accepted(r) /\ Entry(r) = f.entry
  BY <1>1, <1>2, <1>6 DEF ServedIsAccepted
<1>8. c \in store[r].spec.creds
  BY <1>4, <1>5, <1>6, <1>7 DEF Entry, Marshal
<1> QED BY <1>2, <1>6, <1>7, <1>8

(* Of a settled system, a credential finds only a consumer that is         *)
(* Accepted and has it.                                                    *)
THEOREM OnlyAccepted == Spec => []AuthenticatesAccepted
<1> QED BY RestAuthenticates, SyncInvariance, PTL

LEMMA RestAccepted == SyncInv => AcceptedAuthenticates
<1> SUFFICES ASSUME SyncInv, Settled, NEW r \in Live(store),
                    Accepted(r), store[r].spec.loads, Uncontested(r),
                    NEW ns, NEW n, Key(r, store[r].spec) = <<ns, n>>, ~Mistaken(ns, n),
                    NEW c \in store[r].spec.creds
             PROVE  \/ LookupConsumer(ns, c) = {n}
                    \/ \E m \in DOMAIN resourceIndex[ns] :
                         m # n /\ c \in resourceIndex[ns][m].d.creds
  <2>1. \A s \in Live(store) :
          Key(s, store[s].spec) = <<s.ns, ConsumerName(s, store[s].spec)>>
    BY DEF Key
  <2> QED BY <2>1 DEF AcceptedAuthenticates, Uncontested
<1>1. DataInv /\ Quiet /\ applied = envoyFilter
  BY DEF SyncInv, Settled
<1>2. Serves(envoyFilter, <<ns, n>>, Entry(r))
  BY <1>1, AtRest
<1>3. ns \in DOMAIN envoyFilter /\ n \in DOMAIN envoyFilter[ns] /\ envoyFilter[ns][n] = Entry(r)
  BY <1>2 DEF Serves
<1>4. Entry(r).d.loads /\ Entry(r).d.creds = store[r].spec.creds
  BY DEF Entry, Marshal
<1>5. ns \in DOMAIN resourceIndex /\ n \in DOMAIN resourceIndex[ns]
  BY <1>1, <1>3, <1>4 DEF DataInv, Loaded
<1>6. resourceIndex[ns][n] = Entry(r)
  BY <1>1, <1>3, <1>5, IndexFollows
<1>7. /\ ns \in DOMAIN scopeIndex /\ c \in DOMAIN scopeIndex[ns]
      /\ scopeIndex[ns][c] \in DOMAIN resourceIndex[ns]
      /\ c \in resourceIndex[ns][scopeIndex[ns][c]].d.creds
  BY <1>1, <1>4, <1>5, <1>6 DEF DataInv, ScopeRight
<1>8. LookupConsumer(ns, c) = {scopeIndex[ns][c]}
  BY <1>7 DEF LookupConsumer
<1> QED BY <1>7, <1>8

(* Of a settled system, every credential of an Accepted consumer finds it  *)
(* or another that has it too.                                             *)
THEOREM EveryAccepted == Spec => []AcceptedAuthenticates
<1> QED BY RestAccepted, SyncInvariance, PTL

-----------------------------------------------------------------------------
(* A status that is written says what the one before it said, if that one  *)
(* was for the same generation.                                            *)
LEMMA StatusStable ==
  ASSUME SyncInv, Next, NEW r \in Consumers, store[r] # Absent, store'[r] # Absent, Accepted(r),
         store'[r].gen = store[r].gen, store'[r].spec = store[r].spec,
         store'[r].status.reason = "Invalid", Key(r, store[r].spec) \notin contested
  PROVE  FALSE
<1>1. ControlTyped /\ ItemsInv
  BY DEF SyncInv
<1>2. store \in [Consumers -> Versions] /\ store[r] \in Object
  BY <1>1, Types DEF Versions
<1>3. store[r].gen \in Nat /\ store[r].status.reason = "Accepted"
  BY <1>2, ObjectFields, ConsumersAssumption DEF Accepted
<1>4. ASSUME store'[r] = store[r] PROVE FALSE
  BY <1>3, <1>4
<1>5. CASE User
  <2>1. PICK q \in Consumers :
          Delete(q) \/ \E spec \in SpecsOf[q] : Create(q, spec) \/ UpdateSpec(q, spec)
    BY <1>5 DEF User
  <2>2. ASSUME NEW o, store' = [store EXCEPT ![q] = o],
               o = Absent \/ store[q] = Absent \/ o.gen # store[q].gen
        PROVE  FALSE
    BY <1>2, <1>4, <2>2
  <2>3. CASE Delete(q)
    BY <2>2, <2>3 DEF Delete, UserWrite, Store
  <2>4. CASE \E spec \in SpecsOf[q] : Create(q, spec)
    BY <2>2, <2>4 DEF Create, UserWrite, Store
  <2>5. CASE \E spec \in SpecsOf[q] : UpdateSpec(q, spec)
    <3>1. PICK spec \in SpecsOf[q] : UpdateSpec(q, spec)
      BY <2>5
    <3>2. store' = [store EXCEPT ![q] = WithSpec(store[q], spec)] /\ store[q] # Absent
      BY <3>1 DEF UpdateSpec, UserWrite, Store, WithSpec
    <3>3. CASE q # r
      BY <1>4, <3>2, <3>3
    <3>4. CASE q = r
      <4>1. WithSpec(store[r], spec).gen # store[r].gen
        BY <1>2, <1>3 DEF WithSpec, Object
      <4> QED BY <1>2, <3>2, <3>4, <4>1
    <3> QED BY <3>3, <3>4
  <2> QED BY <2>1, <2>3, <2>4, <2>5
<1>6. ASSUME NEW i \in DOMAIN items, Due(i), WriteStatus(items[i]),
             contested' = contested \union Doubles(store')
      PROVE  FALSE
  <2>1. PICK h : IsLog(h, cache, watch, store, contested)
    BY DEF SyncInv
  <2>2. PICK q : q = items[i].res
    OBVIOUS
  <2>3. /\ \A p \in Consumers : p # q => store'[p] = store[p]
        /\ Same(store[q], store'[q])
        /\ store'[q].status = items[i].status
    BY ONLY SyncInv, i \in DOMAIN items, <1>6, <2>1, <2>2, StatusWrite
  <2>4. q = r
    BY <1>4, <2>3
  <2>5. Matches(items[i], store[r])
    BY <1>1, <1>6, <2>2, <2>4 DEF ItemsInv, ItemsMatch, WriteStatus
  <2>6. Right(items[i]) /\ items[i].spec = store[r].spec
    BY <1>1, <2>2, <2>4, <2>5 DEF ItemsInv, ItemsRight, Matches
  <2>7. Right(store[r])
    BY <1>2, <2>1, LogRight DEF Accepted, Answered
  <2>8. store'[r].status.reason = "Accepted"
    BY <1>3, <2>3, <2>4, <2>6, <2>7 DEF Right
  <2> QED BY <2>8
<1>7. CASE UNCHANGED store
  BY <1>4, <1>7
<1>8. CASE ControlPlane
  <2>1. ReconcilerNext /\ contested' = contested \union Doubles(store')
    BY <1>8 DEF ControlPlane, Doubles
  <2>2. CASE UpdateStatus \/ UpdateStatusFails
    BY <1>6, <1>7, <2>1, <2>2 DEF UpdateStatus, UpdateStatusFails
  <2>3. CASE Observe \/ List \/ generateCustomResource \/ Conflict \/ Reconciled \/ GenerateFails
             \/ ControllerRestart
    BY <1>7, <2>3 DEF Observe, List, generateCustomResource, Conflict, Reconciled, GenerateFails,
                      ControllerRestart
  <2> QED BY <1>5, <2>1, <2>2, <2>3 DEF ReconcilerNext, Reconcile
<1>9. CASE Push \/ EnvoyRestart
  BY <1>7, <1>9 DEF Push, EnvoyRestart, reconcilerVars
<1> QED BY <1>8, <1>9 DEF Next

(* Within one generation, a consumer whose name nobody else claims never   *)
(* turns from Accepted to Invalid.                                         *)
THEOREM AcceptanceStable == Spec => AcceptanceIsStable
<1> DEFINE A == \A r \in Consumers :
       store[r] # Absent /\ store'[r] # Absent /\ Accepted(r) /\
       store'[r].gen = store[r].gen /\ store'[r].spec = store[r].spec /\
       store'[r].status.reason = "Invalid"
         => Key(r, store[r].spec) \in contested
<1>1. SyncInv /\ [Next]_vars => [A]_store
  <2> SUFFICES ASSUME SyncInv, [Next]_vars PROVE [A]_store
    OBVIOUS
  <2>1. CASE Next
    BY <2>1, StatusStable
  <2>2. CASE UNCHANGED vars
    BY <2>2 DEF vars, reconcilerVars
  <2> QED BY <2>1, <2>2
<1>2. Spec => [][A]_store
  BY <1>1, SyncInvariance, PTL DEF Spec
<1> QED BY <1>2 DEF AcceptanceIsStable

=============================================================================
