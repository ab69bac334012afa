--------------------- MODULE FilterManagerOrderProofs ---------------------
(* Proofs about FilterManager, continued: in which order the hooks of the  *)
(* plugins are called, that none is called twice or left out, and when the *)
(* request may leave; for any set of plugins and any set of configurations *)
(* that satisfy the assumptions.                                           *)
(*                                                                         *)
(* What has run of a direction is described by a record, its path, so that *)
(* one lemma serves both directions and the state before and after a step. *)
EXTENDS FilterManagerProofs

-----------------------------------------------------------------------------
(* The path of one direction, as a record: which positions were called for *)
(* each hook, which asked to wait, and which override the hooks.  What is  *)
(* said of a path below is said of such a record, whichever direction or   *)
(* state it comes from.                                                    *)
Called(d, m) == {k \in 1 .. N : <<At(d, k), m>> \in ran}
Waiters(d) == {k \in 1 .. N : <<At(d, k), Headers(d)>> \in waited}
Overrides(d, m) == {k \in 1 .. N : m \in Defines(At(d, k))}

Path(d) ==
  [len |-> N, waits |-> Waiters(d),
   headers |-> Called(d, Headers(d)), data |-> Called(d, Data(d)),
   trailers |-> Called(d, Trailers(d)), whole |-> Called(d, Whole(d)),
   hasHeaders |-> Overrides(d, Headers(d)), hasData |-> Overrides(d, Data(d)),
   hasTrailers |-> Overrides(d, Trailers(d)), hasWhole |-> Overrides(d, Whole(d))]

(* The hooks ran exactly so far: the headers up to n, the whole message of *)
(* those that wait up to q, the body and the trailers of the others up to  *)
(* b and u; and only w waits beyond q.                                     *)
SoFar(v, n, q, b, u, w) ==
  \A k \in 1 .. v.len :
    /\ k \in v.headers <=> k <= n /\ k \in v.hasHeaders
    /\ k \in v.whole <=> k <= q /\ k \in v.waits
    /\ k \in v.data <=> k <= b /\ k \notin v.waits /\ k \in v.hasData
    /\ k \in v.trailers <=> k <= u /\ k \notin v.waits /\ k \in v.hasTrailers
    /\ k \in v.waits => k <= q \/ k = w

(* The message is streamed: no filter waits, and every one has seen the    *)
(* headers unless they were skipped.                                       *)
Streamed(v, skipped) ==
  \A k \in 1 .. v.len : /\ k \notin v.waits /\ k \notin v.whole
                        /\ k \in v.hasHeaders => skipped \/ k \in v.headers
DataBefore(v, c) == \A k \in 1 .. v.len : k < c /\ k \in v.hasData => k \in v.data
NoTrailers(v) == \A k \in 1 .. v.len : k \notin v.trailers
(* encodeTrailers ranges over the chain forwards.                          *)
TrailersBefore(d, v, c) ==
  \A k \in 1 .. v.len :
    k \in v.trailers <=> k \in v.hasTrailers /\ (IF d = "decode" THEN k ELSE v.len + 1 - k) < c

(* The properties, said of a path.                                         *)
PathInOrder(v, body) ==
  \A k \in 1 .. v.len, j \in 1 .. v.len : j < k =>
    /\ k \in v.headers \/ k \in v.data \/ k \in v.trailers \/ k \in v.whole =>
         /\ j \in v.hasHeaders => j \in v.headers
         /\ j \in v.waits => j \in v.whole
    /\ k \in v.whole /\ body /\ j \notin v.waits /\ j \in v.hasData => j \in v.data
TrailersOrdered(v) ==
  \A k \in 1 .. v.len, j \in 1 .. v.len :
    j < k /\ k \in v.trailers /\ j \notin v.waits /\ j \in v.hasTrailers => j \in v.trailers
EitherKind(v) ==
  \A k \in 1 .. v.len : IF k \in v.waits THEN k \notin v.data /\ k \notin v.trailers
                        ELSE k \notin v.whole
SeenHeaders(v) ==
  \A k \in 1 .. v.len : /\ k \in v.hasHeaders => k \in v.headers
                        /\ k \in v.waits => k \in v.whole
SeenBody(v, body) ==
  \A k \in 1 .. v.len : body /\ k \notin v.waits /\ k \in v.hasData => k \in v.data
SeenTrailers(v, trailers) ==
  \A k \in 1 .. v.len : trailers /\ k \notin v.waits /\ k \in v.hasTrailers => k \in v.trailers

-----------------------------------------------------------------------------
(* The inductive invariant.                                                *)

HeadersPcs == {"init", "authn", "headers", "noBody"}
WholePcs == {"wholeData", "wholeTrailers", "whole", "wholeHeaders"}

(* Envoy still listens to the answer of a handler.                         *)
Live(d) == stage = "active" /\ at[d] # "stopped"

(* A filter of the chain waits, and the message is being buffered for it.  *)
Waiting(d) == idx[d] \in Path(d).waits /\ SoFar(Path(d), idx[d], 0, 0, 0, idx[d])
Untouched(d) == idx[d] = 0 /\ chunks[d] = 0 /\ SoFar(Path(d), 0, 0, 0, 0, 0)
Finished(d) == SeenHeaders(Path(d)) /\ SeenBody(Path(d), msg[d].body)

(* What a handler was started for.                                         *)
Started(d) ==
  LET t == task[d] IN
  /\ t.pc \in HeadersPcs =>
       /\ t.meth = Headers(d) /\ t.es = (~msg[d].body /\ ~msg[d].trailers)
       /\ ~skip[Headers(d)] /\ chunks[d] = 0 /\ idx[d] = 0
       /\ Live(d) => at[d] = "header"
  /\ t.pc = "data" =>
       /\ t.meth = Data(d) /\ msg[d].body /\ (t.es => ~msg[d].trailers) /\ idx[d] = 0
       /\ Live(d) => at[d] = "data"
  /\ t.pc = "trailers" => /\ t.meth = Trailers(d) /\ t.es /\ idx[d] = 0
                          /\ Live(d) => at[d] = "data"
  /\ t.pc = "keep" => /\ d = "decode" /\ t.meth = Data(d) /\ ~t.es
                      /\ Live(d) => at[d] = "buffering"
  /\ t.pc = "ignore" => /\ d = "encode" /\ t.es /\ idx[d] # 0 /\ t.meth = Trailers(d)
                        /\ Live(d) => at[d] \in {"buffering", "trailers"}
  /\ t.pc \in WholePcs =>
       /\ d = "decode" => t.es /\ (msg[d].trailers => hasTrailers(d))
       /\ d = "decode" => t.meth \in {Data(d), Trailers(d)}
       /\ d = "encode" => t.meth = Data(d)
       /\ msg[d].body => hasBody(d)
       /\ Live(d) => at[d] = "buffering" \/ (d = "decode" /\ at[d] = "trailers")

(* How far a handler has come.                                             *)
Segment(d) ==
  LET s == task[d].seg IN
  /\ s <= N => s \in Path(d).waits /\ (s = idx[d] \/ needed[d])
  /\ idx[d] < s \/ s = idx[d]
Progress(d) ==
  LET v == Path(d)  t == task[d]  c == t.cur  s == t.seg  i == idx[d]
      q == IF s = i THEN 0 ELSE i
      body == hasBody(d)  trailers == hasTrailers(d)
  IN
  /\ t.pc = "init" => SoFar(v, 0, 0, 0, 0, 0)
  /\ t.pc = "authn" => SoFar(v, c - 1, 0, 0, 0, 0)
  /\ t.pc = "headers" => SoFar(v, c - 1, IF t.es THEN c - 1 ELSE 0, 0, 0, 0)
  /\ t.pc = "noBody" => t.es /\ c \in v.waits /\ SoFar(v, c, c - 1, 0, 0, c)
  /\ t.pc = "keep" => Waiting(d)
  /\ t.pc = "data" => Streamed(v, skip[Headers(d)]) /\ NoTrailers(v) /\ DataBefore(v, c)
  /\ t.pc = "trailers" =>
       /\ Streamed(v, skip[Headers(d)]) /\ SeenBody(v, msg[d].body) /\ TrailersBefore(d, v, c)
  /\ t.pc = "ignore" => (msg[d].body => Finished(d))
  /\ t.pc = "wholeData" =>
       /\ Segment(d) /\ q < c /\ c <= s
       /\ SoFar(v, s, q, IF body THEN c - 1 ELSE 0, IF trailers THEN q ELSE 0, s)
  /\ t.pc = "wholeTrailers" =>
       /\ Segment(d) /\ q < c /\ c <= s
       /\ SoFar(v, s, q, IF body THEN s - 1 ELSE 0, IF trailers THEN c - 1 ELSE 0, s)
  /\ t.pc = "whole" =>
       /\ s \in v.waits /\ q < s
       /\ SoFar(v, s, q, IF body THEN s - 1 ELSE 0, IF trailers THEN s - 1 ELSE 0, s)
  /\ t.pc = "wholeHeaders" =>
       /\ i < c
       /\ SoFar(v, c - 1, i, IF body THEN i ELSE 0, IF trailers THEN i ELSE 0, 0)

(* What is true between two handlers of a stream Envoy has not given up.   *)
Between(d) ==
  /\ at[d] \in {"none", "done"} => task[d].pc = "idle"
  /\ at[d] = "none" => Untouched(d)
  /\ task[d].pc = "idle" /\ stage = "active" =>
       /\ at[d] = "header" => Untouched(d)
       /\ at[d] = "data" => /\ idx[d] = 0 /\ Streamed(Path(d), skip[Headers(d)])
                            /\ NoTrailers(Path(d))
                            /\ chunks[d] > 0 => DataBefore(Path(d), N + 1)
       /\ at[d] = "buffering" => Waiting(d)
       /\ at[d] = "trailers" =>
            IF d = "decode" THEN Waiting(d) /\ (msg[d].body => reqBuf)
            ELSE idx[d] # 0 /\ Finished(d)

(* The request headers have not left while the decode path may still wait. *)
NotYet ==
  \/ at["decode"] \in {"none", "header", "buffering", "trailers"}
  \/ task["decode"].pc \notin {"idle", "data", "trailers"}
  => ~forwarded

(* The chain and its flags; only plugins of the chain were called, and     *)
(* only those that take the whole message wait.                            *)
ChainSound ==
  /\ Sorted(filters)
  /\ \A p \in Plugins, m \in Methods : <<p, m>> \in ran => p \in Chain
  /\ waited \subseteq ran
  /\ \A d \in Dir, p \in Plugins : Waited(d, p) => Whole(d) \in Defines(p)
  /\ \A ph \in Phases \union {"OnLog"} :
       skip[ph] /\ ~(merged /\ ph = "EncodeHeaders") => SkipPhase(Chain, ph)

(* The properties themselves: they outlast the handlers of a stream that   *)
(* Envoy has given up, of which nothing else is known.                     *)
Lost(d) == d = "encode" /\ EncodeHeadersLost
Ordered(d) ==
  /\ Lost(d) \/ PathInOrder(Path(d), msg[d].body)
  /\ d = "decode" => TrailersOrdered(Path(d))
  /\ EitherKind(Path(d))
Complete(d) ==
  at[d] = "done" /\ ~Lost(d) =>
    \/ d = "encode" /\ idx[d] # 0 /\ ~msg[d].body
    \/ /\ Finished(d)
       /\ (d = "encode" /\ idx[d] # 0) \/ SeenTrailers(Path(d), msg[d].trailers)
Passed == forwarded => SeenHeaders(Path("decode"))

PathInv(d) == Started(d) /\ Progress(d) /\ Between(d) /\ Ordered(d) /\ Complete(d)
OrderInv == /\ \A d \in Dir : PathInv(d)
            /\ ChainSound /\ NotYet /\ Passed /\ ~again

-----------------------------------------------------------------------------
(* What a call of a hook does to a path.                                   *)

SamePlugins(v, x) ==
  /\ x.len = v.len /\ x.hasHeaders = v.hasHeaders /\ x.hasData = v.hasData
  /\ x.hasTrailers = v.hasTrailers /\ x.hasWhole = v.hasWhole
With(S, k, H) == IF k \in H THEN S \union {k} ELSE S

HeadersCall(v, x, k, waits) ==
  /\ SamePlugins(v, x) /\ x.data = v.data /\ x.trailers = v.trailers /\ x.whole = v.whole
  /\ x.headers = With(v.headers, k, v.hasHeaders)
  /\ x.waits = IF waits THEN v.waits \union {k} ELSE v.waits
DataCall(v, x, k) ==
  /\ SamePlugins(v, x) /\ x.headers = v.headers /\ x.trailers = v.trailers
  /\ x.whole = v.whole /\ x.waits = v.waits
  /\ x.data = With(v.data, k, v.hasData)
TrailersCall(v, x, k) ==
  /\ SamePlugins(v, x) /\ x.headers = v.headers /\ x.data = v.data
  /\ x.whole = v.whole /\ x.waits = v.waits
  /\ x.trailers = With(v.trailers, k, v.hasTrailers)
WholeCall(v, x, k) ==
  /\ SamePlugins(v, x) /\ x.headers = v.headers /\ x.data = v.data
  /\ x.trailers = v.trailers /\ x.waits = v.waits
  /\ x.whole = With(v.whole, k, v.hasWhole)

(* The next filter gets the headers; it waits or not.                      *)
LEMMA HeadersSoFar ==
  ASSUME NEW v, NEW x, v.len \in Nat, NEW n \in 1 .. v.len, NEW q \in Nat, NEW b \in Nat,
         NEW u \in Nat, q < n, b < n, u < n, NEW waits \in BOOLEAN,
         SoFar(v, n - 1, q, b, u, 0), HeadersCall(v, x, n, waits)
  PROVE  IF waits THEN SoFar(x, n, q, b, u, n) /\ n \in x.waits
         ELSE SoFar(x, n, q, b, u, 0) /\ SoFar(x, n, q, b, u, n)
BY DEF SoFar, HeadersCall, SamePlugins, With

(* The next filter that does not wait gets the body, or the trailers.      *)
LEMMA DataSoFar ==
  ASSUME NEW v, NEW x, v.len \in Nat, NEW n \in Nat, NEW q \in Nat, NEW b \in 1 .. v.len,
         NEW u \in Nat, NEW w \in Nat, q < b, b < w,
         SoFar(v, n, q, b - 1, u, w), DataCall(v, x, b)
  PROVE  SoFar(x, n, q, b, u, w) /\ b \notin v.data
BY DEF SoFar, DataCall, SamePlugins, With

(* The same for the trailers.                                              *)
LEMMA TrailersSoFar ==
  ASSUME NEW v, NEW x, v.len \in Nat, NEW n \in Nat, NEW q \in Nat, NEW b \in Nat,
         NEW u \in 1 .. v.len, NEW w \in Nat, q < u, u < w,
         SoFar(v, n, q, b, u - 1, w), TrailersCall(v, x, u)
  PROVE  SoFar(x, n, q, b, u, w) /\ u \notin v.trailers
BY DEF SoFar, TrailersCall, SamePlugins, With

(* The filter that waits gets the whole message.                           *)
LEMMA WholeSoFar ==
  ASSUME NEW v, NEW x, v.len \in Nat, NEW n \in Nat, NEW q \in Nat, NEW b \in Nat,
         NEW u \in Nat, NEW w \in 1 .. v.len, q < w, w \in v.waits, w \in v.hasWhole,
         SoFar(v, n, q, b, u, w), WholeCall(v, x, w)
  PROVE  SoFar(x, n, w, b, u, 0) /\ w \notin v.whole /\ w \in x.waits
BY DEF SoFar, WholeCall, SamePlugins, With

(* What ran so far is in order.                                            *)
LEMMA SoFarOrdered ==
  ASSUME NEW v, v.len \in Nat, NEW n \in Nat, NEW q \in Nat, NEW b \in Nat, NEW u \in Nat,
         NEW w \in Nat, NEW body \in BOOLEAN,
         SoFar(v, n, q, b, u, w), q <= n, b <= n, u <= n, w = 0 \/ w >= n,
         body => q <= b + 1
  PROVE  PathInOrder(v, body) /\ TrailersOrdered(v) /\ EitherKind(v)
BY DEF SoFar, PathInOrder, TrailersOrdered, EitherKind

(* So is a streamed message.                                               *)
LEMMA StreamedOrdered ==
  ASSUME NEW v, v.len \in Nat, NEW skipped \in BOOLEAN, NEW body \in BOOLEAN,
         Streamed(v, skipped)
  PROVE  /\ EitherKind(v)
         /\ (skipped => v.hasHeaders = {}) => PathInOrder(v, body) /\ SeenHeaders(v)
BY DEF Streamed, PathInOrder, EitherKind, SeenHeaders

(* The same positions under other numbers.                                 *)
LEMMA Renumbered ==
  ASSUME NEW v, NEW n, NEW q, NEW b, NEW u, NEW w, NEW n2, NEW q2, NEW b2, NEW u2, NEW w2,
         SoFar(v, n, q, b, u, w),
         \A k \in 1 .. v.len :
           /\ k <= n <=> k <= n2
           /\ k \in v.waits => (k <= q <=> k <= q2) /\ (k <= q \/ k = w => k <= q2 \/ k = w2)
           /\ k \notin v.waits => (k <= b <=> k <= b2) /\ (k <= u <=> k <= u2)
  PROVE  SoFar(v, n2, q2, b2, u2, w2)
BY DEF SoFar

-----------------------------------------------------------------------------
(* The paths of a chain.                                                   *)

(* A path has a position for every filter of the chain.                    *)
LEMMA PathType ==
  ASSUME TypeOK, NEW d \in Dir
  PROVE  /\ Path(d).len = N /\ N \in Nat
         /\ Path(d).waits = Waiters(d)
         /\ Path(d).headers = Called(d, Headers(d)) /\ Path(d).data = Called(d, Data(d))
         /\ Path(d).trailers = Called(d, Trailers(d)) /\ Path(d).whole = Called(d, Whole(d))
         /\ Path(d).hasHeaders = Overrides(d, Headers(d))
         /\ Path(d).hasData = Overrides(d, Data(d))
         /\ Path(d).hasTrailers = Overrides(d, Trailers(d))
         /\ Path(d).hasWhole = Overrides(d, Whole(d))
BY DEF Path, TypeOK, N

(* The hooks of the two directions have different names.                   *)
LEMMA HooksDiffer ==
  ASSUME NEW d \in Dir
  PROVE  /\ Headers(d) # Data(d) /\ Headers(d) # Trailers(d) /\ Headers(d) # Whole(d)
         /\ Data(d) # Trailers(d) /\ Data(d) # Whole(d) /\ Trailers(d) # Whole(d)
         /\ \A e \in Dir : e # d => Hooks(d) \cap Hooks(e) = {}
         /\ Hooks(d) \subseteq Methods
         /\ Headers(d) \in Hooks(d) /\ Data(d) \in Hooks(d) /\ Trailers(d) \in Hooks(d)
         /\ Whole(d) \in Hooks(d)
<1>1. ASSUME NEW e \in Dir, e # d PROVE Hooks(d) \cap Hooks(e) = {}
  BY <1>1 DEF Dir, Hooks, Headers, Data, Trailers, Whole
<1> QED BY <1>1 DEF Dir, Hooks, Headers, Data, Trailers, Whole, Methods, Phases

(* A chain in plugin order names no plugin twice.                          *)
LEMMA SortedInjective ==
  ASSUME NEW s \in Seq(Plugins), Sorted(s), NEW i \in 1 .. Len(s), NEW j \in 1 .. Len(s),
         s[i] = s[j]
  PROVE  i = j
<1>1. /\ i < j => PluginOrder[s[i]] < PluginOrder[s[j]]
      /\ j < i => PluginOrder[s[j]] < PluginOrder[s[i]]
  BY DEF Sorted
<1>2. s[i] \in Plugins
  OBVIOUS
<1> QED BY <1>1, <1>2, Ranked

(* Nor does its path, in either direction.                                 *)
LEMMA AtInjective ==
  ASSUME TypeOK, Sorted(filters), NEW d \in Dir, NEW j \in 1 .. N, NEW k \in 1 .. N,
         At(d, j) = At(d, k)
  PROVE  j = k
<1>1. N \in Nat /\ filters \in Seq(Plugins) /\ N = Len(filters)
  BY DEF TypeOK, N
<1>2. N + 1 - j \in 1 .. N /\ N + 1 - k \in 1 .. N
  BY <1>1
<1>3. CASE d = "decode"
  BY <1>1, <1>3, SortedInjective DEF At
<1>4. CASE d # "decode"
  <2>1. N + 1 - j = N + 1 - k
    BY <1>1, <1>2, <1>4, SortedInjective DEF At
  <2> QED BY <2>1, <1>1
<1> QED BY <1>3, <1>4

(* The filters of the path are those of the chain.                         *)
LEMMA AtChain ==
  ASSUME TypeOK, NEW d \in Dir
  PROVE  /\ \A k \in 1 .. N : At(d, k) \in Chain
         /\ \A p \in Chain : \E k \in 1 .. N : At(d, k) = p
         /\ Chain \subseteq Plugins
<1>1. N \in Nat /\ filters \in [1 .. N -> Plugins] /\ DOMAIN filters = 1 .. N
  BY DEF TypeOK, N
<1>2. ASSUME NEW k \in 1 .. N PROVE At(d, k) \in Chain
  <2>1. N + 1 - k \in 1 .. N
    BY <1>1
  <2> QED BY <1>1, <2>1 DEF At, Chain, RangeOf
<1>3. ASSUME NEW p \in Chain PROVE \E k \in 1 .. N : At(d, k) = p
  <2>1. PICK i \in 1 .. N : filters[i] = p
    BY <1>1 DEF Chain, RangeOf
  <2>2. N + 1 - i \in 1 .. N /\ N + 1 - (N + 1 - i) = i
    BY <1>1
  <2> QED BY <2>1, <2>2 DEF At
<1>4. Chain \subseteq Plugins
  BY <1>1 DEF Chain, RangeOf
<1> QED BY <1>2, <1>3, <1>4

(* A path changes with the chain, the overrides and the calls only.        *)
LEMMA SamePath ==
  ASSUME NEW d, UNCHANGED <<conf, filters, ran, waited>>
  PROVE  Path(d)' = Path(d)
BY DEF Path, Called, Waiters, Overrides, At, N, Defines

(* A call of one method is recorded at the position of its filter, and     *)
(* leaves the other methods alone.                                         *)
LEMMA CalledChanges ==
  ASSUME TypeOK, Sorted(filters), NEW d \in Dir, NEW c \in 1 .. N, NEW m, NEW r,
         UNCHANGED <<conf, filters>>, Call(At(d, c), m, r)
  PROVE  /\ Called(d, m)' = With(Called(d, m), c, Overrides(d, m))
         /\ \A e \in Dir : \A h : h # m => Called(e, h)' = Called(e, h)
         /\ \A e \in Dir : \A h : Overrides(e, h)' = Overrides(e, h)
         /\ N' = N
<1>1. /\ N' = N /\ \A e, k : At(e, k)' = At(e, k) /\ Defines(At(e, k))' = Defines(At(e, k))
  BY DEF At, N, Defines
<1>2. ran' = IF m \in Defines(At(d, c)) THEN ran \union {<<At(d, c), m>>} ELSE ran
  BY DEF Call
<1>3. \A k \in 1 .. N : At(d, k) = At(d, c) => k = c
  BY AtInjective
<1>4. Called(d, m)' = {k \in 1 .. N : <<At(d, k), m>> \in ran'}
  BY <1>1 DEF Called
<1>5. Called(d, m)' = With(Called(d, m), c, Overrides(d, m))
  BY <1>2, <1>3, <1>4 DEF Called, With, Overrides
<1>6. ASSUME NEW e \in Dir, NEW h, h # m PROVE Called(e, h)' = Called(e, h)
  <2>1. Called(e, h)' = {k \in 1 .. N : <<At(e, k), h>> \in ran'}
    BY <1>1 DEF Called
  <2>2. \A k : <<At(e, k), h>> \in ran' <=> <<At(e, k), h>> \in ran
    BY <1>2, <1>6
  <2> QED BY <2>1, <2>2 DEF Called
<1>7. ASSUME NEW e \in Dir, NEW h PROVE Overrides(e, h)' = Overrides(e, h)
  BY <1>1 DEF Overrides
<1> QED BY <1>1, <1>5, <1>6, <1>7

(* Who waits changes with the answers to the headers only.                 *)
LEMMA WaitersChange ==
  ASSUME TypeOK, Sorted(filters), NEW d \in Dir, NEW c \in 1 .. N, NEW m \in Hooks(d), NEW r,
         UNCHANGED <<conf, filters>>, Call(At(d, c), m, r)
  PROVE  /\ Waiters(d)' = IF r = "WaitAllData" THEN Waiters(d) \union {c} ELSE Waiters(d)
         /\ \A e \in Dir : e # d => Waiters(e)' = Waiters(e)
         /\ r = "WaitAllData" => m = Headers(d)
<1>1. N' = N /\ \A e, k : At(e, k)' = At(e, k)
  BY DEF At, N
<1>2. waited' = IF r = "WaitAllData" THEN waited \union {<<At(d, c), m>>} ELSE waited
  BY DEF Call
<1>3. r = "WaitAllData" => m = Headers(d)
  <2>1. r = "WaitAllData" => \E e \in Dir : m = Headers(e)
    BY DEF Call, Outcomes
  <2> QED BY <2>1, HooksDiffer
<1>4. \A k \in 1 .. N : At(d, k) = At(d, c) => k = c
  BY AtInjective
<1>5. \A e : Waiters(e)' = {k \in 1 .. N : <<At(e, k), Headers(e)>> \in waited'}
  BY <1>1 DEF Waiters, Headers
<1>6. Waiters(d)' = IF r = "WaitAllData" THEN Waiters(d) \union {c} ELSE Waiters(d)
  BY <1>2, <1>3, <1>4, <1>5 DEF Waiters
<1>7. ASSUME NEW e \in Dir, e # d PROVE Waiters(e)' = Waiters(e)
  <2>1. Headers(e) # m
    BY <1>7, HooksDiffer
  <2>2. \A k : <<At(e, k), Headers(e)>> \in waited' <=> <<At(e, k), Headers(e)>> \in waited
    BY <1>2, <2>1
  <2>3. Waiters(e)' = {k \in 1 .. N : <<At(e, k), Headers(e)>> \in waited'}
    BY <1>5
  <2> QED BY <2>2, <2>3 DEF Waiters
<1> QED BY <1>3, <1>6, <1>7

(* What the calls of the hooks do to the path of their direction; the path *)
(* of the other one stays as it is.                                        *)
LEMMA CallPath ==
  ASSUME TypeOK, Sorted(filters), NEW d \in Dir, NEW c \in 1 .. N, NEW m \in Hooks(d), NEW r,
         UNCHANGED <<conf, filters>>, Call(At(d, c), m, r)
  PROVE  /\ m = Headers(d) => HeadersCall(Path(d), Path(d)', c, r = "WaitAllData")
         /\ m = Data(d) => DataCall(Path(d), Path(d)', c)
         /\ m = Trailers(d) => TrailersCall(Path(d), Path(d)', c)
         /\ m = Whole(d) => WholeCall(Path(d), Path(d)', c)
         /\ \A e \in Dir : e # d => Path(e)' = Path(e)
<1>1. /\ Called(d, m)' = With(Called(d, m), c, Overrides(d, m))
      /\ \A e \in Dir : \A h : h # m => Called(e, h)' = Called(e, h)
      /\ \A e \in Dir : \A h : Overrides(e, h)' = Overrides(e, h)
      /\ N' = N
  BY CalledChanges
<1>2. /\ Waiters(d)' = IF r = "WaitAllData" THEN Waiters(d) \union {c} ELSE Waiters(d)
      /\ \A e \in Dir : e # d => Waiters(e)' = Waiters(e)
      /\ r = "WaitAllData" => m = Headers(d)
  BY WaitersChange
<1>3. \A e \in Dir :
        Path(e)' = [len |-> N', waits |-> Waiters(e)',
                    headers |-> Called(e, Headers(e))', data |-> Called(e, Data(e))',
                    trailers |-> Called(e, Trailers(e))', whole |-> Called(e, Whole(e))',
                    hasHeaders |-> Overrides(e, Headers(e))', hasData |-> Overrides(e, Data(e))',
                    hasTrailers |-> Overrides(e, Trailers(e))', hasWhole |-> Overrides(e, Whole(e))']
  BY DEF Path
<1>4. ASSUME NEW e \in Dir, e # d PROVE Path(e)' = Path(e)
  <2>1. m # Headers(e) /\ m # Data(e) /\ m # Trailers(e) /\ m # Whole(e)
    BY <1>4, HooksDiffer
  <2>2. Called(e, Headers(e))' = Called(e, Headers(e)) /\ Called(e, Data(e))' = Called(e, Data(e))
        /\ Called(e, Trailers(e))' = Called(e, Trailers(e)) /\ Called(e, Whole(e))' = Called(e, Whole(e))
    BY <1>1, <2>1
  <2> QED BY <1>1, <1>2, <1>3, <1>4, <2>2 DEF Path
<1>5. /\ Path(d)'.len = N /\ Path(d)'.waits = Waiters(d)'
      /\ Path(d)'.headers = Called(d, Headers(d))' /\ Path(d)'.data = Called(d, Data(d))'
      /\ Path(d)'.trailers = Called(d, Trailers(d))' /\ Path(d)'.whole = Called(d, Whole(d))'
      /\ Path(d)'.hasHeaders = Overrides(d, Headers(d))
      /\ Path(d)'.hasData = Overrides(d, Data(d))
      /\ Path(d)'.hasTrailers = Overrides(d, Trailers(d))
      /\ Path(d)'.hasWhole = Overrides(d, Whole(d))
  BY <1>1, <1>3
<1>6. SamePlugins(Path(d), Path(d)')
  BY <1>5, PathType DEF SamePlugins
<1>7. m = Headers(d) => HeadersCall(Path(d), Path(d)', c, r = "WaitAllData")
  BY <1>1, <1>2, <1>5, <1>6, PathType, HooksDiffer DEF HeadersCall
<1>8. m = Data(d) => DataCall(Path(d), Path(d)', c)
  BY <1>1, <1>2, <1>5, <1>6, PathType, HooksDiffer DEF DataCall
<1>9. m = Trailers(d) => TrailersCall(Path(d), Path(d)', c)
  BY <1>1, <1>2, <1>5, <1>6, PathType, HooksDiffer DEF TrailersCall
<1>10. m = Whole(d) => WholeCall(Path(d), Path(d)', c)
  BY <1>1, <1>2, <1>5, <1>6, PathType, HooksDiffer DEF WholeCall
<1> QED BY <1>4, <1>7, <1>8, <1>9, <1>10

(* A call of a plugin of the chain keeps what is known of the chain; and   *)
(* no hook is called again whose position had not been called.             *)
LEMMA CallChain ==
  ASSUME TypeOK, ChainSound, NEW d \in Dir, NEW c \in 1 .. N, NEW m \in Hooks(d), NEW r,
         UNCHANGED <<conf, filters, skip, merged>>, Call(At(d, c), m, r), ~again,
         m \in {"DecodeData", "EncodeData"} \/ c \notin Called(d, m)
  PROVE  ChainSound' /\ ~again'
<1> DEFINE p == At(d, c)
<1>1. p \in Chain /\ p \in Plugins
  BY AtChain, AtType
<1>2. /\ r \in Outcomes(p, m)
      /\ ran' = IF m \in Defines(p) THEN ran \union {<<p, m>>} ELSE ran
      /\ waited' = IF r = "WaitAllData" THEN waited \union {<<p, m>>} ELSE waited
      /\ again' = (again \/ (<<p, m>> \in ran /\ m \notin {"DecodeData", "EncodeData"}))
  BY DEF Call
<1>3. /\ Chain' = Chain /\ \A S, ph : SkipPhase(S, ph)' = SkipPhase(S, ph)
      /\ \A q : Defines(q)' = Defines(q)
  BY DEF Chain, RangeOf, SkipPhase, SkipMethod, Defines
<1>4. ~again'
  BY <1>2 DEF Called
<1> HIDE DEF p
<1>5. \A q \in Plugins, h \in Methods : <<q, h>> \in ran' => q \in Chain
  BY <1>1, <1>2 DEF ChainSound
<1>6. r = "WaitAllData" => m \in Defines(p)
                           /\ \E e \in Dir : m = Headers(e) /\ Whole(e) \in Defines(p)
  BY <1>2 DEF Outcomes
<1>7. waited' \subseteq ran'
  BY <1>2, <1>6 DEF ChainSound
<1>8. ASSUME NEW e \in Dir, NEW q \in Plugins, Waited(e, q)'
      PROVE  Whole(e) \in Defines(q)
  <2>1. <<q, Headers(e)>> \in waited'
    BY <1>8 DEF Waited, Headers
  <2>2. CASE <<q, Headers(e)>> \in waited
    BY <2>2 DEF ChainSound, Waited
  <2>3. CASE <<q, Headers(e)>> \notin waited
    <3>1. q = p /\ m = Headers(e) /\ r = "WaitAllData"
      BY <1>2, <2>1, <2>3
    <3>2. PICK f \in Dir : m = Headers(f) /\ Whole(f) \in Defines(p)
      BY <1>6, <3>1
    <3>3. f = e
      BY <3>1, <3>2, HooksDiffer
    <3> QED BY <3>1, <3>2, <3>3
  <2> QED BY <2>2, <2>3
<1>9. Sorted(filters)'
  BY DEF ChainSound, Sorted
<1>10. \A ph \in Phases \union {"OnLog"} :
         skip'[ph] /\ ~(merged' /\ ph = "EncodeHeaders") => SkipPhase(Chain, ph)
  BY DEF ChainSound
<1>11. \A e \in Dir, q \in Plugins : Waited(e, q)' => Whole(e) \in Defines(q)'
  BY <1>3, <1>8
<1> QED BY <1>3, <1>4, <1>5, <1>7, <1>9, <1>10, <1>11 DEF ChainSound

(* What is known of the chain changes with it and with the history only.   *)
LEMMA SameChain ==
  ASSUME ChainSound, UNCHANGED <<conf, filters, skip, merged, ran, waited>>
  PROVE  ChainSound'
BY DEF ChainSound, Sorted, Chain, RangeOf, Waited, SkipPhase, SkipMethod, Defines, Headers, Whole

(* A filter that waits takes the whole message.                            *)
LEMMA WaitersTakeWhole ==
  ASSUME TypeOK, ChainSound, NEW d \in Dir, NEW k \in Path(d).waits
  PROVE  k \in 1 .. N /\ k \in Path(d).hasWhole
<1>1. k \in 1 .. N /\ <<At(d, k), Headers(d)>> \in waited /\ At(d, k) \in Plugins
  BY PathType, AtType DEF Waiters, TypeOK
<1>2. Whole(d) \in Defines(At(d, k))
  BY <1>1 DEF ChainSound, Waited
<1> QED BY <1>1, <1>2, PathType DEF Overrides

(* A skipped phase has nothing to do, except EncodeHeaders after a merge.  *)
LEMMA SkippedHeaders ==
  ASSUME TypeOK, ChainSound, NEW d \in Dir, skip[Headers(d)], ~Lost(d)
  PROVE  Path(d).hasHeaders = {}
<1>1. SkipMethod(Chain, Headers(d))
  <2>1. CASE merged /\ Headers(d) = "EncodeHeaders"
    <3>1. d = "encode"
      BY <2>1 DEF Headers, Dir
    <3>2. skip["EncodeHeaders"] /\ ~EncodeHeadersLost
      BY <2>1, <3>1 DEF Lost
    <3> QED BY <2>1, <3>2 DEF EncodeHeadersLost
  <2>2. CASE ~(merged /\ Headers(d) = "EncodeHeaders")
    BY <2>2, MethodTypes DEF ChainSound, SkipPhase
  <2> QED BY <2>1, <2>2
<1> QED BY <1>1, PathType, AtChain DEF Overrides, SkipMethod

(* A phase of the body or the trailers is skipped only when no filter has  *)
(* something to do in it, nor waits.                                       *)
LEMMA SkippedBody ==
  ASSUME TypeOK, ChainSound, NEW d \in Dir
  PROVE  /\ skip[Data(d)] => Path(d).hasData = {} /\ Path(d).waits = {}
         /\ skip[Trailers(d)] => Path(d).hasTrailers = {} /\ Path(d).waits = {}
<1>1. ASSUME NEW ph \in {Data(d), Trailers(d)}, skip[ph]
      PROVE  SkipMethod(Chain, ph) /\ SkipMethod(Chain, Whole(d))
  <2>1. ph \in Phases \union {"OnLog"} /\ ph # "EncodeHeaders"
    BY MethodTypes DEF Data, Trailers
  <2>2. SkipPhase(Chain, ph)
    BY <1>1, <2>1 DEF ChainSound
  <2> QED BY <2>2 DEF SkipPhase, Data, Trailers, Whole, Dir
<1>2. ASSUME SkipMethod(Chain, Whole(d)) PROVE Path(d).waits = {}
  BY <1>2, WaitersTakeWhole, AtChain, PathType DEF Overrides, SkipMethod
<1>3. ASSUME NEW m, SkipMethod(Chain, m) PROVE Overrides(d, m) = {}
  BY <1>3, AtChain DEF Overrides, SkipMethod
<1> QED BY <1>1, <1>2, <1>3, PathType

-----------------------------------------------------------------------------
(* How a step ends: for the direction that acts, and for the other one.    *)

(* What a step of the other direction leaves alone.                        *)
Still(e) ==
  /\ UNCHANGED <<conf, filters, skip, merged>>
  /\ Path(e)' = Path(e) /\ task'[e] = task[e] /\ idx'[e] = idx[e] /\ needed'[e] = needed[e]
  /\ msg'[e] = msg[e] /\ chunks'[e] = chunks[e]
  /\ e = "decode" => reqBuf' = reqBuf
  /\ at'[e] = "stopped" \/ (at'[e] = at[e] /\ (stage' = stage \/ stage' # "active"))

(* The chain lost its EncodeHeaders as before.                             *)
LEMMA SameLost ==
  ASSUME NEW d, UNCHANGED <<conf, filters, skip, merged>>
  PROVE  Lost(d)' = Lost(d) /\ N' = N
BY DEF Lost, EncodeHeadersLost, SkipMethod, Chain, RangeOf, Defines, N

(* The direction that does not act keeps its invariant.                    *)
LEMMA StillPathInv ==
  ASSUME NEW e \in Dir, PathInv(e), Still(e)
  PROVE  PathInv(e)'
<1>1. /\ Lost(e)' = Lost(e) /\ N' = N
      /\ hasBody(e)' = hasBody(e) /\ hasTrailers(e)' = hasTrailers(e)
  BY SameLost DEF Still, hasBody, hasTrailers
<1>2. Started(e)'
  BY <1>1 DEF PathInv, Still, Started, Live
<1>3. Progress(e)'
  BY <1>1 DEF PathInv, Still, Progress, Segment, Waiting, Finished
<1>4. Between(e)'
  BY <1>1 DEF PathInv, Still, Between, Waiting, Untouched, Finished
<1>5. Ordered(e)'
  BY <1>1 DEF PathInv, Still, Ordered
<1>6. Complete(e)'
  BY <1>1 DEF PathInv, Still, Complete, Finished
<1> QED BY <1>2, <1>3, <1>4, <1>5, <1>6 DEF PathInv

(* A local reply ends the handler, and Envoy delivers nothing more.        *)
LEMMA ReplyPathInv ==
  ASSUME TypeOK, NEW d \in Dir, localReply(d), Ordered(d)'
  PROVE  PathInv(d)'
<1>1. task'[d].pc = "idle" /\ at'[d] = "stopped"
  BY DEF localReply, Leave, NoTask, TypeOK
<1>2. Started(d)' /\ Progress(d)'
  BY <1>1 DEF Started, Progress, HeadersPcs, WholePcs
<1>3. Between(d)' /\ Complete(d)'
  BY <1>1 DEF Between, Complete
<1> QED BY <1>2, <1>3 DEF PathInv

(* So does the answer of a handler that Envoy no longer listens to.        *)
LEMMA UnheardPathInv ==
  ASSUME TypeOK, NEW d \in Dir, PathInv(d), task[d].pc # "idle", ~Live(d), Leave(d),
         UNCHANGED <<at, stage>>, Ordered(d)'
  PROVE  PathInv(d)'
<1>1. task'[d].pc = "idle" /\ at'[d] \notin {"none", "done"}
      /\ (stage' = "active" => at'[d] = "stopped")
  BY DEF Leave, NoTask, TypeOK, Live, PathInv, Between
<1>2. Started(d)' /\ Progress(d)'
  BY <1>1 DEF Started, Progress, HeadersPcs, WholePcs
<1>3. Between(d)' /\ Complete(d)'
  BY <1>1 DEF Between, Complete
<1> QED BY <1>2, <1>3 DEF PathInv

(* A handler that goes on keeps to what it was started for.                *)
Mode(pc) == IF pc \in HeadersPcs THEN "headers" ELSE IF pc \in WholePcs THEN "whole" ELSE pc
GoesOn(d, t) ==
  /\ task[d].pc # "idle" /\ Mode(t.pc) = Mode(task[d].pc)
  /\ t \in TaskType /\ Go(d, t) /\ t.meth = task[d].meth /\ t.es = task[d].es
  /\ UNCHANGED <<conf, stage, msg, chunks, reqBuf>> /\ skip'[Headers(d)] = skip[Headers(d)]
  /\ idx'[d] = idx[d] \/ task[d].pc \in WholePcs

(* It is still what it was started for.                                    *)
LEMMA GoesOnStarted ==
  ASSUME TypeOK, NEW d \in Dir, NEW t, GoesOn(d, t), Started(d)
  PROVE  /\ Started(d)' /\ task'[d] = t /\ t.pc # "idle"
         /\ hasBody(d)' = hasBody(d) /\ hasTrailers(d)' = hasTrailers(d)
<1>1. task'[d] = t /\ UNCHANGED <<at, forwarded>>
  BY DEF GoesOn, Go, TypeOK
<1>2. hasBody(d)' = hasBody(d) /\ hasTrailers(d)' = hasTrailers(d)
  BY <1>1 DEF GoesOn, hasBody, hasTrailers
<1>3. t.pc # "idle"
  BY DEF GoesOn, Mode, HeadersPcs, WholePcs
<1>4. /\ t.pc \in HeadersPcs <=> task[d].pc \in HeadersPcs
      /\ t.pc \in WholePcs <=> task[d].pc \in WholePcs
      /\ t.pc \in {"data", "trailers", "keep", "ignore"} => task[d].pc = t.pc
  BY DEF GoesOn, Mode, HeadersPcs, WholePcs
<1>5. Live(d)' = Live(d)
  BY <1>1 DEF GoesOn, Live
<1>6. Started(d)'
  <2>1. CASE t.pc \in HeadersPcs
    BY <1>1, <1>4, <1>5, <2>1 DEF Started, GoesOn, HeadersPcs, WholePcs
  <2>2. CASE t.pc \in WholePcs
    BY <1>1, <1>2, <1>4, <1>5, <2>2 DEF Started, GoesOn, HeadersPcs, WholePcs
  <2>3. CASE t.pc \notin HeadersPcs /\ t.pc \notin WholePcs
    BY <1>1, <1>4, <1>5, <2>3 DEF Started, GoesOn, HeadersPcs, WholePcs
  <2> QED BY <2>1, <2>2, <2>3
<1> QED BY <1>1, <1>2, <1>3, <1>6

(* It keeps the invariant if its progress and the order do.                *)
LEMMA GoesOnPathInv ==
  ASSUME TypeOK, NEW d \in Dir, NEW t, GoesOn(d, t), PathInv(d), Progress(d)', Ordered(d)'
  PROVE  PathInv(d)'
<1>1. Started(d)' /\ task'[d].pc # "idle" /\ UNCHANGED at
  BY GoesOnStarted DEF PathInv, GoesOn, Go
<1>2. at[d] \notin {"none", "done"}
  BY DEF GoesOn, PathInv, Between
<1>3. Between(d)' /\ Complete(d)'
  BY <1>1, <1>2 DEF Between, Complete
<1> QED BY <1>1, <1>3 DEF PathInv

(* The request headers have not left while a handler deals with them, or   *)
(* with the whole request.                                                 *)
LEMMA GoesOnPassed ==
  ASSUME TypeOK, NEW t, GoesOn("decode", t), NotYet, Passed,
         forwarded /\ task["decode"].pc \in {"data", "trailers"} => SeenHeaders(Path("decode"))'
  PROVE  NotYet' /\ Passed'
<1>1. task'["decode"] = t /\ UNCHANGED <<at, forwarded>>
  BY DEF GoesOn, Go, TypeOK, Dir
<1>2. /\ t.pc \notin {"idle", "data", "trailers"}
           => task["decode"].pc \notin {"idle", "data", "trailers"}
      /\ task["decode"].pc # "idle"
  BY DEF GoesOn, Mode, HeadersPcs, WholePcs
<1>3. NotYet'
  BY <1>1, <1>2 DEF NotYet
<1>4. Passed'
  BY <1>1, <1>2 DEF NotYet, Passed
<1> QED BY <1>3, <1>4

(* Nor do they leave with a local reply.                                   *)
LEMMA ReplyPassed ==
  ASSUME TypeOK, localReply("decode"), NotYet, Passed, task["decode"].pc # "idle",
         forwarded /\ task["decode"].pc \in {"data", "trailers"} => SeenHeaders(Path("decode"))'
  PROVE  NotYet' /\ Passed'
<1>1. task'["decode"].pc = "idle" /\ at'["decode"] = "stopped" /\ UNCHANGED forwarded
  BY DEF localReply, Leave, NoTask, TypeOK, Dir
<1> QED BY <1>1 DEF NotYet, Passed

(* Advance keeps what a handler was started for.                           *)
LEMMA AdvanceKeeps ==
  ASSUME TypeOK, NEW d \in Dir, NEW pc \in PCs, NEW cur \in Nat
  PROVE  /\ Advance(d, pc, cur) \in TaskType
         /\ Advance(d, pc, cur).pc = pc /\ Advance(d, pc, cur).cur = cur
         /\ Advance(d, pc, cur).seg = task[d].seg
         /\ Advance(d, pc, cur).meth = task[d].meth /\ Advance(d, pc, cur).es = task[d].es
<1>1. task[d] \in TaskType
  BY DEF TypeOK
<1> QED BY <1>1 DEF TaskType, Advance, PCs

-----------------------------------------------------------------------------
(* The steps of the handlers.                                              *)

(* What is shown of a step of direction d.                                 *)
Acted(d) ==
  /\ PathInv(d)' /\ ChainSound' /\ ~again'
  /\ \A e \in Dir : e # d => Path(e)' = Path(e)
  /\ d = "decode" => NotYet' /\ Passed'

(* A filter of the chain is given the headers in its turn.                 *)
LEMMA HeadersNextOrder ==
  ASSUME IInv, OrderInv, NEW d \in Dir, headersNext(d)
  PROVE  Acted(d)
<1> DEFINE v == Path(d)
           x == Path(d)'
           c == task[d].cur
           es == task[d].es
           q == IF es THEN c - 1 ELSE 0
<1>1. TypeOK /\ PathInv(d) /\ ChainSound /\ NotYet /\ Passed /\ ~again /\ Sorted(filters)
  BY DEF IInv, OrderInv, ChainSound
<1>2. /\ task[d].pc = "headers" /\ c \in 1 .. N /\ N \in Nat /\ ~needed[d] /\ es \in BOOLEAN
      /\ c \in Nat /\ q \in Nat /\ q < c /\ v.len = N
  <2>1. task[d].pc = "headers" /\ c <= N /\ c \in Nat /\ es \in BOOLEAN /\ N \in Nat
    BY <1>1 DEF headersNext, Now, TypeOK, TaskType, N
  <2>2. c \in 1 .. N + 1 /\ ~needed[d]
    BY <2>1 DEF IInv, Positions
  <2> QED BY <1>1, <2>1, <2>2, PathType
<1>3. /\ (msg[d].body => ~es) /\ task[d].meth = Headers(d)
      /\ idx[d] = 0 /\ (Live(d) => at[d] = "header") /\ msg[d].body \in BOOLEAN
  BY <1>1, <1>2 DEF PathInv, Started, HeadersPcs, TypeOK, Message
<1>4. SoFar(v, c - 1, q, 0, 0, 0)
  BY <1>1, <1>2 DEF PathInv, Progress
<1>5. /\ UNCHANGED <<conf, stage, msg, chunks, filters, skip, merged, reqBuf>>
      /\ task \in [Dir -> TaskType] /\ task[d] \in TaskType
  BY <1>1 DEF headersNext, HandlerFrame, chainVars, TypeOK
<1>6. PICK r \in Outcomes(At(d, c), Headers(d)) :
        /\ Call(At(d, c), Headers(d), r)
        /\ \/ r = "Local" /\ localReply(d)
           \/ /\ r # "Local" /\ r # "WaitAllData" /\ UNCHANGED idx
              /\ Go(d, Advance(d, "headers", c + 1))
           \/ r = "WaitAllData" /\ es /\ Go(d, Advance(d, "noBody", c)) /\ UNCHANGED idx
           \/ /\ r = "WaitAllData" /\ ~es /\ idx' = [idx EXCEPT ![d] = c]
              /\ Return(d, "StopAndBuffer")
  BY <1>2 DEF headersNext
<1> DEFINE w == r = "WaitAllData"
<1>7. w \in BOOLEAN /\ HeadersCall(v, x, c, w) /\ \A e \in Dir : e # d => Path(e)' = Path(e)
  BY <1>1, <1>2, <1>5, <1>6, CallPath, HooksDiffer
<1> HIDE DEF v, x, c, es, q, w
<1>8. IF w THEN SoFar(x, c, q, 0, 0, c) /\ c \in x.waits
      ELSE SoFar(x, c, q, 0, 0, 0) /\ SoFar(x, c, q, 0, 0, c)
  <2>1. c \in 1 .. v.len /\ v.len \in Nat /\ 0 < c /\ 0 \in Nat
    BY <1>2
  <2> QED BY <1>2, <1>4, <1>7, <2>1, HeadersSoFar
<1>9. x.len = N
  BY <1>2, <1>7 DEF HeadersCall, SamePlugins
<1>10. Ordered(d)'
  <2>1. SoFar(x, c, q, 0, 0, c) /\ q <= c /\ 0 <= c
    BY <1>2, <1>7, <1>8
  <2>2. msg[d].body => q <= 0 + 1
    BY <1>3 DEF q
  <2>3. PathInOrder(x, msg[d].body) /\ TrailersOrdered(x) /\ EitherKind(x)
    BY <1>2, <1>3, <1>9, <2>1, <2>2, SoFarOrdered
  <2> QED BY <1>5, <2>3 DEF Ordered, x
<1>11. ChainSound' /\ ~again'
  <2>1. c \notin v.headers
    BY <1>2, <1>4 DEF SoFar
  <2>2. c \notin Called(d, Headers(d))
    BY <1>1, <2>1, PathType DEF v
  <2> QED BY <1>1, <1>2, <1>5, <1>6, <2>2, CallChain, HooksDiffer DEF c
<1>12. d = "decode" => ~forwarded
  BY <1>1, <1>2 DEF NotYet
<1>13. PathInv(d)' /\ (d = "decode" => NotYet' /\ Passed')
  <2>1. CASE localReply(d)
    BY <1>1, <1>2, <1>10, <1>12, <2>1, ReplyPathInv, ReplyPassed
  <2>2. CASE ~w /\ UNCHANGED idx /\ Go(d, Advance(d, "headers", c + 1))
    <3> DEFINE t == Advance(d, "headers", c + 1)
    <3>1. /\ t \in TaskType /\ t.pc = "headers" /\ t.cur = c + 1 /\ t.es = es
          /\ t.meth = task[d].meth
      BY <1>1, <1>2, AdvanceKeeps DEF PCs, es
    <3>2. GoesOn(d, t)
      BY <1>2, <1>5, <2>2, <3>1 DEF GoesOn, es
    <3>3. task'[d] = t
      BY <1>1, <3>2, GoesOnStarted DEF PathInv
    <3>4. SoFar(x, c, IF es THEN c ELSE 0, 0, 0, 0)
      <4>1. SoFar(x, c, q, 0, 0, 0)
        BY <1>8, <2>2
      <4>2. \A k \in 1 .. x.len : k \in x.waits => k <= q
        BY <1>2, <1>9, <4>1 DEF SoFar
      <4> QED BY <1>2, <1>9, <4>1, <4>2, Renumbered DEF q
    <3>5. Progress(d)'
      <4>1. task'[d].cur - 1 = c
        BY <1>2, <3>1, <3>3
      <4> QED BY <3>1, <3>3, <3>4, <4>1 DEF Progress, x
    <3> HIDE DEF t
    <3> QED BY <1>1, <1>2, <1>10, <1>12, <3>2, <3>5, GoesOnPathInv, GoesOnPassed
  <2>3. CASE w /\ es /\ Go(d, Advance(d, "noBody", c)) /\ UNCHANGED idx
    <3> DEFINE t == Advance(d, "noBody", c)
    <3>1. /\ t \in TaskType /\ t.pc = "noBody" /\ t.cur = c /\ t.es = es
          /\ t.meth = task[d].meth
      BY <1>1, <1>2, AdvanceKeeps DEF PCs, es
    <3>2. GoesOn(d, t)
      BY <1>2, <1>5, <2>3, <3>1 DEF GoesOn, es, Mode, HeadersPcs
    <3>3. task'[d] = t
      BY <1>1, <3>2, GoesOnStarted DEF PathInv
    <3>4. Progress(d)'
      BY <1>8, <2>3, <3>1, <3>3 DEF Progress, x, q
    <3> HIDE DEF t
    <3> QED BY <1>1, <1>2, <1>10, <1>12, <3>2, <3>4, GoesOnPathInv, GoesOnPassed
  <2>4. CASE w /\ ~es /\ idx' = [idx EXCEPT ![d] = c] /\ Return(d, "StopAndBuffer")
    <3>1. Leave(d) /\ task'[d].pc = "idle" /\ idx'[d] = c
      BY <1>1, <2>4 DEF Return, Leave, NoTask, TypeOK
    <3>2. Waiting(d)'
      BY <1>8, <2>4, <3>1 DEF Waiting, x, q
    <3>3. CASE ~Live(d)
      <4>1. UNCHANGED <<at, forwarded, stage>>
        BY <1>5, <2>4, <3>3 DEF Return, Answer, Live
      <4>2. PathInv(d)'
        BY <1>1, <1>2, <1>10, <3>1, <3>3, <4>1, UnheardPathInv
      <4> QED BY <1>12, <4>1, <4>2 DEF NotYet, Passed
    <3>4. CASE Live(d)
      <4>1. at'[d] = "buffering" /\ (d = "decode" => forwarded' = forwarded)
        <5>1. task[d].meth # "DecodeData" /\ stage = "active" /\ at[d] # "stopped"
          BY <1>3, <3>4 DEF Headers, Live
        <5> QED BY <1>1, <1>2, <2>4, <5>1 DEF Return, Answer, AfterPhase, TypeOK
      <4>2. PathInv(d)'
        BY <1>10, <3>1, <3>2, <4>1
           DEF PathInv, Started, Progress, Between, Complete, HeadersPcs, WholePcs
      <4> QED BY <1>12, <4>1, <4>2 DEF NotYet, Passed
    <3> QED BY <3>3, <3>4
  <2> QED BY <1>6, <2>1, <2>2, <2>3, <2>4 DEF w
<1> QED BY <1>7, <1>10, <1>11, <1>13 DEF Acted

(* A filter that waits for a request or a response of headers alone has    *)
(* all of it at once.                                                      *)
LEMMA HeadersNoBodyOrder ==
  ASSUME IInv, OrderInv, NEW d \in Dir, headersNoBody(d)
  PROVE  Acted(d)
<1> DEFINE v == Path(d)
           x == Path(d)'
           c == task[d].cur
           es == task[d].es
           t == Advance(d, "headers", c + 1)
<1>1. TypeOK /\ PathInv(d) /\ ChainSound /\ NotYet /\ Passed /\ ~again /\ Sorted(filters)
  BY DEF IInv, OrderInv, ChainSound
<1>2. task[d].pc = "noBody" /\ c \in 1 .. N /\ N \in Nat /\ c \in Nat /\ c - 1 \in Nat /\ v.len = N
  <2>1. task[d].pc = "noBody" /\ N \in Nat
    BY <1>1 DEF headersNoBody, Now, TypeOK, N
  <2> QED BY <1>1, <2>1, PathType DEF IInv, Positions
<1>3. es /\ (msg[d].body => ~es) /\ msg[d].body \in BOOLEAN
  BY <1>1, <1>2 DEF PathInv, Progress, Started, HeadersPcs, TypeOK, Message
<1>4. c \in v.waits /\ SoFar(v, c, c - 1, 0, 0, c)
  BY <1>1, <1>2 DEF PathInv, Progress
<1>5. UNCHANGED <<conf, stage, msg, chunks, filters, skip, merged, reqBuf, idx>>
  BY <1>1 DEF headersNoBody, HandlerFrame, chainVars, progressVars
<1>6. PICK r \in Outcomes(At(d, c), Whole(d)) :
        Call(At(d, c), Whole(d), r) /\ (localReply(d) \/ Go(d, t))
  BY <1>2 DEF headersNoBody, Hook
<1>7. WholeCall(v, x, c) /\ \A e \in Dir : e # d => Path(e)' = Path(e)
  BY <1>1, <1>2, <1>5, <1>6, CallPath, HooksDiffer
<1>8. /\ t \in TaskType /\ t.pc = "headers" /\ t.cur = c + 1 /\ t.es = es
      /\ t.meth = task[d].meth
  BY <1>1, <1>2, AdvanceKeeps DEF PCs
<1> HIDE DEF v, x, c, es, t
<1>9. SoFar(x, c, c, 0, 0, 0) /\ c \notin v.whole
  <2>1. c \in v.hasWhole
    BY <1>1, <1>4, WaitersTakeWhole DEF v
  <2>2. c \in 1 .. v.len /\ v.len \in Nat /\ c - 1 < c /\ 0 \in Nat
    BY <1>2
  <2> QED BY <1>2, <1>4, <1>7, <2>1, <2>2, WholeSoFar
<1>10. Ordered(d)'
  <2>1. PathInOrder(x, msg[d].body) /\ TrailersOrdered(x) /\ EitherKind(x)
    <3>1. x.len = N
      BY <1>2, <1>7 DEF WholeCall, SamePlugins
    <3> QED BY <1>2, <1>3, <1>9, <3>1, SoFarOrdered
  <2> QED BY <1>5, <2>1 DEF Ordered, x
<1>11. ChainSound' /\ ~again'
  <2>1. c \notin Called(d, Whole(d))
    BY <1>1, <1>9, PathType DEF v
  <2> QED BY <1>1, <1>2, <1>5, <1>6, <2>1, CallChain, HooksDiffer DEF c
<1>12. d = "decode" => ~forwarded
  BY <1>1, <1>2 DEF NotYet
<1>13. PathInv(d)' /\ (d = "decode" => NotYet' /\ Passed')
  <2>1. CASE localReply(d)
    BY <1>1, <1>2, <1>10, <1>12, <2>1, ReplyPathInv, ReplyPassed
  <2>2. CASE Go(d, t)
    <3>1. GoesOn(d, t)
      BY <1>2, <1>5, <1>8, <2>2 DEF GoesOn, es, Mode, HeadersPcs
    <3>2. task'[d] = t
      BY <1>1, <3>1, GoesOnStarted DEF PathInv
    <3>3. Progress(d)'
      <4>1. task'[d].cur - 1 = c
        BY <1>2, <1>8, <3>2
      <4> QED BY <1>3, <1>8, <1>9, <3>2, <4>1 DEF Progress, x
    <3> QED BY <1>1, <1>2, <1>10, <1>12, <3>1, <3>3, GoesOnPathInv, GoesOnPassed
  <2> QED BY <1>6, <2>1, <2>2
<1> QED BY <1>7, <1>11, <1>13 DEF Acted

(* Calls of the data hooks, or of the trailers hooks, keep a message       *)
(* streamed.                                                               *)
LEMMA DataStreamed ==
  ASSUME NEW v, NEW x, v.len \in Nat, NEW skipped, NEW c \in 1 .. v.len,
         Streamed(v, skipped), NoTrailers(v), DataBefore(v, c), DataCall(v, x, c)
  PROVE  /\ Streamed(x, skipped) /\ NoTrailers(x) /\ DataBefore(x, c + 1)
         /\ SeenHeaders(v) => SeenHeaders(x)
BY DEF Streamed, NoTrailers, DataBefore, DataCall, SamePlugins, With, SeenHeaders

(* The next filter gets the trailers of a streamed message.                *)
LEMMA TrailersStreamed ==
  ASSUME NEW v, NEW x, v.len \in Nat, NEW skipped, NEW d \in Dir, NEW c \in 1 .. v.len,
         NEW k \in 1 .. v.len, NEW body,
         d = "decode" => k = c, d # "decode" => k = v.len + 1 - c,
         Streamed(v, skipped), SeenBody(v, body), TrailersBefore(d, v, c), TrailersCall(v, x, k)
  PROVE  /\ Streamed(x, skipped) /\ SeenBody(x, body) /\ TrailersBefore(d, x, c + 1)
         /\ k \notin v.trailers /\ (SeenHeaders(v) => SeenHeaders(x))
BY DEF Streamed, SeenBody, TrailersBefore, TrailersCall, SamePlugins, With, SeenHeaders

(* The request's trailers reach the filters in order.                      *)
LEMMA TrailersBeforeOrdered ==
  ASSUME NEW v, v.len \in Nat, NEW c \in Nat, TrailersBefore("decode", v, c)
  PROVE  TrailersOrdered(v)
BY DEF TrailersBefore, TrailersOrdered

(* A streamed message is in order, and has been seen by every filter       *)
(* unless its headers were lost.                                           *)
LEMMA StreamedPath ==
  ASSUME TypeOK, ChainSound, NEW d \in Dir, NEW body \in BOOLEAN, NEW x, x.len = N,
         x.hasHeaders = Path(d).hasHeaders, Streamed(x, skip[Headers(d)])
  PROVE  /\ EitherKind(x)
         /\ Lost(d) \/ (PathInOrder(x, body) /\ SeenHeaders(x))
<1>1. skip[Headers(d)] \in BOOLEAN /\ N \in Nat
  BY MethodTypes, PathType DEF TypeOK
<1>2. skip[Headers(d)] /\ ~Lost(d) => x.hasHeaders = {}
  BY SkippedHeaders
<1>3. EitherKind(x) /\ ((skip[Headers(d)] => x.hasHeaders = {}) => PathInOrder(x, body) /\ SeenHeaders(x))
  BY <1>1, StreamedOrdered
<1> QED BY <1>2, <1>3

(* A filter of the chain is given a part of a streamed body.               *)
LEMMA DataNextOrder ==
  ASSUME IInv, OrderInv, NEW d \in Dir, dataNext(d)
  PROVE  Acted(d)
<1> DEFINE v == Path(d)
           x == Path(d)'
           c == task[d].cur
           t == Advance(d, "data", c + 1)
           skipped == skip[Headers(d)]
<1>1. TypeOK /\ PathInv(d) /\ ChainSound /\ NotYet /\ Passed /\ ~again /\ Sorted(filters)
  BY DEF IInv, OrderInv, ChainSound
<1>2. task[d].pc = "data" /\ c \in 1 .. N /\ N \in Nat /\ c \in Nat /\ v.len = N
  <2>1. task[d].pc = "data" /\ N \in Nat /\ c <= N
    BY <1>1 DEF dataNext, Now, TypeOK, N
  <2> QED BY <1>1, <2>1, PathType DEF IInv, Positions
<1>3. msg[d].body \in BOOLEAN
  BY <1>1 DEF TypeOK, Message
<1>4. Streamed(v, skipped) /\ NoTrailers(v) /\ DataBefore(v, c)
  BY <1>1, <1>2 DEF PathInv, Progress
<1>5. UNCHANGED <<conf, stage, msg, chunks, filters, skip, merged, reqBuf, idx>>
  BY <1>1 DEF dataNext, HandlerFrame, chainVars, progressVars
<1>6. PICK r \in Outcomes(At(d, c), Data(d)) :
        Call(At(d, c), Data(d), r) /\ (localReply(d) \/ Go(d, t))
  BY <1>2 DEF dataNext, Hook
<1>7. DataCall(v, x, c) /\ \A e \in Dir : e # d => Path(e)' = Path(e)
  BY <1>1, <1>2, <1>5, <1>6, CallPath, HooksDiffer
<1>8. t \in TaskType /\ t.pc = "data" /\ t.cur = c + 1 /\ t.es = task[d].es /\ t.meth = task[d].meth
  BY <1>1, <1>2, AdvanceKeeps DEF PCs
<1> HIDE DEF v, x, c, t, skipped
<1>9. /\ Streamed(x, skipped) /\ NoTrailers(x) /\ DataBefore(x, c + 1)
      /\ SeenHeaders(v) => SeenHeaders(x)
  BY <1>2, <1>4, <1>7, DataStreamed
<1>10. Ordered(d)'
  <2>1. EitherKind(x) /\ (Lost(d) \/ PathInOrder(x, msg[d].body))
    <3>1. x.len = N /\ x.hasHeaders = Path(d).hasHeaders
      BY <1>2, <1>7 DEF DataCall, SamePlugins, v
    <3> QED BY <1>1, <1>3, <1>9, <3>1, StreamedPath DEF skipped
  <2>2. TrailersOrdered(x)
    BY <1>9 DEF NoTrailers, TrailersOrdered
  <2> QED BY <1>5, <2>1, <2>2, SameLost DEF Ordered, x
<1>11. ChainSound' /\ ~again'
  BY <1>1, <1>2, <1>5, <1>6, CallChain, HooksDiffer DEF c, Data
<1>12. d = "decode" /\ forwarded => SeenHeaders(Path(d))'
  BY <1>1, <1>9 DEF Passed, v, x
<1>13. PathInv(d)' /\ (d = "decode" => NotYet' /\ Passed')
  <2>1. CASE localReply(d)
    BY <1>1, <1>2, <1>10, <1>12, <2>1, ReplyPathInv, ReplyPassed
  <2>2. CASE Go(d, t)
    <3>1. GoesOn(d, t)
      BY <1>2, <1>5, <1>8, <2>2 DEF GoesOn, Mode
    <3>2. task'[d] = t
      BY <1>1, <3>1, GoesOnStarted DEF PathInv
    <3>3. Progress(d)'
      <4>1. task'[d].cur = c + 1 /\ skip'[Headers(d)] = skipped
        BY <1>5, <1>8, <3>2 DEF skipped
      <4> QED BY <1>8, <1>9, <3>2, <4>1 DEF Progress, x
    <3> QED BY <1>1, <1>2, <1>10, <1>12, <3>1, <3>3, GoesOnPathInv, GoesOnPassed
  <2> QED BY <1>6, <2>1, <2>2
<1> QED BY <1>7, <1>11, <1>13 DEF Acted

(* A filter of the chain is given the trailers of a streamed message.      *)
LEMMA TrailersNextOrder ==
  ASSUME IInv, OrderInv, NEW d \in Dir, trailersNext(d)
  PROVE  Acted(d)
<1> DEFINE v == Path(d)
           x == Path(d)'
           c == task[d].cur
           k == IF d = "decode" THEN c ELSE N + 1 - c
           t == Advance(d, "trailers", c + 1)
           skipped == skip[Headers(d)]
<1>1. TypeOK /\ PathInv(d) /\ ChainSound /\ NotYet /\ Passed /\ ~again /\ Sorted(filters)
  BY DEF IInv, OrderInv, ChainSound
<1>2. /\ task[d].pc = "trailers" /\ c \in 1 .. N /\ N \in Nat /\ c \in Nat /\ v.len = N
      /\ k \in 1 .. N /\ filters[c] = At(d, k)
  <2>1. task[d].pc = "trailers" /\ N \in Nat /\ c <= N
    BY <1>1 DEF trailersNext, Now, TypeOK, N
  <2>2. c \in 1 .. N
    BY <1>1, <2>1 DEF IInv, Positions
  <2>3. k \in 1 .. N
    BY <2>1, <2>2
  <2>4. filters[c] = At(d, k)
    BY <2>1, <2>2 DEF At
  <2> QED BY <1>1, <2>1, <2>2, <2>3, <2>4, PathType
<1>3. msg[d].body \in BOOLEAN
  BY <1>1 DEF TypeOK, Message
<1>4. Streamed(v, skipped) /\ SeenBody(v, msg[d].body) /\ TrailersBefore(d, v, c)
  BY <1>1, <1>2 DEF PathInv, Progress
<1>5. UNCHANGED <<conf, stage, msg, chunks, filters, skip, merged, reqBuf, idx>>
  BY <1>1 DEF trailersNext, HandlerFrame, chainVars, progressVars
<1>6. PICK r \in Outcomes(At(d, k), Trailers(d)) :
        Call(At(d, k), Trailers(d), r) /\ (localReply(d) \/ Go(d, t))
  BY <1>2 DEF trailersNext, Hook
<1>7. TrailersCall(v, x, k) /\ \A e \in Dir : e # d => Path(e)' = Path(e)
  <2> HIDE DEF k
  <2> QED BY <1>1, <1>2, <1>5, <1>6, CallPath, HooksDiffer
<1>8. /\ t \in TaskType /\ t.pc = "trailers" /\ t.cur = c + 1
      /\ t.es = task[d].es /\ t.meth = task[d].meth
  BY <1>1, <1>2, AdvanceKeeps DEF PCs
<1>9. /\ Streamed(x, skipped) /\ SeenBody(x, msg[d].body) /\ TrailersBefore(d, x, c + 1)
      /\ k \notin v.trailers /\ (SeenHeaders(v) => SeenHeaders(x))
  <2>1. /\ d = "decode" => k = c
        /\ d # "decode" => k = v.len + 1 - c
        /\ k \in 1 .. v.len /\ c \in 1 .. v.len /\ v.len \in Nat
    BY <1>2
  <2> HIDE DEF v, x, c, k, t, skipped
  <2> QED BY <1>4, <1>7, <2>1, TrailersStreamed
<1> HIDE DEF v, x, c, k, t, skipped
<1>10. Ordered(d)'
  <2>0. x.len = N /\ x.hasHeaders = Path(d).hasHeaders
    BY <1>2, <1>7 DEF TrailersCall, SamePlugins, v
  <2>1. EitherKind(x) /\ (Lost(d) \/ PathInOrder(x, msg[d].body))
    BY <1>1, <1>3, <1>9, <2>0, StreamedPath DEF skipped
  <2>2. d = "decode" => TrailersOrdered(x)
    BY <1>2, <1>9, <2>0, TrailersBeforeOrdered
  <2> QED BY <1>5, <2>1, <2>2, SameLost DEF Ordered, x
<1>11. ChainSound' /\ ~again'
  <2>1. k \notin Called(d, Trailers(d))
    BY <1>1, <1>9, PathType DEF v
  <2> QED BY <1>1, <1>2, <1>5, <1>6, <2>1, CallChain, HooksDiffer
<1>12. d = "decode" /\ forwarded => SeenHeaders(Path(d))'
  BY <1>1, <1>9 DEF Passed, v, x
<1>13. PathInv(d)' /\ (d = "decode" => NotYet' /\ Passed')
  <2>1. CASE localReply(d)
    BY <1>1, <1>2, <1>10, <1>12, <2>1, ReplyPathInv, ReplyPassed
  <2>2. CASE Go(d, t)
    <3>1. GoesOn(d, t)
      BY <1>2, <1>5, <1>8, <2>2 DEF GoesOn, Mode
    <3>2. task'[d] = t
      BY <1>1, <3>1, GoesOnStarted DEF PathInv
    <3>3. Progress(d)'
      <4>1. task'[d].cur = c + 1 /\ skip'[Headers(d)] = skipped /\ msg'[d] = msg[d]
        BY <1>5, <1>8, <3>2 DEF skipped
      <4> QED BY <1>8, <1>9, <3>2, <4>1 DEF Progress, x
    <3> QED BY <1>1, <1>2, <1>10, <1>12, <3>1, <3>3, GoesOnPathInv, GoesOnPassed
  <2> QED BY <1>6, <2>1, <2>2
<1> QED BY <1>7, <1>11, <1>13 DEF Acted

(* What has been seen when a handler has come to the end of the chain.     *)
LEMMA HeadersEnd ==
  ASSUME NEW v, v.len \in Nat, NEW q \in {0, v.len}, NEW skipped, SoFar(v, v.len, q, 0, 0, 0)
  PROVE  SeenHeaders(v) /\ (q = 0 => Streamed(v, skipped) /\ NoTrailers(v))
BY DEF SoFar, SeenHeaders, Streamed, NoTrailers

(* What has been seen at the end of the chain of a streamed message.       *)
LEMMA StreamEnd ==
  ASSUME NEW v, v.len \in Nat, NEW d
  PROVE  /\ DataBefore(v, v.len + 1) => \A body : SeenBody(v, body)
         /\ TrailersBefore(d, v, v.len + 1) => \A trailers : SeenTrailers(v, trailers)
BY DEF DataBefore, TrailersBefore, SeenBody, SeenTrailers

(* A handler that answers leaves, and knows no more of the stream than     *)
(* what Envoy is told.                                                     *)
LEMMA AnsweredPathInv ==
  ASSUME TypeOK, NEW d \in Dir, Leave(d), Ordered(d)', Between(d)', Complete(d)'
  PROVE  PathInv(d)'
<1>1. task'[d].pc = "idle"
  BY DEF Leave, NoTask, TypeOK
<1> QED BY <1>1 DEF PathInv, Started, Progress, HeadersPcs, WholePcs

(* The end of a handler.                                                   *)
LEMMA HandlerEndOrder ==
  ASSUME IInv, OrderInv, NEW d \in Dir, handlerEnd(d)
  PROVE  Acted(d)
<1> DEFINE v == Path(d)
           c == task[d].cur
           es == task[d].es
           skipped == skip[Headers(d)]
           status == IF Now(d, "headers") /\ d = "encode" /\ encodeWaitFirstData
                     THEN "StopAndBufferWatermark" ELSE "Continue"
<1>1. TypeOK /\ PathInv(d) /\ ChainSound /\ NotYet /\ Passed /\ ~again
  BY DEF IInv, OrderInv
<1>2. /\ UNCHANGED <<conf, stage, msg, chunks, filters, skip, merged, reqBuf, idx>>
      /\ UNCHANGED <<ran, waited, again>>
      /\ Answer(d, task[d].meth, es, status) /\ Leave(d) /\ task'[d].pc = "idle"
  BY <1>1 DEF handlerEnd, HandlerFrame, chainVars, progressVars, historyVars, Return, Leave,
              NoTask, TypeOK
<1>3. /\ \A e \in Dir : Path(e)' = Path(e)
      /\ ChainSound' /\ ~again' /\ Lost(d)' = Lost(d) /\ N' = N /\ v.len = N /\ N \in Nat
  BY <1>1, <1>2, SamePath, SameChain, SameLost, PathType
<1>4. Ordered(d)'
  BY <1>1, <1>2, <1>3 DEF PathInv, Ordered
<1>5. es \in BOOLEAN /\ msg[d].body \in BOOLEAN /\ msg[d].trailers \in BOOLEAN
  BY <1>1 DEF TypeOK, TaskType, Message
<1>6. task[d].pc # "idle"
  BY DEF handlerEnd, Now
<1>7. CASE ~Live(d)
  <2>1. UNCHANGED <<at, forwarded>>
    BY <1>2, <1>7 DEF Answer, Live
  <2>2. PathInv(d)'
    BY <1>1, <1>2, <1>4, <1>6, <1>7, <2>1, UnheardPathInv
  <2>3. d = "decode" => NotYet' /\ Passed'
    BY <1>1, <1>2, <1>3, <2>1 DEF NotYet, Passed
  <2> QED BY <1>3, <2>2, <2>3 DEF Acted
<1>8. CASE Live(d)
  <2>1. /\ at'[d] = AfterPhase(d, task[d].meth, es, status)
        /\ stage' = "active" /\ at[d] # "stopped"
        /\ d = "encode" => UNCHANGED forwarded
    BY <1>1, <1>2, <1>8 DEF Answer, Live, TypeOK, Dir
  <2>2. CASE task[d].pc = "headers"
    <3> DEFINE q == IF es THEN N ELSE 0
    <3>1. /\ SoFar(v, N, q, 0, 0, 0) /\ at[d] = "header" /\ chunks[d] = 0 /\ idx[d] = 0
          /\ es => ~msg[d].body /\ ~msg[d].trailers
      <4>1. c = N + 1
        BY <1>1, <1>3, <2>2 DEF handlerEnd, IInv, Positions, Now
      <4>2. c - 1 = N
        BY <1>3, <4>1
      <4> QED BY <1>1, <1>8, <2>2, <4>2 DEF PathInv, Progress, Started, HeadersPcs
    <3>2. SeenHeaders(v) /\ (~es => Streamed(v, skipped) /\ NoTrailers(v))
      <4>1. q \in {0, v.len} /\ (~es => q = 0)
        BY <1>3
      <4> HIDE DEF q
      <4> QED BY <1>3, <3>1, <4>1, HeadersEnd
    <3>3. at'[d] \in {"data", "held", "done"} /\ (at'[d] = "data" => ~es)
          /\ (at'[d] = "done" => es)
      BY <2>1, <3>1 DEF AfterPhase
    <3>4. Between(d)'
      BY <1>2, <1>3, <3>1, <3>2, <3>3 DEF Between
    <3>5. Complete(d)'
      BY <1>2, <1>3, <3>1, <3>2, <3>3 DEF Complete, Finished, SeenBody, SeenTrailers
    <3>6. d = "decode" => NotYet' /\ Passed'
      BY <1>2, <1>3, <3>2, <3>3 DEF NotYet, Passed
    <3> QED BY <1>1, <1>2, <1>3, <1>4, <3>4, <3>5, <3>6, AnsweredPathInv DEF Acted
  <2>3. CASE task[d].pc = "data"
    <3>1. c = N + 1 /\ status = "Continue"
      BY <1>1, <1>3, <2>3 DEF handlerEnd, IInv, Positions, Now
    <3>2. /\ Streamed(v, skipped) /\ NoTrailers(v) /\ DataBefore(v, N + 1)
          /\ at[d] = "data" /\ idx[d] = 0 /\ (es => ~msg[d].trailers)
      BY <1>1, <1>8, <2>3, <3>1 DEF PathInv, Progress, Started
    <3>3. (Lost(d) \/ SeenHeaders(v)) /\ SeenBody(v, msg[d].body)
      BY <1>1, <1>3, <1>5, <3>2, StreamedPath, StreamEnd
    <3>4. at'[d] \in {"data", "done"} /\ (at'[d] = "done" => es)
      BY <1>5, <2>1, <3>1, <3>2 DEF AfterPhase
    <3>5. Between(d)'
      BY <1>2, <1>3, <3>2, <3>4 DEF Between
    <3>6. Complete(d)'
      BY <1>2, <1>3, <3>2, <3>3, <3>4 DEF Complete, Finished, SeenTrailers
    <3>7. d = "decode" => NotYet' /\ Passed'
      BY <1>2, <1>3, <3>3, <3>4 DEF NotYet, Passed, Lost
    <3> QED BY <1>1, <1>2, <1>3, <1>4, <3>5, <3>6, <3>7, AnsweredPathInv DEF Acted
  <2>4. CASE task[d].pc = "trailers"
    <3>1. c = N + 1 /\ status = "Continue"
      BY <1>1, <1>3, <2>4 DEF handlerEnd, IInv, Positions, Now
    <3>2. /\ Streamed(v, skipped) /\ SeenBody(v, msg[d].body) /\ TrailersBefore(d, v, N + 1)
          /\ at[d] = "data" /\ idx[d] = 0 /\ es
      BY <1>1, <1>8, <2>4, <3>1 DEF PathInv, Progress, Started
    <3>3. (Lost(d) \/ SeenHeaders(v)) /\ SeenTrailers(v, msg[d].trailers)
      BY <1>1, <1>3, <1>5, <3>2, StreamedPath, StreamEnd
    <3>4. at'[d] = "done"
      BY <2>1, <3>1, <3>2 DEF AfterPhase
    <3>5. Between(d)'
      BY <1>2, <1>3, <3>2, <3>4 DEF Between
    <3>6. Complete(d)'
      BY <1>2, <1>3, <3>2, <3>3, <3>4 DEF Complete, Finished
    <3>7. d = "decode" => NotYet' /\ Passed'
      BY <1>2, <1>3, <3>3, <3>4 DEF NotYet, Passed, Lost
    <3> QED BY <1>1, <1>2, <1>3, <1>4, <3>5, <3>6, <3>7, AnsweredPathInv DEF Acted
  <2>5. CASE task[d].pc = "ignore"
    <3>1. /\ d = "encode" /\ es /\ idx[d] # 0 /\ (msg[d].body => Finished(d))
          /\ status = "Continue"
      BY <1>1, <2>5 DEF PathInv, Progress, Started, Now
    <3>2. at'[d] = "done"
      BY <2>1, <3>1 DEF AfterPhase
    <3>3. Between(d)'
      BY <1>2, <3>2 DEF Between
    <3>4. Complete(d)'
      BY <1>2, <1>3, <3>1, <3>2 DEF Complete, Finished
    <3> QED BY <1>1, <1>2, <1>3, <1>4, <3>1, <3>3, <3>4, AnsweredPathInv DEF Acted
  <2> QED BY <2>2, <2>3, <2>4, <2>5 DEF handlerEnd, Now
<1> QED BY <1>7, <1>8

(* What holds of a handler that deals with the whole message.              *)
LEMMA WholeFacts ==
  ASSUME IInv, OrderInv, NEW d \in Dir, task[d].pc \in WholePcs
  PROVE  /\ TypeOK /\ PathInv(d) /\ ChainSound /\ NotYet /\ Passed /\ ~again /\ Sorted(filters)
         /\ task[d].pc # "idle" /\ (d = "decode" => ~forwarded)
         /\ hasBody(d) \in BOOLEAN /\ hasTrailers(d) \in BOOLEAN /\ task[d].es \in BOOLEAN
         /\ msg[d].body \in BOOLEAN /\ (msg[d].body => hasBody(d)) /\ msg[d].trailers \in BOOLEAN
         /\ d = "decode" => task[d].es /\ (msg[d].trailers => hasTrailers(d))
         /\ Path(d).len = N /\ N \in Nat /\ idx[d] \in 0 .. N /\ idx[d] \in Nat
         /\ task[d].cur \in Nat /\ task[d].seg \in Nat
<1>1. TypeOK /\ PathInv(d) /\ ChainSound /\ NotYet /\ Passed /\ ~again /\ Sorted(filters)
  BY DEF IInv, OrderInv, ChainSound
<1>2. task[d].pc # "idle" /\ (d = "decode" => ~forwarded)
  BY <1>1 DEF NotYet, WholePcs
<1>3. /\ msg[d].body => hasBody(d)
      /\ d = "decode" => task[d].es /\ (msg[d].trailers => hasTrailers(d))
  BY <1>1 DEF PathInv, Started
<1>4. /\ hasBody(d) \in BOOLEAN /\ hasTrailers(d) \in BOOLEAN
  BY <1>1 DEF hasBody, hasTrailers, TypeOK
<1>5. /\ task[d].es \in BOOLEAN /\ msg[d].body \in BOOLEAN /\ msg[d].trailers \in BOOLEAN
      /\ task[d].cur \in Nat /\ task[d].seg \in Nat /\ idx[d] \in Nat
  BY <1>1 DEF TypeOK, TaskType, Message
<1>6. Path(d).len = N /\ N \in Nat /\ idx[d] \in 0 .. N
  BY <1>1, PathType DEF IInv, Positions
<1> QED BY <1>1, <1>2, <1>3, <1>4, <1>5, <1>6

(* The filters before the one that waits are given the body.               *)
LEMMA WholeDataOrder ==
  ASSUME IInv, OrderInv, NEW d \in Dir, wholeData(d)
  PROVE  Acted(d)
<1> DEFINE v == Path(d)
           x == Path(d)'
           c == task[d].cur
           s == task[d].seg
           q == IF s = idx[d] THEN 0 ELSE idx[d]
           u == IF hasTrailers(d) THEN q ELSE 0
           t1 == Advance(d, "wholeData", c + 1)
           t2 == Advance(d, "wholeTrailers", SegmentStart(d))
<1>1. task[d].pc = "wholeData" /\ task[d].pc \in WholePcs
  BY DEF wholeData, Now, WholePcs
<1>2. /\ TypeOK /\ PathInv(d) /\ ChainSound /\ NotYet /\ Passed /\ ~again /\ Sorted(filters)
      /\ task[d].pc # "idle" /\ (d = "decode" => ~forwarded)
      /\ hasBody(d) \in BOOLEAN /\ hasTrailers(d) \in BOOLEAN
      /\ msg[d].body \in BOOLEAN /\ (msg[d].body => hasBody(d))
      /\ v.len = N /\ N \in Nat /\ idx[d] \in Nat /\ c \in Nat /\ s \in Nat
  BY <1>1, WholeFacts
<1>3. s <= N + 1 /\ q \in Nat /\ u \in Nat /\ u <= q
  BY <1>1, <1>2 DEF IInv, Positions
<1>4. /\ q < c /\ c <= s /\ Segment(d)
      /\ SoFar(v, s, q, IF hasBody(d) THEN c - 1 ELSE 0, u, s)
  BY <1>1, <1>2 DEF PathInv, Progress
<1>5. UNCHANGED <<conf, stage, msg, chunks, filters, skip, merged, reqBuf, idx, needed>>
  BY DEF wholeData, HandlerFrame, chainVars, progressVars
<1>6. \/ /\ hasBody(d) /\ c < s
         /\ Hook(d, At(d, c), Data(d), t1)
      \/ /\ ~hasBody(d) \/ ~(c < s)
         /\ Go(d, t2) /\ UNCHANGED historyVars
  BY <1>2 DEF wholeData
<1>7. SegmentStart(d) = q + 1
  BY <1>2 DEF SegmentStart
<1>8. /\ t1 \in TaskType /\ t1.pc = "wholeData" /\ t1.cur = c + 1 /\ t1.seg = s
      /\ t1.es = task[d].es /\ t1.meth = task[d].meth
      /\ t2 \in TaskType /\ t2.pc = "wholeTrailers" /\ t2.cur = q + 1 /\ t2.seg = s
      /\ t2.es = task[d].es /\ t2.meth = task[d].meth
  BY <1>2, <1>3, <1>7, AdvanceKeeps DEF PCs
<1>9. /\ Go(d, t1) => GoesOn(d, t1)
      /\ Go(d, t2) => GoesOn(d, t2)
  <2> HIDE DEF t1, t2
  <2> QED BY <1>1, <1>2, <1>5, <1>8 DEF GoesOn, Mode, HeadersPcs, WholePcs
<1> HIDE DEF v, x, c, s, t1, t2, u
<1>10. CASE hasBody(d) /\ c < s /\ Hook(d, At(d, c), Data(d), t1)
  <2>1. c \in 1 .. N
    BY <1>2, <1>3, <1>4, <1>10
  <2>2. PICK r \in Outcomes(At(d, c), Data(d)) :
          Call(At(d, c), Data(d), r) /\ (localReply(d) \/ Go(d, t1))
    BY <1>10 DEF Hook
  <2>3. DataCall(v, x, c) /\ \A e \in Dir : e # d => Path(e)' = Path(e)
    BY <1>2, <1>5, <2>1, <2>2, CallPath, HooksDiffer DEF v, x
  <2>4. SoFar(x, s, q, c, u, s) /\ x.len = N /\ x.waits = v.waits
    <3>1. SoFar(v, s, q, c - 1, u, s) /\ c \in 1 .. v.len
      BY <1>2, <1>4, <1>10, <2>1
    <3>2. x.len = N /\ x.waits = v.waits
      BY <1>2, <2>3 DEF DataCall, SamePlugins
    <3> HIDE DEF q
    <3> QED BY <1>2, <1>3, <1>4, <1>10, <2>3, <3>1, <3>2, DataSoFar
  <2>5. Ordered(d)'
    <3>1. q <= s /\ c <= s /\ u <= s /\ s >= s /\ q <= c + 1
      <4> HIDE DEF q
      <4> QED BY <1>2, <1>3, <1>4
    <3>2. PathInOrder(x, msg[d].body) /\ TrailersOrdered(x) /\ EitherKind(x)
      <4> HIDE DEF q
      <4> QED BY <1>2, <1>3, <2>4, <3>1, SoFarOrdered
    <3> QED BY <1>5, <3>2 DEF Ordered, x
  <2>6. ChainSound' /\ ~again'
    BY <1>2, <1>5, <2>1, <2>2, CallChain, HooksDiffer DEF Data
  <2>7. CASE localReply(d)
    <3>1. PathInv(d)'
      BY <1>2, <2>5, <2>7, ReplyPathInv
    <3>2. d = "decode" => NotYet' /\ Passed'
      BY <1>2, <2>7, ReplyPassed
    <3> QED BY <2>3, <2>6, <3>1, <3>2 DEF Acted
  <2>8. CASE Go(d, t1)
    <3>1. /\ task'[d] = t1 /\ hasBody(d)' = hasBody(d) /\ hasTrailers(d)' = hasTrailers(d)
          /\ idx'[d] = idx[d] /\ needed'[d] = needed[d] /\ N' = N
      BY <1>2, <1>5, <1>9, <2>8, GoesOnStarted DEF PathInv, N
    <3>2. Segment(d)'
      BY <1>4, <1>8, <2>4, <3>1 DEF Segment, v, x, s
    <3>3. Progress(d)'
      <4>1. t1.cur - 1 = c /\ q < t1.cur /\ t1.cur <= s
        BY <1>2, <1>3, <1>4, <1>8, <1>10
      <4>2. SoFar(x, s, q, IF hasBody(d) THEN t1.cur - 1 ELSE 0, u, s)
        BY <1>10, <2>4, <4>1
      <4> QED BY <1>8, <3>1, <3>2, <4>1, <4>2 DEF Progress, x, u
    <3>4. PathInv(d)'
      BY <1>2, <1>9, <2>5, <2>8, <3>3, GoesOnPathInv
    <3>5. d = "decode" => NotYet' /\ Passed'
      BY <1>2, <1>9, <2>8, GoesOnPassed
    <3> QED BY <2>3, <2>6, <3>4, <3>5 DEF Acted
  <2> QED BY <2>2, <2>7, <2>8
<1>11. CASE (~hasBody(d) \/ ~(c < s)) /\ Go(d, t2) /\ UNCHANGED historyVars
  <2>1. /\ \A e \in Dir : Path(e)' = Path(e)
        /\ ChainSound' /\ ~again' /\ Lost(d)' = Lost(d) /\ N' = N /\ x = v
    BY <1>2, <1>5, <1>11, SamePath, SameChain, SameLost DEF historyVars, v, x
  <2>2. Ordered(d)'
    BY <1>2, <1>5, <2>1 DEF PathInv, Ordered
  <2>3. /\ task'[d] = t2 /\ hasBody(d)' = hasBody(d) /\ hasTrailers(d)' = hasTrailers(d)
        /\ idx'[d] = idx[d] /\ needed'[d] = needed[d]
    BY <1>2, <1>5, <1>9, <1>11, GoesOnStarted DEF PathInv
  <2>4. Segment(d)'
    BY <1>4, <1>8, <2>1, <2>3 DEF Segment, v, x, s
  <2>5. Progress(d)'
    <3>1. t2.cur - 1 = q /\ q < t2.cur /\ t2.cur <= s
      <4> HIDE DEF q
      <4> QED BY <1>2, <1>3, <1>4, <1>8
    <3>2. SoFar(x, s, q, IF hasBody(d) THEN s - 1 ELSE 0, u, s)
      <4>1. hasBody(d) => c = s
        BY <1>2, <1>4, <1>11
      <4> QED BY <1>4, <2>1, <4>1
    <3> QED BY <1>8, <2>3, <2>4, <3>1, <3>2 DEF Progress, x, u
  <2>6. PathInv(d)'
    BY <1>2, <1>9, <1>11, <2>2, <2>5, GoesOnPathInv
  <2>7. d = "decode" => NotYet' /\ Passed'
    BY <1>2, <1>9, <1>11, GoesOnPassed
  <2> QED BY <2>1, <2>6, <2>7 DEF Acted
<1> QED BY <1>6, <1>10, <1>11

(* At the end of the chain a message processed as a whole has been seen.   *)
LEMMA WholeEnd ==
  ASSUME NEW v, v.len \in Nat, NEW q \in Nat, NEW b, NEW u, q <= v.len,
         NEW body \in BOOLEAN, NEW trailers \in BOOLEAN,
         SoFar(v, v.len + 1, q, b, u, v.len + 1)
  PROVE  /\ SeenHeaders(v)
         /\ (body => b = v.len) => SeenBody(v, body)
         /\ (trailers => u = v.len) => SeenTrailers(v, trailers)
BY DEF SoFar, SeenHeaders, SeenBody, SeenTrailers

(* The trailers follow, and then the whole message or the answer.          *)
LEMMA WholeTrailersOrder ==
  ASSUME IInv, OrderInv, NEW d \in Dir, wholeTrailers(d)
  PROVE  Acted(d)
<1> DEFINE v == Path(d)
           x == Path(d)'
           c == task[d].cur
           s == task[d].seg
           q == IF s = idx[d] THEN 0 ELSE idx[d]
           b == IF hasBody(d) THEN s - 1 ELSE 0
           t1 == Advance(d, "wholeTrailers", c + 1)
           t2 == Advance(d, "whole", s)
<1>1. task[d].pc = "wholeTrailers" /\ task[d].pc \in WholePcs
  BY DEF wholeTrailers, Now, WholePcs
<1>2. /\ TypeOK /\ PathInv(d) /\ ChainSound /\ NotYet /\ Passed /\ ~again /\ Sorted(filters)
      /\ task[d].pc # "idle" /\ (d = "decode" => ~forwarded)
      /\ hasBody(d) \in BOOLEAN /\ hasTrailers(d) \in BOOLEAN /\ task[d].es \in BOOLEAN
      /\ msg[d].body \in BOOLEAN /\ (msg[d].body => hasBody(d)) /\ msg[d].trailers \in BOOLEAN
      /\ d = "decode" => task[d].es /\ (msg[d].trailers => hasTrailers(d))
      /\ v.len = N /\ N \in Nat /\ idx[d] \in Nat /\ c \in Nat /\ s \in Nat /\ idx[d] <= N
  BY <1>1, WholeFacts
<1>3. s <= N + 1 /\ q \in Nat /\ idx[d] # 0 /\ (needed[d] => s <= N) /\ q <= N
  BY <1>1, <1>2 DEF IInv, Positions
<1>4. /\ q < c /\ c <= s /\ Segment(d)
      /\ SoFar(v, s, q, b, IF hasTrailers(d) THEN c - 1 ELSE 0, s)
  BY <1>1, <1>2 DEF PathInv, Progress
<1>5. UNCHANGED <<conf, stage, msg, chunks, filters, skip, merged, reqBuf, idx, needed>>
  BY DEF wholeTrailers, HandlerFrame, chainVars, progressVars
<1>6. \/ /\ hasTrailers(d) /\ c < s
         /\ Hook(d, At(d, c), Trailers(d), t1)
      \/ /\ ~hasTrailers(d) \/ ~(c < s)
         /\ UNCHANGED historyVars
         /\ \/ RequestDue(d) /\ Go(d, t2)
            \/ ~RequestDue(d) /\ Return(d, "Continue")
  BY <1>2 DEF wholeTrailers
<1>7. b \in Nat /\ b <= s /\ (msg[d].body => q <= b + 1)
  <2>1. s - 1 \in Nat /\ s - 1 <= s /\ q <= (s - 1) + 1
    <3> HIDE DEF q
    <3> QED BY <1>2, <1>3, <1>4
  <2> HIDE DEF q
  <2> QED BY <1>2, <1>3, <2>1
<1>8. /\ t1 \in TaskType /\ t1.pc = "wholeTrailers" /\ t1.cur = c + 1 /\ t1.seg = s
      /\ t1.es = task[d].es /\ t1.meth = task[d].meth
      /\ t2 \in TaskType /\ t2.pc = "whole" /\ t2.seg = s
      /\ t2.es = task[d].es /\ t2.meth = task[d].meth
  BY <1>2, AdvanceKeeps DEF PCs
<1>9. /\ Go(d, t1) => GoesOn(d, t1)
      /\ Go(d, t2) => GoesOn(d, t2)
  <2> HIDE DEF t1, t2
  <2> QED BY <1>1, <1>2, <1>5, <1>8 DEF GoesOn, Mode, HeadersPcs, WholePcs
<1> HIDE DEF v, x, c, s, t1, t2, b
<1>10. CASE hasTrailers(d) /\ c < s /\ Hook(d, At(d, c), Trailers(d), t1)
  <2>1. c \in 1 .. N
    BY <1>2, <1>3, <1>4, <1>10
  <2>2. PICK r \in Outcomes(At(d, c), Trailers(d)) :
          Call(At(d, c), Trailers(d), r) /\ (localReply(d) \/ Go(d, t1))
    BY <1>10 DEF Hook
  <2>3. TrailersCall(v, x, c) /\ \A e \in Dir : e # d => Path(e)' = Path(e)
    BY <1>2, <1>5, <2>1, <2>2, CallPath, HooksDiffer DEF v, x
  <2>4. SoFar(x, s, q, b, c, s) /\ x.len = N /\ x.waits = v.waits /\ c \notin v.trailers
    <3>1. SoFar(v, s, q, b, c - 1, s) /\ c \in 1 .. v.len
      BY <1>2, <1>4, <1>10, <2>1
    <3>2. x.len = N /\ x.waits = v.waits
      BY <1>2, <2>3 DEF TrailersCall, SamePlugins
    <3> HIDE DEF q
    <3> QED BY <1>2, <1>3, <1>4, <1>7, <1>10, <2>3, <3>1, <3>2, TrailersSoFar
  <2>5. Ordered(d)'
    <3>1. q <= s /\ c <= s /\ s >= s
      <4> HIDE DEF q
      <4> QED BY <1>2, <1>3, <1>4
    <3>2. PathInOrder(x, msg[d].body) /\ TrailersOrdered(x) /\ EitherKind(x)
      <4> HIDE DEF q
      <4> QED BY <1>2, <1>3, <1>7, <2>4, <3>1, SoFarOrdered
    <3> QED BY <1>5, <3>2 DEF Ordered, x
  <2>6. ChainSound' /\ ~again'
    <3>1. c \notin Called(d, Trailers(d))
      BY <1>2, <2>4, PathType DEF v
    <3> QED BY <1>2, <1>5, <2>1, <2>2, <3>1, CallChain, HooksDiffer
  <2>7. CASE localReply(d)
    <3>1. PathInv(d)'
      BY <1>2, <2>5, <2>7, ReplyPathInv
    <3>2. d = "decode" => NotYet' /\ Passed'
      BY <1>2, <2>7, ReplyPassed
    <3> QED BY <2>3, <2>6, <3>1, <3>2 DEF Acted
  <2>8. CASE Go(d, t1)
    <3>1. /\ task'[d] = t1 /\ hasBody(d)' = hasBody(d) /\ hasTrailers(d)' = hasTrailers(d)
          /\ idx'[d] = idx[d] /\ needed'[d] = needed[d] /\ N' = N
      BY <1>2, <1>5, <1>9, <2>8, GoesOnStarted DEF PathInv, N
    <3>2. Segment(d)'
      BY <1>4, <1>8, <2>4, <3>1 DEF Segment, v, x, s
    <3>3. Progress(d)'
      <4>1. t1.cur - 1 = c /\ q < t1.cur /\ t1.cur <= s
        BY <1>2, <1>3, <1>4, <1>8, <1>10
      <4>2. SoFar(x, s, q, b, IF hasTrailers(d) THEN t1.cur - 1 ELSE 0, s)
        BY <1>10, <2>4, <4>1
      <4> QED BY <1>8, <3>1, <3>2, <4>1, <4>2 DEF Progress, x, b
    <3>4. PathInv(d)'
      BY <1>2, <1>9, <2>5, <2>8, <3>3, GoesOnPathInv
    <3>5. d = "decode" => NotYet' /\ Passed'
      BY <1>2, <1>9, <2>8, GoesOnPassed
    <3> QED BY <2>3, <2>6, <3>4, <3>5 DEF Acted
  <2> QED BY <2>2, <2>7, <2>8
<1>11. ASSUME ~hasTrailers(d) \/ ~(c < s), UNCHANGED historyVars
       PROVE  /\ \A e \in Dir : Path(e)' = Path(e)
              /\ ChainSound' /\ ~again' /\ Lost(d)' = Lost(d) /\ N' = N /\ x = v
              /\ Ordered(d)' /\ (hasTrailers(d) => c = s)
  <2>1. /\ \A e \in Dir : Path(e)' = Path(e)
        /\ ChainSound' /\ ~again' /\ Lost(d)' = Lost(d) /\ N' = N /\ x = v
    BY <1>2, <1>5, <1>11, SamePath, SameChain, SameLost DEF historyVars, v, x
  <2>2. Ordered(d)'
    BY <1>2, <1>5, <2>1 DEF PathInv, Ordered
  <2> QED BY <1>2, <1>4, <1>11, <2>1, <2>2
<1>12. CASE (~hasTrailers(d) \/ ~(c < s)) /\ UNCHANGED historyVars /\ RequestDue(d) /\ Go(d, t2)
  <2>1. /\ task'[d] = t2 /\ hasBody(d)' = hasBody(d) /\ hasTrailers(d)' = hasTrailers(d)
        /\ idx'[d] = idx[d]
    BY <1>2, <1>5, <1>9, <1>12, GoesOnStarted DEF PathInv
  <2>2. s \in v.waits /\ q < s
    <3>1. s <= N
      BY <1>2, <1>3, <1>12 DEF RequestDue, s
    <3>2. s \in v.waits
      BY <1>4, <3>1 DEF Segment, v, s
    <3> HIDE DEF q
    <3> QED BY <1>2, <1>3, <1>4, <3>2
  <2>3. Progress(d)'
    <3>1. SoFar(x, s, q, b, IF hasTrailers(d) THEN s - 1 ELSE 0, s)
      BY <1>4, <1>11, <1>12
    <3> QED BY <1>8, <1>11, <1>12, <2>1, <2>2, <3>1 DEF Progress, x, b
  <2>4. PathInv(d)'
    BY <1>2, <1>9, <1>11, <1>12, <2>3, GoesOnPathInv
  <2>5. d = "decode" => NotYet' /\ Passed'
    BY <1>2, <1>9, <1>12, GoesOnPassed
  <2> QED BY <1>11, <1>12, <2>4, <2>5 DEF Acted
<1>13. CASE /\ ~hasTrailers(d) \/ ~(c < s)
            /\ UNCHANGED historyVars /\ ~RequestDue(d) /\ Return(d, "Continue")
  <2>1. s = N + 1
    BY <1>2, <1>3, <1>4, <1>13 DEF RequestDue, Segment, s
  <2>2. /\ SeenHeaders(v) /\ SeenBody(v, msg[d].body)
        /\ d = "decode" => SeenTrailers(v, msg[d].trailers)
    <3> DEFINE u == IF hasTrailers(d) THEN N ELSE 0
    <3>1. SoFar(v, v.len + 1, q, b, u, v.len + 1)
      BY <1>2, <1>4, <1>11, <1>13, <2>1
    <3>2. msg[d].body => b = v.len
      BY <1>2, <2>1 DEF b
    <3>3. d = "decode" => (msg[d].trailers => u = v.len)
      BY <1>2
    <3>4. v.len \in Nat /\ q <= v.len
      BY <1>2, <1>3
    <3> HIDE DEF q, u
    <3> QED BY <1>2, <1>3, <3>1, <3>2, <3>3, <3>4, WholeEnd
  <2>3. Leave(d) /\ Answer(d, task[d].meth, task[d].es, "Continue") /\ task'[d].pc = "idle"
    BY <1>2, <1>13 DEF Return, Leave, NoTask, TypeOK
  <2>4. CASE ~Live(d)
    <3>1. UNCHANGED <<at, forwarded>>
      BY <2>3, <2>4 DEF Answer, Live
    <3>2. PathInv(d)'
      BY <1>2, <1>5, <1>11, <1>13, <2>3, <2>4, <3>1, UnheardPathInv
    <3>3. d = "decode" => NotYet' /\ Passed'
      BY <1>2, <3>1 DEF NotYet, Passed
    <3> QED BY <1>11, <1>13, <3>2, <3>3 DEF Acted
  <2>5. CASE Live(d)
    <3>1. /\ at'[d] = AfterPhase(d, task[d].meth, task[d].es, "Continue")
          /\ at[d] = "buffering" \/ d = "decode"
      BY <1>1, <1>2, <2>3, <2>5 DEF Answer, Live, TypeOK, PathInv, Started
    <3>2. at'[d] = "done" \/ (at'[d] = "trailers" /\ d # "decode")
      BY <1>2, <3>1 DEF AfterPhase
    <3>3. Finished(d)'
      BY <1>5, <1>11, <1>13, <2>2 DEF Finished, v, x
    <3>4. Between(d)'
      BY <1>3, <1>5, <2>3, <3>2, <3>3 DEF Between
    <3>5. Complete(d)'
      BY <1>3, <1>5, <1>11, <1>13, <2>2, <3>2, <3>3 DEF Complete, v, x, Dir
    <3>6. d = "decode" => NotYet' /\ Passed'
      BY <1>11, <1>13, <2>2, <2>3, <3>2 DEF NotYet, Passed, v, x
    <3> QED BY <1>2, <1>11, <1>13, <2>3, <3>4, <3>5, <3>6, AnsweredPathInv DEF Acted
  <2> QED BY <2>4, <2>5
<1> QED BY <1>6, <1>10, <1>12, <1>13

(* The filter that waits is given the whole message.                       *)
LEMMA WholeMessageOrder ==
  ASSUME IInv, OrderInv, NEW d \in Dir, wholeMessage(d)
  PROVE  Acted(d)
<1> DEFINE v == Path(d)
           x == Path(d)'
           s == task[d].seg
           q == IF s = idx[d] THEN 0 ELSE idx[d]
           b == IF hasBody(d) THEN s - 1 ELSE 0
           u == IF hasTrailers(d) THEN s - 1 ELSE 0
           t == Advance(d, "wholeHeaders", s + 1)
<1>1. task[d].pc = "whole" /\ task[d].pc \in WholePcs
  BY DEF wholeMessage, Now, WholePcs
<1>2. /\ TypeOK /\ PathInv(d) /\ ChainSound /\ NotYet /\ Passed /\ ~again /\ Sorted(filters)
      /\ task[d].pc # "idle" /\ (d = "decode" => ~forwarded)
      /\ hasBody(d) \in BOOLEAN /\ hasTrailers(d) \in BOOLEAN
      /\ msg[d].body \in BOOLEAN /\ (msg[d].body => hasBody(d))
      /\ v.len = N /\ N \in Nat /\ idx[d] \in Nat /\ s \in Nat
  BY <1>1, WholeFacts
<1>3. s \in 1 .. N
  BY <1>1, <1>2 DEF IInv, Positions
<1>4. s \in v.waits /\ q < s /\ SoFar(v, s, q, b, u, s)
  BY <1>1, <1>2 DEF PathInv, Progress
<1>5. q \in Nat /\ b \in Nat /\ u \in Nat /\ b <= s /\ u <= s /\ (msg[d].body => s <= b + 1)
  BY <1>2, <1>3
<1>6. /\ UNCHANGED <<conf, stage, msg, chunks, filters, skip, merged, reqBuf>>
      /\ idx'[d] = s
  BY <1>2 DEF wholeMessage, HandlerFrame, chainVars, TypeOK
<1>7. PICK r \in Outcomes(At(d, s), Whole(d)) :
        Call(At(d, s), Whole(d), r) /\ (localReply(d) \/ Go(d, t))
  BY DEF wholeMessage, Hook, AfterWhole
<1>8. WholeCall(v, x, s) /\ \A e \in Dir : e # d => Path(e)' = Path(e)
  BY <1>2, <1>3, <1>6, <1>7, CallPath, HooksDiffer
<1>9. /\ t \in TaskType /\ t.pc = "wholeHeaders" /\ t.cur = s + 1
      /\ t.es = task[d].es /\ t.meth = task[d].meth
  BY <1>2, AdvanceKeeps DEF PCs
<1> HIDE DEF v, x, s, q, b, u, t
<1>10. SoFar(x, s, s, b, u, 0) /\ s \notin v.whole /\ s \in x.waits /\ x.len = N
  <2>1. s \in v.hasWhole
    BY <1>2, <1>4, WaitersTakeWhole DEF v
  <2>2. x.len = N /\ s \in 1 .. v.len /\ v.len \in Nat
    BY <1>2, <1>3, <1>8 DEF WholeCall, SamePlugins
  <2> QED BY <1>2, <1>4, <1>5, <1>8, <2>1, <2>2, WholeSoFar
<1>11. Ordered(d)'
  <2>1. /\ s <= s /\ 0 \in Nat /\ x.len \in Nat /\ s \in Nat
        /\ msg[d].body => s <= b + 1
    BY <1>2, <1>3, <1>5, <1>10
  <2>2. PathInOrder(x, msg[d].body) /\ TrailersOrdered(x) /\ EitherKind(x)
    BY <1>2, <1>5, <1>10, <2>1, SoFarOrdered
  <2> QED BY <1>6, <2>2 DEF Ordered, x
<1>12. ChainSound' /\ ~again'
  <2>1. s \notin Called(d, Whole(d))
    BY <1>2, <1>10, PathType DEF v
  <2> QED BY <1>2, <1>3, <1>6, <1>7, <2>1, CallChain, HooksDiffer
<1>13. CASE localReply(d)
  <2>1. PathInv(d)'
    BY <1>2, <1>11, <1>13, ReplyPathInv
  <2>2. d = "decode" => NotYet' /\ Passed'
    BY <1>2, <1>13, ReplyPassed
  <2> QED BY <1>8, <1>12, <2>1, <2>2 DEF Acted
<1>14. CASE Go(d, t)
  <2>1. GoesOn(d, t)
    BY <1>1, <1>2, <1>6, <1>9, <1>14 DEF GoesOn, Mode, HeadersPcs, WholePcs
  <2>2. task'[d] = t /\ hasBody(d)' = hasBody(d) /\ hasTrailers(d)' = hasTrailers(d)
    BY <1>2, <2>1, GoesOnStarted DEF PathInv
  <2>3. Progress(d)'
    <3>1. SoFar(x, s, s, IF hasBody(d) THEN s ELSE 0, IF hasTrailers(d) THEN s ELSE 0, 0)
      <4> DEFINE b2 == IF hasBody(d) THEN s ELSE 0
                 u2 == IF hasTrailers(d) THEN s ELSE 0
      <4>1. \A k \in 1 .. x.len : k # s => (k <= b <=> k <= b2) /\ (k <= u <=> k <= u2)
        BY <1>2, <1>3, <1>10 DEF b, u
      <4> HIDE DEF b2, u2
      <4>2. SoFar(x, s, s, b2, u2, 0)
        BY <1>10, <4>1, Renumbered
      <4> QED BY <4>2 DEF b2, u2
    <3>2. t.cur - 1 = s /\ s < t.cur
      BY <1>2, <1>9
    <3> QED BY <1>6, <1>9, <2>2, <3>1, <3>2 DEF Progress, x
  <2>4. PathInv(d)'
    BY <1>2, <1>11, <2>1, <2>3, GoesOnPathInv
  <2>5. d = "decode" => NotYet' /\ Passed'
    BY <1>2, <2>1, GoesOnPassed
  <2> QED BY <1>8, <1>12, <2>4, <2>5 DEF Acted
<1> QED BY <1>7, <1>13, <1>14

(* The filters after it are given the headers, up to the next that waits.  *)
LEMMA WholeHeadersOrder ==
  ASSUME IInv, OrderInv, NEW d \in Dir, wholeHeaders(d)
  PROVE  Acted(d)
<1> DEFINE v == Path(d)
           x == Path(d)'
           c == task[d].cur
           i == idx[d]
           b == IF hasBody(d) THEN i ELSE 0
           u == IF hasTrailers(d) THEN i ELSE 0
           t1 == NextSegment(d)
           t2 == Advance(d, "wholeHeaders", c + 1)
<1>1. task[d].pc = "wholeHeaders" /\ task[d].pc \in WholePcs
  BY DEF wholeHeaders, Now, WholePcs
<1>2. /\ TypeOK /\ PathInv(d) /\ ChainSound /\ NotYet /\ Passed /\ ~again /\ Sorted(filters)
      /\ task[d].pc # "idle" /\ (d = "decode" => ~forwarded)
      /\ hasBody(d) \in BOOLEAN /\ hasTrailers(d) \in BOOLEAN
      /\ msg[d].body \in BOOLEAN /\ (msg[d].body => hasBody(d))
      /\ v.len = N /\ N \in Nat /\ i \in Nat /\ c \in Nat
  BY <1>1, WholeFacts
<1>3. c \in 1 .. N + 1 /\ ~needed[d]
  BY <1>1, <1>2 DEF IInv, Positions
<1>4. i < c /\ SoFar(v, c - 1, i, b, u, 0)
  BY <1>1, <1>2 DEF PathInv, Progress
<1>5. b \in Nat /\ u \in Nat /\ b <= i /\ u <= i /\ (msg[d].body => i <= b + 1)
      /\ b < c /\ u < c
  BY <1>2, <1>4
<1>6. /\ UNCHANGED <<conf, stage, msg, chunks, filters, skip, merged, reqBuf, idx>>
  BY DEF wholeHeaders, HandlerFrame, chainVars
<1>7. /\ t1 \in TaskType /\ t1.pc = "wholeData" /\ t1.cur = i + 1 /\ t1.seg = c
      /\ t1.es = task[d].es /\ t1.meth = task[d].meth
  <2>1. task[d] \in TaskType /\ i + 1 \in Nat
    BY <1>2 DEF TypeOK
  <2> QED BY <1>2, <2>1 DEF NextSegment, Advance, TaskType
<1>8. /\ t2 \in TaskType /\ t2.pc = "wholeHeaders" /\ t2.cur = c + 1
      /\ t2.es = task[d].es /\ t2.meth = task[d].meth
  BY <1>2, AdvanceKeeps DEF PCs
<1>9. /\ Go(d, t1) => GoesOn(d, t1)
      /\ Go(d, t2) => GoesOn(d, t2)
  <2> HIDE DEF t1, t2
  <2> QED BY <1>1, <1>2, <1>6, <1>7, <1>8 DEF GoesOn, Mode, HeadersPcs, WholePcs
<1>10. CASE c > N
  <2>1. Go(d, t1) /\ UNCHANGED <<needed, historyVars>>
    BY <1>10 DEF wholeHeaders
  <2> HIDE DEF v, x, c, i, t1, t2
  <2>2. /\ \A e \in Dir : Path(e)' = Path(e)
        /\ ChainSound' /\ ~again' /\ Lost(d)' = Lost(d) /\ N' = N /\ x = v
    BY <1>2, <1>6, <2>1, SamePath, SameChain, SameLost DEF historyVars, v, x
  <2>3. Ordered(d)'
    BY <1>2, <1>6, <2>2 DEF PathInv, Ordered
  <2>4. /\ task'[d] = t1 /\ hasBody(d)' = hasBody(d) /\ hasTrailers(d)' = hasTrailers(d)
        /\ idx'[d] = i
    BY <1>2, <1>6, <1>9, <2>1, GoesOnStarted DEF PathInv, i
  <2>5. c = N + 1 /\ i < c /\ i # c
    BY <1>2, <1>3, <1>4, <1>10
  <2>6. Segment(d)'
    BY <1>2, <1>7, <2>2, <2>4, <2>5 DEF Segment
  <2>7. Progress(d)'
    <3>1. SoFar(x, c, i, b, u, c)
      <4>1. \A k \in 1 .. v.len : k <= c - 1 <=> k <= c
        BY <1>2, <2>5
      <4>2. \A k \in 1 .. v.len : k # 0
        BY <1>2
      <4> HIDE DEF b, u
      <4> QED BY <1>4, <2>2, <4>1, <4>2, Renumbered
    <3>2. t1.cur - 1 = i /\ i < t1.cur /\ t1.cur <= c
      BY <1>2, <1>7, <2>5
    <3> QED BY <1>7, <2>4, <2>5, <2>6, <3>1, <3>2 DEF Progress, x
  <2>8. PathInv(d)'
    BY <1>2, <1>9, <2>1, <2>3, <2>7, GoesOnPathInv
  <2>9. d = "decode" => NotYet' /\ Passed'
    BY <1>2, <1>9, <2>1, GoesOnPassed
  <2> QED BY <2>2, <2>8, <2>9 DEF Acted
<1>11. CASE c <= N
  <2>1. c \in 1 .. N
    BY <1>3, <1>11
  <2>2. PICK r \in Outcomes(At(d, c), Headers(d)) :
          /\ Call(At(d, c), Headers(d), r)
          /\ needed' = [needed EXCEPT ![d] = @ \/ r = "WaitAllData"]
          /\ \/ localReply(d)
             \/ r = "WaitAllData" /\ Go(d, t1)
             \/ r # "WaitAllData" /\ Go(d, t2)
    BY <1>2, <1>11 DEF wholeHeaders
  <2> DEFINE w == r = "WaitAllData"
  <2>3. w \in BOOLEAN /\ HeadersCall(v, x, c, w) /\ \A e \in Dir : e # d => Path(e)' = Path(e)
    <3> HIDE DEF c
    <3> QED BY <1>2, <1>6, <2>1, <2>2, CallPath, HooksDiffer
  <2>4. w => needed'[d]
    BY <1>2, <2>2 DEF TypeOK
  <2> HIDE DEF v, x, c, i, t1, t2, w
  <2>5. IF w THEN SoFar(x, c, i, b, u, c) /\ c \in x.waits
        ELSE SoFar(x, c, i, b, u, 0) /\ SoFar(x, c, i, b, u, c)
    <3>1. c \in 1 .. v.len /\ v.len \in Nat
      BY <1>2, <2>1
    <3> HIDE DEF b, u
    <3> QED BY <1>2, <1>4, <1>5, <2>3, <3>1, HeadersSoFar
  <2>6. x.len = N /\ i <= c /\ b <= c /\ u <= c /\ c >= c
    <3>1. x.len = N
      BY <1>2, <2>3 DEF HeadersCall, SamePlugins
    <3> HIDE DEF b, u
    <3> QED BY <1>2, <1>4, <1>5, <3>1
  <2>7. Ordered(d)'
    <3>1. PathInOrder(x, msg[d].body) /\ TrailersOrdered(x) /\ EitherKind(x)
      <4> HIDE DEF b, u
      <4> QED BY <1>2, <1>5, <2>3, <2>5, <2>6, SoFarOrdered
    <3> QED BY <1>6, <3>1 DEF Ordered, x
  <2>8. ChainSound' /\ ~again'
    <3>1. c \notin v.headers
      <4> HIDE DEF b, u
      <4> QED BY <1>2, <1>4, <2>1 DEF SoFar
    <3>2. c \notin Called(d, Headers(d))
      BY <1>2, <3>1, PathType DEF v
    <3> QED BY <1>2, <1>6, <2>1, <2>2, <3>2, CallChain, HooksDiffer
  <2>9. CASE localReply(d)
    <3>1. PathInv(d)'
      BY <1>2, <2>7, <2>9, ReplyPathInv
    <3>2. d = "decode" => NotYet' /\ Passed'
      BY <1>2, <2>9, ReplyPassed
    <3> QED BY <2>3, <2>8, <3>1, <3>2 DEF Acted
  <2>10. CASE w /\ Go(d, t1)
    <3>1. /\ task'[d] = t1 /\ hasBody(d)' = hasBody(d) /\ hasTrailers(d)' = hasTrailers(d)
          /\ idx'[d] = i
      BY <1>2, <1>6, <1>9, <2>10, GoesOnStarted DEF PathInv, i
    <3>2. i # c /\ c \in x.waits /\ SoFar(x, c, i, b, u, c) /\ needed'[d]
      BY <1>2, <1>4, <2>4, <2>5, <2>10
    <3>3. Segment(d)'
      BY <1>4, <1>7, <3>1, <3>2 DEF Segment, x
    <3>4. Progress(d)'
      <4>1. t1.cur - 1 = i /\ i < t1.cur /\ t1.cur <= c
        BY <1>2, <1>4, <1>7
      <4> QED BY <1>7, <3>1, <3>2, <3>3, <4>1 DEF Progress, x
    <3>5. PathInv(d)'
      BY <1>2, <1>9, <2>7, <2>10, <3>4, GoesOnPathInv
    <3>6. d = "decode" => NotYet' /\ Passed'
      BY <1>2, <1>9, <2>10, GoesOnPassed
    <3> QED BY <2>3, <2>8, <3>5, <3>6 DEF Acted
  <2>11. CASE ~w /\ Go(d, t2)
    <3>1. /\ task'[d] = t2 /\ hasBody(d)' = hasBody(d) /\ hasTrailers(d)' = hasTrailers(d)
          /\ idx'[d] = i
      BY <1>2, <1>6, <1>9, <2>11, GoesOnStarted DEF PathInv, i
    <3>2. SoFar(x, c, i, b, u, 0)
      BY <2>3, <2>5, <2>11
    <3>3. Progress(d)'
      <4>1. t2.cur - 1 = c /\ i < t2.cur
        BY <1>2, <1>4, <1>8
      <4> QED BY <1>8, <3>1, <3>2, <4>1 DEF Progress, x
    <3>4. PathInv(d)'
      BY <1>2, <1>9, <2>7, <2>11, <3>3, GoesOnPathInv
    <3>5. d = "decode" => NotYet' /\ Passed'
      BY <1>2, <1>9, <2>11, GoesOnPassed
    <3> QED BY <2>3, <2>8, <3>4, <3>5 DEF Acted
  <2> QED BY <2>2, <2>9, <2>10, <2>11 DEF w
<1> QED BY <1>2, <1>10, <1>11

-----------------------------------------------------------------------------
(* The steps that only the decode path has.                                *)

(* Init may fail before the first plugin is called.                        *)
LEMMA HeadersInitOrder ==
  ASSUME IInv, OrderInv, decodeHeadersInit
  PROVE  Acted("decode")
<1> DEFINE d == "decode"
           v == Path(d)
           pc == IF consumerFiltersEndAt = 0 THEN "headers" ELSE "authn"
           t == Advance(d, pc, 1)
<1>1. TypeOK /\ PathInv(d) /\ ChainSound /\ NotYet /\ Passed /\ ~again /\ d \in Dir
  BY DEF IInv, OrderInv, Dir
<1>2. task[d].pc = "init" /\ SoFar(v, 0, 0, 0, 0, 0) /\ ~forwarded
  <2>1. task[d].pc = "init"
    BY DEF decodeHeadersInit, Now
  <2> QED BY <1>1, <2>1 DEF PathInv, Progress, NotYet
<1>3. /\ UNCHANGED <<conf, stage, msg, chunks, filters, skip, merged, reqBuf, idx>>
      /\ UNCHANGED <<ran, waited, again>>
  BY DEF decodeHeadersInit, HandlerFrame, chainVars, progressVars, historyVars
<1>4. /\ \A e \in Dir : Path(e)' = Path(e)
      /\ ChainSound' /\ ~again' /\ Lost(d)' = Lost(d)
  BY <1>1, <1>3, SamePath, SameChain, SameLost
<1>5. Ordered(d)'
  BY <1>1, <1>3, <1>4 DEF PathInv, Ordered
<1>6. CASE localReply(d)
  <2>1. PathInv(d)' /\ NotYet' /\ Passed'
    BY <1>1, <1>2, <1>5, <1>6, ReplyPathInv, ReplyPassed
  <2> QED BY <1>4, <2>1 DEF Acted
<1>7. CASE Go(d, t)
  <2>1. /\ t \in TaskType /\ t.pc \in {"headers", "authn"} /\ t.cur = 1
        /\ t.meth = task[d].meth /\ t.es = task[d].es
    <3>1. pc \in PCs /\ pc \in {"headers", "authn"} /\ 1 \in Nat
      BY DEF PCs
    <3> HIDE DEF pc
    <3> QED BY <1>1, <3>1, AdvanceKeeps
  <2> HIDE DEF t, pc
  <2>2. GoesOn(d, t)
    BY <1>2, <1>3, <1>7, <2>1 DEF GoesOn, Mode, HeadersPcs
  <2>3. task'[d] = t
    BY <1>1, <2>2, GoesOnStarted DEF PathInv
  <2>4. Progress(d)'
    <3>1. task'[d].cur - 1 = 0 /\ task'[d].pc \in {"headers", "authn"}
      BY <2>1, <2>3
    <3> QED BY <1>1, <1>2, <1>4, <3>1 DEF Progress
  <2>5. PathInv(d)' /\ NotYet' /\ Passed'
    BY <1>1, <1>2, <1>5, <2>2, <2>4, GoesOnPathInv, GoesOnPassed
  <2> QED BY <1>4, <2>5 DEF Acted
<1> QED BY <1>6, <1>7 DEF decodeHeadersInit

(* An authentication filter is given the headers in its turn; it does not  *)
(* wait.                                                                   *)
LEMMA HeadersAuthnOrder ==
  ASSUME IInv, OrderInv, decodeHeadersAuthn
  PROVE  Acted("decode")
<1> DEFINE d == "decode"
           v == Path(d)
           x == Path(d)'
           c == task[d].cur
           t == Advance(d, "authn", c + 1)
<1>1. /\ TypeOK /\ PathInv(d) /\ ChainSound /\ NotYet /\ Passed /\ ~again /\ Sorted(filters)
      /\ d \in Dir
  BY DEF IInv, OrderInv, ChainSound, Dir
<1>2. task[d].pc = "authn" /\ c <= consumerFiltersEndAt /\ ~forwarded
  BY <1>1 DEF decodeHeadersAuthn, Now, NotYet
<1>3. /\ c \in 1 .. consumerFiltersEndAt /\ c \in 1 .. N /\ N \in Nat /\ c \in Nat
      /\ filters = SortFilters(conf.route) /\ v.len = N
  <2>1. conf \in Setups /\ filters = SortFilters(conf.route) /\ c \in 1 .. consumerFiltersEndAt + 1
        /\ consumerFiltersEndAt \in 0 .. N /\ N \in Nat
    <3>1. filters = SortFilters(conf.route) /\ c \in 1 .. consumerFiltersEndAt + 1
      BY <1>1, <1>2 DEF IInv, Early, Positions
    <3>2. conf \in Setups /\ N \in Nat
      BY <1>1 DEF TypeOK, N
    <3> QED BY <3>1, <3>2, EndAtType DEF N
  <2>2. \A l, n \in Nat : \A k \in 1 .. l + 1 :
          l <= n /\ k <= l => k \in 1 .. l /\ k \in 1 .. n /\ k \in Nat
    OBVIOUS
  <2> QED BY <1>1, <1>2, <2>1, <2>2, PathType
<1>4. SoFar(v, c - 1, 0, 0, 0, 0)
  BY <1>1, <1>2 DEF PathInv, Progress
<1>5. UNCHANGED <<conf, stage, msg, chunks, filters, skip, merged, reqBuf, idx>>
  BY DEF decodeHeadersAuthn, HandlerFrame
<1>6. PICK r \in Outcomes(At(d, c), Headers(d)) :
        Call(At(d, c), Headers(d), r) /\ (localReply(d) \/ Go(d, t))
  BY DEF decodeHeadersAuthn, At, Headers
<1>7. r # "WaitAllData"
  BY <1>1, <1>3, <1>6, AuthnDoesNotWait DEF At, Headers
<1>8. HeadersCall(v, x, c, FALSE) /\ \A e \in Dir : e # d => Path(e)' = Path(e)
  <2>1. Headers(d) \in Hooks(d)
    BY DEF Hooks
  <2>2. (r = "WaitAllData") = FALSE
    BY <1>7
  <2>3. HeadersCall(v, x, c, r = "WaitAllData") /\ \A e \in Dir : e # d => Path(e)' = Path(e)
    BY <1>1, <1>3, <1>5, <1>6, <2>1, CallPath
  <2> QED BY <2>2, <2>3
<1>9. /\ t \in TaskType /\ t.pc = "authn" /\ t.cur = c + 1
      /\ t.meth = task[d].meth /\ t.es = task[d].es
  BY <1>1, <1>3, AdvanceKeeps DEF PCs
<1> HIDE DEF v, x, c, t
<1>10. SoFar(x, c, 0, 0, 0, 0) /\ x.len = N
  <2>1. c \in 1 .. v.len /\ v.len \in Nat /\ 0 < c /\ 0 \in Nat
    BY <1>3
  <2>2. SoFar(x, c, 0, 0, 0, 0)
    BY <1>4, <1>8, <2>1, HeadersSoFar
  <2> QED BY <1>3, <1>8, <2>2 DEF HeadersCall, SamePlugins
<1>11. Ordered(d)'
  <2>1. /\ 0 <= c /\ 0 \in Nat /\ x.len \in Nat /\ msg[d].body \in BOOLEAN
        /\ msg[d].body => 0 <= 0 + 1
    BY <1>1, <1>3, <1>10 DEF TypeOK, Message
  <2>2. PathInOrder(x, msg[d].body) /\ TrailersOrdered(x) /\ EitherKind(x)
    BY <1>3, <1>10, <2>1, SoFarOrdered
  <2> QED BY <1>5, <2>2 DEF Ordered, x
<1>12. ChainSound' /\ ~again'
  <2>1. c \notin v.headers
    BY <1>3, <1>4 DEF SoFar
  <2>2. c \notin Called(d, Headers(d)) /\ Headers(d) \in Hooks(d)
    BY <1>1, <2>1, PathType DEF v, Hooks
  <2> QED BY <1>1, <1>3, <1>5, <1>6, <2>2, CallChain
<1>13. CASE localReply(d)
  <2>1. PathInv(d)' /\ NotYet' /\ Passed'
    BY <1>1, <1>2, <1>11, <1>13, ReplyPathInv, ReplyPassed
  <2> QED BY <1>8, <1>12, <2>1 DEF Acted
<1>14. CASE Go(d, t)
  <2>1. GoesOn(d, t)
    BY <1>2, <1>5, <1>9, <1>14 DEF GoesOn
  <2>2. task'[d] = t
    BY <1>1, <2>1, GoesOnStarted DEF PathInv
  <2>3. Progress(d)'
    <3>1. task'[d].cur - 1 = c /\ task'[d].pc = "authn"
      BY <1>3, <1>9, <2>2
    <3> QED BY <1>10, <3>1 DEF Progress, x
  <2>4. PathInv(d)' /\ NotYet' /\ Passed'
    BY <1>1, <1>2, <1>11, <2>1, <2>3, GoesOnPathInv, GoesOnPassed
  <2> QED BY <1>8, <1>12, <2>4 DEF Acted
<1> QED BY <1>6, <1>13, <1>14

(* The body of a buffered request is kept for its trailers.                *)
LEMMA DataKeepOrder ==
  ASSUME IInv, OrderInv, decodeDataKeep
  PROVE  Acted("decode")
<1> DEFINE d == "decode"
<1>1. TypeOK /\ PathInv(d) /\ ChainSound /\ NotYet /\ Passed /\ ~again /\ d \in Dir
  BY DEF IInv, OrderInv, Dir
<1>2. task[d].pc = "keep" /\ task[d].pc # "idle" /\ ~forwarded /\ task[d].meth = Data(d)
  <2>1. task[d].pc = "keep"
    BY DEF decodeDataKeep, Now
  <2> QED BY <1>1, <2>1 DEF PathInv, Started, NotYet
<1>3. /\ UNCHANGED <<conf, stage, msg, chunks, filters, skip, merged, idx>>
      /\ UNCHANGED <<ran, waited, again>> /\ reqBuf'
      /\ Answer(d, task[d].meth, task[d].es, "StopAndBuffer") /\ Leave(d) /\ task'[d].pc = "idle"
  BY <1>1 DEF decodeDataKeep, HandlerFrame, chainVars, historyVars, Return, Leave, NoTask, TypeOK
<1>4. /\ \A e \in Dir : Path(e)' = Path(e)
      /\ ChainSound' /\ ~again' /\ Lost(d)' = Lost(d)
  BY <1>1, <1>3, SamePath, SameChain, SameLost
<1>5. Ordered(d)'
  BY <1>1, <1>3, <1>4 DEF PathInv, Ordered
<1>6. CASE ~Live(d)
  <2>1. UNCHANGED <<at, forwarded>>
    BY <1>3, <1>6 DEF Answer, Live
  <2>2. PathInv(d)'
    BY <1>1, <1>2, <1>3, <1>5, <1>6, <2>1, UnheardPathInv
  <2> QED BY <1>2, <1>4, <2>1, <2>2 DEF Acted, NotYet, Passed
<1>7. CASE Live(d)
  <2>1. at'[d] = "trailers" /\ UNCHANGED forwarded
    BY <1>1, <1>2, <1>3, <1>7 DEF Answer, Live, AfterPhase, Data, TypeOK
  <2>2. Waiting(d)'
    <3>1. Waiting(d)
      BY <1>1, <1>2 DEF PathInv, Progress
    <3> QED BY <1>1, <1>3, <1>4, <3>1 DEF Waiting
  <2>3. Between(d)' /\ Complete(d)'
    BY <1>3, <2>1, <2>2 DEF Between, Complete
  <2>4. PathInv(d)'
    BY <1>1, <1>3, <1>5, <2>3, AnsweredPathInv
  <2> QED BY <1>2, <1>4, <2>1, <2>4 DEF Acted, NotYet, Passed
<1> QED BY <1>6, <1>7

-----------------------------------------------------------------------------
(* The step of a handler, for both directions.                             *)

(* A handler leaves the chain alone, and the progress of the other one.    *)
LEMMA StepFrame ==
  ASSUME TypeOK, NEW d \in Dir, Step(d)
  PROVE  /\ UNCHANGED <<filters, skip, merged, reqBuf>>
         /\ \A e \in Dir : e # d => idx'[e] = idx[e] /\ needed'[e] = needed[e]
<1>1. idx \in [Dir -> Nat] /\ needed \in [Dir -> BOOLEAN]
  BY DEF TypeOK
<1>2. CASE headersNext(d)
  <2>1. UNCHANGED <<filters, skip, merged, reqBuf>>
    BY <1>2 DEF headersNext, chainVars
  <2>2. /\ UNCHANGED idx \/ \E k : idx' = [idx EXCEPT ![d] = k]
        /\ UNCHANGED needed \/ \E w : needed' = [needed EXCEPT ![d] = w]
    BY <1>2 DEF headersNext
  <2> QED BY <1>1, <2>1, <2>2
<1>3. CASE headersNoBody(d) \/ dataNext(d) \/ trailersNext(d) \/ wholeData(d) \/ wholeTrailers(d)
           \/ handlerEnd(d)
  BY <1>3 DEF headersNoBody, dataNext, trailersNext, wholeData, wholeTrailers, handlerEnd,
              chainVars, progressVars
<1>4. CASE wholeMessage(d)
  BY <1>1, <1>4 DEF wholeMessage, chainVars
<1>5. CASE wholeHeaders(d)
  <2>1. UNCHANGED <<filters, skip, merged, reqBuf, idx>>
    BY <1>5 DEF wholeHeaders, chainVars
  <2>2. UNCHANGED needed \/ \E w : needed' = [needed EXCEPT ![d] = w]
    BY <1>5 DEF wholeHeaders
  <2> QED BY <1>1, <2>1, <2>2
<1> QED BY <1>2, <1>3, <1>4, <1>5 DEF Step

(* What a handler leaves to the other one.                                 *)
LEMMA WorksFrame ==
  ASSUME TypeOK, NEW d \in Dir, Works(d), NEW e \in Dir, e # d
  PROVE  /\ UNCHANGED <<conf, stage, msg, chunks>>
         /\ task'[e] = task[e] /\ at'[e] = at[e]
<1>1. task \in [Dir -> TaskType] /\ at \in [Dir -> AtStates]
  BY DEF TypeOK, AtStates
<1>2. UNCHANGED <<conf, stage, msg, chunks>>
  BY DEF Works, HandlerFrame
<1>3. UNCHANGED at \/ \E y : at' = [at EXCEPT ![d] = y]
  BY DEF Works, Goes, Go, Answers, TheStream
<1>4. \E y : task' = [task EXCEPT ![d] = y]
  BY DEF Works, Goes, Go, Leave
<1> QED BY <1>1, <1>2, <1>3, <1>4

(* What is shown of the direction that acts holds of both.                 *)
LEMMA ActedOrder ==
  ASSUME TypeOK, OrderInv, NEW d \in Dir, Works(d), Acted(d),
         UNCHANGED <<filters, skip, merged>>, d = "encode" => UNCHANGED reqBuf,
         \A e \in Dir : e # d => idx'[e] = idx[e] /\ needed'[e] = needed[e],
         d = "encode" => UNCHANGED forwarded
  PROVE  OrderInv'
<1>1. ASSUME NEW e \in Dir, e # d PROVE PathInv(e)'
  <2>1. Still(e)
    BY <1>1, WorksFrame DEF Still, Acted, Dir
  <2> QED BY <2>1, StillPathInv DEF OrderInv
<1>2. NotYet' /\ Passed'
  <2>1. CASE d = "decode"
    BY <2>1 DEF Acted
  <2>2. CASE d = "encode"
    <3>1. "decode" \in Dir /\ "decode" # d
      BY <2>2 DEF Dir
    <3>2. task'["decode"] = task["decode"] /\ at'["decode"] = at["decode"]
      BY <3>1, WorksFrame
    <3>3. Path("decode")' = Path("decode")
      BY <3>1 DEF Acted
    <3> QED BY <2>2, <3>2, <3>3 DEF OrderInv, NotYet, Passed
  <2> QED BY <2>1, <2>2 DEF Dir
<1> QED BY <1>1, <1>2 DEF Acted, OrderInv

(* Only the request is forwarded.                                          *)
LEMMA EncodeForwards ==
  ASSUME TypeOK, Step("encode")
  PROVE  UNCHANGED forwarded
<1>1. ASSUME NEW meth, NEW es, NEW status, Answer("encode", meth, es, status)
      PROVE  UNCHANGED forwarded
  <2>1. \/ UNCHANGED forwarded
        \/ forwarded' = (forwarded \/ ("encode" = "decode" /\ status = "Continue"))
    BY <1>1 DEF Answer
  <2>2. forwarded \in BOOLEAN /\ ("encode" = "decode") = FALSE
    BY DEF TypeOK
  <2> QED BY <2>1, <2>2
<1>2. \A status : Return("encode", status) => UNCHANGED forwarded
  BY <1>1 DEF Return
<1>3. \A t : Go("encode", t) => UNCHANGED forwarded
  BY DEF Go
<1>4. localReply("encode") => UNCHANGED forwarded
  BY DEF localReply
<1>5. \A p, m, t : Hook("encode", p, m, t) => UNCHANGED forwarded
  BY <1>3, <1>4 DEF Hook
<1> QED BY <1>2, <1>3, <1>4, <1>5
        DEF Step, headersNext, headersNoBody, dataNext, trailersNext, wholeData, wholeTrailers,
            wholeMessage, wholeHeaders, handlerEnd

(* A step common to both directions.                                       *)
LEMMA StepOrder ==
  ASSUME IInv, OrderInv, NEW d \in Dir, Step(d)
  PROVE  OrderInv'
<1>1. Acted(d)
  BY HeadersNextOrder, HeadersNoBodyOrder, DataNextOrder, TrailersNextOrder, WholeDataOrder,
     WholeTrailersOrder, WholeMessageOrder, WholeHeadersOrder, HandlerEndOrder DEF Step
<1>2. TypeOK /\ Works(d)
  BY StepWorks DEF IInv
<1>3. d = "encode" => UNCHANGED forwarded
  BY <1>2, EncodeForwards
<1> QED BY <1>1, <1>2, <1>3, StepFrame, ActedOrder

(* A step of the decode path, other than the merge of a consumer.          *)
LEMMA DecodeOnlyOrder ==
  ASSUME IInv, OrderInv, decodeHeadersInit \/ decodeHeadersAuthn \/ decodeDataKeep
  PROVE  OrderInv'
<1>1. Acted("decode") /\ "decode" \in Dir
  BY HeadersInitOrder, HeadersAuthnOrder, DataKeepOrder DEF Dir
<1>2. TypeOK /\ Works("decode")
  BY DecodeStepWorks DEF IInv, DecodeStep
<1>3. /\ UNCHANGED <<filters, skip, merged>>
      /\ \A e \in Dir : e # "decode" => idx'[e] = idx[e] /\ needed'[e] = needed[e]
  <2>1. UNCHANGED <<filters, skip, merged, idx>>
    BY DEF decodeHeadersInit, decodeHeadersAuthn, decodeDataKeep, chainVars, progressVars
  <2>2. UNCHANGED needed \/ \E w : needed' = [needed EXCEPT !["decode"] = w]
    BY DEF decodeHeadersInit, decodeHeadersAuthn, decodeDataKeep, progressVars
  <2> QED BY <1>2, <2>1, <2>2 DEF TypeOK
<1> QED BY <1>1, <1>2, <1>3, ActedOrder

-----------------------------------------------------------------------------
(* The merge of a consumer.                                                *)

(* Of some positions one is first.                                         *)
LEMMA FirstPosition ==
  ASSUME NEW n \in Nat, NEW S \in SUBSET (1 .. n), S # {}
  PROVE  \E k \in S : \A j \in S : k <= j
<1> DEFINE I == 1 .. n
           F == {1 .. k : k \in S}
<1>1. F \in SUBSET SUBSET I /\ F # {}
  <2>1. ASSUME NEW k \in S PROVE 1 .. k \subseteq I
    OBVIOUS
  <2> QED BY <2>1
<1>2. IsFiniteSet(I)
  BY FS_Interval
<1>3. PICK T \in F : \A U \in F : U \subseteq T => U = T
  <2> HIDE DEF F, I
  <2> QED BY <1>1, <1>2, MinimalSet
<1>4. PICK k \in S : T = 1 .. k
  BY <1>3
<1>5. ASSUME NEW j \in S, j < k PROVE FALSE
  <2>1. 1 .. j \in F /\ 1 .. j \subseteq T /\ k \in T /\ k \notin 1 .. j
    BY <1>4, <1>5
  <2> QED BY <1>3, <2>1
<1>6. \A j \in S : k <= j
  BY <1>5
<1> QED BY <1>4, <1>6

(* Two chains, one with more plugins, all of them after the filter n of    *)
(* the other: up to n they are the same.                                   *)
LEMMA SamePrefix ==
  ASSUME NEW r \in Seq(Plugins), NEW s \in Seq(Plugins), Sorted(r), Sorted(s),
         NEW n \in 0 .. Len(r), RangeOf(r) \subseteq RangeOf(s),
         n > 0 => \A p \in RangeOf(s) \ RangeOf(r) : PluginOrder[r[n]] < PluginOrder[p]
  PROVE  n <= Len(s) /\ \A k \in 1 .. n : s[k] = r[k]
<1> DEFINE Good(k) == k <= Len(s) /\ s[k] = r[k]
           Bad == {k \in 1 .. n : ~Good(k)}
<1>1. /\ Len(r) \in Nat /\ Len(s) \in Nat /\ n \in Nat /\ n <= Len(r)
      /\ DOMAIN r = 1 .. Len(r) /\ DOMAIN s = 1 .. Len(s)
      /\ \A i \in 1 .. Len(r) : r[i] \in Plugins /\ PluginOrder[r[i]] \in Nat
      /\ \A i \in 1 .. Len(s) : s[i] \in Plugins /\ PluginOrder[s[i]] \in Nat
  BY Ranked
<1>2. \A i \in 1 .. Len(r) : \E j \in 1 .. Len(s) : s[j] = r[i]
  BY <1>1 DEF RangeOf
<1>3. Bad = {}
  <2>1. SUFFICES ASSUME Bad # {} PROVE FALSE
    OBVIOUS
  <2>2. PICK k \in Bad : \A j \in Bad : k <= j
    <3>1. Bad \in SUBSET (1 .. n)
      OBVIOUS
    <3> HIDE DEF Bad
    <3> QED BY <1>1, <2>1, <3>1, FirstPosition
  <2>3. k \in 1 .. n /\ k \in 1 .. Len(r) /\ ~Good(k)
    BY <1>1
  <2>4. \A j \in 1 .. n : j < k => Good(j)
    BY <1>1, <2>2, <2>3
  <2>5. PICK i \in 1 .. Len(s) : s[i] = r[k]
    BY <1>2, <2>3
  <2>6. ~(i < k)
    <3>1. SUFFICES ASSUME i < k PROVE FALSE
      OBVIOUS
    <3>2. i \in 1 .. n /\ i \in 1 .. Len(r)
      BY <1>1, <2>3, <3>1
    <3>3. r[i] = r[k]
      BY <2>4, <2>5, <3>1, <3>2
    <3>4. i = k
      BY <2>3, <3>2, <3>3, SortedInjective
    <3> QED BY <1>1, <3>1, <3>4
  <2>7. i # k /\ k < i /\ k \in 1 .. Len(s)
    BY <1>1, <2>3, <2>5, <2>6
  <2>8. PluginOrder[s[k]] < PluginOrder[r[k]] /\ PluginOrder[r[k]] <= PluginOrder[r[n]]
    <3>1. PluginOrder[s[k]] < PluginOrder[s[i]]
      BY <1>1, <2>7 DEF Sorted
    <3>2. n \in 1 .. Len(r) /\ (k = n \/ k < n)
      BY <1>1, <2>3
    <3>3. k < n => PluginOrder[r[k]] < PluginOrder[r[n]]
      BY <1>1, <2>3, <3>2 DEF Sorted
    <3>4. PluginOrder[r[k]] <= PluginOrder[r[n]]
      BY <1>1, <2>3, <3>2, <3>3
    <3> QED BY <2>5, <3>1, <3>4
  <2>9. PICK j \in 1 .. Len(r) : r[j] = s[k]
    <3>4. n > 0 /\ n \in 1 .. Len(r)
      BY <1>1, <2>3
    <3>1. n > 0 /\ n \in 1 .. Len(r) /\ s[k] \in RangeOf(s)
      BY <1>1, <2>7, <3>4 DEF RangeOf
    <3>2. ~(PluginOrder[r[n]] < PluginOrder[s[k]])
      BY <1>1, <2>3, <2>7, <2>8, <3>1
    <3>3. s[k] \in RangeOf(r)
      BY <3>1, <3>2
    <3> QED BY <1>1, <3>3 DEF RangeOf
  <2>10. j < k
    <3>1. k < j => PluginOrder[r[k]] < PluginOrder[r[j]]
      BY <1>1, <2>3 DEF Sorted
    <3>2. PluginOrder[r[j]] < PluginOrder[r[k]]
      BY <2>8, <2>9
    <3> QED BY <1>1, <2>3, <3>1, <3>2
  <2>11. s[j] = s[k] /\ j \in 1 .. Len(s)
    <3>1. j \in 1 .. n
      BY <1>1, <2>3, <2>10
    <3> QED BY <1>1, <2>4, <2>9, <2>10, <3>1
  <2>12. j = k
    BY <2>7, <2>11, SortedInjective
  <2> QED BY <1>1, <2>10, <2>12
<1>4. \A k \in 1 .. n : k <= Len(s) /\ s[k] = r[k]
  BY <1>3
<1>5. n <= Len(s)
  <2>1. n = 0 \/ n \in 1 .. n
    BY <1>1
  <2> QED BY <1>1, <1>4, <2>1
<1> QED BY <1>4, <1>5

(* The chain with a consumer's plugins starts with the same authentication *)
(* filters, and nothing has been skipped that has now something to do.     *)
LEMMA MergedChain ==
  ASSUME IInv, ChainSound, ~skip["DecodeHeaders"], mergeConsumer
  PROVE  /\ filters = SortFilters(conf.route) /\ consumerFiltersEndAt \in 0 .. N
         /\ filters' \in Seq(Plugins) /\ consumerFiltersEndAt <= N' /\ N' \in Nat
         /\ \A k \in 1 .. consumerFiltersEndAt : filters'[k] = filters[k]
         /\ ChainSound' /\ skip'["DecodeHeaders"] = skip["DecodeHeaders"]
<1> DEFINE last == consumerFiltersEndAt
           S == conf.route \union conf.consumer
<1>1. /\ TypeOK /\ filters = SortFilters(conf.route) /\ conf \in Setups
      /\ conf.route \in SUBSET Plugins /\ conf.consumer \in SUBSET Plugins
      /\ Chain = conf.route /\ Sorted(filters) /\ filters \in Seq(Plugins) /\ N \in Nat
  <2>1. TypeOK /\ filters = SortFilters(conf.route)
    BY DEF IInv, mergeConsumer, Now, Early
  <2>2. conf \in Setups /\ conf.route \in SUBSET Plugins /\ conf.consumer \in SUBSET Plugins
    BY <2>1, SetupType DEF TypeOK, Setup
  <2> QED BY <2>1, <2>2, SortFiltersType, SortFiltersRange DEF Chain, TypeOK, N
<1>2. last \in 0 .. Len(filters) /\ (last > 0 => filters[last] \in AuthnPlugins)
  BY <1>1, EndAtType
<1>3. UNCHANGED <<conf, ran, waited>>
  BY DEF mergeConsumer, HandlerFrame, historyVars
<1>4. CASE UNCHANGED <<merged, skip, sync, filters>>
  <2>1. ChainSound'
    BY <1>3, <1>4, SameChain
  <2>2. N' = N /\ last <= N
    BY <1>1, <1>2, <1>4 DEF N
  <2> QED BY <1>1, <1>2, <1>4, <2>1, <2>2 DEF N
<1>5. CASE /\ merged' = TRUE /\ skip' = MergedSkip
           /\ filters' = SortFilters(RangeOf(filters) \union conf.consumer)
  <2>1. /\ S \in SUBSET Plugins /\ filters' = SortFilters(S)
        /\ filters' \in Seq(Plugins) /\ Sorted(filters') /\ RangeOf(filters') = S
    <3>1. S \in SUBSET Plugins /\ filters' = SortFilters(S)
      BY <1>1, <1>5 DEF Chain
    <3> QED BY <3>1, SortFiltersType, SortFiltersRange
  <2>2. N' = Len(filters') /\ N' \in Nat
    BY <2>1 DEF N
  <2>3. last <= N' /\ \A k \in 1 .. last : filters'[k] = filters[k]
    <3>1. last > 0 => \A p \in RangeOf(filters') \ RangeOf(filters) :
                        PluginOrder[filters[last]] < PluginOrder[p]
      <4>1. SUFFICES ASSUME last > 0, NEW p \in conf.consumer
                     PROVE  PluginOrder[filters[last]] < PluginOrder[p]
        BY <1>1, <2>1 DEF Chain
      <4>2. filters[last] \in AuthnPlugins /\ filters[last] \in Plugins
        BY <1>2, <4>1, OrderAssumption
      <4>3. ~(PluginOrder[p] <= PluginOrder[filters[last]])
        BY <1>1, <4>2, SetupAssumption
      <4>4. PluginOrder[p] \in Nat /\ PluginOrder[filters[last]] \in Nat
        BY <1>1, <4>2, Ranked
      <4> QED BY <4>3, <4>4
    <3>2. RangeOf(filters) \subseteq RangeOf(filters')
      BY <1>1, <2>1 DEF Chain
    <3> HIDE DEF last
    <3> QED BY <1>1, <1>2, <2>1, <2>2, <3>1, <3>2, SamePrefix
  <2>4. Chain' = S /\ Chain \subseteq Chain'
    BY <1>1, <2>1 DEF Chain
  <2>5. skip'["DecodeHeaders"] = skip["DecodeHeaders"]
    <3>1. "DecodeHeaders" \in Phases \union {"OnLog"}
      BY DEF Phases, Dir, Headers
    <3> QED BY <1>5, <3>1 DEF MergedSkip
  <2>6. ASSUME NEW ph \in Phases \union {"OnLog"}, skip'[ph], ph # "EncodeHeaders"
        PROVE  SkipPhase(Chain, ph)'
    <3>1. ph # "DecodeHeaders"
      BY <2>5, <2>6
    <3>2. skip[ph] /\ SkipPhase(conf.consumer, ph)
      <4>1. MergedSkip[ph] = (skip[ph] /\ SkipPhase(conf.consumer, ph))
        BY <2>6, <3>1 DEF MergedSkip
      <4> QED BY <1>5, <2>6, <4>1
    <3>3. SkipPhase(conf.route, ph)
      BY <1>1, <2>6, <3>2 DEF ChainSound
    <3>4. \A m : SkipMethod(conf.route, m) /\ SkipMethod(conf.consumer, m) => SkipMethod(Chain, m)'
      BY <1>3, <2>4 DEF SkipMethod, Defines
    <3> QED BY <3>2, <3>3, <3>4 DEF SkipPhase
  <2>7. ChainSound'
    <3>1. Sorted(filters)'
      BY <2>1 DEF Sorted
    <3>2. \A p \in Plugins, m \in Methods : <<p, m>> \in ran' => p \in Chain'
      BY <1>3, <2>4 DEF ChainSound
    <3>3. waited' \subseteq ran'
      BY <1>3 DEF ChainSound
    <3>4. \A d \in Dir, p \in Plugins : Waited(d, p)' => (Whole(d) \in Defines(p))'
      BY <1>3 DEF ChainSound, Waited, Headers, Whole, Defines
    <3>5. \A ph \in Phases \union {"OnLog"} :
            (skip[ph] /\ ~(merged /\ ph = "EncodeHeaders") => SkipPhase(Chain, ph))'
      BY <1>5, <2>6
    <3> QED BY <3>1, <3>2, <3>3, <3>4, <3>5 DEF ChainSound
  <2>8. last \in 0 .. N
    BY <1>2 DEF N
  <2> QED BY <1>1, <2>1, <2>2, <2>3, <2>5, <2>7, <2>8
<1> QED BY <1>4, <1>5 DEF mergeConsumer

(* Nothing has run of a path that has not begun.                           *)
LEMMA NothingRan ==
  ASSUME TypeOK, ChainSound, NEW d \in Dir, SoFar(Path(d), 0, 0, 0, 0, 0), NEW m \in Hooks(d)
  PROVE  \A p : <<p, m>> \notin ran
<1>1. m \in Methods /\ Path(d).len = N /\ N \in Nat
  BY PathType, HooksDiffer
<1>2. ASSUME NEW k \in 1 .. N PROVE k \notin Called(d, m)
  <2>1. /\ k \notin Path(d).headers /\ k \notin Path(d).data
        /\ k \notin Path(d).trailers /\ k \notin Path(d).whole
    BY <1>1 DEF SoFar
  <2> QED BY <2>1, PathType DEF Hooks
<1>3. ASSUME NEW p, <<p, m>> \in ran PROVE FALSE
  <2>1. p \in Plugins /\ p \in Chain
    BY <1>1, <1>3 DEF TypeOK, ChainSound
  <2>2. PICK k \in 1 .. N : At(d, k) = p
    BY <2>1, AtChain
  <2> QED BY <1>2, <1>3, <2>2 DEF Called
<1> QED BY <1>3

(* The merge comes between the authentication filters and the others: no   *)
(* plugin is left out because of it, and none is called again.             *)
LEMMA MergeOrder ==
  ASSUME IInv, OrderInv, TypeOK', mergeConsumer
  PROVE  OrderInv'
<1> DEFINE d == "decode"
           last == consumerFiltersEndAt
           v == Path(d)
           x == Path(d)'
           t == Advance(d, "headers", last + 1)
<1>1. /\ TypeOK /\ PathInv(d) /\ PathInv("encode") /\ ChainSound /\ NotYet /\ Passed /\ ~again
      /\ d \in Dir /\ "encode" \in Dir
  BY DEF IInv, OrderInv, Dir
<1>2. task[d].pc = "authn" /\ task[d].cur > last /\ ~forwarded
  BY <1>1 DEF mergeConsumer, Now, NotYet
<1>3. ~skip["DecodeHeaders"]
  BY <1>1, <1>2 DEF PathInv, Started, HeadersPcs, Headers
<1>4. /\ filters = SortFilters(conf.route) /\ last \in 0 .. N /\ last \in Nat /\ N \in Nat
      /\ filters' \in Seq(Plugins) /\ last <= N' /\ N' \in Nat
      /\ \A k \in 1 .. last : filters'[k] = filters[k]
      /\ ChainSound' /\ skip'["DecodeHeaders"] = skip["DecodeHeaders"]
  BY <1>1, <1>3, MergedChain DEF TypeOK, N
<1>5. UNCHANGED <<conf, stage, msg, chunks, idx, needed, reqBuf, ran, waited, again>> /\ Go(d, t)
  BY DEF mergeConsumer, HandlerFrame, progressVars, historyVars
<1>6. SoFar(v, last, 0, 0, 0, 0) /\ v.len = N
  <2>1. task[d].cur \in 1 .. last + 1
    BY <1>1, <1>2 DEF IInv, Positions
  <2>2. task[d].cur - 1 = last
    BY <1>2, <1>4, <2>1
  <2> QED BY <1>1, <1>2, <2>2, PathType DEF PathInv, Progress
<1>7. /\ at["encode"] = "none" /\ task["encode"] = NoTask /\ idx["encode"] = 0
      /\ SoFar(Path("encode"), 0, 0, 0, 0, 0)
  <2>1. at["decode"] = "header"
    BY <1>2 DEF IInv, Early
  <2>2. at["encode"] = "none" /\ task["encode"] = NoTask /\ idx["encode"] = 0
    BY <2>1 DEF IInv, Early
  <2> QED BY <1>1, <2>2 DEF PathInv, Between, Untouched
<1>8. /\ t \in TaskType /\ t.pc = "headers" /\ t.cur = last + 1
      /\ t.meth = task[d].meth /\ t.es = task[d].es
  BY <1>1, <1>4, AdvanceKeeps DEF PCs
<1>9. \A e, h : Defines(e)' = Defines(e)
  BY <1>5 DEF Defines
<1>10. Path(d)' = [len |-> N', waits |-> Waiters(d)',
                   headers |-> Called(d, Headers(d))', data |-> Called(d, Data(d))',
                   trailers |-> Called(d, Trailers(d))', whole |-> Called(d, Whole(d))',
                   hasHeaders |-> Overrides(d, Headers(d))', hasData |-> Overrides(d, Data(d))',
                   hasTrailers |-> Overrides(d, Trailers(d))', hasWhole |-> Overrides(d, Whole(d))']
  BY DEF Path
<1>11. /\ \A h : Called(d, h)' = {k \in 1 .. N' : <<filters'[k], h>> \in ran}
       /\ \A h : Overrides(d, h)' = {k \in 1 .. N' : h \in Defines(filters'[k])}
       /\ Waiters(d)' = {k \in 1 .. N' : <<filters'[k], Headers(d)>> \in waited}
  BY <1>5, <1>9 DEF Called, Overrides, Waiters, At, Headers, Defines
<1>12. /\ \A h : Called(d, h) = {k \in 1 .. N : <<filters[k], h>> \in ran}
       /\ \A h : Overrides(d, h) = {k \in 1 .. N : h \in Defines(filters[k])}
       /\ Waiters(d) = {k \in 1 .. N : <<filters[k], Headers(d)>> \in waited}
  BY DEF Called, Overrides, Waiters, At, Headers
<1> HIDE DEF last, t
<1>13. ASSUME NEW k \in 1 .. N', NEW h \in Hooks(d), <<filters'[k], h>> \in ran
       PROVE  k <= last
  <2>1. filters'[k] \in Chain
    <3>1. h \in Methods /\ filters'[k] \in Plugins
      BY <1>1, <1>13, HooksDiffer DEF TypeOK
    <3> QED BY <1>1, <1>13, <3>1 DEF ChainSound
  <2>2. PICK j \in 1 .. N : filters[j] = filters'[k]
    BY <1>1, <2>1, AtChain DEF At
  <2>3. j \in Called(d, h)
    BY <1>12, <1>13, <2>2
  <2>4. j <= last
    BY <1>1, <1>4, <1>6, <2>2, <2>3, PathType DEF SoFar, Hooks
  <2>5. j \in 1 .. N' /\ filters'[j] = filters'[k]
    BY <1>4, <2>2, <2>4
  <2>6. j = k
    <3>1. Sorted(filters') /\ Len(filters') = N'
      BY <1>4 DEF ChainSound, Sorted, N
    <3> QED BY <1>4, <2>5, <3>1, SortedInjective
  <2> QED BY <2>4, <2>6
<1>14. \A q : SoFar(x, last, q, 0, 0, 0)
  <2>1. SUFFICES ASSUME NEW q, NEW k \in 1 .. N'
                 PROVE  /\ k \in x.headers <=> k <= last /\ k \in x.hasHeaders
                        /\ k \notin x.whole /\ k \notin x.data /\ k \notin x.trailers
                        /\ k \notin x.waits
    BY <1>4, <1>10 DEF SoFar
  <2>2. /\ x.headers = Called(d, Headers(d))' /\ x.data = Called(d, Data(d))'
        /\ x.trailers = Called(d, Trailers(d))' /\ x.whole = Called(d, Whole(d))'
        /\ x.waits = Waiters(d)' /\ x.hasHeaders = Overrides(d, Headers(d))'
    BY <1>10
  <2>3. CASE k <= last
    <3>1. k \in 1 .. N /\ k \in 1 .. v.len /\ filters'[k] = filters[k]
      BY <1>4, <1>6, <2>3
    <3>2. /\ \A h : k \in Called(d, h)' <=> k \in Called(d, h)
          /\ \A h : k \in Overrides(d, h)' <=> k \in Overrides(d, h)
          /\ k \in Waiters(d)' <=> k \in Waiters(d)
      <4>1. ASSUME NEW h PROVE k \in Called(d, h)' <=> k \in Called(d, h)
        <5>1. /\ k \in Called(d, h)' <=> <<filters'[k], h>> \in ran
              /\ k \in Called(d, h) <=> <<filters[k], h>> \in ran
          BY <1>11, <1>12, <3>1
        <5> QED BY <3>1, <5>1
      <4>2. ASSUME NEW h PROVE k \in Overrides(d, h)' <=> k \in Overrides(d, h)
        <5>1. /\ k \in Overrides(d, h)' <=> h \in Defines(filters'[k])
              /\ k \in Overrides(d, h) <=> h \in Defines(filters[k])
          BY <1>11, <1>12, <3>1
        <5> QED BY <3>1, <5>1
      <4>3. k \in Waiters(d)' <=> k \in Waiters(d)
        BY <1>11, <1>12, <3>1
      <4> QED BY <4>1, <4>2, <4>3
    <3>3. /\ k \in v.headers <=> k \in v.hasHeaders
          /\ k \notin v.whole /\ k \notin v.data /\ k \notin v.trailers /\ k \notin v.waits
      BY <1>6, <2>3, <3>1 DEF SoFar
    <3> QED BY <1>1, <2>2, <2>3, <3>2, <3>3, PathType
  <2>4. CASE ~(k <= last)
    <3>1. \A h \in Hooks(d) : <<filters'[k], h>> \notin ran
      BY <1>13, <2>4
    <3>2. <<filters'[k], Headers(d)>> \notin waited
      BY <1>1, <3>1, HooksDiffer DEF ChainSound
    <3>3. ASSUME NEW h \in Hooks(d) PROVE k \notin Called(d, h)'
      <4>1. k \in Called(d, h)' <=> <<filters'[k], h>> \in ran
        BY <1>11
      <4> QED BY <3>1, <4>1
    <3>4. k \notin Waiters(d)'
      BY <1>11, <3>2
    <3> QED BY <1>1, <2>2, <2>4, <3>3, <3>4, HooksDiffer
  <2> QED BY <2>3, <2>4
<1>15. Ordered(d)'
  <2>1. /\ 0 <= last /\ 0 \in Nat /\ x.len \in Nat /\ msg[d].body \in BOOLEAN
        /\ msg[d].body => 0 <= 0 + 1
    BY <1>1, <1>4, <1>10 DEF TypeOK, Message
  <2>2. SoFar(x, last, 0, 0, 0, 0)
    BY <1>14
  <2> HIDE DEF x
  <2>3. PathInOrder(x, msg[d].body) /\ TrailersOrdered(x) /\ EitherKind(x)
    BY <1>4, <2>1, <2>2, SoFarOrdered
  <2> QED BY <1>5, <2>3 DEF Ordered, x
<1>16. PathInv(d)' /\ NotYet' /\ Passed'
  <2>1. GoesOn(d, t)
    BY <1>2, <1>4, <1>5, <1>8 DEF GoesOn, Mode, HeadersPcs, Headers
  <2>2. task'[d] = t
    BY <1>1, <2>1, GoesOnStarted DEF PathInv
  <2>3. Progress(d)'
    <3>1. task'[d].cur - 1 = last /\ task'[d].pc = "headers"
      BY <1>4, <1>8, <2>2
    <3>2. SoFar(x, last, IF task'[d].es THEN last ELSE 0, 0, 0, 0)
      BY <1>14
    <3> QED BY <3>1, <3>2 DEF Progress
  <2> QED BY <1>1, <1>2, <1>15, <2>1, <2>3, GoesOnPathInv, GoesOnPassed
<1>17. PathInv("encode")'
  <2> DEFINE e == "encode"
             y == Path("encode")'
  <2>1. task'[e].pc = "idle" /\ at'[e] = "none" /\ idx'[e] = 0 /\ chunks'[e] = 0
    <3>1. task'[e] = task[e] /\ UNCHANGED at
      BY <1>1, <1>5 DEF Go, TypeOK
    <3>2. chunks[e] = 0
      BY <1>1, <1>7 DEF PathInv, Between, Untouched
    <3> QED BY <1>5, <1>7, <3>1, <3>2 DEF NoTask
  <2>2. y.len = N' /\ SoFar(y, 0, 0, 0, 0, 0)
    <3>1. \A h \in Hooks(e) : \A p : <<p, h>> \notin ran' /\ <<p, Headers(e)>> \notin waited'
      <4>1. \A h \in Hooks(e) : \A p : <<p, h>> \notin ran
        BY <1>1, <1>7, NothingRan
      <4> QED BY <1>1, <1>5, <4>1, HooksDiffer DEF ChainSound
    <3>2. /\ y.len = N' /\ y.headers = Called(e, Headers(e))' /\ y.data = Called(e, Data(e))'
          /\ y.trailers = Called(e, Trailers(e))' /\ y.whole = Called(e, Whole(e))'
          /\ y.waits = Waiters(e)'
      BY DEF Path
    <3>3. \A h \in Hooks(e) : Called(e, h)' = {}
      BY <3>1 DEF Called
    <3>4. Waiters(e)' = {}
      BY <3>1, HooksDiffer DEF Waiters, Headers, Dir
    <3>5. y.headers = {} /\ y.data = {} /\ y.trailers = {} /\ y.whole = {} /\ y.waits = {}
      BY <1>1, <3>2, <3>3, <3>4, HooksDiffer
    <3> QED BY <1>4, <3>2, <3>5 DEF SoFar
  <2> HIDE DEF y
  <2>3. PathInOrder(y, msg[e].body) /\ TrailersOrdered(y) /\ EitherKind(y)
    <3>1. 0 \in Nat /\ 0 <= 0 /\ y.len \in Nat /\ (msg[e].body => 0 <= 0 + 1)
          /\ msg[e].body \in BOOLEAN
      BY <1>1, <1>4, <2>2 DEF TypeOK, Message
    <3> QED BY <2>2, <3>1, SoFarOrdered
  <2>4. Ordered(e)'
    BY <1>5, <2>3 DEF Ordered, y
  <2>5. Started(e)' /\ Progress(e)'
    BY <2>1 DEF Started, Progress, HeadersPcs, WholePcs
  <2>6. Between(e)' /\ Complete(e)'
    BY <2>1, <2>2 DEF Between, Untouched, Complete, y
  <2> QED BY <2>4, <2>5, <2>6 DEF PathInv
<1> QED BY <1>1, <1>4, <1>5, <1>16, <1>17 DEF OrderInv, Dir

-----------------------------------------------------------------------------
(* The phases that Envoy delivers.                                         *)

(* What is shown of a phase of direction d.                                *)
Entered(d) == PathInv(d)' /\ (d = "decode" => NotYet' /\ Passed')

(* The phase is answered at once, or a handler is started for it.          *)
Skipped(d, es) ==
  /\ UNCHANGED task
  /\ at'[d] = (IF ~es THEN IF at[d] = "buffering" THEN "trailers" ELSE "data" ELSE "done")
  /\ d = "encode" => UNCHANGED forwarded
Handled(d, meth, es, pc, seg) ==
  /\ task'[d].pc = pc /\ task'[d].meth = meth /\ task'[d].cur = 1 /\ task'[d].seg = seg
  /\ task'[d].es = es
  /\ UNCHANGED <<at, forwarded>>
Same(d) ==
  /\ UNCHANGED <<conf, stage, filters, skip, merged, idx, needed, reqBuf, msg>>
  /\ \A e \in Dir : Path(e)' = Path(e)
  /\ Lost(d)' = Lost(d) /\ N' = N

(* Either way the chain, the paths and the manager's progress stay.        *)
LEMMA EnterEffect ==
  ASSUME TypeOK, OrderInv, NEW d \in Dir, NEW meth, NEW es \in BOOLEAN, NEW inline, NEW pc,
         NEW seg, at[d] # "stopped", Enter(d, meth, es, inline, pc, seg)
  PROVE  /\ Same(d) /\ ChainSound' /\ ~again' /\ Ordered(d)'
         /\ stage = "active" /\ task[d].pc = "idle"
         /\ IF skip[meth] THEN Skipped(d, es) ELSE Handled(d, meth, es, pc, seg)
         /\ \A e \in Dir : e # d => task'[e] = task[e] /\ at'[e] = at[e]
         /\ d = "encode" => UNCHANGED forwarded
<1>1. /\ UNCHANGED <<conf, stage, filters, skip, merged, idx, needed, reqBuf, msg>>
      /\ UNCHANGED <<ran, waited, again>>
      /\ stage = "active" /\ task[d].pc = "idle"
  BY DEF Enter, WorkerFree, chainVars, progressVars, historyVars, NoTask
<1>2. Same(d)
  BY <1>1, SamePath, SameLost DEF Same
<1>3. ChainSound' /\ ~again'
  BY <1>1, SameChain DEF OrderInv
<1>4. Ordered(d)'
  BY <1>1, <1>2 DEF OrderInv, PathInv, Ordered, Same
<1>5. /\ task \in [Dir -> TaskType] /\ at \in [Dir -> AtStates] /\ forwarded \in BOOLEAN
  BY DEF TypeOK, AtStates
<1>6. CASE skip[meth]
  <2>1. /\ UNCHANGED task
        /\ at' = [at EXCEPT ![d] = AfterPhase(d, meth, es, "Continue")]
        /\ forwarded' = (forwarded \/ (d = "decode" /\ "Continue" = "Continue"))
    BY <1>1, <1>6 DEF Enter, Answer
  <2>2. at'[d] = AfterPhase(d, meth, es, "Continue") /\ (d = "encode" => UNCHANGED forwarded)
    BY <1>5, <2>1
  <2>3. Skipped(d, es)
    BY <2>1, <2>2 DEF Skipped, AfterPhase
  <2> QED BY <1>1, <1>2, <1>3, <1>4, <1>5, <1>6, <2>1, <2>2, <2>3
<1>7. CASE ~skip[meth]
  <2>1. /\ task' = [task EXCEPT ![d] = [pc |-> pc, meth |-> meth, cur |-> 1, seg |-> seg,
                                        es |-> es, inline |-> inline]]
        /\ UNCHANGED <<at, forwarded>>
    BY <1>7 DEF Enter
  <2>2. Handled(d, meth, es, pc, seg) /\ \A e \in Dir : e # d => task'[e] = task[e]
    BY <1>5, <2>1 DEF Handled
  <2> QED BY <1>1, <1>2, <1>3, <1>4, <1>7, <2>1, <2>2
<1> QED BY <1>6, <1>7

(* The headers are delivered first.                                        *)
LEMMA EnterHeadersOrder ==
  ASSUME TypeOK, OrderInv, NEW d \in Dir, NEW pc \in {"init", "headers"}, EnterHeaders(d, pc)
  PROVE  Entered(d)
<1> DEFINE v == Path(d)
           es == ~msg[d].body /\ ~msg[d].trailers
<1>1. /\ at[d] = "header" /\ UNCHANGED chunks
      /\ Enter(d, Headers(d), es, sync[Headers(d)], pc, 0)
  BY DEF EnterHeaders
<1>2. es \in BOOLEAN /\ PathInv(d) /\ ChainSound /\ NotYet /\ Passed
  BY DEF OrderInv
<1>3. /\ Same(d) /\ ChainSound' /\ ~again' /\ Ordered(d)' /\ stage = "active"
      /\ task[d].pc = "idle"
      /\ IF skip[Headers(d)] THEN Skipped(d, es)
         ELSE Handled(d, Headers(d), es, pc, 0)
  <2> HIDE DEF es
  <2> QED BY <1>1, <1>2, EnterEffect
<1>4. /\ idx[d] = 0 /\ chunks[d] = 0 /\ SoFar(v, 0, 0, 0, 0, 0)
      /\ v.len = N /\ N \in Nat /\ (d = "decode" => ~forwarded)
  BY <1>1, <1>2, <1>3, PathType DEF PathInv, Between, Untouched, NotYet
<1>5. CASE skip[Headers(d)]
  <2>1. Streamed(v, TRUE) /\ NoTrailers(v) /\ \A k \in 1 .. v.len : k \notin v.waits
    BY <1>4 DEF SoFar, Streamed, NoTrailers
  <2>2. at'[d] \in {"data", "done"} /\ (at'[d] = "done" => es) /\ task'[d].pc = "idle"
    BY <1>1, <1>3, <1>5 DEF Skipped
  <2>3. Lost(d) \/ SeenHeaders(v)
    BY <1>2, <1>5, <2>1, SkippedHeaders DEF SeenHeaders
  <2>4. Streamed(v, skip[Headers(d)])
    <3>1. skip[Headers(d)] = TRUE
      BY <1>5, MethodTypes DEF TypeOK
    <3> QED BY <2>1, <3>1
  <2>5. Between(d)'
    <3>1. idx'[d] = 0 /\ ~(chunks'[d] > 0) /\ Path(d)' = v /\ skip' = skip
      BY <1>1, <1>3, <1>4 DEF Same
    <3> QED BY <2>1, <2>2, <2>4, <3>1 DEF Between
  <2>6. Complete(d)'
    BY <1>3, <2>2, <2>3 DEF Complete, Finished, SeenBody, SeenTrailers, Same
  <2>7. Started(d)' /\ Progress(d)'
    BY <2>2 DEF Started, Progress, HeadersPcs, WholePcs
  <2>8. d = "decode" => NotYet' /\ Passed'
    BY <1>3, <2>2, <2>3 DEF NotYet, Passed, Lost, Same
  <2> QED BY <1>3, <2>5, <2>6, <2>7, <2>8 DEF Entered, PathInv
<1>6. CASE ~skip[Headers(d)]
  <2>1. /\ task'[d].pc = pc /\ task'[d].meth = Headers(d) /\ task'[d].es = es
        /\ task'[d].cur - 1 = 0 /\ at'[d] = "header" /\ UNCHANGED <<at, forwarded>>
    BY <1>1, <1>3, <1>6 DEF Handled
  <2>2. Started(d)'
    BY <1>1, <1>3, <1>4, <1>6, <2>1 DEF Started, HeadersPcs, WholePcs, Same
  <2>3. Progress(d)'
    BY <1>3, <1>4, <2>1 DEF Progress, Same
  <2>4. Between(d)' /\ Complete(d)'
    BY <2>1 DEF Between, Complete
  <2>5. d = "decode" => NotYet' /\ Passed'
    BY <1>4, <2>1 DEF NotYet, Passed
  <2> QED BY <1>3, <2>2, <2>3, <2>4, <2>5 DEF Entered, PathInv
<1> QED BY <1>5, <1>6

(* A chunk of a streamed body, or the body that was buffered.              *)
LEMMA EnterDataOrder ==
  ASSUME TypeOK, OrderInv, NEW d \in Dir,
         NEW keepPc \in {"keep", "wholeData"}, keepPc = "keep" <=> d = "decode",
         EnterData(d, keepPc)
  PROVE  Entered(d)
<1> DEFINE v == Path(d)
           i == idx[d]
<1>1. PICK es \in BOOLEAN :
        /\ msg[d].body /\ (es => ~msg[d].trailers)
        /\ at[d] = "data" \/ (at[d] = "buffering" /\ es = ~msg[d].trailers)
        /\ Enter(d, Data(d), es,
                 sync[Data(d)] /\ (idx[d] = 0 \/ (sync[Headers(d)] /\ sync[Trailers(d)])),
                 IF i = 0 THEN "data" ELSE WholePc(es, keepPc), i)
        /\ chunks' = [chunks EXCEPT ![d] = IF es THEN @ ELSE @ + 1]
  BY DEF EnterData
<1> DEFINE pc == IF i = 0 THEN "data" ELSE WholePc(es, keepPc)
           inline == sync[Data(d)] /\ (idx[d] = 0 \/ (sync[Headers(d)] /\ sync[Trailers(d)]))
<1>2. PathInv(d) /\ ChainSound /\ NotYet /\ Passed /\ msg[d].trailers \in BOOLEAN
      /\ msg[d].body \in BOOLEAN /\ i \in Nat
  BY DEF OrderInv, TypeOK, Message
<1>3. /\ Same(d) /\ ChainSound' /\ ~again' /\ Ordered(d)' /\ stage = "active"
      /\ task[d].pc = "idle"
      /\ IF skip[Data(d)] THEN Skipped(d, es) ELSE Handled(d, Data(d), es, pc, i)
  <2>1. Enter(d, Data(d), es, inline, pc, i) /\ at[d] # "stopped"
    BY <1>1
  <2> HIDE DEF pc, inline, i
  <2> QED BY <2>1, EnterEffect
<1>4. v.len = N /\ N \in Nat
  BY PathType
<1>5. CASE at[d] = "data"
  <2>1. i = 0 /\ Streamed(v, skip[Headers(d)]) /\ NoTrailers(v)
    BY <1>2, <1>3, <1>5 DEF PathInv, Between
  <2>2. CASE skip[Data(d)]
    <3>1. at'[d] \in {"data", "done"} /\ (at'[d] = "done" => es) /\ task'[d].pc = "idle"
      BY <1>3, <1>5, <2>2 DEF Skipped
    <3>2. v.hasData = {}
      BY <1>2, <2>2, SkippedBody
    <3>3. Lost(d) \/ SeenHeaders(v)
      BY <1>2, <1>4, <2>1, StreamedPath
    <3>4. Between(d)'
      BY <1>3, <2>1, <3>1, <3>2 DEF Between, Same, DataBefore
    <3>5. Complete(d)'
      BY <1>1, <1>3, <3>1, <3>2, <3>3 DEF Complete, Finished, SeenBody, SeenTrailers, Same
    <3>6. Started(d)' /\ Progress(d)'
      BY <3>1 DEF Started, Progress, HeadersPcs, WholePcs
    <3>7. d = "decode" => NotYet' /\ Passed'
      BY <1>3, <3>1, <3>3 DEF NotYet, Passed, Lost, Same
    <3> QED BY <1>3, <3>4, <3>5, <3>6, <3>7 DEF Entered, PathInv
  <2>3. CASE ~skip[Data(d)]
    <3>1. /\ task'[d].pc = "data" /\ task'[d].meth = Data(d) /\ task'[d].es = es
          /\ task'[d].cur = 1 /\ UNCHANGED <<at, forwarded>>
      BY <1>3, <2>1, <2>3 DEF Handled
    <3>2. Started(d)'
      BY <1>1, <1>3, <1>5, <2>1, <3>1 DEF Started, HeadersPcs, WholePcs, Same
    <3>3. DataBefore(v, 1)
      BY <1>4 DEF DataBefore
    <3>4. Progress(d)'
      BY <1>3, <2>1, <3>1, <3>3 DEF Progress, Same
    <3>5. Between(d)' /\ Complete(d)'
      BY <1>5, <3>1 DEF Between, Complete
    <3>6. d = "decode" => NotYet' /\ Passed'
      BY <1>2, <1>3, <1>5, <3>1 DEF NotYet, Passed, Same, Dir
    <3> QED BY <1>3, <3>2, <3>4, <3>5, <3>6 DEF Entered, PathInv
  <2> QED BY <2>2, <2>3
<1>6. CASE at[d] = "buffering" /\ es = ~msg[d].trailers
  <2>1. i \in v.waits /\ SoFar(v, i, 0, 0, 0, i) /\ Waiting(d)
    BY <1>2, <1>3, <1>6 DEF PathInv, Between, Waiting
  <2>2. ~skip[Data(d)]
    BY <1>2, <2>1, SkippedBody
  <2>3. i \in 1 .. N /\ i # 0
    BY <1>2, <2>1, WaitersTakeWhole
  <2>4. /\ task'[d].pc = WholePc(es, keepPc) /\ task'[d].meth = Data(d) /\ task'[d].es = es
        /\ task'[d].cur = 1 /\ task'[d].seg = i /\ UNCHANGED <<at, forwarded>>
    BY <1>3, <2>2, <2>3 DEF Handled
  <2>5. hasBody(d)' /\ hasTrailers(d)' = FALSE
    BY <2>4 DEF hasBody, hasTrailers, Data
  <2>6. Started(d)'
    BY <1>1, <1>3, <1>6, <2>3, <2>4, <2>5 DEF Started, HeadersPcs, WholePcs, Same, WholePc, Dir
  <2>7. Progress(d)'
    <3>1. CASE task'[d].pc = "keep"
      <4>1. Waiting(d)'
        BY <1>3, <2>1 DEF Waiting, Same
      <4> QED BY <3>1, <4>1 DEF Progress
    <3>2. CASE task'[d].pc = "wholeData"
      <4>1. Segment(d)'
        BY <1>3, <2>1, <2>4 DEF Segment, Same
      <4>2. SoFar(v, i, 0, 1 - 1, 0, i) /\ 0 < 1 /\ 1 <= i
        BY <2>1, <2>3
      <4>3. idx'[d] = i /\ Path(d)' = v
        BY <1>3 DEF Same
      <4> HIDE DEF v, i
      <4> QED BY <2>4, <2>5, <3>2, <4>1, <4>2, <4>3 DEF Progress
    <3> QED BY <2>4, <3>1, <3>2 DEF WholePc
  <2>8. Between(d)' /\ Complete(d)'
    BY <1>6, <2>4 DEF Between, Complete, WholePc
  <2>9. d = "decode" => NotYet' /\ Passed'
    BY <1>2, <1>3, <1>6, <2>4 DEF NotYet, Passed, Same, Dir
  <2> QED BY <1>3, <2>6, <2>7, <2>8, <2>9 DEF Entered, PathInv
<1> QED BY <1>1, <1>5, <1>6

(* The trailers of a streamed message, or of one that was buffered.        *)
LEMMA EnterTrailersOrder ==
  ASSUME TypeOK, OrderInv, NEW d \in Dir, NEW syncRun \in BOOLEAN,
         NEW wholePc \in {"ignore", "wholeData"}, wholePc = "wholeData" <=> d = "decode",
         EnterTrailers(d, syncRun, wholePc)
  PROVE  Entered(d)
<1> DEFINE v == Path(d)
           i == idx[d]
           pc == IF i = 0 THEN "trailers" ELSE wholePc
           inline == sync[Trailers(d)] /\ (idx[d] = 0 \/ syncRun)
<1>1. /\ msg[d].trailers
      /\ \/ at[d] = "data" /\ (msg[d].body => chunks[d] > 0)
         \/ at[d] = "buffering" /\ ~msg[d].body
         \/ at[d] = "trailers"
      /\ Enter(d, Trailers(d), TRUE, inline, pc, i) /\ UNCHANGED chunks
  BY DEF EnterTrailers
<1>2. PathInv(d) /\ ChainSound /\ NotYet /\ Passed /\ msg[d].trailers \in BOOLEAN
      /\ msg[d].body \in BOOLEAN /\ i \in Nat
  BY DEF OrderInv, TypeOK, Message
<1>3. /\ Same(d) /\ ChainSound' /\ ~again' /\ Ordered(d)' /\ stage = "active"
      /\ task[d].pc = "idle"
      /\ IF skip[Trailers(d)] THEN Skipped(d, TRUE)
         ELSE Handled(d, Trailers(d), TRUE, pc, i)
  <2>1. at[d] # "stopped"
    BY <1>1
  <2> HIDE DEF pc, inline, i
  <2> QED BY <1>1, <2>1, EnterEffect
<1>4. v.len = N /\ N \in Nat
  BY PathType
<1>5. ASSUME skip[Trailers(d)],
             Lost(d) \/ (Finished(d) /\ (~(d = "encode" /\ i # 0) => SeenTrailers(v, TRUE)))
      PROVE  Entered(d)
  <2>1. at'[d] = "done" /\ task'[d].pc = "idle"
    BY <1>3, <1>5 DEF Skipped
  <2>2. Between(d)'
    BY <2>1 DEF Between
  <2>3. Complete(d)'
    BY <1>1, <1>3, <1>5, <2>1 DEF Complete, Finished, Same, SeenTrailers
  <2>4. Started(d)' /\ Progress(d)'
    BY <2>1 DEF Started, Progress, HeadersPcs, WholePcs
  <2>5. d = "decode" => NotYet' /\ Passed'
    BY <1>3, <1>5, <2>1 DEF NotYet, Passed, Lost, Finished, Same
  <2> QED BY <1>3, <2>2, <2>3, <2>4, <2>5 DEF Entered, PathInv
<1>6. ASSUME ~skip[Trailers(d)], Started(d)', Progress(d)' PROVE Entered(d)
  <2>1. task'[d].pc = pc /\ UNCHANGED <<at, forwarded>> /\ at[d] \notin {"none", "done"}
    BY <1>1, <1>3, <1>6 DEF Handled
  <2>2. Between(d)' /\ Complete(d)'
    BY <2>1 DEF Between, Complete
  <2>3. d = "decode" => NotYet' /\ Passed'
    <3>1. SUFFICES ASSUME d = "decode" PROVE NotYet' /\ Passed'
      OBVIOUS
    <3>2. pc \notin {"data", "trailers"} => i # 0
      OBVIOUS
    <3>3. CASE at[d] = "data"
      <4>1. i = 0 /\ pc = "trailers"
        BY <1>2, <1>3, <3>3 DEF PathInv, Between
      <4> QED BY <1>2, <1>3, <2>1, <3>1, <3>3, <4>1 DEF NotYet, Passed, Same
    <3>4. CASE at[d] # "data"
      <4>1. ~forwarded
        BY <1>1, <1>2, <3>1, <3>4 DEF NotYet
      <4> QED BY <2>1, <4>1 DEF NotYet, Passed
    <3> QED BY <3>3, <3>4
  <2> QED BY <1>3, <1>6, <2>2, <2>3 DEF Entered, PathInv
<1>7. ASSUME ~skip[Trailers(d)]
      PROVE  /\ task'[d].pc = pc /\ task'[d].meth = Trailers(d) /\ task'[d].es = TRUE
             /\ task'[d].cur = 1 /\ task'[d].seg = i /\ UNCHANGED <<at, forwarded>>
  BY <1>3, <1>7 DEF Handled
<1>8. ASSUME d = "decode", Waiting(d), at[d] \in {"buffering", "trailers"},
             msg[d].body => reqBuf
      PROVE  Entered(d)
  <2>1. i \in v.waits /\ SoFar(v, i, 0, 0, 0, i)
    BY <1>8 DEF Waiting
  <2>2. ~skip[Trailers(d)]
    BY <1>2, <2>1, SkippedBody
  <2>3. i \in 1 .. N /\ i # 0
    BY <1>2, <2>1, WaitersTakeWhole
  <2>4. task'[d].pc = "wholeData" /\ task'[d].meth = Trailers(d)
    BY <1>7, <1>8, <2>2, <2>3
  <2>5. (msg[d].body => hasBody(d)') /\ hasTrailers(d)'
    BY <1>3, <1>8, <2>4 DEF hasBody, hasTrailers, Trailers, Same
  <2>6. Started(d)'
    BY <1>3, <1>7, <1>8, <2>2, <2>4, <2>5 DEF Started, HeadersPcs, WholePcs, Same
  <2>7. Progress(d)'
    <3>1. Segment(d)'
      BY <1>3, <1>7, <2>1, <2>2 DEF Segment, Same
    <3>2. SoFar(v, i, 0, IF hasBody(d)' THEN 1 - 1 ELSE 0, IF hasTrailers(d)' THEN 0 ELSE 0, i)
          /\ 0 < 1 /\ 1 <= i
      BY <2>1, <2>3
    <3>3. idx'[d] = i /\ Path(d)' = v
      BY <1>3 DEF Same
    <3> HIDE DEF v, i
    <3> QED BY <1>7, <2>2, <2>4, <3>1, <3>2, <3>3 DEF Progress
  <2> QED BY <1>6, <2>2, <2>6, <2>7
<1>9. ASSUME d = "encode", i # 0, msg[d].body => Finished(d), at[d] \in {"buffering", "trailers"},
             ~skip[Trailers(d)]
      PROVE  Entered(d)
  <2>1. task'[d].pc = "ignore"
    BY <1>7, <1>9
  <2>2. Started(d)'
    BY <1>3, <1>7, <1>9, <2>1 DEF Started, HeadersPcs, WholePcs, Same
  <2>3. Progress(d)'
    BY <1>3, <1>9, <2>1 DEF Progress, Finished, Same
  <2> QED BY <1>6, <1>9, <2>2, <2>3
<1>10. CASE at[d] = "data"
  <2>1. i = 0 /\ Streamed(v, skip[Headers(d)]) /\ NoTrailers(v) /\ SeenBody(v, msg[d].body)
    <3>1. i = 0 /\ Streamed(v, skip[Headers(d)]) /\ NoTrailers(v)
          /\ (chunks[d] > 0 => DataBefore(v, N + 1))
      BY <1>2, <1>3, <1>10 DEF PathInv, Between
    <3>2. msg[d].body => DataBefore(v, N + 1)
      BY <1>1, <1>10, <3>1
    <3> QED BY <1>4, <3>1, <3>2 DEF SeenBody, DataBefore
  <2>2. CASE skip[Trailers(d)]
    <3>1. v.hasTrailers = {}
      BY <1>2, <2>2, SkippedBody
    <3>2. Lost(d) \/ SeenHeaders(v)
      BY <1>2, <1>4, <2>1, StreamedPath
    <3> QED BY <1>5, <2>1, <2>2, <3>1, <3>2 DEF Finished, SeenTrailers
  <2>3. CASE ~skip[Trailers(d)]
    <3>1. task'[d].pc = "trailers"
      BY <1>7, <2>1, <2>3
    <3>2. Started(d)'
      BY <1>3, <1>7, <1>10, <2>1, <2>3, <3>1 DEF Started, HeadersPcs, WholePcs, Same
    <3>3. TrailersBefore(d, v, 1)
      BY <1>4, <2>1 DEF TrailersBefore, NoTrailers
    <3>4. Progress(d)'
      BY <1>3, <1>7, <2>1, <2>3, <3>1, <3>3 DEF Progress, Same
    <3> QED BY <1>6, <2>3, <3>2, <3>4
  <2> QED BY <2>2, <2>3
<1>11. CASE at[d] = "buffering" /\ ~msg[d].body
  <2>1. Waiting(d) /\ i \in v.waits
    BY <1>2, <1>3, <1>11 DEF PathInv, Between, Waiting
  <2>2. ~skip[Trailers(d)] /\ i # 0
    BY <1>2, <2>1, SkippedBody, WaitersTakeWhole
  <2> QED BY <1>8, <1>9, <1>11, <2>1, <2>2 DEF Dir
<1>12. CASE at[d] = "trailers"
  <2>1. IF d = "decode" THEN Waiting(d) /\ (msg[d].body => reqBuf) ELSE i # 0 /\ Finished(d)
    BY <1>2, <1>3, <1>12 DEF PathInv, Between
  <2>2. CASE d = "decode"
    BY <1>8, <1>12, <2>1, <2>2
  <2>3. CASE d = "encode"
    BY <1>5, <1>9, <1>12, <2>1, <2>3
  <2> QED BY <2>2, <2>3 DEF Dir
<1> QED BY <1>1, <1>10, <1>11, <1>12

(* One phase at a time, and the other direction goes on as it was.         *)
LEMMA EventOrder ==
  ASSUME IInv, OrderInv, DecodeEvent \/ EncodeEvent
  PROVE  OrderInv'
<1>1. TypeOK
  BY DEF IInv
<1>2. ASSUME NEW d \in Dir, Entered(d), ChainSound', ~again', NEW meth, NEW es \in BOOLEAN,
             NEW inline, NEW pc, NEW seg, at[d] # "stopped",
             Enter(d, meth, es, inline, pc, seg),
             \A e \in Dir : e # d => chunks'[e] = chunks[e]
      PROVE  OrderInv'
  <2>1. /\ Same(d) /\ \A e \in Dir : e # d => task'[e] = task[e] /\ at'[e] = at[e]
        /\ d = "encode" => UNCHANGED forwarded
    BY <1>1, <1>2, EnterEffect
  <2>2. ASSUME NEW e \in Dir, e # d PROVE PathInv(e)'
    <3>1. Still(e)
      BY <1>2, <2>1, <2>2 DEF Still, Same
    <3> QED BY <3>1, StillPathInv DEF OrderInv
  <2>3. NotYet' /\ Passed'
    <3>1. CASE d = "decode"
      BY <1>2, <3>1 DEF Entered
    <3>2. CASE d = "encode"
      <4>1. "decode" \in Dir /\ "decode" # d
        BY <3>2 DEF Dir
      <4>2. task'["decode"] = task["decode"] /\ at'["decode"] = at["decode"]
            /\ UNCHANGED forwarded /\ Path("decode")' = Path("decode")
        BY <2>1, <3>2, <4>1 DEF Same
      <4> QED BY <4>2 DEF OrderInv, NotYet, Passed
    <3> QED BY <1>2, <3>1, <3>2 DEF Dir
  <2> QED BY <1>2, <2>2, <2>3 DEF Entered, OrderInv
<1>3. chunks \in [Dir -> Nat] /\ \A ph \in Phases : sync[ph] \in BOOLEAN
  BY <1>1 DEF TypeOK
<1>4. ASSUME NEW d \in Dir, NEW meth, NEW es \in BOOLEAN, NEW inline, NEW pc, NEW seg,
             at[d] # "stopped", Enter(d, meth, es, inline, pc, seg)
      PROVE  ChainSound' /\ ~again'
  BY <1>1, <1>4, EnterEffect
<1>5. ASSUME NEW d \in Dir, NEW pc \in {"init", "headers"}, EnterHeaders(d, pc)
      PROVE  OrderInv'
  <2> DEFINE es == ~msg[d].body /\ ~msg[d].trailers
  <2>1. /\ at[d] # "stopped" /\ UNCHANGED chunks /\ es \in BOOLEAN
        /\ Enter(d, Headers(d), es, sync[Headers(d)], pc, 0)
    BY <1>5 DEF EnterHeaders
  <2>2. Entered(d)
    BY <1>1, <1>5, EnterHeadersOrder
  <2> HIDE DEF es
  <2>3. ChainSound' /\ ~again'
    BY <1>4, <2>1
  <2> QED BY <1>2, <2>1, <2>2, <2>3
<1>6. ASSUME NEW d \in Dir, NEW keepPc \in {"keep", "wholeData"}, keepPc = "keep" <=> d = "decode",
             EnterData(d, keepPc)
      PROVE  OrderInv'
  <2> DEFINE inline == sync[Data(d)] /\ (idx[d] = 0 \/ (sync[Headers(d)] /\ sync[Trailers(d)]))
             pc(es) == IF idx[d] = 0 THEN "data" ELSE WholePc(es, keepPc)
  <2>1. PICK es \in BOOLEAN :
          /\ at[d] # "stopped" /\ Enter(d, Data(d), es, inline, pc(es), idx[d])
          /\ chunks' = [chunks EXCEPT ![d] = IF es THEN @ ELSE @ + 1]
    BY <1>6 DEF EnterData
  <2>2. Entered(d)
    BY <1>1, <1>6, EnterDataOrder
  <2>3. \A e \in Dir : e # d => chunks'[e] = chunks[e]
    BY <1>3, <2>1
  <2> HIDE DEF inline, pc
  <2>4. ChainSound' /\ ~again'
    BY <1>4, <2>1
  <2> QED BY <1>2, <2>1, <2>2, <2>3, <2>4
<1>7. ASSUME NEW d \in Dir, NEW syncRun \in BOOLEAN, NEW wholePc \in {"ignore", "wholeData"},
             wholePc = "wholeData" <=> d = "decode", EnterTrailers(d, syncRun, wholePc)
      PROVE  OrderInv'
  <2> DEFINE inline == sync[Trailers(d)] /\ (idx[d] = 0 \/ syncRun)
             pc == IF idx[d] = 0 THEN "trailers" ELSE wholePc
  <2>1. /\ at[d] # "stopped" /\ UNCHANGED chunks
        /\ Enter(d, Trailers(d), TRUE, inline, pc, idx[d])
    BY <1>7 DEF EnterTrailers
  <2>2. Entered(d)
    BY <1>1, <1>7, EnterTrailersOrder
  <2> HIDE DEF inline, pc
  <2>3. ChainSound' /\ ~again'
    BY <1>4, <2>1
  <2> QED BY <1>2, <2>1, <2>2, <2>3
<1>8. \A d \in Dir : Headers(d) \in Phases /\ Data(d) \in Phases /\ Trailers(d) \in Phases
  BY MethodTypes
<1>9. CASE DecodeEvent
  <2>1. "decode" \in Dir /\ (sync["DecodeHeaders"] /\ sync["DecodeTrailers"]) \in BOOLEAN
    BY DEF Dir
  <2>2. CASE DecodeHeaders
    BY <1>5, <2>1, <2>2 DEF DecodeHeaders
  <2>3. CASE DecodeData
    BY <1>6, <2>1, <2>3 DEF DecodeData
  <2>4. CASE DecodeTrailers
    BY <1>7, <2>1, <2>4 DEF DecodeTrailers
  <2> QED BY <1>9, <2>2, <2>3, <2>4 DEF DecodeEvent
<1>10. CASE EncodeEvent
  <2>1. "encode" \in Dir /\ (sync["EncodeHeaders"] /\ sync["EncodeData"]) \in BOOLEAN
        /\ "encode" # "decode"
    BY DEF Dir
  <2>2. CASE EncodeHeaders
    BY <1>5, <2>1, <2>2 DEF EncodeHeaders
  <2>3. CASE EncodeData
    BY <1>6, <2>1, <2>3 DEF EncodeData
  <2>4. CASE EncodeTrailers
    BY <1>7, <2>1, <2>4 DEF EncodeTrailers
  <2> QED BY <1>10, <2>2, <2>3, <2>4 DEF EncodeEvent
<1> QED BY <1>9, <1>10

-----------------------------------------------------------------------------
(* The beginning and the end of a stream.                                  *)

(* A path of which nothing has run is in order.                            *)
LEMMA FreshPath ==
  ASSUME NEW v, v.len \in Nat, v.waits = {}, v.headers = {}, v.data = {}, v.trailers = {},
         v.whole = {}, NEW body
  PROVE  /\ SoFar(v, 0, 0, 0, 0, 0)
         /\ PathInOrder(v, body) /\ TrailersOrdered(v) /\ EitherKind(v)
BY DEF SoFar, PathInOrder, TrailersOrdered, EitherKind

(* A new stream, or an object without one.                                 *)
LEMMA FreshPathInv ==
  ASSUME NEW d \in Dir, ran' = {}, waited' = {}, N' \in Nat, task'[d].pc = "idle",
         at'[d] \in {"none", "header"}, idx'[d] = 0, chunks'[d] = 0
  PROVE  PathInv(d)'
<1> DEFINE x == Path(d)'
<1>1. /\ x.len = N' /\ x.waits = {} /\ x.headers = {} /\ x.data = {} /\ x.trailers = {}
      /\ x.whole = {}
  BY DEF Path, Called, Waiters
<1> HIDE DEF x
<1>2. /\ SoFar(x, 0, 0, 0, 0, 0)
      /\ PathInOrder(x, msg'[d].body) /\ TrailersOrdered(x) /\ EitherKind(x)
  BY <1>1, FreshPath
<1>3. Ordered(d)'
  BY <1>2 DEF Ordered, x
<1>4. Started(d)' /\ Progress(d)'
  BY DEF Started, Progress, HeadersPcs, WholePcs
<1>5. Between(d)' /\ Complete(d)'
  BY <1>2 DEF Between, Untouched, Complete, x
<1> QED BY <1>3, <1>4, <1>5 DEF PathInv

(* The invariant holds when no stream has begun.                           *)
LEMMA InitOrder == Init => OrderInv
<1> SUFFICES ASSUME Init PROVE OrderInv
  OBVIOUS
<1>1. /\ filters = <<>> /\ N = 0 /\ ran = {} /\ waited = {} /\ ~again /\ ~forwarded
      /\ idx = [d \in Dir |-> 0] /\ chunks = [d \in Dir |-> 0]
      /\ task = [d \in Dir |-> NoTask] /\ at = [d \in Dir |-> "none"]
      /\ skip = [ph \in Phases \union {"OnLog"} |-> FALSE]
  BY DEF Init, New, N
<1>2. ASSUME NEW d \in Dir PROVE PathInv(d)
  <2> DEFINE v == Path(d)
  <2>1. /\ v.len \in Nat /\ v.waits = {} /\ v.headers = {} /\ v.data = {} /\ v.trailers = {}
        /\ v.whole = {}
    BY <1>1 DEF Path, Called, Waiters
  <2> HIDE DEF v
  <2>2. /\ SoFar(v, 0, 0, 0, 0, 0)
        /\ PathInOrder(v, msg[d].body) /\ TrailersOrdered(v) /\ EitherKind(v)
    BY <2>1, FreshPath
  <2>3. task[d].pc = "idle" /\ at[d] = "none" /\ idx[d] = 0 /\ chunks[d] = 0
    BY <1>1 DEF NoTask
  <2>4. Ordered(d)
    BY <2>2 DEF Ordered, v
  <2>5. Started(d) /\ Progress(d)
    BY <2>3 DEF Started, Progress, HeadersPcs, WholePcs
  <2>6. Between(d) /\ Complete(d)
    BY <2>2, <2>3 DEF Between, Untouched, Complete, v
  <2> QED BY <2>4, <2>5, <2>6 DEF PathInv
<1>3. ChainSound
  BY <1>1 DEF ChainSound, Sorted, Waited
<1> QED BY <1>1, <1>2, <1>3 DEF OrderInv, NotYet, Passed

(* An object in the pool remembers no call.                                *)
LEMMA PoolNothingRan ==
  ASSUME TypeOK, ChainSound, filters = <<>>
  PROVE  ran = {} /\ waited = {}
<1>1. Chain = {}
  BY DEF Chain, RangeOf
<1>2. ran = {}
  BY <1>1 DEF ChainSound, TypeOK
<1> QED BY <1>2 DEF ChainSound

(* A stream begins with the route's chain.                                 *)
LEMMA FactoryOrder ==
  ASSUME IInv, OrderInv, FilterManagerFactory
  PROVE  OrderInv'
<1>1. /\ TypeOK /\ ChainSound /\ ~again /\ stage = "pool" /\ New /\ ~forwarded
      /\ task = [d \in Dir |-> NoTask] /\ at = [d \in Dir |-> "none"]
      /\ conf \in Setups /\ conf.route \in SUBSET Plugins
  <2>1. TypeOK /\ ChainSound /\ ~again /\ stage = "pool"
    BY DEF IInv, OrderInv, FilterManagerFactory
  <2>2. conf \in Setups /\ conf.route \in SUBSET Plugins
    BY <2>1, SetupType DEF TypeOK, Setup
  <2> QED BY <2>1, <2>2 DEF IInv, Free
<1>2. ran = {} /\ waited = {}
  BY <1>1, PoolNothingRan DEF New
<1>3. /\ filters' = SortFilters(conf.route) /\ skip' = FactorySkip
      /\ at' = [at EXCEPT !["decode"] = "header"]
      /\ UNCHANGED <<conf, merged, idx, task, chunks, forwarded, ran, waited, again>>
  BY DEF FilterManagerFactory, progressVars, goVars, historyVars
<1>4. N' \in Nat /\ Sorted(filters') /\ Chain' = conf.route
  BY <1>1, <1>3, SortFiltersType, SortFiltersRange DEF N, Chain
<1>5. ASSUME NEW d \in Dir PROVE PathInv(d)'
  <2>1. /\ task'[d].pc = "idle" /\ at'[d] \in {"none", "header"} /\ idx'[d] = 0
    BY <1>1, <1>3 DEF NoTask, New
  <2>2. chunks'[d] = 0
    BY <1>1, <1>3 DEF OrderInv, PathInv, Between, Untouched
  <2> QED BY <1>2, <1>3, <1>4, <2>1, <2>2, FreshPathInv
<1>6. ChainSound'
  <2>1. Sorted(filters)'
    BY <1>4 DEF Sorted
  <2>2. ASSUME NEW ph \in Phases \union {"OnLog"}, skip'[ph] PROVE SkipPhase(Chain, ph)'
    <3>1. SkipPhase(conf.route, ph)
      BY <1>3, <2>2 DEF FactorySkip
    <3> QED BY <1>3, <1>4, <3>1 DEF SkipPhase, SkipMethod, Defines
  <2> QED BY <1>2, <1>3, <2>1, <2>2 DEF ChainSound, Waited
<1>7. NotYet' /\ Passed' /\ ~again'
  BY <1>1, <1>3 DEF NotYet, Passed
<1> QED BY <1>5, <1>6, <1>7 DEF OrderInv

(* A stream is forgotten when its object goes back to the pool.            *)
LEMMA ForgetOrder ==
  ASSUME ForgetStream, Free', stage' = "pool"
  PROVE  OrderInv'
<1>1. /\ filters' = <<>> /\ N' = 0 /\ ran' = {} /\ waited' = {} /\ ~again' /\ ~forwarded'
      /\ idx' = [d \in Dir |-> 0] /\ chunks' = [d \in Dir |-> 0]
      /\ task' = [d \in Dir |-> NoTask] /\ at' = [d \in Dir |-> "none"]
      /\ skip' = [ph \in Phases \union {"OnLog"} |-> FALSE]
  BY DEF ForgetStream, Free, New, N
<1>2. ASSUME NEW d \in Dir PROVE PathInv(d)'
  <2>1. task'[d].pc = "idle" /\ at'[d] = "none" /\ idx'[d] = 0 /\ chunks'[d] = 0
    BY <1>1 DEF NoTask
  <2> QED BY <1>1, <2>1, FreshPathInv
<1>3. ChainSound'
  BY <1>1 DEF ChainSound, Sorted, Waited
<1> QED BY <1>1, <1>2, <1>3 DEF OrderInv, NotYet, Passed

(* A response begins, the upstream's or a local reply.                     *)
LEMMA ResponseBegins ==
  ASSUME TypeOK, TypeOK', PathInv("encode"), at["encode"] = "none", at'["encode"] = "header",
         UNCHANGED <<conf, filters, idx, task, chunks, ran, waited>>
  PROVE  PathInv("encode")'
<1> DEFINE e == "encode"
           x == Path(e)'
<1>1. /\ task[e].pc = "idle" /\ idx[e] = 0 /\ chunks[e] = 0
      /\ SoFar(x, 0, 0, 0, 0, 0) /\ x.len \in Nat /\ msg'[e].body \in BOOLEAN
  <2>1. Path(e)' = Path(e) /\ Path(e).len \in Nat
    BY SamePath, PathType DEF Dir
  <2>2. msg'[e].body \in BOOLEAN
    BY DEF TypeOK, Message, Dir
  <2> QED BY <2>1, <2>2 DEF PathInv, Between, Untouched
<1> HIDE DEF x
<1>2. PathInOrder(x, msg'[e].body) /\ TrailersOrdered(x) /\ EitherKind(x)
  <2>1. 0 \in Nat /\ 0 <= 0 /\ (msg'[e].body => 0 <= 0 + 1)
    OBVIOUS
  <2> QED BY <1>1, <2>1, SoFarOrdered
<1>3. Ordered(e)'
  BY <1>2 DEF Ordered, x
<1>4. Started(e)' /\ Progress(e)'
  BY <1>1 DEF Started, Progress, HeadersPcs, WholePcs
<1>5. Between(e)' /\ Complete(e)'
  BY <1>1 DEF Between, Untouched, Complete, x
<1> QED BY <1>3, <1>4, <1>5 DEF PathInv

(* The steps that are nobody's handler's.                                  *)
LEMMA QuietOrder ==
  ASSUME IInv, OrderInv, UNCHANGED <<conf, chainVars, progressVars, task, historyVars, chunks>>,
         UNCHANGED forwarded,
         \A d \in Dir : \/ /\ msg'[d] = msg[d]
                           /\ at'[d] = "stopped" \/ (at'[d] = at[d] /\ (stage' = stage \/ stage' # "active"))
                        \/ /\ d = "encode" /\ at[d] = "none" /\ at'[d] = "header" /\ TypeOK'
  PROVE  OrderInv'
<1>1. /\ TypeOK /\ UNCHANGED <<conf, filters, skip, merged, idx, needed, reqBuf>>
      /\ UNCHANGED <<ran, waited, again>>
  BY DEF IInv, chainVars, progressVars, historyVars
<1>2. \A e \in Dir : Path(e)' = Path(e)
  BY <1>1, SamePath
<1>3. ASSUME NEW e \in Dir PROVE PathInv(e)'
  <2>1. CASE /\ msg'[e] = msg[e]
             /\ at'[e] = "stopped" \/ (at'[e] = at[e] /\ (stage' = stage \/ stage' # "active"))
    <3>1. Still(e)
      BY <1>1, <1>2, <2>1 DEF Still
    <3> QED BY <3>1, StillPathInv DEF OrderInv
  <2>2. CASE e = "encode" /\ at[e] = "none" /\ at'[e] = "header" /\ TypeOK'
    BY <1>1, <2>2, ResponseBegins DEF OrderInv
  <2> QED BY <2>1, <2>2
<1>4. ChainSound' /\ ~again'
  BY <1>1, SameChain DEF OrderInv
<1>5. at'["decode"] = at["decode"] \/ at'["decode"] = "stopped"
  BY DEF Dir
<1>6. NotYet' /\ Passed'
  BY <1>1, <1>2, <1>5 DEF OrderInv, NotYet, Passed, Dir
<1> QED BY <1>3, <1>4, <1>6 DEF OrderInv

(* Every step keeps the invariant.                                         *)
LEMMA NextOrder ==
  ASSUME IInv, IInv', OrderInv, [Next]_vars
  PROVE  OrderInv'
<1>1. TypeOK /\ TypeOK' /\ Free' /\ at \in [Dir -> AtStates] /\ msg \in [Dir -> Message]
      /\ PathInv("encode") /\ "encode" \in Dir /\ "decode" \in Dir
  BY DEF IInv, OrderInv, TypeOK, AtStates, Dir
<1>2. CASE FilterManagerFactory
  BY <1>2, FactoryOrder
<1>3. CASE DecodeEvent \/ EncodeEvent
  BY <1>3, EventOrder
<1>4. CASE UpstreamResponse
  <2>1. /\ UNCHANGED <<conf, stage, chainVars, progressVars, task, historyVars, chunks>>
        /\ UNCHANGED forwarded
        /\ at["encode"] = "none" /\ at' = [at EXCEPT !["encode"] = "header"]
        /\ \E m : msg' = [msg EXCEPT !["encode"] = m]
    BY <1>4 DEF UpstreamResponse, goVars
  <2>2. msg'["decode"] = msg["decode"] /\ at'["decode"] = at["decode"] /\ at'["encode"] = "header"
    BY <1>1, <2>1 DEF Dir
  <2> QED BY <1>1, <2>1, <2>2, QuietOrder DEF Dir
<1>5. CASE SendLocalReply
  <2>1. /\ UNCHANGED <<conf, stage, chainVars, progressVars, task, historyVars, chunks>>
        /\ UNCHANGED forwarded
    BY <1>5 DEF SendLocalReply, goVars
  <2>2. CASE at["encode"] = "none"
    <3>1. /\ at' = [decode |-> "stopped", encode |-> "header"]
          /\ \E m : msg' = [msg EXCEPT !["encode"] = m]
      BY <1>5, <2>2 DEF SendLocalReply
    <3>2. msg'["decode"] = msg["decode"] /\ at'["decode"] = "stopped" /\ at'["encode"] = "header"
      BY <1>1, <3>1 DEF Dir
    <3> QED BY <1>1, <2>1, <2>2, <3>2, QuietOrder DEF Dir
  <2>3. CASE at["encode"] # "none"
    <3>1. at' = [decode |-> "stopped", encode |-> "stopped"] /\ UNCHANGED msg
      BY <1>5, <2>3 DEF SendLocalReply
    <3>2. \A d \in Dir : msg'[d] = msg[d] /\ at'[d] = "stopped"
      BY <3>1 DEF Dir
    <3> QED BY <2>1, <3>2, QuietOrder
  <2> QED BY <2>2, <2>3
<1>6. CASE DecodeStep
  <2>1. CASE mergeConsumer
    BY <1>1, <2>1, MergeOrder
  <2>2. CASE decodeHeadersInit \/ decodeHeadersAuthn \/ decodeDataKeep
    BY <2>2, DecodeOnlyOrder
  <2>3. CASE Step("decode")
    BY <1>1, <2>3, StepOrder
  <2> QED BY <1>6, <2>1, <2>2, <2>3 DEF DecodeStep
<1>7. CASE EncodeStep
  BY <1>1, <1>7, StepOrder DEF EncodeStep
<1>8. CASE GoroutineExit
  BY <1>8, QuietOrder DEF GoroutineExit, envoyVars
<1>9. CASE OnLog
  BY <1>9, QuietOrder DEF OnLog, goVars, envoyVars
<1>10. CASE runOnLogPhase
  <2>1. CASE stage' = "garbage"
    <3>1. UNCHANGED <<chainVars, progressVars, envoyVars, historyVars>>
      BY <1>10, <2>1 DEF runOnLogPhase
    <3> QED BY <1>10, <2>1, <3>1, QuietOrder DEF runOnLogPhase, envoyVars
  <2>2. CASE stage' # "garbage"
    BY <1>1, <1>10, <2>2, ForgetOrder DEF runOnLogPhase
  <2> QED BY <2>1, <2>2
<1>11. CASE Collect
  BY <1>1, <1>11, ForgetOrder DEF Collect
<1>12. CASE UNCHANGED vars
  BY <1>12, QuietOrder DEF vars, goVars, envoyVars
<1> QED BY <1>2, <1>3, <1>4, <1>5, <1>6, <1>7, <1>8, <1>9, <1>10, <1>11, <1>12 DEF Next

-----------------------------------------------------------------------------
(* The theorems.                                                           *)

(* OrderInv is an invariant of the specification.                          *)
THEOREM OrderInvariance == Spec => []OrderInv
<1>1. Init => OrderInv
  BY InitOrder
<1>2. IInv /\ IInv' /\ OrderInv /\ [Next]_vars => OrderInv'
  BY NextOrder
<1> QED BY <1>1, <1>2, Invariance, PTL DEF Spec

(* A plugin of the chain is a position of a path: what the properties say  *)
(* of plugins and of the history is what the invariant says of the path.   *)
LEMMA OnPath ==
  ASSUME TypeOK, NEW d \in Dir, NEW k \in 1 .. N
  PROVE  LET v == Path(d)  p == At(d, k) IN
         /\ k \in v.headers <=> <<p, Headers(d)>> \in ran
         /\ k \in v.data <=> <<p, Data(d)>> \in ran
         /\ k \in v.trailers <=> <<p, Trailers(d)>> \in ran
         /\ k \in v.whole <=> <<p, Whole(d)>> \in ran
         /\ k \in v.waits <=> Waited(d, p)
         /\ (k \in v.hasHeaders => k \in v.headers) <=> Ran(p, Headers(d))
         /\ (k \in v.hasData => k \in v.data) <=> Ran(p, Data(d))
         /\ (k \in v.hasTrailers => k \in v.trailers) <=> Ran(p, Trailers(d))
<1>1. \A m : /\ k \in Called(d, m) <=> <<At(d, k), m>> \in ran
             /\ k \in Overrides(d, m) <=> m \in Defines(At(d, k))
  BY DEF Called, Overrides
<1>2. k \in Waiters(d) <=> Waited(d, At(d, k))
  BY DEF Waiters, Waited
<1> QED BY <1>1, <1>2, PathType DEF Ran

(* A path visits each plugin at one position.                              *)
LEMMA PosAt ==
  ASSUME TypeOK, Sorted(filters), NEW d \in Dir, NEW k \in 1 .. N
  PROVE  Pos(d, At(d, k)) = k
<1>1. \A j \in 1 .. N : At(d, j) = At(d, k) => j = k
  BY AtInjective
<1>2. Pos(d, At(d, k)) \in 1 .. N /\ At(d, Pos(d, At(d, k))) = At(d, k)
  BY DEF Pos
<1> QED BY <1>1, <1>2

(* The order of a path is the order of the properties.                     *)
LEMMA PathOrder ==
  ASSUME TypeOK, Sorted(filters), NEW d \in Dir
  PROVE  /\ PathInOrder(Path(d), msg[d].body) => InOrder(d)
         /\ TrailersOrdered(Path(d)) => TrailersInOrder(d)
<1> DEFINE v == Path(d)
<1>1. v.len = N
  BY PathType
<1>2. ASSUME NEW p \in Chain, NEW q \in Chain, Before(d, q, p)
      PROVE  \E k \in 1 .. N, j \in 1 .. N : At(d, k) = p /\ At(d, j) = q /\ j < k
  <2>1. PICK k \in 1 .. N : At(d, k) = p
    BY AtChain
  <2>2. PICK j \in 1 .. N : At(d, j) = q
    BY AtChain
  <2>3. Pos(d, p) = k /\ Pos(d, q) = j
    BY <2>1, <2>2, PosAt
  <2>4. j < k
    BY <1>2, <2>3 DEF Before
  <2> QED BY <2>1, <2>2, <2>4
<1>3. ASSUME PathInOrder(v, msg[d].body), NEW p \in Chain, NEW q \in Chain, NEW m \in Hooks(d),
             Before(d, q, p), <<p, m>> \in ran
      PROVE  /\ Ran(q, Headers(d))
             /\ Waited(d, q) => <<q, Whole(d)>> \in ran
             /\ m = Whole(d) /\ msg[d].body /\ ~Waited(d, q) => Ran(q, Data(d))
  <2>1. PICK k \in 1 .. N, j \in 1 .. N : At(d, k) = p /\ At(d, j) = q /\ j < k
    BY <1>2, <1>3
  <2>2. /\ k \in v.headers \/ k \in v.data \/ k \in v.trailers \/ k \in v.whole
        /\ m = Whole(d) => k \in v.whole
    BY <1>3, <2>1, OnPath DEF Hooks
  <2>3. /\ j \in v.hasHeaders => j \in v.headers
        /\ j \in v.waits => j \in v.whole
        /\ m = Whole(d) /\ msg[d].body /\ j \notin v.waits /\ j \in v.hasData => j \in v.data
    BY <1>1, <1>3, <2>1, <2>2 DEF PathInOrder
  <2>4. /\ j \in v.whole <=> <<q, Whole(d)>> \in ran
        /\ j \in v.waits <=> Waited(d, q)
        /\ (j \in v.hasHeaders => j \in v.headers) <=> Ran(q, Headers(d))
        /\ (j \in v.hasData => j \in v.data) <=> Ran(q, Data(d))
    BY <2>1, OnPath
  <2> QED BY <2>3, <2>4
<1>4. ASSUME TrailersOrdered(v), NEW p \in Chain, NEW q \in Chain, Before(d, q, p),
             <<p, Trailers(d)>> \in ran, ~Waited(d, q)
      PROVE  Ran(q, Trailers(d))
  <2>1. PICK k \in 1 .. N, j \in 1 .. N : At(d, k) = p /\ At(d, j) = q /\ j < k
    BY <1>2, <1>4
  <2>2. /\ k \in v.trailers /\ j \notin v.waits
        /\ (j \in v.hasTrailers => j \in v.trailers) <=> Ran(q, Trailers(d))
    BY <1>4, <2>1, OnPath
  <2> QED BY <1>1, <1>4, <2>1, <2>2 DEF TrailersOrdered
<1> QED BY <1>3, <1>4 DEF InOrder, TrailersInOrder

(* What a path has seen is what every plugin has seen.                     *)
LEMMA PathSeen ==
  ASSUME TypeOK, NEW d \in Dir
  PROVE  /\ SeenHeaders(Path(d)) => \A p \in Chain : SawHeaders(d, p)
         /\ SeenBody(Path(d), msg[d].body) => \A p \in Chain : SawBody(d, p)
         /\ SeenTrailers(Path(d), msg[d].trailers) => \A p \in Chain : SawTrailers(d, p)
         /\ EitherKind(Path(d)) =>
              \A p \in Chain :
                IF Waited(d, p) THEN <<p, Data(d)>> \notin ran /\ <<p, Trailers(d)>> \notin ran
                ELSE <<p, Whole(d)>> \notin ran
<1> DEFINE v == Path(d)
<1>1. v.len = N /\ \A p \in Chain : \E k \in 1 .. N : At(d, k) = p
  BY PathType, AtChain
<1>2. ASSUME NEW k \in 1 .. N, SeenHeaders(v) PROVE SawHeaders(d, At(d, k))
  BY <1>1, <1>2, OnPath DEF SeenHeaders, SawHeaders
<1>3. ASSUME NEW k \in 1 .. N, SeenBody(v, msg[d].body) PROVE SawBody(d, At(d, k))
  BY <1>1, <1>3, OnPath DEF SeenBody, SawBody
<1>4. ASSUME NEW k \in 1 .. N, SeenTrailers(v, msg[d].trailers) PROVE SawTrailers(d, At(d, k))
  BY <1>1, <1>4, OnPath DEF SeenTrailers, SawTrailers
<1>5. ASSUME NEW k \in 1 .. N, EitherKind(v)
      PROVE  IF Waited(d, At(d, k))
             THEN <<At(d, k), Data(d)>> \notin ran /\ <<At(d, k), Trailers(d)>> \notin ran
             ELSE <<At(d, k), Whole(d)>> \notin ran
  BY <1>1, <1>5, OnPath DEF EitherKind
<1> QED BY <1>1, <1>2, <1>3, <1>4, <1>5

(* The request is processed in the order of the chain: a plugin is called  *)
(* only after those before it have seen the headers, and the whole message *)
(* if they wait for it.                                                    *)
THEOREM DecodeInOrder == Spec => []DecodeOrder
<1>1. TypeOK /\ OrderInv => DecodeOrder
  <2> SUFFICES ASSUME TypeOK, OrderInv PROVE DecodeOrder
    OBVIOUS
  <2>1. Ordered("decode") /\ Sorted(filters) /\ "decode" \in Dir /\ ~Lost("decode")
    BY DEF OrderInv, PathInv, ChainSound, Dir, Lost
  <2> QED BY <2>1, PathOrder DEF Ordered, DecodeOrder
<1> QED BY <1>1, TypeCorrect, OrderInvariance, PTL

(* The response is processed in the reverse order.                         *)
THEOREM EncodeInOrder == Spec => []EncodeOrder
<1>1. TypeOK /\ OrderInv => EncodeOrder
  <2> SUFFICES ASSUME TypeOK, OrderInv PROVE EncodeOrder
    OBVIOUS
  <2>1. Ordered("encode") /\ Sorted(filters) /\ "encode" \in Dir
    BY DEF OrderInv, PathInv, ChainSound, Dir
  <2> QED BY <2>1, PathOrder DEF Ordered, EncodeOrder, Lost
<1> QED BY <1>1, TypeCorrect, OrderInvariance, PTL

(* No hook for headers, trailers or a whole message is called twice.       *)
THEOREM NoHookTwice == Spec => []CalledOnce
<1>1. OrderInv => CalledOnce
  BY DEF OrderInv, CalledOnce
<1> QED BY <1>1, OrderInvariance, PTL

(* A plugin gets the whole message or its parts, never both.               *)
THEOREM EitherWholeOrStreamed == Spec => []WholeOrStreamed
<1>1. TypeOK /\ OrderInv => WholeOrStreamed
  BY PathSeen DEF OrderInv, PathInv, Ordered, WholeOrStreamed
<1> QED BY <1>1, TypeCorrect, OrderInvariance, PTL

(* The request leaves when every plugin has seen its headers, and those    *)
(* that wait the whole of it.                                              *)
THEOREM NoEarlyForward == Spec => []ForwardedAfterAll
<1>1. TypeOK /\ OrderInv => ForwardedAfterAll
  <2> SUFFICES ASSUME TypeOK, OrderInv, forwarded
               PROVE  \A p \in Chain : /\ Ran(p, "DecodeHeaders")
                                       /\ Waited("decode", p) => <<p, "DecodeRequest">> \in ran
    BY DEF ForwardedAfterAll
  <2>1. \A p \in Chain : SawHeaders("decode", p)
    BY PathSeen DEF OrderInv, Passed, Dir
  <2> QED BY <2>1 DEF SawHeaders, Headers, Whole
<1> QED BY <1>1, TypeCorrect, OrderInvariance, PTL

(* Every plugin has seen, part by part, a request that was let through.    *)
THEOREM RequestSeen == Spec => []DecodeComplete
<1>1. TypeOK /\ OrderInv => DecodeComplete
  <2> SUFFICES ASSUME TypeOK, OrderInv, at["decode"] = "done"
               PROVE  \A p \in Chain : /\ SawHeaders("decode", p) /\ SawBody("decode", p)
                                       /\ SawTrailers("decode", p)
    BY DEF DecodeComplete
  <2>1. /\ "decode" \in Dir /\ Finished("decode")
        /\ SeenTrailers(Path("decode"), msg["decode"].trailers)
    BY DEF OrderInv, PathInv, Complete, Lost, Dir
  <2> QED BY <2>1, PathSeen DEF Finished
<1> QED BY <1>1, TypeCorrect, OrderInvariance, PTL

(* Every plugin has seen a response that was let through.                  *)
THEOREM ResponseSeen == Spec => []EncodeComplete
<1>1. TypeOK /\ OrderInv => EncodeComplete
  <2> SUFFICES ASSUME TypeOK, OrderInv, at["encode"] = "done", ~EncodeHeadersLost, NEW p \in Chain
               PROVE  \/ idx["encode"] # 0 /\ ~msg["encode"].body
                      \/ /\ SawHeaders("encode", p) /\ SawBody("encode", p)
                         /\ idx["encode"] = 0 => SawTrailers("encode", p)
    BY DEF EncodeComplete
  <2>1. /\ "encode" \in Dir
        /\ \/ idx["encode"] # 0 /\ ~msg["encode"].body
           \/ /\ Finished("encode")
              /\ idx["encode"] # 0 \/ SeenTrailers(Path("encode"), msg["encode"].trailers)
    BY DEF OrderInv, PathInv, Complete, Lost, Dir
  <2> QED BY <2>1, PathSeen DEF Finished
<1> QED BY <1>1, TypeCorrect, OrderInvariance, PTL

(* A phase that is skipped has nothing to do.                              *)
THEOREM NothingSkipped == Spec => []SkipIsSound
<1>1. OrderInv => SkipIsSound
  BY DEF OrderInv, ChainSound, SkipIsSound, SkipPhase
<1> QED BY <1>1, OrderInvariance, PTL
=============================================================================
