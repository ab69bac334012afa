------------------------ MODULE FilterManagerProofs ------------------------
(* Proofs about FilterManager, for any set of plugins and any set of       *)
(* configurations that satisfy its assumptions.                            *)
EXTENDS FilterManager, FiniteSetTheorems, WellFoundedInduction, TLAPS

-----------------------------------------------------------------------------
(* Sorted chains.  The prover has no induction over data: existence is     *)
(* proved by a minimal counterexample.                                     *)

(* A nonempty family of subsets of a finite set has a minimal member.      *)
LEMMA MinimalSet ==
  ASSUME NEW S, IsFiniteSet(S), NEW F \in SUBSET SUBSET S, F # {}
  PROVE  \E T \in F : \A U \in F : U \subseteq T => U = T
<1>1. IsWellFoundedOn(StrictSubsetOrdering(S), SUBSET S)
  BY FS_StrictSubsetOrderingWellFounded, FS_FiniteSubsetsOfFinite
<1>2. PICK T \in F : \A U \in F : <<U, T>> \notin StrictSubsetOrdering(S)
  BY <1>1, WFMin
<1>3. \A U \in F : U \subseteq T => U = T
  BY <1>2 DEF StrictSubsetOrdering
<1> QED BY <1>3

(* Every plugin has a rank.                                                *)
LEMMA Ranked == \A p \in Plugins : PluginOrder[p] \in Nat
BY OrderAssumption

(* Of finitely many plugins one is last in plugin order.                   *)
LEMMA LastPlugin ==
  ASSUME NEW S \in SUBSET Plugins, S # {}
  PROVE  \E p \in S : \A q \in S : PluginOrder[q] <= PluginOrder[p]
<1> DEFINE After(p) == {q \in S : ~(PluginOrder[q] <= PluginOrder[p])}
           F == {After(p) : p \in S}
<1>1. IsFiniteSet(S)
  BY OrderAssumption, FS_Subset
<1>2. F \in SUBSET SUBSET S /\ F # {}
  OBVIOUS
<1>3. PICK T \in F : \A U \in F : U \subseteq T => U = T
  <2> HIDE DEF F
  <2> QED BY <1>1, <1>2, MinimalSet
<1>4. PICK p \in S : T = After(p)
  BY <1>3
<1>5. SUFFICES ASSUME NEW q \in After(p) PROVE FALSE
  BY DEF After
<1>6. PluginOrder[p] \in Nat /\ PluginOrder[q] \in Nat /\ ~(PluginOrder[q] <= PluginOrder[p])
  BY Ranked
<1>7. After(q) \subseteq After(p)
  BY <1>6, Ranked
<1>8. q \notin After(q)
  BY <1>6
<1>9. After(q) = After(p)
  BY <1>3, <1>4, <1>7
<1> QED BY <1>5, <1>8, <1>9

(* Every set of plugins can be laid out in plugin order.                   *)
LEMMA SortedExists ==
  ASSUME NEW S \in SUBSET Plugins
  PROVE  \E s \in [1 .. Cardinality(S) -> S] : Sorted(s)
<1> DEFINE Good(T) == \E s \in [1 .. Cardinality(T) -> T] : Sorted(s)
           Bad == {T \in SUBSET Plugins : ~Good(T)}
<1>1. SUFFICES ASSUME Bad # {} PROVE FALSE
  OBVIOUS
<1>2. PICK T \in Bad : \A U \in Bad : U \subseteq T => U = T
  <2>1. Bad \in SUBSET SUBSET Plugins
    OBVIOUS
  <2> HIDE DEF Bad
  <2> QED BY <1>1, <2>1, OrderAssumption, MinimalSet
<1>3. T # {}
  <2>1. Cardinality({}) = 0
    BY FS_EmptySet
  <2>2. <<>> \in [1 .. 0 -> {}] /\ Sorted(<<>>)
    BY DEF Sorted
  <2> QED BY <2>1, <2>2
<1>4. PICK p \in T : \A q \in T : PluginOrder[q] <= PluginOrder[p]
  BY <1>3, LastPlugin
<1> DEFINE U == T \ {p}
           n == Cardinality(T)
<1>5. n \in Nat \ {0} /\ Cardinality(U) = n - 1
  <2>1. IsFiniteSet(T)
    BY OrderAssumption, FS_Subset
  <2> QED BY <2>1, <1>3, FS_RemoveElement, FS_CardinalityType, FS_EmptySet
<1>6. PICK s \in [1 .. n - 1 -> U] : Sorted(s)
  BY <1>2, <1>5
<1> HIDE DEF n
<1> DEFINE t == [i \in 1 .. n |-> IF i = n THEN p ELSE s[i]]
<1>7. t \in [1 .. n -> T]
  BY <1>5, <1>6
<1>8. Sorted(t)
  <2> SUFFICES ASSUME NEW i \in 1 .. n, NEW j \in 1 .. n, i < j
               PROVE  PluginOrder[t[i]] < PluginOrder[t[j]]
    BY DEF Sorted
  <2>1. i \in 1 .. n - 1
    BY <1>5
  <2>2. CASE j = n
    <3>1. s[i] \in T /\ s[i] # p
      BY <1>6, <2>1
    <3>2. PluginOrder[s[i]] <= PluginOrder[p] /\ PluginOrder[s[i]] # PluginOrder[p]
      BY <3>1, <1>4, OrderAssumption
    <3>3. PluginOrder[s[i]] \in Nat /\ PluginOrder[p] \in Nat
      BY <3>1, Ranked
    <3>4. t[i] = s[i] /\ t[j] = p
      BY <2>1, <2>2, <1>5
    <3> QED BY <3>2, <3>3, <3>4
  <2>3. CASE j # n
    BY <1>5, <1>6, <2>1, <2>3 DEF Sorted
  <2> QED BY <2>2, <2>3
<1> QED BY <1>2, <1>7, <1>8 DEF n

(* SortFilters yields a chain of the given plugins, in plugin order.       *)
LEMMA SortFiltersType ==
  ASSUME NEW S \in SUBSET Plugins
  PROVE  /\ SortFilters(S) \in [1 .. Cardinality(S) -> S]
         /\ Sorted(SortFilters(S))
         /\ SortFilters(S) \in Seq(Plugins)
         /\ Len(SortFilters(S)) = Cardinality(S)
         /\ Cardinality(S) \in Nat
<1>1. Cardinality(S) \in Nat
  BY OrderAssumption, FS_Subset, FS_CardinalityType
<1>2. SortFilters(S) \in [1 .. Cardinality(S) -> S] /\ Sorted(SortFilters(S))
  BY SortedExists DEF SortFilters
<1> QED BY <1>1, <1>2

(* SortFilters drops no plugin.                                            *)
LEMMA SortFiltersRange ==
  ASSUME NEW S \in SUBSET Plugins
  PROVE  RangeOf(SortFilters(S)) = S
<1> DEFINE s == SortFilters(S)
           I == 1 .. Cardinality(S)
<1>1. s \in [I -> S] /\ Sorted(s) /\ Cardinality(S) \in Nat
  BY SortFiltersType
<1>2. IsFiniteSet(S) /\ IsFiniteSet(I) /\ Cardinality(I) = Cardinality(S)
  <2>1. IsFiniteSet(S)
    BY OrderAssumption, FS_Subset
  <2> QED BY <1>1, <2>1, FS_Interval
<1> HIDE DEF s
<1>3. s \in Injection(I, S)
  <2>1. ASSUME NEW i \in I, NEW j \in I, i < j PROVE s[i] # s[j]
    <3>1. PluginOrder[s[i]] < PluginOrder[s[j]] /\ s[i] \in Plugins
      BY <1>1, <2>1 DEF Sorted
    <3> QED BY <3>1, Ranked
  <2>2. \A i, j \in I : s[i] = s[j] => i = j
    BY <1>1, <2>1
  <2> QED BY <1>1, <2>2 DEF Injection, IsInjective
<1>4. s \in Surjection(I, S)
  <2> HIDE DEF I
  <2> QED BY <1>2, <1>3, FS_Injection
<1>5. RangeOf(s) = S
  BY <1>1, <1>4 DEF Surjection, RangeOf
<1> QED BY <1>5 DEF s

(* consumerFiltersEndAt is a position of the route's chain, that of an     *)
(* authentication plugin, or 0.                                            *)
LEMMA EndAtType ==
  ASSUME conf \in Setups
  PROVE  /\ consumerFiltersEndAt \in 0 .. Len(SortFilters(conf.route))
         /\ consumerFiltersEndAt > 0 =>
              SortFilters(conf.route)[consumerFiltersEndAt] \in AuthnPlugins
<1> DEFINE route == SortFilters(conf.route)
           L == Len(route)
           A == {n \in 0 .. L : n > 0 => route[n] \in AuthnPlugins}
           After(n) == {i \in 1 .. L : i > n /\ route[i] \in AuthnPlugins}
           F == {After(n) : n \in A}
<1>1. L \in Nat
  BY SetupAssumption, SortFiltersType DEF Setup
<1>2. F \in SUBSET SUBSET (1 .. L) /\ F # {}
  <2>1. 0 \in A
    BY <1>1
  <2>2. After(0) \in F
    BY <2>1
  <2>3. \A n \in A : After(n) \in SUBSET (1 .. L)
    OBVIOUS
  <2> QED BY <2>2, <2>3
<1>3. IsFiniteSet(1 .. L)
  BY <1>1, FS_Interval
<1>4. PICK T \in F : \A U \in F : U \subseteq T => U = T
  <2> DEFINE I == 1 .. L
  <2>1. F \in SUBSET SUBSET I /\ F # {} /\ IsFiniteSet(I)
    BY <1>2, <1>3
  <2> HIDE DEF F, I
  <2> QED BY <2>1, MinimalSet
<1>5. PICK n \in A : T = After(n)
  BY <1>4
<1>6. After(n) = {}
  <2> SUFFICES ASSUME NEW m \in After(n) PROVE FALSE
    OBVIOUS
  <2>1. m \in A /\ After(m) \subseteq After(n) /\ m \notin After(m)
    BY <1>1
  <2>2. After(m) \in F
    BY <2>1
  <2>3. After(m) = After(n)
    BY <2>1, <2>2, <1>4, <1>5
  <2> QED BY <2>1, <2>3
<1>7. /\ n \in 0 .. L /\ (n > 0 => route[n] \in AuthnPlugins)
      /\ \A i \in n + 1 .. L : route[i] \notin AuthnPlugins
  BY <1>1, <1>5, <1>6
<1> HIDE DEF route
<1> QED BY <1>7 DEF consumerFiltersEndAt, route

-----------------------------------------------------------------------------
(* The inductive invariant.                                                *)

(* A handler's position lies in the chain.  A filter waits for the whole   *)
(* message only while DecodeRequest, or EncodeResponse, is on its way to   *)
(* it; a local reply on the way leaves the flag behind.                    *)
Positions(d) ==
  LET t == task[d] IN
  /\ idx[d] \in 0 .. N
  /\ t.pc \in {"headers", "data", "trailers"} => t.cur \in 1 .. N + 1
  /\ t.pc = "noBody" => t.cur \in 1 .. N
  /\ t.pc = "authn" => t.cur \in 1 .. consumerFiltersEndAt + 1
  /\ t.pc \in {"wholeData", "wholeTrailers"} =>
       t.cur \in Nat \ {0} /\ t.seg \in 1 .. N + 1 /\ idx[d] # 0
  /\ t.pc = "whole" => t.seg \in 1 .. N
  /\ t.pc = "wholeHeaders" => t.cur \in 1 .. N + 1 /\ idx[d] # 0
  /\ needed[d] => \/ t.pc \in {"wholeData", "wholeTrailers", "whole"} /\ t.seg <= N
                  \/ t.pc = "idle" /\ at[d] = "stopped"

(* The chain changes only before the request headers have passed: nothing  *)
(* has happened on the encode path, and no position refers to the chain.   *)
Early ==
  /\ at["decode"] = "header" =>
       /\ at["encode"] = "none" /\ ~forwarded /\ ~reply
       /\ task["encode"] = NoTask /\ idx["encode"] = 0
  /\ \/ at["decode"] = "header" /\ stage = "active" /\ task["decode"].pc = "idle"
     \/ task["decode"].pc \in {"init", "authn"}
     => /\ at["decode"] = "header" /\ idx["decode"] = 0
        /\ filters = SortFilters(conf.route)

(* An object in the pool is free: nothing executes, nothing is remembered. *)
Free ==
  /\ stage # "active" => \A d \in Dir : ~task[d].inline
  /\ stage = "pool" =>
       /\ New /\ exiting = 0 /\ task = [d \in Dir |-> NoTask]
       /\ at = [d \in Dir |-> "none"] /\ ~forwarded /\ ~reply

IInv == TypeOK /\ (\A d \in Dir : Positions(d)) /\ Early /\ Free /\ CounterExact

-----------------------------------------------------------------------------
(* What the operators of the model return.                                 *)

(* A configuration a behaviour starts from is a configuration.             *)
LEMMA SetupType ==
  ASSUME NEW c \in Setups
  PROVE  c \in Setup
BY SetupAssumption

(* The filter at a position of the chain is a plugin, whichever way the    *)
(* chain is read.                                                          *)
LEMMA AtType ==
  ASSUME filters \in Seq(Plugins), NEW d \in Dir, NEW k \in 1 .. N
  PROVE  At(d, k) \in Plugins /\ filters[k] \in Plugins
<1>1. N \in Nat /\ filters \in [1 .. N -> Plugins]
  BY DEF N
<1>2. N + 1 - k \in 1 .. N
  BY <1>1
<1> QED BY <1>1, <1>2 DEF At

(* The phases of a direction are phases, and its hooks are methods.        *)
LEMMA MethodTypes ==
  ASSUME NEW d \in Dir
  PROVE  /\ Headers(d) \in Phases /\ Data(d) \in Phases /\ Trailers(d) \in Phases
         /\ Whole(d) \in Methods /\ Phases \subseteq Methods /\ Phases \subseteq Phases \union {"OnLog"}
BY DEF Dir, Phases, Methods, Headers, Data, Trailers, Whole

(* The flags the factory and the merge compute are one Boolean for every   *)
(* phase.                                                                  *)
LEMMA FlagTypes ==
  ASSUME TypeOK
  PROVE  /\ FactorySkip \in [Phases \union {"OnLog"} -> BOOLEAN]
         /\ FactorySync \in [Phases -> BOOLEAN]
         /\ MergedSkip \in [Phases \union {"OnLog"} -> BOOLEAN]
         /\ MergedSync \in [Phases -> BOOLEAN]
<1>1. conf.needInit \in BOOLEAN
  BY SetupType DEF TypeOK, Setup
<1>2. \A S, ph : SkipPhase(S, ph) \in BOOLEAN /\ SyncPhase(S, ph) \in BOOLEAN
  BY DEF SkipPhase, SyncPhase, SkipMethod, SyncMethod
<1>3. FactorySkip \in [Phases \union {"OnLog"} -> BOOLEAN] /\ FactorySync \in [Phases -> BOOLEAN]
  BY <1>1, <1>2, Zenon DEF FactorySkip, FactorySync
<1>4. MergedSync \in [Phases -> BOOLEAN]
  BY <1>2, Zenon DEF MergedSync
<1>5. MergedSkip \in [Phases \union {"OnLog"} -> BOOLEAN]
  <2>1. SUFFICES ASSUME NEW ph \in Phases \union {"OnLog"}
                 PROVE  /\ skip[ph] \in BOOLEAN
                        /\ (skip[ph] /\ SkipPhase(conf.consumer, ph)) \in BOOLEAN
                        /\ (skip["EncodeData"] /\ SkipPhase(conf.consumer, ph)) \in BOOLEAN
    BY DEF MergedSkip
  <2> QED BY DEF TypeOK
<1> QED BY <1>3, <1>4, <1>5

(* A hook is recorded under its plugin and its method.                     *)
LEMMA CallType ==
  ASSUME TypeOK, NEW p \in Plugins, NEW m \in Methods, NEW r, Call(p, m, r)
  PROVE  /\ ran' \subseteq Plugins \X Methods
         /\ waited' \subseteq Plugins \X Methods
         /\ again' \in BOOLEAN
BY DEF TypeOK, Call

AtStates == {"none", "header", "data", "buffering", "trailers", "held", "done", "stopped"}

(* Envoy's reaction to an answer leaves the stream in one of its states.   *)
LEMMA AnswerType ==
  ASSUME TypeOK, NEW d \in Dir, NEW meth, NEW es \in BOOLEAN,
         NEW status \in {"Continue", "StopAndBuffer", "StopAndBufferWatermark"},
         Answer(d, meth, es, status)
  PROVE  at' \in [Dir -> AtStates] /\ forwarded' \in BOOLEAN
<1>1. AfterPhase(d, meth, es, status) \in AtStates
  BY DEF AfterPhase, AtStates
<1> QED BY <1>1 DEF TypeOK, Answer, AtStates

(* The idle handler is a handler, and does not hold the worker.            *)
LEMMA NoTaskType == NoTask \in TaskType /\ NoTask.pc = "idle" /\ ~NoTask.inline
BY DEF NoTask, TaskType

-----------------------------------------------------------------------------
(* What a step does to the handlers, to the counter and to the stream.     *)

TheStream == <<at, forwarded, reply>>
PCs == {"init", "authn", "headers", "noBody", "data", "trailers", "keep", "ignore",
        "wholeData", "wholeTrailers", "whole", "wholeHeaders"}

(* The answer of a handler moves the stream past the headers, unless the   *)
(* stream is over or replied to.                                           *)
Answers(d) ==
  \/ (stage # "active" \/ at[d] = "stopped") /\ UNCHANGED TheStream
  \/ /\ \E x \in AtStates \ {"header"} : at' = [at EXCEPT ![d] = x]
     /\ forwarded' \in BOOLEAN /\ reply' \in BOOLEAN

(* A handler goes on, or answers and leaves.                               *)
Goes(d) == \E t \in TaskType :
  t.pc \in PCs /\ t.inline = task[d].inline /\ Go(d, t)
Works(d) ==
  /\ task[d].pc \in PCs
  /\ HandlerFrame
  /\ Goes(d) \/ (Leave(d) /\ Answers(d))

(* Where a handler starts.                                                 *)
Entries == {"init", "headers", "data", "trailers", "keep", "ignore", "wholeData"}
Entry(d, t) ==
  /\ t.pc \in Entries /\ t.cur = 1
  /\ t.pc = "wholeData" => t.seg = idx[d] /\ idx[d] # 0
  /\ t.pc = "init" => d = "decode" /\ at[d] = "header"

(* Envoy delivers a phase: a handler starts, or Envoy has its answer.      *)
Starts(d) ==
  /\ WorkerFree /\ task[d] = NoTask /\ at[d] \notin {"none", "stopped"}
  /\ UNCHANGED <<conf, stage, chainVars, progressVars, exiting, msg, historyVars>>
  /\ chunks' \in [Dir -> Nat]
  /\ \/ /\ \E t \in TaskType : /\ t.pc \in PCs /\ Entry(d, t) /\ task' = [task EXCEPT ![d] = t]
                               /\ MarkRunningInGoThread(t.inline)
        /\ UNCHANGED TheStream
     \/ Answers(d) /\ UNCHANGED <<task, runningInGoThread>>

(* Advance changes where a handler is and nothing else of it.              *)
LEMMA AdvanceType ==
  ASSUME TypeOK, NEW d \in Dir, NEW pc \in PCs, NEW cur \in Nat
  PROVE  /\ Advance(d, pc, cur) \in TaskType
         /\ Advance(d, pc, cur).pc = pc /\ Advance(d, pc, cur).cur = cur
         /\ Advance(d, pc, cur).seg = task[d].seg
         /\ Advance(d, pc, cur).inline = task[d].inline
<1>1. task[d] \in TaskType
  BY DEF TypeOK
<1> QED BY <1>1 DEF TaskType, Advance, PCs

(* A handler that goes on by Advance goes on.                              *)
LEMMA GoAdvance ==
  ASSUME TypeOK, NEW d \in Dir, NEW pc \in PCs, NEW cur \in Nat, Go(d, Advance(d, pc, cur))
  PROVE  Goes(d)
BY AdvanceType DEF Goes

(* A local reply ends the handler and stops its direction of the stream.   *)
LEMMA ReplyAnswers ==
  ASSUME TypeOK, NEW d \in Dir, localReply(d)
  PROVE  Leave(d) /\ Answers(d)
BY DEF TypeOK, localReply, Answers, AtStates

(* An answer to Envoy moves the stream past the headers, or is ignored.    *)
LEMMA AnswerAnswers ==
  ASSUME TypeOK, NEW d \in Dir, NEW meth, NEW es \in BOOLEAN,
         NEW status \in {"Continue", "StopAndBuffer", "StopAndBufferWatermark"},
         Answer(d, meth, es, status), UNCHANGED reply
  PROVE  Answers(d)
<1>1. AfterPhase(d, meth, es, status) \in AtStates \ {"header"}
  BY DEF AfterPhase, AtStates
<1> QED BY <1>1 DEF TypeOK, Answer, Answers, TheStream

(* A handler that returns a status leaves and answers.                     *)
LEMMA ReturnAnswers ==
  ASSUME TypeOK, NEW d \in Dir,
         NEW status \in {"Continue", "StopAndBuffer", "StopAndBufferWatermark"},
         Return(d, status)
  PROVE  Leave(d) /\ Answers(d)
<1>1. task[d].es \in BOOLEAN
  BY DEF TypeOK, TaskType
<1> QED BY <1>1, AnswerAnswers DEF Return

(* After a hook the handler goes on, or leaves with a local reply.         *)
LEMMA HookWorks ==
  ASSUME TypeOK, NEW d \in Dir, NEW p, NEW m, NEW pc \in PCs, NEW cur \in Nat,
         Hook(d, p, m, Advance(d, pc, cur))
  PROVE  Goes(d) \/ (Leave(d) /\ Answers(d))
BY GoAdvance, ReplyAnswers DEF Hook

(* Every step common to both directions is a step of a handler.            *)
LEMMA StepWorks ==
  ASSUME TypeOK, NEW d \in Dir, Step(d)
  PROVE  Works(d)
<1> DEFINE cur == task[d].cur
           seg == task[d].seg
<1>1. /\ cur \in Nat /\ cur + 1 \in Nat /\ seg \in Nat /\ seg + 1 \in Nat
      /\ idx[d] \in Nat /\ idx[d] + 1 \in Nat /\ 1 \in Nat
      /\ task[d].es \in BOOLEAN
  BY DEF TypeOK, TaskType
<1>2. CASE headersNext(d)
  <2>1. PICK r \in Outcomes(At(d, cur), Headers(d)) :
          \/ localReply(d)
          \/ Go(d, Advance(d, "headers", cur + 1))
          \/ Go(d, Advance(d, "noBody", cur))
          \/ Return(d, "StopAndBuffer")
    BY <1>2 DEF headersNext
  <2>2. Goes(d) \/ (Leave(d) /\ Answers(d))
    BY <1>1, <2>1, GoAdvance, ReplyAnswers, ReturnAnswers DEF PCs
  <2> QED BY <1>2, <2>2 DEF headersNext, Works, Now, PCs
<1>3. CASE headersNoBody(d)
  <2>1. Goes(d) \/ (Leave(d) /\ Answers(d))
    BY <1>1, <1>3, HookWorks DEF headersNoBody, PCs
  <2> QED BY <1>3, <2>1 DEF headersNoBody, Works, Now, PCs
<1>4. CASE dataNext(d)
  <2>1. Goes(d) \/ (Leave(d) /\ Answers(d))
    BY <1>1, <1>4, HookWorks DEF dataNext, PCs
  <2> QED BY <1>4, <2>1 DEF dataNext, Works, Now, PCs
<1>5. CASE trailersNext(d)
  <2>1. Goes(d) \/ (Leave(d) /\ Answers(d))
    BY <1>1, <1>5, HookWorks DEF trailersNext, PCs
  <2> QED BY <1>5, <2>1 DEF trailersNext, Works, Now, PCs
<1>6. CASE wholeData(d)
  <2>1. SegmentStart(d) \in Nat
    BY <1>1 DEF SegmentStart
  <2>2. Goes(d) \/ (Leave(d) /\ Answers(d))
    BY <1>1, <1>6, <2>1, HookWorks, GoAdvance DEF wholeData, PCs
  <2> QED BY <1>6, <2>2 DEF wholeData, Works, Now, PCs
<1>7. CASE wholeTrailers(d)
  <2>1. Goes(d) \/ (Leave(d) /\ Answers(d))
    BY <1>1, <1>7, HookWorks, GoAdvance, ReturnAnswers DEF wholeTrailers, PCs
  <2> QED BY <1>7, <2>1 DEF wholeTrailers, Works, Now, PCs
<1>8. CASE wholeMessage(d)
  <2>1. Goes(d) \/ (Leave(d) /\ Answers(d))
    BY <1>1, <1>8, HookWorks DEF wholeMessage, AfterWhole, PCs
  <2> QED BY <1>8, <2>1 DEF wholeMessage, Works, Now, PCs
<1>9. CASE wholeHeaders(d)
  <2>1. \/ localReply(d)
        \/ Go(d, NextSegment(d))
        \/ Go(d, Advance(d, "wholeHeaders", cur + 1))
    BY <1>9 DEF wholeHeaders
  <2>2. NextSegment(d) \in TaskType /\ NextSegment(d).pc = "wholeData"
        /\ NextSegment(d).inline = task[d].inline
    <3>1. task[d] \in TaskType /\ idx[d] + 1 \in Nat
      BY DEF TypeOK
    <3>2. task[d].cur \in Nat
      BY <1>1
    <3> QED BY <3>1, <3>2 DEF NextSegment, Advance, TaskType
  <2>3. Goes(d) \/ (Leave(d) /\ Answers(d))
    BY <1>1, <2>1, <2>2, GoAdvance, ReplyAnswers DEF Goes, PCs
  <2> QED BY <1>9, <2>3 DEF wholeHeaders, Works, Now, PCs
<1>10. CASE handlerEnd(d)
  <2>1. Leave(d) /\ Answers(d)
    BY <1>10, ReturnAnswers DEF handlerEnd
  <2> QED BY <1>10, <2>1 DEF handlerEnd, Works, Now, PCs
<1> QED BY <1>2, <1>3, <1>4, <1>5, <1>6, <1>7, <1>8, <1>9, <1>10 DEF Step

(* So is every step of the decode handler.                                 *)
LEMMA DecodeStepWorks ==
  ASSUME TypeOK, DecodeStep
  PROVE  Works("decode")
<1> DEFINE cur == task["decode"].cur
<1>1. /\ cur \in Nat /\ cur + 1 \in Nat /\ task["decode"].es \in BOOLEAN
      /\ consumerFiltersEndAt \in Nat /\ consumerFiltersEndAt + 1 \in Nat
  <2>1. conf \in Setups /\ conf.route \in SUBSET Plugins
    BY SetupType DEF TypeOK, Setup
  <2> QED BY <2>1, EndAtType, SortFiltersType DEF TypeOK, TaskType, Dir
<1>2. "decode" \in Dir
  BY DEF Dir
<1>3. CASE decodeHeadersInit
  <2>1. Goes("decode") \/ (Leave("decode") /\ Answers("decode"))
    BY <1>2, <1>3, GoAdvance, ReplyAnswers DEF decodeHeadersInit, PCs
  <2> QED BY <1>3, <2>1 DEF decodeHeadersInit, Works, Now, PCs
<1>4. CASE decodeHeadersAuthn
  <2>1. localReply("decode") \/ Go("decode", Advance("decode", "authn", cur + 1))
    BY <1>4 DEF decodeHeadersAuthn
  <2>2. Goes("decode") \/ (Leave("decode") /\ Answers("decode"))
    BY <1>1, <1>2, <2>1, GoAdvance, ReplyAnswers DEF PCs
  <2> QED BY <1>4, <2>2 DEF decodeHeadersAuthn, Works, Now, PCs
<1>5. CASE mergeConsumer
  <2>1. Goes("decode")
    BY <1>1, <1>2, <1>5, GoAdvance DEF mergeConsumer, PCs
  <2> QED BY <1>5, <2>1 DEF mergeConsumer, Works, Now, PCs
<1>6. CASE decodeDataKeep
  <2>1. Leave("decode") /\ Answers("decode")
    BY <1>2, <1>6, ReturnAnswers DEF decodeDataKeep
  <2> QED BY <1>6, <2>1 DEF decodeDataKeep, Works, Now, PCs
<1> QED BY <1>2, <1>3, <1>4, <1>5, <1>6, StepWorks DEF DecodeStep

(* So is every step of the encode handler.                                 *)
LEMMA EncodeStepWorks ==
  ASSUME TypeOK, EncodeStep
  PROVE  Works("encode")
BY StepWorks DEF EncodeStep, Dir

(* A phase Envoy delivers starts a handler, or is skipped and answered at  *)
(* once.                                                                   *)
LEMMA EnterStarts ==
  ASSUME TypeOK, NEW d \in Dir, NEW meth \in Phases, NEW es \in BOOLEAN,
         NEW inline \in BOOLEAN, NEW pc \in Entries, NEW seg \in Nat,
         pc = "wholeData" => seg = idx[d] /\ idx[d] # 0,
         pc = "init" => d = "decode" /\ at[d] = "header",
         at[d] \notin {"none", "stopped"}, chunks' \in [Dir -> Nat],
         Enter(d, meth, es, inline, pc, seg)
  PROVE  Starts(d)
<1>1. CASE skip[meth]
  <2>1. Answers(d)
    BY <1>1, AnswerAnswers DEF Enter
  <2> QED BY <1>1, <2>1 DEF Enter, Starts
<1>2. CASE ~skip[meth]
  <2> DEFINE t == [pc |-> pc, meth |-> meth, cur |-> 1, seg |-> seg, es |-> es,
                   inline |-> inline]
  <2>1. t \in TaskType /\ t.pc \in PCs /\ Entry(d, t) /\ t.inline = inline
    BY DEF TaskType, PCs, Entry, Entries
  <2> HIDE DEF t
  <2>2. task' = [task EXCEPT ![d] = t] /\ MarkRunningInGoThread(inline)
        /\ UNCHANGED TheStream
    BY <1>2 DEF Enter, t, TheStream
  <2> QED BY <1>2, <2>1, <2>2 DEF Enter, Starts
<1> QED BY <1>1, <1>2

(* Every one of Envoy's calls is such a phase.                             *)
LEMMA EventStarts ==
  ASSUME TypeOK
  PROVE  /\ DecodeEvent => Starts("decode")
         /\ EncodeEvent => Starts("encode")
<1>1. ASSUME NEW d \in Dir, NEW pc \in {"init", "headers"}, pc = "init" => d = "decode",
             EnterHeaders(d, pc)
      PROVE  Starts(d)
  <2> DEFINE es == ~msg[d].body /\ ~msg[d].trailers
  <2>1. /\ at[d] = "header" /\ UNCHANGED chunks
        /\ Enter(d, Headers(d), es, sync[Headers(d)], pc, 0)
    BY <1>1 DEF EnterHeaders
  <2>2. /\ sync[Headers(d)] \in BOOLEAN /\ Headers(d) \in Phases /\ es \in BOOLEAN
        /\ chunks' \in [Dir -> Nat]
    BY <2>1, MethodTypes DEF TypeOK
  <2>3. pc \in Entries /\ pc # "wholeData"
    BY DEF Entries
  <2> HIDE DEF es
  <2> QED BY <1>1, <2>1, <2>2, <2>3, EnterStarts
<1>2. ASSUME NEW d \in Dir, NEW keepPc \in {"keep", "wholeData"}, EnterData(d, keepPc)
      PROVE  Starts(d)
  <2> DEFINE inline == sync[Data(d)] /\ (idx[d] = 0 \/ (sync[Headers(d)] /\ sync[Trailers(d)]))
  <2>1. PICK es \in BOOLEAN :
          /\ at[d] \notin {"none", "stopped"}
          /\ Enter(d, Data(d), es, inline, IF idx[d] = 0 THEN "data" ELSE WholePc(es, keepPc), idx[d])
          /\ chunks' = [chunks EXCEPT ![d] = IF es THEN @ ELSE @ + 1]
    BY <1>2 DEF EnterData
  <2> DEFINE pc == IF idx[d] = 0 THEN "data" ELSE WholePc(es, keepPc)
  <2>2. /\ es \in BOOLEAN /\ at[d] \notin {"none", "stopped"}
        /\ Enter(d, Data(d), es, inline, pc, idx[d])
    BY <2>1
  <2>3. chunks' \in [Dir -> Nat] /\ idx[d] \in Nat /\ Data(d) \in Phases /\ inline \in BOOLEAN
    BY <2>1, MethodTypes DEF TypeOK
  <2>4. pc \in Entries /\ pc # "init" /\ (pc = "wholeData" => idx[d] # 0)
    BY DEF WholePc, Entries
  <2> HIDE DEF pc, inline
  <2> QED BY <2>2, <2>3, <2>4, EnterStarts
<1>3. ASSUME NEW d \in Dir, NEW syncRun \in BOOLEAN, NEW wholePc \in {"wholeData", "ignore"},
             EnterTrailers(d, syncRun, wholePc)
      PROVE  Starts(d)
  <2> DEFINE inline == sync[Trailers(d)] /\ (idx[d] = 0 \/ syncRun)
             pc == IF idx[d] = 0 THEN "trailers" ELSE wholePc
  <2>1. /\ at[d] \notin {"none", "stopped"} /\ UNCHANGED chunks
        /\ Enter(d, Trailers(d), TRUE, inline, pc, idx[d])
    BY <1>3 DEF EnterTrailers
  <2>2. chunks' \in [Dir -> Nat] /\ idx[d] \in Nat /\ Trailers(d) \in Phases /\ inline \in BOOLEAN
    BY <2>1, MethodTypes DEF TypeOK
  <2>3. pc \in Entries /\ pc # "init" /\ (pc = "wholeData" => idx[d] # 0)
    BY DEF Entries
  <2> HIDE DEF pc, inline
  <2> QED BY <2>1, <2>2, <2>3, EnterStarts
<1>4. DecodeEvent => Starts("decode")
  BY <1>1, <1>2, <1>3 DEF DecodeEvent, DecodeHeaders, DecodeData, DecodeTrailers, Dir
<1>5. EncodeEvent => Starts("encode")
  BY <1>1, <1>2, <1>3 DEF EncodeEvent, EncodeHeaders, EncodeData, EncodeTrailers, Dir
<1> QED BY <1>4, <1>5

-----------------------------------------------------------------------------
(* The counter and the pool.                                               *)

(* A handler that is executing is not the idle one.                        *)
LEMMA BusyTask ==
  ASSUME NEW t, t.pc \in PCs
  PROVE  t # NoTask
BY DEF NoTask, PCs

(* The counter starts exact and the pool with a free object.               *)
LEMMA InitCounter == Init => CounterExact /\ Free
BY DEF Init, CounterExact, Free, InGoThread, NoTask, New, Dir

(* The counter stays exact when it changes as much as its terms do.        *)
LEMMA CounterSum ==
  ASSUME TypeOK, CounterExact, NEW d \in Dir,
         \A e \in Dir : e # d => task'[e] = task[e],
         NEW de \in Int, exiting' = exiting + de, NEW dr \in Int,
         runningInGoThread' = runningInGoThread + dr,
         dr = de + InGoThread(d)' - InGoThread(d)
  PROVE  CounterExact'
<1>1. \A e \in Dir : InGoThread(e) \in 0 .. 1 /\ InGoThread(e)' \in 0 .. 1
  BY DEF InGoThread
<1>2. \A e \in Dir : e # d => InGoThread(e)' = InGoThread(e)
  BY DEF InGoThread
<1>3. exiting \in Nat /\ runningInGoThread \in Nat
  BY DEF TypeOK
<1>4. CASE d = "decode"
  BY <1>1, <1>2, <1>3, <1>4 DEF CounterExact, Dir
<1>5. CASE d = "encode"
  BY <1>1, <1>2, <1>3, <1>5 DEF CounterExact, Dir
<1> QED BY <1>4, <1>5 DEF Dir

(* A handler that goes on counts as before; one that leaves is counted     *)
(* among the exiting goroutines, unless it ran inline.                     *)
LEMMA WorksCounter ==
  ASSUME TypeOK, CounterExact, Free, NEW d \in Dir, Works(d)
  PROVE  CounterExact' /\ Free'
<1>1. /\ task[d] # NoTask /\ NoTask.inline = FALSE
      /\ UNCHANGED <<stage, runningInGoThread>>
  BY BusyTask DEF Works, HandlerFrame, NoTask
<1>2. \/ \E t \in TaskType : /\ t # NoTask /\ t.inline = task[d].inline
                             /\ task' = [task EXCEPT ![d] = t] /\ exiting' = exiting
      \/ Leave(d)
  BY BusyTask DEF Works, Goes, Go
<1>3. CounterExact'
  <2>1. /\ task'[d] = NoTask \/ (task'[d] # NoTask /\ task'[d].inline = task[d].inline)
        /\ exiting' = exiting + (IF task'[d] = NoTask /\ ~task[d].inline THEN 1 ELSE 0)
        /\ \A e \in Dir : e # d => task'[e] = task[e]
    BY <1>1, <1>2 DEF Leave, TypeOK
  <2> DEFINE de == IF task'[d] = NoTask /\ ~task[d].inline THEN 1 ELSE 0
  <2>2. de \in Int /\ exiting' = exiting + de
    BY <2>1
  <2>3. 0 = de + InGoThread(d)' - InGoThread(d)
    BY <1>1, <2>1 DEF InGoThread
  <2>4. runningInGoThread' = runningInGoThread + 0
    BY <1>1 DEF TypeOK
  <2> HIDE DEF de
  <2> QED BY <2>1, <2>2, <2>3, <2>4, CounterSum
<1>4. stage # "pool"
  BY <1>1 DEF Free, Dir
<1>5. Free'
  BY <1>1, <1>2, <1>4 DEF Free, Leave, TypeOK, TaskType
<1> QED BY <1>3, <1>5

(* MarkRunningInGoThread(true) counts the goroutine that starts.           *)
LEMMA StartsCounter ==
  ASSUME TypeOK, CounterExact, Free, NEW d \in Dir, Starts(d)
  PROVE  CounterExact' /\ Free'
<1>1. stage = "active" /\ stage' = "active" /\ task[d] = NoTask /\ UNCHANGED exiting
  BY DEF Starts, WorkerFree
<1>2. \/ \E t \in TaskType : /\ t # NoTask /\ task' = [task EXCEPT ![d] = t]
                             /\ MarkRunningInGoThread(t.inline)
      \/ UNCHANGED <<task, runningInGoThread>>
  BY BusyTask DEF Starts
<1>3. CounterExact'
  <2>1. CASE UNCHANGED <<task, runningInGoThread>>
    BY <1>1, <2>1 DEF CounterExact, InGoThread
  <2>2. ASSUME NEW t \in TaskType, t # NoTask, task' = [task EXCEPT ![d] = t],
               MarkRunningInGoThread(t.inline)
        PROVE  CounterExact'
    <3>1. /\ task'[d] = t /\ \A e \in Dir : e # d => task'[e] = task[e]
          /\ runningInGoThread' = runningInGoThread + (IF t.inline THEN 0 ELSE 1)
      BY <2>2 DEF MarkRunningInGoThread, TypeOK
    <3> QED BY <1>1, <2>2, <3>1, CounterSum DEF InGoThread, TypeOK
  <2> QED BY <1>2, <2>1, <2>2
<1> QED BY <1>1, <1>3 DEF Free

(* Every step keeps the counter exact and leaves a free object in the      *)
(* pool.                                                                   *)
LEMMA NextCounter ==
  ASSUME TypeOK, CounterExact, Free, [Next]_vars
  PROVE  CounterExact' /\ Free'
<1>1. CASE FilterManagerFactory
  BY <1>1 DEF FilterManagerFactory, goVars, CounterExact, Free, InGoThread
<1>2. CASE DecodeEvent \/ EncodeEvent
  BY <1>2, EventStarts, StartsCounter DEF Dir
<1>3. CASE UpstreamResponse
  BY <1>3 DEF UpstreamResponse, WorkerFree, goVars, CounterExact, Free, InGoThread
<1>4. CASE SendLocalReply
  BY <1>4 DEF SendLocalReply, WorkerFree, goVars, CounterExact, Free, InGoThread
<1>5. CASE DecodeStep \/ EncodeStep
  BY <1>5, DecodeStepWorks, EncodeStepWorks, WorksCounter DEF Dir
<1>6. CASE GoroutineExit
  <2>1. CounterExact'
    BY <1>6 DEF GoroutineExit, CounterExact, InGoThread, TypeOK, TaskType
  <2>2. Free'
    BY <1>6 DEF GoroutineExit, Free, TypeOK
  <2> QED BY <2>1, <2>2
<1>7. CASE OnLog
  <2>1. CounterExact'
    BY <1>7 DEF OnLog, goVars, CounterExact, InGoThread
  <2>2. \A d \in Dir : ~task'[d].inline
    BY <1>7 DEF OnLog, WorkerFree, goVars
  <2>3. stage' # "pool"
    BY <1>7 DEF OnLog
  <2> QED BY <2>1, <2>2, <2>3 DEF Free
<1>8. CASE runOnLogPhase
  <2>1. CASE IsRunningInGoThread
    <3>1. UNCHANGED goVars /\ stage = "logging" /\ stage' = "garbage"
      BY <1>8, <2>1 DEF runOnLogPhase, goVars
    <3> QED BY <3>1 DEF goVars, CounterExact, Free, InGoThread
  <2>2. CASE ~IsRunningInGoThread
    <3>1. exiting = 0 /\ \A d \in Dir : task[d] = NoTask
      BY <1>8, <2>2 DEF runOnLogPhase, IsRunningInGoThread, CounterExact, InGoThread, Free,
                        TypeOK, Dir
    <3>2. task = [d \in Dir |-> NoTask]
      BY <3>1 DEF TypeOK
    <3>3. /\ UNCHANGED <<task, exiting>> /\ Reset /\ ForgetStream /\ stage' = "pool"
      BY <1>8, <2>2 DEF runOnLogPhase
    <3>4. New'
      BY <3>3 DEF Reset, ResetProgress, New
    <3>5. CounterExact'
      BY <3>1, <3>3 DEF CounterExact, InGoThread, Reset, Dir
    <3> QED BY <3>1, <3>2, <3>3, <3>4, <3>5 DEF Free, ForgetStream, NoTask
  <2> QED BY <2>1, <2>2
<1>9. CASE Collect
  <2>1. exiting = 0 /\ (\A d \in Dir : task[d] = NoTask) /\ UNCHANGED <<task, exiting>>
    BY <1>9 DEF Collect
  <2>2. task = [d \in Dir |-> NoTask]
    BY <2>1 DEF TypeOK
  <2>3. New' /\ ForgetStream
    BY <1>9 DEF Collect, New
  <2>4. CounterExact'
    BY <2>1, <2>3 DEF CounterExact, InGoThread, New, Dir
  <2> QED BY <2>1, <2>2, <2>3, <2>4 DEF Free, ForgetStream, NoTask
<1>10. CASE UNCHANGED vars
  BY <1>10 DEF vars, chainVars, progressVars, goVars, envoyVars, CounterExact, Free, InGoThread, New
<1> QED BY <1>1, <1>2, <1>3, <1>4, <1>5, <1>6, <1>7, <1>8, <1>9, <1>10 DEF Next

-----------------------------------------------------------------------------
(* Types.                                                                  *)

ChainType ==
  /\ filters \in Seq(Plugins) /\ consumer \in BOOLEAN /\ merged \in BOOLEAN
  /\ skip \in [Phases \union {"OnLog"} -> BOOLEAN] /\ sync \in [Phases -> BOOLEAN]
ProgressType ==
  /\ idx \in [Dir -> Nat] /\ needed \in [Dir -> BOOLEAN]
  /\ reqBuf \in BOOLEAN /\ encodeWaitFirstData \in BOOLEAN
HistoryType ==
  /\ ran \subseteq Plugins \X Methods /\ waited \subseteq Plugins \X Methods
  /\ again \in BOOLEAN
RestType ==
  /\ conf \in Setups /\ stage \in {"pool", "active", "logging", "garbage"}
  /\ runningInGoThread \in Nat /\ exiting \in Nat /\ task \in [Dir -> TaskType]
  /\ msg \in [Dir -> Message] /\ at \in [Dir -> AtStates]
  /\ chunks \in [Dir -> Nat] /\ forwarded \in BOOLEAN /\ reply \in BOOLEAN

(* TypeOK by groups of variables.                                          *)
LEMMA TypeParts == TypeOK <=> ChainType /\ ProgressType /\ HistoryType /\ RestType
BY DEF TypeOK, ChainType, ProgressType, HistoryType, RestType, AtStates

(* The same of the next state.                                             *)
LEMMA TypePartsNext == TypeOK' <=> (ChainType /\ ProgressType /\ HistoryType /\ RestType)'
BY DEF TypeOK, ChainType, ProgressType, HistoryType, RestType, AtStates

(* Variables that do not change keep their type.                           *)
LEMMA PartsUnchanged ==
  ASSUME TypeOK
  PROVE  /\ UNCHANGED chainVars => ChainType'
         /\ UNCHANGED progressVars => ProgressType'
         /\ UNCHANGED historyVars => HistoryType'
<1>1. ChainType /\ ProgressType /\ HistoryType
  BY TypeParts
<1>2. UNCHANGED chainVars => ChainType'
  BY <1>1 DEF chainVars, ChainType
<1>3. UNCHANGED progressVars => ProgressType'
  BY <1>1 DEF progressVars, ProgressType
<1>4. UNCHANGED historyVars => HistoryType'
  BY <1>1 DEF historyVars, HistoryType
<1> QED BY <1>2, <1>3, <1>4

(* The values Reset assigns have their types.                              *)
LEMMA NewTypes ==
  /\ <<>> \in Seq(Plugins)
  /\ [ph \in Phases \union {"OnLog"} |-> FALSE] \in [Phases \union {"OnLog"} -> BOOLEAN]
  /\ [ph \in Phases |-> FALSE] \in [Phases -> BOOLEAN]
  /\ [d \in Dir |-> 0] \in [Dir -> Nat] /\ [d \in Dir |-> FALSE] \in [Dir -> BOOLEAN]
OBVIOUS

(* The initial states are typed.                                           *)
LEMMA InitType == Init => TypeOK
<1> SUFFICES ASSUME Init PROVE TypeOK
  OBVIOUS
<1>1. ChainType /\ ProgressType /\ HistoryType
  BY NewTypes DEF Init, New, ChainType, ProgressType, HistoryType
<1>2. NoTask \in TaskType /\ NoMessage \in Message
  BY NoTaskType DEF NoMessage, Message
<1>3. RestType
  BY <1>2 DEF Init, New, RestType, AtStates
<1> QED BY <1>1, <1>3, TypeParts

(* A step of a handler keeps the types of the handlers, the counter and    *)
(* the stream.                                                             *)
LEMMA WorksType ==
  ASSUME TypeOK, NEW d \in Dir, Works(d)
  PROVE  RestType'
<1>1. task' \in [Dir -> TaskType] /\ exiting' \in Nat
  <2>1. task \in [Dir -> TaskType] /\ exiting \in Nat
    BY DEF TypeOK
  <2>2. CASE Goes(d)
    BY <2>1, <2>2 DEF Goes, Go
  <2>3. CASE Leave(d)
    <3>1. NoTask \in TaskType
      BY NoTaskType
    <3> QED BY <2>1, <2>3, <3>1 DEF Leave
  <2> QED BY <2>2, <2>3 DEF Works
<1>2. at' \in [Dir -> AtStates] /\ forwarded' \in BOOLEAN /\ reply' \in BOOLEAN
  <2>1. at \in [Dir -> AtStates] /\ forwarded \in BOOLEAN /\ reply \in BOOLEAN
    BY TypeParts DEF RestType
  <2> QED BY <2>1 DEF Works, Goes, Go, Answers, TheStream
<1>3. RestType
  BY TypeParts
<1> QED BY <1>1, <1>2, <1>3 DEF RestType, Works, HandlerFrame

(* Envoy's calls keep every type.                                          *)
LEMMA StartsType ==
  ASSUME TypeOK, NEW d \in Dir, Starts(d)
  PROVE  TypeOK'
<1>1. RestType
  BY TypeParts
<1>2. task' \in [Dir -> TaskType] /\ runningInGoThread' \in Nat
  BY <1>1 DEF Starts, MarkRunningInGoThread, RestType
<1>3. at' \in [Dir -> AtStates] /\ forwarded' \in BOOLEAN /\ reply' \in BOOLEAN
  BY <1>1 DEF Starts, Answers, TheStream, RestType
<1>4. RestType'
  BY <1>1, <1>2, <1>3 DEF Starts, RestType
<1>5. ChainType' /\ ProgressType' /\ HistoryType'
  BY PartsUnchanged DEF Starts
<1> QED BY <1>4, <1>5, TypePartsNext

(* The record of the hooks stays a set of plugins and methods.             *)
LEMMA HookHistory ==
  ASSUME TypeOK, NEW d \in Dir, NEW p \in Plugins, NEW m \in Methods, NEW t, Hook(d, p, m, t)
  PROVE  HistoryType'
BY CallType DEF Hook, HistoryType

(* A step common to both directions calls hooks of plugins of the chain    *)
(* only, and keeps the types of the chain, the positions and the record of *)
(* the hooks.                                                              *)
LEMMA StepType ==
  ASSUME TypeOK, NEW d \in Dir, Positions(d), Step(d)
  PROVE  (ChainType /\ ProgressType /\ HistoryType)'
<1> DEFINE cur == task[d].cur
           seg == task[d].seg
<1>1. /\ Headers(d) \in Methods /\ Data(d) \in Methods /\ Trailers(d) \in Methods
      /\ Whole(d) \in Methods
  BY MethodTypes
<1>2. /\ cur \in Nat /\ seg \in Nat /\ idx[d] \in Nat /\ N \in Nat
      /\ \A k \in 1 .. N : At(d, k) \in Plugins /\ filters[k] \in Plugins
  BY AtType DEF TypeOK, TaskType, N
<1>3. \A b \in BOOLEAN : [needed EXCEPT ![d] = b] \in [Dir -> BOOLEAN]
  BY DEF TypeOK
<1>4. CASE headersNext(d)
  <2>1. cur \in 1 .. N
    BY <1>2, <1>4 DEF headersNext, Now, Positions
  <2>2. HistoryType'
    BY <1>1, <1>2, <1>4, <2>1, CallType DEF headersNext, HistoryType
  <2>3. needed' \in [Dir -> BOOLEAN] /\ idx' \in [Dir -> Nat] /\ encodeWaitFirstData' \in BOOLEAN
    BY <1>2, <1>3, <1>4 DEF headersNext, TypeOK
  <2> QED BY <1>4, <2>2, <2>3, PartsUnchanged DEF headersNext, ProgressType, TypeOK
<1>5. CASE headersNoBody(d)
  <2>1. cur \in 1 .. N
    BY <1>5 DEF headersNoBody, Now, Positions
  <2> QED BY <1>1, <1>2, <1>5, <2>1, HookHistory, PartsUnchanged DEF headersNoBody
<1>6. CASE dataNext(d)
  <2>1. cur \in 1 .. N
    BY <1>2, <1>6 DEF dataNext, Now, Positions
  <2> QED BY <1>1, <1>2, <1>6, <2>1, HookHistory, PartsUnchanged DEF dataNext
<1>7. CASE trailersNext(d)
  <2>1. cur \in 1 .. N
    BY <1>2, <1>7 DEF trailersNext, Now, Positions
  <2> QED BY <1>1, <1>2, <1>7, <2>1, HookHistory, PartsUnchanged DEF trailersNext
<1>8. CASE wholeData(d)
  <2>1. cur < seg => cur \in 1 .. N
    BY <1>2, <1>8 DEF wholeData, Now, Positions
  <2>2. HistoryType'
    BY <1>1, <1>2, <1>8, <2>1, HookHistory, PartsUnchanged DEF wholeData
  <2> QED BY <1>8, <2>2, PartsUnchanged DEF wholeData
<1>9. CASE wholeTrailers(d)
  <2>1. cur < seg => cur \in 1 .. N
    BY <1>2, <1>9 DEF wholeTrailers, Now, Positions
  <2>2. HistoryType'
    BY <1>1, <1>2, <1>9, <2>1, HookHistory, PartsUnchanged DEF wholeTrailers
  <2> QED BY <1>9, <2>2, PartsUnchanged DEF wholeTrailers
<1>10. CASE wholeMessage(d)
  <2>1. seg \in 1 .. N
    BY <1>10 DEF wholeMessage, Now, Positions
  <2>2. HistoryType'
    BY <1>1, <1>2, <1>10, <2>1, HookHistory DEF wholeMessage
  <2>3. needed' \in [Dir -> BOOLEAN] /\ idx' \in [Dir -> Nat]
    BY <1>2, <1>3, <1>10 DEF wholeMessage, TypeOK
  <2> QED BY <1>10, <2>2, <2>3, PartsUnchanged DEF wholeMessage, ProgressType, TypeOK
<1>11. CASE wholeHeaders(d)
  <2>1. cur <= N => cur \in 1 .. N
    BY <1>2, <1>11 DEF wholeHeaders, Now, Positions
  <2>2. HistoryType'
    BY <1>1, <1>2, <1>11, <2>1, CallType, PartsUnchanged DEF wholeHeaders, HistoryType
  <2>3. needed' \in [Dir -> BOOLEAN] /\ encodeWaitFirstData' \in BOOLEAN
    BY <1>3, <1>11 DEF wholeHeaders, TypeOK
  <2> QED BY <1>11, <2>2, <2>3, PartsUnchanged DEF wholeHeaders, ProgressType, TypeOK
<1>12. CASE handlerEnd(d)
  BY <1>12, PartsUnchanged DEF handlerEnd
<1> QED BY <1>4, <1>5, <1>6, <1>7, <1>8, <1>9, <1>10, <1>11, <1>12 DEF Step

(* So does every step of the decode handler, the merge of a consumer       *)
(* included.                                                               *)
LEMMA DecodeStepType ==
  ASSUME TypeOK, \A d \in Dir : Positions(d), Early, DecodeStep
  PROVE  (ChainType /\ ProgressType /\ HistoryType)'
<1> DEFINE cur == task["decode"].cur
<1>1. ChainType /\ ProgressType /\ HistoryType
  BY TypeParts
<1>2. /\ conf \in Setups /\ conf.route \in SUBSET Plugins /\ conf.consumer \in SUBSET Plugins
      /\ consumerFiltersEndAt \in 0 .. Len(SortFilters(conf.route))
  <2>1. conf \in Setups
    BY DEF TypeOK
  <2> QED BY <2>1, SetupType, EndAtType DEF Setup
<1>3. CASE decodeHeadersInit
  BY <1>3, PartsUnchanged DEF decodeHeadersInit
<1>4. CASE decodeHeadersAuthn
  <2>1. filters = SortFilters(conf.route)
    BY <1>4 DEF decodeHeadersAuthn, Now, Early
  <2>2. cur \in 1 .. N
    <3>1. cur \in 1 .. consumerFiltersEndAt
      BY <1>2, <1>4 DEF decodeHeadersAuthn, Now, Positions, Dir
    <3> QED BY <1>2, <2>1, <3>1, SortFiltersType DEF N
  <2>3. filters[cur] \in Plugins
    BY <1>1, <2>2, AtType DEF ChainType, Dir
  <2>4. HistoryType'
    <3>1. "DecodeHeaders" \in Methods
      BY MethodTypes DEF Headers, Dir
    <3>2. PICK r \in Outcomes(filters[cur], "DecodeHeaders") : Call(filters[cur], "DecodeHeaders", r)
      BY <1>4 DEF decodeHeadersAuthn
    <3> QED BY <2>3, <3>1, <3>2, CallType DEF HistoryType
  <2>5. needed' \in [Dir -> BOOLEAN] /\ consumer' \in BOOLEAN
    BY <1>1, <1>4 DEF decodeHeadersAuthn, ProgressType, ChainType
  <2> QED BY <1>1, <1>4, <2>4, <2>5 DEF decodeHeadersAuthn, ProgressType, ChainType
<1>5. CASE mergeConsumer
  <2>1. RangeOf(filters) \union conf.consumer \in SUBSET Plugins
    <3>1. \A k \in 1 .. N : filters[k] \in Plugins
      BY <1>1, AtType DEF ChainType, Dir
    <3>2. DOMAIN filters = 1 .. N
      BY <1>1 DEF ChainType, N
    <3> QED BY <1>2, <3>1, <3>2 DEF RangeOf
  <2>2. filters' \in Seq(Plugins)
    BY <1>1, <1>5, <2>1, SortFiltersType DEF mergeConsumer, ChainType
  <2>3. /\ skip' \in [Phases \union {"OnLog"} -> BOOLEAN] /\ sync' \in [Phases -> BOOLEAN]
        /\ merged' \in BOOLEAN /\ consumer' \in BOOLEAN
    BY <1>1, <1>5, FlagTypes DEF mergeConsumer, ChainType
  <2> QED BY <1>5, <2>2, <2>3, PartsUnchanged DEF mergeConsumer, ChainType
<1>6. CASE decodeDataKeep
  <2>1. ProgressType'
    BY <1>1, <1>6 DEF decodeDataKeep, ProgressType
  <2> QED BY <1>6, <2>1, PartsUnchanged DEF decodeDataKeep
<1>7. CASE Step("decode")
  BY <1>7, StepType DEF Dir
<1> QED BY <1>3, <1>4, <1>5, <1>6, <1>7 DEF DecodeStep

(* A forgotten stream is typed.                                            *)
LEMMA ForgetType ==
  ASSUME ForgetStream
  PROVE  HistoryType' /\ msg' \in [Dir -> Message] /\ at' \in [Dir -> AtStates]
         /\ chunks' \in [Dir -> Nat] /\ forwarded' \in BOOLEAN /\ reply' \in BOOLEAN
BY DEF ForgetStream, HistoryType, NoMessage, Message, AtStates

(* Every step keeps every type.                                            *)
LEMMA NextType ==
  ASSUME TypeOK, \A d \in Dir : Positions(d), Early, CounterExact, [Next]_vars
  PROVE  TypeOK'
<1>1. ChainType /\ ProgressType /\ HistoryType /\ RestType
  BY TypeParts
<1>2. conf \in Setup
  BY <1>1, SetupType DEF RestType
<1>3. CASE FilterManagerFactory
  <2>1. ChainType'
    BY <1>1, <1>2, <1>3, SortFiltersType, FlagTypes DEF FilterManagerFactory, ChainType, Setup
  <2>2. conf.messages["decode"] \subseteq Message
    BY <1>2 DEF Setup, Dir
  <2>3. RestType'
    BY <1>1, <1>3, <2>2 DEF FilterManagerFactory, RestType, goVars, AtStates
  <2> QED BY <1>3, <2>1, <2>3, PartsUnchanged, TypePartsNext DEF FilterManagerFactory
<1>4. CASE DecodeEvent \/ EncodeEvent
  BY <1>4, EventStarts, StartsType DEF Dir
<1>5. CASE UpstreamResponse
  <2>1. conf.messages["encode"] \subseteq Message
    BY <1>2 DEF Setup, Dir
  <2>2. RestType'
    BY <1>1, <1>5, <2>1 DEF UpstreamResponse, RestType, goVars, AtStates
  <2> QED BY <1>5, <2>2, PartsUnchanged, TypePartsNext DEF UpstreamResponse
<1>6. CASE SendLocalReply
  <2>1. \A b \in BOOLEAN : [body |-> b, trailers |-> FALSE] \in Message
    BY DEF Message
  <2>2. msg' \in [Dir -> Message]
    BY <1>1, <1>6, <2>1 DEF SendLocalReply, RestType
  <2>3. at' \in [Dir -> AtStates]
    BY <1>6 DEF SendLocalReply, AtStates, Dir
  <2>4. RestType'
    BY <1>1, <1>6, <2>2, <2>3 DEF SendLocalReply, RestType, goVars
  <2> QED BY <1>6, <2>4, PartsUnchanged, TypePartsNext DEF SendLocalReply
<1>7. CASE DecodeStep
  <2>1. RestType'
    BY <1>7, DecodeStepWorks, WorksType DEF Dir
  <2> QED BY <1>7, <2>1, DecodeStepType, TypePartsNext
<1>8. CASE EncodeStep
  <2>1. RestType'
    BY <1>8, EncodeStepWorks, WorksType DEF Dir
  <2> QED BY <1>8, <2>1, StepType, TypePartsNext DEF EncodeStep, Dir
<1>9. CASE GoroutineExit
  <2>1. runningInGoThread' \in Nat /\ exiting' \in Nat
    BY <1>1, <1>9 DEF GoroutineExit, RestType, CounterExact, InGoThread
  <2>2. RestType'
    BY <1>1, <1>9, <2>1 DEF GoroutineExit, RestType, envoyVars
  <2> QED BY <1>9, <2>2, PartsUnchanged, TypePartsNext DEF GoroutineExit
<1>10. CASE OnLog
  <2>1. RestType'
    BY <1>1, <1>10 DEF OnLog, RestType, goVars, envoyVars
  <2> QED BY <1>10, <2>1, PartsUnchanged, TypePartsNext DEF OnLog
<1>11. ASSUME Reset \/ Collect, ForgetStream, stage' = "pool", UNCHANGED <<conf, task, exiting>>
       PROVE  TypeOK'
  <2>1. ChainType' /\ ProgressType' /\ runningInGoThread' = 0
    BY <1>11, NewTypes DEF Reset, ResetProgress, Collect, ChainType, ProgressType
  <2>2. RestType'
    BY <1>1, <1>11, <2>1, ForgetType DEF RestType
  <2> QED BY <1>11, <2>1, <2>2, ForgetType, TypePartsNext
<1>12. CASE runOnLogPhase
  <2>1. CASE IsRunningInGoThread
    <3>1. RestType'
      BY <1>1, <1>12, <2>1 DEF runOnLogPhase, RestType, envoyVars
    <3> QED BY <1>12, <2>1, <3>1, PartsUnchanged, TypePartsNext DEF runOnLogPhase
  <2>2. CASE ~IsRunningInGoThread
    BY <1>11, <1>12, <2>2 DEF runOnLogPhase
  <2> QED BY <2>1, <2>2
<1>13. CASE Collect
  BY <1>11, <1>13 DEF Collect
<1>14. CASE UNCHANGED vars
  <2>1. RestType'
    BY <1>1, <1>14 DEF vars, goVars, envoyVars, RestType
  <2> QED BY <1>14, <2>1, PartsUnchanged, TypePartsNext DEF vars
<1> QED BY <1>3, <1>4, <1>5, <1>6, <1>7, <1>8, <1>9, <1>10, <1>12, <1>13, <1>14 DEF Next

-----------------------------------------------------------------------------
(* The chain changes early.                                                *)

(* No position refers to the chain at first.                               *)
LEMMA InitEarly == Init => Early /\ \A d \in Dir : Positions(d)
BY DEF Init, New, Early, Positions, NoTask, N, Dir

(* What the decode handler does to the premises of Early.                  *)
LEMMA DecodeWorksEarly ==
  ASSUME TypeOK, Early, Works("decode"),
         task'["decode"].pc \in {"init", "authn"} =>
           /\ task["decode"].pc \in {"init", "authn"}
           /\ UNCHANGED <<filters, idx>>,
         idx'["encode"] = idx["encode"]
  PROVE  Early'
<1>1. task'["encode"] = task["encode"] /\ UNCHANGED <<conf, stage>>
  BY DEF Works, Goes, Go, Leave, HandlerFrame, TypeOK, Dir
<1>2. at'["decode"] = "header" => UNCHANGED TheStream
  BY DEF Works, Goes, Go, Answers, TheStream, TypeOK, Dir, AtStates
<1>3. at'["decode"] = "header" =>
        /\ at'["encode"] = "none" /\ ~forwarded' /\ ~reply'
        /\ task'["encode"] = NoTask /\ idx'["encode"] = 0
  BY <1>1, <1>2 DEF Early, TheStream
<1>4. CASE Goes("decode")
  <2>1. task'["decode"].pc # "idle" /\ UNCHANGED TheStream
    BY <1>4 DEF Goes, Go, TypeOK, Dir, PCs, TheStream
  <2>2. task'["decode"].pc \in {"init", "authn"} =>
          /\ at'["decode"] = "header" /\ idx'["decode"] = 0
          /\ filters' = SortFilters(conf'.route)
    BY <1>1, <2>1 DEF Early, TheStream
  <2> QED BY <1>3, <2>1, <2>2 DEF Early
<1>5. CASE Leave("decode") /\ Answers("decode")
  <2>1. task'["decode"] = NoTask
    BY <1>5 DEF Leave, TypeOK, Dir
  <2>2. stage = "active" => at'["decode"] # "header"
    BY <1>5 DEF Answers, TheStream, TypeOK, Dir
  <2> QED BY <1>1, <1>3, <2>1, <2>2 DEF Early, NoTask
<1> QED BY <1>4, <1>5 DEF Works

(* The encode handler runs only once the request headers have passed.      *)
LEMMA EncodeWorksEarly ==
  ASSUME TypeOK, Early, Works("encode"), UNCHANGED chainVars
  PROVE  Early'
<1>1. task["encode"] # NoTask /\ at["decode"] # "header"
  BY BusyTask DEF Works, Early
<1>2. task'["decode"] = task["decode"] /\ at'["decode"] = at["decode"]
  BY DEF Works, Goes, Go, Leave, Answers, TheStream, TypeOK, Dir
<1> QED BY <1>1, <1>2 DEF Early

(* Envoy's calls do not disturb Early: only DecodeHeaders starts at init.  *)
LEMMA StartsEarly ==
  ASSUME TypeOK, Early, NEW d \in Dir, Starts(d),
         d = "decode" /\ task'["decode"].pc \in {"init", "authn"} => at["decode"] = "header"
  PROVE  Early'
<1>1. stage = "active" /\ UNCHANGED <<conf, stage, filters, idx>>
  BY DEF Starts, WorkerFree, chainVars, progressVars
<1>2. CASE d = "decode"
  <2>1. task["decode"].pc = "idle" /\ task'["encode"] = task["encode"]
    BY <1>2 DEF Starts, TypeOK, Dir, NoTask
  <2>2. \/ UNCHANGED TheStream
        \/ at'["decode"] # "header" /\ UNCHANGED task
    BY <1>2 DEF Starts, Answers, TheStream, TypeOK, Dir
  <2>3. CASE UNCHANGED TheStream
    BY <1>1, <1>2, <2>1, <2>3 DEF Early, TheStream
  <2>4. CASE at'["decode"] # "header" /\ UNCHANGED task
    BY <1>1, <2>1, <2>4 DEF Early
  <2> QED BY <2>2, <2>3, <2>4
<1>3. CASE d = "encode"
  <2>1. at["decode"] # "header"
    BY <1>3 DEF Starts, Early
  <2>2. task'["decode"] = task["decode"] /\ at'["decode"] = at["decode"]
    BY <1>3 DEF Starts, Answers, TheStream, TypeOK, Dir
  <2> QED BY <1>1, <2>1, <2>2 DEF Early
<1> QED BY <1>2, <1>3 DEF Dir

-----------------------------------------------------------------------------
(* Positions lie in the chain.                                             *)

(* Positions stay in a chain when neither they nor the chain change.       *)
LEMMA SamePositions ==
  ASSUME NEW d \in Dir, Positions(d), UNCHANGED <<conf, filters>>,
         task'[d] = task[d], idx'[d] = idx[d], needed'[d] = needed[d],
         at[d] = "stopped" => at'[d] = "stopped"
  PROVE  Positions(d)'
BY DEF Positions, consumerFiltersEndAt, N

(* A handler that leaves.                                                  *)
LEMMA LeavePositions ==
  ASSUME TypeOK, NEW d \in Dir, Leave(d), UNCHANGED filters,
         idx'[d] \in 0 .. N, ~needed'[d] \/ at'[d] = "stopped"
  PROVE  Positions(d)'
<1>1. task'[d].pc = "idle"
  BY DEF Leave, NoTask, TypeOK
<1> QED BY <1>1 DEF Positions, N

(* A handler that goes on at pc and cur.                                   *)
LEMMA GoPositions ==
  ASSUME TypeOK, NEW d \in Dir, NEW pc \in PCs, NEW cur \in Nat, UNCHANGED filters,
         Go(d, Advance(d, pc, cur)), idx'[d] \in 0 .. N, ~needed'[d],
         pc \in {"headers", "data", "trailers"} => cur \in 1 .. N + 1,
         pc = "noBody" => cur \in 1 .. N,
         pc \notin {"authn", "wholeData", "wholeTrailers", "whole", "wholeHeaders"}
  PROVE  Positions(d)'
<1>1. task'[d].pc = pc /\ task'[d].cur = cur
  BY AdvanceType DEF Go, TypeOK
<1> QED BY <1>1 DEF Positions, N

(* The loop over the headers stays in the chain and records a filter of    *)
(* it.                                                                     *)
LEMMA HeadersPositions ==
  ASSUME TypeOK, NEW d \in Dir, Positions(d), headersNext(d)
  PROVE  Positions(d)'
<1> DEFINE cur == task[d].cur
<1>1. /\ cur \in 1 .. N /\ cur \in Nat /\ cur + 1 \in Nat /\ N \in Nat
      /\ idx[d] \in 0 .. N /\ ~needed[d]
  BY DEF headersNext, Now, Positions, TypeOK, TaskType, N
<1>2. UNCHANGED filters
  BY DEF headersNext, chainVars
<1>3. PICK r \in Outcomes(At(d, cur), Headers(d)) :
        \/ localReply(d) /\ UNCHANGED <<idx, needed>>
        \/ /\ needed' = [needed EXCEPT ![d] = FALSE]
           /\ \/ Go(d, Advance(d, "headers", cur + 1)) /\ UNCHANGED idx
              \/ Go(d, Advance(d, "noBody", cur)) /\ UNCHANGED idx
              \/ idx' = [idx EXCEPT ![d] = cur] /\ Return(d, "StopAndBuffer")
  BY DEF headersNext
<1>4. CASE localReply(d) /\ UNCHANGED <<idx, needed>>
  BY <1>1, <1>2, <1>4, LeavePositions DEF localReply
<1>5. CASE needed' = [needed EXCEPT ![d] = FALSE]
  <2>1. ~needed'[d]
    BY <1>5 DEF TypeOK
  <2>2. CASE Go(d, Advance(d, "headers", cur + 1)) /\ UNCHANGED idx
    BY <1>1, <1>2, <2>1, <2>2, GoPositions DEF PCs
  <2>3. CASE Go(d, Advance(d, "noBody", cur)) /\ UNCHANGED idx
    BY <1>1, <1>2, <2>1, <2>3, GoPositions DEF PCs
  <2>4. CASE idx' = [idx EXCEPT ![d] = cur] /\ Return(d, "StopAndBuffer")
    <3>1. idx'[d] \in 0 .. N
      BY <1>1, <2>4 DEF TypeOK
    <3> QED BY <1>2, <2>1, <2>4, <3>1, LeavePositions DEF Return
  <2> QED BY <1>3, <1>4, <2>2, <2>3, <2>4
<1> QED BY <1>3, <1>4, <1>5

(* The hooks of a streamed message.                                        *)
LEMMA StreamPositions ==
  ASSUME TypeOK, NEW d \in Dir, Positions(d),
         headersNoBody(d) \/ dataNext(d) \/ trailersNext(d) \/ handlerEnd(d)
  PROVE  Positions(d)'
<1> DEFINE cur == task[d].cur
<1>1. /\ cur \in Nat /\ cur + 1 \in Nat /\ N \in Nat /\ idx[d] \in 0 .. N /\ ~needed[d]
      /\ UNCHANGED <<filters, idx, needed>>
  BY DEF headersNoBody, dataNext, trailersNext, handlerEnd, chainVars, progressVars,
         Now, Positions, TypeOK, TaskType, N
<1>2. \/ localReply(d)
      \/ cur \in 1 .. N /\ \E pc \in {"headers", "data", "trailers"} : Go(d, Advance(d, pc, cur + 1))
      \/ Leave(d)
  BY DEF headersNoBody, dataNext, trailersNext, handlerEnd, Hook, Return, Now, Positions
<1>3. CASE localReply(d) \/ Leave(d)
  BY <1>1, <1>3, LeavePositions DEF localReply
<1>4. ASSUME cur \in 1 .. N, NEW pc \in {"headers", "data", "trailers"},
             Go(d, Advance(d, pc, cur + 1))
      PROVE  Positions(d)'
  BY <1>1, <1>4, GoPositions DEF PCs
<1> QED BY <1>2, <1>3, <1>4

(* A handler of a whole message that goes on, and what it must keep.       *)
LEMMA WholeGoPositions ==
  ASSUME TypeOK, NEW d \in Dir, NEW pc \in {"wholeData", "wholeTrailers", "whole", "wholeHeaders"},
         NEW cur \in Nat \ {0}, UNCHANGED filters, Go(d, Advance(d, pc, cur)),
         idx'[d] \in 1 .. N,
         pc \in {"wholeData", "wholeTrailers"} => task[d].seg \in 1 .. N + 1,
         pc = "whole" => task[d].seg \in 1 .. N,
         pc = "wholeHeaders" => cur \in 1 .. N + 1,
         needed'[d] => pc # "wholeHeaders" /\ task[d].seg <= N
  PROVE  Positions(d)'
<1>1. pc \in PCs /\ cur \in Nat /\ N \in Nat
  BY DEF PCs, TypeOK, N
<1>2. task'[d].pc = pc /\ task'[d].cur = cur /\ task'[d].seg = task[d].seg
  BY <1>1, AdvanceType DEF Go, TypeOK
<1>3. idx'[d] # 0 /\ idx'[d] \in 0 .. N
  BY <1>1
<1> QED BY <1>1, <1>2, <1>3 DEF Positions, N

(* A local reply may leave the waiting flag set: the stream has stopped.   *)
LEMMA ReplyPositions ==
  ASSUME TypeOK, NEW d \in Dir, localReply(d), UNCHANGED filters, idx'[d] \in 0 .. N
  PROVE  Positions(d)'
<1>1. Leave(d) /\ at'[d] = "stopped"
  BY DEF localReply, TypeOK
<1> QED BY <1>1, LeavePositions

(* The body of a segment: no filter at or after the segment is called.     *)
LEMMA WholeDataPositions ==
  ASSUME TypeOK, NEW d \in Dir, Positions(d), wholeData(d)
  PROVE  Positions(d)'
<1> DEFINE cur == task[d].cur
           seg == task[d].seg
<1>1. /\ cur \in Nat \ {0} /\ cur + 1 \in Nat \ {0} /\ seg \in 1 .. N + 1 /\ idx[d] \in 1 .. N
      /\ N \in Nat /\ (needed[d] => seg <= N)
  BY DEF wholeData, Now, Positions, TypeOK, TaskType, N
<1>2. UNCHANGED <<filters, idx, needed>>
  BY DEF wholeData, chainVars, progressVars
<1>3. SegmentStart(d) \in Nat \ {0}
  BY <1>1 DEF SegmentStart
<1>4. \/ localReply(d)
      \/ Go(d, Advance(d, "wholeData", cur + 1))
      \/ Go(d, Advance(d, "wholeTrailers", SegmentStart(d)))
  BY DEF wholeData, Hook
<1>5. CASE localReply(d)
  BY <1>1, <1>2, <1>5, ReplyPositions
<1>6. CASE Go(d, Advance(d, "wholeData", cur + 1))
  BY <1>1, <1>2, <1>6, WholeGoPositions
<1>7. CASE Go(d, Advance(d, "wholeTrailers", SegmentStart(d)))
  BY <1>1, <1>2, <1>3, <1>7, WholeGoPositions
<1> QED BY <1>4, <1>5, <1>6, <1>7

(* The trailers of a segment, and what follows them.                       *)
LEMMA WholeTrailersPositions ==
  ASSUME TypeOK, NEW d \in Dir, Positions(d), wholeTrailers(d)
  PROVE  Positions(d)'
<1> DEFINE cur == task[d].cur
           seg == task[d].seg
<1>1. /\ cur \in Nat \ {0} /\ cur + 1 \in Nat \ {0} /\ seg \in 1 .. N + 1 /\ idx[d] \in 1 .. N
      /\ N \in Nat /\ seg \in Nat \ {0} /\ (needed[d] => seg <= N)
  BY DEF wholeTrailers, Now, Positions, TypeOK, TaskType, N
<1>2. UNCHANGED <<filters, idx, needed>>
  BY DEF wholeTrailers, chainVars, progressVars
<1>3. \/ localReply(d)
      \/ Go(d, Advance(d, "wholeTrailers", cur + 1))
      \/ RequestDue(d) /\ Go(d, Advance(d, "whole", seg))
      \/ ~RequestDue(d) /\ Return(d, "Continue")
  BY DEF wholeTrailers, Hook
<1>4. CASE localReply(d)
  BY <1>1, <1>2, <1>4, ReplyPositions
<1>5. CASE Go(d, Advance(d, "wholeTrailers", cur + 1))
  BY <1>1, <1>2, <1>5, WholeGoPositions
<1>6. CASE RequestDue(d) /\ Go(d, Advance(d, "whole", seg))
  <2>1. seg \in 1 .. N
    BY <1>1, <1>6 DEF RequestDue
  <2> QED BY <1>1, <1>2, <1>6, <2>1, WholeGoPositions
<1>7. CASE ~RequestDue(d) /\ Return(d, "Continue")
  BY <1>1, <1>2, <1>7, LeavePositions DEF RequestDue, Return
<1> QED BY <1>3, <1>4, <1>5, <1>6, <1>7

(* After the whole message the waiting filter is the recorded one.         *)
LEMMA WholeMessagePositions ==
  ASSUME TypeOK, NEW d \in Dir, Positions(d), wholeMessage(d)
  PROVE  Positions(d)'
<1> DEFINE seg == task[d].seg
<1>1. seg \in 1 .. N /\ seg + 1 \in Nat \ {0} /\ seg + 1 \in 1 .. N + 1 /\ N \in Nat
  BY DEF wholeMessage, Now, Positions, TypeOK, N
<1>2. UNCHANGED filters /\ idx'[d] = seg /\ ~needed'[d]
  BY DEF wholeMessage, chainVars, TypeOK
<1>3. localReply(d) \/ Go(d, Advance(d, "wholeHeaders", seg + 1))
  BY DEF wholeMessage, AfterWhole, Hook
<1>4. CASE localReply(d)
  BY <1>1, <1>2, <1>4, ReplyPositions
<1>5. CASE Go(d, Advance(d, "wholeHeaders", seg + 1))
  BY <1>1, <1>2, <1>5, WholeGoPositions
<1> QED BY <1>3, <1>4, <1>5

(* The headers of the filters after it, and the segment they make up.      *)
LEMMA WholeHeadersPositions ==
  ASSUME TypeOK, NEW d \in Dir, Positions(d), wholeHeaders(d)
  PROVE  Positions(d)'
<1> DEFINE cur == task[d].cur
<1>1. /\ cur \in 1 .. N + 1 /\ cur \in Nat /\ idx[d] \in 1 .. N /\ N \in Nat /\ ~needed[d]
      /\ cur + 1 \in Nat \ {0} /\ idx[d] + 1 \in Nat \ {0}
  BY DEF wholeHeaders, Now, Positions, TypeOK, TaskType, N
<1>2. UNCHANGED <<filters, idx>>
  BY DEF wholeHeaders, chainVars
<1>3. \/ localReply(d)
      \/ Go(d, NextSegment(d)) /\ (needed'[d] => cur <= N)
      \/ cur <= N /\ ~needed'[d] /\ Go(d, Advance(d, "wholeHeaders", cur + 1))
  <2>1. CASE cur > N
    BY <1>1, <2>1 DEF wholeHeaders
  <2>2. CASE cur <= N
    <3>1. PICK r \in Outcomes(At(d, cur), Headers(d)) :
            /\ needed' = [needed EXCEPT ![d] = @ \/ r = "WaitAllData"]
            /\ CASE r = "Local" -> localReply(d)
                 [] r = "WaitAllData" -> Go(d, NextSegment(d))
                 [] OTHER -> Go(d, Advance(d, "wholeHeaders", cur + 1))
      BY <1>1, <2>2 DEF wholeHeaders
    <3>2. needed'[d] <=> r = "WaitAllData"
      BY <1>1, <3>1 DEF TypeOK
    <3> QED BY <2>2, <3>1, <3>2
  <2> QED BY <1>1, <2>1, <2>2
<1>4. CASE localReply(d)
  BY <1>1, <1>2, <1>4, ReplyPositions
<1>5. CASE Go(d, NextSegment(d)) /\ (needed'[d] => cur <= N)
  <2>1. /\ task'[d].pc = "wholeData" /\ task'[d].cur = idx[d] + 1 /\ task'[d].seg = cur
        /\ idx'[d] \in 1 .. N
    BY <1>1, <1>2, <1>5 DEF Go, NextSegment, Advance, TypeOK, TaskType
  <2> QED BY <1>1, <1>2, <1>5, <2>1 DEF Positions, N
<1>6. CASE cur <= N /\ ~needed'[d] /\ Go(d, Advance(d, "wholeHeaders", cur + 1))
  BY <1>1, <1>2, <1>6, WholeGoPositions
<1> QED BY <1>3, <1>4, <1>5, <1>6

(* No plugin up to the last authentication plugin waits for the request.   *)
LEMMA AuthnDoesNotWait ==
  ASSUME TypeOK, filters = SortFilters(conf.route), NEW cur \in 1 .. consumerFiltersEndAt
  PROVE  "WaitAllData" \notin Outcomes(filters[cur], "DecodeHeaders")
<1> DEFINE last == consumerFiltersEndAt
           p == filters[cur]
           q == filters[last]
<1>1. conf \in Setups /\ conf.route \in SUBSET Plugins
  BY SetupType DEF TypeOK, Setup
<1>2. /\ last \in 1 .. Len(filters) /\ cur \in 1 .. Len(filters) /\ q \in AuthnPlugins
      /\ filters \in Seq(Plugins) /\ Sorted(filters)
  BY <1>1, EndAtType, SortFiltersType
<1>3. p \in Plugins /\ q \in Plugins /\ PluginOrder[p] \in Nat /\ PluginOrder[q] \in Nat
  BY <1>2, Ranked
<1>4. PluginOrder[p] <= PluginOrder[q]
  <2>1. CASE cur = last
    BY <2>1, <1>3
  <2>2. CASE cur < last
    BY <1>2, <1>3, <2>2 DEF Sorted
  <2> QED BY <2>1, <2>2, <1>2
<1>5. "DecodeRequest" \notin conf.defines[p]
  BY <1>1, <1>2, <1>3, <1>4, SetupAssumption
<1> QED BY <1>5 DEF Outcomes, Defines, Headers, Whole, Dir

(* A step common to both directions keeps the positions of both in the     *)
(* chain.                                                                  *)
LEMMA StepPositions ==
  ASSUME TypeOK, NEW d \in Dir, \A e \in Dir : Positions(e), Step(d)
  PROVE  \A e \in Dir : Positions(e)'
<1>1. Positions(d)'
  BY HeadersPositions, StreamPositions, WholeDataPositions, WholeTrailersPositions,
     WholeMessagePositions, WholeHeadersPositions DEF Step
<1>2. ASSUME NEW e \in Dir, e # d
      PROVE  Positions(e)'
  <2>1. Works(d)
    BY StepWorks
  <2>2. /\ task'[e] = task[e] /\ at'[e] = at[e] /\ UNCHANGED conf
    BY <1>2, <2>1 DEF Works, Goes, Go, Leave, Answers, TheStream, HandlerFrame, TypeOK
  <2>3. UNCHANGED filters /\ idx'[e] = idx[e] /\ needed'[e] = needed[e]
    BY <1>2 DEF Step, headersNext, headersNoBody, dataNext, trailersNext, wholeData,
                wholeTrailers, wholeMessage, wholeHeaders, handlerEnd, chainVars, progressVars,
                TypeOK
  <2> QED BY <2>2, <2>3, SamePositions
<1> QED BY <1>1, <1>2

(* So does a handler that starts.                                          *)
LEMMA StartsPositions ==
  ASSUME TypeOK, NEW d \in Dir, \A e \in Dir : Positions(e), Starts(d)
  PROVE  \A e \in Dir : Positions(e)'
<1>1. /\ UNCHANGED <<conf, filters, idx, needed>> /\ N \in Nat
      /\ task[d].pc = "idle" /\ ~needed[d] /\ idx[d] \in 0 .. N
  BY DEF Starts, chainVars, progressVars, Positions, NoTask, TypeOK, N
<1>2. Positions(d)'
  <2>1. CASE UNCHANGED task
    BY <1>1, <2>1 DEF Positions, N
  <2>2. ASSUME NEW t \in TaskType, Entry(d, t), task' = [task EXCEPT ![d] = t]
        PROVE  Positions(d)'
    <3>1. task'[d] = t
      BY <2>2 DEF TypeOK
    <3>2. /\ t.cur = 1 /\ t.pc \in Entries
          /\ t.pc = "wholeData" => t.seg \in 1 .. N + 1 /\ idx[d] # 0
      BY <1>1, <2>2 DEF Entry
    <3>3. 1 \in 1 .. N + 1 /\ 1 \in Nat \ {0}
      BY <1>1
    <3> QED BY <1>1, <3>1, <3>2, <3>3 DEF Positions, N, Entries
  <2> QED BY <2>1, <2>2 DEF Starts
<1>3. ASSUME NEW e \in Dir, e # d
      PROVE  Positions(e)'
  <2>1. task'[e] = task[e] /\ at'[e] = at[e]
    BY <1>3 DEF Starts, Answers, TheStream, TypeOK
  <2> QED BY <1>1, <2>1, SamePositions
<1> QED BY <1>2, <1>3

(* The steps of the decode handler before its loop: no filter waits there, *)
(* and the positions that refer to the chain are those of the new chain.   *)
LEMMA DecodeStepPositions ==
  ASSUME TypeOK, \A e \in Dir : Positions(e), Early, DecodeStep
  PROVE  \A e \in Dir : Positions(e)'
<1> DEFINE cur == task["decode"].cur
           last == consumerFiltersEndAt
<1>1. /\ conf \in Setups /\ conf.route \in SUBSET Plugins /\ conf.consumer \in SUBSET Plugins
      /\ last \in 0 .. Len(SortFilters(conf.route)) /\ last \in Nat
      /\ Len(SortFilters(conf.route)) = Cardinality(conf.route) /\ Cardinality(conf.route) \in Nat
      /\ cur \in Nat /\ N \in Nat
  <2>1. conf \in Setups /\ conf.route \in SUBSET Plugins /\ conf.consumer \in SUBSET Plugins
    BY SetupType DEF TypeOK, Setup
  <2>2. cur \in Nat /\ N \in Nat
    BY DEF TypeOK, TaskType, N, Dir
  <2> QED BY <2>1, <2>2, EndAtType, SortFiltersType
<1>2. ASSUME decodeHeadersInit \/ decodeHeadersAuthn \/ mergeConsumer
      PROVE  /\ at["decode"] = "header" /\ idx["decode"] = 0 /\ filters = SortFilters(conf.route)
             /\ task["encode"] = NoTask /\ idx["encode"] = 0 /\ at["encode"] = "none"
             /\ ~needed["decode"] /\ ~needed["encode"]
  BY <1>2 DEF decodeHeadersInit, decodeHeadersAuthn, mergeConsumer, Now, Early, Positions, NoTask, Dir
<1>3. ASSUME decodeHeadersInit \/ decodeHeadersAuthn \/ mergeConsumer,
             UNCHANGED <<idx, conf>>, needed'["encode"] = needed["encode"]
      PROVE  Positions("encode")'
  <2>1. task'["encode"] = NoTask
    BY <1>2, <1>3, DecodeStepWorks DEF DecodeStep, Works, Goes, Go, Leave, TypeOK, Dir
  <2>2. idx'["encode"] = 0 /\ ~needed'["encode"]
    BY <1>2, <1>3
  <2>3. filters' \in Seq(Plugins)
    BY <1>3, DecodeStepType DEF ChainType, DecodeStep
  <2> QED BY <2>1, <2>2, <2>3 DEF Positions, NoTask, N
<1>4. CASE decodeHeadersInit
  <2>1. UNCHANGED <<filters, idx, needed, conf>>
    BY <1>4 DEF decodeHeadersInit, chainVars, progressVars, HandlerFrame
  <2>2. Positions("decode")'
    <3>1. CASE localReply("decode")
      BY <1>1, <1>2, <1>4, <2>1, <3>1, ReplyPositions DEF Dir
    <3>2. CASE Go("decode", Advance("decode", IF last = 0 THEN "headers" ELSE "authn", 1))
      <4>1. /\ task'["decode"].pc = (IF last = 0 THEN "headers" ELSE "authn")
            /\ task'["decode"].cur = 1
        BY <3>2 DEF Go, Advance, TypeOK, TaskType, Dir
      <4>2. 1 \in 1 .. N + 1 /\ 1 \in 1 .. last + 1
        BY <1>1
      <4>3. last' = last
        BY <2>1 DEF consumerFiltersEndAt
      <4> QED BY <1>1, <1>2, <1>4, <2>1, <4>1, <4>2, <4>3 DEF Positions, N
    <3> QED BY <1>4, <3>1, <3>2 DEF decodeHeadersInit
  <2> QED BY <1>3, <1>4, <2>1, <2>2 DEF Dir
<1>5. CASE decodeHeadersAuthn
  <2>1. UNCHANGED <<filters, idx, conf>> /\ cur \in 1 .. last
    BY <1>1, <1>5 DEF decodeHeadersAuthn, Now, Positions, HandlerFrame, Dir
  <2>2. PICK r \in Outcomes(filters[cur], "DecodeHeaders") :
          \/ localReply("decode") /\ UNCHANGED needed
          \/ /\ needed' = [needed EXCEPT !["decode"] = @ \/ r = "WaitAllData"]
             /\ Go("decode", Advance("decode", "authn", cur + 1))
    BY <1>5 DEF decodeHeadersAuthn
  <2>3. r # "WaitAllData"
    BY <1>2, <1>5, <2>1, <2>2, AuthnDoesNotWait
  <2>4. ~needed'["decode"] /\ needed'["encode"] = needed["encode"]
    BY <1>2, <1>5, <2>2, <2>3 DEF TypeOK, Dir
  <2>5. Positions("decode")'
    <3>1. CASE localReply("decode")
      BY <1>1, <1>2, <1>5, <2>1, <3>1, ReplyPositions DEF Dir
    <3>2. CASE Go("decode", Advance("decode", "authn", cur + 1))
      <4>1. task'["decode"].pc = "authn" /\ task'["decode"].cur = cur + 1
        BY <3>2 DEF Go, Advance, TypeOK, TaskType, Dir
      <4>2. cur + 1 \in 1 .. last + 1
        BY <1>1, <2>1
      <4>3. last' = last
        BY <2>1 DEF consumerFiltersEndAt
      <4> QED BY <1>1, <1>2, <1>5, <2>1, <2>4, <4>1, <4>2, <4>3 DEF Positions, N
    <3> QED BY <2>2, <3>1, <3>2
  <2> QED BY <1>3, <1>5, <2>1, <2>4, <2>5 DEF Dir
<1>6. CASE mergeConsumer
  <2>1. UNCHANGED <<idx, needed, conf>>
    BY <1>6 DEF mergeConsumer, progressVars, HandlerFrame
  <2>2. task'["decode"].pc = "headers" /\ task'["decode"].cur = last + 1
    BY <1>6 DEF mergeConsumer, Go, Advance, TypeOK, TaskType, Dir
  <2>3. N' \in Nat /\ last <= N'
    <3>1. CASE UNCHANGED filters
      BY <1>1, <1>2, <1>6, <3>1 DEF N
    <3>2. CASE filters' = SortFilters(RangeOf(filters) \union conf.consumer)
      <4> DEFINE S == conf.route \union conf.consumer
      <4>1. RangeOf(filters) = conf.route
        BY <1>1, <1>2, <1>6, SortFiltersRange
      <4>2. S \in SUBSET Plugins /\ filters' = SortFilters(S)
        BY <1>1, <3>2, <4>1
      <4>3. Cardinality(conf.route) <= Cardinality(S)
        <5>1. IsFiniteSet(S) /\ conf.route \in SUBSET S
          BY <4>2, OrderAssumption, FS_Subset
        <5> QED BY <5>1, FS_Subset
      <4>4. N' = Cardinality(S) /\ N' \in Nat
        BY <4>2, SortFiltersType DEF N
      <4> QED BY <1>1, <4>3, <4>4
    <3> QED BY <1>6, <3>1, <3>2 DEF mergeConsumer
  <2>4. Positions("decode")'
    <3>1. last + 1 \in 1 .. N' + 1 /\ 0 \in 0 .. N'
      <4>1. \A l, n \in Nat : l <= n => l + 1 \in 1 .. n + 1 /\ 0 \in 0 .. n
        OBVIOUS
      <4> HIDE DEF last
      <4> QED BY <1>1, <2>3, <4>1
    <3> QED BY <1>2, <1>6, <2>1, <2>2, <3>1 DEF Positions, Dir
  <2> QED BY <1>3, <1>6, <2>1, <2>4 DEF Dir
<1>7. CASE decodeDataKeep
  <2>1. /\ UNCHANGED <<filters, idx, needed, conf>> /\ Leave("decode")
        /\ ~needed["decode"] /\ idx["decode"] \in 0 .. N
    BY <1>7 DEF decodeDataKeep, chainVars, HandlerFrame, Return, Now, Positions, Dir
  <2>2. Positions("decode")'
    BY <2>1, LeavePositions DEF Dir
  <2>3. task'["encode"] = task["encode"] /\ at'["encode"] = at["encode"]
    BY <1>7, DecodeStepWorks DEF DecodeStep, Works, Goes, Go, Leave, Answers, TheStream, TypeOK, Dir
  <2> QED BY <2>1, <2>2, <2>3, SamePositions DEF Dir
<1>8. CASE Step("decode")
  BY <1>8, StepPositions DEF Dir
<1> QED BY <1>4, <1>5, <1>6, <1>7, <1>8 DEF DecodeStep

(* What Reset and ForgetStream leave.                                      *)
LEMMA ForgottenPositions ==
  ASSUME TypeOK, New', ForgetStream, task' = task, \A d \in Dir : task[d] = NoTask
  PROVE  Early' /\ \A d \in Dir : Positions(d)'
BY DEF New, ForgetStream, Early, Positions, NoTask, N, Dir

(* Only a step before the loop of decodeHeaders leads to another one.      *)
LEMMA DecodeStepKeepsChain ==
  ASSUME TypeOK, DecodeStep, task'["decode"].pc \in {"init", "authn"}
  PROVE  task["decode"].pc \in {"init", "authn"} /\ UNCHANGED <<filters, idx>>
<1>1. CASE decodeHeadersInit
  BY <1>1 DEF decodeHeadersInit, Now, chainVars, progressVars
<1>2. CASE decodeHeadersAuthn
  BY <1>2 DEF decodeHeadersAuthn, Now
<1>3. CASE mergeConsumer
  BY <1>3 DEF mergeConsumer, Go, Advance, TypeOK, TaskType, Dir
<1>4. CASE decodeDataKeep
  BY <1>4 DEF decodeDataKeep, Return, Leave, NoTask, TypeOK, Dir
<1>5. CASE Step("decode")
  <2>1. task["decode"] \in TaskType /\ task \in [Dir -> TaskType] /\ "decode" \in Dir
    BY DEF TypeOK, Dir
  <2>2. ASSUME NEW pc \in PCs \ {"init", "authn"}, NEW cur, Go("decode", Advance("decode", pc, cur))
        PROVE  FALSE
    BY <2>1, <2>2 DEF Go, Advance, TaskType
  <2>3. ASSUME Go("decode", NextSegment("decode")) PROVE FALSE
    BY <2>1, <2>3 DEF Go, NextSegment, Advance, TaskType
  <2>4. ASSUME Leave("decode") PROVE FALSE
    BY <2>1, <2>4 DEF Leave, NoTask
  <2>5. ~localReply("decode") /\ \A status : ~Return("decode", status)
    BY <2>4 DEF localReply, Return
  <2> QED BY <1>5, <2>2, <2>3, <2>5
          DEF Step, headersNext, headersNoBody, dataNext, trailersNext, wholeData, Hook,
              wholeTrailers, wholeMessage, AfterWhole, wholeHeaders, handlerEnd, PCs
<1> QED BY <1>1, <1>2, <1>3, <1>4, <1>5 DEF DecodeStep

(* Every step keeps the positions in the chain, and changes the chain      *)
(* early only.                                                             *)
LEMMA NextPositions ==
  ASSUME IInv, [Next]_vars
  PROVE  Early' /\ \A d \in Dir : Positions(d)'
<1> USE DEF IInv
<1>1. CASE FilterManagerFactory
  <2>1. /\ New /\ at = [d \in Dir |-> "none"] /\ ~forwarded /\ ~reply
        /\ task = [d \in Dir |-> NoTask] /\ conf.route \in SUBSET Plugins
    BY <1>1, SetupType DEF FilterManagerFactory, Free, TypeOK, Setup
  <2>2. /\ filters' = SortFilters(conf.route) /\ at'["decode"] = "header"
        /\ at'["encode"] = "none"
        /\ UNCHANGED <<conf, idx, needed, task, forwarded, reply>>
    BY <1>1, <2>1 DEF FilterManagerFactory, progressVars, goVars, Dir
  <2>3. N' \in Nat
    BY <2>1, <2>2, SortFiltersType DEF N
  <2>4. Early'
    BY <2>1, <2>2 DEF Early, New, NoTask, Dir
  <2>5. \A d \in Dir : Positions(d)'
    BY <2>1, <2>2, <2>3 DEF Positions, New, NoTask, N
  <2> QED BY <2>4, <2>5
<1>2. CASE DecodeEvent
  <2>1. Starts("decode")
    BY <1>2, EventStarts
  <2>2. task'["decode"].pc \in {"init", "authn"} => at["decode"] = "header"
    BY <2>1 DEF Starts, Entry, Entries, NoTask, TypeOK, Dir
  <2> QED BY <2>1, <2>2, StartsEarly, StartsPositions DEF Dir
<1>3. CASE EncodeEvent
  <2>1. Starts("encode")
    BY <1>3, EventStarts
  <2> QED BY <2>1, StartsEarly, StartsPositions DEF Dir
<1>4. CASE UpstreamResponse
  <2>1. /\ at["decode"] # "header" /\ at'["decode"] = at["decode"] /\ at["encode"] = "none"
        /\ UNCHANGED <<conf, stage, filters, idx, needed, task>>
    BY <1>4 DEF UpstreamResponse, Early, chainVars, progressVars, goVars, TypeOK, Dir
  <2>2. Early'
    BY <2>1 DEF Early
  <2>3. \A d \in Dir : Positions(d)'
    BY <2>1, SamePositions DEF Dir
  <2> QED BY <2>2, <2>3
<1>5. CASE SendLocalReply
  <2>1. /\ at["decode"] # "header" /\ at'["decode"] = "stopped"
        /\ at["encode"] = "stopped" => at'["encode"] = "stopped"
        /\ UNCHANGED <<conf, stage, filters, idx, needed, task>>
    BY <1>5 DEF SendLocalReply, Early, chainVars, progressVars, goVars, TypeOK, Dir
  <2>2. Early'
    BY <2>1 DEF Early
  <2>3. \A d \in Dir : Positions(d)'
    BY <2>1, SamePositions DEF Dir
  <2> QED BY <2>2, <2>3
<1>6. CASE DecodeStep
  <2>1. Works("decode")
    BY <1>6, DecodeStepWorks
  <2>2. idx'["encode"] = idx["encode"]
    BY <1>6 DEF DecodeStep, decodeHeadersInit, decodeHeadersAuthn, mergeConsumer, decodeDataKeep,
                Step, headersNext, headersNoBody, dataNext, trailersNext, wholeData,
                wholeTrailers, wholeMessage, wholeHeaders, handlerEnd, progressVars, TypeOK, Dir
  <2>3. task'["decode"].pc \in {"init", "authn"} =>
          task["decode"].pc \in {"init", "authn"} /\ UNCHANGED <<filters, idx>>
    BY <1>6, <2>1, DecodeStepKeepsChain
  <2> QED BY <1>6, <2>1, <2>2, <2>3, DecodeWorksEarly, DecodeStepPositions
<1>7. CASE EncodeStep
  <2>1. Works("encode") /\ UNCHANGED chainVars
    BY <1>7, EncodeStepWorks
       DEF EncodeStep, Step, headersNext, headersNoBody, dataNext, trailersNext, wholeData,
           wholeTrailers, wholeMessage, wholeHeaders, handlerEnd
  <2> QED BY <1>7, <2>1, EncodeWorksEarly, StepPositions DEF EncodeStep, Dir
<1>8. CASE GoroutineExit
  <2>1. UNCHANGED <<conf, stage, filters, idx, needed, task, at, forwarded, reply>>
    BY <1>8 DEF GoroutineExit, chainVars, progressVars, envoyVars
  <2> QED BY <2>1, SamePositions DEF Early
<1>9. CASE OnLog
  <2>1. /\ UNCHANGED <<conf, filters, idx, needed, task, at, forwarded, reply>>
        /\ stage' # "active"
    BY <1>9 DEF OnLog, chainVars, progressVars, goVars, envoyVars
  <2> QED BY <2>1, SamePositions DEF Early
<1>10. CASE runOnLogPhase
  <2>1. CASE IsRunningInGoThread
    <3>1. /\ UNCHANGED <<conf, filters, idx, needed, task, at, forwarded, reply>>
          /\ stage' # "active"
      BY <1>10, <2>1 DEF runOnLogPhase, chainVars, progressVars, envoyVars
    <3> QED BY <3>1, SamePositions DEF Early
  <2>2. CASE ~IsRunningInGoThread
    <3>1. Free' /\ stage' = "pool" /\ ForgetStream /\ task' = task
      BY <1>10, <2>2, NextCounter DEF runOnLogPhase, Next
    <3> QED BY <3>1, ForgottenPositions DEF Free
  <2> QED BY <2>1, <2>2
<1>11. CASE Collect
  <2>1. Free' /\ stage' = "pool" /\ ForgetStream /\ task' = task
    BY <1>11, NextCounter DEF Collect, Next
  <2> QED BY <2>1, ForgottenPositions DEF Free
<1>12. CASE UNCHANGED vars
  <2>1. UNCHANGED <<conf, stage, filters, idx, needed, task, at, forwarded, reply>>
    BY <1>12 DEF vars, chainVars, progressVars, goVars, envoyVars
  <2> QED BY <2>1, SamePositions DEF Early
<1> QED BY <1>1, <1>2, <1>3, <1>4, <1>5, <1>6, <1>7, <1>8, <1>9, <1>10, <1>11, <1>12 DEF Next

-----------------------------------------------------------------------------
(* The theorems.                                                           *)

(* IInv is an invariant of the specification.                              *)
THEOREM Invariance == Spec => []IInv
<1>1. Init => IInv
  BY InitType, InitEarly, InitCounter DEF IInv
<1>2. IInv /\ [Next]_vars => IInv'
  <2> SUFFICES ASSUME IInv, [Next]_vars PROVE IInv'
    OBVIOUS
  <2>1. TypeOK'
    BY NextType DEF IInv
  <2>2. CounterExact' /\ Free'
    BY NextCounter DEF IInv
  <2>3. Early' /\ \A d \in Dir : Positions(d)'
    BY NextPositions
  <2> QED BY <2>1, <2>2, <2>3 DEF IInv
<1> QED BY <1>1, <1>2, PTL DEF Spec

(* Every variable of the manager keeps its type: a position stays in the   *)
(* chain and the counter of goroutines is never negative.                  *)
THEOREM TypeCorrect == Spec => []TypeOK
<1>1. IInv => TypeOK
  BY DEF IInv
<1> QED BY <1>1, Invariance, PTL

(* runningInGoThread counts the goroutines that still use the object, so   *)
(* IsRunningInGoThread never answers wrongly.                              *)
THEOREM CounterCorrect == Spec => []CounterExact
<1>1. IInv => CounterExact
  BY DEF IInv
<1> QED BY <1>1, Invariance, PTL

(* Reset makes an object that goes back to the pool as good as new.        *)
THEOREM RecyclingCorrect == Spec => []RecycledIsNew
<1>1. IInv => RecycledIsNew
  BY DEF IInv, Free, RecycledIsNew
<1> QED BY <1>1, Invariance, PTL

(* How many executions refer to the object, direction by direction.        *)
InUse(d) == IF task[d] = NoTask THEN 0 ELSE 1

(* users adds up the exiting goroutines and the two handlers.              *)
LEMMA UsersSum == users = exiting + InUse("decode") + InUse("encode")
BY DEF users, InUse

(* users changes as much as its terms do.                                  *)
LEMMA UsersChange ==
  ASSUME TypeOK, NEW d \in Dir, \A e \in Dir : e # d => task'[e] = task[e],
         NEW de \in Int, exiting' = exiting + de
  PROVE  /\ users \in Nat
         /\ users' = users + de + InUse(d)' - InUse(d)
<1>1. \A e \in Dir : InUse(e) \in 0 .. 1 /\ InUse(e)' \in 0 .. 1
  BY DEF InUse
<1>2. \A e \in Dir : e # d => InUse(e)' = InUse(e)
  BY DEF InUse
<1>3. exiting \in Nat
  BY DEF TypeOK
<1>4. users = exiting + InUse("decode") + InUse("encode")
  BY UsersSum
<1>5. users' = exiting' + InUse("decode")' + InUse("encode")'
  BY DEF users, InUse
<1>6. CASE d = "decode"
  BY <1>1, <1>2, <1>3, <1>4, <1>5, <1>6 DEF Dir
<1>7. CASE d = "encode"
  BY <1>1, <1>2, <1>3, <1>4, <1>5, <1>7 DEF Dir
<1> QED BY <1>6, <1>7 DEF Dir

(* A step of a handler is a stutter of the pool, or the end of a user.     *)
LEMMA WorksPool ==
  ASSUME TypeOK, NEW d \in Dir, Works(d)
  PROVE  [Pool!Next]_(Pool!vars)
<1>1. /\ task[d] # NoTask /\ slot' = slot
      /\ \A e \in Dir : e # d => task'[e] = task[e]
  BY BusyTask DEF Works, HandlerFrame, slot, Goes, Go, Leave, TypeOK
<1>2. exiting \in Nat
  BY DEF TypeOK
<1>3. CASE Goes(d)
  <2>1. task'[d] # NoTask /\ exiting' = exiting + 0
    BY <1>2, <1>3, BusyTask DEF Goes, Go, TypeOK
  <2>2. users \in Nat /\ users' = users + 0 + InUse(d)' - InUse(d)
    BY <1>1, <2>1, UsersChange
  <2>3. users' = users
    BY <1>1, <2>1, <2>2 DEF InUse
  <2> QED BY <1>1, <2>3 DEF Pool!vars
<1>4. CASE Leave(d)
  <2> DEFINE de == IF task[d].inline THEN 0 ELSE 1
  <2>1. task'[d] = NoTask /\ exiting' = exiting + de /\ de \in Int
    BY <1>2, <1>4 DEF Leave, TypeOK
  <2>2. InUse(d)' = 0 /\ InUse(d) = 1
    BY <1>1, <2>1 DEF InUse
  <2> HIDE DEF de
  <2>3. users \in Nat /\ users' = users + de + InUse(d)' - InUse(d)
    BY <1>1, <2>1, UsersChange
  <2>4. users' = users \/ users' = users - 1
    BY <2>2, <2>3 DEF de
  <2>5. users > 0
    <3>1. users = exiting + InUse("decode") + InUse("encode")
      BY UsersSum
    <3>2. InUse("decode") \in 0 .. 1 /\ InUse("encode") \in 0 .. 1
      BY DEF InUse
    <3> QED BY <1>2, <2>2, <3>1, <3>2 DEF Dir
  <2> QED BY <1>1, <2>4, <2>5 DEF Pool!vars, Pool!Next, Pool!Join
<1> QED BY <1>3, <1>4 DEF Works

(* Envoy's calls add a user, or none when the phase is skipped.            *)
LEMMA StartsPool ==
  ASSUME TypeOK, NEW d \in Dir, Starts(d)
  PROVE  [Pool!Next]_(Pool!vars)
<1>1. /\ slot = "used" /\ slot' = slot /\ exiting \in Nat /\ exiting' = exiting + 0
      /\ task[d] = NoTask
  BY DEF Starts, WorkerFree, slot, TypeOK
<1>2. CASE UNCHANGED task
  BY <1>1, <1>2 DEF users, Pool!vars
<1>3. ASSUME NEW t \in TaskType, t.pc \in PCs, task' = [task EXCEPT ![d] = t]
      PROVE  [Pool!Next]_(Pool!vars)
  <2>1. task'[d] # NoTask /\ \A e \in Dir : e # d => task'[e] = task[e]
    BY <1>3, BusyTask DEF TypeOK
  <2>2. users \in Nat /\ users' = users + 0 + InUse(d)' - InUse(d)
    BY <1>1, <2>1, UsersChange
  <2>3. users' = users + 1
    BY <1>1, <2>1, <2>2 DEF InUse
  <2> QED BY <1>1, <2>3 DEF Pool!Next, Pool!Fork
<1> QED BY <1>2, <1>3 DEF Starts

(* Every step of the manager is a step of the pool or a stutter.           *)
LEMMA NextPool ==
  ASSUME IInv, [Next]_vars
  PROVE  [Pool!Next]_(Pool!vars)
<1>1. TypeOK /\ CounterExact /\ Free
  BY DEF IInv
<1>2. UNCHANGED <<task, exiting>> => users' = users
  BY DEF users
<1>3. CASE FilterManagerFactory
  BY <1>2, <1>3 DEF FilterManagerFactory, goVars, slot, Pool!Next, Pool!Take
<1>4. CASE DecodeEvent \/ EncodeEvent
  BY <1>1, <1>4, EventStarts, StartsPool DEF Dir
<1>5. CASE UpstreamResponse \/ SendLocalReply
  BY <1>2, <1>5 DEF UpstreamResponse, SendLocalReply, goVars, slot, Pool!vars
<1>6. CASE DecodeStep \/ EncodeStep
  BY <1>1, <1>6, DecodeStepWorks, EncodeStepWorks, WorksPool DEF Dir
<1>7. CASE GoroutineExit
  <2>1. /\ exiting > 0 /\ exiting' = exiting + (0 - 1) /\ UNCHANGED task /\ slot' = slot
        /\ exiting \in Nat
    BY <1>1, <1>7 DEF GoroutineExit, slot, TypeOK
  <2>2. users = exiting + InUse("decode") + InUse("encode")
        /\ InUse("decode") \in 0 .. 1 /\ InUse("encode") \in 0 .. 1
    BY UsersSum DEF InUse
  <2>3. users' = exiting' + InUse("decode") + InUse("encode")
    BY <2>1 DEF users, InUse
  <2>4. users > 0 /\ users' = users - 1
    BY <2>1, <2>2, <2>3
  <2> QED BY <2>1, <2>4 DEF Pool!Next, Pool!Join
<1>8. CASE OnLog
  BY <1>2, <1>8 DEF OnLog, WorkerFree, goVars, slot, Pool!Next, Pool!Drop, Pool!vars
<1>9. CASE runOnLogPhase
  <2>1. CASE IsRunningInGoThread
    BY <1>2, <1>9, <2>1 DEF runOnLogPhase, slot, Pool!Next, Pool!Drop
  <2>2. CASE ~IsRunningInGoThread
    <3>1. exiting = 0 /\ \A d \in Dir : task[d] = NoTask
      BY <1>1, <1>9, <2>2 DEF runOnLogPhase, IsRunningInGoThread, CounterExact, InGoThread, Free,
                              TypeOK, Dir
    <3>2. users = 0
      BY <3>1 DEF users, Dir
    <3>3. slot = "used" /\ slot' = "free" /\ users' = users
      BY <1>2, <1>9, <2>2 DEF runOnLogPhase, slot
    <3> QED BY <3>2, <3>3 DEF Pool!Next, Pool!Release
  <2> QED BY <2>1, <2>2
<1>10. CASE Collect
  <2>1. users = 0
    BY <1>10 DEF Collect, users, Dir
  <2>2. slot = "dropped" /\ slot' = "free" /\ users' = users
    BY <1>2, <1>10 DEF Collect, slot
  <2> QED BY <2>1, <2>2 DEF Pool!Next, Pool!Collect
<1>11. CASE UNCHANGED vars
  BY <1>2, <1>11 DEF vars, goVars, slot, Pool!vars
<1> QED BY <1>3, <1>4, <1>5, <1>6, <1>7, <1>8, <1>9, <1>10, <1>11 DEF Next

(* The manager's object is recycled only when no handler, inline or in a   *)
(* goroutine, still refers to it: the manager implements the pool.         *)
THEOREM PoolRefinement == Spec => ImplementsPool
<1>1. Init => Pool!Init
  BY DEF Init, Pool!Init, slot, users, Dir
<1>2. IInv /\ [Next]_vars => [Pool!Next]_(Pool!vars)
  BY NextPool
<1> QED BY <1>1, <1>2, Invariance, PTL DEF Spec, ImplementsPool, Pool!Spec
=============================================================================
