-------------------- MODULE FilterManagerInlineProofs --------------------
(* Proofs about FilterManager, continued: what runs on the Envoy worker    *)
(* does not block, except where the code is known to let it; for any set   *)
(* of plugins and any set of configurations that satisfy the assumptions.  *)
EXTENDS FilterManagerOrderProofs

-----------------------------------------------------------------------------
(* The inductive invariant.                                                *)

(* The flags tell the truth about the chain as it is now: FilterManager-   *)
(* Factory computes them from the route, and the merge from both parts.    *)
SyncSound == \A ph \in Phases : sync[ph] => SyncPhase(Chain, ph)

(* A handler that runs inline was found to be non-blocking when it was     *)
(* started; a merge since can only concern DecodeHeaders.  One that works  *)
(* on the whole message was found so for the headers and trailers too.     *)
InlineFor(d, t) ==
  t.inline =>
    /\ t.meth \in Phases
    /\ sync[t.meth] \/ (t.meth = "DecodeHeaders" /\ merged)
    /\ t.pc \in WholePcs /\ t.meth # "DecodeTrailers" => sync[Headers(d)] /\ sync[Trailers(d)]
InlineInv == SyncSound /\ \A d \in Dir : InlineFor(d, task[d])

-----------------------------------------------------------------------------
(* What a step of a handler calls, and where it leads.                     *)

(* The hook a handler calls at each of its control points.                 *)
CallingPcs == {"authn", "headers", "wholeHeaders", "noBody", "whole", "data", "wholeData",
               "trailers", "wholeTrailers"}
HookAt(d, pc) ==
  CASE pc \in {"authn", "headers", "wholeHeaders"} -> Headers(d)
    [] pc \in {"noBody", "whole"} -> Whole(d)
    [] pc \in {"data", "wholeData"} -> Data(d)
    [] pc \in {"trailers", "wholeTrailers"} -> Trailers(d)

(* It calls that hook of a plugin of the chain that overrides it, if any.  *)
Calls(d) ==
  \/ UNCHANGED ran
  \/ /\ task[d].pc \in CallingPcs
     /\ \E p \in Chain : /\ HookAt(d, task[d].pc) \in Defines(p)
                         /\ ran' = ran \union {<<p, HookAt(d, task[d].pc)>>}

(* It goes on with what it was started for, or it is over.                 *)
SamePhase(d, t) ==
  /\ t.meth = task[d].meth /\ t.inline = task[d].inline
  /\ t.pc \in WholePcs => task[d].pc \in WholePcs
StaysOrLeaves(d) ==
  \E t : task' = [task EXCEPT ![d] = t] /\ (t = NoTask \/ SamePhase(d, t))

(* Going on by Advance stays, within the kind of handler it is.            *)
LEMMA AdvanceStays ==
  ASSUME TypeOK, NEW d \in Dir, NEW pc \in PCs, NEW cur \in Nat,
         pc \in WholePcs => task[d].pc \in WholePcs, Go(d, Advance(d, pc, cur))
  PROVE  StaysOrLeaves(d)
<1> DEFINE t == Advance(d, pc, cur)
<1>1. t.meth = task[d].meth /\ t.inline = task[d].inline /\ t.pc = pc
  BY AdvanceKeeps, AdvanceType
<1> HIDE DEF t
<1>2. task' = [task EXCEPT ![d] = t] /\ SamePhase(d, t)
  BY <1>1 DEF SamePhase, Go, t
<1> QED BY <1>2 DEF StaysOrLeaves

(* A hook is called at its place, and the handler goes on or is over.      *)
LEMMA HookCalls ==
  ASSUME TypeOK, NEW d \in Dir, NEW p \in Chain, NEW m, NEW pc \in PCs, NEW cur \in Nat,
         task[d].pc \in CallingPcs, m = HookAt(d, task[d].pc),
         pc \in WholePcs => task[d].pc \in WholePcs,
         Hook(d, p, m, Advance(d, pc, cur))
  PROVE  Calls(d) /\ StaysOrLeaves(d)
<1>1. Calls(d)
  BY DEF Hook, Call, Calls
<1>2. localReply(d) => StaysOrLeaves(d)
  BY DEF localReply, Leave, StaysOrLeaves
<1> QED BY <1>1, <1>2, AdvanceStays DEF Hook

(* So does every step common to both directions.                           *)
LEMMA StepCalls ==
  ASSUME TypeOK, NEW d \in Dir, Positions(d), Step(d)
  PROVE  Calls(d) /\ StaysOrLeaves(d)
<1> DEFINE cur == task[d].cur
           seg == task[d].seg
<1>1. /\ cur \in Nat /\ cur + 1 \in Nat /\ seg \in Nat /\ seg + 1 \in Nat /\ N \in Nat
      /\ idx[d] \in Nat /\ idx[d] + 1 \in Nat /\ 1 \in Nat
      /\ \A k \in 1 .. N : At(d, k) \in Chain
  BY AtChain DEF TypeOK, TaskType, N
<1>2. \A k \in 1 .. N : filters[k] \in Chain
  BY DEF Chain, RangeOf, N, TypeOK
<1>3. /\ localReply(d) => StaysOrLeaves(d)
      /\ \A status : Return(d, status) => StaysOrLeaves(d)
  BY DEF localReply, Return, Leave, StaysOrLeaves
<1>4. ASSUME NEW p \in Chain, NEW m, NEW r, task[d].pc \in CallingPcs,
             m = HookAt(d, task[d].pc), Call(p, m, r)
      PROVE  Calls(d)
  BY <1>4 DEF Call, Calls
<1>5. CASE headersNext(d)
  <2>1. cur \in 1 .. N /\ task[d].pc = "headers"
    BY <1>1, <1>5 DEF headersNext, Now, Positions
  <2>2. PICK r \in Outcomes(At(d, cur), Headers(d)) :
          /\ Call(At(d, cur), Headers(d), r)
          /\ \/ localReply(d)
             \/ Go(d, Advance(d, "headers", cur + 1))
             \/ Go(d, Advance(d, "noBody", cur))
             \/ Return(d, "StopAndBuffer")
    BY <1>5 DEF headersNext
  <2>3. Calls(d)
    BY <1>1, <1>4, <2>1, <2>2 DEF HookAt, CallingPcs
  <2>4. StaysOrLeaves(d)
    BY <1>1, <1>3, <2>2, AdvanceStays DEF PCs, WholePcs
  <2> QED BY <2>3, <2>4
<1>6. CASE headersNoBody(d)
  <2>1. cur \in 1 .. N /\ task[d].pc = "noBody"
    BY <1>6 DEF headersNoBody, Now, Positions
  <2>2. /\ Hook(d, At(d, cur), Whole(d), Advance(d, "headers", cur + 1))
        /\ Whole(d) = HookAt(d, task[d].pc) /\ task[d].pc \in CallingPcs
        /\ "headers" \in PCs /\ "headers" \notin WholePcs
    BY <1>6, <2>1 DEF headersNoBody, HookAt, CallingPcs, PCs, WholePcs
  <2> QED BY <1>1, <2>1, <2>2, HookCalls
<1>7. CASE dataNext(d)
  <2>1. cur \in 1 .. N /\ task[d].pc = "data"
    BY <1>1, <1>7 DEF dataNext, Now, Positions
  <2>2. /\ Hook(d, At(d, cur), Data(d), Advance(d, "data", cur + 1))
        /\ Data(d) = HookAt(d, task[d].pc) /\ task[d].pc \in CallingPcs
        /\ "data" \in PCs /\ "data" \notin WholePcs
    BY <1>7, <2>1 DEF dataNext, HookAt, CallingPcs, PCs, WholePcs
  <2> QED BY <1>1, <2>1, <2>2, HookCalls
<1>8. CASE trailersNext(d)
  <2>1. cur \in 1 .. N /\ task[d].pc = "trailers"
    BY <1>1, <1>8 DEF trailersNext, Now, Positions
  <2>2. /\ Hook(d, filters[cur], Trailers(d), Advance(d, "trailers", cur + 1))
        /\ Trailers(d) = HookAt(d, task[d].pc) /\ task[d].pc \in CallingPcs
        /\ "trailers" \in PCs /\ "trailers" \notin WholePcs
    BY <1>8, <2>1 DEF trailersNext, HookAt, CallingPcs, PCs, WholePcs
  <2> QED BY <1>1, <1>2, <2>1, <2>2, HookCalls
<1>9. CASE wholeData(d)
  <2>1. task[d].pc = "wholeData" /\ (cur < seg => cur \in 1 .. N)
    BY <1>1, <1>9 DEF wholeData, Now, Positions
  <2>2. /\ Data(d) = HookAt(d, task[d].pc) /\ task[d].pc \in CallingPcs /\ task[d].pc \in WholePcs
        /\ "wholeData" \in PCs /\ "wholeTrailers" \in PCs
    BY <2>1 DEF HookAt, CallingPcs, PCs, WholePcs
  <2>3. SegmentStart(d) \in Nat
    BY <1>1 DEF SegmentStart
  <2>4. CASE cur < seg /\ Hook(d, At(d, cur), Data(d), Advance(d, "wholeData", cur + 1))
    BY <1>1, <2>1, <2>2, <2>4, HookCalls
  <2>5. CASE Go(d, Advance(d, "wholeTrailers", SegmentStart(d))) /\ UNCHANGED historyVars
    BY <2>2, <2>3, <2>5, AdvanceStays DEF Calls, historyVars
  <2> QED BY <1>9, <2>4, <2>5 DEF wholeData
<1>10. CASE wholeTrailers(d)
  <2>1. task[d].pc = "wholeTrailers" /\ (cur < seg => cur \in 1 .. N)
    BY <1>1, <1>10 DEF wholeTrailers, Now, Positions
  <2>2. /\ Trailers(d) = HookAt(d, task[d].pc) /\ task[d].pc \in CallingPcs
        /\ task[d].pc \in WholePcs /\ "wholeTrailers" \in PCs /\ "whole" \in PCs
    BY <2>1 DEF HookAt, CallingPcs, PCs, WholePcs
  <2>3. CASE cur < seg /\ Hook(d, At(d, cur), Trailers(d), Advance(d, "wholeTrailers", cur + 1))
    BY <1>1, <2>1, <2>2, <2>3, HookCalls
  <2>4. CASE Go(d, Advance(d, "whole", seg)) /\ UNCHANGED historyVars
    BY <1>1, <2>2, <2>4, AdvanceStays DEF Calls, historyVars
  <2>5. CASE Return(d, "Continue") /\ UNCHANGED historyVars
    BY <1>3, <2>5 DEF Calls, historyVars
  <2> QED BY <1>10, <2>3, <2>4, <2>5 DEF wholeTrailers
<1>11. CASE wholeMessage(d)
  <2>1. task[d].pc = "whole" /\ seg \in 1 .. N
    BY <1>11 DEF wholeMessage, Now, Positions
  <2>2. /\ Hook(d, At(d, seg), Whole(d), Advance(d, "wholeHeaders", seg + 1))
        /\ Whole(d) = HookAt(d, task[d].pc) /\ task[d].pc \in CallingPcs
        /\ task[d].pc \in WholePcs /\ "wholeHeaders" \in PCs
    BY <1>11, <2>1 DEF wholeMessage, AfterWhole, HookAt, CallingPcs, PCs, WholePcs
  <2> QED BY <1>1, <2>1, <2>2, HookCalls
<1>12. CASE wholeHeaders(d)
  <2>1. /\ task[d].pc = "wholeHeaders" /\ (cur <= N => cur \in 1 .. N)
        /\ task[d].pc \in CallingPcs /\ task[d].pc \in WholePcs
        /\ Headers(d) = HookAt(d, task[d].pc) /\ "wholeHeaders" \in PCs
    BY <1>1, <1>12 DEF wholeHeaders, Now, Positions, HookAt, CallingPcs, PCs, WholePcs
  <2>2. Go(d, NextSegment(d)) => StaysOrLeaves(d)
    <3>1. /\ NextSegment(d).meth = task[d].meth /\ NextSegment(d).inline = task[d].inline
      <4>1. task[d] \in TaskType
        BY DEF TypeOK
      <4> QED BY <4>1 DEF NextSegment, Advance, TaskType
    <3> QED BY <2>1, <3>1 DEF Go, StaysOrLeaves, SamePhase
  <2>3. CASE cur > N
    BY <1>12, <2>2, <2>3 DEF wholeHeaders, Calls, historyVars
  <2>4. CASE cur <= N
    <3>1. PICK r \in Outcomes(At(d, cur), Headers(d)) :
            /\ Call(At(d, cur), Headers(d), r)
            /\ \/ localReply(d)
               \/ Go(d, NextSegment(d))
               \/ Go(d, Advance(d, "wholeHeaders", cur + 1))
      BY <1>1, <1>12, <2>4 DEF wholeHeaders
    <3> QED BY <1>1, <1>3, <1>4, <2>1, <2>2, <2>4, <3>1, AdvanceStays
  <2> QED BY <1>1, <2>3, <2>4
<1>13. CASE handlerEnd(d)
  BY <1>3, <1>13 DEF handlerEnd, Calls, historyVars
<1> QED BY <1>5, <1>6, <1>7, <1>8, <1>9, <1>10, <1>11, <1>12, <1>13 DEF Step

(* So does every step of the decode handler.                               *)
LEMMA DecodeCalls ==
  ASSUME IInv, DecodeStep
  PROVE  Calls("decode") /\ StaysOrLeaves("decode")
<1> DEFINE d == "decode"
           cur == task[d].cur
<1>1. TypeOK /\ d \in Dir /\ Positions(d) /\ cur \in Nat /\ cur + 1 \in Nat
      /\ consumerFiltersEndAt \in Nat /\ consumerFiltersEndAt + 1 \in Nat
  <2>1. TypeOK /\ d \in Dir /\ Positions(d) /\ conf \in Setups /\ conf.route \in SUBSET Plugins
    BY SetupType DEF IInv, TypeOK, Setup, Dir
  <2> QED BY <2>1, EndAtType, SortFiltersType DEF TypeOK, TaskType
<1>2. localReply(d) => StaysOrLeaves(d)
  BY DEF localReply, Leave, StaysOrLeaves
<1>3. CASE decodeHeadersInit
  <2>1. /\ UNCHANGED ran
        /\ \/ localReply(d)
           \/ Go(d, Advance(d, "headers", 1))
           \/ Go(d, Advance(d, "authn", 1))
    BY <1>3 DEF decodeHeadersInit, historyVars
  <2> QED BY <1>1, <1>2, <2>1, AdvanceStays DEF Calls, PCs, WholePcs
<1>4. CASE decodeHeadersAuthn
  <2>1. PICK r \in Outcomes(filters[cur], "DecodeHeaders") :
          /\ Call(filters[cur], "DecodeHeaders", r)
          /\ localReply(d) \/ Go(d, Advance(d, "authn", cur + 1))
    BY <1>4 DEF decodeHeadersAuthn
  <2>2. filters[cur] \in Chain
    <3>1. /\ task[d].pc = "authn" /\ cur <= consumerFiltersEndAt /\ cur >= 1
          /\ filters = SortFilters(conf.route) /\ conf \in Setups
      BY <1>1, <1>4 DEF decodeHeadersAuthn, Now, IInv, Early, Positions, TypeOK
    <3>2. consumerFiltersEndAt \in 0 .. Len(filters)
      BY <3>1, EndAtType
    <3>3. cur \in DOMAIN filters
      BY <1>1, <3>1, <3>2 DEF TypeOK
    <3> QED BY <3>3 DEF Chain, RangeOf
  <2>3. task[d].pc = "authn" /\ HookAt(d, task[d].pc) = "DecodeHeaders"
    BY <1>4 DEF decodeHeadersAuthn, Now, HookAt, Headers
  <2>4. Calls(d)
    BY <2>1, <2>2, <2>3 DEF Call, Calls, CallingPcs
  <2>5. StaysOrLeaves(d)
    BY <1>1, <1>2, <2>1, AdvanceStays DEF PCs, WholePcs
  <2> QED BY <2>4, <2>5
<1>5. CASE mergeConsumer
  <2>1. UNCHANGED ran /\ Go(d, Advance(d, "headers", consumerFiltersEndAt + 1))
    BY <1>5 DEF mergeConsumer, historyVars
  <2> QED BY <1>1, <2>1, AdvanceStays DEF Calls, PCs, WholePcs
<1>6. CASE decodeDataKeep
  <2>1. UNCHANGED ran /\ Leave(d)
    BY <1>6 DEF decodeDataKeep, Return, historyVars
  <2> QED BY <2>1 DEF Calls, Leave, StaysOrLeaves
<1>7. CASE Step("decode")
  BY <1>1, <1>7, StepCalls
<1> QED BY <1>3, <1>4, <1>5, <1>6, <1>7 DEF DecodeStep

-----------------------------------------------------------------------------
(* The invariant holds, and it makes the calls of inline handlers sound.   *)

(* What the flags say depends on nothing but the chain and the             *)
(* configuration.                                                          *)
LEMMA SameSync ==
  ASSUME SyncSound, UNCHANGED <<conf, filters, sync>>
  PROVE  SyncSound'
BY DEF SyncSound, SyncPhase, SyncMethod, Chain, RangeOf, Defines

(* A handler that goes on, or is over, is still non-blocking.              *)
LEMMA StaysInline ==
  ASSUME TypeOK, InlineInv, NEW d \in Dir, StaysOrLeaves(d), UNCHANGED <<sync, merged>>
  PROVE  \A e \in Dir : InlineFor(e, task[e])'
<1>1. PICK t : task' = [task EXCEPT ![d] = t] /\ (t = NoTask \/ SamePhase(d, t))
  BY DEF StaysOrLeaves
<1>2. task'[d] = t /\ \A e \in Dir : e # d => task'[e] = task[e]
  BY <1>1 DEF TypeOK
<1>3. InlineFor(d, t)
  <2>1. CASE t = NoTask
    BY <2>1, NoTaskType DEF InlineFor
  <2>2. CASE SamePhase(d, t)
    BY <2>2 DEF InlineInv, InlineFor, SamePhase
  <2> QED BY <1>1, <2>1, <2>2
<1>4. \A e \in Dir : InlineFor(e, task'[e])
  BY <1>2, <1>3 DEF InlineInv
<1> QED BY <1>4 DEF InlineFor

(* A handler is started inline only when the flags allow it.               *)
LEMMA EnterInline ==
  ASSUME TypeOK, InlineInv, NEW d \in Dir, NEW meth \in Phases, NEW es, NEW inline, NEW pc,
         NEW seg, Enter(d, meth, es, inline, pc, seg), inline => sync[meth],
         inline /\ pc \in WholePcs /\ meth # "DecodeTrailers"
           => sync[Headers(d)] /\ sync[Trailers(d)]
  PROVE  InlineInv'
<1>1. UNCHANGED <<conf, filters, sync, merged>>
  BY DEF Enter, chainVars
<1>2. SyncSound'
  BY <1>1, SameSync DEF InlineInv
<1> DEFINE t == [pc |-> pc, meth |-> meth, cur |-> 1, seg |-> seg, es |-> es, inline |-> inline]
<1>3. CASE UNCHANGED task
  BY <1>1, <1>2, <1>3 DEF InlineInv, InlineFor
<1>4. CASE task' = [task EXCEPT ![d] = t]
  <2>1. InlineFor(d, t)
    BY DEF InlineFor
  <2> HIDE DEF t
  <2>2. \A e \in Dir : InlineFor(e, task'[e])
    BY <1>4, <2>1 DEF InlineInv, TypeOK
  <2> QED BY <1>1, <1>2, <2>2 DEF InlineInv, InlineFor
<1> QED BY <1>3, <1>4 DEF Enter

(* Envoy's calls look at every flag the handler will rely on, DecodeTrailers *)
(* excepted.                                                               *)
LEMMA EventInline ==
  ASSUME TypeOK, InlineInv, DecodeEvent \/ EncodeEvent
  PROVE  InlineInv'
<1>1. \A d \in Dir : Headers(d) \in Phases /\ Data(d) \in Phases /\ Trailers(d) \in Phases
  BY MethodTypes
<1>2. ASSUME NEW d \in Dir, NEW pc \in {"init", "headers"}, EnterHeaders(d, pc)
      PROVE  InlineInv'
  <2> DEFINE es == ~msg[d].body /\ ~msg[d].trailers
  <2>1. Enter(d, Headers(d), es, sync[Headers(d)], pc, 0)
    BY <1>2 DEF EnterHeaders
  <2>2. pc \notin WholePcs
    BY DEF WholePcs
  <2> HIDE DEF es
  <2> QED BY <1>1, <2>1, <2>2, EnterInline
<1>3. ASSUME NEW d \in Dir, NEW keepPc, EnterData(d, keepPc)
      PROVE  InlineInv'
  <2> DEFINE inline == sync[Data(d)] /\ (idx[d] = 0 \/ (sync[Headers(d)] /\ sync[Trailers(d)]))
             pc(es) == IF idx[d] = 0 THEN "data" ELSE WholePc(es, keepPc)
  <2>1. PICK es \in BOOLEAN : Enter(d, Data(d), es, inline, pc(es), idx[d])
    BY <1>3 DEF EnterData
  <2>2. /\ inline => sync[Data(d)]
        /\ inline /\ pc(es) \in WholePcs => sync[Headers(d)] /\ sync[Trailers(d)]
    BY DEF WholePcs
  <2> HIDE DEF inline, pc
  <2> QED BY <1>1, <2>1, <2>2, EnterInline
<1>4. ASSUME NEW d \in Dir, NEW syncRun, NEW wholePc, d = "decode" \/ wholePc = "ignore",
             EnterTrailers(d, syncRun, wholePc)
      PROVE  InlineInv'
  <2> DEFINE inline == sync[Trailers(d)] /\ (idx[d] = 0 \/ syncRun)
             pc == IF idx[d] = 0 THEN "trailers" ELSE wholePc
  <2>1. Enter(d, Trailers(d), TRUE, inline, pc, idx[d])
    BY <1>4 DEF EnterTrailers
  <2>2. inline => sync[Trailers(d)]
    OBVIOUS
  <2>3. pc \in WholePcs => Trailers(d) = "DecodeTrailers"
    BY <1>4 DEF WholePcs, Trailers
  <2> HIDE DEF inline, pc
  <2> QED BY <1>1, <2>1, <2>2, <2>3, EnterInline
<1> QED BY <1>2, <1>3, <1>4
        DEF DecodeEvent, EncodeEvent, DecodeHeaders, DecodeData, DecodeTrailers, EncodeHeaders,
            EncodeData, EncodeTrailers, Dir

(* The merge keeps a flag only if the consumer's plugins do not block      *)
(* either; the one handler there is, is DecodeHeaders.                     *)
LEMMA MergeInline ==
  ASSUME IInv, OrderInv, InlineInv, mergeConsumer
  PROVE  InlineInv'
<1> DEFINE d == "decode"
           S == conf.route \union conf.consumer
<1>1. /\ TypeOK /\ d \in Dir /\ "encode" \in Dir /\ task[d].pc = "authn" /\ UNCHANGED conf
      /\ filters = SortFilters(conf.route) /\ task["encode"] = NoTask
  BY DEF IInv, Early, mergeConsumer, Now, HandlerFrame, Dir
<1>2. conf.route \in SUBSET Plugins /\ conf.consumer \in SUBSET Plugins
  BY <1>1, SetupType DEF TypeOK, Setup
<1>3. StaysOrLeaves(d)
  BY DecodeCalls DEF DecodeStep
<1>4. CASE UNCHANGED <<merged, skip, sync, filters>>
  BY <1>1, <1>3, <1>4, SameSync, StaysInline DEF InlineInv
<1>5. CASE /\ merged' = TRUE /\ sync' = MergedSync
           /\ filters' = SortFilters(RangeOf(filters) \union conf.consumer)
  <2>1. Chain = conf.route /\ Chain' = S
    <3>1. RangeOf(filters) = conf.route
      BY <1>1, <1>2, SortFiltersRange
    <3>2. filters' = SortFilters(S) /\ S \in SUBSET Plugins
      BY <1>2, <1>5, <3>1
    <3>3. RangeOf(filters') = S
      BY <3>2, SortFiltersRange
    <3> QED BY <3>1, <3>3 DEF Chain
  <2>2. ASSUME NEW ph \in Phases, sync'[ph] PROVE SyncPhase(Chain, ph)'
    <3>1. sync[ph] /\ SyncPhase(conf.consumer, ph)
      <4>1. MergedSync[ph] = (sync[ph] /\ SyncPhase(conf.consumer, ph))
        BY DEF MergedSync
      <4> QED BY <1>5, <2>2, <4>1
    <3>2. SyncPhase(conf.route, ph)
      BY <2>1, <3>1 DEF InlineInv, SyncSound
    <3>3. \A m : SyncMethod(conf.route, m) /\ SyncMethod(conf.consumer, m) => SyncMethod(Chain, m)'
      BY <1>1, <2>1 DEF SyncMethod, Defines
    <3> QED BY <3>1, <3>2, <3>3 DEF SyncPhase
  <2>3. SyncSound'
    BY <2>2 DEF SyncSound
  <2>4. PICK t : task' = [task EXCEPT ![d] = t] /\ (t = NoTask \/ SamePhase(d, t))
    BY <1>3 DEF StaysOrLeaves
  <2>5. task'[d] = t /\ task'["encode"] = NoTask
    BY <1>1, <2>4 DEF TypeOK
  <2>6. task[d].meth = "DecodeHeaders" /\ "DecodeHeaders" \in Phases
    BY <1>1 DEF OrderInv, PathInv, Started, HeadersPcs, Headers, Phases, Dir
  <2>7. InlineFor(d, task[d])'
    <3>1. CASE t = NoTask
      BY <2>5, <3>1, NoTaskType DEF InlineFor
    <3>2. CASE SamePhase(d, t)
      BY <1>1, <1>5, <2>5, <2>6, <3>2 DEF InlineFor, SamePhase, WholePcs
    <3> QED BY <2>4, <3>1, <3>2
  <2>8. InlineFor("encode", task["encode"])'
    BY <2>5 DEF InlineFor, NoTask
  <2> QED BY <2>3, <2>7, <2>8 DEF InlineInv, Dir
<1> QED BY <1>4, <1>5 DEF mergeConsumer

(* Every step keeps the invariant.                                         *)
LEMMA NextInline ==
  ASSUME IInv, IInv', OrderInv, InlineInv, [Next]_vars
  PROVE  InlineInv'
<1>1. TypeOK /\ "decode" \in Dir /\ "encode" \in Dir /\ \A d \in Dir : Positions(d)
  BY DEF IInv, Dir
<1>2. ASSUME UNCHANGED <<conf, filters, sync, merged, task>> PROVE InlineInv'
  BY <1>2, SameSync DEF InlineInv, InlineFor
<1>3. ASSUME \A ph \in Phases : ~sync'[ph], UNCHANGED task, stage # "active"
      PROVE  InlineInv'
  BY <1>3 DEF InlineInv, InlineFor, SyncSound, IInv, Free
<1>4. ASSUME NEW d \in Dir, Step(d) PROVE InlineInv'
  <2>1. UNCHANGED <<conf, filters, sync, merged>>
    BY <1>1, <1>4, StepWorks DEF Step, headersNext, headersNoBody, dataNext, trailersNext,
       wholeData, wholeTrailers, wholeMessage, wholeHeaders, handlerEnd, chainVars, HandlerFrame
  <2> QED BY <1>1, <1>4, <2>1, StepCalls, StaysInline, SameSync DEF InlineInv
<1>5. CASE FilterManagerFactory
  <2>1. /\ filters' = SortFilters(conf.route) /\ sync' = FactorySync
        /\ UNCHANGED <<conf, task>> /\ stage = "pool"
    BY <1>5 DEF FilterManagerFactory, goVars
  <2>2. conf.route \in SUBSET Plugins
    BY <1>1, SetupType DEF TypeOK, Setup
  <2>3. Chain' = conf.route
    BY <2>1, <2>2, SortFiltersRange DEF Chain
  <2>4. ASSUME NEW ph \in Phases, sync'[ph] PROVE SyncPhase(Chain, ph)'
    <3>1. SyncPhase(conf.route, ph)
      <4>1. FactorySync[ph] = /\ SyncPhase(conf.route, ph)
                              /\ ph = "DecodeHeaders" => ~conf.needInit
        BY DEF FactorySync
      <4> QED BY <2>1, <2>4, <4>1
    <3> QED BY <2>1, <2>3, <3>1 DEF SyncPhase, SyncMethod, Defines
  <2>5. \A d \in Dir : ~task'[d].inline
    BY <2>1 DEF IInv, Free
  <2> QED BY <2>4, <2>5 DEF InlineInv, SyncSound, InlineFor
<1>6. CASE DecodeEvent \/ EncodeEvent
  BY <1>1, <1>6, EventInline
<1>7. CASE UpstreamResponse \/ SendLocalReply \/ GoroutineExit \/ OnLog \/ UNCHANGED vars
  BY <1>2, <1>7 DEF UpstreamResponse, SendLocalReply, GoroutineExit, OnLog, chainVars, goVars, vars
<1>8. CASE DecodeStep
  <2>1. CASE mergeConsumer
    BY <2>1, MergeInline
  <2>2. CASE decodeHeadersInit \/ decodeHeadersAuthn \/ decodeDataKeep
    <3>1. UNCHANGED <<conf, filters, sync, merged>>
      BY <2>2 DEF decodeHeadersInit, decodeHeadersAuthn, decodeDataKeep, chainVars, HandlerFrame
    <3> QED BY <1>1, <1>8, <3>1, DecodeCalls, StaysInline, SameSync DEF InlineInv
  <2> QED BY <1>1, <1>4, <1>8, <2>1, <2>2 DEF DecodeStep
<1>9. CASE EncodeStep
  BY <1>1, <1>4, <1>9 DEF EncodeStep
<1>10. CASE runOnLogPhase
  <2>1. UNCHANGED <<conf, task>> /\ stage # "active"
    BY <1>10 DEF runOnLogPhase
  <2>2. UNCHANGED <<filters, sync, merged>> \/ sync' = [ph \in Phases |-> FALSE]
    BY <1>10 DEF runOnLogPhase, Reset, chainVars
  <2> QED BY <1>2, <1>3, <2>1, <2>2
<1>11. CASE Collect
  <2>1. UNCHANGED task /\ stage # "active" /\ sync' = [ph \in Phases |-> FALSE]
    BY <1>11 DEF Collect
  <2> QED BY <1>3, <2>1
<1> QED BY <1>5, <1>6, <1>7, <1>8, <1>9, <1>10, <1>11 DEF Next

(* A hook an inline handler calls is declared non-blocking.                *)
LEMMA CallsNonBlocking ==
  ASSUME TypeOK, OrderInv, InlineInv, NEW d \in Dir, Calls(d)
  PROVE  InlineCallsNonBlocking(
           Phases \ ({"DecodeTrailers"} \union {m \in {"DecodeHeaders"} : merged}))
<1> DEFINE h == HookAt(d, task[d].pc)
<1> SUFFICES ASSUME NEW e \in Dir, NEW p \in Plugins, NEW m \in Hooks(e), task[e].inline,
                    task[e].meth \in Phases, task[e].meth # "DecodeTrailers",
                    ~(task[e].meth = "DecodeHeaders" /\ merged), <<p, m>> \in ran' \ ran
             PROVE  m \in conf.nonblocking[p]
  BY DEF InlineCallsNonBlocking
<1>1. m = h /\ p \in Chain /\ task[d].pc \in CallingPcs /\ m \in Defines(p)
  BY DEF Calls
<1>2. m \in Hooks(d)
  BY <1>1 DEF HookAt, CallingPcs, Hooks
<1>3. e = d
  BY <1>2, HooksDiffer
<1>4. /\ sync[task[d].meth]
      /\ task[d].pc \in WholePcs => sync[Headers(d)] /\ sync[Trailers(d)]
      /\ Started(d)
  BY <1>3 DEF InlineInv, InlineFor, OrderInv, PathInv
<1>5. \A ph \in Phases : sync[ph] => SyncPhase(Chain, ph)
  BY DEF InlineInv, SyncSound
<1>6. /\ Headers(d) \in Phases /\ Data(d) \in Phases /\ Trailers(d) \in Phases
      /\ \A S, ph : SyncPhase(S, ph) => SyncMethod(S, ph)
      /\ \A S : SyncPhase(S, Headers(d)) => SyncMethod(S, Whole(d))
  BY MethodTypes DEF SyncPhase, Headers, Whole, Dir
<1>7. SyncMethod(Chain, m)
  <2>1. CASE task[d].pc \in {"authn", "headers", "noBody"}
    <3>1. sync[Headers(d)] /\ m \in {Headers(d), Whole(d)}
      BY <1>1, <1>4, <2>1 DEF Started, HeadersPcs, HookAt
    <3> QED BY <1>5, <1>6, <3>1
  <2>2. CASE task[d].pc = "data"
    BY <1>1, <1>4, <1>5, <1>6, <2>2 DEF Started, HookAt
  <2>3. CASE task[d].pc = "trailers"
    BY <1>1, <1>4, <1>5, <1>6, <2>3 DEF Started, HookAt
  <2>4. CASE task[d].pc \in WholePcs
    <3>1. task[d].meth = Data(d)
      BY <1>3, <1>4, <2>4 DEF Started, Trailers, Dir
    <3>2. sync[Headers(d)] /\ sync[Data(d)] /\ sync[Trailers(d)] /\ m \in Hooks(d)
      BY <1>2, <1>4, <2>4, <3>1
    <3> QED BY <1>5, <1>6, <3>2 DEF Hooks
  <2> QED BY <1>1, <2>1, <2>2, <2>3, <2>4 DEF CallingPcs, WholePcs
<1> QED BY <1>1, <1>7 DEF SyncMethod

-----------------------------------------------------------------------------
(* The theorems.                                                           *)

(* InlineInv is an invariant of the specification: no flag outlives the    *)
(* chain it was computed from.                                             *)
THEOREM InlineInvariance == Spec => []InlineInv
<1>1. Init => InlineInv
  BY DEF Init, New, InlineInv, SyncSound, InlineFor, NoTask
<1>2. IInv /\ IInv' /\ OrderInv /\ InlineInv /\ [Next]_vars => InlineInv'
  BY NextInline
<1> QED BY <1>1, <1>2, Invariance, OrderInvariance, PTL DEF Spec

(* A handler that runs on the Envoy worker calls no hook that may block,   *)
(* but for DecodeTrailers and for a merge under DecodeHeaders.             *)
THEOREM WorkerNeverBlocks == Spec => InlineNonBlocking
<1> DEFINE A == InlineCallsNonBlocking(Phases \ ({"DecodeTrailers"}
                                                  \union {m \in {"DecodeHeaders"} : merged}))
<1>1. ASSUME UNCHANGED ran PROVE A
  BY <1>1 DEF InlineCallsNonBlocking
<1>2. IInv /\ OrderInv /\ InlineInv /\ [Next]_vars => [A]_vars
  <2> SUFFICES ASSUME IInv, OrderInv, InlineInv, Next PROVE A
    OBVIOUS
  <2>1. TypeOK /\ "decode" \in Dir /\ "encode" \in Dir /\ Positions("encode")
    BY DEF IInv, Dir
  <2>2. CASE DecodeStep
    BY <2>1, <2>2, DecodeCalls, CallsNonBlocking
  <2>3. CASE EncodeStep
    BY <2>1, <2>3, StepCalls, CallsNonBlocking DEF EncodeStep
  <2>4. CASE DecodeEvent \/ EncodeEvent
    BY <1>1, <2>1, <2>4, EventStarts DEF Starts, historyVars
  <2>5. CASE runOnLogPhase \/ Collect
    <3>1. ran' \subseteq ran
      BY <2>5 DEF runOnLogPhase, Collect, ForgetStream, historyVars
    <3> QED BY <3>1 DEF InlineCallsNonBlocking
  <2>6. CASE FilterManagerFactory \/ UpstreamResponse \/ SendLocalReply \/ GoroutineExit \/ OnLog
    BY <1>1, <2>6 DEF FilterManagerFactory, UpstreamResponse, SendLocalReply, GoroutineExit, OnLog,
                      historyVars
  <2> QED BY <2>2, <2>3, <2>4, <2>5, <2>6 DEF Next
<1> QED BY <1>2, Invariance, OrderInvariance, InlineInvariance, PTL DEF Spec, InlineNonBlocking
=============================================================================
