--------------------------- MODULE FilterManager ---------------------------
(***************************************************************************)
(* The data plane's filter manager (api/pkg/filtermanager): the Envoy Go   *)
(* HTTP filter that runs a chain of Go plugins over one HTTP stream.       *)
(*                                                                         *)
(* Three actors share one filterManager object: the Envoy worker, which    *)
(* calls the manager phase by phase and may destroy the stream at any      *)
(* time; the goroutine of a decode phase; the goroutine of an encode       *)
(* phase.  A phase whose plugins are all declared non-blocking runs inline *)
(* on the worker instead.  The object comes from a sync.Pool and goes back *)
(* to it when the stream is logged and no goroutine still uses it.         *)
(*                                                                         *)
(* One call of a plugin's hook is one step.  The decode and the encode     *)
(* path run the same algorithm over the chain, the first forwards and the  *)
(* second backwards; a position counts filters in the order in which the   *)
(* path visits them, and idx = 0 stands for decodeIdx = -1, encodeIdx = -1.*)
(*                                                                         *)
(* A definition X_Fault just before X is X with a plausible mistake in it: *)
(* a property listed with it in PROJECT.json is false of the specification *)
(* that has X_Fault in the place of X.                                     *)
(***************************************************************************)
EXTENDS Naturals, Sequences, FiniteSets

CONSTANTS
  Plugins,      \* the plugin names
  PluginOrder,  \* each plugin's rank by pkgPlugins.ComparePluginOrder
  AuthnPlugins, \* those that implement pkgPlugins.ConsumerPlugin
  Setups,       \* the configurations a behaviour may start from
  MaxData       \* bound: body chunks of a message delivered without end_stream

Dir == {"decode", "encode"}
Headers(d) == IF d = "decode" THEN "DecodeHeaders" ELSE "EncodeHeaders"
Data(d) == IF d = "decode" THEN "DecodeData" ELSE "EncodeData"
Trailers(d) == IF d = "decode" THEN "DecodeTrailers" ELSE "EncodeTrailers"
Whole(d) == IF d = "decode" THEN "DecodeRequest" ELSE "EncodeResponse"

(* The phases Envoy drives, and the methods a plugin may override.         *)
Phases == UNION {{Headers(d), Data(d), Trailers(d)} : d \in Dir}
Methods == Phases \union {"DecodeRequest", "EncodeResponse", "OnLog"}

(* A message is its headers and perhaps a body and trailers.               *)
Message == [body: BOOLEAN, trailers: BOOLEAN]
NoMessage == [body |-> FALSE, trailers |-> FALSE]

(* A configuration: the route's plugins, the plugins the authenticated     *)
(* consumer adds, the methods each plugin overrides, the phases it         *)
(* declares non-blocking, whether one needs Init and whether Init fails.   *)
(* The other fields bound the environment: the messages sent each way, the *)
(* hooks that may reply locally, whether the upstream may answer before it *)
(* has the whole request, and whether the stream may be destroyed before   *)
(* the response is complete.                                               *)
Setup == [route: SUBSET Plugins, consumer: SUBSET Plugins,
          defines: [Plugins -> SUBSET Methods],
          nonblocking: [Plugins -> SUBSET Methods],
          needInit: BOOLEAN, initFailed: BOOLEAN,
          messages: [Dir -> SUBSET Message],
          replies: SUBSET Methods, early: BOOLEAN, abort: BOOLEAN]

ASSUME OrderAssumption ==
  /\ IsFiniteSet(Plugins) /\ AuthnPlugins \subseteq Plugins
  /\ PluginOrder \in [Plugins -> Nat]
  /\ \A p, q \in Plugins : PluginOrder[p] = PluginOrder[q] => p = q

(* A consumer plugin overrides DecodeHeaders; no plugin up to it may wait  *)
(* for the whole request (FilterManagerFactory reports one that could);    *)
(* and a consumer's own plugins come after every authentication plugin     *)
(* (types/apis/v1/validation.go refuses the others).                       *)
ASSUME SetupAssumption ==
  /\ Setups \subseteq Setup
  /\ \A c \in Setups :
       /\ c.initFailed => c.needInit
       /\ \A q \in AuthnPlugins :
            /\ "DecodeHeaders" \in c.defines[q]
            /\ \A p \in Plugins :
                 PluginOrder[p] <= PluginOrder[q] => /\ "DecodeRequest" \notin c.defines[p]
                                                     /\ p \notin c.consumer

ASSUME MaxDataAssumption == MaxData \in Nat \ {0}

VARIABLES
  conf,                 \* the configuration, fixed in a behaviour
  stage,                \* "pool", "active", "logging" or "garbage"
  filters,              \* m.filters: a sequence of plugin names
  consumer,             \* m.callbacks.consumer is set
  merged,               \* m.filters includes the consumer's plugins
  skip,                 \* m.canSkipDecodeHeaders, ..., m.canSkipOnLog
  sync,                 \* m.canSyncRunDecodeHeaders, ..., m.canSyncRunEncodeTrailers
  idx,                  \* m.decodeIdx, m.encodeIdx
  needed,               \* m.decodeRequestNeeded, m.encodeResponseNeeded
  reqBuf,               \* m.reqBuf is set
  encodeWaitFirstData,
  runningInGoThread,
  task,                 \* the decode and the encode handler being executed
  exiting,              \* goroutines that answered but have not decremented the counter
  msg, at, chunks,      \* Envoy: the request and response, what is next, chunks so far
  forwarded,            \* Envoy: the request headers went on to the next HTTP filter
  reply,                \* Envoy: a SendLocalReply waits for the worker
  ran,                  \* history: the <<plugin, method>> overridden hooks that ran
  waited,               \* history: the <<plugin, method>> that returned WaitAllData
  again                 \* history: a hook other than DecodeData, EncodeData ran twice

chainVars == <<filters, consumer, merged, skip, sync>>
progressVars == <<idx, needed, reqBuf, encodeWaitFirstData>>
goVars == <<runningInGoThread, exiting, task>>
envoyVars == <<msg, at, chunks, forwarded, reply>>
historyVars == <<ran, waited, again>>
vars == <<conf, stage, chainVars, progressVars, goVars, envoyVars, historyVars>>

-----------------------------------------------------------------------------
(* The chain and its flags.                                                *)

Defines(p) == conf.defines[p]
N == Len(filters)
RangeOf(s) == {s[i] : i \in DOMAIN s}
At(d, k) == IF d = "decode" THEN filters[k] ELSE filters[N + 1 - k]

(* Plugin names are unique in a chain, so a chain is a set of names laid   *)
(* out in plugin order.                                                    *)
Sorted(s) == \A i, j \in DOMAIN s : i < j => PluginOrder[s[i]] < PluginOrder[s[j]]
SortFilters(S) == CHOOSE s \in [1 .. Cardinality(S) -> S] : Sorted(s)

(* The authentication filters are the prefix of the route's chain that     *)
(* ends at its last consumer plugin.                                       *)
consumerFiltersEndAt ==
  LET route == SortFilters(conf.route) IN
  CHOOSE n \in 0 .. Len(route) :
    /\ n > 0 => route[n] \in AuthnPlugins
    /\ \A i \in n + 1 .. Len(route) : route[i] \notin AuthnPlugins

(* canSkipMethods and canSyncRunMethods of a set of plugins.               *)
SkipMethod(S, m) == \A p \in S : m \notin Defines(p)
SyncMethod(S, m) == \A p \in S : m \in Defines(p) => m \in conf.nonblocking[p]

(* A phase also calls the hooks for the whole message.                     *)
SkipPhase(S, ph) ==
  /\ SkipMethod(S, ph)
  /\ ph \in {"DecodeHeaders", "DecodeData", "DecodeTrailers"} => SkipMethod(S, "DecodeRequest")
  /\ ph \in {"EncodeData", "EncodeTrailers"} => SkipMethod(S, "EncodeResponse")
SyncPhase_OwnMethodOnly(S, ph) == SyncMethod(S, ph)
SyncPhase(S, ph) ==
  /\ SyncMethod(S, ph)
  /\ ph = "DecodeHeaders" => SyncMethod(S, "DecodeRequest")
  /\ ph = "EncodeHeaders" => SyncMethod(S, "EncodeResponse")

FactorySkip == [ph \in Phases \union {"OnLog"} |->
  SkipPhase(conf.route, ph) /\ (ph = "DecodeHeaders" => ~conf.needInit)]
FactorySync == [ph \in Phases |->
  SyncPhase(conf.route, ph) /\ (ph = "DecodeHeaders" => ~conf.needInit)]

(* The flags after the consumer's plugins joined: canSkipDecodeHeaders is  *)
(* left alone, and canSkipEncodeHeaders is computed from canSkipEncodeData.*)
MergedSkip_RouteOnly == skip
MergedSkip == [ph \in Phases \union {"OnLog"} |->
  CASE ph = "DecodeHeaders" -> skip[ph]
    [] ph = "EncodeHeaders" -> skip["EncodeData"] /\ SkipPhase(conf.consumer, ph)
    [] OTHER -> skip[ph] /\ SkipPhase(conf.consumer, ph)]
MergedSync == [ph \in Phases |-> sync[ph] /\ SyncPhase(conf.consumer, ph)]

-----------------------------------------------------------------------------
(* The object as sync.Pool's New makes it and as Reset leaves it.          *)

NoTask == [pc |-> "idle", meth |-> "none", cur |-> 0, seg |-> 0,
           es |-> FALSE, inline |-> FALSE]

New ==
  /\ filters = <<>> /\ consumer = FALSE /\ merged = FALSE
  /\ skip = [ph \in Phases \union {"OnLog"} |-> FALSE]
  /\ sync = [ph \in Phases |-> FALSE]
  /\ idx = [d \in Dir |-> 0] /\ needed = [d \in Dir |-> FALSE]
  /\ reqBuf = FALSE /\ encodeWaitFirstData = FALSE
  /\ runningInGoThread = 0

ResetProgress_KeepsIdx ==
  /\ needed' = [d \in Dir |-> FALSE] /\ UNCHANGED idx
  /\ reqBuf' = FALSE /\ encodeWaitFirstData' = FALSE
ResetProgress ==
  /\ needed' = [d \in Dir |-> FALSE] /\ idx' = [d \in Dir |-> 0]
  /\ reqBuf' = FALSE /\ encodeWaitFirstData' = FALSE

Reset ==
  /\ filters' = <<>> /\ consumer' = FALSE /\ merged' = FALSE
  /\ ResetProgress
  /\ runningInGoThread' = 0
  /\ skip' = [ph \in Phases \union {"OnLog"} |-> FALSE]
  /\ sync' = [ph \in Phases |-> FALSE]

(* The stream as Envoy forgets it.                                         *)
ForgetStream ==
  /\ msg' = [d \in Dir |-> NoMessage] /\ at' = [d \in Dir |-> "none"]
  /\ chunks' = [d \in Dir |-> 0] /\ forwarded' = FALSE /\ reply' = FALSE
  /\ ran' = {} /\ waited' = {} /\ again' = FALSE

Init ==
  /\ conf \in Setups
  /\ stage = "pool"
  /\ New
  /\ exiting = 0 /\ task = [d \in Dir |-> NoTask]
  /\ msg = [d \in Dir |-> NoMessage] /\ at = [d \in Dir |-> "none"]
  /\ chunks = [d \in Dir |-> 0] /\ forwarded = FALSE /\ reply = FALSE
  /\ ran = {} /\ waited = {} /\ again = FALSE

(* An object is taken from the pool for a new stream.                      *)
FilterManagerFactory ==
  /\ stage = "pool"
  /\ stage' = "active"
  /\ filters' = SortFilters(conf.route)
  /\ skip' = FactorySkip
  /\ sync' = FactorySync
  /\ \E m \in conf.messages["decode"] : msg' = [msg EXCEPT !["decode"] = m]
  /\ at' = [at EXCEPT !["decode"] = "header"]
  /\ UNCHANGED <<conf, consumer, merged, progressVars, goVars, chunks, forwarded, reply,
                 historyVars>>

-----------------------------------------------------------------------------
(* Calls of the plugins' hooks.                                            *)

(* What a hook may answer.  WaitAllData needs the hook that takes the      *)
(* whole message.  "Local" stands for a LocalResponse and for a panic,     *)
(* which RecoverPanic turns into a local reply.                            *)
Outcomes(p, m) ==
  {"Continue"}
  \union {r \in {"Local"} : m \in Defines(p) \intersect conf.replies}
  \union {r \in {"WaitData"} : m \in Defines(p) /\ m = "EncodeHeaders"}
  \union {r \in {"WaitAllData"} :
            \E d \in Dir : m = Headers(d) /\ {m, Whole(d)} \subseteq Defines(p)}

(* Filter p's hook m is called and answers r.                              *)
Call(p, m, r) ==
  /\ r \in Outcomes(p, m)
  /\ ran' = IF m \in Defines(p) THEN ran \union {<<p, m>>} ELSE ran
  /\ waited' = IF r = "WaitAllData" THEN waited \union {<<p, m>>} ELSE waited
  /\ again' = (again \/ (<<p, m>> \in ran /\ m \notin {"DecodeData", "EncodeData"}))

(* The handler of direction d goes on as t.                                *)
Go(d, t) ==
  /\ task' = [task EXCEPT ![d] = t]
  /\ UNCHANGED <<at, forwarded, reply, exiting>>

(* The end of a handler: an inline one returns its status, a goroutine     *)
(* first calls Continue, or SendLocalReply, and decrements the counter     *)
(* later.                                                                  *)
Leave(d) ==
  /\ task' = [task EXCEPT ![d] = NoTask]
  /\ exiting' = IF task[d].inline THEN exiting ELSE exiting + 1

(* What Envoy waits for after a phase.  WaitData holds the headers until   *)
(* the first data: "held" is a message without data that was asked to wait.*)
AfterPhase(d, meth, es, status) ==
  CASE status = "StopAndBuffer" /\ meth = "DecodeData" -> "trailers"
    [] status = "StopAndBuffer" /\ meth # "DecodeData" -> "buffering"
    [] status = "StopAndBufferWatermark" -> IF es THEN "held" ELSE "data"
    [] status = "Continue" /\ es -> "done"
    [] status = "Continue" /\ ~es -> IF at[d] = "buffering" THEN "trailers" ELSE "data"

(* Envoy ignores the status when the stream is over or replied to.         *)
Answer(d, meth, es, status) ==
  IF stage = "active" /\ at[d] # "stopped"
  THEN /\ at' = [at EXCEPT ![d] = AfterPhase(d, meth, es, status)]
       /\ forwarded' = (forwarded \/ (d = "decode" /\ status = "Continue"))
  ELSE UNCHANGED <<at, forwarded>>

Return(d, status) ==
  Answer(d, task[d].meth, task[d].es, status) /\ Leave(d) /\ UNCHANGED reply

(* localReply: Envoy posts the reply to the worker, and delivers nothing   *)
(* more of the message; a destroyed stream drops it.                       *)
localReply(d) ==
  /\ reply' = (reply \/ stage = "active")
  /\ at' = [at EXCEPT ![d] = "stopped"]
  /\ Leave(d)
  /\ UNCHANGED forwarded

HandlerFrame == UNCHANGED <<conf, stage, runningInGoThread, msg, chunks>>

(* defer m.MarkRunningInGoThread(false).                                   *)
GoroutineExit ==
  /\ exiting > 0
  /\ exiting' = exiting - 1
  /\ runningInGoThread' = runningInGoThread - 1
  /\ UNCHANGED <<conf, stage, chainVars, progressVars, task, envoyVars, historyVars>>

-----------------------------------------------------------------------------
(* Envoy delivers a phase: the manager skips it, runs it inline, or starts *)
(* a goroutine for it.  The worker does one thing at a time.               *)

WorkerFree == stage = "active" /\ \A d \in Dir : ~task[d].inline

MarkRunning_Forgotten(inline) == UNCHANGED runningInGoThread
MarkRunning_EvenInline(inline) == runningInGoThread' = runningInGoThread + 1
MarkRunningInGoThread(inline) ==
  runningInGoThread' = IF inline THEN runningInGoThread ELSE runningInGoThread + 1

Enter(d, meth, es, inline, pc, seg) ==
  /\ WorkerFree /\ task[d] = NoTask
  /\ IF skip[meth]
     THEN /\ Answer(d, meth, es, "Continue")
          /\ UNCHANGED <<task, runningInGoThread>>
     ELSE /\ task' = [task EXCEPT ![d] = [pc |-> pc, meth |-> meth, cur |-> 1, seg |-> seg,
                                          es |-> es, inline |-> inline]]
          /\ MarkRunningInGoThread(inline)
          /\ UNCHANGED <<at, forwarded>>
  /\ UNCHANGED <<conf, stage, chainVars, progressVars, exiting, msg, reply, historyVars>>

EnterHeaders(d, pc) ==
  /\ at[d] = "header"
  /\ Enter(d, Headers(d), ~msg[d].body /\ ~msg[d].trailers, sync[Headers(d)], pc, 0)
  /\ UNCHANGED chunks

(* decodeData runs DecodeRequest at the end of the stream, and keeps the   *)
(* body until the trailers arrive otherwise.                               *)
WholePc(es, keepPc) == IF es THEN "wholeData" ELSE keepPc

(* A body arrives chunk by chunk, or in one piece after StopAndBuffer.     *)
EnterData(d, keepPc) ==
  \E es \in BOOLEAN :
    /\ msg[d].body /\ (es => ~msg[d].trailers)
    /\ \/ at[d] = "data" /\ (es \/ chunks[d] < MaxData)
       \/ at[d] = "buffering" /\ es = ~msg[d].trailers
    /\ Enter(d, Data(d), es,
             sync[Data(d)] /\ (idx[d] = 0 \/ (sync[Headers(d)] /\ sync[Trailers(d)])),
             IF idx[d] = 0 THEN "data" ELSE WholePc(es, keepPc), idx[d])
    /\ chunks' = [chunks EXCEPT ![d] = IF es THEN @ ELSE @ + 1]

EnterTrailers(d, syncRun, wholePc) ==
  /\ msg[d].trailers
  /\ \/ at[d] = "data" /\ (msg[d].body => chunks[d] > 0)
     \/ at[d] = "buffering" /\ ~msg[d].body
     \/ at[d] = "trailers"
  /\ Enter(d, Trailers(d), TRUE, sync[Trailers(d)] /\ (idx[d] = 0 \/ syncRun),
           IF idx[d] = 0 THEN "trailers" ELSE wholePc, idx[d])
  /\ UNCHANGED chunks

DecodeHeaders == EnterHeaders("decode", "init")
DecodeData == EnterData("decode", "keep")
DecodeTrailers ==
  EnterTrailers("decode", sync["DecodeHeaders"] /\ sync["DecodeTrailers"], "wholeData")
EncodeHeaders == EnterHeaders("encode", "headers")
EncodeData == EnterData("encode", "wholeData")
(* Trailers after a whole response are ignored.                            *)
EncodeTrailers ==
  EnterTrailers("encode", sync["EncodeHeaders"] /\ sync["EncodeData"], "ignore")

-----------------------------------------------------------------------------
(* The bodies of the handlers.                                             *)

Now(d, pc) == task[d].pc = pc
Advance(d, pc, cur) == [task[d] EXCEPT !.pc = pc, !.cur = cur]

(* A hook whose only effect on the manager is a local reply; then on to t. *)
Hook(d, p, m, t) ==
  \E r \in Outcomes(p, m) :
    /\ Call(p, m, r)
    /\ IF r = "Local" THEN localReply(d) ELSE Go(d, t)

decodeHeadersInit ==
  /\ Now("decode", "init")
  /\ IF conf.initFailed THEN localReply("decode")
     ELSE Go("decode", Advance("decode",
                               IF consumerFiltersEndAt = 0 THEN "headers" ELSE "authn", 1))
  /\ HandlerFrame /\ UNCHANGED <<chainVars, progressVars, historyVars>>

(* A consumer plugin that accepts the request may set the consumer.        *)
decodeHeadersAuthn ==
  LET cur == task["decode"].cur  p == filters[cur] IN
  /\ Now("decode", "authn") /\ cur <= consumerFiltersEndAt
  /\ \E r \in Outcomes(p, "DecodeHeaders") :
       /\ Call(p, "DecodeHeaders", r)
       /\ IF r = "Local" THEN localReply("decode") /\ UNCHANGED <<consumer, needed>>
          ELSE /\ \/ UNCHANGED consumer
                  \/ p \in AuthnPlugins /\ consumer' = TRUE
               /\ needed' = [needed EXCEPT !["decode"] = @ \/ r = "WaitAllData"]
               /\ Go("decode", Advance("decode", "authn", cur + 1))
  /\ HandlerFrame
  /\ UNCHANGED <<filters, merged, skip, sync, idx, reqBuf, encodeWaitFirstData>>

(* The consumer's plugins replace those of the same name and the chain is  *)
(* sorted; the loop goes on at consumerFiltersEndAt.                       *)
mergeConsumer ==
  /\ Now("decode", "authn") /\ task["decode"].cur > consumerFiltersEndAt
  /\ IF consumer /\ conf.consumer # {}
     THEN /\ merged' = TRUE
          /\ skip' = MergedSkip /\ sync' = MergedSync
          /\ filters' = SortFilters(RangeOf(filters) \union conf.consumer)
     ELSE UNCHANGED <<merged, skip, sync, filters>>
  /\ Go("decode", Advance("decode", "headers", consumerFiltersEndAt + 1))
  /\ HandlerFrame /\ UNCHANGED <<consumer, progressVars, historyVars>>

(* The loop of decodeHeaders and encodeHeaders.                            *)
headersNext(d) ==
  LET cur == task[d].cur  p == At(d, cur) IN
  /\ Now(d, "headers") /\ cur <= N
  /\ \E r \in Outcomes(p, Headers(d)) :
       LET need == needed[d] \/ r = "WaitAllData" IN
       /\ Call(p, Headers(d), r)
       /\ IF r = "Local"
          THEN localReply(d) /\ UNCHANGED <<idx, needed, encodeWaitFirstData>>
          ELSE /\ needed' = [needed EXCEPT ![d] = FALSE]
               /\ encodeWaitFirstData' = (encodeWaitFirstData \/ r = "WaitData")
               /\ CASE ~need -> Go(d, Advance(d, "headers", cur + 1)) /\ UNCHANGED idx
                    [] need /\ task[d].es -> Go(d, Advance(d, "noBody", cur)) /\ UNCHANGED idx
                    [] need /\ ~task[d].es -> /\ idx' = [idx EXCEPT ![d] = cur]
                                              /\ Return(d, "StopAndBuffer")
  /\ HandlerFrame /\ UNCHANGED <<chainVars, reqBuf>>

headersNoBody(d) ==
  /\ Now(d, "noBody")
  /\ Hook(d, At(d, task[d].cur), Whole(d), Advance(d, "headers", task[d].cur + 1))
  /\ HandlerFrame /\ UNCHANGED <<chainVars, progressVars>>

(* The end of every handler that answers Continue; encodeHeaders may ask   *)
(* to wait for the first data instead.                                     *)
handlerEnd(d) ==
  /\ \/ task[d].pc \in {"headers", "data", "trailers"} /\ task[d].cur > N
     \/ Now(d, "ignore")
  /\ Return(d, IF Now(d, "headers") /\ d = "encode" /\ encodeWaitFirstData
               THEN "StopAndBufferWatermark" ELSE "Continue")
  /\ HandlerFrame /\ UNCHANGED <<chainVars, progressVars, historyVars>>

(* decodeData and encodeData of a streamed body.                           *)
dataNext(d) ==
  /\ Now(d, "data") /\ task[d].cur <= N
  /\ Hook(d, At(d, task[d].cur), Data(d), Advance(d, "data", task[d].cur + 1))
  /\ HandlerFrame /\ UNCHANGED <<chainVars, progressVars>>

(* decodeTrailers and encodeTrailers: both range over m.filters forwards.  *)
trailersNext(d) ==
  /\ Now(d, "trailers") /\ task[d].cur <= N
  /\ Hook(d, filters[task[d].cur], Trailers(d), Advance(d, "trailers", task[d].cur + 1))
  /\ HandlerFrame /\ UNCHANGED <<chainVars, progressVars>>

(* decodeData: the body is kept until the trailers arrive.                 *)
decodeDataKeep ==
  /\ Now("decode", "keep")
  /\ reqBuf' = TRUE
  /\ Return("decode", "StopAndBuffer")
  /\ HandlerFrame
  /\ UNCHANGED <<chainVars, idx, needed, encodeWaitFirstData, historyVars>>

(* DecodeRequest and EncodeResponse.  The whole message is processed one   *)
(* segment at a time: the filters before seg that were already given the   *)
(* headers get the body and the trailers, seg itself gets the whole        *)
(* message, and those after it the headers, up to the next one that waits. *)
(* seg = N + 1 is the last segment, which no filter waits for.             *)
SegmentStart_AtIdx(d) == IF task[d].seg = idx[d] THEN 1 ELSE idx[d]
SegmentStart_AfterIdx(d) == idx[d] + 1
SegmentStart(d) == IF task[d].seg = idx[d] THEN 1 ELSE idx[d] + 1
hasBody_NotKept(d) == d = "decode" => task[d].meth = "DecodeData"
hasBody_Request(d) == task[d].meth = "DecodeData" \/ reqBuf
hasBody(d) == d = "decode" => (task[d].meth = "DecodeData" \/ reqBuf)
(* encodeData passes no trailers to EncodeResponse.                        *)
hasTrailers(d) == task[d].meth = "DecodeTrailers"

wholeData(d) ==
  LET cur == task[d].cur IN
  /\ Now(d, "wholeData")
  /\ IF hasBody(d) /\ cur < task[d].seg
     THEN Hook(d, At(d, cur), Data(d), Advance(d, "wholeData", cur + 1))
     ELSE Go(d, Advance(d, "wholeTrailers", SegmentStart(d))) /\ UNCHANGED historyVars
  /\ HandlerFrame /\ UNCHANGED <<chainVars, progressVars>>

(* The filter at the end of the segment waits for the whole message: the   *)
(* one that stopped the headers, or one found since.                       *)
RequestDue_LaterOnly(d) == needed[d]
RequestDue(d) == task[d].seg = idx[d] \/ needed[d]

wholeTrailers(d) ==
  LET cur == task[d].cur  more == hasTrailers(d) /\ cur < task[d].seg IN
  /\ Now(d, "wholeTrailers")
  /\ \/ more /\ Hook(d, At(d, cur), Trailers(d), Advance(d, "wholeTrailers", cur + 1))
     \/ ~more /\ RequestDue(d) /\ Go(d, Advance(d, "whole", task[d].seg)) /\ UNCHANGED historyVars
     \/ ~more /\ ~RequestDue(d) /\ Return(d, "Continue") /\ UNCHANGED historyVars
  /\ HandlerFrame /\ UNCHANGED <<chainVars, progressVars>>

AfterWhole_Again(d) == Advance(d, "wholeHeaders", task[d].seg)
AfterWhole(d) == Advance(d, "wholeHeaders", task[d].seg + 1)

wholeMessage(d) ==
  LET seg == task[d].seg IN
  /\ Now(d, "whole")
  /\ needed' = [needed EXCEPT ![d] = FALSE]
  /\ idx' = [idx EXCEPT ![d] = seg]
  /\ Hook(d, At(d, seg), Whole(d), AfterWhole(d))
  /\ HandlerFrame /\ UNCHANGED <<chainVars, reqBuf, encodeWaitFirstData>>

(* The segment is complete at the end of the chain, or at a filter that    *)
(* waits.                                                                  *)
NextSegment_NoBody(d) == [Advance(d, "wholeData", task[d].cur) EXCEPT !.seg = task[d].cur]
NextSegment(d) == [Advance(d, "wholeData", idx[d] + 1) EXCEPT !.seg = task[d].cur]

wholeHeaders(d) ==
  LET cur == task[d].cur  p == At(d, cur) IN
  /\ Now(d, "wholeHeaders")
  /\ IF cur > N THEN Go(d, NextSegment(d)) /\ UNCHANGED <<needed, encodeWaitFirstData, historyVars>>
     ELSE \E r \in Outcomes(p, Headers(d)) :
            /\ Call(p, Headers(d), r)
            /\ needed' = [needed EXCEPT ![d] = @ \/ r = "WaitAllData"]
            /\ encodeWaitFirstData' = (encodeWaitFirstData \/ r = "WaitData")
            /\ CASE r = "Local" -> localReply(d)
                 [] r = "WaitAllData" -> Go(d, NextSegment(d))
                 [] OTHER -> Go(d, Advance(d, "wholeHeaders", cur + 1))
  /\ HandlerFrame /\ UNCHANGED <<chainVars, idx, reqBuf>>

-----------------------------------------------------------------------------
(* Envoy's side of the stream, and the object's way back to the pool.      *)

(* The upstream answers: by default once it has the whole request.         *)
UpstreamResponse ==
  /\ WorkerFree /\ forwarded /\ at["encode"] = "none"
  /\ conf.early \/ at["decode"] = "done"
  /\ \E m \in conf.messages["encode"] : msg' = [msg EXCEPT !["encode"] = m]
  /\ at' = [at EXCEPT !["encode"] = "header"]
  /\ UNCHANGED <<conf, stage, chainVars, progressVars, goVars, chunks, forwarded, reply,
                 historyVars>>

(* A local reply takes the response's place, through the encode path, or   *)
(* ends the stream when a response is already on its way.                  *)
SendLocalReply ==
  /\ WorkerFree /\ reply /\ reply' = FALSE
  /\ IF at["encode"] = "none"
     THEN /\ \E b \in BOOLEAN : msg' = [msg EXCEPT !["encode"] = [body |-> b, trailers |-> FALSE]]
          /\ at' = [decode |-> "stopped", encode |-> "header"]
     ELSE at' = [decode |-> "stopped", encode |-> "stopped"] /\ UNCHANGED msg
  /\ UNCHANGED <<conf, stage, chainVars, progressVars, goVars, chunks, forwarded, historyVars>>

(* The stream is over, or destroyed early, even while a goroutine works    *)
(* for it.  When no plugin logs, the object is left to the garbage         *)
(* collector.                                                              *)
OnLog ==
  /\ WorkerFree
  /\ conf.abort \/ at["encode"] \in {"done", "held", "stopped"}
  /\ stage' = IF skip["OnLog"] THEN "garbage" ELSE "logging"
  /\ UNCHANGED <<conf, chainVars, progressVars, goVars, envoyVars, historyVars>>

(* Every filter has logged.  The object goes back to the pool unless a     *)
(* goroutine still uses it.                                                *)
IsRunningInGoThread_Never == FALSE
IsRunningInGoThread == runningInGoThread # 0
runOnLogPhase ==
  /\ stage = "logging"
  /\ \/ /\ IsRunningInGoThread
        /\ stage' = "garbage"
        /\ UNCHANGED <<chainVars, progressVars, runningInGoThread, envoyVars, historyVars>>
     \/ /\ ~IsRunningInGoThread
        /\ Reset /\ ForgetStream
        /\ stage' = "pool"
  /\ UNCHANGED <<conf, task, exiting>>

(* The garbage collector frees an object nothing refers to; the pool's New *)
(* makes another one.                                                      *)
Collect ==
  /\ stage = "garbage" /\ exiting = 0 /\ \A d \in Dir : task[d] = NoTask
  /\ stage' = "pool"
  /\ filters' = <<>> /\ consumer' = FALSE /\ merged' = FALSE
  /\ skip' = [ph \in Phases \union {"OnLog"} |-> FALSE]
  /\ sync' = [ph \in Phases |-> FALSE]
  /\ idx' = [d \in Dir |-> 0] /\ needed' = [d \in Dir |-> FALSE]
  /\ reqBuf' = FALSE /\ encodeWaitFirstData' = FALSE
  /\ runningInGoThread' = 0
  /\ ForgetStream
  /\ UNCHANGED <<conf, task, exiting>>

-----------------------------------------------------------------------------

DecodeEvent == DecodeHeaders \/ DecodeData \/ DecodeTrailers
EncodeEvent == EncodeHeaders \/ EncodeData \/ EncodeTrailers

Step(d) ==
  \/ headersNext(d) \/ headersNoBody(d) \/ dataNext(d) \/ trailersNext(d)
  \/ wholeData(d) \/ wholeTrailers(d) \/ wholeMessage(d) \/ wholeHeaders(d)
  \/ handlerEnd(d)
DecodeStep == decodeHeadersInit \/ decodeHeadersAuthn \/ mergeConsumer \/ decodeDataKeep
              \/ Step("decode")
EncodeStep == Step("encode")

Next ==
  \/ FilterManagerFactory
  \/ DecodeEvent \/ EncodeEvent \/ UpstreamResponse \/ SendLocalReply
  \/ DecodeStep \/ EncodeStep \/ GoroutineExit
  \/ OnLog \/ runOnLogPhase \/ Collect

Spec == Init /\ [][Next]_vars

(* Envoy goes on with a stream it does not destroy, the Go scheduler runs  *)
(* every goroutine, and a hook returns.  Streams need not begin, upstreams *)
(* need not answer, and streams need not end.                              *)
Fairness ==
  /\ WF_vars(DecodeEvent) /\ WF_vars(EncodeEvent) /\ WF_vars(SendLocalReply)
  /\ WF_vars(DecodeStep) /\ WF_vars(EncodeStep) /\ WF_vars(GoroutineExit)
  /\ WF_vars(runOnLogPhase) /\ WF_vars(Collect)

FairSpec == Spec /\ Fairness

-----------------------------------------------------------------------------
(* Properties.                                                             *)

TaskType ==
  [pc: {"idle", "init", "authn", "headers", "noBody", "data", "trailers", "keep", "ignore",
        "wholeData", "wholeTrailers", "whole", "wholeHeaders"},
   meth: Phases \union {"none"}, cur: Nat, seg: Nat, es: BOOLEAN, inline: BOOLEAN]

(* Every variable keeps its type: in particular the counter of goroutines, *)
(* which MarkRunningInGoThread also decrements, never goes below zero.     *)
TypeOK ==
  /\ conf \in Setups
  /\ stage \in {"pool", "active", "logging", "garbage"}
  /\ filters \in Seq(Plugins) /\ consumer \in BOOLEAN /\ merged \in BOOLEAN
  /\ skip \in [Phases \union {"OnLog"} -> BOOLEAN] /\ sync \in [Phases -> BOOLEAN]
  /\ idx \in [Dir -> Nat] /\ needed \in [Dir -> BOOLEAN]
  /\ reqBuf \in BOOLEAN /\ encodeWaitFirstData \in BOOLEAN
  /\ runningInGoThread \in Nat /\ exiting \in Nat /\ task \in [Dir -> TaskType]
  /\ msg \in [Dir -> Message]
  /\ at \in [Dir -> {"none", "header", "data", "buffering", "trailers", "held", "done",
                     "stopped"}]
  /\ chunks \in [Dir -> Nat] /\ forwarded \in BOOLEAN /\ reply \in BOOLEAN
  /\ ran \subseteq Plugins \X Methods /\ waited \subseteq Plugins \X Methods
  /\ again \in BOOLEAN

(* runningInGoThread is the number of goroutines that have not finished,   *)
(* those that answered Envoy but did not run their defers included: what   *)
(* IsRunningInGoThread's answer is worth.                                  *)
InGoThread(d) == IF task[d] # NoTask /\ ~task[d].inline THEN 1 ELSE 0
CounterExact == runningInGoThread = exiting + InGoThread("decode") + InGoThread("encode")

(* A recycled object cannot be told from a new one: Reset forgets nothing  *)
(* of the stream before (decodeIdx, encodeIdx, flags, chain, consumer).    *)
RecycledIsNew == stage = "pool" => New

(* The object honours the pool's promise: it is never recycled while a     *)
(* handler, inline or in a goroutine, still refers to it.                  *)
users == exiting + (IF task["decode"] = NoTask THEN 0 ELSE 1)
                 + (IF task["encode"] = NoTask THEN 0 ELSE 1)
slot == CASE stage = "pool" -> "free"
          [] stage \in {"active", "logging"} -> "used"
          [] stage = "garbage" -> "dropped"
Pool == INSTANCE PooledObject
ImplementsPool == Pool!Spec

(* The order of the hooks.  q < p in what follows: the path of direction d *)
(* visits q before p.                                                      *)
Chain == RangeOf(filters)
Pos(d, p) == CHOOSE k \in 1 .. N : At(d, k) = p
Before(d, q, p) == Pos(d, q) < Pos(d, p)
Hooks(d) == {Headers(d), Data(d), Trailers(d), Whole(d)}
Ran(p, m) == m \in Defines(p) => <<p, m>> \in ran
Waited(d, p) == <<p, Headers(d)>> \in waited

(* A plugin is called only after those before it have seen the headers     *)
(* and, when they asked to wait, the whole message; and it sees the whole  *)
(* message only after those before it have seen the body.                  *)
InOrder(d) ==
  \A p, q \in Chain : \A m \in Hooks(d) :
    Before(d, q, p) /\ <<p, m>> \in ran =>
      /\ Ran(q, Headers(d))
      /\ Waited(d, q) => <<q, Whole(d)>> \in ran
      /\ m = Whole(d) /\ msg[d].body /\ ~Waited(d, q) => Ran(q, Data(d))
TrailersInOrder(d) ==
  \A p, q \in Chain :
    Before(d, q, p) /\ <<p, Trailers(d)>> \in ran /\ ~Waited(d, q) => Ran(q, Trailers(d))

(* The request is processed in the order of the chain (decodeHeaders and   *)
(* DecodeRequest with any number of plugins that wait).                    *)
DecodeOrder == InOrder("decode") /\ TrailersInOrder("decode")

(* The response is processed in the reverse order, unless the merge of a   *)
(* consumer made the manager skip EncodeHeaders although a plugin overrides *)
(* it (see EncodeHeadersSeen).                                             *)
EncodeHeadersLost == merged /\ skip["EncodeHeaders"] /\ ~SkipMethod(Chain, "EncodeHeaders")
EncodeOrder == EncodeHeadersLost \/ InOrder("encode")

(* No hook but the data hooks is called twice for one stream, however many *)
(* plugins wait for the whole message.                                     *)
CalledOnce == ~again

(* "if DecodeHeaders returns WaitAllData, only DecodeRequest is executed,  *)
(* otherwise, only DecodeData/DecodeTrailers": never both kinds of hook    *)
(* for one plugin, in either direction.                                    *)
WholeOrStreamed ==
  \A d \in Dir, p \in Chain :
    IF Waited(d, p) THEN <<p, Data(d)>> \notin ran /\ <<p, Trailers(d)>> \notin ran
    ELSE <<p, Whole(d)>> \notin ran

(* The request headers leave for the next HTTP filter only when every      *)
(* plugin has seen them, and every plugin that waits has judged the whole  *)
(* request.                                                                *)
ForwardedAfterAll ==
  forwarded => \A p \in Chain : /\ Ran(p, "DecodeHeaders")
                                /\ Waited("decode", p) => <<p, "DecodeRequest">> \in ran

(* A message that was let through was seen, part by part, by every plugin. *)
SawHeaders(d, p) ==
  /\ Ran(p, Headers(d))
  /\ Waited(d, p) => <<p, Whole(d)>> \in ran
SawBody(d, p) == msg[d].body /\ ~Waited(d, p) => Ran(p, Data(d))
SawTrailers(d, p) == msg[d].trailers /\ ~Waited(d, p) => Ran(p, Trailers(d))

(* A complete request: headers, body and trailers.                         *)
DecodeComplete ==
  at["decode"] = "done" =>
    \A p \in Chain : SawHeaders("decode", p) /\ SawBody("decode", p) /\ SawTrailers("decode", p)

(* A complete response.  Its trailers are not processed when a plugin      *)
(* waits for the whole response (the FIXME in encodeData), and a waiting   *)
(* response of headers and trailers alone is the subject of                *)
(* TrailersOnlyResponseSeen.                                               *)
EncodeComplete ==
  at["encode"] = "done" /\ ~EncodeHeadersLost =>
    \A p \in Chain :
      \/ idx["encode"] # 0 /\ ~msg["encode"].body
      \/ /\ SawHeaders("encode", p) /\ SawBody("encode", p)
         /\ idx["encode"] = 0 => SawTrailers("encode", p)

(* A phase is skipped only when no plugin of the chain, those the consumer *)
(* added included, has something to do in it.                              *)
SkipIsSound ==
  \A ph \in Phases \union {"OnLog"} :
    stage = "active" /\ skip[ph] /\ ~(merged /\ ph = "EncodeHeaders") => SkipMethod(Chain, ph)

(* A handler that runs on the Envoy worker calls no hook that may block.   *)
(* The trailers of a buffered request are the subject of                   *)
(* TrailersInlineNonBlocking; and DecodeHeaders is already running inline  *)
(* when a consumer's plugins, which may block, join the chain.             *)
InlineCallsNonBlocking(meths) ==
  \A d \in Dir : \A p \in Plugins, m \in Hooks(d) :
    task[d].inline /\ task[d].meth \in meths /\ <<p, m>> \in ran' \ ran =>
      m \in conf.nonblocking[p]
InlineNonBlocking ==
  [][InlineCallsNonBlocking(Phases \ ({"DecodeTrailers"} \union {m \in {"DecodeHeaders"} : merged}))]_vars

(* What is received is processed: buffering is never for good.             *)
Underway(d) == stage = "active" /\ at[d] \in {"header", "data", "buffering", "trailers"}
(* A request is let through, replied to, or destroyed.                     *)
RequestProgress == Underway("decode") ~> ~Underway("decode")
(* A response is let through, held for its first data, replaced or         *)
(* destroyed.                                                              *)
ResponseProgress == Underway("encode") ~> ~Underway("encode")

(* An object whose stream is over is free for another stream at last, even *)
(* if a goroutine was working for it when the stream was destroyed.        *)
ObjectReleased == stage \in {"logging", "garbage"} ~> stage = "pool"

-----------------------------------------------------------------------------
(* What the documentation says and the code does not do.                   *)

(* "When processing the response (Encode path), the calling order is       *)
(* C -> B -> A", yet encodeTrailers ranges over the chain forwards.        *)
EncodeTrailersReversed == TrailersInOrder("encode")

(* "A phase that only contains non-blocking plugins is executed on the     *)
(* worker": DecodeTrailers of a buffered request also calls DecodeData and *)
(* DecodeRequest, yet canSyncRunDecodeData is not looked at.               *)
TrailersInlineNonBlocking == [][InlineCallsNonBlocking({"DecodeTrailers"})]_vars

(* EncodeHeaders is called for every plugin of the chain, yet the merge of *)
(* a consumer computes canSkipEncodeHeaders from canSkipEncodeData.        *)
EncodeHeadersSeen ==
  at["encode"] = "done" /\ idx["encode"] = 0 => \A p \in Chain : Ran(p, "EncodeHeaders")

(* WaitAllData in EncodeHeaders leads to EncodeResponse and then to the    *)
(* EncodeHeaders of the next plugin, yet a response that has trailers and  *)
(* no body never gets there.                                               *)
TrailersOnlyResponseSeen ==
  at["encode"] = "done" /\ ~merged => \A p \in Chain : SawHeaders("encode", p)
=============================================================================
