# TLA+ models of HTNN

HTNN is a gateway made of an Envoy with a shared library written in Go, the
**data plane**, which runs plugins over HTTP streams, and a **control plane**
embedded in istiod, which reconciles Kubernetes resources into the
configuration Envoy receives. This directory models the parts of both whose
correctness depends on interleavings, order, failure or boundaries, checks them
with TLC on small instances, and proves the central results with TLAPS for
every value of the parameters. All paths below are relative to `src/`.

## 1. The system

| part | state it keeps | operations | talks to |
|---|---|---|---|
| filter manager, `api/pkg/filtermanager` | per stream: the chain, what may be skipped or run inline, the buffering state, a counter of goroutines; per route: a pool of managers | the six phases, the local reply, the log phase, `Reset` | Envoy (callbacks), the plugins, the consumers |
| filter manager configuration, `config.go` | the parsed plugins in order, where authentication ends, `InitOnce` | `Parse`, `Merge`, `InitOnce` | plugin registry |
| consumers (data), `api/internal/consumer` | consumers by namespace, and by plugin and credential | `UpdateConsumers`, `LookupConsumer` | authentication plugins |
| consumers (control), `consumer_controller.go` | resources and their status | `Reconcile` | Kubernetes API, the data plane by an EnvoyFilter |
| filter policies, `filterpolicy_controller.go`, `internal/translation` | indexes from targets to policies; the four states of a translation | `Reconcile`, `Process` | Kubernetes API, `component/k8s.go` |
| dynamic configuration | one configuration per type | `Reconcile`; `OnUpdate` in the data plane | |
| service registries, `internal/registry`, `registries/*` | watched services, subscriptions, soft-deleted services | `Start`, `Reload`, `Stop`, the refresh timer, the SDK's callbacks | Nacos or Consul, the store |
| service entries, `registry/store.go`, `service_entry_syncer.go` | discovered entries; the objects last written | `Update`, `Delete`, the periodic `sync` | Kubernetes API |
| plugins, `plugins/plugins` | per stream, and some per route | the hooks | remote services, the filter manager |

What is hard in each part, and what would make it correct:

* **Filter manager.** One object is shared by the Envoy worker and by the
  goroutines of two phases, is taken from a pool and goes back to it. Plugins
  may ask for the whole message, one after the other, so that a buffered
  message is processed in segments. It is correct when hooks run in order, once,
  for every part of a message, when a message leaves only after every plugin
  has seen it, when nothing that may block runs on the worker, when buffering
  ends, and when an object is never recycled while it is used.
* **Consumers.** Correct when, once everything is quiet, the data plane
  authenticates exactly the accepted resources with their current
  configuration, and each status says what took effect. Hard: caching by
  generation, deletion, duplicate names and credentials, failed updates.
* **Service registries and entries.** Correct when the cluster finally holds
  the entries of the services the registries know, no more and no fewer,
  through reloads, stops, failed subscriptions, callbacks that arrive late,
  failed writes and restarts.
* **Filter policies.** Correct when each route gets its policies merged by
  precedence and none of another's, and the output depends on the resources
  only, not on the order of events.
* **Streaming plugins.** Correct when no content leaves before it was
  moderated, and when tokens are settled on the request that spent them.

`PROJECT.json` lists every component and, under "hazards", the places where this
code can go wrong in a way a test would hardly reach.

## 2. Modules

| module | what it is | status |
|---|---|---|
| `PooledObject` | what a pool of per-stream objects promises of one object | done |
| `FilterManager` | the filter manager over one stream at a time | done |
| `MCFilterManager` | the instances TLC checks | done |
| `FilterManagerProofs` | types, positions, the counter, the pool: the inductive invariant and the theorems | done |
| `FilterManagerOrderProofs` | the order and completeness of the hooks, proved on top of it | done |
| `FilterManagerInlineProofs` | what runs on the worker does not block, proved on top of both | done |
| `ConsumerReconciler` | the control plane of consumers, with the API server and a lagging informer | done |
| `ConsumerManager` | the data plane's index of consumers | done |
| `ConsumerSync` | the two composed, with delivery and restarts | done |
| `ConsumerSyncProofs` | the inductive invariant, and every property but convergence | done |
| `MCConsumerSync` | the instances TLC checks | done |
| `ServiceDirectory` | what the service registries promise a mesh | done |
| `ServiceEntryStore` | the store of service entries and the syncer that writes them | done |
| `RegistryObjects` | what the kinds of registries share: objects, subscriptions, callbacks, servers | done |
| `NacosRegistry` | the Nacos registries, over both | done |
| `ConsulRegistry` | the Consul registries, over both, with the refresh that runs outside the lock | done |
| `ServiceRegistries` | the controller and the manager of registries, above them; refines `ServiceDirectory` | done |
| `ServiceEntryStoreProofs` | lemmas: what a change of the store and a sync make of the syncer and the cluster | done |
| `ServiceRegistriesProofs` | the inductive invariant, every property but convergence, and the safety of the refinement | done |
| `MCServiceRegistries` | the instances TLC checks | done |
| `PolicyTranslation` | from policies, routes and gateways to EnvoyFilters: pure operators | done |
| `FilterPolicyReconciler` | the controller of filter policies, with informers, failures and restarts | done |
| `FilterPolicies` | what is asked of it: an independent definition of what is to be enforced | done |
| `FilterPoliciesProofs` | the inductive invariant: what the controller knows at each step of a reconciliation; types, statuses, dependencies and what is enforced | done |
| `MCFilterPolicies` | the instances TLC checks | done |
| `ContentBuffer`, `SSEParser` | the two buffers of the AI content security plugin | done |
| `StreamModeration` | the plugin's handlers, for streams that share a configuration | done |
| `StreamModerationProofs` | the inductive invariants and every property | done |
| `MCStreamModeration` | the instances TLC checks | done |

What the plan has left, most important first:

1. `UndisturbedStays` as a theorem: the invariants about what the controller knows
   are stated for an empty queue, and this one needs them also while a
   reconciliation with an up-to-date cache is under way (section 6, Proved).
2. `TokenLimiter`: the shared limiter under concurrent streams.
3. `FilterManagerConfig`: `Parse`, `Merge` and `InitOnce`, as functions checked
   against each other.
4. `DynamicConfigs`: their controller, and `OnUpdate` in the data plane; and
   `HTTPFilterPolicy`.

## 3. The filter manager

### Correspondence

`FilterManager` follows `filtermanager.go`. A variable is a field of
`filterManager` (`filters`, `idx` for `decodeIdx` and `encodeIdx`, `needed` for
`decodeRequestNeeded` and `encodeResponseNeeded`, `reqBuf`,
`encodeWaitFirstData`, `skip` and `sync` for the thirteen `canSkip` and
`canSyncRun` flags, `runningInGoThread`), or the control point of a handler
(`task`, one for each path), or Envoy's side of the stream (`msg`, `at`,
`chunks`, `forwarded`, `reply`), or history that properties need (`ran`,
`waited`, `again`). The two paths are one definition with a direction `d`;
where the code differs between them, so does the definition.

* A phase delivered by Envoy is `DecodeHeaders` ... `EncodeTrailers`: it is
  skipped, starts inline, or starts a goroutine and counts it.
* A handler then takes one step for each call of a hook, with every outcome the
  hook may have: continue, a local reply (a panic is one, by `RecoverPanic`),
  `WaitData`, `WaitAllData`. `decodeHeaders` is `decodeHeadersInit`,
  `decodeHeadersAuthn`, `mergeConsumer` and `headersNext`; `DecodeRequest` and
  `EncodeResponse` are `wholeData`, `wholeTrailers`, `wholeMessage` and
  `wholeHeaders`, repeated for each segment.
* A goroutine answers Envoy in its last step and decrements the counter in
  another, `GoroutineExit`, as the deferred call does: the stream may end in
  between.
* `OnLog` ends the stream, at any time when the configuration allows early
  destruction; `runOnLogPhase` recycles the object or abandons it.

Outside `src/`, and so modelled from how the code uses it: Envoy delivers one
phase of a path at a time, holds the message after `Running` or
`StopAndBuffer`, delivers a buffered body in one piece, runs a local reply
through the encode path unless a response is under way, and ignores answers to
a stream that is gone.

### Checked

`filter_manager` checks, over the fifteen configurations of `MCFilterManager`:

| property | what it says |
|---|---|
| `TypeOK` | types; the counter never goes below zero |
| `CounterExact` | the counter is the number of goroutines not yet finished |
| `RecycledIsNew` | a recycled object is like a new one |
| `DecodeOrder`, `EncodeOrder` | each path's hooks run in order, with the whole message after the earlier plugins' parts of it |
| `CalledOnce` | no hook but the data hooks runs twice |
| `WholeOrStreamed` | a plugin gets the whole message or its parts, as it asked |
| `ForwardedAfterAll` | request headers leave after every plugin's judgement |
| `DecodeComplete`, `EncodeComplete` | a message let through was seen, part by part, by every plugin |
| `SkipIsSound` | a skipped phase has nothing to do, after a merge too |
| `InlineNonBlocking` | hooks run on the worker are declared non-blocking |
| `ImplementsPool` | refinement: `FilterManager` implements `PooledObject` |
| `RequestProgress`, `ResponseProgress` | buffering always ends |
| `ObjectReleased` | an ended stream's object becomes free |

Each of them is broken by a plausible mistake in the code, a definition
`X_Fault` beside the `X` it replaces, listed under "mutants".

Four runs show what the code does against its documentation; each expects a
violation of the one property it checks.

| run | what it shows |
|---|---|
| `filter_manager_merge` | the merge of a consumer's plugins computes `canSkipEncodeHeaders` from `canSkipEncodeData`: `EncodeHeaders` of the route's plugins is lost |
| `filter_manager_inline` | `DecodeTrailers` repeats `canSyncRunDecodeTrailers` where `canSyncRunDecodeData` is meant: a blocking `DecodeData` runs on the worker |
| `filter_manager_trailers` | `encodeTrailers` visits the plugins in the request's order |
| `filter_manager_trailersonly` | a response of headers and trailers is let through past a plugin that waits for the response |

The passing properties make room for exactly these four and say so where they
do: `EncodeOrder` and `EncodeComplete` except a merge that lost
`EncodeHeaders`, `SkipIsSound` except `EncodeHeaders` after a merge,
`InlineNonBlocking` except `DecodeTrailers`, and `DecodeHeaders` after a merge,
which is already on the worker when the consumer's plugins join.

**Bounds.** `MaxData = 1`: at most one chunk of a body without `end_stream`
before the last, enough for a data phase before another and for a body before
trailers. Chains have at most three plugins: one before, at and after a segment's
boundary; two plugins that wait give two segments and three give three. The
configurations are chosen, not enumerated, for what the flags depend on:
plugins that buffer, stream, see headers only, authenticate, block or not in
each phase; a consumer that adds or replaces a plugin; a failed `Init`; replies
on either path; early responses and early destruction. The object serves any
number of streams in a behaviour: the graph is finite because it returns to the
pool's state.

**Fairness.** Weak fairness of the handlers' steps (a hook returns, and the Go
scheduler runs every goroutine), of Envoy's delivery of what it has received,
of a posted local reply, and of the garbage collector. None for the upstream,
which may never answer, for new streams, or for the end of a stream.

### Proved

`FilterManagerProofs` proves, for every set of plugins, order, set of
configurations and bound that satisfies the three assumptions of
`FilterManager`:

| theorem | statement |
|---|---|
| `Invariance` | `Spec => []IInv` |
| `TypeCorrect` | `Spec => []TypeOK` |
| `CounterCorrect` | `Spec => []CounterExact` |
| `RecyclingCorrect` | `Spec => []RecycledIsNew` |
| `PoolRefinement` | `Spec => ImplementsPool` |

`TypeOK` is not inductive: `ran` stays within `Plugins \X Methods` only if every
position a handler calls is one of the chain, which depends on the control
point, on `idx`, and on a merge that lengthens the chain. `IInv` adds
`Positions` (at each control point the handler's position and segment lie
within the chain, and so does `idx`), `Early` (until the authentication filters
are done the chain is the route's, and nothing of the response has begun),
`Free` (an object in the pool has no handler, no goroutine and nothing of a
stream) and `CounterExact`. The lemmas about chains state that a set of plugins
has a sorted sequence (a minimal set without one would lose its last plugin and
still have none), and what the operators return. Then each action
preserves each part, and `PoolRefinement` maps every action to a step of the
abstract pool or to a stutter; `CounterExact` is what makes a recycled object
one nobody uses.

`FilterManagerOrderProofs` proves every other invariant of the run from the
same assumptions:

| theorem | statement |
|---|---|
| `OrderInvariance` | `Spec => []OrderInv` |
| `DecodeInOrder`, `EncodeInOrder` | `Spec => []DecodeOrder`, `Spec => []EncodeOrder` |
| `NoHookTwice` | `Spec => []CalledOnce` |
| `EitherWholeOrStreamed` | `Spec => []WholeOrStreamed` |
| `NoEarlyForward` | `Spec => []ForwardedAfterAll` |
| `RequestSeen`, `ResponseSeen` | `Spec => []DecodeComplete`, `Spec => []EncodeComplete` |
| `NothingSkipped` | `Spec => []SkipIsSound` |

None of these is inductive, because they speak of what has run and not of where
a handler is. `OrderInv` ties the two together. What has run on a direction is
made a record, `Path(d)` (the positions that were called for each hook, that
wait, and that override), so that one lemma about such a record serves the
request and the response, before a step and after it. `OrderInv` then says, of
each direction,

* `Started`: what a handler was started for: its phase, whether the stream ends
  with it, what Envoy waits for meanwhile;
* `Progress`: how far each handler has come: at every control point,
  `SoFar(v, n, q, b, u, w)` says that exactly the headers hooks up to `n`, the
  whole message up to `q`, the data up to `b` and the trailers up to `u` have
  run, and that beyond `q` only `w` waits;
* `Between`: the same between two handlers: nothing ran yet, or the message is
  buffered for the filter at `idx`, or all of it was seen;
* `Ordered` and `Complete`: the properties themselves, which outlast the handler
  of a stream that Envoy has given up and of which nothing else is known;

and besides `ChainSound` (the chain is sorted, only its plugins were called, only
those that take the whole message wait, and the skip flags are right), `NotYet`
(the request has not left while the decode path may still wait), `Passed` and
`~again`. The step that is hard is the merge, which changes the chain under a
handler that is half-way through it: `SamePrefix` shows that the merged chain
begins with the same authentication filters, because a consumer's own plugins
come after them, by the first position at which the two chains differ.

`FilterManagerInlineProofs` proves the action property of the run:

| theorem | statement |
|---|---|
| `InlineInvariance` | `Spec => []InlineInv` |
| `WorkerNeverBlocks` | `Spec => InlineNonBlocking` |

`InlineInv` adds that each `canSyncRun` flag holds of the chain as it is now
(`SyncSound`), and that an inline handler was started under the flags of all the
hooks it may still call. The merge changes flags, but only `DecodeHeaders` can
be running inline then (`Early`), which is the property's exception. A handler
of a whole message was found non-blocking for headers and trailers too, again
but for `DecodeTrailers`.

The assumptions: plugin ranks are distinct (names are unique in the plugin
registry, and equal positions are ordered by name); a consumer plugin overrides
`DecodeHeaders`, no plugin before it waits for the request, and a consumer's own
plugins come after authentication (`ValidateConsumer` refuses the others, and
`FilterManagerFactory` reports an error for the second). TLC checks them on
every run.

### Only model-checked, and not modelled

Liveness (`RequestProgress`, `ResponseProgress`, `ObjectReleased`) is checked by
TLC only: liveness under fairness is outside what the prover handles.

Not modelled: debug mode (`debugFilter` only measures), header and body
contents, the payload of local replies, the cached accessors of
`filterManagerCallbackHandler` and its lock, `DecodeRequest` on an
authentication filter (refused by the factory), what `OnLog` hooks see when a
stream is destroyed early (the chain is then read without synchronisation), and
the memory model of Go: the counter is atomic, and the fields a goroutine
writes are read by the worker after its answer.

## 4. Consumers

### Correspondence

`ConsumerReconciler` follows `consumer_controller.go`. `store` is what the API
server has, `watch` the events the informer has not applied, in the order of
the writes, `cache` its copies, `queued` the one request of the work queue
(`triggerReconciliation` always makes the same). `Reconcile` is four kinds of
steps: `List` (the cache in any order, and `consumersToState` over it, with the
statuses it computes in memory), `generateCustomResource` (the EnvoyFilter is
replaced as a whole), `UpdateStatus` for each changed status in the list's order
(`Due`; what was looked at leaves `items`), and `Reconciled`. The loop of
`consumersToState` is stated without its map: an item takes its name if it
qualifies and none before it has (`Duplicate`), which is what the map from names
remembers, since the first that qualifies is the one that is entered. A status
update of a resource written since the listed version is a `Conflict`; any
error ends the reconciliation and queues the request again. Status writes go
through the watch too, and `GenerationChanged` keeps them from queueing a
request. A generation is 1 when a resource is created, and grows with its
specification. A restart lists everything anew; it queues a request only if
some resource exists.

`ConsumerManager` follows `consumer_manager.go`: `UpdateConsumers` builds the
new index of each namespace that the configuration names, keeps a consumer
whose generation is the same, leaves out one that cannot be loaded, and then
builds the index by credential, visiting the consumers of a namespace in any
order. It holds the write lock throughout and is one step.

`ConsumerSync` composes them: `Push` delivers the present EnvoyFilter to the
parser of `api/pkg/consumer`, so what was overwritten before its delivery is
skipped; `EnvoyRestart` empties the index. `contested` is history.

Abstracted: a credential stands for a plugin and the index of its
configuration; a specification for its name, its credentials, whether
`ValidateConsumer` accepts it and whether the data plane can load it, which
differ when the two sides were built with different plugins. The API server,
the informer and the delivery are outside `src/`. The model has the clients of
`component/k8s.go`, whose status updates can conflict; embedded in istiod, the
controller hands its statuses to istiod's status queue instead, which reports
no error.

### Checked

| property | what it says |
|---|---|
| `TypeOK` | types; every credential found leads to an existing consumer |
| `AcceptedIsServed` | at rest, an uncontested resource has an answer for its generation, Accepted exactly if valid, and then the EnvoyFilter has it as it is |
| `ServedIsAccepted` | at rest, the EnvoyFilter has nothing else |
| `AuthenticatesAccepted` | at rest, a credential finds only an Accepted resource that has it |
| `AcceptedAuthenticates` | at rest, every credential of an Accepted, loadable resource finds it, unless it is shared |
| `AcceptanceIsStable` | no resource goes from Accepted to Invalid within a generation unless its name was contested |
| `Converges` | the system comes to rest |

| run | what it shows |
|---|---|
| `consumer_sync` | all of them, on three resources in two namespaces |
| `consumer_sync_duplicates` | both of two duplicates may end up Invalid, when a list is older than the status just written |
| `consumer_sync_revoked` | the last consumer of a namespace still authenticates after its deletion |
| `consumer_sync_generation` | a consumer deleted and created anew keeps its old configuration in the data plane |

The passing properties make room for exactly these. A name that two resources
have ever claimed at once is left out, since the loser stays Invalid for its
generation even when the winner has gone. `AuthenticatesAccepted` leaves out
namespaces that the EnvoyFilter no longer names, and both properties of the
data plane leave out a name whose entry has the generation of the one it should
have but not its content (`Mistaken`). `ServedIsAccepted` leaves out a
controller that started after the last resource was deleted: nothing asks it
to reconcile, and the old EnvoyFilter stays.

**Bounds.** A member of `Budgets` says how often each resource is written:
three writes of one resource (create, delete and create anew, or change twice),
three of two that can claim one name, in both proportions, and three of two
that have one name in two namespaces. `MaxFaults = 1`: one failed call, lost answer or restart,
at every point of a behaviour. The violations of `revoked` and `generation`
need no fault. `SpecsOf` gives each resource the specifications it may have:
one resource that takes another's name, one that shares a credential, one that
validation refuses, one that the data plane cannot load, and the same name in
another namespace. Deadlock is not checked: with no writes left and everything
delivered the system rests.

**Fairness.** The informer keeps up in the end, a queued reconciliation runs and
its calls return, and a new configuration reaches Envoy. Each is weak, and each
is needed: without the first, a conflict is retried for ever on the same old
copy. Users and faults have none.

### Proved

`ConsumerSyncProofs` proves, for any finite set of resources, any
specifications, budgets of writes and number of faults that satisfy
`ConsumersAssumption`:

| theorem | statement |
|---|---|
| `SyncInvariance` | `Spec => []SyncInv` |
| `TypeCorrectness` | `Spec => []TypeOK` |
| `AcceptedServed`, `ServedAccepted` | `Spec => []AcceptedIsServed`, `Spec => []ServedIsAccepted` |
| `OnlyAccepted`, `EveryAccepted` | `Spec => []AuthenticatesAccepted`, `Spec => []AcceptedAuthenticates` |
| `AcceptanceStable` | `Spec => AcceptanceIsStable` |

The properties speak of a system at rest, and whether it rests in the right
place was decided by a list that may have been made long before, from copies
that were old even then. `SyncInv` says what is carried from one to the other:

* There is a log `h` (`IsLog`): `h[0]` is the informer's copies, `h[k]` what it
  will have after `k` more events, the last one the API server's objects. Each
  event is a legal next version (`Follows`: another generation, or the same
  specification and no answer lost); two resources that have one name in any of
  these states are `contested`; an answer for the present generation is right
  (`RightStatuses`); what no event is left for is up to date.
* `ItemsInv`: the items of a reconciliation are distinct; of a resource that was
  not written since (`outdated`) they have the generation and the specification;
  the computed status is right unless the name is contested; and of those that
  take effect no two have one name.
* `Abreast`: while no request is queued, a resource whose generation and
  specification no event will change (`Steady`) was in the last list as it is.
  So its status is written or still due (`StatusOnItsWay`) and, after the
  EnvoyFilter, served (`Served`); and the EnvoyFilter has nothing but what the
  informer has (`NothingElseServed`), unless a new process found no resource.
  This is inductive because an event that could break it changes a generation,
  and then queues a request (`GenerationChanged`), and an error queues it again.
* `DataInv`: the index of a namespace has what was applied last, by generation,
  less what could not be loaded; the index by credential leads to a consumer
  that has it, and to one for every credential. That a least rank exists, in
  whatever order Go visits the consumers, is `LeastNumber`.
* `WithinBudget`: generations stay within the bound on writes.

The log is a bound variable of `SyncInv`, not a variable of the model: each
step says how a log before it gives one after it (`LogAppend`, `LogObserve`,
`LogStart`). At rest it has length one and every resource is steady (`AtRest`),
from which the four properties follow. `SyncInv`, with the log computed from
the events, was checked with TLC on the instance of the run before.

The assumptions say what the constants are: a resource has a namespace and a
name, a specification its four fields, and the bounds are numbers. `Converges`
is model-checked only.

## 5. Service registries

### Correspondence

`ServiceRegistries` follows `serviceregistry_controller.go` and
`internal/registry/registry.go`. `previous` is `prevServiceRegistries`;
`Begin`, `List` and `Handle` are the two loops of `Reconcile`, over the
registries known from before and over the new ones, in any order, since both
range over maps. `Forget` is `DeleteRegistry`, `Keep` is `UpdateRegistry` with
the status that follows; an error or a conflict abandons the rest and queues
the request again.

`RegistryObjects` is what the two kinds share. A registry that was started is a
member of `objects`: its configuration, the number of its present client, what
it watches, what is soft-deleted, whether it is stopped and how far its
goroutine is with a refresh. `subs` are the subscriptions of *all* clients that
were ever created. A callback is two steps, `Report` (the test of `stopped`) and
`UpdateService` (the update of the store); `StopRefreshing` is the goroutine
that finds `done` closed, which a refresh may precede.

`NacosRegistry` follows `registries/nacos/config.go` and its client
(`nacos/v1`). `refresh`, `Stop` and `Reload` hold the lock and are one step
each. `Reload` takes nothing back from the client it replaces.

`ConsulRegistry` follows `registries/consul/config.go`. Its goroutine has always
a query outstanding: `asked` is where it was sent, and `query` the configuration
of `Start`, whose datacenter and namespace it keeps asking for after a `Reload`.
The answer makes it refresh in two steps, since only the second holds the lock:
`ConsulSubscribe` subscribes what is new and `ConsulSwap` replaces what is
watched and unsubscribes the rest. `Reload` takes no lock and may come between
them, as may `Stop`. A plan is `held` while `reg.subscriptions`, which is keyed
by the name alone, leads to it; one that another has replaced runs on.

`ServiceEntryStore` follows `registry/store.go` and
`component/service_entry_syncer.go`. A change of the store runs `Update` of the
syncer under the store's lock, so both are one step; within it what is gone is
deleted, and every entry of the store is then visited, in every order. The syncer's map holds pointers: `peers` are the entries
that share one object (all those that one `Update` has read from the cluster
share the variable of its loop), `fresh` whether its resource version is the
cluster's, without which a write is refused.

Outside `src/`: the servers and SDKs, and the API server. A subscription reports
the lists of hosts of a service in order and may skip some, and goes on until
it is taken back. A Nacos client reports an empty list or not; Consul lists a
service exactly while it has hosts, and its plans report an empty list, which
is published as an entry without endpoints.

### Checked

`service_registries` checks:

| property | what it says |
|---|---|
| `TypeOK` | types; the entries that share an object know each other |
| `WatchedIsSubscribed` | what a running registry watches has an active subscription of its present client |
| `EntriesAreOwned` | each entry of the store is one that the `Stop` of a running registry deletes, at the latest once its refresh is through |
| `ImplementsDirectory` | refinement: the store and the cluster implement `ServiceDirectory`, its liveness included |
| `DeletedForCause` | an entry goes only when a configuration does, or when its own subscription reports no host |
| `Converges` | at rest the resources, the registries, the store and the cluster agree |

`ServiceDirectory` promises a mesh three things whatever the order of callbacks,
reconciliations, reloads, failures and restarts: only what a server has offered
for a host is published under it; a change of the cluster is one to what is
published by then; and the cluster catches up. The refinement maps the store to
`published` and the resources in Kubernetes to `served`.

The code has failures it does not make good. `holes` records that one has
happened, until the controller restarts, and each property names those it
excepts:

| hole | what the code does |
|---|---|
| `client`, `fetch` | a `Start` or `Reload` that failed is remembered with its generation: the retry does nothing until the resource changes |
| `subscribe` | a subscription that fails during `refresh` or `Reload` is recorded as watched and never retried, unlike at `Start` |
| `generation` | a resource deleted and created anew between two reconciliations has the generation it had |
| `namespace` | `Reload` to another namespace: Nacos deletes entries under the new keys, and Consul only those of services that the new server lacks, so that entries under the old keys stay |
| `stale` | a callback of a client that was replaced, of a service no longer watched, or that had passed the test of `stopped`, changes the store |
| `tag` (Consul) | `refresh` subscribes without the tags, so the entry has another host than at `Start` and than `site/content/en/docs/reference/registries/consul.md` documents; and when a service's tags change it stops the plan it has just made |
| `datacenter` (Consul) | after a `Reload` to another datacenter or namespace, the refresh still lists the services of the first |
| `overlap` (Consul) | `Stop` or `Reload` between the halves of a refresh: plans made by the first half are lost or belong to the old client, and the second half undoes what `Reload` has set |
| `get` | a read that fails leaves the loop of `Update`: later entries are not recorded, and the periodic sync, which trusts the record, takes them away |

Each exception is needed: without it TLC finds the property violated.

**Bounds.** `MaxEvents = 4` things happen from outside (a resource is written, a
server changes, the controller restarts, a call fails), of which `MaxFaults = 1`
is a failure: enough to create a resource, fail to start it, and repair it; to
create, delete and create anew; to reload and have the old client report. There
is one registry resource. A behaviour has one of four worlds: two Nacos servers
in one namespace, of which the first has two services that come, change and go; one Nacos server with two namespaces;
two Consul servers in one datacenter with one service that also changes its
tags; or one Consul server with two datacenters. `Budget` gives the Consul
worlds three events: a server's change, a creation and a reload, in any order.
The other server of a world may be static, because either can be the one that
is reloaded to. Calls of SDKs and of the API server are the points of failure:
each may fail once. Deadlock is not checked: the system rests when nothing
happens outside. A resource that changes its type is not modelled: the code
then reads the new configuration with the parser of the old kind.

**Fairness.** Weak fairness of the registries' goroutines, which refresh again
and again, and one weak fairness of everything else the system does by itself
together: the worker reconciles, the ticker of `sync` ticks, and clients report
the hosts they have. It is weaker than fairness of each and suffices, because
none of those changes anything for ever without the others; a Consul registry's
refresh does, and has a condition of its own.

### Proved

`ServiceRegistriesProofs`, on the lemmas of `ServiceEntryStoreProofs`, proves for
any number of registries, configurations, services, keys, events and failures:

| theorem | statement |
|---|---|
| `Invariance` | `Spec => []IInv` |
| `TypeCorrectness` | `Spec => []TypeOK` |
| `WatchedSubscribed` | `Spec => []WatchedIsSubscribed` |
| `EntriesOwned` | `Spec => []EntriesAreOwned` |
| `DeletionsHaveCauses` | `Spec => DeletedForCause` |
| `DirectorySafety` | `Spec => Directory!Init /\ [][Directory!Next]_(Directory!vars)` |

The assumptions: the hosts are finitely many (an update visits each), a key is a
tag and a service, `Host` yields one of the hosts, `Asked` a server of the same
world, the bounds are numbers, and the servers of a world are of one kind, since
a resource keeps its type. The run evaluates each of them.

*The store.* An `Update` is a recursive function of how many entries it has
visited, and each of its branches has a lemma. Two things are said of what it
reaches. `StoreOK` holds always: the entries that share an object are entries
the syncer has. `Mirrors` holds while no read has failed: the syncer has exactly
the entries of the store, with an object of its own for each and with its
specification. Objects are shared only by entries which one `Update` has read,
and `Mirrors` lets it meet one unknown entry at most (`AtMostOneNew`), so the
variable of the loop is read into once; a read that fails ends both (`get`).
From `Mirrors` follows that whatever `Update` or `sync` write, and whichever of
those writes fail, each host of the cluster stays as it was or becomes what the
store has (`Becomes`).

*The registries.* `IInv` has, besides types,

* `OneRuns`: at most one object of a name runs; what `DeleteRegistry` stops is
  all there is.
* `SubsInv`: a subscription is not of a later client than its object has; one of
  the present client has its configuration; and a callback under way is about
  to store a list that its server has had. So `EntriesAreOwned` may look at the
  present configuration alone, and what is published was offered.
* `WatchedInv`: not only what is `watching` is subscribed but also what the first
  half of a Consul refresh has found (`next`), and no service is in both under
  different tags: `ConsulSwap` unsubscribes by name and would stop a plan that
  the first half has made.
* `OwnedInv`: each entry has an object that runs and knows its key, as watched,
  soft-deleted, or found.

Each step then is one of five: one registry changes, or is added; none does, but
perhaps the subscriptions and the store; the servers change; or all is lost
(`ChangeStep`, `AddStep`, `NoChangeStep`, `ServerChangeStep`, `RestartStep`). One
lemma for each action of the two kinds says which. For the action
property and the refinement, `StepStores` sorts the same steps by what they do
to the store: nothing, deletions with a cause, what a callback puts, a sync, a
restart, or a change of the servers alone.

`IInv` and `Mirrors` were checked with TLC on the instance of the run first.
Left to TLC: `Converges` and the liveness half of `ImplementsDirectory`, that
the cluster catches up.

## 6. Filter policies

### Correspondence

`FilterPolicyReconciler` follows `filterpolicy_controller.go` and
`diffGeneratedEnvoyFilters` of `component/k8s.go`. `api` is what the API server
has, `watch` the changes the informer of each kind has not seen, `cache` its
copy; `efs`, `efWatch` and `efCache` are the same for the EnvoyFilters. Every
`Reconcile` goes through all policies, in phases:

* `Begin` lists the policies and replaces the index of routes;
* `ResolveNext` resolves one policy against the copies of its target and, for a
  route, of its gateways (`GetFails` is an error other than NotFound: the
  reconciliation ends without an output);
* `Finish` adds the policies embedded in annotations and, if listeners are
  configured by ECDS, the gateways, and replaces the index of gateways;
* `Output` translates and writes what differs from the informer's copy of the
  EnvoyFilters: deletes, creates and updates, each of which may fail or be
  refused, with those before it done;
* `KeepStatus`, `WriteStatus` and `StatusFails` go through the statuses, and
  `Rest` ends.

`Observe` delivers one change of a watched kind to the informer and asks for a
reconciliation when the predicate and the indexes say so. `Restart` forgets
everything but the cluster.

`PolicyTranslation` has the four states of `internal/translation` as pure
operators: the init state (which policy is for which route, section and virtual
host), the data plane state (hosts of gateways and routes matched, wildcards in
either direction), the merged state (precedence by scope, age and name) and the
final state (the EnvoyFilters by name). Both APIs are modelled: VirtualServices
with Istio gateways, and HTTPRoutes with gateways of the Gateway API, sections
and listeners.

Abstracted: one namespace; a port stands for number, bind address and
protocol; a filter's configuration is a number per plugin; `valid` is the
result of validation (that of the Gateway API's own resources, which are never
invalid, included); the contents of a patch are the host, the route and the
configuration.

### Checked

`FilterPolicies` defines what is to be enforced from the resources alone,
without the states of the translation: hosts overlap when some domain name is
covered by both, and the configuration of a plugin on a route is that of the
policy which nothing precedes. `filter_policies` checks:

| property | what it says |
|---|---|
| `PolicyTypeOK` | types; nothing of a reconciliation is left after it; informers that have seen everything have what there is |
| `Enforced` | at rest, the EnvoyFilters are exactly those the resources ask for |
| `StatusIsTrue` | at rest, the condition of a policy says what became of its current generation |
| `WatchesDependencies` | at rest, the resources a policy depends on are indexed, the invalid and the absent ones too |
| `UndisturbedStays` | what is enforced stays so while no user writes: failures, restarts and retries with old copies take nothing away |
| `Converges` | the controller comes to rest |

Four things the code misses are recorded in `holes` and excepted by name:

| hole | what the code does |
|---|---|
| `gateway` | a gateway's change that is seen between its Get and the new index is dropped, as the index in force does not name it yet, and the reconciliation under way has read its old state |
| `output` | an EnvoyFilter that equals the informer's copy is left alone, although the copy is older than the last write; one that is not in the copy is not deleted |
| `orphan` | a controller that starts after the last policy is gone is asked for nothing: old EnvoyFilters stay |
| `status` | a status that equals the one in the list is not written, although the list is older than the last write |

`Enforced` says nothing of a virtual host that two resources share, nor of a
port that two sections share: there the order of a map decides. Nor does it
while there is a resource that the translation takes for something else
(`Misread`): a route resource without routes, whose virtual hosts other
resources join; an HTTPRoute that names a section and several gateways, because
`toDataPlaneState` looks for each section in all of them; a gateway with two
servers of one name on different ports. Read from the
code and in no property: `addVirtualHostToProxy` keeps one map of routes for all
virtual hosts of a resource; `policyToTranslationState` appends to the indexed
slice after `UpdateIndex`; an annotation written by the merge
(`htnn.mosn.io/info`) is not refreshed, because only specifications are compared.

**Bounds.** `MCClusters` has five clusters, each with what it may still spend: a
gateway that becomes valid or invalid (two writes); two policies and an
annotation on one VirtualService; an HTTPRoute with a gateway of two listeners;
a gateway with a policy for one listener, and one with a policy and an
annotation, both with listeners configured by ECDS. Writes are one or two,
failures and restarts none to two, because the interleavings of a write with
the informers and with the steps of a reconciliation multiply. The domain names
are six: an exact name, its parent, a sibling, a child, a grandchild and an
unrelated one, so that each way two hosts may overlap or not occurs. Deadlock is
not checked: the system rests.

**Fairness.** Weak fairness of the reconciliation and of the informers. Users,
failures and restarts have none.

### Proved

`FilterPoliciesProofs` proves, for any policies, routes, gateways,
specifications, writes, failures and restarts that satisfy the assumptions:

| theorem | statement |
|---|---|
| `Invariant` | `Spec => []IInv` |
| `PolicyTypesHold` | `Spec => []PolicyTypeOK` |
| `DependenciesAreWatched` | `Spec => []WatchesDependencies` |
| `StatusesAreTrue` | `Spec => []StatusIsTrue` |
| `EnforcedHolds` | `Spec => []Enforced` |

The assumptions: there are finitely many names, and none is of two kinds
(`NamesAssumption`); specifications have the types of the API, and validation
lets through what `SpecsAssumption` and `SectionsAssumption` say (a policy for
an HTTPRoute has no sections, which is `ValidateFilterPolicy`; a VirtualService
has routes and a gateway servers, which is Istio's own validation; gateways of
the Gateway API are never found invalid, as nothing validates them); policies
have an alphabetical order in which `embedded`, the name that the code gives to
what is embedded in an annotation, is no policy's (`AlphabeticalAssumption`);
and each host covers one of the domains of the instance (`DomainsAssumption`),
without which `Overlap` would not mean that two hosts overlap.

The properties speak of a controller at rest, and at rest nothing is left of the
reconciliation that came before. `IInv` says what the controller knows while it
works:

* `Synced`, `OutputSynced`: the changes on their way to an informer lead from its
  copy to what the API server has, one generation after the other. So a
  controller at rest has up-to-date copies.
* `Listed`: unless a reconciliation is asked for again, the policies that were
  listed are those of the informer's copy, with the same specification: only
  statuses may have changed, which the predicate of the watch ignores.
* `RoutesWatched`, `GatewaysWatched`, `RoutesResolved`: the target of each policy
  is indexed, and so are the gateways that a policy which has been resolved
  depends on, in the index in force or in the one to come. The first needs the
  index to be replaced before routes are read, which `Begin` does; the second is
  what fails between a gateway's Get and the new index, hence `holes`.
* `StatusesComputed`, `StatusesWritten`: a status that has been computed is the
  `Verdict` on the copies as they are now, although they were read earlier,
  because every change that would make a difference has asked for a
  reconciliation; a status that has been written is that of the API server,
  unless a newer generation is on its way.
* `JudgedRight`, in the types: the condition `Invalid` of the current generation
  is that of a policy without a target or with an invalid one, so that
  `KnownInvalid` may be believed in any later reconciliation, after a restart
  too.

An event is either `Ignored` or asks for a reconciliation, and one lemma says that
what is ignored leaves each verdict as it is. `IInv` was checked with TLC on the
instances of the run first.

`EnforcedHolds` rests on a second invariant, `CInv`, and on the translation:

* `Collecting`: unless a reconciliation is asked for again or a gateway's change
  was missed, the init state holds, of the policies resolved so far, what they
  give the routes and the servers *as they are now*, each route with its gateways
  to be used. After the last policy, `Finish` adds the annotations and then each
  gateway, so that every port asked for has a listener, and the init state is
  `Complete`.
* `EmbeddedWatched`: the gateways of a VirtualService with an annotation are
  indexed. Without it, what is collected for an annotation could be outdated by a
  gateway that nobody watches.
* `Enforcing`: between reconciliations the EnvoyFilters in the API server are those
  that `Process` generates from some complete init state, unless `holes` says what
  was missed. After a restart that asks for nothing, that is the empty one.

`CompleteIsCorrect` says, of the translation alone, that what is generated from a
complete init state is `Correct` once the copies are up to date. Its parts:
what `hostMatch` matches, one label after the other, is what overlaps in the sense
that both cover a domain (`Domains`, hence `DomainsAssumption`); the order in which
policies are merged (scope, age, name) lets `Wins` decide, for any finite set of
policies of which each counts once per scope; the virtual hosts of an init
state are those asked for, with the routes of the one resource that owns them;
`AddGateways` gives a port to the first section that asks for it, and a section
whose port is its own hears exactly the policies for it.

Left to TLC: `Converges`, which is liveness, and `UndisturbedStays`. The latter is
a safety property and could be proved: it needs the invariant in a form that also
holds while a reconciliation that read an up-to-date cache runs with a new request
queued, and that form is not proved yet.

## 7. AI content security

### Correspondence

`StreamModeration` follows `plugins/aicontentsecurity/filter.go`, with
`ContentBuffer` for `contentbuffer/content_buffer.go` and `SSEParser` for
`sseparser/sse_parser.go`. The two buffers are records, and each method an
operator from one record to the next; offsets are relative to a buffer that is
cut, as in the code, and `base` (history) counts what was cut, so that
properties can name a character or an event for ever.

A handler is a sequence of steps, so that streams interleave where they share
the extractor: `Receive` (`DecodeData`, `EncodeData` or `EncodeResponse` up to
the first `SetData`), `Parse` (`TryParse` and `SetData`), `Extract` (the read
that follows), `Char` for each character and `Counted` for the end of `Write`,
`Collect` (`Flush`, `GetCompletedResult`, `Consume`), `Moderate` (all chunks at
once, each with any answer) and `Release`. A body that is one document goes
through the same steps without `Parse`.

What arrives is cut into frames in every way, within an event too: an event is
two parts. A content is its length; an event without content, or with a
payload that is not JSON such as `[DONE]`, has length 0.

### Checked

`stream_moderation` checks, over the worlds of `MCStreamModeration`:

| property | what it says |
|---|---|
| `TypeOK` | the parser's offsets and boundaries fit its buffer, and the chunk under construction is shorter than the limit |
| `ReleasedPassed` | each character of what has left lies in a chunk that was allowed |
| `InContext` | any two of its characters not further apart than the overlap were in one allowed chunk |
| `Delivered` | a message nobody refuses arrives as a whole; a refusal or a panic has one of the causes named |
| `HeldForCause` | between frames, an event that is held back ends in what is not moderated yet, or will be moderated again |

What the code does and these properties except, each by name:

* `spare`: `Flush` adds the events of the overlap to the current ones and
  `startNewChunk` then keeps them for the next chunk, so they are counted
  twice. The buffer is the request's and then the response's. A request whose
  content ends within the overlap leaves one event counted that the response
  does not have: an event of the response leaves before its last characters
  were moderated, or `Consume` is called where there is no boundary and indexes
  with -1, a panic.
* `foreign`: the extractor belongs to the configuration, and `SetData` and the
  read that follows are two calls without a lock: a stream may read another's
  document.
* `EmptyTail`: without an overlap, an event without content that ends the
  stream in the frame that fills its last chunk exactly (`[DONE]`) is counted
  with a chunk that never comes, and is lost.
* `trailers`: the end of a message that ends with trailers reaches neither
  `DecodeData` nor `EncodeData`, and the plugin has no hook for trailers. What
  is held back is lost; a request's body that stays in `bodyBuffer` comes before
  that of the response, which is then refused as invalid.

**Bounds.** Limits of 2 to 4 characters with overlaps of 0 to 3, contents of up
to 5 characters in up to three events: they fill a chunk exactly, cross one or
two, end in the overlap, and are empty at the front, in the middle and at the
end, after requests that leave the buffer empty, full or within the overlap.
Two streams share the extractor in three worlds. Deadlock is not checked: a
stream ends.

**Fairness.** None is needed: the properties are about safety.

### Proved

`StreamModerationProofs` proves, for any set of streams and of worlds (limits,
overlaps, contents, frames) that satisfies `WorldsAssumption`:

| theorem | statement |
|---|---|
| `Invariant` | `Spec => []IInv` |
| `TypeCorrect` | `Spec => []TypeOK` |
| `OnlyAllowedLeaves` | `Spec => []ReleasedPassed` |
| `ModeratedInContext` | `Spec => []InContext` |
| `HeldOnlyForCause` | `Spec => []HeldForCause` |
| `EndsForCause` | `Spec => []Delivered` |

The assumption: the limit is positive and the overlap smaller
(`CustomConfig.Validate`, which only the data plane calls: `Config` of the type
registered in the control plane returns a `Config` that is not checked for it),
a message that is not sent as events has at most one content, and only a
response has events. That the overlap is not negative nothing validates; a
negative one is not modelled.

`ReleasedPassed` speaks of what has left, and nothing in it says why the next
event may leave. `IInv` says that of each stream, in ten parts:

* `Content` and `Parser`: the two buffers are well-formed. What the chunk being
  built has is what follows the last one, less the overlap; without a finished
  chunk no event counts as completed; the boundaries the parser remembers are
  those of the events after `parsedOffset`, so `Consume` moves by whole events.
* `Covered`: any two characters no further apart than the overlap lie together
  in a chunk that is allowed, submitted or finished, up to the chunk being
  built *and* the overlap it repeats. This is what a full chunk preserves: of
  two such characters either both precede that point, or both lie in the chunk
  that ends. A flush covers the rest and leaves no overlap.
* `Streamed`: each event that was written is consumed or counted exactly once,
  as completed, of the current chunk or of the overlap; those that count as
  completed end in what is covered. So `Consume` never consumes more than was
  moderated. This is where `spare` must be 0: it is the one way in which the
  counts get ahead of the events.
* `Spans`: what was written lies where the message began or later, and within
  what the buffer holds; a response begins where the request's content ended.
* `Whole`, `Request`, `Arrived`: the same for a document, which leaves when its
  handler ends; nothing of the response happens during the request; no more
  arrives than there is.
* `Where`: what each control point knows, such as that chunks are retrieved
  before a handler ends, and that a handler of a document has seen all of it.
* `Sent`: what has left is covered by chunks that were allowed.

A lemma for each method of the two buffers says what it preserves, and one for
each action that it keeps `IInv`; `StepOfOne` adds that a step of one stream
leaves the others as they are, although they share the extractor: what it may
then hold is in no part of `IInv` but its type, so the theorems do not depend on
it.

`IInv` bounds what leaves from above. The last two theorems bound it from below,
for which two more invariants are proved, each on top of `IInv`:

* `Held`: no finished chunk reaches further than the overlap of the one being
  built; of the events that are counted and not completed, each ends in the
  chunk being built, and each that is counted for its overlap ends where the
  next chunk begins, or later; and no event is written that is neither consumed
  nor counted. So an event that has not left is counted, and ends where
  `HeldForCause` says. It holds with events left over from the request, too:
  they can only let more leave.
* `Due`: without an overlap, chunks begin at multiples of their length from
  where the message does, and an event that is counted where a chunk begins has
  no content (`Regular`); with one, a finished chunk is repeated (`Repeats`).
  Hence the last `Flush` completes every event, or leaves what `EmptyTail`
  describes. `Ending` carries that to the end of the message, `RequestDone`
  what the request left behind, and `Accounted` why a stream has ended. That a
  panic of `Consume` needs a spare count follows from `Streamed`.

### Not modelled

The bytes: how the terminator of an event and its lines are found, and
characters that are not valid UTF-8; the identifiers sent with a chunk; a
response that starts while the request's handler still waits for the moderation
service, which shares the buffers with it; an event that is cut off by the end
of the stream.

## 8. Not modelled

* Dynamic configurations, `Parse`, `Merge` and `InitOnce`, the
  token limiter: on the plan.
* `HTTPFilterPolicy`: listed and converted with the policies, but never watched
  (`SetupWithManager`), and otherwise like a FilterPolicy on a gateway.
* The other plugins: each is one or two hooks around a library or a remote
  service; what they may answer is `FilterManager`'s choice.
* Filter wrappers (metrics and debug mode), the file watcher, test harnesses.
* The generated code, about half of the lines of the repository's
  implementation: protobuf messages with their validation, clients, deep
  copies. It has no behaviour of its own, and the rest of what the map leaves
  out is mostly such data, formatting, and glue to Envoy, Istio and Kubernetes.
