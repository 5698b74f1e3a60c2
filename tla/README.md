# A formal model of real_api_server

TLA+ modules, TLC configurations and TLAPS proofs about the ad server in this
repository. Paths below are relative to `src/` of the repository; `File.go:n` is
a line of it. `PROJECT.json` maps every definition to the lines it models and
lists runs, mutants, hazards and theorems in full; this file explains them.

1. [The system](#1-the-system)
2. [Modules](#2-modules)
3. [What each module says](#3-what-each-module-says)
4. [Runs, bounds and results](#4-runs-bounds-and-results)
5. [Fairness](#5-fairness)
6. [Proofs](#6-proofs)
7. [Disagreements with the code's own words](#7-disagreements-with-the-codes-own-words)
8. [Only model-checked, and not modelled](#8-only-model-checked-and-not-modelled)
9. [Plan](#9-plan)

## 1. The system

`worker.go` is the process: it starts the retrieval service and the status pages;
`tworker_guard.go` starts the process again when it ends. Everything lives in the
memory of one process; what outlives it are two gob files of the publisher tables,
the user's counts in redis, and the buckets in S3. Handlers run in goroutines of
their own and meet the loops in shared variables.

At this commit `main` calls `Init` of `aes`, `util` and `real_api` only. The services
`update` and `tpl`, the `Init` of `subscription`, `click_counter`, `ios_pmt`, `cpt`,
`rank` and `cache`, and `click_counter.AddClick` have no caller outside their
packages. They are modelled as their code stands, that is as started.

| component | source | state | operations | meets |
|---|---|---|---|---|
| request handlers | `retrieval/*.go` | per request | about twenty HTTP handlers: context, slot, caps, search, rank, render, count | index, tables, pacing, redis, status |
| offer index | `update/` , `raw_ad/raw_ad.go` | the index in use and the one being built | a loop: channel status, list folders, download, parse, publish | S3, handlers |
| publisher tables (ssp) | `ssp/`, `tpl/tpl.go` | app store, slot store, configuration, gob files | a loop: fetch, save, derive brothers, publish; handlers read and write slots | S3, disk, handlers |
| pacing | `pacing/`, `retrieval/service.go` | two controllers (clicks by offer and minute) | `OverCap`, `Add`, replacement by a ticker | handlers |
| frequency caps | `http_context/`, `cache/` | redis hashes per user | `GetFreq`, `IncrPreClickFreq` | handlers, tracking service |
| status sampling | `status/ctrl.go` | status, countdown, ticker, reset channel | page requests, a chain of three goroutines | handlers (`SampleSwitch`) |
| status reports | `status/report.go` and others | ring of reports by minute | visit, record, prepare, encode, clear | handlers, timer |
| S2S callbacks | `tpl/s2s_heap.go`, `tpl/s2s_callback.go` | heap of retries | accept, call, push back | publishers' servers |
| request statistics | `retrieval/statistic.go` | counters per kind of handler, and a total | increment, `QpsStat` | handlers, ticker |
| ranking | `rank/`, `rank/video/` | none | choice and order of offers, and a choice without the service | rank service |
| offers | `raw_ad/`, `offer/` | records, shared by all requests | parsing, targeting, choice of creatives, ten renderers | index, handlers |
| click counter | `click_counter/` | map of clicks | `AddClick`, post | handlers |
| download manager | `store/s3.go` | set of running downloads | test, mark, download, unmark | update loop |
| subscriptions | `subscription/`, `util/traffic_divider.go` | a divider per country | fetch, build, draw a provider | handlers |
| iOS packages | `ios_pmt/` | switches, bundle lists, the shared random source | download, publish, `/iconf/get` | handlers, publisher tables |
| the rest | `affiliate`, `dump`, `aes`, `vast`, `auto_cat`, `ct_bloom`, `set`, `cpt`, ... | little or none | I/O, text, tables | |

What is hard, and what makes each part correct:

* **Sampling controller.** Four kinds of goroutine share a status, a countdown, a
  ticker and an unbuffered channel under one read-write lock, and every page request
  of an idle controller starts another chain. Correct: one chain at a time owns the
  phase, phases follow in order, no `FATAL` assertion fails, a started sampling ends.
* **Reports.** Double-checked locking on a ring whose slots are reused, a timer that
  clears two slots ahead, and records that arrive late. Correct: minutes are not
  mixed, one report per slot and minute, and nobody is recorded in a prepared report
  within its own minute.
* **S2S callbacks.** Lock per operation rather than per decision, retries, and a heap
  whose top is read at the wrong end. Correct: never before its time, at most four
  attempts, everything accepted ends delivered or given up.
* **Offer index.** Published without a lock, read by position, rebuilt from a bucket
  that changes and from downloads that fail. Correct: what a request looks up is what
  it searched; withdrawn offers leave; a failure costs one file.
* **Publisher tables.** Two tables derived from each other in the wrong order, two
  global pointers, two files, crashes, and handlers that write to the published
  slots. Correct: once the tables are quiet the program serves them.
* **Handlers and statistics.** Sixteen sequences of gates that differ in small ways, and
  counters that a sampler overwrites. Correct: nobody serves a closed slot, and the
  counters can be read as a balance.
* **Selection and rendering.** Requests render the same published objects, partly by
  copies that share slices with them. The filter of a search and the renderer ask for different things, and a reply of
  the rank service is taken as it is. Correct: an answer carries the arguments of its own request, tracks what it shows
  and is of offers that were found; what a search keeps can be shown, with exceptions that are known.
* **Clicks, subscriptions, iOS.** State that is replaced under those who use it, and a
  random source that is reseeded. Correct: clicks are conserved, providers are drawn by
  their weights, and no client gets what crashes it.
* **Pacing and caps.** Asked in one place and counted in another, with a search and a
  ranking in between. Correct: the overshoot is bounded by the requests in flight, and
  a count is kept under the key that was asked.

## 2. Modules

| module | what it is | extends / instances |
|---|---|---|
| `SampleCtrl` | `status/ctrl.go` | |
| `SampleCtrlProofs` | invariant and seven theorems | `SampleCtrl`, TLAPS |
| `StatusReport` | the ring of reports | |
| `StatusReportProofs` | two invariants and five theorems, one of them about the reports next to the handlers | `MCRecords`, `HandlersProofs`, TLAPS |
| `BinaryHeap` | `container/heap` as operators (external code) | |
| `CallbackQueue` | abstract queue: attempts, delivery, giving up | |
| `S2sHeap` | the retry heap and its loop | `BinaryHeap`; implements `CallbackQueue` |
| `Handlers` | the gates of sixteen handlers, the statistics and `QpsStat` | |
| `HandlersProofs` | invariants of the lines, the requests and the balance; four theorems | `Handlers`, TLAPS |
| `OfferIndex` | the update loop, and the handler's use of the index | |
| `Rendering` | selection (`rank`, `rank/video`) and rendering (`raw_ad`) | |
| `ClickCounter` | the click counter | |
| `Subscription` | the dividers of the providers, and drawing from them | |
| `IosPmt` | `/iconf/get` and the loop of the bundles | |
| `SspStore` | `updateApps`, its files, and two kinds of handler | |
| `SspStoreProofs` | invariant and four theorems | `SspStore`, TLAPS |
| `Pacing` | both controllers and the handlers that use them | |
| `PacingProofs` | two invariants and eight theorems | `Pacing`, TLAPS |
| `Frequency` | redis caps and the order of ten handlers | |
| `FrequencyProofs` | two invariants and five theorems | `Frequency`, TLAPS |
| `MCRecords` | `Handlers` and `StatusReport` in one instance | both |
| `LoopsProofs` | `container/heap`, the queue and its refinement; the index: two invariants and nine theorems | `MCLoops`, TLAPS |
| `SharedProofs` | clicks; versions as strings and the dictionaries; draws by weight; selection and rendering: four invariants and eight theorems | `MCShared`, TLAPS |
| `MCLoops` | `S2sHeap` and `OfferIndex` in one instance | both |
| `MCShared` | `Rendering`, `ClickCounter`, `Subscription` and `IosPmt` in one instance | all four |
| other `MC*` | small instances for TLC | the module named |

`MCRecords`, `MCLoops` and `MCShared` check components that share no state in one run: a
variable `part` says of which component a behaviour is, and the variables of the others
keep their initial values.

A goroutine is a program counter; a critical section is one action, as are
statements between which no other goroutine can tell the difference. A pointer is a
model value and the heap a function, so that two variables may hold the same object.
Errors of S3, disk, redis and publishers are nondeterministic. Operators whose name
extends that of another (`OverCapOtherKey` beside `OverCap`) are plausible bugs:
putting one in the place of the original makes the property named in `PROJECT.json`
fail, which shows that the property depends on the code.

## 3. What each module says

### SampleCtrl

`sampleStatus`, `remainSec`, `ticker`, `reset` are the fields of `ctrl`; `writer` and
`hold` are the lock, with Go's rule that a waiting writer turns readers away. A page
request is `callStatus`, then `getSampleStatusNo/Wait/Done` inside the read lock, with
`resetSample`, the blocking send; an ad request is `callSwitch`, `SampleSwitch`. The
chain `readySample -> doSample -> doneSample` is one sampler with a phase and a point
(lock, begin, tick, reset...); `Tick` is `time.Ticker`, whose channel holds one tick.

* `NoPanic`: neither the assertions of `ctrl.go` nor a send on a closed channel.
* `StatusHasOneSampler`: every status but "No" has exactly one chain that will end it.
* `SenderHasReceiver`: who blocks on the channel blocks on the one the running phase reads.
* `WaitNotNegative`, `PhaseOrder`: the countdown shown, and the order of the phases (proved, not run).
* `SamplingCompletes`: "Ready" leads to "Done".
* `OnlyResetCycleHangs`: the one way to hang for ever is the cycle of section 7.

### StatusReport

`reports` is the heap of reports, `slots` the ring, `inited` the flags that `visit` reads
without the lock. `visitQuick`, `visitLock`, `visitRetrieval`, `visitPhase` are the steps
of double-checked locking; `recordRequest` and `recordPhase` a request that ends;
`preReport`, `encode` the page; `sweep`, `clearInited`, `clearRetrieval`, `clearPhase` the
timer. `MaxDelay` is how late a record may be.

* `NilOnlyWhileVisited`: a nil report is seen only while the visit that makes it runs.
* `ReportOfOneMinute`: a report only counts requests of its own minute, and no more phases
  than requests.
* `OnlyLateMeetPrepared`: whoever writes a map that was released, or one that is being encoded, is late: the
  minute of its request is over. Within the minute nobody meets a prepared report, although any page may ask for
  the report of any slot that is not the current one.

### BinaryHeap, CallbackQueue, S2sHeap

`heap` is the slice, `stage` the life of a callback, `serve` the place of the loop `Serve`. `S2sCallback`
is the HTTP handler; `Pop`, `Callback`, `CallbackOk`, `CallbackFailed`, `PushBack` the loop, which
takes the lock for `Top`, `Pop` and `Push` separately; `ServeOuter` sleeps when the *last*
element is not due, as `Top` does. `up` and `down` are written from
`container/heap`; their loops are the recursive functions `Rise` and `Sink`. `Push`
models that `cbHeap.Push` may decline an item and `container/heap` calls `up` all the same.

* `HeapConsistent`: heap order, no duplicates, and exactly the queued callbacks; and `Serve` never pops an empty
  heap, although it looks and pops under two locks.
* `KeepsPromise`: refinement. With attempts counted from `fails`, `S2sHeap` implements
  `CallbackQueue!Spec`: an accepted callback is attempted until it is delivered or has
  failed often enough, and not once more.

### OfferIndex

`bucket` and `s3` are the bucket and whether it answers; `loop`, `folder`, `todo`, `keys`, `batch` the
update loop with its two nested walks (`batch` maps the lines of the downloaded file that it has still to add to their offers); `index` the heap of handlers; `published` the one
`dnf.GetHandler` returns; `at`, `kind`, `handler`, `docs`, `hits`, `by` a request. Its handler is of one of five
kinds (`HandlerKinds`): promotion; those whose filter drops the offers of `tmp_test` (realtime, appWall, pagead,
interstitial, videoCreative), those whose filter takes them (wugan, life, the other videos, the jstags), and
`retrievalHandler`, whose first search drops them and which then asks `cpt` or, for wugan without an offer, searches as
fuyu does; neither of these looks at `tmp_test`. `cpt` searches the handler published by then, not the request's own. `PreProcess` and `AddToDnf` are
the rules by which an offer is indexed. `sure` and `seen` are histories of a round: what was
surely downloaded and all that was read.

* `PublishesTheBucket`: a round publishes every offer whose file it could read, and nothing that
  had left the bucket before the round began.
* `ServedAsSearched`: looking up the positions gives the offers that were found, and these are bound by the
  filter of the search that found them: `tmp_test` reaches no handler that drops it, and `retrievalHandler` only
  through `cpt` or fuyu; an offer that is held back reaches promotion, or a request through `cpt`. The one exception is a
  request for which `cpt` searched a newer handler than its own: it may answer with any offers, or panic.
* `FinishedIndexFrozen`: a handler in use is only written while it is being filled.
* `RemovedOfferLeaves`, `StayingOfferArrives`: what leaves the bucket for good stops being
  offered even if nothing can be downloaded any more; what stays and can be downloaded is offered.

### SspStore

`app` and `slotSwitch` are the tables in the bucket; `appFile` and `slotFile` the gob files, `Nil` when
torn; `appStore`, `slotStore` the locals of `updateApps`; `gAppStore`, `gSlotStore`, `Manager`,
`lastApps` the globals; `heap` the slot stores, each slot an object with its switch, its cached
number and its brothers. One round is `updateApps, saveApps, updateSlots, saveSlots, genBrothers,
SetGlobalSlotStore, SetGlobalAppStore, GenAuxiliaryGlobalConf`. `Crash` may happen at any step;
`LoadFromFile` uses what decodes. `tlAllHandler` and `wuganHandler` write to the slots they took
(`GetAllSlotInApp` closes, `GetPreNum` caches).

* `SlotsBeforeApps`: whoever sees apps sees slots.
* `AtMostOneRoundOld`: what is derived from the app table comes from this round or the last.
* `Settles`: when the tables are quiet the program ends up serving exactly them.

### Pacing

`heap` maps a controller to its kind, its share and its counts; `pc` and `fuyuPc` are the two
pointers; a request has its place, the minute it began, the controller it will add to (`ctl`)
and the one it asks (`chk`). `NewPacingController` divides by the size of the fleet or, when AWS
fails, by the default. `Tick` lets old minutes expire, as `gotools.ExpiredMap` does.

* `OvershootBounded`, `FuyuOvershootBounded`: a count is at most its threshold plus one for every request.
* `FuyuCountedApart`: a request that renders fuyu ads never adds to the ordinary controller.

### Frequency

Each handler is a sequence of the steps that touch the ad type, the slot or redis, in the order of
its source; "refuse" stands for the tests in between that answer without an ad. `pfreq` and `ttl` are
the hash of pre-clicks and its expiry, `complete` the videos watched, which the tracking service
counts. `key`, `capped` and `watched` are what `GetFreq` brought. `IncrPreClickFreq` computes the expiry from the clock
(`expire`); `IncrFreq` is the arrival of the `HINCRBY`s and the `EXPIRE`, of which a broken connection leaves any beginning,
and the clock may move between the two (`delayed`). `given`, `blind`, `lost`, `loose` and `over` are
histories: pre-clicks given, those given without asking, lost writes, whether the counts came without an expiry or with a late
one, and slots that were at their cap when the request read.

* `PreclickBounded`: a package is pre-clicked at most once per request in flight, per request
  that could not ask and per lost write.
* `EndsWithTheDay`: at midnight the counts are gone, unless no `EXPIRE` came with them or the last that came was
  computed before the clock moved (`loose`). Both do outlive the day, and a pre-click of the next day then renews the
  hash with the old counts in it; this is what the code leaves open, and nothing else does.
* `CapsAsKeyed`: handlers before v4 hold an ad against the counts of the type they show
  (`CapOfServedType`), and a client that names the type and slot it gets is held to the cap
  (`CompletesCappedAsAsked`).

### Handlers

A handler is a sequence of gates in the order of its source (`retrievalGates`, `wuganAnswer`, ...). A gate
has what is checked, the counters that move when it fails, and what becomes of the request then: it is
answered, answered without being counted, goes on, or the handler panics. `index` and `slot` are what
`dnf.GetHandler` and the slot table return now; a request keeps the values of its own look-ups, so they
may be replaced between any two gates. `QpsStat` is four steps, one for each access to a shared
counter: two loads, the store that overwrites `TotalReq`, the line that is logged, and the value that is
remembered. A request without a context, which `WriteTo` of some answers dereferences, is a panic
(`NoCtx`); `net/http` recovers it.

* `StatisticsAddUp`: requests that came in are those with an outcome, those being handled, and those
  that a panic or one of the uncounted answers took; impressions are the answers with ads.
* `ClosedServesNothing`: a slot that was closed all the time a request ran serves it nothing.
* `QpsAddsUp`: the lines that are logged add up to what was counted, but for additions that fell into `QpsStat`.

### Rendering

A request searches with the filter of its handler (`Found`), selects (`randomCopy`, `RandCopy`, the rank
service or its failure), has two arguments appended to each offer (`AttachEstimate`, `AttachPayout`),
and renders offer by offer in two steps: `Show` draws the creative and writes it to the object, `Track`
makes the links. `pub` is the `CreativeChosen` of the published objects, which only the page of the jstag
writes to, because it renders them in place; `spare` is the memory behind the end of their `AttachArgs`,
which appending to a copy would write to if there were room. `Kinds` says how each handler filters, selects and
renders. Creatives are records with a language, a ratio and an area. `InOrder` are the offers of a set in the order
they were found in, `Orders` and `SomeOf` what a shuffle makes of them.

A reply of the rank service is any sequence of offers that were found (`Replies`): `rank.go` matches each line with all
that was found, up to the total that the reply itself states. `reply` remembers whether it was as asked (`AsAsked`): of
different offers, of those it was told of, and not more than asked for. `SelectWg` does not tell the service of the white
offers and puts them first, or returns nothing when the total is zero.

`Adapters` are what a page ad of a size may be made of, sets of parts; a part of no size (`i_0x0`, `cat` "none") matches
whatever the offer has and shows nothing. The pictures of an offer are in a map whose keys are languages or countries; a list may
be empty, and `ToJsMediaAd` takes that of the client's country first, so that an empty one makes it panic (`NoneForCountry`).

* `AnswersAreSound`: the offers of an answer were found by its search, and unless the reply was something else than asked,
  each is there once, and at most one more than asked for; its links carry its own arguments; what it tracks is what it
  shows; and what a search keeps is shown. That last part (`FoundIsShown`) holds of realtime, video, videov4Native and
  interstitial without exception; a page ad shows nothing only if an adapter of its size asks for nothing, and the media of the
  jstag panic only for an empty list of the country. All these exceptions are reached in the run. Of the other kinds it is not claimed.
* `VideoAnswered`: a rewarded video is answered even if the rank service never is.

### ClickCounter, Subscription, IosPmt

`ClickCounter` is the map under the lock, the map that is being posted, and histories of the clicks added,
accepted and lost. `Subscription` fills the divider of a country entry by entry (`Filled`, `AddObj`), compiles it and draws from it (`SearchFloat64s`),
where `rand.Float64` returns one of `Draws` equally distant numbers; weights are natural numbers, so what `float64` rounds is left out. `IosPmt` has the process-wide
random source, which `textDecrypt` seeds and draws from in two steps while other handlers draw, the
versions, compared as strings or as numbers as the code does, and the download of the bundles.

* `ClicksConserved`: every click is in exactly one of four places.
* `ProvidersByWeight`: of all draws a channel gets its part by weight, give or take one draw for each of its entries; a request is served from one configuration, and
  its handler panics only when the weights of the country are all zero.
* `OldSdkSafe`: no client gets the dictionary of another iOS or one that crashes it, and bundles come from a
  file that was read whole.

## 4. Runs, bounds and results

Every run ends within five minutes with two workers. Passing runs:

| run | bound | why that is enough |
|---|---|---|
| `sample` | 2 handlers, 3 chains, phases of 1 or 2 s | two chains race for the lock while a third is left over from before; a countdown of 2 is tested above, at and below its end |
| `records` | requests: 2, of any kind beside one of the jstag, 2 versions of the index, 2 samples. Reports: 2 records, 1 page, ring of 3, minutes 0..4, delay 1 | two requests race for a counter and the sampler; of kinds that share no counter with another only one request runs at a time (`Alone`). A slot of the ring is used, cleared and used again, with a record that is late; the real ring has 60 slots and a record is late by much less than that |
| `loops` | callbacks: 3, retry after 1, all arrive at 0, time to 5. Index: 2 channels, 4 files, 1 request, 2 handlers in memory, in two parts (`part`): in `rounds` one channel is on from the start and requests hold handlers but find nothing; in `requests` they are of any kind, and the network, the bucket and the channels stay as they are (`mcBound`) | three items are the least with a last leaf that is not the latest; time allows all four attempts. One offer of each kind; a folder read twice; a request may hold the old handler through a whole round, and `cpt` may search a newer one than the request's own |
| `ssp` | 1 app, 2 slots, 2 rows of the app, 1 request, 2 stores | the old and the new store; slots are each other's brothers |
| `pacing` | 3 controllers, 1 request of each handler, pacing 1, fleet 2, 2 minutes | each pointer is replaced while a request holds the old value; a key comes round again |
| `frequency` | 2 requests (one of any handler), 1 package, 2 slots, a day of 2 and a half-day of 1 | the smallest day with a boundary inside it and one at its end; one slot has a cap of one video, the other none; the user either watches videos, with one request, or is given pre-clicks (`mcBound`: the two kinds of counts never meet) |
| `shared` | rendering: 2 requests, of any kind beside one of `jstagH5` or `video`, 2 offers, 2 sizes, replies of up to 2 ads for the first and 1 for the second. Clicks: 2 offers, 3 clicks. Subscriptions: 1 request, 2 countries, configurations of up to 2 entries and one of 3, 2 rounds, 12 draws. iOS: 2 requests, 7 clients, 2 contents | one offer with an icon, two pictures of a size, one for all languages and a video; one without an icon, with a rendered picture and an empty list for the client's country; one of them is white, the other has an argument from `PreProcess`. One size has an adapter that asks for nothing. A reply of 2 names an offer twice or exceeds the 1 that is asked for. 12 draws separate weights of 1, 2 and 3. The clients lie on both sides of every version the handler compares with |

Bounds that are guards in the modules are named there: `MaxTime` and `MaxArrival` (`S2sHeap`),
`MaxMinute`, `MaxReqs` and `MaxDelay` (`StatusReport`), `MaxReply` (`Rendering`), `MaxBlind`, `MaxLost` and `MaxComplete`
(`Frequency`), `MaxVersion` and `MaxSamples` (`Handlers`), `MaxClicks` (`ClickCounter`), `MaxRounds` (`Subscription`),
`MaxContents` (`IosPmt`). `Samplers`, `Handlers`, `Stores` and `Ctrls` bound how many objects are alive at once;
one that nobody holds is used again, as the collector would allow.

Deadlock is checked except in `sample` and `sample_reset`, because a handler and the sampler can really
wait for each other (section 7), and in `records` and `shared`, where each request is made once and a behaviour
ends when all are answered and the bounds are reached; elsewhere a loop or the clock always goes on.

The other five runs (`sample_reset`, `report_release`, `s2s_sleep`, `ssp_closed`,
`frequency_completes`) each end in a counterexample: section 7.

## 5. Fairness

* `SampleCtrl`: weak fairness of the ticker and of every goroutine's next step, which is what the Go
  scheduler gives; strong fairness of asking for the lock, since `sync.Mutex` hands over in FIFO order
  to a goroutine that has waited for a millisecond. Nothing obliges a handler to be called.
* `S2sHeap`: weak fairness of time, of the loop `Serve` (`ServeQueue`), which `tpl.go` starts as a goroutine,
  and of each handler finishing its push. Publishers owe nothing: every attempt may fail.
* `OfferIndex`: weak fairness of the update loop and of a request once it has begun. No fairness of
  the network: `StayingOfferArrives` assumes in its own premise that downloads work from some time on.
* `SspStore`: weak fairness of the loop and of handlers that have begun; that the tables are quiet is
  the premise of `Settles`.
* `Rendering` (`RenderFairness`): weak fairness of a handler's own steps, in which it waits for nobody. The answer of the rank
  service is not owed (`RankAnswers`), and neither is its error in package `rank` (`SelectRandomly`), whose client has
  no timeout; that of `rank/video` gives up after 50 ms, so `VideoRankFails` is the handler's own step.
* `MCLoops` states the fairness of its two components again, over its own variables.
* `Handlers`, `StatusReport`, `Pacing`, `Frequency`, `ClickCounter`, `Subscription` and `IosPmt` have safety properties only.

## 6. Proofs

`tlapm` checks the proof modules to the last leaf. They hold for every value of the constants that
satisfies the module's assumption; TLC evaluates the assumptions on every run.

**SampleCtrlProofs** (any number of handlers and chains, any lengths of the phases). `StatusHasOneSampler`
and the others are not inductive: that a chain may close the channel depends on nobody being in
`resetSample`, which depends on the lock and on the status, which depends on which chain moved last.
`IInv` is `TypeOK` with five named parts: `Shape` (which phases have which points), `Owner` (at most one
chain is past `readySample`'s lock, and its place fixes the status), `Resources` (its place fixes ticker
and channel), `Countdown`, and `Handlers` (what a handler inside the lock may rely on). There is one lemma per
group of actions; `OwnerMoves` and `GotoFrame` carry what they share. `SampleCtrlInvariant` is
`Spec => []IInv`; from it follow `TypeCorrect`, `NoPanicHolds`, `OneSampler`, `SendersAreServed`, `WaitsNotNegative`
and, as an action property, `PhasesInOrder`.

**PacingProofs** (any number of requests, controllers, minutes, any fleet and pacing). `OvershootBounded` is
not inductive because a controller forgets who has asked it. `IInv` adds `Kinds` (each pointer and each
request's controller is of the right kind for its place) and `Sums`: for each controller and minute,
count plus the requests that have passed `OverCap` and not yet added is at most threshold plus
all requests. Passing needs the count below the threshold, adding moves one request from one
summand to the other, and forgetting only helps. `Overshoot` and `Apart` follow; `TypeCorrect` too.
A fuyu ad asks one controller and is counted in the next one published, so a sum per controller does not bound the
count. `FuyuInv` adds `FuyuSums`: to count and requests
let through (`FuyuPassing`) come the requests that may carry to this controller a click that another allowed (`Carrying`), and the three
together are at most the threshold and two for every request. Each request carries one at most: a `wuganHandler` request must have asked before
the controller was stored, a `retrievalHandler` one, which never asks an older controller than the one it adds to (`NotOlder`), after it was
replaced. `FuyuOvershoot` follows.

**FrequencyProofs** (any number of requests, packages and slots, any day and any period that divides it). A
count in redis says nothing of the requests that read it and have not written yet, so `PreclickBounded` is not
inductive. `Pending(p)` is the set of requests that read a map in which package `p` was free and have not
counted their ads. `IInv` is `TypeOK` with `Counted` (what was given and not lost stands in redis), `Sums`
(given plus pending is at most requests plus unasked requests plus lost writes), `Fresh` (a handler that
is idle holds no key and no offers), `Dies` (the hash is empty, `loose`, or has at most the rest of the day to live) and
`OnItsWay` (an expiry that the clock has not overtaken fits into the rest of the day). `GetFreq` adds a pending request only to a package whose count is
zero, where `Counted` bounds what was given by what was lost; `IncrFreq` moves a request from one summand to
the other. `ExpiresInDay` shows that what is left of a period that divides the day is never zero and never
reaches past midnight; `CountsEndWithTheDay`, about the step of the clock to midnight, follows from `Dies`. `TypeCorrect` and `PreclicksBounded` follow. The bounds `MaxBlind`, `MaxLost` and
`MaxComplete` are constants like the others, so the theorems hold for every choice of them.

`CapsHoldAsKeyed` needs a second invariant on top, `CapInv`, because `CapsAsKeyed` speaks of the answer only. `CapState`
says of every step of a handler what its place in the sequence decides: before `freq` there is no key; outside the v4
handlers the key is the type; inside them it is the type the client sent, which is still the type as long as
`SetAdType` is to come; a slot noted as being at its cap had as many videos as the cap says; and behind `caps` a slot
that is asked for and served is not one of those. `HandlersAreOrdered` states the order of the steps
that this rests on, once for each of the ten sequences.

**HandlersProofs** (any requests, versions and samples; what `Paths` a request may take is assumed to be paths, `PathsAssumption`).
`QpsAddsUp` compares what has been logged with the last sample.
While `QpsStat` runs, its intermediate values are in the total, which the jstag handlers add to. `Lag` says at each of the four places how
far the total, the remembered total and the lines may be apart: never more than `raced`. `QpsLinesAddUp` follows.

`ClosedServesNothing` speaks of answers, which the gates before them decided. `RequestsOK` says of a running request (`Running`) what
the gates behind it have made sure of: once the slot has been looked at, the request saw it open; and of one that has returned (`Returned`)
what the property needs. That a handler looks at its slot before it shows anything is a fact about the
sixteen sequences (`HandlersCheckSlot`), as is that no gate but the last counts an answer (`HandlersCountOnce`).
`ClosedSlotsServeNothing` follows, and so does `HandlersTypeCorrect`.

`StatisticsAddUp` is a balance between counters and the sets of requests with each fate. `Counts` is the balance with the types of the counters; a step
moves one request from one set to another under one increment (`WithStep`, `OutcomesGrow`); with `RequestsOK` it is inductive, and
`StatisticsBalance` follows.

**StatusReportProofs** (any handlers, pages and slots; the assumption: a record is late by less than the ring less one minute, which
`MaxDelay + 1 < NumSlots` says; in the code an hour against the time of a request). `RingInv` is what the double-checked lock of `visit`
establishes: a slot nobody has locked has both reports or neither, `inited` tells which, whoever is past `visit` finds them, and the sweep
reaches no slot that a request may still be in (`Division`, `RoundApart`: two minutes of one slot are a whole ring apart).
`NilReportsOnlyAtFirstVisit` follows from it. `FiguresInv` adds what a report counts: the minutes in it are those of its slot whose round has
not come again, and no request whose phase is still owed is missing from its count. `ReportsOfOneMinute` follows.
`PreparedInv` says of reports that were prepared that their minute is over (`PreparedOver`), of pages that they work at such a report
(`Asked`), and of whoever is at a released map that it is late (`LateOnly`); the sweep clears a slot before the minute comes in which
requests are recorded in it again, which needs `FiguresInv`. `OnlyLateLose` follows.

**SspStoreProofs** (any apps, slots, requests and stores; crashes at any step). `AtMostOneRoundOld` is not inductive: a slot store is
closed and cached in by handlers and by `GenBrothers`, and the app stores they ask change between. `IInv` adds to `TypeOK` and
`SlotsBeforeApps` the parts `Heap` (every address holds a slot store), `Building` (the store in the making is neither published nor
held by a request, and what its slots derived comes from the published app store) and `Published` (what the published slots
derived comes from the published app store or the one before, and between the two publications from the old one only). One
lemma per operator that writes a slot (`GetAllSlotInApp`, `GetPreNum`, `GenBrothers`) shows that it keeps a slot sound.
`SlotsComeFirst`, `OneRoundOld` and `TypeCorrect` follow.

**LoopsProofs, the index** (any folders, files, offers and requests, any number of handlers in memory, any failures). `IInv` adds to `TypeOK`
`Folders` (nothing is left over from the last folder), `Marked` (a document of `tmp_test` is marked), `Unused` (an address that nobody
refers to is empty, which is what allocation relies on), `Lookups` (what a request that searched its own handler remembers is still at the
positions it found, `Remembers`, and is what the filter of that search lets through, `Bound`) and `Round`: what is owed to this round (`sure`) is in the index or still to come, in a folder that is not
listed, a file that is not downloaded or a line that is not added, and nothing is in the index that was not `seen`. The
assumption says that an offer stands in one file: an offer of the model is a record of a file, so the same advertiser's offer in
two files is two of them. `BucketPublished`, `AnswersAsSearched`
and the action property `InUseUnchanged` follow; `Lookups` needs that adding goes to a handler at its end and that a
request's handler is not allocated again.

**LoopsProofs, the callbacks** (any number of callbacks, any interval and arrival; the assumption: the clock of the model runs until the last
attempt). The lemmas begin at `container/heap`. `RiseExists` and `SinkExists` show that the recursive functions do at every position what
their definitions say, `RiseOrders` and `SinkOrders` that they mend a heap that is wrong at one position, and `PushIs` and `PopIs` that
`heap.Push` and `heap.Pop` add and take one earliest item. The induction is by `Least`: a set of positions that break the claim
has a least one. `QueueInv` is `QueueTypeOK` and `HeapConsistent` with `ServeOK` (which item the loop holds at each of its points, and
that only the loop takes items out), `AttemptsOK` (an item has failed at most as often as it may) and `LaunchOK` (no item is due later
than its attempts explain, so the clock does not end first). `HeapStaysConsistent` follows. `HeapKeepsPromise` is the refinement: under
`PromisedState` the initial states of the queue are initial states of `CallbackQueue`, and each step is one of its steps or
none (`StepRefines`). Its fairness, and with it the rest of `KeepsPromise`, is TLC's.

**SharedProofs, the clicks** (any offers, any bound on the clicks). The balance is not inductive: `submitClickCount` replaces
the map of the ticker, so nothing may be in it. `ClickInvariant` adds `Asleep`, that the ticker holds nothing
between two posts. `ClicksAreConserved` follows.

**SharedProofs, the dictionaries** (any requests and clients, every version of one to three numbers below 100 for iOS and of three for the SDK,
which is what the assumption says; any bundles). The handler compares versions as strings and `OldSdkSafe` speaks of numbers.
`StringIs` says what the string of a version is, `OlderIsLess` that whoever is older than a version of single digits is smaller as a string too,
`LessIsOlder` the converse between versions of single digits, and `NotBefore12` that the string of iOS 12 or later is not below
"12". The converse fails beyond single digits (3.10.0 sorts before 3.2.4), so the handler may refuse a dictionary to an SDK that could
take it, and the part of the property about 2.3.7 to 2.4.6 is limited to single digits. `IosInv` follows an answer through its handler
(`AnswerOK`) and adds `FileWhole`: the loop compares and publishes only files it has read whole. `OldSdksSafe` follows.

**SharedProofs, the subscriptions** (any countries, channels, requests and number of draws; any configurations of any length, of which the
assumption says that they are sequences of entries). `DrawsUpTo` counts the draws that do not pass a part of the sum: as many as the part
is of all, and at most one more. `FilledIs` and `WeightIs` say that the recursive functions do at every entry what their definitions say; the
induction over the entries is by `Least` again. `FilledHoldsSold` shows that the divider filled so far holds just what has been sold, with weights
that only grow (`Growing`), and `FilledFairShare` that each channel has got its part of the draws so far, give or take one for each entry:
adding a weight gives its channel the draws between two sums and changes no other (`HitsOfSelling`, `FreshShare`). `Drawn` is the other
side: a draw returns the channel it hits, also where weights of zero make several positions equal. `SubInv` says that the dividers published are built from the
last configuration and that a request holds one built from the configuration of its moment. `ProvidersAreDrawnByWeight` follows.

**SharedProofs, the rendering** (any requests, any finitely many offers with any creatives, any sizes and adapters, any number of ads asked
for; `RenderingAssumption` says what creatives and adapters are, that an adapter has at least one part, and that no creative has the
id `chosen`, which marks in the model what `CreativeChosen` names). `AnswersAreSound` speaks of answers, and what goes into them was decided
several steps before, on objects that other requests use at the same time. `RenderInv` therefore says first what makes a request
independent of the others: nobody has written behind the end of a published `AttachArgs`, because there is no room
(`AppendArgRight`; with the room that `NewRawAdObj` would leave, the proof fails at just this lemma), and the `CreativeChosen` of a published
offer names nothing or a picture of that offer (`PubRight`), which is all that the page of the jstag may rely on. Then it says of each request
by itself (`AdRight`):

* `FoundRight`: what was found is what the filter keeps, no offer twice. `FoundShown` shows what the renderer makes of such an
  offer (`FoundGives`): for the four strict filters it draws something, for a page ad or the media of the jstag that or the exception.
* `LineRight`: the ads made, the raws and the ranked offers not yet copied are all of offers that were found (`Taken`), whatever
  the rank service says. Unless it said something else than asked, they are one line of different offers (`Line`); with
  `Select` it is at most one longer than what was asked for (`RandomCopies`). Every step takes from one part of the line what it adds to the
  next (`TakenMoves`, `LineMoves`), which is how "each once" survives from the search to the answer (`DistinctCount`). `RankedStep` is the
  arrival of a reply: the white offers that `SelectWg` puts first are not among those it told of, so only a reply not as asked repeats one.
* `RawRight`, `TrackRight`: a copy holds the arguments of its own offer and request, only the page of the jstag holds pointers, and
  what a request is about to track is among what it shows. One lemma per renderer (`ToAdSound` to `ToJsMediaAdSound`, joined in `ResultsSound`)
  shows that it returns only such ads.

There is one lemma per action (`SearchStep` to `TrackStep`), all of them by `OneRequest`: a step of one request that leaves its own record right
leaves the invariant. `RenderTypeCorrect` and `AnswersStaySound` follow.

**The instances with several components.** The runs `records`, `loops` and `shared` check the specifications `mcSpec` of their MC modules, the
theorems so far are about each component's own. `RecordsTogether`, `LoopsTogether` and `SharedTogether` join them: whatever values the
constants have, a behaviour of `mcSpec` is one of each of its components, since a step of one leaves the variables of the others as they
are, so that every safety property these runs check holds of `mcSpec`, `TypesOK` included. This is also what makes it sound to check
components in one run.

## 7. Disagreements with the code's own words

| run | property | what the run shows |
|---|---|---|
| `sample_reset` | `DoneEnds` | `status/ctrl.go:135` keeps a result for five minutes. A page request sends on the unbuffered channel under the read lock (173) while the goroutine that would receive has taken a tick and waits for the write lock: the phase never ends, and later readers hang behind the writer. |
| `report_release` | `ReleasedNotUsed` | `status/retrieval_report.go:210` releases maps of a prepared report; a late record of the same minute writes them (90). |
| `s2s_sleep` | `NoSleepOnDue` | `tpl/s2s_heap.go:132` returns the last leaf as the top, so the loop sleeps while a callback is due. |
| `ssp_closed` | `ClosedAppAnswersClosed` | `ssp/ssp_info.go:927` closes the slot that was asked about instead of the one of the loop: the other slots of a closed app stay open. |
| `frequency_completes` | `CompletesCapped` | `ssp/ssp_info.go:582` caps videos per user and slot. The v4 handlers ask before they know the type (`video_v4.go:365`, 400), and the key keeps the type and slot that the client sent. |

These are the counterparts of properties that do hold: the sampling hangs in no other way
(`OnlyResetCycleHangs`), only late requests meet a prepared report (`OnlyLateMeetPrepared`), callbacks are late but never
lost (`KeepsPromise`), and a client that names the right type is capped (`CapsAsKeyed`).

Met while modelling, and in the models, but not runs of their own:

* `ios_pmt/service.go:711` panics when `textDecrypt` returns nothing; that happens when another handler draws
  between `rand.Seed` and the draw (`dict.go:24`). `textDecrypt` in `IosPmt` has both outcomes.
* `util/traffic_divider.go:68` divides by a sum that may be zero; the draw then lies behind the list and the
  handler panics. `ProvidersByWeight` allows exactly this panic.
* `retrieval/app_wall.go:193` speaks of twelve tools at the head of the wall, and line 206 takes the list of the
  top offers.
* `tpl/v3_tpl.go:162` sorts in the published configuration, for every request.
* `ios_pmt/get_bundles.go:111` keeps sleeping for ten minutes after one failure as long as the content stays the same.
* `retrieval/jstag_h5.go` counts a request for each part of its page that fails, so that its counters exceed its
  requests; `StatisticsAddUp` leaves that kind out of the balance.
* `retrieval/retrieval.go:105` writes the answer to a request without a context by dereferencing it.

## 8. Only model-checked, and not modelled

Liveness (`SamplingCompletes`, `OnlyResetCycleHangs`, the fairness in `KeepsPromise`, `RemovedOfferLeaves`, `StayingOfferArrives`,
`Settles`, `VideoAnswered`) is out of reach of the installed provers and rests on TLC. Every safety property that a passing run
checks is a theorem.

Left out on purpose:

* parsing, formatting and macros: of requests (`http_context`), of offers (`offer/`, a document in, an offer or nothing
  out, without state), of links (`raw_ad/click_url.go`), of VAST and OpenRTB;
* the clients of redis, of the subscription providers and of other services, beyond their errors;
* the templates of slots, and the video integration of the publisher tables (`ssp/v3_ssp_info.go`);
* the promotion and funny-offer experiments, but for what they render; `priorityCopy`, which has no caller; the slot
  that tests CPL offers;
* `ct_bloom` and the other filters of addresses, which need bit operations and answer "may be";
* the loss of the callback queue in a crash (nothing is persisted and nothing is promised);
* probabilities (`SlotImpInCap` above 80 %, `PreRate`), which are nondeterministic choices; requests of an
  integral wall in `Frequency`, which no cap holds;
* the download manager: its test and its mark are two critical sections. The update loop calls it for one file after the
  other, and so does the loop of the publisher tables, at the same time but on a folder of its own; only if both were
  configured to share one could two downloads write the same temporary file.

`PROJECT.json` lists each remaining component with its reason and each hazard without a property with a note.

## 9. Plan

Done, in this order: `SampleCtrl` and its proofs, `StatusReport`, `S2sHeap` with `CallbackQueue`, `OfferIndex`
and its proofs, `SspStore` and its proofs, `Pacing` and its proofs, `Frequency` and its proofs, `Handlers` and the
proof of its qps lines, `ClickCounter` and its proofs, `Subscription`, `IosPmt`, `Rendering`; then the proofs of the other
invariants of `Handlers` and `Pacing`, and those of `StatusReport`, `S2sHeap` with its refinement, `IosPmt`, `Subscription` and
`Rendering`.

Next, most important first:

1. The video integration of the publisher tables, with the writes of `sortVideo`.
2. `Rendering` composed with `OfferIndex`: an offer that is rendered in place while the index that holds it is replaced.
3. A published snapshot that readers hold while it is replaced, as an abstract specification that `OfferIndex`,
   `SspStore` and `Subscription` refine, and a counter with a bounded overshoot for `Pacing` and `Frequency`.
