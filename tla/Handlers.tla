------------------------------ MODULE Handlers ------------------------------
(***************************************************************************)
(* The HTTP handlers of package retrieval, each a goroutine per request,   *)
(* over what they share: the offer index and the slot table, which two     *)
(* loops replace at any moment, and the statistics, which statistic()      *)
(* samples every second.                                                   *)
(*                                                                         *)
(* A handler is the sequence of its gates, in the order of the code: what  *)
(* is checked, what is counted when the check fails, and what becomes of   *)
(* the request then.  A request that passes them all answers with ads.     *)
(***************************************************************************)
EXTENDS Integers, Sequences, FiniteSets

CONSTANTS
  Requests,    \* each is made once
  PathsOf,     \* request -> the paths it may be made to
  MaxVersion,  \* bound: how often the index is published
  MaxSamples   \* bound: how often the statistics are sampled

ASSUME HandlersAssumption == IsFiniteSet(Requests) /\ MaxVersion \in Nat /\ MaxSamples \in Nat

VARIABLES
  index,       \* the version dnf.GetHandler returns, 0 while there is none
  slot,        \* the slot in the published table: absent, open or closed
  req,         \* request -> where its handler is and what it holds
  stat,        \* Service.stat: kind of statistics -> counter -> its value
  TotalReq,    \* stat.TotalReq
  TotalReqLastSec,
  sampler,     \* where statistic() is in QpsStat, and the values it has read
  raced,       \* history: the IncrTot calls that fell into QpsStat
  logged       \* history: the sum of the qps logged

vars == <<index, slot, req, stat, TotalReq, TotalReqLastSec, sampler, raced, logged>>
statistics == <<stat, TotalReq, TotalReqLastSec, raced, logged>>

-----------------------------------------------------------------------------
(* Gates. *)

Gate(check, counters, fate) == [check |-> check, counters |-> counters, fate |-> fate]

Answer(check, counter) == Gate(check, {counter}, "answered")
Quietly(check) == Gate(check, {}, "uncounted")  \* answers and counts nothing
GoOn(check, counters) == Gate(check, counters, "goesOn")
SetCtxTks == Gate("platform", {}, "panic")      \* neither iOS nor Android

(* What WriteTo does when it is given no context: the answers of rtvResp   *)
(* and jsMediaResp dereference it, so the handler ends in the recovery of  *)
(* net/http before it counts.                                              *)
NeedCtx == {"rtvResp", "jsMediaResp"}
NoCtx(check, resp, counters) ==
  IF resp \in NeedCtx THEN Gate(check, {}, "panic") ELSE Gate(check, counters, "answered")

(* Mutant: the slot's rate is not counted. *)
retrievalGatesUncounted == <<
  NoCtx("context", "rtvResp", {"CtxErr"}), Answer("index", "DnfNil"),
  Answer("slot", "TplNoMatch"), Answer("open", "TplNoMatch"),
  Gate("rate", {}, "answered"), Answer("templates", "TplSizeErr"), Quietly("impressionCap")>>

retrievalGates == <<
  NoCtx("context", "rtvResp", {"CtxErr"}), Answer("index", "DnfNil"),
  Answer("slot", "TplNoMatch"), Answer("open", "TplNoMatch"),
  Answer("rate", "ImpRateFilted"), Answer("templates", "TplSizeErr"), Quietly("impressionCap")>>
retrievalSearch == <<
  GoOn("search", {}), GoOn("cpt", {}), Answer("docs", "RetrievalFilted"), Gate("lookup", {}, "panic")>>
retrievalAnswer == <<Answer("rank", "RankFilted"), SetCtxTks, Answer("ads", "WuganFilted")>>
retrievalHandler == retrievalGates \o retrievalSearch \o retrievalAnswer

wuganGates == <<
  NoCtx("context", "wuganResp", {"CtxErr"}), Answer("index", "DnfNil"), Quietly("slot"),
  Quietly("preNum"), Answer("open", "TplNoMatch"), Answer("preClick", "WuganFilted")>>
(* Offers and then subscriptions; of the two only the offers need a search. *)
wuganAnswer == <<
  GoOn("search", {}), SetCtxTks, Quietly("redirect"), Answer("docs", "RetrievalFilted")>>
wuganHandler == wuganGates \o wuganAnswer

realtimeGates == <<
  NoCtx("context", "rtvResp", {"CtxErr"}), Answer("index", "DnfNil"),
  Answer("slot", "TplNoMatch"), Answer("open", "TplNoMatch"), Answer("rate", "ImpRateFilted")>>
realtimeAnswer == <<
  GoOn("search", {}), Answer("docs", "RetrievalFilted"), Answer("rank", "RankFilted"),
  SetCtxTks, Answer("ads", "WuganFilted")>>
realtimeHandler == realtimeGates \o realtimeAnswer

lifeGates == <<
  NoCtx("context", "rtvResp", {"CtxErr"}), SetCtxTks, Answer("index", "DnfNil"),
  Answer("slot", "TplNoMatch"), Answer("open", "TplNoMatch"), Answer("rate", "ImpRateFilted")>>
lifeAnswer == <<
  GoOn("search", {}), Answer("docs", "RetrievalFilted"), Answer("rank", "RankFilted"), Quietly("ads")>>
lifeHandler == lifeGates \o lifeAnswer

(* Ads of real_api: neither the index nor the slot is looked at. *)
nativeHandler == <<
  NoCtx("context", "rtvResp", {"CtxErr"}), SetCtxTks, Answer("realApi", "RankFilted"),
  Answer("ads", "WuganFilted")>>

(* The slot of a video request may be a brother of the one asked for; the  *)
(* look-up skips closed slots.                                             *)
videoGates == <<
  NoCtx("context", "rtvResp", {"CtxErr"}), Answer("index", "DnfNil"), Answer("active", "TplNoMatch"),
  Quietly("open"), Quietly("rate"), Answer("imageSize", "ImgWH0"), Quietly("caps")>>
videoAnswer == <<
  GoOn("search", {}), Answer("docs", "RetrievalFilted"), Answer("rank", "RankFilted"), SetCtxTks,
  Answer("ads", "WuganFilted")>>
videoHandler == videoGates \o videoAnswer

appWallGates == <<
  NoCtx("context", "rtvResp", {"CtxErr"}), Answer("index", "DnfNil"),
  Answer("slot", "TplNoMatch"), Answer("open", "TplNoMatch"), GoOn("search", {}),
  Answer("docs", "RetrievalFilted")>>
appWallAnswer == <<Answer("rank", "RankFilted"), SetCtxTks, Answer("ads", "WuganFilted")>>
appWallHandler == appWallGates \o appWallAnswer

jstagHandler == <<
  NoCtx("context", "rtvResp", {"CtxErr"}), Answer("slot", "TplNoMatch"), Answer("open", "TplNoMatch"),
  Answer("index", "DnfNil"), Quietly("impressionCap"), SetCtxTks, GoOn("search", {}),
  Answer("docs", "RetrievalFilted")>>

(* Mutant: the switch of the slot is not looked at. *)
jstagH5PicAnySlot == <<
  Gate("slot", {"TplNoMatch", "RetrievalFilted"}, "answered"),
  Answer("impressionCap", "RetrievalFilted"), GoOn("search", {}), Answer("docs", "RetrievalFilted"),
  Answer("ads", "RetrievalFilted")>>

(* getPicDocs counts the slot, and the handler the missing picture. *)
jstagH5Pic == <<
  Gate("slot", {"TplNoMatch", "RetrievalFilted"}, "answered"),
  Gate("open", {"TplNoMatch", "RetrievalFilted"}, "answered"),
  Answer("impressionCap", "RetrievalFilted"), GoOn("search", {}), Answer("docs", "RetrievalFilted"),
  Answer("ads", "RetrievalFilted")>>
(* The integral wall, or the fuyu ads when none is asked for: the picture  *)
(* is answered without them.  getIntegralWallAds works on a copy of the    *)
(* service, which swallows what getIntegralWallDocs counts.                *)
jstagH5Handler ==
  <<NoCtx("context", "rtvResp", {"CtxErr"}), Answer("index", "DnfNil"), SetCtxTks>>
  \o jstagH5Pic \o <<GoOn("wall", {"RetrievalFilted"})>>

jstagMediaHandler == <<
  NoCtx("context", "jsMediaResp", {}), NoCtx("slot", "jsMediaResp", {}), NoCtx("open", "jsMediaResp", {}),
  Quietly("index"), GoOn("search", {}), Quietly("docs")>>

subHandler == <<NoCtx("context", "subResp", {}), Quietly("redirect"), Quietly("subscriptions")>>

interstitialHandler == <<
  NoCtx("context", "rtvResp", {}), Quietly("index"), Quietly("slot"), Quietly("open"), Quietly("format"),
  Quietly("rate"), Quietly("userCap"), Quietly("templates"), GoOn("search", {}), Quietly("docs"),
  Quietly("rank"), SetCtxTks, Quietly("ads")>>

pageadHandler == <<
  NoCtx("context", "pageadResp", {}), Quietly("index"), Quietly("slot"), Quietly("open"),
  Quietly("adType"), Quietly("adapters"), Quietly("rate"), GoOn("search", {}), Quietly("docs"),
  Quietly("rank"), SetCtxTks, Quietly("ads")>>

(* The context error of the first is answered by http.Error. *)
videoCreativeGates == <<
  Quietly("context"), Quietly("index"), Quietly("active"), Quietly("rate"), Quietly("caps")>>
videoCreativeAnswer == <<GoOn("search", {}), Quietly("rank"), Quietly("ads")>>
videoCreativeHandler == videoCreativeGates \o videoCreativeAnswer

videoAdHandler == <<
  NoCtx("context", "rtvResp", {}), Quietly("index"), Quietly("active"), Quietly("rate"),
  Quietly("caps"), SetCtxTks, Quietly("imageSize"), GoOn("search", {}), Quietly("docs"), Quietly("rank"),
  Quietly("ads")>>

videov4NativeHandler == <<
  NoCtx("context", "rtvResp", {}), Quietly("index"), Quietly("active"), Quietly("format"),
  Quietly("rate"), Quietly("imageSize"), GoOn("search", {}), Quietly("docs"), Quietly("rank"),
  SetCtxTks, Quietly("ads")>>

-----------------------------------------------------------------------------
(* Which handler serves a path, and which statistics it counts in. *)

Handler == [
  retrieval |-> retrievalHandler, wugan |-> wuganHandler, realtime |-> realtimeHandler,
  life |-> lifeHandler, native |-> nativeHandler, video |-> videoHandler, appWall |-> appWallHandler,
  jstag |-> jstagHandler, jstagH5 |-> jstagH5Handler, jstagMedia |-> jstagMediaHandler,
  sub |-> subHandler, interstitial |-> interstitialHandler, pagead |-> pageadHandler,
  videoCreative |-> videoCreativeHandler, videoAd |-> videoAdHandler, videov4Native |-> videov4NativeHandler]
Paths == DOMAIN Handler

ASSUME PathsAssumption == \A r \in Requests : PathsOf[r] \subseteq Paths

SubStatistic == [
  retrieval |-> "sdk", wugan |-> "wugan", realtime |-> "rlt", life |-> "life", native |-> "nat",
  video |-> "nat", appWall |-> "nat", jstag |-> "jstag", jstagH5 |-> "jstagH5"]
Stats == {SubStatistic[p] : p \in DOMAIN SubStatistic}
IncrsTotalReq == {"jstag", "jstagH5"}

Filtered == {"CtxErr", "DnfNil", "TplNoMatch", "TplSizeErr", "ImgWH0", "RetrievalFilted", "RankFilted",
             "WuganFilted", "ImpRateFilted"}
Counters == Filtered \cup {"TotReq", "Imp"}

-----------------------------------------------------------------------------
(* State. *)

Idle == [path |-> "none", pos |-> 0, fate |-> "idle", index |-> 0, slot |-> "absent",
         found |-> "none", wasOpen |-> "no"]
Requested == [
  path : Paths \cup {"none"}, pos : Nat,
  fate : {"idle", "running", "answered", "uncounted", "panic", "ads"},
  index : 0..MaxVersion,  \* the index it holds, its local variable handler
  slot : {"absent", "open", "closed"},  \* the slot it holds, its local variable tpl
  found : {"none", "some", "elsewhere"},  \* documents, of the index it holds or of another
  wasOpen : {"yes", "no"}]  \* history: whether the slot was open since it was made

TypeOK ==
  /\ index \in 0..MaxVersion /\ slot \in {"absent", "open", "closed"}
  /\ req \in [Requests -> Requested]
  /\ stat \in [Stats -> [Counters -> Nat]] /\ TotalReq \in Nat /\ TotalReqLastSec \in Nat
  /\ sampler \in [at : {"sleep", "sdk", "total", "delta"}, sdk : Nat, nat : Nat, samples : 0..MaxSamples]
  /\ raced \in Nat /\ logged \in Int

Init ==
  /\ index = 0 /\ slot = "absent"
  /\ req = [r \in Requests |-> Idle]
  /\ stat = [s \in Stats |-> [c \in Counters |-> 0]]
  /\ TotalReq = 0 /\ TotalReqLastSec = 0
  /\ sampler = [at |-> "sleep", sdk |-> 0, nat |-> 0, samples |-> 0]
  /\ raced = 0 /\ logged = 0

-----------------------------------------------------------------------------
(* What the handlers read is published by update.Service and tpl.Service.  *)

PublishIndex ==
  /\ index < MaxVersion
  /\ index' = index + 1
  /\ UNCHANGED <<slot, req, sampler, statistics>>

PublishSlot(state) ==
  /\ slot' = state
  /\ req' = [r \in Requests |->
       IF req[r].fate = "running" /\ state = "open" THEN [req[r] EXCEPT !.wasOpen = "yes"] ELSE req[r]]
  /\ UNCHANGED <<index, sampler, statistics>>

-----------------------------------------------------------------------------
(* A handler, one gate a step. *)

At(r) == Handler[req[r].path][req[r].pos]

incr(path, counters) ==
  IF path \in DOMAIN SubStatistic
  THEN stat' = [stat EXCEPT ![SubStatistic[path]] =
         [c \in Counters |-> IF c \in counters THEN @[c] + 1 ELSE @[c]]]
  ELSE stat' = stat

(* The request comes in and is counted. *)
Arrive(r, path) ==
  /\ req[r].fate = "idle"
  /\ req' = [req EXCEPT ![r] = [Idle EXCEPT !.path = path, !.pos = 1, !.fate = "running",
                                  !.wasOpen = IF slot = "open" THEN "yes" ELSE "no"]]
  /\ incr(path, {"TotReq"})
  /\ IF path \in IncrsTotalReq
     THEN /\ TotalReq' = TotalReq + 1
          /\ raced' = IF sampler.at \in {"total", "delta"} THEN raced + 1 ELSE raced
     ELSE UNCHANGED <<TotalReq, raced>>
  /\ UNCHANGED <<index, slot, TotalReqLastSec, sampler, logged>>

(* What a gate leaves in the handler's variables.  The first search is in  *)
(* the index the handler holds; the second, for the media that bought the  *)
(* slot, in the one cpt.GetCptDocs gets anew.                              *)
GetHandler(q) == {[q EXCEPT !.index = index]}
getTpl(q) == {[q EXCEPT !.slot = slot]}
Search(q) == {[q EXCEPT !.found = f] : f \in {"none", "some"}}
GetCptDocs(q) ==
  {q} \cup IF index = 0 THEN {}
           ELSE {[q EXCEPT !.found = IF index = q.index THEN "some" ELSE "elsewhere"]}

Reads(q, check) ==
  CASE check = "index" -> GetHandler(q)
    [] check \in {"slot", "active", "wall"} -> getTpl(q)
    [] check = "search" -> Search(q)
    [] check = "cpt" -> GetCptDocs(q)
    [] OTHER -> {q}

(* Whether a check may pass and may fail.  Those that ask for the request, *)
(* the configuration of its slot, chance or another service may do both.   *)
(* DocId2Attr has nothing for some documents of another index.             *)
Known == {"index", "slot", "open", "active", "docs", "search", "cpt"}
Holds(q, check) ==
  CASE check = "index" -> q.index # 0
    [] check = "slot" -> q.slot # "absent"
    [] check = "open" -> q.slot # "closed"
    [] check \in {"active", "wall"} -> q.slot = "open"
    [] check = "docs" -> q.found # "none"
    [] OTHER -> TRUE
MayPass(q, check) == Holds(q, check)
MayFail(q, check) ==
  /\ check \in Known => ~Holds(q, check)
  /\ check = "lookup" => q.found = "elsewhere"

(* The handler returns: its variables are gone, and of the history only    *)
(* how it ended is kept.                                                   *)
Return(q, fate) ==
  [Idle EXCEPT !.path = q.path, !.fate = fate, !.wasOpen = IF fate = "ads" THEN q.wasOpen ELSE "no"]

(* The last gate is passed: the answer has ads. *)
GoesOn(q) ==
  IF q.pos = Len(Handler[q.path]) THEN Return(q, "ads") ELSE [q EXCEPT !.pos = @ + 1]
CountsImp(q) == IF q.pos = Len(Handler[q.path]) THEN {"Imp"} ELSE {}

Pass(r, q) ==
  /\ MayPass(q, At(r).check)
  /\ req' = [req EXCEPT ![r] = GoesOn(q)]
  /\ incr(q.path, CountsImp(q))

Fail(r, q) ==
  /\ MayFail(q, At(r).check) /\ At(r).fate # "goesOn"
  /\ req' = [req EXCEPT ![r] = Return(q, At(r).fate)]
  /\ incr(q.path, At(r).counters)

(* A failure that is counted and then passed over. *)
PassOver(r, q) ==
  /\ MayFail(q, At(r).check) /\ At(r).fate = "goesOn"
  /\ req' = [req EXCEPT ![r] = GoesOn(q)]
  /\ incr(q.path, At(r).counters \cup CountsImp(q))

Step(r) ==
  /\ req[r].fate = "running"
  /\ \E q \in Reads(req[r], At(r).check) : Pass(r, q) \/ Fail(r, q) \/ PassOver(r, q)
  /\ UNCHANGED <<index, slot, TotalReq, TotalReqLastSec, sampler, raced, logged>>

-----------------------------------------------------------------------------
(* statistic(): QpsStat once a second, one access of a shared counter a    *)
(* step.  The total is overwritten, and read again for each of its uses.   *)

QpsLoadSdk ==
  /\ sampler.at = "sleep" /\ sampler.samples < MaxSamples
  /\ sampler' = [sampler EXCEPT !.at = "sdk", !.sdk = stat["sdk"].TotReq, !.samples = @ + 1]
  /\ UNCHANGED <<index, slot, req, statistics>>

(* RtStat, the third summand, is never counted in.  What is added to the   *)
(* total between the last load and the store is overwritten by it.         *)
QpsTotal ==
  /\ sampler.at = "sdk"
  /\ sampler' = [sampler EXCEPT !.at = "total", !.nat = stat["nat"].TotReq]
  /\ TotalReq' = sampler.sdk + stat["nat"].TotReq
  /\ UNCHANGED <<index, slot, req, stat, TotalReqLastSec, raced, logged>>

(* Mutant: the total is restarted after each line. *)
QpsDeltaRestarts ==
  /\ sampler.at = "total"
  /\ sampler' = [sampler EXCEPT !.at = "delta"]
  /\ logged' = logged + (TotalReq - TotalReqLastSec)
  /\ TotalReq' = TotalReq - TotalReqLastSec
  /\ UNCHANGED <<index, slot, req, stat, TotalReqLastSec, raced>>

QpsDelta ==
  /\ sampler.at = "total"
  /\ sampler' = [sampler EXCEPT !.at = "delta"]
  /\ logged' = logged + (TotalReq - TotalReqLastSec)
  /\ UNCHANGED <<index, slot, req, stat, TotalReq, TotalReqLastSec, raced>>

(* Mutant: the last total is not remembered. *)
QpsLastForgotten ==
  /\ sampler.at = "delta"
  /\ sampler' = [sampler EXCEPT !.at = "sleep"]
  /\ UNCHANGED <<index, slot, req, statistics>>

QpsLast ==
  /\ sampler.at = "delta"
  /\ sampler' = [sampler EXCEPT !.at = "sleep"]
  /\ TotalReqLastSec' = TotalReq
  /\ UNCHANGED <<index, slot, req, stat, TotalReq, raced, logged>>

QpsStat == QpsLoadSdk \/ QpsTotal \/ QpsDelta \/ QpsLast

Next ==
  \/ PublishIndex
  \/ \E state \in {"absent", "open", "closed"} : PublishSlot(state)
  \/ \E r \in Requests : Step(r) \/ \E path \in PathsOf[r] : Arrive(r, path)
  \/ QpsStat

Spec == Init /\ [][Next]_vars

-----------------------------------------------------------------------------
(* Properties. *)

PathsIn == [s \in Stats |-> {p \in DOMAIN SubStatistic : SubStatistic[p] = s}]
CountedIn(s) == {r \in Requests : req[r].path \in PathsIn[s]}
With(s, fate) == {r \in CountedIn(s) : req[r].fate = fate}
Outcomes(s) == Cardinality(UNION {{c} \X (1..stat[s][c]) : c \in Counters \ {"TotReq"}})

(* The counters of a kind of request can be read as a balance: what came   *)
(* in and has no outcome is being handled, was dropped by a panic, or was  *)
(* answered for one of the few reasons that have no counter; only the page *)
(* of the jstag (jstagH5) counts more outcomes than requests.  And an      *)
(* impression is counted for exactly the requests answered with ads.       *)
CountersBalance ==
  \A s \in Stats \ {"jstagH5"} :
    stat[s].TotReq = Outcomes(s)
      + Cardinality(With(s, "running")) + Cardinality(With(s, "panic")) + Cardinality(With(s, "uncounted"))

ImpressionsAreAnswers == \A s \in Stats : stat[s].Imp = Cardinality(With(s, "ads"))

StatisticsAddUp == CountersBalance /\ ImpressionsAreAnswers

(* A request is served ads of its slot only if the slot was open at some   *)
(* moment between its arrival and its answer; native and subscription      *)
(* requests name a slot that nobody looks at.                              *)
ClosedServesNothing ==
  \A r \in Requests : req[r].fate = "ads" /\ req[r].path \notin {"native", "sub"} => req[r].wasOpen = "yes"

(* The qps lines add up to the sdk and native requests counted when the    *)
(* last of them was written, but for the requests the jstag handlers added *)
(* to the total while QpsStat was using it.                                *)
QpsAddsUp ==
  sampler.at = "sleep" =>
    logged \in (sampler.sdk + sampler.nat - raced)..(sampler.sdk + sampler.nat + raced)
=============================================================================
