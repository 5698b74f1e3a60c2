--------------------------- MODULE HandlersProofs ---------------------------
(***************************************************************************)
(* What holds of the handlers for every set of requests, every path they   *)
(* take and any number of publications and samples.                        *)
(*                                                                         *)
(* The qps lines add up.  The bound is not inductive by itself: while      *)
(* QpsStat runs, what it will log is held in the total, which the jstag    *)
(* handlers add to and QpsStat overwrites, so the invariant says at each   *)
(* of its steps how far the total, the remembered total and the lines are  *)
(* apart.                                                                  *)
(*                                                                         *)
(* Closed slots serve nothing.  This is decided long before the request is *)
(* answered, so the invariant says what a running handler has made sure of *)
(* at the gate it has reached: the slot it holds may have been replaced    *)
(* since.                                                                  *)
(*                                                                         *)
(* The statistics add up: each step of a handler moves a request from one  *)
(* of the counted sets to another, or out of them under one counter.       *)
(***************************************************************************)
EXTENDS Handlers, TLAPS, FiniteSetTheorems

-----------------------------------------------------------------------------
(* The qps lines. *)

(* What the statistics hold; the rest of the state has no part in them.    *)
StatisticsTypeOK ==
  /\ stat \in [Stats -> [Counters -> Nat]] /\ TotalReq \in Nat /\ TotalReqLastSec \in Nat
  /\ sampler \in [at : {"sleep", "sdk", "total", "delta"}, sdk : Nat, nat : Nat, samples : Nat]
  /\ raced \in Nat /\ logged \in Int

(* b is at most what raced ahead of a.                                     *)
Ahead(a, b) == a <= b /\ b <= a + raced

(* The lines lag behind the total they were taken from, and a total runs   *)
(* ahead of the sum it was set to, by no more than what raced with it.     *)
Lag ==
  /\ sampler.at \in {"sleep", "sdk", "total"} => Ahead(logged, TotalReqLastSec)
  /\ sampler.at = "delta" => Ahead(logged, TotalReq)
  /\ sampler.at \in {"total", "delta"} => Ahead(sampler.sdk + sampler.nat, TotalReq)
  /\ sampler.at = "sleep" => Ahead(sampler.sdk + sampler.nat, TotalReqLastSec)

QpsInvariant == StatisticsTypeOK /\ Lag

(* The kinds QpsStat adds up are among those that are counted.             *)
LEMMA SummedKinds == "sdk" \in Stats /\ "nat" \in Stats /\ "TotReq" \in Counters
<1>1. SubStatistic["retrieval"] = "sdk" /\ SubStatistic["native"] = "nat"
  BY DEF SubStatistic
<1>2. "retrieval" \in DOMAIN SubStatistic /\ "native" \in DOMAIN SubStatistic
  BY DEF SubStatistic
<1> QED BY <1>1, <1>2 DEF Stats, Counters

(* Counting leaves counters, whichever are counted.                        *)
LEMMA CountersStayCounters ==
  ASSUME stat \in [Stats -> [Counters -> Nat]], NEW path, NEW counters, incr(path, counters)
  PROVE  stat' \in [Stats -> [Counters -> Nat]]
<1>1. CASE path \in DOMAIN SubStatistic
  <2> DEFINE s == SubStatistic[path]
  <2>1. s \in Stats
    BY <1>1 DEF Stats
  <2>2. stat[s] \in [Counters -> Nat]
    BY <2>1
  <2>3. [c \in Counters |-> IF c \in counters THEN stat[s][c] + 1 ELSE stat[s][c]] \in [Counters -> Nat]
    BY <2>2
  <2>4. stat' = [stat EXCEPT ![s] =
                   [c \in Counters |-> IF c \in counters THEN stat[s][c] + 1 ELSE stat[s][c]]]
    BY <1>1 DEF incr
  <2> HIDE DEF s
  <2> QED BY <2>1, <2>3, <2>4
<1>2. CASE path \notin DOMAIN SubStatistic
  BY <1>2 DEF incr
<1> QED BY <1>1, <1>2

(* The counts QpsStat loads are counts. *)
LEMMA LoadsAreCounts ==
  ASSUME StatisticsTypeOK PROVE stat["sdk"].TotReq \in Nat /\ stat["nat"].TotReq \in Nat
  BY SummedKinds DEF StatisticsTypeOK

(* No step of a handler, of the publishers or of the sampler breaks it.    *)
LEMMA QpsStep == QpsInvariant /\ [Next]_vars => QpsInvariant'
<1> SUFFICES ASSUME QpsInvariant, [Next]_vars PROVE QpsInvariant'
  OBVIOUS
<1> USE DEF QpsInvariant
<1>1. ASSUME UNCHANGED <<sampler, statistics>> PROVE QpsInvariant'
  BY <1>1 DEF statistics, StatisticsTypeOK, Lag, Ahead
<1>2. CASE PublishIndex
  BY <1>1, <1>2 DEF PublishIndex
<1>3. ASSUME NEW state \in {"absent", "open", "closed"}, PublishSlot(state) PROVE QpsInvariant'
  BY <1>1, <1>3 DEF PublishSlot
<1>4. ASSUME NEW r \in Requests, Step(r) PROVE QpsInvariant'
  <2>1. UNCHANGED <<TotalReq, TotalReqLastSec, sampler, raced, logged>>
    BY <1>4 DEF Step
  <2>2. PICK path, counters : incr(path, counters)
    BY <1>4 DEF Step, Pass, Fail, PassOver
  <2>3. stat' \in [Stats -> [Counters -> Nat]]
    BY <2>2, CountersStayCounters DEF StatisticsTypeOK
  <2> QED BY <2>1, <2>3 DEF StatisticsTypeOK, Lag, Ahead
<1>5. ASSUME NEW r \in Requests, NEW path \in PathsOf[r], Arrive(r, path) PROVE QpsInvariant'
  <2>1. UNCHANGED <<TotalReqLastSec, sampler, logged>> /\ incr(path, {"TotReq"})
    BY <1>5 DEF Arrive
  <2>2. stat' \in [Stats -> [Counters -> Nat]]
    BY <2>1, CountersStayCounters DEF StatisticsTypeOK
  <2>3. CASE path \in IncrsTotalReq
    <3>1. TotalReq' = TotalReq + 1
          /\ raced' = IF sampler.at \in {"total", "delta"} THEN raced + 1 ELSE raced
      BY <1>5, <2>3 DEF Arrive
    <3> QED BY <2>1, <2>2, <3>1 DEF StatisticsTypeOK, Lag, Ahead
  <2>4. CASE path \notin IncrsTotalReq
    <3>1. UNCHANGED <<TotalReq, raced>>
      BY <1>5, <2>4 DEF Arrive
    <3> QED BY <2>1, <2>2, <3>1 DEF StatisticsTypeOK, Lag, Ahead
  <2> QED BY <2>3, <2>4
<1>6. CASE QpsLoadSdk
  <2> DEFINE n == stat["sdk"].TotReq
  <2>1. UNCHANGED <<stat, TotalReq, TotalReqLastSec, raced, logged>>
    BY <1>6 DEF QpsLoadSdk, statistics
  <2>2. sampler.at = "sleep" /\ n \in Nat
    BY <1>6, LoadsAreCounts DEF QpsLoadSdk
  <2>3. sampler' = [sampler EXCEPT !.at = "sdk", !.sdk = n, !.samples = @ + 1]
    BY <1>6 DEF QpsLoadSdk
  <2> HIDE DEF n
  <2>4. sampler' = [at |-> "sdk", sdk |-> n, nat |-> sampler.nat, samples |-> sampler.samples + 1]
    BY <2>3 DEF StatisticsTypeOK
  <2>5. StatisticsTypeOK'
    BY <2>1, <2>2, <2>4 DEF StatisticsTypeOK
  <2>6. Lag'
    BY <2>1, <2>2, <2>4 DEF Lag, Ahead
  <2> QED BY <2>5, <2>6
<1>7. CASE QpsTotal
  <2> DEFINE n == stat["nat"].TotReq
  <2>1. UNCHANGED <<stat, TotalReqLastSec, raced, logged>> /\ TotalReq' = sampler.sdk + n
    BY <1>7 DEF QpsTotal
  <2>2. sampler.at = "sdk" /\ n \in Nat
    BY <1>7, LoadsAreCounts DEF QpsTotal
  <2>3. sampler' = [sampler EXCEPT !.at = "total", !.nat = n]
    BY <1>7 DEF QpsTotal
  <2> HIDE DEF n
  <2>4. sampler' = [at |-> "total", sdk |-> sampler.sdk, nat |-> n, samples |-> sampler.samples]
    BY <2>3 DEF StatisticsTypeOK
  <2>5. StatisticsTypeOK'
    BY <2>1, <2>2, <2>4 DEF StatisticsTypeOK
  <2>6. Lag'
    BY <2>1, <2>2, <2>4 DEF StatisticsTypeOK, Lag, Ahead
  <2> QED BY <2>5, <2>6
<1>8. CASE QpsDelta
  BY <1>8 DEF QpsDelta, StatisticsTypeOK, Lag, Ahead
<1>9. CASE QpsLast
  BY <1>9 DEF QpsLast, StatisticsTypeOK, Lag, Ahead
<1>10. CASE UNCHANGED vars
  BY <1>1, <1>10 DEF vars, statistics
<1> QED BY <1>2, <1>3, <1>4, <1>5, <1>6, <1>7, <1>8, <1>9, <1>10 DEF Next, QpsStat

(* Between two samples the qps lines add up to the requests counted at the *)
(* last of them, but for those that raced with QpsStat (statistic.go).     *)
THEOREM QpsLinesAddUp == Spec => []QpsAddsUp
<1>1. Init => QpsInvariant
  BY HandlersAssumption DEF Init, QpsInvariant, StatisticsTypeOK, Lag, Ahead
<1>2. QpsInvariant => QpsAddsUp
  BY DEF QpsInvariant, StatisticsTypeOK, Lag, Ahead, QpsAddsUp
<1> QED BY <1>1, <1>2, QpsStep, PTL DEF Spec

-----------------------------------------------------------------------------
(* The handlers, as sequences of gates.                                    *)

Fates == {"answered", "uncounted", "panic", "goesOn"}

(* What has been checked when the first n - 1 gates are behind: that the   *)
(* slot is there, and that it is open.                                     *)
SlotFound(h, n) == \E i \in 1..(n - 1) : h[i].check = "slot"
SlotOpen(h, n) == \E i \in 1..(n - 1) :
  h[i].check = "active" \/ (h[i].check = "open" /\ SlotFound(h, i))

(* Nobody goes on who failed at the slot, and the wall, which reads the    *)
(* slot again, comes after it was found open.  No gate counts an arrival   *)
(* or an impression.                                                       *)
WellFormed(h) ==
  /\ Len(h) \in Nat \ {0}
  /\ \A i \in 1..Len(h) :
       /\ h[i].fate \in Fates /\ h[i].counters \subseteq Filtered
       /\ h[i].check \in {"slot", "open", "active"} => h[i].fate # "goesOn"
       /\ h[i].check = "wall" => SlotOpen(h, i)

(* Exactly the answers are counted, each under one reason.                 *)
CountedOnce(h) == \A i \in 1..Len(h) :
  IF h[i].fate = "answered" THEN \E c \in Filtered : h[i].counters = {c} ELSE h[i].counters = {}

(* Every handler is a sequence of gates of this kind.                      *)
LEMMA HandlersWellFormed == \A p \in Paths : WellFormed(Handler[p])
<1> USE DEF WellFormed, SlotOpen, SlotFound, Fates, Filtered,
            Gate, Answer, Quietly, GoOn, SetCtxTks, NoCtx, NeedCtx
<1>1. WellFormed(retrievalHandler) BY DEF retrievalHandler, retrievalGates, retrievalSearch, retrievalAnswer
<1>2. WellFormed(wuganHandler) BY DEF wuganHandler, wuganGates, wuganAnswer
<1>3. WellFormed(realtimeHandler) BY DEF realtimeHandler, realtimeGates, realtimeAnswer
<1>4. WellFormed(lifeHandler) BY DEF lifeHandler, lifeGates, lifeAnswer
<1>5. WellFormed(nativeHandler) BY DEF nativeHandler
<1>6. WellFormed(videoHandler) BY DEF videoHandler, videoGates, videoAnswer
<1>7. WellFormed(appWallHandler) BY DEF appWallHandler, appWallGates, appWallAnswer
<1>8. WellFormed(jstagHandler) BY DEF jstagHandler
<1>9. WellFormed(jstagH5Handler) BY DEF jstagH5Handler, jstagH5Pic
<1>10. WellFormed(jstagMediaHandler) BY DEF jstagMediaHandler
<1>11. WellFormed(subHandler) BY DEF subHandler
<1>12. WellFormed(interstitialHandler) BY DEF interstitialHandler
<1>13. WellFormed(pageadHandler) BY DEF pageadHandler
<1>14. WellFormed(videoCreativeHandler)
  BY DEF videoCreativeHandler, videoCreativeGates, videoCreativeAnswer
<1>15. WellFormed(videoAdHandler) BY DEF videoAdHandler
<1>16. WellFormed(videov4NativeHandler) BY DEF videov4NativeHandler
<1> HIDE DEF WellFormed
<1> QED
  BY <1>1, <1>2, <1>3, <1>4, <1>5, <1>6, <1>7, <1>8, <1>9, <1>10, <1>11, <1>12, <1>13, <1>14, <1>15, <1>16
  DEF Paths, Handler

(* A handler that passes all its gates has found its slot open, but for    *)
(* those of native and subscription requests.                              *)
LEMMA HandlersCheckSlot ==
  \A p \in Paths \ {"native", "sub"} : SlotOpen(Handler[p], Len(Handler[p]) + 1)
<1> DEFINE Good(h) == SlotOpen(h, Len(h) + 1)
<1> USE DEF SlotOpen, SlotFound, Gate, Answer, Quietly, GoOn, SetCtxTks, NoCtx, NeedCtx
<1>1. Good(retrievalHandler) BY DEF retrievalHandler, retrievalGates, retrievalSearch, retrievalAnswer
<1>2. Good(wuganHandler) BY DEF wuganHandler, wuganGates, wuganAnswer
<1>3. Good(realtimeHandler) BY DEF realtimeHandler, realtimeGates, realtimeAnswer
<1>4. Good(lifeHandler) BY DEF lifeHandler, lifeGates, lifeAnswer
<1>6. Good(videoHandler) BY DEF videoHandler, videoGates, videoAnswer
<1>7. Good(appWallHandler) BY DEF appWallHandler, appWallGates, appWallAnswer
<1>8. Good(jstagHandler) BY DEF jstagHandler
<1>9. Good(jstagH5Handler) BY DEF jstagH5Handler, jstagH5Pic
<1>10. Good(jstagMediaHandler) BY DEF jstagMediaHandler
<1>12. Good(interstitialHandler) BY DEF interstitialHandler
<1>13. Good(pageadHandler) BY DEF pageadHandler
<1>14. Good(videoCreativeHandler)
  BY DEF videoCreativeHandler, videoCreativeGates, videoCreativeAnswer
<1>15. Good(videoAdHandler) BY DEF videoAdHandler
<1>16. Good(videov4NativeHandler) BY DEF videov4NativeHandler
<1> HIDE DEF Good
<1>17. \A p \in Paths \ {"native", "sub"} : Good(Handler[p])
  BY <1>1, <1>2, <1>3, <1>4, <1>6, <1>7, <1>8, <1>9, <1>10, <1>12, <1>13, <1>14, <1>15, <1>16
  DEF Paths, Handler
<1> QED BY <1>17 DEF Good

(* The handlers with statistics count each answer once, but for the page   *)
(* of the jstag.                                                           *)
LEMMA HandlersCountOnce ==
  \A p \in DOMAIN SubStatistic \ {"jstagH5"} : p \in Paths /\ CountedOnce(Handler[p])
<1> USE DEF CountedOnce, Filtered, Gate, Answer, Quietly, GoOn, SetCtxTks, NoCtx, NeedCtx
<1>1. CountedOnce(retrievalHandler)
  BY DEF retrievalHandler, retrievalGates, retrievalSearch, retrievalAnswer
<1>2. CountedOnce(wuganHandler) BY DEF wuganHandler, wuganGates, wuganAnswer
<1>3. CountedOnce(realtimeHandler) BY DEF realtimeHandler, realtimeGates, realtimeAnswer
<1>4. CountedOnce(lifeHandler) BY DEF lifeHandler, lifeGates, lifeAnswer
<1>5. CountedOnce(nativeHandler) BY DEF nativeHandler
<1>6. CountedOnce(videoHandler) BY DEF videoHandler, videoGates, videoAnswer
<1>7. CountedOnce(appWallHandler) BY DEF appWallHandler, appWallGates, appWallAnswer
<1>8. CountedOnce(jstagHandler) BY DEF jstagHandler
<1> HIDE DEF CountedOnce
<1> QED BY <1>1, <1>2, <1>3, <1>4, <1>5, <1>6, <1>7, <1>8 DEF Paths, Handler, SubStatistic

-----------------------------------------------------------------------------
(* What a handler holds. *)

(* What a running handler has made sure of at its gate.                    *)
Running(q) ==
  LET h == Handler[q.path] IN
  /\ q.path \in Paths /\ q.pos \in 1..Len(h)
  /\ slot = "open" \/ q.slot = "open" => q.wasOpen = "yes"
  /\ SlotFound(h, q.pos) => q.slot # "absent" \/ q.wasOpen = "yes"
  /\ SlotOpen(h, q.pos) => q.wasOpen = "yes"

(* What is left of one that returned.                                      *)
Returned(q) ==
  /\ q.path \in Paths
  /\ q.fate = "ads" /\ q.path \notin {"native", "sub"} => q.wasOpen = "yes"

RequestOK(q) ==
  /\ q \in Requested
  /\ q.fate = "idle" => q = Idle
  /\ q.fate = "running" => Running(q)
  /\ q.fate \notin {"idle", "running"} => Returned(q)

RequestsOK ==
  /\ index \in 0..MaxVersion /\ slot \in {"absent", "open", "closed"}
  /\ req \in [Requests -> Requested]
  /\ \A r \in Requests : RequestOK(req[r])

(* A request that has not come in holds nothing.                           *)
LEMMA IdleIs ==
  /\ Idle \in Requested
  /\ Idle.path = "none" /\ Idle.pos = 0 /\ Idle.fate = "idle" /\ Idle.index = 0 /\ Idle.slot = "absent"
  /\ Idle.found = "none" /\ Idle.wasOpen = "no"
BY HandlersAssumption DEF Idle, Requested

(* What Return keeps.                                                      *)
LEMMA ReturnKeeps ==
  ASSUME NEW q \in Requested, q.path \in Paths, NEW fate \in {"answered", "uncounted", "panic", "ads"}
  PROVE  /\ Return(q, fate) \in Requested
         /\ Return(q, fate).path = q.path /\ Return(q, fate).fate = fate
         /\ Return(q, fate).wasOpen = IF fate = "ads" THEN q.wasOpen ELSE "no"
BY IdleIs DEF Return, Requested

(* What a gate reads goes into one of the handler's variables (GetHandler, *)
(* getTpl, Search, GetCptDocs).                                            *)
LEMMA ReadsOne ==
  ASSUME index \in 0..MaxVersion, slot \in {"absent", "open", "closed"},
         NEW q \in Requested, NEW check, NEW new \in Reads(q, check)
  PROVE  /\ new \in Requested
         /\ new.path = q.path /\ new.pos = q.pos /\ new.fate = q.fate /\ new.wasOpen = q.wasOpen
         /\ new.slot = IF check \in {"slot", "active", "wall"} THEN slot ELSE q.slot
         /\ new.index = IF check = "index" THEN index ELSE q.index
<1> USE DEF Requested
<1>1. CASE check = "index" BY <1>1 DEF Reads, GetHandler
<1>2. CASE check \in {"slot", "active", "wall"} BY <1>2 DEF Reads, getTpl
<1>3. CASE check = "search"
  <2>1. PICK f \in {"none", "some"} : new = [q EXCEPT !.found = f]
    BY <1>3 DEF Reads, Search
  <2> QED BY <1>3, <2>1
<1>4. CASE check = "cpt"
  <2>1. new = q \/ \E f \in {"some", "elsewhere"} : new = [q EXCEPT !.found = f]
    BY <1>4 DEF Reads, GetCptDocs
  <2> QED BY <1>4, <2>1
<1>5. CASE check \notin {"index", "slot", "active", "wall", "search", "cpt"}
  BY <1>5 DEF Reads
<1> QED BY <1>1, <1>2, <1>3, <1>4, <1>5

(* A step of a handler: it reads, and either goes on to the next gate or   *)
(* returns, with ads if there is none.                                     *)
LEMMA StepIs ==
  ASSUME RequestsOK, NEW r \in Requests, Step(r)
  PROVE  \E q \in Reads(req[r], At(r).check) :
           \/ /\ MayPass(q, At(r).check) \/ (MayFail(q, At(r).check) /\ At(r).fate = "goesOn")
              /\ req' = [req EXCEPT ![r] = GoesOn(q)]
           \/ /\ At(r).fate # "goesOn"
              /\ req' = [req EXCEPT ![r] = Return(q, At(r).fate)]
BY DEF Step, Pass, Fail, PassOver

(* One gate further, what was found before is still found.                 *)
LEMMA OneFurther ==
  ASSUME NEW h, NEW n \in Nat \ {0}
  PROVE  /\ SlotFound(h, n + 1) <=> SlotFound(h, n) \/ h[n].check = "slot"
         /\ SlotOpen(h, n + 1) <=>
              SlotOpen(h, n) \/ h[n].check = "active" \/ (h[n].check = "open" /\ SlotFound(h, n))
<1>1. \A i : i \in 1..((n + 1) - 1) <=> i \in 1..(n - 1) \/ i = n OBVIOUS
<1> QED BY <1>1 DEF SlotFound, SlotOpen

(* A handler that passes a gate knows what the gate checks.                *)
LEMMA PassStep ==
  ASSUME RequestsOK, NEW r \in Requests, req[r].fate = "running",
         NEW q \in Reads(req[r], At(r).check),
         MayPass(q, At(r).check) \/ At(r).fate = "goesOn"
  PROVE  RequestOK(GoesOn(q))
<1> DEFINE old == req[r]
           h == Handler[old.path]
           n == old.pos
           check == h[n].check
<1>1. old \in Requested /\ Running(old) BY DEF RequestsOK, RequestOK
<1>2. WellFormed(h) /\ n \in 1..Len(h) /\ Len(h) \in Nat \ {0}
  BY <1>1, HandlersWellFormed DEF Running, WellFormed
<1>3. At(r) = h[n] BY DEF At
<1>4. /\ q \in Requested
      /\ q.path = old.path /\ q.pos = n /\ q.fate = "running" /\ q.wasOpen = old.wasOpen
      /\ q.slot = IF check \in {"slot", "active", "wall"} THEN slot ELSE old.slot
      /\ q.index = IF check = "index" THEN index ELSE old.index
  BY <1>1, <1>3, ReadsOne DEF RequestsOK
<1>5. /\ old.path \in Paths
      /\ slot = "open" \/ old.slot = "open" => old.wasOpen = "yes"
      /\ SlotFound(h, n) => old.slot # "absent" \/ old.wasOpen = "yes"
      /\ SlotOpen(h, n) => old.wasOpen = "yes"
  BY <1>1 DEF Running
<1>6. /\ check \in {"slot", "open", "active"} => MayPass(q, check)
      /\ check = "wall" => SlotOpen(h, n)
  BY <1>2, <1>3 DEF WellFormed
<1>7. /\ check = "slot" => q.slot # "absent"
      /\ check = "open" => q.slot # "closed"
      /\ check = "active" => q.slot = "open"
  BY <1>6 DEF MayPass, Holds
<1> HIDE DEF check, h
<1>8. slot \in {"absent", "open", "closed"} /\ q.slot \in {"absent", "open", "closed"}
  BY <1>4 DEF RequestsOK, Requested
<1>9. /\ slot = "open" \/ q.slot = "open" => q.wasOpen = "yes"
      /\ SlotFound(h, n + 1) => q.slot # "absent" \/ q.wasOpen = "yes"
      /\ SlotOpen(h, n + 1) => q.wasOpen = "yes"
  <2>1. n \in Nat \ {0} BY <1>2
  <2>2. /\ SlotFound(h, n + 1) <=> SlotFound(h, n) \/ check = "slot"
        /\ SlotOpen(h, n + 1) <=>
             SlotOpen(h, n) \/ check = "active" \/ (check = "open" /\ SlotFound(h, n))
    BY <2>1, OneFurther DEF check
  <2> HIDE DEF n, old
  <2>3. slot = "open" \/ q.slot = "open" => q.wasOpen = "yes" BY <1>4, <1>5
  <2>4. SlotFound(h, n) => old.slot # "absent" \/ old.wasOpen = "yes" BY <1>5
  <2>5. SlotFound(h, n) => q.slot # "absent" \/ q.wasOpen = "yes" BY <1>4, <1>5, <1>6, <1>7, <1>8
  <2>6. SlotOpen(h, n) => q.wasOpen = "yes" BY <1>4, <1>5
  <2> QED BY <1>7, <1>8, <2>2, <2>3, <2>5, <2>6
<1>10. CASE n = Len(h)
  <2>1. GoesOn(q) = Return(q, "ads") BY <1>4, <1>10 DEF GoesOn, h
  <2>2. old.path \notin {"native", "sub"} => q.wasOpen = "yes"
    BY <1>5, <1>9, <1>10, HandlersCheckSlot DEF h
  <2>3. /\ GoesOn(q) \in Requested /\ GoesOn(q).path = old.path /\ GoesOn(q).fate = "ads"
        /\ GoesOn(q).wasOpen = q.wasOpen
    BY <1>4, <1>5, <2>1, ReturnKeeps
  <2> QED BY <1>5, <2>2, <2>3 DEF RequestOK, Returned
<1>11. CASE n # Len(h)
  <2>1. GoesOn(q) = [q EXCEPT !.pos = n + 1] BY <1>4, <1>11 DEF GoesOn, h
  <2>2. n + 1 \in 1..Len(h) BY <1>2, <1>11
  <2>3. /\ GoesOn(q) \in Requested /\ GoesOn(q).path = old.path /\ GoesOn(q).pos = n + 1
        /\ GoesOn(q).fate = "running" /\ GoesOn(q).wasOpen = q.wasOpen /\ GoesOn(q).slot = q.slot
    BY <1>4, <2>1, <2>2 DEF Requested
  <2>4. Running(GoesOn(q)) BY <1>5, <1>9, <2>2, <2>3 DEF Running, h
  <2> QED BY <2>3, <2>4 DEF RequestOK
<1> QED BY <1>10, <1>11

(* A handler that fails leaves nothing but how it ended.                   *)
LEMMA FailStep ==
  ASSUME RequestsOK, NEW r \in Requests, req[r].fate = "running",
         NEW q \in Reads(req[r], At(r).check), At(r).fate # "goesOn"
  PROVE  RequestOK(Return(q, At(r).fate))
<1> DEFINE old == req[r]
           fate == At(r).fate
<1>1. old \in Requested /\ Running(old) BY DEF RequestsOK, RequestOK
<1>2. fate \in Fates \ {"goesOn"}
  BY <1>1, HandlersWellFormed DEF At, Running, WellFormed
<1>3. q \in Requested /\ q.path = old.path
  BY <1>1, ReadsOne DEF RequestsOK
<1>4. old.path \in Paths
  BY <1>1 DEF Running
<1> HIDE DEF old, fate
<1>5. /\ Return(q, fate) \in Requested
      /\ Return(q, fate).path = old.path /\ Return(q, fate).fate = fate
  BY <1>2, <1>3, <1>4, ReturnKeeps DEF Fates
<1>6. Returned(Return(q, fate)) BY <1>2, <1>3, <1>4, <1>5 DEF Returned, Fates
<1> QED BY <1>2, <1>5, <1>6 DEF RequestOK, Fates, fate

(* No step loses what the handlers have made sure of.                      *)
LEMMA RequestsStep == RequestsOK /\ [Next]_vars => RequestsOK'
<1> SUFFICES ASSUME RequestsOK, [Next]_vars PROVE RequestsOK'
  OBVIOUS
<1>1. ASSUME UNCHANGED <<index, slot, req>> PROVE RequestsOK'
  BY <1>1 DEF RequestsOK, RequestOK, Running, Requested, Returned, SlotFound, SlotOpen
<1>2. CASE PublishIndex
  <2>1. index' \in 0..MaxVersion
    BY <1>2, HandlersAssumption DEF PublishIndex, RequestsOK
  <2>2. UNCHANGED <<slot, req>>
    BY <1>2 DEF PublishIndex
  <2> QED BY <2>1, <2>2 DEF RequestsOK, RequestOK, Running, Requested, Returned, SlotFound, SlotOpen
<1>3. ASSUME NEW state \in {"absent", "open", "closed"}, PublishSlot(state) PROVE RequestsOK'
  <2>1. slot' = state /\ index' = index BY <1>3 DEF PublishSlot
  <2>2. ASSUME NEW r \in Requests PROVE RequestOK(req[r])'
    <3>1. RequestOK(req[r]) BY DEF RequestsOK
    <3>2. req'[r] = IF req[r].fate = "running" /\ state = "open"
                    THEN [req[r] EXCEPT !.wasOpen = "yes"] ELSE req[r]
      BY <1>3 DEF PublishSlot
    <3>3. CASE req[r].fate = "running" /\ state = "open"
      <4> DEFINE q == req[r]
      <4>1. q \in Requested /\ Running(q) BY <3>1, <3>3 DEF RequestOK
      <4>2. /\ req'[r] \in Requested /\ req'[r].path = q.path /\ req'[r].pos = q.pos
            /\ req'[r].fate = "running" /\ req'[r].wasOpen = "yes" /\ req'[r].slot = q.slot
        BY <3>2, <3>3, <4>1 DEF Requested
      <4>3. Running(req[r])' BY <4>1, <4>2 DEF Running, SlotFound, SlotOpen
      <4> QED BY <4>2, <4>3 DEF RequestOK, Requested
    <3>4. CASE ~(req[r].fate = "running" /\ state = "open")
      BY <2>1, <3>1, <3>2, <3>4 DEF RequestOK, Running, Requested, Returned, SlotFound, SlotOpen
    <3> QED BY <3>3, <3>4
  <2>3. req' \in [Requests -> Requested]
    <3>1. \A r \in Requests : req'[r] \in Requested BY <2>2 DEF RequestOK, Requested
    <3>2. req' = [r \in Requests |-> req'[r]] BY <1>3 DEF PublishSlot
    <3> QED BY <3>1, <3>2
  <2> QED BY <2>1, <2>2, <2>3 DEF RequestsOK, Requested
<1>4. ASSUME NEW r \in Requests, NEW q, RequestOK(q), req' = [req EXCEPT ![r] = q],
             UNCHANGED <<index, slot>>
      PROVE  RequestsOK'
  <2>1. req' \in [Requests -> Requested] BY <1>4 DEF RequestsOK, RequestOK
  <2>2. \A o \in Requests : req'[o] = IF o = r THEN q ELSE req[o] BY <1>4 DEF RequestsOK
  <2>3. \A o \in Requests : RequestOK(req'[o]) BY <1>4, <2>2 DEF RequestsOK
  <2>4. ASSUME NEW o \in Requests PROVE RequestOK(req[o])'
    <3>1. Running(req'[o]) => Running(req[o])' BY <1>4 DEF Running, SlotFound, SlotOpen
    <3>2. Returned(req'[o]) => Returned(req[o])' BY DEF Returned
    <3> QED BY <2>3, <3>1, <3>2 DEF RequestOK, Requested
  <2> QED BY <1>4, <2>1, <2>4 DEF RequestsOK, Requested
<1>5. ASSUME NEW r \in Requests, Step(r) PROVE RequestsOK'
  <2>1. UNCHANGED <<index, slot>> /\ req[r].fate = "running" BY <1>5 DEF Step
  <2>2. PICK q \in Reads(req[r], At(r).check) :
          \/ /\ MayPass(q, At(r).check) \/ (MayFail(q, At(r).check) /\ At(r).fate = "goesOn")
             /\ req' = [req EXCEPT ![r] = GoesOn(q)]
          \/ /\ At(r).fate # "goesOn"
             /\ req' = [req EXCEPT ![r] = Return(q, At(r).fate)]
    BY <1>5, StepIs
  <2>3. CASE req' = [req EXCEPT ![r] = GoesOn(q)] /\ (MayPass(q, At(r).check) \/ At(r).fate = "goesOn")
    <3>1. RequestOK(GoesOn(q)) BY <2>1, <2>3, PassStep
    <3> QED BY <1>4, <2>1, <2>3, <3>1
  <2>4. CASE req' = [req EXCEPT ![r] = Return(q, At(r).fate)] /\ At(r).fate # "goesOn"
    <3>1. RequestOK(Return(q, At(r).fate)) BY <2>1, <2>4, FailStep
    <3> QED BY <1>4, <2>1, <2>4, <3>1
  <2> QED BY <2>2, <2>3, <2>4
<1>6. ASSUME NEW r \in Requests, NEW path \in PathsOf[r], Arrive(r, path) PROVE RequestsOK'
  <2> DEFINE q == [Idle EXCEPT !.path = path, !.pos = 1, !.fate = "running",
                               !.wasOpen = IF slot = "open" THEN "yes" ELSE "no"]
  <2>1. req' = [req EXCEPT ![r] = q] /\ UNCHANGED <<index, slot>> BY <1>6 DEF Arrive
  <2>2. path \in Paths /\ Len(Handler[path]) \in Nat \ {0}
    BY <1>6, PathsAssumption, HandlersWellFormed DEF WellFormed
  <2>3. /\ q \in Requested /\ q.path = path /\ q.pos = 1 /\ q.fate = "running" /\ q.index = 0
        /\ q.slot = "absent"
        /\ q.wasOpen = IF slot = "open" THEN "yes" ELSE "no"
    BY <2>2, IdleIs DEF Requested
  <2> HIDE DEF q
  <2>4. Running(q) BY <2>2, <2>3 DEF Running, SlotFound, SlotOpen
  <2>5. RequestOK(q) BY <2>3, <2>4 DEF RequestOK
  <2> QED BY <1>4, <2>1, <2>5
<1>7. CASE QpsStat
  BY <1>1, <1>7 DEF QpsStat, QpsLoadSdk, QpsTotal, QpsDelta, QpsLast
<1>8. CASE UNCHANGED vars BY <1>1, <1>8 DEF vars
<1> QED BY <1>2, <1>3, <1>5, <1>6, <1>7, <1>8 DEF Next

(* No request has come in yet.                                             *)
LEMMA RequestsInit == Init => RequestsOK
BY HandlersAssumption DEF Init, RequestsOK, RequestOK, Idle, Requested, Running, Returned

(* The invariant holds throughout.                                         *)
LEMMA RequestsAlways == Spec => []RequestsOK
BY RequestsInit, RequestsStep, PTL DEF Spec

(* Ads are served of no slot that was never open while the request was     *)
(* handled, whichever handler it met and whatever is published meanwhile.  *)
THEOREM ClosedSlotsServeNothing == Spec => []ClosedServesNothing
<1>1. RequestsOK => ClosedServesNothing
  BY DEF RequestsOK, RequestOK, Returned, ClosedServesNothing
<1> QED BY <1>1, RequestsAlways, PTL

-----------------------------------------------------------------------------
(* Counting. *)

(* The outcomes counted in s, as a set.                                    *)
OutcomeSet(s) == UNION {{c} \X (1..stat[s][c]) : c \in Counters \ {"TotReq"}}

Counts ==
  /\ stat \in [Stats -> [Counters -> Nat]]
  /\ StatisticsAddUp

(* Counting adds one to the counters of the path's statistics.             *)
LEMMA IncrAddsOne ==
  ASSUME stat \in [Stats -> [Counters -> Nat]], NEW path, NEW counters, incr(path, counters)
  PROVE  \A s \in Stats : \A c \in Counters : stat'[s][c] =
           IF path \in DOMAIN SubStatistic /\ SubStatistic[path] = s /\ c \in counters
           THEN stat[s][c] + 1 ELSE stat[s][c]
<1>1. CASE path \in DOMAIN SubStatistic
  <2> DEFINE p == SubStatistic[path]
             new == [c \in Counters |-> IF c \in counters THEN stat[p][c] + 1 ELSE stat[p][c]]
  <2>1. stat' = [stat EXCEPT ![p] = new]
    BY <1>1 DEF incr
  <2>2. \A c \in Counters : new[c] = IF c \in counters THEN stat[p][c] + 1 ELSE stat[p][c]
    OBVIOUS
  <2> HIDE DEF p, new
  <2>3. \A s \in Stats : stat'[s] = IF s = p THEN new ELSE stat[s]
    BY <2>1
  <2> QED BY <1>1, <2>2, <2>3 DEF p
<1>2. CASE path \notin DOMAIN SubStatistic
  BY <1>2 DEF incr
<1> QED BY <1>1, <1>2

(* The pairs of a counter are those of its count.                          *)
LEMMA InOutcomeSet ==
  ASSUME NEW s
  PROVE  /\ \A o : o \in OutcomeSet(s) <=>
              \E c \in Counters \ {"TotReq"} : \E n \in 1..stat[s][c] : o = <<c, n>>
         /\ \A o : o \in OutcomeSet(s)' <=>
              \E c \in Counters \ {"TotReq"} : \E n \in 1..stat'[s][c] : o = <<c, n>>
BY DEF OutcomeSet

(* There are finitely many counters, and so finitely many outcomes.        *)
LEMMA OutcomesFinite ==
  ASSUME NEW n \in [Counters -> Nat]
  PROVE  IsFiniteSet(UNION {{c} \X (1..n[c]) : c \in Counters \ {"TotReq"}})
<1> DEFINE S == Counters \ {"TotReq"}
           T == {{c} \X (1..n[c]) : c \in S}
           f == [c \in S |-> {c} \X (1..n[c])]
<1>1. IsFiniteSet(S)
  <2> DEFINE e == <<"CtxErr", "DnfNil", "TplNoMatch", "TplSizeErr", "ImgWH0", "RetrievalFilted",
                    "RankFilted", "WuganFilted", "ImpRateFilted", "Imp">>
  <2>1. e \in [1..10 -> S] BY DEF Counters, Filtered
  <2>2. \A c \in S : \E i \in 1..10 : e[i] = c
    <3> SUFFICES ASSUME NEW c \in S PROVE \E i \in 1..10 : e[i] = c
      OBVIOUS
    <3>1. e[1] = "CtxErr" /\ e[2] = "DnfNil" /\ e[3] = "TplNoMatch" /\ e[4] = "TplSizeErr"
          /\ e[5] = "ImgWH0" /\ e[6] = "RetrievalFilted" /\ e[7] = "RankFilted"
          /\ e[8] = "WuganFilted" /\ e[9] = "ImpRateFilted" /\ e[10] = "Imp"
      OBVIOUS
    <3> HIDE DEF e
    <3> QED BY <3>1 DEF Counters, Filtered
  <2> HIDE DEF e, S
  <2>3. e \in Surjection(1..10, S) BY <2>1, <2>2 DEF Surjection
  <2>4. IsFiniteSet(1..10)
    <3>1. 1 \in Int /\ 10 \in Int OBVIOUS
    <3> HIDE DEF T, f
    <3> QED BY <3>1, FS_Interval
  <2> QED BY <2>3, <2>4, FS_Surjection
<1>2. f \in Surjection(S, T) BY DEF Surjection
<1>3. IsFiniteSet(T) BY <1>1, <1>2, FS_Surjection
<1>4. ASSUME NEW t \in T PROVE IsFiniteSet(t)
  <2>1. PICK c \in S : t = {c} \X (1..n[c]) OBVIOUS
  <2>2. IsFiniteSet({c}) BY FS_Singleton
  <2>3. IsFiniteSet(1..n[c])
    <3>1. n[c] \in Int OBVIOUS
    <3> QED BY <3>1, FS_Interval
  <2> HIDE DEF S, T
  <2> QED BY <2>1, <2>2, <2>3, FS_Product
<1> HIDE DEF T
<1>5. IsFiniteSet(UNION T) BY <1>3, <1>4, FS_UNION
<1> QED BY <1>5 DEF T

(* The outcomes grow by one when one counter of them does, and stay when   *)
(* none does.                                                              *)
LEMMA OutcomesGrow ==
  ASSUME stat \in [Stats -> [Counters -> Nat]], NEW s \in Stats,
         NEW counted \in SUBSET (Counters \ {"TotReq"}),
         counted = {} \/ \E c \in Counters : counted = {c},
         \A c \in Counters \ {"TotReq"} : stat'[s][c] = IF c \in counted THEN stat[s][c] + 1 ELSE stat[s][c]
  PROVE  /\ Outcomes(s) \in Nat
         /\ Outcomes(s)' = Outcomes(s) + (IF counted = {} THEN 0 ELSE 1)
<1>1. /\ Outcomes(s) = Cardinality(OutcomeSet(s)) /\ Outcomes(s)' = Cardinality(OutcomeSet(s)')
      /\ IsFiniteSet(OutcomeSet(s)) /\ Outcomes(s) \in Nat
  <2>1. IsFiniteSet(OutcomeSet(s)) BY OutcomesFinite DEF OutcomeSet
  <2>2. Outcomes(s) = Cardinality(OutcomeSet(s)) /\ Outcomes(s)' = Cardinality(OutcomeSet(s)')
    BY DEF Outcomes, OutcomeSet
  <2> QED BY <2>1, <2>2, FS_CardinalityType
<1>2. CASE counted = {}
  <2>1. \A c \in Counters \ {"TotReq"} : stat'[s][c] = stat[s][c] BY <1>2
  <2>2. OutcomeSet(s)' = OutcomeSet(s) BY <2>1 DEF OutcomeSet
  <2> QED BY <1>1, <1>2, <2>2
<1>3. CASE counted # {}
  <2>1. PICK c \in Counters \ {"TotReq"} : counted = {c} BY <1>3
  <2> DEFINE n == stat[s][c]
  <2>2. n \in Nat OBVIOUS
  <2>3. /\ stat'[s][c] = n + 1
        /\ \A d \in Counters \ {"TotReq"} : d # c => stat'[s][d] = stat[s][d]
    BY <2>1
  <2>4. <<c, n + 1>> \notin OutcomeSet(s)
    <3>1. SUFFICES ASSUME NEW d \in Counters \ {"TotReq"}, NEW k \in 1..stat[s][d], <<c, n + 1>> = <<d, k>>
                   PROVE  FALSE
      BY InOutcomeSet
    <3>2. d = c /\ k = n + 1 BY <3>1
    <3> QED BY <2>2, <3>2
  <2>5. OutcomeSet(s)' = OutcomeSet(s) \cup {<<c, n + 1>>}
    <3>1. ASSUME NEW o \in OutcomeSet(s)' PROVE o \in OutcomeSet(s) \cup {<<c, n + 1>>}
      <4>1. PICK d \in Counters \ {"TotReq"} : \E k \in 1..stat'[s][d] : o = <<d, k>> BY InOutcomeSet
      <4>0. PICK k \in 1..stat'[s][d] : o = <<d, k>> BY <4>1
      <4>2. CASE d = c /\ k = n + 1 BY <4>0, <4>2
      <4>3. CASE d # c \/ k # n + 1
        <5>1. k \in 1..stat[s][d] BY <2>2, <2>3, <4>3
        <5> QED BY <4>0, <5>1, InOutcomeSet
      <4> QED BY <4>2, <4>3
    <3>2. ASSUME NEW o \in OutcomeSet(s) PROVE o \in OutcomeSet(s)'
      <4>1. PICK d \in Counters \ {"TotReq"} : \E k \in 1..stat[s][d] : o = <<d, k>> BY InOutcomeSet
      <4>0. PICK k \in 1..stat[s][d] : o = <<d, k>> BY <4>1
      <4>2. k \in 1..stat'[s][d] BY <2>2, <2>3
      <4> QED BY <4>0, <4>2, InOutcomeSet
    <3>3. <<c, n + 1>> \in OutcomeSet(s)'
      <4>1. n + 1 \in 1..stat'[s][c] BY <2>2, <2>3
      <4> QED BY <4>1, InOutcomeSet
    <3> QED BY <3>1, <3>2, <3>3
  <2> HIDE DEF n
  <2>6. /\ IsFiniteSet(OutcomeSet(s) \cup {<<c, n + 1>>})
        /\ Cardinality(OutcomeSet(s) \cup {<<c, n + 1>>}) = Cardinality(OutcomeSet(s)) + 1
    BY <1>1, <2>4, FS_AddElement
  <2> QED BY <1>1, <1>3, <2>5, <2>6
<1> QED BY <1>2, <1>3

(* The statistics a path counts in.                                        *)
LEMMA InPathsIn ==
  \A s \in Stats : \A p : p \in PathsIn[s] <=> p \in DOMAIN SubStatistic /\ SubStatistic[p] = s
BY DEF PathsIn

(* Whether a request is among those of a kind with a fate, as a number.    *)
One(q, s, fate) == IF q.path \in PathsIn[s] /\ q.fate = fate THEN 1 ELSE 0

(* What one request does to the number of those with a fate.               *)
LEMMA WithStep ==
  ASSUME req \in [Requests -> Requested], NEW r \in Requests, NEW q \in Requested,
         req' = [req EXCEPT ![r] = q], NEW s \in Stats, NEW fate
  PROVE  /\ Cardinality(With(s, fate)) \in Nat
         /\ Cardinality(With(s, fate)') = Cardinality(With(s, fate))
              - One(req[r], s, fate) + One(q, s, fate)
<1> DEFINE W == With(s, fate)
           old == req[r].path \in PathsIn[s] /\ req[r].fate = fate
           new == q.path \in PathsIn[s] /\ q.fate = fate
<1>1. IsFiniteSet(Requests) BY HandlersAssumption
<1>2. W \subseteq Requests /\ (r \in W <=> old) BY DEF With, CountedIn
<1>3. IsFiniteSet(W) /\ Cardinality(W) \in Nat BY <1>1, <1>2, FS_Subset, FS_CardinalityType
<1>4. \A o \in Requests : o \in With(s, fate)' <=> IF o = r THEN new ELSE o \in W
  <2>1. \A o \in Requests : req'[o] = IF o = r THEN q ELSE req[o] OBVIOUS
  <2>2. \A o \in Requests : o \in With(s, fate)' <=> req'[o].path \in PathsIn[s] /\ req'[o].fate = fate
    BY DEF With, CountedIn, PathsIn, Stats
  <2>3. \A o \in Requests : o \in W <=> req[o].path \in PathsIn[s] /\ req[o].fate = fate
    BY DEF With, CountedIn
  <2> QED BY <2>1, <2>2, <2>3
<1>5. With(s, fate)' \subseteq Requests BY DEF With, CountedIn
<1>6. With(s, fate)' = (W \ {r}) \cup (IF new THEN {r} ELSE {}) BY <1>2, <1>4, <1>5
<1> HIDE DEF W, old, new
<1>7. /\ IsFiniteSet(W \ {r})
      /\ Cardinality(W \ {r}) = Cardinality(W) - (IF old THEN 1 ELSE 0)
  <2>1. CASE old BY <1>2, <1>3, <2>1, FS_RemoveElement
  <2>2. CASE ~old
    <3>1. W \ {r} = W BY <1>2, <2>2
    <3> QED BY <1>3, <2>2, <3>1
  <2> QED BY <2>1, <2>2
<1>8. Cardinality(With(s, fate)') = Cardinality(W \ {r}) + (IF new THEN 1 ELSE 0)
  <2>1. CASE new
    <3>1. With(s, fate)' = (W \ {r}) \cup {r} /\ r \notin W \ {r} BY <1>6, <2>1
    <3>2. Cardinality((W \ {r}) \cup {r}) = Cardinality(W \ {r}) + 1 BY <1>7, <3>1, FS_AddElement
    <3> QED BY <2>1, <3>1, <3>2
  <2>2. CASE ~new
    <3>1. With(s, fate)' = W \ {r} BY <1>6, <2>2
    <3>2. Cardinality(W \ {r}) \in Nat BY <1>7, FS_CardinalityType
    <3> QED BY <2>2, <3>1, <3>2
  <2> QED BY <2>1, <2>2
<1> QED BY <1>3, <1>7, <1>8 DEF W, old, new, One

(* What a step of a request counts, by what becomes of it: its arrival,    *)
(* its impression, its one outcome, or nothing.                            *)
CountedRight(q, counters) ==
  CASE q.fate = "ads" -> counters = {"Imp"}
    [] q.fate = "answered" -> \E c \in Filtered : counters = {c}
    [] OTHER -> counters = {}

(* The balance is kept by such steps, and that of impressions by any that  *)
(* counts one for ads only.                                                *)
LEMMA CountsStep ==
  ASSUME Counts, req \in [Requests -> Requested], NEW r \in Requests, NEW q \in Requested,
         req' = [req EXCEPT ![r] = q], q.fate # "idle",
         NEW counters \in SUBSET Counters, incr(q.path, counters),
         \/ req[r] = Idle /\ q.fate = "running" /\ counters = {"TotReq"}
         \/ /\ req[r].fate = "running" /\ req[r].path = q.path
            /\ "TotReq" \notin counters /\ ("Imp" \in counters <=> q.fate = "ads")
            /\ q.path \in DOMAIN SubStatistic \ {"jstagH5"} => CountedRight(q, counters)
  PROVE  Counts'
<1> DEFINE old == req[r]
           Has(f) == IF old.fate = f THEN 1 ELSE 0
           Gets(f) == IF q.fate = f THEN 1 ELSE 0
<1>1. stat \in [Stats -> [Counters -> Nat]] BY DEF Counts
<1>2. stat' \in [Stats -> [Counters -> Nat]] BY <1>1, CountersStayCounters
<1>3. \A s \in Stats : \A c \in Counters : stat'[s][c] =
        IF q.path \in DOMAIN SubStatistic /\ SubStatistic[q.path] = s /\ c \in counters
        THEN stat[s][c] + 1 ELSE stat[s][c]
  BY <1>1, IncrAddsOne
<1>4. "none" \notin DOMAIN SubStatistic BY DEF SubStatistic
<1>5. q.fate \in {"running", "answered", "uncounted", "panic", "ads"} BY DEF Requested
<1>6. "Imp" \in Counters /\ "TotReq" \in Counters /\ Filtered \subseteq Counters
      /\ "Imp" \notin Filtered /\ "TotReq" \notin Filtered
  BY DEF Counters, Filtered
<1>0. ASSUME NEW s \in Stats, NEW f
      PROVE  /\ Cardinality(With(s, f)) \in Nat
             /\ Cardinality(With(s, f)') = Cardinality(With(s, f))
                  - One(req[r], s, f) + One(q, s, f)
  <2> HIDE DEF old, Has, Gets
  <2> QED BY WithStep
<1>7. ASSUME NEW s \in Stats, ~(q.path \in DOMAIN SubStatistic /\ SubStatistic[q.path] = s)
      PROVE  /\ \A c \in Counters : stat'[s][c] = stat[s][c]
             /\ Outcomes(s)' = Outcomes(s)
             /\ \A f : Cardinality(With(s, f)') = Cardinality(With(s, f))
  <2>1. \A c \in Counters : stat'[s][c] = stat[s][c] BY <1>3, <1>7
  <2>3. Outcomes(s)' = Outcomes(s)
    <3>1. {} \in SUBSET (Counters \ {"TotReq"})
      OBVIOUS
    <3>2. \A c \in Counters \ {"TotReq"} : stat'[s][c] = IF c \in {} THEN stat[s][c] + 1 ELSE stat[s][c]
      BY <2>1
    <3>3. Outcomes(s) \in Nat /\ Outcomes(s)' = Outcomes(s) + (IF {} = {} THEN 0 ELSE 1)
      BY <1>1, <3>1, <3>2, OutcomesGrow
    <3> QED BY <3>3
  <2>4. q.path \notin PathsIn[s] /\ old.path \notin PathsIn[s]
    BY <1>4, <1>7, InPathsIn DEF Idle
  <2>5. ASSUME NEW f PROVE Cardinality(With(s, f)') = Cardinality(With(s, f))
    <3>1. One(req[r], s, f) = 0 /\ One(q, s, f) = 0 BY <2>4 DEF One
    <3> QED BY <1>0, <3>1
  <2> QED BY <2>1, <2>3, <2>5
<1>8. ASSUME NEW s \in Stats, q.path \in DOMAIN SubStatistic, SubStatistic[q.path] = s
      PROVE  /\ stat'[s].TotReq = stat[s].TotReq + (IF "TotReq" \in counters THEN 1 ELSE 0)
             /\ stat'[s].Imp = stat[s].Imp + Gets("ads")
             /\ \A f : /\ Cardinality(With(s, f)) \in Nat
                       /\ f # "idle" =>
                            Cardinality(With(s, f)') = Cardinality(With(s, f)) - Has(f) + Gets(f)
  <2>1. "Imp" \in counters <=> q.fate = "ads" OBVIOUS
  <2>2. q.path \in PathsIn[s] BY <1>8, InPathsIn
  <2>3. (old.path = "none" /\ old.fate = "idle") \/ old.path \in PathsIn[s] BY <2>2 DEF Idle
  <2>4. "none" \notin PathsIn[s] BY <1>4, InPathsIn
  <2>5. ASSUME NEW f
        PROVE  /\ Cardinality(With(s, f)) \in Nat
               /\ f # "idle" =>
                    Cardinality(With(s, f)') = Cardinality(With(s, f)) - Has(f) + Gets(f)
    <3>1. One(q, s, f) = Gets(f) BY <2>2 DEF One
    <3>2. f # "idle" => One(req[r], s, f) = Has(f) BY <2>3, <2>4 DEF One
    <3> QED BY <1>0, <3>1, <3>2
  <2>6. /\ stat'[s]["TotReq"] = stat[s]["TotReq"] + (IF "TotReq" \in counters THEN 1 ELSE 0)
        /\ stat'[s]["Imp"] = stat[s]["Imp"] + (IF "Imp" \in counters THEN 1 ELSE 0)
    <3>1. stat[s]["TotReq"] \in Nat /\ stat[s]["Imp"] \in Nat BY <1>1, <1>6
    <3> QED BY <1>3, <1>6, <1>8, <3>1
  <2> QED BY <2>1, <2>5, <2>6
<1>9. ASSUME NEW s \in Stats PROVE stat'[s].Imp = Cardinality(With(s, "ads")')
  <2>1. stat[s].Imp = Cardinality(With(s, "ads")) BY DEF Counts, StatisticsAddUp, ImpressionsAreAnswers
  <2>2. CASE q.path \in DOMAIN SubStatistic /\ SubStatistic[q.path] = s
    <3>1. Has("ads") = 0 BY DEF Idle
    <3>2. /\ stat'[s].Imp = stat[s].Imp + Gets("ads")
          /\ Cardinality(With(s, "ads")) \in Nat
          /\ Cardinality(With(s, "ads")') = Cardinality(With(s, "ads")) - Has("ads") + Gets("ads")
      BY <1>8, <2>2
    <3> HIDE DEF Gets, Has
    <3>3. Gets("ads") \in {0, 1} BY DEF Gets
    <3> QED BY <2>1, <3>1, <3>2, <3>3
  <2>3. CASE ~(q.path \in DOMAIN SubStatistic /\ SubStatistic[q.path] = s)
    BY <1>6, <1>7, <2>1, <2>3
  <2> QED BY <2>2, <2>3
<1>10. ASSUME NEW s \in Stats \ {"jstagH5"}
       PROVE  stat'[s].TotReq = Outcomes(s)'
                + Cardinality(With(s, "running")') + Cardinality(With(s, "panic")')
                + Cardinality(With(s, "uncounted")')
  <2>1. stat[s].TotReq = Outcomes(s)
          + Cardinality(With(s, "running")) + Cardinality(With(s, "panic"))
          + Cardinality(With(s, "uncounted"))
    BY DEF Counts, StatisticsAddUp, CountersBalance
  <2>2. CASE ~(q.path \in DOMAIN SubStatistic /\ SubStatistic[q.path] = s)
    BY <1>6, <1>7, <2>1, <2>2
  <2>3. CASE q.path \in DOMAIN SubStatistic /\ SubStatistic[q.path] = s
    <3> DEFINE counted == counters \ {"TotReq"}
               Grows == IF counted = {} THEN 0 ELSE 1
               Arrives == IF "TotReq" \in counters THEN 1 ELSE 0
    <3>1. q.path \in DOMAIN SubStatistic \ {"jstagH5"} BY <2>3, <1>10 DEF SubStatistic
    <3>2. \/ old.fate = "idle" /\ q.fate = "running" /\ counters = {"TotReq"}
          \/ /\ old.fate = "running" /\ "TotReq" \notin counters /\ CountedRight(q, counters)
      BY <3>1 DEF Idle
    <3>3. counted = {} \/ \E c \in Counters : counted = {c}
      BY <1>5, <1>6, <3>2 DEF CountedRight
    <3>4. \A c \in Counters \ {"TotReq"} :
            stat'[s][c] = IF c \in counted THEN stat[s][c] + 1 ELSE stat[s][c]
      BY <1>3, <2>3
    <3>5. Outcomes(s) \in Nat /\ Outcomes(s)' = Outcomes(s) + Grows
      <4> HIDE DEF Has, Gets
      <4> QED BY <1>1, <3>3, <3>4, OutcomesGrow
    <3>6. /\ stat'[s].TotReq = stat[s].TotReq + Arrives
          /\ \A f \in {"running", "panic", "uncounted"} :
               /\ Cardinality(With(s, f)) \in Nat
               /\ Cardinality(With(s, f)') = Cardinality(With(s, f)) - Has(f) + Gets(f)
      BY <1>8, <2>3
    <3>7. Arrives = Grows - Has("running") + Gets("running") - Has("panic") + Gets("panic")
                      - Has("uncounted") + Gets("uncounted")
      BY <1>5, <1>6, <3>2 DEF CountedRight
    <3>8. \A f \in {"running", "panic", "uncounted"} : Has(f) \in Int /\ Gets(f) \in Int
      OBVIOUS
    <3>9. Grows \in Int OBVIOUS
    <3> HIDE DEF Grows, Arrives, Has, Gets
    <3> QED BY <2>1, <3>5, <3>6, <3>7, <3>8, <3>9
  <2> QED BY <2>2, <2>3
<1> QED BY <1>2, <1>9, <1>10 DEF Counts, StatisticsAddUp, CountersBalance, ImpressionsAreAnswers

(* Where a handler is when it has passed a gate, and that it counts an     *)
(* impression when that was the last.                                      *)
LEMMA GoesOnIs ==
  ASSUME NEW q \in Requested, q.path \in Paths, q.fate = "running"
  PROVE  /\ GoesOn(q).path = q.path
         /\ GoesOn(q).fate = IF q.pos = Len(Handler[q.path]) THEN "ads" ELSE "running"
         /\ CountsImp(q) = IF GoesOn(q).fate = "ads" THEN {"Imp"} ELSE {}
<1>1. CASE q.pos = Len(Handler[q.path])
  BY <1>1, ReturnKeeps DEF GoesOn, CountsImp
<1>2. CASE q.pos # Len(Handler[q.path])
  <2>1. GoesOn(q) = [q EXCEPT !.pos = q.pos + 1] BY <1>2 DEF GoesOn
  <2>2. GoesOn(q).path = q.path /\ GoesOn(q).fate = "running" BY <2>1 DEF Requested
  <2> QED BY <1>2, <2>2 DEF CountsImp
<1> QED BY <1>1, <1>2

(* A step of a handler keeps the balance.                                  *)
LEMMA StepCounts ==
  ASSUME RequestsOK, Counts, NEW r \in Requests, Step(r)
  PROVE  Counts'
<1> DEFINE old == req[r]
           h == Handler[old.path]
           gate == h[old.pos]
<1>1. /\ old \in Requested /\ Running(old) /\ old.fate = "running"
      /\ req \in [Requests -> Requested]
  BY DEF RequestsOK, RequestOK, Step
<1>2. /\ old.path \in Paths /\ old.pos \in 1..Len(h)
      /\ gate.fate \in Fates /\ gate.counters \subseteq Filtered
  BY <1>1, HandlersWellFormed DEF Running, WellFormed
<1>3. old.path \in DOMAIN SubStatistic \ {"jstagH5"} =>
        IF gate.fate = "answered" THEN \E c \in Filtered : gate.counters = {c} ELSE gate.counters = {}
  BY <1>2, HandlersCountOnce DEF CountedOnce
<1>4. At(r) = gate BY DEF At
<1>5. PICK q \in Reads(old, gate.check) : Pass(r, q) \/ Fail(r, q) \/ PassOver(r, q)
  BY <1>4 DEF Step
<1>6. q \in Requested /\ q.path = old.path /\ q.pos = old.pos /\ q.fate = "running"
  BY <1>1, <1>5, ReadsOne DEF RequestsOK
<1>7. /\ Filtered \subseteq Counters /\ "Imp" \in Counters
      /\ "Imp" \notin Filtered /\ "TotReq" \notin Filtered /\ "TotReq" # "Imp"
  BY DEF Counters, Filtered
<1> HIDE DEF gate, h, old
<1>8. ASSUME MayPass(q, gate.check) \/ gate.fate = "goesOn", req' = [req EXCEPT ![r] = GoesOn(q)],
             NEW counted \in SUBSET Filtered, incr(q.path, counted \cup CountsImp(q)),
             q.path \in DOMAIN SubStatistic \ {"jstagH5"} => counted = {}
      PROVE  Counts'
  <2> DEFINE new == GoesOn(q)
             counters == counted \cup CountsImp(q)
  <2>1. RequestOK(new) BY <1>1, <1>4, <1>5, <1>8, PassStep DEF old
  <2>2. /\ new \in Requested /\ new.path = q.path /\ new.fate \in {"ads", "running"}
        /\ CountsImp(q) = IF new.fate = "ads" THEN {"Imp"} ELSE {}
    BY <1>2, <1>6, <2>1, GoesOnIs DEF RequestOK
  <2>3. /\ counters \in SUBSET Counters /\ "TotReq" \notin counters
        /\ "Imp" \in counters <=> new.fate = "ads"
        /\ new.path \in DOMAIN SubStatistic \ {"jstagH5"} => CountedRight(new, counters)
    BY <1>7, <1>8, <2>2 DEF CountedRight
  <2>4. incr(new.path, counters) /\ req' = [req EXCEPT ![r] = new] BY <1>8, <2>2
  <2>5. req[r].fate = "running" /\ req[r].path = new.path /\ new.fate # "idle"
    BY <1>1, <1>6, <2>2 DEF old
  <2> HIDE DEF new, counters
  <2> QED BY <1>1, <2>2, <2>3, <2>4, <2>5, CountsStep
<1>9. CASE Pass(r, q)
  <2>1. /\ MayPass(q, gate.check) /\ req' = [req EXCEPT ![r] = GoesOn(q)]
        /\ incr(q.path, {} \cup CountsImp(q))
    <3>1. {} \cup CountsImp(q) = CountsImp(q) OBVIOUS
    <3> QED BY <1>4, <1>9, <3>1 DEF Pass
  <2>2. {} \in SUBSET Filtered OBVIOUS
  <2> QED BY <1>8, <2>1, <2>2
<1>10. CASE PassOver(r, q)
  <2>1. /\ gate.fate = "goesOn" /\ req' = [req EXCEPT ![r] = GoesOn(q)]
        /\ incr(q.path, gate.counters \cup CountsImp(q))
    BY <1>4, <1>10 DEF PassOver
  <2>2. q.path \in DOMAIN SubStatistic \ {"jstagH5"} => gate.counters = {} BY <1>3, <1>6, <2>1
  <2> QED BY <1>2, <1>8, <2>1, <2>2
<1>11. CASE Fail(r, q)
  <2> DEFINE new == Return(q, gate.fate)
             counters == gate.counters
  <2>1. gate.fate \in {"answered", "uncounted", "panic"}
    BY <1>2, <1>4, <1>11 DEF Fail, Fates
  <2>2. new \in Requested /\ new.path = q.path /\ new.fate = gate.fate
    BY <1>2, <1>6, <2>1, ReturnKeeps
  <2>3. incr(new.path, counters) /\ req' = [req EXCEPT ![r] = new]
    BY <1>4, <1>11, <2>2 DEF Fail
  <2>4. /\ counters \in SUBSET Counters /\ "TotReq" \notin counters
        /\ "Imp" \in counters <=> new.fate = "ads"
        /\ new.path \in DOMAIN SubStatistic \ {"jstagH5"} => CountedRight(new, counters)
    BY <1>2, <1>3, <1>6, <1>7, <2>1, <2>2 DEF CountedRight
  <2>5. req[r].fate = "running" /\ req[r].path = new.path /\ new.fate # "idle"
    BY <1>1, <1>6, <2>1, <2>2 DEF old
  <2> HIDE DEF new, counters
  <2> QED BY <1>1, <2>2, <2>3, <2>4, <2>5, CountsStep
<1> QED BY <1>5, <1>9, <1>10, <1>11

(* So does an arrival.                                                     *)
LEMMA ArriveCounts ==
  ASSUME RequestsOK, Counts, NEW r \in Requests, NEW path \in PathsOf[r], Arrive(r, path)
  PROVE  Counts'
<1> DEFINE new == [Idle EXCEPT !.path = path, !.pos = 1, !.fate = "running",
                               !.wasOpen = IF slot = "open" THEN "yes" ELSE "no"]
<1>1. path \in Paths BY PathsAssumption
<1>2. new \in Requested /\ new.path = path /\ new.fate = "running" BY <1>1, IdleIs DEF Requested
<1>3. req' = [req EXCEPT ![r] = new] /\ incr(path, {"TotReq"}) /\ req[r].fate = "idle" BY DEF Arrive
<1> HIDE DEF new
<1>4. req[r] = Idle /\ req \in [Requests -> Requested] BY <1>3 DEF RequestsOK, RequestOK
<1>5. {"TotReq"} \in SUBSET Counters BY DEF Counters
<1>6. new.fate # "idle" /\ incr(new.path, {"TotReq"}) BY <1>2, <1>3
<1> QED BY <1>2, <1>3, <1>4, <1>5, <1>6, CountsStep

(* Nothing else touches the statistics or where a request ends up.         *)
LEMMA OthersCountNothing ==
  ASSUME Counts, UNCHANGED stat,
         \A r \in Requests : req'[r].path = req[r].path /\ req'[r].fate = req[r].fate
  PROVE  Counts'
<1>1. \A s \in Stats : \A fate : With(s, fate)' = With(s, fate)
  BY DEF With, CountedIn, PathsIn, Stats
<1>2. \A s \in Stats : Outcomes(s)' = Outcomes(s) BY DEF Outcomes
<1> QED BY <1>1, <1>2 DEF Counts, StatisticsAddUp, CountersBalance, ImpressionsAreAnswers

(* No step upsets the balance.                                             *)
LEMMA BalanceStep == RequestsOK /\ Counts /\ [Next]_vars => Counts'
<1> SUFFICES ASSUME RequestsOK, Counts, [Next]_vars PROVE Counts'
  OBVIOUS
<1>1. CASE PublishIndex BY <1>1, OthersCountNothing DEF PublishIndex, statistics
<1>2. ASSUME NEW state \in {"absent", "open", "closed"}, PublishSlot(state) PROVE Counts'
  <2>1. UNCHANGED stat BY <1>2 DEF PublishSlot, statistics
  <2>2. ASSUME NEW r \in Requests PROVE req'[r].path = req[r].path /\ req'[r].fate = req[r].fate
    <3>1. req'[r] = IF req[r].fate = "running" /\ state = "open"
                    THEN [req[r] EXCEPT !.wasOpen = "yes"] ELSE req[r]
      BY <1>2 DEF PublishSlot
    <3>2. req[r] \in Requested BY DEF RequestsOK
    <3> QED BY <3>1, <3>2 DEF Requested
  <2> QED BY <2>1, <2>2, OthersCountNothing
<1>3. ASSUME NEW r \in Requests, Step(r) PROVE Counts' BY <1>3, StepCounts
<1>4. ASSUME NEW r \in Requests, NEW path \in PathsOf[r], Arrive(r, path) PROVE Counts'
  BY <1>4, ArriveCounts
<1>5. CASE QpsStat
  BY <1>5, OthersCountNothing DEF QpsStat, QpsLoadSdk, QpsTotal, QpsDelta, QpsLast, statistics
<1>6. CASE UNCHANGED vars BY <1>6, OthersCountNothing DEF vars
<1> QED BY <1>1, <1>2, <1>3, <1>4, <1>5, <1>6 DEF Next

(* Every request is counted when it comes in, and but for the few that are *)
(* answered without a counter, once when it is answered; an impression is  *)
(* counted for exactly the requests answered with ads.                     *)
THEOREM StatisticsBalance == Spec => []StatisticsAddUp
<1>1. Init => Counts
  <2> SUFFICES ASSUME Init PROVE Counts
    OBVIOUS
  <2>1. stat = [s \in Stats |-> [c \in Counters |-> 0]] /\ req = [r \in Requests |-> Idle] BY DEF Init
  <2>2. stat \in [Stats -> [Counters -> Nat]] BY <2>1
  <2>3. "TotReq" \in Counters /\ "Imp" \in Counters BY DEF Counters
  <2>4. \A s \in Stats : stat[s].TotReq = 0 /\ stat[s].Imp = 0 BY <2>1, <2>3
  <2>5. ASSUME NEW s \in Stats PROVE Outcomes(s) = 0
    <3>1. UNION {{c} \X (1..stat[s][c]) : c \in Counters \ {"TotReq"}} = {}
      <4>1. \A c \in Counters : 1..stat[s][c] = {} BY <2>1
      <4> QED BY <4>1
    <3> QED BY <3>1, FS_EmptySet DEF Outcomes
  <2>6. ASSUME NEW s \in Stats, NEW fate PROVE Cardinality(With(s, fate)) = 0
    <3>1. "none" \notin PathsIn[s] BY DEF PathsIn, SubStatistic
    <3>2. With(s, fate) = {} BY <2>1, <3>1, IdleIs DEF With, CountedIn
    <3> QED BY <3>2, FS_EmptySet
  <2> QED BY <2>2, <2>4, <2>5, <2>6 DEF Counts, StatisticsAddUp, CountersBalance, ImpressionsAreAnswers
<1>2. Counts => StatisticsAddUp BY DEF Counts
<1> QED BY <1>1, <1>2, RequestsAlways, BalanceStep, PTL DEF Spec

-----------------------------------------------------------------------------
(* Types. *)

(* The sampler stops at its bound.                                         *)
SamplesBounded == StatisticsTypeOK /\ sampler.samples <= MaxSamples

(* Every variable keeps to its type.                                       *)
THEOREM HandlersTypeCorrect == Spec => []TypeOK
<1>1. Init => SamplesBounded
  BY HandlersAssumption DEF Init, SamplesBounded, StatisticsTypeOK
<1>2. QpsInvariant /\ QpsInvariant' /\ SamplesBounded /\ [Next]_vars => SamplesBounded'
  <2> SUFFICES ASSUME QpsInvariant, QpsInvariant', SamplesBounded, [Next]_vars
               PROVE  sampler'.samples <= MaxSamples
    BY DEF SamplesBounded, QpsInvariant
  <2>1. CASE QpsLoadSdk
    BY <2>1, HandlersAssumption DEF QpsLoadSdk, SamplesBounded, StatisticsTypeOK
  <2>2. CASE sampler'.samples = sampler.samples
    BY <2>2 DEF SamplesBounded
  <2>3. CASE QpsTotal \/ QpsDelta \/ QpsLast
    <3>1. sampler'.samples = sampler.samples
      BY <2>3 DEF QpsTotal, QpsDelta, QpsLast, SamplesBounded, StatisticsTypeOK
    <3> QED BY <2>2, <3>1
  <2>4. CASE UNCHANGED sampler BY <2>2, <2>4
  <2> QED
    BY <2>1, <2>3, <2>4 DEF Next, QpsStat, PublishIndex, PublishSlot, Step, Arrive, vars
<1>3. QpsInvariant /\ RequestsOK /\ SamplesBounded => TypeOK
  BY HandlersAssumption DEF QpsInvariant, RequestsOK, SamplesBounded, StatisticsTypeOK, TypeOK
<1>4. Init => QpsInvariant
  BY HandlersAssumption DEF Init, QpsInvariant, StatisticsTypeOK, Lag, Ahead
<1> QED BY <1>1, <1>2, <1>3, <1>4, QpsStep, RequestsAlways, PTL DEF Spec
=============================================================================
