---------------------------- MODULE StatusReport ----------------------------
(***************************************************************************)
(* The ring of per-minute reports behind GET /status (src/src/status):     *)
(* ad handlers record the requests of a minute in its slot, a status       *)
(* request prepares and encodes the slot of the last minute, and a timer   *)
(* clears the slot of the next one.  A slot is made on its first visit by  *)
(* double-checked locking, whose first check and whose users do not lock.  *)
(*                                                                         *)
(* Whether a request is recorded at all is decided by the controller of    *)
(* SampleCtrl; here any request may be.  Keys are left out: a map is the   *)
(* number of requests counted in it, and the maps that preReport drops are *)
(* those that are counted in country.                                      *)
(***************************************************************************)
EXTENDS Integers, Sequences, FiniteSets

CONSTANTS AdHandlers, \* concurrent ad requests
          Viewers,    \* concurrent status requests
          Cleaner,    \* the goroutine of Serve
          Nobody,     \* an unlocked slot
          NumSlots,   \* the 60 slots of the ring
          MaxDelay,   \* minutes from the start of a request to its record (a bound)
          MaxMinute,  \* length of a behaviour in minutes (a bound)
          MaxReqs     \* number of requests in a behaviour (a bound)

\* The goroutines are distinct.  The ring has 60 slots and the hour is far
\* longer than a request: the slot the timer clears, of the next minute, is
\* not that of a minute still recorded, nor that of the last one, which a
\* status request reads and may take into the next minute.
ASSUME StatusReportAssumption ==
    /\ IsFiniteSet(AdHandlers)
    /\ AdHandlers \cap Viewers = {}
    /\ Cleaner \notin AdHandlers \cup Viewers
    /\ Nobody \notin AdHandlers \cup Viewers \cup {Cleaner}
    /\ MaxDelay \in Nat \ {0} /\ NumSlots \in Nat /\ MaxDelay + 1 < NumSlots
    /\ MaxMinute \in Nat /\ MaxReqs \in Nat

Goroutines == AdHandlers \cup Viewers \cup {Cleaner}

VARIABLES
    now,        \* minutes since the start
    swept,      \* whether the timer has fired in this minute
    reqs,       \* requests started
    inited,     \* reportInfo.inited of each slot
    retrieval,  \* reportInfo.Retrieval, an index of reports, 0 is nil
    phase,      \* reportInfo.Phase, likewise
    mutex,      \* reportInfo.Mutex: its owner
    reports,    \* every retrievalReport and phaseReport made so far
    pc, minute, ptr  \* of each goroutine: place, minute it works on, report it holds

slots == <<inited, retrieval, phase, mutex>>
reportVars == <<now, swept, reqs, slots, reports, pc, minute, ptr>>

Slots == 0..(NumSlots - 1)
Slot(g) == minute[g] % NumSlots

Places == {"idle", "visit", "lock", "newRetrieval", "newPhase", "deref",
           "record", "recordPhase", "pre", "encode", "clear", "clearRetrieval",
           "clearPhase", "nilPointer", "nilMap"}

Report == [adType : Nat, country : Nat, phases : Nat, topOk : BOOLEAN,
           minutes : SUBSET (0..MaxMinute)]

ReportTypeOK ==
    /\ now \in 0..MaxMinute
    /\ swept \in BOOLEAN
    /\ reqs \in 0..MaxReqs
    /\ inited \in [Slots -> BOOLEAN]
    /\ reports \in Seq(Report)
    /\ retrieval \in [Slots -> 0..Len(reports)]
    /\ phase \in [Slots -> 0..Len(reports)]
    /\ mutex \in [Slots -> Goroutines \cup {Nobody}]
    /\ pc \in [Goroutines -> Places]
    /\ minute \in [Goroutines -> 0..(MaxMinute + 1)]
    /\ ptr \in [Goroutines -> 0..Len(reports)]

ReportInit ==
    /\ now = 0
    /\ swept = FALSE
    /\ reqs = 0
    /\ inited = [s \in Slots |-> FALSE]
    /\ retrieval = [s \in Slots |-> 0]
    /\ phase = [s \in Slots |-> 0]
    /\ mutex = [s \in Slots |-> Nobody]
    /\ reports = <<>>
    /\ pc = [g \in Goroutines |-> "idle"]
    /\ minute = [g \in Goroutines |-> 0]
    /\ ptr = [g \in Goroutines |-> 0]

Goto(g, place) == pc' = [pc EXCEPT ![g] = place]

AtPlace(g, place) == pc[g] = place

-----------------------------------------------------------------------------
(* Time: the timer fires once in a minute, somewhere in it, and a request   *)
(* is recorded at most MaxDelay minutes after it came in.                   *)

NextMinute ==
    /\ now < MaxMinute
    /\ swept
    /\ AtPlace(Cleaner, "idle")
    /\ \A g \in AdHandlers \cup Viewers :
         pc[g] # "idle" => now + 1 <= minute[g] + MaxDelay
    /\ now' = now + 1
    /\ swept' = FALSE
    /\ UNCHANGED <<reqs, slots, reports, pc, minute, ptr>>

-----------------------------------------------------------------------------
(* reportInfo.visit                                                        *)

visitQuick(g) ==
    /\ AtPlace(g, "visit")
    /\ Goto(g, IF inited[Slot(g)] THEN "deref" ELSE "lock")
    /\ UNCHANGED <<now, swept, reqs, slots, reports, minute, ptr>>

\* The locked part without its second check of inited.
visitLockOnce(g) ==
    /\ AtPlace(g, "lock")
    /\ mutex[Slot(g)] = Nobody
    /\ mutex' = [mutex EXCEPT ![Slot(g)] = g]
    /\ inited' = [inited EXCEPT ![Slot(g)] = TRUE]
    /\ Goto(g, "newRetrieval")
    /\ UNCHANGED <<now, swept, reqs, retrieval, phase, reports, minute, ptr>>

visitLock(g) ==
    /\ AtPlace(g, "lock")
    /\ mutex[Slot(g)] = Nobody
    /\ \/ /\ inited[Slot(g)]
          /\ Goto(g, "deref")
          /\ UNCHANGED <<mutex, inited>>
       \/ /\ ~inited[Slot(g)]
          /\ mutex' = [mutex EXCEPT ![Slot(g)] = g]
          /\ inited' = [inited EXCEPT ![Slot(g)] = TRUE]
          /\ Goto(g, "newRetrieval")
    /\ UNCHANGED <<now, swept, reqs, retrieval, phase, reports, minute, ptr>>

NewReport == [adType |-> 0, country |-> 0, phases |-> 0, topOk |-> FALSE,
              minutes |-> {}]

visitRetrieval(g) ==
    /\ AtPlace(g, "newRetrieval")
    /\ reports' = Append(reports, NewReport)
    /\ retrieval' = [retrieval EXCEPT ![Slot(g)] = Len(reports')]
    /\ Goto(g, "newPhase")
    /\ UNCHANGED <<now, swept, reqs, inited, phase, mutex, minute, ptr>>

\* The two reports of a slot are made together, so they share an index.
visitPhase(g) ==
    /\ AtPlace(g, "newPhase")
    /\ phase' = [phase EXCEPT ![Slot(g)] = retrieval[Slot(g)]]
    /\ mutex' = [mutex EXCEPT ![Slot(g)] = Nobody]
    /\ Goto(g, "deref")
    /\ UNCHANGED <<now, swept, reqs, inited, retrieval, reports, minute, ptr>>

-----------------------------------------------------------------------------
(* status.RecordReq, by a handler whose context was made in this minute.   *)

startRecord(h) ==
    /\ AtPlace(h, "idle")
    /\ reqs < MaxReqs
    /\ reqs' = reqs + 1
    /\ minute' = [minute EXCEPT ![h] = now]
    /\ Goto(h, "visit")
    /\ UNCHANGED <<now, swept, slots, reports, ptr>>

\* info.Retrieval is read without the lock.
derefRetrieval(g, next) ==
    /\ AtPlace(g, "deref")
    /\ ptr' = [ptr EXCEPT ![g] = retrieval[Slot(g)]]
    /\ Goto(g, IF ptr'[g] = 0 THEN "nilPointer" ELSE next)
    /\ UNCHANGED <<now, swept, reqs, slots, reports, minute>>

\* recordRequest under the lock of the report: the ad type is counted before
\* the country, whose map preReport has dropped once topOk.
recordRequest(h) ==
    LET n == ptr[h]
    IN  /\ AtPlace(h, "record")
        /\ reports' = [reports EXCEPT
                         ![n].adType = @ + 1,
                         ![n].country = IF reports[n].topOk THEN @ ELSE @ + 1,
                         ![n].minutes = @ \cup {minute[h]}]
        /\ Goto(h, IF reports[n].topOk THEN "nilMap" ELSE "recordPhase")
        /\ UNCHANGED <<now, swept, reqs, slots, minute, ptr>>

recordPhase(h) ==
    LET n == phase[Slot(h)]
    IN  /\ AtPlace(h, "recordPhase")
        /\ reports' = IF n = 0 THEN reports
                      ELSE [reports EXCEPT ![n].phases = @ + 1]
        /\ Goto(h, IF n = 0 THEN "nilPointer" ELSE "idle")
        /\ UNCHANGED <<now, swept, reqs, slots, minute, ptr>>

\* net/http recovers the panic of a handler and drops its connection.
recover(g) ==
    /\ pc[g] \in {"nilPointer", "nilMap"}
    /\ Goto(g, "idle")
    /\ UNCHANGED <<now, swept, reqs, slots, reports, minute, ptr>>

-----------------------------------------------------------------------------
(* report.getReports, of the slot of the last minute.                      *)

\* A report of the minute that is not over yet.
startReportOfNow(v) ==
    /\ AtPlace(v, "idle")
    /\ reqs < MaxReqs
    /\ now > 0
    /\ reqs' = reqs + 1
    /\ minute' = [minute EXCEPT ![v] = now]
    /\ Goto(v, "visit")
    /\ UNCHANGED <<now, swept, slots, reports, ptr>>

startReport(v) ==
    /\ AtPlace(v, "idle")
    /\ reqs < MaxReqs
    /\ now > 0
    /\ reqs' = reqs + 1
    /\ minute' = [minute EXCEPT ![v] = now - 1]
    /\ Goto(v, "visit")
    /\ UNCHANGED <<now, swept, slots, reports, ptr>>

\* "for quick return": topOk is first read without the lock.
preReportQuick(v) ==
    /\ AtPlace(v, "record")
    /\ Goto(v, IF reports[ptr[v]].topOk THEN "encode" ELSE "pre")
    /\ UNCHANGED <<now, swept, reqs, slots, reports, minute, ptr>>

preReport(v) ==
    /\ AtPlace(v, "pre")
    /\ reports' = [reports EXCEPT ![ptr[v]].topOk = TRUE]
    /\ Goto(v, "encode")
    /\ UNCHANGED <<now, swept, reqs, slots, minute, ptr>>

encode(v) ==
    /\ AtPlace(v, "encode")
    /\ Goto(v, "idle")
    /\ UNCHANGED <<now, swept, reqs, slots, reports, minute, ptr>>

-----------------------------------------------------------------------------
(* The goroutine of Serve and reportInfo.clear.                            *)

sweep ==
    /\ ~swept
    /\ swept' = TRUE
    /\ minute' = [minute EXCEPT ![Cleaner] = now + 1]
    /\ Goto(Cleaner, "clear")
    /\ UNCHANGED <<now, reqs, slots, reports, ptr>>

\* A clear that forgets inited.
clearKeepsInited ==
    /\ AtPlace(Cleaner, "clear")
    /\ mutex[Slot(Cleaner)] = Nobody
    /\ mutex' = [mutex EXCEPT ![Slot(Cleaner)] = Cleaner]
    /\ Goto(Cleaner, "clearRetrieval")
    /\ UNCHANGED <<now, swept, reqs, inited, retrieval, phase, reports, minute, ptr>>

clearInited ==
    /\ AtPlace(Cleaner, "clear")
    /\ mutex[Slot(Cleaner)] = Nobody
    /\ mutex' = [mutex EXCEPT ![Slot(Cleaner)] = Cleaner]
    /\ inited' = [inited EXCEPT ![Slot(Cleaner)] = FALSE]
    /\ Goto(Cleaner, "clearRetrieval")
    /\ UNCHANGED <<now, swept, reqs, retrieval, phase, reports, minute, ptr>>

clearRetrieval ==
    /\ AtPlace(Cleaner, "clearRetrieval")
    /\ retrieval' = [retrieval EXCEPT ![Slot(Cleaner)] = 0]
    /\ Goto(Cleaner, "clearPhase")
    /\ UNCHANGED <<now, swept, reqs, inited, phase, mutex, reports, minute, ptr>>

clearPhase ==
    /\ AtPlace(Cleaner, "clearPhase")
    /\ phase' = [phase EXCEPT ![Slot(Cleaner)] = 0]
    /\ mutex' = [mutex EXCEPT ![Slot(Cleaner)] = Nobody]
    /\ Goto(Cleaner, "idle")
    /\ UNCHANGED <<now, swept, reqs, inited, retrieval, reports, minute, ptr>>

-----------------------------------------------------------------------------
visit(g) == visitQuick(g) \/ visitLock(g) \/ visitRetrieval(g) \/ visitPhase(g)

RecordReq(h) ==
    \/ startRecord(h)
    \/ visit(h)
    \/ derefRetrieval(h, "record")
    \/ recordRequest(h)
    \/ recordPhase(h)
    \/ recover(h)

getReports(v) ==
    \/ startReport(v)
    \/ visit(v)
    \/ derefRetrieval(v, "record")
    \/ preReportQuick(v)
    \/ preReport(v)
    \/ encode(v)
    \/ recover(v)

Serve == sweep \/ clearInited \/ clearRetrieval \/ clearPhase

\* A behaviour ends where the bounds on time and requests are reached.
Finished ==
    /\ now = MaxMinute /\ reqs = MaxReqs /\ swept
    /\ \A g \in Goroutines : AtPlace(g, "idle")
    /\ UNCHANGED reportVars

ReportNext ==
    \/ \E h \in AdHandlers : RecordReq(h)
    \/ \E v \in Viewers : getReports(v)
    \/ Serve
    \/ NextMinute
    \/ Finished

ReportSpec == ReportInit /\ [][ReportNext]_reportVars

-----------------------------------------------------------------------------
(* Properties.                                                             *)

\* A handler past visit meets a nil report only while another goroutine is
\* between inited = true (report.go:31) and the assignment after it: the
\* window of that panic closes with the first visit, and the clearing of
\* slots never opens another.
NilOnlyWhileVisited ==
    \A g \in AdHandlers \cup Viewers :
        \/ AtPlace(g, "deref") /\ retrieval[Slot(g)] = 0
        \/ AtPlace(g, "recordPhase") /\ phase[Slot(g)] = 0
        => \E f \in Goroutines \ {g} :
              /\ mutex[Slot(g)] = f
              /\ pc[f] \in {"newRetrieval", "newPhase"}

\* A report never mixes requests of different hours (status.go:47): the slot
\* of the next minute is cleared before its minute begins.
MinutesNotMixed ==
    \A n \in DOMAIN reports : Cardinality(reports[n].minutes) <= 1

\* The phase report of a slot counts no request its retrieval report lacks:
\* double-checked locking makes one report per slot (report.go:19-34), so no
\* handler counts in the retrieval report of one visit and in the phase
\* report of another (status.go:22-24).
PhasesWithinRequests ==
    \A n \in DOMAIN reports :
        reports[n].phases
            + Cardinality({h \in AdHandlers : AtPlace(h, "recordPhase") /\ ptr[h] = n})
        <= reports[n].country

\* The figures of a report are those of the requests of one minute.
ReportOfOneMinute == MinutesNotMixed /\ PhasesWithinRequests

\* Whoever is recorded in the minute it came in is safe from the status page:
\* it writes no map that preReport has released (retrieval_report.go:90, 102),
\* and no map that an encoder is reading without its lock (report.go:52).
\* Both are left to requests whose minute is over, for a report is prepared
\* after its minute and its slot is cleared before the next minute it is for.
OnlyLateMeetPrepared ==
    \A h \in AdHandlers : minute[h] = now =>
        /\ ~AtPlace(h, "nilMap")
        /\ pc[h] \in {"record", "recordPhase"} =>
             \A v \in Viewers : ~(AtPlace(v, "encode") /\ ptr[v] = ptr[h])

\* Memory that preReport releases is not used again (retrieval_report.go:210,
\* "release memory").
ReleasedNotUsed == \A h \in AdHandlers : pc[h] # "nilMap"
=============================================================================
