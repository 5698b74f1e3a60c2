------------------------- MODULE StatusReportProofs -------------------------
(***************************************************************************)
(* The report ring is sound for every number of handlers, status pages and *)
(* slots, and for every delay of a request that is shorter than the ring   *)
(* (StatusReportAssumption).                                               *)
(*                                                                         *)
(* None of the three invariants is inductive.  NilOnlyWhileVisited needs   *)
(* what the double-checked lock of visit establishes: an unlocked slot has *)
(* both of its reports or neither, inited tells which, and the requests of *)
(* a slot are too close together for the timer to come between them        *)
(* (RingInv).  ReportOfOneMinute needs in addition that what is recorded   *)
(* in a slot is of a minute of that slot whose round has not come again,   *)
(* which holds because the timer clears the slot of a minute before the    *)
(* minute begins (FiguresInv).  OnlyLateMeetPrepared needs the same of     *)
(* what is prepared: it is in no slot of this minute (PreparedInv).        *)
(*                                                                         *)
(* The last theorem is about the reports next to the handlers.             *)
(***************************************************************************)
EXTENDS MCRecords, HandlersProofs, TLAPS, FiniteSetTheorems

(* The goroutines that visit a slot, and those that are doing so.          *)
Requesters == AdHandlers \cup Viewers
Busy(g) == pc[g] # "idle"

(* Where a goroutine holds the lock of its slot, where it has passed visit *)
(* or is making the reports itself, and where it holds a report.           *)
Making == {"newRetrieval", "newPhase"}
Clearing == {"clearRetrieval", "clearPhase"}
Past == {"record", "recordPhase", "pre", "encode"}

(* Only the timer clears slots.                                            *)
PlacesOK ==
  /\ pc[Cleaner] \in {"idle", "clear"} \cup Clearing
  /\ \A g \in Requesters : pc[g] \notin {"clear"} \cup Clearing

(* Requests are of the last minutes, and the timer is a minute ahead.      *)
MinutesOK ==
  /\ \A g \in Requesters : Busy(g) => minute[g] <= now /\ now <= minute[g] + MaxDelay
  /\ Busy(Cleaner) => minute[Cleaner] = now + 1 /\ swept

(* A slot is locked by the goroutine that makes or clears its reports.     *)
LocksOK ==
  /\ \A s \in Slots : mutex[s] # Nobody => Slot(mutex[s]) = s /\ pc[mutex[s]] \in Making \cup Clearing
  /\ \A g \in Goroutines : pc[g] \in Making \cup Clearing => mutex[Slot(g)] = g

(* A slot that is not locked has both of its reports, the same, or neither *)
(* of them, and inited tells which.                                        *)
SlotsOK ==
  /\ \A s \in Slots : mutex[s] = Nobody =>
       /\ phase[s] = retrieval[s]
       /\ inited[s] <=> retrieval[s] # 0
  /\ \A g \in Goroutines :
       /\ pc[g] = "newRetrieval" => retrieval[Slot(g)] = 0 /\ phase[Slot(g)] = 0
       /\ pc[g] = "newPhase" => retrieval[Slot(g)] # 0 /\ phase[Slot(g)] = 0
       /\ pc[g] \in Clearing => ~inited[Slot(g)]
       /\ pc[g] = "clearPhase" => retrieval[Slot(g)] = 0

(* Past visit, the slot is inited, and keeps the report a goroutine holds. *)
VisitedOK == \A g \in Requesters :
  /\ pc[g] \in Making \cup {"deref"} \cup Past => inited[Slot(g)]
  /\ pc[g] \in Past => ptr[g] # 0 /\ ptr[g] = retrieval[Slot(g)]

(* No two slots have the same report.                                      *)
OwnReports ==
  \A s, t \in Slots : retrieval[s] = retrieval[t] /\ retrieval[s] # 0 => s = t

RingInv == ReportTypeOK /\ PlacesOK /\ MinutesOK /\ LocksOK /\ SlotsOK /\ VisitedOK /\ OwnReports

(* The timer has cleared the slot of the next minute.                      *)
Cleared == swept /\ pc[Cleaner] \in {"idle", "clearPhase"}

(* What is recorded in a slot is of a minute of that slot, and none but    *)
(* the present and those whose slots have not come round again.            *)
SlotMinutes ==
  \A s \in Slots : retrieval[s] # 0 =>
    \A m \in reports[retrieval[s]].minutes :
      /\ m % NumSlots = s /\ m <= now /\ now + 1 <= m + NumSlots
      /\ Cleared => now + 1 # m + NumSlots

OneMinute == \A n \in DOMAIN reports : \A a, b \in reports[n].minutes : a = b

FiguresInv == SlotMinutes /\ OneMinute /\ PhasesWithinRequests

-----------------------------------------------------------------------------
(* The ring. *)

(* Minutes less than a round apart have different slots.                   *)
LEMMA Division ==
  ASSUME NEW N \in Int, N > 0, NEW a \in Int
  PROVE  /\ \E q \in Int : a = N * q + (a % N)
         /\ a % N \in 0..(N - 1)
OBVIOUS

(* Minutes of one slot less than a round apart are the same minute.        *)
LEMMA RoundApart ==
  ASSUME NEW a \in Nat, NEW b \in Nat, a % NumSlots = b % NumSlots, a - b < NumSlots, b - a < NumSlots
  PROVE  a = b
<1> DEFINE N == NumSlots
<1>0. N \in Int /\ N > 0 /\ a \in Int /\ b \in Int BY StatusReportAssumption
<1>1. PICK p \in Int : a = N * p + (a % N)
  BY <1>0, Division
<1>2. PICK q \in Int : b = N * q + (b % N)
  BY <1>0, Division
<1>3. a % N \in Int BY <1>0, Division
<1> HIDE DEF N
<1>4. N * p - N * q < N /\ N * q - N * p < N
  <2>1. N * p \in Int /\ N * q \in Int BY <1>0
  <2>2. a % N = b % N /\ a - b < N /\ b - a < N BY DEF N
  <2> QED BY <1>1, <1>2, <1>3, <2>1, <2>2
<1>5. ~(p > q)
  <2>1. p > q => N * p >= N * q + N BY <1>0
  <2>2. N * p \in Int /\ N * q \in Int BY <1>0
  <2> QED BY <1>0, <1>4, <2>1, <2>2
<1>6. ~(q > p)
  <2>1. q > p => N * q >= N * p + N BY <1>0
  <2>2. N * p \in Int /\ N * q \in Int BY <1>0
  <2> QED BY <1>0, <1>4, <2>1, <2>2
<1>7. p = q BY <1>5, <1>6
<1>8. a % N = b % N BY DEF N
<1> QED BY <1>1, <1>2, <1>7, <1>8

(* Every minute has a slot.                                                *)
LEMMA SlotTypes ==
  ASSUME ReportTypeOK
  PROVE  /\ \A g \in Goroutines : Slot(g) \in Slots
         /\ minute' = minute => \A g : Slot(g)' = Slot(g)
<1>1. ASSUME NEW g \in Goroutines PROVE Slot(g) \in Slots
  <2>1. minute[g] \in Int BY StatusReportAssumption DEF ReportTypeOK
  <2>2. NumSlots \in Int /\ NumSlots > 0 BY StatusReportAssumption
  <2> QED BY <2>1, <2>2, Division DEF Slot, Slots
<1> QED BY <1>1 DEF Slot

(* The slot the timer clears is not that of a request, and requests at the *)
(* same slot are of the same minute.                                       *)
LEMMA SlotsOfRequests ==
  ASSUME ReportTypeOK, MinutesOK, NEW g \in Requesters, Busy(g)
  PROVE  /\ (now + 1) % NumSlots # Slot(g)
         /\ Busy(Cleaner) => Slot(Cleaner) # Slot(g)
         /\ \A f \in Requesters : Busy(f) /\ Slot(f) = Slot(g) => minute[f] = minute[g]
         /\ minute[g] \in 0..MaxMinute
<1>1. /\ minute[g] \in Nat /\ now \in 0..MaxMinute /\ minute[g] <= now /\ now <= minute[g] + MaxDelay
      /\ MaxDelay \in Nat /\ NumSlots \in Nat /\ MaxDelay + 1 < NumSlots /\ MaxMinute \in Nat
  BY StatusReportAssumption DEF ReportTypeOK, MinutesOK, Requesters, Goroutines
<1>2. (now + 1) % NumSlots # minute[g] % NumSlots
  <2>1. now + 1 \in Nat /\ (now + 1) - minute[g] < NumSlots /\ minute[g] - (now + 1) < NumSlots
        /\ now + 1 # minute[g]
    BY <1>1
  <2> QED BY <1>1, <2>1, RoundApart
<1>3. Busy(Cleaner) => Slot(Cleaner) # Slot(g)
  BY <1>2 DEF MinutesOK, Slot
<1>4. ASSUME NEW f \in Requesters, Busy(f), Slot(f) = Slot(g) PROVE minute[f] = minute[g]
  <2>1. minute[f] \in Nat /\ minute[f] <= now /\ now <= minute[f] + MaxDelay
    BY <1>4 DEF ReportTypeOK, MinutesOK, Requesters, Goroutines
  <2>2. minute[f] - minute[g] < NumSlots /\ minute[g] - minute[f] < NumSlots BY <1>1, <2>1
  <2>3. minute[f] % NumSlots = minute[g] % NumSlots BY <1>4 DEF Slot
  <2> QED BY <1>1, <2>1, <2>2, <2>3, RoundApart
<1> QED BY <1>1, <1>2, <1>3, <1>4 DEF Slot

(* What recording a request does to its report, and to no other.           *)
LEMMA RecordIs ==
  ASSUME ReportTypeOK, NEW h \in AdHandlers, recordRequest(h),
         ptr[h] \in DOMAIN reports, minute[h] \in 0..MaxMinute
  PROVE  LET n == ptr[h]
             counted == IF reports[n].topOk THEN 0 ELSE 1
         IN  /\ reports' \in Seq(Report) /\ DOMAIN reports' = DOMAIN reports /\ Len(reports') = Len(reports)
             /\ \A i \in DOMAIN reports : i # n => reports'[i] = reports[i]
             /\ reports'[n].country = reports[n].country + counted
             /\ reports'[n].phases = reports[n].phases
             /\ reports'[n].minutes = reports[n].minutes \cup {minute[h]}
             /\ reports'[n].topOk = reports[n].topOk
             /\ pc' = [pc EXCEPT ![h] = IF reports[n].topOk THEN "nilMap" ELSE "recordPhase"]
<1> DEFINE n == ptr[h]
           old == reports[n]
           country == IF old.topOk THEN old.country ELSE old.country + 1
           new == [old EXCEPT !.adType = old.adType + 1,
                              !.country = country,
                              !.minutes = old.minutes \cup {minute[h]}]
<1>1. reports \in Seq(Report) /\ n \in 1..Len(reports) /\ old \in Report BY DEF ReportTypeOK
<1>2. reports' = [reports EXCEPT ![n] = new] BY DEF recordRequest
<1>3. /\ new \in Report
      /\ new.country = old.country + (IF old.topOk THEN 0 ELSE 1)
      /\ new.phases = old.phases /\ new.minutes = old.minutes \cup {minute[h]} /\ new.topOk = old.topOk
  <2>1. old.country \in Nat /\ old.adType \in Nat BY <1>1 DEF Report
  <2>2. new.country = IF old.topOk THEN old.country ELSE old.country + 1 BY <1>1 DEF Report
  <2>3. new.country = old.country + (IF old.topOk THEN 0 ELSE 1) BY <2>1, <2>2
  <2>4. old.minutes \cup {minute[h]} \in SUBSET (0..MaxMinute) BY <1>1 DEF Report
  <2>5. country \in Nat /\ old.adType + 1 \in Nat BY <2>1
  <2>6. new \in Report
    <3> HIDE DEF country, old
    <3> QED BY <1>1, <2>4, <2>5 DEF Report
  <2>7. new.phases = old.phases /\ new.minutes = old.minutes \cup {minute[h]} /\ new.topOk = old.topOk
    BY <1>1 DEF Report
  <2> QED BY <2>3, <2>6, <2>7
<1> HIDE DEF new
<1>4. reports' \in Seq(Report) /\ DOMAIN reports' = DOMAIN reports /\ Len(reports') = Len(reports)
  BY <1>1, <1>2, <1>3
<1>5. reports'[n] = new /\ \A i \in DOMAIN reports : i # n => reports'[i] = reports[i]
  BY <1>1, <1>2
<1>6. pc' = [pc EXCEPT ![h] = IF reports[n].topOk THEN "nilMap" ELSE "recordPhase"]
  BY DEF recordRequest, Goto
<1> QED BY <1>3, <1>4, <1>5, <1>6

(* What counting a phase does (phaseReport.recordPhase).                   *)
LEMMA RecordPhaseIs ==
  ASSUME ReportTypeOK, NEW h \in AdHandlers, recordPhase(h), phase[Slot(h)] \in DOMAIN reports
  PROVE  LET n == phase[Slot(h)]
         IN  /\ reports' \in Seq(Report) /\ DOMAIN reports' = DOMAIN reports /\ Len(reports') = Len(reports)
             /\ \A i \in DOMAIN reports : i # n => reports'[i] = reports[i]
             /\ reports'[n].phases = reports[n].phases + 1
             /\ reports'[n].country = reports[n].country
             /\ reports'[n].minutes = reports[n].minutes
             /\ reports'[n].topOk = reports[n].topOk
             /\ pc' = [pc EXCEPT ![h] = "idle"]
<1> DEFINE n == phase[Slot(h)]
           old == reports[n]
           new == [old EXCEPT !.phases = old.phases + 1]
<1>1. reports \in Seq(Report) /\ n \in 1..Len(reports) /\ old \in Report /\ n # 0 BY DEF ReportTypeOK
<1>2. reports' = [reports EXCEPT ![n] = new] BY <1>1 DEF recordPhase
<1>3. /\ new \in Report /\ new.phases = old.phases + 1
      /\ new.country = old.country /\ new.minutes = old.minutes /\ new.topOk = old.topOk
  <2>1. old.phases + 1 \in Nat BY <1>1 DEF Report
  <2> QED BY <1>1, <2>1 DEF Report
<1> HIDE DEF new
<1>4. reports' \in Seq(Report) /\ DOMAIN reports' = DOMAIN reports /\ Len(reports') = Len(reports)
  BY <1>1, <1>2, <1>3
<1>5. reports'[n] = new /\ \A i \in DOMAIN reports : i # n => reports'[i] = reports[i]
  BY <1>1, <1>2
<1>6. pc' = [pc EXCEPT ![h] = "idle"] BY <1>1 DEF recordPhase, Goto
<1> QED BY <1>3, <1>4, <1>5, <1>6

(* Preparing a report changes neither its counts nor its minutes.          *)
LEMMA PreReportIs ==
  ASSUME ReportTypeOK, NEW v \in Viewers, preReport(v), ptr[v] \in DOMAIN reports
  PROVE  /\ reports' \in Seq(Report) /\ DOMAIN reports' = DOMAIN reports /\ Len(reports') = Len(reports)
         /\ \A i \in DOMAIN reports : /\ reports'[i].phases = reports[i].phases
                                      /\ reports'[i].country = reports[i].country
                                      /\ reports'[i].minutes = reports[i].minutes
         /\ \A i \in DOMAIN reports : i # ptr[v] => reports'[i] = reports[i]
         /\ reports'[ptr[v]].topOk
<1> DEFINE n == ptr[v]
           old == reports[n]
           new == [old EXCEPT !.topOk = TRUE]
<1>1. reports \in Seq(Report) /\ n \in 1..Len(reports) /\ old \in Report BY DEF ReportTypeOK
<1>2. reports' = [reports EXCEPT ![n] = new] BY DEF preReport
<1>3. /\ new \in Report /\ new.phases = old.phases
      /\ new.country = old.country /\ new.minutes = old.minutes /\ new.topOk
  BY <1>1 DEF Report
<1> HIDE DEF new
<1>4. reports' \in Seq(Report) /\ DOMAIN reports' = DOMAIN reports /\ Len(reports') = Len(reports)
  BY <1>1, <1>2, <1>3
<1>5. reports'[n] = new /\ \A i \in DOMAIN reports : i # n => reports'[i] = reports[i]
  BY <1>1, <1>2
<1> QED BY <1>3, <1>4, <1>5

(* The first visit gives the slot a report that no slot had before.        *)
LEMMA VisitRetrievalIs ==
  ASSUME ReportTypeOK, NEW g \in Requesters, visitRetrieval(g)
  PROVE  /\ reports' \in Seq(Report) /\ Len(reports') = Len(reports) + 1
         /\ DOMAIN reports' = DOMAIN reports \cup {Len(reports) + 1}
         /\ \A i \in DOMAIN reports : reports'[i] = reports[i]
         /\ reports'[Len(reports) + 1] = NewReport
         /\ retrieval' = [retrieval EXCEPT ![Slot(g)] = Len(reports) + 1]
<1>1. NewReport \in Report BY DEF NewReport, Report
<1>2. reports \in Seq(Report) BY DEF ReportTypeOK
<1>3. reports' = Append(reports, NewReport) /\ retrieval' = [retrieval EXCEPT ![Slot(g)] = Len(reports')]
  BY DEF visitRetrieval
<1> HIDE DEF NewReport
<1> QED BY <1>1, <1>2, <1>3

(* Where the requests are that hold a report, and which it is.             *)
LEMMA PtrOfPast ==
  ASSUME RingInv, NEW g \in Requesters, pc[g] \in Past
  PROVE  /\ Slot(g) \in Slots /\ ptr[g] \in DOMAIN reports /\ ptr[g] = retrieval[Slot(g)]
         /\ phase[Slot(g)] \in {0, ptr[g]}
         /\ minute[g] \in 0..MaxMinute
<1>1. /\ Slot(g) \in Slots /\ Busy(g) /\ g \in Goroutines
      /\ minute[g] \in 0..MaxMinute
  BY SlotTypes, SlotsOfRequests DEF RingInv, Busy, Past, Requesters, Goroutines
<1>2. ptr[g] # 0 /\ ptr[g] = retrieval[Slot(g)] /\ inited[Slot(g)] BY DEF RingInv, VisitedOK
<1>3. ptr[g] \in DOMAIN reports
  <2>1. retrieval[Slot(g)] \in 0..Len(reports) /\ reports \in Seq(Report) BY <1>1 DEF RingInv, ReportTypeOK
  <2> QED BY <1>2, <2>1
<1>4. phase[Slot(g)] \in {0, ptr[g]}
  <2>1. CASE mutex[Slot(g)] = Nobody BY <1>1, <1>2, <2>1 DEF RingInv, SlotsOK
  <2>2. CASE mutex[Slot(g)] # Nobody
    <3> DEFINE f == mutex[Slot(g)]
    <3>1. f \in Goroutines /\ Slot(f) = Slot(g) /\ pc[f] \in Making \cup Clearing
      BY <1>1, <2>2 DEF RingInv, LocksOK, ReportTypeOK
    <3>2. pc[f] = "newPhase" => phase[Slot(g)] = 0 BY <3>1 DEF RingInv, SlotsOK
    <3>3. pc[f] # "newRetrieval" BY <1>2, <3>1 DEF RingInv, SlotsOK
    <3>4. pc[f] \notin Clearing BY <1>2, <3>1 DEF RingInv, SlotsOK
    <3> QED BY <3>1, <3>2, <3>3, <3>4 DEF Making
  <2> QED BY <2>1, <2>2
<1> QED BY <1>1, <1>2, <1>3, <1>4

(* A request that moves on without touching the slots.                     *)
LEMMA MoveKeepsRing ==
  ASSUME RingInv, NEW g \in Requesters, NEW place \in Places \ ({"clear"} \cup Making \cup Clearing),
         Busy(g), pc[g] \notin Making, pc' = [pc EXCEPT ![g] = place],
         UNCHANGED <<now, swept, reqs, slots, minute>>,
         reports' \in Seq(Report), Len(reports') = Len(reports),
         ptr' \in [Goroutines -> 0..Len(reports)],
         \A f \in Goroutines \ {g} : ptr'[f] = ptr[f],
         place \in {"deref"} \cup Past => inited[Slot(g)],
         place \in Past => ptr'[g] # 0 /\ ptr'[g] = retrieval[Slot(g)]
  PROVE  RingInv'
<1> USE DEF RingInv
<1>1. /\ g \in Goroutines /\ g # Cleaner /\ Cleaner \in Goroutines /\ Requesters \subseteq Goroutines
      /\ Cleaner \notin Requesters
  BY StatusReportAssumption DEF Requesters, Goroutines
<1>2. \A f \in Goroutines : pc'[f] = IF f = g THEN place ELSE pc[f] BY <1>1 DEF ReportTypeOK
<1>3. /\ now' = now /\ swept' = swept /\ reqs' = reqs /\ inited' = inited /\ retrieval' = retrieval
      /\ phase' = phase /\ mutex' = mutex /\ minute' = minute
  BY DEF slots
<1>4. (\A f : Slot(f)' = Slot(f)) /\ \A f \in Goroutines : Slot(f) \in Slots BY <1>3, SlotTypes
<1>5. ReportTypeOK' BY <1>1, <1>3 DEF ReportTypeOK
<1>6. PlacesOK' BY <1>1, <1>2 DEF PlacesOK
<1>7. MinutesOK' BY <1>1, <1>2, <1>3 DEF MinutesOK, Busy
<1>8. pc[g] \notin Making \cup Clearing /\ place \notin Making \cup Clearing BY DEF PlacesOK
<1>9. LocksOK'
  <2>1. ASSUME NEW s \in Slots, mutex[s] # Nobody
        PROVE  Slot(mutex[s]) = s /\ pc'[mutex[s]] \in Making \cup Clearing
    <3>1. Slot(mutex[s]) = s /\ pc[mutex[s]] \in Making \cup Clearing /\ mutex[s] \in Goroutines
      BY <2>1 DEF LocksOK, ReportTypeOK
    <3> QED BY <1>2, <1>8, <3>1
  <2>2. ASSUME NEW f \in Goroutines, pc'[f] \in Making \cup Clearing PROVE mutex[Slot(f)] = f
    BY <1>2, <1>8, <2>2 DEF LocksOK
  <2> QED BY <1>3, <1>4, <2>1, <2>2 DEF LocksOK, Slots
<1>10. SlotsOK'
  <2>1. \A f \in Goroutines : pc'[f] \in Making \cup Clearing => pc'[f] = pc[f] BY <1>2, <1>8
  <2> QED BY <1>3, <1>4, <2>1 DEF SlotsOK, Making, Clearing, Slots
<1>11. VisitedOK' BY <1>1, <1>2, <1>3, <1>4 DEF VisitedOK
<1>12. OwnReports' BY <1>3 DEF OwnReports, Slots
<1> QED BY <1>5, <1>6, <1>7, <1>9, <1>10, <1>11, <1>12

(* The first visit takes the lock and marks the slot.                      *)
LEMMA LockKeepsRing ==
  ASSUME RingInv, NEW g \in Requesters, visitLock(g)
  PROVE  RingInv'
<1> USE DEF RingInv
<1> DEFINE s == Slot(g)
<1>1. /\ g \in Goroutines /\ g # Cleaner /\ Cleaner \in Goroutines /\ Requesters \subseteq Goroutines
      /\ Cleaner \notin Requesters /\ Nobody \notin Goroutines
  BY StatusReportAssumption DEF Requesters, Goroutines
<1>2. Busy(g) /\ pc[g] = "lock" /\ mutex[s] = Nobody BY DEF visitLock, AtPlace, Busy
<1>3. CASE inited[s]
  <2>1. pc' = [pc EXCEPT ![g] = "deref"] /\ UNCHANGED <<now, swept, reqs, slots, minute, reports, ptr>>
    BY <1>3 DEF visitLock, Goto, slots
  <2> QED BY <1>2, <1>3, <2>1, MoveKeepsRing DEF Places, Making, Clearing, Past, ReportTypeOK
<1>4. CASE ~inited[s]
  <2>1. /\ mutex' = [mutex EXCEPT ![s] = g] /\ inited' = [inited EXCEPT ![s] = TRUE]
        /\ pc' = [pc EXCEPT ![g] = "newRetrieval"]
        /\ now' = now /\ swept' = swept /\ reqs' = reqs /\ retrieval' = retrieval /\ phase' = phase
        /\ reports' = reports /\ minute' = minute /\ ptr' = ptr
    BY <1>4 DEF visitLock, Goto
  <2>2. (\A f : Slot(f)' = Slot(f)) /\ \A f \in Goroutines : Slot(f) \in Slots BY <2>1, SlotTypes
  <2>3. s \in Slots /\ Slot(g) = s BY <1>1, <2>2
  <2> HIDE DEF s
  <2>4. /\ \A f \in Goroutines : pc'[f] = IF f = g THEN "newRetrieval" ELSE pc[f]
        /\ \A t \in Slots : /\ mutex'[t] = IF t = s THEN g ELSE mutex[t]
                            /\ inited'[t] <=> t = s \/ inited[t]
    BY <1>1, <2>1, <2>3 DEF ReportTypeOK
  <2>5. \A f \in Goroutines : pc[f] \in Making \cup Clearing => Slot(f) # s
    BY <1>1, <1>2 DEF LocksOK
  <2>6. ReportTypeOK' BY <1>1, <2>1, <2>3 DEF ReportTypeOK, Places, Slots
  <2>7. PlacesOK' BY <1>1, <2>4 DEF PlacesOK, Clearing
  <2>8. MinutesOK' BY <1>1, <1>2, <2>1, <2>4 DEF MinutesOK, Busy
  <2>9. LocksOK'
    <3>1. ASSUME NEW t \in Slots, mutex'[t] # Nobody
          PROVE  Slot(mutex'[t]) = t /\ pc'[mutex'[t]] \in Making \cup Clearing
      <4>1. CASE t = s BY <1>1, <2>3, <2>4, <4>1 DEF Making
      <4>2. CASE t # s
        <5>1. mutex'[t] = mutex[t] /\ Slot(mutex[t]) = t /\ pc[mutex[t]] \in Making \cup Clearing
              /\ mutex[t] \in Goroutines
          BY <2>4, <3>1, <4>2 DEF LocksOK, ReportTypeOK
        <5> QED BY <2>3, <2>4, <4>2, <5>1
      <4> QED BY <4>1, <4>2
    <3>2. ASSUME NEW f \in Goroutines, pc'[f] \in Making \cup Clearing PROVE mutex'[Slot(f)] = f
      BY <2>2, <2>3, <2>4, <2>5, <3>2 DEF LocksOK
    <3> QED BY <2>1, <2>2, <3>1, <3>2 DEF LocksOK, Slots
  <2>10. SlotsOK'
    <3>1. retrieval[s] = 0 /\ phase[s] = 0 BY <1>2, <1>4, <2>3 DEF SlotsOK, s
    <3>2. \A t \in Slots : mutex'[t] = Nobody => mutex[t] = Nobody /\ t # s BY <1>1, <2>4
    <3>3. \A f \in Goroutines \ {g} : pc'[f] = pc[f] /\ (pc[f] \in Clearing => Slot(f) # s)
      BY <2>4, <2>5
    <3> QED BY <2>1, <2>2, <2>3, <2>4, <3>1, <3>2, <3>3 DEF SlotsOK, Clearing, Slots
  <2>11. VisitedOK'
    BY <1>1, <2>1, <2>2, <2>3, <2>4 DEF VisitedOK, Making, Past
  <2>12. OwnReports' BY <2>1 DEF OwnReports, Slots
  <2> QED BY <2>6, <2>7, <2>8, <2>9, <2>10, <2>11, <2>12
<1> QED BY <1>3, <1>4

(* The first visit makes the reports; nobody holds one of this slot yet.   *)
LEMMA RetrievalKeepsRing ==
  ASSUME RingInv, NEW g \in Requesters, visitRetrieval(g)
  PROVE  RingInv'
<1> USE DEF RingInv
<1> DEFINE s == Slot(g)
           n == Len(reports) + 1
<1>1. /\ g \in Goroutines /\ g # Cleaner /\ Cleaner \in Goroutines /\ Requesters \subseteq Goroutines
      /\ Cleaner \notin Requesters
  BY StatusReportAssumption DEF Requesters, Goroutines
<1>2. Busy(g) /\ pc[g] = "newRetrieval" BY DEF visitRetrieval, AtPlace, Busy
<1>3. /\ reports' \in Seq(Report) /\ Len(reports') = n
      /\ retrieval' = [retrieval EXCEPT ![s] = n]
  BY VisitRetrievalIs
<1>4. /\ pc' = [pc EXCEPT ![g] = "newPhase"]
      /\ now' = now /\ swept' = swept /\ reqs' = reqs /\ inited' = inited /\ phase' = phase
      /\ mutex' = mutex /\ minute' = minute /\ ptr' = ptr
  BY DEF visitRetrieval, Goto
<1>5. (\A f : Slot(f)' = Slot(f)) /\ \A f \in Goroutines : Slot(f) \in Slots BY <1>4, SlotTypes
<1>6. s \in Slots /\ Slot(g) = s BY <1>1, <1>5
<1>7. mutex[s] = g /\ inited[s] /\ retrieval[s] = 0 /\ phase[s] = 0
  BY <1>1, <1>2 DEF LocksOK, SlotsOK, VisitedOK, Making
<1>8. n \in Nat /\ n # 0 /\ \A t \in Slots : retrieval[t] # n
  <2>1. Len(reports) \in Nat BY DEF ReportTypeOK
  <2>2. \A t \in Slots : retrieval[t] \in 0..Len(reports) BY DEF ReportTypeOK
  <2> QED BY <2>1, <2>2
<1>9. \A f \in Goroutines : f # g /\ pc[f] \in Making \cup Clearing => Slot(f) # s
  BY <1>1, <1>7 DEF LocksOK
<1>10. ReportTypeOK'
  <2>1. Len(reports) \in Nat /\ 0..Len(reports) \subseteq 0..n /\ n \in 0..n BY DEF ReportTypeOK
  <2> HIDE DEF n, s
  <2>2. retrieval' \in [Slots -> 0..n] BY <1>3, <1>6, <2>1 DEF ReportTypeOK
  <2>3. phase \in [Slots -> 0..n] /\ ptr \in [Goroutines -> 0..n] BY <2>1 DEF ReportTypeOK
  <2>4. pc' \in [Goroutines -> Places] BY <1>4 DEF ReportTypeOK, Places
  <2> QED BY <1>3, <1>4, <2>2, <2>3, <2>4 DEF ReportTypeOK, Slots
<1> HIDE DEF n, s
<1>11. /\ \A f \in Goroutines : pc'[f] = IF f = g THEN "newPhase" ELSE pc[f]
       /\ \A t \in Slots : retrieval'[t] = IF t = s THEN n ELSE retrieval[t]
  BY <1>1, <1>3, <1>4, <1>6 DEF ReportTypeOK
<1>12. PlacesOK' BY <1>1, <1>11 DEF PlacesOK, Clearing
<1>13. MinutesOK' BY <1>1, <1>2, <1>4, <1>11 DEF MinutesOK, Busy
<1>14. LocksOK'
  <2>1. ASSUME NEW t \in Slots, mutex[t] # Nobody PROVE pc'[mutex[t]] \in Making \cup Clearing
    <3>1. pc[mutex[t]] \in Making \cup Clearing /\ mutex[t] \in Goroutines
      BY <2>1 DEF LocksOK, ReportTypeOK
    <3> QED BY <1>11, <3>1 DEF Making
  <2>2. \A f \in Goroutines : pc'[f] \in Making \cup Clearing => pc[f] \in Making \cup Clearing
    BY <1>2, <1>11 DEF Making
  <2> QED BY <1>4, <1>5, <2>1, <2>2 DEF LocksOK, Slots
<1>15. SlotsOK'
  <2>1. \A t \in Slots : mutex[t] = Nobody => t # s
    BY <1>1, <1>7, StatusReportAssumption DEF Requesters
  <2>2. \A f \in Goroutines \ {g} : pc'[f] = pc[f] /\ (pc[f] \in Making \cup Clearing => Slot(f) # s)
    BY <1>9, <1>11
  <2> QED BY <1>4, <1>5, <1>6, <1>7, <1>8, <1>11, <2>1, <2>2 DEF SlotsOK, Making, Clearing, Slots
<1>16. VisitedOK'
  <2>1. \A f \in Requesters : pc[f] \in Past => Slot(f) # s BY <1>7 DEF VisitedOK
  <2>2. ASSUME NEW f \in Requesters
        PROVE  /\ pc'[f] \in Making \cup {"deref"} \cup Past => inited[Slot(f)]
               /\ pc'[f] \in Past => ptr[f] # 0 /\ ptr[f] = retrieval'[Slot(f)]
    <3>1. CASE f = g BY <1>1, <1>6, <1>7, <1>11, <3>1 DEF Past
    <3>2. CASE f # g
      <4>1. pc'[f] = pc[f] /\ Slot(f) \in Slots BY <1>1, <1>5, <1>11, <3>2
      <4> QED BY <1>11, <2>1, <4>1 DEF VisitedOK
    <3> QED BY <3>1, <3>2
  <2> QED BY <1>4, <1>5, <2>2 DEF VisitedOK
<1>17. OwnReports' BY <1>6, <1>8, <1>11 DEF OwnReports, Slots
<1> QED BY <1>10, <1>12, <1>13, <1>14, <1>15, <1>16, <1>17

(* The first visit is over.                                                *)
LEMMA PhaseKeepsRing ==
  ASSUME RingInv, NEW g \in Requesters, visitPhase(g)
  PROVE  RingInv'
<1> USE DEF RingInv
<1> DEFINE s == Slot(g)
<1>1. /\ g \in Goroutines /\ g # Cleaner /\ Cleaner \in Goroutines /\ Requesters \subseteq Goroutines
      /\ Cleaner \notin Requesters
  BY StatusReportAssumption DEF Requesters, Goroutines
<1>2. Busy(g) /\ pc[g] = "newPhase" BY DEF visitPhase, AtPlace, Busy
<1>3. /\ phase' = [phase EXCEPT ![s] = retrieval[s]] /\ mutex' = [mutex EXCEPT ![s] = Nobody]
      /\ pc' = [pc EXCEPT ![g] = "deref"]
      /\ now' = now /\ swept' = swept /\ reqs' = reqs /\ inited' = inited /\ retrieval' = retrieval
      /\ reports' = reports /\ minute' = minute /\ ptr' = ptr
  BY DEF visitPhase, Goto
<1>4. (\A f : Slot(f)' = Slot(f)) /\ \A f \in Goroutines : Slot(f) \in Slots BY <1>3, SlotTypes
<1>5. s \in Slots /\ Slot(g) = s BY <1>1, <1>4
<1>6. mutex[s] = g /\ inited[s] /\ retrieval[s] # 0
  BY <1>1, <1>2 DEF LocksOK, SlotsOK, VisitedOK, Making
<1>7. \A f \in Goroutines : f # g /\ pc[f] \in Making \cup Clearing => Slot(f) # s
  BY <1>1, <1>6 DEF LocksOK
<1>8. ReportTypeOK' BY <1>1, <1>3, <1>5 DEF ReportTypeOK, Places, Slots
<1> HIDE DEF s
<1>9. /\ \A f \in Goroutines : pc'[f] = IF f = g THEN "deref" ELSE pc[f]
      /\ \A t \in Slots : /\ mutex'[t] = IF t = s THEN Nobody ELSE mutex[t]
                          /\ phase'[t] = IF t = s THEN retrieval[s] ELSE phase[t]
  BY <1>1, <1>3, <1>5 DEF ReportTypeOK
<1>10. PlacesOK' BY <1>1, <1>9 DEF PlacesOK, Clearing
<1>11. MinutesOK' BY <1>1, <1>2, <1>3, <1>9 DEF MinutesOK, Busy
<1>12. LocksOK'
  <2>1. ASSUME NEW t \in Slots, mutex'[t] # Nobody
        PROVE  Slot(mutex'[t]) = t /\ pc'[mutex'[t]] \in Making \cup Clearing
    <3>1. t # s /\ mutex'[t] = mutex[t] BY <1>9, <2>1
    <3>2. Slot(mutex[t]) = t /\ pc[mutex[t]] \in Making \cup Clearing /\ mutex[t] \in Goroutines
      BY <2>1, <3>1 DEF LocksOK, ReportTypeOK
    <3> QED BY <1>5, <1>9, <3>1, <3>2
  <2>2. ASSUME NEW f \in Goroutines, pc'[f] \in Making \cup Clearing PROVE mutex'[Slot(f)] = f
    <3>1. f # g /\ pc[f] \in Making \cup Clearing BY <1>9, <2>2 DEF Making, Clearing
    <3> QED BY <1>4, <1>7, <1>9, <3>1 DEF LocksOK
  <2> QED BY <1>3, <1>4, <2>1, <2>2 DEF LocksOK, Slots
<1>13. SlotsOK'
  <2>1. \A f \in Goroutines \ {g} : pc'[f] = pc[f] /\ (pc[f] \in Making \cup Clearing => Slot(f) # s)
    BY <1>7, <1>9
  <2> QED BY <1>3, <1>4, <1>5, <1>6, <1>9, <2>1 DEF SlotsOK, Making, Clearing, Slots
<1>14. VisitedOK' BY <1>1, <1>3, <1>4, <1>5, <1>6, <1>9 DEF VisitedOK, Making, Past
<1>15. OwnReports' BY <1>3 DEF OwnReports, Slots
<1> QED BY <1>8, <1>10, <1>11, <1>12, <1>13, <1>14, <1>15

(* The timer clears a slot at which no request is.                         *)
LEMMA ClearKeepsRing ==
  ASSUME RingInv, clearInited \/ clearRetrieval \/ clearPhase
  PROVE  RingInv'
<1> USE DEF RingInv
<1> DEFINE s == Slot(Cleaner)
<1>1. Cleaner \in Goroutines /\ Requesters \subseteq Goroutines /\ Cleaner \notin Requesters
      /\ Goroutines = Requesters \cup {Cleaner} /\ Nobody \notin Goroutines
  BY StatusReportAssumption DEF Requesters, Goroutines
<1>2. /\ now' = now /\ swept' = swept /\ reqs' = reqs /\ reports' = reports /\ minute' = minute /\ ptr' = ptr
      /\ Busy(Cleaner)
  BY DEF clearInited, clearRetrieval, clearPhase, AtPlace, Busy
<1>3. (\A f : Slot(f)' = Slot(f)) /\ \A f \in Goroutines : Slot(f) \in Slots BY <1>2, SlotTypes
<1>4. s \in Slots /\ Slot(Cleaner) = s BY <1>1, <1>3
<1>5. \A g \in Requesters : Busy(g) => Slot(g) # s BY <1>2, SlotsOfRequests
<1>6. \A g \in Requesters : pc[g] \in Making \cup {"deref"} \cup Past => Slot(g) # s
  BY <1>5 DEF Busy, Making, Past
<1>7. \A g \in Requesters : pc[g] \notin {"clear"} \cup Clearing BY DEF PlacesOK
<1>8. CASE clearInited
  <2>1. /\ pc[Cleaner] = "clear" /\ mutex[s] = Nobody
        /\ mutex' = [mutex EXCEPT ![s] = Cleaner] /\ inited' = [inited EXCEPT ![s] = FALSE]
        /\ pc' = [pc EXCEPT ![Cleaner] = "clearRetrieval"]
        /\ retrieval' = retrieval /\ phase' = phase
    BY <1>8 DEF clearInited, AtPlace, Goto
  <2>2. ReportTypeOK' BY <1>1, <1>2, <1>4, <2>1 DEF ReportTypeOK, Places, Slots
  <2> HIDE DEF s
  <2>3. /\ pc'[Cleaner] = "clearRetrieval" /\ \A g \in Requesters : pc'[g] = pc[g]
        /\ \A t \in Slots : /\ mutex'[t] = IF t = s THEN Cleaner ELSE mutex[t]
                            /\ inited'[t] <=> t # s /\ inited[t]
    BY <1>1, <1>4, <2>1 DEF ReportTypeOK
  <2>4. PlacesOK' BY <1>1, <2>3 DEF PlacesOK, Clearing
  <2>5. MinutesOK' BY <1>1, <1>2, <2>3 DEF MinutesOK, Busy
  <2>6. LocksOK'
    <3>1. ASSUME NEW t \in Slots, mutex'[t] # Nobody
          PROVE  Slot(mutex'[t]) = t /\ pc'[mutex'[t]] \in Making \cup Clearing
      <4>1. CASE t = s BY <1>4, <2>3, <4>1 DEF Clearing
      <4>2. CASE t # s
        <5>1. mutex'[t] = mutex[t] /\ Slot(mutex[t]) = t /\ pc[mutex[t]] \in Making \cup Clearing
              /\ mutex[t] \in Goroutines
          BY <2>3, <3>1, <4>2 DEF LocksOK, ReportTypeOK
        <5>2. mutex[t] \in Requesters BY <1>1, <1>4, <4>2, <5>1
        <5> QED BY <2>3, <5>1, <5>2
      <4> QED BY <4>1, <4>2
    <3>2. ASSUME NEW f \in Goroutines, pc'[f] \in Making \cup Clearing PROVE mutex'[Slot(f)] = f
      <4>1. CASE f = Cleaner BY <1>4, <2>3, <4>1
      <4>2. CASE f \in Requesters
        BY <1>1, <1>3, <1>6, <1>7, <2>3, <3>2, <4>2 DEF LocksOK
      <4> QED BY <1>1, <4>1, <4>2
    <3> QED BY <1>2, <1>3, <3>1, <3>2 DEF LocksOK, Slots
  <2>7. SlotsOK'
    <3>1. \A t \in Slots : mutex'[t] = Nobody => mutex[t] = Nobody /\ t # s BY <1>1, <2>3
    <3>2. \A f \in Requesters : pc'[f] = pc[f] /\ pc[f] \notin Clearing BY <1>7, <2>3
    <3>3. \A t \in Slots : mutex'[t] = Nobody =>
            phase'[t] = retrieval'[t] /\ (inited'[t] <=> retrieval'[t] # 0)
      BY <2>1, <2>3, <3>1 DEF SlotsOK
    <3>4. \A f \in Goroutines :
            /\ pc'[f] = "newRetrieval" => retrieval'[Slot(f)] = 0 /\ phase'[Slot(f)] = 0
            /\ pc'[f] = "newPhase" => retrieval'[Slot(f)] # 0 /\ phase'[Slot(f)] = 0
            /\ pc'[f] \in Clearing => ~inited'[Slot(f)]
            /\ pc'[f] = "clearPhase" => retrieval'[Slot(f)] = 0
      BY <1>1, <1>4, <2>1, <2>3, <3>2 DEF SlotsOK, Clearing
    <3> QED BY <1>2, <1>3, <3>3, <3>4 DEF SlotsOK, Slots
  <2>8. VisitedOK' BY <1>1, <1>2, <1>3, <1>6, <2>1, <2>3 DEF VisitedOK
  <2>9. OwnReports' BY <2>1 DEF OwnReports, Slots
  <2> QED BY <2>2, <2>4, <2>5, <2>6, <2>7, <2>8, <2>9
<1>9. CASE clearRetrieval
  <2>1. /\ pc[Cleaner] = "clearRetrieval" /\ retrieval' = [retrieval EXCEPT ![s] = 0]
        /\ pc' = [pc EXCEPT ![Cleaner] = "clearPhase"]
        /\ mutex' = mutex /\ inited' = inited /\ phase' = phase
    BY <1>9 DEF clearRetrieval, AtPlace, Goto
  <2>2. ReportTypeOK'
    <3>1. 0 \in 0..Len(reports) BY DEF ReportTypeOK
    <3> QED BY <1>1, <1>2, <1>4, <2>1, <3>1 DEF ReportTypeOK, Places, Slots
  <2> HIDE DEF s
  <2>3. /\ pc'[Cleaner] = "clearPhase" /\ \A g \in Requesters : pc'[g] = pc[g]
        /\ \A t \in Slots : retrieval'[t] = IF t = s THEN 0 ELSE retrieval[t]
    BY <1>1, <1>4, <2>1 DEF ReportTypeOK
  <2>4. PlacesOK' BY <1>1, <2>3 DEF PlacesOK, Clearing
  <2>5. MinutesOK' BY <1>1, <1>2, <2>3 DEF MinutesOK, Busy
  <2>6. mutex[s] = Cleaner /\ ~inited[s] BY <1>1, <1>4, <2>1 DEF LocksOK, SlotsOK, Clearing
  <2>7. LocksOK'
    <3>1. ASSUME NEW t \in Slots, mutex[t] # Nobody PROVE pc'[mutex[t]] \in Making \cup Clearing
      <4>1. pc[mutex[t]] \in Making \cup Clearing /\ mutex[t] \in Goroutines
        BY <3>1 DEF LocksOK, ReportTypeOK
      <4> QED BY <1>1, <2>3, <4>1 DEF Clearing
    <3>2. \A f \in Goroutines : pc'[f] \in Making \cup Clearing => pc[f] \in Making \cup Clearing
      BY <1>1, <2>1, <2>3 DEF Clearing
    <3> QED BY <1>2, <1>3, <2>1, <3>1, <3>2 DEF LocksOK, Slots
  <2>8. SlotsOK'
    <3>1. \A t \in Slots : mutex[t] = Nobody => t # s BY <1>1, <2>6
    <3>2. \A f \in Requesters : pc'[f] = pc[f] /\ pc[f] \notin Clearing BY <1>7, <2>3
    <3>3. \A t \in Slots : mutex'[t] = Nobody =>
            phase'[t] = retrieval'[t] /\ (inited'[t] <=> retrieval'[t] # 0)
      BY <2>1, <2>3, <3>1 DEF SlotsOK
    <3>4. ASSUME NEW f \in Goroutines
          PROVE  /\ pc'[f] = "newRetrieval" => retrieval'[Slot(f)] = 0 /\ phase'[Slot(f)] = 0
                 /\ pc'[f] = "newPhase" => retrieval'[Slot(f)] # 0 /\ phase'[Slot(f)] = 0
                 /\ pc'[f] \in Clearing => ~inited'[Slot(f)]
                 /\ pc'[f] = "clearPhase" => retrieval'[Slot(f)] = 0
      <4>1. CASE f = Cleaner BY <1>4, <2>1, <2>3, <2>6, <4>1 DEF Clearing
      <4>2. CASE f \in Requesters
        BY <1>1, <1>3, <1>6, <2>1, <2>3, <3>2, <4>2 DEF SlotsOK, Making, Clearing
      <4> QED BY <1>1, <4>1, <4>2
    <3> QED BY <1>2, <1>3, <3>3, <3>4 DEF SlotsOK, Slots
  <2>9. VisitedOK' BY <1>1, <1>2, <1>3, <1>6, <2>1, <2>3 DEF VisitedOK
  <2>10. OwnReports' BY <1>4, <2>3 DEF OwnReports, Slots
  <2> QED BY <2>2, <2>4, <2>5, <2>7, <2>8, <2>9, <2>10
<1>10. CASE clearPhase
  <2>1. /\ pc[Cleaner] = "clearPhase" /\ phase' = [phase EXCEPT ![s] = 0]
        /\ mutex' = [mutex EXCEPT ![s] = Nobody] /\ pc' = [pc EXCEPT ![Cleaner] = "idle"]
        /\ inited' = inited /\ retrieval' = retrieval
    BY <1>10 DEF clearPhase, AtPlace, Goto
  <2>2. ReportTypeOK'
    <3>1. 0 \in 0..Len(reports) BY DEF ReportTypeOK
    <3> QED BY <1>1, <1>2, <1>4, <2>1, <3>1 DEF ReportTypeOK, Places, Slots
  <2> HIDE DEF s
  <2>3. /\ pc'[Cleaner] = "idle" /\ \A g \in Requesters : pc'[g] = pc[g]
        /\ \A t \in Slots : /\ phase'[t] = IF t = s THEN 0 ELSE phase[t]
                            /\ mutex'[t] = IF t = s THEN Nobody ELSE mutex[t]
    BY <1>1, <1>4, <2>1 DEF ReportTypeOK
  <2>4. PlacesOK' BY <1>1, <2>3 DEF PlacesOK, Clearing
  <2>5. MinutesOK' BY <1>1, <1>2, <2>3 DEF MinutesOK, Busy
  <2>6. ~inited[s] /\ retrieval[s] = 0 BY <1>1, <1>4, <2>1 DEF SlotsOK, Clearing
  <2>7. LocksOK'
    <3>1. ASSUME NEW t \in Slots, mutex'[t] # Nobody
          PROVE  Slot(mutex'[t]) = t /\ pc'[mutex'[t]] \in Making \cup Clearing
      <4>1. t # s /\ mutex'[t] = mutex[t] BY <2>3, <3>1
      <4>2. Slot(mutex[t]) = t /\ pc[mutex[t]] \in Making \cup Clearing /\ mutex[t] \in Goroutines
        BY <3>1, <4>1 DEF LocksOK, ReportTypeOK
      <4>3. mutex[t] \in Requesters BY <1>1, <1>4, <4>1, <4>2
      <4> QED BY <2>3, <4>1, <4>2, <4>3
    <3>2. ASSUME NEW f \in Goroutines, pc'[f] \in Making \cup Clearing PROVE mutex'[Slot(f)] = f
      <4>1. f \in Requesters BY <1>1, <2>3, <3>2 DEF Making, Clearing
      <4> QED BY <1>1, <1>3, <1>6, <1>7, <2>3, <3>2, <4>1 DEF LocksOK
    <3> QED BY <1>2, <1>3, <3>1, <3>2 DEF LocksOK, Slots
  <2>8. SlotsOK'
    <3>1. \A f \in Requesters : pc'[f] = pc[f] /\ pc[f] \notin Clearing BY <1>7, <2>3
    <3>2. \A t \in Slots : mutex'[t] = Nobody =>
            phase'[t] = retrieval'[t] /\ (inited'[t] <=> retrieval'[t] # 0)
      BY <2>1, <2>3, <2>6 DEF SlotsOK
    <3>3. ASSUME NEW f \in Goroutines
          PROVE  /\ pc'[f] = "newRetrieval" => retrieval'[Slot(f)] = 0 /\ phase'[Slot(f)] = 0
                 /\ pc'[f] = "newPhase" => retrieval'[Slot(f)] # 0 /\ phase'[Slot(f)] = 0
                 /\ pc'[f] \in Clearing => ~inited'[Slot(f)]
                 /\ pc'[f] = "clearPhase" => retrieval'[Slot(f)] = 0
      <4>1. CASE f = Cleaner BY <2>3, <4>1 DEF Clearing
      <4>2. CASE f \in Requesters
        BY <1>1, <1>3, <1>6, <2>1, <2>3, <3>1, <4>2 DEF SlotsOK, Making, Clearing
      <4> QED BY <1>1, <4>1, <4>2
    <3> QED BY <1>2, <1>3, <3>2, <3>3 DEF SlotsOK, Slots
  <2>9. VisitedOK' BY <1>1, <1>2, <1>3, <1>6, <2>1, <2>3 DEF VisitedOK
  <2>10. OwnReports' BY <2>1 DEF OwnReports, Slots
  <2> QED BY <2>2, <2>4, <2>5, <2>7, <2>8, <2>9, <2>10
<1> QED BY <1>8, <1>9, <1>10

(* A goroutine begins.                                                     *)
LEMMA StartKeepsRing ==
  ASSUME RingInv, NEW g \in Goroutines, pc[g] = "idle", NEW m \in 0..(MaxMinute + 1),
         minute' = [minute EXCEPT ![g] = m],
         \/ /\ g \in Requesters /\ m <= now /\ now <= m + MaxDelay /\ swept' = swept
            /\ pc' = [pc EXCEPT ![g] = "visit"]
         \/ /\ g = Cleaner /\ m = now + 1 /\ swept' = TRUE
            /\ pc' = [pc EXCEPT ![g] = "clear"],
         reqs' \in 0..MaxReqs, UNCHANGED <<now, slots, reports, ptr>>
  PROVE  RingInv'
<1> USE DEF RingInv
<1>1. Cleaner \in Goroutines /\ Requesters \subseteq Goroutines /\ Cleaner \notin Requesters
      /\ Goroutines = Requesters \cup {Cleaner} /\ Nobody \notin Goroutines
  BY StatusReportAssumption DEF Requesters, Goroutines
<1>2. /\ now' = now /\ reports' = reports /\ ptr' = ptr /\ inited' = inited /\ retrieval' = retrieval
      /\ phase' = phase /\ mutex' = mutex
  BY DEF slots
<1>3. /\ (pc'[g] = "visit" /\ g \in Requesters) \/ (pc'[g] = "clear" /\ g = Cleaner)
      /\ \A f \in Goroutines \ {g} : pc'[f] = pc[f]
  <2>1. pc \in [Goroutines -> Places] BY DEF ReportTypeOK
  <2>2. CASE g \in Requesters /\ pc' = [pc EXCEPT ![g] = "visit"] BY <2>1, <2>2
  <2>3. CASE g = Cleaner /\ pc' = [pc EXCEPT ![g] = "clear"] BY <2>1, <2>3
  <2> QED BY <2>2, <2>3
<1>4. minute'[g] = m /\ \A f \in Goroutines \ {g} : minute'[f] = minute[f]
  BY DEF ReportTypeOK
<1>5. \A f \in Goroutines \ {g} : Slot(f)' = Slot(f) BY <1>4 DEF Slot
<1>6. \A f \in Goroutines : Slot(f) \in Slots BY SlotTypes
<1>7. pc'[g] \notin Making \cup Clearing \cup {"deref"} \cup Past /\ pc[g] \notin Making \cup Clearing
  BY <1>3 DEF Making, Clearing, Past
<1>8. ReportTypeOK'
  <2>1. swept' \in BOOLEAN BY DEF ReportTypeOK
  <2>2. pc' \in [Goroutines -> Places] BY DEF ReportTypeOK, Places
  <2>3. minute' \in [Goroutines -> 0..(MaxMinute + 1)] BY DEF ReportTypeOK
  <2> QED BY <1>2, <2>1, <2>2, <2>3 DEF ReportTypeOK, Slots
<1>9. PlacesOK' BY <1>1, <1>3 DEF PlacesOK, Clearing
<1>10. MinutesOK'
  <2>1. CASE g \in Requesters /\ m <= now /\ now <= m + MaxDelay /\ swept' = swept
    BY <1>1, <1>2, <1>3, <1>4, <2>1 DEF MinutesOK, Busy
  <2>2. CASE g = Cleaner /\ m = now + 1 /\ swept' = TRUE
    BY <1>1, <1>2, <1>3, <1>4, <2>2 DEF MinutesOK, Busy
  <2> QED BY <2>1, <2>2
<1>11. LocksOK'
  <2>1. ASSUME NEW s \in Slots, mutex[s] # Nobody
        PROVE  Slot(mutex[s])' = s /\ pc'[mutex[s]] \in Making \cup Clearing
    <3>1. Slot(mutex[s]) = s /\ pc[mutex[s]] \in Making \cup Clearing /\ mutex[s] \in Goroutines \ {g}
      BY <1>7, <2>1 DEF LocksOK, ReportTypeOK
    <3>2. Slot(mutex[s])' = Slot(mutex[s]) BY <1>2, <1>4, <3>1 DEF Slot
    <3> QED BY <1>3, <3>1, <3>2
  <2>2. ASSUME NEW f \in Goroutines, pc'[f] \in Making \cup Clearing PROVE mutex[Slot(f)'] = f
    <3>1. f # g BY <1>7, <2>2
    <3> QED BY <1>3, <1>5, <2>2, <3>1 DEF LocksOK
  <2>3. \A s \in Slots : mutex'[s] = mutex[s] BY <1>2
  <2>5. \A s \in Slots : mutex'[s] # Nobody => Slot(mutex[s])' = s /\ pc'[mutex'[s]] \in Making \cup Clearing
    BY <2>1, <2>3
  <2> QED BY <1>2, <2>2, <2>5 DEF LocksOK, Slots
<1>12. SlotsOK'
  <2>1. \A f \in Goroutines : pc'[f] \in Making \cup Clearing => pc'[f] = pc[f] /\ Slot(f)' = Slot(f)
    BY <1>3, <1>5, <1>7
  <2> QED BY <1>2, <2>1 DEF SlotsOK, Making, Clearing, Slots
<1>13. VisitedOK'
  <2>1. \A f \in Requesters : pc'[f] \in Making \cup {"deref"} \cup Past => pc'[f] = pc[f] /\ Slot(f)' = Slot(f)
    BY <1>1, <1>3, <1>5, <1>7
  <2> QED BY <1>2, <2>1 DEF VisitedOK
<1>14. OwnReports' BY <1>2 DEF OwnReports, Slots
<1> QED BY <1>8, <1>9, <1>10, <1>11, <1>12, <1>13, <1>14

(* A minute passes, with every request late by no more than MaxDelay.      *)
LEMMA MinuteKeepsRing == ASSUME RingInv, NextMinute PROVE RingInv'
<1> USE DEF RingInv
<1>1. /\ now' = now + 1 /\ now < MaxMinute /\ swept' = FALSE /\ pc[Cleaner] = "idle"
      /\ \A g \in Requesters : Busy(g) => now + 1 <= minute[g] + MaxDelay
      /\ reqs' = reqs /\ inited' = inited /\ retrieval' = retrieval /\ phase' = phase /\ mutex' = mutex
      /\ reports' = reports /\ pc' = pc /\ minute' = minute /\ ptr' = ptr
  BY DEF NextMinute, AtPlace, Busy, Requesters, slots
<1>2. \A g : Slot(g)' = Slot(g) BY <1>1, SlotTypes
<1>3. ReportTypeOK'
  <2>1. now \in 0..MaxMinute /\ MaxMinute \in Nat BY StatusReportAssumption DEF ReportTypeOK
  <2>2. now' \in 0..MaxMinute BY <1>1, <2>1
  <2>3. swept' \in BOOLEAN BY <1>1
  <2> QED BY <1>1, <2>2, <2>3 DEF ReportTypeOK, Slots
<1>4. MinutesOK'
  <2>1. now \in Nat BY DEF ReportTypeOK
  <2>2. \A g \in Requesters : Busy(g) => minute[g] \in Nat /\ minute[g] <= now
    BY DEF MinutesOK, ReportTypeOK, Requesters, Goroutines
  <2> QED BY <1>1, <2>1, <2>2 DEF MinutesOK, Busy
<1>5. PlacesOK' /\ LocksOK' /\ SlotsOK' /\ VisitedOK' /\ OwnReports'
  BY <1>1, <1>2 DEF PlacesOK, LocksOK, SlotsOK, VisitedOK, OwnReports, Slots
<1> QED BY <1>3, <1>4, <1>5

(* No step breaks the ring.                                                *)
LEMMA RingStep == RingInv /\ [ReportNext]_reportVars => RingInv'
<1> SUFFICES ASSUME RingInv, [ReportNext]_reportVars PROVE RingInv'
  OBVIOUS
<1>1. /\ Requesters \subseteq Goroutines /\ AdHandlers \subseteq Requesters /\ Viewers \subseteq Requesters
      /\ Cleaner \in Goroutines
  BY DEF Requesters, Goroutines
<1>2. /\ now \in 0..MaxMinute /\ reqs \in 0..MaxReqs /\ MaxMinute \in Nat /\ MaxReqs \in Nat
      /\ MaxDelay \in Nat \ {0} /\ reports \in Seq(Report) /\ ptr \in [Goroutines -> 0..Len(reports)]
  BY StatusReportAssumption DEF RingInv, ReportTypeOK
<1>3. ASSUME NEW g \in Requesters, visit(g) PROVE RingInv'
  <2>1. CASE visitQuick(g)
    <3> DEFINE place == IF inited[Slot(g)] THEN "deref" ELSE "lock"
    <3>1. /\ pc[g] = "visit" /\ pc' = [pc EXCEPT ![g] = place]
          /\ UNCHANGED <<now, swept, reqs, slots, minute>> /\ reports' = reports /\ ptr' = ptr
      BY <2>1 DEF visitQuick, AtPlace, Goto
    <3>2. place \in Places \ ({"clear"} \cup Making \cup Clearing) /\ place \notin Past
          /\ (place = "deref" => inited[Slot(g)])
      BY DEF Places, Making, Clearing, Past
    <3>3. Busy(g) /\ pc[g] \notin Making BY <3>1 DEF Busy, Making
    <3> HIDE DEF place
    <3> QED BY <1>2, <3>1, <3>2, <3>3, MoveKeepsRing
  <2> QED BY <1>3, <2>1, LockKeepsRing, RetrievalKeepsRing, PhaseKeepsRing DEF visit
<1>4. ASSUME NEW g \in Requesters, derefRetrieval(g, "record") PROVE RingInv'
  <2> DEFINE n == retrieval[Slot(g)]
             place == IF n = 0 THEN "nilPointer" ELSE "record"
  <2>1. pc[g] = "deref" /\ ptr' = [ptr EXCEPT ![g] = n]
        /\ UNCHANGED <<now, swept, reqs, slots, minute>> /\ reports' = reports
    BY <1>4 DEF derefRetrieval, AtPlace
  <2>2. n \in 0..Len(reports)
    <3>1. Slot(g) \in Slots BY <1>1, SlotTypes DEF RingInv
    <3> QED BY <3>1 DEF RingInv, ReportTypeOK
  <2>3. inited[Slot(g)] BY <2>1 DEF RingInv, VisitedOK
  <2> HIDE DEF n
  <2>4. /\ ptr' \in [Goroutines -> 0..Len(reports)] /\ ptr'[g] = n
        /\ \A f \in Goroutines \ {g} : ptr'[f] = ptr[f]
    BY <1>1, <1>2, <2>1, <2>2
  <2>5. pc' = [pc EXCEPT ![g] = place] BY <1>4, <2>4 DEF derefRetrieval, Goto
  <2>6. place \in Places \ ({"clear"} \cup Making \cup Clearing) /\ (place \in Past => n # 0)
    BY DEF Places, Making, Clearing, Past
  <2>7. Busy(g) /\ pc[g] \notin Making BY <2>1 DEF Busy, Making
  <2> HIDE DEF place
  <2> QED BY <1>2, <2>1, <2>3, <2>4, <2>5, <2>6, <2>7, MoveKeepsRing DEF n
<1>5. ASSUME NEW g \in Requesters, recover(g) PROVE RingInv'
  <2>1. /\ pc[g] \in {"nilPointer", "nilMap"} /\ pc' = [pc EXCEPT ![g] = "idle"]
        /\ UNCHANGED <<now, swept, reqs, slots, minute>> /\ reports' = reports /\ ptr' = ptr
    BY <1>5 DEF recover, Goto
  <2>2. "idle" \in Places \ ({"clear"} \cup Making \cup Clearing) /\ "idle" \notin {"deref"} \cup Past
        /\ Busy(g) /\ pc[g] \notin Making
    BY <2>1 DEF Places, Making, Clearing, Past, Busy
  <2> QED BY <1>2, <2>1, <2>2, MoveKeepsRing
<1>6. ASSUME NEW g \in Requesters, pc[g] \in Past, NEW place \in Past \cup {"idle", "nilPointer", "nilMap"},
             pc' = [pc EXCEPT ![g] = place],
             UNCHANGED <<now, swept, reqs, slots, minute, ptr>>,
             reports' \in Seq(Report), Len(reports') = Len(reports)
      PROVE  RingInv'
  <2>1. place \in Places \ ({"clear"} \cup Making \cup Clearing) /\ place # "deref"
        /\ Busy(g) /\ pc[g] \notin Making
    BY <1>6 DEF Places, Making, Clearing, Past, Busy
  <2>2. inited[Slot(g)] /\ ptr[g] # 0 /\ ptr[g] = retrieval[Slot(g)]
    BY <1>6 DEF RingInv, VisitedOK
  <2>3. ptr' = ptr /\ ptr' \in [Goroutines -> 0..Len(reports)] BY <1>2, <1>6
  <2> QED BY <1>6, <2>1, <2>2, <2>3, MoveKeepsRing
<1>7. ASSUME NEW h \in AdHandlers, RecordReq(h) PROVE RingInv'
  <2>1. CASE startRecord(h)
    <3>1. /\ pc[h] = "idle" /\ minute' = [minute EXCEPT ![h] = now] /\ pc' = [pc EXCEPT ![h] = "visit"]
          /\ swept' = swept /\ reqs' \in 0..MaxReqs /\ UNCHANGED <<now, slots, reports, ptr>>
      BY <1>2, <2>1 DEF startRecord, AtPlace, Goto
    <3>2. now \in 0..(MaxMinute + 1) /\ now <= now /\ now <= now + MaxDelay BY <1>2
    <3> QED BY <1>1, <3>1, <3>2, StartKeepsRing
  <2>2. CASE recordRequest(h)
    <3>1. pc[h] = "record" /\ pc[h] \in Past BY <2>2 DEF recordRequest, AtPlace, Past
    <3>2. ptr[h] \in DOMAIN reports /\ minute[h] \in 0..MaxMinute BY <1>1, <3>1, PtrOfPast
    <3>3. /\ reports' \in Seq(Report) /\ Len(reports') = Len(reports)
          /\ pc' = [pc EXCEPT ![h] = IF reports[ptr[h]].topOk THEN "nilMap" ELSE "recordPhase"]
      BY <2>2, <3>2, RecordIs DEF RingInv
    <3>4. UNCHANGED <<now, swept, reqs, slots, minute, ptr>> BY <2>2 DEF recordRequest
    <3>5. (IF reports[ptr[h]].topOk THEN "nilMap" ELSE "recordPhase") \in Past \cup {"idle", "nilPointer", "nilMap"}
      BY DEF Past
    <3> QED BY <1>1, <1>6, <3>1, <3>3, <3>4, <3>5
  <2>3. CASE recordPhase(h)
    <3>1. pc[h] \in Past /\ UNCHANGED <<now, swept, reqs, slots, minute, ptr>>
      BY <2>3 DEF recordPhase, AtPlace, Past
    <3>2. CASE phase[Slot(h)] = 0
      <4>1. reports' = reports /\ pc' = [pc EXCEPT ![h] = "nilPointer"] BY <2>3, <3>2 DEF recordPhase, Goto
      <4> QED BY <1>1, <1>2, <1>6, <3>1, <4>1
    <3>3. CASE phase[Slot(h)] # 0
      <4>1. phase[Slot(h)] \in DOMAIN reports BY <1>1, <3>1, <3>3, PtrOfPast
      <4>2. reports' \in Seq(Report) /\ Len(reports') = Len(reports) /\ pc' = [pc EXCEPT ![h] = "idle"]
        BY <2>3, <4>1, RecordPhaseIs DEF RingInv
      <4> QED BY <1>1, <1>6, <3>1, <4>2
    <3> QED BY <3>2, <3>3
  <2> QED BY <1>1, <1>3, <1>4, <1>5, <1>7, <2>1, <2>2, <2>3 DEF RecordReq
<1>8. ASSUME NEW v \in Viewers, getReports(v) PROVE RingInv'
  <2>1. CASE startReport(v)
    <3>1. /\ pc[v] = "idle" /\ minute' = [minute EXCEPT ![v] = now - 1] /\ pc' = [pc EXCEPT ![v] = "visit"]
          /\ swept' = swept /\ reqs' \in 0..MaxReqs /\ UNCHANGED <<now, slots, reports, ptr>> /\ now > 0
      BY <1>2, <2>1 DEF startReport, AtPlace, Goto
    <3>2. now - 1 \in 0..(MaxMinute + 1) /\ now - 1 <= now /\ now <= (now - 1) + MaxDelay BY <1>2, <3>1
    <3> QED BY <1>1, <3>1, <3>2, StartKeepsRing
  <2>2. CASE preReportQuick(v) \/ encode(v)
    <3>1. pc[v] \in Past /\ UNCHANGED <<now, swept, reqs, slots, minute, ptr>> /\ reports' = reports
      BY <2>2 DEF preReportQuick, encode, AtPlace, Past
    <3>2. PICK place \in Past \cup {"idle", "nilPointer", "nilMap"} : pc' = [pc EXCEPT ![v] = place]
      <4>1. CASE preReportQuick(v)
        <5>1. (IF reports[ptr[v]].topOk THEN "encode" ELSE "pre") \in Past BY DEF Past
        <5>2. pc' = [pc EXCEPT ![v] = IF reports[ptr[v]].topOk THEN "encode" ELSE "pre"]
          BY <4>1 DEF preReportQuick, Goto
        <5> QED BY <5>1, <5>2
      <4>2. CASE encode(v) BY <4>2 DEF encode, Goto
      <4> QED BY <2>2, <4>1, <4>2
    <3> QED BY <1>1, <1>2, <1>6, <3>1, <3>2
  <2>3. CASE preReport(v)
    <3>1. pc[v] \in Past /\ UNCHANGED <<now, swept, reqs, slots, minute, ptr>> /\ pc' = [pc EXCEPT ![v] = "encode"]
      BY <2>3 DEF preReport, AtPlace, Past, Goto
    <3>2. ptr[v] \in DOMAIN reports BY <1>1, <3>1, PtrOfPast
    <3>3. reports' \in Seq(Report) /\ Len(reports') = Len(reports)
      BY <2>3, <3>2, PreReportIs DEF RingInv
    <3>4. "encode" \in Past BY DEF Past
    <3> QED BY <1>1, <1>6, <3>1, <3>3, <3>4
  <2> QED BY <1>1, <1>3, <1>4, <1>5, <1>8, <2>1, <2>2, <2>3 DEF getReports
<1>9. CASE Serve
  <2>1. CASE sweep
    <3>1. /\ minute' = [minute EXCEPT ![Cleaner] = now + 1] /\ pc' = [pc EXCEPT ![Cleaner] = "clear"]
          /\ swept' = TRUE /\ reqs' = reqs /\ UNCHANGED <<now, slots, reports, ptr>> /\ ~swept
      BY <2>1 DEF sweep, Goto
    <3>2. pc[Cleaner] = "idle" BY <3>1 DEF RingInv, MinutesOK, Busy
    <3>3. now + 1 \in 0..(MaxMinute + 1) /\ reqs' \in 0..MaxReqs BY <1>2, <3>1
    <3> QED BY <1>1, <3>1, <3>2, <3>3, StartKeepsRing
  <2> QED BY <1>9, <2>1, ClearKeepsRing DEF Serve
<1>10. CASE UNCHANGED reportVars
  <2>1. /\ now' = now /\ swept' = swept /\ reqs' = reqs /\ inited' = inited /\ retrieval' = retrieval
        /\ phase' = phase /\ mutex' = mutex /\ reports' = reports /\ pc' = pc /\ minute' = minute /\ ptr' = ptr
    BY <1>10 DEF reportVars, slots
  <2>2. \A g : Slot(g)' = Slot(g) BY <2>1 DEF Slot
  <2> QED BY <2>1, <2>2
    DEF RingInv, ReportTypeOK, PlacesOK, MinutesOK, LocksOK, SlotsOK, VisitedOK, OwnReports, Slots, Busy
<1>11. CASE NextMinute BY <1>11, MinuteKeepsRing
<1> QED BY <1>7, <1>8, <1>9, <1>10, <1>11 DEF ReportNext, Finished

(* The ring is empty at first.                                             *)
LEMMA RingInit == ReportInit => RingInv
<1> SUFFICES ASSUME ReportInit PROVE RingInv
  OBVIOUS
<1> USE DEF ReportInit
<1>1. Cleaner \in Goroutines /\ Requesters \subseteq Goroutines /\ Cleaner \notin Requesters
  BY StatusReportAssumption DEF Requesters, Goroutines
<1>2. \A g \in Goroutines : pc[g] = "idle" OBVIOUS
<1>3. ReportTypeOK
  <2>1. reports \in Seq(Report) /\ Len(reports) = 0 OBVIOUS
  <2>2. now \in 0..MaxMinute /\ reqs \in 0..MaxReqs /\ 0 \in 0..(MaxMinute + 1) BY StatusReportAssumption
  <2>3. swept \in BOOLEAN /\ inited \in [Slots -> BOOLEAN] OBVIOUS
  <2>4. /\ retrieval \in [Slots -> 0..Len(reports)] /\ phase \in [Slots -> 0..Len(reports)]
        /\ ptr \in [Goroutines -> 0..Len(reports)]
    BY <2>1
  <2> QED BY <2>1, <2>2, <2>3, <2>4 DEF ReportTypeOK, Places
<1>4. PlacesOK BY <1>1, <1>2 DEF PlacesOK, Clearing
<1>5. MinutesOK BY <1>1, <1>2 DEF MinutesOK, Busy
<1>6. LocksOK BY <1>2 DEF LocksOK, Making, Clearing
<1>7. SlotsOK
  <2>1. \A s \in Slots : retrieval[s] = 0 /\ phase[s] = 0 /\ ~inited[s] OBVIOUS
  <2> QED BY <1>2, <2>1 DEF SlotsOK, Clearing
<1>8. VisitedOK BY <1>1, <1>2 DEF VisitedOK, Making, Past
<1>9. OwnReports BY DEF OwnReports
<1> QED BY <1>3, <1>4, <1>5, <1>6, <1>7, <1>8, <1>9 DEF RingInv

(* The ring keeps in order throughout.                                     *)
LEMMA RingAlways == ReportSpec => []RingInv
BY RingInit, RingStep, PTL DEF ReportSpec

(* Every variable keeps to its type: no index of the ring runs out of it,  *)
(* and no pointer out of the reports that were made.                       *)
THEOREM StatusReportTypeCorrect == ReportSpec => []ReportTypeOK
BY RingAlways, PTL DEF RingInv

(* A nil report is met only while the slot is first visited, however often *)
(* it is cleared and used again.                                           *)
THEOREM NilReportsOnlyAtFirstVisit == ReportSpec => []NilOnlyWhileVisited
<1>1. ASSUME RingInv PROVE NilOnlyWhileVisited
  <2> SUFFICES ASSUME NEW g \in AdHandlers \cup Viewers,
                      \/ AtPlace(g, "deref") /\ retrieval[Slot(g)] = 0
                      \/ AtPlace(g, "recordPhase") /\ phase[Slot(g)] = 0
               PROVE  \E f \in Goroutines \ {g} : mutex[Slot(g)] = f /\ pc[f] \in {"newRetrieval", "newPhase"}
    BY DEF NilOnlyWhileVisited
  <2> DEFINE f == mutex[Slot(g)]
  <2>1. /\ pc[g] \in {"deref", "recordPhase"} /\ g \in Requesters /\ g \in Goroutines
        /\ Slot(g) \in Slots /\ Busy(g) /\ inited[Slot(g)]
    BY <1>1, SlotTypes DEF AtPlace, Requesters, Goroutines, RingInv, VisitedOK, Past, Busy
  <2>2. f # Nobody
    <3>1. CASE pc[g] = "deref" BY <1>1, <2>1, <3>1 DEF RingInv, SlotsOK, AtPlace
    <3>2. CASE pc[g] = "recordPhase"
      <4>1. retrieval[Slot(g)] # 0 BY <1>1, <2>1, <3>2 DEF RingInv, VisitedOK, Past
      <4> QED BY <1>1, <2>1, <3>2, <4>1 DEF RingInv, SlotsOK, AtPlace
    <3> QED BY <2>1, <3>1, <3>2
  <2>3. f \in Goroutines /\ Slot(f) = Slot(g) /\ pc[f] \in Making \cup Clearing
    BY <1>1, <2>1, <2>2 DEF RingInv, LocksOK, ReportTypeOK
  <2>4. pc[f] \notin Clearing BY <1>1, <2>1, <2>3 DEF RingInv, SlotsOK
  <2> QED BY <2>1, <2>3, <2>4 DEF Making
<1> QED BY <1>1, RingAlways, PTL

-----------------------------------------------------------------------------
(* The figures. *)

(* A round later it is the same slot.                                      *)
LEMMA RoundLater ==
  ASSUME NEW a \in Nat
  PROVE  (a + NumSlots) % NumSlots = a % NumSlots
<1> DEFINE N == NumSlots
           b == a + N
<1>0. N \in Int /\ N > 0 /\ a \in Int /\ b \in Int BY StatusReportAssumption
<1>1. PICK p \in Int : a = N * p + (a % N) BY <1>0, Division
<1>2. PICK q \in Int : b = N * q + (b % N) BY <1>0, Division
<1>3. a % N \in 0..(N - 1) /\ b % N \in 0..(N - 1) BY <1>0, Division
<1>4. b = a + N OBVIOUS
<1> HIDE DEF N, b
<1>5. N * p \in Int /\ N * q \in Int BY <1>0
<1>6. ~(q > p + 1)
  <2>1. q > p + 1 => N * q >= N * p + N + N
    <3>1. q > p + 1 => N * q >= N * (p + 1) + N BY <1>0
    <3>2. N * (p + 1) = N * p + N BY <1>0
    <3> QED BY <3>1, <3>2
  <2> QED BY <1>0, <1>1, <1>2, <1>3, <1>4, <1>5, <2>1
<1>7. ~(q < p + 1)
  <2>1. q < p + 1 => N * p >= N * q BY <1>0
  <2> QED BY <1>0, <1>1, <1>2, <1>3, <1>4, <1>5, <2>1
<1>8. q = p + 1 BY <1>6, <1>7
<1>9. N * q = N * p + N BY <1>0, <1>8
<1>10. a % N = b % N BY <1>0, <1>1, <1>2, <1>3, <1>4, <1>5, <1>9
<1> QED BY <1>10 DEF N, b

(* The handlers that have counted a request in report n and not yet its    *)
(* phase.                                                                  *)
Owing(n) == {h \in AdHandlers : pc[h] = "recordPhase" /\ ptr[h] = n}

(* They are finitely many.                                                 *)
LEMMA OwingFinite ==
  \A n : /\ IsFiniteSet(Owing(n)) /\ Cardinality(Owing(n)) \in Nat
         /\ \A S \in SUBSET Owing(n) : Cardinality(S) \in Nat /\ Cardinality(S) <= Cardinality(Owing(n))
<1> SUFFICES ASSUME NEW n
             PROVE  /\ IsFiniteSet(Owing(n)) /\ Cardinality(Owing(n)) \in Nat
                    /\ \A S \in SUBSET Owing(n) : Cardinality(S) \in Nat /\ Cardinality(S) <= Cardinality(Owing(n))
  OBVIOUS
<1>1. Owing(n) \in SUBSET AdHandlers BY DEF Owing
<1>2. IsFiniteSet(Owing(n)) BY <1>1, FS_Subset, StatusReportAssumption
<1>3. \A S \in SUBSET Owing(n) : IsFiniteSet(S) /\ Cardinality(S) <= Cardinality(Owing(n))
  BY <1>2, FS_Subset
<1> QED BY <1>2, <1>3, FS_CardinalityType

(* The figures, with that set.                                             *)
LEMMA PhasesAre ==
  /\ PhasesWithinRequests <=>
       \A n \in DOMAIN reports : reports[n].phases + Cardinality(Owing(n)) <= reports[n].country
  /\ PhasesWithinRequests' <=>
       \A n \in DOMAIN reports' : reports'[n].phases + Cardinality(Owing(n)') <= reports'[n].country
BY DEF PhasesWithinRequests, Owing, AtPlace

(* Figures are numbers, and minutes too.                                   *)
LEMMA FigureTypes ==
  ASSUME RingInv
  PROVE  /\ \A n \in DOMAIN reports : /\ reports[n].phases \in Nat /\ reports[n].country \in Nat
                                      /\ reports[n].minutes \in SUBSET (0..MaxMinute)
         /\ \A s \in Slots : retrieval[s] # 0 => retrieval[s] \in DOMAIN reports
         /\ now \in 0..MaxMinute /\ MaxMinute \in Nat /\ NumSlots \in Nat /\ 0 \notin DOMAIN reports
<1>1. reports \in Seq(Report) /\ retrieval \in [Slots -> 0..Len(reports)] BY DEF RingInv, ReportTypeOK
<1>2. \A n \in DOMAIN reports : reports[n] \in Report BY <1>1
<1>3. \A s \in Slots : retrieval[s] # 0 => retrieval[s] \in DOMAIN reports
  <2> SUFFICES ASSUME NEW s \in Slots, retrieval[s] # 0 PROVE retrieval[s] \in DOMAIN reports
    OBVIOUS
  <2>1. retrieval[s] \in 0..Len(reports) BY <1>1
  <2> QED BY <1>1, <2>1
<1> QED BY <1>1, <1>2, <1>3, StatusReportAssumption DEF Report, RingInv, ReportTypeOK

(* Steps that change no figure.                                            *)
LEMMA SameFigures ==
  ASSUME RingInv, FiguresInv, UNCHANGED <<now, retrieval>>, Cleared' => Cleared,
         DOMAIN reports' = DOMAIN reports,
         \A n \in DOMAIN reports : /\ reports'[n].phases = reports[n].phases
                                   /\ reports'[n].country = reports[n].country
                                   /\ reports'[n].minutes = reports[n].minutes,
         \A h \in AdHandlers : pc'[h] = "recordPhase" => pc[h] = "recordPhase" /\ ptr'[h] = ptr[h]
  PROVE  FiguresInv'
<1>1. OneMinute' BY DEF FiguresInv, OneMinute
<1>2. SlotMinutes'
  <2>1. \A s \in Slots : retrieval[s] # 0 => reports'[retrieval[s]].minutes = reports[retrieval[s]].minutes
    BY FigureTypes
  <2> QED BY <2>1 DEF FiguresInv, SlotMinutes, Slots
<1>3. ASSUME NEW n \in DOMAIN reports
      PROVE  reports'[n].phases + Cardinality(Owing(n)') <= reports'[n].country
  <2>1. Owing(n)' \in SUBSET Owing(n) BY DEF Owing
  <2>2. Cardinality(Owing(n)) \in Nat /\ Cardinality(Owing(n)') \in Nat
        /\ Cardinality(Owing(n)') <= Cardinality(Owing(n))
    BY <2>1, OwingFinite
  <2>3. reports[n].phases + Cardinality(Owing(n)) <= reports[n].country BY PhasesAre DEF FiguresInv
  <2> QED BY <2>2, <2>3, FigureTypes
<1> QED BY <1>1, <1>2, <1>3, PhasesAre DEF FiguresInv

(* The timer takes the report from a slot.                                 *)
LEMMA ClearFigures == ASSUME RingInv, FiguresInv, clearRetrieval PROVE FiguresInv'
<1> DEFINE s == Slot(Cleaner)
<1>1. /\ pc[Cleaner] = "clearRetrieval" /\ retrieval' = [retrieval EXCEPT ![s] = 0]
      /\ now' = now /\ reports' = reports /\ pc' = [pc EXCEPT ![Cleaner] = "clearPhase"] /\ ptr' = ptr
  BY DEF clearRetrieval, AtPlace, Goto
<1>2. s = (now + 1) % NumSlots BY <1>1 DEF RingInv, MinutesOK, Busy, Slot
<1> HIDE DEF s
<1>3. OneMinute' BY <1>1 DEF FiguresInv, OneMinute
<1>4. SlotMinutes'
  <2> SUFFICES ASSUME NEW t \in Slots, retrieval'[t] # 0, NEW m \in reports[retrieval'[t]].minutes
               PROVE  m % NumSlots = t /\ m <= now /\ now + 1 <= m + NumSlots /\ now + 1 # m + NumSlots
    BY <1>1 DEF SlotMinutes, Slots
  <2>1. t # s /\ retrieval'[t] = retrieval[t] BY <1>1 DEF RingInv, ReportTypeOK
  <2>2. m % NumSlots = t /\ m <= now /\ now + 1 <= m + NumSlots BY <2>1 DEF FiguresInv, SlotMinutes
  <2>3. m \in Nat BY <2>1, FigureTypes
  <2>4. now + 1 # m + NumSlots BY <1>2, <2>1, <2>2, <2>3, RoundLater
  <2> QED BY <2>2, <2>4
<1>5. \A n : Owing(n)' = Owing(n)
  <2>1. \A h \in AdHandlers : pc'[h] = pc[h]
    BY <1>1, StatusReportAssumption DEF RingInv, ReportTypeOK, Goroutines
  <2> QED BY <1>1, <2>1 DEF Owing
<1>6. PhasesWithinRequests'
  BY <1>1, <1>5, PhasesAre DEF FiguresInv
<1> QED BY <1>3, <1>4, <1>6 DEF FiguresInv

(* A new report counts nothing.                                            *)
LEMMA NewFigures == ASSUME RingInv, FiguresInv, NEW g \in Requesters, visitRetrieval(g) PROVE FiguresInv'
<1> DEFINE s == Slot(g)
<1>0. PICK n : n = Len(reports) + 1 OBVIOUS
<1>1. /\ DOMAIN reports' = DOMAIN reports \cup {n} /\ \A i \in DOMAIN reports : reports'[i] = reports[i]
      /\ reports'[n] = NewReport /\ retrieval' = [retrieval EXCEPT ![s] = n]
  BY <1>0, VisitRetrievalIs DEF RingInv
<1>2. now' = now /\ swept' = swept /\ ptr' = ptr /\ pc' = [pc EXCEPT ![g] = "newPhase"] /\ pc[g] = "newRetrieval"
  BY DEF visitRetrieval, Goto, AtPlace
<1>3. /\ reports'[n].minutes = {} /\ reports'[n].phases = 0 /\ reports'[n].country = 0
  BY <1>1 DEF NewReport
<1>4. g \in Goroutines /\ g # Cleaner /\ Cleaner \in Goroutines /\ AdHandlers \subseteq Goroutines
  BY StatusReportAssumption DEF Requesters, Goroutines
<1>5. \A h \in AdHandlers : ptr[h] # n
  <2>1. \A h \in AdHandlers : ptr[h] \in 0..Len(reports) BY <1>4 DEF RingInv, ReportTypeOK
  <2>2. Len(reports) \in Nat BY DEF RingInv, ReportTypeOK
  <2> QED BY <1>0, <2>1, <2>2
<1> HIDE DEF s
<1>6. Cleared' = Cleared BY <1>2, <1>4 DEF Cleared, RingInv, ReportTypeOK
<1>7. OneMinute' BY <1>1, <1>3 DEF FiguresInv, OneMinute
<1>8. SlotMinutes'
  <2> SUFFICES ASSUME NEW t \in Slots, retrieval'[t] # 0, NEW m \in reports'[retrieval'[t]].minutes
               PROVE  /\ m % NumSlots = t /\ m <= now /\ now + 1 <= m + NumSlots
                      /\ Cleared => now + 1 # m + NumSlots
    BY <1>2, <1>6 DEF SlotMinutes, Slots
  <2>1. retrieval'[t] = retrieval[t] BY <1>1, <1>3 DEF RingInv, ReportTypeOK
  <2>2. reports'[retrieval[t]] = reports[retrieval[t]] BY <1>1, <2>1, FigureTypes
  <2> QED BY <2>1, <2>2 DEF FiguresInv, SlotMinutes
<1>9. \A h \in AdHandlers : pc'[h] = "recordPhase" <=> pc[h] = "recordPhase"
  BY <1>2, <1>4 DEF RingInv, ReportTypeOK
<1>10. \A i : Owing(i)' = Owing(i) BY <1>2, <1>9 DEF Owing
<1>11. Owing(n)' = {} BY <1>2, <1>5 DEF Owing
<1>12. PhasesWithinRequests'
  <2>1. Cardinality({}) = 0 BY FS_EmptySet
  <2>2. reports'[n].phases + Cardinality(Owing(n)') <= reports'[n].country BY <1>3, <1>11, <2>1
  <2>3. ASSUME NEW i \in DOMAIN reports
        PROVE  reports'[i].phases + Cardinality(Owing(i)') <= reports'[i].country
    BY <1>1, <1>10, PhasesAre DEF FiguresInv
  <2> QED BY <1>1, <2>2, <2>3, PhasesAre
<1> QED BY <1>7, <1>8, <1>12 DEF FiguresInv

(* The next minute begins, whose slot the timer has cleared.               *)
LEMMA MinuteFigures == ASSUME RingInv, FiguresInv, NextMinute PROVE FiguresInv'
<1>1. /\ now' = now + 1 /\ swept = TRUE /\ swept' = FALSE /\ pc[Cleaner] = "idle"
      /\ retrieval' = retrieval /\ reports' = reports /\ pc' = pc /\ ptr' = ptr
  BY DEF NextMinute, AtPlace, slots, RingInv, ReportTypeOK
<1>2. Cleared /\ ~Cleared' BY <1>1 DEF Cleared
<1>3. SlotMinutes'
  <2> SUFFICES ASSUME NEW t \in Slots, retrieval[t] # 0, NEW m \in reports[retrieval[t]].minutes
               PROVE  m % NumSlots = t /\ m <= now + 1 /\ now + 1 + 1 <= m + NumSlots
    BY <1>1, <1>2 DEF SlotMinutes, Slots
  <2>1. /\ m % NumSlots = t /\ m <= now /\ now + 1 <= m + NumSlots /\ now + 1 # m + NumSlots
    BY <1>2 DEF FiguresInv, SlotMinutes
  <2>2. m \in Nat /\ now \in Nat /\ NumSlots \in Nat BY FigureTypes
  <2> QED BY <2>1, <2>2
<1>4. OneMinute' BY <1>1 DEF FiguresInv, OneMinute
<1>5. \A n : Owing(n)' = Owing(n) BY <1>1 DEF Owing
<1>6. PhasesWithinRequests' BY <1>1, <1>5, PhasesAre DEF FiguresInv
<1> QED BY <1>3, <1>4, <1>6 DEF FiguresInv

(* A request is recorded in the report of its own minute.                  *)
LEMMA RecordFigures ==
  ASSUME RingInv, FiguresInv, NEW h \in AdHandlers, recordRequest(h)
  PROVE  FiguresInv'
<1>0. PICK n : n = ptr[h] OBVIOUS
<1>1. h \in Requesters /\ h \in Goroutines /\ h # Cleaner /\ Cleaner \in Goroutines /\ pc[h] = "record"
      /\ AdHandlers \subseteq Goroutines
  BY StatusReportAssumption DEF Requesters, Goroutines, recordRequest, AtPlace
<1>2. /\ Slot(h) \in Slots /\ n \in DOMAIN reports /\ n = retrieval[Slot(h)] /\ minute[h] \in 0..MaxMinute
      /\ n # 0
  BY <1>0, <1>1, PtrOfPast, FigureTypes DEF Past
<1>3. /\ DOMAIN reports' = DOMAIN reports
      /\ \A i \in DOMAIN reports : i # n => reports'[i] = reports[i]
      /\ reports'[n].country = reports[n].country + (IF reports[n].topOk THEN 0 ELSE 1)
      /\ reports'[n].phases = reports[n].phases
      /\ reports'[n].minutes = reports[n].minutes \cup {minute[h]}
      /\ pc' = [pc EXCEPT ![h] = IF reports[n].topOk THEN "nilMap" ELSE "recordPhase"]
  BY <1>0, <1>2, RecordIs DEF RingInv
<1>4. now' = now /\ swept' = swept /\ retrieval' = retrieval /\ ptr' = ptr
  BY DEF recordRequest, slots
<1>5. \A f \in Goroutines : f # h => pc'[f] = pc[f] BY <1>3 DEF RingInv, ReportTypeOK
<1>6. Cleared' = Cleared BY <1>1, <1>4, <1>5 DEF Cleared
<1>7. /\ minute[h] % NumSlots = Slot(h) /\ minute[h] <= now
      /\ now + 1 <= minute[h] + NumSlots /\ now + 1 # minute[h] + NumSlots
  <2>1. minute[h] <= now /\ now <= minute[h] + MaxDelay BY <1>1 DEF RingInv, MinutesOK, Busy
  <2>2. minute[h] \in Nat /\ now \in Nat /\ MaxDelay \in Nat /\ NumSlots \in Nat /\ MaxDelay + 1 < NumSlots
    BY <1>2, FigureTypes, StatusReportAssumption
  <2> QED BY <2>1, <2>2 DEF Slot
<1>8. ASSUME NEW m \in reports[n].minutes PROVE m = minute[h]
  <2>1. m % NumSlots = Slot(h) /\ m <= now /\ now + 1 <= m + NumSlots
    BY <1>2 DEF FiguresInv, SlotMinutes
  <2>2. m \in Nat /\ minute[h] \in Nat /\ now \in Nat /\ NumSlots \in Nat BY <1>2, FigureTypes
  <2>3. m <= now /\ now + 1 <= m + NumSlots /\ minute[h] <= now /\ now + 1 <= minute[h] + NumSlots
    BY <1>7, <2>1
  <2>4. m < minute[h] + NumSlots /\ minute[h] < m + NumSlots BY <2>2, <2>3
  <2>5. m - minute[h] < NumSlots /\ minute[h] - m < NumSlots BY <2>2, <2>4
  <2> QED BY <1>7, <2>1, <2>2, <2>5, RoundApart
<1>9. reports'[n].minutes = {minute[h]} BY <1>3, <1>8
<1>10. OneMinute'
  <2> SUFFICES ASSUME NEW i \in DOMAIN reports, NEW a \in reports'[i].minutes, NEW b \in reports'[i].minutes
               PROVE  a = b
    BY <1>3 DEF OneMinute
  <2>1. CASE i = n BY <1>9, <2>1
  <2>2. CASE i # n BY <1>3, <2>2 DEF FiguresInv, OneMinute
  <2> QED BY <2>1, <2>2
<1>11. SlotMinutes'
  <2> SUFFICES ASSUME NEW t \in Slots, retrieval[t] # 0, NEW m \in reports'[retrieval[t]].minutes
               PROVE  /\ m % NumSlots = t /\ m <= now /\ now + 1 <= m + NumSlots
                      /\ Cleared => now + 1 # m + NumSlots
    BY <1>4, <1>6 DEF SlotMinutes, Slots
  <2>1. CASE retrieval[t] = n
    <3>1. t = Slot(h) BY <1>2, <2>1 DEF RingInv, OwnReports
    <3>2. m = minute[h] BY <1>9, <2>1
    <3> QED BY <1>7, <3>1, <3>2
  <2>2. CASE retrieval[t] # n
    <3>1. reports'[retrieval[t]] = reports[retrieval[t]] BY <1>3, <2>2, FigureTypes
    <3> QED BY <3>1 DEF FiguresInv, SlotMinutes
  <2> QED BY <2>1, <2>2
<1>12. ASSUME NEW i \in DOMAIN reports
       PROVE  reports'[i].phases + Cardinality(Owing(i)') <= reports'[i].country
  <2>1. reports[i].phases + Cardinality(Owing(i)) <= reports[i].country BY PhasesAre DEF FiguresInv
  <2>2. /\ IsFiniteSet(Owing(i)) /\ Cardinality(Owing(i)) \in Nat
        /\ reports[i].phases \in Nat /\ reports[i].country \in Nat
    BY OwingFinite, FigureTypes
  <2>3. pc'[h] = IF reports[n].topOk THEN "nilMap" ELSE "recordPhase"
    BY <1>1, <1>3 DEF RingInv, ReportTypeOK
  <2>4. \A f \in AdHandlers : f # h => pc'[f] = pc[f] BY <1>1, <1>5
  <2>5. h \notin Owing(i) BY <1>1 DEF Owing
  <2>6. CASE i # n \/ reports[n].topOk
    <3>1. Owing(i)' = Owing(i) BY <1>0, <1>1, <1>4, <2>3, <2>4, <2>6 DEF Owing
    <3>2. reports'[i].phases = reports[i].phases /\ reports'[i].country = reports[i].country
      BY <1>3, <2>2, <2>6
    <3> QED BY <2>1, <3>1, <3>2
  <2>7. CASE i = n /\ ~reports[n].topOk
    <3>1. Owing(i)' = Owing(i) \cup {h} BY <1>0, <1>4, <2>3, <2>4, <2>7 DEF Owing
    <3>2. reports'[i].phases = reports[i].phases /\ reports'[i].country = reports[i].country + 1
      BY <1>3, <2>7
    <3>3. Cardinality(Owing(i) \cup {h}) = Cardinality(Owing(i)) + 1 BY <2>2, <2>5, FS_AddElement
    <3> QED BY <2>1, <2>2, <3>1, <3>2, <3>3
  <2> QED BY <2>6, <2>7
<1> QED BY <1>3, <1>10, <1>11, <1>12, PhasesAre DEF FiguresInv

(* Its phase is counted in the report it was recorded in.                  *)
LEMMA PhaseFigures ==
  ASSUME RingInv, FiguresInv, NEW h \in AdHandlers, recordPhase(h), phase[Slot(h)] # 0
  PROVE  FiguresInv'
<1>0. PICK n : n = ptr[h] OBVIOUS
<1>1. h \in Requesters /\ h \in Goroutines /\ h # Cleaner /\ Cleaner \in Goroutines /\ pc[h] = "recordPhase"
      /\ AdHandlers \subseteq Goroutines
  BY StatusReportAssumption DEF Requesters, Goroutines, recordPhase, AtPlace
<1>2. n \in DOMAIN reports /\ phase[Slot(h)] = n
  BY <1>0, <1>1, PtrOfPast DEF Past
<1>3. /\ DOMAIN reports' = DOMAIN reports
      /\ \A i \in DOMAIN reports : i # n => reports'[i] = reports[i]
      /\ reports'[n].country = reports[n].country
      /\ reports'[n].phases = reports[n].phases + 1
      /\ reports'[n].minutes = reports[n].minutes
      /\ pc' = [pc EXCEPT ![h] = "idle"]
  BY <1>2, RecordPhaseIs DEF RingInv
<1>4. now' = now /\ swept' = swept /\ retrieval' = retrieval /\ ptr' = ptr
  BY DEF recordPhase, slots
<1>5. pc'[h] = "idle" /\ \A f \in Goroutines : f # h => pc'[f] = pc[f] BY <1>1, <1>3 DEF RingInv, ReportTypeOK
<1>6. Cleared' = Cleared BY <1>1, <1>4, <1>5 DEF Cleared
<1>7. \A i \in DOMAIN reports : reports'[i].minutes = reports[i].minutes BY <1>3
<1>8. OneMinute' BY <1>3, <1>7 DEF FiguresInv, OneMinute
<1>9. SlotMinutes'
  <2>1. \A s \in Slots : retrieval[s] # 0 => reports'[retrieval[s]].minutes = reports[retrieval[s]].minutes
    BY <1>7, FigureTypes
  <2> QED BY <1>4, <1>6, <2>1 DEF FiguresInv, SlotMinutes, Slots
<1>10. ASSUME NEW i \in DOMAIN reports
       PROVE  reports'[i].phases + Cardinality(Owing(i)') <= reports'[i].country
  <2>1. reports[i].phases + Cardinality(Owing(i)) <= reports[i].country BY PhasesAre DEF FiguresInv
  <2>2. /\ IsFiniteSet(Owing(i)) /\ Cardinality(Owing(i)) \in Nat
        /\ reports[i].phases \in Nat /\ reports[i].country \in Nat
    BY OwingFinite, FigureTypes
  <2>3. \A f \in AdHandlers : f # h => pc'[f] = pc[f] BY <1>1, <1>5
  <2>4. CASE i # n
    <3>1. Owing(i)' = Owing(i) BY <1>0, <1>4, <1>5, <2>3, <2>4 DEF Owing
    <3> QED BY <1>3, <2>1, <2>4, <3>1
  <2>5. CASE i = n
    <3>1. Owing(i)' = Owing(i) \ {h} /\ h \in Owing(i) BY <1>0, <1>1, <1>4, <1>5, <2>3, <2>5 DEF Owing
    <3>2. Cardinality(Owing(i) \ {h}) = Cardinality(Owing(i)) - 1 BY <2>2, <3>1, FS_RemoveElement
    <3> QED BY <1>3, <2>1, <2>2, <2>5, <3>1, <3>2
  <2> QED BY <2>4, <2>5
<1> QED BY <1>3, <1>8, <1>9, <1>10, PhasesAre DEF FiguresInv

(* No step mixes minutes, or counts a phase without its request.           *)
LEMMA FiguresStep == RingInv /\ FiguresInv /\ [ReportNext]_reportVars => FiguresInv'
<1> SUFFICES ASSUME RingInv, FiguresInv, [ReportNext]_reportVars PROVE FiguresInv'
  OBVIOUS
<1>1. /\ Requesters \subseteq Goroutines /\ AdHandlers \subseteq Requesters /\ Viewers \subseteq Requesters
      /\ Cleaner \in Goroutines /\ Cleaner \notin Requesters
      /\ pc \in [Goroutines -> Places] /\ ptr \in [Goroutines -> 0..Len(reports)]
  BY StatusReportAssumption DEF Requesters, Goroutines, RingInv, ReportTypeOK
<1>2. ASSUME NEW g \in Requesters, NEW place \in Places, pc' = [pc EXCEPT ![g] = place],
             UNCHANGED <<now, swept, retrieval>>, DOMAIN reports' = DOMAIN reports,
             \A n \in DOMAIN reports : /\ reports'[n].phases = reports[n].phases
                                       /\ reports'[n].country = reports[n].country
                                       /\ reports'[n].minutes = reports[n].minutes,
             place # "recordPhase",
             ptr' = ptr \/ \E n : ptr' = [ptr EXCEPT ![g] = n]
      PROVE  FiguresInv'
  <2>1. pc'[g] = place /\ \A f \in Goroutines : f # g => pc'[f] = pc[f] BY <1>1, <1>2
  <2>2. Cleared' => Cleared BY <1>1, <1>2, <2>1 DEF Cleared
  <2>3. \A f \in Goroutines : f # g => ptr'[f] = ptr[f] BY <1>1, <1>2
  <2>4. \A h \in AdHandlers : pc'[h] = "recordPhase" => pc[h] = "recordPhase" /\ ptr'[h] = ptr[h]
    BY <1>1, <1>2, <2>1, <2>3
  <2> QED BY <1>2, <2>2, <2>4, SameFigures
<1>3. ASSUME NEW g \in Requesters, visit(g) PROVE FiguresInv'
  <2>1. CASE visitRetrieval(g) BY <2>1, NewFigures
  <2>2. CASE visitQuick(g)
    <3>1. (IF inited[Slot(g)] THEN "deref" ELSE "lock") \in Places \ {"recordPhase"} BY DEF Places
    <3>2. pc' = [pc EXCEPT ![g] = IF inited[Slot(g)] THEN "deref" ELSE "lock"]
      BY <2>2 DEF visitQuick, Goto
    <3>3. UNCHANGED <<now, swept, retrieval, reports, ptr>> BY <2>2 DEF visitQuick, slots
    <3> QED BY <1>2, <3>1, <3>2, <3>3
  <2>3. CASE visitLock(g) \/ visitPhase(g)
    <3>1. PICK place \in {"deref", "newRetrieval"} : pc' = [pc EXCEPT ![g] = place]
      BY <2>3 DEF visitLock, visitPhase, Goto
    <3>2. UNCHANGED <<now, swept, retrieval, reports, ptr>> BY <2>3 DEF visitLock, visitPhase
    <3>3. place \in Places \ {"recordPhase"} BY DEF Places
    <3> QED BY <1>2, <3>1, <3>2, <3>3
  <2> QED BY <1>3, <2>1, <2>2, <2>3 DEF visit
<1>4. ASSUME NEW g \in Requesters, derefRetrieval(g, "record") PROVE FiguresInv'
  <2>1. PICK place \in {"nilPointer", "record"} : pc' = [pc EXCEPT ![g] = place]
    <3>1. (IF ptr'[g] = 0 THEN "nilPointer" ELSE "record") \in {"nilPointer", "record"} OBVIOUS
    <3>2. pc' = [pc EXCEPT ![g] = IF ptr'[g] = 0 THEN "nilPointer" ELSE "record"]
      BY <1>4 DEF derefRetrieval, Goto
    <3> QED BY <3>1, <3>2
  <2>2. UNCHANGED <<now, swept, retrieval, reports>> /\ \E n : ptr' = [ptr EXCEPT ![g] = n]
    BY <1>4 DEF derefRetrieval, slots
  <2>3. place \in Places \ {"recordPhase"} BY DEF Places
  <2> QED BY <1>2, <2>1, <2>2, <2>3
<1>5. ASSUME NEW g \in Requesters, NEW place \in Places \ {"recordPhase"}, pc' = [pc EXCEPT ![g] = place],
             UNCHANGED <<now, swept, slots, reports, ptr>>
      PROVE  FiguresInv'
  BY <1>2, <1>5 DEF slots
<1>6. ASSUME NEW g \in Requesters, recover(g) PROVE FiguresInv'
  <2>1. "idle" \in Places \ {"recordPhase"} BY DEF Places
  <2> QED BY <1>5, <1>6, <2>1 DEF recover, Goto
<1>7. ASSUME NEW h \in AdHandlers, RecordReq(h) PROVE FiguresInv'
  <2>1. CASE startRecord(h)
    <3>1. "visit" \in Places \ {"recordPhase"} BY DEF Places
    <3> QED BY <1>1, <1>5, <2>1, <3>1 DEF startRecord, Goto
  <2>2. CASE recordRequest(h) BY <2>2, RecordFigures
  <2>3. CASE recordPhase(h)
    <3>1. CASE phase[Slot(h)] = 0
      <4>1. "nilPointer" \in Places \ {"recordPhase"} BY DEF Places
      <4>2. pc' = [pc EXCEPT ![h] = "nilPointer"] /\ UNCHANGED <<now, swept, slots, reports, ptr>>
        BY <2>3, <3>1 DEF recordPhase, Goto
      <4> QED BY <1>1, <1>5, <4>1, <4>2
    <3>2. CASE phase[Slot(h)] # 0 BY <2>3, <3>2, PhaseFigures
    <3> QED BY <3>1, <3>2
  <2> QED BY <1>1, <1>3, <1>4, <1>6, <1>7, <2>1, <2>2, <2>3 DEF RecordReq
<1>8. ASSUME NEW v \in Viewers, getReports(v) PROVE FiguresInv'
  <2>1. CASE startReport(v)
    <3>1. "visit" \in Places \ {"recordPhase"} BY DEF Places
    <3> QED BY <1>1, <1>5, <2>1, <3>1 DEF startReport, Goto
  <2>2. CASE preReportQuick(v)
    <3>1. (IF reports[ptr[v]].topOk THEN "encode" ELSE "pre") \in Places \ {"recordPhase"} BY DEF Places
    <3>2. /\ pc' = [pc EXCEPT ![v] = IF reports[ptr[v]].topOk THEN "encode" ELSE "pre"]
          /\ UNCHANGED <<now, swept, slots, reports, ptr>>
      BY <2>2 DEF preReportQuick, Goto
    <3> QED BY <1>1, <1>5, <3>1, <3>2
  <2>3. CASE encode(v)
    <3>1. "idle" \in Places \ {"recordPhase"} BY DEF Places
    <3> QED BY <1>1, <1>5, <2>3, <3>1 DEF encode, Goto
  <2>4. CASE preReport(v)
    <3>1. /\ pc[v] \in Past /\ UNCHANGED <<now, swept, retrieval>> /\ ptr' = ptr
          /\ pc' = [pc EXCEPT ![v] = "encode"]
      BY <2>4 DEF preReport, AtPlace, Past, Goto, slots
    <3>2. ptr[v] \in DOMAIN reports BY <1>1, <3>1, PtrOfPast
    <3>3. /\ DOMAIN reports' = DOMAIN reports
          /\ \A n \in DOMAIN reports : /\ reports'[n].phases = reports[n].phases
                                       /\ reports'[n].country = reports[n].country
                                       /\ reports'[n].minutes = reports[n].minutes
      BY <2>4, <3>2, PreReportIs DEF RingInv
    <3>4. "encode" \in Places /\ "encode" # "recordPhase" BY DEF Places
    <3> QED BY <1>1, <1>2, <3>1, <3>3, <3>4
  <2> QED BY <1>1, <1>3, <1>4, <1>6, <1>8, <2>1, <2>2, <2>3, <2>4 DEF getReports
<1>9. ASSUME NEW place, pc' = [pc EXCEPT ![Cleaner] = place],
             UNCHANGED <<now, retrieval, reports, ptr>>, Cleared' => Cleared
      PROVE  FiguresInv'
  <2>1. \A h \in AdHandlers : pc'[h] = pc[h] BY <1>1, <1>9
  <2> QED BY <1>1, <1>9, <2>1, SameFigures
<1>10. CASE sweep
  <2>1. pc' = [pc EXCEPT ![Cleaner] = "clear"] /\ UNCHANGED <<now, retrieval, reports, ptr>>
    BY <1>10 DEF sweep, Goto, slots
  <2>2. ~Cleared' BY <1>1, <2>1 DEF Cleared
  <2> QED BY <1>9, <2>1, <2>2
<1>11. CASE clearInited
  <2>1. pc' = [pc EXCEPT ![Cleaner] = "clearRetrieval"] /\ UNCHANGED <<now, retrieval, reports, ptr>>
    BY <1>11 DEF clearInited, Goto
  <2>2. ~Cleared' BY <1>1, <2>1 DEF Cleared
  <2> QED BY <1>9, <2>1, <2>2
<1>12. CASE clearPhase
  <2>1. /\ pc[Cleaner] = "clearPhase" /\ pc' = [pc EXCEPT ![Cleaner] = "idle"]
        /\ UNCHANGED <<now, swept, retrieval, reports, ptr>>
    BY <1>12 DEF clearPhase, Goto, AtPlace
  <2>2. Cleared' => Cleared BY <2>1 DEF Cleared
  <2> QED BY <1>9, <2>1, <2>2
<1>13. CASE UNCHANGED reportVars
  <2>1. UNCHANGED <<now, swept, retrieval, reports, pc, ptr>> BY <1>13 DEF reportVars, slots
  <2>2. Cleared' => Cleared BY <2>1 DEF Cleared
  <2> QED BY <2>1, <2>2, SameFigures
<1> QED
  BY <1>7, <1>8, <1>10, <1>11, <1>12, <1>13, ClearFigures, MinuteFigures DEF ReportNext, Serve, Finished

(* A report is of the requests of one minute, and counts no phase of a     *)
(* request it lacks, for every number of handlers and slots.               *)
THEOREM ReportsOfOneMinute == ReportSpec => []ReportOfOneMinute
<1>1. ReportInit => FiguresInv
  <2> SUFFICES ASSUME ReportInit PROVE FiguresInv
    OBVIOUS
  <2>1. reports = <<>> /\ DOMAIN reports = {} /\ \A s \in Slots : retrieval[s] = 0 BY DEF ReportInit
  <2> QED BY <2>1 DEF FiguresInv, SlotMinutes, OneMinute, PhasesWithinRequests
<1>2. ASSUME RingInv, FiguresInv PROVE ReportOfOneMinute
  <2>1. ASSUME NEW n \in DOMAIN reports PROVE Cardinality(reports[n].minutes) <= 1
    <3> DEFINE S == reports[n].minutes
    <3>1. \A a, b \in S : a = b BY <1>2 DEF FiguresInv, OneMinute
    <3> SUFFICES Cardinality(S) <= 1 OBVIOUS
    <3> HIDE DEF S
    <3>2. CASE S = {}
      <4>1. Cardinality(S) = 0 BY <3>2, FS_EmptySet
      <4> QED BY <4>1
    <3>3. CASE S # {}
      <4>1. PICK a : S = {a} BY <3>1, <3>3
      <4>2. Cardinality(S) = 1 BY <4>1, FS_Singleton
      <4> QED BY <4>2
    <3> QED BY <3>2, <3>3
  <2> QED BY <1>2, <2>1 DEF ReportOfOneMinute, MinutesNotMixed, FiguresInv
<1> QED BY <1>1, <1>2, RingAlways, FiguresStep, PTL DEF ReportSpec

-----------------------------------------------------------------------------
(* The prepared reports. *)

(* A prepared report is in no slot of this minute, nor of the next once    *)
(* the timer has been there.                                               *)
PreparedOver ==
  \A s \in Slots : retrieval[s] # 0 /\ reports[retrieval[s]].topOk =>
    s # now % NumSlots /\ (Cleared => s # (now + 1) % NumSlots)

(* A status page asks for a minute that is over, and encodes what has been *)
(* prepared; who has met a released map was late.                          *)
Asked == \A v \in Viewers : /\ Busy(v) => minute[v] < now
                            /\ pc[v] = "encode" => reports[ptr[v]].topOk
LateOnly == \A h \in AdHandlers : pc[h] = "nilMap" => minute[h] < now

PreparedInv == PreparedOver /\ Asked /\ LateOnly

(* Prepared reports stay so, and those in the slots stay where they are.   *)
LEMMA SamePrepared ==
  ASSUME RingInv, PreparedOver, UNCHANGED <<now, retrieval>>, Cleared' => Cleared,
         \A n \in DOMAIN reports : reports'[n].topOk = reports[n].topOk
  PROVE  PreparedOver'
<1>1. \A s \in Slots : retrieval[s] # 0 => reports'[retrieval[s]].topOk = reports[retrieval[s]].topOk
  BY FigureTypes
<1> QED BY <1>1 DEF PreparedOver, Slots

(* A step of a request that is at its report or on the way to it.          *)
LEMMA MoveKeepsPrepared ==
  ASSUME RingInv, PreparedInv, NEW g \in Requesters, NEW place, pc' = [pc EXCEPT ![g] = place],
         Busy(g), minute' = minute, now' = now,
         \A n \in DOMAIN reports : reports[n].topOk => reports'[n].topOk,
         ptr' = ptr \/ (pc[g] = "deref" /\ \E n : ptr' = [ptr EXCEPT ![g] = n]),
         g \in Viewers /\ place = "encode" => reports'[ptr'[g]].topOk,
         g \in AdHandlers /\ place = "nilMap" => minute[g] < now,
         ptr' # ptr => place # "encode",
         PreparedOver'
  PROVE  PreparedInv'
<1>1. /\ Requesters \subseteq Goroutines /\ AdHandlers \subseteq Requesters /\ Viewers \subseteq Requesters
      /\ pc \in [Goroutines -> Places] /\ ptr \in [Goroutines -> 0..Len(reports)]
  BY DEF Requesters, Goroutines, RingInv, ReportTypeOK
<1>2. pc'[g] = place /\ \A f \in Goroutines : f # g => pc'[f] = pc[f] /\ ptr'[f] = ptr[f] BY <1>1
<1>3. ASSUME NEW v \in Viewers
      PROVE  (Busy(v)' => minute[v] < now) /\ (pc'[v] = "encode" => reports'[ptr'[v]].topOk)
  <2>1. CASE v = g BY <1>2, <2>1 DEF PreparedInv, Asked, Busy
  <2>2. CASE v # g
    <3>1. pc'[v] = pc[v] /\ ptr'[v] = ptr[v] BY <1>1, <1>2, <2>2
    <3>2. Busy(v)' => minute[v] < now BY <3>1 DEF PreparedInv, Asked, Busy
    <3>3. ASSUME pc'[v] = "encode" PROVE reports'[ptr'[v]].topOk
      <4>1. pc[v] \in Past /\ reports[ptr[v]].topOk BY <3>1, <3>3 DEF PreparedInv, Asked, Past
      <4>2. ptr[v] \in DOMAIN reports BY <1>1, <4>1, PtrOfPast
      <4> QED BY <3>1, <4>1, <4>2
    <3> QED BY <3>2, <3>3
  <2> QED BY <2>1, <2>2
<1>4. Asked' BY <1>3 DEF Asked
<1>5. LateOnly' BY <1>1, <1>2 DEF PreparedInv, LateOnly
<1> QED BY <1>4, <1>5 DEF PreparedInv

(* A request begins; a status page asks for the minute before (startReport *)
(* and startRecord).                                                       *)
LEMMA StartKeepsPrepared ==
  ASSUME RingInv, PreparedInv, NEW g \in Requesters, pc' = [pc EXCEPT ![g] = "visit"],
         NEW m, minute' = [minute EXCEPT ![g] = m], g \in Viewers => m < now,
         UNCHANGED <<now, swept, slots, reports, ptr>>
  PROVE  PreparedInv'
<1>1. /\ Requesters \subseteq Goroutines /\ AdHandlers \subseteq Requesters /\ Viewers \subseteq Requesters
      /\ pc \in [Goroutines -> Places] /\ minute \in [Goroutines -> 0..(MaxMinute + 1)]
      /\ Cleaner \in Goroutines /\ g # Cleaner
  BY StatusReportAssumption DEF Requesters, Goroutines, RingInv, ReportTypeOK
<1>2. pc'[g] = "visit" /\ minute'[g] = m
      /\ \A f \in Goroutines : f # g => pc'[f] = pc[f] /\ minute'[f] = minute[f]
  BY <1>1
<1>3. PreparedOver'
  <2>1. Cleared' => Cleared BY <1>1, <1>2 DEF Cleared
  <2> QED BY <2>1, SamePrepared DEF slots, PreparedInv
<1>4. Asked' BY <1>1, <1>2 DEF PreparedInv, Asked, Busy
<1>5. LateOnly' BY <1>1, <1>2 DEF PreparedInv, LateOnly
<1> QED BY <1>3, <1>4, <1>5 DEF PreparedInv

(* The timer empties the slot of the next minute (clearRetrieval).         *)
LEMMA ClearKeepsPrepared == ASSUME RingInv, PreparedOver, clearRetrieval PROVE PreparedOver'
<1> DEFINE s == Slot(Cleaner)
<1>1. /\ pc[Cleaner] = "clearRetrieval" /\ retrieval' = [retrieval EXCEPT ![s] = 0]
      /\ now' = now /\ reports' = reports
  BY DEF clearRetrieval, AtPlace
<1>2. s = (now + 1) % NumSlots BY <1>1 DEF RingInv, MinutesOK, Busy, Slot
<1> HIDE DEF s
<1>3. ASSUME NEW t \in Slots, retrieval'[t] # 0
      PROVE  t # s /\ retrieval'[t] = retrieval[t]
  BY <1>1, <1>3 DEF RingInv, ReportTypeOK
<1> QED BY <1>1, <1>2, <1>3 DEF PreparedOver, Slots

(* A new report is not prepared (visitRetrieval).                          *)
LEMMA NewIsNotPrepared ==
  ASSUME RingInv, PreparedOver, NEW g \in Requesters, visitRetrieval(g) PROVE PreparedOver'
<1> DEFINE s == Slot(g)
<1>0. PICK n : n = Len(reports) + 1 OBVIOUS
<1>1. /\ \A i \in DOMAIN reports : reports'[i] = reports[i]
      /\ reports'[n] = NewReport /\ retrieval' = [retrieval EXCEPT ![s] = n]
  BY <1>0, VisitRetrievalIs DEF RingInv
<1>2. now' = now /\ swept' = swept /\ pc' = [pc EXCEPT ![g] = "newPhase"] /\ g # Cleaner
      /\ Cleaner \in Goroutines
  BY StatusReportAssumption DEF visitRetrieval, Goto, Requesters, Goroutines
<1>3. ~reports'[n].topOk BY <1>1 DEF NewReport
<1> HIDE DEF s
<1>4. Cleared' = Cleared BY <1>2 DEF Cleared, RingInv, ReportTypeOK
<1>5. ASSUME NEW t \in Slots, retrieval'[t] # 0, reports'[retrieval'[t]].topOk
      PROVE  retrieval[t] # 0 /\ reports[retrieval[t]].topOk
  <2>1. retrieval'[t] = retrieval[t] BY <1>1, <1>3, <1>5 DEF RingInv, ReportTypeOK
  <2> QED BY <1>1, <1>5, <2>1, FigureTypes
<1> QED BY <1>2, <1>4, <1>5 DEF PreparedOver, Slots

(* A report is prepared when its minute is over (preReport).               *)
LEMMA PreReportIsOver ==
  ASSUME RingInv, PreparedInv, NEW v \in Viewers, preReport(v) PROVE PreparedOver'
<1>1. /\ pc[v] = "pre" /\ v \in Requesters /\ v \in Goroutines /\ v # Cleaner /\ Cleaner \in Goroutines
      /\ UNCHANGED <<now, swept, retrieval>> /\ pc' = [pc EXCEPT ![v] = "encode"]
  BY StatusReportAssumption DEF preReport, AtPlace, Goto, Requesters, Goroutines, slots
<1>2. ptr[v] \in DOMAIN reports /\ ptr[v] = retrieval[Slot(v)] /\ Slot(v) \in Slots
  BY <1>1, PtrOfPast DEF Past
<1>3. \A i \in DOMAIN reports : i # ptr[v] => reports'[i] = reports[i]
  BY <1>2, PreReportIs DEF RingInv
<1>4. Cleared' = Cleared BY <1>1 DEF Cleared, RingInv, ReportTypeOK
<1>5. Slot(v) # now % NumSlots /\ Slot(v) # (now + 1) % NumSlots
  <2>1. Busy(v) BY <1>1 DEF Busy
  <2>2. minute[v] < now /\ now <= minute[v] + MaxDelay /\ minute[v] \in Nat /\ now \in Nat
        /\ MaxDelay \in Nat /\ NumSlots \in Nat /\ MaxDelay + 1 < NumSlots
    BY <1>1, <2>1, FigureTypes, SlotsOfRequests, StatusReportAssumption
       DEF PreparedInv, Asked, RingInv, MinutesOK
  <2>3. minute[v] % NumSlots # now % NumSlots
    <3>1. minute[v] - now < NumSlots /\ now - minute[v] < NumSlots /\ minute[v] # now BY <2>2
    <3> QED BY <2>2, <3>1, RoundApart
  <2>4. (now + 1) % NumSlots # Slot(v) BY <1>1, <2>1, SlotsOfRequests DEF RingInv
  <2> QED BY <2>3, <2>4 DEF Slot
<1>6. ASSUME NEW t \in Slots, retrieval[t] # 0, reports'[retrieval[t]].topOk
      PROVE  t # now % NumSlots /\ (Cleared => t # (now + 1) % NumSlots)
  <2>1. CASE retrieval[t] = ptr[v]
    <3>1. t = Slot(v) BY <1>2, <1>6, <2>1 DEF RingInv, OwnReports
    <3> QED BY <1>5, <3>1
  <2>2. CASE retrieval[t] # ptr[v]
    <3>1. reports[retrieval[t]].topOk BY <1>3, <1>6, <2>2, FigureTypes
    <3> QED BY <1>6, <3>1 DEF PreparedInv, PreparedOver
  <2> QED BY <2>1, <2>2
<1> QED BY <1>1, <1>4, <1>6 DEF PreparedOver, Slots

(* A step of the timer, or of nobody, is none of a request.                *)
LEMMA OthersKeepPrepared ==
  ASSUME PreparedInv, \A g \in Requesters : pc'[g] = pc[g] /\ minute'[g] = minute[g],
         UNCHANGED <<ptr, reports>>, now' \in Int, now \in Int, now' >= now, PreparedOver',
         minute \in [Goroutines -> 0..(MaxMinute + 1)]
  PROVE  PreparedInv'
<1>1. \A g \in Requesters : minute[g] \in Int BY StatusReportAssumption DEF Requesters, Goroutines
<1>2. Asked' BY <1>1 DEF PreparedInv, Asked, Busy, Requesters
<1>3. LateOnly' BY <1>1 DEF PreparedInv, LateOnly, Requesters
<1> QED BY <1>2, <1>3 DEF PreparedInv

(* Every step keeps what is prepared out of the slot of the minute.        *)
LEMMA PreparedStep == RingInv /\ PreparedInv /\ [ReportNext]_reportVars => PreparedInv'
<1> SUFFICES ASSUME RingInv, PreparedInv, [ReportNext]_reportVars PROVE PreparedInv'
  OBVIOUS
<1> DEFINE Quiets == {"idle", "deref", "lock", "newRetrieval", "record", "recordPhase", "pre", "nilPointer"}
<1>1. /\ Requesters \subseteq Goroutines /\ AdHandlers \subseteq Requesters /\ Viewers \subseteq Requesters
      /\ AdHandlers \cap Viewers = {}
      /\ Cleaner \in Goroutines /\ Cleaner \notin Requesters
      /\ pc \in [Goroutines -> Places] /\ minute \in [Goroutines -> 0..(MaxMinute + 1)]
      /\ now \in Nat /\ PreparedOver
  BY StatusReportAssumption, FigureTypes DEF Requesters, Goroutines, RingInv, ReportTypeOK, PreparedInv
<1>13. /\ "idle" \in Quiets /\ "pre" \in Quiets /\ "recordPhase" \in Quiets /\ "nilPointer" \in Quiets
       /\ "deref" \in Quiets /\ "lock" \in Quiets /\ "newRetrieval" \in Quiets /\ "record" \in Quiets
       /\ "encode" \notin Quiets /\ "nilMap" \notin Quiets
  OBVIOUS
<1> HIDE DEF Quiets
\* Steps that leave the reports in their slots.
<1>2. ASSUME NEW g \in Requesters, NEW place, pc' = [pc EXCEPT ![g] = place],
             UNCHANGED <<now, swept, retrieval>>,
             \A n \in DOMAIN reports : reports'[n].topOk = reports[n].topOk
      PROVE  PreparedOver'
  <2>1. Cleared' => Cleared BY <1>1, <1>2 DEF Cleared
  <2> QED BY <1>1, <1>2, <2>1, SamePrepared
<1>3. ASSUME NEW g \in Requesters, NEW place \in Quiets, Busy(g), pc' = [pc EXCEPT ![g] = place],
             UNCHANGED <<now, swept, retrieval, minute>>,
             \A n \in DOMAIN reports : reports'[n].topOk = reports[n].topOk,
             ptr' = ptr \/ (pc[g] = "deref" /\ \E n : ptr' = [ptr EXCEPT ![g] = n])
      PROVE  PreparedInv'
  <2>1. PreparedOver' BY <1>2, <1>3
  <2>2. place # "encode" /\ place # "nilMap" BY <1>3, <1>13
  <2> QED BY <1>3, <2>1, <2>2, MoveKeepsPrepared
<1>4. ASSUME NEW g \in Requesters, visit(g) PROVE PreparedInv'
  <2>1. CASE visitRetrieval(g)
    <3>1. PreparedOver' BY <1>1, <2>1, NewIsNotPrepared
    <3>2. /\ pc[g] = "newRetrieval" /\ Busy(g) /\ pc' = [pc EXCEPT ![g] = "newPhase"]
          /\ UNCHANGED <<now, minute, ptr>>
      BY <2>1 DEF visitRetrieval, AtPlace, Goto, Busy
    <3>3. \A n \in DOMAIN reports : reports'[n] = reports[n] BY <2>1, VisitRetrievalIs DEF RingInv
    <3> QED BY <3>1, <3>2, <3>3, MoveKeepsPrepared
  <2>2. CASE visitQuick(g) \/ visitLock(g) \/ visitPhase(g)
    <3>1. PICK place \in {"deref", "lock", "newRetrieval"} : pc' = [pc EXCEPT ![g] = place]
      <4>1. (IF inited[Slot(g)] THEN "deref" ELSE "lock") \in {"deref", "lock", "newRetrieval"} OBVIOUS
      <4> QED BY <2>2, <4>1 DEF visitQuick, visitLock, visitPhase, Goto
    <3>2. Busy(g) /\ UNCHANGED <<now, swept, retrieval, reports, ptr, minute>>
      BY <2>2 DEF visitQuick, visitLock, visitPhase, slots, Busy, AtPlace
    <3> QED BY <1>3, <1>13, <3>1, <3>2
  <2> QED BY <1>4, <2>1, <2>2 DEF visit
<1>5. ASSUME NEW g \in Requesters, derefRetrieval(g, "record") PROVE PreparedInv'
  <2>1. PICK place \in {"nilPointer", "record"} : pc' = [pc EXCEPT ![g] = place]
    <3>1. (IF ptr'[g] = 0 THEN "nilPointer" ELSE "record") \in {"nilPointer", "record"} OBVIOUS
    <3>2. pc' = [pc EXCEPT ![g] = IF ptr'[g] = 0 THEN "nilPointer" ELSE "record"]
      BY <1>5 DEF derefRetrieval, Goto
    <3> QED BY <3>1, <3>2
  <2>2. /\ pc[g] = "deref" /\ Busy(g) /\ UNCHANGED <<now, swept, retrieval, reports, minute>>
        /\ \E n : ptr' = [ptr EXCEPT ![g] = n]
    BY <1>5 DEF derefRetrieval, slots, AtPlace, Busy
  <2> QED BY <1>3, <1>13, <2>1, <2>2
<1>6. ASSUME NEW g \in Requesters, recover(g) PROVE PreparedInv'
  <2>1. Busy(g) /\ pc' = [pc EXCEPT ![g] = "idle"] /\ UNCHANGED <<now, swept, retrieval, reports, ptr, minute>>
    BY <1>6 DEF recover, Goto, slots, Busy
  <2> QED BY <1>3, <1>13, <2>1
<1>7. ASSUME NEW h \in AdHandlers, RecordReq(h) PROVE PreparedInv'
  <2>1. CASE startRecord(h)
    <3>1. pc' = [pc EXCEPT ![h] = "visit"] /\ minute' = [minute EXCEPT ![h] = now]
          /\ UNCHANGED <<now, swept, slots, reports, ptr>>
      BY <2>1 DEF startRecord, Goto
    <3> QED BY <1>1, <3>1, StartKeepsPrepared
  <2>2. CASE recordRequest(h)
    <3>1. pc[h] = "record" /\ Busy(h) /\ UNCHANGED <<now, swept, retrieval, minute, ptr>>
      BY <2>2 DEF recordRequest, AtPlace, Busy, slots
    <3>2. ptr[h] \in DOMAIN reports /\ ptr[h] = retrieval[Slot(h)] /\ Slot(h) \in Slots /\ minute[h] \in 0..MaxMinute
      BY <1>1, <3>1, PtrOfPast DEF Past
    <3>3. /\ \A n \in DOMAIN reports : reports'[n].topOk = reports[n].topOk
          /\ pc' = [pc EXCEPT ![h] = IF reports[ptr[h]].topOk THEN "nilMap" ELSE "recordPhase"]
      BY <2>2, <3>2, RecordIs DEF RingInv
    <3>4. CASE ~reports[ptr[h]].topOk
      <4>1. pc' = [pc EXCEPT ![h] = "recordPhase"] BY <3>3, <3>4
      <4> QED BY <1>1, <1>3, <1>13, <3>1, <3>3, <4>1
    <3>5. CASE reports[ptr[h]].topOk
      <4>1. pc' = [pc EXCEPT ![h] = "nilMap"] BY <3>3, <3>5
      <4>2. minute[h] < now
        <5>1. Slot(h) # now % NumSlots
          <6>1. retrieval[Slot(h)] # 0 BY <3>2, FigureTypes
          <6> QED BY <1>1, <3>2, <3>5, <6>1 DEF PreparedOver
        <5>2. minute[h] # now BY <5>1 DEF Slot
        <5>3. minute[h] <= now BY <1>1, <3>1 DEF RingInv, MinutesOK
        <5> QED BY <1>1, <3>2, <5>2, <5>3, FigureTypes
      <4>3. PreparedOver' BY <1>1, <1>2, <3>1, <3>3, <4>1
      <4>4. h \in Requesters /\ h \notin Viewers BY <1>1
      <4>5. \A n \in DOMAIN reports : reports[n].topOk => reports'[n].topOk BY <3>3
      <4> QED BY <3>1, <4>1, <4>2, <4>3, <4>4, <4>5, MoveKeepsPrepared
    <3> QED BY <3>4, <3>5
  <2>3. CASE recordPhase(h)
    <3>1. pc[h] = "recordPhase" /\ Busy(h) /\ UNCHANGED <<now, swept, retrieval, minute, ptr>>
      BY <2>3 DEF recordPhase, AtPlace, Busy, slots
    <3>2. CASE phase[Slot(h)] = 0
      <4>1. pc' = [pc EXCEPT ![h] = "nilPointer"] /\ reports' = reports BY <2>3, <3>2 DEF recordPhase, Goto
      <4> QED BY <1>1, <1>3, <1>13, <3>1, <4>1
    <3>3. CASE phase[Slot(h)] # 0
      <4>1. phase[Slot(h)] \in DOMAIN reports BY <1>1, <3>1, <3>3, PtrOfPast DEF Past
      <4>2. /\ \A n \in DOMAIN reports : reports'[n].topOk = reports[n].topOk
            /\ pc' = [pc EXCEPT ![h] = "idle"]
        BY <2>3, <4>1, RecordPhaseIs DEF RingInv
      <4> QED BY <1>1, <1>3, <1>13, <3>1, <4>2
    <3> QED BY <3>2, <3>3
  <2> QED BY <1>1, <1>4, <1>5, <1>6, <1>7, <2>1, <2>2, <2>3 DEF RecordReq
<1>8. ASSUME NEW v \in Viewers, getReports(v) PROVE PreparedInv'
  <2>0. v \in Requesters /\ v \notin AdHandlers BY <1>1
  <2>1. CASE startReport(v)
    <3>1. pc' = [pc EXCEPT ![v] = "visit"] /\ minute' = [minute EXCEPT ![v] = now - 1]
          /\ UNCHANGED <<now, swept, slots, reports, ptr>>
      BY <2>1 DEF startReport, Goto
    <3>2. now - 1 < now BY <1>1
    <3> QED BY <2>0, <3>1, <3>2, StartKeepsPrepared
  <2>2. CASE preReportQuick(v)
    <3>1. pc[v] = "record" /\ Busy(v) /\ UNCHANGED <<now, swept, retrieval, reports, minute, ptr>>
      BY <2>2 DEF preReportQuick, AtPlace, Busy, slots
    <3>2. CASE ~reports[ptr[v]].topOk
      <4>1. pc' = [pc EXCEPT ![v] = "pre"] BY <2>2, <3>2 DEF preReportQuick, Goto
      <4> QED BY <1>3, <1>13, <2>0, <3>1, <4>1
    <3>3. CASE reports[ptr[v]].topOk
      <4>1. pc' = [pc EXCEPT ![v] = "encode"] BY <2>2, <3>3 DEF preReportQuick, Goto
      <4>2. PreparedOver' BY <1>2, <2>0, <3>1, <4>1
      <4> QED BY <2>0, <3>1, <3>3, <4>1, <4>2, MoveKeepsPrepared
    <3> QED BY <3>2, <3>3
  <2>3. CASE encode(v)
    <3>1. Busy(v) /\ pc' = [pc EXCEPT ![v] = "idle"] /\ UNCHANGED <<now, swept, retrieval, reports, minute, ptr>>
      BY <2>3 DEF encode, AtPlace, Goto, Busy, slots
    <3> QED BY <1>3, <1>13, <2>0, <3>1
  <2>4. CASE preReport(v)
    <3>1. /\ pc[v] = "pre" /\ Busy(v) /\ UNCHANGED <<now, minute, ptr>> /\ pc' = [pc EXCEPT ![v] = "encode"]
      BY <2>4 DEF preReport, AtPlace, Busy, Goto
    <3>2. ptr[v] \in DOMAIN reports BY <2>0, <3>1, PtrOfPast DEF Past
    <3>3. /\ \A i \in DOMAIN reports : i # ptr[v] => reports'[i] = reports[i]
          /\ reports'[ptr[v]].topOk
      BY <2>4, <3>2, PreReportIs DEF RingInv
    <3>4. \A n \in DOMAIN reports : reports[n].topOk => reports'[n].topOk BY <3>3
    <3>5. PreparedOver' BY <2>4, PreReportIsOver
    <3> QED BY <2>0, <3>1, <3>3, <3>4, <3>5, MoveKeepsPrepared
  <2> QED BY <1>4, <1>5, <1>6, <1>8, <2>0, <2>1, <2>2, <2>3, <2>4 DEF getReports
<1>9. ASSUME NEW place, pc' = [pc EXCEPT ![Cleaner] = place], \A g \in Requesters : minute'[g] = minute[g],
             UNCHANGED <<now, reports, ptr>>, PreparedOver'
      PROVE  PreparedInv'
  <2>1. \A g \in Requesters : pc'[g] = pc[g] BY <1>1, <1>9
  <2> QED BY <1>1, <1>9, <2>1, OthersKeepPrepared
<1>10. CASE Serve
  <2>1. CASE sweep
    <3>1. /\ pc' = [pc EXCEPT ![Cleaner] = "clear"] /\ UNCHANGED <<now, retrieval, reports, ptr>>
          /\ minute' = [minute EXCEPT ![Cleaner] = now + 1]
      BY <2>1 DEF sweep, Goto, slots
    <3>2. ~Cleared' BY <1>1, <3>1 DEF Cleared
    <3>3. PreparedOver' BY <1>1, <3>1, <3>2, SamePrepared
    <3> QED BY <1>1, <1>9, <3>1, <3>3
  <2>2. CASE clearInited
    <3>1. pc' = [pc EXCEPT ![Cleaner] = "clearRetrieval"] /\ UNCHANGED <<now, retrieval, reports, ptr, minute>>
      BY <2>2 DEF clearInited, Goto
    <3>2. ~Cleared' BY <1>1, <3>1 DEF Cleared
    <3>3. PreparedOver' BY <1>1, <3>1, <3>2, SamePrepared
    <3> QED BY <1>9, <3>1, <3>3
  <2>3. CASE clearRetrieval
    <3>1. pc' = [pc EXCEPT ![Cleaner] = "clearPhase"] /\ UNCHANGED <<now, reports, ptr, minute>>
      BY <2>3 DEF clearRetrieval, Goto
    <3>2. PreparedOver' BY <1>1, <2>3, ClearKeepsPrepared
    <3> QED BY <1>9, <3>1, <3>2
  <2>4. CASE clearPhase
    <3>1. /\ pc[Cleaner] = "clearPhase" /\ pc' = [pc EXCEPT ![Cleaner] = "idle"]
          /\ UNCHANGED <<now, swept, retrieval, reports, ptr, minute>>
      BY <2>4 DEF clearPhase, Goto, AtPlace
    <3>2. Cleared' => Cleared BY <3>1 DEF Cleared
    <3>3. PreparedOver' BY <1>1, <3>1, <3>2, SamePrepared
    <3> QED BY <1>9, <3>1, <3>3
  <2> QED BY <1>10, <2>1, <2>2, <2>3, <2>4 DEF Serve
<1>11. CASE NextMinute
  <2>1. /\ now' = now + 1 /\ swept = TRUE /\ swept' = FALSE /\ pc[Cleaner] = "idle"
        /\ UNCHANGED <<retrieval, reports, pc, ptr, minute>>
    BY <1>11 DEF NextMinute, AtPlace, slots, RingInv, ReportTypeOK
  <2>2. Cleared /\ ~Cleared' BY <2>1 DEF Cleared
  <2>3. PreparedOver' BY <1>1, <2>1, <2>2 DEF PreparedOver, Slots
  <2>4. now + 1 \in Int /\ now + 1 >= now /\ now \in Int BY <1>1
  <2> QED BY <1>1, <2>1, <2>3, <2>4, OthersKeepPrepared
<1>12. CASE UNCHANGED reportVars
  <2>1. UNCHANGED <<now, swept, retrieval, reports, pc, ptr, minute>> BY <1>12 DEF reportVars, slots
  <2>2. Cleared' => Cleared BY <2>1 DEF Cleared
  <2>3. PreparedOver' BY <1>1, <2>1, <2>2, SamePrepared
  <2> QED BY <1>1, <2>1, <2>3, OthersKeepPrepared
<1> QED BY <1>7, <1>8, <1>10, <1>11, <1>12 DEF ReportNext, Finished

(* Whoever is recorded in the minute it came in writes no released map,    *)
(* and no map that is being encoded, whatever the number of requests and   *)
(* status pages (recordRequest, preReport, encode).                        *)
THEOREM OnlyLateLose == ReportSpec => []OnlyLateMeetPrepared
<1>1. ReportInit => PreparedInv
  <2> SUFFICES ASSUME ReportInit PROVE PreparedInv
    OBVIOUS
  <2>1. /\ \A s \in Slots : retrieval[s] = 0
        /\ \A g \in Goroutines : pc[g] = "idle"
    BY DEF ReportInit
  <2> QED BY <2>1 DEF PreparedInv, PreparedOver, Asked, LateOnly, Busy, Goroutines
<1>2. ASSUME RingInv, PreparedInv PROVE OnlyLateMeetPrepared
  <2> SUFFICES ASSUME NEW h \in AdHandlers, minute[h] = now
               PROVE  /\ pc[h] # "nilMap"
                      /\ pc[h] \in {"record", "recordPhase"} =>
                           \A v \in Viewers : ~(pc[v] = "encode" /\ ptr[v] = ptr[h])
    BY DEF OnlyLateMeetPrepared, AtPlace
  <2>0. h \in Requesters BY DEF Requesters
  <2>1. now \in Nat BY <1>2, FigureTypes
  <2>2. pc[h] # "nilMap" BY <1>2, <2>1 DEF PreparedInv, LateOnly
  <2>3. ASSUME pc[h] \in {"record", "recordPhase"}, NEW v \in Viewers, pc[v] = "encode", ptr[v] = ptr[h]
        PROVE  FALSE
    <3>1. ptr[h] \in DOMAIN reports /\ ptr[h] = retrieval[Slot(h)] /\ Slot(h) \in Slots
      BY <1>2, <2>0, <2>3, PtrOfPast DEF Past
    <3>2. retrieval[Slot(h)] # 0 BY <1>2, <3>1, FigureTypes
    <3>3. reports[retrieval[Slot(h)]].topOk BY <1>2, <2>3, <3>1 DEF PreparedInv, Asked
    <3>4. Slot(h) # now % NumSlots BY <1>2, <3>1, <3>2, <3>3 DEF PreparedInv, PreparedOver
    <3> QED BY <3>4 DEF Slot
  <2> QED BY <2>2, <2>3
<1> QED BY <1>1, <1>2, PreparedStep, RingAlways, PTL DEF ReportSpec

-----------------------------------------------------------------------------
(* The handlers and the reports in one process, as the run `records` has   *)
(* them: what is proved of each holds there, since a step is of one of the *)
(* two and leaves the other as it is.                                      *)
THEOREM RecordsTogether ==
  mcSpec => /\ [](TypesOK /\ StatisticsAddUp /\ ClosedServesNothing /\ QpsAddsUp)
            /\ [](NilOnlyWhileVisited /\ ReportOfOneMinute /\ OnlyLateMeetPrepared)
<1>1. mcInit => Init /\ ReportInit BY DEF mcInit
<1>2. [mcNext]_<<part, vars, reportVars>> => [Next]_vars /\ [ReportNext]_reportVars BY DEF mcNext
<1>3. mcSpec => Spec /\ ReportSpec BY <1>1, <1>2, PTL DEF mcSpec, Spec, ReportSpec
<1>4. TypeOK /\ ReportTypeOK => TypesOK BY DEF TypesOK
<1> QED
  BY <1>3, <1>4, HandlersTypeCorrect, StatisticsBalance, ClosedSlotsServeNothing, QpsLinesAddUp,
     StatusReportTypeCorrect, NilReportsOnlyAtFirstVisit, ReportsOfOneMinute, OnlyLateLose, PTL
=============================================================================
