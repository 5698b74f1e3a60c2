---------------------------- MODULE PacingProofs ----------------------------
(***************************************************************************)
(* The overshoot of the pacing controllers is bounded, for every number of *)
(* requests, every fleet and every clock.                                  *)
(*                                                                         *)
(* OvershootBounded is not inductive: what a controller has counted must   *)
(* be taken together with the requests that it has let through and that    *)
(* have not yet told it (Passing).  Their sum only grows when a request is *)
(* let through, and then the count is at most the threshold.               *)
(*                                                                         *)
(* FuyuOvershootBounded allows each request a second click, the one that a *)
(* request carries from the controller it asked to the one published when  *)
(* it is counted; FuyuSums adds those that may still be carried.           *)
(***************************************************************************)
EXTENDS Pacing, TLAPS, FiniteSetTheorems

Places == {"idle", "search", "add", "fuyu", "fuyuDocs", "fuyuSearch", "fuyuGet", "fuyuAdd"}

-----------------------------------------------------------------------------
(* Controllers. *)

(* The largest threshold of a controller is a number, and no threshold of  *)
(* a request is above it (OverCap).                                        *)
LEMMA TopIsMost ==
  ASSUME NEW c \in Controller
  PROVE  /\ Top(c) \in Nat
         /\ \A r \in Requests : Threshold(c, r) \in Nat /\ Threshold(c, r) <= Top(c)
<1>1. c.pacing \in Nat /\ c.nInstances \in Nat \ {0} BY DEF Controller
<1>2. CASE Manual = -1 BY <1>1, <1>2 DEF Top, Threshold
<1>3. CASE Manual # -1
  <2>1. Manual \in Nat BY <1>3, PacingAssumption
  <2>2. Manual \div c.nInstances \in Nat BY <2>1, <1>1
  <2> QED BY <1>3, <2>2 DEF Top, Threshold
<1> QED BY <1>2, <1>3

(* New controllers, divided or not, count nothing (NewPacingController).   *)
LEMMA NewIsController ==
  /\ Blank \in Controller /\ Blank.kind = "ordinary" /\ \A m \in Minute : Blank.count[m] = 0
  /\ \A kind \in {"ordinary", "fuyu"} : \A c \in NewPacingController(kind) :
       c \in Controller /\ c.kind = kind /\ \A m \in Minute : c.count[m] = 0
<1>1. ASSUME NEW kind \in {"ordinary", "fuyu"}, NEW g \in Nat, NEW n \in Nat \ {0}
      PROVE  /\ New(kind, g, n) \in Controller /\ New(kind, g, n).kind = kind
             /\ \A m \in Minute : New(kind, g, n).count[m] = 0
  BY DEF New, Controller
<1>2. \A n \in Fleets : n \in Nat \ {0} /\ GlobalPacing \div n \in Nat
  <2>1. \A n \in Nat \ {0} : GlobalPacing \div n \in Nat BY PacingAssumption
  <2> QED BY <2>1, PacingAssumption
<1>3. /\ Blank \in Controller /\ Blank.kind = "ordinary"
      /\ \A m \in Minute : Blank.count[m] = 0
  <2>1. 0 \in Nat /\ 1 \in Nat \ {0} OBVIOUS
  <2> HIDE DEF New
  <2> QED BY <1>1, <2>1 DEF Blank
<1>4. ASSUME NEW kind \in {"ordinary", "fuyu"}, NEW c \in NewPacingController(kind)
      PROVE  c \in Controller /\ c.kind = kind /\ \A m \in Minute : c.count[m] = 0
  <2>1. CASE \E n \in Fleets : c = New(kind, GlobalPacing \div n, n)
    <3>1. PICK n \in Fleets : c = New(kind, GlobalPacing \div n, n) BY <2>1
    <3>2. n \in Nat \ {0} /\ GlobalPacing \div n \in Nat BY <1>2
    <3> QED BY <1>1, <3>1, <3>2
  <2>2. CASE c = New(kind, GlobalPacing, DefaultFleet)
    <3>1. GlobalPacing \in Nat /\ DefaultFleet \in Nat \ {0} BY PacingAssumption
    <3> QED BY <1>1, <2>2, <3>1
  <2> QED BY <1>4, <2>1, <2>2 DEF NewPacingController
<1> QED BY <1>3, <1>4

(* A click adds one under its minute and changes nothing else that counts  *)
(* (Add).                                                                  *)
LEMMA AddCounts ==
  ASSUME NEW c \in Controller, NEW m \in Minute
  PROVE  /\ Add(c, m) \in Controller
         /\ Add(c, m).kind = c.kind /\ Top(Add(c, m)) = Top(c)
         /\ \A n \in Minute : Add(c, m).count[n] = IF n = m THEN c.count[n] + 1 ELSE c.count[n]
<1> DEFINE count == [c.count EXCEPT ![m] = c.count[m] + 1]
<1>1. c.count \in [Minute -> Nat] BY DEF Controller
<1>2. count \in [Minute -> Nat] /\ \A n \in Minute : count[n] = IF n = m THEN c.count[n] + 1 ELSE c.count[n]
  BY <1>1
<1>3. Add(c, m) = [c EXCEPT !.count = count] BY DEF Add
<1> HIDE DEF count
<1>4. Add(c, m) \in Controller BY <1>2, <1>3 DEF Controller
<1>5. /\ Add(c, m).kind = c.kind /\ Add(c, m).pacing = c.pacing
      /\ Add(c, m).nInstances = c.nInstances /\ Add(c, m).count = count
  BY <1>3 DEF Controller
<1>6. Top(Add(c, m)) = Top(c) BY <1>5 DEF Top
<1> QED BY <1>2, <1>4, <1>5, <1>6

(* A tick changes no threshold, and a count stays or is forgotten (Older). *)
LEMMA OlderCounts ==
  ASSUME NEW c \in Controller, NEW m \in Minute
  PROVE  /\ Older(c, m) \in Controller
         /\ Older(c, m).kind = c.kind /\ Top(Older(c, m)) = Top(c)
         /\ \A n \in Minute : Older(c, m).count[n] \in {0, c.count[n]}
<1> DEFINE count == [c.count EXCEPT ![m] = 0]
<1>1. c.count \in [Minute -> Nat] BY DEF Controller
<1>2. count \in [Minute -> Nat] /\ \A n \in Minute : count[n] \in {0, c.count[n]} BY <1>1
<1>3. Older(c, m) = [c EXCEPT !.count = count] BY DEF Older
<1> HIDE DEF count
<1>4. Older(c, m) \in Controller BY <1>2, <1>3 DEF Controller
<1>5. /\ Older(c, m).kind = c.kind /\ Older(c, m).pacing = c.pacing
      /\ Older(c, m).nInstances = c.nInstances /\ Older(c, m).count = count
  BY <1>3 DEF Controller
<1>6. Top(Older(c, m)) = Top(c) BY <1>5 DEF Top
<1> QED BY <1>2, <1>4, <1>5, <1>6

-----------------------------------------------------------------------------
(* The invariant. *)

(* Every controller is of the kind it is used for (StorePacing,            *)
(* StoreFuyuPacing and the places that load one).                          *)
Kinds ==
  /\ heap[pc].kind = "ordinary" /\ heap[fuyuPc].kind = "fuyu"
  /\ \A r \in Requests : at[r] \in {"search", "add"} => heap[ctl[r]].kind = "ordinary"
  /\ \A r \in Requests : at[r] \in {"fuyuDocs", "fuyuAdd"} => heap[ctl[r]].kind = "fuyu"
  /\ \A r \in Requests \ Wugan : at[r] = "fuyuSearch" => heap[ctl[r]].kind = "fuyu"

(* The requests that p has let through and that will tell it.              *)
Passing(p, m) == {r \in Requests : at[r] = "add" /\ ctl[r] = p /\ stamp[r] = m}

Sums == \A p \in Ctrls : heap[p].kind = "ordinary" => \A m \in Minute :
  heap[p].count[m] + Cardinality(Passing(p, m)) <= Top(heap[p]) + Cardinality(Requests)

IInv == TypeOK /\ Kinds /\ Sums

(* No more requests are passing than there are.                            *)
LEMMA PassingIsFew ==
  ASSUME NEW p, NEW m
  PROVE  /\ Cardinality(Passing(p, m)) \in Nat /\ Cardinality(Requests) \in Nat
         /\ Cardinality(Passing(p, m)) <= Cardinality(Requests)
<1>1. IsFiniteSet(Requests) BY PacingAssumption
<1>2. Passing(p, m) \subseteq Requests BY DEF Passing
<1> QED BY <1>1, <1>2, FS_Subset, FS_CardinalityType

(* The bound follows from the sums.                                        *)
THEOREM OvershootFromSums == IInv => OvershootBounded
<1> SUFFICES ASSUME IInv, NEW p \in Ctrls, heap[p].kind = "ordinary", NEW m \in Minute
             PROVE  heap[p].count[m] <= Top(heap[p]) + Cardinality(Requests)
  BY DEF OvershootBounded
<1>1. heap[p] \in Controller BY DEF IInv, TypeOK
<1>2. heap[p].count[m] \in Nat /\ Top(heap[p]) \in Nat BY <1>1, TopIsMost DEF Controller
<1>3. heap[p].count[m] + Cardinality(Passing(p, m)) <= Top(heap[p]) + Cardinality(Requests)
  BY DEF IInv, Sums
<1> QED BY <1>2, <1>3, PassingIsFew

(* A new service has counted nothing (NewService).                         *)
THEOREM InitIInv == Init => IInv
<1> SUFFICES ASSUME Init PROVE IInv
  OBVIOUS
<1> USE DEF Init
<1>1. 0 \in Minute BY PacingAssumption DEF Minute
<1>2. /\ heap \in [Ctrls -> Controller]
      /\ heap[pc].kind = "ordinary" /\ heap[fuyuPc].kind = "fuyu"
      /\ \A p \in Ctrls : \A m \in Minute : heap[p].count[m] = 0
  <2>1. PICK c \in NewPacingController("ordinary"), f \in NewPacingController("fuyu") :
          heap = [p \in Ctrls |-> IF p = pc THEN c ELSE IF p = fuyuPc THEN f ELSE Blank]
    OBVIOUS
  <2>2. /\ c \in Controller /\ c.kind = "ordinary" /\ \A m \in Minute : c.count[m] = 0
        /\ f \in Controller /\ f.kind = "fuyu" /\ \A m \in Minute : f.count[m] = 0
        /\ Blank \in Controller /\ \A m \in Minute : Blank.count[m] = 0
    BY NewIsController
  <2> QED BY <2>1, <2>2
<1>3. TypeOK BY <1>1, <1>2 DEF TypeOK
<1>4. Kinds BY <1>2 DEF Kinds
<1>5. Sums
  <2> SUFFICES ASSUME NEW p \in Ctrls, NEW m \in Minute
               PROVE  heap[p].count[m] + Cardinality(Passing(p, m)) <= Top(heap[p]) + Cardinality(Requests)
    BY DEF Sums
  <2>1. heap[p].count[m] = 0 /\ Top(heap[p]) \in Nat BY <1>2, TopIsMost
  <2> QED BY <2>1, PassingIsFew
<1> QED BY <1>3, <1>4, <1>5 DEF IInv

-----------------------------------------------------------------------------
(* The steps. *)

(* A counter that is forgotten keeps the sum small, and so does one that   *)
(* stays while no further request is let through.                          *)
LEMMA SumsStep ==
  ASSUME IInv, heap' \in [Ctrls -> Controller],
         \A p \in Ctrls : \A m \in Minute :
           \/ heap'[p].count[m] = 0
           \/ heap'[p].kind = "fuyu"
           \/ /\ heap'[p].kind = heap[p].kind /\ Top(heap'[p]) = Top(heap[p])
              /\ heap'[p].count[m] = heap[p].count[m]
              /\ Passing(p, m)' \subseteq Passing(p, m)
  PROVE  Sums'
<1> SUFFICES ASSUME NEW p \in Ctrls, NEW m \in Minute, heap'[p].kind = "ordinary"
             PROVE  heap'[p].count[m] + Cardinality(Passing(p, m)') <= Top(heap'[p]) + Cardinality(Requests)
  BY DEF Sums, Minute, Top
<1>1. heap'[p] \in Controller /\ heap[p] \in Controller BY DEF IInv, TypeOK
<1>2. /\ heap'[p].count[m] \in Nat /\ Top(heap'[p]) \in Nat
      /\ heap[p].count[m] \in Nat /\ Top(heap[p]) \in Nat
  BY <1>1, TopIsMost DEF Controller
<1>3. Passing(p, m)' \subseteq Requests /\ Passing(p, m) \subseteq Requests BY DEF Passing
<1>4. IsFiniteSet(Requests) BY PacingAssumption
<1>5. /\ Cardinality(Passing(p, m)') \in Nat /\ Cardinality(Requests) \in Nat
      /\ Cardinality(Passing(p, m)') <= Cardinality(Requests)
  BY <1>3, <1>4, FS_Subset, FS_CardinalityType
<1>6. CASE heap'[p].count[m] = 0 BY <1>2, <1>5, <1>6
<1>7. CASE /\ heap'[p].kind = heap[p].kind /\ Top(heap'[p]) = Top(heap[p])
           /\ heap'[p].count[m] = heap[p].count[m]
           /\ Passing(p, m)' \subseteq Passing(p, m)
  <2>1. IsFiniteSet(Passing(p, m)) BY <1>3, <1>4, FS_Subset
  <2>2. /\ Cardinality(Passing(p, m)) \in Nat
        /\ Cardinality(Passing(p, m)') <= Cardinality(Passing(p, m))
    BY <1>7, <2>1, FS_Subset, FS_CardinalityType
  <2>3. heap[p].count[m] + Cardinality(Passing(p, m)) <= Top(heap[p]) + Cardinality(Requests)
    BY <1>7 DEF IInv, Sums
  <2> QED BY <1>2, <1>5, <1>7, <2>2, <2>3
<1> QED BY <1>6, <1>7

(* What Kept leaves of the controllers.                                    *)
LEMMA KeptFacts ==
  ASSUME NEW new \in [Ctrls -> Controller], heap' = Kept(new)
  PROVE  /\ heap' \in [Ctrls -> Controller]
         /\ \A p \in Ctrls : heap'[p] = new[p] \/ \A m \in Minute : heap'[p].count[m] = 0
         /\ \A p \in Ctrls : p \in {pc', fuyuPc'} => heap'[p] = new[p]
         /\ \A r \in Requests : ctl'[r] \in Ctrls => heap'[ctl'[r]] = new[ctl'[r]]
<1>1. Blank \in Controller /\ \A m \in Minute : Blank.count[m] = 0 BY NewIsController
<1> HIDE DEF Blank
<1> QED BY <1>1 DEF Kept, Live

(* A step that takes or drops controllers and counts nothing: its part of  *)
(* the invariant but for the two conjuncts that are about places.          *)
LEMMA QuietStep ==
  ASSUME IInv, \/ heap' = heap \/ heap' = Kept(heap),
         \A p \in Ctrls : \A m \in Minute : Passing(p, m)' \subseteq Passing(p, m)
  PROVE  /\ heap' \in [Ctrls -> Controller] /\ Sums'
         /\ \A p \in Ctrls : p \in {pc', fuyuPc'} => heap'[p] = heap[p]
         /\ \A r \in Requests : ctl'[r] \in Ctrls => heap'[ctl'[r]] = heap[ctl'[r]]
<1>1. heap \in [Ctrls -> Controller] BY DEF IInv, TypeOK
<1>2. /\ heap' \in [Ctrls -> Controller]
      /\ \A p \in Ctrls : heap'[p] = heap[p] \/ \A m \in Minute : heap'[p].count[m] = 0
      /\ \A p \in Ctrls : p \in {pc', fuyuPc'} => heap'[p] = heap[p]
      /\ \A r \in Requests : ctl'[r] \in Ctrls => heap'[ctl'[r]] = heap[ctl'[r]]
  BY <1>1, KeptFacts
<1>3. \A p \in Ctrls : heap'[p] = heap[p] => Top(heap'[p]) = Top(heap[p]) BY DEF Top
<1> QED BY <1>2, <1>3, SumsStep

(* The kinds after it, if each place still has the right one.              *)
LEMMA KindsStep ==
  ASSUME \A p \in Ctrls : p \in {pc', fuyuPc'} => heap'[p] = heap[p],
         \A q \in Requests : ctl'[q] \in Ctrls => heap'[ctl'[q]] = heap[ctl'[q]],
         pc' \in Ctrls, heap[pc'].kind = "ordinary", fuyuPc' \in Ctrls, heap[fuyuPc'].kind = "fuyu",
         \A q \in Requests : at'[q] \in {"search", "add"} =>
           ctl'[q] \in Ctrls /\ heap[ctl'[q]].kind = "ordinary",
         \A q \in Requests : (at'[q] \in {"fuyuDocs", "fuyuAdd"} \/ (q \notin Wugan /\ at'[q] = "fuyuSearch")) =>
           ctl'[q] \in Ctrls /\ heap[ctl'[q]].kind = "fuyu"
  PROVE  Kinds'
<1>1. heap'[pc'].kind = "ordinary" /\ heap'[fuyuPc'].kind = "fuyu" OBVIOUS
<1>2. \A q \in Requests : at'[q] \in {"search", "add"} => heap'[ctl'[q]].kind = "ordinary" OBVIOUS
<1>3. \A q \in Requests : at'[q] \in {"fuyuDocs", "fuyuAdd"} => heap'[ctl'[q]].kind = "fuyu" OBVIOUS
<1>4. \A q \in Requests \ Wugan : at'[q] = "fuyuSearch" => heap'[ctl'[q]].kind = "fuyu" OBVIOUS
<1> QED BY <1>1, <1>2, <1>3, <1>4 DEF Kinds

(* A minute goes by: a count stays or is forgotten (ExpiredMap).           *)
LEMMA TickStep == IInv /\ Tick => IInv'
<1> SUFFICES ASSUME IInv, Tick PROVE IInv'
  OBVIOUS
<1> USE DEF Tick, service, request
<1>1. \A p \in Ctrls : heap[p] \in Controller BY DEF IInv, TypeOK
<1>2. now' \in Minute BY PacingAssumption DEF IInv, TypeOK, Minute, Next1
<1>3. \A p \in Ctrls :
        /\ heap'[p] \in Controller /\ heap'[p].kind = heap[p].kind /\ Top(heap'[p]) = Top(heap[p])
        /\ \A m \in Minute : heap'[p].count[m] \in {0, heap[p].count[m]}
  BY <1>1, <1>2, OlderCounts
<1>4. heap' \in [Ctrls -> Controller] BY <1>3
<1>5. TypeOK' BY <1>4, <1>2 DEF IInv, TypeOK
<1>6. Kinds' BY <1>3 DEF IInv, Kinds, TypeOK
<1>7. Sums'
  <2>1. \A p \in Ctrls : \A m \in Minute : Passing(p, m)' \subseteq Passing(p, m) BY DEF Passing
  <2> QED BY <1>3, <1>4, <2>1, SumsStep
<1> QED BY <1>5, <1>6, <1>7 DEF IInv

(* The ticker puts a new controller of ordinary ads (StorePacing).         *)
LEMMA StorePacingStep == IInv /\ StorePacing => IInv'
<1> SUFFICES ASSUME IInv, StorePacing PROVE IInv'
  OBVIOUS
<1> USE DEF StorePacing, request
<1>1. PICK c \in NewPacingController("ordinary") : heap' = Kept([heap EXCEPT ![pc'] = c]) OBVIOUS
<1>2. c \in Controller /\ c.kind = "ordinary" /\ \A m \in Minute : c.count[m] = 0 BY NewIsController
<1> DEFINE new == [heap EXCEPT ![pc'] = c]
<1>3. /\ new \in [Ctrls -> Controller] /\ new[pc'] = c
      /\ \A p \in Ctrls : p \in Live => new[p] = heap[p]
  BY <1>2 DEF IInv, TypeOK
<1>4. \A p \in Ctrls : new[p] \in {heap[p], c} BY DEF IInv, TypeOK
<1>5. heap' = Kept(new) BY <1>1
<1> HIDE DEF new
<1>6. /\ heap' \in [Ctrls -> Controller]
      /\ \A p \in Ctrls : heap'[p] = new[p] \/ \A m \in Minute : heap'[p].count[m] = 0
      /\ \A p \in Ctrls : p \in {pc', fuyuPc'} => heap'[p] = new[p]
      /\ \A r \in Requests : ctl'[r] \in Ctrls => heap'[ctl'[r]] = new[ctl'[r]]
  BY <1>3, <1>5, KeptFacts
<1>7. TypeOK' BY <1>6 DEF IInv, TypeOK
<1>8. Kinds' 
  <2>1. heap'[pc'].kind = "ordinary" /\ heap'[fuyuPc'] = heap[fuyuPc]
    BY <1>2, <1>3, <1>6, <1>7 DEF Live, TypeOK, IInv
  <2>2. \A r \in Requests : ctl[r] \in Ctrls => heap'[ctl[r]] = heap[ctl[r]]
    <3> SUFFICES ASSUME NEW r \in Requests, ctl[r] \in Ctrls PROVE heap'[ctl[r]] = heap[ctl[r]]
      OBVIOUS
    <3>1. ctl' = ctl /\ ctl[r] \in Live BY DEF Live
    <3>2. new[ctl[r]] = heap[ctl[r]] BY <1>3, <3>1
    <3>3. heap'[ctl'[r]] = new[ctl'[r]] BY <1>6, <3>1
    <3> QED BY <3>1, <3>2, <3>3
  <2> QED BY <2>1, <2>2, ZenonT(40) DEF IInv, Kinds, TypeOK
<1>9. Sums'
  <2>1. \A p \in Ctrls : \A m \in Minute : Passing(p, m)' \subseteq Passing(p, m) BY DEF Passing
  <2>2. \A p \in Ctrls : heap'[p] = heap[p] => Top(heap'[p]) = Top(heap[p]) BY DEF Top
  <2>3. ASSUME NEW p \in Ctrls, NEW m \in Minute
        PROVE  heap'[p].count[m] = 0 \/ heap'[p] = heap[p]
    <3>1. heap'[p] = new[p] \/ heap'[p].count[m] = 0 BY <1>6
    <3>2. new[p] = heap[p] \/ new[p] = c BY <1>4
    <3>3. c.count[m] = 0 BY <1>2
    <3> QED BY <3>1, <3>2, <3>3
  <2>4. \A p \in Ctrls : \A m \in Minute :
          \/ heap'[p].count[m] = 0
          \/ /\ heap'[p].kind = heap[p].kind /\ Top(heap'[p]) = Top(heap[p])
             /\ heap'[p].count[m] = heap[p].count[m]
             /\ Passing(p, m)' \subseteq Passing(p, m)
    BY <2>1, <2>2, <2>3
  <2>5. heap' \in [Ctrls -> Controller] BY <1>6
  <2> QED BY <2>4, <2>5, SumsStep
<1> QED BY <1>7, <1>8, <1>9 DEF IInv

(* The ticker puts a new controller of fuyu ads (StoreFuyuPacing).         *)
LEMMA StoreFuyuPacingStep == IInv /\ StoreFuyuPacing => IInv'
<1> SUFFICES ASSUME IInv, StoreFuyuPacing PROVE IInv'
  OBVIOUS
<1> USE DEF StoreFuyuPacing, request
<1>1. PICK c \in NewPacingController("fuyu") : heap' = Kept([heap EXCEPT ![fuyuPc'] = c]) OBVIOUS
<1>2. c \in Controller /\ c.kind = "fuyu" /\ \A m \in Minute : c.count[m] = 0 BY NewIsController
<1> DEFINE new == [heap EXCEPT ![fuyuPc'] = c]
<1>3. /\ new \in [Ctrls -> Controller] /\ new[fuyuPc'] = c
      /\ \A p \in Ctrls : p \in Live => new[p] = heap[p]
  BY <1>2 DEF IInv, TypeOK
<1>4. \A p \in Ctrls : new[p] \in {heap[p], c} BY DEF IInv, TypeOK
<1>5. heap' = Kept(new) BY <1>1
<1> HIDE DEF new
<1>6. /\ heap' \in [Ctrls -> Controller]
      /\ \A p \in Ctrls : heap'[p] = new[p] \/ \A m \in Minute : heap'[p].count[m] = 0
      /\ \A p \in Ctrls : p \in {pc', fuyuPc'} => heap'[p] = new[p]
      /\ \A r \in Requests : ctl'[r] \in Ctrls => heap'[ctl'[r]] = new[ctl'[r]]
  BY <1>3, <1>5, KeptFacts
<1>7. TypeOK' BY <1>6 DEF IInv, TypeOK
<1>8. Kinds' 
  <2>1. heap'[fuyuPc'].kind = "fuyu" /\ heap'[pc'] = heap[pc]
    BY <1>2, <1>3, <1>6, <1>7 DEF Live, TypeOK, IInv
  <2>2. \A r \in Requests : ctl[r] \in Ctrls => heap'[ctl[r]] = heap[ctl[r]]
    <3> SUFFICES ASSUME NEW r \in Requests, ctl[r] \in Ctrls PROVE heap'[ctl[r]] = heap[ctl[r]]
      OBVIOUS
    <3>1. ctl' = ctl /\ ctl[r] \in Live BY DEF Live
    <3>2. new[ctl[r]] = heap[ctl[r]] BY <1>3, <3>1
    <3>3. heap'[ctl'[r]] = new[ctl'[r]] BY <1>6, <3>1
    <3> QED BY <3>1, <3>2, <3>3
  <2> QED BY <2>1, <2>2, ZenonT(40) DEF IInv, Kinds, TypeOK
<1>9. Sums'
  <2>1. \A p \in Ctrls : \A m \in Minute : Passing(p, m)' \subseteq Passing(p, m) BY DEF Passing
  <2>2. \A p \in Ctrls : heap'[p] = heap[p] => Top(heap'[p]) = Top(heap[p]) BY DEF Top
  <2>3. ASSUME NEW p \in Ctrls, NEW m \in Minute
        PROVE  heap'[p].count[m] = 0 \/ heap'[p] = heap[p]
    <3>1. heap'[p] = new[p] \/ heap'[p].count[m] = 0 BY <1>6
    <3>2. new[p] = heap[p] \/ new[p] = c BY <1>4
    <3>3. c.count[m] = 0 BY <1>2
    <3> QED BY <3>1, <3>2, <3>3
  <2>4. \A p \in Ctrls : \A m \in Minute :
          \/ heap'[p].count[m] = 0
          \/ /\ heap'[p].kind = heap[p].kind /\ Top(heap'[p]) = Top(heap[p])
             /\ heap'[p].count[m] = heap[p].count[m]
             /\ Passing(p, m)' \subseteq Passing(p, m)
    BY <2>1, <2>2, <2>3
  <2>5. heap' \in [Ctrls -> Controller] BY <1>6
  <2> QED BY <2>4, <2>5, SumsStep
<1> QED BY <1>7, <1>8, <1>9 DEF IInv

(* A request begins (LoadPacing).                                          *)
LEMMA LoadPacingStep == ASSUME IInv, NEW r \in Requests, LoadPacing(r) PROVE IInv'
<1> USE DEF LoadPacing, service
<1>1. \A p \in Ctrls : \A m \in Minute : Passing(p, m)' \subseteq Passing(p, m)
  BY DEF Passing, IInv, TypeOK
<1>2. heap' = heap \/ heap' = Kept(heap) OBVIOUS
<1>3. /\ heap' \in [Ctrls -> Controller] /\ Sums'
      /\ \A p \in Ctrls : p \in {pc', fuyuPc'} => heap'[p] = heap[p]
      /\ \A q \in Requests : ctl'[q] \in Ctrls => heap'[ctl'[q]] = heap[ctl'[q]]
  BY <1>1, <1>2, QuietStep
<1>4. TypeOK'
  <2> USE DEF IInv, TypeOK
  <2>1. /\ now' \in Minute /\ pc' \in Ctrls /\ fuyuPc' \in Ctrls /\ ticker' \in {"ordinary", "fuyu"}
        /\ at' \in [Requests -> Places] /\ stamp' \in [Requests -> Minute]
    BY PacingAssumption DEF Places, Minute
  <2>2. ctl' \in [Requests -> Ctrls \cup {Nil}] /\ chk' \in [Requests -> Ctrls \cup {Nil}] OBVIOUS
  <2>3. ASSUME NEW q \in Requests
        PROVE  /\ at'[q] \in {"search", "add", "fuyuDocs", "fuyuAdd"} => ctl'[q] # Nil
               /\ at'[q] = "fuyuSearch" => chk'[q] # Nil
               /\ q \notin Wugan => (at'[q] = "fuyuSearch" => ctl'[q] # Nil)
    BY PacingAssumption
  <2> QED BY <1>3, <2>1, <2>2, <2>3 DEF Places
<1>5. Kinds'
  <2>1. ASSUME NEW q \in Requests, at'[q] \in {"search", "add"}
        PROVE  ctl'[q] \in Ctrls /\ heap[ctl'[q]].kind = "ordinary"
    BY <2>1 DEF IInv, Kinds, TypeOK
  <2>2. ASSUME NEW q \in Requests,
               at'[q] \in {"fuyuDocs", "fuyuAdd"} \/ (q \notin Wugan /\ at'[q] = "fuyuSearch")
        PROVE  ctl'[q] \in Ctrls /\ heap[ctl'[q]].kind = "fuyu"
    BY <2>2 DEF IInv, Kinds, TypeOK
  <2>3. /\ pc' \in Ctrls /\ heap[pc'].kind = "ordinary"
        /\ fuyuPc' \in Ctrls /\ heap[fuyuPc'].kind = "fuyu"
    BY DEF IInv, Kinds, TypeOK
  <2> QED BY <1>3, <2>1, <2>2, <2>3, KindsStep
<1> QED BY <1>3, <1>4, <1>5 DEF IInv

(* retrievalHandler turns to fuyu ads (LoadFuyuPacing).                    *)
LEMMA LoadFuyuPacingStep == ASSUME IInv, NEW r \in Requests, LoadFuyuPacing(r) PROVE IInv'
<1> USE DEF LoadFuyuPacing, service
<1>1. \A p \in Ctrls : \A m \in Minute : Passing(p, m)' \subseteq Passing(p, m)
  BY DEF Passing, IInv, TypeOK
<1>2. heap' = heap \/ heap' = Kept(heap) OBVIOUS
<1>3. /\ heap' \in [Ctrls -> Controller] /\ Sums'
      /\ \A p \in Ctrls : p \in {pc', fuyuPc'} => heap'[p] = heap[p]
      /\ \A q \in Requests : ctl'[q] \in Ctrls => heap'[ctl'[q]] = heap[ctl'[q]]
  BY <1>1, <1>2, QuietStep
<1>4. TypeOK'
  <2> USE DEF IInv, TypeOK
  <2>1. /\ now' \in Minute /\ pc' \in Ctrls /\ fuyuPc' \in Ctrls /\ ticker' \in {"ordinary", "fuyu"}
        /\ at' \in [Requests -> Places] /\ stamp' \in [Requests -> Minute]
    BY PacingAssumption DEF Places, Minute
  <2>2. ctl' \in [Requests -> Ctrls \cup {Nil}] /\ chk' \in [Requests -> Ctrls \cup {Nil}] OBVIOUS
  <2>3. ASSUME NEW q \in Requests
        PROVE  /\ at'[q] \in {"search", "add", "fuyuDocs", "fuyuAdd"} => ctl'[q] # Nil
               /\ at'[q] = "fuyuSearch" => chk'[q] # Nil
               /\ q \notin Wugan => (at'[q] = "fuyuSearch" => ctl'[q] # Nil)
    BY PacingAssumption
  <2> QED BY <1>3, <2>1, <2>2, <2>3 DEF Places
<1>5. Kinds'
  <2>1. ASSUME NEW q \in Requests, at'[q] \in {"search", "add"}
        PROVE  ctl'[q] \in Ctrls /\ heap[ctl'[q]].kind = "ordinary"
    BY <2>1 DEF IInv, Kinds, TypeOK
  <2>2. ASSUME NEW q \in Requests,
               at'[q] \in {"fuyuDocs", "fuyuAdd"} \/ (q \notin Wugan /\ at'[q] = "fuyuSearch")
        PROVE  ctl'[q] \in Ctrls /\ heap[ctl'[q]].kind = "fuyu"
    BY <2>2 DEF IInv, Kinds, TypeOK
  <2>3. /\ pc' \in Ctrls /\ heap[pc'].kind = "ordinary"
        /\ fuyuPc' \in Ctrls /\ heap[fuyuPc'].kind = "fuyu"
    BY DEF IInv, Kinds, TypeOK
  <2> QED BY <1>3, <2>1, <2>2, <2>3, KindsStep
<1> QED BY <1>3, <1>4, <1>5 DEF IInv

(* The fuyu search takes a controller to ask (getFuyuDocsWithShuffle).     *)
LEMMA getFuyuDocsWithShuffleStep == ASSUME IInv, NEW r \in Requests, getFuyuDocsWithShuffle(r) PROVE IInv'
<1> USE DEF getFuyuDocsWithShuffle, service
<1>1. \A p \in Ctrls : \A m \in Minute : Passing(p, m)' \subseteq Passing(p, m)
  BY DEF Passing, IInv, TypeOK
<1>2. heap' = heap \/ heap' = Kept(heap) OBVIOUS
<1>3. /\ heap' \in [Ctrls -> Controller] /\ Sums'
      /\ \A p \in Ctrls : p \in {pc', fuyuPc'} => heap'[p] = heap[p]
      /\ \A q \in Requests : ctl'[q] \in Ctrls => heap'[ctl'[q]] = heap[ctl'[q]]
  BY <1>1, <1>2, QuietStep
<1>4. TypeOK'
  <2> USE DEF IInv, TypeOK
  <2>1. /\ now' \in Minute /\ pc' \in Ctrls /\ fuyuPc' \in Ctrls /\ ticker' \in {"ordinary", "fuyu"}
        /\ at' \in [Requests -> Places] /\ stamp' \in [Requests -> Minute]
    BY PacingAssumption DEF Places, Minute
  <2>2. ctl' \in [Requests -> Ctrls \cup {Nil}] /\ chk' \in [Requests -> Ctrls \cup {Nil}] OBVIOUS
  <2>3. ASSUME NEW q \in Requests
        PROVE  /\ at'[q] \in {"search", "add", "fuyuDocs", "fuyuAdd"} => ctl'[q] # Nil
               /\ at'[q] = "fuyuSearch" => chk'[q] # Nil
               /\ q \notin Wugan => (at'[q] = "fuyuSearch" => ctl'[q] # Nil)
    BY PacingAssumption
  <2> QED BY <1>3, <2>1, <2>2, <2>3 DEF Places
<1>5. Kinds'
  <2>1. ASSUME NEW q \in Requests, at'[q] \in {"search", "add"}
        PROVE  ctl'[q] \in Ctrls /\ heap[ctl'[q]].kind = "ordinary"
    BY <2>1 DEF IInv, Kinds, TypeOK
  <2>2. ASSUME NEW q \in Requests,
               at'[q] \in {"fuyuDocs", "fuyuAdd"} \/ (q \notin Wugan /\ at'[q] = "fuyuSearch")
        PROVE  ctl'[q] \in Ctrls /\ heap[ctl'[q]].kind = "fuyu"
    BY <2>2 DEF IInv, Kinds, TypeOK
  <2>3. /\ pc' \in Ctrls /\ heap[pc'].kind = "ordinary"
        /\ fuyuPc' \in Ctrls /\ heap[fuyuPc'].kind = "fuyu"
    BY DEF IInv, Kinds, TypeOK
  <2> QED BY <1>3, <2>1, <2>2, <2>3, KindsStep
<1> QED BY <1>3, <1>4, <1>5 DEF IInv

(* The fuyu search ends (getFuyuDocsWithShuffle).                          *)
LEMMA FuyuSearchStep == ASSUME IInv, NEW r \in Requests, FuyuSearch(r) PROVE IInv'
<1> USE DEF FuyuSearch, service, Goto, Done
<1>1. \A p \in Ctrls : \A m \in Minute : Passing(p, m)' \subseteq Passing(p, m)
  BY DEF Passing, IInv, TypeOK
<1>2. heap' = heap \/ heap' = Kept(heap) OBVIOUS
<1>3. /\ heap' \in [Ctrls -> Controller] /\ Sums'
      /\ \A p \in Ctrls : p \in {pc', fuyuPc'} => heap'[p] = heap[p]
      /\ \A q \in Requests : ctl'[q] \in Ctrls => heap'[ctl'[q]] = heap[ctl'[q]]
  BY <1>1, <1>2, QuietStep
<1>4. TypeOK'
  <2> USE DEF IInv, TypeOK
  <2>1. /\ now' \in Minute /\ pc' \in Ctrls /\ fuyuPc' \in Ctrls /\ ticker' \in {"ordinary", "fuyu"}
        /\ at' \in [Requests -> Places] /\ stamp' \in [Requests -> Minute]
    BY PacingAssumption DEF Places, Minute
  <2>2. ctl' \in [Requests -> Ctrls \cup {Nil}] /\ chk' \in [Requests -> Ctrls \cup {Nil}] OBVIOUS
  <2>3. ASSUME NEW q \in Requests
        PROVE  /\ at'[q] \in {"search", "add", "fuyuDocs", "fuyuAdd"} => ctl'[q] # Nil
               /\ at'[q] = "fuyuSearch" => chk'[q] # Nil
               /\ q \notin Wugan => (at'[q] = "fuyuSearch" => ctl'[q] # Nil)
    BY PacingAssumption
  <2> QED BY <1>3, <2>1, <2>2, <2>3 DEF Places
<1>5. Kinds'
  <2>1. ASSUME NEW q \in Requests, at'[q] \in {"search", "add"}
        PROVE  ctl'[q] \in Ctrls /\ heap[ctl'[q]].kind = "ordinary"
    BY <2>1 DEF IInv, Kinds, TypeOK
  <2>2. ASSUME NEW q \in Requests,
               at'[q] \in {"fuyuDocs", "fuyuAdd"} \/ (q \notin Wugan /\ at'[q] = "fuyuSearch")
        PROVE  ctl'[q] \in Ctrls /\ heap[ctl'[q]].kind = "fuyu"
    BY <2>2 DEF IInv, Kinds, TypeOK
  <2>3. /\ pc' \in Ctrls /\ heap[pc'].kind = "ordinary"
        /\ fuyuPc' \in Ctrls /\ heap[fuyuPc'].kind = "fuyu"
    BY DEF IInv, Kinds, TypeOK
  <2> QED BY <1>3, <2>1, <2>2, <2>3, KindsStep
<1> QED BY <1>3, <1>4, <1>5 DEF IInv

(* wuganHandler takes a controller to add to (getFuyuAds).                 *)
LEMMA getFuyuAdsStep == ASSUME IInv, NEW r \in Requests, getFuyuAds(r) PROVE IInv'
<1> USE DEF getFuyuAds, service
<1>1. \A p \in Ctrls : \A m \in Minute : Passing(p, m)' \subseteq Passing(p, m)
  BY DEF Passing, IInv, TypeOK
<1>2. heap' = heap \/ heap' = Kept(heap) OBVIOUS
<1>3. /\ heap' \in [Ctrls -> Controller] /\ Sums'
      /\ \A p \in Ctrls : p \in {pc', fuyuPc'} => heap'[p] = heap[p]
      /\ \A q \in Requests : ctl'[q] \in Ctrls => heap'[ctl'[q]] = heap[ctl'[q]]
  BY <1>1, <1>2, QuietStep
<1>4. TypeOK'
  <2> USE DEF IInv, TypeOK
  <2>1. /\ now' \in Minute /\ pc' \in Ctrls /\ fuyuPc' \in Ctrls /\ ticker' \in {"ordinary", "fuyu"}
        /\ at' \in [Requests -> Places] /\ stamp' \in [Requests -> Minute]
    BY PacingAssumption DEF Places, Minute
  <2>2. ctl' \in [Requests -> Ctrls \cup {Nil}] /\ chk' \in [Requests -> Ctrls \cup {Nil}] OBVIOUS
  <2>3. ASSUME NEW q \in Requests
        PROVE  /\ at'[q] \in {"search", "add", "fuyuDocs", "fuyuAdd"} => ctl'[q] # Nil
               /\ at'[q] = "fuyuSearch" => chk'[q] # Nil
               /\ q \notin Wugan => (at'[q] = "fuyuSearch" => ctl'[q] # Nil)
    BY PacingAssumption
  <2> QED BY <1>3, <2>1, <2>2, <2>3 DEF Places
<1>5. Kinds'
  <2>1. ASSUME NEW q \in Requests, at'[q] \in {"search", "add"}
        PROVE  ctl'[q] \in Ctrls /\ heap[ctl'[q]].kind = "ordinary"
    BY <2>1 DEF IInv, Kinds, TypeOK
  <2>2. ASSUME NEW q \in Requests,
               at'[q] \in {"fuyuDocs", "fuyuAdd"} \/ (q \notin Wugan /\ at'[q] = "fuyuSearch")
        PROVE  ctl'[q] \in Ctrls /\ heap[ctl'[q]].kind = "fuyu"
    BY <2>2 DEF IInv, Kinds, TypeOK
  <2>3. /\ pc' \in Ctrls /\ heap[pc'].kind = "ordinary"
        /\ fuyuPc' \in Ctrls /\ heap[fuyuPc'].kind = "fuyu"
    BY DEF IInv, Kinds, TypeOK
  <2> QED BY <1>3, <2>1, <2>2, <2>3, KindsStep
<1> QED BY <1>3, <1>4, <1>5 DEF IInv

(* A request that finds nothing, or goes on to fuyu ads.                   *)
LEMMA SearchStep == ASSUME IInv, NEW r \in Requests, Search(r) PROVE IInv'
<1> USE DEF Search, service, Goto, Done
<1> DEFINE Facts == /\ heap' \in [Ctrls -> Controller] /\ Sums'
                    /\ \A p \in Ctrls : p \in {pc', fuyuPc'} => heap'[p] = heap[p]
                    /\ \A q \in Requests : ctl'[q] \in Ctrls => heap'[ctl'[q]] = heap[ctl'[q]]
<1>1. ASSUME at'[r] # "add" PROVE Facts
  <2>1. \A p \in Ctrls : \A m \in Minute : Passing(p, m)' \subseteq Passing(p, m)
    BY <1>1 DEF Passing, IInv, TypeOK
  <2>2. heap' = heap \/ heap' = Kept(heap) OBVIOUS
  <2> QED BY <2>1, <2>2, QuietStep
<1>2. ASSUME at'[r] = "add" PROVE Facts
  <2>1. ~OverCap(heap[ctl[r]], r) /\ at' = [at EXCEPT ![r] = "add"] /\ UNCHANGED <<heap, ctl, stamp, pc, fuyuPc>>
    BY <1>2 DEF IInv, TypeOK
  <2> DEFINE p == ctl[r]
             m == stamp[r]
  <2>2. p \in Ctrls /\ m \in Minute /\ heap[p] \in Controller BY DEF IInv, TypeOK
  <2>3. heap' \in [Ctrls -> Controller] BY <2>1 DEF IInv, TypeOK
  <2>4. Sums' 
    <3> SUFFICES ASSUME NEW q \in Ctrls, NEW n \in Minute, heap[q].kind = "ordinary"
                 PROVE  heap[q].count[n] + Cardinality(Passing(q, n)') <= Top(heap[q]) + Cardinality(Requests)
      BY <2>1 DEF Sums, Minute, Top
    <3>1. heap[q].count[n] \in Nat /\ Top(heap[q]) \in Nat
      BY TopIsMost DEF IInv, TypeOK, Controller
    <3>2. Passing(q, n)' \subseteq Requests /\ Passing(q, n) \subseteq Requests /\ IsFiniteSet(Requests)
      BY PacingAssumption DEF Passing
    <3>3. /\ Cardinality(Passing(q, n)') \in Nat /\ Cardinality(Requests) \in Nat
          /\ Cardinality(Passing(q, n)') <= Cardinality(Requests)
      BY <3>2, FS_Subset, FS_CardinalityType
    <3>4. CASE q = p /\ n = m
      <4>1. Threshold(heap[p], r) \in Nat /\ Threshold(heap[p], r) <= Top(heap[p])
        BY <2>2, TopIsMost
      <4>2. heap[p].count[m] <= Threshold(heap[p], r) BY <2>1, <3>1, <3>4, <4>1 DEF OverCap
      <4> HIDE DEF p, m
      <4> QED BY <3>1, <3>3, <3>4, <4>1, <4>2
    <3>5. CASE ~(q = p /\ n = m)
      <4>1. Passing(q, n)' = Passing(q, n) BY <2>1, <3>5 DEF Passing, IInv, TypeOK
      <4> QED BY <4>1 DEF IInv, Sums
    <3> QED BY <3>4, <3>5
  <2>5. /\ \A q \in Ctrls : q \in {pc', fuyuPc'} => heap'[q] = heap[q]
        /\ \A q \in Requests : ctl'[q] \in Ctrls => heap'[ctl'[q]] = heap[ctl'[q]]
    BY <2>1
  <2> QED BY <2>3, <2>4, <2>5
<1>3. /\ heap' \in [Ctrls -> Controller] /\ Sums'
      /\ \A p \in Ctrls : p \in {pc', fuyuPc'} => heap'[p] = heap[p]
      /\ \A q \in Requests : ctl'[q] \in Ctrls => heap'[ctl'[q]] = heap[ctl'[q]]
  BY <1>1, <1>2
<1>4. TypeOK'
  <2> USE DEF IInv, TypeOK
  <2>1. /\ now' \in Minute /\ pc' \in Ctrls /\ fuyuPc' \in Ctrls /\ ticker' \in {"ordinary", "fuyu"}
        /\ at' \in [Requests -> Places] /\ stamp' \in [Requests -> Minute]
    BY PacingAssumption DEF Places, Minute
  <2>2. ctl' \in [Requests -> Ctrls \cup {Nil}] /\ chk' \in [Requests -> Ctrls \cup {Nil}] OBVIOUS
  <2>3. ASSUME NEW q \in Requests
        PROVE  /\ at'[q] \in {"search", "add", "fuyuDocs", "fuyuAdd"} => ctl'[q] # Nil
               /\ at'[q] = "fuyuSearch" => chk'[q] # Nil
               /\ q \notin Wugan => (at'[q] = "fuyuSearch" => ctl'[q] # Nil)
    BY PacingAssumption
  <2> QED BY <1>3, <2>1, <2>2, <2>3 DEF Places
<1>5. Kinds'
  <2>1. ASSUME NEW q \in Requests, at'[q] \in {"search", "add"}
        PROVE  ctl'[q] \in Ctrls /\ heap[ctl'[q]].kind = "ordinary"
    BY <2>1 DEF IInv, Kinds, TypeOK
  <2>2. ASSUME NEW q \in Requests,
               at'[q] \in {"fuyuDocs", "fuyuAdd"} \/ (q \notin Wugan /\ at'[q] = "fuyuSearch")
        PROVE  ctl'[q] \in Ctrls /\ heap[ctl'[q]].kind = "fuyu"
    BY <2>2 DEF IInv, Kinds, TypeOK
  <2>3. /\ pc' \in Ctrls /\ heap[pc'].kind = "ordinary"
        /\ fuyuPc' \in Ctrls /\ heap[fuyuPc'].kind = "fuyu"
    BY DEF IInv, Kinds, TypeOK
  <2> QED BY <1>3, <2>1, <2>2, <2>3, KindsStep
<1> QED BY <1>3, <1>4, <1>5 DEF IInv

(* What a click does to the controllers.                                   *)
Added(r) == [heap EXCEPT ![ctl[r]] = Add(heap[ctl[r]], stamp[r])]

(* Add changes one minute of the controller it was called on.              *)
LEMMA AddedFacts ==
  ASSUME IInv, NEW r \in Requests, ctl[r] \in Ctrls
  PROVE  /\ Added(r) \in [Ctrls -> Controller]
         /\ \A p \in Ctrls : Added(r)[p].kind = heap[p].kind /\ Top(Added(r)[p]) = Top(heap[p])
         /\ \A p \in Ctrls : \A m \in Minute : Added(r)[p].count[m] =
              IF p = ctl[r] /\ m = stamp[r] THEN heap[p].count[m] + 1 ELSE heap[p].count[m]
<1>1. heap \in [Ctrls -> Controller] /\ heap[ctl[r]] \in Controller /\ stamp[r] \in Minute
  BY DEF IInv, TypeOK
<1> DEFINE added == Add(heap[ctl[r]], stamp[r])
<1>2. /\ added \in Controller /\ added.kind = heap[ctl[r]].kind /\ Top(added) = Top(heap[ctl[r]])
      /\ \A m \in Minute : added.count[m] =
           IF m = stamp[r] THEN heap[ctl[r]].count[m] + 1 ELSE heap[ctl[r]].count[m]
  BY <1>1, AddCounts
<1>3. Added(r) = [heap EXCEPT ![ctl[r]] = added] BY DEF Added
<1> HIDE DEF added
<1>4. \A p \in Ctrls : Added(r)[p] = IF p = ctl[r] THEN added ELSE heap[p] BY <1>1, <1>3
<1>5. Added(r) \in [Ctrls -> Controller] BY <1>1, <1>2, <1>3
<1>6. \A p \in Ctrls : Added(r)[p].kind = heap[p].kind /\ Top(Added(r)[p]) = Top(heap[p])
  BY <1>2, <1>4
<1> QED BY <1>1, <1>2, <1>4, <1>5, <1>6

(* The sum stays when a request that passed is counted (Add).              *)
LEMMA RenderStep == ASSUME IInv, NEW r \in Requests, Render(r) PROVE IInv'
<1> USE DEF Render, service, Done
<1>1. ctl[r] \in Ctrls /\ stamp[r] \in Minute BY PacingAssumption DEF IInv, TypeOK
<1>2. heap' = Added(r) \/ heap' = Kept(Added(r)) BY DEF Added, IInv, TypeOK
<1>3. /\ Added(r) \in [Ctrls -> Controller]
      /\ \A p \in Ctrls : Added(r)[p].kind = heap[p].kind /\ Top(Added(r)[p]) = Top(heap[p])
      /\ \A p \in Ctrls : \A m \in Minute :
           Added(r)[p].count[m] = IF p = ctl[r] /\ m = stamp[r] THEN heap[p].count[m] + 1 ELSE heap[p].count[m]
  BY <1>1, AddedFacts
<1>4. /\ heap' \in [Ctrls -> Controller]
      /\ \A p \in Ctrls : heap'[p] = Added(r)[p] \/ \A m \in Minute : heap'[p].count[m] = 0
      /\ \A p \in Ctrls : p \in {pc', fuyuPc'} => heap'[p] = Added(r)[p]
      /\ \A q \in Requests : ctl'[q] \in Ctrls => heap'[ctl'[q]] = Added(r)[ctl'[q]]
  BY <1>2, <1>3, KeptFacts
<1>5. /\ \A p \in Ctrls : p \in {pc', fuyuPc'} => heap'[p].kind = heap[p].kind
      /\ \A q \in Requests : ctl'[q] \in Ctrls => heap'[ctl'[q]].kind = heap[ctl'[q]].kind
  BY <1>4, <1>3
<1>6. TypeOK'
  <2> USE DEF IInv, TypeOK
  <2>1. /\ now' \in Minute /\ pc' \in Ctrls /\ fuyuPc' \in Ctrls /\ ticker' \in {"ordinary", "fuyu"}
        /\ at' \in [Requests -> Places] /\ stamp' \in [Requests -> Minute]
    BY PacingAssumption DEF Places, Minute
  <2>2. ctl' \in [Requests -> Ctrls \cup {Nil}] /\ chk' \in [Requests -> Ctrls \cup {Nil}] OBVIOUS
  <2>3. ASSUME NEW q \in Requests
        PROVE  /\ at'[q] \in {"search", "add", "fuyuDocs", "fuyuAdd"} => ctl'[q] # Nil
               /\ at'[q] = "fuyuSearch" => chk'[q] # Nil
               /\ q \notin Wugan => (at'[q] = "fuyuSearch" => ctl'[q] # Nil)
    BY PacingAssumption
  <2> QED BY <1>4, <2>1, <2>2, <2>3 DEF Places
<1>7. Kinds'
  <2>1. ASSUME NEW q \in Requests, at'[q] \in {"search", "add"}
        PROVE  ctl'[q] \in Ctrls /\ heap[ctl'[q]].kind = "ordinary"
    BY <2>1 DEF IInv, Kinds, TypeOK
  <2>2. ASSUME NEW q \in Requests,
               at'[q] \in {"fuyuDocs", "fuyuAdd"} \/ (q \notin Wugan /\ at'[q] = "fuyuSearch")
        PROVE  ctl'[q] \in Ctrls /\ heap[ctl'[q]].kind = "fuyu"
    BY <2>2 DEF IInv, Kinds, TypeOK
  <2>3. /\ pc' \in Ctrls /\ heap[pc'].kind = "ordinary"
        /\ fuyuPc' \in Ctrls /\ heap[fuyuPc'].kind = "fuyu"
    BY DEF IInv, Kinds, TypeOK
  <2> QED BY <1>5, <1>4, <2>1, <2>2, <2>3 DEF Kinds
<1>8. Sums'
  <2> SUFFICES ASSUME NEW p \in Ctrls, NEW m \in Minute, heap'[p].kind = "ordinary"
               PROVE  heap'[p].count[m] + Cardinality(Passing(p, m)') <= Top(heap'[p]) + Cardinality(Requests)
    BY DEF Sums, Minute, Top
  <2>1. /\ heap[p].count[m] \in Nat /\ Top(heap[p]) \in Nat
        /\ heap'[p].count[m] \in Nat /\ Top(heap'[p]) \in Nat
    BY <1>4, TopIsMost DEF IInv, TypeOK, Controller
  <2>2. Passing(p, m)' = Passing(p, m) \ (IF p = ctl[r] /\ m = stamp[r] THEN {r} ELSE {})
    BY DEF Passing, IInv, TypeOK
  <2>3. Passing(p, m) \subseteq Requests /\ IsFiniteSet(Requests) /\ IsFiniteSet(Passing(p, m))
    BY PacingAssumption, FS_Subset DEF Passing
  <2>4. /\ Cardinality(Passing(p, m)) \in Nat /\ Cardinality(Requests) \in Nat
        /\ Cardinality(Passing(p, m)) <= Cardinality(Requests)
    BY <2>3, FS_Subset, FS_CardinalityType
  <2>5. Cardinality(Passing(p, m)') =
          Cardinality(Passing(p, m)) - (IF p = ctl[r] /\ m = stamp[r] THEN 1 ELSE 0)
    <3>1. CASE p = ctl[r] /\ m = stamp[r]
      <4>1. r \in Passing(p, m) BY <3>1 DEF Passing
      <4>2. Passing(p, m)' = Passing(p, m) \ {r} BY <2>2, <3>1
      <4>3. Cardinality(Passing(p, m) \ {r}) = Cardinality(Passing(p, m)) - 1
        BY <2>3, <4>1, FS_RemoveElement
      <4> QED BY <3>1, <4>2, <4>3
    <3>2. CASE ~(p = ctl[r] /\ m = stamp[r])
      <4>1. Passing(p, m)' = Passing(p, m) BY <2>2, <3>2
      <4> QED BY <2>4, <3>2, <4>1
    <3> QED BY <3>1, <3>2
  <2>6. CASE heap'[p].count[m] = 0 BY <2>1, <2>4, <2>5, <2>6
  <2>7. CASE heap'[p] = Added(r)[p]
    <3>1. heap[p].kind = "ordinary" BY <1>3, <2>7
    <3>2. heap[p].count[m] + Cardinality(Passing(p, m)) <= Top(heap[p]) + Cardinality(Requests)
      BY <3>1 DEF IInv, Sums
    <3>3. Top(heap'[p]) = Top(heap[p]) BY <1>3, <2>7 DEF Top
    <3>4. heap'[p].count[m] = heap[p].count[m] + (IF p = ctl[r] /\ m = stamp[r] THEN 1 ELSE 0)
      BY <1>3, <2>1, <2>7
    <3> QED BY <2>1, <2>4, <2>5, <3>2, <3>3, <3>4
  <2> QED BY <1>4, <2>6, <2>7
<1> QED BY <1>4, <1>6, <1>7, <1>8 DEF IInv

(* A fuyu click is no ordinary one (getFuyuAds, retrievalHandler).         *)
LEMMA FuyuRenderStep == ASSUME IInv, NEW r \in Requests, FuyuRender(r) PROVE IInv'
<1> USE DEF FuyuRender, service, Done
<1>1. ctl[r] \in Ctrls /\ stamp[r] \in Minute BY PacingAssumption DEF IInv, TypeOK
<1>2. heap' = Added(r) \/ heap' = Kept(Added(r)) BY DEF Added, IInv, TypeOK
<1>3. /\ Added(r) \in [Ctrls -> Controller]
      /\ \A p \in Ctrls : Added(r)[p].kind = heap[p].kind /\ Top(Added(r)[p]) = Top(heap[p])
      /\ \A p \in Ctrls : \A m \in Minute :
           Added(r)[p].count[m] = IF p = ctl[r] /\ m = stamp[r] THEN heap[p].count[m] + 1 ELSE heap[p].count[m]
  BY <1>1, AddedFacts
<1>4. /\ heap' \in [Ctrls -> Controller]
      /\ \A p \in Ctrls : heap'[p] = Added(r)[p] \/ \A m \in Minute : heap'[p].count[m] = 0
      /\ \A p \in Ctrls : p \in {pc', fuyuPc'} => heap'[p] = Added(r)[p]
      /\ \A q \in Requests : ctl'[q] \in Ctrls => heap'[ctl'[q]] = Added(r)[ctl'[q]]
  BY <1>2, <1>3, KeptFacts
<1>5. /\ \A p \in Ctrls : p \in {pc', fuyuPc'} => heap'[p].kind = heap[p].kind
      /\ \A q \in Requests : ctl'[q] \in Ctrls => heap'[ctl'[q]].kind = heap[ctl'[q]].kind
  BY <1>4, <1>3
<1>6. TypeOK'
  <2> USE DEF IInv, TypeOK
  <2>1. /\ now' \in Minute /\ pc' \in Ctrls /\ fuyuPc' \in Ctrls /\ ticker' \in {"ordinary", "fuyu"}
        /\ at' \in [Requests -> Places] /\ stamp' \in [Requests -> Minute]
    BY PacingAssumption DEF Places, Minute
  <2>2. ctl' \in [Requests -> Ctrls \cup {Nil}] /\ chk' \in [Requests -> Ctrls \cup {Nil}] OBVIOUS
  <2>3. ASSUME NEW q \in Requests
        PROVE  /\ at'[q] \in {"search", "add", "fuyuDocs", "fuyuAdd"} => ctl'[q] # Nil
               /\ at'[q] = "fuyuSearch" => chk'[q] # Nil
               /\ q \notin Wugan => (at'[q] = "fuyuSearch" => ctl'[q] # Nil)
    BY PacingAssumption
  <2> QED BY <1>4, <2>1, <2>2, <2>3 DEF Places
<1>7. Kinds'
  <2>1. ASSUME NEW q \in Requests, at'[q] \in {"search", "add"}
        PROVE  ctl'[q] \in Ctrls /\ heap[ctl'[q]].kind = "ordinary"
    BY <2>1 DEF IInv, Kinds, TypeOK
  <2>2. ASSUME NEW q \in Requests,
               at'[q] \in {"fuyuDocs", "fuyuAdd"} \/ (q \notin Wugan /\ at'[q] = "fuyuSearch")
        PROVE  ctl'[q] \in Ctrls /\ heap[ctl'[q]].kind = "fuyu"
    BY <2>2 DEF IInv, Kinds, TypeOK
  <2>3. /\ pc' \in Ctrls /\ heap[pc'].kind = "ordinary"
        /\ fuyuPc' \in Ctrls /\ heap[fuyuPc'].kind = "fuyu"
    BY DEF IInv, Kinds, TypeOK
  <2> QED BY <1>5, <1>4, <2>1, <2>2, <2>3 DEF Kinds
<1>8. Sums'
  <2>1. heap[ctl[r]].kind = "fuyu" BY DEF IInv, Kinds
  <2>2. \A p \in Ctrls : \A m \in Minute : Passing(p, m)' \subseteq Passing(p, m)
    BY DEF Passing, IInv, TypeOK
  <2>3. ASSUME NEW p \in Ctrls, NEW m \in Minute
        PROVE  \/ heap'[p].count[m] = 0
               \/ heap'[p].kind = "fuyu"
               \/ /\ heap'[p].kind = heap[p].kind /\ Top(heap'[p]) = Top(heap[p])
                  /\ heap'[p].count[m] = heap[p].count[m]
                  /\ Passing(p, m)' \subseteq Passing(p, m)
    <3>1. heap'[p].count[m] = 0 \/ heap'[p] = Added(r)[p] BY <1>4
    <3>2. Added(r)[p].kind = heap[p].kind /\ Top(Added(r)[p]) = Top(heap[p]) BY <1>3
    <3>3. heap'[p] = Added(r)[p] => Top(heap'[p]) = Top(Added(r)[p]) BY DEF Top
    <3>4. CASE p = ctl[r] BY <2>1, <3>1, <3>2, <3>4
    <3>5. CASE p # ctl[r]
      <4>1. Added(r)[p].count[m] = heap[p].count[m] BY <1>3, <3>5
      <4> QED BY <2>2, <3>1, <3>2, <3>3, <4>1
    <3> QED BY <3>4, <3>5
  <2> QED BY <1>4, <2>3, SumsStep
<1> QED BY <1>4, <1>6, <1>7, <1>8 DEF IInv

-----------------------------------------------------------------------------
(* Fuyu ads.  A request asks the controller chk and adds to ctl, which may *)
(* be an older one (retrievalHandler loads it before the search) or a      *)
(* newer one (getFuyuAds loads it after).  The sum now has two kinds of    *)
(* clicks to come: those of the requests the controller let through, and   *)
(* those carried to it by a request that asked another.  A request carries *)
(* one click to a controller and no more: a wuganHandler one must have     *)
(* asked before the controller was stored, a retrievalHandler one after it *)
(* was replaced, and neither time comes again.                             *)

(* The requests that p has let through and that will tell it.              *)
FuyuPassing(p, m) == {r \in Requests :
  /\ chk[r] = p /\ stamp[r] = m
  /\ at[r] = "fuyuGet" \/ (at[r] = "fuyuAdd" /\ ctl[r] = p)}

(* The requests that may still add to p a click another one allowed.       *)
Carrying(p) == {r \in Requests :
  \/ /\ r \in Wugan /\ chk[r] # p
     /\ (p = fuyuPc /\ at[r] \in {"fuyuSearch", "fuyuGet"}) \/ (ctl[r] = p /\ at[r] = "fuyuAdd")
  \/ /\ r \notin Wugan
     /\ \/ p = fuyuPc
        \/ ctl[r] = p /\ at[r] = "fuyuDocs"
        \/ ctl[r] = p /\ at[r] \in {"fuyuSearch", "fuyuAdd"} /\ chk[r] # p}

(* retrievalHandler asks no older controller than the one it adds to, and  *)
(* does not load that one again.                                           *)
NotOlder == \A r \in Requests \ Wugan :
  /\ at[r] # "fuyuGet"
  /\ at[r] \in {"fuyuSearch", "fuyuAdd"} /\ ctl[r] = fuyuPc => chk[r] = fuyuPc

FuyuSums == \A p \in Ctrls : heap[p].kind = "fuyu" => \A m \in Minute :
  heap[p].count[m] + Cardinality(FuyuPassing(p, m)) + Cardinality(Carrying(p))
    <= Top(heap[p]) + 2 * Cardinality(Requests)

FuyuInv == IInv /\ NotOlder /\ FuyuSums

(* No more requests are passing or carrying than there are.                *)
LEMMA FuyuAreFew ==
  ASSUME NEW p, NEW m
  PROVE  /\ FuyuPassing(p, m) \subseteq Requests /\ IsFiniteSet(FuyuPassing(p, m))
         /\ Carrying(p) \subseteq Requests /\ IsFiniteSet(Carrying(p))
         /\ Cardinality(FuyuPassing(p, m)) \in Nat /\ Cardinality(Carrying(p)) \in Nat
         /\ Cardinality(Requests) \in Nat
         /\ Cardinality(FuyuPassing(p, m)) <= Cardinality(Requests)
         /\ Cardinality(Carrying(p)) <= Cardinality(Requests)
<1>1. IsFiniteSet(Requests) BY PacingAssumption
<1>2. FuyuPassing(p, m) \subseteq Requests BY DEF FuyuPassing
<1>3. Carrying(p) \subseteq Requests BY DEF Carrying
<1> QED BY <1>1, <1>2, <1>3, FS_Subset, FS_CardinalityType

(* The same in the next state.                                             *)
LEMMA FuyuAreFewNext ==
  ASSUME NEW p, NEW m
  PROVE  /\ Cardinality(FuyuPassing(p, m)') \in Nat /\ Cardinality(Carrying(p)') \in Nat
         /\ Cardinality(FuyuPassing(p, m)') <= Cardinality(Requests)
         /\ Cardinality(Carrying(p)') <= Cardinality(Requests)
<1>1. IsFiniteSet(Requests) BY PacingAssumption
<1>2. FuyuPassing(p, m)' \subseteq Requests BY DEF FuyuPassing
<1>3. Carrying(p)' \subseteq Requests BY DEF Carrying
<1> QED BY <1>1, <1>2, <1>3, FS_Subset, FS_CardinalityType

(* The bound of fuyu ads follows from the sums.                            *)
LEMMA FuyuOvershootFromSums == FuyuInv => FuyuOvershootBounded
<1> SUFFICES ASSUME FuyuInv, NEW p \in Ctrls, heap[p].kind = "fuyu", NEW m \in Minute
             PROVE  heap[p].count[m] <= Top(heap[p]) + 2 * Cardinality(Requests)
  BY DEF FuyuOvershootBounded
<1>1. heap[p] \in Controller BY DEF FuyuInv, IInv, TypeOK
<1>2. heap[p].count[m] \in Nat /\ Top(heap[p]) \in Nat BY <1>1, TopIsMost DEF Controller
<1>3. heap[p].count[m] + Cardinality(FuyuPassing(p, m)) + Cardinality(Carrying(p))
        <= Top(heap[p]) + 2 * Cardinality(Requests)
  BY DEF FuyuInv, FuyuSums
<1> QED BY <1>2, <1>3, FuyuAreFew

(* The sum stays small under a minute that is not above the threshold, and *)
(* under one that stays while nobody is added to either set.               *)
LEMMA FuyuSumsStep ==
  ASSUME FuyuInv, heap' \in [Ctrls -> Controller],
         \A p \in Ctrls : \A m \in Minute :
           \/ heap'[p].count[m] = 0 \/ heap'[p].count[m] <= Top(heap'[p])
           \/ heap'[p].kind = "ordinary"
           \/ /\ heap'[p].kind = heap[p].kind /\ Top(heap'[p]) = Top(heap[p])
              /\ heap'[p].count[m] = heap[p].count[m]
              /\ FuyuPassing(p, m)' \subseteq FuyuPassing(p, m) /\ Carrying(p)' \subseteq Carrying(p)
  PROVE  FuyuSums'
<1> SUFFICES ASSUME NEW p \in Ctrls, NEW m \in Minute, heap'[p].kind = "fuyu"
             PROVE  heap'[p].count[m] + Cardinality(FuyuPassing(p, m)') + Cardinality(Carrying(p)')
                      <= Top(heap'[p]) + 2 * Cardinality(Requests)
  BY DEF FuyuSums, Minute, Top
<1>1. heap'[p] \in Controller /\ heap[p] \in Controller BY DEF FuyuInv, IInv, TypeOK
<1>2. /\ heap'[p].count[m] \in Nat /\ Top(heap'[p]) \in Nat
      /\ heap[p].count[m] \in Nat /\ Top(heap[p]) \in Nat
  BY <1>1, TopIsMost DEF Controller
<1>3. /\ Cardinality(FuyuPassing(p, m)') \in Nat /\ Cardinality(Carrying(p)') \in Nat
      /\ Cardinality(FuyuPassing(p, m)') <= Cardinality(Requests)
      /\ Cardinality(Carrying(p)') <= Cardinality(Requests)
  BY FuyuAreFewNext
<1>4. /\ Cardinality(FuyuPassing(p, m)) \in Nat /\ Cardinality(Carrying(p)) \in Nat
      /\ Cardinality(Requests) \in Nat
      /\ IsFiniteSet(FuyuPassing(p, m)) /\ IsFiniteSet(Carrying(p))
  BY FuyuAreFew
<1>5. CASE heap'[p].count[m] = 0 BY <1>2, <1>3, <1>4, <1>5
<1>6. CASE heap'[p].count[m] <= Top(heap'[p]) BY <1>2, <1>3, <1>4, <1>6
<1>7. CASE /\ heap'[p].kind = heap[p].kind /\ Top(heap'[p]) = Top(heap[p])
           /\ heap'[p].count[m] = heap[p].count[m]
           /\ FuyuPassing(p, m)' \subseteq FuyuPassing(p, m) /\ Carrying(p)' \subseteq Carrying(p)
  <2>1. Cardinality(FuyuPassing(p, m)') <= Cardinality(FuyuPassing(p, m))
    BY <1>4, <1>7, FS_Subset
  <2>2. Cardinality(Carrying(p)') <= Cardinality(Carrying(p)) BY <1>4, <1>7, FS_Subset
  <2>3. heap[p].count[m] + Cardinality(FuyuPassing(p, m)) + Cardinality(Carrying(p))
          <= Top(heap[p]) + 2 * Cardinality(Requests)
    BY <1>7 DEF FuyuInv, FuyuSums
  <2> QED BY <1>2, <1>3, <1>4, <1>7, <2>1, <2>2, <2>3
<1> QED BY <1>5, <1>6, <1>7

(* A step that takes or drops controllers and counts nothing.              *)
LEMMA FuyuQuiet ==
  ASSUME FuyuInv, heap' = heap \/ heap' = Kept(heap),
         \A p \in Ctrls : \A m \in Minute : FuyuPassing(p, m)' \subseteq FuyuPassing(p, m),
         \A p \in Ctrls : Carrying(p)' \subseteq Carrying(p)
  PROVE  FuyuSums'
<1>1. heap \in [Ctrls -> Controller] BY DEF FuyuInv, IInv, TypeOK
<1>2. /\ heap' \in [Ctrls -> Controller]
      /\ \A p \in Ctrls : heap'[p] = heap[p] \/ \A m \in Minute : heap'[p].count[m] = 0
  BY <1>1, KeptFacts
<1>3. \A p \in Ctrls : heap'[p] = heap[p] => Top(heap'[p]) = Top(heap[p]) BY DEF Top
<1> QED BY <1>2, <1>3, FuyuSumsStep

(* Where a request is and what it holds.                                   *)
LEMMA Held ==
  FuyuInv => /\ at \in [Requests -> Places] /\ stamp \in [Requests -> Minute]
             /\ ctl \in [Requests -> Ctrls \cup {Nil}] /\ chk \in [Requests -> Ctrls \cup {Nil}]
BY DEF FuyuInv, IInv, TypeOK, Places

(* A request that lets nobody else go on touches neither set but by        *)
(* itself.                                                                 *)
LEMMA OneMoves ==
  ASSUME NEW r \in Requests, NEW p, NEW m, fuyuPc' = fuyuPc,
         \A q \in Requests : q # r =>
           at'[q] = at[q] /\ stamp'[q] = stamp[q] /\ ctl'[q] = ctl[q] /\ chk'[q] = chk[q]
  PROVE  /\ (r \in FuyuPassing(p, m)' => r \in FuyuPassing(p, m)) =>
              FuyuPassing(p, m)' \subseteq FuyuPassing(p, m)
         /\ (r \in Carrying(p)' => r \in Carrying(p)) => Carrying(p)' \subseteq Carrying(p)
<1>1. ASSUME NEW q \in FuyuPassing(p, m)', q # r PROVE q \in FuyuPassing(p, m)
  BY <1>1 DEF FuyuPassing
<1>2. ASSUME NEW q \in Carrying(p)', q # r PROVE q \in Carrying(p)
  <2>1. q \in Requests BY DEF Carrying
  <2>2. at'[q] = at[q] /\ ctl'[q] = ctl[q] /\ chk'[q] = chk[q] BY <1>2, <2>1
  <2> QED BY <1>2, <2>1, <2>2 DEF Carrying
<1> QED BY <1>1, <1>2

(* A click in a controller of ordinary ads is none in one of fuyu ads      *)
(* (Render).                                                               *)
LEMMA FuyuAfterRender ==
  ASSUME FuyuInv, NEW r \in Requests, Render(r)
  PROVE  NotOlder' /\ FuyuSums'
<1> USE DEF Render, service, Done
<1>1. ctl[r] \in Ctrls /\ heap[ctl[r]].kind = "ordinary" BY DEF FuyuInv, IInv, TypeOK, Kinds
<1>2. heap' = Added(r) \/ heap' = Kept(Added(r)) BY DEF Added, FuyuInv, IInv, TypeOK
<1>3. /\ Added(r) \in [Ctrls -> Controller]
      /\ \A p \in Ctrls : Added(r)[p].kind = heap[p].kind /\ Top(Added(r)[p]) = Top(heap[p])
      /\ \A p \in Ctrls : \A m \in Minute : Added(r)[p].count[m] =
           IF p = ctl[r] /\ m = stamp[r] THEN heap[p].count[m] + 1 ELSE heap[p].count[m]
  BY <1>1, AddedFacts DEF FuyuInv
<1>4. /\ heap' \in [Ctrls -> Controller]
      /\ \A p \in Ctrls : heap'[p] = Added(r)[p] \/ \A m \in Minute : heap'[p].count[m] = 0
  BY <1>2, <1>3, KeptFacts
<1>5. NotOlder' BY DEF FuyuInv, NotOlder, IInv, TypeOK
<1>6. ASSUME NEW p \in Ctrls, NEW m \in Minute
      PROVE  /\ FuyuPassing(p, m)' \subseteq FuyuPassing(p, m)
             /\ Carrying(p)' \subseteq Carrying(p)
  <2>1. \A q \in Requests : q # r =>
          at'[q] = at[q] /\ stamp'[q] = stamp[q] /\ ctl'[q] = ctl[q] /\ chk'[q] = chk[q]
    BY Held
  <2>2. at'[r] \in {"idle", "fuyu"} /\ fuyuPc' = fuyuPc BY Held
  <2>3. r \in FuyuPassing(p, m)' => r \in FuyuPassing(p, m) BY <2>2 DEF FuyuPassing
  <2>4. r \in Carrying(p)' => r \in Carrying(p) BY <2>2 DEF Carrying
  <2> QED BY <2>1, <2>2, <2>3, <2>4, OneMoves
<1>7. ASSUME NEW p \in Ctrls, NEW m \in Minute
      PROVE  \/ heap'[p].count[m] = 0
             \/ heap'[p].kind = "ordinary"
             \/ /\ heap'[p].kind = heap[p].kind /\ Top(heap'[p]) = Top(heap[p])
                /\ heap'[p].count[m] = heap[p].count[m]
  <2>1. heap'[p].count[m] = 0 \/ heap'[p] = Added(r)[p] BY <1>4
  <2>2. heap'[p] = Added(r)[p] => Top(heap'[p]) = Top(Added(r)[p]) BY DEF Top
  <2>3. CASE p = ctl[r] BY <1>1, <1>3, <2>1, <2>3
  <2>4. CASE p # ctl[r] BY <1>3, <2>1, <2>2, <2>4
  <2> QED BY <2>3, <2>4
<1> QED BY <1>4, <1>5, <1>6, <1>7, FuyuSumsStep

(* A click of a fuyu ad was counted as one to come: a request that passed  *)
(* adds where it asked, or carries its click (FuyuRender).                 *)
LEMMA FuyuAfterFuyuRender ==
  ASSUME FuyuInv, NEW r \in Requests, FuyuRender(r)
  PROVE  NotOlder' /\ FuyuSums'
<1> USE DEF FuyuRender, service, Done
<1>1. PICK p \in Ctrls, m \in Minute : p = ctl[r] /\ m = stamp[r] BY DEF FuyuInv, IInv, TypeOK
<1>2. heap' = Added(r) \/ heap' = Kept(Added(r)) BY DEF Added, FuyuInv, IInv, TypeOK
<1>3. /\ Added(r) \in [Ctrls -> Controller]
      /\ \A q \in Ctrls : Added(r)[q].kind = heap[q].kind /\ Top(Added(r)[q]) = Top(heap[q])
      /\ \A q \in Ctrls : \A n \in Minute : Added(r)[q].count[n] =
           IF q = p /\ n = m THEN heap[q].count[n] + 1 ELSE heap[q].count[n]
  BY <1>1, AddedFacts DEF FuyuInv
<1>4. /\ heap' \in [Ctrls -> Controller]
      /\ \A q \in Ctrls : heap'[q] = Added(r)[q] \/ \A n \in Minute : heap'[q].count[n] = 0
  BY <1>2, <1>3, KeptFacts
<1>5. NotOlder' BY DEF FuyuInv, NotOlder, IInv, TypeOK
<1>a. at'[r] \in {"idle", "fuyu"} /\ fuyuPc' = fuyuPc BY Held
<1>6. ASSUME NEW q \in Ctrls, NEW n \in Minute
      PROVE  /\ FuyuPassing(q, n)' \subseteq FuyuPassing(q, n)
             /\ Carrying(q)' \subseteq Carrying(q)
  <2>1. \A o \in Requests : o # r =>
          at'[o] = at[o] /\ stamp'[o] = stamp[o] /\ ctl'[o] = ctl[o] /\ chk'[o] = chk[o]
    BY Held
  <2>2. r \in FuyuPassing(q, n)' => r \in FuyuPassing(q, n) BY <1>a DEF FuyuPassing
  <2>3. r \in Carrying(q)' => r \in Carrying(q) BY <1>a DEF Carrying
  <2> QED BY <1>a, <2>1, <2>2, <2>3, OneMoves
<1>7. \/ r \in FuyuPassing(p, m) /\ r \notin FuyuPassing(p, m)'
      \/ r \in Carrying(p) /\ r \notin Carrying(p)'
  <2>1. CASE chk[r] = p BY <1>1, <1>a, <2>1 DEF FuyuPassing
  <2>2. CASE chk[r] # p
    <3>1. r \in Carrying(p) BY <1>1, <2>2 DEF Carrying
    <3>2. CASE r \in Wugan BY <1>a, <3>1, <3>2 DEF Carrying
    <3>3. CASE r \notin Wugan
      <4>1. p # fuyuPc BY <1>1, <2>2, <3>3 DEF FuyuInv, NotOlder
      <4>2. r \notin Carrying(p)' BY <1>a, <3>3, <4>1 DEF Carrying
      <4> QED BY <3>1, <4>2
    <3> QED BY <3>2, <3>3
  <2> QED BY <2>1, <2>2
<1>8. FuyuSums'
  <2> SUFFICES ASSUME NEW q \in Ctrls, NEW n \in Minute, heap'[q].kind = "fuyu"
               PROVE  heap'[q].count[n] + Cardinality(FuyuPassing(q, n)') + Cardinality(Carrying(q)')
                        <= Top(heap'[q]) + 2 * Cardinality(Requests)
    BY DEF FuyuSums, Minute, Top
  <2>1. heap'[q] \in Controller /\ heap[q] \in Controller BY <1>4 DEF FuyuInv, IInv, TypeOK
  <2>2. /\ heap'[q].count[n] \in Nat /\ Top(heap'[q]) \in Nat
        /\ heap[q].count[n] \in Nat /\ Top(heap[q]) \in Nat
    BY <2>1, TopIsMost DEF Controller
  <2>3. /\ Cardinality(FuyuPassing(q, n)') \in Nat /\ Cardinality(Carrying(q)') \in Nat
        /\ Cardinality(FuyuPassing(q, n)') <= Cardinality(Requests)
        /\ Cardinality(Carrying(q)') <= Cardinality(Requests)
    BY FuyuAreFewNext
  <2>4. /\ Cardinality(FuyuPassing(q, n)) \in Nat /\ Cardinality(Carrying(q)) \in Nat
        /\ Cardinality(Requests) \in Nat
        /\ IsFiniteSet(FuyuPassing(q, n)) /\ IsFiniteSet(Carrying(q))
    BY FuyuAreFew
  <2>5. /\ Cardinality(FuyuPassing(q, n)') <= Cardinality(FuyuPassing(q, n))
        /\ Cardinality(Carrying(q)') <= Cardinality(Carrying(q))
    BY <1>6, <2>4, FS_Subset
  <2>6. CASE heap'[q].count[n] = 0 BY <2>2, <2>3, <2>4, <2>6
  <2>7. CASE heap'[q] = Added(r)[q]
    <3>1. heap[q].kind = "fuyu" /\ Top(heap'[q]) = Top(heap[q]) BY <1>3, <2>7 DEF Top
    <3>2. heap[q].count[n] + Cardinality(FuyuPassing(q, n)) + Cardinality(Carrying(q))
            <= Top(heap[q]) + 2 * Cardinality(Requests)
      BY <3>1 DEF FuyuInv, FuyuSums
    <3>3. CASE q = p /\ n = m
      <4>1. heap'[q].count[n] = heap[q].count[n] + 1 BY <1>3, <2>7, <3>3
      <4>2. \/ Cardinality(FuyuPassing(q, n)') < Cardinality(FuyuPassing(q, n))
            \/ Cardinality(Carrying(q)') < Cardinality(Carrying(q))
        <5>1. \/ FuyuPassing(q, n)' # FuyuPassing(q, n)
              \/ Carrying(q)' # Carrying(q)
          BY <1>7, <3>3
        <5>2. FuyuPassing(q, n)' # FuyuPassing(q, n) =>
                Cardinality(FuyuPassing(q, n)') < Cardinality(FuyuPassing(q, n))
          BY <1>6, <2>3, <2>4, <2>5, FS_Subset
        <5>3. Carrying(q)' # Carrying(q) => Cardinality(Carrying(q)') < Cardinality(Carrying(q))
          BY <1>6, <2>3, <2>4, <2>5, FS_Subset
        <5> QED BY <5>1, <5>2, <5>3
      <4> QED BY <2>2, <2>3, <2>4, <2>5, <3>1, <3>2, <4>1, <4>2
    <3>4. CASE ~(q = p /\ n = m)
      <4>1. heap'[q].count[n] = heap[q].count[n] BY <1>3, <2>7, <3>4
      <4> QED BY <2>2, <2>3, <2>4, <2>5, <3>1, <3>2, <4>1
    <3> QED BY <3>3, <3>4
  <2> QED BY <1>4, <2>6, <2>7
<1> QED BY <1>5, <1>8

(* A request that passes finds the count not above the threshold           *)
(* (OverCap, asked by FuyuSearch).                                         *)
LEMMA FuyuAfterFuyuSearch ==
  ASSUME FuyuInv, NEW r \in Requests, FuyuSearch(r)
  PROVE  NotOlder' /\ FuyuSums'
<1> USE DEF FuyuSearch, service, Goto, Done
<1>1. NotOlder' BY DEF FuyuInv, NotOlder, IInv, TypeOK
<1>2. CASE /\ ~OverCap(heap[chk[r]], r)
           /\ at' = [at EXCEPT ![r] = IF r \in Wugan THEN "fuyuGet" ELSE "fuyuAdd"]
           /\ UNCHANGED <<now, heap, service, stamp, ctl, chk>>
  <2> DEFINE p == chk[r]
             m == stamp[r]
  <2>1. p \in Ctrls /\ m \in Minute /\ heap[p] \in Controller BY DEF FuyuInv, IInv, TypeOK
  <2>2. heap[p].count[m] <= Top(heap[p])
    <3>1. heap[p].count[m] <= Threshold(heap[p], r)
      BY <1>2, <2>1, TopIsMost DEF OverCap, Controller
    <3>2. Threshold(heap[p], r) \in Nat /\ Threshold(heap[p], r) <= Top(heap[p]) /\ Top(heap[p]) \in Nat
      BY <2>1, TopIsMost
    <3>3. heap[p].count[m] \in Nat BY <2>1 DEF Controller
    <3> HIDE DEF p, m
    <3> QED BY <3>1, <3>2, <3>3
  <2>3. ASSUME NEW q \in Ctrls, NEW n \in Minute
        PROVE  (q = p /\ n = m) \/ FuyuPassing(q, n)' \subseteq FuyuPassing(q, n)
    BY <1>2 DEF FuyuPassing, FuyuInv, IInv, TypeOK
  <2>4. \A q \in Ctrls : Carrying(q)' \subseteq Carrying(q)
    BY <1>2, PacingAssumption DEF Carrying, FuyuInv, IInv, TypeOK
  <2>5. heap' \in [Ctrls -> Controller] /\ heap' = heap BY <1>2 DEF FuyuInv, IInv, TypeOK
  <2>6. \A q \in Ctrls : Top(heap'[q]) = Top(heap[q]) BY <2>5 DEF Top
  <2> HIDE DEF p, m
  <2>7. ASSUME NEW q \in Ctrls, NEW n \in Minute
        PROVE  \/ heap'[q].count[n] <= Top(heap'[q])
               \/ /\ heap'[q].kind = heap[q].kind /\ Top(heap'[q]) = Top(heap[q])
                  /\ heap'[q].count[n] = heap[q].count[n]
                  /\ FuyuPassing(q, n)' \subseteq FuyuPassing(q, n) /\ Carrying(q)' \subseteq Carrying(q)
    BY <2>2, <2>3, <2>4, <2>5, <2>6
  <2> QED BY <1>1, <2>5, <2>7, FuyuSumsStep
<1>3. CASE Done(r) /\ heap' = Kept(heap)
  <2>1. \A p \in Ctrls : \A m \in Minute : FuyuPassing(p, m)' \subseteq FuyuPassing(p, m)
    BY <1>3 DEF FuyuPassing, FuyuInv, IInv, TypeOK
  <2>2. \A p \in Ctrls : Carrying(p)' \subseteq Carrying(p)
    BY <1>3, PacingAssumption DEF Carrying, FuyuInv, IInv, TypeOK
  <2> QED BY <1>1, <1>3, <2>1, <2>2, FuyuQuiet
<1> QED BY <1>2, <1>3

(* A request that begins, searches, or takes a controller, lets nobody     *)
(* through and carries nothing it did not carry.                           *)
LEMMA FuyuAfterQuiet ==
  ASSUME FuyuInv, NEW r \in Requests,
         LoadPacing(r) \/ Search(r) \/ LoadFuyuPacing(r) \/ getFuyuDocsWithShuffle(r) \/ getFuyuAds(r)
  PROVE  NotOlder' /\ FuyuSums'
<1> USE DEF LoadPacing, Search, LoadFuyuPacing, getFuyuDocsWithShuffle, getFuyuAds, Goto, Done, service
<1>1. \A q \in Requests : q # r =>
        at'[q] = at[q] /\ stamp'[q] = stamp[q] /\ ctl'[q] = ctl[q] /\ chk'[q] = chk[q]
  BY Held
<1>2. (heap' = heap \/ heap' = Kept(heap)) /\ fuyuPc' = fuyuPc OBVIOUS
<1>3. \/ at'[r] \in {"idle", "search", "add", "fuyu", "fuyuDocs"} /\ (at'[r] = "fuyuDocs" => ctl'[r] = fuyuPc)
      \/ at'[r] = "fuyuSearch" /\ chk'[r] = fuyuPc /\ r \in Wugan
      \/ at'[r] = "fuyuSearch" /\ chk'[r] = fuyuPc /\ r \notin Wugan /\ at[r] = "fuyuDocs" /\ ctl'[r] = ctl[r]
      \/ /\ at[r] = "fuyuGet" /\ at'[r] = "fuyuAdd" /\ ctl'[r] = fuyuPc
         /\ chk'[r] = chk[r] /\ stamp'[r] = stamp[r]
  BY Held
<1>4. r \notin Wugan => at[r] # "fuyuGet" BY DEF FuyuInv, NotOlder
<1>5. NotOlder' 
  BY <1>1, <1>2, <1>3, <1>4 DEF NotOlder, FuyuInv
<1>6. ASSUME NEW p \in Ctrls, NEW m \in Minute
      PROVE  FuyuPassing(p, m)' \subseteq FuyuPassing(p, m)
  <2>1. r \in FuyuPassing(p, m)' => r \in FuyuPassing(p, m) BY <1>3 DEF FuyuPassing
  <2> QED BY <1>1, <1>2, <2>1, OneMoves
<1>7. ASSUME NEW p \in Ctrls PROVE Carrying(p)' \subseteq Carrying(p)
  <2>1. r \in Carrying(p)' => r \in Carrying(p) BY <1>2, <1>3, <1>4 DEF Carrying
  <2> QED BY <1>1, <1>2, <2>1, OneMoves
<1> QED BY <1>2, <1>5, <1>6, <1>7, FuyuQuiet

(* A minute goes by (ExpiredMap).                                          *)
LEMMA FuyuAfterTick == FuyuInv /\ Tick => NotOlder' /\ FuyuSums'
<1> SUFFICES ASSUME FuyuInv, Tick PROVE NotOlder' /\ FuyuSums'
  OBVIOUS
<1> USE DEF Tick, service, request
<1>1. \A p \in Ctrls : heap[p] \in Controller BY DEF FuyuInv, IInv, TypeOK
<1>2. now' \in Minute BY PacingAssumption DEF FuyuInv, IInv, TypeOK, Minute, Next1
<1>3. \A p \in Ctrls :
        /\ heap'[p] \in Controller /\ heap'[p].kind = heap[p].kind /\ Top(heap'[p]) = Top(heap[p])
        /\ \A m \in Minute : heap'[p].count[m] \in {0, heap[p].count[m]}
  BY <1>1, <1>2, OlderCounts
<1>4. heap' \in [Ctrls -> Controller] BY <1>3
<1>5. \A p \in Ctrls : /\ \A m \in Minute : FuyuPassing(p, m)' \subseteq FuyuPassing(p, m)
                       /\ Carrying(p)' \subseteq Carrying(p)
  BY DEF FuyuPassing, Carrying
<1>6. NotOlder' BY DEF FuyuInv, NotOlder
<1> QED BY <1>3, <1>4, <1>5, <1>6, FuyuSumsStep

(* What a step of the ticker leaves of the controllers.                    *)
LEMMA StoredFacts ==
  ASSUME FuyuInv, NEW p \in Ctrls \ Live, NEW c \in Controller, \A m \in Minute : c.count[m] = 0,
         heap' = Kept([heap EXCEPT ![p] = c])
  PROVE  /\ heap' \in [Ctrls -> Controller]
         /\ \A m \in Minute : heap'[p].count[m] = 0
         /\ \A q \in Ctrls : heap'[q] = heap[q] \/ \A m \in Minute : heap'[q].count[m] = 0
<1> DEFINE new == [heap EXCEPT ![p] = c]
<1>1. new \in [Ctrls -> Controller] /\ \A q \in Ctrls : new[q] = IF q = p THEN c ELSE heap[q]
  BY DEF FuyuInv, IInv, TypeOK
<1>2. heap' = Kept(new) OBVIOUS
<1> HIDE DEF new
<1>3. /\ heap' \in [Ctrls -> Controller]
      /\ \A q \in Ctrls : heap'[q] = new[q] \/ \A m \in Minute : heap'[q].count[m] = 0
  BY <1>1, <1>2, KeptFacts
<1> QED BY <1>1, <1>3

(* The ticker puts a new controller of ordinary ads (StorePacing).         *)
LEMMA FuyuAfterStorePacing == FuyuInv /\ StorePacing => NotOlder' /\ FuyuSums'
<1> SUFFICES ASSUME FuyuInv, StorePacing PROVE NotOlder' /\ FuyuSums'
  OBVIOUS
<1> USE DEF StorePacing, request
<1>1. PICK c \in NewPacingController("ordinary") : heap' = Kept([heap EXCEPT ![pc'] = c]) OBVIOUS
<1>2. c \in Controller /\ \A m \in Minute : c.count[m] = 0 BY NewIsController
<1>3. pc' \in Ctrls \ Live OBVIOUS
<1>4. /\ heap' \in [Ctrls -> Controller]
      /\ \A q \in Ctrls : heap'[q] = heap[q] \/ \A m \in Minute : heap'[q].count[m] = 0
  BY <1>1, <1>2, <1>3, StoredFacts
<1>5. \A p \in Ctrls : /\ \A m \in Minute : FuyuPassing(p, m)' \subseteq FuyuPassing(p, m)
                       /\ Carrying(p)' \subseteq Carrying(p)
  BY DEF FuyuPassing, Carrying
<1>6. NotOlder' BY DEF FuyuInv, NotOlder
<1>7. \A p \in Ctrls : heap'[p] = heap[p] => Top(heap'[p]) = Top(heap[p]) BY DEF Top
<1> QED BY <1>4, <1>5, <1>6, <1>7, FuyuSumsStep

(* The ticker puts a new controller of fuyu ads: it has counted nothing,   *)
(* and nobody adds to it yet (StoreFuyuPacing).                            *)
LEMMA FuyuAfterStoreFuyuPacing == FuyuInv /\ StoreFuyuPacing => NotOlder' /\ FuyuSums'
<1> SUFFICES ASSUME FuyuInv, StoreFuyuPacing PROVE NotOlder' /\ FuyuSums'
  OBVIOUS
<1> USE DEF StoreFuyuPacing, request
<1>1. PICK c \in NewPacingController("fuyu") : heap' = Kept([heap EXCEPT ![fuyuPc'] = c]) OBVIOUS
<1>2. c \in Controller /\ \A m \in Minute : c.count[m] = 0 BY NewIsController
<1>3. fuyuPc' \in Ctrls \ Live OBVIOUS
<1>4. /\ heap' \in [Ctrls -> Controller]
      /\ \A m \in Minute : heap'[fuyuPc'].count[m] = 0
      /\ \A q \in Ctrls : heap'[q] = heap[q] \/ \A m \in Minute : heap'[q].count[m] = 0
  BY <1>1, <1>2, <1>3, StoredFacts
<1>5. \A p \in Ctrls : p # fuyuPc' =>
        /\ \A m \in Minute : FuyuPassing(p, m)' \subseteq FuyuPassing(p, m)
        /\ Carrying(p)' \subseteq Carrying(p)
  BY DEF FuyuPassing, Carrying
<1>6. NotOlder'
  <2>1. \A r \in Requests : ctl[r] # fuyuPc' BY <1>3 DEF Live
  <2> QED BY <2>1 DEF FuyuInv, NotOlder
<1>7. \A p \in Ctrls : heap'[p] = heap[p] => Top(heap'[p]) = Top(heap[p]) BY DEF Top
<1>8. ASSUME NEW p \in Ctrls, NEW m \in Minute
      PROVE  \/ heap'[p].count[m] = 0
             \/ /\ heap'[p].kind = heap[p].kind /\ Top(heap'[p]) = Top(heap[p])
                /\ heap'[p].count[m] = heap[p].count[m]
                /\ FuyuPassing(p, m)' \subseteq FuyuPassing(p, m) /\ Carrying(p)' \subseteq Carrying(p)
  <2>1. CASE p = fuyuPc' BY <1>4, <2>1
  <2>2. CASE p # fuyuPc' BY <1>4, <1>5, <1>7, <2>2
  <2> QED BY <2>1, <2>2
<1> QED BY <1>4, <1>6, <1>8, FuyuSumsStep

(* Nobody carries anything yet (NewService).                               *)
LEMMA InitFuyuInv == Init => FuyuInv
<1> SUFFICES ASSUME Init PROVE FuyuInv
  OBVIOUS
<1>1. IInv BY InitIInv
<1>2. NotOlder BY DEF Init, NotOlder
<1>3. FuyuSums
  <2> SUFFICES ASSUME NEW p \in Ctrls, NEW m \in Minute
               PROVE  heap[p].count[m] + Cardinality(FuyuPassing(p, m)) + Cardinality(Carrying(p))
                        <= Top(heap[p]) + 2 * Cardinality(Requests)
    BY DEF FuyuSums
  <2>1. heap[p].count[m] = 0
    <3>1. PICK c \in NewPacingController("ordinary"), f \in NewPacingController("fuyu") :
            heap = [q \in Ctrls |-> IF q = pc THEN c ELSE IF q = fuyuPc THEN f ELSE Blank]
      BY DEF Init
    <3>2. c.count[m] = 0 /\ f.count[m] = 0 /\ Blank.count[m] = 0 BY NewIsController
    <3> QED BY <3>1, <3>2
  <2>2. Top(heap[p]) \in Nat BY <1>1, TopIsMost DEF IInv, TypeOK
  <2> QED BY <2>1, <2>2, FuyuAreFew
<1> QED BY <1>1, <1>2, <1>3 DEF FuyuInv

-----------------------------------------------------------------------------
(* The theorems. *)

(* Every step keeps the invariant.                                         *)
THEOREM NextIInv == IInv /\ [Next]_vars => IInv'
<1> SUFFICES ASSUME IInv, [Next]_vars PROVE IInv'
  OBVIOUS
<1>1. CASE Tick BY <1>1, TickStep
<1>2. CASE StorePacing BY <1>2, StorePacingStep
<1>3. CASE StoreFuyuPacing BY <1>3, StoreFuyuPacingStep
<1>4. ASSUME NEW r \in Requests, Request(r) PROVE IInv'
  <2>1. CASE LoadPacing(r) BY <2>1, LoadPacingStep
  <2>2. CASE Search(r) BY <2>2, SearchStep
  <2>3. CASE Render(r) BY <2>3, RenderStep
  <2>4. CASE LoadFuyuPacing(r) BY <2>4, LoadFuyuPacingStep
  <2>5. CASE getFuyuDocsWithShuffle(r) BY <2>5, getFuyuDocsWithShuffleStep
  <2>6. CASE FuyuSearch(r) BY <2>6, FuyuSearchStep
  <2>7. CASE getFuyuAds(r) BY <2>7, getFuyuAdsStep
  <2>8. CASE FuyuRender(r) BY <2>8, FuyuRenderStep
  <2> QED BY <1>4, <2>1, <2>2, <2>3, <2>4, <2>5, <2>6, <2>7, <2>8 DEF Request
<1>5. CASE UNCHANGED vars
  BY <1>5, ZenonT(40) DEF IInv, TypeOK, Kinds, Sums, Passing, Top, Controller, Minute, vars, service, request
<1> QED BY <1>1, <1>2, <1>3, <1>4, <1>5 DEF Next

(* The invariant holds throughout.                                         *)
THEOREM Inductive == Spec => []IInv
BY InitIInv, NextIInv, PTL DEF Spec

(* Requests always hold a controller where they use one, and every         *)
(* counter is that of a minute of the hour (OverCap, Add).                 *)
THEOREM TypeCorrect == Spec => []TypeOK
<1>1. IInv => TypeOK BY DEF IInv
<1> QED BY <1>1, Inductive, PTL

(* An ordinary controller is at most one click for each request over its   *)
(* threshold, whatever the requests, the fleet and the clock do (OverCap   *)
(* and Add of pacing.Controller, called from wuganHandler and              *)
(* retrievalHandler).                                                      *)
THEOREM Overshoot == Spec => []OvershootBounded
BY OvershootFromSums, Inductive, PTL

(* Fuyu ads are never counted in the controller of ordinary ads, nor the   *)
(* other way round (the replacement of the controller in retrievalHandler, *)
(* getFuyuAds).                                                            *)
THEOREM Apart == Spec => []FuyuCountedApart
<1>1. IInv => FuyuCountedApart BY DEF IInv, Kinds, FuyuCountedApart
<1> QED BY <1>1, Inductive, PTL

(* A fuyu controller is at most two clicks for each request over its       *)
(* threshold: one the request was let through for, and one it carried from *)
(* a controller it asked before or after this one was the service's        *)
(* (getFuyuDocsWithShuffle and getFuyuAds load the controller twice).      *)
THEOREM FuyuOvershoot == Spec => []FuyuOvershootBounded
<1>1. FuyuInv /\ [Next]_vars => FuyuInv'
  <2> SUFFICES ASSUME FuyuInv, [Next]_vars PROVE FuyuInv'
    OBVIOUS
  <2>1. IInv' BY NextIInv DEF FuyuInv
  <2>2. CASE Tick BY <2>1, <2>2, FuyuAfterTick DEF FuyuInv
  <2>3. CASE StorePacing BY <2>1, <2>3, FuyuAfterStorePacing DEF FuyuInv
  <2>4. CASE StoreFuyuPacing BY <2>1, <2>4, FuyuAfterStoreFuyuPacing DEF FuyuInv
  <2>5. ASSUME NEW r \in Requests, Request(r) PROVE FuyuInv'
    <3>1. CASE Render(r) BY <2>1, <3>1, FuyuAfterRender DEF FuyuInv
    <3>2. CASE FuyuRender(r) BY <2>1, <3>2, FuyuAfterFuyuRender DEF FuyuInv
    <3>3. CASE FuyuSearch(r) BY <2>1, <3>3, FuyuAfterFuyuSearch DEF FuyuInv
    <3>4. CASE LoadPacing(r) \/ Search(r) \/ LoadFuyuPacing(r) \/ getFuyuDocsWithShuffle(r) \/ getFuyuAds(r)
      BY <2>1, <3>4, FuyuAfterQuiet DEF FuyuInv
    <3> QED BY <2>5, <3>1, <3>2, <3>3, <3>4 DEF Request
  <2>6. CASE UNCHANGED vars
    BY <2>1, <2>6, ZenonT(40) DEF FuyuInv, NotOlder, FuyuSums, FuyuPassing, Carrying, Top, Minute, vars, service, request
  <2> QED BY <2>2, <2>3, <2>4, <2>5, <2>6 DEF Next
<1> QED BY <1>1, InitFuyuInv, FuyuOvershootFromSums, PTL DEF Spec
=============================================================================
