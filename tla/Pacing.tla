------------------------------- MODULE Pacing -------------------------------
(***************************************************************************)
(* Pacing: how often an offer may be clicked per minute.  The service has  *)
(* two controllers, one for ordinary ads and one for fuyu ads, which a     *)
(* ticker replaces by new ones.  A request asks a controller in the filter *)
(* of its search (OverCap) and tells it when the ad is rendered (Add); in  *)
(* between it holds no lock.  One offer is modelled: the counters of two   *)
(* offers share nothing.                                                   *)
(***************************************************************************)
EXTENDS Integers, FiniteSets

CONSTANTS
  Requests,
  Wugan,         \* the requests of wuganHandler, the others are retrievalHandler's
  Country,       \* request -> "CN" or another
  GlobalPacing,  \* offerGlobalPacing, 700
  Fleets,        \* the numbers of instances the autoscaling group may have
  DefaultFleet,  \* nInstances when it cannot be asked, 20
  Manual,        \* raw.Pacing of the offer, -1 for none
  Ctrls,         \* addresses of controllers
  Minutes,       \* the minutes of an hour, 60
  Nil

ASSUME PacingAssumption ==
  /\ IsFiniteSet(Requests) /\ Wugan \subseteq Requests
  /\ GlobalPacing \in Nat /\ Manual \in Nat \cup {-1}
  /\ Fleets \subseteq Nat \ {0} /\ DefaultFleet \in Nat \ {0}
  /\ Minutes \in Nat /\ Minutes >= 2
  /\ Nil \notin Ctrls

VARIABLES
  now,     \* the minute of the hour
  heap,    \* address -> controller
  pc,      \* s.pc, the address of the controller of ordinary ads
  fuyuPc,  \* s.fuyuPc
  ticker,  \* which of the two the ticker replaces next
  at,      \* request -> where it is
  stamp,   \* request -> the minute of ctx.Now
  ctl,     \* request -> the controller it will add to
  chk      \* request -> the one getFuyuDocsWithShuffle asks

service == <<pc, fuyuPc, ticker>>
request == <<at, stamp, ctl, chk>>
vars    == <<now, heap, service, request>>

Minute == 0..(Minutes - 1)
Next1(m) == (m + 1) % Minutes

(* kind is history. *)
Controller ==
  [kind : {"ordinary", "fuyu"}, pacing : Nat, nInstances : Nat \ {0},
   count : [Minute -> Nat]]

TypeOK ==
  /\ now \in Minute
  /\ heap \in [Ctrls -> Controller]
  /\ pc \in Ctrls /\ fuyuPc \in Ctrls /\ ticker \in {"ordinary", "fuyu"}
  /\ at \in [Requests -> {"idle", "search", "add", "fuyu", "fuyuDocs", "fuyuSearch", "fuyuGet", "fuyuAdd"}]
  /\ stamp \in [Requests -> Minute]
  /\ ctl \in [Requests -> Ctrls \cup {Nil}] /\ chk \in [Requests -> Ctrls \cup {Nil}]
  /\ \A r \in Requests : at[r] \in {"search", "add", "fuyuDocs", "fuyuAdd"} => ctl[r] # Nil
  /\ \A r \in Requests : at[r] = "fuyuSearch" => chk[r] # Nil
  /\ \A r \in Requests \ Wugan : at[r] = "fuyuSearch" => ctl[r] # Nil

New(kind, pacing, n) ==
  [kind |-> kind, pacing |-> pacing, nInstances |-> n,
   count |-> [m \in Minute |-> 0]]
Blank == New("ordinary", 0, 1)

(* After any error the pacing is not divided. *)
NewPacingController(kind) ==
  {New(kind, GlobalPacing \div n, n) : n \in Fleets} \cup {New(kind, GlobalPacing, DefaultFleet)}

Init ==
  /\ now = 0 /\ pc \in Ctrls /\ fuyuPc \in Ctrls /\ pc # fuyuPc
  /\ \E c \in NewPacingController("ordinary"), f \in NewPacingController("fuyu") :
       heap = [p \in Ctrls |-> IF p = pc THEN c ELSE IF p = fuyuPc THEN f ELSE Blank]
  /\ ticker = "ordinary"
  /\ at = [r \in Requests |-> "idle"] /\ stamp = [r \in Requests |-> 0]
  /\ ctl = [r \in Requests |-> Nil] /\ chk = [r \in Requests |-> Nil]

-----------------------------------------------------------------------------
(* A controller is collected when nobody refers to it. *)
Live == {pc, fuyuPc} \cup {ctl[r] : r \in Requests} \cup {chk[r] : r \in Requests}
Kept(new) == [p \in Ctrls |-> IF p \in Live' THEN new[p] ELSE Blank]

Threshold(c, r) ==
  IF Manual # -1 THEN Manual \div c.nInstances
  ELSE IF Country[r] = "CN" THEN 2 * c.pacing ELSE c.pacing

(* MUTANT: the key is not the one of Add. *)
OverCapOtherKey(c, r) == c.count[Next1(stamp[r])] > Threshold(c, r)

(* A counter that is gone is 0. *)
OverCap(c, r) == c.count[stamp[r]] > Threshold(c, r)

Add(c, m) == [c EXCEPT !.count = [c.count EXCEPT ![m] = c.count[m] + 1]]

-----------------------------------------------------------------------------
(* The clock.  Bound: a request is answered within a minute of its minute. *)

(* A count lives for two minutes after the last Add, so the one that has   *)
(* the key of the coming minute is of an hour ago and gone.                *)
Older(c, m) == [c EXCEPT !.count = [c.count EXCEPT ![m] = 0]]

Tick ==
  /\ \A r \in Requests : at[r] # "idle" => stamp[r] = now
  /\ now' = Next1(now)
  /\ heap' = [p \in Ctrls |-> Older(heap[p], now')]
  /\ UNCHANGED <<service, request>>

(* The ticker of NewService. *)
StorePacing ==
  /\ ticker = "ordinary" /\ ticker' = "fuyu"
  /\ pc' \in Ctrls \ Live
  /\ UNCHANGED <<now, fuyuPc, request>>
  /\ \E c \in NewPacingController("ordinary") : heap' = Kept([heap EXCEPT ![pc'] = c])

StoreFuyuPacing ==
  /\ ticker = "fuyu" /\ ticker' = "ordinary"
  /\ fuyuPc' \in Ctrls \ Live
  /\ UNCHANGED <<now, pc, request>>
  /\ \E c \in NewPacingController("fuyu") : heap' = Kept([heap EXCEPT ![fuyuPc'] = c])

-----------------------------------------------------------------------------
(* A request. *)

LoadPacing(r) ==
  /\ at[r] = "idle" /\ at' = [at EXCEPT ![r] = "search"]
  /\ stamp' = [stamp EXCEPT ![r] = now] /\ ctl' = [ctl EXCEPT ![r] = pc]
  /\ UNCHANGED <<now, heap, service, chk>>

(* End of a request: it forgets its controllers. *)
Done(r) ==
  /\ at' = [at EXCEPT ![r] = "idle"] /\ stamp' = [stamp EXCEPT ![r] = 0]
  /\ ctl' = [ctl EXCEPT ![r] = Nil] /\ chk' = [chk EXCEPT ![r] = Nil]
  /\ UNCHANGED <<now, service>>

Goto(r, place) == at' = [at EXCEPT ![r] = place] /\ UNCHANGED <<now, heap, service, stamp, ctl, chk>>

(* The offer is found if it is not over its cap and nothing else speaks    *)
(* against it.  wuganHandler goes on to fuyu ads in any case,              *)
(* retrievalHandler only if it found nothing at all.                       *)
Search(r) ==
  /\ at[r] = "search"
  /\ \/ ~OverCap(heap[ctl[r]], r) /\ Goto(r, "add")
     \/ Goto(r, "fuyu")
     \/ r \notin Wugan /\ Done(r) /\ heap' = Kept(heap)

Render(r) ==
  /\ at[r] = "add"
  /\ LET new == [heap EXCEPT ![ctl[r]] = Add(@, stamp[r])] IN
       IF r \in Wugan
         THEN at' = [at EXCEPT ![r] = "fuyu"] /\ heap' = new /\ UNCHANGED <<now, service, stamp, ctl, chk>>
         ELSE Done(r) /\ heap' = Kept(new)

(* MUTANT: the controller stays the one of ordinary ads. *)
LoadFuyuPacingForgotten(r) ==
  /\ at[r] = "fuyu" /\ r \notin Wugan
  /\ at' = [at EXCEPT ![r] = "fuyuDocs"]
  /\ UNCHANGED <<now, service, stamp, chk, ctl, heap>>

(* retrievalHandler loads the controller it will add to before it calls    *)
(* getFuyuDocsWithShuffle, which loads one of its own to ask.              *)
LoadFuyuPacing(r) ==
  /\ at[r] = "fuyu" /\ r \notin Wugan
  /\ at' = [at EXCEPT ![r] = "fuyuDocs"] /\ ctl' = [ctl EXCEPT ![r] = fuyuPc]
  /\ UNCHANGED <<now, service, stamp, chk>> /\ heap' = Kept(heap)

getFuyuDocsWithShuffle(r) ==
  /\ at[r] = (IF r \in Wugan THEN "fuyu" ELSE "fuyuDocs")
  /\ at' = [at EXCEPT ![r] = "fuyuSearch"] /\ chk' = [chk EXCEPT ![r] = fuyuPc]
  /\ ctl' = [ctl EXCEPT ![r] = IF r \in Wugan THEN Nil ELSE @]
  /\ UNCHANGED <<now, service, stamp>> /\ heap' = Kept(heap)

FuyuSearch(r) ==
  /\ at[r] = "fuyuSearch"
  /\ \/ ~OverCap(heap[chk[r]], r) /\ Goto(r, IF r \in Wugan THEN "fuyuGet" ELSE "fuyuAdd")
     \/ Done(r) /\ heap' = Kept(heap)

(* MUTANT: it is not loaded again. *)
getFuyuAdsUnloaded(r) ==
  /\ at[r] = "fuyuGet"
  /\ at' = [at EXCEPT ![r] = "fuyuAdd"]
  /\ UNCHANGED <<now, service, stamp, ctl, chk, heap>>

(* getFuyuAds loads the controller again to add to it. *)
getFuyuAds(r) ==
  /\ at[r] = "fuyuGet"
  /\ at' = [at EXCEPT ![r] = "fuyuAdd"] /\ ctl' = [ctl EXCEPT ![r] = fuyuPc]
  /\ UNCHANGED <<now, service, stamp, chk>> /\ heap' = Kept(heap)

(* On iOS wuganHandler may ask for more fuyu ads (once, here any number). *)
FuyuRender(r) ==
  /\ at[r] = "fuyuAdd"
  /\ LET new == [heap EXCEPT ![ctl[r]] = Add(@, stamp[r])] IN
       \/ Done(r) /\ heap' = Kept(new)
       \/ r \in Wugan /\ at' = [at EXCEPT ![r] = "fuyu"] /\ heap' = new
          /\ UNCHANGED <<now, service, stamp, ctl, chk>>

Request(r) ==
  \/ LoadPacing(r) \/ Search(r) \/ Render(r)
  \/ LoadFuyuPacing(r) \/ getFuyuDocsWithShuffle(r) \/ FuyuSearch(r) \/ getFuyuAds(r) \/ FuyuRender(r)

Next == Tick \/ StorePacing \/ StoreFuyuPacing \/ \E r \in Requests : Request(r)

Spec == Init /\ [][Next]_vars

-----------------------------------------------------------------------------
(* Properties. *)

(* The most a request may find in a controller and still be let through. *)
Top(c) == IF Manual # -1 THEN Manual \div c.nInstances ELSE 2 * c.pacing

(* OverCap and Add are two critical sections, so requests that asked       *)
(* before the others added go over the cap; but only the requests in       *)
(* flight do: a controller of ordinary ads never counts more than its      *)
(* threshold and one click for each of them (wuganHandler).                *)
OvershootBounded == \A p \in Ctrls : heap[p].kind = "ordinary" =>
  \A m \in Minute : heap[p].count[m] <= Top(heap[p]) + Cardinality(Requests)

(* A fuyu ad may ask one controller and be counted in the next, which      *)
(* gives every request a second click over the cap and no more             *)
(* (getFuyuDocsWithShuffle and getFuyuAds load the controller twice).      *)
FuyuOvershootBounded == \A p \in Ctrls : heap[p].kind = "fuyu" =>
  \A m \in Minute : heap[p].count[m] <= Top(heap[p]) + 2 * Cardinality(Requests)

(* The comment in retrievalHandler: the controller is replaced, lest the   *)
(* clicks of fuyu ads are counted in the pacing of ordinary ads.           *)
FuyuCountedApart == \A r \in Requests :
  /\ at[r] = "add" => heap[ctl[r]].kind = "ordinary"
  /\ at[r] = "fuyuAdd" => heap[ctl[r]].kind = "fuyu"
=============================================================================
