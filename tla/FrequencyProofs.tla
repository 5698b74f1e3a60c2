--------------------------- MODULE FrequencyProofs ---------------------------
(***************************************************************************)
(* Proofs about Frequency for any number of requests, packages and slots,  *)
(* any days and any bounds.  A pre-click is pending from the moment a      *)
(* request reads that the package is free until the request counts it;     *)
(* what was given and what is pending are bounded together.                *)
(***************************************************************************)
EXTENDS Frequency, FiniteSetTheorems, TLAPS

StoreTypes ==
  /\ clock \in 0..(Day - 1)
  /\ pfreq \in [Pkgs -> Nat] /\ given \in [Pkgs -> Nat] /\ blind \in Nat /\ lost \in Nat
  /\ ttl \in 1..Day \cup {None}
  /\ complete \in [Types \X Slots -> Nat]
  /\ expire \in [Requests -> 1..Day \cup {None}] /\ delayed \subseteq Requests /\ loose \in BOOLEAN

PlaceTypes ==
  /\ handler \in [Requests -> Handlers \cup {Idle}]
  /\ step \in [Requests -> Nat]
  /\ \A r \in Requests : handler[r] # Idle => step[r] \in DOMAIN handler[r]

ContextTypes ==
  /\ asked \in [Requests -> Types] /\ type \in [Requests -> Types]
  /\ askedSlot \in [Requests -> Slots \cup {NoSlot}] /\ slot \in [Requests -> Slots \cup {NoSlot}]

ReadTypes ==
  /\ key \in [Requests -> Types \cup {None}]
  /\ capped \in [Requests -> SUBSET Pkgs] /\ found \in [Requests -> SUBSET Pkgs]
  /\ watched \in [Requests -> Nat] /\ over \in [Requests -> SUBSET Slots]

(* The parts make up the type invariant (GetFreq, IncrPreClickFreq).       *)
LEMMA TypeParts == TypeOK <=> StoreTypes /\ PlaceTypes /\ ContextTypes /\ ReadTypes
BY DEF TypeOK, StoreTypes, PlaceTypes, ContextTypes, ReadTypes

-----------------------------------------------------------------------------
(* Handlers. *)

Whole(h) ==
  /\ DOMAIN h \subseteq Nat /\ 1 \in DOMAIN h
  /\ \A i \in DOMAIN h : h[i] # "answer" => i + 1 \in DOMAIN h

(* Every handler begins with its first step and ends with its answer       *)
(* (retrieval/*.go).                                                       *)
LEMMA HandlersAreWhole == \A h \in Handlers : Whole(h) /\ h # Idle
<1>1. Whole(retrievalHandler) /\ retrievalHandler # Idle BY DEF Whole, retrievalHandler, Idle
<1>2. Whole(wuganHandler) /\ wuganHandler # Idle BY DEF Whole, wuganHandler, Idle
<1>3. Whole(realtimeHandler) /\ realtimeHandler # Idle BY DEF Whole, realtimeHandler, Idle
<1>4. Whole(lifeHandler) /\ lifeHandler # Idle BY DEF Whole, lifeHandler, Idle
<1>5. Whole(interstitialHandler) /\ interstitialHandler # Idle BY DEF Whole, interstitialHandler, Idle
<1>6. Whole(pageadHandler) /\ pageadHandler # Idle BY DEF Whole, pageadHandler, Idle
<1>7. Whole(videoHandler) /\ videoHandler # Idle BY DEF Whole, videoHandler, Idle
<1>8. Whole(videoCreativeHandler) /\ videoCreativeHandler # Idle BY DEF Whole, videoCreativeHandler, Idle
<1>9. Whole(videoAdHandler) /\ videoAdHandler # Idle BY DEF Whole, videoAdHandler, Idle
<1>10. Whole(videov4NativeHandler) /\ videov4NativeHandler # Idle BY DEF Whole, videov4NativeHandler, Idle
<1> QED BY <1>1, <1>2, <1>3, <1>4, <1>5, <1>6, <1>7, <1>8, <1>9, <1>10 DEF Handlers

(* The two handlers that count pre-clicks do so in their fifth and sixth   *)
(* steps, and leave the ad type as the client named it (retrieval.go,      *)
(* wugan.go).                                                              *)
LEMMA PreclickHandlers ==
  ASSUME NEW r \in Requests, handler[r] \in {retrievalHandler, wuganHandler}, NEW s, At(r, s)
  PROVE  /\ s = "incrfreq" <=> step[r] = 6
         /\ s = "preclick" => step[r] = 5
         /\ s = "freq" => step[r] = 2
         /\ s \in {"search", "fuyu"} => step[r] < 6
         /\ s \in {"refuse", "freq", "search", "fuyu", "preclick", "incrfreq", "answer"}
<1>1. CASE handler[r] = retrievalHandler
  <2>1. step[r] \in 1..7 BY <1>1 DEF At, retrievalHandler
  <2> QED BY <1>1, <2>1 DEF At, retrievalHandler
<1>2. CASE handler[r] = wuganHandler
  <2>1. step[r] \in 1..7 BY <1>2 DEF At, wuganHandler
  <2> QED BY <1>2, <2>1 DEF At, wuganHandler
<1> QED BY <1>1, <1>2

(* A step that goes on stays inside its handler.                           *)
LEMMA GoPlaces ==
  ASSUME PlaceTypes, NEW r \in Requests, NEW s, s # "answer", At(r, s), Go(r)
  PROVE  PlaceTypes' /\ handler' = handler /\ step' = [step EXCEPT ![r] = step[r] + 1]
<1>1. handler' = handler /\ step' = [step EXCEPT ![r] = step[r] + 1] BY DEF Go
<1>2. handler[r] # Idle BY DEF At, Idle
<1>3. handler[r] \in Handlers BY <1>2 DEF PlaceTypes
<1>4. step[r] + 1 \in DOMAIN handler[r] BY <1>3, HandlersAreWhole DEF Whole, At
<1>5. step' \in [Requests -> Nat] BY <1>1 DEF PlaceTypes
<1>6. \A q \in Requests : handler[q] # Idle => step'[q] \in DOMAIN handler[q]
  BY <1>1, <1>4 DEF PlaceTypes
<1> QED BY <1>1, <1>5, <1>6 DEF PlaceTypes

(* A request that ends leaves everything of its type (End).                *)
LEMMA EndTypes ==
  ASSUME PlaceTypes, ContextTypes, ReadTypes, NEW r \in Requests, End(r)
  PROVE  PlaceTypes' /\ ContextTypes' /\ ReadTypes'
<1>1. PlaceTypes' BY DEF End, PlaceTypes
<1>2. ContextTypes' BY DEF End, ContextTypes, Types
<1>3. ReadTypes' BY DEF End, ReadTypes
<1> QED BY <1>1, <1>2, <1>3

-----------------------------------------------------------------------------
(* The day. *)

(* What is left of a half-day, or of the day, ends within the day          *)
(* (IncrPreClickFreq).                                                     *)
LEMMA ExpiresInDay ==
  ASSUME clock \in 0..(Day - 1), NEW e \in Expires
  PROVE  e \in 1..Day /\ e <= Day - clock
<1>1. Day \in Nat /\ HalfDay \in Nat \ {0} /\ Day % HalfDay = 0 /\ clock \in Nat /\ clock < Day
  BY FrequencyAssumption
<1>2. CASE e = Day - (clock % Day)
  <2>1. clock % Day = clock BY <1>1
  <2> QED BY <1>1, <1>2, <2>1
<1>3. CASE e = HalfDay - (clock % HalfDay)
  <2> DEFINE q == clock \div HalfDay
             k == Day \div HalfDay
             m == clock % HalfDay
  <2>1. q \in Int /\ k \in Int /\ m \in 0..(HalfDay - 1) BY <1>1
  <2>2. clock = HalfDay * q + m BY <1>1
  <2>3. Day = HalfDay * k BY <1>1
  <2> HIDE DEF q, k, m
  <2>4. q < k
    <3>1. HalfDay * q < HalfDay * k BY <1>1, <2>1, <2>2, <2>3
    <3>2. ASSUME q >= k PROVE FALSE
      <4>1. HalfDay * (q - k) >= 0 BY <1>1, <2>1, <3>2
      <4>2. HalfDay * (q - k) = HalfDay * q - HalfDay * k BY <1>1, <2>1
      <4> QED BY <1>1, <2>1, <3>1, <4>1, <4>2
    <3> QED BY <2>1, <3>2
  <2>5. HalfDay * (k - q - 1) >= 0 BY <1>1, <2>1, <2>4
  <2>6. HalfDay * (k - q - 1) = HalfDay * k - HalfDay * q - HalfDay BY <1>1, <2>1
  <2>7. HalfDay <= Day - HalfDay * q BY <1>1, <2>1, <2>3, <2>5, <2>6
  <2>8. e = HalfDay - m BY <1>3 DEF m
  <2> QED BY <1>1, <2>1, <2>2, <2>7, <2>8
<1> QED BY <1>2, <1>3 DEF Expires

-----------------------------------------------------------------------------
(* The invariant. *)

(* The requests that may still count a pre-click of p.                     *)
Pending(p) == {r \in Requests :
  Preclicks(r) /\ step[r] <= 6 /\ (p \in found[r] \/ (key[r] = "wugan" /\ p \notin capped[r]))}

Fresh == \A r \in Requests :
  /\ handler[r] = Idle => key[r] = None /\ found[r] = {}
  /\ handler[r] \in VideoHandlers => askedSlot[r] \in Slots
Counted == \A p \in Pkgs : given[p] <= pfreq[p] + lost
Sums == \A p \in Pkgs : given[p] + Cardinality(Pending(p)) <= Cardinality(Requests) + blind + lost

(* The counts die with the day, and so does what is on its way, unless it  *)
(* has been overtaken by the clock.                                        *)
Dead == ttl = None /\ \A p \in Pkgs : pfreq[p] = 0
Dies == Dead \/ loose \/ (ttl # None /\ ttl <= Day - clock)
OnItsWay == \A r \in Requests : expire[r] # None =>
  /\ step[r] = 6 /\ Preclicks(r)
  /\ r \notin delayed => expire[r] <= Day - clock

IInv == TypeOK /\ Fresh /\ Counted /\ Sums /\ Dies /\ OnItsWay

(* A request has nothing on its way but at its write (IncrFreq).           *)
LEMMA NotSending ==
  ASSUME IInv, NEW r \in Requests, NEW s, At(r, s), s # "incrfreq"
  PROVE  expire[r] = None
BY PreclickHandlers DEF IInv, OnItsWay, Preclicks

(* What the others have on their way stays there.                          *)
LEMMA OthersOnTheirWay ==
  ASSUME OnItsWay, NEW r \in Requests, expire[r] = None, UNCHANGED <<clock, expire, delayed>>,
         \A q \in Requests \ {r} : (Preclicks(q)' <=> Preclicks(q)) /\ step'[q] = step[q]
  PROVE  OnItsWay'
BY DEF OnItsWay

(* A step of one request is no step of the others.                         *)
LEMMA OthersStay ==
  ASSUME TypeOK, NEW r \in Requests, (Go(r) /\ type' = type) \/ End(r)
  PROVE  \A q \in Requests \ {r} : (Preclicks(q)' <=> Preclicks(q)) /\ step'[q] = step[q]
BY DEF TypeOK, Go, End, Preclicks

(* The four ways in which a step keeps the sum of a package small: nothing *)
(* is added, an unchecked request is, a pending pre-click is counted, or   *)
(* nothing has been given that was not lost.                               *)
LEMMA SumsStep ==
  ASSUME IInv, NEW r \in Requests,
         given' \in [Pkgs -> Nat], blind' \in Nat, lost' \in Nat,
         \A p \in Pkgs :
           \/ /\ given'[p] = given[p] /\ Pending(p)' \subseteq Pending(p)
              /\ blind' >= blind /\ lost' >= lost
           \/ /\ given'[p] = given[p] /\ Pending(p)' \subseteq Pending(p) \cup {r}
              /\ blind' = blind + 1 /\ lost' = lost
           \/ /\ given'[p] = given[p] + 1 /\ r \in Pending(p) /\ Pending(p)' \subseteq Pending(p) \ {r}
              /\ blind' = blind /\ lost' >= lost
           \/ given'[p] <= lost'
  PROVE  Sums'
<1> SUFFICES ASSUME NEW p \in Pkgs
             PROVE  given'[p] + Cardinality(Pending(p)') <= Cardinality(Requests) + blind' + lost'
  BY DEF Sums
<1>1. IsFiniteSet(Requests) /\ Cardinality(Requests) \in Nat BY FrequencyAssumption, FS_CardinalityType
<1>2. IsFiniteSet(Pending(p)) /\ Cardinality(Pending(p)) \in Nat
  BY <1>1, FS_Subset, FS_CardinalityType DEF Pending
<1>3. /\ IsFiniteSet(Pending(p)') /\ Cardinality(Pending(p)') \in Nat
      /\ Cardinality(Pending(p)') <= Cardinality(Requests)
  <2>1. Pending(p)' \subseteq Requests BY DEF Pending
  <2> QED BY <1>1, <2>1, FS_Subset, FS_CardinalityType
<1>4. given[p] + Cardinality(Pending(p)) <= Cardinality(Requests) + blind + lost
  BY DEF IInv, Sums
<1>5. given[p] \in Nat /\ given'[p] \in Nat /\ blind \in Nat /\ lost \in Nat BY DEF IInv, TypeOK
<1>6. CASE Pending(p)' \subseteq Pending(p) /\ given'[p] = given[p] /\ blind' >= blind /\ lost' >= lost
  <2>1. Cardinality(Pending(p)') <= Cardinality(Pending(p)) BY <1>2, <1>6, FS_Subset
  <2> QED BY <1>1, <1>2, <1>3, <1>4, <1>5, <1>6, <2>1
<1>7. CASE /\ given'[p] = given[p] /\ Pending(p)' \subseteq Pending(p) \cup {r}
           /\ blind' = blind + 1 /\ lost' = lost
  <2> DEFINE P == Pending(p)
  <2>3. IsFiniteSet(P) /\ Cardinality(P) \in Nat BY <1>2
  <2>4. IsFiniteSet(P \cup {r}) /\ Cardinality(P \cup {r}) \in {Cardinality(P), Cardinality(P) + 1}
    <3> HIDE DEF P
    <3> QED BY <2>3, FS_AddElement
  <2>1. /\ IsFiniteSet(Pending(p) \cup {r})
        /\ Cardinality(Pending(p) \cup {r}) <= Cardinality(Pending(p)) + 1
        /\ Cardinality(Pending(p) \cup {r}) \in Nat
    BY <2>3, <2>4
  <2>2. Cardinality(Pending(p)') <= Cardinality(Pending(p) \cup {r}) BY <1>7, <2>1, FS_Subset
  <2> QED BY <1>1, <1>2, <1>3, <1>4, <1>5, <1>7, <2>1, <2>2
<1>8. CASE /\ given'[p] = given[p] + 1 /\ r \in Pending(p) /\ Pending(p)' \subseteq Pending(p) \ {r}
           /\ blind' = blind /\ lost' >= lost
  <2>1. /\ IsFiniteSet(Pending(p) \ {r})
        /\ Cardinality(Pending(p) \ {r}) = Cardinality(Pending(p)) - 1
    BY <1>2, <1>8, FS_RemoveElement
  <2>2. Cardinality(Pending(p)') <= Cardinality(Pending(p) \ {r}) BY <1>8, <2>1, FS_Subset
  <2> QED BY <1>1, <1>2, <1>3, <1>4, <1>5, <1>8, <2>1, <2>2
<1>9. CASE given'[p] <= lost' BY <1>1, <1>3, <1>5, <1>9
<1> QED BY <1>6, <1>7, <1>8, <1>9

(* A step that goes on without reading or finding anything adds nothing.   *)
LEMMA GoPending ==
  ASSUME TypeOK, NEW r \in Requests, Go(r), type' = type,
         key' = key, capped' = capped, found' = found, NEW p \in Pkgs
  PROVE  Pending(p)' \subseteq Pending(p)
<1>1. \A q \in Requests : Preclicks(q)' <=> Preclicks(q) BY DEF Go, Preclicks
<1>2. \A q \in Requests : step'[q] <= 6 => step[q] <= 6 BY DEF Go, TypeOK
<1> QED BY <1>1, <1>2 DEF Pending

(* A request that ends has nothing pending.                                *)
LEMMA EndPending ==
  ASSUME TypeOK, NEW r \in Requests, End(r), NEW p \in Pkgs
  PROVE  Pending(p)' \subseteq Pending(p)
<1>1. ~Preclicks(r)' BY HandlersAreWhole DEF End, Preclicks, TypeOK, Handlers
<1>2. \A q \in Requests \ {r} : /\ Preclicks(q)' <=> Preclicks(q)
                                /\ step'[q] = step[q] /\ found'[q] = found[q]
                                /\ key'[q] = key[q] /\ capped'[q] = capped[q]
  BY DEF End, Preclicks, TypeOK
<1> QED BY <1>1, <1>2 DEF Pending

-----------------------------------------------------------------------------
(* The steps. *)

(* What a step that touches neither redis nor the history of the day       *)
(* leaves alone.                                                           *)
Quiet == UNCHANGED <<redis, history>>

(* A quiet step keeps the invariant if it keeps the types of the request   *)
(* and leaves nothing new pending.                                         *)
LEMMA QuietStep ==
  ASSUME IInv, NEW r \in Requests, Quiet, PlaceTypes', ContextTypes', ReadTypes', Fresh',
         \A p \in Pkgs : Pending(p)' \subseteq Pending(p), expire[r] = None,
         \A q \in Requests \ {r} : (Preclicks(q)' <=> Preclicks(q)) /\ step'[q] = step[q]
  PROVE  IInv'
<1> USE DEF Quiet, redis, history
<1>1. StoreTypes' BY TypeParts DEF IInv, StoreTypes
<1>2. TypeOK' BY <1>1, TypeParts, PTL DEF IInv
<1>3. Counted' BY DEF IInv, Counted
<1>4. Dies' /\ OnItsWay' BY OthersOnTheirWay DEF IInv, Dies, Dead
<1>5. Sums'
  <2>1. given' \in [Pkgs -> Nat] /\ blind' \in Nat /\ lost' \in Nat /\ blind' >= blind /\ lost' >= lost
    BY DEF IInv, TypeOK
  <2> QED BY <2>1, SumsStep
<1> QED BY <1>2, <1>3, <1>4, <1>5 DEF IInv

(* A quiet step that only goes on keeps the invariant (Refuse, Caps...).   *)
LEMMA GoStep ==
  ASSUME IInv, NEW r \in Requests, Quiet, NEW s, s # "answer", At(r, s), expire[r] = None, Go(r),
         ContextTypes', UNCHANGED <<type, askedSlot, key, capped, found>>, ReadTypes'
  PROVE  IInv'
<1>1. PlaceTypes' /\ handler' = handler BY GoPlaces, TypeParts DEF IInv
<1>2. \A p \in Pkgs : Pending(p)' \subseteq Pending(p) BY GoPending DEF IInv
<1>3. Fresh' BY <1>1 DEF IInv, Fresh
<1>4. \A q \in Requests \ {r} : (Preclicks(q)' <=> Preclicks(q)) /\ step'[q] = step[q]
  BY OthersStay DEF IInv
<1> QED BY <1>1, <1>2, <1>3, <1>4, QuietStep

(* A quiet step that ends the request keeps the invariant.                 *)
LEMMA EndStep == ASSUME IInv, NEW r \in Requests, Quiet, expire[r] = None, End(r) PROVE IInv'
<1>1. PlaceTypes' /\ ContextTypes' /\ ReadTypes' BY EndTypes, TypeParts DEF IInv
<1>2. \A p \in Pkgs : Pending(p)' \subseteq Pending(p) BY EndPending DEF IInv
<1>3. Fresh'
  <2>1. Idle \notin VideoHandlers BY HandlersAreWhole DEF VideoHandlers, Handlers
  <2> QED BY <2>1 DEF End, IInv, Fresh, TypeOK
<1>4. \A q \in Requests \ {r} : (Preclicks(q)' <=> Preclicks(q)) /\ step'[q] = step[q]
  BY OthersStay DEF IInv
<1> QED BY <1>1, <1>2, <1>3, <1>4, QuietStep

(* A new request has read and found nothing (NewContext).                  *)
LEMMA NewContextStep == ASSUME IInv, NEW r \in Requests, NewContext(r) PROVE IInv'
<1> USE DEF NewContext, read
<1>1. PICK h \in Serves[r], t \in ClientTypes : \E s \in (IF h \in VideoHandlers THEN Slots ELSE {NoSlot}) :
       /\ handler' = [handler EXCEPT ![r] = h]
       /\ asked' = [asked EXCEPT ![r] = t] /\ type' = [type EXCEPT ![r] = t]
       /\ askedSlot' = [askedSlot EXCEPT ![r] = s] /\ slot' = [slot EXCEPT ![r] = s]
  OBVIOUS
<1>2. h \in Handlers /\ t \in Types BY FrequencyAssumption
<1>3. PlaceTypes' BY <1>1, <1>2, HandlersAreWhole DEF IInv, TypeOK, PlaceTypes, Whole
<1>4. ContextTypes' BY <1>1, <1>2 DEF IInv, TypeOK, ContextTypes
<1>5. ReadTypes' BY DEF IInv, TypeOK, ReadTypes
<1>6. Fresh'
  <2>1. handler'[r] = h /\ h # Idle BY <1>1, <1>2, HandlersAreWhole DEF IInv, TypeOK
  <2>2. h \in VideoHandlers => askedSlot'[r] \in Slots BY <1>1 DEF IInv, TypeOK
  <2>3. \A q \in Requests \ {r} : handler'[q] = handler[q] /\ askedSlot'[q] = askedSlot[q]
    BY <1>1 DEF IInv, TypeOK
  <2> QED BY <2>1, <2>2, <2>3 DEF IInv, Fresh
<1>7. \A p \in Pkgs : Pending(p)' \subseteq Pending(p)
  <2>1. key[r] = None /\ found[r] = {} BY DEF IInv, Fresh
  <2>2. None # "wugan" BY FrequencyAssumption DEF Types
  <2>3. \A q \in Requests \ {r} : (Preclicks(q)' <=> Preclicks(q)) /\ step'[q] = step[q]
    BY <1>1 DEF Preclicks, IInv, TypeOK
  <2> QED BY <2>1, <2>2, <2>3 DEF Pending
<1>8. Quiet BY DEF Quiet
<1>9. expire[r] = None
  <2>1. ~Preclicks(r) BY HandlersAreWhole DEF Preclicks, Handlers
  <2> QED BY <2>1 DEF IInv, OnItsWay
<1>10. \A q \in Requests \ {r} : (Preclicks(q)' <=> Preclicks(q)) /\ step'[q] = step[q]
  BY <1>1 DEF Preclicks, IInv, TypeOK
<1> QED BY <1>3, <1>4, <1>5, <1>6, <1>7, <1>8, <1>9, <1>10, QuietStep

(* The tests that refuse, and a page ad of another type.                   *)
LEMMA RefuseStep == ASSUME IInv, NEW r \in Requests, Refuse(r) \/ OnlyOther(r) PROVE IInv'
<1> USE DEF Refuse, OnlyOther, context, read
<1>1. Quiet BY DEF Quiet
<1>2. At(r, "refuse") \/ At(r, "onlyOther") OBVIOUS
<1>3. expire[r] = None BY <1>2, NotSending
<1>4. CASE End(r) BY <1>1, <1>3, <1>4, EndStep
<1>5. CASE Go(r) /\ UNCHANGED <<context, read>>
  <2>1. ContextTypes' /\ ReadTypes' BY <1>5 DEF IInv, TypeOK, ContextTypes, ReadTypes
  <2> QED BY <1>1, <1>2, <1>3, <1>5, <2>1, GoStep
<1> QED BY <1>4, <1>5

(* A slot is replaced by a brother (getVideoTplAndUpdateSlot).             *)
LEMMA SlotStep == ASSUME IInv, NEW r \in Requests, getVideoTplAndUpdateSlot(r) PROVE IInv'
<1> USE DEF getVideoTplAndUpdateSlot, read
<1>1. Quiet BY DEF Quiet
<1>2. expire[r] = None BY NotSending
<1>3. CASE End(r) BY <1>1, <1>2, <1>3, EndStep
<1>4. CASE ~End(r)
  <2>1. Go(r) /\ UNCHANGED <<type, askedSlot, key, capped, found>> BY <1>4
  <2>2. ContextTypes' /\ ReadTypes' BY <1>4 DEF IInv, TypeOK, ContextTypes, ReadTypes
  <2> QED BY <1>1, <1>2, <2>1, <2>2, GoStep
<1> QED BY <1>3, <1>4

(* The caps of a rewarded slot (videoAdHandler and others).                *)
LEMMA CapsStep == ASSUME IInv, NEW r \in Requests, Caps(r) PROVE IInv'
<1> USE DEF Caps, context, read
<1>1. Quiet BY DEF Quiet
<1>2. expire[r] = None BY NotSending
<1>3. CASE End(r) BY <1>1, <1>2, <1>3, EndStep
<1>4. CASE Go(r) /\ UNCHANGED <<context, read>>
  <2>1. ContextTypes' /\ ReadTypes' BY <1>4 DEF IInv, TypeOK, ContextTypes, ReadTypes
  <2> QED BY <1>1, <1>2, <1>4, <2>1, GoStep
<1> QED BY <1>3, <1>4

(* The ad type is set by handlers that count no pre-clicks.                *)
LEMMA SetAdTypeStep == ASSUME IInv, NEW r \in Requests, SetAdType(r) PROVE IInv'
<1> USE DEF SetAdType, read
<1>1. Quiet BY DEF Quiet
<1>2. PICK t \in TypesAt(r) : type' = [type EXCEPT ![r] = t] OBVIOUS
<1>3. PICK s \in {"type15", "type7", "type6", "typeOfSlot"} : At(r, s) BY DEF TypesAt
<1>4. t \in Types BY DEF TypesAt, Types, IInv, TypeOK
<1>5. ContextTypes' BY <1>2, <1>4 DEF IInv, TypeOK, ContextTypes
<1>6. ReadTypes' BY DEF IInv, TypeOK, ReadTypes
<1>7. PlaceTypes' /\ handler' = handler BY <1>3, GoPlaces, TypeParts DEF IInv
<1>8. Fresh' BY <1>7 DEF IInv, Fresh
<1>9. ~Preclicks(r)' BY <1>3, <1>7, PreclickHandlers DEF Preclicks
<1>10. \A q \in Requests \ {r} : (Preclicks(q)' <=> Preclicks(q)) /\ step'[q] = step[q]
  BY <1>2 DEF Go, Preclicks, IInv, TypeOK
<1>11. \A p \in Pkgs : Pending(p)' \subseteq Pending(p) BY <1>9, <1>10 DEF Pending
<1>12. expire[r] = None BY <1>3, NotSending
<1> QED BY <1>1, <1>5, <1>6, <1>7, <1>8, <1>10, <1>11, <1>12, QuietStep

(* The answer ends the request.                                            *)
LEMMA AnswerStep == ASSUME IInv, NEW r \in Requests, Answer(r) PROVE IInv'
<1>1. expire[r] = None BY NotSending DEF Answer
<1> QED BY <1>1, EndStep DEF Answer, Quiet

(* A request that reads a free package finds nothing given of it but what  *)
(* was lost (GetFreq).                                                     *)
LEMMA GetFreqStep == ASSUME IInv, NEW r \in Requests, GetFreq(r) PROVE IInv'
<1> USE DEF GetFreq, redis, context, history
<1>1. PlaceTypes' /\ handler' = handler /\ step' = [step EXCEPT ![r] = step[r] + 1]
  BY GoPlaces, TypeParts DEF IInv
<1>2. handler[r] # Idle BY DEF At, Idle
<1>3. \/ /\ key' = [key EXCEPT ![r] = type[r]]
         /\ capped' = [capped EXCEPT ![r] =
              IF type[r] = "wugan" THEN {p \in Pkgs : ~PreClickInFreqCap(p)} ELSE {}]
      \/ UNCHANGED <<key, capped>>
  OBVIOUS
<1>4. ReadTypes'
  <2>1. key' \in [Requests -> Types \cup {None}] /\ capped' \in [Requests -> SUBSET Pkgs]
    <3>1. key \in [Requests -> Types \cup {None}] /\ capped \in [Requests -> SUBSET Pkgs]
      BY DEF IInv, TypeOK
    <3>2. type[r] \in Types BY DEF IInv, TypeOK
    <3> HIDE DEF GetFreq
    <3>3. key' \in [Requests -> Types \cup {None}]
      <4>1. CASE key' = [key EXCEPT ![r] = type[r]] BY ONLY <3>1, <3>2, <4>1
      <4>2. CASE UNCHANGED key BY ONLY <3>1, <4>2
      <4> QED BY <1>3, <4>1, <4>2
    <3>4. capped' \in [Requests -> SUBSET Pkgs]
      <4> DEFINE c == IF type[r] = "wugan" THEN {p \in Pkgs : ~PreClickInFreqCap(p)} ELSE {}
      <4>1. c \in SUBSET Pkgs OBVIOUS
      <4>2. CASE capped' = [capped EXCEPT ![r] = c]
        <5> HIDE DEF c
        <5> QED BY ONLY <3>1, <4>1, <4>2
      <4>3. CASE UNCHANGED capped BY ONLY <3>1, <4>3
      <4> QED BY <1>3, <4>2, <4>3
    <3> QED BY <3>3, <3>4
  <2>2. found' \in [Requests -> SUBSET Pkgs] /\ over' \in [Requests -> SUBSET Slots]
    BY DEF IInv, TypeOK
  <2>3. watched' \in [Requests -> Nat]
    <3>1. CASE UNCHANGED watched BY <3>1 DEF IInv, TypeOK
    <3>2. CASE ~UNCHANGED watched
      <4>1. handler[r] \in VideoHandlers => askedSlot[r] \in Slots BY DEF IInv, Fresh
      <4>2. asked[r] \in Types BY DEF IInv, TypeOK
      <4>3. handler[r] \in VideoHandlers => complete[<<asked[r], askedSlot[r]>>] \in Nat
        BY <4>1, <4>2 DEF IInv, TypeOK
      <4> QED BY <3>2, <4>3 DEF IInv, TypeOK
    <3> QED BY <3>1, <3>2
  <2> QED BY <2>1, <2>2, <2>3 DEF ReadTypes
<1>5. StoreTypes' /\ ContextTypes' BY DEF IInv, TypeOK, StoreTypes, ContextTypes
<1>6. TypeOK' BY <1>1, <1>4, <1>5, TypeParts, PTL
<1>7. Fresh' BY <1>1, <1>2, <1>3 DEF IInv, Fresh, TypeOK
<1>8. Counted' /\ Dies' /\ OnItsWay'
  <2>1. expire[r] = None BY NotSending
  <2>2. \A q \in Requests \ {r} : (Preclicks(q)' <=> Preclicks(q)) /\ step'[q] = step[q]
    BY OthersStay DEF IInv
  <2>3. OnItsWay' BY <2>1, <2>2, OthersOnTheirWay DEF IInv
  <2> QED BY <2>3 DEF IInv, Counted, Dies, Dead
<1>9. ASSUME NEW p \in Pkgs PROVE given'[p] <= lost' \/ Pending(p)' \subseteq Pending(p)
  <2>1. CASE PreClickInFreqCap(p)
    <3>1. pfreq[p] = 0 BY <2>1 DEF PreClickInFreqCap, IInv, TypeOK
    <3> QED BY <3>1 DEF IInv, Counted, TypeOK
  <2>2. CASE ~PreClickInFreqCap(p)
    <3>1. \A q \in Requests : Preclicks(q)' <=> Preclicks(q) BY <1>1 DEF Preclicks
    <3>2. \A q \in Requests : step'[q] <= 6 => step[q] <= 6 BY <1>1 DEF IInv, TypeOK
    <3>3. \A q \in Requests : key'[q] = "wugan" /\ p \notin capped'[q]
                                => key[q] = "wugan" /\ p \notin capped[q]
      BY <1>3, <2>2 DEF IInv, TypeOK
    <3> QED BY <3>1, <3>2, <3>3 DEF Pending
  <2> QED BY <2>1, <2>2
<1>10. Sums'
  <2>1. given' \in [Pkgs -> Nat] /\ blind' \in Nat /\ lost' \in Nat /\ blind' >= blind /\ lost' >= lost
        /\ given' = given
    BY DEF IInv, TypeOK
  <2> QED BY <1>9, <2>1, SumsStep
<1> QED BY <1>6, <1>7, <1>8, <1>10 DEF IInv

(* Offers are found: what is not held against the map is blind.            *)
LEMMA FindStep ==
  ASSUME IInv, NEW r \in Requests, NEW s \in {"search", "fuyu"}, At(r, s), Go(r),
         NEW P \in SUBSET Pkgs, found' = [found EXCEPT ![r] = P],
         UNCHANGED <<redis, context, key, capped, watched, over, given, lost, loose>>,
         \/ blind' = blind + 1
         \/ /\ blind' = blind
            /\ ~Preclicks(r) \/ (key[r] = "wugan" /\ P \cap capped[r] = {})
  PROVE  IInv'
<1> USE DEF redis, context
<1>1. PlaceTypes' /\ handler' = handler /\ step' = [step EXCEPT ![r] = step[r] + 1]
  BY GoPlaces, TypeParts DEF IInv
<1>2. handler[r] # Idle BY DEF At, Idle
<1>3. ReadTypes' BY DEF IInv, TypeOK, ReadTypes
<1>4. StoreTypes' /\ ContextTypes' BY DEF IInv, TypeOK, StoreTypes, ContextTypes
<1>5. TypeOK' BY <1>1, <1>3, <1>4, TypeParts, PTL
<1>6. Fresh' BY <1>1, <1>2 DEF IInv, Fresh, TypeOK
<1>7. Counted' /\ Dies' /\ OnItsWay'
  <2>1. expire[r] = None BY NotSending
  <2>2. \A q \in Requests \ {r} : (Preclicks(q)' <=> Preclicks(q)) /\ step'[q] = step[q]
    BY OthersStay DEF IInv
  <2>3. OnItsWay' BY <2>1, <2>2, OthersOnTheirWay DEF IInv
  <2> QED BY <2>3 DEF IInv, Counted, Dies, Dead
<1>8. \A q \in Requests : Preclicks(q)' <=> Preclicks(q) BY <1>1 DEF Preclicks
<1>9. \A q \in Requests : step'[q] <= 6 => step[q] <= 6 BY <1>1 DEF IInv, TypeOK
<1>10. \A p \in Pkgs : Pending(p)' \subseteq Pending(p) \cup {r}
  BY <1>8, <1>9 DEF Pending, IInv, TypeOK
<1>11. ASSUME blind' = blind, NEW p \in Pkgs PROVE Pending(p)' \subseteq Pending(p)
  <2>1. Preclicks(r) => step[r] <= 6 BY PreclickHandlers DEF Preclicks, IInv, TypeOK
  <2>2. r \in Pending(p)' => r \in Pending(p)
    <3>1. CASE ~Preclicks(r) BY <1>8, <3>1 DEF Pending
    <3>2. CASE Preclicks(r) /\ p \in P
      <4>1. key[r] = "wugan" /\ p \notin capped[r] BY <1>11, <3>2 DEF IInv, TypeOK
      <4> QED BY <2>1, <3>2, <4>1 DEF Pending
    <3>3. CASE Preclicks(r) /\ p \notin P
      <4>1. found'[r] = P BY DEF IInv, TypeOK
      <4> QED BY <2>1, <3>3, <4>1 DEF Pending
    <3> QED BY <3>1, <3>2, <3>3
  <2> QED BY <1>10, <1>11, <2>2
<1>12. Sums'
  <2>1. given' = given /\ given' \in [Pkgs -> Nat] /\ blind' \in Nat /\ lost' \in Nat /\ lost' = lost
    BY DEF IInv, TypeOK
  <2>2. lost' >= lost /\ (blind' = blind => blind' >= blind) BY <2>1 DEF IInv, TypeOK
  <2>3. CASE blind' = blind BY <1>11, <2>1, <2>2, <2>3, SumsStep
  <2>4. CASE blind' = blind + 1 BY <1>10, <2>1, <2>4, SumsStep
  <2> QED BY <2>3, <2>4
<1> QED BY <1>5, <1>6, <1>7, <1>12 DEF IInv

(* The search (retrievalHandler, wuganHandler and the others).             *)
LEMMA SearchStep == ASSUME IInv, NEW r \in Requests, Search(r) PROVE IInv'
<1>1. At(r, "search") BY DEF Search
<1>2. CASE \E P \in SUBSET Pkgs \ {{}} :
          /\ Preclicks(r) => P \cap capped[r] = {}
          /\ found' = [found EXCEPT ![r] = P]
          /\ IF Unchecked(r) THEN blind < MaxBlind /\ blind' = blind + 1 ELSE UNCHANGED blind
          /\ Go(r) /\ UNCHANGED <<context, key, capped, watched, over>>
  <2>1. PICK P \in SUBSET Pkgs \ {{}} :
          /\ Preclicks(r) => P \cap capped[r] = {}
          /\ found' = [found EXCEPT ![r] = P]
          /\ IF Unchecked(r) THEN blind < MaxBlind /\ blind' = blind + 1 ELSE UNCHANGED blind
          /\ Go(r) /\ UNCHANGED <<context, key, capped, watched, over>>
    BY <1>2
  <2>2. UNCHANGED <<redis, given, lost, loose>> BY DEF Search
  <2>3. \/ blind' = blind + 1
        \/ blind' = blind /\ (~Preclicks(r) \/ (key[r] = "wugan" /\ P \cap capped[r] = {}))
    BY <2>1 DEF Unchecked
  <2> QED BY <1>1, <2>1, <2>2, <2>3, FindStep
<1>3. CASE ~(\E P \in SUBSET Pkgs \ {{}} :
          /\ Preclicks(r) => P \cap capped[r] = {}
          /\ found' = [found EXCEPT ![r] = P]
          /\ IF Unchecked(r) THEN blind < MaxBlind /\ blind' = blind + 1 ELSE UNCHANGED blind
          /\ Go(r) /\ UNCHANGED <<context, key, capped, watched, over>>)
  <2>1. /\ IF Preclicks(r) THEN Go(r) /\ UNCHANGED <<context, read>> ELSE End(r)
        /\ Quiet
    BY <1>3 DEF Search, Quiet, history
  <2>4. expire[r] = None BY <1>1, NotSending
  <2>2. CASE End(r) BY <2>1, <2>2, <2>4, EndStep
  <2>3. CASE Go(r) /\ UNCHANGED <<context, read>>
    <3>1. ContextTypes' /\ ReadTypes' /\ UNCHANGED <<type, askedSlot, key, capped, found>>
      BY <2>3 DEF context, read, IInv, TypeOK, ContextTypes, ReadTypes
    <3> QED BY <1>1, <2>1, <2>3, <2>4, <3>1, GoStep
  <2> QED BY <2>1, <2>2, <2>3
<1> QED BY <1>2, <1>3

(* The fuyu offers are not held against the map (retrievalHandler).        *)
LEMMA FuyuStep == ASSUME IInv, NEW r \in Requests, Fuyu(r) PROVE IInv'
<1>1. At(r, "fuyu") BY DEF Fuyu
<1>5. expire[r] = None BY <1>1, NotSending
<1>2. CASE Go(r) /\ UNCHANGED <<context, read, blind>>
  <2>1. Quiet BY <1>2 DEF Fuyu, Quiet, history
  <2>2. ContextTypes' /\ ReadTypes' /\ UNCHANGED <<type, askedSlot, key, capped, found>>
    BY <1>2 DEF context, read, IInv, TypeOK, ContextTypes, ReadTypes
  <2> QED BY <1>1, <1>2, <1>5, <2>1, <2>2, GoStep
<1>3. CASE /\ \E P \in SUBSET Pkgs \ {{}} : found' = [found EXCEPT ![r] = P]
           /\ blind' = blind + 1
           /\ Go(r) /\ UNCHANGED <<context, key, capped, watched, over>>
  <2>1. UNCHANGED <<redis, given, lost, loose>> BY DEF Fuyu
  <2> QED BY <1>1, <1>3, <2>1, FindStep
<1>4. CASE End(r) /\ UNCHANGED blind
  <2>1. Quiet BY <1>4 DEF Fuyu, Quiet, history
  <2> QED BY <1>4, <1>5, <2>1, EndStep
<1> QED BY <1>2, <1>3, <1>4 DEF Fuyu

(* The expiry a request computes ends with the day (IncrPreClickFreq).     *)
LEMMA IncrPreClickFreqStep == ASSUME IInv, NEW r \in Requests, IncrPreClickFreq(r) PROVE IInv'
<1> USE DEF IncrPreClickFreq, context, read, history
<1>1. PlaceTypes' /\ handler' = handler /\ step' = [step EXCEPT ![r] = step[r] + 1]
  BY GoPlaces, TypeParts DEF IInv
<1>2. ContextTypes' /\ ReadTypes' BY DEF IInv, TypeOK, ContextTypes, ReadTypes
<1>3. expire[r] = None BY NotSending
<1>4. \/ UNCHANGED expire
      \/ Preclicks(r) /\ \E e \in Expires : expire' = [expire EXCEPT ![r] = e]
  OBVIOUS
<1>5. \A e \in Expires : e \in 1..Day /\ e <= Day - clock BY ExpiresInDay DEF IInv, TypeOK
<1>6. expire' \in [Requests -> 1..Day \cup {None}] BY <1>4, <1>5 DEF IInv, TypeOK
<1>7. TypeOK'
  <2>1. StoreTypes' BY <1>6 DEF IInv, TypeOK, StoreTypes
  <2> QED BY <1>1, <1>2, <2>1, TypeParts, PTL
<1>8. Fresh' /\ Counted' /\ Dies' BY <1>1 DEF IInv, Fresh, Counted, Dies, Dead
<1>9. \A q \in Requests \ {r} : (Preclicks(q)' <=> Preclicks(q)) /\ step'[q] = step[q]
  BY OthersStay DEF IInv
<1>10. OnItsWay'
  <2>1. \A q \in Requests \ {r} : expire'[q] = expire[q] BY <1>4 DEF IInv, TypeOK
  <2>2. expire'[r] # None => step'[r] = 6 /\ Preclicks(r)' /\ expire'[r] <= Day - clock
    <3>1. CASE UNCHANGED expire BY <1>3, <3>1
    <3>2. CASE Preclicks(r) /\ \E e \in Expires : expire' = [expire EXCEPT ![r] = e]
      <4>1. step[r] = 5 BY <3>2, PreclickHandlers DEF Preclicks
      <4>2. Preclicks(r)' BY <1>1, <3>2 DEF Preclicks
      <4> QED BY <1>1, <1>5, <3>2, <4>1, <4>2 DEF IInv, TypeOK
    <3> QED BY <1>4, <3>1, <3>2
  <2> QED BY <1>9, <2>1, <2>2 DEF IInv, OnItsWay
<1>11. Sums'
  <2>1. \A p \in Pkgs : Pending(p)' \subseteq Pending(p) BY GoPending DEF IInv
  <2>2. given' \in [Pkgs -> Nat] /\ blind' \in Nat /\ lost' \in Nat /\ blind' >= blind /\ lost' >= lost
    BY DEF IInv, TypeOK
  <2> QED BY <2>1, <2>2, SumsStep
<1> QED BY <1>7, <1>8, <1>10, <1>11 DEF IInv

(* Counting takes the request off the pending ones of what it counts; what *)
(* is not written is lost (IncrFreq).                                      *)
LEMMA IncrFreqStep == ASSUME IInv, NEW r \in Requests, IncrFreq(r) PROVE IInv'
<1> USE DEF IncrFreq, context, read
<1>1. PlaceTypes' /\ handler' = handler /\ step' = [step EXCEPT ![r] = step[r] + 1]
  BY GoPlaces, TypeParts DEF IInv
<1>2. ContextTypes' /\ ReadTypes' BY DEF IInv, TypeOK, ContextTypes, ReadTypes
<1>3. Fresh' BY <1>1 DEF IInv, Fresh
<1>4. \A p \in Pkgs : Pending(p)' \subseteq Pending(p) BY GoPending DEF IInv
<1>5. /\ expire' \in [Requests -> 1..Day \cup {None}] /\ delayed' \subseteq Requests
      /\ expire'[r] = None /\ \A q \in Requests \ {r} : expire'[q] = expire[q]
  BY DEF IInv, TypeOK
<1>6. OnItsWay'
  <2>1. \A q \in Requests \ {r} : (Preclicks(q)' <=> Preclicks(q)) /\ step'[q] = step[q]
    BY OthersStay DEF IInv
  <2> QED BY <1>5, <2>1 DEF IInv, OnItsWay
<1>7. blind' = blind /\ blind' \in Nat /\ blind' >= blind BY DEF IInv, TypeOK
<1>8. CASE expire[r] # None
  <2>1. PICK written \in SUBSET found[r] :
          /\ pfreq' = [p \in Pkgs |-> IF p \in written THEN pfreq[p] + 1 ELSE pfreq[p]]
          /\ \/ /\ written = found[r]
                /\ ttl' = expire[r] /\ loose' = (r \in delayed)
                /\ UNCHANGED lost
             \/ /\ lost < MaxLost /\ lost' = lost + 1
                /\ loose' = (loose \/ (ttl = None /\ written # {}))
                /\ UNCHANGED ttl
    BY <1>8
  <2>2. given' = [p \in Pkgs |-> IF p \in found[r] THEN given[p] + 1 ELSE given[p]] BY <1>8
  <2>3. given' \in [Pkgs -> Nat] /\ pfreq' \in [Pkgs -> Nat] /\ lost' \in Nat /\ lost' >= lost
    BY <2>1, <2>2 DEF IInv, TypeOK
  <2>4. ttl' \in 1..Day \cup {None} /\ loose' \in BOOLEAN
    <3>1. ttl' \in 1..Day \cup {None} BY <2>1 DEF IInv, TypeOK
    <3>2. CASE loose' = (r \in delayed)
      <4>1. loose' \in BOOLEAN BY ONLY <3>2, SMT
      <4> QED BY <3>1, <4>1
    <3>3. CASE loose' = (loose \/ (ttl = None /\ written # {}))
      <4>1. loose' \in BOOLEAN BY <3>3, Zenon
      <4> QED BY <3>1, <4>1
    <3> QED BY <2>1, <3>2, <3>3
  <2>5. TypeOK'
    <3>1. StoreTypes' BY <1>5, <2>3, <2>4 DEF IInv, TypeOK, StoreTypes
    <3> QED BY <1>1, <1>2, <3>1, TypeParts, PTL
  <2>6. Dies'
    <3>1. CASE ttl' = expire[r] /\ loose' = (r \in delayed)
      <4>1. r \in delayed => loose' BY <3>1, Zenon
      <4>2. r \notin delayed => ttl' # None /\ ttl' <= Day - clock
        BY <1>8, <3>1 DEF IInv, OnItsWay
      <4> QED BY <4>1, <4>2 DEF Dies
    <3>2. CASE UNCHANGED ttl /\ loose' = (loose \/ (ttl = None /\ written # {}))
      <4>1. loose \/ (ttl = None /\ written # {}) => loose' BY <3>2, Zenon
      <4>2. written = {} => UNCHANGED pfreq BY <2>1 DEF IInv, TypeOK
      <4> QED BY <3>2, <4>1, <4>2 DEF IInv, Dies, Dead
    <3> QED BY <2>1, <3>1, <3>2
  <2>7. Counted'
    <3>1. SUFFICES ASSUME NEW p \in Pkgs PROVE given'[p] <= pfreq'[p] + lost' BY DEF Counted
    <3>2. /\ given[p] <= pfreq[p] + lost /\ given[p] \in Nat /\ pfreq[p] \in Nat /\ lost \in Nat
      BY DEF IInv, Counted, TypeOK
    <3>3. CASE p \in written BY <2>1, <2>2, <2>3, <3>2, <3>3
    <3>4. CASE p \notin found[r] BY <2>1, <2>2, <2>3, <3>2, <3>4
    <3>5. CASE p \in found[r] \ written
      <4>1. lost' = lost + 1 BY <2>1, <3>5
      <4> QED BY <2>1, <2>2, <3>2, <3>5, <4>1
    <3> QED BY <3>3, <3>4, <3>5
  <2>8. ASSUME NEW p \in found[r] PROVE r \in Pending(p) /\ r \notin Pending(p)'
    <3>1. step[r] = 6 /\ Preclicks(r) BY <1>8 DEF IInv, OnItsWay
    <3>2. step'[r] = 7 BY <1>1, <3>1 DEF IInv, TypeOK
    <3> QED BY <3>1, <3>2 DEF Pending
  <2>9. Sums'
    <3>1. ASSUME NEW p \in Pkgs
          PROVE  \/ given'[p] = given[p] /\ Pending(p)' \subseteq Pending(p)
                 \/ given'[p] = given[p] + 1 /\ r \in Pending(p) /\ Pending(p)' \subseteq Pending(p) \ {r}
      <4>1. CASE p \in found[r] BY <1>4, <2>2, <2>8, <4>1
      <4>2. CASE p \notin found[r] BY <1>4, <2>2, <4>2
      <4> QED BY <4>1, <4>2
    <3> QED BY <1>7, <2>3, <3>1, SumsStep
  <2> QED BY <1>3, <1>6, <2>5, <2>6, <2>7, <2>9 DEF IInv
<1>9. CASE expire[r] = None
  <2>1. UNCHANGED <<given, pfreq, ttl, lost, loose>> BY <1>9
  <2>2. TypeOK'
    <3>1. StoreTypes' BY <1>5, <1>7, <2>1 DEF IInv, TypeOK, StoreTypes
    <3> QED BY <1>1, <1>2, <3>1, TypeParts, PTL
  <2>3. Counted' /\ Dies' BY <2>1 DEF IInv, Counted, Dies, Dead
  <2>4. Sums'
    <3>1. given' \in [Pkgs -> Nat] /\ lost' \in Nat /\ lost' >= lost BY <2>1 DEF IInv, TypeOK
    <3> QED BY <1>4, <1>7, <2>1, <3>1, SumsStep
  <2> QED BY <1>3, <1>6, <2>2, <2>3, <2>4 DEF IInv
<1> QED BY <1>8, <1>9

(* When the key expires the day of its counts is over (Redis).             *)
LEMMA TickStep == ASSUME IInv, Tick PROVE IInv'
<1> USE DEF Tick, context, read, history
<1>1. PlaceTypes' /\ ContextTypes' /\ ReadTypes'
  BY DEF IInv, TypeOK, PlaceTypes, ContextTypes, ReadTypes
<1>2. Day \in Nat /\ Day >= 1 /\ None \notin Nat BY FrequencyAssumption
<1>3. clock \in 0..(Day - 1) /\ ttl \in 1..Day \cup {None}
  BY DEF IInv, TypeOK
<1>4. clock' = IF clock = Day - 1 THEN 0 ELSE clock + 1
  <2>1. CASE clock = Day - 1 BY <1>2, <2>1
  <2>2. CASE clock < Day - 1
    <3>1. clock + 1 \in Nat /\ clock + 1 < Day BY <1>2, <1>3, <2>2
    <3>2. (clock + 1) % Day = clock + 1 BY <1>2, <3>1
    <3> QED BY <1>3, <2>2, <3>2
  <2> QED BY <1>2, <1>3, <2>1, <2>2
<1>5. clock' \in 0..(Day - 1) BY <1>2, <1>3, <1>4
<1>6. ttl' \in 1..Day \cup {None} /\ loose' \in BOOLEAN /\ delayed' \subseteq Requests
  <2>1. CASE ttl = None \/ ttl = 1 BY <1>2, <2>1 DEF IInv, TypeOK
  <2>2. CASE ttl # None /\ ttl # 1 BY <1>2, <1>3, <2>2 DEF IInv, TypeOK
  <2> QED BY <2>1, <2>2
<1>7. Dies' /\ OnItsWay'
  <2>1. OnItsWay' BY DEF IInv, OnItsWay, Preclicks
  <2>2. CASE ttl = 1
    <3>1. Dead' BY <2>2 DEF Dead
    <3> QED BY <2>1, <3>1 DEF Dies
  <2>3. CASE ttl # 1
    <3>1. UNCHANGED <<pfreq, loose>> /\ (ttl = None => ttl' = None) BY <2>3
    <3>2. CASE loose \/ Dead BY <2>1, <3>1, <3>2 DEF Dies, Dead
    <3>3. CASE ttl # None /\ ttl <= Day - clock
      <4>1. ttl' = ttl - 1 /\ ttl' # None BY <1>2, <1>3, <2>3, <3>3
      <4>2. ttl' <= Day - clock' BY <1>2, <1>3, <1>4, <3>3, <4>1
      <4> QED BY <2>1, <4>1, <4>2 DEF Dies
    <3> QED BY <3>2, <3>3 DEF IInv, Dies
  <2> QED BY <2>1, <2>2, <2>3
<1>8. given' \in [Pkgs -> Nat] /\ pfreq' \in [Pkgs -> Nat] /\ blind' \in Nat /\ lost' \in Nat
  BY DEF IInv, TypeOK
<1>9. TypeOK'
  <2>1. StoreTypes' BY <1>5, <1>6, <1>8 DEF IInv, TypeOK, StoreTypes
  <2> QED BY <1>1, <2>1, TypeParts, PTL
<1>10. Fresh' BY DEF IInv, Fresh
<1>11. Counted' BY DEF IInv, Counted, TypeOK
<1>12. Sums'
  <2>1. CASE ttl = 1
    <3>1. \A p \in Pkgs : given'[p] = 0 /\ lost' = 0 BY <2>1
    <3>2. IsFiniteSet(Requests) BY FrequencyAssumption
    <3>3. ASSUME NEW p \in Pkgs
          PROVE  given'[p] + Cardinality(Pending(p)') <= Cardinality(Requests) + blind' + lost'
      <4>1. Pending(p)' \subseteq Requests BY DEF Pending
      <4>2. /\ Cardinality(Requests) \in Nat /\ Cardinality(Pending(p)') \in Nat
            /\ Cardinality(Pending(p)') <= Cardinality(Requests)
        BY <3>2, <4>1, FS_Subset, FS_CardinalityType
      <4> QED BY <1>8, <3>1, <4>2
    <3> QED BY <3>3 DEF Sums
  <2>2. CASE ttl # 1
    BY <2>2 DEF IInv, Sums, Pending, Preclicks
  <2> QED BY <2>1, <2>2
<1> QED BY <1>7, <1>9, <1>10, <1>11, <1>12 DEF IInv

(* A video that is watched to its end is no pre-click.                     *)
LEMMA CompleteStep == ASSUME IInv, Complete PROVE IInv'
<1> USE DEF Complete, context, read, history
<1>1. PICK s \in {t \in Slots : VideoFreqCap[t] # -1} :
        complete' = [complete EXCEPT ![<<"7", s>>] = complete[<<"7", s>>] + 1]
  OBVIOUS
<1>2. <<"7", s>> \in Types \X Slots BY DEF Types
<1>3. complete' \in [Types \X Slots -> Nat] BY <1>1, <1>2 DEF IInv, TypeOK
<1>4. TypeOK' BY <1>3 DEF IInv, TypeOK
<1>5. Fresh' /\ Counted' /\ Dies' /\ OnItsWay'
  BY DEF IInv, Fresh, Counted, Dies, Dead, OnItsWay, Preclicks
<1>6. Sums' BY DEF IInv, Sums, Pending, Preclicks
<1> QED BY <1>4, <1>5, <1>6 DEF IInv

(* Nothing has been read, given or lost before the first request.          *)
LEMMA InitIInv == Init => IInv
<1> SUFFICES ASSUME Init PROVE IInv
  OBVIOUS
<1> USE DEF Init
<1>1. Day \in Nat /\ Day >= 1 /\ IsFiniteSet(Requests) BY FrequencyAssumption
<1>2. TypeOK
  <2>1. expire \in [Requests -> 1..Day \cup {None}] OBVIOUS
  <2>5. loose \in BOOLEAN OBVIOUS
  <2>6. StoreTypes BY <1>1, <2>1, <2>5 DEF StoreTypes
  <2>2. PlaceTypes BY DEF PlaceTypes
  <2>3. ContextTypes BY DEF ContextTypes, Types
  <2>4. ReadTypes BY DEF ReadTypes
  <2> QED BY <2>2, <2>3, <2>4, <2>6, TypeParts
<1>3. Fresh
  <2>1. Idle \notin VideoHandlers BY HandlersAreWhole DEF VideoHandlers, Handlers
  <2> QED BY <2>1 DEF Fresh
<1>4. Counted /\ Dies /\ OnItsWay BY DEF Counted, Dies, Dead, OnItsWay
<1>5. Sums
  <2>1. \A p \in Pkgs : Pending(p) = {}
    <3>1. \A r \in Requests : ~Preclicks(r) BY HandlersAreWhole DEF Preclicks, Handlers
    <3> QED BY <3>1 DEF Pending
  <2>2. Cardinality(Requests) \in Nat BY <1>1, FS_CardinalityType
  <2>3. \A p \in Pkgs : given[p] = 0 OBVIOUS
  <2>4. Cardinality({}) = 0 BY FS_EmptySet
  <2>5. \A p \in Pkgs : given[p] + Cardinality(Pending(p)) <= Cardinality(Requests) + blind + lost
    <3> TAKE p \in Pkgs
    <3>1. Cardinality(Pending(p)) = 0 BY <2>1, <2>4
    <3>2. given[p] = 0 /\ blind = 0 /\ lost = 0 BY <2>3
    <3> QED BY <2>2, <3>1, <3>2
  <2> QED BY <2>5 DEF Sums
<1> QED BY <1>2, <1>3, <1>4, <1>5 DEF IInv

(* Every step keeps the invariant.                                         *)
LEMMA NextIInv == IInv /\ [Next]_vars => IInv'
<1> SUFFICES ASSUME IInv, [Next]_vars PROVE IInv'
  OBVIOUS
<1>1. ASSUME NEW r \in Requests,
        \/ NewContext(r) \/ Refuse(r) \/ OnlyOther(r) \/ getVideoTplAndUpdateSlot(r)
        \/ SetAdType(r) \/ GetFreq(r) \/ Caps(r) \/ Search(r) \/ Fuyu(r)
        \/ IncrPreClickFreq(r) \/ IncrFreq(r) \/ Answer(r)
      PROVE IInv'
  BY <1>1, NewContextStep, RefuseStep, SlotStep, SetAdTypeStep, GetFreqStep, CapsStep, SearchStep,
     FuyuStep, IncrPreClickFreqStep, IncrFreqStep, AnswerStep
<1>2. CASE Tick BY <1>2, TickStep
<1>3. CASE Complete BY <1>3, CompleteStep
<1>4. CASE UNCHANGED vars
  BY <1>4 DEF vars, redis, context, history, read, IInv, TypeOK, Fresh, Counted, Sums, Dies, Dead, OnItsWay,
     Pending, Preclicks
<1> QED BY <1>1, <1>2, <1>3, <1>4 DEF Next

-----------------------------------------------------------------------------
(* The theorems. *)

(* What is given and what is pending stay bounded together (GetFreq,       *)
(* IncrPreClickFreq).                                                      *)
THEOREM FrequencyInvariant == Spec => []IInv
BY InitIInv, NextIInv, PTL DEF Spec

(* Every request stays inside its handler and every count is a number      *)
(* (http_context.go, cache.go).                                            *)
THEOREM TypeCorrect == Spec => []TypeOK
<1>1. IInv => TypeOK BY DEF IInv
<1> QED BY <1>1, FrequencyInvariant, PTL

(* The overshoot of the cap on pre-clicks is one for each request, unasked *)
(* request and lost write, for any number of them (PreClickInFreqCap,      *)
(* IncrPreClickFreq).                                                      *)
THEOREM PreclicksBounded == Spec => []PreclickBounded
<1>1. IInv => PreclickBounded
  <2> SUFFICES ASSUME IInv, NEW p \in Pkgs
               PROVE  given[p] <= Cardinality(Requests) + blind + lost
    BY DEF PreclickBounded
  <2>1. Pending(p) \subseteq Requests BY DEF Pending
  <2>2. Cardinality(Pending(p)) \in Nat /\ Cardinality(Requests) \in Nat
    BY <2>1, FrequencyAssumption, FS_Subset, FS_CardinalityType
  <2>3. given[p] \in Nat /\ blind \in Nat /\ lost \in Nat BY DEF IInv, TypeOK
  <2> QED BY <2>2, <2>3 DEF IInv, Sums
<1> QED BY <1>1, FrequencyInvariant, PTL

(* For any day and any divisor of it, the counts of pre-clicks are gone at *)
(* midnight, but for those that no expiry came with or whose last expiry   *)
(* came late (IncrPreClickFreq, IncrFreq).                                 *)
THEOREM CountsEndWithTheDay == Spec => EndsWithTheDay
<1>1. IInv /\ [Next]_vars =>
        [clock' < clock /\ ~loose => \A p \in Pkgs : pfreq'[p] = 0]_vars
  <2> SUFFICES ASSUME IInv, [Next]_vars, clock' < clock, ~loose PROVE \A p \in Pkgs : pfreq'[p] = 0
    OBVIOUS
  <2>1. Day \in Nat /\ Day >= 1 /\ None \notin Nat /\ clock \in 0..(Day - 1) /\ ttl \in 1..Day \cup {None}
    BY FrequencyAssumption DEF IInv, TypeOK
  <2>2. CASE Tick
    <3>1. clock = Day - 1
      <4>1. ASSUME clock + 1 < Day PROVE FALSE
        <5>1. (clock + 1) % Day = clock + 1 BY <2>1, <4>1
        <5> QED BY <2>1, <2>2, <5>1 DEF Tick
      <4> QED BY <2>1, <4>1
    <3>2. CASE ttl = 1 BY <2>2, <3>2 DEF Tick
    <3>3. CASE ttl # 1
      <4>1. ~(ttl # None /\ ttl <= Day - clock) BY <2>1, <3>1, <3>3
      <4>2. \A p \in Pkgs : pfreq[p] = 0 BY <4>1 DEF IInv, Dies, Dead
      <4> QED BY <2>2, <3>3, <4>2 DEF Tick
    <3> QED BY <3>2, <3>3
  <2>3. CASE UNCHANGED clock BY <2>1, <2>3
  <2>4. Tick \/ UNCHANGED clock
    BY DEF Next, vars, redis, NewContext, Refuse, OnlyOther, getVideoTplAndUpdateSlot, SetAdType, GetFreq,
       Caps, Search, Fuyu, IncrPreClickFreq, IncrFreq, Answer, Complete
  <2> QED BY <2>2, <2>3, <2>4
<1> QED BY <1>1, FrequencyInvariant, PTL DEF Spec, EndsWithTheDay

-----------------------------------------------------------------------------
(* The counts that were read are those of the type that is served. *)

TypeSteps == {"type15", "type7", "type6", "typeOfSlot"}

(* Where a handler reads and uses the counts, and where it makes the type. *)
Ordered(h) == \A i, n \in DOMAIN h :
  /\ i >= 1
  /\ h[n] = "freq" => /\ h[i] = "freq" => i = n
                      /\ h[i] = "slot" => i < n
                      /\ h[i] = "caps" => n < i
  /\ h[n] = "answer" => i <= n
TypeFirst(h) == \A i, n \in DOMAIN h : h[n] = "freq" /\ h[i] \in TypeSteps => i < n
TypeLast(h) == \A i, n \in DOMAIN h : h[n] \in {"freq", "caps"} /\ h[i] \in TypeSteps => n < i

(* The handlers before v4 make the type before they read, those of v4      *)
(* after they have read and checked (retrieval/*.go).                      *)
LEMMA HandlersAreOrdered == \A h \in Handlers : Ordered(h) /\ IF h \in V4 THEN TypeLast(h) ELSE TypeFirst(h)
<1>1. Ordered(retrievalHandler) /\ TypeFirst(retrievalHandler)
  BY DEF Ordered, TypeFirst, TypeSteps, retrievalHandler
<1>2. Ordered(wuganHandler) /\ TypeFirst(wuganHandler)
  BY DEF Ordered, TypeFirst, TypeSteps, wuganHandler
<1>3. Ordered(realtimeHandler) /\ TypeFirst(realtimeHandler)
  BY DEF Ordered, TypeFirst, TypeSteps, realtimeHandler
<1>4. Ordered(lifeHandler) /\ TypeFirst(lifeHandler)
  BY DEF Ordered, TypeFirst, TypeSteps, lifeHandler
<1>5. Ordered(interstitialHandler) /\ TypeFirst(interstitialHandler)
  BY DEF Ordered, TypeFirst, TypeSteps, interstitialHandler
<1>6. Ordered(pageadHandler) /\ TypeFirst(pageadHandler)
  BY DEF Ordered, TypeFirst, TypeSteps, pageadHandler
<1>7. Ordered(videoHandler) /\ TypeFirst(videoHandler)
  BY DEF Ordered, TypeFirst, TypeSteps, videoHandler
<1>8. Ordered(videoCreativeHandler) /\ TypeLast(videoCreativeHandler)
  BY DEF Ordered, TypeLast, TypeSteps, videoCreativeHandler
<1>9. Ordered(videoAdHandler) /\ TypeLast(videoAdHandler)
  BY DEF Ordered, TypeLast, TypeSteps, videoAdHandler
<1>10. Ordered(videov4NativeHandler) /\ TypeLast(videov4NativeHandler)
  BY DEF Ordered, TypeLast, TypeSteps, videov4NativeHandler
<1>11. {retrievalHandler, wuganHandler, realtimeHandler, lifeHandler, interstitialHandler, pageadHandler, videoHandler}
       \cap V4 = {}
  BY DEF V4, retrievalHandler, wuganHandler, realtimeHandler, lifeHandler, interstitialHandler, pageadHandler, videoHandler,
     videoCreativeHandler, videoAdHandler, videov4NativeHandler
<1> QED BY <1>1, <1>2, <1>3, <1>4, <1>5, <1>6, <1>7, <1>8, <1>9, <1>10, <1>11 DEF Handlers, V4

(* Every handler of videos checks the caps but one, which makes the type 6. *)
LEMMA CapsOrType6 ==
  ASSUME NEW h \in VideoHandlers
  PROVE  \/ h # videov4NativeHandler /\ \E n \in DOMAIN h : h[n] = "caps"
         \/ h = videov4NativeHandler /\ \E n \in DOMAIN h : h[n] = "type6"
<1>1. \E n \in DOMAIN videoHandler : videoHandler[n] = "caps"
  BY DEF videoHandler
<1>2. \E n \in DOMAIN videoCreativeHandler : videoCreativeHandler[n] = "caps"
  BY DEF videoCreativeHandler
<1>3. \E n \in DOMAIN videoAdHandler : videoAdHandler[n] = "caps"
  BY DEF videoAdHandler
<1>4. \E n \in DOMAIN videov4NativeHandler : videov4NativeHandler[n] = "type6"
  BY DEF videov4NativeHandler
<1> QED BY <1>1, <1>2, <1>3, <1>4 DEF VideoHandlers

(* The native handler of v4 makes no other type. *)
LEMMA NativeType ==
  \A i \in DOMAIN videov4NativeHandler :
    videov4NativeHandler[i] \in TypeSteps => videov4NativeHandler[i] = "type6"
  BY DEF videov4NativeHandler, TypeSteps

BeforeFreq(r) == \A n \in DOMAIN handler[r] : handler[r][n] = "freq" => step[r] <= n
BeforeType(r) == \A n \in DOMAIN handler[r] : handler[r][n] \in TypeSteps => step[r] <= n
PastCaps(r) == \E n \in DOMAIN handler[r] : handler[r][n] = "caps" /\ n < step[r]

(* A key is of the type the handler had when it read; what it had watched  *)
(* is noted with the slots at their cap; and the caps hold once checked.   *)
CapState(r) ==
  /\ BeforeFreq(r) => key[r] = None
  /\ handler[r] \notin V4 => key[r] \in {type[r], None}
  /\ handler[r] \in V4 => key[r] \in {asked[r], None} /\ (BeforeType(r) => type[r] = asked[r])
  /\ handler[r] = videov4NativeHandler /\ ~BeforeType(r) => type[r] = "6"
  /\ key[r] = "7" /\ asked[r] = "7" /\ askedSlot[r] \in over[r] =>
       VideoFreqCap[askedSlot[r]] # -1 /\ watched[r] >= VideoFreqCap[askedSlot[r]]
  /\ PastCaps(r) /\ key[r] = "7" /\ asked[r] = "7" /\ askedSlot[r] = slot[r] => slot[r] \notin over[r]

CapInv == IInv /\ \A r \in Requests : CapState(r)

(* What a request holds decides its state of the caps. *)
LEMMA CapStateKept ==
  ASSUME NEW q, CapState(q), handler'[q] = handler[q], step'[q] = step[q], asked'[q] = asked[q], type'[q] = type[q],
         askedSlot'[q] = askedSlot[q], slot'[q] = slot[q], key'[q] = key[q], watched'[q] = watched[q], over'[q] = over[q]
  PROVE  CapState(q)'
  BY DEF CapState, BeforeFreq, BeforeType, PastCaps

(* One that goes on from a step that concerns none of this keeps it.       *)
LEMMA CapStateGoes ==
  ASSUME IInv, NEW r \in Requests, CapState(r), NEW s, At(r, s), s \notin TypeSteps \cup {"caps"},
         handler' = handler, step'[r] = step[r] + 1, asked'[r] = asked[r], type'[r] = type[r],
         askedSlot'[r] = askedSlot[r], slot'[r] = slot[r], key'[r] = key[r], watched'[r] = watched[r], over'[r] = over[r]
  PROVE  CapState(r)'
<1>1. step[r] \in Nat /\ DOMAIN handler[r] \subseteq Nat
  <2>1. handler[r] # Idle BY DEF At, Idle
  <2>2. handler[r] \in Handlers /\ step[r] \in Nat BY <2>1 DEF IInv, TypeOK
  <2> QED BY <2>2, HandlersAreWhole DEF Whole
<1>2. BeforeFreq(r)' => BeforeFreq(r)
  BY <1>1 DEF BeforeFreq
<1>3. BeforeType(r)' <=> BeforeType(r)
  BY <1>1 DEF BeforeType, At
<1>4. PastCaps(r)' <=> PastCaps(r)
  BY <1>1 DEF PastCaps, At
<1> QED BY <1>2, <1>3, <1>4 DEF CapState

(* A request that has ended holds nothing. *)
LEMMA CapStateEnds ==
  ASSUME IInv, NEW r \in Requests, End(r), \A q \in Requests : CapState(q)
  PROVE  \A q \in Requests : CapState(q)'
<1>1. ASSUME NEW q \in Requests, q # r PROVE CapState(q)'
  BY <1>1, CapStateKept DEF End, IInv, TypeOK
<1>2. CapState(r)'
  <2>1. handler'[r] = Idle /\ key'[r] = None
    BY DEF End, IInv, TypeOK
  <2>2. Idle \notin V4
    BY HandlersAreWhole DEF V4, Handlers
  <2>3. None # "7"
    BY FrequencyAssumption DEF Types
  <2> QED BY <2>1, <2>2, <2>3, HandlersAreWhole DEF CapState, V4, Handlers
<1> QED BY <1>1, <1>2

(* A step of one request leaves the others alone.                          *)
LEMMA CapStateOthers ==
  ASSUME IInv, NEW r \in Requests, \A q \in Requests : CapState(q), CapState(r)',
         \A q \in Requests \ {r} :
           /\ handler'[q] = handler[q] /\ step'[q] = step[q] /\ asked'[q] = asked[q] /\ type'[q] = type[q]
           /\ askedSlot'[q] = askedSlot[q] /\ slot'[q] = slot[q] /\ key'[q] = key[q]
           /\ watched'[q] = watched[q] /\ over'[q] = over[q]
  PROVE  \A q \in Requests : CapState(q)'
<1>1. ASSUME NEW q \in Requests, q # r PROVE CapState(q)'
  BY <1>1, CapStateKept
<1> QED BY <1>1

(* A request that goes on and neither reads, checks nor changes its        *)
(* context (Refuse, OnlyOther, Search, Fuyu, IncrPreClickFreq).            *)
LEMMA CapStateGo ==
  ASSUME IInv, NEW r \in Requests, \A q \in Requests : CapState(q), NEW s, At(r, s),
         s \notin TypeSteps \cup {"caps"}, Go(r), UNCHANGED <<context, key, watched, over>>
  PROVE  \A q \in Requests : CapState(q)'
<1>1. handler' = handler /\ step'[r] = step[r] + 1 /\ \A q \in Requests \ {r} : step'[q] = step[q]
  BY DEF Go, IInv, TypeOK
<1>2. UNCHANGED <<asked, type, askedSlot, slot, key, watched, over>>
  BY DEF context
<1>3. CapState(r)'
  BY <1>1, <1>2, CapStateGoes
<1> QED BY <1>1, <1>2, <1>3, CapStateOthers

(* A new request holds nothing of the counts, and its type is still to be  *)
(* made when its handler makes one.                                        *)
LEMMA CapNewContext ==
  ASSUME IInv, NEW r \in Requests, \A q \in Requests : CapState(q), NewContext(r)
  PROVE  \A q \in Requests : CapState(q)'
<1>1. PICK h \in Serves[r], t \in ClientTypes :
      \E s \in IF h \in VideoHandlers THEN Slots ELSE {NoSlot} :
        /\ handler' = [handler EXCEPT ![r] = h]
        /\ asked' = [asked EXCEPT ![r] = t] /\ type' = [type EXCEPT ![r] = t]
        /\ askedSlot' = [askedSlot EXCEPT ![r] = s] /\ slot' = [slot EXCEPT ![r] = s]
  BY DEF NewContext
<1>2. handler[r] = Idle /\ step' = [step EXCEPT ![r] = 1] /\ UNCHANGED <<key, watched, over>>
  BY DEF NewContext, read
<1>3. h \in Handlers /\ t \in Types
  BY FrequencyAssumption
<1>4. key[r] = None
  BY <1>2 DEF IInv, Fresh
<1>5. handler'[r] = h /\ asked'[r] = t /\ type'[r] = t /\ step'[r] = 1 /\ key'[r] = None
  BY <1>1, <1>2, <1>4 DEF IInv, TypeOK
<1>6. BeforeType(r)'
  BY <1>3, <1>5, HandlersAreOrdered DEF BeforeType, Ordered
<1>7. CapState(r)'
  BY <1>5, <1>6, FrequencyAssumption DEF CapState, Types
<1> QED BY <1>1, <1>2, <1>7, CapStateOthers DEF IInv, TypeOK

(* The slot is replaced before the counts are read.                        *)
LEMMA CapSlot ==
  ASSUME IInv, NEW r \in Requests, \A q \in Requests : CapState(q), getVideoTplAndUpdateSlot(r)
  PROVE  \A q \in Requests : CapState(q)'
<1>1. CASE End(r)
  BY <1>1, CapStateEnds
<1>2. CASE ~End(r)
  <2>1. PICK s \in Slots : slot' = [slot EXCEPT ![r] = s] /\ Go(r) /\ UNCHANGED <<asked, type, askedSlot, read>>
    BY <1>2 DEF getVideoTplAndUpdateSlot
  <2>2. handler' = handler /\ step' = [step EXCEPT ![r] = step[r] + 1] /\ UNCHANGED <<asked, type, askedSlot, key, watched, over>>
    BY <2>1 DEF Go, read
  <2>3. step[r] \in Nat /\ DOMAIN handler[r] \subseteq Nat /\ step[r] \in DOMAIN handler[r]
        /\ handler[r][step[r]] = "slot" /\ handler[r] \in Handlers
    BY HandlersAreWhole DEF getVideoTplAndUpdateSlot, IInv, TypeOK, At, Whole, Idle
  <2>4. key[r] = None
    BY <2>3, HandlersAreOrdered DEF Ordered, CapState, BeforeFreq
  <2>5. step'[r] = step[r] + 1
    BY <2>2 DEF IInv, TypeOK
  <2>6. BeforeType(r)' <=> BeforeType(r)
    BY <2>2, <2>3, <2>5 DEF BeforeType, TypeSteps
  <2>7. key'[r] = None /\ None # "7"
    BY <2>2, <2>4, FrequencyAssumption DEF Types
  <2>8. CapState(r)'
    BY <2>2, <2>6, <2>7 DEF CapState
  <2> QED BY <2>1, <2>2, <2>8, CapStateOthers DEF IInv, TypeOK
<1> QED BY <1>1, <1>2

(* The type is made before the counts are read, or after they are used.    *)
LEMMA CapSetAdType ==
  ASSUME IInv, NEW r \in Requests, \A q \in Requests : CapState(q), SetAdType(r)
  PROVE  \A q \in Requests : CapState(q)'
<1>1. PICK t \in TypesAt(r) : type' = [type EXCEPT ![r] = t]
  BY DEF SetAdType
<1>2. handler' = handler /\ step' = [step EXCEPT ![r] = step[r] + 1]
      /\ UNCHANGED <<asked, askedSlot, slot, key, watched, over>>
  BY DEF SetAdType, Go, read
<1>3. /\ At(r, handler[r][step[r]]) /\ handler[r][step[r]] \in TypeSteps
      /\ handler[r][step[r]] = "type6" => t = "6"
  BY DEF TypesAt, At, TypeSteps
<1>4. step[r] \in Nat /\ DOMAIN handler[r] \subseteq Nat /\ step[r] \in DOMAIN handler[r] /\ handler[r] \in Handlers
  BY <1>3, HandlersAreWhole DEF IInv, TypeOK, At, Whole, Idle
<1>5. step'[r] = step[r] + 1 /\ type'[r] = t
  BY <1>1, <1>2 DEF IInv, TypeOK
<1>6. ~BeforeType(r)'
  BY <1>2, <1>3, <1>4, <1>5 DEF BeforeType
<1>7. CASE handler[r] \notin V4
  <2>1. key[r] = None
    BY <1>3, <1>4, <1>7, HandlersAreOrdered DEF TypeFirst, CapState, BeforeFreq
  <2>2. None # "7"
    BY FrequencyAssumption DEF Types
  <2>3. videov4NativeHandler \in V4
    BY DEF V4
  <2>4. CapState(r)'
    BY <1>2, <1>7, <2>1, <2>2, <2>3 DEF CapState
  <2> QED BY <1>1, <1>2, <2>4, CapStateOthers DEF IInv, TypeOK
<1>8. CASE handler[r] \in V4
  <2>1. BeforeFreq(r)' => BeforeFreq(r)
    BY <1>2, <1>4, <1>5 DEF BeforeFreq
  <2>2. PastCaps(r)' => PastCaps(r)
    BY <1>2, <1>3, <1>4, <1>5 DEF PastCaps, TypeSteps
  <2>3. handler[r] = videov4NativeHandler => t = "6"
    BY <1>3, <1>4, NativeType
  <2>4. CapState(r)'
    BY <1>2, <1>5, <1>6, <1>8, <2>1, <2>2, <2>3 DEF CapState
  <2> QED BY <1>1, <1>2, <2>4, CapStateOthers DEF IInv, TypeOK
<1> QED BY <1>7, <1>8

(* The counts are read under the type of now, together with the caps.      *)
LEMMA CapGetFreq ==
  ASSUME IInv, NEW r \in Requests, \A q \in Requests : CapState(q), GetFreq(r)
  PROVE  \A q \in Requests : CapState(q)'
<1>1. handler' = handler /\ step' = [step EXCEPT ![r] = step[r] + 1] /\ UNCHANGED <<asked, type, askedSlot, slot>>
  BY DEF GetFreq, Go, context
<1>2. over' = [over EXCEPT ![r] = IF handler[r] \in VideoHandlers THEN {s \in Slots : AtCap(s)} ELSE {}]
  BY DEF GetFreq
<1>3. \/ /\ key' = [key EXCEPT ![r] = type[r]]
         /\ watched' = [watched EXCEPT ![r] =
              IF handler[r] \in VideoHandlers /\ type[r] = "7" THEN complete[<<asked[r], askedSlot[r]>>] ELSE 0]
      \/ UNCHANGED <<key, watched>>
  BY DEF GetFreq
<1>4. step[r] \in Nat /\ DOMAIN handler[r] \subseteq Nat /\ step[r] \in DOMAIN handler[r]
      /\ handler[r][step[r]] = "freq" /\ handler[r] \in Handlers
  BY HandlersAreWhole DEF GetFreq, IInv, TypeOK, At, Whole, Idle
<1>5. step'[r] = step[r] + 1
  BY <1>1 DEF IInv, TypeOK
<1>6. key[r] = None
  BY <1>4, HandlersAreOrdered DEF Ordered, CapState, BeforeFreq
<1>7. ~BeforeFreq(r)' /\ ~PastCaps(r)'
  <2>1. ~BeforeFreq(r)'
    BY <1>1, <1>4, <1>5 DEF BeforeFreq
  <2>2. \A n \in DOMAIN handler[r] : handler[r][n] = "caps" => step[r] < n
    BY <1>4, HandlersAreOrdered DEF Ordered
  <2>3. ~PastCaps(r)'
    BY <1>1, <1>4, <1>5, <2>2 DEF PastCaps
  <2> QED BY <2>1, <2>3
<1>8. BeforeType(r)' <=> BeforeType(r)
  BY <1>1, <1>4, <1>5 DEF BeforeType, TypeSteps
<1>9. handler[r] \in V4 => BeforeType(r)
  BY <1>4, HandlersAreOrdered DEF TypeLast, BeforeType
<1>10. key'[r] \in {type[r], None}
  BY <1>3, <1>6 DEF IInv, TypeOK
<1>11. key'[r] = "7" /\ asked[r] = "7" /\ askedSlot[r] \in over'[r] =>
         VideoFreqCap[askedSlot[r]] # -1 /\ watched'[r] >= VideoFreqCap[askedSlot[r]]
  <2> SUFFICES ASSUME key'[r] = "7", asked[r] = "7", askedSlot[r] \in over'[r]
               PROVE  VideoFreqCap[askedSlot[r]] # -1 /\ watched'[r] >= VideoFreqCap[askedSlot[r]]
    OBVIOUS
  <2>1. over'[r] = IF handler[r] \in VideoHandlers THEN {s \in Slots : AtCap(s)} ELSE {}
    BY <1>2 DEF IInv, TypeOK
  <2>2. handler[r] \in VideoHandlers /\ askedSlot[r] \in Slots /\ AtCap(askedSlot[r])
    BY <2>1
  <2>3. type[r] = "7" /\ ~UNCHANGED key
    BY <1>6, <1>10, FrequencyAssumption DEF Types
  <2>4. watched'[r] = complete[<<"7", askedSlot[r]>>]
    BY <1>3, <2>2, <2>3 DEF IInv, TypeOK
  <2> QED BY <2>2, <2>4 DEF AtCap
<1>12. CapState(r)'
  BY <1>1, <1>7, <1>8, <1>9, <1>10, <1>11 DEF CapState
<1> QED BY <1>1, <1>2, <1>3, <1>12, CapStateOthers DEF IInv, TypeOK

(* A request that passes the caps was below them when it read. *)
LEMMA CapCaps ==
  ASSUME IInv, NEW r \in Requests, \A q \in Requests : CapState(q), Caps(r)
  PROVE  \A q \in Requests : CapState(q)'
<1>1. CASE End(r)
  BY <1>1, CapStateEnds
<1>2. CASE ~End(r)
  <2>1. (type[r] = "7" => VideoInCompleteCap(r, VideoFreqCap[slot[r]])) /\ handler' = handler
        /\ step' = [step EXCEPT ![r] = step[r] + 1]
        /\ UNCHANGED <<asked, type, askedSlot, slot, key, watched, over>>
    BY <1>2 DEF Caps, Go, context, read
  <2>2. step[r] \in Nat /\ DOMAIN handler[r] \subseteq Nat /\ step[r] \in DOMAIN handler[r]
        /\ handler[r][step[r]] = "caps" /\ handler[r] \in Handlers
    BY HandlersAreWhole DEF Caps, IInv, TypeOK, At, Whole, Idle
  <2>3. step'[r] = step[r] + 1
    BY <2>1 DEF IInv, TypeOK
  <2>4. BeforeFreq(r)' => BeforeFreq(r)
    BY <2>1, <2>2, <2>3 DEF BeforeFreq
  <2>5. BeforeType(r)' <=> BeforeType(r)
    BY <2>1, <2>2, <2>3 DEF BeforeType, TypeSteps
  <2>6. handler[r] \in V4 => BeforeType(r)
    BY <2>2, HandlersAreOrdered DEF TypeLast, BeforeType
  <2>7. ASSUME key[r] = "7", asked[r] = "7", askedSlot[r] = slot[r], slot[r] \in over[r] PROVE FALSE
    <3>1. type[r] = "7"
      BY <2>6, <2>7, FrequencyAssumption DEF CapState, Types
    <3>2. VideoInCompleteCap(r, VideoFreqCap[slot[r]])
      BY <2>1, <3>1
    <3>3. VideoFreqCap[slot[r]] # -1 /\ watched[r] >= VideoFreqCap[slot[r]]
      BY <2>7 DEF CapState
    <3>4. slot[r] \in Slots /\ watched[r] \in Nat
      BY <2>7 DEF IInv, TypeOK
    <3>5. VideoFreqCap[slot[r]] \in Nat
      BY <3>3, <3>4, FrequencyAssumption
    <3> QED BY <3>2, <3>3, <3>4, <3>5 DEF VideoInCompleteCap
  <2>8. CapState(r)'
    BY <2>1, <2>4, <2>5, <2>7 DEF CapState
  <2> QED BY <2>1, <2>8, CapStateOthers DEF IInv, TypeOK
<1> QED BY <1>1, <1>2

(* Every step of a request or of redis keeps the state of the caps.        *)
LEMMA CapNext == CapInv /\ [Next]_vars => \A q \in Requests : CapState(q)'
<1> SUFFICES ASSUME IInv, \A q \in Requests : CapState(q), [Next]_vars PROVE \A q \in Requests : CapState(q)'
  BY DEF CapInv
<1>1. ASSUME NEW r \in Requests, Refuse(r) \/ OnlyOther(r) PROVE \A q \in Requests : CapState(q)'
  <2>1. CASE End(r)
    BY <2>1, CapStateEnds
  <2>2. CASE ~End(r)
    <3>1. Go(r) /\ UNCHANGED <<context, key, watched, over>> /\ (At(r, "refuse") \/ At(r, "onlyOther"))
      BY <1>1, <2>2 DEF Refuse, OnlyOther, read
    <3> QED BY <3>1, CapStateGo DEF TypeSteps
  <2> QED BY <2>1, <2>2
<1>2. ASSUME NEW r \in Requests, Search(r) \/ Fuyu(r) PROVE \A q \in Requests : CapState(q)'
  <2>1. CASE End(r)
    BY <2>1, CapStateEnds
  <2>2. CASE ~End(r)
    <3>1. Go(r) /\ UNCHANGED <<context, key, watched, over>> /\ (At(r, "search") \/ At(r, "fuyu"))
      BY <1>2, <2>2 DEF Search, Fuyu, read
    <3> QED BY <3>1, CapStateGo DEF TypeSteps
  <2> QED BY <2>1, <2>2
<1>3. ASSUME NEW r \in Requests, IncrPreClickFreq(r) PROVE \A q \in Requests : CapState(q)'
  <2>1. Go(r) /\ UNCHANGED <<context, key, watched, over>> /\ At(r, "preclick")
    BY <1>3 DEF IncrPreClickFreq, read
  <2> QED BY <2>1, CapStateGo DEF TypeSteps
<1>6. ASSUME NEW r \in Requests, IncrFreq(r) PROVE \A q \in Requests : CapState(q)'
  <2>1. Go(r) /\ UNCHANGED <<context, key, watched, over>> /\ At(r, "incrfreq")
    BY <1>6 DEF IncrFreq, read
  <2> QED BY <2>1, CapStateGo DEF TypeSteps
<1>4. ASSUME NEW r \in Requests, Answer(r) PROVE \A q \in Requests : CapState(q)'
  BY <1>4, CapStateEnds DEF Answer
<1>5. CASE Tick \/ Complete \/ UNCHANGED vars
  <2>1. UNCHANGED <<handler, step, asked, type, askedSlot, slot, key, watched, over>>
    BY <1>5 DEF Tick, Complete, vars, context, read
  <2> QED BY <2>1, CapStateKept
<1> QED BY <1>1, <1>2, <1>3, <1>4, <1>5, <1>6, CapNewContext, CapSlot, CapSetAdType, CapGetFreq, CapCaps DEF Next

(* At its answer a request stands by what it read: the type it is served   *)
(* as, and the caps of its slot when the client named type and slot        *)
(* (GetFreq, SetAdType, getVideoTplAndUpdateSlot).                         *)
THEOREM CapsHoldAsKeyed == Spec => []CapsAsKeyed
<1>1. Init => CapInv
  <2>1. Init => \A q \in Requests : CapState(q)
    <3> SUFFICES ASSUME Init, NEW q \in Requests PROVE CapState(q)
      OBVIOUS
    <3>1. handler[q] = Idle /\ key[q] = None
      BY DEF Init
    <3>2. Idle \notin V4 /\ Idle # videov4NativeHandler /\ None # "7"
      BY HandlersAreWhole, FrequencyAssumption DEF V4, Handlers, Types
    <3> QED BY <3>1, <3>2 DEF CapState
  <2> QED BY <2>1, InitIInv DEF CapInv
<1>2. CapInv /\ [Next]_vars => CapInv'
  BY CapNext, NextIInv DEF CapInv
<1>3. CapInv => CapsAsKeyed
  <2> SUFFICES ASSUME IInv, NEW r \in Requests, CapState(r), At(r, "answer")
               PROVE  /\ handler[r] \notin V4 => key[r] \in {type[r], None}
                      /\ /\ handler[r] \in VideoHandlers /\ type[r] = "7" /\ key[r] # None
                         /\ asked[r] = "7" /\ askedSlot[r] = slot[r]
                         => slot[r] \notin over[r]
    BY DEF CapInv, CapsAsKeyed, CapOfServedType, CompletesCappedAsAsked
  <2>1. ASSUME handler[r] \in VideoHandlers, type[r] = "7", key[r] # None, asked[r] = "7", askedSlot[r] = slot[r]
        PROVE  slot[r] \notin over[r]
    <3>1. key[r] = "7"
      BY <2>1 DEF CapState
    <3>2. step[r] \in Nat /\ DOMAIN handler[r] \subseteq Nat /\ step[r] \in DOMAIN handler[r]
          /\ handler[r][step[r]] = "answer" /\ handler[r] \in Handlers
      BY HandlersAreWhole DEF IInv, TypeOK, At, Whole, Idle
    <3>3. \A n \in DOMAIN handler[r] : n <= step[r]
      BY <3>2, HandlersAreOrdered DEF Ordered
    <3>4. CASE handler[r] # videov4NativeHandler
      <4>1. PastCaps(r)
        BY <2>1, <3>2, <3>3, <3>4, CapsOrType6 DEF PastCaps
      <4> QED BY <2>1, <3>1, <4>1 DEF CapState
    <3>5. CASE handler[r] = videov4NativeHandler
      <4>1. PICK n \in DOMAIN handler[r] : handler[r][n] = "type6"
        BY <2>1, <3>5, CapsOrType6
      <4>2. ~BeforeType(r)
        BY <3>2, <3>3, <4>1 DEF BeforeType, TypeSteps
      <4> QED BY <2>1, <3>5, <4>2 DEF CapState
    <3> QED BY <3>4, <3>5
  <2> QED BY <2>1 DEF CapState
<1> QED BY <1>1, <1>2, <1>3, PTL DEF Spec
=============================================================================
