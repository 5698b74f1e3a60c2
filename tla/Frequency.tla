------------------------------ MODULE Frequency ------------------------------
(***************************************************************************)
(* Frequency caps: what a handler reads about one user in redis before it  *)
(* searches (GetFreq), and what it writes there when it has rendered       *)
(* pre-click ads (IncrPreClickFreq).  Between the two it holds nothing.    *)
(* The expiry of what it writes is computed from the clock before the      *)
(* commands leave, and arrives with them when the clock may have moved on. *)
(*                                                                         *)
(* A handler is the sequence of its steps that touch the ad type, the slot *)
(* or redis; "refuse" stands for the tests between them that answer        *)
(* without an ad and return.  Requests of an integral wall, which no cap   *)
(* holds and nobody counts, are left out.  How often an ad was shown and a *)
(* video was watched to its end is written by the tracking service, under  *)
(* the type and the slot its links carry; of the former only the key       *)
(* matters here.                                                           *)
(***************************************************************************)
EXTENDS Integers, FiniteSets, Sequences

CONSTANTS
  Requests,
  Serves,        \* request -> the handlers it may be for
  Pkgs,          \* packages of the offers
  Slots,         \* video slots of one application
  ClientTypes,   \* the values of the url parameter adtype
  VideoFreqCap,  \* slot -> rewarded videos per user, -1 for no cap
  Day,           \* 86400, and a divisor of it for iOS in China
  HalfDay,       \* 43200
  MaxBlind,      \* unchecked pre-clicks while the hash lives (a bound)
  MaxLost,       \* lost writes while the hash lives (a bound)
  MaxComplete,   \* completes per slot (a bound)
  None, NoSlot

(* 3, 4 and 9 are wugan, 6 is video, 7 is rewarded video, 15 interstitial. *)
Types == {"other", "wugan", "6", "7", "15"}

VARIABLES
  clock,     \* time.Now().Unix() % 86400
  pfreq,     \* HASH pfreq_user: package -> pre-clicks
  ttl,       \* its time to live, None when it has none
  complete,  \* vfreq_user_type -> slot -> videos watched to the end
  expire,    \* the expiry a request has computed for the write it is about to do, or None
  delayed,   \* those whose expiry was computed before the clock moved
  handler, step, asked, type, askedSlot, slot,  \* the request: its handler, next step, context
  key,       \* FreqKey of the map that was read, None before and after an error
  capped,    \* the packages PreClickInFreqCap refuses
  found,     \* the packages of the offers it renders
  given, blind, lost,  \* history of the hash: pre-clicks, those given unchecked, lost writes
  loose,     \* history: no expiry came with its counts, or the last one came late
  watched,   \* VCompletes
  over       \* history: the rewarded slots at their cap when the request read

redis   == <<clock, pfreq, ttl, complete, expire, delayed>>
context == <<asked, type, askedSlot, slot>>
history == <<given, blind, lost, loose>>
read    == <<key, capped, found, watched, over>>
vars    == <<redis, handler, step, context, read, history>>
-----------------------------------------------------------------------------
retrievalHandler == <<"refuse", "freq", "search", "fuyu", "preclick", "incrfreq", "answer">>
wuganHandler     == <<"refuse", "freq", "search", "refuse", "preclick", "incrfreq", "answer">>
realtimeHandler  == <<"refuse", "freq", "search", "answer">>
lifeHandler      == <<"refuse", "freq", "search", "answer">>
interstitialHandlerAsked == <<"refuse", "refuse", "freq", "type15", "refuse", "search", "answer">>
interstitialHandler == <<"refuse", "type15", "refuse", "freq", "refuse", "search", "answer">>
pageadHandler    == <<"onlyOther", "refuse", "freq", "search", "answer">>
videoHandler     == <<"slot", "refuse", "typeOfSlot", "refuse", "freq", "caps", "search", "answer">>
videoCreativeHandler ==
  <<"slot", "refuse", "freq", "caps", "type7", "search", "answer">>
videoAdHandler   == <<"slot", "refuse", "freq", "caps", "typeOfSlot", "refuse", "search", "answer">>
videov4NativeHandler == <<"slot", "refuse", "freq", "type6", "refuse", "search", "answer">>

Handlers ==
  {retrievalHandler, wuganHandler, realtimeHandler, lifeHandler, interstitialHandler,
   pageadHandler, videoHandler, videoCreativeHandler, videoAdHandler, videov4NativeHandler}

VideoHandlers == {videoHandler, videoCreativeHandler, videoAdHandler, videov4NativeHandler}

ASSUME FrequencyAssumption ==
  /\ IsFiniteSet(Requests)
  /\ Serves \in [Requests -> SUBSET Handlers]
  /\ ClientTypes \subseteq Types
  /\ VideoFreqCap \in [Slots -> Nat \cup {-1}]
  /\ HalfDay \in Nat \ {0} /\ Day \in Nat /\ Day % HalfDay = 0 /\ Day >= HalfDay
  /\ MaxBlind \in Nat /\ MaxLost \in Nat /\ MaxComplete \in Nat
  /\ None \notin Nat /\ None \notin Types
  /\ NoSlot \notin Slots

Idle == <<>>
At(r, s) == step[r] \in DOMAIN handler[r] /\ handler[r][step[r]] = s

TypeOK ==
  /\ clock \in 0..(Day - 1)
  /\ pfreq \in [Pkgs -> Nat] /\ given \in [Pkgs -> Nat] /\ blind \in Nat /\ lost \in Nat
  /\ ttl \in 1..Day \cup {None}
  /\ complete \in [Types \X Slots -> Nat]
  /\ expire \in [Requests -> 1..Day \cup {None}] /\ delayed \subseteq Requests /\ loose \in BOOLEAN
  /\ handler \in [Requests -> Handlers \cup {Idle}]
  /\ step \in [Requests -> Nat]
  /\ asked \in [Requests -> Types] /\ type \in [Requests -> Types]
  /\ askedSlot \in [Requests -> Slots \cup {NoSlot}] /\ slot \in [Requests -> Slots \cup {NoSlot}]
  /\ key \in [Requests -> Types \cup {None}]
  /\ capped \in [Requests -> SUBSET Pkgs] /\ found \in [Requests -> SUBSET Pkgs]
  /\ watched \in [Requests -> Nat] /\ over \in [Requests -> SUBSET Slots]
  /\ \A r \in Requests : handler[r] # Idle => step[r] \in DOMAIN handler[r]

Init ==
  /\ clock = 0 /\ pfreq = [p \in Pkgs |-> 0] /\ ttl = None
  /\ complete = [k \in Types \X Slots |-> 0]
  /\ expire = [r \in Requests |-> None] /\ delayed = {}
  /\ handler = [r \in Requests |-> Idle] /\ step = [r \in Requests |-> 0]
  /\ asked = [r \in Requests |-> "other"] /\ type = asked
  /\ askedSlot = [r \in Requests |-> NoSlot] /\ slot = askedSlot
  /\ key = [r \in Requests |-> None]
  /\ capped = [r \in Requests |-> {}] /\ found = [r \in Requests |-> {}]
  /\ given = pfreq /\ blind = 0 /\ lost = 0 /\ loose = FALSE
  /\ watched = [r \in Requests |-> 0] /\ over = [r \in Requests |-> {}]
-----------------------------------------------------------------------------
Go(r) == step' = [step EXCEPT ![r] = @ + 1] /\ UNCHANGED handler

(* What a finished request leaves behind is forgotten, so that equal states
   are equal. *)
End(r) ==
  /\ handler' = [handler EXCEPT ![r] = Idle] /\ step' = [step EXCEPT ![r] = 0]
  /\ asked' = [asked EXCEPT ![r] = "other"] /\ type' = [type EXCEPT ![r] = "other"]
  /\ askedSlot' = [askedSlot EXCEPT ![r] = NoSlot] /\ slot' = [slot EXCEPT ![r] = NoSlot]
  /\ key' = [key EXCEPT ![r] = None]
  /\ capped' = [capped EXCEPT ![r] = {}] /\ found' = [found EXCEPT ![r] = {}]
  /\ watched' = [watched EXCEPT ![r] = 0] /\ over' = [over EXCEPT ![r] = {}]

NewContext(r) ==
  /\ handler[r] = Idle
  /\ \E h \in Serves[r], t \in ClientTypes :
      \E s \in (IF h \in VideoHandlers THEN Slots ELSE {NoSlot}) :
       /\ handler' = [handler EXCEPT ![r] = h]
       /\ asked' = [asked EXCEPT ![r] = t] /\ type' = [type EXCEPT ![r] = t]
       /\ askedSlot' = [askedSlot EXCEPT ![r] = s] /\ slot' = [slot EXCEPT ![r] = s]
  /\ step' = [step EXCEPT ![r] = 1]
  /\ UNCHANGED <<redis, read, history>>

Refuse(r) ==
  /\ At(r, "refuse")
  /\ (Go(r) /\ UNCHANGED <<context, read>>) \/ End(r)
  /\ UNCHANGED <<redis, history>>

OnlyOther(r) ==
  /\ At(r, "onlyOther")
  /\ IF type[r] = "other" THEN Go(r) /\ UNCHANGED <<context, read>> ELSE End(r)
  /\ UNCHANGED <<redis, history>>

(* A slot that is closed or of another format is replaced by a brother. *)
getVideoTplAndUpdateSlot(r) ==
  /\ At(r, "slot")
  /\ \/ /\ \E s \in Slots : slot' = [slot EXCEPT ![r] = s]
        /\ Go(r) /\ UNCHANGED <<asked, type, askedSlot, read>>
     \/ End(r)
  /\ UNCHANGED <<redis, history>>

(* A slot of format 8 leaves the type of the client as it is. *)
TypesAt(r) ==
  CASE At(r, "type15") -> {"15"}
    [] At(r, "type7") -> {"7"}
    [] At(r, "type6") -> {"6"}
    [] At(r, "typeOfSlot") -> {"6", "7", type[r]}
    [] OTHER -> {}

SetAdType(r) ==
  /\ \E t \in TypesAt(r) : type' = [type EXCEPT ![r] = t]
  /\ Go(r)
  /\ UNCHANGED <<redis, asked, askedSlot, slot, read, history>>
-----------------------------------------------------------------------------
AtCap(s) == VideoFreqCap[s] # -1 /\ complete[<<"7", s>>] >= VideoFreqCap[s]

PreClickInFreqCapTwice(p) == pfreq[p] <= 1
PreClickInFreqCap(p) == pfreq[p] < 1

(* The keys of the completes are those NewContext made; the key of the map
   is made again from the type of now. *)
GetFreq(r) ==
  /\ At(r, "freq")
  /\ over' = [over EXCEPT ![r] = 
       IF handler[r] \in VideoHandlers THEN {s \in Slots : AtCap(s)} ELSE {}]
  /\ \/ /\ key' = [key EXCEPT ![r] = type[r]]
        /\ capped' = [capped EXCEPT ![r] =
             IF type[r] = "wugan" THEN {p \in Pkgs : ~PreClickInFreqCap(p)} ELSE {}]
        /\ watched' = [watched EXCEPT ![r] =
             IF handler[r] \in VideoHandlers /\ type[r] = "7"
             THEN complete[<<asked[r], askedSlot[r]>>] ELSE 0]
     \/ UNCHANGED <<key, capped, watched>>  \* the read fails
  /\ Go(r)
  /\ UNCHANGED <<redis, context, found, history>>

VideoInCompleteCap(r, limit) == limit = -1 \/ (limit # 0 /\ watched[r] < limit)

(* The caps of the slot over all users may end the request at any time. *)
Caps(r) ==
  /\ At(r, "caps")
  /\ \/ /\ type[r] = "7" => VideoInCompleteCap(r, VideoFreqCap[slot[r]])
        /\ Go(r) /\ UNCHANGED <<context, read>>
     \/ End(r)
  /\ UNCHANGED <<redis, history>>

(* Whether the ads of the request are counted as pre-clicks. *)
Preclicks(r) ==
  \/ handler[r] = wuganHandler
  \/ handler[r] = retrievalHandler /\ type[r] = "wugan"

Unchecked(r) == Preclicks(r) /\ key[r] # "wugan"

Search(r) ==
  /\ At(r, "search")
  /\ \/ \E P \in SUBSET Pkgs \ {{}} :
          /\ Preclicks(r) => P \cap capped[r] = {}
          /\ found' = [found EXCEPT ![r] = P]
          /\ IF Unchecked(r) THEN blind < MaxBlind /\ blind' = blind + 1 ELSE UNCHANGED blind
          /\ Go(r) /\ UNCHANGED <<context, key, capped, watched, over>>
     \/ /\ IF Preclicks(r) THEN Go(r) /\ UNCHANGED <<context, read>> ELSE End(r)
        /\ UNCHANGED blind
  /\ UNCHANGED <<redis, given, lost, loose>>

(* The offers getFuyuDocsWithShuffle finds instead are not held against the
   map that was read. *)
Fuyu(r) ==
  /\ At(r, "fuyu")
  /\ \/ /\ found[r] # {}
        /\ Go(r) /\ UNCHANGED <<context, read, blind>>
     \/ /\ found[r] = {} /\ blind < MaxBlind
        /\ \E P \in SUBSET Pkgs \ {{}} : found' = [found EXCEPT ![r] = P]
        /\ blind' = blind + 1
        /\ Go(r) /\ UNCHANGED <<context, key, capped, watched, over>>
     \/ found[r] = {} /\ End(r) /\ UNCHANGED blind
  /\ UNCHANGED <<redis, given, lost, loose>>

ExpiresFixed == {HalfDay, Day}
ExpiresElapsed == {clock % period : period \in {HalfDay, Day}}
Expires == {period - (clock % period) : period \in {HalfDay, Day}}

IncrPreClickFreq(r) ==
  /\ At(r, "preclick")
  /\ IF Preclicks(r) /\ found[r] # {}
     THEN \E e \in Expires : expire' = [expire EXCEPT ![r] = e]
     ELSE UNCHANGED expire
  /\ Go(r)
  /\ UNCHANGED <<clock, pfreq, ttl, complete, delayed, context, read, history>>

(* HINCRBY for each package and then EXPIRE; a connection that breaks leaves
   any beginning of it done. *)
IncrFreq(r) ==
  /\ At(r, "incrfreq")
  /\ IF expire[r] # None
     THEN /\ given' = [p \in Pkgs |-> IF p \in found[r] THEN given[p] + 1 ELSE given[p]]
          /\ \E written \in SUBSET found[r] :
               /\ pfreq' = [p \in Pkgs |-> IF p \in written THEN pfreq[p] + 1 ELSE pfreq[p]]
               /\ \/ /\ written = found[r]
                     /\ ttl' = expire[r] /\ loose' = (r \in delayed)
                     /\ UNCHANGED lost
                  \/ /\ lost < MaxLost /\ lost' = lost + 1
                     /\ loose' = (loose \/ (ttl = None /\ written # {}))
                     /\ UNCHANGED ttl
     ELSE UNCHANGED <<given, pfreq, ttl, lost, loose>>
  /\ expire' = [expire EXCEPT ![r] = None] /\ delayed' = delayed \ {r}
  /\ Go(r)
  /\ UNCHANGED <<clock, complete, context, read, blind>>

Answer(r) == At(r, "answer") /\ End(r) /\ UNCHANGED <<redis, history>>

(* Redis deletes a key when its time is over; the history of the hash ends
   with it. *)
Tick ==
  /\ clock' = (clock + 1) % Day
  /\ IF ttl = 1
     THEN /\ ttl' = None
          /\ pfreq' = [p \in Pkgs |-> 0] /\ given' = pfreq'
          /\ blind' = 0 /\ lost' = 0 /\ loose' = FALSE
     ELSE /\ ttl' = IF ttl = None THEN None ELSE ttl - 1
          /\ UNCHANGED <<pfreq, history>>
  /\ delayed' = {r \in Requests : expire[r] # None}
  /\ UNCHANGED <<complete, expire, handler, step, context, read>>

(* The tracking service counts a rewarded video that was watched to its end.
   Nobody asks how often it was when the slot has no cap. *)
Complete ==
  /\ \E s \in {t \in Slots : VideoFreqCap[t] # -1} :
       /\ complete[<<"7", s>>] < MaxComplete
       /\ complete' = [complete EXCEPT ![<<"7", s>>] = @ + 1]
  /\ UNCHANGED <<clock, pfreq, ttl, expire, delayed, handler, step, context, read, history>>

Next ==
  \/ \E r \in Requests :
       \/ NewContext(r) \/ Refuse(r) \/ OnlyOther(r) \/ getVideoTplAndUpdateSlot(r)
       \/ SetAdType(r) \/ GetFreq(r) \/ Caps(r) \/ Search(r) \/ Fuyu(r)
       \/ IncrPreClickFreq(r) \/ IncrFreq(r) \/ Answer(r)
  \/ Tick \/ Complete

Spec == Init /\ [][Next]_vars
-----------------------------------------------------------------------------
(* One pre-click per package and day is what the filters ask for.  What they
   can promise is one for each request that searched before the first of them
   was counted, and one for each request that could not or did not ask and for
   each count that was lost on the way to redis. *)
PreclickBounded ==
  \A p \in Pkgs : given[p] <= Cardinality(Requests) + blind + lost

(* At midnight the counts of the day are gone, however often the user came
   back, whichever period each expiry was for, and though some writes were
   lost; unless no expiry came with them (the connection broke between HINCRBY
   and EXPIRE on a new hash), or the last that came had been computed before
   the clock moved: then they hold the user back the next day (IncrFreq,
   IncrPreClickFreq). *)
EndsWithTheDay == [][clock' < clock /\ ~loose => \A p \in Pkgs : pfreq'[p] = 0]_vars

V4 == {videoCreativeHandler, videoAdHandler, videov4NativeHandler}

(* An ad of the handlers before v4 is held against the counts of the type it
   is shown and counted under, not those of the type the client named. *)
CapOfServedType ==
  \A r \in Requests :
    At(r, "answer") /\ handler[r] \notin V4 => key[r] \in {type[r], None}

(* A client that names the type and the slot it gets sees no rewarded video
   of a slot whose videos it had watched up to the cap when it asked. *)
CompletesCappedAsAsked ==
  \A r \in Requests :
    /\ At(r, "answer") /\ handler[r] \in VideoHandlers /\ type[r] = "7" /\ key[r] # None
    /\ asked[r] = "7" /\ askedSlot[r] = slot[r]
    => slot[r] \notin over[r]

(* Both: what the key of the counts, made early and not always again, can
   still promise when the type or the slot of the request has been replaced
   (NewContext, GetFreq, SetAdType, getVideoTplAndUpdateSlot). *)
CapsAsKeyed == CapOfServedType /\ CompletesCappedAsAsked

(* cap: "how many videos a user may watch to the end per slot and day". *)
CompletesCapped ==
  \A r \in Requests :
    At(r, "answer") /\ handler[r] \in VideoHandlers /\ type[r] = "7" /\ key[r] # None
    => slot[r] \notin over[r]
=============================================================================
