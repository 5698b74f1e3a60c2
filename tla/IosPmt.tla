------------------------------- MODULE IosPmt -------------------------------
(***************************************************************************)
(* Package ios_pmt: /iconf/get tells a client on iOS which private names   *)
(* it may look for (the dictionary) and which installed applications (the  *)
(* bundles).  It reads the switches the publisher tables set, the global   *)
(* generator of random numbers, which it reseeds to derive the key of the  *)
(* dictionary, and the bundles a loop downloads.                           *)
(***************************************************************************)
EXTENDS Integers, Sequences

CONSTANTS
  Requests,
  Clients,      \* what a request may say: [slot, os, sdk], the versions sequences of numbers
  MaxContents   \* bound: the contents the bundle file has over time

Version == UNION {[1..n -> 0..99] : n \in 1..3}

ASSUME IosPmtAssumption ==
  /\ Clients # {} /\ MaxContents \in Nat \ {0}
  /\ \A c \in Clients : c.os \in Version /\ c.sdk \in [1..3 -> 0..99]

VARIABLES
  gVerMap,   \* the keys that are on; a request finds the one of its
             \* app version, of its client version and of its slot
  rng,       \* math/rand's global source: seeded with 42 just now, or used since
  req,       \* request -> its client, where its handler is, its answer
  remote,    \* the content of the bundle object in S3
  file,      \* the local file: a content, or part of one
  bundles,   \* gBundleMap and gMd5Str, by the content they come from
  loop       \* updateBundleWithLock: where it is and how long it sleeps

iosVars == <<gVerMap, rng, req, remote, file, bundles, loop>>

-----------------------------------------------------------------------------
(* Versions: the handler compares some as strings, some by number.  A      *)
(* character is its digit, and the dot, which sorts below digits, is -1.   *)

Digits(n) == IF n < 10 THEN <<n>> ELSE <<n \div 10, n % 10>>
Dotted(v, i) == IF i <= Len(v) THEN <<-1>> \o Digits(v[i]) ELSE <<>>
String(v) == Digits(v[1]) \o Dotted(v, 2) \o Dotted(v, 3)

StringLess(s, t) ==
  \E i \in 1..(Len(t)) :
    /\ i <= Len(s) + 1
    /\ \A j \in 1..(i - 1) : s[j] = t[j]
    /\ i = Len(s) + 1 \/ s[i] < t[i]

(* GetOsVersion, osVersionEnableBundleList: the number before the dot. *)
Major(os) == os[1]

-----------------------------------------------------------------------------
Keys == {"slot-sdk-app", "slot-sdk-client", "slot-*"}
Partial == 0
Contents == 1..MaxContents
NoBundles == -1

(* The empty body is that of the answer made for one customer. *)
Answers == [err : {"none", "unused", "empty", "panic", "ok"}, dict : {"none", "ios11", "ios12"},
            webViews : {"none", "worker", "noWorker"}, bundles : {NoBundles} \cup Contents]
NoAnswer == [err |-> "none", dict |-> "none", webViews |-> "none", bundles |-> NoBundles]
NewResp(err) == [NoAnswer EXCEPT !.err = err, !.webViews = "worker"]

IosTypeOK ==
  /\ gVerMap \subseteq Keys /\ rng \in {"seeded", "used"}
  /\ req \in [Requests ->
       [at : {"idle", "dict", "seeded", "bundles", "done"}, client : Clients, answer : Answers]]
  /\ remote \in Contents /\ file \in Contents \cup {Partial}
  /\ bundles \in [map : Contents, md5 : Contents]
  /\ loop \in [at : {"asleep", "downloaded"}, sleep : {"hour", "tenMinutes"}]

(* InitBundle: the service does not start without the first bundles. *)
IosInit ==
  /\ gVerMap = {} /\ rng = "used"
  /\ req = [r \in Requests |-> [at |-> "idle", client |-> CHOOSE c \in Clients : TRUE, answer |-> NoAnswer]]
  /\ remote = 1 /\ file = 1 /\ bundles = [map |-> 1, md5 |-> 1]
  /\ loop = [at |-> "asleep", sleep |-> "hour"]

-----------------------------------------------------------------------------
(* The publisher tables switch a version on or off (StoreVerMap). *)
StoreVerMap(key) ==
  /\ gVerMap' = IF key \in gVerMap THEN gVerMap \ {key} ELSE gVerMap \cup {key}
  /\ UNCHANGED <<rng, req, remote, file, bundles, loop>>

(* Any other handler draws a number. *)
OtherDraw ==
  /\ rng' = "used"
  /\ UNCHANGED <<gVerMap, req, remote, file, bundles, loop>>

-----------------------------------------------------------------------------
(* /iconf/get. *)

(* Mutant: iOS 12 itself is taken for an older one. *)
TooOldAfter12(c) == Major(c.os) > 12 /\ StringLess(String(c.sdk), String(<<3, 2, 4>>))

(* The code of older SDKs crashes on the dictionary of iOS 12. *)
TooOld(c) == ~StringLess(String(c.os), Digits(12)) /\ StringLess(String(c.sdk), String(<<3, 2, 4>>))

(* Those that crash when they report what they found. *)
Crashing(c) == ~StringLess(String(c.sdk), String(<<2, 3, 7>>)) /\ ~StringLess(String(<<2, 4, 6>>), String(c.sdk))

WebViewDict(slot) == IF slot = "noWorker" THEN "noWorker" ELSE "worker"

Finish(r, answer) == req' = [req EXCEPT ![r].at = "done", ![r].answer = answer]
Goto(r, at) == req' = [req EXCEPT ![r].at = at]
handler == <<gVerMap, remote, file, bundles, loop>>

(* Whether the address is in the bloom filter, and which of the three keys *)
(* are the request's, is not for the handler to choose.                    *)
IconfGet(r, c) ==
  /\ req[r].at = "idle"
  /\ \E on \in {gVerMap # {}, FALSE} :
       req' = [req EXCEPT ![r] =
         IF ~on \/ TooOld(c) THEN [at |-> "done", client |-> c, answer |-> NewResp("unused")]
         ELSE IF c.slot = "tcash" THEN [at |-> "done", client |-> c, answer |-> [NoAnswer EXCEPT !.err = "empty"]]
         ELSE [at |-> "dict", client |-> c,
               answer |-> [NewResp("ok") EXCEPT !.webViews = WebViewDict(c.slot)]]]
  /\ UNCHANGED <<rng, handler>>

(* textDecrypt: the key is the first number after seeding with 42.  *)
Seed(r) ==
  /\ req[r].at = "dict"
  /\ rng' = "seeded" /\ Goto(r, "seeded")
  /\ UNCHANGED handler

(* Another number is not the key, what it decrypts is no JSON, and the     *)
(* handler panics.                                                         *)
textDecrypt(r) ==
  /\ req[r].at = "seeded"
  /\ rng' = "used"
  /\ \/ /\ rng = "seeded"
        /\ req' = [req EXCEPT ![r].at = "bundles",
                              ![r].answer.dict = IF Major(req[r].client.os) >= 12 THEN "ios12" ELSE "ios11"]
     \/ rng = "used" /\ Finish(r, [NoAnswer EXCEPT !.err = "panic"])
  /\ UNCHANGED handler

(* The country of the address may not be known, and the bundles of the     *)
(* country may be none.                                                    *)
GetBundlesWithCountry(r) ==
  /\ req[r].at = "bundles"
  /\ LET c == req[r].client
         answer == req[r].answer
     IN  \E found \in {NoBundles} \cup (IF Major(c.os) >= 11 THEN {bundles.map} ELSE {}) :
           Finish(r, IF Crashing(c) THEN [answer EXCEPT !.dict = "none"]
                     ELSE [answer EXCEPT !.bundles = found])
  /\ UNCHANGED <<rng, handler>>

-----------------------------------------------------------------------------
(* updateBundleWithLock. *)

Upload ==
  /\ remote < MaxContents
  /\ remote' = remote + 1
  /\ UNCHANGED <<gVerMap, rng, req, file, bundles, loop>>

(* The file is created anew, so a failure leaves a part of it. *)
Download ==
  /\ loop.at = "asleep"
  /\ \/ file' = remote /\ loop' = [loop EXCEPT !.at = "downloaded"]
     \/ file' = Partial /\ loop' = [loop EXCEPT !.sleep = "tenMinutes"]
  /\ UNCHANGED <<gVerMap, rng, req, remote, bundles>>

(* The same content leaves the sleep as it is. *)
Same ==
  /\ loop.at = "downloaded" /\ file = bundles.md5
  /\ loop' = [loop EXCEPT !.at = "asleep"]
  /\ UNCHANGED <<gVerMap, rng, req, remote, file, bundles>>

Publish ==
  /\ loop.at = "downloaded" /\ file # bundles.md5
  /\ \/ /\ bundles' = [map |-> file, md5 |-> file]
        /\ loop' = [at |-> "asleep", sleep |-> "hour"]
     \/ /\ loop' = [at |-> "asleep", sleep |-> "tenMinutes"]  \* it is not read or not JSON
        /\ UNCHANGED bundles
  /\ UNCHANGED <<gVerMap, rng, req, remote, file>>

IosNext ==
  \/ \E key \in Keys : StoreVerMap(key)
  \/ OtherDraw
  \/ \E r \in Requests :
       \/ \E c \in Clients : IconfGet(r, c)
       \/ Seed(r) \/ textDecrypt(r) \/ GetBundlesWithCountry(r)
  \/ Upload \/ Download \/ Same \/ Publish

IosSpec == IosInit /\ [][IosNext]_iosVars

-----------------------------------------------------------------------------
(* Properties. *)

Older(v, w) ==
  \E i \in 1..3 : v[i] < w[i] /\ \A j \in 1..(i - 1) : v[j] = w[j]
SingleDigits(v) == \A i \in DOMAIN v : v[i] < 10

(* No client gets a dictionary that crashes it, whatever the order in      *)
(* which requests seed and draw: it is the one of its iOS, an SDK before   *)
(* 3.2.4 never gets that of iOS 12, and those from 2.3.7 to 2.4.6 get none *)
(* and no bundles, as far as their versions have single digits.  And       *)
(* bundles go to iOS 11 and later only, from a file that was read whole.   *)
OldSdkSafe ==
  \A r \in Requests :
    LET c == req[r].client
        answer == req[r].answer
    IN  req[r].at = "done" =>
          /\ answer.dict = "ios12" => Major(c.os) >= 12 /\ ~Older(c.sdk, <<3, 2, 4>>)
          /\ answer.dict = "ios11" => Major(c.os) < 12
          /\ SingleDigits(c.sdk) /\ ~Older(c.sdk, <<2, 3, 7>>) /\ ~Older(<<2, 4, 6>>, c.sdk) =>
               answer.dict = "none" /\ answer.bundles = NoBundles
          /\ answer.bundles # NoBundles => Major(c.os) >= 11 /\ answer.bundles # Partial

=============================================================================
