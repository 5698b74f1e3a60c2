----------------------------- MODULE Rendering ------------------------------
(***************************************************************************)
(* From the offers a search has found to the ads of the answer: which      *)
(* offers are selected (packages rank and rank/video), which creative of   *)
(* each is shown, and which its tracking links name (package raw_ad).      *)
(*                                                                         *)
(* The offers are those of the published index: every request holds        *)
(* pointers to the same objects.  Most handlers make a copy of the struct  *)
(* before they render, whose slices still share their memory with it; the  *)
(* page of the jstag renders the published objects themselves.             *)
(*                                                                         *)
(* The offers are of channels that GetChannelClkUrlGenerator knows: of any *)
(* other channel every renderer makes nothing.                             *)
(***************************************************************************)
EXTENDS Integers, Sequences, FiniteSets, Functions

CONSTANTS
  AdRequests,
  Asked,       \* request -> what it may ask: [kind, want, num, cids], how many ads, and the
               \* ids of the creatives it has
  RawAds,
  Material,    \* offer -> its pictures, the keys of the map they are in, rendered pictures,
               \* videos and icon
  White,       \* the offers with IsT
  Affiliated,  \* those of the channels that PreProcess attaches an argument to
  Adapters,    \* size -> what a page ad may be made of: sets of parts
  Wants,       \* the sizes of pictures: [ratio, exact]
  MaxReply     \* bound: request -> the ads in a reply of the rank service to it

VARIABLES
  pub,    \* published offer -> the id of its CreativeChosen, "" if nil or without one
  spare,  \* published offer -> who has written behind the end of its AttachArgs
  renderReq     \* request -> its handler's variables

renderVars == <<pub, spare, renderReq>>

-----------------------------------------------------------------------------
(* Creatives.  A picture has an id, a language, the ratio of its sides and *)
(* an area; a ratio is near another when they differ by at most one unit.  *)
(* The lists of pictures are in a map by language, or by country for some, *)
(* and may be empty.  A rendered picture is known by its ratio and has no  *)
(* id.  The functions that draw return what they may return, {} being nil. *)

Apart(a, b) == IF a < b THEN b - a ELSE a - b

Match(picture, want) ==
  Apart(picture.ratio, want.ratio) <= (IF want.exact THEN 0 ELSE 1)

(* One of the largest; of several of the same size any. *)
GetMaxMatchedImg(o, lang, want) ==
  LET matched == {p \in Material[o].pictures : p.lang = lang /\ Match(p, want)}
  IN  {p \in matched : \A q \in matched : q.area <= p.area}

(* The client's language, or else all. *)
InLang(things) ==
  IF \E t \in things : t.lang = "en" THEN {t \in things : t.lang = "en"}
  ELSE {t \in things : t.lang = "ALL"}

HasMatchedCreative(o, want) ==
  /\ Material[o].keys # {}
  /\ \/ \E lang \in {"en", "ALL"} : GetMaxMatchedImg(o, lang, want) # {}
     \/ want.ratio \in Material[o].renders

getMatchedCreative(o, want) ==
  LET own == GetMaxMatchedImg(o, "en", want)
      creative == IF own # {} THEN own ELSE GetMaxMatchedImg(o, "ALL", want)
      Closer(p) == \E x \in Material[o].renders : Apart(x, want.ratio) < Apart(p.ratio, want.ratio)
  IN  IF creative # {} THEN {IF Closer(p) THEN "" ELSE p.id : p \in creative}
      ELSE IF Material[o].renders # {} THEN {""} ELSE {}

HasIcon(o) == Material[o].icon = "icon"  \* getMatchedIcon is not nil
GetVideos(o) == InLang(Material[o].videos)

(* Of the shape of the screen, or else any. *)
TryGetMatchedVideo(o, wide) ==
  LET fit == {v \in GetVideos(o) : v.wide = wide}
  IN  {v.id : v \in IF fit # {} THEN fit ELSE GetVideos(o)}
getMatchedVideo(o, wide) == {v.id : v \in {w \in GetVideos(o) : w.wide = wide}}

HasMatchedNativeVideo(o, want) ==
  Material[o].videos # {} /\ HasMatchedCreative(o, want) /\ HasIcon(o) /\ GetVideos(o) # {}

getVideoByCids(o, cids) == {v.id : v \in {w \in Material[o].videos : w.lang = "ALL" /\ w.id \in cids}}
getImageByCids(o, cids) == {p.id : p \in {w \in Material[o].pictures : w.lang = "ALL" /\ w.id \in cids}}
HasVideo(o, cids) == getVideoByCids(o, cids) # {}

VideoGetMacthedImg(o, want) ==
  LET near == [want EXCEPT !.exact = FALSE]
      own == GetMaxMatchedImg(o, "en", near)
  IN  {p.id : p \in IF own # {} THEN own ELSE GetMaxMatchedImg(o, "ALL", near)}

(* A part of no size matches whatever the offer has, and shows nothing.    *)
PartOf(o, part, exact) ==
  CASE part.cat = "i" -> getMatchedCreative(o, [ratio |-> part.ratio, exact |-> exact])
    [] part.cat = "v" -> getMatchedVideo(o, part.wide)
    [] OTHER -> {}
MatchedAdpaters(o, want) ==
  {a \in Adapters[want] : HasIcon(o) /\ \A part \in a : part.cat = "none" \/ PartOf(o, part, want.exact) # {}}

-----------------------------------------------------------------------------
(* The handlers: how they filter, select and render. *)

Kind(filter, select, render) == [filter |-> filter, select |-> select, render |-> render]
Kinds == [
  retrieval |-> Kind("picture", "Select", "ToAd"),
  realtime |-> Kind("picture", "Select", "ToNativeAd"),
  wugan |-> Kind("any", "SelectWg", "ToNativeAdUnseen"),
  fuyu |-> Kind("any", "copies", "ToNativeAdCleared"),
  promotion |-> Kind("any", "copies", "ToNativeAdUnseen"),
  life |-> Kind("any", "SelectWg", "ToLifeAd"),
  video |-> Kind("nativeVideo", "Select", "ToVideoAd"),
  videoAd |-> Kind("cachedVideo", "videoSelect", "ToVideoV4Ad"),
  videov4Native |-> Kind("nativeVideo", "Select", "ToNativeVideoV4Ad"),
  interstitial |-> Kind("nativeVideo", "RandCopy", "ToInterstitialAd"),
  pagead |-> Kind("adapter", "Select", "ToPageadBanner"),
  jstagH5 |-> Kind("picture", "pointers", "ToNativeAd"),
  jstagMedia |-> Kind("commonPicture", "copies", "ToJsMediaAd")]

(* What the offers are made of, and what is asked of them. *)
Picture == [id : STRING, lang : STRING, ratio : Int, area : Int]
Video == [id : STRING, lang : STRING, wide : STRING]
Part == [cat : {"i"}, ratio : Int] \cup [cat : {"v"}, wide : STRING] \cup [cat : {"none"}]
Ask == [kind : DOMAIN Kinds, want : Wants, num : Nat, cids : SUBSET STRING]

ASSUME RenderingAssumption ==
  /\ IsFiniteSet(RawAds)
  /\ Wants # {} /\ Wants \subseteq [ratio : Int, exact : BOOLEAN]
  /\ Material \in [RawAds -> [pictures : SUBSET Picture, keys : SUBSET STRING, renders : SUBSET Int,
                            videos : SUBSET Video, icon : {"icon", "none"}]]
  /\ \A o \in RawAds : /\ \A p \in Material[o].pictures : p.id # "chosen" /\ p.lang \in Material[o].keys
                       /\ \A v \in Material[o].videos : v.id # "chosen"
  /\ \A w \in Wants : \A a \in Adapters[w] : a # {} /\ a \subseteq Part
  /\ Asked \in [AdRequests -> SUBSET Ask]
  /\ MaxReply \in [AdRequests -> Nat]

Found(o, kind, want, cids) ==
  LET filter == Kinds[kind].filter
  IN  CASE filter = "picture" -> HasMatchedCreative(o, want)
        [] filter = "nativeVideo" -> HasMatchedNativeVideo(o, want)
        [] filter = "cachedVideo" -> HasVideo(o, cids)
        [] filter = "adapter" -> MatchedAdpaters(o, want) # {}
        [] filter = "commonPicture" -> \E p \in Material[o].pictures : p.lang = "ALL"
        [] OTHER -> TRUE

(* The orders a set of offers may be found, shuffled or ranked in. *)
Orders(S) == {s \in [1..Cardinality(S) -> S] : \A i, j \in DOMAIN s : s[i] = s[j] => i = j}
SomeOf(S) == UNION {Orders(T) : T \in SUBSET S}

First(s, n) == SubSeq(s, 1, IF n < Len(s) THEN n ELSE Len(s))

(* Those of s that are in S, in the order of s; s has nothing twice. *)
InOrder(s, S) ==
  {t \in Orders(Range(s) \cap S) :
     \A i, j \in DOMAIN t : i < j => \E k, n \in DOMAIN s : k < n /\ s[k] = t[i] /\ s[n] = t[j]}

(* The white ones first; at least one of the others, so there may be one   *)
(* too many.                                                               *)
randomCopy(found, num) ==
  IF num >= Len(found) THEN {found}
  ELSE LET Room(white) == IF num - Len(white) < 1 THEN 1 ELSE num - Len(white)
       IN  UNION {{First(white, num) \o First(others, Room(First(white, num))) :
                     others \in InOrder(found, Range(found) \ White)} :
                  white \in InOrder(found, White)}

RandCopy(found, num) ==
  IF num > Len(found) THEN {found} ELSE {s \in SomeOf(Range(found)) : Len(s) = num}

-----------------------------------------------------------------------------
(* A request.  Its raws are copies, or the published objects themselves.   *)

Idle == [pos |-> "idle", kind |-> "retrieval", want |-> CHOOSE w \in Wants : TRUE, num |-> 0, cids |-> {},
         found |-> <<>>, reply |-> "none", todo |-> <<>>, raws |-> <<>>, shown |-> {}, tracked |-> {},
         answers |-> <<>>]

Ids ==
  {""} \cup UNION {{p.id : p \in Material[o].pictures} \cup {v.id : v \in Material[o].videos} : o \in RawAds}
Owners == AdRequests \cup {"aff"}
Raw ==
  [offer : RawAds, at : {"published", "spare", "own", "pointer"}, own : SUBSET Owners,
   chosen : Ids, video : Ids]

Answer == [offer : RawAds, shown : SUBSET Ids, tracked : SUBSET Ids, args : SUBSET (Owners \cup {"none"})]
Request ==
  [pos : {"idle", "asked", "e", "po", "show", "track", "done", "panic"},
   kind : DOMAIN Kinds, want : Wants, num : Nat, cids : SUBSET STRING,
   found : Seq(RawAds), reply : {"none", "asAsked", "other"}, todo : Seq(RawAds), raws : Seq(Raw),
   shown : SUBSET Ids, tracked : SUBSET (Ids \cup {"chosen"}), answers : Seq(Answer)]

RenderTypeOK ==
  /\ pub \in [RawAds -> Ids] /\ spare \in [RawAds -> Owners \cup {"none"}]
  /\ renderReq \in [AdRequests -> Request]

RenderInit ==
  /\ pub = [o \in RawAds |-> ""] /\ spare = [o \in RawAds |-> "none"]
  /\ renderReq = [r \in AdRequests |-> Idle]

Attached(o) == IF o \in Affiliated THEN {"aff"} ELSE {}  \* PreProcess

(* Mutant: offers are made by NewRawAdObj, with room for one argument. *)
SpareCapacityOfNew(o) == IF o \in Affiliated THEN 0 ELSE 1

(* An offer is decoded into a struct without arguments, and PreProcess     *)
(* appends one or none: the capacity of AttachArgs is its length.          *)
SpareCapacity(o) == 0

(* append(raw.AttachArgs, ...) by r: into the memory of the published      *)
(* offer while there is room behind its end.                               *)
AppendArg(raw, r) ==
  CASE raw.at = "published" /\ SpareCapacity(raw.offer) > 0 -> [raw EXCEPT !.at = "spare"]
    [] raw.at = "published" -> [raw EXCEPT !.at = "own", !.own = Attached(raw.offer) \cup {r}]
    [] raw.at = "spare" -> [raw EXCEPT !.at = "own", !.own = Attached(raw.offer) \cup {spare[raw.offer], r}]
    [] OTHER -> [raw EXCEPT !.own = @ \cup {r}]
WritesBehind(raw, r) ==
  spare' = IF raw.at = "published" /\ SpareCapacity(raw.offer) > 0
           THEN [spare EXCEPT ![raw.offer] = r] ELSE spare

ArgsOf(raw) ==
  CASE raw.at = "own" -> raw.own
    [] raw.at = "spare" -> Attached(raw.offer) \cup {spare[raw.offer]}
    [] OTHER -> Attached(raw.offer)

(* rawObj := *raw *)
CopyOf(o) == [offer |-> o, at |-> "published", own |-> {}, chosen |-> pub[o], video |-> ""]
PointerTo(o) == [CopyOf(o) EXCEPT !.at = "pointer"]
Copies(s) == [i \in DOMAIN s |-> CopyOf(s[i])]
Pointers(s) == [i \in DOMAIN s |-> PointerTo(s[i])]

Set(r, q) == renderReq' = [renderReq EXCEPT ![r] = q]

-----------------------------------------------------------------------------
(* Search and selection. *)

(* The realtime handler offers no more to the rank service than it needs. *)
Search(r, ask) ==
  /\ renderReq[r].pos = "idle"
  /\ \E found \in SomeOf({o \in RawAds : Found(o, ask.kind, ask.want, ask.cids)}) :
       Set(r, [Idle EXCEPT !.pos = IF found = <<>> THEN "done" ELSE "asked", !.kind = ask.kind,
                           !.want = ask.want, !.num = ask.num, !.cids = ask.cids,
                           !.found = IF ask.kind = "realtime" THEN First(found, ask.num) ELSE found])
  /\ UNCHANGED <<pub, spare>>

Asks(r, select) == renderReq[r].pos = "asked" /\ Kinds[renderReq[r].kind].select = select

Render(r, raws) ==
  Set(r, [renderReq[r] EXCEPT !.pos = IF raws = <<>> THEN "done" ELSE "show", !.raws = raws])

(* The page of the jstag: an offer that was found with a picture, and the  *)
(* wall, of whatever another search finds, also that one again.            *)
Page(q) == {<<q.found[i]>> \o wall : i \in DOMAIN q.found, wall \in {w \in SomeOf(RawAds) : Len(w) < q.num}}

(* What asks no rank service.  The page is rendered where its offers are.  *)
SelectLocally(r) ==
  /\ \/ Asks(r, "copies") /\ Render(r, Copies(renderReq[r].found))
     \/ Asks(r, "pointers") /\ \E s \in Page(renderReq[r]) : Render(r, Pointers(s))
     \/ Asks(r, "RandCopy") /\ \E s \in RandCopy(renderReq[r].found, 1) : Render(r, Copies(s))
  /\ UNCHANGED <<pub, spare>>

(* The strategy for displays, and after every kind of error. *)
SelectRandomly(r) ==
  /\ Asks(r, "Select") \/ Asks(r, "SelectWg")
  /\ \E s \in randomCopy(renderReq[r].found, renderReq[r].num) : Render(r, Copies(s))
  /\ UNCHANGED <<pub, spare>>

(* SelectWg does not ask for the white ones. *)
createPostDataWg(found) == [white : InOrder(found, White), offers : {Range(found) \ White}]

(* The ads of a reply are matched with all that was found, as many as the  *)
(* reply says; nothing keeps the service from naming an offer twice, or    *)
(* more than it was asked for.  `reply` remembers whether it did.          *)
Replies(r, S) == UNION {[1..n -> S] : n \in 0..MaxReply[r]}
AsAsked(s, offers, num) ==
  /\ Range(s) \subseteq offers /\ Len(s) <= num
  /\ \A i, j \in DOMAIN s : s[i] = s[j] => i = j

Ranked(r, raws, s, offers, num) ==
  Set(r, [renderReq[r] EXCEPT !.pos = IF s # <<>> THEN "e" ELSE IF raws # <<>> THEN "show" ELSE "done",
                              !.raws = raws, !.todo = s,
                              !.reply = IF AsAsked(s, offers, num) THEN "asAsked" ELSE "other"])

(* SelectWg puts the white ones first, if it is told of any offer at all.  *)
RankAnswers(r) ==
  /\ LET found == Range(renderReq[r].found)
     IN  \/ /\ Asks(r, "Select") \/ Asks(r, "videoSelect")
            /\ \E s \in Replies(r, found) : Ranked(r, <<>>, s, found, renderReq[r].num)
         \/ /\ Asks(r, "SelectWg")
            /\ \E post \in createPostDataWg(renderReq[r].found) :
                 \/ post.offers = {} /\ Render(r, Copies(post.white))
                 \/ post.offers # {} /\ Render(r, <<>>)
                 \/ /\ post.offers # {}
                    /\ \E s \in Replies(r, found) :
                         Ranked(r, Copies(post.white), s, post.offers, Cardinality(post.offers))
  /\ UNCHANGED <<pub, spare>>

(* Mutant: as in package rank, the client has no timeout. *)
VideoRankWaits(r) == FALSE /\ UNCHANGED renderVars

(* No answer within 50 ms, an error, or no offers.  *)
VideoRankFails(r) ==
  /\ Asks(r, "videoSelect")
  /\ \E s \in RandCopy(renderReq[r].found, renderReq[r].num) : Render(r, Copies(s))
  /\ UNCHANGED <<pub, spare>>

(* The ranked offers are copied one by one, and "e=" and "po=" attached.   *)
(* In a video request the rank service may have chosen one of the client's *)
(* videos.                                                                 *)
AttachEstimate(r) ==
  /\ renderReq[r].pos = "e"
  /\ LET raw == CopyOf(Head(renderReq[r].todo))
     IN  /\ \E v \in {""} \cup (IF Kinds[renderReq[r].kind].select # "videoSelect" THEN {}
                                ELSE getVideoByCids(raw.offer, renderReq[r].cids)) :
              Set(r, [renderReq[r] EXCEPT !.pos = "po", !.todo = Tail(@),
                        !.raws = Append(@, [AppendArg(raw, r) EXCEPT !.video = v])])
         /\ WritesBehind(raw, r)
  /\ UNCHANGED pub

LastRaw(r) == renderReq[r].raws[Len(renderReq[r].raws)]

AttachPayout(r) ==
  /\ renderReq[r].pos = "po"
  /\ Set(r, [renderReq[r] EXCEPT !.pos = IF renderReq[r].todo = <<>> THEN "show" ELSE "e",
                           !.raws = [@ EXCEPT ![Len(renderReq[r].raws)] = AppendArg(LastRaw(r), r)]])
  /\ WritesBehind(LastRaw(r), r)
  /\ UNCHANGED pub

-----------------------------------------------------------------------------
(* Renderers: what each shows of an offer, and what it will name in the    *)
(* tracking links: a creative, or "chosen" for what CreativeChosen is when *)
(* the links are made.                                                     *)

Ad(shown, chosen, tracked) == [fate |-> "ad", shown |-> shown, chosen |-> chosen, tracked |-> tracked]
Nothing(raw) == [fate |-> "nil", shown |-> {}, chosen |-> raw.chosen, tracked |-> {}]
Panic(raw) == [Nothing(raw) EXCEPT !.fate = "panic"]
Unseen(raw) == {Ad({}, raw.chosen, {"chosen"})}

(* A template with no, one or two places for pictures; a place that no     *)
(* picture matches is left as it is.                                       *)
ReplaceTpl(raw) ==
  LET pictures == UNION {getMatchedCreative(raw.offer, w) : w \in Wants}
  IN  Unseen(raw) \cup {Ad({p, last}, last, {"chosen"}) : p, last \in pictures}
ToAd(raw) == ReplaceTpl(raw)

ToNativeAd(raw, want) ==
  LET pictures == getMatchedCreative(raw.offer, want)
  IN  IF pictures = {} THEN Unseen(raw) ELSE {Ad({p}, p, {"chosen"}) : p \in pictures}

(* Its Core, with the picture, is cleared; the links name it.              *)
ToNativeAdCleared(raw, want) ==
  Unseen(raw) \cup {Ad({}, p, {"chosen"}) : p \in getMatchedCreative(raw.offer, want)}

ToLifeAd(raw) == IF HasIcon(raw.offer) THEN {Ad({}, raw.chosen, {})} ELSE {Nothing(raw)}

ToVideoAd(raw, want) ==
  LET pictures == getMatchedCreative(raw.offer, want)
  IN  IF ~HasIcon(raw.offer) \/ GetVideos(raw.offer) = {} THEN {Nothing(raw)}
      ELSE {Ad({v} \cup pictures, raw.chosen, {v}) : v \in TryGetMatchedVideo(raw.offer, "wide")}

(* A picture and a video, of those the client has if possible. *)
VideoChoseCreatives(raw, want, cids) ==
  LET cached == getImageByCids(raw.offer, cids)
      images == IF cached # {} THEN cached ELSE VideoGetMacthedImg(raw.offer, want)
      videos == IF raw.video # "" THEN {raw.video} ELSE getVideoByCids(raw.offer, cids)
  IN  {[image |-> i, video |-> v] : i \in images, v \in videos}

(* The icon is not asked for before it is used. *)
ToVideoV4Ad(raw, want, cids) ==
  LET choices == VideoChoseCreatives(raw, want, cids)
  IN  CASE choices = {} -> {Nothing(raw)}
        [] choices # {} /\ ~HasIcon(raw.offer) -> {Panic(raw)}
        [] OTHER -> {Ad({c.image, c.video}, raw.chosen, {c.video}) : c \in choices}

ToNativeVideoV4Ad(raw, want) ==
  LET pictures == getMatchedCreative(raw.offer, want)
  IN  IF pictures = {} \/ ~HasIcon(raw.offer) \/ GetVideos(raw.offer) = {} THEN {Nothing(raw)}
      ELSE {Ad({p, v}, raw.chosen, {v}) : p \in pictures, v \in TryGetMatchedVideo(raw.offer, "wide")}

(* ChoseInterstitialCreative, and a template of a video or of a picture    *)
(* that may have a place for another one.                                  *)
ToInterstitialAd(raw, want) ==
  LET pictures == getMatchedCreative(raw.offer, want)
      more == UNION {getMatchedCreative(raw.offer, w) : w \in Wants}
      videos == TryGetMatchedVideo(raw.offer, "wide")
  IN  IF pictures = {} \/ ~HasIcon(raw.offer) \/ videos = {} THEN {Nothing(raw)}
      ELSE {Ad({p, v}, raw.chosen, {v}) : p \in pictures, v \in videos}
           \cup {Ad({p, another}, another, {p}) : p \in pictures, another \in more}

(* choseAdapterCreative: a picture and a video at most, or neither. *)
ToPageadBanner(raw, want) ==
  LET Parts(a, cat) == UNION {PartOf(raw.offer, part, want.exact) : part \in {p \in a : p.cat = cat}}
      One(S) == IF S = {} THEN {{}} ELSE {{c} : c \in S}
      Of(a) == {i \cup v : i \in One(Parts(a, "i")), v \in One(Parts(a, "v"))}
      shown == UNION {Of(a) : a \in MatchedAdpaters(raw.offer, want)}
  IN  IF shown = {} THEN {Nothing(raw)} ELSE {Ad(s, raw.chosen, s) : s \in shown}

(* The list of the client's country, though it may be empty, before that   *)
(* of all; a picture is drawn with rand.Intn(0) then.                      *)
NoneForCountry(o) ==
  "US" \in Material[o].keys /\ \A p \in Material[o].pictures : p.lang # "US"
ToJsMediaAd(raw) ==
  LET key == IF "US" \in Material[raw.offer].keys THEN "US" ELSE "ALL"
      list == {p \in Material[raw.offer].pictures : p.lang = key}
  IN  CASE key \notin Material[raw.offer].keys -> {Nothing(raw)}
        [] key \in Material[raw.offer].keys /\ list = {} -> {Panic(raw)}
        [] OTHER -> {Ad({p.id}, raw.chosen, {p.id}) : p \in list}

Results(q, raw) ==
  LET render == Kinds[q.kind].render
  IN  CASE render = "ToAd" -> ToAd(raw)
        [] render = "ToNativeAd" -> ToNativeAd(raw, q.want)
        [] render = "ToNativeAdUnseen" -> Unseen(raw)
        [] render = "ToNativeAdCleared" -> ToNativeAdCleared(raw, q.want)
        [] render = "ToLifeAd" -> ToLifeAd(raw)
        [] render = "ToVideoAd" -> ToVideoAd(raw, q.want)
        [] render = "ToVideoV4Ad" -> ToVideoV4Ad(raw, q.want, q.cids)
        [] render = "ToNativeVideoV4Ad" -> ToNativeVideoV4Ad(raw, q.want)
        [] render = "ToInterstitialAd" -> ToInterstitialAd(raw, q.want)
        [] render = "ToPageadBanner" -> ToPageadBanner(raw, q.want)
        [] OTHER -> ToJsMediaAd(raw)

(* The renderers that append to raw.AttachArgs; the others join them with  *)
(* their own, or leave them out.                                           *)
AppendsArgs == {"ToAd", "ToVideoAd", "ToVideoV4Ad", "ToNativeVideoV4Ad", "ToInterstitialAd"}
LeavesArgs == {"ToPageadBanner", "ToJsMediaAd"}
Tagged(q, raw, r) == IF Kinds[q.kind].render \in AppendsArgs THEN AppendArg(raw, r) ELSE raw

NextRaw(q, answers) ==
  [q EXCEPT !.pos = IF Len(q.raws) = 1 THEN "done" ELSE "show", !.raws = Tail(@), !.shown = {},
            !.tracked = {}, !.answers = answers]

(* The creative is drawn, and written to the raw. *)
Show(r) ==
  /\ renderReq[r].pos = "show"
  /\ LET q == renderReq[r]
         raw == Head(q.raws)
     IN  \E x \in Results(q, raw) :
           CASE x.fate = "nil" -> Set(r, NextRaw(q, q.answers)) /\ UNCHANGED <<pub, spare>>
             [] x.fate = "panic" ->
                  Set(r, [Idle EXCEPT !.pos = "panic", !.kind = q.kind]) /\ UNCHANGED <<pub, spare>>
             [] OTHER ->
                  LET tagged == [Tagged(q, raw, r) EXCEPT !.chosen = x.chosen]
                  IN  /\ Set(r, [q EXCEPT !.pos = "track", !.raws = [@ EXCEPT ![1] = tagged],
                                          !.shown = x.shown, !.tracked = x.tracked])
                      /\ pub' = IF raw.at = "pointer" THEN [pub EXCEPT ![raw.offer] = x.chosen] ELSE pub
                      /\ IF Kinds[q.kind].render \in AppendsArgs THEN WritesBehind(raw, r)
                         ELSE UNCHANGED spare

(* The links are made, and the ad is added to the answer. *)
Track(r) ==
  /\ renderReq[r].pos = "track"
  /\ LET q == renderReq[r]
         raw == Tagged(q, Head(q.raws), r)
         chosen == IF raw.at = "pointer" THEN pub[raw.offer] ELSE raw.chosen
         answer == [offer |-> raw.offer, shown |-> q.shown,
                    tracked |-> IF q.tracked = {"chosen"} THEN {chosen} ELSE q.tracked,
                    args |-> IF Kinds[q.kind].render \in LeavesArgs THEN {r} ELSE ArgsOf(raw) \cup {r}]
     IN  Set(r, NextRaw(q, Append(q.answers, answer)))
  /\ UNCHANGED <<pub, spare>>

Handler(r) ==
  \/ SelectLocally(r) \/ VideoRankFails(r)
  \/ AttachEstimate(r) \/ AttachPayout(r) \/ Show(r) \/ Track(r)

RenderNext ==
  \E r \in AdRequests :
    \/ \E ask \in Asked[r] : Search(r, ask)
    \/ RankAnswers(r) \/ SelectRandomly(r) \/ Handler(r)

(* A handler goes on as long as it waits for nobody.  Package rank waits   *)
(* for the rank service as long as that takes.                             *)
RenderFairness == \A r \in AdRequests : WF_renderVars(Handler(r))
RenderSpec == RenderInit /\ [][RenderNext]_renderVars /\ RenderFairness

-----------------------------------------------------------------------------
(* Properties. *)

AnswersOf(r) == Range(renderReq[r].answers)
IsDone(r) == renderReq[r].pos = "done"

(* The ads are of offers that were found.  They are of different ones, and *)
(* after an error of the rank service one more than asked for at most,     *)
(* unless the service names an offer twice, one of the white ones it was   *)
(* not asked for, or more than it was asked for: the handlers go by what   *)
(* it says.  Only the page of the jstag, which makes two searches, shows   *)
(* other offers, or one twice.                                             *)
OffersOfTheSearch ==
  \A r \in {k \in AdRequests : renderReq[k].kind # "jstagH5"} :
    LET q == renderReq[r]
    IN  /\ \A a \in AnswersOf(r) : a.offer \in Range(q.found)
        /\ q.reply # "other" =>
             /\ Cardinality({a.offer : a \in AnswersOf(r)}) = Len(q.answers)
             /\ Kinds[q.kind].select = "Select" => Len(q.answers) <= q.num + 1

(* The links of an ad carry the arguments of its own offer and request.    *)
ArgsOfTheRequest ==
  \A r \in AdRequests : \A a \in AnswersOf(r) :
    a.args = {r} \cup (IF Kinds[renderReq[r].kind].render \in LeavesArgs THEN {} ELSE Attached(a.offer))

(* What an ad tracks is what it shows.  When it shows nothing it may name  *)
(* a creative that the page of the jstag has left in the published offer.  *)
(* That page alone renders in place, and may name a picture of the offer   *)
(* that another request has just drawn.                                    *)
TracksWhatItShows ==
  \A r \in AdRequests : \A a \in AnswersOf(r) :
    IF renderReq[r].kind = "jstagH5" \/ a.shown = {}
    THEN a.tracked \subseteq {""} \cup {p.id : p \in Material[a.offer].pictures}
    ELSE a.tracked \subseteq a.shown /\ a.tracked # {}

(* What is made of an offer that the filter of the search has kept: it is  *)
(* shown.  An ad of a page shows nothing if the page may ask for nothing,  *)
(* and the media of the jstag panic for a country with an empty list.  Not *)
(* so for videoAd and life, whose filters ask for less than the renderers, *)
(* nor for the wall of the jstag, which may be of offers without pictures. *)
FoundIsShown ==
  \A r \in AdRequests : \A i \in DOMAIN renderReq[r].raws :
    \A x \in Results(renderReq[r], renderReq[r].raws[i]) :
      LET kind == renderReq[r].kind
          IsShown == x.fate = "ad" /\ x.shown # {}
      IN  /\ kind \in {"realtime", "video", "videov4Native", "interstitial"} => IsShown
          /\ kind = "pagead" => \/ IsShown
                                \/ x.fate = "ad" /\ \E a \in Adapters[renderReq[r].want] : \A p \in a : p.cat = "none"
          /\ kind = "jstagMedia" => \/ IsShown
                                    \/ x.fate = "panic" /\ NoneForCountry(renderReq[r].raws[i].offer)

(* What reaches the client is sound, whatever requests render the same     *)
(* offers at the same time (rank.Select, the renderers of raw_ad).         *)
AnswersAreSound == OffersOfTheSearch /\ ArgsOfTheRequest /\ TracksWhatItShows /\ FoundIsShown

(* A rewarded video is answered, or its handler panics, even if the rank   *)
(* service never answers: the one client with a timeout (rank/video).      *)
VideoAnswered ==
  \A r \in AdRequests : (renderReq[r].kind = "videoAd" /\ renderReq[r].pos = "asked")
                      ~> (renderReq[r].pos \in {"done", "panic"})
=============================================================================
