----------------------------- MODULE OfferIndex -----------------------------
(***************************************************************************)
(* The offer index: update.Service.Serve rebuilds it from the bucket every *)
(* five minutes, and the HTTP handlers search it meanwhile.                *)
(*                                                                         *)
(* A generation is built in a dnf.Handler of its own (s.dnfHandler) and    *)
(* then published with dnf.SetHandler.  A handler is an address: the ones  *)
(* nobody refers to any more are free to be allocated again, as the Go     *)
(* collector does, which keeps the model finite without a bound on time.   *)
(***************************************************************************)
EXTENDS Naturals, Sequences

CONSTANTS
  Channels,    \* the channels the bucket has folders for
  Keys,        \* the data files of the bucket
  TmpKeys,     \* the ones under tmp_test/
  ChannelOf,   \* key -> channel
  Offers,      \* the records the files may hold; what stands in two files is two
  Content,     \* key -> the sequence of offers its file may hold
  Raw,         \* offer -> the fields that decide whether it is indexed
  Handlers,    \* addresses of dnf handlers
  Requests,    \* the requests in flight
  Volatile,    \* bound: the offers that are uploaded and deleted
  Nil

ASSUME OfferIndexAssumption ==
  /\ TmpKeys \subseteq Keys /\ Volatile \subseteq Offers
  /\ ChannelOf \in [Keys -> Channels]
  /\ Content \in [Keys -> Seq(Offers)]
  /\ \A o \in Offers : \E k \in Keys : \E i \in DOMAIN Content[k] : Content[k][i] = o
  /\ \A k, l \in Keys : \A i \in DOMAIN Content[k], j \in DOMAIN Content[l] : Content[k][i] = Content[l][j] => k = l
  /\ Nil \notin Handlers

VARIABLES
  bucket,      \* the offers whose file holds them now
  s3,          \* "up" or "down": whether list and download succeed
  on,          \* s.updateHandlers: the channels set to true
  index,       \* handler -> the documents added to it, in docId order
  published,   \* dnf.GetHandler()
  dnfHandler,  \* s.dnfHandler
  loop,        \* where the goroutine of Serve is
  folder,      \* which folders it goes through, "offer" or "tmp"
  todo,        \* the channels, or keys of tmp_test, it has still to list
  keys,        \* the files of the listed folder it has still to download
  batch,       \* line -> offer: those of the downloaded file it has still to add
  sure,        \* history: offers that nothing keeps from this generation
  seen,        \* history: offers the bucket held during this generation
  at,          \* request -> where its goroutine is
  kind,        \* request -> the kind of handler that serves it
  handler,     \* request -> the handler it took at its beginning
  docs,        \* request -> the docIds its search returned
  hits,        \* history: request -> the documents its filter accepted
  by           \* history: request -> which of its searches gave them

remote == <<bucket, s3>>
build  == <<on, index, dnfHandler, loop, folder, todo, keys, batch, sure, seen>>
served == <<at, kind, handler, docs, hits, by>>
vars   == <<remote, build, published, served>>

KeyOf(o) == CHOOSE k \in Keys : \E i \in DOMAIN Content[k] : Content[k][i] = o
IsTmp(o) == KeyOf(o) \in TmpKeys

Docs == [offer : Offers, isT : {0, 1}]

(* The HTTP handlers, by what their searches accept.  "strict": realtime,  *)
(* appWall, pagead, interstitial and videoCreative drop the offers of      *)
(* tmp_test.  "open": wugan, life, video, videoAd, videov4Native, jstag,   *)
(* jstagH5 and jstagMedia take them.  retrievalHandler drops them in its   *)
(* first search, and then asks cpt ("sdk") or, without an offer, searches  *)
(* as fuyu does ("sdkWugan"); neither of these drops them.                 *)
HandlerKinds == {"promote", "strict", "open", "sdk", "sdkWugan"}

TypeOK ==
  /\ bucket \subseteq Offers /\ s3 \in {"up", "down"} /\ on \subseteq Channels
  /\ index \in [Handlers -> Seq(Docs)]
  /\ published \in Handlers \cup {Nil} /\ dnfHandler \in Handlers
  /\ loop \in {"serve", "status", "list", "file", "sleep"}
  /\ folder \in {"offer", "tmp"} /\ todo \subseteq Channels \cup TmpKeys
  /\ keys \subseteq Keys /\ \A i \in DOMAIN batch : batch[i] \in Offers
  /\ sure \subseteq Offers /\ seen \subseteq Offers
  /\ at \in [Requests -> {"idle", "search", "cpt", "fuyu", "lookup"}]
  /\ kind \in [Requests -> HandlerKinds \cup {Nil}]
  /\ handler \in [Requests -> Handlers \cup {Nil}]
  /\ \A r \in Requests : at[r] # "idle" => handler[r] # Nil
  /\ by \in [Requests -> {"none", "own", "fuyu", "cpt", "elsewhere"}]
  /\ docs \in [Requests -> SUBSET Nat] /\ hits \in [Requests -> SUBSET Docs]

Init ==
  /\ bucket \in {Offers \ out : out \in SUBSET Volatile}
  /\ s3 = "up" /\ on \in SUBSET Channels
  /\ index = [h \in Handlers |-> <<>>]
  /\ published = Nil /\ dnfHandler \in Handlers
  /\ loop = "serve" /\ folder = "offer" /\ todo = {} /\ keys = {} /\ batch = <<>>
  /\ sure = {} /\ seen = {}
  /\ at = [r \in Requests |-> "idle"] /\ kind = [r \in Requests |-> Nil]
  /\ handler = [r \in Requests |-> Nil] /\ docs = [r \in Requests |-> {}]
  /\ hits = [r \in Requests |-> {}] /\ by = [r \in Requests |-> "none"]

-----------------------------------------------------------------------------
(* What decides whether an offer gets into the index. *)

PreProcess(raw) == raw.payout > 1 /\ raw.wrapped # "unparsable"   \* payout in tenths of a dollar

AddToDnf(raw) ==
  raw.countries > 0 /\ raw.platform \in {"android", "ios"} /\ raw.blackPkg = 0 /\ raw.tempBlack # 2

Indexed(o) == PreProcess(Raw[o]) /\ AddToDnf(Raw[o])

(* A temporarily blacked offer has the target pmt = true, which is among   *)
(* the conditions of promoteHandler and of cpt only.                       *)
Targeted(o, pmt) == Raw[o].tempBlack = 1 => pmt

(* A handler nobody refers to is collected and its address used again. *)
Collect(used) == [h \in Handlers |-> IF h \in used THEN index[h] ELSE <<>>]
HeldBy(rs) == {handler[r] : r \in rs}

Offered(h) == {index[h][i].offer : i \in DOMAIN index[h]}

-----------------------------------------------------------------------------
(* The bucket: somebody uploads and deletes, and the network fails. *)

Upload == \E o \in Volatile \ bucket :
  /\ bucket' = bucket \cup {o} /\ seen' = seen \cup {o}
  /\ UNCHANGED <<s3, on, index, dnfHandler, loop, folder, todo, keys, batch, sure, published, served>>

Delete == \E o \in Volatile \cap bucket :
  /\ bucket' = bucket \ {o} /\ sure' = sure \ {o}
  /\ UNCHANGED <<s3, on, index, dnfHandler, loop, folder, todo, keys, batch, seen, published, served>>

Network ==
  /\ s3' \in {"up", "down"} \ {s3}
  /\ UNCHANGED <<bucket, build, published, served>>

-----------------------------------------------------------------------------
(* The goroutine of Serve. *)

(* Serve publishes the handler it is going to fill. *)
Serve ==
  /\ loop = "serve" /\ loop' = "status"
  /\ published' = dnfHandler
  /\ UNCHANGED <<remote, on, index, dnfHandler, folder, todo, keys, batch, sure, seen, served>>

downloadChannelStatus ==
  /\ loop = "status" /\ loop' = "list" /\ folder' = "offer"
  /\ \/ s3 = "up" /\ \E file \in SUBSET Channels : on' = on \cup file
     \/ s3 = "down" /\ on' = on
  /\ todo' = on'
  /\ sure' = {o \in bucket : Indexed(o) /\ (IsTmp(o) \/ ChannelOf[KeyOf(o)] \in on')}
  /\ seen' = bucket
  /\ UNCHANGED <<remote, index, dnfHandler, keys, batch, published, served>>

Present == {KeyOf(o) : o \in bucket}

(* ListFolder of the folder of a channel; an error skips the channel. *)
listFolder(temp, ch) ==
  LET folderKeys == {k \in Keys : ChannelOf[k] = ch /\ (k \in TmpKeys <=> temp)} IN
  IF s3 = "up"
    THEN loop' = "file" /\ keys' = folderKeys \cap Present /\ sure' = sure
    ELSE loop' = "list" /\ keys' = {} /\ sure' = {o \in sure : KeyOf(o) \notin folderKeys}

doUpdateS3 ==
  /\ loop = "list" /\ folder = "offer"
  /\ \E ch \in todo : todo' = todo \ {ch} /\ listFolder(FALSE, ch)
  /\ UNCHANGED <<remote, on, index, dnfHandler, folder, batch, seen, published, served>>

(* Every key of tmp_test makes the loop read the whole folder of its channel. *)
listTmpChannels ==
  /\ loop = "list" /\ folder = "offer" /\ todo = {}
  /\ folder' = "tmp"
  /\ IF s3 = "up"
       THEN todo' = TmpKeys \cap Present /\ sure' = sure
       ELSE todo' = {} /\ sure' = {o \in sure : ~IsTmp(o)}
  /\ UNCHANGED <<remote, on, index, dnfHandler, loop, keys, batch, seen, published, served>>

doUpdateS3TmpChannels ==
  /\ loop = "list" /\ folder = "tmp"
  /\ \E k \in todo : todo' = todo \ {k} /\ listFolder(TRUE, ChannelOf[k])
  /\ UNCHANGED <<remote, on, index, dnfHandler, folder, batch, seen, published, served>>

(* What a file holds now. *)
LinesOf(k) == [i \in {j \in DOMAIN Content[k] : Content[k][j] \in bucket} |-> Content[k][i]]

(* MUTANT: the error returns from doUpdateS3WithPrefix. *)
downloadKeyReturns ==
  /\ loop = "file" /\ DOMAIN batch = {}
  /\ \E k \in keys :
       IF s3 = "up"
         THEN keys' = keys \ {k} /\ batch' = LinesOf(k) /\ sure' = sure
         ELSE keys' = {} /\ batch' = <<>> /\ sure' = {o \in sure : KeyOf(o) # k}
  /\ UNCHANGED <<remote, on, index, dnfHandler, loop, folder, todo, seen, published, served>>

(* A file that cannot be downloaded or decoded is skipped. *)
downloadKey ==
  /\ loop = "file" /\ DOMAIN batch = {}
  /\ \E k \in keys :
       /\ keys' = keys \ {k}
       /\ IF s3 = "up"
            THEN batch' = LinesOf(k) /\ sure' = sure
            ELSE batch' = <<>> /\ sure' = {o \in sure : KeyOf(o) # k}
  /\ UNCHANGED <<remote, on, index, dnfHandler, loop, folder, todo, seen, published, served>>

(* dnf.AddDoc is not in the tree: whether it takes a second document with  *)
(* the docId of an earlier one is left open.                               *)
AddDoc(h, o) ==
  LET doc == [offer |-> o, isT |-> IF folder = "tmp" THEN 1 ELSE 0] IN
  \/ index' = [index EXCEPT ![h] = Append(@, doc)]
  \/ o \in Offered(h) /\ index' = index

addOffer ==
  /\ loop = "file"
  /\ \E i \in DOMAIN batch :
       /\ \A j \in DOMAIN batch : i <= j
       /\ IF Indexed(batch[i]) THEN AddDoc(dnfHandler, batch[i]) ELSE index' = index
       /\ batch' = [j \in DOMAIN batch \ {i} |-> batch[j]]
  /\ UNCHANGED <<remote, on, dnfHandler, loop, folder, todo, keys, sure, seen, published, served>>

endFolder ==
  /\ loop = "file" /\ DOMAIN batch = {} /\ keys = {}
  /\ loop' = "list"
  /\ UNCHANGED <<remote, on, index, dnfHandler, folder, todo, keys, batch, sure, seen, published, served>>

(* MUTANT: the finished index is not published. *)
SetHandlerForgotten ==
  /\ loop = "list" /\ folder = "tmp" /\ todo = {}
  /\ loop' = "sleep"
  /\ UNCHANGED <<remote, on, index, dnfHandler, folder, todo, keys, batch, sure, seen, published, served>>

SetHandler ==
  /\ loop = "list" /\ folder = "tmp" /\ todo = {}
  /\ loop' = "sleep" /\ published' = dnfHandler
  /\ index' = Collect({dnfHandler} \cup HeldBy(Requests))
  /\ UNCHANGED <<remote, on, dnfHandler, folder, todo, keys, batch, sure, seen, served>>

Free == Handlers \ ({published, dnfHandler} \cup HeldBy(Requests))

(* MUTANT: the next round fills the same handler. *)
NewHandlerSame ==
  /\ loop = "sleep" /\ loop' = "status"
  /\ UNCHANGED <<remote, on, index, dnfHandler, folder, todo, keys, batch, sure, seen, published, served>>

(* MUTANT: the handler is emptied in place. *)
NewHandlerEmptied ==
  /\ loop = "sleep" /\ loop' = "status"
  /\ index' = [index EXCEPT ![dnfHandler] = <<>>]
  /\ UNCHANGED <<remote, on, dnfHandler, folder, todo, keys, batch, sure, seen, published, served>>

NewHandler ==
  /\ loop = "sleep" /\ loop' = "status"
  /\ dnfHandler' \in Free
  /\ UNCHANGED <<remote, on, index, folder, todo, keys, batch, sure, seen, published, served>>

Update ==
  \/ Serve \/ downloadChannelStatus \/ doUpdateS3 \/ listTmpChannels
  \/ doUpdateS3TmpChannels \/ downloadKey \/ addOffer \/ endFolder \/ SetHandler \/ NewHandler

-----------------------------------------------------------------------------
(* A request: GetHandler, Search with a filter, DocId2Attr, answer. *)

(* MUTANT: no test for nil. *)
GetHandlerUnchecked(r) ==
  /\ at[r] = "idle" /\ at' = [at EXCEPT ![r] = "search"]
  /\ \E k \in HandlerKinds : kind' = [kind EXCEPT ![r] = k]
  /\ handler' = [handler EXCEPT ![r] = published]
  /\ UNCHANGED <<remote, build, published, docs, hits, by>>

(* While no handler is published a request is answered "dnf_handler nil". *)
GetHandler(r) ==
  /\ at[r] = "idle" /\ published # Nil
  /\ at' = [at EXCEPT ![r] = "search"]
  /\ \E k \in HandlerKinds : kind' = [kind EXCEPT ![r] = k]
  /\ handler' = [handler EXCEPT ![r] = published]
  /\ UNCHANGED <<remote, build, published, docs, hits, by>>

(* What a search may find: a filter drops the offers of tmp_test or not,   *)
(* and what else it drops depends on the request and is left open.         *)
Matches(h, pmt, tmp) ==
  {i \in DOMAIN index[h] : Targeted(index[h][i].offer, pmt) /\ (index[h][i].isT = 1 => tmp)}

(* The docIds a search in h returned are the request's from now on. *)
Take(r, h, found, search) ==
  /\ docs' = [docs EXCEPT ![r] = found]
  /\ hits' = [hits EXCEPT ![r] = {index[h][i] : i \in found}]
  /\ by' = [by EXCEPT ![r] = search]

(* The search of the handler itself. *)
Search(r) ==
  /\ at[r] = "search"
  /\ \E found \in SUBSET Matches(handler[r], kind[r] = "promote", kind[r] \in {"promote", "open"}) :
       /\ Take(r, handler[r], found, "own")
       /\ at' = [at EXCEPT ![r] = IF kind[r] = "sdk" THEN "cpt"
                                 ELSE IF kind[r] = "sdkWugan" /\ found = {} THEN "fuyu" ELSE "lookup"]
  /\ UNCHANGED <<remote, build, published, kind, handler>>

(* A wugan request without an offer searches its handler once more. *)
getFuyuDocsWithShuffle(r) ==
  /\ at[r] = "fuyu" /\ at' = [at EXCEPT ![r] = "lookup"]
  /\ \E found \in SUBSET Matches(handler[r], FALSE, TRUE) : Take(r, handler[r], found, "fuyu")
  /\ UNCHANGED <<remote, build, published, kind, handler>>

(* cpt searches the handler published by now, not the one of the request,  *)
(* and what it finds replaces what the request found.                      *)
GetCptDocs(r) ==
  /\ at[r] = "cpt" /\ at' = [at EXCEPT ![r] = "lookup"]
  /\ \/ UNCHANGED <<docs, hits, by>>
     \/ \E found \in SUBSET Matches(published, TRUE, TRUE) \ {{}} :
          Take(r, published, found, IF published = handler[r] THEN "cpt" ELSE "elsewhere")
  /\ UNCHANGED <<remote, build, published, kind, handler>>

(* MUTANT: the docIds are looked up in the handler published by now. *)
DocId2AttrCurrent(r) ==
  LET list == index[published] IN {list[i] : i \in docs[r] \cap DOMAIN list}

(* What the request finds under the docIds of its search; beyond the end   *)
(* of the handler's documents it finds nil, and the request panics.        *)
DocId2Attr(r) ==
  LET list == index[handler[r]] IN {list[i] : i \in docs[r] \cap DOMAIN list}

(* The answer is built from DocId2Attr(r), and the request is over. *)
Answer(r) ==
  /\ at[r] = "lookup" /\ at' = [at EXCEPT ![r] = "idle"]
  /\ kind' = [kind EXCEPT ![r] = Nil] /\ handler' = [handler EXCEPT ![r] = Nil]
  /\ docs' = [docs EXCEPT ![r] = {}] /\ hits' = [hits EXCEPT ![r] = {}]
  /\ by' = [by EXCEPT ![r] = "none"]
  /\ index' = Collect({published, dnfHandler} \cup HeldBy(Requests \ {r}))
  /\ UNCHANGED <<remote, on, dnfHandler, loop, folder, todo, keys, batch, sure, seen, published>>

Serving(r) == Search(r) \/ getFuyuDocsWithShuffle(r) \/ GetCptDocs(r) \/ Answer(r)

Request(r) == GetHandler(r) \/ Serving(r)

Next == Upload \/ Delete \/ Network \/ Update \/ \E r \in Requests : Request(r)

Spec == Init /\ [][Next]_vars

(* The goroutine of Serve never blocks for ever (store has its own errors) *)
(* and its sleep ends, and a request that began ends: it waits for nothing *)
(* here.  Uploads, failures and new requests are not owed.                 *)
FairSpec ==
  /\ Spec /\ WF_vars(Update)
  /\ \A r \in Requests : WF_vars(Serving(r))

-----------------------------------------------------------------------------
(* Properties. *)

(* A round publishes what the bucket held and nothing else: an offer that  *)
(* was there all the time, in an enabled channel and behind no failed      *)
(* download, is in the index when the round ends, whatever failed for the  *)
(* other files and channels (doUpdateS3WithPrefix); and an index holds     *)
(* nothing that had left the bucket before its round began (Serve).        *)
PublishesTheBucket ==
  /\ loop = "sleep" => sure \subseteq Offered(published)
  /\ Offered(dnfHandler) \subseteq seen

(* A request answers with the documents a filter of its own accepted,     *)
(* whatever was published between its search and its DocId2Attr: docIds    *)
(* mean something only in the handler that gave them (retrievalHandler).   *)
(* The exception is GetCptDocs, which searches the handler published by    *)
(* then; its docIds are the request's own only if no round ended since the *)
(* request began.  And what a search found stays bound by its own filter:  *)
(* the offers of tmp_test, whose folders the loop reads once per key, come *)
(* to no strict handler and to retrievalHandler only from cpt or fuyu, and *)
(* an offer that is held back comes to promoteHandler or from cpt.         *)
ServedAsSearched ==
  \A r \in Requests : at[r] = "lookup" /\ by[r] # "elsewhere" =>
    /\ DocId2Attr(r) = hits[r]
    /\ \A ad \in DocId2Attr(r) :
         /\ IsTmp(ad.offer) => kind[r] \in {"promote", "open"} \/ by[r] \in {"cpt", "fuyu"}
         /\ Raw[ad.offer].tempBlack = 1 => kind[r] = "promote" \/ by[r] = "cpt"

(* A finished handler never changes while it is in use: neither the        *)
(* published one nor one a request still works with, except that the very  *)
(* first is published before it is filled.                                 *)
InUse == ({published} \cup HeldBy(Requests)) \ {Nil}
Filling == IF loop = "sleep" THEN {} ELSE {dnfHandler}
FinishedIndexFrozen == [][\A h \in (InUse \ Filling) \cap InUse' : index'[h] = index[h]]_vars

(* An offer that is taken from the bucket for good stops being offered,    *)
(* even if every later download fails.                                     *)
RemovedOfferLeaves == \A o \in Volatile :
  <>[](o \notin bucket) => <>[](published # Nil /\ o \notin Offered(published))

(* An offer that stays in the bucket, in an enabled channel, is offered    *)
(* for good once the downloads work.                                       *)
Arriving(o) == o \in bucket /\ s3 = "up" /\ (IsTmp(o) \/ ChannelOf[KeyOf(o)] \in on)
StayingOfferArrives == \A o \in Offers : Indexed(o) =>
  (<>[]Arriving(o) => <>[](published # Nil /\ o \in Offered(published)))
=============================================================================
