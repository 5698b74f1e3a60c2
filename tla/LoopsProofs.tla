----------------------------- MODULE LoopsProofs ----------------------------
(***************************************************************************)
(* The two loops, each for every value of its constants.                   *)
(*                                                                         *)
(* The offer index: what an index holds and what a request finds in it,    *)
(* for any bucket, any folders and files, any number of requests and of    *)
(* handlers in memory, and whatever the network does.                      *)
(*                                                                         *)
(* The callback queue: any number of callbacks, of any interval and        *)
(* retried after any time.  The loops of container/heap are recursive      *)
(* functions; what they return is proved by the least position at which it *)
(* would be wrong.  Then every step of the queue keeps the heap in order   *)
(* and every queued callback in it once, and the queue keeps what          *)
(* CallbackQueue promises.                                                 *)
(***************************************************************************)
EXTENDS MCLoops, TLAPS, WellFoundedInduction, FiniteSetTheorems

-----------------------------------------------------------------------------
(* The offer index.                                                        *)

DocsOf(h) == {index[h][i] : i \in DOMAIN index[h]}

(* Nothing is left over from the last folder. *)
Folders ==
  /\ loop # "file" => keys = {} /\ DOMAIN batch = {}
  /\ \A k \in keys : k \in TmpKeys <=> folder = "tmp"
  /\ \A i \in DOMAIN batch : IsTmp(batch[i]) <=> folder = "tmp"
  /\ folder = "tmp" => todo \subseteq TmpKeys

(* A document of tmp_test is marked as one. *)
Marked == \A h \in Handlers : \A i \in DOMAIN index[h] : IsTmp(index[h][i].offer) => index[h][i].isT = 1

(* A handler nobody refers to is empty, and so is the one of a new round. *)
Unused ==
  /\ loop = "serve" => published = Nil
  /\ loop = "sleep" => published = dnfHandler
  /\ \A h \in Handlers : h \notin InUse \cup {dnfHandler} => index[h] = <<>>
  /\ loop \in {"serve", "status"} => index[dnfHandler] = <<>>

(* What a request remembers of its search is still there, if it searched   *)
(* its own handler, and the filter of that search was one of its kind.     *)
Bound(r, doc) ==
  /\ doc.isT = 1 => kind[r] \in {"promote", "open"} \/ by[r] \in {"cpt", "fuyu"}
  /\ Raw[doc.offer].tempBlack = 1 => kind[r] = "promote" \/ by[r] = "cpt"

Remembers(r) ==
  /\ docs[r] \subseteq DOMAIN index[handler[r]]
  /\ \A i \in docs[r] : Bound(r, index[handler[r]][i])
  /\ hits[r] = {index[handler[r]][i] : i \in docs[r]}

Lookups == \A r \in Requests :
  /\ at[r] = "idle" => handler[r] = Nil
  /\ at[r] # "idle" => published # Nil
  /\ at[r] \in {"cpt", "lookup"} /\ by[r] # "elsewhere" => Remembers(r)

(* Where an offer still is that will be in the index of this round. *)
InFolders(o) ==
  \/ folder = "offer" /\ (IsTmp(o) \/ ChannelOf[KeyOf(o)] \in todo)
  \/ folder = "tmp" /\ IsTmp(o) /\ \E k \in todo : ChannelOf[k] = ChannelOf[KeyOf(o)]
InBatch(o) == \E i \in DOMAIN batch : batch[i] = o
Coming(o) == InFolders(o) \/ KeyOf(o) \in keys \/ InBatch(o)

Round ==
  /\ sure \subseteq bucket /\ \A o \in sure : Indexed(o)
  /\ loop \in {"list", "file"} => \A o \in sure : Coming(o) \/ o \in Offered(dnfHandler)
  /\ loop = "sleep" => sure \subseteq Offered(dnfHandler)
  /\ loop \in {"list", "file"} => bucket \subseteq seen
  /\ \A i \in DOMAIN batch : batch[i] \in seen
  /\ Offered(dnfHandler) \subseteq seen

IInv == TypeOK /\ Folders /\ Marked /\ Unused /\ Lookups /\ Round

-----------------------------------------------------------------------------
(* Offers and their files. *)

(* The file of an offer holds it. *)
LEMMA KeyOfHolds ==
  ASSUME NEW o \in Offers
  PROVE  KeyOf(o) \in Keys /\ \E i \in DOMAIN Content[KeyOf(o)] : Content[KeyOf(o)][i] = o
<1>1. \E k \in Keys : \E i \in DOMAIN Content[k] : Content[k][i] = o
  BY OfferIndexAssumption
<1> QED BY <1>1 DEF KeyOf

(* No other file does. *)
LEMMA KeyOfIs ==
  ASSUME NEW k \in Keys, NEW i \in DOMAIN Content[k]
  PROVE  Content[k][i] \in Offers /\ KeyOf(Content[k][i]) = k
<1>1. Content[k] \in Seq(Offers)
  BY OfferIndexAssumption
<1>2. Content[k][i] \in Offers
  BY <1>1
<1>3. PICK j \in DOMAIN Content[KeyOf(Content[k][i])] : Content[KeyOf(Content[k][i])][j] = Content[k][i]
  BY <1>2, KeyOfHolds
<1> QED BY <1>2, <1>3, KeyOfHolds, OfferIndexAssumption

(* A downloaded file gives what the bucket holds of it. *)
LEMMA LinesOfFile ==
  ASSUME NEW k \in Keys
  PROVE  /\ \A i \in DOMAIN LinesOf(k) : LinesOf(k)[i] \in bucket \cap Offers /\ KeyOf(LinesOf(k)[i]) = k
         /\ \A o \in Offers \cap bucket : KeyOf(o) = k => \E i \in DOMAIN LinesOf(k) : LinesOf(k)[i] = o
  BY KeyOfIs, KeyOfHolds DEF LinesOf

(* An index is only appended to. *)
LEMMA AppendTo ==
  ASSUME NEW s \in Seq(Docs), NEW d \in Docs
  PROVE  /\ Append(s, d) \in Seq(Docs) /\ DOMAIN Append(s, d) = DOMAIN s \cup {Len(s) + 1}
         /\ \A i \in DOMAIN s : Append(s, d)[i] = s[i]
         /\ Append(s, d)[Len(s) + 1] = d
  OBVIOUS

(* The empty index. *)
LEMMA EmptyIndex == <<>> \in Seq(Docs) /\ DOMAIN <<>> = {}
  OBVIOUS

-----------------------------------------------------------------------------
(* The bucket and the network. *)

(* A step that leaves every handler alone, and does not begin or end a     *)
(* round, keeps what is said of handlers.                                  *)
LEMMA HandlersKept ==
  ASSUME IInv, UNCHANGED <<index, dnfHandler, published, served>>,
         loop' = loop \/ (loop \in {"status", "list", "file"} /\ loop' \in {"list", "file"})
  PROVE  Marked' /\ Unused' /\ Lookups' /\ Offered(dnfHandler)' = Offered(dnfHandler)
<1>1. UNCHANGED <<index, dnfHandler, published, at, kind, handler, docs, hits, by>>
  BY DEF served
<1>2. InUse' = InUse
  BY <1>1 DEF InUse, HeldBy
<1>3. Marked' /\ Lookups' /\ Offered(dnfHandler)' = Offered(dnfHandler)
  BY <1>1 DEF IInv, Marked, Lookups, Remembers, Bound, Offered
<1>4. Unused'
  BY <1>1, <1>2 DEF IInv, Unused
<1> QED BY <1>3, <1>4

(* What requests remember stays true while nothing changes the documents   *)
(* of the handlers they hold.                                              *)
LEMMA LookupsKept ==
  ASSUME IInv, UNCHANGED <<at, kind, handler, docs, hits, by>>, published' = published \/ published' \in Handlers,
         \A r \in Requests : handler[r] \in Handlers => index'[handler[r]] = index[handler[r]]
  PROVE  Lookups'
<1> SUFFICES ASSUME NEW r \in Requests
             PROVE  /\ at[r] = "idle" => handler[r] = Nil
                    /\ at[r] # "idle" => published' # Nil
                    /\ at[r] \in {"cpt", "lookup"} /\ by[r] # "elsewhere" => Remembers(r)'
  BY DEF Lookups
<1>1. /\ at[r] = "idle" => handler[r] = Nil
      /\ at[r] # "idle" => published # Nil
      /\ at[r] \in {"cpt", "lookup"} /\ by[r] # "elsewhere" => Remembers(r)
  BY DEF IInv, Lookups
<1>2. at[r] # "idle" => handler[r] \in Handlers
  BY DEF IInv, TypeOK
<1>3. at[r] # "idle" /\ Remembers(r) => Remembers(r)'
  BY <1>2 DEF Remembers, Bound
<1> QED BY <1>1, <1>3, OfferIndexAssumption

(* The bucket and the network change no index.                             *)
LEMMA BucketStep == ASSUME IInv, Upload \/ Delete \/ Network PROVE IInv'
<1>1. UNCHANGED <<on, index, dnfHandler, loop, folder, todo, keys, batch, published, served>>
  BY DEF Upload, Delete, Network, build
<1>2. /\ bucket' \subseteq Offers /\ s3' \in {"up", "down"} /\ seen' \subseteq Offers
      /\ sure' \subseteq sure /\ sure' \subseteq bucket' /\ seen \subseteq seen'
      /\ bucket \subseteq seen => bucket' \subseteq seen'
  <2>1. CASE Upload
    BY <2>1, OfferIndexAssumption DEF Upload, IInv, TypeOK, Round
  <2>2. CASE Delete
    BY <2>2 DEF Delete, IInv, TypeOK, Round
  <2>3. CASE Network
    BY <2>3 DEF Network, build, IInv, TypeOK, Round
  <2> QED BY <2>1, <2>2, <2>3
<1>3. TypeOK'
  BY <1>1, <1>2 DEF IInv, TypeOK, served
<1>4. Folders'
  BY <1>1 DEF IInv, Folders
<1>5. Marked' /\ Unused' /\ Lookups' /\ Offered(dnfHandler)' = Offered(dnfHandler)
  BY <1>1, HandlersKept
<1>6. Round'
  BY <1>1, <1>2, <1>5 DEF IInv, Round, Coming, InFolders, InBatch
<1> QED BY <1>3, <1>4, <1>5, <1>6 DEF IInv

-----------------------------------------------------------------------------
(* The steps of a round. *)

(* Serve publishes its first, empty handler.                               *)
LEMMA ServeStep == ASSUME IInv, Serve PROVE IInv'
<1>1. /\ loop = "serve" /\ loop' = "status" /\ published' = dnfHandler
      /\ UNCHANGED <<bucket, s3, on, index, dnfHandler, folder, todo, keys, batch, sure, seen, at, kind, handler, docs, hits, by>>
  BY DEF Serve, remote, served
<1>2. TypeOK'
  BY <1>1 DEF IInv, TypeOK
<1>3. Folders' /\ Marked'
  BY <1>1 DEF IInv, Folders, Marked
<1>7. Lookups'
  BY <1>1, LookupsKept DEF IInv, TypeOK
<1>4. InUse \cup {dnfHandler} \subseteq InUse' \cup {dnfHandler'}
  BY <1>1 DEF IInv, Unused, InUse, HeldBy
<1>5. Unused'
  BY <1>1, <1>4 DEF IInv, Unused
<1>6. Round'
  BY <1>1 DEF IInv, Round, Offered
<1> QED BY <1>2, <1>3, <1>5, <1>6, <1>7 DEF IInv

(* A round begins: the statuses of the folders are downloaded anew.        *)
LEMMA StatusStep == ASSUME IInv, downloadChannelStatus PROVE IInv'
<1>1. /\ loop = "status" /\ loop' = "list" /\ folder' = "offer" /\ todo' = on' /\ on' \in SUBSET Channels
      /\ sure' = {o \in bucket : Indexed(o) /\ (IsTmp(o) \/ ChannelOf[KeyOf(o)] \in on')}
      /\ seen' = bucket
      /\ UNCHANGED <<bucket, s3, index, dnfHandler, keys, batch, published, served>>
  BY DEF downloadChannelStatus, remote, IInv, TypeOK
<1>2. TypeOK'
  BY <1>1 DEF IInv, TypeOK, served
<1>3. keys = {} /\ DOMAIN batch = {} /\ Offered(dnfHandler) = {}
  BY <1>1, EmptyIndex DEF IInv, Folders, Unused, Offered
<1>4. Folders'
  BY <1>1, <1>3 DEF Folders
<1>5. Marked' /\ Unused' /\ Lookups' /\ Offered(dnfHandler)' = Offered(dnfHandler)
  BY <1>1, HandlersKept
<1>6. Round'
  BY <1>1, <1>3, <1>5 DEF Round, Coming, InFolders
<1> QED BY <1>2, <1>4, <1>5, <1>6 DEF IInv

(* Listing a folder makes its offers come as files, or costs them.         *)
LEMMA ListStep ==
  ASSUME IInv, NEW temp \in BOOLEAN, NEW ch, NEW x, listFolder(temp, ch), loop = "list",
         temp <=> folder = "tmp", x \in todo, todo' = todo \ {x},
         IF temp THEN ch = ChannelOf[x] ELSE ch = x,
         UNCHANGED <<remote, on, index, dnfHandler, folder, batch, seen, published, served>>
  PROVE  IInv'
<1> DEFINE folderKeys == {k \in Keys : ChannelOf[k] = ch /\ (k \in TmpKeys <=> temp)}
<1>1. keys = {} /\ DOMAIN batch = {}
  BY DEF IInv, Folders
<1>2. \/ loop' = "file" /\ keys' = folderKeys \cap Present /\ sure' = sure
      \/ loop' = "list" /\ keys' = {} /\ sure' = {o \in sure : KeyOf(o) \notin folderKeys}
  BY DEF listFolder
<1>3. TypeOK'
  BY <1>2 DEF IInv, TypeOK, remote, served
<1>4. Folders'
  BY <1>1, <1>2 DEF IInv, Folders
<1>5. Marked' /\ Unused' /\ Lookups' /\ Offered(dnfHandler)' = Offered(dnfHandler)
  BY <1>2, HandlersKept
<1>6. ASSUME NEW o \in sure' PROVE Coming(o)' \/ o \in Offered(dnfHandler)'
  <2>1. o \in sure /\ o \in bucket /\ o \in Offers
    BY <1>2 DEF IInv, Round, TypeOK
  <2>2. CASE o \in Offered(dnfHandler)
    BY <1>5, <2>2
  <2>3. CASE o \notin Offered(dnfHandler)
    <3>1. InFolders(o)
      BY <1>1, <2>1, <2>3 DEF IInv, Round, Coming, InBatch
    <3>2. CASE KeyOf(o) \in folderKeys
      <4>1. keys' = folderKeys \cap Present
        BY <1>2, <3>2
      <4>2. KeyOf(o) \in keys'
        BY <2>1, <3>2, <4>1 DEF Present
      <4> QED BY <4>2 DEF Coming
    <3>3. CASE KeyOf(o) \notin folderKeys
      <4>1. KeyOf(o) \in Keys
        BY <2>1, KeyOfHolds
      <4>2. IsTmp(o) = temp => ChannelOf[KeyOf(o)] # ch
        BY <3>3, <4>1 DEF IsTmp
      <4>3. InFolders(o)'
        BY <3>1, <4>2 DEF InFolders, IsTmp
      <4> QED BY <4>3 DEF Coming
    <3> QED BY <3>2, <3>3
  <2> QED BY <2>2, <2>3
<1>7. Round'
  BY <1>1, <1>2, <1>5, <1>6 DEF IInv, Round, remote
<1> QED BY <1>3, <1>4, <1>5, <1>7 DEF IInv

(* A folder of either walk is listed.                                      *)
LEMMA ListsStep == ASSUME IInv, doUpdateS3 \/ doUpdateS3TmpChannels PROVE IInv'
<1>1. CASE doUpdateS3
  <2>1. PICK ch \in todo : todo' = todo \ {ch} /\ listFolder(FALSE, ch)
    BY <1>1 DEF doUpdateS3
  <2>2. loop = "list" /\ folder = "offer"
        /\ UNCHANGED <<remote, on, index, dnfHandler, folder, batch, seen, published, served>>
    BY <1>1 DEF doUpdateS3
  <2>3. FALSE \in BOOLEAN /\ (FALSE <=> folder = "tmp")
    BY <2>2
  <2> QED BY <2>1, <2>2, <2>3, ListStep
<1>2. CASE doUpdateS3TmpChannels
  <2>1. PICK k \in todo : todo' = todo \ {k} /\ listFolder(TRUE, ChannelOf[k])
    BY <1>2 DEF doUpdateS3TmpChannels
  <2>2. loop = "list" /\ folder = "tmp"
        /\ UNCHANGED <<remote, on, index, dnfHandler, folder, batch, seen, published, served>>
    BY <1>2 DEF doUpdateS3TmpChannels
  <2>3. TRUE \in BOOLEAN /\ (TRUE <=> folder = "tmp")
    BY <2>2
  <2> QED BY <2>1, <2>2, <2>3, ListStep
<1> QED BY <1>1, <1>2

(* The walk through offer/ ends and tmp_test is listed.                    *)
LEMMA ListTmpStep == ASSUME IInv, listTmpChannels PROVE IInv'
<1>1. /\ loop = "list" /\ folder = "offer" /\ todo = {} /\ folder' = "tmp"
      /\ UNCHANGED <<bucket, s3, on, index, dnfHandler, loop, keys, batch, seen, published, served>>
  BY DEF listTmpChannels, remote
<1>2. \/ todo' = TmpKeys \cap Present /\ sure' = sure
      \/ todo' = {} /\ sure' = {o \in sure : ~IsTmp(o)}
  BY DEF listTmpChannels
<1>3. keys = {} /\ DOMAIN batch = {}
  BY <1>1 DEF IInv, Folders
<1>4. TypeOK'
  BY <1>1, <1>2 DEF IInv, TypeOK, served
<1>5. Folders'
  BY <1>1, <1>2, <1>3 DEF Folders
<1>6. Marked' /\ Unused' /\ Lookups' /\ Offered(dnfHandler)' = Offered(dnfHandler)
  BY <1>1, HandlersKept
<1>7. ASSUME NEW o \in sure' PROVE Coming(o)' \/ o \in Offered(dnfHandler)'
  <2>1. o \in sure /\ o \in bucket
    BY <1>2 DEF IInv, Round
  <2>2. CASE o \in Offered(dnfHandler)
    BY <1>6, <2>2
  <2>3. CASE o \notin Offered(dnfHandler)
    <3>1. IsTmp(o)
      BY <1>1, <1>3, <2>1, <2>3 DEF IInv, Round, Coming, InFolders, InBatch
    <3>2. todo' = TmpKeys \cap Present
      BY <1>2, <3>1
    <3>3. KeyOf(o) \in todo'
      BY <2>1, <3>1, <3>2 DEF IsTmp, Present
    <3> QED BY <1>1, <3>1, <3>3 DEF Coming, InFolders, IsTmp
  <2> QED BY <2>2, <2>3
<1>8. Round'
  BY <1>1, <1>2, <1>6, <1>7 DEF IInv, Round
<1> QED BY <1>4, <1>5, <1>6, <1>8 DEF IInv

(* A file is downloaded and its offers wait to be added, one per line.     *)
LEMMA DownloadStep == ASSUME IInv, downloadKey PROVE IInv'
<1>1. loop = "file" /\ DOMAIN batch = {}
      /\ UNCHANGED <<bucket, s3, on, index, dnfHandler, loop, folder, todo, seen, published, served>>
  BY DEF downloadKey, remote
<1>2. PICK k \in keys : /\ keys' = keys \ {k}
                        /\ \/ batch' = LinesOf(k) /\ sure' = sure
                           \/ batch' = <<>> /\ sure' = {o \in sure : KeyOf(o) # k}
  BY DEF downloadKey
<1>3. k \in Keys /\ (k \in TmpKeys <=> folder = "tmp")
  BY DEF IInv, TypeOK, Folders
<1>4. \A i \in DOMAIN batch' : batch'[i] \in bucket \cap Offers /\ KeyOf(batch'[i]) = k
  BY <1>2, <1>3, LinesOfFile, EmptyIndex
<1>5. TypeOK'
  BY <1>1, <1>2, <1>4 DEF IInv, TypeOK, served
<1>6. Folders'
  BY <1>1, <1>2, <1>3, <1>4 DEF IInv, Folders, IsTmp
<1>7. Marked' /\ Unused' /\ Lookups' /\ Offered(dnfHandler)' = Offered(dnfHandler)
  BY <1>1, HandlersKept
<1>8. ASSUME NEW o \in sure' PROVE Coming(o)' \/ o \in Offered(dnfHandler)'
  <2>1. o \in sure /\ o \in bucket /\ o \in Offers
    BY <1>2 DEF IInv, Round, TypeOK
  <2>2. CASE o \in Offered(dnfHandler)
    BY <1>7, <2>2
  <2>3. CASE InFolders(o)
    BY <1>1, <2>3 DEF Coming, InFolders
  <2>4. CASE KeyOf(o) \in keys \ {k}
    BY <1>2, <2>4 DEF Coming
  <2>5. CASE KeyOf(o) = k
    <3>1. batch' = LinesOf(k)
      BY <1>2, <2>5
    <3> QED BY <1>3, <2>1, <2>5, <3>1, LinesOfFile DEF Coming, InBatch
  <2> QED BY <1>1, <2>1, <2>2, <2>3, <2>4, <2>5 DEF IInv, Round, Coming, InBatch
<1>9. Round'
  BY <1>1, <1>2, <1>4, <1>7, <1>8 DEF IInv, Round
<1> QED BY <1>5, <1>6, <1>7, <1>9 DEF IInv

(* A folder ends when its files are downloaded and their lines gone through.*)
LEMMA EndFolderStep == ASSUME IInv, endFolder PROVE IInv'
<1>1. /\ loop = "file" /\ DOMAIN batch = {} /\ keys = {} /\ loop' = "list"
      /\ UNCHANGED <<bucket, s3, on, index, dnfHandler, folder, todo, keys, batch, sure, seen, published, served>>
  BY DEF endFolder, remote
<1>2. TypeOK' /\ Folders'
  BY <1>1 DEF IInv, TypeOK, Folders, served
<1>3. Marked' /\ Unused' /\ Lookups' /\ Offered(dnfHandler)' = Offered(dnfHandler)
  BY <1>1, HandlersKept
<1>4. Round'
  BY <1>1, <1>3 DEF IInv, Round, Coming, InFolders, InBatch
<1> QED BY <1>2, <1>3, <1>4 DEF IInv

(* An offer is added at the end of the handler that is being filled, or    *)
(* was there, or is not to be indexed; all other handlers are left alone.  *)
LEMMA AddOfferStep == ASSUME IInv, addOffer PROVE IInv'
<1>1. /\ loop = "file"
      /\ UNCHANGED <<bucket, s3, on, dnfHandler, loop, folder, todo, keys, sure, seen, published, at, kind, handler, docs, hits, by>>
  BY DEF addOffer, remote, served
<1>2. PICK i \in DOMAIN batch :
        /\ IF Indexed(batch[i]) THEN AddDoc(dnfHandler, batch[i]) ELSE index' = index
        /\ batch' = [j \in DOMAIN batch \ {i} |-> batch[j]]
  BY DEF addOffer
<1> DEFINE o == batch[i]
           doc == [offer |-> o, isT |-> IF folder = "tmp" THEN 1 ELSE 0]
<1>3. o \in Offers /\ o \in seen /\ (IsTmp(o) => folder = "tmp") /\ doc \in Docs
  BY DEF IInv, TypeOK, Round, Folders, Docs
<1>4. DOMAIN batch' = DOMAIN batch \ {i} /\ \A j \in DOMAIN batch' : batch'[j] = batch[j]
  BY <1>2
<1>5. \/ index' = index /\ (Indexed(o) => o \in Offered(dnfHandler))
      \/ index' = [index EXCEPT ![dnfHandler] = Append(index[dnfHandler], doc)]
  BY <1>2 DEF AddDoc
<1>6. dnfHandler \in Handlers /\ index[dnfHandler] \in Seq(Docs)
  BY DEF IInv, TypeOK
<1> HIDE DEF doc, o
<1>7. /\ index' \in [Handlers -> Seq(Docs)]
      /\ \A h \in Handlers : DOMAIN index[h] \subseteq DOMAIN index'[h] /\ \A j \in DOMAIN index[h] : index'[h][j] = index[h][j]
      /\ \A h \in Handlers : \A j \in DOMAIN index'[h] : j \in DOMAIN index[h] \/ index'[h][j] = doc
      /\ \A h \in Handlers \ {dnfHandler} : index'[h] = index[h]
  <2>1. CASE index' = index
    BY <2>1 DEF IInv, TypeOK
  <2>2. CASE index' = [index EXCEPT ![dnfHandler] = Append(index[dnfHandler], doc)]
    <3>1. index'[dnfHandler] = Append(index[dnfHandler], doc) /\ \A h \in Handlers \ {dnfHandler} : index'[h] = index[h]
      BY <1>6, <2>2 DEF IInv, TypeOK
    <3>2. index' \in [Handlers -> Seq(Docs)]
      BY <1>3, <1>6, <2>2, AppendTo DEF IInv, TypeOK
    <3>3. /\ DOMAIN index'[dnfHandler] = DOMAIN index[dnfHandler] \cup {Len(index[dnfHandler]) + 1}
          /\ \A j \in DOMAIN index[dnfHandler] : index'[dnfHandler][j] = index[dnfHandler][j]
          /\ index'[dnfHandler][Len(index[dnfHandler]) + 1] = doc
      BY <1>3, <1>6, <3>1, AppendTo
    <3>4. ASSUME NEW h \in Handlers
          PROVE  /\ DOMAIN index[h] \subseteq DOMAIN index'[h]
                 /\ \A j \in DOMAIN index[h] : index'[h][j] = index[h][j]
                 /\ \A j \in DOMAIN index'[h] : j \in DOMAIN index[h] \/ index'[h][j] = doc
      BY <3>1, <3>3
    <3> QED BY <3>1, <3>2, <3>4
  <2> QED BY <1>5, <2>1, <2>2
<1>8. Offered(dnfHandler)' \subseteq Offered(dnfHandler) \cup {o} /\ Offered(dnfHandler) \subseteq Offered(dnfHandler)'
      /\ (Indexed(o) => o \in Offered(dnfHandler)')
  <2>1. doc.offer = o
    BY DEF doc
  <2>2. Offered(dnfHandler)' \subseteq Offered(dnfHandler) \cup {o}
    BY <1>1, <1>6, <1>7, <2>1 DEF Offered
  <2>3. Offered(dnfHandler) \subseteq Offered(dnfHandler)'
    BY <1>1, <1>6, <1>7 DEF Offered
  <2>4. CASE index' = index /\ (Indexed(o) => o \in Offered(dnfHandler))
    BY <2>2, <2>3, <2>4
  <2>5. CASE index' = [index EXCEPT ![dnfHandler] = Append(index[dnfHandler], doc)]
    <3>1. index'[dnfHandler] = Append(index[dnfHandler], doc)
      BY <1>6, <2>5 DEF IInv, TypeOK
    <3>2. o \in Offered(dnfHandler)'
      BY <1>1, <1>3, <1>6, <2>1, <3>1, AppendTo DEF Offered
    <3> QED BY <2>2, <2>3, <3>2
  <2> QED BY <1>5, <2>4, <2>5
<1>9. TypeOK'
  BY <1>1, <1>4, <1>7 DEF IInv, TypeOK
<1>10. Folders'
  BY <1>1, <1>4 DEF IInv, Folders
<1>11. Marked'
  <2>1. IsTmp(doc.offer) => doc.isT = 1
    BY <1>3 DEF doc
  <2> QED BY <1>7, <2>1 DEF IInv, Marked
<1>12. Unused'
  BY <1>1, <1>7 DEF IInv, Unused, InUse, HeldBy
<1>13. Lookups'
  <2> SUFFICES ASSUME NEW r \in Requests, Remembers(r), handler[r] \in Handlers
               PROVE  Remembers(r)'
    BY <1>1 DEF IInv, TypeOK, Lookups
  <2>1. /\ docs[r] \subseteq DOMAIN index[handler[r]] /\ \A j \in docs[r] : Bound(r, index[handler[r]][j])
        /\ hits[r] = {index[handler[r]][j] : j \in docs[r]}
    BY DEF Remembers
  <2>2. \A j \in docs[r] : j \in DOMAIN index'[handler[r]] /\ index'[handler[r]][j] = index[handler[r]][j]
    BY <1>7, <2>1
  <2> QED BY <1>1, <2>1, <2>2 DEF Remembers, Bound
<1>14. ASSUME NEW p \in sure PROVE Coming(p)' \/ p \in Offered(dnfHandler)'
  <2>1. Indexed(p) /\ (Coming(p) \/ p \in Offered(dnfHandler))
    BY <1>1 DEF IInv, Round
  <2>2. CASE p \in Offered(dnfHandler)
    BY <1>8, <2>2
  <2>3. CASE InFolders(p) \/ KeyOf(p) \in keys
    BY <1>1, <2>3 DEF Coming, InFolders
  <2>4. CASE InBatch(p)
    <3>1. CASE p = o
      BY <1>8, <2>1, <3>1
    <3>2. CASE p # o
      BY <1>4, <2>4, <3>2 DEF Coming, InBatch, o
    <3> QED BY <3>1, <3>2
  <2> QED BY <2>1, <2>2, <2>3, <2>4 DEF Coming
<1>15. Round'
  BY <1>1, <1>3, <1>4, <1>8, <1>14 DEF IInv, Round
<1> QED BY <1>9, <1>10, <1>11, <1>12, <1>13, <1>15 DEF IInv

(* The collector empties what nobody refers to, and nothing else.          *)
LEMMA CollectStep ==
  ASSUME IInv, NEW used, index' = Collect(used)
  PROVE  /\ index' \in [Handlers -> Seq(Docs)] /\ Marked'
         /\ \A h \in Handlers : index'[h] = IF h \in used THEN index[h] ELSE <<>>
<1>1. index' = [h \in Handlers |-> IF h \in used THEN index[h] ELSE <<>>]
  BY DEF Collect
<1>2. index' \in [Handlers -> Seq(Docs)]
  BY <1>1, EmptyIndex DEF IInv, TypeOK
<1>3. \A h \in Handlers : index'[h] = IF h \in used THEN index[h] ELSE <<>>
  BY <1>1
<1>4. Marked'
  BY <1>3, EmptyIndex DEF IInv, Marked
<1> QED BY <1>2, <1>3, <1>4

(* The round ends with its handler published.                              *)
LEMMA SetHandlerStep == ASSUME IInv, SetHandler PROVE IInv'
<1> DEFINE used == {dnfHandler} \cup HeldBy(Requests)
<1>1. /\ loop = "list" /\ folder = "tmp" /\ todo = {} /\ loop' = "sleep" /\ published' = dnfHandler
      /\ index' = Collect(used)
      /\ UNCHANGED <<bucket, s3, on, dnfHandler, folder, todo, keys, batch, sure, seen, at, kind, handler, docs, hits, by>>
  BY DEF SetHandler, remote, served
<1>2. /\ index' \in [Handlers -> Seq(Docs)] /\ Marked'
      /\ \A h \in Handlers : index'[h] = IF h \in used THEN index[h] ELSE <<>>
  BY <1>1, CollectStep
<1> HIDE DEF used
<1>3. dnfHandler \in Handlers /\ index'[dnfHandler] = index[dnfHandler]
  BY <1>2 DEF IInv, TypeOK, used
<1>4. \A r \in Requests : handler[r] \in Handlers => index'[handler[r]] = index[handler[r]]
  BY <1>2 DEF used, HeldBy
<1>5. TypeOK' /\ Folders'
  BY <1>1, <1>2 DEF IInv, TypeOK, Folders
<1>6. Unused'
  <2>1. used \ {Nil} = InUse'
    BY <1>1, OfferIndexAssumption DEF used, InUse, HeldBy, IInv, TypeOK
  <2> QED BY <1>1, <1>2, <2>1, OfferIndexAssumption DEF Unused
<1>7. Lookups'
  BY <1>1, <1>4, LookupsKept DEF IInv, TypeOK
<1>8. Offered(dnfHandler)' = Offered(dnfHandler)
  BY <1>1, <1>3 DEF Offered
<1>9. Round'
  BY <1>1, <1>8 DEF IInv, Round, Folders, Coming, InFolders, InBatch
<1> QED BY <1>2, <1>5, <1>6, <1>7, <1>9 DEF IInv

(* The next handler is made empty, apart from every one in use.            *)
LEMMA NewHandlerStep == ASSUME IInv, NewHandler PROVE IInv'
<1>1. /\ loop = "sleep" /\ loop' = "status" /\ dnfHandler' \in Free
      /\ UNCHANGED <<bucket, s3, on, index, folder, todo, keys, batch, sure, seen, published, at, kind, handler, docs, hits, by>>
  BY DEF NewHandler, remote, served
<1>2. published = dnfHandler
  BY <1>1 DEF IInv, Unused
<1>3. dnfHandler' \in Handlers /\ index[dnfHandler'] = <<>>
  BY <1>1 DEF IInv, Unused, Free, InUse
<1>4. InUse' = InUse /\ dnfHandler \in InUse
  BY <1>1, <1>2, OfferIndexAssumption DEF InUse, HeldBy, IInv, TypeOK
<1>5. TypeOK' /\ Folders' /\ Marked'
  BY <1>1, <1>3 DEF IInv, TypeOK, Folders, Marked
<1>9. Lookups'
  BY <1>1, LookupsKept
<1>6. Unused'
  BY <1>1, <1>3, <1>4 DEF IInv, Unused
<1>7. Offered(dnfHandler)' = {}
  BY <1>1, <1>3, EmptyIndex DEF Offered
<1>8. Round'
  BY <1>1, <1>7 DEF IInv, Round
<1> QED BY <1>5, <1>6, <1>8, <1>9 DEF IInv

-----------------------------------------------------------------------------
(* The steps of a request. *)

(* A request takes the handler published now and keeps it to its answer.   *)
LEMMA GetHandlerStep == ASSUME IInv, NEW r \in Requests, GetHandler(r) PROVE IInv'
<1>1. /\ at[r] = "idle" /\ published # Nil /\ handler' = [handler EXCEPT ![r] = published]
      /\ at' = [at EXCEPT ![r] = "search"] /\ \E k \in HandlerKinds : kind' = [kind EXCEPT ![r] = k]
      /\ UNCHANGED <<bucket, s3, on, index, dnfHandler, loop, folder, todo, keys, batch, sure, seen, published, docs, hits, by>>
  BY DEF GetHandler, remote, build
<1>2. handler[r] = Nil
  BY <1>1 DEF IInv, Lookups
<1>3. InUse' = InUse
  BY <1>1, <1>2 DEF InUse, HeldBy, IInv, TypeOK
<1>4. TypeOK'
  BY <1>1 DEF IInv, TypeOK
<1>5. Folders' /\ Marked' /\ Unused'
  BY <1>1, <1>3 DEF IInv, Folders, Marked, Unused
<1>6. Lookups'
  <2> SUFFICES ASSUME NEW q \in Requests
               PROVE  /\ at'[q] = "idle" => handler'[q] = Nil
                      /\ at'[q] # "idle" => published' # Nil
                      /\ at'[q] \in {"cpt", "lookup"} /\ by'[q] # "elsewhere" => Remembers(q)'
    BY DEF Lookups
  <2>1. CASE q = r
    BY <1>1, <2>1 DEF IInv, TypeOK
  <2>2. CASE q # r
    <3>1. at'[q] = at[q] /\ kind'[q] = kind[q] /\ handler'[q] = handler[q]
      BY <1>1, <2>2 DEF IInv, TypeOK
    <3> QED BY <1>1, <3>1 DEF IInv, Lookups, Remembers, Bound
  <2> QED BY <2>1, <2>2
<1>7. Round'
  BY <1>1 DEF IInv, Round, Coming, InFolders, InBatch, Offered
<1> QED BY <1>4, <1>5, <1>6, <1>7 DEF IInv

(* A search of a handler gives a request docIds of that handler; they are  *)
(* what it remembers unless the handler is not its own.                    *)
LEMMA TakeStep ==
  ASSUME IInv, NEW r \in Requests, NEW h \in Handlers, NEW pmt, NEW tmp,
         NEW found \in SUBSET Matches(h, pmt, tmp), NEW search \in {"own", "fuyu", "cpt", "elsewhere"},
         NEW next \in {"cpt", "fuyu", "lookup"}, at' = [at EXCEPT ![r] = next], at[r] # "idle",
         Take(r, h, found, search), UNCHANGED <<remote, build, published, kind, handler>>,
         search # "elsewhere" =>
           /\ h = handler[r]
           /\ tmp => kind[r] \in {"promote", "open"} \/ search \in {"cpt", "fuyu"}
           /\ pmt => kind[r] = "promote" \/ search = "cpt"
  PROVE  IInv'
<1>1. UNCHANGED <<bucket, s3, on, index, dnfHandler, loop, folder, todo, keys, batch, sure, seen, published, kind, handler>>
  BY DEF remote, build
<1>2. /\ docs' = [docs EXCEPT ![r] = found] /\ hits' = [hits EXCEPT ![r] = {index[h][i] : i \in found}]
      /\ by' = [by EXCEPT ![r] = search]
  BY DEF Take
<1>3. /\ index[h] \in Seq(Docs) /\ found \subseteq DOMAIN index[h]
      /\ \A i \in found : (index[h][i].isT = 1 => tmp) /\ (Raw[index[h][i].offer].tempBlack = 1 => pmt)
  BY DEF IInv, TypeOK, Matches, Targeted
<1>4. found \subseteq Nat /\ {index[h][i] : i \in found} \subseteq Docs
  BY <1>3
<1>5. TypeOK'
  BY <1>1, <1>2, <1>4 DEF IInv, TypeOK
<1>6. Folders' /\ Marked' /\ Unused'
  BY <1>1 DEF IInv, Folders, Marked, Unused, InUse, HeldBy
<1>7. Lookups'
  <2> SUFFICES ASSUME NEW q \in Requests
               PROVE  /\ at'[q] = "idle" => handler'[q] = Nil
                      /\ at'[q] # "idle" => published' # Nil
                      /\ at'[q] \in {"cpt", "lookup"} /\ by'[q] # "elsewhere" => Remembers(q)'
    BY DEF Lookups
  <2>1. CASE q = r
    <3>1. docs'[q] = found /\ hits'[q] = {index[h][i] : i \in found} /\ by'[q] = search /\ at'[q] = next
      BY <1>2, <2>1 DEF IInv, TypeOK
    <3>2. published # Nil
      BY DEF IInv, Lookups
    <3>3. ASSUME search # "elsewhere" PROVE Remembers(q)'
      BY <1>1, <1>3, <2>1, <3>1, <3>3 DEF Remembers, Bound
    <3> QED BY <1>1, <3>1, <3>2, <3>3
  <2>2. CASE q # r
    <3>1. docs'[q] = docs[q] /\ hits'[q] = hits[q] /\ by'[q] = by[q] /\ at'[q] = at[q]
      BY <1>2, <2>2 DEF IInv, TypeOK
    <3> QED BY <1>1, <3>1 DEF IInv, Lookups, Remembers, Bound
  <2> QED BY <2>1, <2>2
<1>8. Round'
  BY <1>1 DEF IInv, Round, Coming, InFolders, InBatch, Offered
<1> QED BY <1>5, <1>6, <1>7, <1>8 DEF IInv

(* A request searches the offers of the handler it took, with the filter   *)
(* of its kind.                                                            *)
LEMMA SearchStep == ASSUME IInv, NEW r \in Requests, Search(r) PROVE IInv'
<1> DEFINE next(found) == IF kind[r] = "sdk" THEN "cpt"
                          ELSE IF kind[r] = "sdkWugan" /\ found = {} THEN "fuyu" ELSE "lookup"
<1>1. PICK found \in SUBSET Matches(handler[r], kind[r] = "promote", kind[r] \in {"promote", "open"}) :
        Take(r, handler[r], found, "own") /\ at' = [at EXCEPT ![r] = next(found)]
  BY DEF Search
<1>2. at[r] = "search" /\ UNCHANGED <<remote, build, published, kind, handler>>
  BY DEF Search
<1>3. handler[r] \in Handlers
  BY <1>2 DEF IInv, TypeOK
<1>4. next(found) \in {"cpt", "fuyu", "lookup"}
  OBVIOUS
<1> HIDE DEF next
<1>5. CASE kind[r] = "promote"
  <2>1. found \in SUBSET Matches(handler[r], TRUE, TRUE)
    BY <1>1, <1>5 DEF Matches, Targeted
  <2> QED BY <1>1, <1>2, <1>3, <1>4, <1>5, <2>1, TakeStep
<1>6. CASE kind[r] = "open"
  <2>1. found \in SUBSET Matches(handler[r], FALSE, TRUE)
    BY <1>1, <1>6 DEF Matches, Targeted
  <2> QED BY <1>1, <1>2, <1>3, <1>4, <1>6, <2>1, TakeStep
<1>7. CASE kind[r] \notin {"promote", "open"}
  <2>1. found \in SUBSET Matches(handler[r], FALSE, FALSE)
    BY <1>1, <1>7 DEF Matches, Targeted
  <2> QED BY <1>1, <1>2, <1>3, <1>4, <2>1, TakeStep
<1> QED BY <1>5, <1>6, <1>7

(* A wugan request searches its handler once more.                         *)
LEMMA FuyuStep == ASSUME IInv, NEW r \in Requests, getFuyuDocsWithShuffle(r) PROVE IInv'
<1>1. at[r] = "fuyu" /\ at' = [at EXCEPT ![r] = "lookup"] /\ UNCHANGED <<remote, build, published, kind, handler>>
  BY DEF getFuyuDocsWithShuffle
<1>2. PICK found \in SUBSET Matches(handler[r], FALSE, TRUE) : Take(r, handler[r], found, "fuyu")
  BY DEF getFuyuDocsWithShuffle
<1>3. handler[r] \in Handlers
  BY <1>1 DEF IInv, TypeOK
<1> QED BY <1>1, <1>2, <1>3, TakeStep

(* cpt finds nothing, or other docIds: those of the request's own handler  *)
(* if that is still the published one.                                     *)
LEMMA CptStep == ASSUME IInv, NEW r \in Requests, GetCptDocs(r) PROVE IInv'
<1>1. at[r] = "cpt" /\ at' = [at EXCEPT ![r] = "lookup"] /\ UNCHANGED <<remote, build, published, kind, handler>>
  BY DEF GetCptDocs
<1>2. published \in Handlers
  BY <1>1 DEF IInv, TypeOK, Lookups
<1>3. CASE UNCHANGED <<docs, hits, by>>
  <2>1. UNCHANGED <<bucket, s3, on, index, dnfHandler, loop, folder, todo, keys, batch, sure, seen, published, kind, handler>>
    BY <1>1 DEF remote, build
  <2>2. TypeOK'
    BY <1>1, <1>3, <2>1 DEF IInv, TypeOK
  <2>3. Folders' /\ Marked' /\ Unused'
    BY <2>1 DEF IInv, Folders, Marked, Unused, InUse, HeldBy
  <2>4. Lookups'
    BY <1>1, <1>3, <2>1 DEF IInv, TypeOK, Lookups, Remembers, Bound
  <2>5. Round'
    BY <2>1 DEF IInv, Round, Coming, InFolders, InBatch, Offered
  <2> QED BY <2>2, <2>3, <2>4, <2>5 DEF IInv
<1>4. CASE \E found \in SUBSET Matches(published, TRUE, TRUE) \ {{}} :
             Take(r, published, found, IF published = handler[r] THEN "cpt" ELSE "elsewhere")
  <2>1. PICK found \in SUBSET Matches(published, TRUE, TRUE) :
               Take(r, published, found, IF published = handler[r] THEN "cpt" ELSE "elsewhere")
    BY <1>4
  <2>2. CASE published = handler[r]
    <3>1. Take(r, published, found, "cpt")
      BY <2>1, <2>2
    <3> QED BY <1>1, <1>2, <2>2, <3>1, TakeStep
  <2>3. CASE published # handler[r]
    <3>1. Take(r, published, found, "elsewhere")
      BY <2>1, <2>3
    <3> QED BY <1>1, <1>2, <3>1, TakeStep
  <2> QED BY <2>2, <2>3
<1> QED BY <1>3, <1>4 DEF GetCptDocs

(* A request answers with what it found and gives its handler back.        *)
LEMMA AnswerStep == ASSUME IInv, NEW r \in Requests, Answer(r) PROVE IInv'
<1> DEFINE used == {published, dnfHandler} \cup HeldBy(Requests \ {r})
<1>1. /\ at[r] = "lookup" /\ at' = [at EXCEPT ![r] = "idle"] /\ handler' = [handler EXCEPT ![r] = Nil]
      /\ docs' = [docs EXCEPT ![r] = {}] /\ hits' = [hits EXCEPT ![r] = {}]
      /\ kind' = [kind EXCEPT ![r] = Nil] /\ by' = [by EXCEPT ![r] = "none"]
      /\ index' = Collect(used)
      /\ UNCHANGED <<bucket, s3, on, dnfHandler, loop, folder, todo, keys, batch, sure, seen, published>>
  BY DEF Answer, remote
<1>2. /\ index' \in [Handlers -> Seq(Docs)] /\ Marked'
      /\ \A h \in Handlers : index'[h] = IF h \in used THEN index[h] ELSE <<>>
  BY <1>1, CollectStep
<1> HIDE DEF used
<1>3. dnfHandler \in Handlers /\ index'[dnfHandler] = index[dnfHandler]
  BY <1>2 DEF IInv, TypeOK, used
<1>4. \A q \in Requests \ {r} : handler[q] \in Handlers => index'[handler[q]] = index[handler[q]]
  BY <1>2 DEF used, HeldBy
<1>5. TypeOK' /\ Folders'
  BY <1>1, <1>2 DEF IInv, TypeOK, Folders
<1>6. Unused'
  <2>1. used \ {Nil} \subseteq InUse' \cup {dnfHandler}
    BY <1>1 DEF used, InUse, HeldBy, IInv, TypeOK
  <2> QED BY <1>1, <1>2, <1>3, <2>1, OfferIndexAssumption DEF IInv, Unused
<1>7. Lookups'
  <2> SUFFICES ASSUME NEW q \in Requests
               PROVE  /\ at'[q] = "idle" => handler'[q] = Nil
                      /\ at'[q] # "idle" => published' # Nil
                      /\ at'[q] \in {"cpt", "lookup"} /\ by'[q] # "elsewhere" => Remembers(q)'
    BY DEF Lookups
  <2>1. CASE q = r
    BY <1>1, <2>1 DEF IInv, TypeOK
  <2>2. CASE q # r
    <3>1. docs'[q] = docs[q] /\ hits'[q] = hits[q] /\ at'[q] = at[q] /\ handler'[q] = handler[q]
          /\ kind'[q] = kind[q] /\ by'[q] = by[q]
      BY <1>1, <2>2 DEF IInv, TypeOK
    <3>2. at[q] # "idle" => index'[handler[q]] = index[handler[q]]
      BY <1>4, <2>2 DEF IInv, TypeOK
    <3>3. Remembers(q) /\ at[q] # "idle" => Remembers(q)'
      BY <3>1, <3>2 DEF Remembers, Bound
    <3> QED BY <1>1, <3>1, <3>3 DEF IInv, Lookups
  <2> QED BY <2>1, <2>2
<1>8. Offered(dnfHandler)' = Offered(dnfHandler)
  BY <1>1, <1>3 DEF Offered
<1>9. Round'
  BY <1>1, <1>8 DEF IInv, Round, Coming, InFolders, InBatch
<1> QED BY <1>2, <1>5, <1>6, <1>7, <1>9 DEF IInv

-----------------------------------------------------------------------------
(* The invariant holds in every state, whatever is owed.                   *)
THEOREM OfferIndexInvariant == Spec => []IInv
<1>1. Init => IInv
  <2> SUFFICES ASSUME Init PROVE IInv
    OBVIOUS
  <2>1. index \in [Handlers -> Seq(Docs)] /\ \A h \in Handlers : index[h] = <<>> /\ DOMAIN index[h] = {}
    BY EmptyIndex DEF Init
  <2>2. DOMAIN batch = {}
    BY EmptyIndex DEF Init
  <2>3. TypeOK
    BY <2>1, <2>2, OfferIndexAssumption DEF Init, TypeOK
  <2>4. Folders /\ Marked /\ Unused /\ Lookups
    BY <2>1, <2>2 DEF Init, Folders, Marked, Unused, Lookups
  <2>5. Round
    BY <2>1, <2>2 DEF Init, Round, Offered
  <2> QED BY <2>3, <2>4, <2>5 DEF IInv
<1>2. IInv /\ UNCHANGED vars => IInv'
  <2> SUFFICES ASSUME IInv, UNCHANGED vars PROVE IInv'
    OBVIOUS
  <2>1. UNCHANGED <<bucket, s3, on, index, dnfHandler, loop, folder, todo, keys, batch, sure, seen, published, served>>
    BY DEF vars, remote, build
  <2>2. Marked' /\ Unused' /\ Lookups' /\ Offered(dnfHandler)' = Offered(dnfHandler)
    BY <2>1, HandlersKept
  <2>3. TypeOK' /\ Folders'
    BY <2>1 DEF IInv, TypeOK, Folders, served
  <2>4. Round'
    BY <2>1, <2>2 DEF IInv, Round, Coming, InFolders, InBatch
  <2> QED BY <2>2, <2>3, <2>4 DEF IInv
<1>3. IInv /\ [Next]_vars => IInv'
  BY <1>2, BucketStep, ServeStep, StatusStep, ListsStep, ListTmpStep, DownloadStep, EndFolderStep, AddOfferStep,
     SetHandlerStep, NewHandlerStep, GetHandlerStep, SearchStep, FuyuStep, CptStep, AnswerStep DEF Next, Update, Request, Serving
<1> QED BY <1>1, <1>3, PTL DEF Spec

(* The loop and the requests keep their types (update.go, offer.go).       *)
THEOREM TypeCorrect == Spec => []TypeOK
  BY OfferIndexInvariant, PTL DEF IInv

(* A round publishes what the bucket held and nothing else (update.go).    *)
THEOREM BucketPublished == Spec => []PublishesTheBucket
<1>1. IInv => PublishesTheBucket
  BY DEF IInv, Round, Unused, PublishesTheBucket
<1> QED BY <1>1, OfferIndexInvariant, PTL

(* A request answers with what its own search found, under its own filter, *)
(* unless cpt searched another handler for it (retrieval.go, cpt.go).      *)
THEOREM AnswersAsSearched == Spec => []ServedAsSearched
<1>1. IInv => ServedAsSearched
  <2> SUFFICES ASSUME IInv, NEW r \in Requests, at[r] = "lookup", by[r] # "elsewhere"
               PROVE  /\ DocId2Attr(r) = hits[r]
                      /\ \A ad \in DocId2Attr(r) :
                           /\ IsTmp(ad.offer) => kind[r] \in {"promote", "open"} \/ by[r] \in {"cpt", "fuyu"}
                           /\ Raw[ad.offer].tempBlack = 1 => kind[r] = "promote" \/ by[r] = "cpt"
    BY DEF ServedAsSearched
  <2>1. handler[r] \in Handlers
    BY DEF IInv, TypeOK
  <2>2. /\ docs[r] \subseteq DOMAIN index[handler[r]] /\ \A i \in docs[r] : Bound(r, index[handler[r]][i])
        /\ hits[r] = {index[handler[r]][i] : i \in docs[r]}
    BY DEF IInv, Lookups, Remembers
  <2>3. DocId2Attr(r) = {index[handler[r]][i] : i \in docs[r]}
    BY <2>2 DEF DocId2Attr
  <2>4. \A i \in docs[r] : IsTmp(index[handler[r]][i].offer) => index[handler[r]][i].isT = 1
    BY <2>1, <2>2 DEF IInv, Marked
  <2> QED BY <2>2, <2>3, <2>4 DEF Bound
<1> QED BY <1>1, OfferIndexInvariant, PTL

(* No step changes a finished handler that is in use (update.go).          *)
THEOREM InUseUnchanged == Spec => FinishedIndexFrozen
<1> DEFINE Kept == \A h \in (InUse \ Filling) \cap InUse' : index'[h] = index[h]
<1>1. IInv /\ [Next]_vars => Kept \/ UNCHANGED vars
  <2> SUFFICES ASSUME IInv, Next, NEW h \in InUse, h \notin Filling, h \in InUse' PROVE index'[h] = index[h]
    BY DEF vars
  <2>1. h \in Handlers
    BY DEF IInv, TypeOK, InUse, HeldBy
  <2>2. CASE addOffer
    BY <2>1, <2>2 DEF addOffer, AddDoc, Filling, IInv, TypeOK
  <2>3. CASE SetHandler
    <3>1. h \in {dnfHandler} \cup HeldBy(Requests)
      BY <2>3 DEF SetHandler, served, InUse, HeldBy
    <3> QED BY <2>1, <2>3, <3>1 DEF SetHandler, Collect
  <2>4. ASSUME NEW r \in Requests, Answer(r) PROVE index'[h] = index[h]
    <3>1. h \in {published, dnfHandler} \cup HeldBy(Requests \ {r})
      BY <2>4, <2>1, OfferIndexAssumption DEF Answer, InUse, HeldBy, IInv, TypeOK
    <3> QED BY <2>1, <2>4, <3>1 DEF Answer, Collect
  <2> QED BY <2>2, <2>3, <2>4
        DEF Next, Update, Request, Upload, Delete, Network, Serve, downloadChannelStatus, doUpdateS3, listTmpChannels,
            doUpdateS3TmpChannels, downloadKey, endFolder, NewHandler, Serving, GetHandler, Search,
            getFuyuDocsWithShuffle, GetCptDocs, build
<1>2. IInv /\ [Next]_vars => [Kept]_vars
  BY <1>1
<1> QED BY <1>2, OfferIndexInvariant, PTL DEF Spec, FinishedIndexFrozen

-----------------------------------------------------------------------------
(* The callback queue: the loops of container/heap.                        *)

(* A set of natural numbers that is not empty has a least one.  This is all *)
(* the induction the proofs below need: they take the first position that  *)
(* would break what they claim.                                            *)
LEMMA Least ==
  ASSUME NEW T \in SUBSET Nat, T # {}
  PROVE  \E m \in T : \A k \in T : m <= k
<1> DEFINE R == {p \in Nat \X Nat : p[1] < p[2]}
<1>1. R = OpToRel(<, Nat) BY DEF OpToRel
<1>2. IsWellFoundedOn(R, Nat) BY <1>1, NatLessThanWellFounded
<1>3. PICK x \in T : \A y \in T : <<y, x>> \notin R
  <2> HIDE DEF R
  <2> QED BY <1>2, WFMin
<1>4. \A y \in T : ~(y < x) BY <1>3
<1> QED BY <1>3, <1>4

(* One turn of the loop of up, which goes on with f. *)
RiseTurn(due, k, s, f) ==
  IF k <= 1 \/ ~Less(s, due, k, k \div 2) THEN s ELSE f[k \div 2][Swap(s, k, k \div 2)]
IsRise(due, n, f) == f = [k \in 0..n |-> [s \in Seq(DOMAIN due) |-> RiseTurn(due, k, s, f)]]

(* There is a function that does what the definition of Rise says at every *)
(* position.                                                               *)
LEMMA RiseExists ==
  ASSUME NEW due, NEW n \in Nat
  PROVE  \E f : IsRise(due, n, f)
<1> DEFINE D == Seq(DOMAIN due)
<1> DEFINE T == {m \in Nat : ~ \E f : IsRise(due, m, f)}
<1> SUFFICES ASSUME T # {} PROVE FALSE
  OBVIOUS
<1>1. PICK m \in T : \A k \in T : m <= k
  <2> T \in SUBSET Nat OBVIOUS
  <2> HIDE DEF T
  <2> QED BY Least
<1>2. m \in Nat OBVIOUS
<1>3. PICK g : m > 0 => IsRise(due, m - 1, g)
  <2>1. CASE m = 0 BY <2>1
  <2>2. CASE m > 0
    <3>1. m - 1 \in Nat /\ m - 1 \notin T BY <1>1, <1>2, <2>2
    <3> QED BY <3>1
  <2> QED BY <1>2, <2>1, <2>2
<1> DEFINE f == [k \in 0..m |-> [s \in D |-> RiseTurn(due, k, s, g)]]
<1>4. ASSUME NEW k \in 0..m, NEW s \in D PROVE RiseTurn(due, k, s, g) = RiseTurn(due, k, s, f)
  <2>1. CASE k <= 1 BY <2>1 DEF RiseTurn
  <2>2. CASE k > 1
    <3>1. k \div 2 \in 0..(m - 1) /\ m > 0 BY <1>2, <2>2
    <3>2. g[k \div 2] = [t \in D |-> RiseTurn(due, k \div 2, t, g)] BY <1>3, <3>1 DEF IsRise
    <3>3. f[k \div 2] = [t \in D |-> RiseTurn(due, k \div 2, t, g)] BY <1>2, <3>1
    <3> QED BY <3>2, <3>3 DEF RiseTurn
  <2> QED BY <1>2, <2>1, <2>2
<1>5. f = [k \in 0..m |-> [s \in D |-> RiseTurn(due, k, s, f)]]
  BY <1>4
<1>6. IsRise(due, m, f) BY <1>5 DEF IsRise
<1> HIDE DEF f
<1> QED BY <1>1, <1>6

(* So Rise is one.                                                         *)
LEMMA RiseIs ==
  ASSUME NEW due, NEW n \in Nat
  PROVE  IsRise(due, n, Rise(due, n))
<1>1. \E f : IsRise(due, n, f) BY RiseExists
<1>2. Rise(due, n) = CHOOSE f : IsRise(due, n, f)
  BY DEF Rise, IsRise, RiseTurn
<1> QED BY <1>1, <1>2


(* What the loops keep of a sequence: its length, its items, and that each *)
(* is there once.                                                          *)
ItemsOf(s) == {s[k] : k \in DOMAIN s}
Distinct(s) == \A j, k \in DOMAIN s : s[j] = s[k] => j = k
Kept(s, t) ==
  /\ Len(t) = Len(s) /\ ItemsOf(t) = ItemsOf(s)
  /\ Distinct(s) => Distinct(t)

(* A swap keeps them.                                                      *)
LEMMA SwapKeeps ==
  ASSUME NEW D, NEW s \in Seq(D), NEW i \in DOMAIN s, NEW j \in DOMAIN s
  PROVE  /\ Swap(s, i, j) \in Seq(D) /\ Kept(s, Swap(s, i, j))
         /\ Swap(s, i, j)[i] = s[j] /\ Swap(s, i, j)[j] = s[i]
         /\ \A k \in DOMAIN s : k # i /\ k # j => Swap(s, i, j)[k] = s[k]
<1> DEFINE t == Swap(s, i, j)
<1>1. t \in Seq(D) /\ DOMAIN t = DOMAIN s /\ Len(t) = Len(s) BY DEF Swap
<1>2. t[i] = s[j] /\ t[j] = s[i] /\ \A k \in DOMAIN s : k # i /\ k # j => t[k] = s[k]
  BY DEF Swap
<1> HIDE DEF t
<1>3. ItemsOf(t) = ItemsOf(s)
  <2>1. ASSUME NEW k \in DOMAIN s PROVE t[k] \in ItemsOf(s) BY <1>2 DEF ItemsOf
  <2>2. ASSUME NEW k \in DOMAIN s PROVE s[k] \in ItemsOf(t) BY <1>1, <1>2 DEF ItemsOf
  <2>3. ItemsOf(t) \subseteq ItemsOf(s) BY <1>1, <2>1 DEF ItemsOf
  <2>4. ItemsOf(s) \subseteq ItemsOf(t) BY <1>1, <2>2 DEF ItemsOf
  <2> QED BY <2>3, <2>4
<1>4. Distinct(s) => Distinct(t) BY <1>1, <1>2 DEF Distinct
<1> QED BY <1>1, <1>2, <1>3, <1>4 DEF t, Kept

(* The parent of a position is before it.                                  *)
LEMMA Half ==
  ASSUME NEW c \in Nat, c >= 2
  PROVE  c \div 2 \in Nat /\ c \div 2 >= 1 /\ c \div 2 < c /\ (2 * (c \div 2) = c \/ 2 * (c \div 2) + 1 = c)
OBVIOUS

(* The order holds but for the item at k, which may be earlier than those  *)
(* above it.                                                               *)
OrderedBut(s, due, k) ==
  \A c \in 2..Len(s) :
    /\ c # k => due[s[c \div 2]] <= due[s[c]]
    /\ c \div 2 = k /\ k >= 2 => due[s[k \div 2]] <= due[s[c]]

(* One turn of up brings it nearer to the first place.                     *)
LEMMA RiseTurnOrders ==
  ASSUME NEW D, NEW due \in [D -> Int], NEW s \in Seq(D), NEW k \in 2..Len(s),
         OrderedBut(s, due, k), Less(s, due, k, k \div 2)
  PROVE  OrderedBut(Swap(s, k, k \div 2), due, k \div 2)
<1>1. PICK p : p = k \div 2 OBVIOUS
<1>2. p \in Nat /\ p >= 1 /\ p < k /\ DOMAIN s = 1..Len(s) /\ Len(s) \in Nat /\ k \in Nat /\ k <= Len(s)
  BY <1>1, Half
<1>3. PICK t : t = Swap(s, k, p) OBVIOUS
<1>4. /\ t \in Seq(D) /\ Len(t) = Len(s) /\ t[k] = s[p] /\ t[p] = s[k]
      /\ \A i \in 1..Len(s) : i # k /\ i # p => t[i] = s[i]
  <2>1. k \in DOMAIN s /\ p \in DOMAIN s BY <1>2
  <2>2. /\ Swap(s, k, p) \in Seq(D) /\ Kept(s, Swap(s, k, p))
        /\ Swap(s, k, p)[k] = s[p] /\ Swap(s, k, p)[p] = s[k]
        /\ \A i \in DOMAIN s : i # k /\ i # p => Swap(s, k, p)[i] = s[i]
    BY <2>1, SwapKeeps, ZenonT(40)
  <2> QED BY <1>2, <1>3, <2>2 DEF Kept
<1>5. \A i \in 1..Len(s) : due[s[i]] \in Int BY <1>2
<1>6. due[s[k]] < due[s[p]] BY <1>1 DEF Less
<1>7. ASSUME NEW c \in 2..Len(s)
      PROVE  /\ c # p => due[t[c \div 2]] <= due[t[c]]
             /\ c \div 2 = p /\ p >= 2 => due[t[p \div 2]] <= due[t[c]]
  <2>0. PICK b : b = c \div 2 OBVIOUS
  <2>1. b \in Nat /\ b >= 1 /\ b < c /\ c \in Nat /\ c <= Len(s) /\ b \in 1..Len(s) /\ c \in 1..Len(s)
    BY <2>0, <1>2, Half
  <2>2. c # k => due[s[b]] <= due[s[c]] BY <2>0 DEF OrderedBut
  <2>3. b = k => due[s[p]] <= due[s[c]] BY <1>1, <2>0 DEF OrderedBut
  <2>4. c # p => due[t[b]] <= due[t[c]]
    <3> SUFFICES ASSUME c # p PROVE due[t[b]] <= due[t[c]]
      OBVIOUS
    <3>1. CASE c = k
      <4>1. b = p BY <1>1, <2>0, <3>1
      <4> QED BY <1>2, <1>4, <1>5, <1>6, <3>1, <4>1, SMTT(30)
    <3>2. CASE c # k /\ b = k
      <4>1. t[b] = s[p] /\ t[c] = s[c] BY <1>4, <2>1, <3>2
      <4> QED BY <2>3, <3>2, <4>1
    <3>3. CASE c # k /\ b = p
      <4>1. t[b] = s[k] /\ t[c] = s[c] BY <1>4, <2>1, <3>3
      <4>2. due[s[p]] <= due[s[c]] BY <2>2, <3>3
      <4>3. due[s[k]] \in Int /\ due[s[p]] \in Int /\ due[s[c]] \in Int BY <1>2, <1>5, <2>1
      <4> QED BY <1>6, <4>1, <4>2, <4>3
    <3>4. CASE c # k /\ b # k /\ b # p
      <4>1. t[b] = s[b] /\ t[c] = s[c] BY <1>4, <2>1, <3>4
      <4> QED BY <2>2, <3>4, <4>1
    <3> QED BY <3>1, <3>2, <3>3, <3>4
  <2>5. b = p /\ p >= 2 => due[t[p \div 2]] <= due[t[c]]
    <3> SUFFICES ASSUME b = p, p >= 2 PROVE due[t[p \div 2]] <= due[t[c]]
      OBVIOUS
    <3>0. PICK a : a = p \div 2 OBVIOUS
    <3>1. a \in 1..Len(s) /\ a < p BY <3>0, <1>2, Half
    <3>2. t[a] = s[a] BY <1>2, <1>4, <3>1
    <3>3. due[s[a]] <= due[s[p]] BY <1>2, <3>0 DEF OrderedBut
    <3>4. CASE c = k BY <1>4, <3>0, <3>2, <3>3, <3>4
    <3>5. CASE c # k
      <4>1. t[c] = s[c] BY <1>2, <1>4, <2>1, <3>0, <3>5
      <4>2. due[s[p]] <= due[s[c]] BY <2>2, <3>5
      <4>3. due[s[a]] \in Int /\ due[s[p]] \in Int /\ due[s[c]] \in Int BY <1>2, <1>5, <2>1, <3>1
      <4> QED BY <3>0, <3>2, <3>3, <4>1, <4>2, <4>3
    <3> QED BY <3>4, <3>5
  <2> QED BY <2>0, <2>4, <2>5
<1> QED BY <1>1, <1>3, <1>4, <1>7 DEF OrderedBut

(* What up makes of a sequence.                                            *)
LEMMA RiseOrders ==
  ASSUME NEW D, NEW due \in [D -> Int], NEW n \in Nat, NEW j \in 0..n, NEW h \in Seq(D), j <= Len(h)
  PROVE  LET t == Rise(due, n)[j][h]
         IN  t \in Seq(D) /\ Kept(h, t) /\ (OrderedBut(h, due, j) => Ordered(t, due))
<1>0. PICK f : f = Rise(due, n) OBVIOUS
<1> DEFINE Good(k, s) == /\ f[k][s] \in Seq(D) /\ Kept(s, f[k][s])
                         /\ OrderedBut(s, due, k) => Ordered(f[k][s], due)
<1> DEFINE T == {k \in 0..n : \E s \in Seq(D) : k <= Len(s) /\ ~Good(k, s)}
<1>1. ASSUME NEW k \in 0..n, NEW s \in Seq(D) PROVE f[k][s] = RiseTurn(due, k, s, f)
  BY <1>0, RiseIs DEF IsRise
<1>2. SUFFICES ASSUME T # {} PROVE FALSE
  BY <1>0
<1>3. PICK m \in T : \A k \in T : m <= k
  <2> T \in SUBSET Nat OBVIOUS
  <2> HIDE DEF T
  <2> QED BY <1>2, Least
<1>4. PICK s \in Seq(D) : m <= Len(s) /\ ~Good(m, s) OBVIOUS
<1>5. m \in 0..n /\ m \in Nat /\ \A k \in 0..n : k < m => \A t \in Seq(D) : k <= Len(t) => Good(k, t)
  BY <1>3
<1> HIDE DEF T
<1>6. CASE m <= 1 \/ ~Less(s, due, m, m \div 2)
  <2>1. f[m][s] = s BY <1>1, <1>5, <1>6 DEF RiseTurn
  <2>2. ASSUME OrderedBut(s, due, m), NEW c \in 2..Len(s) PROVE due[s[c \div 2]] <= due[s[c]]
    <3>1. CASE c # m BY <2>2, <3>1 DEF OrderedBut
    <3>2. CASE c = m
      <4>1. c \div 2 \in DOMAIN s /\ c \in DOMAIN s BY Half
      <4>2. ~(due[s[c]] < due[s[c \div 2]]) BY <1>6, <3>2 DEF Less
      <4>3. due[s[c]] \in Int /\ due[s[c \div 2]] \in Int BY <4>1
      <4> QED BY <4>2, <4>3
    <3> QED BY <3>1, <3>2
  <2>3. OrderedBut(s, due, m) => Ordered(s, due) BY <2>2 DEF Ordered
  <2>4. Kept(s, s) BY DEF Kept
  <2> QED BY <1>4, <2>1, <2>3, <2>4
<1>7. CASE m > 1 /\ Less(s, due, m, m \div 2)
  <2>0. PICK p : p = m \div 2 OBVIOUS
  <2>1. p \in 0..n /\ p < m /\ p \in DOMAIN s /\ m \in DOMAIN s /\ m \in 2..Len(s)
    BY <2>0, <1>4, <1>5, <1>7, Half
  <2>2. PICK t : t = Swap(s, m, p) OBVIOUS
  <2>3. t \in Seq(D) /\ Kept(s, t) BY <2>1, <2>2, SwapKeeps
  <2>4. p <= Len(t) BY <2>1, <2>3 DEF Kept
  <2>5. Good(p, t) BY <1>5, <2>1, <2>3, <2>4
  <2>6. f[m][s] = f[p][t] BY <1>1, <1>5, <1>7, <2>0, <2>2, SMTT(30) DEF RiseTurn
  <2>7. OrderedBut(s, due, m) => OrderedBut(t, due, p)
    BY <1>7, <2>0, <2>1, <2>2, RiseTurnOrders
  <2>8. Kept(s, f[p][t]) BY <2>3, <2>5 DEF Kept
  <2> QED BY <1>4, <2>5, <2>6, <2>7, <2>8
<1> QED BY <1>5, <1>6, <1>7


-----------------------------------------------------------------------------
(* One turn of the loop of down, which goes on with f.                     *)
SinkTurn(due, n, k, s, f) ==
  IF 2 * k > n \/ ~Less(s, due, Child(s, due, k, n), k) THEN s
  ELSE f[Child(s, due, k, n)][Swap(s, k, Child(s, due, k, n))]
IsSink(due, n, m, f) ==
  f = [k \in m..(n + 1) |-> [s \in Seq(DOMAIN due) |-> SinkTurn(due, n, k, s, f)]]

(* The child a turn goes on with is below it, and is one of its two.       *)
LEMMA ChildIs ==
  ASSUME NEW due, NEW s, NEW n \in Nat, NEW k \in Nat, k >= 1, 2 * k <= n
  PROVE  /\ Child(s, due, k, n) \in {2 * k, 2 * k + 1}
         /\ Child(s, due, k, n) \in (k + 1)..n
<1>1. CASE 2 * k < n /\ Less(s, due, 2 * k + 1, 2 * k)
  <2>1. Child(s, due, k, n) = 2 * k + 1 BY <1>1 DEF Child
  <2> QED BY <1>1, <2>1
<1>2. CASE ~(2 * k < n /\ Less(s, due, 2 * k + 1, 2 * k))
  <2>1. Child(s, due, k, n) = 2 * k BY <1>2 DEF Child
  <2> QED BY <2>1
<1> QED BY <1>1, <1>2

(* The loop of down is defined, from its end backwards.                    *)
LEMMA SinkExists ==
  ASSUME NEW due, NEW n \in Nat
  PROVE  \E f : IsSink(due, n, 1, f)
<1> DEFINE D == Seq(DOMAIN due)
<1> DEFINE T == {d \in Nat : d <= n /\ ~ \E f : IsSink(due, n, n + 1 - d, f)}
<1>1. SUFFICES ASSUME T # {} PROVE FALSE
  <2>1. n \in Nat /\ n <= n /\ n + 1 - n = 1 OBVIOUS
  <2>2. n \in T \/ \E f : IsSink(due, n, n + 1 - n, f) BY <2>1
  <2> QED BY <2>1, <2>2
<1>2. PICK d \in T : \A e \in T : d <= e
  <2> T \in SUBSET Nat OBVIOUS
  <2> HIDE DEF T
  <2> QED BY <1>1, Least
<1>3. d \in Nat /\ d <= n OBVIOUS
<1>4. PICK m : m = n + 1 - d OBVIOUS
<1>5. m \in Nat /\ 1 <= m /\ m <= n + 1 BY <1>3, <1>4
<1>6. PICK g : m <= n => IsSink(due, n, m + 1, g)
  <2>1. CASE d = 0 BY <1>4, <2>1
  <2>2. CASE d > 0
    <3>1. d - 1 \in Nat /\ d - 1 <= n /\ d - 1 \notin T /\ n + 1 - (d - 1) = m + 1 BY <1>2, <1>3, <1>4, <2>2
    <3>2. \E f : IsSink(due, n, n + 1 - (d - 1), f) BY <3>1
    <3> QED BY <3>1, <3>2
  <2> QED BY <1>3, <2>1, <2>2
<1> DEFINE f == [k \in m..(n + 1) |-> [s \in D |-> SinkTurn(due, n, k, s, g)]]
<1>7. ASSUME NEW k \in m..(n + 1), NEW s \in D
      PROVE  SinkTurn(due, n, k, s, g) = SinkTurn(due, n, k, s, f)
  <2>1. CASE 2 * k > n BY <2>1 DEF SinkTurn
  <2>2. CASE ~(2 * k > n)
    <3>0. PICK c : c = Child(s, due, k, n) OBVIOUS
    <3>1. c \in (m + 1)..(n + 1) /\ m <= n BY <1>5, <2>2, <3>0, ChildIs
    <3>2. g[c] = [t \in D |-> SinkTurn(due, n, c, t, g)] BY <1>6, <3>1 DEF IsSink
    <3>3. f[c] = [t \in D |-> SinkTurn(due, n, c, t, g)] BY <1>5, <3>1
    <3> HIDE DEF f
    <3> QED BY <3>0, <3>2, <3>3 DEF SinkTurn
  <2> QED BY <1>5, <2>1, <2>2
<1>8. f = [k \in m..(n + 1) |-> [s \in D |-> SinkTurn(due, n, k, s, f)]]
  BY <1>7
<1>9. IsSink(due, n, m, f) BY <1>8 DEF IsSink
<1> HIDE DEF f
<1> QED BY <1>2, <1>4, <1>9

(* So Sink is what its definition says.                                    *)
LEMMA SinkIs ==
  ASSUME NEW due, NEW n \in Nat
  PROVE  IsSink(due, n, 1, Sink(due, n))
<1>1. \E f : IsSink(due, n, 1, f) BY SinkExists
<1>2. Sink(due, n) = CHOOSE f : IsSink(due, n, 1, f)
  BY DEF Sink, IsSink, SinkTurn
<1> QED BY <1>1, <1>2

(* The order of the first n holds but for the item at k, which may be      *)
(* later than those below it.                                              *)
OrderedFirst(s, due, n) == \A c \in 2..n : due[s[c \div 2]] <= due[s[c]]
OrderedAbove(s, due, n, k) ==
  \A c \in 2..n :
    /\ c \div 2 # k => due[s[c \div 2]] <= due[s[c]]
    /\ c \div 2 = k /\ k >= 2 => due[s[k \div 2]] <= due[s[c]]

(* The child a turn goes on with is the earlier one.                       *)
LEMMA ChildIsEarliest ==
  ASSUME NEW D, NEW due \in [D -> Int], NEW s \in Seq(D), NEW n \in 0..Len(s), NEW k \in Nat,
         k >= 1, 2 * k <= n, NEW c \in 2..n, c \div 2 = k
  PROVE  due[s[Child(s, due, k, n)]] <= due[s[c]]
<1>1. c = 2 * k \/ c = 2 * k + 1 BY Half
<1>2. n <= Len(s) /\ n \in Nat /\ Len(s) \in Nat /\ c \in Nat /\ c <= n OBVIOUS
<1>3. 2 * k \in DOMAIN s /\ due[s[2 * k]] \in Int BY <1>2
<1>4. 2 * k < n => 2 * k + 1 \in DOMAIN s /\ due[s[2 * k + 1]] \in Int BY <1>2
<1>5. CASE 2 * k < n /\ Less(s, due, 2 * k + 1, 2 * k)
  <2>1. Child(s, due, k, n) = 2 * k + 1 BY <1>5 DEF Child
  <2>2. due[s[2 * k + 1]] < due[s[2 * k]] BY <1>5 DEF Less
  <2> QED BY <1>1, <1>3, <1>4, <1>5, <2>1, <2>2
<1>6. CASE ~(2 * k < n /\ Less(s, due, 2 * k + 1, 2 * k))
  <2>1. Child(s, due, k, n) = 2 * k BY <1>6 DEF Child
  <2>2. 2 * k < n => ~(due[s[2 * k + 1]] < due[s[2 * k]]) BY <1>6 DEF Less
  <2>3. CASE c = 2 * k BY <1>3, <2>1, <2>3
  <2>4. CASE c = 2 * k + 1 BY <1>2, <1>3, <1>4, <2>1, <2>2, <2>4
  <2> QED BY <1>1, <2>3, <2>4
<1> QED BY <1>5, <1>6

(* One turn of down brings it nearer to the leaves.                        *)
LEMMA SinkTurnOrders ==
  ASSUME NEW D, NEW due \in [D -> Int], NEW s \in Seq(D), NEW n \in 0..Len(s), NEW k \in Nat,
         k >= 1, 2 * k <= n, OrderedAbove(s, due, n, k), Less(s, due, Child(s, due, k, n), k)
  PROVE  OrderedAbove(Swap(s, k, Child(s, due, k, n)), due, n, Child(s, due, k, n))
<1>1. PICK p : p = Child(s, due, k, n) OBVIOUS
<1>2. /\ p \in Nat /\ k < p /\ p <= n /\ p \in 2..n /\ p \div 2 = k
      /\ DOMAIN s = 1..Len(s) /\ n \in Nat /\ n <= Len(s) /\ Len(s) \in Nat
      /\ k \in DOMAIN s /\ p \in DOMAIN s
  <2>1. n \in Nat /\ n <= Len(s) /\ Len(s) \in Nat /\ DOMAIN s = 1..Len(s) OBVIOUS
  <2>2. p \in {2 * k, 2 * k + 1} /\ p \in (k + 1)..n BY <1>1, <2>1, ChildIs
  <2> QED BY <2>1, <2>2
<1>3. PICK t : t = Swap(s, k, p) OBVIOUS
<1>4. /\ t[k] = s[p] /\ t[p] = s[k]
      /\ \A i \in 1..Len(s) : i # k /\ i # p => t[i] = s[i]
  <2>1. /\ Swap(s, k, p)[k] = s[p] /\ Swap(s, k, p)[p] = s[k]
        /\ \A i \in DOMAIN s : i # k /\ i # p => Swap(s, k, p)[i] = s[i]
    <3>1. k \in DOMAIN s /\ p \in DOMAIN s BY <1>2
    <3> QED BY <3>1, SwapKeeps
  <2> QED BY <1>2, <1>3, <2>1
<1>5. \A i \in 1..Len(s) : due[s[i]] \in Int BY <1>2
<1>6. due[s[p]] < due[s[k]] BY <1>1 DEF Less
<1>7. ASSUME NEW c \in 2..n
      PROVE  /\ c \div 2 # p => due[t[c \div 2]] <= due[t[c]]
             /\ c \div 2 = p /\ p >= 2 => due[t[p \div 2]] <= due[t[c]]
  <2>0. PICK b : b = c \div 2 OBVIOUS
  <2>1. b \in Nat /\ b >= 1 /\ b < c /\ c \in Nat /\ c <= n /\ b \in 1..Len(s) /\ c \in 1..Len(s)
    BY <2>0, <1>2, Half
  <2>2. b # k => due[s[b]] <= due[s[c]] BY <2>0 DEF OrderedAbove
  <2>3. b = k => due[s[p]] <= due[s[c]] BY <1>1, <1>2, <2>0, ChildIsEarliest
  <2>4. b # p => due[t[b]] <= due[t[c]]
    <3> SUFFICES ASSUME b # p PROVE due[t[b]] <= due[t[c]]
      OBVIOUS
    <3>1. CASE c = p
      <4>1. b = k BY <1>2, <2>0, <3>1
      <4> QED BY <1>2, <1>4, <1>5, <1>6, <3>1, <4>1
    <3>2. CASE c # p /\ b = k
      <4>1. t[b] = s[p] /\ t[c] = s[c] BY <1>2, <1>4, <2>1, <3>2
      <4> QED BY <2>3, <3>2, <4>1
    <3>3. CASE c = k
      <4>1. t[c] = s[p] /\ t[b] = s[b] BY <1>4, <2>1, <3>3
      <4>2. k >= 2 /\ b = k \div 2 BY <2>0, <3>3
      <4>3. due[s[k \div 2]] <= due[s[p]] BY <1>2, <4>2 DEF OrderedAbove
      <4> QED BY <4>1, <4>2, <4>3
    <3>4. CASE c # p /\ c # k /\ b # k
      <4>1. t[b] = s[b] /\ t[c] = s[c] BY <1>4, <2>1, <3>4
      <4> QED BY <2>2, <3>4, <4>1
    <3> QED BY <3>1, <3>2, <3>3, <3>4
  <2>5. b = p => due[t[p \div 2]] <= due[t[c]]
    <3> SUFFICES ASSUME b = p PROVE due[t[k]] <= due[t[c]]
      BY <1>2
    <3>1. t[k] = s[p] /\ t[c] = s[c] BY <1>2, <1>4, <2>1
    <3> QED BY <1>2, <2>2, <3>1
  <2> QED BY <2>0, <2>4, <2>5
<1> QED BY <1>1, <1>3, <1>7 DEF OrderedAbove

(* What down makes of a sequence: it leaves what is after the first n.     *)
LEMMA SinkOrders ==
  ASSUME NEW D, NEW due \in [D -> Int], NEW h \in Seq(D), NEW n \in 0..Len(h)
  PROVE  LET t == down(h, due, n)
         IN  /\ t \in Seq(D) /\ Kept(h, t) /\ \A i \in (n + 1)..Len(h) : t[i] = h[i]
             /\ OrderedAbove(h, due, n, 1) => OrderedFirst(t, due, n)
<1>0. PICK f : f = Sink(due, n) OBVIOUS
<1> DEFINE Good(k, s) ==
      /\ f[k][s] \in Seq(D) /\ Kept(s, f[k][s]) /\ \A i \in (n + 1)..Len(s) : f[k][s][i] = s[i]
      /\ OrderedAbove(s, due, n, k) => OrderedFirst(f[k][s], due, n)
<1> DEFINE T == {d \in Nat : d <= n /\ \E s \in Seq(D) : n <= Len(s) /\ ~Good(n + 1 - d, s)}
<1>n. n \in Nat /\ n <= Len(h) OBVIOUS
<1>1. ASSUME NEW k \in 1..(n + 1), NEW s \in Seq(D) PROVE f[k][s] = SinkTurn(due, n, k, s, f)
  <2>1. IsSink(due, n, 1, f) BY <1>0, <1>n, SinkIs
  <2>2. f[k] = [t \in Seq(D) |-> SinkTurn(due, n, k, t, f)] BY <2>1 DEF IsSink
  <2> QED BY <2>2
<1>2. SUFFICES ASSUME T # {} PROVE FALSE
  <2>1. n \notin T BY <1>2
  <2>2. Good(1, h) BY <1>n, <2>1
  <2> QED BY <1>0, <2>2 DEF down
<1>3. PICK d \in T : \A e \in T : d <= e
  <2> T \in SUBSET Nat OBVIOUS
  <2> HIDE DEF T
  <2> QED BY <1>2, Least
<1>d. d \in Nat /\ d <= n /\ \A e \in Nat : e < d => e \notin T
  <2> d \in Nat /\ d <= n OBVIOUS
  <2> HIDE DEF T
  <2> QED BY <1>3
<1>4. PICK m : m = n + 1 - d OBVIOUS
<1>5. PICK s \in Seq(D) : n <= Len(s) /\ ~Good(m, s) BY <1>4
<1>6. m \in 1..(n + 1) /\ m \in Nat /\ m >= 1 /\ n \in 0..Len(s) BY <1>4, <1>5, <1>n, <1>d
<1>7. ASSUME NEW k \in (m + 1)..n, NEW t \in Seq(D), n <= Len(t) PROVE Good(k, t)
  <2>0. k \in Nat /\ k > m /\ k <= n BY <1>6, <1>n
  <2>1. n + 1 - k \in Nat /\ n + 1 - k < d /\ n + 1 - k <= n /\ n + 1 - (n + 1 - k) = k
    BY <1>4, <1>6, <1>n, <1>d, <2>0
  <2>2. n + 1 - k \notin T BY <1>d, <2>1
  <2>3. Good(n + 1 - (n + 1 - k), t) BY <1>7, <2>1, <2>2
  <2> QED BY <2>1, <2>3
<1> HIDE DEF T
<1>8. CASE 2 * m > n \/ ~Less(s, due, Child(s, due, m, n), m)
  <2>1. f[m][s] = s BY <1>1, <1>6, <1>8 DEF SinkTurn
  <2>2. ASSUME OrderedAbove(s, due, n, m), NEW c \in 2..n PROVE due[s[c \div 2]] <= due[s[c]]
    <3>1. CASE c \div 2 # m BY <2>2, <3>1 DEF OrderedAbove
    <3>2. CASE c \div 2 = m
      <4>1. 2 * m <= n BY <1>6, <3>2, Half
      <4>2. due[s[Child(s, due, m, n)]] <= due[s[c]]
        BY <1>5, <1>6, <1>n, <3>2, <4>1, ChildIsEarliest
      <4>3. ~(due[s[Child(s, due, m, n)]] < due[s[m]]) BY <1>8, <1>6, <1>n, <4>1 DEF Less
      <4>4. Child(s, due, m, n) \in DOMAIN s /\ m \in DOMAIN s /\ c \in DOMAIN s
        <5>1. Child(s, due, m, n) \in (m + 1)..n BY <1>6, <1>n, <4>1, ChildIs
        <5>2. DOMAIN s = 1..Len(s) /\ n <= Len(s) /\ Len(s) \in Nat BY <1>6
        <5> QED BY <1>6, <1>n, <4>1, <5>1, <5>2
      <4>5. due[s[Child(s, due, m, n)]] \in Int /\ due[s[m]] \in Int /\ due[s[c]] \in Int
        BY <4>4
      <4> QED BY <3>2, <4>2, <4>3, <4>5
    <3> QED BY <3>1, <3>2
  <2>3. OrderedAbove(s, due, n, m) => OrderedFirst(s, due, n) BY <2>2 DEF OrderedFirst
  <2>4. Kept(s, s) BY DEF Kept
  <2> QED BY <1>5, <2>1, <2>3, <2>4
<1>9. CASE 2 * m <= n /\ Less(s, due, Child(s, due, m, n), m)
  <2>0. PICK p : p = Child(s, due, m, n) OBVIOUS
  <2>1. p \in (m + 1)..n /\ p \in DOMAIN s /\ m \in DOMAIN s
    BY <2>0, <1>5, <1>6, <1>9, <1>n, ChildIs, SMTT(30)
  <2>2. PICK t : t = Swap(s, m, p) OBVIOUS
  <2>3. /\ t \in Seq(D) /\ Kept(s, t)
        /\ \A i \in DOMAIN s : i # m /\ i # p => t[i] = s[i]
    <3>1. /\ Swap(s, m, p) \in Seq(D) /\ Kept(s, Swap(s, m, p))
          /\ \A i \in DOMAIN s : i # m /\ i # p => Swap(s, m, p)[i] = s[i]
      BY <2>1, SwapKeeps, ZenonT(40)
    <3> QED BY <2>2, <3>1
  <2>4. Len(t) = Len(s) BY <2>3 DEF Kept
  <2>5. Good(p, t) BY <1>5, <1>7, <2>1, <2>3, <2>4
  <2>6. f[m][s] = f[p][t]
    <3>1. ~(2 * m > n \/ ~Less(s, due, Child(s, due, m, n), m)) BY <1>9, <1>6, <1>n
    <3> QED BY <1>1, <1>6, <2>0, <2>2, <3>1 DEF SinkTurn
  <2>7. OrderedAbove(s, due, n, m) => OrderedAbove(t, due, n, p)
    BY <1>5, <1>6, <1>9, <1>n, <2>0, <2>2, SinkTurnOrders
  <2>8. Kept(s, f[p][t]) BY <2>3, <2>5 DEF Kept
  <2>9. ASSUME NEW i \in (n + 1)..Len(s) PROVE f[p][t][i] = s[i]
    <3>1. i \in DOMAIN s /\ i # m /\ i # p BY <1>6, <1>n, <1>9, <2>1, SMTT(30)
    <3>2. i \in (n + 1)..Len(t) BY <2>4
    <3> QED BY <2>3, <2>5, <3>1, <3>2
  <2> QED BY <1>5, <2>5, <2>6, <2>7, <2>8, <2>9
<1> QED BY <1>6, <1>n, <1>8, <1>9


-----------------------------------------------------------------------------
(* What heap.Push and heap.Pop do with the order and the items of a heap.  *)
LEMMA PushIs ==
  ASSUME NEW D, NEW due \in [D -> Int], NEW h \in Seq(D), NEW x \in D, NEW accepted \in BOOLEAN,
         Ordered(h, due), Distinct(h), accepted => x \notin ItemsOf(h)
  PROVE  LET t == heapPush(h, due, x, accepted)
         IN  /\ t \in Seq(D) /\ Ordered(t, due) /\ Distinct(t)
             /\ ItemsOf(t) = ItemsOf(h) \cup (IF accepted THEN {x} ELSE {})
             /\ Len(t) >= Len(h)
<1>1. PICK s : s = IF accepted THEN Append(h, x) ELSE h OBVIOUS
<1>2. s \in Seq(D) /\ Len(s) \in Nat BY <1>1
<1>3. /\ Distinct(s) /\ ItemsOf(s) = ItemsOf(h) \cup (IF accepted THEN {x} ELSE {})
      /\ OrderedBut(s, due, Len(s)) /\ Len(s) >= Len(h)
  <2>1. CASE accepted
    <3>1. /\ s = Append(h, x) /\ Len(s) = Len(h) + 1 /\ s[Len(s)] = x /\ Len(h) \in Nat
          /\ DOMAIN s = 1..Len(s) /\ DOMAIN h = 1..Len(h) /\ \A i \in DOMAIN h : s[i] = h[i]
      BY <1>1, <2>1
    <3>2. \A i \in DOMAIN s : i \in DOMAIN h \/ i = Len(s) BY <3>1
    <3>3. \A i \in DOMAIN h : h[i] # x BY <2>1 DEF ItemsOf
    <3>4. Distinct(s) BY <3>1, <3>2, <3>3 DEF Distinct
    <3>5. ItemsOf(s) = ItemsOf(h) \cup {x}
      <4>1. ItemsOf(s) \subseteq ItemsOf(h) \cup {x} BY <3>1, <3>2 DEF ItemsOf
      <4>2. x \in ItemsOf(s) BY <3>1 DEF ItemsOf
      <4>3. ItemsOf(h) \subseteq ItemsOf(s) BY <3>1 DEF ItemsOf
      <4> QED BY <4>1, <4>2, <4>3
    <3>6. OrderedBut(s, due, Len(s))
      <4> SUFFICES ASSUME NEW c \in 2..Len(s)
                   PROVE  /\ c # Len(s) => due[s[c \div 2]] <= due[s[c]]
                          /\ c \div 2 # Len(s)
        BY DEF OrderedBut
      <4>1. c \div 2 \in Nat /\ c \div 2 >= 1 /\ c \div 2 < c BY Half
      <4>2. ASSUME c # Len(s) PROVE due[s[c \div 2]] <= due[s[c]]
        <5>1. c \in 2..Len(h) BY <3>1, <4>2
        <5>2. c \in DOMAIN h /\ c \div 2 \in DOMAIN h BY <3>1, <4>1, <5>1
        <5>3. s[c] = h[c] /\ s[c \div 2] = h[c \div 2] BY <3>1, <5>2
        <5>4. due[h[c \div 2]] <= due[h[c]] BY <5>1 DEF Ordered
        <5> QED BY <5>3, <5>4
      <4> QED BY <3>1, <4>1, <4>2
    <3> QED BY <2>1, <3>1, <3>4, <3>5, <3>6
  <2>2. CASE ~accepted
    <3>1. s = h /\ Len(h) \in Nat BY <1>1, <2>2
    <3>2. OrderedBut(h, due, Len(h))
      <4> SUFFICES ASSUME NEW c \in 2..Len(h) PROVE c \div 2 # Len(h)
        BY DEF Ordered, OrderedBut
      <4> QED BY <3>1, Half
    <3> QED BY <2>2, <3>1, <3>2
  <2> QED BY <2>1, <2>2
<1>4. heapPush(h, due, x, accepted) = Rise(due, Len(s))[Len(s)][s]
  BY <1>1 DEF heapPush, up
<1>5. PICK t : t = Rise(due, Len(s))[Len(s)][s] OBVIOUS
<1>6. t \in Seq(D) /\ Kept(s, t) /\ (OrderedBut(s, due, Len(s)) => Ordered(t, due))
  <2>1. Len(s) \in Nat /\ Len(s) \in 0..Len(s) /\ Len(s) <= Len(s) BY <1>2
  <2>2. /\ Rise(due, Len(s))[Len(s)][s] \in Seq(D) /\ Kept(s, Rise(due, Len(s))[Len(s)][s])
        /\ OrderedBut(s, due, Len(s)) => Ordered(Rise(due, Len(s))[Len(s)][s], due)
    BY <1>2, <2>1, RiseOrders
  <2> QED BY <1>5, <2>2
<1> QED BY <1>3, <1>4, <1>5, <1>6 DEF Kept

(* heap.Pop takes an earliest item and keeps the others in order.          *)
LEMMA PopIs ==
  ASSUME NEW D, NEW due \in [D -> Int], NEW h \in Seq(D), h # <<>>, Ordered(h, due), Distinct(h)
  PROVE  LET t == heapPop(h, due)
         IN  /\ t \in Seq(D) /\ Ordered(t, due) /\ Distinct(t)
             /\ heapTaken(h) \in ItemsOf(h) /\ ItemsOf(t) = ItemsOf(h) \ {heapTaken(h)}
<1>1. PICK n : n = Len(h) OBVIOUS
<1>2. n \in Nat /\ n >= 1 /\ DOMAIN h = 1..n /\ 1 \in DOMAIN h /\ n \in DOMAIN h BY <1>1
<1>3. PICK s : s = Swap(h, 1, n) OBVIOUS
<1>4. s \in Seq(D) /\ Kept(h, s) /\ s[1] = h[n] /\ s[n] = h[1]
      /\ \A k \in DOMAIN h : k # 1 /\ k # n => s[k] = h[k]
  <2>1. /\ Swap(h, 1, n) \in Seq(D) /\ Kept(h, Swap(h, 1, n))
        /\ Swap(h, 1, n)[1] = h[n] /\ Swap(h, 1, n)[n] = h[1]
        /\ \A k \in DOMAIN h : k # 1 /\ k # n => Swap(h, 1, n)[k] = h[k]
    BY <1>2, SwapKeeps
  <2> QED BY <1>3, <2>1
<1>5. OrderedAbove(s, due, n - 1, 1)
  <2> SUFFICES ASSUME NEW c \in 2..(n - 1), c \div 2 # 1 PROVE due[s[c \div 2]] <= due[s[c]]
    BY DEF OrderedAbove
  <2>1. c \in 2..n /\ c # 1 /\ c # n /\ c \in DOMAIN h BY <1>2
  <2>2. c \div 2 \in DOMAIN h /\ c \div 2 # n BY <1>2, <2>1, Half
  <2>3. s[c] = h[c] /\ s[c \div 2] = h[c \div 2] BY <1>4, <2>1, <2>2
  <2>4. due[h[c \div 2]] <= due[h[c]] BY <1>1, <2>1 DEF Ordered
  <2> QED BY <2>3, <2>4
<1>6. PICK d : d = down(s, due, n - 1) OBVIOUS
<1>m. PICK m : m = n - 1 OBVIOUS
<1>7. /\ d \in Seq(D) /\ Kept(s, d) /\ \A i \in n..Len(s) : d[i] = s[i]
      /\ OrderedFirst(d, due, n - 1)
  <2>1. m \in 0..Len(s) /\ m + 1 = n BY <1>1, <1>2, <1>m, <1>4 DEF Kept
  <2>2. s \in Seq(D) BY <1>4
  <2>3. /\ down(s, due, m) \in Seq(D) /\ Kept(s, down(s, due, m))
        /\ \A i \in (m + 1)..Len(s) : down(s, due, m)[i] = s[i]
        /\ OrderedAbove(s, due, m, 1) => OrderedFirst(down(s, due, m), due, m)
    BY <2>1, <2>2, SinkOrders
  <2> QED BY <1>5, <1>6, <1>m, <2>1, <2>3
<1>8. Len(s) = n /\ Len(d) = n /\ d[n] = h[1] /\ ItemsOf(d) = ItemsOf(h) /\ Distinct(d)
  BY <1>1, <1>2, <1>4, <1>7 DEF Kept
<1>9. PICK t : t = SubSeq(d, 1, n - 1) OBVIOUS
<1>10. t \in Seq(D) /\ Len(t) = n - 1 /\ DOMAIN t = 1..(n - 1) /\ \A i \in 1..(n - 1) : t[i] = d[i]
  BY <1>2, <1>7, <1>8, <1>9
<1>11. DOMAIN d = 1..n /\ \A i \in 1..n : i \in 1..(n - 1) \/ i = n BY <1>2, <1>7, <1>8
<1>12. Ordered(t, due)
  <2> SUFFICES ASSUME NEW c \in 2..(n - 1) PROVE due[t[c \div 2]] <= due[t[c]]
    BY <1>10 DEF Ordered
  <2>1. c \in 1..(n - 1) /\ c \div 2 \in 1..(n - 1) BY <1>2, Half
  <2> QED BY <1>7, <1>10, <2>1 DEF OrderedFirst
<1>13. Distinct(t) BY <1>8, <1>10, <1>11 DEF Distinct
<1>14. ItemsOf(t) = ItemsOf(d) \ {d[n]}
  <2>1. ASSUME NEW i \in 1..(n - 1) PROVE t[i] \in ItemsOf(d) /\ t[i] # d[n]
    <3>1. i \in DOMAIN d /\ n \in DOMAIN d /\ i # n /\ t[i] = d[i] BY <1>2, <1>10, <1>11
    <3> QED BY <1>8, <3>1 DEF ItemsOf, Distinct
  <2>2. ASSUME NEW x \in ItemsOf(d), x # d[n] PROVE x \in ItemsOf(t)
    <3>1. PICK i \in 1..n : x = d[i] BY <1>11 DEF ItemsOf
    <3>2. i \in 1..(n - 1) /\ x = t[i] BY <1>10, <1>11, <2>2, <3>1
    <3> QED BY <1>10, <3>2 DEF ItemsOf
  <2> QED BY <1>10, <2>1, <2>2 DEF ItemsOf
<1>15. heapPop(h, due) = t /\ heapTaken(h) = h[1] BY <1>1, <1>3, <1>6, <1>9 DEF heapPop, heapTaken
<1>16. h[1] \in ItemsOf(h) BY <1>2 DEF ItemsOf
<1> QED BY <1>8, <1>10, <1>12, <1>13, <1>14, <1>15, <1>16


-----------------------------------------------------------------------------
(* The callback queue.                                                     *)

(* The item that is served is the one Serve holds.                         *)
ServeOK ==
  /\ serve \in {"call", "wait", "push"} => item \in Items /\ stage[item] = "serving"
  /\ \A i \in Items : stage[i] = "serving" => serve \in {"call", "wait", "push"} /\ item = i

(* What has been attempted of an item, by the stage it has reached.        *)
AttemptsOK ==
  \A i \in Items :
    /\ stage[i] \in {"none", "made"} => fails[i] = 0
    /\ stage[i] = "queued" \/ (stage[i] = "serving" /\ serve = "call") => fails[i] <= MaxFail
    /\ stage[i] = "delivered" \/ (stage[i] = "serving" /\ serve # "call") => fails[i] > 0
    /\ stage[i] = "dropped" => fails[i] = MaxFail + 1

(* An attempt moves the next launch by a Retry.                            *)
LaunchOK == \A i \in Items : launch[i] <= MaxArrival + fails[i] * Retry

QueueInv == QueueTypeOK /\ HeapConsistent /\ ServeOK /\ AttemptsOK /\ LaunchOK

(* The last launch time is within the bound of time.                       *)
LEMMA LaunchBounded ==
  ASSUME NEW f \in 0..MaxFail, NEW t \in Nat, t <= MaxArrival + f * Retry
  PROVE  t + Retry <= MaxArrival + (f + 1) * Retry /\ t + Retry <= MaxTime
<1>1. Retry \in Nat /\ MaxArrival \in Nat /\ MaxTime \in Nat /\ MaxArrival + 4 * Retry <= MaxTime
  BY S2sHeapAssumption DEF MaxFail
<1>2. f = 0 \/ f = 1 \/ f = 2 \/ f = 3 BY DEF MaxFail
<1> QED BY <1>1, <1>2

(* Launch times of items that are not in the heap do not order it.         *)
LEMMA OrderedByItsItems ==
  ASSUME NEW h, NEW l1, NEW l2, h \in Seq(Items), \A x \in ItemsOf(h) : l1[x] = l2[x], Ordered(h, l1)
  PROVE  Ordered(h, l2)
<1> SUFFICES ASSUME NEW k \in 2..Len(h) PROVE l2[h[k \div 2]] <= l2[h[k]]
  BY DEF Ordered
<1>1. k \in DOMAIN h /\ k \div 2 \in DOMAIN h BY Half
<1>2. h[k] \in ItemsOf(h) /\ h[k \div 2] \in ItemsOf(h) BY <1>1 DEF ItemsOf
<1>3. l1[h[k \div 2]] <= l1[h[k]] BY DEF Ordered
<1> QED BY <1>2, <1>3

(* HeapConsistent in these terms.                                          *)
LEMMA ConsistentIs ==
  /\ HeapConsistent <=> /\ Ordered(heap, launch) /\ Distinct(heap) /\ (serve = "pop" => heap # <<>>)
                        /\ ItemsOf(heap) = {i \in Items : stage[i] = "queued"}
  /\ HeapConsistent' <=> /\ Ordered(heap', launch') /\ Distinct(heap') /\ (serve' = "pop" => heap' # <<>>)
                         /\ ItemsOf(heap') = {i \in Items : stage'[i] = "queued"}
BY DEF HeapConsistent, Distinct, ItemsOf

(* A handler makes an item.                                                *)
LEMMA NewItemKeeps == ASSUME QueueInv, NEW i \in Items, NewCbItem(i) PROVE QueueInv'
<1> USE DEF QueueInv
<1>1. clock \in Nat /\ clock <= MaxArrival /\ clock <= MaxTime BY DEF NewCbItem, QueueTypeOK
<1>2. /\ stage[i] = "none" /\ launch' = [launch EXCEPT ![i] = clock] /\ stage' = [stage EXCEPT ![i] = "made"]
      /\ UNCHANGED <<heap, fails, item, serve, now, clock>>
  BY DEF NewCbItem, Move
<1>3. QueueTypeOK' BY <1>1, <1>2, S2sHeapAssumption DEF QueueTypeOK, Stages
<1>4. /\ stage'[i] = "made" /\ launch'[i] = clock
      /\ \A j \in Items : j # i => stage'[j] = stage[j] /\ launch'[j] = launch[j]
  BY <1>2 DEF QueueTypeOK
<1>5. HeapConsistent'
  <2>1. i \notin ItemsOf(heap) BY <1>2, ConsistentIs
  <2>2. ItemsOf(heap) \subseteq Items BY ConsistentIs
  <2>3. \A x \in ItemsOf(heap) : launch[x] = launch'[x] BY <1>4, <2>1, <2>2
  <2>4. Ordered(heap, launch') BY <2>3, OrderedByItsItems, ConsistentIs DEF QueueTypeOK
  <2>5. {j \in Items : stage'[j] = "queued"} = {j \in Items : stage[j] = "queued"} BY <1>2, <1>4
  <2> QED BY <1>2, <2>4, <2>5, ConsistentIs
<1>6. ServeOK' BY <1>2, <1>4 DEF ServeOK
<1>7. AttemptsOK' BY <1>2, <1>4 DEF AttemptsOK
<1>8. LaunchOK'
  <2>1. fails[i] = 0 BY <1>2 DEF AttemptsOK
  <2>2. launch'[i] <= MaxArrival + fails'[i] * Retry BY <1>1, <1>2, <1>4, <2>1, S2sHeapAssumption
  <2> QED BY <1>2, <1>4, <2>2 DEF LaunchOK
<1> QED BY <1>3, <1>5, <1>6, <1>7, <1>8

(* An item is pushed, or declined after its last attempt.                  *)
LEMMA PushMoves ==
  ASSUME QueueInv, NEW i \in Items, stage[i] # "queued", Push(i)
  PROVE  /\ heap' \in Seq(Items) /\ Ordered(heap', launch) /\ Distinct(heap') /\ (heap # <<>> => heap' # <<>>)
         /\ stage' = [stage EXCEPT ![i] = IF fails[i] <= MaxFail THEN "queued" ELSE "dropped"]
         /\ ItemsOf(heap') = {j \in Items : stage'[j] = "queued"}
<1> USE DEF QueueInv
<1>1. PICK accepted \in BOOLEAN : accepted = (fails[i] <= MaxFail)
  <2>1. (fails[i] <= MaxFail) \in BOOLEAN OBVIOUS
  <2> QED BY <2>1
<1>2. heap' = heapPush(heap, launch, i, accepted)
      /\ stage' = [stage EXCEPT ![i] = IF accepted THEN "queued" ELSE "dropped"]
  BY <1>1 DEF Push, Move
<1>3. launch \in [Items -> Int] /\ heap \in Seq(Items) /\ stage \in [Items -> Stages]
  BY S2sHeapAssumption DEF QueueTypeOK
<1>4. Ordered(heap, launch) /\ Distinct(heap) /\ ItemsOf(heap) = {j \in Items : stage[j] = "queued"}
  BY ConsistentIs
<1>5. i \notin ItemsOf(heap) BY <1>4
<1>6. LET t == heapPush(heap, launch, i, accepted)
      IN  /\ t \in Seq(Items) /\ Ordered(t, launch) /\ Distinct(t)
          /\ ItemsOf(t) = ItemsOf(heap) \cup (IF accepted THEN {i} ELSE {})
          /\ Len(t) >= Len(heap)
  BY <1>3, <1>4, <1>5, PushIs
<1>7. heap # <<>> => heap' # <<>>
  <2>1. Len(heap') >= Len(heap) /\ heap' \in Seq(Items) BY <1>2, <1>6
  <2> QED BY <1>3, <2>1
<1>8. ItemsOf(heap') = {j \in Items : stage'[j] = "queued"}
  <2>1. CASE accepted
    <3>1. ItemsOf(heap') = ItemsOf(heap) \cup {i} BY <1>2, <1>6, <2>1
    <3>2. {j \in Items : stage'[j] = "queued"} = {j \in Items : stage[j] = "queued"} \cup {i}
      BY <1>2, <1>3, <2>1
    <3> QED BY <1>4, <3>1, <3>2
  <2>2. CASE ~accepted
    <3>1. ItemsOf(heap') = ItemsOf(heap) BY <1>2, <1>6, <2>2
    <3>2. {j \in Items : stage'[j] = "queued"} = {j \in Items : stage[j] = "queued"}
      BY <1>2, <1>3, <2>2
    <3> QED BY <1>4, <3>1, <3>2
  <2> QED BY <2>1, <2>2
<1> QED BY <1>1, <1>2, <1>6, <1>7, <1>8

(* The handler pushes what it has made.                                    *)
LEMMA S2sCallbackKeeps == ASSUME QueueInv, NEW i \in Items, S2sCallback(i) PROVE QueueInv'
<1> USE DEF QueueInv
<1>1. stage[i] = "made" /\ Push(i) /\ UNCHANGED <<launch, fails, item, serve, now, clock>> BY DEF S2sCallback
<1>2. fails[i] = 0 BY <1>1 DEF AttemptsOK
<1>3. /\ heap' \in Seq(Items) /\ Ordered(heap', launch) /\ Distinct(heap') /\ (heap # <<>> => heap' # <<>>)
      /\ stage' = [stage EXCEPT ![i] = "queued"]
      /\ ItemsOf(heap') = {j \in Items : stage'[j] = "queued"}
  BY <1>1, <1>2, PushMoves DEF MaxFail
<1>4. stage'[i] = "queued" /\ \A j \in Items : j # i => stage'[j] = stage[j] BY <1>3 DEF QueueTypeOK
<1>5. QueueTypeOK' BY <1>1, <1>3 DEF QueueTypeOK, Stages
<1>6. HeapConsistent' BY <1>1, <1>3, ConsistentIs
<1>7. ServeOK' BY <1>1, <1>4 DEF ServeOK
<1>8. AttemptsOK' BY <1>1, <1>2, <1>4 DEF AttemptsOK, MaxFail
<1>9. LaunchOK' BY <1>1 DEF LaunchOK
<1> QED BY <1>5, <1>6, <1>7, <1>8, <1>9

(* Serve pushes back what has failed, unless it was the last attempt.      *)
LEMMA PushBackKeeps == ASSUME QueueInv, PushBack PROVE QueueInv'
<1> USE DEF QueueInv
<1>1. /\ serve = "push" /\ serve' = "inner" /\ Push(item) /\ UNCHANGED <<launch, fails, item, now, clock>>
      /\ item \in Items /\ stage[item] = "serving" /\ fails[item] > 0
  <2>1. serve = "push" /\ serve' = "inner" /\ Push(item) /\ UNCHANGED <<launch, fails, item, now, clock>>
    BY DEF PushBack
  <2>2. item \in Items /\ stage[item] = "serving" BY <2>1 DEF ServeOK
  <2> QED BY <2>1, <2>2 DEF AttemptsOK
<1>2. PICK to \in {"queued", "dropped"} : to = IF fails[item] <= MaxFail THEN "queued" ELSE "dropped"
  OBVIOUS
<1>3. /\ heap' \in Seq(Items) /\ Ordered(heap', launch) /\ Distinct(heap')
      /\ stage' = [stage EXCEPT ![item] = to]
      /\ ItemsOf(heap') = {j \in Items : stage'[j] = "queued"}
  BY <1>1, <1>2, PushMoves
<1>4. stage'[item] = to /\ \A j \in Items : j # item => stage'[j] = stage[j] BY <1>1, <1>3 DEF QueueTypeOK
<1>5. QueueTypeOK' BY <1>1, <1>3 DEF QueueTypeOK, Stages, Points
<1>6. HeapConsistent' BY <1>1, <1>3, ConsistentIs
<1>7. ServeOK' BY <1>1, <1>2, <1>4 DEF ServeOK
<1>8. AttemptsOK'
  <2>1. fails[item] \in 0..(MaxFail + 1) /\ MaxFail = 3 BY <1>1 DEF QueueTypeOK, MaxFail
  <2>2. to = "queued" => fails[item] <= MaxFail BY <1>2
  <2>3. to = "dropped" => fails[item] = MaxFail + 1 BY <1>2, <2>1
  <2>4. \A j \in Items : j # item => stage[j] # "serving" BY DEF ServeOK
  <2> QED BY <1>1, <1>2, <1>4, <2>2, <2>3, <2>4 DEF AttemptsOK
<1>9. LaunchOK' BY <1>1 DEF LaunchOK
<1> QED BY <1>5, <1>6, <1>7, <1>8, <1>9


(* Serve takes the first item of the heap, which there is.                 *)
LEMMA PopKeeps == ASSUME QueueInv, Pop PROVE QueueInv'
<1> USE DEF QueueInv
<1>1. PICK x : x = heapTaken(heap) OBVIOUS
<1>2. /\ serve = "pop" /\ heap # <<>> /\ item' = x /\ heap' = heapPop(heap, launch)
      /\ stage' = [stage EXCEPT ![x] = "serving"] /\ serve' = "call"
      /\ UNCHANGED <<launch, fails, now, clock>>
  BY <1>1 DEF Pop, Move
<1>3. launch \in [Items -> Int] /\ heap \in Seq(Items) /\ stage \in [Items -> Stages]
  BY S2sHeapAssumption DEF QueueTypeOK
<1>4. Ordered(heap, launch) /\ Distinct(heap) /\ ItemsOf(heap) = {j \in Items : stage[j] = "queued"}
  BY ConsistentIs
<1>5. LET t == heapPop(heap, launch)
      IN  /\ t \in Seq(Items) /\ Ordered(t, launch) /\ Distinct(t)
          /\ heapTaken(heap) \in ItemsOf(heap) /\ ItemsOf(t) = ItemsOf(heap) \ {heapTaken(heap)}
  BY <1>2, <1>3, <1>4, PopIs
<1>6. /\ heap' \in Seq(Items) /\ Ordered(heap', launch) /\ Distinct(heap')
      /\ x \in Items /\ stage[x] = "queued" /\ ItemsOf(heap') = ItemsOf(heap) \ {x}
  BY <1>1, <1>2, <1>4, <1>5
<1>7. stage'[x] = "serving" /\ \A j \in Items : j # x => stage'[j] = stage[j] BY <1>2, <1>3, <1>6
<1>8. QueueTypeOK' BY <1>2, <1>6 DEF QueueTypeOK, Stages, Points
<1>9. HeapConsistent'
  <2>1. ItemsOf(heap') = {j \in Items : stage'[j] = "queued"} BY <1>4, <1>6, <1>7
  <2> QED BY <1>2, <1>6, <2>1, ConsistentIs
<1>10. \A j \in Items : stage[j] # "serving" BY <1>2 DEF ServeOK
<1>11. ServeOK' BY <1>2, <1>6, <1>7, <1>10 DEF ServeOK
<1>12. AttemptsOK' BY <1>2, <1>6, <1>7, <1>10 DEF AttemptsOK
<1>13. LaunchOK' BY <1>2 DEF LaunchOK
<1> QED BY <1>8, <1>9, <1>11, <1>12, <1>13

(* An attempt is counted before it is made.                                *)
LEMMA CallbackKeeps == ASSUME QueueInv, Callback PROVE QueueInv'
<1> USE DEF QueueInv
<1>1. /\ serve = "call" /\ fails' = [fails EXCEPT ![item] = @ + 1]
      /\ launch' = [launch EXCEPT ![item] = @ + Retry] /\ serve' = "wait"
      /\ UNCHANGED <<heap, stage, item, now, clock>>
  BY DEF Callback
<1>2. item \in Items /\ stage[item] = "serving" /\ \A i \in Items : stage[i] = "serving" => i = item
  BY <1>1 DEF ServeOK
<1>3. fails[item] \in 0..MaxFail
  <2>1. fails[item] <= MaxFail /\ fails[item] \in 0..(MaxFail + 1) BY <1>1, <1>2 DEF AttemptsOK, QueueTypeOK
  <2> QED BY <2>1 DEF MaxFail
<1>4. /\ fails'[item] = fails[item] + 1 /\ launch'[item] = launch[item] + Retry
      /\ \A i \in Items : i # item => fails'[i] = fails[i] /\ launch'[i] = launch[i]
  BY <1>1, <1>2 DEF QueueTypeOK
<1>5. /\ launch[item] + Retry <= MaxArrival + (fails[item] + 1) * Retry
      /\ launch[item] + Retry <= MaxTime /\ launch[item] + Retry \in Nat
  <2>1. launch[item] \in Nat /\ launch[item] <= MaxArrival + fails[item] * Retry
    BY <1>2, S2sHeapAssumption DEF QueueTypeOK, LaunchOK
  <2>2. launch[item] + Retry <= MaxArrival + (fails[item] + 1) * Retry /\ launch[item] + Retry <= MaxTime
    BY <1>3, <2>1, LaunchBounded
  <2> QED BY <2>1, <2>2, S2sHeapAssumption
<1>6. QueueTypeOK'
  <2>1. fails[item] + 1 \in 0..(MaxFail + 1) BY <1>3 DEF MaxFail
  <2>2. launch[item] + Retry \in 0..MaxTime BY <1>5, S2sHeapAssumption
  <2>3. fails' \in [Items -> 0..(MaxFail + 1)] /\ launch' \in [Items -> 0..MaxTime]
    BY <1>1, <2>1, <2>2 DEF QueueTypeOK
  <2> QED BY <1>1, <2>3 DEF QueueTypeOK, Points
<1>7. HeapConsistent'
  <2>1. item \notin ItemsOf(heap) /\ ItemsOf(heap) \subseteq Items BY <1>2, ConsistentIs
  <2>2. \A x \in ItemsOf(heap) : launch[x] = launch'[x] BY <1>4, <2>1
  <2>3. Ordered(heap, launch') BY <2>2, OrderedByItsItems, ConsistentIs DEF QueueTypeOK
  <2> QED BY <1>1, <2>3, ConsistentIs
<1>8. ServeOK' BY <1>1, <1>2 DEF ServeOK
<1>9. AttemptsOK'
  <2>1. fails'[item] > 0 BY <1>3, <1>4
  <2> QED BY <1>1, <1>2, <1>4, <2>1 DEF AttemptsOK
<1>10. LaunchOK' BY <1>4, <1>5 DEF LaunchOK
<1> QED BY <1>6, <1>7, <1>8, <1>9, <1>10

(* An attempt succeeds, or fails.                                          *)
LEMMA OutcomeKeeps == ASSUME QueueInv, CallbackOk \/ CallbackFailed PROVE QueueInv'
<1> USE DEF QueueInv
<1>0. /\ serve = "wait" /\ UNCHANGED <<heap, launch, fails, item, now, clock>>
      /\ item \in Items /\ stage[item] = "serving" /\ \A i \in Items : stage[i] = "serving" => i = item
      /\ fails[item] > 0
  <2>1. serve = "wait" /\ UNCHANGED <<heap, launch, fails, item, now, clock>> BY DEF CallbackOk, CallbackFailed
  <2>2. item \in Items /\ stage[item] = "serving" /\ \A i \in Items : stage[i] = "serving" => i = item
    BY <2>1 DEF ServeOK
  <2> QED BY <2>1, <2>2 DEF AttemptsOK
<1>1. CASE CallbackOk
  <2>1. stage' = [stage EXCEPT ![item] = "delivered"] /\ serve' = "inner" BY <1>1 DEF CallbackOk, Move
  <2>2. stage'[item] = "delivered" /\ \A j \in Items : j # item => stage'[j] = stage[j]
    BY <1>0, <2>1 DEF QueueTypeOK
  <2>3. QueueTypeOK' BY <1>0, <2>1 DEF QueueTypeOK, Stages, Points
  <2>4. {j \in Items : stage'[j] = "queued"} = {j \in Items : stage[j] = "queued"} BY <1>0, <2>2
  <2>5. HeapConsistent' BY <1>0, <2>1, <2>4, ConsistentIs
  <2>6. ServeOK' BY <1>0, <2>1, <2>2 DEF ServeOK
  <2>7. AttemptsOK' BY <1>0, <2>1, <2>2 DEF AttemptsOK
  <2>8. LaunchOK' BY <1>0 DEF LaunchOK
  <2> QED BY <2>3, <2>5, <2>6, <2>7, <2>8
<1>2. CASE CallbackFailed
  <2>1. UNCHANGED stage /\ serve' = "push" BY <1>2 DEF CallbackFailed
  <2>2. QueueTypeOK' BY <1>0, <2>1 DEF QueueTypeOK, Points
  <2>3. HeapConsistent' BY <1>0, <2>1, ConsistentIs
  <2>4. ServeOK' BY <1>0, <2>1 DEF ServeOK
  <2>5. AttemptsOK' BY <1>0, <2>1 DEF AttemptsOK
  <2>6. LaunchOK' BY <1>0 DEF LaunchOK
  <2> QED BY <2>2, <2>3, <2>4, <2>5, <2>6
<1> QED BY <1>1, <1>2

(* Serve looks at the last item, sleeps, or time passes.                   *)
LEMMA LookKeeps == ASSUME QueueInv, ServeOuter \/ ServeInner \/ Wake \/ Tick PROVE QueueInv'
<1> USE DEF QueueInv
<1>1. /\ UNCHANGED <<heap, launch, fails, stage>>
      /\ serve \notin {"call", "wait", "push"} => serve' \notin {"call", "wait", "push"}
      /\ serve \in {"call", "wait", "push"} => serve' = serve /\ item' = item
      /\ serve' = "pop" => heap # <<>>
      /\ item' \in Items \cup {NoItem} /\ now' \in 0..MaxTime /\ clock' \in 0..MaxTime /\ serve' \in Points
  <2>1. heap # <<>> => heap[Len(heap)] \in Items
    <3>1. heap \in Seq(Items) BY DEF QueueTypeOK
    <3>2. heap # <<>> => Len(heap) \in DOMAIN heap BY <3>1
    <3> QED BY <3>1, <3>2
  <2>2. Top \in Items \cup {NoItem} /\ (Top # NoItem => heap # <<>>) BY <2>1 DEF Top
  <2>3. serve = "pop" => heap # <<>> BY DEF HeapConsistent
  <2>4. now \in 0..MaxTime /\ clock \in 0..MaxTime /\ serve \in Points /\ item \in Items \cup {NoItem} BY DEF QueueTypeOK
  <2>5. CASE ServeOuter
    <3>1. serve = "outer" /\ UNCHANGED <<heap, launch, fails, stage, clock>> /\ item' = Top
          /\ (now' = now \/ now' = clock)
      BY <2>5 DEF ServeOuter
    <3>2. serve' \in {"sleep", "pop", "outer"} /\ (serve' = "pop" => Top # NoItem)
      <4>1. CASE Top = NoItem BY <2>5, <4>1 DEF ServeOuter
      <4>2. CASE Top # NoItem
        <5>1. serve' = IF launch[Top] > clock THEN "sleep" ELSE IF launch[Top] < clock THEN "pop" ELSE "outer"
          BY <2>5, <4>2 DEF ServeOuter
        <5>2. serve' \in {"sleep", "pop", "outer"} BY <5>1
        <5> QED BY <4>2, <5>2
      <4> QED BY <4>1, <4>2
    <3> QED BY <2>2, <2>4, <3>1, <3>2 DEF Points
  <2>6. CASE ServeInner
    <3>1. serve = "inner" /\ UNCHANGED <<heap, launch, fails, stage, now, clock>> /\ item' = Top
          /\ serve' = IF Top # NoItem /\ launch[Top] < now THEN "pop" ELSE "outer"
      BY <2>6 DEF ServeInner
    <3>2. serve' \in {"pop", "outer"} /\ (serve' = "pop" => Top # NoItem) BY <3>1
    <3> QED BY <2>2, <2>4, <3>1, <3>2 DEF Points
  <2>7. CASE Wake
    <3>1. serve = "sleep" /\ serve' = "outer" /\ UNCHANGED <<heap, launch, fails, stage, item, now, clock>>
      BY <2>7 DEF Wake
    <3> QED BY <2>4, <3>1 DEF Points
  <2>8. CASE Tick
    <3>1. clock < MaxTime /\ clock' = clock + 1 /\ UNCHANGED <<heap, launch, fails, stage, item, serve, now>>
      BY <2>8 DEF Tick
    <3>2. clock' \in 0..MaxTime BY <2>4, <3>1, S2sHeapAssumption
    <3> QED BY <2>3, <2>4, <3>1, <3>2
  <2> QED BY <2>5, <2>6, <2>7, <2>8
<1>2. QueueTypeOK' BY <1>1 DEF QueueTypeOK
<1>3. HeapConsistent' BY <1>1, ConsistentIs
<1>4. ServeOK' BY <1>1 DEF ServeOK
<1>5. AttemptsOK'
  <2> SUFFICES ASSUME NEW i \in Items
               PROVE  /\ stage[i] \in {"none", "made"} => fails[i] = 0
                      /\ stage[i] = "queued" \/ (stage[i] = "serving" /\ serve' = "call") => fails[i] <= MaxFail
                      /\ stage[i] = "delivered" \/ (stage[i] = "serving" /\ serve' # "call") => fails[i] > 0
                      /\ stage[i] = "dropped" => fails[i] = MaxFail + 1
    BY <1>1 DEF AttemptsOK
  <2>1. stage[i] = "serving" => serve' = serve BY <1>1 DEF ServeOK
  <2> QED BY <2>1 DEF AttemptsOK
<1>6. LaunchOK' BY <1>1 DEF LaunchOK
<1> QED BY <1>2, <1>3, <1>4, <1>5, <1>6


(* The queue starts empty.                                                 *)
LEMMA QueueStarts == QueueInit => QueueInv
<1> SUFFICES ASSUME QueueInit PROVE QueueInv
  OBVIOUS
<1> USE DEF QueueInit
<1>1. QueueTypeOK BY S2sHeapAssumption DEF QueueTypeOK, Stages, Points, MaxFail
<1>2. HeapConsistent
  <2>1. Len(heap) = 0 /\ DOMAIN heap = {} /\ ItemsOf(heap) = {} BY DEF ItemsOf
  <2>2. Ordered(heap, launch) /\ Distinct(heap) BY <2>1 DEF Ordered, Distinct
  <2> QED BY <2>1, <2>2, ConsistentIs
<1>3. ServeOK /\ AttemptsOK BY DEF ServeOK, AttemptsOK, MaxFail
<1>4. LaunchOK BY S2sHeapAssumption DEF LaunchOK
<1> QED BY <1>1, <1>2, <1>3, <1>4 DEF QueueInv

(* Every step keeps the invariant.                                         *)
LEMMA QueueStep == QueueInv /\ [QueueNext]_queueVars => QueueInv'
<1> SUFFICES ASSUME QueueInv, [QueueNext]_queueVars PROVE QueueInv'
  OBVIOUS
<1>1. CASE UNCHANGED queueVars
  BY <1>1 DEF queueVars, QueueInv, QueueTypeOK, HeapConsistent, Ordered, ServeOK, AttemptsOK, LaunchOK
<1> QED
  BY <1>1, NewItemKeeps, S2sCallbackKeeps, PopKeeps, CallbackKeeps, OutcomeKeeps, PushBackKeeps, LookKeeps
  DEF QueueNext, ServeQueue

(* So it always holds.                                                     *)
LEMMA QueueAlways == QueueSpec => []QueueInv
BY QueueStarts, QueueStep, PTL DEF QueueSpec

(* The types of the callback queue.                                        *)
THEOREM QueueTypeCorrect == QueueSpec => []QueueTypeOK
<1>1. QueueInv => QueueTypeOK BY DEF QueueInv
<1> QED BY <1>1, QueueAlways, PTL

(* The heap is in order, holds each queued callback once, and is not empty *)
(* when Serve pops, for every number of callbacks and whatever fails       *)
(* (heapWrapper, Serve).                                                   *)
THEOREM HeapStaysConsistent == QueueSpec => []HeapConsistent
<1>1. QueueInv => HeapConsistent BY DEF QueueInv
<1> QED BY <1>1, QueueAlways, PTL

(* What is promised of an item, by its stage.                              *)
LEMMA PromisedIs ==
  ASSUME NEW i \in Items
  PROVE  /\ stage[i] \in {"none", "made"} => PromisedState[i] = "none"
         /\ stage[i] \in {"queued", "serving"} => PromisedState[i] = "pending"
         /\ stage[i] \in {"delivered", "dropped"} => PromisedState[i] = stage[i]
BY DEF PromisedState

(* A step of the heap and its loop is one of the promised queue, or none.  *)
LEMMA StepRefines ==
  ASSUME QueueInv, [QueueNext]_queueVars
  PROVE  [Queue!Next]_(Queue!vars)
<1> USE DEF QueueInv
<1>0. PromisedState \in [Items -> {"none", "pending", "delivered", "dropped"}] /\ stage \in [Items -> Stages]
  BY DEF PromisedState, QueueTypeOK, Stages
<1>1. ASSUME fails' = fails, NEW i \in Items, NEW to \in Stages, stage' = [stage EXCEPT ![i] = to],
             \/ stage[i] = "none" /\ to = "made"
             \/ stage[i] \in {"queued", "serving"} /\ to \in {"queued", "serving"}
      PROVE  UNCHANGED (Queue!vars)
  <2>1. stage'[i] = to /\ \A j \in Items : j # i => stage'[j] = stage[j] BY <1>0, <1>1
  <2>2. PromisedState' = PromisedState BY <1>1, <2>1 DEF PromisedState
  <2> QED BY <1>1, <2>2 DEF Queue!vars
<1>2. ASSUME NEW i \in Items, NEW to \in Stages, stage' = [stage EXCEPT ![i] = to],
             NEW p, p = IF to \in {"queued", "serving"} THEN "pending" ELSE to, to \notin {"none", "made"}
      PROVE  PromisedState' = [PromisedState EXCEPT ![i] = p]
  <2>1. stage'[i] = to /\ \A j \in Items : j # i => stage'[j] = stage[j] BY <1>0, <1>2
  <2>2. \A j \in Items : j # i => PromisedState'[j] = PromisedState[j] BY <2>1 DEF PromisedState
  <2>3. PromisedState'[i] = p BY <1>2, <2>1 DEF PromisedState, Stages
  <2>4. PromisedState' = [j \in Items |-> PromisedState'[j]] BY DEF PromisedState
  <2>5. PromisedState = [j \in Items |-> PromisedState[j]] BY DEF PromisedState
  <2> HIDE DEF PromisedState
  <2> QED BY <2>2, <2>3, <2>4, <2>5
<1>3. ASSUME UNCHANGED <<stage, fails>> PROVE UNCHANGED (Queue!vars)
  BY <1>3 DEF Queue!vars, PromisedState
<1>4. ASSUME NEW i \in Items, NewCbItem(i) PROVE UNCHANGED (Queue!vars)
  BY <1>1, <1>4 DEF NewCbItem, Move, Stages
<1>5. ASSUME NEW i \in Items, S2sCallback(i) PROVE Queue!Accept(i)
  <2>1. stage[i] = "made" /\ Push(i) /\ fails' = fails BY <1>5 DEF S2sCallback
  <2>2. fails[i] <= MaxFail BY <2>1 DEF AttemptsOK, MaxFail
  <2>3. stage' = [stage EXCEPT ![i] = "queued"] BY <2>1, <2>2 DEF Push, Move
  <2>4. PromisedState' = [PromisedState EXCEPT ![i] = "pending"] BY <1>2, <2>3 DEF Stages
  <2>5. PromisedState[i] = "none" BY <2>1, PromisedIs
  <2> QED BY <2>1, <2>4, <2>5 DEF Queue!Accept
<1>6. CASE Pop
  <2>1. PICK x : x = heapTaken(heap) OBVIOUS
  <2>2. fails' = fails /\ stage' = [stage EXCEPT ![x] = "serving"] /\ heap # <<>> BY <1>6, <2>1 DEF Pop, Move
  <2>3. x \in Items /\ stage[x] = "queued"
    <3>1. 1 \in DOMAIN heap
      <4>1. heap \in Seq(Items) BY DEF QueueTypeOK
      <4> QED BY <2>2, <4>1
    <3>2. x \in ItemsOf(heap) BY <2>1, <3>1 DEF heapTaken, ItemsOf
    <3> QED BY <3>2, ConsistentIs
  <2> QED BY <1>1, <2>2, <2>3 DEF Stages
<1>7. CASE Callback
  <2>1. item \in Items /\ stage[item] = "serving" /\ serve = "call" BY <1>7 DEF Callback, ServeOK
  <2>2. fails[item] < MaxFail + 1
    <3>1. fails[item] <= MaxFail /\ fails[item] \in 0..(MaxFail + 1) BY <2>1 DEF AttemptsOK, QueueTypeOK
    <3> QED BY <3>1 DEF MaxFail
  <2>3. PromisedState[item] = "pending" BY <2>1, PromisedIs
  <2>4. fails' = [fails EXCEPT ![item] = @ + 1] /\ PromisedState' = PromisedState
    BY <1>7 DEF Callback, PromisedState
  <2>5. Queue!Attempt(item) BY <2>2, <2>3, <2>4 DEF Queue!Attempt
  <2> QED BY <2>1, <2>5 DEF Queue!Next
<1>8. CASE CallbackOk
  <2>1. item \in Items /\ stage[item] = "serving" /\ serve = "wait" BY <1>8 DEF CallbackOk, ServeOK
  <2>2. fails[item] > 0 BY <2>1 DEF AttemptsOK
  <2>3. PromisedState[item] = "pending" BY <2>1, PromisedIs
  <2>4. fails' = fails /\ stage' = [stage EXCEPT ![item] = "delivered"] BY <1>8 DEF CallbackOk, Move
  <2>5. PromisedState' = [PromisedState EXCEPT ![item] = "delivered"] BY <1>2, <2>1, <2>4 DEF Stages
  <2>6. Queue!Deliver(item) BY <2>2, <2>3, <2>4, <2>5 DEF Queue!Deliver
  <2> QED BY <2>1, <2>6 DEF Queue!Next
<1>9. CASE PushBack
  <2>1. item \in Items /\ stage[item] = "serving" /\ serve = "push" /\ Push(item) /\ fails' = fails
    BY <1>9 DEF PushBack, ServeOK
  <2>2. CASE fails[item] <= MaxFail
    <3>1. stage' = [stage EXCEPT ![item] = "queued"] BY <2>1, <2>2 DEF Push, Move
    <3> QED BY <1>1, <2>1, <3>1 DEF Stages
  <2>3. CASE ~(fails[item] <= MaxFail)
    <3>1. stage' = [stage EXCEPT ![item] = "dropped"] BY <2>1, <2>3 DEF Push, Move
    <3>2. PromisedState' = [PromisedState EXCEPT ![item] = "dropped"] BY <1>2, <2>1, <3>1 DEF Stages
    <3>3. fails[item] = MaxFail + 1
      <4>1. fails[item] \in 0..(MaxFail + 1) BY <2>1 DEF QueueTypeOK
      <4> QED BY <2>3, <4>1 DEF MaxFail
    <3>4. PromisedState[item] = "pending" BY <2>1, PromisedIs
    <3>5. Queue!GiveUp(item) BY <2>1, <3>2, <3>3, <3>4 DEF Queue!GiveUp
    <3> QED BY <2>1, <3>5 DEF Queue!Next
  <2> QED BY <2>2, <2>3
<1>10. CASE Tick \/ CallbackFailed \/ ServeOuter \/ ServeInner \/ Wake
  BY <1>3, <1>10 DEF Tick, CallbackFailed, ServeOuter, ServeInner, Wake
<1>11. CASE UNCHANGED queueVars
  BY <1>3, <1>11 DEF queueVars
<1> QED BY <1>4, <1>5, <1>6, <1>7, <1>8, <1>9, <1>10, <1>11 DEF QueueNext, ServeQueue, Queue!Next

(* The heap and its loop implement the callback queue, but for what must   *)
(* happen in the end: no callback is attempted before it is accepted, more *)
(* than four times, or after it succeeded, and none is dropped before its  *)
(* last attempt (CallbackQueue).                                           *)
THEOREM HeapKeepsPromise == QueueSpec => Queue!SafeSpec
<1>1. QueueInit => Queue!Init
  <2> SUFFICES ASSUME QueueInit PROVE Queue!Init
    OBVIOUS
  <2>1. PromisedState = [i \in Items |-> "none"] BY DEF QueueInit, PromisedState
  <2>2. fails = [i \in Items |-> 0] BY DEF QueueInit
  <2> QED BY <2>1, <2>2 DEF Queue!Init
<1>2. QueueInv /\ [QueueNext]_queueVars => [Queue!Next]_(Queue!vars) BY StepRefines
<1> QED BY <1>1, <1>2, QueueAlways, PTL DEF QueueSpec, Queue!SafeSpec

-----------------------------------------------------------------------------
(* The two loops in one process, as the run `loops` has them: what is      *)
(* proved of each holds there, since a step is of one of the two and       *)
(* leaves the other as it is.                                              *)
THEOREM LoopsTogether ==
  mcSpec => /\ [](TypesOK /\ PublishesTheBucket /\ ServedAsSearched /\ HeapConsistent)
            /\ FinishedIndexFrozen /\ Queue!SafeSpec
<1>1. mcInit => Init /\ QueueInit BY DEF mcInit
<1>2. [mcNext]_mcVars => [Next]_vars /\ [QueueNext]_queueVars BY DEF mcNext, S2sStep, IndexStep, mcVars
<1>3. mcSpec => Spec /\ QueueSpec BY <1>1, <1>2, PTL DEF mcSpec, Spec, QueueSpec
<1>4. TypeOK /\ QueueTypeOK => TypesOK BY DEF TypesOK
<1> QED
  BY <1>3, <1>4, TypeCorrect, BucketPublished, AnswersAsSearched, InUseUnchanged, QueueTypeCorrect,
     HeapStaysConsistent, HeapKeepsPromise, PTL
=============================================================================
