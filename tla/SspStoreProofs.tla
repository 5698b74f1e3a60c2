--------------------------- MODULE SspStoreProofs ---------------------------
(***************************************************************************)
(* What a handler finds in the published tables, for any apps, slots and   *)
(* requests, any number of addresses and with crashes anywhere.            *)
(***************************************************************************)
EXTENDS SspStore, TLAPS

SlotStoreType == UNION {[d -> SlotObject] : d \in SUBSET Slots}

(* What the slot of id s holds besides its row comes from one of the app stores of S. *)
SlotSound(slot, s, S) ==
  /\ slot.preNum # Nil =>
       \E apps \in S \ {Nil} : AppId(s) \in DOMAIN apps /\ apps[AppId(s)].PreNum = slot.preNum
  /\ slot.SlotSwitch # slot.given =>
       \E apps \in S \ {Nil} : AppId(s) \in DOMAIN apps /\ apps[AppId(s)].AppSwitch = 2
Sound(store, S) == \A s \in DOMAIN store : SlotSound(store[s], s, S)

Heap == heap \in [Stores -> SlotStoreType]

(* The slot store in the making is nobody else's until it is published. *)
Building ==
  /\ loop \in {"saveSlots", "brothers", "setSlots", "setApps", "aux"} => slotStore # Nil
  /\ loop \in {"saveSlots", "brothers", "setSlots"} => slotStore # gSlotStore /\ slotStore \notin Held(Requests)
  /\ loop \in {"saveSlots", "brothers"} => Sound(heap[slotStore], {})
  /\ loop = "setSlots" => Sound(heap[slotStore], {gAppStore})

(* Between the two publications the new slots know only the old apps. *)
Published ==
  /\ loop \in {"setApps", "aux"} => gSlotStore # Nil
  /\ gSlotStore # Nil => Sound(heap[gSlotStore], {gAppStore, lastApps})
  /\ loop = "setApps" => Sound(heap[gSlotStore], {gAppStore})

IInv == TypeOK /\ Heap /\ Building /\ Published /\ SlotsBeforeApps

-----------------------------------------------------------------------------
(* The row of an app in an app store. *)
LEMMA RowOf ==
  ASSUME NEW apps \in AppStoreType, NEW a \in DOMAIN apps
  PROVE  apps[a] \in AppInfos /\ apps[a].AppSwitch \in {1, 2} /\ apps[a].PreNum \in PreNums
<1>1. apps[a] \in AppInfos
  BY DEF AppStoreType
<1>2. apps[a] \in [AppSwitch : {1, 2}, PreNum : Nat]
  BY <1>1, SspStoreAssumption
<1> QED BY <1>1, <1>2 DEF PreNums

(* A store of slots that are all in order. *)
LEMMA StoreOf ==
  ASSUME NEW d \in SUBSET Slots, NEW g \in [d -> SlotObject]
  PROVE  g \in SlotStoreType
  BY DEF SlotStoreType

(* What is in a slot store. *)
LEMMA InStore ==
  ASSUME NEW store \in SlotStoreType
  PROVE  DOMAIN store \in SUBSET Slots /\ store \in [DOMAIN store -> SlotObject]
  BY DEF SlotStoreType

(* A slot that was just made knows no apps. *)
LEMMA NewSlotSound ==
  ASSUME NEW sw \in {1, 2}, NEW s, NEW S
  PROVE  NewSlot(sw) \in SlotObject /\ SlotSound(NewSlot(sw), s, S)
  BY DEF NewSlot, SlotObject, SlotSound

(* More app stores to choose from do no harm. *)
LEMMA SoundMonotone ==
  ASSUME NEW store, NEW S, NEW T, S \subseteq T, Sound(store, S)
  PROVE  Sound(store, T)
  BY DEF Sound, SlotSound

(* GetAllSlotInApp closes a slot only for an app that is off. *)
LEMMA GetAllSlotInAppSound ==
  ASSUME NEW store \in SlotStoreType, NEW apps \in AppStoreType \cup {Nil}, NEW S, apps \in S, NEW s
  PROVE  /\ GetAllSlotInApp(store, s, apps) \in SlotStoreType
         /\ DOMAIN GetAllSlotInApp(store, s, apps) = DOMAIN store
         /\ Sound(store, S) => Sound(GetAllSlotInApp(store, s, apps), S)
<1>1. CASE SlotsInApp(store, s, apps) # {} /\ apps[AppId(s)].AppSwitch # 1
  <2> DEFINE new == [store EXCEPT ![s].SlotSwitch = 2]
  <2>1. apps # Nil /\ apps \in AppStoreType /\ s \in DOMAIN store /\ AppId(s) \in DOMAIN apps
    BY <1>1 DEF SlotsInApp
  <2>2. apps[AppId(s)].AppSwitch = 2
    BY <1>1, <2>1, RowOf
  <2>3. store[s] \in SlotObject
    BY <2>1, InStore
  <2>4. new = [store EXCEPT ![s] = [store[s] EXCEPT !.SlotSwitch = 2]]
    OBVIOUS
  <2>5. [store[s] EXCEPT !.SlotSwitch = 2] \in SlotObject
    BY <2>3 DEF SlotObject
  <2>6. DOMAIN new = DOMAIN store /\ new \in [DOMAIN store -> SlotObject]
    BY <2>1, <2>4, <2>5, InStore
  <2>7. Sound(store, S) => SlotSound(new[s], s, S)
    BY <2>1, <2>2, <2>3, <2>4 DEF Sound, SlotSound, SlotObject
  <2>8. Sound(store, S) => Sound(new, S)
    BY <2>1, <2>4, <2>6, <2>7 DEF Sound
  <2>9. GetAllSlotInApp(store, s, apps) = new
    BY <1>1 DEF GetAllSlotInApp
  <2> QED BY <2>6, <2>8, <2>9, InStore, StoreOf
<1>2. CASE ~(SlotsInApp(store, s, apps) # {} /\ apps[AppId(s)].AppSwitch # 1)
  BY <1>2 DEF GetAllSlotInApp
<1> QED BY <1>1, <1>2

(* GetPreNum keeps the number of the app store it is given. *)
LEMMA GetPreNumSound ==
  ASSUME NEW store \in SlotStoreType, NEW apps \in AppStoreType \cup {Nil}, NEW S, apps \in S, NEW s
  PROVE  /\ GetPreNum(store, s, apps) \in SlotStoreType
         /\ Sound(store, S) => Sound(GetPreNum(store, s, apps), S)
<1>1. CASE apps # Nil /\ s \in DOMAIN store /\ store[s].preNum = Nil /\ AppId(s) \in DOMAIN apps
  <2> DEFINE n == apps[AppId(s)].PreNum
             new == [store EXCEPT ![s].preNum = n]
  <2>1. n \in PreNums
    BY <1>1, RowOf
  <2>3. store[s] \in SlotObject
    BY <1>1, InStore
  <2>4. new = [store EXCEPT ![s] = [store[s] EXCEPT !.preNum = n]]
    OBVIOUS
  <2>5. [store[s] EXCEPT !.preNum = n] \in SlotObject
    BY <2>1, <2>3 DEF SlotObject
  <2>6. DOMAIN new = DOMAIN store /\ new \in [DOMAIN store -> SlotObject]
    BY <1>1, <2>4, <2>5, InStore
  <2>7. Sound(store, S) => SlotSound(new[s], s, S)
    BY <1>1, <2>3, <2>4 DEF Sound, SlotSound, SlotObject
  <2>8. Sound(store, S) => Sound(new, S)
    BY <1>1, <2>4, <2>6, <2>7 DEF Sound
  <2>9. GetPreNum(store, s, apps) = new
    BY <1>1 DEF GetPreNum
  <2> QED BY <2>6, <2>8, <2>9, InStore, StoreOf
<1>2. CASE ~(apps # Nil /\ s \in DOMAIN store /\ store[s].preNum = Nil /\ AppId(s) \in DOMAIN apps)
  BY <1>2 DEF GetPreNum
<1> QED BY <1>1, <1>2

(* GenBrothers asks the apps it is given, and links slots of the store. *)
LEMMA GenBrothersSound ==
  ASSUME NEW store \in SlotStoreType, NEW newApps, NEW apps \in AppStoreType \cup {Nil}, Sound(store, {})
  PROVE  /\ GenBrothers(store, newApps, apps) \in SlotStoreType
         /\ Sound(GenBrothers(store, newApps, apps), {apps})
<1> DEFINE new == GenBrothers(store, newApps, apps)
           asked(s) == IF s = SlotsOf[AppId(s)][1] THEN GetAllSlotInApp(store, s, apps)[s] ELSE store[s]
<1>1. Sound(store, {apps})
  BY SoundMonotone
<1>2. ASSUME NEW s \in DOMAIN store
      PROVE  new[s] \in SlotObject /\ SlotSound(new[s], s, {apps})
  <2>1. store[s] \in SlotObject /\ SlotSound(store[s], s, {apps})
    BY <1>1, InStore DEF Sound
  <2>2. asked(s) \in SlotObject /\ SlotSound(asked(s), s, {apps})
    <3>1. CASE s = SlotsOf[AppId(s)][1]
      <4> DEFINE all == GetAllSlotInApp(store, s, apps)
      <4>1. all \in SlotStoreType /\ DOMAIN all = DOMAIN store /\ Sound(all, {apps})
        BY <1>1, GetAllSlotInAppSound
      <4> HIDE DEF all
      <4>2. all[s] \in SlotObject /\ SlotSound(all[s], s, {apps})
        BY <4>1, InStore DEF Sound
      <4> QED BY <3>1, <4>2 DEF all
    <3>2. CASE s # SlotsOf[AppId(s)][1]
      BY <2>1, <3>2
    <3> QED BY <3>1, <3>2
  <2>3. BrothersOf(store, s, apps) \in SUBSET Slots
    BY InStore DEF BrothersOf, SlotsInApp
  <2>4. new[s] = IF AppId(s) \in DOMAIN newApps
                   THEN [asked(s) EXCEPT !.brothers = BrothersOf(store, s, apps)] ELSE store[s]
    BY DEF GenBrothers
  <2> HIDE DEF asked, new
  <2>5. CASE AppId(s) \in DOMAIN newApps
    <3> DEFINE b == BrothersOf(store, s, apps)
               linked == [asked(s) EXCEPT !.brothers = b]
    <3> HIDE DEF b
    <3>1. b \in SUBSET Slots
      BY <2>3 DEF b
    <3>2. linked \in SlotObject /\ linked.preNum = asked(s).preNum
          /\ linked.SlotSwitch = asked(s).SlotSwitch /\ linked.given = asked(s).given
      BY <2>2, <3>1 DEF SlotObject
    <3>3. new[s] = linked
      BY <2>4, <2>5 DEF b
    <3> HIDE DEF linked
    <3> QED BY <2>2, <3>2, <3>3 DEF SlotSound
  <2>6. CASE AppId(s) \notin DOMAIN newApps
    BY <2>1, <2>4, <2>6
  <2> QED BY <2>5, <2>6
<1>3. new = [s \in DOMAIN store |-> new[s]]
  BY DEF GenBrothers
<1> HIDE DEF new
<1>4. DOMAIN new = DOMAIN store /\ new \in [DOMAIN store -> SlotObject]
  BY <1>2, <1>3
<1>5. new \in SlotStoreType /\ Sound(new, {apps})
  BY <1>2, <1>4, InStore, StoreOf DEF Sound
<1> QED BY <1>5 DEF new

(* A store made of rows is in order, whatever it is asked about. *)
LEMMA RowsSound ==
  ASSUME NEW d \in SUBSET Slots, NEW row, \A s \in d : row[s] \in {1, 2}
  PROVE  /\ [s \in d |-> NewSlot(row[s])] \in SlotStoreType
         /\ Sound([s \in d |-> NewSlot(row[s])], {})
<1> DEFINE new == [s \in d |-> NewSlot(row[s])]
<1>1. \A s \in d : new[s] \in SlotObject /\ SlotSound(new[s], s, {})
  BY NewSlotSound
<1>2. DOMAIN new = d /\ new \in [d -> SlotObject]
  BY <1>1
<1> QED BY <1>1, <1>2, StoreOf DEF Sound

(* The empty store is a store. *)
LEMMA EmptyStore == Empty \in SlotStoreType /\ Empty \in AppStoreType /\ \A S : Sound(Empty, S)
<1>1. DOMAIN Empty = {} /\ Empty \in [{} -> SlotObject] /\ Empty \in [{} -> AppInfos]
  BY DEF Empty
<1> QED BY <1>1, StoreOf DEF Sound, AppStoreType

-----------------------------------------------------------------------------
(* The steps of updateApps. *)

(* A slot store is built at an address nobody uses. *)
LEMMA BuildStep ==
  ASSUME IInv, NEW h \in NewSlotStore, NEW new \in SlotStoreType, Sound(new, {}),
         heap' = [heap EXCEPT ![h] = new], slotStore' = h, loop' \in {"saveSlots", "brothers"},
         UNCHANGED <<global, took>>
  PROVE  Heap' /\ Building' /\ Published' /\ SlotsBeforeApps'
<1> USE DEF IInv
<1>1. h \in Stores /\ h # gSlotStore /\ h \notin Held(Requests)
  BY DEF NewSlotStore
<1>2. heap' \in [Stores -> SlotStoreType] /\ heap'[h] = new /\ \A g \in Stores \ {h} : heap'[g] = heap[g]
  BY <1>1 DEF Heap
<1>3. Held(Requests)' = Held(Requests)
  BY DEF Held
<1>4. Building'
  BY <1>1, <1>2, <1>3, SspStoreAssumption DEF Building, global
<1>5. Published' /\ SlotsBeforeApps'
  BY <1>1, <1>2 DEF Published, SlotsBeforeApps, global, TypeOK
<1> QED BY <1>2, <1>4, <1>5 DEF Heap

(* A step that leaves the heap alone, and the places where the slot store  *)
(* in the making is used, keeps what is said of it.                        *)
LEMMA QuietStep ==
  ASSUME IInv, UNCHANGED <<heap, global, took, slotStore>>,
         loop' = loop \/ (loop \in {"load", "apps", "saveApps", "slots"} /\ loop' \in {"apps", "saveApps", "slots"})
           \/ (loop = "saveSlots" /\ loop' = "brothers")
  PROVE  Heap' /\ Building' /\ Published' /\ SlotsBeforeApps'
<1>1. Held(Requests)' = Held(Requests)
  BY DEF Held
<1> QED BY <1>1 DEF IInv, Heap, Building, Published, SlotsBeforeApps, global

(* A step of the update routine builds or publishes one table.             *)
LEMMA UpdateStep == IInv /\ Update => IInv'
<1> SUFFICES ASSUME IInv, Update PROVE IInv'
  OBVIOUS
<1> USE DEF IInv
<1>1. CASE LoadFromFile
  <2>1. CASE slotFile # Nil /\ appFile # Nil
    <3>1. PICK h \in NewSlotStore :
            slotStore' = h /\ heap' = [heap EXCEPT ![h] = [s \in DOMAIN slotFile |-> NewSlot(slotFile[s])]]
      BY <1>1, <2>1 DEF LoadFromFile
    <3>2. loop' = "brothers" /\ appStore' = appFile /\ UNCHANGED <<remote, files, global, took>>
      BY <1>1, <2>1 DEF LoadFromFile
    <3>3. DOMAIN slotFile \in SUBSET Slots /\ \A s \in DOMAIN slotFile : slotFile[s] \in {1, 2}
      BY <2>1 DEF TypeOK
    <3>4. Heap' /\ Building' /\ Published' /\ SlotsBeforeApps'
      BY <3>1, <3>2, <3>3, RowsSound, BuildStep
    <3>5. h \in Stores
      BY <3>1 DEF NewSlotStore
    <3>6. \A g \in Stores : \A s \in DOMAIN heap'[g] : s \in Slots /\ heap'[g][s] \in SlotObject
      BY <3>4, InStore DEF Heap
    <3>7. TypeOK'
      BY <2>1, <3>1, <3>2, <3>5, <3>6 DEF TypeOK, remote, files, global
    <3> QED BY <3>4, <3>7
  <2>2. CASE ~(slotFile # Nil /\ appFile # Nil)
    <3>1. loop = "load" /\ loop' = "apps" /\ UNCHANGED <<remote, files, appStore, slotStore, heap, global, took>>
      BY <1>1, <2>2 DEF LoadFromFile
    <3>2. TypeOK'
      BY <3>1 DEF TypeOK, remote, files, global
    <3> QED BY <3>1, <3>2, QuietStep
  <2> QED BY <2>1, <2>2
<1>2. CASE updateApps
  <2>1. loop = "apps" /\ loop' \in {"apps", "saveApps"} /\ UNCHANGED <<remote, slotFile, slotStore, global, heap, took>>
    BY <1>2 DEF updateApps
  <2>2. appStore' \in AppStoreType
    <3>1. CASE UNCHANGED appStore
      BY <3>1 DEF TypeOK
    <3>2. ASSUME NEW got \in Fetched({a \in Apps : app[a] # Nil}), appStore' = [a \in got |-> app[a]]
          PROVE  appStore' \in AppStoreType
      <4>1. got \subseteq {a \in Apps : app[a] # Nil}
        BY <3>2 DEF Fetched
      <4>2. got \in SUBSET Apps /\ \A a \in got : app[a] \in AppInfos
        BY <4>1 DEF TypeOK
      <4> QED BY <3>2, <4>2 DEF AppStoreType
    <3> QED BY <1>2, <3>1, <3>2 DEF updateApps
  <2>3. appFile' \in {appFile, Nil}
    BY <1>2 DEF updateApps, Create
  <2>4. TypeOK'
    BY <2>1, <2>2, <2>3 DEF TypeOK, remote, global
  <2> QED BY <2>1, <2>4, QuietStep
<1>3. CASE saveApps
  <2>1. loop = "saveApps" /\ loop' = "slots" /\ appFile' \in {appFile, appStore, Nil}
        /\ UNCHANGED <<remote, slotFile, appStore, slotStore, global, heap, took>>
    BY <1>3 DEF saveApps
  <2>2. TypeOK'
    BY <2>1 DEF TypeOK, remote, global
  <2> QED BY <2>1, <2>2, QuietStep
<1>4. CASE updateSlots
  <2>1. loop = "slots" /\ UNCHANGED <<remote, appFile, appStore, global, took>> /\ slotFile' \in {slotFile, Nil}
    BY <1>4 DEF updateSlots, Create
  <2>2. CASE loop' = "apps" /\ UNCHANGED <<slotStore, slotFile, heap>>
    <3>1. TypeOK'
      BY <2>1, <2>2 DEF TypeOK, remote, global
    <3> QED BY <2>1, <2>2, <3>1, QuietStep
  <2>3. ASSUME NEW got \in Fetched(Slots), NEW h \in NewSlotStore, slotStore' = h, loop' = "saveSlots",
               heap' = [heap EXCEPT ![h] = [s \in got |-> NewSlot(slotSwitch[s])]]
        PROVE  IInv'
    <3>1. got \in SUBSET Slots /\ \A s \in got : slotSwitch[s] \in {1, 2}
      BY <2>3 DEF Fetched, TypeOK
    <3>2. Heap' /\ Building' /\ Published' /\ SlotsBeforeApps'
      BY <2>1, <2>3, <3>1, RowsSound, BuildStep
    <3>3. h \in Stores
      BY <2>3 DEF NewSlotStore
    <3>4. \A g \in Stores : \A s \in DOMAIN heap'[g] : s \in Slots /\ heap'[g][s] \in SlotObject
      BY <3>2, InStore DEF Heap
    <3>5. TypeOK'
      BY <2>1, <2>3, <3>3, <3>4 DEF TypeOK, remote, global
    <3> QED BY <3>2, <3>5
  <2> QED BY <1>4, <2>2, <2>3 DEF updateSlots
<1>5. CASE saveSlots
  <2> DEFINE rows == [s \in DOMAIN heap[slotStore] |-> heap[slotStore][s].SlotSwitch]
  <2>1. loop = "saveSlots" /\ loop' = "brothers" /\ slotFile' \in {slotFile, rows, Nil}
        /\ UNCHANGED <<remote, appFile, appStore, slotStore, global, heap, took>>
    BY <1>5 DEF saveSlots
  <2>2. slotStore \in Stores
    BY <2>1 DEF Building, TypeOK
  <2>3. \A s \in DOMAIN rows : s \in Slots /\ rows[s] \in {1, 2}
    BY <2>2 DEF TypeOK, SlotObject
  <2> HIDE DEF rows
  <2>4. TypeOK'
    BY <2>1, <2>3 DEF TypeOK, remote, global
  <2> QED BY <2>1, <2>4, QuietStep
<1>6. CASE genBrothers
  <2> DEFINE new == GenBrothers(heap[slotStore], appStore, gAppStore)
  <2>1. loop = "brothers" /\ loop' = "setSlots" /\ heap' = [heap EXCEPT ![slotStore] = new]
        /\ UNCHANGED <<remote, files, appStore, slotStore, global, took>>
    BY <1>6 DEF genBrothers
  <2>2. slotStore \in Stores /\ slotStore # gSlotStore /\ slotStore \notin Held(Requests)
    BY <2>1 DEF Building, TypeOK
  <2>3. new \in SlotStoreType /\ Sound(new, {gAppStore})
    BY <2>1, <2>2, GenBrothersSound DEF Building, Heap, TypeOK
  <2> HIDE DEF new
  <2>4. heap' \in [Stores -> SlotStoreType] /\ heap'[slotStore] = new
        /\ \A g \in Stores \ {slotStore} : heap'[g] = heap[g]
    BY <2>1, <2>2, <2>3 DEF Heap
  <2>5. Held(Requests)' = Held(Requests)
    BY <2>1 DEF Held
  <2>6. Building' /\ Heap'
    BY <2>1, <2>2, <2>3, <2>4, <2>5, SspStoreAssumption DEF Building, Heap, global
  <2>7. Published' /\ SlotsBeforeApps'
    BY <2>1, <2>2, <2>4 DEF Published, SlotsBeforeApps, global, TypeOK
  <2>8. \A g \in Stores : \A s \in DOMAIN heap'[g] : s \in Slots /\ heap'[g][s] \in SlotObject
    BY <2>4, InStore
  <2>9. TypeOK'
    BY <2>1, <2>8 DEF TypeOK, remote, files, global
  <2> QED BY <2>6, <2>7, <2>9
<1>7. CASE SetGlobalSlotStore
  <2>1. loop = "setSlots" /\ loop' = "setApps" /\ gSlotStore' = slotStore
        /\ UNCHANGED <<remote, files, appStore, slotStore, gAppStore, lastApps, Manager, took>>
    BY <1>7 DEF SetGlobalSlotStore
  <2>2. slotStore \in Stores
    BY <2>1 DEF Building, TypeOK
  <2>3. heap' \in [Stores -> SlotStoreType] /\ heap'[slotStore] = heap[slotStore]
    BY <1>7, <2>2, EmptyStore DEF SetGlobalSlotStore, Heap
  <2>4. Sound(heap'[gSlotStore'], {gAppStore})
    BY <2>1, <2>3 DEF Building
  <2>5. Sound(heap'[gSlotStore'], {gAppStore, lastApps})
    BY <2>4, SoundMonotone
  <2>6. Building' /\ Published' /\ SlotsBeforeApps' /\ Heap'
    BY <2>1, <2>2, <2>3, <2>4, <2>5, SspStoreAssumption DEF Building, Published, SlotsBeforeApps, Heap
  <2>7. \A g \in Stores : \A s \in DOMAIN heap'[g] : s \in Slots /\ heap'[g][s] \in SlotObject
    BY <2>3, InStore
  <2>8. TypeOK'
    BY <2>1, <2>2, <2>7 DEF TypeOK, remote, files
  <2> QED BY <2>6, <2>8
<1>8. CASE SetGlobalAppStore
  <2>1. loop = "setApps" /\ loop' = "aux" /\ gAppStore' = appStore /\ lastApps' = gAppStore
        /\ UNCHANGED <<remote, files, appStore, slotStore, gSlotStore, heap, took>>
    BY <1>8 DEF SetGlobalAppStore
  <2>2. gSlotStore # Nil /\ Sound(heap[gSlotStore], {gAppStore})
    BY <2>1 DEF Published
  <2>3. Sound(heap'[gSlotStore'], {gAppStore', lastApps'})
    BY <2>1, <2>2, SoundMonotone
  <2>4. Building' /\ Published' /\ SlotsBeforeApps' /\ Heap'
    BY <2>1, <2>2, <2>3 DEF Building, Published, SlotsBeforeApps, Heap
  <2>5. TypeOK'
    BY <2>1 DEF TypeOK, remote, files
  <2> QED BY <2>4, <2>5
<1>9. CASE GenAuxiliaryGlobalConf
  <2>1. loop = "aux" /\ loop' = "apps" /\ appStore' = Empty /\ slotStore' = Nil
        /\ UNCHANGED <<remote, files, gAppStore, lastApps, gSlotStore, heap, took>>
    BY <1>9 DEF GenAuxiliaryGlobalConf
  <2>2. Building' /\ Published' /\ SlotsBeforeApps' /\ Heap'
    BY <2>1 DEF Building, Published, SlotsBeforeApps, Heap
  <2>3. TypeOK'
    BY <2>1, EmptyStore DEF TypeOK, remote, files
  <2> QED BY <2>2, <2>3
<1> QED BY <1>1, <1>2, <1>3, <1>4, <1>5, <1>6, <1>7, <1>8, <1>9 DEF Update

-----------------------------------------------------------------------------
(* The steps of the handlers. *)

(* A request takes the table of slots that is published now.               *)
LEMMA GetGlobalSlotStoreStep ==
  ASSUME IInv, NEW r \in Requests, GetGlobalSlotStore(r) PROVE IInv'
<1> USE DEF IInv
<1>1. gSlotStore # Nil /\ took' = [took EXCEPT ![r] = gSlotStore]
      /\ UNCHANGED <<remote, files, locals, global, heap>>
  BY DEF GetGlobalSlotStore
<1>2. took' \in [Requests -> Stores \cup {Nil}]
  BY <1>1 DEF TypeOK
<1>3. Held(Requests)' \subseteq Held(Requests) \cup {gSlotStore}
  BY <1>1 DEF Held, TypeOK
<1>4. Building'
  BY <1>1, <1>3 DEF Building, locals, global
<1>5. Heap' /\ Published' /\ SlotsBeforeApps'
  BY <1>1 DEF Heap, Published, SlotsBeforeApps, locals, global
<1>6. TypeOK'
  BY <1>1, <1>2 DEF TypeOK, remote, files, locals, global
<1> QED BY <1>4, <1>5, <1>6

(* A handler that ends may write to any store that still has a user, but   *)
(* never to the one in the making.                                         *)
LEMMA FinishStep ==
  ASSUME IInv, NEW r \in Requests, took[r] # Nil, NEW store \in SlotStoreType, Finish(r, store),
         \A S : gAppStore \in S /\ Sound(heap[took[r]], S) => Sound(store, S)
  PROVE  IInv'
<1> DEFINE users == {slotStore, gSlotStore} \cup Held(Requests \ {r})
<1> USE DEF IInv
<1>1. /\ heap' = [h \in Stores |-> IF h \notin users THEN Empty ELSE IF h = took[r] THEN store ELSE heap[h]]
      /\ took' = [took EXCEPT ![r] = Nil] /\ UNCHANGED <<remote, files, locals, global>>
  BY DEF Finish
<1>2. took[r] \in Held(Requests) /\ took[r] \in Stores
  BY DEF Held, TypeOK
<1>3. heap' \in [Stores -> SlotStoreType]
  BY <1>1, EmptyStore DEF Heap
<1>4. took' \in [Requests -> Stores \cup {Nil}]
  BY <1>1 DEF TypeOK
<1>5. Held(Requests)' \subseteq Held(Requests) \cup {Nil}
  BY <1>1 DEF Held, TypeOK
<1>6. slotStore \in Stores /\ slotStore # took[r] => heap'[slotStore] = heap[slotStore]
  BY <1>1
<1>7. gSlotStore \in Stores => \A S : gAppStore \in S /\ Sound(heap[gSlotStore], S) => Sound(heap'[gSlotStore], S)
  BY <1>1
<1>8. Building'
  BY <1>1, <1>2, <1>5, <1>6 DEF Building, locals, global, TypeOK
<1>9. Published' /\ SlotsBeforeApps'
  BY <1>1, <1>7 DEF Published, SlotsBeforeApps, locals, global, TypeOK
<1>10. \A g \in Stores : \A s \in DOMAIN heap'[g] : s \in Slots /\ heap'[g][s] \in SlotObject
  BY <1>3, InStore
<1>11. TypeOK'
  BY <1>1, <1>4, <1>10 DEF TypeOK, remote, files, locals, global
<1> QED BY <1>3, <1>8, <1>9, <1>11 DEF Heap

(* A handler writes to the slots of the table it took, and lets go of it.  *)
LEMMA HandleStep == ASSUME IInv, NEW r \in Requests, Handle(r) PROVE IInv'
<1>1. took[r] # Nil
  BY DEF Handle, tlAllHandler, wuganHandler
<1>2. heap[took[r]] \in SlotStoreType /\ gAppStore \in AppStoreType \cup {Nil}
  BY <1>1 DEF IInv, Heap, TypeOK
<1>3. ASSUME NEW s \in Slots, Finish(r, GetAllSlotInApp(heap[took[r]], s, gAppStore)) PROVE IInv'
  BY <1>1, <1>2, <1>3, GetAllSlotInAppSound, FinishStep
<1>4. ASSUME NEW s \in Slots, Finish(r, GetPreNum(heap[took[r]], s, gAppStore)) PROVE IInv'
  BY <1>1, <1>2, <1>4, GetPreNumSound, FinishStep
<1> QED BY <1>3, <1>4 DEF Handle, tlAllHandler, wuganHandler

(* What happens around the program. *)
LEMMA AroundStep == ASSUME IInv, Publish \/ Settle \/ Crash \/ UNCHANGED vars PROVE IInv'
<1> USE DEF IInv
<1>1. CASE Publish \/ Settle \/ UNCHANGED vars
  <2>1. UNCHANGED <<files, locals, global, heap, took>>
    BY <1>1 DEF Publish, Settle, vars
  <2>2. app' \in [Apps -> AppInfos \cup {Nil}] /\ slotSwitch' \in [Slots -> {1, 2}] /\ settled' \in {"yes", "no"}
    <3>1. CASE UNCHANGED slotSwitch
      BY <1>1, <3>1 DEF Publish, Settle, vars, remote, TypeOK
    <3>2. ASSUME NEW s \in Moving, slotSwitch' = [slotSwitch EXCEPT ![s] = 3 - @]
          PROVE  slotSwitch' \in [Slots -> {1, 2}]
      BY <3>2, SspStoreAssumption DEF TypeOK
    <3>3. app' \in [Apps -> AppInfos \cup {Nil}] /\ settled' \in {"yes", "no"}
      BY <1>1 DEF Publish, Settle, vars, remote, TypeOK
    <3> QED BY <1>1, <3>1, <3>2, <3>3 DEF Publish, Settle, vars, remote
  <2>3. TypeOK'
    BY <2>1, <2>2 DEF TypeOK, files, locals, global
  <2>4. Held(Requests)' = Held(Requests)
    BY <2>1 DEF Held
  <2>5. Heap' /\ Building' /\ Published' /\ SlotsBeforeApps'
    BY <2>1, <2>4 DEF Heap, Building, Published, SlotsBeforeApps, locals, global
  <2> QED BY <2>3, <2>5
<1>2. CASE Crash
  <2>1. /\ loop' = "load" /\ appStore' = Empty /\ slotStore' = Nil
        /\ gAppStore' = Nil /\ lastApps' = Nil /\ gSlotStore' = Nil /\ Manager' = NoManager
        /\ heap' = [h \in Stores |-> Empty] /\ took' = [r \in Requests |-> Nil]
        /\ UNCHANGED <<remote, files>>
    BY <1>2 DEF Crash
  <2>2. heap' \in [Stores -> SlotStoreType]
    BY <2>1, EmptyStore
  <2>3. \A g \in Stores : \A s \in DOMAIN heap'[g] : s \in Slots /\ heap'[g][s] \in SlotObject
    BY <2>2, InStore
  <2>4. TypeOK'
    BY <2>1, <2>3, EmptyStore DEF TypeOK, remote, files
  <2> QED BY <2>1, <2>2, <2>4 DEF Heap, Building, Published, SlotsBeforeApps
<1> QED BY <1>1, <1>2

-----------------------------------------------------------------------------
(* The invariant holds in every state. *)
THEOREM SspStoreInvariant == Spec => []IInv
<1>1. Init => IInv
  <2> SUFFICES ASSUME Init PROVE IInv
    OBVIOUS
  <2>1. heap \in [Stores -> SlotStoreType]
    BY EmptyStore DEF Init
  <2>2. \A g \in Stores : \A s \in DOMAIN heap[g] : s \in Slots /\ heap[g][s] \in SlotObject
    BY <2>1, InStore
  <2>3. TypeOK
    BY <2>2, EmptyStore DEF Init, TypeOK
  <2> QED BY <2>1, <2>3 DEF Init, IInv, Heap, Building, Published, SlotsBeforeApps
<1>2. IInv /\ [Next]_vars => IInv'
  BY UpdateStep, GetGlobalSlotStoreStep, HandleStep, AroundStep DEF Next, Request
<1> QED BY <1>1, <1>2, PTL DEF Spec

(* The tables and the stores keep their types (tpl.go, ssp_info.go). *)
THEOREM TypeCorrect == Spec => []TypeOK
  BY SspStoreInvariant, PTL DEF IInv

(* A handler that finds an app store finds a slot store (tpl.go). *)
THEOREM SlotsComeFirst == Spec => []SlotsBeforeApps
  BY SspStoreInvariant, PTL DEF IInv

(* What handlers cached or closed in a published slot, and what GenBrothers *)
(* closed, was so in the app store in use or the one before.               *)
THEOREM OneRoundOld == Spec => []AtMostOneRoundOld
<1>1. IInv => AtMostOneRoundOld
  BY DEF IInv, Published, Sound, SlotSound, AtMostOneRoundOld, Recent
<1> QED BY <1>1, SspStoreInvariant, PTL
=============================================================================
