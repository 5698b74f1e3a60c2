------------------------------ MODULE SspStore ------------------------------
(***************************************************************************)
(* The apps and slots of the publishers: tpl.Service.updateApps fetches    *)
(* both tables from the bucket every few minutes, keeps a copy of each in  *)
(* a local gob file for the next start, and publishes them in two global   *)
(* pointers that every HTTP handler reads.                                 *)
(*                                                                         *)
(* A slot store is an address, because handlers write to the slots they    *)
(* find in it: GetAllSlotInApp closes slots and GetPreNum caches a number. *)
(* Addresses are used again once nobody refers to them.  An app store is   *)
(* read only, but for the Manager of its apps.                             *)
(***************************************************************************)
EXTENDS Naturals, Sequences, SequencesExt

CONSTANTS
  Apps,       \* app ids
  SlotsOf,    \* app -> its slot ids, in order
  AppInfos,   \* the rows an app may have: [AppSwitch : {1, 2}, PreNum : Nat]
  Moving,     \* bound: the slots the publisher switches on and off
  offlineSlots,
  Requests,
  Disk,       \* "ok" or "full": whether the gob files can be created
  Stores,     \* addresses of slot stores
  Nil

Slots == UNION {ToSet(SlotsOf[a]) : a \in Apps}
AppId(s) == CHOOSE a \in Apps : s \in ToSet(SlotsOf[a])

ASSUME SspStoreAssumption ==
  /\ \A a \in Apps : SlotsOf[a] # <<>> /\ IsInjective(SlotsOf[a])
  /\ \A a, b \in Apps : a # b => ToSet(SlotsOf[a]) \cap ToSet(SlotsOf[b]) = {}
  /\ AppInfos \subseteq [AppSwitch : {1, 2}, PreNum : Nat]
  /\ Moving \subseteq Slots
  /\ Nil \notin AppInfos \cup Stores

VARIABLES
  app,        \* the app table of ssp: app -> its row, Nil while it has none
  slotSwitch, \* the slot table of ssp: slot -> SlotSwitch, 1 on, 2 off
  settled,    \* "yes" once these are quiet, and neither failures nor crashes will come
  appFile,    \* appGobFile, Nil while it is missing or torn
  slotFile,   \* slotGobFile, the same
  loop,       \* where updateApps is
  appStore,   \* its local appStore
  slotStore,  \* its local slotStore, an address
  gAppStore,  \* the global app store
  lastApps,   \* history: the one before
  gSlotStore, \* the global slot store, an address
  Manager,    \* app -> the v3 configuration in the global app store
  heap,       \* address -> slot -> slot object
  took        \* request -> the slot store it has taken

remote == <<app, slotSwitch, settled>>
files  == <<appFile, slotFile>>
locals == <<loop, appStore, slotStore>>
global == <<gAppStore, lastApps, gSlotStore, Manager>>
vars   == <<remote, files, locals, global, heap, took>>

PreNums == {info.PreNum : info \in AppInfos}
SlotObject == [given : {1, 2}, SlotSwitch : {1, 2}, preNum : PreNums \cup {Nil}, brothers : SUBSET Slots]
AppStoreType == UNION {[as -> AppInfos] : as \in SUBSET Apps}

TypeOK ==
  /\ app \in [Apps -> AppInfos \cup {Nil}] /\ slotSwitch \in [Slots -> {1, 2}]
  /\ settled \in {"yes", "no"}
  /\ appFile \in AppStoreType \cup {Nil}
  /\ slotFile = Nil \/ \A s \in DOMAIN slotFile : s \in Slots /\ slotFile[s] \in {1, 2}
  /\ loop \in {"load", "apps", "saveApps", "slots", "saveSlots", "brothers", "setSlots", "setApps", "aux"}
  /\ appStore \in AppStoreType /\ slotStore \in Stores \cup {Nil}
  /\ {gAppStore, lastApps} \subseteq AppStoreType \cup {Nil} /\ gSlotStore \in Stores \cup {Nil}
  /\ \A h \in Stores : \A s \in DOMAIN heap[h] : s \in Slots /\ heap[h][s] \in SlotObject
  /\ took \in [Requests -> Stores \cup {Nil}]

Empty == [x \in {} |-> x]
NoManager == [a \in Apps |-> Nil]

Init ==
  /\ app \in [Apps -> AppInfos \cup {Nil}]
  /\ slotSwitch \in {sw \in [Slots -> {1, 2}] : \A s \in Slots \ Moving : sw[s] = 1}
  /\ settled = "no"
  /\ appFile = Nil /\ slotFile = Nil
  /\ loop = "load" /\ appStore = Empty /\ slotStore = Nil
  /\ gAppStore = Nil /\ lastApps = Nil /\ gSlotStore = Nil /\ Manager = NoManager
  /\ heap = [h \in Stores |-> Empty]
  /\ took = [r \in Requests |-> Nil]

-----------------------------------------------------------------------------
(* Around the program. *)

(* A table is read only where it is fetched, so it changes there. *)
Publish ==
  /\ settled = "no"
  /\ \/ loop = "apps" /\ \E a \in Apps, info \in AppInfos : app' = [app EXCEPT ![a] = info] /\ slotSwitch' = slotSwitch
     \/ loop = "slots" /\ \E s \in Moving : slotSwitch' = [slotSwitch EXCEPT ![s] = 3 - @] /\ app' = app
  /\ UNCHANGED <<settled, files, locals, global, heap, took>>

Settle ==
  /\ settled = "no" /\ settled' = "yes"
  /\ UNCHANGED <<app, slotSwitch, files, locals, global, heap, took>>

(* The process dies and is started again; what it was writing is torn. *)
Crash ==
  /\ settled = "no"
  /\ loop' = "load" /\ appStore' = Empty /\ slotStore' = Nil
  /\ gAppStore' = Nil /\ lastApps' = Nil /\ gSlotStore' = Nil /\ Manager' = NoManager
  /\ heap' = [h \in Stores |-> Empty] /\ took' = [r \in Requests |-> Nil]
  /\ UNCHANGED <<remote, files>>

-----------------------------------------------------------------------------
(* Reading and writing a slot store.  given, the SlotSwitch of the table,  *)
(* is history. *)

NewSlot(sw) == [given |-> sw, SlotSwitch |-> sw, preNum |-> Nil, brothers |-> {}]

Held(rs) == {took[r] : r \in rs}

NewSlotStore == Stores \ ({gSlotStore} \cup Held(Requests))

(* The slots GetAllSlotInApp returns for s, none if it returns an error. *)
SlotsInApp(store, s, apps) ==
  IF apps = Nil \/ s \notin DOMAIN store THEN {}
  ELSE IF AppId(s) \notin DOMAIN apps THEN {}
  ELSE ToSet(SlotsOf[AppId(s)]) \cap DOMAIN store

(* For an app that is off the slot it was asked about is closed, once per  *)
(* slot of the app: the others stay as they are.                           *)
GetAllSlotInApp(store, s, apps) ==
  IF SlotsInApp(store, s, apps) # {} /\ apps[AppId(s)].AppSwitch # 1
    THEN [store EXCEPT ![s].SlotSwitch = 2] ELSE store

BrothersOf(store, s, apps) ==
  LET all == SlotsInApp(store, SlotsOf[AppId(s)][1], apps) \ offlineSlots
  IN  IF s \in all THEN all \ {s} ELSE {}

(* GenBrothers goes through the apps of the new app store, but what an app *)
(* holds, and whether it is off, it asks the global one, of the round before. *)
GenBrothers(store, newApps, apps) ==
  [s \in DOMAIN store |->
     LET a == AppId(s)
         asked == IF s = SlotsOf[a][1] THEN GetAllSlotInApp(store, s, apps)[s] ELSE store[s]
     IN  IF a \in DOMAIN newApps THEN [asked EXCEPT !.brothers = BrothersOf(store, s, apps)] ELSE store[s]]

-----------------------------------------------------------------------------
(* The goroutine of updateApps. *)

(* Both files decode, or none is used. *)
LoadFromFile ==
  /\ loop = "load"
  /\ IF slotFile # Nil /\ appFile # Nil
       THEN /\ appStore' = appFile /\ loop' = "brothers"
            /\ \E h \in NewSlotStore : slotStore' = h
                 /\ heap' = [heap EXCEPT ![h] = [s \in DOMAIN slotFile |-> NewSlot(slotFile[s])]]
       ELSE loop' = "apps" /\ UNCHANGED <<appStore, slotStore, heap>>
  /\ UNCHANGED <<remote, files, global, took>>

(* What UpdateViaS3 gets of a table: a file that fails to download is left *)
(* out, one that does not decode ends the loop, and neither is an error.   *)
Fetched(ids) == IF settled = "yes" THEN {ids} ELSE SUBSET ids
ListFails == settled = "no"

(* SaveToFile truncates the file before it writes; on a full disk it keeps *)
(* what it holds.                                                          *)
Create(file) == IF Disk = "full" THEN file ELSE Nil

(* After an error of the list the round starts again. *)
updateApps ==
  /\ loop = "apps"
  /\ \/ ListFails /\ UNCHANGED <<appStore, appFile, loop>>
     \/ /\ \E got \in Fetched({a \in Apps : app[a] # Nil}) : appStore' = [a \in got |-> app[a]]
        /\ appFile' = Create(appFile)
        /\ loop' = "saveApps"
  /\ UNCHANGED <<remote, slotFile, slotStore, global, heap, took>>

saveApps ==
  /\ loop = "saveApps" /\ loop' = "slots"
  /\ appFile' \in (IF Disk = "ok" THEN {appStore, Nil} ELSE {appFile})
  /\ UNCHANGED <<remote, slotFile, appStore, slotStore, global, heap, took>>

(* MUTANT: a slot that is known keeps its object. *)
updateSlotsKeeping ==
  /\ loop = "slots"
  /\ \E h \in NewSlotStore :
       /\ slotStore' = h
       /\ heap' = [heap EXCEPT ![h] = [s \in Slots |->
            IF gSlotStore # Nil /\ s \in DOMAIN heap[gSlotStore] THEN heap[gSlotStore][s] ELSE NewSlot(slotSwitch[s])]]
  /\ slotFile' = Create(slotFile) /\ loop' = "saveSlots"
  /\ UNCHANGED <<remote, appFile, appStore, global, took>>

updateSlots ==
  /\ loop = "slots"
  /\ \/ ListFails /\ loop' = "apps" /\ UNCHANGED <<slotStore, slotFile, heap>>
     \/ /\ \E got \in Fetched(Slots), h \in NewSlotStore :
             /\ slotStore' = h
             /\ heap' = [heap EXCEPT ![h] = [s \in got |-> NewSlot(slotSwitch[s])]]
        /\ slotFile' = Create(slotFile) /\ loop' = "saveSlots"
  /\ UNCHANGED <<remote, appFile, appStore, global, took>>

saveSlots ==
  /\ loop = "saveSlots" /\ loop' = "brothers"
  /\ slotFile' \in IF Disk = "ok"
       THEN {Nil, [s \in DOMAIN heap[slotStore] |-> heap[slotStore][s].SlotSwitch]} ELSE {slotFile}
  /\ UNCHANGED <<remote, appFile, appStore, slotStore, global, heap, took>>

genBrothers ==
  /\ loop = "brothers" /\ loop' = "setSlots"
  /\ heap' = [heap EXCEPT ![slotStore] = GenBrothers(@, appStore, gAppStore)]
  /\ UNCHANGED <<remote, files, appStore, slotStore, global, took>>

(* MUTANT: the apps are published first. *)
SetGlobalAppsFirst ==
  /\ loop = "setSlots" /\ loop' = "setApps"
  /\ gAppStore' = appStore /\ lastApps' = gAppStore
  /\ UNCHANGED <<remote, files, appStore, slotStore, gSlotStore, Manager, heap, took>>

SetGlobalSlotStore ==
  /\ loop = "setSlots" /\ loop' = "setApps"
  /\ gSlotStore' = slotStore /\ heap' = [h \in Stores |-> IF h \in {slotStore} \cup Held(Requests) THEN heap[h] ELSE Empty]
  /\ UNCHANGED <<remote, files, appStore, slotStore, gAppStore, lastApps, Manager, took>>

(* MUTANT: the app store is not published. *)
SetGlobalAppStoreForgotten ==
  /\ loop = "setApps" /\ loop' = "aux"
  /\ gAppStore' = (IF gAppStore = Nil THEN appStore ELSE gAppStore) /\ lastApps' = gAppStore
  /\ UNCHANGED <<remote, files, appStore, slotStore, gSlotStore, Manager, heap, took>>

SetGlobalAppStore ==
  /\ loop = "setApps" /\ loop' = "aux"
  /\ gAppStore' = appStore /\ lastApps' = gAppStore /\ Manager' = NoManager
  /\ UNCHANGED <<remote, files, appStore, slotStore, gSlotStore, heap, took>>

(* The v3 configuration of an app lists its slots that are open.           *)
AddSlots(store, a) == {s \in ToSet(SlotsOf[a]) \cap DOMAIN store : store[s].SlotSwitch = 1}

GenAuxiliaryGlobalConf ==
  /\ loop = "aux" /\ loop' = "apps"
  /\ Manager' = [a \in Apps |-> IF a \in DOMAIN appStore THEN AddSlots(heap[gSlotStore], a) ELSE Nil]
  /\ appStore' = Empty /\ slotStore' = Nil
  /\ UNCHANGED <<remote, files, gAppStore, lastApps, gSlotStore, heap, took>>

Update ==
  \/ LoadFromFile \/ updateApps \/ saveApps \/ updateSlots \/ saveSlots \/ genBrothers
  \/ SetGlobalSlotStore \/ SetGlobalAppStore \/ GenAuxiliaryGlobalConf

-----------------------------------------------------------------------------
(* The handlers.  They take the slot store, and use it later. *)

GetGlobalSlotStore(r) ==
  /\ took[r] = Nil /\ gSlotStore # Nil
  /\ took' = [took EXCEPT ![r] = gSlotStore]
  /\ UNCHANGED <<remote, files, locals, global, heap>>

(* The request ends, having written to the slots of its store.  A store   *)
(* nobody refers to any more is collected.                                 *)
Finish(r, store) ==
  LET users == {slotStore, gSlotStore} \cup Held(Requests \ {r}) IN
  /\ heap' = [h \in Stores |-> IF h \notin users THEN Empty ELSE IF h = took[r] THEN store ELSE heap[h]]
  /\ took' = [took EXCEPT ![r] = Nil]
  /\ UNCHANGED <<remote, files, locals, global>>

tlAllHandler(r) == took[r] # Nil /\ \E s \in Slots :
  Finish(r, GetAllSlotInApp(heap[took[r]], s, gAppStore))

(* MUTANT: the 0 of a program without apps is kept too. *)
GetPreNumZero(store, s, apps) ==
  IF s \in DOMAIN store /\ apps = Nil THEN [store EXCEPT ![s].preNum = 0] ELSE store

(* The number is asked of the global app store once, and kept in the slot. *)
(* For an app that is not there the handler panics on a nil pointer.       *)
GetPreNum(store, s, apps) ==
  IF apps # Nil /\ s \in DOMAIN store /\ store[s].preNum = Nil /\ AppId(s) \in DOMAIN apps
    THEN [store EXCEPT ![s].preNum = apps[AppId(s)].PreNum] ELSE store

wuganHandler(r) == took[r] # Nil /\ \E s \in Slots :
  Finish(r, GetPreNum(heap[took[r]], s, gAppStore))

Handle(r) == tlAllHandler(r) \/ wuganHandler(r)
Request(r) == GetGlobalSlotStore(r) \/ Handle(r)

Next == Publish \/ Settle \/ Crash \/ Update \/ \E r \in Requests : Request(r)

Spec == Init /\ [][Next]_vars
(* The goroutine runs on, and a handler that began ends. *)
FairSpec == Spec /\ WF_vars(Update) /\ \A r \in Requests : WF_vars(Handle(r))
-----------------------------------------------------------------------------
(* Properties. *)

(* A handler that finds an app store finds a slot store: updateApps sets   *)
(* the slots first, and lifeHandler asks for the apps first.               *)
SlotsBeforeApps == gAppStore # Nil => gSlotStore # Nil

(* What a handler reads in a slot is never older than one round: a number  *)
(* cached by GetPreNum comes from the app store in use or the one before,  *)
(* and a slot the table has open is closed only if the app was off in one  *)
(* of these two (GenBrothers asks the store of the round before).          *)
Recent(s) == {apps \in {gAppStore, lastApps} \ {Nil} : AppId(s) \in DOMAIN apps}
AtMostOneRoundOld == gSlotStore # Nil => \A s \in DOMAIN heap[gSlotStore] :
  LET slot == heap[gSlotStore][s] IN
  /\ slot.preNum # Nil => \E apps \in Recent(s) : apps[AppId(s)].PreNum = slot.preNum
  /\ slot.SlotSwitch # slot.given => \E apps \in Recent(s) : apps[AppId(s)].AppSwitch = 2

(* Whatever was lost, torn or half fetched on the way, once the tables and *)
(* the network are quiet the program serves the tables: every app and slot *)
(* is there, slots are open and brothers linked as the tables say, the     *)
(* first slot of an app that is off is closed, no number is stale, and the *)
(* v3 configuration lists the slots that are open.                         *)
Present == {a \in Apps : app[a] # Nil}
ServesTables ==
  /\ gSlotStore # Nil /\ gAppStore = [a \in Present |-> app[a]]
  /\ DOMAIN heap[gSlotStore] = Slots
  /\ \A s \in Slots :
       LET slot == heap[gSlotStore][s]
           a    == AppId(s)
       IN  /\ slotSwitch[s] = 2 => slot.SlotSwitch = 2
           /\ (slotSwitch[s] = 1 /\ (a \in Present => app[a].AppSwitch = 1)) => slot.SlotSwitch = 1
           /\ (a \in Present /\ app[a].AppSwitch = 2 /\ s = SlotsOf[a][1]) => slot.SlotSwitch = 2
           /\ slot.preNum # Nil => a \in Present /\ slot.preNum = app[a].PreNum
           /\ slot.brothers = IF a \in Present /\ s \notin offlineSlots
                                THEN ToSet(SlotsOf[a]) \ (offlineSlots \cup {s}) ELSE {}
  /\ \A a \in Present : Manager[a] # Nil =>
       LET on == {s \in ToSet(SlotsOf[a]) : slotSwitch[s] = 1} IN
       Manager[a] \subseteq on /\ (app[a].AppSwitch = 1 => Manager[a] = on)
Settles == <>(settled = "yes") => <>[]ServesTables

(* GetAllSlotInApp switches the slots of an app that is off to 2 in the    *)
(* loop over all of them, so the answer of tlAllHandler for such an app    *)
(* has no slot that is open (AppSwitch: 1 on, 2 off).                      *)
ClosedAppAnswersClosed == \A r \in Requests : \A s \in Slots :
  took[r] # Nil /\ SlotsInApp(heap[took[r]], s, gAppStore) # {} /\ gAppStore[AppId(s)].AppSwitch = 2 =>
    \A t \in SlotsInApp(heap[took[r]], s, gAppStore) :
      GetAllSlotInApp(heap[took[r]], s, gAppStore)[t].SlotSwitch = 2
=============================================================================
