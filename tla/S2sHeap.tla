------------------------------- MODULE S2sHeap -------------------------------
(***************************************************************************)
(* The S2S callback queue (src/src/tpl/s2s_heap.go, s2s_callback.go): HTTP *)
(* handlers push callbacks into a heap ordered by launch time while one    *)
(* goroutine, Serve, pops the earliest, calls it, and pushes it back with  *)
(* a later launch time when the call fails.                                *)
(*                                                                         *)
(* Time is counted in ticks.  A handler whose slot is unknown or closed    *)
(* or has no callback never makes an item, so Items are those that pass.   *)
(***************************************************************************)
EXTENDS BinaryHeap, FiniteSets

CONSTANTS Items,      \* accepted callbacks
          NoItem,     \* nil
          Retry,      \* the 15 seconds between launch times
          MaxArrival, \* last time a callback arrives (a bound)
          MaxTime     \* time stops here (a bound past every launch time)

MaxFail == 3  \* cbHeap.Push declines items that failed more often

ASSUME S2sHeapAssumption ==
    /\ NoItem \notin Items
    /\ Retry \in Nat /\ MaxArrival \in Nat /\ MaxTime \in Nat
    /\ MaxArrival + (MaxFail + 1) * Retry <= MaxTime

VARIABLES
    heap,    \* heapWrapper.h
    launch,  \* cbItem.LaunchTime of each item
    fails,   \* cbItem.FailCount
    stage,   \* where each item is
    item,    \* the local variable of Serve
    serve,   \* the point Serve has reached
    now,     \* its local time
    clock    \* time.Now()

queueVars == <<heap, launch, fails, stage, item, serve, now, clock>>

Stages == {"none", "made", "queued", "serving", "delivered", "dropped"}
Points == {"outer", "sleep", "pop", "call", "wait", "push", "inner"}

QueueTypeOK ==
    /\ heap \in Seq(Items)
    /\ launch \in [Items -> 0..MaxTime]
    /\ fails \in [Items -> 0..(MaxFail + 1)]
    /\ stage \in [Items -> Stages]
    /\ item \in Items \cup {NoItem}
    /\ serve \in Points
    /\ now \in 0..MaxTime
    /\ clock \in 0..MaxTime

QueueInit ==
    /\ heap = <<>>
    /\ launch = [i \in Items |-> 0]
    /\ fails = [i \in Items |-> 0]
    /\ stage = [i \in Items |-> "none"]
    /\ item = NoItem
    /\ serve = "outer"
    /\ now = 0
    /\ clock = 0

Move(i, s) == stage' = [stage EXCEPT ![i] = s]

Tick ==
    /\ clock < MaxTime
    /\ clock' = clock + 1
    /\ UNCHANGED <<heap, launch, fails, stage, item, serve, now>>

-----------------------------------------------------------------------------
(* The handler S2sCallback: the launch time is read before the lock.       *)

NewCbItem(i) ==
    /\ stage[i] = "none"
    /\ clock <= MaxArrival
    /\ launch' = [launch EXCEPT ![i] = clock]
    /\ Move(i, "made")
    /\ UNCHANGED <<heap, fails, item, serve, now, clock>>

\* cbHeap.Push with ">= 3" for "> 3".
PushThrice(i) ==
    LET accepted == fails[i] < MaxFail
    IN  /\ heap' = heapPush(heap, launch, i, accepted)
        /\ Move(i, IF accepted THEN "queued" ELSE "dropped")

\* heap.Push without up.
PushUnordered(i) ==
    LET accepted == fails[i] <= MaxFail
    IN  /\ heap' = IF accepted THEN Append(heap, i) ELSE heap
        /\ Move(i, IF accepted THEN "queued" ELSE "dropped")

\* heapWrapper.Push of an item, with cbHeap.Push.
Push(i) ==
    LET accepted == fails[i] <= MaxFail
    IN  /\ heap' = heapPush(heap, launch, i, accepted)
        /\ Move(i, IF accepted THEN "queued" ELSE "dropped")

S2sCallback(i) ==
    /\ stage[i] = "made"
    /\ Push(i)
    /\ UNCHANGED <<launch, fails, item, serve, now, clock>>

-----------------------------------------------------------------------------
(* The goroutine Serve.                                                    *)

\* heapWrapper.Top returns the last element of the slice.
Top == IF heap = <<>> THEN NoItem ELSE heap[Len(heap)]

\* The head of the outer loop.
ServeOuter ==
    /\ serve = "outer"
    /\ item' = Top
    /\ \/ /\ Top = NoItem
          /\ serve' = "sleep"
          /\ UNCHANGED now
       \/ /\ Top # NoItem
          /\ now' = clock
          /\ serve' = IF launch[Top] > clock THEN "sleep"
                     ELSE IF launch[Top] < clock THEN "pop" ELSE "outer"
    /\ UNCHANGED <<heap, launch, fails, stage, clock>>

Wake ==
    /\ serve = "sleep"
    /\ serve' = "outer"
    /\ UNCHANGED <<heap, launch, fails, stage, item, now, clock>>

\* heapWrapper.Pop, whose heap is not empty: only Serve takes items out.
Pop ==
    /\ serve = "pop"
    /\ heap # <<>>
    /\ item' = heapTaken(heap)
    /\ heap' = heapPop(heap, launch)
    /\ Move(heapTaken(heap), "serving")
    /\ serve' = "call"
    /\ UNCHANGED <<launch, fails, now, clock>>

\* Callback counts the attempt and sets the next launch time before the GET.
Callback ==
    /\ serve = "call"
    /\ fails' = [fails EXCEPT ![item] = @ + 1]
    /\ launch' = [launch EXCEPT ![item] = @ + Retry]
    /\ serve' = "wait"
    /\ UNCHANGED <<heap, stage, item, now, clock>>

\* The GET returns a 2xx status, or another one, or an error or times out.
CallbackOk ==
    /\ serve = "wait"
    /\ Move(item, "delivered")
    /\ serve' = "inner"
    /\ UNCHANGED <<heap, launch, fails, item, now, clock>>

CallbackFailed ==
    /\ serve = "wait"
    /\ serve' = "push"
    /\ UNCHANGED <<heap, launch, fails, stage, item, now, clock>>

PushBack ==
    /\ serve = "push"
    /\ Push(item)
    /\ serve' = "inner"
    /\ UNCHANGED <<launch, fails, item, now, clock>>

\* The head of the inner loop compares with the time the outer loop has read.
ServeInner ==
    /\ serve = "inner"
    /\ item' = Top
    /\ serve' = IF Top # NoItem /\ launch[Top] < now THEN "pop" ELSE "outer"
    /\ UNCHANGED <<heap, launch, fails, stage, now, clock>>

-----------------------------------------------------------------------------
ServeQueue ==
    \/ ServeOuter \/ Wake \/ Pop \/ Callback \/ CallbackOk \/ CallbackFailed
    \/ PushBack \/ ServeInner

QueueNext ==
    \/ Tick
    \/ \E i \in Items : NewCbItem(i) \/ S2sCallback(i)
    \/ ServeQueue

QueueSpec == QueueInit /\ [][QueueNext]_queueVars

(* Time passes, Serve is a goroutine of its own whose call returns within   *)
(* its 5 s timeout, and a handler that made an item pushes it.              *)
QueueFairSpec ==
    /\ QueueSpec
    /\ WF_queueVars(Tick)
    /\ WF_queueVars(ServeQueue)
    /\ \A i \in Items : WF_queueVars(S2sCallback(i))

-----------------------------------------------------------------------------
(* Properties.                                                             *)

\* Handlers and Serve leave the heap in order and every queued item in it
\* once (s2s_heap.go:109-123), although a push that declines its item still
\* lets the library move what was there before; and Serve never pops from an
\* empty heap, which would be a panic, although Top and Pop lock separately.
HeapConsistent ==
    /\ Ordered(heap, launch)
    /\ serve = "pop" => heap # <<>>
    /\ \A j, k \in DOMAIN heap : heap[j] = heap[k] => j = k
    /\ {heap[k] : k \in DOMAIN heap} = {i \in Items : stage[i] = "queued"}

\* The queue keeps the promise of CallbackQueue: four attempts at most and
\* not one less, none after a success, and every callback ends.
PromisedState == [i \in Items |->
    CASE stage[i] \in {"none", "made"} -> "none"
      [] stage[i] \in {"queued", "serving"} -> "pending"
      [] OTHER -> stage[i]]

Queue == INSTANCE CallbackQueue WITH
    MaxAttempts <- MaxFail + 1,
    attempts <- fails,
    state <- PromisedState

KeepsPromise == Queue!Spec

\* LaunchTime is the time of the next attempt (s2s_heap.go:55, "next retry
\* time"): Serve does not go to sleep while an item is due.
NoSleepOnDue ==
    [][serve' = "sleep" => \A i \in Items : stage[i] = "queued" => launch[i] > clock]_serve
=============================================================================
