--------------------------- MODULE SampleCtrlProofs ---------------------------
(***************************************************************************)
(* Safety of the sampling controller for any number of handlers and of     *)
(* goroutine chains and any phase lengths.  None of the properties is      *)
(* inductive: what makes them so is the tie between the point a chain has  *)
(* reached and the status, the ticker, the channel and the countdown.      *)
(***************************************************************************)
EXTENDS SampleCtrl, TLAPS

\* The points at which a chain runs the ticker of its phase.
Ticking == {"make", "wait", "tick", "reset"}

\* A chain is only ever at a point its phase has, and waits at least a second
\* to be ready.
Shape ==
    \A g \in Samplers :
        /\ phase[g] = "none" <=> at[g] = "off"
        /\ at[g] \in {"make", "reset"} => phase[g] = "done"
        /\ phase[g] = "ready" => sec[g] >= 1
        /\ at[g] # "panic"

\* The status the chain g has left behind at the point it has reached.
StatusOf(g) ==
    IF phase[g] = "ready" THEN "Ready"
    ELSE IF phase[g] = "doing" THEN IF at[g] = "lock" THEN "Ready" ELSE "Doing"
    ELSE IF at[g] = "lock" THEN "Doing" ELSE "Done"

\* One chain is past readySample and the status is the one it left behind.
Owner ==
    /\ \A g, h \in Samplers : Owns(g) /\ Owns(h) => g = h
    /\ \A g \in Samplers : Owns(g) => sampleStatus = StatusOf(g)
    /\ sampleStatus # "No" => \E g \in Samplers : Owns(g)

\* The ticker and the channel live as long as the chain that made them.
Resources ==
    /\ ticker = "made" => \E g \in Samplers : Owns(g) /\ at[g] \in Ticking
    /\ reset = "made" => \E g \in Samplers :
                   phase[g] = "done" /\ at[g] \in {"wait", "tick", "reset"}

\* The countdown is positive while a loop runs that will decrement it.
Countdown ==
    /\ remainSec >= 0
    /\ \A g \in Samplers : at[g] \in Ticking \cup {"begin"} => remainSec >= 1

\* Whoever holds the read lock is in a call, and a sender holds it.
Handlers ==
    \A c \in Clients :
        /\ c \in hold => call[c] # "none"
        /\ call[c] \in {"send", "sent"} => c \in hold
        /\ call[c] = "send" => reset = "made" /\ sampleStatus = "Done"
        /\ call[c] # "panic"

IInv == TypeOK /\ Shape /\ Owner /\ Resources /\ Countdown /\ Handlers

-----------------------------------------------------------------------------
(* The controller starts in a state of the invariant.                      *)
LEMMA InitIInv == Init => IInv
<1> SUFFICES ASSUME Init PROVE IInv
  OBVIOUS
<1>1. TypeOK
  BY DEF Init, TypeOK, Statuses, Phases, Points, Calls
<1>2. Shape
  BY DEF Init, Shape
<1>3. Owner
  BY DEF Init, Owner, Owns
<1>4. Resources /\ Countdown /\ Handlers
  BY DEF Init, Resources, Countdown, Ticking, Handlers
<1> QED
  BY <1>1, <1>2, <1>3, <1>4 DEF IInv

\* A call of a handler touches neither the chains nor the phase.
LEMMA CallStep ==
    ASSUME IInv, NEW c \in Clients, callStatus(c) \/ callSwitch(c)
    PROVE  IInv'
<1> USE DEF callStatus, callSwitch, RLock, sampler, clock
<1>1. TypeOK'
  BY DEF IInv, TypeOK, Calls
<1>2. (Shape /\ Owner /\ Resources /\ Countdown)'
  BY DEF IInv, Shape, Owner, Owns, On, Resources, Countdown, StatusOf
<1>3. Handlers'
  BY DEF IInv, TypeOK, Handlers
<1> QED
  BY <1>1, <1>2, <1>3 DEF IInv

\* What a handler does inside the read lock; only an idle controller gains a
\* chain, and that chain waits for the lock.
LEMMA ClientPreserves ==
    ASSUME IInv, NEW c \in Clients, ClientStep(c)
    PROVE  IInv'
<1> USE DEF sampler, clock, IInv
<1>1. CASE SampleSwitch(c) \/ getSampleStatusWait(c) \/ getSampleStatusDone(c)
  <2> USE DEF SampleSwitch, getSampleStatusWait, getSampleStatusDone, InStatus, RUnlock
  <2>1. TypeOK'
    BY <1>1 DEF TypeOK, Calls
  <2>2. (Shape /\ Owner /\ Resources /\ Countdown)'
    BY <1>1 DEF Shape, Owner, Owns, On, StatusOf, Resources, Countdown, Ticking
  <2>3. Handlers'
    BY <1>1 DEF TypeOK, Handlers
  <2> QED
    BY <2>1, <2>2, <2>3
<1>2. CASE resetSample(c)
  <2> USE DEF resetSample, InStatus
  <2>1. TypeOK'
    BY <1>2 DEF TypeOK, Calls
  <2>2. (Shape /\ Owner /\ Resources /\ Countdown)'
    BY <1>2 DEF Shape, Owner, Owns, On, StatusOf, Resources, Countdown, Ticking
  <2>3. Handlers'
    BY <1>2 DEF TypeOK, Handlers
  <2> QED
    BY <2>1, <2>2, <2>3
<1>3. CASE getSampleStatusNo(c)
  <2> USE DEF getSampleStatusNo, InStatus, RUnlock
  <2>1. PICK g \in Idle, s \in ReadySecs : goReadySample(g, s)
    BY <1>3
  <2> USE DEF goReadySample, Idle
  <2>2. TypeOK'
    BY <1>3, <2>1, SampleCtrlAssumption DEF TypeOK, Calls, Phases, Points
  <2>3. \A h \in Samplers : h # g => phase'[h] = phase[h] /\ at'[h] = at[h]
    BY <2>1 DEF TypeOK
  <2>4. phase'[g] = "ready" /\ at'[g] = "lock" /\ at[g] = "off"
    BY <2>1 DEF TypeOK, Shape
  <2>5. Shape'
    BY <2>1, <2>3, <2>4, SampleCtrlAssumption DEF Shape, TypeOK
  <2>6. \A h \in Samplers : Owns(h)' <=> Owns(h)
    BY <2>1, <2>3, <2>4 DEF Owns, On
  <2>7. Owner'
    BY <1>3, <2>1, <2>3, <2>4, <2>6 DEF Owner, StatusOf, Owns, On
  <2>8. (Resources /\ Countdown)'
    BY <1>3, <2>1, <2>3, <2>4, <2>6 DEF Resources, Countdown, Ticking
  <2>9. Handlers'
    BY <1>3 DEF TypeOK, Handlers
  <2> QED
    BY <2>2, <2>5, <2>7, <2>8, <2>9
<1> QED
  BY <1>1, <1>2, <1>3 DEF ClientStep

\* A goroutine that asks for the lock, and a tick of the clock, move nothing
\* the invariant is about.
LEMMA WaitPreserves ==
    ASSUME IInv, Tick \/ \E g \in Samplers : Announce(g)
    PROVE  IInv'
<1> USE DEF Tick, Announce, sampler, clock, IInv
<1>1. TypeOK'
  BY DEF TypeOK
<1>2. (Shape /\ Owner /\ Resources /\ Countdown)'
  BY DEF Shape, Owner, Owns, On, StatusOf, Resources, Countdown, Ticking
<1>3. Handlers'
  BY DEF Handlers
<1> QED
  BY <1>1, <1>2, <1>3

\* What a step of the chain g does to the program counters of all chains.
LEMMA GotoFrame ==
    ASSUME TypeOK, NEW g \in Samplers, NEW ph \in Phases, NEW pt \in Points,
           Goto(g, ph, pt)
    PROVE  /\ phase' \in [Samplers -> Phases] /\ at' \in [Samplers -> Points]
           /\ sec' = sec
           /\ phase'[g] = ph /\ at'[g] = pt
           /\ \A h \in Samplers : h # g =>
                /\ phase'[h] = phase[h] /\ at'[h] = at[h]
                /\ Owns(h)' <=> Owns(h)
                /\ StatusOf(h)' = StatusOf(h)
<1>1. phase' = [phase EXCEPT ![g] = ph] /\ at' = [at EXCEPT ![g] = pt] /\ sec' = sec
  BY DEF Goto
<1>2. /\ phase' \in [Samplers -> Phases] /\ at' \in [Samplers -> Points]
      /\ phase'[g] = ph /\ at'[g] = pt
      /\ \A h \in Samplers : h # g => phase'[h] = phase[h] /\ at'[h] = at[h]
  BY <1>1 DEF TypeOK
<1> QED
  BY <1>1, <1>2 DEF Owns, On, StatusOf

\* The locked heads of the three functions: a chain passes only from the
\* status before its phase, so the one that passes is the owner.
LEMMA StartPreserves ==
    ASSUME IInv, NEW g \in Samplers, readySample(g) \/ doSample(g) \/ doneSample(g)
    PROVE  IInv'
<1> USE SampleCtrlAssumption
    DEF readySample, doSample, doneSample, Start, Locked, Unlock, clock, IInv
<1>1. PICK ph \in {"ready", "doing", "done"} : On(g, ph, "lock")
  OBVIOUS
<1>2. writer' = NoSampler /\ hold' = {c \in Clients : call[c] # "none"}
      /\ hold = {} /\ call' = call /\ reset' = reset
      /\ ticker' = ticker /\ tick' = tick
  OBVIOUS
<1>3. CASE Goto(g, "none", "off") /\ UNCHANGED <<sampleStatus, remainSec>>
           /\ (ph = "ready" => sampleStatus # "No")
           /\ (ph = "doing" => sampleStatus # "Ready")
           /\ (ph = "done" => sampleStatus # "Doing")
  <2>1. ~Owns(g) /\ ~Owns(g)'
    BY <1>1, <1>3, GotoFrame DEF Owner, Owns, On, StatusOf, Phases, Points
  <2>2. TypeOK'
    BY <1>2, <1>3, GotoFrame DEF TypeOK, Phases, Points
  <2>3. Shape'
    BY <1>3, GotoFrame DEF Shape, Phases, Points
  <2>4. Owner'
    BY <1>3, <2>1, GotoFrame DEF Owner, Phases, Points
  <2>5. (Resources /\ Countdown)'
    BY <1>1, <1>2, <1>3, <2>1, GotoFrame
    DEF Resources, Countdown, Ticking, Phases, Points, On
  <2>6. Handlers'
    BY <1>2, <1>3 DEF Handlers
  <2> QED
    BY <2>2, <2>3, <2>4, <2>5, <2>6
<1>4. CASE /\ Goto(g, ph, "begin") /\ remainSec' \in Nat \ {0}
           /\ \/ ph = "ready" /\ sampleStatus = "No" /\ sampleStatus' = "Ready"
              \/ ph = "doing" /\ sampleStatus = "Ready" /\ sampleStatus' = "Doing"
              \/ ph = "done" /\ sampleStatus = "Doing" /\ sampleStatus' = "Done"
  <2> USE GotoFrame DEF Phases, Points
  <2>1. phase'[g] = ph /\ at'[g] = "begin"
    BY <1>4
  <2>2. Owns(g)' /\ StatusOf(g)' = sampleStatus'
    BY <1>4, <2>1 DEF Owns, On, StatusOf
  <2>3. \A h \in Samplers : Owns(h) => h = g
    BY <1>1, <1>4 DEF Owner, Owns, On, StatusOf
  <2>4. TypeOK'
    BY <1>2, <1>4 DEF TypeOK, Statuses
  <2>5. Shape'
    BY <1>1, <1>4, <2>1 DEF Shape, On
  <2>6. Owner'
    BY <1>4, <2>2, <2>3 DEF Owner
  <2>7. ticker = "nil" /\ reset = "nil"
    BY <1>1, <2>3 DEF Resources, Owns, On, Ticking, TypeOK
  <2>8. (Resources /\ Countdown)'
    BY <1>2, <1>4, <2>1, <2>7 DEF Resources, Countdown, TypeOK
  <2>9. Handlers'
    BY <1>2, <2>7 DEF Handlers
  <2> QED
    BY <2>4, <2>5, <2>6, <2>8, <2>9
<1>5. sec[g] \in Nat /\ (ph = "ready" => sec[g] \in Nat \ {0})
  BY <1>1 DEF On, TypeOK, Shape
<1>6. Goto(g, "none", "off") \/ Goto(g, ph, "begin")
  BY <1>1 DEF On
<1> QED
  BY <1>1, <1>3, <1>4, <1>5 DEF On

\* The owner alone moves: what is left of Owner when its chain goes from point
\* to point of its phases and leaves the status alone.
LEMMA OwnerMoves ==
    ASSUME IInv, NEW g \in Samplers, Owns(g),
           NEW ph \in Phases \ {"none"}, NEW pt \in Points \ {"off", "panic"},
           Goto(g, ph, pt), sampleStatus' = sampleStatus,
           Owns(g)', StatusOf(g)' = StatusOf(g),
           pt \in {"make", "reset"} => ph = "done",
           ph = "ready" => phase[g] = "ready"
    PROVE  /\ phase' \in [Samplers -> Phases] /\ at' \in [Samplers -> Points]
           /\ sec' = sec /\ phase'[g] = ph /\ at'[g] = pt
           /\ \A h \in Samplers : h # g => ~Owns(h) /\ ~Owns(h)'
                                          /\ phase'[h] = phase[h] /\ at'[h] = at[h]
           /\ Shape' /\ Owner'
<1> USE GotoFrame DEF IInv
<1>1. \A h \in Samplers : h # g => ~Owns(h) /\ ~Owns(h)'
  BY DEF Owner
<1>2. Shape'
  BY DEF Shape
<1>3. Owner'
  BY <1>1 DEF Owner
<1> QED
  BY <1>1, <1>2, <1>3

(* A spawned goroutine begins: its assertions hold and it makes its ticker.*)
LEMMA BeginPreserves ==
    ASSUME IInv, NEW g \in Samplers, NEW ph \in {"ready", "doing", "done"}, begin(g, ph)
    PROVE  IInv'
<1> USE DEF IInv, begin, On
<1>1. Owns(g)
  BY DEF Owns
<1>2. ticker = "nil" /\ reset = "nil"
  BY <1>1 DEF Owner, Resources, Ticking, TypeOK, Owns
<1>3. Goto(g, ph, IF ph = "done" THEN "make" ELSE "wait")
  BY <1>2
<1>4. Owns(g)' /\ StatusOf(g)' = StatusOf(g)
  BY <1>3, GotoFrame DEF Owns, StatusOf, Phases, Points
<1>5. /\ phase' \in [Samplers -> Phases] /\ at' \in [Samplers -> Points]
      /\ sec' = sec /\ phase'[g] = ph /\ at'[g] \in {"make", "wait"}
      /\ \A h \in Samplers : h # g => phase'[h] = phase[h] /\ at'[h] = at[h]
      /\ Shape' /\ Owner'
  BY <1>1, <1>3, <1>4, OwnerMoves DEF Phases, Points
<1>6. TypeOK'
  BY <1>2, <1>5 DEF TypeOK
<1>7. (Resources /\ Countdown)'
  BY <1>2, <1>4, <1>5 DEF Resources, Countdown, Ticking
<1>8. Handlers'
  BY DEF Handlers
<1> QED
  BY <1>5, <1>6, <1>7, <1>8

(* doneSample makes the reset channel outside the lock.                    *)
LEMMA MakeResetPreserves ==
    ASSUME IInv, NEW g \in Samplers, makeReset(g)
    PROVE  IInv'
<1> USE DEF IInv, makeReset, On, clock
<1>1. Owns(g)
  BY DEF Owns
<1>2. Owns(g)' /\ StatusOf(g)' = StatusOf(g)
  BY GotoFrame DEF Owns, StatusOf, Phases, Points
<1>3. /\ phase' \in [Samplers -> Phases] /\ at' \in [Samplers -> Points]
      /\ sec' = sec /\ phase'[g] = "done" /\ at'[g] = "wait"
      /\ \A h \in Samplers : h # g => phase'[h] = phase[h] /\ at'[h] = at[h]
      /\ Shape' /\ Owner'
  BY <1>1, <1>2, OwnerMoves DEF Phases, Points
<1>4. TypeOK'
  BY <1>3 DEF TypeOK
<1>5. (Resources /\ Countdown)'
  BY <1>2, <1>3 DEF Resources, Countdown, Ticking
<1>6. Handlers'
  BY DEF Handlers
<1> QED
  BY <1>3, <1>4, <1>5, <1>6

\* The steps of a loop: a tick or a reset is received, or the lock is taken to
\* count it, and the chain stays in its phase.
LEMMA LoopPreserves ==
    ASSUME IInv, NEW g \in Samplers, receiveTick(g) \/ receiveReset(g) \/ restart(g)
    PROVE  IInv'
<1> USE SampleCtrlAssumption
    DEF IInv, receiveTick, receiveReset, restart, On, clock, Locked, Unlock
<1>1. Owns(g) /\ at[g] \in Ticking
  BY DEF Owns, Shape, Ticking
<1>2. PICK pt \in {"wait", "tick", "reset"} :
        /\ Goto(g, phase[g], pt)
        /\ pt = "reset" \/ at[g] = "reset" => phase[g] = "done"
  BY DEF TypeOK
<1>3. phase[g] \in Phases \ {"none"}
  BY <1>1 DEF TypeOK, Owns
<1>4. Owns(g)' /\ StatusOf(g)' = StatusOf(g)
  BY <1>1, <1>2, <1>3, GotoFrame DEF Owns, StatusOf, Points, Ticking
<1>5. /\ phase' \in [Samplers -> Phases] /\ at' \in [Samplers -> Points]
      /\ sec' = sec /\ phase'[g] = phase[g] /\ at'[g] = pt
      /\ \A h \in Samplers : h # g =>
            ~Owns(h) /\ ~Owns(h)' /\ phase'[h] = phase[h] /\ at'[h] = at[h]
      /\ Shape' /\ Owner'
  BY <1>1, <1>2, <1>3, <1>4, OwnerMoves DEF Points
<1>6. TypeOK'
  BY <1>5 DEF TypeOK, Calls
<1>7. Resources'
  BY <1>1, <1>2, <1>4, <1>5 DEF Resources, Ticking, Owns
<1>8. Countdown'
  BY <1>1, <1>5 DEF Countdown, Ticking
<1>9. Handlers'
  BY DEF Handlers, TypeOK
<1> QED
  BY <1>5, <1>6, <1>7, <1>8, <1>9

(* A tick of readySample or doSample counts down; the last starts the next.*)
LEMMA CountDownPreserves ==
    ASSUME IInv, NEW g \in Samplers,
           countDown(g, "ready", "doing") \/ countDown(g, "doing", "done")
    PROVE  IInv'
<1> USE DEF IInv, countDown, On, clock, Locked, Unlock
<1>1. PICK ph, next \in Phases :
        /\ <<ph, next>> \in {<<"ready", "doing">>, <<"doing", "done">>}
        /\ countDown(g, ph, next)
  BY DEF Phases
<1> HIDE DEF countDown
<1>2. /\ phase[g] = ph /\ at[g] = "tick" /\ remainSec' = remainSec - 1
      /\ hold = {} /\ hold' = {c \in Clients : call[c] # "none"}
      /\ writer' = NoSampler /\ sampleStatus' = sampleStatus
      /\ reset' = reset /\ call' = call /\ Owns(g)
  BY <1>1 DEF countDown, Owns
<1>3. reset = "nil"
  BY <1>1, <1>2 DEF Resources, Owner, Owns, TypeOK
<1>4. CASE remainSec' <= 0 /\ stopTicker /\ Goto(g, next, "lock")
  <2>1. Owns(g)' /\ StatusOf(g)' = StatusOf(g)
    BY <1>1, <1>2, <1>4, GotoFrame DEF Owns, StatusOf, Points
  <2>2. /\ phase' \in [Samplers -> Phases] /\ at' \in [Samplers -> Points]
        /\ sec' = sec /\ phase'[g] = next /\ at'[g] = "lock"
        /\ \A h \in Samplers : h # g =>
              ~Owns(h) /\ ~Owns(h)' /\ phase'[h] = phase[h] /\ at'[h] = at[h]
        /\ Shape' /\ Owner'
    BY <1>1, <1>2, <1>4, <2>1, OwnerMoves DEF Phases, Points
  <2>3. TypeOK'
    BY <1>2, <1>4, <2>2 DEF TypeOK, stopTicker
  <2>4. Resources' /\ Handlers'
    BY <1>2, <1>3, <1>4 DEF Resources, Handlers, stopTicker
  <2>5. remainSec' >= 0
    BY <1>2 DEF Countdown, Ticking, TypeOK
  <2>6. \A h \in Samplers : at'[h] \notin Ticking \cup {"begin"}
    BY <1>2, <2>2 DEF Ticking, Owns, Shape
  <2> QED
    BY <2>2, <2>3, <2>4, <2>5, <2>6 DEF Countdown
<1>5. CASE remainSec' > 0 /\ UNCHANGED clock /\ Goto(g, ph, "wait")
  <2>1. Owns(g)' /\ StatusOf(g)' = StatusOf(g)
    BY <1>1, <1>2, <1>5, GotoFrame DEF Owns, StatusOf, Points
  <2>2. /\ phase' \in [Samplers -> Phases] /\ at' \in [Samplers -> Points]
        /\ sec' = sec /\ phase'[g] = ph /\ at'[g] = "wait"
        /\ \A h \in Samplers : h # g =>
              ~Owns(h) /\ ~Owns(h)' /\ phase'[h] = phase[h] /\ at'[h] = at[h]
        /\ Shape' /\ Owner'
    BY <1>1, <1>2, <1>5, <2>1, OwnerMoves DEF Phases, Points
  <2>3. TypeOK'
    BY <1>2, <1>5, <2>2 DEF TypeOK
  <2>4. Resources' /\ Handlers'
    BY <1>2, <1>3, <1>5, <2>1, <2>2 DEF Resources, Handlers, Ticking
  <2>5. Countdown'
    BY <1>2, <1>5, <2>3 DEF Countdown, TypeOK
  <2> QED
    BY <2>2, <2>3, <2>4, <2>5
<1> QED
  BY <1>1, <1>4, <1>5 DEF countDown

\* The lock keeps every sender out while the last tick closes the channel.
LEMMA DoneTickPreserves ==
    ASSUME IInv, NEW g \in Samplers, doneTick(g)
    PROVE  IInv'
<1> USE DEF IInv, On, clock, Locked, Unlock
<1>1. /\ phase[g] = "done" /\ at[g] = "tick" /\ remainSec' = remainSec - 1
      /\ hold = {} /\ hold' = {c \in Clients : call[c] # "none"}
      /\ writer' = NoSampler /\ Owns(g)
  BY DEF doneTick, Owns
<1>2. \A c \in Clients : call[c] \notin {"send", "sent", "panic"}
  BY <1>1 DEF Handlers
<1>3. CASE /\ remainSec' <= 0 /\ reset' = "nil" /\ sampleStatus' = "No"
           /\ stopTicker /\ Goto(g, "none", "off")
           /\ call' = [c \in Clients |->
                         IF call[c] = "send" THEN "panic" ELSE call[c]]
  <2>1. /\ phase' \in [Samplers -> Phases] /\ at' \in [Samplers -> Points]
        /\ sec' = sec /\ phase'[g] = "none" /\ at'[g] = "off"
        /\ \A h \in Samplers : h # g => /\ phase'[h] = phase[h] /\ at'[h] = at[h]
                                         /\ ~Owns(h) /\ ~Owns(h)'
        /\ ~Owns(g)'
    BY <1>1, <1>3, GotoFrame DEF Phases, Points, Owner, Owns
  <2>2. call' = call
    BY <1>2, <1>3 DEF TypeOK
  <2>3. TypeOK'
    BY <1>1, <1>3, <2>1, <2>2 DEF TypeOK, stopTicker, Statuses
  <2>4. Shape' /\ Owner'
    BY <1>3, <2>1 DEF Shape, Owner
  <2>5. Resources' /\ Handlers'
    BY <1>1, <1>2, <1>3, <2>2 DEF Resources, Handlers, stopTicker
  <2>6. remainSec' >= 0
    BY <1>1 DEF Countdown, Ticking, TypeOK
  <2>7. \A h \in Samplers : at'[h] \notin Ticking \cup {"begin"}
    BY <2>1 DEF Ticking, Owns, Shape
  <2> QED
    BY <2>3, <2>4, <2>5, <2>6, <2>7 DEF Countdown
<1>4. CASE /\ remainSec' > 0 /\ Goto(g, "done", "wait")
           /\ UNCHANGED <<sampleStatus, clock, reset, call>>
  <2>1. Owns(g)' /\ StatusOf(g)' = StatusOf(g)
    BY <1>1, <1>4, GotoFrame DEF Owns, StatusOf, Phases, Points
  <2>2. /\ phase' \in [Samplers -> Phases] /\ at' \in [Samplers -> Points]
        /\ sec' = sec /\ phase'[g] = "done" /\ at'[g] = "wait"
        /\ \A h \in Samplers : h # g =>
              ~Owns(h) /\ ~Owns(h)' /\ phase'[h] = phase[h] /\ at'[h] = at[h]
        /\ Shape' /\ Owner'
    BY <1>1, <1>4, <2>1, OwnerMoves DEF Phases, Points
  <2>3. TypeOK'
    BY <1>1, <1>4, <2>2 DEF TypeOK
  <2>4. Resources' /\ Handlers'
    BY <1>1, <1>2, <1>4, <2>1, <2>2 DEF Resources, Handlers, Ticking
  <2>5. Countdown'
    BY <1>1, <1>4, <2>3 DEF Countdown, TypeOK
  <2> QED
    BY <2>2, <2>3, <2>4, <2>5
<1> QED
  BY <1>3, <1>4 DEF doneTick

(* Every step of a sampler keeps the invariant.                            *)
LEMMA SamplerPreserves ==
    ASSUME IInv, NEW g \in Samplers, SamplerStep(g)
    PROVE  IInv'
BY StartPreserves, BeginPreserves, MakeResetPreserves, LoopPreserves,
   CountDownPreserves, DoneTickPreserves
DEF SamplerStep

(* A step that changes nothing keeps the invariant.                        *)
LEMMA StutterPreserves == IInv /\ UNCHANGED vars => IInv'
BY DEF vars, IInv, TypeOK, Shape, Owner, Owns, On, StatusOf, Resources, Countdown,
       Handlers, Ticking

-----------------------------------------------------------------------------
\* The strengthened invariant of src/src/status/ctrl.go: in every reachable
\* state at most one chain of goroutines is past readySample, and its place
\* determines the status, the ticker, the channel and the countdown.
THEOREM SampleCtrlInvariant == Spec => []IInv
<1>1. IInv /\ [Next]_vars => IInv'
  <2> SUFFICES ASSUME IInv, [Next]_vars PROVE IInv'
    OBVIOUS
  <2>1. CASE \E c \in Clients : callStatus(c) \/ callSwitch(c) \/ ClientStep(c)
    BY <2>1, CallStep, ClientPreserves
  <2>2. CASE \E g \in Samplers : Announce(g) \/ SamplerStep(g)
    BY <2>2, WaitPreserves, SamplerPreserves
  <2>3. CASE Tick
    BY <2>3, WaitPreserves
  <2>4. CASE UNCHANGED vars
    BY <2>4, StutterPreserves
  <2> QED
    BY <2>1, <2>2, <2>3, <2>4 DEF Next
<1> QED
  BY InitIInv, <1>1, PTL DEF Spec

\* The state of ctrl (src/src/status/ctrl.go:45) keeps its types.
THEOREM TypeCorrect == Spec => []TypeOK
<1>1. IInv => TypeOK
  BY DEF IInv
<1> QED
  BY <1>1, SampleCtrlInvariant, PTL

\* The FATAL assertions of ctrl.go:75,107,138,141 cannot fail and no handler is
\* sending when the channel is closed, for any number of status requests.
THEOREM NoPanicHolds == Spec => []NoPanic
<1>1. IInv => NoPanic
  BY DEF IInv, Shape, Handlers, NoPanic
<1> QED
  BY <1>1, SampleCtrlInvariant, PTL

\* A phase has exactly one goroutine that will end it, an idle controller none.
THEOREM OneSampler == Spec => []StatusHasOneSampler
<1>1. ASSUME IInv, NEW g \in Samplers, Owns(g) PROVE sampleStatus # "No"
  BY <1>1 DEF IInv, Owner, StatusOf
<1>2. IInv => StatusHasOneSampler
  BY <1>1 DEF IInv, Owner, StatusHasOneSampler, Active
<1> QED
  BY <1>2, SampleCtrlInvariant, PTL

\* Every blocked send of resetSample (ctrl.go:173) is on the open channel of the
\* running phase, under the read lock.
THEOREM SendersAreServed == Spec => []SenderHasReceiver
<1>1. IInv => SenderHasReceiver
  BY DEF IInv, Handlers, SenderHasReceiver
<1> QED
  BY <1>1, SampleCtrlInvariant, PTL

\* The wait a page shows is never negative.
THEOREM WaitsNotNegative == Spec => []WaitNotNegative
<1>1. IInv => WaitNotNegative
  BY DEF IInv, Countdown, WaitNotNegative
<1> QED
  BY <1>1, SampleCtrlInvariant, PTL

\* The phases follow one another in their order and change only while no
\* handler reads the status (ctrl.go:71,103,134,154).
THEOREM PhasesInOrder == Spec => PhaseOrder
<1> DEFINE Ordered == /\ <<sampleStatus, sampleStatus'>> \in
                             {<<"No", "Ready">>, <<"Ready", "Doing">>,
                              <<"Doing", "Done">>, <<"Done", "No">>}
                      /\ hold = {}
<1>1. ASSUME IInv, [Next]_vars, sampleStatus' # sampleStatus
      PROVE  Ordered
  <2>1. PICK g \in Samplers :
          readySample(g) \/ doSample(g) \/ doneSample(g) \/ doneTick(g)
    BY <1>1
    DEF Next, vars, callStatus, callSwitch, RLock, ClientStep, SampleSwitch,
        getSampleStatusNo, getSampleStatusWait, resetSample, getSampleStatusDone,
        Announce, Tick, SamplerStep, begin, makeReset, receiveTick, countDown,
        receiveReset, restart
  <2>2. CASE readySample(g) \/ doSample(g) \/ doneSample(g)
    BY <1>1, <2>2 DEF readySample, doSample, doneSample, Start, Locked
  <2>3. CASE doneTick(g)
    BY <1>1, <2>3 DEF doneTick, On, Locked, IInv, Owner, Owns, StatusOf
  <2> QED
    BY <2>1, <2>2, <2>3
<1>2. IInv /\ [Next]_vars => [Ordered]_sampleStatus
  BY <1>1
<1> QED
  BY <1>2, SampleCtrlInvariant, PTL DEF Spec, PhaseOrder
=============================================================================
