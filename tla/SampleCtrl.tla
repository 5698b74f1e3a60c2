----------------------------- MODULE SampleCtrl -----------------------------
(***************************************************************************)
(* The sampling controller behind GET /status (src/src/status/ctrl.go).    *)
(*                                                                         *)
(* A sampling cycle is a chain of goroutines, each of which starts the     *)
(* next: readySample counts down to the minute, doSample samples for one   *)
(* minute, doneSample keeps the result until five quiet minutes have       *)
(* passed.  HTTP handlers read the controller under its RWMutex, and a     *)
(* status request of the last phase restarts the countdown by a send on an *)
(* unbuffered channel, made while the handler still holds the read lock.   *)
(*                                                                         *)
(* A member of Samplers stands for one chain of goroutines; several may be *)
(* alive, since every status request of an idle controller starts one.     *)
(* Panic is a place a goroutine reaches, so that its absence is a claim.   *)
(***************************************************************************)
EXTENDS Integers, FiniteSets

CONSTANTS Samplers,   \* the goroutine chains that may be alive at once (a bound)
          Clients,    \* concurrent HTTP handlers
          NoSampler,  \* nobody owns the writer side of the lock
          ReadySecs,  \* the values of 60 - now.Second()
          DoingSec,   \* the 60 seconds of sampling
          DoneSec     \* the 60 * 5 seconds a result is kept

ASSUME SampleCtrlAssumption ==
    /\ NoSampler \notin Samplers
    /\ ReadySecs \subseteq Nat \ {0}
    /\ DoingSec \in Nat \ {0}
    /\ DoneSec \in Nat \ {0}

VARIABLES
    sampleStatus,  \* ctrl.sampleStatus
    remainSec,     \* ctrl.remainSec
    ticker,        \* ctrl.ticker
    tick,          \* the ticks waiting in ctrl.ticker.C, whose buffer holds one
    reset,         \* ctrl.reset, a channel without a buffer
    phase,         \* the function a chain of goroutines is in
    at,            \* and the point it has reached there
    sec,           \* the argument of its readySample
    writer,        \* the goroutine that owns the writer side of the RWMutex
    hold,          \* the handlers that hold the read lock
    call           \* what each handler is doing in the controller

sampler == <<phase, at, sec>>
clock   == <<ticker, tick>>
vars == <<sampleStatus, remainSec, ticker, tick, reset, phase, at, sec,
          writer, hold, call>>

Statuses == {"No", "Ready", "Doing", "Done"}
Phases   == {"none", "ready", "doing", "done"}
Points   == {"off", "lock", "begin", "make", "wait", "tick", "reset", "panic"}
Calls    == {"none", "status", "switch", "send", "sent", "panic"}

TypeOK ==
    /\ sampleStatus \in Statuses
    /\ remainSec \in Int
    /\ ticker \in {"nil", "made"}
    /\ tick \in {0, 1}
    /\ reset \in {"nil", "made"}
    /\ phase \in [Samplers -> Phases]
    /\ at \in [Samplers -> Points]
    /\ sec \in [Samplers -> Nat]
    /\ writer \in Samplers \cup {NoSampler}
    /\ hold \subseteq Clients
    /\ call \in [Clients -> Calls]

Init ==
    /\ sampleStatus = "No"
    /\ remainSec = 0
    /\ ticker = "nil"
    /\ tick = 0
    /\ reset = "nil"
    /\ phase = [g \in Samplers |-> "none"]
    /\ at = [g \in Samplers |-> "off"]
    /\ sec = [g \in Samplers |-> 0]
    /\ writer = NoSampler
    /\ hold = {}
    /\ call = [c \in Clients |-> "none"]

-----------------------------------------------------------------------------
(* sync.RWMutex: a writer first takes the writer side, which turns new     *)
(* readers away, then waits for the readers inside.  Its Unlock lets every *)
(* reader that was turned away in.                                         *)

Announce(g) ==
    /\ at[g] \in {"lock", "tick", "reset"}
    /\ writer = NoSampler
    /\ writer' = g
    /\ UNCHANGED <<sampleStatus, remainSec, clock, reset, sampler, hold, call>>

Locked(g) == writer = g /\ hold = {}

Unlock ==
    /\ writer' = NoSampler
    /\ hold' = {c \in Clients : call[c] # "none"}

RLock(c, what) ==
    /\ call[c] = "none"
    /\ call' = [call EXCEPT ![c] = what]
    /\ hold' = IF writer = NoSampler THEN hold \cup {c} ELSE hold
    /\ UNCHANGED <<sampleStatus, remainSec, clock, reset, sampler, writer>>

RUnlock(c) ==
    /\ hold' = hold \ {c}
    /\ call' = [call EXCEPT ![c] = "none"]

-----------------------------------------------------------------------------
(* The HTTP handlers.                                                      *)

Idle == {g \in Samplers : phase[g] = "none"}

\* Every status call in flight may start a chain, so calls are bounded by
\* the chains left in Samplers.
callStatus(c) ==
    /\ Cardinality({d \in Clients : call[d] = "status"}) < Cardinality(Idle)
    /\ RLock(c, "status")

callSwitch(c) == RLock(c, "switch")

SampleSwitch(c) ==
    /\ c \in hold
    /\ call[c] = "switch"
    /\ RUnlock(c)
    /\ UNCHANGED <<sampleStatus, remainSec, clock, reset, sampler, writer>>

InStatus(c, s) == c \in hold /\ call[c] = "status" /\ sampleStatus \in s

\* now.Second() - 60 for 60 - now.Second().
goReadySampleNegative(g, s) ==
    /\ phase' = [phase EXCEPT ![g] = "ready"]
    /\ at' = [at EXCEPT ![g] = "lock"]
    /\ sec' = [sec EXCEPT ![g] = -s]

goReadySample(g, s) ==
    /\ phase' = [phase EXCEPT ![g] = "ready"]
    /\ at' = [at EXCEPT ![g] = "lock"]
    /\ sec' = [sec EXCEPT ![g] = s]

getSampleStatusNo(c) ==
    /\ InStatus(c, {"No"})
    /\ \E g \in Idle, s \in ReadySecs : goReadySample(g, s)
    /\ RUnlock(c)
    /\ UNCHANGED <<sampleStatus, remainSec, clock, reset, writer>>

\* Only the page to render depends on the phase.
getSampleStatusWait(c) ==
    /\ InStatus(c, {"Ready", "Doing"})
    /\ RUnlock(c)
    /\ UNCHANGED <<sampleStatus, remainSec, clock, reset, sampler, writer>>

\* A handler that returns before it sends, so without the read lock.
resetSampleUnlocked(c) ==
    /\ InStatus(c, {"Done"})
    /\ call' = [call EXCEPT ![c] = IF reset = "made" THEN "send" ELSE "sent"]
    /\ hold' = hold \ {c}
    /\ UNCHANGED <<sampleStatus, remainSec, clock, reset, sampler, writer>>

resetSample(c) ==
    /\ InStatus(c, {"Done"})
    /\ call' = [call EXCEPT ![c] = IF reset = "made" THEN "send" ELSE "sent"]
    /\ UNCHANGED <<sampleStatus, remainSec, clock, reset, sampler, writer, hold>>

getSampleStatusDone(c) ==
    /\ call[c] = "sent"
    /\ RUnlock(c)
    /\ UNCHANGED <<sampleStatus, remainSec, clock, reset, sampler, writer>>

-----------------------------------------------------------------------------
(* The goroutines of a cycle.                                              *)

On(g, ph, pt) == phase[g] = ph /\ at[g] = pt

Goto(g, ph, pt) ==
    /\ phase' = [phase EXCEPT ![g] = ph]
    /\ at' = [at EXCEPT ![g] = pt]
    /\ UNCHANGED sec

\* The locked part of readySample, doSample and doneSample: the phase starts
\* only from the status before it, and its goroutine is spawned.
Start(g, ph, from, to, s) ==
    /\ On(g, ph, "lock")
    /\ Locked(g)
    /\ \/ /\ sampleStatus = from
          /\ sampleStatus' = to
          /\ remainSec' = s
          /\ Goto(g, ph, "begin")
       \/ /\ sampleStatus # from
          /\ Goto(g, "none", "off")
          /\ UNCHANGED <<sampleStatus, remainSec>>
    /\ Unlock
    /\ UNCHANGED <<clock, reset, call>>

\* readySample without its check of the status.
readySampleAnyStatus(g) == Start(g, "ready", sampleStatus, "Ready", sec[g])

\* readySample whose early return leaves the lock taken.
readySampleKeepsLock(g) ==
    \/ sampleStatus = "No" /\ Start(g, "ready", "No", "Ready", sec[g])
    \/ /\ On(g, "ready", "lock")
       /\ Locked(g)
       /\ sampleStatus # "No"
       /\ Goto(g, "none", "off")
       /\ UNCHANGED <<sampleStatus, remainSec, clock, reset, writer, hold, call>>

readySample(g) == Start(g, "ready", "No", "Ready", sec[g])

doSample(g) == Start(g, "doing", "Ready", "Doing", DoingSec)

\* doneSample that only accepts the status of a fresh cycle.
doneSampleWrongStatus(g) == Start(g, "done", "Ready", "Done", DoneSec)

doneSample(g) == Start(g, "done", "Doing", "Done", DoneSec)

\* The assertions at the head of a spawned goroutine, then its ticker.
begin(g, ph) ==
    LET fatal == ticker # "nil" \/ (ph = "done" /\ reset # "nil")
    IN  /\ On(g, ph, "begin")
        /\ ticker' = "made"
        /\ tick' = IF fatal THEN tick ELSE 0
        /\ Goto(g, ph, IF fatal THEN "panic"
                       ELSE IF ph = "done" THEN "make" ELSE "wait")
        /\ UNCHANGED <<sampleStatus, remainSec, reset, writer, hold, call>>

\* c.reset is made outside the lock, after the status has become Done.
makeReset(g) ==
    /\ On(g, "done", "make")
    /\ reset' = "made"
    /\ Goto(g, "done", "wait")
    /\ UNCHANGED <<sampleStatus, remainSec, clock, writer, hold, call>>

Tick ==
    /\ ticker = "made"
    /\ tick = 0
    /\ tick' = 1
    /\ UNCHANGED <<sampleStatus, remainSec, ticker, reset, sampler, writer,
                   hold, call>>

receiveTick(g) ==
    /\ at[g] = "wait"
    /\ tick = 1
    /\ tick' = 0
    /\ Goto(g, phase[g], "tick")
    /\ UNCHANGED <<sampleStatus, remainSec, ticker, reset, writer, hold, call>>

stopTicker == ticker' = "nil" /\ tick' = 0

\* A tick of readySample or doSample; the last one starts the next function.
countDown(g, ph, next) ==
    /\ On(g, ph, "tick")
    /\ Locked(g)
    /\ remainSec' = remainSec - 1
    /\ \/ remainSec' <= 0 /\ stopTicker /\ Goto(g, next, "lock")
       \/ remainSec' > 0 /\ UNCHANGED clock /\ Goto(g, ph, "wait")
    /\ Unlock
    /\ UNCHANGED <<sampleStatus, reset, call>>

\* The last tick of doneSample closes the reset channel, which would panic a
\* handler that is still sending on it.
doneTick(g) ==
    /\ On(g, "done", "tick")
    /\ Locked(g)
    /\ remainSec' = remainSec - 1
    /\ \/ /\ remainSec' <= 0
          /\ reset' = "nil"
          /\ sampleStatus' = "No"
          /\ stopTicker
          /\ Goto(g, "none", "off")
          /\ call' = [c \in Clients |->
                        IF call[c] = "send" THEN "panic" ELSE call[c]]
       \/ /\ remainSec' > 0
          /\ Goto(g, "done", "wait")
          /\ UNCHANGED <<sampleStatus, clock, reset, call>>
    /\ Unlock

\* The hand-over of an unbuffered channel: one sender and the select meet.
receiveReset(g) ==
    /\ On(g, "done", "wait")
    /\ reset = "made"
    /\ \E c \in Clients :
         /\ call[c] = "send"
         /\ call' = [call EXCEPT ![c] = "sent"]
    /\ Goto(g, "done", "reset")
    /\ UNCHANGED <<sampleStatus, remainSec, clock, reset, writer, hold>>

restart(g) ==
    /\ On(g, "done", "reset")
    /\ Locked(g)
    /\ remainSec' = DoneSec
    /\ Goto(g, "done", "wait")
    /\ Unlock
    /\ UNCHANGED <<sampleStatus, clock, reset, call>>

-----------------------------------------------------------------------------
ClientStep(c) ==
    \/ SampleSwitch(c)
    \/ getSampleStatusNo(c)
    \/ getSampleStatusWait(c)
    \/ resetSample(c)
    \/ getSampleStatusDone(c)

SamplerStep(g) ==
    \/ readySample(g)
    \/ doSample(g)
    \/ doneSample(g)
    \/ \E ph \in {"ready", "doing", "done"} : begin(g, ph)
    \/ makeReset(g)
    \/ receiveTick(g)
    \/ countDown(g, "ready", "doing")
    \/ countDown(g, "doing", "done")
    \/ doneTick(g)
    \/ receiveReset(g)
    \/ restart(g)

Next ==
    \/ \E c \in Clients : callStatus(c) \/ callSwitch(c) \/ ClientStep(c)
    \/ \E g \in Samplers : Announce(g) \/ SamplerStep(g)
    \/ Tick

Spec == Init /\ [][Next]_vars

(* Goroutines that can run do run, time passes, and a goroutine that waits  *)
(* for the lock is not passed over for ever (sync.Mutex hands over in FIFO  *)
(* order after 1 ms).  Nothing obliges a handler to be called.              *)
Fairness ==
    /\ WF_vars(Tick)
    /\ \A c \in Clients : WF_vars(ClientStep(c))
    /\ \A g \in Samplers : WF_vars(SamplerStep(g)) /\ SF_vars(Announce(g))

FairSpec == Spec /\ Fairness

-----------------------------------------------------------------------------
(* Properties.                                                             *)

\* The chains that passed the check of readySample.
Owns(g) == phase[g] # "none" /\ ~On(g, "ready", "lock")

Active == {g \in Samplers : Owns(g)}

\* No FATAL assertion of ctrl.go:75,107,138,141 fails and no handler is
\* caught in a send by close(c.reset) (ctrl.go:152): although any number of
\* status requests start a readySample, one chain at a time owns the ticker.
NoPanic ==
    /\ \A g \in Samplers : at[g] # "panic"
    /\ \A c \in Clients : call[c] # "panic"

\* The status and the chain of goroutines never part: there is at most one
\* chain, and the controller is in a phase exactly when a chain will end it,
\* so no phase can be stranded by a check that returns early.
StatusHasOneSampler ==
    /\ \A g, h \in Active : g = h
    /\ (sampleStatus # "No") <=> (Active # {})

\* A handler blocked in c.reset <- true (ctrl.go:173) blocks on a channel
\* somebody can still receive from: it holds the read lock, the phase is
\* Done and the channel has been made and not closed.
SenderHasReceiver ==
    \A c \in Clients :
        call[c] = "send" => c \in hold /\ reset = "made" /\ sampleStatus = "Done"

\* No page shows a negative wait (ctrl.go:200,204): the countdown is never
\* taken below zero, not even between the last tick and the next phase.
WaitNotNegative == remainSec >= 0

\* A cycle visits its phases in order, and only as many reads as there are
\* handlers can see a status: it changes only while no handler is inside.
PhaseOrder ==
    [][ /\ <<sampleStatus, sampleStatus'>> \in
             {<<"No", "Ready">>, <<"Ready", "Doing">>,
              <<"Doing", "Done">>, <<"Done", "No">>}
        /\ hold = {} ]_sampleStatus

\* A sampling that was started is completed, whatever the handlers do.
SamplingCompletes == (sampleStatus = "Ready") ~> (sampleStatus = "Done")

\* The chain wants the lock while a handler that holds it wants the chain.
ResetCycle ==
    /\ \E g \in Samplers : phase[g] = "done" /\ at[g] \in {"tick", "reset"}
    /\ \E c \in Clients : call[c] = "send"

\* A handler leaves the controller unless it is caught in a ResetCycle: that
\* cycle is the only way a request can hang in SampleSwitch (ctrl.go:217),
\* which every ad request calls.
OnlyResetCycleHangs ==
    \A c \in Clients : (call[c] # "none") ~> (call[c] = "none" \/ ResetCycle)

\* A result is kept for five minutes (ctrl.go:135, "5 min"): the phase ends
\* unless it is restarted again and again.
DoneEnds ==
    \/ []<>(sampleStatus # "Done")
    \/ []<><<\E g \in Samplers : restart(g)>>_vars
=============================================================================
