------------------------------ MODULE MCLoops -------------------------------
(***************************************************************************)
(* Two loops that must go on whatever fails: the one that sends callbacks  *)
(* and retries them (S2sHeap), and the one that rebuilds the offer index   *)
(* (OfferIndex).  They share nothing, and a behaviour is one of a single   *)
(* component; `part` says of which, and the variables of the other keep    *)
(* their initial values.  Of the index there are two parts.  In "rounds"   *)
(* the network fails and the bucket changes, while requests take and hold  *)
(* handlers but find nothing, and channel c2 is on from the beginning.  In *)
(* "requests" they are of any kind and find what they find, while every    *)
(* download works and all channels are on.                                 *)
(* Three callbacks arrive within a tick of each other and are retried      *)
(* after one.                                                              *)
(***************************************************************************)
EXTENDS OfferIndex, S2sHeap

CONSTANTS c1, c2, k1, k2, t1, t2, good, held, cheap, test  \* OfferIndex

VARIABLE part

-----------------------------------------------------------------------------
(* Two channels with a file each, one offer held back for promotion,      *)
(* one too cheap to be indexed, and two files of tmp_test in one channel,  *)
(* so that the loop reads that folder twice.                               *)
mcChannels == {c1, c2}
mcKeys == {k1, k2, t1, t2}
mcTmpKeys == {t1, t2}
mcOffers == {good, held, cheap, test}
mcChannelOf == [k \in mcKeys |-> IF k = k2 THEN c2 ELSE c1]
mcContent == [k \in mcKeys |->
  IF k = k1 THEN <<good>> ELSE IF k = k2 THEN <<held>> ELSE IF k = t1 THEN <<test>> ELSE <<cheap>>]
mcFine == [payout |-> 5, wrapped |-> "no", countries |-> 1, platform |-> "ios", blackPkg |-> 0, tempBlack |-> 0]
mcRaw == [o \in mcOffers |->
  IF o = held THEN [mcFine EXCEPT !.tempBlack = 1]
  ELSE IF o = cheap THEN [mcFine EXCEPT !.payout = 1] ELSE mcFine]

-----------------------------------------------------------------------------
(* The callbacks are sent while the index waits for its first round.       *)
mcInit ==
  /\ part \in {"s2s", "rounds", "requests"} /\ QueueInit /\ Init
  /\ part = "s2s" => bucket = Offers /\ on = {} /\ dnfHandler = CHOOSE h \in Handlers : TRUE
  /\ part = "rounds" => c2 \in on
  /\ part = "requests" => on = Channels /\ dnfHandler = CHOOSE h \in Handlers : TRUE

S2sStep(A) == part = "s2s" /\ A /\ UNCHANGED <<part, vars>>
IndexStep(A) == part # "s2s" /\ A /\ UNCHANGED <<part, queueVars>>

mcBound ==
  /\ part = "rounds" => \A r \in Requests : kind'[r] \in {"strict", Nil} /\ docs'[r] = {}
  /\ part = "requests" => UNCHANGED remote

mcNext == S2sStep(QueueNext) \/ (IndexStep(Next) /\ mcBound)

(* That of the two components (FairSpec). *)
mcVars == <<part, vars, queueVars>>
mcFairness ==
  /\ WF_mcVars(S2sStep(Tick)) /\ WF_mcVars(S2sStep(ServeQueue))
  /\ \A i \in Items : WF_mcVars(S2sStep(S2sCallback(i)))
  /\ WF_mcVars(IndexStep(Update))
  /\ \A r \in Requests : WF_mcVars(IndexStep(Serving(r)))

mcSpec == mcInit /\ [][mcNext]_mcVars /\ mcFairness

-----------------------------------------------------------------------------
(* The types of both. *)
TypesOK == TypeOK /\ QueueTypeOK

(* What leaves the bucket for good stops being offered (OfferIndex). *)
RemovedLeaves == part # "s2s" => RemovedOfferLeaves

(* What stays in the bucket is offered in the end (OfferIndex). *)
StayingArrives == part # "s2s" => StayingOfferArrives
=============================================================================
