----------------------------- MODULE MCFrequency -----------------------------
EXTENDS Frequency, TLC

CONSTANTS s1, s2, r1, r2

(* s1 allows one rewarded video a day, s2 any number. *)
mcVideoFreqCap == [s \in Slots |-> IF s = s1 THEN 1 ELSE -1]

(* Any handler next to one that counts pre-clicks. *)
mcServes == [r \in Requests |-> IF r = r2 THEN {retrievalHandler} ELSE Handlers]

(* The counts of videos and the hash of pre-clicks never meet, so that a user
   either watches videos, with one request, or is given pre-clicks. *)
mcBound ==
  \/ handler[r1] \notin VideoHandlers /\ \A k \in Types \X Slots : complete[k] = 0
  \/ handler[r2] = Idle /\ clock = 0 /\ lost = 0 /\ \A p \in Pkgs : pfreq[p] = 0
=============================================================================
