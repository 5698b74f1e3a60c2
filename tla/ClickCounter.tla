---------------------------- MODULE ClickCounter ----------------------------
(***************************************************************************)
(* The click counter: handlers add the clicks of an offer to a map, and    *)
(* every minute a ticker takes the map away, leaves an empty one, and      *)
(* posts what it took.  Both hold the lock only for the map; the post is   *)
(* made without it, and its error is printed and forgotten.                *)
(***************************************************************************)
EXTENDS Integers

CONSTANTS
  Offers,
  MaxClicks  \* bound: how many clicks of an offer are added

VARIABLES
  clickCount,  \* ck.clickCount, 0 for an offer that has no entry
  m,           \* the map submitClickCount has taken
  ticker,      \* where the ticker is: asleep or posting
  added,       \* history: the clicks handlers have added
  pushed,      \* history: the clicks the other side has accepted
  lost         \* history: the clicks of posts that failed

vars == <<clickCount, m, ticker, added, pushed, lost>>

Counts == [Offers -> Nat]
None == [o \in Offers |-> 0]
Plus(a, b) == [o \in Offers |-> a[o] + b[o]]

TypeOK ==
  /\ clickCount \in Counts /\ m \in Counts /\ ticker \in {"asleep", "posting"}
  /\ added \in Counts /\ pushed \in Counts /\ lost \in Counts

Init ==
  /\ clickCount = None /\ m = None /\ ticker = "asleep"
  /\ added = None /\ pushed = None /\ lost = None

(* Under the lock. *)
AddClick(o, nClick) ==
  /\ added[o] + nClick <= MaxClicks
  /\ clickCount' = [clickCount EXCEPT ![o] = @ + nClick]
  /\ added' = [added EXCEPT ![o] = @ + nClick]
  /\ UNCHANGED <<m, ticker, pushed, lost>>

(* Mutant: the map is posted and goes on counting. *)
submitClickCountKeeps ==
  /\ ticker = "asleep"
  /\ m' = clickCount
  /\ ticker' = "posting"
  /\ UNCHANGED <<clickCount, added, pushed, lost>>

(* Under the lock. *)
submitClickCount ==
  /\ ticker = "asleep"
  /\ m' = clickCount /\ clickCount' = None
  /\ ticker' = "posting"
  /\ UNCHANGED <<added, pushed, lost>>

Accepted ==
  /\ ticker = "posting"
  /\ ticker' = "asleep" /\ m' = None
  /\ pushed' = Plus(pushed, m)
  /\ UNCHANGED <<clickCount, added, lost>>

(* An error, or a status that says that nothing was accepted, which is not *)
(* looked at: the map is garbage, and nobody posts it again.               *)
Failed ==
  /\ ticker = "posting"
  /\ ticker' = "asleep" /\ m' = None
  /\ lost' = Plus(lost, m)
  /\ UNCHANGED <<clickCount, added, pushed>>

Next ==
  \/ \E o \in Offers, nClick \in 1..MaxClicks : AddClick(o, nClick)
  \/ submitClickCount \/ Accepted \/ Failed

Spec == Init /\ [][Next]_vars

-----------------------------------------------------------------------------
(* Every click is in exactly one place: in the map, in the post that is    *)
(* under way, with the other side, or in a post that failed.  So no click  *)
(* is posted twice, and none disappears but with a post.                   *)
ClicksConserved ==
  \A o \in Offers : added[o] = clickCount[o] + m[o] + pushed[o] + lost[o]
=============================================================================
