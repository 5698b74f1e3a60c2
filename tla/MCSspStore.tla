----------------------------- MODULE MCSspStore -----------------------------
(***************************************************************************)
(* Instances of SspStore: an app with two slots; the row of the app        *)
(* changes its switch and its number.                                      *)
(***************************************************************************)
EXTENDS SspStore, TLC

CONSTANTS a1, s1, s2

mcSlotsOf == [a \in Apps |-> <<s1, s2>>]
mcAppInfos == {[AppSwitch |-> 1, PreNum |-> 2], [AppSwitch |-> 2, PreNum |-> 3]}
mcSymmetry == Permutations(Stores)
=============================================================================
