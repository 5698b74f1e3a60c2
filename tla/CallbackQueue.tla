---------------------------- MODULE CallbackQueue ----------------------------
(***************************************************************************)
(* What the S2S callback queue (src/src/tpl/s2s_heap.go) promises a        *)
(* publisher: a callback that was accepted is attempted until an attempt   *)
(* succeeds or the last one has failed, and never after that.              *)
(***************************************************************************)
EXTENDS Naturals

CONSTANTS Items,       \* callbacks
          MaxAttempts  \* the attempts one callback gets

VARIABLES state, attempts

vars == <<state, attempts>>

TypeOK ==
    /\ state \in [Items -> {"none", "pending", "delivered", "dropped"}]
    /\ attempts \in [Items -> 0..MaxAttempts]

Init ==
    /\ state = [i \in Items |-> "none"]
    /\ attempts = [i \in Items |-> 0]

Accept(i) ==
    /\ state[i] = "none"
    /\ state' = [state EXCEPT ![i] = "pending"]
    /\ UNCHANGED attempts

Attempt(i) ==
    /\ state[i] = "pending"
    /\ attempts[i] < MaxAttempts
    /\ attempts' = [attempts EXCEPT ![i] = @ + 1]
    /\ UNCHANGED state

Deliver(i) ==
    /\ state[i] = "pending"
    /\ attempts[i] > 0
    /\ state' = [state EXCEPT ![i] = "delivered"]
    /\ UNCHANGED attempts

GiveUp(i) ==
    /\ state[i] = "pending"
    /\ attempts[i] = MaxAttempts
    /\ state' = [state EXCEPT ![i] = "dropped"]
    /\ UNCHANGED attempts

Next == \E i \in Items : Accept(i) \/ Attempt(i) \/ Deliver(i) \/ GiveUp(i)

SafeSpec == Init /\ [][Next]_vars

Spec == SafeSpec /\ \A i \in Items : WF_vars(Attempt(i)) /\ WF_vars(GiveUp(i))
=============================================================================
