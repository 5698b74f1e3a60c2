----------------------------- MODULE MCRecords ------------------------------
(***************************************************************************)
(* What is recorded of requests: the counters of the handlers (Handlers)   *)
(* and the reports per minute (StatusReport).  They share nothing, and a   *)
(* behaviour is one of a single component; `part` says of which, and the   *)
(* variables of the other keep their initial values.                       *)
(***************************************************************************)
EXTENDS Handlers, StatusReport, TLC

CONSTANTS r1, r2

VARIABLE part

-----------------------------------------------------------------------------
(* Any request, next to one that adds to the total.                        *)
mcPathsOf == [r \in Requests |-> IF r = r1 THEN Paths ELSE {"jstag"}]

mcSymmetry == Permutations(AdHandlers)

-----------------------------------------------------------------------------
mcInit == part \in {"handlers", "reports"} /\ Init /\ ReportInit

(* A request comes alone when it writes nothing that another one or        *)
(* QpsStat reads.                                                          *)
Together == {p \in DOMAIN SubStatistic : SubStatistic[p] \in {"sdk", "nat", "jstag", "jstagH5"}}
Alone == (\E r \in Requests : req'[r].path \in Paths \ Together) => \E r \in Requests : req'[r] = Idle

mcNext ==
  \/ part = "handlers" /\ Next /\ Alone /\ UNCHANGED <<part, reportVars>>
  \/ part = "reports" /\ ReportNext /\ UNCHANGED <<part, vars>>

mcSpec == mcInit /\ [][mcNext]_<<part, vars, reportVars>>

-----------------------------------------------------------------------------
(* The types of both. *)
TypesOK == TypeOK /\ ReportTypeOK
=============================================================================
