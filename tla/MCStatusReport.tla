--------------------------- MODULE MCStatusReport ---------------------------
(* A small instance of StatusReport: two ad handlers, one status request   *)
(* and a ring of three slots, so that a slot is used, cleared and used     *)
(* again within the bound on minutes.                                      *)
EXTENDS StatusReport

=============================================================================
