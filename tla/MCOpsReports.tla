---------------------------- MODULE MCOpsReports ----------------------------
(***************************************************************************)
(* Small instances of OpsReports for TLC.                                  *)
(***************************************************************************)
EXTENDS OpsReports, TLC

MCSymmetry ==
    Permutations(Attempts) \cup Permutations(Requests)
        \cup Permutations(Recipients)
=============================================================================
