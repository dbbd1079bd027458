------------------------- MODULE MCChatOrchestration -------------------------
(***************************************************************************)
(* Two requests in one session of a farmer, where an answer may be of any  *)
(* kind a copilot's may be of, too.  Requests in different sessions share  *)
(* no rows.                                                                *)
(***************************************************************************)
EXTENDS ChatOrchestration, TLC

CONSTANTS t1, t2, u1, u2

MCTurns == {t1, t2}
MCTools == {u1, u2}
MCChatTypeOf == [s \in Sessions |-> "farmer_bnpl"]

Gives(r1, r2) == (u1 :> r1) @@ (u2 :> r2)
MCAgentResults ==
  (t1 :> {Gives("none", "none"), Gives("SUCCESS", "FAILED")}) @@
  (t2 :> {Gives("SUCCESS", "APPROVAL_REQUIRED")})
==============================================================================
