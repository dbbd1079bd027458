----------------------- MODULE MCPredictiveSlackAgent -----------------------
(***************************************************************************)
(* Small instances of PredictiveSlackAgent for TLC.                        *)
(***************************************************************************)
EXTENDS PredictiveSlackAgent, TLC

CONSTANTS s1, s2, x1, x2, y1

\* Service s1 is at a high under-prediction or at no risk, s2 at a lasting
\* medium one.
MCServiceOf == x1 :> s1 @@ x2 :> s1 @@ y1 :> s2

MCLevel == x1 :> "high" @@ x2 :> "low" @@ y1 :> "medium"
=============================================================================
