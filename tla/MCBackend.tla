------------------------------ MODULE MCBackend ------------------------------
(***************************************************************************)
(* The backend's two components that keep a copy of what others know: the  *)
(* mirror of Stripe's subscriptions and the budget cap.  One specification *)
(* runs any one of them, as in MCGame, with the fairness of each.          *)
(***************************************************************************)
EXTENDS Subscription, Chronos

CONSTANT Parts    \* the components a run checks
VARIABLE part     \* the one that moves

backendVars == <<part, mirrorVars, chronosVars>>

\* The part p moves and no other does.
Only(p) ==
  /\ part = p /\ UNCHANGED part
  /\ p # "mirror" => UNCHANGED mirrorVars
  /\ p # "budget" => UNCHANGED chronosVars

BackendInit == part \in Parts /\ MirrorInit /\ ChronosInit

BackendNext ==
  \/ Only("mirror") /\ MirrorNext
  \/ Only("budget") /\ ChronosNext

\* Of the part that moves, what Subscription and Chronos say of its scheduling.
BackendFairness ==
  \/ part = "mirror" /\ MirrorFairness
  \/ part = "budget" /\ ChronosFairness

BackendSpec == BackendInit /\ [][BackendNext]_backendVars /\ BackendFairness

----------------------------------------------------------------------------
(* Properties, of one component or of both.                                *)

\* The tables, the keys and the deliveries and jobs in progress keep their types
\* (subscription, subscription_event; the four keys of the budget daemon).
BackendTypeOK == MirrorTypeOK /\ ChronosTypeOK

\* Spend at a cap is capped in the end (OverspendIsCapped), when the budget is what moves.
SpendIsCappedInTheEnd == part = "budget" => OverspendIsCapped
=============================================================================
