------------------------- MODULE PurchaseLifecycle -------------------------
(***************************************************************************)
(* What a marketplace purchase promises, without requests, webhooks or     *)
(* ledger: a purchase is recorded once, its creator is credited at most    *)
(* once and only for a captured payment, and a final status stays final.   *)
(***************************************************************************)
CONSTANT Request

VARIABLES status, paid, credited
vars == <<status, paid, credited>>

Init ==
  /\ status = [r \in Request |-> "absent"]
  /\ paid = {}
  /\ credited = {}

Record(r) ==
  /\ status[r] = "absent"
  /\ status' = [status EXCEPT ![r] = "pending"]
  /\ UNCHANGED <<paid, credited>>

Pay(r) ==
  /\ paid' = paid \cup {r}
  /\ UNCHANGED <<status, credited>>

\* The credit and the status change are one step.
Settle(r) ==
  /\ status[r] = "pending"
  /\ r \in paid
  /\ status' = [status EXCEPT ![r] = "completed"]
  /\ credited' = credited \cup {r}
  /\ UNCHANGED paid

Fail(r) ==
  /\ status[r] = "pending"
  /\ status' = [status EXCEPT ![r] = "failed"]
  /\ UNCHANGED <<paid, credited>>

\* The code does not ask for a completed purchase here: a refund that overtakes
\* the success event ends the purchase uncredited.
Refund(r) ==
  /\ status[r] \in {"pending", "completed", "failed"}
  /\ r \in paid
  /\ status' = [status EXCEPT ![r] = "refunded"]
  /\ UNCHANGED <<paid, credited>>

Next == \E r \in Request :
          Record(r) \/ Pay(r) \/ Settle(r) \/ Fail(r) \/ Refund(r)

Spec == Init /\ [][Next]_vars
=============================================================================
