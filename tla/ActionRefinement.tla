---------------------------- MODULE ActionRefinement ----------------------------
(***************************************************************************)
(* ActionService implements ActionContract: the mapping that forgets roles,*)
(* logs, receipts and threads.                                             *)
(***************************************************************************)
EXTENDS ActionService

PhaseOfStatus(status) ==
    CASE status = "approval_required" -> "awaiting"
      [] status \in {"denied", "rejected", "precondition_failed"} -> "refused"
      [] status = "approved" -> "granted"
      [] status \in VERIFIABLE_STATUSES -> "accepted"
      [] status \in TERMINAL_VERIFICATION_STATUSES -> status

phaseBar == [a \in ActionIds |->
    IF a \in Stored THEN PhaseOfStatus(actions[a].status) ELSE "absent"]

intentBar == [a \in ActionIds |-> IF a \in Stored THEN KeyOf(a) ELSE NoValue]

writtenBar == {k \in Tenants \X Keys : executions[k] # NoValue}

Contract == INSTANCE ActionContract
    WITH Actions <- ActionIds, Intents <- Tenants \X Keys,
         NoIntent <- NoValue, phase <- phaseBar, intent <- intentBar,
         written <- writtenBar

\* With one executor thread the service keeps the gateway's contract: one
\* action and one accepted write per key, a decision before the write, one
\* final verdict after it (the whole of service.py).
ImplementsContract == Contract!Spec
=============================================================================
