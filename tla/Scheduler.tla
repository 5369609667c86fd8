------------------------------ MODULE Scheduler ------------------------------
(***************************************************************************)
(* How the next step of a run, and of one candidate, is derived from the   *)
(* projection alone: crates/application/src/engine/scheduler.rs.           *)
(***************************************************************************)
EXTENDS RunProjection

CONSTANT CommitPolicy    \* "None", "Manual" or "Automatic"

ASSUME CommitPolicyAssumption == CommitPolicy \in {"None", "Manual", "Automatic"}

\* A step of the run loop; value carries the node or the final status.
RunStep == [kind : {"RunNode"}, value : RunNodes]
             \cup [kind : {"Finish"}, value : RunTerminal]
             \cup [ kind : {"RunCandidates", "AwaitPlanApproval", "AwaitCommitApproval",
                            "Cancel", "Blocked"}, value : {None} ]

Run(node) == [kind |-> "RunNode", value |-> node]
Finish(status) == [kind |-> "Finish", value |-> status]
Step(kind) == [kind |-> kind, value |-> None]

\* Mutant: any approval opens the gate, whichever text it was given for.
ForgetsApprovedHash(p) ==
  CASE ~HasPlan(p)                         -> "WritePlan"
    [] HasPlan(p) /\ p.approval.decision = None       -> "Await"
    [] HasPlan(p) /\ p.approval.decision = "Rejected" -> "Rejected"
    [] HasPlan(p) /\ p.approval.decision = "RevisionRequested" ->
         IF p.approval.version >= CurrentPlan(p).version THEN "WritePlan" ELSE "Await"
    [] OTHER -> "Approved"

\* plan_gate: a revision request counts against the version it was made for.
PlanGate(p) ==
  CASE ~HasPlan(p)                         -> "WritePlan"
    [] HasPlan(p) /\ p.approval.decision = None       -> "Await"
    [] HasPlan(p) /\ p.approval.decision = "Rejected" -> "Rejected"
    [] HasPlan(p) /\ p.approval.decision = "RevisionRequested" ->
         IF p.approval.version >= CurrentPlan(p).version THEN "WritePlan" ELSE "Await"
    [] OTHER ->
         IF p.approval.hash = CurrentPlan(p).hash THEN "Approved" ELSE "Await"

\* Mutant: the manual policy does not wait for its approval.
CommitsUnasked(p) ==
  IF CommitPolicy = "None" THEN Finish("Succeeded") ELSE Run("Commit")

\* The last stages, once a winner has been integrated and has passed the gates.
CommitStep(p) ==
  CASE CommitPolicy = "None" -> Finish("Succeeded")
    [] CommitPolicy = "Manual" /\ ~p.commitApproved -> Step("AwaitCommitApproval")
    [] OTHER -> Run("Commit")

IntegrationStep(p) ==
  CASE p.winner = NoCand                        -> Finish("Exhausted")
    [] p.winner # NoCand /\ p.commit            -> Finish("Succeeded")
    [] p.winner # NoCand /\ ~p.commit /\ p.integration.applied # p.winner -> Run("Integrate")
    [] OTHER ->
         IF p.integration.tests # "Pass" THEN Run("FinalTest")
         ELSE IF p.integration.review # "Pass" THEN Run("FinalReview")
         ELSE CommitStep(p)

CandidateStage(p) ==
  IF \A c \in Cands : ~Registered(p, c) THEN Run("FanOut")
  ELSE IF ~AllCandidatesTerminal(p) THEN Step("RunCandidates")
  ELSE IF ~p.ranked THEN Run("Join")
  ELSE IntegrationStep(p)

PlanStage(p) ==
  CASE PlanGate(p) = "WritePlan" -> Run("Plan")
    [] PlanGate(p) = "Await"     -> Step("AwaitPlanApproval")
    [] PlanGate(p) = "Rejected"  -> Step("Cancel")
    [] OTHER                     -> CandidateStage(p)

\* Mutant: a run that has ended is scheduled like any other.
SchedulesEndedRun(p) ==
  IF p.status = "RecoveryRequired" THEN Step("Blocked")
  ELSE IF p.cancelRequested THEN Step("Cancel")
  ELSE IF ~CompletedSuccessfully(p, RunOwner, "Prepare") THEN Run("Prepare")
  ELSE PlanStage(p)

\* next_run_step.
NextRunStep(p) ==
  IF p.status \in RunTerminal THEN Finish(p.status)
  ELSE IF p.status = "RecoveryRequired" THEN Step("Blocked")
  ELSE IF p.cancelRequested THEN Step("Cancel")
  ELSE IF ~CompletedSuccessfully(p, RunOwner, "Prepare") THEN Run("Prepare")
  ELSE PlanStage(p)

\* Mutant: a failed attempt is repeated instead of following its recorded successor.
RepeatsFailedAttempt(a) ==
  CASE a.status \in {"Started", "Interrupted", "Failed"} -> a.node
    [] a.status = "Succeeded" /\ a.next # "Join" -> a.next
    [] OTHER -> None

\* What follows the candidate's most recent attempt; None ends its subgraph.
AfterAttempt(a) ==
  CASE a.status \in {"Started", "Interrupted"} -> a.node
    [] a.status \in {"Succeeded", "Failed"} /\ a.next # "Join" -> a.next
    [] OTHER -> None

\* next_candidate_step; None is Finish or Blocked, which both end the task.
NextCandidateStep(p, c) ==
  IF \/ ~Registered(p, c)
     \/ p.cands[c].status \in CandidateTerminal
     \/ p.cancelRequested
  THEN None
  ELSE IF p.attempts[c] = << >> THEN "Implement"
  ELSE AfterAttempt(p.attempts[c][Len(p.attempts[c])])

\* desired_run_status together with the test that the transition is legal; None
\* leaves the status alone.
DesiredRunStatus(status, node) ==
  LET target == RunStatusForNode[node]
  IN  IF \/ status = target
         \/ node = "Commit" /\ status = "AwaitingCommitApproval"
         \/ ~RunMayBecome(status, target)
      THEN None ELSE target
=============================================================================
