------------------------------ MODULE Lifecycle ------------------------------
(***************************************************************************)
(* The closed vocabularies of crates/domain: the life cycle of a run, the  *)
(* life cycle of one candidate, the workflow graph and the classification  *)
(* of node failures.  Everything here is a constant-level table; the state *)
(* machines that consult the tables are in the other modules.              *)
(***************************************************************************)
EXTENDS Integers

None == "None"

(***************************************************************************)
(* Runs: domain/src/run.rs.                                                *)
(***************************************************************************)
RunStatus ==
  { "Created", "Validating", "Planning", "AwaitingPlanApproval",
    "RunningCandidates", "Joining", "Integrating", "AwaitingCommitApproval",
    "Succeeded", "Exhausted", "Failed", "Cancelled", "RecoveryRequired" }

RunTerminal == {"Succeeded", "Exhausted", "Failed", "Cancelled"}

\* The exits every status that is not terminal has.
RunExits == {"Cancelled", "Failed", "RecoveryRequired"}

RunAllowedNext ==
  [ s \in RunStatus |->
      CASE s = "Created"              -> {"Validating"} \cup RunExits
        [] s = "Validating"           -> {"Planning"} \cup RunExits
        [] s = "Planning"             -> {"AwaitingPlanApproval"} \cup RunExits
        [] s = "AwaitingPlanApproval" -> {"Planning", "RunningCandidates"} \cup RunExits
        [] s = "RunningCandidates"    -> {"Joining"} \cup RunExits
        [] s = "Joining"              -> {"Integrating", "Exhausted"} \cup RunExits
        [] s = "Integrating"          -> {"AwaitingCommitApproval", "Succeeded",
                                          "Exhausted"} \cup RunExits
        [] s = "AwaitingCommitApproval" -> {"Succeeded"} \cup RunExits
        [] s = "RecoveryRequired"     -> RunStatus \ {"Created", "Succeeded", "Exhausted",
                                                      "RecoveryRequired"}
        [] OTHER                      -> {} ]

\* RunStatus::transition_to accepts the status itself and its successors.
RunMayBecome(from, to) == from = to \/ to \in RunAllowedNext[from]

(***************************************************************************)
(* Candidates: domain/src/candidate.rs.  "Absent" stands for an identifier *)
(* the projection has no record of.                                        *)
(***************************************************************************)
CandidateStatus ==
  { "Pending", "Preparing", "Implementing", "Testing", "Reviewing",
    "Repairing", "Eligible", "Ineligible", "Interrupted", "Cancelled" }

CandidateTerminal == {"Eligible", "Ineligible", "Cancelled"}

CandidateExits == {"Ineligible", "Interrupted", "Cancelled"}

CandidateAllowedNext ==
  [ s \in CandidateStatus |->
      CASE s = "Pending"      -> {"Preparing", "Cancelled", "Ineligible"}
        [] s = "Preparing"    -> {"Implementing"} \cup CandidateExits
        [] s = "Implementing" -> {"Testing"} \cup CandidateExits
        [] s = "Testing"      -> {"Reviewing", "Repairing"} \cup CandidateExits
        [] s = "Reviewing"    -> {"Eligible", "Repairing"} \cup CandidateExits
        [] s = "Repairing"    -> {"Testing"} \cup CandidateExits
        [] s = "Interrupted"  -> {"Preparing", "Implementing", "Testing", "Reviewing",
                                  "Repairing", "Ineligible", "Cancelled"}
        [] s = "Eligible"     -> {"Ineligible"}
        [] OTHER              -> {} ]

CandidateMayBecome(from, to) == from = to \/ to \in CandidateAllowedNext[from]

(***************************************************************************)
(* The workflow graph: domain/src/graph.rs.                                *)
(***************************************************************************)
CandidateNodes == {"Implement", "Test", "Review", "Repair"}

RunNodes ==
  { "Prepare", "Plan", "Approval", "FanOut", "Join", "Integrate",
    "FinalTest", "FinalReview", "CommitApproval", "Commit" }

Nodes == RunNodes \cup CandidateNodes

AllowedSuccessors ==
  [ n \in Nodes |->
      CASE n = "Prepare"        -> {"Plan"}
        [] n = "Plan"           -> {"Approval"}
        [] n = "Approval"       -> {"FanOut", "Plan"}
        [] n = "FanOut"         -> {"Implement"}
        [] n = "Implement"      -> {"Test"}
        [] n = "Test"           -> {"Review", "Repair", "Join"}
        [] n = "Review"         -> {"Repair", "Join"}
        [] n = "Repair"         -> {"Test", "Join"}
        [] n = "Join"           -> {"Integrate"}
        [] n = "Integrate"      -> {"FinalTest", "Integrate"}
        [] n = "FinalTest"      -> {"FinalReview", "Integrate"}
        [] n = "FinalReview"    -> {"CommitApproval", "Integrate"}
        [] n = "CommitApproval" -> {"Commit"}
        [] OTHER                -> {} ]

\* NodeResult::validate: a successor, when there is one, is an edge of the graph.
ValidResult(node, next) == next = None \/ next \in AllowedSuccessors[node]

(***************************************************************************)
(* Which status a node puts its run or its candidate in while it executes: *)
(* application/src/engine/scheduler.rs.                                    *)
(***************************************************************************)
RunStatusForNode ==
  [ n \in Nodes |->
      CASE n = "Prepare"        -> "Validating"
        [] n = "Plan"           -> "Planning"
        [] n = "Approval"       -> "AwaitingPlanApproval"
        [] n \in CandidateNodes \cup {"FanOut"} -> "RunningCandidates"
        [] n = "Join"           -> "Joining"
        [] n = "CommitApproval" -> "AwaitingCommitApproval"
        [] OTHER                -> "Integrating" ]

CandidateStatusForNode ==
  [ n \in Nodes |->
      CASE n = "Implement" -> "Implementing"
        [] n = "Test"      -> "Testing"
        [] n = "Review"    -> "Reviewing"
        [] n = "Repair"    -> "Repairing"
        [] OTHER           -> None ]

(***************************************************************************)
(* Failure classes and what is done about them: domain/src/retry.rs.       *)
(***************************************************************************)
FailureClass ==
  { "Transient", "TaskFailure", "PolicyViolation", "PermanentConfiguration",
    "UserActionRequired", "InternalInvariant", "Cancelled" }

FailureVerdict(node) == IF node \in CandidateNodes THEN "FailCandidate" ELSE "FailRun"

\* classify_retry; attempt < maximum is RetryPolicy::permits_attempt.
ClassifyRetry(node, class, attempt, maximum, budget) ==
  CASE class = "Cancelled"          -> "Cancel"
    [] class = "UserActionRequired" -> "PauseForUser"
    [] class = "Transient" /\ attempt < maximum -> "RetrySameNode"
    [] class = "TaskFailure" /\ node \in CandidateNodes /\ budget -> "RouteToRepair"
    [] class = "InternalInvariant"  -> "FailRun"
    [] OTHER                        -> FailureVerdict(node)
=============================================================================
