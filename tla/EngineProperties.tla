--------------------------- MODULE EngineProperties ---------------------------
(***************************************************************************)
(* What makes the engine correct.  Each property says which behaviour of   *)
(* the code it is about; the hazards it answers are listed in README.md.   *)
(***************************************************************************)
EXTENDS Engine

(***************************************************************************)
(* The durable history.                                                    *)
(***************************************************************************)
\* An owner executes one attempt at a time: whatever was started earlier has been
\* closed, by its own task or by recovery after a crash or an error, before the
\* next attempt of that owner is recorded (execute_node, recover).
OneAttemptAtATime ==
  \A o \in Owners : \A i \in OpenAttempts(run, o) : i = Len(run.attempts[o])

\* The attempts of a candidate are a path through the workflow graph: a retry of
\* an interrupted node, or the successor recorded by the attempt before, which the
\* graph allows (next_candidate_step, NodeResult::validate).
FollowsGraph(a, b) ==
  IF a.status = "Interrupted" THEN b.node = a.node
  ELSE /\ a.status \in {"Succeeded", "Failed"}
       /\ b.node = a.next
       /\ b.node \in AllowedSuccessors[a.node]

HistoryIsPath ==
  \A c \in Cands : \A i \in 1..(Len(run.attempts[c]) - 1) :
    FollowsGraph(run.attempts[c][i], run.attempts[c][i + 1])

\* Whatever is appended later, a closed attempt keeps its verdict, a plan version
\* keeps its hash, a run that ended stays as it ended, and a commit is not taken
\* back (RunProjection::apply, the transition tables).
HistoryIsDurable == [][KeepsHistory(run, run')]_run

\* Every event that reaches the log can be replayed: no interleaving of tasks,
\* crashes and requests appends one the reducer refuses (commit_event appends
\* before it applies).
LogReplays == ~poisoned

(***************************************************************************)
(* Repair.                                                                 *)
(***************************************************************************)
\* A candidate is repaired at most as often as its budget says, also when repairs
\* are interrupted and run again (has_repair_budget, CandidateRepairStarted).
RepairsWithinBudget == \A c \in Cands : run.cands[c].used <= RepairBudget

RepairsDone(c) ==
  {i \in DOMAIN run.attempts[c] :
     run.attempts[c][i].node = "Repair" /\ run.attempts[c][i].status = "Succeeded"}

\* Every repair that was completed has been charged to the budget: no order of
\* events, crash or retry lets a candidate be repaired for nothing (repair.rs emits
\* CandidateRepairStarted with the output, not before the agent runs).
RepairsAreCharged ==
  \A c \in Cands : Cardinality(RepairsDone(c)) <= run.cands[c].used

(***************************************************************************)
(* Selection, integration and commit.                                      *)
(***************************************************************************)
\* A gate passed on this content.  What its own commands and those of gates before
\* it wrote into the worktree is judged along with it.
PassedOn(evidence, content) == evidence.passed /\ BuildsOn(evidence.of, content)

\* The evidence the winner was selected on belongs to the patch that will be
\* integrated: no repair, retry or crash leaves a verdict about an older content
\* next to a newer diff (join.rs reads whatever the latest files hold).
WinnerEvidenceIsFresh ==
  run.winner # NoCand =>
    LET patch == store.diff[run.winner]
    IN  /\ patch # Baseline
        /\ PassedOn(store.tests[run.winner], patch)
        /\ PassedOn(store.review[run.winner], patch)

\* The result branch receives the winner's patch with nothing added but what the
\* commands of the final gates left in the integration worktree, after the final
\* tests and the final review passed on that patch, under an approved plan and with
\* the approval the commit policy asks for (commit.rs, next_run_step).  That no gate
\* writes after the tests is not among it: see CommittedIsVerified in EngineClaims.
CommitIsGated ==
  [][ git'.branch # git.branch =>
        LET patch == store.diff[run.winner]
        IN  /\ git'.branch = Append(git.branch, git.tree)
            /\ BuildsOn(git.tree, patch)
            /\ PassedOn(store.tests[RunOwner], patch)
            /\ PassedOn(store.review[RunOwner], patch)
            /\ BuildsOn(git.tree, store.tests[RunOwner].of)
            /\ BuildsOn(git.tree, store.review[RunOwner].of)
            /\ PlanApproved(run)
            /\ CommitPolicy = "Manual" => run.commitApproved
            /\ CommitPolicy # "None" ]_git

\* The branch is committed to once, however often the commit node is interrupted
\* and run again (create_commit stages nothing the second time).
CommittedOnce == Len(git.branch) <= 1

\* A candidate whose integration was attempted is not selected again: promotion
\* always moves to one that was never tried (next_promotable).
NeverTriedTwice ==
  [][ run'.winner # run.winner /\ run'.winner # NoCand =>
        ~run.cands[run'.winner].attempted ]_run

\* The final gates are judged on the candidate that is integrated, not on the one
\* integrated before it (IntegrationAttempted resets them).
GatesBelongToApplied ==
  /\ run.integration.tests = "Pass" =>
       BuildsOn(store.tests[RunOwner].of, store.diff[run.integration.applied])
  /\ run.integration.review = "Pass" =>
       BuildsOn(store.review[RunOwner].of, store.diff[run.integration.applied])

(***************************************************************************)
(* The plan gate.                                                          *)
(***************************************************************************)
\* No candidate node starts unless the current plan is the one approved, also when
\* decisions and edits of the operator race with the dispatcher (plan_gate).
WorkNeedsApproval ==
  [][ \A c \in Cands :
        Len(run'.attempts[c]) > Len(run.attempts[c]) => PlanApproved(run) ]_run

(***************************************************************************)
(* Cancellation.                                                           *)
(***************************************************************************)
\* A cancelled run has left nothing behind that a later dispatch would resume: the
\* candidates were cancelled first, whichever task found the signal
\* (finish_cancelled).
CancelledRunIsQuiet ==
  run.status = "Cancelled" => NonTerminal(run) = {}

\* Task o is about to record an attempt.
Starting(o) ==
  /\ todo[o] # << >>
  /\ Head(todo[o]).op = "Do"
  /\ Head(todo[o]).event.kind = "NodeStarted"

\* Once the run has ended no task decides to start another attempt, although tasks of
\* other candidates still run when one of them cancels the run: each looks at the
\* signal first.  Only what it had decided before may still be recorded (execute_node,
\* next_candidate_step, next_run_step); see NothingStartsAfterTheEnd in EngineClaims.
NothingDecidedAfterTheEnd ==
  [][ run.status \in RunTerminal =>
        \A o \in Owners : Starting(o)' => Starting(o) ]_<< run, todo >>

(***************************************************************************)
(* Progress.                                                               *)
(***************************************************************************)
\* What the task of owner o does next, whatever that is: one of its calls.
OwnCall(o) ==
  \/ ReadRunStatus(o) \/ ReadCandidateStatus(o) \/ DoCommit(o)
  \/ CancelNext(o) \/ ExcludeNext(o) \/ StartNode(o)
  \/ ReturnFrom(o) \/ FailFrom(o) \/ EditWorktree(o)

\* A step of a candidate's task, and one of the dispatch itself.
TaskAdvances(c) ==
  \/ AcquirePermit(c) \/ DriveCandidate(c) \/ OwnCall(c)
  \/ \E ok \in BOOLEAN, why \in Fingerprints :
       \/ ImplementNode(c, ok, why) \/ TestNode(c, ok, why) \/ ReviewNode(c, ok, why)
       \/ RepairNode(c, ok, why) \/ RepairExhausted(c, why)
DispatchAdvances ==
  \/ Recovery \/ RunLoop \/ OwnCall(RunOwner)
  \/ PrepareNode \/ (\E hash \in Hashes : PlanNode(hash)) \/ FanOutNode
  \/ \E eligible \in SUBSET Cands : JoinNode(eligible)
  \/ \E ok \in BOOLEAN : IntegrateNode(ok) \/ FinalTestNode(ok) \/ FinalReviewNode(ok)
  \/ CommitNode

\* tokio polls every task that can run, every body ends at its timeout at the latest
\* and the semaphore hands a released permit to a waiter.  A request that waits for
\* the lock gets it or gives up.  Nobody has to dispatch a run again.
Fairness ==
  /\ WF_vars(DispatchAdvances)
  /\ \A c \in Cands : WF_vars(TaskAdvances(c))
  /\ WF_vars(\E r \in pending :
                ServiceAppend(r) \/ FinaliseCancel(r) \/ CancelAlreadyFinal(r))

FairSpec == Spec /\ Fairness

\* The last attempt of this candidate was closed without a successor, and the status
\* that would have ended the candidate was not recorded: a crash fell between the two,
\* or the failure was classified as one that fails the run.  No step of it is left.
DeadEnd(c) ==
  /\ c \in NonTerminal(run)
  /\ ~run.cancelRequested
  /\ todo[c] = << >>
  /\ run.attempts[c] # << >>
  /\ LET last == run.attempts[c][Len(run.attempts[c])]
      IN  last.status \in {"Succeeded", "Failed"} /\ last.next \in {None, "Join"}

\* Every dispatch returns, unless a candidate is at a dead end: the run loop does not
\* spin, no queued candidate waits for a permit that is not given back, and no
\* failure, cancellation, restart or refused event keeps a task from ending
\* (run_loop, run_candidate_subgraphs, drive_candidate).
DispatchReturns ==
  (lock = "dispatch") ~> (lock = "free" \/ \E c \in Cands : DeadEnd(c))
=============================================================================
