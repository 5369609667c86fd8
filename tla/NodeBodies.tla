------------------------------ MODULE NodeBodies ------------------------------
(***************************************************************************)
(* What the nodes of the workflow do (crates/application/src/nodes) and    *)
(* how the dispatcher turns the output of a body into durable events       *)
(* (Dispatcher::finalise_attempt and what it calls).                       *)
(*                                                                         *)
(* A body reads the projection as it was when its attempt started.  While  *)
(* it runs, no other task changes the parts it reads, so the current       *)
(* projection is used.  Agents, quality gates and git are outside the      *)
(* repository; what they may answer is a nondeterministic choice.          *)
(***************************************************************************)
EXTENDS EngineState

(***************************************************************************)
(* Outputs: engine/context.rs.  calls are the commits of output.events;    *)
(* cand and run are the statuses in the state patch.                       *)
(***************************************************************************)
Output ==
  [ status : {"Succeeded", "Failed", "Paused", "Cancelled"},
    next : Nodes \cup {None}, calls : Seq(Op),
    cand : CandidateStatus \cup {None}, run : RunStatus \cup {None},
    class : FailureClass \cup {None}, why : Fingerprints \cup {0} ]

Succeeded(next, calls) ==
  [ status |-> "Succeeded", next |-> next, calls |-> calls, cand |-> None,
    run |-> None, class |-> None, why |-> 0 ]

Failed(class, why, calls) ==
  [ status |-> "Failed", next |-> None, calls |-> calls, cand |-> None,
    run |-> None, class |-> class, why |-> why ]

Paused ==
  [ status |-> "Paused", next |-> None, calls |-> << >>, cand |-> None,
    run |-> None, class |-> None, why |-> 0 ]

\* decide_retry and apply_retry_decision.
AfterRetryDecision(o, node, number, out) ==
  LET budget == o # RunOwner /\ HasRepairBudget(run.cands[o])
      decision == ClassifyRetry(node, out.class, number, MaxAttempts, budget)
  IN  IF out.status # "Failed" THEN out
      ELSE CASE decision = "RetrySameNode" -> [out EXCEPT !.next = node]
             [] decision = "RouteToRepair" -> [out EXCEPT !.next = "Repair"]
             [] decision = "FailCandidate" -> [out EXCEPT !.next = "Join", !.cand = "Ineligible"]
             [] decision = "PauseForUser"  -> [out EXCEPT !.status = "Paused", !.next = None]
             [] decision = "Cancel"        -> [out EXCEPT !.status = "Cancelled", !.next = None]
             [] OTHER                      -> [out EXCEPT !.next = None]

Only(condition, call) == IF condition THEN << call >> ELSE << >>

\* apply_state_patch.
PatchCalls(o, node, out) ==
     Only(out.cand # None /\ o # RunOwner, SetCand(o, out.cand))
  \o Only(out.run # None, SetRun(out.run))
  \o Only(out.status = "Failed" /\ out.next = None /\ node \in RunNodes, SetRun("Failed"))
  \o Only(out.status = "Paused" /\ node \in RunNodes, SetRun("RecoveryRequired"))

\* finalise_attempt once the retry decision is made: the events of the body, the
\* check of the successor, the terminal event, the state patch.
FinaliseCalls(o, node, number, out) ==
  out.calls \o
    IF ~ValidResult(node, out.next) THEN << Fail >>
    ELSE << Do(NodeClosed(o, node, number, out.status, out.next, out.why)) >>
           \o PatchCalls(o, node, out)
           \o Only(out.status \notin {"Succeeded", "Failed"}, Return("Blocked"))

\* The body of owner o's node has produced this output.
Produce(o, out) ==
  Continue(o, FinaliseCalls(o, Call(o).node, Call(o).number,
                            AfterRetryDecision(o, Call(o).node, Call(o).number, out)))

AtBody(o, node) == At(o, "Body") /\ Call(o).node = node

KeepsEngine ==
  UNCHANGED << run, poisoned, lock, stopped, task, cancelled, outcome, pending >>

Tick(bound) == used' = [used EXCEPT ![bound] = @ + 1]

(***************************************************************************)
(* Worktree changes that precede a body's last steps: the agent edits the  *)
(* candidate's worktree (or does not), integration resets its worktree.    *)
(***************************************************************************)
EditedWork(c, node) ==
  IF node = "Repair" /\ ~HasRepairBudget(run.cands[c]) THEN {git.work[c]}
  ELSE {git.work[c], [cand |-> c, rev |-> git.work[c].rev + 1, wrote |-> 0]}

EditWorktree(o) ==
  /\ At(o, "Edit")
  /\ IF o = RunOwner
     THEN git' = [git EXCEPT !.tree = Baseline]
     ELSE \E content \in EditedWork(o, Call(o).node) : git' = [git EXCEPT !.work[o] = content]
  /\ Continue(o, << >>)
  /\ KeepsEngine
  /\ UNCHANGED << store, used >>

\* The nodes that run configured commands in a worktree.
GateNodes == {"Test", "Review", "FinalTest", "FinalReview"}

\* A command of a quality gate (run_tests, run_providers) changes the worktree the
\* gate runs in.  The change stays whatever becomes of the gate.
GateWrites(o) ==
  /\ At(o, "Body")
  /\ Call(o).node \in GateNodes
  /\ used.writes < MaxWrites
  /\ Tick("writes")
  /\ git' = IF o = RunOwner THEN [git EXCEPT !.tree.wrote = @ + 1]
            ELSE [git EXCEPT !.work[o].wrote = @ + 1]
  /\ KeepsEngine
  /\ UNCHANGED << todo, store >>

(***************************************************************************)
(* Failures of a body that are not its regular outcome: an error returned  *)
(* by a service it calls, or the node timeout.                             *)
(***************************************************************************)
ErrorClasses(node) ==
  {"Transient", "PermanentConfiguration", "PolicyViolation", "InternalInvariant"}
    \cup (IF node = "Prepare" THEN {"UserActionRequired"} ELSE {})
    \cup (IF node \in {"Plan", "Commit"} THEN {"TaskFailure"} ELSE {})

NodeError(o, class) ==
  /\ At(o, "Body")
  /\ class \in ErrorClasses(Call(o).node)
  /\ used.errors < MaxErrors /\ MayHappen
  /\ Tick("errors")
  /\ \E why \in Fingerprints : Produce(o, Failed(class, why, << >>))
  /\ KeepsEngine
  /\ UNCHANGED << store, git >>

(***************************************************************************)
(* Run-scoped nodes up to the fan-out.                                     *)
(***************************************************************************)
PrepareNode ==
  /\ AtBody(RunOwner, "Prepare")
  /\ Produce(RunOwner, Succeeded("Plan", << Do(BaselineResolved) >>))
  /\ KeepsEngine
  /\ UNCHANGED << store, git, used >>

PlanNode(hash) ==
  LET version == NextVersionNumber(run)
  IN  /\ AtBody(RunOwner, "Plan")
      /\ store' = [store EXCEPT !.files = WriteVersion(@, version, hash)]
      /\ Produce(RunOwner,
                 Succeeded("Approval", << Do(PlanVersionWritten(version, hash)) >>))
      /\ KeepsEngine
      /\ UNCHANGED << git, used >>

\* Mutant: ordinals counted from zero.
ZeroBasedFanOut ==
  [ i \in 1..(2 * NumCandidates) |->
      IF i % 2 = 1 THEN Do(CandidateRegistered(i \div 2))
      ELSE Do(CandidateStatusChanged((i \div 2) - 1, "Pending", "Preparing")) ]

\* Two events for each candidate, in ordinal order.
FanOutCalls ==
  [ i \in 1..(2 * NumCandidates) |->
      IF i % 2 = 1 THEN Do(CandidateRegistered((i + 1) \div 2))
      ELSE Do(CandidateStatusChanged(i \div 2, "Pending", "Preparing")) ]

FanOutNode ==
  /\ AtBody(RunOwner, "FanOut")
  /\ Produce(RunOwner, IF run.baseline THEN Succeeded("Implement", FanOutCalls)
                       ELSE Failed("InternalInvariant", 1, << >>))
  /\ KeepsEngine
  /\ UNCHANGED << store, git, used >>

(***************************************************************************)
(* Candidate-scoped nodes.                                                 *)
(***************************************************************************)
\* Implement and repair end alike: support.rs approved_plan refuses to hand out a
\* plan that is not approved, and an agent that stops early is a task failure.
AgentOutput(completed, why, calls) ==
  IF ~PlanApproved(run) THEN Failed("UserActionRequired", why, << >>)
  ELSE IF completed THEN Succeeded("Test", calls)
  ELSE Failed("TaskFailure", why, calls)

\* diff_against_baseline and write_diff, reached with an approved plan only.
StoreDiff(c) ==
  store' = IF PlanApproved(run) THEN [store EXCEPT !.diff[c] = git.work[c]] ELSE store

\* Nothing in the run bounds how often an implementation may stop early.
ImplementNode(c, completed, why) ==
  /\ AtBody(c, "Implement")
  /\ StoreDiff(c)
  /\ Produce(c, AgentOutput(completed, why, << >>))
  /\ IF completed THEN UNCHANGED used ELSE used.errors < MaxErrors /\ MayHappen /\ Tick("errors")
  /\ KeepsEngine
  /\ UNCHANGED git

TestNode(c, passed, why) ==
  /\ AtBody(c, "Test")
  /\ store' = [store EXCEPT !.tests[c] = [of |-> git.work[c], passed |-> passed]]
  /\ Produce(c, IF passed THEN Succeeded("Review", << >>)
                ELSE Failed("TaskFailure", why, << >>))
  /\ KeepsEngine
  /\ UNCHANGED << git, used >>

ReviewNode(c, passed, why) ==
  /\ AtBody(c, "Review")
  /\ store' = [store EXCEPT !.review[c] = [of |-> git.work[c], passed |-> passed]]
  /\ Produce(c, IF passed THEN [Succeeded("Join", << >>) EXCEPT !.cand = "Eligible"]
                ELSE Failed("TaskFailure", why, << >>))
  /\ KeepsEngine
  /\ UNCHANGED << git, used >>

\* latest_failure_fingerprint: of the last attempt that failed, if there is one.
LatestFailure(p, c) ==
  LET failed == {i \in DOMAIN p.attempts[c] : p.attempts[c][i].status = "Failed"}
  IN  IF failed = {} THEN {0}
      ELSE {p.attempts[c][i].why : i \in {i \in failed : \A j \in failed : j <= i}}

RepairExhausted(c, why) ==
  /\ AtBody(c, "Repair")
  /\ ~HasRepairBudget(run.cands[c])
  /\ Produce(c, [Failed("TaskFailure", why, << >>) EXCEPT !.next = "Join",
                                                         !.cand = "Ineligible"])
  /\ KeepsEngine
  /\ UNCHANGED << store, git, used >>

RepairNode(c, completed, why) ==
  /\ AtBody(c, "Repair")
  /\ HasRepairBudget(run.cands[c])
  /\ StoreDiff(c)
  /\ \E fingerprint \in LatestFailure(run, c) :
       Produce(c, AgentOutput(completed, why,
         << Do(CandidateRepairStarted(c, run.cands[c].used + 1, fingerprint)) >>))
  /\ KeepsEngine
  /\ UNCHANGED << git, used >>

(***************************************************************************)
(* Selection: join.rs with evaluate_eligibility and rank_candidates of     *)
(* domain/src/score.rs.                                                    *)
(***************************************************************************)
\* Mutant: a candidate is ranked without a passed review.
SkipsReviewGate(c) ==
  /\ Registered(run, c)
  /\ run.cands[c].status \notin {"Cancelled", "Interrupted"}
  /\ store.tests[c].passed
  /\ store.diff[c] # Baseline

\* The gates a candidate cannot be ranked without.  Whether its patch applies to
\* the baseline and whether coverage and blocking findings allow it is left open.
PassesGates(c) ==
  /\ Registered(run, c)
  /\ run.cands[c].status \notin {"Cancelled", "Interrupted"}
  /\ store.tests[c].passed
  /\ store.review[c].passed
  /\ store.diff[c] # Baseline

\* Every order of a set of candidates; the scores decide which one it is.
Orders(S) ==
  {s \in [1..Cardinality(S) -> S] : \A i, j \in DOMAIN s : s[i] = s[j] => i = j}

JoinNode(eligible) ==
  /\ AtBody(RunOwner, "Join")
  /\ eligible \subseteq {c \in Cands : PassesGates(c)}
  /\ \E ranking \in Orders(eligible) :
       LET excluded == {c \in Cands : Registered(run, c)} \ eligible
           calls == << ExcludeAll(excluded), Do(RankingComputed(ranking)) >>
       IN  Produce(RunOwner,
             IF eligible = {} THEN [Succeeded(None, calls) EXCEPT !.run = "Exhausted"]
             ELSE Succeeded("Integrate", calls \o << Do(WinnerSelected(ranking[1])) >>))
  /\ KeepsEngine
  /\ UNCHANGED << store, git, used >>

(***************************************************************************)
(* Integration, the final gates and promotion of the next candidate.       *)
(***************************************************************************)
\* Mutant: only the candidate that just failed is passed over.
PromotesAnyOther(failed) ==
  LET open == {i \in DOMAIN run.ranking : run.ranking[i] # failed}
  IN  IF open = {} THEN {NoCand}
      ELSE {run.ranking[i] : i \in {i \in open : \A j \in open : i <= j}}

\* next_promotable: the best ranked candidate that may still be tried.
NextPromotable(failed) ==
  LET open == {i \in DOMAIN run.ranking :
                 /\ run.ranking[i] # failed
                 /\ run.cands[run.ranking[i]].promotable
                 /\ ~run.cands[run.ranking[i]].attempted}
  IN  IF open = {} THEN {NoCand}
      ELSE {run.ranking[i] : i \in {i \in open : \A j \in open : i <= j}}

\* promote_next and finish_with_promotion: the winner is excluded and the next one,
\* if there is one, takes its place; otherwise the run is exhausted.
Promotion(winner, next, calls) ==
  LET all == calls \o << Do(CandidateExcluded(winner)),
                         Do(CandidatePromotionRequested(winner, next)) >>
  IN  IF next = NoCand THEN [Succeeded(None, all) EXCEPT !.run = "Exhausted"]
      ELSE Succeeded("Integrate", all)

IntegrateNode(applies) ==
  LET winner == run.winner
  IN  /\ AtBody(RunOwner, "Integrate")
      /\ winner # NoCand
      /\ applies => store.diff[winner] # Baseline
      /\ git' = [git EXCEPT !.tree = IF applies THEN store.diff[winner] ELSE @]
      /\ \E next \in NextPromotable(winner) :
           LET attempted == << Do(IntegrationAttempted(winner, applies)) >>
           IN  Produce(RunOwner, IF applies THEN Succeeded("FinalTest", attempted)
                                 ELSE Promotion(winner, next, attempted))
      /\ KeepsEngine
      /\ UNCHANGED << store, used >>

Verdict(passed) == IF passed THEN "Pass" ELSE "Fail"

\* final_test and final_review differ in the evidence file and in the successor.
FinalOutput(passed, next, promoted, evidence) ==
  IF passed THEN Succeeded(next, << evidence >>)
  ELSE Promotion(run.winner, promoted, << evidence >>)

FinalTestNode(passed) ==
  /\ AtBody(RunOwner, "FinalTest")
  /\ run.winner # NoCand
  /\ store' = [store EXCEPT !.tests[RunOwner] = [of |-> git.tree, passed |-> passed]]
  /\ \E promoted \in NextPromotable(run.winner) :
       Produce(RunOwner, FinalOutput(passed, "FinalReview", promoted,
                                     Do(FinalTestEvidence(Verdict(passed)))))
  /\ KeepsEngine
  /\ UNCHANGED << git, used >>

FinalReviewNode(passed) ==
  /\ AtBody(RunOwner, "FinalReview")
  /\ run.winner # NoCand
  /\ store' = [store EXCEPT !.review[RunOwner] = [of |-> git.tree, passed |-> passed]]
  /\ \E promoted \in NextPromotable(run.winner) :
       Produce(RunOwner, FinalOutput(passed, "CommitApproval", promoted,
                                     Do(FinalReviewEvidence(Verdict(passed)))))
  /\ KeepsEngine
  /\ UNCHANGED << git, used >>

(***************************************************************************)
(* The commit: commit.rs and create_commit of infrastructure/src/git.rs.   *)
(***************************************************************************)
\* Mutant: the commit is made with --allow-empty.
AlwaysStaged == FALSE

\* Staging finds nothing when the branch already holds the integrated content.
NothingStaged ==
  git.branch # << >> /\ git.branch[Len(git.branch)] = git.tree

CommitOutput ==
  IF git.tree = Baseline THEN Failed("TaskFailure", 1, << >>)
  ELSE IF NothingStaged THEN Failed("Transient", 1, << >>)
  ELSE [Succeeded(None, << Do(CommitCreated) >>) EXCEPT !.run = "Succeeded"]

CommitNode ==
  /\ AtBody(RunOwner, "Commit")
  /\ git' = IF git.tree = Baseline \/ NothingStaged THEN git
            ELSE [git EXCEPT !.branch = Append(@, git.tree)]
  /\ Produce(RunOwner, CommitOutput)
  /\ KeepsEngine
  /\ UNCHANGED << store, used >>

\* No configured Git email, or signing that needs the operator.
CommitPauses ==
  /\ AtBody(RunOwner, "Commit")
  /\ "UserActionRequired" \in Faults
  /\ Produce(RunOwner, Paused)
  /\ KeepsEngine
  /\ UNCHANGED << store, git, used >>

NodeBody ==
  \/ \E o \in Owners : EditWorktree(o) \/ GateWrites(o)
  \/ \E o \in Owners, class \in Faults : NodeError(o, class)
  \/ PrepareNode
  \/ \E hash \in Hashes : PlanNode(hash)
  \/ FanOutNode
  \/ \E c \in Cands, ok \in BOOLEAN, why \in Fingerprints :
        \/ ImplementNode(c, ok, why)
        \/ TestNode(c, ok, why)
        \/ ReviewNode(c, ok, why)
        \/ RepairNode(c, ok, why)
  \/ \E c \in Cands, why \in Fingerprints : RepairExhausted(c, why)
  \/ \E eligible \in SUBSET Cands : JoinNode(eligible)
  \/ \E ok \in BOOLEAN : IntegrateNode(ok) \/ FinalTestNode(ok) \/ FinalReviewNode(ok)
  \/ CommitNode
  \/ CommitPauses
=============================================================================
