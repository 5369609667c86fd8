----------------------------- MODULE EngineClaims -----------------------------
(***************************************************************************)
(* Statements of the repository's documents about the engine that the code *)
(* does not live up to.  Each is violated in a run of its own; README.md   *)
(* tells what happens in each counterexample.                              *)
(***************************************************************************)
EXTENDS EngineProperties

\* docs/architecture/graph-reducer.md: a transient infrastructure failure retries
\* the same node.  Where such failures are the only ones, no dispatch ends in error
\* (apply_retry_decision, NodeResult::validate).
TransientFailureIsRetried == outcome # "Error"

\* README.md: the winning patch is applied to a clean integration worktree and every
\* required gate runs again before it is committed.  What is committed is what those
\* gates saw (commit.rs stages whatever changed_paths finds in the worktree).
CommittedIsVerified ==
  [][ git'.branch # git.branch =>
        /\ store.tests[RunOwner].of = git.tree
        /\ store.review[RunOwner].of = git.tree ]_git

\* docs/architecture/graph-reducer.md: the next step is derived from the projection,
\* and cancellation comes before the candidate subgraphs.  Once the run has ended, no
\* task records another attempt (execute_node looks at the signal and appends
\* NodeStarted later).
NothingStartsAfterTheEnd ==
  [][ run.status \in RunTerminal =>
        \A o \in Owners : Len(run'.attempts[o]) = Len(run.attempts[o]) ]_run

\* docs/architecture/graph-reducer.md: a candidate that crashed mid-flight resumes at
\* the right place.  No dispatch meets a candidate without a step (next_candidate_step).
CrashedCandidatesResume == (lock = "dispatch") ~> (lock = "free")

\* domain/src/retry.rs decides that an internal invariant failure, which never retries,
\* fails the run, also in the node of a candidate (apply_state_patch fails the run for
\* the run's own nodes only).
FailRunFailsRun ==
  \A c \in Cands :
    (run.attempts[c] # << >> /\ run.attempts[c][Len(run.attempts[c])].status = "Failed"
        /\ run.attempts[c][Len(run.attempts[c])].next = None)
      ~> (run.status = "Failed")

\* docs/architecture/candidate-selection.md: a winner that fails a final gate is marked
\* non-promotable and the next ranked promotable candidate is tried.  A crash between the
\* mark and the promotion leaves it the winner: the gate is run on it again, and a second
\* verdict may pass (promotion_events, next_run_step).
ExcludedIsNotJudgedAgain ==
  [][ \/ run.integration.tests = "Fail" /\ run'.integration.tests = "Pass"
      \/ run.integration.review = "Fail" /\ run'.integration.review = "Pass"
      => run.cands[run.integration.applied].promotable ]_run

\* docs/architecture/candidate-selection.md: the run ends as exhausted when no candidate
\* remains.  A crash between RankingComputed and WinnerSelected leaves a ranked run
\* without a winner (join.rs, next_run_step).
ExhaustedMeansNoneRemains ==
  outcome = "Exhausted" =>
    \A i \in DOMAIN run.ranking :
      LET record == run.cands[run.ranking[i]]
      IN  ~record.promotable \/ record.attempted
=============================================================================
