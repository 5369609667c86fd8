----------------------------- MODULE QualityGates -----------------------------
(***************************************************************************)
(* What a candidate has to pass: the test commands and their evidence      *)
(* (crates/infrastructure/src/quality/test_runner.rs), the review providers*)
(* (local_provider.rs, integrity.rs, sonar.rs, ai_review.rs), the verdicts *)
(* of the test and review nodes, and the eligibility the join node decides *)
(* from what was stored (crates/domain/src/score.rs).                      *)
(*                                                                         *)
(* One candidate, from the first edit of its worktree to the decision, with*)
(* repairs in between.  What an agent edits, what a command prints and     *)
(* leaves behind, and what the scanners find is chosen freely.             *)
(***************************************************************************)
EXTENDS Configuration, TestReports

CONSTANTS
  Outputs,        \* what a command prints or puts into its report, by format
  Endings,        \* how a process may end
  Coverages,      \* what an LCOV report may measure
  Worktrees,      \* what an agent may leave behind
  RepairBudget    \* max_repairs_per_candidate

\* What an agent may do to the existing tests and to the quality configuration, what the
\* approved plan names, and what the diff is like.
Tamperings == {"fewer", "skips", "gone"}      \* what evaluate calls a blocker
Worktree ==
  [tests : Tamperings \cup {"kept", "weak", "renamed"}, quality : {"kept", "lower", "gone"},
   approved : SUBSET {"tests", "quality"}, diff : {"applies", "conflicts", "empty"}]

ASSUME GatesAssumption ==
  /\ RepairBudget \in Nat /\ Worktrees \subseteq Worktree
  /\ Endings \subseteq {"ok", "failed", "timed_out", "cancelled"}

VARIABLES
  configuration,  \* the settings of the run the gates read
  gate,           \* the candidate and the gate it is at
  worktree,       \* what the agent made of the tests and the quality configuration
  reports,        \* the report files of the worktree, by command
  evidence,       \* what is stored: the last test evidence and the last review
  facts,          \* history: what really happened in the current attempt
  cancelled       \* the cancellation signal

gateVars == << configuration, gate, worktree, reports, evidence, facts, cancelled >>

GateSettings ==
  {"commands", "profile", "minimum_line_coverage", "protect_tests", "scanner_enabled",
   "mcp_enabled", "ai_enabled", "gate_rules"}
Commands == configuration["commands"]
Tests == InPhase(Commands, TRUE)
Reviews == InPhase(Commands, FALSE)

NoReport == [attempt |-> 0, lines |-> << >>, coverage |-> Unset]
NoTests == [commands |-> << >>, coverage |-> Unset]
NoReview == [reports |-> {}, blocker |-> FALSE]
Clean == [tests |-> "kept", quality |-> "kept", approved |-> {}, diff |-> "applies"]

\* The history of an attempt: the required commands that did what they should of their own accord,
\* those whose report was written by an earlier run, whether the changed paths could be listed,
\* whether the agent's review has a finding a configured rule promotes to a blocker, and who
\* else spoke against the change.
NoFacts == [ok |-> {}, stale |-> {}, listed |-> TRUE, promoted |-> FALSE, rejected |-> {}]

AtGate(pc) == gate.pc = pc
Fresh ==
  [pc |-> "editing", attempt |-> 1, index |-> 1, records |-> << >>, failed |-> FALSE,
   review |-> NoReview, decision |-> "open"]

GatesInit(c) ==
  /\ configuration = c /\ gate = Fresh /\ worktree = Clean
  /\ reports = [x \in {c["commands"][i].id : i \in DOMAIN c["commands"]} |-> NoReport]
  /\ evidence = [tests |-> NoTests, review |-> NoReview] /\ facts = NoFacts
  /\ cancelled = FALSE

(***************************************************************************)
(* The worktree.                                                           *)
(***************************************************************************)
\* The agent edits the tests and the quality configuration as it likes, and the diff of
\* what it left is stored.
Implement(w) ==
  /\ AtGate("editing") /\ ~cancelled
  /\ worktree' = w /\ facts' = NoFacts
  /\ gate' = [gate EXCEPT !.pc = "testing", !.index = 1, !.records = << >>, !.failed = FALSE,
                          !.review = NoReview]
  /\ UNCHANGED << configuration, reports, evidence, cancelled >>

(***************************************************************************)
(* The test gate: run_tests and build_record.                              *)
(***************************************************************************)
\* What a process did: how it ended, what it printed, whether it wrote its report.
Process(ending, lines, writes, coverage) ==
  [ending |-> ending, lines |-> lines, writes |-> writes, coverage |-> coverage]

\* read_report: the file that is there, whichever run of the command wrote it.
FoundReport(command, p) ==
  IF p.writes THEN [attempt |-> gate.attempt, lines |-> p.lines, coverage |-> p.coverage]
  ELSE reports[command.id]

SummaryOf(command, p) ==
  ParseOutput(command.format, IF command.format = "junit" THEN FoundReport(command, p).lines
                              ELSE p.lines)
ReportMissing(command, p) ==
  command.format \in FileFormats /\ FoundReport(command, p).attempt = 0
\* A coverage command whose report measures nothing is taken at what it prints.
CoverageOf(command, p) ==
  LET found == IF command.format = "lcov" THEN FoundReport(command, p).coverage ELSE Unset
  IN  IF found = Unset /\ command.kind = "coverage" /\ ~p.writes THEN p.coverage ELSE found

ExecutedNothing(command, p) ==
  command.format \in CountingFormats /\ command.kind = "test" /\ Executed(SummaryOf(command, p)) = 0

Outcome(command, p) ==
  IF p.ending = "cancelled" THEN "cancelled"
  ELSE IF p.ending = "timed_out" THEN "timed_out"
  ELSE IF p.ending # "ok" \/ SummaryOf(command, p).failed > 0 THEN "failed"
  ELSE IF command.required /\ (ReportMissing(command, p) \/ ExecutedNothing(command, p))
       THEN "report_missing"
  ELSE "passed"

Record(command, outcome, coverage) ==
  [id |-> command.id, required |-> command.required, outcome |-> outcome, coverage |-> coverage]

\* TestEvidence: the verdicts that are drawn from the records.
AllRequiredPassed(records) ==
  \A i \in DOMAIN records : records[i].required => records[i].outcome = "passed"
LastCoverage(records) ==
  LET measured == {i \in DOMAIN records : records[i].coverage # Unset}
  IN  IF measured = {} THEN Unset ELSE records[CHOOSE i \in measured : \A j \in measured : j <= i].coverage

\* A command did what it should: it succeeded, wrote its report, and showed a test that
\* passed and none that failed.
PassesByItself(command, p) ==
  /\ p.ending = "ok"
  /\ command.format \in FileFormats => p.writes
  /\ \A i \in DOMAIN p.lines : p.lines[i].failed = 0
  /\ command.format \in CountingFormats /\ command.kind = "test" =>
       \E i \in DOMAIN p.lines : p.lines[i].passed > 0
Noted(command, p) ==
  LET note == IF command.required THEN {command.id} ELSE {}
  IN  [facts EXCEPT
         !.ok = IF PassesByItself(command, p) THEN @ \cup note ELSE @,
         !.stale = IF ~p.writes /\ FoundReport(command, p).attempt > 0 THEN @ \cup note ELSE @]

\* The process supervisor reports a cancellation only if there was one.
MayEnd(p) == p.ending = "cancelled" => cancelled
Left(command, p) == [reports EXCEPT ![command.id] = FoundReport(command, p)]

\* Once the run is cancelled a command is recorded without being started.
TestCommand(p) ==
  /\ AtGate("testing") /\ gate.index <= Len(Tests) /\ MayEnd(p)
  /\ LET command == Tests[gate.index]
         record  == IF cancelled THEN Record(command, "cancelled", Unset)
                    ELSE Record(command, Outcome(command, p), CoverageOf(command, p))
     IN  /\ gate' = [gate EXCEPT !.index = @ + 1, !.records = Append(@, record)]
         /\ reports' = IF cancelled THEN reports ELSE Left(command, p)
         /\ facts' = IF cancelled THEN facts ELSE Noted(command, p)
  /\ UNCHANGED << configuration, worktree, evidence, cancelled >>

\* Where a failed candidate goes.
\* Mutant: the budget is not looked at.
RepairsAlways == "editing"
AfterFailure == IF gate.attempt > RepairBudget THEN "joining" ELSE "editing"
Ended(pc) == [gate EXCEPT !.pc = IF cancelled THEN "stopped" ELSE pc, !.index = 1,
                          !.attempt = IF pc = "editing" THEN @ + 1 ELSE @]

\* The test node stores the evidence, whatever it says, and decides from it.
TestNodeEnds ==
  /\ AtGate("testing") /\ gate.index > Len(Tests)
  /\ evidence' = [evidence EXCEPT !.tests = [commands |-> gate.records,
                                             coverage |-> LastCoverage(gate.records)]]
  /\ gate' = Ended(IF AllRequiredPassed(gate.records) THEN "reviewing" ELSE AfterFailure)
  /\ UNCHANGED << configuration, worktree, reports, facts, cancelled >>

(***************************************************************************)
(* The review gate: the local provider.                                    *)
(***************************************************************************)
\* run_command: only the SARIF report is looked for, where the command left it.
ReviewFails(command, p) ==
  \/ p.ending # "ok"
  \/ command.format = "sarif" /\ command.required /\ FoundReport(command, p).attempt = 0

\* A failure of a required command is a blocker, and one the join looks for if it is a
\* policy command; findings of a SARIF report are never blockers.
ReviewCommand(p) ==
  /\ AtGate("reviewing") /\ gate.index <= Len(Reviews) /\ MayEnd(p)
  /\ LET command == Reviews[gate.index]
         blocks  == command.required /\ ReviewFails(command, p)
     IN  /\ gate' = [gate EXCEPT !.index = @ + 1, !.failed = @ \/ blocks,
                       !.review.blocker = @ \/ (blocks /\ command.kind = "policy")]
         /\ reports' = Left(command, p)
         /\ facts' = Noted(command, p)
  /\ UNCHANGED << configuration, worktree, evidence, cancelled >>

\* integrity::evaluate.  Changed paths are listed with renames followed, so a test file
\* that moved is new at the baseline and is passed over; a listing that fails is empty.
IntegrityBlocks(listed) ==
  /\ configuration["protect_tests"] = 0 /\ listed
  /\ \/ worktree.tests \in Tamperings /\ "tests" \notin worktree.approved
     \/ worktree.quality # "kept" /\ "quality" \notin worktree.approved

MissingKinds ==
  {k \in RequiredReviewKinds(configuration["profile"]) : OfKind(Reviews, k) = {}}

Report(provider, required, passed) ==
  [provider |-> provider, required |-> required, passed |-> passed]

\* The report of the local provider, and what of it the join calls a blocker.
LocalReport(listed) ==
  /\ AtGate("reviewing") /\ gate.index > Len(Reviews)
  /\ LET blocks == IntegrityBlocks(listed) \/ MissingKinds # {}
         passed == ~gate.failed /\ ~blocks
     IN  gate' = [gate EXCEPT !.pc = "providers", !.index = 1, !.failed = FALSE,
                    !.review.blocker = @ \/ blocks,
                    !.review.reports = @ \cup {Report("local", TRUE, passed)}]
  /\ facts' = [facts EXCEPT !.listed = listed]
  /\ UNCHANGED << configuration, worktree, reports, evidence, cancelled >>

(***************************************************************************)
(* The other providers, each if it is enabled, and the end of the node.    *)
(***************************************************************************)
Providers == << "scanner", "mcp", "ai" >>
EnabledLevel == [scanner |-> "scanner_enabled", mcp |-> "mcp_enabled", ai |-> "ai_enabled"]
Enabled(provider) == configuration[EnabledLevel[provider]] = 0

\* An external scanner passes by its exit status, the MCP adapter by the verdict it prints.
\* The agent that reviews finds nothing, or something under a rule that gates or not, of a
\* category the join excludes for or another; it is skipped where it is not available.
Verdicts(provider) ==
  IF provider = "ai" THEN {"passed", "noted", "gated", "gated_policy", "skipped"}
  ELSE {"passed", "failed"}
Promoted(verdict) == verdict \in {"gated", "gated_policy"}

\* Mutant: the agent's report counts as a required one.
RequiresAdvisory(provider, verdict) == Report(provider, TRUE, verdict \in {"passed", "noted"})
ReportOf(provider, verdict) ==
  Report(provider, provider # "ai", verdict \in {"passed", "noted"})

Provider(verdict) ==
  /\ AtGate("providers") /\ gate.index <= Len(Providers)
  /\ LET provider == Providers[gate.index]
     IN  /\ IF Enabled(provider) THEN verdict \in Verdicts(provider) ELSE verdict = "skipped"
         /\ Promoted(verdict) => configuration["gate_rules"] # {}
         /\ gate' = [gate EXCEPT !.index = @ + 1,
                       !.review.blocker = @ \/ verdict = "gated_policy",
                       !.review.reports = IF verdict = "skipped" THEN @
                                          ELSE @ \cup {ReportOf(provider, verdict)}]
         /\ facts' = [facts EXCEPT
                        !.promoted = @ \/ Promoted(verdict),
                        !.rejected = IF verdict \in {"failed", "gated_policy"}
                                     THEN @ \cup {provider} ELSE @]
  /\ UNCHANGED << configuration, worktree, reports, evidence, cancelled >>

RequiredReportsPassed(review) == \A r \in review.reports : r.required => r.passed
HasRequiredProvider(review) == \E r \in review.reports : r.required

\* The review node stores the review and decides from it.
ReviewNodeEnds ==
  /\ AtGate("providers") /\ gate.index > Len(Providers)
  /\ evidence' = [evidence EXCEPT !.review = gate.review]
  /\ gate' = Ended(IF RequiredReportsPassed(gate.review) /\ HasRequiredProvider(gate.review)
                   THEN "joining" ELSE AfterFailure)
  /\ UNCHANGED << configuration, worktree, reports, facts, cancelled >>

\* A command that cannot be started, a report that cannot be parsed, a required provider
\* that is not there, an agent or an adapter that answers with an error: the node fails
\* and stores nothing.
GateError ==
  /\ gate.pc \in {"testing", "reviewing", "providers"} /\ ~cancelled
  /\ gate' = [gate EXCEPT !.pc = "joining"]
  /\ facts' = [facts EXCEPT !.rejected = @ \cup {"error"}]
  /\ UNCHANGED << configuration, worktree, reports, evidence, cancelled >>

(***************************************************************************)
(* The join: evaluate_eligibility on what is stored.                       *)
(***************************************************************************)
CoverageSuffices ==
  \/ evidence.tests.coverage = Unset
  \/ evidence.tests.coverage <= MinimumLineCoverage(configuration)

\* Mutant: a blocker of the review does not exclude.
PassesBlockers ==
  /\ AllRequiredPassed(evidence.tests.commands)
  /\ HasRequiredProvider(evidence.review) /\ RequiredReportsPassed(evidence.review)
  /\ worktree.diff = "applies"
  /\ CoverageSuffices
Eligible ==
  /\ AllRequiredPassed(evidence.tests.commands)
  /\ HasRequiredProvider(evidence.review) /\ RequiredReportsPassed(evidence.review)
  /\ ~evidence.review.blocker
  /\ worktree.diff = "applies"
  /\ CoverageSuffices

Join ==
  /\ AtGate("joining") /\ ~cancelled
  /\ gate' = [gate EXCEPT !.pc = "done", !.decision = IF Eligible THEN "eligible" ELSE "excluded"]
  /\ UNCHANGED << configuration, worktree, reports, evidence, facts, cancelled >>

\* The owner cancels; a node that runs ends, and no other is started.
Cancel ==
  /\ gate.pc \notin {"idle", "done", "stopped"} /\ ~cancelled
  /\ cancelled' = TRUE
  /\ gate' = IF gate.pc \in {"editing", "joining"} THEN [gate EXCEPT !.pc = "stopped"] ELSE gate
  /\ UNCHANGED << configuration, worktree, reports, evidence, facts >>

\* What a process may do, as far as the command's format is read.
Processes(command) ==
  {p \in {Process(e, l, w, v) :
            e \in Endings, l \in Outputs[command.format],
            w \in IF command.format \in FileFormats THEN BOOLEAN ELSE {FALSE},
            v \in IF command.format = "lcov" THEN Coverages ELSE {Unset}} :
     p.ending # "ok" => p.lines = << >>}
At(commands) == IF gate.index <= Len(commands) THEN {commands[gate.index]} ELSE {}

GatesNext ==
  \/ \E w \in Worktrees : Implement(w)
  \/ \E c \in At(Tests) : \E p \in Processes(c) : TestCommand(p)
  \/ \E c \in At(Reviews) : \E p \in Processes(c) : ReviewCommand(p)
  \/ \E listed \in BOOLEAN : LocalReport(listed)
  \/ \E v \in Verdicts("ai") \cup {"failed"} : Provider(v)
  \/ TestNodeEnds \/ ReviewNodeEnds \/ GateError \/ Join \/ Cancel
=============================================================================
