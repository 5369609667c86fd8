--------------------------- MODULE GatesProperties ---------------------------
(***************************************************************************)
(* What the configuration of a run and the quality gates must guarantee.   *)
(*                                                                         *)
(* A run is checked in two parts, for a run no longer looks at a file once *)
(* it is created: the part up to the creation, and the gates of one        *)
(* candidate under any configuration of Accepted.  RunIsCovered is what    *)
(* joins the two.                                                          *)
(***************************************************************************)
EXTENDS QualityGates

allVars == << configVars, gateVars >>

\* The settings the gates read.
GateView(c) == [s \in GateSettings |-> c[s]]
AcceptedViews == {GateView(c) : c \in Accepted}

NoGates ==
  /\ configuration = GateView(BaseConfiguration) /\ gate = [Fresh EXCEPT !.pc = "idle"]
  /\ worktree = Clean /\ reports = << >> /\ facts = NoFacts /\ cancelled = FALSE
  /\ evidence = [tests |-> NoTests, review |-> NoReview]
NoConfiguration ==
  /\ user = NoDocument /\ file = NoDocument /\ trust = NoDocument /\ terminal = NoCommand
  /\ resolution = [Idle EXCEPT !.pc = "elsewhere"]
  /\ reviewed = {} /\ written = {} /\ interventions = 0

Init ==
  \/ ConfigurationInit /\ NoGates
  \/ NoConfiguration /\ \E c \in AcceptedViews : GatesInit(c)

Next ==
  \/ gate.pc = "idle" /\ ConfigurationNext /\ UNCHANGED gateVars
  \/ GatesNext /\ UNCHANGED configVars

Spec == Init /\ [][Next]_allVars

(***************************************************************************)
(* The configuration.                                                      *)
(***************************************************************************)
\* The configuration has every setting, the history of trust is what was trusted, and the
\* gates are at a known point.
GatesTypeOK ==
  /\ DOMAIN resolution.effective = Settings
  /\ trust # NoDocument => trust \in reviewed
  /\ terminal.pc \in {"idle", "writing", "granting"}
  /\ gate.pc \in {"idle", "editing", "testing", "reviewing", "providers", "joining", "done", "stopped"}
  /\ gate.attempt \in 1..RepairBudget + 1
  /\ Len(gate.records) <= Len(Tests) /\ worktree \in Worktrees \cup {Clean}

\* The configuration as it was resolved, before the owner's request was applied to it.
Resolved == resolution.pc \in {"detected", "surveyed"}
Here == resolution.bytes

\* What a repository may only set once it is trusted comes from the owner, or from bytes
\* that the owner has trusted as they were: an edit after the review, between the reading
\* of the file and the look at the record, takes no effect (resolve_trust).  Commands may
\* also be the ones the survey proposes, where the owner or those bytes have an empty catalogue.
TrustIsForTheseBytes ==
  Resolved =>
    \A s \in Ruled({"trust"}) :
      LET effective == resolution.effective[s]
          owner     == UserConfiguration[s]
          Trusted(value) == Here \in reviewed /\ Declares(Here, s) /\ Here.declared[s] = value
      IN  \/ effective = owner \/ Trusted(effective)
          \/ /\ s = "commands" /\ effective \in Proposals
             /\ owner = << >> \/ Trusted(<< >>)

\* Whether it is trusted or not, a repository sets no budget, switch, profile, minimum or read
\* and write limit to a more permissive value than the owner's, drops no entry of a list, and
\* leaves the owner's own settings and the allow list as they are (AuthorityGate).  Values are
\* compared as they are set.  Two things are not covered: ai_enabled, which a repository sets
\* freely, as it does the projects and time limits of the scanners; and the coverage that
\* applies where the owner sets no minimum but asks for the strict profile.  ReviewStaysEnabled
\* and CoverageOnlyTightens show what happens there.
RepositoryOnlyTightens ==
  Resolved =>
    \A s \in Settings :
      LET effective == resolution.effective[s]
          owner     == UserConfiguration[s]
      IN  /\ Rule[s] \in {"tighten", "limit"} => effective <= owner
          /\ Rule[s] = "list" => owner \subseteq effective
          /\ Rule[s] \in {"owner", "allowlist"} => effective = owner

\* A setting of the repository's file that has no effect is reported to the owner as
\* withheld (withheld).  Two are not: a limit that would rise and an allow list that names
\* nothing the owner's does not; see WithheldIsRecorded.  An empty catalogue asks for the survey.
DroppedQuietly(s) ==
  LET owner == UserConfiguration[s]
  IN  \/ Rule[s] = "limit" /\ Here.declared[s] > owner
      \/ Rule[s] = "allowlist" /\ Here.declared[s] \subseteq owner
TakenOrReported(s) ==
  \/ \E reason \in {"user_configuration_only", "requires_repository_trust",
                    "would_weaken_policy"} : << s, reason >> \in resolution.withheld
  \/ Rule[s] = "list" /\ Here.declared[s] \subseteq resolution.effective[s]
  \/ s = "commands" /\ Here.declared[s] = << >>
  \/ resolution.effective[s] = Here.declared[s]
NothingLostQuietly ==
  Resolved =>
    \A s \in DOMAIN Here.declared : DroppedQuietly(s) \/ TakenOrReported(s)

\* The file `heikas init` wrote means the configuration it was written from: as long as
\* the owner has not revoked the trust in it, every setting in it is in force
\* (render_document and apply).
InitKeepsSettings ==
  Resolved /\ resolution.trusted /\ Here \in written =>
    \A s \in DOMAIN Here.declared : resolution.effective[s] = Here.declared[s]

\* Every run is created with settings the gates were checked under: what races with the
\* creation, an edit, a grant or `heikas init`, adds no other (create_run).
RunIsCovered ==
  resolution.pc = "created" => GateView(resolution.effective) \in AcceptedViews

(***************************************************************************)
(* The gates.                                                              *)
(***************************************************************************)
RequiredIds(commands) == {commands[i].id : i \in {j \in DOMAIN commands : commands[j].required}}
CountsSkippedTests(id) == \E i \in DOMAIN Tests : Tests[i].id = id /\ Tests[i].format = "ctest"

Tampered ==
  \/ worktree.tests \in Tamperings /\ "tests" \notin worktree.approved
  \/ worktree.quality # "kept" /\ "quality" \notin worktree.approved

\* A candidate that may win has, in its last attempt and not in an earlier one, passed every
\* required test and review command, each shown by a report of its own (evaluate_eligibility
\* on what is stored).  A report an earlier attempt left behind, and the summary of ctest,
\* are the exceptions: see ReportsAreOfThisRun and SkippedDoNotCount.
EligibleIsProven ==
  gate.decision = "eligible" =>
    \A id \in RequiredIds(Commands) :
      id \in facts.ok \/ id \in facts.stale \/ CountsSkippedTests(id)

\* These things exclude a candidate when they happen in its last attempt, whatever was stored
\* for an earlier one: existing tests or a quality configuration changed without approval
\* while protect_tests is on and the changed paths could be listed, a scanner or the MCP
\* adapter that failed, a promoted finding of the agent in a category the join looks for, an
\* error of a gate, a kind of review the profile asks for and no command makes, a diff that
\* does not apply (evaluate_eligibility and blocker_policy_issues).  A promoted finding of
\* another category and a listing that failed do not: see PromotedFindingsBlock and
\* TamperingBlocks.
NothingAgainstEligible ==
  gate.decision = "eligible" =>
    /\ Tampered => configuration["protect_tests"] # 0 \/ ~facts.listed
    /\ facts.rejected = {} /\ worktree.diff = "applies"
    /\ MissingKinds = {}

\* Nothing else excludes a candidate: an optional command, an agent's opinion or a warning
\* never does (ReviewReport::required, advisory).
ProvenIsEligible ==
  gate.decision = "excluded" =>
    \/ \E id \in RequiredIds(Commands) : id \notin facts.ok
    \/ Tampered \/ facts.rejected # {} \/ worktree.diff # "applies" \/ ~CoverageSuffices

(***************************************************************************)
(* Statements of the documents that the code does not live up to.          *)
(***************************************************************************)
\* docs/architecture/agent-security.md: "Settings that carry a safety meaning may only be
\* tightened".  An owner who asks for the strict profile and names no minimum has that of the
\* profile; a minimum the repository declares takes its place, however low.
CoverageOnlyTightens ==
  Resolved => MinimumLineCoverage(resolution.effective) <= MinimumLineCoverage(UserConfiguration)

\* The same sentence: a repository turns the owner's agent review off, and with it the rules
\* of gate_rules that promote its findings.
ReviewStaysEnabled ==
  Resolved => resolution.effective["ai_enabled"] <= UserConfiguration["ai_enabled"]

\* docs/architecture/agent-security.md: "a repository can never quietly lose a setting".
WithheldIsRecorded == Resolved => \A s \in DOMAIN Here.declared : TakenOrReported(s)

\* docs/architecture/quality-providers.md: "A missing required report is a failure, never a
\* pass".  read_report takes the file an earlier attempt left.
ReportsAreOfThisRun ==
  gate.decision = "eligible" =>
    \A id \in RequiredIds(Commands) : id \in facts.ok \/ CountsSkippedTests(id)

\* docs/architecture/quality-providers.md: "Skipped and ignored tests do not count as
\* executed".  The summary of ctest counts them.
SkippedDoNotCount ==
  gate.decision = "eligible" =>
    \A id \in RequiredIds(Commands) : id \in facts.ok \/ id \in facts.stale

\* docs/architecture/quality-providers.md: "a configured deterministic rule promotes a
\* specific rule identifier to a blocker".  The report of the agent is not a required one,
\* and the join looks for blockers of two categories only.
PromotedFindingsBlock == gate.decision = "eligible" => ~facts.promoted

\* docs/architecture/quality-providers.md: the local provider compares "every changed test
\* file and every changed quality configuration file".  A listing that fails names none.
TamperingBlocks ==
  gate.decision = "eligible" /\ configuration["protect_tests"] = 0 => ~Tampered
=============================================================================
