---------------------------- MODULE RunProjection ----------------------------
(***************************************************************************)
(* The projection of one run and the reducer that folds durable events     *)
(* into it: crates/domain/src/state.rs, with the plan history of plan.rs   *)
(* and the candidate record of candidate.rs.                               *)
(*                                                                         *)
(* A projection is a record.  Accepts(p, e) is the condition under which   *)
(* RunProjection::reduce returns Ok, Reduce(p, e) the projection it leaves *)
(* behind.  Timestamps, metrics, digests and descriptive text are left     *)
(* out, and so are the payloads that change nothing else (RunCreated,      *)
(* ConfigurationSnapshotted, NodeRetryScheduled, CandidateDiffRecorded,    *)
(* CandidateScored, RecoveryStarted, RecoveryCompleted, RunExported, the   *)
(* gate evidence of a candidate, and the supervision, artifact and         *)
(* diagnostic records).                                                    *)
(***************************************************************************)
EXTENDS Lifecycle, Sequences, FiniteSets

CONSTANTS
  NumCandidates,     \* budgets.candidates
  RepairBudget,      \* budgets.max_repairs_per_candidate
  NumPlans,          \* how many different plan documents exist
  NumFingerprints    \* how many different failure summaries exist

ASSUME ConstantsAssumption ==
  /\ NumCandidates \in Nat \ {0}
  /\ RepairBudget \in Nat
  /\ NumPlans \in Nat \ {0}
  /\ NumFingerprints \in Nat \ {0}

Cands == 1..NumCandidates
NoCand == 0
\* An attempt belongs to a candidate, or to the run itself (candidate_id: None).
RunOwner == 0
Owners == 0..NumCandidates

\* A plan document is identified by its hash, a failure by its summary; 0 is none.
Hashes == 1..NumPlans
Fingerprints == 1..NumFingerprints

AttemptStatus ==
  {"Started", "Succeeded", "Failed", "Paused", "Cancelled", "Interrupted"}

GateOutcome == {"Unknown", "Pass", "Fail"}

(***************************************************************************)
(* The shape of a projection.                                              *)
(***************************************************************************)
Attempt ==
  [ node : Nodes, number : Nat, status : AttemptStatus,
    next : Nodes \cup {None}, why : Fingerprints \cup {0} ]

PlanVersion == [ version : Nat, hash : Hashes ]

Decision == {"Approved", "RevisionRequested", "Rejected"}

\* Option<PlanApproval>; decision None is the absent approval.
Approval == [ decision : Decision \cup {None}, version : Nat, hash : Hashes \cup {0} ]

CandidateRecord ==
  [ status : CandidateStatus \cup {"Absent"},
    used : Nat,              \* repairs_used
    fingerprint : Fingerprints \cup {0},
    repeated : Nat,          \* repeated_fingerprint_count
    promotable : BOOLEAN,
    attempted : BOOLEAN ]    \* integration_attempted

Integration ==
  [ applied : Cands \cup {NoCand}, tests : GateOutcome, review : GateOutcome ]

Projection ==
  [ status : RunStatus,
    baseline : BOOLEAN,
    versions : Seq(PlanVersion),
    approval : Approval,
    cands : [Cands -> CandidateRecord],
    attempts : [Owners -> Seq(Attempt)],
    ranked : BOOLEAN,        \* ranking.is_some()
    ranking : Seq(Cands),    \* the eligible entries in rank order
    winner : Cands \cup {NoCand},
    integration : Integration,
    commit : BOOLEAN,
    commitApproved : BOOLEAN,
    cancelRequested : BOOLEAN ]

NoApproval == [decision |-> None, version |-> 0, hash |-> 0]

AbsentCandidate ==
  [ status |-> "Absent", used |-> 0, fingerprint |-> 0, repeated |-> 0,
    promotable |-> TRUE, attempted |-> FALSE ]

\* IntegrationRecord with this applied candidate and no final gate outcome yet.
Unjudged(c) == [applied |-> c, tests |-> "Unknown", review |-> "Unknown"]

\* RunProjection::genesis.
Genesis ==
  [ status |-> "Created",
    baseline |-> FALSE,
    versions |-> << >>,
    approval |-> NoApproval,
    cands |-> [c \in Cands |-> AbsentCandidate],
    attempts |-> [o \in Owners |-> << >>],
    ranked |-> FALSE,
    ranking |-> << >>,
    winner |-> NoCand,
    integration |-> Unjudged(NoCand),
    commit |-> FALSE,
    commitApproved |-> FALSE,
    cancelRequested |-> FALSE ]

(***************************************************************************)
(* Queries.                                                                *)
(***************************************************************************)
Registered(p, c) == p.cands[c].status # "Absent"

NonTerminal(p) ==
  {c \in Cands : Registered(p, c) /\ p.cands[c].status \notin CandidateTerminal}

\* Mutant: a candidate that failed is still waited for.
WaitsForEligible(p) ==
  /\ \E c \in Cands : Registered(p, c)
  /\ \A c \in Cands : Registered(p, c) => p.cands[c].status \in {"Eligible", "Cancelled"}

AllCandidatesTerminal(p) ==
  /\ \E c \in Cands : Registered(p, c)
  /\ NonTerminal(p) = {}

\* PlanHistory::current; meaningful once a version exists.
HasPlan(p) == p.versions # << >>
CurrentPlan(p) == p.versions[Len(p.versions)]

NextVersionNumber(p) == IF HasPlan(p) THEN CurrentPlan(p).version + 1 ELSE 1

\* PlanHistory::approved_hash.
PlanApproved(p) ==
  /\ HasPlan(p)
  /\ p.approval.decision = "Approved"
  /\ p.approval.hash = CurrentPlan(p).hash

\* Mutant: one repair too many.
OneRepairTooMany(r) == RepairBudget - r.used >= 0 /\ r.repeated < 2

\* CandidateRecord::has_repair_budget.
HasRepairBudget(r) == RepairBudget - r.used > 0 /\ r.repeated < 2

AttemptsOf(p, o, node) == {i \in DOMAIN p.attempts[o] : p.attempts[o][i].node = node}

\* Mutant: interrupted attempts are not counted.
ReusesAttemptNumber(p, o, node) ==
  Cardinality({i \in AttemptsOf(p, o, node) : p.attempts[o][i].status # "Interrupted"}) + 1

\* Numbers are handed out consecutively from one, so the count of the recorded
\* attempts is the largest number among them.
NextAttemptNumber(p, o, node) == Cardinality(AttemptsOf(p, o, node)) + 1

CompletedSuccessfully(p, o, node) ==
  \E i \in AttemptsOf(p, o, node) : p.attempts[o][i].status = "Succeeded"

OpenAttempts(p, o) == {i \in DOMAIN p.attempts[o] : p.attempts[o][i].status = "Started"}

\* The position of the attempt with this key, if it was recorded.
IsAttempt(a, node, number) == a.node = node /\ a.number = number

(***************************************************************************)
(* Events: domain/src/event.rs.  NodeClosed stands for the five payloads   *)
(* NodeSucceeded, NodeFailed, NodePaused, NodeCancelled, NodeInterrupted.  *)
(***************************************************************************)
StatusChanged(from, to) == [kind |-> "RunStatusChanged", from |-> from, to |-> to]
BaselineResolved == [kind |-> "BaselineResolved"]
NodeStarted(o, node, number) ==
  [kind |-> "NodeStarted", owner |-> o, node |-> node, number |-> number]
NodeClosed(o, node, number, as, next, why) ==
  [ kind |-> "NodeClosed", owner |-> o, node |-> node, number |-> number,
    as |-> as, next |-> next, why |-> why ]
PlanVersionWritten(version, hash) ==
  [kind |-> "PlanVersionWritten", version |-> version, hash |-> hash]
PlanDecisionRecorded(decision, version, hash) ==
  [kind |-> "PlanDecisionRecorded", decision |-> decision, version |-> version, hash |-> hash]
PlanApprovalInvalidated == [kind |-> "PlanApprovalInvalidated"]
CandidateRegistered(c) == [kind |-> "CandidateRegistered", cand |-> c]
CandidateStatusChanged(c, from, to) ==
  [kind |-> "CandidateStatusChanged", cand |-> c, from |-> from, to |-> to]
CandidateRepairStarted(c, used, fingerprint) ==
  [kind |-> "CandidateRepairStarted", cand |-> c, used |-> used, fingerprint |-> fingerprint]
CandidateExcluded(c) == [kind |-> "CandidateExcluded", cand |-> c]
RankingComputed(ranking) == [kind |-> "RankingComputed", ranking |-> ranking]
WinnerSelected(c) == [kind |-> "WinnerSelected", cand |-> c]
IntegrationAttempted(c, applied) ==
  [kind |-> "IntegrationAttempted", cand |-> c, applied |-> applied]
CandidatePromotionRequested(previous, next) ==
  [kind |-> "CandidatePromotionRequested", previous |-> previous, next |-> next]
FinalTestEvidence(outcome) == [kind |-> "FinalTestEvidence", outcome |-> outcome]
FinalReviewEvidence(outcome) == [kind |-> "FinalReviewEvidence", outcome |-> outcome]
CommitApprovalRecorded == [kind |-> "CommitApprovalRecorded"]
CommitCreated == [kind |-> "CommitCreated"]
CancellationRequested == [kind |-> "CancellationRequested"]

Event ==
       [kind : {"RunStatusChanged"}, from : RunStatus, to : RunStatus]
  \cup [kind : {"NodeStarted"}, owner : Owners, node : Nodes, number : Nat]
  \cup [ kind : {"NodeClosed"}, owner : Owners, node : Nodes, number : Nat,
         as : AttemptStatus \ {"Started"}, next : Nodes \cup {None},
         why : Fingerprints \cup {0} ]
  \cup [kind : {"PlanVersionWritten"}, version : Nat, hash : Hashes]
  \cup [ kind : {"PlanDecisionRecorded"}, decision : Decision, version : Nat,
         hash : Hashes ]
  \cup [kind : {"CandidateRegistered", "CandidateExcluded", "WinnerSelected"}, cand : Cands]
  \cup [ kind : {"CandidateStatusChanged"}, cand : Cands, from : CandidateStatus,
         to : CandidateStatus ]
  \cup [ kind : {"CandidateRepairStarted"}, cand : Cands, used : Nat,
         fingerprint : Fingerprints \cup {0} ]
  \cup [kind : {"RankingComputed"}, ranking : Seq(Cands)]
  \cup [kind : {"IntegrationAttempted"}, cand : Cands, applied : BOOLEAN]
  \cup [ kind : {"CandidatePromotionRequested"}, previous : Cands,
         next : Cands \cup {NoCand} ]
  \cup [kind : {"FinalTestEvidence", "FinalReviewEvidence"}, outcome : {"Pass", "Fail"}]
  \cup [ kind : {"BaselineResolved", "PlanApprovalInvalidated", "CommitApprovalRecorded",
                 "CommitCreated", "CancellationRequested"} ]

(***************************************************************************)
(* When the reducer refuses an event.  Every other event is accepted.      *)
(***************************************************************************)
Accepts(p, e) ==
  CASE e.kind = "RunStatusChanged" ->
         p.status = e.from /\ RunMayBecome(e.from, e.to)
    [] e.kind = "NodeStarted" ->
         \A i \in DOMAIN p.attempts[e.owner] :
            ~IsAttempt(p.attempts[e.owner][i], e.node, e.number)
    [] e.kind = "NodeClosed" ->
         \E i \in OpenAttempts(p, e.owner) :
            IsAttempt(p.attempts[e.owner][i], e.node, e.number)
    [] e.kind = "PlanVersionWritten" ->
         \A i \in DOMAIN p.versions : p.versions[i].version # e.version
    [] e.kind = "PlanDecisionRecorded" ->
         \E i \in DOMAIN p.versions : p.versions[i].version = e.version
    [] e.kind = "CandidateRegistered" ->
         ~Registered(p, e.cand) /\ p.baseline
    [] e.kind = "CandidateStatusChanged" ->
         p.cands[e.cand].status = e.from /\ CandidateMayBecome(e.from, e.to)
    [] e.kind \in {"CandidateRepairStarted", "CandidateExcluded", "WinnerSelected"} ->
         Registered(p, e.cand)
    [] OTHER -> TRUE

(***************************************************************************)
(* What an accepted event does to the projection.                          *)
(***************************************************************************)
ReduceStatus(p, e) == [p EXCEPT !.status = e.to]

ReduceStarted(p, e) ==
  [p EXCEPT !.attempts[e.owner] =
     Append(@, [ node |-> e.node, number |-> e.number, status |-> "Started",
                 next |-> None, why |-> 0 ])]

\* close_attempt: only the attempt with this key changes.
CloseAttempt(a, e) ==
  IF IsAttempt(a, e.node, e.number)
  THEN [a EXCEPT !.status = e.as, !.next = e.next, !.why = e.why]
  ELSE a

ReduceClosed(p, e) ==
  [p EXCEPT !.attempts[e.owner] = [i \in DOMAIN @ |-> CloseAttempt(@[i], e)]]

\* Mutant: only the newest version is kept.
KeepsLatestVersion(p, e) ==
  [p EXCEPT !.versions = << [version |-> e.version, hash |-> e.hash] >>]

\* Every writer asks for the number after the last one it has seen, so a version
\* that is not a duplicate is the largest and sorting leaves it at the end.
ReduceVersion(p, e) ==
  [p EXCEPT !.versions = Append(@, [version |-> e.version, hash |-> e.hash])]

ReduceDecision(p, e) ==
  [p EXCEPT !.approval =
     [decision |-> e.decision, version |-> e.version, hash |-> e.hash]]

ReduceInvalidated(p, e) ==
  IF p.approval.decision = None THEN p
  ELSE [p EXCEPT !.approval.decision = "RevisionRequested"]

ReduceRegistered(p, e) == [p EXCEPT !.cands[e.cand].status = "Pending"]

ReduceCandidateStatus(p, e) == [p EXCEPT !.cands[e.cand].status = e.to]

\* observe_failure_fingerprint: a different summary restarts the count.
Observe(r, fingerprint) ==
  [r EXCEPT !.fingerprint = fingerprint,
            !.repeated = IF r.fingerprint = fingerprint THEN @ + 1 ELSE 0]

\* Mutant: a repair is observed and not counted.
RepairsForFree(p, e) ==
  [p EXCEPT !.cands[e.cand] = IF e.fingerprint = 0 THEN @ ELSE Observe(@, e.fingerprint)]

ReduceRepair(p, e) ==
  [p EXCEPT !.cands[e.cand] =
     IF e.fingerprint = 0 THEN [@ EXCEPT !.used = e.used]
     ELSE Observe([@ EXCEPT !.used = e.used], e.fingerprint)]

ReduceExcluded(p, e) == [p EXCEPT !.cands[e.cand].promotable = FALSE]

ReduceRanking(p, e) == [p EXCEPT !.ranked = TRUE, !.ranking = e.ranking]

ReduceWinner(p, e) == [p EXCEPT !.winner = e.cand]

Tried(r, applied) ==
  [r EXCEPT !.attempted = TRUE, !.promotable = IF applied THEN @ ELSE FALSE]

\* Mutant: the verdicts on the previous candidate survive the next integration.
KeepsOldVerdicts(p, e) ==
  [p EXCEPT !.cands[e.cand] = Tried(@, e.applied),
            !.integration.applied = IF e.applied THEN e.cand ELSE NoCand]

\* A new integration forgets the verdicts on the one before.
ReduceIntegration(p, e) ==
  [p EXCEPT !.cands[e.cand] = Tried(@, e.applied),
            !.integration = Unjudged(IF e.applied THEN e.cand ELSE NoCand)]

ReducePromotion(p, e) ==
  [p EXCEPT !.cands[e.previous].promotable = FALSE, !.winner = e.next]

Reduce(p, e) ==
  CASE e.kind = "RunStatusChanged"            -> ReduceStatus(p, e)
    [] e.kind = "BaselineResolved"            -> [p EXCEPT !.baseline = TRUE]
    [] e.kind = "NodeStarted"                 -> ReduceStarted(p, e)
    [] e.kind = "NodeClosed"                  -> ReduceClosed(p, e)
    [] e.kind = "PlanVersionWritten"          -> ReduceVersion(p, e)
    [] e.kind = "PlanDecisionRecorded"        -> ReduceDecision(p, e)
    [] e.kind = "PlanApprovalInvalidated"     -> ReduceInvalidated(p, e)
    [] e.kind = "CandidateRegistered"         -> ReduceRegistered(p, e)
    [] e.kind = "CandidateStatusChanged"      -> ReduceCandidateStatus(p, e)
    [] e.kind = "CandidateRepairStarted"      -> ReduceRepair(p, e)
    [] e.kind = "CandidateExcluded"           -> ReduceExcluded(p, e)
    [] e.kind = "RankingComputed"             -> ReduceRanking(p, e)
    [] e.kind = "WinnerSelected"              -> ReduceWinner(p, e)
    [] e.kind = "IntegrationAttempted"        -> ReduceIntegration(p, e)
    [] e.kind = "CandidatePromotionRequested" -> ReducePromotion(p, e)
    [] e.kind = "FinalTestEvidence"           -> [p EXCEPT !.integration.tests = e.outcome]
    [] e.kind = "FinalReviewEvidence"         -> [p EXCEPT !.integration.review = e.outcome]
    [] e.kind = "CommitApprovalRecorded"      -> [p EXCEPT !.commitApproved = TRUE]
    [] e.kind = "CommitCreated"               -> [p EXCEPT !.commit = TRUE]
    [] e.kind = "CancellationRequested"       -> [p EXCEPT !.cancelRequested = TRUE]
    [] OTHER                                  -> p

(***************************************************************************)
(* What a projection q that comes after p may not have lost: a closed      *)
(* attempt keeps its verdict, a plan version its hash, a run that ended    *)
(* stays as it ended and a commit is not taken back.                       *)
(***************************************************************************)
Settled(a) == a.status # "Started"

KeepsHistory(p, q) ==
  /\ \A o \in Owners : \A i \in DOMAIN p.attempts[o] :
       /\ i \in DOMAIN q.attempts[o]
       /\ Settled(p.attempts[o][i]) => q.attempts[o][i] = p.attempts[o][i]
  /\ \A i \in DOMAIN p.versions :
       i \in DOMAIN q.versions /\ q.versions[i] = p.versions[i]
  /\ p.status \in RunTerminal => q.status = p.status
  /\ p.commit => q.commit

\* No two attempts of an owner have the same node and number.
UniqueAttempts(p) ==
  \A o \in Owners : \A i, j \in DOMAIN p.attempts[o] :
    IsAttempt(p.attempts[o][i], p.attempts[o][j].node, p.attempts[o][j].number) => i = j
=============================================================================
