----------------------------- MODULE EngineProofs -----------------------------
(***************************************************************************)
(* The engine keeps its types, its history and the repair budgets, for any *)
(* number of candidates, budget, parallelism and bound.                    *)
(*                                                                         *)
(* The calls a task still has to make are decided from a projection that   *)
(* may have changed when they are made, so the inductive invariant speaks  *)
(* about them too: every event a task or a request is about to commit is   *)
(* well typed and charges no repair beyond the budget.                     *)
(***************************************************************************)
EXTENDS EngineProperties, FiniteSetTheorems, TLAPS

(***************************************************************************)
(* What the reducer preserves, whatever event it is given: the type of the *)
(* projection, and the part of the history that is settled.                *)
(***************************************************************************)
\* The fields an event of each kind carries.
LEMMA EventFields ==
  ASSUME NEW e \in Event
  PROVE  /\ e.kind = "RunStatusChanged" => e.from \in RunStatus /\ e.to \in RunStatus
         /\ e.kind = "NodeStarted" =>
              e.owner \in Owners /\ e.node \in Nodes /\ e.number \in Nat
         /\ e.kind = "NodeClosed" =>
              /\ e.owner \in Owners /\ e.node \in Nodes /\ e.number \in Nat
              /\ e.as \in AttemptStatus \ {"Started"}
              /\ e.next \in Nodes \cup {None} /\ e.why \in Fingerprints \cup {0}
         /\ e.kind = "PlanVersionWritten" => e.version \in Nat /\ e.hash \in Hashes
         /\ e.kind = "PlanDecisionRecorded" =>
              e.decision \in Decision /\ e.version \in Nat /\ e.hash \in Hashes
         /\ e.kind \in {"CandidateRegistered", "CandidateExcluded", "WinnerSelected"} =>
              e.cand \in Cands
         /\ e.kind = "CandidateStatusChanged" =>
              e.cand \in Cands /\ e.from \in CandidateStatus /\ e.to \in CandidateStatus
         /\ e.kind = "CandidateRepairStarted" =>
              /\ e.cand \in Cands /\ e.used \in Nat
              /\ e.fingerprint \in Fingerprints \cup {0}
         /\ e.kind = "RankingComputed" => e.ranking \in Seq(Cands)
         /\ e.kind = "IntegrationAttempted" => e.cand \in Cands /\ e.applied \in BOOLEAN
         /\ e.kind = "CandidatePromotionRequested" =>
              e.previous \in Cands /\ e.next \in Cands \cup {NoCand}
         /\ e.kind \in {"FinalTestEvidence", "FinalReviewEvidence"} =>
              e.outcome \in {"Pass", "Fail"}
  BY DEF Event

\* Changing one candidate's record keeps the projection well typed.
LEMMA CandidateUpdate ==
  ASSUME NEW p \in Projection, NEW c \in Cands, NEW r \in CandidateRecord
  PROVE  [p EXCEPT !.cands[c] = r] \in Projection
  BY DEF Projection

LEMMA ReduceStartedType ==
  ASSUME NEW p \in Projection, NEW e \in Event, e.kind = "NodeStarted"
  PROVE  ReduceStarted(p, e) \in Projection
<1> DEFINE a == [ node |-> e.node, number |-> e.number, status |-> "Started",
                  next |-> None, why |-> 0 ]
<1>1. e.owner \in Owners /\ a \in Attempt
  BY EventFields DEF Attempt, AttemptStatus
<1>2. p.attempts \in [Owners -> Seq(Attempt)]
  BY DEF Projection
<1>3. Append(p.attempts[e.owner], a) \in Seq(Attempt)
  <2> HIDE DEF a
  <2> QED BY <1>1, <1>2
<1>4. ReduceStarted(p, e) =
        [p EXCEPT !.attempts = [p.attempts EXCEPT ![e.owner] = Append(@, a)]]
  BY <1>1, <1>2 DEF ReduceStarted, Projection
<1>5. [p.attempts EXCEPT ![e.owner] = Append(@, a)] \in [Owners -> Seq(Attempt)]
  <2> HIDE DEF a
  <2> QED BY <1>1, <1>2, <1>3
<1> QED
  <2> HIDE DEF a
  <2> QED BY <1>4, <1>5 DEF Projection

LEMMA CloseAttemptType ==
  ASSUME NEW a \in Attempt, NEW e \in Event, e.kind = "NodeClosed"
  PROVE  CloseAttempt(a, e) \in Attempt
  BY EventFields DEF CloseAttempt, Attempt

LEMMA ReduceClosedType ==
  ASSUME NEW p \in Projection, NEW e \in Event, e.kind = "NodeClosed"
  PROVE  ReduceClosed(p, e) \in Projection
<1>1. e.owner \in Owners
  BY EventFields
<1>2. p.attempts \in [Owners -> Seq(Attempt)]
  BY DEF Projection
<1> DEFINE s == p.attempts[e.owner]
           t == [i \in DOMAIN s |-> CloseAttempt(s[i], e)]
<1>3. s \in Seq(Attempt)
  BY <1>1, <1>2
<1>4. \A i \in DOMAIN s : CloseAttempt(s[i], e) \in Attempt
  BY <1>3, CloseAttemptType
<1>5. t \in Seq(Attempt)
  <2>1. DOMAIN s = 1..Len(s) /\ Len(s) \in Nat
    BY <1>3
  <2>2. t \in [1..Len(s) -> Attempt]
    BY <1>4, <2>1
  <2> QED BY <2>1, <2>2
<1>6. ReduceClosed(p, e) = [p EXCEPT !.attempts = [p.attempts EXCEPT ![e.owner] = t]]
  BY DEF ReduceClosed
<1>7. [p.attempts EXCEPT ![e.owner] = t] \in [Owners -> Seq(Attempt)]
  <2> HIDE DEF t
  <2> QED BY <1>1, <1>2, <1>5
<1> QED
  <2> HIDE DEF t, s
  <2> QED BY <1>6, <1>7 DEF Projection

\* What is left of a record after a repair.
LEMMA RepairedRecord ==
  ASSUME NEW r \in CandidateRecord, NEW e \in Event, e.kind = "CandidateRepairStarted"
  PROVE  (IF e.fingerprint = 0 THEN [r EXCEPT !.used = e.used]
          ELSE Observe([r EXCEPT !.used = e.used], e.fingerprint)) \in CandidateRecord
<1> DEFINE q == [r EXCEPT !.used = e.used]
<1>1. q \in CandidateRecord
  BY EventFields DEF CandidateRecord
<1>2. ASSUME e.fingerprint # 0
      PROVE  Observe(q, e.fingerprint) \in CandidateRecord
  <2> DEFINE n == IF q.fingerprint = e.fingerprint THEN q.repeated + 1 ELSE 0
  <2>1. e.fingerprint \in Fingerprints \cup {0} /\ n \in Nat
    BY <1>1, EventFields DEF CandidateRecord
  <2>2. Observe(q, e.fingerprint) = [q EXCEPT !.fingerprint = e.fingerprint, !.repeated = n]
    BY <1>1 DEF Observe, CandidateRecord
  <2> HIDE DEF n, q
  <2> QED BY <1>1, <2>1, <2>2 DEF CandidateRecord
<1>3. CASE e.fingerprint = 0
  BY <1>1, <1>3
<1>4. CASE e.fingerprint # 0
  BY <1>2, <1>4
<1> QED BY <1>3, <1>4

LEMMA DemotedRecord ==
  ASSUME NEW r \in CandidateRecord, NEW applied
  PROVE  /\ [r EXCEPT !.promotable = FALSE] \in CandidateRecord
         /\ Tried(r, applied) \in CandidateRecord
  BY DEF CandidateRecord, Tried

LEMMA ReduceCandidateType ==
  ASSUME NEW p \in Projection, NEW e \in Event,
         e.kind \in {"CandidateRegistered", "CandidateStatusChanged",
                     "CandidateRepairStarted", "CandidateExcluded"}
  PROVE  Reduce(p, e) \in Projection
<1>1. e.cand \in Cands
  BY EventFields
<1>2. p.cands \in [Cands -> CandidateRecord]
  BY DEF Projection
<1>3. p.cands[e.cand] \in CandidateRecord
  BY <1>1, <1>2
<1>4. CASE e.kind = "CandidateRegistered"
  <2>1. [p.cands[e.cand] EXCEPT !.status = "Pending"] \in CandidateRecord
    BY <1>3 DEF CandidateRecord, CandidateStatus
  <2> QED BY <1>1, <1>4, <2>1, CandidateUpdate DEF Reduce, ReduceRegistered
<1>5. CASE e.kind = "CandidateStatusChanged"
  <2>1. [p.cands[e.cand] EXCEPT !.status = e.to] \in CandidateRecord
    BY <1>3, <1>5, EventFields DEF CandidateRecord
  <2> QED BY <1>1, <1>5, <2>1, CandidateUpdate DEF Reduce, ReduceCandidateStatus
<1>6. CASE e.kind = "CandidateRepairStarted"
  BY <1>1, <1>3, <1>6, RepairedRecord, CandidateUpdate DEF Reduce, ReduceRepair
<1>7. CASE e.kind = "CandidateExcluded"
  <2>1. [p.cands[e.cand] EXCEPT !.promotable = FALSE] \in CandidateRecord
    BY <1>3 DEF CandidateRecord
  <2> QED BY <1>1, <1>7, <2>1, CandidateUpdate DEF Reduce, ReduceExcluded
<1> QED BY <1>4, <1>5, <1>6, <1>7

LEMMA ReduceIntegrationType ==
  ASSUME NEW p \in Projection, NEW e \in Event,
         e.kind \in {"IntegrationAttempted", "CandidatePromotionRequested"}
  PROVE  Reduce(p, e) \in Projection
<1>1. p.cands \in [Cands -> CandidateRecord]
  BY DEF Projection
<1>2. CASE e.kind = "IntegrationAttempted"
  <2> DEFINE c == IF e.applied THEN e.cand ELSE NoCand
             q == [p EXCEPT !.cands[e.cand] = Tried(p.cands[e.cand], e.applied)]
  <2>1. e.cand \in Cands
    BY <1>2, EventFields
  <2>2. Unjudged(c) \in Integration
    BY <2>1 DEF Integration, GateOutcome, Unjudged
  <2>3. q \in Projection
    BY <1>1, <2>1, DemotedRecord, CandidateUpdate
  <2>4. Reduce(p, e) = [q EXCEPT !.integration = Unjudged(c)]
    BY <1>2 DEF Reduce, ReduceIntegration
  <2> HIDE DEF c, q
  <2> QED BY <2>2, <2>3, <2>4 DEF Projection
<1>3. CASE e.kind = "CandidatePromotionRequested"
  <2> DEFINE r == [p.cands[e.previous] EXCEPT !.promotable = FALSE]
  <2>1. e.previous \in Cands /\ e.next \in Cands \cup {NoCand}
    BY <1>3, EventFields
  <2>2. r \in CandidateRecord
    BY <1>1, <2>1, DemotedRecord
  <2> DEFINE q == [p EXCEPT !.cands[e.previous] = r]
  <2>3. q \in Projection
    BY <2>1, <2>2, CandidateUpdate
  <2>4. Reduce(p, e) = [q EXCEPT !.winner = e.next]
    BY <1>3 DEF Reduce, ReducePromotion
  <2> HIDE DEF q
  <2> QED BY <2>1, <2>3, <2>4 DEF Projection
<1> QED BY <1>2, <1>3

LEMMA ReducePlanType ==
  ASSUME NEW p \in Projection, NEW e \in Event,
         e.kind \in {"PlanVersionWritten", "PlanDecisionRecorded", "PlanApprovalInvalidated"}
  PROVE  Reduce(p, e) \in Projection
<1>1. CASE e.kind = "PlanVersionWritten"
  <2> DEFINE v == [version |-> e.version, hash |-> e.hash]
  <2>1. v \in PlanVersion
    BY <1>1, EventFields DEF PlanVersion
  <2>2. Append(p.versions, v) \in Seq(PlanVersion)
    <3> HIDE DEF v
    <3> QED BY <2>1 DEF Projection
  <2>3. Reduce(p, e) = [p EXCEPT !.versions = Append(p.versions, v)]
    BY <1>1 DEF Reduce, ReduceVersion
  <2> HIDE DEF v
  <2> QED BY <2>2, <2>3 DEF Projection
<1>2. CASE e.kind = "PlanDecisionRecorded"
  <2>1. [decision |-> e.decision, version |-> e.version, hash |-> e.hash] \in Approval
    BY <1>2, EventFields DEF Approval
  <2> QED BY <1>2, <2>1 DEF Reduce, ReduceDecision, Projection
<1>3. CASE e.kind = "PlanApprovalInvalidated"
  BY <1>3 DEF Reduce, ReduceInvalidated, Projection, Approval, Decision
<1> QED BY <1>1, <1>2, <1>3

\* The reducer keeps the projection well typed, whatever event it is given.
LEMMA ReduceType ==
  ASSUME NEW p \in Projection, NEW e \in Event
  PROVE  Reduce(p, e) \in Projection
<1>1. CASE e.kind = "RunStatusChanged"
  BY <1>1, EventFields DEF Reduce, ReduceStatus, Projection
<1>2. CASE e.kind = "NodeStarted"
  BY <1>2, ReduceStartedType DEF Reduce
<1>3. CASE e.kind = "NodeClosed"
  BY <1>3, ReduceClosedType DEF Reduce
<1>4. CASE e.kind \in {"PlanVersionWritten", "PlanDecisionRecorded",
                      "PlanApprovalInvalidated"}
  BY <1>4, ReducePlanType
<1>5. CASE e.kind \in {"CandidateRegistered", "CandidateStatusChanged",
                      "CandidateRepairStarted", "CandidateExcluded"}
  BY <1>5, ReduceCandidateType
<1>6. CASE e.kind \in {"IntegrationAttempted", "CandidatePromotionRequested"}
  BY <1>6, ReduceIntegrationType
<1>7. CASE e.kind = "RankingComputed"
  BY <1>7, EventFields DEF Reduce, ReduceRanking, Projection
<1>8. CASE e.kind = "WinnerSelected"
  BY <1>8, EventFields DEF Reduce, ReduceWinner, Projection
<1>9. CASE e.kind = "FinalTestEvidence"
  BY <1>9, EventFields DEF Reduce, Projection, Integration, GateOutcome
<1>10. CASE e.kind = "FinalReviewEvidence"
  BY <1>10, EventFields DEF Reduce, Projection, Integration, GateOutcome
<1>11. CASE e.kind \in {"BaselineResolved", "CommitApprovalRecorded", "CommitCreated",
                       "CancellationRequested"}
  BY <1>11 DEF Reduce, Projection
<1>12. e.kind \in {"RunStatusChanged", "BaselineResolved", "NodeStarted", "NodeClosed",
         "PlanVersionWritten", "PlanDecisionRecorded", "PlanApprovalInvalidated",
         "CandidateRegistered", "CandidateStatusChanged", "CandidateRepairStarted",
         "CandidateExcluded", "RankingComputed", "WinnerSelected", "IntegrationAttempted",
         "CandidatePromotionRequested", "FinalTestEvidence", "FinalReviewEvidence",
         "CommitApprovalRecorded", "CommitCreated", "CancellationRequested"}
  BY DEF Event
<1> QED BY <1>1, <1>2, <1>3, <1>4, <1>5, <1>6, <1>7, <1>8, <1>9, <1>10, <1>11, <1>12

(***************************************************************************)
(* The settled history.                                                    *)
(***************************************************************************)
\* The kinds of events that touch the recorded history.
HistoryKinds ==
  {"NodeStarted", "NodeClosed", "PlanVersionWritten", "RunStatusChanged", "CommitCreated"}

\* The other events leave the fields of the history alone.
LEMMA OtherEvents ==
  ASSUME NEW p \in Projection, NEW e \in Event, e.kind \notin HistoryKinds
  PROVE  LET q == Reduce(p, e)
         IN  /\ q.attempts = p.attempts /\ q.versions = p.versions
             /\ q.status = p.status /\ q.commit = p.commit
<1> DEFINE q == Reduce(p, e)
           Same(r) == /\ r.attempts = p.attempts /\ r.versions = p.versions
                      /\ r.status = p.status /\ r.commit = p.commit
<1>1. CASE e.kind \in {"BaselineResolved", "CommitApprovalRecorded", "CancellationRequested",
                      "FinalTestEvidence", "FinalReviewEvidence"}
  BY <1>1 DEF Reduce, Projection
<1>2. CASE e.kind = "PlanDecisionRecorded"
  BY <1>2 DEF Reduce, ReduceDecision, Projection
<1>3. CASE e.kind = "PlanApprovalInvalidated"
  BY <1>3 DEF Reduce, ReduceInvalidated, Projection
<1>4. CASE e.kind = "CandidateRegistered"
  BY <1>4 DEF Reduce, ReduceRegistered, Projection
<1>5. CASE e.kind = "CandidateStatusChanged"
  BY <1>5 DEF Reduce, ReduceCandidateStatus, Projection
<1>6. CASE e.kind = "CandidateRepairStarted"
  BY <1>6 DEF Reduce, ReduceRepair, Projection
<1>7. CASE e.kind = "CandidateExcluded"
  BY <1>7 DEF Reduce, ReduceExcluded, Projection
<1>8. CASE e.kind \in {"RankingComputed", "WinnerSelected"}
  BY <1>8 DEF Reduce, ReduceRanking, ReduceWinner, Projection
<1>9. CASE e.kind = "IntegrationAttempted"
  BY <1>9 DEF Reduce, ReduceIntegration, Projection
<1>10. CASE e.kind = "CandidatePromotionRequested"
  BY <1>10 DEF Reduce, ReducePromotion, Projection
<1>11. e.kind \in HistoryKinds \cup
         {"BaselineResolved", "CommitApprovalRecorded", "CancellationRequested",
          "FinalTestEvidence", "FinalReviewEvidence", "PlanDecisionRecorded",
          "PlanApprovalInvalidated", "CandidateRegistered", "CandidateStatusChanged",
          "CandidateRepairStarted", "CandidateExcluded", "RankingComputed",
          "WinnerSelected", "IntegrationAttempted", "CandidatePromotionRequested"}
  BY DEF Event, HistoryKinds
<1> QED BY <1>1, <1>2, <1>3, <1>4, <1>5, <1>6, <1>7, <1>8, <1>9, <1>10, <1>11

\* How the attempts of an owner change.
LEMMA StartedAttempts ==
  ASSUME NEW p \in Projection, NEW e \in Event, e.kind = "NodeStarted", NEW o \in Owners
  PROVE  LET s == p.attempts[o]
             t == Reduce(p, e).attempts[o]
             a == [ node |-> e.node, number |-> e.number, status |-> "Started",
                    next |-> None, why |-> 0 ]
         IN  t = IF o = e.owner THEN Append(s, a) ELSE s
  BY EventFields DEF Reduce, ReduceStarted, Projection

LEMMA ClosedAttempts ==
  ASSUME NEW p \in Projection, NEW e \in Event, e.kind = "NodeClosed", NEW o \in Owners
  PROVE  LET s == p.attempts[o]
             t == Reduce(p, e).attempts[o]
         IN  t = IF o = e.owner THEN [i \in DOMAIN s |-> CloseAttempt(s[i], e)] ELSE s
  BY EventFields DEF Reduce, ReduceClosed, Projection

\* No accepted event gives two attempts of an owner the same key.
LEMMA ReduceUnique ==
  ASSUME NEW p \in Projection, NEW e \in Event, Accepts(p, e), UniqueAttempts(p)
  PROVE  UniqueAttempts(Reduce(p, e))
<1>1. CASE e.kind = "NodeStarted"
  <2> SUFFICES ASSUME NEW o \in Owners
               PROVE  LET t == Reduce(p, e).attempts[o]
                      IN  \A i, j \in DOMAIN t : IsAttempt(t[i], t[j].node, t[j].number) => i = j
    BY DEF UniqueAttempts
  <2> DEFINE s == p.attempts[o]
             a == [ node |-> e.node, number |-> e.number, status |-> "Started",
                    next |-> None, why |-> 0 ]
  <2>1. CASE o # e.owner
    BY <1>1, <2>1, StartedAttempts DEF UniqueAttempts
  <2>2. CASE o = e.owner
    <3>1. Reduce(p, e).attempts[o] = Append(s, a)
      BY <1>1, <2>2, StartedAttempts
    <3>2. s \in Seq(Attempt)
      BY DEF Projection
    <3>3. \A i \in 1..Len(s) : ~IsAttempt(s[i], a.node, a.number) /\ ~IsAttempt(a, s[i].node, s[i].number)
      BY <1>1, <2>2, <3>2 DEF Accepts, IsAttempt
    <3>4. \A i, j \in 1..Len(s) : IsAttempt(s[i], s[j].node, s[j].number) => i = j
      BY <3>2 DEF UniqueAttempts
    <3> HIDE DEF s, a
    <3>5. /\ DOMAIN Append(s, a) = 1..(Len(s) + 1)
          /\ \A i \in 1..Len(s) : Append(s, a)[i] = s[i]
          /\ Append(s, a)[Len(s) + 1] = a
          /\ Len(s) \in Nat
      BY <3>2
    <3> QED BY <3>1, <3>3, <3>4, <3>5
  <2> QED BY <2>1, <2>2
<1>2. CASE e.kind = "NodeClosed"
  <2> SUFFICES ASSUME NEW o \in Owners
               PROVE  LET t == Reduce(p, e).attempts[o]
                      IN  \A i, j \in DOMAIN t : IsAttempt(t[i], t[j].node, t[j].number) => i = j
    BY DEF UniqueAttempts
  <2> DEFINE s == p.attempts[o]
  <2>1. \A a \in Attempt : CloseAttempt(a, e).node = a.node /\ CloseAttempt(a, e).number = a.number
    BY DEF CloseAttempt, Attempt
  <2>2. s \in Seq(Attempt)
    BY DEF Projection
  <2>3. CASE o # e.owner
    BY <1>2, <2>3, ClosedAttempts DEF UniqueAttempts
  <2>4. CASE o = e.owner
    <3>1. Reduce(p, e).attempts[o] = [i \in DOMAIN s |-> CloseAttempt(s[i], e)]
      BY <1>2, <2>4, ClosedAttempts
    <3>2. \A i, j \in DOMAIN s : IsAttempt(s[i], s[j].node, s[j].number) => i = j
      BY DEF UniqueAttempts
    <3>3. \A i \in DOMAIN s : s[i] \in Attempt
      BY <2>2
    <3> HIDE DEF s
    <3> QED BY <2>1, <3>1, <3>2, <3>3 DEF IsAttempt
  <2> QED BY <2>3, <2>4
<1>3. CASE e.kind \notin {"NodeStarted", "NodeClosed"}
  <2>1. Reduce(p, e).attempts = p.attempts
    <3>1. CASE e.kind \notin HistoryKinds
      BY <3>1, OtherEvents
    <3>2. CASE e.kind \in {"PlanVersionWritten", "RunStatusChanged", "CommitCreated"}
      BY <3>2 DEF Reduce, ReduceVersion, ReduceStatus, Projection
    <3> QED BY <1>3, <3>1, <3>2 DEF HistoryKinds
  <2> QED BY <2>1 DEF UniqueAttempts
<1> QED BY <1>1, <1>2, <1>3

\* A run that has ended has no successor status.
LEMMA TerminalStays ==
  ASSUME NEW s \in RunTerminal, NEW t \in RunStatus, RunMayBecome(s, t)
  PROVE  t = s
  BY DEF RunTerminal, RunStatus, RunMayBecome, RunAllowedNext

\* An accepted event leaves the settled history as it was.  Uniqueness is needed:
\* closing an attempt rewrites every attempt with its key.
LEMMA ReduceKeepsHistory ==
  ASSUME NEW p \in Projection, NEW e \in Event, Accepts(p, e), UniqueAttempts(p)
  PROVE  KeepsHistory(p, Reduce(p, e))
<1> DEFINE q == Reduce(p, e)
<1>a. /\ p.attempts \in [Owners -> Seq(Attempt)]
      /\ p.versions \in Seq(PlanVersion)
      /\ p.status \in RunStatus
  BY DEF Projection
<1>1. CASE e.kind = "NodeStarted"
  <2>1. q.versions = p.versions /\ q.status = p.status /\ q.commit = p.commit
    BY <1>1 DEF Reduce, ReduceStarted, Projection
  <2>2. ASSUME NEW o \in Owners, NEW i \in DOMAIN p.attempts[o]
        PROVE  i \in DOMAIN q.attempts[o] /\ q.attempts[o][i] = p.attempts[o][i]
    <3> DEFINE s == p.attempts[o]
               a == [ node |-> e.node, number |-> e.number, status |-> "Started",
                      next |-> None, why |-> 0 ]
    <3>1. q.attempts[o] = IF o = e.owner THEN Append(s, a) ELSE s
      BY <1>1, StartedAttempts
    <3>2. s \in Seq(Attempt) /\ i \in 1..Len(s)
      BY <1>a
    <3> HIDE DEF q, s, a
    <3> QED BY <3>1, <3>2 DEF s
  <2> HIDE DEF q
  <2> QED BY <2>1, <2>2 DEF KeepsHistory, q
<1>2. CASE e.kind = "NodeClosed"
  <2>1. q.versions = p.versions /\ q.status = p.status /\ q.commit = p.commit
    BY <1>2 DEF Reduce, ReduceClosed, Projection
  <2>2. ASSUME NEW o \in Owners, NEW i \in DOMAIN p.attempts[o]
        PROVE  /\ i \in DOMAIN q.attempts[o]
               /\ Settled(p.attempts[o][i]) => q.attempts[o][i] = p.attempts[o][i]
    <3> DEFINE s == p.attempts[o]
    <3>1. q.attempts[o] = IF o = e.owner THEN [k \in DOMAIN s |-> CloseAttempt(s[k], e)] ELSE s
      BY <1>2, ClosedAttempts
    <3>2. CASE o # e.owner
      BY <3>1, <3>2
    <3>3. CASE o = e.owner
      <4>1. PICK j \in OpenAttempts(p, o) : IsAttempt(s[j], e.node, e.number)
        BY <1>2, <3>3 DEF Accepts
      <4>2. j \in DOMAIN s /\ ~Settled(s[j])
        BY <4>1 DEF OpenAttempts, Settled
      <4>3. IsAttempt(s[i], e.node, e.number) => i = j
        BY <4>1, <4>2 DEF IsAttempt, UniqueAttempts
      <4>4. Settled(s[i]) => ~IsAttempt(s[i], e.node, e.number)
        BY <4>2, <4>3
      <4> QED BY <3>1, <3>3, <4>4 DEF CloseAttempt
    <3> QED BY <3>2, <3>3
  <2> HIDE DEF q
  <2> QED BY <2>1, <2>2 DEF KeepsHistory, q
<1>3. CASE e.kind = "PlanVersionWritten"
  <2> DEFINE v == [version |-> e.version, hash |-> e.hash]
  <2>1. /\ q.attempts = p.attempts /\ q.status = p.status /\ q.commit = p.commit
        /\ q.versions = Append(p.versions, v)
    BY <1>3 DEF Reduce, ReduceVersion, Projection
  <2>2. ASSUME NEW i \in DOMAIN p.versions
        PROVE  i \in DOMAIN q.versions /\ q.versions[i] = p.versions[i]
    <3> HIDE DEF q, v
    <3> QED BY <1>a, <2>1
  <2> HIDE DEF q, v
  <2> QED BY <2>1, <2>2 DEF KeepsHistory, q
<1>4. CASE e.kind = "RunStatusChanged"
  <2>1. /\ q.attempts = p.attempts /\ q.versions = p.versions /\ q.commit = p.commit
        /\ q.status = e.to
    BY <1>4 DEF Reduce, ReduceStatus, Projection
  <2>2. p.status = e.from /\ RunMayBecome(e.from, e.to) /\ e.to \in RunStatus
    BY <1>4, EventFields DEF Accepts
  <2>3. p.status \in RunTerminal => q.status = p.status
    BY <2>1, <2>2, TerminalStays
  <2> HIDE DEF q
  <2> QED BY <2>1, <2>3 DEF KeepsHistory, q
<1>5. CASE e.kind = "CommitCreated"
  <2>1. /\ q.attempts = p.attempts /\ q.versions = p.versions /\ q.status = p.status
        /\ q.commit
    BY <1>5 DEF Reduce, Projection
  <2> HIDE DEF q
  <2> QED BY <2>1 DEF KeepsHistory, q
<1>6. CASE e.kind \notin HistoryKinds
  <2>1. /\ q.attempts = p.attempts /\ q.versions = p.versions
        /\ q.status = p.status /\ q.commit = p.commit
    BY <1>6, OtherEvents
  <2> HIDE DEF q
  <2> QED BY <2>1 DEF KeepsHistory, q
<1> QED BY <1>1, <1>2, <1>3, <1>4, <1>5, <1>6 DEF HistoryKinds

(***************************************************************************)
(* The inductive invariant.                                                *)
(***************************************************************************)
PlannedEvent ==
  {e \in Event : e.kind = "CandidateRepairStarted" => e.used <= RepairBudget}

PlannedOp == {x \in Op : x.op = "Do" => x.event \in PlannedEvent}

PlannedRequest == {r \in Request : r.events \in Seq(PlannedEvent)}

RunInv(p) ==
  /\ p \in Projection
  /\ UniqueAttempts(p)
  /\ \A c \in Cands : p.cands[c].used <= RepairBudget

IInv ==
  /\ RunInv(run)
  /\ poisoned \in BOOLEAN
  /\ lock \in {"free", "recovering", "dispatch", "service"}
  /\ stopped \in SUBSET Cands
  /\ task \in [Cands -> {"none", "queued", "running", "done", "failed"}]
  /\ todo \in [Owners -> Seq(PlannedOp)]
  /\ cancelled \in BOOLEAN
  /\ outcome \in Outcome
  /\ pending \in SUBSET PlannedRequest
  /\ store \in Store
  /\ git \in Git
  /\ used \in Used

(***************************************************************************)
(* The calls and the events they commit.                                   *)
(***************************************************************************)
LEMMA PlannedOps ==
  /\ \A to \in RunStatus : SetRun(to) \in PlannedOp
  /\ \A c \in Cands, to \in CandidateStatus : SetCand(c, to) \in PlannedOp
  /\ \A e \in PlannedEvent : Do(e) \in PlannedOp
  /\ \A left \in SUBSET Cands : CancelAll(left) \in PlannedOp /\ ExcludeAll(left) \in PlannedOp
  /\ \A node \in Nodes : Start(node) \in PlannedOp /\ Edit(node) \in PlannedOp
  /\ \A node \in Nodes, number \in Nat : Body(node, number) \in PlannedOp
  /\ \A result \in Outcome : Return(result) \in PlannedOp
  /\ Await \in PlannedOp
  /\ Fail \in PlannedOp
<1>1. \A to \in RunStatus : SetRun(to) \in PlannedOp
  BY DEF PlannedOp, Op, SetRun
<1>2. \A c \in Cands, to \in CandidateStatus : SetCand(c, to) \in PlannedOp
  BY DEF PlannedOp, Op, SetCand
<1>3. \A e \in PlannedEvent : Do(e) \in PlannedOp
  BY DEF PlannedOp, Op, Do, PlannedEvent
<1>4. \A left \in SUBSET Cands : CancelAll(left) \in PlannedOp /\ ExcludeAll(left) \in PlannedOp
  BY DEF PlannedOp, Op, CancelAll, ExcludeAll
<1>5. \A node \in Nodes : Start(node) \in PlannedOp /\ Edit(node) \in PlannedOp
  BY DEF PlannedOp, Op, Start, Edit
<1>6. \A node \in Nodes, number \in Nat : Body(node, number) \in PlannedOp
  BY DEF PlannedOp, Op, Body
<1>7. \A result \in Outcome : Return(result) \in PlannedOp
  BY DEF PlannedOp, Op, Return
<1>8. Await \in PlannedOp /\ Fail \in PlannedOp
  BY DEF PlannedOp, Op, Await, Fail
<1> QED BY <1>1, <1>2, <1>3, <1>4, <1>5, <1>6, <1>7, <1>8

LEMMA OpFields ==
  ASSUME NEW x \in PlannedOp
  PROVE  /\ x.op = "SetRun" => x.to \in RunStatus
         /\ x.op = "SetCand" => x.cand \in Cands /\ x.to \in CandidateStatus
         /\ x.op = "Do" => x.event \in PlannedEvent
         /\ x.op \in {"CancelAll", "ExcludeAll"} => x.left \in SUBSET Cands
         /\ x.op \in {"Start", "Edit"} => x.node \in Nodes
         /\ x.op = "Body" => x.node \in Nodes /\ x.number \in Nat
         /\ x.op = "Return" => x.result \in Outcome
  BY DEF PlannedOp, Op

LEMMA PlannedEvents ==
  /\ \A from, to \in RunStatus : StatusChanged(from, to) \in PlannedEvent
  /\ BaselineResolved \in PlannedEvent /\ PlanApprovalInvalidated \in PlannedEvent
  /\ CommitApprovalRecorded \in PlannedEvent /\ CommitCreated \in PlannedEvent
  /\ CancellationRequested \in PlannedEvent
  /\ \A o \in Owners, node \in Nodes, number \in Nat : NodeStarted(o, node, number) \in PlannedEvent
  /\ \A o \in Owners, node \in Nodes, number \in Nat, as \in AttemptStatus \ {"Started"},
        next \in Nodes \cup {None}, why \in Fingerprints \cup {0} :
       NodeClosed(o, node, number, as, next, why) \in PlannedEvent
  /\ \A version \in Nat, hash \in Hashes : PlanVersionWritten(version, hash) \in PlannedEvent
  /\ \A decision \in Decision, version \in Nat, hash \in Hashes :
       PlanDecisionRecorded(decision, version, hash) \in PlannedEvent
  /\ \A c \in Cands : /\ CandidateRegistered(c) \in PlannedEvent
                      /\ CandidateExcluded(c) \in PlannedEvent
                      /\ WinnerSelected(c) \in PlannedEvent
  /\ \A c \in Cands, from, to \in CandidateStatus :
       CandidateStatusChanged(c, from, to) \in PlannedEvent
  /\ \A c \in Cands, n \in Nat, why \in Fingerprints \cup {0} :
       n <= RepairBudget => CandidateRepairStarted(c, n, why) \in PlannedEvent
  /\ \A ranking \in Seq(Cands) : RankingComputed(ranking) \in PlannedEvent
  /\ \A c \in Cands, applied \in BOOLEAN : IntegrationAttempted(c, applied) \in PlannedEvent
  /\ \A c \in Cands, next \in Cands \cup {NoCand} :
       CandidatePromotionRequested(c, next) \in PlannedEvent
  /\ \A verdict \in {"Pass", "Fail"} : /\ FinalTestEvidence(verdict) \in PlannedEvent
                                      /\ FinalReviewEvidence(verdict) \in PlannedEvent
<1> USE DEF PlannedEvent, Event
<1>1. \A from, to \in RunStatus : StatusChanged(from, to) \in PlannedEvent
  BY DEF StatusChanged
<1>2. /\ BaselineResolved \in PlannedEvent /\ PlanApprovalInvalidated \in PlannedEvent
      /\ CommitApprovalRecorded \in PlannedEvent /\ CommitCreated \in PlannedEvent
      /\ CancellationRequested \in PlannedEvent
  BY DEF BaselineResolved, PlanApprovalInvalidated, CommitApprovalRecorded, CommitCreated,
         CancellationRequested
<1>3. \A o \in Owners, node \in Nodes, number \in Nat : NodeStarted(o, node, number) \in PlannedEvent
  BY DEF NodeStarted
<1>4. \A o \in Owners, node \in Nodes, number \in Nat, as \in AttemptStatus \ {"Started"},
         next \in Nodes \cup {None}, why \in Fingerprints \cup {0} :
        NodeClosed(o, node, number, as, next, why) \in PlannedEvent
  <2> SUFFICES ASSUME NEW o \in Owners, NEW node \in Nodes, NEW number \in Nat,
                      NEW as \in AttemptStatus \ {"Started"},
                      NEW next \in Nodes \cup {None}, NEW why \in Fingerprints \cup {0}
               PROVE  NodeClosed(o, node, number, as, next, why) \in PlannedEvent
    OBVIOUS
  <2>1. NodeClosed(o, node, number, as, next, why) \in
          [ kind : {"NodeClosed"}, owner : Owners, node : Nodes, number : Nat,
            as : AttemptStatus \ {"Started"}, next : Nodes \cup {None},
            why : Fingerprints \cup {0} ]
    BY DEF NodeClosed
  <2>2. NodeClosed(o, node, number, as, next, why).kind = "NodeClosed"
    BY DEF NodeClosed
  <2> QED BY <2>1, <2>2
<1>5. \A version \in Nat, hash \in Hashes : PlanVersionWritten(version, hash) \in PlannedEvent
  BY DEF PlanVersionWritten
<1>6. \A decision \in Decision, version \in Nat, hash \in Hashes :
        PlanDecisionRecorded(decision, version, hash) \in PlannedEvent
  BY DEF PlanDecisionRecorded
<1>7. \A c \in Cands : /\ CandidateRegistered(c) \in PlannedEvent
                       /\ CandidateExcluded(c) \in PlannedEvent
                       /\ WinnerSelected(c) \in PlannedEvent
  BY DEF CandidateRegistered, CandidateExcluded, WinnerSelected
<1>8. \A c \in Cands, from, to \in CandidateStatus :
        CandidateStatusChanged(c, from, to) \in PlannedEvent
  BY DEF CandidateStatusChanged
<1>9. \A c \in Cands, n \in Nat, why \in Fingerprints \cup {0} :
        n <= RepairBudget => CandidateRepairStarted(c, n, why) \in PlannedEvent
  BY DEF CandidateRepairStarted
<1>10. \A ranking \in Seq(Cands) : RankingComputed(ranking) \in PlannedEvent
  BY DEF RankingComputed
<1>11. \A c \in Cands, applied \in BOOLEAN : IntegrationAttempted(c, applied) \in PlannedEvent
  BY DEF IntegrationAttempted
<1>12. \A c \in Cands, next \in Cands \cup {NoCand} :
         CandidatePromotionRequested(c, next) \in PlannedEvent
  BY DEF CandidatePromotionRequested
<1>13. \A verdict \in {"Pass", "Fail"} : /\ FinalTestEvidence(verdict) \in PlannedEvent
                                        /\ FinalReviewEvidence(verdict) \in PlannedEvent
  BY DEF FinalTestEvidence, FinalReviewEvidence
<1> HIDE DEF PlannedEvent, Event
<1> QED BY <1>1, <1>2, <1>3, <1>4, <1>5, <1>6, <1>7, <1>8, <1>9, <1>10, <1>11, <1>12, <1>13

(***************************************************************************)
(* Committing an event.                                                    *)
(***************************************************************************)
\* Only a repair that starts is charged, and only to its candidate.
LEMMA ReduceUsed ==
  ASSUME NEW p \in Projection, NEW e \in Event, NEW c \in Cands
  PROVE  Reduce(p, e).cands[c].used =
           IF e.kind = "CandidateRepairStarted" /\ e.cand = c THEN e.used ELSE p.cands[c].used
<1>a. e \in Event
  OBVIOUS
<1>b. p.cands \in [Cands -> CandidateRecord] /\ p.cands[c] \in CandidateRecord
  BY DEF Projection
<1>1. CASE e.kind = "CandidateRepairStarted"
  <2>1. e.cand \in Cands
    BY <1>a, <1>1, EventFields
  <2>2. CASE c # e.cand
    BY <1>1, <1>b, <2>1, <2>2 DEF Reduce, ReduceRepair, Projection
  <2>3. CASE c = e.cand
    <3> DEFINE q == [p.cands[c] EXCEPT !.used = e.used]
    <3>1. Reduce(p, e).cands[c] = IF e.fingerprint = 0 THEN q ELSE Observe(q, e.fingerprint)
      BY <1>1, <1>b, <2>1, <2>3 DEF Reduce, ReduceRepair, Projection
    <3>2. q \in CandidateRecord /\ q.used = e.used
      BY <1>a, <1>1, <1>b, EventFields DEF CandidateRecord
    <3> HIDE DEF q
    <3>3. Observe(q, e.fingerprint).used = e.used
      BY <3>2 DEF Observe, CandidateRecord
    <3> QED BY <1>1, <2>3, <3>1, <3>2, <3>3
  <2> QED BY <2>2, <2>3
<1>2. CASE e.kind \in {"CandidateRegistered", "CandidateStatusChanged", "CandidateExcluded"}
  BY <1>a, <1>b, <1>2, EventFields
     DEF Reduce, ReduceRegistered, ReduceCandidateStatus, ReduceExcluded, Projection, CandidateRecord
<1>3. CASE e.kind = "IntegrationAttempted"
  <2>1. e.cand \in Cands
    BY <1>a, <1>3, EventFields
  <2>2. Tried(p.cands[e.cand], e.applied).used = p.cands[e.cand].used
    BY <1>b, <2>1 DEF Tried, CandidateRecord
  <2>3. Reduce(p, e).cands = [p.cands EXCEPT ![e.cand] = Tried(p.cands[e.cand], e.applied)]
    BY <1>3 DEF Reduce, ReduceIntegration, Projection
  <2> QED BY <1>3, <1>b, <2>1, <2>2, <2>3
<1>4. CASE e.kind = "CandidatePromotionRequested"
  BY <1>a, <1>b, <1>4, EventFields DEF Reduce, ReducePromotion, Projection, CandidateRecord
<1>5. CASE e.kind \in {"RunStatusChanged", "NodeStarted", "NodeClosed", "PlanVersionWritten",
                      "PlanDecisionRecorded", "RankingComputed", "WinnerSelected"}
  BY <1>5 DEF Reduce, ReduceStatus, ReduceStarted, ReduceClosed, ReduceVersion, ReduceDecision,
              ReduceRanking, ReduceWinner, Projection
<1>6. CASE e.kind \in {"PlanApprovalInvalidated", "BaselineResolved", "FinalTestEvidence",
         "FinalReviewEvidence", "CommitApprovalRecorded", "CommitCreated",
         "CancellationRequested"}
  BY <1>6 DEF Reduce, ReduceInvalidated, Projection
<1>7. e.kind \in {"CandidateRepairStarted", "CandidateRegistered", "CandidateStatusChanged",
         "CandidateExcluded", "IntegrationAttempted", "CandidatePromotionRequested",
         "RunStatusChanged", "NodeStarted", "NodeClosed", "PlanVersionWritten",
         "PlanDecisionRecorded", "RankingComputed", "WinnerSelected",
         "PlanApprovalInvalidated", "BaselineResolved", "FinalTestEvidence",
         "FinalReviewEvidence", "CommitApprovalRecorded", "CommitCreated",
         "CancellationRequested"}
  BY <1>a DEF Event
<1> QED BY <1>1, <1>2, <1>3, <1>4, <1>5, <1>6, <1>7

LEMMA ReduceBudget ==
  ASSUME NEW p \in Projection, NEW e \in PlannedEvent, NEW c \in Cands,
         p.cands[c].used <= RepairBudget
  PROVE  Reduce(p, e).cands[c].used <= RepairBudget
  BY ReduceUsed DEF PlannedEvent

\* A projection keeps its own history.
LEMMA HistoryReflexive == \A p : KeepsHistory(p, p)
  BY DEF KeepsHistory

LEMMA CommitEventInv ==
  ASSUME RunInv(run), poisoned \in BOOLEAN, NEW e \in PlannedEvent, CommitEvent(e)
  PROVE  RunInv(run') /\ poisoned' \in BOOLEAN /\ KeepsHistory(run, run')
<1>1. CASE ~poisoned /\ Accepts(run, e)
  <2>1. run' = Reduce(run, e) /\ poisoned' = FALSE
    BY <1>1 DEF CommitEvent
  <2>2. e \in Event /\ run \in Projection /\ UniqueAttempts(run)
    BY DEF PlannedEvent, RunInv
  <2>3. RunInv(Reduce(run, e))
    BY <1>1, <2>2, ReduceType, ReduceUnique, ReduceBudget DEF RunInv
  <2>4. KeepsHistory(run, Reduce(run, e))
    BY <1>1, <2>2, ReduceKeepsHistory
  <2> QED BY <2>1, <2>3, <2>4
<1>2. CASE ~(~poisoned /\ Accepts(run, e))
  BY <1>2, HistoryReflexive DEF CommitEvent
<1> QED BY <1>1, <1>2

(***************************************************************************)
(* Sequences of calls.                                                     *)
(***************************************************************************)
LEMMA OneCall ==
  ASSUME NEW x \in PlannedOp
  PROVE  << x >> \in Seq(PlannedOp)
  OBVIOUS

LEMMA TwoCalls ==
  ASSUME NEW x \in PlannedOp, NEW y \in PlannedOp
  PROVE  << x, y >> \in Seq(PlannedOp)
  OBVIOUS

LEMMA OnlyCalls ==
  ASSUME NEW condition \in BOOLEAN, NEW x, condition => x \in PlannedOp
  PROVE  Only(condition, x) \in Seq(PlannedOp)
  BY OneCall DEF Only

LEMMA Concatenation ==
  ASSUME NEW s \in Seq(PlannedOp), NEW t \in Seq(PlannedOp)
  PROVE  s \o t \in Seq(PlannedOp)
  OBVIOUS

\* A task that has calls left goes on with well-formed ones.
LEMMA ContinueType ==
  ASSUME todo \in [Owners -> Seq(PlannedOp)], NEW o \in Owners, todo[o] # << >>,
         NEW calls \in Seq(PlannedOp), Continue(o, calls)
  PROVE  todo' \in [Owners -> Seq(PlannedOp)]
<1>1. Tail(todo[o]) \in Seq(PlannedOp)
  OBVIOUS
<1>2. calls \o Tail(todo[o]) \in Seq(PlannedOp)
  BY <1>1, Concatenation
<1> QED BY <1>2 DEF Continue

LEMMA CallType ==
  ASSUME todo \in [Owners -> Seq(PlannedOp)], NEW o \in Owners, todo[o] # << >>
  PROVE  Call(o) \in PlannedOp
  BY DEF Call

\* Committing inside a task, and going on or failing.
LEMMA CommitOrFailInv ==
  ASSUME IInv, NEW o \in Owners, todo[o] # << >>, NEW e \in PlannedEvent, CommitOrFail(o, e)
  PROVE  /\ RunInv(run') /\ poisoned' \in BOOLEAN /\ KeepsHistory(run, run')
         /\ todo' \in [Owners -> Seq(PlannedOp)]
<1>1. RunInv(run') /\ poisoned' \in BOOLEAN /\ KeepsHistory(run, run')
  BY CommitEventInv DEF IInv, CommitOrFail
<1>2. todo \in [Owners -> Seq(PlannedOp)]
  BY DEF IInv
<1>3. Tail(todo[o]) \in Seq(PlannedOp) /\ << Fail >> \in Seq(PlannedOp)
  BY <1>2, OneCall, PlannedOps
<1> QED BY <1>1, <1>2, <1>3 DEF CommitOrFail

(***************************************************************************)
(* The outputs of node bodies.                                             *)
(***************************************************************************)
PlannedOutput == {out \in Output : out.calls \in Seq(PlannedOp)}

LEMMA PlannedCallsAreCalls ==
  ASSUME NEW s \in Seq(PlannedOp)
  PROVE  s \in Seq(Op)
<1>1. \A x \in PlannedOp : x \in Op
  BY DEF PlannedOp
<1> QED BY <1>1

LEMMA OutputTypes ==
  /\ \A next \in Nodes \cup {None}, calls \in Seq(PlannedOp) :
       Succeeded(next, calls) \in PlannedOutput
  /\ \A class \in FailureClass, why \in Fingerprints, calls \in Seq(PlannedOp) :
       Failed(class, why, calls) \in PlannedOutput
  /\ Paused \in PlannedOutput
<1>1. \A next \in Nodes \cup {None}, calls \in Seq(PlannedOp) :
        Succeeded(next, calls) \in PlannedOutput
  <2> SUFFICES ASSUME NEW next \in Nodes \cup {None}, NEW calls \in Seq(PlannedOp)
               PROVE  Succeeded(next, calls) \in PlannedOutput
    OBVIOUS
  <2>1. calls \in Seq(Op)
    BY PlannedCallsAreCalls
  <2> QED BY <2>1 DEF PlannedOutput, Output, Succeeded
<1>2. \A class \in FailureClass, why \in Fingerprints, calls \in Seq(PlannedOp) :
        Failed(class, why, calls) \in PlannedOutput
  <2> SUFFICES ASSUME NEW class \in FailureClass, NEW why \in Fingerprints,
                      NEW calls \in Seq(PlannedOp)
               PROVE  Failed(class, why, calls) \in PlannedOutput
    OBVIOUS
  <2>1. calls \in Seq(Op)
    BY PlannedCallsAreCalls
  <2> QED BY <2>1 DEF PlannedOutput, Output, Failed
<1>3. Paused \in PlannedOutput
  <2>1. << >> \in Seq(Op) /\ << >> \in Seq(PlannedOp)
    OBVIOUS
  <2>2. Paused \in Output /\ Paused.calls = << >>
    BY <2>1 DEF Output, Paused
  <2> QED BY <2>1, <2>2 DEF PlannedOutput
<1> QED BY <1>1, <1>2, <1>3

LEMMA OutputStatuses ==
  ASSUME NEW out \in PlannedOutput
  PROVE  /\ \A status \in CandidateStatus : [out EXCEPT !.cand = status] \in PlannedOutput
         /\ \A status \in RunStatus : [out EXCEPT !.run = status] \in PlannedOutput
         /\ \A next \in Nodes \cup {None} : [out EXCEPT !.next = next] \in PlannedOutput
  BY DEF PlannedOutput, Output

LEMMA RetryOutput ==
  ASSUME NEW out \in PlannedOutput, NEW o \in Owners, NEW node \in Nodes, NEW number \in Nat
  PROVE  AfterRetryDecision(o, node, number, out) \in PlannedOutput
<1>1. {"Repair", "Join"} \subseteq Nodes /\ "Ineligible" \in CandidateStatus
  BY DEF Nodes, RunNodes, CandidateNodes, CandidateStatus
<1>2. /\ [out EXCEPT !.next = node] \in PlannedOutput
      /\ [out EXCEPT !.next = "Repair"] \in PlannedOutput
      /\ [out EXCEPT !.next = None] \in PlannedOutput
  BY <1>1, OutputStatuses
<1>3. [out EXCEPT !.next = "Join", !.cand = "Ineligible"] \in PlannedOutput
  BY <1>1 DEF PlannedOutput, Output
<1>4. /\ [out EXCEPT !.status = "Paused", !.next = None] \in PlannedOutput
      /\ [out EXCEPT !.status = "Cancelled", !.next = None] \in PlannedOutput
  BY DEF PlannedOutput, Output
<1> DEFINE d == ClassifyRetry(node, out.class, number, MaxAttempts,
                              o # RunOwner /\ HasRepairBudget(run.cands[o]))
<1>5. AfterRetryDecision(o, node, number, out) =
        IF out.status # "Failed" THEN out
        ELSE CASE d = "RetrySameNode" -> [out EXCEPT !.next = node]
               [] d = "RouteToRepair" -> [out EXCEPT !.next = "Repair"]
               [] d = "FailCandidate" -> [out EXCEPT !.next = "Join", !.cand = "Ineligible"]
               [] d = "PauseForUser"  -> [out EXCEPT !.status = "Paused", !.next = None]
               [] d = "Cancel"        -> [out EXCEPT !.status = "Cancelled", !.next = None]
               [] OTHER               -> [out EXCEPT !.next = None]
  BY DEF AfterRetryDecision
<1> HIDE DEF d
<1> QED BY <1>2, <1>3, <1>4, <1>5

LEMMA PatchType ==
  ASSUME NEW out \in PlannedOutput, NEW o \in Owners, NEW node \in Nodes
  PROVE  PatchCalls(o, node, out) \in Seq(PlannedOp)
<1> DEFINE a == Only(out.cand # None /\ o # RunOwner, SetCand(o, out.cand))
           b == Only(out.run # None, SetRun(out.run))
           c == Only(out.status = "Failed" /\ out.next = None /\ node \in RunNodes,
                     SetRun("Failed"))
           d == Only(out.status = "Paused" /\ node \in RunNodes, SetRun("RecoveryRequired"))
<1>1. /\ out.cand \in CandidateStatus \cup {None} /\ out.run \in RunStatus \cup {None}
  BY DEF PlannedOutput, Output
<1>2. o # RunOwner => o \in Cands
  BY ConstantsAssumption DEF Owners, Cands, RunOwner
<1>3. a \in Seq(PlannedOp)
  BY <1>1, <1>2, PlannedOps, OnlyCalls
<1>4. b \in Seq(PlannedOp)
  BY <1>1, PlannedOps, OnlyCalls
<1>5. c \in Seq(PlannedOp) /\ d \in Seq(PlannedOp)
  <2>1. SetRun("Failed") \in PlannedOp /\ SetRun("RecoveryRequired") \in PlannedOp
    BY PlannedOps DEF RunStatus
  <2> QED BY <2>1, OnlyCalls
<1>6. PatchCalls(o, node, out) = a \o b \o c \o d
  BY DEF PatchCalls
<1> HIDE DEF a, b, c, d
<1> QED BY <1>3, <1>4, <1>5, <1>6, Concatenation

LEMMA FinaliseType ==
  ASSUME NEW out \in PlannedOutput, NEW o \in Owners, NEW node \in Nodes, NEW number \in Nat
  PROVE  FinaliseCalls(o, node, number, out) \in Seq(PlannedOp)
<1> DEFINE closed == Do(NodeClosed(o, node, number, out.status, out.next, out.why))
           patch == PatchCalls(o, node, out)
           last == Only(out.status \notin {"Succeeded", "Failed"}, Return("Blocked"))
<1>1. /\ out.calls \in Seq(PlannedOp)
      /\ out.status \in AttemptStatus \ {"Started"}
      /\ out.next \in Nodes \cup {None} /\ out.why \in Fingerprints \cup {0}
  BY DEF PlannedOutput, Output, AttemptStatus
<1>2. << closed >> \in Seq(PlannedOp)
  BY <1>1, PlannedEvents, PlannedOps, OneCall
<1>3. patch \in Seq(PlannedOp)
  BY PatchType
<1>4. last \in Seq(PlannedOp)
  <2>1. Return("Blocked") \in PlannedOp
    BY PlannedOps DEF Outcome
  <2> QED BY <2>1, OnlyCalls
<1>5. << Fail >> \in Seq(PlannedOp)
  BY PlannedOps, OneCall
<1>6. FinaliseCalls(o, node, number, out) =
        out.calls \o (IF ~ValidResult(node, out.next) THEN << Fail >>
                      ELSE << closed >> \o patch \o last)
  BY DEF FinaliseCalls
<1> HIDE DEF closed, patch, last
<1> QED BY <1>1, <1>2, <1>3, <1>4, <1>5, <1>6, Concatenation

\* What the step of a body leaves to show: its output, and the files it wrote.
LEMMA BodyInv ==
  ASSUME IInv, NEW o \in Owners, At(o, "Body"), NEW out \in PlannedOutput, Produce(o, out),
         KeepsEngine, store' \in Store, git' \in Git, used' \in Used
  PROVE  IInv' /\ KeepsHistory(run, run')
<1>1. todo \in [Owners -> Seq(PlannedOp)] /\ todo[o] # << >> /\ Call(o).op = "Body"
  BY DEF IInv, At, Call
<1>2. Call(o).node \in Nodes /\ Call(o).number \in Nat
  BY <1>1, CallType, OpFields
<1>3. todo' \in [Owners -> Seq(PlannedOp)]
  BY <1>1, <1>2, RetryOutput, FinaliseType, ContinueType DEF Produce
<1> QED BY <1>3, HistoryReflexive DEF IInv, KeepsEngine

(***************************************************************************)
(* Every body preserves the invariant.                                     *)
(***************************************************************************)
LEMMA OwnerFacts ==
  /\ RunOwner \in Owners
  /\ \A c \in Cands : c \in Owners
  /\ \A o \in Owners : o # RunOwner => o \in Cands
  /\ 1 \in Fingerprints /\ 0 \notin Fingerprints /\ 0 \notin Hashes
  /\ NoCand \notin Cands
  BY ConstantsAssumption DEF Owners, Cands, RunOwner, NoCand, Fingerprints, Hashes

LEMMA NodeNames ==
  /\ {"Plan", "Approval", "Implement", "Test", "Review", "Repair", "Join", "Integrate",
      "FinalTest", "FinalReview", "CommitApproval"} \subseteq Nodes
  /\ RunNodes \subseteq Nodes /\ CandidateNodes \subseteq Nodes
  BY DEF Nodes, RunNodes, CandidateNodes

LEMMA TickType ==
  ASSUME used \in Used, NEW bound \in {"errors", "writes", "crashes", "requests"}, Tick(bound)
  PROVE  used' \in Used
  BY DEF Used, Tick

LEMMA NoCalls == << >> \in Seq(PlannedOp)
  OBVIOUS

LEMMA BaselineType == Baseline \in Content
<1>1. NoCand \in Owners
  BY ConstantsAssumption DEF NoCand, Owners
<1> QED BY <1>1 DEF Baseline, Content

\* A gate that writes into its worktree leaves a content there.
LEMMA WroteType ==
  ASSUME NEW content \in Content
  PROVE  [content EXCEPT !.wrote = @ + 1] \in Content
BY DEF Content

LEMMA GateWritesInv ==
  ASSUME IInv, NEW o \in Owners, GateWrites(o)
  PROVE  IInv' /\ KeepsHistory(run, run')
<1>1. used' \in Used
  BY TickType DEF IInv, GateWrites
<1>2. git' \in Git
  <2>1. CASE o = RunOwner
    <3>1. git' = [git EXCEPT !.tree.wrote = @ + 1]
      BY <2>1 DEF GateWrites
    <3>2. git' = [git EXCEPT !.tree = [git.tree EXCEPT !.wrote = @ + 1]]
      BY <3>1 DEF IInv, Git, Content
    <3>3. [git.tree EXCEPT !.wrote = @ + 1] \in Content
      BY <2>1, WroteType DEF IInv, Git
    <3> QED BY <3>2, <3>3 DEF IInv, Git
  <2>2. CASE o # RunOwner
    <3> DEFINE content == [git.work[o] EXCEPT !.wrote = @ + 1]
    <3>1. o \in Cands
      BY <2>2, OwnerFacts
    <3>2. git' = [git EXCEPT !.work[o] = content]
      BY <2>2, <3>1 DEF GateWrites, IInv, Git, Content
    <3>3. content \in Content
      BY <3>1, WroteType DEF IInv, Git
    <3> HIDE DEF content
    <3> QED BY <3>1, <3>2, <3>3 DEF IInv, Git
  <2> QED BY <2>1, <2>2
<1> QED BY <1>1, <1>2, HistoryReflexive DEF IInv, KeepsEngine, GateWrites

LEMMA EditWorktreeInv ==
  ASSUME IInv, NEW o \in Owners, EditWorktree(o)
  PROVE  IInv' /\ KeepsHistory(run, run')
<1>1. todo \in [Owners -> Seq(PlannedOp)] /\ todo[o] # << >>
  BY DEF IInv, EditWorktree, At
<1>2. todo' \in [Owners -> Seq(PlannedOp)]
  BY <1>1, NoCalls, ContinueType DEF EditWorktree
<1>3. git' \in Git
  <2>1. Baseline \in Content
    BY BaselineType
  <2>a. git \in Git
    BY DEF IInv
  <2>2. CASE o = RunOwner
    <3>1. git' = [git EXCEPT !.tree = Baseline]
      BY <2>2 DEF EditWorktree
    <3> QED BY <2>1, <2>a, <3>1 DEF Git
  <2>3. CASE o # RunOwner
    <3>1. o \in Cands
      BY <2>3, OwnerFacts
    <3>2. git.work \in [Cands -> Content] /\ git.work[o] \in Content
      BY <2>a, <3>1 DEF Git
    <3>3. [cand |-> o, rev |-> git.work[o].rev + 1, wrote |-> 0] \in Content
      BY <3>2 DEF Content
    <3>4. EditedWork(o, Call(o).node) \subseteq Content
      BY <3>2, <3>3 DEF EditedWork
    <3>5. PICK content \in Content : git' = [git EXCEPT !.work[o] = content]
      BY <2>3, <3>4 DEF EditWorktree
    <3> QED BY <2>a, <3>1, <3>5 DEF Git
  <2> QED BY <2>2, <2>3
<1> QED BY <1>2, <1>3, HistoryReflexive DEF IInv, KeepsEngine, EditWorktree

LEMMA NodeErrorInv ==
  ASSUME IInv, NEW o \in Owners, NEW class \in Faults, NodeError(o, class)
  PROVE  IInv' /\ KeepsHistory(run, run')
<1>1. class \in FailureClass
  BY EngineAssumption
<1>2. PICK why \in Fingerprints : Produce(o, Failed(class, why, << >>))
  BY DEF NodeError
<1>3. Failed(class, why, << >>) \in PlannedOutput
  BY <1>1, NoCalls, OutputTypes
<1>4. used' \in Used
  BY TickType DEF IInv, NodeError
<1> QED BY <1>2, <1>3, <1>4, BodyInv DEF NodeError, IInv

LEMMA PrepareNodeInv ==
  ASSUME IInv, PrepareNode
  PROVE  IInv' /\ KeepsHistory(run, run')
<1>1. << Do(BaselineResolved) >> \in Seq(PlannedOp)
  BY PlannedEvents, PlannedOps, OneCall
<1>2. Succeeded("Plan", << Do(BaselineResolved) >>) \in PlannedOutput
  BY <1>1, NodeNames, OutputTypes
<1> QED BY <1>2, OwnerFacts, BodyInv DEF PrepareNode, AtBody, IInv

\* PlanHistory::next_version_number is a version number.
LEMMA VersionType ==
  ASSUME run \in Projection
  PROVE  /\ NextVersionNumber(run) \in Nat
         /\ HasPlan(run) => CurrentPlan(run) \in PlanVersion
<1>1. run.versions \in Seq(PlanVersion)
  BY DEF Projection
<1>2. HasPlan(run) => CurrentPlan(run) \in PlanVersion
  BY <1>1 DEF HasPlan, CurrentPlan
<1> QED BY <1>2 DEF NextVersionNumber, PlanVersion

LEMMA WriteVersionType ==
  ASSUME NEW files \in SUBSET PlanVersion, NEW version \in Nat, NEW hash \in Hashes
  PROVE  WriteVersion(files, version, hash) \in SUBSET PlanVersion
<1>1. [version |-> version, hash |-> hash] \in PlanVersion
  BY DEF PlanVersion
<1> QED BY <1>1 DEF WriteVersion

LEMMA PlanNodeInv ==
  ASSUME IInv, NEW hash \in Hashes, PlanNode(hash)
  PROVE  IInv' /\ KeepsHistory(run, run')
<1> DEFINE version == NextVersionNumber(run)
           calls == << Do(PlanVersionWritten(version, hash)) >>
<1>1. version \in Nat
  BY VersionType DEF IInv, RunInv
<1>2. calls \in Seq(PlannedOp)
  BY <1>1, PlannedEvents, PlannedOps, OneCall
<1>3. Succeeded("Approval", calls) \in PlannedOutput
  BY <1>2, NodeNames, OutputTypes
<1>4. store' \in Store
  BY <1>1, WriteVersionType DEF PlanNode, IInv, Store
<1> QED BY <1>3, <1>4, OwnerFacts, BodyInv DEF PlanNode, AtBody, IInv

LEMMA FanOutNodeInv ==
  ASSUME IInv, FanOutNode
  PROVE  IInv' /\ KeepsHistory(run, run')
<1>1. FanOutCalls \in Seq(PlannedOp)
  <2>1. ASSUME NEW i \in 1..(2 * NumCandidates)
        PROVE  FanOutCalls[i] \in PlannedOp
    <3>1. CASE i % 2 = 1
      <4>1. (i + 1) \div 2 \in Cands
        BY <3>1, ConstantsAssumption DEF Cands
      <4> QED BY <3>1, <4>1, PlannedEvents, PlannedOps DEF FanOutCalls
    <3>2. CASE i % 2 # 1
      <4>1. i \div 2 \in Cands
        BY <3>2, ConstantsAssumption DEF Cands
      <4>2. {"Pending", "Preparing"} \subseteq CandidateStatus
        BY DEF CandidateStatus
      <4> QED BY <3>2, <4>1, <4>2, PlannedEvents, PlannedOps DEF FanOutCalls
    <3> QED BY <3>1, <3>2
  <2>2. 2 * NumCandidates \in Nat
    BY ConstantsAssumption
  <2>3. FanOutCalls \in [1..(2 * NumCandidates) -> PlannedOp]
    BY <2>1 DEF FanOutCalls
  <2> QED BY <2>2, <2>3
<1>2. /\ Succeeded("Implement", FanOutCalls) \in PlannedOutput
      /\ Failed("InternalInvariant", 1, << >>) \in PlannedOutput
  BY <1>1, NoCalls, NodeNames, OwnerFacts, OutputTypes DEF FailureClass
<1> QED BY <1>2, OwnerFacts, BodyInv DEF FanOutNode, AtBody, IInv

LEMMA AgentOutputType ==
  ASSUME NEW completed \in BOOLEAN, NEW why \in Fingerprints, NEW calls \in Seq(PlannedOp)
  PROVE  AgentOutput(completed, why, calls) \in PlannedOutput
<1>1. {"UserActionRequired", "TaskFailure"} \subseteq FailureClass
  BY DEF FailureClass
<1>2. /\ Failed("UserActionRequired", why, << >>) \in PlannedOutput
      /\ Succeeded("Test", calls) \in PlannedOutput
      /\ Failed("TaskFailure", why, calls) \in PlannedOutput
  BY <1>1, NoCalls, NodeNames, OutputTypes
<1> QED BY <1>2 DEF AgentOutput

LEMMA StoreDiffType ==
  ASSUME store \in Store, git \in Git, NEW c \in Cands, StoreDiff(c)
  PROVE  store' \in Store
<1>1. git.work[c] \in Content
  BY DEF Git
<1>2. [store EXCEPT !.diff[c] = git.work[c]] \in Store
  BY <1>1 DEF Store
<1> QED BY <1>2 DEF StoreDiff

\* A verdict on some content, filed as the latest test evidence or review.
LEMMA VerdictStored ==
  ASSUME store \in Store, NEW o \in Owners, NEW content \in Content, NEW passed \in BOOLEAN
  PROVE  /\ [store EXCEPT !.tests[o] = [of |-> content, passed |-> passed]] \in Store
         /\ [store EXCEPT !.review[o] = [of |-> content, passed |-> passed]] \in Store
<1> DEFINE v == [of |-> content, passed |-> passed]
<1>1. v \in Evidence
  BY DEF Evidence
<1> HIDE DEF v
<1>2. [store EXCEPT !.tests[o] = v] \in Store /\ [store EXCEPT !.review[o] = v] \in Store
  BY <1>1 DEF Store
<1> QED BY <1>2 DEF v

LEMMA ImplementNodeInv ==
  ASSUME IInv, NEW c \in Cands, NEW completed \in BOOLEAN, NEW why \in Fingerprints,
         ImplementNode(c, completed, why)
  PROVE  IInv' /\ KeepsHistory(run, run')
<1>1. store' \in Store
  BY StoreDiffType DEF ImplementNode, IInv
<1>2. used' \in Used
  BY TickType DEF ImplementNode, IInv
<1>3. AgentOutput(completed, why, << >>) \in PlannedOutput
  BY NoCalls, AgentOutputType
<1> QED BY <1>1, <1>2, <1>3, OwnerFacts, BodyInv DEF ImplementNode, AtBody, IInv

LEMMA TestNodeInv ==
  ASSUME IInv, NEW c \in Cands, NEW passed \in BOOLEAN, NEW why \in Fingerprints,
         TestNode(c, passed, why)
  PROVE  IInv' /\ KeepsHistory(run, run')
<1>1. store \in Store /\ git.work[c] \in Content
  BY DEF IInv, Git
<1>2. store' \in Store
  BY <1>1, OwnerFacts, VerdictStored DEF TestNode
<1>3. Succeeded("Review", << >>) \in PlannedOutput /\ Failed("TaskFailure", why, << >>) \in PlannedOutput
  BY NoCalls, NodeNames, OutputTypes DEF FailureClass
<1> QED BY <1>2, <1>3, OwnerFacts, BodyInv DEF TestNode, AtBody, IInv

LEMMA ReviewNodeInv ==
  ASSUME IInv, NEW c \in Cands, NEW passed \in BOOLEAN, NEW why \in Fingerprints,
         ReviewNode(c, passed, why)
  PROVE  IInv' /\ KeepsHistory(run, run')
<1>1. store \in Store /\ git.work[c] \in Content
  BY DEF IInv, Git
<1>2. store' \in Store
  BY <1>1, OwnerFacts, VerdictStored DEF ReviewNode
<1>3. Succeeded("Join", << >>) \in PlannedOutput /\ Failed("TaskFailure", why, << >>) \in PlannedOutput
  BY NoCalls, NodeNames, OutputTypes DEF FailureClass
<1>4. [Succeeded("Join", << >>) EXCEPT !.cand = "Eligible"] \in PlannedOutput
  BY <1>3, OutputStatuses DEF CandidateStatus
<1> QED BY <1>2, <1>3, <1>4, OwnerFacts, BodyInv DEF ReviewNode, AtBody, IInv

LEMMA RepairExhaustedInv ==
  ASSUME IInv, NEW c \in Cands, NEW why \in Fingerprints, RepairExhausted(c, why)
  PROVE  IInv' /\ KeepsHistory(run, run')
<1> DEFINE out == Failed("TaskFailure", why, << >>)
<1>1. out \in PlannedOutput
  BY NoCalls, OutputTypes DEF FailureClass
<1>2. [out EXCEPT !.next = "Join", !.cand = "Ineligible"] \in PlannedOutput
  <2>1. "Join" \in Nodes /\ "Ineligible" \in CandidateStatus
    BY NodeNames DEF CandidateStatus
  <2> HIDE DEF out
  <2> QED BY <1>1, <2>1 DEF PlannedOutput, Output
<1> QED BY <1>2, OwnerFacts, BodyInv DEF RepairExhausted, AtBody, IInv

LEMMA LatestFailureType ==
  ASSUME run \in Projection, NEW c \in Cands
  PROVE  LatestFailure(run, c) \subseteq Fingerprints \cup {0}
<1>1. run.attempts[c] \in Seq(Attempt)
  BY OwnerFacts DEF Projection
<1>2. \A i \in DOMAIN run.attempts[c] : run.attempts[c][i].why \in Fingerprints \cup {0}
  <2>1. \A i \in DOMAIN run.attempts[c] : run.attempts[c][i] \in Attempt
    BY <1>1
  <2>2. \A a \in Attempt : a.why \in Fingerprints \cup {0}
    BY DEF Attempt
  <2> QED BY <2>1, <2>2
<1> QED BY <1>2 DEF LatestFailure

\* The step that charges a repair: the budget test of this step bounds the number
\* that CandidateRepairStarted will carry when it is committed.
LEMMA RepairNodeInv ==
  ASSUME IInv, NEW c \in Cands, NEW completed \in BOOLEAN, NEW why \in Fingerprints,
         RepairNode(c, completed, why)
  PROVE  IInv' /\ KeepsHistory(run, run')
<1> DEFINE n == run.cands[c].used + 1
           calls(f) == << Do(CandidateRepairStarted(c, n, f)) >>
<1>1. run \in Projection
  BY DEF IInv, RunInv
<1>2. n \in Nat /\ n <= RepairBudget
  <2>1. run.cands[c].used \in Nat
    BY <1>1 DEF Projection, CandidateRecord
  <2>2. RepairBudget - run.cands[c].used > 0
    BY DEF RepairNode, HasRepairBudget
  <2> QED BY <2>1, <2>2, ConstantsAssumption
<1>3. PICK f \in LatestFailure(run, c) : Produce(c, AgentOutput(completed, why, calls(f)))
  BY DEF RepairNode
<1>4. f \in Fingerprints \cup {0}
  BY <1>1, LatestFailureType
<1> HIDE DEF n
<1>5. calls(f) \in Seq(PlannedOp)
  BY <1>2, <1>4, PlannedEvents, PlannedOps, OneCall
<1>6. AgentOutput(completed, why, calls(f)) \in PlannedOutput
  BY <1>5, AgentOutputType
<1>7. store' \in Store
  BY StoreDiffType DEF RepairNode, IInv
<1> QED BY <1>3, <1>6, <1>7, OwnerFacts, BodyInv DEF RepairNode, AtBody, IInv

(***************************************************************************)
(* Selection, integration and the commit.                                  *)
(***************************************************************************)
LEMMA OrdersType ==
  ASSUME NEW S \in SUBSET Cands, NEW s \in Orders(S)
  PROVE  s \in Seq(Cands) /\ (S # {} => s[1] \in Cands)
<1>1. IsFiniteSet(S)
  <2>1. IsFiniteSet(Cands)
    BY ConstantsAssumption, FS_Interval DEF Cands
  <2> QED BY <2>1, FS_Subset
<1>2. Cardinality(S) \in Nat /\ (S # {} => Cardinality(S) # 0)
  BY <1>1, FS_CardinalityType, FS_EmptySet
<1>3. s \in [1..Cardinality(S) -> S]
  BY DEF Orders
<1>4. s \in [1..Cardinality(S) -> Cands]
  BY <1>3
<1> QED BY <1>2, <1>3, <1>4

LEMMA JoinNodeInv ==
  ASSUME IInv, NEW eligible \in SUBSET Cands, JoinNode(eligible)
  PROVE  IInv' /\ KeepsHistory(run, run')
<1> DEFINE excluded == {c \in Cands : Registered(run, c)} \ eligible
           calls(r) == << ExcludeAll(excluded), Do(RankingComputed(r)) >>
           won(r) == << Do(WinnerSelected(r[1])) >>
           out(r) == IF eligible = {} THEN [Succeeded(None, calls(r)) EXCEPT !.run = "Exhausted"]
                     ELSE Succeeded("Integrate", calls(r) \o won(r))
<1>1. PICK r \in Orders(eligible) : Produce(RunOwner, out(r))
  BY DEF JoinNode
<1>2. r \in Seq(Cands) /\ (eligible # {} => r[1] \in Cands)
  BY OrdersType
<1>3. calls(r) \in Seq(PlannedOp)
  BY <1>2, PlannedEvents, PlannedOps, TwoCalls
<1>4. eligible # {} => won(r) \in Seq(PlannedOp)
  BY <1>2, PlannedEvents, PlannedOps, OneCall
<1>5. [Succeeded(None, calls(r)) EXCEPT !.run = "Exhausted"] \in PlannedOutput
  <2>1. Succeeded(None, calls(r)) \in PlannedOutput
    BY <1>3, OutputTypes
  <2> QED BY <2>1, OutputStatuses DEF RunStatus
<1>6. eligible # {} => Succeeded("Integrate", calls(r) \o won(r)) \in PlannedOutput
  BY <1>3, <1>4, Concatenation, NodeNames, OutputTypes
<1>7. out(r) \in PlannedOutput
  BY <1>5, <1>6
<1> HIDE DEF out
<1> QED BY <1>1, <1>7, OwnerFacts, BodyInv DEF JoinNode, AtBody, IInv

LEMMA NextPromotableType ==
  ASSUME run \in Projection, NEW failed
  PROVE  NextPromotable(failed) \subseteq Cands \cup {NoCand}
<1>1. run.ranking \in Seq(Cands)
  BY DEF Projection
<1>2. \A i \in DOMAIN run.ranking : run.ranking[i] \in Cands
  BY <1>1
<1> QED BY <1>2 DEF NextPromotable

LEMMA PromotionType ==
  ASSUME NEW winner \in Cands, NEW next \in Cands \cup {NoCand}, NEW calls \in Seq(PlannedOp)
  PROVE  Promotion(winner, next, calls) \in PlannedOutput
<1> DEFINE all == calls \o << Do(CandidateExcluded(winner)),
                              Do(CandidatePromotionRequested(winner, next)) >>
<1>1. all \in Seq(PlannedOp)
  BY PlannedEvents, PlannedOps, TwoCalls, Concatenation
<1> HIDE DEF all
<1>2. Succeeded(None, all) \in PlannedOutput /\ Succeeded("Integrate", all) \in PlannedOutput
  BY <1>1, NodeNames, OutputTypes
<1>3. [Succeeded(None, all) EXCEPT !.run = "Exhausted"] \in PlannedOutput
  BY <1>2, OutputStatuses DEF RunStatus
<1> QED BY <1>2, <1>3 DEF Promotion, all

\* The winner is one of the candidates once there is one.
LEMMA WinnerType ==
  ASSUME IInv, run.winner # NoCand
  PROVE  run \in Projection /\ run.winner \in Cands
  BY DEF IInv, RunInv, Projection

LEMMA IntegrateNodeInv ==
  ASSUME IInv, NEW applies \in BOOLEAN, IntegrateNode(applies)
  PROVE  IInv' /\ KeepsHistory(run, run')
<1> DEFINE attempted == << Do(IntegrationAttempted(run.winner, applies)) >>
           out(next) == IF applies THEN Succeeded("FinalTest", attempted)
                        ELSE Promotion(run.winner, next, attempted)
<1>1. run \in Projection /\ run.winner \in Cands
  BY WinnerType DEF IntegrateNode
<1>2. PICK next \in NextPromotable(run.winner) : Produce(RunOwner, out(next))
  BY DEF IntegrateNode
<1>3. next \in Cands \cup {NoCand}
  BY <1>1, NextPromotableType
<1>4. attempted \in Seq(PlannedOp)
  BY <1>1, PlannedEvents, PlannedOps, OneCall
<1>5. out(next) \in PlannedOutput
  BY <1>1, <1>3, <1>4, NodeNames, OutputTypes, PromotionType
<1>6. git' \in Git
  <2>1. store.diff[run.winner] \in Content /\ git \in Git
    BY <1>1 DEF IInv, Store
  <2>2. git' = [git EXCEPT !.tree = IF applies THEN store.diff[run.winner] ELSE @]
    BY DEF IntegrateNode
  <2> QED BY <2>1, <2>2 DEF Git
<1> HIDE DEF out
<1> QED BY <1>2, <1>5, <1>6, OwnerFacts, BodyInv DEF IntegrateNode, AtBody, IInv

LEMMA FinalOutputType ==
  ASSUME IInv, run.winner # NoCand, NEW passed \in BOOLEAN, NEW next \in Nodes,
         NEW promoted \in NextPromotable(run.winner), NEW evidence \in PlannedOp
  PROVE  FinalOutput(passed, next, promoted, evidence) \in PlannedOutput
<1>1. run.winner \in Cands /\ promoted \in Cands \cup {NoCand}
  BY WinnerType, NextPromotableType
<1>2. << evidence >> \in Seq(PlannedOp)
  BY OneCall
<1>3. /\ Succeeded(next, << evidence >>) \in PlannedOutput
      /\ Promotion(run.winner, promoted, << evidence >>) \in PlannedOutput
  BY <1>1, <1>2, OutputTypes, PromotionType
<1> QED BY <1>3 DEF FinalOutput

LEMMA FinalTestNodeInv ==
  ASSUME IInv, NEW passed \in BOOLEAN, FinalTestNode(passed)
  PROVE  IInv' /\ KeepsHistory(run, run')
<1> DEFINE evidence == Do(FinalTestEvidence(Verdict(passed)))
<1>1. evidence \in PlannedOp
  BY PlannedEvents, PlannedOps DEF Verdict
<1>2. PICK promoted \in NextPromotable(run.winner) :
        Produce(RunOwner, FinalOutput(passed, "FinalReview", promoted, evidence))
  BY DEF FinalTestNode
<1> HIDE DEF evidence
<1>3. FinalOutput(passed, "FinalReview", promoted, evidence) \in PlannedOutput
  BY <1>1, NodeNames, FinalOutputType DEF FinalTestNode
<1>4. store' \in Store
  <2>1. store \in Store /\ git.tree \in Content
    BY DEF IInv, Git
  <2> QED BY <2>1, OwnerFacts, VerdictStored DEF FinalTestNode
<1> QED BY <1>2, <1>3, <1>4, OwnerFacts, BodyInv DEF FinalTestNode, AtBody, IInv

LEMMA FinalReviewNodeInv ==
  ASSUME IInv, NEW passed \in BOOLEAN, FinalReviewNode(passed)
  PROVE  IInv' /\ KeepsHistory(run, run')
<1> DEFINE evidence == Do(FinalReviewEvidence(Verdict(passed)))
<1>1. evidence \in PlannedOp
  BY PlannedEvents, PlannedOps DEF Verdict
<1>2. PICK promoted \in NextPromotable(run.winner) :
        Produce(RunOwner, FinalOutput(passed, "CommitApproval", promoted, evidence))
  BY DEF FinalReviewNode
<1> HIDE DEF evidence
<1>3. FinalOutput(passed, "CommitApproval", promoted, evidence) \in PlannedOutput
  BY <1>1, NodeNames, FinalOutputType DEF FinalReviewNode
<1>4. store' \in Store
  <2>1. store \in Store /\ git.tree \in Content
    BY DEF IInv, Git
  <2> QED BY <2>1, OwnerFacts, VerdictStored DEF FinalReviewNode
<1> QED BY <1>2, <1>3, <1>4, OwnerFacts, BodyInv DEF FinalReviewNode, AtBody, IInv

LEMMA CommitNodeInv ==
  ASSUME IInv, CommitNode
  PROVE  IInv' /\ KeepsHistory(run, run')
<1>1. git' \in Git
  <2>1. git \in Git
    BY DEF IInv
  <2>2. git' = git \/ git' = [git EXCEPT !.branch = Append(git.branch, git.tree)]
    BY DEF CommitNode
  <2>3. Append(git.branch, git.tree) \in Seq(Content)
    BY <2>1 DEF Git
  <2> QED BY <2>1, <2>2, <2>3 DEF Git
<1>2. << Do(CommitCreated) >> \in Seq(PlannedOp)
  BY PlannedEvents, PlannedOps, OneCall
<1>3. Succeeded(None, << Do(CommitCreated) >>) \in PlannedOutput
  BY <1>2, OutputTypes
<1>4. [Succeeded(None, << Do(CommitCreated) >>) EXCEPT !.run = "Succeeded"] \in PlannedOutput
  BY <1>3, OutputStatuses DEF RunStatus
<1>5. /\ Failed("TaskFailure", 1, << >>) \in PlannedOutput
      /\ Failed("Transient", 1, << >>) \in PlannedOutput
  BY NoCalls, OwnerFacts, OutputTypes DEF FailureClass
<1>6. CommitOutput \in PlannedOutput
  BY <1>4, <1>5 DEF CommitOutput
<1> QED BY <1>1, <1>6, OwnerFacts, BodyInv DEF CommitNode, AtBody, IInv

LEMMA NodeBodyInv ==
  ASSUME IInv, NodeBody
  PROVE  IInv' /\ KeepsHistory(run, run')
<1>1. CASE CommitPauses
  BY <1>1, OutputTypes, OwnerFacts, BodyInv DEF CommitPauses, AtBody, IInv
<1> QED BY <1>1, EditWorktreeInv, GateWritesInv, NodeErrorInv, PrepareNodeInv, PlanNodeInv, FanOutNodeInv,
           ImplementNodeInv, TestNodeInv, ReviewNodeInv, RepairNodeInv, RepairExhaustedInv,
           JoinNodeInv, IntegrateNodeInv, FinalTestNodeInv, FinalReviewNodeInv, CommitNodeInv
        DEF NodeBody

(***************************************************************************)
(* The requests of the operator.                                           *)
(***************************************************************************)
LEMMA RequestType ==
  ASSUME NEW events \in Seq(PlannedEvent), NEW held \in BOOLEAN, NEW finalise \in BOOLEAN
  PROVE  [events |-> events, held |-> held, finalise |-> finalise] \in PlannedRequest
<1>1. \A e \in PlannedEvent : e \in Event
  BY DEF PlannedEvent
<1>2. events \in Seq(Event)
  BY <1>1
<1> QED BY <1>2 DEF PlannedRequest, Request

LEMMA SubmitInv ==
  ASSUME IInv, NEW events \in Seq(PlannedEvent), NEW finalise \in BOOLEAN,
         Submit(events, finalise), cancelled' \in BOOLEAN, store' \in Store
  PROVE  IInv' /\ KeepsHistory(run, run')
<1>1. [events |-> events, held |-> FALSE, finalise |-> finalise] \in PlannedRequest
  BY RequestType
<1>2. pending' \in SUBSET PlannedRequest
  BY <1>1 DEF Submit, IInv
<1>3. used' \in Used
  BY DEF Submit, IInv, Used
<1> QED BY <1>2, <1>3, HistoryReflexive DEF IInv, Submit

LEMMA UpdatePlanInv ==
  ASSUME IInv, NEW hash \in Hashes, UpdatePlan(hash)
  PROVE  IInv' /\ KeepsHistory(run, run')
<1> DEFINE version == NextVersionNumber(run)
<1>1. version \in Nat
  BY VersionType DEF IInv, RunInv
<1>2. store' \in Store
  BY <1>1, WriteVersionType DEF UpdatePlan, IInv, Store
<1>3. UpdateEvents(version, hash) \in Seq(PlannedEvent)
  <2> HIDE DEF version
  <2>1. PlanVersionWritten(version, hash) \in PlannedEvent /\ PlanApprovalInvalidated \in PlannedEvent
    BY <1>1, PlannedEvents
  <2>2. /\ << PlanVersionWritten(version, hash) >> \in Seq(PlannedEvent)
        /\ << PlanApprovalInvalidated >> \in Seq(PlannedEvent)
    BY <2>1
  <2> QED BY <2>2 DEF UpdateEvents
<1> QED BY <1>2, <1>3, SubmitInv DEF UpdatePlan, IInv

LEMMA DecidePlanInv ==
  ASSUME IInv, NEW kind, NEW decision \in Decision, DecidePlan(kind, decision)
  PROVE  IInv' /\ KeepsHistory(run, run')
<1> DEFINE e == PlanDecisionRecorded(decision, CurrentPlan(run).version, CurrentPlan(run).hash)
<1>1. CurrentPlan(run) \in PlanVersion
  BY VersionType DEF DecidePlan, IInv, RunInv
<1>2. e \in PlannedEvent
  BY <1>1, PlannedEvents DEF PlanVersion
<1>3. << e >> \in Seq(PlannedEvent)
  BY <1>2
<1> HIDE DEF e
<1>4. Submit(<< e >>, FALSE)
  BY DEF DecidePlan, e
<1> QED BY <1>3, <1>4, SubmitInv DEF DecidePlan, IInv

LEMMA ApproveCommitInv ==
  ASSUME IInv, ApproveCommit
  PROVE  IInv' /\ KeepsHistory(run, run')
<1>1. << CommitApprovalRecorded >> \in Seq(PlannedEvent)
  BY PlannedEvents
<1> QED BY <1>1, SubmitInv DEF ApproveCommit, IInv

LEMMA CancelInv ==
  ASSUME IInv, NEW signalled \in BOOLEAN, Cancel(signalled)
  PROVE  IInv' /\ KeepsHistory(run, run')
<1>1. << CancellationRequested >> \in Seq(PlannedEvent)
  BY PlannedEvents
<1>2. cancelled' \in BOOLEAN /\ (~signalled) \in BOOLEAN
  BY DEF Cancel, IInv
<1> QED BY <1>1, <1>2, SubmitInv DEF Cancel, IInv

LEMMA ServedType ==
  ASSUME NEW r \in PlannedRequest, r.events # << >>
  PROVE  Served(r) \subseteq PlannedRequest
<1>1. r.events \in Seq(PlannedEvent) /\ r \in Request
  BY DEF PlannedRequest
<1>2. Tail(r.events) \in Seq(PlannedEvent) /\ << >> \in Seq(PlannedEvent)
  BY <1>1
<1>3. Tail(r.events) \in Seq(Event) /\ << >> \in Seq(Event)
  <2>1. r.events \in Seq(Event)
    BY <1>1 DEF Request
  <2> QED BY <2>1
<1>4. [r EXCEPT !.events = Tail(r.events), !.held = TRUE] \in PlannedRequest
  BY <1>1, <1>2, <1>3 DEF PlannedRequest, Request
<1>5. [r EXCEPT !.events = << >>, !.held = FALSE] \in PlannedRequest
  BY <1>1, <1>2, <1>3 DEF PlannedRequest, Request
<1> QED BY <1>4, <1>5 DEF Served

LEMMA ServiceAppendInv ==
  ASSUME IInv, NEW r \in pending, ServiceAppend(r)
  PROVE  IInv' /\ KeepsHistory(run, run')
<1>1. r \in PlannedRequest /\ r.events # << >>
  BY DEF IInv, ServiceAppend
<1>2. Head(r.events) \in PlannedEvent
  BY <1>1 DEF PlannedRequest
<1>3. RunInv(run') /\ poisoned' \in BOOLEAN /\ KeepsHistory(run, run')
  BY <1>2, CommitEventInv DEF ServiceAppend, IInv
<1>4. pending' \in SUBSET PlannedRequest
  BY <1>1, ServedType DEF ServiceAppend, IInv
<1>5. lock' \in {"free", "recovering", "dispatch", "service"}
  BY DEF ServiceAppend
<1> QED BY <1>3, <1>4, <1>5 DEF ServiceAppend, IInv

LEMMA ServiceInv ==
  ASSUME IInv, Service
  PROVE  IInv' /\ KeepsHistory(run, run')
<1>1. ASSUME NEW r \in pending, RequestTimeout(r)
      PROVE  IInv' /\ KeepsHistory(run, run')
  BY <1>1, HistoryReflexive DEF RequestTimeout, IInv
<1>2. ASSUME NEW r \in pending, RequestKilled(r)
      PROVE  IInv' /\ KeepsHistory(run, run')
  <2>1. used' \in Used
    BY <1>2 DEF RequestKilled, IInv, Used
  <2> QED BY <1>2, <2>1, HistoryReflexive DEF RequestKilled, IInv
<1>3. {"Approved", "RevisionRequested", "Rejected"} \subseteq Decision
  BY DEF Decision
<1> QED BY <1>1, <1>2, <1>3, UpdatePlanInv, DecidePlanInv, ApproveCommitInv, CancelInv,
           ServiceAppendInv DEF Service

(***************************************************************************)
(* The dispatcher and recovery.                                            *)
(***************************************************************************)
LEMMA NextRunStepType ==
  ASSUME run \in Projection
  PROVE  NextRunStep(run) \in RunStep
<1>1. /\ \A node \in RunNodes : Run(node) \in RunStep
      /\ \A status \in RunTerminal : Finish(status) \in RunStep
      /\ \A kind \in {"RunCandidates", "AwaitPlanApproval", "AwaitCommitApproval", "Cancel",
                      "Blocked"} : Step(kind) \in RunStep
  BY DEF RunStep, Run, Finish, Step
<1>2. CommitStep(run) \in RunStep
  BY <1>1 DEF CommitStep, RunTerminal, RunNodes
<1>3. IntegrationStep(run) \in RunStep
  BY <1>1, <1>2 DEF IntegrationStep, RunTerminal, RunNodes
<1>4. CandidateStage(run) \in RunStep
  BY <1>1, <1>3 DEF CandidateStage, RunNodes
<1>5. PlanStage(run) \in RunStep
  BY <1>1, <1>4 DEF PlanStage, RunNodes
<1> QED BY <1>1, <1>5 DEF NextRunStep, RunNodes

LEMMA StepFields ==
  ASSUME NEW s \in RunStep
  PROVE  /\ s.kind = "Finish" => s.value \in Outcome
         /\ s.kind = "RunNode" => s.value \in Nodes
<1>1. /\ s.kind = "Finish" => s.value \in RunTerminal
      /\ s.kind = "RunNode" => s.value \in RunNodes
  BY DEF RunStep
<1>2. RunTerminal \subseteq Outcome /\ RunNodes \subseteq Nodes
  BY DEF RunTerminal, Outcome, RunStatus, Nodes
<1> QED BY <1>1, <1>2

LEMMA EndDispatchInv ==
  ASSUME IInv, NEW result \in Outcome, EndDispatch(result), UNCHANGED << run, poisoned >>,
         UNCHANGED << pending, store, git >>, used' \in Used
  PROVE  IInv' /\ KeepsHistory(run, run')
<1>1. todo' \in [Owners -> Seq(PlannedOp)]
  BY NoCalls DEF EndDispatch
<1>2. task' \in [Cands -> {"none", "queued", "running", "done", "failed"}]
  BY DEF EndDispatch
<1> QED BY <1>1, <1>2, HistoryReflexive DEF EndDispatch, IInv

LEMMA DispatchInv ==
  ASSUME IInv, Dispatch \/ DispatchRefused
               \/ \E r \in pending : FinaliseCancel(r) \/ CancelAlreadyFinal(r)
  PROVE  IInv' /\ KeepsHistory(run, run')
<1>1. ASSUME NEW signalled \in BOOLEAN, BeginDispatch(signalled),
             pending' \in SUBSET PlannedRequest
      PROVE  IInv' /\ KeepsHistory(run, run')
  BY <1>1, HistoryReflexive DEF BeginDispatch, IInv, Outcome
<1>2. CASE Dispatch
  BY <1>1, <1>2 DEF Dispatch, IInv
<1>3. CASE DispatchRefused
  BY <1>3, HistoryReflexive DEF DispatchRefused, IInv, Outcome
<1>4. ASSUME NEW r \in pending, FinaliseCancel(r)
      PROVE  IInv' /\ KeepsHistory(run, run')
  <2>1. BeginDispatch(TRUE) /\ pending' \in SUBSET PlannedRequest
    BY <1>4 DEF FinaliseCancel, IInv
  <2> QED BY <1>1, <2>1
<1>5. ASSUME NEW r \in pending, CancelAlreadyFinal(r)
      PROVE  IInv' /\ KeepsHistory(run, run')
  BY <1>5, HistoryReflexive DEF CancelAlreadyFinal, IInv
<1> QED BY <1>2, <1>3, <1>4, <1>5

LEMMA RecoveryInv ==
  ASSUME IInv, Recovery
  PROVE  IInv' /\ KeepsHistory(run, run')
<1>a. run \in Projection
  BY DEF IInv, RunInv
<1>1. ASSUME NEW o \in Owners, NEW i \in OpenAttempts(run, o), RecoverAttempt(o, i)
      PROVE  IInv' /\ KeepsHistory(run, run')
  <2> DEFINE a == run.attempts[o][i]
  <2>1. a \in Attempt
    BY <1>a DEF Projection, OpenAttempts
  <2>2. a.node \in Nodes /\ a.number \in Nat
    BY <2>1 DEF Attempt
  <2>3. NodeClosed(o, a.node, a.number, "Interrupted", None, 0) \in PlannedEvent
    BY <2>2, PlannedEvents DEF AttemptStatus
  <2>4. RunInv(run') /\ poisoned' \in BOOLEAN /\ KeepsHistory(run, run')
    BY <1>1, <2>3, CommitEventInv DEF RecoverAttempt, IInv
  <2> QED BY <1>1, <2>4 DEF RecoverAttempt, KeepsOutside, IInv
<1>2. ASSUME NEW c \in Cands, RecoverCandidate(c)
      PROVE  IInv' /\ KeepsHistory(run, run')
  <2>1. RunInv(run') /\ poisoned' \in BOOLEAN /\ KeepsHistory(run, run')
    <3>1. CASE Interruptible(run.cands[c].status)
      <4>1. run.cands[c].status \in CandidateStatus /\ "Interrupted" \in CandidateStatus
        BY <1>a, <3>1 DEF Interruptible, Projection, CandidateRecord, CandidateStatus
      <4>2. CandidateStatusChanged(c, run.cands[c].status, "Interrupted") \in PlannedEvent
        BY <4>1, PlannedEvents
      <4> QED BY <1>2, <3>1, <4>2, CommitEventInv DEF RecoverCandidate, IInv
    <3>2. CASE ~Interruptible(run.cands[c].status)
      BY <1>2, <3>2, HistoryReflexive DEF RecoverCandidate, IInv
    <3> QED BY <3>1, <3>2
  <2> QED BY <1>2, <2>1 DEF RecoverCandidate, KeepsOutside, IInv
<1>3. CASE RecoverDone
  BY <1>3, HistoryReflexive DEF RecoverDone, KeepsOutside, IInv
<1> QED BY <1>1, <1>2, <1>3 DEF Recovery

LEMMA LoopReturnsInv ==
  ASSUME IInv, NEW kind, NEW result \in Outcome, LoopReturns(kind, result)
  PROVE  IInv' /\ KeepsHistory(run, run')
  BY EndDispatchInv DEF LoopReturns, KeepsOutside, IInv

LEMMA LoopCallsInv ==
  ASSUME IInv, NEW kind, NEW calls \in Seq(PlannedOp), LoopCalls(kind, calls),
         task' \in [Cands -> {"none", "queued", "running", "done", "failed"}]
  PROVE  IInv' /\ KeepsHistory(run, run')
<1>1. todo' \in [Owners -> Seq(PlannedOp)]
  BY OwnerFacts DEF LoopCalls, IInv
<1> QED BY <1>1, HistoryReflexive DEF LoopCalls, KeepsOutside, IInv

LEMMA LoopNodeInv ==
  ASSUME IInv, LoopNode
  PROVE  IInv' /\ KeepsHistory(run, run')
<1> DEFINE node == NextRunStep(run).value
           target == DesiredRunStatus(run.status, node)
           calls == Only(target # None, SetRun(target)) \o << Start(node) >>
<1>1. run \in Projection /\ NextRunStep(run).kind = "RunNode" /\ LoopCalls("RunNode", calls)
  BY DEF LoopNode, LoopCalls, IInv, RunInv
<1>2. node \in Nodes
  BY <1>1, NextRunStepType, StepFields
<1> HIDE DEF node
<1>3. target # None => target \in RunStatus
  <2>1. RunStatusForNode[node] \in RunStatus
    BY <1>2 DEF RunStatusForNode, RunStatus
  <2> QED BY <2>1 DEF DesiredRunStatus
<1> HIDE DEF target
<1>4. Only(target # None, SetRun(target)) \in Seq(PlannedOp)
  BY <1>3, PlannedOps, OnlyCalls
<1>5. calls \in Seq(PlannedOp)
  BY <1>2, <1>4, PlannedOps, OneCall, Concatenation
<1> HIDE DEF calls
<1> QED BY <1>1, <1>5, LoopCallsInv DEF LoopNode, IInv

LEMMA RunLoopInv ==
  ASSUME IInv, RunLoop
  PROVE  IInv' /\ KeepsHistory(run, run')
<1>a. run \in Projection
  BY DEF IInv, RunInv
<1>b. {"AwaitingPlanApproval", "AwaitingCommitApproval", "Cancelled"} \subseteq RunStatus
      /\ RunStatus \subseteq Outcome /\ {"Blocked", "Error", "Crashed"} \subseteq Outcome
  BY DEF RunStatus, Outcome
<1>1. CASE LoopFinish
  <2>1. NextRunStep(run).kind = "Finish"
    BY <1>1 DEF LoopFinish, LoopReturns
  <2>2. NextRunStep(run).value \in Outcome
    BY <1>a, <2>1, NextRunStepType, StepFields
  <2> QED BY <1>1, <2>2, LoopReturnsInv DEF LoopFinish
<1>2. CASE LoopBlocked
  BY <1>2, <1>b, LoopReturnsInv DEF LoopBlocked
<1>3. CASE LoopAwaitPlan
  <2>1. << SetRun("AwaitingPlanApproval"), Return("AwaitingPlanApproval") >> \in Seq(PlannedOp)
    BY <1>b, PlannedOps, TwoCalls
  <2> QED BY <1>3, <2>1, LoopCallsInv DEF LoopAwaitPlan, IInv
<1>4. CASE LoopAwaitCommit
  <2>1. << SetRun("AwaitingCommitApproval"), Return("AwaitingCommitApproval") >> \in Seq(PlannedOp)
    BY <1>b, PlannedOps, TwoCalls
  <2> QED BY <1>4, <2>1, LoopCallsInv DEF LoopAwaitCommit, IInv
<1>5. CASE LoopCancel
  <2>1. NonTerminal(run) \in SUBSET Cands
    BY DEF NonTerminal
  <2>2. << CancelAll(NonTerminal(run)), Return("Cancelled") >> \in Seq(PlannedOp)
    BY <1>b, <2>1, PlannedOps, TwoCalls
  <2> QED BY <1>5, <2>2, LoopCallsInv DEF LoopCancel, IInv
<1>6. CASE LoopCandidates
  <2>1. << Await >> \in Seq(PlannedOp)
    BY PlannedOps, OneCall
  <2>2. task' \in [Cands -> {"none", "queued", "running", "done", "failed"}]
    BY <1>6 DEF LoopCandidates
  <2> QED BY <1>6, <2>1, <2>2, LoopCallsInv DEF LoopCandidates
<1>7. CASE AwaitTasks
  <2>1. todo \in [Owners -> Seq(PlannedOp)] /\ todo[RunOwner] # << >>
    BY <1>7 DEF AwaitTasks, At, IInv
  <2>2. Only(\E c \in Cands : task[c] = "failed", Fail) \in Seq(PlannedOp)
    BY PlannedOps, OnlyCalls
  <2>3. todo' \in [Owners -> Seq(PlannedOp)]
    BY <1>7, <2>1, <2>2, OwnerFacts, ContinueType DEF AwaitTasks
  <2>4. task' \in [Cands -> {"none", "queued", "running", "done", "failed"}]
    BY <1>7 DEF AwaitTasks
  <2> QED BY <1>7, <2>3, <2>4, HistoryReflexive DEF AwaitTasks, KeepsOutside, IInv
<1> QED BY <1>1, <1>2, <1>3, <1>4, <1>5, <1>6, <1>7, LoopNodeInv DEF RunLoop

LEMMA CandidatesInv ==
  ASSUME IInv, Candidates
  PROVE  IInv' /\ KeepsHistory(run, run')
<1>1. ASSUME NEW c \in Cands, AcquirePermit(c)
      PROVE  IInv' /\ KeepsHistory(run, run')
  BY <1>1, HistoryReflexive DEF AcquirePermit, KeepsOutside, IInv
<1>2. ASSUME NEW c \in Cands, DriveCandidate(c)
      PROVE  IInv' /\ KeepsHistory(run, run')
  <2> DEFINE node == NextCandidateStep(run, c)
  <2>1. CASE node = None
    BY <1>2, <2>1, HistoryReflexive DEF DriveCandidate, KeepsOutside, IInv
  <2>2. CASE node # None
    <3>1. node \in Nodes
      <4>1. run.attempts[c] \in Seq(Attempt)
        BY OwnerFacts DEF IInv, RunInv, Projection
      <4>2. run.attempts[c] # << >> => run.attempts[c][Len(run.attempts[c])] \in Attempt
        BY <4>1
      <4>3. \A a \in Attempt : AfterAttempt(a) \in Nodes \cup {None}
        BY DEF AfterAttempt, Attempt
      <4> QED BY <2>2, <4>2, <4>3, NodeNames DEF NextCandidateStep
    <3> HIDE DEF node
    <3>2. CandidateStatusForNode[node] \in CandidateStatus \cup {None}
      BY <3>1 DEF CandidateStatusForNode, CandidateStatus
    <3>3. CandidateCalls(c, node) \in Seq(PlannedOp)
      BY <3>1, <3>2, PlannedOps, OnlyCalls, OneCall, Concatenation DEF CandidateCalls
    <3>4. todo' \in [Owners -> Seq(PlannedOp)]
      BY <1>2, <2>2, <3>3, OwnerFacts DEF DriveCandidate, IInv, node
    <3> QED BY <1>2, <2>2, <3>4, HistoryReflexive DEF DriveCandidate, KeepsOutside, IInv, node
  <2> QED BY <2>1, <2>2
<1> QED BY <1>1, <1>2 DEF Candidates

\* A call that only rearranges the calls of its task.
LEMMA RearrangeInv ==
  ASSUME IInv, todo' \in [Owners -> Seq(PlannedOp)], UNCHANGED << run, poisoned >>,
         KeepsTasks, KeepsOutside
  PROVE  IInv' /\ KeepsHistory(run, run')
  BY HistoryReflexive DEF KeepsTasks, KeepsOutside, IInv

LEMMA NumberType ==
  ASSUME run \in Projection, NEW o \in Owners, NEW node
  PROVE  NextAttemptNumber(run, o, node) \in Nat
<1>1. run.attempts[o] \in Seq(Attempt)
  BY DEF Projection
<1>2. DOMAIN run.attempts[o] = 1..Len(run.attempts[o]) /\ Len(run.attempts[o]) \in Nat
  BY <1>1
<1>3. IsFiniteSet(DOMAIN run.attempts[o])
  BY <1>2, FS_Interval
<1>4. AttemptsOf(run, o, node) \subseteq DOMAIN run.attempts[o]
  BY DEF AttemptsOf
<1>5. IsFiniteSet(AttemptsOf(run, o, node))
  BY <1>3, <1>4, FS_Subset
<1>6. Cardinality(AttemptsOf(run, o, node)) \in Nat
  BY <1>5, FS_CardinalityType
<1> QED BY <1>6 DEF NextAttemptNumber

LEMMA CallsInv ==
  ASSUME IInv, NEW o \in Owners,
         \/ ReadRunStatus(o) \/ ReadCandidateStatus(o) \/ DoCommit(o)
         \/ CancelNext(o) \/ ExcludeNext(o) \/ StartNode(o)
         \/ ReturnFrom(o) \/ FailFrom(o)
  PROVE  IInv' /\ KeepsHistory(run, run')
<1>a. run \in Projection /\ todo \in [Owners -> Seq(PlannedOp)]
  BY DEF IInv, RunInv
<1>b. \A op : At(o, op) => todo[o] # << >> /\ Call(o) \in PlannedOp /\ Call(o).op = op
  BY <1>a, CallType DEF At, Call
<1>c. << Fail >> \in Seq(PlannedOp)
  BY PlannedOps, OneCall
<1>1. CASE ReadRunStatus(o)
  <2>1. todo[o] # << >> /\ Call(o).to \in RunStatus
    BY <1>1, <1>b, OpFields DEF ReadRunStatus
  <2>2. run.status \in RunStatus
    BY <1>a DEF Projection
  <2>3. << Do(StatusChanged(run.status, Call(o).to)) >> \in Seq(PlannedOp)
    BY <2>1, <2>2, PlannedEvents, PlannedOps, OneCall
  <2>4. PICK calls \in Seq(PlannedOp) : Continue(o, calls)
    BY <1>1, <1>c, <2>3, NoCalls DEF ReadRunStatus
  <2>5. todo' \in [Owners -> Seq(PlannedOp)]
    BY <1>a, <2>1, <2>4, ContinueType
  <2> QED BY <1>1, <2>5, RearrangeInv DEF ReadRunStatus
<1>2. CASE ReadCandidateStatus(o)
  <2> DEFINE c == Call(o).cand
             from == run.cands[c].status
  <2>1. todo[o] # << >> /\ c \in Cands /\ Call(o).to \in CandidateStatus
    BY <1>2, <1>b, OpFields DEF ReadCandidateStatus
  <2>2. from # "Absent" => from \in CandidateStatus
    BY <1>a, <2>1 DEF Projection, CandidateRecord
  <2> HIDE DEF c
  <2>3. from # "Absent" =>
          << Do(CandidateStatusChanged(c, from, Call(o).to)) >> \in Seq(PlannedOp)
    BY <2>1, <2>2, PlannedEvents, PlannedOps, OneCall
  <2>4. PICK calls \in Seq(PlannedOp) : Continue(o, calls)
    BY <1>2, <1>c, <2>3, NoCalls DEF ReadCandidateStatus, c
  <2>5. todo' \in [Owners -> Seq(PlannedOp)]
    BY <1>a, <2>1, <2>4, ContinueType
  <2> QED BY <1>2, <2>5, RearrangeInv DEF ReadCandidateStatus
<1>3. CASE DoCommit(o)
  <2>1. todo[o] # << >> /\ Call(o).event \in PlannedEvent
    BY <1>3, <1>b, OpFields DEF DoCommit
  <2>2. /\ RunInv(run') /\ poisoned' \in BOOLEAN /\ KeepsHistory(run, run')
        /\ todo' \in [Owners -> Seq(PlannedOp)]
    BY <1>3, <2>1, CommitOrFailInv DEF DoCommit
  <2> QED BY <1>3, <2>2 DEF DoCommit, KeepsTasks, KeepsOutside, IInv
<1>4. CASE CancelNext(o)
  <2>1. todo[o] # << >> /\ Call(o).left \in SUBSET Cands
    BY <1>4, <1>b, OpFields DEF CancelNext
  <2>2. << SetRun("Cancelled") >> \in Seq(PlannedOp)
    BY PlannedOps, OneCall DEF RunStatus
  <2>3. \A c \in Call(o).left :
          << SetCand(c, "Cancelled"), CancelAll(Call(o).left \ {c}) >> \in Seq(PlannedOp)
    BY <2>1, PlannedOps, TwoCalls DEF CandidateStatus
  <2>4. PICK calls \in Seq(PlannedOp) : Continue(o, calls)
    BY <1>4, <2>2, <2>3 DEF CancelNext
  <2>5. todo' \in [Owners -> Seq(PlannedOp)]
    BY <1>a, <2>1, <2>4, ContinueType
  <2> QED BY <1>4, <2>5, RearrangeInv DEF CancelNext
<1>5. CASE ExcludeNext(o)
  <2>1. todo[o] # << >> /\ Call(o).left \in SUBSET Cands
    BY <1>5, <1>b, OpFields DEF ExcludeNext
  <2>2. \A c \in Call(o).left :
          << Do(CandidateExcluded(c)), ExcludeAll(Call(o).left \ {c}) >> \in Seq(PlannedOp)
    BY <2>1, PlannedEvents, PlannedOps, TwoCalls
  <2>3. PICK calls \in Seq(PlannedOp) : Continue(o, calls)
    BY <1>5, <2>2, NoCalls DEF ExcludeNext
  <2>4. todo' \in [Owners -> Seq(PlannedOp)]
    BY <1>a, <2>1, <2>3, ContinueType
  <2> QED BY <1>5, <2>4, RearrangeInv DEF ExcludeNext
<1>6. CASE StartNode(o)
  <2> DEFINE node == Call(o).node
             number == NextAttemptNumber(run, o, node)
  <2>1. todo[o] # << >> /\ node \in Nodes
    BY <1>6, <1>b, OpFields DEF StartNode
  <2>2. number \in Nat
    BY <1>a, NumberType
  <2>3. << CancelAll(NonTerminal(run)), Return("Blocked") >> \in Seq(PlannedOp)
    BY PlannedOps, TwoCalls DEF NonTerminal, Outcome
  <2>4. << Do(NodeStarted(o, node, number)) >> \o Only(Edits(node), Edit(node))
          \o << Body(node, number) >> \in Seq(PlannedOp)
    <3> HIDE DEF node, number
    <3>1. Edits(node) \in BOOLEAN /\ Edit(node) \in PlannedOp
      BY <2>1, PlannedOps DEF Edits
    <3>2. Only(Edits(node), Edit(node)) \in Seq(PlannedOp)
      BY <3>1, OnlyCalls
    <3>3. << Do(NodeStarted(o, node, number)) >> \in Seq(PlannedOp)
      BY <2>1, <2>2, PlannedEvents, PlannedOps, OneCall
    <3>4. << Body(node, number) >> \in Seq(PlannedOp)
      BY <2>1, <2>2, PlannedOps, OneCall
    <3> QED BY <3>2, <3>3, <3>4, Concatenation
  <2>5. PICK calls \in Seq(PlannedOp) : Continue(o, calls)
    BY <1>6, <2>3, <2>4 DEF StartNode
  <2>6. todo' \in [Owners -> Seq(PlannedOp)]
    BY <1>a, <2>1, <2>5, ContinueType
  <2> QED BY <1>6, <2>6, RearrangeInv DEF StartNode
<1>7. ASSUME NEW op, NEW result \in Outcome, NEW state \in {"done", "failed"},
             Ends(o, op, result, state)
      PROVE  IInv' /\ KeepsHistory(run, run')
  <2>1. CASE o = RunOwner
    BY <1>7, <2>1, EndDispatchInv DEF Ends, KeepsOutside, IInv
  <2>2. CASE o # RunOwner
    <3>1. o \in Cands
      BY <2>2, OwnerFacts
    <3>2. /\ task' \in [Cands -> {"none", "queued", "running", "done", "failed"}]
          /\ todo' \in [Owners -> Seq(PlannedOp)]
      BY <1>7, <2>2, <3>1, NoCalls DEF Ends, IInv
    <3> QED BY <1>7, <2>2, <3>2, HistoryReflexive DEF Ends, KeepsOutside, IInv
  <2> QED BY <2>1, <2>2
<1>8. CASE ReturnFrom(o)
  <2>1. Call(o).result \in Outcome
    BY <1>8, <1>b, OpFields DEF ReturnFrom, Ends
  <2> QED BY <1>7, <1>8, <2>1 DEF ReturnFrom
<1>9. CASE FailFrom(o)
  BY <1>7, <1>9 DEF FailFrom, Outcome
<1> QED BY <1>1, <1>2, <1>3, <1>4, <1>5, <1>6, <1>8, <1>9

(***************************************************************************)
(* The theorems.                                                           *)
(***************************************************************************)
LEMMA InitInv ==
  ASSUME Init
  PROVE  IInv
<1>1. Genesis \in Projection
  <2>1. AbsentCandidate \in CandidateRecord
    BY DEF AbsentCandidate, CandidateRecord
  <2>2. Unjudged(NoCand) \in Integration
    BY DEF Unjudged, Integration, GateOutcome
  <2>3. NoApproval \in Approval
    BY DEF NoApproval, Approval
  <2> QED BY <2>1, <2>2, <2>3 DEF Genesis, Projection, RunStatus
<1>2. UniqueAttempts(Genesis)
  BY DEF UniqueAttempts, Genesis
<1>3. \A c \in Cands : Genesis.cands[c].used <= RepairBudget
  BY ConstantsAssumption DEF Genesis, AbsentCandidate
<1>4. store \in Store
  <2>1. NoEvidence \in Evidence
    BY BaselineType DEF NoEvidence, Evidence
  <2> QED BY <2>1, BaselineType DEF Init, Store
<1>5. git \in Git
  BY BaselineType DEF Init, Git
<1>6. used \in Used
  BY DEF Init, Used
<1>7. todo \in [Owners -> Seq(PlannedOp)]
  BY NoCalls DEF Init
<1> QED BY <1>1, <1>2, <1>3, <1>4, <1>5, <1>6, <1>7 DEF Init, IInv, RunInv, Outcome

LEMMA NextInv ==
  ASSUME IInv, Next
  PROVE  IInv' /\ KeepsHistory(run, run')
<1>1. CASE Crash
  <2>1. used' \in Used
    BY <1>1 DEF Crash, IInv, Used
  <2>2. EndDispatch("Crashed") /\ "Crashed" \in Outcome
    BY <1>1 DEF Crash, Outcome
  <2> QED BY <1>1, <2>1, <2>2, EndDispatchInv DEF Crash
<1>2. CASE Progress
  BY <1>2, RecoveryInv, RunLoopInv, CallsInv, CandidatesInv, NodeBodyInv DEF Progress, Calls
<1> QED BY <1>1, <1>2, DispatchInv, ServiceInv DEF Next

LEMMA StutterInv ==
  ASSUME IInv, UNCHANGED vars
  PROVE  IInv'
  BY DEF IInv, vars

\* IInv holds in every reachable state: the projection satisfies RunInv, and
\* every call a task of the dispatcher still has to make, and every request of
\* the service not yet answered, is one whose event keeps it so.
THEOREM InductiveInvariant == Spec => []IInv
<1>1. Init => IInv
  BY InitInv
<1>2. IInv /\ [Next]_vars => IInv'
  BY NextInv, StutterInv
<1> QED BY <1>1, <1>2, PTL DEF Spec

\* Every reachable state is well typed: no interleaving of tasks, requests and
\* crashes commits an event, or plans a call, that the types do not allow.
THEOREM TypeCorrect == Spec => []TypeOK
<1>1. IInv => TypeOK
  <2> SUFFICES ASSUME IInv
               PROVE  TypeOK
    OBVIOUS
  <2>1. todo \in [Owners -> Seq(Op)]
    BY PlannedCallsAreCalls DEF IInv
  <2>2. pending \in SUBSET Request
    BY DEF IInv, PlannedRequest
  <2> QED BY <2>1, <2>2 DEF IInv, RunInv, TypeOK
<1> QED BY <1>1, InductiveInvariant, PTL

\* No candidate is ever charged more repairs than its budget, whatever is
\* interrupted, retried or run concurrently.
THEOREM BudgetIsKept == Spec => []RepairsWithinBudget
<1>1. IInv => RepairsWithinBudget
  BY DEF IInv, RunInv, RepairsWithinBudget
<1> QED BY <1>1, InductiveInvariant, PTL

\* No step of the engine takes back what the log has recorded as settled.
THEOREM HistoryKept == Spec => HistoryIsDurable
<1>1. IInv /\ [Next]_vars => [KeepsHistory(run, run')]_run
  BY NextInv DEF vars
<1> QED BY <1>1, InductiveInvariant, PTL DEF Spec, HistoryIsDurable
=============================================================================
