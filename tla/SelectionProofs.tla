---------------------------- MODULE SelectionProofs ----------------------------
(***************************************************************************)
(* Selection, integration and commit: the final verdicts belong to the     *)
(* candidate that is integrated, a candidate is tried once, and the result *)
(* branch receives one commit at most, which has passed every gate.        *)
(*                                                                         *)
(* The run loop decides a node from the projection and carries it out in   *)
(* several later steps, between which the process may be killed and the    *)
(* body run again.  The inductive invariant therefore says of every call   *)
(* that is still to be made what must hold when it is made, and of every   *)
(* two calls which one may follow which.                                   *)
(*                                                                         *)
(* The last part proves what a winner was selected on: its patch, its      *)
(* tests and its review are about one and the same content.                *)
(***************************************************************************)
EXTENDS RunProofs

(***************************************************************************)
(* Selection, integration and commit.  What the run loop is about to do    *)
(* fits what has been selected, integrated and judged so far.              *)
(***************************************************************************)
LEMMA BuildsOnSelf ==
  ASSUME NEW a \in Content
  PROVE  BuildsOn(a, a)
BY DEF BuildsOn, Content

\* What a gate wrote into a worktree builds on whatever was there before.
LEMMA BuildsOnWritten ==
  ASSUME NEW a \in Content, NEW c \in Content, BuildsOn(a, c)
  PROVE  BuildsOn([a EXCEPT !.wrote = @ + 1], c)
BY DEF BuildsOn, Content

\* A call about this node of the run: it will be started, is being started or is at work.
For(x, node) ==
  \/ x.op \in {"Start", "Edit", "Body"} /\ x.node = node
  \/ Begins(x) /\ x.event.node = node

Unselected(p) ==
  /\ ~p.ranked /\ p.winner = NoCand /\ p.integration.applied = NoCand
  /\ \A c \in Cands : ~p.cands[c].attempted
Integrated(p) == p.winner # NoCand /\ p.integration.applied = p.winner
Verified(p) == Integrated(p) /\ p.integration.tests = "Pass" /\ p.integration.review = "Pass"
Allowed(p) == PlanApproved(p) /\ CommitPolicy # "None" /\ (CommitPolicy = "Manual" => p.commitApproved)
GoodTests(st, c) == PassedOn(st.tests[RunOwner], st.diff[c])
GoodReview(st, c) == PassedOn(st.review[RunOwner], st.diff[c])
\* Since the final gates only gates have written to the integration worktree.
AfterTests(st, g) == BuildsOn(g.tree, st.tests[RunOwner].of)
AfterReview(st, g) == BuildsOn(g.tree, st.review[RunOwner].of)

\* What the selection, the final verdicts, the integration worktree and the branch have to
\* do with each other.
Selected(p, st, g) ==
  /\ ~AllCandidatesTerminal(p) \/ ~p.ranked => Unselected(p)
  /\ p.integration.applied # NoCand => p.cands[p.integration.applied].attempted
  /\ p.integration.tests = "Pass" =>
       p.integration.applied # NoCand /\ GoodTests(st, p.integration.applied)
  /\ p.integration.review = "Pass" =>
       p.integration.applied # NoCand /\ GoodReview(st, p.integration.applied)
  /\ Integrated(p) =>
       /\ BuildsOn(g.tree, st.diff[p.winner])
       /\ p.integration.tests = "Pass" => AfterTests(st, g)
       /\ p.integration.review = "Pass" => AfterReview(st, g)
  /\ g.branch # << >> => g.branch = << g.tree >> /\ Verified(p)

\* What must hold for a call of the run loop to be made.
FitsNode(x, p) ==
  /\ x.op = "Edit" => x.node = "Integrate"
  /\ For(x, "FanOut") => Unselected(p)
  /\ For(x, "Join") => ~p.ranked /\ AllCandidatesTerminal(p)
  /\ For(x, "Integrate") => p.winner # NoCand /\ ~Integrated(p)
  /\ For(x, "FinalTest") => Integrated(p) /\ p.integration.tests # "Pass"
  /\ For(x, "FinalReview") => Integrated(p) /\ p.integration.review # "Pass"
  /\ For(x, "Commit") => Verified(p) /\ Allowed(p)
FitsEvent(e, p, st, g) ==
  /\ e.kind = "CandidateRegistered" => Unselected(p)
  /\ e.kind = "RankingComputed" => AllCandidatesTerminal(p)
  /\ e.kind = "WinnerSelected" =>
       /\ AllCandidatesTerminal(p) /\ p.winner = NoCand /\ p.integration.applied = NoCand
       /\ ~p.cands[e.cand].attempted
  /\ e.kind = "IntegrationAttempted" =>
       /\ p.winner # NoCand /\ e.cand = p.winner /\ ~Integrated(p)
       /\ e.applied => BuildsOn(g.tree, st.diff[p.winner])
  /\ e.kind = "CandidatePromotionRequested" =>
       /\ p.winner # NoCand /\ e.previous = p.winner /\ g.branch = << >>
       /\ e.next # NoCand => ~p.cands[e.next].attempted /\ e.next # p.winner
  /\ e.kind = "FinalTestEvidence" =>
       /\ Integrated(p) /\ p.integration.tests # "Pass"
       /\ e.outcome = "Pass" => GoodTests(st, p.winner) /\ AfterTests(st, g)
  /\ e.kind = "FinalReviewEvidence" =>
       /\ Integrated(p) /\ p.integration.review # "Pass"
       /\ e.outcome = "Pass" => GoodReview(st, p.winner) /\ AfterReview(st, g)
Fits(x, p, st, g) == FitsNode(x, p) /\ (x.op = "Do" => FitsEvent(x.event, p, st, g))
FitOp(p, st, g) == {x \in PlannedOp : Fits(x, p, st, g)}

\* Calls that change what others depend on, calls that depend on it, and which of the
\* former a task makes before which of the latter.
SelectKinds ==
  {"CandidateRegistered", "RankingComputed", "WinnerSelected", "IntegrationAttempted",
   "CandidatePromotionRequested", "FinalTestEvidence", "FinalReviewEvidence"}
PlanKinds == {"PlanVersionWritten", "PlanDecisionRecorded", "PlanApprovalInvalidated"}
GuardedNodes == {"FanOut", "Join", "Integrate", "FinalTest", "FinalReview", "Commit"}
Changes(x) == x.op = "Edit" \/ Commits(x, SelectKinds \cup PlanKinds)
Depends(x) ==
  x.op = "Edit" \/ Commits(x, SelectKinds) \/ \E node \in GuardedNodes : For(x, node)
Ranks(x) == Commits(x, {"RankingComputed"})
Agree(x, y) ==
  Changes(x) /\ Depends(y) =>
    \/ x.op = "Edit" /\ y.op = "Body"
    \/ Registers(x) /\ Registers(y)
    \/ Ranks(x) /\ Commits(y, {"WinnerSelected"})
    \/ /\ Commits(x, {"IntegrationAttempted", "FinalTestEvidence", "FinalReviewEvidence"})
       /\ Commits(y, {"CandidatePromotionRequested"})
Agreeing(s) == \A i, j \in DOMAIN s : i < j => Agree(s[i], s[j])

\* The winner is selected once the ranking has been committed.
RanksFirst(s, p) ==
  \A i \in DOMAIN s :
    Commits(s[i], {"WinnerSelected"}) => p.ranked \/ \E j \in DOMAIN s : j < i /\ Ranks(s[j])

\* The calls of the run loop fit the state and each other.
Ready(s, p, st, g) == s \in Seq(FitOp(p, st, g)) /\ Agreeing(s) /\ RanksFirst(s, p)

SelectInv ==
  /\ Selected(run, store, git)
  /\ \A c \in Cands : task[c] # "none" => Unselected(run)
  /\ Ready(todo[RunOwner], run, store, git)

\* Calls that neither change the selection nor depend on it.
SteadyOp == {x \in PlannedOp : ~Changes(x) /\ ~Depends(x)}

LEMMA SteadyOps ==
  /\ \A x \in PlannedOp : x.op \notin {"Do", "Start", "Edit", "Body"} => x \in SteadyOp
  /\ \A e \in PlannedEvent :
       e.kind \notin SelectKinds \cup PlanKinds \cup {"NodeStarted"} => Do(e) \in SteadyOp
  BY PlannedOps, CallKinds DEF SteadyOp, Changes, Depends, Commits, For, Begins

LEMMA FitsSteady ==
  ASSUME NEW x \in PlannedOp, ~Depends(x), NEW p, NEW st, NEW g
  PROVE  x \in FitOp(p, st, g)
<1>1. ~For(x, "FanOut") /\ ~For(x, "Join") /\ ~For(x, "Integrate") /\ ~For(x, "FinalTest")
      /\ ~For(x, "FinalReview") /\ ~For(x, "Commit") /\ x.op # "Edit"
  BY DEF Depends, GuardedNodes
<1>2. x.op = "Do" => x.event.kind \notin SelectKinds
  BY DEF Depends, Commits
<1>3. FitsNode(x, p)
  BY <1>1 DEF FitsNode
<1>4. x.op = "Do" => FitsEvent(x.event, p, st, g)
  BY <1>2 DEF FitsEvent, SelectKinds
<1> QED BY <1>3, <1>4 DEF FitOp, Fits

LEMMA FitSeqs ==
  ASSUME NEW p, NEW st, NEW g, NEW s \in Seq(FitOp(p, st, g))
  PROVE  s \in Seq(PlannedOp) /\ \A i \in DOMAIN s : Fits(s[i], p, st, g)
<1> DEFINE S == FitOp(p, st, g)
<1>1. \A x \in S : x \in PlannedOp /\ Fits(x, p, st, g)
  BY DEF FitOp
<1>2. s \in Seq(S)
  OBVIOUS
<1> HIDE DEF S
<1>3. s \in Seq(PlannedOp)
  BY <1>1, <1>2
<1>4. \A i \in DOMAIN s : s[i] \in S
  BY <1>2
<1> QED BY <1>1, <1>3, <1>4

LEMMA SeqOf ==
  ASSUME NEW T, NEW S, NEW s \in Seq(T), \A i \in DOMAIN s : s[i] \in S
  PROVE  s \in Seq(S)
<1>1. Len(s) \in Nat /\ DOMAIN s = 1 .. Len(s) /\ s \in [1 .. Len(s) -> T]
  BY LenProperties
<1>2. s \in [1 .. Len(s) -> S]
  BY <1>1
<1>3. \A R, n : n \in Nat /\ s \in [1..n -> R] => s \in Seq(R)
  BY SeqDef
<1> QED BY <1>1, <1>2, <1>3

LEMMA ReadyWhen ==
  ASSUME NEW s \in Seq(PlannedOp), NEW p, NEW st, NEW g,
         \A i \in DOMAIN s : Fits(s[i], p, st, g), Agreeing(s), RanksFirst(s, p)
  PROVE  Ready(s, p, st, g)
<1>1. \A i \in DOMAIN s : s[i] \in PlannedOp
  OBVIOUS
<1>2. \A i \in DOMAIN s : s[i] \in FitOp(p, st, g)
  BY <1>1 DEF FitOp
<1>3. s \in Seq(FitOp(p, st, g))
  BY <1>2, SeqOf
<1> QED BY <1>3 DEF Ready

LEMMA ReadySteady ==
  ASSUME NEW s \in Seq(SteadyOp), NEW p, NEW st, NEW g
  PROVE  Ready(s, p, st, g)
<1>1. \A i \in DOMAIN s : s[i] \in SteadyOp
  OBVIOUS
<1>2. \A i \in DOMAIN s : s[i] \in PlannedOp /\ ~Changes(s[i]) /\ ~Depends(s[i])
  BY <1>1 DEF SteadyOp
<1>3. s \in Seq(PlannedOp)
  BY <1>2, SeqOf
<1>4. \A i \in DOMAIN s : Fits(s[i], p, st, g)
  BY <1>2, FitsSteady DEF FitOp
<1>5. Agreeing(s)
  BY <1>2 DEF Agreeing, Agree
<1>6. RanksFirst(s, p)
  BY <1>2 DEF RanksFirst, Depends, Commits, SelectKinds
<1> QED BY <1>3, <1>4, <1>5, <1>6, ReadyWhen

LEMMA ReadyOne ==
  ASSUME NEW x \in PlannedOp, NEW p, NEW st, NEW g, Fits(x, p, st, g), ~Commits(x, {"WinnerSelected"})
  PROVE  Ready(<< x >>, p, st, g)
<1> DEFINE s == << x >>
<1>1. s \in Seq(PlannedOp) /\ DOMAIN s = {1} /\ s[1] = x
  OBVIOUS
<1> HIDE DEF s
<1>2. Agreeing(s) /\ RanksFirst(s, p)
  BY <1>1 DEF Agreeing, RanksFirst
<1>3. Ready(s, p, st, g)
  BY <1>1, <1>2, ReadyWhen
<1> QED BY <1>3 DEF s

LEMMA ReadyJoin ==
  ASSUME NEW p, NEW st, NEW g, NEW a, NEW b, Ready(a, p, st, g), Ready(b, p, st, g),
         \A i \in DOMAIN a, j \in DOMAIN b : Agree(a[i], b[j])
  PROVE  Ready(a \o b, p, st, g)
<1> DEFINE t == a \o b
<1>1. a \in Seq(PlannedOp) /\ b \in Seq(PlannedOp)
  BY FitSeqs DEF Ready
<1>2. \A i \in DOMAIN a : Fits(a[i], p, st, g)
  BY FitSeqs DEF Ready
<1>3. \A i \in DOMAIN b : Fits(b[i], p, st, g)
  BY FitSeqs DEF Ready
<1>4. /\ t \in Seq(PlannedOp) /\ Len(a) \in Nat /\ DOMAIN t \subseteq Nat
      /\ DOMAIN a = 1..Len(a) /\ DOMAIN b \subseteq Nat \ {0}
      /\ \A i \in DOMAIN a : i \in DOMAIN t /\ t[i] = a[i]
      /\ \A k \in DOMAIN b : Len(a) + k \in DOMAIN t /\ t[Len(a) + k] = b[k]
  BY <1>1, Concat
<1>5. \A i \in DOMAIN t : \/ i \in DOMAIN a /\ t[i] = a[i]
                          \/ \E k \in DOMAIN b : i = Len(a) + k /\ t[i] = b[k]
  BY <1>1, ConcatFrom
<1> HIDE DEF t
<1>6. \A i \in DOMAIN t : Fits(t[i], p, st, g)
  BY <1>2, <1>3, <1>5
<1>7. ASSUME NEW i \in DOMAIN t, NEW j \in DOMAIN t, i < j
      PROVE  Agree(t[i], t[j])
  <2>1. CASE i \in DOMAIN a /\ t[i] = a[i] /\ j \in DOMAIN a /\ t[j] = a[j]
    BY <1>7, <2>1 DEF Ready, Agreeing
  <2>2. CASE i \in DOMAIN a /\ t[i] = a[i] /\ \E k \in DOMAIN b : j = Len(a) + k /\ t[j] = b[k]
    BY <2>2
  <2>3. ASSUME NEW k \in DOMAIN b, i = Len(a) + k, t[i] = b[k]
        PROVE  Agree(t[i], t[j])
    <3>1. j \notin DOMAIN a
      BY <1>4, <1>7, <2>3
    <3>2. PICK l \in DOMAIN b : j = Len(a) + l /\ t[j] = b[l]
      BY <1>5, <3>1
    <3>3. k < l
      BY <1>4, <1>7, <2>3, <3>2
    <3> QED BY <2>3, <3>2, <3>3 DEF Ready, Agreeing
  <2> QED BY <1>5, <2>1, <2>2, <2>3
<1>8. Agreeing(t)
  BY <1>7 DEF Agreeing
<1>9. ASSUME NEW i \in DOMAIN t, Commits(t[i], {"WinnerSelected"}), ~p.ranked
      PROVE  \E j \in DOMAIN t : j < i /\ Ranks(t[j])
  <2>1. CASE i \in DOMAIN a /\ t[i] = a[i]
    <3>1. PICK j \in DOMAIN a : j < i /\ Ranks(a[j])
      BY <1>9, <2>1 DEF Ready, RanksFirst
    <3> QED BY <1>4, <3>1
  <2>2. ASSUME NEW k \in DOMAIN b, i = Len(a) + k, t[i] = b[k]
        PROVE  \E j \in DOMAIN t : j < i /\ Ranks(t[j])
    <3>1. PICK l \in DOMAIN b : l < k /\ Ranks(b[l])
      BY <1>9, <2>2 DEF Ready, RanksFirst
    <3>2. Len(a) + l \in DOMAIN t /\ t[Len(a) + l] = b[l]
      BY <1>4
    <3>3. Len(a) + l < i
      BY <1>4, <2>2, <3>1
    <3> QED BY <3>1, <3>2, <3>3
  <2> QED BY <1>5, <2>1, <2>2
<1>10. RanksFirst(t, p)
  BY <1>9 DEF RanksFirst
<1>11. Ready(t, p, st, g)
  BY <1>4, <1>6, <1>8, <1>10, ReadyWhen
<1> QED BY <1>11 DEF t

\* What the task goes on with, when the first call has been made, in the state it left.
LEMMA ReadyTail ==
  ASSUME NEW s, s # << >>, NEW p, NEW st, NEW g, Ready(s, p, st, g), NEW q, NEW st2, NEW g2,
         \A x \in PlannedOp : Fits(x, p, st, g) /\ Agree(s[1], x) => Fits(x, q, st2, g2),
         p.ranked \/ Ranks(s[1]) => q.ranked
  PROVE  Ready(Tail(s), q, st2, g2)
<1> DEFINE u == Tail(s)
<1>1. s \in Seq(PlannedOp)
  BY FitSeqs DEF Ready
<1>a. \A i \in DOMAIN s : Fits(s[i], p, st, g)
  BY FitSeqs DEF Ready
<1>2. /\ u \in Seq(PlannedOp) /\ DOMAIN s \subseteq Nat /\ DOMAIN u \subseteq Nat \ {0} /\ 1 \in DOMAIN s
      /\ \A k \in DOMAIN u : k + 1 \in DOMAIN s /\ u[k] = s[k + 1]
      /\ \A k \in DOMAIN s : k # 1 => k - 1 \in DOMAIN u /\ u[k - 1] = s[k]
  BY <1>1, TailFacts
<1> HIDE DEF u
<1>3. ASSUME NEW k \in DOMAIN u
      PROVE  Fits(u[k], q, st2, g2)
  <2>1. k + 1 \in DOMAIN s /\ u[k] = s[k + 1] /\ 1 < k + 1
    BY <1>2
  <2>2. u[k] \in PlannedOp
    BY <1>2
  <2>3. Agree(s[1], u[k])
    BY <1>2, <2>1 DEF Ready, Agreeing
  <2> QED BY <1>a, <2>1, <2>2, <2>3
<1>4. Agreeing(u)
  <2> SUFFICES ASSUME NEW i \in DOMAIN u, NEW j \in DOMAIN u, i < j PROVE Agree(u[i], u[j])
    BY DEF Agreeing
  <2>1. i + 1 \in DOMAIN s /\ j + 1 \in DOMAIN s /\ i + 1 < j + 1 /\ u[i] = s[i + 1] /\ u[j] = s[j + 1]
    BY <1>2
  <2> QED BY <2>1 DEF Ready, Agreeing
<1>5. RanksFirst(u, q)
  <2> SUFFICES ASSUME NEW k \in DOMAIN u, Commits(u[k], {"WinnerSelected"}), ~q.ranked
               PROVE  \E j \in DOMAIN u : j < k /\ Ranks(u[j])
    BY DEF RanksFirst
  <2>1. k + 1 \in DOMAIN s /\ u[k] = s[k + 1]
    BY <1>2
  <2>2. PICK j \in DOMAIN s : j < k + 1 /\ Ranks(s[j])
    BY <2>1 DEF Ready, RanksFirst
  <2>3. j # 1
    BY <2>2
  <2>4. j - 1 \in DOMAIN u /\ u[j - 1] = s[j]
    BY <1>2, <2>3
  <2>5. j - 1 < k
    BY <1>2, <2>2
  <2> QED BY <2>2, <2>4, <2>5
<1>6. Ready(u, q, st2, g2)
  BY <1>2, <1>3, <1>4, <1>5, ReadyWhen
<1> QED BY <1>6 DEF u

LEMMA ReadyKept ==
  ASSUME NEW s, NEW p, NEW st, NEW g, Ready(s, p, st, g), NEW q, NEW st2, NEW g2,
         \A x \in PlannedOp : Fits(x, p, st, g) => Fits(x, q, st2, g2), p.ranked => q.ranked
  PROVE  Ready(s, q, st2, g2)
<1>1. s \in Seq(PlannedOp)
  BY FitSeqs DEF Ready
<1>2. \A i \in DOMAIN s : Fits(s[i], p, st, g)
  BY FitSeqs DEF Ready
<1>3. \A i \in DOMAIN s : s[i] \in PlannedOp
  BY <1>1
<1>4. \A i \in DOMAIN s : Fits(s[i], q, st2, g2)
  BY <1>2, <1>3
<1>5. Agreeing(s) /\ RanksFirst(s, q)
  BY DEF Ready, RanksFirst
<1> QED BY <1>1, <1>4, <1>5, ReadyWhen

(***************************************************************************)
(* What keeps the selection as it is.                                      *)
(***************************************************************************)
SameSelection(p, q) ==
  /\ q.ranked = p.ranked /\ q.winner = p.winner /\ q.integration = p.integration
  /\ \A c \in Cands : q.cands[c].attempted = p.cands[c].attempted
  /\ AllCandidatesTerminal(p) => AllCandidatesTerminal(q)
SamePlan(p, q) ==
  /\ PlanApproved(p) => PlanApproved(q)
  /\ p.commitApproved => q.commitApproved
SameFiles(st, st2) ==
  /\ st2.diff = st.diff
  /\ st2.tests[RunOwner] = st.tests[RunOwner] /\ st2.review[RunOwner] = st.review[RunOwner]
SameTree(g, g2) == g2.tree = g.tree /\ g2.branch = g.branch

LEMMA KeepsSelected ==
  ASSUME NEW p \in Projection, NEW q, SameSelection(p, q), NEW st, NEW st2, SameFiles(st, st2),
         NEW g, NEW g2, SameTree(g, g2), Selected(p, st, g)
  PROVE  Selected(q, st2, g2)
<1>1. Unselected(p) => Unselected(q)
  BY DEF Unselected, SameSelection
<1>2. Integrated(q) = Integrated(p) /\ Verified(q) = Verified(p)
  BY DEF Integrated, Verified, SameSelection
<1>3. /\ \A c : GoodTests(st2, c) = GoodTests(st, c) /\ GoodReview(st2, c) = GoodReview(st, c)
      /\ AfterTests(st2, g2) = AfterTests(st, g) /\ AfterReview(st2, g2) = AfterReview(st, g)
  BY DEF GoodTests, GoodReview, AfterTests, AfterReview, SameFiles, SameTree
<1>4. p.integration.applied # NoCand => p.integration.applied \in Cands
  BY DEF Projection, Integration
<1>5. q.integration.applied # NoCand => q.cands[q.integration.applied].attempted
  BY <1>4 DEF SameSelection, Selected
<1>6. ~AllCandidatesTerminal(q) \/ ~q.ranked => Unselected(q)
  BY <1>1 DEF SameSelection, Selected
<1>7. /\ q.integration.tests = "Pass" =>
           q.integration.applied # NoCand /\ GoodTests(st2, q.integration.applied)
      /\ q.integration.review = "Pass" =>
           q.integration.applied # NoCand /\ GoodReview(st2, q.integration.applied)
  BY <1>3 DEF SameSelection, Selected
<1>8. /\ Integrated(q) =>
           /\ BuildsOn(g2.tree, st2.diff[q.winner])
           /\ q.integration.tests = "Pass" => AfterTests(st2, g2)
           /\ q.integration.review = "Pass" => AfterReview(st2, g2)
      /\ g2.branch # << >> => g2.branch = << g2.tree >> /\ Verified(q)
  BY <1>2, <1>3 DEF SameSelection, SameFiles, SameTree, Selected
<1> QED BY <1>5, <1>6, <1>7, <1>8 DEF Selected

LEMMA KeepsFitsNode ==
  ASSUME NEW p, NEW q, SameSelection(p, q), SamePlan(p, q), NEW x, FitsNode(x, p)
  PROVE  FitsNode(x, q)
<1>1. Unselected(p) => Unselected(q)
  BY DEF Unselected, SameSelection
<1>2. Integrated(q) = Integrated(p) /\ Verified(q) = Verified(p)
  BY DEF Integrated, Verified, SameSelection
<1>3. Allowed(p) => Allowed(q)
  BY DEF Allowed, SamePlan
<1> QED BY <1>1, <1>2, <1>3 DEF FitsNode, SameSelection

LEMMA KeepsFitsEvent ==
  ASSUME NEW p, NEW q, SameSelection(p, q), NEW st, NEW st2, SameFiles(st, st2),
         NEW g, NEW g2, SameTree(g, g2), NEW e \in Event, FitsEvent(e, p, st, g)
  PROVE  FitsEvent(e, q, st2, g2)
<1>1. e \in Event
  OBVIOUS
<1>2. Unselected(p) => Unselected(q)
  BY DEF Unselected, SameSelection
<1>3. Integrated(q) = Integrated(p)
  BY DEF Integrated, SameSelection
<1>4. /\ \A c : GoodTests(st2, c) = GoodTests(st, c) /\ GoodReview(st2, c) = GoodReview(st, c)
      /\ AfterTests(st2, g2) = AfterTests(st, g) /\ AfterReview(st2, g2) = AfterReview(st, g)
  BY DEF GoodTests, GoodReview, AfterTests, AfterReview, SameFiles, SameTree
<1>5. CASE e.kind \in {"CandidateRegistered", "RankingComputed"}
  BY <1>2, <1>5 DEF FitsEvent, SameSelection
<1>6. CASE e.kind = "WinnerSelected"
  <2>1. e.cand \in Cands
    BY <1>1, <1>6, EventFields
  <2> QED BY <1>6, <2>1 DEF FitsEvent, SameSelection
<1>7. CASE e.kind = "IntegrationAttempted"
  BY <1>3, <1>7 DEF FitsEvent, SameSelection, SameFiles, SameTree
<1>8. CASE e.kind = "CandidatePromotionRequested"
  <2>1. e.next # NoCand => e.next \in Cands
    BY <1>1, <1>8, EventFields
  <2> QED BY <1>8, <2>1 DEF FitsEvent, SameSelection, SameTree
<1>9. CASE e.kind \in {"FinalTestEvidence", "FinalReviewEvidence"}
  BY <1>3, <1>4, <1>9 DEF FitsEvent, SameSelection
<1>10. CASE e.kind \notin SelectKinds
  BY <1>10 DEF FitsEvent, SelectKinds
<1> QED BY <1>5, <1>6, <1>7, <1>8, <1>9, <1>10 DEF SelectKinds

LEMMA KeepsFits ==
  ASSUME NEW p, NEW q, SameSelection(p, q), SamePlan(p, q), NEW st, NEW st2, SameFiles(st, st2),
         NEW g, NEW g2, SameTree(g, g2), NEW x \in PlannedOp, Fits(x, p, st, g)
  PROVE  Fits(x, q, st2, g2)
<1>1. FitsNode(x, q)
  BY KeepsFitsNode DEF Fits
<1>2. x.op = "Do" => x.event \in Event
  BY OpFields DEF PlannedEvent
<1> QED BY <1>1, <1>2, KeepsFitsEvent DEF Fits

\* The files and worktrees of candidates are of no consequence before the selection.
LEMMA UnselectedAnyway ==
  ASSUME NEW p, NEW st, NEW st2, NEW g, NEW g2, Selected(p, st, g), Unselected(p),
         g2.branch = g.branch
  PROVE  Selected(p, st2, g2)
<1>1. p.integration.tests # "Pass" /\ p.integration.review # "Pass"
  BY DEF Selected, Unselected
<1>2. ~Integrated(p) /\ g2.branch = << >>
  BY DEF Selected, Unselected, Integrated, Verified
<1> QED BY <1>1, <1>2 DEF Selected, Unselected

(***************************************************************************)
(* What an event does to the selection.                                    *)
(***************************************************************************)
LEMMA ReduceRanked ==
  ASSUME NEW p \in Projection, NEW e \in Event
  PROVE  /\ Reduce(p, e).ranked = (IF e.kind = "RankingComputed" THEN TRUE ELSE p.ranked)
         /\ Reduce(p, e).winner = (IF e.kind = "WinnerSelected" THEN e.cand
                                   ELSE IF e.kind = "CandidatePromotionRequested" THEN e.next
                                   ELSE p.winner)
<1>1. CASE e.kind \in SelectKinds
  BY <1>1 DEF SelectKinds, Reduce, ReduceRegistered, ReduceRanking, ReduceWinner, ReduceIntegration,
              ReducePromotion, Projection
<1>2. CASE e.kind \notin SelectKinds
  BY <1>2 DEF SelectKinds, Reduce, ReduceStatus, ReduceStarted, ReduceClosed, ReduceVersion,
              ReduceDecision, ReduceInvalidated, ReduceCandidateStatus, ReduceRepair,
              ReduceExcluded, Projection
<1> QED BY <1>1, <1>2

LEMMA ReduceIntegrationField ==
  ASSUME NEW p \in Projection, NEW e \in Event
  PROVE  /\ e.kind = "IntegrationAttempted" =>
              Reduce(p, e).integration = Unjudged(IF e.applied THEN e.cand ELSE NoCand)
         /\ e.kind = "FinalTestEvidence" =>
              /\ Reduce(p, e).integration.tests = e.outcome
              /\ Reduce(p, e).integration.review = p.integration.review
              /\ Reduce(p, e).integration.applied = p.integration.applied
         /\ e.kind = "FinalReviewEvidence" =>
              /\ Reduce(p, e).integration.review = e.outcome
              /\ Reduce(p, e).integration.tests = p.integration.tests
              /\ Reduce(p, e).integration.applied = p.integration.applied
         /\ e.kind \notin {"IntegrationAttempted", "FinalTestEvidence", "FinalReviewEvidence"} =>
              Reduce(p, e).integration = p.integration
<1>1. CASE e.kind = "IntegrationAttempted"
  BY <1>1 DEF Reduce, ReduceIntegration, Projection
<1>2. CASE e.kind \in {"FinalTestEvidence", "FinalReviewEvidence"}
  BY <1>2 DEF Reduce, Projection, Integration
<1>3. CASE e.kind \in SelectKinds \ {"IntegrationAttempted", "FinalTestEvidence", "FinalReviewEvidence"}
  BY <1>3 DEF SelectKinds, Reduce, ReduceRegistered, ReduceRanking, ReduceWinner,
              ReducePromotion, Projection
<1>4. CASE e.kind \notin SelectKinds
  BY <1>4 DEF SelectKinds, Reduce, ReduceStatus, ReduceStarted, ReduceClosed, ReduceVersion,
              ReduceDecision, ReduceInvalidated, ReduceCandidateStatus, ReduceRepair,
              ReduceExcluded, Projection
<1> QED BY <1>1, <1>2, <1>3, <1>4 DEF SelectKinds

LEMMA ReduceAttempted ==
  ASSUME NEW p \in Projection, NEW e \in Event, NEW c \in Cands
  PROVE  Reduce(p, e).cands[c].attempted =
           (p.cands[c].attempted \/ (e.kind = "IntegrationAttempted" /\ e.cand = c))
<1>a. e \in Event
  OBVIOUS
<1>b. p.cands \in [Cands -> CandidateRecord] /\ p.cands[c] \in CandidateRecord
  BY DEF Projection
<1>c. p.cands[c].attempted \in BOOLEAN
  BY <1>b DEF CandidateRecord
<1>1. CASE e.kind = "CandidateRepairStarted"
  <2>1. e.cand \in Cands
    BY <1>a, <1>1, EventFields
  <2>2. CASE c # e.cand
    BY <1>1, <1>b, <1>c, <2>1, <2>2 DEF Reduce, ReduceRepair, Projection
  <2>3. CASE c = e.cand
    <3> DEFINE q == [p.cands[c] EXCEPT !.used = e.used]
    <3>1. Reduce(p, e).cands[c] = IF e.fingerprint = 0 THEN q ELSE Observe(q, e.fingerprint)
      BY <1>1, <1>b, <2>1, <2>3 DEF Reduce, ReduceRepair, Projection
    <3>2. q \in CandidateRecord /\ q.attempted = p.cands[c].attempted
      BY <1>a, <1>1, <1>b, EventFields DEF CandidateRecord
    <3> HIDE DEF q
    <3>3. Observe(q, e.fingerprint).attempted = q.attempted
      BY <3>2 DEF Observe, CandidateRecord
    <3>4. Reduce(p, e).cands[c].attempted = p.cands[c].attempted
      BY <3>1, <3>2, <3>3
    <3> QED BY <1>1, <1>c, <3>4
  <2> QED BY <2>2, <2>3
<1>2. CASE e.kind \in {"CandidateRegistered", "CandidateStatusChanged", "CandidateExcluded"}
  <2>1. Reduce(p, e).cands[c].attempted = p.cands[c].attempted
    BY <1>a, <1>b, <1>2, EventFields
       DEF Reduce, ReduceRegistered, ReduceCandidateStatus, ReduceExcluded, Projection, CandidateRecord
  <2> QED BY <1>2, <1>c, <2>1
<1>3. CASE e.kind = "IntegrationAttempted"
  <2>1. e.cand \in Cands
    BY <1>a, <1>3, EventFields
  <2>2. Tried(p.cands[e.cand], e.applied).attempted
    BY <1>b, <2>1 DEF Tried, CandidateRecord
  <2>3. Reduce(p, e).cands = [p.cands EXCEPT ![e.cand] = Tried(p.cands[e.cand], e.applied)]
    BY <1>3 DEF Reduce, ReduceIntegration, Projection
  <2>4. CASE c = e.cand
    <3>1. Reduce(p, e).cands[c].attempted = TRUE
      BY <1>3, <1>b, <2>1, <2>3, <2>4 DEF Tried, CandidateRecord
    <3> QED BY <1>3, <2>4, <3>1
  <2>5. CASE c # e.cand
    <3>1. Reduce(p, e).cands[c] = p.cands[c]
      BY <1>b, <2>1, <2>3, <2>5
    <3> QED BY <1>c, <2>5, <3>1
  <2> QED BY <2>4, <2>5
<1>4. CASE e.kind = "CandidatePromotionRequested"
  <2>1. Reduce(p, e).cands[c].attempted = p.cands[c].attempted
    BY <1>a, <1>b, <1>4, EventFields DEF Reduce, ReducePromotion, Projection, CandidateRecord
  <2> QED BY <1>4, <1>c, <2>1
<1>5. CASE e.kind \in {"RunStatusChanged", "NodeStarted", "NodeClosed", "PlanVersionWritten",
                      "PlanDecisionRecorded", "RankingComputed", "WinnerSelected"}
  <2>1. Reduce(p, e).cands = p.cands
    BY <1>5 DEF Reduce, ReduceStatus, ReduceStarted, ReduceClosed, ReduceVersion, ReduceDecision,
                ReduceRanking, ReduceWinner, Projection
  <2> QED BY <1>5, <1>c, <2>1
<1>6. CASE e.kind \in {"PlanApprovalInvalidated", "BaselineResolved", "FinalTestEvidence",
         "FinalReviewEvidence", "CommitApprovalRecorded", "CommitCreated",
         "CancellationRequested"}
  <2>1. Reduce(p, e).cands = p.cands
    BY <1>6 DEF Reduce, ReduceInvalidated, Projection
  <2> QED BY <1>6, <1>c, <2>1
<1>7. e.kind \in {"CandidateRepairStarted", "CandidateRegistered", "CandidateStatusChanged",
         "CandidateExcluded", "IntegrationAttempted", "CandidatePromotionRequested",
         "RunStatusChanged", "NodeStarted", "NodeClosed", "PlanVersionWritten",
         "PlanDecisionRecorded", "RankingComputed", "WinnerSelected",
         "PlanApprovalInvalidated", "BaselineResolved", "FinalTestEvidence",
         "FinalReviewEvidence", "CommitApprovalRecorded", "CommitCreated",
         "CancellationRequested"}
  BY <1>a DEF Event
<1> QED BY <1>1, <1>2, <1>3, <1>4, <1>5, <1>6, <1>7

LEMMA ReducePlan ==
  ASSUME NEW p \in Projection, NEW e \in Event
  PROVE  /\ e.kind \notin PlanKinds => SamePlan(p, Reduce(p, e))
         /\ p.commitApproved => Reduce(p, e).commitApproved
<1>1. p.commitApproved => Reduce(p, e).commitApproved
  BY DEF Reduce, ReduceStatus, ReduceStarted, ReduceClosed, ReduceVersion, ReduceDecision,
         ReduceInvalidated, ReduceRegistered, ReduceCandidateStatus, ReduceRepair, ReduceExcluded,
         ReduceRanking, ReduceWinner, ReduceIntegration, ReducePromotion, Projection
<1>2. e.kind \notin PlanKinds =>
        Reduce(p, e).versions = p.versions /\ Reduce(p, e).approval = p.approval
  BY DEF PlanKinds, Reduce, ReduceStatus, ReduceStarted, ReduceClosed,
         ReduceRegistered, ReduceCandidateStatus, ReduceRepair, ReduceExcluded,
         ReduceRanking, ReduceWinner, ReduceIntegration, ReducePromotion, Projection
<1>3. e.kind \notin PlanKinds => (PlanApproved(p) => PlanApproved(Reduce(p, e)))
  BY <1>2 DEF PlanApproved, HasPlan, CurrentPlan
<1> QED BY <1>1, <1>3 DEF SamePlan

\* What the event e makes of the selection of p.
Effect(e, p, q) ==
  /\ q.ranked = (IF e.kind = "RankingComputed" THEN TRUE ELSE p.ranked)
  /\ q.winner = (IF e.kind = "WinnerSelected" THEN e.cand
                 ELSE IF e.kind = "CandidatePromotionRequested" THEN e.next ELSE p.winner)
  /\ e.kind = "IntegrationAttempted" =>
       q.integration = Unjudged(IF e.applied THEN e.cand ELSE NoCand)
  /\ e.kind = "FinalTestEvidence" =>
       /\ q.integration.tests = e.outcome /\ q.integration.review = p.integration.review
       /\ q.integration.applied = p.integration.applied
  /\ e.kind = "FinalReviewEvidence" =>
       /\ q.integration.review = e.outcome /\ q.integration.tests = p.integration.tests
       /\ q.integration.applied = p.integration.applied
  /\ e.kind \notin {"IntegrationAttempted", "FinalTestEvidence", "FinalReviewEvidence"} =>
       q.integration = p.integration
  /\ \A c \in Cands : q.cands[c].attempted =
       (p.cands[c].attempted \/ (e.kind = "IntegrationAttempted" /\ e.cand = c))
  /\ e.kind # "CandidateRegistered" => (AllCandidatesTerminal(p) => AllCandidatesTerminal(q))

LEMMA CommitEffect ==
  ASSUME IInv, NEW e \in PlannedEvent, CommitEvent(e)
  PROVE  /\ run' = run \/ Effect(e, run, run')
         /\ ~poisoned' => Effect(e, run, run')
         /\ e.kind \notin PlanKinds => SamePlan(run, run')
<1>1. run \in Projection /\ e \in Event
  BY DEF IInv, RunInv, PlannedEvent
<1>2. CASE run' = run /\ poisoned'
  BY <1>2 DEF SamePlan
<1>3. CASE ~(run' = run /\ poisoned')
  <2>1. Accepts(run, e) /\ run' = Reduce(run, e) /\ ~poisoned'
    BY <1>3 DEF CommitEvent
  <2>2. \A c \in Cands : Registered(run, c) => Registered(run', c)
    <3> SUFFICES ASSUME NEW c \in Cands, Registered(run, c) PROVE Registered(run', c)
      OBVIOUS
    <3>1. run'.cands[c].status =
            IF e.kind = "CandidateRegistered" /\ e.cand = c THEN "Pending"
            ELSE IF e.kind = "CandidateStatusChanged" /\ e.cand = c THEN e.to
            ELSE run.cands[c].status
      BY <1>1, <2>1, ReduceCandStatus
    <3>2. e.kind = "CandidateStatusChanged" => e.to # "Absent"
      BY <1>1, EventFields DEF CandidateStatus
    <3> QED BY <3>1, <3>2 DEF Registered
  <2>3. e.kind # "CandidateRegistered" => (AllCandidatesTerminal(run) => AllCandidatesTerminal(run'))
    <3>1. e.kind # "CandidateRegistered" => NonTerminal(run') \subseteq NonTerminal(run)
      BY LeftAfter
    <3> QED BY <2>2, <3>1 DEF AllCandidatesTerminal
  <2>4. Effect(e, run, run')
    <3>1. \A c \in Cands : run'.cands[c].attempted =
            (run.cands[c].attempted \/ (e.kind = "IntegrationAttempted" /\ e.cand = c))
      BY <1>1, <2>1, ReduceAttempted
    <3>2. /\ run'.ranked = (IF e.kind = "RankingComputed" THEN TRUE ELSE run.ranked)
          /\ run'.winner = (IF e.kind = "WinnerSelected" THEN e.cand
                            ELSE IF e.kind = "CandidatePromotionRequested" THEN e.next
                            ELSE run.winner)
      BY <1>1, <2>1, ReduceRanked
    <3>3. /\ e.kind = "IntegrationAttempted" =>
               run'.integration = Unjudged(IF e.applied THEN e.cand ELSE NoCand)
          /\ e.kind = "FinalTestEvidence" =>
               /\ run'.integration.tests = e.outcome
               /\ run'.integration.review = run.integration.review
               /\ run'.integration.applied = run.integration.applied
          /\ e.kind = "FinalReviewEvidence" =>
               /\ run'.integration.review = e.outcome
               /\ run'.integration.tests = run.integration.tests
               /\ run'.integration.applied = run.integration.applied
          /\ e.kind \notin {"IntegrationAttempted", "FinalTestEvidence", "FinalReviewEvidence"} =>
               run'.integration = run.integration
      BY <1>1, <2>1, ReduceIntegrationField
    <3> QED BY <2>3, <3>1, <3>2, <3>3 DEF Effect
  <2>5. e.kind \notin PlanKinds => SamePlan(run, run')
    BY <1>1, <2>1, ReducePlan
  <2> QED BY <2>1, <2>4, <2>5
<1> QED BY <1>2, <1>3

LEMMA SameEffect ==
  ASSUME NEW p \in Projection, NEW e, NEW q, Effect(e, p, q), e.kind \notin SelectKinds
  PROVE  SameSelection(p, q)
<1>1. \A c \in Cands : p.cands[c].attempted \in BOOLEAN
  BY DEF Projection, CandidateRecord
<1>2. \A c \in Cands : q.cands[c].attempted = p.cands[c].attempted
  BY <1>1 DEF Effect, SelectKinds
<1> QED BY <1>2 DEF Effect, SelectKinds, SameSelection

\* A selection that was planned for this state, and committed.
LEMMA SelectedAfter ==
  ASSUME NEW p \in Projection, NEW e \in Event, NEW q, Effect(e, p, q), NEW st, NEW g,
         Selected(p, st, g), FitsEvent(e, p, st, g), e.kind = "WinnerSelected" => p.ranked
  PROVE  Selected(q, st, g)
<1>a. e \in Event /\ NoCand \notin Cands
  BY OwnerFacts
<1>b. \A c \in Cands : p.cands[c].attempted \in BOOLEAN
  BY DEF Projection, CandidateRecord
<1>c. /\ p.integration.applied # NoCand => p.integration.applied \in Cands
      /\ p.winner # NoCand => p.winner \in Cands
  BY DEF Projection, Integration
<1>d. g.branch # << >> => Verified(p) /\ Integrated(p) /\ p.winner # NoCand /\ g.branch = << g.tree >>
  BY DEF Selected, Verified, Integrated
<1>e. p.winner # NoCand => AllCandidatesTerminal(p) /\ p.ranked
  BY DEF Selected, Unselected
<1>1. CASE e.kind \notin SelectKinds
  <2>1. SameSelection(p, q)
    BY <1>1, SameEffect
  <2> QED BY <2>1, KeepsSelected DEF SameFiles, SameTree
<1>2. CASE e.kind = "CandidateRegistered"
  <2>1. Unselected(p)
    BY <1>2 DEF FitsEvent
  <2>2. q.integration = p.integration /\ q.winner = p.winner /\ q.ranked = p.ranked
    BY <1>2 DEF Effect
  <2>3. \A c \in Cands : q.cands[c].attempted = p.cands[c].attempted
    BY <1>2, <1>b DEF Effect
  <2>4. Unselected(q)
    BY <2>1, <2>2, <2>3 DEF Unselected
  <2>5. p.integration.tests # "Pass" /\ p.integration.review # "Pass"
    BY <2>1 DEF Selected, Unselected
  <2>6. ~Integrated(q) /\ g.branch = << >>
    BY <1>d, <2>1, <2>4 DEF Unselected, Integrated
  <2> QED BY <2>2, <2>4, <2>5, <2>6 DEF Selected, Unselected
<1>3. CASE e.kind = "RankingComputed"
  <2>1. /\ q.integration = p.integration /\ q.winner = p.winner /\ q.ranked
        /\ AllCandidatesTerminal(q)
    BY <1>3 DEF Effect, FitsEvent
  <2>2. \A c \in Cands : q.cands[c].attempted = p.cands[c].attempted
    BY <1>3, <1>b DEF Effect
  <2>3. Integrated(q) = Integrated(p) /\ Verified(q) = Verified(p)
    BY <2>1 DEF Integrated, Verified
  <2> QED BY <1>c, <2>1, <2>2, <2>3 DEF Selected
<1>4. CASE e.kind = "WinnerSelected"
  <2>1. /\ q.integration = p.integration /\ q.winner = e.cand /\ q.ranked = p.ranked
        /\ AllCandidatesTerminal(q) /\ p.winner = NoCand /\ p.integration.applied = NoCand
    BY <1>4 DEF Effect, FitsEvent
  <2>2. e.cand \in Cands
    BY <1>4, <1>a, EventFields
  <2>3. p.integration.tests # "Pass" /\ p.integration.review # "Pass" /\ g.branch = << >>
    BY <1>d, <2>1 DEF Selected
  <2>4. ~Integrated(q)
    BY <1>a, <2>1, <2>2 DEF Integrated
  <2> QED BY <1>4, <2>1, <2>3, <2>4 DEF Selected
<1>5. CASE e.kind = "IntegrationAttempted"
  <2> DEFINE w == p.winner
  <2>1. /\ w # NoCand /\ w \in Cands /\ e.cand = w /\ ~Integrated(p) /\ (e.applied => BuildsOn(g.tree, st.diff[w]))
        /\ AllCandidatesTerminal(p) /\ p.ranked
    BY <1>5, <1>c, <1>e DEF FitsEvent
  <2>2. /\ q.winner = w /\ q.ranked /\ AllCandidatesTerminal(q)
        /\ q.integration = Unjudged(IF e.applied THEN w ELSE NoCand)
    BY <1>5, <2>1 DEF Effect
  <2>3. q.cands[w].attempted
    BY <1>5, <2>1 DEF Effect
  <2> HIDE DEF w
  <2>4. /\ q.integration.applied = IF e.applied THEN w ELSE NoCand
        /\ q.integration.tests = "Unknown" /\ q.integration.review = "Unknown"
    BY <2>2 DEF Unjudged
  <2>5. Integrated(q) => e.applied
    BY <2>1, <2>2, <2>4 DEF Integrated
  <2>6. g.branch = << >>
    BY <1>d, <2>1
  <2> QED BY <2>1, <2>2, <2>3, <2>4, <2>5, <2>6 DEF Selected
<1>6. CASE e.kind = "CandidatePromotionRequested"
  <2>1. /\ p.winner # NoCand /\ g.branch = << >> /\ (e.next # NoCand => ~p.cands[e.next].attempted)
        /\ AllCandidatesTerminal(p) /\ p.ranked
    BY <1>6, <1>e DEF FitsEvent
  <2>2. /\ q.winner = e.next /\ q.ranked /\ AllCandidatesTerminal(q) /\ q.integration = p.integration
    BY <1>6, <2>1 DEF Effect
  <2>3. \A c \in Cands : q.cands[c].attempted = p.cands[c].attempted
    BY <1>6, <1>b DEF Effect
  <2>4. ~Integrated(q)
    <3> SUFFICES ASSUME Integrated(q) PROVE FALSE
      OBVIOUS
    <3>1. e.next # NoCand /\ p.integration.applied = e.next
      BY <2>2 DEF Integrated
    <3> QED BY <2>1, <3>1 DEF Selected
  <2> QED BY <1>c, <2>1, <2>2, <2>3, <2>4 DEF Selected
<1>7. CASE e.kind \in {"FinalTestEvidence", "FinalReviewEvidence"}
  <2>1. /\ Integrated(p) /\ p.winner # NoCand /\ p.integration.applied = p.winner
        /\ AllCandidatesTerminal(p) /\ p.ranked /\ ~Verified(p)
    BY <1>7, <1>e DEF FitsEvent, Integrated, Verified
  <2>2. /\ q.winner = p.winner /\ q.ranked /\ AllCandidatesTerminal(q)
        /\ q.integration.applied = p.integration.applied
    BY <1>7, <2>1 DEF Effect
  <2>3. \A c \in Cands : q.cands[c].attempted = p.cands[c].attempted
    BY <1>7, <1>b DEF Effect
  <2>4. g.branch = << >>
    BY <1>d, <2>1
  <2>5. /\ BuildsOn(g.tree, st.diff[q.winner])
        /\ q.integration.tests = "Pass" => AfterTests(st, g)
        /\ q.integration.review = "Pass" => AfterReview(st, g)
    BY <1>7, <2>1, <2>2 DEF Effect, FitsEvent, Selected
  <2>6. /\ q.integration.tests = "Pass" => GoodTests(st, q.integration.applied)
        /\ q.integration.review = "Pass" => GoodReview(st, q.integration.applied)
    BY <1>7, <2>1, <2>2 DEF Effect, FitsEvent, Selected
  <2>7. q.cands[q.integration.applied].attempted
    BY <1>c, <2>1, <2>2, <2>3 DEF Selected
  <2> QED BY <2>1, <2>2, <2>4, <2>5, <2>6, <2>7 DEF Selected
<1> QED BY <1>1, <1>2, <1>3, <1>4, <1>5, <1>6, <1>7 DEF SelectKinds

\* What else was planned with the call x still fits when x has been committed.
LEMMA FitsAfter ==
  ASSUME NEW p \in Projection, NEW x \in PlannedOp, x.op = "Do", NEW q, Effect(x.event, p, q),
         x.event.kind \notin PlanKinds => SamePlan(p, q), NEW st, NEW g,
         Fits(x, p, st, g), NEW y \in PlannedOp, Fits(y, p, st, g), Agree(x, y)
  PROVE  Fits(y, q, st, g)
<1> DEFINE e == x.event
           f == y.event
<1>a. e \in Event /\ FitsEvent(e, p, st, g) /\ Effect(e, p, q)
  BY OpFields DEF PlannedEvent, Fits
<1>b. \A c \in Cands : p.cands[c].attempted \in BOOLEAN
  BY DEF Projection, CandidateRecord
<1>1. CASE ~Depends(y)
  BY <1>1, FitsSteady DEF FitOp
<1>2. CASE ~Changes(x)
  <2>1. e.kind \notin SelectKinds \cup PlanKinds
    BY <1>2 DEF Changes, Commits
  <2>2. SameSelection(p, q) /\ SamePlan(p, q)
    BY <1>a, <2>1, SameEffect
  <2> QED BY <2>2, KeepsFits DEF SameFiles, SameTree
<1>3. CASE Changes(x) /\ Depends(y)
  <2>1. \/ Registers(x) /\ Registers(y)
        \/ Ranks(x) /\ Commits(y, {"WinnerSelected"})
        \/ /\ Commits(x, {"IntegrationAttempted", "FinalTestEvidence", "FinalReviewEvidence"})
           /\ Commits(y, {"CandidatePromotionRequested"})
    BY <1>3 DEF Agree
  <2>2. /\ y.op = "Do" /\ f.kind \in {"CandidateRegistered", "WinnerSelected", "CandidatePromotionRequested"}
    BY <2>1 DEF Registers, Commits
  <2>3. f \in Event /\ FitsEvent(f, p, st, g)
    BY <2>2, OpFields DEF PlannedEvent, Fits
  <2>4. FitsNode(y, q)
    BY <2>2 DEF FitsNode, For, Begins, Commits
  <2>5. (f.kind = "CandidateRegistered" => e.kind = "CandidateRegistered")
        /\ (f.kind = "WinnerSelected" => e.kind = "RankingComputed")
        /\ (f.kind = "CandidatePromotionRequested" =>
              e.kind \in {"IntegrationAttempted", "FinalTestEvidence", "FinalReviewEvidence"})
    BY <2>1 DEF Registers, Ranks, Commits
  <2> HIDE DEF e, f
  <2>6. FitsEvent(f, q, st, g)
    <3>1. CASE f.kind = "CandidateRegistered"
      <4>1. Unselected(p) /\ e.kind = "CandidateRegistered"
        BY <2>3, <2>5, <3>1 DEF FitsEvent
      <4>2. Unselected(q)
        BY <1>a, <4>1 DEF Unselected, Effect
      <4> QED BY <3>1, <4>2 DEF FitsEvent
    <3>2. CASE f.kind = "WinnerSelected"
      <4>1. /\ AllCandidatesTerminal(p) /\ p.winner = NoCand /\ p.integration.applied = NoCand
            /\ ~p.cands[f.cand].attempted /\ f.cand \in Cands /\ e.kind = "RankingComputed"
        BY <2>3, <2>5, <3>2, EventFields DEF FitsEvent
      <4>2. /\ AllCandidatesTerminal(q) /\ q.winner = NoCand /\ q.integration.applied = NoCand
            /\ ~q.cands[f.cand].attempted
        BY <1>a, <4>1 DEF Effect
      <4> QED BY <3>2, <4>2 DEF FitsEvent
    <3>3. CASE f.kind = "CandidatePromotionRequested"
      <4>1. /\ p.winner # NoCand /\ f.previous = p.winner /\ g.branch = << >>
            /\ f.next # NoCand => ~p.cands[f.next].attempted /\ f.next # p.winner
            /\ f.next # NoCand => f.next \in Cands
            /\ e.kind \in {"IntegrationAttempted", "FinalTestEvidence", "FinalReviewEvidence"}
        BY <2>3, <2>5, <3>3, EventFields DEF FitsEvent
      <4>2. q.winner = p.winner /\ (e.kind = "IntegrationAttempted" => e.cand = p.winner)
        BY <1>a, <4>1 DEF Effect, FitsEvent
      <4>3. f.next # NoCand => ~q.cands[f.next].attempted
        BY <1>a, <4>1, <4>2 DEF Effect
      <4> QED BY <3>3, <4>1, <4>2, <4>3 DEF FitsEvent
    <3> QED BY <2>2, <3>1, <3>2, <3>3 DEF f
  <2> QED BY <2>4, <2>6 DEF Fits, f
<1> QED BY <1>1, <1>2, <1>3

(***************************************************************************)
(* Steps that commit.                                                      *)
(***************************************************************************)
LEMMA ReadyCalls ==
  ASSUME NEW p, NEW st, NEW g
  PROVE  Ready(<< >>, p, st, g) /\ Ready(<< Fail >>, p, st, g) /\ Ready(<< Await >>, p, st, g)
<1>1. Fail \in SteadyOp /\ Await \in SteadyOp
  BY PlannedOps, CallKinds, SteadyOps
<1>2. << >> \in Seq(SteadyOp) /\ << Fail >> \in Seq(SteadyOp) /\ << Await >> \in Seq(SteadyOp)
  BY <1>1, SeqFacts
<1> QED BY <1>2, ReadySteady

LEMMA KeptUnselected ==
  ASSUME NEW p, NEW q, SameSelection(p, q), Unselected(p)
  PROVE  Unselected(q)
  BY DEF SameSelection, Unselected

LEMMA SelectCommitRun ==
  ASSUME IInv, FlowInv, SelectInv, DoCommit(RunOwner)
  PROVE  SelectInv'
<1> DEFINE s == todo[RunOwner]
           e == s[1].event
           t == IF poisoned' THEN << Fail >> ELSE Tail(s)
<1>0. RunOwner \in Owners /\ At(RunOwner, "Do") /\ UNCHANGED << store, git, task >> /\ run \in Projection
  BY OwnerFacts DEF DoCommit, KeepsTasks, KeepsOutside, IInv, RunInv
<1>1. /\ s \in Seq(PlannedOp) /\ s # << >> /\ s[1].op = "Do" /\ Call(RunOwner) = s[1] /\ s[1] \in PlannedOp
      /\ 1 \in DOMAIN s
  BY <1>0, AtCall
<1>2. e \in PlannedEvent /\ CommitEvent(e) /\ e \in Event
  BY <1>1, OpFields DEF DoCommit, CommitOrFail, PlannedEvent
<1>3. todo'[RunOwner] = t
  BY <1>0 DEF DoCommit, CommitOrFail, IInv
<1>4. \A c \in Cands : task[c] = "none"
  BY <1>0, TasksAlone
<1>5. Ready(s, run, store, git) /\ Selected(run, store, git)
  BY DEF SelectInv
<1>6. Fits(s[1], run, store, git)
  BY <1>1, <1>5, FitSeqs DEF Ready
<1>7. e.kind = "WinnerSelected" => run.ranked
  <2>1. DOMAIN s \subseteq Nat \ {0}
    BY <1>1
  <2> QED BY <1>1, <1>5, <2>1 DEF Ready, RanksFirst, Commits
<1>8. Selected(run', store, git)
  <2>1. FitsEvent(e, run, store, git)
    BY <1>1, <1>6 DEF Fits
  <2>2. run' = run \/ Effect(e, run, run')
    BY <1>2, CommitEffect
  <2> HIDE DEF e
  <2> QED BY <1>0, <1>2, <1>5, <1>7, <2>1, <2>2, SelectedAfter
<1>9. Ready(t, run', store, git)
  <2>1. CASE poisoned'
    BY <2>1, ReadyCalls
  <2>2. CASE ~poisoned'
    <3>1. Effect(e, run, run') /\ (e.kind \notin PlanKinds => SamePlan(run, run'))
      BY <1>2, <2>2, CommitEffect
    <3>2. \A y \in PlannedOp : Fits(y, run, store, git) /\ Agree(s[1], y) => Fits(y, run', store, git)
      BY <1>0, <1>1, <1>6, <3>1, FitsAfter
    <3>3. run.ranked \/ Ranks(s[1]) => run'.ranked
      BY <3>1 DEF Effect, Ranks, Commits
    <3> HIDE DEF s, e
    <3>4. Ready(Tail(s), run', store, git)
      BY <1>1, <1>5, <3>2, <3>3, ReadyTail
    <3> QED BY <2>2, <3>4
  <2> QED BY <2>1, <2>2
<1> HIDE DEF t
<1> QED BY <1>0, <1>3, <1>4, <1>8, <1>9 DEF SelectInv

\* The selection stays, the run loop waits, and candidates only work before it.
LEMMA SelectAway ==
  ASSUME IInv, SelectInv, UNCHANGED << store, git, task >>, todo'[RunOwner] = todo[RunOwner],
         todo[RunOwner] \in {<< >>, << Await >>},
         NEW e \in PlannedEvent, e.kind \notin SelectKinds, CommitEvent(e)
  PROVE  SelectInv'
<1>1. run \in Projection
  BY DEF IInv, RunInv
<1>2. run' = run \/ Effect(e, run, run')
  BY CommitEffect
<1>3. run' = run \/ SameSelection(run, run')
  BY <1>1, <1>2, SameEffect
<1>4. Selected(run', store, git)
  BY <1>1, <1>3, KeepsSelected DEF SelectInv, SameFiles, SameTree
<1>5. \A c \in Cands : task[c] # "none" => Unselected(run')
  BY <1>3, KeptUnselected DEF SelectInv
<1>6. Ready(todo[RunOwner], run', store, git)
  BY ReadyCalls
<1> QED BY <1>4, <1>5, <1>6 DEF SelectInv

LEMMA SelectCommit ==
  ASSUME IInv, FlowInv, GateInv, SelectInv, NEW o \in Owners, DoCommit(o)
  PROVE  SelectInv'
<1>1. CASE o = RunOwner
  BY <1>1, SelectCommitRun
<1>2. CASE o # RunOwner
  <2> DEFINE s == todo[o]
             e == s[1].event
  <2>1. o \in Cands /\ At(o, "Do")
    BY <1>2, OwnerFacts DEF DoCommit
  <2>2. /\ s # << >> /\ s[1].op = "Do" /\ Call(o) = s[1] /\ s[1] \in PlannedOp /\ task[o] = "running"
    BY <1>2, <2>1, AtCall DEF Runnable
  <2>3. e \in PlannedEvent /\ CommitEvent(e)
    BY <2>2, OpFields DEF DoCommit, CommitOrFail
  <2>4. e.kind \notin SelectKinds
    <3>1. s \in Seq(CandidateOp)
      BY <2>1 DEF GateInv
    <3>2. s[1] \in CandidateOp
      BY <2>2, <3>1
    <3> QED BY <2>2, <3>2 DEF CandidateOp, CandidateEvents, PlainEvents, SelectKinds
  <2>5. todo[RunOwner] = << Await >>
    BY <2>1, <2>2 DEF FlowInv, TaskInv
  <2>6. UNCHANGED << store, git, task >> /\ todo'[RunOwner] = todo[RunOwner]
    BY <1>2, OwnerFacts DEF DoCommit, CommitOrFail, KeepsTasks, KeepsOutside, IInv
  <2> HIDE DEF e
  <2> QED BY <2>3, <2>4, <2>5, <2>6, SelectAway
<1> QED BY <1>1, <1>2

LEMMA SelectApart ==
  ASSUME IInv, FlowInv, SelectInv, CommitsApart, UNCHANGED << store, git >>
  PROVE  SelectInv'
<1>1. PICK e \in PlannedEvent : Apart(e) /\ CommitEvent(e)
  BY DEF CommitsApart
<1>2. e.kind \notin SelectKinds
  BY <1>1 DEF Apart, RequestKindsOfEvents, SelectKinds
<1>3. todo[RunOwner] = << >>
  BY OwnerFacts DEF CommitsApart, FlowInv, TaskInv
<1>4. UNCHANGED task /\ todo'[RunOwner] = todo[RunOwner]
  BY DEF CommitsApart
<1> QED BY <1>1, <1>2, <1>3, <1>4, SelectAway

(***************************************************************************)
(* Steps that commit nothing and run no body.                              *)
(***************************************************************************)
LEMMA SelectStays ==
  ASSUME IInv, SelectInv, run' = run, SameFiles(store, store'), SameTree(git, git'),
         \A c \in Cands : task'[c] # "none" => Unselected(run),
         Ready(todo'[RunOwner], run, store, git)
  PROVE  SelectInv'
<1>1. run \in Projection /\ SameSelection(run, run) /\ SamePlan(run, run)
  BY DEF IInv, RunInv, SameSelection, SamePlan
<1>2. Selected(run, store', git')
  BY <1>1, KeepsSelected DEF SelectInv
<1>3. \A x \in PlannedOp : Fits(x, run, store, git) => Fits(x, run, store', git')
  BY <1>1, KeepsFits
<1>4. Ready(todo'[RunOwner], run, store', git')
  BY <1>3, ReadyKept
<1> QED BY <1>2, <1>4 DEF SelectInv

LEMMA SelectOn ==
  ASSUME IInv, SelectInv, run' = run, UNCHANGED << store, git >>,
         \A c \in Cands : task'[c] # "none" => task[c] # "none",
         todo[RunOwner] # << >>, todo[RunOwner][1].op # "Do",
         NEW p \in Seq(SteadyOp), Continue(RunOwner, p)
  PROVE  SelectInv'
<1> DEFINE s == todo[RunOwner]
           u == Tail(s)
<1>1. todo'[RunOwner] = p \o u
  BY OwnerFacts DEF Continue, IInv
<1>2. Ready(s, run, store, git)
  BY DEF SelectInv
<1>3. ~Ranks(s[1])
  BY DEF Ranks, Commits
<1>4. Ready(u, run, store, git)
  BY <1>2, <1>3, ReadyTail
<1>5. Ready(p, run, store, git)
  BY ReadySteady
<1>6. \A i \in DOMAIN p : ~Changes(p[i])
  <2>1. \A i \in DOMAIN p : p[i] \in SteadyOp
    OBVIOUS
  <2> QED BY <2>1 DEF SteadyOp
<1> HIDE DEF u
<1>7. Ready(p \o u, run, store, git)
  BY <1>4, <1>5, <1>6, ReadyJoin DEF Agree
<1>8. \A c \in Cands : task'[c] # "none" => Unselected(run)
  BY DEF SelectInv
<1> QED BY <1>1, <1>7, <1>8, SelectStays DEF SameFiles, SameTree

\* A step of a candidate's task that leaves the evidence files alone.
LEMMA SelectOther ==
  ASSUME IInv, SelectInv, run' = run, UNCHANGED << store, git >>,
         \A c \in Cands : task'[c] # "none" => task[c] # "none",
         todo'[RunOwner] = todo[RunOwner]
  PROVE  SelectInv'
<1>1. \A c \in Cands : task'[c] # "none" => Unselected(run)
  BY DEF SelectInv
<1>2. Ready(todo[RunOwner], run, store, git)
  BY DEF SelectInv
<1> QED BY <1>1, <1>2, SelectStays DEF SameFiles, SameTree

LEMMA SelectEnd ==
  ASSUME IInv, SelectInv, run' = run, UNCHANGED << store, git >>, NEW result, EndDispatch(result)
  PROVE  SelectInv'
<1>1. todo'[RunOwner] = << >> /\ \A c \in Cands : task'[c] = "none"
  BY OwnerFacts DEF EndDispatch
<1> QED BY <1>1, ReadyCalls, SelectStays DEF SameFiles, SameTree

LEMMA SelectReads ==
  ASSUME IInv, FlowInv, SelectInv,
         ReadRunStatus(RunOwner) \/ ReadCandidateStatus(RunOwner)
  PROVE  SelectInv'
<1> DEFINE x == todo[RunOwner][1]
<1>a. RunOwner \in Owners /\ run' = run /\ UNCHANGED << store, git, task >> /\ run \in Projection
  BY OwnerFacts DEF ReadRunStatus, ReadCandidateStatus, KeepsTasks, KeepsOutside, IInv, RunInv
<1>b. \A op : At(RunOwner, op) =>
        todo[RunOwner] # << >> /\ x.op = op /\ Call(RunOwner) = x /\ x \in PlannedOp
  BY <1>a, AtCall
<1>c. << >> \in Seq(SteadyOp) /\ << Fail >> \in Seq(SteadyOp)
  BY PlannedOps, CallKinds, SteadyOps, SeqFacts
<1>1. CASE ReadRunStatus(RunOwner)
  <2> DEFINE e == StatusChanged(run.status, x.to)
  <2>1. /\ todo[RunOwner] # << >> /\ x.op = "SetRun" /\ Call(RunOwner) = x /\ x \in PlannedOp
    BY <1>1, <1>b DEF ReadRunStatus
  <2>2. Continue(RunOwner, << >>) \/ Continue(RunOwner, << Do(e) >>) \/ Continue(RunOwner, << Fail >>)
    BY <1>1, <2>1 DEF ReadRunStatus
  <2>3. e \in PlannedEvent /\ e.kind = "RunStatusChanged"
    <3>1. x.to \in RunStatus /\ run.status \in RunStatus
      BY <1>a, <2>1, OpFields DEF Projection
    <3> QED BY <3>1, PlannedEvents DEF StatusChanged
  <2>4. << Do(e) >> \in Seq(SteadyOp)
    <3>1. Do(e) \in SteadyOp
      BY <2>3, SteadyOps DEF SelectKinds, PlanKinds
    <3> QED BY <3>1, SeqFacts
  <2> HIDE DEF e, x
  <2> QED BY <1>a, <1>c, <2>1, <2>2, <2>4, SelectOn DEF x
<1>2. CASE ReadCandidateStatus(RunOwner)
  <2> DEFINE c == x.cand
             from == run.cands[c].status
             e == CandidateStatusChanged(c, from, x.to)
  <2>1. /\ todo[RunOwner] # << >> /\ x.op = "SetCand" /\ Call(RunOwner) = x /\ x \in PlannedOp
    BY <1>2, <1>b DEF ReadCandidateStatus
  <2>2. \/ Continue(RunOwner, << >>)
        \/ Continue(RunOwner, << Do(e) >>) /\ from # "Absent"
        \/ Continue(RunOwner, << Fail >>)
    BY <1>2, <2>1 DEF ReadCandidateStatus
  <2>3. from # "Absent" => e \in PlannedEvent /\ e.kind = "CandidateStatusChanged"
    <3>1. c \in Cands /\ x.to \in CandidateStatus
      BY <2>1, OpFields
    <3>2. from \in CandidateStatus \cup {"Absent"}
      BY <1>a, <3>1 DEF Projection, CandidateRecord
    <3> QED BY <3>1, <3>2, PlannedEvents DEF CandidateStatusChanged
  <2>4. from # "Absent" => << Do(e) >> \in Seq(SteadyOp)
    <3>1. from # "Absent" => Do(e) \in SteadyOp
      BY <2>3, SteadyOps DEF SelectKinds, PlanKinds
    <3> QED BY <3>1, SeqFacts
  <2> HIDE DEF e, x, from, c
  <2> QED BY <1>a, <1>c, <2>1, <2>2, <2>4, SelectOn DEF x
<1> QED BY <1>1, <1>2

LEMMA SelectLists ==
  ASSUME IInv, FlowInv, SelectInv, CancelNext(RunOwner) \/ ExcludeNext(RunOwner)
  PROVE  SelectInv'
<1> DEFINE x == todo[RunOwner][1]
           left == x.left
<1>1. /\ RunOwner \in Owners /\ run' = run /\ UNCHANGED << store, git, task >>
      /\ At(RunOwner, "CancelAll") \/ At(RunOwner, "ExcludeAll")
  BY OwnerFacts DEF CancelNext, ExcludeNext, KeepsTasks, KeepsOutside
<1>2. /\ todo[RunOwner] # << >> /\ x.op # "Do" /\ Call(RunOwner) = x /\ left \in SUBSET Cands
  BY <1>1, AtCall, OpFields
<1>3. ASSUME NEW c \in left
      PROVE  /\ << SetCand(c, "Cancelled"), CancelAll(left \ {c}) >> \in Seq(SteadyOp)
             /\ << Do(CandidateExcluded(c)), ExcludeAll(left \ {c}) >> \in Seq(SteadyOp)
  <2>1. CandidateExcluded(c) \in PlannedEvent /\ CandidateExcluded(c).kind = "CandidateExcluded"
    BY <1>2, PlannedEvents DEF CandidateExcluded
  <2>2. Do(CandidateExcluded(c)) \in SteadyOp /\ ExcludeAll(left \ {c}) \in SteadyOp
    BY <1>2, <2>1, PlannedOps, CallKinds, SteadyOps DEF SelectKinds, PlanKinds
  <2>3. SetCand(c, "Cancelled") \in SteadyOp /\ CancelAll(left \ {c}) \in SteadyOp
    BY <1>2, PlannedOps, CallKinds, SteadyOps DEF CandidateStatus
  <2> QED BY <2>2, <2>3, SeqFacts
<1>4. << >> \in Seq(SteadyOp) /\ << SetRun("Cancelled") >> \in Seq(SteadyOp)
  <2>1. SetRun("Cancelled") \in SteadyOp
    BY PlannedOps, CallKinds, SteadyOps DEF RunStatus
  <2> QED BY <2>1, SeqFacts
<1>5. PICK p \in Seq(SteadyOp) : Continue(RunOwner, p)
  BY <1>2, <1>3, <1>4 DEF CancelNext, ExcludeNext
<1> QED BY <1>1, <1>2, <1>5, SelectOn

LEMMA NodeCalls ==
  ASSUME NEW node \in RunNodes, NEW number, NEW p, FitsNode(Start(node), p)
  PROVE  /\ FitsNode(Do(NodeStarted(RunOwner, node, number)), p)
         /\ Edits(node) => node = "Integrate" /\ FitsNode(Edit(node), p)
         /\ FitsNode(Body(node, number), p)
<1>1. \A n : For(Start(node), n) = (node = n)
  BY DEF For, Start, Begins, Commits
<1>2. /\ \A n : For(Do(NodeStarted(RunOwner, node, number)), n) = (node = n)
      /\ Do(NodeStarted(RunOwner, node, number)).op = "Do"
  BY DEF For, Do, NodeStarted, Begins, Commits
<1>3. (\A n : For(Edit(node), n) = (node = n)) /\ Edit(node).op = "Edit" /\ Edit(node).node = node
  BY DEF For, Edit, Begins, Commits
<1>4. (\A n : For(Body(node, number), n) = (node = n)) /\ Body(node, number).op = "Body"
  BY DEF For, Body, Begins, Commits
<1>5. Edits(node) => node = "Integrate"
  BY DEF Edits, RunNodes
<1>6. FitsNode(Do(NodeStarted(RunOwner, node, number)), p)
  BY <1>1, <1>2 DEF FitsNode
<1>7. Edits(node) => FitsNode(Edit(node), p)
  BY <1>1, <1>3, <1>5 DEF FitsNode
<1>8. FitsNode(Body(node, number), p)
  BY <1>1, <1>4 DEF FitsNode
<1> QED BY <1>5, <1>6, <1>7, <1>8

LEMMA SelectStart ==
  ASSUME IInv, FlowInv, SelectInv, StartNode(RunOwner)
  PROVE  SelectInv'
<1> DEFINE s == todo[RunOwner]
           node == Call(RunOwner).node
           number == NextAttemptNumber(run, RunOwner, node)
<1>1. /\ RunOwner \in Owners /\ At(RunOwner, "Start") /\ run' = run /\ UNCHANGED << store, git, task >>
      /\ run \in Projection
  BY OwnerFacts DEF StartNode, KeepsTasks, KeepsOutside, IInv, RunInv
<1>2. /\ s \in Seq(PlannedOp) /\ s # << >> /\ s[1].op = "Start" /\ Call(RunOwner) = s[1] /\ s[1] \in PlannedOp
      /\ SoundCall(RunOwner, run.attempts[RunOwner], s, 1) /\ 1 \in DOMAIN s
  BY <1>1, AtCall
<1>3. Tail(s) = << >> /\ node \in Nodes /\ node \in RunNodes
  <2>1. Tail(s) = << >> /\ node \in Nodes
    BY <1>2, LastCall, OpFields DEF LastOps
  <2>2. MayStart(RunOwner, run.attempts[RunOwner], node)
    BY <1>2 DEF SoundCall
  <2> QED BY <2>1, <2>2 DEF MayStart
<1>4. CASE cancelled
  <2> DEFINE p == << CancelAll(NonTerminal(run)), Return("Blocked") >>
  <2>1. Continue(RunOwner, p)
    BY <1>4 DEF StartNode
  <2>2. CancelAll(NonTerminal(run)) \in SteadyOp /\ Return("Blocked") \in SteadyOp
    BY PlannedOps, CallKinds, SteadyOps DEF NonTerminal, Outcome
  <2>3. p \in Seq(SteadyOp)
    BY <2>2, SeqFacts
  <2> HIDE DEF p
  <2> QED BY <1>1, <1>2, <2>1, <2>3, SelectOn
<1>5. CASE ~cancelled
  <2> DEFINE x == Do(NodeStarted(RunOwner, node, number))
             y == Edit(node)
             z == Body(node, number)
             u == Only(Edits(node), y)
             t == << x >> \o u
  <2>1. Continue(RunOwner, t \o << z >>)
    BY <1>5 DEF StartNode
  <2>2. number \in Nat
    BY <1>1, NumberType
  <2>3. FitsNode(Start(node), run)
    <3>1. Fits(s[1], run, store, git)
      BY <1>2, FitSeqs DEF SelectInv, Ready
    <3>2. \A n : For(s[1], n) = (node = n)
      BY <1>2 DEF For, Begins, Commits
    <3>3. \A n : For(Start(node), n) = (node = n)
      BY DEF For, Start, Begins, Commits
    <3>4. FitsNode(s[1], run) /\ s[1].op # "Edit" /\ Start(node).op # "Edit"
      BY <1>2, <3>1 DEF Fits, Start
    <3> HIDE DEF s, node
    <3> QED BY <3>2, <3>3, <3>4 DEF FitsNode
  <2> HIDE DEF node, number
  <2>4. FitsNode(x, run) /\ FitsNode(z, run) /\ (Edits(node) => FitsNode(y, run))
    BY <1>3, <2>3, NodeCalls
  <2>5. /\ x \in PlannedOp /\ y \in PlannedOp /\ z \in PlannedOp
        /\ x.op = "Do" /\ x.event.kind = "NodeStarted" /\ y.op = "Edit" /\ z.op = "Body"
    <3>1. /\ NodeStarted(RunOwner, node, number) \in PlannedEvent
          /\ NodeStarted(RunOwner, node, number).kind = "NodeStarted"
      BY <1>1, <1>3, <2>2, PlannedEvents DEF NodeStarted
    <3> QED BY <1>3, <2>2, <3>1, PlannedOps, CallKinds
  <2> HIDE DEF x, y, z
  <2>6. /\ Fits(x, run, store, git) /\ Fits(z, run, store, git)
        /\ Edits(node) => Fits(y, run, store, git)
    BY <2>4, <2>5 DEF Fits, FitsEvent
  <2>7. ~Changes(x) /\ ~Commits(x, {"WinnerSelected"}) /\ ~Commits(y, {"WinnerSelected"})
        /\ ~Commits(z, {"WinnerSelected"}) /\ Agree(x, z) /\ Agree(y, z) /\ Agree(x, y)
    BY <2>5 DEF Changes, Commits, SelectKinds, PlanKinds, Agree
  <2>8. Ready(<< x >>, run, store, git) /\ Ready(<< z >>, run, store, git)
    BY <2>5, <2>6, <2>7, ReadyOne
  <2>9. Ready(u, run, store, git)
    BY <2>5, <2>6, <2>7, ReadyOne, ReadyCalls DEF Only
  <2>10. u \in Seq({x, y}) /\ << x >> \in Seq({x, y}) /\ << z >> \in Seq({z})
    <3>1. x \in {x, y} /\ y \in {x, y} /\ z \in {z}
      OBVIOUS
    <3> QED BY <3>1, SeqFacts
  <2>a. /\ \A i \in DOMAIN << x >> : << x >>[i] = x
        /\ \A i \in DOMAIN << z >> : << z >>[i] = z
    OBVIOUS
  <2> HIDE DEF u
  <2>11. Ready(t, run, store, git)
    <3>1. \A i \in DOMAIN << x >>, j \in DOMAIN u : Agree(<< x >>[i], u[j])
      BY <2>7, <2>a DEF Agree
    <3> QED BY <2>8, <2>9, <3>1, ReadyJoin
  <2>12. t \in Seq({x, y})
    BY <2>10, SeqFacts
  <2> HIDE DEF t
  <2>13. Ready(t \o << z >>, run, store, git)
    <3>1. \A i \in DOMAIN t : t[i] \in {x, y}
      BY <2>12
    <3>2. \A i \in DOMAIN t, j \in DOMAIN << z >> : Agree(t[i], << z >>[j])
      BY <2>7, <2>a, <3>1
    <3> QED BY <2>8, <2>11, <3>2, ReadyJoin
  <2> DEFINE w == t \o << z >>
  <2>14. w \in Seq(PlannedOp) /\ Ready(w, run, store, git) /\ Continue(RunOwner, w)
    BY <2>1, <2>13, FitSeqs DEF Ready
  <2> HIDE DEF w
  <2>15. todo'[RunOwner] = w
    <3>1. w \o << >> = w
      BY <2>14, ConcatEmptySeq
    <3> QED BY <1>1, <1>3, <2>14, <3>1 DEF Continue, IInv
  <2>16. \A c \in Cands : task'[c] # "none" => Unselected(run)
    BY <1>1 DEF SelectInv
  <2> QED BY <1>1, <2>14, <2>15, <2>16, SelectStays DEF SameFiles, SameTree
<1> QED BY <1>4, <1>5

LEMMA SelectCalls ==
  ASSUME IInv, FlowInv, GateInv, SelectInv, Calls
  PROVE  SelectInv'
<1>1. PICK o \in Owners :
        \/ ReadRunStatus(o) \/ ReadCandidateStatus(o) \/ DoCommit(o)
        \/ CancelNext(o) \/ ExcludeNext(o) \/ StartNode(o)
        \/ ReturnFrom(o) \/ FailFrom(o)
  BY DEF Calls
<1>2. CASE DoCommit(o)
  BY <1>2, SelectCommit
<1>3. CASE o = RunOwner /\ ~DoCommit(o)
  <2>1. CASE ReturnFrom(o) \/ FailFrom(o)
    BY <1>3, <2>1, SelectEnd DEF ReturnFrom, FailFrom, Ends, KeepsOutside
  <2> QED BY <1>1, <1>3, <2>1, SelectReads, SelectLists, SelectStart
<1>4. CASE o # RunOwner /\ ~DoCommit(o)
  <2>1. /\ run' = run /\ UNCHANGED << store, git >>
    BY <1>1, <1>4 DEF ReadRunStatus, ReadCandidateStatus, CancelNext, ExcludeNext, StartNode, ReturnFrom,
                      FailFrom, Ends, KeepsOutside
  <2>2. todo'[RunOwner] = todo[RunOwner]
    BY <1>1, <1>4, OwnerFacts
       DEF ReadRunStatus, ReadCandidateStatus, CancelNext, ExcludeNext, StartNode, ReturnFrom,
           FailFrom, Ends, Continue, IInv
  <2>3. \A c \in Cands : task'[c] # "none" => task[c] # "none"
    <3>1. CASE ReturnFrom(o) \/ FailFrom(o)
      <4>1. task[o] = "running" /\ (task' = [task EXCEPT ![o] = "done"] \/ task' = [task EXCEPT ![o] = "failed"])
        BY <1>4, <3>1 DEF ReturnFrom, FailFrom, Ends, At, Runnable
      <4> QED BY <4>1 DEF IInv
    <3>2. CASE ~(ReturnFrom(o) \/ FailFrom(o))
      BY <1>1, <1>4, <3>2 DEF ReadRunStatus, ReadCandidateStatus, CancelNext, ExcludeNext, StartNode, KeepsTasks
    <3> QED BY <3>1, <3>2
  <2> QED BY <2>1, <2>2, <2>3, SelectOther
<1> QED BY <1>2, <1>3, <1>4

(***************************************************************************)
(* The run loop and the candidates' tasks.                                 *)
(***************************************************************************)
\* The node that the scheduler hands out fits what has been selected so far.
LEMMA StepFits ==
  ASSUME run \in Projection, Selected(run, store, git), NextRunStep(run).kind = "RunNode"
  PROVE  FitsNode(Start(NextRunStep(run).value), run)
<1> DEFINE node == NextRunStep(run).value
<1>1. /\ \A x : Finish(x).kind # "RunNode" /\ Run(x).value = x
      /\ \A k : Step(k).kind = k
  BY DEF Finish, Run, Step
<1>2. ASSUME node \in GuardedNodes
      PROVE  NextRunStep(run) = CandidateStage(run) /\ PlanApproved(run)
  <2>1. NextRunStep(run) = PlanStage(run)
    BY <1>1, <1>2 DEF NextRunStep, GuardedNodes
  <2>2. PlanGate(run) \in {"WritePlan", "Await", "Rejected", "Approved"}
    BY DEF PlanGate
  <2>3. PlanGate(run) \notin {"WritePlan", "Await", "Rejected"}
    BY <1>1, <1>2, <2>1 DEF PlanStage, GuardedNodes
  <2>4. PlanGate(run) = "Approved"
    BY <2>2, <2>3
  <2>5. run.approval.decision \in Decision \cup {None}
    BY DEF Projection, Approval
  <2>6. PlanApproved(run)
    BY <2>4, <2>5 DEF PlanGate, PlanApproved, Decision
  <2> QED BY <2>1, <2>4, <2>6 DEF PlanStage
<1>3. (\A n : For(Start(node), n) = (node = n)) /\ Start(node).op = "Start"
  BY DEF For, Start, Begins, Commits
<1>4. node = "FanOut" => Unselected(run)
  <2> SUFFICES ASSUME node = "FanOut" PROVE Unselected(run)
    OBVIOUS
  <2>1. CandidateStage(run).value = "FanOut" /\ CandidateStage(run).kind = "RunNode"
    BY <1>2 DEF GuardedNodes
  <2>2. \A c \in Cands : ~Registered(run, c)
    BY <1>1, <2>1 DEF CandidateStage, IntegrationStep, CommitStep
  <2> QED BY <2>2 DEF Selected, AllCandidatesTerminal
<1>5. node = "Join" => ~run.ranked /\ AllCandidatesTerminal(run)
  <2> SUFFICES ASSUME node = "Join" PROVE ~run.ranked /\ AllCandidatesTerminal(run)
    OBVIOUS
  <2>1. CandidateStage(run).value = "Join" /\ CandidateStage(run).kind = "RunNode"
    BY <1>2 DEF GuardedNodes
  <2> QED BY <1>1, <2>1 DEF CandidateStage, IntegrationStep, CommitStep
<1>6. ASSUME node \in {"Integrate", "FinalTest", "FinalReview", "Commit"}
      PROVE  /\ run.winner # NoCand
             /\ node = "Integrate" => ~Integrated(run)
             /\ node = "FinalTest" => Integrated(run) /\ run.integration.tests # "Pass"
             /\ node = "FinalReview" => Integrated(run) /\ run.integration.review # "Pass"
             /\ node = "Commit" => Verified(run) /\ Allowed(run)
  <2>1. NextRunStep(run) = CandidateStage(run) /\ PlanApproved(run)
    BY <1>2, <1>6 DEF GuardedNodes
  <2>2. CandidateStage(run) = IntegrationStep(run)
    BY <1>1, <1>6, <2>1 DEF CandidateStage
  <2>3. IntegrationStep(run).value = node /\ IntegrationStep(run).kind = "RunNode"
    BY <2>1, <2>2
  <2> HIDE DEF node
  <2>4. run.winner # NoCand /\ ~run.commit
    BY <1>1, <2>3 DEF IntegrationStep
  <2>5. CASE run.integration.applied # run.winner
    <3>1. IntegrationStep(run) = Run("Integrate")
      BY <2>4, <2>5 DEF IntegrationStep
    <3> QED BY <1>1, <2>3, <2>4, <2>5, <3>1 DEF Integrated
  <2>6. CASE run.integration.applied = run.winner
    <3>1. Integrated(run)
      BY <2>4, <2>6 DEF Integrated
    <3>2. IntegrationStep(run) = IF run.integration.tests # "Pass" THEN Run("FinalTest")
                                 ELSE IF run.integration.review # "Pass" THEN Run("FinalReview")
                                 ELSE CommitStep(run)
      BY <2>4, <2>6 DEF IntegrationStep
    <3>3. CASE run.integration.tests # "Pass" \/ run.integration.review # "Pass"
      BY <1>1, <2>3, <2>4, <3>1, <3>2, <3>3
    <3>4. CASE run.integration.tests = "Pass" /\ run.integration.review = "Pass"
      <4>1. CommitStep(run).value = node /\ CommitStep(run).kind = "RunNode"
        BY <2>3, <3>2, <3>4
      <4>2. node = "Commit" /\ CommitPolicy # "None" /\ (CommitPolicy = "Manual" => run.commitApproved)
        BY <1>1, <4>1 DEF CommitStep
      <4> QED BY <2>1, <2>4, <3>1, <3>4, <4>2 DEF Verified, Allowed
    <3> QED BY <3>3, <3>4
  <2> QED BY <2>5, <2>6
<1> HIDE DEF node
<1>7. FitsNode(Start(node), run)
  BY <1>3, <1>4, <1>5, <1>6 DEF FitsNode
<1> QED BY <1>7 DEF node

LEMMA SelectAnew ==
  ASSUME IInv, SelectInv, run' = run, UNCHANGED << store, git >>,
         \A c \in Cands : task'[c] # "none" => Unselected(run),
         NEW t, todo' = [todo EXCEPT ![RunOwner] = t], Ready(t, run, store, git)
  PROVE  SelectInv'
<1>1. todo'[RunOwner] = t
  BY OwnerFacts DEF IInv
<1> QED BY <1>1, SelectStays DEF SameFiles, SameTree

LEMMA SelectLoop ==
  ASSUME IInv, FlowInv, SelectInv, RunLoop
  PROVE  SelectInv'
<1>1. run' = run /\ run \in Projection /\ RunOwner \in Owners /\ UNCHANGED << store, git >>
  BY OwnerFacts
     DEF RunLoop, LoopFinish, LoopBlocked, LoopReturns, LoopAwaitPlan, LoopAwaitCommit, LoopCancel,
         LoopNode, LoopCandidates, LoopCalls, AwaitTasks, IInv, RunInv, KeepsOutside
<1>2. CASE LoopFinish \/ LoopBlocked
  BY <1>1, <1>2, SelectEnd DEF LoopFinish, LoopBlocked, LoopReturns
<1>3. ASSUME NEW kind, NEW t, LoopCalls(kind, t), Ready(t, run, store, git), UNCHANGED task
      PROVE  SelectInv'
  <2>1. todo' = [todo EXCEPT ![RunOwner] = t] /\ \A c \in Cands : task'[c] # "none" => Unselected(run)
    BY <1>3 DEF LoopCalls, SelectInv
  <2> QED BY <1>1, <1>3, <2>1, SelectAnew
<1>4. CASE LoopAwaitPlan \/ LoopAwaitCommit
  <2>1. \A status \in {"AwaitingPlanApproval", "AwaitingCommitApproval"} :
          SetRun(status) \in SteadyOp /\ Return(status) \in SteadyOp
    BY PlannedOps, CallKinds, SteadyOps DEF RunStatus, Outcome
  <2>2. \A status \in {"AwaitingPlanApproval", "AwaitingCommitApproval"} :
          << SetRun(status), Return(status) >> \in Seq(SteadyOp)
    BY <2>1, SeqFacts
  <2>3. \A status \in {"AwaitingPlanApproval", "AwaitingCommitApproval"} :
          Ready(<< SetRun(status), Return(status) >>, run, store, git)
    BY <2>2, ReadySteady
  <2> QED BY <1>3, <1>4, <2>3 DEF LoopAwaitPlan, LoopAwaitCommit
<1>5. CASE LoopCancel
  <2> DEFINE t == << CancelAll(NonTerminal(run)), Return("Cancelled") >>
  <2>1. LoopCalls("Cancel", t) /\ UNCHANGED task
    BY <1>5 DEF LoopCancel
  <2>a. NonTerminal(run) \in SUBSET Cands /\ "Cancelled" \in Outcome
    BY DEF NonTerminal, Outcome, RunStatus
  <2>2. CancelAll(NonTerminal(run)) \in SteadyOp /\ Return("Cancelled") \in SteadyOp
    BY <2>a, PlannedOps, CallKinds, SteadyOps
  <2>3. t \in Seq(SteadyOp)
    BY <2>2, SeqFacts
  <2> HIDE DEF t
  <2> QED BY <1>3, <2>1, <2>3, ReadySteady
<1>6. CASE LoopCandidates
  <2>1. ASSUME NEW c \in Cands, task'[c] # "none"
        PROVE  Unselected(run)
    <3>1. c \in NonTerminal(run)
      BY <1>6, <2>1 DEF LoopCandidates
    <3> QED BY <3>1 DEF AllCandidatesTerminal, SelectInv, Selected
  <2>2. todo' = [todo EXCEPT ![RunOwner] = << Await >>]
    BY <1>6 DEF LoopCandidates, LoopCalls
  <2> QED BY <1>1, <2>1, <2>2, ReadyCalls, SelectAnew
<1>7. CASE LoopNode
  <2> DEFINE node == NextRunStep(run).value
             target == DesiredRunStatus(run.status, node)
             x == Start(node)
             a == Only(target # None, SetRun(target))
             t == a \o << x >>
  <2>1. NextRunStep(run).kind = "RunNode" /\ LoopCalls("RunNode", t) /\ UNCHANGED task
    BY <1>7 DEF LoopNode, LoopCalls
  <2>2. node \in RunNodes
    BY <1>1, <2>1, NextRunStepType DEF RunStep
  <2>3. node \in Nodes
    BY <2>2, NodeNames
  <2>4. FitsNode(x, run)
    BY <1>1, <2>1, StepFits DEF SelectInv
  <2> HIDE DEF node
  <2>5. target # None => target \in RunStatus
    <3>1. RunStatusForNode[node] \in RunStatus
      BY <2>2, <2>3 DEF RunStatusForNode, RunStatus
    <3> QED BY <3>1 DEF DesiredRunStatus
  <2> HIDE DEF target
  <2>6. x \in PlannedOp /\ x.op = "Start" /\ (target # None => SetRun(target) \in SteadyOp)
    BY <2>3, <2>5, PlannedOps, CallKinds, SteadyOps
  <2> HIDE DEF x
  <2>7. Fits(x, run, store, git) /\ ~Commits(x, {"WinnerSelected"})
    BY <2>4, <2>6 DEF Fits, Commits
  <2>8. Ready(<< x >>, run, store, git)
    BY <2>6, <2>7, ReadyOne
  <2>9. a \in Seq(SteadyOp)
    BY <2>6, SeqFacts
  <2> HIDE DEF a
  <2>10. \A i \in DOMAIN a : ~Changes(a[i])
    <3>1. \A i \in DOMAIN a : a[i] \in SteadyOp
      BY <2>9
    <3> QED BY <3>1 DEF SteadyOp
  <2>11. Ready(a, run, store, git)
    BY <2>9, ReadySteady
  <2>12. Ready(t, run, store, git)
    BY <2>8, <2>10, <2>11, ReadyJoin DEF Agree
  <2> HIDE DEF t
  <2> QED BY <1>3, <2>1, <2>12
<1>8. CASE AwaitTasks
  <2> DEFINE p == Only(\E c \in Cands : task[c] = "failed", Fail)
  <2>a. At(RunOwner, "Await") /\ Continue(RunOwner, p) /\ \A c \in Cands : task'[c] = "none"
    BY <1>8 DEF AwaitTasks
  <2>1. todo[RunOwner] # << >> /\ todo[RunOwner][1].op # "Do"
    BY <1>1, <2>a, AtCall
  <2>2. p \in Seq(SteadyOp)
    BY PlannedOps, CallKinds, SteadyOps, SeqFacts
  <2> HIDE DEF p
  <2> QED BY <1>1, <2>a, <2>1, <2>2, SelectOn
<1> QED BY <1>2, <1>4, <1>5, <1>6, <1>7, <1>8 DEF RunLoop

LEMMA SelectCandidates ==
  ASSUME IInv, FlowInv, SelectInv, Candidates
  PROVE  SelectInv'
<1>1. PICK d \in Cands : AcquirePermit(d) \/ DriveCandidate(d)
  BY DEF Candidates
<1>2. run' = run /\ UNCHANGED << store, git >> /\ d \in Owners /\ d # RunOwner /\ task[d] # "none"
  BY <1>1, OwnerFacts DEF AcquirePermit, DriveCandidate, Cands, RunOwner, KeepsOutside, Runnable
<1>3. todo'[RunOwner] = todo[RunOwner]
  BY <1>1, <1>2, OwnerFacts DEF AcquirePermit, DriveCandidate, IInv
<1>4. \A c \in Cands : task'[c] # "none" => task[c] # "none"
  BY <1>1, <1>2 DEF AcquirePermit, DriveCandidate, IInv
<1> QED BY <1>2, <1>3, <1>4, SelectOther

(***************************************************************************)
(* The bodies of the nodes.                                                *)
(***************************************************************************)
\* What is known when the body of a node of the run ends.
LEMMA BodyFits ==
  ASSUME IInv, FlowInv, SelectInv, NEW node, AtBody(RunOwner, node)
  PROVE  /\ run \in Projection /\ Selected(run, store, git)
         /\ \A c \in Cands : task[c] = "none"
         /\ node = "FanOut" => Unselected(run)
         /\ node = "Join" => ~run.ranked /\ AllCandidatesTerminal(run)
         /\ node = "Integrate" => run.winner # NoCand /\ ~Integrated(run)
         /\ node = "FinalTest" => Integrated(run) /\ run.integration.tests # "Pass"
         /\ node = "FinalReview" => Integrated(run) /\ run.integration.review # "Pass"
         /\ node = "Commit" => Verified(run) /\ Allowed(run)
<1> DEFINE s == todo[RunOwner]
<1>1. At(RunOwner, "Body") /\ Call(RunOwner).node = node /\ RunOwner \in Owners
  BY OwnerFacts DEF AtBody
<1>2. s[1].op = "Body" /\ Call(RunOwner) = s[1] /\ 1 \in DOMAIN s
  BY <1>1, AtCall
<1>3. Fits(s[1], run, store, git)
  BY <1>2, FitSeqs DEF SelectInv, Ready
<1>4. \A n : For(s[1], n) = (node = n)
  BY <1>1, <1>2 DEF For, Begins, Commits
<1>5. FitsNode(s[1], run)
  BY <1>3 DEF Fits
<1> HIDE DEF s
<1>6. /\ node = "FanOut" => Unselected(run)
      /\ node = "Join" => ~run.ranked /\ AllCandidatesTerminal(run)
      /\ node = "Integrate" => run.winner # NoCand /\ ~Integrated(run)
      /\ node = "FinalTest" => Integrated(run) /\ run.integration.tests # "Pass"
      /\ node = "FinalReview" => Integrated(run) /\ run.integration.review # "Pass"
      /\ node = "Commit" => Verified(run) /\ Allowed(run)
  BY <1>4, <1>5 DEF FitsNode
<1>7. \A c \in Cands : task[c] = "none"
  BY <1>1, TasksAlone
<1> QED BY <1>6, <1>7 DEF IInv, RunInv, SelectInv

\* The calls of the body come first; the verdict and the state patch that follow them
\* neither change the selection nor depend on it.
LEMMA BodyCallsFirst ==
  ASSUME IInv, FlowInv, At(RunOwner, "Body"), NEW out \in PlannedOutput, Produce(RunOwner, out)
  PROVE  \E r \in Seq(SteadyOp) :
           out.calls \o r \in Seq(PlannedOp) /\ todo'[RunOwner] = out.calls \o r
<1> DEFINE o == RunOwner
           s == todo[o]
           node == Call(o).node
           number == Call(o).number
           after == AfterRetryDecision(o, node, number, out)
           e == NodeClosed(o, node, number, after.status, after.next, after.why)
           patch == PatchCalls(o, node, after)
           last == Only(after.status \notin {"Succeeded", "Failed"}, Return("Blocked"))
           r == IF ~ValidResult(node, after.next) THEN << Fail >>
                ELSE << Do(e) >> \o patch \o last
<1>0. o \in Owners
  BY OwnerFacts
<1>1. /\ s \in Seq(PlannedOp) /\ s # << >> /\ Call(o) = s[1] /\ s[1].op = "Body" /\ s[1] \in PlannedOp
      /\ SoundCall(o, run.attempts[o], s, 1)
  BY <1>0, AtCall
<1>2. node \in Nodes /\ number \in Nat
  BY <1>1, OpFields
<1>3. Tail(s) = << >>
  BY <1>1, LastCall DEF LastOps
<1>4. todo' = [todo EXCEPT ![o] = (after.calls \o r) \o Tail(s)]
  BY DEF Produce, Continue, FinaliseCalls
<1>5. after \in PlannedOutput
  BY <1>0, <1>2, RetryOutput
<1>6. after.calls = out.calls
  <2> HIDE DEF node, number
  <2>1. out \in Output
    BY DEF PlannedOutput
  <2> QED BY <2>1 DEF AfterRetryDecision, Output
<1> HIDE DEF node, number, after
<1>7. /\ after.status \in AttemptStatus \ {"Started"} /\ after.next \in Nodes \cup {None}
      /\ after.why \in Fingerprints \cup {0}
  BY <1>5 DEF PlannedOutput, Output, AttemptStatus
<1>8. e \in PlannedEvent /\ e.kind = "NodeClosed"
  BY <1>0, <1>2, <1>7, PlannedEvents DEF NodeClosed
<1>9. patch \in Seq(SteadyOp)
  <2>1. patch \in Seq(PatchOp)
    BY <1>0, <1>2, <1>5, PatchOps
  <2>2. \A x \in PatchOp : x \in SteadyOp
    BY SteadyOps DEF PatchOp
  <2> HIDE DEF patch
  <2> QED BY <2>1, <2>2
<1> HIDE DEF e, patch
<1>10. last \in Seq(SteadyOp) /\ << Fail >> \in Seq(SteadyOp) /\ << Do(e) >> \in Seq(SteadyOp)
  <2>1. Return("Blocked") \in SteadyOp /\ Fail \in SteadyOp
    BY PlannedOps, CallKinds, SteadyOps DEF Outcome
  <2>2. Do(e) \in SteadyOp
    BY <1>8, SteadyOps DEF SelectKinds, PlanKinds
  <2> QED BY <2>1, <2>2, SeqFacts
<1> HIDE DEF last
<1>11. r \in Seq(SteadyOp)
  BY <1>9, <1>10, SeqFacts
<1> HIDE DEF r
<1> DEFINE t == out.calls \o r
<1>12. t \in Seq(PlannedOp)
  <2>1. \A x \in SteadyOp : x \in PlannedOp
    BY DEF SteadyOp
  <2>2. r \in Seq(PlannedOp) /\ out.calls \in Seq(PlannedOp)
    BY <1>11, <2>1 DEF PlannedOutput
  <2> QED BY <2>2
<1> HIDE DEF t
<1>13. todo'[o] = t
  <2>1. t \o << >> = t
    BY <1>12, ConcatEmptySeq
  <2>2. todo' = [todo EXCEPT ![o] = t]
    BY <1>3, <1>4, <1>6, <2>1 DEF t
  <2> QED BY <1>0, <2>2 DEF IInv
<1> QED BY <1>11, <1>12, <1>13 DEF t

LEMMA SelectBody ==
  ASSUME IInv, FlowInv, SelectInv, At(RunOwner, "Body"), KeepsEngine, NEW out \in PlannedOutput,
         Produce(RunOwner, out), Selected(run, store', git'), Ready(out.calls, run, store', git')
  PROVE  SelectInv'
<1>1. PICK r \in Seq(SteadyOp) : todo'[RunOwner] = out.calls \o r
  BY BodyCallsFirst
<1>2. \A i \in DOMAIN r : ~Depends(r[i])
  <2>1. \A i \in DOMAIN r : r[i] \in SteadyOp
    OBVIOUS
  <2> QED BY <2>1 DEF SteadyOp
<1>3. Ready(out.calls \o r, run, store', git')
  <2>1. Ready(r, run, store', git')
    BY ReadySteady
  <2> QED BY <1>2, <2>1, ReadyJoin DEF Agree
<1>4. run' = run /\ \A c \in Cands : task'[c] = "none"
  BY TasksAlone DEF KeepsEngine
<1> QED BY <1>1, <1>3, <1>4 DEF SelectInv

\* A body whose calls depend on nothing that has been selected, and that leaves the files alone.
LEMMA SelectSteadyBody ==
  ASSUME IInv, FlowInv, SelectInv, At(RunOwner, "Body"), KeepsEngine, SameFiles(store, store'),
         SameTree(git, git'), NEW out \in PlannedOutput, Produce(RunOwner, out),
         out.calls = << >> \/ \E x \in PlannedOp : ~Depends(x) /\ out.calls = << x >>
  PROVE  SelectInv'
<1>1. run \in Projection /\ SameSelection(run, run)
  BY DEF IInv, RunInv, SameSelection
<1>2. Selected(run, store', git')
  BY <1>1, KeepsSelected DEF SelectInv
<1>3. ASSUME NEW x \in PlannedOp, ~Depends(x)
      PROVE  Ready(<< x >>, run, store', git')
  <2>1. Fits(x, run, store', git')
    BY <1>3, FitsSteady DEF FitOp
  <2>2. ~Commits(x, {"WinnerSelected"})
    BY <1>3 DEF Depends, Commits, SelectKinds
  <2> QED BY <2>1, <2>2, ReadyOne
<1>4. Ready(out.calls, run, store', git')
  BY <1>3, ReadyCalls
<1> QED BY <1>2, <1>4, SelectBody

LEMMA IndependentOps ==
  \A e \in PlannedEvent : e.kind \notin SelectKinds \cup {"NodeStarted"} =>
    Do(e) \in PlannedOp /\ ~Depends(Do(e))
  BY PlannedOps, CallKinds DEF Depends, Commits, For, Begins

\* While candidates work nothing has been selected, whatever they write.
LEMMA SelectWorks ==
  ASSUME IInv, FlowInv, SelectInv, NEW c \in Cands, task[c] = "running", KeepsEngine,
         git'.branch = git.branch, todo'[RunOwner] = todo[RunOwner]
  PROVE  SelectInv'
<1>1. Unselected(run) /\ todo[RunOwner] = << Await >>
  BY DEF SelectInv, FlowInv, TaskInv
<1>2. Selected(run, store', git')
  BY <1>1, UnselectedAnyway DEF SelectInv
<1>3. Ready(todo'[RunOwner], run, store', git')
  BY <1>1, ReadyCalls
<1> QED BY <1>1, <1>2, <1>3 DEF SelectInv, KeepsEngine

LEMMA SelectEdit ==
  ASSUME IInv, FlowInv, SelectInv, NEW o \in Owners, EditWorktree(o)
  PROVE  SelectInv'
<1>1. At(o, "Edit") /\ KeepsEngine /\ UNCHANGED store /\ Continue(o, << >>)
  BY DEF EditWorktree
<1>2. CASE o # RunOwner
  <2>1. o \in Cands /\ task[o] = "running"
    BY <1>1, <1>2, OwnerFacts DEF At, Runnable
  <2>2. git'.branch = git.branch
    BY <1>2 DEF EditWorktree, IInv, Git
  <2>3. todo'[RunOwner] = todo[RunOwner]
    BY <1>1, <1>2, OwnerFacts DEF Continue, IInv
  <2> QED BY <1>1, <2>1, <2>2, <2>3, SelectWorks
<1>3. CASE o = RunOwner
  <2> DEFINE s == todo[RunOwner]
             x == s[1]
  <2>1. s \in Seq(PlannedOp) /\ s # << >> /\ x.op = "Edit" /\ 1 \in DOMAIN s
    BY <1>1, <1>3, AtCall
  <2>2. Ready(s, run, store, git) /\ Selected(run, store, git)
    BY DEF SelectInv
  <2>3. FitsNode(x, run)
    BY <2>1, <2>2, FitSeqs DEF Ready, Fits
  <2>4. ~Integrated(run)
    <3>1. For(x, "Integrate")
      BY <2>1, <2>3 DEF FitsNode, For
    <3> HIDE DEF x
    <3> QED BY <2>3, <3>1 DEF FitsNode
  <2>5. git'.branch = git.branch
    BY <1>3 DEF EditWorktree, IInv, Git
  <2>6. Selected(run, store, git')
    <3>1. git.branch = << >>
      BY <2>2, <2>4 DEF Selected, Verified
    <3> QED BY <2>2, <2>4, <2>5, <3>1 DEF Selected
  <2> HIDE DEF x
  <2>7. ASSUME NEW y \in PlannedOp, Fits(y, run, store, git), Agree(x, y)
        PROVE  Fits(y, run, store, git')
    <3>1. CASE y.op = "Body"
      BY <2>7, <3>1 DEF Fits
    <3>2. CASE y.op # "Body"
      <4>1. ~Depends(y)
        BY <2>1, <2>7, <3>2 DEF Agree, Changes, Registers, Ranks, Commits
      <4> QED BY <4>1, FitsSteady DEF FitOp
    <3> QED BY <3>1, <3>2
  <2>8. run.ranked \/ Ranks(x) => run.ranked
    BY <2>1 DEF Ranks, Commits
  <2>9. Ready(Tail(s), run, store, git')
    BY <2>1, <2>2, <2>7, <2>8, ReadyTail DEF x
  <2>10. todo'[RunOwner] = Tail(s)
    <3>1. << >> \o Tail(s) = Tail(s)
      <4>1. Tail(s) \in Seq(PlannedOp)
        BY <2>1, TailFacts
      <4> QED BY <4>1, ConcatEmptySeq
    <3>2. todo' = [todo EXCEPT ![RunOwner] = << >> \o Tail(todo[RunOwner])]
      BY <1>1, <1>3 DEF Continue
    <3> QED BY <1>3, <3>1, <3>2 DEF IInv
  <2> HIDE DEF s
  <2> QED BY <1>1, <2>6, <2>9, <2>10 DEF SelectInv, KeepsEngine
<1> QED BY <1>2, <1>3

\* A gate that writes into the integration worktree is no final gate that has passed, and
\* what it leaves builds on whatever the worktree built on before.
LEMMA SelectWritten ==
  ASSUME IInv, FlowInv, SelectInv, NEW o \in Owners, GateWrites(o)
  PROVE  SelectInv'
<1>1. At(o, "Body") /\ KeepsEngine /\ UNCHANGED << store, todo >> /\ Call(o).node \in GateNodes
  BY DEF GateWrites
<1>2. CASE o # RunOwner
  <2>1. o \in Cands /\ task[o] = "running"
    BY <1>1, <1>2, OwnerFacts DEF At, Runnable
  <2>2. git'.branch = git.branch
    BY <1>2 DEF GateWrites, IInv, Git
  <2> QED BY <1>1, <2>1, <2>2, SelectWorks
<1>3. CASE o = RunOwner
  <2>1. Selected(run, store, git) /\ Ready(todo[RunOwner], run, store, git) /\ run \in Projection
    BY DEF SelectInv, IInv, RunInv
  <2>2. git.branch = << >>
    <3>1. Call(RunOwner).node \in RunNodes
      BY <1>1, <1>3, RunBody
    <3>2. Call(RunOwner).node \in {"FinalTest", "FinalReview"}
      BY <1>1, <1>3, <3>1 DEF RunNodes, GateNodes
    <3>3. ~Verified(run)
      BY <1>1, <1>3, <3>2, BodyFits DEF AtBody, Verified
    <3> QED BY <2>1, <3>3 DEF Selected
  <2>3. git'.branch = git.branch /\ git'.tree = [git.tree EXCEPT !.wrote = @ + 1]
    BY <1>3 DEF GateWrites, IInv, Git, Content
  <2>4. ASSUME NEW content \in Content, BuildsOn(git.tree, content)
        PROVE  BuildsOn(git'.tree, content)
    BY <2>3, <2>4, BuildsOnWritten DEF IInv, Git
  <2>5. /\ AfterTests(store, git) => AfterTests(store, git')
        /\ AfterReview(store, git) => AfterReview(store, git')
        /\ run.winner # NoCand /\ BuildsOn(git.tree, store.diff[run.winner])
             => BuildsOn(git'.tree, store.diff[run.winner])
    <3>1. run.winner # NoCand => store.diff[run.winner] \in Content
      BY <2>1, WinnerType DEF IInv, Store
    <3>2. store.tests[RunOwner].of \in Content /\ store.review[RunOwner].of \in Content
      BY OwnerFacts DEF IInv, Store, Evidence
    <3> QED BY <2>4, <3>1, <3>2 DEF AfterTests, AfterReview
  <2>6. Selected(run, store, git')
    BY <2>1, <2>2, <2>3, <2>5 DEF Selected, Integrated
  <2>7. ASSUME NEW x \in PlannedOp, Fits(x, run, store, git)
        PROVE  Fits(x, run, store, git')
    BY <2>3, <2>5, <2>7 DEF Fits, FitsEvent
  <2>8. Ready(todo[RunOwner], run, store, git')
    BY <2>1, <2>7, ReadyKept
  <2> QED BY <1>1, <2>6, <2>8 DEF SelectInv, KeepsEngine
<1> QED BY <1>2, <1>3

LEMMA SelectCandidateBody ==
  ASSUME IInv, FlowInv, SelectInv, NEW c \in Cands, NEW ok \in BOOLEAN, NEW why \in Fingerprints,
         \/ ImplementNode(c, ok, why) \/ TestNode(c, ok, why) \/ ReviewNode(c, ok, why)
         \/ RepairNode(c, ok, why) \/ RepairExhausted(c, why)
  PROVE  SelectInv'
<1>1. At(c, "Body") /\ KeepsEngine /\ UNCHANGED git /\ \E calls : Continue(c, calls)
  BY DEF ImplementNode, TestNode, ReviewNode, RepairNode, RepairExhausted, AtBody, Produce
<1>2. c # RunOwner /\ task[c] = "running"
  BY <1>1, OwnerFacts DEF At, Runnable, Cands, RunOwner
<1>3. todo'[RunOwner] = todo[RunOwner]
  BY <1>1, <1>2, OwnerFacts DEF Continue, IInv
<1> QED BY <1>1, <1>2, <1>3, SelectWorks

LEMMA SelectError ==
  ASSUME IInv, FlowInv, SelectInv, NEW o \in Owners, NEW class \in Faults, NodeError(o, class)
  PROVE  SelectInv'
<1>1. PICK why \in Fingerprints : Produce(o, Failed(class, why, << >>))
  BY DEF NodeError
<1>2. At(o, "Body") /\ KeepsEngine /\ UNCHANGED << store, git >>
  BY DEF NodeError
<1>3. CASE o = RunOwner
  <2>1. Failed(class, why, << >>) \in PlannedOutput /\ Failed(class, why, << >>).calls = << >>
    BY EngineAssumption, NoCalls, OutputTypes DEF Failed
  <2> QED BY <1>1, <1>2, <1>3, <2>1, SelectSteadyBody DEF SameFiles, SameTree
<1>4. CASE o # RunOwner
  <2>1. o \in Cands /\ task[o] = "running"
    BY <1>2, <1>4, OwnerFacts DEF At, Runnable
  <2>2. todo'[RunOwner] = todo[RunOwner]
    BY <1>1, <1>4, OwnerFacts DEF Produce, Continue, IInv
  <2> QED BY <1>2, <2>1, <2>2, SelectWorks
<1> QED BY <1>3, <1>4

LEMMA SelectSetup ==
  ASSUME IInv, FlowInv, SelectInv, PrepareNode \/ \E hash \in Hashes : PlanNode(hash)
  PROVE  SelectInv'
<1>1. CASE PrepareNode
  <2> DEFINE x == Do(BaselineResolved)
             out == Succeeded("Plan", << x >>)
  <2>1. x \in PlannedOp /\ ~Depends(x)
    BY PlannedEvents, IndependentOps DEF BaselineResolved, SelectKinds
  <2>2. /\ Produce(RunOwner, out) /\ At(RunOwner, "Body") /\ KeepsEngine /\ UNCHANGED << store, git >>
    BY <1>1 DEF PrepareNode, AtBody
  <2> HIDE DEF x
  <2>3. out \in PlannedOutput /\ out.calls = << x >>
    BY <2>1, OneCall, NodeNames, OutputTypes DEF Succeeded
  <2> HIDE DEF out
  <2> QED BY <2>1, <2>2, <2>3, SelectSteadyBody DEF SameFiles, SameTree
<1>2. ASSUME NEW hash \in Hashes, PlanNode(hash)
      PROVE  SelectInv'
  <2> DEFINE e == PlanVersionWritten(NextVersionNumber(run), hash)
             x == Do(e)
             out == Succeeded("Approval", << x >>)
  <2>1. e \in PlannedEvent /\ e.kind = "PlanVersionWritten"
    BY VersionType, PlannedEvents DEF IInv, RunInv, PlanVersionWritten
  <2>2. Produce(RunOwner, out) /\ At(RunOwner, "Body") /\ KeepsEngine /\ UNCHANGED git
    BY <1>2 DEF PlanNode, AtBody
  <2>3. SameFiles(store, store')
    BY <1>2 DEF PlanNode, SameFiles, IInv, Store
  <2> HIDE DEF e
  <2>4. x \in PlannedOp /\ ~Depends(x)
    BY <2>1, IndependentOps DEF SelectKinds
  <2> HIDE DEF x
  <2>5. out \in PlannedOutput /\ out.calls = << x >>
    BY <2>4, OneCall, NodeNames, OutputTypes DEF Succeeded
  <2> HIDE DEF out
  <2> QED BY <2>2, <2>3, <2>4, <2>5, SelectSteadyBody DEF SameTree
<1> QED BY <1>1, <1>2

LEMMA FanOutReady ==
  ASSUME NEW p, NEW st, NEW g, Unselected(p)
  PROVE  FanOutCalls \in Seq(PlannedOp) /\ Ready(FanOutCalls, p, st, g)
<1> DEFINE s == FanOutCalls
           K == {"CandidateRegistered", "CandidateStatusChanged"}
<1>1. ASSUME NEW i \in 1..(2 * NumCandidates)
      PROVE  s[i] \in PlannedOp /\ Commits(s[i], K)
  <2>1. CASE i % 2 = 1
    <3>1. (i + 1) \div 2 \in Cands
      BY <2>1, ConstantsAssumption DEF Cands
    <3>2. ASSUME NEW c \in Cands
          PROVE  Do(CandidateRegistered(c)) \in PlannedOp /\ Commits(Do(CandidateRegistered(c)), K)
      <4> DEFINE e == CandidateRegistered(c)
      <4>1. e \in PlannedEvent /\ e.kind = "CandidateRegistered"
        BY PlannedEvents DEF CandidateRegistered
      <4> HIDE DEF e
      <4>2. Do(e) \in PlannedOp /\ Commits(Do(e), K)
        BY <4>1, PlannedOps, CallKinds DEF Commits
      <4> QED BY <4>2 DEF e
    <3> QED BY <2>1, <3>1, <3>2 DEF FanOutCalls
  <2>2. CASE i % 2 # 1
    <3>1. i \div 2 \in Cands
      BY <2>2, ConstantsAssumption DEF Cands
    <3>3. ASSUME NEW c \in Cands
          PROVE  /\ Do(CandidateStatusChanged(c, "Pending", "Preparing")) \in PlannedOp
                 /\ Commits(Do(CandidateStatusChanged(c, "Pending", "Preparing")), K)
      <4> DEFINE e == CandidateStatusChanged(c, "Pending", "Preparing")
      <4>1. e \in PlannedEvent /\ e.kind = "CandidateStatusChanged"
        BY PlannedEvents DEF CandidateStatus, CandidateStatusChanged
      <4> HIDE DEF e
      <4>2. Do(e) \in PlannedOp /\ Commits(Do(e), K)
        BY <4>1, PlannedOps, CallKinds DEF Commits
      <4> QED BY <4>2 DEF e
    <3> QED BY <2>2, <3>1, <3>3 DEF FanOutCalls
  <2> QED BY <2>1, <2>2
<1>2. s \in Seq(PlannedOp) /\ DOMAIN s = 1..(2 * NumCandidates)
  <2>1. 2 * NumCandidates \in Nat
    BY ConstantsAssumption
  <2>2. s \in [1..(2 * NumCandidates) -> PlannedOp]
    BY <1>1 DEF FanOutCalls
  <2> QED BY <2>1, <2>2
<1> HIDE DEF s
<1>3. \A i \in DOMAIN s : Fits(s[i], p, st, g)
  BY <1>1, <1>2 DEF Fits, FitsNode, FitsEvent, For, Begins, Commits
<1>4. Agreeing(s)
  <2>1. \A i, j \in DOMAIN s : Agree(s[i], s[j])
    BY <1>1, <1>2 DEF Agree, Changes, Depends, Registers, SelectKinds, PlanKinds, For, Begins, Commits
  <2> QED BY <2>1 DEF Agreeing
<1>5. RanksFirst(s, p)
  BY <1>1, <1>2 DEF RanksFirst, Commits
<1>6. Ready(s, p, st, g)
  BY <1>2, <1>3, <1>4, <1>5, ReadyWhen
<1> QED BY <1>2, <1>6 DEF s

LEMMA SelectFanOut ==
  ASSUME IInv, FlowInv, SelectInv, FanOutNode
  PROVE  SelectInv'
<1>1. AtBody(RunOwner, "FanOut") /\ At(RunOwner, "Body") /\ KeepsEngine /\ UNCHANGED << store, git >>
  BY DEF FanOutNode, AtBody
<1>2. Unselected(run) /\ Selected(run, store, git)
  BY <1>1, BodyFits
<1>3. CASE run.baseline
  <2> DEFINE out == Succeeded("Implement", FanOutCalls)
  <2>1. FanOutCalls \in Seq(PlannedOp) /\ Ready(FanOutCalls, run, store, git)
    BY <1>2, FanOutReady
  <2>2. out \in PlannedOutput /\ out.calls = FanOutCalls /\ Produce(RunOwner, out)
    BY <1>3, <2>1, NodeNames, OutputTypes DEF Succeeded, FanOutNode
  <2> HIDE DEF out
  <2> QED BY <1>1, <1>2, <2>1, <2>2, SelectBody
<1>4. CASE ~run.baseline
  <2> DEFINE out == Failed("InternalInvariant", 1, << >>)
  <2>1. out \in PlannedOutput /\ out.calls = << >> /\ Produce(RunOwner, out)
    BY <1>4, NoCalls, OwnerFacts, OutputTypes DEF Failed, FailureClass, FanOutNode
  <2> HIDE DEF out
  <2> QED BY <1>1, <2>1, SelectSteadyBody DEF SameFiles, SameTree
<1> QED BY <1>3, <1>4

\* The exclusions, the ranking and the winner, in this order.
LEMMA RankingReady ==
  ASSUME NEW p, NEW st, NEW g, NEW x \in SteadyOp, NEW y \in PlannedOp, NEW z \in PlannedOp,
         Ranks(y), Commits(z, {"WinnerSelected"}), Fits(y, p, st, g), Fits(z, p, st, g)
  PROVE  Ready(<< x, y, z >>, p, st, g)
<1> DEFINE s == << x, y, z >>
<1>1. x \in PlannedOp /\ ~Changes(x) /\ ~Depends(x) /\ Fits(x, p, st, g)
  BY FitsSteady DEF SteadyOp, FitOp
<1>2. s \in Seq(PlannedOp) /\ DOMAIN s = {1, 2, 3} /\ s[1] = x /\ s[2] = y /\ s[3] = z
  BY <1>1
<1> HIDE DEF s
<1>3. \A i \in DOMAIN s : Fits(s[i], p, st, g)
  BY <1>1, <1>2
<1>4. Agreeing(s)
  <2>1. Agree(x, y) /\ Agree(x, z) /\ Agree(y, z)
    BY <1>1 DEF Agree
  <2> QED BY <1>2, <2>1 DEF Agreeing
<1>5. RanksFirst(s, p)
  <2>1. ~Commits(x, {"WinnerSelected"}) /\ ~Commits(y, {"WinnerSelected"})
    BY <1>1 DEF Depends, Ranks, Commits, SelectKinds
  <2> QED BY <1>2, <2>1 DEF RanksFirst
<1>6. Ready(s, p, st, g)
  BY <1>2, <1>3, <1>4, <1>5, ReadyWhen
<1> QED BY <1>6 DEF s

LEMMA SelectJoin ==
  ASSUME IInv, FlowInv, SelectInv, NEW eligible \in SUBSET Cands, JoinNode(eligible)
  PROVE  SelectInv'
<1> DEFINE excluded == {c \in Cands : Registered(run, c)} \ eligible
           x == ExcludeAll(excluded)
           y(r) == Do(RankingComputed(r))
           z(r) == Do(WinnerSelected(r[1]))
           none(r) == [Succeeded(None, << x, y(r) >>) EXCEPT !.run = "Exhausted"]
           some(r) == Succeeded("Integrate", << x, y(r) >> \o << z(r) >>)
<1>1. PICK r \in Orders(eligible) : Produce(RunOwner, IF eligible = {} THEN none(r) ELSE some(r))
  BY DEF JoinNode
<1>2. AtBody(RunOwner, "Join") /\ At(RunOwner, "Body") /\ KeepsEngine /\ UNCHANGED << store, git >>
  BY DEF JoinNode, AtBody
<1>3. ~run.ranked /\ AllCandidatesTerminal(run) /\ Selected(run, store, git)
  BY <1>2, BodyFits
<1>4. Unselected(run)
  BY <1>3 DEF Selected
<1>5. r \in Seq(Cands) /\ (eligible # {} => r[1] \in Cands)
  BY OrdersType
<1>6. x \in SteadyOp
  BY PlannedOps, CallKinds, SteadyOps
<1> HIDE DEF x
<1>7. y(r) \in PlannedOp /\ Ranks(y(r)) /\ Fits(y(r), run, store, git)
  <2>1. RankingComputed(r) \in PlannedEvent /\ RankingComputed(r).kind = "RankingComputed"
    BY <1>5, PlannedEvents DEF RankingComputed
  <2> HIDE DEF y
  <2>2. y(r) \in PlannedOp /\ y(r).op = "Do" /\ y(r).event.kind = "RankingComputed"
    BY <2>1, PlannedOps, CallKinds DEF y
  <2> QED BY <1>3, <2>2 DEF Ranks, Fits, FitsNode, FitsEvent, For, Begins, Commits
<1>8. eligible # {} =>
        z(r) \in PlannedOp /\ Commits(z(r), {"WinnerSelected"}) /\ Fits(z(r), run, store, git)
  <2> SUFFICES ASSUME eligible # {}
               PROVE  z(r) \in PlannedOp /\ Commits(z(r), {"WinnerSelected"}) /\ Fits(z(r), run, store, git)
    OBVIOUS
  <2> DEFINE c == r[1]
  <2>1. c \in Cands
    BY <1>5
  <2> HIDE DEF c
  <2> DEFINE w == Do(WinnerSelected(c))
  <2>2. WinnerSelected(c) \in PlannedEvent /\ WinnerSelected(c).kind = "WinnerSelected" /\ WinnerSelected(c).cand = c
    BY <2>1, PlannedEvents DEF WinnerSelected
  <2>3. /\ w \in PlannedOp /\ w.op = "Do"
        /\ w.event.kind = "WinnerSelected" /\ w.event.cand = c
    BY <2>2, PlannedOps, CallKinds
  <2> HIDE DEF w
  <2>4. Commits(w, {"WinnerSelected"}) /\ Fits(w, run, store, git)
    BY <1>3, <1>4, <2>1, <2>3 DEF Unselected, Fits, FitsNode, FitsEvent, For, Begins, Commits
  <2> QED BY <2>3, <2>4 DEF w, c
<1> HIDE DEF y, z
<1>9. CASE eligible = {}
  <2> DEFINE calls == << x, y(r) >>
             out == [Succeeded(None, calls) EXCEPT !.run = "Exhausted"]
  <2>1. Ready(calls, run, store, git)
    <3>1. << x >> \in Seq(SteadyOp)
      BY <1>6, SeqFacts
    <3>2. Ready(<< x >>, run, store, git)
      BY <3>1, ReadySteady
    <3>3. Ready(<< y(r) >>, run, store, git)
      BY <1>7, ReadyOne DEF Ranks, Commits
    <3>4. ~Changes(x) /\ \A i \in DOMAIN << x >> : << x >>[i] = x
      BY <1>6 DEF SteadyOp
    <3>5. Ready(<< x >> \o << y(r) >>, run, store, git)
      BY <3>2, <3>3, <3>4, ReadyJoin DEF Agree
    <3> QED BY <3>5, Fronts
  <2>2. calls \in Seq(PlannedOp)
    BY <2>1, FitSeqs DEF Ready
  <2>3. Produce(RunOwner, out)
    BY <1>1, <1>9
  <2> HIDE DEF calls
  <2>4. out \in PlannedOutput /\ out.calls = calls
    <3>1. Succeeded(None, calls) \in PlannedOutput
      BY <2>2, OutputTypes
    <3>2. out \in PlannedOutput
      BY <3>1, OutputStatuses DEF RunStatus
    <3> QED BY <3>2 DEF Succeeded
  <2> HIDE DEF out
  <2> QED BY <1>2, <1>3, <2>1, <2>3, <2>4, SelectBody
<1>10. CASE eligible # {}
  <2> DEFINE calls == << x, y(r), z(r) >>
             out == Succeeded("Integrate", calls)
  <2>1. Ready(calls, run, store, git)
    BY <1>6, <1>7, <1>8, <1>10, RankingReady
  <2>2. calls \in Seq(PlannedOp)
    BY <2>1, FitSeqs DEF Ready
  <2>3. << x, y(r) >> \o << z(r) >> = calls
    BY FrontTwo
  <2>4. Produce(RunOwner, out)
    BY <1>1, <1>10, <2>3
  <2> HIDE DEF calls
  <2>5. out \in PlannedOutput /\ out.calls = calls
    BY <2>2, NodeNames, OutputTypes DEF Succeeded
  <2> HIDE DEF out
  <2> QED BY <1>2, <1>3, <2>1, <2>4, <2>5, SelectBody
<1> QED BY <1>9, <1>10

(***************************************************************************)
(* Integration, the final gates and the commit.                            *)
(***************************************************************************)
\* The candidate that is promoted has not been tried before.
LEMMA PromotableFresh ==
  ASSUME run \in Projection, NEW failed, NEW next \in NextPromotable(failed), next # NoCand
  PROVE  next \in Cands /\ next # failed /\ ~run.cands[next].attempted
<1>1. next \in Cands
  BY NextPromotableType
<1> QED BY <1>1 DEF NextPromotable

\* The evidence against the winner, then its exclusion and the promotion.
LEMMA PromotionReady ==
  ASSUME run \in Projection, NEW winner \in Cands, winner = run.winner,
         NEW next \in NextPromotable(winner), NEW st, NEW g, g.branch = << >>,
         NEW x \in PlannedOp, Fits(x, run, st, g),
         Commits(x, {"IntegrationAttempted", "FinalTestEvidence", "FinalReviewEvidence"})
  PROVE  /\ Promotion(winner, next, << x >>) \in PlannedOutput
         /\ Ready(Promotion(winner, next, << x >>).calls, run, st, g)
<1> DEFINE y == Do(CandidateExcluded(winner))
           z == Do(CandidatePromotionRequested(winner, next))
           calls == << x, y, z >>
<1>1. next \in Cands \cup {NoCand} /\ winner # NoCand
  BY NextPromotableType, OwnerFacts DEF Cands, NoCand
<1>2. y \in SteadyOp
  <2>1. CandidateExcluded(winner) \in PlannedEvent /\ CandidateExcluded(winner).kind = "CandidateExcluded"
    BY PlannedEvents DEF CandidateExcluded
  <2> QED BY <2>1, SteadyOps DEF SelectKinds, PlanKinds
<1>3. z \in PlannedOp /\ Fits(z, run, st, g) /\ Commits(z, {"CandidatePromotionRequested"})
  <2> DEFINE e == CandidatePromotionRequested(winner, next)
  <2>1. /\ e \in PlannedEvent /\ e.kind = "CandidatePromotionRequested"
        /\ e.previous = winner /\ e.next = next
    BY <1>1, PlannedEvents DEF CandidatePromotionRequested
  <2> HIDE DEF e
  <2>2. z \in PlannedOp /\ z.op = "Do" /\ z.event = e
    BY <2>1, PlannedOps, CallKinds DEF e
  <2> HIDE DEF z
  <2>3. next # NoCand => ~run.cands[next].attempted /\ next # run.winner
    BY PromotableFresh
  <2>4. FitsEvent(e, run, st, g)
    BY <1>1, <2>1, <2>3 DEF FitsEvent
  <2> QED BY <2>1, <2>2, <2>4 DEF Fits, FitsNode, For, Begins, Commits
<1>4. Promotion(winner, next, << x >>).calls = << x >> \o << y, z >>
  <2> DEFINE all == << x >> \o << y, z >>
  <2> HIDE DEF all
  <2>1. Succeeded(None, all).calls = all /\ Succeeded("Integrate", all).calls = all
        /\ [Succeeded(None, all) EXCEPT !.run = "Exhausted"].calls = all
    BY DEF Succeeded
  <2> QED BY <2>1 DEF Promotion, all
<1> HIDE DEF y, z
<1>5. << x >> \o << y, z >> = calls
  BY FrontOne
<1>6. Ready(calls, run, st, g)
  <2>1. y \in PlannedOp /\ ~Changes(y) /\ ~Depends(y) /\ Fits(y, run, st, g)
    BY <1>2, FitsSteady DEF SteadyOp, FitOp
  <2>2. calls \in Seq(PlannedOp) /\ DOMAIN calls = {1, 2, 3} /\ calls[1] = x /\ calls[2] = y /\ calls[3] = z
    BY <1>3, <2>1
  <2>3. Agree(x, y) /\ Agree(x, z) /\ Agree(y, z)
    BY <1>3, <2>1 DEF Agree
  <2>4. /\ ~Commits(x, {"WinnerSelected"}) /\ ~Commits(y, {"WinnerSelected"})
        /\ ~Commits(z, {"WinnerSelected"})
    BY <1>3, <2>1 DEF Depends, Commits, SelectKinds
  <2> HIDE DEF calls
  <2>5. \A i \in DOMAIN calls : Fits(calls[i], run, st, g)
    BY <1>3, <2>1, <2>2
  <2>6. Agreeing(calls)
    BY <2>2, <2>3 DEF Agreeing
  <2>7. RanksFirst(calls, run)
    BY <2>2, <2>4 DEF RanksFirst
  <2> QED BY <2>2, <2>5, <2>6, <2>7, ReadyWhen
<1>7. Promotion(winner, next, << x >>) \in PlannedOutput
  <2>1. << x >> \in Seq(PlannedOp)
    BY OneCall
  <2> QED BY <1>1, <2>1, PromotionType
<1> QED BY <1>4, <1>5, <1>6, <1>7

LEMMA SelectIntegrate ==
  ASSUME IInv, FlowInv, SelectInv, NEW applies \in BOOLEAN, IntegrateNode(applies)
  PROVE  SelectInv'
<1> DEFINE w == run.winner
           e == IntegrationAttempted(w, applies)
           x == Do(e)
           good == Succeeded("FinalTest", << x >>)
<1>1. AtBody(RunOwner, "Integrate") /\ At(RunOwner, "Body") /\ KeepsEngine /\ UNCHANGED store
  BY DEF IntegrateNode, AtBody
<1>2. /\ w # NoCand /\ ~Integrated(run) /\ Selected(run, store, git) /\ run \in Projection /\ w \in Cands
  BY <1>1, BodyFits, WinnerType
<1>3. PICK next \in NextPromotable(w) :
        Produce(RunOwner, IF applies THEN good ELSE Promotion(w, next, << x >>))
  BY DEF IntegrateNode
<1>4. /\ git'.branch = git.branch /\ (applies => BuildsOn(git'.tree, store.diff[w]))
  <2>1. git'.branch = git.branch /\ (applies => git'.tree = store.diff[w])
    BY DEF IntegrateNode, IInv, Git
  <2>2. store.diff[w] \in Content
    BY <1>2 DEF IInv, Store
  <2> QED BY <2>1, <2>2, BuildsOnSelf
<1>5. git.branch = << >>
  BY <1>2 DEF Selected, Verified
<1>6. Selected(run, store', git')
  BY <1>1, <1>2, <1>4, <1>5 DEF Selected
<1>7. e \in PlannedEvent /\ e.kind = "IntegrationAttempted" /\ e.cand = w /\ e.applied = applies
  BY <1>2, PlannedEvents DEF IntegrationAttempted
<1> HIDE DEF e
<1>8. x \in PlannedOp /\ x.op = "Do" /\ x.event = e
  BY <1>7, PlannedOps, CallKinds
<1> HIDE DEF x
<1>9. Fits(x, run, store', git')
  <2>1. FitsEvent(e, run, store', git')
    BY <1>1, <1>2, <1>4, <1>7 DEF FitsEvent
  <2> QED BY <1>7, <1>8, <2>1 DEF Fits, FitsNode, For, Begins, Commits
<1>10. Commits(x, {"IntegrationAttempted", "FinalTestEvidence", "FinalReviewEvidence"})
       /\ ~Commits(x, {"WinnerSelected"})
  BY <1>7, <1>8 DEF Commits
<1>11. CASE applies
  <2>1. Ready(<< x >>, run, store', git')
    BY <1>8, <1>9, <1>10, ReadyOne
  <2>2. good \in PlannedOutput /\ good.calls = << x >> /\ Produce(RunOwner, good)
    BY <1>3, <1>8, <1>11, OneCall, NodeNames, OutputTypes DEF Succeeded
  <2> HIDE DEF good
  <2> QED BY <1>1, <1>6, <2>1, <2>2, SelectBody
<1>12. CASE ~applies
  <2> DEFINE out == Promotion(w, next, << x >>)
  <2>1. Produce(RunOwner, out)
    BY <1>3, <1>12
  <2>2. out \in PlannedOutput /\ Ready(out.calls, run, store', git')
    BY <1>2, <1>4, <1>5, <1>8, <1>9, <1>10, PromotionReady
  <2> HIDE DEF out
  <2> QED BY <1>1, <1>6, <2>1, <2>2, SelectBody
<1> QED BY <1>11, <1>12

\* Both final gates: the evidence is filed for the integrated content, then committed.
LEMMA SelectVerdict ==
  ASSUME IInv, FlowInv, SelectInv, At(RunOwner, "Body"), KeepsEngine, UNCHANGED git,
         Integrated(run), Selected(run, store', git), git.branch = << >>,
         NEW passed \in BOOLEAN, NEW next \in Nodes, NEW x \in PlannedOp, Fits(x, run, store', git),
         Commits(x, {"FinalTestEvidence", "FinalReviewEvidence"}),
         NEW promoted \in NextPromotable(run.winner),
         Produce(RunOwner, FinalOutput(passed, next, promoted, x))
  PROVE  SelectInv'
<1>1. run \in Projection /\ run.winner \in Cands
  BY WinnerType DEF Integrated
<1>2. Commits(x, {"IntegrationAttempted", "FinalTestEvidence", "FinalReviewEvidence"})
      /\ ~Commits(x, {"WinnerSelected"})
  BY DEF Commits
<1>3. CASE passed
  <2> DEFINE out == Succeeded(next, << x >>)
  <2>1. out \in PlannedOutput /\ out.calls = << x >> /\ Produce(RunOwner, out)
    BY <1>3, OneCall, OutputTypes DEF Succeeded, FinalOutput
  <2>2. Ready(<< x >>, run, store', git')
    BY <1>2, ReadyOne
  <2> HIDE DEF out
  <2> QED BY <2>1, <2>2, SelectBody
<1>4. CASE ~passed
  <2> DEFINE out == Promotion(run.winner, promoted, << x >>)
  <2>1. Produce(RunOwner, out)
    BY <1>4 DEF FinalOutput
  <2>2. out \in PlannedOutput /\ Ready(out.calls, run, store', git')
    BY <1>1, <1>2, PromotionReady
  <2> HIDE DEF out
  <2> QED BY <2>1, <2>2, SelectBody
<1> QED BY <1>3, <1>4

LEMMA SelectFinalTest ==
  ASSUME IInv, FlowInv, SelectInv, NEW passed \in BOOLEAN, FinalTestNode(passed)
  PROVE  SelectInv'
<1> DEFINE v == [of |-> git.tree, passed |-> passed]
           e == FinalTestEvidence(Verdict(passed))
           x == Do(e)
<1>1. AtBody(RunOwner, "FinalTest") /\ At(RunOwner, "Body") /\ KeepsEngine /\ UNCHANGED git
  BY DEF FinalTestNode, AtBody
<1>2. Integrated(run) /\ run.integration.tests # "Pass" /\ Selected(run, store, git)
  BY <1>1, BodyFits
<1>3. /\ store'.diff = store.diff /\ store'.review = store.review /\ store'.tests[RunOwner] = v
  BY OwnerFacts DEF FinalTestNode, IInv, Store
<1>4. /\ BuildsOn(git.tree, store.diff[run.winner]) /\ git.branch = << >>
      /\ BuildsOn(git.tree, git.tree)
  BY <1>2, BuildsOnSelf DEF Selected, Verified, IInv, Git
<1>5. Selected(run, store', git)
  <2>1. /\ \A c : GoodReview(store', c) = GoodReview(store, c)
        /\ AfterReview(store', git) = AfterReview(store, git)
    BY <1>3 DEF GoodReview, AfterReview
  <2> QED BY <1>2, <1>3, <1>4, <2>1 DEF Selected
<1>6. e \in PlannedEvent /\ e.kind = "FinalTestEvidence" /\ (e.outcome = "Pass" => passed)
  BY PlannedEvents DEF FinalTestEvidence, Verdict
<1>7. passed => GoodTests(store', run.winner) /\ AfterTests(store', git)
  BY <1>3, <1>4 DEF GoodTests, AfterTests, PassedOn
<1>8. PICK promoted \in NextPromotable(run.winner) :
        Produce(RunOwner, FinalOutput(passed, "FinalReview", promoted, x))
  BY DEF FinalTestNode
<1> HIDE DEF e
<1>9. x \in PlannedOp /\ x.op = "Do" /\ x.event = e
  BY <1>6, PlannedOps, CallKinds
<1> HIDE DEF x
<1>10. Fits(x, run, store', git)
  <2>1. FitsEvent(e, run, store', git)
    BY <1>2, <1>6, <1>7 DEF FitsEvent
  <2> QED BY <1>6, <1>9, <2>1 DEF Fits, FitsNode, For, Begins, Commits
<1>11. Commits(x, {"FinalTestEvidence", "FinalReviewEvidence"}) /\ "FinalReview" \in Nodes
  BY <1>6, <1>9, NodeNames DEF Commits
<1> QED BY <1>1, <1>2, <1>4, <1>5, <1>8, <1>9, <1>10, <1>11, SelectVerdict

LEMMA SelectFinalReview ==
  ASSUME IInv, FlowInv, SelectInv, NEW passed \in BOOLEAN, FinalReviewNode(passed)
  PROVE  SelectInv'
<1> DEFINE v == [of |-> git.tree, passed |-> passed]
           e == FinalReviewEvidence(Verdict(passed))
           x == Do(e)
<1>1. AtBody(RunOwner, "FinalReview") /\ At(RunOwner, "Body") /\ KeepsEngine /\ UNCHANGED git
  BY DEF FinalReviewNode, AtBody
<1>2. Integrated(run) /\ run.integration.review # "Pass" /\ Selected(run, store, git)
  BY <1>1, BodyFits
<1>3. /\ store'.diff = store.diff /\ store'.tests = store.tests /\ store'.review[RunOwner] = v
  BY OwnerFacts DEF FinalReviewNode, IInv, Store
<1>4. /\ BuildsOn(git.tree, store.diff[run.winner]) /\ git.branch = << >>
      /\ BuildsOn(git.tree, git.tree)
  BY <1>2, BuildsOnSelf DEF Selected, Verified, IInv, Git
<1>5. Selected(run, store', git)
  <2>1. /\ \A c : GoodTests(store', c) = GoodTests(store, c)
        /\ AfterTests(store', git) = AfterTests(store, git)
    BY <1>3 DEF GoodTests, AfterTests
  <2> QED BY <1>2, <1>3, <1>4, <2>1 DEF Selected
<1>6. e \in PlannedEvent /\ e.kind = "FinalReviewEvidence" /\ (e.outcome = "Pass" => passed)
  BY PlannedEvents DEF FinalReviewEvidence, Verdict
<1>7. passed => GoodReview(store', run.winner) /\ AfterReview(store', git)
  BY <1>3, <1>4 DEF GoodReview, AfterReview, PassedOn
<1>8. PICK promoted \in NextPromotable(run.winner) :
        Produce(RunOwner, FinalOutput(passed, "CommitApproval", promoted, x))
  BY DEF FinalReviewNode
<1> HIDE DEF e
<1>9. x \in PlannedOp /\ x.op = "Do" /\ x.event = e
  BY <1>6, PlannedOps, CallKinds
<1> HIDE DEF x
<1>10. Fits(x, run, store', git)
  <2>1. FitsEvent(e, run, store', git)
    BY <1>2, <1>6, <1>7 DEF FitsEvent
  <2> QED BY <1>6, <1>9, <2>1 DEF Fits, FitsNode, For, Begins, Commits
<1>11. Commits(x, {"FinalTestEvidence", "FinalReviewEvidence"}) /\ "CommitApproval" \in Nodes
  BY <1>6, <1>9, NodeNames DEF Commits
<1> QED BY <1>1, <1>2, <1>4, <1>5, <1>8, <1>9, <1>10, <1>11, SelectVerdict

\* The branch holds nothing, or the content that the integration worktree still has: then
\* nothing is staged.
LEMMA SelectCommitNode ==
  ASSUME IInv, FlowInv, SelectInv, CommitNode \/ CommitPauses
  PROVE  SelectInv'
<1>1. AtBody(RunOwner, "Commit") /\ At(RunOwner, "Body") /\ KeepsEngine /\ UNCHANGED store
  BY DEF CommitNode, CommitPauses, AtBody
<1>2. Verified(run) /\ Selected(run, store, git) /\ run \in Projection
  BY <1>1, BodyFits
<1>3. CASE CommitPauses
  <2>1. Paused \in PlannedOutput /\ Paused.calls = << >>
    BY OutputTypes DEF Paused
  <2> QED BY <1>1, <1>3, <2>1, SelectSteadyBody DEF CommitPauses, SameFiles, SameTree
<1>4. CASE CommitNode /\ (git.tree = Baseline \/ NothingStaged)
  <2>1. UNCHANGED git
    BY <1>4 DEF CommitNode
  <2>2. CommitOutput \in PlannedOutput /\ CommitOutput.calls = << >> /\ Produce(RunOwner, CommitOutput)
    <3>1. /\ Failed("TaskFailure", 1, << >>) \in PlannedOutput
          /\ Failed("Transient", 1, << >>) \in PlannedOutput
      BY NoCalls, OwnerFacts, OutputTypes DEF FailureClass
    <3> QED BY <1>4, <3>1 DEF CommitOutput, Failed, CommitNode
  <2> QED BY <1>1, <1>4, <2>1, <2>2, SelectSteadyBody DEF SameFiles, SameTree
<1>5. CASE CommitNode /\ git.tree # Baseline /\ ~NothingStaged
  <2> DEFINE x == Do(CommitCreated)
             out == [Succeeded(None, << x >>) EXCEPT !.run = "Succeeded"]
  <2>1. git.branch = << >>
    <3>1. SUFFICES ASSUME git.branch # << >> PROVE FALSE
      OBVIOUS
    <3>2. git.branch = << git.tree >>
      BY <1>2, <3>1 DEF Selected
    <3>3. Len(<< git.tree >>) = 1 /\ << git.tree >>[1] = git.tree
      OBVIOUS
    <3> QED BY <1>5, <3>1, <3>2, <3>3 DEF NothingStaged
  <2>2. git'.tree = git.tree /\ git'.branch = << git.tree >>
    <3>1. git' = [git EXCEPT !.branch = Append(git.branch, git.tree)] /\ git \in Git
      BY <1>5 DEF CommitNode, IInv
    <3>2. Append(<< >>, git.tree) = << git.tree >>
      OBVIOUS
    <3> QED BY <2>1, <3>1, <3>2 DEF Git
  <2>3. Selected(run, store', git')
    BY <1>1, <1>2, <2>2 DEF Selected, AfterTests, AfterReview
  <2>4. x \in SteadyOp
    BY PlannedEvents, SteadyOps DEF CommitCreated, SelectKinds, PlanKinds
  <2>5. Produce(RunOwner, out)
    BY <1>5 DEF CommitNode, CommitOutput
  <2> HIDE DEF x
  <2>6. << x >> \in Seq(SteadyOp) /\ << x >> \in Seq(PlannedOp)
    BY <2>4, SeqFacts DEF SteadyOp
  <2>7. out \in PlannedOutput /\ out.calls = << x >>
    <3> DEFINE calls == << x >>
    <3>a. calls \in Seq(PlannedOp)
      BY <2>6
    <3> HIDE DEF calls
    <3>1. Succeeded(None, calls) \in PlannedOutput
      BY <3>a, OutputTypes
    <3>2. [Succeeded(None, calls) EXCEPT !.run = "Succeeded"] \in PlannedOutput
      BY <3>1, OutputStatuses DEF RunStatus
    <3>3. [Succeeded(None, calls) EXCEPT !.run = "Succeeded"].calls = calls
      BY DEF Succeeded
    <3> QED BY <3>2, <3>3 DEF calls
  <2> HIDE DEF out
  <2>8. Ready(out.calls, run, store', git')
    BY <2>6, <2>7, ReadySteady
  <2> QED BY <1>1, <2>3, <2>5, <2>7, <2>8, SelectBody
<1> QED BY <1>3, <1>4, <1>5

LEMMA SelectBodies ==
  ASSUME IInv, FlowInv, SelectInv, NodeBody
  PROVE  SelectInv'
<1>1. ASSUME NEW c \in Cands, NEW why \in Fingerprints, RepairExhausted(c, why)
      PROVE  SelectInv'
  BY <1>1, SelectCandidateBody
<1> QED BY <1>1, SelectEdit, SelectWritten, SelectError, SelectSetup, SelectFanOut, SelectCandidateBody, SelectJoin,
           SelectIntegrate, SelectFinalTest, SelectFinalReview, SelectCommitNode DEF NodeBody


(***************************************************************************)
(* Every step keeps the selection in order.                                *)
(***************************************************************************)
LEMMA SelectService ==
  ASSUME IInv, FlowInv, SelectInv, Service
  PROVE  SelectInv'
<1>1. UNCHANGED << todo, task, git >>
  BY DEF Service, ServiceAppend, UpdatePlan, DecidePlan, ApproveCommit, Cancel, Submit,
         RequestTimeout, RequestKilled
<1>2. CASE UNCHANGED store
  BY <1>1, <1>2, ServiceMoves, SelectApart, SelectOther
<1>3. CASE ~UNCHANGED store
  <2>1. run' = run /\ \E files : store' = [store EXCEPT !.files = files]
    BY <1>3 DEF Service, ServiceAppend, UpdatePlan, DecidePlan, ApproveCommit, Cancel, Submit,
                RequestTimeout, RequestKilled
  <2>2. SameFiles(store, store') /\ SameTree(git, git')
    BY <1>1, <2>1 DEF SameFiles, SameTree, IInv, Store
  <2>3. Ready(todo'[RunOwner], run, store, git)
    BY <1>1 DEF SelectInv
  <2>4. \A c \in Cands : task'[c] # "none" => Unselected(run)
    BY <1>1 DEF SelectInv
  <2> QED BY <2>1, <2>2, <2>3, <2>4, SelectStays
<1> QED BY <1>2, <1>3

LEMMA NextSelect ==
  ASSUME IInv, FlowInv, GateInv, SelectInv, Next
  PROVE  SelectInv'
<1>1. CASE Recovery
  <2>1. UNCHANGED << todo, task, store, git >>
    BY <1>1 DEF Recovery, RecoverAttempt, RecoverCandidate, RecoverDone, KeepsOutside
  <2> QED BY <1>1, <2>1, RecoveryMoves, SelectApart, SelectOther
<1>2. CASE Crash
  <2>1. PICK result : EndDispatch(result)
    BY <1>2 DEF Crash
  <2>2. run' = run /\ UNCHANGED << store, git >>
    BY <1>2 DEF Crash
  <2> QED BY <2>1, <2>2, SelectEnd
<1>3. CASE Dispatch \/ DispatchRefused \/ \E r \in pending : FinaliseCancel(r) \/ CancelAlreadyFinal(r)
  <2>1. UNCHANGED << run, todo, task, store, git >>
    BY <1>3 DEF Dispatch, DispatchRefused, FinaliseCancel, CancelAlreadyFinal, BeginDispatch
  <2> QED BY <2>1, SelectOther
<1> QED BY <1>1, <1>2, <1>3, SelectCalls, SelectLoop, SelectCandidates, SelectBodies, SelectService
        DEF Next, Progress

LEMMA InitSelect ==
  ASSUME Init
  PROVE  SelectInv
<1>1. /\ run = Genesis /\ git.branch = << >> /\ \A c \in Cands : task[c] = "none"
      /\ todo[RunOwner] = << >>
  BY OwnerFacts DEF Init
<1>2. Unselected(run) /\ run.integration = Unjudged(NoCand)
  BY <1>1 DEF Genesis, Unselected, AbsentCandidate, Unjudged
<1>3. Selected(run, store, git)
  BY <1>1, <1>2 DEF Selected, Unselected, Integrated, Unjudged
<1> QED BY <1>1, <1>3, ReadyCalls DEF SelectInv

\* Every call that the run loop has still to make fits what has been selected, integrated
\* and judged: nothing is selected while a candidate works, the final verdicts belong to the
\* files of the candidate that is applied, and the branch holds nothing or what the
\* integration worktree holds (next_run_step, join.rs, integrate.rs, commit.rs).
THEOREM SelectInvariant == Spec => []SelectInv
<1>1. Init => SelectInv
  BY InitSelect
<1>2. IInv /\ FlowInv /\ GateInv /\ SelectInv /\ [Next]_vars => SelectInv'
  <2>1. SelectInv /\ UNCHANGED vars => SelectInv'
    BY DEF SelectInv, vars
  <2> QED BY <2>1, NextSelect
<1> QED BY <1>1, <1>2, InductiveInvariant, FlowInvariant, GateInvariant, PTL DEF Spec

\* A final verdict that passed is about the patch of the candidate that is integrated, never
\* about the one integrated before it, for any number of candidates, promotions, crashes and
\* retries (IntegrationAttempted resets the verdicts, final_test.rs and final_review.rs write
\* the evidence file before the event).
THEOREM GatesBelong == Spec => []GatesBelongToApplied
<1>1. SelectInv => GatesBelongToApplied
  <2> SUFFICES ASSUME SelectInv PROVE GatesBelongToApplied
    OBVIOUS
  <2> DEFINE d == store.diff[run.integration.applied]
  <2>1. /\ run.integration.tests = "Pass" => BuildsOn(store.tests[RunOwner].of, d)
        /\ run.integration.review = "Pass" => BuildsOn(store.review[RunOwner].of, d)
    BY DEF SelectInv, Selected, GoodTests, GoodReview, PassedOn
  <2> QED BY <2>1 DEF GatesBelongToApplied
<1> QED BY <1>1, SelectInvariant, PTL

\* The result branch receives one commit at most, however often the commit node is
\* interrupted and run again (create_commit finds nothing staged the second time, and a
\* verified winner is never replaced).
THEOREM CommitOnce == Spec => []CommittedOnce
<1>1. SelectInv => CommittedOnce
  <2> SUFFICES ASSUME SelectInv PROVE CommittedOnce
    OBVIOUS
  <2>1. git.branch = << >> \/ git.branch = << git.tree >>
    BY DEF SelectInv, Selected
  <2>2. Len(<< >>) = 0 /\ Len(<< git.tree >>) = 1
    OBVIOUS
  <2>3. Len(git.branch) = 0 \/ Len(git.branch) = 1
    BY <2>1, <2>2
  <2> DEFINE n == Len(git.branch)
  <2>4. n = 0 \/ n = 1
    BY <2>3
  <2> HIDE DEF n
  <2>5. n <= 1
    BY <2>4
  <2> QED BY <2>5 DEF CommittedOnce, n
<1> QED BY <1>1, SelectInvariant, PTL

\* The commit node alone adds to the result branch.
LEMMA BranchGrows ==
  ASSUME IInv, Next, git'.branch # git.branch
  PROVE  /\ AtBody(RunOwner, "Commit") /\ CommitNode /\ git.tree # Baseline
         /\ git'.branch = Append(git.branch, git.tree)
<1>1. git \in Git /\ ~UNCHANGED git
  BY DEF IInv
<1>2. ~Service
  BY <1>1 DEF Service, ServiceAppend, UpdatePlan, DecidePlan, ApproveCommit, Cancel, Submit,
              RequestTimeout, RequestKilled
<1>3. ~Recovery
  BY <1>1 DEF Recovery, RecoverAttempt, RecoverCandidate, RecoverDone, KeepsOutside
<1>4. ~RunLoop
  BY <1>1 DEF RunLoop, LoopFinish, LoopBlocked, LoopReturns, LoopAwaitPlan, LoopAwaitCommit,
              LoopCancel, LoopNode, LoopCandidates, LoopCalls, AwaitTasks, KeepsOutside
<1>5. ~Candidates
  BY <1>1 DEF Candidates, AcquirePermit, DriveCandidate, KeepsOutside
<1>6. ~Calls
  BY <1>1 DEF Calls, ReadRunStatus, ReadCandidateStatus, CancelNext, ExcludeNext, StartNode, DoCommit,
              ReturnFrom, FailFrom, Ends, KeepsOutside
<1>7. ~Crash /\ ~Dispatch /\ ~DispatchRefused
      /\ ~\E r \in pending : FinaliseCancel(r) \/ CancelAlreadyFinal(r)
  BY <1>1 DEF Crash, Dispatch, DispatchRefused, FinaliseCancel, CancelAlreadyFinal, BeginDispatch
<1>8. NodeBody
  BY <1>2, <1>3, <1>4, <1>5, <1>6, <1>7 DEF Next, Progress
<1>9. ASSUME NEW o \in Owners, EditWorktree(o) \/ GateWrites(o)
      PROVE  FALSE
  <2>1. git'.branch = git.branch
    BY <1>1, <1>9 DEF EditWorktree, GateWrites, Git
  <2> QED BY <2>1
<1>10. ASSUME NEW ok \in BOOLEAN, IntegrateNode(ok)
       PROVE  FALSE
  <2>1. git'.branch = git.branch
    BY <1>1, <1>10 DEF IntegrateNode, Git
  <2> QED BY <2>1
<1>11. CommitNode
  <2>1. ASSUME NEW c \in Cands, NEW why \in Fingerprints, NEW ok \in BOOLEAN,
               \/ ImplementNode(c, ok, why) \/ TestNode(c, ok, why)
               \/ ReviewNode(c, ok, why) \/ RepairNode(c, ok, why) \/ RepairExhausted(c, why)
        PROVE  UNCHANGED git
    BY <2>1 DEF ImplementNode, TestNode, ReviewNode, RepairNode, RepairExhausted
  <2>2. CASE PrepareNode \/ (\E hash \in Hashes : PlanNode(hash)) \/ FanOutNode
    BY <1>1, <2>2 DEF PrepareNode, PlanNode, FanOutNode
  <2> QED BY <1>1, <1>8, <1>9, <1>10, <2>1, <2>2
          DEF NodeBody, NodeError, JoinNode, FinalTestNode, FinalReviewNode, CommitPauses
<1>12. git' = [git EXCEPT !.branch = Append(@, git.tree)] /\ git.tree # Baseline
  BY <1>1, <1>11 DEF CommitNode
<1> QED BY <1>1, <1>11, <1>12 DEF CommitNode, Git

LEMMA CommitGated ==
  ASSUME IInv, FlowInv, SelectInv, Next, git'.branch # git.branch
  PROVE  LET patch == store.diff[run.winner]
         IN  /\ git'.branch = Append(git.branch, git.tree)
             /\ BuildsOn(git.tree, patch)
             /\ PassedOn(store.tests[RunOwner], patch)
             /\ PassedOn(store.review[RunOwner], patch)
             /\ BuildsOn(git.tree, store.tests[RunOwner].of)
             /\ BuildsOn(git.tree, store.review[RunOwner].of)
             /\ PlanApproved(run)
             /\ CommitPolicy = "Manual" => run.commitApproved
             /\ CommitPolicy # "None"
<1>1. AtBody(RunOwner, "Commit") /\ git'.branch = Append(git.branch, git.tree)
  BY BranchGrows
<1>2. Verified(run) /\ Allowed(run) /\ Selected(run, store, git)
  BY <1>1, BodyFits
<1>3. run.integration.applied = run.winner /\ BuildsOn(git.tree, store.diff[run.winner])
  BY <1>2 DEF Verified, Integrated, Selected
<1>4. GoodTests(store, run.winner) /\ GoodReview(store, run.winner)
      /\ AfterTests(store, git) /\ AfterReview(store, git)
  BY <1>2, <1>3 DEF Verified, Selected
<1> QED BY <1>1, <1>2, <1>3, <1>4 DEF Allowed, GoodTests, GoodReview, AfterTests, AfterReview

\* What reaches the result branch is the patch of the current winner with nothing added but
\* what commands of the final gates wrote, the final tests and the final review have passed
\* on that patch, the plan is approved and so is the commit if the policy asks for it, for
\* any number of candidates, promotions, retries and writes (next_run_step, commit.rs).
THEOREM CommitsAreGated == Spec => CommitIsGated
<1>1. /\ IInv /\ FlowInv /\ SelectInv
      /\ [Next]_vars
      => [ git'.branch # git.branch =>
             LET patch == store.diff[run.winner]
             IN  /\ git'.branch = Append(git.branch, git.tree)
                 /\ BuildsOn(git.tree, patch)
                 /\ PassedOn(store.tests[RunOwner], patch)
                 /\ PassedOn(store.review[RunOwner], patch)
                 /\ BuildsOn(git.tree, store.tests[RunOwner].of)
                 /\ BuildsOn(git.tree, store.review[RunOwner].of)
                 /\ PlanApproved(run)
                 /\ CommitPolicy = "Manual" => run.commitApproved
                 /\ CommitPolicy # "None" ]_git
  BY CommitGated DEF vars
<1> QED BY <1>1, InductiveInvariant, FlowInvariant, SelectInvariant, PTL DEF Spec, CommitIsGated

\* The winner changes with the selection and with a promotion, and both name a candidate
\* that was not tried.
LEMMA WinnerIsNew ==
  ASSUME IInv, FlowInv, GateInv, SelectInv, Next, run'.winner # run.winner, run'.winner # NoCand
  PROVE  ~run.cands[run'.winner].attempted
<1>0. RunOwner \in Owners
  BY OwnerFacts
<1>1. ASSUME NEW e \in PlannedEvent, CommitEvent(e)
      PROVE  e.kind \in {"WinnerSelected", "CandidatePromotionRequested"} /\ Effect(e, run, run')
  BY <1>1, CommitEffect DEF Effect
<1>2. ~CommitsApart
  <2> SUFFICES ASSUME CommitsApart PROVE FALSE
    OBVIOUS
  <2>1. PICK e \in PlannedEvent : Apart(e) /\ CommitEvent(e)
    BY DEF CommitsApart
  <2> QED BY <1>1, <2>1 DEF Apart, RequestKindsOfEvents
<1>3. ~NodeBody
  <2> SUFFICES ASSUME NodeBody PROVE FALSE
    OBVIOUS
  <2>1. PICK o \in Owners : EditWorktree(o) \/ GateWrites(o) \/ Produces(o)
    BY BodyOutputs
  <2> QED BY <2>1 DEF EditWorktree, GateWrites, Produces, KeepsEngine
<1>4. PICK o \in Owners : DoCommit(o)
  BY <1>2, <1>3, Moves
<1> DEFINE s == todo[o]
           e == s[1].event
<1>5. /\ s \in Seq(PlannedOp) /\ s # << >> /\ s[1].op = "Do" /\ Call(o) = s[1] /\ s[1] \in PlannedOp
      /\ 1 \in DOMAIN s
  BY <1>4, AtCall DEF DoCommit
<1>6. e \in PlannedEvent /\ CommitEvent(e)
  BY <1>4, <1>5, OpFields DEF DoCommit, CommitOrFail
<1>7. e.kind \in {"WinnerSelected", "CandidatePromotionRequested"} /\ Effect(e, run, run')
  BY <1>1, <1>6
<1>8. o = RunOwner
  <2>1. ASSUME o \in Cands PROVE FALSE
    <3>1. s \in Seq(CandidateOp)
      BY <2>1 DEF GateInv
    <3>2. s[1] \in CandidateOp
      BY <1>5, <3>1
    <3> QED BY <1>5, <1>7, <3>2 DEF CandidateOp, CandidateEvents, PlainEvents
  <2> QED BY <2>1, OwnerFacts
<1>9. FitsEvent(e, run, store, git)
  <2>1. Fits(s[1], run, store, git)
    BY <1>5, <1>8, FitSeqs DEF SelectInv, Ready
  <2> QED BY <1>5, <2>1 DEF Fits
<1> HIDE DEF e
<1> QED BY <1>7, <1>9 DEF FitsEvent, Effect

\* A candidate whose integration was attempted never becomes the winner again: whatever
\* fails, is retried or is interrupted, promotion moves to one that was not tried
\* (next_promotable, IntegrationAttempted).
THEOREM NotTriedTwice == Spec => NeverTriedTwice
<1>1. /\ IInv /\ FlowInv /\ GateInv /\ SelectInv
      /\ [Next]_vars
      => [ run'.winner # run.winner /\ run'.winner # NoCand =>
             ~run.cands[run'.winner].attempted ]_run
  BY WinnerIsNew DEF vars
<1> QED BY <1>1, InductiveInvariant, FlowInvariant, GateInvariant, SelectInvariant, PTL
        DEF Spec, NeverTriedTwice

(***************************************************************************)
(* The evidence a winner is selected on.  The last attempt of a candidate  *)
(* says which of its files are about the patch that was stored from its    *)
(* worktree, and a verdict that is still to be recorded says what the next *)
(* attempt will rely on.                                                   *)
(***************************************************************************)
PatchInWork(c, st, g) == BuildsOn(g.work[c], st.diff[c])
TestsPassPatch(c, st) == PassedOn(st.tests[c], st.diff[c])

\* a is the last attempt of candidate c.
Justified(c, a, st, g) ==
  /\ a.status = "Started" => a.next = None
  /\ a.node \in {"Test", "Review"} \/ a.next = "Test" => PatchInWork(c, st, g)
  /\ a.node = "Review" \/ a.next = "Review" => TestsPassPatch(c, st)

\* hs are the attempts of candidate c: a review that passed is about the stored patch, and
\* nothing has been attempted since.
Evident(c, hs, st, g) ==
  /\ hs # << >> => Justified(c, LastOf(hs), st, g)
  /\ st.review[c].passed =>
       /\ hs # << >> /\ LastOf(hs).node = "Review" /\ LastOf(hs).next # "Repair"
       /\ BuildsOn(st.review[c].of, st.diff[c])

\* Calls before the body of a node ends, and calls after it.
WorkOp == {x \in PlannedOp : ~Closes(x) /\ (x.op = "Edit" => Edits(x.node))}
Proven(next, c, st, g) ==
  /\ next = "Test" => PatchInWork(c, st, g)
  /\ next = "Review" => TestsPassPatch(c, st)
  /\ next = "Repair" => ~st.review[c].passed
ProvenOp(c, st, g) ==
  {x \in PlannedOp : x.op # "Edit" /\ (Closes(x) => Proven(x.event.next, c, st, g))}
Backed(c, s, st, g) == s \in Seq(WorkOp) \/ s \in Seq(ProvenOp(c, st, g))

\* A candidate that may be selected.
Choosable(c, st) == st.review[c].passed /\ st.diff[c] # Baseline
Chosen(p, st) ==
  /\ ~p.ranked => p.ranking = << >>
  /\ \A i \in DOMAIN p.ranking : Choosable(p.ranking[i], st)
  /\ p.winner # NoCand => Choosable(p.winner, st)
ChoosesWell(e, st) ==
  /\ e.kind = "RankingComputed" => \A i \in DOMAIN e.ranking : Choosable(e.ranking[i], st)
  /\ e.kind = "WinnerSelected" => Choosable(e.cand, st)
  /\ e.kind = "CandidatePromotionRequested" => e.next = NoCand \/ Choosable(e.next, st)
ChoiceOp(st) == {x \in PlannedOp : x.op = "Do" => ChoosesWell(x.event, st)}

WorkInv ==
  \A c \in Cands : /\ Evident(c, run.attempts[c], store, git)
                   /\ Backed(c, todo[c], store, git)
ChoiceInv == Chosen(run, store) /\ todo[RunOwner] \in Seq(ChoiceOp(store))
EvidenceInv == WorkInv /\ ChoiceInv

(***************************************************************************)
(* What leaves the evidence of a candidate alone.                          *)
(***************************************************************************)
KeptFiles(c, st, st2) ==
  st2.diff[c] = st.diff[c] /\ st2.tests[c] = st.tests[c] /\ st2.review[c] = st.review[c]

\* The worktree holds what it held, or a gate wrote into it.
KeptWork(c, g, g2) == \A content \in Content : BuildsOn(g.work[c], content) => BuildsOn(g2.work[c], content)

LEMMA SameWork ==
  ASSUME NEW c, NEW g, NEW g2, g2.work[c] = g.work[c]
  PROVE  KeptWork(c, g, g2)
  BY DEF KeptWork

LEMMA EvidentKept ==
  ASSUME NEW c, NEW hs, NEW st, NEW st2, NEW g, NEW g2, KeptFiles(c, st, st2),
         st.diff[c] \in Content, KeptWork(c, g, g2)
  PROVE  /\ Evident(c, hs, st, g) => Evident(c, hs, st2, g2)
         /\ \A next : Proven(next, c, st, g) => Proven(next, c, st2, g2)
<1>1. /\ PatchInWork(c, st, g) => PatchInWork(c, st2, g2)
      /\ TestsPassPatch(c, st) => TestsPassPatch(c, st2)
  BY DEF KeptFiles, KeptWork, PatchInWork, TestsPassPatch
<1>2. \A a : Justified(c, a, st, g) => Justified(c, a, st2, g2)
  BY <1>1 DEF Justified
<1> QED BY <1>1, <1>2 DEF KeptFiles, Evident, Proven

LEMMA SubSeqs ==
  ASSUME NEW S, NEW T, \A x \in S : x \in T
  PROVE  \A s \in Seq(S) : s \in Seq(T)
  OBVIOUS

LEMMA BackedKept ==
  ASSUME NEW c, NEW s, NEW st, NEW st2, NEW g, NEW g2, KeptFiles(c, st, st2),
         st.diff[c] \in Content, KeptWork(c, g, g2), Backed(c, s, st, g)
  PROVE  Backed(c, s, st2, g2)
<1> DEFINE S == ProvenOp(c, st, g)
           T == ProvenOp(c, st2, g2)
<1>0. \A next : Proven(next, c, st, g) => Proven(next, c, st2, g2)
  BY EvidentKept
<1>1. \A x \in S : x \in T
  BY <1>0 DEF ProvenOp
<1>2. s \in Seq(WorkOp) \/ s \in Seq(S)
  BY DEF Backed
<1> HIDE DEF S, T
<1>3. s \in Seq(WorkOp) \/ s \in Seq(T)
  BY <1>1, <1>2, SubSeqs
<1> QED BY <1>3 DEF Backed, T

\* Calls that close no attempt and edit nothing, whatever the evidence is.
LEMMA WorkOps ==
  ASSUME NEW c, NEW st, NEW g
  PROVE  /\ \A x \in FreshOp : x \in WorkOp
         /\ \A x \in SimpleOp : x \in WorkOp /\ x \in ProvenOp(c, st, g)
         /\ \A x \in PlainOp : x \in WorkOp /\ x \in ProvenOp(c, st, g)
         /\ \A x \in ExclusionOp : x \in WorkOp /\ x \in ProvenOp(c, st, g)
         /\ \A x \in PatchOp : x \in ProvenOp(c, st, g)
<1>1. \A x \in PlainOp : x \in PlannedOp /\ x.op # "Edit" /\ ~Closes(x)
  BY DEF PlainOp, PlainEvents, Closes, Commits
<1>2. \A x \in FreshOp : x \in PlannedOp /\ ~Closes(x) /\ (x.op = "Edit" => Edits(x.node))
  BY <1>1 DEF FreshOp, Closes, Commits
<1>3. \A x \in SimpleOp : x \in PlannedOp /\ x.op # "Edit" /\ ~Closes(x)
  BY DEF SimpleOp, Simple
<1>4. \A x \in ExclusionOp : x \in PlannedOp /\ x.op # "Edit" /\ ~Closes(x)
  BY DEF ExclusionOp, Closes, Commits
<1>5. \A x \in PatchOp : x \in PlannedOp /\ x.op # "Edit" /\ ~Closes(x)
  BY DEF PatchOp, Closes, Commits
<1> QED BY <1>1, <1>2, <1>3, <1>4, <1>5 DEF WorkOp, ProvenOp

LEMMA BackedMoved ==
  ASSUME NEW c, NEW st, NEW g, NEW s, NEW t, Backed(c, s, st, g), Moved(s, t)
  PROVE  Backed(c, t, st, g)
<1> DEFINE T == ProvenOp(c, st, g)
<1>1. /\ \A x \in PlainOp : x \in WorkOp /\ x \in T
      /\ \A x \in ExclusionOp : x \in WorkOp /\ x \in T
      /\ \A x \in FreshOp : x \in WorkOp
  BY WorkOps
<1>2. s \in Seq(WorkOp) \/ s \in Seq(T)
  BY DEF Backed
<1> HIDE DEF T
<1>3. CASE t \in Seq(FreshOp)
  BY <1>1, <1>3, SubSeqs DEF Backed
<1>4. ASSUME s # << >>, NEW p, p \in Seq(PlainOp) \/ p \in Seq(ExclusionOp), t = p \o Tail(s)
      PROVE  Backed(c, t, st, g)
  <2>1. p \in Seq(WorkOp) /\ p \in Seq(T)
    BY <1>1, <1>4, SubSeqs
  <2> DEFINE u == Tail(s)
  <2>2. u \in Seq(WorkOp) \/ u \in Seq(T)
    BY <1>2, <1>4, SeqFacts
  <2> HIDE DEF u
  <2>3. p \o u \in Seq(WorkOp) \/ p \o u \in Seq(T)
    BY <2>1, <2>2, SeqFacts
  <2> QED BY <1>4, <2>3 DEF Backed, T, u
<1>5. CASE /\ s # << >> /\ s[1].op # "Do"
           /\ \E p : /\ p \in Seq(PlainOp) \/ (s[1].op = "ExcludeAll" /\ p \in Seq(ExclusionOp))
                     /\ t = p \o Tail(s)
  BY <1>4, <1>5
<1> QED BY <1>3, <1>5 DEF Moved

(***************************************************************************)
(* What a commit does to it.                                               *)
(***************************************************************************)
\* The next attempt of a candidate relies on what its last one left.
LEMMA EvidentBegin ==
  ASSUME NEW c \in Cands, NEW hs \in Seq(Attempt), NEW node \in Nodes, NEW number \in Nat,
         MayStart(c, hs, node), NEW st, NEW g, Evident(c, hs, st, g),
         NEW bs, bs = Append(hs, Opened(node, number))
  PROVE  Evident(c, bs, st, g)
<1> DEFINE a == LastOf(hs)
           b == Opened(node, number)
<1>1. /\ b \in Attempt /\ b.node = node /\ b.next = None /\ b.status = "Started"
      /\ None \notin Nodes
  BY OwnerFacts DEF Opened, Attempt, AttemptStatus, None, Nodes, RunNodes, CandidateNodes
<1> HIDE DEF b
<1>2. bs # << >> /\ LastOf(bs) = b
  BY <1>1, OpenedIsLast DEF b
<1>3. /\ hs = << >> => node = "Implement"
      /\ hs # << >> => Leads(a, node)
      /\ node \in CandidateNodes
  BY DEF MayStart
<1>4. hs # << >> => Justified(c, a, st, g)
  BY DEF Evident
<1>5. /\ st.review[c].passed => hs # << >> /\ a.node = "Review" /\ a.next # "Repair"
      /\ st.review[c].passed => BuildsOn(st.review[c].of, st.diff[c])
  BY DEF Evident
<1> HIDE DEF a
<1>6. Justified(c, b, st, g)
  <2>1. CASE hs = << >>
    BY <1>1, <1>3, <2>1 DEF Justified, None
  <2>2. CASE hs # << >>
    <3>1. /\ a.node \in {"Test", "Review"} \/ a.next = "Test" => PatchInWork(c, st, g)
          /\ a.node = "Review" \/ a.next = "Review" => TestsPassPatch(c, st)
          /\ node = a.node \/ node = a.next
      BY <1>3, <1>4, <2>2 DEF Justified, Leads
    <3>2. node = "Review" => a.node \in {"Test", "Review"}
      <4>1. \A n \in Nodes : "Review" \in AllowedSuccessors[n] => n = "Test"
        BY DEF AllowedSuccessors, Nodes, RunNodes, CandidateNodes
      <4>2. a.node \in Nodes
        <5>1. Len(hs) \in DOMAIN hs
          BY <2>2
        <5>2. a \in Attempt
          BY <5>1 DEF LastOf, a
        <5> QED BY <5>2 DEF Attempt
      <4> QED BY <1>3, <2>2, <4>1, <4>2 DEF Leads
    <3> QED BY <1>1, <3>1, <3>2 DEF Justified, None
  <2> QED BY <2>1, <2>2
<1>7. st.review[c].passed => node = "Review"
  <2>1. AllowedSuccessors["Review"] = {"Repair", "Join"}
    BY DEF AllowedSuccessors, Nodes, RunNodes, CandidateNodes
  <2> QED BY <1>3, <1>5, <2>1 DEF Leads, CandidateNodes
<1> QED BY <1>1, <1>2, <1>5, <1>6, <1>7 DEF Evident, None

\* The verdict on an attempt names a successor that the files bear out.
LEMMA EvidentClose ==
  ASSUME NEW c \in Cands, NEW hs \in Seq(Attempt), hs # << >>, NEW e \in Event,
         e.kind = "NodeClosed", IsAttempt(LastOf(hs), e.node, e.number),
         NEW st, NEW g, Evident(c, hs, st, g), Proven(e.next, c, st, g),
         NEW bs, bs = [i \in DOMAIN hs |-> CloseAttempt(hs[i], e)]
  PROVE  Evident(c, bs, st, g)
<1> DEFINE a == LastOf(hs)
           b == LastOf(bs)
<1>1. Len(hs) \in DOMAIN hs /\ Len(bs) = Len(hs) /\ bs # << >>
  OBVIOUS
<1>2. a \in Attempt /\ b = CloseAttempt(a, e)
  BY <1>1 DEF LastOf
<1>3. Justified(c, a, st, g)
  BY DEF Evident
<1>4. /\ st.review[c].passed => a.node = "Review" /\ BuildsOn(st.review[c].of, st.diff[c])
  BY DEF Evident
<1>5. e.as # "Started"
  BY EventFields
<1>6. IsAttempt(a, e.node, e.number)
  OBVIOUS
<1> HIDE DEF a, b
<1>7. b.node = a.node /\ b.next = e.next /\ b.status = e.as
  BY <1>2, <1>6 DEF CloseAttempt, Attempt
<1>8. Justified(c, b, st, g)
  BY <1>3, <1>5, <1>7 DEF Justified, Proven
<1>9. st.review[c].passed => b.node = "Review" /\ b.next # "Repair"
                               /\ BuildsOn(st.review[c].of, st.diff[c])
  BY <1>4, <1>7 DEF Proven
<1> QED BY <1>1, <1>8, <1>9 DEF Evident, b

LEMMA BackedTail ==
  ASSUME NEW c, NEW st, NEW g, NEW s, s # << >>, Backed(c, s, st, g)
  PROVE  /\ Backed(c, Tail(s), st, g) /\ Backed(c, << Fail >>, st, g)
         /\ Closes(s[1]) => Proven(s[1].event.next, c, st, g)
         /\ s[1].op = "Edit" => Tail(s) \in Seq(WorkOp) /\ Edits(s[1].node)
<1> DEFINE T == ProvenOp(c, st, g)
<1>1. s \in Seq(WorkOp) \/ s \in Seq(T)
  BY DEF Backed
<1>2. Fail \in WorkOp
  BY PlannedOps, CallKinds DEF WorkOp, Closes, Commits
<1>3. /\ \A x \in WorkOp : ~Closes(x) /\ (x.op = "Edit" => Edits(x.node))
      /\ \A x \in T : x.op # "Edit" /\ (Closes(x) => Proven(x.event.next, c, st, g))
  BY DEF WorkOp, ProvenOp
<1> HIDE DEF T
<1>4. s \in Seq(WorkOp) => s[1] \in WorkOp
  OBVIOUS
<1>5. s \in Seq(T) => s[1] \in T
  OBVIOUS
<1>6. /\ s \in Seq(WorkOp) => Tail(s) \in Seq(WorkOp)
      /\ s \in Seq(T) => Tail(s) \in Seq(T)
      /\ << Fail >> \in Seq(WorkOp)
  BY <1>2, SeqFacts
<1> QED BY <1>1, <1>3, <1>4, <1>5, <1>6 DEF Backed, T

(***************************************************************************)
(* The steps that are not bodies of nodes.                                 *)
(***************************************************************************)
SameEvidence == git'.work = git.work /\ \A c \in Cands : KeptFiles(c, store, store')

LEMMA StoredPatches ==
  ASSUME IInv
  PROVE  \A c \in Cands : store.diff[c] \in Content
  BY DEF IInv, Store

\* Evidence files and worktrees are changed by the bodies of nodes only.
LEMMA OutsideBodies ==
  ASSUME IInv, Next
  PROVE  NodeBody \/ (UNCHANGED git /\ SameEvidence)
<1>1. CASE UNCHANGED << store, git >>
  BY <1>1 DEF SameEvidence, KeptFiles
<1>2. CASE Service
  <2>1. UNCHANGED git
    BY <1>2 DEF Service, ServiceAppend, UpdatePlan, DecidePlan, ApproveCommit, Cancel, Submit,
                RequestTimeout, RequestKilled
  <2>2. UNCHANGED store \/ \E files : store' = [store EXCEPT !.files = files]
    BY <1>2 DEF Service, ServiceAppend, UpdatePlan, DecidePlan, ApproveCommit, Cancel, Submit,
                RequestTimeout, RequestKilled
  <2>3. store'.diff = store.diff /\ store'.tests = store.tests /\ store'.review = store.review
    BY <2>2 DEF IInv, Store
  <2> QED BY <2>1, <2>3 DEF SameEvidence, KeptFiles
<1>3. CASE Recovery
  BY <1>1, <1>3 DEF Recovery, RecoverAttempt, RecoverCandidate, RecoverDone, KeepsOutside
<1>4. CASE RunLoop
  BY <1>1, <1>4 DEF RunLoop, LoopFinish, LoopBlocked, LoopReturns, LoopAwaitPlan, LoopAwaitCommit,
                    LoopCancel, LoopNode, LoopCandidates, LoopCalls, AwaitTasks, KeepsOutside
<1>5. CASE Candidates
  BY <1>1, <1>5 DEF Candidates, AcquirePermit, DriveCandidate, KeepsOutside
<1>6. CASE Calls
  BY <1>1, <1>6 DEF Calls, ReadRunStatus, ReadCandidateStatus, CancelNext, ExcludeNext, StartNode,
                    DoCommit, ReturnFrom, FailFrom, Ends, KeepsOutside
<1>7. CASE \/ Crash \/ Dispatch \/ DispatchRefused
           \/ \E r \in pending : FinaliseCancel(r) \/ CancelAlreadyFinal(r)
  BY <1>1, <1>7 DEF Crash, Dispatch, DispatchRefused, FinaliseCancel, CancelAlreadyFinal, BeginDispatch
<1> QED BY <1>2, <1>3, <1>4, <1>5, <1>6, <1>7 DEF Next, Progress

LEMMA WorkMoves ==
  ASSUME IInv, WorkInv, run' = run, \A q \in Owners : Moved(todo[q], todo'[q]), SameEvidence
  PROVE  WorkInv'
<1>1. ASSUME NEW c \in Cands
      PROVE  Evident(c, run'.attempts[c], store', git') /\ Backed(c, todo'[c], store', git')
  <2>1. /\ KeptFiles(c, store, store') /\ KeptWork(c, git, git') /\ c \in Owners
        /\ store.diff[c] \in Content
    BY OwnerFacts, SameWork, StoredPatches DEF SameEvidence
  <2>2. Evident(c, run.attempts[c], store, git) /\ Backed(c, todo[c], store, git)
    BY DEF WorkInv
  <2>3. Evident(c, run.attempts[c], store', git')
    BY <2>1, <2>2, EvidentKept
  <2>4. Backed(c, todo'[c], store, git)
    BY <2>1, <2>2, BackedMoved
  <2>5. Backed(c, todo'[c], store', git')
    BY <2>1, <2>4, BackedKept
  <2> QED BY <2>3, <2>5
<1> QED BY <1>1 DEF WorkInv

\* A commit of recovery or of a request: an attempt that is closed as interrupted was the last.
LEMMA WorkApart ==
  ASSUME IInv, FlowInv, WorkInv, CommitsApart, SameEvidence
  PROVE  WorkInv'
<1>1. PICK e \in PlannedEvent : Apart(e) /\ CommitEvent(e)
  BY DEF CommitsApart
<1>2. ASSUME NEW c \in Cands
      PROVE  Evident(c, run'.attempts[c], store, git)
  <2> DEFINE hs == run.attempts[c]
  <2>1. Evident(c, hs, store, git) /\ c \in Owners
    BY OwnerFacts DEF WorkInv
  <2>2. CASE run'.attempts[c] = hs
    BY <2>1, <2>2
  <2>3. CASE run'.attempts[c] # hs
    <3>1. e.kind = "NodeClosed" /\ e.owner = c /\ e.next = None
      BY <1>1, <2>1, <2>3, CommitAttempts DEF Apart, RequestKindsOfEvents
    <3>2. run' = Reduce(run, e) /\ Accepts(run, e)
      BY <1>1, <2>3 DEF CommitEvent
    <3>3. run \in Projection /\ e \in Event /\ hs \in Seq(Attempt) /\ Recorded(c, hs)
      BY <2>1 DEF IInv, RunInv, PlannedEvent, Projection, FlowInv, OwnerInv
    <3>4. run'.attempts[c] = [i \in DOMAIN hs |-> CloseAttempt(hs[i], e)]
      BY <2>1, <3>1, <3>2, <3>3, ClosedAttempts
    <3>5. PICK i \in DOMAIN hs : hs[i].status = "Started" /\ IsAttempt(hs[i], e.node, e.number)
      BY <3>1, <3>2 DEF Accepts, OpenAttempts
    <3>6. hs # << >> /\ IsAttempt(LastOf(hs), e.node, e.number)
      BY <3>3, <3>5 DEF Recorded, LastOf
    <3>7. Proven(e.next, c, store, git)
      BY <3>1 DEF Proven, None
    <3> HIDE DEF hs
    <3> QED BY <2>1, <3>1, <3>3, <3>4, <3>6, <3>7, EvidentClose
  <2> QED BY <2>2, <2>3
<1>3. ASSUME NEW c \in Cands
      PROVE  Evident(c, run'.attempts[c], store', git') /\ Backed(c, todo'[c], store', git')
  <2>1. KeptFiles(c, store, store') /\ KeptWork(c, git, git') /\ store.diff[c] \in Content
    BY SameWork, StoredPatches DEF SameEvidence
  <2>2. Backed(c, todo'[c], store, git)
    BY DEF WorkInv, CommitsApart
  <2>3. Evident(c, run'.attempts[c], store, git)
    BY <1>2
  <2> QED BY <2>1, <2>2, <2>3, EvidentKept, BackedKept
<1> QED BY <1>3 DEF WorkInv

LEMMA WorkCommit ==
  ASSUME IInv, FlowInv, WorkInv, NEW o \in Owners, DoCommit(o)
  PROVE  WorkInv'
<1> DEFINE s == todo[o]
           e == s[1].event
           t == IF poisoned' THEN << Fail >> ELSE Tail(s)
<1>1. /\ s \in Seq(PlannedOp) /\ s # << >> /\ s[1].op = "Do" /\ Call(o) = s[1] /\ s[1] \in PlannedOp
      /\ run.attempts[o] \in Seq(Attempt) /\ SoundCall(o, run.attempts[o], s, 1)
      /\ DOMAIN todo = Owners
  BY AtCall DEF DoCommit, IInv
<1>2. /\ CommitEvent(e) /\ todo' = [todo EXCEPT ![o] = t] /\ e \in PlannedEvent /\ e \in Event
      /\ UNCHANGED << store, git >>
  BY <1>1, OpFields DEF DoCommit, CommitOrFail, KeepsOutside, PlannedEvent
<1>3. e.kind \in {"NodeStarted", "NodeClosed"} => e.owner = o
  BY <1>1 DEF SoundCall, Begins, Closes, Commits
<1>4. run \in Projection
  BY DEF IInv, RunInv
<1>5. ASSUME NEW c \in Cands
      PROVE  Backed(c, todo'[c], store, git)
  <2>1. Backed(c, todo[c], store, git) /\ c \in Owners
    BY OwnerFacts DEF WorkInv
  <2>2. CASE c # o
    BY <1>1, <1>2, <2>1, <2>2
  <2>3. CASE c = o
    <3>1. todo'[c] = Tail(s) \/ todo'[c] = << Fail >>
      BY <1>1, <1>2, <2>3
    <3> QED BY <1>1, <2>1, <2>3, <3>1, BackedTail
  <2> QED BY <2>2, <2>3
<1>6. ASSUME NEW c \in Cands
      PROVE  Evident(c, run'.attempts[c], store, git)
  <2> DEFINE hs == run.attempts[c]
  <2>1. Evident(c, hs, store, git) /\ c \in Owners /\ Backed(c, todo[c], store, git)
    BY OwnerFacts DEF WorkInv
  <2>2. CASE run'.attempts[c] = hs
    BY <2>1, <2>2
  <2>3. CASE run'.attempts[c] # hs
    <3>1. e.kind \in {"NodeStarted", "NodeClosed"} /\ c = o
      BY <1>2, <1>3, <2>1, <2>3, CommitAttempts
    <3>2. run' = Reduce(run, e)
      BY <1>2, <2>3 DEF CommitEvent
    <3>3. CASE e.kind = "NodeStarted"
      <4>1. MayStart(c, hs, e.node) /\ e.node \in Nodes /\ e.number \in Nat /\ e.owner = c
        BY <1>1, <1>2, <1>3, <3>1, <3>3, EventFields DEF SoundCall, Begins, Commits
      <4>2. run'.attempts[c] = Append(hs, Opened(e.node, e.number))
        BY <1>2, <1>4, <2>1, <3>2, <3>3, <4>1, StartedAttempts DEF Opened
      <4>3. hs \in Seq(Attempt)
        BY <1>1, <3>1
      <4> HIDE DEF hs, e
      <4> QED BY <2>1, <4>1, <4>2, <4>3, EvidentBegin
    <3>4. CASE e.kind = "NodeClosed"
      <4>1. Closes(s[1])
        BY <1>1, <3>4 DEF Closes, Commits
      <4>2. OpenIn(hs) /\ IsAttempt(LastOf(hs), e.node, e.number) /\ e.owner = c
        BY <1>1, <1>3, <3>1, <4>1 DEF SoundCall
      <4>3. run'.attempts[c] = [i \in DOMAIN hs |-> CloseAttempt(hs[i], e)]
        BY <1>2, <1>4, <2>1, <3>2, <3>4, <4>2, ClosedAttempts
      <4>4. hs \in Seq(Attempt) /\ hs # << >>
        BY <1>1, <3>1, <4>2 DEF OpenIn
      <4>5. Proven(e.next, c, store, git)
        BY <1>1, <2>1, <3>1, <4>1, BackedTail
      <4> HIDE DEF hs, e
      <4> QED BY <1>2, <2>1, <3>4, <4>2, <4>3, <4>4, <4>5, EvidentClose
    <3> QED BY <3>1, <3>3, <3>4
  <2> QED BY <2>2, <2>3
<1> QED BY <1>2, <1>5, <1>6 DEF WorkInv

(***************************************************************************)
(* The bodies of the candidates' nodes.                                    *)
(***************************************************************************)
\* A body works on the last attempt of its candidate, which has no successor yet.
LEMMA AtWork ==
  ASSUME IInv, FlowInv, NEW c \in Cands, NEW op \in {"Edit", "Body"}, At(c, op)
  PROVE  /\ todo[c] \in Seq(PlannedOp) /\ todo[c] # << >> /\ Call(c) = todo[c][1]
         /\ Call(c).op = op /\ Call(c) \in PlannedOp
         /\ run.attempts[c] # << >> /\ LastOf(run.attempts[c]).status = "Started"
         /\ LastOf(run.attempts[c]).node = Call(c).node
         /\ Call(c).node \in CandidateNodes
         /\ op = "Body" => Tail(todo[c]) = << >>
<1> DEFINE s == todo[c]
           hs == run.attempts[c]
<1>1. /\ s \in Seq(PlannedOp) /\ s # << >> /\ Call(c) = s[1] /\ s[1].op = op /\ s[1] \in PlannedOp
      /\ hs \in Seq(Attempt) /\ Recorded(c, hs) /\ SoundCall(c, hs, s, 1)
  BY AtCall, OwnerFacts
<1>2. ~Begins(s[1]) /\ Current(hs, s, s[1].node)
  BY <1>1 DEF SoundCall, Begins, Commits
<1>3. OpenIn(hs) /\ LastOf(hs).node = s[1].node
  BY <1>2 DEF Current
<1>4. LastOf(hs).node \in CandidateNodes
  <2>1. Len(hs) \in DOMAIN hs
    BY <1>1, <1>3 DEF OpenIn
  <2> QED BY <1>1, <2>1 DEF Recorded, LastOf
<1>5. op = "Body" => Tail(s) = << >>
  BY <1>1, LastCall DEF LastOps
<1> QED BY <1>1, <1>3, <1>4, <1>5 DEF OpenIn

LEMMA RoutedNext ==
  ASSUME NEW c \in Cands, NEW node, NEW number, NEW out \in PlannedOutput
  PROVE  LET after == AfterRetryDecision(c, node, number, out)
         IN  \/ after.next \in {out.next, None, node, "Join"}
             \/ after.next = "Repair" /\ out.status = "Failed" /\ out.class = "TaskFailure"
<1>1. out \in Output
  BY DEF PlannedOutput
<1> DEFINE budget == c # RunOwner /\ HasRepairBudget(run.cands[c])
           decision == ClassifyRetry(node, out.class, number, MaxAttempts, budget)
<1>2. decision = "RouteToRepair" => out.class = "TaskFailure"
  BY DEF ClassifyRetry, FailureVerdict
<1> HIDE DEF decision
<1>3. AfterRetryDecision(c, node, number, out) =
        IF out.status # "Failed" THEN out
        ELSE CASE decision = "RetrySameNode" -> [out EXCEPT !.next = node]
               [] decision = "RouteToRepair" -> [out EXCEPT !.next = "Repair"]
               [] decision = "FailCandidate" -> [out EXCEPT !.next = "Join", !.cand = "Ineligible"]
               [] decision = "PauseForUser"  -> [out EXCEPT !.status = "Paused", !.next = None]
               [] decision = "Cancel"        -> [out EXCEPT !.status = "Cancelled", !.next = None]
               [] OTHER                      -> [out EXCEPT !.next = None]
  BY DEF AfterRetryDecision, decision, budget
<1>4. /\ \A next : [out EXCEPT !.next = next].next = next
      /\ [out EXCEPT !.next = "Join", !.cand = "Ineligible"].next = "Join"
      /\ [out EXCEPT !.status = "Paused", !.next = None].next = None
      /\ [out EXCEPT !.status = "Cancelled", !.next = None].next = None
  BY <1>1 DEF Output
<1> DEFINE after == AfterRetryDecision(c, node, number, out)
<1> HIDE DEF budget
<1>5. \/ after.next \in {out.next, None, node, "Join"}
      \/ after.next = "Repair" /\ out.status = "Failed" /\ decision = "RouteToRepair"
  <2> DEFINE a1 == [out EXCEPT !.next = node]
             a2 == [out EXCEPT !.next = "Repair"]
             a3 == [out EXCEPT !.next = "Join", !.cand = "Ineligible"]
             a4 == [out EXCEPT !.status = "Paused", !.next = None]
             a5 == [out EXCEPT !.status = "Cancelled", !.next = None]
             a6 == [out EXCEPT !.next = None]
  <2>1. /\ a1.next = node /\ a2.next = "Repair" /\ a3.next = "Join"
        /\ a4.next = None /\ a5.next = None /\ a6.next = None
    BY <1>4
  <2>2. \/ after \in {out, a1, a3, a4, a5, a6}
        \/ after = a2 /\ out.status = "Failed" /\ decision = "RouteToRepair"
    BY <1>3
  <2> HIDE DEF a1, a2, a3, a4, a5, a6
  <2> QED BY <2>1, <2>2
<1> HIDE DEF after
<1> QED BY <1>2, <1>5 DEF after

\* The verdict of a body names no successor that the files do not bear out: after a task
\* failure a repair, unless a review has passed.
LEMMA CandidateBodyCalls ==
  ASSUME IInv, FlowInv, NEW c \in Cands, At(c, "Body"), NEW out \in NodeOutput(Call(c).node),
         Produce(c, out), NEW st, NEW g, Proven(out.next, c, st, g),
         out.status = "Failed" /\ out.class = "TaskFailure" => ~st.review[c].passed
  PROVE  Backed(c, todo'[c], st, g) /\ \A d \in Cands : d # c => todo'[d] = todo[d]
<1> DEFINE s == todo[c]
           node == Call(c).node
           number == Call(c).number
           after == AfterRetryDecision(c, node, number, out)
           e == NodeClosed(c, node, number, after.status, after.next, after.why)
           patch == PatchCalls(c, node, after)
           last == Only(after.status \notin {"Succeeded", "Failed"}, Return("Blocked"))
           r == IF ~ValidResult(node, after.next) THEN << Fail >>
                ELSE << Do(e) >> \o patch \o last
           T == ProvenOp(c, st, g)
<1>1. /\ s \in Seq(PlannedOp) /\ s # << >> /\ Call(c) \in PlannedOp /\ Call(c).op = "Body"
      /\ node \in CandidateNodes /\ Tail(s) = << >> /\ c \in Owners /\ DOMAIN todo = Owners
  BY AtWork, OwnerFacts DEF IInv
<1>2. node \in Nodes /\ number \in Nat
  BY <1>1, OpFields
<1>3. todo' = [todo EXCEPT ![c] = (after.calls \o r) \o Tail(s)]
  BY DEF Produce, Continue, FinaliseCalls
<1>4. out \in PlannedOutput /\ after \in NodeOutput(node) /\ after \in PlannedOutput
  BY <1>1, <1>2, RoutedOutput DEF NodeOutput
<1>5. /\ \/ after.next \in {out.next, None, node, "Join"}
         \/ after.next = "Repair" /\ out.status = "Failed" /\ out.class = "TaskFailure"
  BY <1>4, RoutedNext
<1> HIDE DEF node, number, after
<1>6. ~ValidResult(node, node)
  <2>1. \A n \in CandidateNodes : n # None /\ n \notin AllowedSuccessors[n]
    BY DEF AllowedSuccessors, Nodes, RunNodes, CandidateNodes, None
  <2> QED BY <1>1, <2>1 DEF ValidResult
<1>7. ValidResult(node, after.next) => Proven(after.next, c, st, g)
  BY <1>5, <1>6 DEF Proven, None
<1>8. /\ after.status \in AttemptStatus \ {"Started"} /\ after.next \in Nodes \cup {None}
      /\ after.why \in Fingerprints \cup {0}
  BY <1>4 DEF PlannedOutput, Output, AttemptStatus
<1>9. e \in PlannedEvent /\ e.kind = "NodeClosed" /\ e.next = after.next
  BY <1>1, <1>2, <1>8, PlannedEvents DEF NodeClosed
<1>10. patch \in Seq(PatchOp)
  BY <1>1, <1>2, <1>4, PatchOps
<1> HIDE DEF e, patch
<1>11. /\ \A x \in PatchOp : x \in T
       /\ Return("Blocked") \in T /\ Fail \in T
       /\ ValidResult(node, after.next) => Do(e) \in T
  <2>1. \A x \in PatchOp : x \in T
    BY WorkOps
  <2>2. Return("Blocked") \in PlannedOp /\ Fail \in PlannedOp /\ Do(e) \in PlannedOp
    BY <1>9, PlannedOps DEF Outcome
  <2>3. Return("Blocked") \in T /\ Fail \in T
    BY <2>2, CallKinds DEF ProvenOp, Closes, Commits
  <2>4. ValidResult(node, after.next) => Do(e) \in T
    BY <1>7, <1>9, <2>2, CallKinds DEF ProvenOp
  <2> QED BY <2>1, <2>3, <2>4
<1>12. after.calls \in Seq(T)
  <2>1. after.calls \in Seq(SimpleOp)
    BY <1>4, NodeSeqs DEF NodeOutput
  <2>2. \A x \in SimpleOp : x \in T
    BY WorkOps
  <2> HIDE DEF T
  <2> QED BY <2>1, <2>2, SubSeqs
<1> HIDE DEF T
<1>13. patch \in Seq(T) /\ last \in Seq(T) /\ << Fail >> \in Seq(T)
  BY <1>10, <1>11, SubSeqs, SeqFacts
<1> HIDE DEF last
<1>14. r \in Seq(T)
  <2>1. CASE ~ValidResult(node, after.next)
    BY <1>13, <2>1
  <2>2. CASE ValidResult(node, after.next)
    <3>1. << Do(e) >> \in Seq(T)
      BY <1>11, <2>2, SeqFacts
    <3>2. << Do(e) >> \o patch \o last \in Seq(T)
      BY <1>13, <3>1, SeqFacts
    <3> QED BY <2>2, <3>2
  <2> QED BY <2>1, <2>2
<1> HIDE DEF r
<1>15. (after.calls \o r) \o Tail(s) \in Seq(T)
  <2>1. after.calls \o r \in Seq(T) /\ << >> \in Seq(T)
    BY <1>12, <1>14, SeqFacts
  <2> QED BY <1>1, <2>1, SeqFacts
<1> DEFINE u == (after.calls \o r) \o Tail(s)
<1>16. todo'[c] = u /\ \A d \in Cands : d # c => todo'[d] = todo[d]
  BY <1>1, <1>3, OwnerFacts
<1>17. u \in Seq(T)
  BY <1>15
<1> HIDE DEF u
<1> QED BY <1>16, <1>17 DEF Backed, T

LEMMA WorkBody ==
  ASSUME IInv, FlowInv, WorkInv, NEW c \in Cands, At(c, "Body"), KeepsEngine, UNCHANGED git,
         NEW out \in NodeOutput(Call(c).node), Produce(c, out),
         \A d \in Cands : d # c => KeptFiles(d, store, store'),
         Evident(c, run.attempts[c], store', git), Proven(out.next, c, store', git),
         out.status = "Failed" /\ out.class = "TaskFailure" => ~store'.review[c].passed
  PROVE  WorkInv'
<1>1. Backed(c, todo'[c], store', git) /\ \A d \in Cands : d # c => todo'[d] = todo[d]
  BY CandidateBodyCalls
<1>2. ASSUME NEW d \in Cands, d # c
      PROVE  Evident(d, run.attempts[d], store', git) /\ Backed(d, todo'[d], store', git)
  <2>1. /\ KeptFiles(d, store, store') /\ todo'[d] = todo[d]
        /\ KeptWork(d, git, git) /\ store.diff[d] \in Content
    BY <1>1, <1>2, SameWork, StoredPatches
  <2>2. Evident(d, run.attempts[d], store, git) /\ Backed(d, todo[d], store, git)
    BY DEF WorkInv
  <2> QED BY <2>1, <2>2, EvidentKept, BackedKept
<1> QED BY <1>1, <1>2 DEF WorkInv, KeepsEngine

\* A body that is about to write a patch or to test one: no review stands.
LEMMA Unreviewed ==
  ASSUME IInv, FlowInv, WorkInv, NEW c \in Cands, NEW op \in {"Edit", "Body"}, At(c, op),
         Call(c).node # "Review"
  PROVE  ~store.review[c].passed
<1>1. LastOf(run.attempts[c]).node # "Review"
  BY AtWork
<1> QED BY <1>1 DEF WorkInv, Evident

\* The evidence of an attempt that is open, whatever the files of a body are.
LEMMA EvidentOpen ==
  ASSUME IInv, FlowInv, WorkInv, NEW c \in Cands, NEW op \in {"Edit", "Body"}, At(c, op),
         NEW st, NEW g,
         Call(c).node \in {"Test", "Review"} => PatchInWork(c, st, g),
         Call(c).node = "Review" => TestsPassPatch(c, st),
         st.review[c].passed => Call(c).node = "Review" /\ BuildsOn(st.review[c].of, st.diff[c])
  PROVE  Evident(c, run.attempts[c], st, g)
<1> DEFINE hs == run.attempts[c]
           a == LastOf(hs)
<1>1. hs # << >> /\ a.status = "Started" /\ a.node = Call(c).node
  BY AtWork
<1>2. a.next = None
  BY <1>1 DEF WorkInv, Evident, Justified
<1> HIDE DEF a
<1>3. Justified(c, a, st, g)
  BY <1>1, <1>2 DEF Justified, None
<1> QED BY <1>1, <1>2, <1>3 DEF Evident, None, a

LEMMA OpenEvidence ==
  ASSUME IInv, FlowInv, WorkInv, NEW c \in Cands, NEW op \in {"Edit", "Body"}, At(c, op)
  PROVE  /\ Call(c).node \in {"Test", "Review"} => PatchInWork(c, store, git)
         /\ Call(c).node = "Review" => TestsPassPatch(c, store)
<1>1. /\ run.attempts[c] # << >> /\ LastOf(run.attempts[c]).node = Call(c).node
  BY AtWork
<1> QED BY <1>1 DEF WorkInv, Evident, Justified

LEMMA FailedFields ==
  \A class, why, calls :
    /\ Failed(class, why, calls).next = None /\ Failed(class, why, calls).class = class
    /\ Failed(class, why, calls).status = "Failed"
  BY DEF Failed

LEMMA SucceededFields ==
  \A next, calls :
    /\ Succeeded(next, calls).next = next /\ Succeeded(next, calls).class = None
    /\ Succeeded(next, calls).status = "Succeeded"
  BY DEF Succeeded

LEMMA ProvenNone ==
  ASSUME NEW c, NEW st, NEW g
  PROVE  Proven(None, c, st, g) /\ Proven("Join", c, st, g)
  BY DEF Proven, None

\* Implement and repair: the patch is written when the plan is approved, and a test follows
\* in that case only.
LEMMA WorkAgent ==
  ASSUME IInv, FlowInv, WorkInv, NEW c \in Cands, At(c, "Body"), KeepsEngine, UNCHANGED git,
         Call(c).node \notin {"Test", "Review"}, StoreDiff(c),
         NEW completed \in BOOLEAN, NEW why \in Fingerprints,
         NEW calls \in Seq(NodeOp(Call(c).node)), Produce(c, AgentOutput(completed, why, calls))
  PROVE  WorkInv'
<1> DEFINE out == AgentOutput(completed, why, calls)
<1>1. out \in NodeOutput(Call(c).node)
  BY AgentOutputs
<1>2. /\ store'.tests = store.tests /\ store'.review = store.review
      /\ \A d \in Cands : d # c => store'.diff[d] = store.diff[d]
      /\ PlanApproved(run) => store'.diff[c] = git.work[c]
  <2>1. store.diff \in [Cands -> Content] /\ store \in Store
    BY DEF IInv, Store
  <2>2. CASE PlanApproved(run)
    <3>1. store' = [store EXCEPT !.diff[c] = git.work[c]]
      BY <2>2 DEF StoreDiff
    <3> QED BY <2>1, <3>1 DEF Store
  <2>3. CASE ~PlanApproved(run)
    BY <2>3 DEF StoreDiff
  <2> QED BY <2>2, <2>3
<1>3. ~store'.review[c].passed
  BY <1>2, Unreviewed
<1>4. out.next = None \/ (out.next = "Test" /\ PlanApproved(run))
  BY FailedFields, SucceededFields DEF AgentOutput
<1>5. Proven(out.next, c, store', git)
  <2>1. BuildsOn(git.work[c], git.work[c])
    BY BuildsOnSelf DEF IInv, Git
  <2> QED BY <1>2, <1>4, <2>1 DEF Proven, PatchInWork, None
<1>6. Evident(c, run.attempts[c], store', git)
  BY <1>3, EvidentOpen
<1>7. \A d \in Cands : d # c => KeptFiles(d, store, store')
  BY <1>2 DEF KeptFiles
<1> HIDE DEF out
<1> QED BY <1>1, <1>3, <1>5, <1>6, <1>7, WorkBody DEF out

LEMMA WorkImplement ==
  ASSUME IInv, FlowInv, WorkInv, NEW c \in Cands, NEW ok \in BOOLEAN, NEW why \in Fingerprints,
         ImplementNode(c, ok, why) \/ RepairNode(c, ok, why)
  PROVE  WorkInv'
<1>1. /\ At(c, "Body") /\ KeepsEngine /\ UNCHANGED git /\ StoreDiff(c)
      /\ Call(c).node \notin {"Test", "Review"}
  BY DEF ImplementNode, RepairNode, AtBody
<1>2. PICK calls \in Seq(NodeOp(Call(c).node)) : Produce(c, AgentOutput(ok, why, calls))
  <2>1. CASE ImplementNode(c, ok, why)
    <3>1. << >> \in Seq(NodeOp(Call(c).node))
      BY NodeOps
    <3> QED BY <2>1, <3>1 DEF ImplementNode
  <2>2. CASE RepairNode(c, ok, why)
    <3>1. PICK f \in LatestFailure(run, c) :
            Produce(c, AgentOutput(ok, why,
              << Do(CandidateRepairStarted(c, run.cands[c].used + 1, f)) >>))
      BY <2>2 DEF RepairNode
    <3>2. HasRepairBudget(run.cands[c]) /\ Call(c).node = "Repair"
      BY <2>2 DEF RepairNode, AtBody
    <3> QED BY <3>1, <3>2, RepairCalls
  <2> QED BY <2>1, <2>2
<1> QED BY <1>1, <1>2, WorkAgent

LEMMA WorkTest ==
  ASSUME IInv, FlowInv, WorkInv, NEW c \in Cands, NEW passed \in BOOLEAN, NEW why \in Fingerprints,
         TestNode(c, passed, why)
  PROVE  WorkInv'
<1>1. At(c, "Body") /\ KeepsEngine /\ UNCHANGED git /\ Call(c).node = "Test" /\ c \in Owners
  BY OwnerFacts DEF TestNode, AtBody
<1>2. /\ store'.diff = store.diff /\ store'.review = store.review
      /\ store'.tests[c] = [of |-> git.work[c], passed |-> passed]
      /\ \A d \in Cands : d # c => store'.tests[d] = store.tests[d]
  BY <1>1, OwnerFacts DEF TestNode, IInv, Store
<1>3. ~store'.review[c].passed
  BY <1>1, <1>2, Unreviewed
<1>4. PatchInWork(c, store', git)
  BY <1>1, <1>2, OpenEvidence DEF PatchInWork
<1>5. Evident(c, run.attempts[c], store', git)
  BY <1>1, <1>3, <1>4, EvidentOpen
<1>6. \A d \in Cands : d # c => KeptFiles(d, store, store')
  BY <1>2 DEF KeptFiles
<1>7. PICK out \in NodeOutput("Test") :
        Produce(c, out) /\ (out.next = None \/ (out.next = "Review" /\ passed))
  <2>1. Succeeded("Review", << >>) \in NodeOutput("Test")
    BY NodeOps, NodeOutputs, NodeNames
  <2>2. Failed("TaskFailure", why, << >>) \in NodeOutput("Test")
    BY NodeOps, NodeOutputs DEF FailureClass
  <2>3. CASE passed
    BY <2>1, <2>3, SucceededFields DEF TestNode
  <2>4. CASE ~passed
    BY <2>2, <2>4, FailedFields DEF TestNode
  <2> QED BY <2>3, <2>4
<1>8. Proven(out.next, c, store', git)
  BY <1>2, <1>4, <1>7 DEF Proven, PatchInWork, TestsPassPatch, PassedOn, None
<1> QED BY <1>1, <1>3, <1>5, <1>6, <1>7, <1>8, WorkBody

LEMMA WorkReview ==
  ASSUME IInv, FlowInv, WorkInv, NEW c \in Cands, NEW passed \in BOOLEAN, NEW why \in Fingerprints,
         ReviewNode(c, passed, why)
  PROVE  WorkInv'
<1>1. At(c, "Body") /\ KeepsEngine /\ UNCHANGED git /\ Call(c).node = "Review" /\ c \in Owners
  BY OwnerFacts DEF ReviewNode, AtBody
<1>2. /\ store'.diff = store.diff /\ store'.tests = store.tests
      /\ store'.review[c] = [of |-> git.work[c], passed |-> passed]
      /\ \A d \in Cands : d # c => store'.review[d] = store.review[d]
  BY <1>1, OwnerFacts DEF ReviewNode, IInv, Store
<1>3. PatchInWork(c, store', git) /\ TestsPassPatch(c, store')
  BY <1>1, <1>2, OpenEvidence DEF PatchInWork, TestsPassPatch
<1>4. BuildsOn(store'.review[c].of, store'.diff[c]) /\ store'.review[c].passed = passed
  BY <1>2, <1>3 DEF PatchInWork
<1>5. Evident(c, run.attempts[c], store', git)
  BY <1>1, <1>3, <1>4, EvidentOpen
<1>6. \A d \in Cands : d # c => KeptFiles(d, store, store')
  BY <1>2 DEF KeptFiles
<1>7. PICK out \in NodeOutput("Review") :
        Produce(c, out) /\ out.next \in {None, "Join"} /\ (passed => out.status # "Failed")
  <2> DEFINE good == [Succeeded("Join", << >>) EXCEPT !.cand = "Eligible"]
  <2>1. good \in NodeOutput("Review")
    BY NodeOps, NodeOutputs, NodeNames
  <2>2. Failed("TaskFailure", why, << >>) \in NodeOutput("Review")
    BY NodeOps, NodeOutputs DEF FailureClass
  <2>3. CASE passed
    <3>1. Produce(c, good)
      BY <2>3 DEF ReviewNode
    <3>2. good.next = "Join" /\ good.status = "Succeeded"
      BY DEF Succeeded
    <3> HIDE DEF good
    <3> QED BY <2>1, <3>1, <3>2
  <2>4. CASE ~passed
    BY <2>2, <2>4, FailedFields DEF ReviewNode
  <2> QED BY <2>3, <2>4
<1>8. Proven(out.next, c, store', git)
  BY <1>7, ProvenNone
<1> QED BY <1>1, <1>4, <1>5, <1>6, <1>7, <1>8, WorkBody

LEMMA WorkKept ==
  ASSUME IInv, FlowInv, WorkInv, NEW c \in Cands, At(c, "Body"), KeepsEngine,
         UNCHANGED << store, git >>, NEW out \in NodeOutput(Call(c).node), Produce(c, out),
         out.next \in {None, "Join"},
         out.status = "Failed" /\ out.class = "TaskFailure" => ~store.review[c].passed
  PROVE  WorkInv'
<1>1. Evident(c, run.attempts[c], store, git) /\ Proven(out.next, c, store, git)
  BY ProvenNone DEF WorkInv
<1>2. \A d \in Cands : d # c => KeptFiles(d, store, store')
  BY DEF KeptFiles
<1> QED BY <1>1, <1>2, WorkBody

LEMMA WorkExhausted ==
  ASSUME IInv, FlowInv, WorkInv, NEW c \in Cands, NEW why \in Fingerprints, RepairExhausted(c, why)
  PROVE  WorkInv'
<1> DEFINE out == [Failed("TaskFailure", why, << >>) EXCEPT !.next = "Join", !.cand = "Ineligible"]
<1>1. /\ At(c, "Body") /\ KeepsEngine /\ UNCHANGED << store, git >> /\ Call(c).node = "Repair"
      /\ Produce(c, out)
  BY DEF RepairExhausted, AtBody
<1>2. out \in NodeOutput("Repair")
  BY NodeOps, NodeOutputs DEF FailureClass
<1>3. out.next = "Join"
  BY DEF Failed
<1>4. ~store.review[c].passed
  BY <1>1, Unreviewed
<1> HIDE DEF out
<1> QED BY <1>1, <1>2, <1>3, <1>4, WorkKept

\* An error of a service or a timeout is not a task failure at these nodes.
LEMMA WorkError ==
  ASSUME IInv, FlowInv, WorkInv, NEW c \in Cands, NEW class \in Faults, NodeError(c, class)
  PROVE  WorkInv'
<1>1. At(c, "Body") /\ KeepsEngine /\ UNCHANGED << store, git >> /\ class \in ErrorClasses(Call(c).node)
  BY DEF NodeError
<1>2. PICK why \in Fingerprints : Produce(c, Failed(class, why, << >>))
  BY DEF NodeError
<1>3. class # "TaskFailure"
  BY <1>1, AtWork DEF ErrorClasses, CandidateNodes
<1>4. Failed(class, why, << >>) \in NodeOutput(Call(c).node)
  BY EngineAssumption, NodeOps, NodeOutputs
<1> QED BY <1>1, <1>2, <1>3, <1>4, FailedFields, WorkKept

\* An agent edits its worktree while its attempt is open and before anything is said of it.
LEMMA WorkEdit ==
  ASSUME IInv, FlowInv, WorkInv, NEW o \in Owners, EditWorktree(o)
  PROVE  WorkInv'
<1>1. run' = run /\ UNCHANGED store /\ git \in Git /\ At(o, "Edit")
  BY DEF EditWorktree, KeepsEngine, IInv
<1>2. CASE o = RunOwner
  <2>1. git'.work = git.work
    BY <1>1, <1>2 DEF EditWorktree, Git
  <2>2. SameEvidence
    BY <1>1, <2>1 DEF SameEvidence, KeptFiles
  <2> QED BY <1>1, <2>2, EditMoves, WorkMoves
<1>3. CASE o # RunOwner
  <2> DEFINE s == todo[o]
  <2>1. o \in Cands /\ DOMAIN todo = Owners
    BY <1>3, OwnerFacts DEF IInv
  <2>2. /\ s \in Seq(PlannedOp) /\ s # << >> /\ s[1].op = "Edit" /\ Call(o) = s[1]
        /\ run.attempts[o] # << >>
        /\ Call(o).node \in CandidateNodes
    BY <1>1, <2>1, AtWork
  <2>3. Tail(s) \in Seq(WorkOp) /\ Edits(s[1].node)
    BY <2>1, <2>2, BackedTail DEF WorkInv
  <2>4. Call(o).node \in {"Implement", "Repair"}
    BY <2>2, <2>3 DEF Edits, CandidateNodes
  <2>5. \A d \in Cands : d # o => git'.work[d] = git.work[d]
    BY <1>1, <1>3 DEF EditWorktree, Git
  <2>6. todo' = [todo EXCEPT ![o] = << >> \o Tail(s)] /\ << >> \o Tail(s) \in Seq(WorkOp)
    BY <2>3, SeqFacts DEF EditWorktree, Continue
  <2>7. ~store.review[o].passed
    BY <1>1, <2>1, <2>4, Unreviewed
  <2>8. Evident(o, run.attempts[o], store', git')
    BY <1>1, <2>1, <2>4, <2>7, EvidentOpen
  <2>9. Backed(o, todo'[o], store', git')
    BY <2>1, <2>6 DEF Backed
  <2>10. ASSUME NEW d \in Cands, d # o
         PROVE  Evident(d, run.attempts[d], store', git') /\ Backed(d, todo'[d], store', git')
    <3>1. /\ KeptFiles(d, store, store') /\ todo'[d] = todo[d]
          /\ KeptWork(d, git, git') /\ store.diff[d] \in Content
      BY <1>1, <2>1, <2>5, <2>6, <2>10, OwnerFacts, SameWork, StoredPatches DEF KeptFiles
    <3>2. Evident(d, run.attempts[d], store, git) /\ Backed(d, todo[d], store, git)
      BY DEF WorkInv
    <3> QED BY <3>1, <3>2, EvidentKept, BackedKept
  <2> QED BY <1>1, <2>8, <2>9, <2>10 DEF WorkInv
<1> QED BY <1>2, <1>3

\* A gate that writes into a worktree leaves the files and the calls alone.
LEMMA WorkWritten ==
  ASSUME IInv, FlowInv, WorkInv, NEW o \in Owners, GateWrites(o)
  PROVE  WorkInv'
<1>1. UNCHANGED << run, todo, store >> /\ git \in Git
  BY DEF GateWrites, KeepsEngine, IInv
<1>2. ASSUME NEW c \in Cands
      PROVE  KeptWork(c, git, git')
  <2>1. git'.work[c] = git.work[c] \/ git'.work[c] = [git.work[c] EXCEPT !.wrote = @ + 1]
    BY <1>1 DEF GateWrites, Git, Content
  <2>2. git.work[c] \in Content
    BY <1>1 DEF Git
  <2> QED BY <2>1, <2>2, BuildsOnWritten DEF KeptWork
<1>3. ASSUME NEW c \in Cands
      PROVE  Evident(c, run.attempts[c], store, git') /\ Backed(c, todo[c], store, git')
  <2>1. KeptFiles(c, store, store) /\ store.diff[c] \in Content
    BY StoredPatches DEF KeptFiles
  <2>2. Evident(c, run.attempts[c], store, git) /\ Backed(c, todo[c], store, git)
    BY DEF WorkInv
  <2> QED BY <1>2, <2>1, <2>2, EvidentKept, BackedKept
<1> QED BY <1>1, <1>3 DEF WorkInv

\* The bodies of the run's nodes leave the candidates' files and worktrees alone.
RunBodies ==
  \/ PrepareNode
  \/ \E hash \in Hashes : PlanNode(hash)
  \/ FanOutNode
  \/ \E class \in Faults : NodeError(RunOwner, class)
  \/ \E eligible \in SUBSET Cands : JoinNode(eligible)
  \/ \E ok \in BOOLEAN : IntegrateNode(ok) \/ FinalTestNode(ok) \/ FinalReviewNode(ok)
  \/ CommitNode
  \/ CommitPauses

LEMMA RunBodiesKeep ==
  ASSUME IInv, RunBodies
  PROVE  /\ SameEvidence /\ store'.diff = store.diff /\ KeepsEngine /\ At(RunOwner, "Body")
         /\ \E calls : Continue(RunOwner, calls)
<1>1. store \in Store /\ git \in Git /\ RunOwner \in Owners /\ RunOwner \notin Cands
  BY OwnerFacts DEF IInv, Cands, RunOwner
<1>2. KeepsEngine /\ At(RunOwner, "Body") /\ \E calls : Continue(RunOwner, calls)
  BY DEF RunBodies, PrepareNode, PlanNode, FanOutNode, NodeError, JoinNode, IntegrateNode,
         FinalTestNode, FinalReviewNode, CommitNode, CommitPauses, AtBody, Produce
<1>3. \/ UNCHANGED store
      \/ \E files : store' = [store EXCEPT !.files = files]
      \/ \E evidence : store' = [store EXCEPT !.tests[RunOwner] = evidence]
      \/ \E evidence : store' = [store EXCEPT !.review[RunOwner] = evidence]
  BY DEF RunBodies, PrepareNode, PlanNode, FanOutNode, NodeError, JoinNode, IntegrateNode,
         FinalTestNode, FinalReviewNode, CommitNode, CommitPauses
<1>4. \/ UNCHANGED git
      \/ \E tree : git' = [git EXCEPT !.tree = tree]
      \/ \E branch : git' = [git EXCEPT !.branch = branch]
  BY DEF RunBodies, PrepareNode, PlanNode, FanOutNode, NodeError, JoinNode, IntegrateNode,
         FinalTestNode, FinalReviewNode, CommitNode, CommitPauses
<1>5. git'.work = git.work
  BY <1>1, <1>4 DEF Git
<1>6. store'.diff = store.diff
      /\ \A c \in Cands : store'.tests[c] = store.tests[c] /\ store'.review[c] = store.review[c]
  <2>1. \A c \in Cands : c # RunOwner /\ c \in Owners
    BY <1>1, OwnerFacts
  <2>2. CASE UNCHANGED store \/ \E files : store' = [store EXCEPT !.files = files]
    BY <1>1, <2>2 DEF Store
  <2>3. CASE \E evidence : store' = [store EXCEPT !.tests[RunOwner] = evidence]
    BY <1>1, <2>1, <2>3 DEF Store
  <2>4. CASE \E evidence : store' = [store EXCEPT !.review[RunOwner] = evidence]
    BY <1>1, <2>1, <2>4 DEF Store
  <2> QED BY <1>3, <2>2, <2>3, <2>4
<1> QED BY <1>2, <1>5, <1>6 DEF SameEvidence, KeptFiles

LEMMA WorkRun ==
  ASSUME IInv, WorkInv, RunBodies
  PROVE  WorkInv'
<1>1. SameEvidence /\ run' = run /\ \A c \in Cands : todo'[c] = todo[c] /\ c \in Owners
  <2>1. \A c \in Cands : c # RunOwner /\ c \in Owners
    BY OwnerFacts DEF Cands, RunOwner
  <2> QED BY <2>1, RunBodiesKeep DEF Continue, KeepsEngine, IInv
<1>2. ASSUME NEW c \in Cands
      PROVE  Evident(c, run.attempts[c], store', git') /\ Backed(c, todo[c], store', git')
  <2>1. KeptFiles(c, store, store') /\ KeptWork(c, git, git') /\ store.diff[c] \in Content
    BY <1>1, SameWork, StoredPatches DEF SameEvidence
  <2>2. Evident(c, run.attempts[c], store, git) /\ Backed(c, todo[c], store, git)
    BY DEF WorkInv
  <2> QED BY <2>1, <2>2, EvidentKept, BackedKept
<1> QED BY <1>1, <1>2 DEF WorkInv

LEMMA NextWork ==
  ASSUME IInv, FlowInv, WorkInv, Next
  PROVE  WorkInv'
<1>1. CASE NodeBody
  <2>1. ASSUME NEW o \in Owners, NEW class \in Faults, NodeError(o, class), ~RunBodies
        PROVE  WorkInv'
    <3>1. o \in Cands
      BY <2>1, OwnerFacts DEF RunBodies
    <3> QED BY <2>1, <3>1, WorkError
  <2> QED BY <1>1, <2>1, WorkEdit, WorkWritten, WorkImplement, WorkTest, WorkReview, WorkExhausted, WorkRun
          DEF NodeBody, RunBodies
<1>2. CASE ~NodeBody
  <2>1. SameEvidence
    BY <1>2, OutsideBodies
  <2> QED BY <1>2, <2>1, Moves, WorkMoves, WorkApart, WorkCommit
<1> QED BY <1>1, <1>2

LEMMA InitWork ==
  ASSUME Init
  PROVE  WorkInv
<1>1. ASSUME NEW c \in Cands
      PROVE  Evident(c, run.attempts[c], store, git) /\ Backed(c, todo[c], store, git)
  <2>1. run.attempts[c] = << >> /\ todo[c] = << >> /\ c \in Owners
    BY OwnerFacts DEF Init, Genesis
  <2>2. ~store.review[c].passed
    BY <2>1 DEF Init, NoEvidence
  <2> QED BY <2>1, <2>2, SeqFacts DEF Evident, Backed
<1> QED BY <1>1 DEF WorkInv

(***************************************************************************)
(* Who may be selected.                                                    *)
(***************************************************************************)
ChoiceKinds == {"RankingComputed", "WinnerSelected", "CandidatePromotionRequested"}

LEMMA ChoiceOps ==
  ASSUME NEW st
  PROVE  /\ \A x \in PlannedOp : ~Commits(x, ChoiceKinds) => x \in ChoiceOp(st)
         /\ \A x \in PlainOp : x \in ChoiceOp(st)
         /\ \A x \in FreshOp : x \in ChoiceOp(st)
         /\ \A x \in ExclusionOp : x \in ChoiceOp(st)
         /\ \A x \in SteadyOp : x \in ChoiceOp(st)
         /\ \A node : BodyKinds(node) \cap ChoiceKinds = {} =>
              \A x \in NodeOp(node) : x \in ChoiceOp(st)
<1>1. \A x \in PlannedOp : ~Commits(x, ChoiceKinds) => x \in ChoiceOp(st)
  BY DEF ChoiceOp, ChoosesWell, Commits, ChoiceKinds
<1>2. \A x \in PlainOp : x \in PlannedOp /\ ~Commits(x, ChoiceKinds)
  BY DEF PlainOp, PlainEvents, Commits, ChoiceKinds
<1>3. \A x \in FreshOp : x \in PlannedOp /\ ~Commits(x, ChoiceKinds)
  BY <1>2 DEF FreshOp, Commits
<1>4. \A x \in ExclusionOp : x \in PlannedOp /\ ~Commits(x, ChoiceKinds)
  BY DEF ExclusionOp, Commits, ChoiceKinds
<1>5. \A x \in SteadyOp : x \in PlannedOp /\ ~Commits(x, ChoiceKinds)
  BY DEF SteadyOp, Changes, Commits, SelectKinds, ChoiceKinds
<1>6. \A node : BodyKinds(node) \cap ChoiceKinds = {} =>
        \A x \in NodeOp(node) : x \in PlannedOp /\ ~Commits(x, ChoiceKinds)
  BY DEF NodeOp, Commits
<1> QED BY <1>1, <1>2, <1>3, <1>4, <1>5, <1>6

LEMMA MovedIn ==
  ASSUME NEW T, \A x \in PlainOp : x \in T, \A x \in ExclusionOp : x \in T,
         \A x \in FreshOp : x \in T, NEW s \in Seq(T), NEW t, Moved(s, t)
  PROVE  t \in Seq(T)
<1>1. CASE t \in Seq(FreshOp)
  BY <1>1, SubSeqs
<1>2. ASSUME s # << >>, NEW p, p \in Seq(PlainOp) \/ p \in Seq(ExclusionOp), t = p \o Tail(s)
      PROVE  t \in Seq(T)
  <2>1. p \in Seq(T)
    BY <1>2, SubSeqs
  <2>2. Tail(s) \in Seq(T)
    BY <1>2, SeqFacts
  <2>3. p \o Tail(s) \in Seq(T)
    BY <2>1, <2>2, SeqFacts
  <2> QED BY <1>2, <2>3
<1>3. CASE /\ s # << >> /\ s[1].op # "Do"
           /\ \E p : /\ p \in Seq(PlainOp) \/ (s[1].op = "ExcludeAll" /\ p \in Seq(ExclusionOp))
                     /\ t = p \o Tail(s)
  BY <1>2, <1>3
<1> QED BY <1>1, <1>3 DEF Moved

LEMMA ChoiceMoved ==
  ASSUME NEW st, NEW s \in Seq(ChoiceOp(st)), NEW t, Moved(s, t)
  PROVE  t \in Seq(ChoiceOp(st))
<1> DEFINE T == ChoiceOp(st)
<1>1. /\ \A x \in PlainOp : x \in T
      /\ \A x \in ExclusionOp : x \in T
      /\ \A x \in FreshOp : x \in T
  BY ChoiceOps
<1>2. s \in Seq(T)
  OBVIOUS
<1> HIDE DEF T
<1>3. t \in Seq(T)
  BY <1>1, <1>2, MovedIn
<1> QED BY <1>3 DEF T

\* Evidence that stays leaves every choice as good as it was.
LEMMA ChoiceKept ==
  ASSUME NEW st, NEW st2, \A c \in Cands : KeptFiles(c, st, st2)
  PROVE  /\ \A p \in Projection : Chosen(p, st) => Chosen(p, st2)
         /\ \A s \in Seq(ChoiceOp(st)) : s \in Seq(ChoiceOp(st2))
<1>1. \A c \in Cands : Choosable(c, st) => Choosable(c, st2)
  BY DEF KeptFiles, Choosable
<1>2. ASSUME NEW p \in Projection, Chosen(p, st)
      PROVE  Chosen(p, st2)
  <2>1. p.ranking \in Seq(Cands) /\ p.winner \in Cands \cup {NoCand}
    BY DEF Projection
  <2>2. \A i \in DOMAIN p.ranking : p.ranking[i] \in Cands
    BY <2>1
  <2> QED BY <1>1, <1>2, <2>1, <2>2 DEF Chosen
<1>3. ASSUME NEW e \in Event, ChoosesWell(e, st)
      PROVE  ChoosesWell(e, st2)
  <2>1. CASE e.kind = "RankingComputed"
    <3>1. e.ranking \in Seq(Cands)
      BY <2>1, EventFields
    <3>2. \A i \in DOMAIN e.ranking : e.ranking[i] \in Cands
      BY <3>1
    <3> QED BY <1>1, <1>3, <2>1, <3>2 DEF ChoosesWell
  <2>2. CASE e.kind = "WinnerSelected"
    BY <1>1, <1>3, <2>2, EventFields DEF ChoosesWell
  <2>3. CASE e.kind = "CandidatePromotionRequested"
    BY <1>1, <1>3, <2>3, EventFields DEF ChoosesWell
  <2> QED BY <2>1, <2>2, <2>3 DEF ChoosesWell
<1>4. \A x \in ChoiceOp(st) : x \in ChoiceOp(st2)
  <2> SUFFICES ASSUME NEW x \in ChoiceOp(st) PROVE x \in ChoiceOp(st2)
    OBVIOUS
  <2>1. x \in PlannedOp /\ (x.op = "Do" => ChoosesWell(x.event, st))
    BY DEF ChoiceOp
  <2>2. x.op = "Do" => x.event \in Event
    BY <2>1, OpFields DEF PlannedEvent
  <2>3. x.op = "Do" => ChoosesWell(x.event, st2)
    BY <1>3, <2>1, <2>2
  <2> QED BY <2>1, <2>3 DEF ChoiceOp
<1>5. \A s \in Seq(ChoiceOp(st)) : s \in Seq(ChoiceOp(st2))
  BY <1>4, SubSeqs
<1> QED BY <1>2, <1>5

LEMMA ReduceRankingField ==
  ASSUME NEW p \in Projection, NEW e \in Event
  PROVE  Reduce(p, e).ranking = (IF e.kind = "RankingComputed" THEN e.ranking ELSE p.ranking)
<1>1. CASE e.kind \in SelectKinds
  BY <1>1 DEF SelectKinds, Reduce, ReduceRegistered, ReduceRanking, ReduceWinner, ReduceIntegration,
              ReducePromotion, Projection
<1>2. CASE e.kind \notin SelectKinds
  BY <1>2 DEF SelectKinds, Reduce, ReduceStatus, ReduceStarted, ReduceClosed, ReduceVersion,
              ReduceDecision, ReduceInvalidated, ReduceCandidateStatus, ReduceRepair,
              ReduceExcluded, Projection
<1> QED BY <1>1, <1>2

\* What is committed chooses among the candidates that may be selected.
LEMMA ChosenAfter ==
  ASSUME IInv, NEW st, Chosen(run, st), NEW e \in PlannedEvent, ChoosesWell(e, st), CommitEvent(e)
  PROVE  Chosen(run', st)
<1>1. run \in Projection /\ e \in Event
  BY DEF IInv, RunInv, PlannedEvent
<1>2. CASE run' = run
  BY <1>2
<1>3. CASE run' = Reduce(run, e)
  <2>1. run'.ranking = (IF e.kind = "RankingComputed" THEN e.ranking ELSE run.ranking)
    BY <1>1, <1>3, ReduceRankingField
  <2>2. /\ run'.ranked = (IF e.kind = "RankingComputed" THEN TRUE ELSE run.ranked)
        /\ run'.winner = (IF e.kind = "WinnerSelected" THEN e.cand
                          ELSE IF e.kind = "CandidatePromotionRequested" THEN e.next
                          ELSE run.winner)
    BY <1>1, <1>3, ReduceRanked
  <2>3. CASE e.kind = "RankingComputed"
    BY <2>1, <2>2, <2>3 DEF Chosen, ChoosesWell
  <2>4. CASE e.kind # "RankingComputed"
    BY <2>1, <2>2, <2>4 DEF Chosen, ChoosesWell
  <2> QED BY <2>3, <2>4
<1> QED BY <1>2, <1>3 DEF CommitEvent

\* A step that leaves the evidence alone, and what is chosen and what is called on it.
LEMMA ChoiceStays ==
  ASSUME SameEvidence, run' \in Projection, Chosen(run', store),
         todo'[RunOwner] \in Seq(ChoiceOp(store))
  PROVE  ChoiceInv'
  BY ChoiceKept DEF SameEvidence, ChoiceInv

LEMMA ChoiceMoves ==
  ASSUME IInv, ChoiceInv, run' = run, \A q \in Owners : Moved(todo[q], todo'[q]), SameEvidence
  PROVE  ChoiceInv'
<1>1. run' \in Projection /\ Chosen(run', store)
  BY DEF IInv, RunInv, ChoiceInv
<1>2. todo'[RunOwner] \in Seq(ChoiceOp(store))
  BY OwnerFacts, ChoiceMoved DEF ChoiceInv
<1> QED BY <1>1, <1>2, ChoiceStays

LEMMA ChoiceApart ==
  ASSUME IInv, IInv', ChoiceInv, CommitsApart, SameEvidence
  PROVE  ChoiceInv'
<1>1. PICK e \in PlannedEvent : Apart(e) /\ CommitEvent(e)
  BY DEF CommitsApart
<1>2. ChoosesWell(e, store)
  BY <1>1 DEF Apart, RequestKindsOfEvents, ChoosesWell
<1>3. Chosen(run', store)
  BY <1>1, <1>2, ChosenAfter DEF ChoiceInv
<1> QED BY <1>3, ChoiceStays DEF IInv, RunInv, ChoiceInv, CommitsApart

LEMMA ChoiceCommit ==
  ASSUME IInv, IInv', FlowInv, GateInv, ChoiceInv, NEW o \in Owners, DoCommit(o)
  PROVE  ChoiceInv'
<1> DEFINE s == todo[o]
           e == s[1].event
           t == IF poisoned' THEN << Fail >> ELSE Tail(s)
           T == ChoiceOp(store)
<1>1. /\ s \in Seq(PlannedOp) /\ s # << >> /\ s[1].op = "Do" /\ Call(o) = s[1] /\ s[1] \in PlannedOp
      /\ DOMAIN todo = Owners
  BY AtCall DEF DoCommit, IInv
<1>2. /\ CommitEvent(e) /\ todo' = [todo EXCEPT ![o] = t] /\ e \in PlannedEvent
      /\ UNCHANGED << store, git >>
  BY <1>1, OpFields DEF DoCommit, CommitOrFail, KeepsOutside
<1>3. SameEvidence
  BY <1>2 DEF SameEvidence, KeptFiles
<1>4. todo[RunOwner] \in Seq(T) /\ RunOwner \in Owners
  BY OwnerFacts DEF ChoiceInv
<1>5. << Fail >> \in Seq(T)
  <2>1. Fail \in T
    BY PlannedOps, CallKinds, ChoiceOps DEF Commits
  <2> QED BY <2>1, SeqFacts
<1>6. ChoosesWell(e, store)
  <2>1. CASE o = RunOwner
    <3>1. \A x \in T : x.op = "Do" => ChoosesWell(x.event, store)
      BY DEF ChoiceOp
    <3> HIDE DEF T
    <3>2. s[1] \in T
      BY <1>1, <1>4, <2>1
    <3> QED BY <1>1, <3>1, <3>2
  <2>2. CASE o # RunOwner
    <3>1. s \in Seq(CandidateOp)
      BY <2>2, OwnerFacts DEF GateInv
    <3>2. s[1] \in CandidateOp
      BY <1>1, <3>1
    <3>3. e.kind \in CandidateEvents
      BY <1>1, <3>2 DEF CandidateOp
    <3> HIDE DEF e
    <3> QED BY <3>3 DEF CandidateEvents, PlainEvents, ChoosesWell
  <2> QED BY <2>1, <2>2
<1>7. Chosen(run', store)
  <2> HIDE DEF e
  <2> QED BY <1>2, <1>6, ChosenAfter DEF ChoiceInv
<1> HIDE DEF T
<1>8. todo'[RunOwner] \in Seq(T)
  <2>1. CASE o # RunOwner
    BY <1>1, <1>2, <1>4, <2>1
  <2>2. CASE o = RunOwner
    <3>1. Tail(s) \in Seq(T)
      BY <1>1, <1>4, <2>2, SeqFacts
    <3>2. t \in Seq(T)
      BY <1>5, <3>1
    <3> HIDE DEF t
    <3> QED BY <1>1, <1>2, <2>2, <3>2
  <2> QED BY <2>1, <2>2
<1> QED BY <1>3, <1>7, <1>8, ChoiceStays DEF T, IInv, RunInv

\* While candidates work nothing has been chosen, whatever they write.
LEMMA ChoiceWorks ==
  ASSUME IInv, FlowInv, SelectInv, ChoiceInv, NEW c \in Cands, task[c] = "running", KeepsEngine,
         todo'[RunOwner] = todo[RunOwner]
  PROVE  ChoiceInv'
<1>1. Unselected(run) /\ todo[RunOwner] = << Await >>
  BY DEF SelectInv, FlowInv, TaskInv
<1>2. run.ranking = << >> /\ run.winner = NoCand /\ run' = run
  BY <1>1 DEF ChoiceInv, Chosen, Unselected, KeepsEngine
<1>3. Chosen(run', store')
  <2>1. DOMAIN << >> = {}
    OBVIOUS
  <2> QED BY <1>2, <2>1 DEF Chosen
<1>4. Await \in ChoiceOp(store')
  BY PlannedOps, CallKinds, ChoiceOps DEF Commits
<1> DEFINE T == ChoiceOp(store')
<1>5. todo'[RunOwner] \in Seq(T)
  <2> HIDE DEF T
  <2>1. Await \in T
    BY <1>4 DEF T
  <2> QED BY <1>1, <2>1, SeqFacts
<1> QED BY <1>3, <1>5 DEF ChoiceInv

LEMMA ChoiceEdit ==
  ASSUME IInv, FlowInv, SelectInv, ChoiceInv, NEW o \in Owners, EditWorktree(o)
  PROVE  ChoiceInv'
<1>1. At(o, "Edit") /\ KeepsEngine /\ UNCHANGED store /\ Continue(o, << >>)
  BY DEF EditWorktree
<1>2. CASE o # RunOwner
  <2>1. o \in Cands /\ task[o] = "running"
    BY <1>1, <1>2, OwnerFacts DEF At, Runnable
  <2>2. todo'[RunOwner] = todo[RunOwner]
    BY <1>1, <1>2, OwnerFacts DEF Continue, IInv
  <2> QED BY <1>1, <2>1, <2>2, ChoiceWorks
<1>3. CASE o = RunOwner
  <2>1. git'.work = git.work
    BY <1>3 DEF EditWorktree, IInv, Git
  <2>2. SameEvidence
    BY <1>1, <2>1 DEF SameEvidence, KeptFiles
  <2> QED BY <2>2, EditMoves, ChoiceMoves
<1> QED BY <1>2, <1>3

LEMMA ChoiceWritten ==
  ASSUME ChoiceInv, NEW o \in Owners, GateWrites(o)
  PROVE  ChoiceInv'
<1>1. UNCHANGED << run, todo, store >>
  BY DEF GateWrites, KeepsEngine
<1> QED BY <1>1 DEF ChoiceInv

LEMMA ChoiceCandidateBody ==
  ASSUME IInv, FlowInv, SelectInv, ChoiceInv, NEW c \in Cands, NEW ok \in BOOLEAN,
         NEW why \in Fingerprints,
         \/ ImplementNode(c, ok, why) \/ TestNode(c, ok, why) \/ ReviewNode(c, ok, why)
         \/ RepairNode(c, ok, why) \/ RepairExhausted(c, why)
         \/ \E class \in Faults : NodeError(c, class)
  PROVE  ChoiceInv'
<1>1. At(c, "Body") /\ KeepsEngine /\ \E calls : Continue(c, calls)
  BY DEF ImplementNode, TestNode, ReviewNode, RepairNode, RepairExhausted, NodeError, AtBody, Produce
<1>2. c # RunOwner /\ task[c] = "running"
  BY <1>1, OwnerFacts DEF At, Runnable, Cands, RunOwner
<1>3. todo'[RunOwner] = todo[RunOwner]
  BY <1>1, <1>2, OwnerFacts DEF Continue, IInv
<1> QED BY <1>1, <1>2, <1>3, ChoiceWorks

(***************************************************************************)
(* The bodies of the run's nodes choose among proven candidates.           *)
(***************************************************************************)
\* A body of the run whose own calls choose well.
Chooses == \E out \in PlannedOutput :
             Produce(RunOwner, out) /\ out.calls \in Seq(ChoiceOp(store))

LEMMA ChoiceBody ==
  ASSUME IInv, IInv', FlowInv, ChoiceInv, RunBodies, Chooses
  PROVE  ChoiceInv'
<1> DEFINE T == ChoiceOp(store)
<1>1. SameEvidence /\ KeepsEngine /\ At(RunOwner, "Body")
  BY RunBodiesKeep
<1>2. PICK out \in PlannedOutput : Produce(RunOwner, out) /\ out.calls \in Seq(T)
  BY DEF Chooses
<1>3. PICK r \in Seq(SteadyOp) : todo'[RunOwner] = out.calls \o r
  BY <1>1, <1>2, BodyCallsFirst
<1>4. \A x \in SteadyOp : x \in T
  BY ChoiceOps
<1>5. out.calls \in Seq(T)
  BY <1>2
<1> HIDE DEF T
<1>6. r \in Seq(T)
  BY <1>4, SubSeqs
<1>7. todo'[RunOwner] \in Seq(T)
  BY <1>3, <1>5, <1>6, SeqFacts
<1>8. run' = run
  BY <1>1 DEF KeepsEngine
<1>9. run' \in Projection /\ Chosen(run', store)
  BY <1>8 DEF IInv, RunInv, ChoiceInv
<1> QED BY <1>1, <1>7, <1>9, ChoiceStays DEF T

LEMMA ChoiceQuietBody ==
  ASSUME Produces(RunOwner), BodyKinds(Call(RunOwner).node) \cap ChoiceKinds = {}
  PROVE  Chooses
<1> DEFINE node == Call(RunOwner).node
           T == ChoiceOp(store)
           S == NodeOp(node)
<1>1. PICK out \in NodeOutput(node) : Produce(RunOwner, out)
  BY DEF Produces
<1>2. out \in PlannedOutput /\ out.calls \in Seq(S)
  BY DEF NodeOutput
<1>3. \A x \in S : x \in T
  BY ChoiceOps
<1> HIDE DEF S, T
<1>4. out.calls \in Seq(T)
  BY <1>2, <1>3, SubSeqs
<1> QED BY <1>1, <1>2, <1>4 DEF Chooses, T

LEMMA ChoiceError ==
  ASSUME NEW class \in Faults, NodeError(RunOwner, class)
  PROVE  Chooses
<1>1. PICK why \in Fingerprints : Produce(RunOwner, Failed(class, why, << >>))
  BY DEF NodeError
<1>2. class \in FailureClass /\ << >> \in Seq(PlannedOp)
  BY EngineAssumption, NoCalls
<1>3. Failed(class, why, << >>) \in PlannedOutput
  BY <1>2, OutputTypes
<1>4. Failed(class, why, << >>).calls = << >> /\ << >> \in Seq(ChoiceOp(store))
  BY SeqFacts DEF Failed
<1> QED BY <1>1, <1>3, <1>4 DEF Chooses

LEMMA ChoiceSetup ==
  ASSUME IInv,
         \/ PrepareNode \/ (\E hash \in Hashes : PlanNode(hash)) \/ FanOutNode
         \/ CommitNode \/ CommitPauses
  PROVE  Chooses
<1>1. Produces(RunOwner)
  BY SetupOutput, CommitOutputs
<1>2. Call(RunOwner).node \in {"Prepare", "Plan", "FanOut", "Commit"}
  BY DEF PrepareNode, PlanNode, FanOutNode, CommitNode, CommitPauses, AtBody
<1>3. BodyKinds(Call(RunOwner).node) \cap ChoiceKinds = {}
  <2> DEFINE node == Call(RunOwner).node
  <2> HIDE DEF node
  <2>1. node \in {"Prepare", "Plan", "FanOut", "Commit"} => BodyKinds(node) \cap ChoiceKinds = {}
    BY DEF BodyKinds, ChoiceKinds
  <2> QED BY <1>2, <2>1 DEF node
<1> QED BY <1>1, <1>3, ChoiceQuietBody

\* A ranking holds what it orders.
LEMMA OrdersHold ==
  ASSUME NEW S \in SUBSET Cands, NEW s \in Orders(S)
  PROVE  (\A i \in DOMAIN s : s[i] \in S) /\ (S # {} => s[1] \in S)
<1>1. IsFiniteSet(S)
  <2>1. IsFiniteSet(Cands)
    BY ConstantsAssumption, FS_Interval DEF Cands
  <2> QED BY <2>1, FS_Subset
<1>2. Cardinality(S) \in Nat /\ (S # {} => Cardinality(S) # 0)
  BY <1>1, FS_CardinalityType, FS_EmptySet
<1>3. s \in [1..Cardinality(S) -> S]
  BY DEF Orders
<1> QED BY <1>2, <1>3

LEMMA ChoiceJoin ==
  ASSUME IInv, NEW eligible \in SUBSET Cands, JoinNode(eligible)
  PROVE  Chooses
<1> DEFINE excluded == {c \in Cands : Registered(run, c)} \ eligible
           x == ExcludeAll(excluded)
           y(r) == Do(RankingComputed(r))
           z(r) == Do(WinnerSelected(r[1]))
           none(r) == [Succeeded(None, << x, y(r) >>) EXCEPT !.run = "Exhausted"]
           some(r) == Succeeded("Integrate", << x, y(r) >> \o << z(r) >>)
           T == ChoiceOp(store)
<1>1. PICK r \in Orders(eligible) : Produce(RunOwner, IF eligible = {} THEN none(r) ELSE some(r))
  BY DEF JoinNode
<1>2. r \in Seq(Cands) /\ (eligible # {} => r[1] \in Cands)
  BY OrdersType
<1>3. \A c \in eligible : Choosable(c, store)
  BY DEF JoinNode, PassesGates, Choosable
<1>4. (\A i \in DOMAIN r : Choosable(r[i], store)) /\ (eligible # {} => Choosable(r[1], store))
  BY <1>3, OrdersHold
<1>5. x \in T /\ x \in PlannedOp
  BY PlannedOps, CallKinds, ChoiceOps DEF Commits
<1> HIDE DEF x
<1>6. y(r) \in T /\ y(r) \in PlannedOp
  <2> DEFINE e == RankingComputed(r)
  <2>1. e \in PlannedEvent /\ e.kind = "RankingComputed" /\ e.ranking = r
    BY <1>2, PlannedEvents DEF RankingComputed
  <2> HIDE DEF e
  <2>2. Do(e) \in PlannedOp /\ Do(e).op = "Do" /\ Do(e).event = e
    BY <2>1, PlannedOps, CallKinds
  <2>3. ChoosesWell(e, store)
    BY <1>4, <2>1 DEF ChoosesWell
  <2> QED BY <2>2, <2>3 DEF e, ChoiceOp
<1>7. eligible # {} => z(r) \in T /\ z(r) \in PlannedOp
  <2> SUFFICES ASSUME eligible # {} PROVE z(r) \in T /\ z(r) \in PlannedOp
    OBVIOUS
  <2> DEFINE c == r[1]
             e == WinnerSelected(c)
  <2>1. c \in Cands /\ Choosable(c, store)
    BY <1>2, <1>4
  <2> HIDE DEF c
  <2>2. e \in PlannedEvent /\ e.kind = "WinnerSelected" /\ e.cand = c
    BY <2>1, PlannedEvents DEF WinnerSelected
  <2> HIDE DEF e
  <2>3. Do(e) \in PlannedOp /\ Do(e).op = "Do" /\ Do(e).event = e
    BY <2>2, PlannedOps, CallKinds
  <2>4. ChoosesWell(e, store)
    BY <2>1, <2>2 DEF ChoosesWell
  <2> QED BY <2>3, <2>4 DEF c, e, ChoiceOp
<1> HIDE DEF y, z, T
<1>8. CASE eligible = {}
  <2> DEFINE calls == << x, y(r) >>
             out == [Succeeded(None, calls) EXCEPT !.run = "Exhausted"]
  <2>1. calls \in Seq(T) /\ calls \in Seq(PlannedOp)
    BY <1>5, <1>6, SeqFacts
  <2>2. Produce(RunOwner, out)
    BY <1>1, <1>8
  <2> HIDE DEF calls
  <2>3. out \in PlannedOutput
    <3>1. Succeeded(None, calls) \in PlannedOutput
      BY <2>1, OutputTypes
    <3> QED BY <3>1, OutputStatuses DEF RunStatus
  <2>4. out.calls = calls
    BY DEF Succeeded
  <2> HIDE DEF out
  <2> QED BY <2>1, <2>2, <2>3, <2>4 DEF Chooses, T
<1>9. CASE eligible # {}
  <2> DEFINE calls == << x, y(r) >> \o << z(r) >>
             out == Succeeded("Integrate", calls)
  <2>1. calls \in Seq(T) /\ calls \in Seq(PlannedOp)
    BY <1>5, <1>6, <1>7, <1>9, SeqFacts
  <2>2. Produce(RunOwner, out)
    BY <1>1, <1>9
  <2> HIDE DEF calls
  <2>3. out \in PlannedOutput /\ out.calls = calls
    BY <2>1, NodeNames, OutputTypes DEF Succeeded
  <2> HIDE DEF out
  <2> QED BY <2>1, <2>2, <2>3 DEF Chooses, T
<1> QED BY <1>8, <1>9

\* Only a ranked candidate is promoted.
LEMMA ChoicePromotion ==
  ASSUME run \in Projection, ChoiceInv, NEW winner \in Cands, NEW next \in NextPromotable(winner),
         NEW x \in PlannedOp, ~Commits(x, ChoiceKinds)
  PROVE  /\ Promotion(winner, next, << x >>) \in PlannedOutput
         /\ Promotion(winner, next, << x >>).calls \in Seq(ChoiceOp(store))
<1> DEFINE y == Do(CandidateExcluded(winner))
           z == Do(CandidatePromotionRequested(winner, next))
           T == ChoiceOp(store)
           all == << x >> \o << y, z >>
<1>1. next \in Cands \cup {NoCand}
  BY NextPromotableType
<1>2. next = NoCand \/ Choosable(next, store)
  <2>1. next = NoCand \/ \E i \in DOMAIN run.ranking : next = run.ranking[i]
    BY DEF NextPromotable
  <2> QED BY <2>1 DEF ChoiceInv, Chosen
<1>3. x \in T
  BY ChoiceOps
<1>4. y \in T
  <2> DEFINE e == CandidateExcluded(winner)
  <2>1. e \in PlannedEvent /\ e.kind = "CandidateExcluded"
    BY PlannedEvents DEF CandidateExcluded
  <2> HIDE DEF e
  <2>2. Do(e) \in PlannedOp /\ ~Commits(Do(e), ChoiceKinds)
    BY <2>1, PlannedOps, CallKinds DEF Commits, ChoiceKinds
  <2> QED BY <2>2, ChoiceOps DEF e
<1>5. z \in T
  <2> DEFINE e == CandidatePromotionRequested(winner, next)
  <2>1. e \in PlannedEvent /\ e.kind = "CandidatePromotionRequested" /\ e.next = next
    BY <1>1, PlannedEvents DEF CandidatePromotionRequested
  <2> HIDE DEF e
  <2>2. Do(e) \in PlannedOp /\ Do(e).op = "Do" /\ Do(e).event = e
    BY <2>1, PlannedOps, CallKinds
  <2>3. ChoosesWell(e, store)
    BY <1>2, <2>1 DEF ChoosesWell
  <2> QED BY <2>2, <2>3 DEF e, ChoiceOp
<1> HIDE DEF y, z, T
<1>6. all \in Seq(T)
  BY <1>3, <1>4, <1>5, SeqFacts
<1>7. Promotion(winner, next, << x >>).calls = all
  <2> HIDE DEF all
  <2>1. Succeeded(None, all).calls = all /\ Succeeded("Integrate", all).calls = all
        /\ [Succeeded(None, all) EXCEPT !.run = "Exhausted"].calls = all
    BY DEF Succeeded
  <2> QED BY <2>1 DEF Promotion, all, y, z
<1>8. Promotion(winner, next, << x >>) \in PlannedOutput
  BY <1>1, OneCall, PromotionType
<1> QED BY <1>6, <1>7, <1>8 DEF T

LEMMA ChoiceGate ==
  ASSUME IInv, ChoiceInv, run.winner # NoCand, NEW passed \in BOOLEAN, NEW next \in Nodes,
         NEW promoted \in NextPromotable(run.winner), NEW x \in PlannedOp, ~Commits(x, ChoiceKinds),
         Produce(RunOwner, FinalOutput(passed, next, promoted, x))
  PROVE  Chooses
<1>1. run \in Projection /\ run.winner \in Cands
  BY WinnerType
<1>2. CASE passed
  <2> DEFINE out == Succeeded(next, << x >>)
             T == ChoiceOp(store)
  <2>1. out \in PlannedOutput /\ out.calls = << x >> /\ Produce(RunOwner, out)
    BY <1>2, OneCall, OutputTypes DEF Succeeded, FinalOutput
  <2>2. x \in T
    BY ChoiceOps
  <2> HIDE DEF out, T
  <2>3. << x >> \in Seq(T)
    BY <2>2, SeqFacts
  <2> QED BY <2>1, <2>3 DEF Chooses, T
<1>3. CASE ~passed
  <2> DEFINE out == Promotion(run.winner, promoted, << x >>)
  <2>1. out \in PlannedOutput /\ out.calls \in Seq(ChoiceOp(store))
    BY <1>1, ChoicePromotion
  <2>2. Produce(RunOwner, out)
    BY <1>3 DEF FinalOutput
  <2> HIDE DEF out
  <2> QED BY <2>1, <2>2 DEF Chooses
<1> QED BY <1>2, <1>3

LEMMA ChoiceFinal ==
  ASSUME IInv, ChoiceInv, NEW ok \in BOOLEAN, IntegrateNode(ok) \/ FinalTestNode(ok) \/ FinalReviewNode(ok)
  PROVE  Chooses
<1> DEFINE w == run.winner
           x == Do(IntegrationAttempted(w, ok))
           y == Do(FinalTestEvidence(Verdict(ok)))
           z == Do(FinalReviewEvidence(Verdict(ok)))
<1>1. w # NoCand /\ w \in Cands
  BY WinnerType DEF IntegrateNode, FinalTestNode, FinalReviewNode
<1>2. \A e \in PlannedEvent : e.kind \notin ChoiceKinds =>
        Do(e) \in PlannedOp /\ ~Commits(Do(e), ChoiceKinds)
  BY PlannedOps, CallKinds DEF Commits
<1>3. x \in PlannedOp /\ ~Commits(x, ChoiceKinds)
  <2>1. IntegrationAttempted(w, ok) \in PlannedEvent /\ IntegrationAttempted(w, ok).kind \notin ChoiceKinds
    BY <1>1, PlannedEvents DEF IntegrationAttempted, ChoiceKinds
  <2> QED BY <1>2, <2>1
<1>4. y \in PlannedOp /\ ~Commits(y, ChoiceKinds) /\ z \in PlannedOp /\ ~Commits(z, ChoiceKinds)
  <2>1. Verdict(ok) \in {"Pass", "Fail"}
    BY DEF Verdict
  <2>2. FinalTestEvidence(Verdict(ok)) \in PlannedEvent /\ FinalReviewEvidence(Verdict(ok)) \in PlannedEvent
    BY <2>1, PlannedEvents
  <2>3. /\ FinalTestEvidence(Verdict(ok)).kind \notin ChoiceKinds
        /\ FinalReviewEvidence(Verdict(ok)).kind \notin ChoiceKinds
    BY DEF FinalTestEvidence, FinalReviewEvidence, ChoiceKinds
  <2> QED BY <1>2, <2>2, <2>3
<1> HIDE DEF x, y, z
<1>5. CASE IntegrateNode(ok)
  <2>1. PICK promoted \in NextPromotable(w) :
          Produce(RunOwner, FinalOutput(ok, "FinalTest", promoted, x))
    BY <1>5 DEF IntegrateNode, FinalOutput, x
  <2> QED BY <1>1, <1>3, <2>1, NodeNames, ChoiceGate
<1>6. CASE FinalTestNode(ok)
  <2>1. PICK promoted \in NextPromotable(w) :
          Produce(RunOwner, FinalOutput(ok, "FinalReview", promoted, y))
    BY <1>6 DEF FinalTestNode, y
  <2> QED BY <1>1, <1>4, <2>1, NodeNames, ChoiceGate
<1>7. CASE FinalReviewNode(ok)
  <2>1. PICK promoted \in NextPromotable(w) :
          Produce(RunOwner, FinalOutput(ok, "CommitApproval", promoted, z))
    BY <1>7 DEF FinalReviewNode, z
  <2> QED BY <1>1, <1>4, <2>1, NodeNames, ChoiceGate
<1> QED BY <1>5, <1>6, <1>7

LEMMA ChoiceRun ==
  ASSUME IInv, IInv', FlowInv, ChoiceInv, RunBodies
  PROVE  ChoiceInv'
<1>1. Chooses
  BY ChoiceSetup, ChoiceError, ChoiceJoin, ChoiceFinal DEF RunBodies
<1> QED BY <1>1, ChoiceBody

LEMMA NextChoice ==
  ASSUME IInv, IInv', FlowInv, GateInv, SelectInv, ChoiceInv, Next
  PROVE  ChoiceInv'
<1>1. CASE NodeBody
  <2>1. ASSUME NEW o \in Owners, NEW class \in Faults, NodeError(o, class), ~RunBodies
        PROVE  ChoiceInv'
    <3>1. o \in Cands
      BY <2>1, OwnerFacts DEF RunBodies
    <3>2. 1 \in Fingerprints /\ TRUE \in BOOLEAN
      BY OwnerFacts
    <3> QED BY <2>1, <3>1, <3>2, ChoiceCandidateBody
  <2>2. ASSUME NEW c \in Cands, NEW why \in Fingerprints, RepairExhausted(c, why)
        PROVE  ChoiceInv'
    BY <2>2, ChoiceCandidateBody
  <2> QED BY <1>1, <2>1, <2>2, ChoiceEdit, ChoiceWritten, ChoiceCandidateBody, ChoiceRun DEF NodeBody, RunBodies
<1>2. CASE ~NodeBody
  <2>1. SameEvidence
    BY <1>2, OutsideBodies
  <2> QED BY <1>2, <2>1, Moves, ChoiceMoves, ChoiceApart, ChoiceCommit
<1> QED BY <1>1, <1>2

LEMMA InitChoice ==
  ASSUME Init
  PROVE  ChoiceInv
<1>1. run.ranking = << >> /\ run.winner = NoCand /\ todo[RunOwner] = << >>
  BY OwnerFacts DEF Init, Genesis
<1>2. << >> \in Seq(ChoiceOp(store)) /\ DOMAIN << >> = {}
  BY SeqFacts
<1> QED BY <1>1, <1>2 DEF ChoiceInv, Chosen

\* The evidence of a candidate is about the patch stored from its worktree whenever something relies
\* on it: its tests run on the patch that was stored, its review starts on tests that passed,
\* a review that passed is the last thing that happened to it, and whoever is ranked, selected
\* or promoted passed its review (implement.rs, test.rs, review.rs, repair.rs, join.rs).
THEOREM EvidenceInvariant == Spec => []EvidenceInv
<1>1. Init => EvidenceInv
  BY InitWork, InitChoice DEF EvidenceInv
<1>2. /\ IInv /\ IInv' /\ FlowInv /\ GateInv /\ SelectInv /\ EvidenceInv /\ [Next]_vars
      => EvidenceInv'
  <2>1. ASSUME IInv, EvidenceInv, UNCHANGED vars PROVE EvidenceInv'
    <3>1. run' = run /\ SameEvidence /\ \A q \in Owners : Moved(todo[q], todo'[q])
      BY <2>1 DEF vars, SameEvidence, KeptFiles, Moved
    <3> QED BY <2>1, <3>1, WorkMoves, ChoiceMoves DEF EvidenceInv
  <2> QED BY <2>1, NextWork, NextChoice DEF EvidenceInv
<1> QED BY <1>1, <1>2, InductiveInvariant, FlowInvariant, GateInvariant, SelectInvariant, PTL DEF Spec

\* The winner's patch is not empty, and its tests and its review passed on that patch, with no
\* change to it but what the commands of the gates themselves made to the worktree, for any number of candidates, repairs, retries, crashes and promotions (join.rs selects on
\* the evidence files, which only the bodies of the candidate's own nodes replace).
THEOREM WinnerIsProven == Spec => []WinnerEvidenceIsFresh
<1>1. IInv /\ EvidenceInv => WinnerEvidenceIsFresh
  <2> SUFFICES ASSUME IInv, EvidenceInv, run.winner # NoCand
               PROVE  /\ store.diff[run.winner] # Baseline
                      /\ PassedOn(store.tests[run.winner], store.diff[run.winner])
                      /\ PassedOn(store.review[run.winner], store.diff[run.winner])
    BY DEF WinnerEvidenceIsFresh
  <2> DEFINE c == run.winner
  <2>1. c \in Cands
    BY WinnerType
  <2>2. Choosable(c, store) /\ Evident(c, run.attempts[c], store, git)
    BY <2>1 DEF EvidenceInv, ChoiceInv, Chosen, WorkInv
  <2> HIDE DEF c
  <2>3. TestsPassPatch(c, store) /\ BuildsOn(store.review[c].of, store.diff[c])
    BY <2>2 DEF Choosable, Evident, Justified
  <2> QED BY <2>2, <2>3 DEF c, Choosable, TestsPassPatch, PassedOn
<1> QED BY <1>1, InductiveInvariant, EvidenceInvariant, PTL
=============================================================================
