------------------------------- MODULE RunProofs -------------------------------
(***************************************************************************)
(* What the run as a whole promises: no candidate works without an         *)
(* approved plan, every completed repair is charged, and a cancelled run   *)
(* has left nothing to resume.                                             *)
(***************************************************************************)
EXTENDS FlowProofs, FiniteSetTheorems

(***************************************************************************)
(* How the calls of a task change when nothing is committed.               *)
(***************************************************************************)
PlainEvents == {"NodeStarted", "RunStatusChanged", "CandidateStatusChanged"}
PlainOp ==
  {x \in PlannedOp : x.op \notin {"ExcludeAll", "Edit"} /\ (x.op = "Do" => x.event.kind \in PlainEvents)}
FreshOp == {x \in PlannedOp : x \in PlainOp \/ (x.op = "Edit" /\ Edits(x.node))}
ExclusionOp == {x \in PlannedOp : x.op = "ExcludeAll" \/ Commits(x, {"CandidateExcluded"})}

\* The calls s become t: nothing happens, the task starts over with calls that no
\* body has planned, or such calls take the place of the first one.  A worktree is
\* edited only by a task that starts over.
Moved(s, t) ==
  \/ t = s
  \/ t \in Seq(FreshOp)
  \/ /\ s # << >> /\ s[1].op # "Do"
     /\ \E p : /\ p \in Seq(PlainOp) \/ (s[1].op = "ExcludeAll" /\ p \in Seq(ExclusionOp))
               /\ t = p \o Tail(s)

LEMMA SeqFacts ==
  ASSUME NEW S
  PROVE  /\ << >> \in Seq(S)
         /\ \A x \in S : << x >> \in Seq(S)
         /\ \A x, y \in S : << x, y >> \in Seq(S)
         /\ \A s, t \in Seq(S) : s \o t \in Seq(S)
         /\ \A s \in Seq(S) : s # << >> => Tail(s) \in Seq(S)
         /\ \A b, x : (b => x \in S) => Only(b, x) \in Seq(S)
<1>1. << >> \in Seq(S) /\ \A x \in S : << x >> \in Seq(S)
  OBVIOUS
<1>2. \A x, y \in S : << x, y >> \in Seq(S)
  OBVIOUS
<1>3. \A s, t \in Seq(S) : s \o t \in Seq(S)
  OBVIOUS
<1>4. \A s \in Seq(S) : s # << >> => Tail(s) \in Seq(S)
  OBVIOUS
<1>5. \A b, x : (b => x \in S) => Only(b, x) \in Seq(S)
  BY <1>1 DEF Only
<1> QED BY <1>1, <1>2, <1>3, <1>4, <1>5

LEMMA PlainOps ==
  /\ \A x \in PlannedOp : x.op \notin {"Do", "ExcludeAll", "Edit"} => x \in PlainOp
  /\ \A e \in PlannedEvent : e.kind \in PlainEvents => Do(e) \in PlainOp
  BY PlannedOps, CallKinds DEF PlainOp

LEMMA FreshSeqs ==
  /\ PlainOp \subseteq FreshOp
  /\ \A s \in Seq(PlainOp) : s \in Seq(FreshOp)
<1>1. \A x \in PlainOp : x \in FreshOp
  BY DEF PlainOp, FreshOp
<1> QED BY <1>1

LEMMA MovesOne ==
  ASSUME IInv, NEW o \in Owners, NEW t, todo' = [todo EXCEPT ![o] = t], Moved(todo[o], t)
  PROVE  \A q \in Owners : Moved(todo[q], todo'[q])
<1> SUFFICES ASSUME NEW q \in Owners PROVE Moved(todo[q], todo'[q])
  OBVIOUS
<1>1. DOMAIN todo = Owners
  BY DEF IInv
<1>2. CASE q = o
  BY <1>1, <1>2
<1>3. CASE q # o
  BY <1>1, <1>3 DEF Moved
<1> QED BY <1>2, <1>3

\* The task goes on with plain calls.
LEMMA MovesOn ==
  ASSUME IInv, NEW o \in Owners, todo[o] # << >>, Call(o).op # "Do", NEW p, Continue(o, p),
         p \in Seq(PlainOp) \/ (Call(o).op = "ExcludeAll" /\ p \in Seq(ExclusionOp))
  PROVE  \A q \in Owners : Moved(todo[q], todo'[q])
<1>1. todo[o] \in Seq(PlannedOp)
  BY DEF IInv
<1>2. Call(o) = todo[o][1]
  BY <1>1 DEF Call
<1>3. todo' = [todo EXCEPT ![o] = p \o Tail(todo[o])]
  BY DEF Continue
<1>4. Moved(todo[o], p \o Tail(todo[o]))
  BY <1>2 DEF Moved
<1> QED BY <1>3, <1>4, MovesOne

\* The task starts over.
LEMMA MovesAnew ==
  ASSUME IInv, NEW o \in Owners, NEW t, t \in Seq(PlainOp) \/ t \in Seq(FreshOp),
         todo' = [todo EXCEPT ![o] = t]
  PROVE  \A q \in Owners : Moved(todo[q], todo'[q])
<1>1. Moved(todo[o], t)
  BY FreshSeqs DEF Moved
<1> QED BY <1>1, MovesOne

LEMMA MovesNot ==
  /\ UNCHANGED todo => \A q \in Owners : Moved(todo[q], todo'[q])
  /\ (\E result : EndDispatch(result)) => \A q \in Owners : Moved(todo[q], todo'[q])
<1>1. UNCHANGED todo => \A q \in Owners : Moved(todo[q], todo'[q])
  BY DEF Moved
<1>2. ASSUME NEW result, EndDispatch(result), NEW q \in Owners PROVE Moved(todo[q], todo'[q])
  <2>1. todo'[q] = << >> /\ << >> \in Seq(FreshOp)
    BY <1>2, SeqFacts DEF EndDispatch
  <2> QED BY <2>1 DEF Moved
<1> QED BY <1>1, <1>2

LEMMA CallsMove ==
  ASSUME IInv, FlowInv, Calls
  PROVE  \/ \E o \in Owners : DoCommit(o)
         \/ run' = run /\ \A q \in Owners : Moved(todo[q], todo'[q])
<1>1. PICK o \in Owners :
        \/ ReadRunStatus(o) \/ ReadCandidateStatus(o) \/ DoCommit(o)
        \/ CancelNext(o) \/ ExcludeNext(o) \/ StartNode(o)
        \/ ReturnFrom(o) \/ FailFrom(o)
  BY DEF Calls
<1>a. run \in Projection /\ Fail \in PlainOp /\ << >> \in Seq(PlainOp)
  BY PlannedOps, CallKinds, PlainOps, SeqFacts DEF IInv, RunInv
<1>b. \A op : At(o, op) => todo[o] # << >> /\ Call(o) \in PlannedOp /\ Call(o).op = op
  BY CallType DEF At, Call, IInv
<1>2. CASE ReadRunStatus(o)
  <2> DEFINE e == StatusChanged(run.status, Call(o).to)
  <2>1. /\ todo[o] # << >> /\ Call(o).op # "Do" /\ Call(o).to \in RunStatus
        /\ run.status \in RunStatus /\ run' = run
    BY <1>2, <1>a, <1>b, OpFields DEF ReadRunStatus, Projection
  <2>2. e \in PlannedEvent /\ e.kind \in PlainEvents
    BY <2>1, PlannedEvents DEF StatusChanged, PlainEvents
  <2>3. << Do(e) >> \in Seq(PlainOp) /\ << Fail >> \in Seq(PlainOp)
    BY <1>a, <2>2, PlainOps, SeqFacts
  <2>4. Continue(o, << >>) \/ Continue(o, << Do(e) >>) \/ Continue(o, << Fail >>)
    BY <1>2 DEF ReadRunStatus
  <2> HIDE DEF e
  <2> QED BY <1>a, <2>1, <2>3, <2>4, MovesOn
<1>3. CASE ReadCandidateStatus(o)
  <2> DEFINE c == Call(o).cand
             from == run.cands[c].status
             e == CandidateStatusChanged(c, from, Call(o).to)
  <2>1. /\ todo[o] # << >> /\ Call(o).op # "Do" /\ c \in Cands
        /\ Call(o).to \in CandidateStatus /\ run' = run
    BY <1>3, <1>b, OpFields DEF ReadCandidateStatus
  <2>2. from # "Absent" => from \in CandidateStatus
    BY <1>a, <2>1 DEF Projection, CandidateRecord
  <2>3. from # "Absent" => e \in PlannedEvent /\ e.kind \in PlainEvents
    BY <2>1, <2>2, PlannedEvents DEF CandidateStatusChanged, PlainEvents
  <2>4. /\ from # "Absent" => << Do(e) >> \in Seq(PlainOp)
        /\ << Fail >> \in Seq(PlainOp)
    BY <1>a, <2>3, PlainOps, SeqFacts
  <2>5. \/ Continue(o, << >>) \/ Continue(o, << Fail >>)
        \/ from # "Absent" /\ Continue(o, << Do(e) >>)
    BY <1>3 DEF ReadCandidateStatus
  <2> HIDE DEF e, from, c
  <2> QED BY <1>a, <2>1, <2>4, <2>5, MovesOn
<1>4. CASE CancelNext(o)
  <2>1. todo[o] # << >> /\ Call(o).op # "Do" /\ Call(o).left \in SUBSET Cands /\ run' = run
    BY <1>4, <1>b, OpFields DEF CancelNext
  <2>2. << SetRun("Cancelled") >> \in Seq(PlainOp)
    BY PlannedOps, CallKinds, PlainOps, SeqFacts DEF RunStatus
  <2>3. ASSUME NEW c \in Call(o).left
        PROVE  << SetCand(c, "Cancelled"), CancelAll(Call(o).left \ {c}) >> \in Seq(PlainOp)
    <3>1. /\ SetCand(c, "Cancelled") \in PlainOp
          /\ CancelAll(Call(o).left \ {c}) \in PlainOp
      BY <2>1, PlannedOps, CallKinds, PlainOps DEF CandidateStatus
    <3> QED BY <3>1, SeqFacts
  <2>4. PICK calls \in Seq(PlainOp) : Continue(o, calls)
    BY <1>4, <2>2, <2>3 DEF CancelNext
  <2> QED BY <2>1, <2>4, MovesOn
<1>5. CASE ExcludeNext(o)
  <2>1. /\ todo[o] # << >> /\ Call(o).op = "ExcludeAll" /\ Call(o).left \in SUBSET Cands
        /\ run' = run
    BY <1>5, <1>b, OpFields DEF ExcludeNext
  <2>2. ASSUME NEW c \in Call(o).left
        PROVE  << Do(CandidateExcluded(c)), ExcludeAll(Call(o).left \ {c}) >> \in Seq(ExclusionOp)
    <3>1. CandidateExcluded(c) \in PlannedEvent /\ CandidateExcluded(c).kind = "CandidateExcluded"
      BY <2>1, PlannedEvents DEF CandidateExcluded
    <3>2. /\ Do(CandidateExcluded(c)) \in ExclusionOp
          /\ ExcludeAll(Call(o).left \ {c}) \in ExclusionOp
      BY <2>1, <3>1, PlannedOps, CallKinds DEF ExclusionOp, Commits
    <3> QED BY <3>2, SeqFacts
  <2>3. \/ Continue(o, << >>)
        \/ \E calls \in Seq(ExclusionOp) : Continue(o, calls)
    BY <1>5, <2>2 DEF ExcludeNext
  <2> QED BY <1>a, <2>1, <2>3, MovesOn
<1>6. CASE StartNode(o)
  <2> DEFINE node == Call(o).node
             number == NextAttemptNumber(run, o, node)
             e == NodeStarted(o, node, number)
  <2>1. todo[o] # << >> /\ Call(o).op # "Do" /\ node \in Nodes /\ run' = run
    BY <1>6, <1>b, OpFields DEF StartNode
  <2>2. number \in Nat
    BY <1>a, NumberType
  <2>3. << CancelAll(NonTerminal(run)), Return("Blocked") >> \in Seq(PlainOp)
    <3>1. NonTerminal(run) \in SUBSET Cands /\ "Blocked" \in Outcome
      BY DEF NonTerminal, Outcome
    <3>2. CancelAll(NonTerminal(run)) \in PlainOp /\ Return("Blocked") \in PlainOp
      BY <3>1, PlannedOps, CallKinds, PlainOps
    <3> QED BY <3>2, SeqFacts
  <2> HIDE DEF node, number
  <2>4. e \in PlannedEvent /\ e.kind \in PlainEvents
    BY <2>1, <2>2, PlannedEvents DEF NodeStarted, PlainEvents
  <2> HIDE DEF e
  <2>5. << Do(e) >> \o Only(Edits(node), Edit(node)) \o << Body(node, number) >> \in Seq(FreshOp)
    <3>1. Do(e) \in FreshOp /\ Body(node, number) \in FreshOp
      BY <2>1, <2>2, <2>4, PlannedOps, CallKinds, PlainOps, FreshSeqs
    <3>2. Edits(node) => Edit(node) \in FreshOp
      BY <2>1, PlannedOps, CallKinds DEF FreshOp
    <3>3. /\ << Do(e) >> \in Seq(FreshOp) /\ << Body(node, number) >> \in Seq(FreshOp)
          /\ Only(Edits(node), Edit(node)) \in Seq(FreshOp)
      BY <3>1, <3>2, SeqFacts
    <3> QED BY <3>3, SeqFacts
  <2>6. PICK calls \in Seq(FreshOp) : Continue(o, calls)
    BY <1>6, <2>3, <2>5, FreshSeqs DEF StartNode, node, number, e
  <2>7. Tail(todo[o]) = << >>
    <3>1. todo[o] \in Seq(PlannedOp) /\ todo[o] # << >> /\ Call(o).op = "Start"
      BY <1>6 DEF IInv, StartNode, At, Call
    <3>2. 1 \in DOMAIN todo[o] /\ todo[o][1].op \in LastOps
      BY <3>1 DEF Call, LastOps
    <3>3. SoundCall(o, run.attempts[o], todo[o], 1)
      BY <3>2 DEF FlowInv, OwnerInv, Sound
    <3> QED BY <3>1, <3>2, <3>3, LastCall
  <2>8. calls \o Tail(todo[o]) = calls
    <3>1. calls \o << >> = calls
      OBVIOUS
    <3> QED BY <2>7, <3>1
  <2>9. todo' = [todo EXCEPT ![o] = calls]
    BY <2>6, <2>8 DEF Continue
  <2> QED BY <2>1, <2>6, <2>9, MovesAnew
<1>7. CASE ReturnFrom(o) \/ FailFrom(o)
  <2>1. run' = run
    BY <1>7 DEF ReturnFrom, FailFrom, Ends
  <2>2. CASE o = RunOwner
    BY <1>7, <2>1, <2>2, MovesNot DEF ReturnFrom, FailFrom, Ends
  <2>3. CASE o # RunOwner
    BY <1>7, <1>a, <2>1, <2>3, MovesAnew DEF ReturnFrom, FailFrom, Ends
  <2> QED BY <2>2, <2>3
<1> QED BY <1>1, <1>2, <1>3, <1>4, <1>5, <1>6, <1>7

LEMMA LoopMoves ==
  ASSUME IInv, RunLoop
  PROVE  run' = run /\ \A q \in Owners : Moved(todo[q], todo'[q])
<1>1. run' = run
  BY DEF RunLoop, LoopFinish, LoopBlocked, LoopReturns, LoopAwaitPlan, LoopAwaitCommit,
         LoopCancel, LoopNode, LoopCandidates, LoopCalls, AwaitTasks
<1>2. CASE LoopFinish \/ LoopBlocked
  BY <1>2, MovesNot DEF LoopFinish, LoopBlocked, LoopReturns
<1>3. ASSUME NEW t \in Seq(PlainOp), todo' = [todo EXCEPT ![RunOwner] = t]
      PROVE  \A q \in Owners : Moved(todo[q], todo'[q])
  BY <1>3, MovesAnew, OwnerFacts
<1>4. /\ \A status \in {"AwaitingPlanApproval", "AwaitingCommitApproval"} :
           << SetRun(status), Return(status) >> \in Seq(PlainOp)
      /\ << CancelAll(NonTerminal(run)), Return("Cancelled") >> \in Seq(PlainOp)
      /\ << Await >> \in Seq(PlainOp)
  <2>1. /\ NonTerminal(run) \in SUBSET Cands
        /\ {"AwaitingPlanApproval", "AwaitingCommitApproval", "Cancelled"} \subseteq Outcome
        /\ {"AwaitingPlanApproval", "AwaitingCommitApproval", "Cancelled"} \subseteq RunStatus
    BY DEF NonTerminal, Outcome, RunStatus
  <2>2. /\ \A status \in {"AwaitingPlanApproval", "AwaitingCommitApproval"} :
             SetRun(status) \in PlainOp /\ Return(status) \in PlainOp
        /\ CancelAll(NonTerminal(run)) \in PlainOp /\ Return("Cancelled") \in PlainOp
        /\ Await \in PlainOp
    BY <2>1, PlannedOps, CallKinds, PlainOps
  <2> QED BY <2>2, SeqFacts
<1>5. CASE LoopAwaitPlan \/ LoopAwaitCommit \/ LoopCancel \/ LoopCandidates
  BY <1>3, <1>4, <1>5 DEF LoopAwaitPlan, LoopAwaitCommit, LoopCancel, LoopCandidates, LoopCalls
<1>6. CASE LoopNode
  <2> DEFINE node == NextRunStep(run).value
             target == DesiredRunStatus(run.status, node)
             t == Only(target # None, SetRun(target)) \o << Start(node) >>
  <2>1. NextRunStep(run).kind = "RunNode" /\ todo' = [todo EXCEPT ![RunOwner] = t]
    BY <1>6 DEF LoopNode, LoopCalls
  <2>2. node \in RunNodes
    BY <2>1, NextRunStepType DEF IInv, RunInv, RunStep
  <2>3. node \in Nodes
    BY <2>2, NodeNames
  <2> HIDE DEF node
  <2>4. target # None => target \in RunStatus
    <3>1. RunStatusForNode[node] \in RunStatus
      BY <2>2, <2>3 DEF RunStatusForNode, RunStatus
    <3> QED BY <3>1 DEF DesiredRunStatus
  <2> HIDE DEF target
  <2>5. Start(node) \in PlainOp /\ (target # None => SetRun(target) \in PlainOp)
    BY <2>3, <2>4, PlannedOps, CallKinds, PlainOps
  <2>6. t \in Seq(PlainOp)
    <3>1. << Start(node) >> \in Seq(PlainOp) /\ Only(target # None, SetRun(target)) \in Seq(PlainOp)
      BY <2>5, SeqFacts
    <3> QED BY <3>1, SeqFacts
  <2> HIDE DEF t
  <2> QED BY <1>1, <1>3, <2>1, <2>6
<1>7. CASE AwaitTasks
  <2> DEFINE p == Only(\E c \in Cands : task[c] = "failed", Fail)
  <2>1. todo[RunOwner] # << >> /\ Call(RunOwner).op # "Do" /\ Continue(RunOwner, p)
    BY <1>7 DEF AwaitTasks, At, Call
  <2>2. p \in Seq(PlainOp)
    BY PlannedOps, CallKinds, PlainOps, SeqFacts
  <2> HIDE DEF p
  <2> QED BY <1>1, <2>1, <2>2, MovesOn, OwnerFacts
<1> QED BY <1>1, <1>2, <1>5, <1>6, <1>7 DEF RunLoop

LEMMA CandidatesMove ==
  ASSUME IInv, FlowInv, Candidates
  PROVE  run' = run /\ \A q \in Owners : Moved(todo[q], todo'[q])
<1>1. PICK d \in Cands : AcquirePermit(d) \/ DriveCandidate(d)
  BY DEF Candidates
<1>2. run' = run /\ d \in Owners /\ d # RunOwner
  BY <1>1, OwnerFacts DEF AcquirePermit, DriveCandidate, Cands, RunOwner
<1>3. CASE UNCHANGED todo
  BY <1>2, <1>3, MovesNot
<1>4. CASE ~UNCHANGED todo
  <2> DEFINE node == NextCandidateStep(run, d)
             to == CandidateStatusForNode[node]
             t == CandidateCalls(d, node)
  <2>1. /\ DriveCandidate(d) /\ node # None /\ todo' = [todo EXCEPT ![d] = t]
        /\ lock = "dispatch" /\ task[d] = "running" /\ todo[d] = << >>
    BY <1>1, <1>2, <1>4 DEF AcquirePermit, DriveCandidate, Runnable
  <2>2. MayStart(d, run.attempts[d], node)
    BY <2>1, IdleTask, NextMayStart
  <2>3. node \in Nodes
    BY <2>2, NodeNames DEF MayStart
  <2> HIDE DEF node
  <2>4. to \in CandidateStatus \cup {None}
    BY <2>3 DEF CandidateStatusForNode, CandidateStatus
  <2> HIDE DEF to
  <2>5. Start(node) \in PlainOp /\ (to # None => SetCand(d, to) \in PlainOp)
    BY <2>3, <2>4, PlannedOps, CallKinds, PlainOps
  <2>6. /\ << Start(node) >> \in Seq(PlainOp)
        /\ Only(to # None, SetCand(d, to)) \in Seq(PlainOp)
    BY <2>5, SeqFacts
  <2>7. t = Only(to # None, SetCand(d, to)) \o << Start(node) >>
    BY DEF CandidateCalls, to
  <2>8. t \in Seq(PlainOp)
    BY <2>6, <2>7, SeqFacts
  <2> HIDE DEF t
  <2> QED BY <1>2, <2>1, <2>8, MovesAnew
<1> QED BY <1>3, <1>4

\* What is committed outside the tasks: by recovery, or for a request.
Apart(e) ==
  \/ e.kind \in RequestKindsOfEvents \cup {"CandidateStatusChanged"}
  \/ e.kind = "NodeClosed" /\ e.as = "Interrupted" /\ e.next = None
CommitsApart ==
  /\ todo' = todo /\ task' = task
  /\ lock = "recovering" \/ lock = "free" \/ \E r \in pending : r.held
  /\ \E e \in PlannedEvent : Apart(e) /\ CommitEvent(e)

LEMMA RecoveryMoves ==
  ASSUME IInv, Recovery
  PROVE  CommitsApart \/ (run' = run /\ \A q \in Owners : Moved(todo[q], todo'[q]))
<1>0. lock = "recovering" /\ todo' = todo /\ task' = task /\ run \in Projection
  BY DEF Recovery, RecoverAttempt, RecoverCandidate, RecoverDone, IInv, RunInv
<1>1. ASSUME NEW o \in Owners, NEW i \in OpenAttempts(run, o), RecoverAttempt(o, i)
      PROVE  CommitsApart
  <2> DEFINE a == run.attempts[o][i]
             e == NodeClosed(o, a.node, a.number, "Interrupted", None, 0)
  <2>1. a \in Attempt
    BY <1>0 DEF Projection, OpenAttempts
  <2>2. a.node \in Nodes /\ a.number \in Nat
    BY <2>1 DEF Attempt
  <2>3. e \in PlannedEvent /\ Apart(e)
    BY <2>2, PlannedEvents DEF AttemptStatus, NodeClosed, Apart
  <2>4. CommitEvent(e)
    BY <1>1 DEF RecoverAttempt
  <2> HIDE DEF e
  <2> QED BY <1>0, <2>3, <2>4 DEF CommitsApart
<1>2. ASSUME NEW d \in Cands, RecoverCandidate(d), ~UNCHANGED run
      PROVE  CommitsApart
  <2> DEFINE e == CandidateStatusChanged(d, run.cands[d].status, "Interrupted")
  <2>1. Interruptible(run.cands[d].status) /\ CommitEvent(e)
    BY <1>2 DEF RecoverCandidate
  <2>2. run.cands[d].status \in CandidateStatus /\ "Interrupted" \in CandidateStatus
    BY <1>0, <2>1 DEF Interruptible, Projection, CandidateRecord, CandidateStatus
  <2>3. e \in PlannedEvent /\ Apart(e)
    BY <2>2, PlannedEvents DEF CandidateStatusChanged, Apart
  <2> HIDE DEF e
  <2> QED BY <1>0, <2>1, <2>3 DEF CommitsApart
<1>3. UNCHANGED run => \A q \in Owners : Moved(todo[q], todo'[q])
  BY <1>0, MovesNot
<1> QED BY <1>1, <1>2, <1>3 DEF Recovery, RecoverDone

LEMMA ServiceMoves ==
  ASSUME IInv, FlowInv, Service
  PROVE  CommitsApart \/ (run' = run /\ \A q \in Owners : Moved(todo[q], todo'[q]))
<1>1. ASSUME NEW r \in pending, ServiceAppend(r)
      PROVE  CommitsApart
  <2>1. r.events \in Seq(PlannedEvent) /\ r.events # << >>
    BY <1>1 DEF IInv, PlannedRequest, ServiceAppend
  <2>2. 1 \in DOMAIN r.events /\ Head(r.events) = r.events[1] /\ Head(r.events) \in PlannedEvent
    BY <2>1
  <2>3. Apart(Head(r.events))
    BY <2>2 DEF FlowInv, TaskInv, Apart
  <2>4. CommitEvent(Head(r.events)) /\ UNCHANGED << todo, task >> /\ (lock = "free" \/ r.held)
    BY <1>1 DEF ServiceAppend
  <2> QED BY <2>2, <2>3, <2>4 DEF CommitsApart
<1>2. CASE ~\E r \in pending : ServiceAppend(r)
  <2>1. UNCHANGED << run, todo >>
    BY <1>2 DEF Service, UpdatePlan, DecidePlan, ApproveCommit, Cancel, Submit,
                RequestTimeout, RequestKilled
  <2> QED BY <2>1, MovesNot
<1> QED BY <1>1, <1>2

\* Every step commits, or finishes a body, or only moves calls.
LEMMA Moves ==
  ASSUME IInv, FlowInv, Next
  PROVE  \/ \E o \in Owners : DoCommit(o)
         \/ NodeBody
         \/ CommitsApart
         \/ run' = run /\ \A q \in Owners : Moved(todo[q], todo'[q])
<1>1. CASE Crash
  BY <1>1, MovesNot DEF Crash
<1>2. CASE Dispatch \/ DispatchRefused \/ \E r \in pending : FinaliseCancel(r) \/ CancelAlreadyFinal(r)
  BY <1>2, MovesNot DEF Dispatch, DispatchRefused, FinaliseCancel, CancelAlreadyFinal, BeginDispatch
<1> QED BY <1>1, <1>2, CallsMove, LoopMoves, CandidatesMove, RecoveryMoves, ServiceMoves
        DEF Next, Progress

\* An edit of a worktree only drops a call.
LEMMA EditMoves ==
  ASSUME IInv, NEW o \in Owners, EditWorktree(o)
  PROVE  run' = run /\ \A q \in Owners : Moved(todo[q], todo'[q])
<1>1. todo[o] # << >> /\ Call(o).op # "Do" /\ Continue(o, << >>) /\ << >> \in Seq(PlainOp)
  BY SeqFacts DEF EditWorktree, At, Call
<1> QED BY <1>1, MovesOn DEF EditWorktree, KeepsEngine

(***************************************************************************)
(* The plan gate.  While candidate tasks exist, the plan stays approved:   *)
(* the lock keeps requests out, and no call of a candidate's task commits  *)
(* an event about the plan.                                                *)
(***************************************************************************)
CandidateEvents == PlainEvents \cup {"NodeClosed", "CandidateRepairStarted"}

CandidateOp ==
  {x \in PlannedOp : x.op # "ExcludeAll" /\ (x.op = "Do" => x.event.kind \in CandidateEvents)}

GateInv ==
  \A c \in Cands : /\ todo[c] \in Seq(CandidateOp)
                   /\ task[c] # "none" => PlanApproved(run)

LEMMA CandidateOps ==
  /\ \A x \in PlannedOp : x.op \notin {"Do", "ExcludeAll"} => x \in CandidateOp
  /\ \A e \in PlannedEvent : e.kind \in CandidateEvents => Do(e) \in CandidateOp
  /\ CandidateOp \subseteq PlannedOp /\ PlainOp \subseteq CandidateOp /\ FreshOp \subseteq CandidateOp
  BY PlannedOps, CallKinds DEF CandidateOp, PlainOp, FreshOp, CandidateEvents

LEMMA CandidateMoved ==
  ASSUME NEW s \in Seq(CandidateOp), NEW t, Moved(s, t)
  PROVE  t \in Seq(CandidateOp)
<1>1. /\ \A p \in Seq(PlainOp) : p \in Seq(CandidateOp)
      /\ \A p \in Seq(FreshOp) : p \in Seq(CandidateOp)
  <2>1. (\A x \in PlainOp : x \in CandidateOp) /\ (\A x \in FreshOp : x \in CandidateOp)
    BY CandidateOps
  <2> QED BY <2>1
<1>2. s # << >> => s[1] \in CandidateOp /\ s[1].op # "ExcludeAll" /\ Tail(s) \in Seq(CandidateOp)
  <2>1. s # << >> => s[1] \in CandidateOp
    OBVIOUS
  <2> QED BY <2>1, SeqFacts DEF CandidateOp
<1>3. ASSUME s # << >>, NEW p \in Seq(PlainOp), t = p \o Tail(s)
      PROVE  t \in Seq(CandidateOp)
  <2>1. p \in Seq(CandidateOp) /\ Tail(s) \in Seq(CandidateOp)
    BY <1>1, <1>2, <1>3
  <2> QED BY <1>3, <2>1, SeqFacts
<1> QED BY <1>1, <1>2, <1>3 DEF Moved

\* The calls of the owner that moves become these; those of the others stay.
LEMMA CandidateTodo ==
  ASSUME IInv, GateInv, NEW o \in Owners, NEW t, todo' = [todo EXCEPT ![o] = t],
         o \in Cands => t \in Seq(CandidateOp)
  PROVE  \A c \in Cands : todo'[c] \in Seq(CandidateOp)
<1> SUFFICES ASSUME NEW c \in Cands PROVE todo'[c] \in Seq(CandidateOp)
  OBVIOUS
<1>1. c \in Owners /\ DOMAIN todo = Owners
  BY OwnerFacts DEF IInv
<1>2. CASE c = o
  BY <1>1, <1>2
<1>3. CASE c # o
  BY <1>1, <1>3 DEF GateInv
<1> QED BY <1>2, <1>3

LEMMA CandidateContinue ==
  ASSUME IInv, GateInv, NEW o \in Owners, todo[o] # << >>, NEW t, Continue(o, t),
         o \in Cands => t \in Seq(CandidateOp)
  PROVE  \A c \in Cands : todo'[c] \in Seq(CandidateOp)
<1>1. o \in Cands => t \o Tail(todo[o]) \in Seq(CandidateOp)
  <2> SUFFICES ASSUME o \in Cands PROVE t \o Tail(todo[o]) \in Seq(CandidateOp)
    OBVIOUS
  <2>1. todo[o] \in Seq(CandidateOp)
    BY DEF GateInv
  <2> DEFINE u == Tail(todo[o])
  <2>2. u \in Seq(CandidateOp)
    BY <2>1, SeqFacts
  <2> HIDE DEF u
  <2>3. t \o u \in Seq(CandidateOp)
    BY <2>2, SeqFacts
  <2> QED BY <2>3 DEF u
<1>2. todo' = [todo EXCEPT ![o] = t \o Tail(todo[o])]
  BY DEF Continue
<1> QED BY <1>1, <1>2, CandidateTodo

LEMMA CandidateCommit ==
  ASSUME IInv, GateInv, NEW o \in Owners, DoCommit(o)
  PROVE  \A c \in Cands : todo'[c] \in Seq(CandidateOp)
<1> DEFINE t == IF poisoned' THEN << Fail >> ELSE Tail(todo[o])
<1>1. todo' = [todo EXCEPT ![o] = t] /\ todo[o] # << >>
  BY DEF DoCommit, CommitOrFail, At
<1>2. o \in Cands => t \in Seq(CandidateOp)
  <2>1. Fail \in CandidateOp
    BY PlannedOps, CallKinds, CandidateOps
  <2> QED BY <1>1, <2>1, SeqFacts DEF GateInv
<1> HIDE DEF t
<1> QED BY <1>1, <1>2, CandidateTodo

\* The node of a candidate's attempt is one of the candidate's nodes.
LEMMA CandidateBody ==
  ASSUME IInv, FlowInv, NEW c \in Cands, At(c, "Body")
  PROVE  Call(c).node \in CandidateNodes
<1> DEFINE s == todo[c]
           hs == run.attempts[c]
<1>1. /\ s[1].op = "Body" /\ Call(c) = s[1] /\ SoundCall(c, hs, s, 1) /\ Recorded(c, hs)
      /\ hs \in Seq(Attempt)
  BY AtCall, OwnerFacts
<1> HIDE DEF s, hs
<1>2. ~Begins(s[1])
  BY <1>1 DEF Begins, Commits
<1>3. OpenIn(hs) /\ LastOf(hs).node = s[1].node
  BY <1>1, <1>2 DEF SoundCall, Current
<1>4. Len(hs) \in DOMAIN hs
  BY <1>1, <1>3 DEF OpenIn
<1> QED BY <1>1, <1>3, <1>4 DEF Recorded, LastOf

LEMMA CandidateBodyStep ==
  ASSUME IInv, FlowInv, GateInv, NodeBody
  PROVE  \A c \in Cands : todo'[c] \in Seq(CandidateOp)
<1>1. PICK o \in Owners : EditWorktree(o) \/ GateWrites(o) \/ Produces(o)
  BY BodyOutputs
<1>2. CASE EditWorktree(o)
  <2>1. todo[o] # << >> /\ Continue(o, << >>) /\ << >> \in Seq(CandidateOp)
    BY <1>2, SeqFacts DEF EditWorktree, At
  <2> QED BY <2>1, CandidateContinue
<1>4. CASE GateWrites(o)
  BY <1>4, GateWritesKeep DEF GateInv
<1>3. CASE Produces(o)
  <2> DEFINE node == Call(o).node
             number == Call(o).number
  <2>1. PICK out \in NodeOutput(node) : Produce(o, out)
    BY <1>3 DEF Produces
  <2>2. todo[o] # << >> /\ Call(o) \in PlannedOp /\ Call(o).op = "Body"
    BY <1>3, CallType DEF Produces, At, Call, IInv
  <2>3. node \in Nodes /\ number \in Nat
    BY <2>2, OpFields
  <2> DEFINE after == AfterRetryDecision(o, node, number, out)
             closed == Do(NodeClosed(o, node, number, after.status, after.next, after.why))
             patch == PatchCalls(o, node, after)
             last == Only(after.status \notin {"Succeeded", "Failed"}, Return("Blocked"))
             t == FinaliseCalls(o, node, number, after)
  <2>4. Continue(o, t)
    BY <2>1 DEF Produce
  <2>5. o \in Cands => t \in Seq(CandidateOp)
    <3> SUFFICES ASSUME o \in Cands PROVE t \in Seq(CandidateOp)
      OBVIOUS
    <3>1. node \in CandidateNodes
      BY <1>3, CandidateBody DEF Produces
    <3>2. after \in NodeOutput(node) /\ after \in PlannedOutput
      BY <2>3, RoutedOutput DEF NodeOutput
    <3> HIDE DEF node, number, after
    <3>3. BodyKinds(node) \subseteq CandidateEvents /\ node # "Join"
      BY <3>1 DEF BodyKinds, CandidateNodes, CandidateEvents, PlainEvents
    <3>4. \A x \in NodeOp(node) : x \in CandidateOp
      BY <3>3 DEF NodeOp, CandidateOp, Commits
    <3>5. after.calls \in Seq(CandidateOp)
      <4>1. after.calls \in Seq(NodeOp(node))
        BY <3>2 DEF NodeOutput
      <4> QED BY <3>4, <4>1
    <3>6. closed \in CandidateOp
      <4>1. /\ after.status \in AttemptStatus \ {"Started"} /\ after.next \in Nodes \cup {None}
            /\ after.why \in Fingerprints \cup {0}
        BY <3>2 DEF PlannedOutput, Output, AttemptStatus
      <4>2. NodeClosed(o, node, number, after.status, after.next, after.why) \in PlannedEvent
        BY <2>3, <4>1, PlannedEvents
      <4>3. NodeClosed(o, node, number, after.status, after.next, after.why).kind \in CandidateEvents
        BY DEF NodeClosed, CandidateEvents
      <4> QED BY <4>2, <4>3, CandidateOps
    <3>7. patch \in Seq(CandidateOp)
      <4>1. patch \in Seq(PatchOp)
        BY <2>3, <3>2, PatchOps
      <4>2. \A x \in PatchOp : x \in CandidateOp
        BY CandidateOps DEF PatchOp
      <4> HIDE DEF patch
      <4> QED BY <4>1, <4>2
    <3>8. last \in Seq(CandidateOp) /\ << Fail >> \in Seq(CandidateOp)
      <4>1. Return("Blocked") \in CandidateOp /\ Fail \in CandidateOp
        BY PlannedOps, CallKinds, CandidateOps DEF Outcome
      <4> QED BY <4>1, SeqFacts
    <3>9. t = after.calls \o (IF ~ValidResult(node, after.next) THEN << Fail >>
                             ELSE << closed >> \o patch \o last)
      BY DEF FinaliseCalls
    <3> HIDE DEF closed, patch, last, t
    <3> QED BY <3>5, <3>6, <3>7, <3>8, <3>9, SeqFacts
  <2> HIDE DEF t
  <2> QED BY <2>2, <2>4, <2>5, CandidateContinue
<1> QED BY <1>1, <1>2, <1>3, <1>4

LEMMA PlanKept ==
  ASSUME IInv, NEW e \in PlannedEvent, e.kind \in CandidateEvents, CommitEvent(e), PlanApproved(run)
  PROVE  PlanApproved(run')
<1>1. run \in Projection /\ e \in Event
  BY DEF IInv, RunInv, PlannedEvent
<1>2. /\ Reduce(run, e).versions = run.versions
      /\ Reduce(run, e).approval = run.approval
  BY <1>1 DEF CandidateEvents, PlainEvents, Reduce, ReduceStatus, ReduceStarted, ReduceClosed,
              ReduceCandidateStatus, ReduceRepair, Projection
<1>3. run'.versions = run.versions /\ run'.approval = run.approval
  BY <1>2 DEF CommitEvent
<1> QED BY <1>3 DEF PlanApproved, HasPlan, CurrentPlan

\* The scheduler starts candidate tasks only behind the gate.
LEMMA GateIsOpen ==
  ASSUME run \in Projection, NextRunStep(run).kind = "RunCandidates"
  PROVE  PlanApproved(run)
<1>1. PlanGate(run) = "Approved"
  <2>1. /\ \A x : Finish(x).kind # "RunCandidates" /\ Run(x).kind # "RunCandidates"
        /\ \A k : Step(k).kind = k
    BY DEF Finish, Run, Step
  <2>2. NextRunStep(run) = PlanStage(run)
    BY <2>1 DEF NextRunStep
  <2>3. PlanGate(run) \in {"WritePlan", "Await", "Rejected", "Approved"}
    BY DEF PlanGate
  <2>4. PlanGate(run) \notin {"WritePlan", "Await", "Rejected"}
    BY <2>1, <2>2 DEF PlanStage
  <2> QED BY <2>3, <2>4
<1>2. run.approval.decision \in Decision \cup {None}
  BY DEF Projection, Approval
<1> QED BY <1>1, <1>2 DEF PlanGate, PlanApproved, Decision

\* While candidate tasks exist, only they commit.
LEMMA TasksAlone ==
  ASSUME IInv, FlowInv, NEW c \in Cands, task[c] # "none"
  PROVE  /\ lock = "dispatch" /\ \A op : At(RunOwner, op) => op = "Await"
         /\ \A r \in pending : ~r.held
<1>1. todo[RunOwner] = << Await >> /\ lock = "dispatch"
  BY DEF FlowInv, TaskInv
<1>2. Head(<< Await >>).op = "Await"
  BY DEF Await
<1>3. \A r \in pending : ~r.held
  BY <1>1 DEF FlowInv, TaskInv
<1> QED BY <1>1, <1>2, <1>3 DEF At

LEMMA ApprovalStep ==
  ASSUME IInv, FlowInv, GateInv, Next, NEW c \in Cands, task'[c] # "none"
  PROVE  PlanApproved(run')
<1>a. DOMAIN task = Cands
  BY DEF IInv
<1>1. CASE UNCHANGED << run, task >>
  BY <1>1 DEF GateInv
<1>2. CASE task' = [d \in Cands |-> "none"]
  BY <1>2
<1>3. CASE lock # "dispatch" /\ UNCHANGED task
  BY <1>3 DEF FlowInv, TaskInv
<1>4. CASE Recovery
  <2>1. lock # "dispatch" /\ UNCHANGED task
    BY <1>4 DEF Recovery, RecoverAttempt, RecoverCandidate, RecoverDone
  <2> QED BY <1>3, <2>1
<1>5. CASE RunLoop
  <2>1. CASE LoopCandidates
    <3>1. NextRunStep(run).kind = "RunCandidates" /\ run' = run
      BY <2>1 DEF LoopCandidates, LoopCalls
    <3> QED BY <3>1, GateIsOpen DEF IInv, RunInv
  <2>2. CASE ~LoopCandidates
    <3>1. UNCHANGED << run, task >> \/ task' = [d \in Cands |-> "none"]
      BY <1>5, <2>2 DEF RunLoop, LoopFinish, LoopBlocked, LoopReturns, LoopAwaitPlan,
                        LoopAwaitCommit, LoopCancel, LoopNode, LoopCalls, AwaitTasks, EndDispatch
    <3> QED BY <1>1, <1>2, <3>1
  <2> QED BY <2>1, <2>2
<1>6. CASE \E o \in Owners : DoCommit(o)
  <2>1. PICK o \in Owners : DoCommit(o)
    BY <1>6
  <2>2. At(o, "Do") /\ task[c] # "none"
    BY <2>1 DEF DoCommit, KeepsTasks
  <2>3. o \in Cands
    BY <2>2, TasksAlone, OwnerFacts
  <2>4. todo[o] \in Seq(CandidateOp) /\ todo[o] # << >> /\ Call(o).op = "Do"
    BY <2>2, <2>3 DEF GateInv, At, Call
  <2>5. Call(o) \in CandidateOp
    BY <2>4 DEF Call
  <2>6. Call(o).event \in PlannedEvent /\ Call(o).event.kind \in CandidateEvents
    BY <2>4, <2>5, OpFields DEF CandidateOp
  <2>7. CommitEvent(Call(o).event) /\ PlanApproved(run)
    BY <2>1, <2>2 DEF DoCommit, CommitOrFail, GateInv
  <2> QED BY <2>6, <2>7, PlanKept
<1>7. ASSUME NEW o \in Owners, ReturnFrom(o) \/ FailFrom(o)
      PROVE  PlanApproved(run')
  <2>1. CASE o = RunOwner
    <3>1. task' = [d \in Cands |-> "none"]
      BY <1>7, <2>1 DEF ReturnFrom, FailFrom, Ends, EndDispatch
    <3> QED BY <1>2, <3>1
  <2>2. CASE o # RunOwner
    <3>1. PICK state : task' = [task EXCEPT ![o] = state]
      BY <1>7, <2>2 DEF ReturnFrom, FailFrom, Ends
    <3>2. run' = run /\ task[o] = "running" /\ o \in Cands
      BY <1>7, <2>2, OwnerFacts DEF ReturnFrom, FailFrom, Ends, At, Runnable
    <3> QED BY <3>2 DEF GateInv
  <2> QED BY <2>1, <2>2
<1>8. CASE Calls
  <2>1. \/ \E o \in Owners : DoCommit(o) \/ ReturnFrom(o) \/ FailFrom(o)
        \/ UNCHANGED << run, task >>
    BY <1>8 DEF Calls, ReadRunStatus, ReadCandidateStatus, CancelNext, ExcludeNext, StartNode,
                KeepsTasks
  <2> QED BY <1>1, <1>6, <1>7, <2>1
<1>9. CASE Candidates
  <2>1. PICK d \in Cands : AcquirePermit(d) \/ DriveCandidate(d)
    BY <1>9 DEF Candidates
  <2>2. run' = run /\ task[d] # "none"
    BY <2>1 DEF AcquirePermit, DriveCandidate, Runnable, Cands, RunOwner
  <2> QED BY <2>2 DEF GateInv
<1>10. CASE NodeBody
  <2>1. PICK o \in Owners : EditWorktree(o) \/ GateWrites(o) \/ Produces(o)
    BY <1>10, BodyOutputs
  <2> QED BY <1>1, <2>1 DEF EditWorktree, GateWrites, Produces, KeepsEngine
<1>11. CASE Service
  <2>1. CASE \E r \in pending : ServiceAppend(r)
    <3>1. PICK r \in pending : ServiceAppend(r)
      BY <2>1
    <3>2. (lock = "free" \/ r.held) /\ UNCHANGED task
      BY <3>1 DEF ServiceAppend
    <3> QED BY <3>2, TasksAlone
  <2>2. CASE ~\E r \in pending : ServiceAppend(r)
    <3>1. UNCHANGED << run, task >>
      BY <1>11, <2>2 DEF Service, UpdatePlan, DecidePlan, ApproveCommit, Cancel, Submit,
                         RequestTimeout, RequestKilled
    <3> QED BY <1>1, <3>1
  <2> QED BY <2>1, <2>2
<1>12. CASE Crash
  BY <1>2, <1>12 DEF Crash, EndDispatch
<1>13. CASE Dispatch \/ DispatchRefused \/ \E r \in pending : FinaliseCancel(r) \/ CancelAlreadyFinal(r)
  BY <1>1, <1>13 DEF Dispatch, DispatchRefused, FinaliseCancel, CancelAlreadyFinal, BeginDispatch
<1> QED BY <1>4, <1>5, <1>8, <1>9, <1>10, <1>11, <1>12, <1>13 DEF Next, Progress

LEMMA NextGate ==
  ASSUME IInv, FlowInv, GateInv, Next
  PROVE  GateInv'
<1>1. \A c \in Cands : todo'[c] \in Seq(CandidateOp)
  <2>1. CASE \A q \in Owners : Moved(todo[q], todo'[q])
    BY <2>1, CandidateMoved, OwnerFacts DEF GateInv
  <2> QED BY <2>1, Moves, CandidateCommit, CandidateBodyStep DEF GateInv, CommitsApart
<1>2. \A c \in Cands : task'[c] # "none" => PlanApproved(run')
  BY ApprovalStep
<1> QED BY <1>1, <1>2 DEF GateInv, PlanApproved, HasPlan, CurrentPlan

\* While a candidate task exists the current plan is the approved one, and a
\* candidate's task commits nothing about the plan (run_candidate_subgraphs holds the
\* lock that update_plan and the decisions need).
THEOREM GateInvariant == Spec => []GateInv
<1>1. Init => GateInv
  BY SeqFacts, OwnerFacts DEF Init, GateInv
<1>2. IInv /\ FlowInv /\ GateInv /\ [Next]_vars => GateInv'
  <2>1. GateInv /\ UNCHANGED vars => GateInv'
    BY DEF GateInv, vars, PlanApproved, HasPlan, CurrentPlan
  <2> QED BY <2>1, NextGate
<1> QED BY <1>1, <1>2, InductiveInvariant, FlowInvariant, PTL DEF Spec

\* A commit adds an attempt to the owner of a NodeStarted event and to no other.
LEMMA CommitGrows ==
  ASSUME IInv, NEW e \in PlannedEvent, CommitEvent(e), NEW o \in Owners,
         Len(run'.attempts[o]) > Len(run.attempts[o])
  PROVE  e.kind = "NodeStarted" /\ e.owner = o
<1>1. run \in Projection /\ e \in Event /\ run.attempts[o] \in Seq(Attempt)
      /\ Len(run.attempts[o]) \in Nat
  <2>1. run \in Projection /\ e \in Event /\ run.attempts[o] \in Seq(Attempt)
    BY DEF IInv, RunInv, PlannedEvent, Projection
  <2> QED BY <2>1
<1>2. run'.attempts[o] # run.attempts[o]
  BY <1>1
<1>3. e.kind \in {"NodeStarted", "NodeClosed"} /\ e.owner = o
  BY <1>2, CommitAttempts
<1>4. e.kind # "NodeClosed"
  <2> SUFFICES ASSUME e.kind = "NodeClosed" PROVE FALSE
    OBVIOUS
  <2> DEFINE hs == run.attempts[o]
             bs == run'.attempts[o]
  <2>1. bs = [i \in DOMAIN hs |-> CloseAttempt(hs[i], e)]
    BY <1>1, <1>2, <1>3, ClosedAttempts DEF CommitEvent
  <2>2. Len(bs) > Len(hs) /\ hs \in Seq(Attempt)
    BY <1>1
  <2> HIDE DEF hs, bs
  <2>3. DOMAIN bs = 1..Len(hs) /\ Len(hs) \in Nat
    BY <2>1, <2>2
  <2>4. Len(bs) = Len(hs)
    BY <2>1, <2>3
  <2> QED BY <2>2, <2>3, <2>4
<1> QED BY <1>3, <1>4

LEMMA StartsApproved ==
  ASSUME IInv, FlowInv, GateInv, Next, NEW c \in Cands,
         Len(run'.attempts[c]) > Len(run.attempts[c])
  PROVE  PlanApproved(run)
<1>a. c \in Owners /\ run.attempts[c] \in Seq(Attempt) /\ run \in Projection
  BY OwnerFacts DEF IInv, RunInv, Projection
<1>b. run' # run
  BY <1>a
<1>1. CASE \E o \in Owners : DoCommit(o)
  <2>1. PICK o \in Owners : DoCommit(o)
    BY <1>1
  <2> DEFINE s == todo[o]
             e == s[1].event
  <2>2. /\ s \in Seq(PlannedOp) /\ s[1].op = "Do" /\ Call(o) = s[1] /\ s[1] \in PlannedOp
        /\ SoundCall(o, run.attempts[o], s, 1) /\ Runnable(o)
    BY <2>1, AtCall DEF DoCommit
  <2>3. e \in PlannedEvent /\ CommitEvent(e)
    BY <2>1, <2>2, OpFields DEF DoCommit, CommitOrFail
  <2>4. e.kind = "NodeStarted" /\ e.owner = c
    BY <1>a, <2>3, CommitGrows
  <2>5. e.owner = o
    BY <2>2, <2>4 DEF SoundCall, Begins, Commits
  <2>6. task[c] = "running"
    BY <2>2, <2>4, <2>5 DEF Runnable, Cands, RunOwner
  <2> QED BY <2>6 DEF GateInv
<1>2. ASSUME NEW e \in PlannedEvent, CommitEvent(e), e.kind # "NodeStarted"
      PROVE  FALSE
  BY <1>2, <1>a, CommitGrows
<1>3. CASE NodeBody
  <2>1. PICK o \in Owners : EditWorktree(o) \/ GateWrites(o) \/ Produces(o)
    BY <1>3, BodyOutputs
  <2> QED BY <1>b, <2>1 DEF EditWorktree, GateWrites, Produces, KeepsEngine
<1>4. CASE CommitsApart
  <2>1. PICK e \in PlannedEvent : Apart(e) /\ CommitEvent(e)
    BY <1>4 DEF CommitsApart
  <2>2. e.kind # "NodeStarted"
    BY <2>1 DEF Apart, RequestKindsOfEvents
  <2> QED BY <1>2, <2>1, <2>2
<1> QED BY <1>1, <1>3, <1>4, <1>b, Moves

\* No candidate's attempt is ever recorded unless the current plan is the one approved,
\* for any number of candidates and permits, whatever decisions, edits, cancellations
\* and crashes race with the dispatcher (plan_gate, append_locked).
THEOREM WorkIsApproved == Spec => WorkNeedsApproval
<1>1. /\ IInv /\ FlowInv /\ GateInv
      /\ [Next]_vars
      => [ \A c \in Cands :
             Len(run'.attempts[c]) > Len(run.attempts[c]) => PlanApproved(run) ]_run
  BY StartsApproved DEF vars
<1> QED BY <1>1, InductiveInvariant, FlowInvariant, GateInvariant, PTL DEF Spec, WorkNeedsApproval

(***************************************************************************)
(* Repairs are charged.  The charge is the first call that a body leaves,  *)
(* the verdict comes after it; in between, the candidate has one repair    *)
(* less to its credit than its history will show.                          *)
(***************************************************************************)
Charges(x) == Commits(x, {"CandidateRepairStarted"})
Repaired(x) == Closes(x) /\ x.event.node = "Repair" /\ x.event.as = "Succeeded"
CalmOp == {x \in PlannedOp : ~Charges(x) /\ ~Repaired(x)}

\* Calls of a candidate with n completed and u charged repairs.
SafeOp(n, u) == {x \in PlannedOp : ~Charges(x) /\ (Repaired(x) => n < u)}
Charged(c, s, n, u) ==
  /\ n <= u
  /\ \/ s \in Seq(SafeOp(n, u))
     \/ /\ s # << >> /\ Tail(s) \in Seq(SafeOp(0, 1))
        /\ Charges(s[1]) /\ s[1].event.cand = c /\ s[1].event.used = u + 1

ChargeInv ==
  /\ todo[RunOwner] \in Seq(CalmOp)
  /\ \A c \in Cands : Charged(c, todo[c], Cardinality(RepairsDone(c)), run.cands[c].used)

LEMMA CalmOps ==
  /\ PlainOp \subseteq CalmOp /\ FreshOp \subseteq CalmOp /\ ExclusionOp \subseteq CalmOp /\ PatchOp \subseteq CalmOp
  /\ \A n, u : CalmOp \subseteq SafeOp(n, u)
  /\ \A x \in PlannedOp : x.op # "Do" => x \in CalmOp
  /\ \A x \in PlannedOp : Follows(x) => x \in CalmOp
  BY DEF PlainOp, FreshOp, ExclusionOp, PatchOp, CalmOp, SafeOp, Charges, Repaired, Closes, Commits,
         PlainEvents, Follows

LEMMA CalmSeqs ==
  /\ \A s : \/ s \in Seq(PlainOp) \/ s \in Seq(FreshOp)
           \/ s \in Seq(ExclusionOp) \/ s \in Seq(PatchOp)
           => s \in Seq(CalmOp)
  /\ \A n, u : \A s \in Seq(CalmOp) : s \in Seq(SafeOp(n, u))
<1>1. ASSUME NEW S, S \subseteq CalmOp, NEW s \in Seq(S)
      PROVE  s \in Seq(CalmOp)
  <2>1. \A x \in S : x \in CalmOp
    BY <1>1
  <2> QED BY <2>1
<1>2. ASSUME NEW n, NEW u, NEW s \in Seq(CalmOp)
      PROVE  s \in Seq(SafeOp(n, u))
  <2> DEFINE T == SafeOp(n, u)
  <2>1. \A x \in CalmOp : x \in T
    BY CalmOps
  <2> HIDE DEF T
  <2>2. s \in Seq(T)
    BY <2>1
  <2> QED BY <2>2 DEF T
<1> QED BY <1>1, <1>2, CalmOps

\* Moving the calls of the run keeps them calm, and those of a candidate charged.
LEMMA CalmMoved ==
  ASSUME NEW s \in Seq(CalmOp), NEW t, Moved(s, t)
  PROVE  t \in Seq(CalmOp)
<1>1. s # << >> => Tail(s) \in Seq(CalmOp)
  BY SeqFacts
<1>2. ASSUME s # << >>, NEW p \in Seq(CalmOp), t = p \o Tail(s)
      PROVE  t \in Seq(CalmOp)
  <2> DEFINE u == Tail(s)
  <2>1. u \in Seq(CalmOp)
    BY <1>1, <1>2
  <2> HIDE DEF u
  <2>2. p \o u \in Seq(CalmOp)
    BY <2>1, SeqFacts
  <2> QED BY <1>2, <2>2 DEF u
<1> QED BY <1>1, <1>2, CalmSeqs DEF Moved

LEMMA ChargedMoved ==
  ASSUME NEW c, NEW s \in Seq(PlannedOp), NEW t, NEW n, NEW u, Charged(c, s, n, u), Moved(s, t)
  PROVE  Charged(c, t, n, u)
<1> DEFINE S == SafeOp(n, u)
<1>1. n <= u /\ \A p \in Seq(CalmOp) : p \in Seq(S)
  BY CalmSeqs DEF Charged
<1>2. CASE t = s
  BY <1>2
<1>3. CASE t \in Seq(FreshOp)
  BY <1>1, <1>3, CalmSeqs DEF Charged
<1>4. ASSUME s # << >>, s[1].op # "Do", NEW p \in Seq(CalmOp), t = p \o Tail(s)
      PROVE  Charged(c, t, n, u)
  <2>1. ~Charges(s[1])
    BY <1>4 DEF Charges, Commits
  <2>2. s \in Seq(S)
    BY <2>1 DEF Charged
  <2> HIDE DEF S
  <2> DEFINE v == Tail(s)
  <2>3. v \in Seq(S) /\ p \in Seq(S)
    BY <1>1, <1>4, <2>2, SeqFacts
  <2> HIDE DEF v
  <2>4. p \o v \in Seq(S)
    BY <2>3, SeqFacts
  <2>5. t \in Seq(S)
    BY <1>4, <2>4 DEF v
  <2> QED BY <1>1, <2>5 DEF Charged, S
<1>5. CASE /\ s # << >> /\ s[1].op # "Do"
           /\ \E p : /\ p \in Seq(PlainOp) \/ (s[1].op = "ExcludeAll" /\ p \in Seq(ExclusionOp))
                     /\ t = p \o Tail(s)
  BY <1>4, <1>5, CalmSeqs
<1> QED BY <1>2, <1>3, <1>5 DEF Moved

(***************************************************************************)
(* What a commit does to the charge and to the completed repairs.          *)
(***************************************************************************)
Done(hs) == {i \in DOMAIN hs : hs[i].node = "Repair" /\ hs[i].status = "Succeeded"}

LEMMA DoneFinite ==
  ASSUME NEW S, NEW hs \in Seq(S)
  PROVE  IsFiniteSet(Done(hs)) /\ Cardinality(Done(hs)) \in Nat
<1>1. Len(hs) \in Nat /\ DOMAIN hs = 1..Len(hs)
  OBVIOUS
<1>2. IsFiniteSet(1..Len(hs))
  BY <1>1, FS_Interval
<1>3. Done(hs) \subseteq 1..Len(hs)
  BY <1>1 DEF Done
<1> QED BY <1>2, <1>3, FS_Subset, FS_CardinalityType

LEMMA DoneOpened ==
  ASSUME NEW hs \in Seq(Attempt), NEW node, NEW number, Opened(node, number) \in Attempt
  PROVE  Done(Append(hs, Opened(node, number))) = Done(hs)
<1> DEFINE a == Opened(node, number)
           bs == Append(hs, a)
<1>1. a \in Attempt /\ a.status = "Started"
  BY DEF Opened
<1> HIDE DEF a
<1>2. /\ DOMAIN hs = 1..Len(hs) /\ Len(hs) \in Nat /\ DOMAIN bs = 1..Len(hs) + 1
      /\ bs[Len(hs) + 1] = a
  BY <1>1, OpenedIsLast
<1>3. \A i \in DOMAIN hs : bs[i] = hs[i]
  BY <1>1, OpenedIsLast
<1> HIDE DEF bs
<1>4. \A i \in DOMAIN bs : i \in DOMAIN hs \/ i = Len(hs) + 1
  BY <1>2
<1>5. \A i \in DOMAIN hs : i \in DOMAIN bs
  BY <1>2
<1>6. Done(bs) = Done(hs)
  BY <1>1, <1>2, <1>3, <1>4, <1>5 DEF Done
<1> QED BY <1>6 DEF bs, a

\* Closing an attempt adds at most that one, and adds none unless it is a repair that
\* succeeded.
LEMMA DoneClosed ==
  ASSUME NEW hs \in Seq(Attempt), NEW e \in Event, e.kind = "NodeClosed",
         NEW bs, bs = [i \in DOMAIN hs |-> CloseAttempt(hs[i], e)]
  PROVE  /\ e.node # "Repair" \/ e.as # "Succeeded" =>
              Cardinality(Done(bs)) <= Cardinality(Done(hs))
         /\ \A k \in DOMAIN hs :
              (\A i \in DOMAIN hs : IsAttempt(hs[i], e.node, e.number) => i = k) =>
                Cardinality(Done(bs)) <= Cardinality(Done(hs)) + 1
<1>1. IsFiniteSet(Done(hs)) /\ Cardinality(Done(hs)) \in Nat
  BY DoneFinite
<1>2. ASSUME NEW i \in Done(bs), i \notin Done(hs)
      PROVE  i \in DOMAIN hs /\ IsAttempt(hs[i], e.node, e.number) /\ e.node = "Repair" /\ e.as = "Succeeded"
  <2>1. i \in DOMAIN hs /\ bs[i] = CloseAttempt(hs[i], e) /\ hs[i] \in Attempt
    BY <1>2 DEF Done
  <2>2. bs[i] # hs[i]
    BY <1>2, <2>1 DEF Done
  <2>3. IsAttempt(hs[i], e.node, e.number)
    BY <2>1, <2>2 DEF CloseAttempt
  <2>4. bs[i] = [hs[i] EXCEPT !.status = e.as, !.next = e.next, !.why = e.why]
    BY <2>1, <2>3 DEF CloseAttempt
  <2>5. bs[i].node = hs[i].node /\ bs[i].status = e.as
    BY <2>1, <2>4 DEF Attempt
  <2> QED BY <1>2, <2>1, <2>3, <2>5 DEF Done, IsAttempt
<1>3. ASSUME e.node # "Repair" \/ e.as # "Succeeded"
      PROVE  Cardinality(Done(bs)) <= Cardinality(Done(hs))
  <2>1. Done(bs) \subseteq Done(hs)
    BY <1>2, <1>3
  <2> QED BY <1>1, <2>1, FS_Subset
<1>4. ASSUME NEW k \in DOMAIN hs, \A i \in DOMAIN hs : IsAttempt(hs[i], e.node, e.number) => i = k
      PROVE  Cardinality(Done(bs)) <= Cardinality(Done(hs)) + 1
  <2> DEFINE D == Done(hs) \cup {k}
  <2>1. Done(bs) \subseteq D
    BY <1>2, <1>4
  <2>2. IsFiniteSet(D) /\ Cardinality(D) <= Cardinality(Done(hs)) + 1
    <3>1. /\ IsFiniteSet(D)
          /\ Cardinality(D) = IF k \in Done(hs) THEN Cardinality(Done(hs))
                             ELSE Cardinality(Done(hs)) + 1
      BY <1>1, FS_AddElement
    <3> HIDE DEF D
    <3> QED BY <1>1, <3>1
  <2>3. Cardinality(Done(bs)) <= Cardinality(D) /\ Cardinality(D) \in Nat
        /\ Cardinality(Done(bs)) \in Nat
    BY <2>1, <2>2, FS_Subset, FS_CardinalityType
  <2> HIDE DEF D
  <2> QED BY <1>1, <2>2, <2>3
<1> QED BY <1>3, <1>4

LEMMA UsedAfter ==
  ASSUME IInv, NEW e \in PlannedEvent, CommitEvent(e), NEW c \in Cands
  PROVE  /\ e.kind # "CandidateRepairStarted" \/ e.cand # c =>
              run'.cands[c].used = run.cands[c].used
         /\ e.kind = "CandidateRepairStarted" /\ e.cand = c /\ ~poisoned' =>
              run'.cands[c].used = e.used
  BY ReduceUsed DEF IInv, RunInv, PlannedEvent, CommitEvent

LEMMA SafeGrows ==
  ASSUME NEW n, NEW u, NEW m \in Nat, NEW v \in Nat, NEW s \in Seq(SafeOp(n, u)), n < u => m < v
  PROVE  s \in Seq(SafeOp(m, v))
<1> DEFINE S == SafeOp(n, u)
           T == SafeOp(m, v)
<1>1. \A x \in S : x \in T
  BY DEF SafeOp
<1>2. s \in Seq(S)
  OBVIOUS
<1> HIDE DEF S, T
<1>3. s \in Seq(T)
  BY <1>1, <1>2
<1> QED BY <1>3 DEF T

LEMMA ChargedLess ==
  ASSUME NEW c, NEW s, NEW n \in Nat, NEW u \in Nat, NEW m \in Nat, m <= n, Charged(c, s, n, u)
  PROVE  Charged(c, s, m, u)
<1>1. m <= u /\ (n < u => m < u)
  BY DEF Charged
<1>2. s \in Seq(SafeOp(n, u)) => s \in Seq(SafeOp(m, u))
  BY <1>1, SafeGrows
<1> QED BY <1>1, <1>2 DEF Charged

LEMMA Counts ==
  ASSUME IInv, NEW c \in Cands
  PROVE  /\ run.attempts[c] \in Seq(Attempt) /\ RepairsDone(c) = Done(run.attempts[c])
         /\ Cardinality(RepairsDone(c)) \in Nat /\ run.cands[c].used \in Nat
<1>1. run.attempts[c] \in Seq(Attempt) /\ run.cands[c].used \in Nat
  BY OwnerFacts DEF IInv, RunInv, Projection, CandidateRecord
<1>2. RepairsDone(c) = Done(run.attempts[c])
  BY DEF RepairsDone, Done
<1> QED BY <1>1, <1>2, DoneFinite

LEMMA RepairsAfter ==
  ASSUME IInv, NEW e \in PlannedEvent, CommitEvent(e), NEW c \in Cands
  PROVE  LET n == Cardinality(RepairsDone(c))
             m == Cardinality(RepairsDone(c)')
         IN  /\ n \in Nat /\ m \in Nat /\ run'.cands[c].used \in Nat /\ m <= n + 1
             /\ ~(e.kind = "NodeClosed" /\ e.owner = c /\ e.node = "Repair" /\ e.as = "Succeeded")
                  => m <= n
<1> DEFINE hs == run.attempts[c]
           bs == run'.attempts[c]
<1>1. /\ run \in Projection /\ e \in Event /\ c \in Owners /\ UniqueAttempts(run)
      /\ hs \in Seq(Attempt) /\ RepairsDone(c) = Done(hs) /\ Cardinality(Done(hs)) \in Nat
  BY Counts, OwnerFacts DEF IInv, RunInv, PlannedEvent
<1>2. RunInv(run')
  BY CommitEventInv DEF IInv
<1>3. bs \in Seq(Attempt) /\ run'.cands[c].used \in Nat
  BY <1>1, <1>2 DEF RunInv, Projection, CandidateRecord
<1>4. RepairsDone(c)' = Done(bs)
  BY DEF RepairsDone, Done
<1>5. Cardinality(Done(bs)) \in Nat
  BY <1>3, DoneFinite
<1>6. CASE bs = hs
  BY <1>1, <1>3, <1>4, <1>6
<1>7. CASE bs # hs
  <2>1. /\ e.kind \in {"NodeStarted", "NodeClosed"} /\ e.owner = c
        /\ Accepts(run, e) /\ run' = Reduce(run, e)
    BY <1>1, <1>7, CommitAttempts DEF CommitEvent
  <2>2. CASE e.kind = "NodeStarted"
    <3>1. bs = Append(hs, Opened(e.node, e.number))
      BY <1>1, <2>1, <2>2, StartedAttempts DEF Opened
    <3>2. Opened(e.node, e.number) \in Attempt
      BY <1>1, <2>2, EventFields DEF Opened, Attempt, AttemptStatus
    <3> HIDE DEF hs, bs
    <3>3. Done(bs) = Done(hs)
      BY <1>1, <3>1, <3>2, DoneOpened
    <3> QED BY <1>1, <1>3, <1>4, <3>3
  <2>3. CASE e.kind = "NodeClosed"
    <3>1. bs = [i \in DOMAIN hs |-> CloseAttempt(hs[i], e)]
      BY <1>1, <2>1, <2>3, ClosedAttempts
    <3>2. PICK k \in DOMAIN hs : IsAttempt(hs[k], e.node, e.number)
      BY <2>1, <2>3 DEF Accepts, OpenAttempts
    <3>3. \A i \in DOMAIN hs : IsAttempt(hs[i], e.node, e.number) => i = k
      BY <1>1, <3>2 DEF UniqueAttempts, IsAttempt
    <3> HIDE DEF hs, bs
    <3>4. /\ Cardinality(Done(bs)) <= Cardinality(Done(hs)) + 1
          /\ e.node # "Repair" \/ e.as # "Succeeded" =>
               Cardinality(Done(bs)) <= Cardinality(Done(hs))
      BY <1>1, <2>3, <3>1, <3>3, DoneClosed
    <3> QED BY <1>1, <1>3, <1>4, <1>5, <2>1, <2>3, <3>4
  <2> QED BY <2>1, <2>2, <2>3
<1> QED BY <1>6, <1>7

LEMMA ChargeApart ==
  ASSUME IInv, ChargeInv, CommitsApart
  PROVE  ChargeInv'
<1>1. PICK e \in PlannedEvent : Apart(e) /\ CommitEvent(e)
  BY DEF CommitsApart
<1>2. e.kind # "CandidateRepairStarted" /\ (e.kind = "NodeClosed" => e.as # "Succeeded")
  BY <1>1 DEF Apart, RequestKindsOfEvents
<1>3. ASSUME NEW c \in Cands
      PROVE  Charged(c, todo[c], Cardinality(RepairsDone(c)'), run'.cands[c].used)
  <2>1. run'.cands[c].used = run.cands[c].used
    BY <1>1, <1>2, UsedAfter
  <2>2. /\ Cardinality(RepairsDone(c)) \in Nat /\ Cardinality(RepairsDone(c)') \in Nat
        /\ Cardinality(RepairsDone(c)') <= Cardinality(RepairsDone(c))
        /\ run.cands[c].used \in Nat
    BY <1>1, <1>2, RepairsAfter, Counts
  <2>3. Charged(c, todo[c], Cardinality(RepairsDone(c)), run.cands[c].used)
    BY DEF ChargeInv
  <2> QED BY <2>1, <2>2, <2>3, ChargedLess
<1> QED BY <1>3 DEF ChargeInv, CommitsApart

LEMMA ChargeMoves ==
  ASSUME IInv, ChargeInv, run' = run, \A q \in Owners : Moved(todo[q], todo'[q])
  PROVE  ChargeInv'
<1>1. todo'[RunOwner] \in Seq(CalmOp)
  BY CalmMoved, OwnerFacts DEF ChargeInv
<1>2. ASSUME NEW c \in Cands
      PROVE  Charged(c, todo'[c], Cardinality(RepairsDone(c)), run.cands[c].used)
  <2>1. c \in Owners /\ todo[c] \in Seq(PlannedOp)
    BY OwnerFacts DEF IInv
  <2> QED BY <2>1, ChargedMoved DEF ChargeInv
<1>3. \A c \in Cands : RepairsDone(c)' = RepairsDone(c)
  BY DEF RepairsDone
<1> QED BY <1>1, <1>2, <1>3 DEF ChargeInv

\* After the verdict nothing is charged and nothing is closed.
LEMMA CalmAfterVerdict ==
  ASSUME NEW s \in Seq(PlannedOp), s # << >>, NEW o, NEW hs, SoundCall(o, hs, s, 1), Closes(s[1])
  PROVE  Tail(s) \in Seq(CalmOp)
<1> SUFFICES ASSUME NEW u, u = Tail(s)
             PROVE  u \in Seq(CalmOp)
  OBVIOUS
<1>1. u \in Seq(PlannedOp) /\ DOMAIN u = 1..Len(u) /\ Len(u) \in Nat
  BY TailFacts
<1>2. ASSUME NEW k \in DOMAIN u
      PROVE  u[k] \in CalmOp
  <2>1. k + 1 \in DOMAIN s /\ u[k] = s[k + 1]
    BY TailFacts
  <2>2. k + 1 > 1
    BY <1>1
  <2>3. Follows(u[k]) /\ u[k] \in PlannedOp
    BY <1>1, <2>1, <2>2 DEF SoundCall
  <2> QED BY <2>3, CalmOps
<1>3. u \in [1..Len(u) -> PlannedOp]
  BY <1>1, LenProperties
<1>4. u \in [1..Len(u) -> CalmOp]
  BY <1>1, <1>2, <1>3
<1>5. \A S, n : n \in Nat /\ u \in [1..n -> S] => u \in Seq(S)
  BY SeqDef
<1> QED BY <1>1, <1>4, <1>5

LEMMA ChargeCommit ==
  ASSUME IInv, FlowInv, ChargeInv, NEW o \in Owners, DoCommit(o)
  PROVE  ChargeInv'
<1> DEFINE s == todo[o]
           e == s[1].event
           t == IF poisoned' THEN << Fail >> ELSE Tail(s)
<1>1. /\ s \in Seq(PlannedOp) /\ s # << >> /\ s[1].op = "Do" /\ Call(o) = s[1] /\ s[1] \in PlannedOp
      /\ SoundCall(o, run.attempts[o], s, 1) /\ DOMAIN todo = Owners
  BY AtCall DEF DoCommit, IInv
<1>2. CommitEvent(e) /\ todo' = [todo EXCEPT ![o] = t] /\ e \in PlannedEvent
  BY <1>1, OpFields DEF DoCommit, CommitOrFail
<1>3. << Fail >> \in Seq(CalmOp)
  BY PlannedOps, CallKinds, CalmOps, SeqFacts
<1>4. e.kind = "NodeClosed" => e.owner = o
  BY <1>1 DEF SoundCall, Closes, Commits
<1>5. e.kind = "CandidateRepairStarted" => o \in Cands /\ e.cand = o
  <2> SUFFICES ASSUME e.kind = "CandidateRepairStarted" PROVE o \in Cands /\ e.cand = o
    OBVIOUS
  <2>1. Charges(s[1])
    BY <1>1 DEF Charges, Commits
  <2>2. s \notin Seq(CalmOp) /\ \A n, u : s \notin Seq(SafeOp(n, u))
    BY <1>1, <2>1 DEF CalmOp, SafeOp
  <2>3. o \in Cands
    BY <2>2, OwnerFacts DEF ChargeInv
  <2>4. Charged(o, s, Cardinality(RepairsDone(o)), run.cands[o].used)
    BY <2>3 DEF ChargeInv
  <2> QED BY <2>2, <2>3, <2>4 DEF Charged
<1>6. todo'[RunOwner] \in Seq(CalmOp)
  <2>1. CASE o = RunOwner
    BY <1>1, <1>2, <1>3, <2>1, SeqFacts DEF ChargeInv
  <2>2. CASE o # RunOwner
    BY <1>1, <1>2, <2>2, OwnerFacts DEF ChargeInv
  <2> QED BY <2>1, <2>2
<1>7. ASSUME NEW c \in Cands
      PROVE  Charged(c, todo'[c], Cardinality(RepairsDone(c)'), run'.cands[c].used)
  <2> DEFINE n == Cardinality(RepairsDone(c))
             m == Cardinality(RepairsDone(c)')
             u == run.cands[c].used
             v == run'.cands[c].used
  <2>1. /\ n \in Nat /\ m \in Nat /\ u \in Nat /\ v \in Nat /\ m <= n + 1
        /\ ~(e.kind = "NodeClosed" /\ e.owner = c /\ e.node = "Repair" /\ e.as = "Succeeded")
             => m <= n
    BY <1>2, RepairsAfter, Counts
  <2>2. /\ e.kind # "CandidateRepairStarted" \/ e.cand # c => v = u
        /\ e.kind = "CandidateRepairStarted" /\ e.cand = c /\ ~poisoned' => v = e.used
    BY <1>2, UsedAfter
  <2>3. Charged(c, todo[c], n, u) /\ c \in Owners
    BY OwnerFacts DEF ChargeInv
  <2>4. \A r \in Seq(CalmOp) : m <= v => Charged(c, r, m, v)
    BY CalmSeqs DEF Charged
  <2>5. poisoned' => m = n /\ v = u
    BY <1>2 DEF CommitEvent, RepairsDone
  <2> HIDE DEF n, m, u, v
  <2>6. CASE c # o
    <3>1. v = u /\ m <= n /\ todo'[c] = todo[c]
      BY <1>1, <1>2, <1>4, <1>5, <2>1, <2>2, <2>6
    <3>2. Charged(c, todo'[c], m, v)
      BY <2>1, <2>3, <3>1, ChargedLess
    <3> QED BY <3>2 DEF m, v
  <2>7. CASE c = o /\ poisoned'
    <3>1. todo'[c] = << Fail >> /\ m <= v
      BY <1>1, <1>2, <2>3, <2>5, <2>7 DEF Charged
    <3>2. Charged(c, todo'[c], m, v)
      BY <1>3, <2>4, <3>1
    <3> QED BY <3>2 DEF m, v
  <2>8. CASE c = o /\ ~poisoned'
    <3>1. todo'[c] = Tail(s) /\ todo[c] = s
      BY <1>1, <1>2, <2>8
    <3> HIDE DEF s, e, t
    <3>2. CASE e.kind = "CandidateRepairStarted"
      <4>1. s \notin Seq(SafeOp(n, u))
        BY <1>1, <3>2 DEF SafeOp, Charges, Commits, e
      <4>2. Tail(s) \in Seq(SafeOp(0, 1)) /\ e.used = u + 1 /\ n <= u
        BY <2>3, <3>1, <4>1 DEF Charged, e
      <4>3. v = u + 1 /\ m <= n /\ m < v
        BY <1>5, <2>1, <2>2, <2>8, <3>2, <4>2
      <4>4. Tail(s) \in Seq(SafeOp(m, v))
        BY <2>1, <4>2, <4>3, SafeGrows
      <4>5. Charged(c, todo'[c], m, v)
        BY <2>1, <3>1, <4>3, <4>4 DEF Charged
      <4> QED BY <4>5 DEF m, v
    <3>3. CASE e.kind # "CandidateRepairStarted"
      <4>1. ~Charges(s[1]) /\ v = u
        BY <1>1, <2>2, <3>3 DEF Charges, Commits, e
      <4>2. s \in Seq(SafeOp(n, u)) /\ n <= u
        BY <2>3, <3>1, <4>1 DEF Charged
      <4>3. s[1] \in SafeOp(n, u) /\ Tail(s) \in Seq(SafeOp(n, u))
        BY <1>1, <4>2, SeqFacts
      <4>4. CASE e.kind = "NodeClosed"
        <5>1. Tail(s) \in Seq(CalmOp)
          BY <1>1, <4>4, CalmAfterVerdict DEF Closes, Commits, e
        <5>2. m <= v
          <6>1. Repaired(s[1]) => n < u
            BY <4>3 DEF SafeOp
          <6>2. e.node = "Repair" /\ e.as = "Succeeded" => n < u
            BY <1>1, <4>4, <6>1 DEF Repaired, Closes, Commits, e
          <6> QED BY <2>1, <4>1, <4>2, <6>2
        <5>3. Charged(c, todo'[c], m, v)
          BY <2>4, <3>1, <5>1, <5>2
        <5> QED BY <5>3 DEF m, v
      <4>5. CASE e.kind # "NodeClosed"
        <5>1. m <= n /\ m <= v /\ (n < u => m < v)
          BY <2>1, <4>1, <4>2, <4>5
        <5>2. Tail(s) \in Seq(SafeOp(m, v))
          BY <2>1, <4>3, <5>1, SafeGrows
        <5>3. Charged(c, todo'[c], m, v)
          BY <3>1, <5>1, <5>2 DEF Charged
        <5> QED BY <5>3 DEF m, v
      <4> QED BY <4>4, <4>5
    <3> QED BY <3>2, <3>3
  <2> QED BY <2>6, <2>7, <2>8
<1> QED BY <1>6, <1>7 DEF ChargeInv

LEMMA RunBody ==
  ASSUME IInv, FlowInv, At(RunOwner, "Body")
  PROVE  Call(RunOwner).node \in RunNodes
<1> DEFINE s == todo[RunOwner]
           hs == run.attempts[RunOwner]
<1>1. /\ s[1].op = "Body" /\ Call(RunOwner) = s[1] /\ SoundCall(RunOwner, hs, s, 1)
      /\ Recorded(RunOwner, hs) /\ hs \in Seq(Attempt)
  BY AtCall, OwnerFacts
<1> HIDE DEF s, hs
<1>2. ~Begins(s[1])
  BY <1>1 DEF Begins, Commits
<1>3. OpenIn(hs) /\ LastOf(hs).node = s[1].node
  BY <1>1, <1>2 DEF SoundCall, Current
<1>4. Len(hs) \in DOMAIN hs
  BY <1>1, <1>3 DEF OpenIn
<1> QED BY <1>1, <1>3, <1>4 DEF Recorded, LastOf

\* What the body of a repair may leave: nothing and no success, or the charge.
RepairOutput(c) ==
  {out \in NodeOutput("Repair") :
     \/ out.calls = << >> /\ out.status # "Succeeded"
     \/ \E f \in Fingerprints \cup {0} :
          out.calls = << Do(CandidateRepairStarted(c, run.cands[c].used + 1, f)) >>}
ProducesRepair(c) ==
  AtBody(c, "Repair") /\ KeepsEngine /\ \E out \in RepairOutput(c) : Produce(c, out)

LEMMA FailedRepair ==
  ASSUME NEW c, NEW class \in FailureClass, NEW why \in Fingerprints
  PROVE  /\ Failed(class, why, << >>) \in RepairOutput(c)
         /\ [Failed(class, why, << >>) EXCEPT !.next = "Join", !.cand = "Ineligible"] \in RepairOutput(c)
<1> DEFINE out == Failed(class, why, << >>)
           end == [out EXCEPT !.next = "Join", !.cand = "Ineligible"]
<1>1. out \in NodeOutput("Repair") /\ out.calls = << >> /\ out.status = "Failed"
  BY NodeOps, NodeOutputs DEF Failed
<1>2. end \in NodeOutput("Repair") /\ end.calls = << >> /\ end.status = "Failed"
  <2>1. end \in PlannedOutput
    <3>1. out \in PlannedOutput /\ "Join" \in Nodes /\ "Ineligible" \in CandidateStatus
      BY <1>1, NodeNames DEF NodeOutput, CandidateStatus
    <3> HIDE DEF out
    <3> QED BY <3>1 DEF PlannedOutput, Output
  <2>2. end.calls = out.calls /\ end.status = out.status /\ end.run = out.run /\ end.cand = "Ineligible"
    BY DEF Failed
  <2> QED BY <1>1, <2>1, <2>2 DEF NodeOutput
<1> QED BY <1>1, <1>2 DEF RepairOutput

LEMMA RepairOutputs ==
  ASSUME IInv, NEW c \in Cands, NEW ok \in BOOLEAN, NEW why \in Fingerprints,
         RepairNode(c, ok, why) \/ RepairExhausted(c, why)
  PROVE  ProducesRepair(c)
<1>a. {"TaskFailure", "UserActionRequired"} \subseteq FailureClass
  BY DEF FailureClass
<1>1. CASE RepairExhausted(c, why)
  BY <1>1, <1>a, FailedRepair DEF RepairExhausted, ProducesRepair
<1>2. CASE RepairNode(c, ok, why)
  <2>1. PICK f \in LatestFailure(run, c) :
          Produce(c, AgentOutput(ok, why, << Do(CandidateRepairStarted(c, run.cands[c].used + 1, f)) >>))
    BY <1>2 DEF RepairNode
  <2> DEFINE used1 == run.cands[c].used + 1
             e == CandidateRepairStarted(c, used1, f)
             calls == << Do(e) >>
             out == AgentOutput(ok, why, calls)
  <2>2. f \in Fingerprints \cup {0}
    BY LatestFailureType DEF IInv, RunInv
  <2>3. e \in PlannedEvent /\ e.kind = "CandidateRepairStarted"
    <3>1. used1 \in Nat /\ used1 <= RepairBudget
      BY <1>2, Counts, ConstantsAssumption DEF RepairNode, HasRepairBudget
    <3> HIDE DEF used1
    <3> QED BY <2>2, <3>1, PlannedEvents DEF CandidateRepairStarted
  <2>4. calls \in Seq(NodeOp("Repair"))
    BY <2>3, NodeOps DEF BodyKinds
  <2>5. out \in NodeOutput("Repair")
    <3> HIDE DEF calls
    <3> QED BY <2>4, AgentOutputs
  <2>6. (out.calls = << >> /\ out.status # "Succeeded") \/ out.calls = calls
    <3> HIDE DEF calls
    <3> QED BY DEF AgentOutput, Failed, Succeeded
  <2>7. out \in RepairOutput(c)
    BY <2>2, <2>5, <2>6 DEF RepairOutput
  <2> QED BY <1>2, <2>1, <2>7 DEF RepairNode, ProducesRepair
<1> QED BY <1>1, <1>2

\* A body edits, or a gate of it writes, or it is no repair, or leaves what a repair may leave.
LEMMA BodyRepairs ==
  ASSUME IInv, FlowInv, NodeBody
  PROVE  \/ \E o \in Owners : EditWorktree(o) \/ GateWrites(o)
         \/ \E o \in Owners : Produces(o) /\ Call(o).node # "Repair"
         \/ \E c \in Cands : ProducesRepair(c)
<1>a. "Repair" \notin RunNodes /\ RunOwner \in Owners /\ \A c \in Cands : c \in Owners
  BY OwnerFacts DEF RunNodes
<1>b. Produces(RunOwner) => Call(RunOwner).node # "Repair"
  BY <1>a, RunBody DEF Produces
<1>1. ASSUME NEW o \in Owners, NEW class \in Faults, NodeError(o, class)
      PROVE  \/ Produces(o) /\ Call(o).node # "Repair"
             \/ o \in Cands /\ ProducesRepair(o)
  <2>1. Produces(o)
    BY <1>1, ErrorOutput
  <2>2. CASE Call(o).node = "Repair"
    <3>1. o \in Cands
      BY <1>b, <2>1, <2>2, OwnerFacts
    <3>2. PICK why \in Fingerprints : Produce(o, Failed(class, why, << >>))
      BY <1>1 DEF NodeError
    <3>3. Failed(class, why, << >>) \in RepairOutput(o)
      BY <1>1, EngineAssumption, FailedRepair
    <3> QED BY <1>1, <2>2, <3>1, <3>2, <3>3 DEF NodeError, ProducesRepair, AtBody
  <2> QED BY <2>1, <2>2
<1>2. ASSUME NEW c \in Cands, NEW ok \in BOOLEAN, NEW why \in Fingerprints,
             ImplementNode(c, ok, why) \/ TestNode(c, ok, why) \/ ReviewNode(c, ok, why)
      PROVE  Produces(c) /\ Call(c).node # "Repair"
  BY <1>2, CandidateOutput DEF ImplementNode, TestNode, ReviewNode, AtBody
<1>3. ASSUME NEW c \in Cands, NEW ok \in BOOLEAN, NEW why \in Fingerprints, RepairNode(c, ok, why)
      PROVE  ProducesRepair(c)
  BY <1>3, RepairOutputs
<1>4. ASSUME NEW c \in Cands, NEW why \in Fingerprints, RepairExhausted(c, why)
      PROVE  ProducesRepair(c)
  BY <1>4, RepairOutputs
<1>5. ASSUME \/ PrepareNode \/ (\E hash \in Hashes : PlanNode(hash)) \/ FanOutNode
             \/ (\E eligible \in SUBSET Cands : JoinNode(eligible))
             \/ (\E ok \in BOOLEAN : IntegrateNode(ok) \/ FinalTestNode(ok) \/ FinalReviewNode(ok))
             \/ CommitNode \/ CommitPauses
      PROVE  Produces(RunOwner)
  BY <1>5, SetupOutput, JoinOutput, IntegrateOutput, FinalGatesOutput, CommitOutputs
<1> QED BY <1>a, <1>b, <1>1, <1>2, <1>3, <1>4, <1>5 DEF NodeBody

\* A body that is done leaves its own calls, then the verdict and what follows it.
LEMMA BodyCalls ==
  ASSUME IInv, FlowInv, NEW o \in Owners, At(o, "Body"), NEW out \in NodeOutput(Call(o).node),
         Produce(o, out)
  PROVE  \E after \in NodeOutput(Call(o).node), r \in Seq(SafeOp(0, 1)) :
           /\ todo' = [todo EXCEPT ![o] = after.calls \o r]
           /\ after.calls = out.calls /\ (out.status # "Succeeded" => after.status # "Succeeded")
           /\ after.status # "Succeeded" \/ Call(o).node # "Repair" => r \in Seq(CalmOp)
<1> DEFINE s == todo[o]
           node == Call(o).node
           number == Call(o).number
           after == AfterRetryDecision(o, node, number, out)
           e == NodeClosed(o, node, number, after.status, after.next, after.why)
           patch == PatchCalls(o, node, after)
           last == Only(after.status \notin {"Succeeded", "Failed"}, Return("Blocked"))
           r == IF ~ValidResult(node, after.next) THEN << Fail >>
                ELSE << Do(e) >> \o patch \o last
<1>1. /\ s \in Seq(PlannedOp) /\ s # << >> /\ Call(o) = s[1] /\ s[1].op = "Body" /\ s[1] \in PlannedOp
      /\ SoundCall(o, run.attempts[o], s, 1)
  BY AtCall
<1>2. node \in Nodes /\ number \in Nat
  BY <1>1, OpFields
<1>3. Tail(s) = << >>
  BY <1>1, LastCall DEF LastOps
<1>4. todo' = [todo EXCEPT ![o] = (after.calls \o r) \o Tail(s)]
  BY DEF Produce, Continue, FinaliseCalls
<1>5. after \in NodeOutput(node) /\ after \in PlannedOutput
  BY <1>2, RoutedOutput DEF NodeOutput
<1>6. after.calls = out.calls /\ (out.status # "Succeeded" => after.status # "Succeeded")
  <2> HIDE DEF node, number
  <2>1. out \in Output
    BY DEF NodeOutput, PlannedOutput
  <2> QED BY <2>1 DEF AfterRetryDecision, Output
<1> HIDE DEF node, number, after
<1>7. /\ after.status \in AttemptStatus \ {"Started"} /\ after.next \in Nodes \cup {None}
      /\ after.why \in Fingerprints \cup {0}
  BY <1>5 DEF PlannedOutput, Output, AttemptStatus
<1>8. /\ e \in PlannedEvent /\ e.kind = "NodeClosed" /\ e.node = node /\ e.as = after.status
  BY <1>2, <1>7, PlannedEvents DEF NodeClosed
<1>9. patch \in Seq(CalmOp) /\ last \in Seq(CalmOp) /\ << Fail >> \in Seq(CalmOp)
  <2>1. patch \in Seq(CalmOp)
    BY <1>2, <1>5, PatchOps, CalmSeqs
  <2>2. Return("Blocked") \in CalmOp /\ Fail \in CalmOp
    BY PlannedOps, CallKinds, CalmOps DEF Outcome
  <2> QED BY <2>1, <2>2, SeqFacts
<1> HIDE DEF e, patch, last
<1>10. /\ Do(e) \in SafeOp(0, 1)
       /\ after.status # "Succeeded" \/ node # "Repair" => Do(e) \in CalmOp
  BY <1>8, PlannedOps, CallKinds DEF SafeOp, CalmOp, Charges, Repaired, Closes, Commits
<1>11. ASSUME NEW S, Do(e) \in S, patch \in Seq(S), last \in Seq(S), << Fail >> \in Seq(S)
       PROVE  r \in Seq(S)
  BY <1>11, SeqFacts
<1>12. r \in Seq(SafeOp(0, 1)) /\ (after.status # "Succeeded" \/ node # "Repair" => r \in Seq(CalmOp))
  BY <1>9, <1>10, <1>11, CalmSeqs
<1> HIDE DEF r
<1>13. after.calls \in Seq(PlannedOp) /\ r \in Seq(PlannedOp)
  <2>1. after.calls \in Seq(NodeOp(node))
    BY <1>5 DEF NodeOutput
  <2>2. \A x \in SafeOp(0, 1) : x \in PlannedOp
    BY DEF SafeOp
  <2> DEFINE S == SafeOp(0, 1)
  <2>3. r \in Seq(S) /\ \A x \in S : x \in PlannedOp
    BY <1>12, <2>2
  <2> HIDE DEF S
  <2>4. r \in Seq(PlannedOp)
    BY <2>3
  <2> QED BY <2>1, <2>4, NodeSeqs
<1>14. (after.calls \o r) \o << >> = after.calls \o r
  <2>1. after.calls \o r \in Seq(PlannedOp)
    BY <1>13, Concatenation
  <2> QED BY <2>1, ConcatEmptySeq
<1> QED BY <1>3, <1>4, <1>5, <1>6, <1>12, <1>14 DEF node

LEMMA FirstCall ==
  ASSUME NEW S, NEW x, NEW r \in Seq(S)
  PROVE  << x >> \o r # << >> /\ (<< x >> \o r)[1] = x /\ Tail(<< x >> \o r) = r
<1> DEFINE T == S \cup {x}
           t == << x >> \o r
<1>1. r \in Seq(T) /\ << x >> \in Seq(T)
  <2>1. \A y \in S : y \in T
    OBVIOUS
  <2>2. x \in T
    OBVIOUS
  <2> HIDE DEF T
  <2> QED BY <2>1, <2>2
<1> HIDE DEF T
<1>2. /\ t \in Seq(T) /\ Len(t) = 1 + Len(r) /\ Len(r) \in Nat
      /\ \A i \in 1 .. Len(t) : t[i] = IF i <= 1 THEN << x >>[i] ELSE r[i - 1]
  BY <1>1, ConcatProperties, LenProperties
<1> HIDE DEF t
<1>3. t # << >> /\ t[1] = x
  BY <1>2
<1>4. Tail(t) \in Seq(T) /\ Len(Tail(t)) = Len(r) /\ \A i \in 1 .. Len(r) : Tail(t)[i] = t[i + 1]
  BY <1>2, <1>3, HeadTailProperties
<1>5. \A i \in 1 .. Len(r) : Tail(t)[i] = r[i]
  BY <1>2, <1>4
<1>6. Tail(t) = r
  BY <1>1, <1>4, <1>5, SeqEqual
<1> QED BY <1>3, <1>6 DEF t

LEMMA ChargeBody ==
  ASSUME IInv, FlowInv, ChargeInv, NodeBody
  PROVE  ChargeInv'
<1>a. DOMAIN todo = Owners /\ RunOwner \in Owners /\ \A c \in Cands : c \in Owners /\ c # RunOwner
  BY OwnerFacts DEF IInv, Cands, RunOwner
<1>1. ASSUME NEW o \in Owners, EditWorktree(o)
      PROVE  ChargeInv'
  BY <1>1, EditMoves, ChargeMoves
<1>2. ASSUME NEW o \in Owners, NEW t, todo' = [todo EXCEPT ![o] = t], run' = run,
             o = RunOwner => t \in Seq(CalmOp),
             o \in Cands => Charged(o, t, Cardinality(RepairsDone(o)), run.cands[o].used)
      PROVE  ChargeInv'
  <2>1. todo'[RunOwner] \in Seq(CalmOp)
    BY <1>2, <1>a DEF ChargeInv
  <2>2. ASSUME NEW c \in Cands
        PROVE  Charged(c, todo'[c], Cardinality(RepairsDone(c)), run.cands[c].used)
    BY <1>2, <1>a DEF ChargeInv
  <2>3. \A c \in Cands : RepairsDone(c)' = RepairsDone(c)
    BY <1>2 DEF RepairsDone
  <2> QED BY <1>2, <2>1, <2>2, <2>3 DEF ChargeInv
<1>3. ASSUME NEW o \in Owners, Produces(o), Call(o).node # "Repair"
      PROVE  ChargeInv'
  <2>1. PICK out \in NodeOutput(Call(o).node) : Produce(o, out)
    BY <1>3 DEF Produces
  <2>2. PICK after \in NodeOutput(Call(o).node), r \in Seq(SafeOp(0, 1)) :
          /\ todo' = [todo EXCEPT ![o] = after.calls \o r]
          /\ r \in Seq(CalmOp)
    BY <1>3, <2>1, BodyCalls DEF Produces
  <2>3. after.calls \in Seq(CalmOp)
    <3> DEFINE node == Call(o).node
    <3>1. after.calls \in Seq(NodeOp(node))
      BY DEF NodeOutput
    <3>2. node # "Repair"
      BY <1>3
    <3> HIDE DEF node
    <3>3. "CandidateRepairStarted" \notin BodyKinds(node) /\ "NodeClosed" \notin BodyKinds(node)
      BY <3>2 DEF BodyKinds
    <3>4. \A x \in NodeOp(node) : x \in CalmOp
      BY <3>3 DEF NodeOp, CalmOp, Charges, Repaired, Closes, Commits
    <3> QED BY <3>1, <3>4
  <2>4. after.calls \o r \in Seq(CalmOp)
    BY <2>2, <2>3, SeqFacts
  <2>5. o \in Cands => Charged(o, after.calls \o r, Cardinality(RepairsDone(o)), run.cands[o].used)
    BY <2>4, CalmSeqs DEF ChargeInv, Charged
  <2>6. run' = run
    BY <1>3 DEF Produces, KeepsEngine
  <2> QED BY <1>2, <2>2, <2>4, <2>5, <2>6
<1>4. ASSUME NEW c \in Cands, ProducesRepair(c)
      PROVE  ChargeInv'
  <2>1. PICK out \in RepairOutput(c) : Produce(c, out)
    BY <1>4 DEF ProducesRepair
  <2>2. At(c, "Body") /\ out \in NodeOutput(Call(c).node) /\ Call(c).node = "Repair" /\ run' = run
    BY <1>4 DEF ProducesRepair, AtBody, RepairOutput, KeepsEngine
  <2>c. c \in Owners
    BY <1>a
  <2>3. PICK after \in NodeOutput(Call(c).node), r \in Seq(SafeOp(0, 1)) :
          /\ todo' = [todo EXCEPT ![c] = after.calls \o r]
          /\ after.calls = out.calls /\ (out.status # "Succeeded" => after.status # "Succeeded")
          /\ after.status # "Succeeded" \/ Call(c).node # "Repair" => r \in Seq(CalmOp)
    BY <2>1, <2>2, <2>c, BodyCalls
  <2> DEFINE n == Cardinality(RepairsDone(c))
             u == run.cands[c].used
             t == after.calls \o r
  <2>4. n <= u
    BY DEF ChargeInv, Charged
  <2>5. Charged(c, t, n, u)
    <3>1. CASE out.calls = << >> /\ out.status # "Succeeded"
      <4>1. r \in Seq(CalmOp) /\ after.calls \in Seq(CalmOp)
        BY <2>3, <3>1, SeqFacts
      <4>2. t \in Seq(CalmOp)
        BY <4>1, SeqFacts
      <4> HIDE DEF n, u, t
      <4> QED BY <2>4, <4>2, CalmSeqs DEF Charged
    <3>2. ASSUME NEW f, out.calls = << Do(CandidateRepairStarted(c, u + 1, f)) >>
          PROVE  Charged(c, t, n, u)
      <4> DEFINE x == Do(CandidateRepairStarted(c, u + 1, f))
      <4>1. Charges(x) /\ x.event.cand = c /\ x.event.used = u + 1
        BY CallKinds DEF Charges, Commits, CandidateRepairStarted
      <4>2. t = << x >> \o r
        BY <2>3, <3>2
      <4> HIDE DEF x, n, u, t
      <4>3. t # << >> /\ t[1] = x /\ Tail(t) = r
        <5>1. ASSUME NEW S, r \in Seq(S)
              PROVE  << x >> \o r # << >> /\ (<< x >> \o r)[1] = x /\ Tail(<< x >> \o r) = r
          BY <5>1, FirstCall
        <5> QED BY <4>2, <5>1
      <4> QED BY <2>4, <4>1, <4>3 DEF Charged
    <3> QED BY <2>1, <3>1, <3>2 DEF RepairOutput
  <2> HIDE DEF n, u, t
  <2> QED BY <1>2, <1>a, <2>2, <2>3, <2>5 DEF n, u, t
<1>5. ASSUME NEW o \in Owners, GateWrites(o)
      PROVE  ChargeInv'
  <2>1. ChargeInv /\ UNCHANGED << run, todo >> => ChargeInv'
    BY DEF ChargeInv, RepairsDone
  <2> QED BY <2>1, <1>5, GateWritesKeep
<1> QED BY <1>1, <1>3, <1>4, <1>5, BodyRepairs

LEMMA NextCharge ==
  ASSUME IInv, FlowInv, ChargeInv, Next
  PROVE  ChargeInv'
  BY Moves, ChargeCommit, ChargeBody, ChargeApart, ChargeMoves

\* No call of the run charges a repair or closes one; a call of a candidate closes a
\* repair as succeeded only if it was charged before, or if the charge is the next call.
THEOREM ChargeInvariant == Spec => []ChargeInv
<1>1. Init => ChargeInv
  <2> SUFFICES ASSUME Init PROVE ChargeInv
    OBVIOUS
  <2>1. todo[RunOwner] \in Seq(CalmOp)
    BY SeqFacts, OwnerFacts DEF Init
  <2>2. ASSUME NEW c \in Cands
        PROVE  Charged(c, todo[c], Cardinality(RepairsDone(c)), run.cands[c].used)
    <3>1. todo[c] = << >> /\ run.attempts[c] = << >> /\ run.cands[c].used = 0
      BY OwnerFacts DEF Init, Genesis, AbsentCandidate
    <3>2. RepairsDone(c) = {}
      BY <3>1 DEF RepairsDone
    <3>3. Cardinality(RepairsDone(c)) = 0
      BY <3>2, FS_EmptySet
    <3> QED BY <3>1, <3>3, SeqFacts DEF Charged
  <2> QED BY <2>1, <2>2 DEF ChargeInv
<1>2. IInv /\ FlowInv /\ ChargeInv /\ [Next]_vars => ChargeInv'
  <2>1. ChargeInv /\ UNCHANGED vars => ChargeInv'
    BY DEF ChargeInv, vars, RepairsDone
  <2> QED BY <2>1, NextCharge
<1> QED BY <1>1, <1>2, InductiveInvariant, FlowInvariant, PTL DEF Spec

\* Every repair that was completed has been charged, for any budget and any number of
\* candidates, interruptions and retries (repair.rs leaves the charge with its output).
THEOREM RepairsCharged == Spec => []RepairsAreCharged
<1>1. ChargeInv => RepairsAreCharged
  BY DEF ChargeInv, Charged, RepairsAreCharged
<1> QED BY <1>1, ChargeInvariant, PTL

(***************************************************************************)
(* A cancelled run is quiet.  A task that finds the signal cancels every   *)
(* candidate and the run after them; while it does so no candidate is      *)
(* registered, and afterwards the run loop has nothing to do but return.   *)
(***************************************************************************)
ToCancelled(x) ==
  \/ x.op = "SetRun" /\ x.to = "Cancelled"
  \/ Commits(x, {"RunStatusChanged"}) /\ x.event.to = "Cancelled"
CancelsCand(x, c) ==
  \/ x.op = "SetCand" /\ x.cand = c /\ x.to = "Cancelled"
  \/ Commits(x, {"CandidateStatusChanged"}) /\ x.event.cand = c /\ x.event.to = "Cancelled"
Registers(x) == Commits(x, {"CandidateRegistered"})

\* Calls that cancel nothing, and calls that start nothing.
TameOp == {x \in PlannedOp : x.op # "CancelAll" /\ ~ToCancelled(x)}
IdleOp ==
  {x \in PlannedOp : x.op \notin {"Start", "Edit", "Body"} /\ ~Begins(x) /\ ~Registers(x)}

\* The calls of finish_cancelled, while the candidates in left are not terminal.
Finishing(s, left) ==
  \/ /\ Len(s) = 2 /\ s[2].op = "Return"
     /\ \/ s[1].op = "CancelAll" /\ left \subseteq s[1].left
        \/ ToCancelled(s[1]) /\ left = {}
  \/ /\ Len(s) = 3 /\ s[2].op = "CancelAll" /\ s[3].op = "Return"
     /\ \/ s[1].op = "Fail"
        \/ \E c \in Cands : CancelsCand(s[1], c) /\ left \subseteq s[2].left \cup {c}

CallsQuiet(o, s) ==
  /\ s \in Seq(TameOp) \/ Finishing(s, NonTerminal(run))
  /\ o = RunOwner /\ run.status = "Cancelled" => s \in Seq(IdleOp)

QuietInv == CancelledRunIsQuiet /\ \A o \in Owners : CallsQuiet(o, todo[o])

LEMMA TameOps ==
  /\ \A x \in PlannedOp : x.op \notin {"Do", "CancelAll", "SetRun"} => x \in TameOp
  /\ \A e \in PlannedEvent : e.kind # "RunStatusChanged" => Do(e) \in TameOp
  /\ \A status \in RunStatus : status # "Cancelled" => SetRun(status) \in TameOp
  /\ \A from, to \in RunStatus : to # "Cancelled" => Do(StatusChanged(from, to)) \in TameOp
  BY PlannedOps, PlannedEvents, CallKinds DEF TameOp, ToCancelled, Commits, StatusChanged

LEMMA IdleOps ==
  /\ \A x \in PlannedOp : x.op \notin {"Do", "Start", "Edit", "Body"} => x \in IdleOp
  /\ \A e \in PlannedEvent :
       e.kind \notin {"NodeStarted", "CandidateRegistered"} => Do(e) \in IdleOp
  BY PlannedOps, CallKinds DEF IdleOp, Begins, Registers, Commits

\* The calls that are left after the first one.
LEMMA ShortCalls ==
  ASSUME NEW s \in Seq(PlannedOp)
  PROVE  /\ Len(s) = 2 => /\ s # << >> /\ Tail(s) = << s[2] >>
                          /\ s[1] \in PlannedOp /\ s[2] \in PlannedOp
         /\ Len(s) = 3 => /\ s # << >> /\ Tail(s) = << s[2], s[3] >>
                          /\ s[1] \in PlannedOp /\ s[2] \in PlannedOp /\ s[3] \in PlannedOp
<1>1. /\ Len(s) = 2 => s[1] \in PlannedOp /\ s[2] \in PlannedOp /\ s # << >>
      /\ Len(s) = 3 => s[1] \in PlannedOp /\ s[2] \in PlannedOp /\ s[3] \in PlannedOp /\ s # << >>
  OBVIOUS
<1>2. ASSUME s # << >>
      PROVE  Tail(s) \in Seq(PlannedOp) /\ Len(Tail(s)) = Len(s) - 1
             /\ \A i \in 1 .. Len(s) - 1 : Tail(s)[i] = s[i + 1]
  BY <1>2, HeadTailProperties
<1>3. ASSUME NEW t \in Seq(PlannedOp), NEW u \in Seq(PlannedOp), Len(t) = Len(u),
             \A i \in 1 .. Len(t) : t[i] = u[i]
      PROVE  t = u
  BY <1>3, SeqEqual
<1>4. ASSUME Len(s) = 2
      PROVE  Tail(s) = << s[2] >>
  <2> DEFINE t == Tail(s)
             u == << s[2] >>
  <2>1. u \in Seq(PlannedOp) /\ Len(u) = 1 /\ u[1] = s[2]
    BY <1>1, <1>4
  <2>2. t \in Seq(PlannedOp) /\ Len(t) = 1 /\ t[1] = s[2]
    BY <1>1, <1>2, <1>4
  <2> HIDE DEF t, u
  <2>3. \A i \in 1 .. Len(t) : t[i] = u[i]
    BY <2>1, <2>2
  <2>4. t = u
    BY <1>3, <2>1, <2>2, <2>3
  <2> QED BY <2>4 DEF t, u
<1>5. ASSUME Len(s) = 3
      PROVE  Tail(s) = << s[2], s[3] >>
  <2> DEFINE t == Tail(s)
             u == << s[2], s[3] >>
  <2>1. u \in Seq(PlannedOp) /\ Len(u) = 2 /\ u[1] = s[2] /\ u[2] = s[3]
    BY <1>1, <1>5
  <2>2. t \in Seq(PlannedOp) /\ Len(t) = 2 /\ t[1] = s[2] /\ t[2] = s[3]
    BY <1>1, <1>2, <1>5
  <2> HIDE DEF t, u
  <2>3. \A i \in 1 .. Len(t) : t[i] = u[i]
    BY <2>1, <2>2
  <2>4. t = u
    BY <1>3, <2>1, <2>2, <2>3
  <2> QED BY <2>4 DEF t, u
<1> QED BY <1>1, <1>4, <1>5

LEMMA ShortFinishing ==
  ASSUME NEW x, NEW y, NEW z, NEW left
  PROVE  /\ << y, z >> \in Seq({y, z})
         /\ z.op = "Return" /\ y.op = "CancelAll" /\ left \subseteq y.left => Finishing(<< y, z >>, left)
         /\ z.op = "Return" /\ ToCancelled(y) /\ left = {} => Finishing(<< y, z >>, left)
         /\ z.op = "Return" /\ y.op = "CancelAll" /\ x.op = "Fail" => Finishing(<< x, y, z >>, left)
         /\ \A c \in Cands :
              z.op = "Return" /\ y.op = "CancelAll" /\ CancelsCand(x, c) /\ left \subseteq y.left \cup {c}
                => Finishing(<< x, y, z >>, left)
  BY DEF Finishing

\* Whoever cancels starts nothing.
LEMMA FinishingIdle ==
  ASSUME NEW s \in Seq(PlannedOp), NEW left, Finishing(s, left)
  PROVE  s \in Seq(IdleOp)
<1>1. ASSUME NEW x \in PlannedOp, x.op \in {"CancelAll", "Return", "Fail"} \/ ToCancelled(x)
                                    \/ \E c \in Cands : CancelsCand(x, c)
      PROVE  x \in IdleOp
  BY <1>1 DEF IdleOp, ToCancelled, CancelsCand, Begins, Registers, Commits
<1>2. DOMAIN s = 1 .. Len(s) /\ Len(s) \in Nat /\ \A i \in 1 .. Len(s) : s[i] \in PlannedOp
  OBVIOUS
<1>3. ASSUME NEW i \in 1 .. Len(s)
      PROVE  s[i] \in IdleOp
  <2>1. CASE Len(s) = 2
    <3>1. s[1] \in IdleOp /\ s[2] \in IdleOp
      BY <1>1, <1>2, <2>1 DEF Finishing
    <3> QED BY <2>1, <3>1
  <2>2. CASE Len(s) = 3
    <3>1. s[1] \in IdleOp /\ s[2] \in IdleOp /\ s[3] \in IdleOp
      BY <1>1, <1>2, <2>2 DEF Finishing
    <3> QED BY <2>2, <3>1
  <2> QED BY <2>1, <2>2 DEF Finishing
<1>4. s \in [1 .. Len(s) -> IdleOp]
  BY <1>2, <1>3, LenProperties
<1>5. \A S, n : n \in Nat /\ s \in [1..n -> S] => s \in Seq(S)
  BY SeqDef
<1> QED BY <1>2, <1>4, <1>5

\* Calls that cancel, or none that does.
LEMMA FinishingFirst ==
  ASSUME NEW s \in Seq(PlannedOp), NEW left, Finishing(s, left)
  PROVE  /\ s # << >> /\ s[1] \in PlannedOp
         /\ s[1].op \in {"CancelAll", "SetRun", "SetCand", "Fail", "Do"}
         /\ s[1].op = "Do" => \/ s[1].event.kind = "RunStatusChanged" /\ s[1].event.to = "Cancelled"
                              \/ s[1].event.kind = "CandidateStatusChanged"
         /\ s[1].op = "CancelAll" => Len(s) = 2 /\ left \subseteq s[1].left /\ s[2].op = "Return"
         /\ ToCancelled(s[1]) => Len(s) = 2 /\ left = {} /\ s[2].op = "Return"
         /\ ~ToCancelled(s[1]) /\ s[1].op \in {"SetRun", "SetCand", "Do"} =>
              /\ Len(s) = 3 /\ s[2].op = "CancelAll" /\ s[3].op = "Return"
              /\ \E c \in Cands : CancelsCand(s[1], c) /\ left \subseteq s[2].left \cup {c}
  BY ShortCalls DEF Finishing, ToCancelled, CancelsCand, Commits

LEMMA TameFirst ==
  ASSUME NEW s \in Seq(TameOp), s # << >>
  PROVE  s[1] \in TameOp /\ Tail(s) \in Seq(TameOp)
  BY SeqFacts

\* What a commit does to the candidates that are not terminal, and to the status.
LEMMA ReduceCandStatus ==
  ASSUME NEW p \in Projection, NEW e \in Event, NEW c \in Cands
  PROVE  Reduce(p, e).cands[c].status =
           IF e.kind = "CandidateRegistered" /\ e.cand = c THEN "Pending"
           ELSE IF e.kind = "CandidateStatusChanged" /\ e.cand = c THEN e.to
           ELSE p.cands[c].status
<1>a. e \in Event
  OBVIOUS
<1>b. p.cands \in [Cands -> CandidateRecord] /\ p.cands[c] \in CandidateRecord
  BY DEF Projection
<1>1. CASE e.kind = "CandidateRepairStarted"
  <2>1. e.cand \in Cands
    BY <1>a, <1>1, EventFields
  <2>2. CASE c # e.cand
    BY <1>1, <1>b, <2>1, <2>2 DEF Reduce, ReduceRepair, Projection
  <2>3. CASE c = e.cand
    <3> DEFINE q == [p.cands[c] EXCEPT !.used = e.used]
    <3>1. Reduce(p, e).cands[c] = IF e.fingerprint = 0 THEN q ELSE Observe(q, e.fingerprint)
      BY <1>1, <1>b, <2>1, <2>3 DEF Reduce, ReduceRepair, Projection
    <3>2. q \in CandidateRecord /\ q.status = p.cands[c].status
      BY <1>a, <1>1, <1>b, EventFields DEF CandidateRecord
    <3> HIDE DEF q
    <3>3. Observe(q, e.fingerprint).status = q.status
      BY <3>2 DEF Observe, CandidateRecord
    <3> QED BY <1>1, <2>3, <3>1, <3>2, <3>3
  <2> QED BY <2>2, <2>3
<1>2. CASE e.kind \in {"CandidateRegistered", "CandidateStatusChanged", "CandidateExcluded"}
  BY <1>a, <1>b, <1>2, EventFields
     DEF Reduce, ReduceRegistered, ReduceCandidateStatus, ReduceExcluded, Projection, CandidateRecord
<1>3. CASE e.kind = "IntegrationAttempted"
  <2>1. e.cand \in Cands
    BY <1>a, <1>3, EventFields
  <2>2. Tried(p.cands[e.cand], e.applied).status = p.cands[e.cand].status
    BY <1>b, <2>1 DEF Tried, CandidateRecord
  <2>3. Reduce(p, e).cands = [p.cands EXCEPT ![e.cand] = Tried(p.cands[e.cand], e.applied)]
    BY <1>3 DEF Reduce, ReduceIntegration, Projection
  <2> QED BY <1>3, <1>b, <2>1, <2>2, <2>3
<1>4. CASE e.kind = "CandidatePromotionRequested"
  BY <1>a, <1>b, <1>4, EventFields DEF Reduce, ReducePromotion, Projection, CandidateRecord
<1>5. CASE e.kind \in {"RunStatusChanged", "NodeStarted", "NodeClosed", "PlanVersionWritten",
                      "PlanDecisionRecorded", "RankingComputed", "WinnerSelected"}
  BY <1>5 DEF Reduce, ReduceStatus, ReduceStarted, ReduceClosed, ReduceVersion, ReduceDecision,
              ReduceRanking, ReduceWinner, Projection
<1>6. CASE e.kind \in {"PlanApprovalInvalidated", "BaselineResolved", "FinalTestEvidence",
         "FinalReviewEvidence", "CommitApprovalRecorded", "CommitCreated",
         "CancellationRequested"}
  BY <1>6 DEF Reduce, ReduceInvalidated, Projection
<1>7. e.kind \in {"CandidateRepairStarted", "CandidateRegistered", "CandidateStatusChanged",
         "CandidateExcluded", "IntegrationAttempted", "CandidatePromotionRequested",
         "RunStatusChanged", "NodeStarted", "NodeClosed", "PlanVersionWritten",
         "PlanDecisionRecorded", "RankingComputed", "WinnerSelected",
         "PlanApprovalInvalidated", "BaselineResolved", "FinalTestEvidence",
         "FinalReviewEvidence", "CommitApprovalRecorded", "CommitCreated",
         "CancellationRequested"}
  BY <1>a DEF Event
<1> QED BY <1>1, <1>2, <1>3, <1>4, <1>5, <1>6, <1>7

LEMMA ReduceRunStatus ==
  ASSUME NEW p \in Projection, NEW e \in Event
  PROVE  Reduce(p, e).status = IF e.kind = "RunStatusChanged" THEN e.to ELSE p.status
  BY DEF Reduce, ReduceStatus, ReduceStarted, ReduceClosed, ReduceVersion, ReduceDecision,
         ReduceInvalidated, ReduceRegistered, ReduceCandidateStatus, ReduceRepair, ReduceExcluded,
         ReduceRanking, ReduceWinner, ReduceIntegration, ReducePromotion, Projection

LEMMA LeftAfter ==
  ASSUME IInv, NEW e \in PlannedEvent, CommitEvent(e)
  PROVE  /\ e.kind # "CandidateRegistered" => NonTerminal(run') \subseteq NonTerminal(run)
         /\ ~poisoned' /\ e.kind = "CandidateStatusChanged" /\ e.to = "Cancelled" =>
              e.cand \notin NonTerminal(run')
         /\ e.kind # "RunStatusChanged" => run'.status = run.status
         /\ run'.status \in {run.status} \cup {"Cancelled"} \/ run'.status # "Cancelled"
         /\ run'.status = "Cancelled" /\ run.status # "Cancelled" =>
              e.kind = "RunStatusChanged" /\ e.to = "Cancelled" /\ ~poisoned'
<1>1. run \in Projection /\ e \in Event
  BY DEF IInv, RunInv, PlannedEvent
<1>2. CASE run' = run /\ poisoned'
  BY <1>2
<1>3. CASE ~(run' = run /\ poisoned')
  <2>1. Accepts(run, e) /\ run' = Reduce(run, e) /\ ~poisoned'
    BY <1>3 DEF CommitEvent
  <2>2. \A c \in Cands :
          run'.cands[c].status =
            IF e.kind = "CandidateRegistered" /\ e.cand = c THEN "Pending"
            ELSE IF e.kind = "CandidateStatusChanged" /\ e.cand = c THEN e.to
            ELSE run.cands[c].status
    BY <1>1, <2>1, ReduceCandStatus
  <2>3. run'.status = IF e.kind = "RunStatusChanged" THEN e.to ELSE run.status
    BY <1>1, <2>1, ReduceRunStatus
  <2>4. ASSUME NEW c \in Cands, e.kind # "CandidateRegistered", c \in NonTerminal(run')
        PROVE  c \in NonTerminal(run)
    <3>1. CASE e.kind = "CandidateStatusChanged" /\ e.cand = c
      <4>1. /\ run.cands[c].status = e.from /\ e.from \in CandidateStatus /\ e.to \in CandidateStatus
            /\ e.to = e.from \/ e.to \in CandidateAllowedNext[e.from]
        BY <1>1, <2>1, <3>1, EventFields DEF Accepts, CandidateMayBecome
      <4>2. e.to \notin CandidateTerminal
        BY <2>2, <2>4, <3>1 DEF NonTerminal
      <4>3. e.from \notin CandidateTerminal /\ e.from # "Absent"
        BY <4>1, <4>2 DEF CandidateAllowedNext, CandidateTerminal, CandidateStatus
      <4> QED BY <4>1, <4>3 DEF NonTerminal, Registered
    <3>2. CASE ~(e.kind = "CandidateStatusChanged" /\ e.cand = c)
      <4>1. run'.cands[c].status = run.cands[c].status
        BY <2>2, <2>4, <3>2
      <4> QED BY <2>4, <4>1 DEF NonTerminal, Registered
    <3> QED BY <3>1, <3>2
  <2>5. e.kind # "CandidateRegistered" => NonTerminal(run') \subseteq NonTerminal(run)
    BY <2>4 DEF NonTerminal
  <2>6. e.kind = "CandidateStatusChanged" /\ e.to = "Cancelled" => e.cand \notin NonTerminal(run')
    BY <2>2 DEF NonTerminal, CandidateTerminal
  <2> QED BY <2>1, <2>3, <2>5, <2>6
<1> QED BY <1>2, <1>3

(***************************************************************************)
(* Steps that commit nothing.                                              *)
(***************************************************************************)
LEMMA QuietEmpty ==
  ASSUME NEW o
  PROVE  CallsQuiet(o, << >>)
  BY SeqFacts DEF CallsQuiet

LEMMA QuietOne ==
  ASSUME IInv, QuietInv, run' = run, NEW o \in Owners, NEW t, todo' = [todo EXCEPT ![o] = t],
         CallsQuiet(o, t)
  PROVE  QuietInv'
<1>1. \A q \in Owners : todo'[q] = IF q = o THEN t ELSE todo[q]
  BY DEF IInv
<1>2. \A q \in Owners : CallsQuiet(q, todo'[q])
  BY <1>1 DEF QuietInv
<1> QED BY <1>2 DEF QuietInv, CallsQuiet, CancelledRunIsQuiet

LEMMA QuietAll ==
  ASSUME QuietInv, run' = run, UNCHANGED todo \/ \E result : EndDispatch(result)
  PROVE  QuietInv'
<1>1. \A q \in Owners : todo'[q] = todo[q] \/ todo'[q] = << >>
  BY DEF EndDispatch
<1>2. \A q \in Owners : CallsQuiet(q, todo'[q])
  BY <1>1, QuietEmpty DEF QuietInv
<1> QED BY <1>2 DEF QuietInv, CallsQuiet, CancelledRunIsQuiet

\* A task that cancels nothing goes on with tame calls; the loop of a cancelled run only
\* with idle ones.
LEMMA QuietOn ==
  ASSUME IInv, QuietInv, run' = run, NEW o \in Owners, todo[o] # << >>, todo[o] \in Seq(TameOp),
         NEW p \in Seq(TameOp), Continue(o, p),
         o = RunOwner /\ run.status = "Cancelled" => p \in Seq(IdleOp)
  PROVE  QuietInv'
<1> DEFINE u == Tail(todo[o])
           t == p \o u
<1>1. u \in Seq(TameOp)
  BY SeqFacts
<1>2. o = RunOwner /\ run.status = "Cancelled" => u \in Seq(IdleOp)
  BY SeqFacts DEF QuietInv, CallsQuiet
<1>3. todo' = [todo EXCEPT ![o] = t]
  BY DEF Continue
<1> HIDE DEF u
<1>4. CallsQuiet(o, t)
  BY <1>1, <1>2, SeqFacts DEF CallsQuiet
<1> HIDE DEF t
<1> QED BY <1>3, <1>4, QuietOne

LEMMA FrontOne ==
  ASSUME NEW x, NEW y, NEW z
  PROVE  << x >> \o << y, z >> = << x, y, z >>
<1> DEFINE S == {x, y, z}
           a == << x >>
           b == << y, z >>
           d == << x, y, z >>
           t == a \o b
<1>1. /\ a \in Seq(S) /\ b \in Seq(S) /\ d \in Seq(S)
      /\ Len(a) = 1 /\ Len(b) = 2 /\ Len(d) = 3
      /\ a[1] = x /\ b[1] = y /\ b[2] = z /\ d[1] = x /\ d[2] = y /\ d[3] = z
  OBVIOUS
<1> HIDE DEF S, a, b, d
<1>2. a \in Seq(S) /\ b \in Seq(S) /\ Len(a) \in Nat /\ Len(b) \in Nat
  BY <1>1
<1>3. t \in Seq(S) /\ Len(t) = Len(a) + Len(b)
  BY <1>2, ConcatProperties
<1>4. \A i \in 1 .. Len(a) + Len(b) : t[i] = IF i <= Len(a) THEN a[i] ELSE b[i - Len(a)]
  BY <1>2, ConcatProperties
<1> HIDE DEF t
<1>5. \A i \in 1 .. 3 : t[i] = d[i]
  <2>1. t[1] = x /\ t[2] = y /\ t[3] = z
    BY <1>1, <1>3, <1>4
  <2> QED BY <1>1, <2>1
<1>6. t = d
  <2>1. Len(t) = 3
    BY <1>1, <1>3
  <2> QED BY <1>1, <1>3, <1>5, <2>1, SeqEqual
<1> QED BY <1>6 DEF t, a, b, d

LEMMA FrontTwo ==
  ASSUME NEW x, NEW y, NEW z
  PROVE  << x, y >> \o << z >> = << x, y, z >>
  BY Tuples

LEMMA Fronts ==
  ASSUME NEW x, NEW y, NEW z
  PROVE  /\ << x >> \o << y >> = << x, y >>
         /\ << >> \o << z >> = << z >>
         /\ << >> \o << y, z >> = << y, z >>
<1> DEFINE S == {x, y, z}
<1>1. << y, z >> \in Seq(S) /\ << z >> \in Seq(S)
  OBVIOUS
<1>2. << x >> \o << y >> = << x, y >>
  BY Tuples
<1>3. ASSUME NEW s \in Seq(S)
      PROVE  << >> \o s = s
  BY <1>3, ConcatEmptySeq
<1> HIDE DEF S
<1> QED BY <1>1, <1>2, <1>3

\* What is left to do of a task that goes on with the calls p.
LEMMA Continued ==
  ASSUME NEW o, NEW p, Continue(o, p), NEW r, Tail(todo[o]) = r
  PROVE  todo' = [todo EXCEPT ![o] = p \o r]
  BY DEF Continue

LEMMA QuietReadRun ==
  ASSUME IInv, FlowInv, QuietInv, NEW o \in Owners, ReadRunStatus(o)
  PROVE  QuietInv'
<1> DEFINE s == todo[o]
           to == s[1].to
           e == StatusChanged(run.status, to)
<1>1. /\ s \in Seq(PlannedOp) /\ s # << >> /\ s[1].op = "SetRun" /\ Call(o) = s[1] /\ s[1] \in PlannedOp
      /\ run' = run /\ run.status \in RunStatus
      /\ s \in Seq(TameOp) \/ Finishing(s, NonTerminal(run))
  BY AtCall DEF ReadRunStatus, QuietInv, CallsQuiet, IInv, RunInv, Projection
<1>2. to \in RunStatus
  BY <1>1, OpFields
<1>3. Continue(o, << >>) \/ Continue(o, << Do(e) >>) \/ Continue(o, << Fail >>)
  BY <1>1 DEF ReadRunStatus
<1>4. e \in PlannedEvent /\ e.kind = "RunStatusChanged" /\ e.to = to
  BY <1>1, <1>2, PlannedEvents DEF StatusChanged
<1>5. Do(e) \in IdleOp /\ Fail \in IdleOp /\ Fail \in TameOp /\ Do(e) \in PlannedOp
  BY <1>4, IdleOps, TameOps, PlannedOps, CallKinds
<1>6. CASE s \in Seq(TameOp)
  <2>1. to # "Cancelled"
    BY <1>1, <1>6, TameFirst DEF TameOp, ToCancelled
  <2>2. Do(e) \in TameOp
    BY <1>1, <1>2, <2>1, TameOps
  <2>3. /\ << >> \in Seq(TameOp) /\ << Do(e) >> \in Seq(TameOp) /\ << Fail >> \in Seq(TameOp)
        /\ << >> \in Seq(IdleOp) /\ << Do(e) >> \in Seq(IdleOp) /\ << Fail >> \in Seq(IdleOp)
    BY <1>5, <2>2, SeqFacts
  <2> QED BY <1>1, <1>3, <1>6, <2>3, QuietOn
<1>7. CASE Finishing(s, NonTerminal(run))
  <2> DEFINE z == s[2]
  <2>1. /\ ToCancelled(s[1]) /\ Len(s) = 2 /\ NonTerminal(run) = {} /\ z.op = "Return"
    BY <1>1, <1>7, FinishingFirst DEF CancelsCand, Commits
  <2>2. to = "Cancelled" /\ ToCancelled(Do(e))
    BY <1>1, <1>4, <2>1, CallKinds DEF ToCancelled, Commits
  <2>3. Tail(s) = << z >> /\ z \in PlannedOp
    BY <1>1, <2>1, ShortCalls
  <2>4. z \in TameOp /\ z \in IdleOp
    BY <2>1, <2>3, TameOps, IdleOps
  <2> DEFINE do == Do(e)
             r == << z >>
  <2>c. Tail(todo[o]) = r
    BY <2>3
  <2> HIDE DEF s, to, z, r, do
  <2>a. ASSUME NEW p, Continue(o, p)
        PROVE  todo' = [todo EXCEPT ![o] = p \o r]
    BY <2>a, <2>c, Continued
  <2>b. /\ << >> \o r = << z >> /\ << do >> \o r = << do, z >> /\ << Fail >> \o r = << Fail, z >>
    BY Fronts DEF r
  <2>5. PICK t : /\ todo' = [todo EXCEPT ![o] = t]
                 /\ t = << z >> \/ t = << do, z >> \/ t = << Fail, z >>
    BY <1>3, <2>a, <2>b DEF do
  <2>6. t \in Seq(IdleOp)
    <3>1. do \in IdleOp
      BY <1>5 DEF do
    <3> QED BY <1>5, <2>4, <2>5, <3>1, SeqFacts
  <2>7. t \in Seq(TameOp) \/ Finishing(t, NonTerminal(run))
    <3>1. CASE t = << do, z >>
      <4>1. ToCancelled(do)
        BY <2>2 DEF do
      <4> QED BY <2>1, <3>1, <4>1, ShortFinishing
    <3>2. CASE t = << z >> \/ t = << Fail, z >>
      BY <1>5, <2>4, <3>2, SeqFacts
    <3> QED BY <2>5, <3>1, <3>2
  <2>8. CallsQuiet(o, t)
    BY <2>6, <2>7 DEF CallsQuiet
  <2> QED BY <1>1, <2>5, <2>8, QuietOne
<1> QED BY <1>1, <1>6, <1>7

LEMMA QuietReadCand ==
  ASSUME IInv, FlowInv, QuietInv, NEW o \in Owners, ReadCandidateStatus(o)
  PROVE  QuietInv'
<1> DEFINE s == todo[o]
           c == s[1].cand
           from == run.cands[c].status
           to == s[1].to
           e == CandidateStatusChanged(c, from, to)
<1>1. /\ s \in Seq(PlannedOp) /\ s # << >> /\ s[1].op = "SetCand" /\ Call(o) = s[1] /\ s[1] \in PlannedOp
      /\ run' = run /\ run \in Projection
      /\ s \in Seq(TameOp) \/ Finishing(s, NonTerminal(run))
  BY AtCall DEF ReadCandidateStatus, QuietInv, CallsQuiet, IInv, RunInv
<1>2. c \in Cands /\ to \in CandidateStatus
  BY <1>1, OpFields
<1>3. \/ Continue(o, << >>) /\ from = to
      \/ Continue(o, << Do(e) >>) /\ from # "Absent"
      \/ Continue(o, << Fail >>)
  BY <1>1 DEF ReadCandidateStatus
<1>4. from # "Absent" => e \in PlannedEvent /\ e.kind = "CandidateStatusChanged"
  <2>1. from \in CandidateStatus \cup {"Absent"}
    BY <1>1, <1>2 DEF Projection, CandidateRecord
  <2> QED BY <1>2, <2>1, PlannedEvents DEF CandidateStatusChanged
<1>5. /\ Fail \in IdleOp /\ Fail \in TameOp /\ Fail \in PlannedOp
      /\ from # "Absent" => Do(e) \in IdleOp /\ Do(e) \in TameOp /\ Do(e) \in PlannedOp
  BY <1>4, IdleOps, TameOps, PlannedOps, CallKinds
<1>6. CASE s \in Seq(TameOp)
  <2>1. /\ << >> \in Seq(TameOp) /\ << Fail >> \in Seq(TameOp)
        /\ << >> \in Seq(IdleOp) /\ << Fail >> \in Seq(IdleOp)
        /\ from # "Absent" => << Do(e) >> \in Seq(TameOp) /\ << Do(e) >> \in Seq(IdleOp)
    BY <1>5, SeqFacts
  <2> HIDE DEF e, from, c, to
  <2> QED BY <1>1, <1>3, <1>6, <2>1, QuietOn
<1>7. CASE Finishing(s, NonTerminal(run))
  <2> DEFINE y == s[2]
             z == s[3]
  <2>1. /\ Len(s) = 3 /\ y.op = "CancelAll" /\ z.op = "Return" /\ ~ToCancelled(s[1])
    BY <1>1, <1>7, FinishingFirst DEF ToCancelled, Commits
  <2>2. \E d \in Cands : CancelsCand(s[1], d) /\ NonTerminal(run) \subseteq y.left \cup {d}
    BY <1>1, <1>7, <2>1, FinishingFirst
  <2>3. to = "Cancelled" /\ NonTerminal(run) \subseteq y.left \cup {c}
    BY <1>1, <2>2 DEF CancelsCand, Commits
  <2>4. Tail(s) = << y, z >> /\ y \in PlannedOp /\ z \in PlannedOp
    BY <1>1, <2>1, ShortCalls
  <2>5. CancelsCand(Do(e), c) /\ Fail.op = "Fail"
    BY <2>3, CallKinds DEF CancelsCand, Commits, CandidateStatusChanged
  <2>6. from = to => NonTerminal(run) \subseteq y.left
    BY <2>3 DEF NonTerminal, CandidateTerminal
  <2> DEFINE do == Do(e)
             r == << y, z >>
  <2>e. Tail(todo[o]) = r
    BY <2>4
  <2>c. CancelsCand(do, c) /\ (from # "Absent" => do \in PlannedOp)
    BY <1>5, <2>5
  <2>d. \/ Continue(o, << >>) /\ from = to
        \/ Continue(o, << do >>) /\ from # "Absent"
        \/ Continue(o, << Fail >>)
    BY <1>3
  <2> HIDE DEF s, to, e, y, z, c, from, do, r
  <2>a. ASSUME NEW p, Continue(o, p)
        PROVE  todo' = [todo EXCEPT ![o] = p \o r]
    BY <2>a, <2>e, Continued
  <2>b. << >> \o r = << y, z >> /\ \A x : << x >> \o r = << x, y, z >>
    <3>1. << >> \o << y, z >> = << y, z >>
      BY Fronts, Zenon
    <3>2. \A x : << x >> \o << y, z >> = << x, y, z >>
      BY FrontOne
    <3> QED BY <3>1, <3>2 DEF r
  <2>7. PICK t : /\ todo' = [todo EXCEPT ![o] = t]
                 /\ \/ t = << y, z >> /\ from = to
                    \/ t = << do, y, z >> /\ from # "Absent"
                    \/ t = << Fail, y, z >>
    BY <2>a, <2>b, <2>d
  <2>8. Finishing(t, NonTerminal(run))
    <3>1. CASE t = << y, z >> /\ from = to
      BY <2>1, <2>6, <3>1, ShortFinishing
    <3>2. CASE t = << do, y, z >>
      BY <1>2, <2>1, <2>3, <2>c, <3>2, ShortFinishing
    <3>3. CASE t = << Fail, y, z >>
      BY <2>1, <2>5, <3>3, ShortFinishing
    <3> QED BY <2>7, <3>1, <3>2, <3>3
  <2>9. t \in Seq(PlannedOp)
    <3>1. \A x \in PlannedOp : << x, y, z >> \in Seq(PlannedOp)
      BY <2>4
    <3> QED BY <1>5, <2>4, <2>7, <2>c, <3>1, SeqFacts
  <2>10. CallsQuiet(o, t)
    BY <2>8, <2>9, FinishingIdle DEF CallsQuiet
  <2> QED BY <1>1, <2>7, <2>10, QuietOne
<1> QED BY <1>1, <1>6, <1>7

LEMMA QuietCancelNext ==
  ASSUME IInv, FlowInv, QuietInv, NEW o \in Owners, CancelNext(o)
  PROVE  QuietInv'
<1> DEFINE s == todo[o]
           left == s[1].left
           z == s[2]
<1>1. /\ s \in Seq(PlannedOp) /\ s # << >> /\ s[1].op = "CancelAll" /\ Call(o) = s[1] /\ s[1] \in PlannedOp
      /\ run' = run
      /\ s \in Seq(TameOp) \/ Finishing(s, NonTerminal(run))
  BY AtCall DEF CancelNext, QuietInv, CallsQuiet
<1>2. Finishing(s, NonTerminal(run))
  BY <1>1, TameFirst DEF TameOp
<1>3. Len(s) = 2 /\ NonTerminal(run) \subseteq left /\ z.op = "Return" /\ left \in SUBSET Cands
  BY <1>1, <1>2, FinishingFirst, OpFields
<1>4. Tail(s) = << z >> /\ z \in PlannedOp
  BY <1>1, <1>3, ShortCalls
<1>5. ASSUME NEW t \in Seq(PlannedOp), todo' = [todo EXCEPT ![o] = t], Finishing(t, NonTerminal(run))
      PROVE  QuietInv'
  BY <1>1, <1>5, FinishingIdle, QuietOne DEF CallsQuiet
<1>6. ASSUME left = {}, Continue(o, << SetRun("Cancelled") >>)
      PROVE  QuietInv'
  <2> DEFINE x == SetRun("Cancelled")
  <2>1. x \in PlannedOp /\ ToCancelled(x)
    BY PlannedOps, CallKinds DEF ToCancelled, RunStatus
  <2>a. Tail(todo[o]) = << z >> /\ Continue(o, << x >>)
    BY <1>4, <1>6
  <2> HIDE DEF s, x, z, left
  <2>b. todo' = [todo EXCEPT ![o] = << x >> \o << z >>]
    BY <2>a, Continued
  <2>2. todo' = [todo EXCEPT ![o] = << x, z >>]
    BY <2>b, Fronts
  <2>3. << x, z >> \in Seq(PlannedOp)
    BY <1>4, <2>1, SeqFacts
  <2>4. Finishing(<< x, z >>, NonTerminal(run))
    BY <1>3, <1>6, <2>1, ShortFinishing
  <2> QED BY <1>5, <2>2, <2>3, <2>4
<1>7. ASSUME NEW c \in left, Continue(o, << SetCand(c, "Cancelled"), CancelAll(left \ {c}) >>)
      PROVE  QuietInv'
  <2> DEFINE x == SetCand(c, "Cancelled")
             y == CancelAll(left \ {c})
  <2>1. c \in Cands /\ x \in PlannedOp /\ CancelsCand(x, c)
    BY <1>3, PlannedOps, CallKinds DEF CancelsCand, CandidateStatus
  <2>2. y \in PlannedOp /\ y.op = "CancelAll" /\ NonTerminal(run) \subseteq y.left \cup {c}
    BY <1>3, PlannedOps, CallKinds
  <2>a. Tail(todo[o]) = << z >> /\ Continue(o, << x, y >>)
    BY <1>4, <1>7
  <2> HIDE DEF s, x, y, z, left
  <2>b. todo' = [todo EXCEPT ![o] = << x, y >> \o << z >>]
    BY <2>a, Continued
  <2>c. << x, y >> \o << z >> = << x, y, z >>
    BY FrontTwo
  <2>3. todo' = [todo EXCEPT ![o] = << x, y, z >>]
    BY <2>b, <2>c, Zenon
  <2>4. << x, y, z >> \in Seq(PlannedOp)
    BY <1>4, <2>1, <2>2
  <2>5. Finishing(<< x, y, z >>, NonTerminal(run))
    BY <1>3, <2>1, <2>2, ShortFinishing
  <2> QED BY <1>5, <2>3, <2>4, <2>5
<1> QED BY <1>1, <1>6, <1>7 DEF CancelNext

LEMMA QuietExclude ==
  ASSUME IInv, FlowInv, QuietInv, NEW o \in Owners, ExcludeNext(o)
  PROVE  QuietInv'
<1> DEFINE s == todo[o]
           left == s[1].left
<1>1. /\ s \in Seq(PlannedOp) /\ s # << >> /\ s[1].op = "ExcludeAll" /\ Call(o) = s[1] /\ s[1] \in PlannedOp
      /\ run' = run
      /\ s \in Seq(TameOp) \/ Finishing(s, NonTerminal(run))
  BY AtCall DEF ExcludeNext, QuietInv, CallsQuiet
<1>2. s \in Seq(TameOp) /\ left \in SUBSET Cands
  BY <1>1, FinishingFirst, OpFields
<1>3. ASSUME NEW c \in left
      PROVE  /\ << Do(CandidateExcluded(c)), ExcludeAll(left \ {c}) >> \in Seq(TameOp)
             /\ << Do(CandidateExcluded(c)), ExcludeAll(left \ {c}) >> \in Seq(IdleOp)
  <2>1. CandidateExcluded(c) \in PlannedEvent /\ CandidateExcluded(c).kind = "CandidateExcluded"
    BY <1>2, PlannedEvents DEF CandidateExcluded
  <2>2. /\ Do(CandidateExcluded(c)) \in TameOp /\ Do(CandidateExcluded(c)) \in IdleOp
        /\ ExcludeAll(left \ {c}) \in TameOp /\ ExcludeAll(left \ {c}) \in IdleOp
    BY <1>2, <2>1, PlannedOps, CallKinds, TameOps, IdleOps
  <2> QED BY <2>2, SeqFacts
<1>4. << >> \in Seq(TameOp) /\ << >> \in Seq(IdleOp)
  BY SeqFacts
<1>5. PICK p \in Seq(TameOp) : Continue(o, p) /\ p \in Seq(IdleOp)
  BY <1>1, <1>3, <1>4 DEF ExcludeNext
<1> QED BY <1>1, <1>2, <1>5, QuietOn

LEMMA QuietStart ==
  ASSUME IInv, FlowInv, QuietInv, NEW o \in Owners, StartNode(o)
  PROVE  QuietInv'
<1> DEFINE s == todo[o]
           node == Call(o).node
           number == NextAttemptNumber(run, o, node)
           e == NodeStarted(o, node, number)
<1>1. /\ s \in Seq(PlannedOp) /\ s # << >> /\ s[1].op = "Start" /\ Call(o) = s[1] /\ s[1] \in PlannedOp
      /\ SoundCall(o, run.attempts[o], s, 1) /\ run' = run /\ run \in Projection
      /\ s \in Seq(TameOp) \/ Finishing(s, NonTerminal(run))
  BY AtCall DEF StartNode, QuietInv, CallsQuiet, IInv, RunInv
<1>2. s \in Seq(TameOp) /\ node \in Nodes /\ Tail(s) = << >>
  BY <1>1, FinishingFirst, OpFields, LastCall DEF LastOps
<1>3. ~(o = RunOwner /\ run.status = "Cancelled")
  <2>1. s \notin Seq(IdleOp)
    BY <1>1 DEF IdleOp
  <2> QED BY <2>1 DEF QuietInv, CallsQuiet
<1>4. CASE cancelled
  <2> DEFINE y == CancelAll(NonTerminal(run))
             z == Return("Blocked")
             t == << y, z >>
  <2>1. y \in PlannedOp /\ z \in PlannedOp /\ y.op = "CancelAll" /\ y.left = NonTerminal(run) /\ z.op = "Return"
    BY PlannedOps, CallKinds DEF NonTerminal, Outcome
  <2>2. Continue(o, t)
    BY <1>4 DEF StartNode
  <2>3. todo' = [todo EXCEPT ![o] = t \o << >>]
    BY <1>2, <2>2, Continued
  <2> HIDE DEF y, z
  <2>4. t \in Seq(PlannedOp)
    BY <2>1, SeqFacts
  <2>5. Finishing(t, NonTerminal(run))
    BY <2>1, ShortFinishing
  <2> HIDE DEF t
  <2>6. t \o << >> = t
    BY <2>4, ConcatEmptySeq
  <2>7. CallsQuiet(o, t)
    BY <1>3, <2>5 DEF CallsQuiet
  <2> QED BY <1>1, <2>3, <2>6, <2>7, QuietOne
<1>5. CASE ~cancelled
  <2>1. number \in Nat
    BY <1>1, NumberType
  <2>2. Continue(o, << Do(e) >> \o Only(Edits(node), Edit(node)) \o << Body(node, number) >>)
    BY <1>5 DEF StartNode
  <2> HIDE DEF node, number
  <2>3. e \in PlannedEvent /\ e.kind = "NodeStarted"
    BY <1>2, <2>1, PlannedEvents DEF NodeStarted
  <2> HIDE DEF e
  <2>4. Do(e) \in TameOp /\ Edit(node) \in TameOp /\ Body(node, number) \in TameOp
    BY <1>2, <2>1, <2>3, PlannedOps, CallKinds, TameOps
  <2>5. << Do(e) >> \o Only(Edits(node), Edit(node)) \o << Body(node, number) >> \in Seq(TameOp)
    <3>1. /\ << Do(e) >> \in Seq(TameOp) /\ << Body(node, number) >> \in Seq(TameOp)
          /\ Only(Edits(node), Edit(node)) \in Seq(TameOp)
      BY <2>4, SeqFacts
    <3> QED BY <3>1, SeqFacts
  <2> QED BY <1>1, <1>2, <1>3, <2>2, <2>5, QuietOn
<1> QED BY <1>4, <1>5

LEMMA QuietEnds ==
  ASSUME IInv, FlowInv, QuietInv, NEW o \in Owners, ReturnFrom(o) \/ FailFrom(o)
  PROVE  QuietInv'
<1>1. run' = run
  BY DEF ReturnFrom, FailFrom, Ends
<1>2. CASE o = RunOwner
  BY <1>1, <1>2, QuietAll DEF ReturnFrom, FailFrom, Ends
<1>3. CASE o # RunOwner
  <2>1. todo' = [todo EXCEPT ![o] = << >>]
    BY <1>3 DEF ReturnFrom, FailFrom, Ends
  <2> QED BY <1>1, <2>1, QuietEmpty, QuietOne
<1> QED BY <1>2, <1>3

\* What a body leaves cancels nothing.
LEMMA BodyTame ==
  ASSUME NEW o \in Owners, NEW node \in Nodes, NEW number \in Nat, NEW out \in NodeOutput(node)
  PROVE  FinaliseCalls(o, node, number, out) \in Seq(TameOp)
<1> DEFINE a == Only(out.cand # None /\ o # RunOwner, SetCand(o, out.cand))
           b == Only(out.run # None, SetRun(out.run))
           c == Only(out.status = "Failed" /\ out.next = None /\ node \in RunNodes,
                     SetRun("Failed"))
           d == Only(out.status = "Paused" /\ node \in RunNodes, SetRun("RecoveryRequired"))
           last == Only(out.status \notin {"Succeeded", "Failed"}, Return("Blocked"))
           e == NodeClosed(o, node, number, out.status, out.next, out.why)
<1>1. /\ out.cand \in CandidateStatus \cup {None} /\ out.run \in {None, "Exhausted", "Succeeded"}
      /\ out.calls \in Seq(NodeOp(node)) /\ {"Failed", "RecoveryRequired"} \subseteq RunStatus
      /\ {"Exhausted", "Succeeded"} \subseteq RunStatus
      /\ out.status \in AttemptStatus \ {"Started"} /\ out.next \in Nodes \cup {None}
      /\ out.why \in Fingerprints \cup {0}
  BY DEF NodeOutput, PlannedOutput, Output, RunStatus, AttemptStatus
<1>2. out.calls \in Seq(TameOp)
  <2>1. "RunStatusChanged" \notin BodyKinds(node)
    BY DEF BodyKinds
  <2>2. \A x \in NodeOp(node) : x \in TameOp
    BY <2>1 DEF NodeOp, TameOp, ToCancelled, Commits
  <2> QED BY <1>1, <2>2
<1>3. e \in PlannedEvent /\ e.kind = "NodeClosed"
  BY <1>1, PlannedEvents DEF NodeClosed
<1>4. Do(e) \in TameOp /\ Fail \in TameOp /\ Return("Blocked") \in TameOp
  BY <1>3, PlannedOps, CallKinds, TameOps DEF Outcome
<1>5. /\ SetRun("Failed") \in TameOp /\ SetRun("RecoveryRequired") \in TameOp
      /\ out.run # None => SetRun(out.run) \in TameOp
      /\ out.cand # None /\ o # RunOwner => SetCand(o, out.cand) \in TameOp
  BY <1>1, OwnerFacts, PlannedOps, CallKinds, TameOps
<1>6. a \in Seq(TameOp) /\ b \in Seq(TameOp) /\ c \in Seq(TameOp) /\ d \in Seq(TameOp) /\ last \in Seq(TameOp)
  BY <1>4, <1>5, SeqFacts
<1>7. PatchCalls(o, node, out) = a \o b \o c \o d
  BY DEF PatchCalls
<1> HIDE DEF a, b, c, d
<1>8. PatchCalls(o, node, out) \in Seq(TameOp)
  BY <1>6, <1>7, SeqFacts
<1>9. FinaliseCalls(o, node, number, out) =
        out.calls \o IF ~ValidResult(node, out.next) THEN << Fail >>
                     ELSE << Do(e) >> \o PatchCalls(o, node, out) \o last
  BY DEF FinaliseCalls
<1> HIDE DEF e, last
<1>10. << Fail >> \in Seq(TameOp) /\ << Do(e) >> \o PatchCalls(o, node, out) \o last \in Seq(TameOp)
  <2>1. << Fail >> \in Seq(TameOp) /\ << Do(e) >> \in Seq(TameOp)
    BY <1>4, SeqFacts
  <2> QED BY <1>6, <1>8, <2>1, SeqFacts
<1> QED BY <1>2, <1>9, <1>10, SeqFacts

LEMMA QuietBody ==
  ASSUME IInv, FlowInv, QuietInv, NodeBody
  PROVE  QuietInv'
<1>1. ASSUME NEW o \in Owners, EditWorktree(o)
      PROVE  QuietInv'
  <2>1. /\ todo[o] \in Seq(PlannedOp) /\ todo[o] # << >> /\ todo[o][1].op = "Edit" /\ run' = run
        /\ Continue(o, << >>)
        /\ todo[o] \in Seq(TameOp) \/ Finishing(todo[o], NonTerminal(run))
    BY <1>1, AtCall DEF EditWorktree, KeepsEngine, QuietInv, CallsQuiet
  <2>2. todo[o] \in Seq(TameOp)
    BY <2>1, FinishingFirst
  <2>3. << >> \in Seq(TameOp) /\ << >> \in Seq(IdleOp)
    BY SeqFacts
  <2> QED BY <2>1, <2>2, <2>3, QuietOn
<1>2. ASSUME NEW o \in Owners, Produces(o)
      PROVE  QuietInv'
  <2> DEFINE s == todo[o]
             node == Call(o).node
             number == Call(o).number
  <2>1. /\ s \in Seq(PlannedOp) /\ s # << >> /\ s[1].op = "Body" /\ Call(o) = s[1] /\ s[1] \in PlannedOp
        /\ run' = run
        /\ s \in Seq(TameOp) \/ Finishing(s, NonTerminal(run))
    BY <1>2, AtCall DEF Produces, KeepsEngine, QuietInv, CallsQuiet
  <2>2. s \in Seq(TameOp) /\ node \in Nodes /\ number \in Nat
    BY <2>1, FinishingFirst, OpFields
  <2>3. ~(o = RunOwner /\ run.status = "Cancelled")
    <3>1. s \notin Seq(IdleOp)
      BY <2>1 DEF IdleOp
    <3> QED BY <3>1 DEF QuietInv, CallsQuiet
  <2>4. PICK out \in NodeOutput(node) : Produce(o, out)
    BY <1>2 DEF Produces
  <2> DEFINE after == AfterRetryDecision(o, node, number, out)
             p == FinaliseCalls(o, node, number, after)
  <2>5. Continue(o, p)
    BY <2>4 DEF Produce
  <2>6. after \in NodeOutput(node)
    BY <2>2, RoutedOutput
  <2> HIDE DEF after
  <2>7. p \in Seq(TameOp)
    BY <2>2, <2>6, BodyTame
  <2> HIDE DEF p
  <2> QED BY <2>1, <2>2, <2>3, <2>5, <2>7, QuietOn
<1>3. ASSUME NEW c \in Cands, ProducesRepair(c)
      PROVE  QuietInv'
  <2>1. c \in Owners /\ Produces(c)
    BY <1>3, OwnerFacts DEF ProducesRepair, Produces, RepairOutput, AtBody
  <2> QED BY <1>2, <2>1
<1>4. ASSUME NEW o \in Owners, GateWrites(o)
      PROVE  QuietInv'
  <2>1. UNCHANGED << run, poisoned, lock, stopped, task, todo, cancelled, outcome, pending >>
    BY <1>4, GateWritesKeep
  <2> QED BY <2>1 DEF QuietInv, CallsQuiet, CancelledRunIsQuiet
<1> QED BY <1>1, <1>2, <1>3, <1>4, BodyRepairs

LEMMA QuietLoop ==
  ASSUME IInv, FlowInv, QuietInv, RunLoop
  PROVE  QuietInv'
<1>1. run' = run /\ run \in Projection /\ RunOwner \in Owners
  BY OwnerFacts
     DEF RunLoop, LoopFinish, LoopBlocked, LoopReturns, LoopAwaitPlan, LoopAwaitCommit, LoopCancel,
         LoopNode, LoopCandidates, LoopCalls, AwaitTasks, IInv, RunInv
<1>2. CASE LoopFinish \/ LoopBlocked
  BY <1>1, <1>2, QuietAll DEF LoopFinish, LoopBlocked, LoopReturns
<1>3. ASSUME NEW kind, kind # "Finish", NEW t, LoopCalls(kind, t),
             t \in Seq(TameOp) \/ Finishing(t, NonTerminal(run))
      PROVE  QuietInv'
  <2>1. run.status # "Cancelled"
    BY <1>3 DEF LoopCalls, NextRunStep, Finish, RunTerminal
  <2>2. CallsQuiet(RunOwner, t)
    BY <1>3, <2>1 DEF CallsQuiet
  <2>3. todo' = [todo EXCEPT ![RunOwner] = t]
    BY <1>3 DEF LoopCalls
  <2> QED BY <1>1, <2>2, <2>3, QuietOne
<1>4. CASE LoopAwaitPlan \/ LoopAwaitCommit
  <2>1. \A status \in {"AwaitingPlanApproval", "AwaitingCommitApproval"} :
          SetRun(status) \in TameOp /\ Return(status) \in TameOp
    BY PlannedOps, CallKinds, TameOps DEF RunStatus, Outcome
  <2>2. \A status \in {"AwaitingPlanApproval", "AwaitingCommitApproval"} :
          << SetRun(status), Return(status) >> \in Seq(TameOp)
    BY <2>1, SeqFacts
  <2> QED BY <1>3, <1>4, <2>2 DEF LoopAwaitPlan, LoopAwaitCommit
<1>5. CASE LoopCancel
  <2> DEFINE y == CancelAll(NonTerminal(run))
             z == Return("Cancelled")
             t == << y, z >>
  <2>1. y.op = "CancelAll" /\ y.left = NonTerminal(run) /\ z.op = "Return"
    BY CallKinds
  <2>2. LoopCalls("Cancel", t)
    BY <1>5 DEF LoopCancel
  <2> HIDE DEF y, z
  <2>3. Finishing(t, NonTerminal(run))
    BY <2>1, ShortFinishing
  <2> HIDE DEF t
  <2> QED BY <1>3, <2>2, <2>3
<1>6. CASE LoopCandidates
  <2>1. << Await >> \in Seq(TameOp)
    BY PlannedOps, CallKinds, TameOps, SeqFacts
  <2> QED BY <1>3, <1>6, <2>1 DEF LoopCandidates
<1>7. CASE LoopNode
  <2> DEFINE node == NextRunStep(run).value
             target == DesiredRunStatus(run.status, node)
             t == Only(target # None, SetRun(target)) \o << Start(node) >>
  <2>1. NextRunStep(run).kind = "RunNode" /\ LoopCalls("RunNode", t)
    BY <1>7 DEF LoopNode, LoopCalls
  <2>2. node \in RunNodes
    BY <1>1, <2>1, NextRunStepType DEF RunStep
  <2>3. node \in Nodes
    BY <2>2, NodeNames
  <2> HIDE DEF node
  <2>4. target # None => target \in RunStatus /\ target # "Cancelled"
    <3>1. RunStatusForNode[node] \in RunStatus /\ RunStatusForNode[node] # "Cancelled"
      BY <2>2, <2>3 DEF RunStatusForNode, RunStatus
    <3> QED BY <3>1 DEF DesiredRunStatus
  <2> HIDE DEF target
  <2>5. Start(node) \in TameOp /\ (target # None => SetRun(target) \in TameOp)
    BY <2>3, <2>4, PlannedOps, CallKinds, TameOps
  <2>6. t \in Seq(TameOp)
    <3>1. << Start(node) >> \in Seq(TameOp) /\ Only(target # None, SetRun(target)) \in Seq(TameOp)
      BY <2>5, SeqFacts
    <3> QED BY <3>1, SeqFacts
  <2> HIDE DEF t
  <2> QED BY <1>3, <2>1, <2>6
<1>8. CASE AwaitTasks
  <2> DEFINE p == Only(\E c \in Cands : task[c] = "failed", Fail)
             s == todo[RunOwner]
  <2>1. /\ s \in Seq(PlannedOp) /\ s # << >> /\ s[1].op = "Await" /\ Continue(RunOwner, p)
        /\ s \in Seq(TameOp) \/ Finishing(s, NonTerminal(run))
    BY <1>1, <1>8, AtCall DEF AwaitTasks, QuietInv, CallsQuiet
  <2>2. s \in Seq(TameOp)
    BY <2>1, FinishingFirst
  <2>3. p \in Seq(TameOp) /\ p \in Seq(IdleOp)
    BY PlannedOps, CallKinds, TameOps, IdleOps, SeqFacts
  <2> HIDE DEF p
  <2> QED BY <1>1, <2>1, <2>2, <2>3, QuietOn
<1> QED BY <1>2, <1>4, <1>5, <1>6, <1>7, <1>8 DEF RunLoop

LEMMA QuietCandidates ==
  ASSUME IInv, FlowInv, QuietInv, Candidates
  PROVE  QuietInv'
<1>1. PICK d \in Cands : AcquirePermit(d) \/ DriveCandidate(d)
  BY DEF Candidates
<1>2. run' = run /\ d \in Owners /\ d # RunOwner
  BY <1>1, OwnerFacts DEF AcquirePermit, DriveCandidate, Cands, RunOwner
<1>3. CASE UNCHANGED todo
  BY <1>2, <1>3, QuietAll
<1>4. CASE ~UNCHANGED todo
  <2> DEFINE node == NextCandidateStep(run, d)
             to == CandidateStatusForNode[node]
             t == CandidateCalls(d, node)
  <2>1. /\ DriveCandidate(d) /\ node # None /\ todo' = [todo EXCEPT ![d] = t]
        /\ lock = "dispatch" /\ task[d] = "running" /\ todo[d] = << >>
    BY <1>1, <1>2, <1>4 DEF AcquirePermit, DriveCandidate, Runnable
  <2>2. MayStart(d, run.attempts[d], node)
    BY <2>1, IdleTask, NextMayStart
  <2>3. node \in Nodes
    BY <2>2, NodeNames DEF MayStart
  <2> HIDE DEF node
  <2>4. to \in CandidateStatus \cup {None}
    BY <2>3 DEF CandidateStatusForNode, CandidateStatus
  <2> HIDE DEF to
  <2>5. Start(node) \in TameOp /\ (to # None => SetCand(d, to) \in TameOp)
    BY <2>3, <2>4, PlannedOps, CallKinds, TameOps
  <2>6. << Start(node) >> \in Seq(TameOp) /\ Only(to # None, SetCand(d, to)) \in Seq(TameOp)
    BY <2>5, SeqFacts
  <2>7. t = Only(to # None, SetCand(d, to)) \o << Start(node) >>
    BY DEF CandidateCalls, to
  <2>8. t \in Seq(TameOp)
    BY <2>6, <2>7, SeqFacts
  <2> HIDE DEF t
  <2>9. CallsQuiet(d, t)
    BY <1>2, <2>8 DEF CallsQuiet
  <2> QED BY <1>2, <2>1, <2>9, QuietOne
<1> QED BY <1>3, <1>4

(***************************************************************************)
(* Steps that commit.                                                      *)
(***************************************************************************)
LEMMA FinishingLess ==
  ASSUME NEW s, NEW left, NEW less, less \subseteq left, Finishing(s, left)
  PROVE  Finishing(s, less)
  BY DEF Finishing

LEMMA QuietApart ==
  ASSUME IInv, QuietInv, CommitsApart
  PROVE  QuietInv'
<1>1. PICK e \in PlannedEvent : Apart(e) /\ CommitEvent(e)
  BY DEF CommitsApart
<1>2. e.kind \notin {"CandidateRegistered", "RunStatusChanged"} /\ todo' = todo
  BY <1>1 DEF Apart, RequestKindsOfEvents, CommitsApart
<1>3. NonTerminal(run') \subseteq NonTerminal(run) /\ run'.status = run.status
  BY <1>1, <1>2, LeftAfter
<1>4. \A q \in Owners : /\ todo[q] \in Seq(TameOp) \/ Finishing(todo[q], NonTerminal(run'))
                        /\ q = RunOwner /\ run'.status = "Cancelled" => todo[q] \in Seq(IdleOp)
  BY <1>3, FinishingLess DEF QuietInv, CallsQuiet
<1>5. run'.status = "Cancelled" => NonTerminal(run') = {}
  BY <1>3 DEF QuietInv, CancelledRunIsQuiet
<1>6. \A q \in Owners : CallsQuiet(q, todo[q])'
  BY <1>2, <1>4 DEF CallsQuiet
<1> QED BY <1>5, <1>6 DEF QuietInv, CancelledRunIsQuiet

\* What follows the call that was committed.
LEMMA CommitLeaves ==
  ASSUME IInv, FlowInv, QuietInv, NEW o \in Owners, NEW s \in Seq(PlannedOp), s = todo[o], s # << >>,
         s[1].op = "Do", s[1] \in PlannedOp, CommitEvent(s[1].event),
         s[1].event.kind # "CandidateRegistered", ~poisoned'
  PROVE  Tail(s) \in Seq(TameOp) \/ Finishing(Tail(s), NonTerminal(run'))
<1> DEFINE e == s[1].event
<1>1. e \in PlannedEvent /\ CommitEvent(e) /\ e.kind # "CandidateRegistered"
  BY OpFields
<1>2. NonTerminal(run') \subseteq NonTerminal(run)
  BY <1>1, LeftAfter
<1>3. CASE s \in Seq(TameOp)
  BY <1>3, TameFirst
<1>4. CASE Finishing(s, NonTerminal(run)) /\ ToCancelled(s[1])
  <2>1. Len(s) = 2 /\ s[2].op = "Return"
    BY <1>4, FinishingFirst
  <2>2. Tail(s) = << s[2] >> /\ s[2] \in PlannedOp
    BY <2>1, ShortCalls
  <2>3. s[2] \in TameOp
    BY <2>1, <2>2, TameOps
  <2> QED BY <2>2, <2>3, SeqFacts
<1>5. CASE Finishing(s, NonTerminal(run)) /\ ~ToCancelled(s[1])
  <2> DEFINE y == s[2]
             z == s[3]
  <2>1. /\ Len(s) = 3 /\ y.op = "CancelAll" /\ z.op = "Return"
        /\ \E c \in Cands : CancelsCand(s[1], c) /\ NonTerminal(run) \subseteq y.left \cup {c}
    BY <1>5, FinishingFirst
  <2>2. PICK c \in Cands : CancelsCand(s[1], c) /\ NonTerminal(run) \subseteq y.left \cup {c}
    BY <2>1
  <2>3. e.kind = "CandidateStatusChanged" /\ e.to = "Cancelled" /\ e.cand = c
    BY <2>2 DEF CancelsCand, Commits
  <2>4. c \notin NonTerminal(run')
    BY <1>1, <2>3, LeftAfter
  <2>5. NonTerminal(run') \subseteq y.left
    BY <1>2, <2>2, <2>4
  <2>6. Tail(s) = << y, z >>
    BY <2>1, ShortCalls
  <2> HIDE DEF y, z
  <2>7. Finishing(<< y, z >>, NonTerminal(run'))
    BY <2>1, <2>5, ShortFinishing
  <2> QED BY <2>6, <2>7
<1> QED BY <1>3, <1>4, <1>5 DEF QuietInv, CallsQuiet

LEMMA QuietCommit ==
  ASSUME IInv, FlowInv, GateInv, QuietInv, NEW o \in Owners, DoCommit(o)
  PROVE  QuietInv'
<1> DEFINE s == todo[o]
           e == s[1].event
           t == IF poisoned' THEN << Fail >> ELSE Tail(s)
<1>1. /\ s \in Seq(PlannedOp) /\ s # << >> /\ s[1].op = "Do" /\ Call(o) = s[1] /\ s[1] \in PlannedOp
      /\ Runnable(o) /\ At(o, "Do")
      /\ s \in Seq(TameOp) \/ Finishing(s, NonTerminal(run))
  BY AtCall DEF DoCommit, QuietInv, CallsQuiet
<1>2. e \in PlannedEvent /\ CommitEvent(e)
  BY <1>1, OpFields DEF DoCommit, CommitOrFail
<1>3. todo' = [todo EXCEPT ![o] = t] /\ DOMAIN todo = Owners
  BY DEF DoCommit, CommitOrFail, IInv
<1>4. \A q \in Owners : todo'[q] = IF q = o THEN t ELSE todo[q]
  BY <1>3
<1>5. << Fail >> \in Seq(TameOp) /\ << Fail >> \in Seq(IdleOp)
  BY PlannedOps, CallKinds, TameOps, IdleOps, SeqFacts
<1>6. s \in Seq(IdleOp) => t \in Seq(IdleOp)
  BY <1>1, <1>5, SeqFacts
<1>7. CASE e.kind = "CandidateRegistered"
  <2>1. s \in Seq(TameOp)
    BY <1>1, <1>7, FinishingFirst
  <2>2. o = RunOwner
    <3>1. ASSUME o \in Cands PROVE FALSE
      <4>1. s \in Seq(CandidateOp)
        BY <3>1 DEF GateInv
      <4>2. s[1] \in CandidateOp
        BY <1>1, <4>1
      <4> QED BY <1>1, <1>7, <4>2 DEF CandidateOp, CandidateEvents, PlainEvents
    <3> QED BY <3>1, OwnerFacts
  <2>3. \A c \in Cands : todo[c] = << >>
    <3>1. \A c \in Cands : task[c] = "none"
      BY <1>1, <2>2, TasksAlone
    <3> QED BY <3>1 DEF FlowInv, TaskInv
  <2>4. run.status # "Cancelled"
    <3>1. s \notin Seq(IdleOp)
      BY <1>1, <1>7 DEF IdleOp, Registers, Commits
    <3> QED BY <2>2, <3>1 DEF QuietInv, CallsQuiet
  <2>5. run'.status # "Cancelled"
    BY <1>2, <1>7, <2>4, LeftAfter
  <2>6. t \in Seq(TameOp)
    BY <1>1, <1>5, <2>1, TameFirst
  <2>7. \A q \in Owners : todo'[q] \in Seq(TameOp)
    BY <1>4, <2>2, <2>3, <2>6, OwnerFacts, SeqFacts
  <2>8. \A q \in Owners : CallsQuiet(q, todo[q])'
    BY <2>5, <2>7 DEF CallsQuiet
  <2> QED BY <2>5, <2>8 DEF QuietInv, CancelledRunIsQuiet
<1>8. CASE e.kind # "CandidateRegistered"
  <2>1. NonTerminal(run') \subseteq NonTerminal(run)
    BY <1>2, <1>8, LeftAfter
  <2>2. ASSUME run'.status = "Cancelled", run.status # "Cancelled"
        PROVE  Finishing(s, NonTerminal(run)) /\ NonTerminal(run) = {}
    <3>1. ToCancelled(s[1])
      BY <1>1, <1>2, <2>2, LeftAfter DEF ToCancelled, Commits
    <3>2. s \notin Seq(TameOp)
      BY <1>1, <3>1, TameFirst DEF TameOp
    <3> QED BY <1>1, <3>1, <3>2, FinishingFirst
  <2>3. run'.status = "Cancelled" => NonTerminal(run') = {}
    BY <2>1, <2>2 DEF QuietInv, CancelledRunIsQuiet
  <2>4. t \in Seq(TameOp) \/ Finishing(t, NonTerminal(run'))
    BY <1>1, <1>2, <1>5, <1>8, CommitLeaves
  <2>5. ASSUME NEW q \in Owners
        PROVE  todo'[q] \in Seq(TameOp) \/ Finishing(todo'[q], NonTerminal(run'))
    BY <1>4, <2>1, <2>4, FinishingLess DEF QuietInv, CallsQuiet
  <2>6. ASSUME run'.status = "Cancelled"
        PROVE  todo'[RunOwner] \in Seq(IdleOp)
    <3>a. RunOwner \in Owners
      BY OwnerFacts
    <3>1. CASE o = RunOwner
      <4>1. s \in Seq(IdleOp)
        BY <1>1, <2>2, <2>6, <3>1, FinishingIdle DEF QuietInv, CallsQuiet
      <4> QED BY <1>4, <1>6, <3>1, <3>a, <4>1
    <3>2. CASE o # RunOwner
      <4>1. o \in Cands /\ task[o] = "running"
        BY <1>1, <3>2, OwnerFacts DEF Runnable
      <4>2. todo[RunOwner] = << Await >>
        BY <4>1 DEF FlowInv, TaskInv
      <4>3. << Await >> \in Seq(IdleOp)
        BY PlannedOps, CallKinds, IdleOps, SeqFacts
      <4> QED BY <1>4, <3>2, <3>a, <4>2, <4>3
    <3> QED BY <3>1, <3>2
  <2>7. \A q \in Owners : CallsQuiet(q, todo[q])'
    BY <2>5, <2>6 DEF CallsQuiet
  <2> QED BY <2>3, <2>7 DEF QuietInv, CancelledRunIsQuiet
<1> QED BY <1>7, <1>8

LEMMA NextQuiet ==
  ASSUME IInv, FlowInv, GateInv, QuietInv, Next
  PROVE  QuietInv'
<1>1. CASE Calls
  BY <1>1, QuietReadRun, QuietReadCand, QuietCommit, QuietCancelNext, QuietExclude, QuietStart, QuietEnds
     DEF Calls
<1>2. ASSUME UNCHANGED << run, todo >>
      PROVE  QuietInv'
  BY <1>2, QuietAll
<1>3. CASE Recovery
  <2>1. UNCHANGED todo
    BY <1>3 DEF Recovery, RecoverAttempt, RecoverCandidate, RecoverDone
  <2> QED BY <1>2, <1>3, <2>1, RecoveryMoves, QuietApart
<1>4. CASE Service
  <2>1. UNCHANGED todo
    BY <1>4 DEF Service, ServiceAppend, UpdatePlan, DecidePlan, ApproveCommit, Cancel, Submit,
                RequestTimeout, RequestKilled
  <2> QED BY <1>2, <1>4, <2>1, ServiceMoves, QuietApart
<1>5. CASE Crash
  BY <1>5, QuietAll DEF Crash
<1>6. CASE Dispatch \/ DispatchRefused \/ \E r \in pending : FinaliseCancel(r) \/ CancelAlreadyFinal(r)
  BY <1>2, <1>6 DEF Dispatch, DispatchRefused, FinaliseCancel, CancelAlreadyFinal, BeginDispatch
<1> QED BY <1>1, <1>3, <1>4, <1>5, <1>6, QuietLoop, QuietCandidates, QuietBody DEF Next, Progress

\* A task either makes no call that cancels or is carrying out finish_cancelled with every
\* candidate that is not terminal still ahead of it, and once the run is cancelled the run
\* loop makes no call that starts a node or registers a candidate.
THEOREM QuietInvariant == Spec => []QuietInv
<1>1. Init => QuietInv
  <2> SUFFICES ASSUME Init PROVE QuietInv
    OBVIOUS
  <2>1. \A o \in Owners : todo[o] = << >>
    BY DEF Init
  <2>2. run.status # "Cancelled"
    BY DEF Init, Genesis
  <2> QED BY <2>1, <2>2, QuietEmpty DEF QuietInv, CancelledRunIsQuiet
<1>2. IInv /\ FlowInv /\ GateInv /\ QuietInv /\ [Next]_vars => QuietInv'
  <2>1. QuietInv /\ UNCHANGED vars => QuietInv'
    BY DEF QuietInv, CallsQuiet, CancelledRunIsQuiet, vars
  <2> QED BY <2>1, NextQuiet
<1> QED BY <1>1, <1>2, InductiveInvariant, FlowInvariant, GateInvariant, PTL DEF Spec

\* A cancelled run has no candidate that a later dispatch would resume, whichever task found
\* the signal and however the tasks, a crash and requests interleave (finish_cancelled
\* cancels the candidates before the run).
THEOREM CancelledIsQuiet == Spec => []CancelledRunIsQuiet
<1>1. QuietInv => CancelledRunIsQuiet
  BY DEF QuietInv
<1> QED BY <1>1, QuietInvariant, PTL
=============================================================================
