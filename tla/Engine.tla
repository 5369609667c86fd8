-------------------------------- MODULE Engine --------------------------------
(***************************************************************************)
(* The dispatcher of one run and recovery at the start of every dispatch:  *)
(* crates/application/src/engine/dispatcher.rs and recovery.rs.  With the  *)
(* node bodies and the operator's requests this is the whole engine.       *)
(***************************************************************************)
EXTENDS NodeBodies, RunService

KeepsOutside == UNCHANGED << pending, store, git, used >>

(***************************************************************************)
(* Dispatching and recovery.                                               *)
(***************************************************************************)
\* dispatch: take the lock and begin recovery.  A log that cannot be replayed ends
\* the dispatch before it has changed anything.
BeginDispatch(signalled) ==
  /\ lock = "free"
  /\ ~poisoned
  /\ lock' = "recovering"
  /\ stopped' = {c \in Cands : OpenAttempts(run, c) # {}}
  /\ cancelled' = signalled
  /\ outcome' = None
  /\ UNCHANGED << run, poisoned, task, todo, store, git, used >>

Dispatch == BeginDispatch(FALSE) /\ UNCHANGED pending

DispatchRefused ==
  /\ lock = "free"
  /\ poisoned
  /\ outcome' = "Error"
  /\ UNCHANGED << run, poisoned, lock, stopped, task, todo, cancelled, pending,
                  store, git, used >>

\* The tail of RunService::cancel when no dispatch was signalled.
FinaliseCancel(r) ==
  /\ r.events = << >>
  /\ run.status \notin RunTerminal
  /\ BeginDispatch(TRUE)
  /\ pending' = pending \ {r}

CancelAlreadyFinal(r) ==
  /\ r.events = << >>
  /\ run.status \in RunTerminal \/ poisoned
  /\ pending' = pending \ {r}
  /\ UNCHANGED << run, poisoned, lock, stopped, task, todo, cancelled, outcome,
                  store, git, used >>

\* recover: every open attempt is closed as interrupted ...
RecoverAttempt(o, i) ==
  /\ lock = "recovering"
  /\ i \in OpenAttempts(run, o)
  /\ CommitEvent(NodeClosed(o, run.attempts[o][i].node, run.attempts[o][i].number,
                            "Interrupted", None, 0))
  /\ UNCHANGED << lock, stopped, task, todo, cancelled, outcome >>
  /\ KeepsOutside

Interruptible(status) ==
  /\ status \notin CandidateTerminal \cup {"Interrupted", "Absent"}
  /\ CandidateMayBecome(status, "Interrupted")

\* ... then the candidates these attempts belonged to, where that is legal ...
RecoverCandidate(c) ==
  /\ lock = "recovering"
  /\ \A o \in Owners : OpenAttempts(run, o) = {}
  /\ c \in stopped
  /\ stopped' = stopped \ {c}
  /\ IF Interruptible(run.cands[c].status)
     THEN CommitEvent(CandidateStatusChanged(c, run.cands[c].status, "Interrupted"))
     ELSE UNCHANGED << run, poisoned >>
  /\ UNCHANGED << lock, task, todo, cancelled, outcome >>
  /\ KeepsOutside

\* Mutant: recovery looks at the attempts of candidates only.
ForgetsRunAttempts ==
  /\ lock = "recovering"
  /\ \A c \in Cands : OpenAttempts(run, c) = {}
  /\ stopped = {}
  /\ lock' = "dispatch"
  /\ UNCHANGED << run, poisoned, stopped, task, todo, cancelled, outcome >>
  /\ KeepsOutside

\* ... and the run loop starts.
RecoverDone ==
  /\ lock = "recovering"
  /\ \A o \in Owners : OpenAttempts(run, o) = {}
  /\ stopped = {}
  /\ lock' = "dispatch"
  /\ UNCHANGED << run, poisoned, stopped, task, todo, cancelled, outcome >>
  /\ KeepsOutside

(***************************************************************************)
(* run_loop.                                                               *)
(***************************************************************************)
AtLoop == Runnable(RunOwner) /\ todo[RunOwner] = << >>

LoopReturns(kind, result) ==
  /\ AtLoop
  /\ NextRunStep(run).kind = kind
  /\ EndDispatch(result)
  /\ UNCHANGED << run, poisoned >>
  /\ KeepsOutside

LoopFinish == LoopReturns("Finish", NextRunStep(run).value)
LoopBlocked == LoopReturns("Blocked", "Blocked")

LoopCalls(kind, calls) ==
  /\ AtLoop
  /\ NextRunStep(run).kind = kind
  /\ todo' = [todo EXCEPT ![RunOwner] = calls]
  /\ UNCHANGED << run, poisoned, lock, stopped, cancelled, outcome >>
  /\ KeepsOutside

LoopAwaitPlan ==
  /\ LoopCalls("AwaitPlanApproval",
               << SetRun("AwaitingPlanApproval"), Return("AwaitingPlanApproval") >>)
  /\ UNCHANGED task

LoopAwaitCommit ==
  /\ LoopCalls("AwaitCommitApproval",
               << SetRun("AwaitingCommitApproval"), Return("AwaitingCommitApproval") >>)
  /\ UNCHANGED task

LoopCancel ==
  /\ LoopCalls("Cancel", << CancelAll(NonTerminal(run)), Return("Cancelled") >>)
  /\ UNCHANGED task

\* execute_run_node: the status first, if it may change, then the node.
LoopNode ==
  LET node == NextRunStep(run).value
      target == DesiredRunStatus(run.status, node)
  IN  /\ LoopCalls("RunNode", Only(target # None, SetRun(target)) \o << Start(node) >>)
      /\ UNCHANGED task

\* run_candidate_subgraphs: one task per active candidate.
LoopCandidates ==
  /\ LoopCalls("RunCandidates", << Await >>)
  /\ task' = [c \in Cands |-> IF c \in NonTerminal(run) THEN "queued" ELSE "none"]

AcquirePermit(c) ==
  /\ lock = "dispatch"
  /\ task[c] = "queued"
  /\ Cardinality({d \in Cands : task[d] = "running"}) < Parallelism
  /\ task' = [task EXCEPT ![c] = "running"]
  /\ UNCHANGED << run, poisoned, lock, stopped, todo, cancelled, outcome >>
  /\ KeepsOutside

\* execute_candidate_node: the status first, if the node has one, then the node.
CandidateCalls(c, node) ==
  Only(CandidateStatusForNode[node] # None, SetCand(c, CandidateStatusForNode[node]))
    \o << Start(node) >>

\* drive_candidate.
DriveCandidate(c) ==
  LET node == NextCandidateStep(run, c)
  IN  /\ Runnable(c)
      /\ todo[c] = << >>
      /\ IF node = None
         THEN task' = [task EXCEPT ![c] = "done"] /\ UNCHANGED todo
         ELSE todo' = [todo EXCEPT ![c] = CandidateCalls(c, node)] /\ UNCHANGED task
      /\ UNCHANGED << run, poisoned, lock, stopped, cancelled, outcome >>
      /\ KeepsOutside

AwaitTasks ==
  /\ At(RunOwner, "Await")
  /\ \A c \in Cands : task[c] \in {"none", "done", "failed"}
  /\ Continue(RunOwner, Only(\E c \in Cands : task[c] = "failed", Fail))
  /\ task' = [c \in Cands |-> "none"]
  /\ UNCHANGED << run, poisoned, lock, stopped, cancelled, outcome >>
  /\ KeepsOutside

(***************************************************************************)
(* The calls of a task.  Between the reading of a status and the commit of *)
(* the change, other tasks may run.                                        *)
(***************************************************************************)
KeepsTasks == UNCHANGED << lock, stopped, task, cancelled, outcome >>

\* ensure_run_status.
ReadRunStatus(o) ==
  LET to == Call(o).to
  IN  /\ At(o, "SetRun")
      /\ IF run.status = to THEN Continue(o, << >>)
         ELSE IF RunMayBecome(run.status, to)
         THEN Continue(o, << Do(StatusChanged(run.status, to)) >>)
         ELSE Continue(o, << Fail >>)
      /\ UNCHANGED << run, poisoned >>
      /\ KeepsTasks
      /\ KeepsOutside

\* set_candidate_status.
ReadCandidateStatus(o) ==
  LET c == Call(o).cand
      from == run.cands[c].status
      to == Call(o).to
  IN  /\ At(o, "SetCand")
      /\ IF from = to THEN Continue(o, << >>)
         ELSE IF from # "Absent" /\ CandidateMayBecome(from, to)
         THEN Continue(o, << Do(CandidateStatusChanged(c, from, to)) >>)
         ELSE Continue(o, << Fail >>)
      /\ UNCHANGED << run, poisoned >>
      /\ KeepsTasks
      /\ KeepsOutside

DoCommit(o) ==
  /\ At(o, "Do")
  /\ CommitOrFail(o, Call(o).event)
  /\ KeepsTasks
  /\ KeepsOutside

\* Mutant: the run is cancelled and its candidates are left as they are.
CancelsRunOnly(o) ==
  /\ At(o, "CancelAll")
  /\ Continue(o, << SetRun("Cancelled") >>)
  /\ UNCHANGED << run, poisoned >>
  /\ KeepsTasks
  /\ KeepsOutside

\* finish_cancelled: the candidates that were not terminal when it began, in
\* ordinal order, then the run.
CancelNext(o) ==
  LET left == Call(o).left
  IN  /\ At(o, "CancelAll")
      /\ IF left = {} THEN Continue(o, << SetRun("Cancelled") >>)
         ELSE \E c \in left :
                /\ \A d \in left : c <= d
                /\ Continue(o, << SetCand(c, "Cancelled"), CancelAll(left \ {c}) >>)
      /\ UNCHANGED << run, poisoned >>
      /\ KeepsTasks
      /\ KeepsOutside

\* The CandidateExcluded events of the join node, in ordinal order.
ExcludeNext(o) ==
  LET left == Call(o).left
  IN  /\ At(o, "ExcludeAll")
      /\ IF left = {} THEN Continue(o, << >>)
         ELSE \E c \in left :
                /\ \A d \in left : c <= d
                /\ Continue(o, << Do(CandidateExcluded(c)), ExcludeAll(left \ {c}) >>)
      /\ UNCHANGED << run, poisoned >>
      /\ KeepsTasks
      /\ KeepsOutside

Edits(node) == node \in {"Implement", "Repair", "Integrate"}

\* execute_node up to the body: the signal is looked at once, and the attempt is recorded
\* afterwards.
StartNode(o) ==
  LET node == Call(o).node
      number == NextAttemptNumber(run, o, node)
  IN  /\ At(o, "Start")
      /\ Continue(o,
           IF cancelled THEN << CancelAll(NonTerminal(run)), Return("Blocked") >>
           ELSE << Do(NodeStarted(o, node, number)) >>
                  \o Only(Edits(node), Edit(node)) \o << Body(node, number) >>)
      /\ UNCHANGED << run, poisoned >>
      /\ KeepsTasks
      /\ KeepsOutside

\* The end of a task, or of the dispatch.
Ends(o, op, result, state) ==
  /\ At(o, op)
  /\ IF o = RunOwner THEN EndDispatch(result)
     ELSE /\ task' = [task EXCEPT ![o] = state]
          /\ todo' = [todo EXCEPT ![o] = << >>]
          /\ UNCHANGED << lock, stopped, cancelled, outcome >>
  /\ UNCHANGED << run, poisoned >>
  /\ KeepsOutside

ReturnFrom(o) == Ends(o, "Return", Call(o).result, "done")
FailFrom(o) == Ends(o, "Fail", "Error", "failed")

(***************************************************************************)
(* The dispatching process is killed.                                      *)
(***************************************************************************)
Crash ==
  /\ Dispatching
  /\ used.crashes < MaxCrashes /\ MayHappen
  /\ used' = [used EXCEPT !.crashes = @ + 1]
  /\ EndDispatch("Crashed")
  /\ UNCHANGED << run, poisoned, pending, store, git >>

(***************************************************************************)
(* The specification.                                                      *)
(***************************************************************************)
Recovery ==
  \/ \E o \in Owners : \E i \in OpenAttempts(run, o) : RecoverAttempt(o, i)
  \/ \E c \in Cands : RecoverCandidate(c)
  \/ RecoverDone

RunLoop ==
  \/ LoopFinish \/ LoopBlocked \/ LoopAwaitPlan \/ LoopAwaitCommit
  \/ LoopCancel \/ LoopNode \/ LoopCandidates \/ AwaitTasks

Calls ==
  \E o \in Owners :
    \/ ReadRunStatus(o) \/ ReadCandidateStatus(o) \/ DoCommit(o)
    \/ CancelNext(o) \/ ExcludeNext(o) \/ StartNode(o)
    \/ ReturnFrom(o) \/ FailFrom(o)

Candidates == \E c \in Cands : AcquirePermit(c) \/ DriveCandidate(c)

\* Everything a running dispatch does by itself.
Progress == Recovery \/ RunLoop \/ Calls \/ Candidates \/ NodeBody

Next ==
  \/ Progress
  \/ Dispatch
  \/ DispatchRefused
  \/ \E r \in pending : FinaliseCancel(r) \/ CancelAlreadyFinal(r)
  \/ Service
  \/ Crash

Spec == Init /\ [][Next]_vars
=============================================================================
