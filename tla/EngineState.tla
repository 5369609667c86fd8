----------------------------- MODULE EngineState -----------------------------
(***************************************************************************)
(* The state of the workflow engine of one run and the primitives its      *)
(* actions are built from.  The actions are in NodeBodies (what each       *)
(* node of crates/application/src/nodes does), RunService (the operator's  *)
(* requests, usecases/service.rs) and Engine (the dispatcher and recovery, *)
(* src/engine).                                                            *)
(*                                                                         *)
(* The durable event log is represented by the projection it folds to.     *)
(* Everything that commits an event does so under the run's lock or under  *)
(* the dispatcher's projection mutex, so the log, the stored projection    *)
(* and the dispatcher's copy agree until an event is appended that the     *)
(* reducer refuses: from then on no reader can replay the log (poisoned).  *)
(*                                                                         *)
(* The run loop and every candidate task are processes.  todo[o] holds the *)
(* calls the task of owner o has still to make, one element per step that  *)
(* other tasks, a crash or a request can interleave with.                  *)
(***************************************************************************)
EXTENDS Scheduler

CONSTANTS
  Parallelism,     \* permits of the candidate semaphore
  MaxAttempts,     \* retry.max_attempts
  Faults,          \* failure classes the environment may produce
  RequestKinds,    \* requests the operator may make
  MaxErrors,       \* bound on node failures no budget limits
  MaxWrites,       \* bound on worktree changes made by gates
  MaxCrashes,      \* bound on killed processes
  MaxIncidents,    \* bound on node failures, killed processes and requests together
  MaxRequests      \* bound on requests

ASSUME EngineAssumption ==
  /\ Parallelism \in Nat \ {0}
  /\ MaxAttempts \in Nat \ {0}
  /\ Faults \subseteq FailureClass
  /\ RequestKinds \subseteq
       {"Update", "Approve", "Revise", "Reject", "ApproveCommit", "Cancel"}
  /\ MaxErrors \in Nat /\ MaxWrites \in Nat
  /\ MaxCrashes \in Nat /\ MaxIncidents \in Nat /\ MaxRequests \in Nat

VARIABLES
  run,         \* the projection of the durable log
  poisoned,    \* an appended event was refused by the reducer
  lock,        \* who holds locks/dispatcher.lock, and in which phase
  stopped,     \* recovery: candidates whose open attempts were interrupted
  task,        \* the candidate tasks of run_candidate_subgraphs
  todo,        \* remaining calls of each task
  cancelled,   \* the watch channel of the running dispatch
  outcome,     \* what the last dispatch returned
  pending,     \* requests that have read the projection and not yet appended
  store,       \* evidence files: diffs, test evidence, reviews, plan documents
  git,         \* candidate worktrees, integration worktree, result branch
  used         \* how much of the bounds has been spent

vars == << run, poisoned, lock, stopped, task, todo, cancelled, outcome,
           pending, store, git, used >>

(***************************************************************************)
(* File and worktree contents.  An edit by an agent gives a worktree a     *)
(* content no worktree had before.  The commands of the quality gates run  *)
(* in the worktree and may write to it as well: wrote counts what they     *)
(* left in files that git does not ignore.                                 *)
(***************************************************************************)
Content == [cand : Owners, rev : Nat, wrote : Nat]
Baseline == [cand |-> NoCand, rev |-> 0, wrote |-> 0]

\* Content a is content b with nothing but what gates wrote since.
BuildsOn(a, b) == a.cand = b.cand /\ a.rev = b.rev /\ a.wrote >= b.wrote

\* Stored gate evidence: the content of the worktree when the gate ended and the
\* verdict.
Evidence == [of : Content, passed : BOOLEAN]
NoEvidence == [of |-> Baseline, passed |-> FALSE]

Store ==
  [ diff : [Cands -> Content],          \* candidates/<id>/diff.patch
    tests : [Owners -> Evidence],       \* reports/tests-latest.json
    review : [Owners -> Evidence],      \* reports/review-latest.json
    files : SUBSET PlanVersion ]        \* plan-vN.md, by the hash of its text

Git == [ work : [Cands -> Content], tree : Content, branch : Seq(Content) ]

Used == [errors : Nat, writes : Nat, crashes : Nat, requests : Nat]

\* write_version replaces the file of that version whoever wrote it.
WriteVersion(files, version, hash) ==
  {f \in files : f.version # version} \cup {[version |-> version, hash |-> hash]}

(***************************************************************************)
(* The calls a task makes.                                                 *)
(***************************************************************************)
SetRun(to) == [op |-> "SetRun", to |-> to]                   \* ensure_run_status
SetCand(c, to) == [op |-> "SetCand", cand |-> c, to |-> to]  \* set_candidate_status
Do(e) == [op |-> "Do", event |-> e]                          \* commit_event
CancelAll(left) == [op |-> "CancelAll", left |-> left]       \* finish_cancelled
ExcludeAll(left) == [op |-> "ExcludeAll", left |-> left]     \* one event per candidate
Start(node) == [op |-> "Start", node |-> node]               \* execute_node
Edit(node) == [op |-> "Edit", node |-> node]                 \* worktree changes of a body
Body(node, number) == [op |-> "Body", node |-> node, number |-> number]
Await == [op |-> "Await"]                                    \* join the candidate tasks
Return(result) == [op |-> "Return", result |-> result]       \* Ok
Fail == [op |-> "Fail"]                                      \* Err

Outcome == RunStatus \cup {None, "Blocked", "Error", "Crashed"}

Op ==    [op : {"SetRun"}, to : RunStatus]
    \cup [op : {"SetCand"}, cand : Cands, to : CandidateStatus]
    \cup [op : {"Do"}, event : Event]
    \cup [op : {"CancelAll", "ExcludeAll"}, left : SUBSET Cands]
    \cup [op : {"Start", "Edit"}, node : Nodes]
    \cup [op : {"Body"}, node : Nodes, number : Nat]
    \cup [op : {"Return"}, result : Outcome]
    \cup [op : {"Await", "Fail"}]

Request == [events : Seq(Event), held : BOOLEAN, finalise : BOOLEAN]

TypeOK ==
  /\ run \in Projection
  /\ poisoned \in BOOLEAN
  /\ lock \in {"free", "recovering", "dispatch", "service"}
  /\ stopped \in SUBSET Cands
  /\ task \in [Cands -> {"none", "queued", "running", "done", "failed"}]
  /\ todo \in [Owners -> Seq(Op)]
  /\ cancelled \in BOOLEAN
  /\ outcome \in Outcome
  /\ pending \in SUBSET Request
  /\ store \in Store
  /\ git \in Git
  /\ used \in Used

\* Another node may fail, another process be killed, another request be made.
MayHappen == used.errors + used.crashes + used.requests < MaxIncidents

Init ==
  /\ run = Genesis
  /\ poisoned = FALSE
  /\ lock = "free"
  /\ stopped = {}
  /\ task = [c \in Cands |-> "none"]
  /\ todo = [o \in Owners |-> << >>]
  /\ cancelled = FALSE
  /\ outcome = None
  /\ pending = {}
  /\ store = [ diff |-> [c \in Cands |-> Baseline],
               tests |-> [o \in Owners |-> NoEvidence],
               review |-> [o \in Owners |-> NoEvidence],
               files |-> {} ]
  /\ git = [work |-> [c \in Cands |-> Baseline], tree |-> Baseline, branch |-> << >>]
  /\ used = [errors |-> 0, writes |-> 0, crashes |-> 0, requests |-> 0]

(***************************************************************************)
(* Running tasks.                                                          *)
(***************************************************************************)
Runnable(o) == lock = "dispatch" /\ (o # RunOwner => task[o] = "running")

\* Owner o is about to make a call of this kind.
At(o, op) == Runnable(o) /\ todo[o] # << >> /\ Head(todo[o]).op = op

Call(o) == Head(todo[o])

\* The task goes on with these calls instead of its first one.
Continue(o, calls) == todo' = [todo EXCEPT ![o] = calls \o Tail(@)]

\* commit_event: the event is appended first and applied second, so an event the
\* reducer refuses stays in the log.  After that every append is out of sequence
\* for the projection held in memory and is refused as well.
CommitEvent(e) ==
  IF ~poisoned /\ Accepts(run, e)
  THEN run' = Reduce(run, e) /\ poisoned' = FALSE
  ELSE run' = run /\ poisoned' = TRUE

\* Commit and go on, or return the reducer's error.
CommitOrFail(o, e) ==
  /\ CommitEvent(e)
  /\ todo' = [todo EXCEPT ![o] = IF poisoned' THEN << Fail >> ELSE Tail(@)]

EndDispatch(result) ==
  /\ lock' = "free"
  /\ outcome' = result
  /\ stopped' = {}
  /\ task' = [c \in Cands |-> "none"]
  /\ todo' = [o \in Owners |-> << >>]
  /\ cancelled' = FALSE
=============================================================================
