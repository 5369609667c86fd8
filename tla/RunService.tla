------------------------------ MODULE RunService ------------------------------
(***************************************************************************)
(* The operator's requests about a run: crates/application/src/usecases/   *)
(* service.rs, called by the command line and by the local API.            *)
(*                                                                         *)
(* Every request first reads the projection, without the run's lock, and   *)
(* decides from that reading which events to append; it appends them later *)
(* under the lock, which a dispatcher may be holding.  pending holds the   *)
(* requests that are between the two.  A request that cannot get the lock  *)
(* in time gives up.                                                       *)
(***************************************************************************)
EXTENDS EngineState

\* The reading succeeds only while the log can be replayed.
MayRequest(kind) ==
  /\ kind \in RequestKinds
  /\ used.requests < MaxRequests /\ MayHappen
  /\ ~poisoned

Submit(events, finalise) ==
  /\ pending' = pending \cup {[events |-> events, held |-> FALSE, finalise |-> finalise]}
  /\ used' = [used EXCEPT !.requests = @ + 1]
  /\ UNCHANGED << run, poisoned, lock, stopped, task, todo, outcome, git >>

\* ensure_plan_editable: no candidate has gone beyond Pending.
PlanEditable ==
  /\ run.status \notin RunTerminal
  /\ \A c \in Cands : run.cands[c].status \in {"Absent", "Pending"}

\* An approval of an earlier text is withdrawn by the same request.
UpdateEvents(version, hash) ==
  (IF /\ HasPlan(run)
      /\ run.approval.decision # None
      /\ CurrentPlan(run).hash # hash
   THEN << PlanApprovalInvalidated >> ELSE << >>)
    \o << PlanVersionWritten(version, hash) >>

\* update_plan: the document is on disk before the event is appended.
UpdatePlan(hash) ==
  LET version == NextVersionNumber(run)
  IN  /\ MayRequest("Update")
      /\ PlanEditable
      /\ store' = [store EXCEPT !.files = WriteVersion(@, version, hash)]
      /\ Submit(UpdateEvents(version, hash), FALSE)
      /\ UNCHANGED cancelled

\* approve_plan, revise_plan and reject_plan.
DecidePlan(kind, decision) ==
  /\ MayRequest(kind)
  /\ PlanEditable
  /\ HasPlan(run)
  /\ Submit(<< PlanDecisionRecorded(decision, CurrentPlan(run).version,
                                    CurrentPlan(run).hash) >>, FALSE)
  /\ UNCHANGED << cancelled, store >>

ApproveCommit ==
  /\ MayRequest("ApproveCommit")
  /\ run.status = "AwaitingCommitApproval"
  /\ Submit(<< CommitApprovalRecorded >>, FALSE)
  /\ UNCHANGED << cancelled, store >>

Dispatching == lock \in {"recovering", "dispatch"}

\* The process still keeps the sender of a dispatch that has returned: dispatch
\* removes it from the map only after the lock is gone.
SenderKept == outcome \notin {None, "Crashed"}

\* cancel: a dispatch of the same process is signalled at once; otherwise the
\* request dispatches the run itself once the event is appended.
Cancel(signalled) ==
  /\ MayRequest("Cancel")
  /\ run.status \notin RunTerminal
  /\ signalled => Dispatching \/ SenderKept
  /\ cancelled' = (cancelled \/ (signalled /\ Dispatching))
  /\ Submit(<< CancellationRequested >>, ~signalled)
  /\ UNCHANGED store

(***************************************************************************)
(* The locked part: append_locked, one event at a time.                    *)
(***************************************************************************)
Served(r) ==
  IF Len(r.events) > 1 THEN {[r EXCEPT !.events = Tail(@), !.held = TRUE]}
  ELSE IF r.finalise THEN {[r EXCEPT !.events = << >>, !.held = FALSE]}
  ELSE {}

ServiceAppend(r) ==
  /\ r.events # << >>
  /\ lock = "free" \/ r.held
  /\ CommitEvent(Head(r.events))
  /\ pending' = (pending \ {r}) \cup (IF poisoned' THEN {} ELSE Served(r))
  /\ lock' = IF ~poisoned' /\ Len(r.events) > 1 THEN "service" ELSE "free"
  /\ UNCHANGED << stopped, task, todo, cancelled, outcome, store, git, used >>

\* LockService::acquire gives up after its last attempt.
RequestTimeout(r) ==
  /\ lock # "free"
  /\ ~r.held
  /\ pending' = pending \ {r}
  /\ UNCHANGED << run, poisoned, lock, stopped, task, todo, cancelled, outcome,
                  store, git, used >>

\* The process of the request is killed; its lock is released with it.
RequestKilled(r) ==
  /\ used.crashes < MaxCrashes /\ MayHappen
  /\ used' = [used EXCEPT !.crashes = @ + 1]
  /\ pending' = pending \ {r}
  /\ lock' = IF r.held THEN "free" ELSE lock
  /\ UNCHANGED << run, poisoned, stopped, task, todo, cancelled, outcome, store, git >>

Service ==
  \/ \E hash \in Hashes : UpdatePlan(hash)
  \/ DecidePlan("Approve", "Approved")
  \/ DecidePlan("Revise", "RevisionRequested")
  \/ DecidePlan("Reject", "Rejected")
  \/ ApproveCommit
  \/ \E signalled \in BOOLEAN : Cancel(signalled)
  \/ \E r \in pending : ServiceAppend(r) \/ RequestTimeout(r) \/ RequestKilled(r)
=============================================================================
