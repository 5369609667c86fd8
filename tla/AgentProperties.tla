---------------------------- MODULE AgentProperties ----------------------------
(***************************************************************************)
(* What an invocation of an agent must guarantee to the node that started  *)
(* it.                                                                     *)
(***************************************************************************)
EXTENDS AgentSession

\* The invocation, its command and the file tree are well formed: a node's type
\* invariant for AgentInvocation, ProcessOutcome and the worktree.
AgentTypeOK ==
  /\ signal \in [value : BOOLEAN, sender : BOOLEAN]
  /\ proc.pc \in {"none", "running", "stopping", "unlimited", "draining", "ended", "dropped"}
  /\ proc.exit \in Exit
  /\ session.pc \in {"idle", "turn", "asking", "calling", "waiting", "over"}
  /\ session.pc # "idle" => session.role \in Roles
  /\ session.turn \in Nat /\ session.ordinal \in Nat
  /\ session.pc = "over" <=> session.result # "none"
  /\ \A p \in DOMAIN tree : Len(p) > 1 => SubSeq(p, 1, Len(p) - 1) \in DOMAIN tree

\* No tool of an agent makes, changes or removes a file outside the worktree, whatever
\* links the repository holds, also links that name nothing (confine, write_atomic).
OutsideUntouched ==
  /\ {p \in DOMAIN tree : ~IsInside(p)} = {p \in DOMAIN InitialTree : ~IsInside(p)}
  /\ \A p \in DOMAIN tree : ~IsInside(p) => tree[p] = InitialTree[p]

\* The file keeps its content, or no file takes the name of one that is not there.
Kept(rel) ==
  LET p == Root \o rel
  IN  IF p \in DOMAIN InitialTree THEN p \in DOMAIN tree /\ tree[p] = InitialTree[p]
      ELSE p \in DOMAIN tree => tree[p] = Dir
Guarded == (Protected \ Approved) \cup Sensitive

\* A link of the repository gives the path a second name.
Aliased(rel) == \E q \in Links(InitialTree) : IsPrefix(InitialTree[q].target, Root \o rel)

\* Protected and sensitive files are kept, also against patches that move a file away or into
\* place (confine, apply_patch).  Two cases are not covered: a file the repository itself
\* gives a second name by a link, and a patch whose reverse enumeration failed; AliasesAreJudged
\* and PatchesAreEnumerated show what happens there.
ProtectedKept == ~session.blind => \A rel \in Guarded : Aliased(rel) \/ Kept(rel)

\* When a read-only role gets an outcome, every file of the worktree is as it was, even when
\* the external agent ignores the restriction it was started with (invoke of the external
\* driver, ToolPolicy::read_only).  What a detached descendant writes later is not covered.
ReadOnlyKeepsWorktree ==
  [][ session.pc # "over" /\ session'.result = "ok" /\ IsReadOnly(session'.role) =>
        ChangedPaths' = {} ]_vars

\* When an invocation returns to its node, the processes it started are dead, whichever of
\* exit, time limit and cancellation won, at any stage of any tool: the command, every member
\* of its process group, and every descendant outside the group that still holds a pipe (run,
\* terminate_group).  A descendant that left the group and closed its output is not covered:
\* see NoDescendantSurvives.
NothingLeftRunning ==
  session.pc = "over" /\ session.result # "timeout" => ~proc.leader /\ ~proc.group /\ ~proc.left

\* The turn loop asks no more often than its turn budget, makes no more calls than its tool
\* budget, one being always made, and reports completion only after the completion tool
\* was called (invoke of the local driver).
BudgetsHold ==
  /\ session.turn <= TurnBudget
  /\ session.ordinal <= IF ToolBudget = 0 THEN 1 ELSE ToolBudget
  /\ session.driver = "local" /\ session.reason = "completed" => session.ordinal > 0

(***************************************************************************)
(* The runtime polls every ready task and the timer of the node fires.     *)
(* Nothing is assumed about commands or about the answers of the model.    *)
(***************************************************************************)
Fairness ==
  /\ WF_vars(BeginTurn)
  /\ WF_vars(Call)
  /\ WF_vars(NodeTimeout)

FairSpec == Spec /\ Fairness

\* An invocation that has started ends, whatever the command does and also when the sender
\* of the cancellation is lost and the command runs without its own limit (execute_node).
InvocationEnds == session.pc # "idle" ~> session.pc = "over"

(***************************************************************************)
(* Statements of the documents that the code does not live up to.          *)
(***************************************************************************)
\* README.md: "No descendant survives a timeout or cancellation".  When run returns for one
\* of these reasons, a descendant with a session of its own and no pipe goes on.
NoDescendantSurvives ==
  proc.pc = "ended" /\ proc.exit.why # "exit" => ~proc.group /\ ~proc.left /\ ~proc.detached

\* docs/architecture/agent-security.md: a path is evaluated against the sensitive and the
\* protected globs.  confine evaluates the path that is named, and follows its links later.
AliasesAreJudged == ~session.blind => \A rel \in Guarded : Kept(rel)

\* docs/architecture/agent-security.md: Git enumerates the paths a patch would touch "forwards
\* and in reverse", so renames are policy checked.  A reverse enumeration that fails names none.
PatchesAreEnumerated == \A rel \in Guarded : Aliased(rel) \/ Kept(rel)
=============================================================================
