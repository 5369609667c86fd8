----------------------------- MODULE AgentSession -----------------------------
(***************************************************************************)
(* One invocation of an agent by a node: the turn loop of the local driver *)
(* (crates/infrastructure/src/agent/local.rs), the tools it offers         *)
(* (tools.rs), the external command line driver (external.rs) and the      *)
(* scripted one (fake.rs), on the file tree they work on and the supervised*)
(* commands they start.  The node runs under its class timeout             *)
(* (application/src/engine/dispatcher.rs, execute_node), which drops the   *)
(* whole invocation where it waits.                                        *)
(*                                                                         *)
(* What the language model answers, what a command does and what git finds *)
(* are chosen freely.                                                      *)
(***************************************************************************)
EXTENDS ProcessSupervisor, PathPolicy, FiniteSets

CONSTANTS
  Roles,         \* roles an agent is invoked in
  InitialTree,   \* the files before the invocation, inside the worktree and outside
  RawPaths,      \* paths a tool is called with
  Patches,       \* patches the model submits
  WorkFiles,     \* files a command or an external agent may write
  Commands,      \* identifiers of the configured commands
  Subdirectory,  \* their working_subdirectory
  CallsPerTurn,  \* bound: tool calls in one answer of the model
  TurnBudget,    \* max_agent_turns
  ToolBudget     \* maximum_tool_calls

ASSUME SessionAssumption ==
  /\ TurnBudget \in Nat \ {0} /\ ToolBudget \in Nat
  /\ Roles \subseteq {"planner", "reviewer", "implementer", "repairer"}
  /\ CallsPerTurn \in Nat /\ Root \in DOMAIN InitialTree

VARIABLES
  session,   \* the invocation
  job,       \* what the running command is for
  tree       \* the file tree

vars == << signal, proc, session, job, tree >>

IsReadOnly(role) == role \in {"planner", "reviewer"}
EditTools == {"write_file", "delete_file", "apply_patch"}

\* ToolPolicy::read_only and ToolPolicy::editing.
Allows(role, tool) == tool \notin EditTools \/ ~IsReadOnly(role)
AllowedCommands(role) == IF IsReadOnly(role) THEN {} ELSE Commands

NoSession == [pc |-> "idle", driver |-> "local", role |-> "planner", turn |-> 0, ordinal |-> 0,
              calls |-> 0, late |-> FALSE, blind |-> FALSE, reason |-> "none", result |-> "none"]
NoJob == [tool |-> "none", patch |-> {}, affected |-> {}, applied |-> FALSE]

Init == SupervisorInit /\ session = NoSession /\ job = NoJob /\ tree = InitialTree

\* observe_changed_paths and difference: the files of the worktree whose content is not
\* what it was.  Links are not files.
FilesOf(t) == {p \in DOMAIN t : IsInside(p) /\ t[p].kind = "file"}
ChangedPaths ==
  {p \in FilesOf(tree) \cup FilesOf(InitialTree) :
     ~(p \in FilesOf(tree) /\ p \in FilesOf(InitialTree) /\ tree[p] = InitialTree[p])}

\* The invocation returns an outcome, or the error that a `?` passes on.
Returned(s, reason) == [s EXCEPT !.pc = "over", !.reason = reason, !.result = "ok"]
Failed(s) == [s EXCEPT !.pc = "over", !.result = "error"]

Plain(rel) == [lead |-> "relative", control |-> FALSE, segments |-> rel]

(***************************************************************************)
(* File operations.                                                        *)
(***************************************************************************)
\* The worktree is a directory, and paths are sequences of segments, also when they come
\* from a tool call or from git, which names a path without empty segments or dots.
ASSUME TreeAssumption ==
  /\ IsTree(InitialTree) /\ InitialTree[Root] = Dir
  /\ WorkFiles \subseteq Seq(STRING) \ {NoPath}
  /\ Protected \cup Sensitive \subseteq Seq(STRING)
  /\ \A raw \in RawPaths : Parse(raw) \in Seq(STRING)
  /\ \A patch \in Patches : \A c \in patch.changes : \A rel \in {c.from, c.to} :
       rel \in Seq(STRING) /\ Parse(Plain(rel)) \in {NoPath, rel}

\* The system follows the links on the way to a file.
Place(t, path) == Append(Canonical(t, Front(path)), Last(path))

\* ensure_directory and write_atomic: missing parents are made, and the new file takes the
\* place of a file or of a link, not of what the link names.
Writable(t, path) ==
  /\ \A d \in Parents(path) \cap DOMAIN t : Exists(t, d) /\ t[Canonical(t, d)] = Dir
  /\ Place(t, path) \in DOMAIN t => t[Place(t, path)] # Dir
Written(t, path) ==
  LET at == Place(t, path)
  IN  [p \in DOMAIN t \cup Parents(at) \cup {at} |->
         IF p = at THEN File("agent") ELSE IF p \in DOMAIN t THEN t[p] ELSE Dir]
Removed(t, path) == [p \in DOMAIN t \ {path} |-> t[p]]

(***************************************************************************)
(* The tools.  Each gives the tree it leaves and whether it failed: a call *)
(* that is refused changes nothing and goes back to the model as an answer.*)
(***************************************************************************)
Refused(t) == [tree |-> t, error |-> FALSE]

WriteFile(t, raw) ==
  LET at == Confine(t, raw, "write")
  IN  IF at = NoPath THEN Refused(t)
      ELSE IF Writable(t, at) THEN [tree |-> Written(t, at), error |-> FALSE]
      ELSE [tree |-> t, error |-> TRUE]

DeleteFile(t, raw) ==
  LET at == Confine(t, raw, "delete")
  IN  IF at = NoPath \/ at \notin DOMAIN t \/ t[at].kind # "file" THEN Refused(t)
      ELSE [tree |-> Removed(t, at), error |-> FALSE]

EditCall(t, tool, raw) ==
  IF ~Allows(session.role, tool) THEN Refused(t)
  ELSE IF tool = "write_file" THEN WriteFile(t, raw) ELSE DeleteFile(t, raw)

\* A patch is a set of changes from a path to a path; NoPath where a file is made or
\* removed.  git apply --numstat names the new path, with --reverse the old one.
ForwardPaths(patch) == {IF c.to = NoPath THEN c.from ELSE c.to : c \in patch}
\* Mutant: the old path of a rename is not looked at.
EnumeratesForwardOnly(patch) == ForwardPaths(patch)
ReversePaths(patch) == {IF c.from = NoPath THEN c.to ELSE c.from : c \in patch}
\* git apply: every old file is there, no new one is, no path runs through a link and no new
\* file is a directory of another.
GitAccepts(t, patch) ==
  \A c \in patch :
    /\ \A d \in patch : d.to # NoPath => Root \o d.to \notin Parents(Root \o c.to)
    /\ c.from # NoPath => Root \o c.from \in FilesOf(t)
    /\ c.to # NoPath => /\ \A d \in Parents(Root \o c.to) \cap DOMAIN t : t[d] = Dir
                        /\ c.to # c.from => Root \o c.to \notin DOMAIN t
\* Mutant: the directories of a new file are not made.
ForgetsParents(t, patch) ==
  LET gone == {Root \o c.from : c \in {x \in patch : x.from # NoPath}}
      made == {Root \o c.to : c \in {x \in patch : x.to # NoPath}}
  IN  [p \in (DOMAIN t \ gone) \cup made |-> IF p \in made THEN File("agent") ELSE t[p]]
GitApplied(t, patch) ==
  LET gone == {Root \o c.from : c \in {x \in patch : x.from # NoPath}}
      made == {Root \o c.to : c \in {x \in patch : x.to # NoPath}}
      new  == made \cup UNION {Parents(p) : p \in made}
  IN  [p \in (DOMAIN t \ gone) \cup new |->
         IF p \in made THEN File("agent") ELSE IF p \in DOMAIN t THEN t[p] ELSE Dir]

(***************************************************************************)
(* The local driver: invoke.                                               *)
(***************************************************************************)
\* The head of the loop checks cancellation and the deadline, then asks the model.
TurnStart(s) ==
  IF s.turn >= TurnBudget THEN Returned(s, "turn_budget_exhausted")
  ELSE IF signal.value THEN Returned(s, "cancelled")
  ELSE IF s.late THEN Returned(s, "time_budget_exhausted")
  ELSE [s EXCEPT !.pc = "asking", !.turn = @ + 1]

BeginTurn ==
  /\ session.pc = "turn"
  /\ session' = TurnStart(session)
  /\ UNCHANGED << signal, proc, job, tree >>

\* The answer: an error or no message at all, or a number of tool calls.
Answer(calls, broken) ==
  /\ session.pc = "asking"
  /\ session' = IF broken THEN Returned(session, "driver_failure")
                ELSE [session EXCEPT !.pc = IF calls = 0 THEN "turn" ELSE "calling",
                                     !.calls = calls]
  /\ UNCHANGED << signal, proc, job, tree >>

\* After a call: the completion tool ends the invocation, then the tool budget does.
\* Mutant: the budget is compared with > where it should be >=.
CountsOneCallMore(s, completed) ==
  LET n == [s EXCEPT !.ordinal = @ + 1, !.calls = @ - 1]
  IN  IF completed THEN Returned(n, "completed")
      ELSE IF n.ordinal > ToolBudget THEN Returned(n, "turn_budget_exhausted")
      ELSE [n EXCEPT !.pc = IF n.calls = 0 THEN "turn" ELSE "calling"]
NextCall(s, completed) ==
  LET n == [s EXCEPT !.ordinal = @ + 1, !.calls = @ - 1]
  IN  IF completed THEN Returned(n, "completed")
      ELSE IF n.ordinal >= ToolBudget THEN Returned(n, "turn_budget_exhausted")
      ELSE [n EXCEPT !.pc = IF n.calls = 0 THEN "turn" ELSE "calling"]

CallEdit(tool, raw) ==
  /\ session.pc = "calling"
  /\ LET done == EditCall(tree, tool, raw)
     IN  /\ tree' = done.tree
         /\ session' = IF done.error THEN Failed(session) ELSE NextCall(session, FALSE)
  /\ UNCHANGED << signal, proc, job >>

\* list_entries, read_file and search_text change nothing, whatever they answer; so does a
\* tool that does not exist.
CallLook ==
  /\ session.pc = "calling"
  /\ session' = NextCall(session, FALSE)
  /\ UNCHANGED << signal, proc, job, tree >>

CallComplete ==
  /\ session.pc = "calling"
  /\ session' = NextCall(session, TRUE)
  /\ UNCHANGED << signal, proc, job, tree >>

\* A tool that runs a command.  A program that cannot be started ends the invocation.
StartJob(tool, patch, affected, starts) ==
  /\ job' = [tool |-> tool, patch |-> patch, affected |-> affected, applied |-> FALSE]
  /\ proc' = IF starts THEN Spawned(proc) ELSE proc
  /\ session' = IF starts THEN [session EXCEPT !.pc = "waiting"] ELSE Failed(session)
  /\ UNCHANGED << signal, tree >>

CallInspect(starts) ==
  /\ session.pc = "calling"
  /\ StartJob("inspect", {}, {}, starts)

\* run_named_command, in a directory inside the worktree that is there.
CallCommand(id, starts) ==
  /\ session.pc = "calling"
  /\ IF id \in AllowedCommands(session.role)
     THEN StartJob("command", {}, {}, starts /\ WorkingDirectory(tree, Subdirectory) # NoPath)
     ELSE /\ session' = NextCall(session, FALSE)
          /\ UNCHANGED << signal, proc, job, tree >>

\* apply_patch starts with the forward enumeration; a patch that declares a link does not
\* get that far.
CallPatch(patch) ==
  /\ session.pc = "calling"
  /\ IF Allows(session.role, "apply_patch") /\ ~patch.links
     THEN StartJob("forward", patch.changes, {}, TRUE)
     ELSE /\ session' = NextCall(session, FALSE)
          /\ UNCHANGED << signal, proc, job, tree >>

Idle == proc' = [proc EXCEPT !.pc = "none"] /\ job' = NoJob

\* The command has ended.  A failed forward enumeration refuses the patch, a failed reverse
\* one counts as empty; every path named is confined before git changes a file.
JobEnds ==
  /\ session.pc = "waiting" /\ session.driver = "local" /\ proc.pc = "ended"
  /\ LET ok       == Succeeded(proc.exit)
         affected == job.affected \cup (IF ok THEN ReversePaths(job.patch) ELSE {})
         confined == \A rel \in affected : Confine(tree, Plain(rel), "write") # NoPath
     IN  CASE job.tool = "forward" /\ ok ->
                StartJob("reverse", job.patch, ForwardPaths(job.patch), TRUE)
           [] job.tool = "reverse" /\ affected # {} /\ confined ->
                /\ job' = [job EXCEPT !.tool = "apply", !.affected = affected]
                /\ proc' = Spawned(proc)
                /\ session' = [session EXCEPT !.blind = @ \/ ~ok]
                /\ UNCHANGED << signal, tree >>
           [] OTHER ->
                Idle /\ session' = NextCall(session, FALSE) /\ UNCHANGED << signal, tree >>

DeadlinePasses ==
  /\ session.driver = "local" /\ session.pc \in {"asking", "waiting"} /\ ~session.late
  /\ session' = [session EXCEPT !.late = TRUE]
  /\ UNCHANGED << signal, proc, job, tree >>

(***************************************************************************)
(* The external driver: one command, restricted by its own options.        *)
(***************************************************************************)
\* required_restriction_options
RequiredOptions(kind) ==
  CASE kind = "claude_code" -> {"--print", "--permission-mode", "--allowedTools"}
    [] kind = "codex_cli" -> {"--sandbox"}
    [] OTHER -> {}
ExternalKinds == {"claude_code", "codex_cli", "opencode"}

\* detect_restrictions: the installed version lists every option that is needed.
Honours(kind, offered) == RequiredOptions(kind) # {} /\ RequiredOptions(kind) \subseteq offered

InvokeExternal(role, kind, available, offered) ==
  /\ session.pc = "idle"
  /\ LET s == [NoSession EXCEPT !.role = role, !.driver = "external"]
     IN  IF ~available \/ (IsReadOnly(role) /\ ~Honours(kind, offered))
         THEN session' = Failed(s) /\ UNCHANGED << proc, job >>
         ELSE /\ session' = [s EXCEPT !.pc = "waiting"]
              /\ proc' = Spawned(proc)
              /\ job' = [NoJob EXCEPT !.tool = "agent"]
  /\ UNCHANGED << signal, tree >>

\* A read-only role that changed a file is an error; a success without a structured
\* answer is a failure.
ExternalReason(exit, response) ==
  CASE exit.why = "cancel" -> "cancelled"
    [] exit.why = "timeout" -> "time_budget_exhausted"
    [] Succeeded(exit) /\ response -> "completed"
    [] OTHER -> "driver_failure"
\* Mutant: the worktree is not compared after a read-only role.
TrustsRestriction(s, exit, response) == Returned(s, ExternalReason(exit, response))
ExternalEnd(s, exit, response) ==
  IF IsReadOnly(s.role) /\ ChangedPaths # {} THEN Failed(s)
  ELSE Returned(s, ExternalReason(exit, response))

ExternalEnds(response) ==
  /\ session.pc = "waiting" /\ session.driver = "external" /\ proc.pc = "ended"
  /\ session' = ExternalEnd(session, proc.exit, response)
  /\ Idle
  /\ UNCHANGED << signal, tree >>

(***************************************************************************)
(* The local and the scripted driver are invoked.                          *)
(***************************************************************************)
\* Without a model the local driver is an error.
InvokeLocal(role, model) ==
  /\ session.pc = "idle"
  /\ LET s == [NoSession EXCEPT !.role = role]
     IN  session' = IF model THEN [s EXCEPT !.pc = "turn"] ELSE Failed(s)
  /\ UNCHANGED << signal, proc, job, tree >>

\* The script writes one file and deletes another, unless the role is read-only, and then
\* says how it ended.  A path that is refused here is an error.
InvokeFake(role, marker, write, delete, reason) ==
  /\ session.pc = "idle"
  /\ LET s       == [NoSession EXCEPT !.role = role, !.driver = "fake"]
         written == WriteFile(tree, write)
         bad     == Confine(tree, write, "write") = NoPath \/ written.error
         after   == written.tree
         deleted == DeleteFile(after, delete)
     IN  IF ~marker THEN session' = Failed(s) /\ UNCHANGED tree
         ELSE IF IsReadOnly(role) THEN session' = Returned(s, reason) /\ UNCHANGED tree
         ELSE /\ tree' = IF bad THEN after ELSE deleted.tree
              /\ session' = IF bad \/ Confine(after, delete, "delete") = NoPath THEN Failed(s)
                            ELSE Returned(s, reason)
  /\ UNCHANGED << signal, proc, job >>

(***************************************************************************)
(* Around the invocation.                                                  *)
(***************************************************************************)
\* A running command, a descendant of it, or the external agent writes a file in a directory;
\* a detached descendant also when the command is long over.
CommandWrites(path) ==
  /\ \/ proc.detached
     \/ job.tool \in {"command", "agent"} /\ (proc.leader \/ proc.group \/ proc.left)
  /\ \A d \in Parents(path) : d \in DOMAIN tree /\ tree[d] = Dir
  /\ path \in DOMAIN tree => tree[path].kind = "file"
  /\ tree' = [p \in DOMAIN tree \cup {path} |-> IF p = path THEN File("command") ELSE tree[p]]
  /\ UNCHANGED << signal, proc, session, job >>

\* git apply writes the files of the patch; when it is killed, perhaps not all of them.
GitWrites(part) ==
  /\ job.tool = "apply" /\ ~job.applied /\ proc.leader
  /\ part \subseteq job.patch
  /\ GitAccepts(tree, job.patch)
  /\ tree' = GitApplied(tree, part)
  /\ job' = [job EXCEPT !.applied = TRUE]
  /\ UNCHANGED << signal, proc, session >>

\* The node's timeout drops the invocation, and with it the command it waits for.
\* Mutant: the timeout surrounds the requests to the model only.
TimesOutAnswersOnly ==
  /\ session.pc = "asking"
  /\ session' = [session EXCEPT !.pc = "over", !.result = "timeout"]
  /\ UNCHANGED << signal, proc, job, tree >>
NodeTimeout ==
  /\ session.pc \in {"asking", "waiting"}
  /\ session' = [session EXCEPT !.pc = "over", !.result = "timeout"]
  /\ proc' = IF session.pc = "waiting" THEN Dropped(proc) ELSE proc
  /\ UNCHANGED << signal, job, tree >>

Around == UNCHANGED << session, job, tree >>

Invoke ==
  \E role \in Roles :
    \/ \E model \in BOOLEAN : InvokeLocal(role, model)
    \/ \E kind \in ExternalKinds, available \in BOOLEAN :
         \E offered \in {{}, RequiredOptions(kind)} : InvokeExternal(role, kind, available, offered)
    \/ \E marker \in BOOLEAN, write, delete \in RawPaths,
          reason \in {"completed", "turn_budget_exhausted", "driver_failure", "cancelled"} :
         InvokeFake(role, marker, write, delete, reason)

Call ==
  \/ \E tool \in {"write_file", "delete_file"}, raw \in RawPaths : CallEdit(tool, raw)
  \/ CallLook \/ CallComplete \/ (\E starts \in BOOLEAN : CallInspect(starts))
  \/ \E id \in Commands \cup {"unknown"}, starts \in BOOLEAN : CallCommand(id, starts)
  \/ \E patch \in Patches : CallPatch(patch)

Next ==
  \/ Invoke \/ BeginTurn \/ Call \/ JobEnds \/ DeadlinePasses \/ NodeTimeout
  \/ \E calls \in 0..CallsPerTurn, broken \in BOOLEAN : Answer(calls, broken)
  \/ \E response \in BOOLEAN : ExternalEnds(response)
  \/ \E path \in WorkFiles : CommandWrites(path)
  \/ \E part \in SUBSET job.patch : GitWrites(part)
  \/ SuperviseStep /\ Around
  \/ CommandStep /\ Around
  \/ Detach /\ job.tool \in {"command", "agent"} /\ Around  \* git starts no such descendant
  \/ ChannelStep /\ Around

Spec == Init /\ [][Next]_vars
=============================================================================
