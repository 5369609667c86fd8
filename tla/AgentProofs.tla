------------------------------ MODULE AgentProofs ------------------------------
(***************************************************************************)
(* Theorems about one invocation of an agent, for every number of turns,   *)
(* calls and files.                                                        *)
(***************************************************************************)
EXTENDS AgentProperties, PathProofs, TLAPS

(***************************************************************************)
(* The inductive invariant.                                                *)
(***************************************************************************)
SessionPcs == {"idle", "turn", "asking", "calling", "waiting", "over"}
Reasons == {"none", "turn_budget_exhausted", "cancelled", "time_budget_exhausted",
            "driver_failure", "completed"}
JobTools == {"none", "inspect", "command", "forward", "reverse", "apply", "agent"}
ProcPcs == {"none", "running", "stopping", "unlimited", "draining", "ended", "dropped"}

SessionType ==
  [pc : SessionPcs, driver : {"local", "external", "fake"},
   role : {"planner", "reviewer", "implementer", "repairer"},
   turn : Nat, ordinal : Nat, calls : Nat, late : BOOLEAN, blind : BOOLEAN,
   reason : Reasons, result : {"none", "ok", "error", "timeout"}]
ProcType ==
  [pc : ProcPcs, leader : BOOLEAN, group : BOOLEAN, left : BOOLEAN, detached : BOOLEAN,
   exit : Exit]

\* What each phase of an invocation knows; it goes on only while its budgets are not used up.
Phased(s) ==
  /\ s \in SessionType
  /\ s.pc = "idle" => s = NoSession
  /\ s.pc # "idle" => s.role \in Roles
  /\ s.pc = "over" <=> s.result # "none"
  /\ s.pc # "over" => s.reason = "none"
  /\ s.pc \in {"turn", "asking", "calling"} => s.driver = "local"
  /\ s.pc = "waiting" => s.driver \in {"local", "external"}
  /\ s.pc = "calling" \/ (s.pc = "waiting" /\ s.driver = "local") => s.calls > 0
Budgeted(s) ==
  /\ s.turn <= TurnBudget
  /\ s.ordinal <= IF ToolBudget = 0 THEN 1 ELSE ToolBudget
  /\ s.pc # "over" => s.ordinal = 0 \/ s.ordinal < ToolBudget
  /\ s.driver = "local" /\ s.reason = "completed" => s.ordinal > 0
PhaseInv == Phased(session) /\ Budgeted(session)

\* A process is alive only while the invocation waits for it, or after the node dropped it.
ProcessInv ==
  /\ signal \in [value : BOOLEAN, sender : BOOLEAN]
  /\ proc \in ProcType
  /\ proc.leader => Supervised
  /\ proc.group => Supervised \/ proc.pc = "dropped"
  /\ proc.left => Supervised \/ proc.pc \in {"draining", "dropped"}
  /\ session.pc # "waiting" /\ session.result # "timeout" => proc.pc = "none"

\* What a running command is for follows from the driver and the role.
JobInv ==
  /\ job = [tool |-> job.tool, patch |-> job.patch, affected |-> job.affected,
            applied |-> job.applied]
  /\ job.tool \in JobTools
  /\ session.pc = "idle" => job.tool = "none"
  /\ session.driver = "local" =>
       job.tool # "agent" /\ (IsReadOnly(session.role) => job.tool \in {"none", "inspect"})
  /\ session.driver = "external" => job.tool \in {"none", "agent"}
  /\ session.driver = "fake" => job.tool = "none"

\* A detached descendant was started by a command that may write.
DetachedInv ==
  proc.detached => /\ session.pc # "idle" /\ session.driver # "fake"
                   /\ session.driver = "local" => ~IsReadOnly(session.role)

\* A read-only role leaves the tree alone, unless it is an external agent.
ReadOnlyInv ==
  IsReadOnly(session.role) =>
    tree = InitialTree \/ (session.driver = "external" /\ session.pc # "idle")

SessionInv == PhaseInv /\ ProcessInv /\ JobInv /\ DetachedInv /\ ReadOnlyInv

(***************************************************************************)
(* What the steps of the turn loop make of an invocation.                  *)
(***************************************************************************)
Same(s, n) == n.role = s.role /\ n.driver = s.driver

\* Returning from an invocation that has started keeps its phases and budgets.
LEMMA ReturnedPhased ==
  ASSUME NEW s, s \in SessionType, s.role \in Roles, s.turn <= TurnBudget,
         s.ordinal <= (IF ToolBudget = 0 THEN 1 ELSE ToolBudget),
         NEW r \in Reasons, r = "completed" /\ s.driver = "local" => s.ordinal > 0
  PROVE  /\ Phased(Returned(s, r)) /\ Budgeted(Returned(s, r)) /\ Same(s, Returned(s, r))
         /\ Returned(s, r).pc = "over" /\ Returned(s, r).result = "ok"
  BY DEF Phased, Budgeted, Same, Returned, SessionType, SessionPcs, Reasons

\* So does an error, which leaves no reason behind.
LEMMA FailedPhased ==
  ASSUME NEW s, s \in SessionType, s.role \in Roles, s.turn <= TurnBudget, s.reason = "none",
         s.ordinal <= (IF ToolBudget = 0 THEN 1 ELSE ToolBudget)
  PROVE  /\ Phased(Failed(s)) /\ Budgeted(Failed(s)) /\ Same(s, Failed(s))
         /\ Failed(s).pc = "over" /\ Failed(s).result = "error"
  BY DEF Phased, Budgeted, Same, Failed, SessionType, SessionPcs, Reasons

\* The head of the turn loop.
LEMMA TurnStartPhased ==
  ASSUME Phased(session), Budgeted(session), session.pc = "turn"
  PROVE  LET n == TurnStart(session)
         IN  /\ Phased(n) /\ Budgeted(n) /\ Same(session, n)
             /\ n.pc \in {"asking", "over"} /\ n.result \in {"none", "ok"}
<1> DEFINE n == [session EXCEPT !.pc = "asking", !.turn = session.turn + 1]
<1>1. session \in SessionType /\ session.role \in Roles
  BY DEF Phased
<1>2. ASSUME session.turn < TurnBudget
      PROVE  Phased(n) /\ Budgeted(n) /\ Same(session, n) /\ n.pc = "asking" /\ n.result = "none"
  <2>1. session.turn + 1 \in Nat /\ session.turn + 1 <= TurnBudget
    BY <1>1, <1>2, SessionAssumption DEF SessionType
  <2>2. n \in SessionType
    BY <1>1, <2>1 DEF SessionType, SessionPcs
  <2>3. /\ n.turn = session.turn + 1 /\ n.pc = "asking" /\ n.ordinal = session.ordinal
        /\ n.role = session.role /\ n.driver = session.driver /\ n.reason = session.reason
        /\ n.result = session.result
    BY <1>1 DEF SessionType
  <2> HIDE DEF n
  <2>4. session.driver = "local" /\ session.reason = "none" /\ session.result = "none"
    BY DEF Phased
  <2> QED BY <1>1, <2>1, <2>2, <2>3, <2>4 DEF Phased, Budgeted, Same
<1>3. \A r \in {"turn_budget_exhausted", "cancelled", "time_budget_exhausted"} :
        /\ Phased(Returned(session, r)) /\ Budgeted(Returned(session, r))
        /\ Same(session, Returned(session, r))
        /\ Returned(session, r).pc = "over" /\ Returned(session, r).result = "ok"
  BY <1>1, ReturnedPhased DEF Budgeted, Reasons
<1>4. session.turn >= TurnBudget \/ session.turn < TurnBudget
  BY <1>1, SessionAssumption DEF SessionType
<1> HIDE DEF n
<1>5. \/ \E r \in {"turn_budget_exhausted", "cancelled", "time_budget_exhausted"} :
           TurnStart(session) = Returned(session, r)
      \/ session.turn < TurnBudget /\ TurnStart(session) = n
  BY <1>4 DEF TurnStart, n
<1> QED BY <1>2, <1>3, <1>5

\* The end of a tool call.
LEMMA NextCallPhased ==
  ASSUME Phased(session), Budgeted(session), NEW completed \in BOOLEAN,
         session.pc = "calling" \/ (session.pc = "waiting" /\ session.driver = "local")
  PROVE  LET n == NextCall(session, completed)
         IN  /\ Phased(n) /\ Budgeted(n) /\ Same(session, n)
             /\ n.pc \in {"turn", "calling", "over"} /\ n.result \in {"none", "ok"}
<1> DEFINE n == [session EXCEPT !.ordinal = session.ordinal + 1, !.calls = session.calls - 1]
           on == [n EXCEPT !.pc = IF n.calls = 0 THEN "turn" ELSE "calling"]
<1>1. session \in SessionType /\ session.role \in Roles /\ session.reason = "none"
      /\ session.calls > 0 /\ session.driver = "local" /\ session.result = "none"
  BY DEF Phased, SessionType
<1>2. /\ n \in SessionType /\ n.role \in Roles /\ n.turn <= TurnBudget
      /\ n.ordinal \in Nat \ {0}
      /\ n.ordinal <= (IF ToolBudget = 0 THEN 1 ELSE ToolBudget) /\ n.reason = "none"
      /\ n.role = session.role /\ n.driver = session.driver /\ n.result = "none"
  <2>1. /\ session.ordinal + 1 \in Nat \ {0} /\ session.calls - 1 \in Nat
        /\ session.ordinal + 1 <= (IF ToolBudget = 0 THEN 1 ELSE ToolBudget)
    BY <1>1, SessionAssumption DEF Budgeted, SessionType
  <2>2. n \in SessionType
    BY <1>1, <2>1 DEF SessionType
  <2>3. /\ n.ordinal = session.ordinal + 1 /\ n.turn = session.turn
        /\ n.role = session.role /\ n.driver = session.driver /\ n.reason = session.reason
        /\ n.result = session.result
    BY <1>1 DEF SessionType
  <2> HIDE DEF n
  <2> QED BY <1>1, <2>1, <2>2, <2>3 DEF Budgeted
<1>3. \A r \in {"completed", "turn_budget_exhausted"} :
        /\ Phased(Returned(n, r)) /\ Budgeted(Returned(n, r))
        /\ Same(session, Returned(n, r))
        /\ Returned(n, r).pc = "over" /\ Returned(n, r).result = "ok"
  <2> HIDE DEF n
  <2> QED BY <1>2, ReturnedPhased DEF Reasons, Same
<1>4. ASSUME n.ordinal < ToolBudget
      PROVE  /\ Phased(on) /\ Budgeted(on) /\ Same(session, on)
             /\ on.pc \in {"turn", "calling"} /\ on.result = "none"
  <2>1. n.driver = "local"
    BY <1>1, <1>2
  <2> HIDE DEF n
  <2> QED BY <1>2, <1>4, <2>1 DEF Phased, Budgeted, Same, SessionType, SessionPcs
<1>5. n.ordinal >= ToolBudget \/ n.ordinal < ToolBudget
  <2> HIDE DEF n
  <2> QED BY <1>2, SessionAssumption
<1>6. NextCall(session, completed) =
        IF completed THEN Returned(n, "completed")
        ELSE IF n.ordinal >= ToolBudget THEN Returned(n, "turn_budget_exhausted") ELSE on
  BY DEF NextCall
<1> HIDE DEF n, on
<1>7. \/ \E r \in {"completed", "turn_budget_exhausted"} :
           NextCall(session, completed) = Returned(n, r)
      \/ n.ordinal < ToolBudget /\ NextCall(session, completed) = on
  BY <1>5, <1>6
<1> QED BY <1>3, <1>4, <1>7

(***************************************************************************)
(* Every step preserves the invariant.                                     *)
(***************************************************************************)
\* A detached descendant stays allowed while the invocation is the same.
LEMMA StaysDetached ==
  ASSUME DetachedInv, proc'.detached => proc.detached, Same(session, session'),
         session'.pc # "idle"
  PROVE  DetachedInv'
  BY DEF DetachedInv, Same

\* A step of the turn loop that touches nothing but the session.
LEMMA LoopSteps ==
  ASSUME SessionInv, UNCHANGED << signal, proc, job >>,
         IsReadOnly(session.role) => UNCHANGED tree,
         session.pc \in {"turn", "asking", "calling"},
         Phased(session'), Budgeted(session'), Same(session, session'),
         session'.pc \notin {"idle", "waiting"}, session'.result # "timeout"
  PROVE  SessionInv'
<1>1. session.driver = "local" /\ session.result = "none" /\ session.pc # "waiting"
  BY DEF SessionInv, PhaseInv, Phased
<1>2. PhaseInv'
  BY DEF PhaseInv
<1>3. ProcessInv'
  BY <1>1 DEF SessionInv, ProcessInv, Supervised
<1>4. JobInv'
  BY <1>1 DEF SessionInv, JobInv, Same
<1>5. ReadOnlyInv'
  BY <1>1 DEF SessionInv, ReadOnlyInv, Same
<1>6. DetachedInv'
  BY StaysDetached DEF SessionInv
<1> QED BY <1>2, <1>3, <1>4, <1>5, <1>6 DEF SessionInv

LEMMA BeginTurnKeeps ==
  ASSUME SessionInv, BeginTurn
  PROVE  SessionInv'
<1>1. Phased(session) /\ Budgeted(session) /\ session.pc = "turn" /\ session' = TurnStart(session)
      /\ UNCHANGED << signal, proc, job, tree >>
  BY DEF SessionInv, PhaseInv, BeginTurn
<1>2. /\ Phased(session') /\ Budgeted(session') /\ Same(session, session')
      /\ session'.pc \notin {"idle", "waiting"} /\ session'.result # "timeout"
  BY <1>1, TurnStartPhased
<1> QED BY <1>1, <1>2, LoopSteps

\* An edit tool, a look and the completion tool.
LEMMA NextCallKeeps ==
  ASSUME SessionInv, session.pc = "calling", UNCHANGED << signal, proc, job >>,
         IsReadOnly(session.role) => UNCHANGED tree,
         NEW completed \in BOOLEAN, session' = NextCall(session, completed)
  PROVE  SessionInv'
<1>1. Phased(session) /\ Budgeted(session)
  BY DEF SessionInv, PhaseInv
<1>2. /\ Phased(session') /\ Budgeted(session') /\ Same(session, session')
      /\ session'.pc \notin {"idle", "waiting"} /\ session'.result # "timeout"
  BY <1>1, NextCallPhased
<1> QED BY <1>2, LoopSteps

\* An error on the way.
LEMMA FailedKeeps ==
  ASSUME SessionInv, session.pc = "calling", UNCHANGED << signal, proc, job >>,
         IsReadOnly(session.role) => UNCHANGED tree, session' = Failed(session)
  PROVE  SessionInv'
<1>1. Phased(session) /\ Budgeted(session)
  BY DEF SessionInv, PhaseInv
<1>2. /\ session \in SessionType /\ session.role \in Roles /\ session.reason = "none"
      /\ session.turn <= TurnBudget
      /\ session.ordinal <= (IF ToolBudget = 0 THEN 1 ELSE ToolBudget)
  BY <1>1 DEF Phased, Budgeted
<1>3. /\ Phased(session') /\ Budgeted(session') /\ Same(session, session')
      /\ session'.pc \notin {"idle", "waiting"} /\ session'.result # "timeout"
  BY <1>2, FailedPhased
<1> QED BY <1>3, LoopSteps

LEMMA AnswerKeeps ==
  ASSUME SessionInv, NEW calls \in 0..CallsPerTurn, NEW broken \in BOOLEAN, Answer(calls, broken)
  PROVE  SessionInv'
<1> DEFINE n == [session EXCEPT !.pc = IF calls = 0 THEN "turn" ELSE "calling", !.calls = calls]
<1>1. Phased(session) /\ Budgeted(session) /\ session.pc = "asking"
      /\ UNCHANGED << signal, proc, job, tree >>
  BY DEF SessionInv, PhaseInv, Answer
<1>2. /\ session \in SessionType /\ session.role \in Roles /\ session.reason = "none"
      /\ session.turn <= TurnBudget /\ session.result = "none" /\ session.driver = "local"
      /\ session.ordinal <= (IF ToolBudget = 0 THEN 1 ELSE ToolBudget)
      /\ session.ordinal = 0 \/ session.ordinal < ToolBudget
  BY <1>1 DEF Phased, Budgeted
<1>3. calls \in Nat
  BY SessionAssumption
<1>4. Phased(n) /\ Budgeted(n) /\ Same(session, n) /\ n.pc \notin {"idle", "waiting"} /\ n.result # "timeout"
  <2>1. n \in SessionType
    BY <1>2, <1>3 DEF SessionType, SessionPcs
  <2>2. /\ n.pc = (IF calls = 0 THEN "turn" ELSE "calling") /\ n.calls = calls
        /\ n.ordinal = session.ordinal /\ n.turn = session.turn
        /\ n.role = session.role /\ n.driver = session.driver /\ n.reason = session.reason
        /\ n.result = session.result
    BY <1>2 DEF SessionType
  <2> HIDE DEF n
  <2> QED BY <1>2, <1>3, <2>1, <2>2 DEF Phased, Budgeted, Same
<1>5. LET r == Returned(session, "driver_failure")
      IN  Phased(r) /\ Budgeted(r) /\ Same(session, r) /\ r.pc = "over" /\ r.result = "ok"
  BY <1>2, ReturnedPhased DEF Reasons
<1>6. session' = n \/ session' = Returned(session, "driver_failure")
  BY DEF Answer
<1> HIDE DEF n
<1>7. /\ Phased(session') /\ Budgeted(session') /\ Same(session, session')
      /\ session'.pc \notin {"idle", "waiting"} /\ session'.result # "timeout"
  BY <1>4, <1>5, <1>6
<1> QED BY <1>1, <1>7, LoopSteps

LEMMA CallEditKeeps ==
  ASSUME SessionInv, NEW tool \in {"write_file", "delete_file"}, NEW raw, CallEdit(tool, raw)
  PROVE  SessionInv'
<1>1. IsReadOnly(session.role) => EditCall(tree, tool, raw).tree = tree
  BY DEF EditCall, Allows, EditTools, Refused
<1>2. session.pc = "calling" /\ UNCHANGED << signal, proc, job >>
      /\ tree' = EditCall(tree, tool, raw).tree
      /\ (session' = Failed(session) \/ session' = NextCall(session, FALSE))
  BY DEF CallEdit
<1> QED BY <1>1, <1>2, FailedKeeps, NextCallKeeps

\* A command that was started is alive and nothing else is.
LEMMA SpawnedProc ==
  ASSUME NEW p \in ProcType, p.group = FALSE, p.left = FALSE
  PROVE  /\ Spawned(p) \in ProcType /\ Spawned(p).pc = "running" /\ Spawned(p).leader = TRUE
         /\ Spawned(p).group = FALSE /\ Spawned(p).left = FALSE
         /\ Spawned(p).detached = p.detached
  BY DEF Spawned, ProcType, ProcPcs, NoProcess, Exit

\* The invocation that waits for a command, and the one that drops it.
LEMMA WaitingPhased ==
  ASSUME NEW s, Phased(s), Budgeted(s), s.pc \in {"calling", "waiting"}, s.driver = "local"
  PROVE  LET n == [s EXCEPT !.pc = "waiting"]
         IN  Phased(n) /\ Budgeted(n) /\ Same(s, n) /\ n.pc = "waiting" /\ n.result = "none"
<1> DEFINE n == [s EXCEPT !.pc = "waiting"]
<1>1. /\ s \in SessionType /\ s.calls > 0 /\ s.role \in Roles /\ s.reason = "none"
      /\ s.result = "none"
  BY DEF Phased
<1>2. n \in SessionType
  BY <1>1 DEF SessionType, SessionPcs
<1>3. /\ n.pc = "waiting" /\ n.calls = s.calls /\ n.ordinal = s.ordinal /\ n.turn = s.turn
      /\ n.role = s.role /\ n.driver = s.driver /\ n.reason = s.reason /\ n.result = s.result
  BY <1>1 DEF SessionType
<1> HIDE DEF n
<1>4. Phased(n) /\ Budgeted(n) /\ Same(s, n)
  BY <1>1, <1>2, <1>3 DEF Phased, Budgeted, Same
<1> QED BY <1>1, <1>3, <1>4 DEF n

\* Starting a command for the local driver, out of a call or out of the command before.
LEMMA StartJobKeeps ==
  ASSUME SessionInv, session.driver = "local",
         session.pc = "calling" \/ (session.pc = "waiting" /\ proc.pc = "ended"),
         NEW tool \in JobTools \ {"agent"},
         IsReadOnly(session.role) => tool \in {"none", "inspect"},
         NEW patch, NEW affected, NEW starts \in BOOLEAN,
         session.pc = "waiting" => starts,
         StartJob(tool, patch, affected, starts)
  PROVE  SessionInv'
<1>1. Phased(session) /\ Budgeted(session)
  BY DEF SessionInv, PhaseInv
<1>2. /\ session \in SessionType /\ session.role \in Roles /\ session.reason = "none"
      /\ session.turn <= TurnBudget /\ session.result = "none"
      /\ session.ordinal <= (IF ToolBudget = 0 THEN 1 ELSE ToolBudget)
  BY <1>1 DEF Phased, Budgeted
<1>3. /\ proc \in ProcType /\ proc.group = FALSE /\ proc.left = FALSE /\ proc.leader = FALSE
      /\ proc.pc \in {"none", "ended"}
      /\ session.pc = "calling" => proc.pc = "none"
  BY <1>2 DEF SessionInv, ProcessInv, Supervised, ProcType
<1>4. JobInv'
  <2>1. job' = [tool |-> tool, patch |-> patch, affected |-> affected, applied |-> FALSE]
    BY DEF StartJob
  <2>2. job' = [tool |-> job'.tool, patch |-> job'.patch, affected |-> job'.affected,
                applied |-> job'.applied] /\ job'.tool = tool
    BY <2>1
  <2>3. Same(session, session') /\ session'.pc # "idle"
    BY <1>1, <1>2, FailedPhased, WaitingPhased DEF StartJob
  <2> QED BY <2>2, <2>3 DEF JobInv, Same, JobTools
<1>5. ReadOnlyInv'
  <2>1. Same(session, session') /\ tree' = tree
    BY <1>1, <1>2, FailedPhased, WaitingPhased DEF StartJob
  <2> QED BY <2>1 DEF SessionInv, ReadOnlyInv, Same
<1>8. Same(session, session') /\ session'.pc # "idle"
  BY <1>1, <1>2, FailedPhased, WaitingPhased DEF StartJob
<1>9. DetachedInv'
  <2>1. proc'.detached => proc.detached
    BY <1>3, SpawnedProc DEF StartJob
  <2> QED BY <1>8, <2>1, StaysDetached DEF SessionInv
<1>6. CASE starts
  <2>1. proc' = Spawned(proc) /\ session' = [session EXCEPT !.pc = "waiting"] /\ signal' = signal
    BY <1>6 DEF StartJob
  <2>2. PhaseInv' /\ session'.pc = "waiting"
    BY <1>1, <2>1, WaitingPhased DEF PhaseInv
  <2>3. ProcessInv'
    BY <1>3, <2>1, <2>2, SpawnedProc DEF SessionInv, ProcessInv, Supervised
  <2> QED BY <1>4, <1>5, <1>9, <2>2, <2>3 DEF SessionInv
<1>7. CASE ~starts
  <2>1. proc' = proc /\ session' = Failed(session) /\ signal' = signal
    BY <1>7 DEF StartJob
  <2>2. PhaseInv' /\ session'.pc = "over" /\ session'.result = "error"
    BY <1>2, <2>1, FailedPhased DEF PhaseInv
  <2>3. ProcessInv'
    BY <1>3, <1>7, <2>1, <2>2 DEF SessionInv, ProcessInv, Supervised
  <2> QED BY <1>4, <1>5, <1>9, <2>2, <2>3 DEF SessionInv
<1> QED BY <1>6, <1>7

LEMMA CallJobKeeps ==
  ASSUME SessionInv,
         \/ \E starts \in BOOLEAN : CallInspect(starts)
         \/ \E id \in Commands \cup {"unknown"}, starts \in BOOLEAN : CallCommand(id, starts)
         \/ \E patch \in Patches : CallPatch(patch)
  PROVE  SessionInv'
<1>1. session.pc = "calling" /\ session.driver = "local"
  BY DEF SessionInv, PhaseInv, Phased, CallInspect, CallCommand, CallPatch
<1>2. ASSUME NEW starts \in BOOLEAN, CallInspect(starts)
      PROVE  SessionInv'
  BY <1>1, <1>2, StartJobKeeps DEF CallInspect, JobTools
<1>3. ASSUME NEW id \in Commands \cup {"unknown"}, NEW starts \in BOOLEAN, CallCommand(id, starts)
      PROVE  SessionInv'
  <2> DEFINE go == starts /\ WorkingDirectory(tree, Subdirectory) # NoPath
  <2>1. go \in BOOLEAN
    OBVIOUS
  <2>2. CASE id \in AllowedCommands(session.role)
    <3>1. StartJob("command", {}, {}, go)
      BY <1>3, <2>2 DEF CallCommand
    <3>2. ~IsReadOnly(session.role)
      BY <2>2 DEF AllowedCommands
    <3> HIDE DEF go
    <3> QED BY <1>1, <2>1, <3>1, <3>2, StartJobKeeps DEF JobTools
  <2>3. CASE id \notin AllowedCommands(session.role)
    BY <1>1, <1>3, <2>3, NextCallKeeps DEF CallCommand
  <2> QED BY <2>2, <2>3
<1>4. ASSUME NEW patch \in Patches, CallPatch(patch)
      PROVE  SessionInv'
  <2>1. CASE Allows(session.role, "apply_patch") /\ ~patch.links
    <3>1. StartJob("forward", patch.changes, {}, TRUE)
      BY <1>4, <2>1 DEF CallPatch
    <3>2. ~IsReadOnly(session.role)
      BY <2>1 DEF Allows, EditTools
    <3> QED BY <1>1, <3>1, <3>2, StartJobKeeps DEF JobTools
  <2>2. CASE ~(Allows(session.role, "apply_patch") /\ ~patch.links)
    BY <1>1, <1>4, <2>2, NextCallKeeps DEF CallPatch
  <2> QED BY <2>1, <2>2
<1> QED BY <1>2, <1>3, <1>4

\* Changing what an invocation remembers besides its phase.
LEMMA NotedPhased ==
  ASSUME NEW s, Phased(s), Budgeted(s), s.pc # "idle", NEW b \in BOOLEAN,
         NEW n, n = [s EXCEPT !.blind = b] \/ n = [s EXCEPT !.late = b]
  PROVE  Phased(n) /\ Budgeted(n) /\ Same(s, n) /\ n.pc = s.pc /\ n.result = s.result
<1>1. s \in SessionType
  BY DEF Phased
<1>2. n \in SessionType
  BY <1>1 DEF SessionType
<1>3. /\ n.pc = s.pc /\ n.calls = s.calls /\ n.ordinal = s.ordinal /\ n.turn = s.turn
      /\ n.role = s.role /\ n.driver = s.driver /\ n.reason = s.reason /\ n.result = s.result
  BY <1>1 DEF SessionType
<1> QED BY <1>2, <1>3 DEF Phased, Budgeted, Same

\* The command is gone and forgotten.
LEMMA IdleProc ==
  ASSUME ProcessInv, proc.pc = "ended", Idle, UNCHANGED signal, session'.result # "timeout"
  PROVE  ProcessInv' /\ job' = NoJob /\ (proc'.detached => proc.detached)
<1>1. /\ proc \in ProcType /\ proc.group = FALSE /\ proc.left = FALSE /\ proc.leader = FALSE
  BY DEF ProcessInv, Supervised, ProcType
<1>2. /\ proc' \in ProcType /\ proc'.pc = "none" /\ proc'.group = FALSE /\ proc'.left = FALSE
      /\ proc'.leader = FALSE /\ (proc'.detached => proc.detached)
  BY <1>1 DEF Idle, ProcType, ProcPcs
<1> QED BY <1>2 DEF ProcessInv, Supervised, Idle

LEMMA JobEndsKeeps ==
  ASSUME SessionInv, JobEnds
  PROVE  SessionInv'
<1> DEFINE ok       == Succeeded(proc.exit)
           affected == job.affected \cup (IF ok THEN ReversePaths(job.patch) ELSE {})
           confined == \A rel \in affected : Confine(tree, Plain(rel), "write") # NoPath
<1>1. session.pc = "waiting" /\ session.driver = "local" /\ proc.pc = "ended"
  BY DEF JobEnds
<1>2. Phased(session) /\ Budgeted(session)
  BY DEF SessionInv, PhaseInv
<1>3. CASE job.tool = "forward" /\ ok
  <2>1. StartJob("reverse", job.patch, ForwardPaths(job.patch), TRUE)
    BY <1>3 DEF JobEnds
  <2>2. ~IsReadOnly(session.role)
    BY <1>1, <1>3 DEF SessionInv, JobInv
  <2> QED BY <1>1, <2>1, <2>2, StartJobKeeps DEF JobTools
<1>4. CASE job.tool = "reverse" /\ affected # {} /\ confined
  <2>1. /\ job' = [job EXCEPT !.tool = "apply", !.affected = affected]
        /\ proc' = Spawned(proc)
        /\ session' = [session EXCEPT !.blind = session.blind \/ ~ok]
        /\ UNCHANGED << signal, tree >>
    BY <1>4 DEF JobEnds
  <2>2. ~IsReadOnly(session.role)
    BY <1>1, <1>4 DEF SessionInv, JobInv
  <2>3. \E b \in BOOLEAN : session' = [session EXCEPT !.blind = b]
    BY <2>1
  <2>4. /\ Phased(session') /\ Budgeted(session') /\ Same(session, session')
        /\ session'.pc = "waiting"
    BY <1>1, <1>2, <2>3, NotedPhased
  <2>5. /\ proc \in ProcType /\ proc.group = FALSE /\ proc.left = FALSE
    BY <1>1 DEF SessionInv, ProcessInv, Supervised, ProcType
  <2>6. ProcessInv'
    BY <2>1, <2>4, <2>5, SpawnedProc DEF SessionInv, ProcessInv, Supervised
  <2>7. JobInv'
    <3> HIDE DEF affected
    <3>1. job = [tool |-> job.tool, patch |-> job.patch, affected |-> job.affected,
                 applied |-> job.applied]
      BY DEF SessionInv, JobInv
    <3>2. job' = [tool |-> "apply", patch |-> job.patch, affected |-> affected,
                  applied |-> job.applied]
      BY <2>1, <3>1
    <3>3. job' = [tool |-> job'.tool, patch |-> job'.patch, affected |-> job'.affected,
                  applied |-> job'.applied] /\ job'.tool = "apply"
      BY <3>2
    <3> QED BY <1>1, <2>2, <2>4, <3>3 DEF JobInv, JobTools, Same
  <2>8. ReadOnlyInv'
    BY <2>2, <2>4 DEF ReadOnlyInv, Same
  <2>9. DetachedInv'
    <3>1. proc'.detached => proc.detached
      BY <2>1, <2>5, SpawnedProc
    <3> QED BY <2>4, <3>1, StaysDetached DEF SessionInv
  <2> QED BY <2>4, <2>6, <2>7, <2>8, <2>9 DEF SessionInv, PhaseInv
<1>5. CASE ~(job.tool = "forward" /\ ok) /\ ~(job.tool = "reverse" /\ affected # {} /\ confined)
  <2>1. Idle /\ session' = NextCall(session, FALSE) /\ UNCHANGED << signal, tree >>
    BY <1>5 DEF JobEnds
  <2>2. /\ Phased(session') /\ Budgeted(session') /\ Same(session, session')
        /\ session'.pc \notin {"idle", "waiting"} /\ session'.result # "timeout"
    BY <1>1, <1>2, <2>1, NextCallPhased
  <2>3. ProcessInv' /\ job' = NoJob /\ (proc'.detached => proc.detached)
    BY <1>1, <2>1, <2>2, IdleProc DEF SessionInv
  <2>4. JobInv'
    BY <2>3 DEF JobInv, NoJob, JobTools
  <2>5. ReadOnlyInv'
    BY <1>1, <2>1, <2>2 DEF SessionInv, ReadOnlyInv, Same
  <2>6. DetachedInv'
    BY <2>2, <2>3, StaysDetached DEF SessionInv
  <2> QED BY <2>2, <2>3, <2>4, <2>5, <2>6 DEF SessionInv, PhaseInv
<1> QED BY <1>3, <1>4, <1>5

LEMMA TimersKeep ==
  ASSUME SessionInv, DeadlinePasses \/ NodeTimeout
  PROVE  SessionInv'
<1>1. Phased(session) /\ Budgeted(session)
  BY DEF SessionInv, PhaseInv
<1>2. CASE DeadlinePasses
  <2>1. session' = [session EXCEPT !.late = TRUE] /\ UNCHANGED << signal, proc, job, tree >>
        /\ session.pc # "idle"
    BY <1>2 DEF DeadlinePasses
  <2>2. /\ Phased(session') /\ Budgeted(session') /\ Same(session, session')
        /\ session'.pc = session.pc /\ session'.result = session.result
    BY <1>1, <2>1, NotedPhased
  <2>3. DetachedInv'
    BY <2>1, <2>2, StaysDetached DEF SessionInv
  <2>4. ProcessInv'
    BY <2>1, <2>2 DEF SessionInv, ProcessInv, Supervised
  <2>5. JobInv'
    BY <2>1, <2>2 DEF SessionInv, JobInv, Same
  <2>6. ReadOnlyInv'
    BY <2>1, <2>2 DEF SessionInv, ReadOnlyInv, Same
  <2> QED BY <2>2, <2>3, <2>4, <2>5, <2>6 DEF SessionInv, PhaseInv
<1>3. CASE NodeTimeout
  <2>1. /\ session.pc \in {"asking", "waiting"} /\ UNCHANGED << signal, job, tree >>
        /\ session' = [session EXCEPT !.pc = "over", !.result = "timeout"]
        /\ proc' = Dropped(proc) \/ (proc' = proc /\ proc.pc = "none")
    BY <1>1, <1>3 DEF NodeTimeout, SessionInv, ProcessInv, Phased
  <2>2. session \in SessionType /\ session.role \in Roles /\ session.reason = "none"
    BY <1>1, <2>1 DEF Phased
  <2>3. /\ session' \in SessionType /\ session'.pc = "over" /\ session'.result = "timeout"
        /\ session'.calls = session.calls /\ session'.ordinal = session.ordinal
        /\ session'.turn = session.turn /\ session'.reason = session.reason
        /\ session'.role = session.role /\ session'.driver = session.driver
    BY <2>1, <2>2 DEF SessionType, SessionPcs
  <2>4. PhaseInv'
    BY <1>1, <2>2, <2>3 DEF PhaseInv, Phased, Budgeted
  <2>5. ProcessInv'
    <3>1. proc \in ProcType
      BY DEF SessionInv, ProcessInv
    <3>2. CASE proc' = Dropped(proc)
      <4>1. /\ proc' \in ProcType /\ proc'.pc = "dropped" /\ proc'.leader = FALSE
        BY <3>1, <3>2 DEF Dropped, ProcType, ProcPcs
      <4> QED BY <2>1, <2>3, <4>1 DEF SessionInv, ProcessInv, Supervised
    <3>3. CASE proc' = proc /\ proc.pc = "none"
      BY <2>1, <2>3, <3>3 DEF SessionInv, ProcessInv, Supervised
    <3> QED BY <2>1, <3>2, <3>3
  <2>6. JobInv'
    BY <2>1, <2>3 DEF SessionInv, JobInv
  <2>7. ReadOnlyInv'
    BY <2>1, <2>3 DEF SessionInv, ReadOnlyInv
  <2>8. DetachedInv'
    <3>1. proc'.detached => proc.detached
      BY <2>1 DEF Dropped, SessionInv, ProcessInv, ProcType
    <3> QED BY <2>3, <3>1, StaysDetached DEF SessionInv, Same
  <2> QED BY <2>4, <2>5, <2>6, <2>7, <2>8 DEF SessionInv
<1> QED BY <1>2, <1>3

\* An invocation before its first step.
Fresh(s, role, driver) ==
  /\ s \in SessionType /\ s.role = role /\ s.driver = driver /\ s.turn = 0 /\ s.ordinal = 0
  /\ s.reason = "none" /\ s.result = "none" /\ s.pc = "idle" /\ s.calls = 0

LEMMA FreshSession ==
  ASSUME NEW role \in Roles
  PROVE  /\ Fresh([NoSession EXCEPT !.role = role], role, "local")
         /\ \A d \in {"external", "fake"} :
              Fresh([NoSession EXCEPT !.role = role, !.driver = d], role, d)
  BY SessionAssumption DEF Fresh, NoSession, SessionType, SessionPcs, Reasons

\* Its first step: it is over at once, it enters its loop, or it waits.
LEMMA FirstStep ==
  ASSUME NEW role \in Roles, NEW driver, NEW s, Fresh(s, role, driver)
  PROVE  /\ Phased(Failed(s)) /\ Budgeted(Failed(s)) /\ Same(s, Failed(s))
         /\ Failed(s).pc = "over" /\ Failed(s).result = "error"
         /\ driver = "fake" =>
              \A r \in Reasons :
                /\ Phased(Returned(s, r)) /\ Budgeted(Returned(s, r)) /\ Same(s, Returned(s, r))
                /\ Returned(s, r).pc = "over" /\ Returned(s, r).result = "ok"
<1>1. /\ s \in SessionType /\ s.role \in Roles /\ s.turn = 0 /\ s.ordinal = 0
      /\ s.turn <= TurnBudget /\ s.ordinal <= (IF ToolBudget = 0 THEN 1 ELSE ToolBudget)
      /\ s.reason = "none" /\ s.driver = driver /\ s.result = "none"
  BY SessionAssumption DEF Fresh
<1>2. /\ Phased(Failed(s)) /\ Budgeted(Failed(s)) /\ Same(s, Failed(s))
      /\ Failed(s).pc = "over" /\ Failed(s).result = "error"
  BY <1>1, FailedPhased
<1>3. ASSUME driver = "fake", NEW r \in Reasons
      PROVE  /\ Phased(Returned(s, r)) /\ Budgeted(Returned(s, r)) /\ Same(s, Returned(s, r))
             /\ Returned(s, r).pc = "over" /\ Returned(s, r).result = "ok"
  BY <1>1, <1>3, ReturnedPhased
<1> QED BY <1>2, <1>3

LEMMA FirstStepOn ==
  ASSUME NEW role \in Roles, NEW driver, NEW s, Fresh(s, role, driver), NEW pc,
         (pc = "turn" /\ driver = "local") \/ (pc = "waiting" /\ driver = "external"),
         NEW n, n = [s EXCEPT !.pc = pc]
  PROVE  Phased(n) /\ Budgeted(n) /\ Same(s, n) /\ n.pc = pc /\ n.result = "none"
<1>1. /\ s \in SessionType /\ s.role \in Roles /\ s.turn = 0 /\ s.ordinal = 0
      /\ s.turn <= TurnBudget /\ s.ordinal <= (IF ToolBudget = 0 THEN 1 ELSE ToolBudget)
      /\ s.reason = "none" /\ s.driver = driver /\ s.result = "none"
  BY SessionAssumption DEF Fresh
<1>2. n \in SessionType
  BY <1>1 DEF SessionType, SessionPcs
<1>3. /\ n.pc = pc /\ n.ordinal = s.ordinal /\ n.turn = s.turn /\ n.role = s.role
      /\ n.driver = s.driver /\ n.reason = s.reason /\ n.result = s.result
  BY <1>1 DEF SessionType
<1> QED BY <1>1, <1>2, <1>3 DEF Phased, Budgeted, Same

\* What holds before an invocation.
LEMMA IdleFacts ==
  ASSUME SessionInv, session.pc = "idle"
  PROVE  /\ session = NoSession /\ tree = InitialTree /\ session.result = "none"
         /\ proc \in ProcType /\ proc.pc = "none"
         /\ proc.group = FALSE /\ proc.left = FALSE /\ proc.leader = FALSE
         /\ proc.detached = FALSE /\ job.tool # "agent"
<1>1. session = NoSession
  BY DEF SessionInv, PhaseInv, Phased
<1>2. /\ session.role = "planner" /\ session.driver = "local" /\ session.result = "none"
  BY <1>1 DEF NoSession
<1>3. tree = InitialTree
  BY <1>2 DEF SessionInv, ReadOnlyInv, IsReadOnly
<1>4. /\ proc \in ProcType /\ proc.pc = "none"
      /\ proc.group = FALSE /\ proc.left = FALSE /\ proc.leader = FALSE
  BY <1>2 DEF SessionInv, ProcessInv, Supervised, ProcType
<1>5. proc.detached = FALSE
  BY <1>4 DEF SessionInv, DetachedInv, ProcType
<1> QED BY <1>1, <1>2, <1>3, <1>4, <1>5 DEF SessionInv, JobInv

LEMMA InvokeLocalKeeps ==
  ASSUME SessionInv, NEW role \in Roles, NEW model \in BOOLEAN, InvokeLocal(role, model)
  PROVE  SessionInv'
<1> DEFINE s == [NoSession EXCEPT !.role = role]
<1>1. session.pc = "idle" /\ UNCHANGED << signal, proc, job, tree >>
      /\ (session' = [s EXCEPT !.pc = "turn"] \/ session' = Failed(s))
  BY DEF InvokeLocal
<1>2. Fresh(s, role, "local")
  BY FreshSession
<1> HIDE DEF s
<1>3. /\ Phased(session') /\ Budgeted(session') /\ Same(s, session')
      /\ session'.pc \notin {"idle", "waiting"} /\ session'.result # "timeout"
  BY <1>1, <1>2, FirstStep, FirstStepOn
<1>4. /\ session = NoSession /\ tree = InitialTree /\ proc.pc = "none" /\ proc.detached = FALSE
  BY <1>1, IdleFacts
<1>5. ProcessInv'
  BY <1>1, <1>3, <1>4 DEF SessionInv, ProcessInv, Supervised
<1>6. session'.driver = "local" /\ job.tool \in {"none", "inspect"}
  BY <1>2, <1>3, <1>4 DEF Same, Fresh, SessionInv, JobInv, NoSession, IsReadOnly
<1>7. JobInv'
  BY <1>1, <1>6 DEF SessionInv, JobInv
<1>8. ReadOnlyInv'
  BY <1>1, <1>4 DEF ReadOnlyInv
<1>9. DetachedInv'
  BY <1>1, <1>4 DEF DetachedInv
<1> QED BY <1>3, <1>5, <1>7, <1>8, <1>9 DEF SessionInv, PhaseInv

LEMMA InvokeExternalKeeps ==
  ASSUME SessionInv, NEW role \in Roles, NEW kind, NEW available, NEW offered,
         InvokeExternal(role, kind, available, offered)
  PROVE  SessionInv'
<1> DEFINE s == [NoSession EXCEPT !.role = role, !.driver = "external"]
<1>1. /\ session.pc = "idle" /\ UNCHANGED << signal, tree >>
      /\ \/ session' = Failed(s) /\ UNCHANGED << proc, job >>
         \/ /\ session' = [s EXCEPT !.pc = "waiting"]
            /\ proc' = Spawned(proc)
            /\ job' = [NoJob EXCEPT !.tool = "agent"]
  BY DEF InvokeExternal
<1>2. Fresh(s, role, "external")
  BY FreshSession
<1> HIDE DEF s
<1>3. /\ session = NoSession /\ tree = InitialTree /\ proc \in ProcType /\ proc.pc = "none"
      /\ proc.group = FALSE /\ proc.left = FALSE /\ proc.leader = FALSE
      /\ proc.detached = FALSE
  BY <1>1, IdleFacts
<1>4. ReadOnlyInv'
  BY <1>1, <1>3 DEF ReadOnlyInv
<1>7. DetachedInv'
  <2>1. proc' = proc \/ proc'.detached = proc.detached
    BY <1>1, <1>3, SpawnedProc
  <2> QED BY <1>3, <2>1 DEF DetachedInv
<1>5. CASE session' = Failed(s) /\ UNCHANGED << proc, job >>
  <2>1. /\ Phased(session') /\ Budgeted(session') /\ Same(s, session')
        /\ session'.pc \notin {"idle", "waiting"} /\ session'.result # "timeout"
    BY <1>2, <1>5, FirstStep
  <2>2. ProcessInv'
    BY <1>1, <1>3, <1>5, <2>1 DEF SessionInv, ProcessInv, Supervised
  <2>3. session'.driver = "external"
    BY <1>2, <2>1 DEF Same, Fresh
  <2>4. JobInv'
    BY <1>1, <1>5, <2>1, <2>3 DEF SessionInv, JobInv, Phased
  <2> QED BY <1>4, <1>7, <2>1, <2>2, <2>4 DEF SessionInv, PhaseInv
<1>6. CASE /\ session' = [s EXCEPT !.pc = "waiting"]
           /\ proc' = Spawned(proc)
           /\ job' = [NoJob EXCEPT !.tool = "agent"]
  <2>1. /\ Phased(session') /\ Budgeted(session') /\ Same(s, session')
        /\ session'.pc = "waiting"
    BY <1>2, <1>6, FirstStepOn
  <2>2. ProcessInv'
    BY <1>1, <1>3, <1>6, <2>1, SpawnedProc DEF SessionInv, ProcessInv, Supervised
  <2>3. session'.driver = "external"
    BY <1>2, <2>1 DEF Same, Fresh
  <2>4. JobInv'
    BY <1>6, <2>1, <2>3 DEF JobInv, NoJob, JobTools
  <2> QED BY <1>4, <1>7, <2>1, <2>2, <2>4 DEF SessionInv, PhaseInv
<1> QED BY <1>1, <1>5, <1>6

LEMMA InvokeFakeKeeps ==
  ASSUME SessionInv, NEW role \in Roles, NEW marker \in BOOLEAN, NEW write, NEW delete,
         NEW reason \in {"completed", "turn_budget_exhausted", "driver_failure", "cancelled"},
         InvokeFake(role, marker, write, delete, reason)
  PROVE  SessionInv'
<1> DEFINE s == [NoSession EXCEPT !.role = role, !.driver = "fake"]
<1>1. /\ session.pc = "idle" /\ UNCHANGED << signal, proc, job >>
      /\ session' = Failed(s) \/ session' = Returned(s, reason)
      /\ IsReadOnly(role) => tree' = tree
  BY DEF InvokeFake
<1>2. Fresh(s, role, "fake")
  BY FreshSession
<1> HIDE DEF s
<1>3. reason \in Reasons
  BY DEF Reasons
<1>4. /\ Phased(session') /\ Budgeted(session') /\ Same(s, session')
      /\ session'.pc = "over" /\ session'.result # "timeout"
  BY <1>1, <1>2, <1>3, FirstStep
<1>5. /\ session = NoSession /\ tree = InitialTree /\ proc.pc = "none" /\ proc.detached = FALSE
  BY <1>1, IdleFacts
<1>6. ProcessInv'
  BY <1>1, <1>4, <1>5 DEF SessionInv, ProcessInv, Supervised
<1>7. session'.driver = "fake" /\ session'.role = role
  BY <1>2, <1>4 DEF Same, Fresh
<1>8. JobInv'
  BY <1>1, <1>4, <1>7 DEF SessionInv, JobInv
<1>9. ReadOnlyInv'
  BY <1>1, <1>5, <1>7 DEF ReadOnlyInv
<1>10. DetachedInv'
  BY <1>1, <1>5 DEF DetachedInv
<1> QED BY <1>4, <1>6, <1>8, <1>9, <1>10 DEF SessionInv, PhaseInv

LEMMA ExternalEndsKeeps ==
  ASSUME SessionInv, NEW response \in BOOLEAN, ExternalEnds(response)
  PROVE  SessionInv'
<1> DEFINE reason == ExternalReason(proc.exit, response)
<1>1. /\ session.pc = "waiting" /\ session.driver = "external" /\ proc.pc = "ended"
      /\ session' = ExternalEnd(session, proc.exit, response)
      /\ Idle /\ UNCHANGED << signal, tree >>
  BY DEF ExternalEnds
<1>2. Phased(session) /\ Budgeted(session)
  BY DEF SessionInv, PhaseInv
<1>3. /\ session \in SessionType /\ session.role \in Roles /\ session.reason = "none"
      /\ session.turn <= TurnBudget
      /\ session.ordinal <= (IF ToolBudget = 0 THEN 1 ELSE ToolBudget)
  BY <1>1, <1>2 DEF Phased, Budgeted
<1>4. reason \in Reasons
  BY DEF ExternalReason, Reasons
<1> HIDE DEF reason
<1>5. \/ session' = Failed(session)
      \/ session' = Returned(session, reason)
  BY <1>1 DEF ExternalEnd, reason
<1>6. /\ Phased(session') /\ Budgeted(session') /\ Same(session, session')
      /\ session'.pc = "over" /\ session'.result # "timeout"
  BY <1>1, <1>3, <1>4, <1>5, ReturnedPhased, FailedPhased
<1>7. ProcessInv' /\ job' = NoJob /\ (proc'.detached => proc.detached)
  BY <1>1, <1>6, IdleProc DEF SessionInv
<1>8. JobInv'
  BY <1>7 DEF JobInv, NoJob, JobTools
<1>9. ReadOnlyInv'
  BY <1>1, <1>6 DEF ReadOnlyInv, Same
<1>10. DetachedInv'
  BY <1>6, <1>7, StaysDetached DEF SessionInv
<1> QED BY <1>6, <1>7, <1>8, <1>9, <1>10 DEF SessionInv, PhaseInv

\* Files are written by commands that are alive, never for a read-only role of the local driver.
LEMMA WritesKeep ==
  ASSUME SessionInv,
         \/ \E path \in WorkFiles : CommandWrites(path)
         \/ \E part \in SUBSET job.patch : GitWrites(part)
  PROVE  SessionInv'
<1>1. /\ UNCHANGED << signal, proc, session >>
      /\ job' = job \/ job' = [job EXCEPT !.applied = TRUE]
      /\ proc.detached \/ job.tool \in {"command", "agent", "apply"}
  BY DEF CommandWrites, GitWrites
<1>2. /\ job' = [tool |-> job'.tool, patch |-> job'.patch, affected |-> job'.affected,
                 applied |-> job'.applied] /\ job'.tool = job.tool
  BY <1>1 DEF SessionInv, JobInv
<1>3. PhaseInv' /\ DetachedInv'
  BY <1>1 DEF SessionInv, PhaseInv, DetachedInv
<1>4. ProcessInv'
  BY <1>1 DEF SessionInv, ProcessInv, Supervised
<1>5. JobInv'
  BY <1>1, <1>2 DEF SessionInv, JobInv
<1>6. IsReadOnly(session.role) => session.driver = "external" /\ session.pc # "idle"
  <2>1. session.driver \in {"local", "external", "fake"}
    BY DEF SessionInv, PhaseInv, Phased, SessionType
  <2>2. session.driver = "external" \/ ~IsReadOnly(session.role)
    BY <1>1, <2>1 DEF SessionInv, JobInv, DetachedInv
  <2>3. session.pc # "idle"
    BY <1>1 DEF SessionInv, JobInv, DetachedInv
  <2> QED BY <2>2, <2>3
<1>7. ReadOnlyInv'
  BY <1>1, <1>6 DEF ReadOnlyInv
<1> QED BY <1>3, <1>4, <1>5, <1>7 DEF SessionInv

\* The supervisor, the command and the channel.
LEMMA SupervisionKeeps ==
  ASSUME SessionInv, Around,
         \/ SuperviseStep \/ CommandStep \/ ChannelStep
         \/ Detach /\ job.tool \in {"command", "agent"}
  PROVE  SessionInv'
<1>1. UNCHANGED << session, job, tree >>
  BY DEF Around
<1>2. PhaseInv' /\ JobInv'
  BY <1>1 DEF SessionInv, PhaseInv, JobInv
<1>3. ReadOnlyInv'
  BY <1>1 DEF SessionInv, ReadOnlyInv
<1>4. ProcessInv'
  <2>1. ProcessInv /\ proc \in ProcType /\ proc.exit \in Exit
    BY DEF SessionInv, ProcessInv, ProcType
  <2>2. CASE Reap
    BY <1>1, <2>1, <2>2 DEF ProcessInv, Supervised, ProcType, ProcPcs, Exit, Reap, Collected
  <2>3. CASE TimeLimit
    BY <1>1, <2>1, <2>3 DEF ProcessInv, Supervised, ProcType, ProcPcs, Exit, TimeLimit
  <2>4. CASE SignalSeen
    BY <1>1, <2>1, <2>4 DEF ProcessInv, Supervised, ProcType, ProcPcs, Exit, SignalSeen
  <2>5. CASE Escalate
    BY <1>1, <2>1, <2>5 DEF ProcessInv, Supervised, ProcType, ProcPcs, Exit, Escalate, Collected
  <2>6. CASE Drained
    BY <1>1, <2>1, <2>6 DEF ProcessInv, Supervised, ProcType, ProcPcs, Exit, Drained
  <2>7. CASE Fork
    BY <1>1, <2>1, <2>7 DEF ProcessInv, Supervised, ProcType, ProcPcs, Exit, Fork
  <2>8. ASSUME NEW ok \in BOOLEAN, LeaderExits(ok)
        PROVE  ProcessInv'
    BY <1>1, <2>1, <2>8 DEF ProcessInv, Supervised, ProcType, ProcPcs, Exit, LeaderExits
  <2>9. CASE DescendantExits
    BY <1>1, <2>1, <2>9 DEF ProcessInv, Supervised, ProcType, ProcPcs, Exit, DescendantExits
  <2>10. CASE ChannelStep
    BY <1>1, <2>1, <2>10 DEF ProcessInv, Supervised, ChannelStep, SendCancel, ReplaceSender
  <2>11. CASE Detach
    BY <1>1, <2>1, <2>11 DEF ProcessInv, Supervised, ProcType, ProcPcs, Exit, Detach
  <2> QED
    BY <2>2, <2>3, <2>4, <2>5, <2>6, <2>7, <2>8, <2>9, <2>10, <2>11 DEF SuperviseStep, CommandStep
<1>5. DetachedInv'
  <2>1. proc \in ProcType
    BY DEF SessionInv, ProcessInv
  <2>2. CASE Detach /\ job.tool \in {"command", "agent"}
    <3>1. session.driver \in {"local", "external", "fake"}
      BY DEF SessionInv, PhaseInv, Phased, SessionType
    <3> QED BY <1>1, <2>2, <3>1 DEF SessionInv, JobInv, DetachedInv
  <2>3. CASE SuperviseStep \/ CommandStep \/ ChannelStep
    <3>1. proc'.detached => proc.detached
      BY <2>1, <2>3 DEF SuperviseStep, CommandStep, ChannelStep, Reap, Collected, TimeLimit,
        SignalSeen, Escalate, Drained, Fork, LeaderExits, DescendantExits, SendCancel,
        ReplaceSender, ProcType
    <3> QED BY <1>1, <3>1 DEF SessionInv, DetachedInv
  <2> QED BY <2>2, <2>3
<1> QED BY <1>2, <1>3, <1>4, <1>5 DEF SessionInv

LEMMA SessionInitial == Init => SessionInv
<1> SUFFICES ASSUME Init PROVE SessionInv
  OBVIOUS
<1>1. PhaseInv
  BY SessionAssumption DEF Init, PhaseInv, Phased, Budgeted, NoSession, SessionType, SessionPcs, Reasons
<1>2. ProcessInv
  BY DEF Init, SupervisorInit, NoProcess, ProcessInv, Supervised, ProcType, ProcPcs, Exit
<1>3. JobInv
  BY DEF Init, NoJob, JobInv, JobTools
<1>4. ReadOnlyInv
  BY DEF Init, ReadOnlyInv
<1>5. DetachedInv
  BY DEF Init, SupervisorInit, NoProcess, DetachedInv
<1> QED BY <1>1, <1>2, <1>3, <1>4, <1>5 DEF SessionInv

LEMMA SessionStep == SessionInv /\ [Next]_vars => SessionInv'
<1> SUFFICES ASSUME SessionInv, [Next]_vars PROVE SessionInv'
  OBVIOUS
<1>1. CASE Invoke
  BY <1>1, InvokeLocalKeeps, InvokeExternalKeeps, InvokeFakeKeeps DEF Invoke
<1>2. CASE Call
  <2>1. ASSUME CallLook \/ CallComplete PROVE SessionInv'
    BY <2>1, NextCallKeeps DEF CallLook, CallComplete
  <2> QED BY <1>2, <2>1, CallEditKeeps, CallJobKeeps DEF Call
<1>3. CASE UNCHANGED vars
  BY <1>3 DEF vars, SessionInv, PhaseInv, ProcessInv, Supervised, JobInv, DetachedInv, ReadOnlyInv
<1> QED
  BY <1>1, <1>2, <1>3, BeginTurnKeeps, JobEndsKeeps, TimersKeep, AnswerKeeps, ExternalEndsKeeps,
     WritesKeep, SupervisionKeeps DEF Next

(***************************************************************************)
(* The theorems of the session.                                            *)
(***************************************************************************)
\* Phases, budgets, processes, jobs and the worktree of a read-only role stay consistent in
\* every run of an invocation (local.rs, external.rs, fake.rs, supervisor.rs).
THEOREM SessionInvariant == Spec => []SessionInv
  BY SessionInitial, SessionStep, PTL DEF Spec

\* The turn loop never exceeds its budgets, whatever their values.
THEOREM BudgetsAreKept == Spec => []BudgetsHold
<1>1. SessionInv => BudgetsHold
  BY DEF SessionInv, PhaseInv, Budgeted, BudgetsHold
<1> QED BY <1>1, SessionInvariant, PTL

\* Whatever ends first, when an invocation returns to its node its command is dead, and so are
\* its process group and every descendant that holds a pipe.  A detached one may be alive.
THEOREM NoProcessOutlives == Spec => []NothingLeftRunning
<1>1. SessionInv => NothingLeftRunning
  BY DEF SessionInv, PhaseInv, Phased, ProcessInv, Supervised, NothingLeftRunning
<1> QED BY <1>1, SessionInvariant, PTL

\* An external agent gets an outcome in one way.
LEMMA ExternalOutcome ==
  ASSUME SessionInv, [Next]_vars, session.pc # "over",
         session'.result = "ok", session'.driver = "external"
  PROVE  \E response \in BOOLEAN : ExternalEnds(response)
<1>1. /\ session \in SessionType /\ session.result = "none"
      /\ session.pc \in {"turn", "asking", "calling"} => session.driver = "local"
  BY DEF SessionInv, PhaseInv, Phased
<1>2. /\ \A r : Returned(session, r).driver = session.driver
      /\ Failed(session).driver = session.driver
      /\ TurnStart(session).driver = session.driver
      /\ \A c : NextCall(session, c).driver = session.driver
  BY <1>1 DEF Returned, Failed, TurnStart, NextCall, SessionType
<1>3. ASSUME NEW tool, NEW patch, NEW affected, NEW starts, StartJob(tool, patch, affected, starts)
      PROVE  session'.driver = session.driver
  BY <1>1, <1>2, <1>3 DEF StartJob, SessionType
<1>4. CASE Call
  BY <1>1, <1>2, <1>3, <1>4
     DEF Call, CallEdit, CallLook, CallComplete, CallInspect, CallCommand, CallPatch
<1>5. CASE BeginTurn
  BY <1>1, <1>2, <1>5 DEF BeginTurn
<1>6. ASSUME NEW calls \in 0..CallsPerTurn, NEW broken \in BOOLEAN, Answer(calls, broken)
      PROVE  FALSE
  BY <1>1, <1>2, <1>6 DEF Answer, SessionType
<1>7. ~JobEnds
  <2> SUFFICES ASSUME JobEnds PROVE session'.driver = session.driver
    BY DEF JobEnds
  <2> DEFINE ok == Succeeded(proc.exit)
  <2>1. \/ session'.driver = session.driver
        \/ session' = [session EXCEPT !.blind = session.blind \/ ~ok]
    BY <1>2, <1>3 DEF JobEnds
  <2> HIDE DEF ok
  <2> QED BY <1>1, <2>1 DEF SessionType
<1>8. ~DeadlinePasses /\ ~NodeTimeout
  BY <1>1 DEF DeadlinePasses, NodeTimeout, SessionType
<1>9. ~Invoke
  <2>1. ASSUME NEW role \in Roles, NEW model \in BOOLEAN, InvokeLocal(role, model) PROVE FALSE
    BY <2>1 DEF InvokeLocal, Failed, NoSession
  <2>2. ASSUME NEW role \in Roles, NEW kind, NEW available, NEW offered,
               InvokeExternal(role, kind, available, offered)
        PROVE  FALSE
    BY <2>2 DEF InvokeExternal, Failed, NoSession
  <2>3. ASSUME NEW role \in Roles, NEW marker \in BOOLEAN, NEW write, NEW delete, NEW reason,
               InvokeFake(role, marker, write, delete, reason)
        PROVE  FALSE
    BY <2>3 DEF InvokeFake, Failed, Returned, NoSession
  <2> QED BY <2>1, <2>2, <2>3 DEF Invoke
<1>10. session' # session
  BY <1>1
<1> QED
  BY <1>4, <1>5, <1>6, <1>7, <1>8, <1>9, <1>10
     DEF Next, vars, CommandWrites, GitWrites, Around

\* No tool call, script or external agent changes a file of the worktree and gets an outcome
\* in a read-only role.
THEOREM ReadOnlyIsReadOnly == Spec => ReadOnlyKeepsWorktree
<1>1. ASSUME SessionInv, SessionInv', [Next]_vars, session.pc # "over",
             session'.result = "ok", IsReadOnly(session'.role)
      PROVE  ChangedPaths' = {}
  <2>1. CASE tree' = InitialTree
    BY <2>1 DEF ChangedPaths
  <2>2. CASE session'.driver = "external"
    <3>1. PICK response \in BOOLEAN : ExternalEnds(response)
      BY <1>1, <2>2, ExternalOutcome
    <3>2. /\ session' = Failed(session) \/ ~(IsReadOnly(session.role) /\ ChangedPaths # {})
          /\ tree' = tree
      BY <3>1 DEF ExternalEnds, ExternalEnd
    <3>3. session'.role = session.role /\ session' # Failed(session)
      <4>1. session \in SessionType
        BY <1>1 DEF SessionInv, PhaseInv, Phased
      <4> QED BY <1>1, <3>1, <4>1 DEF ExternalEnds, ExternalEnd, Failed, Returned, SessionType
    <3>4. ChangedPaths' = ChangedPaths
      BY <3>2 DEF ChangedPaths
    <3> QED BY <1>1, <3>2, <3>3, <3>4
  <2> QED BY <1>1, <2>1, <2>2 DEF SessionInv, ReadOnlyInv
<1>2. SessionInv /\ SessionInv' /\ [Next]_vars =>
        [session.pc # "over" /\ session'.result = "ok" /\ IsReadOnly(session'.role) =>
           ChangedPaths' = {}]_vars
  BY <1>1
<1> QED BY <1>2, SessionInvariant, PTL DEF Spec, ReadOnlyKeepsWorktree

(***************************************************************************)
(* What one edit makes of a tree.  Every way to write goes through it: the *)
(* files of a set are gone, those of another are made with the directories *)
(* they need.                                                              *)
(***************************************************************************)
Edited(t, gone, made, file) ==
  [p \in (DOMAIN t \ gone) \cup made \cup UNION {Parents(m) : m \in made} |->
     IF p \in made THEN file ELSE IF p \in DOMAIN t THEN t[p] ELSE Dir]

Editable(t, gone, made) ==
  /\ \A p \in gone : p \in DOMAIN t /\ t[p].kind = "file"
  /\ \A m \in made :
       /\ m \in Path /\ m # NoPath /\ (m \in DOMAIN t => t[m] # Dir)
       /\ \A d \in Parents(m) : d \notin made /\ (d \in DOMAIN t => t[d] = Dir)

RootedTree(t) == IsTree(t) /\ Root \in DOMAIN t /\ t[Root] = Dir

\* Only directories appear elsewhere, no link does, and nothing outside the worktree.
Changes(t, u, touched) ==
  /\ RootedTree(u)
  /\ \A p \in Links(u) : p \in Links(t) /\ u[p] = t[p]
  /\ \A p \in DOMAIN t \cup DOMAIN u :
       p \notin touched => IF p \in DOMAIN t THEN p \in DOMAIN u /\ u[p] = t[p] ELSE u[p] = Dir
  /\ (\A p \in touched : IsInside(p)) =>
       \A p \in DOMAIN t \cup DOMAIN u :
         ~IsInside(p) => p \in DOMAIN t /\ p \in DOMAIN u /\ u[p] = t[p]

LEMMA EditedTree ==
  ASSUME NEW t, RootedTree(t), NEW gone, NEW made, Editable(t, gone, made),
         NEW file, file.kind = "file"
  PROVE  Changes(t, Edited(t, gone, made, file), gone \cup made)
<1> DEFINE new == UNION {Parents(m) : m \in made}
           u == Edited(t, gone, made, file)
<1>1. DOMAIN u = (DOMAIN t \ gone) \cup made \cup new
  BY DEF Edited
<1>2. \A p \in DOMAIN u : u[p] = IF p \in made THEN file ELSE IF p \in DOMAIN t THEN t[p] ELSE Dir
  BY DEF Edited
<1>3. Dir.kind = "dir"
  BY DEF Dir
<1>4. \A p \in gone : p \in DOMAIN t /\ t[p] # Dir
  BY <1>3 DEF Editable
<1>5. \A m \in made : m \in Path /\ m # NoPath /\ (m \in DOMAIN t => t[m] # Dir)
  BY DEF Editable
<1>6. \A d \in new : /\ d \in Path /\ d # NoPath /\ d \notin made /\ (d \in DOMAIN t => t[d] = Dir)
                     /\ \A e \in Parents(d) : e \in new
  <2> SUFFICES ASSUME NEW m \in made, NEW d \in Parents(m)
               PROVE  /\ d \in Path /\ d # NoPath /\ d \notin made /\ (d \in DOMAIN t => t[d] = Dir)
                      /\ \A e \in Parents(d) : e \in Parents(m)
    OBVIOUS
  <2> QED BY <1>5, ParentsArePrefixes, ParentsTransitive DEF Editable
<1> HIDE DEF new, u
<1>7. DOMAIN t \subseteq Path \ {NoPath}
  BY DEF RootedTree, IsTree, Path
<1>8. ASSUME NEW p \in DOMAIN u, NEW d \in Parents(p)
      PROVE  d \in DOMAIN u /\ u[d] = Dir
  <2>1. CASE p \in DOMAIN t
    <3>1. d \in DOMAIN t /\ t[d] = Dir
      BY <2>1 DEF RootedTree, IsTree
    <3> QED BY <1>1, <1>2, <1>4, <1>5, <3>1
  <2>2. CASE p \in made \cup new
    <3>1. d \in new
      BY <1>6, <2>2 DEF new
    <3> QED BY <1>1, <1>2, <1>6, <3>1
  <2> QED BY <1>1, <2>1, <2>2
<1>9. \A p \in DOMAIN u :
        /\ u[p].kind \in {"dir", "file", "link"} /\ (u[p].kind = "dir" => u[p] = Dir)
        /\ u[p].kind = "link" => p \in Links(t) /\ u[p] = t[p]
  <2>1. \A p \in DOMAIN t : t[p].kind \in {"dir", "file", "link"} /\ (t[p].kind = "dir" => t[p] = Dir)
    BY DEF RootedTree, IsTree
  <2> QED BY <1>2, <1>3, <2>1 DEF Links
<1>10. \A p \in Links(u) : p \in Links(t) /\ u[p] = t[p]
  BY <1>9 DEF Links
<1>11. IsTree(u)
  <2>1. DOMAIN u \subseteq Seq(STRING) \ {NoPath}
    BY <1>1, <1>5, <1>6, <1>7 DEF Path
  <2>2. ASSUME NEW p \in Links(u)
        PROVE  /\ u[p].target \in Seq(STRING)
               /\ \A q \in Links(u) : ~IsPrefix(u[p].target, q) /\ ~IsPrefix(q, u[p].target)
    BY <1>10, <2>2 DEF RootedTree, IsTree
  <2> QED BY <1>8, <1>9, <2>1, <2>2 DEF IsTree
<1>12. Root \in DOMAIN u /\ u[Root] = Dir
  BY <1>1, <1>2, <1>4, <1>5 DEF RootedTree
<1>13. \A p \in DOMAIN t \cup DOMAIN u :
         p \notin gone \cup made =>
           IF p \in DOMAIN t THEN p \in DOMAIN u /\ u[p] = t[p] ELSE u[p] = Dir
  BY <1>1, <1>2
<1>14. ASSUME \A p \in gone \cup made : IsInside(p), NEW p \in DOMAIN t \cup DOMAIN u, ~IsInside(p)
       PROVE  p \in DOMAIN t /\ p \in DOMAIN u /\ u[p] = t[p]
  <2>1. p \notin gone \cup made
    BY <1>14
  <2>2. ASSUME p \notin DOMAIN t PROVE FALSE
    <3>1. PICK m \in made : p \in Parents(m)
      BY <1>1, <1>14, <2>1, <2>2 DEF new
    <3>2. Root \in Path
      BY <1>7 DEF RootedTree
    <3>3. p \in Parents(Root)
      BY <1>5, <1>14, <3>1, <3>2, ParentsInside
    <3> QED BY <2>2, <3>3 DEF RootedTree, IsTree
  <2> QED BY <1>13, <2>1, <2>2
<1> QED BY <1>10, <1>11, <1>12, <1>13, <1>14 DEF Changes, RootedTree, u

\* A tree that did not change.
LEMMA SameTree ==
  ASSUME NEW t, RootedTree(t), NEW touched
  PROVE  Changes(t, t, touched)
  BY DEF Changes

(***************************************************************************)
(* Which paths the tools reach.                                            *)
(***************************************************************************)

\* A path the policy permits, or one behind a link.
Reached(t, p) ==
  /\ IsInside(p)
  /\ \/ \E rel \in Path : rel \notin Guarded /\ p = Root \o rel
     \/ \E q \in Links(t) : IsPrefix(t[q].target, p)

SafeEdit(t, u) == \E touched : Changes(t, u, touched) /\ \A p \in touched : Reached(t, p)

LEMMA RootIsPath == Root \in Path /\ Root # NoPath
  BY TreeAssumption, SessionAssumption DEF IsTree, Path

LEMMA PermitsFree ==
  ASSUME NEW rel, NEW access \in {"write", "delete"}, Permits(rel, access)
  PROVE  rel \notin Guarded
  BY DEF Permits, Guarded

LEMMA ConfineReaches ==
  ASSUME NEW t, RootedTree(t), NEW raw, Parse(raw) \in Path, NEW access \in {"write", "delete"},
         NEW at, at = Confine(t, raw, access), at # NoPath
  PROVE  /\ at \in Path /\ Reached(t, at)
         /\ (\A d \in Parents(at) \cap DOMAIN t : Exists(t, d)) =>
              \A d \in Parents(at) : d \notin Links(t)
<1> DEFINE rel == Parse(raw)
           p == Root \o rel
<1>1. rel # NoPath /\ Permits(rel, access) /\ at = Resolve(t, p)
  BY DEF Confine
<1>2. p \in Path
  BY RootIsPath, Concat
<1>3. rel \notin Guarded
  BY <1>1, PermitsFree
<1> HIDE DEF rel
<1>4. /\ at \in Path /\ IsInside(at)
      /\ at = p \/ \E q \in Links(t) : IsPrefix(t[q].target, at)
      /\ (\A d \in Parents(at) \cap DOMAIN t : Exists(t, d)) =>
              \A d \in Parents(at) : d \notin Links(t)
  <2> HIDE DEF p
  <2> QED BY <1>1, <1>2, RootIsPath, ResolveConfines DEF RootedTree
<1>5. rel \in Path
  BY DEF rel
<1> QED BY <1>3, <1>4, <1>5 DEF Reached

\* write_file: the directories on the way are no links, so the file is made where it was
\* confined to.
LEMMA WriteFileSafe ==
  ASSUME NEW t, RootedTree(t), NEW raw, Parse(raw) \in Path
  PROVE  SafeEdit(t, WriteFile(t, raw).tree)
<1> DEFINE at == Confine(t, raw, "write")
<1>1. CASE at # NoPath /\ Writable(t, at)
  <2>1. WriteFile(t, raw).tree = Written(t, at)
    BY <1>1 DEF WriteFile
  <2>2. at \in Path /\ Reached(t, at)
    BY <1>1, ConfineReaches
  <2>3. \A d \in Parents(at) : d \notin Links(t)
    BY <1>1, ConfineReaches DEF Writable
  <2> HIDE DEF at
  <2>4. Len(at) \in Nat \ {0}
    BY <1>1, <2>2, EmptySeq DEF Path, NoPath
  <2>5. LinkFree(t, Front(at))
    <3>1. ASSUME NEW n \in 1..Len(at) - 1 PROVE SubSeq(Front(at), 1, n) \in Parents(at)
      BY <1>1, <2>2, <3>1, RestoresPath DEF Parents
    <3> QED BY <1>1, <2>2, <2>3, <3>1, RestoresPath DEF LinkFree
  <2>6. Place(t, at) = at
    BY <1>1, <2>2, <2>5, CanonicalPlain, RestoresPath DEF Place
  <2>7. ASSUME NEW d \in Parents(at), d \in DOMAIN t PROVE t[d] = Dir
    <3>1. d \in Path /\ LinkFree(t, d)
      <4>1. d \in Path
        BY <2>2, <2>7, ParentsArePrefixes
      <4>2. Len(d) \in Nat
        BY <4>1, LenProperties DEF Path
      <4>3. ASSUME NEW n \in 1..Len(d) PROVE SubSeq(d, 1, n) \notin Links(t)
        <5>1. CASE n = Len(d)
          BY <2>3, <2>7, <4>1, <5>1, SubSeqFull DEF Path
        <5>2. CASE n # Len(d)
          <6>1. n \in 1..Len(d) - 1
            BY <4>2, <5>2
          <6>2. SubSeq(d, 1, n) \in Parents(d)
            BY <6>1 DEF Parents
          <6> QED BY <2>2, <2>3, <6>2, ParentsTransitive
        <5> QED BY <5>1, <5>2
      <4> QED BY <4>1, <4>3 DEF LinkFree
    <3> QED BY <1>1, <2>7, <3>1, CanonicalPlain DEF Writable
  <2>8. Editable(t, {}, {at})
    <3>1. at \notin Parents(at)
      BY <2>2, <2>4, ParentsArePrefixes
    <3>2. at \in DOMAIN t => t[at] # Dir
      BY <1>1, <2>6 DEF Writable
    <3> QED BY <1>1, <2>2, <2>7, <3>1, <3>2 DEF Editable
  <2>9. File("agent").kind = "file"
    BY DEF File
  <2>10. Written(t, at) = Edited(t, {}, {at}, File("agent"))
    BY <2>6 DEF Written, Edited
  <2>11. Changes(t, Written(t, at), {at})
    BY <2>8, <2>9, <2>10, EditedTree
  <2> QED BY <2>1, <2>2, <2>11 DEF SafeEdit
<1>2. CASE ~(at # NoPath /\ Writable(t, at))
  <2>1. WriteFile(t, raw).tree = t
    BY <1>2 DEF WriteFile, Refused
  <2>2. Changes(t, t, {})
    BY SameTree
  <2> QED BY <2>1, <2>2 DEF SafeEdit
<1> QED BY <1>1, <1>2

LEMMA DeleteFileSafe ==
  ASSUME NEW t, RootedTree(t), NEW raw, Parse(raw) \in Path
  PROVE  SafeEdit(t, DeleteFile(t, raw).tree)
<1> DEFINE at == Confine(t, raw, "delete")
<1>1. CASE at # NoPath /\ at \in DOMAIN t /\ t[at].kind = "file"
  <2>1. DeleteFile(t, raw).tree = Removed(t, at)
    BY <1>1 DEF DeleteFile
  <2>2. Reached(t, at)
    BY <1>1, ConfineReaches
  <2> HIDE DEF at
  <2>3. Editable(t, {at}, {})
    BY <1>1 DEF Editable
  <2>4. File("agent").kind = "file"
    BY DEF File
  <2>5. Removed(t, at) = Edited(t, {at}, {}, File("agent"))
    BY DEF Removed, Edited
  <2>6. Changes(t, Removed(t, at), {at})
    BY <2>3, <2>4, <2>5, EditedTree
  <2> QED BY <2>1, <2>2, <2>6 DEF SafeEdit
<1>2. CASE ~(at # NoPath /\ at \in DOMAIN t /\ t[at].kind = "file")
  <2>1. DeleteFile(t, raw).tree = t
    BY <1>2 DEF DeleteFile, Refused
  <2>2. Changes(t, t, {})
    BY SameTree
  <2> QED BY <2>1, <2>2 DEF SafeEdit
<1> QED BY <1>1, <1>2

(***************************************************************************)
(* The inductive invariant of the file tree.                               *)
(***************************************************************************)
TreeKept(t) == RootedTree(t) /\ \A p \in Links(t) : p \in Links(InitialTree) /\ t[p] = InitialTree[p]

OutsideKept(t) ==
  \A p \in DOMAIN t \cup DOMAIN InitialTree :
    ~IsInside(p) => p \in DOMAIN t /\ p \in DOMAIN InitialTree /\ t[p] = InitialTree[p]

\* Files the policy protects and the repository gives one name only.
Plainly == {rel \in Guarded : ~Aliased(rel)}
GuardedKept(t) ==
  \A rel \in Plainly :
    IF Root \o rel \in DOMAIN InitialTree THEN Root \o rel \in DOMAIN t /\ t[Root \o rel] = InitialTree[Root \o rel]
    ELSE Root \o rel \in DOMAIN t => t[Root \o rel] = Dir

\* The patch git works on was submitted; once git writes, every path the patch names was
\* permitted, unless the reverse enumeration failed.
Submitted(patch) == patch = {} \/ \E p \in Patches : patch = p.changes
Permitted(patch) ==
  \A c \in patch : \A rel \in {c.from, c.to} : rel # NoPath => rel \notin Guarded
PatchInv ==
  /\ Submitted(job.patch)
  /\ job.tool = "reverse" => job.affected = ForwardPaths(job.patch)
  /\ job.tool = "apply" /\ session.blind = FALSE => Permitted(job.patch)

\* What a command is not expected to do: the code confines the tools, not the programs of
\* the repository.
CommandsStayInside == \A p \in WorkFiles : IsInside(p)
CommandsSpareGuarded == \A p \in WorkFiles : \A rel \in Guarded : p # Root \o rel

LEMMA GuardedPaths == Guarded \subseteq Path
  BY TreeAssumption DEF Guarded, Path

LEMMA SameRelative ==
  ASSUME NEW a \in Path, NEW b \in Path, Root \o a = Root \o b
  PROVE  a = b
<1>1. \A s, x, y \in Seq(STRING) : s \o x = s \o y => x = y
  BY ConcatSimplifications
<1> QED BY <1>1, RootIsPath DEF Path

LEMMA ChangesKeepTree ==
  ASSUME NEW t, NEW u, NEW touched, TreeKept(t), Changes(t, u, touched)
  PROVE  TreeKept(u)
  BY DEF TreeKept, Changes

LEMMA ChangesKeepOutside ==
  ASSUME NEW t, NEW u, NEW touched, OutsideKept(t), Changes(t, u, touched),
         \A p \in touched : IsInside(p)
  PROVE  OutsideKept(u)
  BY DEF OutsideKept, Changes

LEMMA ChangesKeepGuarded ==
  ASSUME NEW t, NEW u, NEW touched, GuardedKept(t), Changes(t, u, touched),
         \A rel \in Plainly : Root \o rel \notin touched
  PROVE  GuardedKept(u)
<1> SUFFICES ASSUME NEW rel \in Plainly
             PROVE  IF Root \o rel \in DOMAIN InitialTree
                    THEN Root \o rel \in DOMAIN u /\ u[Root \o rel] = InitialTree[Root \o rel]
                    ELSE Root \o rel \in DOMAIN u => u[Root \o rel] = Dir
  BY DEF GuardedKept
<1> DEFINE p == Root \o rel
<1>1. p \notin touched
  OBVIOUS
<1>2. p \in DOMAIN t \cup DOMAIN u =>
        IF p \in DOMAIN t THEN p \in DOMAIN u /\ u[p] = t[p] ELSE u[p] = Dir
  BY <1>1 DEF Changes
<1>3. IF p \in DOMAIN InitialTree THEN p \in DOMAIN t /\ t[p] = InitialTree[p]
      ELSE p \in DOMAIN t => t[p] = Dir
  BY DEF GuardedKept
<1> HIDE DEF p
<1>4. IF p \in DOMAIN InitialTree THEN p \in DOMAIN u /\ u[p] = InitialTree[p]
      ELSE p \in DOMAIN u => u[p] = Dir
  BY <1>2, <1>3
<1> QED BY <1>4 DEF p

\* What a tool does is safe in every respect.
LEMMA SafeEditKeeps ==
  ASSUME NEW t, NEW u, TreeKept(t), SafeEdit(t, u)
  PROVE  /\ TreeKept(u)
         /\ OutsideKept(t) => OutsideKept(u)
         /\ GuardedKept(t) => GuardedKept(u)
<1>1. PICK touched : Changes(t, u, touched) /\ \A p \in touched : Reached(t, p)
  BY DEF SafeEdit
<1>2. \A p \in touched : IsInside(p)
  BY <1>1 DEF Reached
<1>3. ASSUME NEW rel \in Plainly, Root \o rel \in touched PROVE FALSE
  <2>1. Reached(t, Root \o rel)
    BY <1>1, <1>3
  <2>2. CASE \E r \in Path : r \notin Guarded /\ Root \o rel = Root \o r
    BY <1>3, <2>2, GuardedPaths, SameRelative DEF Plainly
  <2>3. CASE \E q \in Links(t) : IsPrefix(t[q].target, Root \o rel)
    BY <1>3, <2>3 DEF TreeKept, Aliased, Plainly
  <2> QED BY <2>1, <2>2, <2>3 DEF Reached
<1> QED BY <1>1, <1>2, <1>3, ChangesKeepTree, ChangesKeepOutside, ChangesKeepGuarded

(***************************************************************************)
(* Which steps change the tree, and how.                                   *)
(***************************************************************************)
LEMMA SafeToolSteps ==
  ASSUME TreeKept(tree),
         \/ \E tool \in {"write_file", "delete_file"}, raw \in RawPaths : CallEdit(tool, raw)
         \/ \E role, marker, reason : \E write, delete \in RawPaths :
              InvokeFake(role, marker, write, delete, reason)
  PROVE  \E mid : TreeKept(mid) /\ SafeEdit(tree, mid) /\ SafeEdit(mid, tree')
<1>1. \A raw \in RawPaths : Parse(raw) \in Path
  BY TreeAssumption DEF Path
<1>2. ASSUME NEW t, TreeKept(t), NEW u, SafeEdit(t, u) PROVE TreeKept(u) /\ RootedTree(u)
  BY <1>2, SafeEditKeeps DEF TreeKept
<1>3. ASSUME NEW t, TreeKept(t) PROVE SafeEdit(t, t)
  <2>1. Changes(t, t, {})
    BY <1>3, SameTree DEF TreeKept
  <2> QED BY <2>1 DEF SafeEdit
<1>4. ASSUME NEW raw \in RawPaths, NEW t, TreeKept(t)
      PROVE  SafeEdit(t, WriteFile(t, raw).tree) /\ SafeEdit(t, DeleteFile(t, raw).tree)
  BY <1>1, <1>4, WriteFileSafe, DeleteFileSafe DEF TreeKept
<1>5. ASSUME NEW tool \in {"write_file", "delete_file"}, NEW raw \in RawPaths, CallEdit(tool, raw)
      PROVE  SafeEdit(tree, tree')
  <2>1. tree' = EditCall(tree, tool, raw).tree
    BY <1>5 DEF CallEdit
  <2>2. EditCall(tree, tool, raw).tree
          \in {tree, WriteFile(tree, raw).tree, DeleteFile(tree, raw).tree}
    BY DEF EditCall, Refused
  <2> QED BY <1>3, <1>4, <2>1, <2>2
<1>6. ASSUME NEW role, NEW marker, NEW reason, NEW write \in RawPaths, NEW delete \in RawPaths,
             InvokeFake(role, marker, write, delete, reason)
      PROVE  \E mid : TreeKept(mid) /\ SafeEdit(tree, mid) /\ SafeEdit(mid, tree')
  <2> DEFINE after == WriteFile(tree, write).tree
  <2>1. SafeEdit(tree, after) /\ TreeKept(after)
    BY <1>2, <1>4
  <2>2. tree' \in {tree, after, DeleteFile(after, delete).tree}
    BY <1>6 DEF InvokeFake
  <2> HIDE DEF after
  <2>3. SafeEdit(after, after) /\ SafeEdit(after, DeleteFile(after, delete).tree)
    BY <1>3, <1>4, <2>1
  <2> QED BY <1>3, <2>1, <2>2, <2>3
<1> QED BY <1>2, <1>3, <1>5, <1>6

LEMMA CommandWritesChanges ==
  ASSUME TreeKept(tree), NEW path \in WorkFiles, CommandWrites(path)
  PROVE  Changes(tree, tree', {path})
<1>1. path \in Path /\ path # NoPath
  BY TreeAssumption DEF Path
<1>2. /\ \A d \in Parents(path) : d \in DOMAIN tree /\ tree[d] = Dir
      /\ path \in DOMAIN tree => tree[path].kind = "file"
      /\ tree' = [p \in DOMAIN tree \cup {path} |-> IF p = path THEN File("command") ELSE tree[p]]
  BY DEF CommandWrites
<1>3. Dir.kind = "dir" /\ File("command").kind = "file"
  BY DEF Dir, File
<1>4. path \notin Parents(path)
  BY <1>1, ParentsArePrefixes, LenProperties DEF Path
<1>5. Editable(tree, {}, {path})
  BY <1>1, <1>2, <1>3, <1>4 DEF Editable
<1>6. tree' = Edited(tree, {}, {path}, File("command"))
  BY <1>2 DEF Edited
<1> QED BY <1>3, <1>5, <1>6, EditedTree DEF TreeKept

LEMMA GitWritesChanges ==
  ASSUME TreeKept(tree), Submitted(job.patch), NEW part \in SUBSET job.patch, GitWrites(part)
  PROVE  \E touched :
           /\ Changes(tree, tree', touched)
           /\ \A p \in touched : \E c \in job.patch, rel \in Path :
                rel \in {c.from, c.to} /\ rel # NoPath /\ p = Root \o rel
<1> DEFINE gone == {Root \o c.from : c \in {x \in part : x.from # NoPath}}
           made == {Root \o c.to : c \in {x \in part : x.to # NoPath}}
<1>1. GitAccepts(tree, job.patch) /\ tree' = GitApplied(tree, part)
  BY DEF GitWrites
<1>2. \A c \in job.patch : c.from \in Path /\ c.to \in Path
  BY TreeAssumption DEF Submitted, Path
<1>3. Dir.kind = "dir" /\ File("agent").kind = "file"
  BY DEF Dir, File
<1>4. \A p \in gone : p \in DOMAIN tree /\ tree[p].kind = "file"
  BY <1>1 DEF GitAccepts, FilesOf
<1>5. ASSUME NEW c \in part, c.to # NoPath
      PROVE  LET m == Root \o c.to
             IN  /\ m \in Path /\ m # NoPath /\ (m \in DOMAIN tree => tree[m] # Dir)
                 /\ \A d \in Parents(m) : d \notin made /\ (d \in DOMAIN tree => tree[d] = Dir)
  <2> DEFINE m == Root \o c.to
  <2>1. m \in Path /\ m # NoPath
    BY <1>2, RootIsPath, Concat, ConcatEqualIffEmpty DEF Path, NoPath
  <2>2. m \in DOMAIN tree => tree[m] # Dir
    BY <1>1, <1>3, <1>5 DEF GitAccepts, FilesOf
  <2>3. ASSUME NEW d \in Parents(m) PROVE d \notin made
    <3>1. SUFFICES ASSUME NEW e \in part, e.to # NoPath, d = Root \o e.to PROVE FALSE
      OBVIOUS
    <3> QED BY <1>1, <2>3, <3>1 DEF GitAccepts
  <2>4. ASSUME NEW d \in Parents(m), d \in DOMAIN tree PROVE tree[d] = Dir
    BY <1>1, <1>5, <2>4 DEF GitAccepts
  <2> QED BY <2>1, <2>2, <2>3, <2>4
<1>6. Editable(tree, gone, made)
  BY <1>4, <1>5 DEF Editable
<1>7. tree' = Edited(tree, gone, made, File("agent"))
  <2>1. GitApplied(tree, part) =
          [p \in (DOMAIN tree \ gone) \cup (made \cup UNION {Parents(m) : m \in made}) |->
             IF p \in made THEN File("agent") ELSE IF p \in DOMAIN tree THEN tree[p] ELSE Dir]
    BY DEF GitApplied
  <2> HIDE DEF gone, made
  <2>2. (DOMAIN tree \ gone) \cup (made \cup UNION {Parents(m) : m \in made})
          = (DOMAIN tree \ gone) \cup made \cup UNION {Parents(m) : m \in made}
    OBVIOUS
  <2> QED BY <1>1, <2>1, <2>2 DEF Edited
<1>8. Changes(tree, tree', gone \cup made)
  <2> HIDE DEF gone, made
  <2> QED BY <1>3, <1>6, <1>7, EditedTree DEF TreeKept
<1>9. ASSUME NEW p \in gone \cup made
      PROVE  \E c \in job.patch, rel \in Path :
               rel \in {c.from, c.to} /\ rel # NoPath /\ p = Root \o rel
  BY <1>2, <1>9
<1> QED BY <1>8, <1>9

\* Every other step leaves the tree alone.
LEMMA TreeSteps ==
  ASSUME [Next]_vars, tree' # tree
  PROVE  \/ \E tool \in {"write_file", "delete_file"}, raw \in RawPaths : CallEdit(tool, raw)
         \/ \E role, marker, reason : \E write, delete \in RawPaths :
              InvokeFake(role, marker, write, delete, reason)
         \/ \E path \in WorkFiles : CommandWrites(path)
         \/ \E part \in SUBSET job.patch : GitWrites(part)
<1>1. ASSUME NEW tool, NEW patch, NEW affected, NEW starts, StartJob(tool, patch, affected, starts)
      PROVE  FALSE
  BY <1>1 DEF StartJob
<1>2. ASSUME Call PROVE \E tool \in {"write_file", "delete_file"}, raw \in RawPaths : CallEdit(tool, raw)
  BY <1>1, <1>2 DEF Call, CallLook, CallComplete, CallInspect, CallCommand, CallPatch
<1>3. ASSUME Invoke
      PROVE  \E role, marker, reason : \E write, delete \in RawPaths :
               InvokeFake(role, marker, write, delete, reason)
  <2>1. ~(\E role \in Roles, model \in BOOLEAN : InvokeLocal(role, model))
    BY DEF InvokeLocal
  <2>2. ~(\E role \in Roles, kind \in ExternalKinds, available \in BOOLEAN :
            \E offered \in {{}, RequiredOptions(kind)} : InvokeExternal(role, kind, available, offered))
    BY DEF InvokeExternal
  <2> QED BY <1>3, <2>1, <2>2 DEF Invoke
<1>4. ~JobEnds
  BY <1>1 DEF JobEnds
<1>5. ~(BeginTurn \/ DeadlinePasses \/ NodeTimeout \/ UNCHANGED vars \/ Around)
  BY DEF BeginTurn, DeadlinePasses, NodeTimeout, vars, Around
<1>6. ~(\E calls \in 0..CallsPerTurn, broken \in BOOLEAN : Answer(calls, broken))
      /\ ~(\E response \in BOOLEAN : ExternalEnds(response))
  BY DEF Answer, ExternalEnds
<1> QED BY <1>2, <1>3, <1>4, <1>5, <1>6 DEF Next

\* An enumeration that was cut short is not forgotten within the invocation.
LEMMA StaysBlind ==
  ASSUME SessionInv, [Next]_vars, session'.blind = FALSE
  PROVE  session.blind = FALSE
<1>1. session \in SessionType /\ (session.pc = "idle" => session.blind = FALSE)
  BY DEF SessionInv, PhaseInv, Phased, NoSession
<1>2. SUFFICES ASSUME session.pc # "idle" PROVE session'.blind = FALSE => session.blind = FALSE
  BY <1>1
<1>3. /\ \A r : Returned(session, r).blind = session.blind
      /\ Failed(session).blind = session.blind
      /\ TurnStart(session).blind = session.blind
      /\ \A c : NextCall(session, c).blind = session.blind
  BY <1>1 DEF Returned, Failed, TurnStart, NextCall, SessionType
<1>4. ASSUME NEW tool, NEW patch, NEW affected, NEW starts, StartJob(tool, patch, affected, starts)
      PROVE  session'.blind = session.blind
  BY <1>1, <1>3, <1>4 DEF StartJob, SessionType
<1>5. CASE Call
  BY <1>3, <1>4, <1>5 DEF Call, CallEdit, CallLook, CallComplete, CallInspect, CallCommand, CallPatch
<1>6. CASE JobEnds
  <2> DEFINE ok == Succeeded(proc.exit)
  <2>1. \/ session'.blind = session.blind
        \/ session' = [session EXCEPT !.blind = session.blind \/ ~ok]
    BY <1>3, <1>4, <1>6 DEF JobEnds
  <2> HIDE DEF ok
  <2> QED BY <1>1, <2>1 DEF SessionType
<1>7. CASE BeginTurn \/ DeadlinePasses \/ NodeTimeout
  BY <1>1, <1>3, <1>7 DEF BeginTurn, DeadlinePasses, NodeTimeout, SessionType
<1>8. ASSUME NEW calls \in 0..CallsPerTurn, NEW broken \in BOOLEAN, Answer(calls, broken)
      PROVE  session'.blind = session.blind
  BY <1>1, <1>3, <1>8 DEF Answer, SessionType
<1>9. ASSUME NEW response \in BOOLEAN, ExternalEnds(response)
      PROVE  session'.blind = session.blind
  BY <1>3, <1>9 DEF ExternalEnds, ExternalEnd
<1>10. CASE UNCHANGED session
  BY <1>10
<1>11. ~Invoke
  BY <1>2 DEF Invoke, InvokeLocal, InvokeExternal, InvokeFake
<1> QED
  BY <1>5, <1>6, <1>7, <1>8, <1>9, <1>10, <1>11
     DEF Next, vars, CommandWrites, GitWrites, Around

LEMMA PatchInvStep ==
  ASSUME SessionInv, PatchInv, [Next]_vars
  PROVE  PatchInv'
<1>1. NoJob.patch = {} /\ NoJob.tool = "none"
  BY DEF NoJob
<1>2. ASSUME NEW tool, tool # "apply", NEW patch, Submitted(patch), NEW affected, NEW starts,
             tool = "reverse" => affected = ForwardPaths(patch),
             StartJob(tool, patch, affected, starts)
      PROVE  PatchInv'
  <2>1. job' = [tool |-> tool, patch |-> patch, affected |-> affected, applied |-> FALSE]
    BY <1>2 DEF StartJob
  <2>2. job'.tool = tool /\ job'.patch = patch /\ job'.affected = affected
    BY <2>1
  <2> QED BY <1>2, <2>2 DEF PatchInv
<1>3. ASSUME job' = job PROVE PatchInv'
  BY <1>3, StaysBlind DEF PatchInv
<1>4. Submitted({})
  BY DEF Submitted
<1>5. CASE Call
  <2>1. ASSUME NEW starts, CallInspect(starts) PROVE PatchInv'
    BY <1>2, <1>4, <2>1 DEF CallInspect
  <2>2. ASSUME NEW id, NEW starts, CallCommand(id, starts) PROVE PatchInv'
    <3>1. job' = job \/ \E go : StartJob("command", {}, {}, go)
      BY <2>2 DEF CallCommand
    <3> QED BY <1>2, <1>3, <1>4, <3>1
  <2>3. ASSUME NEW patch \in Patches, CallPatch(patch) PROVE PatchInv'
    <3>1. job' = job \/ StartJob("forward", patch.changes, {}, TRUE)
      BY <2>3 DEF CallPatch
    <3>2. Submitted(patch.changes)
      BY DEF Submitted
    <3> QED BY <1>2, <1>3, <3>1, <3>2
  <2> QED BY <1>3, <1>5, <2>1, <2>2, <2>3 DEF Call, CallEdit, CallLook, CallComplete
<1>6. CASE JobEnds
  <2> DEFINE ok       == Succeeded(proc.exit)
             affected == job.affected \cup (IF ok THEN ReversePaths(job.patch) ELSE {})
             confined == \A rel \in affected : Confine(tree, Plain(rel), "write") # NoPath
  <2>1. CASE job.tool = "forward" /\ ok
    <3>1. StartJob("reverse", job.patch, ForwardPaths(job.patch), TRUE)
      BY <1>6, <2>1 DEF JobEnds
    <3> QED BY <1>2, <3>1 DEF PatchInv
  <2>2. CASE job.tool = "reverse" /\ affected # {} /\ confined
    <3>1. /\ job' = [job EXCEPT !.tool = "apply", !.affected = affected]
          /\ session' = [session EXCEPT !.blind = session.blind \/ ~ok]
      BY <1>6, <2>2 DEF JobEnds
    <3>2. job'.patch = job.patch /\ job'.tool = "apply"
      <4> HIDE DEF affected
      <4>1. job = [tool |-> job.tool, patch |-> job.patch, affected |-> job.affected,
                   applied |-> job.applied]
        BY DEF SessionInv, JobInv
      <4> QED BY <3>1, <4>1
    <3>3. ASSUME session'.blind = FALSE PROVE ok
      <4> HIDE DEF ok
      <4>1. session \in SessionType
        BY DEF SessionInv, PhaseInv, Phased
      <4> QED BY <3>1, <3>3, <4>1 DEF SessionType
    <3>4. ASSUME ok PROVE Permitted(job.patch)
      <4>1. affected = ForwardPaths(job.patch) \cup ReversePaths(job.patch)
        BY <2>2, <3>4 DEF PatchInv
      <4>2. ASSUME NEW c \in job.patch, NEW rel \in {c.from, c.to}, rel # NoPath
            PROVE  rel \notin Guarded
        <5>1. rel \in affected
          BY <4>1, <4>2 DEF ForwardPaths, ReversePaths
        <5>2. Confine(tree, Plain(rel), "write") # NoPath
          BY <2>2, <5>1
        <5>3. Parse(Plain(rel)) # NoPath /\ Permits(Parse(Plain(rel)), "write")
          BY <5>2 DEF Confine
        <5>4. Parse(Plain(rel)) \in {NoPath, rel}
          BY <4>2, TreeAssumption DEF PatchInv, Submitted
        <5> QED BY <5>3, <5>4, PermitsFree
      <4> QED BY <4>2 DEF Permitted
    <3> QED BY <3>2, <3>3, <3>4 DEF PatchInv
  <2>3. CASE ~(job.tool = "forward" /\ ok) /\ ~(job.tool = "reverse" /\ affected # {} /\ confined)
    <3>1. job' = NoJob
      BY <1>6, <2>3 DEF JobEnds, Idle
    <3> QED BY <1>1, <1>4, <3>1 DEF PatchInv
  <2> QED BY <2>1, <2>2, <2>3
<1>7. CASE \E response \in BOOLEAN : ExternalEnds(response)
  BY <1>1, <1>4, <1>7 DEF ExternalEnds, Idle, PatchInv
<1>8. CASE Invoke
  <2>1. job' = job \/ job' = [NoJob EXCEPT !.tool = "agent"]
    BY <1>8 DEF Invoke, InvokeLocal, InvokeExternal, InvokeFake
  <2>2. [NoJob EXCEPT !.tool = "agent"].patch = {} /\ [NoJob EXCEPT !.tool = "agent"].tool = "agent"
    BY DEF NoJob
  <2> QED BY <1>3, <1>4, <2>1, <2>2 DEF PatchInv
<1>9. ASSUME NEW part \in SUBSET job.patch, GitWrites(part) PROVE PatchInv'
  <2>1. job = [tool |-> job.tool, patch |-> job.patch, affected |-> job.affected,
               applied |-> job.applied]
    BY DEF SessionInv, JobInv
  <2>2. job'.tool = job.tool /\ job'.patch = job.patch /\ job'.affected = job.affected
        /\ session' = session
    BY <1>9, <2>1 DEF GitWrites
  <2> QED BY <2>2 DEF PatchInv
<1> QED
  BY <1>3, <1>5, <1>6, <1>7, <1>8, <1>9
     DEF Next, vars, BeginTurn, DeadlinePasses, NodeTimeout, Answer, CommandWrites, Around

(***************************************************************************)
(* The theorems of the file tree.                                          *)
(***************************************************************************)
TreeInv == SessionInv /\ PatchInv /\ TreeKept(tree)

LEMMA TreeInitial ==
  ASSUME Init
  PROVE  TreeInv /\ OutsideKept(tree) /\ GuardedKept(tree)
<1>1. tree = InitialTree /\ job = NoJob
  BY DEF Init
<1>2. PatchInv
  BY <1>1 DEF PatchInv, NoJob, Submitted
<1>3. TreeKept(tree)
  BY <1>1, TreeAssumption, SessionAssumption DEF TreeKept, RootedTree
<1>4. OutsideKept(tree) /\ GuardedKept(tree)
  BY <1>1 DEF OutsideKept, GuardedKept
<1> QED BY <1>2, <1>3, <1>4, SessionInitial DEF TreeInv

LEMMA TreeInvStep ==
  ASSUME TreeInv, [Next]_vars
  PROVE  TreeInv'
<1>1. SessionInv' /\ PatchInv'
  BY SessionStep, PatchInvStep DEF TreeInv
<1>2. TreeKept(tree)'
  <2>1. CASE tree' = tree
    BY <2>1 DEF TreeInv
  <2>2. CASE tree' # tree
    BY <2>2, TreeSteps, SafeToolSteps, SafeEditKeeps, CommandWritesChanges, GitWritesChanges,
       ChangesKeepTree DEF TreeInv, PatchInv
  <2> QED BY <2>1, <2>2
<1> QED BY <1>1, <1>2 DEF TreeInv

\* Whatever the agent's tools, git and commands do, the file tree stays one: links only
\* disappear, and only directories have entries (write_atomic, apply_patch).
THEOREM TreeInvariant == Spec => []TreeInv
<1>1. Init => TreeInv
  BY TreeInitial
<1>2. TreeInv /\ [Next]_vars => TreeInv'
  BY TreeInvStep
<1> QED BY <1>1, <1>2, PTL DEF Spec

\* Invocation, command and file tree are always well formed.
THEOREM AgentTypes == Spec => []AgentTypeOK
<1>1. ASSUME TreeInv PROVE AgentTypeOK
  <2>1. Phased(session) /\ ProcessInv /\ TreeKept(tree)
    BY <1>1 DEF TreeInv, SessionInv, PhaseInv
  <2>2. /\ signal \in [value : BOOLEAN, sender : BOOLEAN]
        /\ proc.pc \in {"none", "running", "stopping", "unlimited", "draining", "ended", "dropped"}
        /\ proc.exit \in Exit
    BY <2>1 DEF ProcessInv, ProcType, ProcPcs
  <2>3. /\ session.pc \in {"idle", "turn", "asking", "calling", "waiting", "over"}
        /\ session.pc # "idle" => session.role \in Roles
        /\ session.turn \in Nat /\ session.ordinal \in Nat
        /\ session.pc = "over" <=> session.result # "none"
    BY <2>1 DEF Phased, SessionType, SessionPcs
  <2>4. ASSUME NEW p \in DOMAIN tree, Len(p) > 1 PROVE SubSeq(p, 1, Len(p) - 1) \in DOMAIN tree
    <3>1. p \in Path
      BY <2>1 DEF TreeKept, RootedTree, IsTree, Path
    <3>2. Len(p) - 1 \in 1..Len(p) - 1
      BY <2>4, <3>1, LenProperties DEF Path
    <3>3. SubSeq(p, 1, Len(p) - 1) \in Parents(p)
      BY <3>2 DEF Parents
    <3> QED BY <2>1, <3>3 DEF TreeKept, RootedTree, IsTree
  <2> QED BY <2>2, <2>3, <2>4 DEF AgentTypeOK
<1> QED BY <1>1, TreeInvariant, PTL

\* No tool reaches a file outside the worktree, for every tree of links: provided that the
\* programs the repository configures write inside, nothing outside ever changes.
THEOREM NothingEscapes ==
  ASSUME CommandsStayInside
  PROVE  Spec => []OutsideUntouched
<1>1. Init => TreeInv /\ OutsideKept(tree)
  BY TreeInitial
<1>2. ASSUME TreeInv, OutsideKept(tree), [Next]_vars PROVE OutsideKept(tree)'
  <2>1. CASE tree' = tree
    BY <1>2, <2>1
  <2>2. ASSUME NEW path \in WorkFiles, CommandWrites(path) PROVE OutsideKept(tree)'
    <3>1. Changes(tree, tree', {path})
      BY <1>2, <2>2, CommandWritesChanges DEF TreeInv
    <3>2. \A p \in {path} : IsInside(p)
      BY <2>2 DEF CommandsStayInside
    <3>3. OutsideKept(tree')
      BY <1>2, <3>1, <3>2, ChangesKeepOutside
    <3> QED BY <3>3 DEF OutsideKept
  <2>3. ASSUME NEW part \in SUBSET job.patch, GitWrites(part) PROVE OutsideKept(tree)'
    <3>1. PICK touched :
           /\ Changes(tree, tree', touched)
           /\ \A p \in touched : \E c \in job.patch, rel \in Path :
                rel \in {c.from, c.to} /\ rel # NoPath /\ p = Root \o rel
      BY <1>2, <2>3, GitWritesChanges DEF TreeInv, PatchInv
    <3>2. \A rel \in Path : IsInside(Root \o rel)
      BY RootIsPath, Concat DEF IsInside
    <3>3. OutsideKept(tree')
      <4>1. \A p \in touched : IsInside(p)
        BY <3>1, <3>2
      <4> QED BY <1>2, <3>1, <4>1, ChangesKeepOutside
    <3> QED BY <3>3 DEF OutsideKept
  <2> QED BY <1>2, <2>1, <2>2, <2>3, TreeSteps, SafeToolSteps, SafeEditKeeps DEF TreeInv
<1>3. OutsideKept(tree) => OutsideUntouched
  BY DEF OutsideKept, OutsideUntouched
<1>4. TreeInv /\ OutsideKept(tree) /\ [Next]_vars => (TreeInv /\ OutsideKept(tree))'
  BY <1>2, TreeInvStep
<1> QED BY <1>1, <1>3, <1>4, PTL DEF Spec

\* No tool and no patch changes a protected or sensitive file, or makes one, unless a link of
\* the repository leads to it or a reverse enumeration failed; the programs of the repository
\* are assumed to leave such files alone.
THEOREM ProtectedFilesStay ==
  ASSUME CommandsSpareGuarded
  PROVE  Spec => []ProtectedKept
<1> DEFINE Inv == TreeInv /\ (session.blind = FALSE => GuardedKept(tree))
<1>1. Init => Inv
  BY TreeInitial
<1>2. ASSUME TreeInv, GuardedKept(tree), session.blind = FALSE, [Next]_vars
      PROVE  GuardedKept(tree)'
  <2>1. CASE tree' = tree
    BY <1>2, <2>1
  <2>2. ASSUME NEW path \in WorkFiles, CommandWrites(path) PROVE GuardedKept(tree)'
    <3>1. Changes(tree, tree', {path})
      BY <1>2, <2>2, CommandWritesChanges DEF TreeInv
    <3>2. \A rel \in Plainly : Root \o rel \notin {path}
      BY <2>2 DEF CommandsSpareGuarded, Plainly
    <3>3. GuardedKept(tree')
      BY <1>2, <3>1, <3>2, ChangesKeepGuarded
    <3> QED BY <3>3 DEF GuardedKept
  <2>3. ASSUME NEW part \in SUBSET job.patch, GitWrites(part) PROVE GuardedKept(tree)'
    <3>1. PICK touched :
           /\ Changes(tree, tree', touched)
           /\ \A p \in touched : \E c \in job.patch, rel \in Path :
                rel \in {c.from, c.to} /\ rel # NoPath /\ p = Root \o rel
      BY <1>2, <2>3, GitWritesChanges DEF TreeInv, PatchInv
    <3>2. Permitted(job.patch)
      BY <1>2, <2>3 DEF TreeInv, PatchInv, GitWrites
    <3>3. ASSUME NEW g \in Plainly, Root \o g \in touched PROVE FALSE
      <4>1. PICK c \in job.patch, rel \in Path :
              rel \in {c.from, c.to} /\ rel # NoPath /\ Root \o g = Root \o rel
        BY <3>1, <3>3
      <4>2. g = rel
        BY <3>3, <4>1, GuardedPaths, SameRelative DEF Plainly
      <4> QED BY <3>2, <3>3, <4>1, <4>2 DEF Permitted, Plainly
    <3> QED BY <1>2, <3>1, <3>3, ChangesKeepGuarded
  <2> QED BY <1>2, <2>1, <2>2, <2>3, TreeSteps, SafeToolSteps, SafeEditKeeps DEF TreeInv
<1>3. Inv /\ [Next]_vars => Inv'
  BY <1>2, TreeInvStep, StaysBlind DEF TreeInv
<1>4. Inv => ProtectedKept
  <2>1. GuardedKept(tree) => ProtectedKept
    BY DEF GuardedKept, ProtectedKept, Kept, Plainly
  <2>2. session \in SessionType => session.blind \in BOOLEAN
    BY DEF SessionType
  <2>3. TreeInv => session \in SessionType
    BY DEF TreeInv, SessionInv, PhaseInv, Phased
  <2>4. session.blind = TRUE => ProtectedKept
    BY DEF ProtectedKept
  <2> QED BY <2>1, <2>2, <2>3, <2>4
<1> QED BY <1>1, <1>3, <1>4, PTL DEF Spec
=============================================================================
