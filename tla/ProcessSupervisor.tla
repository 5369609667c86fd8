--------------------------- MODULE ProcessSupervisor ---------------------------
(***************************************************************************)
(* One command under supervision: its process, the descendants in its      *)
(* process group, those that left it and those that also closed the pipes, *)
(* and the three ends that race, the exit of the process, its time limit   *)
(* and the cancellation of the run (crates/infrastructure/src/process/     *)
(* supervisor.rs and tree.rs, Unix).                                       *)
(* Time is not counted: a timer may fire at any moment.                    *)
(***************************************************************************)
EXTENDS Naturals

VARIABLES
  signal,   \* the watch channel of the run: what was sent, and is the sender alive?
  proc      \* the supervised command

\* ProcessOutcome: how the command ended and whether its exit code was zero.
Exit == [why : {"exit", "timeout", "cancel"}, ok : BOOLEAN]
Succeeded(exit) == exit.why = "exit" /\ exit.ok

NoProcess == [pc |-> "none", leader |-> FALSE, group |-> FALSE, left |-> FALSE,
              detached |-> FALSE, exit |-> [why |-> "exit", ok |-> FALSE]]

SupervisorInit == signal = [value |-> FALSE, sender |-> TRUE] /\ proc = NoProcess

Spawned(p) == [p EXCEPT !.pc = "running", !.leader = TRUE, !.exit = NoProcess.exit]

Supervised == proc.pc \in {"running", "stopping", "unlimited"}

(***************************************************************************)
(* What the command does.                                                  *)
(***************************************************************************)
\* It starts a descendant, in its group or, by a session of its own, outside.  Bound: one
\* descendant is alive at a time.
Fork ==
  /\ proc.leader /\ ~proc.group /\ ~proc.left /\ ~proc.detached
  /\ \/ proc' = [proc EXCEPT !.group = TRUE]
     \/ proc' = [proc EXCEPT !.left = TRUE]
  /\ UNCHANGED signal

\* A descendant in a session of its own closes its output: nothing ties it to the command.
Detach ==
  /\ proc.left
  /\ proc' = [proc EXCEPT !.left = FALSE, !.detached = TRUE]
  /\ UNCHANGED signal

LeaderExits(ok) ==
  /\ proc.leader
  /\ proc' = [proc EXCEPT !.leader = FALSE, !.exit.ok = ok]
  /\ UNCHANGED signal

DescendantExits ==
  /\ \/ proc.group /\ proc' = [proc EXCEPT !.group = FALSE]
     \/ proc.left /\ proc' = [proc EXCEPT !.left = FALSE]
     \/ proc.detached /\ proc' = [proc EXCEPT !.detached = FALSE]
  /\ UNCHANGED signal

(***************************************************************************)
(* What the supervisor does: select!, terminate, terminate_group, and the  *)
(* two tasks that read until the pipes are closed.                         *)
(***************************************************************************)
\* The rest of run once the process is known to be dead: the group gets SIGKILL.
\* Mutant: only the process itself is killed.
SparesGroup(p) == [p EXCEPT !.pc = "draining", !.leader = FALSE]
Collected(p) == [p EXCEPT !.pc = "draining", !.leader = FALSE, !.group = FALSE]

Reap ==
  /\ Supervised /\ ~proc.leader
  /\ proc' = Collected(proc)
  /\ UNCHANGED signal

\* The sleep of the select!; the group is asked to stop.
TimeLimit ==
  /\ proc.pc = "running"
  /\ proc' = [proc EXCEPT !.pc = "stopping", !.exit.why = "timeout"]
  /\ UNCHANGED signal

\* changed() of the watch channel: an unseen value, or an error once the sender is gone.
\* In the second case the process is awaited without its time limit.
SignalSeen ==
  /\ proc.pc = "running"
  /\ signal.value \/ ~signal.sender
  /\ proc' = IF signal.value THEN [proc EXCEPT !.pc = "stopping", !.exit.why = "cancel"]
             ELSE [proc EXCEPT !.pc = "unlimited"]
  /\ UNCHANGED signal

\* The graceful period is over.
Escalate ==
  /\ proc.pc = "stopping" /\ proc.leader
  /\ proc' = Collected([proc EXCEPT !.exit.ok = FALSE])
  /\ UNCHANGED signal

\* Both pipes are closed: nobody holds their other end.  A detached descendant is not
\* waited for.
Drained ==
  /\ proc.pc = "draining" /\ ~proc.left
  /\ proc' = [proc EXCEPT !.pc = "ended"]
  /\ UNCHANGED signal

\* The future that supervises the command is dropped: kill_on_drop kills the process.
Dropped(p) == [p EXCEPT !.pc = "dropped", !.leader = FALSE]

(***************************************************************************)
(* The channel: cancel sends on it; a dispatch of the same run replaces its*)
(* sender in the map of the service, and the old one is dropped.           *)
(***************************************************************************)
SendCancel ==
  /\ signal.sender /\ ~signal.value
  /\ signal' = [signal EXCEPT !.value = TRUE]
  /\ UNCHANGED proc

ReplaceSender ==
  /\ signal.sender
  /\ signal' = [signal EXCEPT !.sender = FALSE]
  /\ UNCHANGED proc

SuperviseStep == Reap \/ TimeLimit \/ SignalSeen \/ Escalate \/ Drained
CommandStep == Fork \/ (\E ok \in BOOLEAN : LeaderExits(ok)) \/ DescendantExits
ChannelStep == SendCancel \/ ReplaceSender
=============================================================================
