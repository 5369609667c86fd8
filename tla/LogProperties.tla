---------------------------- MODULE LogProperties ----------------------------
(***************************************************************************)
(* What the event log and its stream must guarantee.                       *)
(***************************************************************************)
EXTENDS EventStream

\* The file, the sessions and the caches are well formed, and the process in a locked
\* section is the one that holds the run's lock (RunLease).
LogTypeOK ==
  /\ \A i \in 1..Len(lines) : lines[i] \in Event \cup {Junk}
  /\ \A i \in 1..Len(rest) : rest[i] \in Event \cup {Junk}
  /\ lock \in Procs \cup {Nobody}
  /\ acked \subseteq Event /\ mishaps \subseteq Mishaps
  /\ \A p \in Procs :
       /\ session[p].pc \in {"idle", "opened", "ready", "sealed", "written", "appended", "failed"}
       /\ load[p].pc \in {"idle", "check", "cut", "done"}
       /\ session[p].pc # "idle" <=> lock = p
       /\ prefix[p].off \in Nat

\* The log implements the append-only history until it is harmed (see Mishaps): whatever
\* two processes, restarts, failed writes and truncations of unfinished lines do, the
\* complete records only grow at the end, each numbered and linked to its predecessor
\* (EventLogFile::append and load).
Abstract == INSTANCE AppendOnlyLog WITH history <- Committed, intact <- Unharmed
Implements == Abstract!LogSpec

\* A record whose append has returned is lost in two ways only: a load that does not hold
\* the run's lock truncated the file under an append, or a line was written behind the
\* rest of a failed one.  No kill, no cached tail and no truncation by the holder of the
\* lock loses one (append_line_synchronised against truncate_partial_tail).
AcknowledgedSurvive ==
  mishaps \cap {"cut", "joined"} = {} => \A e \in acked : \E i \in 1..Len(lines) : lines[i] = e

\* What a process has verified once and serves from memory is a prefix of an unharmed
\* file, also after another process has appended, was killed or has cut an unfinished
\* line (the cache of load).
CachesAgree ==
  Unharmed =>
    \A p \in Procs : /\ Len(prefix[p].events) <= Len(Committed)
                     /\ SubSeq(Committed, 1, Len(prefix[p].events)) = prefix[p].events

\* A dispatch or a request that fails on the log does so because a write has failed, or
\* because a load without the lock cut under an append, or because a server appended
\* behind a stale tail: otherwise the chain verifies, the stored projection is never
\* ahead of it or beside it, and a record is accepted by the projection it is appended
\* behind (recover, append_locked).
OnlyFaultsFail ==
  mishaps \cap {"cut", "stale"} = {} =>
    \A p \in Procs : session[p].pc = "failed" => spent.faults > 0

\* On an unharmed log, a browser that was told of no lag and whose replay was not cut at
\* the page limit has got every event the server has published, or still has it in its
\* queue: nothing falls between the replay and the subscription (stream_events).
NothingMissedUnnoticed ==
  Unharmed =>
    \A c \in Clients :
      client[c].pc = "live" /\ ~client[c].told /\ ~client[c].full =>
        \A i \in 1..Len(channel) :
          channel[i].seq > After => channel[i].seq \in client[c].got \/ i >= client[c].next

(***************************************************************************)
(* Statements of the documents that the code does not live up to.          *)
(***************************************************************************)
\* docs/architecture/event-protocol.md: "appending continues from the last verified
\* sequence".  A server seals the record of a request behind the tail it has cached.
AppendContinues ==
  [][ Unharmed => \A p \in Procs : (session[p].pc # "written" /\ session'[p].pc = "written") =>
        session'[p].event.seq = Len(Committed) + 1 ]_vars

\* docs/architecture/event-protocol.md: "the log is truncated back to the last complete
\* record".  A load without the lock takes the record that is being written for a partial
\* one, and the append returns Ok for a record that is not in the file.
OnlyPartialRecordsAreCut ==
  mishaps \subseteq {"cut"} => \A e \in acked : \E i \in 1..Len(lines) : lines[i] = e

\* docs/architecture/event-protocol.md: "An append is a single line followed by a newline".
\* A dispatch whose other tasks go on after a failed write appends to the line it left.
AppendsAreLines ==
  [][ Unharmed => \A p \in Procs : (session[p].pc # "written" /\ session'[p].pc = "written") =>
        Len(rest') = 1 ]_vars
=============================================================================
