------------------------------- MODULE EventLog -------------------------------
(***************************************************************************)
(* The durable event log of a run, events.jsonl, shared by the processes   *)
(* that work on the run: crates/infrastructure/src/store/event_log.rs with *)
(* the helpers of atomic.rs, the seal and the verification of a record     *)
(* (domain/src/event.rs), the run's lock (store/locks.rs), the stored      *)
(* projection, and the order in which recovery, the dispatcher and the run *)
(* service call them.                                                      *)
(*                                                                         *)
(* A process keeps one EventLogFile per run: the tail it appends after and *)
(* the prefix it has verified.  Records have one length, so the offset of  *)
(* the verified prefix is counted in lines.  The chain hash of a record is *)
(* its id: hashes differ where records do.                                 *)
(***************************************************************************)
EXTENDS Naturals, Sequences, FiniteSets

CONSTANTS
  Procs,        \* processes that work on the run
  Servers,      \* those that live on between two sessions (the control room)
  MaxAppends,   \* bound: records that are appended
  MaxCrashes,   \* bound: processes that are killed
  MaxFaults     \* bound: writes that fail half way

Nobody == "nobody"

ASSUME LogAssumption ==
  /\ Nobody \notin Procs /\ Servers \subseteq Procs
  /\ MaxAppends \in Nat /\ MaxCrashes \in Nat /\ MaxFaults \in Nat

VARIABLES
  lines,     \* the terminated lines of events.jsonl
  rest,      \* what follows the last newline: the pieces of an unfinished line
  stored,    \* last_event_sequence and last_event_hash of state.json
  lock,      \* the process that holds locks/dispatcher.lock
  session,   \* the locked section of each process
  tail,      \* EventLogFile.tail of each process
  prefix,    \* EventLogFile.prefix of each process
  load,      \* the load that holds the prefix mutex of each process
  acked,     \* the records whose append returned Ok
  mishaps,   \* which of the ways to harm the log have occurred; no variable of the code
  spent      \* what was used of the bounds

logVars ==
  << lines, rest, stored, lock, session, tail, prefix, load, acked, mishaps, spent >>

\* The steps with which the code harms its own log.  "cut": a load without the run's lock
\* truncates the file while a record is being written or after a line was added.
\* "joined": a dispatch that goes on after a failed write puts the next line behind the
\* rest of the failed one.  "stale": a server seals the record of a request behind the
\* tail it has cached, which is not the end of the log any more.
Mishaps == {"cut", "joined", "stale"}
Happen(kinds) == mishaps' = mishaps \cup kinds
Unharmed == mishaps = {}

Event == [seq : 1..MaxAppends, id : 1..MaxAppends, prev : 0..MaxAppends]
\* A line that cannot be decoded.
Junk == [seq |-> 0, id |-> 0, prev |-> 0]
IsEvent(line) == line # Junk

\* ChainTail: the number and the hash of a last record.  Genesis is the default.
Genesis == [seq |-> 0, id |-> 0]
Unknown == [seq |-> MaxAppends + 1, id |-> 0]
TailOf(events) ==
  IF events = << >> THEN Genesis
  ELSE [seq |-> events[Len(events)].seq, id |-> events[Len(events)].id]

\* DurableEvent::seal and the checks of DurableEvent::verify that depend on the
\* position of the record.
Seal(t, id) == [seq |-> t.seq + 1, id |-> id, prev |-> t.id]
Verifies(e, t) == e.seq = t.seq + 1 /\ e.prev = t.id

EmptyPrefix == [events |-> << >>, off |-> 0]
NoLoad == [pc |-> "idle", why |-> "read", found |-> EmptyPrefix, seen |-> << >>, cut |-> 0]
NoSession == [pc |-> "idle", kind |-> "none", at |-> Genesis, base |-> Genesis, event |-> Junk]

LogInit ==
  /\ lines = << >> /\ rest = << >>
  /\ stored = Genesis
  /\ lock = Nobody
  /\ session = [p \in Procs |-> NoSession]
  /\ tail = [p \in Procs |-> Unknown]
  /\ prefix = [p \in Procs |-> EmptyPrefix]
  /\ load = [p \in Procs |-> NoLoad]
  /\ acked = {}
  /\ mishaps = {}
  /\ spent = [appends |-> 0, crashes |-> 0, faults |-> 0]

(***************************************************************************)
(* Reading.                                                                *)
(***************************************************************************)
\* A file that has shrunk discards the verified prefix.
Known(p) == IF Len(lines) < prefix[p].off THEN EmptyPrefix ELSE prefix[p]

\* Lines that cannot be decoded are skipped (and copied to the quarantine file).  This is
\* SelectSeq(s, IsEvent), written out because the proofs expand it.
Records(s) ==
  LET kept[i \in 0..Len(s)] ==
        IF i = 0 THEN << >>
        ELSE IF IsEvent(s[i]) THEN Append(kept[i - 1], s[i]) ELSE kept[i - 1]
  IN  kept[Len(s)]

\* The records behind the verified prefix.
NewEvents(p) == Records(SubSeq(lines, Known(p).off + 1, Len(lines)))

\* Every one of them continues the chain.
ChainHolds(p) ==
  LET known == Known(p).events
      new   == NewEvents(p)
  IN  \A i \in 1..Len(new) :
        Verifies(new[i], IF i = 1 THEN TailOf(known)
                         ELSE [seq |-> new[i - 1].seq, id |-> new[i - 1].id])

\* Mutant: a last line without its newline is taken for a record.
AcceptsUnterminated(p) ==
  [events |-> Known(p).events \o NewEvents(p) \o Records(rest),
   off |-> Known(p).off + Len(NewEvents(p))]
\* The prefix a successful load leaves.  Only the bytes of the records that verified
\* are counted, not those of the lines that were skipped.
Loaded(p) ==
  [events |-> Known(p).events \o NewEvents(p), off |-> Known(p).off + Len(NewEvents(p))]

\* Between the two writes of append_line_synchronised.
Writing(p) == session[p].pc = "written"
\* The history the file stands for.
Committed == Records(lines)

\* replay_from: the events behind the stored projection continue it.
Replays(events) ==
  \/ stored.seq = 0 \/ stored.seq >= Len(events)
  \/ events[stored.seq].id = stored.id

\* Mutant: verify keeps the tail it has.
KeepsTail(p, why, events) ==
  LET last == TailOf(events)
      ok   == Replays(events) /\ (why = "verify" => stored.seq <= last.seq)
  IN  /\ tail' = [tail EXCEPT ![p] = IF why = "verify" /\ @ = Unknown THEN last ELSE @]
      /\ session' = [session EXCEPT ![p] =
           CASE why = "read" -> @
             [] why = "seal" -> [@ EXCEPT !.pc = "sealed", !.base = last]
             [] OTHER -> [@ EXCEPT !.pc = IF ok THEN "ready" ELSE "failed",
                                   !.at = IF stored.seq < last.seq THEN last ELSE stored]]
\* What the caller of load does with the events it read: verify sets the tail; recover
\* and append_locked go on with the projection, recover only if it is not ahead of the
\* log; append seals behind the last record.
Return(p, why, events) ==
  LET last == TailOf(events)
      ok   == Replays(events) /\ (why = "verify" => stored.seq <= last.seq)
  IN  /\ tail' = [tail EXCEPT ![p] = IF why = "verify" THEN last ELSE @]
      /\ session' = [session EXCEPT ![p] =
           CASE why = "read" -> @
             [] why = "seal" -> [@ EXCEPT !.pc = "sealed", !.base = last]
             [] OTHER -> [@ EXCEPT !.pc = IF ok THEN "ready" ELSE "failed",
                                   !.at = IF stored.seq < last.seq THEN last ELSE stored]]

\* The chain does not verify: the caller gets an error, and its session ends with it.
Refuse(p, why) ==
  /\ session' = [session EXCEPT ![p].pc = IF why = "read" THEN @ ELSE "failed"]
  /\ UNCHANGED << tail, prefix, load >>

\* load, up to the truncation of an unterminated last line.
LoadFile(p, why) ==
  /\ load[p].pc = "idle"
  /\ IF ~ChainHolds(p) THEN Refuse(p, why)
     ELSE IF rest = << >>
     THEN /\ prefix' = [prefix EXCEPT ![p] = Loaded(p)]
          /\ Return(p, why, Loaded(p).events)
          /\ UNCHANGED load
     ELSE /\ load' = [load EXCEPT ![p] = [pc |-> "check", why |-> why, found |-> Loaded(p),
                                          seen |-> rest, cut |-> 0]]
          /\ UNCHANGED << tail, prefix, session >>
  /\ UNCHANGED << lines, rest, stored, lock, acked, mishaps, spent >>

\* A load without the run's lock: projection(), the event pages, the stream.
ReadLog(p) == LoadFile(p, "read")

\* The load a session starts with: verify_chain of recover, read_after of
\* append_locked.
LoadSession(p) ==
  /\ session[p].pc = "opened"
  /\ LoadFile(p, IF session[p].kind = "dispatch" THEN "verify" ELSE "replay")

\* The load of an append without a tail (verify_internal).
LoadToSeal(p) ==
  /\ session[p].pc = "ready" /\ tail[p] = Unknown
  /\ LoadFile(p, "seal")

\* truncate_partial_tail compares the end of the file with the line it has read ...
CompareTail(p) ==
  /\ load[p].pc = "check"
  /\ load' = [load EXCEPT ![p].pc = IF rest = load[p].seen THEN "cut" ELSE "done",
                          ![p].cut = Len(lines)]
  /\ UNCHANGED << lines, rest, stored, lock, session, tail, prefix, acked, mishaps, spent >>

\* Mutant: an unterminated line is skipped but left in the file.
LeavesTail(p) ==
  /\ load[p].pc = "cut"
  /\ load' = [load EXCEPT ![p].pc = "done"]
  /\ UNCHANGED << lines, rest, stored, lock, session, tail, prefix, acked, mishaps, spent >>
\* ... and cuts the file at the position it has computed, whatever was written since.
\* set_len fills a file that is shorter by now.
CutTail(p) ==
  /\ load[p].pc = "cut"
  /\ lines' = IF Len(lines) < load[p].cut THEN lines ELSE SubSeq(lines, 1, load[p].cut)
  /\ rest' = IF Len(lines) < load[p].cut THEN << Junk >> ELSE << >>
  /\ Happen({kind \in {"cut"} : /\ load[p].why = "read"
                                /\ load[p].cut # Len(lines) \/ \E q \in Procs : Writing(q)})
  /\ load' = [load EXCEPT ![p].pc = "done"]
  /\ UNCHANGED << stored, lock, session, tail, prefix, acked, spent >>

EndLoad(p) ==
  /\ load[p].pc = "done"
  /\ prefix' = [prefix EXCEPT ![p] = load[p].found]
  /\ Return(p, load[p].why, load[p].found.events)
  /\ load' = [load EXCEPT ![p] = NoLoad]
  /\ UNCHANGED << lines, rest, stored, lock, acked, mishaps, spent >>

(***************************************************************************)
(* The locked section: a dispatch (verify, then any number of appends) or a*)
(* request (append_locked: load, then its appends).                        *)
(***************************************************************************)
OpenSession(p, kind) ==
  /\ lock = Nobody
  /\ session[p].pc = "idle"
  /\ lock' = p
  /\ session' = [session EXCEPT ![p] = [NoSession EXCEPT !.pc = "opened", !.kind = kind]]
  /\ UNCHANGED << lines, rest, stored, tail, prefix, load, acked, mishaps, spent >>

\* The harm of a record that is sealed behind t, see Mishaps.
Harm(p, t) ==
  Happen({kind \in {"joined"} : session[p].kind = "dispatch" /\ rest # << >>} \cup
         {kind \in {"stale"} : /\ p \in Servers /\ session[p].kind = "request"
                              /\ session[p].pc = "ready" /\ t # TailOf(Committed)})

\* Mutant: the projection is stored before the line is complete.
StoresFirst(p) ==
  /\ spent.appends < MaxAppends
  /\ \/ session[p].pc = "ready" /\ tail[p] # Unknown
     \/ session[p].pc = "sealed"
  /\ LET t == IF session[p].pc = "sealed" THEN session[p].base ELSE tail[p]
         e == Seal(t, spent.appends + 1)
     IN  /\ rest' = Append(rest, e)
         /\ stored' = TailOf(<< e >>)
         /\ session' = [session EXCEPT ![p].pc = "written", ![p].event = e]
         /\ Harm(p, t)
         /\ spent' = [spent EXCEPT !.appends = @ + 1]
  /\ UNCHANGED << lines, lock, tail, prefix, load, acked >>
\* The record is sealed behind the cached tail, or behind what was just loaded when
\* there is none, and written without its newline.
WriteLine(p) ==
  /\ spent.appends < MaxAppends
  /\ \/ session[p].pc = "ready" /\ tail[p] # Unknown
     \/ session[p].pc = "sealed"
  /\ LET t == IF session[p].pc = "sealed" THEN session[p].base ELSE tail[p]
         e == Seal(t, spent.appends + 1)
     IN  /\ rest' = Append(rest, e)
         /\ session' = [session EXCEPT ![p].pc = "written", ![p].event = e]
         /\ Harm(p, t)
         /\ spent' = [spent EXCEPT !.appends = @ + 1]
  /\ UNCHANGED << lines, stored, lock, tail, prefix, load, acked >>

\* The newline, the synchronisation and the return of append.
EndLine(p) ==
  /\ Writing(p)
  /\ lines' = IF rest = << >> THEN lines
              ELSE Append(lines, IF Len(rest) = 1 THEN rest[1] ELSE Junk)
  /\ rest' = << >>
  /\ tail' = [tail EXCEPT ![p] = TailOf(<< session[p].event >>)]
  /\ acked' = acked \cup {session[p].event}
  /\ session' = [session EXCEPT ![p].pc = "appended"]
  /\ UNCHANGED << stored, lock, prefix, load, mishaps, spent >>

\* apply checks the record against the projection, which is then stored.
ApplyAppended(p) ==
  /\ session[p].pc = "appended"
  /\ IF Verifies(session[p].event, session[p].at)
     THEN /\ stored' = TailOf(<< session[p].event >>)
          /\ session' = [session EXCEPT ![p].pc = "ready", ![p].at = stored']
     ELSE /\ session' = [session EXCEPT ![p].pc = "failed"]
          /\ UNCHANGED stored
  /\ UNCHANGED << lines, rest, lock, tail, prefix, load, acked, mishaps, spent >>

\* Mutant: the lock is kept.
KeepsLock(p) ==
  /\ session[p].pc \in {"ready", "failed"} /\ load[p].pc = "idle"
  /\ session' = [session EXCEPT ![p] = NoSession]
  /\ UNCHANGED << lines, rest, stored, lock, tail, prefix, load, acked, mishaps, spent >>
\* The lock is released.  A command then exits; a server keeps its caches.
CloseSession(p) ==
  /\ session[p].pc \in {"ready", "failed"} /\ load[p].pc = "idle"
  /\ session' = [session EXCEPT ![p] = NoSession]
  /\ lock' = Nobody
  /\ tail' = [tail EXCEPT ![p] = IF p \in Servers THEN @ ELSE Unknown]
  /\ prefix' = [prefix EXCEPT ![p] = IF p \in Servers THEN @ ELSE EmptyPrefix]
  /\ UNCHANGED << lines, rest, stored, load, acked, mishaps, spent >>

(***************************************************************************)
(* Faults.                                                                 *)
(***************************************************************************)
\* A write fails half way: append returns an error and the tail stays.  The request or
\* the dispatch ends with it, unless other candidate tasks of the dispatch go on.
WriteFails(p, goesOn) ==
  /\ Writing(p)
  /\ spent.faults < MaxFaults
  /\ goesOn => session[p].kind = "dispatch"
  /\ spent' = [spent EXCEPT !.faults = @ + 1]
  /\ rest' = IF rest = << >> THEN << >> ELSE [rest EXCEPT ![Len(rest)] = Junk]
  /\ session' = [session EXCEPT ![p].pc = IF goesOn THEN "ready" ELSE "failed"]
  /\ UNCHANGED << lines, stored, lock, tail, prefix, load, acked, mishaps >>

\* A process is killed: its caches are gone and the operating system releases its lock.
Kill(p) ==
  /\ spent.crashes < MaxCrashes
  /\ spent' = [spent EXCEPT !.crashes = @ + 1]
  /\ session' = [session EXCEPT ![p] = NoSession]
  /\ tail' = [tail EXCEPT ![p] = Unknown]
  /\ prefix' = [prefix EXCEPT ![p] = EmptyPrefix]
  /\ load' = [load EXCEPT ![p] = NoLoad]
  /\ lock' = IF lock = p THEN Nobody ELSE lock
  /\ UNCHANGED << lines, rest, stored, acked, mishaps >>

ProcessStep(p) ==
  \/ ReadLog(p) \/ LoadSession(p) \/ LoadToSeal(p)
  \/ CompareTail(p) \/ CutTail(p) \/ EndLoad(p)
  \/ (\E kind \in {"dispatch", "request"} : OpenSession(p, kind))
  \/ WriteLine(p) \/ EndLine(p) \/ ApplyAppended(p) \/ CloseSession(p)
  \/ (\E goesOn \in BOOLEAN : WriteFails(p, goesOn))
=============================================================================
