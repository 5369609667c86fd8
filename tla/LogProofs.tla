------------------------------ MODULE LogProofs ------------------------------
(***************************************************************************)
(* Proofs about the event log and its stream.                              *)
(***************************************************************************)
EXTENDS LogProperties, FiniteSetTheorems, SequenceTheorems, WellFoundedInduction, TLAPS

(***************************************************************************)
(* The inductive invariant.                                                *)
(***************************************************************************)
Mark == [seq : Nat, id : Nat]
Piece == Event \cup {Junk}
Prefix == [events : Seq(Event), off : Nat]
SessionType ==
  [pc : {"idle", "opened", "ready", "sealed", "written", "appended", "failed"},
   kind : {"none", "dispatch", "request"}, at : Mark, base : Mark, event : Piece]
LoadType ==
  [pc : {"idle", "check", "cut", "done"}, why : {"read", "verify", "replay", "seal"},
   found : Prefix, seen : Seq(Piece), cut : Nat]
ClientType ==
  [pc : {"offline", "subscribed", "live"}, next : Nat \ {0}, got : SUBSET Nat,
   full : BOOLEAN, told : BOOLEAN, connects : Nat]

\* In an unharmed file no line is undecodable: an unfinished one is cut before the next is
\* written.
TypeInv ==
  /\ lines \in Seq(Event) /\ rest \in Seq(Piece) /\ Len(rest) <= 1
  /\ stored \in Mark
  /\ lock \in Procs \cup {Nobody}
  /\ session \in [Procs -> SessionType]
  /\ tail \in [Procs -> Mark]
  /\ prefix \in [Procs -> Prefix]
  /\ load \in [Procs -> LoadType]
  /\ acked \subseteq Event
  /\ spent \in [appends : Nat, crashes : Nat, faults : Nat]
  /\ Len(lines) + Len(rest) <= spent.appends
  /\ spent.appends <= MaxAppends

\* Record i carries number i and the hash of its predecessor.
ChainInv ==
  \A i \in 1..Len(lines) :
    /\ lines[i].seq = i
    /\ lines[i].prev = IF i = 1 THEN 0 ELSE lines[i - 1].id

\* The stored projection is the one of some prefix of the log.
StoredInv ==
  /\ stored.seq <= Len(lines)
  /\ stored.id = IF stored.seq = 0 THEN 0 ELSE lines[stored.seq].id

InLog(e) == \E i \in 1..Len(lines) : lines[i] = e
AckedInv == \A e \in acked : InLog(e)

IsPrefixOfLog(f) ==
  f.off = Len(f.events) /\ f.off <= Len(lines) /\ f.events = SubSeq(lines, 1, f.off)
CacheInv(p) == IsPrefixOfLog(prefix[p])

\* The locked section knows the end of the log.
SessionInv(p) ==
  LET s == session[p]
  IN  /\ s.pc # "idle" <=> lock = p
      /\ s.pc # "idle" => s.kind # "none"
      /\ s.pc = "idle" /\ p \notin Servers => tail[p] = Unknown
      /\ s.pc = "opened" /\ s.kind # "dispatch" /\ p \notin Servers => tail[p] = Unknown
      /\ s.pc = "ready" => rest = << >> \/ (s.kind = "dispatch" /\ spent.faults > 0)
      /\ s.pc \in {"sealed", "appended"} => rest = << >>
      /\ s.pc \in {"ready", "sealed", "written"} =>
           /\ s.at = TailOf(lines)
           /\ tail[p] \in {Unknown, TailOf(lines)} \/ (p \in Servers /\ s.kind = "request")
      /\ s.pc = "sealed" => s.base = TailOf(lines)
      /\ s.pc = "written" => /\ rest = << s.event >> /\ s.event \in Event
                             /\ Verifies(s.event, TailOf(lines))
      /\ s.pc = "appended" => /\ lines # << >> /\ s.event = lines[Len(lines)]
                              /\ Verifies(s.event, s.at)
                              /\ tail[p] = TailOf(lines)
      /\ s.pc = "failed" => spent.faults > 0

\* The load of a locked section has read the whole file; others may cut the unfinished line
\* it has seen before it does.
LoadInv(p) ==
  LET l == load[p]
  IN  /\ l.pc # "idle" => IsPrefixOfLog(l.found)
      /\ l.pc # "idle" /\ l.why # "read" =>
           /\ lock = p /\ l.found.events = lines
           /\ l.pc = "check" => rest \in {<< >>, l.seen}
           /\ l.pc = "cut" => l.cut = Len(lines)
           /\ l.pc = "done" => rest = << >>
           /\ session[p].pc = IF l.why = "seal" THEN "ready" ELSE "opened"
           /\ l.why = "seal" => tail[p] = Unknown
           /\ l.why = "verify" <=> session[p].pc = "opened" /\ session[p].kind = "dispatch"

\* Everything published is in the log, and a browser has it, or will get it, or knows.
StreamInv ==
  /\ channel \in Seq(Event) /\ \A i \in 1..Len(channel) : InLog(channel[i])
  /\ client \in [Clients -> ClientType]
  /\ \A c \in Clients :
       /\ client[c].pc # "offline" => client[c].next <= Len(channel) + 1
       /\ client[c].pc = "live" /\ ~client[c].told /\ ~client[c].full =>
            \A i \in 1..Len(channel) : i < client[c].next => channel[i].seq \in client[c].got

CoreInv ==
  /\ TypeInv /\ ChainInv /\ StoredInv /\ AckedInv
  /\ \A p \in Procs : CacheInv(p) /\ SessionInv(p) /\ LoadInv(p)

UnharmedInv == Unharmed => CoreInv /\ StreamInv

(***************************************************************************)
(* Lemmas about naturals and sequences.                                    *)
(***************************************************************************)
\* Induction with a set in the place of a predicate: the least number outside is 0 or
\* has its predecessor inside.
LEMMA SetInduction ==
  ASSUME NEW S, 0 \in S, \A n \in Nat : n \in S => n + 1 \in S
  PROVE  \A n \in Nat : n \in S
<1> DEFINE T == Nat \ S
           R == {p \in Nat \X Nat : p[1] < p[2]}
<1>1. IsWellFoundedOn(R, Nat)
  BY NatLessThanWellFounded DEF OpToRel
<1>2. SUFFICES ASSUME T # {} PROVE FALSE
  OBVIOUS
<1>3. PICK x \in T : \A y \in T : << y, x >> \notin R
  <2> HIDE DEF R
  <2> QED BY <1>1, <1>2, WFMin
<1>4. x # 0 /\ x - 1 \in Nat /\ x - 1 < x
  OBVIOUS
<1>5. x - 1 \notin T
  BY <1>3, <1>4
<1> QED BY <1>4, <1>5

LEMMA EventsAreRecords == \A e \in Event : IsEvent(e)
BY DEF Event, IsEvent, Junk

\* Where every line is a record, none is skipped.
LEMMA RecordsOfEvents ==
  ASSUME NEW s \in Seq(Event)
  PROVE  Records(s) = s
<1> DEFINE Step(f, i) == IF i = 0 THEN << >>
                         ELSE IF IsEvent(s[i]) THEN Append(f[i - 1], s[i]) ELSE f[i - 1]
           Solves(f) == f = [i \in 0..Len(s) |-> Step(f, i)]
           g == [i \in 0..Len(s) |-> SubSeq(s, 1, i)]
           h == CHOOSE f : Solves(f)
<1>1. ASSUME NEW i \in 1..Len(s)
      PROVE  IsEvent(s[i]) /\ SubSeq(s, 1, i) = Append(SubSeq(s, 1, i - 1), s[i])
  <2>1. s[i] \in Event
    BY ElementOfSeq
  <2>2. SubSeq(s, 1, i) = SubSeq(s, 1, i - 1) \o << s[i] >>
    <3>1. 1 \in 1..Len(s) /\ i \in 1..Len(s)
      OBVIOUS
    <3> QED BY <3>1, SubSeqRecursiveSecond
  <2>3. SubSeq(s, 1, i - 1) \in Seq(Event)
    <3>1. \A j \in 1..(i - 1) : s[j] \in Event
      BY ElementOfSeq
    <3> QED BY <3>1, SubSeqProperties
  <2> QED BY <2>1, <2>2, <2>3, AppendIsConcat, EventsAreRecords
<1>2. SubSeq(s, 1, 0) = << >>
  BY SubSeqEmpty
<1>3. Solves(g)
  <2>1. ASSUME NEW i \in 0..Len(s) PROVE g[i] = Step(g, i)
    <3>1. CASE i = 0
      BY <3>1, <1>2
    <3>2. CASE i # 0
      <4>1. i \in 1..Len(s) /\ i - 1 \in 0..Len(s)
        BY <3>2
      <4> QED BY <4>1, <3>2, <1>1
    <3> QED BY <3>1, <3>2
  <2> QED BY <2>1
<1>4. Solves(h)
  <2> HIDE DEF Solves, g
  <2> QED BY <1>3
<1>5. \A i \in Nat : i \in {j \in Nat : j <= Len(s) => h[j] = SubSeq(s, 1, j)}
  <2> HIDE DEF h
  <2> DEFINE S == {j \in Nat : j <= Len(s) => h[j] = SubSeq(s, 1, j)}
  <2>1. 0 \in S
    <3>1. 0 \in 0..Len(s)
      BY LenProperties
    <3>2. h[0] = << >>
      BY <3>1, <1>4
    <3> QED BY <3>2, <1>2
  <2>2. ASSUME NEW n \in Nat, n \in S PROVE n + 1 \in S
    <3> SUFFICES ASSUME n + 1 <= Len(s) PROVE h[n + 1] = SubSeq(s, 1, n + 1)
      OBVIOUS
    <3>1. n + 1 \in 1..Len(s) /\ n + 1 \in 0..Len(s) /\ (n + 1) - 1 = n /\ h[n] = SubSeq(s, 1, n)
      BY <2>2, LenProperties
    <3>2. h[n + 1] = Step(h, n + 1)
      BY <3>1, <1>4
    <3> QED BY <3>1, <3>2, <1>1
  <2> HIDE DEF S
  <2>3. \A i \in Nat : i \in S
    BY <2>1, <2>2, SetInduction
  <2> QED BY <2>3 DEF S
<1>6. h[Len(s)] = s
  BY <1>5, LenProperties, SubSeqFull
<1>7. Records(s) = h[Len(s)]
  BY DEF Records
<1> QED BY <1>6, <1>7

(***************************************************************************)
(* What a load finds.                                                      *)
(***************************************************************************)
LEMMA TailFacts ==
  ASSUME TypeInv, ChainInv
  PROVE  /\ Len(lines) \in Nat
         /\ \A i \in 1..Len(lines) : lines[i] \in Event
         /\ TailOf(lines) \in Mark /\ TailOf(lines).seq = Len(lines)
<1>1. Len(lines) \in Nat /\ \A i \in 1..Len(lines) : lines[i] \in Event
  BY LenProperties, ElementOfSeq DEF TypeInv
<1>2. CASE lines = << >>
  BY <1>1, <1>2 DEF TailOf, Genesis, Mark
<1>3. CASE lines # << >>
  <2>1. Len(lines) \in 1..Len(lines)
    BY <1>1, <1>3, EmptySeq DEF TypeInv
  <2> QED BY <1>1, <1>3, <2>1 DEF TailOf, Mark, ChainInv, Event
<1> QED BY <1>1, <1>2, <1>3

LEMMA LoadFacts ==
  ASSUME TypeInv, ChainInv, NEW p \in Procs, CacheInv(p)
  PROVE  Loaded(p) = [events |-> lines, off |-> Len(lines)] /\ ChainHolds(p)
<1> DEFINE n == prefix[p].off
           new == SubSeq(lines, n + 1, Len(lines))
<1>1. /\ lines \in Seq(Event) /\ n \in Nat /\ n <= Len(lines) /\ Len(lines) \in Nat
      /\ prefix[p].events = SubSeq(lines, 1, n)
      /\ Known(p) = prefix[p]
  <2>1. lines \in Seq(Event) /\ prefix[p] \in Prefix
    BY DEF TypeInv
  <2>2. Len(lines) \in Nat
    BY <2>1, LenProperties
  <2>3. n \in Nat /\ n <= Len(lines) /\ prefix[p].events = SubSeq(lines, 1, n)
    BY <2>1 DEF CacheInv, IsPrefixOfLog, Prefix
  <2>4. Known(p) = prefix[p]
    BY <2>2, <2>3 DEF Known
  <2> QED BY <2>1, <2>2, <2>3, <2>4
<1>2. \A i \in 1..Len(lines) : lines[i] \in Event
  BY TailFacts
<1>3. /\ new \in Seq(Event) /\ Len(new) = Len(lines) - n
      /\ \A i \in 1..(Len(lines) - n) : new[i] = lines[n + i]
  <2>1. \A i \in (n + 1)..Len(lines) : lines[i] \in Event
    BY <1>1, <1>2
  <2>2. n + 1 \in Int /\ Len(lines) \in Int
    BY <1>1
  <2> HIDE DEF n
  <2>3. /\ new \in Seq(Event) /\ Len(new) = IF n + 1 <= Len(lines) THEN Len(lines) - (n + 1) + 1 ELSE 0
        /\ \A i \in 1..(Len(lines) - (n + 1) + 1) : new[i] = lines[n + 1 + i - 1]
    BY <2>1, <2>2, SubSeqProperties
  <2> QED BY <2>3, <1>1
<1>4. NewEvents(p) = new
  BY <1>1, <1>3, RecordsOfEvents DEF NewEvents
<1>5. SubSeq(lines, 1, n) \o new = lines
  <2>1. /\ 1 \in 1..Len(lines) + 1 /\ n \in (1 - 1)..Len(lines) /\ Len(lines) \in n..Len(lines)
    BY <1>1
  <2> HIDE DEF n
  <2>2. SubSeq(lines, 1, n) \o new = SubSeq(lines, 1, Len(lines))
    BY <2>1, <1>1, ConcatAdjacentSubSeq
  <2> QED BY <2>2, <1>1, SubSeqFull
<1>6. Loaded(p) = [events |-> lines, off |-> Len(lines)]
  <2>1. Known(p).off + Len(NewEvents(p)) = Len(lines)
    BY <1>1, <1>3, <1>4
  <2>2. Known(p).events \o NewEvents(p) = lines
    BY <1>1, <1>4, <1>5
  <2> QED BY <2>1, <2>2 DEF Loaded
<1>7. TailOf(SubSeq(lines, 1, n)) =
        IF n = 0 THEN Genesis ELSE [seq |-> lines[n].seq, id |-> lines[n].id]
  <2>1. CASE n = 0
    BY <2>1, SubSeqEmpty DEF TailOf
  <2>2. CASE n # 0
    <3>1. \A i \in 1..n : lines[i] \in Event
      BY <1>1, <1>2
    <3>2. /\ Len(SubSeq(lines, 1, n)) = n /\ SubSeq(lines, 1, n)[n] = lines[n]
      <4>1. n \in Int /\ 1 <= n /\ n \in 1..(n - 1 + 1)
        BY <1>1, <2>2
      <4> HIDE DEF n
      <4>2. /\ Len(SubSeq(lines, 1, n)) = IF 1 <= n THEN n - 1 + 1 ELSE 0
            /\ \A i \in 1..(n - 1 + 1) : SubSeq(lines, 1, n)[i] = lines[1 + i - 1]
        BY <4>1, <3>1, SubSeqProperties
      <4> QED BY <4>1, <4>2
    <3>3. SubSeq(lines, 1, n) # << >>
      BY <3>2, <2>2
    <3> QED BY <2>2, <3>2, <3>3 DEF TailOf
  <2> QED BY <2>1, <2>2
<1>8. ASSUME NEW i \in 1..Len(new)
      PROVE  Verifies(new[i], IF i = 1 THEN TailOf(SubSeq(lines, 1, n))
                              ELSE [seq |-> new[i - 1].seq, id |-> new[i - 1].id])
  <2>1. /\ i \in Nat /\ n + i \in 1..Len(lines) /\ new[i] = lines[n + i]
        /\ i # 1 => n + i - 1 \in 1..Len(lines) /\ new[i - 1] = lines[n + i - 1] /\ n + i # 1
        /\ i = 1 /\ n # 0 => n \in 1..Len(lines) /\ n + i # 1
    <3>1. i \in Nat /\ n \in Nat /\ Len(lines) \in Nat /\ 1 <= i /\ i <= Len(lines) - n
      BY <1>1, <1>3
    <3>2. \A j \in 1..(Len(lines) - n) : new[j] = lines[n + j]
      BY <1>3
    <3> HIDE DEF n, new
    <3>3. i # 1 => i - 1 \in 1..(Len(lines) - n) /\ n + (i - 1) = n + i - 1
      BY <3>1
    <3> QED BY <3>1, <3>2, <3>3
  <2> HIDE DEF n, new
  <2>2. /\ lines[n + i].seq = n + i
        /\ lines[n + i].prev = IF n + i = 1 THEN 0 ELSE lines[n + i - 1].id
    BY <1>1, <2>1 DEF ChainInv
  <2>3. CASE i = 1 /\ n = 0
    BY <2>1, <2>2, <2>3, <1>7 DEF Verifies, Genesis
  <2>4. CASE i = 1 /\ n # 0
    <3>1. lines[n].seq = n
      BY <2>1, <2>4 DEF ChainInv
    <3> QED BY <3>1, <2>1, <2>2, <2>4, <1>1, <1>7 DEF Verifies
  <2>5. CASE i # 1
    <3>1. lines[n + i - 1].seq = n + i - 1
      BY <2>1, <2>5 DEF ChainInv
    <3> QED BY <3>1, <2>1, <2>2, <2>5, <1>1 DEF Verifies
  <2> QED BY <2>3, <2>4, <2>5
<1>9. ChainHolds(p)
  <2> HIDE DEF n, new
  <2>1. Known(p).events = SubSeq(lines, 1, n)
    BY <1>1
  <2> QED BY <2>1, <1>4, <1>8 DEF ChainHolds
<1> QED BY <1>6, <1>9

(***************************************************************************)
(* Each step of a process keeps the core of the invariant.                 *)
(***************************************************************************)
\* What a session may load for.
MayLoad(p, why) ==
  CASE why = "read" -> TRUE
    [] why = "seal" -> session[p].pc = "ready" /\ tail[p] = Unknown
    [] why = "verify" -> session[p].pc = "opened" /\ session[p].kind = "dispatch"
    [] why = "replay" -> session[p].pc = "opened" /\ session[p].kind # "dispatch"
Whys == {"read", "verify", "replay", "seal"}

\* The stored projection never contradicts a log that was read completely, so recover
\* and append_locked go on at its end.
LEMMA StoredReplays ==
  ASSUME TypeInv, ChainInv, StoredInv
  PROVE  /\ Replays(lines) /\ stored.seq <= TailOf(lines).seq
         /\ (IF stored.seq < TailOf(lines).seq THEN TailOf(lines) ELSE stored) = TailOf(lines)
<1>1. Len(lines) \in Nat /\ TailOf(lines) \in Mark /\ TailOf(lines).seq = Len(lines)
  BY TailFacts
<1>2. stored \in Mark /\ stored.seq \in Nat
  BY DEF TypeInv, Mark
<1>3. Replays(lines)
  BY <1>1, <1>2 DEF StoredInv, Replays
<1>4. stored.seq = Len(lines) => stored = TailOf(lines)
  <2> SUFFICES ASSUME stored.seq = Len(lines) PROVE stored = TailOf(lines)
    OBVIOUS
  <2>1. stored.id = TailOf(lines).id
    <3>1. CASE lines = << >>
      BY <3>1 DEF StoredInv, TailOf, Genesis
    <3>2. CASE lines # << >>
      <4>1. Len(lines) # 0
        BY <3>2, EmptySeq DEF TypeInv
      <4> QED BY <4>1, <3>2 DEF StoredInv, TailOf
    <3> QED BY <3>1, <3>2
  <2> QED BY <2>1, <1>1, <1>2 DEF Mark
<1> QED BY <1>1, <1>2, <1>3, <1>4 DEF StoredInv

\* What Return does, once the log is known to be good.
LEMMA ReturnSteps ==
  ASSUME CoreInv, NEW p \in Procs, NEW why \in Whys, Return(p, why, lines)
  PROVE  /\ tail' = [tail EXCEPT ![p] = IF why = "verify" THEN TailOf(lines) ELSE @]
         /\ session' = [session EXCEPT ![p] =
              CASE why = "read" -> @
                [] why = "seal" -> [@ EXCEPT !.pc = "sealed", !.base = TailOf(lines)]
                [] OTHER -> [@ EXCEPT !.pc = "ready", !.at = TailOf(lines)]]
<1>1. /\ Replays(lines) /\ stored.seq <= TailOf(lines).seq
      /\ (IF stored.seq < TailOf(lines).seq THEN TailOf(lines) ELSE stored) = TailOf(lines)
  BY StoredReplays DEF CoreInv
<1> QED BY <1>1 DEF Return

LEMMA ReturnInv ==
  ASSUME CoreInv, NEW p \in Procs, NEW why \in Whys, MayLoad(p, why),
         Return(p, why, lines), why # "read" => rest = << >>,
         UNCHANGED << lines, rest, lock, spent >>
  PROVE  /\ session' \in [Procs -> SessionType] /\ tail' \in [Procs -> Mark]
         /\ \A q \in Procs : SessionInv(q)'
         /\ \A q \in Procs : Writing(q)' => Writing(q)
         /\ \A q \in Procs : q # p => session'[q] = session[q] /\ tail'[q] = tail[q]
         /\ why = "read" => session' = session /\ tail' = tail
<1>1. TailOf(lines) \in Mark /\ TailOf(lines).seq = Len(lines)
  BY TailFacts DEF CoreInv
<1>2. /\ session \in [Procs -> SessionType] /\ tail \in [Procs -> Mark]
      /\ session[p] \in SessionType /\ tail[p] \in Mark
  BY DEF CoreInv, TypeInv
<1>3. TailOf(lines)' = TailOf(lines)
  BY DEF TailOf
<1>4. \A q \in Procs : SessionInv(q)
  BY DEF CoreInv
<1>5. CASE why = "read"
  <2>1. session' = session /\ tail' = tail
    <3>1. session' = [session EXCEPT ![p] = @] /\ tail' = [tail EXCEPT ![p] = @]
      BY <1>5, ReturnSteps
    <3> QED BY <3>1, <1>2
  <2> QED BY <2>1, <1>2, <1>3, <1>4 DEF SessionInv, Writing
<1>6. CASE why = "seal"
  <2>1. /\ session' = [session EXCEPT ![p] = [@ EXCEPT !.pc = "sealed", !.base = TailOf(lines)]]
        /\ tail' = tail
    <3>1. /\ session' = [session EXCEPT ![p] = [@ EXCEPT !.pc = "sealed", !.base = TailOf(lines)]]
          /\ tail' = [tail EXCEPT ![p] = @]
      BY <1>6, ReturnSteps
    <3> QED BY <3>1, <1>2
  <2>2. session[p].pc = "ready" /\ tail[p] = Unknown /\ rest = << >>
    BY <1>6 DEF MayLoad
  <2>3. session'[p] = [session[p] EXCEPT !.pc = "sealed", !.base = TailOf(lines)]
    BY <2>1, <1>2
  <2>4. session'[p] \in SessionType
    BY <2>3, <1>1, <1>2 DEF SessionType
  <2>5. \A q \in Procs : q # p => session'[q] = session[q]
    BY <2>1, <1>2
  <2>6. SessionInv(p)'
    BY <2>1, <2>2, <2>3, <1>2, <1>3, <1>4 DEF SessionInv, SessionType
  <2>7. \A q \in Procs : q # p => SessionInv(q)'
    BY <2>1, <2>5, <1>3, <1>4 DEF SessionInv
  <2>8. session' \in [Procs -> SessionType] /\ tail' \in [Procs -> Mark]
    BY <2>1, <2>4, <1>2
  <2> QED BY <2>1, <2>2, <2>3, <2>5, <2>6, <2>7, <2>8, <1>2, <1>6 DEF Writing, SessionType
<1>7. CASE why \in {"verify", "replay"}
  <2>1. /\ session' = [session EXCEPT ![p] = [@ EXCEPT !.pc = "ready", !.at = TailOf(lines)]]
        /\ tail' = [tail EXCEPT ![p] = IF why = "verify" THEN TailOf(lines) ELSE @]
    BY <1>2, <1>7, ReturnSteps
  <2>2. /\ session[p].pc = "opened" /\ rest = << >>
        /\ why = "replay" => session[p].kind # "dispatch"
    BY <1>7 DEF MayLoad
  <2>3. /\ session'[p] = [session[p] EXCEPT !.pc = "ready", !.at = TailOf(lines)]
        /\ tail'[p] = IF why = "verify" THEN TailOf(lines) ELSE tail[p]
    BY <2>1, <1>2
  <2>4. session'[p] \in SessionType /\ tail'[p] \in Mark
    BY <2>3, <1>1, <1>2 DEF SessionType
  <2>5. \A q \in Procs : q # p => session'[q] = session[q] /\ tail'[q] = tail[q]
    BY <2>1, <1>2
  <2>6. tail'[p] \in {Unknown, TailOf(lines)} \/ (p \in Servers /\ session[p].kind = "request")
    <3>1. session[p].kind # "dispatch" => session[p].kind = "request"
      BY <2>2, <1>2, <1>4 DEF SessionInv, SessionType
    <3> QED BY <3>1, <2>2, <2>3, <1>4, <1>7 DEF SessionInv
  <2>7. SessionInv(p)'
    BY <2>2, <2>3, <2>6, <1>2, <1>3, <1>4 DEF SessionInv, SessionType
  <2>8. \A q \in Procs : q # p => SessionInv(q)'
    BY <2>5, <1>3, <1>4 DEF SessionInv
  <2>9. session' \in [Procs -> SessionType] /\ tail' \in [Procs -> Mark]
    BY <2>1, <2>4, <1>1, <1>2
  <2> QED BY <2>2, <2>3, <2>5, <2>7, <2>8, <2>9, <1>2, <1>7 DEF Writing, SessionType
<1> QED BY <1>5, <1>6, <1>7 DEF Whys

\* A step that leaves the file alone keeps what is said about the file only.
LEMMA FileKept ==
  ASSUME CoreInv, UNCHANGED << lines, rest, stored, acked, spent >>
  PROVE  /\ ChainInv' /\ StoredInv' /\ AckedInv'
         /\ \A f : IsPrefixOfLog(f) => IsPrefixOfLog(f)'
         /\ TailOf(lines)' = TailOf(lines)
BY DEF CoreInv, ChainInv, StoredInv, AckedInv, InLog, IsPrefixOfLog, TailOf

LEMMA LoadFileInv ==
  ASSUME CoreInv, NEW p \in Procs, NEW why \in Whys, MayLoad(p, why),
         LoadFile(p, why)
  PROVE  CoreInv'
<1> DEFINE all == [events |-> lines, off |-> Len(lines)]
<1>1. /\ Loaded(p) = all /\ ChainHolds(p)
      /\ all \in Prefix /\ IsPrefixOfLog(all)
  <2>1. Loaded(p) = all /\ ChainHolds(p)
    BY LoadFacts DEF CoreInv
  <2>2. lines \in Seq(Event) /\ Len(lines) \in Nat /\ SubSeq(lines, 1, Len(lines)) = lines
    BY SubSeqFull, LenProperties DEF CoreInv, TypeInv
  <2> QED BY <2>1, <2>2 DEF Prefix, IsPrefixOfLog
<1>2. UNCHANGED << lines, rest, stored, lock, acked, spent >>
  BY DEF LoadFile
<1>3. /\ ChainInv' /\ StoredInv' /\ AckedInv'
      /\ \A f : IsPrefixOfLog(f) => IsPrefixOfLog(f)'
  BY <1>2, FileKept
<1>5. /\ TypeInv /\ load[p].pc = "idle"
      /\ \A q \in Procs : CacheInv(q) /\ SessionInv(q) /\ LoadInv(q)
  BY DEF CoreInv, LoadFile
<1>6. CASE rest = << >>
  <2>1. /\ prefix' = [prefix EXCEPT ![p] = all]
        /\ Return(p, why, lines) /\ load' = load
    <3> HIDE DEF all
    <3>1. prefix' = [prefix EXCEPT ![p] = Loaded(p)] /\ Return(p, why, Loaded(p).events) /\ load' = load
      BY <1>1, <1>6 DEF LoadFile
    <3>2. Loaded(p).events = lines
      BY <1>1 DEF all
    <3> QED BY <3>1, <3>2, <1>1
  <2>2. /\ session' \in [Procs -> SessionType] /\ tail' \in [Procs -> Mark]
        /\ \A q \in Procs : SessionInv(q)'
        /\ \A q \in Procs : Writing(q)' => Writing(q)
        /\ \A q \in Procs : q # p => session'[q] = session[q] /\ tail'[q] = tail[q]
        /\ why = "read" => session' = session /\ tail' = tail
    BY <2>1, <1>2, <1>6, ReturnInv
  <2>3. TypeInv'
    <3> HIDE DEF all
    <3> QED BY <2>1, <2>2, <1>1, <1>2, <1>5 DEF TypeInv
  <2>4. \A q \in Procs : CacheInv(q)'
    <3> SUFFICES ASSUME NEW q \in Procs PROVE CacheInv(q)'
      OBVIOUS
    <3>1. prefix'[q] = IF q = p THEN all ELSE prefix[q]
      BY <2>1, <1>5 DEF TypeInv
    <3> HIDE DEF all
    <3> QED BY <3>1, <1>1, <1>3, <1>5 DEF CacheInv
  <2>5. ASSUME NEW q \in Procs PROVE LoadInv(q)'
    <3>1. load'[q] = load[q]
      BY <2>1
    <3>2. q = p => load[q].pc = "idle"
      BY <1>5
    <3>3. load[q].pc # "idle" => q # p /\ session'[q] = session[q] /\ tail'[q] = tail[q]
      BY <3>2, <2>2
    <3> QED BY <3>1, <3>3, <1>2, <1>3, <1>5 DEF LoadInv
  <2> QED BY <1>3, <2>2, <2>3, <2>4, <2>5 DEF CoreInv
<1>7. CASE rest # << >>
  <2> DEFINE l == [pc |-> "check", why |-> why, found |-> all, seen |-> rest, cut |-> 0]
  <2>1. load' = [load EXCEPT ![p] = l] /\ UNCHANGED << tail, prefix, session >>
    <3> HIDE DEF all
    <3> QED BY <1>1, <1>7 DEF LoadFile
  <2>2. l \in LoadType
    <3> HIDE DEF all
    <3> QED BY <1>1, <1>5 DEF LoadType, TypeInv, Whys
  <2>3. TypeInv'
    <3> HIDE DEF l
    <3> QED BY <2>1, <2>2, <1>2, <1>5 DEF TypeInv
  <2>4. \A q \in Procs : CacheInv(q)' /\ SessionInv(q)'
    BY <2>1, <1>2, <1>3, <1>5, FileKept DEF CacheInv, SessionInv
  <2>5. \A q \in Procs : load'[q] = IF q = p THEN l ELSE load[q]
    <3> HIDE DEF l
    <3> QED BY <2>1, <1>5 DEF TypeInv
  <2>8. LoadInv(p)'
    <3>1. load'[p] = l
      BY <2>5
    <3>2. l.pc = "check" /\ l.why = why /\ l.found = all /\ l.seen = rest
      OBVIOUS
    <3>3. IsPrefixOfLog(load[p].found)' /\ load'[p].found.events = lines
      BY <3>1, <3>2, <1>1, <1>2 DEF IsPrefixOfLog
    <3> HIDE DEF l, all
    <3>4. why # "read" =>
            /\ lock = p
            /\ session[p].pc = IF why = "seal" THEN "ready" ELSE "opened"
            /\ why = "seal" => tail[p] = Unknown
            /\ why = "verify" <=> session[p].pc = "opened" /\ session[p].kind = "dispatch"
      BY <1>5 DEF MayLoad, Whys, SessionInv
    <3>5. load'[p].pc = "check" /\ load'[p].why = why /\ load'[p].found = all /\ load'[p].seen = rest
      BY <3>1, <3>2
    <3>6. why # "read" =>
            /\ lock' = p
            /\ session'[p].pc = IF why = "seal" THEN "ready" ELSE "opened"
            /\ why = "seal" => tail'[p] = Unknown
            /\ why = "verify" <=> session'[p].pc = "opened" /\ session'[p].kind = "dispatch"
      BY <3>4, <2>1, <1>2
    <3> HIDE DEF MayLoad
    <3> QED BY <3>3, <3>5, <3>6, <1>2 DEF LoadInv
  <2>9. ASSUME NEW q \in Procs, q # p PROVE LoadInv(q)'
    <3>1. load'[q] = load[q]
      BY <2>5, <2>9
    <3> QED BY <3>1, <2>1, <1>2, <1>3, <1>5 DEF LoadInv
  <2> QED BY <1>3, <2>3, <2>4, <2>8, <2>9 DEF CoreInv
<1> QED BY <1>6, <1>7

LEMMA LoadsInv ==
  ASSUME CoreInv, NEW p \in Procs, ReadLog(p) \/ LoadSession(p) \/ LoadToSeal(p)
  PROVE  CoreInv'
<1>1. CASE ReadLog(p)
  BY <1>1, LoadFileInv DEF ReadLog, MayLoad, Whys
<1>2. CASE LoadSession(p)
  <2>1. CASE session[p].kind = "dispatch"
    BY <1>2, <2>1, LoadFileInv DEF LoadSession, MayLoad, Whys
  <2>2. CASE session[p].kind # "dispatch"
    BY <1>2, <2>2, LoadFileInv DEF LoadSession, MayLoad, Whys
  <2> QED BY <2>1, <2>2
<1>3. CASE LoadToSeal(p)
  BY <1>3, LoadFileInv DEF LoadToSeal, MayLoad, Whys
<1> QED BY <1>1, <1>2, <1>3

LEMMA CompareTailInv ==
  ASSUME CoreInv, NEW p \in Procs, CompareTail(p)
  PROVE  CoreInv'
<1> DEFINE pc == IF rest = load[p].seen THEN "cut" ELSE "done"
           l == [load[p] EXCEPT !.pc = pc, !.cut = Len(lines)]
<1>1. UNCHANGED << lines, rest, stored, lock, session, tail, prefix, acked, spent >>
  BY DEF CompareTail
<1>2. /\ TypeInv /\ load[p].pc = "check" /\ load[p] \in LoadType /\ Len(lines) \in Nat
      /\ \A q \in Procs : CacheInv(q) /\ SessionInv(q) /\ LoadInv(q)
  BY LenProperties DEF CoreInv, CompareTail, TypeInv
<1>3. /\ ChainInv' /\ StoredInv' /\ AckedInv'
      /\ \A f : IsPrefixOfLog(f) => IsPrefixOfLog(f)'
      /\ TailOf(lines)' = TailOf(lines)
  BY <1>1, FileKept
<1>4. load' = [load EXCEPT ![p] = l]
  BY <1>2 DEF CompareTail, TypeInv
<1>5. /\ l \in LoadType /\ l.pc = pc /\ l.cut = Len(lines) /\ l.why = load[p].why
      /\ l.found = load[p].found /\ l.seen = load[p].seen
  BY <1>2 DEF LoadType
<1> HIDE DEF l
<1>6. \A q \in Procs : load'[q] = IF q = p THEN l ELSE load[q]
  BY <1>2, <1>4 DEF TypeInv
<1>7. TypeInv'
  BY <1>1, <1>2, <1>4, <1>5 DEF TypeInv
<1>8. \A q \in Procs : CacheInv(q)' /\ SessionInv(q)'
  BY <1>1, <1>2, <1>3 DEF CacheInv, SessionInv
<1>9. ASSUME NEW q \in Procs PROVE LoadInv(q)'
  <2>1. CASE q = p
    <3>1. /\ load'[q].pc = pc /\ load'[q].cut = Len(lines) /\ load'[q].why = load[p].why
          /\ load'[q].found = load[p].found /\ load'[q].seen = load[p].seen
      BY <2>1, <1>5, <1>6
    <3>2. IsPrefixOfLog(load[q].found)'
      BY <3>1, <1>2, <1>3 DEF LoadInv
    <3>3. load[p].why # "read" => (pc = "done" => rest = << >>)
      BY <1>2 DEF LoadInv
    <3> QED BY <2>1, <3>1, <3>2, <3>3, <1>1, <1>2 DEF LoadInv
  <2>2. CASE q # p
    BY <2>2, <1>1, <1>2, <1>3, <1>6 DEF LoadInv
  <2> QED BY <2>1, <2>2
<1> QED BY <1>3, <1>7, <1>8, <1>9 DEF CoreInv

\* The holder of the lock cuts what nobody is writing; a load without the lock may cut
\* under an append, which harms the log.
LEMMA CutTailKeeps ==
  ASSUME CoreInv, Unharmed', NEW p \in Procs, CutTail(p)
  PROVE  lines' = lines /\ rest' = << >> /\ \A q \in Procs : ~Writing(q)
<1>1. /\ TypeInv /\ load[p].pc = "cut" /\ lines \in Seq(Event) /\ Len(lines) \in Nat
      /\ LoadInv(p) /\ \A q \in Procs : SessionInv(q)
  BY LenProperties DEF CoreInv, CutTail, TypeInv
<1>2. load[p].cut = Len(lines) /\ \A q \in Procs : ~Writing(q)
  <2>1. CASE load[p].why = "read"
    <3>1. ~(load[p].cut # Len(lines) \/ \E q \in Procs : Writing(q))
      BY <2>1 DEF CutTail, Happen, Unharmed
    <3> QED BY <3>1
  <2>2. CASE load[p].why # "read"
    <3>1. load[p].cut = Len(lines) /\ lock = p /\ session[p].pc \in {"ready", "opened"}
      BY <2>2, <1>1 DEF LoadInv
    <3> QED BY <3>1, <1>1 DEF SessionInv, Writing
  <2> QED BY <2>1, <2>2
<1>3. lines' = lines /\ rest' = << >>
  BY <1>1, <1>2, SubSeqFull DEF CutTail
<1> QED BY <1>2, <1>3

LEMMA CutTailInv ==
  ASSUME CoreInv, Unharmed', NEW p \in Procs, CutTail(p)
  PROVE  CoreInv'
<1> DEFINE l == [load[p] EXCEPT !.pc = "done"]
<1>1. UNCHANGED << stored, lock, session, tail, prefix, acked, spent >> /\ load' = [load EXCEPT ![p] = l]
  BY DEF CutTail
<1>2. /\ TypeInv /\ load[p].pc = "cut" /\ load[p] \in LoadType
      /\ \A q \in Procs : CacheInv(q) /\ SessionInv(q) /\ LoadInv(q)
  BY DEF CoreInv, CutTail, TypeInv
<1>3. lines' = lines /\ rest' = << >> /\ \A q \in Procs : ~Writing(q)
  BY CutTailKeeps
<1>4. /\ ChainInv' /\ StoredInv' /\ AckedInv'
      /\ \A f : IsPrefixOfLog(f) => IsPrefixOfLog(f)'
      /\ TailOf(lines)' = TailOf(lines)
  BY <1>1, <1>3 DEF CoreInv, ChainInv, StoredInv, AckedInv, InLog, IsPrefixOfLog, TailOf
<1>5. l \in LoadType /\ l.pc = "done" /\ l.why = load[p].why /\ l.found = load[p].found
  BY <1>2 DEF LoadType
<1> HIDE DEF l
<1>6. \A q \in Procs : load'[q] = IF q = p THEN l ELSE load[q]
  BY <1>1, <1>2 DEF TypeInv
<1>7. TypeInv'
  <2>1. rest' \in Seq(Piece) /\ Len(rest') = 0 /\ Len(rest) \in Nat
    BY <1>2, <1>3, EmptySeq, LenProperties DEF TypeInv
  <2> QED BY <2>1, <1>1, <1>2, <1>3, <1>5 DEF TypeInv
<1>8. \A q \in Procs : CacheInv(q)' /\ SessionInv(q)'
  BY <1>1, <1>2, <1>3, <1>4 DEF CacheInv, SessionInv, Writing
<1>9. ASSUME NEW q \in Procs PROVE LoadInv(q)'
  <2>1. CASE q = p
    BY <2>1, <1>1, <1>2, <1>3, <1>4, <1>5, <1>6 DEF LoadInv
  <2>2. CASE q # p
    BY <2>2, <1>1, <1>2, <1>3, <1>4, <1>6 DEF LoadInv
  <2> QED BY <2>1, <2>2
<1> QED BY <1>4, <1>7, <1>8, <1>9 DEF CoreInv

LEMMA EndLoadInv ==
  ASSUME CoreInv, NEW p \in Procs, EndLoad(p)
  PROVE  CoreInv'
<1> DEFINE f == load[p].found
           why == load[p].why
<1>1. /\ UNCHANGED << lines, rest, stored, lock, acked, spent >>
      /\ prefix' = [prefix EXCEPT ![p] = f] /\ load' = [load EXCEPT ![p] = NoLoad]
      /\ Return(p, why, f.events) /\ load[p].pc = "done"
  BY DEF EndLoad
<1>2. /\ TypeInv /\ load[p] \in LoadType /\ why \in Whys /\ f \in Prefix
      /\ \A q \in Procs : CacheInv(q) /\ SessionInv(q) /\ LoadInv(q)
  BY DEF CoreInv, TypeInv, LoadType, Whys
<1>3. /\ ChainInv' /\ StoredInv' /\ AckedInv'
      /\ \A g : IsPrefixOfLog(g) => IsPrefixOfLog(g)'
      /\ TailOf(lines)' = TailOf(lines)
  BY <1>1, FileKept
<1>4. /\ IsPrefixOfLog(f)
      /\ why # "read" => f.events = lines /\ rest = << >> /\ MayLoad(p, why)
  BY <1>1, <1>2 DEF LoadInv, MayLoad, Whys
<1>5. /\ session' \in [Procs -> SessionType] /\ tail' \in [Procs -> Mark]
      /\ \A q \in Procs : SessionInv(q)'
      /\ \A q \in Procs : Writing(q)' => Writing(q)
      /\ \A q \in Procs : q # p => session'[q] = session[q] /\ tail'[q] = tail[q]
  <2>1. CASE why # "read"
    BY <2>1, <1>1, <1>2, <1>4, ReturnInv
  <2>2. CASE why = "read"
    <3>1. session' = session /\ tail' = tail
      <4>1. session' = [session EXCEPT ![p] = @] /\ tail' = [tail EXCEPT ![p] = @]
        BY <1>1, <2>2 DEF Return
      <4> QED BY <4>1, <1>2 DEF TypeInv
    <3> QED BY <3>1, <1>1, <1>2, <1>3 DEF TypeInv, SessionInv, Writing
  <2> QED BY <2>1, <2>2
<1>6. TypeInv'
  <2>1. NoLoad \in LoadType
    BY EmptySeq DEF NoLoad, LoadType, Prefix, EmptyPrefix
  <2> QED BY <2>1, <1>1, <1>2, <1>5 DEF TypeInv
<1>7. \A q \in Procs : CacheInv(q)'
  <2> SUFFICES ASSUME NEW q \in Procs PROVE CacheInv(q)'
    OBVIOUS
  <2>1. prefix'[q] = IF q = p THEN f ELSE prefix[q]
    BY <1>1, <1>2 DEF TypeInv
  <2> HIDE DEF f
  <2> QED BY <2>1, <1>2, <1>3, <1>4 DEF CacheInv
<1>8. ASSUME NEW q \in Procs PROVE LoadInv(q)'
  <2>1. CASE q = p
    <3>1. load'[q].pc = "idle"
      BY <2>1, <1>1, <1>2 DEF TypeInv, NoLoad
    <3> QED BY <3>1 DEF LoadInv
  <2>2. CASE q # p
    <3>1. load'[q] = load[q] /\ session'[q] = session[q] /\ tail'[q] = tail[q]
      BY <2>2, <1>1, <1>2, <1>5 DEF TypeInv
    <3> QED BY <3>1, <1>1, <1>2, <1>3 DEF LoadInv
  <2> QED BY <2>1, <2>2
<1> QED BY <1>3, <1>5, <1>6, <1>7, <1>8 DEF CoreInv

LEMMA OpenSessionInv ==
  ASSUME CoreInv, NEW p \in Procs, NEW kind \in {"dispatch", "request"},
         OpenSession(p, kind)
  PROVE  CoreInv'
<1> DEFINE s == [NoSession EXCEPT !.pc = "opened", !.kind = kind]
<1>1. /\ UNCHANGED << lines, rest, stored, tail, prefix, load, acked, spent >>
      /\ lock = Nobody /\ lock' = p /\ session[p].pc = "idle"
      /\ session' = [session EXCEPT ![p] = s]
  BY DEF OpenSession
<1>2. TypeInv /\ \A q \in Procs : CacheInv(q) /\ SessionInv(q) /\ LoadInv(q)
  BY DEF CoreInv
<1>3. /\ ChainInv' /\ StoredInv' /\ AckedInv'
      /\ \A g : IsPrefixOfLog(g) => IsPrefixOfLog(g)'
      /\ TailOf(lines)' = TailOf(lines)
  BY <1>1, FileKept
<1>4. \A q \in Procs : q # Nobody /\ session[q].pc = "idle"
  BY <1>1, <1>2, LogAssumption DEF SessionInv
<1>5. s \in SessionType /\ s.pc = "opened" /\ s.kind = kind
  BY DEF SessionType, NoSession, Genesis, Mark, Piece
<1> HIDE DEF s
<1>6. \A q \in Procs : session'[q] = IF q = p THEN s ELSE session[q]
  BY <1>1, <1>2 DEF TypeInv
<1>7. TypeInv'
  BY <1>1, <1>2, <1>5 DEF TypeInv
<1>8. ASSUME NEW q \in Procs PROVE CacheInv(q)' /\ SessionInv(q)' /\ LoadInv(q)'
  <2>1. CacheInv(q)'
    BY <1>1, <1>2, <1>3 DEF CacheInv
  <2>2. SessionInv(q)'
    <3>1. CASE q = p
      <4>1. p \notin Servers => tail'[p] = Unknown
        BY <1>1, <1>2 DEF SessionInv
      <4> QED BY <3>1, <4>1, <1>1, <1>5, <1>6 DEF SessionInv
    <3>2. CASE q # p
      BY <3>2, <1>1, <1>2, <1>4, <1>6 DEF SessionInv
    <3> QED BY <3>1, <3>2
  <2>3. LoadInv(q)'
    <3>1. load'[q] = load[q] /\ (load[q].pc = "idle" \/ load[q].why = "read")
      BY <1>1, <1>2, <1>4 DEF LoadInv
    <3> QED BY <3>1, <1>1, <1>2, <1>3 DEF LoadInv
  <2> QED BY <2>1, <2>2, <2>3
<1> QED BY <1>3, <1>7, <1>8 DEF CoreInv

\* A record is written behind the end of the log, whether the tail was cached or loaded.
LEMMA WriteLineInv ==
  ASSUME CoreInv, Unharmed', NEW p \in Procs, WriteLine(p)
  PROVE  CoreInv'
<1> DEFINE e == Seal(TailOf(lines), spent.appends + 1)
           s == [session[p] EXCEPT !.pc = "written", !.event = e]
<1>1. /\ UNCHANGED << lines, stored, lock, tail, prefix, load, acked >>
      /\ spent.appends < MaxAppends
      /\ spent' = [spent EXCEPT !.appends = @ + 1]
      /\ \/ session[p].pc = "ready" /\ tail[p] # Unknown
         \/ session[p].pc = "sealed"
  BY DEF WriteLine
<1>2. /\ TypeInv /\ ChainInv /\ session[p] \in SessionType
      /\ \A q \in Procs : CacheInv(q) /\ SessionInv(q) /\ LoadInv(q)
  BY DEF CoreInv, TypeInv
<1>3. /\ Len(lines) \in Nat /\ TailOf(lines) \in Mark /\ TailOf(lines).seq = Len(lines)
      /\ \A i \in 1..Len(lines) : lines[i] \in Event
  BY <1>2, TailFacts
<1>4. rest = << >> /\ session[p].at = TailOf(lines) /\ lock = p
  <2>1. ~(session[p].kind = "dispatch" /\ rest # << >>)
    BY DEF WriteLine, Harm, Happen, Unharmed
  <2> QED BY <2>1, <1>1, <1>2 DEF SessionInv
<1>5. rest' = << e >> /\ session' = [session EXCEPT ![p] = s]
  <2>1. (IF session[p].pc = "sealed" THEN session[p].base ELSE tail[p]) = TailOf(lines)
    <3>1. Committed = lines
      BY <1>2, RecordsOfEvents DEF Committed, TypeInv
    <3>2. ~(p \in Servers /\ session[p].kind = "request" /\ session[p].pc = "ready" /\ tail[p] # TailOf(lines))
      BY <3>1 DEF WriteLine, Harm, Happen, Unharmed
    <3> QED BY <3>2, <1>1, <1>2 DEF SessionInv
  <2>2. rest' = Append(rest, e) /\ session' = [session EXCEPT ![p] = s]
    BY <2>1 DEF WriteLine
  <2> QED BY <2>2, <1>4
<1>6. e \in Event /\ Verifies(e, TailOf(lines))
  <2>1. TailOf(lines).id \in 0..MaxAppends
    <3>1. CASE lines = << >>
      BY <3>1, LogAssumption DEF TailOf, Genesis
    <3>2. CASE lines # << >>
      <4>1. Len(lines) \in 1..Len(lines)
        BY <1>2, <1>3, <3>2, EmptySeq DEF TypeInv
      <4> QED BY <4>1, <3>2, <1>3 DEF TailOf, Event
    <3> QED BY <3>1, <3>2
  <2>2. Len(lines) <= spent.appends /\ spent.appends \in Nat
    BY <1>2, <1>3, LenProperties DEF TypeInv
  <2> QED BY <2>1, <2>2, <1>1, <1>3, LogAssumption DEF Seal, Event, Verifies
<1>7. s \in SessionType /\ s.pc = "written" /\ s.event = e /\ s.at = session[p].at /\ s.kind = session[p].kind
  <2> HIDE DEF e
  <2> QED BY <1>2, <1>6 DEF SessionType, Piece
<1> HIDE DEF s, e
<1>8. \A q \in Procs : session'[q] = IF q = p THEN s ELSE session[q]
  BY <1>2, <1>5 DEF TypeInv
<1>9. /\ ChainInv' /\ StoredInv' /\ AckedInv'
      /\ \A g : IsPrefixOfLog(g) => IsPrefixOfLog(g)'
      /\ TailOf(lines)' = TailOf(lines)
  BY <1>1 DEF CoreInv, ChainInv, StoredInv, AckedInv, InLog, IsPrefixOfLog, TailOf
<1>10. TypeInv'
  <2>1. rest' \in Seq(Piece) /\ Len(rest') = 1
    BY <1>5, <1>6 DEF Piece
  <2>2. /\ spent' \in [appends : Nat, crashes : Nat, faults : Nat]
        /\ spent'.appends = spent.appends + 1 /\ spent'.faults = spent.faults
        /\ spent.appends \in Nat
    BY <1>1, <1>2 DEF TypeInv
  <2>3. Len(lines') + Len(rest') <= spent'.appends /\ spent'.appends <= MaxAppends
    BY <2>1, <2>2, <1>1, <1>2, <1>3, <1>4, LogAssumption DEF TypeInv
  <2> QED BY <2>1, <2>2, <2>3, <1>1, <1>2, <1>5, <1>7 DEF TypeInv
<1>11. ASSUME NEW q \in Procs PROVE CacheInv(q)' /\ SessionInv(q)' /\ LoadInv(q)'
  <2>1. CacheInv(q)'
    BY <1>1, <1>2, <1>9 DEF CacheInv
  <2>2. SessionInv(q)'
    <3>1. CASE q = p
      <4>1. session'[q].pc = "written" /\ session'[q].event = e /\ session'[q].at = TailOf(lines)
            /\ session'[q].kind = session[p].kind
        BY <3>1, <1>4, <1>7, <1>8
      <4>2. lock' = q /\ rest' = << e >>
        BY <3>1, <1>1, <1>4, <1>5
      <4>3. session'[q].kind # "none"
        BY <3>1, <4>1, <1>1, <1>2 DEF SessionInv
      <4>4. tail'[q] \in {Unknown, TailOf(lines)} \/ (q \in Servers /\ session'[q].kind = "request")
        BY <3>1, <4>1, <1>1, <1>2 DEF SessionInv
      <4> QED BY <4>1, <4>2, <4>3, <4>4, <1>6, <1>9 DEF SessionInv
    <3>2. CASE q # p
      <4>1. session[q].pc = "idle" /\ session'[q] = session[q]
        BY <3>2, <1>2, <1>4, <1>8 DEF SessionInv
      <4> QED BY <3>2, <4>1, <1>1, <1>2 DEF SessionInv
    <3> QED BY <3>1, <3>2
  <2>3. LoadInv(q)'
    <3>1. load'[q] = load[q] /\ (load[q].pc = "idle" \/ load[q].why = "read")
      BY <1>1, <1>2, <1>4 DEF LoadInv
    <3> QED BY <3>1, <1>1, <1>2, <1>9 DEF LoadInv
  <2> QED BY <2>1, <2>2, <2>3
<1> QED BY <1>9, <1>10, <1>11 DEF CoreInv

LEMMA AppendFacts ==
  ASSUME NEW s \in Seq(Event), NEW e \in Event
  PROVE  /\ Append(s, e) \in Seq(Event) /\ Append(s, e) # << >>
         /\ Len(s) \in Nat /\ Len(Append(s, e)) = Len(s) + 1
         /\ Append(s, e)[Len(s) + 1] = e
         /\ \A i \in 1..Len(s) : Append(s, e)[i] = s[i]
         /\ \A n \in 0..Len(s) : SubSeq(Append(s, e), 1, n) = SubSeq(s, 1, n)
<1> DEFINE a == Append(s, e)
<1>1. /\ a \in Seq(Event) /\ a # << >>
      /\ Len(s) \in Nat /\ Len(a) = Len(s) + 1
      /\ a[Len(s) + 1] = e
      /\ \A i \in 1..Len(s) : a[i] = s[i]
  BY AppendProperties, LenProperties
<1>2. ASSUME NEW n \in 0..Len(s) PROVE SubSeq(a, 1, n) = SubSeq(s, 1, n)
  <2> HIDE DEF a
  <2>1. \A i \in 1..n : a[i] \in Event /\ s[i] \in Event /\ a[i] = s[i]
    BY <1>1, ElementOfSeq
  <2>2. n \in Nat /\ n \in Int
    BY <1>1
  <2>3. /\ SubSeq(a, 1, n) \in Seq(Event) /\ Len(SubSeq(a, 1, n)) = IF 1 <= n THEN n - 1 + 1 ELSE 0
        /\ \A i \in 1..(n - 1 + 1) : SubSeq(a, 1, n)[i] = a[1 + i - 1]
    BY <2>1, <2>2, SubSeqProperties
  <2>4. /\ SubSeq(s, 1, n) \in Seq(Event) /\ Len(SubSeq(s, 1, n)) = IF 1 <= n THEN n - 1 + 1 ELSE 0
        /\ \A i \in 1..(n - 1 + 1) : SubSeq(s, 1, n)[i] = s[1 + i - 1]
    BY <2>1, <2>2, SubSeqProperties
  <2>5. /\ Len(SubSeq(a, 1, n)) = n /\ Len(SubSeq(s, 1, n)) = n
        /\ \A i \in 1..n : SubSeq(a, 1, n)[i] = SubSeq(s, 1, n)[i]
    BY <2>1, <2>2, <2>3, <2>4
  <2> QED BY <2>3, <2>4, <2>5, SeqEqual
<1> QED BY <1>1, <1>2

\* While a line is being written no load of a locked section is under way.
LEMMA WritingAlone ==
  ASSUME CoreInv, NEW p \in Procs, Writing(p), NEW q \in Procs
  PROVE  /\ load[q].pc = "idle" \/ load[q].why = "read"
         /\ q # p => session[q].pc = "idle"
<1>1. /\ SessionInv(p) /\ SessionInv(q) /\ LoadInv(q) /\ session[p].pc = "written"
  BY DEF CoreInv, Writing
<1>2. lock = p /\ (q # p => session[q].pc = "idle")
  BY <1>1 DEF SessionInv
<1> QED BY <1>1, <1>2 DEF LoadInv

LEMMA EndLineInv ==
  ASSUME CoreInv, NEW p \in Procs, EndLine(p)
  PROVE  CoreInv' /\ lines' = Append(lines, session[p].event)
<1> DEFINE e == session[p].event
           s == [session[p] EXCEPT !.pc = "appended"]
           n == Len(lines)
<1>1. /\ UNCHANGED << stored, lock, prefix, load, spent >>
      /\ Writing(p) /\ rest' = << >>
      /\ tail' = [tail EXCEPT ![p] = TailOf(<< e >>)]
      /\ acked' = acked \cup {e}
      /\ session' = [session EXCEPT ![p] = s]
  BY DEF EndLine
<1>2. /\ TypeInv /\ ChainInv /\ StoredInv /\ AckedInv
      /\ session[p] \in SessionType /\ lines \in Seq(Event)
      /\ \A q \in Procs : CacheInv(q) /\ SessionInv(q) /\ LoadInv(q)
  BY DEF CoreInv, TypeInv
<1>3. /\ e \in Event /\ rest = << e >> /\ lock = p /\ session[p].at = TailOf(lines)
      /\ Verifies(e, TailOf(lines))
  BY <1>1, <1>2 DEF SessionInv, Writing
<1>4. lines' = Append(lines, e)
  BY <1>3 DEF EndLine
<1>5. /\ lines' \in Seq(Event) /\ lines' # << >> /\ n \in Nat /\ Len(lines') = n + 1
      /\ lines'[n + 1] = e
      /\ \A i \in 1..n : lines'[i] = lines[i]
      /\ \A m \in 0..n : SubSeq(lines', 1, m) = SubSeq(lines, 1, m)
  BY <1>2, <1>3, <1>4, AppendFacts
<1>6. TailOf(lines) \in Mark /\ TailOf(lines).seq = n /\ \A i \in 1..n : lines[i] \in Event
  BY <1>2, TailFacts
<1>7. e.seq = n + 1 /\ e.prev = IF n = 0 THEN 0 ELSE lines[n].id
  <2>1. e.seq = n + 1 /\ e.prev = TailOf(lines).id
    BY <1>3, <1>6 DEF Verifies
  <2>2. lines = << >> <=> n = 0
    BY <1>2, EmptySeq
  <2> QED BY <2>1, <2>2 DEF TailOf, Genesis
<1>8. TailOf(lines)' = TailOf(<< e >>) /\ TailOf(<< e >>) = [seq |-> e.seq, id |-> e.id]
      /\ TailOf(<< e >>) \in Mark
  <2>1. << e >> # << >> /\ Len(<< e >>) = 1 /\ << e >>[1] = e
    OBVIOUS
  <2> HIDE DEF e
  <2>2. TailOf(<< e >>) = [seq |-> e.seq, id |-> e.id]
    BY <2>1 DEF TailOf
  <2> QED BY <2>2, <1>3, <1>5 DEF TailOf, Mark, Event
<1> HIDE DEF n
<1>9. ChainInv'
  <2> SUFFICES ASSUME NEW i \in 1..Len(lines')
               PROVE  lines'[i].seq = i /\ lines'[i].prev = IF i = 1 THEN 0 ELSE lines'[i - 1].id
    BY DEF ChainInv
  <2> HIDE DEF e
  <2>1. CASE i = n + 1
    BY <2>1, <1>5, <1>7
  <2>2. CASE i # n + 1
    <3>1. i \in 1..n /\ (i # 1 => i - 1 \in 1..n)
      BY <2>2, <1>5
    <3> QED BY <3>1, <1>2, <1>5 DEF ChainInv, n
  <2> QED BY <2>1, <2>2
<1>10. StoredInv'
  <2>1. stored.seq \in Nat /\ stored.seq <= n /\ stored' = stored
    BY <1>1, <1>2 DEF TypeInv, Mark, StoredInv, n
  <2>2. stored.seq # 0 => lines'[stored.seq] = lines[stored.seq]
    BY <2>1, <1>5
  <2> QED BY <2>1, <2>2, <1>2, <1>5 DEF StoredInv
<1>11. AckedInv'
  <2>1. \A f : InLog(f) => InLog(f)'
    BY <1>5 DEF InLog, n
  <2>2. InLog(e)'
    <3> HIDE DEF e
    <3>1. n + 1 \in 1..Len(lines')
      BY <1>5
    <3>2. \E i \in 1..Len(lines') : lines'[i] = e
      BY <3>1, <1>5
    <3> QED BY <3>2, <1>1, <1>5 DEF InLog, e
  <2> QED BY <2>1, <2>2, <1>1, <1>2 DEF AckedInv
<1>12. \A f \in Prefix : IsPrefixOfLog(f) => IsPrefixOfLog(f)'
  <2> SUFFICES ASSUME NEW f \in Prefix, IsPrefixOfLog(f) PROVE IsPrefixOfLog(f)'
    OBVIOUS
  <2>1. f.off = Len(f.events) /\ f.off \in 0..n /\ f.events = SubSeq(lines, 1, f.off)
    BY <1>5 DEF IsPrefixOfLog, Prefix, n
  <2> QED BY <2>1, <1>5 DEF IsPrefixOfLog
<1>13. s \in SessionType /\ s.pc = "appended" /\ s.event = e /\ s.at = session[p].at /\ s.kind = session[p].kind
  BY <1>2 DEF SessionType
<1> HIDE DEF s
<1>14. \A q \in Procs : /\ session'[q] = IF q = p THEN s ELSE session[q]
                        /\ tail'[q] = IF q = p THEN TailOf(<< e >>) ELSE tail[q]
  BY <1>1, <1>2 DEF TypeInv
<1>15. TypeInv'
  <2>1. rest' \in Seq(Piece) /\ Len(rest') = 0 /\ Len(rest) = 1
    BY <1>1, <1>3
  <2>2. Len(lines') + Len(rest') <= spent'.appends
    BY <2>1, <1>1, <1>2, <1>5 DEF TypeInv, n
  <2>3. session' \in [Procs -> SessionType] /\ tail' \in [Procs -> Mark]
    BY <1>1, <1>2, <1>8, <1>13 DEF TypeInv
  <2>4. acked' \subseteq Event
    BY <1>1, <1>2, <1>3 DEF TypeInv
  <2> QED BY <2>1, <2>2, <2>3, <2>4, <1>1, <1>2, <1>5 DEF TypeInv
<1>16. ASSUME NEW q \in Procs PROVE CacheInv(q)' /\ SessionInv(q)' /\ LoadInv(q)'
  <2>1. CacheInv(q)'
    BY <1>1, <1>2, <1>12 DEF CacheInv, TypeInv
  <2>2. SessionInv(q)'
    <3>1. CASE q = p
      <4>1. /\ session'[q].pc = "appended" /\ session'[q].event = e /\ session'[q].at = TailOf(lines)
            /\ session'[q].kind = session[p].kind /\ tail'[q] = TailOf(lines)'
        BY <3>1, <1>3, <1>8, <1>13, <1>14
      <4>2. lock' = q /\ rest' = << >> /\ lines'[Len(lines')] = e
        BY <3>1, <1>1, <1>3, <1>5
      <4>3. session'[q].kind # "none"
        BY <3>1, <4>1, <1>1, <1>2 DEF SessionInv, Writing
      <4>4. Verifies(session[q].event, session[q].at)'
        BY <4>1, <1>3 DEF Verifies
      <4> QED BY <4>1, <4>2, <4>3, <4>4, <1>5 DEF SessionInv
    <3>2. CASE q # p
      <4>1. session[q].pc = "idle" /\ session'[q] = session[q] /\ tail'[q] = tail[q]
        BY <3>2, <1>1, <1>14, WritingAlone
      <4> QED BY <3>2, <4>1, <1>1, <1>2 DEF SessionInv
    <3> QED BY <3>1, <3>2
  <2>3. LoadInv(q)'
    <3>1. load'[q] = load[q] /\ (load[q].pc = "idle" \/ load[q].why = "read")
      BY <1>1, WritingAlone
    <3>2. load[q].pc # "idle" => IsPrefixOfLog(load[q].found)'
      <4>1. load[q].found \in Prefix
        BY <1>2 DEF TypeInv, LoadType
      <4>2. load[q].pc # "idle" => IsPrefixOfLog(load[q].found)
        BY <1>2 DEF LoadInv
      <4> QED BY <4>1, <4>2, <3>1, <1>12
    <3> QED BY <3>1, <3>2 DEF LoadInv
  <2> QED BY <2>1, <2>2, <2>3
<1> QED BY <1>4, <1>9, <1>10, <1>11, <1>15, <1>16 DEF CoreInv

\* The record that was appended is accepted by the projection, which is stored with it.
LEMMA ApplyAppendedInv ==
  ASSUME CoreInv, NEW p \in Procs, ApplyAppended(p)
  PROVE  CoreInv' /\ InLog(session[p].event)
<1> DEFINE e == session[p].event
           s == [session[p] EXCEPT !.pc = "ready", !.at = TailOf(lines)]
<1>1. /\ UNCHANGED << lines, rest, lock, tail, prefix, load, acked, spent >>
      /\ session[p].pc = "appended"
  BY DEF ApplyAppended
<1>2. /\ TypeInv /\ ChainInv /\ StoredInv /\ AckedInv
      /\ session[p] \in SessionType /\ lines \in Seq(Event)
      /\ \A q \in Procs : CacheInv(q) /\ SessionInv(q) /\ LoadInv(q)
  BY DEF CoreInv, TypeInv
<1>3. /\ rest = << >> /\ lock = p /\ tail[p] = TailOf(lines)
      /\ lines # << >> /\ e = lines[Len(lines)] /\ Verifies(e, session[p].at)
  BY <1>1, <1>2 DEF SessionInv
<1>4. /\ Len(lines) \in 1..Len(lines) /\ TailOf(lines) \in Mark /\ TailOf(lines).seq = Len(lines)
      /\ TailOf(lines).id = lines[Len(lines)].id
  <2>1. Len(lines) \in Nat /\ TailOf(lines) \in Mark /\ TailOf(lines).seq = Len(lines)
    BY <1>2, TailFacts
  <2>2. Len(lines) # 0
    BY <1>2, <1>3, EmptySeq
  <2> QED BY <2>1, <2>2, <1>3 DEF TailOf
<1>5. TailOf(<< e >>) = TailOf(lines)
  <2>1. << e >> # << >> /\ Len(<< e >>) = 1 /\ << e >>[1] = e
    OBVIOUS
  <2> HIDE DEF e
  <2> QED BY <2>1, <1>3 DEF TailOf
<1>6. stored' = TailOf(lines) /\ session' = [session EXCEPT ![p] = s]
  <2>1. stored' = TailOf(<< e >>) /\ session' = [session EXCEPT ![p].pc = "ready", ![p].at = stored']
    BY <1>3 DEF ApplyAppended
  <2> QED BY <2>1, <1>2, <1>5 DEF TypeInv
<1>7. s \in SessionType /\ s.pc = "ready" /\ s.at = TailOf(lines) /\ s.kind = session[p].kind
  BY <1>2, <1>4 DEF SessionType
<1>8. InLog(e)
  BY <1>3, <1>4 DEF InLog
<1> HIDE DEF s, e
<1>9. \A q \in Procs : session'[q] = IF q = p THEN s ELSE session[q]
  BY <1>2, <1>6 DEF TypeInv
<1>10. /\ ChainInv' /\ AckedInv'
       /\ \A g : IsPrefixOfLog(g) => IsPrefixOfLog(g)'
       /\ TailOf(lines)' = TailOf(lines)
  BY <1>1, <1>2 DEF ChainInv, AckedInv, InLog, IsPrefixOfLog, TailOf
<1>11. StoredInv'
  BY <1>1, <1>4, <1>6 DEF StoredInv
<1>12. TypeInv'
  BY <1>1, <1>2, <1>4, <1>6, <1>7 DEF TypeInv
<1>13. ASSUME NEW q \in Procs PROVE CacheInv(q)' /\ SessionInv(q)' /\ LoadInv(q)'
  <2>1. CacheInv(q)'
    BY <1>1, <1>2, <1>10 DEF CacheInv
  <2>2. SessionInv(q)'
    <3>1. CASE q = p
      <4>1. session'[q].kind # "none"
        BY <3>1, <1>1, <1>2, <1>7, <1>9 DEF SessionInv
      <4> QED BY <3>1, <4>1, <1>1, <1>3, <1>7, <1>9, <1>10 DEF SessionInv
    <3>2. CASE q # p
      <4>1. session[q].pc = "idle" /\ session'[q] = session[q]
        BY <3>2, <1>2, <1>3, <1>9 DEF SessionInv
      <4> QED BY <3>2, <4>1, <1>1, <1>2 DEF SessionInv
    <3> QED BY <3>1, <3>2
  <2>3. LoadInv(q)'
    <3>1. load'[q] = load[q] /\ (load[q].pc = "idle" \/ load[q].why = "read")
      BY <1>1, <1>2, <1>3 DEF LoadInv
    <3> QED BY <3>1, <1>1, <1>2, <1>10 DEF LoadInv
  <2> QED BY <2>1, <2>2, <2>3
<1> QED BY <1>8, <1>10, <1>11, <1>12, <1>13 DEF CoreInv, e

\* Leaving a locked section, by the end of a command, by a server or by a kill.
LEMMA LeaveInv ==
  ASSUME CoreInv, NEW p \in Procs,
         UNCHANGED << lines, rest, stored, acked >>,
         spent' \in [appends : Nat, crashes : Nat, faults : Nat],
         spent'.appends = spent.appends, spent'.faults = spent.faults,
         session' = [session EXCEPT ![p] = NoSession],
         lock' = IF lock = p THEN Nobody ELSE lock,
         \/ tail' = [tail EXCEPT ![p] = Unknown]
         \/ tail' = tail /\ p \in Servers,
         \/ prefix' = [prefix EXCEPT ![p] = EmptyPrefix]
         \/ prefix' = prefix,
         \/ load' = [load EXCEPT ![p] = NoLoad]
         \/ load' = load /\ load[p].pc = "idle"
  PROVE  CoreInv'
<1>1. TypeInv /\ \A q \in Procs : CacheInv(q) /\ SessionInv(q) /\ LoadInv(q)
  BY DEF CoreInv
<1>2. /\ ChainInv' /\ StoredInv' /\ AckedInv'
      /\ \A g : IsPrefixOfLog(g) => IsPrefixOfLog(g)'
      /\ TailOf(lines)' = TailOf(lines)
  BY DEF CoreInv, ChainInv, StoredInv, AckedInv, InLog, IsPrefixOfLog, TailOf
<1>3. /\ Unknown \in Mark /\ EmptyPrefix \in Prefix /\ NoLoad \in LoadType /\ NoSession \in SessionType
      /\ NoLoad.pc = "idle" /\ NoSession.pc = "idle" /\ NoSession.kind = "none"
  <2>1. << >> \in Seq(Event) /\ << >> \in Seq(Piece)
    BY EmptySeq
  <2> QED BY <2>1, LogAssumption DEF Unknown, Mark, EmptyPrefix, Prefix, NoLoad, LoadType,
                                  NoSession, SessionType, Genesis, Piece
<1>4. IsPrefixOfLog(EmptyPrefix)'
  <2>1. lines' \in Seq(Event) /\ Len(lines') \in Nat
    BY <1>1, LenProperties DEF TypeInv
  <2>2. SubSeq(lines', 1, 0) = << >>
    BY <2>1, SubSeqEmpty
  <2> QED BY <2>1, <2>2 DEF IsPrefixOfLog, EmptyPrefix
<1>5. TypeInv'
  <2>1. /\ session' \in [Procs -> SessionType] /\ tail' \in [Procs -> Mark]
        /\ prefix' \in [Procs -> Prefix] /\ load' \in [Procs -> LoadType]
    BY <1>1, <1>3 DEF TypeInv
  <2> QED BY <2>1, <1>1, <1>3 DEF TypeInv
<1>6. ASSUME NEW q \in Procs
      PROVE  /\ session'[q] = IF q = p THEN NoSession ELSE session[q]
             /\ IF q = p THEN tail'[q] = Unknown \/ p \in Servers ELSE tail'[q] = tail[q]
             /\ IF q = p THEN load'[q].pc = "idle" ELSE load'[q] = load[q]
             /\ prefix'[q] \in {EmptyPrefix, prefix[q]}
  BY <1>1, <1>3 DEF TypeInv
<1>7. ASSUME NEW q \in Procs PROVE CacheInv(q)' /\ SessionInv(q)' /\ LoadInv(q)'
  <2>1. CacheInv(q)'
    BY <1>1, <1>2, <1>4, <1>6 DEF CacheInv
  <2>2. SessionInv(q)'
    <3>1. CASE q = p
      <4>1. session'[q].pc = "idle" /\ session'[q].kind = "none" /\ lock' # q
        BY <3>1, <1>3, <1>6, LogAssumption
      <4> QED BY <3>1, <4>1, <1>6 DEF SessionInv
    <3>2. CASE q # p
      <4>1. session'[q] = session[q] /\ tail'[q] = tail[q] /\ (lock' = q <=> lock = q)
        BY <3>2, <1>6, LogAssumption
      <4> QED BY <4>1, <1>1, <1>2 DEF SessionInv
    <3> QED BY <3>1, <3>2
  <2>3. LoadInv(q)'
    <3>1. CASE q = p
      BY <3>1, <1>6 DEF LoadInv
    <3>2. CASE q # p
      <4>1. /\ session'[q] = session[q] /\ tail'[q] = tail[q] /\ load'[q] = load[q]
            /\ (lock' = q <=> lock = q)
        BY <3>2, <1>6, LogAssumption
      <4> QED BY <4>1, <1>1, <1>2 DEF LoadInv
    <3> QED BY <3>1, <3>2
  <2> QED BY <2>1, <2>2, <2>3
<1> QED BY <1>2, <1>5, <1>7 DEF CoreInv

LEMMA CloseSessionInv ==
  ASSUME CoreInv, NEW p \in Procs, CloseSession(p)
  PROVE  CoreInv'
<1>1. /\ UNCHANGED << lines, rest, stored, load, acked, spent >>
      /\ session[p].pc \in {"ready", "failed"} /\ load[p].pc = "idle"
      /\ session' = [session EXCEPT ![p] = NoSession] /\ lock' = Nobody
      /\ tail' = [tail EXCEPT ![p] = IF p \in Servers THEN @ ELSE Unknown]
      /\ prefix' = [prefix EXCEPT ![p] = IF p \in Servers THEN @ ELSE EmptyPrefix]
  BY DEF CloseSession
<1>2. TypeInv /\ SessionInv(p)
  BY DEF CoreInv
<1>3. lock' = IF lock = p THEN Nobody ELSE lock
  BY <1>1, <1>2 DEF SessionInv
<1>4. \/ tail' = [tail EXCEPT ![p] = Unknown]
      \/ tail' = tail /\ p \in Servers
  BY <1>1, <1>2 DEF TypeInv
<1>5. \/ prefix' = [prefix EXCEPT ![p] = EmptyPrefix]
      \/ prefix' = prefix
  BY <1>1, <1>2 DEF TypeInv
<1> QED BY <1>1, <1>2, <1>3, <1>4, <1>5, LeaveInv DEF TypeInv

LEMMA KillInv ==
  ASSUME CoreInv, NEW p \in Procs, Kill(p)
  PROVE  CoreInv'
<1>1. TypeInv /\ spent' = [spent EXCEPT !.crashes = @ + 1]
  BY DEF CoreInv, Kill
<1>2. /\ spent' \in [appends : Nat, crashes : Nat, faults : Nat]
      /\ spent'.appends = spent.appends /\ spent'.faults = spent.faults
  BY <1>1 DEF TypeInv
<1> QED BY <1>2, LeaveInv DEF Kill

\* A half-written record stays behind without its newline; the session has failed, or it is
\* a dispatch and goes on.
LEMMA WriteFailsInv ==
  ASSUME CoreInv, NEW p \in Procs, NEW goesOn \in BOOLEAN, WriteFails(p, goesOn)
  PROVE  CoreInv'
<1> DEFINE pc == IF goesOn THEN "ready" ELSE "failed"
           s == [session[p] EXCEPT !.pc = pc]
<1>1. /\ UNCHANGED << lines, stored, lock, tail, prefix, load, acked >>
      /\ Writing(p) /\ (goesOn => session[p].kind = "dispatch")
      /\ spent' = [spent EXCEPT !.faults = @ + 1]
      /\ session' = [session EXCEPT ![p] = s]
  BY DEF WriteFails
<1>2. /\ TypeInv /\ session[p] \in SessionType
      /\ \A q \in Procs : CacheInv(q) /\ SessionInv(q) /\ LoadInv(q)
  BY DEF CoreInv, TypeInv
<1>3. rest = << session[p].event >> /\ lock = p
  BY <1>1, <1>2 DEF SessionInv, Writing
<1>4. rest' \in Seq(Piece) /\ Len(rest') = 1 /\ Len(rest) = 1
  <2>1. rest # << >> /\ Len(rest) = 1 /\ Junk \in Piece /\ rest \in Seq(Piece)
    BY <1>2, <1>3 DEF Piece, TypeInv
  <2>2. rest' = [rest EXCEPT ![1] = Junk]
    BY <2>1 DEF WriteFails
  <2> QED BY <2>1, <2>2
<1>5. /\ ChainInv' /\ StoredInv' /\ AckedInv'
      /\ \A g : IsPrefixOfLog(g) => IsPrefixOfLog(g)'
      /\ TailOf(lines)' = TailOf(lines)
  BY <1>1 DEF CoreInv, ChainInv, StoredInv, AckedInv, InLog, IsPrefixOfLog, TailOf
<1>6. /\ s \in SessionType /\ s.pc = pc /\ s.kind = session[p].kind /\ s.at = session[p].at
      /\ pc \in {"ready", "failed"} /\ (pc = "ready" => s.kind = "dispatch")
  BY <1>1, <1>2 DEF SessionType
<1> HIDE DEF s, pc
<1>7. \A q \in Procs : session'[q] = IF q = p THEN s ELSE session[q]
  BY <1>1, <1>2 DEF TypeInv
<1>8. /\ spent' \in [appends : Nat, crashes : Nat, faults : Nat]
      /\ spent'.appends = spent.appends /\ spent'.faults > 0
  BY <1>1, <1>2 DEF TypeInv
<1>9. TypeInv'
  BY <1>1, <1>2, <1>4, <1>6, <1>8 DEF TypeInv
<1>10. ASSUME NEW q \in Procs PROVE CacheInv(q)' /\ SessionInv(q)' /\ LoadInv(q)'
  <2>1. CacheInv(q)'
    BY <1>1, <1>2, <1>5 DEF CacheInv
  <2>2. SessionInv(q)'
    <3>1. CASE q = p
      <4>1. /\ session'[q] = s /\ s.kind # "none" /\ s.at = TailOf(lines)
            /\ tail'[q] \in {Unknown, TailOf(lines)} \/ (q \in Servers /\ s.kind = "request")
        BY <3>1, <1>1, <1>2, <1>6, <1>7 DEF SessionInv, Writing
      <4> QED BY <3>1, <4>1, <1>1, <1>3, <1>5, <1>6, <1>8 DEF SessionInv
    <3>2. CASE q # p
      <4>1. session[q].pc = "idle" /\ session'[q] = session[q]
        BY <3>2, <1>1, <1>7, WritingAlone
      <4> QED BY <3>2, <4>1, <1>1, <1>2 DEF SessionInv
    <3> QED BY <3>1, <3>2
  <2>3. LoadInv(q)'
    <3>1. load'[q] = load[q] /\ (load[q].pc = "idle" \/ load[q].why = "read")
      BY <1>1, WritingAlone
    <3> QED BY <3>1, <1>1, <1>2, <1>5 DEF LoadInv
  <2> QED BY <2>1, <2>2, <2>3
<1> QED BY <1>5, <1>9, <1>10 DEF CoreInv

(***************************************************************************)
(* Every step of the system.                                               *)
(***************************************************************************)
\* The file keeps its lines or gains one behind its end.
LinesGrow ==
  \/ lines' = lines
  \/ \E e \in Event : Verifies(e, TailOf(lines)) /\ lines' = Append(lines, e)

LEMMA EndLineGrows ==
  ASSUME CoreInv, NEW p \in Procs, EndLine(p)
  PROVE  LinesGrow
<1>1. lines' = Append(lines, session[p].event)
  BY EndLineInv
<1>2. session[p].event \in Event /\ Verifies(session[p].event, TailOf(lines))
  BY DEF CoreInv, SessionInv, EndLine, Writing
<1> QED BY <1>1, <1>2 DEF LinesGrow

LEMMA ProcessStepInv ==
  ASSUME CoreInv, Unharmed', NEW p \in Procs, ProcessStep(p)
  PROVE  CoreInv' /\ LinesGrow
<1>1. CASE ReadLog(p) \/ LoadSession(p) \/ LoadToSeal(p)
  <2>1. lines' = lines
    BY <1>1 DEF ReadLog, LoadSession, LoadToSeal, LoadFile
  <2> QED BY <1>1, <2>1, LoadsInv DEF LinesGrow
<1>2. CASE CompareTail(p)
  BY <1>2, CompareTailInv DEF CompareTail, LinesGrow
<1>3. CASE CutTail(p)
  BY <1>3, CutTailInv, CutTailKeeps DEF LinesGrow
<1>4. CASE EndLoad(p)
  BY <1>4, EndLoadInv DEF EndLoad, LinesGrow
<1>5. CASE \E kind \in {"dispatch", "request"} : OpenSession(p, kind)
  BY <1>5, OpenSessionInv DEF OpenSession, LinesGrow
<1>6. CASE WriteLine(p)
  BY <1>6, WriteLineInv DEF WriteLine, LinesGrow
<1>7. CASE EndLine(p)
  BY <1>7, EndLineInv, EndLineGrows
<1>8. CASE ApplyAppended(p)
  BY <1>8, ApplyAppendedInv DEF ApplyAppended, LinesGrow
<1>9. CASE CloseSession(p)
  BY <1>9, CloseSessionInv DEF CloseSession, LinesGrow
<1>10. CASE \E goesOn \in BOOLEAN : WriteFails(p, goesOn)
  BY <1>10, WriteFailsInv DEF WriteFails, LinesGrow
<1> QED BY <1>1, <1>2, <1>3, <1>4, <1>5, <1>6, <1>7, <1>8, <1>9, <1>10 DEF ProcessStep

LEMMA CoreKept ==
  ASSUME CoreInv, UNCHANGED logVars
  PROVE  CoreInv' /\ LinesGrow
BY DEF logVars, CoreInv, TypeInv, ChainInv, StoredInv, AckedInv, InLog, CacheInv, SessionInv,
       LoadInv, IsPrefixOfLog, TailOf, Writing, Verifies, LinesGrow

LEMMA CoreStep ==
  ASSUME CoreInv, Unharmed', [Next]_vars
  PROVE  CoreInv' /\ LinesGrow
<1>1. CASE UNCHANGED logVars
  BY <1>1, CoreKept
<1>2. ASSUME NEW p \in Procs, LogStep(p) \/ KillProcess(p) PROVE CoreInv' /\ LinesGrow
  <2>1. CASE LogStep(p)
    BY <2>1, ProcessStepInv DEF LogStep
  <2>2. CASE KillProcess(p)
    BY <2>2, KillInv DEF KillProcess, Kill, LinesGrow
  <2> QED BY <1>2, <2>1, <2>2
<1>3. ASSUME NEW c \in Clients, Replay(c) PROVE CoreInv' /\ LinesGrow
  <2>1. Server \in Procs /\ ReadLog(Server)
    BY <1>3, StreamAssumption, LogAssumption DEF Replay
  <2> QED BY <2>1, ProcessStepInv DEF ProcessStep
<1>4. CASE \E c \in Clients : Connect(c) \/ Receive(c) \/ Disconnect(c)
  BY <1>1, <1>4 DEF Connect, Receive, Disconnect
<1>5. CASE UNCHANGED vars
  BY <1>1, <1>5 DEF vars, logVars
<1> QED BY <1>2, <1>3, <1>4, <1>5 DEF Next

LEMMA InLogKept ==
  ASSUME TypeInv, LinesGrow
  PROVE  \A f : InLog(f) => InLog(f)'
<1>1. CASE lines' = lines
  BY <1>1 DEF InLog
<1>2. CASE lines' # lines
  <2>1. PICK e \in Event : lines' = Append(lines, e)
    BY <1>2 DEF LinesGrow
  <2>2. /\ Len(lines) \in Nat /\ Len(lines') = Len(lines) + 1
        /\ \A i \in 1..Len(lines) : lines'[i] = lines[i]
    BY <2>1, AppendFacts DEF TypeInv
  <2> QED BY <2>2 DEF InLog
<1> QED BY <1>1, <1>2

(***************************************************************************)
(* The stream.                                                             *)
(***************************************************************************)
\* The page that is replayed when a stream is opened: unless it is full, it is the whole
\* log.
LEMMA PageFacts ==
  ASSUME TypeInv, ChainInv
  PROVE  /\ PageOf(lines) \subseteq Nat
         /\ Cardinality(PageOf(lines)) # PageLimit => \A e : InLog(e) => e.seq \in PageOf(lines)
<1> DEFINE n == Len(lines)
<1>1. n \in Nat /\ \A i \in 1..n : lines[i].seq = i
  BY TailFacts DEF ChainInv
<1>2. PageOf(lines) = (1..n) \cap (1..PageLimit)
  <2>1. {lines[i].seq : i \in 1..n} = 1..n
    BY <1>1
  <2>2. After + 1 = 1 /\ After + PageLimit = PageLimit
    BY StreamAssumption DEF After
  <2> QED BY <2>1, <2>2 DEF PageOf
<1>3. CASE PageLimit <= n
  <2>1. PageOf(lines) = 1..PageLimit
    BY <1>1, <1>2, <1>3, StreamAssumption
  <2>2. Cardinality(1..PageLimit) = PageLimit
    <3>1. PageLimit \in Nat /\ PageLimit # 0
      BY StreamAssumption
    <3>2. Cardinality(1..PageLimit) = IF 1 > PageLimit THEN 0 ELSE PageLimit - 1 + 1
      BY <3>1, FS_Interval
    <3> QED BY <3>1, <3>2
  <2> QED BY <2>1, <2>2, StreamAssumption
<1>4. CASE ~(PageLimit <= n)
  <2>1. PageOf(lines) = 1..n
    BY <1>1, <1>2, <1>4, StreamAssumption
  <2> QED BY <2>1, <1>1 DEF InLog
<1> QED BY <1>3, <1>4

LEMMA StreamStep ==
  ASSUME CoreInv, StreamInv, Unharmed', [Next]_vars
  PROVE  StreamInv'
<1>1. /\ TypeInv /\ ChainInv /\ CoreInv' /\ LinesGrow
      /\ \A f : InLog(f) => InLog(f)'
  BY CoreStep, InLogKept DEF CoreInv
<1>2. /\ channel \in Seq(Event) /\ client \in [Clients -> ClientType] /\ Len(channel) \in Nat
      /\ \A i \in 1..Len(channel) : channel[i] \in Event /\ InLog(channel[i])
      /\ \A c \in Clients :
           /\ client[c] \in ClientType
           /\ client[c].pc # "offline" => client[c].next <= Len(channel) + 1
           /\ client[c].pc = "live" /\ ~client[c].told /\ ~client[c].full =>
                \A i \in 1..Len(channel) : i < client[c].next => channel[i].seq \in client[c].got
  BY LenProperties, ElementOfSeq DEF StreamInv
<1>3. ASSUME NEW p \in Procs, LogStep(p) PROVE StreamInv'
  <2>1. client' = client /\ Publish(p) /\ ProcessStep(p)
    BY <1>3 DEF LogStep
  <2>2. CASE channel' = channel
    BY <2>1, <2>2, <1>1, <1>2 DEF StreamInv
  <2>3. CASE channel' # channel
    <3> DEFINE e == session[p].event
    <3>1. session[p].pc = "appended" /\ channel' = Append(channel, e)
      BY <2>1, <2>3 DEF Publish
    <3>2. e \in Event /\ InLog(e)
      <4>1. lines # << >> /\ e = lines[Len(lines)]
        BY <3>1 DEF CoreInv, SessionInv
      <4>2. Len(lines) \in 1..Len(lines) /\ \A i \in 1..Len(lines) : lines[i] \in Event
        BY <4>1, <1>1, TailFacts, EmptySeq DEF TypeInv
      <4> QED BY <4>1, <4>2 DEF InLog
    <3>3. InLog(e) => \E i \in 1..Len(lines') : lines'[i] = e
      <4> HIDE DEF e
      <4> QED BY <1>1 DEF InLog
    <3> HIDE DEF e
    <3>4. /\ channel' \in Seq(Event) /\ Len(channel') = Len(channel) + 1
          /\ channel'[Len(channel) + 1] = e
          /\ \A i \in 1..Len(channel) : channel'[i] = channel[i]
      BY <3>1, <3>2, <1>2, AppendFacts
    <3>5. ASSUME NEW i \in 1..Len(channel') PROVE InLog(channel[i])'
      <4>1. CASE i = Len(channel) + 1
        BY <4>1, <3>2, <3>3, <3>4 DEF InLog
      <4>2. CASE i # Len(channel) + 1
        <5>1. i \in 1..Len(channel) /\ channel'[i] = channel[i]
          BY <4>2, <3>4, <1>2
        <5> QED BY <5>1, <1>1, <1>2
      <4> QED BY <4>1, <4>2
    <3>6. ASSUME NEW c \in Clients
          PROVE  /\ client'[c].pc # "offline" => client'[c].next <= Len(channel') + 1
                 /\ client'[c].pc = "live" /\ ~client'[c].told /\ ~client'[c].full =>
                      \A i \in 1..Len(channel') :
                        i < client'[c].next => channel'[i].seq \in client'[c].got
      <4>1. client'[c] = client[c] /\ client[c].next \in Nat
        BY <2>1, <1>2 DEF ClientType
      <4>2. client[c].pc # "offline" =>
              \A i \in 1..Len(channel') : i < client[c].next => i \in 1..Len(channel)
        BY <4>1, <3>4, <1>2
      <4> QED BY <4>1, <4>2, <3>4, <1>2
    <3> QED BY <3>4, <3>5, <3>6, <2>1, <1>2 DEF StreamInv
  <2> QED BY <2>2, <2>3
<1>4. ASSUME NEW p \in Procs, KillProcess(p) PROVE StreamInv'
  <2>1. CASE p = Server
    <3>1. channel' = << >> /\ client' = [c \in Clients |-> Drop(c)]
      BY <1>4, <2>1 DEF KillProcess
    <3>2. \A c \in Clients : Drop(c) \in ClientType /\ Drop(c).pc = "offline"
      BY <1>2 DEF Drop, ClientType
    <3>3. channel' \in Seq(Event) /\ Len(channel') = 0
      BY <3>1, EmptySeq
    <3> HIDE DEF ClientType
    <3> QED BY <3>1, <3>2, <3>3 DEF StreamInv
  <2>2. CASE p # Server
    <3>1. channel' = channel /\ client' = client
      BY <1>2, <1>4, <2>2 DEF KillProcess
    <3> QED BY <3>1, <1>1, <1>2 DEF StreamInv
  <2> QED BY <2>1, <2>2
<1>5. ASSUME NEW c \in Clients, NEW k \in ClientType,
             channel' = channel, client' = [client EXCEPT ![c] = k],
             k.pc # "offline" => k.next <= Len(channel) + 1,
             k.pc = "live" /\ ~k.told /\ ~k.full =>
               \A i \in 1..Len(channel) : i < k.next => channel[i].seq \in k.got
      PROVE  StreamInv'
  <2>1. \A d \in Clients : client'[d] = IF d = c THEN k ELSE client[d]
    BY <1>2, <1>5
  <2>2. client' \in [Clients -> ClientType]
    BY <1>2, <1>5
  <2> QED BY <2>1, <2>2, <1>1, <1>2, <1>5 DEF StreamInv
<1>6. ASSUME NEW c \in Clients, Connect(c) PROVE StreamInv'
  <2> DEFINE k == [Offline EXCEPT !.pc = "subscribed", !.next = Len(channel) + 1,
                                  !.connects = client[c].connects + 1]
  <2>1. k \in ClientType /\ k.pc = "subscribed" /\ k.next <= Len(channel) + 1
    <3>1. client[c].connects + 1 \in Nat /\ Len(channel) + 1 \in Nat \ {0}
      BY <1>2 DEF ClientType
    <3>2. Offline \in ClientType
      BY DEF Offline, ClientType
    <3>3. ASSUME NEW o \in ClientType, NEW n \in Nat \ {0}, NEW m \in Nat
          PROVE  LET x == [o EXCEPT !.pc = "subscribed", !.next = n, !.connects = m]
                 IN  x \in ClientType /\ x.pc = "subscribed" /\ x.next <= n
      <4> DEFINE y == [o EXCEPT !.pc = "subscribed"]
                 z == [y EXCEPT !.next = n]
                 x == [z EXCEPT !.connects = m]
      <4>1. y \in ClientType /\ y.pc = "subscribed"
        BY DEF ClientType
      <4>2. z \in ClientType /\ z.pc = "subscribed" /\ z.next = n
        <5> HIDE DEF y
        <5> QED BY <4>1 DEF ClientType
      <4>3. x \in ClientType /\ x.pc = "subscribed" /\ x.next = n
        <5> HIDE DEF z
        <5> QED BY <4>2 DEF ClientType
      <4>4. x = [o EXCEPT !.pc = "subscribed", !.next = n, !.connects = m]
        OBVIOUS
      <4> HIDE DEF x
      <4> QED BY <4>3, <4>4
    <3> HIDE DEF Offline
    <3> QED BY <3>1, <3>2, <3>3
  <2>2. channel' = channel /\ client' = [client EXCEPT ![c] = k]
    BY <1>6 DEF Connect
  <2> HIDE DEF k
  <2> QED BY <2>1, <2>2, <1>2, <1>5
<1>7. ASSUME NEW c \in Clients, Replay(c) PROVE StreamInv'
  <2> DEFINE page == PageOf(lines)
             k == [client[c] EXCEPT !.pc = "live", !.got = page,
                                    !.full = Cardinality(page) = PageLimit]
  <2>1. Server \in Procs
    BY StreamAssumption, LogAssumption
  <2>2. Loaded(Server) = [events |-> lines, off |-> Len(lines)] /\ ChainHolds(Server)
    BY <2>1, <1>1, LoadFacts DEF CoreInv
  <2>3. Loaded(Server).events = lines
    BY <2>2
  <2>4. channel' = channel /\ client' = [client EXCEPT ![c] = k] /\ client[c].pc = "subscribed"
    BY <1>7, <2>2, <2>3 DEF Replay
  <2>5. page \subseteq Nat /\ (Cardinality(page) # PageLimit => \A e : InLog(e) => e.seq \in page)
    BY <1>1, PageFacts
  <2> HIDE DEF page
  <2>6. /\ k \in ClientType /\ k.pc = "live" /\ k.got = page
        /\ k.full = (Cardinality(page) = PageLimit) /\ k.next = client[c].next
    BY <2>5, <1>2 DEF ClientType
  <2> HIDE DEF k
  <2>7. k.next <= Len(channel) + 1
    BY <2>4, <2>6, <1>2
  <2>8. ~k.full => \A i \in 1..Len(channel) : channel[i].seq \in k.got
    BY <2>5, <2>6, <1>2
  <2> QED BY <2>4, <2>6, <2>7, <2>8, <1>5
<1>8. ASSUME NEW c \in Clients, Receive(c) PROVE StreamInv'
  <2> DEFINE oldest == Len(channel) - Capacity + 1
             e == channel[client[c].next]
             lag == [client[c] EXCEPT !.told = TRUE, !.next = oldest]
             got == [client[c] EXCEPT !.next = client[c].next + 1,
                                      !.got = client[c].got \cup {e.seq}]
  <2>1. /\ client[c] \in ClientType /\ client[c].pc = "live" /\ channel' = channel
        /\ client[c].next \in Nat /\ client[c].next # 0 /\ client[c].next <= Len(channel)
        /\ client[c].got \subseteq Nat
    BY <1>2, <1>8 DEF Receive, ClientType
  <2>2. e \in Event /\ e.seq > After /\ e.seq \in Nat
    <3>1. e \in Event
      BY <2>1, <1>2
    <3> QED BY <3>1, LogAssumption DEF Event, After
  <2>3. CASE client[c].next < oldest
    <3>1. client' = [client EXCEPT ![c] = lag]
      BY <1>8, <2>3 DEF Receive
    <3>2. oldest \in Nat /\ oldest # 0 /\ oldest <= Len(channel) + 1
      BY <2>1, <2>3, <1>2, StreamAssumption
    <3> HIDE DEF oldest
    <3>3. lag \in ClientType /\ lag.told /\ lag.next = oldest
      BY <2>1, <3>2 DEF ClientType
    <3> HIDE DEF lag
    <3> QED BY <3>1, <3>2, <3>3, <2>1, <1>5
  <2>4. CASE ~(client[c].next < oldest)
    <3>1. client' = [client EXCEPT ![c] = got]
      <4> DEFINE set == IF e.seq > After THEN client[c].got \cup {e.seq} ELSE client[c].got
                 new == [client[c] EXCEPT !.next = client[c].next + 1, !.got = set]
      <4>1. client' = [client EXCEPT ![c] = IF client[c].next < oldest THEN lag ELSE new]
        BY <1>8 DEF Receive
      <4>2. set = client[c].got \cup {e.seq}
        <5> HIDE DEF e
        <5> QED BY <2>2
      <4>3. new = got
        <5> HIDE DEF set, e
        <5> QED BY <4>2
      <4> HIDE DEF lag, new, oldest, got
      <4> QED BY <4>1, <4>3, <2>4
    <3> HIDE DEF oldest
    <3>2. /\ got \in ClientType /\ got.pc = "live" /\ got.next = client[c].next + 1
          /\ got.got = client[c].got \cup {e.seq}
          /\ got.told = client[c].told /\ got.full = client[c].full
      <4> HIDE DEF e
      <4>1. client[c].next + 1 \in Nat \ {0} /\ client[c].got \cup {e.seq} \in SUBSET Nat
        BY <2>1, <2>2
      <4> QED BY <4>1, <2>1 DEF ClientType
    <3> HIDE DEF got
    <3>3. ~got.told /\ ~got.full =>
            \A i \in 1..Len(channel) : i < got.next => channel[i].seq \in got.got
      <4> SUFFICES ASSUME ~got.told, ~got.full, NEW i \in 1..Len(channel), i < got.next
                   PROVE  channel[i].seq \in got.got
        OBVIOUS
      <4>1. CASE i = client[c].next
        BY <4>1, <3>2
      <4>2. CASE i # client[c].next
        <5>1. i < client[c].next
          BY <4>2, <3>2, <2>1, <1>2
        <5> QED BY <5>1, <3>2, <2>1, <1>2
      <4> QED BY <4>1, <4>2
    <3>4. got.next <= Len(channel) + 1
      BY <3>2, <2>1, <1>2
    <3> QED BY <3>1, <3>2, <3>3, <3>4, <2>1, <1>5
  <2> QED BY <2>3, <2>4
<1>9. ASSUME NEW c \in Clients, Disconnect(c) PROVE StreamInv'
  <2>1. channel' = channel /\ client' = [client EXCEPT ![c] = Drop(c)]
    BY <1>9 DEF Disconnect
  <2>2. Drop(c) \in ClientType /\ Drop(c).pc = "offline"
    BY <1>2 DEF Drop, ClientType
  <2> QED BY <2>1, <2>2, <1>5
<1>10. CASE UNCHANGED vars
  <2>1. channel' = channel /\ client' = client
    BY <1>10 DEF vars
  <2> QED BY <2>1, <1>1, <1>2 DEF StreamInv
<1> QED BY <1>3, <1>4, <1>6, <1>7, <1>8, <1>9, <1>10 DEF Next

(***************************************************************************)
(* The shape of the state, whatever happens to the log.                    *)
(***************************************************************************)
\* What can exist once n records have been appended.
Rec(n) == {e \in Event : e.seq <= n}
Spot(n) == Rec(n) \cup {Junk}
Last(n) == [seq : 0..n, id : 0..MaxAppends]
Cache(n) == [events : Seq(Rec(n)), off : Nat]
Sessions(n) ==
  [pc : {"idle", "opened", "ready", "sealed", "written", "appended", "failed"},
   kind : {"none", "dispatch", "request"}, at : Last(n), base : Last(n), event : Spot(n)]
Loads(n) ==
  [pc : {"idle", "check", "cut", "done"}, why : Whys, found : Cache(n), seen : Seq(Spot(n)),
   cut : Nat]

\* A locked section belongs to the holder of the lock, and what it is writing is a record.
LockShape(p) ==
  /\ session[p].pc # "idle" <=> lock = p
  /\ session[p].pc \in {"written", "appended"} => IsEvent(session[p].event)

\* A load that belongs to a locked section ends before the section does.
HeldLoad(p) == load[p].pc # "idle" /\ load[p].why # "read" => session[p].pc # "idle"

Shape(n) ==
  /\ lines \in Seq(Spot(n)) /\ rest \in Seq(Spot(n))
  /\ stored \in Last(n)
  /\ lock \in Procs \cup {Nobody}
  /\ session \in [Procs -> Sessions(n)]
  /\ tail \in [Procs -> Last(n) \cup {Unknown}]
  /\ prefix \in [Procs -> Cache(n)]
  /\ load \in [Procs -> Loads(n)]
  /\ acked \subseteq Rec(n)
  /\ mishaps \subseteq Mishaps
  /\ \A p \in Procs : LockShape(p) /\ HeldLoad(p)
ShapeInv ==
  /\ spent \in [appends : 0..MaxAppends, crashes : Nat, faults : Nat]
  /\ Shape(spent.appends)

LEMMA SeqGrows ==
  ASSUME NEW S, NEW T, S \subseteq T
  PROVE  Seq(S) \subseteq Seq(T)
<1> SUFFICES ASSUME NEW s \in Seq(S) PROVE s \in Seq(T)
  OBVIOUS
<1>1. Len(s) \in Nat /\ s = [i \in 1..Len(s) |-> s[i]] /\ \A i \in 1..Len(s) : s[i] \in T
  BY LenProperties, ElementOfSeq
<1> QED BY <1>1, SeqDef

LEMMA ShapeGrows ==
  ASSUME NEW n \in Nat
  PROVE  /\ Rec(n) \subseteq Rec(n + 1) /\ Spot(n) \subseteq Spot(n + 1)
         /\ Last(n) \subseteq Last(n + 1)
         /\ Cache(n) \subseteq Cache(n + 1) /\ Sessions(n) \subseteq Sessions(n + 1)
         /\ Loads(n) \subseteq Loads(n + 1)
         /\ Seq(Spot(n)) \subseteq Seq(Spot(n + 1))
<1>1. Rec(n) \subseteq Rec(n + 1)
  BY LogAssumption DEF Rec, Event
<1>2. Spot(n) \subseteq Spot(n + 1) /\ Last(n) \subseteq Last(n + 1)
  BY <1>1 DEF Spot, Last
<1>3. Seq(Rec(n)) \subseteq Seq(Rec(n + 1)) /\ Seq(Spot(n)) \subseteq Seq(Spot(n + 1))
  BY <1>1, <1>2, SeqGrows
<1>4. Cache(n) \subseteq Cache(n + 1)
  BY <1>3 DEF Cache
<1>5. Sessions(n) \subseteq Sessions(n + 1)
  BY <1>2 DEF Sessions
<1>6. Loads(n) \subseteq Loads(n + 1)
  BY <1>3, <1>4 DEF Loads
<1> QED BY <1>1, <1>2, <1>3, <1>4, <1>5, <1>6

\* What is left of a file when the lines that cannot be decoded are skipped are records.
LEMMA RecordsShape ==
  ASSUME NEW n, NEW s \in Seq(Spot(n))
  PROVE  Records(s) \in Seq(Rec(n))
<1> DEFINE Step(f, i) == IF i = 0 THEN << >>
                         ELSE IF IsEvent(s[i]) THEN Append(f[i - 1], s[i]) ELSE f[i - 1]
           Solves(f) == f = [i \in 0..Len(s) |-> Step(f, i)]
           h == CHOOSE f : Solves(f)
<1>1. Records(s) = h[Len(s)]
  BY DEF Records
<1>2. \A k \in Nat : k \in {j \in Nat : \E f : f = [i \in 0..j |-> Step(f, i)]}
  <2> DEFINE S == {j \in Nat : \E f : f = [i \in 0..j |-> Step(f, i)]}
  <2>1. 0 \in S
    <3> DEFINE f == [i \in 0..0 |-> << >>]
    <3>1. f = [i \in 0..0 |-> Step(f, i)]
      OBVIOUS
    <3> HIDE DEF f
    <3> QED BY <3>1
  <2>2. ASSUME NEW j \in Nat, j \in S PROVE j + 1 \in S
    <3>1. PICK f : f = [i \in 0..j |-> Step(f, i)]
      BY <2>2
    <3> DEFINE x == Step(f, j + 1)
               g == [i \in 0..(j + 1) |-> IF i = j + 1 THEN x ELSE f[i]]
    <3>2. \A i \in 0..j : f[i] = Step(f, i)
      BY <3>1
    <3>3. ASSUME NEW i \in 0..(j + 1) PROVE g[i] = Step(g, i)
      <4>1. CASE i = j + 1
        <5>1. g[i] = x /\ i # 0 /\ i - 1 = j /\ g[j] = f[j]
          <6> HIDE DEF x
          <6> QED BY <4>1
        <5> HIDE DEF g
        <5> QED BY <4>1, <5>1
      <4>2. CASE i # j + 1
        <5>1. i \in 0..j /\ g[i] = f[i] /\ (i # 0 => g[i - 1] = f[i - 1])
          <6> HIDE DEF x
          <6> QED BY <4>2
        <5> HIDE DEF g
        <5> QED BY <5>1, <3>2
      <4> QED BY <4>1, <4>2
    <3>4. g = [i \in 0..(j + 1) |-> Step(g, i)]
      <4>1. g = [i \in 0..(j + 1) |-> g[i]]
        <5> HIDE DEF x
        <5> QED OBVIOUS
      <4> HIDE DEF g, Step
      <4> QED BY <4>1, <3>3
    <3> HIDE DEF g
    <3> QED BY <3>4
  <2> HIDE DEF S
  <2>3. \A k \in Nat : k \in S
    BY <2>1, <2>2, SetInduction
  <2> QED BY <2>3 DEF S
<1>3. Len(s) \in Nat /\ \A i \in 1..Len(s) : s[i] \in Spot(n)
  BY LenProperties, ElementOfSeq
<1>4. Solves(h)
  <2>1. \E f : Solves(f)
    BY <1>2, <1>3
  <2> HIDE DEF Solves
  <2> QED BY <2>1
<1> HIDE DEF h
<1>5. \A i \in Nat : i \in {j \in Nat : j <= Len(s) => h[j] \in Seq(Rec(n))}
  <2> DEFINE S == {j \in Nat : j <= Len(s) => h[j] \in Seq(Rec(n))}
  <2>0. \A j \in 0..Len(s) : h[j] = Step(h, j)
    BY <1>4
  <2>1. 0 \in S
    <3>1. h[0] = << >>
      BY <2>0, <1>3
    <3> QED BY <3>1, EmptySeq
  <2>2. ASSUME NEW j \in Nat, j \in S PROVE j + 1 \in S
    <3> SUFFICES ASSUME j + 1 <= Len(s) PROVE h[j + 1] \in Seq(Rec(n))
      OBVIOUS
    <3>1. h[j] \in Seq(Rec(n)) /\ j + 1 \in 0..Len(s) /\ j + 1 \in 1..Len(s) /\ (j + 1) - 1 = j
      BY <2>2, <1>3
    <3>2. h[j + 1] = IF IsEvent(s[j + 1]) THEN Append(h[j], s[j + 1]) ELSE h[j]
      BY <2>0, <3>1
    <3>3. IsEvent(s[j + 1]) => s[j + 1] \in Rec(n)
      BY <3>1, <1>3 DEF Spot, IsEvent
    <3> HIDE DEF Step, Solves
    <3> QED BY <3>1, <3>2, <3>3, AppendProperties
  <2> HIDE DEF S
  <2>3. \A i \in Nat : i \in S
    BY <2>1, <2>2, SetInduction
  <2> QED BY <2>3 DEF S
<1> QED BY <1>1, <1>3, <1>5

LEMMA TailShape ==
  ASSUME NEW n \in Nat, NEW s \in Seq(Rec(n))
  PROVE  TailOf(s) \in Last(n)
<1>1. CASE s = << >>
  BY <1>1, LogAssumption DEF TailOf, Genesis, Last
<1>2. CASE s # << >>
  <2>1. Len(s) \in 1..Len(s) /\ s[Len(s)] \in Rec(n)
    <3>1. Len(s) \in Nat /\ Len(s) # 0
      BY <1>2, EmptySeq, LenProperties
    <3> QED BY <3>1, ElementOfSeq
  <2>2. s[Len(s)].seq \in 0..n /\ s[Len(s)].id \in 0..MaxAppends
    BY <2>1, LogAssumption DEF Rec, Event
  <2> QED BY <2>2, <1>2 DEF TailOf, Last
<1> QED BY <1>1, <1>2

LEMMA LoadedShape ==
  ASSUME ShapeInv, NEW p \in Procs
  PROVE  Loaded(p) \in Cache(spent.appends)
<1> DEFINE n == spent.appends
<1>1. Known(p) \in Cache(n)
  <2>1. EmptyPrefix \in Cache(n)
    BY EmptySeq DEF EmptyPrefix, Cache
  <2> QED BY <2>1 DEF Known, ShapeInv, Shape
<1>2. lines \in Seq(Spot(n)) /\ Known(p).off \in Nat /\ Known(p).events \in Seq(Rec(n))
  BY <1>1 DEF ShapeInv, Shape, Cache
<1> HIDE DEF n
<1>3. SubSeq(lines, Known(p).off + 1, Len(lines)) \in Seq(Spot(n))
  <2>1. Known(p).off + 1 \in Int /\ Len(lines) \in Int
    BY <1>2, LenProperties
  <2>2. \A i \in (Known(p).off + 1)..Len(lines) : lines[i] \in Spot(n)
    BY <1>2, <2>1, ElementOfSeq
  <2> QED BY <2>1, <2>2, SubSeqProperties
<1>4. NewEvents(p) \in Seq(Rec(n)) /\ Len(NewEvents(p)) \in Nat
  BY <1>3, RecordsShape, LenProperties DEF NewEvents
<1>5. Known(p).events \o NewEvents(p) \in Seq(Rec(n)) /\ Known(p).off + Len(NewEvents(p)) \in Nat
  BY <1>2, <1>4, ConcatProperties
<1> QED BY <1>5 DEF Loaded, Cache, n

\* One session changes.
LEMMA SessionShape ==
  ASSUME NEW n, NEW p \in Procs, session \in [Procs -> Sessions(n)],
         \A q \in Procs : LockShape(q),
         NEW s \in Sessions(n), session' = [session EXCEPT ![p] = s],
         s.pc # "idle" <=> lock' = p,
         \A q \in Procs : q # p => (lock' = q <=> lock = q),
         s.pc \in {"written", "appended"} => IsEvent(s.event)
  PROVE  /\ session' \in [Procs -> Sessions(n)] /\ \A q \in Procs : LockShape(q)'
         /\ session'[p] = s /\ \A q \in Procs : q # p => session'[q] = session[q]
<1>1. \A q \in Procs : session'[q] = IF q = p THEN s ELSE session[q]
  OBVIOUS
<1> QED BY <1>1 DEF LockShape

LEMMA ReturnShape ==
  ASSUME NEW n \in Nat, Shape(n), NEW p \in Procs, NEW why \in Whys, NEW events \in Seq(Rec(n)),
         Return(p, why, events), why # "read" => session[p].pc # "idle" , lock' = lock
  PROVE  /\ session' \in [Procs -> Sessions(n)] /\ \A q \in Procs : LockShape(q)'
         /\ tail' \in [Procs -> Last(n) \cup {Unknown}]
         /\ \A q \in Procs : session[q].pc # "idle" => session'[q].pc # "idle"
<1> DEFINE last == TailOf(events)
           ok   == Replays(events) /\ (why = "verify" => stored.seq <= last.seq)
           pc   == IF ok THEN "ready" ELSE "failed"
           at   == IF stored.seq < last.seq THEN last ELSE stored
           s    == CASE why = "read" -> session[p]
                     [] why = "seal" -> [session[p] EXCEPT !.pc = "sealed", !.base = last]
                     [] OTHER -> [session[p] EXCEPT !.pc = pc, !.at = at]
<1>1. last \in Last(n)
  BY TailShape
<1>2. /\ session \in [Procs -> Sessions(n)] /\ \A q \in Procs : LockShape(q)
      /\ session[p] \in Sessions(n) /\ at \in Last(n)
      /\ tail \in [Procs -> Last(n) \cup {Unknown}]
  BY <1>1 DEF Shape
<1>3. session' = [session EXCEPT ![p] = s] /\ tail' = [tail EXCEPT ![p] = IF why = "verify" THEN last ELSE @]
  BY DEF Return
<1>4. s \in Sessions(n) /\ (s.pc # "idle" <=> lock' = p)
      /\ (s.pc \in {"written", "appended"} => IsEvent(s.event))
  <2> HIDE DEF last, at, ok
  <2>1. CASE why = "read"
    BY <2>1, <1>2 DEF LockShape
  <2>2. CASE why = "seal"
    BY <2>2, <1>1, <1>2 DEF LockShape, Sessions
  <2>3. CASE why \in {"verify", "replay"}
    BY <2>3, <1>2 DEF LockShape, Sessions
  <2> QED BY <2>1, <2>2, <2>3 DEF Whys
<1> HIDE DEF s, last
<1>5. tail' \in [Procs -> Last(n) \cup {Unknown}]
  BY <1>1, <1>2, <1>3
<1>6. /\ session' \in [Procs -> Sessions(n)] /\ \A q \in Procs : LockShape(q)'
      /\ session'[p] = s /\ \A q \in Procs : q # p => session'[q] = session[q]
  BY <1>2, <1>3, <1>4, SessionShape
<1>7. \A q \in Procs : session[q].pc # "idle" => session'[q].pc # "idle"
  BY <1>2, <1>4, <1>6 DEF LockShape
<1> QED BY <1>5, <1>6, <1>7

LEMMA LoadFileShape ==
  ASSUME ShapeInv, NEW n \in Nat, spent.appends = n, NEW p \in Procs, NEW why \in Whys,
         LoadFile(p, why), why # "read" => session[p].pc # "idle"
  PROVE  ShapeInv'
<1>1. Shape(n) /\ Loaded(p) \in Cache(n) /\ spent' = spent /\ spent'.appends = n
  BY LoadedShape DEF ShapeInv, LoadFile
<1>2. UNCHANGED << lines, rest, stored, lock, acked, mishaps >>
  BY DEF LoadFile
<1>3. CASE ~ChainHolds(p)
  <2> DEFINE pc == IF why = "read" THEN session[p].pc ELSE "failed"
             s == [session[p] EXCEPT !.pc = pc]
  <2>0. session[p] \in Sessions(n) /\ LockShape(p) /\ pc = IF why = "read" THEN session[p].pc ELSE "failed"
    BY <1>1 DEF Shape
  <2>1. session' = [session EXCEPT ![p] = s] /\ UNCHANGED << tail, prefix, load >>
    BY <1>1, <1>3 DEF LoadFile, Refuse, Shape
  <2> HIDE DEF pc
  <2>2. s \in Sessions(n) /\ (s.pc # "idle" <=> lock' = p)
        /\ (s.pc \in {"written", "appended"} => IsEvent(s.event))
    <3>1. pc \in {"idle", "opened", "ready", "sealed", "written", "appended", "failed"}
      BY <2>0 DEF Sessions
    <3>2. s \in Sessions(n) /\ s.pc = pc /\ s.event = session[p].event
      BY <2>0, <3>1 DEF Sessions
    <3> HIDE DEF s
    <3> QED BY <2>0, <3>2, <1>2 DEF LockShape
  <2> HIDE DEF s
  <2>3. /\ session' \in [Procs -> Sessions(n)] /\ \A q \in Procs : LockShape(q)'
        /\ session'[p] = s /\ \A q \in Procs : q # p => session'[q] = session[q]
    BY <2>1, <2>2, <1>1, <1>2, SessionShape DEF Shape
  <2>4. s.pc # "idle" <=> session[p].pc # "idle"
    BY <2>2, <1>1, <1>2 DEF Shape, LockShape
  <2>5. \A q \in Procs : HeldLoad(q)'
    BY <2>1, <2>3, <2>4, <1>1 DEF Shape, HeldLoad
  <2> QED BY <2>1, <2>3, <2>5, <1>1, <1>2 DEF ShapeInv, Shape
<1>4. CASE ChainHolds(p) /\ rest = << >>
  <2>1. /\ prefix' = [prefix EXCEPT ![p] = Loaded(p)] /\ Return(p, why, Loaded(p).events)
        /\ load' = load
    BY <1>4 DEF LoadFile
  <2>2. Loaded(p).events \in Seq(Rec(n))
    BY <1>1 DEF Cache
  <2>3. /\ session' \in [Procs -> Sessions(n)] /\ \A q \in Procs : LockShape(q)'
        /\ tail' \in [Procs -> Last(n) \cup {Unknown}]
        /\ \A q \in Procs : session[q].pc # "idle" => session'[q].pc # "idle"
    BY <2>1, <2>2, <1>1, <1>2, ReturnShape
  <2>4. prefix' \in [Procs -> Cache(n)]
    BY <2>1, <1>1 DEF Shape
  <2> QED BY <2>1, <2>3, <2>4, <1>1, <1>2 DEF ShapeInv, Shape, HeldLoad
<1>5. CASE ChainHolds(p) /\ rest # << >>
  <2> DEFINE l == [pc |-> "check", why |-> why, found |-> Loaded(p), seen |-> rest, cut |-> 0]
  <2>1. load' = [load EXCEPT ![p] = l] /\ UNCHANGED << tail, prefix, session >>
    BY <1>5 DEF LoadFile
  <2>2. l \in Loads(n)
    BY <1>1 DEF Loads, Shape
  <2>3. \A q \in Procs : HeldLoad(q)'
    <3>1. \A q \in Procs : load'[q] = IF q = p THEN l ELSE load[q]
      <4> HIDE DEF l
      <4> QED BY <2>1, <1>1 DEF Shape
    <3>2. l.why = why
      OBVIOUS
    <3> HIDE DEF l
    <3> QED BY <3>1, <3>2, <2>1, <1>1 DEF Shape, HeldLoad
  <2> HIDE DEF l
  <2> QED BY <2>1, <2>2, <2>3, <1>1, <1>2 DEF ShapeInv, Shape, LockShape
<1> QED BY <1>3, <1>4, <1>5

LEMMA LoadStepsShape ==
  ASSUME ShapeInv, NEW p \in Procs, CompareTail(p) \/ CutTail(p) \/ EndLoad(p)
  PROVE  ShapeInv'
<1> DEFINE n == spent.appends
<1>1. /\ Shape(n) /\ n \in Nat /\ spent' = spent
      /\ UNCHANGED << stored, lock, acked >>
  BY LogAssumption DEF ShapeInv, CompareTail, CutTail, EndLoad
<1>2. load[p] \in Loads(n) /\ lines \in Seq(Spot(n)) /\ Len(lines) \in Nat
  BY <1>1, LenProperties DEF Shape
<1>3. CASE CompareTail(p)
  <2> DEFINE l == [load[p] EXCEPT !.pc = IF rest = load[p].seen THEN "cut" ELSE "done",
                                  !.cut = Len(lines)]
  <2>1. load' = [load EXCEPT ![p] = l] /\ UNCHANGED << lines, rest, session, tail, prefix, mishaps >>
    BY <1>1, <1>3 DEF CompareTail, Shape
  <2>2. l \in Loads(n) /\ l.why = load[p].why
    BY <1>2 DEF Loads
  <2> HIDE DEF l
  <2>3. \A q \in Procs : HeldLoad(q)'
    BY <2>1, <2>2, <1>1, <1>3 DEF Shape, HeldLoad, CompareTail
  <2> QED BY <2>1, <2>2, <2>3, <1>1 DEF ShapeInv, Shape, LockShape
<1>4. CASE CutTail(p)
  <2> DEFINE l == [load[p] EXCEPT !.pc = "done"]
  <2>1. load' = [load EXCEPT ![p] = l] /\ UNCHANGED << session, tail, prefix >>
    BY <1>4 DEF CutTail
  <2>2. l \in Loads(n) /\ l.why = load[p].why
    BY <1>2 DEF Loads
  <2>3. mishaps' \subseteq Mishaps
    BY <1>1, <1>4 DEF CutTail, Happen, Mishaps, Shape
  <2>4. lines' \in Seq(Spot(n))
    <3>1. CASE Len(lines) < load[p].cut
      BY <3>1, <1>2, <1>4 DEF CutTail
    <3>2. CASE ~(Len(lines) < load[p].cut)
      <4>1. /\ lines' = SubSeq(lines, 1, load[p].cut) /\ load[p].cut \in Int
            /\ \A i \in 1..load[p].cut : lines[i] \in Spot(n)
        BY <3>2, <1>2, <1>4, ElementOfSeq DEF CutTail, Loads
      <4> QED BY <4>1, SubSeqProperties
    <3> QED BY <3>1, <3>2
  <2>5. rest' \in Seq(Spot(n))
    <3>1. << >> \in Seq(Spot(n)) /\ << Junk >> \in Seq(Spot(n))
      BY EmptySeq DEF Spot
    <3> QED BY <3>1, <1>4 DEF CutTail
  <2> HIDE DEF l
  <2>6. \A q \in Procs : HeldLoad(q)'
    BY <2>1, <2>2, <1>1, <1>4 DEF Shape, HeldLoad, CutTail
  <2> QED BY <2>1, <2>2, <2>3, <2>4, <2>5, <2>6, <1>1 DEF ShapeInv, Shape, LockShape
<1>5. CASE EndLoad(p)
  <2>1. /\ prefix' = [prefix EXCEPT ![p] = load[p].found] /\ load' = [load EXCEPT ![p] = NoLoad]
        /\ UNCHANGED << lines, rest, mishaps >>
        /\ Return(p, load[p].why, load[p].found.events)
    BY <1>5 DEF EndLoad
  <2>2. NoLoad \in Loads(n) /\ load[p].found \in Cache(n) /\ load[p].why \in Whys
        /\ load[p].found.events \in Seq(Rec(n))
    BY <1>2, EmptySeq DEF NoLoad, EmptyPrefix, Loads, Cache, Whys
  <2>3. load[p].why # "read" => session[p].pc # "idle"
    BY <1>5 DEF ShapeInv, Shape, HeldLoad, EndLoad
  <2> HIDE DEF n
  <2>4. /\ session' \in [Procs -> Sessions(n)] /\ \A q \in Procs : LockShape(q)'
        /\ tail' \in [Procs -> Last(n) \cup {Unknown}]
        /\ \A q \in Procs : session[q].pc # "idle" => session'[q].pc # "idle"
    BY <2>1, <2>2, <2>3, <1>1, ReturnShape
  <2>5. \A q \in Procs : HeldLoad(q)'
    BY <2>1, <2>4, <1>1 DEF Shape, HeldLoad, NoLoad
  <2> QED BY <2>1, <2>2, <2>4, <2>5, <1>1 DEF ShapeInv, Shape, n
<1> QED BY <1>3, <1>4, <1>5

\* A session opens, or stores the projection.
LEMMA SectionShape ==
  ASSUME ShapeInv, NEW p \in Procs,
         ApplyAppended(p) \/ \E kind \in {"dispatch", "request"} : OpenSession(p, kind)
  PROVE  ShapeInv'
<1> DEFINE n == spent.appends
<1>1. /\ Shape(n) /\ n \in Nat /\ spent' = spent
      /\ UNCHANGED << lines, rest, tail, prefix, load, acked, mishaps >>
  BY LogAssumption DEF ShapeInv, ApplyAppended, OpenSession
<1>2. /\ session \in [Procs -> Sessions(n)] /\ session[p] \in Sessions(n)
      /\ \A q \in Procs : LockShape(q) /\ HeldLoad(q)
      /\ stored \in Last(n) /\ lock \in Procs \cup {Nobody}
  BY <1>1 DEF Shape
<1>3. ASSUME NEW s \in Sessions(n), session' = [session EXCEPT ![p] = s], s.pc # "idle", lock' = p,
             \A q \in Procs : q # p => lock # q,
             s.pc \notin {"written", "appended"}, stored' \in Last(n)
      PROVE  ShapeInv'
  <2> HIDE DEF n
  <2>1. /\ session' \in [Procs -> Sessions(n)] /\ \A q \in Procs : LockShape(q)'
        /\ session'[p] = s /\ \A q \in Procs : q # p => session'[q] = session[q]
    BY <1>2, <1>3, SessionShape
  <2>2. \A q \in Procs : HeldLoad(q)'
    BY <2>1, <1>1, <1>2, <1>3 DEF HeldLoad
  <2> QED BY <2>1, <2>2, <1>1, <1>3 DEF ShapeInv, Shape, n
<1>4. ASSUME NEW kind \in {"dispatch", "request"}, OpenSession(p, kind) PROVE ShapeInv'
  <2> DEFINE s == [NoSession EXCEPT !.pc = "opened", !.kind = kind]
  <2>1. /\ session' = [session EXCEPT ![p] = s] /\ lock' = p /\ lock = Nobody /\ stored' = stored
    BY <1>4 DEF OpenSession
  <2>2. s \in Sessions(n) /\ s.pc = "opened"
    <3>1. NoSession \in Sessions(n)
      BY <1>1, LogAssumption DEF NoSession, Sessions, Genesis, Last, Spot
    <3>2. ASSUME NEW o \in Sessions(n)
          PROVE  LET x == [o EXCEPT !.pc = "opened", !.kind = kind]
                 IN  x \in Sessions(n) /\ x.pc = "opened"
      BY DEF Sessions
    <3> HIDE DEF n
    <3> QED BY <3>1, <3>2
  <2> HIDE DEF s, n
  <2> QED BY <2>1, <2>2, <1>2, <1>3, LogAssumption
<1>5. CASE ApplyAppended(p)
  <2>1. session[p].pc = "appended" /\ lock' = lock /\ lock = p
    BY <1>2, <1>5 DEF ApplyAppended, LockShape
  <2>2. session[p].event \in Rec(n)
    BY <2>1, <1>2 DEF LockShape, Sessions, Spot, IsEvent
  <2>3. TailOf(<< session[p].event >>) \in Last(n)
    <3>1. << session[p].event >> \in Seq(Rec(n))
      BY <2>2
    <3> QED BY <3>1, <1>1, TailShape
  <2>4. CASE Verifies(session[p].event, session[p].at)
    <3> DEFINE mark == TailOf(<< session[p].event >>)
               s == [session[p] EXCEPT !.pc = "ready", !.at = mark]
    <3>1. stored' = mark /\ session' = [session EXCEPT ![p] = s]
      <4>1. stored' = mark /\ session' = [session EXCEPT ![p].pc = "ready", ![p].at = stored']
        BY <2>4, <1>5 DEF ApplyAppended
      <4> HIDE DEF mark
      <4> QED BY <4>1, <1>2
    <3> HIDE DEF mark
    <3>2. s \in Sessions(n) /\ s.pc = "ready"
      BY <2>3, <1>2 DEF Sessions, mark
    <3> HIDE DEF s, n
    <3> QED BY <3>1, <3>2, <2>1, <2>3, <1>3 DEF mark
  <2>5. CASE ~Verifies(session[p].event, session[p].at)
    <3> DEFINE s == [session[p] EXCEPT !.pc = "failed"]
    <3>1. stored' = stored /\ session' = [session EXCEPT ![p] = s]
      BY <2>5, <1>5 DEF ApplyAppended
    <3>2. s \in Sessions(n) /\ s.pc = "failed"
      BY <1>2 DEF Sessions
    <3> HIDE DEF s, n
    <3> QED BY <3>1, <3>2, <2>1, <1>2, <1>3
  <2> QED BY <2>4, <2>5
<1> QED BY <1>4, <1>5

\* The number a record gets is one more than some record that exists.
LEMMA WriteLineShape ==
  ASSUME ShapeInv, NEW p \in Procs, WriteLine(p)
  PROVE  ShapeInv'
<1> DEFINE n == spent.appends
           t == IF session[p].pc = "sealed" THEN session[p].base ELSE tail[p]
           e == Seal(t, n + 1)
           s == [session[p] EXCEPT !.pc = "written", !.event = e]
<1>1. /\ Shape(n) /\ n \in Nat /\ n + 1 \in 1..MaxAppends
      /\ UNCHANGED << lines, stored, lock, tail, prefix, load, acked >>
      /\ spent' = [spent EXCEPT !.appends = n + 1]
  BY LogAssumption DEF ShapeInv, WriteLine
<1>2. /\ session \in [Procs -> Sessions(n)] /\ session[p] \in Sessions(n)
      /\ \A q \in Procs : LockShape(q) /\ HeldLoad(q)
      /\ tail[p] \in Last(n) \cup {Unknown} /\ rest \in Seq(Spot(n))
  BY <1>1 DEF Shape
<1>3. t \in Last(n)
  <2>1. session[p].base \in Last(n)
    BY <1>2 DEF Sessions
  <2> QED BY <2>1, <1>2 DEF WriteLine
<1>4. e \in Rec(n + 1) /\ IsEvent(e)
  <2>1. t.seq \in 0..n /\ t.id \in 0..MaxAppends
    BY <1>3 DEF Last
  <2> HIDE DEF t
  <2>2. e = [seq |-> t.seq + 1, id |-> n + 1, prev |-> t.id]
    BY DEF Seal
  <2>3. e \in Event
    BY <2>1, <2>2, <1>1, LogAssumption DEF Event
  <2> QED BY <2>1, <2>2, <2>3, <1>1, EventsAreRecords DEF Rec
<1>5. session' = [session EXCEPT ![p] = s] /\ rest' = Append(rest, e) /\ mishaps' \subseteq Mishaps
  <2>1. /\ session' = [session EXCEPT ![p].pc = "written", ![p].event = e] /\ rest' = Append(rest, e)
        /\ Harm(p, t)
    BY DEF WriteLine
  <2>2. mishaps' \subseteq Mishaps
    <3> HIDE DEF t
    <3> QED BY <2>1, <1>1 DEF Harm, Happen, Mishaps, Shape
  <2> HIDE DEF e
  <2> QED BY <2>1, <2>2, <1>2
<1> HIDE DEF e, t, n
<1>6. /\ Seq(Spot(n)) \subseteq Seq(Spot(n + 1)) /\ Sessions(n) \subseteq Sessions(n + 1)
      /\ Last(n) \subseteq Last(n + 1) /\ Cache(n) \subseteq Cache(n + 1)
      /\ Loads(n) \subseteq Loads(n + 1) /\ Rec(n) \subseteq Rec(n + 1)
  BY <1>1, ShapeGrows
<1>7. s \in Sessions(n + 1) /\ s.pc = "written" /\ s.event = e
  <2>1. session[p] \in Sessions(n + 1)
    BY <1>2, <1>6
  <2> QED BY <2>1, <1>4 DEF Sessions, Spot
<1> HIDE DEF s
<1>8. lock = p
  <2>1. session[p].pc # "idle"
    BY DEF WriteLine
  <2> QED BY <2>1, <1>2 DEF LockShape
<1>9. /\ session' \in [Procs -> Sessions(n + 1)] /\ \A q \in Procs : LockShape(q)'
      /\ session'[p] = s /\ \A q \in Procs : q # p => session'[q] = session[q]
  <2>1. session \in [Procs -> Sessions(n + 1)]
    BY <1>2, <1>6
  <2>2. /\ s.pc # "idle" <=> lock' = p
        /\ \A q \in Procs : q # p => (lock' = q <=> lock = q)
        /\ s.pc \in {"written", "appended"} => IsEvent(s.event)
        /\ \A q \in Procs : LockShape(q)
    BY <1>1, <1>2, <1>4, <1>7, <1>8
  <2> QED BY <2>1, <2>2, <1>5, <1>7, SessionShape
<1>10. \A q \in Procs : HeldLoad(q)'
  BY <1>1, <1>2, <1>7, <1>9 DEF HeldLoad
<1>11. rest' \in Seq(Spot(n + 1))
  <2>1. rest \in Seq(Spot(n + 1)) /\ e \in Spot(n + 1)
    BY <1>2, <1>4, <1>6 DEF Spot
  <2> QED BY <2>1, <1>5, AppendProperties
<1>12. spent' \in [appends : 0..MaxAppends, crashes : Nat, faults : Nat] /\ spent'.appends = n + 1
  BY <1>1 DEF ShapeInv
<1> QED BY <1>1, <1>5, <1>6, <1>9, <1>10, <1>11, <1>12 DEF ShapeInv, Shape

\* A newline, or a write that fails.
LEMMA EndsShape ==
  ASSUME ShapeInv, NEW p \in Procs, EndLine(p) \/ \E goesOn \in BOOLEAN : WriteFails(p, goesOn)
  PROVE  ShapeInv'
<1> DEFINE n == spent.appends
           e == session[p].event
<1>1. /\ Shape(n) /\ n \in Nat /\ Writing(p)
      /\ spent' \in [appends : 0..MaxAppends, crashes : Nat, faults : Nat] /\ spent'.appends = n
      /\ UNCHANGED << stored, lock, prefix, load, mishaps >>
  BY LogAssumption DEF ShapeInv, EndLine, WriteFails
<1>2. /\ session \in [Procs -> Sessions(n)] /\ session[p] \in Sessions(n)
      /\ \A q \in Procs : LockShape(q) /\ HeldLoad(q)
      /\ rest \in Seq(Spot(n)) /\ lines \in Seq(Spot(n)) /\ acked \subseteq Rec(n)
      /\ tail \in [Procs -> Last(n) \cup {Unknown}] /\ Junk \in Spot(n)
  BY <1>1 DEF Shape, Spot
<1>3. lock = p /\ e \in Rec(n)
  BY <1>1, <1>2 DEF Writing, LockShape, Sessions, Spot, IsEvent
<1> HIDE DEF n, e
<1>4. ASSUME NEW pc \in {"ready", "appended", "failed"}, session' = [session EXCEPT ![p].pc = pc]
      PROVE  /\ session' \in [Procs -> Sessions(n)]
             /\ \A q \in Procs : LockShape(q)' /\ HeldLoad(q)'
  <2> DEFINE s == [session[p] EXCEPT !.pc = pc]
  <2>1. s \in Sessions(n) /\ s.pc = pc /\ s.event = e
    BY <1>2 DEF Sessions, e
  <2>2. session' = [session EXCEPT ![p] = s]
    BY <1>2, <1>4
  <2> HIDE DEF s
  <2>3. s.pc \in {"written", "appended"} => IsEvent(s.event)
    BY <2>1, <1>3, EventsAreRecords DEF Rec
  <2>4. /\ session' \in [Procs -> Sessions(n)] /\ \A q \in Procs : LockShape(q)'
        /\ session'[p] = s /\ \A q \in Procs : q # p => session'[q] = session[q]
    BY <2>1, <2>2, <2>3, <1>1, <1>2, <1>3, SessionShape
  <2> QED BY <2>1, <2>4, <1>1, <1>2 DEF HeldLoad
<1>5. CASE EndLine(p)
  <2>1. session' = [session EXCEPT ![p].pc = "appended"] /\ rest' = << >> /\ acked' = acked \cup {e}
        /\ tail' = [tail EXCEPT ![p] = TailOf(<< e >>)]
    BY <1>5 DEF EndLine, e
  <2>2. TailOf(<< e >>) \in Last(n)
    <3>1. << e >> \in Seq(Rec(n))
      BY <1>3
    <3> QED BY <3>1, <1>1, TailShape
  <2>3. lines' \in Seq(Spot(n))
    <3>1. CASE rest = << >>
      BY <3>1, <1>2, <1>5 DEF EndLine
    <3>2. CASE rest # << >>
      <4> DEFINE x == IF Len(rest) = 1 THEN rest[1] ELSE Junk
      <4>1. lines' = Append(lines, x)
        BY <3>2, <1>5 DEF EndLine
      <4>2. x \in Spot(n)
        BY <1>2, ElementOfSeq
      <4> HIDE DEF x
      <4> QED BY <4>1, <4>2, <1>2, AppendProperties
    <3> QED BY <3>1, <3>2
  <2>4. << >> \in Seq(Spot(n))
    BY EmptySeq
  <2>5. /\ session' \in [Procs -> Sessions(n)]
        /\ \A q \in Procs : LockShape(q)' /\ HeldLoad(q)'
    BY <2>1, <1>4
  <2>6. acked' \subseteq Rec(n) /\ tail' \in [Procs -> Last(n) \cup {Unknown}]
    BY <2>1, <2>2, <1>2, <1>3
  <2> QED BY <2>1, <2>3, <2>4, <2>5, <2>6, <1>1 DEF ShapeInv, Shape
<1>6. ASSUME NEW goesOn \in BOOLEAN, WriteFails(p, goesOn) PROVE ShapeInv'
  <2> DEFINE pc == IF goesOn THEN "ready" ELSE "failed"
  <2>1. session' = [session EXCEPT ![p].pc = pc] /\ UNCHANGED << lines, tail, acked >>
    BY <1>6 DEF WriteFails
  <2>2. pc \in {"ready", "appended", "failed"}
    OBVIOUS
  <2> HIDE DEF pc
  <2>3. rest' \in Seq(Spot(n))
    <3>1. CASE rest = << >>
      BY <3>1, <1>2, <1>6 DEF WriteFails
    <3>2. CASE rest # << >>
      <4>1. rest' = [rest EXCEPT ![Len(rest)] = Junk]
        BY <3>2, <1>6 DEF WriteFails
      <4>2. Len(rest) \in Nat /\ rest = [i \in 1..Len(rest) |-> rest[i]]
            /\ \A i \in 1..Len(rest) : rest[i] \in Spot(n)
        BY <1>2, LenProperties, ElementOfSeq
      <4>3. rest' \in [1..Len(rest) -> Spot(n)]
        BY <4>1, <4>2, <1>2
      <4> QED BY <4>2, <4>3, SeqDef
    <3> QED BY <3>1, <3>2
  <2>4. /\ session' \in [Procs -> Sessions(n)]
        /\ \A q \in Procs : LockShape(q)' /\ HeldLoad(q)'
    BY <2>1, <2>2, <1>4
  <2> QED BY <2>1, <2>3, <2>4, <1>1 DEF ShapeInv, Shape
<1> QED BY <1>5, <1>6

\* A session ends, or a process.
LEMMA LeaveShape ==
  ASSUME ShapeInv, NEW p \in Procs, CloseSession(p) \/ Kill(p)
  PROVE  ShapeInv'
<1> DEFINE n == spent.appends
<1>1. /\ Shape(n) /\ n \in Nat
      /\ spent' \in [appends : 0..MaxAppends, crashes : Nat, faults : Nat] /\ spent'.appends = n
      /\ UNCHANGED << lines, rest, stored, acked, mishaps >>
      /\ session' = [session EXCEPT ![p] = NoSession]
  BY LogAssumption DEF ShapeInv, CloseSession, Kill
<1>2. /\ session \in [Procs -> Sessions(n)] /\ tail \in [Procs -> Last(n) \cup {Unknown}]
      /\ prefix \in [Procs -> Cache(n)] /\ load \in [Procs -> Loads(n)]
      /\ lock \in Procs \cup {Nobody}
      /\ \A q \in Procs : LockShape(q) /\ HeldLoad(q)
  BY <1>1 DEF Shape
<1>3. /\ EmptyPrefix \in Cache(n) /\ NoLoad \in Loads(n) /\ NoLoad.pc = "idle"
      /\ NoSession \in Sessions(n) /\ NoSession.pc = "idle"
  <2>1. EmptyPrefix \in Cache(n)
    BY EmptySeq DEF EmptyPrefix, Cache
  <2>2. NoLoad \in Loads(n) /\ NoLoad.pc = "idle"
    BY <2>1, EmptySeq DEF NoLoad, Loads, Whys
  <2>3. NoSession \in Sessions(n) /\ NoSession.pc = "idle"
    BY <1>1, LogAssumption DEF NoSession, Sessions, Genesis, Last, Spot
  <2> QED BY <2>1, <2>2, <2>3
<1> HIDE DEF n
<1>4. lock' = IF lock = p THEN Nobody ELSE lock
  BY <1>2 DEF CloseSession, Kill, LockShape
<1>5. /\ tail' \in [Procs -> Last(n) \cup {Unknown}] /\ prefix' \in [Procs -> Cache(n)]
      /\ load' \in [Procs -> Loads(n)]
      /\ load'[p].pc = "idle" /\ \A q \in Procs : q # p => load'[q] = load[q]
  BY <1>2, <1>3 DEF CloseSession, Kill
<1>6. /\ session' \in [Procs -> Sessions(n)] /\ \A q \in Procs : LockShape(q)'
      /\ session'[p] = NoSession /\ \A q \in Procs : q # p => session'[q] = session[q]
  <2>1. /\ NoSession.pc # "idle" <=> lock' = p
        /\ \A q \in Procs : q # p => (lock' = q <=> lock = q)
        /\ NoSession.pc \in {"written", "appended"} => IsEvent(NoSession.event)
        /\ lock' \in Procs \cup {Nobody}
    BY <1>2, <1>3, <1>4, LogAssumption
  <2> QED BY <2>1, <1>1, <1>2, <1>3, SessionShape
<1>7. \A q \in Procs : HeldLoad(q)'
  BY <1>2, <1>3, <1>5, <1>6 DEF HeldLoad
<1>8. lock' \in Procs \cup {Nobody}
  BY <1>2, <1>4
<1> QED BY <1>1, <1>5, <1>6, <1>7, <1>8 DEF ShapeInv, Shape

LEMMA ShapeStep ==
  ASSUME ShapeInv, [Next]_vars
  PROVE  ShapeInv'
<1>1. CASE UNCHANGED logVars
  BY <1>1 DEF logVars, ShapeInv, Shape, LockShape, HeldLoad
<1>2. ASSUME NEW p \in Procs, ProcessStep(p) PROVE ShapeInv'
  <2>1. spent.appends \in Nat
    BY LogAssumption DEF ShapeInv
  <2>2. CASE ReadLog(p) \/ LoadSession(p) \/ LoadToSeal(p)
    <3>1. PICK why \in Whys : LoadFile(p, why) /\ (why # "read" => session[p].pc # "idle")
      BY <2>2 DEF ReadLog, LoadSession, LoadToSeal, Whys
    <3> QED BY <3>1, <2>1, LoadFileShape
  <2> QED BY <1>2, <2>2, LoadStepsShape, SectionShape, WriteLineShape, EndsShape, LeaveShape
          DEF ProcessStep
<1>3. CASE \E p \in Procs : LogStep(p) \/ KillProcess(p)
  BY <1>2, <1>3, LeaveShape DEF LogStep, KillProcess
<1>4. CASE \E c \in Clients : Replay(c)
  <2>1. Server \in Procs /\ ReadLog(Server)
    BY <1>4, StreamAssumption, LogAssumption DEF Replay
  <2> QED BY <2>1, <1>2 DEF ProcessStep
<1>5. CASE \E c \in Clients : Connect(c) \/ Receive(c) \/ Disconnect(c)
  BY <1>1, <1>5 DEF Connect, Receive, Disconnect
<1>6. CASE UNCHANGED vars
  BY <1>1, <1>6 DEF vars, logVars
<1> QED BY <1>3, <1>4, <1>5, <1>6 DEF Next

(***************************************************************************)
(* What is acknowledged stays, unless a line is cut or joined.             *)
(***************************************************************************)
Whole == mishaps \cap {"cut", "joined"} = {}

\* Who is writing a line has the end of the file to himself, a request begins at the end
\* of a line, and a load of a locked section cuts behind the last line only.
FileInv(p) ==
  LET l == load[p]
  IN  /\ Writing(p) => rest = << session[p].event >>
      /\ session[p].pc \in {"ready", "sealed", "appended"} /\ session[p].kind # "dispatch" =>
           rest = << >>
      /\ l.pc # "idle" /\ l.why # "read" =>
           /\ session[p].pc \in {"opened", "ready"}
           /\ session[p].pc = "ready" => tail[p] = Unknown
           /\ l.pc = "check" => rest \in {<< >>, l.seen}
           /\ l.pc = "cut" => l.cut = Len(lines)
           /\ l.pc = "done" => rest = << >>

WholeInv == Whole => AckedInv /\ \A p \in Procs : FileInv(p)

LEMMA OthersIdle ==
  ASSUME ShapeInv, NEW p \in Procs, session[p].pc # "idle", NEW q \in Procs, q # p
  PROVE  session[q].pc = "idle" /\ ~Writing(q) /\ (load[q].pc = "idle" \/ load[q].why = "read")
BY DEF ShapeInv, Shape, LockShape, HeldLoad, Writing

LEMMA FileLoad ==
  ASSUME ShapeInv, AckedInv, \A q \in Procs : FileInv(q), NEW p \in Procs, NEW why \in Whys,
         LoadFile(p, why), MayLoad(p, why)
  PROVE  AckedInv' /\ \A q \in Procs : FileInv(q)'
<1>1. /\ UNCHANGED << lines, rest, stored, lock, acked >> /\ load[p].pc = "idle"
      /\ session \in [Procs -> Sessions(spent.appends)]
      /\ load \in [Procs -> Loads(spent.appends)]
      /\ tail \in [Procs -> Last(spent.appends) \cup {Unknown}]
  BY DEF LoadFile, ShapeInv, Shape
<1>2. AckedInv'
  BY <1>1 DEF AckedInv, InLog
<1>3. CASE ~ChainHolds(p) \/ (ChainHolds(p) /\ rest = << >>)
  <2>1. load' = load
    BY <1>3 DEF LoadFile, Refuse
  <2>2. \A q \in Procs : q # p => session'[q] = session[q] /\ tail'[q] = tail[q]
    BY <1>1, <1>3 DEF LoadFile, Refuse, Return
  <2>3. \/ session'[p] = session[p] /\ tail'[p] = tail[p]
        \/ session'[p].pc = "failed"
        \/ session'[p].pc \in {"ready", "sealed"} /\ rest = << >>
    <3>1. CASE ~ChainHolds(p)
      BY <3>1, <1>1 DEF LoadFile, Refuse, Sessions
    <3>2. CASE ChainHolds(p) /\ rest = << >>
      <4>1. Return(p, why, Loaded(p).events)
        BY <3>2 DEF LoadFile
      <4> QED BY <4>1, <3>2, <1>1 DEF Return, Whys, Sessions
    <3> QED BY <1>3, <3>1, <3>2
  <2> QED BY <2>1, <2>2, <2>3, <1>1, <1>2 DEF FileInv, Writing
<1>4. CASE ChainHolds(p) /\ rest # << >>
  <2> DEFINE l == [pc |-> "check", why |-> why, found |-> Loaded(p), seen |-> rest, cut |-> 0]
  <2>1. load' = [load EXCEPT ![p] = l] /\ UNCHANGED << tail, prefix, session >>
    BY <1>4 DEF LoadFile
  <2>2. l.pc = "check" /\ l.why = why /\ l.seen = rest
    OBVIOUS
  <2> HIDE DEF l
  <2>3. \A q \in Procs : load'[q] = IF q = p THEN l ELSE load[q]
    BY <2>1, <1>1
  <2>4. why # "read" => session[p].pc \in {"opened", "ready"} /\ (session[p].pc = "ready" => tail[p] = Unknown)
    BY DEF MayLoad, Whys
  <2> HIDE DEF MayLoad
  <2>5. FileInv(p)'
    <3>1. load'[p].pc = "check" /\ load'[p].why = why /\ load'[p].seen = rest
      BY <2>2, <2>3
    <3> QED BY <3>1, <2>1, <2>4, <1>1 DEF FileInv, Writing
  <2>6. \A q \in Procs : q # p => FileInv(q)'
    BY <2>1, <2>3, <1>1 DEF FileInv, Writing
  <2> QED BY <2>5, <2>6, <1>2
<1> QED BY <1>3, <1>4

LEMMA FileCut ==
  ASSUME ShapeInv, AckedInv, \A q \in Procs : FileInv(q), NEW p \in Procs, Whole',
         CompareTail(p) \/ CutTail(p) \/ EndLoad(p)
  PROVE  AckedInv' /\ \A q \in Procs : FileInv(q)'
<1>1. /\ session \in [Procs -> Sessions(spent.appends)]
      /\ load \in [Procs -> Loads(spent.appends)] /\ load[p] \in Loads(spent.appends)
      /\ tail \in [Procs -> Last(spent.appends) \cup {Unknown}]
      /\ lines \in Seq(Spot(spent.appends)) /\ load[p].pc # "idle" /\ acked' = acked
      /\ load[p].why # "read" => session[p].pc # "idle"
  BY DEF ShapeInv, Shape, HeldLoad, CompareTail, CutTail, EndLoad
<1>2. CASE CompareTail(p)
  <2> DEFINE pc == IF rest = load[p].seen THEN "cut" ELSE "done"
             l == [load[p] EXCEPT !.pc = pc, !.cut = Len(lines)]
  <2>1. load' = [load EXCEPT ![p] = l] /\ UNCHANGED << lines, rest, session, tail >>
        /\ load[p].pc = "check"
    BY <1>1, <1>2 DEF CompareTail
  <2>2. l.pc = pc /\ l.cut = Len(lines) /\ l.why = load[p].why /\ l.seen = load[p].seen
    BY <1>1 DEF Loads
  <2> HIDE DEF l
  <2>3. \A q \in Procs : load'[q] = IF q = p THEN l ELSE load[q]
    BY <2>1, <1>1
  <2>4. /\ load'[p].pc = pc /\ load'[p].cut = Len(lines) /\ load'[p].why = load[p].why
        /\ load'[p].seen = load[p].seen
    BY <2>2, <2>3
  <2>5. FileInv(p)'
    <3>1. load[p].why # "read" /\ pc = "done" => rest = << >>
      BY <2>1 DEF FileInv
    <3> QED BY <3>1, <2>1, <2>4 DEF FileInv, Writing
  <2>6. \A q \in Procs : q # p => FileInv(q)'
    BY <2>1, <2>3 DEF FileInv, Writing
  <2> QED BY <2>1, <2>5, <2>6, <1>1 DEF AckedInv, InLog
<1>3. CASE CutTail(p)
  <2> DEFINE l == [load[p] EXCEPT !.pc = "done"]
  <2>1. load' = [load EXCEPT ![p] = l] /\ UNCHANGED << session, tail >> /\ load[p].pc = "cut"
    BY <1>3 DEF CutTail
  <2>2. l.pc = "done" /\ l.why = load[p].why
    BY <1>1 DEF Loads
  <2> HIDE DEF l
  <2>3. \A q \in Procs : load'[q] = IF q = p THEN l ELSE load[q]
    BY <2>1, <1>1
  <2>4. load[p].cut = Len(lines) /\ \A q \in Procs : ~Writing(q)
    <3>1. CASE load[p].why = "read"
      <4>1. ~(load[p].cut # Len(lines) \/ \E q \in Procs : Writing(q))
        BY <3>1, <1>3 DEF CutTail, Happen, Whole
      <4> QED BY <4>1
    <3>2. CASE load[p].why # "read"
      <4>1. load[p].cut = Len(lines) /\ session[p].pc \in {"opened", "ready"}
        BY <3>2, <2>1 DEF FileInv
      <4> QED BY <4>1, OthersIdle DEF Writing
    <3> QED BY <3>1, <3>2
  <2>5. lines' = lines /\ rest' = << >>
    <3>1. Len(lines) \in Nat
      BY <1>1, LenProperties
    <3> QED BY <3>1, <2>4, <1>1, <1>3, SubSeqFull DEF CutTail
  <2>6. AckedInv'
    BY <2>5, <1>1 DEF AckedInv, InLog
  <2>7. FileInv(p)'
    BY <2>1, <2>2, <2>3, <2>4, <2>5 DEF FileInv, Writing
  <2>8. \A q \in Procs : q # p => FileInv(q)'
    BY <2>1, <2>3, <2>4, <2>5 DEF FileInv, Writing
  <2> QED BY <2>6, <2>7, <2>8
<1>4. CASE EndLoad(p)
  <2>1. /\ UNCHANGED << lines, rest >> /\ load' = [load EXCEPT ![p] = NoLoad] /\ load[p].pc = "done"
        /\ Return(p, load[p].why, load[p].found.events)
    BY <1>4 DEF EndLoad
  <2>2. \A q \in Procs : load'[q] = IF q = p THEN NoLoad ELSE load[q]
    BY <2>1, <1>1
  <2>3. \A q \in Procs : q # p => session'[q] = session[q] /\ tail'[q] = tail[q]
    BY <2>1, <1>1 DEF Return
  <2>4. \/ session'[p] = session[p]
        \/ session'[p].pc = "failed"
        \/ session'[p].pc \in {"ready", "sealed"} /\ load[p].why # "read"
    BY <2>1, <1>1 DEF Return, Loads, Whys, Sessions
  <2>5. load[p].why # "read" => rest = << >>
    BY <2>1 DEF FileInv
  <2>6. FileInv(p)'
    BY <2>1, <2>2, <2>4, <2>5 DEF FileInv, Writing, NoLoad
  <2>7. \A q \in Procs : q # p => FileInv(q)'
    BY <2>1, <2>2, <2>3 DEF FileInv, Writing
  <2> QED BY <2>1, <2>6, <2>7, <1>1 DEF AckedInv, InLog
<1> QED BY <1>2, <1>3, <1>4

LEMMA FileAppend ==
  ASSUME ShapeInv, AckedInv, \A q \in Procs : FileInv(q), NEW p \in Procs, Whole',
         WriteLine(p) \/ EndLine(p) \/ ApplyAppended(p) \/ \E goesOn \in BOOLEAN : WriteFails(p, goesOn)
  PROVE  AckedInv' /\ \A q \in Procs : FileInv(q)'
<1>1. /\ session \in [Procs -> Sessions(spent.appends)] /\ session[p] \in Sessions(spent.appends)
      /\ load' = load /\ session[p].pc \notin {"idle", "opened"}
  BY DEF ShapeInv, Shape, WriteLine, EndLine, ApplyAppended, WriteFails, Writing
<1>2. /\ \A q \in Procs : q # p => session'[q] = session[q]
      /\ session'[p].kind = session[p].kind
  BY <1>1 DEF WriteLine, EndLine, ApplyAppended, WriteFails, Sessions
<1>3. \A q \in Procs : q # p => session[q].pc = "idle" /\ ~Writing(q) /\ (load[q].pc = "idle" \/ load[q].why = "read")
  BY <1>1, OthersIdle
<1>4. \A q \in Procs : q # p => FileInv(q)'
  BY <1>1, <1>2, <1>3 DEF FileInv, Writing
<1>5. load[p].pc = "idle" \/ load[p].why = "read" \/ (session[p].pc = "ready" /\ tail[p] = Unknown)
  BY <1>1 DEF FileInv
<1>6. CASE WriteLine(p)
  <2>1. load[p].pc = "idle" \/ load[p].why = "read"
    BY <1>5, <1>6 DEF WriteLine
  <2>2. rest = << >>
    <3>1. ~(session[p].kind = "dispatch" /\ rest # << >>)
      BY <1>6 DEF WriteLine, Harm, Happen, Whole
    <3>2. session[p].pc \in {"ready", "sealed"}
      BY <1>6 DEF WriteLine
    <3> QED BY <3>1, <3>2 DEF FileInv
  <2>3. /\ session'[p].pc = "written" /\ rest' = << session'[p].event >>
        /\ UNCHANGED << lines, acked >>
    BY <2>2, <1>1, <1>6 DEF WriteLine, Sessions
  <2>4. FileInv(p)'
    BY <2>1, <2>3, <1>1 DEF FileInv, Writing
  <2> QED BY <2>3, <2>4, <1>4 DEF AckedInv, InLog
<1>7. CASE EndLine(p)
  <2> DEFINE e == session[p].event
  <2>1. rest = << e >> /\ session[p].pc = "written"
    BY <1>7 DEF EndLine, FileInv, Writing
  <2>2. /\ lines' = Append(lines, e) /\ rest' = << >> /\ acked' = acked \cup {e}
        /\ session'[p].pc = "appended"
    <3>1. rest # << >> /\ Len(rest) = 1 /\ rest[1] = e
      BY <2>1
    <3> HIDE DEF e
    <3> QED BY <3>1, <1>1, <1>7 DEF EndLine, Sessions, e
  <2>3. lines \in Seq(Spot(spent.appends)) /\ e \in Spot(spent.appends)
    BY <1>1 DEF ShapeInv, Shape, Sessions
  <2> HIDE DEF e
  <2>4. /\ Len(lines) \in Nat /\ Len(lines') = Len(lines) + 1 /\ lines'[Len(lines) + 1] = e
        /\ \A i \in 1..Len(lines) : lines'[i] = lines[i]
    BY <2>2, <2>3, AppendProperties, LenProperties
  <2>5. AckedInv'
    BY <2>2, <2>4 DEF AckedInv, InLog
  <2>6. FileInv(p)'
    BY <2>1, <2>2, <1>1, <1>5 DEF FileInv, Writing
  <2> QED BY <2>5, <2>6, <1>4
<1>8. CASE ApplyAppended(p)
  <2>1. /\ session[p].pc = "appended" /\ session'[p].pc \in {"ready", "failed"}
        /\ UNCHANGED << lines, rest, acked >>
    BY <1>1, <1>8 DEF ApplyAppended, Sessions
  <2>2. FileInv(p)'
    BY <2>1, <1>1, <1>2, <1>5 DEF FileInv, Writing
  <2> QED BY <2>1, <2>2, <1>4 DEF AckedInv, InLog
<1>9. ASSUME NEW goesOn \in BOOLEAN, WriteFails(p, goesOn) PROVE AckedInv' /\ \A q \in Procs : FileInv(q)'
  <2>1. /\ session[p].pc = "written" /\ UNCHANGED << lines, acked >>
        /\ session'[p].pc = "failed" \/ (session'[p].pc = "ready" /\ session[p].kind = "dispatch")
    BY <1>1, <1>9 DEF WriteFails, Writing, Sessions
  <2>2. FileInv(p)'
    BY <2>1, <1>1, <1>2, <1>5 DEF FileInv, Writing
  <2> QED BY <2>1, <2>2, <1>4 DEF AckedInv, InLog
<1> QED BY <1>6, <1>7, <1>8, <1>9

LEMMA WholeStep ==
  ASSUME ShapeInv, WholeInv, [Next]_vars
  PROVE  WholeInv'
<1> SUFFICES ASSUME Whole' PROVE AckedInv' /\ \A q \in Procs : FileInv(q)'
  BY DEF WholeInv
<1>1. CASE UNCHANGED logVars
  BY <1>1 DEF logVars, WholeInv, Whole, AckedInv, InLog, FileInv, Writing
<1>2. ASSUME NEW p \in Procs, ProcessStep(p) \/ Kill(p)
      PROVE  AckedInv' /\ \A q \in Procs : FileInv(q)'
  <2>1. mishaps \subseteq mishaps'
    BY <1>2 DEF ProcessStep, ReadLog, LoadSession, LoadToSeal, LoadFile, CompareTail, CutTail,
                EndLoad, OpenSession, WriteLine, Harm, EndLine, ApplyAppended, CloseSession,
                WriteFails, Kill, Happen
  <2>2. AckedInv /\ \A q \in Procs : FileInv(q)
    BY <2>1 DEF WholeInv, Whole
  <2>3. CASE ReadLog(p) \/ LoadSession(p) \/ LoadToSeal(p)
    <3>1. PICK why \in Whys : LoadFile(p, why) /\ MayLoad(p, why)
      BY <2>3 DEF ReadLog, LoadSession, LoadToSeal, MayLoad, Whys
    <3> QED BY <3>1, <2>2, FileLoad
  <2>4. CASE CompareTail(p) \/ CutTail(p) \/ EndLoad(p)
    BY <2>2, <2>4, FileCut
  <2>5. CASE WriteLine(p) \/ EndLine(p) \/ ApplyAppended(p) \/ \E goesOn \in BOOLEAN : WriteFails(p, goesOn)
    BY <2>2, <2>5, FileAppend
  <2>6. ASSUME NEW kind \in {"dispatch", "request"}, OpenSession(p, kind)
        PROVE  AckedInv' /\ \A q \in Procs : FileInv(q)'
    <3>1. /\ session \in [Procs -> Sessions(spent.appends)]
          /\ HeldLoad(p) /\ session[p].pc = "idle"
          /\ UNCHANGED << lines, rest, acked, load, tail >>
      BY <2>6 DEF ShapeInv, Shape, OpenSession
    <3>2. session'[p].pc = "opened" /\ \A q \in Procs : q # p => session'[q] = session[q]
      BY <3>1, <2>6 DEF OpenSession, NoSession
    <3> QED BY <3>1, <3>2, <2>2 DEF FileInv, Writing, HeldLoad, AckedInv, InLog
  <2>7. CASE CloseSession(p) \/ Kill(p)
    <3>1. /\ session \in [Procs -> Sessions(spent.appends)]
          /\ load \in [Procs -> Loads(spent.appends)]
          /\ tail \in [Procs -> Last(spent.appends) \cup {Unknown}]
          /\ UNCHANGED << lines, rest, acked >>
      BY <2>7 DEF ShapeInv, Shape, CloseSession, Kill
    <3>2. /\ session'[p].pc = "idle" /\ load'[p].pc = "idle"
          /\ \A q \in Procs : q # p => session'[q] = session[q] /\ load'[q] = load[q] /\ tail'[q] = tail[q]
      BY <3>1, <2>7 DEF CloseSession, Kill, NoSession, NoLoad
    <3> QED BY <3>1, <3>2, <2>2 DEF FileInv, Writing, AckedInv, InLog
  <2> QED BY <1>2, <2>3, <2>4, <2>5, <2>6, <2>7 DEF ProcessStep
<1>3. CASE \E p \in Procs : LogStep(p) \/ KillProcess(p)
  BY <1>2, <1>3 DEF LogStep, KillProcess
<1>4. CASE \E c \in Clients : Replay(c)
  <2>1. Server \in Procs /\ ReadLog(Server)
    BY <1>4, StreamAssumption, LogAssumption DEF Replay
  <2> QED BY <2>1, <1>2 DEF ProcessStep
<1>5. CASE \E c \in Clients : Connect(c) \/ Receive(c) \/ Disconnect(c)
  BY <1>1, <1>5 DEF Connect, Receive, Disconnect
<1>6. CASE UNCHANGED vars
  BY <1>1, <1>6 DEF vars, logVars
<1> QED BY <1>3, <1>4, <1>5, <1>6 DEF Next

LEMMA InitInv ==
  ASSUME Init
  PROVE  CoreInv /\ StreamInv
<1>1. /\ lines = << >> /\ rest = << >> /\ stored = Genesis /\ lock = Nobody
      /\ session = [p \in Procs |-> NoSession] /\ tail = [p \in Procs |-> Unknown]
      /\ prefix = [p \in Procs |-> EmptyPrefix] /\ load = [p \in Procs |-> NoLoad]
      /\ acked = {} /\ spent = [appends |-> 0, crashes |-> 0, faults |-> 0]
      /\ channel = << >> /\ client = [c \in Clients |-> Offline]
  BY DEF Init, LogInit
<1>2. /\ << >> \in Seq(Event) /\ << >> \in Seq(Piece) /\ Len(<< >>) = 0
      /\ lines \in Seq(Event) /\ Len(lines) = 0
  BY <1>1, EmptySeq
<1>3. /\ Unknown \in Mark /\ Genesis \in Mark /\ EmptyPrefix \in Prefix
      /\ NoLoad \in LoadType /\ NoSession \in SessionType
      /\ NoLoad.pc = "idle" /\ NoSession.pc = "idle" /\ NoSession.kind = "none"
  BY <1>2, LogAssumption DEF Unknown, Mark, EmptyPrefix, Prefix, NoLoad, LoadType,
                             NoSession, SessionType, Genesis, Piece
<1>4. TypeInv
  BY <1>1, <1>2, <1>3, LogAssumption DEF TypeInv
<1>5. ChainInv /\ StoredInv /\ AckedInv
  BY <1>1, <1>2 DEF ChainInv, StoredInv, AckedInv, Genesis
<1>6. ASSUME NEW p \in Procs PROVE CacheInv(p) /\ SessionInv(p) /\ LoadInv(p)
  <2>1. SubSeq(lines, 1, 0) = << >>
    BY <1>2, SubSeqEmpty
  <2>2. prefix[p] = EmptyPrefix /\ session[p] = NoSession /\ load[p] = NoLoad /\ tail[p] = Unknown
    BY <1>1
  <2>3. CacheInv(p)
    BY <2>1, <2>2, <1>2 DEF CacheInv, IsPrefixOfLog, EmptyPrefix
  <2>4. SessionInv(p)
    BY <2>2, <1>1, <1>3, LogAssumption DEF SessionInv
  <2>5. LoadInv(p)
    BY <2>2, <1>3 DEF LoadInv
  <2> QED BY <2>3, <2>4, <2>5
<1>7. StreamInv
  <2>1. Offline \in ClientType /\ Offline.pc = "offline"
    BY DEF Offline, ClientType
  <2> HIDE DEF Offline
  <2> QED BY <2>1, <1>1, <1>2 DEF StreamInv
<1> QED BY <1>4, <1>5, <1>6, <1>7 DEF CoreInv

LEMMA InitShape ==
  ASSUME Init
  PROVE  ShapeInv /\ AckedInv /\ \A p \in Procs : FileInv(p)
<1>1. /\ lines = << >> /\ rest = << >> /\ stored = Genesis /\ lock = Nobody
      /\ session = [p \in Procs |-> NoSession] /\ tail = [p \in Procs |-> Unknown]
      /\ prefix = [p \in Procs |-> EmptyPrefix] /\ load = [p \in Procs |-> NoLoad]
      /\ acked = {} /\ mishaps = {} /\ spent = [appends |-> 0, crashes |-> 0, faults |-> 0]
  BY DEF Init, LogInit
<1>2. << >> \in Seq(Spot(0)) /\ << >> \in Seq(Rec(0))
  BY EmptySeq
<1>3. Genesis \in Last(0) /\ EmptyPrefix \in Cache(0)
  BY <1>2, LogAssumption DEF Genesis, Last, EmptyPrefix, Cache
<1>4. /\ NoLoad \in Loads(0) /\ NoSession \in Sessions(0)
      /\ NoLoad.pc = "idle" /\ NoSession.pc = "idle"
  BY <1>2, <1>3 DEF NoLoad, Loads, Whys, NoSession, Sessions, Spot
<1>5. ShapeInv
  BY <1>1, <1>2, <1>3, <1>4, LogAssumption DEF ShapeInv, Shape, LockShape, HeldLoad
<1>6. ASSUME NEW p \in Procs PROVE FileInv(p)
  BY <1>1, <1>4 DEF FileInv, Writing
<1> QED BY <1>1, <1>5, <1>6 DEF AckedInv

\* What has happened to the log stays.
LEMMA MishapsGrow ==
  ASSUME ShapeInv, [Next]_vars
  PROVE  mishaps \subseteq mishaps' /\ spent.faults <= spent'.faults
<1>0. spent \in [appends : 0..MaxAppends, crashes : Nat, faults : Nat]
  BY DEF ShapeInv
<1>1. CASE UNCHANGED logVars
  BY <1>0, <1>1 DEF logVars
<1>2. ASSUME NEW p \in Procs, ProcessStep(p) \/ Kill(p)
      PROVE  mishaps \subseteq mishaps' /\ spent.faults <= spent'.faults
  <2>1. CASE ReadLog(p) \/ LoadSession(p) \/ LoadToSeal(p)
    BY <2>1, <1>0 DEF ReadLog, LoadSession, LoadToSeal, LoadFile
  <2>2. CASE CompareTail(p) \/ CutTail(p) \/ EndLoad(p)
    BY <2>2, <1>0 DEF CompareTail, CutTail, EndLoad, Happen
  <2>3. CASE WriteLine(p)
    BY <2>3, <1>0 DEF WriteLine, Harm, Happen
  <2>4. CASE \E goesOn \in BOOLEAN : WriteFails(p, goesOn)
    BY <2>4, <1>0 DEF WriteFails
  <2>5. CASE EndLine(p) \/ ApplyAppended(p) \/ CloseSession(p) \/ Kill(p)
             \/ \E kind \in {"dispatch", "request"} : OpenSession(p, kind)
    BY <2>5, <1>0 DEF EndLine, ApplyAppended, CloseSession, Kill, OpenSession
  <2> QED BY <1>2, <2>1, <2>2, <2>3, <2>4, <2>5 DEF ProcessStep
<1>3. CASE \E p \in Procs : LogStep(p) \/ KillProcess(p)
  BY <1>2, <1>3 DEF LogStep, KillProcess
<1>4. CASE \E c \in Clients : Replay(c)
  <2>1. Server \in Procs /\ ReadLog(Server)
    BY <1>4, StreamAssumption, LogAssumption DEF Replay
  <2> QED BY <2>1, <1>2 DEF ProcessStep
<1>5. CASE \E c \in Clients : Connect(c) \/ Receive(c) \/ Disconnect(c)
  BY <1>1, <1>5 DEF Connect, Receive, Disconnect
<1>6. CASE UNCHANGED vars
  BY <1>1, <1>6 DEF vars, logVars
<1> QED BY <1>3, <1>4, <1>5, <1>6 DEF Next

\* A line is put behind the rest of another only where a write has failed.
FaultInv == "joined" \in mishaps /\ mishaps \cap {"cut", "stale"} = {} => spent.faults > 0

LEMMA FaultStep ==
  ASSUME ShapeInv, UnharmedInv, FaultInv, [Next]_vars
  PROVE  FaultInv'
<1> SUFFICES ASSUME "joined" \in mishaps', mishaps' \cap {"cut", "stale"} = {}
             PROVE  spent'.faults > 0
  BY DEF FaultInv
<1>1. /\ mishaps \subseteq mishaps' /\ mishaps \subseteq Mishaps
      /\ spent.faults \in Nat /\ spent'.faults \in Nat /\ spent.faults <= spent'.faults
  BY MishapsGrow, ShapeStep DEF ShapeInv, Shape
<1>2. CASE "joined" \in mishaps
  BY <1>1, <1>2 DEF FaultInv
<1>3. CASE "joined" \notin mishaps
  <2>1. Unharmed /\ CoreInv
    BY <1>1, <1>3 DEF Unharmed, Mishaps, UnharmedInv
  <2>2. ASSUME NEW p \in Procs, ProcessStep(p) \/ Kill(p) PROVE spent.faults > 0
    <3>1. WriteLine(p)
      BY <2>2, <1>3 DEF ProcessStep, ReadLog, LoadSession, LoadToSeal, LoadFile, CompareTail,
                CutTail, EndLoad, OpenSession, EndLine, ApplyAppended, CloseSession,
                WriteFails, Kill, Happen
    <3>2. rest # << >> /\ session[p].pc \in {"ready", "sealed"}
      BY <3>1, <1>3 DEF WriteLine, Harm, Happen
    <3> QED BY <3>2, <2>1 DEF CoreInv, SessionInv
  <2>3. \E p \in Procs : ProcessStep(p) \/ Kill(p)
    <3>1. CASE \E p \in Procs : LogStep(p) \/ KillProcess(p)
      BY <3>1 DEF LogStep, KillProcess
    <3>2. CASE \E c \in Clients : Replay(c)
      BY <3>2, StreamAssumption, LogAssumption DEF Replay, ProcessStep
    <3>3. CASE (\E c \in Clients : Connect(c) \/ Receive(c) \/ Disconnect(c)) \/ UNCHANGED vars
      BY <3>3, <1>3 DEF Connect, Receive, Disconnect, vars, logVars
    <3> QED BY <3>1, <3>2, <3>3 DEF Next
  <2> QED BY <2>2, <2>3, <1>1
<1> QED BY <1>2, <1>3

(***************************************************************************)
(* The theorems.                                                           *)
(***************************************************************************)
LogInv == ShapeInv /\ WholeInv /\ UnharmedInv /\ FaultInv

\* The inductive invariant of the log and its stream: what always holds, what holds until
\* a line is cut or joined, and what holds until the log is harmed in any way.
THEOREM LogInvariant == Spec => []LogInv
<1>1. Init => LogInv
  <2> SUFFICES ASSUME Init PROVE LogInv
    OBVIOUS
  <2>1. mishaps = {}
    BY DEF Init, LogInit
  <2> QED BY <2>1, InitInv, InitShape DEF LogInv, WholeInv, UnharmedInv, FaultInv
<1>2. LogInv /\ [Next]_vars => LogInv'
  <2> SUFFICES ASSUME LogInv, [Next]_vars PROVE LogInv'
    OBVIOUS
  <2>1. ShapeInv' /\ WholeInv' /\ FaultInv'
    BY ShapeStep, WholeStep, FaultStep DEF LogInv
  <2>2. UnharmedInv'
    <3> SUFFICES ASSUME Unharmed' PROVE CoreInv' /\ StreamInv'
      BY DEF UnharmedInv
    <3>1. Unharmed
      BY MishapsGrow DEF LogInv, Unharmed
    <3>2. CoreInv /\ StreamInv
      BY <3>1 DEF LogInv, UnharmedInv
    <3> QED BY <3>2, CoreStep, StreamStep
  <2> QED BY <2>1, <2>2 DEF LogInv
<1> QED BY <1>1, <1>2, PTL DEF Spec

\* The file, the sessions and the caches stay well formed, and a locked section belongs
\* to the holder of the run's lock (RunLease), whatever has happened to the log.
THEOREM LogTypes == Spec => []LogTypeOK
<1>1. LogInv => LogTypeOK
  <2> SUFFICES ASSUME LogInv PROVE LogTypeOK
    OBVIOUS
  <2>1. ShapeInv /\ Shape(spent.appends)
    BY DEF LogInv, ShapeInv
  <2>2. \A s \in Seq(Spot(spent.appends)) : \A i \in 1..Len(s) : s[i] \in Event \cup {Junk}
    <3>1. Spot(spent.appends) \subseteq Event \cup {Junk}
      BY DEF Spot, Rec
    <3> QED BY <3>1, ElementOfSeq
  <2>3. /\ \A i \in 1..Len(lines) : lines[i] \in Event \cup {Junk}
        /\ \A i \in 1..Len(rest) : rest[i] \in Event \cup {Junk}
    BY <2>1, <2>2 DEF Shape
  <2>4. acked \subseteq Event /\ mishaps \subseteq Mishaps /\ lock \in Procs \cup {Nobody}
    BY <2>1 DEF Shape, Rec
  <2>5. ASSUME NEW p \in Procs
        PROVE  /\ session[p].pc \in {"idle", "opened", "ready", "sealed", "written", "appended", "failed"}
               /\ load[p].pc \in {"idle", "check", "cut", "done"}
               /\ session[p].pc # "idle" <=> lock = p
               /\ prefix[p].off \in Nat
    BY <2>1 DEF Shape, Sessions, Loads, Cache, LockShape
  <2> QED BY <2>3, <2>4, <2>5 DEF LogTypeOK
<1> QED BY <1>1, LogInvariant, PTL

\* An acknowledged record is lost only where a load without the lock cut under an append,
\* or a line was written behind the rest of a failed one: never by a kill between two
\* steps of append_line_synchronised and truncate_partial_tail, by a cached tail, or by a
\* truncation of the holder of the lock.
THEOREM AcknowledgedStay == Spec => []AcknowledgedSurvive
<1>1. LogInv => AcknowledgedSurvive
  BY DEF LogInv, WholeInv, Whole, AckedInv, InLog, AcknowledgedSurvive
<1> QED BY <1>1, LogInvariant, PTL

\* Until the log is harmed, what any process serves from its verified prefix is the
\* beginning of the history (the cache of EventLogFile::load).
THEOREM CachesArePrefixes == Spec => []CachesAgree
<1>1. LogInv => CachesAgree
  <2> SUFFICES ASSUME LogInv, Unharmed, NEW p \in Procs
               PROVE  /\ Len(prefix[p].events) <= Len(Committed)
                      /\ SubSeq(Committed, 1, Len(prefix[p].events)) = prefix[p].events
    BY DEF CachesAgree
  <2>1. CoreInv
    BY DEF LogInv, UnharmedInv
  <2>2. Committed = lines
    BY <2>1, RecordsOfEvents DEF Committed, CoreInv, TypeInv
  <2>3. IsPrefixOfLog(prefix[p])
    BY <2>1 DEF CoreInv, CacheInv
  <2> QED BY <2>2, <2>3 DEF IsPrefixOfLog
<1> QED BY <1>1, LogInvariant, PTL

\* A dispatch or a request ends on the log because a write has failed, a load without the
\* lock has cut under an append, or a server has appended behind a stale tail, and for no
\* other reason (recover, append_locked, apply).
THEOREM SessionsFailByFaults == Spec => []OnlyFaultsFail
<1>1. LogInv => OnlyFaultsFail
  <2> SUFFICES ASSUME LogInv, mishaps \cap {"cut", "stale"} = {}, NEW p \in Procs,
                      session[p].pc = "failed"
               PROVE  spent.faults > 0
    BY DEF OnlyFaultsFail
  <2>1. CASE "joined" \in mishaps
    BY <2>1 DEF LogInv, FaultInv
  <2>2. CASE "joined" \notin mishaps
    <3>1. Unharmed
      BY <2>2 DEF LogInv, ShapeInv, Shape, Mishaps, Unharmed
    <3> QED BY <3>1 DEF LogInv, UnharmedInv, CoreInv, SessionInv
  <2> QED BY <2>1, <2>2
<1> QED BY <1>1, LogInvariant, PTL

\* On an unharmed log no event falls between the replayed page and the subscription of a
\* browser, for any page limit and channel capacity (stream_events).
THEOREM StreamMissesNothing == Spec => []NothingMissedUnnoticed
<1>1. LogInv => NothingMissedUnnoticed
  <2> SUFFICES ASSUME LogInv, Unharmed, NEW c \in Clients,
                      client[c].pc = "live", ~client[c].told, ~client[c].full,
                      NEW i \in 1..Len(channel), ~(i >= client[c].next)
               PROVE  channel[i].seq \in client[c].got
    BY DEF NothingMissedUnnoticed
  <2>0. StreamInv
    BY DEF LogInv, UnharmedInv
  <2>1. Len(channel) \in Nat /\ client[c].next \in Nat
    BY <2>0, LenProperties DEF StreamInv, ClientType
  <2>2. i < client[c].next
    BY <2>1
  <2> QED BY <2>0, <2>2 DEF StreamInv
<1> QED BY <1>1, LogInvariant, PTL

\* The file and its caches implement the append-only history: until a step harms the log,
\* every step of every process leaves the committed records alone or adds one that
\* continues them.
THEOREM LogImplements == Spec => Implements
<1>1. Init => Abstract!LogInit
  <2> SUFFICES ASSUME Init PROVE Committed = << >> /\ Unharmed
    BY DEF Abstract!LogInit
  <2>1. lines = << >> /\ << >> \in Seq(Event) /\ Unharmed
    BY EmptySeq DEF Init, LogInit, Unharmed
  <2> QED BY <2>1, RecordsOfEvents DEF Committed
<1>2. LogInv /\ LogInv' /\ [Next]_vars
        => [Abstract!Extend \/ Abstract!Break]_<< Committed, Unharmed >>
  <2> SUFFICES ASSUME LogInv, LogInv', [Next]_vars, Unharmed'
               PROVE  (Committed' = Committed /\ Unharmed' = Unharmed) \/ Abstract!Extend
    BY DEF Abstract!Break
  <2>0. Unharmed /\ CoreInv /\ CoreInv' /\ LinesGrow
    <3>1. Unharmed
      BY MishapsGrow DEF LogInv, Unharmed
    <3>2. CoreInv
      BY <3>1 DEF LogInv, UnharmedInv
    <3> QED BY <3>1, <3>2, CoreStep
  <2>1. Committed = lines /\ lines \in Seq(Event)
    BY <2>0, RecordsOfEvents DEF Committed, CoreInv, TypeInv
  <2>2. Committed' = lines'
    <3>1. lines' \in Seq(Event)
      BY <2>0 DEF CoreInv, TypeInv
    <3>2. Records(lines') = lines'
      BY <3>1, RecordsOfEvents
    <3> QED BY <3>2 DEF Committed
  <2>3. CASE lines' = lines
    BY <2>0, <2>1, <2>2, <2>3 DEF Unharmed
  <2>4. CASE lines' # lines
    <3>1. PICK e \in Event : Verifies(e, TailOf(lines)) /\ lines' = Append(lines, e)
      BY <2>0, <2>4 DEF LinesGrow
    <3>2. /\ Len(lines) \in Nat /\ Len(lines') = Len(lines) + 1
          /\ lines'[Len(lines) + 1] = e
          /\ \A n \in 0..Len(lines) : SubSeq(lines', 1, n) = SubSeq(lines, 1, n)
      BY <3>1, <2>1, AppendFacts
    <3>3. SubSeq(lines', 1, Len(lines)) = lines
      BY <3>2, <2>1, SubSeqFull
    <3>4. Abstract!Continues(lines, e)
      <4>1. TailOf(lines).seq = Len(lines)
        BY <2>0, TailFacts DEF CoreInv
      <4> QED BY <4>1, <3>1 DEF Abstract!Continues, Abstract!Genesis, Verifies, TailOf, Genesis
    <3> QED BY <3>2, <3>3, <3>4, <2>0, <2>1, <2>2 DEF Abstract!Extend
  <2> QED BY <2>3, <2>4
<1>3. Spec => []LogInv
  BY LogInvariant
<1> QED BY <1>1, <1>2, <1>3, PTL DEF Spec, Implements, Abstract!LogSpec
=============================================================================
