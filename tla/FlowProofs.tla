------------------------------ MODULE FlowProofs ------------------------------
(***************************************************************************)
(* How the calls of a task and the history of its owner go together: one   *)
(* attempt at a time, along the workflow graph.                            *)
(***************************************************************************)
EXTENDS EngineProofs, SequenceTheorems

(***************************************************************************)
(* Kinds of calls.                                                         *)
(***************************************************************************)
Commits(x, kinds) == x.op = "Do" /\ x.event.kind \in kinds
Begins(x) == Commits(x, {"NodeStarted"})
Closes(x) == Commits(x, {"NodeClosed"})

\* Calls that nothing follows, and calls that may follow the end of an attempt.
LastOps == {"Start", "Body", "Await", "Return"}
Follows(x) ==
  \/ x.op \in {"SetRun", "SetCand", "Return", "Fail"}
  \/ Commits(x, {"RunStatusChanged", "CandidateStatusChanged"})

\* Calls that depend on no attempt.
Simple(x) == x.op \notin LastOps \cup {"Edit"} /\ ~Begins(x) /\ ~Closes(x)
SimpleOp == {x \in PlannedOp : Simple(x)}

\* Calls through which an open attempt gets closed, or its task fails.
Settles(x) == x.op \in {"Body", "Fail"} \/ Closes(x)

(***************************************************************************)
(* One owner: hs are its recorded attempts, s the calls it has to make.    *)
(***************************************************************************)
LastOf(hs) == hs[Len(hs)]
OpenIn(hs) == hs # << >> /\ LastOf(hs).status = "Started"

Leads(a, node) ==
  IF a.status = "Interrupted" THEN node = a.node
  ELSE /\ a.status \in {"Succeeded", "Failed"}
       /\ node = a.next /\ node \in AllowedSuccessors[a.node]

\* The owner may record an attempt of this node next.
MayStart(o, hs, node) ==
  /\ ~OpenIn(hs)
  /\ o = RunOwner => node \in RunNodes
  /\ o \in Cands => /\ node \in CandidateNodes
                   /\ IF hs = << >> THEN node = "Implement" ELSE Leads(LastOf(hs), node)

\* The attempt that is being executed, or about to be recorded.
Current(hs, s, node) ==
  IF Begins(s[1]) THEN s[1].event.node = node ELSE OpenIn(hs) /\ LastOf(hs).node = node
CurrentNumber(hs, s) == IF Begins(s[1]) THEN s[1].event.number ELSE LastOf(hs).number

SoundCall(o, hs, s, i) ==
  LET x == s[i]
  IN  /\ x.op \in LastOps => i = Len(s)
      /\ x.op = "Await" => o = RunOwner
      /\ x.op = "Start" => MayStart(o, hs, x.node)
      /\ Begins(x) =>
           /\ i = 1 /\ x.event.owner = o /\ MayStart(o, hs, x.event.node)
           /\ \A j \in DOMAIN s : j # 1 => s[j].op \in {"Edit", "Body"}
      /\ x.op \in {"Edit", "Body"} => Current(hs, s, x.node)
      /\ x.op = "Body" => x.number = CurrentNumber(hs, s)
      /\ Closes(x) =>
           /\ x.event.owner = o /\ OpenIn(hs)
           /\ IsAttempt(LastOf(hs), x.event.node, x.event.number)
           /\ ValidResult(x.event.node, x.event.next)
           /\ \A j \in DOMAIN s : j > i => Follows(s[j])
Sound(o, hs, s) == \A i \in DOMAIN s : SoundCall(o, hs, s, i)

\* Whatever is open will be closed.
Ending(hs, s) ==
  OpenIn(hs) \/ (s # << >> /\ Begins(s[1])) => \E i \in DOMAIN s : Settles(s[i])

\* Only the last attempt may be open, verdicts are edges of the graph, and the attempts of
\* a candidate follow them.
Recorded(o, hs) ==
  \A i \in DOMAIN hs :
    /\ hs[i].status = "Started" => i = Len(hs)
    /\ ValidResult(hs[i].node, hs[i].next)
    /\ o = RunOwner => hs[i].node \in RunNodes
    /\ o \in Cands => hs[i].node \in CandidateNodes
    /\ o \in Cands /\ i < Len(hs) => FollowsGraph(hs[i], hs[i + 1])

(***************************************************************************)
(* The invariant.                                                          *)
(***************************************************************************)
RequestKindsOfEvents ==
  {"PlanApprovalInvalidated", "PlanVersionWritten", "PlanDecisionRecorded",
   "CommitApprovalRecorded", "CancellationRequested"}

TaskInv ==
  /\ lock # "dispatch" =>
       (\A o \in Owners : todo[o] = << >>) /\ (\A c \in Cands : task[c] = "none")
  /\ \A c \in Cands : /\ task[c] # "running" => todo[c] = << >>
                      /\ task[c] # "none" => todo[RunOwner] = << Await >>
  /\ \A r \in pending :
       /\ r.held => lock = "service" /\ \A q \in pending : q.held => q = r
       /\ \A i \in DOMAIN r.events : r.events[i].kind \in RequestKindsOfEvents

OwnerInv(o) ==
  /\ Recorded(o, run.attempts[o])
  /\ Sound(o, run.attempts[o], todo[o])
  /\ lock = "dispatch" =>
       \/ Ending(run.attempts[o], todo[o])
       \/ o \in Cands /\ todo[o] = << >> /\ (task[o] = "failed" \/ todo[RunOwner] = << Fail >>)

FlowInv == TaskInv /\ \A o \in Owners : OwnerInv(o)

(***************************************************************************)
(* Sequences of calls.                                                     *)
(***************************************************************************)
LEMMA Concat ==
  ASSUME NEW c \in Seq(PlannedOp), NEW s \in Seq(PlannedOp), NEW t, t = c \o s
  PROVE  /\ t \in Seq(PlannedOp) /\ DOMAIN t = 1..Len(t) /\ Len(t) = Len(c) + Len(s)
         /\ Len(c) \in Nat /\ Len(s) \in Nat /\ Len(t) \in Nat
         /\ DOMAIN s = 1..Len(s) /\ DOMAIN c = 1..Len(c)
         /\ \A i \in DOMAIN c : i \in DOMAIN t /\ t[i] = c[i]
         /\ \A k \in DOMAIN s : Len(c) + k \in DOMAIN t /\ t[Len(c) + k] = s[k]
<1>1. /\ t \in Seq(PlannedOp) /\ DOMAIN t = 1..Len(t) /\ Len(t) = Len(c) + Len(s)
      /\ Len(c) \in Nat /\ Len(s) \in Nat /\ Len(t) \in Nat
      /\ DOMAIN s = 1..Len(s) /\ DOMAIN c = 1..Len(c)
  OBVIOUS
<1>2. \A i \in 1..Len(t) : t[i] = IF i <= Len(c) THEN c[i] ELSE s[i - Len(c)]
  OBVIOUS
<1>3. \A i \in DOMAIN c : i \in DOMAIN t /\ t[i] = c[i]
  BY <1>1, <1>2
<1>4. ASSUME NEW k \in DOMAIN s
      PROVE  Len(c) + k \in DOMAIN t /\ t[Len(c) + k] = s[k]
  <2>1. Len(c) + k \in 1..Len(t) /\ ~(Len(c) + k <= Len(c)) /\ (Len(c) + k) - Len(c) = k
    BY <1>1
  <2> QED BY <1>1, <1>2, <2>1
<1> QED BY <1>1, <1>3, <1>4

LEMMA ConcatFrom ==
  ASSUME NEW c \in Seq(PlannedOp), NEW s \in Seq(PlannedOp), NEW t, t = c \o s, NEW i \in DOMAIN t
  PROVE  \/ i \in DOMAIN c /\ t[i] = c[i]
         \/ \E k \in DOMAIN s : i = Len(c) + k /\ t[i] = s[k]
<1>1. /\ DOMAIN t = 1..Len(t) /\ Len(t) = Len(c) + Len(s) /\ Len(c) \in Nat /\ Len(s) \in Nat
      /\ DOMAIN s = 1..Len(s) /\ DOMAIN c = 1..Len(c)
      /\ \A j \in DOMAIN c : t[j] = c[j]
  BY Concat
<1>2. \A k \in DOMAIN s : t[Len(c) + k] = s[k]
  BY Concat
<1>3. CASE i \notin DOMAIN c
  <2>1. i - Len(c) \in DOMAIN s /\ i = Len(c) + (i - Len(c))
    BY <1>1, <1>3
  <2>2. t[i] = s[i - Len(c)]
    BY <1>2, <2>1
  <2> QED BY <2>1, <2>2
<1> QED BY <1>1, <1>3

LEMMA TailFacts ==
  ASSUME NEW s \in Seq(PlannedOp), s # << >>, NEW u, u = Tail(s)
  PROVE  /\ u \in Seq(PlannedOp) /\ Len(u) = Len(s) - 1 /\ Len(s) \in Nat \ {0} /\ Len(u) \in Nat
         /\ DOMAIN u = 1..Len(u) /\ DOMAIN s = 1..Len(s) /\ 1 \in DOMAIN s /\ Head(s) = s[1]
         /\ \A k \in DOMAIN u : k + 1 \in DOMAIN s /\ u[k] = s[k + 1]
         /\ \A k \in DOMAIN s : k # 1 => k - 1 \in DOMAIN u /\ u[k - 1] = s[k]
<1>1. /\ u \in Seq(PlannedOp) /\ Len(u) = Len(s) - 1 /\ Len(s) \in Nat \ {0} /\ Len(u) \in Nat
      /\ DOMAIN u = 1..Len(u) /\ DOMAIN s = 1..Len(s) /\ Head(s) = s[1]
  OBVIOUS
<1>2. \A k \in 1..Len(u) : u[k] = s[k + 1]
  BY <1>1
<1>3. 1 \in DOMAIN s /\ \A k \in DOMAIN u : k + 1 \in DOMAIN s
  BY <1>1
<1>4. ASSUME NEW k \in DOMAIN s, k # 1
      PROVE  k - 1 \in DOMAIN u /\ u[k - 1] = s[k]
  <2>1. k - 1 \in 1..Len(u) /\ (k - 1) + 1 = k
    BY <1>1, <1>4
  <2> QED BY <1>1, <1>2, <2>1
<1> QED BY <1>1, <1>2, <1>3, <1>4

LEMMA SoundEmpty ==
  ASSUME NEW o, NEW hs
  PROVE  Sound(o, hs, << >>)
  BY DEF Sound

LEMMA SimpleCalls ==
  ASSUME NEW c \in Seq(SimpleOp)
  PROVE  c \in Seq(PlannedOp) /\ \A i \in DOMAIN c : Simple(c[i])
<1>1. /\ \A i \in DOMAIN c : c[i] \in SimpleOp
      /\ \A x \in SimpleOp : x \in PlannedOp /\ Simple(x)
  BY DEF SimpleOp
<1> QED BY <1>1

\* The first call may be dropped, and calls that depend on no attempt may be added.
LEMMA SoundTail ==
  ASSUME NEW s \in Seq(PlannedOp), s # << >>, NEW o, NEW hs, Sound(o, hs, s), ~Begins(s[1])
  PROVE  Sound(o, hs, Tail(s)) /\ (Tail(s) # << >> => ~Begins(Tail(s)[1]))
<1> SUFFICES ASSUME NEW u, u = Tail(s)
             PROVE  Sound(o, hs, u) /\ (u # << >> => ~Begins(u[1]))
  OBVIOUS
<1>1. /\ Len(u) = Len(s) - 1 /\ Len(s) \in Nat \ {0} /\ Len(u) \in Nat
      /\ DOMAIN u = 1..Len(u) /\ DOMAIN s = 1..Len(s) /\ 1 \in DOMAIN s
  BY TailFacts
<1>2. \A k \in DOMAIN u : k + 1 \in DOMAIN s /\ u[k] = s[k + 1]
  BY TailFacts
<1>3. u # << >> => 1 \in DOMAIN u
  BY <1>1
<1>4. ASSUME NEW k \in DOMAIN u
      PROVE  ~Begins(u[k])
  <2>1. k + 1 \in DOMAIN s /\ u[k] = s[k + 1] /\ k + 1 # 1
    BY <1>1, <1>2
  <2> QED BY <2>1 DEF Sound, SoundCall
<1>5. ASSUME NEW k \in DOMAIN u
      PROVE  SoundCall(o, hs, u, k)
  <2>1. k + 1 \in DOMAIN s /\ u[k] = s[k + 1]
    BY <1>2
  <2>2. SoundCall(o, hs, s, k + 1)
    BY <2>1 DEF Sound
  <2>0. 1 \in DOMAIN u
    BY <1>1
  <2>3. ~Begins(u[1]) /\ ~Begins(u[k])
    BY <1>4, <2>0
  <2>4. \A node : Current(hs, s, node) <=> Current(hs, u, node)
    BY <2>3 DEF Current
  <2>5. CurrentNumber(hs, s) = CurrentNumber(hs, u)
    BY <2>3 DEF CurrentNumber
  <2>6. k + 1 = Len(s) => k = Len(u)
    BY <1>1
  <2>7. ASSUME NEW j \in DOMAIN u, j > k
        PROVE  j + 1 \in DOMAIN s /\ j + 1 > k + 1 /\ u[j] = s[j + 1]
    BY <1>1, <1>2, <2>7
  <2>8. (\A j \in DOMAIN s : j > k + 1 => Follows(s[j])) => (\A j \in DOMAIN u : j > k => Follows(u[j]))
    BY <2>7
  <2> QED BY <2>1, <2>2, <2>3, <2>4, <2>5, <2>6, <2>8 DEF SoundCall
<1> QED BY <1>3, <1>4, <1>5 DEF Sound

LEMMA SoundPrefix ==
  ASSUME NEW c \in Seq(SimpleOp), NEW s \in Seq(PlannedOp), NEW o, NEW hs,
         Sound(o, hs, s), s # << >> => ~Begins(s[1])
  PROVE  Sound(o, hs, c \o s) /\ (c \o s # << >> => ~Begins((c \o s)[1]))
<1> SUFFICES ASSUME NEW t, t = c \o s
             PROVE  Sound(o, hs, t) /\ (t # << >> => ~Begins(t[1]))
  OBVIOUS
<1>0. c \in Seq(PlannedOp) /\ \A i \in DOMAIN c : Simple(c[i])
  BY SimpleCalls
<1>1. /\ DOMAIN t = 1..Len(t) /\ Len(t) = Len(c) + Len(s)
      /\ Len(c) \in Nat /\ Len(s) \in Nat /\ Len(t) \in Nat
      /\ DOMAIN s = 1..Len(s) /\ DOMAIN c = 1..Len(c)
  BY <1>0, Concat
<1>2. \A i \in DOMAIN t : \/ i \in DOMAIN c /\ t[i] = c[i]
                          \/ \E k \in DOMAIN s : i = Len(c) + k /\ t[i] = s[k]
  BY <1>0, ConcatFrom
<1>3. ASSUME NEW k \in DOMAIN s
      PROVE  ~Begins(s[k])
  <2>1. s # << >>
    OBVIOUS
  <2>2. SoundCall(o, hs, s, k) /\ ~Begins(s[1])
    BY <2>1 DEF Sound
  <2> QED BY <2>2 DEF SoundCall
<1>4. \A i \in DOMAIN t : ~Begins(t[i])
  BY <1>0, <1>2, <1>3 DEF Simple
<1>5. t # << >> => 1 \in DOMAIN t
  BY <1>1
<1>6. ASSUME NEW i \in DOMAIN c, i \in DOMAIN t, t[i] = c[i]
      PROVE  SoundCall(o, hs, t, i)
  BY <1>0, <1>6 DEF Simple, SoundCall, LastOps
<1>7. ASSUME NEW i \in DOMAIN t, NEW k \in DOMAIN s, i = Len(c) + k, t[i] = s[k]
      PROVE  SoundCall(o, hs, t, i)
  <2>0. 1 \in DOMAIN t /\ 1 \in DOMAIN s
    BY <1>1
  <2>1. SoundCall(o, hs, s, k) /\ ~Begins(t[1]) /\ ~Begins(t[i]) /\ ~Begins(s[1])
    BY <1>3, <1>4, <2>0 DEF Sound
  <2>2. \A node : Current(hs, s, node) <=> Current(hs, t, node)
    BY <2>1 DEF Current
  <2>3. CurrentNumber(hs, s) = CurrentNumber(hs, t)
    BY <2>1 DEF CurrentNumber
  <2>4. k = Len(s) => i = Len(t)
    BY <1>1, <1>7
  <2>5. ASSUME NEW j \in DOMAIN t, j > i
        PROVE  \E l \in DOMAIN s : l > k /\ t[j] = s[l]
    <3>1. j \notin DOMAIN c
      BY <1>1, <1>7, <2>5
    <3>2. PICK l \in DOMAIN s : j = Len(c) + l /\ t[j] = s[l]
      BY <1>2, <3>1
    <3>3. l > k
      BY <1>1, <1>7, <2>5, <3>2
    <3> QED BY <3>2, <3>3
  <2>6. (\A j \in DOMAIN s : j > k => Follows(s[j])) => (\A j \in DOMAIN t : j > i => Follows(t[j]))
    BY <2>5
  <2> QED BY <1>7, <2>1, <2>2, <2>3, <2>4, <2>6 DEF SoundCall
<1>8. \A i \in DOMAIN t : SoundCall(o, hs, t, i)
  BY <1>2, <1>6, <1>7
<1> QED BY <1>4, <1>5, <1>8 DEF Sound

LEMMA SoundContinue ==
  ASSUME NEW s \in Seq(PlannedOp), s # << >>, NEW o, NEW hs, Sound(o, hs, s), ~Begins(s[1]),
         NEW c \in Seq(SimpleOp)
  PROVE  Sound(o, hs, c \o Tail(s))
<1>1. Tail(s) \in Seq(PlannedOp)
  BY TailFacts
<1>2. Sound(o, hs, Tail(s)) /\ (Tail(s) # << >> => ~Begins(Tail(s)[1]))
  BY SoundTail
<1> DEFINE u == Tail(s)
<1> HIDE DEF u
<1>3. u \in Seq(PlannedOp) /\ Sound(o, hs, u) /\ (u # << >> => ~Begins(u[1]))
  BY <1>1, <1>2 DEF u
<1>4. Sound(o, hs, c \o u)
  BY <1>3, SoundPrefix
<1> QED BY <1>4 DEF u

\* The attempt of node with this number, just recorded.
Opened(node, number) ==
  [node |-> node, number |-> number, status |-> "Started", next |-> None, why |-> 0]

LEMMA OpenedIsLast ==
  ASSUME NEW S, NEW hs \in Seq(S), NEW a \in S
  PROVE  /\ Append(hs, a) # << >> /\ LastOf(Append(hs, a)) = a
         /\ Len(Append(hs, a)) = Len(hs) + 1 /\ Len(hs) \in Nat
         /\ DOMAIN hs = 1..Len(hs) /\ DOMAIN Append(hs, a) = 1..Len(hs) + 1
         /\ \A i \in DOMAIN hs : Append(hs, a)[i] = hs[i]
         /\ Append(hs, a)[Len(hs) + 1] = a
<1>1. /\ Append(hs, a) \in Seq(S) /\ Append(hs, a) # << >> /\ Len(Append(hs, a)) = Len(hs) + 1
      /\ Append(hs, a)[Len(hs) + 1] = a
  BY AppendProperties
<1>2. \A i \in 1..Len(hs) : Append(hs, a)[i] = hs[i]
  BY AppendProperties
<1>3. /\ Len(hs) \in Nat /\ DOMAIN hs = 1..Len(hs)
      /\ DOMAIN Append(hs, a) = 1..Len(Append(hs, a))
  BY <1>1, LenProperties
<1> QED BY <1>1, <1>2, <1>3 DEF LastOf

\* Once the attempt is recorded, its calls are those of an open attempt.
LEMMA SoundBegin ==
  ASSUME NEW s \in Seq(PlannedOp), s # << >>, NEW o, NEW hs, NEW bs, Sound(o, hs, s), Begins(s[1]),
         OpenIn(bs), IsAttempt(LastOf(bs), s[1].event.node, s[1].event.number)
  PROVE  Sound(o, bs, Tail(s))
<1> SUFFICES ASSUME NEW u, u = Tail(s)
             PROVE  Sound(o, bs, u)
  OBVIOUS
<1>1. /\ Len(u) = Len(s) - 1 /\ Len(s) \in Nat \ {0} /\ Len(u) \in Nat
      /\ DOMAIN u = 1..Len(u) /\ DOMAIN s = 1..Len(s) /\ 1 \in DOMAIN s
  BY TailFacts
<1>2. \A k \in DOMAIN u : k + 1 \in DOMAIN s /\ u[k] = s[k + 1]
  BY TailFacts
<1>3. ASSUME NEW k \in DOMAIN u
      PROVE  /\ SoundCall(o, hs, s, k + 1) /\ u[k] = s[k + 1] /\ u[k].op \in {"Edit", "Body"}
             /\ (k + 1 = Len(s) => k = Len(u))
  <2>1. k + 1 \in DOMAIN s /\ u[k] = s[k + 1] /\ k + 1 # 1 /\ (k + 1 = Len(s) => k = Len(u))
    BY <1>1, <1>2
  <2>2. SoundCall(o, hs, s, 1) /\ SoundCall(o, hs, s, k + 1)
    BY <1>1, <2>1 DEF Sound
  <2> QED BY <2>1, <2>2 DEF SoundCall
<1>4. ASSUME NEW k \in DOMAIN u
      PROVE  SoundCall(o, bs, u, k)
  <2>1. 1 \in DOMAIN u
    BY <1>1
  <2>2. u[1].op \in {"Edit", "Body"} /\ u[k].op \in {"Edit", "Body"}
    BY <1>3, <2>1
  <2>3. ~Begins(u[1]) /\ ~Begins(u[k]) /\ ~Closes(u[k])
    BY <2>2 DEF Begins, Closes, Commits
  <2>4. /\ Current(hs, s, u[k].node)
        /\ u[k].op = "Body" => u[k].number = CurrentNumber(hs, s) /\ k = Len(u)
    BY <1>3 DEF SoundCall, LastOps
  <2>5. /\ Current(bs, u, u[k].node)
        /\ u[k].op = "Body" => u[k].number = CurrentNumber(bs, u)
    BY <2>3, <2>4 DEF Current, CurrentNumber, IsAttempt
  <2> QED BY <2>2, <2>3, <2>4, <2>5 DEF SoundCall, LastOps
<1> QED BY <1>4 DEF Sound

\* Once the attempt is closed, its task has only statuses to set and may return.
LEMMA SoundClose ==
  ASSUME NEW s \in Seq(PlannedOp), s # << >>, NEW o, NEW hs, NEW bs, Sound(o, hs, s), Closes(s[1])
  PROVE  Sound(o, bs, Tail(s)) /\ (Tail(s) # << >> => ~Begins(Tail(s)[1]))
<1> SUFFICES ASSUME NEW u, u = Tail(s)
             PROVE  Sound(o, bs, u) /\ (u # << >> => ~Begins(u[1]))
  OBVIOUS
<1>1. /\ Len(u) = Len(s) - 1 /\ Len(s) \in Nat \ {0} /\ Len(u) \in Nat
      /\ DOMAIN u = 1..Len(u) /\ DOMAIN s = 1..Len(s) /\ 1 \in DOMAIN s
  BY TailFacts
<1>2. \A k \in DOMAIN u : k + 1 \in DOMAIN s /\ u[k] = s[k + 1]
  BY TailFacts
<1>3. ASSUME NEW k \in DOMAIN u
      PROVE  Follows(u[k]) /\ (u[k].op \in LastOps => k = Len(u))
  <2>1. k + 1 \in DOMAIN s /\ u[k] = s[k + 1] /\ k + 1 > 1 /\ (k + 1 = Len(s) => k = Len(u))
    BY <1>1, <1>2
  <2>2. SoundCall(o, hs, s, 1) /\ SoundCall(o, hs, s, k + 1)
    BY <1>1, <2>1 DEF Sound
  <2> QED BY <2>1, <2>2 DEF SoundCall
<1>4. ASSUME NEW k \in DOMAIN u
      PROVE  SoundCall(o, bs, u, k) /\ ~Begins(u[k])
  <2>1. u[k].op \notin {"Start", "Edit", "Body", "Await"} /\ ~Begins(u[k]) /\ ~Closes(u[k])
    BY <1>3 DEF Follows, Begins, Closes, Commits
  <2> QED BY <1>3, <2>1 DEF SoundCall, LastOps
<1>5. u # << >> => 1 \in DOMAIN u
  BY <1>1
<1> QED BY <1>4, <1>5 DEF Sound

(***************************************************************************)
(* The sequences of calls the engine builds.                               *)
(***************************************************************************)
\* Calls by what they are.
LEMMA CallKinds ==
  /\ \A to : SetRun(to).op = "SetRun" /\ SetRun(to).to = to
  /\ \A c, to : SetCand(c, to).op = "SetCand" /\ SetCand(c, to).cand = c /\ SetCand(c, to).to = to
  /\ \A e : Do(e).op = "Do" /\ Do(e).event = e
  /\ \A left : CancelAll(left).op = "CancelAll" /\ ExcludeAll(left).op = "ExcludeAll"
  /\ \A left : CancelAll(left).left = left /\ ExcludeAll(left).left = left
  /\ \A node : Start(node).op = "Start" /\ Start(node).node = node
  /\ \A node : Edit(node).op = "Edit" /\ Edit(node).node = node
  /\ \A node, number : /\ Body(node, number).op = "Body" /\ Body(node, number).node = node
                       /\ Body(node, number).number = number
  /\ \A result : Return(result).op = "Return" /\ Return(result).result = result
  /\ Await.op = "Await" /\ Fail.op = "Fail"
  BY DEF SetRun, SetCand, Do, CancelAll, ExcludeAll, Start, Edit, Body, Return, Await, Fail

LEMMA SimpleOps ==
  /\ \A to \in RunStatus : SetRun(to) \in SimpleOp
  /\ \A c \in Cands, to \in CandidateStatus : SetCand(c, to) \in SimpleOp
  /\ \A left \in SUBSET Cands : CancelAll(left) \in SimpleOp /\ ExcludeAll(left) \in SimpleOp
  /\ \A e \in PlannedEvent : e.kind \notin {"NodeStarted", "NodeClosed"} => Do(e) \in SimpleOp
  /\ Fail \in SimpleOp
  BY PlannedOps, CallKinds DEF SimpleOp, Simple, LastOps, Begins, Closes, Commits

LEMMA SimpleSeqs ==
  /\ << >> \in Seq(SimpleOp)
  /\ \A x \in SimpleOp : << x >> \in Seq(SimpleOp)
  /\ \A x, y \in SimpleOp : << x, y >> \in Seq(SimpleOp)
  /\ \A s, t \in Seq(SimpleOp) : s \o t \in Seq(SimpleOp)
  /\ \A b, x : (b => x \in SimpleOp) => Only(b, x) \in Seq(SimpleOp)
<1>1. << >> \in Seq(SimpleOp)
  OBVIOUS
<1>2. \A x \in SimpleOp : << x >> \in Seq(SimpleOp)
  OBVIOUS
<1>3. \A x, y \in SimpleOp : << x, y >> \in Seq(SimpleOp)
  OBVIOUS
<1>4. \A s, t \in Seq(SimpleOp) : s \o t \in Seq(SimpleOp)
  OBVIOUS
<1>5. \A b, x : (b => x \in SimpleOp) => Only(b, x) \in Seq(SimpleOp)
  BY <1>1, <1>2 DEF Only
<1> QED BY <1>1, <1>2, <1>3, <1>4, <1>5

LEMMA SoundOne ==
  ASSUME NEW o, NEW hs
  PROVE  /\ \A x \in SimpleOp : Sound(o, hs, << x >>)
         /\ \A result : Sound(o, hs, << Return(result) >>)
         /\ o = RunOwner => Sound(o, hs, << Await >>)
         /\ \A node : MayStart(o, hs, node) => Sound(o, hs, << Start(node) >>)
<1>1. \A x : DOMAIN << x >> = {1} /\ Len(<< x >>) = 1 /\ << x >>[1] = x
  OBVIOUS
<1>2. \A x : SoundCall(o, hs, << x >>, 1) => Sound(o, hs, << x >>)
  BY <1>1 DEF Sound
<1>3. ASSUME NEW x \in SimpleOp
      PROVE  Sound(o, hs, << x >>)
  BY <1>1, <1>2 DEF SoundCall, SimpleOp, Simple, LastOps
<1>4. ASSUME NEW x, ~Begins(x), ~Closes(x), x.op \notin {"Edit", "Body"},
             x.op = "Await" => o = RunOwner, x.op = "Start" => MayStart(o, hs, x.node)
      PROVE  Sound(o, hs, << x >>)
  BY <1>1, <1>2, <1>4 DEF SoundCall
<1>5. ASSUME NEW result
      PROVE  Sound(o, hs, << Return(result) >>)
  BY <1>4, CallKinds DEF Begins, Closes, Commits
<1>6. o = RunOwner => Sound(o, hs, << Await >>)
  BY <1>4, CallKinds DEF Begins, Closes, Commits
<1>7. ASSUME NEW node, MayStart(o, hs, node)
      PROVE  Sound(o, hs, << Start(node) >>)
  BY <1>4, <1>7, CallKinds DEF Begins, Closes, Commits
<1> QED BY <1>3, <1>5, <1>6, <1>7

LEMMA SoundStart ==
  ASSUME NEW c \in Seq(SimpleOp), NEW node \in Nodes, NEW o, NEW hs, MayStart(o, hs, node)
  PROVE  Sound(o, hs, c \o << Start(node) >>) /\ ~Begins((c \o << Start(node) >>)[1])
<1> DEFINE s == << Start(node) >>
<1>1. s \in Seq(PlannedOp) /\ Sound(o, hs, s) /\ s[1].op = "Start" /\ Len(s) = 1
  BY PlannedOps, OneCall, SoundOne, CallKinds
<1>2. ~Begins(s[1])
  BY <1>1 DEF Begins, Commits
<1> HIDE DEF s
<1>3. c \o s # << >>
  BY <1>1, SimpleCalls
<1>4. Sound(o, hs, c \o s) /\ ~Begins((c \o s)[1])
  BY <1>1, <1>2, <1>3, SoundPrefix
<1> QED BY <1>4 DEF s

LEMMA Tuples ==
  ASSUME NEW x, NEW y, NEW z
  PROVE  /\ << x >> \o << y >> = << x, y >>
         /\ << x, y >> \o << z >> = << x, y, z >>
<1> DEFINE S == {x, y, z}
<1>1. /\ << x >> \in Seq(S) /\ << y >> \in Seq(S) /\ << z >> \in Seq(S)
      /\ << x, y >> \in Seq(S) /\ << x, y, z >> \in Seq(S)
      /\ Len(<< x >>) = 1 /\ Len(<< y >>) = 1 /\ Len(<< z >>) = 1
      /\ Len(<< x, y >>) = 2 /\ Len(<< x, y, z >>) = 3
  OBVIOUS
<1> HIDE DEF S
<1>2. << x >> \o << y >> = << x, y >>
  <2>1. \A i \in 1..2 : (<< x >> \o << y >>)[i] = << x, y >>[i]
    BY <1>1
  <2>2. << x >> \o << y >> \in Seq(S) /\ Len(<< x >> \o << y >>) = 2
    BY <1>1, ConcatProperties
  <2> QED BY <1>1, <2>1, <2>2, SeqEqual
<1>3. << x, y >> \o << z >> = << x, y, z >>
  <2>1. \A i \in 1..3 : (<< x, y >> \o << z >>)[i] = << x, y, z >>[i]
    BY <1>1
  <2>2. << x, y >> \o << z >> \in Seq(S) /\ Len(<< x, y >> \o << z >>) = 3
    BY <1>1, ConcatProperties
  <2> QED BY <1>1, <2>1, <2>2, SeqEqual
<1> QED BY <1>2, <1>3

LEMMA SoundReturn ==
  ASSUME NEW x \in SimpleOp, NEW result \in Outcome, NEW o, NEW hs
  PROVE  Sound(o, hs, << x, Return(result) >>)
<1>1. << x >> \in Seq(SimpleOp) /\ << Return(result) >> \in Seq(PlannedOp)
  BY PlannedOps, OneCall, SimpleSeqs
<1>2. Sound(o, hs, << Return(result) >>) /\ << Return(result) >>[1].op = "Return"
  BY SoundOne, CallKinds
<1>3. ~Begins(<< Return(result) >>[1])
  BY <1>2 DEF Begins, Commits
<1>4. Sound(o, hs, << x >> \o << Return(result) >>)
  BY <1>1, <1>2, <1>3, SoundPrefix
<1>5. << x >> \o << Return(result) >> = << x, Return(result) >>
  BY Tuples
<1> QED BY <1>4, <1>5

\* The calls of a node from its start on.
BegunCalls(o, node, number) ==
  << Do(NodeStarted(o, node, number)) >> \o Only(Edits(node), Edit(node)) \o << Body(node, number) >>

LEMMA BegunShape ==
  ASSUME NEW o, NEW node, NEW number
  PROVE  LET x == Do(NodeStarted(o, node, number))
             y == Edit(node)
             z == Body(node, number)
         IN  BegunCalls(o, node, number) = IF Edits(node) THEN << x, y, z >> ELSE << x, z >>
<1> DEFINE x == Do(NodeStarted(o, node, number))
           y == Edit(node)
           z == Body(node, number)
<1>1. BegunCalls(o, node, number) = << x >> \o (IF Edits(node) THEN << y >> ELSE << >>) \o << z >>
  BY DEF BegunCalls, Only
<1> HIDE DEF x, y, z
<1>2. << x >> \o << y >> = << x, y >> /\ << x >> \o << z >> = << x, z >>
      /\ << x, y >> \o << z >> = << x, y, z >>
  BY Tuples
<1>3. << x >> \o << >> = << x >>
  <2>1. << x >> \in Seq({x})
    OBVIOUS
  <2> QED BY <2>1, ConcatEmptySeq
<1>4. BegunCalls(o, node, number) = IF Edits(node) THEN << x, y, z >> ELSE << x, z >>
  BY <1>1, <1>2, <1>3
<1> QED BY <1>4 DEF x, y, z

LEMMA SoundBegun ==
  ASSUME NEW o, NEW node, NEW number, NEW hs, MayStart(o, hs, node)
  PROVE  /\ Sound(o, hs, BegunCalls(o, node, number))
         /\ \E i \in DOMAIN BegunCalls(o, node, number) : Settles(BegunCalls(o, node, number)[i])
<1> DEFINE x == Do(NodeStarted(o, node, number))
           y == Edit(node)
           z == Body(node, number)
<1>1. /\ x.op = "Do" /\ x.event.kind = "NodeStarted" /\ x.event.owner = o
      /\ x.event.node = node /\ x.event.number = number
      /\ y.op = "Edit" /\ y.node = node
      /\ z.op = "Body" /\ z.node = node /\ z.number = number
  BY CallKinds DEF NodeStarted
<1>2. BegunCalls(o, node, number) = IF Edits(node) THEN << x, y, z >> ELSE << x, z >>
  BY BegunShape
<1> HIDE DEF x, y, z
<1>a. /\ Begins(x) /\ ~Closes(x) /\ ~Begins(y) /\ ~Closes(y) /\ ~Begins(z) /\ ~Closes(z)
      /\ Settles(z)
  BY <1>1 DEF Begins, Closes, Commits, Settles
<1>3. /\ Sound(o, hs, << x, y, z >>)
      /\ \E i \in DOMAIN << x, y, z >> : Settles(<< x, y, z >>[i])
  <2> DEFINE s == << x, y, z >>
  <2>1. DOMAIN s = {1, 2, 3} /\ Len(s) = 3 /\ s[1] = x /\ s[2] = y /\ s[3] = z
    OBVIOUS
  <2> HIDE DEF s
  <2>2. Current(hs, s, node) /\ CurrentNumber(hs, s) = number
    BY <1>1, <1>a, <2>1 DEF Current, CurrentNumber
  <2>3. SoundCall(o, hs, s, 1)
    BY <1>1, <1>a, <2>1 DEF SoundCall, LastOps
  <2>4. SoundCall(o, hs, s, 2)
    BY <1>1, <1>a, <2>1, <2>2 DEF SoundCall, LastOps
  <2>5. SoundCall(o, hs, s, 3)
    BY <1>1, <1>a, <2>1, <2>2 DEF SoundCall
  <2>6. Sound(o, hs, s) /\ \E i \in DOMAIN s : Settles(s[i])
    BY <1>a, <2>1, <2>3, <2>4, <2>5 DEF Sound
  <2> QED BY <2>6 DEF s
<1>4. /\ Sound(o, hs, << x, z >>)
      /\ \E i \in DOMAIN << x, z >> : Settles(<< x, z >>[i])
  <2> DEFINE s == << x, z >>
  <2>1. DOMAIN s = {1, 2} /\ Len(s) = 2 /\ s[1] = x /\ s[2] = z
    OBVIOUS
  <2> HIDE DEF s
  <2>2. Current(hs, s, node) /\ CurrentNumber(hs, s) = number
    BY <1>1, <1>a, <2>1 DEF Current, CurrentNumber
  <2>3. SoundCall(o, hs, s, 1)
    BY <1>1, <1>a, <2>1 DEF SoundCall, LastOps
  <2>4. SoundCall(o, hs, s, 2)
    BY <1>1, <1>a, <2>1, <2>2 DEF SoundCall
  <2>6. Sound(o, hs, s) /\ \E i \in DOMAIN s : Settles(s[i])
    BY <1>a, <2>1, <2>3, <2>4 DEF Sound
  <2> QED BY <2>6 DEF s
<1>5. CASE Edits(node)
  BY <1>2, <1>3, <1>5
<1>6. CASE ~Edits(node)
  BY <1>2, <1>4, <1>6
<1> QED BY <1>5, <1>6

(***************************************************************************)
(* The end of an attempt.                                                  *)
(***************************************************************************)
PatchOp == {x \in PlannedOp : x.op \in {"SetRun", "SetCand"}}

LEMMA PatchSeqs ==
  /\ \A s, t \in Seq(PatchOp) : s \o t \in Seq(PatchOp)
  /\ \A b, x : (b => x \in PatchOp) => Only(b, x) \in Seq(PatchOp)
<1>1. << >> \in Seq(PatchOp) /\ \A x \in PatchOp : << x >> \in Seq(PatchOp)
  OBVIOUS
<1>2. \A s, t \in Seq(PatchOp) : s \o t \in Seq(PatchOp)
  OBVIOUS
<1>3. \A b, x : (b => x \in PatchOp) => Only(b, x) \in Seq(PatchOp)
  BY <1>1 DEF Only
<1> QED BY <1>2, <1>3

LEMMA PatchOps ==
  ASSUME NEW out \in PlannedOutput, NEW o \in Owners, NEW node \in Nodes
  PROVE  PatchCalls(o, node, out) \in Seq(PatchOp)
<1> DEFINE a == Only(out.cand # None /\ o # RunOwner, SetCand(o, out.cand))
           b == Only(out.run # None, SetRun(out.run))
           c == Only(out.status = "Failed" /\ out.next = None /\ node \in RunNodes,
                     SetRun("Failed"))
           d == Only(out.status = "Paused" /\ node \in RunNodes, SetRun("RecoveryRequired"))
<1>1. /\ out.cand \in CandidateStatus \cup {None} /\ out.run \in RunStatus \cup {None}
      /\ {"Failed", "RecoveryRequired"} \subseteq RunStatus
  BY DEF PlannedOutput, Output, RunStatus
<1>2. /\ \A to \in RunStatus : SetRun(to) \in PatchOp
      /\ \A k \in Cands, to \in CandidateStatus : SetCand(k, to) \in PatchOp
  BY PlannedOps, CallKinds DEF PatchOp
<1>3. a \in Seq(PatchOp)
  BY <1>1, <1>2, OwnerFacts, PatchSeqs
<1>4. b \in Seq(PatchOp) /\ c \in Seq(PatchOp) /\ d \in Seq(PatchOp)
  BY <1>1, <1>2, PatchSeqs
<1>5. PatchCalls(o, node, out) = a \o b \o c \o d
  BY DEF PatchCalls
<1> HIDE DEF a, b, c, d
<1> QED BY <1>3, <1>4, <1>5, PatchSeqs

\* A terminal event, statuses to set, and perhaps the end of the task.
LEMMA SoundClosing ==
  ASSUME NEW x \in PlannedOp, NEW p \in Seq(PatchOp), NEW l, l \in {<< >>, << Return("Blocked") >>},
         NEW o, NEW hs, Closes(x), x.event.owner = o, OpenIn(hs),
         IsAttempt(LastOf(hs), x.event.node, x.event.number),
         ValidResult(x.event.node, x.event.next), NEW s, s = << x >> \o p \o l
  PROVE  s \in Seq(PlannedOp) /\ Sound(o, hs, s) /\ s # << >> /\ 1 \in DOMAIN s /\ s[1] = x
<1>0. /\ \A y \in PatchOp : y \in PlannedOp /\ y.op \in {"SetRun", "SetCand"}
      /\ Return("Blocked") \in PlannedOp
  BY PlannedOps DEF PatchOp, Outcome
<1>1. p \in Seq(PlannedOp) /\ (\A i \in DOMAIN p : p[i].op \in {"SetRun", "SetCand"})
  BY <1>0
<1>2. l \in Seq(PlannedOp) /\ << x >> \in Seq(PlannedOp)
  BY <1>0, OneCall, NoCalls
<1>3. Len(<< x >>) = 1 /\ DOMAIN << x >> = {1} /\ << x >>[1] = x
  OBVIOUS
<1>4. /\ \A i \in DOMAIN l : l[i].op = "Return" /\ i = 1 /\ Len(l) = 1
      /\ Len(l) \in Nat
  BY CallKinds
<1> DEFINE q == << x >> \o p
<1>5. /\ q \in Seq(PlannedOp) /\ DOMAIN q = 1..Len(q) /\ Len(q) = 1 + Len(p) /\ Len(p) \in Nat
      /\ DOMAIN p = 1..Len(p)
  BY <1>1, <1>2, <1>3, Concat
<1>6. \A i \in DOMAIN q : \/ i = 1 /\ q[i] = x
                          \/ \E k \in DOMAIN p : i = 1 + k /\ q[i] = p[k]
  BY <1>1, <1>2, <1>3, ConcatFrom
<1>7. 1 \in DOMAIN q /\ q[1] = x
  <2>1. 1 \in DOMAIN q /\ \A k \in DOMAIN p : 1 # 1 + k
    BY <1>5
  <2> QED BY <1>6, <2>1
<1> HIDE DEF q
<1>8. s = q \o l
  BY DEF q
<1>9. /\ s \in Seq(PlannedOp) /\ DOMAIN s = 1..Len(s) /\ Len(s) = Len(q) + Len(l)
  <2>1. q \in Seq(PlannedOp) /\ l \in Seq(PlannedOp) /\ s = q \o l
    BY <1>2, <1>5, <1>8
  <2> QED BY ONLY <2>1, Concat
<1>10. \A i \in DOMAIN s : \/ i \in DOMAIN q /\ s[i] = q[i]
                           \/ \E k \in DOMAIN l : i = Len(q) + k /\ s[i] = l[k]
  <2> SUFFICES ASSUME NEW i \in DOMAIN s
               PROVE  \/ i \in DOMAIN q /\ s[i] = q[i]
                      \/ \E k \in DOMAIN l : i = Len(q) + k /\ s[i] = l[k]
    OBVIOUS
  <2>1. q \in Seq(PlannedOp) /\ l \in Seq(PlannedOp) /\ s = q \o l
    BY <1>2, <1>5, <1>8
  <2> QED BY ONLY <2>1, i \in DOMAIN s, ConcatFrom
<1>11. 1 \in DOMAIN s /\ s[1] = x /\ s # << >>
  <2>1. 1 \in DOMAIN s /\ s # << >> /\ \A k \in DOMAIN l : 1 # Len(q) + k
    BY <1>2, <1>4, <1>5, <1>9
  <2> QED BY <1>7, <1>10, <2>1
<1>12. ASSUME NEW i \in DOMAIN s
       PROVE  \/ i = 1 /\ s[i] = x
              \/ s[i].op \in {"SetRun", "SetCand"}
              \/ s[i].op = "Return" /\ i = Len(s)
  <2>1. CASE i \in DOMAIN q /\ s[i] = q[i]
    BY <1>1, <1>6, <2>1
  <2>2. CASE \E k \in DOMAIN l : i = Len(q) + k /\ s[i] = l[k]
    BY <1>4, <1>5, <1>9, <2>2
  <2> QED BY <1>10, <2>1, <2>2
<1>13. x.op = "Do" /\ ~Begins(x)
  BY DEF Closes, Begins, Commits
<1>14. ASSUME NEW i \in DOMAIN s, i # 1
       PROVE  Follows(s[i]) /\ SoundCall(o, hs, s, i)
  <2>1. \/ s[i].op \in {"SetRun", "SetCand"}
        \/ s[i].op = "Return" /\ i = Len(s)
    BY <1>12, <1>14
  <2>2. Follows(s[i]) /\ ~Begins(s[i]) /\ ~Closes(s[i])
    BY <2>1 DEF Follows, Begins, Closes, Commits
  <2> QED BY <2>1, <2>2 DEF SoundCall, LastOps
<1>15. SoundCall(o, hs, s, 1)
  <2>0. \A j \in DOMAIN s : j > 1 => j # 1
    BY <1>9
  <2>1. \A j \in DOMAIN s : j > 1 => Follows(s[j])
    BY <1>14, <2>0
  <2> QED BY <1>11, <1>13, <2>1 DEF SoundCall, LastOps
<1> QED BY <1>9, <1>11, <1>14, <1>15 DEF Sound

\* What finalise_attempt leaves to do is sound while the attempt is open, and ends it.
LEMMA SoundFinalise ==
  ASSUME NEW out \in PlannedOutput, out.calls \in Seq(SimpleOp), NEW o \in Owners,
         NEW node \in Nodes, NEW number \in Nat, NEW hs, OpenIn(hs),
         IsAttempt(LastOf(hs), node, number)
  PROVE  LET f == FinaliseCalls(o, node, number, out)
         IN  Sound(o, hs, f) /\ (\E i \in DOMAIN f : Settles(f[i])) /\ f # << >> /\ ~Begins(f[1])
<1> DEFINE e == NodeClosed(o, node, number, out.status, out.next, out.why)
           p == PatchCalls(o, node, out)
           l == Only(out.status \notin {"Succeeded", "Failed"}, Return("Blocked"))
           s == IF ~ValidResult(node, out.next) THEN << Fail >> ELSE << Do(e) >> \o p \o l
<1>1. FinaliseCalls(o, node, number, out) = out.calls \o s
  BY DEF FinaliseCalls
<1>2. s \in Seq(PlannedOp) /\ Sound(o, hs, s) /\ s # << >> /\ 1 \in DOMAIN s
      /\ ~Begins(s[1]) /\ Settles(s[1])
  <2>1. CASE ~ValidResult(node, out.next)
    <3>1. s = << Fail >> /\ << Fail >>[1].op = "Fail"
      BY <2>1, CallKinds
    <3>2. << Fail >> \in Seq(PlannedOp) /\ Sound(o, hs, << Fail >>)
      BY PlannedOps, OneCall, SimpleOps, SoundOne
    <3> HIDE DEF s
    <3> QED BY <3>1, <3>2 DEF Begins, Commits, Settles
  <2>2. CASE ValidResult(node, out.next)
    <3>1. /\ out.status \in AttemptStatus \ {"Started"}
          /\ out.next \in Nodes \cup {None} /\ out.why \in Fingerprints \cup {0}
      BY DEF PlannedOutput, Output, AttemptStatus
    <3>2. Do(e) \in PlannedOp
      BY <3>1, PlannedEvents, PlannedOps
    <3>3. /\ Do(e).op = "Do" /\ Do(e).event.kind = "NodeClosed" /\ Do(e).event.owner = o
          /\ Do(e).event.node = node /\ Do(e).event.number = number /\ Do(e).event.next = out.next
      BY CallKinds DEF NodeClosed
    <3>4. Closes(Do(e)) /\ ~Begins(Do(e)) /\ Settles(Do(e))
      BY <3>3 DEF Closes, Begins, Commits, Settles
    <3>5. p \in Seq(PatchOp) /\ l \in {<< >>, << Return("Blocked") >>}
      BY PatchOps DEF Only
    <3>6. s = << Do(e) >> \o p \o l
      BY <2>2
    <3> DEFINE x == Do(e)
    <3>a. /\ x \in PlannedOp /\ Closes(x) /\ x.event.owner = o /\ ValidResult(x.event.node, x.event.next)
          /\ IsAttempt(LastOf(hs), x.event.node, x.event.number) /\ s = << x >> \o p \o l
      BY <2>2, <3>2, <3>3, <3>4, <3>6
    <3> HIDE DEF s, p, l, e, x
    <3>7. s \in Seq(PlannedOp) /\ Sound(o, hs, s) /\ s # << >> /\ 1 \in DOMAIN s /\ s[1] = x
      BY <3>5, <3>a, SoundClosing
    <3> QED BY <3>4, <3>7 DEF x
  <2> QED BY <2>1, <2>2
<1> HIDE DEF s
<1> DEFINE c == out.calls
<1> HIDE DEF c
<1>3. c \in Seq(SimpleOp) /\ c \in Seq(PlannedOp)
  BY SimpleCalls DEF c
<1>4. Sound(o, hs, c \o s) /\ (c \o s # << >> => ~Begins((c \o s)[1]))
  BY <1>2, <1>3, SoundPrefix
<1>5. Len(c) + 1 \in DOMAIN (c \o s) /\ (c \o s)[Len(c) + 1] = s[1]
  BY <1>2, <1>3, Concat
<1>6. c \o s # << >>
  BY <1>5
<1>7. \E i \in DOMAIN (c \o s) : Settles((c \o s)[i])
  BY <1>2, <1>5
<1> QED BY <1>1, <1>4, <1>6, <1>7 DEF c

(***************************************************************************)
(* An open attempt keeps a call that ends it.                              *)
(***************************************************************************)
LEMMA EndingContinue ==
  ASSUME NEW s \in Seq(PlannedOp), s # << >>, NEW o, NEW hs, Sound(o, hs, s), Ending(hs, s),
         ~Begins(s[1]), ~Settles(s[1]), NEW c \in Seq(SimpleOp)
  PROVE  Ending(hs, c \o Tail(s))
<1> SUFFICES ASSUME NEW u, u = Tail(s), NEW t, t = c \o u
             PROVE  Ending(hs, t)
  OBVIOUS
<1>1. u \in Seq(PlannedOp) /\ Sound(o, hs, u) /\ (u # << >> => ~Begins(u[1]))
  BY SoundTail, TailFacts
<1>2. t # << >> => ~Begins(t[1])
  BY <1>1, SoundPrefix
<1>3. ASSUME OpenIn(hs)
      PROVE  \E i \in DOMAIN t : Settles(t[i])
  <2>1. PICK i \in DOMAIN s : Settles(s[i])
    BY <1>3 DEF Ending
  <2>2. i - 1 \in DOMAIN u /\ u[i - 1] = s[i]
    BY <2>1, TailFacts
  <2>3. c \in Seq(PlannedOp)
    BY SimpleCalls
  <2>4. \A k \in DOMAIN u : Len(c) + k \in DOMAIN t /\ t[Len(c) + k] = u[k]
    BY <1>1, <2>3, Concat
  <2>5. Len(c) + (i - 1) \in DOMAIN t /\ t[Len(c) + (i - 1)] = s[i]
    BY <2>2, <2>4
  <2> QED BY <2>1, <2>5
<1> QED BY <1>2, <1>3 DEF Ending

LEMMA EndingBegin ==
  ASSUME NEW s \in Seq(PlannedOp), s # << >>, NEW hs, NEW bs, Ending(hs, s), Begins(s[1])
  PROVE  Ending(bs, Tail(s))
<1>1. ~Settles(s[1])
  BY DEF Begins, Settles, Closes, Commits
<1>2. PICK i \in DOMAIN s : Settles(s[i])
  BY DEF Ending
<1> SUFFICES ASSUME NEW u, u = Tail(s)
             PROVE  Ending(bs, u)
  OBVIOUS
<1>3. i - 1 \in DOMAIN u /\ u[i - 1] = s[i]
  BY <1>1, <1>2, TailFacts
<1> QED BY <1>2, <1>3 DEF Ending

(***************************************************************************)
(* The recorded attempts.                                                  *)
(***************************************************************************)
LEMMA RecordedBegin ==
  ASSUME NEW o \in Owners, NEW hs \in Seq(Attempt), Recorded(o, hs), NEW node \in Nodes,
         NEW number \in Nat, MayStart(o, hs, node), NEW bs, bs = Append(hs, Opened(node, number))
  PROVE  Recorded(o, bs) /\ OpenIn(bs) /\ IsAttempt(LastOf(bs), node, number)
<1> DEFINE a == Opened(node, number)
<1>1. a \in Attempt /\ a.node = node /\ a.number = number /\ a.status = "Started" /\ a.next = None
  BY DEF Opened, Attempt, AttemptStatus
<1> HIDE DEF a
<1>2. /\ bs # << >> /\ LastOf(bs) = a /\ Len(bs) = Len(hs) + 1 /\ Len(hs) \in Nat
      /\ DOMAIN hs = 1..Len(hs) /\ DOMAIN bs = 1..Len(hs) + 1 /\ bs[Len(hs) + 1] = a
  BY <1>1, OpenedIsLast DEF a
<1>3. \A i \in DOMAIN hs : bs[i] = hs[i]
  BY <1>1, OpenedIsLast DEF a
<1>4. \A i \in DOMAIN bs : (i = Len(bs) /\ bs[i] = a) \/ (i \in DOMAIN hs /\ bs[i] = hs[i] /\ i # Len(bs))
  <2>1. \A i \in DOMAIN bs : i = Len(bs) \/ (i \in DOMAIN hs /\ i # Len(bs))
    BY <1>2
  <2> QED BY <1>2, <1>3, <2>1
<1>5. \A i \in DOMAIN hs : hs[i].status # "Started"
  <2>1. ASSUME NEW i \in DOMAIN hs, hs[i].status = "Started" PROVE FALSE
    <3>1. i = Len(hs) /\ hs # << >>
      BY <2>1 DEF Recorded
    <3> QED BY <2>1, <3>1 DEF MayStart, OpenIn, LastOf
  <2> QED BY <2>1
<1>6. ASSUME NEW i \in DOMAIN bs
      PROVE  /\ bs[i].status = "Started" => i = Len(bs)
             /\ ValidResult(bs[i].node, bs[i].next)
             /\ o = RunOwner => bs[i].node \in RunNodes
             /\ o \in Cands => bs[i].node \in CandidateNodes
  BY <1>1, <1>4, <1>5 DEF Recorded, ValidResult, MayStart
<1>7. ASSUME NEW i \in DOMAIN bs, o \in Cands, i < Len(bs)
      PROVE  FollowsGraph(bs[i], bs[i + 1])
  <2>1. i \in DOMAIN hs /\ (i = Len(hs) \/ (i < Len(hs) /\ i + 1 \in DOMAIN hs))
    BY <1>2, <1>7
  <2>2. CASE i < Len(hs) /\ i + 1 \in DOMAIN hs
    BY <1>3, <1>7, <2>1, <2>2 DEF Recorded
  <2>3. CASE i = Len(hs)
    <3>1. hs # << >> /\ bs[i + 1] = a /\ bs[i] = LastOf(hs)
      BY <1>2, <1>3, <2>1, <2>3 DEF LastOf
    <3>2. Leads(LastOf(hs), node)
      BY <1>7, <3>1 DEF MayStart
    <3> QED BY <1>1, <3>1, <3>2 DEF Leads, FollowsGraph
  <2> QED BY <2>1, <2>2, <2>3
<1>8. OpenIn(bs)
  BY <1>1, <1>2 DEF OpenIn
<1> QED BY <1>1, <1>2, <1>6, <1>7, <1>8 DEF Recorded, IsAttempt

LEMMA RecordedClose ==
  ASSUME NEW o \in Owners, NEW hs \in Seq(Attempt), Recorded(o, hs), OpenIn(hs),
         NEW e \in Event, e.kind = "NodeClosed", IsAttempt(LastOf(hs), e.node, e.number),
         ValidResult(e.node, e.next),
         \A i, j \in DOMAIN hs : IsAttempt(hs[i], hs[j].node, hs[j].number) => i = j,
         NEW bs, bs = [i \in DOMAIN hs |-> CloseAttempt(hs[i], e)]
  PROVE  Recorded(o, bs) /\ ~OpenIn(bs)
<1>1. /\ DOMAIN hs = 1..Len(hs) /\ Len(hs) \in Nat \ {0} /\ Len(hs) \in DOMAIN hs
  BY DEF OpenIn
<1>2. bs \in Seq(Attempt) /\ DOMAIN bs = DOMAIN hs /\ Len(bs) = Len(hs)
  <2>1. \A i \in DOMAIN hs : hs[i] \in Attempt
    OBVIOUS
  <2>2. \A i \in DOMAIN hs : CloseAttempt(hs[i], e) \in Attempt
    BY <2>1, CloseAttemptType
  <2>3. bs \in [1..Len(hs) -> Attempt]
    BY <1>1, <2>2
  <2>4. bs \in Seq(Attempt)
    BY <1>1, <2>3, SeqDef
  <2> QED BY <1>1, <2>3, <2>4
<1>3. hs[Len(hs)].node = e.node /\ hs[Len(hs)].number = e.number
  BY DEF IsAttempt, LastOf
<1>4. ASSUME NEW i \in DOMAIN hs, i # Len(hs)
      PROVE  bs[i] = hs[i]
  <2>1. ~IsAttempt(hs[i], e.node, e.number)
    BY <1>1, <1>3, <1>4
  <2> QED BY <2>1 DEF CloseAttempt
<1>5. bs[Len(hs)].node = hs[Len(hs)].node /\ bs[Len(hs)].next = e.next /\ bs[Len(hs)].status = e.as
  <2>1. hs[Len(hs)] \in Attempt /\ bs[Len(hs)] = CloseAttempt(hs[Len(hs)], e)
    BY <1>1
  <2>2. IsAttempt(hs[Len(hs)], e.node, e.number)
    BY <1>3 DEF IsAttempt
  <2>3. ASSUME NEW b \in Attempt
        PROVE  LET d == [b EXCEPT !.status = e.as, !.next = e.next, !.why = e.why]
               IN  d.node = b.node /\ d.next = e.next /\ d.status = e.as
    BY DEF Attempt
  <2> QED BY <2>1, <2>2, <2>3 DEF CloseAttempt
<1>6. e.as # "Started"
  BY EventFields
<1>7. \A i \in DOMAIN hs : bs[i].node = hs[i].node
  BY <1>4, <1>5
<1>8. ASSUME NEW i \in DOMAIN bs
      PROVE  /\ bs[i].status = "Started" => i = Len(bs)
             /\ ValidResult(bs[i].node, bs[i].next)
             /\ o = RunOwner => bs[i].node \in RunNodes
             /\ o \in Cands => bs[i].node \in CandidateNodes
  <2>1. CASE i # Len(hs)
    BY <1>2, <1>4, <2>1 DEF Recorded
  <2>2. CASE i = Len(hs)
    BY <1>2, <1>3, <1>5, <2>2 DEF Recorded
  <2> QED BY <2>1, <2>2
<1>9. ASSUME NEW i \in DOMAIN bs, o \in Cands, i < Len(bs)
      PROVE  FollowsGraph(bs[i], bs[i + 1])
  <2>1. i \in DOMAIN hs /\ i + 1 \in DOMAIN hs /\ i # Len(hs) /\ i < Len(hs)
    BY <1>1, <1>2, <1>9
  <2>2. FollowsGraph(hs[i], hs[i + 1])
    BY <1>9, <2>1 DEF Recorded
  <2> QED BY <1>4, <1>7, <2>1, <2>2 DEF FollowsGraph
<1>10. ~OpenIn(bs)
  BY <1>2, <1>5, <1>6 DEF OpenIn, LastOf
<1> QED BY <1>8, <1>9, <1>10 DEF Recorded

(***************************************************************************)
(* Steps of one task.                                                      *)
(***************************************************************************)
\* What is known of a task that has calls to make.
LEMMA AtCall ==
  ASSUME IInv, FlowInv, NEW o \in Owners, NEW op, At(o, op)
  PROVE  /\ lock = "dispatch" /\ Runnable(o)
         /\ todo[o] \in Seq(PlannedOp) /\ todo[o] # << >>
         /\ Call(o) = todo[o][1] /\ todo[o][1].op = op /\ todo[o][1] \in PlannedOp
         /\ 1 \in DOMAIN todo[o] /\ Len(todo[o]) \in Nat
         /\ run.attempts[o] \in Seq(Attempt)
         /\ Recorded(o, run.attempts[o])
         /\ Sound(o, run.attempts[o], todo[o])
         /\ SoundCall(o, run.attempts[o], todo[o], 1)
         /\ Ending(run.attempts[o], todo[o])
<1>1. todo[o] \in Seq(PlannedOp) /\ todo[o] # << >> /\ lock = "dispatch" /\ Runnable(o)
      /\ Call(o).op = op
  BY DEF IInv, At, Runnable, Call
<1>2. 1 \in DOMAIN todo[o] /\ Call(o) = todo[o][1] /\ Len(todo[o]) \in Nat
  BY <1>1, TailFacts DEF Call
<1>3. run.attempts[o] \in Seq(Attempt)
  BY DEF IInv, RunInv, Projection
<1>4. /\ Recorded(o, run.attempts[o]) /\ Sound(o, run.attempts[o], todo[o])
      /\ Ending(run.attempts[o], todo[o])
  BY <1>1 DEF FlowInv, OwnerInv
<1>5. todo[o][1] \in PlannedOp
  BY <1>1, <1>2
<1>6. SoundCall(o, run.attempts[o], todo[o], 1)
  BY <1>2, <1>4 DEF Sound
<1> QED BY <1>1, <1>2, <1>3, <1>4, <1>5, <1>6

\* A step of one task that leaves it, and its attempts, in order.
LEMMA CallStep ==
  ASSUME IInv, FlowInv, NEW o \in Owners, NEW op, op \notin {"Await", "Fail"}, At(o, op),
         UNCHANGED << lock, task, pending >>, NEW t, todo' = [todo EXCEPT ![o] = t],
         \A p \in Owners : p # o => run'.attempts[p] = run.attempts[p],
         Recorded(o, run'.attempts[o]), Sound(o, run'.attempts[o], t),
         Ending(run'.attempts[o], t)
  PROVE  FlowInv'
<1>1. lock = "dispatch" /\ Runnable(o) /\ todo[o] # << >> /\ todo[o][1].op = op
  BY AtCall
<1>2. /\ DOMAIN todo = Owners /\ todo'[o] = t
      /\ \A p \in Owners : p # o => todo'[p] = todo[p]
  BY DEF IInv
<1>3. TaskInv
  BY DEF FlowInv
<1>4. o = RunOwner => \A c \in Cands : task[c] = "none"
  <2>1. << Await >>[1].op = "Await"
    BY CallKinds
  <2> QED BY <1>1, <1>3, <2>1 DEF TaskInv
<1>5. o \in Cands => task[o] = "running" /\ o # RunOwner
  BY <1>1, OwnerFacts DEF Runnable, Cands, RunOwner
<1>6. TaskInv'
  <2>1. ASSUME NEW c \in Cands
        PROVE  /\ task[c] # "running" => todo'[c] = << >>
               /\ task[c] # "none" => todo'[RunOwner] = << Await >>
    <3>1. CASE o = RunOwner
      <4>1. c # o /\ c \in Owners
        BY <3>1, OwnerFacts DEF Cands, RunOwner
      <4>2. todo'[c] = todo[c]
        BY <1>2, <4>1
      <4> QED BY <1>3, <1>4, <3>1, <4>2 DEF TaskInv
    <3>2. CASE o # RunOwner
      <4>1. todo'[RunOwner] = todo[RunOwner] /\ o \in Cands
        BY <1>2, <3>2, OwnerFacts
      <4>2. task[c] # "running" => c # o
        BY <1>5, <4>1
      <4>3. c # o => todo'[c] = todo[c]
        BY <1>2, OwnerFacts
      <4> QED BY <1>3, <4>1, <4>2, <4>3 DEF TaskInv
    <3> QED BY <3>1, <3>2
  <2> QED BY <1>1, <1>3, <2>1 DEF TaskInv
<1>7. ASSUME NEW p \in Owners
      PROVE  OwnerInv(p)'
  <2>1. CASE p = o
    BY <1>2, <2>1 DEF OwnerInv
  <2>2. CASE p # o
    <3>1. todo'[p] = todo[p] /\ run'.attempts[p] = run.attempts[p]
      BY <1>2, <2>2
    <3>2. todo[RunOwner] = << Fail >> => todo'[RunOwner] = << Fail >>
      <4>1. << Fail >>[1].op = "Fail"
        BY CallKinds
      <4> QED BY <1>1, <1>2, <4>1, OwnerFacts
    <3>3. OwnerInv(p)
      BY DEF FlowInv
    <3> QED BY <3>1, <3>2, <3>3 DEF OwnerInv
  <2> QED BY <2>1, <2>2
<1> QED BY <1>6, <1>7 DEF FlowInv

\* The first call is replaced by calls that depend on no attempt.
LEMMA ContinueStep ==
  ASSUME IInv, FlowInv, NEW o \in Owners,
         NEW op \in {"SetRun", "SetCand", "CancelAll", "ExcludeAll", "Edit"}, At(o, op),
         NEW c \in Seq(SimpleOp), Continue(o, c), UNCHANGED << run, lock, task, pending >>
  PROVE  FlowInv'
<1> DEFINE s == todo[o]
           hs == run.attempts[o]
<1>1. /\ s \in Seq(PlannedOp) /\ s # << >> /\ s[1].op = op
      /\ Recorded(o, hs) /\ Sound(o, hs, s) /\ Ending(hs, s)
  BY AtCall
<1>2. ~Begins(s[1]) /\ ~Settles(s[1])
  BY <1>1 DEF Begins, Settles, Closes, Commits
<1>3. todo' = [todo EXCEPT ![o] = c \o Tail(s)]
  BY DEF Continue
<1>a. op \notin {"Await", "Fail"}
  OBVIOUS
<1> HIDE DEF s, hs
<1>4. Sound(o, hs, c \o Tail(s)) /\ Ending(hs, c \o Tail(s))
  BY <1>1, <1>2, SoundContinue, EndingContinue
<1>5. hs = run'.attempts[o] /\ \A p \in Owners : p # o => run'.attempts[p] = run.attempts[p]
  BY DEF hs
<1> QED BY <1>1, <1>3, <1>4, <1>5, <1>a, CallStep

LEMMA LastCall ==
  ASSUME NEW s \in Seq(PlannedOp), s # << >>, NEW o, NEW hs, SoundCall(o, hs, s, 1),
         s[1].op \in LastOps
  PROVE  Len(s) = 1 /\ Tail(s) = << >> /\ s = << s[1] >>
<1>1. Len(s) = 1
  BY DEF SoundCall
<1>2. Tail(s) = << >>
  <2>1. Tail(s) \in Seq(PlannedOp) /\ Len(Tail(s)) = 0
    BY <1>1, TailFacts
  <2> QED BY <2>1, EmptySeq
<1>3. s = << s[1] >>
  <2>1. s[1] \in PlannedOp /\ << s[1] >> \in Seq(PlannedOp) /\ Len(<< s[1] >>) = 1
    BY <1>1
  <2>2. \A i \in 1..Len(s) : s[i] = << s[1] >>[i]
    BY <1>1
  <2> QED BY <1>1, <2>1, <2>2, SeqEqual
<1> QED BY <1>1, <1>2, <1>3

\* execute_node up to the body.
LEMMA StartStep ==
  ASSUME IInv, FlowInv, NEW o \in Owners, StartNode(o)
  PROVE  FlowInv'
<1> DEFINE s == todo[o]
           hs == run.attempts[o]
           node == s[1].node
           number == NextAttemptNumber(run, o, node)
           t == IF cancelled THEN << CancelAll(NonTerminal(run)), Return("Blocked") >>
                ELSE BegunCalls(o, node, number)
<1>1. At(o, "Start")
  BY DEF StartNode
<1>2. /\ s \in Seq(PlannedOp) /\ s # << >> /\ s[1].op = "Start" /\ Call(o) = s[1]
      /\ Recorded(o, hs) /\ SoundCall(o, hs, s, 1)
  BY <1>1, AtCall
<1>3. MayStart(o, hs, node)
  BY <1>2 DEF SoundCall
<1>4. Tail(s) = << >>
  BY <1>2, LastCall DEF LastOps
<1>5. todo' = [todo EXCEPT ![o] = t \o Tail(s)]
  BY <1>2 DEF StartNode, Continue, BegunCalls
<1>6. Sound(o, hs, t) /\ Ending(hs, t)
  <2>1. CASE cancelled
    <3>1. CancelAll(NonTerminal(run)) \in SimpleOp /\ "Blocked" \in Outcome
      BY SimpleOps DEF NonTerminal, Outcome
    <3>2. Sound(o, hs, << CancelAll(NonTerminal(run)), Return("Blocked") >>)
      BY <3>1, SoundReturn
    <3>3. ~Begins(<< CancelAll(NonTerminal(run)), Return("Blocked") >>[1])
      BY CallKinds DEF Begins, Commits
    <3>4. ~OpenIn(hs)
      BY <1>3 DEF MayStart
    <3> QED BY <2>1, <3>2, <3>3, <3>4 DEF Ending
  <2>2. CASE ~cancelled
    <3>1. t = BegunCalls(o, node, number)
      BY <2>2
    <3> HIDE DEF t, node, number, hs
    <3> QED BY <1>3, <3>1, SoundBegun DEF Ending
  <2> QED BY <2>1, <2>2
<1>7. t \o Tail(s) = t
  <2>1. CASE cancelled
    <3>1. t \in Seq({CancelAll(NonTerminal(run)), Return("Blocked")})
      BY <2>1
    <3> HIDE DEF t
    <3> QED BY <1>4, <3>1, ConcatEmptySeq
  <2>2. CASE ~cancelled
    <3> DEFINE x == Do(NodeStarted(o, node, number))
               y == Edit(node)
               z == Body(node, number)
    <3>1. t = IF Edits(node) THEN << x, y, z >> ELSE << x, z >>
      BY <2>2, BegunShape
    <3> HIDE DEF x, y, z
    <3>2. << x, y, z >> \in Seq({x, y, z}) /\ << x, z >> \in Seq({x, y, z})
      OBVIOUS
    <3>3. t \in Seq({x, y, z})
      BY <3>1, <3>2
    <3> HIDE DEF t
    <3> QED BY <1>4, <3>3, ConcatEmptySeq
  <2> QED BY <2>1, <2>2
<1>8. hs = run'.attempts[o] /\ \A p \in Owners : p # o => run'.attempts[p] = run.attempts[p]
  BY DEF StartNode
<1>9. UNCHANGED << lock, task, pending >>
  BY DEF StartNode, KeepsTasks, KeepsOutside
<1> HIDE DEF s, hs, t
<1> QED BY <1>1, <1>2, <1>5, <1>6, <1>7, <1>8, <1>9, CallStep

\* A body has produced its output.
LEMMA BodyStep ==
  ASSUME IInv, FlowInv, NEW o \in Owners, At(o, "Body"), NEW out \in PlannedOutput,
         out.calls \in Seq(SimpleOp), Produce(o, out), KeepsEngine
  PROVE  FlowInv'
<1> DEFINE s == todo[o]
           hs == run.attempts[o]
           node == s[1].node
           number == s[1].number
           after == AfterRetryDecision(o, node, number, out)
           t == FinaliseCalls(o, node, number, after)
<1>1. /\ s \in Seq(PlannedOp) /\ s # << >> /\ s[1].op = "Body" /\ Call(o) = s[1]
      /\ s[1] \in PlannedOp /\ Recorded(o, hs) /\ SoundCall(o, hs, s, 1)
  BY AtCall
<1>2. OpenIn(hs) /\ IsAttempt(LastOf(hs), node, number)
  <2>1. ~Begins(s[1])
    BY <1>1 DEF Begins, Commits
  <2> QED BY <1>1, <2>1 DEF SoundCall, Current, CurrentNumber, IsAttempt
<1>3. node \in Nodes /\ number \in Nat
  BY <1>1, OpFields
<1>4. Tail(s) = << >>
  BY <1>1, LastCall DEF LastOps
<1>5. todo' = [todo EXCEPT ![o] = t \o Tail(s)]
  BY <1>1 DEF Produce, Continue
<1>6. after \in PlannedOutput /\ after.calls = out.calls
  <2>1. after \in PlannedOutput
    BY <1>3, RetryOutput
  <2>2. after.calls = out.calls
    BY DEF AfterRetryDecision, PlannedOutput, Output
  <2> QED BY <2>1, <2>2
<1>7. t \in Seq(PlannedOp) /\ t \o Tail(s) = t
  <2>1. t \in Seq(PlannedOp)
    BY <1>3, <1>6, FinaliseType
  <2> HIDE DEF t
  <2> QED BY <1>4, <2>1, ConcatEmptySeq
<1>8. Sound(o, hs, t) /\ Ending(hs, t)
  <2> HIDE DEF hs, after, node, number
  <2> QED BY <1>2, <1>3, <1>6, SoundFinalise DEF Ending
<1>9. hs = run'.attempts[o] /\ \A p \in Owners : p # o => run'.attempts[p] = run.attempts[p]
  BY DEF KeepsEngine
<1>10. UNCHANGED << lock, task, pending >>
  BY DEF KeepsEngine
<1> HIDE DEF s, hs, t
<1> QED BY <1>1, <1>5, <1>7, <1>8, <1>9, <1>10, CallStep

\* Only the events of an attempt change the attempts, and only those of their owner.
LEMMA CommitAttempts ==
  ASSUME IInv, NEW e \in PlannedEvent, CommitEvent(e)
  PROVE  /\ e.kind \notin {"NodeStarted", "NodeClosed"} => run'.attempts = run.attempts
         /\ e.kind \in {"NodeStarted", "NodeClosed"} =>
              \A p \in Owners : p # e.owner => run'.attempts[p] = run.attempts[p]
<1>1. run \in Projection /\ e \in Event
  BY DEF IInv, RunInv, PlannedEvent
<1>2. run' = run \/ run' = Reduce(run, e)
  BY DEF CommitEvent
<1>3. CASE e.kind = "NodeStarted"
  <2>1. ASSUME NEW p \in Owners, p # e.owner
        PROVE  Reduce(run, e).attempts[p] = run.attempts[p]
    BY <1>1, <1>3, <2>1, StartedAttempts
  <2> QED BY <1>2, <1>3, <2>1
<1>4. CASE e.kind = "NodeClosed"
  <2>1. ASSUME NEW p \in Owners, p # e.owner
        PROVE  Reduce(run, e).attempts[p] = run.attempts[p]
    BY <1>1, <1>4, <2>1, ClosedAttempts
  <2> QED BY <1>2, <1>4, <2>1
<1>5. CASE e.kind \notin {"NodeStarted", "NodeClosed"}
  <2>1. CASE e.kind \notin HistoryKinds
    BY <1>1, <1>2, <1>5, <2>1, OtherEvents
  <2>2. CASE e.kind \in HistoryKinds
    <3>1. e.kind \in {"PlanVersionWritten", "RunStatusChanged", "CommitCreated"}
      BY <1>5, <2>2 DEF HistoryKinds
    <3> QED BY <1>1, <1>2, <1>5, <3>1 DEF Reduce, ReduceStatus, ReduceVersion, Projection
  <2> QED BY <1>5, <2>1, <2>2
<1> QED BY <1>3, <1>4, <1>5

LEMMA CommitStepFlow ==
  ASSUME IInv, FlowInv, NEW o \in Owners, DoCommit(o)
  PROVE  FlowInv'
<1> DEFINE s == todo[o]
           hs == run.attempts[o]
           e == s[1].event
           bs == run'.attempts[o]
           t == IF poisoned' THEN << Fail >> ELSE Tail(s)
<1>1. At(o, "Do") /\ UNCHANGED << lock, task, pending >> /\ "Do" \notin {"Await", "Fail"}
  BY DEF DoCommit, KeepsTasks, KeepsOutside
<1>2. /\ s \in Seq(PlannedOp) /\ s # << >> /\ s[1].op = "Do" /\ Call(o) = s[1] /\ s[1] \in PlannedOp
      /\ hs \in Seq(Attempt) /\ Recorded(o, hs) /\ SoundCall(o, hs, s, 1) /\ Sound(o, hs, s)
      /\ Ending(hs, s)
  BY <1>1, AtCall
<1>3. CommitEvent(e) /\ todo' = [todo EXCEPT ![o] = t]
  BY <1>2 DEF DoCommit, CommitOrFail
<1>4. e \in PlannedEvent /\ e \in Event /\ run \in Projection /\ UniqueAttempts(run)
  BY <1>2, OpFields DEF PlannedEvent, IInv, RunInv
<1>5. \A p \in Owners : p # o => run'.attempts[p] = run.attempts[p]
  <2>1. CASE e.kind \in {"NodeStarted", "NodeClosed"}
    <3>1. e.owner = o
      BY <1>2, <2>1 DEF SoundCall, Begins, Closes, Commits
    <3> QED BY <1>3, <1>4, <2>1, <3>1, CommitAttempts
  <2>2. CASE e.kind \notin {"NodeStarted", "NodeClosed"}
    BY <1>3, <1>4, <2>2, CommitAttempts
  <2> QED BY <2>1, <2>2
<1>6. Recorded(o, bs) /\ Sound(o, bs, t) /\ Ending(bs, t)
  <2>1. CASE poisoned'
    <3>1. bs = hs /\ t = << Fail >>
      BY <1>3, <2>1 DEF CommitEvent
    <3>2. Sound(o, hs, << Fail >>)
      BY SimpleOps, SoundOne
    <3>3. Ending(hs, << Fail >>)
      <4>1. 1 \in DOMAIN << Fail >> /\ Settles(<< Fail >>[1])
        BY CallKinds DEF Settles
      <4> QED BY <4>1 DEF Ending
    <3> QED BY <1>2, <3>1, <3>2, <3>3
  <2>2. CASE ~poisoned' /\ Begins(s[1])
    <3>1. run' = Reduce(run, e) /\ e.kind = "NodeStarted" /\ t = Tail(s)
      BY <1>3, <2>2 DEF CommitEvent, Begins, Commits
    <3>2. e.owner = o /\ MayStart(o, hs, e.node) /\ e.node \in Nodes /\ e.number \in Nat
      BY <1>2, <1>4, <2>2, <3>1, EventFields DEF SoundCall
    <3>3. bs = Append(hs, Opened(e.node, e.number))
      BY <1>4, <3>1, <3>2, StartedAttempts DEF Opened
    <3> HIDE DEF hs, bs, s, e
    <3>4. Recorded(o, bs) /\ OpenIn(bs) /\ IsAttempt(LastOf(bs), e.node, e.number)
      BY <1>2, <3>2, <3>3, RecordedBegin
    <3>5. Sound(o, bs, Tail(s)) /\ Ending(bs, Tail(s))
      BY <1>2, <2>2, <3>4, SoundBegin, EndingBegin DEF e
    <3> QED BY <3>1, <3>4, <3>5
  <2>3. CASE ~poisoned' /\ Closes(s[1])
    <3>1. run' = Reduce(run, e) /\ e.kind = "NodeClosed" /\ t = Tail(s)
      BY <1>3, <2>3 DEF CommitEvent, Closes, Commits
    <3>2. /\ e.owner = o /\ OpenIn(hs) /\ IsAttempt(LastOf(hs), e.node, e.number)
          /\ ValidResult(e.node, e.next)
      BY <1>2, <2>3 DEF SoundCall
    <3>3. bs = [i \in DOMAIN hs |-> CloseAttempt(hs[i], e)]
      BY <1>4, <3>1, <3>2, ClosedAttempts
    <3>4. \A i, j \in DOMAIN hs : IsAttempt(hs[i], hs[j].node, hs[j].number) => i = j
      BY <1>4 DEF UniqueAttempts
    <3> HIDE DEF hs, bs, s, e
    <3>5. Recorded(o, bs) /\ ~OpenIn(bs)
      BY <1>2, <1>4, <3>1, <3>2, <3>3, <3>4, RecordedClose
    <3>6. Sound(o, bs, Tail(s)) /\ (Tail(s) # << >> => ~Begins(Tail(s)[1]))
      BY <1>2, <2>3, SoundClose
    <3>7. Ending(bs, Tail(s))
      BY <3>5, <3>6 DEF Ending
    <3> QED BY <3>1, <3>5, <3>6, <3>7
  <2>4. CASE ~poisoned' /\ ~Begins(s[1]) /\ ~Closes(s[1])
    <3>1. e.kind \notin {"NodeStarted", "NodeClosed"} /\ ~Settles(s[1]) /\ t = Tail(s)
      BY <1>2, <2>4 DEF Begins, Closes, Commits, Settles
    <3>2. bs = hs
      BY <1>3, <1>4, <3>1, CommitAttempts
    <3>3. << >> \in Seq(SimpleOp) /\ << >> \o Tail(s) = Tail(s)
      <4>1. Tail(s) \in Seq(PlannedOp)
        BY <1>2, TailFacts
      <4> QED BY <4>1, ConcatEmptySeq, SimpleSeqs
    <3> HIDE DEF hs, bs, s, e, t
    <3>4. Sound(o, hs, Tail(s))
      BY <1>2, <2>4, SoundTail
    <3>5. Ending(hs, << >> \o Tail(s))
      BY <1>2, <2>4, <3>1, <3>3, EndingContinue
    <3> QED BY <1>2, <3>1, <3>2, <3>3, <3>4, <3>5
  <2> QED BY <2>1, <2>2, <2>3, <2>4
<1> HIDE DEF s, hs, bs, t
<1>7. Recorded(o, run'.attempts[o]) /\ Sound(o, run'.attempts[o], t) /\ Ending(run'.attempts[o], t)
  BY <1>6 DEF bs
<1> QED BY <1>1, <1>3, <1>5, <1>7, CallStep

(***************************************************************************)
(* The other steps.                                                        *)
(***************************************************************************)
\* The reading of a status, and the loops of finish_cancelled and the join node.
LEMMA ReadStep ==
  ASSUME IInv, FlowInv, NEW o \in Owners,
         ReadRunStatus(o) \/ ReadCandidateStatus(o) \/ CancelNext(o) \/ ExcludeNext(o)
  PROVE  FlowInv'
<1>a. run \in Projection /\ << >> \in Seq(SimpleOp) /\ << Fail >> \in Seq(SimpleOp)
  BY SimpleOps, SimpleSeqs DEF IInv, RunInv
<1>b. UNCHANGED << run, lock, task, pending >>
  BY DEF ReadRunStatus, ReadCandidateStatus, CancelNext, ExcludeNext, KeepsTasks, KeepsOutside
<1>c. \A op : At(o, op) => Call(o) \in PlannedOp /\ Call(o).op = op
  BY AtCall
<1>d. \A e \in PlannedEvent : e.kind \notin {"NodeStarted", "NodeClosed"} => << Do(e) >> \in Seq(SimpleOp)
  BY SimpleOps, SimpleSeqs
<1>1. CASE ReadRunStatus(o)
  <2> DEFINE e == StatusChanged(run.status, Call(o).to)
  <2>1. At(o, "SetRun") /\ Call(o).to \in RunStatus /\ run.status \in RunStatus
    BY <1>1, <1>a, <1>c, OpFields DEF ReadRunStatus, Projection
  <2>2. e \in PlannedEvent /\ e.kind = "RunStatusChanged"
    BY <2>1, PlannedEvents DEF StatusChanged
  <2>3. << Do(e) >> \in Seq(SimpleOp)
    BY <1>d, <2>2
  <2>4. Continue(o, << >>) \/ Continue(o, << Do(e) >>) \/ Continue(o, << Fail >>)
    BY <1>1 DEF ReadRunStatus
  <2> HIDE DEF e
  <2> QED BY <1>a, <1>b, <2>1, <2>3, <2>4, ContinueStep
<1>2. CASE ReadCandidateStatus(o)
  <2> DEFINE c == Call(o).cand
             from == run.cands[c].status
             e == CandidateStatusChanged(c, from, Call(o).to)
  <2>1. At(o, "SetCand") /\ c \in Cands /\ Call(o).to \in CandidateStatus
    BY <1>2, <1>c, OpFields DEF ReadCandidateStatus
  <2>2. from # "Absent" => from \in CandidateStatus
    BY <1>a, <2>1 DEF Projection, CandidateRecord
  <2>3. from # "Absent" => e \in PlannedEvent /\ e.kind = "CandidateStatusChanged"
    BY <2>1, <2>2, PlannedEvents DEF CandidateStatusChanged
  <2>4. from # "Absent" => << Do(e) >> \in Seq(SimpleOp)
    BY <1>d, <2>3
  <2>5. \/ Continue(o, << >>) \/ Continue(o, << Fail >>)
        \/ from # "Absent" /\ Continue(o, << Do(e) >>)
    BY <1>2 DEF ReadCandidateStatus
  <2> HIDE DEF e, from, c
  <2> QED BY <1>a, <1>b, <2>1, <2>4, <2>5, ContinueStep
<1>3. CASE CancelNext(o)
  <2>1. At(o, "CancelAll") /\ Call(o).left \in SUBSET Cands
    BY <1>3, <1>c, OpFields DEF CancelNext
  <2>2. << SetRun("Cancelled") >> \in Seq(SimpleOp)
    BY SimpleOps, SimpleSeqs DEF RunStatus
  <2>3. \A c \in Call(o).left :
          << SetCand(c, "Cancelled"), CancelAll(Call(o).left \ {c}) >> \in Seq(SimpleOp)
    BY <2>1, SimpleOps, SimpleSeqs DEF CandidateStatus
  <2>4. PICK calls \in Seq(SimpleOp) : Continue(o, calls)
    BY <1>3, <2>2, <2>3 DEF CancelNext
  <2> QED BY <1>b, <2>1, <2>4, ContinueStep
<1>4. CASE ExcludeNext(o)
  <2>1. At(o, "ExcludeAll") /\ Call(o).left \in SUBSET Cands
    BY <1>4, <1>c, OpFields DEF ExcludeNext
  <2>2. ASSUME NEW c \in Call(o).left
        PROVE  << Do(CandidateExcluded(c)), ExcludeAll(Call(o).left \ {c}) >> \in Seq(SimpleOp)
    <3>1. CandidateExcluded(c) \in PlannedEvent /\ CandidateExcluded(c).kind = "CandidateExcluded"
      BY <2>1, PlannedEvents DEF CandidateExcluded
    <3>2. Do(CandidateExcluded(c)) \in SimpleOp /\ ExcludeAll(Call(o).left \ {c}) \in SimpleOp
      BY <2>1, <3>1, SimpleOps
    <3> QED BY <3>2, SimpleSeqs
  <2>3. PICK calls \in Seq(SimpleOp) : Continue(o, calls)
    BY <1>4, <1>a, <2>2 DEF ExcludeNext
  <2> QED BY <1>b, <2>1, <2>3, ContinueStep
<1> QED BY <1>1, <1>2, <1>3, <1>4

\* No dispatch is running afterwards.
LEMMA EndStep ==
  ASSUME IInv, FlowInv, lock \in {"recovering", "dispatch"}, NEW result, EndDispatch(result),
         UNCHANGED << run, pending >>
  PROVE  FlowInv'
<1>1. /\ \A o \in Owners : todo'[o] = << >>
      /\ \A c \in Cands : task'[c] = "none"
      /\ lock' = "free"
  BY DEF EndDispatch
<1>2. \A r \in pending : ~r.held
  BY DEF FlowInv, TaskInv
<1>3. TaskInv'
  BY <1>1, <1>2, OwnerFacts DEF FlowInv, TaskInv
<1>4. ASSUME NEW o \in Owners
      PROVE  OwnerInv(o)'
  BY <1>1, SoundEmpty DEF FlowInv, OwnerInv
<1> QED BY <1>3, <1>4 DEF FlowInv

\* A task returns or fails.
LEMMA EndsStep ==
  ASSUME IInv, FlowInv, NEW o \in Owners, ReturnFrom(o) \/ FailFrom(o)
  PROVE  FlowInv'
<1>1. CASE o = RunOwner
  <2>1. PICK result : EndDispatch(result)
    BY <1>1 DEF ReturnFrom, FailFrom, Ends
  <2>2. lock = "dispatch" /\ UNCHANGED << run, pending >>
    BY DEF ReturnFrom, FailFrom, Ends, At, Runnable, KeepsOutside
  <2> QED BY <2>1, <2>2, EndStep
<1>2. CASE o # RunOwner
  <2>1. PICK op \in {"Return", "Fail"} :
          /\ At(o, op) /\ (op = "Fail" => task' = [task EXCEPT ![o] = "failed"])
          /\ op = "Return" => task' = [task EXCEPT ![o] = "done"]
    BY <1>2 DEF ReturnFrom, FailFrom, Ends
  <2>2. todo' = [todo EXCEPT ![o] = << >>] /\ UNCHANGED << run, lock, pending >>
    BY <1>2 DEF ReturnFrom, FailFrom, Ends, KeepsOutside
  <2>3. /\ o \in Cands /\ lock = "dispatch" /\ task[o] = "running"
    BY <1>2, <2>1, AtCall, OwnerFacts DEF Runnable
  <2>4. todo \in [Owners -> Seq(PlannedOp)] /\ DOMAIN task = Cands
    BY DEF IInv
  <2>5. /\ todo'[o] = << >> /\ (\A p \in Owners : p # o => todo'[p] = todo[p])
        /\ task'[o] # "none" /\ task'[o] # "running" /\ (op = "Fail" => task'[o] = "failed")
        /\ \A c \in Cands : c # o => task'[c] = task[c]
    BY <2>1, <2>2, <2>3, <2>4
  <2>6. TaskInv'
    <3>1. todo'[RunOwner] = todo[RunOwner]
      BY <1>2, <2>5, OwnerFacts
    <3>2. ASSUME NEW c \in Cands
          PROVE  /\ task'[c] # "running" => todo'[c] = << >>
                 /\ task'[c] # "none" => todo'[RunOwner] = << Await >>
      <4>1. CASE c = o
        BY <2>3, <2>5, <3>1, <4>1 DEF FlowInv, TaskInv
      <4>2. CASE c # o
        BY <2>5, <3>1, <4>2, OwnerFacts DEF FlowInv, TaskInv
      <4> QED BY <4>1, <4>2
    <3> QED BY <2>2, <2>3, <3>2 DEF FlowInv, TaskInv
  <2>7. op = "Return" => ~OpenIn(run.attempts[o])
    <3> SUFFICES ASSUME op = "Return" PROVE ~OpenIn(run.attempts[o])
      OBVIOUS
    <3> DEFINE s == todo[o]
               hs == run.attempts[o]
    <3>1. /\ s \in Seq(PlannedOp) /\ s # << >> /\ s[1].op = "Return" /\ SoundCall(o, hs, s, 1)
          /\ Ending(hs, s)
      BY <2>1, AtCall
    <3> HIDE DEF s, hs
    <3>2. Len(s) = 1
      BY <3>1, LastCall DEF LastOps
    <3>3. DOMAIN s = {1} /\ ~Settles(s[1])
      BY <3>1, <3>2 DEF Settles, Closes, Commits
    <3>4. ~OpenIn(hs)
      BY <3>1, <3>3 DEF Ending
    <3> QED BY <3>4 DEF hs
  <2>8. ASSUME NEW p \in Owners
        PROVE  OwnerInv(p)'
    <3>1. CASE p = o
      <4>1. Ending(run.attempts[o], << >>) \/ task'[o] = "failed"
        BY <2>5, <2>7 DEF Ending
      <4>2. Recorded(o, run.attempts[o]) /\ Sound(o, run.attempts[o], << >>)
        BY SoundEmpty DEF FlowInv, OwnerInv
      <4> QED BY <2>2, <2>3, <2>5, <3>1, <4>1, <4>2 DEF OwnerInv
    <3>2. CASE p # o
      <4>1. OwnerInv(p) /\ todo'[p] = todo[p] /\ todo'[RunOwner] = todo[RunOwner]
        BY <1>2, <2>5, <3>2, OwnerFacts DEF FlowInv
      <4>2. p \in Cands => task'[p] = task[p]
        BY <2>5, <3>2
      <4> QED BY <2>2, <4>1, <4>2 DEF OwnerInv
    <3> QED BY <3>1, <3>2
  <2> QED BY <2>6, <2>8 DEF FlowInv
<1> QED BY <1>1, <1>2

(***************************************************************************)
(* What the bodies hand to finalise_attempt.                               *)
(***************************************************************************)
\* The events the body of a node asks to commit.
BodyKinds(node) ==
  CASE node = "Prepare"     -> {"BaselineResolved"}
    [] node = "Plan"        -> {"PlanVersionWritten"}
    [] node = "FanOut"      -> {"CandidateRegistered", "CandidateStatusChanged"}
    [] node = "Repair"      -> {"CandidateRepairStarted"}
    [] node = "Join"        -> {"RankingComputed", "WinnerSelected"}
    [] node = "Integrate"   -> {"IntegrationAttempted", "CandidateExcluded", "CandidatePromotionRequested"}
    [] node = "FinalTest"   -> {"FinalTestEvidence", "CandidateExcluded", "CandidatePromotionRequested"}
    [] node = "FinalReview" -> {"FinalReviewEvidence", "CandidateExcluded", "CandidatePromotionRequested"}
    [] node = "Commit"      -> {"CommitCreated"}
    [] OTHER                -> {}

NodeOp(node) ==
  {x \in PlannedOp : Commits(x, BodyKinds(node)) \/ (node = "Join" /\ x.op = "ExcludeAll")}

\* The only statuses a body asks for are those that end its candidate or its run.
NodeOutput(node) ==
  {out \in PlannedOutput : /\ out.calls \in Seq(NodeOp(node))
                           /\ out.cand \in {None, "Eligible", "Ineligible"}
                           /\ out.run \in {None, "Exhausted", "Succeeded"}}

LEMMA NodeOps ==
  ASSUME NEW node
  PROVE  /\ \A e \in PlannedEvent : e.kind \in BodyKinds(node) => Do(e) \in NodeOp(node)
         /\ \A left \in SUBSET Cands : node = "Join" => ExcludeAll(left) \in NodeOp(node)
         /\ NodeOp(node) \subseteq PlannedOp /\ NodeOp(node) \subseteq SimpleOp
         /\ << >> \in Seq(NodeOp(node))
         /\ \A x \in NodeOp(node) : << x >> \in Seq(NodeOp(node))
         /\ \A x, y \in NodeOp(node) : << x, y >> \in Seq(NodeOp(node))
         /\ \A s, t \in Seq(NodeOp(node)) : s \o t \in Seq(NodeOp(node))
<1>1. /\ \A e \in PlannedEvent : e.kind \in BodyKinds(node) => Do(e) \in NodeOp(node)
      /\ \A left \in SUBSET Cands : node = "Join" => ExcludeAll(left) \in NodeOp(node)
      /\ NodeOp(node) \subseteq PlannedOp
  BY PlannedOps, CallKinds DEF NodeOp, Commits
<1>2. "NodeStarted" \notin BodyKinds(node) /\ "NodeClosed" \notin BodyKinds(node)
  BY DEF BodyKinds
<1>3. NodeOp(node) \subseteq SimpleOp
  BY <1>2 DEF NodeOp, SimpleOp, Simple, LastOps, Begins, Closes, Commits
<1>4. << >> \in Seq(NodeOp(node)) /\ \A x \in NodeOp(node) : << x >> \in Seq(NodeOp(node))
  OBVIOUS
<1>5. \A x, y \in NodeOp(node) : << x, y >> \in Seq(NodeOp(node))
  OBVIOUS
<1>6. \A s, t \in Seq(NodeOp(node)) : s \o t \in Seq(NodeOp(node))
  OBVIOUS
<1> QED BY <1>1, <1>3, <1>4, <1>5, <1>6

LEMMA NodeSeqs ==
  ASSUME NEW node, NEW s \in Seq(NodeOp(node))
  PROVE  s \in Seq(PlannedOp) /\ s \in Seq(SimpleOp)
<1>1. \A x \in NodeOp(node) : x \in PlannedOp /\ x \in SimpleOp
  BY NodeOps
<1> QED BY <1>1

LEMMA NodeOutputs ==
  ASSUME NEW node
  PROVE  /\ \A next \in Nodes \cup {None}, calls \in Seq(NodeOp(node)) :
              Succeeded(next, calls) \in NodeOutput(node)
         /\ \A class \in FailureClass, why \in Fingerprints, calls \in Seq(NodeOp(node)) :
              Failed(class, why, calls) \in NodeOutput(node)
         /\ Paused \in NodeOutput(node)
         /\ \A out \in NodeOutput(node), status \in {"Exhausted", "Succeeded"} :
              [out EXCEPT !.run = status] \in NodeOutput(node)
         /\ \A out \in NodeOutput(node) : [out EXCEPT !.cand = "Eligible"] \in NodeOutput(node)
         /\ \A out \in NodeOutput(node) :
              [out EXCEPT !.next = "Join", !.cand = "Ineligible"] \in NodeOutput(node)
<1>1. ASSUME NEW next \in Nodes \cup {None}, NEW calls \in Seq(NodeOp(node))
      PROVE  Succeeded(next, calls) \in NodeOutput(node)
  <2>1. Succeeded(next, calls) \in PlannedOutput
    BY NodeSeqs, OutputTypes
  <2> QED BY <2>1 DEF NodeOutput, Succeeded
<1>2. ASSUME NEW class \in FailureClass, NEW why \in Fingerprints, NEW calls \in Seq(NodeOp(node))
      PROVE  Failed(class, why, calls) \in NodeOutput(node)
  <2>1. Failed(class, why, calls) \in PlannedOutput
    BY NodeSeqs, OutputTypes
  <2> QED BY <2>1 DEF NodeOutput, Failed
<1>3. Paused \in NodeOutput(node)
  <2>1. Paused \in PlannedOutput /\ << >> \in Seq(NodeOp(node))
    BY NodeOps, OutputTypes
  <2> QED BY <2>1 DEF NodeOutput, Paused
<1>4. ASSUME NEW out \in NodeOutput(node), NEW status \in {"Exhausted", "Succeeded"}
      PROVE  [out EXCEPT !.run = status] \in NodeOutput(node)
  <2>1. [out EXCEPT !.run = status] \in PlannedOutput
    BY OutputStatuses DEF NodeOutput, RunStatus
  <2> QED BY <2>1 DEF NodeOutput, PlannedOutput, Output
<1>5. ASSUME NEW out \in NodeOutput(node)
      PROVE  [out EXCEPT !.cand = "Eligible"] \in NodeOutput(node)
  <2>1. [out EXCEPT !.cand = "Eligible"] \in PlannedOutput
    BY OutputStatuses DEF NodeOutput, CandidateStatus
  <2> QED BY <2>1 DEF NodeOutput, PlannedOutput, Output
<1>6. ASSUME NEW out \in NodeOutput(node)
      PROVE  [out EXCEPT !.next = "Join", !.cand = "Ineligible"] \in NodeOutput(node)
  <2>1. [out EXCEPT !.next = "Join", !.cand = "Ineligible"] \in PlannedOutput
    BY NodeNames DEF NodeOutput, CandidateStatus, PlannedOutput, Output
  <2> QED BY <2>1 DEF NodeOutput, PlannedOutput, Output
<1> QED BY <1>1, <1>2, <1>3, <1>4, <1>5, <1>6

\* The retry decision only routes, or gives the candidate up.
LEMMA RoutedOutput ==
  ASSUME NEW node \in Nodes, NEW out \in NodeOutput(node), NEW o \in Owners, NEW number \in Nat
  PROVE  AfterRetryDecision(o, node, number, out) \in NodeOutput(node)
<1> DEFINE after == AfterRetryDecision(o, node, number, out)
<1>1. after \in PlannedOutput
  BY RetryOutput DEF NodeOutput
<1>2. after.calls = out.calls /\ after.run = out.run /\ after.cand \in {out.cand, "Ineligible"}
  BY DEF AfterRetryDecision, NodeOutput, PlannedOutput, Output
<1> QED BY <1>1, <1>2 DEF NodeOutput

\* Owner o's body ends with an output of its node.
Produces(o) ==
  At(o, "Body") /\ KeepsEngine /\ \E out \in NodeOutput(Call(o).node) : Produce(o, out)

LEMMA ProducesSimple ==
  ASSUME NEW o \in Owners, NEW node, AtBody(o, node), KeepsEngine,
         NEW out \in NodeOutput(node), Produce(o, out)
  PROVE  Produces(o)
  BY DEF Produces, AtBody

LEMMA ErrorOutput ==
  ASSUME NEW o \in Owners, NEW class \in Faults, NodeError(o, class)
  PROVE  Produces(o)
<1>1. PICK why \in Fingerprints : Produce(o, Failed(class, why, << >>))
  BY DEF NodeError
<1>2. class \in FailureClass
  BY EngineAssumption
<1>3. Failed(class, why, << >>) \in NodeOutput(Call(o).node)
  BY <1>2, NodeOps, NodeOutputs
<1> QED BY <1>1, <1>3 DEF NodeError, Produces

LEMMA SetupOutput ==
  ASSUME IInv, PrepareNode \/ (\E hash \in Hashes : PlanNode(hash)) \/ FanOutNode
  PROVE  Produces(RunOwner)
<1>1. CASE PrepareNode
  <2>1. BaselineResolved \in PlannedEvent /\ BaselineResolved.kind \in BodyKinds("Prepare")
    BY PlannedEvents DEF BaselineResolved, BodyKinds
  <2>2. Succeeded("Plan", << Do(BaselineResolved) >>) \in NodeOutput("Prepare")
    BY <2>1, NodeOps, NodeOutputs, NodeNames
  <2> QED BY <1>1, <2>2, ProducesSimple, OwnerFacts DEF PrepareNode
<1>2. ASSUME NEW hash \in Hashes, PlanNode(hash)
      PROVE  Produces(RunOwner)
  <2> DEFINE e == PlanVersionWritten(NextVersionNumber(run), hash)
  <2>1. e \in PlannedEvent /\ e.kind = "PlanVersionWritten"
    BY VersionType, PlannedEvents DEF IInv, RunInv, PlanVersionWritten
  <2>2. e.kind \in BodyKinds("Plan")
    BY <2>1 DEF BodyKinds
  <2>3. Succeeded("Approval", << Do(e) >>) \in NodeOutput("Plan")
    <3> HIDE DEF e
    <3> QED BY <2>1, <2>2, NodeOps, NodeOutputs, NodeNames
  <2> QED BY <1>2, <2>3, ProducesSimple, OwnerFacts DEF PlanNode
<1>3. CASE FanOutNode
  <2>1. FanOutCalls \in Seq(NodeOp("FanOut"))
    <3>1. ASSUME NEW i \in 1..(2 * NumCandidates)
          PROVE  FanOutCalls[i] \in NodeOp("FanOut")
      <4>a. {"CandidateRegistered", "CandidateStatusChanged"} = BodyKinds("FanOut")
        BY DEF BodyKinds
      <4>1. CASE i % 2 = 1
        <5>1. (i + 1) \div 2 \in Cands
          BY <4>1, ConstantsAssumption DEF Cands
        <5>2. \A c \in Cands : CandidateRegistered(c) \in PlannedEvent
          BY PlannedEvents
        <5>3. \A c \in Cands : Do(CandidateRegistered(c)) \in NodeOp("FanOut")
          BY <4>a, <5>2, NodeOps DEF CandidateRegistered
        <5> QED BY <4>1, <5>1, <5>3 DEF FanOutCalls
      <4>2. CASE i % 2 # 1
        <5>1. i \div 2 \in Cands
          BY <4>2, ConstantsAssumption DEF Cands
        <5>2. \A c \in Cands : CandidateStatusChanged(c, "Pending", "Preparing") \in PlannedEvent
          BY PlannedEvents DEF CandidateStatus
        <5>3. \A c \in Cands :
                Do(CandidateStatusChanged(c, "Pending", "Preparing")) \in NodeOp("FanOut")
          BY <4>a, <5>2, NodeOps DEF CandidateStatusChanged
        <5> QED BY <4>2, <5>1, <5>3 DEF FanOutCalls
      <4> QED BY <4>1, <4>2
    <3>2. 2 * NumCandidates \in Nat
      BY ConstantsAssumption
    <3>3. FanOutCalls \in [1..(2 * NumCandidates) -> NodeOp("FanOut")]
      BY <3>1 DEF FanOutCalls
    <3> QED BY <3>2, <3>3
  <2>2. /\ Succeeded("Implement", FanOutCalls) \in NodeOutput("FanOut")
        /\ Failed("InternalInvariant", 1, << >>) \in NodeOutput("FanOut")
    BY <2>1, NodeOps, NodeOutputs, NodeNames, OwnerFacts DEF FailureClass
  <2>3. PICK out \in NodeOutput("FanOut") : Produce(RunOwner, out)
    BY <1>3, <2>2 DEF FanOutNode
  <2> QED BY <1>3, <2>3, ProducesSimple, OwnerFacts DEF FanOutNode
<1> QED BY <1>1, <1>2, <1>3

LEMMA AgentOutputs ==
  ASSUME NEW node, NEW completed \in BOOLEAN, NEW why \in Fingerprints,
         NEW calls \in Seq(NodeOp(node))
  PROVE  AgentOutput(completed, why, calls) \in NodeOutput(node)
<1>1. {"UserActionRequired", "TaskFailure"} \subseteq FailureClass
  BY DEF FailureClass
<1>2. /\ Failed("UserActionRequired", why, << >>) \in NodeOutput(node)
      /\ Succeeded("Test", calls) \in NodeOutput(node)
      /\ Failed("TaskFailure", why, calls) \in NodeOutput(node)
  BY <1>1, NodeOps, NodeNames, NodeOutputs
<1> QED BY <1>2 DEF AgentOutput

\* The event of a repair that the budget still allows.
LEMMA RepairCalls ==
  ASSUME IInv, NEW c \in Cands, HasRepairBudget(run.cands[c]), NEW f \in LatestFailure(run, c)
  PROVE  << Do(CandidateRepairStarted(c, run.cands[c].used + 1, f)) >> \in Seq(NodeOp("Repair"))
<1> DEFINE n == run.cands[c].used + 1
           e == CandidateRepairStarted(c, n, f)
<1>1. run \in Projection /\ run.cands[c].used \in Nat
  BY DEF IInv, RunInv, Projection, CandidateRecord
<1>2. n \in Nat /\ n <= RepairBudget
  <2>1. RepairBudget - run.cands[c].used > 0
    BY DEF HasRepairBudget
  <2> QED BY <1>1, <2>1, ConstantsAssumption
<1>3. f \in Fingerprints \cup {0}
  BY <1>1, LatestFailureType
<1> HIDE DEF n
<1>4. e \in PlannedEvent
  BY <1>2, <1>3, PlannedEvents
<1>5. e.kind \in BodyKinds("Repair")
  BY DEF CandidateRepairStarted, BodyKinds
<1> HIDE DEF e
<1>6. << Do(e) >> \in Seq(NodeOp("Repair"))
  BY <1>4, <1>5, NodeOps
<1> QED BY <1>6 DEF e, n

LEMMA CandidateOutput ==
  ASSUME IInv, NEW c \in Cands, NEW ok \in BOOLEAN, NEW why \in Fingerprints,
         \/ ImplementNode(c, ok, why) \/ TestNode(c, ok, why) \/ ReviewNode(c, ok, why)
         \/ RepairNode(c, ok, why) \/ RepairExhausted(c, why)
  PROVE  Produces(c)
<1>a. "TaskFailure" \in FailureClass
  BY DEF FailureClass
<1>b. \A node : Failed("TaskFailure", why, << >>) \in NodeOutput(node)
  BY <1>a, NodeOps, NodeOutputs
<1>1. CASE ImplementNode(c, ok, why)
  <2>1. AgentOutput(ok, why, << >>) \in NodeOutput("Implement")
    BY NodeOps, AgentOutputs
  <2> QED BY <1>1, <2>1, ProducesSimple, OwnerFacts DEF ImplementNode
<1>2. CASE TestNode(c, ok, why)
  <2>1. Succeeded("Review", << >>) \in NodeOutput("Test")
    BY NodeOps, NodeOutputs, NodeNames
  <2>2. PICK out \in NodeOutput("Test") : Produce(c, out)
    BY <1>2, <1>b, <2>1 DEF TestNode
  <2> QED BY <1>2, <2>2, ProducesSimple, OwnerFacts DEF TestNode
<1>3. CASE ReviewNode(c, ok, why)
  <2>1. Succeeded("Join", << >>) \in NodeOutput("Review")
    BY NodeOps, NodeOutputs, NodeNames
  <2>2. [Succeeded("Join", << >>) EXCEPT !.cand = "Eligible"] \in NodeOutput("Review")
    BY <2>1, NodeOutputs
  <2>3. PICK out \in NodeOutput("Review") : Produce(c, out)
    BY <1>3, <1>b, <2>2 DEF ReviewNode
  <2> QED BY <1>3, <2>3, ProducesSimple, OwnerFacts DEF ReviewNode
<1>4. CASE RepairNode(c, ok, why)
  <2>1. PICK f \in LatestFailure(run, c) :
          Produce(c, AgentOutput(ok, why, << Do(CandidateRepairStarted(c, run.cands[c].used + 1, f)) >>))
    BY <1>4 DEF RepairNode
  <2> DEFINE calls == << Do(CandidateRepairStarted(c, run.cands[c].used + 1, f)) >>
  <2>2. calls \in Seq(NodeOp("Repair"))
    BY <1>4, RepairCalls DEF RepairNode
  <2> HIDE DEF calls
  <2>3. AgentOutput(ok, why, calls) \in NodeOutput("Repair")
    BY <2>2, AgentOutputs
  <2> QED BY <1>4, <2>1, <2>3, ProducesSimple, OwnerFacts DEF RepairNode, calls
<1>5. CASE RepairExhausted(c, why)
  <2>1. [Failed("TaskFailure", why, << >>) EXCEPT !.next = "Join", !.cand = "Ineligible"]
          \in NodeOutput("Repair")
    BY <1>b, NodeOutputs
  <2> QED BY <1>5, <2>1, ProducesSimple, OwnerFacts DEF RepairExhausted
<1> QED BY <1>1, <1>2, <1>3, <1>4, <1>5

LEMMA JoinOutput ==
  ASSUME IInv, NEW eligible \in SUBSET Cands, JoinNode(eligible)
  PROVE  Produces(RunOwner)
<1> DEFINE excluded == {c \in Cands : Registered(run, c)} \ eligible
           calls(r) == << ExcludeAll(excluded), Do(RankingComputed(r)) >>
           won(r) == << Do(WinnerSelected(r[1])) >>
           out(r) == IF eligible = {} THEN [Succeeded(None, calls(r)) EXCEPT !.run = "Exhausted"]
                     ELSE Succeeded("Integrate", calls(r) \o won(r))
<1>1. PICK r \in Orders(eligible) : Produce(RunOwner, out(r))
  BY DEF JoinNode
<1>2. r \in Seq(Cands) /\ (eligible # {} => r[1] \in Cands)
  BY OrdersType
<1>a. BodyKinds("Join") = {"RankingComputed", "WinnerSelected"}
  BY DEF BodyKinds
<1>3. Do(RankingComputed(r)) \in NodeOp("Join") /\ ExcludeAll(excluded) \in NodeOp("Join")
  <2>1. RankingComputed(r) \in PlannedEvent /\ RankingComputed(r).kind = "RankingComputed"
    BY <1>2, PlannedEvents DEF RankingComputed
  <2>2. excluded \in SUBSET Cands
    OBVIOUS
  <2> HIDE DEF excluded
  <2> QED BY <1>a, <2>1, <2>2, NodeOps
<1>4. eligible # {} => Do(WinnerSelected(r[1])) \in NodeOp("Join")
  <2>1. eligible # {} => WinnerSelected(r[1]) \in PlannedEvent
    BY <1>2, PlannedEvents
  <2> QED BY <1>a, <2>1, NodeOps DEF WinnerSelected
<1> HIDE DEF excluded
<1>5. calls(r) \in Seq(NodeOp("Join")) /\ (eligible # {} => won(r) \in Seq(NodeOp("Join")))
  BY <1>3, <1>4, NodeOps
<1> HIDE DEF calls, won
<1>6. eligible # {} => calls(r) \o won(r) \in Seq(NodeOp("Join"))
  BY <1>5, NodeOps
<1>7. [Succeeded(None, calls(r)) EXCEPT !.run = "Exhausted"] \in NodeOutput("Join")
  <2>1. Succeeded(None, calls(r)) \in NodeOutput("Join")
    BY <1>5, NodeOutputs
  <2> QED BY <2>1, NodeOutputs
<1>8. eligible # {} => Succeeded("Integrate", calls(r) \o won(r)) \in NodeOutput("Join")
  BY <1>6, NodeOutputs, NodeNames
<1>9. out(r) \in NodeOutput("Join")
  BY <1>7, <1>8
<1> HIDE DEF out
<1> QED BY <1>1, <1>9, ProducesSimple, OwnerFacts DEF JoinNode

LEMMA PromotionOutput ==
  ASSUME NEW node \in {"Integrate", "FinalTest", "FinalReview"}, NEW winner \in Cands,
         NEW next \in Cands \cup {NoCand}, NEW calls \in Seq(NodeOp(node))
  PROVE  Promotion(winner, next, calls) \in NodeOutput(node)
<1> DEFINE x == Do(CandidateExcluded(winner))
           y == Do(CandidatePromotionRequested(winner, next))
           all == calls \o << x, y >>
<1>a. {"CandidateExcluded", "CandidatePromotionRequested"} \subseteq BodyKinds(node)
  BY DEF BodyKinds
<1>1. x \in NodeOp(node)
  <2>1. CandidateExcluded(winner) \in PlannedEvent
    BY PlannedEvents
  <2> QED BY <1>a, <2>1, NodeOps DEF CandidateExcluded
<1>2. y \in NodeOp(node)
  <2>1. CandidatePromotionRequested(winner, next) \in PlannedEvent
    BY PlannedEvents
  <2> QED BY <1>a, <2>1, NodeOps DEF CandidatePromotionRequested
<1> HIDE DEF x, y
<1>3. all \in Seq(NodeOp(node))
  BY <1>1, <1>2, NodeOps
<1> HIDE DEF all
<1>4. Succeeded(None, all) \in NodeOutput(node) /\ Succeeded("Integrate", all) \in NodeOutput(node)
  BY <1>3, NodeNames, NodeOutputs
<1>5. [Succeeded(None, all) EXCEPT !.run = "Exhausted"] \in NodeOutput(node)
  BY <1>4, NodeOutputs
<1> QED BY <1>4, <1>5 DEF Promotion, all, x, y

LEMMA IntegrateOutput ==
  ASSUME IInv, NEW applies \in BOOLEAN, IntegrateNode(applies)
  PROVE  Produces(RunOwner)
<1> DEFINE e == IntegrationAttempted(run.winner, applies)
           attempted == << Do(e) >>
           out(next) == IF applies THEN Succeeded("FinalTest", attempted)
                        ELSE Promotion(run.winner, next, attempted)
<1>1. run \in Projection /\ run.winner \in Cands
  BY WinnerType DEF IntegrateNode
<1>2. PICK next \in NextPromotable(run.winner) : Produce(RunOwner, out(next))
  BY DEF IntegrateNode
<1>3. next \in Cands \cup {NoCand}
  BY <1>1, NextPromotableType
<1>4. e \in PlannedEvent /\ e.kind \in BodyKinds("Integrate")
  BY <1>1, PlannedEvents DEF IntegrationAttempted, BodyKinds
<1> HIDE DEF e
<1>5. attempted \in Seq(NodeOp("Integrate"))
  BY <1>4, NodeOps
<1> HIDE DEF attempted
<1>6. /\ Succeeded("FinalTest", attempted) \in NodeOutput("Integrate")
      /\ Promotion(run.winner, next, attempted) \in NodeOutput("Integrate")
  BY <1>1, <1>3, <1>5, NodeOutputs, NodeNames, PromotionOutput
<1>7. out(next) \in NodeOutput("Integrate")
  BY <1>6
<1> HIDE DEF out
<1> QED BY <1>2, <1>7, ProducesSimple, OwnerFacts DEF IntegrateNode

LEMMA FinalOutputs ==
  ASSUME IInv, run.winner # NoCand, NEW node \in {"FinalTest", "FinalReview"},
         NEW passed \in BOOLEAN, NEW next \in Nodes,
         NEW promoted \in NextPromotable(run.winner), NEW evidence \in NodeOp(node)
  PROVE  FinalOutput(passed, next, promoted, evidence) \in NodeOutput(node)
<1>1. run.winner \in Cands /\ promoted \in Cands \cup {NoCand}
  BY WinnerType, NextPromotableType
<1>2. << evidence >> \in Seq(NodeOp(node))
  BY NodeOps
<1>3. /\ Succeeded(next, << evidence >>) \in NodeOutput(node)
      /\ Promotion(run.winner, promoted, << evidence >>) \in NodeOutput(node)
  BY <1>1, <1>2, NodeOutputs, PromotionOutput
<1> QED BY <1>3 DEF FinalOutput

LEMMA FinalGatesOutput ==
  ASSUME IInv, NEW passed \in BOOLEAN, FinalTestNode(passed) \/ FinalReviewNode(passed)
  PROVE  Produces(RunOwner)
<1>a. Verdict(passed) \in {"Pass", "Fail"}
  BY DEF Verdict
<1>1. CASE FinalTestNode(passed)
  <2> DEFINE e == FinalTestEvidence(Verdict(passed))
  <2>1. e \in PlannedEvent
    BY <1>a, PlannedEvents
  <2>2. e.kind \in BodyKinds("FinalTest")
    BY DEF FinalTestEvidence, BodyKinds
  <2>3. PICK promoted \in NextPromotable(run.winner) :
          Produce(RunOwner, FinalOutput(passed, "FinalReview", promoted, Do(e)))
    BY <1>1 DEF FinalTestNode
  <2> HIDE DEF e
  <2>4. Do(e) \in NodeOp("FinalTest")
    BY <2>1, <2>2, NodeOps
  <2>5. FinalOutput(passed, "FinalReview", promoted, Do(e)) \in NodeOutput("FinalTest")
    BY <1>1, <2>4, NodeNames, FinalOutputs DEF FinalTestNode
  <2> QED BY <1>1, <2>3, <2>5, ProducesSimple, OwnerFacts DEF FinalTestNode
<1>2. CASE FinalReviewNode(passed)
  <2> DEFINE e == FinalReviewEvidence(Verdict(passed))
  <2>1. e \in PlannedEvent
    BY <1>a, PlannedEvents
  <2>2. e.kind \in BodyKinds("FinalReview")
    BY DEF FinalReviewEvidence, BodyKinds
  <2>3. PICK promoted \in NextPromotable(run.winner) :
          Produce(RunOwner, FinalOutput(passed, "CommitApproval", promoted, Do(e)))
    BY <1>2 DEF FinalReviewNode
  <2> HIDE DEF e
  <2>4. Do(e) \in NodeOp("FinalReview")
    BY <2>1, <2>2, NodeOps
  <2>5. FinalOutput(passed, "CommitApproval", promoted, Do(e)) \in NodeOutput("FinalReview")
    BY <1>2, <2>4, NodeNames, FinalOutputs DEF FinalReviewNode
  <2> QED BY <1>2, <2>3, <2>5, ProducesSimple, OwnerFacts DEF FinalReviewNode
<1> QED BY <1>1, <1>2

LEMMA CommitOutputs ==
  ASSUME CommitNode \/ CommitPauses
  PROVE  Produces(RunOwner)
<1>1. CASE CommitNode
  <2>1. CommitCreated \in PlannedEvent /\ CommitCreated.kind \in BodyKinds("Commit")
    BY PlannedEvents DEF CommitCreated, BodyKinds
  <2>2. Succeeded(None, << Do(CommitCreated) >>) \in NodeOutput("Commit")
    BY <2>1, NodeOps, NodeOutputs
  <2>3. [Succeeded(None, << Do(CommitCreated) >>) EXCEPT !.run = "Succeeded"] \in NodeOutput("Commit")
    BY <2>2, NodeOutputs
  <2>4. /\ Failed("TaskFailure", 1, << >>) \in NodeOutput("Commit")
        /\ Failed("Transient", 1, << >>) \in NodeOutput("Commit")
    BY NodeOps, OwnerFacts, NodeOutputs DEF FailureClass
  <2>5. CommitOutput \in NodeOutput("Commit")
    BY <2>3, <2>4 DEF CommitOutput
  <2> QED BY <1>1, <2>5, ProducesSimple, OwnerFacts DEF CommitNode
<1>2. CASE CommitPauses
  <2>1. Paused \in NodeOutput("Commit")
    BY NodeOutputs
  <2> QED BY <1>2, <2>1, ProducesSimple, OwnerFacts DEF CommitPauses
<1> QED BY <1>1, <1>2

LEMMA BodyOutputs ==
  ASSUME IInv, NodeBody
  PROVE  \E o \in Owners : EditWorktree(o) \/ GateWrites(o) \/ Produces(o)
<1>1. RunOwner \in Owners /\ \A c \in Cands : c \in Owners
  BY OwnerFacts
<1> QED BY <1>1, ErrorOutput, SetupOutput, CandidateOutput, JoinOutput, IntegrateOutput,
           FinalGatesOutput, CommitOutputs DEF NodeBody

LEMMA UnmovedFlow ==
  ASSUME FlowInv, UNCHANGED << run, lock, task, todo, pending >>
  PROVE  FlowInv'
BY DEF FlowInv, TaskInv, OwnerInv

\* A gate that writes into its worktree leaves the engine alone.
LEMMA GateWritesKeep ==
  ASSUME NEW o \in Owners, GateWrites(o)
  PROVE  UNCHANGED << run, poisoned, lock, stopped, task, todo, cancelled, outcome, pending, store >>
BY DEF GateWrites, KeepsEngine

LEMMA NodeBodyStep ==
  ASSUME IInv, FlowInv, NodeBody
  PROVE  FlowInv'
<1>1. PICK o \in Owners : EditWorktree(o) \/ GateWrites(o) \/ Produces(o)
  BY BodyOutputs
<1>2. CASE EditWorktree(o)
  <2>1. << >> \in Seq(SimpleOp)
    BY SimpleSeqs
  <2>2. At(o, "Edit") /\ Continue(o, << >>) /\ UNCHANGED << run, lock, task, pending >>
    BY <1>2 DEF EditWorktree, KeepsEngine
  <2> QED BY <2>1, <2>2, ContinueStep
<1>3. CASE Produces(o)
  <2>1. PICK out \in NodeOutput(Call(o).node) : Produce(o, out)
    BY <1>3 DEF Produces
  <2>2. out \in PlannedOutput /\ out.calls \in Seq(SimpleOp)
    BY NodeSeqs DEF NodeOutput
  <2> QED BY <1>3, <2>1, <2>2, BodyStep DEF Produces
<1>4. CASE GateWrites(o)
  <2>1. UNCHANGED << run, lock, task, todo, pending >>
    BY <1>4, GateWritesKeep
  <2> QED BY <2>1, UnmovedFlow
<1> QED BY <1>1, <1>2, <1>3, <1>4

(***************************************************************************)
(* The run loop.                                                           *)
(***************************************************************************)
\* Between two steps of the run loop no task runs and no attempt is open.
LEMMA AtLoopFacts ==
  ASSUME IInv, FlowInv, AtLoop
  PROVE  /\ lock = "dispatch" /\ TaskInv
         /\ \A c \in Cands : task[c] = "none" /\ todo[c] = << >>
         /\ \A o \in Owners : Recorded(o, run.attempts[o]) /\ ~OpenIn(run.attempts[o])
<1>1. lock = "dispatch" /\ todo[RunOwner] = << >> /\ TaskInv
  BY DEF AtLoop, Runnable, FlowInv
<1>2. << Await >> # << >> /\ << Fail >> # << >>
  OBVIOUS
<1>3. ASSUME NEW c \in Cands
      PROVE  task[c] = "none" /\ todo[c] = << >>
  BY <1>1, <1>2 DEF TaskInv
<1>4. ASSUME NEW o \in Owners
      PROVE  Recorded(o, run.attempts[o]) /\ ~OpenIn(run.attempts[o])
  <2>1. OwnerInv(o)
    BY DEF FlowInv
  <2>2. todo[o] = << >>
    BY <1>1, <1>3, OwnerFacts
  <2>3. Ending(run.attempts[o], << >>)
    BY <1>1, <1>2, <1>3, <2>1, <2>2 DEF OwnerInv
  <2>4. ~OpenIn(run.attempts[o])
    BY <2>3 DEF Ending
  <2> QED BY <2>1, <2>4 DEF OwnerInv
<1> QED BY <1>1, <1>3, <1>4

\* The run loop takes its next calls.
LEMMA LoopStep ==
  ASSUME IInv, FlowInv, AtLoop, NEW t, todo' = [todo EXCEPT ![RunOwner] = t],
         t # << >>, ~Begins(t[1]), Sound(RunOwner, run.attempts[RunOwner], t),
         UNCHANGED << run, lock, pending >>,
         \A c \in Cands : task'[c] # "running" /\ (task'[c] # "none" => t = << Await >>)
  PROVE  FlowInv'
<1>1. /\ lock = "dispatch" /\ TaskInv
      /\ \A c \in Cands : todo[c] = << >>
      /\ \A o \in Owners : Recorded(o, run.attempts[o]) /\ ~OpenIn(run.attempts[o])
  BY AtLoopFacts
<1>2. todo'[RunOwner] = t /\ \A c \in Cands : todo'[c] = << >> /\ c # RunOwner
  BY <1>1, OwnerFacts DEF IInv, Cands, RunOwner
<1>3. TaskInv'
  BY <1>1, <1>2 DEF TaskInv
<1>4. ASSUME NEW o \in Owners
      PROVE  OwnerInv(o)'
  <2>1. Recorded(o, run.attempts[o]) /\ ~OpenIn(run.attempts[o])
    BY <1>1
  <2>2. Sound(o, run.attempts[o], todo'[o]) /\ (todo'[o] # << >> => ~Begins(todo'[o][1]))
    BY <1>2, OwnerFacts, SoundEmpty
  <2>3. Ending(run.attempts[o], todo'[o])
    BY <2>1, <2>2 DEF Ending
  <2> QED BY <2>1, <2>2, <2>3 DEF OwnerInv
<1> QED BY <1>3, <1>4 DEF FlowInv

LEMMA LoopReturnStep ==
  ASSUME IInv, FlowInv, NEW kind, NEW x \in SimpleOp, NEW result \in Outcome,
         LoopCalls(kind, << x, Return(result) >>), UNCHANGED task
  PROVE  FlowInv'
<1> DEFINE t == << x, Return(result) >>
<1>1. Sound(RunOwner, run.attempts[RunOwner], t)
  BY SoundReturn
<1>2. t # << >> /\ ~Begins(t[1])
  BY DEF SimpleOp, Simple
<1>3. /\ AtLoop /\ todo' = [todo EXCEPT ![RunOwner] = t]
      /\ UNCHANGED << run, lock, pending >>
  BY DEF LoopCalls, KeepsOutside
<1>4. \A c \in Cands : task'[c] = "none"
  BY <1>3, AtLoopFacts
<1> HIDE DEF t
<1> QED BY <1>1, <1>2, <1>3, <1>4, LoopStep

LEMMA LoopNodeStep ==
  ASSUME IInv, FlowInv, LoopNode
  PROVE  FlowInv'
<1> DEFINE node == NextRunStep(run).value
           target == DesiredRunStatus(run.status, node)
           c == Only(target # None, SetRun(target))
           t == c \o << Start(node) >>
<1>1. run \in Projection /\ NextRunStep(run).kind = "RunNode" /\ LoopCalls("RunNode", t)
  BY DEF LoopNode, LoopCalls, IInv, RunInv
<1>2. node \in RunNodes /\ node \in Nodes
  BY <1>1, NextRunStepType, NodeNames DEF RunStep
<1> HIDE DEF node
<1>3. target # None => target \in RunStatus
  <2>1. RunStatusForNode[node] \in RunStatus
    BY <1>2 DEF RunStatusForNode, RunStatus
  <2> QED BY <2>1 DEF DesiredRunStatus
<1> HIDE DEF target
<1>4. c \in Seq(SimpleOp)
  BY <1>3, SimpleOps, SimpleSeqs
<1> HIDE DEF c
<1>5. /\ AtLoop /\ todo' = [todo EXCEPT ![RunOwner] = t]
      /\ UNCHANGED << run, lock, pending, task >>
  BY <1>1 DEF LoopCalls, KeepsOutside, LoopNode
<1>6. (\A d \in Cands : task'[d] = "none") /\ ~OpenIn(run.attempts[RunOwner])
  BY <1>5, AtLoopFacts, OwnerFacts
<1>7. MayStart(RunOwner, run.attempts[RunOwner], node)
  BY <1>2, <1>6 DEF MayStart, Cands, RunOwner
<1>8. Sound(RunOwner, run.attempts[RunOwner], t) /\ ~Begins(t[1])
  BY <1>2, <1>4, <1>7, SoundStart
<1>9. t # << >>
  <2>1. << Start(node) >> \in Seq(PlannedOp) /\ Len(<< Start(node) >>) = 1
    BY <1>2, PlannedOps, OneCall
  <2> DEFINE u == << Start(node) >>
  <2> HIDE DEF u
  <2>2. c \o u # << >>
    BY <1>4, <2>1, SimpleCalls DEF u
  <2> QED BY <2>2 DEF u
<1> HIDE DEF t
<1> QED BY <1>5, <1>6, <1>8, <1>9, LoopStep

\* The run loop has joined the candidate tasks.
LEMMA AwaitStep ==
  ASSUME IInv, FlowInv, AwaitTasks
  PROVE  FlowInv'
<1> DEFINE failed == \E c \in Cands : task[c] = "failed"
           s == todo[RunOwner]
           hs == run.attempts[RunOwner]
           t == IF failed THEN << Fail >> ELSE << >>
<1>1. At(RunOwner, "Await") /\ UNCHANGED << run, lock, pending >>
  BY DEF AwaitTasks, KeepsOutside
<1>2. /\ s \in Seq(PlannedOp) /\ s # << >> /\ s[1].op = "Await" /\ SoundCall(RunOwner, hs, s, 1)
      /\ Ending(hs, s) /\ Recorded(RunOwner, hs) /\ lock = "dispatch"
  BY <1>1, AtCall, OwnerFacts
<1>3. Len(s) = 1 /\ Tail(s) = << >>
  <2> HIDE DEF s, hs
  <2> QED BY <1>2, LastCall DEF LastOps
<1>4. ~OpenIn(hs)
  <2> HIDE DEF s, hs
  <2>1. DOMAIN s = {1} /\ ~Settles(s[1])
    BY <1>2, <1>3 DEF Settles, Closes, Commits
  <2> QED BY <1>2, <2>1 DEF Ending
<1>5. todo' = [todo EXCEPT ![RunOwner] = t]
  <2>1. todo' = [todo EXCEPT ![RunOwner] = Only(failed, Fail) \o Tail(s)]
    BY DEF AwaitTasks, Continue
  <2>2. Only(failed, Fail) = t /\ t \in Seq({Fail})
    <3> HIDE DEF failed
    <3>1. << Fail >> \in Seq({Fail}) /\ << >> \in Seq({Fail})
      OBVIOUS
    <3>2. Only(failed, Fail) = t
      BY DEF Only
    <3> QED BY <3>1, <3>2
  <2>3. t \o << >> = t
    BY <2>2, ConcatEmptySeq
  <2> QED BY <1>3, <2>1, <2>2, <2>3
<1>6. \A c \in Cands : task'[c] = "none" /\ task[c] # "running" /\ task[c] \in {"none", "done", "failed"}
  BY DEF AwaitTasks
<1>7. /\ todo'[RunOwner] = t
      /\ \A c \in Cands : todo'[c] = << >> /\ todo[c] = << >> /\ c # RunOwner
  BY <1>5, <1>6, OwnerFacts DEF IInv, FlowInv, TaskInv, Cands, RunOwner
<1>8. TaskInv'
  BY <1>1, <1>2, <1>6, <1>7 DEF FlowInv, TaskInv
<1>9. OwnerInv(RunOwner)'
  <2>1. Sound(RunOwner, hs, t)
    BY SimpleOps, SoundOne, SoundEmpty
  <2>2. Ending(hs, t)
    <3>1. ~Begins(<< Fail >>[1])
      BY CallKinds DEF Begins, Commits
    <3> QED BY <1>4, <3>1 DEF Ending
  <2> QED BY <1>1, <1>2, <1>7, <2>1, <2>2 DEF OwnerInv
<1>10. ASSUME NEW c \in Cands
       PROVE  OwnerInv(c)'
  <2>1. OwnerInv(c) /\ c \in Owners
    BY OwnerFacts DEF FlowInv
  <2>2. Ending(run.attempts[c], << >>) \/ task[c] = "failed"
    <3>1. s # << Fail >>
      <4>1. << Fail >>[1].op = "Fail"
        BY CallKinds
      <4> QED BY <1>2, <4>1
    <3> QED BY <1>2, <1>7, <2>1, <3>1 DEF OwnerInv
  <2>3. Sound(c, run.attempts[c], << >>)
    BY SoundEmpty
  <2> QED BY <1>1, <1>7, <2>1, <2>2, <2>3 DEF OwnerInv
<1> QED BY <1>8, <1>9, <1>10, OwnerFacts DEF FlowInv

LEMMA RunLoopStep ==
  ASSUME IInv, FlowInv, RunLoop
  PROVE  FlowInv'
<1>a. /\ {"AwaitingPlanApproval", "AwaitingCommitApproval", "Cancelled"} \subseteq RunStatus
      /\ RunStatus \subseteq Outcome
  BY DEF RunStatus, Outcome
<1>1. CASE LoopFinish \/ LoopBlocked
  <2>1. PICK result : EndDispatch(result)
    BY <1>1 DEF LoopFinish, LoopBlocked, LoopReturns
  <2>2. lock = "dispatch" /\ UNCHANGED << run, pending >>
    BY <1>1 DEF LoopFinish, LoopBlocked, LoopReturns, AtLoop, Runnable, KeepsOutside
  <2> QED BY <2>1, <2>2, EndStep
<1>2. CASE LoopAwaitPlan
  <2>1. SetRun("AwaitingPlanApproval") \in SimpleOp
    BY <1>a, SimpleOps
  <2> QED BY <1>2, <1>a, <2>1, LoopReturnStep DEF LoopAwaitPlan
<1>3. CASE LoopAwaitCommit
  <2>1. SetRun("AwaitingCommitApproval") \in SimpleOp
    BY <1>a, SimpleOps
  <2> QED BY <1>3, <1>a, <2>1, LoopReturnStep DEF LoopAwaitCommit
<1>4. CASE LoopCancel
  <2>1. CancelAll(NonTerminal(run)) \in SimpleOp
    BY SimpleOps DEF NonTerminal
  <2> QED BY <1>4, <1>a, <2>1, LoopReturnStep DEF LoopCancel
<1>5. CASE LoopCandidates
  <2> DEFINE t == << Await >>
  <2>1. AtLoop /\ todo' = [todo EXCEPT ![RunOwner] = t] /\ UNCHANGED << run, lock, pending >>
    BY <1>5 DEF LoopCandidates, LoopCalls, KeepsOutside
  <2>2. t # << >> /\ ~Begins(t[1]) /\ Sound(RunOwner, run.attempts[RunOwner], t)
    BY SoundOne, CallKinds DEF Begins, Commits
  <2>3. \A c \in Cands : task'[c] # "running"
    BY <1>5 DEF LoopCandidates
  <2> HIDE DEF t
  <2> QED BY <2>1, <2>2, <2>3, LoopStep DEF t
<1> QED BY <1>1, <1>2, <1>3, <1>4, <1>5, LoopNodeStep, AwaitStep DEF RunLoop

(***************************************************************************)
(* The candidate tasks.                                                    *)
(***************************************************************************)
\* While a candidate's task is between two nodes, none of its attempts is open.
LEMMA IdleTask ==
  ASSUME IInv, FlowInv, lock = "dispatch", NEW c \in Cands, task[c] \in {"queued", "running"},
         todo[c] = << >>
  PROVE  /\ Recorded(c, run.attempts[c]) /\ ~OpenIn(run.attempts[c])
         /\ todo[RunOwner] = << Await >> /\ c \in Owners /\ c # RunOwner
<1>1. todo[RunOwner] = << Await >> /\ OwnerInv(c) /\ c \in Owners /\ c # RunOwner
  BY OwnerFacts DEF FlowInv, TaskInv, Cands, RunOwner
<1>2. << Await >>[1].op = "Await" /\ << Fail >>[1].op = "Fail"
  BY CallKinds
<1>3. << Await >> # << Fail >>
  BY <1>2
<1>4. Ending(run.attempts[c], << >>)
  BY <1>1, <1>3 DEF OwnerInv
<1>5. ~OpenIn(run.attempts[c])
  BY <1>4 DEF Ending
<1> QED BY <1>1, <1>5 DEF OwnerInv

\* The node the scheduler picks for a candidate may be recorded next.
LEMMA NextMayStart ==
  ASSUME IInv, NEW c \in Cands, Recorded(c, run.attempts[c]), ~OpenIn(run.attempts[c]),
         NextCandidateStep(run, c) # None
  PROVE  MayStart(c, run.attempts[c], NextCandidateStep(run, c))
<1> DEFINE hs == run.attempts[c]
           node == NextCandidateStep(run, c)
           a == LastOf(hs)
<1>0. hs \in Seq(Attempt) /\ c # RunOwner
  BY OwnerFacts DEF IInv, RunInv, Projection, Cands, RunOwner
<1>1. CASE hs = << >>
  <2>1. node = "Implement"
    BY <1>1 DEF NextCandidateStep
  <2> QED BY <1>0, <1>1, <2>1 DEF MayStart, CandidateNodes
<1>2. CASE hs # << >>
  <2>1. a \in Attempt /\ Len(hs) \in DOMAIN hs
    BY <1>0, <1>2 DEF LastOf
  <2>2. node = AfterAttempt(a)
    BY <1>2 DEF NextCandidateStep, LastOf
  <2>3. a.status # "Started" /\ ValidResult(a.node, a.next) /\ a.node \in CandidateNodes
    BY <1>2, <2>1 DEF OpenIn, Recorded, LastOf
  <2> HIDE DEF a, hs, node
  <2>4. CASE a.status = "Interrupted"
    <3>1. node = a.node
      BY <2>2, <2>4 DEF AfterAttempt
    <3> QED BY <1>0, <1>2, <2>3, <2>4, <3>1 DEF MayStart, Leads, hs, a, node
  <2>5. CASE a.status # "Interrupted"
    <3>1. a.status \in {"Succeeded", "Failed"} /\ a.next # "Join" /\ node = a.next
      BY <2>2, <2>3, <2>5 DEF AfterAttempt, node
    <3>2. a.next \in AllowedSuccessors[a.node]
      BY <2>3, <3>1 DEF ValidResult, node
    <3>3. a.next \in CandidateNodes
      BY <2>3, <3>1, <3>2 DEF AllowedSuccessors, CandidateNodes, Nodes
    <3> QED BY <1>0, <1>2, <2>5, <3>1, <3>2, <3>3 DEF MayStart, Leads, hs, a, node
  <2> QED BY <2>4, <2>5
<1> QED BY <1>1, <1>2

LEMMA CandidatesStep ==
  ASSUME IInv, FlowInv, Candidates
  PROVE  FlowInv'
<1>1. ASSUME NEW c \in Cands, NEW state \in {"running", "done"},
             lock = "dispatch", task[c] \in {"queued", "running"}, todo[c] = << >>,
             task' = [task EXCEPT ![c] = state], UNCHANGED << run, lock, todo, pending >>
      PROVE  FlowInv'
  <2>1. /\ Recorded(c, run.attempts[c]) /\ ~OpenIn(run.attempts[c])
        /\ todo[RunOwner] = << Await >> /\ c \in Owners
    BY <1>1, IdleTask
  <2>2. task'[c] = state /\ \A d \in Cands : d # c => task'[d] = task[d]
    BY <1>1 DEF IInv
  <2>3. TaskInv'
    BY <1>1, <2>1, <2>2 DEF FlowInv, TaskInv
  <2>4. ASSUME NEW o \in Owners
        PROVE  OwnerInv(o)'
    <3>1. OwnerInv(o)
      BY DEF FlowInv
    <3>2. CASE o = c
      <4>1. Ending(run.attempts[c], << >>)
        BY <2>1 DEF Ending
      <4> QED BY <1>1, <3>1, <3>2, <4>1 DEF OwnerInv
    <3>3. CASE o # c
      BY <1>1, <2>2, <3>1, <3>3 DEF OwnerInv
    <3> QED BY <3>2, <3>3
  <2> QED BY <2>3, <2>4 DEF FlowInv
<1>2. ASSUME NEW c \in Cands, AcquirePermit(c)
      PROVE  FlowInv'
  <2>1. /\ lock = "dispatch" /\ task[c] = "queued" /\ task' = [task EXCEPT ![c] = "running"]
        /\ UNCHANGED << run, lock, todo, pending >>
    BY <1>2 DEF AcquirePermit, KeepsOutside
  <2>2. todo[c] = << >>
    BY <2>1 DEF FlowInv, TaskInv
  <2> QED BY <1>1, <2>1, <2>2
<1>3. ASSUME NEW c \in Cands, DriveCandidate(c)
      PROVE  FlowInv'
  <2> DEFINE node == NextCandidateStep(run, c)
             hs == run.attempts[c]
             pre == Only(CandidateStatusForNode[node] # None, SetCand(c, CandidateStatusForNode[node]))
             t == pre \o << Start(node) >>
  <2>1. /\ lock = "dispatch" /\ task[c] = "running" /\ todo[c] = << >>
        /\ UNCHANGED << run, lock, pending >>
    BY <1>3 DEF DriveCandidate, Runnable, KeepsOutside, Cands, RunOwner
  <2>2. CASE node = None
    <3>1. task' = [task EXCEPT ![c] = "done"] /\ UNCHANGED todo
      BY <1>3, <2>2 DEF DriveCandidate
    <3> QED BY <1>1, <2>1, <3>1
  <2>3. CASE node # None
    <3>1. todo' = [todo EXCEPT ![c] = t] /\ UNCHANGED task
      BY <1>3, <2>3 DEF DriveCandidate, CandidateCalls
    <3>2. /\ Recorded(c, hs) /\ ~OpenIn(hs) /\ todo[RunOwner] = << Await >>
          /\ c \in Owners /\ c # RunOwner
      BY <2>1, IdleTask
    <3>3. MayStart(c, hs, node)
      BY <2>3, <3>2, NextMayStart
    <3>4. node \in Nodes
      BY <3>3, NodeNames DEF MayStart
    <3> HIDE DEF node
    <3>5. CandidateStatusForNode[node] \in CandidateStatus \cup {None}
      BY <3>4 DEF CandidateStatusForNode, CandidateStatus
    <3>6. pre \in Seq(SimpleOp)
      BY <3>5, SimpleOps, SimpleSeqs
    <3> HIDE DEF pre, hs
    <3>7. Sound(c, hs, t) /\ ~Begins(t[1])
      BY <3>3, <3>4, <3>6, SoundStart
    <3> HIDE DEF t
    <3>8. Ending(hs, t)
      BY <3>2, <3>7 DEF Ending
    <3>9. todo'[c] = t /\ \A o \in Owners : o # c => todo'[o] = todo[o]
      BY <3>1, <3>2 DEF IInv
    <3>10. TaskInv'
      <4>1. todo'[RunOwner] = todo[RunOwner]
        BY <3>2, <3>9, OwnerFacts
      <4>2. ASSUME NEW d \in Cands
            PROVE  task[d] # "running" => todo'[d] = << >>
        BY <2>1, <3>9, OwnerFacts DEF FlowInv, TaskInv
      <4> QED BY <2>1, <3>1, <4>1, <4>2 DEF FlowInv, TaskInv
    <3>11. ASSUME NEW o \in Owners
           PROVE  OwnerInv(o)'
      <4>1. OwnerInv(o)
        BY DEF FlowInv
      <4>2. CASE o = c
        BY <2>1, <3>2, <3>7, <3>8, <3>9, <4>2 DEF OwnerInv, hs
      <4>3. CASE o # c
        BY <2>1, <3>1, <3>2, <3>9, <4>1, <4>3, OwnerFacts DEF OwnerInv
      <4> QED BY <4>2, <4>3
    <3> QED BY <3>10, <3>11 DEF FlowInv
  <2> QED BY <2>2, <2>3
<1> QED BY <1>2, <1>3 DEF Candidates

(***************************************************************************)
(* Recovery, requests and the start of a dispatch.                         *)
(***************************************************************************)
\* Every pending request keeps the lock to itself, and appends no event of an attempt.
RequestsOK(ps, l) ==
  \A r \in ps :
    /\ r.held => l = "service" /\ \A q \in ps : q.held => q = r
    /\ \A i \in DOMAIN r.events : r.events[i].kind \in RequestKindsOfEvents

LEMMA Requests == TaskInv => RequestsOK(pending, lock)
  BY DEF TaskInv, RequestsOK

\* Outside the run loop nothing is left to do, and the attempts are as they should be.
LEMMA QuietStep ==
  ASSUME IInv, FlowInv, lock # "dispatch", UNCHANGED << task, todo >>,
         \A o \in Owners : Recorded(o, run'.attempts[o]),
         lock' = "dispatch" => \A o \in Owners : ~OpenIn(run'.attempts[o]),
         RequestsOK(pending', lock')
  PROVE  FlowInv'
<1>1. (\A o \in Owners : todo'[o] = << >>) /\ (\A c \in Cands : task'[c] = "none")
  BY DEF FlowInv, TaskInv
<1>2. TaskInv'
  BY <1>1, OwnerFacts DEF TaskInv, RequestsOK
<1>3. ASSUME NEW o \in Owners
      PROVE  OwnerInv(o)'
  BY <1>1, SoundEmpty DEF OwnerInv, Ending
<1> QED BY <1>2, <1>3 DEF FlowInv

LEMMA RecoveryStep ==
  ASSUME IInv, FlowInv, Recovery
  PROVE  FlowInv'
<1>a. /\ RequestsOK(pending, lock) /\ run \in Projection /\ UniqueAttempts(run)
      /\ \A o \in Owners : Recorded(o, run.attempts[o])
  BY Requests DEF FlowInv, OwnerInv, IInv, RunInv
<1>1. ASSUME NEW o \in Owners, NEW i \in OpenAttempts(run, o), RecoverAttempt(o, i)
      PROVE  FlowInv'
  <2> DEFINE hs == run.attempts[o]
             bs == run'.attempts[o]
             e == NodeClosed(o, hs[i].node, hs[i].number, "Interrupted", None, 0)
  <2>1. /\ CommitEvent(e) /\ lock = "recovering" /\ UNCHANGED << lock, task, todo, pending >>
    BY <1>1 DEF RecoverAttempt, KeepsOutside
  <2>2. hs \in Seq(Attempt) /\ i \in DOMAIN hs /\ hs[i] \in Attempt /\ hs[i].status = "Started"
    BY <1>a DEF Projection, OpenAttempts
  <2>3. hs[i].node \in Nodes /\ hs[i].number \in Nat
    BY <2>2 DEF Attempt
  <2>4. e \in PlannedEvent /\ e \in Event
    BY <2>3, PlannedEvents DEF AttemptStatus, PlannedEvent
  <2>5. e.kind = "NodeClosed" /\ e.owner = o /\ e.node = hs[i].node /\ e.number = hs[i].number
        /\ e.next = None
    BY DEF NodeClosed
  <2>6. i = Len(hs) /\ hs # << >>
    BY <1>a, <2>2 DEF Recorded
  <2>7. OpenIn(hs) /\ IsAttempt(LastOf(hs), e.node, e.number) /\ ValidResult(e.node, e.next)
    BY <2>2, <2>5, <2>6 DEF OpenIn, LastOf, IsAttempt, ValidResult
  <2>8. \A p \in Owners : p # o => run'.attempts[p] = run.attempts[p]
    BY <2>1, <2>4, <2>5, CommitAttempts
  <2>9. Recorded(o, bs)
    <3>1. CASE run' = run
      BY <1>a, <3>1
    <3>2. CASE run' = Reduce(run, e)
      <4>1. bs = [k \in DOMAIN hs |-> CloseAttempt(hs[k], e)]
        BY <1>a, <2>4, <2>5, <3>2, ClosedAttempts
      <4>2. \A k, j \in DOMAIN hs : IsAttempt(hs[k], hs[j].node, hs[j].number) => k = j
        BY <1>a DEF UniqueAttempts
      <4>3. Recorded(o, hs)
        BY <1>a
      <4> HIDE DEF hs, bs, e
      <4> QED BY <2>2, <2>4, <2>5, <2>7, <4>1, <4>2, <4>3, RecordedClose
    <3> QED BY <2>1, <3>1, <3>2 DEF CommitEvent
  <2>10. \A p \in Owners : Recorded(p, run'.attempts[p])
    BY <1>a, <2>8, <2>9
  <2> QED BY <1>a, <2>1, <2>10, QuietStep
<1>2. ASSUME NEW c \in Cands, RecoverCandidate(c)
      PROVE  FlowInv'
  <2>1. lock = "recovering" /\ UNCHANGED << lock, task, todo, pending >>
    BY <1>2 DEF RecoverCandidate, KeepsOutside
  <2>2. run'.attempts = run.attempts
    <3> DEFINE from == run.cands[c].status
               e == CandidateStatusChanged(c, from, "Interrupted")
    <3>1. CASE Interruptible(from)
      <4>1. from \in CandidateStatus /\ "Interrupted" \in CandidateStatus
        BY <1>a, <3>1 DEF Interruptible, Projection, CandidateRecord, CandidateStatus
      <4>2. e \in PlannedEvent /\ e.kind = "CandidateStatusChanged"
        BY <4>1, PlannedEvents DEF CandidateStatusChanged
      <4>3. CommitEvent(e)
        BY <1>2, <3>1 DEF RecoverCandidate
      <4> QED BY <4>2, <4>3, CommitAttempts
    <3>2. CASE ~Interruptible(from)
      BY <1>2, <3>2 DEF RecoverCandidate
    <3> QED BY <3>1, <3>2
  <2> QED BY <1>a, <2>1, <2>2, QuietStep
<1>3. CASE RecoverDone
  <2>1. /\ lock = "recovering" /\ lock' = "dispatch" /\ UNCHANGED << run, task, todo, pending >>
        /\ \A o \in Owners : OpenAttempts(run, o) = {}
    BY <1>3 DEF RecoverDone, KeepsOutside
  <2>2. ASSUME NEW o \in Owners
        PROVE  ~OpenIn(run.attempts[o])
    <3>1. run.attempts[o] \in Seq(Attempt) /\ OpenAttempts(run, o) = {}
      BY <1>a, <2>1 DEF Projection
    <3> QED BY <3>1 DEF OpenIn, LastOf, OpenAttempts
  <2>3. RequestsOK(pending', lock')
    BY <1>a, <2>1 DEF RequestsOK
  <2> QED BY <1>a, <2>1, <2>2, <2>3, QuietStep
<1> QED BY <1>1, <1>2, <1>3 DEF Recovery

\* The requests change and nothing else.
LEMMA RequestStep ==
  ASSUME FlowInv, UNCHANGED << run, lock, task, todo >>, RequestsOK(pending', lock)
  PROVE  FlowInv'
<1>1. TaskInv'
  BY DEF FlowInv, TaskInv, RequestsOK
<1>2. ASSUME NEW o \in Owners
      PROVE  OwnerInv(o)'
  BY DEF FlowInv, OwnerInv
<1> QED BY <1>1, <1>2 DEF FlowInv

LEMMA SubmitStep ==
  ASSUME IInv, FlowInv, NEW events, NEW finalise, Submit(events, finalise),
         \A i \in DOMAIN events : events[i].kind \in RequestKindsOfEvents
  PROVE  FlowInv'
<1> DEFINE new == [events |-> events, held |-> FALSE, finalise |-> finalise]
<1>1. pending' = pending \cup {new} /\ UNCHANGED << run, lock, task, todo >>
  BY DEF Submit
<1>2. ~new.held /\ new.events = events
  OBVIOUS
<1>3. RequestsOK(pending, lock)
  BY Requests DEF FlowInv
<1> HIDE DEF new
<1>4. RequestsOK(pending', lock)
  BY <1>1, <1>2, <1>3 DEF RequestsOK
<1> QED BY <1>1, <1>4, RequestStep

LEMMA ServiceAppendStep ==
  ASSUME IInv, FlowInv, NEW r \in pending, ServiceAppend(r)
  PROVE  FlowInv'
<1>1. /\ r.events # << >> /\ (lock = "free" \/ r.held) /\ CommitEvent(Head(r.events))
      /\ UNCHANGED << task, todo >>
  BY DEF ServiceAppend
<1>2. RequestsOK(pending, lock)
  BY Requests DEF FlowInv
<1>3. r \in Request /\ r.events \in Seq(PlannedEvent) /\ 1 \in DOMAIN r.events
      /\ Head(r.events) = r.events[1] /\ Head(r.events) \in PlannedEvent
  <2>1. r \in Request /\ r.events \in Seq(PlannedEvent)
    BY DEF IInv, PlannedRequest
  <2> QED BY <1>1, <2>1
<1>4. Head(r.events).kind \notin {"NodeStarted", "NodeClosed"}
  BY <1>2, <1>3 DEF RequestsOK, RequestKindsOfEvents
<1>5. run'.attempts = run.attempts
  BY <1>1, <1>3, <1>4, CommitAttempts
<1>6. lock # "dispatch" /\ lock' # "dispatch"
  BY <1>1, <1>2 DEF RequestsOK, ServiceAppend
<1>7. \A q \in pending : q # r => ~q.held
  BY <1>1, <1>2 DEF RequestsOK
<1>8. RequestsOK(pending', lock')
  <2> DEFINE one == [r EXCEPT !.events = Tail(r.events), !.held = TRUE]
             two == [r EXCEPT !.events = << >>, !.held = FALSE]
  <2>1. one.held /\ one.events = Tail(r.events) /\ ~two.held /\ two.events = << >>
    BY <1>3 DEF Request
  <2>2. \A i \in DOMAIN one.events : one.events[i].kind \in RequestKindsOfEvents
    <3>1. ASSUME NEW i \in DOMAIN Tail(r.events)
          PROVE  i + 1 \in DOMAIN r.events /\ Tail(r.events)[i] = r.events[i + 1]
      BY <1>1, <1>3
    <3> QED BY <1>2, <2>1, <3>1 DEF RequestsOK
  <2>3. CASE ~poisoned' /\ Len(r.events) > 1
    <3>1. pending' = (pending \ {r}) \cup {one} /\ lock' = "service"
      BY <2>3 DEF ServiceAppend, Served
    <3> HIDE DEF one
    <3> QED BY <1>2, <1>7, <2>1, <2>2, <3>1 DEF RequestsOK
  <2>4. CASE ~(~poisoned' /\ Len(r.events) > 1)
    <3>1. pending' = pending \ {r} \/ pending' = (pending \ {r}) \cup {two}
      BY <2>4 DEF ServiceAppend, Served
    <3>2. DOMAIN two.events = {}
      BY <2>1
    <3> HIDE DEF two
    <3> QED BY <1>2, <1>7, <2>1, <3>1, <3>2 DEF RequestsOK
  <2> QED BY <2>3, <2>4
<1>9. \A o \in Owners : Recorded(o, run'.attempts[o])
  BY <1>5 DEF FlowInv, OwnerInv
<1> QED BY <1>1, <1>6, <1>8, <1>9, QuietStep

LEMMA ServiceStep ==
  ASSUME IInv, FlowInv, Service
  PROVE  FlowInv'
<1>0. \A x : DOMAIN << x >> = {1} /\ << x >>[1] = x
  OBVIOUS
<1>a. RequestsOK(pending, lock)
  BY Requests DEF FlowInv
<1>1. ASSUME NEW hash \in Hashes, UpdatePlan(hash)
      PROVE  FlowInv'
  <2> DEFINE version == NextVersionNumber(run)
             x == PlanApprovalInvalidated
             y == PlanVersionWritten(version, hash)
  <2>1. Submit(UpdateEvents(version, hash), FALSE)
    BY <1>1 DEF UpdatePlan
  <2>2. x.kind \in RequestKindsOfEvents /\ y.kind \in RequestKindsOfEvents
    BY DEF PlanApprovalInvalidated, PlanVersionWritten, RequestKindsOfEvents
  <2>3. UpdateEvents(version, hash) = << x, y >> \/ UpdateEvents(version, hash) = << y >>
    <3>1. \/ UpdateEvents(version, hash) = << x >> \o << y >>
          \/ UpdateEvents(version, hash) = << >> \o << y >>
      BY DEF UpdateEvents
    <3>2. << x >> \o << y >> = << x, y >>
      BY Tuples
    <3>3. << >> \o << y >> = << y >>
      <4>1. << y >> \in Seq({y})
        OBVIOUS
      <4> QED BY <4>1, ConcatEmptySeq
    <3> QED BY <3>1, <3>2, <3>3
  <2> HIDE DEF x, y
  <2>4. \A i \in DOMAIN UpdateEvents(version, hash) :
          UpdateEvents(version, hash)[i].kind \in RequestKindsOfEvents
    <3>1. /\ DOMAIN << x, y >> = {1, 2} /\ << x, y >>[1] = x /\ << x, y >>[2] = y
      OBVIOUS
    <3> QED BY <1>0, <2>2, <2>3, <3>1
  <2> QED BY <2>1, <2>4, SubmitStep
<1>2. ASSUME NEW e, NEW finalise, e.kind \in RequestKindsOfEvents, Submit(<< e >>, finalise)
      PROVE  FlowInv'
  <2>1. \A i \in DOMAIN << e >> : << e >>[i].kind \in RequestKindsOfEvents
    BY <1>0, <1>2
  <2> QED BY <1>2, <2>1, SubmitStep
<1>3. ASSUME NEW kind, NEW decision, DecidePlan(kind, decision)
      PROVE  FlowInv'
  <2> DEFINE e == PlanDecisionRecorded(decision, CurrentPlan(run).version, CurrentPlan(run).hash)
  <2>1. e.kind \in RequestKindsOfEvents
    BY DEF PlanDecisionRecorded, RequestKindsOfEvents
  <2>2. Submit(<< e >>, FALSE)
    BY <1>3 DEF DecidePlan
  <2> HIDE DEF e
  <2> QED BY <1>2, <2>1, <2>2
<1>4. CASE ApproveCommit
  <2>1. CommitApprovalRecorded.kind \in RequestKindsOfEvents
    BY DEF CommitApprovalRecorded, RequestKindsOfEvents
  <2> QED BY <1>2, <1>4, <2>1 DEF ApproveCommit
<1>5. ASSUME NEW signalled \in BOOLEAN, Cancel(signalled)
      PROVE  FlowInv'
  <2>1. CancellationRequested.kind \in RequestKindsOfEvents
    BY DEF CancellationRequested, RequestKindsOfEvents
  <2> QED BY <1>2, <1>5, <2>1 DEF Cancel
<1>6. ASSUME NEW r \in pending, RequestTimeout(r)
      PROVE  FlowInv'
  <2>1. pending' = pending \ {r} /\ UNCHANGED << run, lock, task, todo >>
    BY <1>6 DEF RequestTimeout
  <2>2. RequestsOK(pending', lock)
    BY <1>a, <2>1 DEF RequestsOK
  <2> QED BY <2>1, <2>2, RequestStep
<1>7. ASSUME NEW r \in pending, RequestKilled(r)
      PROVE  FlowInv'
  <2>1. pending' = pending \ {r} /\ UNCHANGED << run, task, todo >>
        /\ lock' = IF r.held THEN "free" ELSE lock
    BY <1>7 DEF RequestKilled
  <2>2. CASE ~r.held
    <3>1. RequestsOK(pending', lock)
      BY <1>a, <2>1 DEF RequestsOK
    <3> QED BY <2>1, <2>2, <3>1, RequestStep
  <2>3. CASE r.held
    <3>1. lock # "dispatch" /\ lock' # "dispatch" /\ RequestsOK(pending', lock')
      BY <1>a, <2>1, <2>3 DEF RequestsOK
    <3>2. \A o \in Owners : Recorded(o, run'.attempts[o])
      BY <2>1 DEF FlowInv, OwnerInv
    <3> QED BY <2>1, <3>1, <3>2, QuietStep
  <2> QED BY <2>2, <2>3
<1> QED BY <1>1, <1>3, <1>4, <1>5, <1>6, <1>7, ServiceAppendStep DEF Service

LEMMA DispatchStep ==
  ASSUME IInv, FlowInv, Dispatch \/ DispatchRefused
                        \/ \E r \in pending : FinaliseCancel(r) \/ CancelAlreadyFinal(r)
  PROVE  FlowInv'
<1>a. RequestsOK(pending, lock) /\ \A o \in Owners : Recorded(o, run.attempts[o])
  BY Requests DEF FlowInv, OwnerInv
<1>1. ASSUME NEW signalled, BeginDispatch(signalled), pending' \subseteq pending
      PROVE  FlowInv'
  <2>1. lock = "free" /\ lock' = "recovering" /\ UNCHANGED << run, task, todo >>
    BY <1>1 DEF BeginDispatch
  <2>2. RequestsOK(pending', lock')
    BY <1>1, <1>a, <2>1 DEF RequestsOK
  <2> QED BY <1>a, <2>1, <2>2, QuietStep
<1>2. CASE Dispatch
  BY <1>1, <1>2 DEF Dispatch
<1>3. CASE DispatchRefused
  BY <1>3, <1>a, RequestStep DEF DispatchRefused
<1>4. ASSUME NEW r \in pending, FinaliseCancel(r)
      PROVE  FlowInv'
  BY <1>1, <1>4 DEF FinaliseCancel
<1>5. ASSUME NEW r \in pending, CancelAlreadyFinal(r)
      PROVE  FlowInv'
  <2>1. pending' = pending \ {r} /\ UNCHANGED << run, lock, task, todo >>
    BY <1>5 DEF CancelAlreadyFinal
  <2>2. RequestsOK(pending', lock)
    BY <1>a, <2>1 DEF RequestsOK
  <2> QED BY <2>1, <2>2, RequestStep
<1> QED BY <1>2, <1>3, <1>4, <1>5

(***************************************************************************)
(* The theorems.                                                           *)
(***************************************************************************)
LEMMA InitFlow ==
  ASSUME Init
  PROVE  FlowInv
<1>1. /\ lock = "free" /\ pending = {} /\ \A c \in Cands : task[c] = "none"
      /\ \A o \in Owners : todo[o] = << >> /\ run.attempts[o] = << >>
  BY DEF Init, Genesis
<1>2. TaskInv
  BY <1>1, OwnerFacts DEF TaskInv
<1>3. ASSUME NEW o \in Owners
      PROVE  OwnerInv(o)
  BY <1>1, SoundEmpty DEF OwnerInv, Recorded
<1> QED BY <1>2, <1>3 DEF FlowInv

LEMMA NextFlow ==
  ASSUME IInv, FlowInv, Next
  PROVE  FlowInv'
<1>1. CASE Calls
  BY <1>1, ReadStep, CommitStepFlow, StartStep, EndsStep DEF Calls
<1>2. CASE Progress
  BY <1>1, <1>2, RecoveryStep, RunLoopStep, CandidatesStep, NodeBodyStep DEF Progress
<1>3. CASE Crash
  <2>1. lock \in {"recovering", "dispatch"} /\ EndDispatch("Crashed") /\ UNCHANGED << run, pending >>
    BY <1>3 DEF Crash, Dispatching
  <2> QED BY <2>1, EndStep
<1> QED BY <1>2, <1>3, DispatchStep, ServiceStep DEF Next

LEMMA StutterFlow ==
  ASSUME FlowInv, UNCHANGED vars
  PROVE  FlowInv'
<1>1. UNCHANGED << run, lock, task, todo, pending >>
  BY DEF vars
<1> QED BY <1>1, UnmovedFlow

\* The calls a task has still to make and the attempts its owner has recorded always
\* go together: a call that opens, edits for or closes an attempt is planned only while
\* the attempt it means is the one to open or the one open, and a dispatch that runs
\* will close whatever is open (execute_node, finalise_attempt, recover).
THEOREM FlowInvariant == Spec => []FlowInv
<1>1. Init => FlowInv
  BY InitFlow
<1>2. IInv /\ FlowInv /\ [Next]_vars => FlowInv'
  BY NextFlow, StutterFlow
<1> QED BY <1>1, <1>2, InductiveInvariant, PTL DEF Spec

\* For any number of candidates and permits and any crashes and requests: when an
\* attempt is recorded, every earlier attempt of its owner has been closed
\* (execute_node, recover).
THEOREM AttemptsOneAtATime == Spec => []OneAttemptAtATime
<1>1. FlowInv => OneAttemptAtATime
  BY DEF FlowInv, OwnerInv, Recorded, OneAttemptAtATime, OpenAttempts
<1> QED BY <1>1, FlowInvariant, PTL

\* The attempts of every candidate are a path through the workflow graph, whatever
\* interrupts the candidate and however often it is resumed (next_candidate_step,
\* NodeResult::validate).
THEOREM HistoryFollowsGraph == Spec => []HistoryIsPath
<1>1. IInv /\ FlowInv => HistoryIsPath
  <2> SUFFICES ASSUME IInv, FlowInv, NEW c \in Cands, NEW i \in 1..(Len(run.attempts[c]) - 1)
               PROVE  FollowsGraph(run.attempts[c][i], run.attempts[c][i + 1])
    BY DEF HistoryIsPath
  <2>1. run.attempts[c] \in Seq(Attempt) /\ Recorded(c, run.attempts[c])
    BY OwnerFacts DEF IInv, RunInv, Projection, FlowInv, OwnerInv
  <2>2. i \in DOMAIN run.attempts[c] /\ i < Len(run.attempts[c])
    BY <2>1
  <2> QED BY <2>1, <2>2 DEF Recorded
<1> QED BY <1>1, InductiveInvariant, FlowInvariant, PTL
===============================================================================
