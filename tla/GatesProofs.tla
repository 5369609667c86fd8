----------------------------- MODULE GatesProofs -----------------------------
(***************************************************************************)
(* Proofs about the configuration of a run, and about the gates of a       *)
(* candidate under any configuration.                                      *)
(***************************************************************************)
EXTENDS GatesProperties, TLAPS

(***************************************************************************)
(* The rules.                                                              *)
(***************************************************************************)
TightenSet ==
  {"candidates", "max_parallel_candidates", "max_repairs", "wall_clock", "max_output",
   "require_clean", "max_turns", "agent_timeout", "network", "profile",
   "minimum_line_coverage", "protect_tests", "scanner_enabled", "scanner_wait", "mcp_enabled",
   "advisory_only", "redact_home"}
OwnerSet ==
  {"commit_policy", "model", "endpoint", "api_key", "executable", "extra_arguments",
   "scanner_host", "scanner_token", "mcp_token", "branch_prefix", "author_name",
   "include_dirty"}
TrustSet ==
  {"driver", "fixture_script", "scanner_program", "scanner_arguments", "mcp_program",
   "mcp_arguments", "commands"}
FreeSet == {"scanner_project", "scanner_timeout", "mcp_project", "mcp_timeout", "ai_enabled"}
ListSet == {"gate_rules", "protected_paths", "sensitive_paths", "secret_variables", "patterns"}
LimitSet == {"max_read", "max_write"}

\* Each setting stands under one rule.
LEMMA GatedSections ==
  Gated = Under("tighten", TightenSet) \cup Under("owner", OwnerSet)
          \cup Under("trust", TrustSet) \cup Under("free", FreeSet) \cup Under("list", ListSet)
          \cup Under("limit", LimitSet) \cup Under("allowlist", {"allowlist"})
<1>1. \A r, A, B : Under(r, A) \cup Under(r, B) = Under(r, A \cup B)
  BY DEF Under
<1> QED
  BY DEF Gated, RunSection, AgentSection, QualitySection, ScannerSection, McpSection, AiSection,
         GitSection, PolicySection, RedactionSection, EnvironmentSection, CommandsSection,
         Under, TightenSet, OwnerSet, TrustSet, FreeSet, ListSet, LimitSet

LEMMA GatedPairs ==
  ASSUME NEW r, NEW s
  PROVE  << r, s >> \in Gated <=>
           \/ r = "tighten" /\ s \in TightenSet
           \/ r = "owner" /\ s \in OwnerSet
           \/ r = "trust" /\ s \in TrustSet
           \/ r = "free" /\ s \in FreeSet
           \/ r = "list" /\ s \in ListSet
           \/ r = "limit" /\ s \in LimitSet
           \/ r = "allowlist" /\ s = "allowlist"
BY GatedSections DEF Under

LEMMA SettingsFacts ==
  Settings = TightenSet \cup OwnerSet \cup TrustSet \cup FreeSet \cup ListSet \cup LimitSet
             \cup {"allowlist"}
<1> DEFINE all == TightenSet \cup OwnerSet \cup TrustSet \cup FreeSet \cup ListSet \cup LimitSet
                  \cup {"allowlist"}
<1>1. ASSUME NEW g \in Gated PROVE g[2] \in all
  BY GatedSections DEF Under
<1>2. ASSUME NEW s \in all PROVE \E r : << r, s >> \in Gated
  BY GatedPairs
<1>3. \A r, s : << r, s >>[2] = s
  OBVIOUS
<1> HIDE DEF all
<1>4. ASSUME NEW s \in all PROVE s \in Settings
  <2>1. PICK r : << r, s >> \in Gated
    BY <1>2
  <2> QED BY <2>1, <1>3 DEF Settings
<1>5. Settings = all
  BY <1>1, <1>4 DEF Settings
<1> QED BY <1>5 DEF all

LEMMA RuleFacts ==
  ASSUME NEW s \in Settings
  PROVE  << Rule[s], s >> \in Gated
<1>1. \E r \in Rules : << r, s >> \in Gated
  BY SettingsFacts, GatedPairs DEF Rules
<1>2. Rule[s] = CHOOSE r \in Rules : << r, s >> \in Gated
  BY DEF Rule
<1> QED BY <1>1, <1>2

LEMMA RuleOf ==
  ASSUME NEW s \in Settings
  PROVE  /\ Rule[s] \in Rules
         /\ Rule[s] = "allowlist" <=> s = "allowlist"
         /\ s = "commands" => Rule[s] = "trust"
         /\ s = "minimum_line_coverage" => Rule[s] = "tighten"
         /\ s \in RenderedSettings => Rule[s] \in {"owner", "trust", "tighten", "list"}
<1>1. \/ Rule[s] = "tighten" /\ s \in TightenSet
      \/ Rule[s] = "owner" /\ s \in OwnerSet
      \/ Rule[s] = "trust" /\ s \in TrustSet
      \/ Rule[s] = "free" /\ s \in FreeSet
      \/ Rule[s] = "list" /\ s \in ListSet
      \/ Rule[s] = "limit" /\ s \in LimitSet
      \/ Rule[s] = "allowlist" /\ s = "allowlist"
  BY RuleFacts, GatedPairs
<1>2. Rule[s] \in Rules
  BY <1>1 DEF Rules
<1>3. Rule[s] = "allowlist" <=> s = "allowlist"
  BY <1>1 DEF TightenSet, OwnerSet, TrustSet, FreeSet, ListSet, LimitSet
<1>4. s = "commands" => Rule[s] = "trust"
  BY <1>1 DEF TightenSet, OwnerSet, TrustSet, FreeSet, ListSet, LimitSet
<1>5. s = "minimum_line_coverage" => Rule[s] = "tighten"
  BY <1>1 DEF TightenSet, OwnerSet, TrustSet, FreeSet, ListSet, LimitSet
<1>6. s \in RenderedSettings => Rule[s] \in {"owner", "trust", "tighten", "list"}
  BY <1>1 DEF RenderedSettings, FreeSet, LimitSet
<1> QED BY <1>2, <1>3, <1>4, <1>5, <1>6

LEMMA KnownSettings ==
  /\ {"commands", "allowlist", "minimum_line_coverage"} \subseteq Settings
  /\ RenderedSettings \subseteq Settings
BY SettingsFacts DEF TightenSet, OwnerSet, TrustSet, ListSet, RenderedSettings

(***************************************************************************)
(* Configurations.                                                         *)
(***************************************************************************)
IsConfig(c) ==
  /\ c = [s \in Settings |-> c[s]]
  /\ \A s \in Levels : c[s] \in Int
  /\ c["minimum_line_coverage"] <= Unset

\* What a repository may make of the owner's configuration u, trusted or not.
Tight(c, u) ==
  \A s \in Settings :
    /\ Rule[s] \in {"tighten", "limit"} => c[s] <= u[s]
    /\ Rule[s] = "list" => u[s] \subseteq c[s]
    /\ Rule[s] \in {"owner", "allowlist"} => c[s] = u[s]

LEMMA BaseIsConfig == IsConfig(BaseConfiguration)
<1>1. BaseConfiguration = [s \in Settings |-> BaseConfiguration[s]]
  BY DEF BaseConfiguration
<1>2. ASSUME NEW s \in Levels PROVE BaseConfiguration[s] \in Int
  <2>1. s \in Settings /\ Rule[s] \in {"tighten", "limit"}
    BY DEF Levels, Ruled
  <2>2. s # "allowlist" /\ s # "commands"
    BY <2>1, RuleOf
  <2> QED BY <2>1, <2>2 DEF BaseConfiguration, Unset
<1>3. BaseConfiguration["minimum_line_coverage"] = Unset
  <2>1. "minimum_line_coverage" \in Settings /\ Rule["minimum_line_coverage"] = "tighten"
    BY KnownSettings, RuleOf
  <2> QED BY <2>1 DEF BaseConfiguration
<1> QED BY <1>1, <1>2, <1>3 DEF IsConfig, Unset

LEMMA UserIsConfig ==
  ASSUME WellFormed(user)
  PROVE  IsConfig(UserConfiguration)
<1> DEFINE u == UserConfiguration
           Takes(s) == Declares(user, s)
<1>1. u = [s \in Settings |-> u[s]]
  BY DEF UserConfiguration, Apply
<1>2. ASSUME NEW s \in Settings, s # "allowlist"
      PROVE  u[s] = IF Declares(user, s) THEN user.declared[s] ELSE BaseConfiguration[s]
  BY <1>2 DEF UserConfiguration, Apply, Honours, Merged
<1>3. ASSUME NEW s \in Levels PROVE u[s] \in Int
  <2>1. s \in Settings /\ Rule[s] \in {"tighten", "limit"}
    BY DEF Levels, Ruled
  <2>2. s # "allowlist"
    BY <2>1, RuleOf
  <2>3. BaseConfiguration[s] \in Int
    BY BaseIsConfig DEF IsConfig
  <2>4. Declares(user, s) => user.declared[s] \in Int
    BY DEF WellFormed
  <2> QED BY <2>1, <2>2, <2>3, <2>4, <1>2
<1>4. u["minimum_line_coverage"] <= Unset
  <2> DEFINE s == "minimum_line_coverage"
  <2>1. s \in Settings /\ s \in Levels
    BY KnownSettings, RuleOf DEF Levels, Ruled
  <2>2. BaseConfiguration[s] <= Unset
    BY BaseIsConfig DEF IsConfig
  <2>3. Declares(user, s) => user.declared[s] \in Int /\ user.declared[s] < Unset
    BY <2>1 DEF WellFormed
  <2> QED BY <2>1, <2>2, <2>3, <1>2 DEF Unset
<1> QED BY <1>1, <1>3, <1>4 DEF IsConfig

\* What the repository's document makes of a setting.
LEMMA LayeredAt ==
  ASSUME NEW u, u = [s \in Settings |-> u[s]], NEW d, NEW t, NEW s \in Settings
  PROVE  LET c == Layered(u, d, t)
             v == d.declared[s]
         IN  /\ c = [x \in Settings |-> c[x]]
             /\ Declares(d, s) /\ Honours("repository", t, u, s, v) =>
                  c[s] = Merged("repository", u, s, v)
             /\ ~(Declares(d, s) /\ Honours("repository", t, u, s, v)) => c[s] = u[s]
<1>1. CASE d = NoDocument
  <2>1. ~Declares(d, s)
    BY <1>1 DEF Declares, NoDocument, Document
  <2>2. Layered(u, d, t) = u
    BY <1>1 DEF Layered
  <2> QED BY <2>1, <2>2
<1>2. CASE d # NoDocument
  <2>1. Layered(u, d, t) = Apply("repository", t, u, d)
    BY <1>2 DEF Layered
  <2> QED BY <2>1 DEF Apply
<1> QED BY <1>1, <1>2

\* The repository's document only tightens, and the result is a configuration.
LEMMA LayeredTight ==
  ASSUME NEW u, IsConfig(u), NEW d, WellFormed(d), NEW t
  PROVE  IsConfig(Layered(u, d, t)) /\ Tight(Layered(u, d, t), u)
<1> DEFINE c == Layered(u, d, t)
<1>1. u = [s \in Settings |-> u[s]] /\ "minimum_line_coverage" \in Settings
  BY KnownSettings DEF IsConfig
<1>2. ASSUME NEW s \in Settings
      PROVE  \/ c[s] = u[s]
             \/ /\ Declares(d, s) /\ Honours("repository", t, u, s, d.declared[s])
                /\ c[s] = Merged("repository", u, s, d.declared[s])
  BY <1>1, LayeredAt
<1>3. c = [s \in Settings |-> c[s]]
  BY <1>1, LayeredAt
<1> HIDE DEF c
<1>4. ASSUME NEW s \in Levels PROVE c[s] \in Int /\ u[s] \in Int /\ c[s] <= u[s]
  <2>1. s \in Settings /\ Rule[s] \in {"tighten", "limit"} /\ s # "allowlist" /\ u[s] \in Int
    BY RuleOf DEF Levels, Ruled, IsConfig
  <2>2. CASE c[s] = u[s]
    BY <2>1, <2>2
  <2>3. CASE /\ Declares(d, s) /\ Honours("repository", t, u, s, d.declared[s])
             /\ c[s] = Merged("repository", u, s, d.declared[s])
    <3>1. d.declared[s] \in Int
      BY <2>3 DEF WellFormed
    <3>2. CASE Rule[s] = "tighten"
      BY <2>1, <2>3, <3>1, <3>2 DEF Honours, Merged
    <3>3. CASE Rule[s] = "limit"
      <4>1. c[s] = Min({u[s], d.declared[s]})
        BY <2>1, <2>3, <3>3 DEF Merged
      <4>2. \A a, b \in Int : Min({a, b}) \in Int /\ Min({a, b}) <= a
        BY DEF Min
      <4> QED BY <4>1, <4>2, <3>1, <2>1
    <3> QED BY <2>1, <3>2, <3>3
  <2> QED BY <2>1, <2>2, <2>3, <1>2
<1>5. c["minimum_line_coverage"] <= Unset
  <2> DEFINE s == "minimum_line_coverage"
  <2>1. s \in Levels
    BY <1>1, RuleOf DEF Levels, Ruled
  <2>2. c[s] \in Int /\ u[s] \in Int /\ c[s] <= u[s] /\ u[s] <= Unset
    BY <2>1, <1>4 DEF IsConfig
  <2> QED BY <2>2 DEF Unset
<1>6. IsConfig(c)
  BY <1>3, <1>4, <1>5 DEF IsConfig
<1>7. ASSUME NEW s \in Settings
      PROVE  /\ Rule[s] \in {"tighten", "limit"} => c[s] <= u[s]
             /\ Rule[s] = "list" => u[s] \subseteq c[s]
             /\ Rule[s] \in {"owner", "allowlist"} => c[s] = u[s]
  <2>1. Rule[s] \in {"tighten", "limit"} => c[s] <= u[s]
    BY <1>4 DEF Levels, Ruled
  <2>2. Rule[s] = "list" => u[s] \subseteq c[s]
    <3> SUFFICES ASSUME Rule[s] = "list" PROVE u[s] \subseteq c[s]
      OBVIOUS
    <3>1. s # "allowlist"
      BY RuleOf
    <3>2. Merged("repository", u, s, d.declared[s]) = u[s] \cup d.declared[s]
      BY <3>1 DEF Merged
    <3>3. c[s] = u[s] \/ c[s] = u[s] \cup d.declared[s]
      BY <3>2, <1>2
    <3> QED BY <3>3
  <2>3. Rule[s] \in {"owner", "allowlist"} => c[s] = u[s]
    BY <1>2 DEF Honours
  <2> QED BY <2>1, <2>2, <2>3
<1> QED BY <1>6, <1>7 DEF Tight, c

\* The survey fills in commands and nothing else.
LEMMA SurveyedFacts ==
  ASSUME NEW c, IsConfig(c), NEW p
  PROVE  /\ IsConfig(Surveyed(c, p))
         /\ \A s \in Settings : s # "commands" => Surveyed(c, p)[s] = c[s]
         /\ Surveyed(c, p)["commands"] = IF c["commands"] = << >> THEN p ELSE c["commands"]
         /\ \A u : Tight(c, u) => Tight(Surveyed(c, p), u)
<1> DEFINE x == Surveyed(c, p)
<1>1. /\ c = [s \in Settings |-> c[s]] /\ "commands" \in Settings
      /\ "minimum_line_coverage" \in Settings /\ "minimum_line_coverage" # "commands"
  BY KnownSettings DEF IsConfig
<1>2. /\ x = [s \in Settings |-> x[s]]
      /\ \A s \in Settings : s # "commands" => x[s] = c[s]
      /\ x["commands"] = IF c["commands"] = << >> THEN p ELSE c["commands"]
  BY <1>1 DEF Surveyed
<1> HIDE DEF x
<1>3. \A s \in Settings : Rule[s] # "trust" => s # "commands"
  BY RuleOf
<1>4. IsConfig(x)
  BY <1>1, <1>2, <1>3 DEF IsConfig, Levels, Ruled
<1>5. ASSUME NEW u, Tight(c, u) PROVE Tight(x, u)
  BY <1>2, <1>3, <1>5 DEF Tight
<1> QED BY <1>2, <1>4, <1>5 DEF x

LEMMA RenderFacts ==
  ASSUME NEW c, IsConfig(c)
  PROVE  /\ WellFormed(Render(c))
         /\ \A s \in DOMAIN Render(c).declared :
              /\ s \in RenderedSettings /\ s \in Settings /\ Render(c).declared[s] = c[s]
              /\ s = "commands" => c[s] # << >>
<1> DEFINE d == Render(c)
<1>1. DOMAIN d.declared = RenderedOf(c) /\ \A s \in RenderedOf(c) : d.declared[s] = c[s]
  BY DEF Render, Document
<1>2. RenderedOf(c) \subseteq RenderedSettings /\ RenderedSettings \subseteq Settings
  BY KnownSettings DEF RenderedOf
<1>3. \A s \in RenderedOf(c) : s = "commands" => c[s] # << >>
  BY DEF RenderedOf
<1> HIDE DEF d
<1>4. Declares(d, "minimum_line_coverage") => d.declared["minimum_line_coverage"] < Unset
  <2> SUFFICES ASSUME Declares(d, "minimum_line_coverage")
               PROVE  d.declared["minimum_line_coverage"] < Unset
    OBVIOUS
  <2> DEFINE s == "minimum_line_coverage"
  <2>1. s \in RenderedOf(c) /\ d.declared[s] = c[s]
    BY <1>1 DEF Declares
  <2>2. c[s] # Unset
    BY <2>1 DEF RenderedOf
  <2>3. c[s] \in Int /\ c[s] <= Unset
    BY KnownSettings, RuleOf DEF IsConfig, Levels, Ruled
  <2> QED BY <2>1, <2>2, <2>3 DEF Unset
<1>5. \A s \in Levels : Declares(d, s) => d.declared[s] \in Int
  BY <1>1 DEF IsConfig, Declares
<1>6. WellFormed(d)
  BY <1>1, <1>2, <1>4, <1>5 DEF WellFormed
<1> QED BY <1>1, <1>2, <1>3, <1>6 DEF d

(***************************************************************************)
(* The inductive invariant.                                                *)
(***************************************************************************)
Shape ==
  /\ resolution = [pc |-> resolution.pc, request |-> resolution.request,
                   bytes |-> resolution.bytes, trusted |-> resolution.trusted,
                   effective |-> resolution.effective, withheld |-> resolution.withheld]
  /\ terminal = [pc |-> terminal.pc, bytes |-> terminal.bytes]
  /\ terminal.pc \in {"idle", "writing", "granting"}
  /\ DOMAIN resolution.effective = Settings

DocumentsInv ==
  WellFormed(user) /\ WellFormed(file) /\ WellFormed(terminal.bytes) /\ WellFormed(resolution.bytes)

TrustInv == trust # NoDocument => trust \in reviewed

\* What `heikas init` writes is made of a configuration the owner's allows.
IsRendered(d) == \E c : IsConfig(c) /\ Tight(c, UserConfiguration) /\ d = Render(c)
WrittenInv ==
  /\ \A d \in written : IsRendered(d)
  /\ terminal.pc = "writing" => IsRendered(terminal.bytes)

\* Until the request is applied, the configuration is the one of the bytes that were read,
\* under the trust that was found for them.
ResolutionInv ==
  Resolved =>
    LET layered == Layered(UserConfiguration, Here, resolution.trusted)
    IN  /\ resolution.trusted => Here \in reviewed
        /\ resolution.withheld = WithheldSettings(resolution.trusted, UserConfiguration, Here)
        /\ \/ resolution.effective = layered
           \/ /\ resolution.pc = "surveyed"
              /\ \E p \in Proposals : resolution.effective = Surveyed(layered, p)

ConfigInv == Shape /\ DocumentsInv /\ TrustInv /\ WrittenInv /\ ResolutionInv

LEMMA NoDocumentWellFormed == WellFormed(NoDocument)
BY DEF WellFormed, NoDocument, Document, Declares

LEMMA ConfigInit ==
  ASSUME Init
  PROVE  ConfigInv
<1>1. /\ resolution = Idle \/ resolution = [Idle EXCEPT !.pc = "elsewhere"]
      /\ terminal = NoCommand /\ trust = NoDocument /\ written = {}
      /\ user \in UserDocuments \cup {NoDocument}
      /\ file \in RepositoryDocuments \cup {NoDocument}
  BY DEF Init, ConfigurationInit, NoConfiguration
<1>2. Shape
  <2>1. DOMAIN BaseConfiguration = Settings
    BY DEF BaseConfiguration
  <2> HIDE DEF BaseConfiguration
  <2> QED BY <1>1, <2>1 DEF Shape, Idle, NoCommand
<1>3. DocumentsInv
  <2>1. resolution.bytes = NoDocument /\ terminal.bytes = NoDocument
    BY <1>1 DEF Idle, NoCommand
  <2> QED BY <1>1, <2>1, NoDocumentWellFormed, ConfigurationAssumption DEF DocumentsInv
<1>4. TrustInv /\ WrittenInv
  BY <1>1 DEF TrustInv, WrittenInv, NoCommand
<1>5. ResolutionInv
  BY <1>1 DEF ResolutionInv, Resolved, Idle
<1> QED BY <1>2, <1>3, <1>4, <1>5 DEF ConfigInv

\* A step that leaves the owner's configuration and the resolution alone, and forgets no
\* review, keeps what is said of the resolution.
LEMMA ResolutionKept ==
  ASSUME ConfigInv, UNCHANGED << user, resolution >>, reviewed \subseteq reviewed'
  PROVE  ResolutionInv' /\ UserConfiguration' = UserConfiguration /\ \A d : IsRendered(d)' <=> IsRendered(d)
<1>1. UserConfiguration' = UserConfiguration
  BY DEF UserConfiguration
<1>2. \A d : IsRendered(d)' <=> IsRendered(d)
  BY <1>1 DEF IsRendered
<1>3. ResolutionInv'
  BY <1>1 DEF ConfigInv, ResolutionInv, Resolved, Here
<1> QED BY <1>1, <1>2, <1>3

LEMMA BeginInv ==
  ASSUME ConfigInv, NEW q \in Requests, Begin(q)
  PROVE  ConfigInv'
<1>1. /\ UNCHANGED << user, file, trust, terminal, reviewed, written >>
      /\ resolution' = [Idle EXCEPT !.request = q, !.bytes = file,
                          !.pc = IF Parses(user) /\ Parses(file) THEN "reading" ELSE "refused"]
  BY DEF Begin
<1> DEFINE pc == IF Parses(user) /\ Parses(file) THEN "reading" ELSE "refused"
<1>2. pc \notin {"detected", "surveyed"}
  OBVIOUS
<1> HIDE DEF pc
<1>3. resolution' = [pc |-> pc, request |-> q, bytes |-> file, trusted |-> FALSE,
                     effective |-> BaseConfiguration, withheld |-> {}]
  BY <1>1 DEF Idle, pc
<1>4. Shape'
  <2>1. DOMAIN BaseConfiguration = Settings
    BY DEF BaseConfiguration
  <2>2. \E t, b : resolution' = [pc |-> pc, request |-> q, bytes |-> file, trusted |-> t,
                                 effective |-> b, withheld |-> {}] /\ DOMAIN b = Settings
    BY <1>3, <2>1
  <2>3. terminal' = terminal
    BY <1>1
  <2> QED BY <2>2, <2>3 DEF Shape, ConfigInv
<1>5. DocumentsInv'
  BY <1>1, <1>3 DEF DocumentsInv, ConfigInv
<1>6. TrustInv' /\ WrittenInv'
  BY <1>1 DEF TrustInv, WrittenInv, ConfigInv, IsRendered, UserConfiguration
<1>7. ResolutionInv'
  BY <1>2, <1>3 DEF ResolutionInv, Resolved
<1> QED BY <1>4, <1>5, <1>6, <1>7 DEF ConfigInv

LEMMA DetectInv ==
  ASSUME ConfigInv, Detect
  PROVE  ConfigInv'
<1> DEFINE t == ResolveTrust(resolution.bytes)
           e == Layered(UserConfiguration, resolution.bytes, t)
           w == WithheldSettings(t, UserConfiguration, resolution.bytes)
<1>1. /\ UNCHANGED << user, file, trust, terminal, reviewed, written >>
      /\ \/ resolution' = [resolution EXCEPT !.pc = "refused"]
         \/ resolution' = [resolution EXCEPT !.trusted = t, !.pc = "detected", !.effective = e,
                                             !.withheld = w]
  BY DEF Detect
<1>2. /\ UserConfiguration' = UserConfiguration
      /\ IsConfig(UserConfiguration) /\ WellFormed(resolution.bytes)
  BY <1>1, UserIsConfig DEF UserConfiguration, ConfigInv, DocumentsInv
<1>3. IsConfig(e) /\ DOMAIN e = Settings
  BY <1>2, LayeredTight DEF IsConfig
<1>4. t => resolution.bytes \in reviewed
  BY DEF ResolveTrust, ConfigInv, TrustInv
<1> HIDE DEF t, e, w
<1>5. TrustInv' /\ WrittenInv'
  BY <1>1, <1>2 DEF TrustInv, WrittenInv, ConfigInv, IsRendered
<1>6. CASE resolution' = [resolution EXCEPT !.pc = "refused"]
  <2>1. resolution' = [pc |-> "refused", request |-> resolution.request,
                   bytes |-> resolution.bytes, trusted |-> resolution.trusted,
                   effective |-> resolution.effective, withheld |-> resolution.withheld]
    BY <1>6 DEF ConfigInv, Shape
  <2>2. Shape' /\ DocumentsInv'
    BY <2>1, <1>1 DEF ConfigInv, Shape, DocumentsInv
  <2>3. ResolutionInv'
    BY <2>1 DEF ResolutionInv, Resolved
  <2> QED BY <2>2, <2>3, <1>5 DEF ConfigInv
<1>7. CASE resolution' = [resolution EXCEPT !.trusted = t, !.pc = "detected", !.effective = e,
                                            !.withheld = w]
  <2>1. resolution' = [pc |-> "detected", request |-> resolution.request,
                   bytes |-> resolution.bytes, trusted |-> t, effective |-> e, withheld |-> w]
    BY <1>7 DEF ConfigInv, Shape
  <2>2. Shape' /\ DocumentsInv'
    BY <2>1, <1>1, <1>3 DEF ConfigInv, Shape, DocumentsInv
  <2>3. ResolutionInv'
    <3>1. /\ resolution'.trusted = t /\ resolution'.withheld = w /\ resolution'.effective = e
          /\ Here' = resolution.bytes
      BY <2>1 DEF Here
    <3>2. e = Layered(UserConfiguration, resolution.bytes, t)
          /\ w = WithheldSettings(t, UserConfiguration, resolution.bytes)
      BY DEF e, w
    <3> QED BY <3>1, <3>2, <1>1, <1>2, <1>4 DEF ResolutionInv
  <2> QED BY <2>2, <2>3, <1>5 DEF ConfigInv
<1> QED BY <1>1, <1>6, <1>7

LEMMA SurveyInv ==
  ASSUME ConfigInv, NEW p \in Proposals, Survey(p)
  PROVE  ConfigInv'
<1> DEFINE l == Layered(UserConfiguration, Here, resolution.trusted)
           e == Surveyed(resolution.effective, p)
<1>1. /\ UNCHANGED << user, file, trust, terminal, reviewed, written >>
      /\ resolution.pc = "detected"
      /\ resolution' = [resolution EXCEPT !.pc = "surveyed", !.effective = e]
  BY DEF Survey
<1>2. UserConfiguration' = UserConfiguration
  BY <1>1 DEF UserConfiguration
<1>3. /\ resolution.effective = l /\ (resolution.trusted => Here \in reviewed)
      /\ resolution.withheld = WithheldSettings(resolution.trusted, UserConfiguration, Here)
  BY <1>1 DEF ConfigInv, ResolutionInv, Resolved
<1>4. DOMAIN e = Settings
  BY DEF ConfigInv, Shape, Surveyed
<1>5. e = Surveyed(l, p)
  BY <1>3
<1> HIDE DEF e, l
<1>6. resolution' = [pc |-> "surveyed", request |-> resolution.request,
                 bytes |-> resolution.bytes, trusted |-> resolution.trusted,
                 effective |-> e, withheld |-> resolution.withheld]
  BY <1>1 DEF ConfigInv, Shape
<1>7. Shape' /\ DocumentsInv'
  BY <1>1, <1>4, <1>6 DEF ConfigInv, Shape, DocumentsInv
<1>8. TrustInv' /\ WrittenInv'
  BY <1>1, <1>2 DEF TrustInv, WrittenInv, ConfigInv, IsRendered
<1>9. ResolutionInv'
  <2>1. /\ resolution'.trusted = resolution.trusted /\ resolution'.withheld = resolution.withheld
        /\ resolution'.effective = e /\ Here' = Here /\ resolution'.pc = "surveyed"
    BY <1>6 DEF Here
  <2>2. e = Surveyed(Layered(UserConfiguration', Here', resolution'.trusted), p)
    BY <2>1, <1>2, <1>5 DEF l
  <2>3. \E x \in Proposals' : e = Surveyed(Layered(UserConfiguration', Here', resolution'.trusted), x)
    BY <2>2 DEF Proposals
  <2> QED BY <2>1, <2>3, <1>1, <1>2, <1>3 DEF ResolutionInv
<1> QED BY <1>7, <1>8, <1>9 DEF ConfigInv

LEMMA CreateRunInv ==
  ASSUME ConfigInv, CreateRun
  PROVE  ConfigInv'
<1> DEFINE c == Overridden(resolution.effective, resolution.request)
<1>1. /\ UNCHANGED << user, file, trust, terminal, reviewed, written >>
      /\ \/ resolution' = [resolution EXCEPT !.pc = "refused"]
         \/ resolution' = [resolution EXCEPT !.pc = "created", !.effective = c]
  BY DEF CreateRun
<1>2. DOMAIN c = Settings
  BY DEF Overridden
<1> HIDE DEF c
<1>3. PICK pc \in {"refused", "created"}, x \in {resolution.effective, c} :
        resolution' = [pc |-> pc, request |-> resolution.request,
                 bytes |-> resolution.bytes, trusted |-> resolution.trusted,
                 effective |-> x, withheld |-> resolution.withheld]
  <2>1. CASE resolution' = [resolution EXCEPT !.pc = "refused"]
    <3>1. resolution' = [pc |-> "refused", request |-> resolution.request,
                 bytes |-> resolution.bytes, trusted |-> resolution.trusted,
                 effective |-> resolution.effective, withheld |-> resolution.withheld]
      BY <2>1 DEF ConfigInv, Shape
    <3> QED BY <3>1
  <2>2. CASE resolution' = [resolution EXCEPT !.pc = "created", !.effective = c]
    <3>1. resolution' = [pc |-> "created", request |-> resolution.request,
                 bytes |-> resolution.bytes, trusted |-> resolution.trusted,
                 effective |-> c, withheld |-> resolution.withheld]
      BY <2>2 DEF ConfigInv, Shape
    <3> QED BY <3>1
  <2> QED BY <1>1, <2>1, <2>2
<1>4. Shape' /\ DocumentsInv'
  BY <1>1, <1>2, <1>3 DEF ConfigInv, Shape, DocumentsInv
<1>5. TrustInv' /\ WrittenInv'
  BY <1>1 DEF TrustInv, WrittenInv, ConfigInv, IsRendered, UserConfiguration
<1>6. ResolutionInv'
  BY <1>3 DEF ResolutionInv, Resolved
<1> QED BY <1>4, <1>5, <1>6 DEF ConfigInv

\* The commands at the terminal and the edits.
LEMMA InitDetectInv ==
  ASSUME ConfigInv, NEW p \in Proposals, InitDetect(p)
  PROVE  ConfigInv'
<1> DEFINE c == Surveyed(Layered(UserConfiguration, file, ResolveTrust(file)), p)
<1>1. /\ UNCHANGED << user, file, trust, resolution, reviewed, written >>
      /\ terminal' = [pc |-> "writing", bytes |-> Render(c)]
  BY DEF InitDetect
<1>2. /\ ResolutionInv' /\ UserConfiguration' = UserConfiguration
      /\ \A d : IsRendered(d)' <=> IsRendered(d)
  BY <1>1, ResolutionKept
<1>3. IsConfig(c) /\ Tight(c, UserConfiguration)
  <2>1. IsConfig(UserConfiguration) /\ WellFormed(file)
    BY UserIsConfig DEF ConfigInv, DocumentsInv
  <2>2. /\ IsConfig(Layered(UserConfiguration, file, ResolveTrust(file)))
        /\ Tight(Layered(UserConfiguration, file, ResolveTrust(file)), UserConfiguration)
    BY <2>1, LayeredTight
  <2> QED BY <2>2, SurveyedFacts
<1> HIDE DEF c
<1>4. WellFormed(Render(c)) /\ IsRendered(Render(c))
  BY <1>3, RenderFacts DEF IsRendered
<1>5. Shape'
  BY <1>1 DEF ConfigInv, Shape
<1>6. DocumentsInv' /\ TrustInv'
  BY <1>1, <1>4 DEF ConfigInv, DocumentsInv, TrustInv
<1>7. WrittenInv'
  <2>1. \A d \in written : IsRendered(d)
    BY DEF ConfigInv, WrittenInv
  <2>2. terminal'.bytes = Render(c)
    BY <1>1
  <2> QED BY <2>1, <2>2, <1>1, <1>2, <1>4 DEF WrittenInv
<1> QED BY <1>2, <1>5, <1>6, <1>7 DEF ConfigInv

LEMMA TerminalInv ==
  ASSUME ConfigInv, TrustRead \/ Grant \/ Revoke \/ InitWrite \/ \E d \in Files : Edit(d)
  PROVE  ConfigInv'
<1>1. UNCHANGED << user, resolution >> /\ reviewed \subseteq reviewed'
  BY DEF TrustRead, Grant, Revoke, InitWrite, Edit
<1>2. /\ ResolutionInv' /\ UserConfiguration' = UserConfiguration
      /\ \A d : IsRendered(d)' <=> IsRendered(d)
  BY <1>1, ResolutionKept
<1>3. Shape /\ DocumentsInv /\ TrustInv /\ WrittenInv
  BY DEF ConfigInv
<1>4. Shape'
  <2>1. CASE InitWrite
    <3>1. terminal' = [pc |-> "granting", bytes |-> terminal.bytes]
      BY <2>1, <1>3 DEF InitWrite, Shape
    <3> QED BY <3>1, <1>1, <1>3 DEF Shape
  <2>2. CASE TrustRead \/ Grant \/ Revoke \/ \E d \in Files : Edit(d)
    BY <2>2, <1>1, <1>3 DEF TrustRead, Grant, Revoke, Edit, Shape, NoCommand
  <2> QED BY <2>1, <2>2
<1>5. DocumentsInv'
  <2>1. WellFormed(NoDocument) /\ \A d \in Files : WellFormed(d)
    BY NoDocumentWellFormed, ConfigurationAssumption DEF Files
  <2>2. CASE InitWrite
    <3>1. terminal' = [pc |-> "granting", bytes |-> terminal.bytes]
      BY <2>2, <1>3 DEF InitWrite, Shape
    <3> QED BY <2>2, <3>1, <1>1, <1>3 DEF InitWrite, DocumentsInv
  <2>3. CASE TrustRead \/ Grant \/ Revoke \/ \E d \in Files : Edit(d)
    BY <2>1, <2>3, <1>1, <1>3 DEF TrustRead, Grant, Revoke, Edit, DocumentsInv, NoCommand
  <2> QED BY <2>2, <2>3
<1>6. TrustInv'
  BY <1>3 DEF TrustRead, Grant, Revoke, InitWrite, Edit, TrustInv
<1>7. WrittenInv'
  <2>1. CASE InitWrite
    <3>1. terminal' = [pc |-> "granting", bytes |-> terminal.bytes]
      BY <2>1, <1>3 DEF InitWrite, Shape
    <3>2. written' = written \cup {terminal.bytes} /\ IsRendered(terminal.bytes)
      BY <2>1, <1>3 DEF InitWrite, WrittenInv
    <3> QED BY <3>1, <3>2, <1>2, <1>3 DEF WrittenInv
  <2>2. CASE TrustRead \/ Grant \/ Revoke \/ \E d \in Files : Edit(d)
    <3>1. written' = written /\ (terminal' = terminal \/ terminal'.pc # "writing")
      BY <2>2 DEF TrustRead, Grant, Revoke, Edit, NoCommand
    <3> QED BY <3>1, <1>2, <1>3 DEF WrittenInv
  <2> QED BY <2>1, <2>2
<1> QED BY <1>2, <1>4, <1>5, <1>6, <1>7 DEF ConfigInv

LEMMA ConfigStep ==
  ASSUME ConfigInv, [Next]_allVars
  PROVE  ConfigInv'
<1>1. CASE UNCHANGED configVars
  <2>1. UNCHANGED << user, file, trust, terminal, resolution, reviewed, written >>
    BY <1>1 DEF configVars
  <2>2. /\ ResolutionInv' /\ UserConfiguration' = UserConfiguration
        /\ \A d : IsRendered(d)' <=> IsRendered(d)
    BY <2>1, ResolutionKept
  <2> QED BY <2>1, <2>2 DEF ConfigInv, Shape, DocumentsInv, TrustInv, WrittenInv
<1>2. CASE ConfigurationNext
  BY <1>2, BeginInv, DetectInv, SurveyInv, CreateRunInv, InitDetectInv, TerminalInv
     DEF ConfigurationNext
<1> QED BY <1>1, <1>2 DEF Next, allVars

\* The inductive invariant of the configuration.
THEOREM ConfigInvariant == Spec => []ConfigInv
<1>1. Init => ConfigInv
  BY ConfigInit
<1>2. ConfigInv /\ [Next]_allVars => ConfigInv'
  BY ConfigStep
<1> QED BY <1>1, <1>2, PTL DEF Spec

(***************************************************************************)
(* The theorems.                                                           *)
(***************************************************************************)
\* What is resolved differs from what the layers give in the commands only.
LEMMA ResolvedFacts ==
  ASSUME ConfigInv, Resolved
  PROVE  LET u == UserConfiguration
             l == Layered(u, Here, resolution.trusted)
             e == resolution.effective
         IN  /\ IsConfig(u) /\ WellFormed(Here)
             /\ IsConfig(l) /\ Tight(l, u) /\ IsConfig(e) /\ Tight(e, u)
             /\ \A s \in Settings : s # "commands" => e[s] = l[s]
             /\ \/ e["commands"] = l["commands"]
                \/ l["commands"] = << >> /\ e["commands"] \in Proposals
<1> DEFINE u == UserConfiguration
           l == Layered(u, Here, resolution.trusted)
           e == resolution.effective
<1>1. IsConfig(u) /\ WellFormed(Here)
  BY UserIsConfig DEF ConfigInv, DocumentsInv, Here
<1>2. IsConfig(l) /\ Tight(l, u)
  BY <1>1, LayeredTight
<1>3. e = l \/ \E p \in Proposals : e = Surveyed(l, p)
  BY DEF ConfigInv, ResolutionInv
<1> HIDE DEF u, l, e
<1>4. CASE e = l
  BY <1>1, <1>2, <1>4 DEF u, l, e
<1>5. ASSUME NEW p \in Proposals, e = Surveyed(l, p)
      PROVE  /\ IsConfig(e) /\ Tight(e, u)
             /\ \A s \in Settings : s # "commands" => e[s] = l[s]
             /\ \/ e["commands"] = l["commands"]
                \/ l["commands"] = << >> /\ e["commands"] \in Proposals
  BY <1>2, <1>5, SurveyedFacts
<1> QED BY <1>1, <1>2, <1>3, <1>4, <1>5 DEF u, l, e

\* Whatever the repository's file says and whoever edits it while a run is created, no budget,
\* switch, profile, minimum or limit is set to a more permissive value than the owner's, no list
\* loses an entry and the owner's own settings stay (AuthorityGate), for any documents.  Nothing
\* is said of ai_enabled and of what an unset minimum means under the strict profile.
THEOREM OnlyTightens == Spec => []RepositoryOnlyTightens
<1>1. ConfigInv => RepositoryOnlyTightens
  <2> SUFFICES ASSUME ConfigInv, Resolved PROVE Tight(resolution.effective, UserConfiguration)
    BY DEF RepositoryOnlyTightens, Tight
  <2> QED BY ResolvedFacts
<1> QED BY <1>1, ConfigInvariant, PTL

\* Programs, arguments and commands come from the owner, from the survey, or from bytes the
\* owner has reviewed as they are: an edit that races with the review or with the creation
\* of a run gains nothing (resolve_trust, grant).
THEOREM TrustIsOfBytes == Spec => []TrustIsForTheseBytes
<1>1. ConfigInv => TrustIsForTheseBytes
  <2> DEFINE e == resolution.effective
             u == UserConfiguration
             l == Layered(u, Here, resolution.trusted)
             Trusted(s, value) == Here \in reviewed /\ Declares(Here, s) /\ Here.declared[s] = value
  <2> SUFFICES ASSUME ConfigInv, Resolved, NEW s \in Settings, Rule[s] = "trust"
               PROVE  \/ e[s] = u[s] \/ Trusted(s, e[s])
                      \/ /\ s = "commands" /\ e[s] \in Proposals
                         /\ u[s] = << >> \/ Trusted(s, << >>)
    BY DEF TrustIsForTheseBytes, Ruled
  <2>1. s # "allowlist"
    BY RuleOf
  <2>2. resolution.trusted => Here \in reviewed
    BY DEF ConfigInv, ResolutionInv
  <2>3. l[s] = u[s] \/ Trusted(s, l[s])
    <3>1. u = [x \in Settings |-> u[x]]
      BY ResolvedFacts DEF IsConfig
    <3>2. \/ l[s] = u[s]
          \/ /\ Declares(Here, s) /\ Honours("repository", resolution.trusted, u, s, Here.declared[s])
             /\ l[s] = Merged("repository", u, s, Here.declared[s])
      <4> HIDE DEF u
      <4> QED BY <3>1, LayeredAt
    <3> HIDE DEF u, l
    <3> QED BY <2>1, <2>2, <3>2 DEF Honours, Merged
  <2>4. \/ e[s] = l[s]
        \/ s = "commands" /\ l[s] = << >> /\ e[s] \in Proposals
    BY ResolvedFacts
  <2> HIDE DEF u, l, e
  <2> QED BY <2>3, <2>4
<1> QED BY <1>1, ConfigInvariant, PTL

\* A declared setting of the repository takes effect or is reported, unless it is a limit that
\* would rise or an allow list that names nothing new, for any document (withheld).
THEOREM NothingIsLost == Spec => []NothingLostQuietly
<1>1. ConfigInv => NothingLostQuietly
  <2> DEFINE e == resolution.effective
             u == UserConfiguration
             l == Layered(u, Here, resolution.trusted)
             v(s) == Here.declared[s]
  <2> SUFFICES ASSUME ConfigInv, Resolved, NEW s \in DOMAIN Here.declared
               PROVE  \/ \E reason \in {"user_configuration_only", "requires_repository_trust",
                                        "would_weaken_policy"} : << s, reason >> \in resolution.withheld
                      \/ Rule[s] = "list" /\ v(s) \subseteq e[s]
                      \/ Rule[s] = "limit" /\ v(s) > u[s]
                      \/ Rule[s] = "allowlist" /\ v(s) \subseteq u[s]
                      \/ s = "commands" /\ v(s) = << >>
                      \/ e[s] = v(s)
    BY DEF NothingLostQuietly, DroppedQuietly, TakenOrReported
  <2>1. s \in Settings /\ Declares(Here, s)
    BY ResolvedFacts DEF WellFormed, Declares
  <2>2. CASE s = "allowlist"
    <3>1. Rule[s] = "allowlist"
      BY <2>1, <2>2, RuleOf
    <3>2. CASE v(s) \subseteq u[s]
      BY <3>1, <3>2
    <3>3. CASE ~(v(s) \subseteq u[s])
      <4>1. Reason(s) = "would_weaken_policy"
        BY <3>1 DEF Reason
      <4>2. << s, Reason(s) >> \in WithheldSettings(resolution.trusted, u, Here)
        BY <2>1, <2>2, <3>3 DEF WithheldSettings
      <4>3. resolution.withheld = WithheldSettings(resolution.trusted, u, Here)
        BY DEF ConfigInv, ResolutionInv
      <4> QED BY <4>1, <4>2, <4>3
    <3> QED BY <3>2, <3>3
  <2>3. CASE s # "allowlist" /\ ~Honours("repository", resolution.trusted, u, s, v(s))
    <3>1. Reason(s) \in {"user_configuration_only", "requires_repository_trust", "would_weaken_policy"}
      BY DEF Reason
    <3>2. << s, Reason(s) >> \in WithheldSettings(resolution.trusted, u, Here)
      BY <2>1, <2>3 DEF WithheldSettings
    <3>3. resolution.withheld = WithheldSettings(resolution.trusted, u, Here)
      BY DEF ConfigInv, ResolutionInv
    <3> QED BY <3>1, <3>2, <3>3
  <2>4. CASE s # "allowlist" /\ Honours("repository", resolution.trusted, u, s, v(s))
    <3>1. u = [x \in Settings |-> u[x]]
      BY ResolvedFacts DEF IsConfig
    <3>2. l[s] = Merged("repository", u, s, v(s))
      <4> HIDE DEF u
      <4> QED BY <2>1, <2>4, <3>1, LayeredAt
    <3>3. \/ e[s] = l[s]
          \/ s = "commands" /\ l[s] = << >>
      BY <2>1, ResolvedFacts
    <3>4. s = "commands" => Rule[s] = "trust"
      BY <2>1, RuleOf
    <3>7. WellFormed(Here) /\ IsConfig(u)
      BY ResolvedFacts
    <3> HIDE DEF u, l, e
    <3>5. CASE Rule[s] = "list"
      <4>1. l[s] = u[s] \cup v(s)
        BY <2>4, <3>2, <3>5 DEF Merged
      <4>2. e[s] = l[s]
        BY <3>3, <3>4, <3>5
      <4> QED BY <4>1, <4>2, <3>5
    <3>6. CASE Rule[s] = "limit"
      <4>1. u[s] \in Int /\ v(s) \in Int
        <5>1. s \in Levels
          BY <2>1, <3>6 DEF Levels, Ruled
        <5> QED BY <2>1, <5>1, <3>7 DEF WellFormed, IsConfig
      <4>2. l[s] = Min({u[s], v(s)})
        BY <2>4, <3>2, <3>6 DEF Merged
      <4>3. \A a, b \in Int : b <= a => Min({a, b}) = b
        BY DEF Min
      <4>4. e[s] = l[s]
        BY <3>3, <3>4, <3>6
      <4> QED BY <3>6, <4>1, <4>2, <4>3, <4>4
    <3>8. CASE Rule[s] \notin {"list", "limit"}
      BY <2>4, <3>2, <3>3, <3>8 DEF Merged
    <3> QED BY <3>5, <3>6, <3>8
  <2> QED BY <2>2, <2>3, <2>4
<1> QED BY <1>1, ConfigInvariant, PTL

\* A file that `heikas init` wrote means what it was written from, as long as it is trusted,
\* whatever was in the repository's file before (render_document and apply).
THEOREM InitMeansItself == Spec => []InitKeepsSettings
<1>1. ConfigInv => InitKeepsSettings
  <2> DEFINE e == resolution.effective
             u == UserConfiguration
  <2> SUFFICES ASSUME ConfigInv, Resolved, resolution.trusted, Here \in written,
                      NEW s \in DOMAIN Here.declared
               PROVE  e[s] = Here.declared[s]
    BY DEF InitKeepsSettings
  <2>1. PICK c : IsConfig(c) /\ Tight(c, u) /\ Here = Render(c)
    BY DEF ConfigInv, WrittenInv, IsRendered
  <2>2. /\ s \in RenderedSettings /\ s \in Settings /\ Here.declared[s] = c[s]
        /\ s = "commands" => c[s] # << >>
    BY <2>1, RenderFacts
  <2>3. Rule[s] \in {"owner", "trust", "tighten", "list"} /\ s # "allowlist"
        /\ (s = "commands" => Rule[s] = "trust")
    BY <2>2, RuleOf
  <2>4. u = [x \in Settings |-> u[x]]
    BY ResolvedFacts DEF IsConfig
  <2> DEFINE t == resolution.trusted
  <2>5. /\ Honours("repository", t, u, s, Here.declared[s]) =>
             Layered(u, Here, t)[s] = Merged("repository", u, s, Here.declared[s])
        /\ ~Honours("repository", t, u, s, Here.declared[s]) =>
             Layered(u, Here, t)[s] = u[s]
    <3>1. Declares(Here, s) /\ s \in Settings
      BY <2>2 DEF Declares
    <3> DEFINE h == Honours("repository", t, u, s, Here.declared[s])
    <3> HIDE DEF u, t
    <3>2. CASE h
      <4>1. Layered(u, Here, t)[s] = Merged("repository", u, s, Here.declared[s])
        BY <3>1, <3>2, <2>4, LayeredAt
      <4> QED BY <3>2, <4>1
    <3>3. CASE ~h
      <4>1. Layered(u, Here, t)[s] = u[s]
        BY <3>1, <3>3, <2>4, LayeredAt
      <4> QED BY <3>3, <4>1
    <3> QED BY <3>2, <3>3
  <2>6. \/ e[s] = Layered(u, Here, t)[s]
        \/ s = "commands" /\ Layered(u, Here, t)[s] = << >>
    BY <2>2, ResolvedFacts
  <2>7. /\ Rule[s] = "tighten" => c[s] <= u[s]
        /\ Rule[s] = "list" => u[s] \subseteq c[s]
        /\ Rule[s] = "owner" => c[s] = u[s]
    BY <2>1, <2>2 DEF Tight
  <2>trusted. t
    OBVIOUS
  <2> HIDE DEF u, e, t
  <2>8. CASE Rule[s] = "list"
    <3>1. Layered(u, Here, t)[s] = u[s] \cup c[s]
      BY <2>2, <2>3, <2>5, <2>8 DEF Honours, Merged
    <3>2. u[s] \cup c[s] = c[s]
      BY <2>7, <2>8
    <3> QED BY <3>1, <3>2, <2>2, <2>3, <2>6, <2>8
  <2>9. CASE Rule[s] = "owner"
    <3>1. ~Honours("repository", t, u, s, Here.declared[s])
      BY <2>9 DEF Honours
    <3> QED BY <3>1, <2>2, <2>3, <2>5, <2>6, <2>7, <2>9
  <2>10. CASE Rule[s] \in {"trust", "tighten"}
    <3>1. Layered(u, Here, t)[s] = c[s]
      BY <2>2, <2>3, <2>5, <2>7, <2>10, <2>trusted DEF Honours, Merged
    <3> QED BY <3>1, <2>2, <2>6
  <2> QED BY <2>3, <2>8, <2>9, <2>10
<1> QED BY <1>1, ConfigInvariant, PTL

(***************************************************************************)
(* What the gates are checked under covers what a run is created with.     *)
(***************************************************************************)
\* Settings `heikas init` copies whether the file is trusted or not.
Copied(s) == s \in RenderedSettings /\ Rule[s] # "trust"

\* What a rendered configuration means as the repository's file: the tightened settings and
\* the lists are in force, the programs and the commands if it is trusted.
LEMMA LayeredRender ==
  ASSUME NEW u, IsConfig(u), NEW e, IsConfig(e), Tight(e, u), NEW t \in BOOLEAN, NEW s \in Settings
  PROVE  Layered(u, Render(e), t)[s] =
           IF \/ Copied(s)
              \/ s \in RenderedSettings /\ t /\ (s = "commands" => e[s] # << >>)
           THEN e[s] ELSE u[s]
<1> DEFINE d == Render(e)
           l == Layered(u, d, t)
<1>1. u = [x \in Settings |-> u[x]]
  BY DEF IsConfig
<1>2. /\ Declares(d, s) /\ Honours("repository", t, u, s, d.declared[s]) =>
           l[s] = Merged("repository", u, s, d.declared[s])
      /\ ~(Declares(d, s) /\ Honours("repository", t, u, s, d.declared[s])) => l[s] = u[s]
  <2> HIDE DEF d
  <2> QED BY <1>1, LayeredAt
<1>3. Declares(d, s) => s \in RenderedSettings /\ d.declared[s] = e[s]
  BY RenderFacts DEF Declares
<1>4. Declares(d, s) <=> s \in RenderedOf(e)
  BY DEF Declares, Render, Document
<1>5. /\ Rule[s] = "tighten" => e[s] <= u[s]
      /\ Rule[s] = "list" => u[s] \subseteq e[s]
      /\ Rule[s] \in {"owner", "allowlist"} => e[s] = u[s]
  BY DEF Tight
<1>6. /\ s \in RenderedSettings => Rule[s] \in {"owner", "trust", "tighten", "list"}
      /\ Rule[s] = "allowlist" <=> s = "allowlist"
      /\ s = "commands" => Rule[s] = "trust"
      /\ s = "minimum_line_coverage" => Rule[s] = "tighten"
  BY RuleOf
<1>7. s \in {"model", "endpoint"} => Rule[s] = "owner"
  <2>1. << Rule[s], s >> \in Gated
    BY RuleFacts
  <2> QED BY <2>1, GatedPairs DEF TightenSet, TrustSet, FreeSet, ListSet, LimitSet
<1>8. s = "minimum_line_coverage" /\ e[s] = Unset => u[s] = e[s]
  <2> SUFFICES ASSUME s = "minimum_line_coverage", e[s] = Unset PROVE u[s] = e[s]
    OBVIOUS
  <2>1. s \in Levels
    BY <1>6 DEF Levels, Ruled
  <2>2. u[s] \in Int /\ u[s] <= Unset /\ e[s] <= u[s]
    BY <2>1, <1>5, <1>6 DEF IsConfig
  <2> QED BY <2>2 DEF Unset
<1>9. s \in RenderedSettings /\ s \notin RenderedOf(e) =>
        \/ s = "commands" /\ e[s] = << >>
        \/ Rule[s] # "trust" /\ u[s] = e[s]
  BY <1>5, <1>6, <1>7, <1>8 DEF RenderedOf
<1> HIDE DEF d, l
<1>10. CASE Declares(d, s)
  <2>1. s = "commands" => e[s] # << >>
    BY <1>4, <1>10 DEF RenderedOf
  <2>2. CASE Rule[s] = "list"
    <3>1. l[s] = u[s] \cup e[s]
      BY <1>2, <1>3, <1>6, <1>10, <2>2 DEF Honours, Merged
    <3>2. u[s] \cup e[s] = e[s]
      BY <1>5, <2>2
    <3> QED BY <3>1, <3>2, <1>3, <1>10, <2>2 DEF Copied, l, d
  <2>3. CASE Rule[s] = "owner"
    <3>1. l[s] = u[s]
      BY <1>2, <2>3 DEF Honours
    <3> QED BY <3>1, <1>5, <2>3 DEF l, d
  <2>4. CASE Rule[s] = "tighten"
    <3>1. l[s] = e[s]
      BY <1>2, <1>3, <1>5, <1>6, <1>10, <2>4 DEF Honours, Merged
    <3> QED BY <3>1, <1>3, <1>10, <2>4 DEF Copied, l, d
  <2>5. CASE Rule[s] = "trust"
    <3>1. l[s] = IF t THEN e[s] ELSE u[s]
      BY <1>2, <1>3, <1>6, <1>10, <2>5 DEF Honours, Merged
    <3> QED BY <3>1, <2>1, <1>3, <1>10, <2>5 DEF Copied, l, d
  <2> QED BY <1>3, <1>6, <1>10, <2>2, <2>3, <2>4, <2>5
<1>11. CASE ~Declares(d, s)
  <2>1. l[s] = u[s]
    BY <1>2, <1>11
  <2>2. CASE s \notin RenderedSettings
    BY <2>1, <2>2 DEF Copied, l, d
  <2>3. CASE s \in RenderedSettings /\ Rule[s] # "trust"
    <3>1. u[s] = e[s]
      BY <1>4, <1>6, <1>9, <1>11, <2>3
    <3> QED BY <2>1, <3>1 DEF l, d
  <2>4. CASE s \in RenderedSettings /\ Rule[s] = "trust"
    <3>1. s = "commands" /\ e[s] = << >>
      BY <1>4, <1>9, <1>11, <2>4
    <3> QED BY <2>1, <2>4, <3>1 DEF Copied, l, d
  <2> QED BY <2>2, <2>3, <2>4
<1> QED BY <1>10, <1>11

\* Two configurations that agree setting by setting are the same.
LEMMA SameConfig ==
  ASSUME NEW a, IsConfig(a), NEW b, IsConfig(b), \A s \in Settings : a[s] = b[s]
  PROVE  a = b
BY DEF IsConfig

\* The file `heikas init` writes from a file it wrote before means nothing new: writing it
\* once more is no step towards a configuration that writing it once does not reach.
LEMMA RenderTwice ==
  ASSUME NEW u, IsConfig(u), NEW e, IsConfig(e), Tight(e, u),
         NEW z \in Effective(u, {Render(e)})
  PROVE  Effective(u, {Render(z)}) \subseteq Effective(u, {Render(e)})
<1>pick. PICK t \in BOOLEAN, p \in Proposals : z = Surveyed(Layered(u, Render(e), t), p)
  BY DEF Effective
<1>suffices. SUFFICES ASSUME NEW x \in BOOLEAN, NEW q \in Proposals
                      PROVE  Surveyed(Layered(u, Render(z), x), q) \in Effective(u, {Render(e)})
  BY DEF Effective
<1> DEFINE L(y) == Layered(u, Render(e), y)
           E2 == Surveyed(L(t), p)
           M == Layered(u, Render(E2), x)
<1>1. WellFormed(Render(e))
  BY RenderFacts
<1>2. \A y : IsConfig(L(y)) /\ Tight(L(y), u)
  BY <1>1, LayeredTight
<1>3. /\ IsConfig(E2) /\ Tight(E2, u)
      /\ \A s \in Settings : s # "commands" => E2[s] = L(t)[s]
      /\ E2["commands"] = IF L(t)["commands"] = << >> THEN p ELSE L(t)["commands"]
  BY <1>2, SurveyedFacts
<1>4. IsConfig(M)
  <2>1. WellFormed(Render(E2))
    BY <1>3, RenderFacts
  <2> QED BY <2>1, LayeredTight
<1>5. \A y \in BOOLEAN : \A s \in Settings :
        L(y)[s] = IF \/ Copied(s)
                     \/ s \in RenderedSettings /\ y /\ (s = "commands" => e[s] # << >>)
                  THEN e[s] ELSE u[s]
  BY LayeredRender
<1>6. \A s \in Settings :
        M[s] = IF \/ Copied(s)
                  \/ s \in RenderedSettings /\ x /\ (s = "commands" => E2[s] # << >>)
               THEN E2[s] ELSE u[s]
  BY <1>3, LayeredRender
<1>7. \A a, r : IsConfig(a) =>
        /\ IsConfig(Surveyed(a, r))
        /\ \A s \in Settings : s # "commands" => Surveyed(a, r)[s] = a[s]
        /\ Surveyed(a, r)["commands"] = IF a["commands"] = << >> THEN r ELSE a["commands"]
  BY SurveyedFacts
<1>8. "commands" \in Settings /\ "commands" \in RenderedSettings /\ ~Copied("commands")
  BY KnownSettings, RuleOf DEF RenderedSettings, Copied
<1> HIDE DEF L, E2, M
\* The choice of the trust and of the proposal that reaches the same in one step.
<1> DEFINE y == IF x THEN t ELSE FALSE
           r == IF x /\ L(t)["commands"] = << >> /\ p # << >> THEN p ELSE q
<1>9. y \in BOOLEAN /\ r \in Proposals
  OBVIOUS
<1>10. \A s \in Settings : s # "commands" => M[s] = L(y)[s]
  <2> SUFFICES ASSUME NEW s \in Settings, s # "commands" PROVE M[s] = L(y)[s]
    OBVIOUS
  <2>1. E2[s] = L(t)[s]
    BY <1>3
  <2> QED BY <2>1, <1>5, <1>6
<1>11. Surveyed(M, q)["commands"] = Surveyed(L(y), r)["commands"]
  <2> DEFINE c == "commands"
  <2>1. /\ Surveyed(M, q)[c] = IF M[c] = << >> THEN q ELSE M[c]
        /\ Surveyed(L(y), r)[c] = IF L(y)[c] = << >> THEN r ELSE L(y)[c]
    BY <1>2, <1>4, <1>7, <1>9
  <2>2. /\ M[c] = IF x /\ E2[c] # << >> THEN E2[c] ELSE u[c]
        /\ L(t)[c] = IF t /\ e[c] # << >> THEN e[c] ELSE u[c]
        /\ L(FALSE)[c] = u[c]
    BY <1>5, <1>6, <1>8
  <2>3. E2[c] = IF L(t)[c] = << >> THEN p ELSE L(t)[c]
    BY <1>3
  <2> HIDE DEF c
  <2>4. CASE ~x
    BY <2>1, <2>2, <2>4 DEF c
  <2>5. CASE x
    BY <2>1, <2>2, <2>3, <2>5 DEF c
  <2> QED BY <2>4, <2>5
<1>12. Surveyed(M, q) = Surveyed(L(y), r)
  <2>1. IsConfig(Surveyed(M, q)) /\ IsConfig(Surveyed(L(y), r))
    BY <1>2, <1>4, <1>7
  <2>2. \A s \in Settings : Surveyed(M, q)[s] = Surveyed(L(y), r)[s]
    <3> SUFFICES ASSUME NEW s \in Settings PROVE Surveyed(M, q)[s] = Surveyed(L(y), r)[s]
      OBVIOUS
    <3>1. CASE s = "commands"
      BY <3>1, <1>11
    <3>2. CASE s # "commands"
      BY <3>2, <1>2, <1>4, <1>7, <1>10
    <3> QED BY <3>1, <3>2
  <2> HIDE DEF y, r
  <2> QED BY <2>1, <2>2, SameConfig
<1>13. Surveyed(Layered(u, Render(e), y), r) \in Effective(u, {Render(e)})
  <2> HIDE DEF y, r
  <2> QED BY <1>9 DEF Effective
<1>14. Surveyed(Layered(u, Render(z), x), q) = Surveyed(Layered(u, Render(e), y), r)
  BY <1>12, <1>pick DEF L, E2, M
<1> QED BY <1>13, <1>14

\* What a file in the repository can make of the owner's configuration is among what one
\* `heikas init` can.
Covered(d) == Effective(UserConfiguration, {d}) \subseteq WithInit(UserConfiguration)

LEMMA FilesAreCovered == \A d \in Files : Covered(d)
BY DEF Covered, WithInit, Effective

LEMMA RenderIsCovered ==
  ASSUME WellFormed(user), NEW d, Covered(d), NEW z \in Effective(UserConfiguration, {d})
  PROVE  Covered(Render(z))
<1> DEFINE u == UserConfiguration
           rendered == {Render(e) : e \in Effective(u, Files)}
<1>1. IsConfig(u)
  BY UserIsConfig
<1>2. z \in WithInit(u)
  BY DEF Covered
<1>3. WithInit(u) = Effective(u, Files \cup rendered)
  BY DEF WithInit
<1> HIDE DEF u, rendered
<1>4. PICK f \in Files \cup rendered : z \in Effective(u, {f})
  BY <1>2, <1>3 DEF Effective
<1>5. \A g \in Files \cup rendered : Effective(u, {g}) \subseteq WithInit(u)
  BY <1>3 DEF Effective
<1>6. SUFFICES Effective(u, {Render(z)}) \subseteq WithInit(u)
  BY DEF Covered, u
<1>7. CASE f \in Files
  <2>1. z \in Effective(u, Files)
    BY <1>4, <1>7 DEF Effective
  <2>2. Render(z) \in rendered
    BY <2>1 DEF rendered
  <2> QED BY <2>2, <1>5
<1>8. CASE f \in rendered
  <2>1. PICK e \in Effective(u, Files) : f = Render(e)
    BY <1>8 DEF rendered
  <2>2. IsConfig(e) /\ Tight(e, u)
    <3>1. PICK r \in Files, b \in BOOLEAN, c \in Proposals : e = Surveyed(Layered(u, r, b), c)
      BY DEF Effective
    <3>2. WellFormed(r)
      BY NoDocumentWellFormed, ConfigurationAssumption DEF Files
    <3>3. IsConfig(Layered(u, r, b)) /\ Tight(Layered(u, r, b), u)
      BY <1>1, <3>2, LayeredTight
    <3> QED BY <3>1, <3>3, SurveyedFacts
  <2>3. Effective(u, {Render(z)}) \subseteq Effective(u, {Render(e)})
    BY <1>1, <1>4, <2>1, <2>2, RenderTwice
  <2> QED BY <1>5, <1>8, <2>1, <2>3
<1> QED BY <1>4, <1>7, <1>8

\* Every file that is or was in the repository is covered, and the request and the
\* configuration that is made for it are the ones the checked configurations are made of.
CoverInv ==
  /\ Covered(file) /\ Covered(resolution.bytes)
  /\ terminal.pc = "writing" => Covered(terminal.bytes)
  /\ user \in UserDocuments \/ resolution.pc = "elsewhere"
  /\ resolution.pc \in {"reading", "detected", "surveyed"} => resolution.request \in Requests
  /\ resolution.pc = "detected" =>
       \E t \in BOOLEAN : resolution.effective = Layered(UserConfiguration, Here, t)
  /\ resolution.pc = "surveyed" => resolution.effective \in WithInit(UserConfiguration)
  /\ resolution.pc = "created" => resolution.effective \in Accepted

LEMMA CoverInit ==
  ASSUME Init
  PROVE  CoverInv
<1>1. /\ \/ resolution = Idle /\ user \in UserDocuments
         \/ resolution = [Idle EXCEPT !.pc = "elsewhere"]
      /\ terminal = NoCommand /\ file \in Files
  BY DEF Init, ConfigurationInit, NoConfiguration, Files
<1>2. /\ resolution.bytes = NoDocument /\ resolution.pc \in {"idle", "elsewhere"}
      /\ terminal.pc # "writing"
  BY <1>1 DEF Idle, NoCommand
<1>3. user \in UserDocuments \/ resolution.pc = "elsewhere"
  BY <1>1 DEF Idle
<1>4. Covered(file) /\ Covered(resolution.bytes)
  BY <1>1, <1>2, FilesAreCovered DEF Files
<1> QED BY <1>2, <1>3, <1>4 DEF CoverInv

\* A step that leaves the owner's configuration alone leaves alone what is covered.
LEMMA CoverKept ==
  ASSUME UNCHANGED user
  PROVE  /\ UserConfiguration' = UserConfiguration
         /\ \A d : Covered(d)' <=> Covered(d)
         /\ WithInit(UserConfiguration)' = WithInit(UserConfiguration)
<1>1. UserConfiguration' = UserConfiguration
  BY DEF UserConfiguration
<1>2. WithInit(UserConfiguration)' = WithInit(UserConfiguration)
  BY <1>1 DEF WithInit, Effective, Files, Proposals
<1>3. \A d : Covered(d)' <=> Covered(d)
  BY <1>1, <1>2 DEF Covered, Proposals
<1> QED BY <1>1, <1>2, <1>3

LEMMA ResolutionCovered ==
  ASSUME ConfigInv, CoverInv,
         \/ \E q \in Requests : Begin(q)
         \/ Detect \/ CreateRun \/ \E p \in Proposals : Survey(p)
  PROVE  CoverInv'
<1>1. UNCHANGED << user, file, terminal >>
  BY DEF Begin, Detect, CreateRun, Survey
<1>2. /\ UserConfiguration' = UserConfiguration /\ \A d : Covered(d)' <=> Covered(d)
      /\ WithInit(UserConfiguration)' = WithInit(UserConfiguration)
  BY <1>1, CoverKept
<1>3. Covered(file)' /\ (terminal.pc = "writing" => Covered(terminal.bytes))'
  BY <1>1, <1>2 DEF CoverInv
<1>4. ASSUME NEW q \in Requests, Begin(q) PROVE CoverInv'
  <2>1. /\ resolution'.bytes = file /\ resolution'.request = q
        /\ resolution'.pc \in {"reading", "refused"} /\ resolution.pc = "idle"
    BY <1>4 DEF Begin, Idle
  <2> QED BY <1>1, <1>2, <1>3, <2>1 DEF CoverInv
<1>5. CASE Detect
  <2> DEFINE t == ResolveTrust(resolution.bytes)
             e == Layered(UserConfiguration, resolution.bytes, t)
             w == WithheldSettings(t, UserConfiguration, resolution.bytes)
  <2>1. /\ resolution.pc = "reading"
        /\ \/ resolution' = [resolution EXCEPT !.pc = "refused"]
           \/ resolution' = [resolution EXCEPT !.trusted = t, !.pc = "detected", !.effective = e,
                                               !.withheld = w]
    BY <1>5 DEF Detect
  <2>2. t \in BOOLEAN
    BY DEF ResolveTrust
  <2>3. e = Layered(UserConfiguration, resolution.bytes, t)
    OBVIOUS
  <2> HIDE DEF t, e, w
  <2>4. /\ resolution'.bytes = resolution.bytes /\ resolution'.request = resolution.request
        /\ \/ resolution'.pc = "refused"
           \/ resolution'.pc = "detected" /\ resolution'.effective = e
    BY <2>1 DEF ConfigInv, Shape
  <2> QED BY <1>1, <1>2, <1>3, <2>1, <2>2, <2>3, <2>4 DEF CoverInv, Here
<1>6. CASE CreateRun
  <2> DEFINE q == resolution.request
             c == Overridden(resolution.effective, q)
  <2>1. /\ resolution.pc = "surveyed"
        /\ \/ resolution' = [resolution EXCEPT !.pc = "refused"]
           \/ /\ resolution' = [resolution EXCEPT !.pc = "created", !.effective = c]
              /\ ~RequestRefused(q) /\ Valid(c, q.demonstration)
    BY <1>6 DEF CreateRun
  <2>2. /\ q \in Requests /\ user \in UserDocuments
        /\ resolution.effective \in WithInit(UserConfiguration)
    BY <2>1 DEF CoverInv
  <2>3. ~RequestRefused(q) /\ Valid(c, q.demonstration) => c \in Accepted
    <3> SUFFICES ASSUME ~RequestRefused(q), Valid(c, q.demonstration) PROVE c \in Accepted
      OBVIOUS
    <3>1. Valid(c, TRUE)
      BY DEF Valid
    <3> DEFINE resolved ==
                 UNION {WithInit(Apply("user", TRUE, BaseConfiguration, x)) : x \in UserDocuments}
               requests == {r \in Requests : ~RequestRefused(r)}
               overridden == {Overridden(e, r) : e \in resolved, r \in requests}
    <3>2. resolution.effective \in resolved
      BY <2>2 DEF UserConfiguration
    <3>3. q \in requests
      BY <2>2
    <3> HIDE DEF resolved, requests, q
    <3>4. c \in overridden
      BY <3>2, <3>3
    <3>5. Accepted = {z \in overridden : Valid(z, TRUE)}
      BY DEF Accepted, resolved, requests
    <3> HIDE DEF c, overridden
    <3> QED BY <3>1, <3>4, <3>5
  <2> HIDE DEF q, c
  <2>4. /\ resolution'.bytes = resolution.bytes
        /\ \/ resolution'.pc = "refused"
           \/ resolution'.pc = "created" /\ resolution'.effective = c /\ c \in Accepted
    BY <2>1, <2>3 DEF ConfigInv, Shape
  <2>5. Accepted' = Accepted
    BY DEF Accepted, WithInit, Effective, Files, Proposals
  <2> QED BY <1>1, <1>2, <1>3, <2>1, <2>4, <2>5 DEF CoverInv
<1>7. ASSUME NEW p \in Proposals, Survey(p) PROVE CoverInv'
  <2> DEFINE e == Surveyed(resolution.effective, p)
  <2>1. /\ resolution.pc = "detected"
        /\ resolution' = [resolution EXCEPT !.pc = "surveyed", !.effective = e]
    BY <1>7 DEF Survey
  <2>2. e \in WithInit(UserConfiguration)
    <3>1. PICK t \in BOOLEAN : resolution.effective = Layered(UserConfiguration, Here, t)
      BY <2>1 DEF CoverInv
    <3>2. Covered(Here)
      BY DEF CoverInv, Here
    <3>3. e \in Effective(UserConfiguration, {Here})
      BY <3>1 DEF Effective
    <3> QED BY <3>2, <3>3 DEF Covered
  <2> HIDE DEF e
  <2>3. /\ resolution'.bytes = resolution.bytes /\ resolution'.request = resolution.request
        /\ resolution'.pc = "surveyed" /\ resolution'.effective = e
    BY <2>1 DEF ConfigInv, Shape
  <2> QED BY <1>1, <1>2, <1>3, <2>1, <2>2, <2>3 DEF CoverInv
<1> QED BY <1>4, <1>5, <1>6, <1>7

LEMMA TerminalCovered ==
  ASSUME ConfigInv, CoverInv,
         \/ \E p \in Proposals : InitDetect(p)
         \/ TrustRead \/ Grant \/ Revoke \/ InitWrite \/ \E d \in Files : Edit(d)
  PROVE  CoverInv'
<1>1. UNCHANGED << user, resolution >>
  BY DEF InitDetect, TrustRead, Grant, Revoke, InitWrite, Edit
<1>2. /\ UserConfiguration' = UserConfiguration /\ \A d : Covered(d)' <=> Covered(d)
      /\ WithInit(UserConfiguration)' = WithInit(UserConfiguration)
  BY <1>1, CoverKept
<1>3. Accepted' = Accepted
  BY DEF Accepted, WithInit, Effective, Files, Proposals
<1>4. SUFFICES Covered(file') /\ (terminal'.pc = "writing" => Covered(terminal'.bytes))
  BY <1>1, <1>2, <1>3 DEF CoverInv, Here
<1>5. ASSUME NEW p \in Proposals, InitDetect(p)
      PROVE  Covered(file') /\ (terminal'.pc = "writing" => Covered(terminal'.bytes))
  <2> DEFINE t == ResolveTrust(file)
             c == Surveyed(Layered(UserConfiguration, file, t), p)
  <2>1. file' = file /\ terminal' = [pc |-> "writing", bytes |-> Render(c)]
    BY <1>5 DEF InitDetect
  <2>2. t \in BOOLEAN /\ WellFormed(user) /\ WellFormed(file) /\ Covered(file)
    BY DEF ResolveTrust, ConfigInv, DocumentsInv, CoverInv
  <2>3. Covered(Render(c))
    <3>1. c \in Effective(UserConfiguration, {file})
      <4> HIDE DEF t
      <4> QED BY <2>2 DEF Effective
    <3> HIDE DEF c
    <3> QED BY <2>2, <3>1, RenderIsCovered
  <2> HIDE DEF c
  <2> QED BY <2>1, <2>2, <2>3
<1>6. CASE InitWrite
  <2>1. terminal.pc = "writing" /\ file' = terminal.bytes /\ terminal'.pc = "granting"
    BY <1>6 DEF InitWrite, ConfigInv, Shape
  <2> QED BY <2>1 DEF CoverInv
<1>7. ASSUME NEW d \in Files, Edit(d)
      PROVE  Covered(file') /\ (terminal'.pc = "writing" => Covered(terminal'.bytes))
  BY <1>7, FilesAreCovered DEF Edit, CoverInv
<1>8. CASE TrustRead \/ Grant \/ Revoke
  <2>1. file' = file /\ (terminal' = terminal \/ terminal'.pc # "writing")
    BY <1>8 DEF TrustRead, Grant, Revoke, NoCommand
  <2> QED BY <2>1 DEF CoverInv
<1> QED BY <1>5, <1>6, <1>7, <1>8

LEMMA CoverStep ==
  ASSUME ConfigInv, CoverInv, [Next]_allVars
  PROVE  CoverInv'
<1>1. CASE UNCHANGED configVars
  <2>1. UNCHANGED << user, file, terminal, resolution >>
    BY <1>1 DEF configVars
  <2>2. /\ UserConfiguration' = UserConfiguration /\ \A d : Covered(d)' <=> Covered(d)
        /\ WithInit(UserConfiguration)' = WithInit(UserConfiguration)
    BY <2>1, CoverKept
  <2>3. Accepted' = Accepted
    BY DEF Accepted, WithInit, Effective, Files, Proposals
  <2> QED BY <2>1, <2>2, <2>3 DEF CoverInv, Here
<1>2. CASE ConfigurationNext
  BY <1>2, ResolutionCovered, TerminalCovered DEF ConfigurationNext
<1> QED BY <1>1, <1>2 DEF Next, allVars

\* A run is created with settings the gates are checked under, whatever the documents, the
\* projects and the requests are and however often the file is edited, trusted and written
\* again meanwhile: what is shown for one candidate holds for the candidates of every run.
THEOREM RunsAreCovered == Spec => []RunIsCovered
<1>1. Init => CoverInv
  BY CoverInit
<1>2. ConfigInv /\ CoverInv /\ [Next]_allVars => CoverInv'
  BY CoverStep
<1>3. CoverInv => RunIsCovered
  BY DEF CoverInv, RunIsCovered, AcceptedViews
<1> QED BY <1>1, <1>2, <1>3, ConfigInvariant, PTL DEF Spec

(***************************************************************************)
(* The gates.                                                              *)
(***************************************************************************)
\* A stored review that no candidate is eligible with.
Fails(review) == ~(RequiredReportsPassed(review) /\ HasRequiredProvider(review))

\* What speaks against the change of the current attempt.
Against ==
  \/ Tampered /\ configuration["protect_tests"] = 0 /\ facts.listed
  \/ facts.rejected # {} \/ MissingKinds # {}

GateShape ==
  /\ gate = [pc |-> gate.pc, attempt |-> gate.attempt, index |-> gate.index,
             records |-> gate.records, failed |-> gate.failed, review |-> gate.review,
             decision |-> gate.decision]
  /\ gate.review = [reports |-> gate.review.reports, blocker |-> gate.review.blocker]
  /\ facts = [ok |-> facts.ok, stale |-> facts.stale, listed |-> facts.listed,
              promoted |-> facts.promoted, rejected |-> facts.rejected]
  /\ evidence = [tests |-> evidence.tests, review |-> evidence.review]

\* Until the review of the attempt is stored, what is stored fails: the last attempt ended
\* in a repair because its tests or its review failed, and an error stores nothing.  What
\* speaks against the attempt is in the review that is being made, and then in the stored one.
AgainstInv ==
  /\ gate.pc \in {"editing", "testing", "reviewing", "providers"} => Fails(evidence.review)
  /\ gate.pc \in {"testing", "reviewing"} => facts.rejected = {}
  /\ gate.pc = "providers" /\ Against =>
       gate.review.blocker \/ ~RequiredReportsPassed(gate.review)
  /\ gate.pc = "joining" /\ Against => evidence.review.blocker \/ Fails(evidence.review)
  /\ gate.decision = "eligible" => gate.pc = "done"

GateInv == GateShape /\ AgainstInv /\ NothingAgainstEligible

LEMMA GateInit ==
  ASSUME Init
  PROVE  GateInv
<1>1. /\ gate = Fresh \/ gate = [Fresh EXCEPT !.pc = "idle"]
      /\ facts = NoFacts /\ evidence = [tests |-> NoTests, review |-> NoReview]
  BY DEF Init, NoGates, GatesInit
<1>2. /\ gate.pc \in {"editing", "idle"} /\ gate.decision = "open" /\ gate.review = NoReview
      /\ evidence.review = NoReview
  BY <1>1 DEF Fresh
<1>3. GateShape
  BY <1>1 DEF GateShape, Fresh, NoFacts, NoReview
<1>4. Fails(evidence.review)
  BY <1>2 DEF Fails, HasRequiredProvider, NoReview
<1> QED BY <1>2, <1>3, <1>4 DEF GateInv, AgainstInv, NothingAgainstEligible

\* Records of these fields, whatever is in them.
LEMMA ShapeKept ==
  ASSUME \E pc, a, i, r, f, v, b, d :
           gate' = [pc |-> pc, attempt |-> a, index |-> i, records |-> r, failed |-> f,
                    review |-> [reports |-> v, blocker |-> b], decision |-> d],
         \E o, s, l, m, j : facts' = [ok |-> o, stale |-> s, listed |-> l, promoted |-> m,
                                      rejected |-> j],
         \E t, v : evidence' = [tests |-> t, review |-> v]
  PROVE  GateShape'
BY DEF GateShape

\* What tampering and missing reviews are depends on the worktree and the configuration.
LEMMA AgainstKept ==
  ASSUME UNCHANGED << configuration, worktree >>
  PROVE  Tampered' = Tampered /\ MissingKinds' = MissingKinds
BY DEF Tampered, MissingKinds, Reviews, Commands

LEMMA ImplementGate ==
  ASSUME GateInv, NEW w, Implement(w)
  PROVE  GateInv'
<1>1. /\ gate.pc = "editing" /\ facts' = NoFacts /\ evidence' = evidence
      /\ gate' = [gate EXCEPT !.pc = "testing", !.index = 1, !.records = << >>,
                              !.failed = FALSE, !.review = NoReview]
  BY DEF Implement, AtGate
<1>2. gate' = [pc |-> "testing", attempt |-> gate.attempt, index |-> 1, records |-> << >>,
               failed |-> FALSE, review |-> NoReview, decision |-> gate.decision]
  BY <1>1 DEF GateInv, GateShape
<1>3. GateShape'
  <2>1. \E pc, a, i, r, f, v, b, d :
          gate' = [pc |-> pc, attempt |-> a, index |-> i, records |-> r, failed |-> f,
                   review |-> [reports |-> v, blocker |-> b], decision |-> d]
    BY <1>2 DEF NoReview
  <2>2. \E o, s, l, m, j : facts' = [ok |-> o, stale |-> s, listed |-> l, promoted |-> m,
                                      rejected |-> j]
    BY <1>1 DEF NoFacts
  <2>3. \E t, v : evidence' = [tests |-> t, review |-> v]
    BY <1>1 DEF GateInv, GateShape
  <2> QED BY <2>1, <2>2, <2>3, ShapeKept
<1>4. gate'.pc = "testing" /\ gate'.decision # "eligible" /\ facts'.rejected = {}
  BY <1>1, <1>2 DEF GateInv, AgainstInv, NoFacts
<1>5. Fails(evidence.review)'
  BY <1>1 DEF GateInv, AgainstInv, Fails, RequiredReportsPassed, HasRequiredProvider
<1> QED BY <1>3, <1>4, <1>5 DEF GateInv, AgainstInv, NothingAgainstEligible

\* The commands record what they did and decide nothing.
LEMMA CommandGate ==
  ASSUME GateInv, NEW p, TestCommand(p) \/ ReviewCommand(p)
  PROVE  GateInv'
<1>1. /\ gate.pc \in {"testing", "reviewing"} /\ evidence' = evidence
      /\ gate'.pc = gate.pc /\ gate'.decision = gate.decision
  BY DEF TestCommand, ReviewCommand, AtGate, GateInv, GateShape
<1>2. \E i, r, f, v, b :
        gate' = [pc |-> gate.pc, attempt |-> gate.attempt, index |-> i, records |-> r,
                 failed |-> f, review |-> [reports |-> v, blocker |-> b],
                 decision |-> gate.decision]
  <2>1. CASE TestCommand(p)
    <3>1. PICK i, r : gate' = [gate EXCEPT !.index = i, !.records = r]
      BY <2>1 DEF TestCommand
    <3>2. gate' = [pc |-> gate.pc, attempt |-> gate.attempt, index |-> i, records |-> r,
                   failed |-> gate.failed, review |-> gate.review, decision |-> gate.decision]
      BY <3>1 DEF GateInv, GateShape
    <3> QED BY <3>2 DEF GateInv, GateShape
  <2>2. CASE ReviewCommand(p)
    <3>1. PICK i, f, b : gate' = [gate EXCEPT !.index = i, !.failed = f, !.review.blocker = b]
      BY <2>2 DEF ReviewCommand
    <3>2. gate' = [pc |-> gate.pc, attempt |-> gate.attempt, index |-> i,
                   records |-> gate.records, failed |-> f,
                   review |-> [reports |-> gate.review.reports, blocker |-> b],
                   decision |-> gate.decision]
      BY <3>1 DEF GateInv, GateShape
    <3> QED BY <3>2
  <2> QED BY <2>1, <2>2
<1>3. \E o, s : facts' = [ok |-> o, stale |-> s, listed |-> facts.listed,
                          promoted |-> facts.promoted, rejected |-> facts.rejected]
  <2>1. facts' = facts \/ \E o, s : facts' = [facts EXCEPT !.ok = o, !.stale = s]
    BY DEF TestCommand, ReviewCommand, Noted
  <2> QED BY <2>1 DEF GateInv, GateShape
<1>4. GateShape'
  BY <1>1, <1>2, <1>3 DEF GateInv, GateShape
<1>5. facts'.rejected = {} /\ gate'.decision # "eligible"
  BY <1>1, <1>3 DEF GateInv, AgainstInv
<1>6. Fails(evidence.review)'
  BY <1>1 DEF GateInv, AgainstInv, Fails, RequiredReportsPassed, HasRequiredProvider
<1> QED BY <1>1, <1>4, <1>5, <1>6 DEF GateInv, AgainstInv, NothingAgainstEligible

LEMMA LocalGate ==
  ASSUME GateInv, NEW listed \in BOOLEAN, LocalReport(listed)
  PROVE  GateInv'
<1> DEFINE blocks == IntegrityBlocks(listed) \/ MissingKinds # {}
           passed == ~gate.failed /\ ~blocks
           blocker == gate.review.blocker \/ blocks
           report == Report("local", TRUE, passed)
           all == gate.review.reports \cup {report}
<1>1. /\ gate.pc = "reviewing" /\ UNCHANGED << configuration, worktree, evidence >>
      /\ gate' = [gate EXCEPT !.pc = "providers", !.index = 1, !.failed = FALSE,
                    !.review.blocker = blocker, !.review.reports = all]
      /\ facts' = [facts EXCEPT !.listed = listed]
  BY DEF LocalReport, AtGate
<1>2. Tampered' = Tampered /\ MissingKinds' = MissingKinds
  BY <1>1, AgainstKept
<1>3. blocks <=> (Tampered /\ configuration["protect_tests"] = 0 /\ listed) \/ MissingKinds # {}
  BY DEF IntegrityBlocks, Tampered
<1>4. blocks => blocker
  OBVIOUS
<1> HIDE DEF blocks, blocker, all
<1>5. gate' = [pc |-> "providers", attempt |-> gate.attempt, index |-> 1,
               records |-> gate.records, failed |-> FALSE,
               review |-> [reports |-> all, blocker |-> blocker], decision |-> gate.decision]
  BY <1>1 DEF GateInv, GateShape
<1>6. facts' = [ok |-> facts.ok, stale |-> facts.stale, listed |-> listed,
                promoted |-> facts.promoted, rejected |-> facts.rejected]
  BY <1>1 DEF GateInv, GateShape
<1>7. GateShape'
  <2>1. \E pc, a, i, r, f, v, b, d :
          gate' = [pc |-> pc, attempt |-> a, index |-> i, records |-> r, failed |-> f,
                   review |-> [reports |-> v, blocker |-> b], decision |-> d]
    BY <1>5
  <2>2. \E o, s, l, m, j : facts' = [ok |-> o, stale |-> s, listed |-> l, promoted |-> m,
                                      rejected |-> j]
    BY <1>6
  <2>3. \E t, v : evidence' = [tests |-> t, review |-> v]
    BY <1>1 DEF GateInv, GateShape
  <2> QED BY <2>1, <2>2, <2>3, ShapeKept
<1>8. facts'.rejected = {} /\ gate'.decision # "eligible" /\ facts'.listed = listed
  BY <1>1, <1>5, <1>6 DEF GateInv, AgainstInv
<1>9. Against' => blocker
  BY <1>1, <1>2, <1>3, <1>4, <1>8 DEF Against
<1>10. Fails(evidence.review)'
  BY <1>1 DEF GateInv, AgainstInv, Fails, RequiredReportsPassed, HasRequiredProvider
<1>11. gate'.pc = "providers" /\ gate'.review.blocker = blocker
  BY <1>5
<1> QED BY <1>7, <1>8, <1>9, <1>10, <1>11 DEF GateInv, AgainstInv, NothingAgainstEligible

\* A provider that speaks against the change leaves a failed report of a required provider
\* or a blocker.
LEMMA ProviderGate ==
  ASSUME GateInv, NEW verdict, Provider(verdict)
  PROVE  GateInv'
<1> DEFINE provider == Providers[gate.index]
           blocker == gate.review.blocker \/ verdict = "gated_policy"
           report == ReportOf(provider, verdict)
           all == IF verdict = "skipped" THEN gate.review.reports
                  ELSE gate.review.reports \cup {report}
           promoted == facts.promoted \/ Promoted(verdict)
           rejected == IF verdict \in {"failed", "gated_policy"}
                       THEN facts.rejected \cup {provider} ELSE facts.rejected
<1>1. /\ gate.pc = "providers" /\ UNCHANGED << configuration, worktree, evidence >>
      /\ IF Enabled(provider) THEN verdict \in Verdicts(provider) ELSE verdict = "skipped"
      /\ gate' = [gate EXCEPT !.index = gate.index + 1, !.review.blocker = blocker,
                              !.review.reports = all]
      /\ facts' = [facts EXCEPT !.promoted = promoted, !.rejected = rejected]
  BY DEF Provider, AtGate
<1>2. Tampered' = Tampered /\ MissingKinds' = MissingKinds
  BY <1>1, AgainstKept
<1>3. verdict = "failed" => report.required /\ ~report.passed /\ report \in all
  <2> SUFFICES ASSUME verdict = "failed" PROVE report.required /\ ~report.passed /\ report \in all
    OBVIOUS
  <2>1. provider # "ai"
    BY <1>1 DEF Verdicts
  <2> QED BY <2>1 DEF ReportOf, Report
<1>4. /\ verdict = "gated_policy" => blocker
      /\ gate.review.blocker => blocker
      /\ gate.review.reports \subseteq all
      /\ rejected # {} => facts.rejected # {} \/ verdict \in {"failed", "gated_policy"}
  OBVIOUS
<1> HIDE DEF blocker, all, promoted, rejected, report, provider
<1>5. gate' = [pc |-> "providers", attempt |-> gate.attempt, index |-> gate.index + 1,
               records |-> gate.records, failed |-> gate.failed,
               review |-> [reports |-> all, blocker |-> blocker], decision |-> gate.decision]
  BY <1>1 DEF GateInv, GateShape
<1>6. facts' = [ok |-> facts.ok, stale |-> facts.stale, listed |-> facts.listed,
                promoted |-> promoted, rejected |-> rejected]
  BY <1>1 DEF GateInv, GateShape
<1>7. GateShape'
  <2>1. \E pc, a, i, r, f, v, b, d :
          gate' = [pc |-> pc, attempt |-> a, index |-> i, records |-> r, failed |-> f,
                   review |-> [reports |-> v, blocker |-> b], decision |-> d]
    BY <1>5
  <2>2. \E o, s, l, m, j : facts' = [ok |-> o, stale |-> s, listed |-> l, promoted |-> m,
                                      rejected |-> j]
    BY <1>6
  <2>3. \E t, v : evidence' = [tests |-> t, review |-> v]
    BY <1>1 DEF GateInv, GateShape
  <2> QED BY <2>1, <2>2, <2>3, ShapeKept
<1>8. /\ gate'.pc = "providers" /\ gate'.decision = gate.decision
      /\ gate'.review.blocker = blocker /\ gate'.review.reports = all
      /\ facts'.listed = facts.listed /\ facts'.rejected = rejected
  BY <1>5, <1>6
<1>9. gate.decision # "eligible"
  BY <1>1 DEF GateInv, AgainstInv
<1>10. Against' => blocker \/ ~RequiredReportsPassed(gate.review)'
  <2> SUFFICES ASSUME Against', ~blocker PROVE ~RequiredReportsPassed(gate.review)'
    OBVIOUS
  <2>1. Against \/ verdict = "failed"
    BY <1>1, <1>2, <1>4, <1>8 DEF Against
  <2>2. CASE verdict = "failed"
    BY <1>3, <1>8, <2>2 DEF RequiredReportsPassed
  <2>3. CASE Against
    <3>1. ~RequiredReportsPassed(gate.review)
      BY <1>1, <1>4, <2>3 DEF GateInv, AgainstInv
    <3> QED BY <3>1, <1>4, <1>8 DEF RequiredReportsPassed
  <2> QED BY <2>1, <2>2, <2>3
<1>11. Fails(evidence.review)'
  BY <1>1 DEF GateInv, AgainstInv, Fails, RequiredReportsPassed, HasRequiredProvider
<1> QED BY <1>7, <1>8, <1>9, <1>10, <1>11 DEF GateInv, AgainstInv, NothingAgainstEligible

LEMMA EndedShape ==
  ASSUME GateInv, NEW pc, gate' = Ended(pc)
  PROVE  /\ \E q, i, a : gate' = [pc |-> q, attempt |-> a, index |-> i, records |-> gate.records,
                                  failed |-> gate.failed, review |-> gate.review,
                                  decision |-> gate.decision]
         /\ gate'.pc \in {pc, "stopped"} /\ gate'.decision = gate.decision
<1> DEFINE q == IF cancelled THEN "stopped" ELSE pc
           a == IF pc = "editing" THEN gate.attempt + 1 ELSE gate.attempt
<1>1. gate' = [gate EXCEPT !.pc = q, !.index = 1, !.attempt = a]
  BY DEF Ended
<1>2. q \in {pc, "stopped"}
  OBVIOUS
<1> HIDE DEF q, a
<1>3. gate' = [pc |-> q, attempt |-> a, index |-> 1, records |-> gate.records,
               failed |-> gate.failed, review |-> gate.review, decision |-> gate.decision]
  BY <1>1 DEF GateInv, GateShape
<1>4. gate'.pc = q /\ gate'.decision = gate.decision
  BY <1>3
<1>5. \E x, i, b : gate' = [pc |-> x, attempt |-> b, index |-> i, records |-> gate.records,
                            failed |-> gate.failed, review |-> gate.review,
                            decision |-> gate.decision]
  BY <1>3
<1> QED BY <1>2, <1>4, <1>5

LEMMA TestNodeGate ==
  ASSUME GateInv, TestNodeEnds
  PROVE  GateInv'
<1>1. PICK pc \in {"reviewing", "joining", "editing"} : gate' = Ended(pc)
  BY DEF TestNodeEnds, AfterFailure
<1>2. /\ gate.pc = "testing" /\ facts' = facts /\ UNCHANGED << configuration, worktree >>
      /\ \E t : evidence' = [evidence EXCEPT !.tests = t]
  BY DEF TestNodeEnds, AtGate
<1>3. /\ \E t : evidence' = [tests |-> t, review |-> evidence.review]
      /\ evidence'.review = evidence.review
  BY <1>2 DEF GateInv, GateShape
<1>4. /\ GateShape'
      /\ gate'.pc \in {"reviewing", "joining", "editing", "stopped"}
      /\ gate'.decision # "eligible"
  <2>1. gate'.decision # "eligible" /\ gate'.pc \in {pc, "stopped"}
    BY <1>1, <1>2, EndedShape DEF GateInv, AgainstInv
  <2>2. GateShape'
    <3>1. PICK q, i, a : gate' = [pc |-> q, attempt |-> a, index |-> i, records |-> gate.records,
                                  failed |-> gate.failed, review |-> gate.review,
                                  decision |-> gate.decision]
      BY <1>1, EndedShape
    <3> QED BY <3>1, <1>2, <1>3 DEF GateInv, GateShape
  <2> QED BY <2>1, <2>2
<1>5. facts'.rejected = {} /\ Fails(evidence'.review)
  BY <1>2, <1>3 DEF GateInv, AgainstInv
<1> QED BY <1>4, <1>5 DEF GateInv, AgainstInv, NothingAgainstEligible, Fails,
                          RequiredReportsPassed, HasRequiredProvider

LEMMA ReviewNodeGate ==
  ASSUME GateInv, ReviewNodeEnds
  PROVE  GateInv'
<1>1. /\ gate.pc = "providers" /\ facts' = facts /\ UNCHANGED << configuration, worktree >>
      /\ evidence' = [evidence EXCEPT !.review = gate.review]
      /\ \/ ~Fails(gate.review) /\ gate' = Ended("joining")
         \/ Fails(gate.review) /\ \E pc \in {"joining", "editing"} : gate' = Ended(pc)
  BY DEF ReviewNodeEnds, AtGate, AfterFailure, Fails
<1>2. PICK pc \in {"joining", "editing"} :
        gate' = Ended(pc) /\ (~Fails(gate.review) => pc = "joining")
  BY <1>1
<1>3. evidence' = [tests |-> evidence.tests, review |-> gate.review]
  BY <1>1 DEF GateInv, GateShape
<1>4. /\ gate'.pc \in {pc, "stopped"} /\ gate'.decision # "eligible"
  BY <1>1, <1>2, EndedShape DEF GateInv, AgainstInv
<1>5. GateShape'
  <2>1. PICK q, i, a : gate' = [pc |-> q, attempt |-> a, index |-> i, records |-> gate.records,
                                failed |-> gate.failed, review |-> gate.review,
                                decision |-> gate.decision]
    BY <1>2, EndedShape
  <2> QED BY <2>1, <1>1, <1>3 DEF GateInv, GateShape
<1>6. Tampered' = Tampered /\ MissingKinds' = MissingKinds
  BY <1>1, AgainstKept
<1>7. Against' => evidence'.review.blocker \/ Fails(evidence'.review)
  <2>1. Against' => Against
    BY <1>1, <1>6 DEF Against
  <2>2. evidence'.review = gate.review
    BY <1>3
  <2> QED BY <2>1, <2>2, <1>1 DEF GateInv, AgainstInv, Fails
<1>8. Fails(evidence.review)' <=> Fails(gate.review)
  BY <1>3 DEF Fails, RequiredReportsPassed, HasRequiredProvider
<1>9. Fails(evidence'.review) <=> Fails(gate.review)
  BY <1>3 DEF Fails, RequiredReportsPassed, HasRequiredProvider
<1> QED BY <1>2, <1>4, <1>5, <1>7, <1>8, <1>9 DEF GateInv, AgainstInv, NothingAgainstEligible

LEMMA ErrorGate ==
  ASSUME GateInv, GateError
  PROVE  GateInv'
<1>1. /\ gate.pc \in {"testing", "reviewing", "providers"} /\ evidence' = evidence
      /\ gate' = [gate EXCEPT !.pc = "joining"]
      /\ \E r : facts' = [facts EXCEPT !.rejected = r]
  BY DEF GateError
<1>2. gate' = [pc |-> "joining", attempt |-> gate.attempt, index |-> gate.index,
               records |-> gate.records, failed |-> gate.failed, review |-> gate.review,
               decision |-> gate.decision]
  BY <1>1 DEF GateInv, GateShape
<1>3. GateShape'
  BY <1>1, <1>2 DEF GateInv, GateShape
<1>4. gate'.pc = "joining" /\ gate'.decision # "eligible"
  BY <1>1, <1>2 DEF GateInv, AgainstInv
<1>5. Fails(evidence.review)'
  BY <1>1 DEF GateInv, AgainstInv, Fails, RequiredReportsPassed, HasRequiredProvider
<1> QED BY <1>3, <1>4, <1>5 DEF GateInv, AgainstInv, NothingAgainstEligible

LEMMA JoinGate ==
  ASSUME GateInv, Join
  PROVE  GateInv'
<1> DEFINE decision == IF Eligible THEN "eligible" ELSE "excluded"
<1>1. /\ gate.pc = "joining" /\ UNCHANGED << configuration, worktree, evidence, facts >>
      /\ gate' = [gate EXCEPT !.pc = "done", !.decision = decision]
  BY DEF Join, AtGate
<1>2. decision = "eligible" => Eligible
  OBVIOUS
<1> HIDE DEF decision
<1>3. gate' = [pc |-> "done", attempt |-> gate.attempt, index |-> gate.index,
               records |-> gate.records, failed |-> gate.failed, review |-> gate.review,
               decision |-> decision]
  BY <1>1 DEF GateInv, GateShape
<1>4. GateShape'
  BY <1>1, <1>3 DEF GateInv, GateShape
<1>5. Eligible => ~Against /\ worktree.diff = "applies"
  BY <1>1 DEF GateInv, AgainstInv, Eligible, Fails
<1>6. gate'.pc = "done" /\ gate'.decision = decision
  BY <1>3
<1>7. AgainstInv'
  BY <1>6 DEF AgainstInv
<1>8. Tampered' = Tampered /\ MissingKinds' = MissingKinds
  BY <1>1, AgainstKept
<1>9. NothingAgainstEligible'
  BY <1>1, <1>2, <1>5, <1>6, <1>8 DEF NothingAgainstEligible, Against
<1> QED BY <1>4, <1>7, <1>9 DEF GateInv

\* A step that at most stops the candidate.
LEMMA CancelGate ==
  ASSUME GateInv, UNCHANGED << configuration, worktree, evidence, facts >>,
         gate' = gate \/ (gate.pc # "done" /\ gate' = [gate EXCEPT !.pc = "stopped"])
  PROVE  GateInv'
<1>1. Tampered' = Tampered /\ MissingKinds' = MissingKinds
  BY AgainstKept
<1>2. CASE gate' = gate
  <2>1. Against' <=> Against
    BY <1>1 DEF Against
  <2>2. /\ Fails(evidence.review)' <=> Fails(evidence.review)
        /\ RequiredReportsPassed(gate.review)' <=> RequiredReportsPassed(gate.review)
    BY <1>2 DEF Fails, RequiredReportsPassed, HasRequiredProvider
  <2> QED BY <1>1, <1>2, <2>1, <2>2
          DEF GateInv, GateShape, AgainstInv, NothingAgainstEligible
<1>3. CASE gate.pc # "done" /\ gate' = [gate EXCEPT !.pc = "stopped"]
  <2>1. gate' = [pc |-> "stopped", attempt |-> gate.attempt, index |-> gate.index,
                 records |-> gate.records, failed |-> gate.failed, review |-> gate.review,
                 decision |-> gate.decision]
    BY <1>3 DEF GateInv, GateShape
  <2>2. GateShape'
    BY <2>1 DEF GateInv, GateShape
  <2>3. gate'.pc = "stopped" /\ gate'.decision # "eligible"
    BY <2>1, <1>3 DEF GateInv, AgainstInv
  <2> QED BY <2>2, <2>3 DEF GateInv, AgainstInv, NothingAgainstEligible
<1> QED BY <1>2, <1>3

LEMMA GateStep ==
  ASSUME GateInv, [Next]_allVars
  PROVE  GateInv'
<1>1. CASE UNCHANGED gateVars
  BY <1>1, CancelGate DEF gateVars
<1>2. CASE Cancel
  <2>1. /\ UNCHANGED << configuration, worktree, evidence, facts >>
        /\ gate' = gate \/ (gate.pc # "done" /\ gate' = [gate EXCEPT !.pc = "stopped"])
    BY <1>2 DEF Cancel
  <2> QED BY <2>1, CancelGate
<1>3. CASE GatesNext
  BY <1>2, <1>3, ImplementGate, CommandGate, LocalGate, ProviderGate, TestNodeGate,
     ReviewNodeGate, ErrorGate, JoinGate DEF GatesNext
<1> QED BY <1>1, <1>3 DEF Next, allVars

\* What the code counts against the last attempt is not forgotten on the way to the decision,
\* for any commands, worktrees, verdicts and number of repairs: unapproved tampering that is
\* listed and protected against, a failed scanner or adapter, a promoted finding of a category
\* the join looks for, an error, a kind of review without a command, a diff that does not apply.
\* An attempt whose gates end in an error is not decided on what an earlier one stored
\* (evaluate_eligibility).
THEOREM NothingAgainst == Spec => []NothingAgainstEligible
<1>1. Init => GateInv
  BY GateInit
<1>2. GateInv /\ [Next]_allVars => GateInv'
  BY GateStep
<1>3. GateInv => NothingAgainstEligible
  BY DEF GateInv
<1> QED BY <1>1, <1>2, <1>3, PTL DEF Spec
=============================================================================
