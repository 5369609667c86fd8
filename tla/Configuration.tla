---------------------------- MODULE Configuration ----------------------------
(***************************************************************************)
(* How the configuration of a run comes about: the layers and the authority*)
(* of each (crates/infrastructure/src/configuration/resolver.rs), the trust*)
(* records (trust.rs), `heikas init` and `heikas trust`, and the request   *)
(* that creates a run (crates/application/src/usecases/service.rs).        *)
(*                                                                         *)
(* A setting that has a safety meaning has a level, the higher the more    *)
(* permissive; the level of a switch is 0 or 1, of an unset minimum Unset. *)
(* A list is a set, a command catalogue a sequence, any other setting a    *)
(* plain value.  The bytes of a file are the document they hold, so the    *)
(* digest of a file is the document itself.                                *)
(***************************************************************************)
EXTENDS ProjectSurvey, FiniteSetsExt, Functions

CONSTANTS
  UserDocuments,         \* what the owner's own configuration may hold
  RepositoryDocuments,   \* what the file in the repository may hold
  Projects,              \* repositories without a catalogue, as the survey sees them
  MaxInterventions,      \* bound: edits of the repository's file and commands at the terminal
  Requests               \* requests to create a run

VARIABLES
  user,        \* the owner's configuration
  file,        \* .heikas/forge.toml in the repository
  trust,       \* the trust record of the repository: a digest or NoDocument
  terminal,    \* the command running at the owner's terminal
  resolution,  \* the request that is being turned into a run
  reviewed,    \* history: the documents trust was given for
  written,     \* history: the documents `heikas init` wrote
  interventions  \* history: how often somebody edited the file or typed a command

configVars == << user, file, trust, terminal, resolution, reviewed, written, interventions >>

(***************************************************************************)
(* The settings of each section and the rule a repository is held to.      *)
(***************************************************************************)
Under(rule, settings) == {rule} \X settings
RunSection ==
  Under("tighten", {"candidates", "max_parallel_candidates", "max_repairs", "wall_clock",
                    "max_output", "require_clean"})
  \cup Under("owner", {"commit_policy"})
AgentSection ==
  Under("trust", {"driver", "fixture_script"})
  \cup Under("owner", {"model", "endpoint", "api_key", "executable", "extra_arguments"})
  \cup Under("tighten", {"max_turns", "agent_timeout", "network"})
QualitySection == Under("tighten", {"profile", "minimum_line_coverage", "protect_tests"})
ScannerSection ==
  Under("tighten", {"scanner_enabled", "scanner_wait"})
  \cup Under("trust", {"scanner_program", "scanner_arguments"})
  \cup Under("owner", {"scanner_host", "scanner_token"})
  \cup Under("free", {"scanner_project", "scanner_timeout"})
McpSection ==
  Under("tighten", {"mcp_enabled"}) \cup Under("trust", {"mcp_program", "mcp_arguments"})
  \cup Under("owner", {"mcp_token"}) \cup Under("free", {"mcp_project", "mcp_timeout"})
AiSection ==
  Under("free", {"ai_enabled"}) \cup Under("tighten", {"advisory_only"})
  \cup Under("list", {"gate_rules"})
GitSection == Under("owner", {"branch_prefix", "author_name", "include_dirty"})
PolicySection ==
  Under("list", {"protected_paths", "sensitive_paths"})
  \cup Under("limit", {"max_read", "max_write"})
RedactionSection ==
  Under("list", {"secret_variables", "patterns"}) \cup Under("tighten", {"redact_home"})
EnvironmentSection == Under("allowlist", {"allowlist"})
CommandsSection == Under("trust", {"commands"})

Gated ==
  RunSection \cup AgentSection \cup QualitySection \cup ScannerSection \cup McpSection
  \cup AiSection \cup GitSection \cup PolicySection \cup RedactionSection
  \cup EnvironmentSection \cup CommandsSection
Rules == {"owner", "trust", "tighten", "free", "limit", "list", "allowlist"}
Settings == {g[2] : g \in Gated}
Rule == [s \in Settings |-> CHOOSE rule \in Rules : << rule, s >> \in Gated]
Ruled(rules) == {s \in Settings : Rule[s] \in rules}

Unset == 3
Essential == {"essential"}

\* base_configuration: the defaults of every layer.
Switches == {"require_clean", "protect_tests", "scanner_wait", "redact_home"}
BaseConfiguration ==
  [s \in Settings |->
     IF Rule[s] \in {"list"} THEN {} ELSE IF s = "allowlist" THEN Essential
     ELSE IF s = "commands" THEN << >> ELSE IF s = "minimum_line_coverage" THEN Unset
     ELSE IF s \in Switches THEN 0 ELSE 1]

\* A document declares some settings; `bad` are the ones whose value is none, and
\* "document" when the text as a whole is refused by parse_document.
Document(declared, bad) == [declared |-> declared, bad |-> bad]
NoDocument == Document(<< >>, {"absent"})
Declares(d, s) == s \in DOMAIN d.declared
Parses(d) == "document" \notin d.bad

\* What the types of ForgeDocument guarantee of a document: the settings are known ones
\* and the levels numbers.  A declared minimum is below no minimum.
Levels == Ruled({"tighten", "limit"})
WellFormed(d) ==
  /\ DOMAIN d.declared \subseteq Settings
  /\ \A s \in Levels : Declares(d, s) => d.declared[s] \in Int
  /\ Declares(d, "minimum_line_coverage") => d.declared["minimum_line_coverage"] < Unset

ASSUME ConfigurationAssumption ==
  /\ \A d \in UserDocuments \cup RepositoryDocuments : WellFormed(d)
  /\ MaxInterventions \in Nat

(***************************************************************************)
(* AuthorityGate and apply.                                                *)
(***************************************************************************)
\* Mutant: a trusted repository may set anything.
TrustOpensAll(authority, trusted, current, s, value) ==
  \/ authority = "user" \/ trusted
  \/ Rule[s] = "tighten" /\ value <= current[s]
  \/ Rule[s] \in {"free", "limit", "list"}
Honours(authority, trusted, current, s, value) ==
  \/ authority = "user"
  \/ Rule[s] = "trust" /\ trusted
  \/ Rule[s] = "tighten" /\ value <= current[s]
  \/ Rule[s] \in {"free", "limit", "list"}

\* What a setting becomes: lists are joined and limits only fall.
Merged(authority, current, s, value) ==
  IF s = "allowlist" THEN Essential \cup value
  ELSE IF authority = "user" THEN value
  ELSE IF Rule[s] = "list" THEN current[s] \cup value
  ELSE IF Rule[s] = "limit" THEN Min({current[s], value})
  ELSE value

Apply(authority, trusted, current, d) ==
  [s \in Settings |->
     IF Declares(d, s) /\ Honours(authority, trusted, current, s, d.declared[s])
     THEN Merged(authority, current, s, d.declared[s]) ELSE current[s]]

\* The number of candidates and the profile are read before the gate is asked, the commit
\* policy, the driver and the commands only when they are honoured.
ApplyFails(authority, trusted, current, d) ==
  \E s \in d.bad :
    \/ s \in {"candidates", "profile"}
    \/ s \in {"commit_policy", "driver", "commands"} /\ Honours(authority, trusted, current, s, 0)

Reason(s) ==
  CASE Rule[s] = "owner" -> "user_configuration_only"
    [] Rule[s] = "trust" -> "requires_repository_trust"
    [] OTHER -> "would_weaken_policy"

\* An allow list of the repository is never taken, and reported only if it names more.
\* Mutant: what a trusted repository may not do is not reported.
ReportsNothingTrusted(trusted, current, d) ==
  {<< s, Reason(s) >> :
     s \in {x \in DOMAIN d.declared :
              ~trusted /\ ~Honours("repository", trusted, current, x, d.declared[x])}}
WithheldSettings(trusted, current, d) ==
  {<< s, Reason(s) >> :
     s \in {x \in DOMAIN d.declared \cup (d.bad \cap Ruled({"owner", "trust"})) :
              IF x = "allowlist" THEN ~(d.declared[x] \subseteq current[x])
              ELSE ~Honours("repository", trusted, current, x,
                            IF Declares(d, x) THEN d.declared[x] ELSE 0)}}

(***************************************************************************)
(* The configuration of a run.                                             *)
(***************************************************************************)
UserConfiguration == Apply("user", TRUE, BaseConfiguration, user)
RequiredReviewKinds(profile) ==
  IF profile = 1 THEN {"lint"}
  ELSE {"format", "lint", "audit", "secret_scan", "static_analysis", "policy"}

\* The minimum that applies: the strict profile has one of its own.
MinimumLineCoverage(c) ==
  IF c["minimum_line_coverage"] # Unset THEN c["minimum_line_coverage"]
  ELSE IF c["profile"] = 0 THEN 1 ELSE Unset

\* apply_request_overrides: the request is the owner's.  A declared command takes the place
\* of another of its identifier, and one that names a path is refused.
Declared(kind) == Command(<< "declared", kind >>, kind, TRUE, "none", FALSE)
WithDeclarations(commands, kinds) ==
  LET Other(c) == c.id \notin {Declared(k).id : k \in kinds}
      added    == SetToSeq(kinds)
  IN  SelectSeq(commands, Other) \o [i \in DOMAIN added |-> Declared(added[i])]
Overridden(c, request) ==
  [s \in Settings |->
     IF s = "commands" THEN WithDeclarations(c[s], request.kinds)
     ELSE IF s \in DOMAIN request.declared THEN request.declared[s] ELSE c[s]]
RequestRefused(request) == request.kinds # {} /\ request.namesPath

\* EffectiveConfiguration::validate.  A budget of zero is tighter than any other and is
\* refused here, and driver 2 is the scripted one.
Budgets == {"max_parallel_candidates", "wall_clock", "max_turns", "max_output"}
Valid(c, demonstration) ==
  /\ \A s \in Budgets : c[s] >= 0
  /\ ValidCatalogue(c["commands"])
  /\ \A k \in {"test"} \cup RequiredReviewKinds(c["profile"]) : OfKind(c["commands"], k) # {}
  /\ c["driver"] = 2 => demonstration

(***************************************************************************)
(* Creating a run: create_run with resolve and detect.                     *)
(***************************************************************************)
NoRequest == [declared |-> << >>, kinds |-> {}, namesPath |-> FALSE, demonstration |-> FALSE]
Idle == [pc |-> "idle", request |-> NoRequest, bytes |-> NoDocument, trusted |-> FALSE,
         effective |-> BaseConfiguration, withheld |-> {}]
NoCommand == [pc |-> "idle", bytes |-> NoDocument]

ConfigurationInit ==
  /\ user \in UserDocuments /\ file \in RepositoryDocuments \cup {NoDocument}
  /\ trust = NoDocument /\ terminal = NoCommand /\ resolution = Idle
  /\ reviewed = {} /\ written = {} /\ interventions = 0

\* The bytes of the repository's file are read once, for the digest and for the document.
Begin(request) ==
  /\ resolution.pc = "idle"
  /\ resolution' = [Idle EXCEPT !.request = request, !.bytes = file,
                       !.pc = IF Parses(user) /\ Parses(file) THEN "reading" ELSE "refused"]
  /\ UNCHANGED << user, file, trust, terminal, reviewed, written, interventions >>

\* resolve_trust compares the record with the digest of these bytes.
\* Mutant: a record for the repository is enough.
IgnoresDigest(bytes) == trust # NoDocument
ResolveTrust(bytes) == bytes # NoDocument /\ trust = bytes

Layered(base, bytes, trusted) ==
  IF bytes = NoDocument THEN base ELSE Apply("repository", trusted, base, bytes)

Detect ==
  /\ resolution.pc = "reading"
  /\ LET trusted == ResolveTrust(resolution.bytes)
         failed  == \/ ApplyFails("user", TRUE, BaseConfiguration, user)
                    \/ ApplyFails("repository", trusted, UserConfiguration, resolution.bytes)
     IN  resolution' =
           IF failed THEN [resolution EXCEPT !.pc = "refused"]
           ELSE [resolution EXCEPT
                   !.trusted = trusted, !.pc = "detected",
                   !.effective = Layered(UserConfiguration, resolution.bytes, trusted),
                   !.withheld = WithheldSettings(trusted, UserConfiguration, resolution.bytes)]
  /\ UNCHANGED << user, file, trust, terminal, reviewed, written, interventions >>

\* Without commands of its own the repository is surveyed; a listing that cannot be read
\* proposes nothing.
Surveyed(c, commands) == [c EXCEPT !["commands"] = IF @ = << >> THEN commands ELSE @]
Proposals == {SurveyProject(p) : p \in Projects} \cup {<< >>}

Survey(commands) ==
  /\ resolution.pc = "detected"
  /\ resolution' = [resolution EXCEPT !.pc = "surveyed", !.effective = Surveyed(@, commands)]
  /\ UNCHANGED << user, file, trust, terminal, reviewed, written, interventions >>

\* The run is stored with the configuration, or refused before anything is stored.
\* Mutant: the configuration is not validated.
StoresUnvalidated ==
  /\ resolution.pc = "surveyed"
  /\ resolution' = [resolution EXCEPT !.pc = IF RequestRefused(resolution.request) THEN "refused" ELSE "created",
                       !.effective = Overridden(@, resolution.request)]
  /\ UNCHANGED << user, file, trust, terminal, reviewed, written, interventions >>
CreateRun ==
  /\ resolution.pc = "surveyed"
  /\ LET request == resolution.request
         c == Overridden(resolution.effective, request)
     IN  resolution' =
           IF RequestRefused(request) \/ ~Valid(c, request.demonstration)
           THEN [resolution EXCEPT !.pc = "refused"]
           ELSE [resolution EXCEPT !.pc = "created", !.effective = c]
  /\ UNCHANGED << user, file, trust, terminal, reviewed, written, interventions >>

(***************************************************************************)
(* The owner's terminal, and whoever edits the repository.                 *)
(***************************************************************************)
Intervenes == interventions < MaxInterventions /\ interventions' = interventions + 1

\* heikas trust: the file is read again after it was shown, and has to parse.
TrustRead ==
  /\ terminal.pc = "idle" /\ Intervenes
  /\ file # NoDocument /\ Parses(file)
  /\ terminal' = [pc |-> "granting", bytes |-> file]
  /\ UNCHANGED << user, file, trust, resolution, reviewed, written >>

\* FileRepositoryTrustStore::grant: the record of the repository is replaced.
Grant ==
  /\ terminal.pc = "granting"
  /\ trust' = terminal.bytes /\ reviewed' = reviewed \cup {terminal.bytes}
  /\ terminal' = NoCommand
  /\ UNCHANGED << user, file, resolution, written, interventions >>

Revoke ==
  /\ terminal.pc = "idle" /\ trust # NoDocument /\ Intervenes
  /\ trust' = NoDocument
  /\ UNCHANGED << user, file, terminal, resolution, reviewed, written >>

\* render_document: the settings `heikas init` writes down.
RenderedSettings ==
  {"candidates", "max_parallel_candidates", "max_repairs", "commit_policy", "require_clean",
   "driver", "model", "endpoint", "max_turns", "agent_timeout", "network", "profile",
   "minimum_line_coverage", "protect_tests", "commands", "branch_prefix", "author_name",
   "protected_paths", "sensitive_paths"}
RenderedOf(c) ==
  {s \in RenderedSettings : /\ s = "commands" => c[s] # << >>
                            /\ s = "minimum_line_coverage" => c[s] # Unset
                            /\ s \in {"model", "endpoint"} => c[s] # BaseConfiguration[s]}
\* Mutant: the lists are not written.
RendersNoLists(c) ==
  Document([s \in RenderedOf(c) |-> IF Rule[s] = "list" THEN {} ELSE c[s]], {})
Render(c) == Document([s \in RenderedOf(c) |-> c[s]], {})

\* heikas init --force (or without a file) detects, writes the file, and grants trust for what it wrote.
InitDetect(commands) ==
  /\ terminal.pc = "idle" /\ Parses(user) /\ Parses(file) /\ Intervenes
  /\ LET trusted == ResolveTrust(file)
     IN  /\ ~ApplyFails("user", TRUE, BaseConfiguration, user)
         /\ ~ApplyFails("repository", trusted, UserConfiguration, file)
         /\ terminal' = [pc |-> "writing",
                         bytes |-> Render(Surveyed(Layered(UserConfiguration, file, trusted),
                                                   commands))]
  /\ UNCHANGED << user, file, trust, resolution, reviewed, written >>

InitWrite ==
  /\ terminal.pc = "writing"
  /\ file' = terminal.bytes /\ written' = written \cup {terminal.bytes}
  /\ terminal' = [terminal EXCEPT !.pc = "granting"]
  /\ UNCHANGED << user, trust, resolution, reviewed, interventions >>

Edit(d) ==
  /\ Intervenes /\ file' = d
  /\ UNCHANGED << user, trust, terminal, resolution, reviewed, written >>

\* The configurations a run may be created with, one layer after the other.
Files == RepositoryDocuments \cup {NoDocument}
Effective(base, documents) ==
  {Surveyed(Layered(base, r, t), p) : r \in documents, t \in BOOLEAN, p \in Proposals}
WithInit(base) == Effective(base, Files \cup {Render(e) : e \in Effective(base, Files)})
Accepted ==
  LET resolved == UNION {WithInit(Apply("user", TRUE, BaseConfiguration, u)) : u \in UserDocuments}
      requests == {q \in Requests : ~RequestRefused(q)}
  IN  {c \in {Overridden(e, q) : e \in resolved, q \in requests} : Valid(c, TRUE)}

ConfigurationNext ==
  \/ \E q \in Requests : Begin(q)
  \/ Detect \/ CreateRun
  \/ \E p \in Proposals : Survey(p) \/ InitDetect(p)
  \/ TrustRead \/ Grant \/ Revoke \/ InitWrite
  \/ \E d \in Files : Edit(d)
=============================================================================
