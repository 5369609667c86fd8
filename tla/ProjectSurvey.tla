---------------------------- MODULE ProjectSurvey ----------------------------
(***************************************************************************)
(* The commands that are proposed for a repository without a catalogue of  *)
(* its own: survey_project and the proposals of each ecosystem             *)
(* (crates/infrastructure/src/configuration/detection.rs), and the commands*)
(* themselves (crates/domain/src/command.rs).                              *)
(*                                                                         *)
(* A directory is a sequence of segments and a segment a sequence of words,*)
(* for what a dash and a slash have in common is what slug_of forgets.     *)
(***************************************************************************)
EXTENDS Integers, Sequences, FiniteSets, SequencesExt

CONSTANTS
  VendoredSegments,    \* vendored or hidden directories
  MaximumSurveyDepth   \* MAXIMUM_SURVEY_DEPTH

ASSUME SurveyAssumption == MaximumSurveyDepth \in Nat

TestPhase == {"test", "coverage", "build"}
CountingFormats ==
  {"junit", "cargo_json", "cargo_text", "go", "pytest", "node", "ctest"}
FileFormats == {"junit", "lcov", "sarif", "text"}

Command(id, kind, required, format, path) ==
  [id |-> id, kind |-> kind, required |-> required, format |-> format, path |-> path]

\* CommandSpecification::validate: a format that is read from a file names the file.
ValidCommand(c) == c.format \in FileFormats => c.path

\* CommandCatalogue::validate: no identifier twice.
ValidCatalogue(commands) ==
  /\ \A i \in DOMAIN commands : ValidCommand(commands[i])
  /\ \A i, j \in DOMAIN commands : commands[i].id = commands[j].id => i = j

OfKind(commands, kind) == {i \in DOMAIN commands : commands[i].kind = kind}
InPhase(commands, tests) ==
  LET In(c) == (c.kind \in TestPhase) = tests IN SelectSeq(commands, In)

(***************************************************************************)
(* The modules of a project.                                               *)
(***************************************************************************)
Ecosystems == << "rust", "go", "python", "node", "cmake" >>
Markers ==
  [rust |-> {"Cargo.toml"}, go |-> {"go.mod"}, node |-> {"package.json"},
   python |-> {"pyproject.toml", "setup.py"}, cmake |-> {"CMakeLists.txt"}]
AggregatesSubdirectories == {"rust", "go"}

IsVendored(path) == \E i \in DOMAIN path.dir : path.dir[i] \in VendoredSegments

Discovered(tracked) ==
  {m \in [ecosystem : ToSet(Ecosystems), directory : {p.dir : p \in tracked}] :
     \E p \in tracked :
       /\ ~IsVendored(p) /\ Len(p.dir) <= MaximumSurveyDepth
       /\ p.dir = m.directory /\ p.name \in Markers[m.ecosystem]}

\* The order of the survey; between directories of one depth it is left open.
EcosystemRank(m) == CHOOSE i \in DOMAIN Ecosystems : Ecosystems[i] = m.ecosystem
Precedes(a, b) ==
  \/ Len(a.directory) < Len(b.directory)
  \/ Len(a.directory) = Len(b.directory) /\ EcosystemRank(a) < EcosystemRank(b)

\* A workspace at the top stands for the modules of its language below it.
Selected(tracked) ==
  LET found == SetToSortSeq(Discovered(tracked), Precedes)
      Kept(m) == ~\E i \in DOMAIN found :
                    /\ m.ecosystem \in AggregatesSubdirectories
                    /\ found[i].ecosystem = m.ecosystem
                    /\ \E j \in i + 1..Len(found) : found[j] = m
  IN  SelectSeq(found, Kept)

(***************************************************************************)
(* What is proposed for a module.                                          *)
(***************************************************************************)
SlugOf(directory) == FlattenSeq(directory)
Proposal(m, suffix, kind, required, format) ==
  Command(<< m.ecosystem >> \o SlugOf(m.directory) \o << suffix >>, kind, required, format, FALSE)

ProposeRust(m) ==
  << Proposal(m, "format", "format", FALSE, "none"), Proposal(m, "lint", "lint", FALSE, "none"),
     Proposal(m, "test", "test", TRUE, "cargo_text") >>

ProposeGo(m) ==
  << Proposal(m, "lint", "lint", FALSE, "none"), Proposal(m, "test", "test", TRUE, "go") >>

\* No tests are proposed where no file looks like one.
ProposePython(m, tracked) ==
  << Proposal(m, "lint", "lint", FALSE, "none") >> \o
  (IF \E p \in tracked : /\ ~IsVendored(p) /\ p.name = "test.py"
                         /\ IsPrefix(m.directory, p.dir)
   THEN << Proposal(m, "test", "test", TRUE, "pytest") >> ELSE << >>)

\* The manifest has to have a test script of a known runner, and a lock file to be tracked.
ProposeNode(m, project) ==
  LET manifest == project.manifests[m.directory]
      locked   == [dir |-> m.directory, name |-> "lock"] \in project.tracked
  IN  IF manifest.runner # "known" \/ ~locked THEN << >>
      ELSE << Proposal(m, "install", "build", TRUE, "none") >>
           \o (IF manifest.lint THEN << Proposal(m, "lint", "lint", FALSE, "none") >> ELSE << >>)
           \o << Proposal(m, "test", "test", TRUE, "node") >>

\* A build directory that is not ignored would be part of the candidate's change.
ProposeCmake(m, project) ==
  IF m.directory \notin project.ignoresBuild THEN << >>
  ELSE << Proposal(m, "configure", "build", TRUE, "none"), Proposal(m, "build", "build", TRUE, "none"),
          Proposal(m, "test", "test", TRUE, "ctest") >>

Propose(m, project) ==
  CASE m.ecosystem = "rust"   -> ProposeRust(m)
    [] m.ecosystem = "go"     -> ProposeGo(m)
    [] m.ecosystem = "python" -> ProposePython(m, project.tracked)
    [] m.ecosystem = "node"   -> ProposeNode(m, project)
    [] m.ecosystem = "cmake"  -> ProposeCmake(m, project)

\* A catalogue in which two directories have one slug is given up altogether.
SurveyProject(project) ==
  LET modules  == Selected(project.tracked)
      proposed == FlattenSeq([i \in DOMAIN modules |-> Propose(modules[i], project)])
  IN  IF ValidCatalogue(proposed) THEN proposed ELSE << >>
=============================================================================
