------------------------------- MODULE MCGates -------------------------------
(***************************************************************************)
(* An owner without a configuration, with the strict profile and with every*)
(* setting strict, a repository that asks for everything, one that tightens*)
(* everything, and damaged files.                                          *)
(***************************************************************************)
EXTENDS GatesProperties

Plain(id, kind, required, format) == Command(<< id >>, kind, required, format, format \in FileFormats)

StrictCommands ==
  << Plain("unit", "test", TRUE, "cargo_json"), Plain("cover", "coverage", TRUE, "lcov"),
     Plain("fmt", "format", FALSE, "none"), Plain("lint", "lint", TRUE, "none"),
     Plain("audit", "audit", FALSE, "none"), Plain("secrets", "secret_scan", FALSE, "none"),
     Plain("static", "static_analysis", FALSE, "none"), Plain("policy", "policy", TRUE, "none") >>
LooseCommands == << Plain("fast", "test", TRUE, "junit"), Plain("lint", "lint", TRUE, "sarif") >>

Binary == {"require_clean", "profile", "protect_tests", "scanner_enabled", "scanner_wait",
           "mcp_enabled", "ai_enabled", "advisory_only", "redact_home", "network"}
Values(level, entry, commands) ==
  [s \in Settings |->
     IF Rule[s] = "list" THEN {entry} ELSE IF s = "allowlist" THEN {entry}
     ELSE IF s = "commands" THEN commands
     ELSE IF s \in Binary /\ level = 2 THEN 1 ELSE level]
Declaring(declared, settings) == [s \in settings |-> declared[s]]

MCUserDocuments ==
  {NoDocument, Document([profile |-> 0], {}),
   Document(Declaring(Values(0, "mine", StrictCommands),
                      Settings \ {"commit_policy", "scanner_enabled", "mcp_enabled"}), {})}
MCRepositoryDocuments ==
  {Document([mcp_enabled |-> 0] @@
            Declaring(Values(2, "theirs", LooseCommands), Settings \ Ruled({"list"})), {}),
   Document(Declaring(Values(0, "theirs", << >>),
                      Ruled({"tighten", "limit", "list", "free"}) \ {"profile", "mcp_enabled"}), {}),
   Document([wall_clock |-> -1, driver |-> 2, commands |-> << >>], {"commit_policy"}),
   Document([max_turns |-> 0], {"driver"}),
   Document(<< >>, {"document"})}

Request(declared, kinds) == [NoRequest EXCEPT !.declared = declared, !.kinds = kinds]
MCRequests ==
  {Request([candidates |-> 2], {"lint"}), [Request(<< >>, {"lint"}) EXCEPT !.namesPath = TRUE],
   [Request([driver |-> 2], {"lint"}) EXCEPT !.demonstration = TRUE]}

At2(dir, name) == [dir |-> dir, name |-> name]
Project(tracked, runner, ignores) ==
  [tracked |-> tracked, ignoresBuild |-> ignores,
   manifests |-> [d \in {p.dir : p \in tracked} |-> [runner |-> runner, lint |-> TRUE]]]
A == << << "a" >> >>
MCProjects ==
  {Project({At2(<< >>, "Cargo.toml"), At2(A, "Cargo.toml"), At2(A, "pyproject.toml"),
            At2(A, "test.py")}, "known", {}),
   Project({At2(<< >>, "package.json"), At2(<< >>, "lock"), At2(<< << "vendor" >> >>, "go.mod")},
           "known", {}),
   Project({At2(<< >>, "CMakeLists.txt"), At2(A, "setup.py"), At2(A, "package.json")}, "none", {<< >>}),
   Project({At2(<< << "a", "b" >> >>, "pyproject.toml"), At2(<< << "a" >>, << "b" >> >>, "setup.py"),
            At2(<< >>, "go.mod")}, "none", {})}

Nothing == << >>
MCOutputs ==
  [f \in CountingFormats \cup FileFormats \cup {"none"} |->
     LET kind == IF f \in {"go", "junit", "cargo_json"} THEN "test" ELSE "result"
         seen == {Nothing, << Line(kind, 1, 0, 0) >>, << Line(kind, 0, 0, 1) >>}
         more == CASE f = "pytest" -> {<< Line("none_ran", 0, 0, 0) >>}
                   [] f = "cargo_text" -> {<< Line(kind, 1, 0, 0), Line(kind, 0, 1, 0) >>}
                   [] f = "cargo_json" -> {<< Line("suite", 1, 0, 1) >>,
                                           << Line("test", 0, 0, 1), Line("suite", 0, 0, 1) >>}
                   [] OTHER -> {}
     IN  IF f \in CountingFormats THEN seen \cup more ELSE {Nothing}]

\* What leaves the tests alone, and what the plan allows, is the same to the gates.
MCWorktrees ==
  {[Clean EXCEPT !.diff = "conflicts"], [Clean EXCEPT !.tests = "gone"]}
  \cup {[Clean EXCEPT !.tests = "skips", !.quality = "lower", !.approved = a] :
          a \in {{"tests"}, {"tests", "quality"}}}
MCVendored == {<< "vendor" >>}
=============================================================================
