----------------------------- MODULE TestReports -----------------------------
(***************************************************************************)
(* How many tests a report says were run: the parsers of                   *)
(* crates/infrastructure/src/quality/reports.rs.  An output is a sequence  *)
(* of lines, or of events, that the parser of its format tells apart by    *)
(* their kind; each says how many tests passed, failed and were skipped.   *)
(***************************************************************************)
EXTENDS Integers, Sequences, SequencesExt

Line(kind, passed, failed, skipped) ==
  [kind |-> kind, passed |-> passed, failed |-> failed, skipped |-> skipped]
LineTotal(l) == l.passed + l.failed + l.skipped

NoSummary == [total |-> 0, failed |-> 0, skipped |-> 0]
Counted(l, sum) ==
  [total |-> sum.total + LineTotal(l), failed |-> sum.failed + l.failed,
   skipped |-> sum.skipped + l.skipped]

\* Lines or events of one kind are added up, the others passed over.
SumOf(kind, lines) ==
  LET Add(l, sum) == IF l.kind = kind THEN Counted(l, sum) ELSE sum
  IN  FoldSeq(Add, NoSummary, lines)

ParseCargoText(lines) == SumOf("result", lines)
ParseNode(lines) == SumOf("result", lines)
ParseGo(events) == SumOf("test", events)
ParseJunit(elements) == SumOf("test", elements)

\* The totals of a suite count only as long as no test was seen.
ParseCargoJson(events) ==
  LET Step(sum, e) ==
        IF e.kind = "test" THEN Counted(e, sum)
        ELSE IF e.kind = "suite" /\ sum.total = 0 THEN Counted(e, NoSummary) ELSE sum
  IN  FoldLeft(Step, NoSummary, events)

\* The last line with a count decides, unless a later one says that no tests ran.
ParsePytest(lines) ==
  LET telling == {i \in DOMAIN lines :
                    lines[i].kind = "none_ran" \/ (lines[i].kind = "result" /\ LineTotal(lines[i]) > 0)}
  IN  IF telling = {} THEN NoSummary
      ELSE LET l == lines[CHOOSE i \in telling : \A j \in telling : j <= i]
           IN  IF l.kind = "none_ran" THEN NoSummary ELSE Counted(l, NoSummary)

\* The first summary line: how many failed, out of how many.
ParseCtest(lines) ==
  LET Summary(l) == l.kind = "result"
      first == SelectInSeq(lines, Summary)
  IN  IF first = 0 THEN NoSummary
      ELSE [total |-> LineTotal(lines[first]), failed |-> lines[first].failed, skipped |-> 0]

ParseOutput(format, lines) ==
  CASE format = "cargo_text" -> ParseCargoText(lines)
    [] format = "cargo_json" -> ParseCargoJson(lines)
    [] format = "go"         -> ParseGo(lines)
    [] format = "pytest"     -> ParsePytest(lines)
    [] format = "node"       -> ParseNode(lines)
    [] format = "ctest"      -> ParseCtest(lines)
    [] format = "junit"      -> ParseJunit(lines)
    [] OTHER                 -> NoSummary

\* total.saturating_sub(skipped)
\* Mutant: a skipped test counts as run.
CountsSkipped(summary) == summary.total
Executed(summary) == IF summary.total > summary.skipped THEN summary.total - summary.skipped ELSE 0
=============================================================================
