-------------------------------- MODULE AptPlan --------------------------------
(* What a simulation of apt prints, how it is read (pkg/osplan/parse.go,        *)
(* aptmodule.go) and the plan of a hop that is made of it (pkg/osplan/plan.go). *)
(* An output is [exit, truncated, lines]; a line is a record with its kind in   *)
(* "t". A package is a name; Facts tells of each what dpkg and apt know of it.  *)
EXTENDS Integers, Sequences, FiniteSets, SequencesExt

CONSTANTS Facts,      \* of each package: protected, essential, auto, known (to dpkg)
          MaxNames    \* maxNames
ASSUME AptPlanAssumption == MaxNames \in Nat /\ \A p \in DOMAIN Facts : Facts[p].essential \in BOOLEAN

Sections == {"upgraded", "new", "removed", "downgraded", "kept_back", "autoremovable"}
\* A name that no package has.
Odd == "?"
NoRun == [bad |-> "none", current |-> "", note |-> FALSE, ess |-> "none", essSeen |-> FALSE, essential |-> <<>>,
          lists |-> [k \in Sections |-> <<>>], seen |-> {}, inst |-> <<>>, remv |-> <<>>, sum |-> <<>>, total |-> 0]

unparsed(run, reason) == [run EXCEPT !.bad = reason]
summaryOf(line) == [upgraded |-> line.n[1], new |-> line.n[2], downgraded |-> line.n[3], removed |-> line.n[4], not |-> line.n[5]]
sameSet(a, b) == Len(a) = Len(b) /\ \A x \in ToSet(a) \cup ToSet(b) : Len(SelectSeq(a, LAMBDA y : y = x)) = Len(SelectSeq(b, LAMBDA y : y = x))
errorLines(lines, kinds) == SelectSeq(lines, LAMBDA l : l.t \in kinds)
checkLines(lines) == \A i \in DOMAIN lines : lines[i].t # "broken"

-------------------------------------------------------------------------------
\* The lines of names below a header. A star marks a purge, and only a removal has one.
Listed(run, line) ==
    IF \/ \E i \in DOMAIN line.names : line.names[i] = Odd
       \/ line.star /\ run.current # "removed" THEN unparsed(run, "bad_name")
    ELSE IF run.total + Len(line.names) > MaxNames THEN unparsed(run, "too_many_names")
    ELSE [run EXCEPT !.lists[run.current] = @ \o line.names, !.total = @ + Len(line.names)]
Warned(run, line) ==
    IF \E i \in DOMAIN line.names : line.names[i] = Odd THEN unparsed(run, "bad_name")
    ELSE [run EXCEPT !.essential = @ \o line.names, !.total = @ + Len(line.names)]
parseInst(run, line) ==
    IF line.name = Odd THEN unparsed(run, "bad_inst_line")
    ELSE IF run.total + 1 > MaxNames THEN unparsed(run, "too_many_names")
    ELSE [run EXCEPT !.inst = Append(@, [name |-> line.name, from |-> line.from]), !.total = @ + 1]
\* A line that belongs to no list. What is not known is not passed over.
Statement(run, line) ==
    CASE run.ess = "second" -> IF line.t = "warning2" THEN [run EXCEPT !.ess = "names"] ELSE unparsed(run, "essential_block")
      [] line.t = "warning" -> IF run.essSeen THEN unparsed(run, "duplicate_section") ELSE [run EXCEPT !.essSeen = TRUE, !.ess = "second"]
      [] line.t = "header" -> IF line.key \in run.seen THEN unparsed(run, "duplicate_section")
                              ELSE [run EXCEPT !.seen = @ \cup {line.key}, !.current = line.key, !.lists[line.key] = <<>>]
      [] line.t = "Inst" -> parseInst(run, line)
      [] line.t = "Remv" -> IF line.name = Odd THEN unparsed(run, "bad_remv_line")
                            ELSE [run EXCEPT !.remv = Append(@, [name |-> line.name, at |-> Len(run.inst)])]
      [] line.t = "pending" -> unparsed(run, "not_fully_installed")
      [] line.t = "summary" -> IF run.sum # <<>> THEN unparsed(run, "duplicate_summary") ELSE [run EXCEPT !.sum = <<summaryOf(line)>>]
      [] line.t = "noise" -> run
      [] line.t = "note" -> [run EXCEPT !.note = TRUE]
      [] OTHER -> unparsed(run, "unknown_line")
endEssential(run) == IF run.ess = "names" THEN [run EXCEPT !.ess = "none"] ELSE run
ReadLine(run, line) ==
    CASE run.bad # "none" -> run
      [] line.t = "blank" -> [endEssential(run) EXCEPT !.current = "", !.note = FALSE]
      [] line.t = "names" /\ run.current # "" -> Listed(run, line)
      [] line.t = "names" /\ run.ess = "names" -> Warned(run, line)
      [] line.t \in {"names", "indented"} /\ run.note -> run
      [] OTHER -> Statement([endEssential(run) EXCEPT !.current = "", !.note = FALSE], line)

\* The lists against the summary, the warning against the removals, and both against
\* the lines of what apt would do: a package that is removed and put back is not removed.
Count(run, key) == Len(run.lists[key])
InstOf(run, key) ==
    LET downgraded == ToSet(run.lists["downgraded"])
        sort(in) == IF ~in.from THEN "new" ELSE IF in.name \in downgraded THEN "downgraded" ELSE "upgraded"
        of == SelectSeq(run.inst, LAMBDA in : sort(in) = key)
    IN [i \in DOMAIN of |-> of[i].name]
RemovedByLines(run) ==
    LET stays == SelectSeq(run.remv, LAMBDA r : ~\E i \in r.at + 1 .. Len(run.inst) : run.inst[i].name = r.name)
    IN [i \in DOMAIN stays |-> stays[i].name]
SummaryAgrees_NoRemoved(run) == \A key \in {"upgraded", "new", "downgraded"} : Count(run, key) = run.sum[1][key]
SummaryAgrees(run) == /\ \A key \in {"upgraded", "new", "removed", "downgraded"} : Count(run, key) = run.sum[1][key]
                      /\ Count(run, "kept_back") <= run.sum[1].not
Disagree(run) ==
    CASE run.ess = "second" -> "essential_block"
      [] run.sum = <<>> -> "no_summary"
      [] ~SummaryAgrees(run) -> "summary_mismatch"
      [] ~(ToSet(run.essential) \subseteq ToSet(run.lists["removed"])) -> "essential_not_removed"
      [] \E key \in {"upgraded", "downgraded", "new"} : ~sameSet(InstOf(run, key), run.lists[key]) -> "inst_mismatch"
      [] ~sameSet(RemovedByLines(run), run.lists["removed"]) -> "removal_mismatch"
      [] OTHER -> "none"
\* Op of a value that is computed once (TLC passes an argument by name).
Valued(Op(_), value) == CHOOSE y \in {Op(x) : x \in {value}} : TRUE
SolverFailed(out) == out.exit # 0 \/ errorLines(out.lines, {"error"}) # <<>>
\* The simulation as read: "bad" is none, or what was not understood.
ParseSolver(out) ==
    IF SolverFailed(out) THEN unparsed(NoRun, "failed")
    ELSE IF ~checkLines(out.lines) \/ out.truncated THEN unparsed(NoRun, "truncated")
    ELSE Valued(LAMBDA run : IF run.bad # "none" THEN run ELSE [endEssential(run) EXCEPT !.bad = Disagree(run)],
                FoldLeft(LAMBDA acc, line : Valued(LAMBDA run : ReadLine(run, line), acc), NoRun, out.lines))
ParseUpdate(out) == IF out.exit # 0 \/ errorLines(out.lines, {"error", "warned"}) # <<>> THEN "sandbox_update_failed"
                    ELSE IF out.truncated THEN "plan_unparsed" ELSE "none"
\* The sizes: apt asked for a trivial operation only ends with its error, apt asked for
\* the addresses (uris) with none. What is not as the simulation says is no estimate.
NoEstimate == [known |-> FALSE, download |-> 0, extra |-> 0]
readEstimate(out, sum, uris) ==
    LET of(kind) == errorLines(out.lines, {kind})
        nothing == \A i \in 1 .. 4 : of("summary")[1].n[i] = 0
        refused == \/ out.truncated \/ out.exit \notin (IF uris THEN {0} ELSE {0, 100}) \/ ~checkLines(out.lines)
                   \/ of("error") # <<>> \/ (uris /\ of("trivial") # <<>>)
                   \/ Len(of("summary")) # 1 \/ summaryOf(of("summary")[1]) # sum
    IN CASE refused -> NoEstimate
         [] ~refused /\ out.exit = 0 /\ ~(uris /\ of("need") \o of("after") # <<>>) ->
                [NoEstimate EXCEPT !.known = of("trivial") \o of("need") \o of("after") \o of("pending") = <<>> /\ nothing]
         [] OTHER -> IF /\ uris \/ Len(of("trivial")) = 1
                        /\ Len(of("need")) = 1 /\ Len(of("after")) = 1 /\ (uris => of("pending") = <<>>)
                     THEN [known |-> TRUE, download |-> of("need")[1].size, extra |-> of("after")[1].size] ELSE NoEstimate
ParseEstimate(out, sum) == readEstimate(out, sum, FALSE)
ParseURIEstimate(out, sum) == readEstimate(out, sum, TRUE)

-------------------------------------------------------------------------------
\* The plan that is made of two simulations and of the machine.
Protected(p) == Facts[p].protected
Removals(dist, upgrade) == ToSet(dist.lists["removed"]) \cup ToSet(upgrade.lists["removed"])
Removal(p, dist, upgrade, autoKnown) ==
    [name |-> p, protected |-> Protected(p), manual |-> ~autoKnown \/ ~Facts[p].auto,
     essential |-> Facts[p].essential \/ p \in ToSet(dist.essential) \cup ToSet(upgrade.essential)]
leftBehind(dist, upgrade) ==
    ToSet(upgrade.lists["kept_back"]) \ UNION {ToSet(dist.lists[k]) : k \in Sections \ {"autoremovable"}}
downgraded(dist, upgrade) == ToSet(dist.lists["downgraded"]) \cup ToSet(upgrade.lists["downgraded"])
\* The room that the archives, /usr and / need, in the units of the estimate.
Up(a, b) == (a + b - 1) \div b
Need(est) == [archives |-> LET a == Up(5 * est.download, 4) + 1 b == Up(11 * est.download, 10) + 2 IN IF a > b THEN a ELSE b,
              usr |-> Up(3 * (IF est.extra > 0 THEN est.extra ELSE 0), 2) + 4, root |-> 2]
\* free is 0 for a room that could not be read.
diskRows(est, free) == IF ~est.known THEN {} ELSE {[path |-> p, ok |-> free[p] >= Need(est)[p]] : p \in DOMAIN Need(est)}
judge(removals, dist, upgrade, disk, heldDocker) ==
       {[code |-> "removal_protected", name |-> r.name] : r \in {q \in removals : q.protected}}
  \cup {[code |-> "removal_essential", name |-> r.name] : r \in {q \in removals : q.essential}}
  \cup (IF Count(dist, "kept_back") > 0 \/ dist.sum[1].not > 0 \/ leftBehind(dist, upgrade) # {}
        THEN {[code |-> "dist_kept_back", name |-> ""]} ELSE {})
  \cup {[code |-> "downgrade", name |-> p] : p \in downgraded(dist, upgrade)}
  \cup {[code |-> "disk_short", name |-> row.path] : row \in {q \in disk : ~q.ok}}
  \cup {[code |-> "removal_manual", name |-> r.name] : r \in {q \in removals : q.manual}}
  \cup (IF heldDocker # {} THEN {[code |-> "docker_held", name |-> ""]} ELSE {})
verdictOf(problems) ==
    LET codes == {p.code : p \in problems}
    IN IF codes \ {"removal_manual", "docker_held"} # {} THEN "blocked" ELSE IF "removal_manual" \in codes THEN "needs_acceptance" ELSE "ok"
\* dpkg has to know every package that apt removes.
UnknownRemoval(dist, upgrade) == \E p \in Removals(dist, upgrade) : ~Facts[p].known
Assemble(sources, dist, upgrade, est, box) ==
    LET removals == {Removal(p, dist, upgrade, box.autoKnown) : p \in Removals(dist, upgrade)}
        problems == judge(removals, dist, upgrade, diskRows(est, box.free), box.heldDocker)
    IN [removals |-> removals, problems |-> problems, verdict |-> verdictOf(problems), sources |-> sources,
        new |-> ToSet(dist.lists["new"]), kept |-> ToSet(dist.lists["kept_back"]), estimate |-> est]

-------------------------------------------------------------------------------
\* What apt prints of what it would do (external): truth is the packages of each
\* section; a package of "back" is removed and installed again.
Names(set) == [t |-> "names", names |-> SetToSeq(set), star |-> FALSE]
Block(key, set) == IF set = {} THEN <<>> ELSE <<[t |-> "header", key |-> key], Names(set)>>
Printed(truth) ==
    LET essential == {p \in truth.removed : Facts[p].essential}
        inst(set, from) == [i \in 1 .. Cardinality(set) |-> [t |-> "Inst", name |-> SetToSeq(set)[i], from |-> from]]
        remv(set) == [i \in 1 .. Cardinality(set) |-> [t |-> "Remv", name |-> SetToSeq(set)[i]]]
        n(key) == Cardinality(truth[key])
    IN  <<[t |-> "noise"]>> \o Block("removed", truth.removed) \o Block("new", truth.new) \o Block("kept_back", truth.kept)
        \o Block("upgraded", truth.upgraded) \o Block("downgraded", truth.downgraded)
        \o (IF essential = {} THEN <<>> ELSE <<[t |-> "warning"], [t |-> "warning2"], Names(essential)>>)
        \o <<[t |-> "summary", n |-> <<n("upgraded"), n("new"), n("downgraded"), n("removed"), n("kept")>>]>>
        \o remv(truth.removed \cup truth.back) \o inst(truth.upgraded \cup truth.downgraded, TRUE) \o inst(truth.new, FALSE)
===============================================================================
