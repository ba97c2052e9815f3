-------------------------------- MODULE MCPlan ---------------------------------
\* Machines for the plan of a hop: one whose plan is sound, and others with one thing
\* wrong in their sources, their settings, their packages or what apt prints. On one
\* machine requests race, on another cores die and planners of a module come beside.
EXTENDS OsPlan

MCFacts == [p \in {"samba", "base", "tool", "lib", "ghost"} |->
              [protected |-> p = "samba", essential |-> p = "base", auto |-> p = "lib", known |-> p # "ghost"]]

Line(uri, base, suffix) == [repo |-> TRUE, form |-> "sound", owner |-> "other", uri |-> uri, base |-> base, suffix |-> suffix,
                            comps |-> {"main"}, opts |-> "none", mark |-> "none"]
Deb == Line("deb", "from", "")
Docker == Line("docker", "from", "")
List(lines) == [name |-> "sources.list", inParts |-> FALSE, readable |-> TRUE, deb822 |-> FALSE, lines |-> lines]
Part(lines) == [List(lines) EXCEPT !.name = "more.list", !.inParts = TRUE]
Sound == <<List(<<Deb, Comment, Line("security", "from", "-security"), Docker>>), Part(<<Docker>>)>>
Mirror(owner) == [Line("mirror", "from", "-updates") EXCEPT !.owner = owner]
FileCases == {Sound, <<List(<<Docker>>)>>, <<List(<<Line("deb", "from", "-backports")>>)>>, <<List(<<Deb>>), Part(<<Deb, Docker>>)>>,
              <<List(<<Line("archive", "from", ""), [Deb EXCEPT !.comps = {"main", "non-free"}]>>), Part(<<Mirror("distro")>>)>>,
              <<List(<<Deb>>), Part(<<Mirror("")>>)>>, <<Part(<<Mirror("other"), Docker>>)>>, <<Part(<<Deb>>)>>,
              <<[List(<<Deb>>) EXCEPT !.readable = FALSE]>>, <<[Part(<<Deb>>) EXCEPT !.deb822 = TRUE]>>}
             \cup {<<List(<<Deb, l>>)>> : l \in {Line("disc", "from", ""), Line("deb", "to", ""), Line("deb", "later", ""), Line("deb", "other", ""),
                     Line("deb", "alias", ""), Line("deb", "from", "-odd"), Line("mirror", "from", "/"), [Deb EXCEPT !.form = "odd"],
                     [Deb EXCEPT !.opts = "weak"], Line("deb", "from", "/updates"), Mirror("other"), Mirror("distro")}}

Fragment(name, kind, lines) == [name |-> name, kind |-> kind, lines |-> lines]
ConfCases == {{Fragment("a", "regular", <<"blank", "kept">>), Fragment("b", "regular", <<"kept", "other">>), Fragment("c", "link", <<>>)},
              {Fragment("a", "unreadable", <<>>)}, {Fragment("a", "regular", <<"directive">>), Fragment("b", "large", <<>>)}}

Truth(up, new, removed, down, kept, back) ==
    [upgraded |-> up, new |-> new, removed |-> removed, downgraded |-> down, kept |-> kept, back |-> back]
Plain == Truth({"lib"}, {}, {}, {}, {}, {})
DistCases == {Plain, Truth({"tool"}, {}, {"lib"}, {}, {}, {}), Truth({"lib"}, {}, {"tool"}, {}, {}, {}), Truth({"lib"}, {}, {"samba"}, {}, {}, {}),
              Truth({}, {"tool"}, {"base"}, {}, {}, {}), Truth({"lib"}, {}, {"ghost"}, {}, {}, {}), Truth({"lib"}, {}, {}, {"tool"}, {}, {}),
              Truth({"lib"}, {}, {}, {}, {"tool"}, {}), Truth({"lib", "tool"}, {}, {}, {}, {}, {"lib"})}

Updated == [exit |-> 0, truncated |-> FALSE, lines |-> <<[t |-> "noise"]>>]
\* The estimate that goes with a simulation.
Estimated(truth, need, after) ==
    [exit |-> 100, truncated |-> FALSE,
     lines |-> Append(SelectSeq(Printed(truth), LAMBDA l : l.t = "summary"), [t |-> "need", size |-> need])
               \o <<[t |-> "after", size |-> after], [t |-> "trivial"]>>]
Good == [scene |-> "quiet", plannable |-> TRUE, busy |-> FALSE, files |-> Sound, conf |-> {}, upgrade |-> Plain, dist |-> Plain, lossy |-> "none",
         odd |-> {}, updates |-> {Updated}, estimates |-> {Estimated(Plain, 4, 4)}, panics |-> FALSE,
         autoKnown |-> TRUE, heldDocker |-> {}, free |-> [archives |-> 9, usr |-> 12, root |-> 2]]
Dist(truth) == [Good EXCEPT !.dist = truth, !.estimates = {Estimated(truth, 4, 4)}]
OddLines == {<<[t |-> "error"]>>, <<[t |-> "broken"]>>, <<[t |-> "what"]>>, <<[t |-> "note"], [t |-> "indented"]>>, <<[t |-> "pending"]>>,
             <<[t |-> "warning"], [t |-> "blank"]>>, <<[t |-> "Inst", name |-> Odd, from |-> FALSE]>>, <<[t |-> "Remv", name |-> Odd]>>,
             <<[t |-> "header", key |-> "upgraded"], [t |-> "names", names |-> <<"lib">>, star |-> TRUE]>>,
             <<[t |-> "header", key |-> "removed"], [t |-> "header", key |-> "removed"]>>,
             <<[t |-> "summary", n |-> <<0, 0, 0, 0, 0>>], [t |-> "summary", n |-> <<0, 0, 0, 0, 0>>]>>,
             <<[t |-> "header", key |-> "new"], [t |-> "names", names |-> <<"lib", "tool", "base", "ghost", "samba">>, star |-> FALSE]>>}
OddOutputs == {[exit |-> 0, truncated |-> FALSE, lines |-> lines] : lines \in OddLines}
              \cup {[exit |-> 100, truncated |-> FALSE, lines |-> <<>>], [exit |-> 0, truncated |-> TRUE, lines |-> <<>>]}
MCBoxes ==
    {[Good EXCEPT !.files = f] : f \in FileCases} \cup {[Good EXCEPT !.conf = c] : c \in ConfCases} \cup {Dist(t) : t \in DistCases}
    \cup {[Dist(t) EXCEPT !.lossy = l] : t \in DistCases, l \in {"dist-upgrade"}}
    \cup {[Good EXCEPT !.upgrade = t, !.lossy = "upgrade"] : t \in {Truth({}, {}, {"samba"}, {}, {}, {}), Truth({}, {}, {}, {}, {"tool"}, {})}}
    \cup {[Good EXCEPT !.odd = OddOutputs], [Good EXCEPT !.autoKnown = FALSE, !.dist = Truth({"tool"}, {}, {"lib"}, {}, {}, {})],
          [Good EXCEPT !.free.usr = 9], [Good EXCEPT !.heldDocker = {"docker"}], [Good EXCEPT !.panics = TRUE], [Good EXCEPT !.plannable = FALSE],
          [Good EXCEPT !.updates = {[Updated EXCEPT !.exit = 100], [Updated EXCEPT !.lines = <<[t |-> "warned"]>>], [Updated EXCEPT !.truncated = TRUE]}],
          [Good EXCEPT !.estimates = {Estimated(Plain, 5, -3), [Estimated(Plain, 1, 1) EXCEPT !.exit = 2], Estimated(Truth({}, {}, {}, {}, {}, {}), 1, 1), NoOutput}],
          [Good EXCEPT !.dist = Truth({}, {}, {}, {}, {}, {}), !.estimates = {[Estimated(Truth({}, {}, {}, {}, {}, {}), 0, 0) EXCEPT !.lines = <<@[1]>>, !.exit = 0]}],
          [Good EXCEPT !.scene = "race"], [Good EXCEPT !.scene = "death"]}

First == CHOOSE a \in Asks : TRUE
Asking(a) == Load(a) \/ AskPreflight(a) \/ StartSystemOSPlan(a)
Working == \E j \in JobIds : JobStep(j) \/ Panic(j)
Race == (\E a \in Asks : Asking(a)) \/ Working
Death == Asking(First) \/ Working \/ StopSystemOSPlan \/ Die \/ Age \/ CoreStart \/ ModulePlan \/ ModuleEnds
Quiet == (spent.starts = 0 /\ Asking(First)) \/ Working \/ Expire
PlanNext == CASE box.scene = "race" -> Race [] box.scene = "death" -> Death [] OTHER -> Quiet
PlanSpec == PInit /\ [][PlanNext]_pVars /\ PFair
===============================================================================
