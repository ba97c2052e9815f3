------------------------------ MODULE PlanSources ------------------------------
(* The sources of apt as the plan of a hop rewrites them (pkg/osplan/rewrite.go) *)
(* and the settings of apt that go with them into the sandbox (aptconf.go).      *)
(* A file is [name, inParts, readable, deb822, lines]. A line is a comment or a  *)
(* repository: [repo, form, owner, uri, base, suffix, comps, opts, mark]. base   *)
(* is the release named: from, to, later, other or alias.                        *)
EXTENDS Integers, Sequences, FiniteSets, SequencesExt

Comment == [repo |-> FALSE, mark |-> "none"]
\* A line put behind a mark: it is a comment to apt, and the line is still in it.
Marked(mark, line) == [repo |-> FALSE, mark |-> mark, of |-> line]

\* Whose it is: the official hosts by name, Docker's host and a flat repository are not
\* the distribution's, any other by the list that apt keeps; "" when that is not known.
Suite(line) == CASE line.uri = "disc" -> "other"
                 [] line.uri \in {"deb", "archive", "security", "deb-security"} -> "distro"
                 [] line.uri = "docker" \/ line.suffix = "/" -> "other"
                 [] OTHER -> line.owner
\* The first line that the strict parser does not read refuses the file.
parseRepo(line) == CASE line.form # "sound" -> "sources_format"
                     [] line.uri = "disc" -> "sources_cdrom"
                     [] OTHER -> "none"
FirstBad(lines, Bad(_)) ==
    LET bad == {i \in DOMAIN lines : lines[i].repo /\ Bad(lines[i]) # "none"}
    IN IF bad = {} THEN "none" ELSE Bad(lines[CHOOSE i \in bad : \A j \in bad : i <= j])
parseSourceFile(lines) == FirstBad(lines, parseRepo)

distroProblem(line) == IF line.uri = "odd" \/ line.opts \in {"odd", "weak"} THEN "sources_format" ELSE "none"
moveHost(uri) == IF uri = "archive" THEN "deb" ELSE uri
securityMirror(uri) == uri \in {"security", "deb-security"}
Dropped == {"-backports", "-backports-sloppy", "/updates", "-proposed-updates"}
Kept == {"", "-updates", "-security"}

\* A line of the distribution at the target, dropped, or a reason to refuse. A refresh
\* keeps the release, and moves the security lines of bullseye to the archive.
rewriteProblem(line) == CASE line.base = "alias" -> "sources_alias"
                          [] line.base \in {"to", "later"} -> "sources_target"
                          [] line.base # "from" \/ line.suffix \notin Kept \cup Dropped -> "sources_format"
                          [] OTHER -> "none"
rewriteDistro(line, refresh) ==
    CASE ~refresh /\ line.suffix \in Dropped -> Marked("dropped", line)
      [] refresh /\ securityMirror(line.uri) /\ line.suffix \in {"-security", "/updates"} ->
             [line EXCEPT !.uri = "archive", !.suffix = "-security"]
      [] refresh -> line
      [] OTHER -> [line EXCEPT !.base = "to", !.uri = moveHost(@),
                               !.comps = IF "non-free" \in @ THEN @ \cup {"non-free-firmware"} ELSE @]

-------------------------------------------------------------------------------
Repos(file) == {i \in DOMAIN file.lines : file.lines[i].repo}
Own(file) == {i \in Repos(file) : Suite(file.lines[i]) = "distro"}
Whole(file) == file.inParts /\ Repos(file) # {} /\ Own(file) = {}
Mixed(file) == file.inParts /\ Own(file) # {} /\ Own(file) # Repos(file)
\* Why a file is refused before anything is rewritten, and what its own lines refuse.
Classified(file) == LET parsed == parseSourceFile(file.lines)
                    IN IF parsed # "none" THEN parsed
                       ELSE IF \E i \in Repos(file) : Suite(file.lines[i]) = "" THEN "sources_format" ELSE "none"
LineProblem(line) == IF Suite(line) # "distro" THEN "none"
                     ELSE IF distroProblem(line) # "none" THEN distroProblem(line) ELSE rewriteProblem(line)
FileProblem(file) == CASE Mixed(file) -> "sources_mixed_file"
                       [] Whole(file) -> "none"
                       [] OTHER -> FirstBad(file.lines, LineProblem)
FirstOf(files, Problem(_)) ==
    LET bad == {i \in DOMAIN files : Problem(files[i]) # "none"}
    IN IF bad = {} THEN "none" ELSE Problem(files[CHOOSE i \in bad : \A j \in bad : i <= j])
NewLine(line, refresh) == CASE ~line.repo -> line
                            [] line.repo /\ Suite(line) # "distro" -> Marked("paused", line)
                            [] OTHER -> rewriteDistro(line, refresh)
NewFile(file, refresh) == [i \in DOMAIN file.lines |-> NewLine(file.lines[i], refresh)]
Tree(files, refresh) == [name \in {files[i].name : i \in {j \in DOMAIN files : ~Whole(files[j])}} \cup {"sources.list"} |->
                           LET at == {i \in DOMAIN files : files[i].name = name}
                           IN IF at = {} THEN <<>> ELSE NewFile(files[CHOOSE i \in at : TRUE], refresh)]
Active(tree) == {l \in UNION {ToSet(tree[name]) : name \in DOMAIN tree} : l.repo}
\* The tree is read once more: nothing in it may still be of the old release.
checkTree(tree, refresh) == refresh \/ \A l \in Active(tree) : l.base # "from"
Paused(files) == {[file |-> files[i].name, line |-> 0] : i \in {j \in DOMAIN files : Whole(files[j])}}
            \cup UNION {{[file |-> files[i].name, line |-> n] : n \in Repos(files[i]) \ Own(files[i])} :
                          i \in {j \in DOMAIN files : ~Whole(files[j])}}
RewriteSources(files, refresh) ==
    LET unread == FirstOf(files, LAMBDA f : IF f.readable /\ ~f.deb822 THEN "none" ELSE "sources_format")
        classified == FirstOf(files, Classified)
        problem == FirstOf(files, FileProblem)
        tree == Tree(files, refresh)
        why == CASE unread # "none" -> unread
                 [] classified # "none" -> classified
                 [] problem # "none" -> problem
                 [] OTHER -> IF Active(tree) = {} THEN "sources_format" ELSE IF ~checkTree(tree, refresh) THEN "internal" ELSE "none"
    IN [why |-> why, tree |-> tree, paused |-> IF why = "none" THEN Paused(files) ELSE {}]

-------------------------------------------------------------------------------
\* The settings of apt: a fragment goes into the sandbox whole, or is left out whole and
\* told of. A line is blank, directive, unsimple, autodetect, other or kept.
canonicalAptConf(lines) ==
    LET first == {i \in DOMAIN lines : lines[i] \notin {"blank", "kept"}}
    IN IF first = {} THEN "" ELSE lines[CHOOSE i \in first : \A j \in first : i <= j]
\* A fragment is [name, kind, lines]; one that cannot be looked at ends the plan.
readAptConfFile(f) == CASE f.kind \in {"link", "large"} -> f.kind
                        [] f.kind = "regular" -> canonicalAptConf(f.lines)
                        [] OTHER -> ""
ReadAptConfig(conf) ==
    [failed |-> \E f \in conf : f.kind = "unreadable",
     inside |-> {f \in conf : f.kind = "regular" /\ readAptConfFile(f) = "" /\ \E i \in DOMAIN f.lines : f.lines[i] = "kept"},
     leftOut |-> {f.name : f \in {g \in conf : readAptConfFile(g) # ""}}]
===============================================================================
