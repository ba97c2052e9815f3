------------------------------ MODULE AptSources ------------------------------
(* The sources of apt as the readiness report reads them                        *)
(* (pkg/osreadiness/sources.go). A file is [name, form, there, readable,        *)
(* paragraphs]: a paragraph is a line of a one-line file or a stanza of a       *)
(* deb822 file, [sound, off, kinds, uris, suites, components]; a URI is [local, *)
(* official, host, nameable]; lists tells, of a host and a suite, the origin    *)
(* that the list apt downloaded gives: "" is a list that is not there.          *)
EXTENDS Integers, FiniteSets, Sequences, SequencesExt

CONSTANTS MaxEntries,                    \* maxSourceEntries
          MaxFiles,                      \* maxSourceFiles
          MaxLooks                       \* maxReleaseLookups

ASSUME SourcesAssumption == {MaxEntries, MaxFiles, MaxLooks} \subseteq Nat

Kinds == {"deb", "deb-src"}
Entry(file, kind, uri, suites, components) ==
    [file |-> file.name, kind |-> kind, uri |-> uri, suites |-> suites, components |-> components, distro |-> FALSE]

\* A line of the old form: one kind, one address, one suite.
OneLine(p) == p.sound /\ Cardinality(p.kinds) = 1 /\ p.kinds \subseteq Kinds /\ Cardinality(p.uris) = 1 /\ Len(p.suites) = 1
\* A stanza that is switched off is passed over before its fields are looked at.
Stanza(p) == p.off \/ (p.kinds # {} /\ p.kinds \subseteq Kinds /\ p.uris # {} /\ p.suites # <<>>)
Entries(file, p) == IF p.off /\ file.form = "deb822" THEN <<>>
                    ELSE SetToSeq({Entry(file, k, u, p.suites, p.components) : k \in p.kinds, u \in p.uris})
\* One paragraph that is not understood makes the file unreadable.
parse(file, Understood(_)) ==
    LET all == FlattenSeq([i \in DOMAIN file.paragraphs |-> Entries(file, file.paragraphs[i])])
        ok == (\A i \in DOMAIN file.paragraphs : Understood(file.paragraphs[i])) /\ Len(all) <= MaxEntries
    IN [ok |-> ok, entries |-> IF ok THEN all ELSE <<>>]
parseOneLine(file) == parse(file, OneLine)
parseDeb822(file) == parse(file, LAMBDA p : p.sound /\ Stanza(p))

\* What is the distribution's: the official hosts, and a mirror whose list says so. At
\* most MaxLooks lists are looked at; what was not looked at is a third party's.
suiteSaysDistro(lists, looked, uri, suite) ==
    LET name == <<uri.host, suite>>
    IN CASE ~uri.nameable -> [says |-> FALSE, looked |-> looked]
         [] name \in looked -> [says |-> lists[name] \in {"Debian", "Ubuntu"}, looked |-> looked]
         [] Cardinality(looked) >= MaxLooks -> [says |-> FALSE, looked |-> looked]
         [] OTHER -> [says |-> lists[name] \in {"Debian", "Ubuntu"}, looked |-> looked \cup {name}]
SuitesOf(lists, looked, e) ==
    FoldLeft(LAMBDA acc, suite : LET look == suiteSaysDistro(lists, acc.looked, e.uri, suite)
                                 IN [looked |-> look.looked,
                                     own |-> IF look.says THEN Append(acc.own, suite) ELSE acc.own,
                                     rest |-> IF look.says THEN acc.rest ELSE Append(acc.rest, suite)],
             [looked |-> looked, own |-> <<>>, rest |-> <<>>], e.suites)
\* A mirror with suites of both sorts is split into two entries.
markDistro(lists, entries) ==
    FoldLeft(LAMBDA acc, e :
                IF e.uri.local \/ e.uri.official
                THEN [acc EXCEPT !.marked = Append(@, [e EXCEPT !.distro = ~e.uri.local])]
                ELSE LET s == SuitesOf(lists, acc.looked, e)
                     IN [looked |-> s.looked,
                         marked |-> acc.marked \o
                            (IF s.own # <<>> /\ s.rest # <<>>
                             THEN <<[e EXCEPT !.suites = s.own, !.distro = TRUE], [e EXCEPT !.suites = s.rest]>>
                             ELSE <<[e EXCEPT !.distro = s.own # <<>>]>>)],
             [looked |-> {}, marked |-> <<>>], entries).marked
\* The files in the order of apt; too many files or entries is an answer that is not made.
loadSources(files, lists) ==
    LET read == FoldLeft(LAMBDA acc, file :
                    LET parsed == IF file.form = "deb822" THEN parseDeb822(file) ELSE parseOneLine(file)
                    IN IF acc.large \/ ~file.there THEN acc
                       ELSE IF ~file.readable \/ ~parsed.ok THEN [acc EXCEPT !.unreadable = @ \cup {file.name}]
                       ELSE IF Len(acc.entries) + Len(parsed.entries) > MaxEntries THEN [acc EXCEPT !.large = TRUE]
                       ELSE [acc EXCEPT !.entries = @ \o parsed.entries],
                    [entries |-> <<>>, unreadable |-> {}, large |-> Len(files) > MaxFiles], files)
    IN [read EXCEPT !.entries = IF read.large THEN <<>> ELSE markDistro(lists, @)]
===============================================================================
