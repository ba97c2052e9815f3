------------------------------- MODULE OsVerify -------------------------------
(* The check after a hop (pkg/osverify and its callers in the service): the     *)
(* facts of the machine are taken when the hop begins, when the owner asks for  *)
(* the restart and after it, block 2 and block 8 write lists beside them, and   *)
(* the rules compare what was with what is. Every question may go unanswered.   *)
EXTENDS Integers, FiniteSets, Sequences, SequencesExt

CONSTANTS Hosts,                \* the machines that a hop begins on
          Upgraded(_),          \* what one of them may be when the restart is asked for
          Restarted(_),         \* and after the restart
          Faults,               \* what may fail in one taking of the facts: [deaf, hangs, mute, end]
          Unkept,               \* files of the backup folder that may be empty or unreadable
          maxPerCode            \* findings of one code

VARIABLES moment,               \* begin, hop, restart, back, judged
          host,                 \* the machine now
          was,                  \* the machine at the beginning and when the restart was asked for
          facts,                \* what was taken, before and at the restart
          bk,                   \* the backup folder: the lines of a file that is there
          spoilt,               \* the file of it that cannot be read
          faulty,               \* a taking or a file has failed
          patience,             \* containers are still waited for
          said                  \* the findings
verifyVars == <<moment, host, was, facts, bk, spoilt, faulty, patience, said>>

-------------------------------------------------------------------------------
(* facts.go: taking the facts.                                                   *)
allFacts == {"kernel", "system", "dpkg", "samba", "mounts", "route", "dns", "units", "docker", "containers", "sources", "listening", "failed_units"}
NoDocker == [state |-> "", version |-> "", engine |-> "", containers |-> {}]
NoFacts == [taken |-> FALSE, unknown |-> {}, kernel |-> "", system |-> "", dpkgQuiet |-> FALSE, samba |-> 0, mergerfs |-> {}, pools |-> <<>>,
            mounts |-> {}, route |-> "", dns |-> FALSE, units |-> <<>>, docker |-> NoDocker, paused |-> {}, listening |-> {}, failed |-> {}]
Knows(f, fact) == f.taken /\ fact \notin f.unknown
miss(f, missed) == [f EXCEPT !.unknown = @ \cup missed]

\* The questions in the order they are asked, and the tool each is put to.
Questions == <<"uname", "is-system-running", "audit", "pdbedit", "proc-mounts", "proc-route", "resolve", "unit-dirs", "show-units", "show-docker",
           "docker-version", "docker-sock", "docker-info", "engine-id", "docker-ps", "docker-inspect", "sources-dir", "sources-files", "ss", "failed">>
Place(q) == CHOOSE i \in DOMAIN Questions : Questions[i] = q
Tool(q) == CASE q \in {"is-system-running", "show-units", "show-docker", "failed"} -> "systemctl"
             [] q \in {"docker-version", "docker-info", "docker-ps", "docker-inspect"} -> "docker"
             [] OTHER -> q
\* A question is answered unless the time of the whole is over, the tool hung at it or before
\* (then it is not asked again), or it fails.
ask(x, q) == /\ Place(q) < x.end
             /\ q \notin x.deaf
             /\ \A h \in x.hangs : Tool(h) = Tool(q) => Place(q) < Place(h)

takeKernel(f, m, x) == IF ask(x, "uname") THEN [f EXCEPT !.kernel = m.kernel] ELSE miss(f, {"kernel"})
takeSystem(f, m, x) == IF ask(x, "is-system-running") THEN [f EXCEPT !.system = m.system] ELSE miss(f, {"system"})
takeDpkg(f, m, x) == IF ask(x, "audit") THEN [f EXCEPT !.dpkgQuiet = m.quiet] ELSE miss(f, {"dpkg"})
takeSamba(f, m, x) == IF ask(x, "pdbedit") THEN [f EXCEPT !.samba = m.samba] ELSE miss(f, {"samba"})
mergerfsMounts(lines) == {l.point : l \in {l \in lines : l.fs = "fuse.mergerfs"}}
dataFileSystems == {"ext4", "nfs", "fuse.mergerfs"}
dataMounts(lines) == {l.point : l \in {l \in lines : l.fs \in dataFileSystems}}
poolBranches(lines) == [p \in mergerfsMounts(lines) |-> (CHOOSE l \in lines : l.point = p /\ l.fs = "fuse.mergerfs").branches]
takeMounts(f, m, x) ==
    IF ask(x, "proc-mounts") THEN [f EXCEPT !.mergerfs = mergerfsMounts(m.mounts), !.mounts = dataMounts(m.mounts), !.pools = poolBranches(m.mounts)]
    ELSE miss(f, {"mounts"})
\* The first line of a default route that is up and does not reject; an odd name is "other".
defaultRoute(routes) ==
    LET usable == SelectSeq(routes, LAMBDA r : r.default /\ r.up /\ ~r.reject)
    IN IF usable = <<>> THEN "" ELSE IF Head(usable).named THEN Head(usable).interface ELSE "other"
takeRoute(f, m, x) == IF ask(x, "proc-route") THEN [f EXCEPT !.route = defaultRoute(m.routes)] ELSE miss(f, {"route"})
\* A resolver that fails is an answer: only the end of the time is none.
takeDNS(f, m, x) == IF Place("resolve") < x.end THEN [f EXCEPT !.dns = m.dns /\ "resolve" \notin x.deaf] ELSE miss(f, {"dns"})
transientUnits == {"casaos-os-upgrade"}
\* The units of ReCasaOS that have a file, each with its state, or "unknown".
takeUnits(f, m, x) ==
    IF ~ask(x, "unit-dirs") \/ x.end <= Place("show-units") THEN miss(f, {"units"})
    ELSE [f EXCEPT !.units = [u \in DOMAIN m.units \ transientUnits |-> IF ask(x, "show-units") /\ u \notin x.mute THEN m.units[u] ELSE "unknown"]]
dockerThere(m, x) ==
    CASE ~ask(x, "docker-version") -> "error"
      [] m.dockerTool -> "there"
      [] ~ask(x, "docker-sock") -> "error"
      [] OTHER -> IF m.dockerSock THEN "there" ELSE "absent"
\* A container whose name or policy does not pass is not in the list.
takeContainers(f, m, x) ==
    IF ask(x, "docker-ps") /\ (m.running = {} \/ ask(x, "docker-inspect"))
    THEN [f EXCEPT !.docker.containers = {c \in m.running : c.valid}] ELSE miss(f, {"containers"})
takeDaemon(f, m, x) ==
    IF ~ask(x, "docker-info") THEN miss(f, {"docker", "containers"})
    ELSE IF ~m.daemon THEN miss([f EXCEPT !.docker.state = "down"], {"containers"})
    ELSE takeContainers([f EXCEPT !.docker = [@ EXCEPT !.state = "up", !.version = m.version,
                                                      !.engine = IF ask(x, "engine-id") THEN m.engine ELSE ""]], m, x)
takeDocker(f, m, x) ==
    IF ~ask(x, "show-docker") THEN miss(f, {"docker", "containers"})
    ELSE IF m.dockerUnit \in {"active", "activating", "reloading"} THEN takeDaemon(f, m, x)
    ELSE CASE dockerThere(m, x) = "error" -> miss(f, {"docker", "containers"})
           [] dockerThere(m, x) = "there" -> [f EXCEPT !.docker.state = "stopped"]
           [] dockerThere(m, x) = "absent" -> [f EXCEPT !.docker.state = "absent"]
takeSources(f, m, x) == IF ask(x, "sources-dir") /\ ask(x, "sources-files") THEN [f EXCEPT !.paused = m.paused] ELSE miss(f, {"sources"})
takeListening(f, m, x) == IF ask(x, "ss") THEN [f EXCEPT !.listening = m.ports] ELSE miss(f, {"listening"})
takeFailed(f, m, x) == IF ask(x, "failed") THEN [f EXCEPT !.failed = m.failed] ELSE miss(f, {"failed_units"})
TakeWith(m, x) ==
    takeFailed(takeListening(takeSources(takeDocker(takeUnits(takeDNS(takeRoute(takeMounts(takeSamba(takeDpkg(takeSystem(takeKernel(
        [NoFacts EXCEPT !.taken = TRUE], m, x), m, x), m, x), m, x), m, x), m, x), m, x), m, x), m, x), m, x), m, x), m, x)

-------------------------------------------------------------------------------
(* judge.go: the rules. A finding is its code, what it is about and the apps.    *)
Errors == {"kernel_unexpected", "casaos_unit_down", "docker_down", "mounts_missing", "dpkg_not_quiet", "system_not_ready"}
Warnings == {"units_failed_new", "ports_missing", "samba_users_changed", "route_missing", "dns_missing", "docker_version_changed",
             "docker_source_unreachable", "container_not_returned", "facts_incomplete"}
SeverityOf(code) == IF code \in Errors THEN "error" ELSE IF code \in Warnings THEN "warn" ELSE "info"
Finding(code, arg) == [code |-> code, arg |-> arg, apps |-> {}]
\* No more than maxPerCode of one code are kept.
add(found) ==
    UNION {LET same == {f \in found : f.code = c}
           IN IF Cardinality(same) <= maxPerCode THEN same ELSE CHOOSE some \in SUBSET same : Cardinality(some) = maxPerCode
           : c \in {f.code : f \in found}}

bkLines(files, name) == IF name \in DOMAIN files THEN files[name] ELSE {}
judgeKernel(j) == {Finding("kernel_unexpected", k) : k \in {k \in bkLines(j.bk, "kernel") : Knows(j.after, "kernel") /\ j.after.kernel # k}}
casaosUnitStates(files) == {u \in bkLines(files, "casaos-units.txt") : u.name \notin transientUnits}
State(units, u) == IF u \in DOMAIN units THEN units[u] ELSE ""
Down(j) == IF ~Knows(j.after, "units") THEN {}
           ELSE {u \in casaosUnitStates(j.bk) : u.state = "active" /\ State(j.after.units, u.name) \notin {"active", "reloading", "unknown"}}
StoppedUnits(j) == {u \in Down(j) : Knows(j.restart, "units") /\ State(j.restart.units, u.name) = "inactive"}
casaosUnits(j) == {Finding("casaos_unit_down", u.name) : u \in Down(j) \ StoppedUnits(j)}
bkRunning(files) == {c \in bkLines(files, "containers.txt") : c.state = "running"}
dockerRan(j) == IF Knows(j.before, "docker") THEN j.before.docker.state = "up" ELSE bkRunning(j.bk) # {}
dockerDown(j) == IF Knows(j.after, "docker") /\ j.after.docker.state # "up" /\ dockerRan(j) THEN {Finding("docker_down", j.after.docker.state)} ELSE {}

within(path, dir) == IsPrefix(dir, path)
Apps(j) == IF Knows(j.before, "containers") THEN j.before.docker.containers ELSE {}
appsUnder(j, point) == {c.name : c \in {c \in Apps(j) : \E b \in c.binds : within(b, point)}}
appsOn(j, point) == {c.name : c \in {c \in Apps(j) : \E b \in c.binds : within(b, point) \/ within(point, b)}}
\* The mounts that a branch of a pool names, a pattern each that it matches.
Matches(branch, point) == IF branch.glob THEN Len(point) = Len(branch.path) /\ Front(point) = Front(branch.path) ELSE point = branch.path
branchMounts(branches, points) == {p \in points : \E b \in branches : p # <<>> /\ Matches(b, p)}
lostMounts(j) ==
    {p \in j.before.mounts \ j.after.mounts :
        p # <<>> /\ (appsOn(j, p) # {} \/ \E pool \in DOMAIN j.before.pools : p \in branchMounts(j.before.pools[pool], j.before.mounts))}
judgeMounts(j) ==
    LET pools == j.before.mergerfs \ j.after.mergerfs
        kept == DOMAIN j.before.pools \cap j.after.mergerfs
        branches == {b \in UNION {j.before.pools[p] : p \in kept} : \E p \in kept : b \in j.before.pools[p] /\ b \notin j.after.pools[p]}
        users(point) == (IF point \in pools THEN appsUnder(j, point) ELSE {})
                        \cup UNION {appsUnder(j, p) : p \in {p \in kept : \E b \in branches : b.path = point /\ b \in j.before.pools[p] \ j.after.pools[p]}}
                        \cup (IF point \in lostMounts(j)
                              THEN appsOn(j, point) \cup UNION {appsUnder(j, p) : p \in {p \in DOMAIN j.before.pools : point \in branchMounts(j.before.pools[p], j.before.mounts)}}
                              ELSE {})
    IN IF ~Knows(j.before, "mounts") \/ ~Knows(j.after, "mounts") THEN {}
       ELSE {[code |-> "mounts_missing", arg |-> p, apps |-> users(p)] : p \in pools \cup {b.path : b \in branches} \cup lostMounts(j)}

dpkgQuiet(j) == IF Knows(j.after, "dpkg") /\ ~j.after.dpkgQuiet THEN {Finding("dpkg_not_quiet", "")} ELSE {}
systemReady(j) == IF Knows(j.after, "system") /\ j.after.system \notin {"running", "degraded"} THEN {Finding("system_not_ready", "")} ELSE {}
\* What is new in a list: nothing when a side of it is not there. The facts of after come before the file of block 8.
newLines(j, before, after, fact, now) ==
    IF before \notin DOMAIN j.bk \/ (~Knows(j.after, fact) /\ after \notin DOMAIN j.bk) THEN {}
    ELSE (IF Knows(j.after, fact) THEN now ELSE j.bk[after]) \ j.bk[before]
failedUnits(j) == {Finding("units_failed_new", u) : u \in newLines(j, "failed-units.txt", "failed-units-after.txt", "failed_units", j.after.failed)}
ephemeralPort == 32768
judgePorts(j) ==
    IF "listening.txt" \notin DOMAIN j.bk \/ (~Knows(j.after, "listening") /\ "listening-after.txt" \notin DOMAIN j.bk) THEN {}
    ELSE {Finding("ports_missing", p) : p \in {p \in j.bk["listening.txt"] : p < ephemeralPort}
                                              \ (IF Knows(j.after, "listening") THEN j.after.listening ELSE j.bk["listening-after.txt"])}
Both(j, fact) == Knows(j.before, fact) /\ Knows(j.after, fact)
judgeSamba(j) == IF Both(j, "samba") /\ j.before.samba # j.after.samba THEN {Finding("samba_users_changed", "")} ELSE {}
judgeRoute(j) == IF Both(j, "route") /\ j.before.route # "" /\ j.after.route = "" THEN {Finding("route_missing", "")} ELSE {}
judgeDNS(j) == IF Both(j, "dns") /\ j.before.dns /\ ~j.after.dns THEN {Finding("dns_missing", "")} ELSE {}
dockerVersion(j) ==
    IF Both(j, "docker") /\ j.before.docker.state = "up" /\ j.after.docker.state = "up"
       /\ \E part \in {"version", "engine"} : j.before.docker[part] # "" /\ j.after.docker[part] # "" /\ j.before.docker[part] # j.after.docker[part]
    THEN {Finding("docker_version_changed", "")} ELSE {}
dockerSource(j) == {Finding(IF n = "not_published" THEN "docker_source_not_published" ELSE "docker_source_unreachable", "") : n \in bkLines(j.bk, "docker-source-note")}
prerebootWarnings(j) == {Finding("prereboot_warning", w) : w \in bkLines(j.bk, "warnings")}

\* The containers that ran when block 2 looked and do not run now, whatever their policy.
NotReturned(files, after) ==
    IF ~Knows(after, "docker") \/ after.docker.state # "up" \/ ~Knows(after, "containers") THEN {}
    ELSE {c \in bkRunning(files) : c.name \notin {r.name : r \in after.docker.containers}}
stoppedBeforeRestart(j) ==
    IF ~Knows(j.restart, "docker") \/ ~Knows(j.restart, "containers") \/ j.restart.docker.state # "up" THEN {}
    ELSE {c.name : c \in bkRunning(j.bk)} \ {r.name : r \in j.restart.docker.containers}
Missing(j) == {c \in NotReturned(j.bk, j.after) : c.policy \notin {"", "no"}}
judgeContainers(j) == {Finding("container_not_returned", c.name) : c \in {c \in Missing(j) : c.name \notin stoppedBeforeRestart(j)}}
dpkgFiles(j) == {Finding("dpkg_dist_new", p) : p \in IF {"dpkg-files.txt", "dpkg-files-after.txt"} \subseteq DOMAIN j.bk
                                                      THEN j.bk["dpkg-files-after.txt"] \ j.bk["dpkg-files.txt"] ELSE {}}
judgePaused(j) == {IF p = "docker.list" THEN Finding("docker_source_paused", "") ELSE Finding("sources_left_paused", p) :
                      p \in IF Knows(j.after, "sources") THEN j.after.paused ELSE {}}

\* What of now was not taken and was to be compared with something.
needed(j) ==
    LET ran == bkRunning(j.bk) # {}
        there(fact, because) == IF because THEN {fact} ELSE {}
    IN {"system", "dpkg", "sources"}
       \cup there("kernel", bkLines(j.bk, "kernel") # {})
       \cup there("units", bkLines(j.bk, "casaos-units.txt") # {})
       \cup there("failed_units", "failed-units.txt" \in DOMAIN j.bk)
       \cup there("listening", "listening.txt" \in DOMAIN j.bk)
       \cup there("samba", Knows(j.before, "samba"))
       \cup there("mounts", Knows(j.before, "mounts") /\ j.before.mounts \cup j.before.mergerfs # {})
       \cup there("route", Knows(j.before, "route") /\ j.before.route # "")
       \cup there("dns", Knows(j.before, "dns") /\ j.before.dns)
       \cup there("docker", dockerRan(j))
       \cup there("containers", dockerRan(j) /\ j.after.docker.state = "up" /\ (ran \/ Apps(j) # {}))
UnknownUnits(j) == Knows(j.after, "units")
                   /\ \E u \in casaosUnitStates(j.bk) : u.state = "active" /\ State(j.after.units, u.name) = "unknown"
incomplete(j) ==
    IF ~j.after.taken THEN {Finding("facts_incomplete", {"all"})}
    ELSE LET missing == {f \in needed(j) : ~Knows(j.after, f)} \cup (IF UnknownUnits(j) THEN {"units"} ELSE {}) \cup (j.after.unknown \ allFacts)
         IN IF missing = {} THEN {} ELSE {Finding("facts_incomplete", missing)}
addChanged(j) == {Finding("changed_since_snapshot", u.name) : u \in StoppedUnits(j)}
                 \cup {Finding("changed_since_snapshot", c.name) : c \in {c \in Missing(j) : c.name \in stoppedBeforeRestart(j)}}
JudgeWith(j) ==
    add(judgeKernel(j) \cup casaosUnits(j) \cup dockerDown(j) \cup judgeMounts(j) \cup dpkgQuiet(j) \cup systemReady(j) \cup failedUnits(j)
        \cup judgePorts(j) \cup judgeSamba(j) \cup judgeRoute(j) \cup judgeDNS(j) \cup dockerVersion(j) \cup dockerSource(j) \cup prerebootWarnings(j)
        \cup judgeContainers(j) \cup dpkgFiles(j) \cup judgePaused(j) \cup incomplete(j) \cup addChanged(j))

-------------------------------------------------------------------------------
(* The service: when the facts are taken, what the blocks write, when it judges. *)
Fails(x) == x # [deaf |-> {}, hangs |-> {}, mute |-> {}, end |-> 99]
\* One thing fails in a behaviour, wherever it may.
May(x) == faulty => ~Fails(x)
Lines(m) == [f \in {"kernel", "listening.txt", "failed-units.txt", "casaos-units.txt", "containers.txt", "dpkg-files.txt"} |->
               CASE f = "kernel" -> {m.newest}
                 [] f = "listening.txt" -> m.ports
                 [] f = "failed-units.txt" -> m.failed
                 [] f = "casaos-units.txt" -> {[name |-> u, state |-> m.units[u]] : u \in DOMAIN m.units}
                 [] f = "containers.txt" -> IF m.daemon THEN {[name |-> c.name, policy |-> c.policy, state |-> "running"] : c \in {c \in m.running : c.valid}} ELSE {}
                 [] f = "dpkg-files.txt" -> m.dpkgFiles]
verifyInit == /\ moment = "begin" /\ host \in Hosts
              /\ was = <<>> /\ facts = <<>> /\ bk = <<>> /\ said = {}
              /\ spoilt = "" /\ faulty = FALSE /\ patience = TRUE
\* The start takes the facts, and block 2 writes its lists: a tool that fails there leaves an empty one.
Begin == /\ moment = "begin" /\ moment' = "hop"
         /\ \E x \in Faults, empty \in {{}} \cup {{u} : u \in Unkept} :
              /\ Fails(x) => empty = {}
              /\ facts' = <<TakeWith(host, x)>>
              /\ bk' = [f \in {"listening.txt", "failed-units.txt", "casaos-units.txt", "containers.txt", "dpkg-files.txt"} |-> IF f \in empty THEN {} ELSE Lines(host)[f]]
              /\ faulty' = (Fails(x) \/ empty # {})
         /\ was' = <<host>>
         /\ UNCHANGED <<host, spoilt, patience, said>>
\* The hop, and what the owner does meanwhile; block 7 notes the kernel; the restart is asked for
\* and the facts are taken once more, and kept or not.
osUpgradeTakeRestartFacts ==
    /\ moment = "hop" /\ moment' = "restart"
    /\ host' \in Upgraded(host)
    /\ \E x \in Faults, kept \in BOOLEAN :
         /\ May(x) /\ (~kept => ~faulty /\ ~Fails(x))
         /\ facts' = Append(facts, IF kept THEN TakeWith(host', x) ELSE NoFacts)
         /\ faulty' = (faulty \/ Fails(x) \/ ~kept)
    /\ was' = Append(was, host')
    /\ bk' = [f \in DOMAIN bk \cup {"kernel", "warnings"} |-> CASE f = "kernel" -> Lines(host').kernel [] f = "warnings" -> host'.warnings [] OTHER -> bk[f]]
    /\ UNCHANGED <<spoilt, patience, said>>
\* The machine comes back, and block 8 writes its lists.
Back == /\ moment = "restart" /\ moment' = "back"
        /\ host' \in Restarted(host)
        /\ bk' = [f \in DOMAIN bk \cup {"listening-after.txt", "failed-units-after.txt", "dpkg-files-after.txt", "docker-source-note"} |->
                    CASE f = "listening-after.txt" -> host'.ports [] f = "failed-units-after.txt" -> host'.failed
                      [] f = "dpkg-files-after.txt" -> host'.dpkgFiles [] f = "docker-source-note" -> host'.note [] OTHER -> bk[f]]
        /\ \/ UNCHANGED <<spoilt, faulty>>
           \/ ~faulty /\ faulty' = TRUE /\ spoilt' \in Unkept
        /\ UNCHANGED <<was, facts, patience, said>>
\* Docker starts a container that has a restart policy a little later than the machine.
Returns(c) == /\ moment = "back" /\ host.daemon /\ c \notin host.running
              /\ host' = [host EXCEPT !.running = @ \cup {c}]
              /\ UNCHANGED <<moment, was, facts, bk, spoilt, faulty, patience, said>>
WaitEnds == /\ moment = "back" /\ patience /\ patience' = FALSE
            /\ UNCHANGED <<moment, host, was, facts, bk, spoilt, faulty, said>>

\* Altered: a file of the backup folder that cannot be read is one that is not there.
ReadBKUnreadable_Absent == [files |-> [f \in DOMAIN bk \ {spoilt} |-> bk[f]], unreadable |-> {}]
ReadBKUnreadable == [files |-> [f \in DOMAIN bk \ {spoilt} |-> bk[f]], unreadable |-> IF spoilt \in DOMAIN bk THEN {"bk:" \o spoilt} ELSE {}]
Case(x) == [before |-> facts[1], restart |-> facts[2], bk |-> ReadBKUnreadable.files,
            after |-> [TakeWith(host, x) EXCEPT !.unknown = @ \cup ReadBKUnreadable.unreadable]]
\* The judge gives up, to be asked again, when systemd does not say the state of the system, and
\* while containers are waited for; else its findings are written.
osUpgradeJudge ==
    /\ moment = "back"
    /\ \E x \in {x \in Faults : May(x)} : \E j \in {Case(x)} : \E found \in {JudgeWith(j)} :
         /\ Knows(j.after, "system")
         /\ ~(patience /\ \E f \in found : f.code = "container_not_returned")
         /\ said' = found
         /\ faulty' = (faulty \/ Fails(x))
    /\ moment' = "judged"
    /\ UNCHANGED <<host, was, facts, bk, spoilt, patience>>
verifyNext == \/ Begin \/ osUpgradeTakeRestartFacts \/ Back \/ WaitEnds \/ osUpgradeJudge
              \/ \E c \in UNION {h.running : h \in Hosts} : Returns(c)
verifySpec == verifyInit /\ [][verifyNext]_verifyVars

-------------------------------------------------------------------------------
Says(code, arg) == (\E f \in said : f.code = code /\ f.arg = arg) \/ Cardinality({f \in said : f.code = code}) = maxPerCode
NotJudged(fact) == \E f \in said : f.code = "facts_incomplete" /\ fact \in f.arg
Before(fact) == Knows(facts[1], fact)
Used(h, p) == \E c \in h.running : c.valid /\ \E b \in c.binds : within(b, p) \/ within(p, b)
PoolsOf(h, p) == {l \in h.mounts : l.fs = "fuse.mergerfs" /\ \E b \in l.branches : Matches(b, p)}
\* A mount that an application or a pool used and that is gone is said, or the mounts are said not to be judged.
MountsSaid ==
    Before("mounts") =>
      \A p \in dataMounts(was[1].mounts) \ dataMounts(host.mounts) :
         p # <<>> /\ (PoolsOf(was[1], p) # {} \/ (Before("containers") /\ was[1].daemon /\ Used(was[1], p)))
            => Says("mounts_missing", p) \/ NotJudged("mounts")
UnitsSaid ==
    \A u \in DOMAIN was[1].units \ transientUnits :
       was[1].units[u] = "active" /\ (u \in DOMAIN host.units => host.units[u] \notin {"active", "reloading"}) /\ bk["casaos-units.txt"] # {}
          => \/ Says("casaos_unit_down", u) \/ NotJudged("units") \/ NotJudged("bk:casaos-units.txt")
             \/ Says("changed_since_snapshot", u) /\ State(was[2].units, u) = "inactive"
ContainersSaid ==
    \A c \in was[1].running :
       was[1].daemon /\ c.valid /\ c.policy \notin {"", "no"} /\ c \notin host.running /\ bk["containers.txt"] # {}
          => \/ Says("container_not_returned", c.name) \/ NotJudged("containers") \/ NotJudged("docker") \/ NotJudged("bk:containers.txt")
             \/ \E f \in said : f.code = "docker_down"
             \/ Says("changed_since_snapshot", c.name) /\ c \notin was[2].running
Serves(h) == h.dockerUnit = "active" /\ h.daemon
RestSaid ==
    /\ Serves(was[1]) /\ ~Serves(host) /\ (Before("docker") \/ bk["containers.txt"] # {})
          => (\E f \in said : f.code = "docker_down") \/ NotJudged("docker") \/ NotJudged("bk:containers.txt")
    /\ host.kernel # was[2].newest => Says("kernel_unexpected", was[2].newest) \/ NotJudged("kernel") \/ NotJudged("bk:kernel")
    /\ ~host.quiet => Says("dpkg_not_quiet", "") \/ NotJudged("dpkg")
    /\ Before("route") /\ defaultRoute(was[1].routes) # "" /\ defaultRoute(host.routes) = "" => Says("route_missing", "") \/ NotJudged("route")
    /\ facts[1].dns /\ ~host.dns => Says("dns_missing", "") \/ NotJudged("dns")
    /\ \A p \in was[1].ports \ host.ports : p < ephemeralPort /\ bk["listening.txt"] # {}
          => Says("ports_missing", p) \/ NotJudged("listening") \/ NotJudged("bk:listening.txt")
    /\ \A u \in host.failed \ was[1].failed : Says("units_failed_new", u) \/ NotJudged("failed_units") \/ NotJudged("bk:failed-units.txt")
    /\ \A p \in host.paused \ {"docker.list"} : Says("sources_left_paused", p) \/ NotJudged("sources")
\* Whatever question goes unanswered at the start, at the restart or after it, and whichever list of
\* the backup folder is lost, what was known of the machine before the hop and is gone after it is
\* either said or named among what was not judged (judge.go:234, :656, system_os_upgrade_judge.go:54).
NothingUnsaid == moment = "judged" => MountsSaid /\ UnitsSaid /\ ContainersSaid /\ RestSaid
\* An error, which makes the hop one that ended badly, is about the machine and not about a question
\* that got no answer: the thing it names is wrong now, and was not before (judge.go:55-70).
BlamesTruly ==
    \A f \in said :
       /\ f.code = "kernel_unexpected" => host.kernel # f.arg /\ f.arg = was[2].newest
       /\ f.code = "casaos_unit_down" => State(host.units, f.arg) \notin {"active", "reloading"} /\ was[1].units[f.arg] = "active"
       /\ f.code = "docker_down" => ~Serves(host) /\ Serves(was[1])
       /\ f.code = "mounts_missing" => f.arg \in dataMounts(was[1].mounts) \ dataMounts(host.mounts)
                                       \/ \E l \in was[1].mounts, n \in host.mounts : l.point = n.point /\ \E b \in l.branches \ n.branches : b.path = f.arg
       /\ f.code = "dpkg_not_quiet" => ~host.quiet
       /\ f.code = "system_not_ready" => host.system \notin {"running", "degraded"}

\* The verdict over the two looks misses nothing that it knew of and blames the machine only.
VerdictHolds == NothingUnsaid /\ BlamesTruly
===============================================================================
