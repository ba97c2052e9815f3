------------------------------ MODULE ReadyRules ------------------------------
(* The checks of the readiness report (pkg/osreadiness/checks_*.go), each as a  *)
(* function of a machine and of the probes of it that fail. A machine m is a    *)
(* record of what the probes find when they answer; d is the set of probes that *)
(* do not: a command that fails, a file that cannot be read, an answer that is  *)
(* not understood. A check asks in the order of the code, so that what it finds *)
(* before a probe fails still counts.                                           *)
EXTENDS AptSources, OsSupport

Hops == {"debian-11-12", "debian-12-13", "ubuntu-22.04-24.04", "ubuntu-24.04-26.04"}
debianHops == {"debian-11-12", "debian-12-13"}
ubuntuHops == Hops \ debianHops

\* The answers of a check; one that could not be made counts as a refusal.
Severity(answer) == IF answer = "unknown" THEN "refuse" ELSE answer
Asked(d, probe, answer) == IF probe \in d THEN "unknown" ELSE answer
Found(problem, answer) == IF problem THEN answer ELSE "ok"

-------------------------------------------------------------------------------
\* Identity. The first three are the gates.
\* What they go by is what was read of the machine before any check: m.session.
checkUnsupportedOS(m, d) ==
    CASE m.session.releaseErr -> "unknown"
      [] m.session.variant # "" -> "ok"
      [] ~m.session.known -> "refuse"
      [] m.session.hop # "" \/ m.session.latest -> "ok"
      [] BeforeTable(m.now) \/ Stale(m.now) -> "unknown"
      [] OTHER -> "refuse"
checkVendorOS(m, d) == IF m.session.markerErr THEN "unknown" ELSE Found(m.session.variant # "", "refuse")
checkArch(m, d) == IF m.arch # "amd64" THEN "refuse"
                   ELSE IF m.dpkg = "missing" THEN "ok" ELSE Asked(d, "dpkg-arch", Found(m.dpkg # "amd64", "refuse"))
\* systemd is asked when it is there, then the signs that a container leaves.
checkContainer(m, d) == IF m.detect # "missing" /\ "virt" \in d THEN "unknown"
                        ELSE IF m.detect \notin {"missing", "none"} THEN "refuse"
                        ELSE Asked(d, "container-files", IF m.containerFile THEN "refuse" ELSE Asked(d, "cgroup", Found(m.cgroupHint, "refuse")))
checkXen(m, d) == IF m.detect # "missing" THEN Asked(d, "virt", Found(m.xen, "refuse")) ELSE Asked(d, "hypervisor", Found(m.xen, "refuse"))
checkSystemd(m, d) == Asked(d, "init", Found(m.init # "systemd", "refuse"))
checkRoot(m, d) == Found(m.euid # 0, "refuse")

-------------------------------------------------------------------------------
\* What is at work, and what was left unfinished.
checkBusy(m, d) == IF m.busy THEN "refuse" ELSE Asked(d, "maintenance", Asked(d, "units", Found(m.aptDaily, "refuse")))
checkApps(m, d) == Asked(d, "apps", Found(m.apps # {}, "refuse"))
checkRebootFirst(m, d) == Asked(d, "reboot-flag", Asked(d, "kernel",
                              IF m.kernel = "odd" THEN Found(m.rebootFlag, "refuse")
                              ELSE Asked(d, "boot-dir", Found(m.rebootFlag \/ m.newerKernel, "refuse"))))
uptimeLimit == 180
checkUptime(m, d) == Asked(d, "uptime", Found(m.uptime > uptimeLimit, "warn"))
\* What dpkg says stands when apt cannot be asked, or fails for another reason.
checkBrokenDpkg(m, d) == Asked(d, "audit", Asked(d, "journal",
                            IF m.audit \/ m.journal THEN "refuse" ELSE Asked(d, "apt-check", Found(m.brokenDeps, "refuse"))))
heldPackages(m) == [docker |-> m.held \cap {"docker-ce"}, others |-> m.held \ {"docker-ce"}]
checkHeld(m, d) == Asked(d, "dpkg", Found(heldPackages(m).others # {}, "refuse"))
checkHeldDocker(m, d) == Asked(d, "dpkg", Found(heldPackages(m).docker # {}, "info"))

-------------------------------------------------------------------------------
\* The sources of apt (m.files, m.lists). A check that finds nothing is not made when a
\* file of the sources cannot be read.
isAlias(suite) == suite \in {"stable", "stable-updates", "testing"}
isProposed(suite) == suite \in {"next-proposed"}
isBackports(suite) == suite \in {"next-backports"}
sourcesOf(m) == loadSources(m.files, m.lists)
AnyEntry(set, P(_)) == \E i \in DOMAIN set.entries : P(set.entries[i])
unlessUnreadable(set, answer) == IF answer = "ok" /\ set.unreadable # {} THEN "unknown" ELSE answer
AskSources(m, d, Judge(_)) == Asked(d, "sources", IF sourcesOf(m).large THEN "unknown" ELSE Judge(sourcesOf(m)))
sourcesProblem(m, d, P(_)) == AskSources(m, d, LAMBDA set : unlessUnreadable(set, Found(AnyEntry(set, P), "refuse")))
Suite(e, Is(_)) == \E i \in DOMAIN e.suites : Is(e.suites[i])
checkSourcesLocal(m, d) == sourcesProblem(m, d, LAMBDA e : e.uri.local)
checkSourcesAlias(m, d) == sourcesProblem(m, d, LAMBDA e : e.distro /\ Suite(e, isAlias))
checkSourcesProposed(m, d) == sourcesProblem(m, d, LAMBDA e : e.distro /\ Suite(e, isProposed))
checkSourcesFormat(m, d) == AskSources(m, d, LAMBDA set : Found(set.unreadable # {}, "refuse"))
Other(e) == ~e.distro /\ ~e.uri.local
checkSourcesThirdParty(m, d) == AskSources(m, d, LAMBDA set :
    CASE ~AnyEntry(set, Other) -> unlessUnreadable(set, "ok")
      [] ~AnyEntry(set, LAMBDA e : Other(e) /\ e.uri.host # "docker") -> "info"
      [] OTHER -> "warn")
checkSourcesBackports(m, d) == AskSources(m, d, LAMBDA set :
    IF AnyEntry(set, LAMBDA e : e.distro /\ Suite(e, isBackports)) THEN "info" ELSE unlessUnreadable(set, "ok"))
\* An entry of the distribution without the component of the firmware lacks it when it
\* has the old one, or when firmware is installed.
Lacking(m, e) == e.distro /\ "non-free-firmware" \notin e.components
                 /\ ("non-free" \in e.components \/ (m.firmware /\ "main" \in e.components))
checkSourcesFirmware(m, d) == AskSources(m, d, LAMBDA set : Asked(d, "dpkg",
    IF AnyEntry(set, LAMBDA e : Lacking(m, e)) THEN "info" ELSE unlessUnreadable(set, "ok")))
checkSourcesPin(m, d) == Asked(d, "apt-config", Asked(d, "preferences", Found(m.defaultRelease \/ m.pinned, "refuse")))
checkSourcesLater(m, d) == "info"

-------------------------------------------------------------------------------
\* Packages.
checkForeignArch(m, d) == Asked(d, "dpkg-arch", IF m.foreignArch = {} THEN "ok"
                             ELSE Asked(d, "dpkg", Found(m.foreignArch \cap m.installedArch # {}, "refuse")))
checkKeyring(m, d) == Asked(d, "dpkg", Found(m.keyring < 2, "info"))          \* 0: none, 1: too old
checkOpenSSH(m, d) == Asked(d, "dpkg", Found(m.openssh = 1, "info"))
checkHostServices(m, d) == Asked(d, "dpkg", Found(m.services # {}, "refuse"))
\* The devices under the network card of the route, and under the root: a stack is [start,
\* under, driver], walked down at most so far and over so many devices.
maxStackDepth == 6
maxStackDevices == 32
Reached(stack, depth) ==
    LET level[n \in 0 .. depth] == IF n = 0 THEN stack.start ELSE level[n - 1] \cup UNION {stack.under[x] : x \in level[n - 1]}
    IN level[depth]
capped(stack) == \/ Cardinality(Reached(stack, maxStackDepth)) > maxStackDevices
                 \/ \E x \in Reached(stack, maxStackDepth) : ~(stack.under[x] \subseteq Reached(stack, maxStackDepth))
\* Of the network the drivers of the cards at the bottom count, of the disk those of every device.
networkDrivers(m) == {m.network.driver[x] : x \in {y \in Reached(m.network, maxStackDepth) :
                        m.network.under[y] = {} \/ ~(m.network.under[y] \subseteq Reached(m.network, maxStackDepth))}}
rootDrivers(m) == {m.disk.driver[x] : x \in Reached(m.disk, maxStackDepth)}
builtFromSource(drivers) == "dkms" \in drivers
checkDKMS(m, d) ==
    IF m.dkms = "missing" THEN "ok" ELSE Asked(d, "dkms",
    IF m.dkms = "none" THEN "ok" ELSE Asked(d, "network-stack", Asked(d, "disk-stack", Asked(d, "modinfo",
    LET needed == builtFromSource(networkDrivers(m)) \/ builtFromSource(rootDrivers(m))
    IN IF (capped(m.network) \/ capped(m.disk)) /\ ~needed THEN "unknown"
       ELSE Asked(d, "secure-boot", Asked(d, "certificate", IF needed \/ (m.secureBoot /\ ~m.certificate) THEN "refuse" ELSE "warn"))))))
\* Modules: more than are read, half removed, unreadable, or without a word on upgrades.
maxModules == 32
checkModules(m, d) == Asked(d, "modules", CASE m.modules = 0 -> "ok"
                                            [] m.modules > maxModules -> "unknown"
                                            [] OTHER -> "refuse")             \* engineRunsModuleCalls is FALSE

-------------------------------------------------------------------------------
\* Filesystems. Sizes are in MiB.
checkMergedUsr(m, d) == Asked(d, "usr", Found(~m.mergedUsr, "refuse"))
checkCgroup(m, d) == Asked(d, "cgroup-fs", Found(~m.cgroup2, "refuse"))
espMinimum == 16
checkESP(m, d) == Asked(d, "mounts", IF ~m.espMounted THEN "refuse" ELSE Asked(d, "free", Found(m.free.esp < espMinimum, "refuse")))
checkInstallDevices(m, d) == Asked(d, "debconf",
    IF m.grubDevices = {} THEN Found(~m.grubDevicesEmpty, "refuse")
    ELSE Asked(d, "devices", Found(\E dev \in m.grubDevices : dev = "gone", "refuse")))
checkBootloader(m, d) ==
    Asked(d, "dpkg", Asked(d, "loader-files",
    IF m.systemdBoot THEN "refuse" ELSE Asked(d, "loader-info",
    IF m.loaderInfo = "systemd-boot" THEN "refuse" ELSE Asked(d, "grub-config",
    IF m.grub = {} \/ ~m.grubConfig THEN "refuse" ELSE Asked(d, "efi",
    IF m.efi THEN checkESP(m, d) ELSE IF "grub-pc" \in m.grub THEN checkInstallDevices(m, d) ELSE "ok")))))
checkRootZFS(m, d) == Asked(d, "mounts", Found(m.rootFS = "zfs", "refuse"))
\* The devices under the root, when it is on one.
rootDevice(m, d, answer, none) == Asked(d, "mounts", IF m.rootDevice = "none" THEN none ELSE Asked(d, "lsblk", answer))
checkRootLUKS(m, d) == rootDevice(m, d, Found("crypt" \in m.chain, "refuse"), "ok")
degraded(a) == (~a.active /\ ~a.external) \/ a.working < a.total
checkMdDegraded(m, d) == Asked(d, "mdstat", Found(\E a \in m.arrays : degraded(a), "refuse"))
\* One disk that fails refuses; one that does not say, sleeps or is not asked is told.
checkSmart(m, d) == rootDevice(m, d,
    IF m.disks = {} THEN "info" ELSE IF m.smartctl = "missing" THEN "info"
    ELSE Asked(d, "smart", CASE \E s \in m.disks : s = "failed" -> "refuse"
                             [] \E s \in m.disks : s # "passed" -> "info"
                             [] OTHER -> Found(m.moreDisks, "info")), "info")
checkLogOnTmpfs(m, d) == Asked(d, "mounts", Found(m.logFS \in {"tmpfs", "ramfs", "zram"}, "refuse"))
rootMinimum == 2048
archivesMinimum == 1536
bootMinimum == 300
bootTotal == 700
checkDiskRoot(m, d) == Asked(d, "free", Found(m.free.root < rootMinimum \/ m.free.usr < rootMinimum, "refuse"))
checkDiskArchives(m, d) == Asked(d, "free", Found(m.free.archives < archivesMinimum, "refuse"))
checkDiskBoot(m, d) == Asked(d, "free", CASE m.free.boot < bootMinimum -> "refuse"
                                          [] m.session.hop # "debian-12-13" -> "ok"
                                          [] OTHER -> Asked(d, "size", Found(m.bootSize < bootTotal, "refuse")))
ramRefuse == 1024
ramWarn == 2048
checkRAM(m, d) == Asked(d, "meminfo", CASE m.mem + m.swap < ramRefuse -> "refuse"
                                        [] m.mem + m.swap < ramWarn -> "warn"
                                        [] OTHER -> "ok")
lowBattery == 50
checkPower(m, d) == Asked(d, "power", Found(\E b \in m.batteries : b.scope # "Device" /\ (b.status = "Discharging" \/ b.percent \in 0 .. lowBattery - 1), "refuse"))
checkFstabUnresolved(m, d) == Asked(d, "fstab", IF m.fstab = {} THEN "ok" ELSE
    Asked(d, "devices", Found(\E e \in m.fstab : e.atStart /\ e.known /\ ~e.there, "refuse")))
checkFstabNetwork(m, d) == Asked(d, "fstab", Found(\E e \in m.fstab : e.atStart /\ e.network /\ ~e.netdev, "warn"))

\* The route goes over a cable, or there is another one that is plugged in.
checkUplink(m, d) == Asked(d, "route", IF m.route = "" THEN "ok" ELSE Asked(d, "net", Found(m.route = "wifi" /\ ~m.cable, "refuse")))
checkNetworkNames(m, d) == "info"

-------------------------------------------------------------------------------
\* Docker. The daemon is asked only while its unit runs.
askDaemon(m, d, absent, stopped, mute, answer) ==
    Asked(d, "systemctl", CASE ~m.docker.active -> Asked(d, "docker-tool", IF m.docker.tool THEN stopped ELSE absent)
                            [] "docker-info" \in d -> "unknown"
                            [] m.docker.mute -> mute
                            [] OTHER -> answer)
checkDockerSwarm(m, d) == askDaemon(m, d, "ok", "info", "unknown",
    CASE m.docker.swarm \in {"", "inactive"} -> "ok"
      [] m.docker.swarm \in {"active", "pending", "locked", "error"} -> "refuse"
      [] OTHER -> "unknown")
\* The engine by its package, or by snap while snapd runs.
findEngine(m, d, answer) == Asked(d, "dpkg", IF m.engine # "" THEN Asked(d, "apt-policy", answer)
                                             ELSE Asked(d, "systemctl", IF m.snapd THEN Asked(d, "snap", answer) ELSE answer))
checkDockerOrigin(m, d) == findEngine(m, d,
    IF m.origin # "" THEN Found(m.origin # "docker-repo", "refuse")
    ELSE Asked(d, "docker-tool", Found(m.docker.tool, "refuse")))
checkDockerDown(m, d) == askDaemon(m, d, "ok", "warn", "warn", "ok")
checkDockerUpdatePending(m, d) == findEngine(m, d,
    IF m.engine = "" \/ ~m.newerDocker THEN "ok" ELSE Asked(d, "dpkg", IF heldPackages(m).docker # {} THEN "info" ELSE "warn"))
containers(m, d, answer) == askDaemon(m, d, "ok", "info", "unknown", Asked(d, "docker-ps", answer))
checkContainersPolicy(m, d) == containers(m, d, Found(\E c \in m.containers : c.policy \in {"", "no"}, "warn"))
servicePorts == {53, 80, 443}
checkContainersPorts(m, d) == containers(m, d, Found(\E c \in m.containers : c.hostNetwork \/ c.ports \cap servicePorts # {}, "warn"))
backupMaxAge == 7
\* The last backup that worked, among those that are not from the future.
checkBackupAge(m, d) == Asked(d, "backups", Found(~\E b \in m.backups : b.ok /\ b.age >= -1 /\ b.age <= backupMaxAge, "warn"))
checkSnapshotReminder(m, d) == "info"

\* The hop.
holdUntil == 50                            \* 2026-11-28
checkHoldUntil(m, d) == Found(m.now < holdUntil, "warn")
checkNotOffered(m, d) == "info"
===============================================================================
