------------------------------- MODULE Readiness -------------------------------
(* The engine of the readiness report (pkg/osreadiness/engine.go, report.go,    *)
(* identity.go): it finds out who the machine is, makes the checks that gate    *)
(* the rest, then the rest, a few at a time, each with a time of its own within *)
(* the budget of the report, and sums the findings up in one state. A check     *)
(* whose time is over may still answer, with a probe that was cut short under   *)
(* it: what it answers then can be anything.                                    *)
EXTENDS ReadyRules

CONSTANTS Machines,                      \* the machines and probes that fail: [box, deaf, ask]
          Slots                          \* opts.Concurrency

ASSUME ReadinessAssumption == Slots \in Nat \ {0}

VARIABLES
    machine,                             \* the machine, the probes of it that fail, the checks asked for
    session,                             \* who the machine is; it is read once
    stage,                               \* "identify", "gates", "rest", "done"
    over,                                \* the budget of the report is spent
    todo,                                \* the checks of the stage that are not launched
    running,                             \* the checks in a slot: [late, answer]
    findings,                            \* what the checks that ended found
    report                               \* the state of the report

readyVars == <<machine, session, stage, over, todo, running, findings, report>>

Gates == {"unsupported_os", "vendor_os", "unproven_arch"}
HopsOf(code) == CASE code \in {"keyring_old", "sources_firmware"} -> debianHops
                  [] code = "openssh_old" -> {"debian-12-13"}
                  [] code = "cgroup1" -> {"debian-12-13", "ubuntu-24.04-26.04"}
                  [] code = "hold_until" -> {"ubuntu-24.04-26.04"}
                  [] code = "not_offered" -> ubuntuHops
                  [] OTHER -> Hops \cup {""}
\* The body of a check.
Body(code, m, d) ==
    CASE code = "unsupported_os" -> checkUnsupportedOS(m, d)
      [] code = "vendor_os" -> checkVendorOS(m, d)
      [] code = "unproven_arch" -> checkArch(m, d)
      [] code = "container" -> checkContainer(m, d)
      [] code = "virt_xen" -> checkXen(m, d)
      [] code = "no_systemd" -> checkSystemd(m, d)
      [] code = "not_root" -> checkRoot(m, d)
      [] code = "busy" -> checkBusy(m, d)
      [] code = "apps" -> checkApps(m, d)
      [] code = "reboot_first" -> checkRebootFirst(m, d)
      [] code = "uptime_long" -> checkUptime(m, d)
      [] code = "broken_dpkg" -> checkBrokenDpkg(m, d)
      [] code = "held" -> checkHeld(m, d)
      [] code = "held_docker" -> checkHeldDocker(m, d)
      [] code = "sources_cdrom" -> checkSourcesLocal(m, d)
      [] code = "sources_alias" -> checkSourcesAlias(m, d)
      [] code = "sources_pin" -> checkSourcesPin(m, d)
      [] code = "sources_proposed" -> checkSourcesProposed(m, d)
      [] code = "sources_format" -> checkSourcesFormat(m, d)
      [] code = "sources_third_party" -> checkSourcesThirdParty(m, d)
      [] code = "sources_backports" -> checkSourcesBackports(m, d)
      [] code = "sources_firmware" -> checkSourcesFirmware(m, d)
      [] code = "sources_network_checked_later" -> checkSourcesLater(m, d)
      [] code = "foreign_arch" -> checkForeignArch(m, d)
      [] code = "keyring_old" -> checkKeyring(m, d)
      [] code = "openssh_old" -> checkOpenSSH(m, d)
      [] code = "host_services" -> checkHostServices(m, d)
      [] code = "dkms" -> checkDKMS(m, d)
      [] code = "modules" -> checkModules(m, d)
      [] code = "merged_usr" -> checkMergedUsr(m, d)
      [] code = "cgroup1" -> checkCgroup(m, d)
      [] code = "bootloader" -> checkBootloader(m, d)
      [] code = "root_zfs" -> checkRootZFS(m, d)
      [] code = "root_luks" -> checkRootLUKS(m, d)
      [] code = "md_degraded" -> checkMdDegraded(m, d)
      [] code = "smart_failed" -> checkSmart(m, d)
      [] code = "log_on_tmpfs" -> checkLogOnTmpfs(m, d)
      [] code = "disk_root" -> checkDiskRoot(m, d)
      [] code = "disk_archives" -> checkDiskArchives(m, d)
      [] code = "disk_boot" -> checkDiskBoot(m, d)
      [] code = "ram" -> checkRAM(m, d)
      [] code = "power" -> checkPower(m, d)
      [] code = "fstab_unresolved" -> checkFstabUnresolved(m, d)
      [] code = "fstab_network" -> checkFstabNetwork(m, d)
      [] code = "network_uplink" -> checkUplink(m, d)
      [] code = "network_names" -> checkNetworkNames(m, d)
      [] code = "docker_swarm" -> checkDockerSwarm(m, d)
      [] code = "docker_origin" -> checkDockerOrigin(m, d)
      [] code = "docker_down" -> checkDockerDown(m, d)
      [] code = "docker_update_pending" -> checkDockerUpdatePending(m, d)
      [] code = "containers_policy" -> checkContainersPolicy(m, d)
      [] code = "containers_ports" -> checkContainersPorts(m, d)
      [] code = "backup_age" -> checkBackupAge(m, d)
      [] code = "snapshot_reminder" -> checkSnapshotReminder(m, d)
      [] code = "hold_until" -> checkHoldUntil(m, d)
      [] code = "not_offered" -> checkNotOffered(m, d)

-------------------------------------------------------------------------------
\* Who the machine is: os-release, the markers of the vendors, the table.
NoSession == [known |-> FALSE, variant |-> "", hop |-> "", latest |-> FALSE, releaseErr |-> TRUE, markerErr |-> TRUE]
HopName(from, to) == CASE from = "debian-11" -> "debian-11-12"
                       [] from = "debian-12" -> "debian-12-13"
                       [] from = "ubuntu-22.04" -> "ubuntu-22.04-24.04"
                       [] OTHER -> "ubuntu-24.04-26.04"
Nobody == [id |-> "", release |-> "", codename |-> TRUE, armbian |-> FALSE]
identify(box, deaf) ==
    LET release == IF "os-release" \in deaf THEN Nobody ELSE box.release
        found == Describe(release, box.now, IF "markers" \in deaf THEN "" ELSE box.marker)
    IN [known |-> found.identity.known, variant |-> found.identity.variant,
        hop |-> IF found.support.next = "" THEN "" ELSE HopName(release.release, found.support.next),
        latest |-> found.support.next = "" /\ found.identity.known /\ found.support.state \in {"supported", "ending_soon"},
        releaseErr |-> "os-release" \in deaf,
        markerErr |-> "markers" \in deaf /\ Parse(release).known]

Box == [session |-> session] @@ machine.box
Truth(code) == Body(code, [session |-> identify(machine.box, {})] @@ machine.box, {})

readyInit == /\ machine \in Machines
             /\ session = NoSession
             /\ stage = "identify"
             /\ over = FALSE
             /\ todo = {}
             /\ running = <<>>
             /\ findings = <<>>
             /\ report = "none"

\* The read answers, or it panics or its time is over and what it would have said is left behind.
identifyWithin ==
    /\ stage = "identify"
    /\ session' \in {identify(machine.box, machine.deaf), NoSession}
    /\ stage' = "gates"
    /\ todo' = machine.ask \cap Gates
    /\ UNCHANGED <<machine, over, running, findings, report>>

\* The loop that launches: a check in a free slot, or, once the budget is spent, a finding
\* for each that is left (a select that finds both ready takes either).
execute(code) ==
    /\ stage \in {"gates", "rest"} /\ code \in todo
    /\ Cardinality(DOMAIN running) < Slots
    /\ running' = (code :> [late |-> FALSE, answer |-> ""]) @@ running
    /\ todo' = todo \ {code}
    /\ UNCHANGED <<machine, session, stage, over, findings, report>>
notFinished ==
    /\ stage \in {"gates", "rest"} /\ over /\ todo # {}
    /\ findings' = [c \in todo |-> "unknown"] @@ findings
    /\ todo' = {}
    /\ UNCHANGED <<machine, session, stage, over, running, report>>

Expired(c) == over \/ running[c].late
\* The body ends, or panics. A body whose time is over answers by what it was left with.
BodyEnds(c) ==
    /\ c \in DOMAIN running /\ running[c].answer = ""
    /\ \E answer \in {Body(c, Box, machine.deaf), "unknown"} \cup (IF Expired(c) THEN {"ok", "info"} ELSE {}) :
          running' = [running EXCEPT ![c].answer = answer]
    /\ UNCHANGED <<machine, session, stage, over, todo, findings, report>>
Timeout(c) ==
    /\ c \in DOMAIN running /\ ~running[c].late
    /\ running' = [running EXCEPT ![c].late = TRUE]
    /\ UNCHANGED <<machine, session, stage, over, todo, findings, report>>
BudgetEnds ==
    /\ stage \in {"gates", "rest"} /\ ~over
    /\ over' = TRUE
    /\ UNCHANGED <<machine, session, stage, todo, running, findings, report>>

\* Altered: a late answer counts.
believed_Late(c, answer) == answer
\* An answer that came once the time was over is not believed.
believed(c, answer) == IF Expired(c) /\ answer # "unknown" THEN "unknown" ELSE answer
\* runOne ends: with the answer, or with the time of the check.
runOne(c) ==
    /\ c \in DOMAIN running
    /\ \E result \in (IF running[c].answer # "" THEN {believed(c, running[c].answer)} ELSE {})
                     \cup (IF Expired(c) THEN {"unknown"} ELSE {}) :
          findings' = (c :> result) @@ findings
    /\ running' = [x \in DOMAIN running \ {c} |-> running[x]]
    /\ UNCHANGED <<machine, session, stage, over, todo, report>>

count(severity) == Cardinality({c \in DOMAIN findings : Severity(findings[c]) = severity})
StageEnds(name) == stage = name /\ todo = {} /\ DOMAIN running = {}
\* A gate that is certain ends the report; one that does not know is a refusal among the rest.
definitive == \E c \in DOMAIN findings : findings[c] = "refuse"
afterGates ==
    /\ StageEnds("gates")
    /\ IF definitive THEN stage' = "done" /\ report' = "unsupported" /\ todo' = {}
       ELSE IF session.latest THEN stage' = "done" /\ report' = "latest" /\ todo' = {}
       ELSE /\ stage' = "rest" /\ UNCHANGED report
            /\ todo' = {c \in machine.ask \ Gates : session.hop \in HopsOf(c)}
    /\ UNCHANGED <<machine, session, over, running, findings>>
Run ==
    /\ StageEnds("rest")
    /\ stage' = "done"
    /\ report' = IF count("refuse") > 0 THEN "blocked" ELSE IF count("warn") > 0 THEN "attention" ELSE "ready"
    /\ UNCHANGED <<machine, session, over, todo, running, findings>>

readyNext == \/ identifyWithin \/ notFinished \/ BudgetEnds \/ afterGates \/ Run
             \/ \E c \in machine.ask : execute(c) \/ BodyEnds(c) \/ Timeout(c) \/ runOne(c)
readySpec == readyInit /\ [][readyNext]_readyVars

-------------------------------------------------------------------------------
Applies(c) == identify(machine.box, {}).hop \in HopsOf(c)
\* A machine is called ready, or ready but for warnings, only when every check that applies to
\* it would pass with all probes answering: a probe that fails, a check that panics or is late,
\* a report whose budget ends, in whatever order, never hide a refusal (report.go:115).
ReadyIsFit ==
    /\ report \in {"ready", "attention"} => \A c \in machine.ask : Applies(c) => Truth(c) \notin {"refuse", "unknown"}
    /\ report = "ready" => \A c \in machine.ask : Applies(c) => Truth(c) # "warn"
\* A machine is called unsupported only when a gate that was made refuses it: what could not be
\* looked at, a wrong clock or a table that is too old block the upgrade and say no more (report.go:80-96).
UnsupportedIsCertain == report = "unsupported" => \E c \in machine.ask \cap Gates : Truth(c) = "refuse"

\* The report says neither too much nor too little, whatever could not be looked at.
ReportHolds == ReadyIsFit /\ UnsupportedIsCertain
===============================================================================
