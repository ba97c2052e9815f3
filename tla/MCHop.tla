-------------------------------- MODULE MCHop --------------------------------
(* The three looks at a hop from the machine's side, for TLC: the readiness      *)
(* report (a machine that is fit, with one thing wrong with it, and one probe    *)
(* that fails, for every check), the check after the hop (machines that lost or  *)
(* changed one thing, and questions that go unanswered) and the blocks of the    *)
(* runbook (two plans and a refresh). A behaviour is about one of them.          *)
EXTENDS Readiness, OsVerify, Runbook

Uri(server) == [local |-> server = "disc", official |-> server = "deb", host |-> server, nameable |-> server # "odd"]
Para(server, suites, components) == [sound |-> TRUE, off |-> FALSE, kinds |-> {"deb"}, uris |-> {Uri(server)}, suites |-> suites, components |-> components]
File(name, form, paragraphs) == [name |-> name, form |-> form, there |-> TRUE, readable |-> TRUE, paragraphs |-> paragraphs]
Main == File("sources.list", "one-line", <<Para("deb", <<"old">>, {"main"})>>)
With(paragraph) == <<Main, File("more.sources", "deb822", <<paragraph>>)>>
Lists == [n \in {"deb", "mirror", "docker", "disc", "odd"} \X {"old", "stable", "next-backports", "next-proposed"} |->
            IF n[1] = "mirror" /\ n[2] # "next-proposed" THEN "Debian" ELSE ""]

\* A chain of devices of which the lowest has this driver.
Stack(depth, driver) == [start |-> {1}, under |-> [x \in 1 .. depth |-> IF x < depth THEN {x + 1} ELSE {}],
                         driver |-> [x \in 1 .. depth |-> IF x = depth THEN driver ELSE ""]]
Good == [release |-> [id |-> "debian", release |-> "debian-12", codename |-> TRUE, armbian |-> FALSE], now |-> 60, marker |-> "",
         arch |-> "amd64", dpkg |-> "amd64", detect |-> "none", containerFile |-> FALSE, cgroupHint |-> FALSE, xen |-> FALSE,
         init |-> "systemd", euid |-> 0, busy |-> FALSE, aptDaily |-> FALSE, apps |-> {}, rebootFlag |-> FALSE, kernel |-> "plain",
         newerKernel |-> FALSE, uptime |-> 3, audit |-> FALSE, journal |-> FALSE, brokenDeps |-> FALSE, held |-> {},
         files |-> <<Main>>, lists |-> Lists, firmware |-> FALSE, defaultRelease |-> FALSE, pinned |-> FALSE,
         foreignArch |-> {}, installedArch |-> {"amd64"}, keyring |-> 2, openssh |-> 2, services |-> {},
         dkms |-> "missing", network |-> Stack(1, "e1000e"), disk |-> Stack(1, "ahci"),
         secureBoot |-> FALSE, certificate |-> FALSE, modules |-> 0, mergedUsr |-> TRUE, cgroup2 |-> TRUE,
         espMounted |-> TRUE, free |-> [esp |-> 100, root |-> 9000, usr |-> 9000, archives |-> 9000, boot |-> 400], bootSize |-> 900,
         grubDevices |-> {"sda"}, grubDevicesEmpty |-> FALSE, systemdBoot |-> FALSE, loaderInfo |-> "", grub |-> {"grub-pc"},
         grubConfig |-> TRUE, efi |-> FALSE, rootFS |-> "ext4", rootDevice |-> "sda1", chain |-> {"disk"}, arrays |-> {},
         disks |-> {"passed"}, smartctl |-> "there", moreDisks |-> FALSE, logFS |-> "ext4", mem |-> 4000, swap |-> 0, batteries |-> {},
         fstab |-> {}, route |-> "cable", cable |-> TRUE, docker |-> [active |-> TRUE, tool |-> TRUE, mute |-> FALSE, swarm |-> "inactive"],
         engine |-> "docker-ce", snapd |-> FALSE, origin |-> "docker-repo", newerDocker |-> FALSE, containers |-> {},
         backups |-> {[ok |-> TRUE, age |-> 2]}]

\* A check and a machine that it has something to say of.
At(field, value) == [Good EXCEPT ![field] = value]
Release(id, release, now) == [Good EXCEPT !.release = [@ EXCEPT !.id = id, !.release = release], !.now = now]
Docker(field, value) == [Good EXCEPT !.docker = [@ EXCEPT ![field] = value]]
Free(field, value) == [Good EXCEPT !.free = [@ EXCEPT ![field] = value]]
DKMS(field, value) == [At(field, value) EXCEPT !.dkms = "some"]
Cases ==
    {<<"container", Good>>, <<"container", Release("arch", "other", 60)>>, <<"container", Release("ubuntu", "ubuntu-20.04", 60)>>,
     <<"container", Release("debian", "debian-13", 60)>>, <<"container", Release("debian", "debian-12", -1)>>,
     <<"container", Release("debian", "debian-12", 549)>>, <<"container", At("marker", "proxmox")>>, <<"container", At("arch", "arm64")>>,
     <<"container", At("dpkg", "i386")>>, <<"container", At("detect", "lxc")>>, <<"container", At("containerFile", TRUE)>>,
     <<"container", At("cgroupHint", TRUE)>>, <<"virt_xen", At("xen", TRUE)>>, <<"no_systemd", At("init", "sysv")>>, <<"not_root", At("euid", 1)>>,
     <<"busy", At("busy", TRUE)>>, <<"busy", At("aptDaily", TRUE)>>, <<"apps", At("apps", {"install"})>>, <<"reboot_first", At("newerKernel", TRUE)>>,
     <<"reboot_first", [At("rebootFlag", TRUE) EXCEPT !.kernel = "odd"]>>, <<"uptime_long", At("uptime", 181)>>, <<"broken_dpkg", At("audit", TRUE)>>,
     <<"broken_dpkg", At("brokenDeps", TRUE)>>, <<"held", At("held", {"docker-ce", "linux"})>>, <<"held_docker", At("held", {"docker-ce"})>>,
     <<"sources_cdrom", At("files", With(Para("disc", <<"old">>, {})))>>, <<"sources_alias", At("files", With(Para("mirror", <<"stable", "next-proposed">>, {"main"})))>>,
     <<"sources_pin", At("pinned", TRUE)>>, <<"sources_proposed", At("files", With(Para("deb", <<"next-proposed">>, {"main"})))>>,
     <<"sources_format", At("files", With([Para("deb", <<>>, {}) EXCEPT !.kinds = {"rpm"}]))>>,
     <<"sources_third_party", At("files", With(Para("docker", <<"old">>, {})))>>, <<"sources_third_party", At("files", With(Para("odd", <<"old">>, {})))>>,
     <<"sources_third_party", At("files", With(Para("mirror", <<"old", "next-proposed">>, {})))>>,
     <<"sources_backports", At("files", With(Para("deb", <<"next-backports">>, {"main"})))>>, <<"sources_firmware", At("firmware", TRUE)>>,
     <<"sources_network_checked_later", Good>>, <<"foreign_arch", [At("foreignArch", {"i386"}) EXCEPT !.installedArch = {"amd64", "i386"}]>>,
     <<"keyring_old", At("keyring", 1)>>, <<"openssh_old", At("openssh", 1)>>, <<"host_services", At("services", {"postgresql"})>>,
     <<"dkms", DKMS("network", Stack(2, "dkms"))>>, <<"dkms", DKMS("disk", Stack(8, "ahci"))>>,
     <<"dkms", DKMS("secureBoot", TRUE)>>, <<"modules", At("modules", 1)>>, <<"modules", At("modules", 33)>>, <<"merged_usr", At("mergedUsr", FALSE)>>,
     <<"cgroup1", At("cgroup2", FALSE)>>, <<"cgroup1", [Release("debian", "debian-11", 60) EXCEPT !.cgroup2 = FALSE]>>, <<"bootloader", At("systemdBoot", TRUE)>>,
     <<"bootloader", At("grubDevices", {"gone"})>>, <<"bootloader", [Free("esp", 10) EXCEPT !.efi = TRUE]>>, <<"root_zfs", At("rootFS", "zfs")>>,
     <<"root_luks", At("chain", {"disk", "crypt"})>>, <<"root_luks", At("rootDevice", "none")>>,
     <<"md_degraded", At("arrays", {[active |-> TRUE, external |-> FALSE, working |-> 1, total |-> 2]})>>, <<"smart_failed", At("disks", {"passed", "failed"})>>,
     <<"smart_failed", At("disks", {"asleep"})>>, <<"log_on_tmpfs", At("logFS", "zram")>>, <<"disk_root", Free("usr", 2047)>>, <<"disk_archives", Free("archives", 1535)>>,
     <<"disk_boot", At("bootSize", 699)>>, <<"disk_boot", Free("boot", 299)>>, <<"ram", At("mem", 1000)>>, <<"ram", At("mem", 2047)>>,
     <<"power", At("batteries", {[scope |-> "System", status |-> "Charging", percent |-> 49]})>>,
     <<"fstab_unresolved", At("fstab", {[atStart |-> TRUE, known |-> TRUE, there |-> FALSE, network |-> FALSE, netdev |-> FALSE]})>>,
     <<"fstab_network", At("fstab", {[atStart |-> TRUE, known |-> TRUE, there |-> TRUE, network |-> TRUE, netdev |-> FALSE]})>>,
     <<"network_uplink", [At("route", "wifi") EXCEPT !.cable = FALSE]>>, <<"network_names", Good>>, <<"docker_swarm", Docker("swarm", "active")>>,
     <<"docker_swarm", Docker("mute", TRUE)>>, <<"docker_origin", At("origin", "distribution")>>, <<"docker_down", Docker("active", FALSE)>>,
     <<"docker_update_pending", At("newerDocker", TRUE)>>, <<"docker_update_pending", [At("newerDocker", TRUE) EXCEPT !.held = {"docker-ce"}]>>,
     <<"containers_policy", At("containers", {[policy |-> "no", hostNetwork |-> FALSE, ports |-> {}]})>>,
     <<"containers_ports", At("containers", {[policy |-> "always", hostNetwork |-> FALSE, ports |-> {443}]})>>,
     <<"backup_age", At("backups", {[ok |-> TRUE, age |-> 8], [ok |-> FALSE, age |-> 1], [ok |-> TRUE, age |-> -2]})>>, <<"snapshot_reminder", Good>>,
     <<"hold_until", Release("ubuntu", "ubuntu-24.04", 49)>>, <<"not_offered", Release("ubuntu", "ubuntu-22.04", 60)>>}

Probes == {"os-release", "markers", "dpkg-arch", "virt", "container-files", "cgroup", "hypervisor", "init", "maintenance", "units", "apps", "reboot-flag",
           "kernel", "boot-dir", "uptime", "audit", "journal", "apt-check", "dpkg", "sources", "apt-config", "preferences", "dkms", "network-stack",
           "disk-stack", "modinfo", "secure-boot", "certificate", "modules", "usr", "cgroup-fs", "mounts", "free", "debconf", "devices", "loader-files",
           "loader-info", "grub-config", "efi", "lsblk", "mdstat", "smart", "size", "meminfo", "power", "fstab", "route", "net", "systemctl",
           "docker-tool", "docker-info", "apt-policy", "snap", "docker-ps", "backups"}
\* The probes whose failure changes what the check says of the machine, and who it is.
Deaf(code, box) ==
    {{}} \cup {{p} : p \in {q \in Probes : \/ q \in {"os-release", "markers"} /\ code = "container"
                                           \/ LET m == [session |-> identify(box, {})] @@ box IN Body(code, m, {q}) # Body(code, m, {})}}
MCMachines == UNION {{[box |-> c[2], deaf |-> d, ask |-> Gates \cup {c[1]}] : d \in Deaf(c[1], c[2])} : c \in Cases}
               \cup {[box |-> Good, deaf |-> {}, ask |-> {"unproven_arch", "busy", "held", "uptime_long"}],
                     [box |-> [Good EXCEPT !.busy = TRUE, !.uptime = 181], deaf |-> {"dpkg"}, ask |-> {"unproven_arch", "busy", "held", "uptime_long"}]}

-------------------------------------------------------------------------------
(* The check after a hop: a machine with a pool over two disks, applications on  *)
(* the pool and on a disk of its own, and one thing changed by the hop and one   *)
(* by the restart.                                                               *)
Branch(path, glob) == [path |-> path, glob |-> glob]
Line(point, fs, branches) == [point |-> point, fs |-> fs, branches |-> branches]
App(name, policy, binds) == [name |-> name, policy |-> policy, binds |-> binds, valid |-> TRUE]
DiskA == <<"mnt", "a">>
DiskB == <<"mnt", "b">>
PoolOf(glob) == Line(<<"pool">>, "fuse.mergerfs", IF glob THEN {Branch(<<"mnt", "*">>, TRUE)} ELSE {Branch(DiskA, FALSE), Branch(DiskB, FALSE)})
Lanes == <<[default |-> FALSE, up |-> TRUE, reject |-> FALSE, named |-> TRUE, interface |-> "lo"],
           [default |-> TRUE, up |-> TRUE, reject |-> FALSE, named |-> TRUE, interface |-> "eth0"]>>
Home(glob) ==
    [kernel |-> "old", newest |-> "new", system |-> "running", quiet |-> TRUE, samba |-> 2,
     mounts |-> {Line(<<>>, "ext4", {}), Line(DiskA, "ext4", {}), Line(DiskB, "ext4", {}), Line(<<"media">>, "nfs", {}), Line(<<"run">>, "tmpfs", {}), PoolOf(glob)},
     routes |-> Lanes, dns |-> TRUE, units |-> [u \in {"casaos", "casaos-gateway", "casaos-os-upgrade"} |-> "active"],
     dockerUnit |-> "active", dockerTool |-> TRUE, dockerSock |-> TRUE, daemon |-> TRUE, version |-> "28", engine |-> "e",
     running |-> {App("photos", "always", {<<"pool", "photos">>}), App("films", "unless-stopped", {<<"media", "films">>}), App("once", "no", {})},
     paused |-> {}, ports |-> {80, 40000}, failed |-> {"old.service"}, dpkgFiles |-> {}, warnings |-> {}, note |-> {}]
MCHosts == {Home(TRUE), Home(FALSE), [Home(FALSE) EXCEPT !.units["casaos-gateway"] = "inactive"]}
Stopped(h) == [h EXCEPT !.dockerUnit = "inactive", !.daemon = FALSE, !.running = {}]
MCUpgraded(h) == {h, [h EXCEPT !.units["casaos"] = "inactive"], [h EXCEPT !.running = @ \ {App("photos", "always", {<<"pool", "photos">>})}], Stopped(h)}
Up(h) == [h EXCEPT !.kernel = "new"]
Gone(h, p) == [h EXCEPT !.mounts = {l \in @ : l.point # p}]
MCRestarted(g) ==
    LET h == Up(g) IN
    {h, g, Stopped(h), [h EXCEPT !.daemon = FALSE, !.running = {}], [Stopped(h) EXCEPT !.dockerTool = FALSE, !.dockerSock = FALSE],
     [h EXCEPT !.system = "starting", !.running = {}], [h EXCEPT !.quiet = FALSE], [h EXCEPT !.samba = 1],
     Gone(h, <<"pool">>), Gone(h, DiskA), Gone(h, <<"media">>), [h EXCEPT !.mounts = (@ \ {PoolOf(FALSE)}) \cup {Line(<<"pool">>, "fuse.mergerfs", {Branch(DiskA, FALSE)})}],
     [h EXCEPT !.routes = <<Head(@), [@[2] EXCEPT !.reject = TRUE]>>], [h EXCEPT !.dns = FALSE], [h EXCEPT !.units["casaos"] = "failed"],
     [h EXCEPT !.units = [u \in {"casaos"} |-> "active"], !.failed = {"new.service"}], [h EXCEPT !.ports = {}, !.failed = @ \cup {"new.service", "other.service", "more.service"}],
     [h EXCEPT !.running = {}], [h EXCEPT !.version = "29", !.paused = {"docker.list", "sources.list:3"}, !.note = {"not_published"}, !.dpkgFiles = {"f"}],
     [h EXCEPT !.engine = "f", !.note = {"no_curl"}]}
NoFault == [deaf |-> {}, hangs |-> {}, mute |-> {}, end |-> 99]
MCFaults == {NoFault, [NoFault EXCEPT !.mute = {"casaos"}]}
            \cup {[NoFault EXCEPT !.deaf = {Questions[i]}] : i \in DOMAIN Questions} \cup {[NoFault EXCEPT !.hangs = {Questions[i]}] : i \in DOMAIN Questions}
            \cup {[NoFault EXCEPT !.end = i] : i \in DOMAIN Questions}
MCUnkept == {"kernel", "casaos-units.txt", "containers.txt", "failed-units.txt", "listening.txt"}

-------------------------------------------------------------------------------
\* The runbook: two plans in one terminal, a plan and a refresh beside it, and one plan
\* whose first block is pasted in two terminals at once.
MCScenes == {[folders |-> {"a", "b"}, terminals |-> {1}], [folders |-> {"a", "r"}, terminals |-> {1}],
             [folders |-> {"a"}, terminals |-> {1, 2}]}

-------------------------------------------------------------------------------
VARIABLE subject     \* the part that a behaviour is about
hopInit == /\ readyInit /\ verifyInit /\ RInit /\ subject \in {"ready", "verify", "runbook"}
           /\ (subject # "verify" => host = Home(TRUE))
           /\ (subject # "ready" => machine = [box |-> Good, deaf |-> {}, ask |-> {"unproven_arch", "busy", "held", "uptime_long"}])
           /\ (subject # "runbook" => Terminals = {1, 2})
hopNext == \/ subject = "ready" /\ readyNext /\ UNCHANGED <<subject, verifyVars, rbVars>>
           \/ subject = "verify" /\ verifyNext /\ UNCHANGED <<subject, readyVars, rbVars>>
           \/ subject = "runbook" /\ RNext /\ UNCHANGED <<subject, readyVars, verifyVars>>
hopSpec == hopInit /\ [][hopNext]_<<subject, readyVars, verifyVars, rbVars>>
===============================================================================
