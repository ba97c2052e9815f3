----------------------------- MODULE OsUpgrade -----------------------------
(***************************************************************************)
(* One run of the engine that upgrades the operating system: the core      *)
(* (service/system_os_upgrade_*.go), the shell driver of the unit          *)
(* (pkg/osrun/driver.go), systemd and the machine around them.             *)
(*                                                                         *)
(* The core has two processes: "settle", the look that is made every half  *)
(* minute, and "owner", the request behind a button.  Both read the log    *)
(* and ask systemd with no lock held, then decide again under the one lock *)
(* (osUpgradeMu); an action that holds the lock is one step here.  Either  *)
(* may lose the race to the other, to the unit, which appends to the same  *)
(* log with no lock at all, and to a machine that restarts.                *)
(*                                                                         *)
(* Nothing that the core keeps in memory is the upgrade: a core that is    *)
(* restarted forgets its processes and reads the folder again.             *)
(***************************************************************************)
EXTENDS OsRun

CONSTANTS
    Kinds,        \* the kinds of run that may be started
    Buttons,      \* the requests that the owner makes
    StopClasses,  \* the classes of stop that a block may end with
    LateStart,    \* whether a unit that systemd took may begin after it was given up for lost: the cases
    MaxFaults,    \* bound: kills, cuts, silences, failures and refusals in all
    MaxClicks,    \* bound: requests of the owner, one refused under the lock not counted
    MaxBoots,     \* bound: boots of the machine
    MaxAttempts   \* bound: attempts that the log counts

ASSUME KindAssumption ==
    /\ Kinds \subseteq RunKinds
    /\ Buttons \subseteq {"abort", "acknowledge", "discard", "takeover", "resume", "reboot"}
    /\ StopClasses \subseteq Classes
    /\ LateStart \subseteq BOOLEAN

ASSUME BoundsAssumption ==
    MaxFaults \in Nat /\ MaxClicks \in Nat /\ MaxBoots \in Nat /\ MaxAttempts \in Nat

VARIABLES
    log,       \* the markers of the run: appended to by the core and by the unit
    synced,    \* how much of the log is sure to be on the disk
    files,     \* the marker files of the backup folder
    home,      \* where the backup folder is: "backup", or put in the run folder
    bootFile,  \* boot_id in the backup folder: the boot that the check before the restart ran in
    damaged,   \* the files of the run folder are not the ones that were written
    abort,     \* the flag of the owner's call to stop
    judged,    \* verify.json
    barrier,   \* barrier.json
    busy,      \* the flag of the open upgrade
    pointer,   \* the pointer to the latest run names this one
    unit,      \* the unit of the upgrade and its driver
    boot,      \* the boot of the machine
    asked,     \* systemd was asked to restart the machine
    sd,        \* systemd answers
    past,      \* the deadlines that are over
    core,      \* core[p]: where a process of the core is
    faults,    \* how many faults there were
    clicks,    \* how many requests the owner made that were not refused
    late       \* a unit may begin after it was given up for lost; a bound: then the owner asks
               \* for nothing and the machine is not restarted

disk    == <<files, home, bootFile, damaged>>
words   == <<log, synced, past>>
results == <<abort, judged, barrier>>
flags   == <<busy, pointer>>
machine == <<boot, asked, sd>>
bounds  == <<faults, clicks, late>>

vars == <<disk, words, results, flags, unit, machine, core, bounds>>

Procs == {"settle", "owner"}

\* The log as it is written: a marker has the fields of its kind, and the others empty.
Mark(k) == [k |-> k, n |-> 0, phase |-> "", who |-> "", kind |-> "", id |-> "", class |-> "",
            pnr |-> FALSE, res |-> "", boot |-> 0, yes |-> FALSE]

Said(k) == \E i \in DOMAIN log : log[i].k = k

NoUnit == [st |-> "none", n |-> 0, phase |-> "", pc |-> "", idx |-> 0, list |-> << >>,
           class |-> "", res |-> ""]

NoAnswer == [answered |-> FALSE, active |-> FALSE]

NoReading == [log |-> << >>, files |-> {}, bootFile |-> 0, abort |-> FALSE, quiet |-> FALSE]

\* A process of the core: of what it read it keeps what it uses (new: the state holds the
\* machine in a boot that the log does not know; checked: the file of the check was there).
Idle == [pc |-> "idle", op |-> "", seen |-> NoReading, u |-> NoAnswer, act |-> DoNone,
         name |-> "", new |-> FALSE, checked |-> FALSE, holds |-> FALSE, n |-> 0]

Init ==
    /\ late \in LateStart
    /\ log = << >> /\ synced = 0 /\ past = {}
    /\ files = {} /\ home = "backup" /\ bootFile = 0 /\ damaged = FALSE
    /\ abort = FALSE /\ judged = "none" /\ barrier = "none"
    /\ busy = FALSE /\ pointer = FALSE
    /\ unit = NoUnit
    /\ boot = 1 /\ asked = FALSE /\ sd = TRUE
    /\ core = [p \in Procs |-> Idle]
    /\ faults = 0 /\ clicks = IF late THEN MaxClicks ELSE 0

-----------------------------------------------------------------------------
(* Writing and reading. *)

\* appendOSUpgradeMarker: a line of the core is on the disk when it is written.
Write(ms) == log' = log \o ms /\ synced' = Len(log')

\* mark: a line of the driver is not.
Tell(m) == log' = Append(log, m) /\ UNCHANGED synced

Fault == faults < MaxFaults /\ faults' = faults + 1 /\ UNCHANGED <<clicks, late>>

\* A sign of life of the run, and what a new attempt begins to count.
Life == {"grace", "lifeSilence"}
Launch == {"startLost", "startLostSilent", "backoff"}

\* unitState: what systemd says of the unit.  One that is queued is not active.
Answer == [answered |-> sd, active |-> sd /\ unit.st = "alive"]

\* readOSUpgradeRun: the log and the files, as they are now.  quiet: the last sign of
\* life that is read is older than GraceQuiet, though the unit runs.
Reading == [log |-> log, files |-> files, bootFile |-> bootFile, abort |-> abort, quiet |-> FALSE]

\* osUpgradeInputWith: a reading of the run with an answer of systemd.
InputWith(run, u, ready) ==
    [files |-> run.files, bootFile |-> run.bootFile, abort |-> run.abort,
     active |-> u.active, answered |-> u.answered, boot |-> boot,
     past |-> past \cup (IF run.quiet THEN {"grace"} ELSE {}),
     barrier |-> barrier, verify |-> judged, damaged |-> damaged, ready |-> ready,
     bootSeen |-> \E i \in DOMAIN run.log :
                     run.log[i].k = "BOOT_SEEN" /\ run.log[i].boot = boot]

\* osUpgradeCurrentWith, for a run that the pointer names.
StateWith(u) == Reduce(log, InputWith(Reading, u, FALSE))

\* osrun.BootKnown.
BootKnown(lines) ==
    \E i \in DOMAIN lines : lines[i].k \in {"RUN", "BOOT_SEEN"} /\ lines[i].boot = boot

At(p, pc) == core[p].pc = pc

Goto(p, pc) == core' = [core EXCEPT ![p].pc = pc]

Rest(p) == core' = [core EXCEPT ![p] = Idle]

-----------------------------------------------------------------------------
(* Starting the unit of an attempt: launchAttempt, launchPrepareLocked and
   launchRun.  core[p].act.phase is the phase, core[p].op who asked. *)

LiveStates == {"refreshing", "rehearsing", "running", "recovering", "verifying", "unwinding"}

AttemptLine(p, n, phase) ==
    [Mark("ATTEMPT") EXCEPT !.n = n, !.phase = phase,
                            !.who = IF p = "settle" THEN "auto" ELSE "owner"]

\* Mutant: the state that the log was read again for is not looked at.
MayLaunch_Blind(p, u, phase, n) ==
    LET in == InputWith(Reading, u, FALSE)
    IN  /\ u.answered /\ ~u.active
        /\ NextAttempt(Append(log, AttemptLine(p, n, phase)), in) = n + 1

\* Steps 1 and 2: nothing is started while a unit may run, and the log takes
\* the attempt n.
MayLaunch(p, u, phase, n) ==
    LET in == InputWith(Reading, u, FALSE)
    IN  /\ u.answered /\ ~u.active
        /\ \E s \in {Reduce(log, in)} :
              s.name \notin LiveStates \cup {"manual", "manual_done"} /\ ~s.closed
        /\ NextAttempt(Append(log, AttemptLine(p, n, phase)), in) = n + 1

LaunchAsk(p) ==
    /\ At(p, "lask")
    /\ core' = [core EXCEPT ![p].pc = "lprep", ![p].u = Answer]
    /\ UNCHANGED <<disk, words, results, flags, unit, machine, bounds>>

\* What a launch that was refused leads to: a start takes its run back.
Refused(p) == IF core[p].op = "start" THEN Goto(p, "abandon") ELSE Rest(p)

\* launchPrepareLocked.  A check that the owner asks for again takes the verdict
\* of the one before away, under the same lock.
Prepare(p, phase) ==
    \E n \in {NextAttempt(log, InputWith(Reading, core[p].u, FALSE))} :
    \E may \in {MayLaunch(p, core[p].u, phase, n)} :
    LET nothing == BlockList(phase, files) = << >> /\ phase # "unwind"
        line == AttemptLine(p, n, phase)
    IN  /\ \/ /\ ~may \/ (~damaged /\ nothing)
              /\ Refused(p)
              /\ UNCHANGED <<words, results, flags>>
           \/ /\ may /\ damaged
              /\ Write(<<line, [Mark("START_FAILED") EXCEPT !.n = n]>>)
              /\ past' = past \ (Life \cup Launch)
              /\ Refused(p)
              /\ UNCHANGED <<results, flags>>
           \/ /\ may /\ ~damaged /\ ~nothing
              /\ n <= MaxAttempts
              /\ Write(<<line>>)
              /\ past' = past \ (Life \cup Launch)
              /\ core' = [core EXCEPT ![p].pc = "lrun", ![p].n = n, ![p].u = NoAnswer,
                                      ![p].act.phase = phase]
              /\ judged' = IF core[p].op = "resume" /\ phase = "verify" THEN "none" ELSE judged
              /\ UNCHANGED <<flags, abort, barrier>>
        /\ UNCHANGED <<disk, unit, machine, bounds>>

LaunchPrepare(p) == At(p, "lprep") /\ Prepare(p, core[p].act.phase)

\* The unit that systemd-run asks for: the driver reads its list when it begins.
Queued(p) == [NoUnit EXCEPT !.st = "queued", !.n = core[p].n, !.phase = core[p].act.phase,
                            !.list = BlockList(core[p].act.phase, files)]

\* systemd-run, with no lock held.  A unit of this name that is there refuses
\* it, and a bus that is slow can say it failed after the job was queued.
LaunchRun(p) ==
    /\ At(p, "lrun")
    /\ \/ /\ sd /\ unit.st = "none"
          /\ unit' = Queued(p)
          /\ Rest(p)
          /\ UNCHANGED bounds
       \/ /\ unit.st # "none" \/ ~sd
          /\ Goto(p, "lexists")
          /\ UNCHANGED <<unit, bounds>>
       \/ /\ unit.st = "none"
          /\ Fault
          /\ unit' \in {NoUnit, Queued(p)}
          /\ Goto(p, "lexists")
    /\ UNCHANGED <<disk, words, results, flags, machine>>

\* unitExists: the error stands only when systemd answers and has no such unit.
LaunchExists(p) ==
    /\ At(p, "lexists")
    /\ IF sd /\ unit.st = "none" THEN Goto(p, "lfail") ELSE Rest(p)
    /\ UNCHANGED <<disk, words, results, flags, unit, machine, bounds>>

LaunchFailed(p) ==
    /\ At(p, "lfail")
    /\ Write(<<[Mark("START_FAILED") EXCEPT !.n = core[p].n]>>)
    /\ IF core[p].op = "start" THEN Goto(p, "lclear") ELSE Rest(p)
    /\ UNCHANGED <<past, disk, results, flags, unit, machine, bounds>>

\* The start that failed takes the flag away, under the lock taken again.
StartClears ==
    /\ At("owner", "lclear")
    /\ busy' = FALSE
    /\ Rest("owner")
    /\ UNCHANGED <<disk, words, results, pointer, unit, machine, bounds>>

LaunchStep(p) ==
    LaunchAsk(p) \/ LaunchPrepare(p) \/ LaunchRun(p) \/ LaunchExists(p) \/ LaunchFailed(p)

-----------------------------------------------------------------------------
(* The start: osUpgradeStartRun. *)

\* osUpgradeOpenRun, under the lock: the flag, the two first lines and last the
\* pointer.  A core that dies on the way leaves a flag that no pointer names.
StartOpen ==
    /\ At("owner", "idle") /\ ~pointer /\ log = << >>
    /\ \/ \E kind \in Kinds :
          /\ log' = <<Mark("QUEUED"), [Mark("RUN") EXCEPT !.kind = kind, !.boot = boot]>>
          /\ synced' = 2 /\ past' = {}
          /\ busy' = TRUE /\ pointer' = TRUE
          /\ core' = [core EXCEPT !["owner"].pc = "apps", !["owner"].op = "start",
                        !["owner"].act = Do("start", CASE kind = "refresh" -> "refresh"
                                                       [] kind = "rehearsal" -> "rehearse"
                                                       [] OTHER -> "run")]
          /\ UNCHANGED bounds
       \/ /\ Fault
          /\ busy' = TRUE
          /\ core' = [p \in Procs |-> Idle]
          /\ UNCHANGED <<words, pointer>>
    /\ UNCHANGED <<disk, results, unit, machine>>

\* AppManagement is asked again which operations it has, and the run is taken
\* back when one began meanwhile.
StartApps ==
    /\ At("owner", "apps")
    /\ \/ Goto("owner", "lask") /\ UNCHANGED bounds
       \/ Fault /\ Refused("owner")
    /\ UNCHANGED <<disk, words, results, flags, unit, machine>>

\* osUpgradeAbandon: the folder, the flag and the pointer go.
Abandon ==
    /\ At("owner", "abandon")
    /\ log' = << >> /\ synced' = 0 /\ past' = {}
    /\ busy' = FALSE /\ pointer' = FALSE
    /\ Rest("owner")
    /\ UNCHANGED <<disk, results, unit, machine, bounds>>

-----------------------------------------------------------------------------
(* The look: osUpgradeSettleOnce. *)

\* osUpgradeDropStrayFlag: no pointer, and a flag.
DropStrayFlag ==
    /\ At("settle", "idle") /\ ~pointer /\ busy
    /\ busy' = FALSE
    /\ UNCHANGED <<disk, words, results, pointer, unit, machine, core, bounds>>

SettleRead ==
    /\ At("settle", "idle") /\ pointer
    /\ \E quiet \in BOOLEAN :
          /\ quiet => unit.st = "alive" /\ unit.pc = "exec"
          /\ core' = [core EXCEPT !["settle"].pc = "read",
                                  !["settle"].seen = [Reading EXCEPT !.quiet = quiet]]
    /\ UNCHANGED <<disk, words, results, flags, unit, machine, bounds>>

\* osUpgradeHolds: the machine is not to be touched by anything else.  The look
\* gives a run that its log cannot place the id of its folder.
Holds(s) == s.busy \/ (s.name = "idle" /\ ~s.closed)

\* systemd is asked after the run was read; what is done of it is decided from
\* the two.  A machine that restarted is ready or not.
SettleAsk ==
    LET me == core["settle"]
    IN  /\ me.pc \in {"read", "reread"}
        /\ \E ready \in BOOLEAN :
           \E in \in {InputWith(me.seen, Answer, ready)} :
           \E v \in {scan(me.seen.log, in)} :
           \E s \in {decide(v, in)} :
              /\ s.name # "resuming" => ~ready
              /\ core' = [core EXCEPT !["settle"] =
                    [me EXCEPT !.pc = IF me.pc = "read" THEN "asked" ELSE "do",
                               !.seen = NoReading, !.u = Answer, !.name = s.name,
                               !.holds = Holds(s), !.act = NextAction(v, in, s),
                               !.new = s.busy /\ ~BootKnown(me.seen.log),
                               !.checked = "after" \in me.seen.files]]
    /\ UNCHANGED <<disk, words, results, flags, unit, machine, bounds>>

\* Mutant: the flag is put up and never taken down by the look.
KeepFlag_OnlyRaises ==
    LET me == core["settle"]
    IN  /\ me.pc = "asked"
        /\ busy' = (busy \/ (pointer /\ me.holds))
        /\ Goto("settle", IF me.new THEN "boot" ELSE "do")
        /\ UNCHANGED <<disk, words, results, pointer, unit, machine, bounds>>

\* osUpgradeKeepFlagLocked: an idle state without the id of a run holds nothing.
StillHolds(s) == s.busy \/ (s.name = "idle" /\ ~s.closed /\ s.placed)

\* osUpgradeKeepFlag: the flag as the state says.  It goes only after the run was
\* read again under the lock, with the answer that the look has.
KeepFlag ==
    LET me == core["settle"]
    IN  /\ me.pc = "asked"
        /\ busy' = CASE ~pointer            -> busy
                     [] pointer /\ me.holds -> TRUE
                     [] OTHER -> busy /\ StillHolds(StateWith(me.u))
        /\ Goto("settle", IF me.new THEN "boot" ELSE "do")
        /\ UNCHANGED <<disk, words, results, pointer, unit, machine, bounds>>

\* osUpgradeSeeBoot: the timers of apt are stopped first, and the boot is written
\* down only when they were; the run is then read again.
SeeBoot ==
    LET me == core["settle"]
        timers == ~me.checked /\ me.name # "reboot_first"
        seen == [Mark("BOOT_SEEN") EXCEPT !.boot = boot]
    IN  /\ me.pc = "boot"
        /\ IF timers /\ ~sd
           THEN /\ core' = [core EXCEPT !["settle"].pc = "reread", !["settle"].seen = Reading]
                /\ UNCHANGED words
           ELSE /\ Write(<<seen>>)
                /\ past' = past \ {"resumeWait"}
                /\ core' = [core EXCEPT !["settle"].pc = "reread",
                              !["settle"].seen = [Reading EXCEPT !.log = Append(log, seen)]]
        /\ UNCHANGED <<disk, results, flags, unit, machine, bounds>>

\* osUpgradeKeepBarrier: what stands before the restart, as the machine says now.
Barrier(name) ==
    IF name \in {"awaiting_reboot", "reboot_stalled"}
    THEN barrier' \in {"ok", "red"} ELSE UNCHANGED barrier

\* osUpgradeDo: the one thing that the reducer says is next.
SettleDo ==
    LET me == core["settle"]
    IN  /\ me.pc = "do"
        /\ Barrier(me.name)
        /\ CASE me.act.kind \in {"unwind", "launch_verify", "launch_recover"} ->
                  core' = [core EXCEPT !["settle"] = [Idle EXCEPT !.pc = "lask", !.act = me.act]]
             [] me.act.kind = "judge" /\ me.checked /\ sd ->
                  core' = [core EXCEPT !["settle"] = [Idle EXCEPT !.pc = "judge"]]
             [] me.act.kind = "cleanup" ->
                  core' = [core EXCEPT !["settle"] = [Idle EXCEPT !.pc = "forget"]]
             [] OTHER -> Rest("settle")
        /\ UNCHANGED <<disk, words, abort, judged, flags, unit, machine, bounds>>

\* osUpgradeJudge: the facts are taken with no lock held, and the verdict written
\* whole; one that is not made is made at the next look.
Judge ==
    /\ At("settle", "judge")
    /\ judged' \in Verdicts \cup {judged}
    /\ Rest("settle")
    /\ UNCHANGED <<disk, words, abort, barrier, flags, unit, machine, bounds>>

\* osUpgradeForget: a run that was closed by a core that was cut short.
Forget ==
    /\ At("settle", "forget")
    /\ Rest("settle")
    /\ pointer' = FALSE
    /\ busy' = (busy /\ ~pointer)
    /\ UNCHANGED <<disk, words, results, unit, machine, bounds>>

SettleStep ==
    DropStrayFlag \/ SettleRead \/ SettleAsk \/ KeepFlag \/ SeeBoot \/ SettleDo \/ Judge \/ Forget

-----------------------------------------------------------------------------
(* The owner's requests. *)

Click(op) ==
    /\ op \in Buttons /\ pointer /\ At("owner", "idle")
    /\ clicks < MaxClicks /\ clicks' = clicks + 1 /\ UNCHANGED <<faults, late>>

Owner(pc, op) == core' = [core EXCEPT !["owner"] = [Idle EXCEPT !.pc = pc, !.op = op, !.u = Answer]]

\* AckSystemOSUpgrade: systemd is asked, and the rest is under the lock.
AckAsk(op) ==
    /\ op \in {"acknowledge", "discard", "takeover"}
    /\ Click(op)
    /\ Owner("ack", op)
    /\ UNCHANGED <<disk, words, results, flags, unit, machine>>

\* closeOSUpgradeRun: the finished backup is put away, the log is closed, the
\* pointer and then the flag go.  A core that dies on the way did the first k.
Close(k) ==
    /\ IF k < 4 THEN Fault /\ core' = [p \in Procs |-> Idle] ELSE Rest("owner") /\ UNCHANGED bounds
    /\ home' = IF "after" \in files /\ home = "backup" THEN "done" ELSE home
    /\ IF k >= 2 THEN Write(<<Mark("ACK")>>) ELSE UNCHANGED <<log, synced>>
    /\ pointer' = (k < 3)
    /\ busy' = (busy /\ k < 4)
    /\ UNCHANGED <<past, files, bootFile, damaged, results, unit, machine>>

\* Nothing is closed or taken over while a unit may run, but on the word when
\* systemd has been silent for long.
Quiet(s, u, op) ==
    \/ u.answered /\ ~u.active
    \/ op = "acknowledge" /\ ~u.answered /\ s.name = "needs_attention" /\ s.reason = "systemd_silent"

\* osUpgradeAckLocked.  A rehearsal that is dropped is put back first, and the
\* attempt that does it is prepared under this lock.
AckLocked ==
    \E me \in {core["owner"]}, s \in {StateWith(core["owner"].u)} :
    LET valid == pointer /\ me.op \in ActionsFor(s)
        undo == me.op = "discard" /\ s.name = "rehearsed"
    IN  /\ me.pc = "ack"
        /\ \/ /\ ~valid \/ (~undo /\ ~Quiet(s, me.u, me.op))
              /\ Rest("owner")
              /\ clicks' = clicks - 1
              /\ UNCHANGED <<disk, words, results, flags, unit, machine, faults, late>>
           \/ /\ valid /\ undo
              /\ Prepare("owner", "unwind")
           \/ /\ valid /\ ~undo /\ Quiet(s, me.u, me.op) /\ me.op = "takeover"
              /\ Write(<<Mark("TAKEOVER")>>)
              /\ Rest("owner")
              /\ UNCHANGED <<past, disk, results, flags, unit, machine, bounds>>
           \/ /\ valid /\ ~undo /\ Quiet(s, me.u, me.op) /\ me.op # "takeover"
              /\ \E k \in 1..4 : Close(k)

\* osUpgradeJudged: the machine was judged, and the verdict has something in it.
Judged(s) ==
    \/ s.name = "succeeded_with_findings"
    \/ s.name = "failed" /\ s.reason = "verify" /\ s.class = ""

\* ResumeSystemOSUpgrade: the state is read with no lock; what the click starts
\* is decided from it, and launchPrepareLocked looks again.
ResumeAsk ==
    /\ Click("resume")
    /\ \E s \in {StateWith(Answer)} :
        /\ "resume" \in ActionsFor(s)
        /\ IF Judged(s) THEN Owner("rejudge", "resume")
           ELSE core' = [core EXCEPT !["owner"] = [Idle EXCEPT !.pc = "lask", !.op = "resume",
                  !.act = Do("resume", IF s.phase = "verify" THEN "verify" ELSE "recover")]]
    /\ UNCHANGED <<disk, words, results, flags, unit, machine>>

\* osUpgradeJudgeAgain: the verdict is taken away, and the next look judges.
JudgeAgain ==
    LET me == core["owner"]
    IN  /\ me.pc = "rejudge"
        /\ judged' = IF pointer /\ Judged(StateWith(me.u)) THEN "none" ELSE judged
        /\ Rest("owner")
        /\ UNCHANGED <<disk, words, abort, barrier, flags, unit, machine, bounds>>

CanRestart(s) ==
    /\ s.name \in {"awaiting_reboot", "reboot_stalled", "reboot_first"}
    /\ log[2].kind # "hop" \/ "prereboot" \in files

\* RebootSystemOSUpgrade: the checks with no lock held, the barrier among them.
RebootAsk ==
    /\ Click("reboot")
    /\ \E s \in {StateWith(Answer)} :
        /\ CanRestart(s)
        /\ Barrier(s.name)
        /\ IF (barrier' = "red" /\ s.name # "reboot_first") \/ ~sd \/ unit.st = "alive"
           THEN UNCHANGED core ELSE Owner("reboot", "reboot")
    /\ UNCHANGED <<disk, words, abort, judged, flags, unit, machine>>

\* The run is looked at again under the lock, and the log says it before systemd is asked.
RebootLocked ==
    LET me == core["owner"]
    IN  /\ me.pc = "reboot"
        /\ IF pointer /\ CanRestart(StateWith(me.u))
           THEN /\ Write(<<Mark("REBOOT_REQUESTED")>>)
                /\ past' = past \ {"rebootStall"}
                /\ Goto("owner", "power")
           ELSE Rest("owner") /\ UNCHANGED words
        /\ UNCHANGED <<disk, results, flags, unit, machine, bounds>>

\* systemd takes the restart, or refuses it and the log says so.
RebootPower ==
    /\ At("owner", "power")
    /\ \/ /\ sd
          /\ asked' = TRUE
          /\ UNCHANGED <<log, synced, bounds>>
       \/ /\ IF sd THEN Fault ELSE UNCHANGED bounds
          /\ Write(<<Mark("REBOOT_FAILED")>>)
          /\ UNCHANGED asked
    /\ Rest("owner")
    /\ UNCHANGED <<past, disk, results, flags, unit, boot, sd>>

\* AbortSystemOSUpgrade: the flag, the second look, and the stop of the unit.
AbortFlag ==
    /\ Click("abort")
    /\ StateWith(Answer).abortable
    /\ ~abort
    /\ abort' = TRUE
    /\ Owner("abort", "abort")
    /\ UNCHANGED <<disk, words, judged, barrier, flags, unit, machine>>

AbortLook ==
    /\ At("owner", "abort")
    /\ IF StateWith(Answer).abortable
       THEN Goto("owner", "stop") /\ UNCHANGED abort
       ELSE Rest("owner") /\ abort' = FALSE
    /\ UNCHANGED <<disk, words, judged, barrier, flags, unit, machine, bounds>>

AbortStop ==
    /\ At("owner", "stop")
    /\ unit' = IF sd THEN NoUnit ELSE unit
    /\ Rest("owner")
    /\ UNCHANGED <<disk, words, results, flags, machine, bounds>>

OwnerStep ==
    \/ StartOpen \/ StartApps \/ StartClears \/ Abandon
    \/ \E op \in Buttons : AckAsk(op)
    \/ AckLocked \/ ResumeAsk \/ JudgeAgain
    \/ RebootAsk \/ RebootLocked \/ RebootPower
    \/ AbortFlag \/ AbortLook \/ AbortStop

-----------------------------------------------------------------------------
(* The driver of the unit. *)

\* What the driver finds in $BK: a folder that was put aside is not there.
BK == IF home = "backup" THEN files ELSE {}

Alive(pc) == unit.st = "alive" /\ unit.pc = pc

Block == unit.list[unit.idx]

Step(pc) == unit' = [unit EXCEPT !.pc = pc]

Line(k) == [Mark(k) EXCEPT !.n = unit.n, !.phase = unit.phase]

Breathe == past' = past \ Life

offDriver == <<results, flags, machine, core>>

\* The unit begins, says so, and trusts nothing of a folder whose sums do not hold.
UnitStart ==
    /\ unit.st = "queued"
    /\ unit' = [unit EXCEPT !.st = "alive", !.pc = "check"]
    /\ Tell([Line("UNIT_START") EXCEPT !.boot = boot])
    /\ Breathe
    /\ UNCHANGED <<disk, offDriver, bounds>>

UnitCheck ==
    /\ Alive("check")
    /\ IF damaged
       THEN /\ Tell([Line("STOP") EXCEPT !.class = "integrity", !.pnr = PNR(BK)])
            /\ Step("end")
       ELSE /\ Step(IF unit.phase = "unwind" THEN "undo" ELSE "next")
            /\ UNCHANGED <<log, synced>>
    /\ Breathe
    /\ UNCHANGED <<disk, offDriver, bounds>>

\* A block whose done file is there is skipped; the start of one that is not is
\* in the log before anything else is done of it.
BlockStart ==
    /\ Alive("next") /\ unit.idx < Len(unit.list)
    /\ LET id == unit.list[unit.idx + 1]
       IN  IF id \in BK
           THEN unit' = [unit EXCEPT !.idx = @ + 1] /\ UNCHANGED <<log, synced>>
           ELSE /\ Tell([Line("BLOCK_START") EXCEPT !.id = id])
                /\ unit' = [unit EXCEPT !.idx = @ + 1, !.pc = "read"]
    /\ Breathe
    /\ UNCHANGED <<disk, offDriver, bounds>>

\* stopat: what follows the stop is decided by what the files say at it.
StopAt(class) ==
    /\ Tell([Line("STOP") EXCEPT !.class = class, !.pnr = PNR(BK)])
    /\ Step(IF PNR(BK) \/ unit.phase = "verify" THEN "end" ELSE "undo")

\* The owner's call is read after the start of the block is written; the disks are
\* written out before the minimal upgrade.
ReadFlag ==
    /\ Alive("read")
    /\ IF abort /\ ~PNR(BK)
       THEN StopAt("abort")
       ELSE /\ synced' = IF Block = "minimal" THEN Len(log) ELSE synced
            /\ Step(IF Block = "minimal" THEN "begin" ELSE "exec")
            /\ UNCHANGED log
    /\ Breathe
    /\ UNCHANGED <<disk, offDriver, bounds>>

\* The minimal upgrade puts its marker down before the first package changes; the
\* driver remembers whether it was there.
Begin ==
    /\ Alive("begin")
    /\ files' = files \cup {"begun"}
    /\ unit' = [unit EXCEPT !.pc = "exec", !.res = IF "begun" \in files THEN "again" ELSE "fresh"]
    /\ synced' = Len(log)
    /\ Breathe
    /\ UNCHANGED <<log, home, bootFile, damaged, offDriver, bounds>>

\* A block takes longer than the question to systemd that follows a call of
\* systemd-run, unless it is late.
Takes == late \/ \A p \in Procs : ~At(p, "lexists")

\* A block that ends.  The repair has no done file; the check before the restart
\* keeps the boot it ran in, unless the machine has restarted already; the check
\* after it does not end in that boot.
BlockDone ==
    /\ Alive("exec") /\ Takes
    /\ Block = "after" => bootFile = 0 \/ boot # bootFile
    /\ files' = IF Block = "forward" THEN files ELSE files \cup {Block}
    /\ \E early \in BOOLEAN :
          /\ early => Block = "prereboot" /\ boot > 1
          /\ bootFile' = IF Block = "prereboot" /\ ~early THEN boot ELSE bootFile
    /\ unit' = [unit EXCEPT !.pc = "next", !.res = ""]
    /\ Breathe
    /\ UNCHANGED <<log, synced, home, damaged, offDriver, bounds>>

\* A block that does not.  A minimal upgrade that failed before it changed a package
\* takes its own marker back.
BlockFail ==
    /\ Alive("exec") /\ Takes
    /\ IF Block = "after" /\ bootFile # 0 /\ boot = bootFile THEN UNCHANGED bounds ELSE Fault
    /\ \E class \in StopClasses, kept \in BOOLEAN :
          /\ kept \/ (Block = "minimal" /\ unit.res = "fresh")
          /\ files' = IF kept THEN files ELSE files \ {"begun"}
          /\ unit' = [unit EXCEPT !.pc = "stop", !.class = class, !.res = ""]
    /\ Breathe
    /\ UNCHANGED <<log, synced, home, bootFile, damaged, offDriver>>

BlockStop ==
    /\ Alive("stop")
    /\ StopAt(unit.class)
    /\ Breathe
    /\ UNCHANGED <<disk, offDriver, bounds>>

\* Mutant: the undoing does not look at the point of no return.
Undo_Blind ==
    /\ Alive("undo")
    /\ home' = IF home = "backup" THEN "aborted" ELSE home
    /\ unit' = [unit EXCEPT !.pc = "undone", !.res = "ok"]
    /\ Breathe
    /\ UNCHANGED <<log, synced, files, bootFile, damaged, offDriver, bounds>>

\* unwind: before the point of no return only.  The folder is put aside when all of
\* it was put back, and the log says so after.
Undo ==
    /\ Alive("undo")
    /\ \/ /\ PNR(BK)
          /\ IF unit.phase = "unwind" THEN StopAt("guard") ELSE Step("end") /\ UNCHANGED <<log, synced>>
          /\ UNCHANGED <<home, bounds>>
       \/ /\ ~PNR(BK)
          /\ home' = IF home = "backup" THEN "aborted" ELSE home
          /\ unit' = [unit EXCEPT !.pc = "undone", !.res = "ok"]
          /\ UNCHANGED <<log, synced, bounds>>
       \/ /\ ~PNR(BK) /\ Fault
          /\ unit' = [unit EXCEPT !.pc = "undone", !.res = "partial"]
          /\ UNCHANGED <<log, synced, home>>
    /\ Breathe
    /\ UNCHANGED <<files, bootFile, damaged, offDriver>>

Undone ==
    /\ Alive("undone")
    /\ Tell([Line("UNWOUND") EXCEPT !.res = unit.res])
    /\ Step("end")
    /\ Breathe
    /\ UNCHANGED <<disk, offDriver, bounds>>

\* The end of a phase is the end of its last block; a refresh that is done puts its
\* folder away after it said so.
PhaseEnd ==
    LET ends == CASE unit.phase = "refresh"  -> "rdone"
                  [] unit.phase = "rehearse" -> "download"
                  [] unit.phase = "verify"   -> "after"
                  [] OTHER                   -> "prereboot"
        says == CASE unit.phase = "refresh"  -> "REFRESH_DONE"
                  [] unit.phase = "rehearse" -> "REHEARSAL_READY"
                  [] unit.phase = "verify"   -> "VERIFY_DONE"
                  [] OTHER -> IF bootFile # 0 THEN "REBOOT_PENDING" ELSE "REBOOT_NOT_NEEDED"
    IN  /\ Alive("next") /\ unit.idx = Len(unit.list)
        /\ IF ends \notin BK THEN StopAt("integrity")
           ELSE /\ \E yes \in BOOLEAN :
                      /\ yes => unit.phase = "refresh"
                      /\ Tell([Line(says) EXCEPT !.boot = bootFile, !.yes = yes])
                /\ Step(IF unit.phase = "refresh" THEN "putaway" ELSE "end")
        /\ past' = past \ (Life \cup {"rehearsalTTL"})
        /\ UNCHANGED <<disk, offDriver, bounds>>

PutAway ==
    /\ Alive("putaway")
    /\ home' = "done"
    /\ Step("end")
    /\ UNCHANGED <<files, bootFile, damaged, words, offDriver, bounds>>

UnitEnd ==
    /\ Alive("end")
    /\ Tell(Line("UNIT_END"))
    /\ unit' = NoUnit
    /\ Breathe
    /\ UNCHANGED <<disk, offDriver, bounds>>

DriverStep ==
    \/ UnitStart \/ UnitCheck \/ BlockStart \/ ReadFlag \/ Begin \/ BlockDone \/ BlockFail
    \/ BlockStop \/ Undo \/ Undone \/ PhaseEnd \/ PutAway \/ UnitEnd

-----------------------------------------------------------------------------
(* The machine, systemd, the clock and the owner at the console. *)

\* The unit is stopped or killed by something that is not the core.
UnitKill ==
    /\ unit.st # "none" /\ Fault
    /\ unit' = NoUnit
    /\ UNCHANGED <<disk, words, results, flags, machine, core>>

\* The core is restarted: what it keeps in memory is gone, the time that systemd
\* has been silent for with it.
CoreCrash ==
    /\ core # [p \in Procs |-> Idle] /\ Fault
    /\ core' = [p \in Procs |-> Idle]
    /\ past' = past \ {"systemdSilence"}
    /\ UNCHANGED <<log, synced, disk, results, flags, unit, machine>>

\* The machine starts again, with what was on its disks.
Boot ==
    /\ boot < MaxBoots /\ ~late
    /\ boot' = boot + 1 /\ asked' = FALSE /\ sd' = TRUE
    /\ unit' = NoUnit
    /\ core' = [p \in Procs |-> Idle]
    /\ past' = past \ {"systemdSilence"}
    /\ UNCHANGED <<disk, results, flags>>

Restart == asked /\ Boot /\ UNCHANGED <<log, synced, bounds>>

\* The power is lost: of the lines that the driver wrote the last ones may be.
PowerLoss ==
    /\ pointer /\ Fault /\ Boot
    /\ \E k \in synced..Len(log) : log' = SubSeq(log, 1, k) /\ synced' = k

SystemdSilent ==
    /\ sd /\ pointer /\ Fault
    /\ sd' = FALSE
    /\ UNCHANGED <<disk, words, results, flags, unit, boot, asked, core>>

SystemdBack ==
    /\ ~sd
    /\ sd' = TRUE
    /\ past' = past \ {"systemdSilence", "lifeSilence"}
    /\ UNCHANGED <<log, synced, disk, results, flags, unit, boot, asked, core, bounds>>

\* A file of the run folder is not what it was.
Damage ==
    /\ ~damaged /\ pointer /\ Fault
    /\ damaged' = TRUE
    /\ UNCHANGED <<files, home, bootFile, words, results, flags, unit, machine, core>>

\* The owner who took the run over finishes the hop from its text.
ByHand ==
    /\ Said("TAKEOVER") /\ unit = NoUnit /\ "after" \notin files /\ PNR(files)
    /\ files' = files \cup {"minimal", "full", "prereboot", "after"}
    /\ UNCHANGED <<home, bootFile, damaged, words, results, flags, unit, machine, core, bounds>>

Attempts == Cardinality({i \in DOMAIN log : log[i].k = "ATTEMPT"})

SaidOfLatest(k) == \E i \in DOMAIN log : log[i].k = k /\ log[i].n = Attempts

\* The start of a run takes less than StartLost from its first line to its attempt,
\* and a unit that systemd takes begins before it is given up, unless it is late.
Starting(p) ==
    \/ core[p].op = "start" /\ core[p].pc \in {"apps", "lask", "lprep", "abandon"}
    \/ ~late /\ core[p].pc \in {"lrun", "lexists", "lfail"}

\* The question to systemd is answered, or given up, in ten seconds: the deadlines
\* of half a minute do not pass between the reading of a run and the answer.
Looking == core["settle"].pc \in {"read", "reread"}

\* When a deadline that can make a difference passes: its clock runs, and what it
\* waits for has not come.
Runs(d) ==
    CASE d \in {"startLost", "startLostSilent"} ->
            /\ ~SaidOfLatest("UNIT_START")
            /\ ~Looking /\ \A p \in Procs : ~Starting(p)
            /\ unit.st = "alive" => d = "startLost"
            /\ late \/ unit.st # "queued"
            /\ d = "startLostSilent" => "startLost" \in past
      [] d = "grace" -> ~Looking /\ unit.st = "none" /\ SaidOfLatest("UNIT_START") /\ ~SaidOfLatest("UNIT_END")
      [] d = "lifeSilence" -> ~sd /\ Attempts > 0 /\ ~SaidOfLatest("UNIT_END")
      [] d = "systemdSilence" -> ~sd
      [] d = "rebootStall"    -> Said("REBOOT_REQUESTED") /\ bootFile \in {0, boot}
      [] d = "rehearsalTTL"   -> Said("REHEARSAL_READY")
      [] d = "resumeWait"     -> Said("BOOT_SEEN") \/ Said("REBOOT_NOT_NEEDED")
      [] d = "backoff"        -> AutoRecoverTries > 0 /\ SaidOfLatest("STOP")
      [] OTHER -> FALSE

Elapse(d) ==
    /\ pointer /\ d \notin past /\ Runs(d)
    /\ past' = past \cup {d}
    /\ UNCHANGED <<log, synced, disk, results, flags, unit, machine, core, bounds>>

MachineStep ==
    \/ UnitKill \/ CoreCrash \/ Restart \/ PowerLoss
    \/ SystemdSilent \/ SystemdBack \/ Damage \/ ByHand

Next ==
    \/ DriverStep \/ SettleStep \/ OwnerStep \/ MachineStep
    \/ \E p \in Procs : LaunchStep(p)
    \/ \E d \in Deadlines : Elapse(d)

\* What goes on by itself: the shell of a unit that is alive, the look that is made
\* every half minute, a request that was begun, and the time, which passes between the
\* looks (a deadline that is put off while one is made is not put off for ever).
\* A verdict is made at one of the looks that ask for it: containers are waited for no
\* longer than ContainersWait.  Nothing is assumed of the owner, of a systemd that is
\* silent, or of the power.
\* The first three are weak fairness with the enabling condition and the step of the
\* process written out: each step of it moves its place, and it always has one to take.
Looks == pointer \/ busy \/ ~At("settle", "idle")

Fairness ==
    /\ []<>(unit.st = "none") \/ []<><<unit' # unit>>_vars
    /\ []<>~Looks \/ []<><<core'["settle"] # core["settle"] \/ busy' # busy>>_vars
    /\ []<>At("owner", "idle") \/ []<><<core'["owner"] # core["owner"]>>_vars
    /\ SF_vars(\E d \in Deadlines : Elapse(d))
    /\ SF_vars(Judge /\ judged' # "none")

Spec == Init /\ [][Next]_vars

LiveSpec == Spec /\ Fairness

-----------------------------------------------------------------------------
(* What the engine promises. *)

Files == {"begun", "rcheck", "rsources", "rupgrade", "rdone", "verify", "timers", "snapshot",
          "sources", "download", "minimal", "full", "prereboot", "after"}

\* The types of the state: the part of the log that is on the disk is a part of it, and the
\* unit is one that an attempt of the log was written for.
TypeOK ==
    /\ \A i \in DOMAIN log : DOMAIN log[i] = DOMAIN Mark("")
    /\ synced \in 0..Len(log) /\ past \subseteq Deadlines
    /\ files \subseteq Files /\ home \in {"backup", "aborted", "done"} /\ bootFile \in 0..MaxBoots
    /\ judged \in Verdicts \cup {"none"} /\ barrier \in {"none", "ok", "red"}
    /\ {damaged, abort, busy, pointer, asked, sd, late} \subseteq BOOLEAN
    /\ unit.st \in {"none", "queued", "alive"} /\ unit.idx \in 0..Len(unit.list)
    /\ unit.n \in 0..Attempts
    /\ boot \in 1..MaxBoots /\ faults \in 0..MaxFaults /\ clicks \in 0..MaxClicks

\* The state that an owner who asks now is shown.
Now == StateWith(Answer)

\* The unit that systemd has is the one of the latest attempt: its words are the ones the
\* log takes.  "A log that says the attempt is on its way is what keeps a second launch
\* away meanwhile" (launch.go:137), though no lock is held over the call of systemd-run.
UnitIsLatest == pointer /\ unit.st # "none" /\ ~damaged => unit.n = Attempts

\* The flag that keeps backups and package updates away is up while a unit of the upgrade
\* runs, whatever the looks that clear it had read before (osUpgradeKeepFlagLocked).
FlagUp == pointer /\ unit.st = "alive" /\ ~damaged => busy

\* A machine whose packages are half changed keeps its flag until the owner closes the run,
\* through kills, restarts, lost lines and a systemd that does not answer.
HalfKeepsFlag ==
    pointer /\ PNR(files) /\ "after" \notin files /\ ~Said("ACK") /\ ~damaged => busy

\* Nothing is put back once packages are being changed: neither the driver, nor an undoing
\* that the loop started from an older reading, puts the backup of such a run aside.
NeverUndone == [][home = "backup" /\ home' = "aborted" => ~PNR(files)]_vars

\* A hop that is called a success has had its check to the end, in another boot than the one
\* it left, has a verdict, and has no unit that changes packages.
SucceededIsChecked ==
    pointer /\ Now.name \in {"succeeded", "succeeded_with_findings"} =>
        /\ "after" \in files /\ judged # "none" /\ unit.phase \in {"", "verify"}
        /\ bootFile = 0 \/ bootFile # boot

\* A refresh that said it was done is not shown as a failure: "A refresh or a rehearsal that
\* said it was done and was lost before its end line ended: the result is its last word"
\* (reduce.go:494).
DoneStands == pointer /\ Now.name = "failed" => ~Said("REFRESH_DONE")

\* The pointer to a run goes only when no unit runs, or when systemd said nothing of it for
\* long: "nothing is closed or taken over while a unit may run" (ack.go:36).
ClosedWhenQuiet ==
    [][pointer /\ ~pointer' /\ ~damaged => unit.st = "none" \/ ~core["owner"].u.answered]_vars

\* After the owner took the run over, no unit of it begins: a launch that was asked for before
\* the takeover is refused under the lock.
HandsOff ==
    [][unit.st = "queued" /\ unit'.st = "alive" /\ ~damaged => ~Said("TAKEOVER")]_vars

ByItself(phase) == Cardinality({i \in DOMAIN log :
                   log[i].k = "ATTEMPT" /\ log[i].phase = phase /\ log[i].who = "auto"})

\* The undoings and the checks that the core makes by itself are bounded, over crashes, lost
\* starts and machines that restart: they are counted from the log (relaunchVerify,
\* afterInterruption).
RetriesBounded ==
    ByItself("unwind") <= MaxUnwindAttempts /\ ByItself("verify") <= MaxVerifyAttempts

\* A result that the log has decided is final: while the machine does not restart, no later
\* line, late unit, or answer of systemd makes it another one, until the run is closed.
FinalStands ==
    [][pointer /\ pointer' /\ boot' = boot /\ damaged' = damaged =>
       \A in \in {InputWith(Reading, Answer, FALSE)}, nlog \in {log'},
          nin \in {InputWith(Reading, Answer, FALSE)'} :
       \A v \in {scan(log, in)} :
          v.sealed => \A name \in {decide(v, in).name}, s \in {Reduce(nlog, nin)} :
              name \in {"refreshed", "rehearsal_done", "failed"} => s.name = name \/ s.closed]_vars

\* The states in which nothing more happens before the owner acts.
Rests ==
    Now.name \in {"refreshed", "reboot_first", "rehearsed", "rehearsal_done", "failed",
                  "awaiting_reboot", "reboot_stalled", "succeeded", "succeeded_with_findings",
                  "stopped_at_waypoint", "needs_attention", "manual", "manual_done"}
                 \cup IF PNR(files) THEN {"interrupted"} ELSE {}

\* A run that was opened comes to a state that the owner can act on, or is taken back or
\* closed, whatever single fault it meets: no launch is waited for for ever, no lost unit
\* and no silent systemd leaves it in a state that only says it is at work.
Settles == pointer ~> Rests \/ ~pointer

\* The flag comes to say what the state says, and stays so: a crash between the writes of a
\* start or of a closing leaves no flag behind it that holds the machine.
FlagFollows == <>[](busy <=> pointer /\ Holds(Now))

\* A run comes to rest, and the machine with it: whatever single fault it meets, the owner can act
\* on it and the flag says so.
ComesToRest == Settles /\ FlagFollows

\* A unit of a run that is not closed works under the flag, and as the latest attempt: no look
\* that read the log earlier clears the flag or numbers a second attempt over it.
UnitGuarded == FlagUp /\ UnitIsLatest

\* The end of a run stands: its pointer goes only when no unit may run, and the result the log
\* decided is not changed by anything that comes later.
EndsStand == ClosedWhenQuiet /\ FinalStands

\* What a hop says of itself is so, over crashes, lost lines and restarts of the machine: a half
\* changed machine holds its flag, and a success was checked.
HopSound == HalfKeepsFlag /\ SucceededIsChecked

\* What the core does by itself has its limits, whatever it reads and whenever it is cut short: it
\* undoes and checks no more often than it may, and puts nothing back once packages are changed.
KeepsWithin == []RetriesBounded /\ NeverUndone

\* A unit that says its first word after its start was given up changes neither a result nor the
\* machine that the undoing of it left (reduce.go:264, driver.go:94).
LateIsHarmless == FinalStands /\ NeverUndone
=============================================================================
