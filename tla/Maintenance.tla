------------------------------ MODULE Maintenance ------------------------------
(* The jobs of the core that change the packages of the box: the update of the  *)
(* system packages, the update of Docker and a job of the module assistant      *)
(* (service/system_package*.go, service/system_module.go, pkg/modulecmd). Each  *)
(* is started by a request of the page under one mutex, which the first two let *)
(* go of while apt simulates, and runs as a unit of systemd whose log is all    *)
(* that is known of it. systemd-run may fail, may fail and have started the     *)
(* unit, or start it later than it said; systemd may not answer a question; a   *)
(* unit may be killed and the core may be restarted at any step. Somebody may   *)
(* run the assistant at a terminal.                                             *)
EXTENDS Integers, FiniteSets

CONSTANTS Requests,   \* requests of the page
          MaxNonce,   \* how many jobs are queued at most
          MaxUpsets   \* how many faults happen at most
ASSUME MaintenanceAssumption == {MaxNonce, MaxUpsets} \subseteq Nat /\ "nobody" \notin Requests

JobKinds == {"packages", "docker", "module"}
Nobody == "nobody"

VARIABLES mutex,    \* the request that holds u.mu
          turn,     \* the request that is in the turnstile of the module starts
          req,      \* the requests: what they ask for and where they are
          units,    \* the unit of each kind: gone, asked for, or running, and its job
          late,     \* units that systemd-run said it did not start, and that may begin yet
          logs,     \* the log of each kind
          lock,     \* who holds the lock of the module assistant: nobody, "unit" or "cli"
          nonce,    \* the last job that was queued
          upsets,   \* faults so far
          doubt     \* history: a look was passed that systemd did not answer, or a unit began late
mVars == <<mutex, turn, req, units, late, logs, lock, nonce, upsets, doubt>>

NoJob == 0
\* The first line of a log names its job; the unit has begun in it, and ended.
NoLog == [job |-> NoJob, begun |-> FALSE, end |-> "none", age |-> "silent"]
Waiting == [kind |-> "none", pc |-> "idle", job |-> NoJob, said |-> "nothing"]
MInit == /\ mutex = Nobody /\ turn = Nobody /\ req = [r \in Requests |-> Waiting]
         /\ units = [k \in JobKinds |-> [state |-> "gone", job |-> NoJob]] /\ late = {}
         /\ logs = [k \in JobKinds |-> NoLog] /\ lock = Nobody /\ nonce = NoJob /\ upsets = 0 /\ doubt = FALSE

-------------------------------------------------------------------------------
\* What systemd says of a unit; it does not answer for the ones in mute.
unitActive(k, mute) == k \notin mute /\ units[k].state # "gone"

\* A run of the Docker update that has no last word is running while its unit is
\* there, while systemd is silent and the log is not, and finalizing for a while.
dockerBusy(mute) == \/ unitActive("docker", mute)
                    \/ /\ logs["docker"].job # NoJob /\ logs["docker"].end = "none"
                       /\ (logs["docker"].age = "fresh" \/ ("docker" \in mute /\ logs["docker"].age # "silent"))

quietState_Waits(mute) == logs["module"].job # NoJob
\* A job of a module whose unit is not seen still runs while its log is young, or
\* while it is not old and systemd does not say.
quietState(mute) == logs["module"].age = "fresh" \/ ("module" \in mute /\ logs["module"].age # "silent")
moduleJob(mute) == CASE logs["module"].end # "none" \/ (logs["module"].job = NoJob /\ ~unitActive("module", mute)) -> "ended"
                     [] unitActive("module", mute) \/ quietState(mute) -> "running"
                     [] OTHER -> "interrupted"

\* Another job is at work, as far as systemd and the lock of the assistant say.
maintenanceBusy(except, mute) == (\E k \in JobKinds \ {except} : unitActive(k, mute)) \/ lock # Nobody

moduleBlocked(mute) == \/ moduleJob(mute) = "running"
                       \/ moduleJob(mute) = "interrupted" /\ "module" \in mute
                       \/ maintenanceBusy("none", mute)
Blocked(k, mute) == CASE k = "packages" -> unitActive("packages", mute) \/ maintenanceBusy("packages", mute)
                      [] k = "docker" -> dockerBusy(mute) \/ unitActive("packages", mute) \/ maintenanceBusy("docker", mute)
                      [] k = "module" -> moduleBlocked(mute)

Upset == upsets < MaxUpsets /\ upsets' = upsets + 1
Smooth == UNCHANGED upsets
\* A look asks systemd, which may leave some of the questions open.
Look(mute) == IF mute = {} THEN Smooth ELSE Upset
At(r, pc) == req[r].pc = pc
Say(r, s) == req' = [req EXCEPT ![r].pc = "done", ![r].said = s]
GoTo(r, pc) == req' = [req EXCEPT ![r].pc = pc]

-------------------------------------------------------------------------------
\* A module waits for its turn; the other two go straight to their first look.
Ask(r, k) == /\ At(r, "idle")
             /\ IF k = "module" THEN turn = Nobody /\ turn' = r ELSE UNCHANGED turn
             /\ \E first \in IF k = "module" THEN {"look", "second"} ELSE {"look"} :   \* a remove has no plan
                   req' = [req EXCEPT ![r] = [Waiting EXCEPT !.kind = k, !.pc = first]]
             /\ UNCHANGED <<mutex, units, late, logs, lock, nonce, upsets, doubt>>

\* The request ends: the mutex and the turn are let go of.
Leave(r) == /\ mutex' = IF mutex = r THEN Nobody ELSE mutex
            /\ turn' = IF turn = r THEN Nobody ELSE turn

\* The first look; what is refused for other reasons (support, plan, apps, space)
\* is refused here too.
FirstLook(r, mute) ==
    /\ At(r, "look") /\ Look(mute) /\ (mutex = Nobody \/ req[r].kind = "module")
    /\ \/ ~Blocked(req[r].kind, mute) /\ GoTo(r, "plan") /\ UNCHANGED <<mutex, turn>>
       \/ Say(r, "refused") /\ Leave(r)
    /\ UNCHANGED <<units, late, logs, lock, nonce, doubt>>

\* apt simulates, or the plan of the module is made, with nothing held.
MakePlan(r) == /\ At(r, "plan")
               /\ \/ GoTo(r, "second") /\ UNCHANGED <<mutex, turn>>
                  \/ Say(r, "refused") /\ Leave(r)
               /\ UNCHANGED <<units, late, logs, lock, nonce, upsets, doubt>>

SecondLook_Skipped(r, mute) ==
    /\ At(r, "second") /\ Smooth /\ mutex = Nobody /\ mutex' = r /\ GoTo(r, "queue")
    /\ UNCHANGED <<turn, units, late, logs, lock, nonce, doubt>>
\* The second look, under the mutex that is held from here until systemd answered.
SecondLook(r, mute) ==
    /\ At(r, "second") /\ Look(mute) /\ mutex = Nobody
    /\ \/ /\ ~Blocked(req[r].kind, mute) /\ mutex' = r /\ GoTo(r, "queue") /\ UNCHANGED turn
          /\ doubt' = (doubt \/ mute # {})
       \/ Say(r, "refused") /\ Leave(r) /\ UNCHANGED doubt
    /\ UNCHANGED <<units, late, logs, lock, nonce>>

\* The log is begun with the line of the job, for a module under its lock.
Queue(r) == LET k == req[r].kind IN
    /\ At(r, "queue")
    /\ \/ /\ k = "module" => lock = Nobody
          /\ nonce < MaxNonce /\ nonce' = nonce + 1
          /\ logs' = [logs EXCEPT ![k] = [job |-> nonce', begun |-> FALSE, end |-> "none", age |-> "fresh"]]
          /\ req' = [req EXCEPT ![r].pc = "start", ![r].job = nonce'] /\ UNCHANGED <<mutex, turn>>
       \/ (k = "module" /\ lock # Nobody) /\ Say(r, "refused") /\ Leave(r) /\ UNCHANGED <<nonce, logs>>
    /\ UNCHANGED <<units, late, lock, upsets, doubt>>

Started(r) == units' = [units EXCEPT ![req[r].kind] = [state |-> "asked", job |-> req[r].job]]
\* systemd-run: it starts the unit, or fails; when it fails, and for a name that
\* is taken it does, the unit may be there all the same, or begin later.
Start(r) == LET free == units[req[r].kind].state = "gone" IN
    /\ At(r, "start")
    /\ \/ free /\ Smooth /\ Started(r) /\ Say(r, "started") /\ Leave(r) /\ UNCHANGED late
       \/ free /\ Upset /\ Started(r) /\ GoTo(r, "failed") /\ UNCHANGED <<late, mutex, turn>>
       \/ free /\ Upset /\ GoTo(r, "failed") /\ late' \in {late, late \cup {<<req[r].kind, req[r].job>>}} /\ UNCHANGED <<units, mutex, turn>>
       \/ ~free /\ Smooth /\ GoTo(r, "failed") /\ UNCHANGED <<units, late, mutex, turn>>
    /\ UNCHANGED <<logs, lock, nonce, doubt>>

\* The failure of the packages and of Docker is written over the log at once.
StartFailed(r) == LET k == req[r].kind IN
    /\ At(r, "failed") /\ k # "module"
    /\ logs' = [logs EXCEPT ![k] = [job |-> req[r].job, begun |-> FALSE, end |-> "failed", age |-> "fresh"]]
    /\ Say(r, "failed") /\ Leave(r) /\ UNCHANGED <<units, late, lock, nonce, upsets, doubt>>

\* The start of a module asks whether the unit is there, and waits for it when it
\* is, or when systemd does not say.
StartExists(r, mute) ==
    /\ At(r, "failed") /\ req[r].kind = "module" /\ Look(mute)
    /\ IF unitActive("module", mute) \/ "module" \in mute THEN Say(r, "job") /\ Leave(r)
       ELSE GoTo(r, "abandon") /\ UNCHANGED <<mutex, turn>>
    /\ UNCHANGED <<units, late, logs, lock, nonce, doubt>>

Abandoned(r) == logs' = [logs EXCEPT !["module"] = [job |-> req[r].job, begun |-> FALSE, end |-> "failed", age |-> "fresh"]]
\* The log is closed under the lock, if it is still the line that was queued.
Abandon(r) ==
    /\ At(r, "abandon")
    /\ IF lock = Nobody /\ logs["module"].job = req[r].job /\ ~logs["module"].begun /\ logs["module"].end = "none"
       THEN Abandoned(r) /\ Say(r, "failed")
       ELSE Say(r, "job") /\ UNCHANGED logs
    /\ Leave(r) /\ UNCHANGED <<units, late, lock, nonce, upsets, doubt>>

\* The request was answered and another may be made.
Answered(r) == At(r, "done") /\ req' = [req EXCEPT ![r] = Waiting]
               /\ UNCHANGED <<mutex, turn, units, late, logs, lock, nonce, upsets, doubt>>

-------------------------------------------------------------------------------
Write(k, l) == logs' = [logs EXCEPT ![k] = l]
Gone(k) == units' = [units EXCEPT ![k] = [state |-> "gone", job |-> NoJob]]
Runs(k) == units' = [units EXCEPT ![k].state = "running"]

\* The units of the packages and of Docker append to the log that they find; only
\* Docker's lines name their job.
UnitBegins(k) == /\ k # "module" /\ units[k].state = "asked" /\ Runs(k)
                 /\ Write(k, [logs[k] EXCEPT !.age = "fresh", !.begun = @ \/ k = "packages" \/ logs[k].job = units[k].job])
                 /\ UNCHANGED <<mutex, turn, req, late, lock, nonce, upsets, doubt>>
\* The log of a module is cut to the line that was queued for this very job, or
\* to nothing, and the lines that follow name the job.
openLog(job) == [job |-> job, begun |-> TRUE, end |-> "none", age |-> "fresh"]
ModuleBegins == /\ units["module"].state = "asked"
                /\ IF lock = Nobody THEN lock' = "unit" /\ Runs("module") /\ Write("module", openLog(units["module"].job))
                   ELSE Gone("module") /\ UNCHANGED <<lock, logs>>
                /\ UNCHANGED <<mutex, turn, req, late, nonce, upsets, doubt>>
\* A line of a unit that goes on; its last line, which is its result; its end.
UnitSays(k) == /\ units[k].state = "running" /\ logs[k].age # "fresh" /\ Write(k, [logs[k] EXCEPT !.age = "fresh"])
               /\ UNCHANGED <<mutex, turn, req, units, late, lock, nonce, upsets, doubt>>
UnitEnds(k, how) == /\ units[k].state = "running" /\ Gone(k)
                    /\ Write(k, [logs[k] EXCEPT !.age = "fresh", !.end = IF k = "docker" /\ logs[k].job # units[k].job THEN @ ELSE how])
                    /\ lock' = IF k = "module" THEN Nobody ELSE lock
                    /\ UNCHANGED <<mutex, turn, req, late, nonce, upsets, doubt>>
UnitKilled(k) == /\ units[k].state # "gone" /\ Upset /\ Gone(k)
                 /\ lock' = IF k = "module" /\ lock = "unit" THEN Nobody ELSE lock
                 /\ UNCHANGED <<mutex, turn, req, late, logs, nonce, doubt>>
\* A unit begins that systemd-run had given up.
LateStart(k, job) == /\ <<k, job>> \in late /\ units[k].state = "gone"
                     /\ units' = [units EXCEPT ![k] = [state |-> "asked", job |-> job]]
                     /\ late' = late \ {<<k, job>>} /\ doubt' = TRUE
                     /\ UNCHANGED <<mutex, turn, req, logs, lock, nonce, upsets>>
\* Time passes over a log that nobody writes.
Age(k) == /\ k # "packages" /\ logs[k].age # "silent" /\ Write(k, [logs[k] EXCEPT !.age = IF @ = "fresh" THEN "old" ELSE "silent"])
          /\ UNCHANGED <<mutex, turn, req, units, late, lock, nonce, upsets, doubt>>

\* Somebody runs the assistant at a terminal: it takes the lock and its lines name no job.
CliBegins == /\ lock = Nobody /\ upsets < MaxUpsets /\ upsets' = upsets + 1 /\ lock' = "cli"
             /\ Write("module", [NoLog EXCEPT !.age = "fresh"])
             /\ UNCHANGED <<mutex, turn, req, units, late, nonce, doubt>>
CliEnds == lock = "cli" /\ lock' = Nobody /\ UNCHANGED <<mutex, turn, req, units, late, logs, nonce, upsets, doubt>>

\* The core is restarted: its requests are gone with its mutex and its turnstile.
CoreRestarts == /\ Upset /\ mutex' = Nobody /\ turn' = Nobody /\ req' = [r \in Requests |-> Waiting]
                /\ \E r \in Requests : ~At(r, "idle")
                /\ UNCHANGED <<units, late, logs, lock, nonce, doubt>>

MNext == \/ \E r \in Requests : \/ \E k \in JobKinds : Ask(r, k)
                               \/ \E mute \in SUBSET JobKinds : FirstLook(r, mute) \/ SecondLook(r, mute) \/ StartExists(r, mute)
                               \/ MakePlan(r) \/ Queue(r) \/ Start(r) \/ StartFailed(r) \/ Abandon(r) \/ Answered(r)
         \/ \E k \in JobKinds : \/ UnitBegins(k) \/ UnitSays(k) \/ UnitKilled(k) \/ Age(k)
                                \/ \E how \in {"ok", "failed"} : UnitEnds(k, how)
                                \/ \E j \in 1 .. MaxNonce : LateStart(k, j)
         \/ ModuleBegins \/ CliBegins \/ CliEnds \/ CoreRestarts
\* Time goes on.
MFair == \A k \in JobKinds \ {"packages"} : WF_mVars(Age(k))
MSpec == MInit /\ [][MNext]_mVars /\ MFair

-------------------------------------------------------------------------------
\* No two jobs that change packages work at once, although two of the three let go
\* of the mutex while apt simulates; the exceptions are a unit that begins after
\* systemd-run said that it did not, and a look that systemd did not answer.
OneAtATime == doubt \/ Cardinality({k \in JobKinds : units[k].state # "gone"}) <= 1

\* While the unit of a module works, the log is its own and has no last word: the
\* core that gave the job up did not write over it, nor did a later one.
UnitOwnsLog == units["module"].state = "running" =>
                 logs["module"].job = units["module"].job /\ logs["module"].end = "none"

\* No unit works and nobody holds the lock of the assistant.
AtRest == (\A k \in JobKinds : units[k].state = "gone") /\ lock = Nobody
\* A job that was cut short, or was queued by a core that is gone, does not keep the
\* next one out for ever (the bound of a queued job and the reading of a log).
Frees == (AtRest /\ \E k \in JobKinds : Blocked(k, {})) ~> (~AtRest \/ \A k \in JobKinds : ~Blocked(k, {}))

\* The jobs keep apart: one changes packages at a time, and writes in a log of its own.
JobsApart == OneAtATime /\ UnitOwnsLog
===============================================================================
