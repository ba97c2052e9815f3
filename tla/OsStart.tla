------------------------------ MODULE OsStart ------------------------------
(***************************************************************************)
(* Several starts of the upgrade at once (osUpgradeStartRun), and the      *)
(* three that they share the pointer and the flag with: the loop that      *)
(* keeps the flag, the owner who closes a run, and a run of the module     *)
(* assistant, which changes packages too and is kept away by the flag.     *)
(*                                                                         *)
(* A start takes the lock of the engine (osUpgradeMu) two or three times   *)
(* and lets go of it in between, to ask AppManagement and systemd and to   *)
(* call systemd-run.  What is done under the lock is one step here.  A run *)
(* is what its log says of it:                                             *)
(*   none     no folder                                                    *)
(*   opened   its two first lines, and no attempt                          *)
(*   attempt  an attempt that is on its way or whose unit runs             *)
(*   failed   the attempt did not start                                    *)
(*   held     its unit ended, and the run holds the machine                *)
(*   over     its unit ended, and the machine is free                      *)
(*   good     the same, and the owner has yet to close it                  *)
(*   closed   the owner, or a later start, closed it                       *)
(***************************************************************************)
EXTENDS Naturals

CONSTANTS
    Starts,  \* the requests; each makes the run of its name
    None,    \* no run
    Slow     \* a start may take longer than StartLost from its first line to its attempt

ASSUME StartsAssumption == None \notin Starts /\ Slow \in BOOLEAN

VARIABLES
    pc,        \* pc[r]: where the start of r is
    prev,      \* prev[r]: the run that the pointer named when r was opened
    log,       \* log[r]: what the log of r says
    lost,      \* the runs whose start has not come for StartLost
    pointer,   \* the latest run
    flag,      \* the flag of the open upgrade, and the run it is of
    launching, \* osUpgradeLaunching: calls of systemd-run that have not returned
    unit,      \* the run whose unit systemd has
    look,      \* what the loop read before it takes the lock
    module     \* the run of the module assistant; it has its lock unless "idle"

vars == <<pc, prev, log, lost, pointer, flag, launching, unit, look, module>>

Runs == Starts \cup {None}

NoLook == [run |-> None, holds |-> FALSE]

Init ==
    /\ pc = [r \in Starts |-> "idle"]
    /\ prev = [r \in Starts |-> None]
    /\ log = [r \in Starts |-> "none"]
    /\ lost = {}
    /\ pointer = None /\ flag = None /\ unit = None
    /\ launching = 0
    /\ look = NoLook
    /\ module = "idle"

\* osUpgradeHolds: a run that is opened is on its way until its start is given up for lost.
Holds(r) == log[r] \in {"attempt", "held"} \/ (log[r] = "opened" /\ r \notin lost)

\* osUpgradeBlocksStart: a run that ended well keeps a start out, and not the flag up.
BlocksStart(r) == Holds(r) \/ log[r] = "good"

Goto(r, place) == pc' = [pc EXCEPT ![r] = place]

Write(r, word) == log' = [log EXCEPT ![r] = word]

-----------------------------------------------------------------------------
(* A start. *)

\* osUpgradeOpenRun, under the lock of the engine and the one of the module assistant: no
\* start is admitted while systemd-run is being called, or over a run that holds the machine
\* or cannot be read.
Admitted == /\ module = "idle" /\ launching = 0
            /\ pointer # None => ~BlocksStart(pointer) /\ log[pointer] # "none"

Open(r) ==
    /\ pc[r] = "idle" /\ Admitted
    /\ prev' = [prev EXCEPT ![r] = pointer]
    /\ Write(r, "opened")
    /\ flag' = r /\ pointer' = r
    /\ Goto(r, "apps")
    /\ UNCHANGED <<lost, launching, unit, look, module>>

\* A write of it that fails: the flag is not there yet, or is taken away under the same lock.
OpenFails(r) ==
    /\ pc[r] = "idle" /\ Admitted
    /\ flag' \in {flag, None}
    /\ Goto(r, "done")
    /\ UNCHANGED <<prev, log, lost, pointer, launching, unit, look, module>>

\* AppManagement is asked again: an operation of it that began meanwhile refuses the start.
Apps(r) ==
    /\ pc[r] = "apps"
    /\ \E next \in {"prepare", "abandon"} : Goto(r, next)
    /\ UNCHANGED <<prev, log, lost, pointer, flag, launching, unit, look, module>>

\* Mutant: the pointer is not looked at again.
Prepare_AnyPointer(r) ==
    /\ pc[r] = "prepare"
    /\ log' = [q \in Starts |-> IF q = r THEN "attempt" ELSE IF q = prev[r] THEN "closed" ELSE log[q]]
    /\ launching' = launching + 1
    /\ Goto(r, "run")
    /\ UNCHANGED <<prev, lost, pointer, flag, unit, look, module>>

\* Under the lock: a run that another one took the place of is refused, and so is one beside
\* a unit; otherwise the attempt is written, and the run before is closed in its log.
Prepare(r) ==
    /\ pc[r] = "prepare"
    /\ IF pointer # r \/ log[r] # "opened" \/ unit # None
       THEN Goto(r, "abandon") /\ UNCHANGED <<log, launching>>
       ELSE /\ log' = [q \in Starts |-> IF q = r THEN "attempt"
                                        ELSE IF q = prev[r] /\ log[q] # "none" THEN "closed" ELSE log[q]]
            /\ launching' = launching + 1
            /\ Goto(r, "run")
    /\ UNCHANGED <<prev, lost, pointer, flag, unit, look, module>>

\* launchRun: systemd has the unit, does not say whether it has, or has none.  The count goes
\* down when it returns, after the line of a unit that did not start.
SystemdRun(r) ==
    /\ pc[r] = "run"
    /\ \/ unit' \in {r, unit} /\ launching' = launching - 1 /\ Goto(r, "done")
       \/ UNCHANGED <<unit, launching>> /\ Goto(r, "failed")
    /\ UNCHANGED <<prev, log, lost, pointer, flag, look, module>>

\* The log says, under the lock, that the unit did not start.
StartFailed(r) ==
    /\ pc[r] = "failed"
    /\ Write(r, "failed")
    /\ launching' = launching - 1
    /\ Goto(r, "clear")
    /\ UNCHANGED <<prev, lost, pointer, flag, unit, look, module>>

\* The lock is taken once more, for the flag: whose it is is not looked at.
Clear(r) ==
    /\ pc[r] = "clear"
    /\ flag' = None
    /\ Goto(r, "done")
    /\ UNCHANGED <<prev, log, lost, pointer, launching, unit, look, module>>

\* Mutant: the pointer is put back whoever has it.
Abandon_Always(r) ==
    /\ pc[r] = "abandon"
    /\ Write(r, "none")
    /\ flag' = None /\ pointer' = prev[r]
    /\ Goto(r, "done")
    /\ UNCHANGED <<prev, lost, launching, unit, look, module>>

\* osUpgradeAbandonLocked: the folder goes, and the flag and the pointer go back unless they
\* are another run's.
Abandon(r) ==
    /\ pc[r] = "abandon"
    /\ Write(r, "none")
    /\ IF pointer \notin {None, r, prev[r]} THEN UNCHANGED <<flag, pointer>>
       ELSE flag' = None /\ pointer' = prev[r]
    /\ Goto(r, "done")
    /\ UNCHANGED <<prev, lost, launching, unit, look, module>>

StartStep(r) == \/ Open(r) \/ OpenFails(r) \/ Apps(r) \/ Prepare(r) \/ SystemdRun(r)
                \/ StartFailed(r) \/ Clear(r) \/ Abandon(r)

-----------------------------------------------------------------------------
(* The loop, the owner and the machine. *)

SettleRead ==
    /\ look = NoLook /\ pointer # None
    /\ look' = [run |-> pointer, holds |-> Holds(pointer)]
    /\ UNCHANGED <<pc, prev, log, lost, pointer, flag, launching, unit, module>>

\* osUpgradeKeepFlagLocked: a run that is not the latest any more has no say, and the flag
\* goes only after the run was read again.
KeepFlag ==
    /\ look # NoLook
    /\ flag' = IF pointer # look.run THEN flag
               ELSE IF look.holds THEN look.run
               ELSE IF Holds(look.run) THEN flag ELSE None
    /\ look' = NoLook
    /\ UNCHANGED <<pc, prev, log, lost, pointer, launching, unit, module>>

\* osUpgradeDropStrayFlag.
DropStrayFlag ==
    /\ pointer = None /\ flag # None /\ look = NoLook
    /\ flag' = None
    /\ UNCHANGED <<pc, prev, log, lost, pointer, launching, unit, look, module>>

\* closeOSUpgradeRun, for a run that does not move by itself: a start that was lost too.
Close(r) ==
    /\ pointer = r
    /\ log[r] \in {"failed", "held", "over", "good"} \/ (log[r] = "opened" /\ r \in lost)
    /\ Write(r, "closed")
    /\ pointer' = None /\ flag' = None
    /\ UNCHANGED <<pc, prev, lost, launching, unit, look, module>>

\* The unit ends: the run holds the machine still, or does not.
UnitEnd(r) ==
    /\ unit = r
    /\ unit' = None
    /\ \E word \in {"held", "over", "good"} : Write(r, word)
    /\ UNCHANGED <<pc, prev, lost, pointer, flag, launching, look, module>>

\* The start is StartLost old and has no attempt.
Lose(r) ==
    /\ log[r] = "opened" /\ r \notin lost
    /\ Slow \/ pc[r] = "done"
    /\ lost' = lost \cup {r}
    /\ UNCHANGED <<pc, prev, log, pointer, flag, launching, unit, look, module>>

\* The attempt is StartLost old and no unit of it ever said that it began.  The call of
\* systemd-run has returned by then (systemdRunTimeout).
LoseAttempt(r) ==
    /\ log[r] = "attempt" /\ unit # r /\ pc[r] = "done"
    /\ Write(r, "failed")
    /\ UNCHANGED <<pc, prev, lost, pointer, flag, launching, unit, look, module>>

\* The core is restarted: the requests and the count are gone.
Restarted ==
    /\ pc' = [r \in Starts |-> IF pc[r] = "idle" THEN "idle" ELSE "done"]
    /\ launching' = 0
    /\ look' = NoLook
    /\ UNCHANGED <<prev, log, lost, pointer, unit, module>>

CoreCrash ==
    /\ \E r \in Starts : pc[r] \notin {"idle", "done"}
    /\ Restarted
    /\ UNCHANGED flag

\* One that is opening its run has put the flag up, and written no pointer.
OpenCut(r) ==
    /\ pc[r] = "idle" /\ Admitted
    /\ flag' = r
    /\ Restarted

-----------------------------------------------------------------------------
(* A run of the module assistant: its lock, then the flag and the units. *)

ModuleLock ==
    /\ module = "idle"
    /\ module' = "locked"
    /\ UNCHANGED <<pc, prev, log, lost, pointer, flag, launching, unit, look>>

\* Mutant: the run trusts its lock, and does not look for the flag.
ModuleLook_NoFlag ==
    /\ module = "locked"
    /\ module' = IF unit = None THEN "work" ELSE "idle"
    /\ UNCHANGED <<pc, prev, log, lost, pointer, flag, launching, unit, look>>

ModuleLook ==
    /\ module = "locked"
    /\ module' = IF flag = None /\ unit = None THEN "work" ELSE "idle"
    /\ UNCHANGED <<pc, prev, log, lost, pointer, flag, launching, unit, look>>

ModuleEnd ==
    /\ module = "work"
    /\ module' = "idle"
    /\ UNCHANGED <<pc, prev, log, lost, pointer, flag, launching, unit, look>>

Next ==
    \/ \E r \in Starts : StartStep(r) \/ Close(r) \/ UnitEnd(r) \/ Lose(r) \/ LoseAttempt(r) \/ OpenCut(r)
    \/ SettleRead \/ KeepFlag \/ DropStrayFlag \/ CoreCrash
    \/ ModuleLock \/ ModuleLook \/ ModuleEnd

Spec == Init /\ [][Next]_vars

-----------------------------------------------------------------------------
(* Properties. *)

Places == {"idle", "apps", "prepare", "run", "failed", "clear", "abandon", "done"}

Words == {"none", "opened", "attempt", "failed", "held", "over", "good", "closed"}

\* The types of the state.
TypeOK ==
    /\ pc \in [Starts -> Places]
    /\ prev \in [Starts -> Runs]
    /\ log \in [Starts -> Words]
    /\ lost \subseteq Starts
    /\ pointer \in Runs /\ flag \in Runs /\ unit \in Runs
    /\ launching \in Nat
    /\ look \in [run : Runs, holds : BOOLEAN]
    /\ module \in {"idle", "locked", "work"}

\* The run whose unit runs is the latest one, and its log says so: neither a start that waited
\* long between its two locks and is taken back, nor one that is admitted meanwhile, nor a
\* closing, takes the pointer from it ("the pointer and the flag are that run's now, and a unit
\* of it may be running", begin.go:158).
UnitStands == unit # None => pointer = unit /\ log[unit] = "attempt"

\* Of the calls of systemd-run that have not returned there is at most one, and it is for the
\* latest run: a number of attempt is launched at most once, though no lock is held over it.
OneLaunch ==
    \A r \in Starts : pc[r] \in {"run", "failed"} =>
        pointer = r /\ unit = None /\ \A q \in Starts : pc[q] \in {"run", "failed"} => q = r

\* A run of the module assistant and a unit of the upgrade do not change packages at the same
\* time: "the run sees the flag, or this sees the run" (begin.go:40).
Apart == ~(module = "work" /\ unit # None)

\* The same while no second start was made and none was slower than StartLost: the start may fail,
\* be taken back or be cut by a crash, and the loop keeps the flag from an older look.
ApartAlone ==
    lost = {} /\ (\A r, q \in Starts : pc[r] # "idle" /\ pc[q] # "idle" => r = q) => Apart

\* The pointer never names a run whose log is not whole (begin.go:24): a start that is taken
\* back does not leave it on a folder that is gone.
PointerWhole == pointer # None => log[pointer] # "none"
=============================================================================
