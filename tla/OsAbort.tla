------------------------------ MODULE OsAbort ------------------------------
(***************************************************************************)
(* The owner calls off an upgrade while the unit's driver goes from block  *)
(* to block (service/system_os_upgrade_abort.go and the loop of the shell  *)
(* driver, pkg/osrun/driver.go).  No lock is shared between the two: the   *)
(* core writes the flag of the call and then reads the log; the driver     *)
(* writes that a block begins and then reads the flag.  Any number of      *)
(* requests may call at once, the core may be restarted at any moment, and *)
(* the unit may be killed by something else.                               *)
(*                                                                         *)
(* One run has one attempt here (the first, the only one that can be       *)
(* called off), and what the log says of it is kept as the reducer's       *)
(* attemptView: the unit is the only writer, so the view grows line by     *)
(* line.  A run that is over may be followed by another, up to MaxRuns:    *)
(* the unit of the next run has the same name, and the flag is a file of   *)
(* each run's own folder.                                                  *)
(***************************************************************************)
EXTENDS OsVocab

CONSTANTS
    Callers,    \* requests that call AbortSystemOSUpgrade
    PhaseOf,    \* PhaseOf[r]: the phase of the first attempt of run r
    MaxRuns     \* bound: how many runs follow each other

ASSUME MaxRunsAssumption == MaxRuns \in Nat \ {0}
ASSUME PhaseAssumption == PhaseOf \in [1..MaxRuns -> {"refresh", "rehearse", "run"}]

VARIABLES
    run,        \* the run that the pointer names
    dpc,        \* where the driver of the run's unit is
    idx,        \* how many blocks of the list have begun
    files,      \* the backup folder
    view,       \* attemptView of the attempt: what the log says
    flag,       \* flag[r]: the abort file of run r's folder
    cpc,        \* cpc[c]: where a request is
    crun,       \* crun[c]: the run that the request read
    answer      \* answer[c]: what the request was last answered

vars == <<run, dpc, idx, files, view, flag, cpc, crun, answer>>

Runs == 1..MaxRuns

list == BlockList(PhaseOf[run], {})

\* The block that the driver began last.
block == list[idx]

\* attemptView, for what a call reads of it.
Views == [started : BOOLEAN, lastStart : BlockIDs \cup {""},
          stop : Classes \cup {""}, result : BOOLEAN, unwound : BOOLEAN, ended : BOOLEAN]

NewView == [started |-> FALSE, lastStart |-> "", stop |-> "", result |-> FALSE,
            unwound |-> FALSE, ended |-> FALSE]

TypeOK ==
    /\ run \in Runs
    /\ dpc \in {"queued", "next", "read", "exec", "undo", "end", "gone"}
    /\ idx \in 0..Len(list)
    /\ dpc \in {"read", "exec"} => idx \in 1..Len(list)
    /\ files \subseteq BackupFiles
    /\ view \in Views
    /\ flag \in [Runs -> BOOLEAN]
    /\ cpc \in [Callers -> {"idle", "checked", "flagged", "stop"}]
    /\ crun \in [Callers -> Runs]
    /\ answer \in [Callers -> {"none", "refused", "taken", "again"}]

Init ==
    /\ run = 1
    /\ dpc = "queued"
    /\ idx = 0
    /\ files = {}
    /\ view = NewView
    /\ flag = [r \in Runs |-> FALSE]
    /\ cpc = [c \in Callers |-> "idle"]
    /\ crun = [c \in Callers |-> 1]
    /\ answer = [c \in Callers |-> "none"]

-----------------------------------------------------------------------------
(* The driver. *)

core == <<cpc, crun, answer, flag>>

UnitStart ==
    /\ dpc = "queued"
    /\ dpc' = "next"
    /\ view' = [view EXCEPT !.started = TRUE]
    /\ UNCHANGED <<run, idx, files, core>>

\* The start of the block is written before the flag is looked at.
BlockStart ==
    /\ dpc = "next"
    /\ idx < Len(list)
    /\ idx' = idx + 1
    /\ view' = [view EXCEPT !.lastStart = list[idx + 1]]
    /\ dpc' = "read"
    /\ UNCHANGED <<run, files, core>>

\* Mutant: the driver does not look at the flag.
ReadFlag_Blind ==
    /\ dpc = "read"
    /\ dpc' = "exec"
    /\ UNCHANGED <<run, idx, files, view, core>>

\* The flag stops the driver, unless the point of no return is behind it.
ReadFlag ==
    /\ dpc = "read"
    /\ IF flag[run] /\ ~PNR(files)
       THEN /\ dpc' = "undo"
            /\ view' = [view EXCEPT !.stop = "abort"]
       ELSE dpc' = "exec" /\ UNCHANGED view
    /\ UNCHANGED <<run, idx, files, core>>

\* What a block writes on its way: the minimal upgrade and the upgrade of a
\* refresh say that they begin just before apt may change a package.
SideFile(b) ==
    CASE b = "minimal"  -> {"begun"}
      [] b = "rupgrade" -> {"rbegun"}
      [] b = "sources"  -> {"apt-orig"}
      [] b = "rsources" -> {"apt-orig"}
      [] b = "timers"   -> {"timers-stopping"}
      [] OTHER          -> {}

BlockWrites ==
    /\ dpc = "exec"
    /\ SideFile(block) # {}
    /\ ~ SideFile(block) \subseteq files
    /\ files' = files \cup SideFile(block)
    /\ UNCHANGED <<run, dpc, idx, view, core>>

BlockDone ==
    /\ dpc = "exec"
    /\ SideFile(block) \subseteq files
    /\ files' = files \cup {block}
    /\ dpc' = "next"
    /\ UNCHANGED <<run, idx, view, core>>

\* stopat: before the point of no return what was changed is put back.
BlockFails ==
    /\ dpc = "exec"
    /\ view' = [view EXCEPT !.stop = "network"]
    /\ dpc' = IF PNR(files) THEN "end" ELSE "undo"
    /\ UNCHANGED <<run, idx, files, core>>

\* unwind: the folder is put aside when all of it was put back.
Unwind ==
    /\ dpc = "undo"
    /\ ~PNR(files)
    /\ files' \in {{}, files}
    /\ view' = [view EXCEPT !.unwound = TRUE]
    /\ dpc' = "end"
    /\ UNCHANGED <<run, idx, core>>

Result ==
    /\ dpc = "next"
    /\ idx = Len(list)
    /\ view' = [view EXCEPT !.result = TRUE]
    /\ dpc' = "end"
    /\ UNCHANGED <<run, idx, files, core>>

UnitEnd ==
    /\ dpc = "end"
    /\ view' = [view EXCEPT !.ended = TRUE]
    /\ dpc' = "gone"
    /\ UNCHANGED <<run, idx, files, core>>

\* Something else kills the unit: out of memory, the owner at the console.
Killed ==
    /\ dpc \notin {"queued", "gone"}
    /\ dpc' = "gone"
    /\ UNCHANGED <<run, idx, files, view, core>>

Driver == \/ UnitStart \/ BlockStart \/ ReadFlag \/ BlockWrites \/ BlockDone
          \/ BlockFails \/ Unwind \/ Result \/ UnitEnd \/ Killed

-----------------------------------------------------------------------------
(* The core. *)

unit == <<run, dpc, idx, files, view>>

\* osUpgradeNotAbortable of the state that the reducer gives run r.  A unit
\* that is gone and did not say that it ended is taken for running for a
\* moment (GraceQuiet) and for lost after it: both readings are possible.
\* A run that another one followed had ended.
Abortable(r) ==
    /\ r = run
    /\ ~view.ended
    /\ ~PNR(files)
    /\ ~pastAbort(view.lastStart)
    /\ view.stop = "" /\ ~view.result /\ ~view.unwound

Lost == dpc = "gone" /\ ~view.ended

\* The first look: a call that the state does not allow is refused.
Check(c) ==
    /\ cpc[c] = "idle"
    /\ crun' = [crun EXCEPT ![c] = run]
    /\ \/ /\ Abortable(run)
          /\ cpc' = [cpc EXCEPT ![c] = "checked"]
          /\ answer' = [answer EXCEPT ![c] = "none"]
       \/ /\ ~Abortable(run) \/ Lost
          /\ answer' = [answer EXCEPT ![c] = "refused"]
          /\ UNCHANGED cpc
    /\ UNCHANGED <<unit, flag>>

\* The flag is made exclusively: a call that finds one does nothing more.
WriteFlag(c) ==
    /\ cpc[c] = "checked"
    /\ IF flag[crun[c]]
       THEN /\ cpc' = [cpc EXCEPT ![c] = "idle"]
            /\ answer' = [answer EXCEPT ![c] = "again"]
            /\ UNCHANGED flag
       ELSE /\ flag' = [flag EXCEPT ![crun[c]] = TRUE]
            /\ cpc' = [cpc EXCEPT ![c] = "flagged"]
            /\ UNCHANGED answer
    /\ UNCHANGED <<unit, crun>>

\* Mutant: the call is decided on the first look and the log is not read
\* again after the flag is written.
Decide_Stale(c) ==
    /\ cpc[c] = "flagged"
    /\ cpc' = [cpc EXCEPT ![c] = "stop"]
    /\ answer' = [answer EXCEPT ![c] = "taken"]
    /\ UNCHANGED <<unit, crun, flag>>

\* The log is read again after the flag: the call is taken, or taken back.
Decide(c) ==
    /\ cpc[c] = "flagged"
    /\ \/ /\ Abortable(crun[c])
          /\ cpc' = [cpc EXCEPT ![c] = "stop"]
          /\ answer' = [answer EXCEPT ![c] = "taken"]
          /\ UNCHANGED flag
       \/ /\ ~Abortable(crun[c]) \/ Lost
          /\ flag' = [flag EXCEPT ![crun[c]] = FALSE]
          /\ cpc' = [cpc EXCEPT ![c] = "idle"]
          /\ answer' = [answer EXCEPT ![c] = "refused"]
    /\ UNCHANGED <<unit, crun>>

\* systemctl stop names the unit and not the run.  It may fail, and it does
\* nothing to a unit that is not there yet or any more.
StopUnit(c) ==
    /\ cpc[c] = "stop"
    /\ cpc' = [cpc EXCEPT ![c] = "idle"]
    /\ dpc' \in {dpc, IF dpc = "queued" THEN dpc ELSE "gone"}
    /\ UNCHANGED <<run, idx, files, view, flag, crun, answer>>

\* The settling loop undoes a lost run that is not past the point of no
\* return: the log then has an attempt that cannot be called off.
SettleUnwinds ==
    /\ Lost
    /\ ~PNR(files)
    /\ files' = {}
    /\ view' = [view EXCEPT !.ended = TRUE, !.unwound = TRUE]
    /\ UNCHANGED <<run, dpc, idx, core>>

\* A run that is over and holds nothing may be followed by another
\* (osUpgradeBlocksStart): it failed and was put back, or it was a refresh.
NextRun ==
    /\ run < MaxRuns
    /\ dpc = "gone" /\ view.ended /\ ~PNR(files)
    /\ \/ view.unwound /\ files = {}
       \/ view.result /\ PhaseOf[run] = "refresh"
    /\ run' = run + 1
    /\ dpc' = "queued"
    /\ idx' = 0
    /\ files' = {}
    /\ view' = NewView
    /\ UNCHANGED core

\* The core is restarted: its requests are gone, the flags are files.
CoreRestart ==
    /\ \E c \in Callers : cpc[c] # "idle"
    /\ cpc' = [c \in Callers |-> "idle"]
    /\ answer' = [c \in Callers |-> "none"]
    /\ UNCHANGED <<unit, flag, crun>>

Core == \/ SettleUnwinds \/ NextRun \/ CoreRestart
        \/ \E c \in Callers : Check(c) \/ WriteFlag(c) \/ Decide(c) \/ StopUnit(c)

Next == Driver \/ Core

\* The driver's shell goes on while it is alive, and a request that was begun
\* is carried through by the core that runs it; the loop looks at a run that is
\* open every half minute.
Fairness ==
    /\ WF_vars(UnitStart \/ BlockStart \/ ReadFlag \/ BlockDone \/ BlockWrites
               \/ Unwind \/ Result \/ UnitEnd)
    /\ WF_vars(SettleUnwinds)
    /\ \A c \in Callers : WF_vars(WriteFlag(c) \/ Decide(c) \/ StopUnit(c))

Spec == Init /\ [][Next]_vars /\ Fairness

-----------------------------------------------------------------------------
(* Properties. *)

\* The driver is inside a block that a run cannot be called off in.
InsidePast == dpc = "exec" /\ pastAbort(block)

\* A request that is about to stop the unit never finds the unit inside such
\* a block: dpkg is not cut short by a call to stop ("The unit is never
\* stopped while the minimal upgrade runs", abort.go:43).
NeverCutShort == \A c \in Callers : cpc[c] = "stop" => ~InsidePast

\* A call that was taken is final: from the moment that the core decides, no
\* block past the point of abort runs in that run, though neither side ever
\* waits for the other.
TakenStands == \A c \in Callers :
    answer[c] = "taken" /\ crun[c] = run => ~InsidePast /\ ~PNR(files)

\* A call that is taken back did not stop the run: the owner who is told that
\* the run goes on is not told so of a run that stopped on that very flag.
RefusedLetsRun == [][\A c \in Callers :
    Decide(c) /\ answer'[c] = "refused" => view.stop # "abort"]_vars

\* A call that was taken is carried through: the machine is put back, whether
\* the unit is stopped, stops itself at its next block because systemd did not
\* carry out the stop, or is killed on the way and undone by the loop.
TakenIsUndone == \A c \in Callers :
    answer[c] = "taken" /\ crun[c] = run ~> view.unwound \/ answer[c] # "taken"
=============================================================================
