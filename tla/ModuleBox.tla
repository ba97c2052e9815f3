------------------------------- MODULE ModuleBox -------------------------------
(* A run of the module assistant (pkg/modulecmd) for one module of the box:    *)
(* install, update and remove, the undoing of each, and the recovery of an     *)
(* update that was cut short, which every later run begins with. A step of a   *)
(* run is one write of the box (the rename of a file, of a list, of the        *)
(* manifest or of the version, a mark of the backup, an order to systemd), so  *)
(* that the process may be killed between any two. The directories of a module *)
(* are kept in step with its files and are left out.                           *)
EXTENDS Integers, FiniteSets

CONSTANTS Paths,      \* the paths the archives of the module may hold
          FilesOf,    \* FilesOf[v]: what each path of version v holds
          Droppable,  \* the mark of a backup whose module is gone can be taken away
          MaxRuns, MaxKills, MaxFaults, MaxEdits
Versions == DOMAIN FilesOf
Newest == Cardinality(Versions)
None == 0     \* nothing is at the path; no version
Other == 99   \* bytes that are no version's
Has(v, p) == p \in DOMAIN FilesOf[v]
Contents == UNION {{FilesOf[v][p] : p \in DOMAIN FilesOf[v]} : v \in Versions}
ASSUME BoxAssumption == /\ Versions = 1 .. Newest /\ Newest \in Nat \ {0}
                        /\ \A v \in Versions : DOMAIN FilesOf[v] \subseteq Paths
                        /\ Contents \cap {None, Other} = {}
                        /\ {MaxRuns, MaxKills, MaxFaults, MaxEdits} \subseteq Nat

VARIABLES disk,       \* what is at each path of the box
          list,       \* the list of the files of the module: what each path may hold to be its own
          manifest, version,  \* the version each of the two was written for
          unit,       \* [active, enabled]: the unit of the module
          backup,     \* the backup folder of an update
          theirs,     \* the paths that the list of another module names too
          latest,     \* the version the catalogue names
          run, log,   \* the process that holds the lock, and the log of the last one
          was,        \* history: the box when the run was admitted, and what was edited since
          runs, kills, faults, edits
box == <<disk, list, manifest, version, unit>>
count == <<runs, kills, faults, edits>>
vars == <<box, backup, theirs, latest, run, log, was, count>>

NoList == [p \in Paths |-> {}]
ListOf(v) == [p \in Paths |-> IF Has(v, p) THEN {FilesOf[v][p]} ELSE {}]
Listed(l) == {p \in Paths : l[p] # {}}
NoBackup == [mark |-> "none", files |-> [p \in Paths |-> None], list |-> NoList,
             manifest |-> None, version |-> None, new |-> None, unit |-> [active |-> FALSE, enabled |-> FALSE]]
NoRun == [kind |-> "none", pc |-> "idle", back |-> "none", target |-> None, mine |-> NoList, written |-> NoList,
          begun |-> FALSE, unpacked |-> FALSE, backed |-> FALSE, before |-> [active |-> FALSE, enabled |-> FALSE],
          todo |-> {}, puts |-> {}, removes |-> {}, bad |-> FALSE, stuck |-> FALSE, left |-> FALSE, kept |-> FALSE]

Init == /\ disk = [p \in Paths |-> None] /\ list = NoList /\ manifest = None /\ version = None
        /\ unit = [active |-> FALSE, enabled |-> FALSE]
        /\ backup = NoBackup /\ theirs \in {{}, {CHOOSE p \in Paths : ~Has(Newest, p)}} /\ latest = 1
        /\ run = NoRun /\ log = [kind |-> "none", result |-> "none"]
        /\ was = [disk |-> disk, list |-> list, version |-> None, installed |-> None, active |-> FALSE, edited |-> {}, kept |-> FALSE]
        /\ runs = 0 /\ kills = 0 /\ faults = 0 /\ edits = 0

-------------------------------------------------------------------------------
holds_Blind(p, want) == IF disk[p] = None THEN "nothing" ELSE "ours"
\* What a path holds, against what the list says it should.
holds(p, want) == IF disk[p] = None THEN "nothing" ELSE IF disk[p] \in want THEN "ours" ELSE "other"

\* The entries of a list whose files are still the module's.
stillTheirs(l) == [p \in Paths |-> IF holds(p, l[p]) = "ours" THEN l[p] ELSE {}]

\* A path of the archive that is taken by what is not the module's.
InTheWay(v, mine) == \E p \in DOMAIN FilesOf[v] : disk[p] # None /\ mine[p] = {}

plannedEntries_NewOnly(v, mine) == [p \in Paths |-> IF Has(v, p) THEN ListOf(v)[p] ELSE mine[p]]
\* The list before anything is written: the new bytes and, where a file is
\* replaced, the old ones too.
plannedEntries(v, mine) == [p \in Paths |-> ListOf(v)[p] \cup mine[p]]

\* The list of what was written: this run's files over the earlier ones.
writtenEntries(mine, wrote) == [p \in Paths |-> IF wrote[p] # {} THEN wrote[p] ELSE mine[p]]

modulePresent == manifest # None \/ version # None \/ list # NoList

\* The version a reader may count on: while a complete backup stands, the old one.
Installed == IF backup.mark = "complete" /\ modulePresent THEN backup.version ELSE manifest

planRefusal == IF run.kind = "install" THEN manifest # None
               ELSE manifest = None \/ list = NoList \/ version = None \/ version >= latest
removeRefusal == ~modulePresent

Goto(pc) == run' = [run EXCEPT !.pc = pc]
End(r) == run' = NoRun /\ log' = [log EXCEPT !.result = r]
Fault == faults < MaxFaults /\ faults' = faults + 1
Calm == UNCHANGED faults
\* What a step leaves alone unless it says otherwise.
Rest == UNCHANGED <<theirs, latest, was, runs, kills, edits>>

InstallSteps == <<"packages", "download", "verify", "unpack", "units", "manifest", "start", "route", "done">>
UpdateSteps == <<"packages", "download", "verify", "unpack", "backup", "stop", "swap", "units", "start", "route", "drop">>
After(pc) == LET steps == IF run.kind = "install" THEN InstallSteps ELSE UpdateSteps
             IN  steps[(CHOOSE i \in DOMAIN steps : steps[i] = pc) + 1]
\* The steps are gone through in order; an update starts nothing that was not running.
NextStep(pc) == IF After(pc) \in {"start", "route"} /\ run.kind = "update" /\ ~run.before.active THEN "drop" ELSE After(pc)
Advance(pc) == run' = [run EXCEPT !.pc = NextStep(pc), !.back = IF NextStep(pc) = "drop" THEN "done" ELSE @]

\* A step failed, or the run was told to stop: an install is taken down once its
\* unpacking began, an update is put back once its backup is complete.
failed(r) == CASE r.kind = "install" /\ r.begun -> run' = [r EXCEPT !.pc = "t_stop", !.back = "rollback"] /\ UNCHANGED log
               [] r.kind = "install" /\ ~r.begun -> End("rolled_back")
               [] r.kind = "update" /\ r.backed -> run' = [r EXCEPT !.pc = "r_read", !.back = "rollback"] /\ UNCHANGED log
               [] r.kind = "update" /\ ~r.backed -> run' = [r EXCEPT !.pc = "drop", !.back = "failed"] /\ UNCHANGED log

\* A run takes the lock and begins its log anew.
Begin(k) == /\ run = NoRun /\ runs < MaxRuns /\ runs' = runs + 1
            /\ run' = [NoRun EXCEPT !.kind = k, !.pc = "recover"]
            /\ log' = [kind |-> k, result |-> "none"]
            /\ was' = [was EXCEPT !.installed = Installed]
            /\ UNCHANGED <<box, backup, theirs, latest, kills, faults, edits>>

\* The backup of an update that was cut short: it is put back, unless the module
\* is gone, when an install drops it and a remove lets it be.
recoverUpdate ==
    /\ run.pc = "recover"
    /\ run' = [run EXCEPT !.pc = IF backup.mark = "none" \/ (~modulePresent /\ run.kind = "remove") THEN "admit"
                                 ELSE IF ~modulePresent THEN "drop" ELSE "r_read",
                          !.back = IF modulePresent THEN "recover" ELSE "admit"]
    /\ UNCHANGED <<box, backup, log>> /\ Calm /\ Rest

\* The run looks at the box under the lock: it is refused by the plan, by what is
\* at work on the box, or goes on.
Admit == /\ run.pc = "admit"
         /\ \/ End("refused") /\ UNCHANGED was
            \/ /\ IF run.kind = "remove" THEN ~removeRefusal ELSE ~planRefusal
               /\ run' = [run EXCEPT !.pc = IF run.kind = "remove" THEN "t_stop" ELSE "packages",
                                     !.back = "none", !.target = latest, !.bad = FALSE, !.left = FALSE]
               /\ was' = [was EXCEPT !.disk = disk, !.list = list, !.version = version, !.active = unit.active, !.edited = {},
                                     !.kept = @ \/ run.kept]
               /\ UNCHANGED log
         /\ UNCHANGED <<box, backup, theirs, latest, runs, kills, edits>> /\ Calm

\* The steps that change nothing of the box that is modelled here: the packages,
\* the download, its sum, the reload of the units and the wait for the route.
StepQuiet == /\ run.pc \in {"packages", "download", "verify", "units", "route"}
             /\ \/ Calm /\ Advance(run.pc) /\ UNCHANGED log
                \/ Fault /\ failed(run)
             /\ UNCHANGED <<box, backup>> /\ Rest
Done == /\ run.pc = "done" /\ End("ok") /\ UNCHANGED <<box, backup>> /\ Calm /\ Rest

-------------------------------------------------------------------------------
\* An install looks at what an earlier one left, and records everything it may
\* write before it writes it.
Unpack == /\ run.pc = "unpack" /\ run.kind = "install"
          /\ \E mine \in {stillTheirs(list)} :
                IF InTheWay(run.target, mine)
                THEN /\ list' = mine /\ Calm
                     /\ failed([run EXCEPT !.begun = TRUE, !.unpacked = TRUE, !.written = mine])
                ELSE \/ /\ Calm /\ list' = plannedEntries(run.target, mine) /\ UNCHANGED log
                        /\ run' = [run EXCEPT !.pc = "write", !.begun = TRUE, !.mine = mine, !.todo = DOMAIN FilesOf[run.target]]
                     \/ /\ Fault /\ list' = mine
                        /\ failed([run EXCEPT !.begun = TRUE, !.unpacked = TRUE, !.written = mine])
          /\ UNCHANGED <<disk, manifest, version, unit, backup>> /\ Rest

\* One file of the archive is put at its path; a path that is taken by now is in
\* the way, one that was the module's is replaced.
Write(p) == /\ run.pc = "write" /\ p \in run.todo
            /\ \/ /\ Calm /\ (disk[p] = None \/ run.mine[p] # {})
                  /\ disk' = [disk EXCEPT ![p] = FilesOf[run.target][p]]
                  /\ run' = [run EXCEPT !.todo = @ \ {p}, !.written[p] = ListOf(run.target)[p]]
                  /\ UNCHANGED <<list, log>>
               \/ /\ \/ Fault
                     \/ Calm /\ disk[p] # None /\ run.mine[p] = {}
                  /\ list' = writtenEntries(run.mine, run.written)
                  /\ failed([run EXCEPT !.unpacked = TRUE, !.written = writtenEntries(run.mine, run.written)])
                  /\ UNCHANGED disk
            /\ UNCHANGED <<manifest, version, unit, backup>> /\ Rest

\* The list is what was written, and no more.
Record == /\ run.pc = "write" /\ run.todo = {}
          /\ \E l \in {writtenEntries(run.mine, run.written)}, r \in {[run EXCEPT !.unpacked = TRUE, !.written = writtenEntries(run.mine, run.written)]} :
                \/ Calm /\ list' = l /\ run' = [r EXCEPT !.pc = NextStep("unpack")] /\ UNCHANGED log
                \/ Fault /\ UNCHANGED list /\ failed(r)
          /\ UNCHANGED <<disk, manifest, version, unit, backup>> /\ Rest

\* The version is written before the manifest, which is what makes a module one.
stepVersion == /\ run.pc = "manifest" /\ version' = run.target /\ Goto("manifest2") /\ Calm
               /\ UNCHANGED <<disk, list, manifest, unit, backup, log>> /\ Rest
stepManifest == /\ run.pc = "manifest2"
                /\ \/ Calm /\ manifest' = run.target /\ Goto("start") /\ UNCHANGED log
                   \/ Fault /\ failed(run) /\ UNCHANGED manifest
                /\ UNCHANGED <<disk, list, version, unit, backup>> /\ Rest

\* The unit is enabled and started by an install, and settled as it was by an update.
stepStart == /\ run.pc = "start"
             /\ \/ Calm /\ unit' = [active |-> TRUE, enabled |-> run.kind = "install" \/ run.before.enabled \/ unit.enabled]
                   /\ Advance("start") /\ UNCHANGED log
                \/ Fault /\ failed(run) /\ UNCHANGED unit
             /\ UNCHANGED <<disk, list, manifest, version, backup>> /\ Rest

-------------------------------------------------------------------------------
\* An update unpacks beside the box and changes nothing of it yet.
Stage == /\ run.pc = "unpack" /\ run.kind = "update"
         /\ \E mine \in {stillTheirs(list)} :
               \/ ~InTheWay(run.target, mine) /\ Calm /\ run' = [run EXCEPT !.pc = "backup", !.mine = mine] /\ UNCHANGED log
               \/ (Fault \/ (InTheWay(run.target, mine) /\ Calm)) /\ failed(run)
         /\ UNCHANGED <<box, backup>> /\ Rest

\* The files of the old version and the lists are copied, and the mark that the
\* backup is complete is the last thing that is written of it.
stepBackup == /\ run.pc = "backup"
              /\ \/ Calm /\ backup' = [NoBackup EXCEPT !.mark = "partial"] /\ Goto("backup2") /\ UNCHANGED log
                 \/ Fault /\ failed(run) /\ UNCHANGED backup
              /\ UNCHANGED box /\ Rest
backupDone == /\ run.pc = "backup2"
              /\ \/ /\ Calm /\ run' = [run EXCEPT !.pc = NextStep("backup"), !.backed = TRUE, !.before = unit] /\ UNCHANGED log
                    /\ backup' = [mark |-> "complete", files |-> [p \in Paths |-> IF list[p] # {} THEN disk[p] ELSE None],
                                  list |-> list, manifest |-> manifest, version |-> version, new |-> run.target, unit |-> unit]
                 \/ Fault /\ failed(run) /\ UNCHANGED backup
              /\ UNCHANGED box /\ Rest

stepStop == /\ run.pc = "stop"
            /\ \/ /\ Calm /\ unit' = [unit EXCEPT !.active = FALSE] /\ UNCHANGED log
                  /\ run' = [run EXCEPT !.pc = "swap", !.todo = DOMAIN FilesOf[run.target]]
               \/ Fault /\ unit.active /\ failed(run) /\ UNCHANGED unit
            /\ UNCHANGED <<disk, list, manifest, version, backup>> /\ Rest

\* A file of the new version is put over the module's own, or where nothing is.
SwapPut(p) == /\ run.pc = "swap" /\ p \in run.todo
              /\ \/ /\ Calm /\ holds(p, run.mine[p]) # "other"
                    /\ disk' = [disk EXCEPT ![p] = FilesOf[run.target][p]]
                    /\ run' = [run EXCEPT !.todo = @ \ {p}] /\ UNCHANGED log
                 \/ /\ Fault \/ (Calm /\ holds(p, run.mine[p]) = "other")
                    /\ failed(run) /\ UNCHANGED disk
              /\ UNCHANGED <<list, manifest, version, unit, backup>> /\ Rest
SwapPutDone == /\ run.pc = "swap" /\ run.todo = {} /\ Calm
               /\ run' = [run EXCEPT !.pc = "swap_del", !.todo = Listed(list) \ DOMAIN FilesOf[run.target]]
               /\ UNCHANGED <<box, backup, log>> /\ Rest
\* A file that only the old version had is taken away, if it is still its own and
\* no other module's.
SwapDelete(p) == /\ run.pc = "swap_del" /\ p \in run.todo
                 /\ \/ /\ Calm /\ run' = [run EXCEPT !.todo = @ \ {p}] /\ UNCHANGED log
                       /\ disk' = IF p \notin theirs /\ holds(p, list[p]) = "ours" THEN [disk EXCEPT ![p] = None] ELSE disk
                    \/ Fault /\ failed(run) /\ UNCHANGED disk
                 /\ UNCHANGED <<list, manifest, version, unit, backup>> /\ Rest
\* The lists, the manifest and the version follow the files.
SwapState == /\ \/ run.pc = "swap_del" /\ run.todo = {} /\ list' = ListOf(run.target) /\ Goto("s_manifest") /\ UNCHANGED <<manifest, version>>
                \/ run.pc = "s_manifest" /\ manifest' = run.target /\ Goto("s_version") /\ UNCHANGED <<list, version>>
                \/ run.pc = "s_version" /\ version' = run.target /\ Advance("swap") /\ UNCHANGED <<list, manifest>>
             /\ Calm /\ UNCHANGED <<disk, unit, backup, log>> /\ Rest
SwapFails == /\ run.pc \in {"s_manifest", "s_version"} \/ (run.pc = "swap_del" /\ run.todo = {})
             /\ Fault /\ failed(run) /\ UNCHANGED <<box, backup>> /\ Rest
-------------------------------------------------------------------------------
RestoreEnd_Again(bad) ==
    CASE run.back = "recover" /\ bad -> run' = [run EXCEPT !.pc = "r_read", !.kept = TRUE] /\ UNCHANGED log
      [] run.back = "recover" /\ ~bad -> Goto("admit") /\ UNCHANGED log
      [] run.back = "rollback" -> End(IF bad THEN "incomplete" ELSE IF run.left THEN "left" ELSE "rolled_back")
\* A putting back is over, in a recovery or in a rollback.
RestoreEnd(bad) ==
    CASE run.back = "recover" /\ bad /\ run.kind # "remove" -> End("incomplete")
      [] run.back = "recover" /\ ~(bad /\ run.kind # "remove") -> run' = [run EXCEPT !.pc = "admit", !.kept = bad] /\ UNCHANGED log
      [] run.back = "rollback" -> End(IF bad THEN "incomplete" ELSE IF run.left THEN "left" ELSE "rolled_back")

\* The backup is dropped: its mark first, and then the folder.
DropEnd(marked, err) ==
    CASE run.back = "done" -> End(IF marked THEN "failed" ELSE "ok")
      [] run.back = "failed" -> End("rolled_back")
      [] run.back = "admit" -> Goto("admit") /\ UNCHANGED log
      [] run.back \in {"recover", "rollback"} -> RestoreEnd(err)
removeBackup == /\ run.pc = "drop"
                /\ \/ Calm /\ backup.mark = "complete" /\ backup' = [backup EXCEPT !.mark = "partial"] /\ UNCHANGED <<run, log>>
                   \/ Calm /\ backup.mark # "complete" /\ backup' = NoBackup /\ DropEnd(FALSE, FALSE)
                   \/ /\ Fault /\ backup.mark # "none" /\ (Droppable /\ run.back = "admit" => backup.mark # "complete")
                      /\ UNCHANGED backup /\ DropEnd(backup.mark = "complete", TRUE)
                /\ UNCHANGED box /\ Rest

\* A backup without its mark is of an update that changed nothing: it is dropped.
readBackup == /\ run.pc = "r_read"
              /\ \/ Calm /\ Goto(IF backup.mark = "complete" THEN "r_decide" ELSE "drop") /\ UNCHANGED log
                 \/ Fault /\ backup.mark = "complete" /\ RestoreEnd(TRUE)
              /\ UNCHANGED <<box, backup>> /\ Rest

\* Everything is looked at before anything is changed. What holds the old bytes
\* stays, what holds the new ones or nothing is put back, what only the new
\* version has is taken away, and anything else is somebody's and is left.
Saved == {p \in Paths : backup.files[p] # None}
IsNew(p) == Has(backup.new, p) /\ holds(p, ListOf(backup.new)[p]) = "ours"
ToPut_Replaced == {p \in Saved : disk[p] # backup.files[p] /\ IsNew(p)}
ToPut == {p \in Saved : disk[p] # backup.files[p] /\ (disk[p] = None \/ IsNew(p))}
ToRemove == {p \in Paths \ Saved : IsNew(p)}
ToLeave == {p \in Saved \cup DOMAIN FilesOf[backup.new] : disk[p] # None /\ ~IsNew(p) /\ disk[p] # backup.files[p]}
putBackDecide ==
    /\ run.pc = "r_decide"
    /\ \/ /\ Calm /\ run' = [run EXCEPT !.pc = IF ToPut \cup ToRemove # {} THEN "r_stop" ELSE "r_put",
                                    !.puts = ToPut, !.removes = ToRemove, !.left = @ \/ ToLeave # {}]
       \/ Fault /\ run' = [run EXCEPT !.pc = "r_units", !.bad = TRUE]
    /\ UNCHANGED <<box, backup, log>> /\ Rest
putBackStop == /\ run.pc = "r_stop"
               /\ \/ Calm /\ unit' = [unit EXCEPT !.active = @ /\ ~backup.unit.active] /\ Goto("r_put")
                  \/ Fault /\ backup.unit.active /\ run' = [run EXCEPT !.pc = "r_put", !.stuck = TRUE] /\ UNCHANGED unit
               /\ UNCHANGED <<disk, list, manifest, version, backup, log>> /\ Rest
putBack(p) == /\ run.pc = "r_put" /\ p \in run.puts
              /\ \/ Calm /\ disk' = [disk EXCEPT ![p] = backup.files[p]] /\ run' = [run EXCEPT !.puts = @ \ {p}]
                 \/ Fault /\ run' = [run EXCEPT !.puts = @ \ {p}, !.bad = TRUE] /\ UNCHANGED disk
              /\ UNCHANGED <<list, manifest, version, unit, backup, log>> /\ Rest
putBackRemove(p) ==
    /\ run.pc = "r_put" /\ run.puts = {} /\ p \in run.removes
    /\ \/ Calm /\ disk' = [disk EXCEPT ![p] = None] /\ run' = [run EXCEPT !.removes = @ \ {p}]
       \/ Fault /\ run' = [run EXCEPT !.removes = @ \ {p}, !.bad = TRUE] /\ UNCHANGED disk
    /\ UNCHANGED <<list, manifest, version, unit, backup, log>> /\ Rest
\* The manifest, the version and the lists are put back when every file is; a
\* write that fails does not keep the others from being made.
putBackState ==
    LET sound == run.puts \cup run.removes = {} /\ ~run.bad IN
    /\ \/ run.pc = "r_put" /\ run.puts \cup run.removes = {} /\ run.bad /\ Calm /\ Goto("r_units") /\ UNCHANGED box
       \/ /\ run.pc = "r_put" /\ sound /\ UNCHANGED <<disk, list, version, unit>>
          /\ \/ Calm /\ manifest' = backup.manifest /\ Goto("r_version")
             \/ Fault /\ UNCHANGED manifest /\ run' = [run EXCEPT !.pc = "r_version", !.bad = TRUE]
       \/ /\ run.pc = "r_version" /\ UNCHANGED <<disk, list, manifest, unit>>
          /\ \/ Calm /\ version' = backup.version /\ Goto("r_list")
             \/ Fault /\ UNCHANGED version /\ run' = [run EXCEPT !.pc = "r_list", !.bad = TRUE]
       \/ /\ run.pc = "r_list" /\ UNCHANGED <<disk, manifest, version, unit>>
          /\ \/ Calm /\ list' = backup.list /\ run' = [run EXCEPT !.pc = "r_units", !.bad = @ \/ run.stuck]
             \/ Fault /\ UNCHANGED list /\ run' = [run EXCEPT !.pc = "r_units", !.bad = TRUE]
    /\ UNCHANGED <<backup, log>> /\ Rest
\* The units are loaded again and settled also when something could not be put back.
restoreUnits == /\ run.pc = "r_units"
                /\ \/ Calm /\ Goto("r_start")
                   \/ Fault /\ run' = [run EXCEPT !.pc = "r_start", !.bad = TRUE]
                /\ UNCHANGED <<box, backup, log>> /\ Rest
settleUnits == /\ run.pc = "r_start"
               /\ \/ /\ Calm /\ unit' = [active |-> unit.active \/ backup.unit.active, enabled |-> unit.enabled \/ backup.unit.enabled]
                     /\ IF run.bad THEN RestoreEnd(TRUE) ELSE Goto("drop") /\ UNCHANGED log
                  \/ Fault /\ UNCHANGED unit /\ RestoreEnd(TRUE)
               /\ UNCHANGED <<disk, list, manifest, version, backup>> /\ Rest

-------------------------------------------------------------------------------
TeardownEnd_Ok(bad) == End(IF run.back = "rollback" THEN "rolled_back" ELSE "ok")
\* A taking down is over, of a remove or of an install that failed.
TeardownEnd(bad) ==
    CASE run.back = "rollback" -> End(IF bad THEN "incomplete" ELSE "rolled_back")
      [] run.back # "rollback" /\ bad -> End("failed")
      [] run.back # "rollback" /\ ~bad /\ ~run.kept -> End("ok")
      [] run.back # "rollback" /\ ~bad /\ run.kept /\ backup.new = None -> End("failed")
      [] run.back # "rollback" /\ ~bad /\ run.kept /\ backup.new # None ->
            run' = [run EXCEPT !.pc = "leftovers", !.todo = DOMAIN FilesOf[backup.new], !.bad = FALSE] /\ UNCHANGED log
\* The list that the taking down goes by: what this run wrote, or what is recorded.
Doomed == IF run.back = "rollback" /\ run.unpacked THEN run.written ELSE list

\* Nothing is deleted while a unit is not known to be stopped.
teardownStop == /\ run.pc = "t_stop"
                /\ \/ /\ Calm /\ unit' = [active |-> FALSE, enabled |-> FALSE] /\ UNCHANGED log
                      /\ run' = [run EXCEPT !.pc = "t_files", !.todo = Listed(Doomed)]
                   \/ Fault /\ UNCHANGED unit /\ TeardownEnd(TRUE)
                /\ UNCHANGED <<disk, list, manifest, version, backup>> /\ Rest
teardownFile(p) == /\ run.pc = "t_files" /\ p \in run.todo
                   /\ \/ /\ Calm /\ run' = [run EXCEPT !.todo = @ \ {p}]
                         /\ disk' = IF p \notin theirs /\ holds(p, Doomed[p]) = "ours" THEN [disk EXCEPT ![p] = None] ELSE disk
                      \/ Fault /\ run' = [run EXCEPT !.todo = @ \ {p}, !.bad = TRUE] /\ UNCHANGED disk
                   /\ UNCHANGED <<list, manifest, version, unit, backup, log>> /\ Rest
teardownFilesEnd == /\ run.pc = "t_files" /\ run.todo = {} /\ Calm
                    /\ IF run.bad THEN TeardownEnd(TRUE) ELSE Goto("t_manifest") /\ UNCHANGED log
                    /\ UNCHANGED <<box, backup>> /\ Rest
teardownState == /\ \/ run.pc = "t_manifest" /\ manifest' = None /\ Goto("t_version") /\ UNCHANGED version
                    \/ run.pc = "t_version" /\ version' = None /\ Goto("t_reload") /\ UNCHANGED manifest
                 /\ Calm /\ UNCHANGED <<disk, list, unit, backup, log>> /\ Rest
teardownStateFails == /\ run.pc \in {"t_manifest", "t_version"} /\ Fault /\ TeardownEnd(TRUE)
                      /\ UNCHANGED <<box, backup>> /\ Rest
\* The lists go last, so that a taking down that is cut short can be finished.
teardownReload == /\ run.pc = "t_reload"
                  /\ \/ Calm /\ list' = NoList /\ TeardownEnd(FALSE)
                     \/ Fault /\ UNCHANGED list /\ TeardownEnd(TRUE)
                  /\ UNCHANGED <<disk, manifest, version, unit, backup>> /\ Rest
\* The files of the new version that a half-done update left beside the lists.
Leftover(p) == /\ run.pc = "leftovers" /\ p \in run.todo
               /\ \/ /\ Calm
                     /\ run' = [run EXCEPT !.todo = @ \ {p}, !.bad = @ \/ holds(p, ListOf(backup.new)[p]) = "other"]
                     /\ disk' = IF IsNew(p) THEN [disk EXCEPT ![p] = None] ELSE disk
                  \/ Fault /\ run' = [run EXCEPT !.todo = @ \ {p}, !.bad = TRUE] /\ UNCHANGED disk
               /\ UNCHANGED <<list, manifest, version, unit, backup, log>> /\ Rest
LeftoversEnd == /\ run.pc = "leftovers" /\ run.todo = {} /\ End(IF run.bad THEN "failed" ELSE "ok")
                /\ UNCHANGED <<box, backup>> /\ Calm /\ Rest

-------------------------------------------------------------------------------
\* The process is killed, or the machine stops.
Kill == /\ run # NoRun /\ kills < MaxKills /\ kills' = kills + 1 /\ run' = NoRun
        /\ UNCHANGED <<box, backup, theirs, latest, log, was, runs, faults, edits>>
\* The owner changes or deletes a file, at any moment.
Edit(p, c) == /\ edits < MaxEdits /\ edits' = edits + 1 /\ disk[p] # c /\ disk' = [disk EXCEPT ![p] = c]
              /\ was' = [was EXCEPT !.edited = @ \cup {p}]
              /\ UNCHANGED <<list, manifest, version, unit, backup, theirs, latest, run, log, runs, kills, faults>>
\* The owner stops the unit of the module.
OwnerStops == /\ edits < MaxEdits /\ edits' = edits + 1 /\ unit.active /\ unit' = [unit EXCEPT !.active = FALSE]
              /\ UNCHANGED <<disk, list, manifest, version, backup, theirs, latest, run, log, was, runs, kills, faults>>
Release == /\ latest < Newest /\ latest' = latest + 1
           /\ UNCHANGED <<box, backup, theirs, run, log, was, count>>

\* One step of the process that holds the lock.
Step == \/ recoverUpdate \/ Admit \/ StepQuiet \/ Done
        \/ Unpack \/ (\E p \in Paths : Write(p)) \/ Record \/ stepVersion \/ stepManifest \/ stepStart
        \/ Stage \/ stepBackup \/ backupDone \/ stepStop \/ SwapPutDone \/ SwapState \/ SwapFails
        \/ \E p \in Paths : SwapPut(p) \/ SwapDelete(p) \/ putBack(p) \/ putBackRemove(p) \/ teardownFile(p) \/ Leftover(p)
        \/ removeBackup \/ readBackup \/ putBackDecide \/ putBackStop \/ putBackState \/ restoreUnits \/ settleUnits
        \/ teardownStop \/ teardownFilesEnd \/ teardownState \/ teardownStateFails \/ teardownReload \/ LeftoversEnd
Next == \/ Step \/ Kill \/ OwnerStops \/ Release
        \/ \E k \in {"install", "update", "remove"} : Begin(k)
        \/ \E p \in Paths, c \in {None, Other} : Edit(p, c)
\* The process goes on by itself: nothing in a run waits for anybody without a deadline.
Spec == Init /\ [][Next]_vars /\ WF_vars(Step)

-------------------------------------------------------------------------------
\* No half-made update is taken for an installed module: unless a complete backup
\* stands to undo it, the manifest and the version agree and no path of the
\* module holds another version's bytes, whatever was killed or failed before.
NotMixed == backup.mark # "complete" /\ manifest # None =>
            /\ version \in {manifest, None}
            /\ \A p \in DOMAIN FilesOf[manifest] : disk[p] \in {None, Other, FilesOf[manifest][p]}

\* No file of the module is forgotten: one with the bytes of a version is named by
\* the list, or by the backup that will take it away, or is of a path that
\* another module's list names. The one exception of the code is a remove that
\* went on beside a backup it could not put back (was.kept): it goes by the list
\* that is on the box, and clears what the new version left after the lists.
Accounted == was.kept \/ \A p \in Paths \ theirs : disk[p] \in Contents =>
                \/ disk[p] \in list[p]
                \/ backup.mark = "complete" /\ (disk[p] = backup.files[p] \/ IsNew(p))

\* What somebody else put at a path is neither replaced nor deleted by a run, save
\* at the paths that the run had already decided about when it was put there.
Spared == [][\A p \in Paths : disk[p] = Other /\ disk'[p] # Other =>
                edits' # edits \/ p \in run.puts \cup run.removes \/ (run.pc = "write" /\ run.mine[p] # {})]_vars

\* A run that says it was rolled back left the box as it found it: the lists, the
\* version, the unit that was running, and every file that nobody edited meanwhile.
RolledBack == [][log.result = "none" /\ log'.result = "rolled_back" /\ log.kind = "update" =>
                    /\ list' = was.list /\ version' = was.version /\ manifest' = was.version
                    /\ was.active => unit'.active \/ edits > 0
                    /\ \A p \in Paths \ was.edited : disk'[p] = was.disk[p]]_vars

\* An install or an update that says it is done left every file of its version and
\* named it in the list; an update left nothing else in the list.
OkIsWhole == [][log.result = "none" /\ log'.result = "ok" /\ log.kind # "remove" =>
                    /\ version' = manifest' /\ manifest' # None
                    /\ \A p \in DOMAIN FilesOf[manifest'] : list'[p] = {FilesOf[manifest'][p]}
                    /\ \A p \in DOMAIN FilesOf[manifest'] \ was.edited : disk'[p] = FilesOf[manifest'][p]
                    /\ log.kind = "update" => list' = ListOf(manifest')]_vars

\* Every run comes to its end.
RunEnds == run # NoRun ~> run = NoRun

\* The runs implement a module that changes its version at one instant.
Abstract == INSTANCE ModuleSpec WITH installed <- Installed, job <- run.kind, was <- was.installed,
                                     result <- log.result, Newest <- Newest
\* Every run, undoing and recovery of the assistant, killed anywhere, is a job of ModuleSpec: the
\* version on the box changes at one instant and the result says which (install.go, update.go, remove.go).
Implements == Abstract!Spec

\* Whatever was killed or failed before, the box is of one version and knows its files.
Coherent == NotMixed /\ Accounted

\* The result that a run writes is what it left on the box.
SaidIsSo == RolledBack /\ OkIsWhole
===============================================================================
