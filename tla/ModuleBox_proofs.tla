---------------------------- MODULE ModuleBox_proofs ----------------------------
(* Every run of the module assistant, its undoing and its recovery, killed        *)
(* anywhere, is a job of ModuleSpec, for any versions and files; what somebody     *)
(* else put at a path is spared; the files are of one version and known; and what  *)
(* a run says at its end is so.                                                    *)
(*                                                                                 *)
(* The version that ModuleSpec sees is that of the manifest, or of a complete      *)
(* backup while there is one.  A step of the code is then one of ModuleSpec        *)
(* because of what is on the disk when it is taken: RunFits says it, for every     *)
(* step of every kind of run, its undoing and its recovery.  Most steps write no   *)
(* more than one of the manifest, the version, the list and the backup, and are    *)
(* stutters; the instant of an update is the removal of its backup, that of an     *)
(* install the write of its manifest, that of a removal the loss of it.            *)
(*                                                                                 *)
(* The second part (FilesInv) says what each path holds at each of those steps,    *)
(* the third (TellInv) what of it the run found and what it has put there itself.  *)
EXTENDS ModuleBox, TLAPS

-------------------------------------------------------------------------------
(* Types. *)
Kinds == {"install", "update", "remove"}
ForePcs == {"recover", "admit"}
BackPcs == {"r_read", "r_decide", "r_stop", "r_put", "r_version", "r_list", "r_units", "r_start"}
EarlyPcs == {"packages", "download", "verify", "unpack"}
InstallPcs == EarlyPcs \cup {"write", "units", "manifest", "manifest2", "start", "route", "done"}
BeforeSwap == EarlyPcs \cup {"backup", "backup2"}
SwapPcs == {"stop", "swap", "swap_del", "s_manifest", "s_version", "units", "start", "route"}
DownPcs == {"t_stop", "t_files", "t_manifest", "t_version", "t_reload", "leftovers"}
Pcs == {"idle", "drop"} \cup ForePcs \cup BackPcs \cup InstallPcs \cup BeforeSwap \cup SwapPcs \cup DownPcs
Backs == {"none", "recover", "rollback", "admit", "done", "failed"}
Lists == [Paths -> SUBSET Contents]
Bytes == Contents \cup {None, Other}
UnitRec == [active : BOOLEAN, enabled : BOOLEAN]
RunRec == [kind : Kinds \cup {"none"}, pc : Pcs, back : Backs, target : 0 .. Newest, mine : Lists, written : Lists,
           begun : BOOLEAN, unpacked : BOOLEAN, backed : BOOLEAN, before : UnitRec,
           todo : SUBSET Paths, puts : SUBSET Paths, removes : SUBSET Paths, bad : BOOLEAN, stuck : BOOLEAN, left : BOOLEAN, kept : BOOLEAN]
BackupRec == [mark : {"none", "partial", "complete"}, files : [Paths -> Bytes], list : Lists,
              manifest : 0 .. Newest, version : 0 .. Newest, new : 0 .. Newest, unit : UnitRec]
Results == {"none", "ok", "refused", "rolled_back", "left", "incomplete", "failed"}
LogRec == [kind : Kinds \cup {"none"}, result : Results]
WasRec == [disk : [Paths -> Bytes], list : Lists, version : 0 .. Newest, installed : 0 .. Newest, active : BOOLEAN,
           edited : SUBSET Paths, kept : BOOLEAN]
BoxTypes == /\ disk \in [Paths -> Bytes] /\ list \in Lists /\ manifest \in 0 .. latest /\ version \in 0 .. latest
            /\ unit \in UnitRec /\ backup \in BackupRec /\ latest \in 1 .. Newest /\ run \in RunRec
            /\ log \in LogRec /\ was \in WasRec

-------------------------------------------------------------------------------
(* What is known of the version, by where the run is. *)
Complete == backup.mark = "complete"
\* A complete backup is of a whole version and of an update to a later one.
BackupWhole == Complete => /\ backup.version = backup.manifest /\ backup.version \in 1 .. latest /\ backup.list # NoList
                           /\ backup.new \in Versions
\* Without one, the manifest and the version agree.
Agreed == ~Complete /\ manifest # None => version \in {manifest, None}
\* A run has not said how it ended.
NotSaid == run = NoRun \/ (run.kind \in Kinds /\ run.pc # "idle" /\ log.result = "none")
J == was.installed
\* A run that has not begun its own work, or puts back what was, has the version that it found.
Same(o) == o.pc \in ForePcs \cup BackPcs \/ (o.pc = "drop" /\ o.back # "done") => Installed = J
Fore(o) == /\ o.pc \in ForePcs \/ (o.pc \in BackPcs \cup {"drop"} /\ o.back \in {"recover", "admit"}) => ~o.backed
           /\ o.pc = "admit" /\ Complete => o.kind = "remove" /\ (o.kept \/ ~modulePresent)
           /\ o.pc = "drop" /\ o.back = "admit" => manifest = None /\ o.kind # "remove" /\ ~modulePresent
\* A putting back, of a recovery or of an update that failed.
Restores(o) ==
    /\ o.pc \in BackPcs => /\ o.back \in {"recover", "rollback"} /\ modulePresent
                           /\ o.pc # "r_read" \/ o.back = "rollback" => Complete
    /\ o.pc \in BackPcs \cup {"drop"} /\ o.back = "rollback" => o.kind = "update"
    /\ o.pc \in {"r_version", "r_list", "r_units", "r_start"} /\ ~o.bad => manifest = backup.manifest
    /\ o.pc \in {"r_list", "r_units", "r_start"} /\ ~o.bad => version = backup.version
Drops(o) == o.pc = "drop" =>
    /\ o.back # "none"
    /\ o.back \in {"recover", "rollback"} /\ Complete => manifest = backup.version /\ version = backup.version
    /\ o.back = "failed" => o.kind = "update" /\ ~Complete
    /\ o.back = "done" => /\ o.kind = "update" /\ manifest = o.target /\ version = o.target /\ o.target > J
                          /\ Complete => backup.version = J
Installs(o) == o.kind = "install" /\ o.pc \in InstallPcs =>
    /\ ~Complete /\ J = None /\ o.target \in 1 .. latest
    /\ IF o.pc \in {"start", "route", "done"} THEN manifest = o.target ELSE manifest = None
    /\ o.pc \notin EarlyPcs => o.begun
    /\ o.pc \in {"manifest2", "start", "route", "done"} => version = o.target
Updates(o) == o.kind = "update" /\ o.pc \in BeforeSwap \cup SwapPcs =>
    /\ J \in 1 .. latest /\ o.target \in 1 .. latest /\ o.target > J /\ o.target \in Versions
    /\ o.pc \in BeforeSwap => ~Complete /\ ~o.backed /\ manifest = J /\ version = J /\ list # NoList
    /\ o.pc \in SwapPcs => Complete /\ o.backed /\ backup.version = J /\ manifest # None
    /\ o.pc \in {"s_version", "units", "start", "route"} => manifest = o.target
    /\ o.pc \in {"units", "start", "route"} => version = o.target
TakesDown(o) == o.pc \in DownPcs =>
    /\ o.kind = "install" => o.back = "rollback" /\ ~Complete /\ J = None /\ o.pc # "leftovers"
    /\ o.kind = "remove" => o.back = "none" /\ (Complete => o.kept)
    /\ o.kind \in {"install", "remove"}
    /\ o.pc \in {"t_version", "t_reload", "leftovers"} => manifest = None
    /\ o.pc \in {"t_reload", "leftovers"} => version = None
    /\ o.pc = "leftovers" => list = NoList
\* The steps of an install are no update's, and the other way round.
InKind(o) == /\ o.pc \in {"write", "manifest", "manifest2", "done"} => o.kind = "install"
             /\ o.pc \in {"backup", "backup2", "stop", "swap", "swap_del", "s_manifest", "s_version"} => o.kind = "update"
             /\ o.pc \in InstallPcs \cup BeforeSwap \cup SwapPcs => o.kind # "remove"
\* The files that are still to be put in place are of the version of the run.
TodoFits(o) == o.pc \in {"write", "swap"} => o.todo \subseteq DOMAIN FilesOf[o.target]
RunFits(o) == TodoFits(o) /\ Same(o) /\ Fore(o) /\ Restores(o) /\ Drops(o) /\ Installs(o) /\ Updates(o) /\ TakesDown(o) /\ InKind(o)
Fits == BackupWhole /\ Agreed /\ NotSaid /\ RunFits(run)
BoxInv == BoxTypes /\ Fits

-------------------------------------------------------------------------------
(* What the steps do to the job that ModuleSpec sees. *)
AbsNext == [Abstract!Next]_(Abstract!vars)
\* The run goes on at pc, for the same job.
Goes(pc, back) == /\ run' \in RunRec /\ run'.pc = pc /\ run'.back = back /\ run'.kind = run.kind /\ run'.target = run.target
                  /\ run'.begun = run.begun /\ run'.backed = run.backed /\ run'.kept = run.kept /\ run'.bad = run.bad
\* The state of the module and its backup stay as they are; nothing is said.
Stays == manifest' = manifest /\ version' = version /\ list' = list /\ backup' = backup
Silent == latest' = latest /\ was' = was /\ log' = log

\* A step that ModuleSpec does not see.
LEMMA StutterIs == ASSUME Installed' = Installed, latest' = latest, run'.kind = run.kind, was'.installed = was.installed, log'.result = log.result
                   PROVE  AbsNext
BY DEF AbsNext, Abstract!vars

\* A step that ends the job.
LEMMA EndIs == ASSUME NEW r \in Results, run.kind \in Kinds, run'.kind = "none", log'.result = r, Installed' = Installed, latest' = latest,
                      was'.installed = was.installed, r \in {"refused", "rolled_back"} => Installed = J,
                      r = "ok" => IF run.kind = "remove" THEN Installed = 0 ELSE Installed > J
               PROVE  AbsNext
<1>1. Abstract!End(r) BY DEF Abstract!End, Kinds, J
<1> QED BY <1>1 DEF AbsNext, Abstract!Next, Results

\* A step that takes effect, or takes an install back.
LEMMA CommitIs == ASSUME latest' = latest, run'.kind = run.kind, was'.installed = was.installed, log'.result = log.result,
                         \/ run.kind = "install" /\ Installed = 0 /\ Installed' \in 1 .. latest
                         \/ run.kind = "update" /\ Installed = J /\ Installed' \in J + 1 .. latest
                         \/ run.kind = "remove" /\ Installed' = 0
                         \/ run.kind = "install" /\ J = 0 /\ Installed' = 0
                  PROVE  AbsNext
<1>1. CASE Installed' = Installed BY <1>1, StutterIs
<1>2. CASE Installed' # Installed /\ run.kind = "install" /\ J = 0 /\ Installed' = 0
  BY <1>2 DEF AbsNext, Abstract!Next, Abstract!Undo, J
<1>3. CASE \/ run.kind = "install" /\ Installed = 0 /\ Installed' \in 1 .. latest
           \/ run.kind = "update" /\ Installed = J /\ Installed' \in J + 1 .. latest
           \/ run.kind = "remove" /\ Installed' = 0
  <2>1. Abstract!Commit BY <1>3 DEF Abstract!Commit, J
  <2> QED BY <2>1 DEF AbsNext, Abstract!Next
<1> QED BY <1>1, <1>2, <1>3

\* The list of a version, and the lists made of lists.
LEMMA ListsOf == ASSUME NEW v \in Versions PROVE ListOf(v) \in Lists /\ DOMAIN FilesOf[v] \subseteq Paths /\ \A p \in DOMAIN FilesOf[v] : FilesOf[v][p] \in Bytes
BY BoxAssumption DEF ListOf, Lists, Has, Contents, Bytes

\* What is kept of a list, what is planned and what was written are lists again.
LEMMA ListsMade == ASSUME NEW l \in Lists, NEW m \in Lists, NEW v \in Versions
                   PROVE  stillTheirs(l) \in Lists /\ plannedEntries(v, l) \in Lists /\ writtenEntries(l, m) \in Lists
<1>1. ListOf(v) \in Lists BY ListsOf
<1> QED BY <1>1 DEF stillTheirs, plannedEntries, writtenEntries, Lists

\* The versions are the numbers from one to the newest.
LEMMA Numbers == Newest \in Nat /\ Newest > 0 /\ Versions = 1 .. Newest
BY BoxAssumption
\* Nothing, as a list, a backup and a run.
LEMMA NothingIs == NoList \in Lists /\ NoBackup \in BackupRec /\ NoRun \in RunRec
<1>1. NoList \in Lists BY DEF NoList, Lists
<1>2. NoBackup \in BackupRec BY <1>1, Numbers DEF NoBackup, BackupRec, UnitRec, Bytes, None
<1>3. NoRun \in RunRec BY <1>1, Numbers DEF NoRun, RunRec, UnitRec, Pcs, Backs, None
<1> QED BY <1>1, <1>2, <1>3

\* The record of no run.
LEMMA NoRunIs == NoRun.kind = "none" /\ NoRun.pc = "idle" /\ ~NoRun.backed /\ NoRun.back = "none"
BY DEF NoRun

-------------------------------------------------------------------------------
(* The steps of a run. *)
USE DEF ForePcs, BackPcs, InstallPcs, EarlyPcs, BeforeSwap, SwapPcs, DownPcs

\* Where a run is, it is at work and has not said how it ended.
LEMMA AtWork == ASSUME BoxInv, run.pc # "idle" PROVE run # NoRun /\ run.kind \in Kinds /\ log.result = "none" /\ run \in RunRec
BY NoRunIs DEF BoxInv, BoxTypes, Fits, NotSaid

\* A run goes on at another place, with nothing else changed that matters here.
LEMMA GoesTo == ASSUME run \in RunRec, NEW a \in Pcs, NEW b \in Backs, run' = [run EXCEPT !.pc = a, !.back = b] PROVE Goes(a, b)
BY DEF Goes, RunRec

\* Going to a step changes the step and leaves the reason to restore.
LEMMA GotoGoes == ASSUME run \in RunRec, NEW a \in Pcs, Goto(a) PROVE Goes(a, run.back)
BY DEF Goes, RunRec, Goto

\* A run that ends is over, and nothing is claimed of it.
LEMMA OverFits == ASSUME run' = NoRun, BackupWhole', Agreed' PROVE Fits'
<1>1. run'.pc = "idle" BY NoRunIs
<1> QED BY <1>1 DEF Fits, NotSaid, RunFits, TodoFits, Same, Fore, Restores, Drops, Installs, Updates, TakesDown, InKind

\* The run ends and says r; the version is what it was.
LEMMA EndKeeps == ASSUME BoxInv, run.pc # "idle", NEW r \in Results, End(r), latest' = latest, was' = was, BackupWhole', Agreed', Installed' = Installed,
                         r \in {"refused", "rolled_back"} => Installed = J,
                         r = "ok" => IF run.kind = "remove" THEN Installed = 0 ELSE Installed > J
                  PROVE  Fits' /\ AbsNext /\ run' \in RunRec /\ log' \in LogRec
<1>1. run.kind \in Kinds BY AtWork
<1>2. run' = NoRun /\ run'.kind = "none" BY NoRunIs DEF End
<1>3. log' \in LogRec /\ log'.result = r BY DEF End, BoxInv, BoxTypes, LogRec
<1>4. AbsNext BY <1>1, <1>2, <1>3, EndIs
<1> QED BY <1>2, <1>3, <1>4, OverFits, NothingIs

\* The first look at what an earlier run left.
LEMMA recoverUpdateKeeps == ASSUME BoxInv, recoverUpdate PROVE BoxInv' /\ AbsNext
<1>1. Stays /\ Silent /\ disk' = disk /\ unit' = unit BY DEF recoverUpdate, Stays, Silent, Rest, box
<1>2. run.pc = "recover" BY DEF recoverUpdate
<1>3. run \in RunRec /\ run.kind \in Kinds /\ log.result = "none" BY <1>2, AtWork
<1>4. PICK a : a = IF backup.mark = "none" \/ (~modulePresent /\ run.kind = "remove") THEN "admit"
                   ELSE IF ~modulePresent THEN "drop" ELSE "r_read" OBVIOUS
<1>5. PICK b : b = IF modulePresent THEN "recover" ELSE "admit" OBVIOUS
<1>6. Goes(a, b) BY <1>3, <1>4, <1>5, GoesTo DEF recoverUpdate, Pcs, Backs
<1>7. BoxTypes' BY <1>1, <1>6 DEF Stays, Silent, Goes, BoxInv, BoxTypes
<1>8. Fits' BY <1>1, <1>2, <1>3, <1>4, <1>5, <1>6 DEF BoxInv, Fits, BackupWhole, Agreed, NotSaid, RunFits, TodoFits, Same, Fore, Restores, Drops,
      Installs, Updates, TakesDown, InKind, Complete, J, Installed, modulePresent, Goes, Stays, Silent
<1>9. AbsNext BY <1>1, <1>6, StutterIs DEF Stays, Silent, Goes, Installed, modulePresent
<1> QED BY <1>7, <1>8, <1>9 DEF BoxInv

\* The look at the box under the lock.
LEMMA AdmitKeeps == ASSUME BoxInv, Admit PROVE BoxInv' /\ AbsNext
<1>1. Stays /\ latest' = latest /\ disk' = disk /\ unit' = unit BY DEF Admit, Stays, box
<1>2. run.pc = "admit" BY DEF Admit
<1>3. run \in RunRec /\ run.kind \in Kinds /\ log.result = "none" BY <1>2, AtWork
<1>4. Installed' = Installed /\ BackupWhole' /\ Agreed' BY <1>1 DEF Stays, Installed, modulePresent, BoxInv, Fits, BackupWhole, Agreed, Complete
<1>5. Installed = J BY <1>2 DEF BoxInv, Fits, RunFits, Same
<1>6. CASE End("refused") /\ was' = was
  <2>1. Fits' /\ AbsNext /\ run' \in RunRec /\ log' \in LogRec BY <1>1, <1>2, <1>4, <1>5, <1>6, EndKeeps DEF Results
  <2> QED BY <1>1, <1>6, <2>1 DEF Stays, BoxInv, BoxTypes
<1>7. CASE /\ IF run.kind = "remove" THEN ~removeRefusal ELSE ~planRefusal
           /\ run' = [run EXCEPT !.pc = IF run.kind = "remove" THEN "t_stop" ELSE "packages",
                                 !.back = "none", !.target = latest, !.bad = FALSE, !.left = FALSE]
           /\ was' = [was EXCEPT !.disk = disk, !.list = list, !.version = version, !.active = unit.active, !.edited = {},
                                 !.kept = @ \/ run.kept]
           /\ UNCHANGED log
  <2>1. latest \in 1 .. Newest /\ latest \in 0 .. Newest /\ version \in 0 .. Newest BY Numbers DEF BoxInv, BoxTypes
  <2> PICK a : a = IF run.kind = "remove" THEN "t_stop" ELSE "packages" OBVIOUS
  <2>0. a \in Pcs BY DEF Pcs
  <2>2. /\ run' \in RunRec /\ run'.kind = run.kind /\ run'.pc = a
        /\ run'.back = "none" /\ run'.target = latest /\ run'.backed = run.backed /\ run'.kept = run.kept
    <3>1. run' = [run EXCEPT !.pc = a, !.back = "none", !.target = latest, !.bad = FALSE, !.left = FALSE] BY <1>7
    <3> QED BY <1>3, <2>0, <2>1, <3>1 DEF RunRec, Backs
  <2>3. was' \in WasRec /\ was'.installed = was.installed
    BY <1>3, <1>7, <2>1 DEF BoxInv, BoxTypes, WasRec, UnitRec, RunRec
  <2>4. BoxTypes' BY <1>1, <1>7, <2>2, <2>3 DEF Stays, BoxInv, BoxTypes
  <2>5. Fits'
    <3>1. CASE run.kind = "remove"
      BY <1>1, <1>2, <1>3, <1>4, <1>5, <1>7, <2>2, <2>3, <3>1 DEF removeRefusal, BoxInv, Fits, BackupWhole, Agreed, NotSaid, RunFits, TodoFits, Same, Fore, Restores, Drops,
            Installs, Updates, TakesDown, InKind, Complete, J, Installed, modulePresent, Goes, Stays, Silent
    <3>2. CASE run.kind = "install"
      <4>1. ~Complete /\ manifest = None /\ J = None /\ a = "packages"
        BY <1>2, <1>5, <1>7, <3>2 DEF planRefusal, Installed, Complete, BoxInv, Fits, RunFits, Fore
      <4> QED BY <1>1, <1>2, <1>3, <1>4, <1>7, <2>1, <2>2, <2>3, <3>2, <4>1 DEF BoxInv, Fits, BackupWhole, Agreed, NotSaid, RunFits, TodoFits, Same, Fore, Restores, Drops,
            Installs, Updates, TakesDown, InKind, Complete, J, Installed, modulePresent, Goes, Stays, Silent
    <3>3. CASE run.kind = "update"
      <4>1. ~Complete /\ manifest # None /\ list # NoList /\ version # None /\ ~(version >= latest) /\ a = "packages"
        BY <1>2, <1>7, <3>3 DEF planRefusal, BoxInv, Fits, RunFits, Fore
      <4>2. J = manifest /\ version = manifest BY <1>5, <4>1 DEF Installed, Complete, BoxInv, Fits, Agreed
      <4>3. J \in 1 .. latest /\ latest > J /\ latest \in Versions BY <2>1, <4>1, <4>2, Numbers DEF BoxInv, BoxTypes, None
      <4>4. ~run.backed BY <1>2 DEF BoxInv, Fits, RunFits, Fore
      <4> HIDE DEF Versions
      <4> QED BY <1>1, <1>2, <1>3, <1>4, <1>7, <2>1, <2>2, <2>3, <3>3, <4>1, <4>2, <4>3, <4>4 DEF BoxInv, Fits, BackupWhole, Agreed, NotSaid, RunFits, TodoFits, Same, Fore, Restores, Drops,
            Installs, Updates, TakesDown, InKind, Complete, J, Installed, modulePresent, Goes, Stays, Silent
    <3> QED BY <1>3, <3>1, <3>2, <3>3 DEF Kinds
  <2>6. AbsNext BY <1>1, <1>4, <1>7, <2>2, <2>3, StutterIs
  <2> QED BY <2>4, <2>5, <2>6 DEF BoxInv
<1> QED BY <1>6, <1>7 DEF Admit

\* A step of an install or of an update failed: the run turns to its undoing, or is over.
LEMMA failedKeeps ==
    ASSUME BoxInv, NEW r \in RunRec, failed(r), r.kind = run.kind, r.backed = run.backed, run.begun => r.begun,
           run.pc \in InstallPcs \cup BeforeSwap \cup SwapPcs, list' = list \/ run.kind = "install",
           manifest' = manifest, version' = version, backup' = backup, latest' = latest, was' = was
    PROVE  Fits' /\ AbsNext /\ run' \in RunRec /\ log' \in LogRec
<1>1. run \in RunRec /\ run.kind \in {"install", "update"} /\ log.result = "none"
  <2>1. run.kind # "remove" BY DEF BoxInv, Fits, RunFits, InKind
  <2> QED BY <2>1, AtWork DEF Kinds
<1>2. log \in LogRec /\ BackupWhole' /\ Agreed' BY DEF BoxInv, BoxTypes, Fits, BackupWhole, Agreed, Complete
<1>3. CASE run.kind = "install"
  <2>1. ~Complete /\ J = None BY <1>3 DEF BoxInv, Fits, RunFits, Installs, InKind
  <2>2. Installed' = Installed /\ Installed = manifest BY <2>1 DEF Installed, Complete
  <2>3. CASE r.begun
    <3>1. run' = [r EXCEPT !.pc = "t_stop", !.back = "rollback"] /\ log' = log BY <1>3, <2>3 DEF failed
    <3>2. run' \in RunRec /\ run'.pc = "t_stop" /\ run'.back = "rollback" /\ run'.kind = "install"
      BY <1>3, <3>1 DEF RunRec, Pcs, Backs
    <3>3. AbsNext BY <1>3, <2>2, <3>1, <3>2, StutterIs
    <3>4. Fits' BY <1>1, <1>2, <1>3, <2>1, <2>2, <3>1, <3>2 DEF Kinds, Fits, NotSaid, RunFits, TodoFits, Same, Fore, Restores, Drops, Installs, Updates, TakesDown, InKind,
          Complete, J, Installed, modulePresent, Goes, Stays, Silent
    <3> QED BY <1>2, <3>1, <3>2, <3>3, <3>4
  <2>4. CASE ~r.begun
    <3>1. End("rolled_back") BY <1>3, <2>4 DEF failed
    <3>2. manifest = None BY <1>3, <2>4 DEF BoxInv, Fits, RunFits, Installs, InKind
    <3> QED BY <1>1, <1>2, <2>1, <2>2, <3>1, <3>2, EndKeeps DEF Results
  <2> QED BY <2>3, <2>4
<1>4. CASE run.kind = "update"
  <2>1. Installed' = Installed BY <1>4 DEF Installed, modulePresent
  <2>2. CASE r.backed
    <3>1. run' = [r EXCEPT !.pc = "r_read", !.back = "rollback"] /\ log' = log BY <1>4, <2>2 DEF failed
    <3>2. run' \in RunRec /\ run'.pc = "r_read" /\ run'.back = "rollback" /\ run'.kind = "update"
      BY <1>4, <3>1 DEF RunRec, Pcs, Backs
    <3>3. Complete /\ backup.version = J /\ modulePresent BY <1>4, <2>2 DEF BoxInv, Fits, RunFits, Updates, InKind, modulePresent
    <3>4. AbsNext BY <1>4, <2>1, <3>1, <3>2, StutterIs
    <3>5. Fits' BY <1>1, <1>2, <1>4, <2>1, <3>1, <3>2, <3>3 DEF Kinds, Fits, NotSaid, RunFits, TodoFits, Same, Fore, Restores, Drops, Installs, Updates, TakesDown, InKind,
          Complete, J, Installed, modulePresent, Goes, Stays, Silent
    <3> QED BY <1>2, <3>1, <3>2, <3>4, <3>5
  <2>3. CASE ~r.backed
    <3>1. run' = [r EXCEPT !.pc = "drop", !.back = "failed"] /\ log' = log BY <1>4, <2>3 DEF failed
    <3>2. run' \in RunRec /\ run'.pc = "drop" /\ run'.back = "failed" /\ run'.kind = "update"
      BY <1>4, <3>1 DEF RunRec, Pcs, Backs
    <3>3. ~Complete /\ manifest = J BY <1>4, <2>3 DEF BoxInv, Fits, RunFits, Updates, InKind
    <3>4. AbsNext BY <1>4, <2>1, <3>1, <3>2, StutterIs
    <3>5. Fits' BY <1>1, <1>2, <1>4, <2>1, <3>1, <3>2, <3>3 DEF Kinds, Fits, NotSaid, RunFits, TodoFits, Same, Fore, Restores, Drops, Installs, Updates, TakesDown, InKind,
          Complete, J, Installed, modulePresent, Goes, Stays, Silent
    <3> QED BY <1>2, <3>1, <3>2, <3>4, <3>5
  <2> QED BY <2>2, <2>3
<1> QED BY <1>1, <1>3, <1>4

\* The order of the steps.
LEMMA InstallOrder == ASSUME run.kind = "install"
                      PROVE  /\ NextStep("packages") = "download" /\ NextStep("download") = "verify" /\ NextStep("verify") = "unpack"
                             /\ NextStep("unpack") = "units" /\ NextStep("units") = "manifest" /\ NextStep("start") = "route" /\ NextStep("route") = "done"
<1>1. /\ After("packages") = "download" /\ After("download") = "verify" /\ After("verify") = "unpack" /\ After("unpack") = "units"
      /\ After("units") = "manifest" /\ After("start") = "route" /\ After("route") = "done"
  BY DEF After, InstallSteps
<1> QED BY <1>1 DEF NextStep

\* The order of the steps of an update.
LEMMA UpdateOrder == ASSUME run.kind = "update"
                     PROVE  /\ NextStep("packages") = "download" /\ NextStep("download") = "verify" /\ NextStep("verify") = "unpack"
                            /\ NextStep("backup") = "stop" /\ NextStep("swap") = "units" /\ NextStep("units") \in {"start", "drop"}
                            /\ NextStep("start") \in {"route", "drop"} /\ NextStep("route") = "drop"
<1>1. /\ After("packages") = "download" /\ After("download") = "verify" /\ After("verify") = "unpack" /\ After("backup") = "stop"
      /\ After("swap") = "units" /\ After("units") = "start" /\ After("start") = "route" /\ After("route") = "drop"
  BY DEF After, UpdateSteps
<1> QED BY <1>1 DEF NextStep

\* The next step of an install or of an update.
LEMMA AdvanceGoes == ASSUME run \in RunRec, NEW pc, Advance(pc), NEW a \in Pcs, NextStep(pc) = a
                     PROVE  Goes(a, IF a = "drop" THEN "done" ELSE run.back)
<1> PICK b : b = IF a = "drop" THEN "done" ELSE run.back OBVIOUS
<1>1. b \in Backs BY DEF RunRec, Backs
<1>2. run' = [run EXCEPT !.pc = a, !.back = b] BY DEF Advance
<1> QED BY <1>1, <1>2, GoesTo

\* A step that only goes on, once what its place needs is so.
LEMMA AdvanceKeeps ==
    ASSUME BoxInv, NEW pc, Advance(pc), pc \in {"packages", "download", "verify", "units", "start", "route"}, run.pc = pc, Stays, Silent
    PROVE  Fits' /\ AbsNext /\ run' \in RunRec
<1>1. run \in RunRec /\ run.kind \in {"install", "update"} /\ log.result = "none"
  <2>1. run.kind # "remove" BY DEF BoxInv, Fits, RunFits, InKind
  <2> QED BY <2>1, AtWork DEF Kinds
<1>2. BackupWhole' /\ Agreed' /\ Installed' = Installed
  BY DEF BoxInv, Fits, BackupWhole, Agreed, Complete, Installed, modulePresent, Stays, Silent
<1> PICK a : a = NextStep(pc) OBVIOUS
<1>3. CASE run.kind = "install"
  <2>1. a = CASE pc = "packages" -> "download" [] pc = "download" -> "verify" [] pc = "verify" -> "unpack"
              [] pc = "units" -> "manifest" [] pc = "start" -> "route" [] pc = "route" -> "done"
    BY <1>3, InstallOrder
  <2>2. Goes(a, run.back) /\ a # "drop" BY <1>1, <2>1, AdvanceGoes DEF Pcs
  <2>3. Installs(run) BY DEF BoxInv, Fits, RunFits
  <2>4. Fits' BY <1>1, <1>2, <1>3, <2>1, <2>2, <2>3 DEF Kinds, Fits, NotSaid, RunFits, TodoFits, Same, Fore, Restores, Drops, Installs, Updates, TakesDown, InKind,
        Complete, J, Installed, modulePresent, Goes, Stays, Silent
  <2> QED BY <1>2, <2>2, <2>4, StutterIs DEF Goes, Silent
<1>4. CASE run.kind = "update"
  <2>1. \/ pc = "packages" /\ a = "download"
        \/ pc = "download" /\ a = "verify"
        \/ pc = "verify" /\ a = "unpack"
        \/ pc = "units" /\ a \in {"start", "drop"}
        \/ pc = "start" /\ a \in {"route", "drop"}
        \/ pc = "route" /\ a = "drop"
    BY <1>4, UpdateOrder
  <2>2. Goes(a, IF a = "drop" THEN "done" ELSE run.back) BY <1>1, <2>1, AdvanceGoes DEF Pcs
  <2>3. Updates(run) BY DEF BoxInv, Fits, RunFits
  <2>4. Fits' BY <1>1, <1>2, <1>4, <2>1, <2>2, <2>3 DEF Kinds, Fits, NotSaid, RunFits, TodoFits, Same, Fore, Restores, Drops, Installs, Updates, TakesDown, InKind,
        Complete, J, Installed, modulePresent, Goes, Stays, Silent
  <2> QED BY <1>2, <2>2, <2>4, StutterIs DEF Goes, Silent
<1> QED BY <1>1, <1>3, <1>4

\* The steps that change nothing of the box.
LEMMA StepQuietKeeps == ASSUME BoxInv, StepQuiet PROVE BoxInv' /\ AbsNext
<1>1. Stays /\ latest' = latest /\ was' = was /\ disk' = disk /\ unit' = unit BY DEF StepQuiet, Stays, Rest, box
<1>2. run.pc \in {"packages", "download", "verify", "units", "route"} /\ run \in RunRec BY DEF StepQuiet, BoxInv, BoxTypes
<1>3. Fits' /\ AbsNext /\ run' \in RunRec /\ log' \in LogRec
  <2>1. CASE Advance(run.pc) /\ log' = log
    <3> PICK pc : pc = run.pc OBVIOUS
    <3>1. Advance(pc) BY <2>1
    <3>2. log \in LogRec BY DEF BoxInv, BoxTypes
    <3> QED BY <1>1, <1>2, <2>1, <3>1, <3>2, AdvanceKeeps DEF Silent
  <2>2. CASE failed(run) 
    <3> PICK r : r = run OBVIOUS
    <3> QED BY <1>1, <1>2, <2>2, failedKeeps DEF Stays
  <2> QED BY <2>1, <2>2 DEF StepQuiet
<1> QED BY <1>1, <1>3 DEF Stays, BoxInv, BoxTypes

\* An install that is done.
LEMMA DoneKeeps == ASSUME BoxInv, Done PROVE BoxInv' /\ AbsNext
<1>1. Stays /\ latest' = latest /\ was' = was /\ disk' = disk /\ unit' = unit /\ run.pc = "done" /\ End("ok") BY DEF Done, Stays, Rest, box
<1>2. Installed' = Installed /\ BackupWhole' /\ Agreed'
  BY <1>1 DEF BoxInv, Fits, BackupWhole, Agreed, Complete, Installed, modulePresent, Stays
<1>3. run.kind = "install" /\ ~Complete /\ manifest = run.target /\ run.target \in 1 .. latest /\ J = None
  BY <1>1 DEF BoxInv, Fits, RunFits, Installs, InKind
<1>4. Installed > J BY <1>3 DEF Installed, Complete, None
<1>5. Fits' /\ AbsNext /\ run' \in RunRec /\ log' \in LogRec BY <1>1, <1>2, <1>3, <1>4, EndKeeps DEF Results
<1> QED BY <1>1, <1>5 DEF Stays, BoxInv, BoxTypes

-------------------------------------------------------------------------------
(* The steps of an install. *)
\* An install at work: nothing was installed, and what it installs is of the catalogue.
LEMMA AtInstall == ASSUME BoxInv, run.kind = "install", run.pc \in InstallPcs
                   PROVE  /\ Installs(run) /\ ~Complete /\ J = None /\ run.target \in 1 .. latest /\ run.target \in Versions /\ run \in RunRec
                          /\ log.result = "none" /\ Installed = manifest
<1>1. run.pc # "idle" OBVIOUS
<1>2. Installs(run) BY DEF BoxInv, Fits, RunFits
<1>3. ~Complete /\ J = None /\ run.target \in 1 .. latest BY <1>2 DEF Installs
<1>4. run.target \in Versions BY <1>3, Numbers DEF BoxInv, BoxTypes
<1> QED BY <1>1, <1>2, <1>3, <1>4, AtWork DEF Installed, Complete

\* What was unpacked before is looked at, and what is to be written is recorded.
LEMMA UnpackKeeps == ASSUME BoxInv, Unpack PROVE BoxInv' /\ AbsNext
<1>1. /\ disk' = disk /\ manifest' = manifest /\ version' = version /\ unit' = unit /\ backup' = backup
      /\ latest' = latest /\ was' = was /\ run.pc = "unpack" /\ run.kind = "install" BY DEF Unpack, Rest
<1>2. /\ Installs(run) /\ ~Complete /\ J = None /\ run.target \in 1 .. latest /\ run.target \in Versions /\ run \in RunRec
      /\ log.result = "none" /\ Installed = manifest BY <1>1, AtInstall
<1>3. BackupWhole' /\ Agreed' /\ ~Complete' /\ Installed' = Installed
  BY <1>1, <1>2 DEF BoxInv, Fits, BackupWhole, Agreed, Complete, Installed
<1> PICK mine : mine = stillTheirs(list) OBVIOUS
<1>4. list \in Lists /\ log \in LogRec BY DEF BoxInv, BoxTypes
<1>5. mine \in Lists /\ plannedEntries(run.target, mine) \in Lists
  <2>1. mine \in Lists BY <1>2, <1>4, ListsMade
  <2> QED BY <1>2, <2>1, ListsMade
<1>6. Fits' /\ AbsNext /\ run' \in RunRec /\ log' \in LogRec /\ list' \in Lists
  <2>1. CASE list' = mine /\ failed([run EXCEPT !.begun = TRUE, !.unpacked = TRUE, !.written = mine])
    <3> PICK r : r = [run EXCEPT !.begun = TRUE, !.unpacked = TRUE, !.written = mine] OBVIOUS
    <3>1. r \in RunRec /\ r.kind = run.kind /\ r.backed = run.backed /\ r.begun BY <1>2, <1>5 DEF RunRec
    <3>2. failed(r) BY <2>1
    <3> QED BY <1>1, <1>5, <2>1, <3>1, <3>2, failedKeeps
  <2>2. CASE /\ list' = plannedEntries(run.target, mine) /\ log' = log
             /\ run' = [run EXCEPT !.pc = "write", !.begun = TRUE, !.mine = mine, !.todo = DOMAIN FilesOf[run.target]]
    <3>1. DOMAIN FilesOf[run.target] \subseteq Paths BY <1>2, ListsOf
    <3>2. /\ run' \in RunRec /\ run'.pc = "write" /\ run'.begun /\ run'.kind = run.kind /\ run'.target = run.target
          /\ run'.todo = DOMAIN FilesOf[run'.target]
      BY <1>2, <1>5, <2>2, <3>1, ZenonT(60) DEF RunRec, Pcs
    <3>3. Fits' BY <1>1, <1>2, <1>3, <2>2, <3>2 DEF Kinds, Fits, NotSaid, RunFits, TodoFits, Same, Fore, Restores, Drops, Installs, Updates, TakesDown, InKind,
          Complete, J, Installed, modulePresent, Goes, Stays, Silent
    <3> QED BY <1>1, <1>3, <1>4, <1>5, <2>2, <3>2, <3>3, StutterIs
  <2> QED BY <2>1, <2>2 DEF Unpack
<1> QED BY <1>1, <1>6 DEF BoxInv, BoxTypes

\* A file of the archive is put at its path.
LEMMA WriteKeeps == ASSUME BoxInv, NEW p \in Paths, Write(p) PROVE BoxInv' /\ AbsNext
<1>1. /\ manifest' = manifest /\ version' = version /\ unit' = unit /\ backup' = backup
      /\ latest' = latest /\ was' = was /\ run.pc = "write" /\ p \in run.todo BY DEF Write, Rest
<1>2. run.kind = "install" BY <1>1 DEF BoxInv, Fits, RunFits, InKind
<1>3. /\ Installs(run) /\ ~Complete /\ J = None /\ run.target \in 1 .. latest /\ run.target \in Versions /\ run \in RunRec
      /\ log.result = "none" /\ Installed = manifest BY <1>1, <1>2, AtInstall
<1>4. BackupWhole' /\ Agreed' /\ ~Complete' /\ Installed' = Installed
  BY <1>1, <1>3 DEF BoxInv, Fits, BackupWhole, Agreed, Complete, Installed
<1>5. list \in Lists /\ log \in LogRec /\ disk \in [Paths -> Bytes] BY DEF BoxInv, BoxTypes
<1>6. run.todo \subseteq DOMAIN FilesOf[run.target] BY <1>1 DEF BoxInv, Fits, RunFits, TodoFits
<1>7. Fits' /\ AbsNext /\ run' \in RunRec /\ log' \in LogRec /\ list' \in Lists /\ disk' \in [Paths -> Bytes]
  <2>1. CASE /\ disk' = [disk EXCEPT ![p] = FilesOf[run.target][p]]
             /\ run' = [run EXCEPT !.todo = @ \ {p}, !.written[p] = ListOf(run.target)[p]]
             /\ list' = list /\ log' = log
    <3>1. ListOf(run.target) \in Lists /\ FilesOf[run.target][p] \in Bytes BY <1>1, <1>3, <1>6, ListsOf
    <3>2. /\ run' \in RunRec /\ run'.pc = "write" /\ run'.begun = run.begun /\ run'.kind = run.kind /\ run'.target = run.target
          /\ run'.todo \subseteq run.todo
      BY <1>1, <1>3, <2>1, <3>1 DEF RunRec, Lists
    <3>3. Fits' BY <1>1, <1>2, <1>3, <1>4, <1>6, <2>1, <3>2 DEF Kinds, Fits, NotSaid, RunFits, TodoFits, Same, Fore, Restores, Drops, Installs, Updates, TakesDown, InKind,
          Complete, J, Installed, modulePresent, Goes, Stays, Silent
    <3> QED BY <1>1, <1>4, <1>5, <2>1, <3>1, <3>2, <3>3, StutterIs
  <2>2. CASE /\ list' = writtenEntries(run.mine, run.written) /\ disk' = disk
             /\ failed([run EXCEPT !.unpacked = TRUE, !.written = writtenEntries(run.mine, run.written)])
    <3> PICK r : r = [run EXCEPT !.unpacked = TRUE, !.written = writtenEntries(run.mine, run.written)] OBVIOUS
    <3>1. writtenEntries(run.mine, run.written) \in Lists BY <1>3, ListsMade DEF RunRec
    <3>2. r \in RunRec /\ r.kind = run.kind /\ r.backed = run.backed /\ r.begun = run.begun BY <1>3, <3>1 DEF RunRec
    <3>3. failed(r) BY <2>2
    <3> QED BY <1>1, <1>2, <1>5, <2>2, <3>1, <3>2, <3>3, failedKeeps
  <2> QED BY <2>1, <2>2 DEF Write
<1> QED BY <1>1, <1>7 DEF BoxInv, BoxTypes

\* A run whose place alone is another.
LEMMA PlaceOnly == ASSUME NEW q \in RunRec, NEW a \in Pcs
                   PROVE  /\ [q EXCEPT !.pc = a] \in RunRec /\ [q EXCEPT !.pc = a].pc = a /\ [q EXCEPT !.pc = a].kind = q.kind
                          /\ [q EXCEPT !.pc = a].target = q.target /\ [q EXCEPT !.pc = a].begun = q.begun
BY DEF RunRec

\* The list of what was written.
LEMMA RecordKeeps == ASSUME BoxInv, Record PROVE BoxInv' /\ AbsNext
<1>1. /\ manifest' = manifest /\ version' = version /\ unit' = unit /\ backup' = backup /\ disk' = disk
      /\ latest' = latest /\ was' = was /\ run.pc = "write" BY DEF Record, Rest
<1>2. run.kind = "install" BY <1>1 DEF BoxInv, Fits, RunFits, InKind
<1>3. /\ Installs(run) /\ ~Complete /\ J = None /\ run.target \in 1 .. latest /\ run.target \in Versions /\ run \in RunRec
      /\ log.result = "none" /\ Installed = manifest BY <1>1, <1>2, AtInstall
<1>4. BackupWhole' /\ Agreed' /\ ~Complete' /\ Installed' = Installed
  BY <1>1, <1>3 DEF BoxInv, Fits, BackupWhole, Agreed, Complete, Installed
<1>5. list \in Lists /\ log \in LogRec BY DEF BoxInv, BoxTypes
<1> PICK l : l = writtenEntries(run.mine, run.written) OBVIOUS
<1> PICK r : r = [run EXCEPT !.unpacked = TRUE, !.written = l] OBVIOUS
<1>6. l \in Lists BY <1>3, ListsMade DEF RunRec
<1>7. r \in RunRec /\ r.kind = run.kind /\ r.backed = run.backed /\ r.begun = run.begun /\ r.target = run.target BY <1>3, <1>6 DEF RunRec
<1>8. Fits' /\ AbsNext /\ run' \in RunRec /\ log' \in LogRec /\ list' \in Lists
  <2>1. CASE list' = l /\ run' = [r EXCEPT !.pc = NextStep("unpack")] /\ log' = log
    <3>1. run' = [r EXCEPT !.pc = "units"] BY <1>2, <2>1, InstallOrder
    <3>2. run' \in RunRec /\ run'.pc = "units" /\ run'.kind = run.kind /\ run'.target = run.target /\ run'.begun = run.begun
      <4>1. "units" \in Pcs BY DEF Pcs
      <4> QED BY <1>7, <3>1, <4>1, PlaceOnly
    <3>3. Fits' BY <1>1, <1>2, <1>3, <1>4, <2>1, <3>2 DEF Kinds, Fits, NotSaid, RunFits, TodoFits, Same, Fore, Restores, Drops, Installs, Updates, TakesDown, InKind,
          Complete, J, Installed, modulePresent, Goes, Stays, Silent
    <3> QED BY <1>1, <1>4, <1>5, <1>6, <2>1, <3>2, <3>3, StutterIs
  <2>2. CASE list' = list /\ failed(r)
    BY <1>1, <1>5, <1>7, <2>2, failedKeeps
  <2> QED BY <2>1, <2>2 DEF Record
<1> QED BY <1>1, <1>8 DEF BoxInv, BoxTypes

\* The version is written, and then the manifest, which is the instant of an install.
LEMMA stepVersionKeeps == ASSUME BoxInv, stepVersion PROVE BoxInv' /\ AbsNext
<1>1. /\ manifest' = manifest /\ unit' = unit /\ backup' = backup /\ disk' = disk /\ list' = list /\ log' = log
      /\ latest' = latest /\ was' = was /\ run.pc = "manifest" /\ version' = run.target /\ Goto("manifest2") BY DEF stepVersion, Rest
<1>2. run.kind = "install" BY <1>1 DEF BoxInv, Fits, RunFits, InKind
<1>3. /\ Installs(run) /\ ~Complete /\ J = None /\ run.target \in 1 .. latest /\ run.target \in Versions /\ run \in RunRec
      /\ log.result = "none" /\ Installed = manifest BY <1>1, <1>2, AtInstall
<1>4. manifest = None BY <1>1, <1>2, <1>3 DEF Installs
<1>5. Goes("manifest2", run.back) BY <1>1, <1>3, GotoGoes DEF Pcs
<1>6. BackupWhole' /\ Agreed' /\ ~Complete' /\ Installed' = Installed
  BY <1>1, <1>3, <1>4 DEF BoxInv, Fits, BackupWhole, Agreed, Complete, Installed
<1>7. Fits' BY <1>1, <1>2, <1>3, <1>4, <1>5, <1>6 DEF Kinds, Fits, NotSaid, RunFits, TodoFits, Same, Fore, Restores, Drops, Installs, Updates, TakesDown, InKind,
      Complete, J, Installed, modulePresent, Goes, Stays, Silent
<1>8. version' \in 0 .. latest' BY <1>1, <1>3 DEF BoxInv, BoxTypes
<1>9. AbsNext BY <1>1, <1>5, <1>6, StutterIs DEF Goes
<1> QED BY <1>1, <1>5, <1>7, <1>8, <1>9 DEF Goes, BoxInv, BoxTypes

\* Writing the manifest of an install is a step of the contract.
LEMMA stepManifestKeeps == ASSUME BoxInv, stepManifest PROVE BoxInv' /\ AbsNext
<1>1. /\ version' = version /\ unit' = unit /\ backup' = backup /\ disk' = disk /\ list' = list
      /\ latest' = latest /\ was' = was /\ run.pc = "manifest2" BY DEF stepManifest, Rest
<1>2. run.kind = "install" BY <1>1 DEF BoxInv, Fits, RunFits, InKind
<1>3. /\ Installs(run) /\ ~Complete /\ J = None /\ run.target \in 1 .. latest /\ run.target \in Versions /\ run \in RunRec
      /\ log.result = "none" /\ Installed = manifest BY <1>1, <1>2, AtInstall
<1>4. manifest = None /\ version = run.target BY <1>1, <1>2, <1>3 DEF Installs
<1>5. Fits' /\ AbsNext /\ run' \in RunRec /\ log' \in LogRec /\ manifest' \in 0 .. latest'
  <2>1. CASE manifest' = run.target /\ Goto("start") /\ log' = log
    <3>1. Goes("start", run.back) BY <1>3, <2>1, GotoGoes DEF Pcs
    <3>2. BackupWhole' /\ Agreed' /\ ~Complete' /\ Installed' = run.target
      BY <1>1, <1>3, <1>4, <2>1 DEF BoxInv, Fits, BackupWhole, Agreed, Complete, Installed
    <3>3. Fits' BY <1>1, <1>2, <1>3, <1>4, <2>1, <3>1, <3>2 DEF Kinds, Fits, NotSaid, RunFits, TodoFits, Same, Fore, Restores, Drops, Installs, Updates, TakesDown, InKind,
          Complete, J, Installed, modulePresent, Goes, Stays, Silent
    <3>4. AbsNext BY <1>1, <1>2, <1>3, <1>4, <2>1, <3>1, <3>2, CommitIs DEF Goes, None
    <3> QED BY <1>1, <1>3, <2>1, <3>1, <3>3, <3>4 DEF Goes, BoxInv, BoxTypes
  <2>2. CASE failed(run) /\ manifest' = manifest
    <3> PICK r : r = run OBVIOUS
    <3> QED BY <1>1, <1>3, <2>2, failedKeeps DEF BoxInv, BoxTypes
  <2> QED BY <2>1, <2>2 DEF stepManifest
<1> QED BY <1>1, <1>5 DEF BoxInv, BoxTypes

\* The unit is started.
LEMMA stepStartKeeps == ASSUME BoxInv, stepStart PROVE BoxInv' /\ AbsNext
<1>1. Stays /\ latest' = latest /\ was' = was /\ disk' = disk /\ run.pc = "start" BY DEF stepStart, Stays, Rest
<1>2. run \in RunRec /\ log \in LogRec /\ unit \in UnitRec BY DEF BoxInv, BoxTypes
<1>3. Fits' /\ AbsNext /\ run' \in RunRec /\ log' \in LogRec /\ unit' \in UnitRec
  <2>1. CASE /\ unit' = [active |-> TRUE, enabled |-> run.kind = "install" \/ run.before.enabled \/ unit.enabled]
             /\ Advance("start") /\ log' = log
    <3>1. unit' \in UnitRec BY <2>1 DEF UnitRec
    <3> QED BY <1>1, <1>2, <2>1, <3>1, AdvanceKeeps DEF Silent
  <2>2. CASE failed(run) /\ unit' = unit
    <3> PICK r : r = run OBVIOUS
    <3> QED BY <1>1, <1>2, <2>2, failedKeeps DEF Stays
  <2> QED BY <2>1, <2>2 DEF stepStart
<1> QED BY <1>1, <1>3 DEF Stays, BoxInv, BoxTypes

-------------------------------------------------------------------------------
(* The steps of an update. *)
\* An update at work: it is of a later version than the one it found.
LEMMA AtUpdate == ASSUME BoxInv, run.kind = "update", run.pc \in BeforeSwap \cup SwapPcs
                  PROVE  /\ Updates(run) /\ J \in 1 .. latest /\ run.target \in 1 .. latest /\ run.target > J /\ run.target \in Versions
                         /\ run \in RunRec /\ log.result = "none" /\ log \in LogRec
<1>1. run.pc # "idle" OBVIOUS
<1>2. Updates(run) BY DEF BoxInv, Fits, RunFits
<1>3. J \in 1 .. latest /\ run.target \in 1 .. latest /\ run.target > J /\ run.target \in Versions BY <1>2 DEF Updates
<1> QED BY <1>1, <1>2, <1>3, AtWork DEF BoxInv, BoxTypes

\* An update that is unpacked beside the box.
LEMMA StageKeeps == ASSUME BoxInv, Stage PROVE BoxInv' /\ AbsNext
<1>1. Stays /\ latest' = latest /\ was' = was /\ disk' = disk /\ unit' = unit /\ run.pc = "unpack" /\ run.kind = "update"
  BY DEF Stage, Stays, Rest, box
<1>2. /\ Updates(run) /\ J \in 1 .. latest /\ run.target \in 1 .. latest /\ run.target > J /\ run.target \in Versions
      /\ run \in RunRec /\ log.result = "none" /\ log \in LogRec BY <1>1, AtUpdate
<1>3. BackupWhole' /\ Agreed' /\ Installed' = Installed
  BY <1>1 DEF BoxInv, Fits, BackupWhole, Agreed, Complete, Installed, modulePresent, Stays
<1>4. Fits' /\ AbsNext /\ run' \in RunRec /\ log' \in LogRec
  <2> PICK mine : mine = stillTheirs(list) OBVIOUS
  <2>1. CASE run' = [run EXCEPT !.pc = "backup", !.mine = mine] /\ log' = log
    <3>1. mine \in Lists BY <1>2, ListsMade DEF BoxInv, BoxTypes
    <3>2. Goes("backup", run.back) BY <1>2, <2>1, <3>1, ZenonT(60) DEF Goes, RunRec, Pcs
    <3>3. Fits' BY <1>1, <1>2, <1>3, <2>1, <3>2 DEF Kinds, Fits, NotSaid, RunFits, TodoFits, Same, Fore, Restores, Drops, Installs, Updates, TakesDown, InKind,
          Complete, J, Installed, modulePresent, Goes, Stays, Silent
    <3> QED BY <1>1, <1>2, <1>3, <2>1, <3>2, <3>3, StutterIs DEF Goes
  <2>2. CASE failed(run)
    <3> PICK r : r = run OBVIOUS
    <3> QED BY <1>1, <1>2, <2>2, failedKeeps DEF Stays
  <2> QED BY <2>1, <2>2 DEF Stage
<1> QED BY <1>1, <1>4 DEF Stays, BoxInv, BoxTypes

\* The backup is begun, and then complete.
LEMMA stepBackupKeeps == ASSUME BoxInv, stepBackup PROVE BoxInv' /\ AbsNext
<1>1. /\ disk' = disk /\ list' = list /\ manifest' = manifest /\ version' = version /\ unit' = unit
      /\ latest' = latest /\ was' = was /\ run.pc = "backup" BY DEF stepBackup, Rest, box
<1>2. run.kind = "update" BY <1>1 DEF BoxInv, Fits, RunFits, InKind
<1>3. /\ Updates(run) /\ J \in 1 .. latest /\ run.target \in 1 .. latest /\ run.target > J /\ run.target \in Versions
      /\ run \in RunRec /\ log.result = "none" /\ log \in LogRec BY <1>1, <1>2, AtUpdate
<1>4. ~Complete BY <1>1, <1>2, <1>3 DEF Updates
<1>5. Fits' /\ AbsNext /\ run' \in RunRec /\ log' \in LogRec /\ backup' \in BackupRec
  <2>1. CASE backup' = [NoBackup EXCEPT !.mark = "partial"] /\ Goto("backup2") /\ log' = log
    <3>1. backup' \in BackupRec /\ backup'.mark = "partial" BY <2>1, NothingIs DEF BackupRec
    <3>2. Goes("backup2", run.back) BY <1>3, <2>1, GotoGoes DEF Pcs
    <3>3. BackupWhole' /\ Agreed' /\ ~Complete' /\ Installed' = Installed
      BY <1>1, <1>4, <3>1 DEF BoxInv, Fits, BackupWhole, Agreed, Complete, Installed
    <3>4. Fits' BY <1>1, <1>2, <1>3, <2>1, <3>2, <3>3 DEF Kinds, Fits, NotSaid, RunFits, TodoFits, Same, Fore, Restores, Drops, Installs, Updates, TakesDown, InKind,
          Complete, J, Installed, modulePresent, Goes, Stays, Silent
    <3> QED BY <1>1, <1>3, <2>1, <3>1, <3>2, <3>3, <3>4, StutterIs DEF Goes
  <2>2. CASE failed(run) /\ backup' = backup
    <3> PICK r : r = run OBVIOUS
    <3> QED BY <1>1, <1>3, <2>2, failedKeeps DEF BoxInv, BoxTypes
  <2> QED BY <2>1, <2>2 DEF stepBackup
<1> QED BY <1>1, <1>5 DEF BoxInv, BoxTypes

\* Completing the backup is a step of the contract.
LEMMA backupDoneKeeps == ASSUME BoxInv, backupDone PROVE BoxInv' /\ AbsNext
<1>1. /\ disk' = disk /\ list' = list /\ manifest' = manifest /\ version' = version /\ unit' = unit
      /\ latest' = latest /\ was' = was /\ run.pc = "backup2" BY DEF backupDone, Rest, box
<1>2. run.kind = "update" BY <1>1 DEF BoxInv, Fits, RunFits, InKind
<1>3. /\ Updates(run) /\ J \in 1 .. latest /\ run.target \in 1 .. latest /\ run.target > J /\ run.target \in Versions
      /\ run \in RunRec /\ log.result = "none" /\ log \in LogRec BY <1>1, <1>2, AtUpdate
<1>4. ~Complete /\ manifest = J /\ version = J /\ list # NoList BY <1>1, <1>2, <1>3 DEF Updates
<1>5. Fits' /\ AbsNext /\ run' \in RunRec /\ log' \in LogRec /\ backup' \in BackupRec
  <2>1. CASE /\ run' = [run EXCEPT !.pc = NextStep("backup"), !.backed = TRUE, !.before = unit] /\ log' = log
             /\ backup' = [mark |-> "complete", files |-> [p \in Paths |-> IF list[p] # {} THEN disk[p] ELSE None],
                           list |-> list, manifest |-> manifest, version |-> version, new |-> run.target, unit |-> unit]
    <3>1. run' = [run EXCEPT !.pc = "stop", !.backed = TRUE, !.before = unit] BY <1>2, <2>1, UpdateOrder
    <3>2. unit \in UnitRec /\ disk \in [Paths -> Bytes] /\ list \in Lists /\ manifest \in 0 .. Newest /\ version \in 0 .. Newest
      BY Numbers DEF BoxInv, BoxTypes
    <3>3. run' \in RunRec /\ run'.pc = "stop" /\ run'.kind = run.kind /\ run'.target = run.target /\ run'.backed
      BY <1>3, <3>1, <3>2 DEF RunRec, Pcs
    <3>4. [p \in Paths |-> IF list[p] # {} THEN disk[p] ELSE None] \in [Paths -> Bytes] BY <3>2 DEF Bytes
    <3>5. backup' \in BackupRec BY <1>3, <2>1, <3>2, <3>4 DEF BackupRec, RunRec
    <3>6. /\ backup'.mark = "complete" /\ backup'.version = J /\ backup'.manifest = J /\ backup'.list = list /\ backup'.new = run.target
      BY <1>4, <2>1
    <3>7. BackupWhole' /\ Agreed' /\ Complete' /\ Installed' = J /\ Installed = J
      BY <1>1, <1>3, <1>4, <3>6 DEF BackupWhole, Agreed, Complete, Installed, modulePresent
    <3>8. Fits' BY <1>1, <1>2, <1>3, <1>4, <2>1, <3>3, <3>6, <3>7 DEF Kinds, None, Fits, NotSaid, RunFits, TodoFits, Same, Fore, Restores, Drops, Installs, Updates, TakesDown, InKind,
          Complete, J, Installed, modulePresent, Goes, Stays, Silent
    <3> QED BY <1>1, <1>3, <2>1, <3>3, <3>5, <3>7, <3>8, StutterIs
  <2>2. CASE failed(run) /\ backup' = backup
    <3> PICK r : r = run OBVIOUS
    <3> QED BY <1>1, <1>3, <2>2, failedKeeps DEF BoxInv, BoxTypes
  <2> QED BY <2>1, <2>2 DEF backupDone
<1> QED BY <1>1, <1>5 DEF BoxInv, BoxTypes

\* The unit is stopped before its files are touched.
LEMMA stepStopKeeps == ASSUME BoxInv, stepStop PROVE BoxInv' /\ AbsNext
<1>1. Stays /\ latest' = latest /\ was' = was /\ disk' = disk /\ run.pc = "stop" BY DEF stepStop, Stays, Rest
<1>2. run.kind = "update" BY <1>1 DEF BoxInv, Fits, RunFits, InKind
<1>3. /\ Updates(run) /\ J \in 1 .. latest /\ run.target \in 1 .. latest /\ run.target > J /\ run.target \in Versions
      /\ run \in RunRec /\ log.result = "none" /\ log \in LogRec BY <1>1, <1>2, AtUpdate
<1>4. BackupWhole' /\ Agreed' /\ Installed' = Installed
  BY <1>1 DEF BoxInv, Fits, BackupWhole, Agreed, Complete, Installed, modulePresent, Stays
<1>5. unit \in UnitRec BY DEF BoxInv, BoxTypes
<1>6. Fits' /\ AbsNext /\ run' \in RunRec /\ log' \in LogRec /\ unit' \in UnitRec
  <2>1. CASE /\ unit' = [unit EXCEPT !.active = FALSE] /\ log' = log
             /\ run' = [run EXCEPT !.pc = "swap", !.todo = DOMAIN FilesOf[run.target]]
    <3>1. unit' \in UnitRec BY <1>5, <2>1 DEF UnitRec
    <3>2. DOMAIN FilesOf[run.target] \subseteq Paths BY <1>3, ListsOf
    <3>3. Goes("swap", run.back) /\ run'.todo = DOMAIN FilesOf[run'.target] BY <1>3, <2>1, <3>2 DEF Goes, RunRec, Pcs
    <3>4. Fits' BY <1>1, <1>2, <1>3, <1>4, <2>1, <3>3 DEF Kinds, Fits, NotSaid, RunFits, TodoFits, Same, Fore, Restores, Drops, Installs, Updates, TakesDown, InKind,
          Complete, J, Installed, modulePresent, Goes, Stays, Silent
    <3> QED BY <1>1, <1>3, <1>4, <2>1, <3>1, <3>3, <3>4, StutterIs DEF Goes
  <2>2. CASE failed(run) /\ unit' = unit
    <3> PICK r : r = run OBVIOUS
    <3> QED BY <1>1, <1>3, <1>5, <2>2, failedKeeps DEF Stays
  <2> QED BY <2>1, <2>2 DEF stepStop
<1> QED BY <1>1, <1>6 DEF Stays, BoxInv, BoxTypes

\* The files are swapped: the new ones put, the old ones taken away.
LEMMA SwapPutKeeps == ASSUME BoxInv, NEW p \in Paths, SwapPut(p) PROVE BoxInv' /\ AbsNext
<1>1. Stays /\ latest' = latest /\ was' = was /\ unit' = unit /\ run.pc = "swap" /\ p \in run.todo BY DEF SwapPut, Stays, Rest
<1>2. run.kind = "update" BY <1>1 DEF BoxInv, Fits, RunFits, InKind
<1>3. /\ Updates(run) /\ J \in 1 .. latest /\ run.target \in 1 .. latest /\ run.target > J /\ run.target \in Versions
      /\ run \in RunRec /\ log.result = "none" /\ log \in LogRec BY <1>1, <1>2, AtUpdate
<1>4. BackupWhole' /\ Agreed' /\ Installed' = Installed
  BY <1>1 DEF BoxInv, Fits, BackupWhole, Agreed, Complete, Installed, modulePresent, Stays
<1>5. run.todo \subseteq DOMAIN FilesOf[run.target] /\ disk \in [Paths -> Bytes] BY <1>1 DEF BoxInv, BoxTypes, Fits, RunFits, TodoFits
<1>6. Fits' /\ AbsNext /\ run' \in RunRec /\ log' \in LogRec /\ disk' \in [Paths -> Bytes]
  <2>1. CASE /\ disk' = [disk EXCEPT ![p] = FilesOf[run.target][p]] /\ log' = log
             /\ run' = [run EXCEPT !.todo = @ \ {p}]
    <3>1. disk' \in [Paths -> Bytes] BY <1>1, <1>3, <1>5, <2>1, ListsOf
    <3>2. Goes("swap", run.back) /\ run'.todo \subseteq run.todo BY <1>1, <1>3, <2>1 DEF Goes, RunRec
    <3>3. Fits' BY <1>1, <1>2, <1>3, <1>4, <1>5, <2>1, <3>2 DEF Kinds, Fits, NotSaid, RunFits, TodoFits, Same, Fore, Restores, Drops, Installs, Updates, TakesDown, InKind,
          Complete, J, Installed, modulePresent, Goes, Stays, Silent
    <3> QED BY <1>1, <1>3, <1>4, <2>1, <3>1, <3>2, <3>3, StutterIs DEF Goes
  <2>2. CASE failed(run) /\ disk' = disk
    <3> PICK r : r = run OBVIOUS
    <3> QED BY <1>1, <1>3, <1>5, <2>2, failedKeeps DEF Stays
  <2> QED BY <2>1, <2>2 DEF SwapPut
<1> QED BY <1>1, <1>6 DEF Stays, BoxInv, BoxTypes

\* Having put every new file is a step of the contract.
LEMMA SwapPutDoneKeeps == ASSUME BoxInv, SwapPutDone PROVE BoxInv' /\ AbsNext
<1>1. /\ Stays /\ Silent /\ disk' = disk /\ unit' = unit /\ run.pc = "swap"
      /\ run' = [run EXCEPT !.pc = "swap_del", !.todo = Listed(list) \ DOMAIN FilesOf[run.target]]
  BY DEF SwapPutDone, Stays, Silent, Rest, box
<1>2. run.kind = "update" BY <1>1 DEF BoxInv, Fits, RunFits, InKind
<1>3. /\ Updates(run) /\ J \in 1 .. latest /\ run.target \in 1 .. latest /\ run.target > J /\ run.target \in Versions
      /\ run \in RunRec /\ log.result = "none" /\ log \in LogRec BY <1>1, <1>2, AtUpdate
<1>4. BackupWhole' /\ Agreed' /\ Installed' = Installed
  BY <1>1 DEF BoxInv, Fits, BackupWhole, Agreed, Complete, Installed, modulePresent, Stays, Silent
<1>5. Listed(list) \ DOMAIN FilesOf[run.target] \subseteq Paths BY DEF Listed
<1>6. Goes("swap_del", run.back) BY <1>1, <1>3, <1>5 DEF Goes, RunRec, Pcs
<1>7. Fits' BY <1>1, <1>2, <1>3, <1>4, <1>6 DEF Kinds, Fits, NotSaid, RunFits, TodoFits, Same, Fore, Restores, Drops, Installs, Updates, TakesDown, InKind,
      Complete, J, Installed, modulePresent, Goes, Stays, Silent
<1>8. AbsNext BY <1>1, <1>4, <1>6, StutterIs DEF Goes, Silent
<1> QED BY <1>1, <1>6, <1>7, <1>8 DEF Stays, Silent, Goes, BoxInv, BoxTypes

\* Deleting a file that the new version has no more is a step of the contract.
LEMMA SwapDeleteKeeps == ASSUME BoxInv, NEW p \in Paths, SwapDelete(p) PROVE BoxInv' /\ AbsNext
<1>1. Stays /\ latest' = latest /\ was' = was /\ unit' = unit /\ run.pc = "swap_del" BY DEF SwapDelete, Stays, Rest
<1>2. run.kind = "update" BY <1>1 DEF BoxInv, Fits, RunFits, InKind
<1>3. /\ Updates(run) /\ J \in 1 .. latest /\ run.target \in 1 .. latest /\ run.target > J /\ run.target \in Versions
      /\ run \in RunRec /\ log.result = "none" /\ log \in LogRec BY <1>1, <1>2, AtUpdate
<1>4. BackupWhole' /\ Agreed' /\ Installed' = Installed
  BY <1>1 DEF BoxInv, Fits, BackupWhole, Agreed, Complete, Installed, modulePresent, Stays
<1>5. disk \in [Paths -> Bytes] BY DEF BoxInv, BoxTypes
<1>6. Fits' /\ AbsNext /\ run' \in RunRec /\ log' \in LogRec /\ disk' \in [Paths -> Bytes]
  <2>1. CASE /\ run' = [run EXCEPT !.todo = @ \ {p}] /\ log' = log
             /\ disk' = IF p \notin theirs /\ holds(p, list[p]) = "ours" THEN [disk EXCEPT ![p] = None] ELSE disk
    <3>1. disk' \in [Paths -> Bytes] BY <1>5, <2>1 DEF Bytes
    <3>2. Goes("swap_del", run.back) BY <1>1, <1>3, <2>1 DEF Goes, RunRec
    <3>3. Fits' BY <1>1, <1>2, <1>3, <1>4, <2>1, <3>2 DEF Kinds, Fits, NotSaid, RunFits, TodoFits, Same, Fore, Restores, Drops, Installs, Updates, TakesDown, InKind,
          Complete, J, Installed, modulePresent, Goes, Stays, Silent
    <3> QED BY <1>1, <1>3, <1>4, <2>1, <3>1, <3>2, <3>3, StutterIs DEF Goes
  <2>2. CASE failed(run) /\ disk' = disk
    <3> PICK r : r = run OBVIOUS
    <3> QED BY <1>1, <1>3, <1>5, <2>2, failedKeeps DEF Stays
  <2> QED BY <2>1, <2>2 DEF SwapDelete
<1> QED BY <1>1, <1>6 DEF Stays, BoxInv, BoxTypes

\* The list, the manifest and the version follow; a complete backup stands over them.
LEMMA SwapStateKeeps == ASSUME BoxInv, SwapState PROVE BoxInv' /\ AbsNext
<1>1. /\ disk' = disk /\ unit' = unit /\ backup' = backup /\ Silent /\ run.pc \in {"swap_del", "s_manifest", "s_version"}
  BY DEF SwapState, Silent, Rest
<1>2. run.kind = "update" BY <1>1 DEF BoxInv, Fits, RunFits, InKind
<1>3. /\ Updates(run) /\ J \in 1 .. latest /\ run.target \in 1 .. latest /\ run.target > J /\ run.target \in Versions
      /\ run \in RunRec /\ log.result = "none" /\ log \in LogRec BY <1>1, <1>2, AtUpdate
<1>4. Complete /\ backup.version = J /\ manifest # None /\ (run.pc = "s_version" => manifest = run.target) BY <1>1, <1>2, <1>3 DEF Updates
<1>5. BackupWhole' /\ Agreed' /\ Complete' /\ Installed = J
  BY <1>1, <1>4 DEF BoxInv, Fits, BackupWhole, Agreed, Complete, Silent, Installed, modulePresent
<1>6. list \in Lists /\ manifest \in 0 .. latest /\ version \in 0 .. latest /\ ListOf(run.target) \in Lists
  BY <1>3, ListsOf DEF BoxInv, BoxTypes
<1>7. CASE run.pc = "swap_del" /\ list' = ListOf(run.target) /\ Goto("s_manifest") /\ UNCHANGED <<manifest, version>>
  <2>1. Goes("s_manifest", run.back) BY <1>3, <1>7, GotoGoes DEF Pcs
  <2>2. Installed' = J BY <1>1, <1>4, <1>5, <1>7 DEF Installed, modulePresent, Complete
  <2>3. Fits' BY <1>1, <1>2, <1>3, <1>4, <1>5, <1>7, <2>1 DEF Kinds, Fits, NotSaid, RunFits, TodoFits, Same, Fore, Restores, Drops, Installs, Updates, TakesDown, InKind,
        Complete, J, Installed, modulePresent, Goes, Stays, Silent
  <2>4. AbsNext BY <1>1, <1>5, <2>1, <2>2, StutterIs DEF Goes, Silent
  <2> QED BY <1>1, <1>6, <1>7, <2>1, <2>3, <2>4 DEF Silent, Goes, BoxInv, BoxTypes
<1>8. CASE run.pc = "s_manifest" /\ manifest' = run.target /\ Goto("s_version") /\ UNCHANGED <<list, version>>
  <2>1. Goes("s_version", run.back) BY <1>3, <1>8, GotoGoes DEF Pcs
  <2>2. manifest' # None /\ manifest' \in 0 .. latest' BY <1>1, <1>3, <1>6, <1>8 DEF None, Silent
  <2>3. Installed' = J BY <1>1, <1>4, <1>5, <2>2 DEF Installed, modulePresent, Complete
  <2>4. Fits' BY <1>1, <1>2, <1>3, <1>4, <1>5, <1>8, <2>1, <2>2 DEF Kinds, Fits, NotSaid, RunFits, TodoFits, Same, Fore, Restores, Drops, Installs, Updates, TakesDown, InKind,
        Complete, J, Installed, modulePresent, Goes, Stays, Silent
  <2>5. AbsNext BY <1>1, <1>5, <2>1, <2>3, StutterIs DEF Goes, Silent
  <2> QED BY <1>1, <1>6, <1>8, <2>1, <2>2, <2>4, <2>5 DEF Silent, Goes, BoxInv, BoxTypes
<1>9. CASE run.pc = "s_version" /\ version' = run.target /\ Advance("swap") /\ UNCHANGED <<list, manifest>>
  <2>1. Goes("units", run.back) BY <1>2, <1>3, <1>9, UpdateOrder, AdvanceGoes DEF Pcs
  <2>2. version' \in 0 .. latest' BY <1>1, <1>3, <1>6, <1>9 DEF Silent
  <2>3. Installed' = J BY <1>1, <1>4, <1>5, <1>9 DEF Installed, modulePresent, Complete
  <2>4. Fits' BY <1>1, <1>2, <1>3, <1>4, <1>5, <1>9, <2>1 DEF Kinds, Fits, NotSaid, RunFits, TodoFits, Same, Fore, Restores, Drops, Installs, Updates, TakesDown, InKind,
        Complete, J, Installed, modulePresent, Goes, Stays, Silent
  <2>5. AbsNext BY <1>1, <1>5, <2>1, <2>3, StutterIs DEF Goes, Silent
  <2> QED BY <1>1, <1>6, <1>9, <2>1, <2>2, <2>4, <2>5 DEF Silent, Goes, BoxInv, BoxTypes
<1> QED BY <1>7, <1>8, <1>9 DEF SwapState

\* A swap that fails, and so is rolled back, is a step of the contract.
LEMMA SwapFailsKeeps == ASSUME BoxInv, SwapFails PROVE BoxInv' /\ AbsNext
<1>1. /\ Stays /\ latest' = latest /\ was' = was /\ disk' = disk /\ unit' = unit /\ run.pc \in {"swap_del", "s_manifest", "s_version"} /\ failed(run)
  BY DEF SwapFails, Stays, Rest, box
<1> PICK r : r = run OBVIOUS
<1>2. run \in RunRec BY DEF BoxInv, BoxTypes
<1>3. Fits' /\ AbsNext /\ run' \in RunRec /\ log' \in LogRec BY <1>1, <1>2, failedKeeps DEF Stays
<1> QED BY <1>1, <1>3 DEF Stays, BoxInv, BoxTypes

-------------------------------------------------------------------------------
(* A putting back, and the dropping of the backup. *)
\* A putting back is over: the run says so, or a recovery goes on to be admitted.
LEMMA RestoreEndKeeps ==
    ASSUME BoxInv, NEW bad \in BOOLEAN, RestoreEnd(bad), run.pc \in BackPcs \cup {"drop"}, run.back \in {"recover", "rollback"},
           latest' = latest, was' = was, manifest' = manifest, version' = version, list' = list, BackupWhole', Agreed', Installed' = Installed,
           ~bad => ~Complete'
    PROVE  Fits' /\ AbsNext /\ run' \in RunRec /\ log' \in LogRec
<1>1. run.pc # "idle" /\ run \in RunRec /\ run.kind \in Kinds /\ log.result = "none" BY AtWork
<1>2. Installed = J BY DEF BoxInv, Fits, RunFits, Same
<1>3. log \in LogRec BY DEF BoxInv, BoxTypes
<1>4. CASE run.back = "recover" /\ bad /\ run.kind # "remove"
  <2>1. End("incomplete") BY <1>4 DEF RestoreEnd
  <2> QED BY <1>1, <2>1, EndKeeps DEF Results
<1>5. CASE run.back = "recover" /\ ~(bad /\ run.kind # "remove")
  <2>1. run' = [run EXCEPT !.pc = "admit", !.kept = bad] /\ log' = log BY <1>5 DEF RestoreEnd
  <2>2. run' \in RunRec /\ run'.pc = "admit" /\ run'.kept = bad /\ run'.kind = run.kind /\ run'.backed = run.backed
    BY <1>1, <2>1 DEF RunRec, Pcs
  <2>3. ~run.backed BY <1>5 DEF BoxInv, Fits, RunFits, Fore
  <2>4. Complete' => run.kind = "remove" /\ bad BY <1>5
  <2>5. J' = J BY DEF J
  <2>6. Fits' BY <1>1, <1>2, <2>1, <2>2, <2>3, <2>4, <2>5 DEF Fits, NotSaid, RunFits, TodoFits, Same, Fore, Restores, Drops, Installs, Updates, TakesDown, InKind
  <2> QED BY <1>3, <2>1, <2>2, <2>6, StutterIs
<1>6. CASE run.back = "rollback"
  <2> PICK r : r = IF bad THEN "incomplete" ELSE IF run.left THEN "left" ELSE "rolled_back" OBVIOUS
  <2>1. End(r) BY <1>6 DEF RestoreEnd
  <2>2. r \in {"incomplete", "left", "rolled_back"} OBVIOUS
  <2> QED BY <1>1, <1>2, <2>1, <2>2, EndKeeps DEF Results
<1> QED BY <1>4, <1>5, <1>6

\* The backup is dropped: its mark, and then the folder.
LEMMA DropEndKeeps ==
    ASSUME BoxInv, NEW marked \in BOOLEAN, NEW err \in BOOLEAN, DropEnd(marked, err), run.pc = "drop",
           latest' = latest, was' = was, manifest' = manifest, version' = version, list' = list,
           Complete' => Complete /\ err /\ marked /\ run.back # "admit", BackupWhole', Agreed', Installed' = Installed, Complete => marked
    PROVE  Fits' /\ AbsNext /\ run' \in RunRec /\ log' \in LogRec
<1>1. run.pc # "idle" /\ run \in RunRec /\ run.kind \in Kinds /\ log.result = "none" /\ log \in LogRec
  BY AtWork DEF BoxInv, BoxTypes
<1>2. Drops(run) /\ Same(run) /\ Fore(run) BY DEF BoxInv, Fits, RunFits
<1>3. run.back \in {"done", "failed", "admit", "recover", "rollback"} BY <1>1, <1>2 DEF RunRec, Backs, Drops
<1>4. CASE run.back = "done"
  <2> PICK r : r = IF marked THEN "failed" ELSE "ok" OBVIOUS
  <2>1. End(r) /\ r \in Results BY <1>4 DEF DropEnd, Results
  <2>2. run.kind = "update" /\ manifest = run.target /\ run.target > J BY <1>2, <1>4 DEF Drops
  <2>3. r = "ok" => Installed = manifest BY DEF Installed, Complete
  <2> QED BY <1>1, <2>1, <2>2, <2>3, EndKeeps
<1>5. CASE run.back = "failed"
  <2>1. End("rolled_back") /\ Installed = J BY <1>2, <1>5 DEF DropEnd, Same
  <2> QED BY <1>1, <2>1, EndKeeps DEF Results
<1>6. CASE run.back = "admit"
  <2>1. Goto("admit") /\ log' = log BY <1>6 DEF DropEnd
  <2>2. Goes("admit", "admit") BY <1>1, <1>6, <2>1, GotoGoes DEF Pcs
  <2>3. ~Complete' /\ ~run.backed /\ Installed = J /\ J' = J BY <1>2, <1>6 DEF Fore, Same, J
  <2>4. Fits' BY <1>1, <2>1, <2>2, <2>3 DEF Fits, NotSaid, RunFits, TodoFits, Same, Fore, Restores, Drops, Installs, Updates, TakesDown, InKind, Goes
  <2> QED BY <1>1, <2>1, <2>2, <2>4, StutterIs DEF Goes
<1>7. CASE run.back \in {"recover", "rollback"}
  <2>1. RestoreEnd(err) BY <1>7 DEF DropEnd
  <2> QED BY <1>7, <2>1, RestoreEndKeeps
<1> QED BY <1>3, <1>4, <1>5, <1>6, <1>7

\* Removing the backup is a step of the contract, given that it can be marked as dropped.
LEMMA removeBackupKeeps == ASSUME Droppable, BoxInv, removeBackup PROVE BoxInv' /\ AbsNext
<1>1. /\ disk' = disk /\ list' = list /\ manifest' = manifest /\ version' = version /\ unit' = unit
      /\ latest' = latest /\ was' = was /\ run.pc = "drop" BY DEF removeBackup, Rest, box
<1>2. run.pc # "idle" /\ run \in RunRec /\ run.kind \in Kinds /\ log.result = "none" BY <1>1, AtWork
<1>3. Drops(run) /\ Same(run) /\ Fore(run) /\ BackupWhole /\ Agreed BY DEF BoxInv, Fits, RunFits
<1>4. backup \in BackupRec /\ latest \in 1 .. Newest /\ manifest \in 0 .. latest /\ Newest \in Nat BY Numbers DEF BoxInv, BoxTypes
<1>5. run.back \in {"done", "failed", "admit", "recover", "rollback"} BY <1>1, <1>2, <1>3 DEF RunRec, Backs, Drops
<1>6. CASE backup.mark = "complete" /\ backup' = [backup EXCEPT !.mark = "partial"] /\ run' = run /\ log' = log
  <2>1. backup' \in BackupRec /\ backup'.mark = "partial" BY <1>4, <1>6 DEF BackupRec
  <2>2. Complete /\ ~Complete' /\ Installed' = manifest /\ BackupWhole' BY <1>1, <1>6, <2>1 DEF Complete, Installed, BackupWhole
  <2>3. backup.version \in 1 .. latest BY <1>3, <2>2 DEF BackupWhole
  <2>4. Agreed' /\ AbsNext /\ (run.back # "done" => Installed' = Installed)
    <3>1. CASE run.back = "done"
      <4>1. run.kind = "update" /\ manifest = run.target /\ version = run.target /\ run.target > J /\ backup.version = J
        BY <1>1, <1>3, <2>2, <3>1 DEF Drops
      <4>2. J \in 1 .. latest /\ manifest \in J + 1 .. latest BY <1>4, <2>3, <4>1
      <4>3. Installed = J BY <2>2, <4>1, <4>2 DEF Installed, Complete, modulePresent, None
      <4>4. AbsNext BY <1>1, <1>6, <2>2, <4>1, <4>2, <4>3, CommitIs
      <4> QED BY <1>1, <3>1, <4>1, <4>4 DEF Agreed
    <3>2. CASE run.back \in {"recover", "rollback"}
      <4>1. manifest = backup.version /\ version = backup.version BY <1>1, <1>3, <2>2, <3>2 DEF Drops
      <4>2. Installed = manifest BY <4>1 DEF Installed
      <4>3. AbsNext BY <1>1, <1>6, <2>2, <4>2, StutterIs
      <4> QED BY <1>1, <2>2, <4>1, <4>2, <4>3 DEF Agreed
    <3>3. CASE run.back = "admit"
      <4>1. manifest = None /\ ~modulePresent BY <1>1, <1>3, <3>3 DEF Fore
      <4>2. Installed = manifest BY <4>1 DEF Installed
      <4>3. AbsNext BY <1>1, <1>6, <2>2, <4>2, StutterIs
      <4> QED BY <1>1, <2>2, <4>1, <4>2, <4>3 DEF Agreed
    <3>4. run.back # "failed" BY <1>1, <1>3, <2>2 DEF Drops
    <3> QED BY <1>5, <3>1, <3>2, <3>3, <3>4
  <2>5. J' = J /\ modulePresent' = modulePresent BY <1>1 DEF J, modulePresent
  <2>6. run.back = "rollback" => run.kind = "update" BY <1>1 DEF BoxInv, Fits, RunFits, Restores
  <2>7. Fits' BY <1>1, <1>2, <1>3, <1>6, <2>2, <2>4, <2>5, <2>6 DEF Fits, NotSaid, RunFits, TodoFits, Same, Fore, Restores, Drops, Installs, Updates, TakesDown, InKind
  <2> QED BY <1>1, <1>6, <2>1, <2>4, <2>7 DEF BoxInv, BoxTypes
<1>7. CASE backup.mark # "complete" /\ backup' = NoBackup /\ DropEnd(FALSE, FALSE)
  <2>1. backup' \in BackupRec /\ backup'.mark = "none" BY <1>7, NothingIs DEF NoBackup
  <2>2. ~Complete /\ ~Complete' /\ BackupWhole' /\ Agreed' /\ Installed' = Installed
    BY <1>1, <1>3, <1>7, <2>1 DEF Complete, BackupWhole, Agreed, Installed
  <2>3. Fits' /\ AbsNext /\ run' \in RunRec /\ log' \in LogRec BY <1>1, <1>7, <2>2, DropEndKeeps
  <2> QED BY <1>1, <2>1, <2>3 DEF BoxInv, BoxTypes
<1>8. CASE /\ Droppable /\ run.back = "admit" => backup.mark # "complete"
           /\ backup' = backup /\ DropEnd(backup.mark = "complete", TRUE)
  <2> PICK marked : marked = (backup.mark = "complete") OBVIOUS
  <2>1. DropEnd(marked, TRUE) /\ marked \in BOOLEAN BY <1>8
  <2>2. (Complete' => Complete /\ marked /\ run.back # "admit") /\ (Complete => marked) BY <1>8 DEF Complete
  <2>3. BackupWhole' /\ Agreed' /\ Installed' = Installed
    BY <1>1, <1>3, <1>8 DEF Complete, BackupWhole, Agreed, Installed, modulePresent
  <2>4. Fits' /\ AbsNext /\ run' \in RunRec /\ log' \in LogRec BY <1>1, <2>1, <2>2, <2>3, DropEndKeeps
  <2> QED BY <1>1, <1>8, <2>4 DEF BoxInv, BoxTypes
<1> QED BY <1>6, <1>7, <1>8 DEF removeBackup

\* A putting back at work: an update of a recovery or of a rollback, over a complete backup once it was read.
LEMMA AtRestore == ASSUME BoxInv, run.pc \in BackPcs
                   PROVE  /\ run.back \in {"recover", "rollback"} /\ modulePresent /\ (run.pc # "r_read" \/ run.back = "rollback" => Complete)
                          /\ Installed = J /\ run \in RunRec /\ run.kind \in Kinds /\ log.result = "none" /\ log \in LogRec
                          /\ (run.back = "recover" => ~run.backed) /\ (run.back = "rollback" => run.kind = "update")
                          /\ BackupWhole /\ Agreed /\ backup \in BackupRec /\ Restores(run)
<1>1. run.pc # "idle" /\ run \in RunRec /\ run.kind \in Kinds /\ log.result = "none" /\ log \in LogRec /\ backup \in BackupRec
  BY AtWork DEF BoxInv, BoxTypes
<1>2. Restores(run) /\ Same(run) /\ Fore(run) /\ BackupWhole /\ Agreed BY DEF BoxInv, Fits, RunFits
<1>3. run.back \in {"recover", "rollback"} /\ modulePresent /\ (run.pc # "r_read" \/ run.back = "rollback" => Complete) BY <1>2 DEF Restores
<1>4. Installed = J BY <1>2 DEF Same
<1>5. run.back = "recover" => ~run.backed BY <1>2 DEF Fore
<1>6. run.back = "rollback" => run.kind = "update" BY <1>2 DEF Restores
<1> QED BY <1>1, <1>2, <1>3, <1>4, <1>5, <1>6

\* The backup is read: it is put back, or dropped when its update changed nothing.
LEMMA readBackupKeeps == ASSUME BoxInv, readBackup PROVE BoxInv' /\ AbsNext
<1>1. Stays /\ latest' = latest /\ was' = was /\ disk' = disk /\ unit' = unit /\ run.pc = "r_read" BY DEF readBackup, Stays, Rest, box
<1>2. /\ run.back \in {"recover", "rollback"} /\ modulePresent /\ (run.back = "rollback" => Complete)
      /\ Installed = J /\ run \in RunRec /\ run.kind \in Kinds /\ log.result = "none" /\ log \in LogRec
      /\ (run.back = "recover" => ~run.backed) /\ (run.back = "rollback" => run.kind = "update") BY <1>1, AtRestore
<1>3. BackupWhole' /\ Agreed' /\ Installed' = Installed /\ Complete' = Complete /\ modulePresent' = modulePresent /\ J' = J
  BY <1>1 DEF BoxInv, Fits, BackupWhole, Agreed, Complete, Installed, modulePresent, Stays, J
<1>4. Fits' /\ AbsNext /\ run' \in RunRec /\ log' \in LogRec
  <2>1. CASE Goto(IF backup.mark = "complete" THEN "r_decide" ELSE "drop") /\ log' = log
    <3> PICK a : a = IF backup.mark = "complete" THEN "r_decide" ELSE "drop" OBVIOUS
    <3>1. Goes(a, run.back) /\ ((a = "r_decide" /\ Complete) \/ (a = "drop" /\ ~Complete)) BY <1>2, <2>1, GotoGoes DEF Pcs, Complete
    <3>2. Fits' BY <1>2, <1>3, <2>1, <3>1 DEF Fits, NotSaid, RunFits, TodoFits, Same, Fore, Restores, Drops, Installs, Updates, TakesDown, InKind, Goes
    <3> QED BY <1>1, <1>2, <1>3, <2>1, <3>1, <3>2, StutterIs DEF Goes
  <2>2. CASE RestoreEnd(TRUE)
    BY <1>1, <1>2, <1>3, <2>2, RestoreEndKeeps DEF Stays
  <2> QED BY <2>1, <2>2 DEF readBackup
<1> QED BY <1>1, <1>4 DEF Stays, BoxInv, BoxTypes

\* A step of a putting back goes on to the next one, over the same complete backup.
Onward(a) == /\ run' \in RunRec /\ run'.pc = a /\ run'.back = run.back /\ run'.kind = run.kind /\ run'.backed = run.backed

\* A step within a restore that changes no more of the state on the disk than the backup holds is
\* silent to the contract.
LEMMA RestoreMoves ==
    ASSUME BoxInv, run.pc \in BackPcs \ {"r_read"}, NEW a \in BackPcs \ {"r_read"}, Onward(a), Silent, backup' = backup, modulePresent',
           a \in {"r_version", "r_list", "r_units", "r_start"} /\ ~run'.bad => manifest' = backup.manifest,
           a \in {"r_list", "r_units", "r_start"} /\ ~run'.bad => version' = backup.version
    PROVE  Fits' /\ AbsNext /\ run' \in RunRec
<1>1. /\ run.back \in {"recover", "rollback"} /\ modulePresent /\ Complete
      /\ Installed = J /\ run \in RunRec /\ run.kind \in Kinds /\ log.result = "none"
      /\ (run.back = "recover" => ~run.backed) /\ (run.back = "rollback" => run.kind = "update") /\ BackupWhole BY AtRestore
<1>2. Complete' /\ J' = J /\ BackupWhole' /\ Agreed' /\ Installed' = Installed
  BY <1>1 DEF Complete, J, BackupWhole, Agreed, Installed, Silent
<1>3. Fits'
  BY <1>1, <1>2 DEF Onward, Silent, Fits, NotSaid, RunFits, TodoFits, Same, Fore, Restores, Drops, Installs, Updates, TakesDown, InKind
<1> QED BY <1>2, <1>3, StutterIs DEF Silent, Onward

\* What is to be put back, taken away and left is decided; the unit is stopped.
LEMMA putBackDecideKeeps == ASSUME BoxInv, putBackDecide PROVE BoxInv' /\ AbsNext
<1>1. Stays /\ Silent /\ disk' = disk /\ unit' = unit /\ run.pc = "r_decide" BY DEF putBackDecide, Stays, Silent, Rest, box
<1>2. run \in RunRec /\ modulePresent BY <1>1, AtRestore
<1>3. modulePresent' BY <1>1, <1>2 DEF Stays, modulePresent
<1>4. CASE run' = [run EXCEPT !.pc = IF ToPut \cup ToRemove # {} THEN "r_stop" ELSE "r_put",
                              !.puts = ToPut, !.removes = ToRemove, !.left = @ \/ ToLeave # {}]
  <2> PICK a : a = IF ToPut \cup ToRemove # {} THEN "r_stop" ELSE "r_put" OBVIOUS
  <2> PICK u : u = ToPut OBVIOUS
  <2> PICK w : w = ToRemove OBVIOUS
  <2> PICK f : f = (run.left \/ ToLeave # {}) OBVIOUS
  <2>1. a \in {"r_stop", "r_put"} /\ a \in Pcs BY DEF Pcs
  <2>2. u \in SUBSET Paths BY DEF ToPut, Saved
  <2>3. w \in SUBSET Paths BY DEF ToRemove
  <2>4. f \in BOOLEAN OBVIOUS
  <2>5. run' = [run EXCEPT !.pc = a, !.puts = u, !.removes = w, !.left = f] BY <1>4
  <2>6. Onward(a) BY ONLY <1>2, <2>1, <2>2, <2>3, <2>4, <2>5 DEF Onward, RunRec
  <2>7. Fits' /\ AbsNext BY <1>1, <1>3, <2>1, <2>6, RestoreMoves DEF Stays
  <2> QED BY <1>1, <2>6, <2>7 DEF Stays, Silent, Onward, BoxInv, BoxTypes
<1>5. CASE run' = [run EXCEPT !.pc = "r_units", !.bad = TRUE]
  <2>1. Onward("r_units") /\ run'.bad BY <1>2, <1>5 DEF Onward, RunRec, Pcs
  <2>2. Fits' /\ AbsNext BY <1>1, <1>3, <2>1, RestoreMoves DEF Stays
  <2> QED BY <1>1, <2>1, <2>2 DEF Stays, Silent, Onward, BoxInv, BoxTypes
<1> QED BY <1>4, <1>5 DEF putBackDecide

\* Stopping the module before its files are put back is a step of the contract.
LEMMA putBackStopKeeps == ASSUME BoxInv, putBackStop PROVE BoxInv' /\ AbsNext
<1>1. Stays /\ Silent /\ disk' = disk /\ run.pc = "r_stop" BY DEF putBackStop, Stays, Silent, Rest
<1>2. run \in RunRec /\ modulePresent /\ backup \in BackupRec BY <1>1, AtRestore
<1>3. modulePresent' BY <1>1, <1>2 DEF Stays, modulePresent
<1>4. Onward("r_put")
  <2>1. CASE Goto("r_put") BY <1>2, <2>1 DEF Goto, Onward, RunRec, Pcs
  <2>2. CASE run' = [run EXCEPT !.pc = "r_put", !.stuck = TRUE] BY <1>2, <2>2 DEF Onward, RunRec, Pcs
  <2> QED BY <2>1, <2>2 DEF putBackStop
<1>5. unit' \in UnitRec BY <1>2 DEF putBackStop, BoxInv, BoxTypes, UnitRec, BackupRec
<1>6. Fits' /\ AbsNext BY <1>1, <1>3, <1>4, RestoreMoves DEF Stays
<1> QED BY <1>1, <1>4, <1>5, <1>6 DEF Stays, Silent, Onward, BoxInv, BoxTypes

\* A file is put back, or taken away.
LEMMA putBackKeeps == ASSUME BoxInv, NEW p \in Paths, putBack(p) \/ putBackRemove(p) PROVE BoxInv' /\ AbsNext
<1>1. Stays /\ Silent /\ unit' = unit /\ run.pc = "r_put" BY DEF putBack, putBackRemove, Stays, Silent, Rest
<1>2. run \in RunRec /\ modulePresent /\ backup \in BackupRec BY <1>1, AtRestore
<1>3. modulePresent' BY <1>1, <1>2 DEF Stays, modulePresent
<1>4. Onward("r_put")
  <2>1. CASE run' = [run EXCEPT !.puts = @ \ {p}] BY <1>1, <1>2, <2>1 DEF Onward, RunRec
  <2>2. CASE run' = [run EXCEPT !.puts = @ \ {p}, !.bad = TRUE] BY <1>1, <1>2, <2>2 DEF Onward, RunRec
  <2>3. CASE run' = [run EXCEPT !.removes = @ \ {p}] BY <1>1, <1>2, <2>3 DEF Onward, RunRec
  <2>4. CASE run' = [run EXCEPT !.removes = @ \ {p}, !.bad = TRUE] BY <1>1, <1>2, <2>4 DEF Onward, RunRec
  <2> QED BY <2>1, <2>2, <2>3, <2>4 DEF putBack, putBackRemove
<1>5. disk' \in [Paths -> Bytes]
  <2>1. disk \in [Paths -> Bytes] /\ backup.files \in [Paths -> Bytes] BY <1>2 DEF BoxInv, BoxTypes, BackupRec
  <2>2. disk' = [disk EXCEPT ![p] = backup.files[p]] \/ disk' = [disk EXCEPT ![p] = None] \/ disk' = disk BY DEF putBack, putBackRemove
  <2> QED BY <2>1, <2>2 DEF Bytes
<1>6. Fits' /\ AbsNext BY <1>1, <1>3, <1>4, RestoreMoves DEF Stays
<1> QED BY <1>1, <1>4, <1>5, <1>6 DEF Stays, Silent, Onward, BoxInv, BoxTypes

\* The manifest, the version and the lists are put back.
LEMMA putBackStateKeeps == ASSUME BoxInv, putBackState PROVE BoxInv' /\ AbsNext
<1>1. Silent /\ disk' = disk /\ unit' = unit /\ backup' = backup /\ run.pc \in {"r_put", "r_version", "r_list"}
  BY DEF putBackState, Silent, Rest, box
<1>2. run \in RunRec /\ modulePresent /\ backup \in BackupRec /\ Complete /\ BackupWhole /\ Restores(run) BY <1>1, AtRestore
<1>3. backup.version = backup.manifest /\ backup.version \in 1 .. latest /\ backup.list # NoList BY <1>2 DEF BackupWhole
<1>4. backup.version # None /\ backup.list \in Lists BY <1>2, <1>3 DEF None, BackupRec
<1>5. list \in Lists /\ manifest \in 0 .. latest /\ version \in 0 .. latest /\ latest \in 1 .. Newest /\ Newest \in Nat BY Numbers DEF BoxInv, BoxTypes
<1>6. backup.version \in 0 .. latest BY <1>3, <1>5
<1>7. Fits' /\ AbsNext /\ run' \in RunRec /\ list' \in Lists /\ manifest' \in 0 .. latest /\ version' \in 0 .. latest
  <2>1. CASE run.pc = "r_put" /\ run.bad /\ Goto("r_units") /\ UNCHANGED box
    <3>1. Onward("r_units") /\ run'.bad BY <1>2, <2>1 DEF Goto, Onward, RunRec, Pcs
    <3>2. modulePresent' BY <1>2, <2>1 DEF modulePresent, box
    <3> QED BY <1>1, <1>5, <2>1, <3>1, <3>2, RestoreMoves DEF box
  <2>2. CASE run.pc = "r_put" /\ UNCHANGED <<list, version>> /\ manifest' = backup.manifest /\ Goto("r_version")
    <3>1. Onward("r_version") BY <1>2, <2>2 DEF Goto, Onward, RunRec, Pcs
    <3>2. modulePresent' BY <1>3, <1>4, <2>2 DEF modulePresent
    <3> QED BY <1>1, <1>3, <1>5, <1>6, <2>2, <3>1, <3>2, RestoreMoves
  <2>3. CASE run.pc = "r_put" /\ UNCHANGED <<list, version, manifest>> /\ run' = [run EXCEPT !.pc = "r_version", !.bad = TRUE]
    <3>1. Onward("r_version") /\ run'.bad BY <1>2, <2>3 DEF Onward, RunRec, Pcs
    <3>2. modulePresent' BY <1>2, <2>3 DEF modulePresent
    <3> QED BY <1>1, <1>5, <2>3, <3>1, <3>2, RestoreMoves
  <2>4. CASE run.pc = "r_version" /\ UNCHANGED <<list, manifest>> /\ version' = backup.version /\ Goto("r_list")
    <3>1. Onward("r_list") /\ run'.bad = run.bad BY <1>2, <2>4 DEF Goto, Onward, RunRec, Pcs
    <3>2. modulePresent' BY <1>4, <2>4 DEF modulePresent
    <3>3. ~run.bad => manifest' = backup.manifest BY <1>2, <2>4 DEF Restores
    <3> QED BY <1>1, <1>5, <1>6, <2>4, <3>1, <3>2, <3>3, RestoreMoves
  <2>5. CASE run.pc = "r_version" /\ UNCHANGED <<list, version, manifest>> /\ run' = [run EXCEPT !.pc = "r_list", !.bad = TRUE]
    <3>1. Onward("r_list") /\ run'.bad BY <1>2, <2>5 DEF Onward, RunRec, Pcs
    <3>2. modulePresent' BY <1>2, <2>5 DEF modulePresent
    <3> QED BY <1>1, <1>5, <2>5, <3>1, <3>2, RestoreMoves
  <2>6. CASE /\ run.pc = "r_list" /\ UNCHANGED <<version, manifest>> /\ list' = backup.list
             /\ run' = [run EXCEPT !.pc = "r_units", !.bad = @ \/ run.stuck]
    <3>1. Onward("r_units") /\ (run.bad => run'.bad) BY <1>2, <2>6, ZenonT(60) DEF Onward, RunRec, Pcs
    <3>2. modulePresent' BY <1>3, <2>6 DEF modulePresent
    <3>3. ~run.bad => manifest' = backup.manifest /\ version' = backup.version BY <1>2, <2>6 DEF Restores
    <3> QED BY <1>1, <1>4, <1>5, <2>6, <3>1, <3>2, <3>3, RestoreMoves
  <2>7. CASE run.pc = "r_list" /\ UNCHANGED <<list, version, manifest>> /\ run' = [run EXCEPT !.pc = "r_units", !.bad = TRUE]
    <3>1. Onward("r_units") /\ run'.bad BY <1>2, <2>7 DEF Onward, RunRec, Pcs
    <3>2. modulePresent' BY <1>2, <2>7 DEF modulePresent
    <3> QED BY <1>1, <1>5, <2>7, <3>1, <3>2, RestoreMoves
  <2> QED BY <2>1, <2>2, <2>3, <2>4, <2>5, <2>6, <2>7 DEF putBackState
<1> QED BY <1>1, <1>7 DEF Silent, BoxInv, BoxTypes

\* The units are loaded again and settled, and the putting back is over.
LEMMA restoreUnitsKeeps == ASSUME BoxInv, restoreUnits PROVE BoxInv' /\ AbsNext
<1>1. Stays /\ Silent /\ disk' = disk /\ unit' = unit /\ run.pc = "r_units" BY DEF restoreUnits, Stays, Silent, Rest, box
<1>2. run \in RunRec /\ modulePresent /\ Restores(run) BY <1>1, AtRestore
<1>3. modulePresent' BY <1>1, <1>2 DEF Stays, modulePresent
<1>4. Onward("r_start") /\ (run.bad => run'.bad)
  <2>1. CASE Goto("r_start") BY <1>2, <2>1 DEF Goto, Onward, RunRec, Pcs
  <2>2. CASE run' = [run EXCEPT !.pc = "r_start", !.bad = TRUE] BY <1>2, <2>2 DEF Onward, RunRec, Pcs
  <2> QED BY <2>1, <2>2 DEF restoreUnits
<1>5. ~run.bad => manifest' = backup.manifest /\ version' = backup.version BY <1>1, <1>2 DEF Restores, Stays
<1>6. Fits' /\ AbsNext BY <1>1, <1>3, <1>4, <1>5, RestoreMoves DEF Stays
<1> QED BY <1>1, <1>4, <1>6 DEF Stays, Silent, Onward, BoxInv, BoxTypes

\* Settling the units of the version put back is a step of the contract.
LEMMA settleUnitsKeeps == ASSUME BoxInv, settleUnits PROVE BoxInv' /\ AbsNext
<1>1. Stays /\ latest' = latest /\ was' = was /\ disk' = disk /\ run.pc = "r_start" BY DEF settleUnits, Stays, Rest
<1>2. /\ run.back \in {"recover", "rollback"} /\ modulePresent /\ Complete
      /\ Installed = J /\ run \in RunRec /\ run.kind \in Kinds /\ log.result = "none" /\ log \in LogRec
      /\ (run.back = "recover" => ~run.backed) /\ (run.back = "rollback" => run.kind = "update")
      /\ BackupWhole /\ backup \in BackupRec /\ Restores(run) BY <1>1, AtRestore
<1>3. BackupWhole' /\ Agreed' /\ Installed' = Installed /\ Complete' = Complete /\ J' = J
  BY <1>1 DEF BoxInv, Fits, BackupWhole, Agreed, Complete, Installed, modulePresent, Stays, J
<1>4. Fits' /\ AbsNext /\ run' \in RunRec /\ log' \in LogRec
  <2>1. CASE RestoreEnd(TRUE) BY <1>1, <1>2, <1>3, <2>1, RestoreEndKeeps DEF Stays
  <2>2. CASE ~run.bad /\ Goto("drop") /\ log' = log
    <3>1. Goes("drop", run.back) BY <1>2, <2>2, GotoGoes DEF Pcs
    <3>2. manifest = backup.manifest /\ version = backup.version /\ backup.manifest = backup.version
      BY <1>1, <1>2, <2>2 DEF Restores, BackupWhole
    <3>3. Fits' BY <1>1, <1>2, <1>3, <2>2, <3>1, <3>2 DEF Stays, Goes, Fits, NotSaid, RunFits, TodoFits, Same, Fore, Restores, Drops, Installs, Updates, TakesDown, InKind
    <3> QED BY <1>1, <1>2, <1>3, <2>2, <3>1, <3>3, StutterIs DEF Goes
  <2> QED BY <2>1, <2>2 DEF settleUnits
<1>5. unit' \in UnitRec
  <2>1. unit \in UnitRec BY DEF BoxInv, BoxTypes
  <2>2. unit' = unit \/ unit' = [active |-> unit.active \/ backup.unit.active, enabled |-> unit.enabled \/ backup.unit.enabled]
    BY DEF settleUnits
  <2> PICK a : a = (unit.active \/ backup.unit.active) OBVIOUS
  <2> PICK e : e = (unit.enabled \/ backup.unit.enabled) OBVIOUS
  <2>3. a \in BOOLEAN /\ e \in BOOLEAN OBVIOUS
  <2>4. unit' = unit \/ unit' = [active |-> a, enabled |-> e] BY <2>2
  <2> QED BY ONLY <2>1, <2>3, <2>4 DEF UnitRec
<1> QED BY <1>1, <1>4, <1>5 DEF Stays, BoxInv, BoxTypes

-------------------------------------------------------------------------------
(* A taking down, of a remove or of an install that failed. *)
LEMMA AtTakeDown == ASSUME BoxInv, run.pc \in DownPcs
                    PROVE  /\ TakesDown(run) /\ run \in RunRec /\ log.result = "none" /\ log \in LogRec /\ BackupWhole /\ Agreed /\ list \in Lists
                           /\ \/ run.kind = "install" /\ run.back = "rollback" /\ ~Complete /\ J = None
                              \/ run.kind = "remove" /\ run.back = "none" /\ (Complete => run.kept)
<1>1. run.pc # "idle" /\ run \in RunRec /\ run.kind \in Kinds /\ log.result = "none" /\ log \in LogRec /\ list \in Lists
  BY AtWork DEF BoxInv, BoxTypes
<1>2. TakesDown(run) /\ BackupWhole /\ Agreed BY DEF BoxInv, Fits, RunFits
<1> QED BY <1>1, <1>2 DEF TakesDown

\* A step of a taking down goes on at a: the version is there or gone.
Downward(a) == /\ run' \in RunRec /\ run'.pc = a /\ run'.back = run.back /\ run'.kind = run.kind /\ run'.kept = run.kept

\* A step within a taking down may take the module's state away and is silent or a taking down to
\* the contract.
LEMMA DownMoves ==
    ASSUME BoxInv, run.pc \in DownPcs, NEW a \in DownPcs, Downward(a), Silent, backup' = backup, run.kind = "remove" \/ a # "leftovers",
           Installed' \in {Installed, None}, manifest' \in {manifest, None}, version' \in {version, None},
           a \in {"t_version", "t_reload", "leftovers"} => manifest' = None, a \in {"t_reload", "leftovers"} => version' = None,
           a = "leftovers" => list' = NoList
    PROVE  Fits' /\ AbsNext
<1>1. /\ run \in RunRec /\ log.result = "none" /\ BackupWhole /\ Agreed
      /\ \/ run.kind = "install" /\ run.back = "rollback" /\ ~Complete /\ J = None
         \/ run.kind = "remove" /\ run.back = "none" /\ (Complete => run.kept) BY AtTakeDown
<1>2. Complete' = Complete /\ J' = J /\ BackupWhole' /\ Agreed' BY <1>1 DEF Complete, J, BackupWhole, Agreed, Silent
<1>3. Fits'
  BY <1>1, <1>2 DEF Kinds, Downward, Silent, Fits, NotSaid, RunFits, TodoFits, Same, Fore, Restores, Drops, Installs, Updates, TakesDown, InKind
<1>4. AbsNext
  <2>1. CASE Installed' = Installed BY <2>1, StutterIs DEF Silent, Downward
  <2>2. CASE Installed' = None BY <1>1, <2>2, CommitIs DEF Silent, Downward, None
  <2> QED BY <2>1, <2>2
<1> QED BY <1>3, <1>4

\* A taking down is over: the run says so, or a remove goes on to what a half-done update left.
LEMMA TeardownEndKeeps ==
    ASSUME BoxInv, run.pc \in DownPcs, NEW bad \in BOOLEAN, TeardownEnd(bad), latest' = latest, was' = was, backup' = backup,
           manifest' = manifest, version' = version, bad => list' = list, ~bad => manifest = None /\ version = None /\ list' = NoList
    PROVE  Fits' /\ AbsNext /\ run' \in RunRec /\ log' \in LogRec
<1>1. /\ run \in RunRec /\ log.result = "none" /\ log \in LogRec /\ BackupWhole /\ Agreed
      /\ \/ run.kind = "install" /\ run.back = "rollback" /\ ~Complete /\ J = None
         \/ run.kind = "remove" /\ run.back = "none" /\ (Complete => run.kept) BY AtTakeDown
<1>2. Complete' = Complete /\ J' = J /\ BackupWhole' /\ Agreed' /\ run.pc # "idle" BY <1>1 DEF Complete, J, BackupWhole, Agreed
<1>3. (~Complete => Installed = manifest /\ Installed' = manifest) /\ (bad => Installed' = Installed)
  BY <1>2 DEF Complete, Installed, modulePresent
<1>4. CASE run.back = "rollback"
  <2> PICK r : r = IF bad THEN "incomplete" ELSE "rolled_back" OBVIOUS
  <2>1. End(r) /\ r \in Results BY <1>4 DEF TeardownEnd, Results
  <2>2. r = "rolled_back" => Installed = J BY <1>1, <1>3, <1>4
  <2>3. Installed' = Installed /\ r # "ok" /\ r # "refused" BY <1>1, <1>3, <1>4
  <2> QED BY <1>2, <2>1, <2>2, <2>3, EndKeeps
<1>5. CASE run.back # "rollback" /\ bad
  <2>1. End("failed") BY <1>5 DEF TeardownEnd
  <2> QED BY <1>2, <1>3, <1>5, <2>1, EndKeeps DEF Results
<1>6. CASE run.back # "rollback" /\ ~bad /\ ~run.kept
  <2>1. End("ok") BY <1>6 DEF TeardownEnd
  <2>2. run.kind = "remove" /\ ~Complete BY <1>1, <1>6
  <2>3. Installed = 0 /\ Installed' = Installed BY <1>3, <1>6, <2>2 DEF None
  <2> QED BY <1>2, <2>1, <2>2, <2>3, EndKeeps DEF Results
<1>7. CASE run.back # "rollback" /\ ~bad /\ run.kept /\ backup.new = None
  <2>1. End("failed") BY <1>7 DEF TeardownEnd
  <2>2. None \notin Versions BY Numbers DEF None
  <2>3. ~Complete BY <1>1, <1>7, <2>2 DEF BackupWhole
  <2> QED BY <1>2, <1>3, <1>7, <2>1, <2>3, EndKeeps DEF Results
<1>8. CASE run.back # "rollback" /\ ~bad /\ run.kept /\ backup.new # None
  <2>1. run' = [run EXCEPT !.pc = "leftovers", !.todo = DOMAIN FilesOf[backup.new], !.bad = FALSE] /\ log' = log
    BY <1>8 DEF TeardownEnd
  <2>2. backup.new \in Versions
    <3>1. backup.new \in 0 .. Newest BY DEF BoxInv, BoxTypes, BackupRec
    <3> QED BY <1>8, <3>1, Numbers DEF None
  <2>3. DOMAIN FilesOf[backup.new] \subseteq Paths BY <2>2, ListsOf
  <2>4. Downward("leftovers") BY <1>1, <2>1, <2>3 DEF Downward, RunRec, Pcs
  <2>5. Installed' = None BY <1>8 DEF Installed, modulePresent
  <2>6. Silent /\ run.kind = "remove" BY <1>1, <1>8, <2>1 DEF Silent
  <2>7. Fits' /\ AbsNext BY <1>8, <2>4, <2>5, <2>6, DownMoves
  <2> QED BY <1>1, <2>1, <2>4, <2>7 DEF Downward
<1> QED BY <1>4, <1>5, <1>6, <1>7, <1>8

\* Stopping the module to take it down is a step of the contract.
LEMMA teardownStopKeeps == ASSUME BoxInv, teardownStop PROVE BoxInv' /\ AbsNext
<1>1. Stays /\ latest' = latest /\ was' = was /\ disk' = disk /\ run.pc = "t_stop" BY DEF teardownStop, Stays, Rest
<1>2. run \in RunRec /\ log \in LogRec /\ list \in Lists /\ unit \in UnitRec BY DEF BoxInv, BoxTypes
<1>3. Installed' = Installed BY <1>1 DEF Stays, Installed, modulePresent
<1>4. Fits' /\ AbsNext /\ run' \in RunRec /\ log' \in LogRec /\ unit' \in UnitRec
  <2>1. CASE /\ unit' = [active |-> FALSE, enabled |-> FALSE] /\ log' = log
             /\ run' = [run EXCEPT !.pc = "t_files", !.todo = Listed(Doomed)]
    <3>1. Listed(Doomed) \subseteq Paths BY DEF Listed
    <3>2. Downward("t_files") BY <1>2, <2>1, <3>1 DEF Downward, RunRec, Pcs
    <3>3. Fits' /\ AbsNext BY <1>1, <1>3, <2>1, <3>2, DownMoves DEF Stays, Silent
    <3> QED BY <1>2, <2>1, <3>2, <3>3 DEF Downward, UnitRec
  <2>2. CASE unit' = unit /\ TeardownEnd(TRUE) BY <1>1, <1>2, <2>2, TeardownEndKeeps DEF Stays
  <2> QED BY <2>1, <2>2 DEF teardownStop
<1> QED BY <1>1, <1>4 DEF Stays, BoxInv, BoxTypes

\* Deleting a file of the module, or one left over, is a step of the contract.
LEMMA teardownFileKeeps == ASSUME BoxInv, NEW p \in Paths, teardownFile(p) \/ Leftover(p) PROVE BoxInv' /\ AbsNext
<1>1. Stays /\ Silent /\ unit' = unit /\ run.pc \in {"t_files", "leftovers"} BY DEF teardownFile, Leftover, Stays, Silent, Rest
<1>2. run \in RunRec /\ disk \in [Paths -> Bytes] BY DEF BoxInv, BoxTypes
<1>3. Installed' = Installed BY <1>1 DEF Stays, Installed, modulePresent
<1> PICK a : a = run.pc OBVIOUS
<1>4. Downward(a)
  <2>1. CASE run' = [run EXCEPT !.todo = @ \ {p}] BY <1>2, <2>1 DEF Downward, RunRec
  <2>2. CASE run' = [run EXCEPT !.todo = @ \ {p}, !.bad = TRUE] BY <1>2, <2>2 DEF Downward, RunRec
  <2>3. CASE run' = [run EXCEPT !.todo = @ \ {p}, !.bad = @ \/ holds(p, ListOf(backup.new)[p]) = "other"]
    <3> PICK b : b = (run.bad \/ holds(p, ListOf(backup.new)[p]) = "other") OBVIOUS
    <3>1. run' = [run EXCEPT !.todo = @ \ {p}, !.bad = b] /\ b \in BOOLEAN BY <2>3
    <3> QED BY <1>2, <3>1 DEF Downward, RunRec
  <2> QED BY <2>1, <2>2, <2>3 DEF teardownFile, Leftover
<1>5. disk' \in [Paths -> Bytes]
  <2>1. disk' = [disk EXCEPT ![p] = None] \/ disk' = disk BY DEF teardownFile, Leftover
  <2> QED BY <1>2, <2>1 DEF Bytes
<1>6. a = "leftovers" => manifest = None /\ version = None /\ list = NoList /\ run.kind = "remove"
  <2>1. TakesDown(run) BY DEF BoxInv, Fits, RunFits
  <2> QED BY <1>1, <2>1 DEF TakesDown
<1>7. Fits' /\ AbsNext BY <1>1, <1>3, <1>4, <1>6, DownMoves DEF Stays
<1> QED BY <1>1, <1>4, <1>5, <1>7 DEF Stays, Silent, Downward, BoxInv, BoxTypes

\* The end of the deletions is a step of the contract.
LEMMA teardownFilesEndKeeps == ASSUME BoxInv, teardownFilesEnd PROVE BoxInv' /\ AbsNext
<1>1. Stays /\ latest' = latest /\ was' = was /\ disk' = disk /\ unit' = unit /\ run.pc = "t_files" BY DEF teardownFilesEnd, Stays, Rest, box
<1>2. run \in RunRec /\ log \in LogRec BY DEF BoxInv, BoxTypes
<1>3. Installed' = Installed BY <1>1 DEF Stays, Installed, modulePresent
<1>4. Fits' /\ AbsNext /\ run' \in RunRec /\ log' \in LogRec
  <2>1. CASE Goto("t_manifest") /\ log' = log
    <3>1. Downward("t_manifest") BY <1>2, <2>1 DEF Goto, Downward, RunRec, Pcs
    <3> QED BY <1>1, <1>2, <1>3, <2>1, <3>1, DownMoves DEF Stays, Silent, Downward
  <2>2. CASE TeardownEnd(TRUE) BY <1>1, <2>2, TeardownEndKeeps DEF Stays
  <2> QED BY <2>1, <2>2 DEF teardownFilesEnd
<1> QED BY <1>1, <1>4 DEF Stays, BoxInv, BoxTypes

\* The manifest goes, and then the version: the version that the box has is gone with the last of them, or before.
LEMMA teardownStateKeeps == ASSUME BoxInv, teardownState PROVE BoxInv' /\ AbsNext
<1>1. Silent /\ disk' = disk /\ unit' = unit /\ list' = list /\ backup' = backup BY DEF teardownState, Silent, Rest
<1>2. run \in RunRec /\ manifest \in 0 .. latest /\ version \in 0 .. latest /\ 0 \in 0 .. latest BY Numbers DEF BoxInv, BoxTypes
<1>3. CASE run.pc = "t_manifest" /\ manifest' = None /\ Goto("t_version") /\ UNCHANGED version
  <2>1. Downward("t_version") BY <1>2, <1>3 DEF Goto, Downward, RunRec, Pcs
  <2>2. Installed' \in {Installed, None} BY <1>1, <1>3 DEF Installed, modulePresent
  <2>3. Fits' /\ AbsNext BY <1>1, <1>3, <2>1, <2>2, DownMoves
  <2> QED BY <1>1, <1>2, <1>3, <2>1, <2>3 DEF Silent, Downward, None, BoxInv, BoxTypes
<1>4. CASE run.pc = "t_version" /\ version' = None /\ Goto("t_reload") /\ UNCHANGED manifest
  <2>1. Downward("t_reload") BY <1>2, <1>4 DEF Goto, Downward, RunRec, Pcs
  <2>2. TakesDown(run) BY DEF BoxInv, Fits, RunFits
  <2>3. manifest = None BY <1>4, <2>2 DEF TakesDown
  <2>4. Installed' \in {Installed, None} BY <1>1, <1>4, <2>3 DEF Installed, modulePresent
  <2>5. Fits' /\ AbsNext BY <1>1, <1>4, <2>1, <2>3, <2>4, DownMoves
  <2> QED BY <1>1, <1>2, <1>4, <2>1, <2>5 DEF Silent, Downward, None, BoxInv, BoxTypes
<1> QED BY <1>3, <1>4 DEF teardownState

\* A state file that cannot be removed is a step of the contract.
LEMMA teardownStateFailsKeeps == ASSUME BoxInv, teardownStateFails PROVE BoxInv' /\ AbsNext
<1>1. Stays /\ latest' = latest /\ was' = was /\ disk' = disk /\ unit' = unit /\ run.pc \in {"t_manifest", "t_version"} /\ TeardownEnd(TRUE)
  BY DEF teardownStateFails, Stays, Rest, box
<1>2. Fits' /\ AbsNext /\ run' \in RunRec /\ log' \in LogRec BY <1>1, TeardownEndKeeps DEF Stays
<1> QED BY <1>1, <1>2 DEF Stays, BoxInv, BoxTypes

\* The lists go last.
LEMMA teardownReloadKeeps == ASSUME BoxInv, teardownReload PROVE BoxInv' /\ AbsNext
<1>1. /\ disk' = disk /\ manifest' = manifest /\ version' = version /\ unit' = unit /\ backup' = backup
      /\ latest' = latest /\ was' = was /\ run.pc = "t_reload" BY DEF teardownReload, Rest
<1>2. TakesDown(run) /\ list \in Lists BY DEF BoxInv, BoxTypes, Fits, RunFits
<1>3. manifest = None /\ version = None BY <1>1, <1>2 DEF TakesDown
<1>4. Fits' /\ AbsNext /\ run' \in RunRec /\ log' \in LogRec /\ list' \in Lists
  <2>1. CASE list' = NoList /\ TeardownEnd(FALSE) BY <1>1, <1>3, <2>1, NothingIs, TeardownEndKeeps
  <2>2. CASE list' = list /\ TeardownEnd(TRUE) BY <1>1, <1>2, <2>2, TeardownEndKeeps
  <2> QED BY <2>1, <2>2 DEF teardownReload
<1> QED BY <1>1, <1>4 DEF BoxInv, BoxTypes

\* The end of the search for leftovers is a step of the contract.
LEMMA LeftoversEndKeeps == ASSUME BoxInv, LeftoversEnd PROVE BoxInv' /\ AbsNext
<1>1. Stays /\ latest' = latest /\ was' = was /\ disk' = disk /\ unit' = unit /\ run.pc = "leftovers" BY DEF LeftoversEnd, Stays, Rest, box
<1>2. TakesDown(run) BY DEF BoxInv, Fits, RunFits
<1>3. manifest = None /\ version = None /\ list = NoList /\ run.kind = "remove" BY <1>1, <1>2 DEF TakesDown
<1>4. Installed = 0 /\ Installed' = Installed /\ BackupWhole' /\ Agreed'
  BY <1>1, <1>3 DEF Stays, Installed, modulePresent, None, BoxInv, Fits, BackupWhole, Agreed, Complete
<1> PICK r : r = IF run.bad THEN "failed" ELSE "ok" OBVIOUS
<1>5. End(r) /\ r \in {"failed", "ok"} BY DEF LeftoversEnd
<1>6. Fits' /\ AbsNext /\ run' \in RunRec /\ log' \in LogRec BY <1>1, <1>3, <1>4, <1>5, EndKeeps DEF Results
<1> QED BY <1>1, <1>6 DEF Stays, BoxInv, BoxTypes

-------------------------------------------------------------------------------
(* Everything else that happens, and the theorems. *)
\* What leaves the run, the log and the state of the module alone disturbs nothing.
LEMMA AsideFits == ASSUME BoxInv, Stays, run' = run, log' = log, was'.installed = was.installed, latest' \in {latest, latest + 1}
                   PROVE  Fits' /\ Installed' = Installed
<1>1. latest \in Nat /\ backup \in BackupRec /\ run \in RunRec BY Numbers DEF BoxInv, BoxTypes
<1>2. Complete' = Complete /\ J' = J /\ modulePresent' = modulePresent /\ Installed' = Installed
  BY DEF Stays, Complete, J, modulePresent, Installed
<1>3. BackupWhole /\ Agreed /\ NotSaid /\ RunFits(run) BY DEF BoxInv, Fits
<1>4. \A n : n \in 1 .. latest => n \in 1 .. latest' BY <1>1
<1>5. BackupWhole' /\ Agreed' BY <1>2, <1>3, <1>4 DEF BackupWhole, Agreed, Stays
<1>6. NotSaid' BY <1>3 DEF NotSaid
<1>7. TodoFits(run)' /\ Same(run)' /\ Fore(run)' /\ Restores(run)' /\ Drops(run)' /\ InKind(run)' /\ TakesDown(run)'
  BY <1>2, <1>3 DEF RunFits, TodoFits, Same, Fore, Restores, Drops, InKind, TakesDown, Stays
<1>8. Installs(run)' BY <1>2, <1>3, <1>4 DEF RunFits, Installs, Stays
<1>9. Updates(run)' BY <1>2, <1>3, <1>4 DEF RunFits, Updates, Stays
<1> QED BY <1>2, <1>5, <1>6, <1>7, <1>8, <1>9 DEF Fits, RunFits

\* The process is killed: the run is cut short and nothing was said.
LEMMA KillKeeps == ASSUME BoxInv, Kill PROVE BoxInv' /\ AbsNext
<1>1. /\ Stays /\ Silent /\ disk' = disk /\ unit' = unit /\ run # NoRun /\ run' = NoRun BY DEF Kill, Stays, Silent, box
<1>2. run.kind \in Kinds /\ log.result = "none" BY <1>1 DEF BoxInv, Fits, NotSaid
<1>3. BackupWhole' /\ Agreed' /\ Installed' = Installed
  BY <1>1 DEF BoxInv, Fits, BackupWhole, Agreed, Complete, Installed, modulePresent, Stays, Silent
<1>4. Fits' /\ run'.kind = "none" BY <1>1, <1>3, OverFits, NoRunIs
<1>5. AbsNext BY <1>1, <1>2, <1>3, <1>4, EndIs DEF Silent, Results
<1> QED BY <1>1, <1>4, <1>5, NothingIs DEF Stays, Silent, BoxInv, BoxTypes

\* Somebody edits a file or stops the unit; the catalogue names a later version.
LEMMA AsideKeeps == ASSUME BoxInv, OwnerStops \/ Release \/ \E p \in Paths, c \in {None, Other} : Edit(p, c) PROVE BoxInv' /\ AbsNext
<1>1. CASE OwnerStops
  <2>1. Stays /\ Silent /\ run' = run /\ disk' = disk BY <1>1 DEF OwnerStops, Stays, Silent
  <2>2. unit' \in UnitRec BY <1>1 DEF OwnerStops, BoxInv, BoxTypes, UnitRec
  <2>3. Fits' /\ Installed' = Installed BY <2>1, AsideFits DEF Silent
  <2>4. AbsNext BY <2>1, <2>3, StutterIs DEF Silent
  <2> QED BY <2>1, <2>2, <2>3, <2>4 DEF Stays, Silent, BoxInv, BoxTypes
<1>2. CASE Release
  <2>1. Stays /\ run' = run /\ log' = log /\ was' = was /\ disk' = disk /\ unit' = unit /\ latest < Newest /\ latest' = latest + 1
    BY <1>2 DEF Release, Stays, box
  <2>2. Fits' /\ Installed' = Installed BY <2>1, AsideFits
  <2>3. AbsNext BY <2>1, <2>2 DEF AbsNext, Abstract!Next, Abstract!Release
  <2>4. latest \in 1 .. Newest /\ Newest \in Nat /\ manifest \in 0 .. latest /\ version \in 0 .. latest BY Numbers DEF BoxInv, BoxTypes
  <2>5. latest' \in 1 .. Newest /\ manifest' \in 0 .. latest' /\ version' \in 0 .. latest' BY <2>1, <2>4 DEF Stays
  <2> QED BY <2>1, <2>2, <2>3, <2>5 DEF Stays, BoxInv, BoxTypes
<1>3. CASE \E p \in Paths, c \in {None, Other} : Edit(p, c)
  <2> PICK p \in Paths, c \in {None, Other} : Edit(p, c) BY <1>3
  <2>1. Stays /\ run' = run /\ log' = log /\ latest' = latest /\ unit' = unit BY DEF Edit, Stays
  <2>2. disk' \in [Paths -> Bytes] BY DEF Edit, BoxInv, BoxTypes, Bytes
  <2>3. was' \in WasRec /\ was'.installed = was.installed BY DEF Edit, BoxInv, BoxTypes, WasRec
  <2>4. Fits' /\ Installed' = Installed BY <2>1, <2>3, AsideFits
  <2>5. AbsNext BY <2>1, <2>3, <2>4, StutterIs
  <2> QED BY <2>1, <2>2, <2>3, <2>4, <2>5 DEF Stays, BoxInv, BoxTypes
<1> QED BY <1>1, <1>2, <1>3

\* A run takes the lock.
LEMMA BeginKeeps == ASSUME BoxInv, NEW k \in Kinds, Begin(k) PROVE BoxInv' /\ AbsNext
<1>1. /\ Stays /\ disk' = disk /\ unit' = unit /\ latest' = latest /\ run = NoRun /\ log' = [kind |-> k, result |-> "none"]
      /\ run' = [NoRun EXCEPT !.kind = k, !.pc = "recover"] /\ was' = [was EXCEPT !.installed = Installed]
  BY DEF Begin, Stays, box
<1>2. /\ run' \in RunRec /\ run'.kind = k /\ run'.pc = "recover" /\ run'.backed = NoRun.backed
  BY <1>1, NothingIs DEF RunRec, Pcs
<1>3. Installed \in 0 .. Newest BY Numbers DEF Installed, BoxInv, BoxTypes, BackupRec
<1>4. was' \in WasRec /\ was'.installed = Installed /\ log' \in LogRec /\ log'.result = "none" BY <1>1, <1>3 DEF BoxInv, BoxTypes, WasRec, LogRec, Results
<1>5. BackupWhole' /\ Agreed' /\ Installed' = Installed
  BY <1>1 DEF BoxInv, Fits, BackupWhole, Agreed, Complete, Installed, modulePresent, Stays
<1>6. J' = Installed' BY <1>4, <1>5 DEF J
<1>7. Fits' BY <1>2, <1>4, <1>5, <1>6, NoRunIs DEF Fits, NotSaid, RunFits, TodoFits, Same, Fore, Restores, Drops, Installs, Updates, TakesDown, InKind
<1>8. Abstract!Begin(k) BY <1>1, <1>2, <1>4, <1>5, NoRunIs DEF Abstract!Begin
<1>9. AbsNext BY <1>8 DEF AbsNext, Abstract!Next, Abstract!Kinds, Kinds
<1> QED BY <1>1, <1>2, <1>4, <1>7, <1>9 DEF Stays, BoxInv, BoxTypes

\* Every step of the system keeps what is known, and is a step of ModuleSpec.
LEMMA BoxStep == ASSUME Droppable, BoxInv, [Next]_vars PROVE BoxInv' /\ AbsNext
<1>1. CASE UNCHANGED vars
  <2>1. Stays /\ Silent /\ run' = run /\ disk' = disk /\ unit' = unit BY <1>1 DEF vars, box, Stays, Silent
  <2>2. Fits' /\ Installed' = Installed BY <2>1, AsideFits DEF Silent
  <2>3. AbsNext BY <2>1, <2>2, StutterIs DEF Silent
  <2> QED BY <2>1, <2>2, <2>3 DEF Stays, Silent, BoxInv, BoxTypes
<1>2. CASE Step
  <2>1. CASE \/ recoverUpdate \/ Admit \/ StepQuiet \/ Done \/ Unpack \/ (\E p \in Paths : Write(p)) \/ Record \/ stepVersion
             \/ stepManifest \/ stepStart
    BY <2>1, recoverUpdateKeeps, AdmitKeeps, StepQuietKeeps, DoneKeeps, UnpackKeeps, WriteKeeps, RecordKeeps, stepVersionKeeps,
       stepManifestKeeps, stepStartKeeps
  <2>2. CASE Stage \/ stepBackup \/ backupDone \/ stepStop \/ SwapPutDone \/ SwapState \/ SwapFails
    BY <2>2, StageKeeps, stepBackupKeeps, backupDoneKeeps, stepStopKeeps, SwapPutDoneKeeps, SwapStateKeeps, SwapFailsKeeps
  <2>3. CASE \E p \in Paths : SwapPut(p) \/ SwapDelete(p) \/ putBack(p) \/ putBackRemove(p) \/ teardownFile(p) \/ Leftover(p)
    BY <2>3, SwapPutKeeps, SwapDeleteKeeps, putBackKeeps, teardownFileKeeps
  <2>4. CASE removeBackup \/ readBackup \/ putBackDecide \/ putBackStop \/ putBackState \/ restoreUnits \/ settleUnits
    BY <2>4, removeBackupKeeps, readBackupKeeps, putBackDecideKeeps, putBackStopKeeps, putBackStateKeeps, restoreUnitsKeeps, settleUnitsKeeps
  <2>5. CASE teardownStop \/ teardownFilesEnd \/ teardownState \/ teardownStateFails \/ teardownReload \/ LeftoversEnd
    BY <2>5, teardownStopKeeps, teardownFilesEndKeeps, teardownStateKeeps, teardownStateFailsKeeps, teardownReloadKeeps, LeftoversEndKeeps
  <2> QED BY <1>2, <2>1, <2>2, <2>3, <2>4, <2>5 DEF Step
<1>3. CASE Kill BY <1>3, KillKeeps
<1>4. CASE OwnerStops \/ Release \/ \E p \in Paths, c \in {None, Other} : Edit(p, c) BY <1>4, AsideKeeps
<1>5. CASE \E k \in {"install", "update", "remove"} : Begin(k) BY <1>5, BeginKeeps DEF Kinds
<1> QED BY <1>1, <1>2, <1>3, <1>4, <1>5 DEF Next

\* A box without the module is where everything begins.
LEMMA BoxBegins == ASSUME Init PROVE BoxInv /\ Abstract!Init
<1>1. manifest = 0 /\ version = 0 /\ latest = 1 /\ run = NoRun /\ backup = NoBackup /\ list = NoList BY DEF Init, None
<1>2. backup.mark = "none" /\ run.pc = "idle" /\ run.kind = "none" BY <1>1, NoRunIs DEF NoBackup
<1>3. disk \in [Paths -> Bytes] /\ unit \in UnitRec /\ log \in LogRec /\ log.result = "none"
  BY DEF Init, Bytes, UnitRec, LogRec, Results
<1>4. was \in WasRec /\ was.installed = 0
  <2>1. was = [disk |-> disk, list |-> list, version |-> None, installed |-> None, active |-> FALSE, edited |-> {}, kept |-> FALSE] BY DEF Init
  <2> QED BY <1>1, <1>3, <2>1, NothingIs, Numbers DEF WasRec, None
<1>5. BoxTypes BY <1>1, <1>3, <1>4, NothingIs, Numbers DEF BoxTypes
<1>6. Fits
  BY <1>1, <1>2 DEF Fits, BackupWhole, Agreed, None, Complete, NotSaid, RunFits, TodoFits, Same, Fore, Restores, Drops, Installs, Updates, TakesDown, InKind
<1>7. Installed = 0 BY <1>1, <1>2 DEF Installed
<1> QED BY <1>1, <1>2, <1>3, <1>4, <1>5, <1>6, <1>7 DEF BoxInv, Abstract!Init

\* Where a run is, what it has done to the version, the lists and the backup is known, for any versions, files, runs, kills and
\* faults, as long as the mark of a backup whose module is gone can be taken away (update.go recoverUpdate, removeBackup).
THEOREM BoxInvariant == ASSUME Droppable PROVE Spec => []BoxInv
<1>1. Init => BoxInv BY BoxBegins
<1>2. BoxInv /\ [Next]_vars => BoxInv' BY BoxStep
<1> QED BY <1>1, <1>2, PTL DEF Spec

\* Every run of the assistant, its undoing and its recovery, killed between any two writes, is a job of ModuleSpec: the version
\* on the box changes at one instant, a run that says it is done did change it, and one that says it was rolled back or refused
\* did not (install.go, update.go, remove.go).
THEOREM BoxImplements == ASSUME Droppable PROVE Spec => Implements
<1>1. Init => Abstract!Init BY BoxBegins
<1>2. BoxInv /\ [Next]_vars => [Abstract!Next]_(Abstract!vars) BY BoxStep DEF AbsNext
<1> QED BY <1>1, <1>2, BoxInvariant, PTL DEF Spec, Implements, Abstract!Spec


-------------------------------------------------------------------------------
(* The files that are somebody else's. *)
Works == InstallPcs \cup BeforeSwap \cup SwapPcs
\* What holds of the place of a run whatever failed: the version of the run is one of the catalogue once it is admitted, the
\* steps of an install are no update's, and what a putting back goes on to is set.
Aims(o) == /\ o.pc \in Works => o.target \in Versions /\ o.kind \in {"install", "update"}
           /\ o.pc \in {"write", "swap"} => o.todo \subseteq DOMAIN FilesOf[o.target]
           /\ o.pc \in {"write", "manifest", "manifest2", "done"} => o.kind = "install"
           /\ o.pc \in {"backup", "backup2", "stop", "swap", "swap_del", "s_manifest", "s_version"} => o.kind = "update"
           /\ o.pc # "idle" => o.kind \in Kinds
           /\ o.pc \in BackPcs => o.back \in {"recover", "rollback"}
           /\ o.pc = "drop" => o.back # "none"
           /\ o.pc = "leftovers" => backup.new \in Versions
AnyTypes == /\ disk \in [Paths -> Bytes] /\ list \in Lists /\ manifest \in 0 .. Newest /\ version \in 0 .. Newest
            /\ unit \in UnitRec /\ backup \in BackupRec /\ latest \in 1 .. Newest /\ run \in RunRec
            /\ log \in LogRec /\ was \in WasRec
Typed == AnyTypes /\ Aims(run) /\ edits \in Nat
\* The types of what a step writes of the run and of its log.
RunTyped == run' \in RunRec /\ log' \in LogRec /\ Aims(run)'

\* A run that goes on with the same job, at a place that asks for nothing new.
LEMMA TypedOn == ASSUME Typed, run.pc # "idle", run' \in RunRec, run'.kind = run.kind, run'.target = run.target, log' = log,
                        run'.pc = "idle" => FALSE,
                        run'.pc \in Works => run.pc \in Works,
                        run'.pc \in {"write", "swap"} => run'.todo \subseteq DOMAIN FilesOf[run.target],
                        run'.pc \in {"write", "manifest", "manifest2", "done"} => run.kind = "install",
                        run'.pc \in {"backup", "backup2", "stop", "swap", "swap_del", "s_manifest", "s_version"} => run.kind = "update",
                        run'.pc \in BackPcs => run'.back \in {"recover", "rollback"},
                        run'.pc = "drop" => run'.back # "none",
                        run'.pc = "leftovers" => backup'.new \in Versions
                 PROVE  RunTyped
BY DEF Typed, AnyTypes, Aims, RunTyped

\* A run that ends leaves a well formed record.
LEMMA TypedEnd == ASSUME Typed, NEW r \in Results, End(r) PROVE RunTyped
<1>1. run' = NoRun /\ run' \in RunRec /\ run'.pc = "idle" BY NothingIs, NoRunIs DEF End
<1>2. log' \in LogRec BY DEF End, Typed, AnyTypes, LogRec
<1> QED BY <1>1, <1>2 DEF Aims, RunTyped, Works

\* A run that fails goes to a well formed record of its taking down, its rollback or its end.
LEMMA TypedFailed == ASSUME Typed, run.pc \in Works, NEW r \in RunRec, r.target = run.target, r.kind = run.kind, failed(r) PROVE RunTyped
<1>1. r.kind \in {"install", "update"} BY DEF Typed, Aims
<1>2. CASE End("rolled_back") BY <1>2, TypedEnd DEF Results
<1>3. CASE \E a \in {"t_stop", "r_read"} : run' = [r EXCEPT !.pc = a, !.back = "rollback"] /\ log' = log
  <2> PICK a \in {"t_stop", "r_read"} : run' = [r EXCEPT !.pc = a, !.back = "rollback"] /\ log' = log BY <1>3
  <2>1. run' \in RunRec /\ run'.pc = a /\ run'.back = "rollback" /\ run'.kind = r.kind /\ run'.target = r.target BY DEF RunRec, Pcs, Backs
  <2> QED BY <2>1, TypedOn DEF Works
<1>4. CASE run' = [r EXCEPT !.pc = "drop", !.back = "failed"] /\ log' = log
  <2>1. run' \in RunRec /\ run'.pc = "drop" /\ run'.back = "failed" /\ run'.kind = r.kind /\ run'.target = r.target BY <1>4 DEF RunRec, Pcs, Backs
  <2> QED BY <1>4, <2>1, TypedOn DEF Works
<1> QED BY <1>1, <1>2, <1>3, <1>4 DEF failed

\* A run that goes to another step keeps its kind and its target.
LEMMA TypedGoto == ASSUME Typed, run.pc # "idle", NEW a \in Pcs, Goto(a), log' = log
                   PROVE  /\ run' \in RunRec /\ run'.pc = a /\ run'.kind = run.kind /\ run'.target = run.target /\ run'.back = run.back
                          /\ (a \in (DownPcs \ {"leftovers"}) \cup {"admit"} => RunTyped) /\ (a \in BackPcs /\ run.pc \in BackPcs => RunTyped)
                          /\ (a \in {"drop"} /\ run.pc \in BackPcs => RunTyped)
                          /\ (a \in {"manifest2", "start"} /\ run.kind = "install" /\ run.pc \in Works => RunTyped)
                          /\ (a \in {"backup2", "s_manifest", "s_version"} /\ run.kind = "update" /\ run.pc \in Works => RunTyped)
<1>1. run \in RunRec /\ Aims(run) BY DEF Typed, AnyTypes
<1>2. run' \in RunRec /\ run'.pc = a /\ run'.kind = run.kind /\ run'.target = run.target /\ run'.back = run.back BY <1>1 DEF RunRec, Goto
<1>3. ASSUME a \in (DownPcs \ {"leftovers"}) \cup {"admit"} PROVE RunTyped BY <1>2, <1>3, TypedOn DEF Works
<1>4. ASSUME a \in BackPcs \cup {"drop"}, run.pc \in BackPcs PROVE RunTyped
  <2>1. run.back \in {"recover", "rollback"} BY <1>1, <1>4 DEF Aims
  <2> QED BY <1>2, <1>4, <2>1, TypedOn DEF Works
<1>5. ASSUME a \in {"manifest2", "start"}, run.kind = "install", run.pc \in Works PROVE RunTyped BY <1>2, <1>5, TypedOn DEF Works
<1>6. ASSUME a \in {"backup2", "s_manifest", "s_version"}, run.kind = "update", run.pc \in Works PROVE RunTyped BY <1>2, <1>6, TypedOn DEF Works
<1> QED BY <1>2, <1>3, <1>4, <1>5, <1>6

\* A run that goes to its next step stays well formed.
LEMMA TypedAdvance == ASSUME Typed, NEW pc \in {"packages", "download", "verify", "units", "start", "route", "swap"}, Advance(pc), run.pc \in Works,
                             pc = "swap" => run.kind = "update", log' = log
                      PROVE  RunTyped
<1>1. run \in RunRec /\ run.kind \in {"install", "update"} BY DEF Typed, AnyTypes, Aims
<1> PICK a : a = NextStep(pc) OBVIOUS
<1>2. a \in {"download", "verify", "unpack", "units", "start", "route", "drop"} \/ (run.kind = "install" /\ a \in {"manifest", "done"})
  BY <1>1, InstallOrder, UpdateOrder
<1> PICK b : b = IF a = "drop" THEN "done" ELSE run.back OBVIOUS
<1>3. a \in Pcs /\ b \in Backs BY <1>1, <1>2 DEF RunRec, Backs, Pcs
<1>4. run' = [run EXCEPT !.pc = a, !.back = b] BY DEF Advance
<1>5. Goes(a, b) BY <1>1, <1>3, <1>4, GoesTo
<1> QED BY <1>2, <1>5, TypedOn DEF Goes, Works

\* The end of a restore leaves a well formed record.
LEMMA TypedRestoreEnd == ASSUME Typed, run.pc \in BackPcs \cup {"drop"}, NEW bad \in BOOLEAN, RestoreEnd(bad), run.back \in {"recover", "rollback"} PROVE RunTyped
<1>1. CASE run' = [run EXCEPT !.pc = "admit", !.kept = bad] /\ log' = log
  <2>1. run' \in RunRec /\ run'.pc = "admit" /\ run'.kind = run.kind /\ run'.target = run.target BY <1>1 DEF Typed, AnyTypes, RunRec, Pcs
  <2> QED BY <1>1, <2>1, TypedOn DEF Works
<1>2. CASE \E r \in {"incomplete", "left", "rolled_back"} : End(r) BY <1>2, TypedEnd DEF Results
<1> QED BY <1>1, <1>2 DEF RestoreEnd

\* The end of a taking down leaves a well formed record.
LEMMA TypedTeardownEnd == ASSUME Typed, run.pc \in DownPcs, NEW bad \in BOOLEAN, TeardownEnd(bad), backup' = backup PROVE RunTyped
<1>1. CASE \E r \in {"incomplete", "rolled_back", "ok", "failed"} : End(r) BY <1>1, TypedEnd DEF Results
<1>2. CASE /\ run' = [run EXCEPT !.pc = "leftovers", !.todo = DOMAIN FilesOf[backup.new], !.bad = FALSE] /\ log' = log
           /\ backup.new # None
  <2>1. run \in RunRec /\ backup.new \in 0 .. Newest BY DEF Typed, AnyTypes, BackupRec
  <2>2. backup.new \in Versions BY <1>2, <2>1, Numbers DEF None
  <2>3. DOMAIN FilesOf[backup.new] \subseteq Paths BY <2>2, ListsOf
  <2>4. run' \in RunRec /\ run'.pc = "leftovers" /\ run'.kind = run.kind /\ run'.target = run.target BY <1>2, <2>1, <2>3 DEF RunRec, Pcs
  <2> QED BY <1>2, <2>2, <2>4, TypedOn DEF Works
<1> QED BY <1>1, <1>2 DEF TeardownEnd

\* The end of the removal of the backup leaves a well formed record.
LEMMA TypedDropEnd == ASSUME Typed, run.pc = "drop", NEW marked \in BOOLEAN, NEW err \in BOOLEAN, DropEnd(marked, err) PROVE RunTyped
<1>1. run.back \in {"done", "failed", "admit", "recover", "rollback"} BY DEF Typed, AnyTypes, RunRec, Backs, Aims
<1>2. CASE \E r \in {"failed", "ok", "rolled_back"} : End(r) BY <1>2, TypedEnd DEF Results
<1>3. CASE Goto("admit") /\ log' = log BY <1>3, TypedGoto DEF Pcs
<1>4. CASE run.back \in {"recover", "rollback"} /\ RestoreEnd(err) BY <1>4, TypedRestoreEnd
<1> QED BY <1>1, <1>2, <1>3, <1>4 DEF DropEnd

\* The types are kept by the steps of a run that begins, installs or updates.
LEMMA TypedForward == ASSUME Typed, \/ recoverUpdate \/ Admit \/ StepQuiet \/ Done \/ Unpack \/ (\E p \in Paths : Write(p)) \/ Record \/ stepVersion
                                    \/ stepManifest \/ stepStart
                      PROVE  Typed'
<1>0. /\ run \in RunRec /\ log \in LogRec /\ Aims(run) /\ edits \in Nat /\ list \in Lists /\ disk \in [Paths -> Bytes] /\ unit \in UnitRec
      /\ latest \in 1 .. Newest /\ manifest \in 0 .. Newest /\ version \in 0 .. Newest /\ Newest \in Nat /\ backup \in BackupRec /\ was \in WasRec
  BY Numbers DEF Typed, AnyTypes
<1>1. CASE recoverUpdate
  <2> PICK a : a = IF backup.mark = "none" \/ (~modulePresent /\ run.kind = "remove") THEN "admit"
                   ELSE IF ~modulePresent THEN "drop" ELSE "r_read" OBVIOUS
  <2> PICK b : b = IF modulePresent THEN "recover" ELSE "admit" OBVIOUS
  <2>1. Goes(a, b) BY <1>0, <1>1, GoesTo DEF recoverUpdate, Pcs, Backs
  <2>2. log' = log /\ run.pc = "recover" BY <1>1 DEF recoverUpdate
  <2>3. a = "r_read" => b = "recover" OBVIOUS
  <2>4. RunTyped BY <2>1, <2>2, <2>3, TypedOn DEF Goes, Works
  <2> QED BY <1>1, <2>4 DEF recoverUpdate, Rest, box, Typed, AnyTypes, RunTyped
<1>2. CASE Admit
  <2>1. disk' = disk /\ list' = list /\ manifest' = manifest /\ version' = version /\ unit' = unit /\ backup' = backup /\ latest' = latest /\ edits' = edits
    BY <1>2 DEF Admit, box
  <2>2. CASE End("refused") /\ was' = was
    BY <2>1, <2>2, TypedEnd DEF Results, Typed, AnyTypes, RunTyped
  <2>3. CASE /\ run' = [run EXCEPT !.pc = IF run.kind = "remove" THEN "t_stop" ELSE "packages",
                                   !.back = "none", !.target = latest, !.bad = FALSE, !.left = FALSE]
             /\ was' = [was EXCEPT !.disk = disk, !.list = list, !.version = version, !.active = unit.active, !.edited = {},
                                   !.kept = @ \/ run.kept]
             /\ log' = log
    <3> PICK a : a = IF run.kind = "remove" THEN "t_stop" ELSE "packages" OBVIOUS
    <3>1. a \in Pcs /\ latest \in 0 .. Newest /\ version \in 0 .. Newest /\ latest \in Versions BY <1>0, Numbers DEF Pcs
    <3>2. run' = [run EXCEPT !.pc = a, !.back = "none", !.target = latest, !.bad = FALSE, !.left = FALSE] BY <2>3
    <3>3. run' \in RunRec /\ run'.pc = a /\ run'.target = latest /\ run'.kind = run.kind BY <1>0, <3>1, <3>2 DEF RunRec, Backs
    <3>4. was' \in WasRec BY <1>0, <2>3, <3>1 DEF WasRec, UnitRec, RunRec
    <3>5. run.kind \in Kinds BY <1>0, <1>2 DEF Admit, Aims
    <3>6. Aims(run)' BY <3>1, <3>3, <3>5 DEF Aims, Kinds, Works
    <3> QED BY <2>1, <2>3, <3>3, <3>4, <3>6 DEF Typed, AnyTypes
  <2> QED BY <1>2, <2>2, <2>3 DEF Admit
<1>3. CASE StepQuiet
  <2>1. run.pc \in Works BY <1>3 DEF StepQuiet, Works
  <2> PICK pc : pc = run.pc OBVIOUS
  <2> PICK r : r = run OBVIOUS
  <2>2. CASE Advance(pc) /\ log' = log
    <3>1. pc \in {"packages", "download", "verify", "units", "route"} BY <1>3 DEF StepQuiet
    <3>2. RunTyped BY <2>1, <2>2, <3>1, TypedAdvance
    <3> QED BY <1>3, <3>2 DEF StepQuiet, Rest, box, Typed, AnyTypes, RunTyped
  <2>3. CASE failed(r)
    <3>1. RunTyped BY <1>0, <2>1, <2>3, TypedFailed
    <3> QED BY <1>3, <3>1 DEF StepQuiet, Rest, box, Typed, AnyTypes, RunTyped
  <2> QED BY <1>3, <2>2, <2>3 DEF StepQuiet
<1>4. CASE Done
  <2>1. RunTyped BY <1>4, TypedEnd DEF Done, Results
  <2> QED BY <1>4, <2>1 DEF Done, Rest, box, Typed, AnyTypes, RunTyped
<1>5. CASE Unpack
  <2>1. run.pc \in Works /\ run.pc = "unpack" /\ run.kind = "install" BY <1>5 DEF Unpack, Works
  <2>2. run.target \in Versions BY <1>0, <2>1 DEF Aims
  <2> PICK mine : mine = stillTheirs(list) OBVIOUS
  <2>3. mine \in Lists BY <1>0, <2>2, ListsMade
  <2>4. plannedEntries(run.target, mine) \in Lists BY <2>2, <2>3, ListsMade
  <2>5. RunTyped /\ list' \in Lists
    <3>1. CASE list' = mine /\ failed([run EXCEPT !.begun = TRUE, !.unpacked = TRUE, !.written = mine])
      <4> PICK r : r = [run EXCEPT !.begun = TRUE, !.unpacked = TRUE, !.written = mine] OBVIOUS
      <4>1. r \in RunRec /\ r.target = run.target /\ r.kind = run.kind BY <1>0, <2>3 DEF RunRec
      <4>2. failed(r) BY <3>1
      <4> QED BY <2>1, <2>3, <3>1, <4>1, <4>2, TypedFailed
    <3>2. CASE /\ list' = plannedEntries(run.target, mine) /\ log' = log
               /\ run' = [run EXCEPT !.pc = "write", !.begun = TRUE, !.mine = mine, !.todo = DOMAIN FilesOf[run.target]]
      <4>1. DOMAIN FilesOf[run.target] \subseteq Paths BY <2>2, ListsOf
      <4>2. run' \in RunRec /\ run'.pc = "write" /\ run'.kind = run.kind /\ run'.target = run.target /\ run'.todo = DOMAIN FilesOf[run.target]
        BY <1>0, <2>3, <3>2, <4>1, ZenonT(60) DEF RunRec, Pcs
      <4> QED BY <2>1, <2>4, <3>2, <4>2, TypedOn DEF Works
    <3> QED BY <1>5, <3>1, <3>2 DEF Unpack
  <2> QED BY <1>5, <2>5 DEF Unpack, Rest, Typed, AnyTypes, RunTyped
<1>6. CASE \E p \in Paths : Write(p)
  <2> PICK p \in Paths : Write(p) BY <1>6
  <2>1. run.pc \in Works /\ run.pc = "write" /\ p \in run.todo BY DEF Write, Works
  <2>2. run.target \in Versions /\ run.todo \subseteq DOMAIN FilesOf[run.target] /\ run.kind = "install" BY <1>0, <2>1 DEF Aims
  <2>3. RunTyped /\ list' \in Lists /\ disk' \in [Paths -> Bytes]
    <3>1. CASE /\ disk' = [disk EXCEPT ![p] = FilesOf[run.target][p]]
               /\ run' = [run EXCEPT !.todo = @ \ {p}, !.written[p] = ListOf(run.target)[p]]
               /\ list' = list /\ log' = log
      <4>1. ListOf(run.target) \in Lists /\ FilesOf[run.target][p] \in Bytes BY <2>1, <2>2, ListsOf
      <4>2. run' \in RunRec /\ run'.pc = "write" /\ run'.kind = run.kind /\ run'.target = run.target /\ run'.todo \subseteq run.todo
        BY <1>0, <2>1, <3>1, <4>1 DEF RunRec, Lists
      <4>3. run'.todo \subseteq DOMAIN FilesOf[run.target] BY <2>2, <4>2
      <4>4. RunTyped BY <2>1, <2>2, <3>1, <4>2, <4>3, TypedOn DEF Works
      <4> QED BY <1>0, <3>1, <4>1, <4>4
    <3>2. CASE /\ list' = writtenEntries(run.mine, run.written) /\ disk' = disk
               /\ failed([run EXCEPT !.unpacked = TRUE, !.written = writtenEntries(run.mine, run.written)])
      <4> PICK r : r = [run EXCEPT !.unpacked = TRUE, !.written = writtenEntries(run.mine, run.written)] OBVIOUS
      <4>1. writtenEntries(run.mine, run.written) \in Lists BY <1>0, <2>2, ListsMade DEF RunRec
      <4>2. r \in RunRec /\ r.kind = run.kind /\ r.target = run.target BY <1>0, <4>1 DEF RunRec
      <4>3. failed(r) BY <3>2
      <4> QED BY <1>0, <2>1, <3>2, <4>1, <4>2, <4>3, TypedFailed
    <3> QED BY <3>1, <3>2 DEF Write
  <2> QED BY <2>3 DEF Write, Rest, Typed, AnyTypes, RunTyped
<1>7. CASE Record
  <2>1. run.pc \in Works /\ run.pc = "write" BY <1>7 DEF Record, Works
  <2>2. run.target \in Versions /\ run.kind = "install" BY <1>0, <2>1 DEF Aims
  <2> PICK l : l = writtenEntries(run.mine, run.written) OBVIOUS
  <2>3. l \in Lists BY <1>0, <2>2, ListsMade DEF RunRec
  <2> PICK r : r = [run EXCEPT !.unpacked = TRUE, !.written = l] OBVIOUS
  <2>4. r \in RunRec /\ r.kind = run.kind /\ r.target = run.target BY <1>0, <2>3 DEF RunRec
  <2>5. RunTyped /\ list' \in Lists
    <3>1. CASE list' = l /\ run' = [r EXCEPT !.pc = NextStep("unpack")] /\ log' = log
      <4>1. run' = [r EXCEPT !.pc = "units"] /\ "units" \in Pcs BY <2>2, <3>1, InstallOrder DEF Pcs
      <4>2. run' \in RunRec /\ run'.pc = "units" /\ run'.kind = r.kind /\ run'.target = r.target BY <2>4, <4>1, PlaceOnly
      <4>3. RunTyped BY <2>1, <2>4, <3>1, <4>2, TypedOn DEF Works
      <4> QED BY <2>3, <3>1, <4>3
    <3>2. CASE list' = list /\ failed(r) BY <1>0, <2>1, <2>4, <3>2, TypedFailed
    <3> QED BY <1>7, <3>1, <3>2 DEF Record
  <2> QED BY <1>7, <2>5 DEF Record, Rest, Typed, AnyTypes, RunTyped
<1>8. CASE stepVersion
  <2>1. run.pc \in Works /\ run.pc = "manifest" /\ Goto("manifest2") /\ log' = log /\ version' = run.target BY <1>8 DEF stepVersion, Works
  <2>2. run.target \in Versions /\ run.kind = "install" BY <1>0, <2>1 DEF Aims
  <2>3. RunTyped BY <2>1, <2>2, TypedGoto DEF Pcs
  <2>4. version' \in 0 .. Newest BY <1>0, <2>1 DEF RunRec
  <2> QED BY <1>8, <2>3, <2>4 DEF stepVersion, Rest, Typed, AnyTypes, RunTyped
<1>9. CASE stepManifest
  <2>1. run.pc \in Works /\ run.pc = "manifest2" BY <1>9 DEF stepManifest, Works
  <2>2. run.target \in 0 .. Newest /\ run.kind = "install" BY <1>0, <2>1 DEF Aims, RunRec
  <2>3. RunTyped /\ manifest' \in 0 .. Newest
    <3>1. CASE manifest' = run.target /\ Goto("start") /\ log' = log BY <2>1, <2>2, <3>1, TypedGoto DEF Pcs
    <3>2. CASE failed(run) /\ manifest' = manifest
      <4> PICK r : r = run OBVIOUS
      <4> QED BY <1>0, <2>1, <3>2, TypedFailed
    <3> QED BY <1>9, <3>1, <3>2 DEF stepManifest
  <2> QED BY <1>9, <2>3 DEF stepManifest, Rest, Typed, AnyTypes, RunTyped
<1>10. CASE stepStart
  <2>1. run.pc \in Works /\ run.pc = "start" BY <1>10 DEF stepStart, Works
  <2>2. RunTyped /\ unit' \in UnitRec
    <3>1. CASE /\ unit' = [active |-> TRUE, enabled |-> run.kind = "install" \/ run.before.enabled \/ unit.enabled]
               /\ Advance("start") /\ log' = log
      <4>1. unit' \in UnitRec BY <3>1 DEF UnitRec
      <4> QED BY <2>1, <3>1, <4>1, TypedAdvance
    <3>2. CASE failed(run) /\ unit' = unit
      <4> PICK r : r = run OBVIOUS
      <4> QED BY <1>0, <2>1, <3>2, TypedFailed
    <3> QED BY <1>10, <3>1, <3>2 DEF stepStart
  <2> QED BY <1>10, <2>2 DEF stepStart, Rest, Typed, AnyTypes, RunTyped
<1> QED BY <1>1, <1>2, <1>3, <1>4, <1>5, <1>6, <1>7, <1>8, <1>9, <1>10

\* The steps of an update keep the types.
LEMMA TypedUpdate == ASSUME Typed, \/ Stage \/ stepBackup \/ backupDone \/ stepStop \/ SwapPutDone \/ SwapState \/ SwapFails
                                   \/ \E p \in Paths : SwapPut(p) \/ SwapDelete(p)
                     PROVE  Typed'
<1>0. /\ run \in RunRec /\ log \in LogRec /\ Aims(run) /\ edits \in Nat /\ list \in Lists /\ disk \in [Paths -> Bytes] /\ unit \in UnitRec
      /\ latest \in 1 .. Newest /\ manifest \in 0 .. Newest /\ version \in 0 .. Newest /\ Newest \in Nat /\ backup \in BackupRec /\ was \in WasRec
  BY Numbers DEF Typed, AnyTypes
<1>1. run.pc \in Works BY DEF Stage, stepBackup, backupDone, stepStop, SwapPutDone, SwapState, SwapFails, SwapPut, SwapDelete, Works
<1>2. run.kind = "update" /\ run.target \in Versions /\ run.target \in 0 .. Newest
  BY <1>0, <1>1 DEF Stage, stepBackup, backupDone, stepStop, SwapPutDone, SwapState, SwapFails, SwapPut, SwapDelete, Aims, RunRec
<1> PICK r : r = run OBVIOUS
<1>3. failed(r) => RunTyped BY <1>0, <1>1, TypedFailed
<1>4. CASE Stage
  <2> PICK mine : mine = stillTheirs(list) OBVIOUS
  <2>1. mine \in Lists BY <1>0, <1>2, ListsMade
  <2>2. CASE run' = [run EXCEPT !.pc = "backup", !.mine = mine] /\ log' = log
    <3>1. run' \in RunRec /\ run'.pc = "backup" /\ run'.kind = run.kind /\ run'.target = run.target BY <1>0, <2>1, <2>2, ZenonT(60) DEF RunRec, Pcs
    <3>2. RunTyped BY <1>1, <1>2, <2>2, <3>1, TypedOn DEF Works
    <3> QED BY <1>4, <3>2 DEF Stage, Rest, box, Typed, AnyTypes, RunTyped
  <2>3. CASE failed(run) BY <1>3, <1>4, <2>3 DEF Stage, Rest, box, Typed, AnyTypes, RunTyped
  <2> QED BY <1>4, <2>2, <2>3 DEF Stage
<1>5. CASE stepBackup
  <2>1. RunTyped /\ backup' \in BackupRec
    <3>1. CASE backup' = [NoBackup EXCEPT !.mark = "partial"] /\ Goto("backup2") /\ log' = log
      <4>1. backup' \in BackupRec BY <3>1, NothingIs DEF BackupRec
      <4> QED BY <1>1, <1>2, <3>1, <4>1, TypedGoto DEF Pcs, Works
    <3>2. CASE failed(run) /\ backup' = backup BY <1>0, <1>3, <3>2
    <3> QED BY <1>5, <3>1, <3>2 DEF stepBackup
  <2> QED BY <1>5, <2>1 DEF stepBackup, Rest, box, Typed, AnyTypes, RunTyped
<1>6. CASE backupDone
  <2>1. RunTyped /\ backup' \in BackupRec
    <3>1. CASE /\ run' = [run EXCEPT !.pc = NextStep("backup"), !.backed = TRUE, !.before = unit] /\ log' = log
               /\ backup' = [mark |-> "complete", files |-> [p \in Paths |-> IF list[p] # {} THEN disk[p] ELSE None],
                             list |-> list, manifest |-> manifest, version |-> version, new |-> run.target, unit |-> unit]
      <4>1. run' = [run EXCEPT !.pc = "stop", !.backed = TRUE, !.before = unit] BY <1>2, <3>1, UpdateOrder
      <4>2. run' \in RunRec /\ run'.pc = "stop" /\ run'.kind = run.kind /\ run'.target = run.target BY <1>0, <4>1 DEF RunRec, Pcs
      <4>3. [p \in Paths |-> IF list[p] # {} THEN disk[p] ELSE None] \in [Paths -> Bytes] BY <1>0 DEF Bytes
      <4>4. backup' \in BackupRec BY <1>0, <1>2, <3>1, <4>3 DEF BackupRec
      <4> QED BY <1>1, <1>2, <3>1, <4>2, <4>4, TypedOn DEF Works
    <3>2. CASE failed(run) /\ backup' = backup BY <1>0, <1>3, <3>2
    <3> QED BY <1>6, <3>1, <3>2 DEF backupDone
  <2> QED BY <1>6, <2>1 DEF backupDone, Rest, box, Typed, AnyTypes, RunTyped
<1>7. CASE stepStop
  <2>1. RunTyped /\ unit' \in UnitRec
    <3>1. CASE /\ unit' = [unit EXCEPT !.active = FALSE] /\ log' = log
               /\ run' = [run EXCEPT !.pc = "swap", !.todo = DOMAIN FilesOf[run.target]]
      <4>1. unit' \in UnitRec BY <1>0, <3>1 DEF UnitRec
      <4>2. DOMAIN FilesOf[run.target] \subseteq Paths BY <1>2, ListsOf
      <4>3. run' \in RunRec /\ run'.pc = "swap" /\ run'.kind = run.kind /\ run'.target = run.target /\ run'.todo = DOMAIN FilesOf[run.target]
        BY <1>0, <3>1, <4>2 DEF RunRec, Pcs
      <4> QED BY <1>1, <1>2, <3>1, <4>1, <4>3, TypedOn DEF Works
    <3>2. CASE failed(run) /\ unit' = unit BY <1>0, <1>3, <3>2
    <3> QED BY <1>7, <3>1, <3>2 DEF stepStop
  <2> QED BY <1>7, <2>1 DEF stepStop, Rest, Typed, AnyTypes, RunTyped
<1>8. CASE SwapPutDone
  <2>1. Listed(list) \ DOMAIN FilesOf[run.target] \subseteq Paths BY DEF Listed
  <2>2. /\ run' = [run EXCEPT !.pc = "swap_del", !.todo = Listed(list) \ DOMAIN FilesOf[run.target]] /\ log' = log
    BY <1>8 DEF SwapPutDone
  <2>3. run' \in RunRec /\ run'.pc = "swap_del" /\ run'.kind = run.kind /\ run'.target = run.target BY <1>0, <2>1, <2>2 DEF RunRec, Pcs
  <2>4. RunTyped BY <1>1, <1>2, <2>2, <2>3, TypedOn DEF Works
  <2> QED BY <1>8, <2>4 DEF SwapPutDone, Rest, box, Typed, AnyTypes, RunTyped
<1>9. CASE SwapState
  <2>1. ListOf(run.target) \in Lists BY <1>2, ListsOf
  <2>2. log' = log BY <1>9 DEF SwapState
  <2>3. RunTyped
    <3>1. CASE Goto("s_manifest") BY <1>1, <1>2, <2>2, <3>1, TypedGoto DEF Pcs, Works
    <3>2. CASE Goto("s_version") BY <1>1, <1>2, <2>2, <3>2, TypedGoto DEF Pcs, Works
    <3>3. CASE Advance("swap") BY <1>1, <1>2, <2>2, <3>3, TypedAdvance
    <3> QED BY <1>9, <3>1, <3>2, <3>3 DEF SwapState
  <2>4. list' \in Lists /\ manifest' \in 0 .. Newest /\ version' \in 0 .. Newest BY <1>0, <1>2, <1>9, <2>1 DEF SwapState
  <2> QED BY <1>9, <2>3, <2>4 DEF SwapState, Rest, Typed, AnyTypes, RunTyped
<1>10. CASE SwapFails BY <1>3, <1>10 DEF SwapFails, Rest, box, Typed, AnyTypes, RunTyped
<1>11. CASE \E p \in Paths : SwapPut(p)
  <2> PICK p \in Paths : SwapPut(p) BY <1>11
  <2>1. run.pc = "swap" /\ p \in run.todo BY DEF SwapPut
  <2>2. run.todo \subseteq DOMAIN FilesOf[run.target] BY <1>0, <2>1 DEF Aims
  <2>3. RunTyped /\ disk' \in [Paths -> Bytes]
    <3>1. CASE disk' = [disk EXCEPT ![p] = FilesOf[run.target][p]] /\ log' = log /\ run' = [run EXCEPT !.todo = @ \ {p}]
      <4>1. FilesOf[run.target][p] \in Bytes BY <1>2, <2>1, <2>2, ListsOf
      <4>2. run' \in RunRec /\ run'.pc = "swap" /\ run'.kind = run.kind /\ run'.target = run.target /\ run'.todo \subseteq run.todo
        BY <1>0, <2>1, <3>1 DEF RunRec
      <4>3. run'.todo \subseteq DOMAIN FilesOf[run.target] BY <2>2, <4>2
      <4>4. RunTyped BY <1>1, <1>2, <3>1, <4>2, <4>3, TypedOn DEF Works
      <4> QED BY <1>0, <3>1, <4>1, <4>4
    <3>2. CASE failed(run) /\ disk' = disk BY <1>0, <1>3, <3>2
    <3> QED BY <3>1, <3>2 DEF SwapPut
  <2> QED BY <2>3 DEF SwapPut, Rest, Typed, AnyTypes, RunTyped
<1>12. CASE \E p \in Paths : SwapDelete(p)
  <2> PICK p \in Paths : SwapDelete(p) BY <1>12
  <2>1. RunTyped /\ disk' \in [Paths -> Bytes]
    <3>1. CASE /\ run' = [run EXCEPT !.todo = @ \ {p}] /\ log' = log /\ disk' \in {disk, [disk EXCEPT ![p] = None]}
      <4>1. run' \in RunRec /\ run'.pc = run.pc /\ run.pc = "swap_del" /\ run'.kind = run.kind /\ run'.target = run.target
        BY <1>0, <3>1 DEF RunRec, SwapDelete
      <4>2. RunTyped BY <1>1, <1>2, <3>1, <4>1, TypedOn DEF Works
      <4> QED BY <1>0, <3>1, <4>2 DEF Bytes
    <3>2. CASE failed(run) /\ disk' = disk BY <1>0, <1>3, <3>2
    <3> QED BY <3>1, <3>2 DEF SwapDelete
  <2> QED BY <2>1 DEF SwapDelete, Rest, Typed, AnyTypes, RunTyped
<1> QED BY <1>4, <1>5, <1>6, <1>7, <1>8, <1>9, <1>10, <1>11, <1>12

\* The types are kept by a putting back and by the dropping of a backup.
LEMMA TypedBack == ASSUME Typed, \/ removeBackup \/ readBackup \/ putBackDecide \/ putBackStop \/ putBackState \/ restoreUnits \/ settleUnits
                                 \/ \E p \in Paths : putBack(p) \/ putBackRemove(p)
                   PROVE  Typed'
<1>0. /\ run \in RunRec /\ log \in LogRec /\ Aims(run) /\ edits \in Nat /\ list \in Lists /\ disk \in [Paths -> Bytes] /\ unit \in UnitRec
      /\ latest \in 1 .. Newest /\ manifest \in 0 .. Newest /\ version \in 0 .. Newest /\ Newest \in Nat /\ backup \in BackupRec /\ was \in WasRec
  BY Numbers DEF Typed, AnyTypes
<1>1. CASE removeBackup
  <2>1. run.pc = "drop" BY <1>1 DEF removeBackup
  <2>2. RunTyped /\ backup' \in BackupRec
    <3>1. CASE backup' = [backup EXCEPT !.mark = "partial"] /\ run' = run /\ log' = log
      <4>1. backup' \in BackupRec BY <1>0, <3>1 DEF BackupRec
      <4>2. RunTyped BY <1>0, <3>1 DEF RunTyped, Aims
      <4> QED BY <4>1, <4>2
    <3>2. CASE backup' = NoBackup /\ DropEnd(FALSE, FALSE) BY <2>1, <3>2, NothingIs, TypedDropEnd
    <3>3. CASE backup' = backup /\ DropEnd(backup.mark = "complete", TRUE)
      <4> PICK marked : marked = (backup.mark = "complete") OBVIOUS
      <4>1. marked \in BOOLEAN /\ DropEnd(marked, TRUE) BY <3>3
      <4> QED BY <1>0, <2>1, <3>3, <4>1, TypedDropEnd
    <3> QED BY <1>1, <3>1, <3>2, <3>3 DEF removeBackup
  <2> QED BY <1>1, <2>2 DEF removeBackup, Rest, box, Typed, AnyTypes, RunTyped
<1>2. CASE readBackup
  <2>1. run.pc = "r_read" /\ run.back \in {"recover", "rollback"} BY <1>0, <1>2 DEF readBackup, Aims
  <2>2. RunTyped
    <3>1. CASE Goto(IF backup.mark = "complete" THEN "r_decide" ELSE "drop") /\ log' = log
      <4> PICK a : a = IF backup.mark = "complete" THEN "r_decide" ELSE "drop" OBVIOUS
      <4>1. Goto(a) /\ a \in {"r_decide", "drop"} BY <3>1
      <4> QED BY <2>1, <3>1, <4>1, TypedGoto DEF Pcs
    <3>2. CASE RestoreEnd(TRUE) BY <2>1, <3>2, TypedRestoreEnd
    <3> QED BY <1>2, <3>1, <3>2 DEF readBackup
  <2> QED BY <1>2, <2>2 DEF readBackup, Rest, box, Typed, AnyTypes, RunTyped
<1>3. CASE putBackDecide
  <2>1. run.pc = "r_decide" /\ run.back \in {"recover", "rollback"} /\ log' = log BY <1>0, <1>3 DEF putBackDecide, Aims
  <2>2. \E a \in {"r_stop", "r_put", "r_units"} : Onward(a) /\ run'.target = run.target
    <3>1. CASE run' = [run EXCEPT !.pc = IF ToPut \cup ToRemove # {} THEN "r_stop" ELSE "r_put",
                                  !.puts = ToPut, !.removes = ToRemove, !.left = @ \/ ToLeave # {}]
      <4> PICK a : a = IF ToPut \cup ToRemove # {} THEN "r_stop" ELSE "r_put" OBVIOUS
      <4> PICK u : u = ToPut OBVIOUS
      <4> PICK w : w = ToRemove OBVIOUS
      <4> PICK f : f = (run.left \/ ToLeave # {}) OBVIOUS
      <4>1. a \in {"r_stop", "r_put"} /\ a \in Pcs BY DEF Pcs
      <4>2. u \in SUBSET Paths BY DEF ToPut, Saved
      <4>3. w \in SUBSET Paths BY DEF ToRemove
      <4>4. f \in BOOLEAN OBVIOUS
      <4>5. run' = [run EXCEPT !.pc = a, !.puts = u, !.removes = w, !.left = f] BY <3>1
      <4>6. Onward(a) /\ run'.target = run.target BY ONLY <1>0, <4>1, <4>2, <4>3, <4>4, <4>5 DEF Onward, RunRec
      <4> QED BY <4>1, <4>6
    <3>2. CASE run' = [run EXCEPT !.pc = "r_units", !.bad = TRUE] BY <1>0, <3>2 DEF Onward, RunRec, Pcs
    <3> QED BY <1>3, <3>1, <3>2 DEF putBackDecide
  <2>3. RunTyped BY <2>1, <2>2, TypedOn DEF Onward, Works
  <2> QED BY <1>3, <2>3 DEF putBackDecide, Rest, box, Typed, AnyTypes, RunTyped
<1>4. CASE putBackStop
  <2>1. run.pc = "r_stop" /\ run.back \in {"recover", "rollback"} /\ log' = log BY <1>0, <1>4 DEF putBackStop, Aims
  <2>2. Onward("r_put") /\ run'.target = run.target
    <3>1. CASE Goto("r_put") BY <1>0, <3>1 DEF Goto, Onward, RunRec, Pcs
    <3>2. CASE run' = [run EXCEPT !.pc = "r_put", !.stuck = TRUE] BY <1>0, <3>2 DEF Onward, RunRec, Pcs
    <3> QED BY <1>4, <3>1, <3>2 DEF putBackStop
  <2>3. RunTyped BY <2>1, <2>2, TypedOn DEF Onward, Works
  <2>4. unit' \in UnitRec BY <1>0, <1>4 DEF putBackStop, UnitRec
  <2> QED BY <1>4, <2>3, <2>4 DEF putBackStop, Rest, Typed, AnyTypes, RunTyped
<1>5. CASE putBackState
  <2>1. run.pc \in {"r_put", "r_version", "r_list"} /\ log' = log BY <1>5 DEF putBackState
  <2>2. run.back \in {"recover", "rollback"} BY <1>0, <2>1 DEF Aims
  <2>3. \E a \in {"r_version", "r_list", "r_units"} : Onward(a) /\ run'.target = run.target
    <3>1. CASE \E a \in {"r_version", "r_list", "r_units"} : Goto(a) BY <1>0, <3>1 DEF Goto, Onward, RunRec, Pcs
    <3>2. CASE \E a \in {"r_version", "r_list", "r_units"} : run' = [run EXCEPT !.pc = a, !.bad = TRUE] BY <1>0, <3>2, ZenonT(60) DEF Onward, RunRec, Pcs
    <3>3. CASE run' = [run EXCEPT !.pc = "r_units", !.bad = @ \/ run.stuck]
      <4> PICK b : b = (run.bad \/ run.stuck) OBVIOUS
      <4>1. b \in BOOLEAN /\ run' = [run EXCEPT !.pc = "r_units", !.bad = b] BY <3>3
      <4> QED BY <1>0, <4>1, ZenonT(60) DEF Onward, RunRec, Pcs
    <3> QED BY <1>5, <3>1, <3>2, <3>3 DEF putBackState
  <2>4. RunTyped BY <2>1, <2>2, <2>3, TypedOn DEF Onward, Works
  <2>5. list' \in Lists /\ manifest' \in 0 .. Newest /\ version' \in 0 .. Newest /\ disk' = disk /\ unit' = unit
    <3>1. backup.list \in Lists /\ backup.manifest \in 0 .. Newest /\ backup.version \in 0 .. Newest BY <1>0 DEF BackupRec
    <3> QED BY <1>0, <1>5, <3>1 DEF putBackState, box
  <2> QED BY <1>5, <2>4, <2>5 DEF putBackState, Rest, Typed, AnyTypes, RunTyped
<1>6. CASE restoreUnits
  <2>1. run.pc = "r_units" /\ run.back \in {"recover", "rollback"} /\ log' = log BY <1>0, <1>6 DEF restoreUnits, Aims
  <2>2. Onward("r_start") /\ run'.target = run.target
    <3>1. CASE Goto("r_start") BY <1>0, <3>1 DEF Goto, Onward, RunRec, Pcs
    <3>2. CASE run' = [run EXCEPT !.pc = "r_start", !.bad = TRUE] BY <1>0, <3>2 DEF Onward, RunRec, Pcs
    <3> QED BY <1>6, <3>1, <3>2 DEF restoreUnits
  <2>3. RunTyped BY <2>1, <2>2, TypedOn DEF Onward, Works
  <2> QED BY <1>6, <2>3 DEF restoreUnits, Rest, box, Typed, AnyTypes, RunTyped
<1>7. CASE settleUnits
  <2>1. run.pc = "r_start" /\ run.back \in {"recover", "rollback"} BY <1>0, <1>7 DEF settleUnits, Aims
  <2>2. RunTyped
    <3>1. CASE RestoreEnd(TRUE) BY <2>1, <3>1, TypedRestoreEnd
    <3>2. CASE Goto("drop") /\ log' = log BY <2>1, <3>2, TypedGoto DEF Pcs
    <3> QED BY <1>7, <3>1, <3>2 DEF settleUnits
  <2>3. unit' \in UnitRec
    <3>1. unit' = unit \/ unit' = [active |-> unit.active \/ backup.unit.active, enabled |-> unit.enabled \/ backup.unit.enabled]
      BY <1>7 DEF settleUnits
    <3> PICK a : a = (unit.active \/ backup.unit.active) OBVIOUS
    <3> PICK e : e = (unit.enabled \/ backup.unit.enabled) OBVIOUS
    <3>2. a \in BOOLEAN /\ e \in BOOLEAN OBVIOUS
    <3>3. unit' = unit \/ unit' = [active |-> a, enabled |-> e] BY <3>1
    <3> QED BY ONLY <1>0, <3>2, <3>3 DEF UnitRec
  <2> QED BY <1>7, <2>2, <2>3 DEF settleUnits, Rest, Typed, AnyTypes, RunTyped
<1>8. CASE \E p \in Paths : putBack(p) \/ putBackRemove(p)
  <2> PICK p \in Paths : putBack(p) \/ putBackRemove(p) BY <1>8
  <2>1. run.pc = "r_put" /\ log' = log BY DEF putBack, putBackRemove
  <2>2. run.back \in {"recover", "rollback"} BY <1>0, <2>1 DEF Aims
  <2>3. Onward("r_put") /\ run'.target = run.target
    <3>1. CASE run' = [run EXCEPT !.puts = @ \ {p}] BY <1>0, <2>1, <3>1 DEF Onward, RunRec
    <3>2. CASE run' = [run EXCEPT !.puts = @ \ {p}, !.bad = TRUE] BY <1>0, <2>1, <3>2 DEF Onward, RunRec
    <3>3. CASE run' = [run EXCEPT !.removes = @ \ {p}] BY <1>0, <2>1, <3>3 DEF Onward, RunRec
    <3>4. CASE run' = [run EXCEPT !.removes = @ \ {p}, !.bad = TRUE] BY <1>0, <2>1, <3>4 DEF Onward, RunRec
    <3> QED BY <3>1, <3>2, <3>3, <3>4 DEF putBack, putBackRemove
  <2>4. RunTyped BY <2>1, <2>2, <2>3, TypedOn DEF Onward, Works
  <2>5. disk' \in [Paths -> Bytes]
    <3>1. backup.files \in [Paths -> Bytes] BY <1>0 DEF BackupRec
    <3>2. disk' = [disk EXCEPT ![p] = backup.files[p]] \/ disk' = [disk EXCEPT ![p] = None] \/ disk' = disk BY DEF putBack, putBackRemove
    <3> QED BY <1>0, <3>1, <3>2 DEF Bytes
  <2> QED BY <2>4, <2>5 DEF putBack, putBackRemove, Rest, Typed, AnyTypes, RunTyped
<1> QED BY <1>1, <1>2, <1>3, <1>4, <1>5, <1>6, <1>7, <1>8

\* The types are kept by a taking down.
LEMMA TypedDown == ASSUME Typed, \/ teardownStop \/ teardownFilesEnd \/ teardownState \/ teardownStateFails \/ teardownReload \/ LeftoversEnd
                                 \/ \E p \in Paths : teardownFile(p) \/ Leftover(p)
                   PROVE  Typed'
<1>0. /\ run \in RunRec /\ log \in LogRec /\ Aims(run) /\ edits \in Nat /\ list \in Lists /\ disk \in [Paths -> Bytes] /\ unit \in UnitRec
      /\ latest \in 1 .. Newest /\ manifest \in 0 .. Newest /\ version \in 0 .. Newest /\ Newest \in Nat /\ backup \in BackupRec /\ was \in WasRec
  BY Numbers DEF Typed, AnyTypes
<1>1. run.pc \in DownPcs /\ backup' = backup BY DEF box, teardownStop, teardownFilesEnd, teardownState, teardownStateFails, teardownReload, LeftoversEnd, teardownFile, Leftover
<1>2. CASE teardownStop
  <2>1. RunTyped /\ unit' \in UnitRec
    <3>1. CASE /\ unit' = [active |-> FALSE, enabled |-> FALSE] /\ log' = log
               /\ run' = [run EXCEPT !.pc = "t_files", !.todo = Listed(Doomed)]
      <4>1. Listed(Doomed) \subseteq Paths BY DEF Listed
      <4>2. run' \in RunRec /\ run'.pc = "t_files" /\ run'.kind = run.kind /\ run'.target = run.target BY <1>0, <3>1, <4>1 DEF RunRec, Pcs
      <4>3. RunTyped BY <1>1, <3>1, <4>2, TypedOn DEF Works
      <4> QED BY <3>1, <4>3 DEF UnitRec
    <3>2. CASE unit' = unit /\ TeardownEnd(TRUE) BY <1>0, <1>1, <3>2, TypedTeardownEnd
    <3> QED BY <1>2, <3>1, <3>2 DEF teardownStop
  <2> QED BY <1>2, <2>1 DEF teardownStop, Rest, Typed, AnyTypes, RunTyped
<1>3. CASE teardownFilesEnd
  <2>1. RunTyped
    <3>1. CASE Goto("t_manifest") /\ log' = log BY <1>1, <3>1, TypedGoto DEF Pcs
    <3>2. CASE TeardownEnd(TRUE) BY <1>1, <3>2, TypedTeardownEnd
    <3> QED BY <1>3, <3>1, <3>2 DEF teardownFilesEnd
  <2> QED BY <1>3, <2>1 DEF teardownFilesEnd, Rest, box, Typed, AnyTypes, RunTyped
<1>4. CASE teardownState
  <2>1. RunTyped BY <1>1, <1>4, TypedGoto DEF teardownState, Pcs
  <2>2. manifest' \in 0 .. Newest /\ version' \in 0 .. Newest BY <1>0, <1>4 DEF teardownState, None
  <2> QED BY <1>4, <2>1, <2>2 DEF teardownState, Rest, Typed, AnyTypes, RunTyped
<1>5. CASE teardownStateFails
  <2>1. RunTyped BY <1>1, <1>5, TypedTeardownEnd DEF teardownStateFails
  <2> QED BY <1>5, <2>1 DEF teardownStateFails, Rest, box, Typed, AnyTypes, RunTyped
<1>6. CASE teardownReload
  <2>1. RunTyped BY <1>1, <1>6, TypedTeardownEnd DEF teardownReload
  <2>2. list' \in Lists BY <1>0, <1>6, NothingIs DEF teardownReload
  <2> QED BY <1>6, <2>1, <2>2 DEF teardownReload, Rest, Typed, AnyTypes, RunTyped
<1>7. CASE LeftoversEnd
  <2> PICK r : r = IF run.bad THEN "failed" ELSE "ok" OBVIOUS
  <2>1. End(r) /\ r \in Results BY <1>7 DEF LeftoversEnd, Results
  <2>2. RunTyped BY <2>1, TypedEnd
  <2> QED BY <1>7, <2>2 DEF LeftoversEnd, Rest, box, Typed, AnyTypes, RunTyped
<1>8. CASE \E p \in Paths : teardownFile(p) \/ Leftover(p)
  <2> PICK p \in Paths : teardownFile(p) \/ Leftover(p) BY <1>8
  <2>1. log' = log BY DEF teardownFile, Leftover
  <2>2. run' \in RunRec /\ run'.pc = run.pc /\ run'.kind = run.kind /\ run'.target = run.target
    <3>1. CASE run' = [run EXCEPT !.todo = @ \ {p}] BY <1>0, <3>1 DEF RunRec
    <3>2. CASE run' = [run EXCEPT !.todo = @ \ {p}, !.bad = TRUE] BY <1>0, <3>2 DEF RunRec
    <3>3. CASE run' = [run EXCEPT !.todo = @ \ {p}, !.bad = @ \/ holds(p, ListOf(backup.new)[p]) = "other"]
      <4> PICK b : b = (run.bad \/ holds(p, ListOf(backup.new)[p]) = "other") OBVIOUS
      <4>1. run' = [run EXCEPT !.todo = @ \ {p}, !.bad = b] /\ b \in BOOLEAN BY <3>3
      <4> QED BY <1>0, <4>1 DEF RunRec
    <3> QED BY <3>1, <3>2, <3>3 DEF teardownFile, Leftover
  <2>0. run.pc = "leftovers" => backup.new \in Versions BY <1>0 DEF Aims
  <2>3. RunTyped BY <1>1, <2>0, <2>1, <2>2, TypedOn DEF Works
  <2>4. disk' = [disk EXCEPT ![p] = None] \/ disk' = disk BY DEF teardownFile, Leftover
  <2>5. disk' \in [Paths -> Bytes] BY <1>0, <2>4 DEF Bytes
  <2> QED BY <2>3, <2>5 DEF teardownFile, Leftover, Rest, Typed, AnyTypes, RunTyped
<1> QED BY <1>2, <1>3, <1>4, <1>5, <1>6, <1>7, <1>8

\* The types are kept by a kill, by the owner, by a release and by a run that begins.
LEMMA TypedAside == ASSUME Typed, \/ Kill \/ OwnerStops \/ Release \/ (\E k \in {"install", "update", "remove"} : Begin(k))
                                  \/ \E p \in Paths, c \in {None, Other} : Edit(p, c)
                    PROVE  Typed'
<1>0. /\ run \in RunRec /\ log \in LogRec /\ Aims(run) /\ edits \in Nat /\ list \in Lists /\ disk \in [Paths -> Bytes] /\ unit \in UnitRec
      /\ latest \in 1 .. Newest /\ manifest \in 0 .. Newest /\ version \in 0 .. Newest /\ Newest \in Nat /\ backup \in BackupRec /\ was \in WasRec
  BY Numbers DEF Typed, AnyTypes
<1>1. CASE Kill
  <2>1. run' \in RunRec /\ Aims(run)' BY <1>1, NothingIs, NoRunIs DEF Kill, Aims, Works
  <2> QED BY <1>1, <2>1 DEF Kill, box, Typed, AnyTypes
<1>2. CASE OwnerStops
  <2>1. unit' \in UnitRec BY <1>0, <1>2 DEF OwnerStops, UnitRec
  <2>2. edits' \in Nat BY <1>0, <1>2 DEF OwnerStops
  <2>3. Aims(run)' BY <1>0, <1>2 DEF OwnerStops, Aims
  <2> QED BY <1>2, <2>1, <2>2, <2>3 DEF OwnerStops, Typed, AnyTypes
<1>3. CASE Release
  <2>1. latest' \in 1 .. Newest BY <1>0, <1>3 DEF Release
  <2>2. Aims(run)' BY <1>0, <1>3 DEF Release, Aims
  <2> QED BY <1>3, <2>1, <2>2 DEF Release, box, count, Typed, AnyTypes
<1>4. CASE \E k \in {"install", "update", "remove"} : Begin(k)
  <2> PICK k \in Kinds : Begin(k) BY <1>4 DEF Kinds
  <2>1. run' = [NoRun EXCEPT !.kind = k, !.pc = "recover"] BY DEF Begin
  <2>2. run' \in RunRec /\ run'.kind = k /\ run'.pc = "recover" BY <2>1, NothingIs DEF RunRec, Pcs
  <2>3. Aims(run)' BY <2>2 DEF Aims, Works
  <2>4. Installed \in 0 .. Newest BY <1>0 DEF Installed, BackupRec
  <2>5. was' \in WasRec /\ log' \in LogRec BY <1>0, <2>4 DEF Begin, WasRec, LogRec, Results
  <2> QED BY <2>2, <2>3, <2>5 DEF Begin, box, Typed, AnyTypes
<1>5. CASE \E p \in Paths, c \in {None, Other} : Edit(p, c)
  <2> PICK p \in Paths, c \in {None, Other} : Edit(p, c) BY <1>5
  <2>1. disk' \in [Paths -> Bytes] BY <1>0 DEF Edit, Bytes
  <2>2. was' \in WasRec BY <1>0 DEF Edit, WasRec
  <2>3. edits' \in Nat BY <1>0 DEF Edit
  <2>4. Aims(run)' BY <1>0 DEF Edit, Aims
  <2> QED BY <2>1, <2>2, <2>3, <2>4 DEF Edit, Typed, AnyTypes
<1> QED BY <1>1, <1>2, <1>3, <1>4, <1>5

\* Every step keeps the types.
LEMMA TypedStep == ASSUME Typed, [Next]_vars PROVE Typed'
<1>1. CASE UNCHANGED vars BY <1>1 DEF vars, box, count, Typed, AnyTypes, Aims
<1>2. CASE Step BY <1>2, TypedForward, TypedUpdate, TypedBack, TypedDown DEF Step
<1>3. CASE \/ Kill \/ OwnerStops \/ Release \/ (\E k \in {"install", "update", "remove"} : Begin(k))
           \/ \E p \in Paths, c \in {None, Other} : Edit(p, c)
  BY <1>3, TypedAside
<1> QED BY <1>1, <1>2, <1>3 DEF Next

\* The types hold at the start.
LEMMA TypedBegins == ASSUME Init PROVE Typed
<1>1. BoxInv BY BoxBegins
<1>2. run = NoRun /\ edits = 0 BY DEF Init
<1>3. Aims(run) BY <1>2, NoRunIs DEF Aims, Works
<1> QED BY <1>1, <1>2, <1>3, Numbers DEF BoxInv, BoxTypes, Typed, AnyTypes
\* What somebody else put at a path is not touched by a step, save where the run had decided about the path before.
LEMMA SparedStep == ASSUME Typed, [Next]_vars, NEW p \in Paths, disk[p] = Other, disk'[p] # Other
                    PROVE  edits' # edits \/ p \in run.puts \cup run.removes \/ (run.pc = "write" /\ run.mine[p] # {})
<1>0. disk \in [Paths -> Bytes] /\ list \in Lists /\ run.mine \in Lists /\ run.written \in Lists /\ Other \notin Contents /\ Other # None
  BY BoxAssumption DEF Typed, AnyTypes, RunRec, Other, None
<1>1. \A l \in Lists : holds(p, l[p]) = "other" BY <1>0 DEF holds, Lists
<1>2. CASE disk' = disk BY <1>2
<1>3. CASE \E q \in Paths : Write(q)
  BY <1>0, <1>3 DEF Write
<1>4. CASE \E q \in Paths : SwapPut(q)
  <2> PICK q \in Paths : SwapPut(q) BY <1>4
  <2>1. q # p BY <1>0, <1>1 DEF SwapPut
  <2> QED BY <1>0, <2>1 DEF SwapPut
<1>5. CASE \E q \in Paths : SwapDelete(q)
  <2> PICK q \in Paths : SwapDelete(q) BY <1>5
  <2>1. holds(p, list[p]) = "other" BY <1>0, <1>1
  <2> QED BY <1>0, <2>1 DEF SwapDelete
<1>6. CASE \E q \in Paths : putBack(q) BY <1>0, <1>6 DEF putBack
<1>7. CASE \E q \in Paths : putBackRemove(q) BY <1>0, <1>7 DEF putBackRemove
<1>8. CASE \E q \in Paths : teardownFile(q)
  <2> PICK q \in Paths : teardownFile(q) BY <1>8
  <2>1. holds(p, Doomed[p]) = "other" BY <1>0, <1>1 DEF Doomed
  <2> QED BY <1>0, <2>1 DEF teardownFile
<1>9. CASE \E q \in Paths : Leftover(q)
  <2> PICK q \in Paths : Leftover(q) BY <1>9
  <2>1. run.pc = "leftovers" BY DEF Leftover
  <2>2. ~IsNew(p)
    <3>1. SUFFICES ASSUME IsNew(p) PROVE FALSE OBVIOUS
    <3>2. disk[p] \in ListOf(backup.new)[p] /\ Has(backup.new, p) BY <1>0, <3>1 DEF IsNew, holds
    <3>3. ListOf(backup.new)[p] = {FilesOf[backup.new][p]} BY <3>2 DEF ListOf
    <3>4. backup.new \in Versions BY <2>1 DEF Typed, Aims
    <3>5. FilesOf[backup.new][p] \in Contents BY <3>2, <3>4 DEF Has, Contents
    <3> QED BY <1>0, <3>2, <3>3, <3>5
  <2> QED BY <1>0, <2>2 DEF Leftover
<1>10. CASE \E q \in Paths, c \in {None, Other} : Edit(q, c)
  <2>1. edits \in Nat BY DEF Typed
  <2> QED BY <1>10, <2>1 DEF Edit
<1>11. CASE \/ recoverUpdate \/ Admit \/ StepQuiet \/ Done \/ Unpack \/ Record \/ stepVersion \/ stepManifest \/ stepStart
            \/ Stage \/ stepBackup \/ backupDone \/ stepStop \/ SwapPutDone \/ SwapState \/ SwapFails
  <2>1. disk' = disk
    BY <1>11 DEF recoverUpdate, Admit, StepQuiet, Done, Unpack, Record, stepVersion, stepManifest, stepStart, Stage, stepBackup, backupDone,
                 stepStop, SwapPutDone, SwapState, SwapFails, box
  <2> QED BY <2>1
<1>12. CASE \/ removeBackup \/ readBackup \/ putBackDecide \/ putBackStop \/ putBackState \/ restoreUnits \/ settleUnits
            \/ teardownStop \/ teardownFilesEnd \/ teardownState \/ teardownStateFails \/ teardownReload \/ LeftoversEnd
            \/ Kill \/ OwnerStops \/ Release \/ (\E k \in {"install", "update", "remove"} : Begin(k)) \/ UNCHANGED vars
  <2>1. disk' = disk
    BY <1>12 DEF removeBackup, readBackup, putBackDecide, putBackStop, putBackState, restoreUnits, settleUnits, teardownStop, teardownFilesEnd,
                 teardownState, teardownStateFails, teardownReload, LeftoversEnd, Kill, OwnerStops, Release, Begin, box, vars
  <2> QED BY <2>1
<1> QED BY <1>3, <1>4, <1>5, <1>6, <1>7, <1>8, <1>9, <1>10, <1>11, <1>12 DEF Next, Step

\* A file that somebody else put at a path of the module is neither replaced nor deleted by a run, save at a path the run had
\* already decided about, whatever is killed or fails: the bytes of every delete and of every swap are compared with the list
\* first (files.go holds; update.go putBack; remove.go).
THEOREM OthersSpared == Spec => Spared
<1>1. Init => Typed BY TypedBegins
<1>2. Typed /\ [Next]_vars => Typed' BY TypedStep
<1>3. ASSUME Typed, [Next]_vars
      PROVE  \A p \in Paths : disk[p] = Other /\ disk'[p] # Other =>
                edits' # edits \/ p \in run.puts \cup run.removes \/ (run.pc = "write" /\ run.mine[p] # {})
  BY <1>3, SparedStep
<1> QED BY <1>1, <1>2, <1>3, PTL DEF Spec, Spared

-------------------------------------------------------------------------------
(* What the files are, by where the run is. *)
\* Nothing is at a path of version v but its own bytes or what somebody put there.
Holds(p, v) == disk[p] \in {None, Other, FilesOf[v][p]}
\* The files of somebody's module, which no other module names.
Ours == {p \in Paths \ theirs : disk[p] \in Contents}
\* Nothing that the list of the box has forgotten.
ListKnows(l) == \A p \in Ours : disk[p] \in l[p]
\* A complete backup is of files of its version, and tells the old bytes and the new ones from others.
BackupKnows == Complete =>
    /\ manifest = None => was.kept
    /\ \A p \in DOMAIN FilesOf[backup.version] : /\ backup.files[p] \in {None, Other, FilesOf[backup.version][p]}
                                                 /\ Holds(p, backup.version) \/ IsNew(p)
    /\ was.kept \/ \A p \in Ours : disk[p] = backup.files[p] \/ IsNew(p)
    /\ was.kept \/ \A p \in Paths \ theirs : backup.files[p] \in Contents => backup.files[p] \in backup.list[p]
\* Without one, the module is of its version and its list names all of it.
ModuleKnows == ~Complete => /\ manifest # None => \A p \in DOMAIN FilesOf[manifest] : Holds(p, manifest)
                            /\ was.kept \/ ListKnows(list)
\* Only an install that unpacks has written anything.
Fresh(o) == o.written # NoList \/ o.unpacked => /\ o.kind = "install"
                                  /\ o.pc \in {"write", "units", "manifest", "manifest2", "start", "route", "done"} \cup DownPcs
Writes(o) == o.pc = "write" =>
    /\ list = plannedEntries(o.target, o.mine)
    /\ \A p \in Paths : o.written[p] = IF p \in DOMAIN FilesOf[o.target] \ o.todo THEN ListOf(o.target)[p] ELSE {}
    /\ \A p \in DOMAIN FilesOf[o.target] \ o.todo : Holds(p, o.target)
    /\ was.kept \/ ListKnows(writtenEntries(o.mine, o.written))
Wrote(o) == o.kind = "install" /\ o.pc \in {"units", "manifest", "manifest2", "start", "route", "done"} =>
    /\ o.unpacked /\ list = o.written
    /\ \A p \in DOMAIN FilesOf[o.target] : Holds(p, o.target)
\* The swap of an update, and what it has come to.
Swapped(o) == \/ o.kind = "update" /\ o.pc \in {"s_manifest", "s_version", "units", "start", "route"}
              \/ o.pc = "drop" /\ o.back = "done" /\ Complete
Swaps(o) == /\ o.kind = "update" /\ o.pc \in SwapPcs => backup.new = o.target
            /\ o.pc \in {"stop", "swap", "swap_del"} => list = backup.list
            /\ o.pc = "swap" => \A p \in DOMAIN FilesOf[o.target] \ o.todo : Holds(p, o.target)
            /\ o.pc = "swap_del" \/ Swapped(o) => \A p \in DOMAIN FilesOf[o.target] : Holds(p, o.target)
            /\ o.pc = "swap_del" => was.kept \/ Ours \subseteq DOMAIN FilesOf[o.target] \cup o.todo
            /\ Swapped(o) => list = ListOf(o.target) /\ (was.kept \/ Ours \subseteq DOMAIN FilesOf[o.target])
\* Nothing of the new version is left but what is to be put back, or is the same in both.
NewLeft == {p \in Paths : IsNew(p) /\ disk[p] # backup.files[p]}
PutsBack(o) == /\ o.pc \in {"r_stop", "r_put"} /\ ~o.bad => NewLeft \subseteq o.puts \cup o.removes
               /\ \/ o.pc \in {"r_version", "r_list", "r_units", "r_start"} /\ ~o.bad
                  \/ o.pc = "drop" /\ o.back \in {"recover", "rollback"} /\ Complete
                  => NewLeft = {}
               /\ \/ o.pc \in {"r_units", "r_start"} /\ ~o.bad
                  \/ o.pc = "drop" /\ o.back \in {"recover", "rollback"} /\ Complete
                  => list = backup.list
DoomedBy(o) == IF o.back = "rollback" /\ o.unpacked THEN o.written ELSE list
Clears(o) == /\ o.kind = "remove" /\ o.pc \in DownPcs /\ o.kept => was.kept
             /\ o.pc = "t_stop" => was.kept \/ ListKnows(DoomedBy(o))
             /\ o.pc = "t_files" /\ ~o.bad => was.kept \/ (ListKnows(DoomedBy(o)) /\ Ours \subseteq o.todo)
             /\ o.pc \in {"t_manifest", "t_version", "t_reload"} => was.kept \/ Ours = {}
FilesFit(o) == Fresh(o) /\ Writes(o) /\ Wrote(o) /\ Swaps(o) /\ PutsBack(o) /\ Clears(o)
FilesInv == BackupKnows /\ ModuleKnows /\ FilesFit(run)

\* What FilesInv is about stays as it is, but for the run.
FilesSame == disk' = disk /\ list' = list /\ manifest' = manifest /\ backup' = backup /\ theirs' = theirs /\ (was.kept => was'.kept)

\* What is at the paths of a version is neither nothing nor somebody else's.
LEMMA ContentsAre == /\ None \notin Contents /\ Other \notin Contents
                     /\ \A v \in Versions : \A p \in DOMAIN FilesOf[v] : p \in Paths /\ FilesOf[v][p] \in Contents
BY BoxAssumption, SMTT(30) DEF Contents

\* The new bytes of a path, spelled out.
LEMMA IsNewIs == ASSUME NEW p \in Paths, backup.new \in Versions PROVE IsNew(p) <=> p \in DOMAIN FilesOf[backup.new] /\ disk[p] = FilesOf[backup.new][p]
<1>1. p \in DOMAIN FilesOf[backup.new] => FilesOf[backup.new][p] # None BY ContentsAre
<1> QED BY <1>1 DEF IsNew, holds, Has, ListOf

\* Nothing of the files changes: what is known of them stays so.
LEMMA SameFiles == ASSUME FilesSame PROVE /\ Ours' = Ours /\ NewLeft' = NewLeft /\ (Complete' <=> Complete)
                                          /\ \A p \in Paths : IsNew(p)' <=> IsNew(p)
                                          /\ \A p \in Paths, v \in Versions : Holds(p, v)' <=> Holds(p, v)
                                          /\ \A l : ListKnows(l)' <=> ListKnows(l)
<1>1. \A p \in Paths : IsNew(p)' <=> IsNew(p) BY DEF FilesSame, IsNew, holds, Has, ListOf
<1>2. Ours' = Ours BY DEF FilesSame, Ours
<1>3. NewLeft' = NewLeft BY <1>1 DEF FilesSame, NewLeft
<1>4. \A l : ListKnows(l)' <=> ListKnows(l) BY <1>2 DEF FilesSame, ListKnows
<1> QED BY <1>1, <1>2, <1>3, <1>4 DEF FilesSame, Complete, Holds

\* Nothing of the files changes: what is known of them without the run.
LEMMA SameBase == ASSUME BoxInv, FilesInv, FilesSame PROVE BackupKnows' /\ ModuleKnows'
<1>1. /\ Ours' = Ours /\ (Complete' <=> Complete) /\ \A p \in Paths : IsNew(p)' <=> IsNew(p)
      /\ \A p \in Paths, v \in Versions : Holds(p, v)' <=> Holds(p, v) BY SameFiles
<1>2. /\ disk' = disk /\ list' = list /\ manifest' = manifest /\ backup' = backup /\ theirs' = theirs /\ (was.kept => was'.kept) BY DEF FilesSame
<1>3. \A v \in Versions : DOMAIN FilesOf[v] \subseteq Paths BY BoxAssumption
<1>4. BackupKnows'
  <2>1. SUFFICES ASSUME Complete' PROVE BackupKnows' BY DEF BackupKnows
  <2>2. Complete BY <1>1, <2>1
  <2>3. backup.version \in Versions BY <2>2, Numbers DEF BoxInv, Fits, BackupWhole, BoxTypes
  <2>4. BackupKnows BY DEF FilesInv
  <2>5. (manifest = None => was.kept)' BY <1>2, <2>2, <2>4 DEF BackupKnows
  <2>6. (\A p \in DOMAIN FilesOf[backup.version] : /\ backup.files[p] \in {None, Other, FilesOf[backup.version][p]}
                                                   /\ Holds(p, backup.version) \/ IsNew(p))'
    <3>1. \A p \in DOMAIN FilesOf[backup.version] : /\ backup.files[p] \in {None, Other, FilesOf[backup.version][p]}
                                                    /\ Holds(p, backup.version) \/ IsNew(p) BY <2>2, <2>4 DEF BackupKnows
    <3>2. \A p \in DOMAIN FilesOf[backup.version] : IsNew(p)' <=> IsNew(p) BY <1>1, <1>3, <2>3
    <3> QED BY <1>2, <3>1, <3>2 DEF Holds
  <2>7. (was.kept \/ \A p \in Ours : disk[p] = backup.files[p] \/ IsNew(p))' BY <1>1, <1>2, <2>2, <2>4 DEF BackupKnows, Ours
  <2>8. (was.kept \/ \A p \in Paths \ theirs : backup.files[p] \in Contents => backup.files[p] \in backup.list[p])' BY <1>2, <2>2, <2>4 DEF BackupKnows
  <2> QED BY <2>5, <2>6, <2>7, <2>8 DEF BackupKnows
<1>5. ModuleKnows'
  <2>1. ModuleKnows BY DEF FilesInv
  <2> QED BY <1>1, <1>2, <2>1 DEF ModuleKnows, Holds, ListKnows
<1> QED BY <1>4, <1>5

\* Nothing of the files changes: what a run at o may count on is so after as it was before.
LEMMA SameFits == ASSUME FilesSame, NEW o, FilesFit(o) PROVE FilesFit(o)'
<1>1. /\ Ours' = Ours /\ NewLeft' = NewLeft /\ (Complete' <=> Complete) BY SameFiles
<1>2. \A l : ListKnows(l)' <=> ListKnows(l) BY SameFiles
<1>3. disk' = disk /\ list' = list /\ backup' = backup /\ (was.kept => was'.kept) BY DEF FilesSame
<1>4. Fresh(o)' BY DEF FilesFit, Fresh
<1>5. Writes(o)' 
  <2> PICK w : w = writtenEntries(o.mine, o.written) OBVIOUS
  <2>1. ListKnows(w)' <=> ListKnows(w) BY <1>2
  <2>2. Writes(o) BY DEF FilesFit
  <2> QED BY <1>3, <2>1, <2>2 DEF Writes, Holds, ListKnows
<1>6. Wrote(o)' BY <1>3 DEF FilesFit, Wrote, Holds
<1>7. Swaps(o)' 
  <2>1. Swapped(o)' <=> Swapped(o) BY <1>1 DEF Swapped
  <2> QED BY <1>1, <1>3, <2>1 DEF FilesFit, Swaps, Holds
<1>8. PutsBack(o)' BY <1>1, <1>3 DEF FilesFit, PutsBack
<1>9. Clears(o)' 
  <2>1. Clears(o) BY DEF FilesFit
  <2>2. DoomedBy(o)' = DoomedBy(o) BY <1>3 DEF DoomedBy
  <2>3. ListKnows(DoomedBy(o))' <=> ListKnows(DoomedBy(o)) BY <1>1, <1>3, <2>2 DEF ListKnows
  <2> QED BY <1>1, <1>3, <2>1, <2>3 DEF Clears
<1> QED BY <1>4, <1>5, <1>6, <1>7, <1>8, <1>9 DEF FilesFit


\* Files are taken away or put there by the owner, and nothing else of what FilesInv is about changes.
FilesLess == /\ list' = list /\ manifest' = manifest /\ backup' = backup /\ theirs' = theirs /\ (was.kept => was'.kept)
             /\ \A p \in Paths : disk'[p] = disk[p] \/ disk'[p] \in {None, Other}

\* Files that are taken away: what is left is as it was.
LEMMA LessFiles == ASSUME BoxInv, FilesLess
                   PROVE  /\ \A p \in Ours' : p \in Ours /\ disk'[p] = disk[p]
                          /\ (Complete' <=> Complete)
                          /\ Complete => NewLeft' \subseteq NewLeft
                          /\ Complete => \A p \in Paths : IsNew(p)' => IsNew(p) /\ disk'[p] = disk[p]
<1>1. /\ list' = list /\ manifest' = manifest /\ backup' = backup /\ theirs' = theirs
      /\ \A p \in Paths : disk'[p] = disk[p] \/ disk'[p] \in {None, Other} BY DEF FilesLess
<1>2. \A p \in Ours' : p \in Ours /\ disk'[p] = disk[p] BY <1>1, ContentsAre DEF Ours
<1>3. ASSUME Complete, NEW p \in Paths, IsNew(p)' PROVE IsNew(p) /\ disk'[p] = disk[p]
  <2>1. backup.new \in Versions BY <1>3 DEF BoxInv, Fits, BackupWhole
  <2>2. p \in DOMAIN FilesOf[backup.new] /\ disk'[p] = FilesOf[backup.new][p] BY <1>1, <1>3 DEF IsNew, holds, Has, ListOf
  <2>3. disk'[p] = disk[p] BY <1>1, <2>1, <2>2, ContentsAre
  <2> QED BY <2>1, <2>2, <2>3, IsNewIs
<1>4. Complete => NewLeft' \subseteq NewLeft BY <1>1, <1>3 DEF NewLeft
<1> QED BY <1>1, <1>2, <1>3, <1>4 DEF Complete

\* Files that are taken away: what is known without the run stays so.
LEMMA LessBase == ASSUME BoxInv, FilesInv, FilesLess PROVE BackupKnows' /\ ModuleKnows'
<1>1. /\ list' = list /\ manifest' = manifest /\ backup' = backup /\ theirs' = theirs /\ (was.kept => was'.kept)
      /\ \A p \in Paths : disk'[p] = disk[p] \/ disk'[p] \in {None, Other} BY DEF FilesLess
<1>2. \A p \in Ours' : p \in Ours /\ disk'[p] = disk[p] BY LessFiles
<1>3. \A v \in Versions : DOMAIN FilesOf[v] \subseteq Paths BY BoxAssumption
<1>4. BackupKnows'
  <2>1. SUFFICES ASSUME Complete' PROVE BackupKnows' BY DEF BackupKnows
  <2>2. Complete BY <2>1, LessFiles
  <2>3. backup.version \in Versions /\ backup.new \in Versions BY <2>2, Numbers DEF BoxInv, Fits, BackupWhole, BoxTypes
  <2>4. BackupKnows BY DEF FilesInv
  <2>0. \A p \in Paths : disk'[p] = disk[p] => (IsNew(p)' <=> IsNew(p)) BY <1>1 DEF IsNew, holds, Has, ListOf
  <2>5. (manifest = None => was.kept)' BY <1>1, <2>2, <2>4 DEF BackupKnows
  <2>6. (\A p \in DOMAIN FilesOf[backup.version] : /\ backup.files[p] \in {None, Other, FilesOf[backup.version][p]}
                                                   /\ Holds(p, backup.version) \/ IsNew(p))'
    <3>1. \A p \in DOMAIN FilesOf[backup.version] : /\ backup.files[p] \in {None, Other, FilesOf[backup.version][p]}
                                                    /\ Holds(p, backup.version) \/ IsNew(p) BY <2>2, <2>4 DEF BackupKnows
    <3>2. \A p \in DOMAIN FilesOf[backup.version] : p \in Paths BY <1>3, <2>3
    <3> QED BY <1>1, <2>0, <3>1, <3>2 DEF Holds
  <2>7. (was.kept \/ \A p \in Ours : disk[p] = backup.files[p] \/ IsNew(p))' 
    <3>1. \A p \in Ours : p \in Paths BY DEF Ours
    <3>2. was.kept \/ \A p \in Ours : disk[p] = backup.files[p] \/ IsNew(p) BY <2>2, <2>4 DEF BackupKnows
    <3> QED BY <1>1, <1>2, <2>0, <3>1, <3>2
  <2>8. (was.kept \/ \A p \in Paths \ theirs : backup.files[p] \in Contents => backup.files[p] \in backup.list[p])' BY <1>1, <2>2, <2>4 DEF BackupKnows
  <2> QED BY <2>5, <2>6, <2>7, <2>8 DEF BackupKnows
<1>5. ModuleKnows'
  <2>1. SUFFICES ASSUME ~Complete' PROVE ModuleKnows' BY DEF ModuleKnows
  <2>2. ~Complete BY <2>1, LessFiles
  <2>3. ModuleKnows BY DEF FilesInv
  <2>4. (was.kept \/ ListKnows(list))' BY <1>1, <1>2, <2>2, <2>3 DEF ModuleKnows, ListKnows
  <2>5. ASSUME manifest # None PROVE \A p \in DOMAIN FilesOf[manifest] : Holds(p, manifest)'
    <3>1. manifest \in Versions BY <2>5, Numbers DEF BoxInv, BoxTypes, None
    <3>2. \A p \in DOMAIN FilesOf[manifest] : p \in Paths /\ Holds(p, manifest) BY <1>3, <2>2, <2>3, <2>5, <3>1 DEF ModuleKnows
    <3> QED BY <1>1, <3>2 DEF Holds
  <2>6. (manifest # None => \A p \in DOMAIN FilesOf[manifest] : Holds(p, manifest))' BY <1>1, <2>5 DEF Holds
  <2> QED BY <2>4, <2>6 DEF ModuleKnows
<1> QED BY <1>4, <1>5

\* Where a run is about the paths of its version, the version is one.
AimPcs == {"write", "units", "manifest", "manifest2", "start", "route", "done", "stop", "swap", "swap_del", "s_manifest", "s_version"}
\* The version that a run works on is of the catalogue.
LEMMA Aimed == ASSUME BoxInv, run.pc \in AimPcs \/ (run.pc = "drop" /\ run.back = "done") PROVE run.target \in Versions /\ DOMAIN FilesOf[run.target] \subseteq Paths
<1>1. run \in RunRec /\ run.pc # "idle" /\ RunFits(run) /\ latest \in 1 .. Newest BY DEF BoxInv, BoxTypes, Fits, AimPcs
<1>2. run.kind \in Kinds /\ was \in WasRec BY <1>1, AtWork DEF BoxInv, BoxTypes
<1>3. run.target \in Versions
  <2>1. CASE run.pc = "drop" /\ run.back = "done"
    <3>1. manifest = run.target /\ run.target > J /\ J \in 0 .. Newest BY <1>1, <1>2, <2>1 DEF RunFits, Drops, WasRec, J
    <3> QED BY <1>1, <3>1, Numbers DEF RunRec
  <2>2. CASE run.pc \in AimPcs
    <3>1. run.kind # "remove" /\ InKind(run) /\ Installs(run) /\ Updates(run) BY <1>1, <2>2 DEF RunFits, InKind, AimPcs
    <3>2. CASE run.kind = "install"
      <4>1. run.pc \in InstallPcs BY <2>2, <3>1, <3>2 DEF AimPcs, InKind
      <4> QED BY <1>1, <3>1, <3>2, <4>1, Numbers DEF Installs
    <3>3. CASE run.kind = "update"
      <4>1. run.pc \in BeforeSwap \cup SwapPcs BY <2>2, <3>1, <3>3 DEF AimPcs, InKind
      <4> QED BY <1>1, <3>1, <3>3, <4>1, Numbers DEF Updates
    <3> QED BY <1>2, <3>1, <3>2, <3>3 DEF Kinds
  <2> QED BY <2>1, <2>2
<1> QED BY <1>3, BoxAssumption

\* Files that are taken away: what a run may count on stays so.
LEMMA LessFits == ASSUME BoxInv, FilesLess, NEW o, FilesFit(o), o.pc \in AimPcs \/ (o.pc = "drop" /\ o.back = "done") => DOMAIN FilesOf[o.target] \subseteq Paths,
                         o.pc \in BackPcs \ {"r_read"} => Complete
                  PROVE  FilesFit(o)'
<1>1. /\ list' = list /\ manifest' = manifest /\ backup' = backup /\ theirs' = theirs /\ (was.kept => was'.kept)
      /\ \A p \in Paths : disk'[p] = disk[p] \/ disk'[p] \in {None, Other} BY DEF FilesLess
<1>2. \A p \in Ours' : p \in Ours /\ disk'[p] = disk[p] BY LessFiles
<1>3. Ours' \subseteq Ours /\ \A l : ListKnows(l) => ListKnows(l)' BY <1>2 DEF ListKnows
<1>4. (Complete' <=> Complete) /\ (Complete => NewLeft' \subseteq NewLeft) BY LessFiles
<1>5. \A p \in Paths : Holds(p, o.target) => Holds(p, o.target)' BY <1>1 DEF Holds
<1>6. Fresh(o)' BY DEF FilesFit, Fresh
<1>7. Writes(o)'
  <2> PICK w : w = writtenEntries(o.mine, o.written) OBVIOUS
  <2>1. ListKnows(w) => ListKnows(w)' BY <1>3
  <2>2. Writes(o) BY DEF FilesFit
  <2>3. o.pc = "write" => DOMAIN FilesOf[o.target] \subseteq Paths BY DEF AimPcs
  <2> QED BY <1>1, <1>5, <2>1, <2>2, <2>3 DEF Writes
<1>8. Wrote(o)' BY <1>1, <1>5 DEF FilesFit, Wrote, AimPcs
<1>9. Swaps(o)'
  <2>1. Swapped(o)' <=> Swapped(o) BY <1>4 DEF Swapped
  <2>2. o.pc \in {"swap", "swap_del"} \/ Swapped(o) => DOMAIN FilesOf[o.target] \subseteq Paths BY DEF AimPcs, Swapped
  <2> QED BY <1>1, <1>3, <1>5, <2>1, <2>2 DEF FilesFit, Swaps
<1>10. PutsBack(o)'
  <2>1. PutsBack(o) BY DEF FilesFit
  <2>2. Complete => NewLeft' \subseteq NewLeft /\ (NewLeft = {} => NewLeft' = {}) BY <1>4
  <2> QED BY <1>1, <1>4, <2>1, <2>2 DEF PutsBack
<1>11. Clears(o)'
  <2>1. Clears(o) BY DEF FilesFit
  <2> PICK d : d = DoomedBy(o) OBVIOUS
  <2>2. DoomedBy(o)' = d BY <1>1 DEF DoomedBy
  <2>3. ListKnows(DoomedBy(o)) => ListKnows(DoomedBy(o))' BY <1>2, <2>2 DEF ListKnows
  <2> QED BY <1>1, <1>3, <2>1, <2>3 DEF Clears
<1> QED BY <1>6, <1>7, <1>8, <1>9, <1>10, <1>11 DEF FilesFit


-------------------------------------------------------------------------------
(* The run, and what it may count on. *)
\* What is so of the record that the run becomes is so of the run.
LEMMA OfRun == ASSUME NEW o, run' = o, FilesFit(o)' PROVE FilesFit(run)'
<1>1. Fresh(run)' BY DEF FilesFit, Fresh
<1>2. Writes(run)' BY DEF FilesFit, Writes, Holds, ListKnows
<1>3. Wrote(run)' BY DEF FilesFit, Wrote, Holds
<1>4. Swaps(run)' BY DEF FilesFit, Swaps, Swapped, Holds
<1>5. PutsBack(run)' BY DEF FilesFit, PutsBack
<1>6. Clears(run)' BY DEF FilesFit, Clears, DoomedBy, ListKnows
<1> QED BY <1>1, <1>2, <1>3, <1>4, <1>5, <1>6 DEF FilesFit

\* The places where nothing is asked of the files but what is so without a run.
PlainPcs == {"idle", "recover", "admit", "packages", "download", "verify", "unpack", "backup", "backup2", "r_read", "r_decide"}
Plain(o) == /\ o.pc \in PlainPcs \/ (o.pc = "drop" /\ (o.back \in {"admit", "failed"}))
            /\ o.written = NoList /\ ~o.unpacked

\* Nothing is asked there, before a step or after it.
LEMMA PlainFits == ASSUME NEW o, Plain(o) PROVE FilesFit(o) /\ FilesFit(o)'
BY DEF Plain, PlainPcs, FilesFit, Fresh, Writes, Wrote, Swaps, Swapped, PutsBack, Clears

\* A step after which nothing is asked of the run.
LEMMA PlainStep == ASSUME BoxInv, FilesInv, FilesSame, NEW o, run' = o, Plain(o) PROVE FilesInv'
<1>1. FilesFit(o)' BY PlainFits
<1> QED BY <1>1, OfRun, SameBase DEF FilesInv

\* A step that leaves the files alone, when what its place needs is known before.
LEMMA SameStep == ASSUME BoxInv, FilesInv, FilesSame, NEW o, run' = o, FilesFit(o) PROVE FilesInv'
<1>1. FilesFit(o)' BY SameFits
<1> QED BY <1>1, OfRun, SameBase DEF FilesInv

\* A run that is over.
LEMMA OverPlain == ASSUME run' = NoRun PROVE FilesFit(run)'
<1> PICK o : o = NoRun OBVIOUS
<1>1. Plain(o) BY DEF Plain, NoRun, PlainPcs
<1> QED BY <1>1, PlainFits, OfRun

\* A run that ends, with the files as they are.
LEMMA OverStep == ASSUME BoxInv, FilesInv, FilesSame, run' = NoRun PROVE FilesInv'
BY OverPlain, SameBase DEF FilesInv

\* A step failed: an install is taken down by what it wrote or by the list, an update goes to
\* its backup, or drops what is not one.
LEMMA FailedFits == ASSUME BoxInv, run.pc \in InstallPcs \cup BeforeSwap \cup SwapPcs, NEW r \in RunRec, failed(r), r.kind = run.kind,
                           r.kind = "update" => r.written = NoList /\ ~r.unpacked,
                           NEW l, l = IF r.unpacked THEN r.written ELSE list', r.kind = "install" /\ r.begun => was'.kept \/ ListKnows(l)'
                    PROVE  FilesFit(run)'
<1>1. run.kind \in {"install", "update"}
  <2>1. run.kind # "remove" /\ run.pc # "idle" BY DEF BoxInv, Fits, RunFits, InKind
  <2> QED BY <2>1, AtWork DEF Kinds
<1>2. CASE r.kind = "install" /\ r.begun
  <2> PICK o : o = [r EXCEPT !.pc = "t_stop", !.back = "rollback"] OBVIOUS
  <2>1. run' = o BY <1>2 DEF failed
  <2>2. o.pc = "t_stop" /\ o.back = "rollback" /\ o.unpacked = r.unpacked /\ o.written = r.written /\ o.kind = r.kind BY DEF RunRec
  <2>3. Clears(o)'
    <3>1. was'.kept \/ ListKnows(l)' BY <1>2
    <3>2. DoomedBy(o)' = l BY <2>2 DEF DoomedBy
    <3> QED BY <1>2, <2>2, <3>1, <3>2 DEF Clears, ListKnows
  <2>4. FilesFit(o)' BY <1>2, <2>2, <2>3 DEF FilesFit, Fresh, Writes, Wrote, Swaps, Swapped, PutsBack
  <2> QED BY <2>1, <2>4, OfRun
<1>3. CASE r.kind = "install" /\ ~r.begun
  BY <1>3, OverPlain DEF failed, End
<1>4. CASE r.kind = "update" /\ r.backed
  <2> PICK o : o = [r EXCEPT !.pc = "r_read", !.back = "rollback"] OBVIOUS
  <2>1. run' = o BY <1>4 DEF failed
  <2>2. Plain(o) BY <1>4 DEF RunRec, Plain, PlainPcs
  <2> QED BY <2>1, <2>2, PlainFits, OfRun
<1>5. CASE r.kind = "update" /\ ~r.backed
  <2> PICK o : o = [r EXCEPT !.pc = "drop", !.back = "failed"] OBVIOUS
  <2>1. run' = o BY <1>5 DEF failed
  <2>2. Plain(o) BY <1>5 DEF RunRec, Plain, PlainPcs
  <2> QED BY <2>1, <2>2, PlainFits, OfRun
<1> QED BY <1>1, <1>2, <1>3, <1>4, <1>5


\* What a step leaves alone, as FilesInv sees it.
LEMMA RestSame == ASSUME disk' = disk, list' = list, manifest' = manifest, backup' = backup, Rest PROVE FilesSame
BY DEF Rest, FilesSame

\* A run that has not unpacked has written nothing.
LEMMA FreshIs == ASSUME FilesInv, run.kind # "install" \/ run.pc \in PlainPcs \cup BackPcs \cup {"drop"} PROVE run.written = NoList /\ ~run.unpacked
BY DEF FilesInv, FilesFit, Fresh, PlainPcs

\* The first look at what an earlier run left, and the look under the lock.
LEMMA recoverFiles == ASSUME BoxInv, FilesInv, recoverUpdate PROVE FilesInv'
<1>1. FilesSame BY RestSame DEF recoverUpdate, box
<1>2. run.pc = "recover" /\ run \in RunRec BY DEF recoverUpdate, BoxInv, BoxTypes
<1>3. run.written = NoList /\ ~run.unpacked BY <1>2, FreshIs DEF PlainPcs
<1> PICK a : a = IF backup.mark = "none" \/ (~modulePresent /\ run.kind = "remove") THEN "admit" ELSE IF ~modulePresent THEN "drop" ELSE "r_read" OBVIOUS
<1> PICK b : b = IF modulePresent THEN "recover" ELSE "admit" OBVIOUS
<1> PICK o : o = [run EXCEPT !.pc = a, !.back = b] OBVIOUS
<1>4. run' = o BY DEF recoverUpdate
<1>5. o.pc = a /\ o.back = b /\ o.written = NoList /\ ~o.unpacked BY <1>2, <1>3 DEF RunRec
<1>6. Plain(o) BY <1>5 DEF Plain, PlainPcs
<1> QED BY <1>1, <1>4, <1>6, PlainStep

\* The look at the box under the lock.
LEMMA AdmitFiles == ASSUME BoxInv, FilesInv, Admit PROVE FilesInv'
<1>1. /\ disk' = disk /\ list' = list /\ manifest' = manifest /\ backup' = backup /\ theirs' = theirs /\ run.pc = "admit" BY DEF Admit, box
<1>2. run \in RunRec /\ was \in WasRec /\ run.kind \in Kinds BY <1>1, AtWork DEF BoxInv, BoxTypes
<1>3. run.written = NoList /\ ~run.unpacked BY <1>1, FreshIs DEF PlainPcs
<1>4. CASE End("refused") /\ was' = was BY <1>1, <1>4, OverStep DEF End, FilesSame
<1>5. CASE /\ IF run.kind = "remove" THEN ~removeRefusal ELSE ~planRefusal
           /\ run' = [run EXCEPT !.pc = IF run.kind = "remove" THEN "t_stop" ELSE "packages",
                                 !.back = "none", !.target = latest, !.bad = FALSE, !.left = FALSE]
           /\ was' = [was EXCEPT !.disk = disk, !.list = list, !.version = version, !.active = unit.active, !.edited = {},
                                 !.kept = @ \/ run.kept]
  <2>1. was'.kept = (was.kept \/ run.kept) BY <1>2, <1>5 DEF WasRec
  <2>2. FilesSame BY <1>1, <2>1 DEF FilesSame
  <2> PICK a : a = IF run.kind = "remove" THEN "t_stop" ELSE "packages" OBVIOUS
  <2> PICK o : o = [run EXCEPT !.pc = a, !.back = "none", !.target = latest, !.bad = FALSE, !.left = FALSE] OBVIOUS
  <2>3. run' = o BY <1>5
  <2>4. o.pc = a /\ o.back = "none" /\ o.written = NoList /\ ~o.unpacked /\ o.kind = run.kind /\ o.kept = run.kept BY <1>2, <1>3 DEF RunRec
  <2>5. CASE run.kind # "remove"
    <3>1. Plain(o) BY <2>4, <2>5 DEF Plain, PlainPcs
    <3> QED BY <2>2, <2>3, <3>1, PlainStep
  <2>6. CASE run.kind = "remove"
    <3>1. run.kept \/ ~Complete BY <1>1, <1>5, <2>6 DEF removeRefusal, BoxInv, Fits, RunFits, Fore
    <3>2. was'.kept \/ ListKnows(list)
      BY <2>1, <3>1 DEF FilesInv, ModuleKnows
    <3>3. was'.kept \/ ListKnows(list)' BY <1>1, <2>2, <3>2, SameFiles DEF ListKnows
    <3>4. DoomedBy(o)' = list' BY <2>4 DEF DoomedBy
    <3>5. Clears(o)'
      <4>1. o.kept => was'.kept BY <2>1, <2>4
      <4>2. was'.kept \/ ListKnows(DoomedBy(o))' BY <3>3, <3>4 DEF ListKnows
      <4>3. o.pc = "t_stop" BY <2>4, <2>6
      <4> QED BY <4>1, <4>2, <4>3 DEF Clears
    <3>6. FilesFit(o)' BY <2>4, <2>6, <3>5 DEF FilesFit, Fresh, Writes, Wrote, Swaps, Swapped, PutsBack
    <3> QED BY <2>2, <2>3, <3>6, OfRun, SameBase DEF FilesInv
  <2> QED BY <2>5, <2>6
<1> QED BY <1>4, <1>5 DEF Admit

\* An install that goes on, or an update: its place is another and nothing else of it.
LEMMA AdvanceFits == ASSUME BoxInv, FilesInv, NEW pc, pc \in {"packages", "download", "verify", "units", "start", "route"}, run.pc = pc, Advance(pc),
                            NEW o, o = run'
                     PROVE  FilesFit(o)
<1>1. run \in RunRec /\ run.kind \in {"install", "update"} /\ FilesFit(run)
  <2>1. run.kind # "remove" /\ run.pc # "idle" BY DEF BoxInv, Fits, RunFits, InKind
  <2> QED BY <2>1, AtWork DEF Kinds, FilesInv
<1> PICK a : a = NextStep(pc) OBVIOUS
<1>2. CASE run.kind = "install"
  <2>1. a = CASE pc = "packages" -> "download" [] pc = "download" -> "verify" [] pc = "verify" -> "unpack"
              [] pc = "units" -> "manifest" [] pc = "start" -> "route" [] pc = "route" -> "done"
    BY <1>2, InstallOrder
  <2>2. run' = [run EXCEPT !.pc = a, !.back = run.back] BY <2>1 DEF Advance
  <2>3. /\ o.pc = a /\ o.kind = "install" /\ o.back = run.back /\ o.written = run.written /\ o.unpacked = run.unpacked /\ o.target = run.target
    BY <1>1, <1>2, <2>2 DEF RunRec
  <2>4. CASE pc \in {"packages", "download", "verify"}
    <3>1. Plain(o) BY <1>2, <2>1, <2>3, <2>4, FreshIs DEF Plain, PlainPcs
    <3> QED BY <3>1, PlainFits
  <2>5. CASE pc \in {"units", "start", "route"}
    <3>1. Wrote(run) BY <1>1 DEF FilesFit
    <3>2. Wrote(o) BY <1>2, <2>1, <2>3, <2>5, <3>1 DEF Wrote
    <3> QED BY <2>1, <2>3, <2>5, <3>2 DEF FilesFit, Fresh, Writes, Swaps, Swapped, PutsBack, Clears
  <2> QED BY <2>4, <2>5
<1>3. CASE run.kind = "update"
  <2>1. \/ pc = "packages" /\ a = "download"
        \/ pc = "download" /\ a = "verify"
        \/ pc = "verify" /\ a = "unpack"
        \/ pc = "units" /\ a \in {"start", "drop"}
        \/ pc = "start" /\ a \in {"route", "drop"}
        \/ pc = "route" /\ a = "drop"
    BY <1>3, UpdateOrder
  <2> PICK b : b = IF a = "drop" THEN "done" ELSE run.back OBVIOUS
  <2>2. run' = [run EXCEPT !.pc = a, !.back = b] BY <2>1 DEF Advance
  <2>3. /\ o.pc = a /\ o.kind = "update" /\ o.back = b /\ o.written = NoList /\ ~o.unpacked /\ o.target = run.target
    BY <1>1, <1>3, <2>2, FreshIs DEF RunRec
  <2>4. CASE pc \in {"packages", "download", "verify"}
    <3>1. Plain(o) BY <1>2, <2>1, <2>3, <2>4 DEF Plain, PlainPcs
    <3> QED BY <3>1, PlainFits
  <2>5. CASE pc \in {"units", "start", "route"}
    <3>1. Swaps(run) /\ Swapped(run) BY <1>1, <1>3, <2>5 DEF FilesFit, Swapped
    <3>2. Swaps(o) BY <1>3, <2>1, <2>3, <2>5, <3>1 DEF Swaps, Swapped
    <3> QED BY <2>1, <2>3, <2>5, <3>2 DEF FilesFit, Fresh, Writes, Wrote, PutsBack, Clears
  <2> QED BY <2>4, <2>5
<1> QED BY <1>1, <1>2, <1>3


\* A step failed that left the files alone, but for the unpacking of an install.
LEMMA FailSame == ASSUME BoxInv, FilesInv, FilesSame, run.pc \in (InstallPcs \cup BeforeSwap \cup SwapPcs) \ {"write"}, failed(run) PROVE FilesInv'
<1> PICK r : r = run OBVIOUS
<1>1. r \in RunRec /\ run \in RunRec /\ failed(r) /\ list' = list BY DEF BoxInv, BoxTypes, FilesSame
<1>2. r.kind = "update" => r.written = NoList /\ ~r.unpacked BY FreshIs
<1> PICK l : l = IF r.unpacked THEN r.written ELSE list' OBVIOUS
<1>3. r.kind = "install" => was'.kept \/ ListKnows(l)'
  <2>1. SUFFICES ASSUME run.kind = "install" PROVE was'.kept \/ ListKnows(l)' OBVIOUS
  <2>2. run.pc \in InstallPcs BY <2>1 DEF BoxInv, Fits, RunFits, InKind
  <2>3. ~Complete BY <2>1, <2>2, AtInstall
  <2>4. was.kept \/ ListKnows(list) BY <2>3 DEF FilesInv, ModuleKnows
  <2>5. l = list
    <3>1. CASE run.pc \in EarlyPcs BY <1>1, <3>1, FreshIs DEF PlainPcs
    <3>2. CASE run.pc \notin EarlyPcs BY <1>1, <2>1, <2>2, <3>2 DEF FilesInv, FilesFit, Wrote
    <3> QED BY <3>1, <3>2
  <2>6. was'.kept \/ ListKnows(l) BY <2>4, <2>5 DEF FilesSame
  <2> QED BY <2>6, SameFiles
<1>4. FilesFit(run)' BY <1>1, <1>2, <1>3, FailedFits
<1> QED BY <1>4, SameBase DEF FilesInv

\* The steps that change nothing of the box.
LEMMA QuietFiles == ASSUME BoxInv, FilesInv, StepQuiet \/ Done PROVE FilesInv'
<1>1. FilesSame BY RestSame DEF StepQuiet, Done, box
<1>2. CASE Done BY <1>1, <1>2, OverStep DEF Done, End
<1>3. CASE StepQuiet
  <2> PICK pc : pc = run.pc OBVIOUS
  <2>1. run.pc \in {"packages", "download", "verify", "units", "route"} BY <1>3 DEF StepQuiet
  <2>2. CASE Advance(run.pc)
    <3> PICK o : o = run' OBVIOUS
    <3>1. Advance(pc) BY <2>2
    <3>2. FilesFit(o) BY <2>1, <3>1, AdvanceFits
    <3> QED BY <1>1, <3>2, SameStep
  <2>3. CASE failed(run) BY <1>1, <2>1, <2>3, FailSame
  <2> QED BY <1>3, <2>2, <2>3 DEF StepQuiet
<1> QED BY <1>2, <1>3

\* The entries that are still the module's name what is at their paths.
LEMMA StillKnows == ASSUME list \in Lists, ListKnows(list), NEW mine, mine = stillTheirs(list) PROVE ListKnows(mine)
<1>1. \A p \in Ours : p \in Paths /\ disk[p] \in list[p] /\ disk[p] # None BY ContentsAre DEF ListKnows, Ours
<1>2. \A p \in Ours : mine[p] = list[p] BY <1>1 DEF stillTheirs, holds
<1> QED BY <1>1, <1>2 DEF ListKnows

\* An install looks at what an earlier one left.
LEMMA UnpackFiles == ASSUME BoxInv, FilesInv, Unpack PROVE FilesInv'
<1>1. /\ disk' = disk /\ manifest' = manifest /\ backup' = backup /\ theirs' = theirs /\ was' = was
      /\ run.pc = "unpack" /\ run.kind = "install" BY DEF Unpack, Rest
<1>2. ~Complete /\ run.target \in Versions /\ run \in RunRec /\ list \in Lists /\ manifest = None
  BY <1>1, AtInstall DEF BoxInv, BoxTypes, Installs
<1>3. was.kept \/ ListKnows(list) BY <1>2 DEF FilesInv, ModuleKnows
<1> PICK mine : mine = stillTheirs(list) OBVIOUS
<1>4. was.kept \/ ListKnows(mine) BY <1>2, <1>3, StillKnows
<1>5. Ours' = Ours /\ (Complete' <=> Complete) BY <1>1 DEF Ours, Complete
<1>6. BackupKnows' BY <1>2, <1>5 DEF BackupKnows
<1>7. run.written = NoList /\ ~run.unpacked BY <1>1, FreshIs DEF PlainPcs
<1>8. mine \in Lists BY <1>2, ListsMade
<1>9. CASE list' = mine /\ failed([run EXCEPT !.begun = TRUE, !.unpacked = TRUE, !.written = mine])
  <2> PICK r : r = [run EXCEPT !.begun = TRUE, !.unpacked = TRUE, !.written = mine] OBVIOUS
  <2>1. r \in RunRec /\ r.kind = run.kind /\ r.unpacked /\ r.written = mine BY <1>2, <1>8 DEF RunRec
  <2>2. failed(r) BY <1>9
  <2>3. was'.kept \/ ListKnows(mine)' BY <1>1, <1>4, <1>5 DEF ListKnows
  <2>4. FilesFit(run)' BY <1>1, <1>9, <2>1, <2>2, <2>3, FailedFits
  <2>5. ModuleKnows' BY <1>1, <1>2, <1>9, <2>3 DEF ModuleKnows, ListKnows
  <2> QED BY <1>6, <2>4, <2>5 DEF FilesInv
<1>10. CASE /\ list' = plannedEntries(run.target, mine)
            /\ run' = [run EXCEPT !.pc = "write", !.begun = TRUE, !.mine = mine, !.todo = DOMAIN FilesOf[run.target]]
  <2> PICK o : o = [run EXCEPT !.pc = "write", !.begun = TRUE, !.mine = mine, !.todo = DOMAIN FilesOf[run.target]] OBVIOUS
  <2>1. /\ run' = o /\ o.pc = "write" /\ o.kind = "install" /\ o.mine = mine /\ o.todo = DOMAIN FilesOf[run.target] /\ o.target = run.target
        /\ o.written = NoList BY <1>1, <1>2, <1>7, <1>10 DEF RunRec
  <2>2. \A p \in Paths : mine[p] \subseteq list'[p] BY <1>8, <1>10 DEF plannedEntries
  <2>3. was.kept \/ ListKnows(list)' BY <1>1, <1>4, <1>5, <2>2 DEF ListKnows, Ours
  <2>4. ModuleKnows' BY <1>1, <1>2, <2>3 DEF ModuleKnows
  <2>5. Writes(o)'
    <3>1. \A p \in Paths : o.written[p] = {} BY <2>1 DEF NoList
    <3> PICK w : w = writtenEntries(o.mine, o.written) OBVIOUS
    <3>2. \A p \in Paths : w[p] = mine[p] BY <2>1, <3>1 DEF writtenEntries
    <3>3. was'.kept \/ ListKnows(w)' BY <1>1, <1>4, <1>5, <3>2 DEF ListKnows, Ours
    <3>4. list' = plannedEntries(o.target, o.mine) BY <1>10, <2>1
    <3>5. DOMAIN FilesOf[o.target] \ o.todo = {} BY <2>1
    <3> QED BY <3>1, <3>3, <3>4, <3>5 DEF Writes, plannedEntries, ListKnows
  <2>6. FilesFit(o)' BY <2>1, <2>5 DEF FilesFit, Fresh, Wrote, Swaps, Swapped, PutsBack, Clears
  <2> QED BY <1>6, <2>1, <2>4, <2>6, OfRun DEF FilesInv
<1> QED BY <1>9, <1>10 DEF Unpack


\* What the list of a writing install is, and what was written.
LEMMA AtWrite == ASSUME BoxInv, FilesInv, run.pc = "write"
                 PROVE  /\ run.kind = "install" /\ ~Complete /\ run.target \in Versions /\ run \in RunRec /\ list \in Lists /\ manifest = None
                        /\ run.todo \subseteq DOMAIN FilesOf[run.target] /\ DOMAIN FilesOf[run.target] \subseteq Paths
                        /\ Writes(run) /\ disk \in [Paths -> Bytes] /\ run.mine \in Lists /\ run.written \in Lists
                        /\ writtenEntries(run.mine, run.written) \in Lists
<1>1. run.kind = "install" BY DEF BoxInv, Fits, RunFits, InKind
<1>2. ~Complete /\ run.target \in Versions /\ run \in RunRec /\ list \in Lists /\ manifest = None /\ disk \in [Paths -> Bytes]
  BY <1>1, AtInstall DEF BoxInv, BoxTypes, Installs
<1>3. run.todo \subseteq DOMAIN FilesOf[run.target] BY DEF BoxInv, Fits, RunFits, TodoFits
<1>4. run.mine \in Lists /\ run.written \in Lists BY <1>2 DEF RunRec
<1> QED BY <1>1, <1>2, <1>3, <1>4, BoxAssumption, ListsMade DEF FilesInv, FilesFit

\* One file of the archive is put at its path, or fails to be.
LEMMA WriteFiles == ASSUME BoxInv, FilesInv, NEW p \in Paths, Write(p) PROVE FilesInv'
<1>1. /\ manifest' = manifest /\ backup' = backup /\ theirs' = theirs /\ was' = was /\ run.pc = "write" /\ p \in run.todo
  BY DEF Write, Rest
<1>2. /\ run.kind = "install" /\ ~Complete /\ run.target \in Versions /\ run \in RunRec /\ list \in Lists /\ manifest = None
      /\ run.todo \subseteq DOMAIN FilesOf[run.target] /\ DOMAIN FilesOf[run.target] \subseteq Paths
      /\ Writes(run) /\ disk \in [Paths -> Bytes] /\ run.mine \in Lists /\ run.written \in Lists
      /\ writtenEntries(run.mine, run.written) \in Lists BY <1>1, AtWrite
<1>3. ~Complete' /\ BackupKnows' BY <1>1, <1>2 DEF BackupKnows, Complete
<1> PICK w : w = writtenEntries(run.mine, run.written) OBVIOUS
<1>4. was.kept \/ ListKnows(w) BY <1>1, <1>2 DEF Writes
<1>5. CASE /\ disk' = [disk EXCEPT ![p] = FilesOf[run.target][p]]
           /\ run' = [run EXCEPT !.todo = @ \ {p}, !.written[p] = ListOf(run.target)[p]]
           /\ list' = list
  <2> PICK o : o = [run EXCEPT !.todo = @ \ {p}, !.written[p] = ListOf(run.target)[p]] OBVIOUS
  <2> PICK v : v = run.target OBVIOUS
  <2>1. /\ run' = o /\ o.pc = "write" /\ o.kind = "install" /\ o.mine = run.mine /\ o.todo = run.todo \ {p} /\ o.target = v
        /\ o.written = [run.written EXCEPT ![p] = ListOf(v)[p]] BY <1>1, <1>2, <1>5 DEF RunRec
  <2>2. p \in DOMAIN FilesOf[v] /\ ListOf(v)[p] = {FilesOf[v][p]} BY <1>1, <1>2 DEF ListOf, Has
  <2>3. disk'[p] = FilesOf[v][p] /\ \A q \in Paths \ {p} : disk'[q] = disk[q] BY <1>2, <1>5
  <2>4. o.written[p] = {FilesOf[v][p]} /\ \A q \in Paths \ {p} : o.written[q] = run.written[q] BY <1>2, <2>1, <2>2 DEF Lists
  <2> PICK x : x = writtenEntries(o.mine, o.written) OBVIOUS
  <2>5. x[p] = {FilesOf[v][p]} /\ \A q \in Paths \ {p} : x[q] = w[q] BY <2>1, <2>4 DEF writtenEntries
  <2>6. was'.kept \/ ListKnows(x)'
    <3>1. \A q \in Ours' : q \in Paths /\ (q # p => q \in Ours) BY <1>1, <2>3 DEF Ours
    <3> QED BY <1>1, <1>4, <2>3, <2>5, <3>1 DEF ListKnows
  <2>7. Writes(run) BY <1>2
  <2>8. Writes(o)'
    <3>1. list' = plannedEntries(o.target, o.mine) BY <1>1, <1>5, <2>1, <2>7 DEF Writes
    <3>2. \A q \in Paths : o.written[q] = IF q \in DOMAIN FilesOf[v] \ o.todo THEN ListOf(v)[q] ELSE {}
      <4>1. \A q \in Paths : run.written[q] = IF q \in DOMAIN FilesOf[v] \ run.todo THEN ListOf(v)[q] ELSE {} BY <1>1, <2>7 DEF Writes
      <4> QED BY <2>1, <2>2, <2>4, <4>1
    <3>3. \A q \in DOMAIN FilesOf[v] \ o.todo : Holds(q, v)'
      <4>1. \A q \in DOMAIN FilesOf[v] \ run.todo : Holds(q, v) BY <1>1, <2>7 DEF Writes
      <4> QED BY <1>2, <2>1, <2>3, <4>1 DEF Holds
    <3> QED BY <2>1, <2>6, <3>1, <3>2, <3>3 DEF Writes, plannedEntries, ListKnows, Holds
  <2>9. FilesFit(o)' BY <2>1, <2>8 DEF FilesFit, Fresh, Wrote, Swaps, Swapped, PutsBack, Clears
  <2>10. was'.kept \/ ListKnows(list)'
    <3>1. \A q \in Paths : x[q] \subseteq list'[q]
      <4>1. list' = plannedEntries(v, run.mine) BY <1>1, <1>5, <2>7 DEF Writes
      <4>2. \A q \in Paths : list'[q] = ListOf(v)[q] \cup run.mine[q] BY <4>1 DEF plannedEntries
      <4>3. \A q \in Paths : o.written[q] \in {{}, ListOf(v)[q]}
        <5>1. \A q \in Paths : run.written[q] \in {{}, ListOf(v)[q]} BY <1>1, <2>7 DEF Writes
        <5> QED BY <2>2, <2>4, <5>1
      <4>4. \A q \in Paths : x[q] = IF o.written[q] # {} THEN o.written[q] ELSE run.mine[q] BY <2>1 DEF writtenEntries
      <4> QED BY <4>2, <4>3, <4>4
    <3>2. Ours' \subseteq Paths BY DEF Ours
    <3> QED BY <2>6, <3>1, <3>2 DEF ListKnows
  <2>11. ModuleKnows' BY <1>1, <1>2, <2>10 DEF ModuleKnows
  <2> QED BY <1>3, <2>1, <2>9, <2>11, OfRun DEF FilesInv
<1>6. CASE /\ list' = writtenEntries(run.mine, run.written) /\ disk' = disk
           /\ failed([run EXCEPT !.unpacked = TRUE, !.written = writtenEntries(run.mine, run.written)])
  <2> PICK r : r = [run EXCEPT !.unpacked = TRUE, !.written = w] OBVIOUS
  <2>1. r \in RunRec /\ r.kind = run.kind /\ r.unpacked /\ r.written = w BY <1>2 DEF RunRec
  <2>2. failed(r) BY <1>6
  <2>3. was'.kept \/ ListKnows(w)' BY <1>1, <1>4, <1>6 DEF ListKnows, Ours
  <2>4. FilesFit(run)' BY <1>1, <1>2, <2>1, <2>2, <2>3, FailedFits
  <2>5. ModuleKnows' BY <1>1, <1>2, <1>6, <2>3 DEF ModuleKnows, ListKnows
  <2> QED BY <1>3, <2>4, <2>5 DEF FilesInv
<1> QED BY <1>5, <1>6 DEF Write

\* The list is what was written, and no more.
LEMMA RecordFiles == ASSUME BoxInv, FilesInv, Record PROVE FilesInv'
<1>1. /\ disk' = disk /\ manifest' = manifest /\ backup' = backup /\ theirs' = theirs /\ was' = was /\ run.pc = "write" /\ run.todo = {}
  BY DEF Record, Rest
<1>2. /\ run.kind = "install" /\ ~Complete /\ run.target \in Versions /\ run \in RunRec /\ list \in Lists /\ manifest = None
      /\ Writes(run) /\ run.mine \in Lists /\ run.written \in Lists
      /\ writtenEntries(run.mine, run.written) \in Lists BY <1>1, AtWrite
<1>3. ~Complete' /\ BackupKnows' BY <1>1, <1>2 DEF BackupKnows, Complete
<1> PICK w : w = writtenEntries(run.mine, run.written) OBVIOUS
<1>4. was.kept \/ ListKnows(w) BY <1>1, <1>2 DEF Writes
<1>5. was'.kept \/ ListKnows(w)' BY <1>1, <1>4 DEF ListKnows, Ours
<1> PICK r : r = [run EXCEPT !.unpacked = TRUE, !.written = w] OBVIOUS
<1>6. r \in RunRec /\ r.kind = run.kind /\ r.unpacked /\ r.written = w /\ r.target = run.target BY <1>2 DEF RunRec
<1>7. \/ list' = w /\ run' = [r EXCEPT !.pc = NextStep("unpack")]
      \/ list' = list /\ failed(r)
  BY Zenon DEF Record
<1>8. CASE list' = w /\ run' = [r EXCEPT !.pc = NextStep("unpack")]
  <2> PICK o : o = [r EXCEPT !.pc = "units"] OBVIOUS
  <2>1. run' = o BY <1>2, <1>8, InstallOrder
  <2>2. o.pc = "units" /\ o.kind = "install" /\ o.unpacked /\ o.written = w /\ o.target = run.target BY <1>2, <1>6 DEF RunRec
  <2>3. Wrote(o)'
    <3>1. \A q \in DOMAIN FilesOf[run.target] : Holds(q, run.target) BY <1>1, <1>2 DEF Writes
    <3> QED BY <1>1, <1>8, <2>2, <3>1 DEF Wrote, Holds
  <2>4. FilesFit(o)' BY <2>2, <2>3 DEF FilesFit, Fresh, Writes, Swaps, Swapped, PutsBack, Clears
  <2>5. ModuleKnows' BY <1>1, <1>2, <1>5, <1>8 DEF ModuleKnows, ListKnows
  <2> QED BY <1>3, <2>1, <2>4, <2>5, OfRun DEF FilesInv
<1>9. CASE list' = list /\ failed(r)
  <2>1. FilesFit(run)' BY <1>1, <1>2, <1>5, <1>6, <1>9, FailedFits
  <2>2. FilesSame BY <1>1, <1>9 DEF FilesSame
  <2> QED BY <2>1, <2>2, SameBase DEF FilesInv
<1> QED BY <1>7, <1>8, <1>9

\* The version is written, then the manifest, then the unit is started.
LEMMA stateFiles == ASSUME BoxInv, FilesInv, stepVersion \/ stepManifest \/ stepStart PROVE FilesInv'
<1>1. run \in RunRec /\ FilesFit(run) BY DEF BoxInv, BoxTypes, FilesInv
<1>2. CASE stepVersion
  <2>1. FilesSame /\ run.pc = "manifest" BY <1>2, RestSame DEF stepVersion
  <2> PICK o : o = [run EXCEPT !.pc = "manifest2"] OBVIOUS
  <2>2. run' = o BY <1>2 DEF stepVersion, Goto
  <2>3. /\ o.pc = "manifest2" /\ o.kind = run.kind /\ o.written = run.written /\ o.unpacked = run.unpacked /\ o.target = run.target BY <1>1 DEF RunRec
  <2>4. run.kind = "install" BY <2>1 DEF BoxInv, Fits, RunFits, InKind
  <2>5. Wrote(o) BY <1>1, <2>1, <2>3, <2>4 DEF FilesFit, Wrote
  <2>6. FilesFit(o) BY <2>3, <2>4, <2>5 DEF FilesFit, Fresh, Writes, Swaps, Swapped, PutsBack, Clears
  <2> QED BY <2>1, <2>2, <2>6, SameStep
<1>3. CASE stepManifest
  <2>1. /\ run.pc = "manifest2" /\ disk' = disk /\ list' = list /\ backup' = backup /\ theirs' = theirs /\ was' = was BY <1>3 DEF stepManifest, Rest
  <2>2. run.kind = "install" BY <2>1 DEF BoxInv, Fits, RunFits, InKind
  <2>3. CASE manifest' = manifest /\ failed(run)
    <3>1. FilesSame BY <2>1, <2>3 DEF FilesSame
    <3> QED BY <2>1, <2>3, <3>1, FailSame
  <2>4. CASE manifest' = run.target /\ Goto("start")
    <3> PICK o : o = [run EXCEPT !.pc = "start"] OBVIOUS
    <3>1. run' = o BY <2>4 DEF Goto
    <3>2. /\ o.pc = "start" /\ o.kind = run.kind /\ o.written = run.written /\ o.unpacked = run.unpacked /\ o.target = run.target BY <1>1 DEF RunRec
    <3>3. Wrote(run) /\ ~Complete BY <1>1, <2>1, <2>2, AtInstall DEF FilesFit
    <3>4. Wrote(o)' BY <2>1, <2>2, <3>2, <3>3 DEF Wrote, Holds
    <3>5. FilesFit(o)' BY <2>2, <3>2, <3>4 DEF FilesFit, Fresh, Writes, Swaps, Swapped, PutsBack, Clears
    <3>6. BackupKnows' BY <2>1, <3>3 DEF BackupKnows, Complete
    <3>7. ModuleKnows'
      <4>1. \A q \in DOMAIN FilesOf[run.target] : Holds(q, run.target) BY <2>1, <2>2, <3>3 DEF Wrote
      <4>2. was.kept \/ ListKnows(list) BY <3>3 DEF FilesInv, ModuleKnows
      <4>3. was'.kept \/ ListKnows(list)' BY <2>1, <4>2 DEF ListKnows, Ours
      <4> QED BY <2>1, <2>4, <4>1, <4>3 DEF ModuleKnows, Holds
    <3> QED BY <3>1, <3>5, <3>6, <3>7, OfRun DEF FilesInv
  <2> QED BY <1>3, <2>3, <2>4 DEF stepManifest
<1>4. CASE stepStart
  <2>1. FilesSame /\ run.pc = "start" BY <1>4, RestSame DEF stepStart
  <2>2. CASE Advance("start")
    <3> PICK o : o = run' OBVIOUS
    <3> PICK pc : pc = "start" OBVIOUS
    <3>1. Advance(pc) BY <2>2
    <3>2. FilesFit(o) BY <2>1, <3>1, AdvanceFits
    <3> QED BY <2>1, <3>2, SameStep
  <2>3. CASE failed(run) BY <2>1, <2>3, FailSame
  <2> QED BY <1>4, <2>2, <2>3 DEF stepStart
<1> QED BY <1>2, <1>3, <1>4


\* The beginning of an update, which changes nothing of the box.
LEMMA StageFiles == ASSUME BoxInv, FilesInv, Stage \/ stepStop \/ SwapFails PROVE FilesInv'
<1>1. FilesSame BY RestSame DEF Stage, stepStop, SwapFails, box
<1>2. run \in RunRec /\ FilesFit(run) BY DEF BoxInv, BoxTypes, FilesInv
<1>3. CASE Stage
  <2>1. run.pc = "unpack" /\ run.kind = "update" BY <1>3 DEF Stage
  <2> PICK mine : mine = stillTheirs(list) OBVIOUS
  <2>2. run' = [run EXCEPT !.pc = "backup", !.mine = mine] \/ failed(run) BY <1>3, Zenon DEF Stage
  <2>3. CASE run' = [run EXCEPT !.pc = "backup", !.mine = mine]
    <3> PICK o : o = [run EXCEPT !.pc = "backup", !.mine = mine] OBVIOUS
    <3>1. Plain(o) BY <1>2, <2>1, FreshIs DEF Plain, PlainPcs, RunRec
    <3> QED BY <1>1, <2>3, <3>1, PlainStep
  <2> QED BY <1>1, <2>1, <2>2, <2>3, FailSame
<1>4. CASE stepStop
  <2>1. run.pc = "stop" BY <1>4 DEF stepStop
  <2>2. run.kind = "update" BY <2>1 DEF BoxInv, Fits, RunFits, InKind
  <2>3. CASE run' = [run EXCEPT !.pc = "swap", !.todo = DOMAIN FilesOf[run.target]]
    <3> PICK o : o = [run EXCEPT !.pc = "swap", !.todo = DOMAIN FilesOf[run.target]] OBVIOUS
    <3>1. /\ o.pc = "swap" /\ o.kind = "update" /\ o.target = run.target /\ o.todo = DOMAIN FilesOf[run.target] /\ o.written = NoList /\ ~o.unpacked
      BY <1>2, <2>2, FreshIs DEF RunRec
    <3>2. Swaps(o) BY <1>2, <2>1, <2>2, <3>1 DEF FilesFit, Swaps, Swapped
    <3>3. FilesFit(o) BY <3>1, <3>2 DEF FilesFit, Fresh, Writes, Wrote, PutsBack, Clears
    <3> QED BY <1>1, <2>3, <3>3, SameStep
  <2> QED BY <1>1, <1>4, <2>1, <2>3, FailSame DEF stepStop
<1>5. CASE SwapFails
  <2>1. run.pc \in {"s_manifest", "s_version", "swap_del"} /\ failed(run) BY <1>5 DEF SwapFails
  <2> QED BY <1>1, <2>1, FailSame
<1> QED BY <1>3, <1>4, <1>5

\* The backup, up to the mark that it is complete.
LEMMA backupFiles == ASSUME BoxInv, BoxInv', FilesInv, stepBackup \/ backupDone PROVE FilesInv'
<1>1. /\ disk' = disk /\ list' = list /\ manifest' = manifest /\ theirs' = theirs /\ was' = was /\ run.pc \in {"backup", "backup2"}
  BY DEF stepBackup, backupDone, box, Rest
<1>2. run \in RunRec /\ run.kind = "update" BY <1>1 DEF BoxInv, BoxTypes, Fits, RunFits, InKind
<1>3. ~Complete /\ manifest = J /\ manifest # None /\ manifest \in Versions /\ version = manifest
  <2>1. Updates(run) BY DEF BoxInv, Fits, RunFits
  <2> QED BY <1>1, <1>2, <2>1, Numbers DEF Updates, None, BoxInv, BoxTypes
<1>4. run.written = NoList /\ ~run.unpacked BY <1>2, FreshIs
<1>5. CASE backup' = backup /\ failed(run)
  <2>1. FilesSame BY <1>1, <1>5 DEF FilesSame
  <2> QED BY <1>1, <1>5, <2>1, FailSame
<1>6. CASE backup' = [NoBackup EXCEPT !.mark = "partial"] /\ Goto("backup2")
  <2> PICK o : o = [run EXCEPT !.pc = "backup2"] OBVIOUS
  <2>1. run' = o /\ Plain(o) BY <1>2, <1>4, <1>6 DEF Plain, PlainPcs, RunRec, Goto
  <2>2. ~Complete' BY <1>6 DEF Complete, NoBackup
  <2>3. BackupKnows' /\ ModuleKnows' BY <1>1, <1>3, <2>2 DEF BackupKnows, FilesInv, ModuleKnows, ListKnows, Ours, Holds
  <2> QED BY <2>1, <2>3, PlainFits, OfRun DEF FilesInv
<1>7. CASE /\ backup' = [mark |-> "complete", files |-> [p \in Paths |-> IF list[p] # {} THEN disk[p] ELSE None],
                         list |-> list, manifest |-> manifest, version |-> version, new |-> run.target, unit |-> unit]
           /\ run' = [run EXCEPT !.pc = NextStep("backup"), !.backed = TRUE, !.before = unit]
  <2> PICK o : o = [run EXCEPT !.pc = "stop", !.backed = TRUE, !.before = unit] OBVIOUS
  <2>1. run' = o BY <1>2, <1>7, UpdateOrder
  <2>2. /\ o.pc = "stop" /\ o.kind = "update" /\ o.target = run.target /\ o.written = NoList /\ ~o.unpacked BY <1>2, <1>4 DEF RunRec
  <2>3. /\ Complete' /\ backup'.list = list /\ backup'.version = manifest /\ backup'.new = run.target
        /\ \A p \in Paths : backup'.files[p] = IF list[p] # {} THEN disk[p] ELSE None BY <1>3, <1>7 DEF Complete
  <2>4. Swaps(o)' BY <1>1, <2>2, <2>3 DEF Swaps, Swapped
  <2>5. FilesFit(o)' BY <2>2, <2>4 DEF FilesFit, Fresh, Writes, Wrote, PutsBack, Clears
  <2>6. ModuleKnows' BY <2>3 DEF ModuleKnows
  <2>7. ModuleKnows BY DEF FilesInv
  <2>8. BackupKnows'
    <3>1. (\A p \in DOMAIN FilesOf[backup.version] : /\ backup.files[p] \in {None, Other, FilesOf[backup.version][p]}
                                                     /\ Holds(p, backup.version) \/ IsNew(p))'
      <4>1. \A p \in DOMAIN FilesOf[manifest] : Holds(p, manifest) /\ p \in Paths BY <1>3, <2>7, BoxAssumption DEF ModuleKnows
      <4> QED BY <1>1, <2>3, <4>1 DEF Holds
    <3>2. was.kept \/ ListKnows(list) BY <1>3, <2>7 DEF ModuleKnows
    <3>3. \A p \in Ours : p \in Paths BY DEF Ours
    <3>4. Ours' = Ours BY <1>1 DEF Ours
    <3>5. (was.kept \/ \A p \in Ours : disk[p] = backup.files[p] \/ IsNew(p))'
      <4>1. was.kept \/ \A p \in Ours : disk'[p] = backup'.files[p] BY <1>1, <2>3, <3>2, <3>3 DEF ListKnows
      <4> QED BY <1>1, <3>4, <4>1
    <3>6. (was.kept \/ \A p \in Paths \ theirs : backup.files[p] \in Contents => backup.files[p] \in backup.list[p])'
      <4>1. \A p \in Paths \ theirs : backup'.files[p] \in Contents => p \in Ours /\ backup'.files[p] = disk[p] BY <2>3, ContentsAre DEF Ours
      <4> QED BY <1>1, <2>3, <3>2, <4>1 DEF ListKnows
    <3> QED BY <1>1, <1>3, <3>1, <3>5, <3>6 DEF BackupKnows
  <2> QED BY <2>1, <2>5, <2>6, <2>8, OfRun DEF FilesInv
<1> QED BY <1>5, <1>6, <1>7 DEF stepBackup, backupDone

\* An update that swaps: its backup is of the version that it found, and of the one that it puts.
LEMMA AtSwap == ASSUME BoxInv, FilesInv, run.pc \in {"swap", "swap_del", "s_manifest", "s_version"}
                PROVE  /\ run.kind = "update" /\ Complete /\ run.target \in Versions /\ run \in RunRec /\ backup.new = run.target /\ disk \in [Paths -> Bytes]
                       /\ backup.new \in Versions /\ backup.version \in Versions /\ DOMAIN FilesOf[run.target] \subseteq Paths /\ BackupKnows /\ Swaps(run)
                       /\ run.written = NoList /\ ~run.unpacked /\ manifest # None
<1>1. run.kind = "update" BY DEF BoxInv, Fits, RunFits, InKind
<1>2. Updates(run) /\ run \in RunRec /\ disk \in [Paths -> Bytes] BY DEF BoxInv, BoxTypes, Fits, RunFits
<1>3. Complete /\ manifest # None BY <1>1, <1>2 DEF Updates
<1>4. backup.version \in Versions /\ backup.new \in Versions BY <1>3, Numbers DEF BoxInv, BoxTypes, Fits, BackupWhole
<1>5. run.target \in Versions /\ DOMAIN FilesOf[run.target] \subseteq Paths BY Aimed DEF AimPcs
<1>6. backup.new = run.target BY <1>1 DEF FilesInv, FilesFit, Swaps
<1> QED BY <1>1, <1>2, <1>3, <1>4, <1>5, <1>6, FreshIs DEF FilesInv, FilesFit

\* A file of the new version is put at its path.
LEMMA SwapPutFiles == ASSUME BoxInv, FilesInv, NEW p \in Paths, SwapPut(p) PROVE FilesInv'
<1>1. /\ list' = list /\ manifest' = manifest /\ backup' = backup /\ theirs' = theirs /\ was' = was /\ run.pc = "swap" /\ p \in run.todo BY DEF SwapPut, Rest
<1>2. /\ run.kind = "update" /\ Complete /\ run.target \in Versions /\ run \in RunRec /\ backup.new = run.target /\ disk \in [Paths -> Bytes]
      /\ backup.new \in Versions /\ backup.version \in Versions /\ DOMAIN FilesOf[run.target] \subseteq Paths /\ BackupKnows /\ Swaps(run)
      /\ run.written = NoList /\ ~run.unpacked BY <1>1, AtSwap
<1>3. CASE disk' = disk /\ failed(run)
  <2>1. FilesSame BY <1>1, <1>3 DEF FilesSame
  <2> QED BY <1>1, <1>3, <2>1, FailSame
<1>4. CASE disk' = [disk EXCEPT ![p] = FilesOf[run.target][p]] /\ run' = [run EXCEPT !.todo = @ \ {p}]
  <2> PICK o : o = [run EXCEPT !.todo = @ \ {p}] OBVIOUS
  <2> PICK v : v = run.target OBVIOUS
  <2>1. /\ run' = o /\ o.pc = "swap" /\ o.kind = "update" /\ o.todo = run.todo \ {p} /\ o.target = v /\ o.written = NoList /\ ~o.unpacked
    BY <1>1, <1>2, <1>4 DEF RunRec
  <2>2. p \in DOMAIN FilesOf[v] BY <1>1 DEF BoxInv, Fits, RunFits, TodoFits
  <2>3. disk'[p] = FilesOf[v][p] /\ \A q \in Paths \ {p} : disk'[q] = disk[q] BY <1>2, <1>4
  <2>4. IsNew(p)' /\ \A q \in Paths \ {p} : IsNew(q)' <=> IsNew(q)
    <3>1. FilesOf[v][p] # None BY <1>2, <2>2, ContentsAre
    <3>2. IsNew(p)' BY <1>1, <1>2, <2>2, <2>3, <3>1 DEF IsNew, holds, Has, ListOf
    <3> QED BY <1>1, <2>3, <3>2 DEF IsNew, holds, Has, ListOf
  <2>5. Complete' BY <1>1, <1>2 DEF Complete
  <2>6. BackupKnows'
    <3>1. (\A q \in DOMAIN FilesOf[backup.version] : /\ backup.files[q] \in {None, Other, FilesOf[backup.version][q]}
                                                     /\ Holds(q, backup.version) \/ IsNew(q))'
      <4>1. \A q \in DOMAIN FilesOf[backup.version] : /\ backup.files[q] \in {None, Other, FilesOf[backup.version][q]}
                                                      /\ Holds(q, backup.version) \/ IsNew(q) BY <1>2 DEF BackupKnows
      <4>2. \A q \in DOMAIN FilesOf[backup.version] : q \in Paths BY <1>2, BoxAssumption
      <4> QED BY <1>1, <2>3, <2>4, <4>1, <4>2 DEF Holds
    <3>2. (was.kept \/ \A q \in Ours : disk[q] = backup.files[q] \/ IsNew(q))'
      <4>1. \A q \in Ours' : q \in Paths /\ (q = p \/ q \in Ours) BY <1>1, <2>3 DEF Ours
      <4>2. was.kept \/ \A q \in Ours : disk[q] = backup.files[q] \/ IsNew(q) BY <1>2 DEF BackupKnows
      <4> QED BY <1>1, <2>3, <2>4, <4>1, <4>2
    <3> QED BY <1>1, <1>2, <3>1, <3>2 DEF BackupKnows
  <2>7. ModuleKnows' BY <2>5 DEF ModuleKnows
  <2>8. Swaps(o)'
    <3>1. \A q \in DOMAIN FilesOf[v] \ run.todo : Holds(q, v) BY <1>1, <1>2 DEF Swaps
    <3>2. \A q \in DOMAIN FilesOf[v] \ o.todo : Holds(q, v)' BY <1>2, <2>1, <2>3, <3>1 DEF Holds
    <3>3. list' = backup'.list /\ backup'.new = v BY <1>1, <1>2 DEF Swaps
    <3> QED BY <2>1, <3>2, <3>3 DEF Swaps, Swapped, Holds
  <2>9. FilesFit(o)' BY <2>1, <2>8 DEF FilesFit, Fresh, Writes, Wrote, PutsBack, Clears
  <2> QED BY <2>1, <2>6, <2>7, <2>9, OfRun DEF FilesInv
<1> QED BY <1>3, <1>4 DEF SwapPut


\* What a backup knows, when only the manifest and the list change.
LEMMA BackupStill == ASSUME BoxInv, FilesInv, disk' = disk, backup' = backup, theirs' = theirs, was' = was, manifest' # None \/ was.kept \/ ~Complete
                     PROVE  BackupKnows'
<1>1. BackupKnows /\ (Complete' <=> Complete) BY DEF FilesInv, Complete
<1>2. \A q \in Paths : IsNew(q)' <=> IsNew(q) BY DEF IsNew, holds, Has, ListOf
<1>3. SUFFICES ASSUME Complete PROVE BackupKnows' BY <1>1 DEF BackupKnows
<1>4. backup.version \in Versions BY <1>3, Numbers DEF BoxInv, BoxTypes, Fits, BackupWhole
<1>5. (\A q \in DOMAIN FilesOf[backup.version] : /\ backup.files[q] \in {None, Other, FilesOf[backup.version][q]}
                                                 /\ Holds(q, backup.version) \/ IsNew(q))'
  <2>1. \A q \in DOMAIN FilesOf[backup.version] : /\ backup.files[q] \in {None, Other, FilesOf[backup.version][q]}
                                                  /\ Holds(q, backup.version) \/ IsNew(q) BY <1>1, <1>3 DEF BackupKnows
  <2>2. \A q \in DOMAIN FilesOf[backup.version] : q \in Paths BY <1>4, BoxAssumption
  <2> QED BY <1>2, <2>1, <2>2 DEF Holds
<1>6. (was.kept \/ \A q \in Ours : disk[q] = backup.files[q] \/ IsNew(q))'
  <2>1. Ours' = Ours BY DEF Ours
  <2> QED BY <1>1, <1>2, <1>3, <2>1 DEF BackupKnows, Ours
<1> QED BY <1>1, <1>3, <1>5, <1>6 DEF BackupKnows

\* Of the files that the new version does not have, the old list names all.
LEMMA OldListed == ASSUME BoxInv, FilesInv, run.pc \in {"swap", "swap_del"}, ~was.kept, NEW q \in Ours, q \notin DOMAIN FilesOf[run.target]
                   PROVE  disk[q] \in list[q]
<1>1. /\ Complete /\ backup.new = run.target /\ backup.new \in Versions /\ BackupKnows /\ Swaps(run) BY AtSwap
<1>2. q \in Paths /\ q \notin theirs /\ disk[q] \in Contents BY DEF Ours
<1>3. ~IsNew(q) BY <1>1, <1>2, IsNewIs
<1>4. disk[q] = backup.files[q] BY <1>1, <1>3 DEF BackupKnows
<1>5. backup.files[q] \in backup.list[q] BY <1>1, <1>2, <1>4 DEF BackupKnows
<1> QED BY <1>1, <1>4, <1>5 DEF Swaps

\* The files are put, and the ones that only the old version had are next.
LEMMA SwapPutDoneFiles == ASSUME BoxInv, FilesInv, SwapPutDone PROVE FilesInv'
<1>1. FilesSame /\ run.pc = "swap" /\ run.todo = {} BY RestSame DEF SwapPutDone, box
<1>2. /\ run.kind = "update" /\ run \in RunRec /\ backup.new = run.target /\ Swaps(run) /\ run.written = NoList /\ ~run.unpacked BY <1>1, AtSwap
<1> PICK o : o = [run EXCEPT !.pc = "swap_del", !.todo = Listed(list) \ DOMAIN FilesOf[run.target]] OBVIOUS
<1>3. run' = o BY DEF SwapPutDone
<1>4. /\ o.pc = "swap_del" /\ o.kind = "update" /\ o.target = run.target /\ o.todo = Listed(list) \ DOMAIN FilesOf[run.target]
      /\ o.written = NoList /\ ~o.unpacked BY <1>2 DEF RunRec
<1>5. was.kept \/ Ours \subseteq DOMAIN FilesOf[o.target] \cup o.todo
  <2>1. SUFFICES ASSUME ~was.kept, NEW q \in Ours, q \notin DOMAIN FilesOf[run.target] PROVE q \in Listed(list) BY <1>4
  <2>2. disk[q] \in list[q] /\ q \in Paths BY <1>1, <2>1, OldListed DEF Ours
  <2> QED BY <2>2 DEF Listed
<1>6. Swaps(o) BY <1>1, <1>2, <1>4, <1>5 DEF Swaps, Swapped
<1>7. FilesFit(o) BY <1>4, <1>6 DEF FilesFit, Fresh, Writes, Wrote, PutsBack, Clears
<1> QED BY <1>1, <1>3, <1>7, SameStep

\* A file that only the old version had is taken away.
LEMMA SwapDeleteFiles == ASSUME BoxInv, FilesInv, NEW p \in Paths, SwapDelete(p) PROVE FilesInv'
<1>1. /\ list' = list /\ manifest' = manifest /\ backup' = backup /\ theirs' = theirs /\ was' = was /\ run.pc = "swap_del" /\ p \in run.todo BY DEF SwapDelete, Rest
<1>2. /\ run.kind = "update" /\ Complete /\ run.target \in Versions /\ run \in RunRec /\ backup.new = run.target /\ disk \in [Paths -> Bytes]
      /\ DOMAIN FilesOf[run.target] \subseteq Paths /\ Swaps(run) /\ run.written = NoList /\ ~run.unpacked BY <1>1, AtSwap
<1>3. CASE disk' = disk /\ failed(run)
  <2>1. FilesSame BY <1>1, <1>3 DEF FilesSame
  <2> QED BY <1>1, <1>3, <2>1, FailSame
<1>4. CASE /\ run' = [run EXCEPT !.todo = @ \ {p}]
           /\ disk' = IF p \notin theirs /\ holds(p, list[p]) = "ours" THEN [disk EXCEPT ![p] = None] ELSE disk
  <2> PICK o : o = [run EXCEPT !.todo = @ \ {p}] OBVIOUS
  <2> PICK v : v = run.target OBVIOUS
  <2>1. /\ run' = o /\ o.pc = "swap_del" /\ o.kind = "update" /\ o.todo = run.todo \ {p} /\ o.target = v /\ o.written = NoList /\ ~o.unpacked
    BY <1>1, <1>2, <1>4 DEF RunRec
  <2>2. \A q \in Paths : disk'[q] = disk[q] \/ disk'[q] \in {None, Other} BY <1>2, <1>4
  <2>3. FilesLess BY <1>1, <2>2 DEF FilesLess
  <2>4. BackupKnows' /\ ModuleKnows' BY <2>3, LessBase
  <2>5. \A q \in Ours' : q \in Ours /\ disk'[q] = disk[q] BY <2>3, LessFiles
  <2>6. was'.kept \/ Ours' \subseteq DOMAIN FilesOf[v] \cup o.todo
    <3>1. SUFFICES ASSUME ~was.kept, NEW q \in Ours', q \notin DOMAIN FilesOf[v], q = p PROVE FALSE
      <4>1. was.kept \/ Ours \subseteq DOMAIN FilesOf[v] \cup run.todo BY <1>1, <1>2 DEF Swaps
      <4> QED BY <1>1, <2>1, <2>5, <4>1
    <3>2. q \in Ours /\ disk'[q] = disk[q] BY <2>5, <3>1
    <3>3. disk[q] \in list[q] BY <1>1, <3>1, <3>2, OldListed
    <3>4. q \notin theirs /\ disk[q] \in Contents BY <3>2 DEF Ours
    <3>5. disk[q] # None BY <3>4, ContentsAre
    <3>6. disk'[p] = None BY <1>2, <1>4, <3>1, <3>3, <3>4, <3>5 DEF holds
    <3> QED BY <3>1, <3>2, <3>5, <3>6
  <2>7. Swaps(o)'
    <3>1. \A q \in DOMAIN FilesOf[v] : Holds(q, v)' BY <1>1, <1>2, <2>2 DEF Swaps, Holds
    <3>2. list' = backup'.list /\ backup'.new = v BY <1>1, <1>2 DEF Swaps
    <3> QED BY <2>1, <2>6, <3>1, <3>2 DEF Swaps, Swapped, Holds
  <2>8. FilesFit(o)' BY <2>1, <2>7 DEF FilesFit, Fresh, Writes, Wrote, PutsBack, Clears
  <2> QED BY <2>1, <2>4, <2>8, OfRun DEF FilesInv
<1> QED BY <1>3, <1>4 DEF SwapDelete

\* The lists, the manifest and the version follow the files.
LEMMA SwapStateFiles == ASSUME BoxInv, FilesInv, SwapState PROVE FilesInv'
<1>1. /\ disk' = disk /\ backup' = backup /\ theirs' = theirs /\ was' = was /\ run.pc \in {"swap_del", "s_manifest", "s_version"} BY DEF SwapState, Rest
<1>2. /\ run.kind = "update" /\ Complete /\ run.target \in Versions /\ run \in RunRec /\ backup.new = run.target
      /\ BackupKnows /\ Swaps(run) /\ run.written = NoList /\ ~run.unpacked /\ manifest # None BY <1>1, AtSwap
<1>3. PICK a \in Pcs : /\ \/ run.pc = "swap_del" /\ run.todo = {} /\ list' = ListOf(run.target) /\ a = "s_manifest" /\ manifest' = manifest
                          \/ run.pc = "s_manifest" /\ manifest' = run.target /\ a = "s_version" /\ list' = list
                          \/ run.pc = "s_version" /\ a = "units" /\ list' = list /\ manifest' = manifest
                       /\ run' = [run EXCEPT !.pc = a]
  <2>1. CASE run.pc = "swap_del" /\ run.todo = {} /\ list' = ListOf(run.target) /\ Goto("s_manifest") /\ manifest' = manifest BY <2>1 DEF Goto, Pcs
  <2>2. CASE run.pc = "s_manifest" /\ manifest' = run.target /\ Goto("s_version") /\ list' = list BY <2>2 DEF Goto, Pcs
  <2>3. CASE run.pc = "s_version" /\ Advance("swap") /\ list' = list /\ manifest' = manifest
    <3>1. run' = [run EXCEPT !.pc = "units", !.back = run.back] BY <1>2, <2>3, UpdateOrder DEF Advance
    <3>2. run' = [run EXCEPT !.pc = "units"] BY <1>2, <3>1 DEF RunRec
    <3> QED BY <2>3, <3>2 DEF Pcs
  <2> QED BY <2>1, <2>2, <2>3 DEF SwapState
<1> PICK o : o = [run EXCEPT !.pc = a] OBVIOUS
<1> PICK v : v = run.target OBVIOUS
<1>4. /\ run' = o /\ o.pc = a /\ o.kind = "update" /\ o.target = v /\ o.written = NoList /\ ~o.unpacked BY <1>2, <1>3 DEF RunRec
<1>5. Complete' /\ Ours' = Ours /\ backup'.new = v BY <1>1, <1>2 DEF Complete, Ours
<1>6. list' = ListOf(v) BY <1>2, <1>3 DEF Swaps, Swapped
<1>7. \A q \in DOMAIN FilesOf[v] : Holds(q, v) BY <1>1, <1>2 DEF Swaps, Swapped
<1>8. was.kept \/ Ours \subseteq DOMAIN FilesOf[v] BY <1>2, <1>3 DEF Swaps, Swapped
<1>9. Swaps(o)' BY <1>1, <1>3, <1>4, <1>5, <1>6, <1>7, <1>8 DEF Swaps, Swapped, Holds
<1>10. FilesFit(o)' BY <1>3, <1>4, <1>9 DEF FilesFit, Fresh, Writes, Wrote, PutsBack, Clears
<1>11. manifest' # None BY <1>2, <1>3, ContentsAre, Numbers DEF None
<1>12. BackupKnows' /\ ModuleKnows' BY <1>1, <1>5, <1>11, BackupStill DEF ModuleKnows
<1> QED BY <1>4, <1>10, <1>12, OfRun DEF FilesInv


\* A putting back that is over ends the run or lets it be admitted.
LEMMA RestoreEndFits == ASSUME BoxInv, FilesInv, run.pc \in BackPcs \cup {"drop"}, run.back \in {"recover", "rollback"}, NEW bad \in BOOLEAN, RestoreEnd(bad)
                        PROVE  FilesFit(run)'
<1>1. run \in RunRec /\ run.written = NoList /\ ~run.unpacked BY FreshIs DEF BoxInv, BoxTypes
<1>2. run' = NoRun \/ run' = [run EXCEPT !.pc = "admit", !.kept = bad] BY DEF RestoreEnd, End
<1>3. CASE run' = [run EXCEPT !.pc = "admit", !.kept = bad]
  <2> PICK o : o = [run EXCEPT !.pc = "admit", !.kept = bad] OBVIOUS
  <2>1. Plain(o) BY <1>1 DEF Plain, PlainPcs, RunRec
  <2> QED BY <1>3, <2>1, PlainFits, OfRun
<1> QED BY <1>2, <1>3, OverPlain

\* Where a putting back is, there is a complete backup to put back from.
LEMMA AtBack == ASSUME BoxInv, FilesInv, run.pc \in BackPcs
                PROVE  /\ run \in RunRec /\ run.back \in {"recover", "rollback"} /\ run.written = NoList /\ ~run.unpacked /\ disk \in [Paths -> Bytes]
                       /\ run.pc # "r_read" => /\ Complete /\ BackupKnows /\ backup.new \in Versions /\ backup.version \in Versions
                                               /\ backup.manifest = backup.version /\ backup.version # None /\ PutsBack(run)
<1>1. run \in RunRec /\ run.back \in {"recover", "rollback"} /\ disk \in [Paths -> Bytes] BY DEF BoxInv, BoxTypes, Fits, RunFits, Restores
<1>2. run.pc # "r_read" => Complete BY DEF BoxInv, Fits, RunFits, Restores
<1>3. Complete => backup.new \in Versions /\ backup.version \in Versions /\ backup.manifest = backup.version /\ backup.version # None
  BY Numbers DEF BoxInv, BoxTypes, Fits, BackupWhole, None
<1> QED BY <1>1, <1>2, <1>3, FreshIs DEF FilesInv, FilesFit

\* The backup is dropped: what it knew the list knows.
LEMMA removeBackupFiles == ASSUME Droppable, BoxInv, FilesInv, removeBackup PROVE FilesInv'
<1>1. /\ disk' = disk /\ list' = list /\ manifest' = manifest /\ theirs' = theirs /\ was' = was /\ run.pc = "drop" BY DEF removeBackup, Rest, box
<1>2. run \in RunRec /\ run.written = NoList /\ ~run.unpacked /\ FilesFit(run) BY <1>1, FreshIs DEF BoxInv, BoxTypes, FilesInv
<1>3. Drops(run) /\ Fore(run) /\ BackupWhole BY DEF BoxInv, Fits, RunFits
<1>4. ASSUME NEW marked \in BOOLEAN, NEW err \in BOOLEAN, DropEnd(marked, err) PROVE FilesFit(run)'
  <2>1. CASE run.back \in {"done", "failed"} BY <1>4, <2>1, OverPlain DEF DropEnd, End
  <2>2. CASE run.back = "admit"
    <3> PICK o : o = [run EXCEPT !.pc = "admit"] OBVIOUS
    <3>1. run' = o /\ Plain(o) BY <1>2, <1>4, <2>2 DEF DropEnd, Goto, Plain, PlainPcs, RunRec
    <3> QED BY <3>1, PlainFits, OfRun
  <2>3. CASE run.back \in {"recover", "rollback"}
    <3>1. RestoreEnd(err) BY <1>4, <2>3 DEF DropEnd
    <3> QED BY <1>1, <2>3, <3>1, RestoreEndFits
  <2> QED BY <1>1, <1>2, <1>3, <2>1, <2>2, <2>3 DEF Drops, RunRec, Backs
<1>5. CASE backup.mark = "complete" /\ backup' = [backup EXCEPT !.mark = "partial"] /\ UNCHANGED <<run, log>>
  <2>1. ~Complete' /\ Complete /\ run' = run
    <3>1. backup \in BackupRec BY DEF BoxInv, BoxTypes
    <3> QED BY <1>5, <3>1 DEF Complete, BackupRec
  <2>2. BackupKnows' BY <2>1 DEF BackupKnows
  <2>3. ModuleKnows'
    <3>1. CASE run.back = "done"
      <4>1. run.target \in Versions /\ Swapped(run) /\ manifest = run.target BY <1>1, <1>3, <2>1, <3>1, Aimed DEF Swapped, Drops
      <4>2. /\ list = ListOf(run.target) /\ (was.kept \/ Ours \subseteq DOMAIN FilesOf[run.target]) /\ \A p \in DOMAIN FilesOf[run.target] : Holds(p, run.target)
        BY <1>2, <4>1 DEF FilesFit, Swaps
      <4>3. was.kept \/ ListKnows(list)
        <5>1. SUFFICES ASSUME ~was.kept, NEW p \in Ours PROVE disk[p] \in list[p] BY DEF ListKnows
        <5>2. p \in DOMAIN FilesOf[run.target] /\ p \in Paths /\ disk[p] \in Contents BY <4>2, <5>1 DEF Ours
        <5>3. disk[p] = FilesOf[run.target][p] BY <4>2, <5>2, ContentsAre DEF Holds
        <5> QED BY <4>2, <5>2, <5>3 DEF ListOf, Has
      <4> QED BY <1>1, <4>1, <4>2, <4>3 DEF ModuleKnows, Holds, ListKnows, Ours
    <3>2. CASE run.back \in {"recover", "rollback"}
      <4>1. manifest = backup.version /\ list = backup.list /\ NewLeft = {} /\ BackupKnows BY <1>1, <1>2, <1>3, <2>1, <3>2 DEF Drops, FilesFit, PutsBack, FilesInv
      <4>2. backup.version \in Versions /\ DOMAIN FilesOf[backup.version] \subseteq Paths BY <1>3, <2>1, Numbers, BoxAssumption DEF BackupWhole, BoxInv, BoxTypes
      <4>3. \A p \in Paths : IsNew(p) => disk[p] = backup.files[p] BY <4>1 DEF NewLeft
      <4>4. \A p \in DOMAIN FilesOf[backup.version] : Holds(p, backup.version) BY <2>1, <4>1, <4>2, <4>3 DEF BackupKnows, Holds
      <4>5. was.kept \/ ListKnows(list)
        <5>1. SUFFICES ASSUME ~was.kept, NEW p \in Ours PROVE disk[p] \in list[p] BY DEF ListKnows
        <5>2. p \in Paths /\ p \notin theirs /\ disk[p] \in Contents BY DEF Ours
        <5>3. disk[p] = backup.files[p] BY <2>1, <4>1, <4>3, <5>1, <5>2 DEF BackupKnows
        <5> QED BY <2>1, <4>1, <5>1, <5>2, <5>3 DEF BackupKnows
      <4> QED BY <1>1, <4>1, <4>4, <4>5 DEF ModuleKnows, Holds, ListKnows, Ours
    <3>3. CASE run.back = "admit"
      <4>1. manifest = None /\ was.kept BY <1>1, <1>3, <2>1, <3>3 DEF Fore, FilesInv, BackupKnows
      <4> QED BY <1>1, <4>1 DEF ModuleKnows
    <3>4. run.back \in {"done", "recover", "rollback", "admit"} BY <1>1, <1>2, <1>3, <2>1 DEF Drops, RunRec, Backs
    <3> QED BY <3>1, <3>2, <3>3, <3>4
  <2>4. FilesFit(run)'
    <3> PICK o : o = run OBVIOUS
    <3>1. FilesFit(o)' BY <1>1, <1>2, <2>1 DEF FilesFit, Fresh, Writes, Wrote, Swaps, Swapped, PutsBack, Clears
    <3> QED BY <2>1, <3>1, OfRun
  <2> QED BY <2>2, <2>3, <2>4 DEF FilesInv
<1>6. CASE backup.mark # "complete" /\ backup' = NoBackup /\ DropEnd(FALSE, FALSE)
  <2>1. ~Complete' /\ ~Complete BY <1>6 DEF Complete, NoBackup
  <2>2. BackupKnows' BY <2>1 DEF BackupKnows
  <2>3. ModuleKnows' BY <1>1, <2>1 DEF FilesInv, ModuleKnows, Holds, ListKnows, Ours
  <2> QED BY <1>4, <1>6, <2>2, <2>3 DEF FilesInv
<1>7. CASE backup' = backup /\ DropEnd(backup.mark = "complete", TRUE)
  <2>1. FilesSame BY <1>1, <1>7 DEF FilesSame
  <2> PICK m \in BOOLEAN : m = (backup.mark = "complete") OBVIOUS
  <2>2. DropEnd(m, TRUE) BY <1>7
  <2> QED BY <1>4, <2>1, <2>2, SameBase DEF FilesInv
<1> QED BY <1>5, <1>6, <1>7 DEF removeBackup


\* The backup is read, and what is to be put back is decided.
LEMMA readFiles == ASSUME BoxInv, FilesInv, readBackup \/ putBackDecide \/ putBackStop \/ restoreUnits \/ settleUnits PROVE FilesInv'
<1>1. FilesSame /\ run.pc \in BackPcs BY RestSame DEF readBackup, putBackDecide, putBackStop, restoreUnits, settleUnits, box
<1>2. /\ run \in RunRec /\ run.back \in {"recover", "rollback"} /\ run.written = NoList /\ ~run.unpacked
      /\ run.pc # "r_read" => /\ Complete /\ backup.new \in Versions /\ PutsBack(run) BY <1>1, AtBack
<1>3. ASSUME NEW bad \in BOOLEAN, RestoreEnd(bad) PROVE FilesInv'
  <2>1. FilesFit(run)' BY <1>1, <1>2, <1>3, RestoreEndFits
  <2> QED BY <1>1, <2>1, SameBase DEF FilesInv
<1>4. CASE readBackup
  <2>1. CASE Goto(IF backup.mark = "complete" THEN "r_decide" ELSE "drop")
    <3> PICK a : a = IF backup.mark = "complete" THEN "r_decide" ELSE "drop" OBVIOUS
    <3> PICK o : o = [run EXCEPT !.pc = a] OBVIOUS
    <3>1. run' = o BY <2>1 DEF Goto
    <3>2. o.pc = a /\ o.back = run.back /\ o.written = NoList /\ ~o.unpacked /\ (a = "drop" => ~Complete) BY <1>2 DEF RunRec, Complete
    <3>3. FilesFit(o) BY <1>2, <3>2 DEF FilesFit, Fresh, Writes, Wrote, Swaps, Swapped, PutsBack, Clears
    <3> QED BY <1>1, <3>1, <3>3, SameStep
  <2> QED BY <1>3, <1>4, <2>1 DEF readBackup
<1>5. CASE putBackDecide
  <2>1. run.pc = "r_decide" BY <1>5 DEF putBackDecide
  <2>2. CASE run' = [run EXCEPT !.pc = IF ToPut \cup ToRemove # {} THEN "r_stop" ELSE "r_put",
                                !.puts = ToPut, !.removes = ToRemove, !.left = @ \/ ToLeave # {}]
    <3> PICK a : a = IF ToPut \cup ToRemove # {} THEN "r_stop" ELSE "r_put" OBVIOUS
    <3> PICK o : o = [run EXCEPT !.pc = a, !.puts = ToPut, !.removes = ToRemove, !.left = @ \/ ToLeave # {}] OBVIOUS
    <3>1. run' = o BY <2>2
    <3>2. o.pc \in {"r_stop", "r_put"} /\ o.puts = ToPut /\ o.removes = ToRemove /\ o.written = NoList /\ ~o.unpacked BY <1>2 DEF RunRec
    <3>3. NewLeft \subseteq o.puts \cup o.removes BY <3>2 DEF NewLeft, ToPut, ToRemove, Saved
    <3>4. FilesFit(o) BY <3>2, <3>3 DEF FilesFit, Fresh, Writes, Wrote, Swaps, Swapped, PutsBack, Clears
    <3> QED BY <1>1, <3>1, <3>4, SameStep
  <2>3. CASE run' = [run EXCEPT !.pc = "r_units", !.bad = TRUE]
    <3> PICK o : o = [run EXCEPT !.pc = "r_units", !.bad = TRUE] OBVIOUS
    <3>1. o.pc = "r_units" /\ o.bad /\ o.written = NoList /\ ~o.unpacked BY <1>2 DEF RunRec
    <3>2. FilesFit(o) BY <3>1 DEF FilesFit, Fresh, Writes, Wrote, Swaps, Swapped, PutsBack, Clears
    <3> QED BY <1>1, <2>3, <3>2, SameStep
  <2> QED BY <1>5, <2>2, <2>3 DEF putBackDecide
<1>6. CASE putBackStop
  <2>1. run.pc = "r_stop" BY <1>6 DEF putBackStop
  <2>2. PICK s \in BOOLEAN : run' = [run EXCEPT !.pc = "r_put", !.stuck = s]
    <3>1. CASE Goto("r_put")
      <4>1. run' = [run EXCEPT !.pc = "r_put", !.stuck = run.stuck] BY <1>2, <3>1 DEF Goto, RunRec
      <4> QED BY <1>2, <4>1 DEF RunRec
    <3> QED BY <1>6, <3>1 DEF putBackStop
  <2> PICK o : o = [run EXCEPT !.pc = "r_put", !.stuck = s] OBVIOUS
  <2>3. o.pc = "r_put" /\ o.puts = run.puts /\ o.removes = run.removes /\ o.bad = run.bad /\ o.written = NoList /\ ~o.unpacked BY <1>2 DEF RunRec
  <2>4. PutsBack(o) BY <1>2, <2>1, <2>3 DEF PutsBack
  <2>5. FilesFit(o) BY <2>3, <2>4 DEF FilesFit, Fresh, Writes, Wrote, Swaps, Swapped, Clears
  <2> QED BY <1>1, <2>2, <2>5, SameStep
<1>7. CASE restoreUnits
  <2>1. run.pc = "r_units" BY <1>7 DEF restoreUnits
  <2>2. PICK b \in BOOLEAN : run' = [run EXCEPT !.pc = "r_start", !.bad = b] /\ (~b => ~run.bad)
    <3>1. CASE Goto("r_start")
      <4>1. run' = [run EXCEPT !.pc = "r_start", !.bad = run.bad] BY <1>2, <3>1 DEF Goto, RunRec
      <4> QED BY <1>2, <4>1 DEF RunRec
    <3> QED BY <1>7, <3>1 DEF restoreUnits
  <2> PICK o : o = [run EXCEPT !.pc = "r_start", !.bad = b] OBVIOUS
  <2>3. o.pc = "r_start" /\ o.bad = b /\ o.written = NoList /\ ~o.unpacked BY <1>2 DEF RunRec
  <2>4. PutsBack(o) BY <1>2, <2>1, <2>2, <2>3 DEF PutsBack
  <2>5. FilesFit(o) BY <2>3, <2>4 DEF FilesFit, Fresh, Writes, Wrote, Swaps, Swapped, Clears
  <2> QED BY <1>1, <2>2, <2>5, SameStep
<1>8. CASE settleUnits
  <2>1. run.pc = "r_start" BY <1>8 DEF settleUnits
  <2>2. CASE ~run.bad /\ Goto("drop")
    <3> PICK o : o = [run EXCEPT !.pc = "drop"] OBVIOUS
    <3>1. run' = o BY <2>2 DEF Goto
    <3>2. o.pc = "drop" /\ o.back = run.back /\ o.written = NoList /\ ~o.unpacked BY <1>2 DEF RunRec
    <3>3. PutsBack(o) BY <1>2, <2>1, <2>2, <3>2 DEF PutsBack
    <3>4. FilesFit(o) BY <1>2, <3>2, <3>3 DEF FilesFit, Fresh, Writes, Wrote, Swaps, Swapped, Clears
    <3> QED BY <1>1, <3>1, <3>4, SameStep
  <2> QED BY <1>3, <1>8, <2>2 DEF settleUnits
<1> QED BY <1>4, <1>5, <1>6, <1>7, <1>8

\* One file is put back, or one that only the new version has is taken away.
LEMMA putBackFiles == ASSUME BoxInv, FilesInv, NEW p \in Paths, putBack(p) \/ putBackRemove(p) PROVE FilesInv'
<1>1. /\ list' = list /\ manifest' = manifest /\ backup' = backup /\ theirs' = theirs /\ was' = was /\ run.pc = "r_put" BY DEF putBack, putBackRemove, Rest
<1>2. /\ run \in RunRec /\ run.written = NoList /\ ~run.unpacked /\ disk \in [Paths -> Bytes]
      /\ Complete /\ BackupKnows /\ backup.new \in Versions /\ backup.version \in Versions /\ PutsBack(run) BY <1>1, AtBack
<1>3. Complete' BY <1>1, <1>2 DEF Complete
<1>4. PICK c \in {None, backup.files[p]}, ps \in SUBSET Paths, rs \in SUBSET Paths, b \in BOOLEAN :
          /\ run' = [run EXCEPT !.puts = ps, !.removes = rs, !.bad = b] /\ run.puts \cup run.removes \subseteq ps \cup rs \cup {p} /\ (~b => ~run.bad)
          /\ (disk' = disk /\ b) \/ disk' = [disk EXCEPT ![p] = c]
  <2>1. run.puts \in SUBSET Paths /\ run.removes \in SUBSET Paths /\ run.bad \in BOOLEAN BY <1>2 DEF RunRec
  <2>2. CASE putBack(p)
    <3>1. CASE disk' = [disk EXCEPT ![p] = backup.files[p]] /\ run' = [run EXCEPT !.puts = @ \ {p}]
      <4>1. run' = [run EXCEPT !.puts = run.puts \ {p}, !.removes = run.removes, !.bad = run.bad] BY <1>2, <3>1 DEF RunRec
      <4> backup.files[p] \in {None, backup.files[p]} /\ run.puts \ {p} \in SUBSET Paths /\ run.removes \in SUBSET Paths /\ run.bad \in BOOLEAN BY <2>1
      <4> WITNESS backup.files[p] \in {None, backup.files[p]}, run.puts \ {p} \in SUBSET Paths, run.removes \in SUBSET Paths, run.bad \in BOOLEAN
      <4> QED BY <3>1, <4>1
    <3>2. CASE disk' = disk /\ run' = [run EXCEPT !.puts = @ \ {p}, !.bad = TRUE]
      <4>1. run' = [run EXCEPT !.puts = run.puts \ {p}, !.removes = run.removes, !.bad = TRUE] BY <1>2, <3>2 DEF RunRec
      <4> None \in {None, backup.files[p]} /\ run.puts \ {p} \in SUBSET Paths /\ run.removes \in SUBSET Paths /\ TRUE \in BOOLEAN BY <2>1
      <4> WITNESS None \in {None, backup.files[p]}, run.puts \ {p} \in SUBSET Paths, run.removes \in SUBSET Paths, TRUE \in BOOLEAN
      <4> QED BY <3>2, <4>1
    <3> QED BY <2>2, <3>1, <3>2 DEF putBack
  <2>3. CASE putBackRemove(p)
    <3>1. CASE disk' = [disk EXCEPT ![p] = None] /\ run' = [run EXCEPT !.removes = @ \ {p}]
      <4>1. run' = [run EXCEPT !.puts = run.puts, !.removes = run.removes \ {p}, !.bad = run.bad] BY <1>2, <3>1 DEF RunRec
      <4> None \in {None, backup.files[p]} /\ run.puts \in SUBSET Paths /\ run.removes \ {p} \in SUBSET Paths /\ run.bad \in BOOLEAN BY <2>1
      <4> WITNESS None \in {None, backup.files[p]}, run.puts \in SUBSET Paths, run.removes \ {p} \in SUBSET Paths, run.bad \in BOOLEAN
      <4> QED BY <3>1, <4>1
    <3>2. CASE disk' = disk /\ run' = [run EXCEPT !.removes = @ \ {p}, !.bad = TRUE]
      <4>1. run' = [run EXCEPT !.puts = run.puts, !.removes = run.removes \ {p}, !.bad = TRUE] BY <1>2, <3>2 DEF RunRec
      <4> None \in {None, backup.files[p]} /\ run.puts \in SUBSET Paths /\ run.removes \ {p} \in SUBSET Paths /\ TRUE \in BOOLEAN BY <2>1
      <4> WITNESS None \in {None, backup.files[p]}, run.puts \in SUBSET Paths, run.removes \ {p} \in SUBSET Paths, TRUE \in BOOLEAN
      <4> QED BY <3>2, <4>1
    <3> QED BY <2>3, <3>1, <3>2 DEF putBackRemove
  <2> QED BY <2>2, <2>3
<1> PICK o : o = [run EXCEPT !.puts = ps, !.removes = rs, !.bad = b] OBVIOUS
<1>5. run' = o /\ o.pc = "r_put" /\ o.puts = ps /\ o.removes = rs /\ o.bad = b /\ o.written = NoList /\ ~o.unpacked BY <1>1, <1>2, <1>4 DEF RunRec
<1>6. CASE disk' = disk /\ b
  <2>1. FilesSame BY <1>1, <1>6 DEF FilesSame
  <2>2. FilesFit(o) BY <1>5, <1>6 DEF FilesFit, Fresh, Writes, Wrote, Swaps, Swapped, PutsBack, Clears
  <2> QED BY <1>5, <2>1, <2>2, SameStep
<1>7. CASE disk' = [disk EXCEPT ![p] = c]
  <2>1. disk'[p] \in {None, backup.files[p]} /\ \A q \in Paths \ {p} : disk'[q] = disk[q] BY <1>2, <1>4, <1>7
  <2>2. \A q \in Paths \ {p} : IsNew(q)' <=> IsNew(q) BY <1>1, <2>1 DEF IsNew, holds, Has, ListOf
  <2>3. disk'[p] # backup.files[p] => ~IsNew(p)' BY <2>1 DEF IsNew, holds
  <2>4. NewLeft' \subseteq NewLeft \ {p} BY <1>1, <2>1, <2>2, <2>3 DEF NewLeft
  <2>5. ~o.bad => NewLeft' \subseteq o.puts \cup o.removes
    <3>1. ~o.bad => NewLeft \subseteq run.puts \cup run.removes BY <1>1, <1>2, <1>4, <1>5 DEF PutsBack
    <3> QED BY <1>4, <1>5, <2>4, <3>1
  <2>6. FilesFit(o)' BY <1>5, <2>5 DEF FilesFit, Fresh, Writes, Wrote, Swaps, Swapped, PutsBack, Clears
  <2>7. BackupKnows'
    <3>1. (\A q \in DOMAIN FilesOf[backup.version] : /\ backup.files[q] \in {None, Other, FilesOf[backup.version][q]}
                                                     /\ Holds(q, backup.version) \/ IsNew(q))'
      <4>1. \A q \in DOMAIN FilesOf[backup.version] : /\ backup.files[q] \in {None, Other, FilesOf[backup.version][q]}
                                                      /\ Holds(q, backup.version) \/ IsNew(q) BY <1>2 DEF BackupKnows
      <4>2. \A q \in DOMAIN FilesOf[backup.version] : q \in Paths BY <1>2, BoxAssumption
      <4> QED BY <1>1, <2>1, <2>2, <4>1, <4>2 DEF Holds
    <3>2. (was.kept \/ \A q \in Ours : disk[q] = backup.files[q] \/ IsNew(q))'
      <4>1. \A q \in Ours' : q \in Paths /\ (q = p \/ q \in Ours) /\ disk'[q] # None BY <1>1, <2>1, ContentsAre DEF Ours
      <4>2. was.kept \/ \A q \in Ours : disk[q] = backup.files[q] \/ IsNew(q) BY <1>2 DEF BackupKnows
      <4> QED BY <1>1, <2>1, <2>2, <4>1, <4>2
    <3> QED BY <1>1, <1>2, <3>1, <3>2 DEF BackupKnows
  <2>8. ModuleKnows' BY <1>3 DEF ModuleKnows
  <2> QED BY <1>5, <2>6, <2>7, <2>8, OfRun DEF FilesInv
<1> QED BY <1>4, <1>6, <1>7

\* The manifest, the version and the list are put back.
LEMMA putBackStateFiles == ASSUME BoxInv, FilesInv, putBackState PROVE FilesInv'
<1>1. /\ disk' = disk /\ backup' = backup /\ theirs' = theirs /\ was' = was /\ run.pc \in {"r_put", "r_version", "r_list"} BY DEF putBackState, Rest, box
<1>2. /\ run \in RunRec /\ run.written = NoList /\ ~run.unpacked /\ Complete /\ BackupKnows /\ PutsBack(run)
      /\ backup.manifest = backup.version /\ backup.version # None BY <1>1, AtBack
<1>3. PICK a \in Pcs, b \in BOOLEAN :
          /\ run' = [run EXCEPT !.pc = a, !.bad = b] /\ (~b => ~run.bad) /\ manifest' \in {manifest, backup.manifest}
          /\ \/ run.pc = "r_put" /\ a = "r_units" /\ b
             \/ run.pc = "r_put" /\ a = "r_version" /\ (~b => run.puts \cup run.removes = {})
             \/ run.pc = "r_version" /\ a = "r_list"
             \/ run.pc = "r_list" /\ a = "r_units" /\ (~b => list' = backup.list)
  <2>1. run.bad \in BOOLEAN /\ run.stuck \in BOOLEAN BY <1>2 DEF RunRec
  <2>2. \A x \in Pcs : Goto(x) => run' = [run EXCEPT !.pc = x, !.bad = run.bad] BY <1>2 DEF Goto, RunRec
  <2>3. CASE run.pc = "r_put" /\ run.puts \cup run.removes = {} /\ run.bad /\ Goto("r_units") /\ UNCHANGED box BY <2>1, <2>2, <2>3 DEF box, Pcs
  <2>4. CASE run.pc = "r_put" /\ run.puts \cup run.removes = {} /\ ~run.bad /\ manifest' = backup.manifest /\ Goto("r_version") BY <2>1, <2>2, <2>4 DEF Pcs
  <2>5. CASE run.pc = "r_put" /\ manifest' = manifest /\ run' = [run EXCEPT !.pc = "r_version", !.bad = TRUE] BY <2>5 DEF Pcs
  <2>6. CASE run.pc = "r_version" /\ manifest' = manifest /\ Goto("r_list") BY <2>1, <2>2, <2>6 DEF Pcs
  <2>7. CASE run.pc = "r_version" /\ manifest' = manifest /\ run' = [run EXCEPT !.pc = "r_list", !.bad = TRUE] BY <2>7 DEF Pcs
  <2>8. CASE run.pc = "r_list" /\ manifest' = manifest /\ list' = backup.list /\ run' = [run EXCEPT !.pc = "r_units", !.bad = @ \/ run.stuck]
    <3>1. run' = [run EXCEPT !.pc = "r_units", !.bad = (run.bad \/ run.stuck)] BY <1>2, <2>8 DEF RunRec
    <3> QED BY <2>1, <2>8, <3>1 DEF Pcs
  <2>9. CASE run.pc = "r_list" /\ manifest' = manifest /\ run' = [run EXCEPT !.pc = "r_units", !.bad = TRUE] BY <2>9 DEF Pcs
  <2> QED BY <2>3, <2>4, <2>5, <2>6, <2>7, <2>8, <2>9 DEF putBackState
<1> PICK o : o = [run EXCEPT !.pc = a, !.bad = b] OBVIOUS
<1>4. run' = o /\ o.pc = a /\ o.bad = b /\ o.written = NoList /\ ~o.unpacked BY <1>2, <1>3 DEF RunRec
<1>5. BackupKnows'
  <2>1. manifest' # None \/ was.kept BY <1>2, <1>3 DEF BackupKnows
  <2> QED BY <1>1, <2>1, BackupStill
<1>6. ModuleKnows' BY <1>1, <1>2 DEF ModuleKnows, Complete
<1>7. NewLeft' = NewLeft
  <2>1. \A q \in Paths : IsNew(q)' <=> IsNew(q) BY <1>1 DEF IsNew, holds, Has, ListOf
  <2> QED BY <1>1, <2>1 DEF NewLeft
<1>8. ~b => NewLeft = {} BY <1>2, <1>3 DEF PutsBack
<1>9. FilesFit(o)' BY <1>1, <1>3, <1>4, <1>7, <1>8 DEF FilesFit, Fresh, Writes, Wrote, Swaps, Swapped, PutsBack, Clears
<1> QED BY <1>4, <1>5, <1>6, <1>9, OfRun DEF FilesInv


\* What a taking down may count on.
LEMMA AtDown == ASSUME BoxInv, FilesInv, run.pc \in DownPcs
                PROVE  /\ run \in RunRec /\ Clears(run) /\ (Complete => was.kept) /\ disk \in [Paths -> Bytes] /\ list \in Lists
                       /\ run.kind = "install" => run.back = "rollback" /\ run.pc # "leftovers"
                       /\ run.kind \in {"install", "remove"} /\ (run.kind = "remove" => run.written = NoList /\ ~run.unpacked /\ run.back = "none")
<1>1. run \in RunRec /\ TakesDown(run) /\ disk \in [Paths -> Bytes] /\ list \in Lists BY DEF BoxInv, BoxTypes, Fits, RunFits
<1>2. Clears(run) BY DEF FilesInv, FilesFit
<1>3. Complete => was.kept BY <1>1, <1>2 DEF TakesDown, Clears
<1> QED BY <1>1, <1>2, <1>3, FreshIs DEF TakesDown

\* A taking down that is over ends the run, or goes on to what an update left.
LEMMA TeardownEndFits == ASSUME BoxInv, FilesInv, run.pc \in DownPcs, NEW bad \in BOOLEAN, TeardownEnd(bad), was' = was PROVE FilesFit(run)'
<1>1. /\ run \in RunRec /\ Clears(run) /\ (run.kind = "install" => run.back = "rollback")
      /\ run.kind \in {"install", "remove"} /\ (run.kind = "remove" => run.written = NoList /\ ~run.unpacked) BY AtDown
<1>2. CASE run' = NoRun BY <1>2, OverPlain
<1>3. CASE run.back # "rollback" /\ run' = [run EXCEPT !.pc = "leftovers", !.todo = DOMAIN FilesOf[backup.new], !.bad = FALSE]
  <2> PICK o : o = [run EXCEPT !.pc = "leftovers", !.todo = DOMAIN FilesOf[backup.new], !.bad = FALSE] OBVIOUS
  <2>1. o.pc = "leftovers" /\ o.kind = "remove" /\ o.kept = run.kept /\ o.written = NoList /\ ~o.unpacked BY <1>1, <1>3 DEF RunRec
  <2>2. Clears(o)' BY <1>1, <1>3, <2>1 DEF Clears
  <2>3. FilesFit(o)' BY <2>1, <2>2 DEF FilesFit, Fresh, Writes, Wrote, Swaps, Swapped, PutsBack
  <2> QED BY <1>3, <2>3, OfRun
<1> QED BY <1>2, <1>3 DEF TeardownEnd, End

\* A taking down that stops the unit, fails, or is over.
LEMMA downFiles == ASSUME BoxInv, FilesInv, teardownStop \/ teardownFilesEnd \/ teardownStateFails \/ LeftoversEnd PROVE FilesInv'
<1>1. FilesSame /\ was' = was /\ run.pc \in DownPcs BY RestSame DEF teardownStop, teardownFilesEnd, teardownStateFails, LeftoversEnd, box, Rest
<1>2. run \in RunRec /\ Clears(run) /\ FilesFit(run) /\ list \in Lists BY <1>1, AtDown DEF FilesInv
<1>3. ASSUME NEW bad \in BOOLEAN, TeardownEnd(bad) PROVE FilesInv'
  <2>1. FilesFit(run)' BY <1>1, <1>3, TeardownEndFits
  <2> QED BY <1>1, <2>1, SameBase DEF FilesInv
<1>4. CASE teardownStop
  <2>1. run.pc = "t_stop" BY <1>4 DEF teardownStop
  <2>2. CASE run' = [run EXCEPT !.pc = "t_files", !.todo = Listed(Doomed)]
    <3> PICK o : o = [run EXCEPT !.pc = "t_files", !.todo = Listed(Doomed)] OBVIOUS
    <3>1. /\ o.pc = "t_files" /\ o.kind = run.kind /\ o.kept = run.kept /\ o.written = run.written /\ o.unpacked = run.unpacked /\ o.back = run.back
          /\ o.todo = Listed(Doomed) BY <1>2 DEF RunRec
    <3> PICK d : d = Doomed OBVIOUS
    <3>2. DoomedBy(run) = d /\ DoomedBy(o) = d BY <3>1 DEF DoomedBy, Doomed
    <3>3. was.kept \/ ListKnows(d) BY <1>2, <2>1, <3>2 DEF Clears
    <3>4. ListKnows(d) => Ours \subseteq o.todo BY <3>1 DEF ListKnows, Ours, Listed
    <3>5. Clears(o) BY <1>2, <2>1, <3>1, <3>2, <3>3, <3>4 DEF Clears
    <3>6. Fresh(o) BY <1>2, <2>1, <3>1 DEF FilesFit, Fresh
    <3>7. FilesFit(o) BY <3>1, <3>5, <3>6 DEF FilesFit, Writes, Wrote, Swaps, Swapped, PutsBack
    <3> QED BY <1>1, <2>2, <3>7, SameStep
  <2> QED BY <1>3, <1>4, <2>2 DEF teardownStop
<1>5. CASE teardownFilesEnd
  <2>1. run.pc = "t_files" /\ run.todo = {} BY <1>5 DEF teardownFilesEnd
  <2>2. CASE ~run.bad /\ Goto("t_manifest")
    <3> PICK o : o = [run EXCEPT !.pc = "t_manifest"] OBVIOUS
    <3>1. /\ run' = o /\ o.pc = "t_manifest" /\ o.kind = run.kind /\ o.kept = run.kept /\ o.written = run.written /\ o.unpacked = run.unpacked
      BY <1>2, <2>2 DEF RunRec, Goto
    <3>2. Clears(o) BY <1>2, <2>1, <2>2, <3>1 DEF Clears
    <3>3. Fresh(o) BY <1>2, <2>1, <3>1 DEF FilesFit, Fresh
    <3>4. FilesFit(o) BY <3>1, <3>2, <3>3 DEF FilesFit, Writes, Wrote, Swaps, Swapped, PutsBack
    <3> QED BY <1>1, <3>1, <3>4, SameStep
  <2> QED BY <1>3, <1>5, <2>2 DEF teardownFilesEnd
<1>6. CASE teardownStateFails BY <1>3, <1>6 DEF teardownStateFails
<1>7. CASE LeftoversEnd BY <1>1, <1>7, OverStep DEF LeftoversEnd, End
<1> QED BY <1>4, <1>5, <1>6, <1>7

\* A file is taken away, of the module or of what an update left.
LEMMA teardownFileFiles == ASSUME BoxInv, FilesInv, NEW p \in Paths, teardownFile(p) \/ Leftover(p) PROVE FilesInv'
<1>1. /\ list' = list /\ manifest' = manifest /\ backup' = backup /\ theirs' = theirs /\ was' = was /\ run.pc \in {"t_files", "leftovers"}
  BY DEF teardownFile, Leftover, Rest
<1>2. run \in RunRec /\ Clears(run) /\ FilesFit(run) /\ disk \in [Paths -> Bytes] BY <1>1, AtDown DEF FilesInv
<1>3. disk' = disk \/ disk' = [disk EXCEPT ![p] = None] BY DEF teardownFile, Leftover
<1>4. FilesLess BY <1>1, <1>2, <1>3 DEF FilesLess
<1>5. BackupKnows' /\ ModuleKnows' /\ \A q \in Ours' : q \in Ours /\ disk'[q] = disk[q] BY <1>4, LessBase, LessFiles
<1>6. PICK b \in BOOLEAN : run' = [run EXCEPT !.todo = @ \ {p}, !.bad = b] /\ (~b => ~run.bad)
  <2>1. run.bad \in BOOLEAN BY <1>2 DEF RunRec
  <2>2. CASE run' = [run EXCEPT !.todo = @ \ {p}]
    <3>1. run' = [run EXCEPT !.todo = @ \ {p}, !.bad = run.bad] BY <1>2, <2>2 DEF RunRec
    <3> QED BY <2>1, <3>1
  <2>3. CASE run' = [run EXCEPT !.todo = @ \ {p}, !.bad = TRUE] BY <2>3
  <2>4. CASE run' = [run EXCEPT !.todo = @ \ {p}, !.bad = @ \/ holds(p, ListOf(backup.new)[p]) = "other"]
    <3> PICK b \in BOOLEAN : b = (run.bad \/ holds(p, ListOf(backup.new)[p]) = "other") OBVIOUS
    <3>1. run' = [run EXCEPT !.todo = @ \ {p}, !.bad = b] BY <1>2, <2>4 DEF RunRec
    <3> QED BY <3>1
  <2> QED BY <2>2, <2>3, <2>4 DEF teardownFile, Leftover
<1> PICK o : o = [run EXCEPT !.todo = @ \ {p}, !.bad = b] OBVIOUS
<1>7. /\ run' = o /\ o.pc = run.pc /\ o.kind = run.kind /\ o.kept = run.kept /\ o.written = run.written /\ o.unpacked = run.unpacked /\ o.back = run.back
      /\ o.todo = run.todo \ {p} /\ o.bad = b BY <1>2, <1>6 DEF RunRec
<1>8. Clears(o)'
  <2>1. CASE run.pc = "leftovers" BY <1>1, <1>2, <1>7, <2>1 DEF Clears
  <2>2. CASE run.pc = "t_files"
    <3> PICK d : d = Doomed OBVIOUS
    <3>1. DoomedBy(run) = d /\ DoomedBy(o)' = d BY <1>1, <1>7 DEF DoomedBy, Doomed
    <3>2. ASSUME ~b, ~was.kept PROVE ListKnows(d)' /\ Ours' \subseteq o.todo
      <4>1. ListKnows(d) /\ Ours \subseteq run.todo BY <1>2, <1>6, <2>2, <3>1, <3>2 DEF Clears
      <4>2. ListKnows(d)' BY <1>5, <4>1 DEF ListKnows
      <4>3. ASSUME p \in Ours' PROVE FALSE
        <5>1. p \in Ours /\ disk'[p] = disk[p] BY <1>5, <4>3
        <5>2. disk[p] \in d[p] /\ p \notin theirs /\ disk[p] # None BY <4>1, <5>1, ContentsAre DEF ListKnows, Ours
        <5>3. teardownFile(p) BY <1>1, <2>2 DEF Leftover
        <5>4. disk' = IF p \notin theirs /\ holds(p, Doomed[p]) = "ours" THEN [disk EXCEPT ![p] = None] ELSE disk
          <6>1. \/ disk' = IF p \notin theirs /\ holds(p, Doomed[p]) = "ours" THEN [disk EXCEPT ![p] = None] ELSE disk
                \/ run' = [run EXCEPT !.todo = @ \ {p}, !.bad = TRUE] BY <5>3 DEF teardownFile
          <6>2. run' = [run EXCEPT !.todo = @ \ {p}, !.bad = TRUE] => run'.bad BY <1>2 DEF RunRec
          <6> QED BY <1>7, <3>2, <6>1, <6>2
        <5>5. disk'[p] = None BY <1>2, <5>2, <5>4 DEF holds
        <5> QED BY <5>1, <5>2, <5>5
      <4> QED BY <1>5, <1>7, <4>1, <4>2, <4>3
    <3>3. b \/ was.kept \/ (ListKnows(DoomedBy(o))' /\ Ours' \subseteq o.todo) BY <3>1, <3>2 DEF ListKnows
    <3> QED BY <1>1, <1>2, <1>7, <2>2, <3>3 DEF Clears
  <2> QED BY <1>1, <2>1, <2>2
<1>9. FilesFit(o)'
  <2>1. Fresh(o)' BY <1>1, <1>2, <1>7 DEF FilesFit, Fresh
  <2> QED BY <1>1, <1>7, <1>8, <2>1 DEF FilesFit, Writes, Wrote, Swaps, Swapped, PutsBack
<1> QED BY <1>5, <1>7, <1>9, OfRun DEF FilesInv

\* The manifest, the version and the list are taken away.
LEMMA teardownStateFiles == ASSUME BoxInv, FilesInv, teardownState \/ teardownReload PROVE FilesInv'
<1>1. /\ disk' = disk /\ backup' = backup /\ theirs' = theirs /\ was' = was /\ run.pc \in {"t_manifest", "t_version", "t_reload"}
  BY DEF teardownState, teardownReload, Rest
<1>2. run \in RunRec /\ Clears(run) /\ FilesFit(run) /\ (Complete => was.kept) BY <1>1, AtDown DEF FilesInv
<1>3. was.kept \/ Ours = {} BY <1>1, <1>2 DEF Clears
<1>4. Ours' = Ours /\ (Complete' <=> Complete) BY <1>1 DEF Ours, Complete
<1>5. BackupKnows' BY <1>1, <1>2, BackupStill
<1>6. manifest' = None \/ manifest' = manifest BY DEF teardownState, teardownReload
<1>7. ModuleKnows'
  <2>1. was'.kept \/ ListKnows(list)' BY <1>1, <1>3, <1>4 DEF ListKnows
  <2>2. ModuleKnows BY DEF FilesInv
  <2> QED BY <1>1, <1>4, <1>6, <2>1, <2>2 DEF ModuleKnows, Holds
<1>8. FilesFit(run)'
  <2>1. CASE teardownState
    <3>1. PICK a \in {"t_version", "t_reload"} : Goto(a) BY <2>1 DEF teardownState
    <3> PICK o : o = [run EXCEPT !.pc = a] OBVIOUS
    <3>2. /\ run' = o /\ o.pc = a /\ o.kind = run.kind /\ o.kept = run.kept /\ o.written = run.written /\ o.unpacked = run.unpacked
      BY <1>2, <3>1 DEF RunRec, Goto
    <3>3. Clears(o)' BY <1>1, <1>2, <1>3, <1>4, <3>1, <3>2 DEF Clears
    <3>4. Fresh(o)' BY <1>1, <1>2, <3>1, <3>2 DEF FilesFit, Fresh
    <3>5. FilesFit(o)' BY <3>1, <3>2, <3>3, <3>4 DEF FilesFit, Writes, Wrote, Swaps, Swapped, PutsBack
    <3> QED BY <3>2, <3>5, OfRun
  <2>2. CASE teardownReload
    <3>1. PICK bad \in BOOLEAN : TeardownEnd(bad) BY <2>2 DEF teardownReload
    <3> QED BY <1>1, <3>1, TeardownEndFits
  <2> QED BY <2>1, <2>2
<1> QED BY <1>5, <1>7, <1>8 DEF FilesInv

\* What happens beside a run: a kill, the owner, a release, and the beginning of one.
LEMMA asideFiles == ASSUME BoxInv, FilesInv, \/ Kill \/ OwnerStops \/ Release \/ (\E k \in Kinds : Begin(k))
                                             \/ \E p \in Paths, c \in {None, Other} : Edit(p, c)
                    PROVE  FilesInv'
<1>1. run \in RunRec /\ FilesFit(run) /\ disk \in [Paths -> Bytes] /\ was \in WasRec BY DEF BoxInv, BoxTypes, FilesInv
<1>2. CASE Kill
  <2>1. FilesSame BY <1>2 DEF Kill, FilesSame, box
  <2> QED BY <1>2, <2>1, OverStep DEF Kill
<1>3. CASE OwnerStops \/ Release
  <2>1. FilesSame /\ run' = run BY <1>3 DEF OwnerStops, Release, FilesSame, box
  <2> PICK o : o = run OBVIOUS
  <2> QED BY <1>1, <2>1, SameStep
<1>4. ASSUME NEW k \in Kinds, Begin(k) PROVE FilesInv'
  <2>1. FilesSame BY <1>1, <1>4 DEF Begin, FilesSame, box, WasRec
  <2> PICK o : o = [NoRun EXCEPT !.kind = k, !.pc = "recover"] OBVIOUS
  <2>2. run' = o /\ Plain(o) BY <1>4, Zenon DEF Begin, Plain, PlainPcs, NoRun
  <2> QED BY <2>1, <2>2, PlainStep
<1>5. ASSUME NEW p \in Paths, NEW c \in {None, Other}, Edit(p, c) PROVE FilesInv'
  <2>1. \A q \in Paths : disk'[q] = disk[q] \/ disk'[q] \in {None, Other} BY <1>1, <1>5 DEF Edit
  <2>2. FilesLess /\ run' = run BY <1>1, <1>5, <2>1 DEF Edit, FilesLess, WasRec
  <2> PICK o : o = run OBVIOUS
  <2>3. o.pc \in AimPcs \/ (o.pc = "drop" /\ o.back = "done") => DOMAIN FilesOf[o.target] \subseteq Paths BY Aimed
  <2>4. o.pc \in BackPcs \ {"r_read"} => Complete BY AtBack
  <2>5. FilesFit(o)' BY <1>1, <2>2, <2>3, <2>4, LessFits
  <2> QED BY <2>2, <2>5, LessBase, OfRun DEF FilesInv
<1> QED BY <1>2, <1>3, <1>4, <1>5


\* Every step keeps what is known of the files.
LEMMA FilesStep == ASSUME Droppable, BoxInv, BoxInv', FilesInv, [Next]_vars PROVE FilesInv'
<1>1. CASE vars' = vars
  <2>1. FilesSame /\ run' = run BY <1>1 DEF vars, box, FilesSame
  <2> PICK o : o = run OBVIOUS
  <2>2. FilesFit(o) BY DEF FilesInv
  <2> QED BY <2>1, <2>2, SameStep
<1>2. CASE recoverUpdate \/ Admit \/ StepQuiet \/ Done \/ Unpack \/ (\E p \in Paths : Write(p)) \/ Record \/ stepVersion \/ stepManifest \/ stepStart
  BY <1>2, recoverFiles, AdmitFiles, QuietFiles, UnpackFiles, WriteFiles, RecordFiles, stateFiles
<1>3. CASE \/ Stage \/ stepBackup \/ backupDone \/ stepStop \/ SwapPutDone \/ SwapState \/ SwapFails
           \/ \E p \in Paths : SwapPut(p) \/ SwapDelete(p) \/ putBack(p) \/ putBackRemove(p) \/ teardownFile(p) \/ Leftover(p)
  BY <1>3, StageFiles, backupFiles, SwapPutDoneFiles, SwapStateFiles, SwapPutFiles, SwapDeleteFiles, putBackFiles, teardownFileFiles
<1>4. CASE \/ removeBackup \/ readBackup \/ putBackDecide \/ putBackStop \/ putBackState \/ restoreUnits \/ settleUnits
           \/ teardownStop \/ teardownFilesEnd \/ teardownState \/ teardownStateFails \/ teardownReload \/ LeftoversEnd
  BY <1>4, removeBackupFiles, readFiles, putBackStateFiles, downFiles, teardownStateFiles
<1>5. CASE Kill \/ OwnerStops \/ Release \/ (\E k \in Kinds : Begin(k)) \/ \E p \in Paths, c \in {None, Other} : Edit(p, c)
  BY <1>5, asideFiles
<1> QED BY <1>1, <1>2, <1>3, <1>4, <1>5 DEF Next, Step, Kinds

\* A box on which nothing was installed yet.
LEMMA FilesBegin == ASSUME Init PROVE FilesInv
<1>1. disk = [p \in Paths |-> None] /\ list = NoList /\ manifest = None /\ backup = NoBackup /\ run = NoRun BY DEF Init
<1>2. ~Complete BY <1>1 DEF Complete, NoBackup
<1>3. Ours = {} BY <1>1, ContentsAre DEF Ours
<1>4. BackupKnows /\ ModuleKnows BY <1>1, <1>2, <1>3 DEF BackupKnows, ModuleKnows, ListKnows
<1> PICK o : o = NoRun OBVIOUS
<1>5. Plain(o) BY DEF Plain, NoRun, PlainPcs
<1>6. FilesFit(o) BY <1>5, PlainFits
<1> QED BY <1>1, <1>4, <1>6 DEF FilesInv

\* What each path of the box holds at each step of any run, its undoing and its recovery, and what
\* the list and the backup know of it (the steps of install.go, update.go, remove.go and recover.go).
THEOREM FilesInvariant == ASSUME Droppable PROVE Spec => []FilesInv
<1>1. Init => FilesInv BY FilesBegin
<1>2. BoxInv /\ BoxInv' /\ FilesInv /\ [Next]_vars => FilesInv' BY FilesStep
<1>3. Spec => []BoxInv BY BoxInvariant
<1> QED BY <1>1, <1>2, <1>3, PTL DEF Spec

\* No half-made update is taken for an installed module and no file of it is forgotten, whatever was
\* killed or failed before and wherever the owner edited: Coherent, for any versions and files.
THEOREM CoherentHolds == ASSUME Droppable PROVE Spec => []Coherent
<1>1. ASSUME BoxInv, FilesInv PROVE Coherent
  <2>1. NotMixed
    <3>1. backup.mark # "complete" /\ manifest # None => version \in {manifest, None} BY <1>1 DEF BoxInv, Fits, Agreed, Complete
    <3>2. backup.mark # "complete" /\ manifest # None => \A p \in DOMAIN FilesOf[manifest] : Holds(p, manifest) BY <1>1 DEF FilesInv, ModuleKnows, Complete
    <3> QED BY <3>1, <3>2 DEF NotMixed, Holds
  <2>2. Accounted
    <3>1. CASE Complete BY <1>1, <3>1 DEF FilesInv, BackupKnows, Accounted, Ours, Complete
    <3>2. CASE ~Complete BY <1>1, <3>2 DEF FilesInv, ModuleKnows, ListKnows, Accounted, Ours
    <3> QED BY <3>1, <3>2
  <2> QED BY <2>1, <2>2 DEF Coherent
<1> QED BY <1>1, BoxInvariant, FilesInvariant, PTL

-------------------------------------------------------------------------------
(* What a run says, and what it found and left. *)
Unedited == Paths \ was.edited
\* The box is as the run found it, but for what was edited since.
Found == /\ list = was.list /\ version = was.version /\ manifest = was.version
         /\ was.active => unit.active \/ edits > 0
         /\ \A p \in Unedited : disk[p] = was.disk[p]
\* The backup has what the run found wherever the run may change it.
InBackup(p) == \/ backup.files[p] = was.disk[p]
               \/ backup.files[p] = None /\ ~Has(backup.new, p) /\ backup.list[p] = {}
\* What the run found is there, or is known to have been replaced or taken away by it.
CanReturn(p) == disk[p] = was.disk[p] \/ (backup.files[p] = was.disk[p] /\ (disk[p] = None \/ IsNew(p)))
BackedUp == /\ backup.list = was.list /\ backup.version = was.version
            /\ was.active => backup.unit.active \/ edits > 0
            /\ \A p \in Unedited : InBackup(p) /\ CanReturn(p)
\* The files of version v are in place, but for ps.
Placed(v, ps) == \A p \in DOMAIN FilesOf[v] \ (ps \cup was.edited) : disk[p] = FilesOf[v][p]

Prepares(o) == /\ o.kind = "update" /\ o.pc \in BeforeSwap => Found
               /\ o.pc \in {"backup", "backup2"} =>
                     \A p \in Unedited : IF o.mine[p] = {} THEN Has(o.target, p) => was.disk[p] = None ELSE list[p] # {}
Undoes(o) == o.back = "rollback" /\ o.pc \in BackPcs
Returns(o) == /\ (o.kind = "update" /\ o.pc \in SwapPcs) \/ Undoes(o) => BackedUp
              /\ Undoes(o) /\ o.pc \in {"r_stop", "r_put"} =>
                    /\ \A p \in o.puts : backup.files[p] # None
                    /\ \A p \in o.removes : backup.files[p] = None /\ Has(backup.new, p)
                    /\ o.bad \/ \A p \in Unedited \ (o.puts \cup o.removes) : disk[p] = was.disk[p]
              /\ Undoes(o) /\ o.pc \in {"r_version", "r_list", "r_units", "r_start"} => o.bad \/ \A p \in Unedited : disk[p] = was.disk[p]
              /\ o.pc = "drop" /\ o.back \in {"failed", "rollback"} => Found
Brings(o) == /\ o.pc \in {"write", "swap"} => Placed(o.target, o.todo)
             /\ o.pc = "swap_del" => o.todo \cap DOMAIN FilesOf[o.target] = {}
             /\ o.pc \in {"swap_del", "s_manifest", "s_version", "units", "manifest", "manifest2", "start", "route", "done"}
                \/ (o.pc = "drop" /\ o.back = "done") => Placed(o.target, {})
             /\ o.kind = "install" /\ o.pc \in {"units", "manifest", "manifest2", "start", "route", "done"} =>
                   \A p \in DOMAIN FilesOf[o.target] : o.written[p] = {FilesOf[o.target][p]}
             /\ o.pc = "drop" /\ o.back = "done" => list = ListOf(o.target)
TellFits(o) == Prepares(o) /\ Returns(o) /\ Brings(o)
TellInv == TellFits(run) /\ edits \in Nat /\ (run # NoRun => log.kind = run.kind)

\* What a run says when it ends, of an update that it takes back and of a version that it put in place.
FoundNext == /\ list' = was.list /\ version' = was.version /\ manifest' = was.version
             /\ was.active => unit'.active \/ edits > 0
             /\ \A p \in Paths \ was.edited : disk'[p] = was.disk[p]
WholeNext == /\ version' = manifest' /\ manifest' # None
             /\ \A p \in DOMAIN FilesOf[manifest'] : list'[p] = {FilesOf[manifest'][p]}
             /\ \A p \in DOMAIN FilesOf[manifest'] \ was.edited : disk'[p] = FilesOf[manifest'][p]
             /\ log.kind = "update" => list' = ListOf(manifest')
Says == /\ log.result = "none" /\ log'.result = "rolled_back" /\ log.kind = "update" => FoundNext
        /\ log.result = "none" /\ log'.result = "ok" /\ log.kind # "remove" => WholeNext
KindOf == run # NoRun => log.kind = run.kind
TellOn == TellFits(run)' /\ KindOf' /\ Says

\* The places where nothing is asked of what the run found.
Blank(o) == \/ o.pc \in {"idle", "recover", "admit"} \cup DownPcs
            \/ o.pc \in EarlyPcs /\ o.kind # "update"
            \/ o.pc \in BackPcs /\ o.back # "rollback"
            \/ o.pc = "drop" /\ o.back \in {"recover", "admit"}

\* Nothing is asked there.
LEMMA BlankTell == ASSUME NEW o, Blank(o) PROVE TellFits(o) /\ TellFits(o)'
BY DEF Blank, TellFits, Prepares, Returns, Undoes, Brings

\* What is so of the record that the run becomes is so of the run.
LEMMA OfTell == ASSUME NEW o, run' = o, TellFits(o)' PROVE TellFits(run)'
<1>1. Prepares(run)' BY DEF TellFits, Prepares
<1>2. Returns(run)' BY DEF TellFits, Returns, Undoes
<1>3. Brings(run)' BY DEF TellFits, Brings, Placed
<1> QED BY <1>1, <1>2, <1>3 DEF TellFits

\* A step that says nothing.
LEMMA OnQuiet == ASSUME TellInv, run # NoRun, log' = log, NEW o, run' = o, o.kind = run.kind, TellFits(o)' PROVE TellOn
<1>1. TellFits(run)' BY OfTell
<1>2. KindOf' BY DEF TellInv, KindOf
<1>3. Says BY DEF Says
<1> QED BY <1>1, <1>2, <1>3 DEF TellOn

\* A step after which nothing is asked.
LEMMA OnBlank == ASSUME TellInv, run # NoRun, log' = log, NEW o, run' = o, o.kind = run.kind, Blank(o) PROVE TellOn
<1>1. TellFits(o)' BY BlankTell
<1> QED BY <1>1, OnQuiet

\* A step that ends the run and says r.
LEMMA OnEnd == ASSUME TellInv, log \in LogRec, run # NoRun, NEW r, End(r), r = "rolled_back" /\ run.kind = "update" => FoundNext, r = "ok" /\ run.kind # "remove" => WholeNext
               PROVE  TellOn
<1> PICK o : o = NoRun OBVIOUS
<1>1. run' = o /\ Blank(o) BY DEF End, Blank, NoRun
<1>2. TellFits(run)' BY <1>1, BlankTell, OfTell
<1>3. KindOf' BY <1>1 DEF KindOf
<1>4. log'.result = r BY DEF End, LogRec
<1>5. log.kind = run.kind BY DEF TellInv
<1>6. Says BY <1>4, <1>5 DEF Says
<1> QED BY <1>2, <1>3, <1>6 DEF TellOn

-------------------------------------------------------------------------------
(* What stays so when a step leaves it alone. *)
\* What the run found is remembered, and only what is edited changes at the paths.
WasKept == /\ was'.list = was.list /\ was'.version = was.version /\ was'.disk = was.disk /\ was'.active = was.active
           /\ was.edited \subseteq was'.edited /\ (\A q \in Paths \ was'.edited : disk'[q] = disk[q])
           /\ edits > 0 => edits' > 0
BoxKept == /\ WasKept /\ list' = list /\ version' = version /\ manifest' = manifest
           /\ unit.active => unit'.active \/ edits' > 0

\* A box that is as it was found stays so.
LEMMA FoundKept == ASSUME BoxKept, Found PROVE Found'
BY DEF BoxKept, WasKept, Found, Unedited

\* A backup that has what was found stays so.
LEMMA BackedKept == ASSUME WasKept, backup' = backup, BackedUp PROVE BackedUp'
<1>1. \A p \in Unedited' : p \in Unedited /\ p \in Paths /\ disk'[p] = disk[p] BY DEF WasKept, Unedited
<1>2. \A p \in Unedited' : IsNew(p)' <=> IsNew(p) BY <1>1 DEF IsNew, holds, Has, ListOf
<1>3. \A p \in Unedited' : InBackup(p)' BY <1>1 DEF WasKept, BackedUp, InBackup
<1>4. \A p \in Unedited' : CanReturn(p)' BY <1>1, <1>2 DEF WasKept, BackedUp, CanReturn
<1> QED BY <1>3, <1>4 DEF WasKept, BackedUp

\* Files that are in place stay there.
LEMMA PlacedKept == ASSUME WasKept, NEW v, DOMAIN FilesOf[v] \subseteq Paths, NEW ps, Placed(v, ps) PROVE Placed(v, ps)'
BY DEF WasKept, Placed

\* What a run may count on stays so.
LEMMA TellKept == ASSUME BoxKept, backup' = backup, NEW o, TellFits(o), o.pc \in AimPcs \/ (o.pc = "drop" /\ o.back = "done") => DOMAIN FilesOf[o.target] \subseteq Paths
                  PROVE  TellFits(o)'
<1>1. Found => Found' BY FoundKept
<1>2. BackedUp => BackedUp' BY BackedKept DEF BoxKept
<1>3. Unedited' \subseteq Unedited /\ \A p \in Unedited' : disk'[p] = disk[p] /\ was'.disk = was.disk BY DEF BoxKept, WasKept, Unedited
<1>4. Prepares(o)' BY <1>1, <1>3 DEF TellFits, Prepares, BoxKept
<1>5. Returns(o)' BY <1>1, <1>2, <1>3 DEF TellFits, Returns, Undoes, BoxKept
<1>6. Brings(o)'
  <2>1. Brings(o) BY DEF TellFits
  <2>2. o.pc \in AimPcs \/ (o.pc = "drop" /\ o.back = "done") => \A ps : Placed(o.target, ps) => Placed(o.target, ps)' BY PlacedKept DEF BoxKept
  <2>3. o.pc \in {"write", "swap"} => Placed(o.target, o.todo)' BY <2>1, <2>2 DEF Brings, AimPcs
  <2>4. o.pc \in {"swap_del", "s_manifest", "s_version", "units", "manifest", "manifest2", "start", "route", "done"}
        \/ (o.pc = "drop" /\ o.back = "done") => Placed(o.target, {})' BY <2>1, <2>2 DEF Brings, AimPcs
  <2>5. o.pc = "drop" /\ o.back = "done" => list' = ListOf(o.target) BY <2>1 DEF Brings, BoxKept
  <2> QED BY <2>1, <2>3, <2>4, <2>5 DEF Brings, Placed
<1> QED BY <1>4, <1>5, <1>6 DEF TellFits

\* What a step leaves alone, as TellInv sees it.
LEMMA RestKept == ASSUME disk' = disk, Rest PROVE WasKept
BY DEF Rest, WasKept

\* A step that changes nothing of the box.
LEMMA RestBox == ASSUME disk' = disk, list' = list, version' = version, manifest' = manifest, unit' = unit, Rest PROVE BoxKept
BY RestKept DEF BoxKept

\* A step failed: an update goes to the backup that it made, or the box is as it was found.
LEMMA FailedTell == ASSUME BoxInv, TellInv, run.pc \in InstallPcs \cup BeforeSwap \cup SwapPcs, NEW r \in RunRec, failed(r), r.kind = run.kind, r.backed = run.backed,
                           run.kind = "update" => BoxKept /\ backup' = backup
                    PROVE  TellOn
<1>1. run \in RunRec /\ run # NoRun /\ log \in LogRec /\ run.kind \in {"install", "update"}
  <2>1. run.kind # "remove" /\ run.pc # "idle" BY DEF BoxInv, Fits, RunFits, InKind
  <2> QED BY <2>1, AtWork DEF Kinds, BoxInv, BoxTypes
<1>2. CASE r.kind = "install" /\ r.begun
  <2> PICK o : o = [r EXCEPT !.pc = "t_stop", !.back = "rollback"] OBVIOUS
  <2>1. run' = o /\ log' = log BY <1>2 DEF failed
  <2>2. o.pc = "t_stop" /\ o.kind = r.kind BY DEF RunRec
  <2> QED BY <1>1, <2>1, <2>2, OnBlank DEF Blank
<1>3. CASE r.kind = "install" /\ ~r.begun
  <2>1. End("rolled_back") BY <1>3 DEF failed
  <2> QED BY <1>1, <1>3, <2>1, OnEnd
<1>4. CASE r.kind = "update"
  <2>1. BoxKept /\ backup' = backup /\ Updates(run) /\ InKind(run) /\ TellFits(run) BY <1>4 DEF BoxInv, Fits, RunFits, TellInv
  <2>2. run.pc \in BeforeSwap \cup SwapPcs BY <1>4, <2>1 DEF InKind
  <2>3. IF r.backed THEN run.pc \in SwapPcs ELSE run.pc \in BeforeSwap BY <1>4, <2>1, <2>2 DEF Updates
  <2>4. CASE r.backed
    <3> PICK o : o = [r EXCEPT !.pc = "r_read", !.back = "rollback"] OBVIOUS
    <3>1. run' = o /\ log' = log BY <1>4, <2>4 DEF failed
    <3>2. o.pc = "r_read" /\ o.kind = "update" /\ o.back = "rollback" BY <1>4 DEF RunRec
    <3>3. BackedUp BY <1>4, <2>1, <2>3, <2>4 DEF TellFits, Returns
    <3>4. BackedUp' BY <2>1, <3>3, BackedKept DEF BoxKept
    <3>5. TellFits(o)' BY <3>2, <3>4 DEF TellFits, Prepares, Returns, Undoes, Brings
    <3> QED BY <1>1, <1>4, <3>1, <3>2, <3>5, OnQuiet
  <2>5. CASE ~r.backed
    <3> PICK o : o = [r EXCEPT !.pc = "drop", !.back = "failed"] OBVIOUS
    <3>1. run' = o /\ log' = log BY <1>4, <2>5 DEF failed
    <3>2. o.pc = "drop" /\ o.kind = "update" /\ o.back = "failed" BY <1>4 DEF RunRec
    <3>3. Found BY <1>4, <2>1, <2>3, <2>5 DEF TellFits, Prepares
    <3>4. Found' BY <2>1, <3>3, FoundKept
    <3>5. TellFits(o)' BY <3>2, <3>4 DEF TellFits, Prepares, Returns, Undoes, Brings
    <3> QED BY <1>1, <1>4, <3>1, <3>2, <3>5, OnQuiet
  <2> QED BY <2>4, <2>5
<1> QED BY <1>1, <1>2, <1>3, <1>4

\* A step failed that left the box alone.
LEMMA FailTell == ASSUME BoxInv, TellInv, run.pc \in InstallPcs \cup BeforeSwap \cup SwapPcs, failed(run), run.kind = "update" => BoxKept /\ backup' = backup PROVE TellOn
<1> PICK r : r = run OBVIOUS
<1>1. r \in RunRec /\ failed(r) BY DEF BoxInv, BoxTypes
<1> QED BY <1>1, FailedTell

\* The first look at what an earlier run left.
LEMMA recoverTell == ASSUME BoxInv, TellInv, recoverUpdate PROVE TellOn
<1>1. run.pc = "recover" /\ log' = log BY DEF recoverUpdate
<1>2. run \in RunRec /\ run # NoRun BY <1>1, AtWork
<1> PICK a : a = IF backup.mark = "none" \/ (~modulePresent /\ run.kind = "remove") THEN "admit" ELSE IF ~modulePresent THEN "drop" ELSE "r_read" OBVIOUS
<1> PICK b : b = IF modulePresent THEN "recover" ELSE "admit" OBVIOUS
<1> PICK o : o = [run EXCEPT !.pc = a, !.back = b] OBVIOUS
<1>3. run' = o BY DEF recoverUpdate
<1>4. o.pc = a /\ o.back = b /\ o.kind = run.kind BY <1>2 DEF RunRec
<1>5. Blank(o) BY <1>4 DEF Blank
<1> QED BY <1>1, <1>2, <1>3, <1>4, <1>5, OnBlank

\* The look at the box under the lock: what an update finds.
LEMMA AdmitTell == ASSUME BoxInv, TellInv, Admit PROVE TellOn
<1>1. /\ disk' = disk /\ list' = list /\ manifest' = manifest /\ version' = version /\ unit' = unit /\ edits' = edits /\ run.pc = "admit" BY DEF Admit, box
<1>2. run \in RunRec /\ was \in WasRec /\ run # NoRun /\ run.kind \in Kinds /\ log \in LogRec /\ unit \in UnitRec BY <1>1, AtWork DEF BoxInv, BoxTypes
<1>3. CASE End("refused") BY <1>2, <1>3, OnEnd
<1>4. CASE /\ IF run.kind = "remove" THEN ~removeRefusal ELSE ~planRefusal
           /\ run' = [run EXCEPT !.pc = IF run.kind = "remove" THEN "t_stop" ELSE "packages",
                                 !.back = "none", !.target = latest, !.bad = FALSE, !.left = FALSE]
           /\ was' = [was EXCEPT !.disk = disk, !.list = list, !.version = version, !.active = unit.active, !.edited = {},
                                 !.kept = @ \/ run.kept]
           /\ UNCHANGED log
  <2> PICK a : a = IF run.kind = "remove" THEN "t_stop" ELSE "packages" OBVIOUS
  <2> PICK o : o = [run EXCEPT !.pc = a, !.back = "none", !.target = latest, !.bad = FALSE, !.left = FALSE] OBVIOUS
  <2>1. run' = o /\ log' = log BY <1>4
  <2>2. o.pc = a /\ o.back = "none" /\ o.kind = run.kind BY <1>2 DEF RunRec
  <2>3. CASE run.kind # "update"
    <3>1. Blank(o) BY <2>2, <2>3 DEF Blank
    <3> QED BY <1>2, <2>1, <2>2, <3>1, OnBlank
  <2>4. CASE run.kind = "update"
    <3>1. ~Complete BY <1>1, <2>4 DEF BoxInv, Fits, RunFits, Fore
    <3>2. manifest # None /\ version # None BY <1>4, <2>4 DEF planRefusal
    <3>3. version = manifest BY <3>1, <3>2 DEF BoxInv, Fits, Agreed
    <3>4. was'.list = list /\ was'.version = version /\ was'.disk = disk /\ was'.active = unit.active BY <1>2, <1>4 DEF WasRec
    <3>5. Found' BY <1>1, <3>3, <3>4 DEF Found, Unedited
    <3>6. TellFits(o)' BY <2>2, <2>4, <3>5 DEF TellFits, Prepares, Returns, Undoes, Brings
    <3> QED BY <1>2, <2>1, <2>2, <3>6, OnQuiet
  <2> QED BY <2>3, <2>4
<1> QED BY <1>3, <1>4 DEF Admit

\* A run that goes on may count there on what it counted on before.
LEMMA AdvanceTell == ASSUME BoxInv, FilesInv, TellInv, NEW pc, pc \in {"packages", "download", "verify", "units", "start", "route"}, run.pc = pc, Advance(pc),
                            log' = log, BoxKept, backup' = backup
                     PROVE  TellOn
<1>1. run \in RunRec /\ run # NoRun /\ run.kind \in {"install", "update"} /\ FilesFit(run) /\ TellFits(run)
  <2>1. run.kind # "remove" /\ run.pc # "idle" BY DEF BoxInv, Fits, RunFits, InKind
  <2> QED BY <2>1, AtWork DEF Kinds, FilesInv, TellInv
<1>2. pc \in {"units", "start", "route"} => DOMAIN FilesOf[run.target] \subseteq Paths BY Aimed DEF AimPcs
<1> PICK a : a = NextStep(pc) OBVIOUS
<1> PICK o : o = run' OBVIOUS
<1>3. CASE run.kind = "install"
  <2>1. a = CASE pc = "packages" -> "download" [] pc = "download" -> "verify" [] pc = "verify" -> "unpack"
              [] pc = "units" -> "manifest" [] pc = "start" -> "route" [] pc = "route" -> "done"
    BY <1>3, InstallOrder
  <2>2. run' = [run EXCEPT !.pc = a, !.back = run.back] BY <2>1 DEF Advance
  <2>3. /\ o.pc = a /\ o.kind = "install" /\ o.back = run.back /\ o.written = run.written /\ o.target = run.target
    BY <1>1, <1>3, <2>2 DEF RunRec
  <2>4. CASE pc \in {"packages", "download", "verify"}
    <3>1. Blank(o) BY <2>1, <2>3, <2>4 DEF Blank
    <3> QED BY <1>1, <1>3, <2>3, <3>1, OnBlank
  <2>5. CASE pc \in {"units", "start", "route"}
    <3>1. Brings(run) BY <1>1 DEF TellFits
    <3>2. Brings(o) BY <1>3, <2>1, <2>3, <2>5, <3>1 DEF Brings
    <3>3. TellFits(o) BY <2>1, <2>3, <2>5, <3>2 DEF TellFits, Prepares, Returns, Undoes
    <3>4. TellFits(o)' BY <1>2, <2>3, <2>5, <3>3, TellKept
    <3> QED BY <1>1, <1>3, <2>3, <3>4, OnQuiet
  <2> QED BY <2>4, <2>5
<1>4. CASE run.kind = "update"
  <2>1. \/ pc = "packages" /\ a = "download"
        \/ pc = "download" /\ a = "verify"
        \/ pc = "verify" /\ a = "unpack"
        \/ pc = "units" /\ a \in {"start", "drop"}
        \/ pc = "start" /\ a \in {"route", "drop"}
        \/ pc = "route" /\ a = "drop"
    BY <1>4, UpdateOrder
  <2> PICK b : b = IF a = "drop" THEN "done" ELSE run.back OBVIOUS
  <2>2. run' = [run EXCEPT !.pc = a, !.back = b] BY <2>1 DEF Advance
  <2>3. /\ o.pc = a /\ o.kind = "update" /\ o.back = b /\ o.target = run.target BY <1>1, <1>4, <2>2 DEF RunRec
  <2>4. CASE pc \in {"packages", "download", "verify"}
    <3>1. Found BY <1>1, <1>4, <2>4 DEF TellFits, Prepares
    <3>2. Found' BY <3>1, FoundKept
    <3>3. TellFits(o)' BY <2>1, <2>3, <2>4, <3>2 DEF TellFits, Prepares, Returns, Undoes, Brings
    <3> QED BY <1>1, <1>4, <2>3, <3>3, OnQuiet
  <2>5. CASE pc \in {"units", "start", "route"}
    <3>1. Brings(run) /\ Returns(run) BY <1>1 DEF TellFits
    <3>2. list = ListOf(run.target) BY <1>1, <1>4, <2>5 DEF FilesFit, Swaps, Swapped
    <3>3. BackedUp BY <1>4, <2>5, <3>1 DEF Returns
    <3>4. Returns(o) BY <2>1, <2>3, <2>5, <3>3 DEF Returns, Undoes
    <3>5. Brings(o) BY <1>4, <2>1, <2>3, <2>5, <3>1, <3>2 DEF Brings
    <3>6. TellFits(o) BY <2>1, <2>3, <2>5, <3>4, <3>5 DEF TellFits, Prepares
    <3>7. TellFits(o)' BY <1>2, <2>3, <2>5, <3>6, TellKept
    <3> QED BY <1>1, <1>4, <2>3, <3>7, OnQuiet
  <2> QED BY <2>4, <2>5
<1> QED BY <1>1, <1>3, <1>4

\* The steps that change nothing of the box.
LEMMA QuietTell == ASSUME BoxInv, FilesInv, TellInv, StepQuiet PROVE TellOn
<1>1. BoxKept /\ backup' = backup BY RestBox DEF StepQuiet, box
<1> PICK pc : pc = run.pc OBVIOUS
<1>2. run.pc \in {"packages", "download", "verify", "units", "route"} BY DEF StepQuiet
<1>3. CASE Advance(run.pc) /\ log' = log
  <2>1. Advance(pc) BY <1>3
  <2> QED BY <1>1, <1>2, <1>3, <2>1, AdvanceTell
<1>4. CASE failed(run) BY <1>1, <1>2, <1>4, FailTell
<1> QED BY <1>3, <1>4 DEF StepQuiet

\* An install that is done.
LEMMA DoneTell == ASSUME BoxInv, FilesInv, TellInv, Done PROVE TellOn
<1>1. /\ disk' = disk /\ list' = list /\ version' = version /\ manifest' = manifest /\ run.pc = "done" /\ End("ok") BY DEF Done, box
<1>2. run.kind = "install" BY <1>1 DEF BoxInv, Fits, RunFits, InKind
<1>3. run # NoRun /\ log \in LogRec /\ log.kind = run.kind BY <1>1, AtWork DEF BoxInv, BoxTypes, TellInv
<1>4. manifest = run.target /\ version = run.target BY <1>1, <1>2 DEF BoxInv, Fits, RunFits, Installs
<1>5. run.target \in Versions BY <1>1, Aimed DEF AimPcs
<1>6. list = run.written BY <1>1, <1>2 DEF FilesInv, FilesFit, Wrote
<1>7. Brings(run) BY DEF TellInv, TellFits
<1>8. \A p \in DOMAIN FilesOf[run.target] : run.written[p] = {FilesOf[run.target][p]} BY <1>1, <1>2, <1>7 DEF Brings
<1>9. Placed(run.target, {}) BY <1>1, <1>7 DEF Brings
<1>10. run.target # None BY <1>5, Numbers DEF None
<1>11. WholeNext BY <1>1, <1>2, <1>3, <1>4, <1>6, <1>8, <1>9, <1>10 DEF WholeNext, Placed
<1> QED BY <1>1, <1>2, <1>3, <1>11, OnEnd

\* An install looks at what an earlier one left.
LEMMA UnpackTell == ASSUME BoxInv, TellInv, Unpack PROVE TellOn
<1>1. run.pc = "unpack" /\ run.kind = "install" BY DEF Unpack
<1>2. run \in RunRec /\ list \in Lists /\ run # NoRun /\ run.target \in Versions BY <1>1, AtWork, AtInstall DEF BoxInv, BoxTypes
<1> PICK mine : mine = stillTheirs(list) OBVIOUS
<1>3. mine \in Lists BY <1>2, ListsMade
<1>4. CASE failed([run EXCEPT !.begun = TRUE, !.unpacked = TRUE, !.written = mine])
  <2> PICK r : r = [run EXCEPT !.begun = TRUE, !.unpacked = TRUE, !.written = mine] OBVIOUS
  <2>1. r \in RunRec /\ r.kind = run.kind /\ r.backed = run.backed BY <1>2, <1>3 DEF RunRec
  <2>2. failed(r) BY <1>4
  <2> QED BY <1>1, <2>1, <2>2, FailedTell
<1>5. CASE /\ run' = [run EXCEPT !.pc = "write", !.begun = TRUE, !.mine = mine, !.todo = DOMAIN FilesOf[run.target]]
           /\ log' = log
  <2> PICK o : o = [run EXCEPT !.pc = "write", !.begun = TRUE, !.mine = mine, !.todo = DOMAIN FilesOf[run.target]] OBVIOUS
  <2>1. o.pc = "write" /\ o.kind = "install" /\ o.todo = DOMAIN FilesOf[run.target] /\ o.target = run.target BY <1>1, <1>2 DEF RunRec
  <2>2. Placed(o.target, o.todo)' BY <2>1 DEF Placed
  <2>3. TellFits(o)' BY <2>1, <2>2 DEF TellFits, Prepares, Returns, Undoes, Brings, Placed
  <2> QED BY <1>1, <1>2, <1>5, <2>1, <2>3, OnQuiet
<1> QED BY <1>4, <1>5, Zenon DEF Unpack

\* One file of the archive is put at its path, or fails to be.
LEMMA WriteTell == ASSUME BoxInv, FilesInv, TellInv, NEW p \in Paths, Write(p) PROVE TellOn
<1>1. run.pc = "write" /\ p \in run.todo /\ was' = was BY DEF Write, Rest
<1>2. /\ run.kind = "install" /\ run \in RunRec /\ run.todo \subseteq DOMAIN FilesOf[run.target] /\ DOMAIN FilesOf[run.target] \subseteq Paths
      /\ disk \in [Paths -> Bytes] /\ writtenEntries(run.mine, run.written) \in Lists /\ run.written \in Lists BY <1>1, AtWrite
<1>3. run # NoRun BY <1>1, AtWork
<1>4. CASE /\ disk' = [disk EXCEPT ![p] = FilesOf[run.target][p]]
           /\ run' = [run EXCEPT !.todo = @ \ {p}, !.written[p] = ListOf(run.target)[p]]
           /\ log' = log
  <2> PICK o : o = [run EXCEPT !.todo = @ \ {p}, !.written[p] = ListOf(run.target)[p]] OBVIOUS
  <2>1. o.pc = "write" /\ o.kind = "install" /\ o.todo = run.todo \ {p} /\ o.target = run.target BY <1>1, <1>2 DEF RunRec
  <2>2. Placed(run.target, run.todo) BY <1>1 DEF TellInv, TellFits, Brings
  <2>3. disk'[p] = FilesOf[run.target][p] /\ \A q \in Paths \ {p} : disk'[q] = disk[q] BY <1>2, <1>4
  <2>4. \A q \in DOMAIN FilesOf[run.target] \ (o.todo \cup was.edited) : disk'[q] = FilesOf[run.target][q] BY <1>2, <2>1, <2>2, <2>3 DEF Placed
  <2>5. Placed(o.target, o.todo)' BY <1>1, <2>1, <2>4 DEF Placed
  <2>6. TellFits(o)' BY <2>1, <2>5 DEF TellFits, Prepares, Returns, Undoes, Brings, Placed
  <2> QED BY <1>2, <1>3, <1>4, <2>1, <2>6, OnQuiet
<1>5. CASE failed([run EXCEPT !.unpacked = TRUE, !.written = writtenEntries(run.mine, run.written)])
  <2> PICK w : w = writtenEntries(run.mine, run.written) OBVIOUS
  <2> PICK r : r = [run EXCEPT !.unpacked = TRUE, !.written = w] OBVIOUS
  <2>1. r \in RunRec /\ r.kind = run.kind /\ r.backed = run.backed BY <1>2 DEF RunRec
  <2>2. failed(r) BY <1>5
  <2> QED BY <1>1, <1>2, <2>1, <2>2, FailedTell
<1> QED BY <1>4, <1>5 DEF Write

\* The list is what was written: every file of the version.
LEMMA RecordTell == ASSUME BoxInv, FilesInv, TellInv, Record PROVE TellOn
<1>1. disk' = disk /\ was' = was /\ run.pc = "write" /\ run.todo = {} BY DEF Record, Rest
<1>2. /\ run.kind = "install" /\ run.target \in Versions /\ run \in RunRec /\ Writes(run) /\ DOMAIN FilesOf[run.target] \subseteq Paths
      /\ writtenEntries(run.mine, run.written) \in Lists BY <1>1, AtWrite
<1>3. run # NoRun BY <1>1, AtWork
<1> PICK w : w = writtenEntries(run.mine, run.written) OBVIOUS
<1> PICK r : r = [run EXCEPT !.unpacked = TRUE, !.written = w] OBVIOUS
<1>4. r \in RunRec /\ r.kind = run.kind /\ r.written = w /\ r.target = run.target /\ r.backed = run.backed BY <1>2 DEF RunRec
<1>5. \/ run' = [r EXCEPT !.pc = NextStep("unpack")] /\ log' = log
      \/ failed(r)
  BY Zenon DEF Record
<1>6. CASE run' = [r EXCEPT !.pc = NextStep("unpack")] /\ log' = log
  <2> PICK o : o = [r EXCEPT !.pc = "units"] OBVIOUS
  <2>1. run' = o BY <1>2, <1>6, InstallOrder
  <2>2. o.pc = "units" /\ o.kind = "install" /\ o.written = w /\ o.target = run.target BY <1>2, <1>4 DEF RunRec
  <2>3. \A p \in DOMAIN FilesOf[run.target] : w[p] = {FilesOf[run.target][p]}
    <3>1. \A p \in DOMAIN FilesOf[run.target] : run.written[p] = {FilesOf[run.target][p]} BY <1>1, <1>2 DEF Writes, ListOf, Has
    <3> QED BY <1>2, <3>1 DEF writtenEntries
  <2>4. Placed(run.target, {}) BY <1>1 DEF TellInv, TellFits, Brings
  <2>5. Placed(o.target, {})' BY <1>1, <2>2, <2>4 DEF Placed
  <2>6. TellFits(o)' BY <2>2, <2>3, <2>5 DEF TellFits, Prepares, Returns, Undoes, Brings, Placed
  <2> QED BY <1>2, <1>3, <1>6, <2>1, <2>2, <2>6, OnQuiet
<1>7. CASE failed(r) BY <1>1, <1>2, <1>4, <1>7, FailedTell
<1> QED BY <1>5, <1>6, <1>7

\* An install that goes on from a file of its state to the next.
LEMMA StateTell == ASSUME BoxInv, TellInv, NEW a, (run.pc = "manifest" /\ a = "manifest2") \/ (run.pc = "manifest2" /\ a = "start"),
                          disk' = disk, was' = was, Goto(a), log' = log
                   PROVE  TellOn
<1>1. run.kind = "install" BY DEF BoxInv, Fits, RunFits, InKind
<1>2. run \in RunRec /\ run # NoRun BY AtWork
<1> PICK o : o = [run EXCEPT !.pc = a] OBVIOUS
<1>3. run' = o /\ o.pc = a /\ o.kind = run.kind /\ o.written = run.written /\ o.target = run.target BY <1>2 DEF RunRec, Goto
<1>4. Brings(run) BY DEF TellInv, TellFits
<1>5. Brings(o)' BY <1>1, <1>3, <1>4 DEF Brings, Placed
<1>6. TellFits(o)' BY <1>1, <1>3, <1>5 DEF TellFits, Prepares, Returns, Undoes
<1> QED BY <1>2, <1>3, <1>6, OnQuiet

\* The version is written, then the manifest, then the unit is started.
LEMMA stateTell == ASSUME BoxInv, FilesInv, TellInv, stepVersion \/ stepManifest \/ stepStart PROVE TellOn
<1>1. CASE stepVersion
  <2> PICK a : a = "manifest2" OBVIOUS
  <2>1. run.pc = "manifest" /\ disk' = disk /\ was' = was /\ log' = log /\ Goto("manifest2") BY <1>1 DEF stepVersion, Rest
  <2>2. Goto(a) /\ ((run.pc = "manifest" /\ a = "manifest2") \/ (run.pc = "manifest2" /\ a = "start")) BY <2>1
  <2> QED BY <2>1, <2>2, StateTell
<1>2. CASE stepManifest
  <2>1. run.pc = "manifest2" /\ disk' = disk /\ was' = was BY <1>2 DEF stepManifest, Rest
  <2>2. CASE Goto("start") /\ log' = log
    <3> PICK a : a = "start" OBVIOUS
    <3>1. Goto(a) BY <2>2
    <3> QED BY <2>1, <2>2, <3>1, StateTell
  <2>3. CASE failed(run)
    <3>1. run.kind = "install" BY <2>1 DEF BoxInv, Fits, RunFits, InKind
    <3> QED BY <2>1, <2>3, <3>1, FailTell
  <2> QED BY <1>2, <2>2, <2>3 DEF stepManifest
<1>3. CASE stepStart
  <2>1. run.pc = "start" /\ disk' = disk /\ list' = list /\ manifest' = manifest /\ version' = version /\ backup' = backup /\ Rest BY <1>3 DEF stepStart
  <2>2. CASE unit' = [active |-> TRUE, enabled |-> run.kind = "install" \/ run.before.enabled \/ unit.enabled] /\ Advance("start") /\ log' = log
    <3>1. BoxKept BY <2>1, <2>2, RestKept DEF BoxKept
    <3> PICK pc : pc = "start" OBVIOUS
    <3>2. Advance(pc) BY <2>2
    <3> QED BY <2>1, <2>2, <3>1, <3>2, AdvanceTell
  <2>3. CASE failed(run) /\ unit' = unit
    <3>1. BoxKept BY <2>1, <2>3, RestBox
    <3> QED BY <2>1, <2>3, <3>1, FailTell
  <2> QED BY <1>3, <2>2, <2>3 DEF stepStart
<1> QED BY <1>1, <1>2, <1>3

\* An update looks at the files that it is to replace: each is the module's or nothing is there.
LEMMA StageTell == ASSUME BoxInv, TellInv, Stage PROVE TellOn
<1>1. BoxKept /\ backup' = backup /\ disk' = disk /\ list' = list /\ was' = was BY RestBox DEF Stage, box, Rest
<1>2. run.pc = "unpack" /\ run.kind = "update" BY DEF Stage
<1>3. run \in RunRec /\ run # NoRun /\ list \in Lists BY <1>2, AtWork DEF BoxInv, BoxTypes
<1> PICK mine : mine = stillTheirs(list) OBVIOUS
<1>4. \/ ~InTheWay(run.target, mine) /\ run' = [run EXCEPT !.pc = "backup", !.mine = mine] /\ log' = log
      \/ failed(run)
  BY Zenon DEF Stage
<1>5. CASE failed(run) BY <1>1, <1>2, <1>5, FailTell
<1>6. CASE ~InTheWay(run.target, mine) /\ run' = [run EXCEPT !.pc = "backup", !.mine = mine] /\ log' = log
  <2> PICK o : o = [run EXCEPT !.pc = "backup", !.mine = mine] OBVIOUS
  <2>1. o.pc = "backup" /\ o.kind = "update" /\ o.mine = mine /\ o.target = run.target BY <1>2, <1>3 DEF RunRec
  <2>2. Found BY <1>2 DEF TellInv, TellFits, Prepares
  <2>3. Found' BY <1>1, <2>2, FoundKept
  <2>4. ASSUME NEW p \in Unedited PROVE IF mine[p] = {} THEN Has(run.target, p) => was.disk[p] = None ELSE list[p] # {}
    <3>1. p \in Paths /\ disk[p] = was.disk[p] BY <2>2 DEF Found, Unedited
    <3>2. mine[p] # {} => list[p] # {} BY <3>1 DEF stillTheirs
    <3>3. mine[p] = {} /\ Has(run.target, p) => disk[p] = None BY <1>6 DEF InTheWay, Has
    <3> QED BY <3>1, <3>2, <3>3
  <2>5. Unedited' = Unedited BY <1>1 DEF Unedited
  <2>6. Prepares(o)' BY <1>1, <2>1, <2>3, <2>4, <2>5 DEF Prepares, Has
  <2>7. TellFits(o)' BY <2>1, <2>6 DEF TellFits, Returns, Undoes, Brings
  <2> QED BY <1>2, <1>3, <1>6, <2>1, <2>7, OnQuiet
<1> QED BY <1>4, <1>5, <1>6

\* The backup of an update has what the update found.
LEMMA backupTell == ASSUME BoxInv, TellInv, stepBackup \/ backupDone PROVE TellOn
<1>1. /\ BoxKept /\ disk' = disk /\ list' = list /\ was' = was /\ edits' = edits /\ run.pc \in {"backup", "backup2"}
  BY RestBox DEF stepBackup, backupDone, box, Rest
<1>2. run.kind = "update" BY <1>1 DEF BoxInv, Fits, RunFits, InKind
<1>3. run \in RunRec /\ run # NoRun BY <1>1, AtWork
<1>4. /\ Found /\ \A p \in Unedited : IF run.mine[p] = {} THEN Has(run.target, p) => was.disk[p] = None ELSE list[p] # {}
  BY <1>1, <1>2 DEF TellInv, TellFits, Prepares
<1>5. Found' /\ Unedited' = Unedited BY <1>1, <1>4, FoundKept DEF Unedited
<1>6. CASE backup' = backup /\ failed(run) BY <1>1, <1>6, FailTell
<1>7. CASE Goto("backup2") /\ log' = log
  <2> PICK o : o = [run EXCEPT !.pc = "backup2"] OBVIOUS
  <2>1. run' = o /\ o.pc = "backup2" /\ o.kind = "update" /\ o.mine = run.mine /\ o.target = run.target BY <1>2, <1>3, <1>7 DEF RunRec, Goto
  <2>2. Prepares(o)' BY <1>1, <1>4, <1>5, <2>1 DEF Prepares, Has
  <2>3. TellFits(o)' BY <2>1, <2>2 DEF TellFits, Returns, Undoes, Brings
  <2> QED BY <1>2, <1>3, <1>7, <2>1, <2>3, OnQuiet
<1>8. CASE /\ backup' = [mark |-> "complete", files |-> [p \in Paths |-> IF list[p] # {} THEN disk[p] ELSE None],
                         list |-> list, manifest |-> manifest, version |-> version, new |-> run.target, unit |-> unit]
           /\ run' = [run EXCEPT !.pc = NextStep("backup"), !.backed = TRUE, !.before = unit] /\ log' = log
  <2> PICK o : o = [run EXCEPT !.pc = "stop", !.backed = TRUE, !.before = unit] OBVIOUS
  <2>1. run' = o BY <1>2, <1>8, UpdateOrder
  <2>2. o.pc = "stop" /\ o.kind = "update" BY <1>2, <1>3 DEF RunRec
  <2>3. /\ backup'.list = list /\ backup'.version = version /\ backup'.new = run.target /\ backup'.unit = unit
        /\ \A p \in Paths : backup'.files[p] = IF list[p] # {} THEN disk[p] ELSE None BY <1>8
  <2>4. \A p \in Unedited : p \in Paths /\ disk'[p] = was'.disk[p] /\ disk[p] = was.disk[p] BY <1>1, <1>4 DEF Found, Unedited
  <2>5. \A p \in Unedited : InBackup(p)' BY <1>1, <1>4, <2>3, <2>4 DEF InBackup, Has
  <2>6. \A p \in Unedited : CanReturn(p)' BY <2>4 DEF CanReturn
  <2>7. BackedUp' BY <1>1, <1>4, <1>5, <2>3, <2>5, <2>6 DEF BackedUp, Found
  <2>8. TellFits(o)' BY <2>2, <2>7 DEF TellFits, Prepares, Returns, Undoes, Brings
  <2> QED BY <1>2, <1>3, <1>8, <2>1, <2>2, <2>8, OnQuiet
<1> QED BY <1>6, <1>7, <1>8 DEF stepBackup, backupDone

\* What an update that swaps may count on.
LEMMA SwapTells == ASSUME BoxInv, FilesInv, TellInv, run.pc \in {"swap", "swap_del", "s_manifest", "s_version"} PROVE BackedUp /\ Brings(run) /\ run # NoRun
<1>1. run.kind = "update" /\ run # NoRun BY AtSwap, AtWork
<1> QED BY <1>1 DEF TellInv, TellFits, Returns

\* The unit is stopped.
LEMMA stopTell == ASSUME BoxInv, TellInv, stepStop PROVE TellOn
<1>1. /\ WasKept /\ list' = list /\ version' = version /\ manifest' = manifest /\ backup' = backup /\ run.pc = "stop" BY RestKept DEF stepStop
<1>2. run.kind = "update" BY <1>1 DEF BoxInv, Fits, RunFits, InKind
<1>3. run \in RunRec /\ run # NoRun BY <1>1, AtWork
<1>4. CASE failed(run) /\ unit' = unit
  <2>1. BoxKept BY <1>1, <1>4 DEF BoxKept
  <2> QED BY <1>1, <1>4, <2>1, FailTell
<1>5. CASE run' = [run EXCEPT !.pc = "swap", !.todo = DOMAIN FilesOf[run.target]] /\ log' = log
  <2> PICK o : o = [run EXCEPT !.pc = "swap", !.todo = DOMAIN FilesOf[run.target]] OBVIOUS
  <2>1. o.pc = "swap" /\ o.kind = "update" /\ o.target = run.target /\ o.todo = DOMAIN FilesOf[run.target] BY <1>2, <1>3 DEF RunRec
  <2>2. BackedUp BY <1>1, <1>2 DEF TellInv, TellFits, Returns
  <2>3. BackedUp' BY <1>1, <2>2, BackedKept
  <2>4. Placed(o.target, o.todo)' BY <2>1 DEF Placed
  <2>5. TellFits(o)' BY <2>1, <2>3, <2>4 DEF TellFits, Prepares, Returns, Undoes, Brings, Placed
  <2> QED BY <1>2, <1>3, <1>5, <2>1, <2>5, OnQuiet
<1> QED BY <1>4, <1>5 DEF stepStop

\* A file of the new version is put at its path: the backup has what was there.
LEMMA SwapPutTell == ASSUME BoxInv, FilesInv, TellInv, NEW p \in Paths, SwapPut(p) PROVE TellOn
<1>1. /\ list' = list /\ version' = version /\ manifest' = manifest /\ unit' = unit /\ backup' = backup /\ was' = was /\ edits' = edits
      /\ run.pc = "swap" /\ p \in run.todo BY DEF SwapPut, Rest
<1>2. /\ run.kind = "update" /\ run.target \in Versions /\ run \in RunRec /\ backup.new = run.target /\ disk \in [Paths -> Bytes]
      /\ DOMAIN FilesOf[run.target] \subseteq Paths BY <1>1, AtSwap
<1>3. BackedUp /\ Brings(run) /\ run # NoRun BY <1>1, SwapTells
<1>4. CASE failed(run) /\ disk' = disk
  <2>1. BoxKept BY <1>1, <1>4 DEF BoxKept, WasKept
  <2> QED BY <1>1, <1>4, <2>1, FailTell
<1>5. CASE disk' = [disk EXCEPT ![p] = FilesOf[run.target][p]] /\ run' = [run EXCEPT !.todo = @ \ {p}] /\ log' = log
  <2> PICK o : o = [run EXCEPT !.todo = @ \ {p}] OBVIOUS
  <2> PICK v : v = run.target OBVIOUS
  <2>1. o.pc = "swap" /\ o.kind = "update" /\ o.todo = run.todo \ {p} /\ o.target = v BY <1>1, <1>2 DEF RunRec
  <2>2. p \in DOMAIN FilesOf[v] BY <1>1 DEF BoxInv, Fits, RunFits, TodoFits
  <2>3. disk'[p] = FilesOf[v][p] /\ \A q \in Paths \ {p} : disk'[q] = disk[q] BY <1>2, <1>5
  <2>4. IsNew(p)' /\ \A q \in Paths \ {p} : IsNew(q)' <=> IsNew(q)
    <3>1. FilesOf[v][p] # None BY <1>2, <2>2, ContentsAre
    <3>2. IsNew(p)' BY <1>1, <1>2, <2>2, <2>3, <3>1 DEF IsNew, holds, Has, ListOf
    <3> QED BY <1>1, <2>3, <3>2 DEF IsNew, holds, Has, ListOf
  <2>5. \A q \in Unedited : q \in Paths /\ InBackup(q) /\ CanReturn(q) BY <1>3 DEF BackedUp, Unedited
  <2>6. p \in Unedited => backup.files[p] = was.disk[p] BY <1>2, <2>2, <2>5 DEF InBackup, Has
  <2>7. Unedited' = Unedited /\ \A q \in Unedited : InBackup(q)' BY <1>1, <2>5 DEF Unedited, InBackup
  <2>8. \A q \in Unedited : CanReturn(q)' BY <1>1, <2>3, <2>4, <2>5, <2>6 DEF CanReturn
  <2>9. BackedUp' BY <1>1, <1>3, <2>7, <2>8 DEF BackedUp
  <2>10. Placed(v, run.todo) BY <1>1, <1>3 DEF Brings
  <2>11. \A q \in DOMAIN FilesOf[v] \ (o.todo \cup was.edited) : disk'[q] = FilesOf[v][q] BY <1>2, <2>1, <2>3, <2>10 DEF Placed
  <2>12. Placed(o.target, o.todo)' BY <1>1, <2>1, <2>11 DEF Placed
  <2>13. TellFits(o)' BY <2>1, <2>9, <2>12 DEF TellFits, Prepares, Returns, Undoes, Brings, Placed
  <2> QED BY <1>2, <1>3, <1>5, <2>1, <2>13, OnQuiet
<1> QED BY <1>4, <1>5 DEF SwapPut

\* The files are put, and the ones that only the old version had are next.
LEMMA SwapPutDoneTell == ASSUME BoxInv, FilesInv, TellInv, SwapPutDone PROVE TellOn
<1>1. WasKept /\ backup' = backup /\ log' = log /\ run.pc = "swap" /\ run.todo = {} BY RestKept DEF SwapPutDone, box
<1>2. run.kind = "update" /\ run \in RunRec /\ DOMAIN FilesOf[run.target] \subseteq Paths BY <1>1, AtSwap
<1>3. BackedUp /\ Brings(run) /\ run # NoRun BY <1>1, SwapTells
<1> PICK o : o = [run EXCEPT !.pc = "swap_del", !.todo = Listed(list) \ DOMAIN FilesOf[run.target]] OBVIOUS
<1>4. run' = o /\ o.pc = "swap_del" /\ o.kind = "update" /\ o.target = run.target /\ o.todo = Listed(list) \ DOMAIN FilesOf[run.target] BY <1>2 DEF RunRec, SwapPutDone
<1>5. BackedUp' BY <1>1, <1>3, BackedKept
<1>6. Placed(o.target, {}) BY <1>1, <1>3, <1>4 DEF Brings
<1>7. Placed(o.target, {})' BY <1>1, <1>2, <1>4, <1>6, PlacedKept
<1>8. o.todo \cap DOMAIN FilesOf[o.target] = {} BY <1>4
<1>9. TellFits(o)' BY <1>4, <1>5, <1>7, <1>8 DEF TellFits, Prepares, Returns, Undoes, Brings, Placed
<1> QED BY <1>1, <1>2, <1>3, <1>4, <1>9, OnQuiet

\* A file that only the old version had is taken away: the list named it, so that the backup has it.
LEMMA SwapDeleteTell == ASSUME BoxInv, FilesInv, TellInv, NEW p \in Paths, SwapDelete(p) PROVE TellOn
<1>1. /\ list' = list /\ version' = version /\ manifest' = manifest /\ unit' = unit /\ backup' = backup /\ was' = was /\ edits' = edits
      /\ run.pc = "swap_del" /\ p \in run.todo BY DEF SwapDelete, Rest
<1>2. /\ run.kind = "update" /\ run \in RunRec /\ disk \in [Paths -> Bytes] /\ Swaps(run) /\ DOMAIN FilesOf[run.target] \subseteq Paths BY <1>1, AtSwap
<1>3. BackedUp /\ Brings(run) /\ run # NoRun BY <1>1, SwapTells
<1>4. CASE failed(run) /\ disk' = disk
  <2>1. BoxKept BY <1>1, <1>4 DEF BoxKept, WasKept
  <2> QED BY <1>1, <1>4, <2>1, FailTell
<1>5. CASE /\ run' = [run EXCEPT !.todo = @ \ {p}] /\ log' = log
           /\ disk' = IF p \notin theirs /\ holds(p, list[p]) = "ours" THEN [disk EXCEPT ![p] = None] ELSE disk
  <2> PICK o : o = [run EXCEPT !.todo = @ \ {p}] OBVIOUS
  <2> PICK v : v = run.target OBVIOUS
  <2>1. o.pc = "swap_del" /\ o.kind = "update" /\ o.todo = run.todo \ {p} /\ o.target = v BY <1>1, <1>2 DEF RunRec
  <2>2. run.todo \cap DOMAIN FilesOf[v] = {} /\ Placed(v, {}) BY <1>1, <1>3 DEF Brings
  <2>3. p \notin DOMAIN FilesOf[v] BY <1>1, <2>2
  <2>4. \A q \in Paths \ {p} : disk'[q] = disk[q] BY <1>2, <1>5
  <2>5. disk'[p] = disk[p] \/ (disk'[p] = None /\ list[p] # {}) BY <1>2, <1>5 DEF holds
  <2>6. \A q \in Paths : disk'[q] = disk[q] => (IsNew(q)' <=> IsNew(q)) BY <1>1 DEF IsNew, holds, Has, ListOf
  <2>7. \A q \in Unedited : q \in Paths /\ InBackup(q) /\ CanReturn(q) BY <1>3 DEF BackedUp, Unedited
  <2>8. list = backup.list BY <1>1, <1>2 DEF Swaps
  <2>9. p \in Unedited /\ list[p] # {} => backup.files[p] = was.disk[p] BY <2>7, <2>8 DEF InBackup
  <2>10. Unedited' = Unedited /\ \A q \in Unedited : InBackup(q)' BY <1>1, <2>7 DEF Unedited, InBackup
  <2>11. \A q \in Unedited : CanReturn(q)' BY <1>1, <2>4, <2>5, <2>6, <2>7, <2>9 DEF CanReturn
  <2>12. BackedUp' BY <1>1, <1>3, <2>10, <2>11 DEF BackedUp
  <2>13. Placed(o.target, {})' BY <1>1, <1>2, <2>1, <2>2, <2>3, <2>4 DEF Placed
  <2>14. o.todo \cap DOMAIN FilesOf[o.target] = {} BY <2>1, <2>2
  <2>15. TellFits(o)' BY <2>1, <2>12, <2>13, <2>14 DEF TellFits, Prepares, Returns, Undoes, Brings, Placed
  <2> QED BY <1>2, <1>3, <1>5, <2>1, <2>15, OnQuiet
<1> QED BY <1>4, <1>5 DEF SwapDelete

\* The lists, the manifest and the version follow the files.
LEMMA SwapStateTell == ASSUME BoxInv, FilesInv, TellInv, SwapState PROVE TellOn
<1>1. WasKept /\ backup' = backup /\ log' = log /\ run.pc \in {"swap_del", "s_manifest", "s_version"} BY RestKept DEF SwapState
<1>2. run.kind = "update" /\ run \in RunRec /\ DOMAIN FilesOf[run.target] \subseteq Paths BY <1>1, AtSwap
<1>3. BackedUp /\ Brings(run) /\ run # NoRun BY <1>1, SwapTells
<1>4. PICK a \in {"s_manifest", "s_version", "units"} : run' = [run EXCEPT !.pc = a]
  <2>1. CASE Goto("s_manifest") \/ Goto("s_version") BY <2>1 DEF Goto
  <2>2. CASE Advance("swap")
    <3>1. run' = [run EXCEPT !.pc = "units", !.back = run.back] BY <1>2, <2>2, UpdateOrder DEF Advance
    <3>2. run' = [run EXCEPT !.pc = "units"] BY <1>2, <3>1 DEF RunRec
    <3> QED BY <3>2
  <2> QED BY <2>1, <2>2 DEF SwapState
<1> PICK o : o = [run EXCEPT !.pc = a] OBVIOUS
<1>5. run' = o /\ o.pc = a /\ o.kind = "update" /\ o.target = run.target BY <1>2, <1>4 DEF RunRec
<1>6. BackedUp' BY <1>1, <1>3, BackedKept
<1>7. Placed(o.target, {}) BY <1>1, <1>3, <1>5 DEF Brings
<1>8. Placed(o.target, {})' BY <1>1, <1>2, <1>5, <1>7, PlacedKept
<1>9. TellFits(o)' BY <1>4, <1>5, <1>6, <1>8 DEF TellFits, Prepares, Returns, Undoes, Brings, Placed
<1> QED BY <1>1, <1>2, <1>3, <1>5, <1>9, OnQuiet

\* A write of the state fails.
LEMMA SwapFailsTell == ASSUME BoxInv, TellInv, SwapFails PROVE TellOn
<1>1. BoxKept /\ backup' = backup /\ failed(run) /\ run.pc \in {"s_manifest", "s_version", "swap_del"} BY RestBox DEF SwapFails, box
<1> QED BY <1>1, FailTell

\* A putting back that is over lets the run be admitted, or says that it was rolled back when it was.
LEMMA RestoreEndTell == ASSUME BoxInv, TellInv, run.pc \in BackPcs \cup {"drop"}, run.back \in {"recover", "rollback"}, NEW bad \in BOOLEAN, RestoreEnd(bad),
                               run.back = "rollback" /\ ~bad => FoundNext
                        PROVE  TellOn
<1>1. run \in RunRec /\ run # NoRun /\ log \in LogRec BY AtWork DEF BoxInv, BoxTypes
<1>2. CASE run.back = "recover" /\ bad /\ run.kind # "remove" BY <1>1, <1>2, OnEnd DEF RestoreEnd
<1>3. CASE run.back = "recover" /\ ~(bad /\ run.kind # "remove")
  <2> PICK o : o = [run EXCEPT !.pc = "admit", !.kept = bad] OBVIOUS
  <2>1. run' = o /\ log' = log BY <1>3 DEF RestoreEnd
  <2>2. o.pc = "admit" /\ o.kind = run.kind BY <1>1 DEF RunRec
  <2> QED BY <1>1, <2>1, <2>2, OnBlank DEF Blank
<1>4. CASE run.back = "rollback"
  <2> PICK r : r = IF bad THEN "incomplete" ELSE IF run.left THEN "left" ELSE "rolled_back" OBVIOUS
  <2>1. End(r) BY <1>4 DEF RestoreEnd
  <2> QED BY <1>1, <1>4, <2>1, OnEnd
<1> QED BY <1>2, <1>3, <1>4

\* What is on the box is what a run that drops its backup says.
LEMMA DropEndTell == ASSUME BoxInv, TellInv, run.pc = "drop", disk' = disk, list' = list, version' = version, manifest' = manifest, unit' = unit,
                            NEW marked \in BOOLEAN, NEW err \in BOOLEAN, DropEnd(marked, err)
                     PROVE  TellOn
<1>1. run \in RunRec /\ run # NoRun /\ log \in LogRec /\ Drops(run) /\ TellFits(run) BY AtWork DEF BoxInv, BoxTypes, Fits, RunFits, TellInv
<1>2. Found => FoundNext BY DEF Found, FoundNext, Unedited
<1>3. CASE run.back = "done"
  <2> PICK r : r = IF marked THEN "failed" ELSE "ok" OBVIOUS
  <2>1. End(r) BY <1>3 DEF DropEnd
  <2>2. manifest = run.target /\ version = run.target BY <1>1, <1>3 DEF Drops
  <2>3. run.target \in Versions /\ DOMAIN FilesOf[run.target] \subseteq Paths BY <1>3, Aimed
  <2>4. Placed(run.target, {}) /\ list = ListOf(run.target) BY <1>1, <1>3 DEF TellFits, Brings
  <2>5. run.target # None BY <2>3, Numbers DEF None
  <2>6. \A p \in DOMAIN FilesOf[run.target] : list[p] = {FilesOf[run.target][p]} BY <2>3, <2>4 DEF ListOf, Has
  <2>7. WholeNext BY <2>2, <2>4, <2>5, <2>6 DEF WholeNext, Placed, ListOf, Has
  <2> QED BY <1>1, <2>1, <2>7, OnEnd
<1>4. CASE run.back = "failed"
  <2>1. End("rolled_back") BY <1>4 DEF DropEnd
  <2>2. FoundNext BY <1>1, <1>2, <1>4 DEF TellFits, Returns
  <2> QED BY <1>1, <2>1, <2>2, OnEnd
<1>5. CASE run.back = "admit"
  <2> PICK o : o = [run EXCEPT !.pc = "admit"] OBVIOUS
  <2>1. run' = o /\ log' = log BY <1>5 DEF DropEnd, Goto
  <2>2. o.pc = "admit" /\ o.kind = run.kind BY <1>1 DEF RunRec
  <2> QED BY <1>1, <2>1, <2>2, OnBlank DEF Blank
<1>6. CASE run.back \in {"recover", "rollback"}
  <2>1. RestoreEnd(err) BY <1>6 DEF DropEnd
  <2>2. run.back = "rollback" => FoundNext BY <1>1, <1>2 DEF TellFits, Returns
  <2> QED BY <1>6, <2>1, <2>2, RestoreEndTell
<1> QED BY <1>1, <1>3, <1>4, <1>5, <1>6 DEF Drops, RunRec, Backs

\* The backup is dropped: its mark first, and then the folder.
LEMMA removeBackupTell == ASSUME BoxInv, TellInv, removeBackup PROVE TellOn
<1>1. /\ disk' = disk /\ list' = list /\ version' = version /\ manifest' = manifest /\ unit' = unit /\ Rest /\ run.pc = "drop" BY DEF removeBackup, box
<1>2. run # NoRun /\ TellFits(run) BY <1>1, AtWork DEF TellInv
<1>3. CASE run' = run /\ log' = log
  <2> PICK o : o = run OBVIOUS
  <2>1. BoxKept BY <1>1, RestBox
  <2>2. Found => Found' BY <2>1, FoundKept
  <2>3. run.back = "done" => DOMAIN FilesOf[run.target] \subseteq Paths BY <1>1, Aimed
  <2>4. o.back = "done" => Placed(o.target, {})' /\ list' = ListOf(o.target) BY <1>1, <1>2 DEF TellFits, Brings, Placed, Rest
  <2>5. TellFits(o)' BY <1>1, <1>2, <2>2, <2>4 DEF TellFits, Prepares, Returns, Undoes, Brings, Placed
  <2> QED BY <1>2, <1>3, <2>5, OnQuiet
<1>4. CASE DropEnd(FALSE, FALSE) BY <1>1, <1>4, DropEndTell
<1>5. CASE DropEnd(backup.mark = "complete", TRUE)
  <2> PICK m \in BOOLEAN : m = (backup.mark = "complete") OBVIOUS
  <2>1. DropEnd(m, TRUE) BY <1>5
  <2> QED BY <1>1, <2>1, DropEndTell
<1> QED BY <1>3, <1>4, <1>5 DEF removeBackup

\* What an update that is rolled back may count on.
LEMMA AtUndo == ASSUME BoxInv, FilesInv, TellInv, run.pc \in BackPcs
                PROVE  /\ run \in RunRec /\ run # NoRun /\ run.back \in {"recover", "rollback"} /\ TellFits(run)
                       /\ run.back = "rollback" => BackedUp /\ Complete
<1>1. run \in RunRec /\ run # NoRun /\ run.back \in {"recover", "rollback"} /\ TellFits(run) BY AtBack, AtWork DEF TellInv
<1>2. run.back = "rollback" => Complete BY DEF BoxInv, Fits, RunFits, Restores
<1>3. run.back = "rollback" => BackedUp BY <1>1 DEF TellFits, Returns, Undoes
<1> QED BY <1>1, <1>2, <1>3

\* The backup is read.
LEMMA readTell == ASSUME BoxInv, FilesInv, TellInv, readBackup PROVE TellOn
<1>1. WasKept /\ backup' = backup /\ run.pc = "r_read" BY RestKept DEF readBackup, box
<1>2. /\ run \in RunRec /\ run # NoRun /\ run.back \in {"recover", "rollback"} /\ (run.back = "rollback" => BackedUp /\ Complete) BY <1>1, AtUndo
<1>3. CASE RestoreEnd(TRUE) BY <1>1, <1>2, <1>3, RestoreEndTell
<1>4. CASE Goto(IF backup.mark = "complete" THEN "r_decide" ELSE "drop") /\ log' = log
  <2> PICK a : a = IF backup.mark = "complete" THEN "r_decide" ELSE "drop" OBVIOUS
  <2> PICK o : o = [run EXCEPT !.pc = a] OBVIOUS
  <2>1. run' = o /\ o.pc = a /\ o.kind = run.kind /\ o.back = run.back BY <1>2, <1>4 DEF RunRec, Goto
  <2>2. CASE run.back = "recover"
    <3>1. Blank(o) BY <2>1, <2>2 DEF Blank
    <3> QED BY <1>2, <1>4, <2>1, <3>1, OnBlank
  <2>3. CASE run.back = "rollback"
    <3>1. BackedUp' /\ a = "r_decide" BY <1>1, <1>2, <2>3, BackedKept DEF Complete
    <3>2. TellFits(o)' BY <2>1, <2>3, <3>1 DEF TellFits, Prepares, Returns, Undoes, Brings
    <3> QED BY <1>2, <1>4, <2>1, <3>2, OnQuiet
  <2> QED BY <1>2, <2>2, <2>3
<1> QED BY <1>3, <1>4 DEF readBackup

\* What is to be put back is decided: it is every path that is not as it was found.
LEMMA decideTell == ASSUME BoxInv, FilesInv, TellInv, putBackDecide PROVE TellOn
<1>1. WasKept /\ backup' = backup /\ disk' = disk /\ was' = was /\ log' = log /\ run.pc = "r_decide" BY RestKept DEF putBackDecide, box, Rest
<1>2. /\ run \in RunRec /\ run # NoRun /\ run.back \in {"recover", "rollback"} /\ (run.back = "rollback" => BackedUp) BY <1>1, AtUndo
<1>3. run.back = "rollback" => BackedUp' BY <1>1, <1>2, BackedKept
<1>4. CASE run' = [run EXCEPT !.pc = "r_units", !.bad = TRUE]
  <2> PICK o : o = [run EXCEPT !.pc = "r_units", !.bad = TRUE] OBVIOUS
  <2>1. o.pc = "r_units" /\ o.kind = run.kind /\ o.back = run.back /\ o.bad BY <1>2 DEF RunRec
  <2>2. TellFits(o)' BY <1>2, <1>3, <2>1 DEF TellFits, Prepares, Returns, Undoes, Brings
  <2> QED BY <1>1, <1>2, <1>4, <2>1, <2>2, OnQuiet
<1>5. CASE run' = [run EXCEPT !.pc = IF ToPut \cup ToRemove # {} THEN "r_stop" ELSE "r_put", !.puts = ToPut, !.removes = ToRemove, !.left = @ \/ ToLeave # {}]
  <2> PICK a : a = IF ToPut \cup ToRemove # {} THEN "r_stop" ELSE "r_put" OBVIOUS
  <2> PICK l : l = (run.left \/ ToLeave # {}) OBVIOUS
  <2> PICK ps : ps = ToPut OBVIOUS
  <2> PICK rs : rs = ToRemove OBVIOUS
  <2> PICK o : o = [run EXCEPT !.pc = a, !.puts = ps, !.removes = rs, !.left = l] OBVIOUS
  <2>1. run' = o BY <1>5
  <2>2. o.pc = a /\ o.kind = run.kind /\ o.back = run.back /\ o.puts = ps /\ o.removes = rs BY <1>2 DEF RunRec
  <2>3. CASE run.back = "recover"
    <3>1. Blank(o) BY <2>2, <2>3 DEF Blank
    <3> QED BY <1>1, <1>2, <2>1, <2>2, <3>1, OnBlank
  <2>4. CASE run.back = "rollback"
    <3>1. \A p \in ps : backup.files[p] # None BY DEF ToPut, Saved
    <3>2. \A p \in rs : backup.files[p] = None /\ Has(backup.new, p) BY DEF ToRemove, Saved, IsNew
    <3>3. ASSUME NEW p \in Unedited, p \notin ps \cup rs PROVE disk[p] = was.disk[p]
      <4>1. CanReturn(p) /\ p \in Paths BY <1>2, <2>4 DEF BackedUp, Unedited
      <4>2. SUFFICES ASSUME backup.files[p] = was.disk[p], disk[p] = None \/ IsNew(p), disk[p] # backup.files[p] PROVE FALSE BY <4>1 DEF CanReturn
      <4>3. CASE backup.files[p] # None BY <3>3, <4>1, <4>2, <4>3 DEF ToPut, Saved
      <4>4. CASE backup.files[p] = None BY <3>3, <4>1, <4>2, <4>4 DEF ToRemove, Saved
      <4> QED BY <4>3, <4>4
    <3>4. Unedited' = Unedited BY <1>1 DEF Unedited
    <3>5. Returns(o)' BY <1>1, <1>3, <2>2, <2>4, <3>1, <3>2, <3>3, <3>4 DEF Returns, Undoes, Has
    <3>6. TellFits(o)' BY <2>2, <3>5 DEF TellFits, Prepares, Brings
    <3> QED BY <1>1, <1>2, <2>1, <2>2, <3>6, OnQuiet
  <2> QED BY <1>2, <2>3, <2>4
<1> QED BY <1>4, <1>5 DEF putBackDecide

\* A putting back that goes on, of a recovery or of an update that is rolled back.
LEMMA OnBack == ASSUME BoxInv, FilesInv, TellInv, run.pc \in BackPcs, log' = log, NEW o, run' = o, o.pc \in BackPcs, o.kind = run.kind, o.back = run.back,
                       o.back = "rollback" => Returns(o)'
                PROVE  TellOn
<1>1. run # NoRun /\ run.back \in {"recover", "rollback"} BY AtUndo
<1>2. CASE run.back = "recover"
  <2>1. Blank(o) BY <1>2 DEF Blank
  <2> QED BY <1>1, <2>1, OnBlank
<1>3. CASE run.back = "rollback"
  <2>1. TellFits(o)' BY <1>3 DEF TellFits, Prepares, Brings
  <2> QED BY <1>1, <2>1, OnQuiet
<1> QED BY <1>1, <1>2, <1>3

\* The unit of the old version is stopped before its files are put back.
LEMMA putBackStopTell == ASSUME BoxInv, FilesInv, TellInv, putBackStop PROVE TellOn
<1>1. WasKept /\ backup' = backup /\ disk' = disk /\ was' = was /\ log' = log /\ run.pc = "r_stop" BY RestKept DEF putBackStop, Rest
<1>2. /\ run \in RunRec /\ TellFits(run) /\ (run.back = "rollback" => BackedUp) BY <1>1, AtUndo
<1>3. run.back = "rollback" => BackedUp' BY <1>1, <1>2, BackedKept
<1>4. PICK s \in BOOLEAN : run' = [run EXCEPT !.pc = "r_put", !.stuck = s]
  <2>1. CASE Goto("r_put")
    <3>1. run' = [run EXCEPT !.pc = "r_put", !.stuck = run.stuck] /\ run.stuck \in BOOLEAN BY <1>2, <2>1 DEF RunRec, Goto
    <3> QED BY <3>1
  <2>2. CASE run' = [run EXCEPT !.pc = "r_put", !.stuck = TRUE] BY <2>2
  <2> QED BY <2>1, <2>2 DEF putBackStop
<1> PICK o : o = [run EXCEPT !.pc = "r_put", !.stuck = s] OBVIOUS
<1>5. /\ run' = o /\ o.pc = "r_put" /\ o.kind = run.kind /\ o.back = run.back /\ o.puts = run.puts /\ o.removes = run.removes /\ o.bad = run.bad
  BY <1>2, <1>4 DEF RunRec
<1>6. Returns(run) BY <1>2 DEF TellFits
<1>7. Unedited' = Unedited BY <1>1 DEF Unedited
<1>8. o.back = "rollback" => Returns(o)' BY <1>1, <1>3, <1>5, <1>6, <1>7 DEF Returns, Undoes, Has
<1> QED BY <1>1, <1>5, <1>8, OnBack

\* One file is put back, or one that only the new version has is taken away: it is then as it was found.
LEMMA putBackTell == ASSUME BoxInv, FilesInv, TellInv, NEW p \in Paths, putBack(p) \/ putBackRemove(p) PROVE TellOn
<1>1. backup' = backup /\ was' = was /\ edits' = edits /\ log' = log /\ run.pc = "r_put" BY DEF putBack, putBackRemove, Rest
<1>2. /\ run \in RunRec /\ TellFits(run) /\ (run.back = "rollback" => BackedUp) /\ disk \in [Paths -> Bytes] BY <1>1, AtUndo DEF BoxInv, BoxTypes
<1>3. PICK ps \in SUBSET Paths, rs \in SUBSET Paths, b \in BOOLEAN :
          /\ run' = [run EXCEPT !.puts = ps, !.removes = rs, !.bad = b] /\ ps \subseteq run.puts /\ rs \subseteq run.removes
          /\ run.puts \cup run.removes \subseteq ps \cup rs \cup {p} /\ (run.bad => b) /\ p \in run.puts \cup run.removes
          /\ (disk' = disk /\ b) \/ (p \in run.puts /\ disk' = [disk EXCEPT ![p] = backup.files[p]]) \/ (p \in run.removes /\ disk' = [disk EXCEPT ![p] = None])
  <2>1. run.puts \in SUBSET Paths /\ run.removes \in SUBSET Paths /\ run.bad \in BOOLEAN BY <1>2 DEF RunRec
  <2>2. CASE putBack(p)
    <3>1. CASE disk' = [disk EXCEPT ![p] = backup.files[p]] /\ run' = [run EXCEPT !.puts = @ \ {p}]
      <4>1. run' = [run EXCEPT !.puts = run.puts \ {p}, !.removes = run.removes, !.bad = run.bad] BY <1>2, <3>1 DEF RunRec
      <4> run.puts \ {p} \in SUBSET Paths /\ run.removes \in SUBSET Paths /\ run.bad \in BOOLEAN BY <2>1
      <4> WITNESS run.puts \ {p} \in SUBSET Paths, run.removes \in SUBSET Paths, run.bad \in BOOLEAN
      <4> QED BY <2>2, <3>1, <4>1 DEF putBack
    <3>2. CASE disk' = disk /\ run' = [run EXCEPT !.puts = @ \ {p}, !.bad = TRUE]
      <4>1. run' = [run EXCEPT !.puts = run.puts \ {p}, !.removes = run.removes, !.bad = TRUE] BY <1>2, <3>2 DEF RunRec
      <4> run.puts \ {p} \in SUBSET Paths /\ run.removes \in SUBSET Paths /\ TRUE \in BOOLEAN BY <2>1
      <4> WITNESS run.puts \ {p} \in SUBSET Paths, run.removes \in SUBSET Paths, TRUE \in BOOLEAN
      <4> QED BY <2>2, <3>2, <4>1 DEF putBack
    <3> QED BY <2>2, <3>1, <3>2 DEF putBack
  <2>3. CASE putBackRemove(p)
    <3>1. CASE disk' = [disk EXCEPT ![p] = None] /\ run' = [run EXCEPT !.removes = @ \ {p}]
      <4>1. run' = [run EXCEPT !.puts = run.puts, !.removes = run.removes \ {p}, !.bad = run.bad] BY <1>2, <3>1 DEF RunRec
      <4> run.puts \in SUBSET Paths /\ run.removes \ {p} \in SUBSET Paths /\ run.bad \in BOOLEAN BY <2>1
      <4> WITNESS run.puts \in SUBSET Paths, run.removes \ {p} \in SUBSET Paths, run.bad \in BOOLEAN
      <4> QED BY <2>3, <3>1, <4>1 DEF putBackRemove
    <3>2. CASE disk' = disk /\ run' = [run EXCEPT !.removes = @ \ {p}, !.bad = TRUE]
      <4>1. run' = [run EXCEPT !.puts = run.puts, !.removes = run.removes \ {p}, !.bad = TRUE] BY <1>2, <3>2 DEF RunRec
      <4> run.puts \in SUBSET Paths /\ run.removes \ {p} \in SUBSET Paths /\ TRUE \in BOOLEAN BY <2>1
      <4> WITNESS run.puts \in SUBSET Paths, run.removes \ {p} \in SUBSET Paths, TRUE \in BOOLEAN
      <4> QED BY <2>3, <3>2, <4>1 DEF putBackRemove
    <3> QED BY <2>3, <3>1, <3>2 DEF putBackRemove
  <2> QED BY <2>2, <2>3
<1> PICK o : o = [run EXCEPT !.puts = ps, !.removes = rs, !.bad = b] OBVIOUS
<1>4. /\ run' = o /\ o.pc = "r_put" /\ o.kind = run.kind /\ o.back = run.back /\ o.puts = ps /\ o.removes = rs /\ o.bad = b BY <1>1, <1>2, <1>3 DEF RunRec
<1>5. ASSUME run.back = "rollback" PROVE Returns(o)'
  <2>1. /\ \A q \in run.puts : backup.files[q] # None
        /\ \A q \in run.removes : backup.files[q] = None /\ Has(backup.new, q)
        /\ run.bad \/ \A q \in Unedited \ (run.puts \cup run.removes) : disk[q] = was.disk[q]
    BY <1>1, <1>2, <1>5 DEF TellFits, Returns, Undoes
  <2>2. \A q \in Paths \ {p} : disk'[q] = disk[q] BY <1>2, <1>3
  <2>3. \A q \in Unedited : q \in Paths /\ InBackup(q) /\ CanReturn(q) BY <1>2, <1>5 DEF BackedUp, Unedited
  <2>4. p \in Unedited => backup.files[p] = was.disk[p] BY <1>3, <2>1, <2>3 DEF InBackup
  <2>5. (disk'[p] = disk[p] /\ b) \/ disk'[p] = backup.files[p] BY <1>2, <1>3, <2>1
  <2>6. \A q \in Paths : disk'[q] = disk[q] => (IsNew(q)' <=> IsNew(q)) BY <1>1 DEF IsNew, holds, Has, ListOf
  <2>7. Unedited' = Unedited /\ \A q \in Unedited : InBackup(q)' BY <1>1, <2>3 DEF Unedited, InBackup
  <2>8. \A q \in Unedited : CanReturn(q)' BY <1>1, <2>2, <2>3, <2>4, <2>5, <2>6 DEF CanReturn
  <2>9. BackedUp' BY <1>1, <1>2, <1>5, <2>7, <2>8 DEF BackedUp
  <2>10. b \/ \A q \in Unedited \ (ps \cup rs) : disk'[q] = was.disk[q] BY <1>3, <2>1, <2>2, <2>3, <2>4, <2>5
  <2> QED BY <1>1, <1>3, <1>4, <2>1, <2>7, <2>9, <2>10 DEF Returns, Undoes, Has
<1> QED BY <1>1, <1>4, <1>5, OnBack

\* The state is put back after the files.
LEMMA putBackStateTell == ASSUME BoxInv, FilesInv, TellInv, putBackState PROVE TellOn
<1>1. WasKept /\ backup' = backup /\ disk' = disk /\ was' = was /\ log' = log /\ run.pc \in {"r_put", "r_version", "r_list"} BY RestKept DEF putBackState, box, Rest
<1>2. /\ run \in RunRec /\ TellFits(run) /\ (run.back = "rollback" => BackedUp) BY <1>1, AtUndo
<1>3. run.back = "rollback" => BackedUp' BY <1>1, <1>2, BackedKept
<1>4. PICK a \in {"r_version", "r_list", "r_units"}, b \in BOOLEAN :
          run' = [run EXCEPT !.pc = a, !.bad = b] /\ (run.bad => b) /\ (run.pc = "r_put" => run.puts \cup run.removes = {})
  <2>1. run.bad \in BOOLEAN /\ run.stuck \in BOOLEAN BY <1>2 DEF RunRec
  <2>2. ASSUME NEW a, Goto(a) PROVE run' = [run EXCEPT !.pc = a, !.bad = run.bad] BY <1>2, <2>2 DEF Goto, RunRec
  <2>3. CASE run.pc = "r_put"
    <3>1. run.puts \cup run.removes = {} BY <2>3 DEF putBackState
    <3>2. Goto("r_units") \/ Goto("r_version") \/ run' = [run EXCEPT !.pc = "r_version", !.bad = TRUE] BY <2>3 DEF putBackState
    <3> QED BY <2>1, <2>2, <3>1, <3>2
  <2>4. CASE run.pc = "r_version"
    <3>1. Goto("r_list") \/ run' = [run EXCEPT !.pc = "r_list", !.bad = TRUE] BY <2>4 DEF putBackState
    <3> QED BY <2>1, <2>2, <2>4, <3>1
  <2>5. CASE run.pc = "r_list"
    <3>1. run' = [run EXCEPT !.pc = "r_units", !.bad = run.bad \/ run.stuck] \/ run' = [run EXCEPT !.pc = "r_units", !.bad = TRUE] BY <1>2, <2>5 DEF putBackState, RunRec
    <3>2. (run.bad \/ run.stuck) \in BOOLEAN BY <2>1
    <3> QED BY <2>5, <3>1, <3>2
  <2> QED BY <1>1, <2>3, <2>4, <2>5
<1> PICK o : o = [run EXCEPT !.pc = a, !.bad = b] OBVIOUS
<1>5. run' = o /\ o.pc = a /\ o.kind = run.kind /\ o.back = run.back /\ o.bad = b BY <1>2, <1>4 DEF RunRec
<1>6. run.back = "rollback" => b \/ \A p \in Unedited : disk[p] = was.disk[p] BY <1>1, <1>2, <1>4 DEF TellFits, Returns, Undoes
<1>7. Unedited' = Unedited BY <1>1 DEF Unedited
<1>8. o.back = "rollback" => Returns(o)' BY <1>1, <1>3, <1>4, <1>5, <1>6, <1>7 DEF Returns, Undoes
<1> QED BY <1>1, <1>4, <1>5, <1>8, OnBack

\* The units are loaded again, and settled as the backup says.
LEMMA unitsTell == ASSUME BoxInv, FilesInv, TellInv, restoreUnits \/ settleUnits PROVE TellOn
<1>1. /\ WasKept /\ backup' = backup /\ disk' = disk /\ list' = list /\ version' = version /\ manifest' = manifest /\ was' = was /\ edits' = edits
      /\ run.pc \in {"r_units", "r_start"} BY RestKept DEF restoreUnits, settleUnits, box, Rest
<1>2. /\ run \in RunRec /\ run # NoRun /\ run.back \in {"recover", "rollback"} /\ TellFits(run) /\ (run.back = "rollback" => BackedUp) /\ unit \in UnitRec /\ backup \in BackupRec
  BY <1>1, AtUndo DEF BoxInv, BoxTypes
<1>3. run.back = "rollback" => BackedUp' BY <1>1, <1>2, BackedKept
<1>4. run.back = "rollback" => run.bad \/ \A p \in Unedited : disk[p] = was.disk[p] BY <1>1, <1>2 DEF TellFits, Returns, Undoes
<1>5. Unedited' = Unedited BY <1>1 DEF Unedited
<1>6. CASE RestoreEnd(TRUE) BY <1>1, <1>2, <1>6, RestoreEndTell
<1>7. CASE restoreUnits
  <2>1. log' = log BY <1>7 DEF restoreUnits
  <2>2. PICK b \in BOOLEAN : run' = [run EXCEPT !.pc = "r_start", !.bad = b] /\ (run.bad => b)
    <3>1. run.bad \in BOOLEAN BY <1>2 DEF RunRec
    <3>2. Goto("r_start") => run' = [run EXCEPT !.pc = "r_start", !.bad = run.bad] BY <1>2 DEF Goto, RunRec
    <3> QED BY <1>7, <3>1, <3>2 DEF restoreUnits
  <2> PICK o : o = [run EXCEPT !.pc = "r_start", !.bad = b] OBVIOUS
  <2>3. run' = o /\ o.pc = "r_start" /\ o.kind = run.kind /\ o.back = run.back /\ o.bad = b BY <1>2, <2>2 DEF RunRec
  <2>4. o.back = "rollback" => Returns(o)' BY <1>1, <1>3, <1>4, <1>5, <2>2, <2>3 DEF Returns, Undoes
  <2> QED BY <1>1, <2>1, <2>3, <2>4, OnBack
<1>8. CASE /\ run.pc = "r_start" /\ ~run.bad /\ Goto("drop") /\ log' = log
           /\ unit' = [active |-> unit.active \/ backup.unit.active, enabled |-> unit.enabled \/ backup.unit.enabled]
  <2> PICK o : o = [run EXCEPT !.pc = "drop"] OBVIOUS
  <2>1. run' = o /\ o.pc = "drop" /\ o.kind = run.kind /\ o.back = run.back BY <1>2, <1>8 DEF RunRec, Goto
  <2>2. CASE run.back = "recover"
    <3>1. Blank(o) BY <2>1, <2>2 DEF Blank
    <3> QED BY <1>2, <1>8, <2>1, <3>1, OnBlank
  <2>3. CASE run.back = "rollback"
    <3>1. backup.version = backup.manifest /\ list = backup.list BY <1>1, <1>8, AtBack DEF PutsBack
    <3>2. manifest = backup.manifest /\ version = backup.version BY <1>8 DEF BoxInv, Fits, RunFits, Restores
    <3>3. backup.list = was.list /\ backup.version = was.version /\ (was.active => backup.unit.active \/ edits > 0) BY <1>2, <2>3 DEF BackedUp
    <3>4. unit'.active = (unit.active \/ backup.unit.active) BY <1>8
    <3>5. Found' BY <1>1, <1>4, <1>5, <1>8, <2>3, <3>1, <3>2, <3>3, <3>4 DEF Found
    <3>6. TellFits(o)' BY <2>1, <2>3, <3>5 DEF TellFits, Prepares, Returns, Undoes, Brings
    <3> QED BY <1>2, <1>8, <2>1, <3>6, OnQuiet
  <2> QED BY <1>2, <2>2, <2>3
<1>9. CASE settleUnits BY <1>6, <1>8, <1>9 DEF settleUnits
<1> QED BY <1>7, <1>9

\* A taking down: of a remove, or of an install that failed, which says nothing of what was found.
LEMMA OnDown == ASSUME BoxInv, TellInv, run.pc \in DownPcs, log' = log, NEW o, run' = o, o.pc \in DownPcs, o.kind = run.kind PROVE TellOn
<1>1. run # NoRun /\ Blank(o) BY AtWork DEF Blank
<1> QED BY <1>1, OnBlank

\* A taking down that is over: an install that is taken down does not say that it is done.
LEMMA TeardownEndTell == ASSUME BoxInv, FilesInv, TellInv, run.pc \in DownPcs, NEW bad \in BOOLEAN, TeardownEnd(bad) PROVE TellOn
<1>1. run \in RunRec /\ run.kind \in {"install", "remove"} /\ (run.kind = "install" => run.back = "rollback") BY AtDown
<1>2. run # NoRun /\ log \in LogRec BY AtWork DEF BoxInv, BoxTypes
<1>3. CASE run.back = "rollback"
  <2> PICK r : r = IF bad THEN "incomplete" ELSE "rolled_back" OBVIOUS
  <2>1. End(r) BY <1>3 DEF TeardownEnd
  <2> QED BY <1>1, <1>2, <2>1, OnEnd
<1>4. CASE run.back # "rollback" /\ (End("failed") \/ End("ok")) BY <1>1, <1>2, <1>4, OnEnd
<1>5. CASE run' = [run EXCEPT !.pc = "leftovers", !.todo = DOMAIN FilesOf[backup.new], !.bad = FALSE] /\ log' = log
  <2> PICK o : o = [run EXCEPT !.pc = "leftovers", !.todo = DOMAIN FilesOf[backup.new], !.bad = FALSE] OBVIOUS
  <2>1. o.pc = "leftovers" /\ o.kind = run.kind BY <1>1 DEF RunRec
  <2> QED BY <1>5, <2>1, OnDown
<1> QED BY <1>3, <1>4, <1>5 DEF TeardownEnd

\* Every step of a taking down.
LEMMA downTell == ASSUME BoxInv, FilesInv, TellInv, \/ teardownStop \/ teardownFilesEnd \/ teardownState \/ teardownStateFails \/ teardownReload \/ LeftoversEnd
                                                    \/ \E p \in Paths : teardownFile(p) \/ Leftover(p)
                  PROVE  TellOn
<1>1. run.pc \in DownPcs BY DEF teardownStop, teardownFilesEnd, teardownState, teardownStateFails, teardownReload, LeftoversEnd, teardownFile, Leftover
<1>2. run \in RunRec /\ run # NoRun /\ log \in LogRec BY <1>1, AtWork DEF BoxInv, BoxTypes
<1>3. ASSUME NEW bad \in BOOLEAN, TeardownEnd(bad) PROVE TellOn BY <1>1, <1>3, TeardownEndTell
<1>4. ASSUME NEW a \in DownPcs, Goto(a), log' = log PROVE TellOn
  <2> PICK o : o = [run EXCEPT !.pc = a] OBVIOUS
  <2>1. run' = o /\ o.pc = a /\ o.kind = run.kind BY <1>2, <1>4 DEF RunRec, Goto
  <2> QED BY <1>1, <1>4, <2>1, OnDown
<1>5. CASE teardownStop
  <2>1. CASE run' = [run EXCEPT !.pc = "t_files", !.todo = Listed(Doomed)] /\ log' = log
    <3> PICK o : o = [run EXCEPT !.pc = "t_files", !.todo = Listed(Doomed)] OBVIOUS
    <3>1. o.pc = "t_files" /\ o.kind = run.kind BY <1>2 DEF RunRec
    <3> QED BY <1>1, <2>1, <3>1, OnDown
  <2> QED BY <1>3, <1>5, <2>1 DEF teardownStop
<1>6. CASE teardownFilesEnd BY <1>3, <1>4, <1>6 DEF teardownFilesEnd
<1>7. CASE teardownState BY <1>4, <1>7 DEF teardownState
<1>8. CASE teardownStateFails \/ teardownReload BY <1>3, <1>8 DEF teardownStateFails, teardownReload
<1>9. CASE LeftoversEnd
  <2>1. run.kind = "remove" BY <1>9, AtDown DEF LeftoversEnd
  <2> PICK r : r = IF run.bad THEN "failed" ELSE "ok" OBVIOUS
  <2>2. End(r) BY <1>9 DEF LeftoversEnd
  <2> QED BY <1>2, <2>1, <2>2, OnEnd
<1>10. ASSUME NEW p \in Paths, teardownFile(p) \/ Leftover(p) PROVE TellOn
  <2>1. log' = log BY <1>10 DEF teardownFile, Leftover
  <2> PICK o : o = run' OBVIOUS
  <2>2. o.pc = run.pc /\ o.kind = run.kind
    <3>1. CASE teardownFile(p) BY <1>2, <3>1 DEF teardownFile, RunRec
    <3>2. CASE Leftover(p) BY <1>2, <3>2 DEF Leftover, RunRec
    <3> QED BY <1>10, <3>1, <3>2
  <2> QED BY <1>1, <2>1, <2>2, OnDown
<1> QED BY <1>5, <1>6, <1>7, <1>8, <1>9, <1>10

\* What happens beside a run: a kill, the owner, a release, and the beginning of one.
LEMMA asideTell == ASSUME BoxInv, FilesInv, TellInv, \/ Kill \/ OwnerStops \/ Release \/ (\E k \in Kinds : Begin(k))
                                                     \/ (\E p \in Paths, c \in {None, Other} : Edit(p, c)) \/ UNCHANGED vars
                   PROVE  TellOn
<1>1. run \in RunRec /\ TellFits(run) /\ disk \in [Paths -> Bytes] /\ was \in WasRec /\ unit \in UnitRec /\ edits \in Nat BY DEF BoxInv, BoxTypes, TellInv
<1>2. CASE Kill
  <2> PICK o : o = NoRun OBVIOUS
  <2>1. run' = o /\ Blank(o) /\ log' = log BY <1>2 DEF Kill, Blank, NoRun
  <2>2. TellFits(run)' BY <2>1, BlankTell, OfTell
  <2> QED BY <2>1, <2>2 DEF TellOn, KindOf, Says
<1>3. ASSUME NEW k \in Kinds, Begin(k) PROVE TellOn
  <2> PICK o : o = [NoRun EXCEPT !.kind = k, !.pc = "recover"] OBVIOUS
  <2>1. run' = o BY <1>3 DEF Begin
  <2>2. o.pc = "recover" /\ o.kind = k BY DEF NoRun
  <2>3. Blank(o) BY <2>2 DEF Blank
  <2>4. log'.kind = k /\ log'.result = "none" BY <1>3 DEF Begin
  <2>5. TellFits(run)' BY <2>1, <2>3, BlankTell, OfTell
  <2> QED BY <2>1, <2>2, <2>4, <2>5 DEF TellOn, KindOf, Says
<1>4. ASSUME BoxKept, backup' = backup, run' = run, log' = log PROVE TellOn
  <2> PICK o : o = run OBVIOUS
  <2>1. o.pc \in AimPcs \/ (o.pc = "drop" /\ o.back = "done") => DOMAIN FilesOf[o.target] \subseteq Paths BY Aimed
  <2>2. TellFits(o)' BY <1>1, <1>4, <2>1, TellKept
  <2>3. TellFits(run)' BY <1>4, <2>2, OfTell
  <2> QED BY <1>4, <2>3 DEF TellOn, KindOf, Says, TellInv
<1>5. CASE OwnerStops
  <2>1. WasKept /\ edits' > 0 BY <1>1, <1>5 DEF OwnerStops, WasKept
  <2> QED BY <1>4, <1>5, <2>1 DEF OwnerStops, BoxKept
<1>6. CASE Release \/ UNCHANGED vars
  <2>1. BoxKept /\ backup' = backup /\ run' = run /\ log' = log BY <1>6 DEF Release, vars, box, count, BoxKept, WasKept
  <2> QED BY <1>4, <2>1
<1>7. ASSUME NEW p \in Paths, NEW c \in {None, Other}, Edit(p, c) PROVE TellOn
  <2>1. /\ was'.list = was.list /\ was'.version = was.version /\ was'.disk = was.disk /\ was'.active = was.active /\ was'.edited = was.edited \cup {p}
    BY <1>1, <1>7 DEF Edit, WasRec
  <2>2. \A q \in Paths \ {p} : disk'[q] = disk[q] BY <1>1, <1>7 DEF Edit
  <2>3. edits' > 0 BY <1>1, <1>7 DEF Edit
  <2>4. WasKept BY <2>1, <2>2, <2>3 DEF WasKept
  <2> QED BY <1>4, <1>7, <2>4 DEF Edit, BoxKept
<1> QED BY <1>2, <1>3, <1>5, <1>6, <1>7

\* Every step keeps what a run knows of what it found, and says what is so.
LEMMA TellStep == ASSUME BoxInv, FilesInv, TellInv, [Next]_vars PROVE TellInv' /\ Says
<1>1. TellOn
  <2>1. CASE recoverUpdate \/ Admit \/ StepQuiet \/ Done \/ Unpack \/ (\E p \in Paths : Write(p)) \/ Record \/ stepVersion \/ stepManifest \/ stepStart
    BY <2>1, recoverTell, AdmitTell, QuietTell, DoneTell, UnpackTell, WriteTell, RecordTell, stateTell
  <2>2. CASE \/ Stage \/ stepBackup \/ backupDone \/ stepStop \/ SwapPutDone \/ SwapState \/ SwapFails
             \/ \E p \in Paths : SwapPut(p) \/ SwapDelete(p) \/ putBack(p) \/ putBackRemove(p)
    BY <2>2, StageTell, backupTell, stopTell, SwapPutDoneTell, SwapStateTell, SwapFailsTell, SwapPutTell, SwapDeleteTell, putBackTell
  <2>3. CASE removeBackup \/ readBackup \/ putBackDecide \/ putBackStop \/ putBackState \/ restoreUnits \/ settleUnits
    BY <2>3, removeBackupTell, readTell, decideTell, putBackStopTell, putBackStateTell, unitsTell
  <2>4. CASE \/ teardownStop \/ teardownFilesEnd \/ teardownState \/ teardownStateFails \/ teardownReload \/ LeftoversEnd
             \/ \E p \in Paths : teardownFile(p) \/ Leftover(p)
    BY <2>4, downTell
  <2>5. CASE Kill \/ OwnerStops \/ Release \/ (\E k \in Kinds : Begin(k)) \/ (\E p \in Paths, c \in {None, Other} : Edit(p, c)) \/ UNCHANGED vars
    BY <2>5, asideTell
  <2> QED BY <2>1, <2>2, <2>3, <2>4, <2>5 DEF Next, Step, Kinds
<1>2. edits' \in Nat
  <2>1. edits \in Nat BY DEF TellInv
  <2>2. edits' = edits \/ edits' = edits + 1
    <3>1. CASE OwnerStops \/ Release \/ Kill \/ (\E k \in Kinds : Begin(k)) \/ (\E p \in Paths, c \in {None, Other} : Edit(p, c)) \/ UNCHANGED vars
      BY <3>1 DEF OwnerStops, Release, Kill, Begin, Edit, vars, count
    <3>2. CASE recoverUpdate \/ Admit \/ StepQuiet \/ Done \/ Unpack \/ (\E p \in Paths : Write(p)) \/ Record \/ stepVersion \/ stepManifest \/ stepStart
      BY <3>2 DEF recoverUpdate, Admit, StepQuiet, Done, Unpack, Write, Record, stepVersion, stepManifest, stepStart, Rest
    <3>3. CASE \/ Stage \/ stepBackup \/ backupDone \/ stepStop \/ SwapPutDone \/ SwapState \/ SwapFails
               \/ \E p \in Paths : SwapPut(p) \/ SwapDelete(p) \/ putBack(p) \/ putBackRemove(p) \/ teardownFile(p) \/ Leftover(p)
      BY <3>3 DEF Stage, stepBackup, backupDone, stepStop, SwapPutDone, SwapState, SwapFails, SwapPut, SwapDelete, putBack, putBackRemove, teardownFile, Leftover, Rest
    <3>4. CASE \/ removeBackup \/ readBackup \/ putBackDecide \/ putBackStop \/ putBackState \/ restoreUnits \/ settleUnits
               \/ teardownStop \/ teardownFilesEnd \/ teardownState \/ teardownStateFails \/ teardownReload \/ LeftoversEnd
      BY <3>4 DEF removeBackup, readBackup, putBackDecide, putBackStop, putBackState, restoreUnits, settleUnits,
                  teardownStop, teardownFilesEnd, teardownState, teardownStateFails, teardownReload, LeftoversEnd, Rest
    <3> QED BY <3>1, <3>2, <3>3, <3>4 DEF Next, Step, Kinds
  <2> QED BY <2>1, <2>2
<1> QED BY <1>1, <1>2 DEF TellInv, TellOn, KindOf

\* A box on which nothing was installed yet has no run to say anything.
LEMMA TellBegin == ASSUME Init PROVE TellInv
<1> PICK o : o = NoRun OBVIOUS
<1>1. run = o /\ edits = 0 BY DEF Init
<1>2. Blank(o) BY DEF Blank, NoRun
<1> QED BY <1>1, <1>2, BlankTell DEF TellInv

\* What a run may count on of what it found: at every step of an update and of its undoing the backup
\* has what the update found wherever it may have changed it, and at every step of an install or an
\* update the files that are done are of its version (update.go swap, putBack; install.go unpack).
THEOREM TellInvariant == ASSUME Droppable PROVE Spec => []TellInv
<1>1. Init => TellInv BY TellBegin
<1>2. BoxInv /\ FilesInv /\ TellInv /\ [Next]_vars => TellInv' BY TellStep
<1> QED BY <1>1, <1>2, BoxInvariant, FilesInvariant, PTL DEF Spec

\* The result that a run writes is what it left on the box: an update that says that it was rolled back
\* left everything that nobody edited as it found it, and an install or an update that says that it is
\* done left every file of its version and named it, whatever failed before and whoever was at work.
THEOREM SaidIsSoHolds == ASSUME Droppable PROVE Spec => SaidIsSo
<1>1. BoxInv /\ FilesInv /\ TellInv /\ [Next]_vars => Says BY TellStep
<1>2. Says => \/ UNCHANGED vars
              \/ log.result = "none" /\ log'.result = "rolled_back" /\ log.kind = "update" =>
                    /\ list' = was.list /\ version' = was.version /\ manifest' = was.version
                    /\ was.active => unit'.active \/ edits > 0
                    /\ \A p \in Paths \ was.edited : disk'[p] = was.disk[p]
  BY DEF Says, FoundNext
<1>3. Says => \/ UNCHANGED vars
              \/ log.result = "none" /\ log'.result = "ok" /\ log.kind # "remove" =>
                    /\ version' = manifest' /\ manifest' # None
                    /\ \A p \in DOMAIN FilesOf[manifest'] : list'[p] = {FilesOf[manifest'][p]}
                    /\ \A p \in DOMAIN FilesOf[manifest'] \ was.edited : disk'[p] = FilesOf[manifest'][p]
                    /\ log.kind = "update" => list' = ListOf(manifest')
  BY DEF Says, WholeNext
<1>4. Spec => RolledBack BY <1>1, <1>2, BoxInvariant, FilesInvariant, TellInvariant, PTL DEF Spec, RolledBack
<1>5. Spec => OkIsWhole BY <1>1, <1>3, BoxInvariant, FilesInvariant, TellInvariant, PTL DEF Spec, OkIsWhole
<1> QED BY <1>4, <1>5 DEF SaidIsSo

===============================================================================
