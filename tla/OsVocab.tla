------------------------------ MODULE OsVocab ------------------------------
(***************************************************************************)
(* The words that the core and the unit of an operating system upgrade     *)
(* share (pkg/osrun/vocab.go), and what each of them means: the phases a   *)
(* unit can be started with, the blocks of each phase, the point of no     *)
(* return, the classes of a stop and what a stop of each class allows.     *)
(*                                                                         *)
(* A backup folder is the set of the marker files in it: a block b that    *)
(* ended left the file of its name, so the set holds b itself; the files   *)
(* that a block writes on its way are "begun" (begun-upgrade, just before  *)
(* apt may change a package in the minimal upgrade), "rbegun"              *)
(* (begun-rupgrade, the same for a refresh), "apt-orig" (the copy of the   *)
(* sources, taken before they are rewritten) and "timers-stopping".        *)
(***************************************************************************)
EXTENDS Integers, Sequences, FiniteSets

Phases == {"refresh", "rehearse", "run", "recover", "verify", "unwind"}

RunKinds == {"refresh", "hop", "rehearsal"}

BlockIDs == {"verify", "timers", "snapshot", "sources", "download", "minimal",
             "full", "prereboot", "after", "forward", "rcheck", "rsources",
             "rupgrade", "rdone"}

\* Classes of a stop that say something different to the reducer. busy and
\* network share a behaviour, and so do the nine that only the owner repairs.
Classes == {"network", "apt_failed", "disk", "plan", "guard", "integrity", "abort"}

\* The files a block leaves on its way, besides the one of its own name.
SideFiles == {"begun", "rbegun", "apt-orig", "timers-stopping"}

BackupFiles == BlockIDs \cup SideFiles

\* Files.PNR: packages are being or have been changed.
PNR(files) == "begun" \in files \/ "minimal" \in files

\* FirstMissing: the first block of the irreversible half with no done file.
FirstMissing(files) ==
    CASE "minimal" \notin files   -> "minimal"
      [] "minimal" \in files /\ "full" \notin files -> "full"
      [] {"minimal", "full"} \subseteq files /\ "prereboot" \notin files -> "prereboot"
      [] OTHER -> ""

ReversibleBlocks == <<"verify", "timers", "snapshot", "sources", "download">>

\* BlockList: what a driver is asked to run for a phase. Nothing for an
\* unwind, and nothing for a repair of a hop whose three blocks are done.
BlockList(phase, files) ==
    CASE phase = "refresh"  -> <<"rcheck", "rsources", "rupgrade", "rdone">>
      [] phase = "rehearse" -> ReversibleBlocks
      [] phase = "run"      -> ReversibleBlocks \o <<"minimal", "full", "prereboot">>
      [] phase = "verify"   -> <<"after">>
      [] phase = "recover"  ->
            CASE FirstMissing(files) = ""          -> << >>
              [] FirstMissing(files) = "prereboot" -> <<"prereboot">>
              [] FirstMissing(files) = "full"      -> <<"forward", "full", "prereboot">>
              [] OTHER -> <<"forward", "minimal", "full", "prereboot">>
      [] OTHER -> << >>

\* pastAbort: the blocks that a run cannot be called off in.
pastAbort(id) ==
    id \in {"minimal", "full", "prereboot", "after", "forward", "rupgrade", "rdone"}

\* ClassBehavior: whether the owner can go on after a stop of the class, and
\* the first wave of automatic repairs that may (0: none may).
Resumable(class) == class \in Classes \ {"plan", "guard", "integrity"}

Wave(class) ==
    CASE class = "network"    -> 1
      [] class = "apt_failed" -> 2
      [] OTHER                -> 0

Retryable(class, wave) == Wave(class) # 0 /\ wave >= Wave(class)

\* phaseFits: whether a run of this kind takes an attempt of this phase next.
phaseFits(kind, phase, first) ==
    CASE kind = "refresh"   -> (phase = "refresh" /\ first) \/ (phase = "unwind" /\ ~first)
      [] kind = "rehearsal" -> (phase = "rehearse" /\ first) \/ (phase = "unwind" /\ ~first)
      [] kind = "hop"       -> (phase = "run" /\ first)
                               \/ (~first /\ phase \in {"recover", "verify", "unwind"})
      [] OTHER -> FALSE

\* resultOfPhase: the word of a unit that a phase can end with.
resultOfPhase(kind, phase) ==
    CASE kind = "REFRESH_DONE"    -> phase = "refresh"
      [] kind = "REHEARSAL_READY" -> phase = "rehearse"
      [] kind \in {"REBOOT_PENDING", "REBOOT_NOT_NEEDED"} -> phase \in {"run", "recover"}
      [] kind = "VERIFY_DONE"     -> phase = "verify"
      [] OTHER -> FALSE
=============================================================================
