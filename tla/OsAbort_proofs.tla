--------------------------- MODULE OsAbort_proofs ---------------------------
(***************************************************************************)
(* Proofs about the call to stop an upgrade, for any number of requests,   *)
(* for each of the three kinds of run and for any number of runs.          *)
(***************************************************************************)
EXTENDS OsAbort, TLAPS

\* The list of each run holds blocks.
LEMMA ListType == ASSUME NEW r \in Runs PROVE BlockList(PhaseOf[r], {}) \in Seq(BlockIDs)
<1> USE DEF BlockIDs
<1>1. ReversibleBlocks \in Seq(BlockIDs)
  BY DEF ReversibleBlocks
<1>2. <<"minimal", "full", "prereboot">> \in Seq(BlockIDs)
  OBVIOUS
<1>3. ReversibleBlocks \o <<"minimal", "full", "prereboot">> \in Seq(BlockIDs)
  BY <1>1, <1>2
<1>4. CASE PhaseOf[r] = "run"
  BY <1>3, <1>4 DEF BlockList
<1>5. CASE PhaseOf[r] = "rehearse"
  BY <1>1, <1>5 DEF BlockList
<1>6. CASE PhaseOf[r] = "refresh"
  <2>1. BlockList(PhaseOf[r], {}) = <<"rcheck", "rsources", "rupgrade", "rdone">>
    BY <1>6 DEF BlockList
  <2>2. <<"rcheck", "rsources", "rupgrade", "rdone">> \in Seq(BlockIDs)
    OBVIOUS
  <2> QED BY <2>1, <2>2
<1> QED BY <1>4, <1>5, <1>6, PhaseAssumption DEF Runs

\* Every entry of the list of a run is a block.
LEMMA ListBlock == ASSUME run \in Runs, NEW i \in 1..Len(list) PROVE list[i] \in BlockIDs
BY ListType DEF list

\* The list of a run has a length.
LEMMA ListLen == ASSUME NEW r \in Runs PROVE Len(BlockList(PhaseOf[r], {})) \in Nat
BY ListType

\* The file a block leaves beside the log is one of the files of the backup.
LEMMA SideFileType == ASSUME NEW b PROVE SideFile(b) \subseteq BackupFiles
BY DEF SideFile, BackupFiles, SideFiles

\* A view that has read nothing is a view.
LEMMA NewViewType == NewView \in Views
BY DEF NewView, Views, BlockIDs, Classes

\* The first run is a run.
LEMMA NewRunType == 1 \in Runs
BY MaxRunsAssumption DEF Runs

\* The types hold at the start.
LEMMA TypeInit == Init => TypeOK
BY NewRunType, NewViewType, ListLen DEF Init, TypeOK, list

\* Every step keeps the types.
LEMMA TypeStep == TypeOK /\ [Next]_vars => TypeOK'
<1> SUFFICES ASSUME TypeOK, [Next]_vars PROVE TypeOK'
  OBVIOUS
<1> USE DEF TypeOK, core, unit, list
<1>1. CASE UnitStart
  BY <1>1 DEF UnitStart, Views
<1>2. CASE BlockStart
  <2>1. idx + 1 \in 1..Len(list) /\ list[idx + 1] \in BlockIDs
    BY <1>2, ListLen, ListBlock DEF BlockStart
  <2>2. [view EXCEPT !.lastStart = list[idx + 1]] \in Views
    BY <2>1 DEF Views
  <2>3. idx + 1 \in 0..Len(list)
    BY <2>1, ListLen
  <2> QED BY <1>2, <2>1, <2>2, <2>3 DEF BlockStart
<1>3. CASE ReadFlag
  <2>1. [view EXCEPT !.stop = "abort"] \in Views
    BY DEF Views, Classes
  <2>2. dpc' \in {"undo", "exec"} /\ view' \in Views
    BY <1>3, <2>1 DEF ReadFlag
  <2> QED BY <1>3, <2>2 DEF ReadFlag
<1>4. CASE BlockWrites
  BY <1>4, SideFileType DEF BlockWrites
<1>5. CASE BlockDone
  <2>1. block \in BlockIDs
    BY <1>5, ListBlock DEF BlockDone, block
  <2> QED BY <1>5, <2>1 DEF BlockDone, BackupFiles
<1>6. CASE BlockFails
  BY <1>6 DEF BlockFails, Views, Classes
<1>7. CASE Unwind
  BY <1>7 DEF Unwind, Views
<1>8. CASE Result
  BY <1>8 DEF Result, Views
<1>9. CASE UnitEnd
  BY <1>9 DEF UnitEnd, Views
<1>10. CASE Killed
  BY <1>10 DEF Killed
<1>11. CASE SettleUnwinds
  BY <1>11 DEF SettleUnwinds, Views
<1>12. CASE NextRun
  <2>1. run + 1 \in Runs
    BY <1>12, MaxRunsAssumption DEF NextRun, Runs
  <2> QED BY <1>12, <2>1, NewViewType, ListLen DEF NextRun
<1>13. CASE CoreRestart
  BY <1>13 DEF CoreRestart
<1>14. ASSUME NEW c \in Callers, Check(c) PROVE TypeOK'
  BY <1>14 DEF Check
<1>15. ASSUME NEW c \in Callers, WriteFlag(c) PROVE TypeOK'
  BY <1>15 DEF WriteFlag
<1>16. ASSUME NEW c \in Callers, Decide(c) PROVE TypeOK'
  BY <1>16 DEF Decide
<1>17. ASSUME NEW c \in Callers, StopUnit(c) PROVE TypeOK'
  BY <1>17 DEF StopUnit
<1>18. CASE UNCHANGED vars
  BY <1>18 DEF vars
<1> QED BY <1>1, <1>2, <1>3, <1>4, <1>5, <1>6, <1>7, <1>8, <1>9, <1>10, <1>11,
           <1>12, <1>13, <1>14, <1>15, <1>16, <1>17, <1>18 DEF Next, Driver, Core

\* Every variable keeps its type, whatever the driver, the requests and the
\* restarts of the core do.
THEOREM TypeCorrect == Spec => []TypeOK
BY TypeInit, TypeStep, PTL DEF Spec


-----------------------------------------------------------------------------
(***************************************************************************)
(* What keeps a taken call and the driver in step.  A request holds the    *)
(* flag of its run from the moment that it made it until it takes it back; *)
(* one request at most holds the flag of a run, so that nobody else        *)
(* removes it.  A driver that has begun a block has said so in the log.    *)
(***************************************************************************)
Holds(c) == cpc[c] \in {"flagged", "stop"} \/ answer[c] = "taken"

FlagHeld == \A c \in Callers : Holds(c) => flag[crun[c]]

HeldOnce == \A c, d \in Callers : Holds(c) /\ Holds(d) /\ crun[c] = crun[d] => c = d

LogFirst == dpc \in {"read", "exec"} => view.lastStart = list[idx]

StopTaken == \A c \in Callers : cpc[c] = "stop" => answer[c] = "taken"

NoFuture == \A c \in Callers : crun[c] <= run

IInv == /\ TypeOK
        /\ FlagHeld
        /\ HeldOnce
        /\ LogFirst
        /\ StopTaken
        /\ NoFuture
        /\ TakenStands

\* A block that may still be stopped is not the minimal upgrade and leaves neither of the files that
\* say it began.
LEMMA PastFiles == ASSUME NEW b, ~pastAbort(b)
                   PROVE  b # "minimal" /\ "begun" \notin SideFile(b) /\ "minimal" \notin SideFile(b)
BY DEF pastAbort, SideFile

\* The steps of the driver keep the inductive invariant.
LEMMA DriverStep == ASSUME IInv, Driver PROVE IInv'
<1>0. TypeOK'
  <2>1. [Next]_vars
    BY DEF Next
  <2> QED BY <2>1, TypeStep DEF IInv
<1>1. UNCHANGED core /\ UNCHANGED run
  BY DEF Driver, UnitStart, BlockStart, ReadFlag, BlockWrites, BlockDone, BlockFails,
         Unwind, Result, UnitEnd, Killed
<1>2. FlagHeld' /\ HeldOnce' /\ StopTaken' /\ NoFuture'
  BY <1>1 DEF IInv, FlagHeld, HeldOnce, StopTaken, NoFuture, Holds, core
<1>3. LogFirst'
  <2> USE DEF list, IInv, LogFirst, TypeOK
  <2>1. CASE BlockStart
    BY <2>1 DEF BlockStart, Views
  <2>2. CASE ReadFlag
    BY <2>2 DEF ReadFlag
  <2> QED BY <2>1, <2>2 DEF Driver, UnitStart, BlockWrites, BlockDone, BlockFails, Unwind,
             Result, UnitEnd, Killed
<1>4. TakenStands'
  <2> SUFFICES ASSUME NEW c \in Callers, answer[c] = "taken", crun[c] = run
               PROVE  ~InsidePast' /\ ~PNR(files)'
    BY <1>1 DEF TakenStands, core
  <2>1. flag[run] /\ ~InsidePast /\ ~PNR(files)
    BY DEF IInv, FlagHeld, Holds, TakenStands
  <2>2. CASE ReadFlag
    <3>1. dpc' = "undo" /\ files' = files
      BY <2>1, <2>2 DEF ReadFlag
    <3> QED BY <2>1, <3>1 DEF InsidePast, PNR
  <2>3. CASE BlockWrites
    <3>1. ~pastAbort(block)
      BY <2>1, <2>3 DEF BlockWrites, InsidePast
    <3> QED BY <2>1, <2>3, <3>1, PastFiles DEF list, BlockWrites, InsidePast, PNR, block
  <2>4. CASE BlockDone
    <3>1. ~pastAbort(block)
      BY <2>1, <2>4 DEF BlockDone, InsidePast
    <3>2. block # "begun"
      BY <2>4, ListBlock DEF list, IInv, TypeOK, BlockDone, block, BlockIDs
    <3> QED BY <2>1, <2>4, <3>1, <3>2, PastFiles DEF BlockDone, InsidePast, PNR
  <2>5. CASE Unwind
    BY <2>1, <2>5 DEF Unwind, InsidePast, PNR
  <2>6. CASE UnitStart \/ BlockStart \/ BlockFails \/ Result \/ UnitEnd \/ Killed
    BY <2>1, <2>6 DEF UnitStart, BlockStart, BlockFails, Result, UnitEnd, Killed,
                      InsidePast, PNR
  <2> QED BY <2>2, <2>3, <2>4, <2>5, <2>6 DEF Driver
<1> QED BY <1>0, <1>2, <1>3, <1>4 DEF IInv

\* The steps of a call to stop keep the inductive invariant.
LEMMA CallerStep == ASSUME IInv, NEW c \in Callers,
                           Check(c) \/ WriteFlag(c) \/ Decide(c) \/ StopUnit(c)
                    PROVE  IInv'
<1>0. TypeOK'
  <2>1. [Next]_vars
    BY DEF Next, Core
  <2> QED BY <2>1, TypeStep DEF IInv
<1> USE DEF IInv, TypeOK
<1>1. CASE Check(c)
  <2>1. /\ UNCHANGED <<flag, unit>>
        /\ crun' = [crun EXCEPT ![c] = run]
        /\ cpc[c] = "idle"
        /\ \A d \in Callers : d # c => cpc'[d] = cpc[d] /\ answer'[d] = answer[d]
        /\ cpc'[c] \in {"idle", "checked"} /\ answer'[c] # "taken"
    BY <1>1 DEF Check
  <2>2. ~Holds(c)' /\ \A d \in Callers : d # c => (Holds(d)' <=> Holds(d)) /\ crun'[d] = crun[d]
    BY <2>1 DEF Holds
  <2>3. FlagHeld' /\ HeldOnce'
    BY <2>1, <2>2 DEF FlagHeld, HeldOnce
  <2>4. StopTaken' /\ NoFuture' /\ LogFirst'
    BY <2>1 DEF list, StopTaken, NoFuture, LogFirst, unit, Runs
  <2>5. TakenStands'
    BY <2>1 DEF list, TakenStands, InsidePast, block, PNR, unit
  <2> QED BY <1>0, <2>3, <2>4, <2>5
<1>2. CASE WriteFlag(c)
  <2>1. CASE flag[crun[c]]
    <3>1. /\ UNCHANGED <<flag, unit, crun>>
          /\ \A d \in Callers : d # c => cpc'[d] = cpc[d] /\ answer'[d] = answer[d]
          /\ cpc'[c] = "idle" /\ answer'[c] = "again"
      BY <1>2, <2>1 DEF WriteFlag
    <3>2. ~Holds(c)' /\ \A d \in Callers : d # c => (Holds(d)' <=> Holds(d))
      BY <3>1 DEF Holds
    <3>3. FlagHeld' /\ HeldOnce'
      BY <3>1, <3>2 DEF FlagHeld, HeldOnce
    <3>4. StopTaken' /\ NoFuture' /\ LogFirst'
      BY <3>1 DEF list, StopTaken, NoFuture, LogFirst, unit
    <3>5. TakenStands'
      BY <3>1 DEF list, TakenStands, InsidePast, block, PNR, unit
    <3> QED BY <1>0, <3>3, <3>4, <3>5
  <2>2. CASE ~flag[crun[c]]
    <3>1. /\ UNCHANGED <<unit, crun, answer>>
          /\ flag' = [flag EXCEPT ![crun[c]] = TRUE]
          /\ \A d \in Callers : d # c => cpc'[d] = cpc[d]
          /\ cpc'[c] = "flagged"
      BY <1>2, <2>2 DEF WriteFlag
    <3>2. \A d \in Callers : Holds(d) => crun[d] # crun[c]
      BY <2>2 DEF FlagHeld
    <3>3. \A d \in Callers : d # c => (Holds(d)' <=> Holds(d))
      BY <3>1 DEF Holds
    <3>4. FlagHeld'
      BY <3>1, <3>2, <3>3 DEF FlagHeld
    <3>5. HeldOnce'
      BY <3>1, <3>2, <3>3 DEF HeldOnce
    <3>6. StopTaken' /\ NoFuture' /\ LogFirst'
      BY <3>1 DEF list, StopTaken, NoFuture, LogFirst, unit
    <3>7. TakenStands'
      BY <3>1 DEF list, TakenStands, InsidePast, block, PNR, unit
    <3> QED BY <1>0, <3>4, <3>5, <3>6, <3>7
  <2> QED BY <2>1, <2>2
<1>3. CASE Decide(c)
  <2>0. UNCHANGED <<unit, crun>> /\ cpc[c] = "flagged" /\ Holds(c)
    BY <1>3 DEF Decide, Holds
  <2>1. CASE answer'[c] = "taken"
    <3>1. /\ Abortable(crun[c]) /\ UNCHANGED flag
          /\ cpc' = [cpc EXCEPT ![c] = "stop"] /\ answer' = [answer EXCEPT ![c] = "taken"]
      BY <1>3, <2>1 DEF Decide
    <3>2. Holds(c)' /\ \A d \in Callers : d # c => (Holds(d)' <=> Holds(d))
      BY <3>1 DEF Holds
    <3>3. FlagHeld' /\ HeldOnce'
      BY <2>0, <3>1, <3>2 DEF FlagHeld, HeldOnce
    <3>4. StopTaken' /\ NoFuture' /\ LogFirst'
      BY <2>0, <3>1 DEF list, StopTaken, NoFuture, LogFirst, unit
    <3>5. ~InsidePast /\ ~PNR(files) /\ crun[c] = run
      BY <3>1 DEF list, Abortable, InsidePast, LogFirst, block
    <3>6. TakenStands'
      BY <2>0, <3>1, <3>5 DEF list, TakenStands, InsidePast, block, PNR, unit
    <3> QED BY <1>0, <3>3, <3>4, <3>6
  <2>2. CASE answer'[c] # "taken"
    <3>1. /\ flag' = [flag EXCEPT ![crun[c]] = FALSE]
          /\ cpc' = [cpc EXCEPT ![c] = "idle"] /\ answer' = [answer EXCEPT ![c] = "refused"]
      BY <1>3, <2>2 DEF Decide
    <3>2. ~Holds(c)' /\ \A d \in Callers : d # c => (Holds(d)' <=> Holds(d))
      BY <3>1 DEF Holds
    <3>3. \A d \in Callers : d # c /\ Holds(d) => crun[d] # crun[c]
      BY <2>0 DEF HeldOnce
    <3>4. FlagHeld' /\ HeldOnce'
      BY <2>0, <3>1, <3>2, <3>3 DEF FlagHeld, HeldOnce
    <3>5. StopTaken' /\ NoFuture' /\ LogFirst'
      BY <2>0, <3>1 DEF list, StopTaken, NoFuture, LogFirst, unit
    <3>6. TakenStands'
      BY <2>0, <3>1 DEF list, TakenStands, InsidePast, block, PNR, unit
    <3> QED BY <1>0, <3>4, <3>5, <3>6
  <2> QED BY <2>1, <2>2
<1>4. CASE StopUnit(c)
  <2>1. /\ UNCHANGED <<run, idx, files, view, flag, crun, answer>>
        /\ cpc[c] = "stop" /\ cpc' = [cpc EXCEPT ![c] = "idle"]
        /\ dpc' = dpc \/ dpc' = "gone"
    BY <1>4 DEF StopUnit
  <2>2. \A d \in Callers : Holds(d)' <=> Holds(d)
    BY <2>1 DEF Holds, StopTaken
  <2>3. FlagHeld' /\ HeldOnce'
    BY <2>1, <2>2 DEF FlagHeld, HeldOnce
  <2>4. StopTaken' /\ NoFuture' /\ LogFirst'
    BY <2>1 DEF list, StopTaken, NoFuture, LogFirst
  <2>5. TakenStands'
    BY <2>1 DEF list, TakenStands, InsidePast, block, PNR
  <2> QED BY <1>0, <2>3, <2>4, <2>5
<1> QED BY <1>1, <1>2, <1>3, <1>4

\* Every step keeps the inductive invariant.
LEMMA Inductive == IInv /\ [Next]_vars => IInv'
<1> SUFFICES ASSUME IInv, [Next]_vars PROVE IInv'
  OBVIOUS
<1>0. TypeOK'
  BY TypeStep DEF IInv
<1> USE DEF IInv, TypeOK
<1>1. CASE Driver
  BY <1>1, DriverStep
<1>2. CASE SettleUnwinds
  <2>1. UNCHANGED <<core, run, dpc, idx>> /\ dpc = "gone" /\ files' = {}
    BY <1>2 DEF SettleUnwinds, Lost
  <2>2. FlagHeld' /\ HeldOnce' /\ StopTaken' /\ NoFuture' /\ LogFirst'
    BY <2>1 DEF list, FlagHeld, HeldOnce, StopTaken, NoFuture, LogFirst, Holds, core
  <2>3. TakenStands'
    BY <2>1 DEF TakenStands, InsidePast, PNR
  <2> QED BY <1>0, <2>2, <2>3
<1>3. CASE NextRun
  <2>1. UNCHANGED core /\ run' = run + 1 /\ dpc' = "queued" /\ files' = {}
    BY <1>3 DEF NextRun
  <2>2. FlagHeld' /\ HeldOnce' /\ StopTaken' /\ LogFirst'
    BY <2>1 DEF list, FlagHeld, HeldOnce, StopTaken, LogFirst, Holds, core
  <2>3. NoFuture'
    BY <2>1 DEF NoFuture, core, Runs
  <2>4. TakenStands'
    BY <2>1 DEF TakenStands, InsidePast, PNR
  <2> QED BY <1>0, <2>2, <2>3, <2>4
<1>4. CASE CoreRestart
  <2>1. UNCHANGED <<unit, flag, crun>> /\ \A d \in Callers : cpc'[d] = "idle" /\ answer'[d] = "none"
    BY <1>4 DEF CoreRestart
  <2>2. FlagHeld' /\ HeldOnce' /\ StopTaken' /\ NoFuture' /\ LogFirst' /\ TakenStands'
    BY <2>1 DEF list, FlagHeld, HeldOnce, StopTaken, NoFuture, LogFirst, TakenStands, Holds, unit
  <2> QED BY <1>0, <2>2
<1>5. CASE UNCHANGED vars
  BY <1>0, <1>5 DEF list, vars, FlagHeld, HeldOnce, StopTaken, NoFuture, LogFirst, TakenStands,
                    Holds, InsidePast, block, PNR
<1> QED BY <1>1, <1>2, <1>3, <1>4, <1>5, CallerStep DEF Next, Core

\* The inductive invariant holds at the start.
LEMMA Initial == Init => IInv
BY TypeInit DEF list, Init, IInv, FlagHeld, HeldOnce, StopTaken, NoFuture, LogFirst, TakenStands,
                Holds, InsidePast

\* The inductive invariant always holds.
LEMMA Always == Spec => []IInv
BY Initial, Inductive, PTL DEF Spec

\* A call that was taken is final in its run, for any number of requests, in
\* each kind of run and however many runs follow each other: the handshake of
\* the flag and the log needs no lock.
THEOREM CallIsFinal == Spec => []TakenStands
BY Always, PTL DEF IInv

\* A call never cuts dpkg short while one run is all there is: the request that
\* stops the unit does not find it inside a block past the point of abort.
THEOREM UnitSpared == ASSUME MaxRuns = 1 PROVE Spec => []NeverCutShort
<1>1. IInv => NeverCutShort
  <2> SUFFICES ASSUME IInv, NEW c \in Callers, cpc[c] = "stop" PROVE ~InsidePast
    BY DEF NeverCutShort
  <2>1. crun[c] = 1 /\ run = 1
    BY DEF IInv, TypeOK, Runs
  <2> QED BY <2>1 DEF IInv, StopTaken, TakenStands
<1> QED BY <1>1, Always, PTL
=============================================================================
