--------------------------- MODULE OsStart_proofs ---------------------------
(***************************************************************************)
(* However many starts there are, the run whose unit runs keeps the        *)
(* pointer, and systemd-run is called for one run at a time.               *)
(*                                                                         *)
(* UnitStands does not carry itself: a start that is taken back writes the *)
(* pointer, to the run that was before it.  What keeps it off a run that   *)
(* goes on is that the starts that may still be taken back never have the  *)
(* latest run as the one before them (Behind), nor the same one twice      *)
(* (Apiece), and that a run whose systemd-run is being called is the       *)
(* latest (Launched).                                                      *)
(*                                                                         *)
(* That a start which is alone keeps apart from the module assistant is    *)
(* carried by its flag (AloneInv): it is up from the opening of the run    *)
(* until its unit is gone, although the loop drops a flag that no run      *)
(* claims, from a look that may be older than the start.                   *)
(***************************************************************************)
EXTENDS OsStart, TLAPS

Pending == {r \in Starts : pc[r] \in {"apps", "prepare", "abandon"}}

\* A request that has not begun has no run, and no start has it before it.
Fresh == \A r \in Starts : pc[r] = "idle" =>
             pointer # r /\ unit # r /\ \A q \in Starts : prev[q] # r

Behind == \A r \in Pending : prev[r] = None \/ pointer # prev[r]

Apiece == \A r, q \in Pending : r # q => prev[r] = None \/ prev[r] # prev[q]

Launched == \A r \in Starts : pc[r] \in {"run", "failed"} =>
                pointer = r /\ log[r] = "attempt" /\ launching > 0 /\ unit = None

UnitBegun == unit # None => pc[unit] = "done"

IInv == TypeOK /\ Fresh /\ Behind /\ Apiece /\ Launched /\ UnitBegun /\ UnitStands

-----------------------------------------------------------------------------

\* In the first state no start has begun.
LEMMA InitInv == Init => IInv
  BY StartsAssumption
     DEF Init, IInv, TypeOK, Fresh, Behind, Apiece, Launched, UnitBegun, UnitStands, Pending,
         Places, Words, Runs, NoLook

\* What a step that leaves the starts, the pointer and the unit alone leaves of the invariant.
\* Only the flag, the look of the loop, the module assistant and the lost starts move.
LEMMA AsideKeepsInv ==
    ASSUME IInv, TypeOK', UNCHANGED <<pc, prev, log, pointer, launching, unit>>
    PROVE  IInv'
  BY DEF IInv, Fresh, Behind, Apiece, Launched, UnitBegun, UnitStands, Pending

\* Every step leaves the types as they are.
LEMMA TypeStep == ASSUME IInv, [Next]_vars PROVE TypeOK'
<1> USE StartsAssumption DEF IInv, TypeOK, Places, Words, Runs
<1>1. CASE UNCHANGED vars
  BY <1>1 DEF vars
<1>2. ASSUME NEW r \in Starts, StartStep(r) PROVE TypeOK'
  <2>1. CASE Open(r)        BY <2>1 DEF Open, Goto, Write
  <2>2. CASE OpenFails(r)   BY <2>2 DEF OpenFails, Goto
  <2>3. CASE Apps(r)        BY <2>3 DEF Apps, Goto
  <2>4. CASE Prepare(r)     BY <2>4 DEF Prepare, Goto
  <2>5. CASE SystemdRun(r)  BY <2>5 DEF SystemdRun, Goto, Launched
  <2>6. CASE StartFailed(r) BY <2>6 DEF StartFailed, Goto, Write, Launched
  <2>7. CASE Clear(r)       BY <2>7 DEF Clear, Goto
  <2>8. CASE Abandon(r)     BY <2>8 DEF Abandon, Goto, Write
  <2>9. QED BY <1>2, <2>1, <2>2, <2>3, <2>4, <2>5, <2>6, <2>7, <2>8 DEF StartStep
<1>3. ASSUME NEW r \in Starts, Close(r) \/ UnitEnd(r) \/ Lose(r) \/ LoseAttempt(r) PROVE TypeOK'
  BY <1>3 DEF Close, UnitEnd, Lose, LoseAttempt, Write
<1>4. ASSUME NEW r \in Starts, OpenCut(r) PROVE TypeOK'
  BY <1>4 DEF OpenCut, Restarted, NoLook
<1>5. CASE CoreCrash BY <1>5 DEF CoreCrash, Restarted, NoLook
<1>6. CASE SettleRead BY <1>6 DEF SettleRead, Holds
<1>7. CASE KeepFlag BY <1>7 DEF KeepFlag, NoLook
<1>8. CASE DropStrayFlag BY <1>8 DEF DropStrayFlag
<1>9. CASE ModuleLock \/ ModuleLook \/ ModuleEnd BY <1>9 DEF ModuleLock, ModuleLook, ModuleEnd
<1>10. QED BY <1>1, <1>2, <1>3, <1>4, <1>5, <1>6, <1>7, <1>8, <1>9 DEF Next

\* A start that opens its run puts it before every one that may be taken back.
LEMMA OpenKeepsInv == ASSUME IInv, TypeOK', NEW r \in Starts, Open(r) PROVE IInv'
<1> USE StartsAssumption DEF IInv, TypeOK, Open, Goto, Write, Pending
<1>1. Fresh' BY DEF Fresh, UnitStands
<1>2. Behind' BY DEF Fresh, Behind
<1>3. Apiece' BY DEF Behind, Apiece
<1>4. Launched'
  \* a call of systemd-run that has not returned would have kept the start out
  BY DEF Launched, Admitted
<1>5. UnitBegun' BY DEF UnitBegun, Fresh
<1>6. UnitStands'
  \* the run of a unit holds the machine, so that there is none
  BY DEF UnitStands, Admitted, BlocksStart, Holds
<1>7. QED BY <1>1, <1>2, <1>3, <1>4, <1>5, <1>6

\* A start that is taken back leaves a run that goes on alone, and puts the pointer where no
\* other start that may be taken back would.
LEMMA AbandonKeepsInv == ASSUME IInv, TypeOK', NEW r \in Starts, Abandon(r) PROVE IInv'
<1> USE StartsAssumption DEF IInv, TypeOK, Abandon, Goto, Write, Pending
<1>1. Fresh' BY DEF Fresh
<1>2. Behind' BY DEF Behind, Apiece
<1>3. Apiece' BY DEF Apiece
<1>4. Launched'
  <2> SUFFICES ASSUME NEW q \in Starts, pc'[q] \in {"run", "failed"}
               PROVE  pointer' = q /\ log'[q] = "attempt" /\ launching' > 0 /\ unit' = None
    BY DEF Launched
  <2>1. q # r /\ pointer = q /\ log[q] = "attempt" /\ launching > 0 /\ unit = None BY DEF Launched
  <2>2. pointer' = pointer BY <2>1 DEF Behind
  <2>3. QED BY <2>1, <2>2
<1>5. UnitBegun' BY DEF UnitBegun
<1>6. UnitStands'
  <2> SUFFICES ASSUME unit # None PROVE pointer' = unit /\ log'[unit] = "attempt"
    BY DEF UnitStands
  <2>1. unit \in Starts /\ unit # r /\ pointer = unit /\ log[unit] = "attempt"
    BY DEF UnitStands, UnitBegun, Runs
  <2>2. pointer' = pointer BY <2>1 DEF Behind
  <2>3. QED BY <2>1, <2>2
<1>7. QED BY <1>1, <1>2, <1>3, <1>4, <1>5, <1>6

\* A start whose attempt is written is the latest run, and no other one is being launched.
LEMMA PrepareKeepsInv == ASSUME IInv, TypeOK', NEW r \in Starts, Prepare(r) PROVE IInv'
<1> USE StartsAssumption DEF IInv, TypeOK, Prepare, Goto, Pending
<1>1. Fresh' BY DEF Fresh
<1>2. Behind' BY DEF Behind
<1>3. Apiece' BY DEF Apiece
<1>4. Launched' BY DEF Launched
<1>5. UnitBegun' BY DEF UnitBegun, Runs
<1>6. UnitStands' BY DEF UnitStands, Runs
<1>7. QED BY <1>1, <1>2, <1>3, <1>4, <1>5, <1>6

\* The steps of a start between and after those leave the pointer alone.
LEMMA LaunchKeepsInv ==
    ASSUME IInv, TypeOK', NEW r \in Starts,
           \/ OpenFails(r) \/ Apps(r) \/ SystemdRun(r) \/ StartFailed(r) \/ Clear(r)
    PROVE  IInv'
<1> USE StartsAssumption DEF IInv, TypeOK, Goto, Pending
<1>1. CASE OpenFails(r) \/ Apps(r) \/ Clear(r)
  <2> USE <1>1 DEF OpenFails, Apps, Clear
  <2>1. Fresh' BY DEF Fresh
  <2>2. Behind' BY DEF Behind
  <2>3. Apiece' BY DEF Apiece
  <2>4. Launched' BY DEF Launched
  <2>5. UnitBegun' BY DEF UnitBegun, Runs
  <2>6. UnitStands' BY DEF UnitStands
  <2>7. QED BY <2>1, <2>2, <2>3, <2>4, <2>5, <2>6
<1>2. CASE SystemdRun(r)
  BY <1>2 DEF SystemdRun, Fresh, Behind, Apiece, Launched, UnitBegun, UnitStands
<1>3. CASE StartFailed(r)
  BY <1>3 DEF StartFailed, Write, Fresh, Behind, Apiece, Launched, UnitBegun, UnitStands
<1>4. QED BY <1>1, <1>2, <1>3

\* A run that is closed, or whose unit ends or never began, is not one that is being launched.
LEMMA EndKeepsInv ==
    ASSUME IInv, TypeOK', NEW r \in Starts, Close(r) \/ UnitEnd(r) \/ LoseAttempt(r)
    PROVE  IInv'
<1> USE StartsAssumption DEF IInv, TypeOK, Write, Pending
<1>1. CASE Close(r)
  BY <1>1 DEF Close, Fresh, Behind, Apiece, Launched, UnitBegun, UnitStands
<1>2. CASE UnitEnd(r)
  BY <1>2 DEF UnitEnd, Fresh, Behind, Apiece, Launched, UnitBegun, UnitStands
<1>3. CASE LoseAttempt(r)
  BY <1>3 DEF LoseAttempt, Fresh, Behind, Apiece, Launched, UnitBegun, UnitStands
<1>4. QED BY <1>1, <1>2, <1>3

\* A core that is restarted has no start that may be taken back, and none that launches.
LEMMA CrashKeepsInv == ASSUME IInv, TypeOK', Restarted PROVE IInv'
<1> USE StartsAssumption DEF IInv, TypeOK, Restarted, Pending, Runs
<1>1. \A r \in Starts : pc'[r] \in {"idle", "done"} /\ (pc'[r] = "idle" => pc[r] = "idle")
  OBVIOUS
<1>2. Fresh' BY <1>1 DEF Fresh
<1>3. Behind' /\ Apiece' /\ Launched' BY <1>1 DEF Behind, Apiece, Launched
<1>4. UnitBegun' BY DEF UnitBegun
<1>5. UnitStands' BY DEF UnitStands
<1>6. QED BY <1>2, <1>3, <1>4, <1>5

\* The invariant is kept by every step.
LEMMA StepInv == ASSUME IInv, [Next]_vars PROVE IInv'
<1>1. TypeOK' BY TypeStep
<1>2. CASE UNCHANGED vars BY <1>1, <1>2, AsideKeepsInv DEF vars
<1>3. ASSUME NEW r \in Starts, StartStep(r) PROVE IInv'
  BY <1>1, <1>3, OpenKeepsInv, AbandonKeepsInv, PrepareKeepsInv, LaunchKeepsInv DEF StartStep
<1>4. ASSUME NEW r \in Starts, Close(r) \/ UnitEnd(r) \/ LoseAttempt(r) PROVE IInv'
  BY <1>1, <1>4, EndKeepsInv
<1>5. ASSUME NEW r \in Starts, Lose(r) PROVE IInv'
  BY <1>1, <1>5, AsideKeepsInv DEF Lose
<1>6. ASSUME NEW r \in Starts, OpenCut(r) PROVE IInv'
  BY <1>1, <1>6, CrashKeepsInv DEF OpenCut
<1>7. CASE CoreCrash BY <1>1, <1>7, CrashKeepsInv DEF CoreCrash
<1>8. CASE SettleRead \/ KeepFlag \/ DropStrayFlag
  BY <1>1, <1>8, AsideKeepsInv DEF SettleRead, KeepFlag, DropStrayFlag
<1>9. CASE ModuleLock \/ ModuleLook \/ ModuleEnd
  BY <1>1, <1>9, AsideKeepsInv DEF ModuleLock, ModuleLook, ModuleEnd
<1>10. QED BY <1>2, <1>3, <1>4, <1>5, <1>6, <1>7, <1>8, <1>9 DEF Next

\* The types of the state, for every set of starts.
THEOREM TypeCorrect == Spec => []TypeOK
<1>1. IInv => TypeOK BY DEF IInv
<1>2. QED BY InitInv, StepInv, <1>1, PTL DEF Spec

\* However many starts are made at once, and wherever each waits between its locks: the run
\* whose unit runs keeps the pointer (osUpgradeAbandonLocked, osUpgradeOpenRun).
THEOREM UnitKeepsPointer == Spec => []UnitStands
<1>1. IInv => UnitStands BY DEF IInv
<1>2. QED BY InitInv, StepInv, <1>1, PTL DEF Spec

\* systemd-run is called for one run at a time, and it is the latest (launchPrepareLocked and
\* the count osUpgradeLaunching that osUpgradeOpenRun looks at).
THEOREM LaunchesApart == Spec => []OneLaunch
<1>1. IInv => OneLaunch BY DEF IInv, OneLaunch, Launched
<1>2. QED BY InitInv, StepInv, <1>1, PTL DEF Spec

-----------------------------------------------------------------------------
(* The module assistant, while there is one start and it is not lost. *)

Begun(r) == pc[r] # "idle"
Alone == lost = {} /\ \A r, q \in Starts : Begun(r) /\ Begun(q) => r = q

\* The flag is up from the opening of the run to the end of its unit, and a run of the assistant
\* that looked before is over by then.
FlagUp == flag # None /\ module # "work"
Opening == \A r \in Starts : pc[r] \in {"apps", "prepare"} => pointer = r /\ log[r] = "opened"
Shielded == /\ \A r \in Starts : pc[r] \in {"apps", "prepare", "run", "failed"} => FlagUp
            /\ unit # None => FlagUp
AloneInv == Alone => Opening /\ Shielded

\* A start that is the only one was the only one before: none is forgotten, and no lost one comes back.
LEMMA AloneBefore == ASSUME IInv, Next, Alone' PROVE Alone
<1>1. lost \subseteq lost'
  BY DEF Next, StartStep, Open, OpenFails, Apps, Prepare, SystemdRun, StartFailed, Clear, Abandon, Close, UnitEnd, Lose,
         LoseAttempt, OpenCut, SettleRead, KeepFlag, DropStrayFlag, CoreCrash, Restarted, ModuleLock, ModuleLook, ModuleEnd
<1>2. \A r \in Starts : Begun(r) => Begun(r)'
  <2>1. CASE UNCHANGED pc BY <2>1 DEF Begun
  <2>2. CASE Restarted BY <2>2 DEF Restarted, Begun
  <2>3. CASE \E r \in Starts : StartStep(r)
    <3>1. PICK r \in Starts : StartStep(r) BY <2>3
    <3>2. \E place \in Places \ {"idle"} : Goto(r, place)
      BY <3>1 DEF StartStep, Open, OpenFails, Apps, Prepare, SystemdRun, StartFailed, Clear, Abandon, Places
    <3>3. QED BY <3>2 DEF Goto, Begun, IInv, TypeOK, Places
  <2>4. QED
    BY <2>1, <2>2, <2>3 DEF Next, Close, UnitEnd, Lose, LoseAttempt, OpenCut, SettleRead, KeepFlag, DropStrayFlag, CoreCrash,
       ModuleLock, ModuleLook, ModuleEnd
<1>3. QED BY <1>1, <1>2 DEF Alone

\* The only start there is, by where it is; it is then the one whose unit runs.
LEMMA OnlyOne ==
    ASSUME IInv, Alone, NEW r \in Starts, Begun(r)
    PROVE  /\ unit # None => unit = r /\ pc[r] = "done" /\ pointer = r /\ log[r] = "attempt"
           /\ \A q \in Starts : q # r => pc[q] = "idle"
  BY DEF IInv, Alone, Begun, UnitBegun, UnitStands, TypeOK, Runs

\* Every step keeps the flag up for the only start.
LEMMA AloneStep == ASSUME IInv, AloneInv, Next PROVE AloneInv'
<1> SUFFICES ASSUME Alone' PROVE Opening' /\ Shielded' BY DEF AloneInv
<1>1. Alone /\ lost = {} /\ lost' = {} BY AloneBefore DEF Alone
<1>2. Opening /\ Shielded BY <1>1 DEF AloneInv
<1>3. TypeOK /\ UnitBegun /\ UnitStands /\ Launched /\ None \notin Starts BY StartsAssumption DEF IInv
<1>4. ASSUME NEW r \in Starts, Open(r) PROVE Opening' /\ Shielded'
  <2>1. \A q \in Starts : q # r => pc[q] = "idle" /\ pc'[q] = "idle"
    BY <1>3, <1>4 DEF Open, Goto, Alone, Begun, TypeOK
  <2>2. unit = None BY <1>3, <1>4 DEF Open, Admitted, BlocksStart, Holds, UnitStands, TypeOK, Runs
  <2>3. pc'[r] = "apps" /\ log'[r] = "opened" /\ pointer' = r /\ flag' = r /\ module' = "idle" /\ unit' = None
    BY <1>3, <1>4, <2>2 DEF Open, Goto, Write, Admitted, TypeOK
  <2>4. QED BY <1>3, <2>1, <2>3 DEF Opening, Shielded, FlagUp
<1>5. ASSUME NEW r \in Starts, OpenFails(r) \/ Apps(r) PROVE Opening' /\ Shielded'
  <2>1. CASE Apps(r) BY <1>2, <1>3, <2>1 DEF Apps, Goto, Opening, Shielded, FlagUp, TypeOK
  <2>2. CASE OpenFails(r)
    <3>1. \A q \in Starts : q # r => pc'[q] = "idle" BY <1>3, <2>2 DEF OpenFails, Goto, Alone, Begun, TypeOK
    <3>2. unit = None BY <1>3, <2>2 DEF OpenFails, Admitted, BlocksStart, Holds, UnitStands, TypeOK, Runs
    <3>3. pc'[r] = "done" /\ unit' = None BY <1>3, <2>2, <3>2 DEF OpenFails, Goto, TypeOK
    <3>4. QED BY <3>1, <3>3 DEF Opening, Shielded
  <2>3. QED BY <1>5, <2>1, <2>2
<1>6. ASSUME NEW r \in Starts, Prepare(r) \/ SystemdRun(r) PROVE Opening' /\ Shielded'
  <2>1. Begun(r) /\ FlagUp BY <1>2, <1>6 DEF Prepare, SystemdRun, Begun, Shielded
  <2>2. FlagUp' BY <1>6, <2>1 DEF Prepare, SystemdRun, FlagUp
  <2>3. \A q \in Starts : q # r => pc'[q] = "idle" BY <1>1, <1>3, <1>6, <2>1, OnlyOne DEF Prepare, SystemdRun, Goto, TypeOK
  <2>4. pc'[r] \notin {"apps", "prepare"} BY <1>3, <1>6 DEF Prepare, SystemdRun, Goto, TypeOK
  <2>5. QED BY <2>2, <2>3, <2>4 DEF Opening, Shielded
<1>7. ASSUME NEW r \in Starts, StartFailed(r) \/ Clear(r) \/ Abandon(r) PROVE Opening' /\ Shielded'
  <2>1. Begun(r) BY <1>7 DEF StartFailed, Clear, Abandon, Begun
  <2>2. unit = None BY <1>1, <1>7, <2>1, OnlyOne DEF StartFailed, Clear, Abandon
  <2>3. \A q \in Starts : q # r => pc'[q] = "idle" BY <1>1, <1>3, <1>7, <2>1, OnlyOne DEF StartFailed, Clear, Abandon, Goto, TypeOK
  <2>4. pc'[r] \in {"clear", "done"} /\ unit' = None BY <1>3, <1>7, <2>2 DEF StartFailed, Clear, Abandon, Goto, TypeOK
  <2>5. QED BY <2>3, <2>4 DEF Opening, Shielded
<1>8. ASSUME NEW r \in Starts, Close(r) PROVE Opening' /\ Shielded'
  \* a run that is on its way, or whose unit runs, is not closed
  <2>1. pc[r] \notin {"apps", "prepare", "run", "failed"} /\ unit = None
    BY <1>1, <1>2, <1>3, <1>8 DEF Close, Opening, Launched, UnitStands, TypeOK, Runs
  <2>2. \A q \in Starts : pc[q] \in {"apps", "prepare", "run", "failed"} => q = r
    BY <1>2, <1>3, <1>8 DEF Close, Opening, Launched
  <2>3. QED BY <1>8, <2>1, <2>2 DEF Close, Opening, Shielded
<1>9. ASSUME NEW r \in Starts, UnitEnd(r) PROVE Opening' /\ Shielded'
  <2>1. pc[r] = "done" /\ r # None BY <1>3, <1>9 DEF UnitEnd, UnitBegun
  <2>2. \A q \in Starts : q # r => pc[q] = "idle" BY <1>1, <2>1, OnlyOne DEF Begun
  <2>3. QED BY <1>9, <2>1, <2>2 DEF UnitEnd, Opening, Shielded
<1>10. ASSUME NEW r \in Starts, Lose(r) PROVE Opening' /\ Shielded' BY <1>1, <1>10 DEF Lose
<1>11. ASSUME NEW r \in Starts, LoseAttempt(r) PROVE Opening' /\ Shielded'
  BY <1>2, <1>3, <1>11 DEF LoseAttempt, Write, Opening, Shielded, FlagUp, TypeOK
<1>12. ASSUME NEW r \in Starts, OpenCut(r) PROVE Opening' /\ Shielded'
  <2>1. unit = None BY <1>3, <1>12 DEF OpenCut, Admitted, BlocksStart, Holds, UnitStands, TypeOK, Runs
  <2>2. QED BY <1>12, <2>1 DEF OpenCut, Restarted, Opening, Shielded
<1>13. CASE CoreCrash BY <1>2, <1>13 DEF CoreCrash, Restarted, Opening, Shielded, FlagUp
<1>14. CASE KeepFlag
  <2>1. ASSUME FlagUp, (\E r \in Starts : pc[r] \in {"apps", "prepare", "run", "failed"}) \/ unit # None PROVE FlagUp'
    <3>1. pointer # None /\ Holds(pointer)
      BY <1>1, <1>2, <1>3, <2>1 DEF Opening, Launched, UnitStands, Holds, TypeOK, Runs
    <3>2. flag' # None BY <1>14, <2>1, <3>1 DEF KeepFlag, FlagUp
    <3>3. QED BY <1>14, <2>1, <3>2 DEF KeepFlag, FlagUp
  <2>2. QED BY <1>2, <1>14, <2>1 DEF KeepFlag, Opening, Shielded
<1>15. CASE DropStrayFlag
  <2>1. unit = None /\ \A r \in Starts : pc[r] \notin {"apps", "prepare", "run", "failed"}
    BY <1>2, <1>3, <1>15 DEF DropStrayFlag, Opening, Launched, UnitStands
  <2>2. QED BY <1>15, <2>1 DEF DropStrayFlag, Opening, Shielded
<1>16. CASE SettleRead \/ ModuleLock \/ ModuleLook \/ ModuleEnd
  BY <1>2, <1>16 DEF SettleRead, ModuleLock, ModuleLook, ModuleEnd, Opening, Shielded, FlagUp
<1>17. QED
  BY <1>4, <1>5, <1>6, <1>7, <1>8, <1>9, <1>10, <1>11, <1>12, <1>13, <1>14, <1>15, <1>16 DEF Next, StartStep

\* The flag is up for the only start, in every reachable state.
THEOREM FlagShields == Spec => []AloneInv
<1>1. Init => AloneInv BY DEF Init, AloneInv, Opening, Shielded
<1>2. IInv /\ AloneInv /\ [Next]_vars => AloneInv'
  <2>1. SUFFICES ASSUME IInv, AloneInv, [Next]_vars PROVE AloneInv' OBVIOUS
  <2>2. CASE UNCHANGED vars BY <2>1, <2>2 DEF vars, AloneInv, Alone, Begun, Opening, Shielded, FlagUp
  <2>3. QED BY <2>1, <2>2, AloneStep
<1>3. QED BY <1>1, <1>2, InitInv, StepInv, PTL DEF Spec

\* While no second start was made and none was slower than StartLost, a run of the module assistant and a unit of the
\* upgrade do not change packages at the same time: "the run sees the flag, or this sees the run" (begin.go:40).
THEOREM AssistantApart == Spec => []ApartAlone
<1>1. AloneInv => ApartAlone BY DEF AloneInv, Alone, Begun, Shielded, FlagUp, ApartAlone, Apart
<1>2. QED BY <1>1, FlagShields, PTL
=============================================================================
