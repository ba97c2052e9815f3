------------------------------ MODULE AutoUpdate ------------------------------
(* The automatic update of the distribution (pkg/autoupdate): an hourly check    *)
(* that installs a release once it is old enough, inside a window of the night,  *)
(* beside the owner's settings and button, a core that the update restarts, and  *)
(* a file that may not be written.                                               *)
(* The clock is the hour of the day; of an instant only its age is kept, up to   *)
(* a day, since a window is open for less than a day and nothing asks for more.  *)
EXTENDS Integers, FiniteSets

CONSTANTS Hours,            \* hours of a day
          Windows,          \* the windows that the owner may choose: [opens, closes]
          MaxRelease,       \* releases that come out
          MaxOwner,         \* changes of the owner
          MaxStops,         \* times the core stops on its own
          MaxUnsaved        \* writes of the file that fail

\* A window opens and closes at an hour of the day; the release that is installed is out.
ASSUME AutoUpdateAssumption == /\ Hours \in Nat \ {0} /\ Windows \subseteq [opens : 0 .. Hours - 1, closes : 0 .. Hours - 1]
                               /\ MaxRelease \in Nat \ {0} /\ MaxOwner \in Nat /\ MaxStops \in Nat /\ MaxUnsaved \in Nat

VARIABLES hour,             \* of the day
          age,              \* of each release that is out, at most a day
          current,          \* the installed release
          unit,             \* casaos-update: the release it installs, 0 when it does not run
          saved,            \* autoupdate.json
          core,             \* what the core is at: [pc, version, before], and whether this check is calm:
                            \* systemd, the releases and the apps answer, and nothing else changes the box
          due,              \* the check of this hour is still to come
          left,             \* [owner, stops, unsaved]
          tries,            \* units that were started by themselves for a release since the owner last resumed
          tonight           \* and in the window that is open, since it opened or was changed
updateVars == <<hour, age, current, unit, saved, core, due, left, tries, tonight>>

NoLast == [version |-> 0, age |-> 0, result |-> ""]
NoFailures == [version |-> 0, count |-> 0]
Idle == [pc |-> "idle", version |-> 0, before |-> NoLast, calm |-> FALSE]
latest == Cardinality(DOMAIN age)
tooYoung(v) == age[v] < Hours

\* The window that is open, by how many hours ago it opened; attempted in it is since it opened.
Since(w, h) == (h - w.opens) % Hours
Open(w, h) == Since(w, h) < (w.closes - w.opens) % Hours
\* Altered: an attempt of any night keeps the window shut.
earliestIsNow_AnyNight(s) == Open(s.window, hour) /\ s.last.version = 0
earliestIsNow(s) == Open(s.window, hour) /\ ~(s.last.version # 0 /\ s.last.age <= Since(s.window, hour))

\* The newest release that is old enough; none when the list could not be read.
pickSettled == LET old == {v \in DOMAIN age : ~tooYoung(v)} IN IF old = {} THEN 0 ELSE CHOOSE v \in old : \A o \in old : o <= v
\* What decide aims at: the latest, or while that is too young the settled one if it is newer than the installed.
Target(settled) == IF tooYoung(latest) /\ settled > current THEN settled ELSE latest
Paused(s, v) == s.failures.version = v /\ s.failures.count >= 2
decide(s, read, settled) ==
    /\ s.enabled /\ s.last.result # "running"
    /\ read /\ latest > current
    /\ ~Paused(s, Target(settled))
    /\ ~tooYoung(Target(settled))
    /\ earliestIsNow(s)

\* modify: the change is kept, or the file cannot be written and nothing is.
modify(change) == \/ saved' = change /\ UNCHANGED left
                  \/ left.unsaved > 0 /\ change # saved /\ UNCHANGED saved /\ left' = [left EXCEPT !.unsaved = @ - 1]
\* A failure is counted against its release; one of another release begins a new count.
fail(s) == [s EXCEPT !.last.result = "failed",
                     !.failures = [version |-> s.last.version, count |-> IF @.version = s.last.version THEN @.count + 1 ELSE 1]]
\* A running attempt is over once the unit is, by what is installed then; no answer of systemd is a unit that runs.
settleBody(answered) ==
    IF saved.last.result # "running" \/ unit # 0 \/ ~answered THEN saved
    ELSE IF current >= saved.last.version THEN [saved EXCEPT !.last.result = "succeeded", !.failures = NoFailures]
    ELSE fail(saved)

-------------------------------------------------------------------------------
updateInit == /\ hour = 0 /\ age = [v \in 1 .. 1 |-> Hours] /\ current = 1 /\ unit = 0
              /\ saved \in [enabled : {TRUE}, window : Windows, last : {NoLast}, failures : {NoFailures}]
              /\ core = [Idle EXCEPT !.pc = "down"] /\ due = FALSE
              /\ left \in [owner : 0 .. MaxOwner, stops : 0 .. MaxStops, unsaved : 0 .. MaxUnsaved]
              /\ tries = [v \in 1 .. MaxRelease |-> 0] /\ tonight = 0

\* Run settles when the core comes up.
Run_ == /\ core.pc = "down"
        /\ core' = Idle
        /\ \E answered \in BOOLEAN : modify(settleBody(answered))
        /\ UNCHANGED <<hour, age, current, unit, due, tries, tonight>>
\* Check: the attempt before is settled first.
settle == /\ core.pc = "idle" /\ due
          /\ due' = FALSE
          /\ \E answered, calm \in BOOLEAN :
               (calm => answered) /\ core' = [Idle EXCEPT !.pc = "settled", !.calm = calm] /\ modify(settleBody(answered))
          /\ UNCHANGED <<hour, age, current, unit, tries, tonight>>
\* The settings are read, and what is out; the release and the list may not be read.
Check == /\ core.pc = "settled"
         /\ \E read \in BOOLEAN, settled \in {0, pickSettled} :
              /\ core.calm => read /\ settled = pickSettled
              /\ core' = IF decide(saved, read, settled) THEN [core EXCEPT !.pc = "decided", !.version = Target(settled)] ELSE Idle
         /\ UNCHANGED <<hour, age, current, unit, saved, due, left, tries, tonight>>
\* Then systemd and the apps: one that runs, and one that does not answer, is busy.
StayAway == /\ core.pc = "decided" /\ core' = Idle /\ (core.calm => unit # 0)
            /\ UNCHANGED <<hour, age, current, unit, saved, due, left, tries, tonight>>
\* Altered: the attempt is not saved before the update is started.
start_Unsaved == /\ core.pc = "decided" /\ unit = 0
                 /\ core' = [core EXCEPT !.pc = "start", !.before = saved.last]
                 /\ UNCHANGED <<hour, age, current, unit, saved, due, left, tries, tonight>>
\* Nothing is busy: the attempt is saved. A file that cannot be written starts nothing.
start == /\ core.pc = "decided" /\ unit = 0
         /\ \/ /\ saved' = [saved EXCEPT !.last = [version |-> core.version, age |-> 0, result |-> "running"]]
               /\ core' = [core EXCEPT !.pc = "start", !.before = saved.last] /\ UNCHANGED left
            \/ left.unsaved > 0 /\ left' = [left EXCEPT !.unsaved = @ - 1] /\ core' = Idle /\ UNCHANGED saved
         /\ UNCHANGED <<hour, age, current, unit, due, tries, tonight>>
\* updateSystem: the unit is started; or the box is busy; or systemd-run fails, as it does when the unit is there.
updateSystem ==
    /\ core.pc = "start"
    /\ \/ /\ unit = 0 /\ unit' = core.version /\ core' = Idle
          /\ tries' = [tries EXCEPT ![core.version] = @ + 1] /\ tonight' = tonight + 1
       \/ (core.calm => unit # 0) /\ core' = [core EXCEPT !.pc = "busy"] /\ UNCHANGED <<unit, tries, tonight>>
       \/ (core.calm => unit # 0) /\ core' = [core EXCEPT !.pc = "failed"] /\ UNCHANGED <<unit, tries, tonight>>
    /\ UNCHANGED <<hour, age, current, saved, due, left>>
\* A busy box is no attempt: the one before is put back.
takeBack == /\ core.pc = "busy" /\ core' = Idle
            /\ modify(IF saved.last.result = "running" /\ saved.last.version = core.version THEN [saved EXCEPT !.last = core.before] ELSE saved)
            /\ UNCHANGED <<hour, age, current, unit, due, tries, tonight>>
cannotStart == /\ core.pc = "failed" /\ core' = Idle
               /\ modify(IF saved.last.result = "running" THEN fail(saved) ELSE saved)
               /\ UNCHANGED <<hour, age, current, unit, due, tries, tonight>>

\* The core stops, on its own or for the update.
Stop == /\ core.pc # "down" /\ core' = [Idle EXCEPT !.pc = "down"]
        /\ \/ left.stops > 0 /\ left' = [left EXCEPT !.stops = @ - 1]
           \/ unit # 0 /\ UNCHANGED left
        /\ UNCHANGED <<hour, age, current, unit, saved, due, tries, tonight>>
\* The installer of a unit ends: with its release or a newer one, or with what was there.
UnitEnds == /\ unit # 0 /\ unit' = 0
            /\ current' \in {current} \cup {v \in DOMAIN age : v >= unit /\ v > current}
            /\ UNCHANGED <<hour, age, saved, core, due, left, tries, tonight>>

Owner == left.owner > 0 /\ left' = [left EXCEPT !.owner = @ - 1]
Update(enabled, w, resume) ==
    /\ Owner
    /\ saved' = [saved EXCEPT !.enabled = enabled, !.window = w, !.failures = IF resume THEN NoFailures ELSE @]
    /\ saved' # saved
    /\ tonight' = IF w = saved.window THEN tonight ELSE 0
    /\ tries' = IF resume THEN [v \in DOMAIN tries |-> 0] ELSE tries
    /\ UNCHANGED <<hour, age, current, unit, core, due>>
\* The button of the dashboard starts the same unit, for the latest release.
Button == /\ Owner /\ unit = 0 /\ unit' = latest
          /\ UNCHANGED <<hour, age, current, saved, core, due, tries, tonight>>

Publish == /\ latest < MaxRelease
           /\ age' = [v \in 1 .. latest + 1 |-> IF v <= latest THEN age[v] ELSE 0]
           /\ UNCHANGED <<hour, current, unit, saved, core, due, left, tries, tonight>>
Older(n) == IF n < Hours THEN n + 1 ELSE n
\* An hour passes: the check of the one before is over, as it takes seconds.
Tick == /\ core.pc = "idle" /\ ~due
        /\ hour' = (hour + 1) % Hours /\ due' = TRUE
        /\ age' = [v \in DOMAIN age |-> Older(age[v])]
        /\ saved' = [saved EXCEPT !.last.age = IF saved.last.version = 0 THEN @ ELSE Older(@)]
        /\ core' = core
        /\ tonight' = IF Open(saved.window, hour') /\ Since(saved.window, hour') > 0 THEN tonight ELSE 0
        /\ UNCHANGED <<current, unit, left, tries>>

updateCore == Run_ \/ settle \/ Check \/ StayAway \/ start \/ updateSystem \/ takeBack \/ cannotStart
updateNext == \/ updateCore \/ Stop \/ UnitEnds \/ Publish \/ Tick \/ Button
              \/ \E enabled, resume \in BOOLEAN, w \in Windows : Update(enabled, w, resume)

\* The core and systemd go on, and a check that is calm comes in the window again and again.
calmCheck == settle /\ core'.calm /\ Open(saved.window, hour)
updateFair == /\ WF_updateVars(Tick) /\ WF_updateVars(updateCore) /\ WF_updateVars(UnitEnds) /\ SF_updateVars(calmCheck)
updateSpec == updateInit /\ [][updateNext]_updateVars /\ updateFair

-------------------------------------------------------------------------------
\* However the core stops, the file fails and the owner and the button come between: no release is
\* started by itself more than twice before the owner resumes it, and none twice in one opening of
\* the window (autoupdate.go:14-16, decide.go:123, autoupdate.go:189).
Restrained == tonight <= 1 /\ \A v \in DOMAIN tries : tries[v] <= 2
\* While it stays on, the box comes to have the latest release, or the release it aims at failed
\* twice (autoupdate.go:1-16).
Arrives == <>[]saved.enabled => []<>(current = latest \/ Paused(saved, Target(pickSettled)))
===============================================================================
