------------------------------- MODULE DockerRun -------------------------------
(* The update of Docker's packages from the page: the plan that the owner sees  *)
(* and confirms (service/system_package_docker_update.go, pkg/dockerpkg), the   *)
(* start that makes it again, and the script of the unit that carries it out    *)
(* (service/system_package_docker_script.go). dpkg drops the hold of what it    *)
(* unpacks, so the unit puts back the holds that it saw. At any moment the      *)
(* owner may hold, release or install a package, the repository may bring a     *)
(* newer version, and the unit may be killed.                                   *)
EXTENDS Integers, Sequences, FiniteSets

CONSTANTS Engine,    \* names of the engine's packages
          Foreign,   \* names of other packages that a new engine may need
          MaxOwner,  \* how often the owner or the repository steps in
          MaxLost    \* how often the unit is killed
ASSUME DockerAssumption == Engine \cap Foreign = {} /\ {MaxOwner, MaxLost} \subseteq Nat

Packages == Engine \cup Foreign
Versions == 1 .. 3      \* 0: not installed

VARIABLES dpkg,     \* the packages: version and hold
          offer,    \* the version of the engine in the repository
          needs,    \* what each version of the engine needs that is not the engine's
          drops,    \* versions of the engine that cannot be beside a package of another
          page,     \* the plan that the owner has before his eyes
          du,       \* the words the unit was given
          pc,       \* where the start and its unit are
          hold,     \* variables of the script: held_start, install_ran, holds_back
          marks,    \* the markers of the log
          sent, lost,
          box       \* history: the box at the start of the unit, the holds of the second look, what the owner did
dVars == <<dpkg, offer, needs, drops, page, du, pc, hold, marks, sent, lost, box>>

Present(d) == {p \in Packages : d[p].ver # 0}
Held(d) == {p \in Present(d) : d[p].held}
NoPlan == [packages |-> {}, held |-> {}]
NoWords == [plan |-> NoPlan, pins |-> {}, names |-> {}, held |-> {}, flag |-> FALSE]
NoHold == [start |-> {}, ran |-> FALSE, back |-> FALSE, rc |-> "none", why |-> "none"]

DInit == /\ dpkg \in [Packages -> [ver : {0, 1}, held : BOOLEAN]]
         /\ \A p \in Packages : dpkg[p].ver = IF p \in Engine THEN 1 ELSE 0
         /\ \A p \in Foreign : ~dpkg[p].held
         /\ offer = 2 /\ needs \in [{2, 3} -> {{}, Foreign}] /\ drops \in {{}, {3}}
         /\ page = NoPlan /\ du = NoWords /\ pc = "idle" /\ hold = NoHold /\ marks = <<>> /\ sent = 0 /\ lost = 0
         /\ box = [dpkg |-> dpkg, look |-> {}, changed |-> {}, own |-> {}, lifted |-> {}]

-------------------------------------------------------------------------------
\* What apt would install for the pins or the names it is given; it goes past a hold
\* only with the flag, and fails otherwise.
Wanted(ver) == {p \in Engine \cap Present(dpkg) : dpkg[p].ver < ver}
Pulled(ver) == IF Wanted(ver) = {} THEN {} ELSE {p \in needs[ver] : dpkg[p].ver < ver}
Inst(ver) == {[name |-> p, cur |-> dpkg[p].ver, cand |-> ver, new |-> p \notin Present(dpkg)] : p \in Wanted(ver) \cup Pulled(ver)}
Removed(ver) == IF Wanted(ver) # {} /\ ver \in drops THEN Foreign \cap Present(dpkg) ELSE {}
SimFails(flag, ver) == ~flag /\ \E p \in Wanted(ver) \cup Pulled(ver) : p \in Held(dpkg)

IsEngineName(p) == p \in Engine
\* An upgrade of a package that is not the engine's offends; a package that is new does not.
offending(pkg) == ~pkg.new /\ ~IsEngineName(pkg.name)
Offending(plan, removed) == removed \cup {pkg.name : pkg \in {q \in plan : offending(q)}}
Pins(plan) == {[name |-> pkg.name, cand |-> pkg.cand] : pkg \in {q \in plan : ~q.new /\ ~offending(q)}}
Names(plan) == {pkg.name : pkg \in {q \in plan : ~offending(q)}}
heldForeign(plan) == {pkg.name : pkg \in {q \in plan : ~IsEngineName(q.name) /\ dpkg[q.name].held}}

enginePlan == Inst(offer)
\* The refusals in their order, and the plan otherwise; its number is made of what it
\* changes and of the holds it goes past.
preflightRefused(allowHeld) ==
    LET held == Held(dpkg) \cap Engine
    IN  \/ held # {} /\ ~allowHeld
        \/ SimFails(held # {}, offer) \/ Offending(enginePlan, Removed(offer)) # {}
        \/ held # {} /\ heldForeign(enginePlan) # {}
        \/ Pins(enginePlan) = {}
dockerUpdatePreflight(allowHeld) ==
    IF preflightRefused(allowHeld) THEN NoPlan ELSE [packages |-> enginePlan, held |-> Held(dpkg) \cap Engine]

Check == /\ pc = "idle" /\ page' = dockerUpdatePreflight(TRUE) /\ page' # page
         /\ UNCHANGED <<dpkg, offer, needs, drops, du, pc, hold, marks, sent, lost, box>>

\* The words of the unit; the log is begun with the line that queues it.
dockerUpdateArgs(plan) == [plan |-> page, pins |-> Pins(plan.packages), names |-> Names(plan.packages),
                           held |-> plan.held, flag |-> plan.held # {}]
QueueUnit(words) == /\ pc' = "queued" /\ du' = words /\ marks' = <<[kind |-> "QUEUED", arg |-> {}]>> /\ hold' = NoHold
\* The plan is made again and must be the one that was confirmed.
startDockerUpdate(allowHeld) ==
    /\ pc = "idle" /\ page # NoPlan /\ sent < 1 /\ sent' = sent + 1
    /\ \E plan \in {dockerUpdatePreflight(allowHeld)} :
          IF plan = page THEN QueueUnit(dockerUpdateArgs(plan)) ELSE UNCHANGED <<pc, du, marks, hold>>
    /\ UNCHANGED <<dpkg, offer, needs, drops, page, lost, box>>

-------------------------------------------------------------------------------
Mark(kind, arg) == marks' = Append(marks, [kind |-> kind, arg |-> arg])
Quiet == UNCHANGED marks
Go(next) == pc' = next
Still == UNCHANGED <<dpkg, offer, needs, drops, page, du, sent, lost>>
\* fail: the holds are put back, said when they were said at the start, and then the reason.
fail(why) == Go("fail_restore") /\ hold' = [hold EXCEPT !.why = why]

\* The unit begins, or systemd-run says that it cannot be started.
UnitStarts == /\ pc = "queued"
              /\ \/ Mark("STARTED", {}) /\ Go("words") /\ box' = [box EXCEPT !.dpkg = dpkg, !.lifted = {}, !.own = {}]
                 \/ Mark("FAILED", {"start"}) /\ Go("over") /\ UNCHANGED box
              /\ Still /\ UNCHANGED hold

held_among(names) == {p \in names : p \in Held(dpkg)}
held_list == held_among(du.held)
\* The words are not what the core makes: never, in a unit that the core made.
Bad == \/ du.pins = {} \/ du.names = {} \/ ~(du.held \subseteq (du.names \cup Engine)) \/ du.flag # (du.held # {})
refuse_unrestorable_holds(restorable) == du.flag /\ ~(held_among(du.names) \subseteq restorable)
LookFirst == /\ pc = "words" /\ Still /\ UNCHANGED box
             /\ IF Bad \/ refuse_unrestorable_holds(du.held) THEN fail("guard") /\ Mark("GUARD", {"plan"})
                ELSE Go("held") /\ UNCHANGED hold /\ Quiet
SayHeld == /\ pc = "held" /\ Still /\ UNCHANGED box /\ Go("previous")
           /\ hold' = [hold EXCEPT !.start = held_list] /\ Mark("HELD", held_list)
SayPrevious == /\ pc = "previous" /\ Still /\ UNCHANGED <<hold, box>> /\ Go("guard")
               /\ Mark("PREVIOUS", {[name |-> p, cand |-> dpkg[p].ver] : p \in du.names \cap Present(dpkg)})

\* What apt would do now, for the pins: every package among the names, every upgrade pinned.
PinnedVer == CHOOSE v \in {pin.cand : pin \in du.pins} : TRUE
guardPasses == /\ ~SimFails(du.flag, PinnedVer) /\ Removed(PinnedVer) = {} /\ PinnedVer <= offer
               /\ \A i \in Inst(PinnedVer) : i.name \in du.names /\ (~i.new => i.name \in {pin.name : pin \in du.pins})
Guard == /\ pc = "guard" /\ Still /\ UNCHANGED box
         /\ IF guardPasses THEN Go("download") /\ UNCHANGED hold /\ Quiet
            ELSE fail("guard") /\ Mark("GUARD", {"plan"})
Download == /\ pc = "download" /\ Still /\ UNCHANGED box
            /\ \/ ~SimFails(du.flag, PinnedVer) /\ Mark("DOWNLOADED", {}) /\ Go("look") /\ UNCHANGED hold
               \/ fail("download") /\ Quiet
\* The download took its time: the holds of the names must be the ones that are put back.
LookAgain == /\ pc = "look" /\ Still /\ box' = [box EXCEPT !.look = Held(dpkg)]
              /\ IF refuse_unrestorable_holds(hold.start) THEN fail("guard") /\ Mark("GUARD", {"plan"})
                 ELSE Go("install") /\ hold' = [hold EXCEPT !.ran = TRUE] /\ Quiet

\* dpkg unpacks some of the packages, or all; each loses its hold.
Unpacked(some) == [p \in Packages |-> IF p \in some THEN [ver |-> PinnedVer, held |-> FALSE] ELSE dpkg[p]]
Install == /\ pc = "install" /\ Quiet /\ Go("restore") /\ UNCHANGED <<offer, needs, drops, page, du, sent, lost>>
           /\ \E some \in SUBSET {i.name : i \in Inst(PinnedVer)} :
                 /\ some = {} \/ (~SimFails(du.flag, PinnedVer) /\ Removed(PinnedVer) = {})
                 /\ dpkg' = Unpacked(some) /\ box' = [box EXCEPT !.changed = some]
                 /\ \E rc \in IF some = {i.name : i \in Inst(PinnedVer)} /\ ~SimFails(du.flag, PinnedVer) /\ Removed(PinnedVer) = {} THEN {"ok", "bad"} ELSE {"bad"} :
                       hold' = [hold EXCEPT !.rc = rc]

\* apt-mark holds again what was on hold at the start, unless dpkg stays locked for
\* all ten tries.
Again == [p \in Packages |-> IF p \in hold.start THEN [dpkg[p] EXCEPT !.held = TRUE] ELSE dpkg[p]]
restore_holds_Always == \/ hold.start = {} /\ UNCHANGED <<dpkg, hold>>
                        \/ ~hold.back /\ dpkg' = Again /\ hold' = [hold EXCEPT !.back = TRUE]
                        \/ hold.back /\ UNCHANGED <<dpkg, hold>>
restore_holds == IF ~hold.ran \/ hold.back \/ hold.start = {} THEN UNCHANGED <<dpkg, hold>>
                 ELSE \/ dpkg' = Again /\ hold' = [hold EXCEPT !.back = TRUE]
                      \/ UNCHANGED <<dpkg, hold>>
Restoring(at, next) == /\ pc = at /\ restore_holds /\ Go(next) /\ Quiet
                       /\ UNCHANGED <<offer, needs, drops, page, du, sent, lost, box>>
AfterInstall == /\ pc = "after" /\ Still /\ UNCHANGED box
                /\ IF hold.rc = "ok" THEN Mark("INSTALLED", {}) /\ Go("daemon") /\ UNCHANGED hold ELSE fail("install") /\ Quiet
\* The daemon answers with its version, after a second try or never.
Daemon == /\ pc = "daemon" /\ Still /\ UNCHANGED box
          /\ \/ \E v \in {1, PinnedVer} : Mark("DAEMON", {v}) /\ Go("containers") /\ hold' = [hold EXCEPT !.rc = IF v = PinnedVer THEN "SUCCESS" ELSE "RESTART_PENDING"]
             \/ fail("daemon") /\ Quiet
\* The containers that ran and are still missing when the wait is over.
Containers == /\ pc = "containers" /\ Still /\ UNCHANGED <<hold, box>> /\ Go("last_restore")
              /\ Quiet \/ Mark("NOTRETURNED", {"app"})
\* The holds are told at the end when they were told at the start.
SayHolds(at, next) == /\ pc = at /\ Still /\ UNCHANGED <<hold, box>> /\ Go(next)
                      /\ IF \E i \in DOMAIN marks : marks[i].kind = "HELD" THEN Mark("HOLDS", held_list) ELSE Quiet
Ends == /\ Still /\ UNCHANGED <<hold, box>> /\ Go("over")
        /\ \/ pc = "end" /\ Mark(hold.rc, {})
           \/ pc = "fail_end" /\ Mark("FAILED", {hold.why})

Unit == \/ UnitStarts \/ LookFirst \/ SayHeld \/ SayPrevious \/ Guard \/ Download \/ LookAgain \/ Install
        \/ Restoring("restore", "after") \/ AfterInstall \/ Daemon \/ Containers
        \/ Restoring("last_restore", "holds") \/ SayHolds("holds", "end")
        \/ Restoring("fail_restore", "fail_holds") \/ SayHolds("fail_holds", "fail_end") \/ Ends
Killed == /\ pc \notin {"idle", "over"} /\ lost < MaxLost /\ lost' = lost + 1 /\ pc' = "over"
          /\ UNCHANGED <<dpkg, offer, needs, drops, page, du, hold, marks, sent, box>>

-------------------------------------------------------------------------------
Stepped == Cardinality(box.own) < MaxOwner
Own(what) == what \notin box.own /\ Stepped /\ pc # "over"
\* The owner holds, releases or installs a package; the repository brings a newer one.
OwnerHolds(p) == /\ Own(<<"hold", p>>) /\ ~dpkg[p].held /\ dpkg' = [dpkg EXCEPT ![p].held = TRUE]
                 /\ box' = [box EXCEPT !.own = @ \cup {<<"hold", p>>}]
                 /\ UNCHANGED <<offer, needs, drops, page, du, pc, hold, marks, sent, lost>>
OwnerReleases(p) == /\ Own(<<"lift", p>>) /\ dpkg[p].held /\ dpkg' = [dpkg EXCEPT ![p].held = FALSE]
                    /\ box' = [box EXCEPT !.own = @ \cup {<<"lift", p>>}, !.lifted = @ \cup {p}]
                    /\ UNCHANGED <<offer, needs, drops, page, du, pc, hold, marks, sent, lost>>
OwnerInstalls(p) == /\ Own(<<"inst", p>>) /\ p \in Foreign /\ dpkg[p].ver = 0 /\ dpkg' = [dpkg EXCEPT ![p].ver = 1]
                    /\ box' = [box EXCEPT !.own = @ \cup {<<"inst", p>>}]
                    /\ UNCHANGED <<offer, needs, drops, page, du, pc, hold, marks, sent, lost>>
Published == /\ Own(<<"new", 3>>) /\ offer = 2 /\ offer' = 3
             /\ box' = [box EXCEPT !.own = @ \cup {<<"new", 3>>}]
             /\ UNCHANGED <<dpkg, needs, drops, page, du, pc, hold, marks, sent, lost>>

DNext == \/ Check \/ (\E allow \in BOOLEAN : startDockerUpdate(allow)) \/ Unit \/ Killed
         \/ (\E p \in Packages : OwnerHolds(p) \/ OwnerReleases(p) \/ OwnerInstalls(p)) \/ Published
DSpec == DInit /\ [][DNext]_dVars

-------------------------------------------------------------------------------
\* What is read from the log: the first HELD, the last HOLDS and the last word.
Of(kind) == {i \in DOMAIN marks : marks[i].kind = kind}
RunHeld == IF Of("HELD") = {} THEN {} ELSE marks[CHOOSE i \in Of("HELD") : \A j \in Of("HELD") : i <= j].arg
RunHolds == IF Of("HOLDS") = {} THEN {} ELSE marks[CHOOSE i \in Of("HOLDS") : \A j \in Of("HOLDS") : j <= i].arg
HoldsKept == RunHeld # {} /\ RunHeld \subseteq RunHolds
Terminal == IF marks = <<>> THEN "" ELSE
            IF marks[Len(marks)].kind \in {"SUCCESS", "RESTART_PENDING", "FAILED"} THEN marks[Len(marks)].kind ELSE ""
FailReason == IF Terminal = "FAILED" THEN CHOOSE w \in marks[Len(marks)].arg : TRUE ELSE ""

\* No hold is lost without a word: a hold that stood when the unit looked for the last
\* time before the install stands at the end, unless the owner lifted it, or the page
\* shows that it was on hold and is not again.
NoHoldLost == pc = "over" /\ Terminal # "" =>
    \A p \in box.look : p \in Held(dpkg) \/ p \in box.lifted \/ (p \in RunHeld \ RunHolds /\ ~HoldsKept)

\* "Nothing was changed": a run that says that it could not be started, that its
\* download failed or that its plan changed has left packages and holds to the owner.
ChangedByUnit == {p \in Packages : dpkg[p].ver # box.dpkg[p].ver /\ <<"inst", p>> \notin box.own}
PutOnHold == {p \in Packages : dpkg[p].held /\ (p \in box.lifted \/ ~box.dpkg[p].held) /\ <<"hold", p>> \notin box.own}
SaysUnchanged == FailReason \in {"start", "download", "guard"} => ChangedByUnit = {} /\ PutOnHold = {}

\* Whatever apt finds by then, what is changed is what the owner confirmed: the packages
\* of the plan that the page showed, in its versions, and no held one that it did not show.
OnlyConfirmed == \A p \in box.changed :
    /\ \E pkg \in du.plan.packages : pkg.name = p /\ pkg.cand = PinnedVer
    /\ p \in box.look \ box.lifted => p \in du.plan.held

\* The Docker update keeps its word on the page: the holds, what it says was not changed, and
\* the plan that was confirmed.
KeepsItsWord == NoHoldLost /\ SaysUnchanged /\ OnlyConfirmed
===============================================================================
