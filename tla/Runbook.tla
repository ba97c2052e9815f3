------------------------------- MODULE Runbook ---------------------------------
\* The blocks of the runbook that the owner pastes (pkg/osplan/runbook.go), their restore
\* script, and the blocks of a refresh that the unit runs on the same machine
\* (auto_refresh.go) with the undoing of its driver. A block is a program of the commands
\* that change something; what it looks at first is the guard of its beginning, and a
\* refused block changes nothing. It may stop or be killed between any two commands.
EXTENDS FiniteSets, Naturals, Sequences

CONSTANTS Plans,       \* plans of the hop, each with its folder in /var/backups
          Runs,        \* runs of the refresh, each with its folder
          Scenes,      \* what there is on one machine: folders, and terminals a block can run in
          Together,    \* pairs of blocks that may run at the same time
          Actives,     \* which timers of apt may be active before anything begins
          NewKernel,   \* the plan installs a kernel (expectsNewKernel)
          MaxKills, MaxBoots

ASSUME RunbookConstants == NewKernel \in BOOLEAN /\ MaxKills \in Nat /\ MaxBoots \in Nat

VARIABLES etc,      \* /etc/apt: the list, Docker's file, and Docker's file put aside
          pk,       \* the packages: of which release, half configured, what os-release says
          kern,     \* the kernels installed and the one that runs
          boot,     \* which boot of the machine this is
          timers,   \* the timers that are active
          had,      \* the timers that were active before anything began
          ts,       \* the file of the state of the timers: none, or one set of timers
          bf,       \* the folder of each plan and of each refresh
          term,     \* what runs in each terminal
          dead,     \* refreshes whose unit stopped or died
          spent     \* kills so far; a script was cut; the file of the timers was taken from a plan
rbVars == <<etc, pk, kern, boot, timers, had, ts, bf, term, dead, spent>>

Folders == DOMAIN bf
HopFolders == Folders \cap Plans
Refreshes == Folders \cap Runs
Terminals == DOMAIN term
Order == <<"verify", "timers", "snapshot", "sources", "download", "minimal", "full", "prereboot", "after">>
ROrder == <<"rcheck", "rsources", "rupgrade", "rdone">>
Putting_LateCopy == <<"script", "pause", "copy", "keep", "place">>
Putting == <<"script", "copy", "keep", "pause", "place">>
restoreScript == <<"clear", "list", "parts", "forget", "aside">>
Program == [verify |-> <<"done">>,
            timers |-> <<"state", "read", "publish", "stop", "done">>,
            snapshot |-> <<"write", "done">>,
            sources |-> <<"hash", "stop">> \o Putting \o <<"may", "done">>,
            download |-> <<"may", "done">>,
            minimal |-> <<"stop", "mark", "minimal", "may", "done">>,
            full |-> <<"stop", "fetch", "ladder", "converge", "audit", "done">>,
            prereboot |-> <<"kernel", "boot", "done">>,
            after |-> <<"looks", "start", "docker", "undocker", "rmts", "done">>,
            rcheck |-> <<"state", "read", "publish", "about", "stop", "done">>,
            rsources |-> <<"hash">> \o Putting \o <<"may", "done">>,
            rupgrade |-> <<"may", "begun", "refresh", "audit", "done">>,
            rdone |-> restoreScript \o <<"hash", "start", "rmts", "done">>,
            restore |-> restoreScript,
            unwind |-> restoreScript \o <<"forward", "start", "rmts", "gone">>]

Original == [list |-> "from", docker |-> "from", aside |-> "none"]
NoFolder == [done |-> {}, orig |-> {}, script |-> FALSE, snap |-> {}, kernel |-> "none", boot |-> 0]
Idle == [f |-> "none", b |-> "none", i |-> 0, read |-> {}, fresh |-> FALSE, pass |-> 1]
newest == IF "new" \in kern.installed THEN "new" ELSE "old"

RInit ==
    /\ etc = Original /\ pk = [s |-> "from", half |-> FALSE, rel |-> "from"]
    /\ kern = [installed |-> {"old"}, running |-> "old"] /\ boot = 1
    /\ had \in Actives /\ timers = had /\ ts = {}
    /\ \E scene \in Scenes : /\ bf = [f \in scene.folders |-> NoFolder]
                             /\ term = [t \in scene.terminals |-> Idle]
    /\ dead = {} /\ spent = [kills |-> 0, cut |-> FALSE, taken |-> FALSE]
--------------------------------------------------------------------------------
\* Where a program stands
On(t, step) == term[t].b # "none" /\ Program[term[t].b][term[t].i] = step
Dir(t) == bf[term[t].f]
After(x) == IF x.i = Len(Program[x.b]) THEN Idle ELSE [x EXCEPT !.i = @ + 1]
Go(t) == term' = [term EXCEPT ![t] = After(@)]
Entered(f, b) == [Idle EXCEPT !.f = f, !.b = b, !.i = 1]
Unwinding(f) == [Entered(f, "unwind") EXCEPT !.i = IF bf[f].orig # {} THEN 1 ELSE Len(restoreScript) + 1]
\* A block ends early: the driver of a refresh undoes it, the owner's terminal is free.
Stop(t) == /\ term' = [term EXCEPT ![t] = IF @.f \in Refreshes /\ @.b # "unwind" THEN Unwinding(@.f) ELSE Idle]
           /\ dead' = IF term[t].f \in Refreshes THEN dead \cup {term[t].f} ELSE dead
StopOnly(t) == Stop(t) /\ UNCHANGED <<etc, pk, kern, boot, timers, had, ts, bf, spent>>
Set(t, field, value) == bf' = [bf EXCEPT ![term[t].f][field] = value]
Mark(t, m) == Set(t, "done", Dir(t).done \cup {m})
RestMachine == UNCHANGED <<kern, boot, had, dead, spent>>

\* What a block looks at before it changes anything
Began(f) == {"begun", "minimal"} \cap bf[f].done # {}
Previous(order, b) == LET i == CHOOSE n \in DOMAIN order : order[n] = b IN IF i = 1 THEN "none" ELSE order[i - 1]
srchash == etc.list = "from" /\ etc.docker = "from"
otherPlans(f) == \A g \in Folders \ {f} : ~Began(g) /\ bf[g].orig = {}
head(f, b) ==
    /\ \A g \in HopFolders : "after" \notin bf[g].done
    /\ b # "verify" => /\ Began(f) \/ pk.rel = "from"
                       /\ Previous(Order, b) \in bf[f].done
headRefresh(f, b) ==
    /\ \A g \in HopFolders : "after" \notin bf[g].done
    /\ pk.rel = "from"
    /\ b # "rcheck" => Previous(ROrder, b) \in bf[f].done
verifyGate(f) == ~Began(f) /\ bf[f].orig = {} /\ otherPlans(f) /\ pk.rel = "from" /\ ~pk.half /\ srchash
snapshotGate(f) == /\ ~Began(f) /\ bf[f].orig = {}
                   /\ bf[f].done \cap {"sources", "download", "minimal", "full", "prereboot", "after"} = {}
sourcesGate(f) == ~Began(f) /\ bf[f].orig = {} /\ "sources" \notin bf[f].done /\ otherPlans(f)
early(f) == newest = kern.running /\ \A s \in bf[f].snap : kern.running \notin s.kernels
prerebootGate(f) == bf[f].snap # {} /\ (~early(f) /\ NewKernel => newest # kern.running)
restoreGate_Always(f) == bf[f].orig # {} /\ bf[f].script
restoreGate(f) == ~Began(f) /\ bf[f].orig # {} /\ bf[f].script
Gate(f, b) ==
    CASE b = "verify" -> verifyGate(f)
      [] b = "snapshot" -> snapshotGate(f)
      [] b = "sources" -> sourcesGate(f)
      [] b = "download" -> ~Began(f)
      [] b = "prereboot" -> prerebootGate(f)
      [] b = "rcheck" -> otherPlans(f) /\ ~pk.half
      [] b = "rdone" -> restoreGate(f)
      [] OTHER -> TRUE

\* One terminal is as good as another: the first that is free is taken.
Open(t, b) == /\ term[t] = Idle /\ t = CHOOSE x \in Terminals : term[x] = Idle
              /\ \A o \in Terminals \ {t} : term[o] = Idle \/ {b, term[o].b} \in Together
Enter(t, f, b) == /\ term' = [term EXCEPT ![t] = Entered(f, b)]
                  /\ UNCHANGED <<etc, pk, kern, boot, timers, had, ts, bf, dead, spent>>
\* The owner pastes a block; the unit goes on with its refresh, or undoes it.
Paste(t, f, b) == Open(t, b) /\ head(f, b) /\ Gate(f, b) /\ Enter(t, f, b)
Refresh(t, f, b) == /\ Open(t, b) /\ f \notin dead /\ b \notin bf[f].done
                    /\ headRefresh(f, b) /\ Gate(f, b) /\ Enter(t, f, b)
Restore(t, f) == Open(t, "restore") /\ restoreGate(f) /\ Enter(t, f, "restore")
Unwind(t, f) == /\ Open(t, "unwind") /\ f \in dead /\ bf[f] # NoFolder /\ "rdone" \notin bf[f].done
                /\ term' = [term EXCEPT ![t] = Unwinding(f)]
                /\ UNCHANGED <<etc, pk, kern, boot, timers, had, ts, bf, dead, spent>>
--------------------------------------------------------------------------------
\* The timers of apt
\* A file that is there is kept; if there is none the timers are read into a name of the
\* run's own.
shTimersState(t) == /\ On(t, "state")
                    /\ term' = [term EXCEPT ![t] = IF ts = {} THEN After(@) ELSE After(After(After(@)))]
                    /\ UNCHANGED <<etc, pk, timers, ts, bf>> /\ RestMachine
ReadTimers(t) == /\ On(t, "read") /\ term' = [term EXCEPT ![t] = [After(@) EXCEPT !.read = {timers}]]
                 /\ UNCHANGED <<etc, pk, timers, ts, bf>> /\ RestMachine
\* ln fails when the name is taken: the state that is there is kept.
Publish(t) == /\ On(t, "publish") /\ ts' = (IF ts = {} THEN term[t].read ELSE ts) /\ Go(t)
              /\ UNCHANGED <<etc, pk, timers, bf>> /\ RestMachine
shTimersOf(t) == /\ On(t, "stop")
                 /\ \/ timers' = {} /\ Go(t) /\ UNCHANGED dead
                    \/ timers' \in SUBSET timers \ {{}} /\ Stop(t)
                 /\ UNCHANGED <<etc, pk, kern, boot, had, ts, bf, spent>>
shTimersBack(t) == /\ On(t, "start") /\ timers' = timers \cup UNION ts /\ Go(t)
                   /\ UNCHANGED <<etc, pk, ts, bf>> /\ RestMachine
DropState(t) == /\ On(t, "rmts") /\ ts' = {} /\ Go(t)
                /\ spent' = [spent EXCEPT !.taken = @ \/ (term[t].f \in Refreshes /\ \E f \in HopFolders : "timers" \in bf[f].done)]
                /\ UNCHANGED <<etc, pk, kern, boot, timers, had, bf, dead>>

\* The folder: the state of before, the script, the copy of /etc/apt, the sources
Snapshot(t) == /\ On(t, "write") /\ Set(t, "snap", {[s |-> pk.s, kernels |-> kern.installed]}) /\ Go(t)
               /\ UNCHANGED <<etc, pk, timers, ts>> /\ RestMachine
CheckHash(t) == /\ On(t, "hash") /\ srchash /\ Go(t)
                /\ UNCHANGED <<etc, pk, timers, ts, bf>> /\ RestMachine
RefuseHash(t) == On(t, "hash") /\ ~srchash /\ StopOnly(t)
WriteScript(t) == /\ On(t, "script") /\ Set(t, "script", TRUE) /\ Go(t)
                  /\ UNCHANGED <<etc, pk, timers, ts>> /\ RestMachine
Copy(t) == /\ On(t, "copy") /\ term' = [term EXCEPT ![t] = [After(@) EXCEPT !.read = {etc}]]
           /\ UNCHANGED <<etc, pk, timers, ts, bf>> /\ RestMachine
\* mv of a whole copy onto the name; onto a folder that is there it goes inside it.
sourcesBackup(t) == /\ On(t, "keep") /\ Set(t, "orig", IF Dir(t).orig = {} THEN term[t].read ELSE Dir(t).orig) /\ Go(t)
                    /\ UNCHANGED <<etc, pk, timers, ts>> /\ RestMachine
PauseSources(t) == /\ On(t, "pause") /\ etc' = [etc EXCEPT !.docker = "none", !.aside = etc.docker] /\ Go(t)
                   /\ UNCHANGED <<pk, timers, ts, bf>> /\ RestMachine
treeMoves(t) == /\ On(t, "place")
                /\ etc' = [etc EXCEPT !.list = IF term[t].f \in HopFolders THEN "to" ELSE "archive"] /\ Go(t)
                /\ UNCHANGED <<pk, timers, ts, bf>> /\ RestMachine
\* The script puts the sources back from the copy, forgets blocks 3 and 4, and puts the
\* copy aside last.
ClearParts(t) == /\ On(t, "clear") /\ etc' = [etc EXCEPT !.docker = "none", !.aside = "none"] /\ Go(t)
                 /\ UNCHANGED <<pk, timers, ts, bf>> /\ RestMachine
RestoreList(t) == /\ On(t, "list") /\ etc' = [etc EXCEPT !.list = (CHOOSE o \in Dir(t).orig : TRUE).list] /\ Go(t)
                  /\ UNCHANGED <<pk, timers, ts, bf>> /\ RestMachine
RestoreParts(t) == /\ On(t, "parts") /\ etc' = [etc EXCEPT !.docker = (CHOOSE o \in Dir(t).orig : TRUE).docker] /\ Go(t)
                   /\ UNCHANGED <<pk, timers, ts, bf>> /\ RestMachine
Forget(t) == /\ On(t, "forget") /\ Set(t, "done", Dir(t).done \ {"sources", "download"}) /\ Go(t)
             /\ UNCHANGED <<etc, pk, timers, ts>> /\ RestMachine
PutAside(t) == /\ On(t, "aside") /\ Set(t, "orig", {}) /\ Go(t)
               /\ UNCHANGED <<etc, pk, timers, ts>> /\ RestMachine
\* The driver of a refresh finishes what dpkg left, and moves its folder away.
autoForward(t) == /\ On(t, "forward") /\ pk' = [pk EXCEPT !.half = @ /\ "begun-rupgrade" \notin Dir(t).done] /\ Go(t)
                  /\ UNCHANGED <<etc, timers, ts, bf>> /\ RestMachine
FolderAway(t) == /\ On(t, "gone") /\ bf' = [bf EXCEPT ![term[t].f] = NoFolder] /\ Go(t)
                 /\ UNCHANGED <<etc, pk, timers, ts>> /\ RestMachine
--------------------------------------------------------------------------------
\* Steps that look and may end the block: apt-get update, a simulation with its guards, a
\* download, a comparison. apt and dpkg --audit fail while packages are half configured.
looksRight(t) ==
    /\ Dir(t).boot # 0 => boot # Dir(t).boot
    /\ pk.rel = "to" /\ ~pk.half /\ etc.list = "to"
    /\ Dir(t).kernel # "none" /\ kern.running = Dir(t).kernel
Look(t) == /\ \/ On(t, "may")
              \/ (On(t, "fetch") \/ On(t, "audit")) /\ ~pk.half
              \/ On(t, "looks") /\ looksRight(t)
           /\ Go(t) /\ UNCHANGED <<etc, pk, timers, ts, bf>> /\ RestMachine
LookStops(t) == (\E s \in {"may", "fetch", "audit", "looks"} : On(t, s)) /\ StopOnly(t)
Done(t) == /\ On(t, "done") /\ Mark(t, term[t].b) /\ Go(t)
           /\ UNCHANGED <<etc, pk, timers, ts>> /\ RestMachine
AboutToStop(t) == /\ On(t, "about") /\ Mark(t, "timers") /\ Go(t)
                  /\ UNCHANGED <<etc, pk, timers, ts>> /\ RestMachine
BeginRefresh(t) == /\ On(t, "begun") /\ Mark(t, "begun-rupgrade") /\ Go(t)
                   /\ UNCHANGED <<etc, pk, timers, ts>> /\ RestMachine

\* The packages. Only the sources of the new release bring its packages.
Mixed == {[s |-> "mixed", half |-> h, rel |-> r] : h \in BOOLEAN, r \in {pk.rel, "to"}}
Whole == [s |-> "to", half |-> FALSE, rel |-> "to"]
Further == IF pk.s = "to" THEN {[pk EXCEPT !.half = FALSE]} ELSE {Whole} \cup {p \in Mixed : ~p.half}
Torn == IF etc.list = "to" /\ pk.s # "to" THEN Mixed ELSE {[pk EXCEPT !.half = TRUE]}
NothingLeft == etc.list = "to" => pk.s = "to"
MarkBegun(t) == /\ On(t, "mark") /\ Mark(t, "begun")
                /\ term' = [term EXCEPT ![t] = [After(@) EXCEPT !.fresh = "begun" \notin Dir(t).done]]
                /\ UNCHANGED <<etc, pk, timers, ts>> /\ RestMachine
MinimalUpgrade(t) ==
    /\ On(t, "minimal") /\ ~pk.half
    /\ pk' \in IF etc.list = "to" /\ pk.s # "to" THEN {p \in Mixed : ~p.half} ELSE {pk}
    /\ Go(t) /\ UNCHANGED <<etc, timers, ts, bf>> /\ RestMachine
\* A failure that changed nothing takes the marker back, when this run wrote it.
MinimalFails(t) ==
    /\ On(t, "minimal") /\ pk' \in Torn \cup {pk}
    /\ IF term[t].fresh /\ pk' = pk THEN Set(t, "done", Dir(t).done \ {"begun"}) ELSE UNCHANGED bf
    /\ Stop(t) /\ UNCHANGED <<etc, kern, boot, timers, had, ts, spent>>
Kernels(p) == IF p.s = "to" THEN {kern.installed \cup {"new"}} ELSE {kern.installed, kern.installed \cup {"new"}}
\* dist-upgrade, and the ladder when it failed once; what it leaves is for the passes.
repairLadder(t) ==
    /\ (On(t, "ladder") \/ On(t, "refresh"))
    /\ pk' \in IF etc.list = "to" THEN Further ELSE {[pk EXCEPT !.half = FALSE]}
    /\ \E k \in IF etc.list = "to" /\ NewKernel THEN Kernels(pk') ELSE {kern.installed} : kern' = [kern EXCEPT !.installed = k]
    /\ Go(t) /\ UNCHANGED <<etc, boot, timers, had, ts, bf, dead, spent>>
LadderFails(t) == /\ (On(t, "ladder") \/ On(t, "refresh")) /\ pk' \in Torn \cup {pk} /\ Stop(t)
                  /\ UNCHANGED <<etc, kern, boot, timers, had, ts, bf, spent>>
Converged(t) == /\ On(t, "converge") /\ NothingLeft /\ Go(t)
                /\ UNCHANGED <<etc, pk, timers, ts, bf>> /\ RestMachine
CatchUp(t) == /\ On(t, "converge") /\ ~NothingLeft /\ term[t].pass < 3
              /\ \/ /\ pk' \in Further
                    /\ term' = [term EXCEPT ![t].pass = @ + 1] /\ UNCHANGED dead
                 \/ pk' \in Torn \cup {pk} /\ Stop(t)
              /\ kern' = IF NewKernel /\ pk'.s = "to" THEN [kern EXCEPT !.installed = @ \cup {"new"}] ELSE kern
              /\ UNCHANGED <<etc, boot, timers, had, ts, bf, spent>>
StillLeft(t) == On(t, "converge") /\ ~NothingLeft /\ term[t].pass = 3 /\ StopOnly(t)

\* Block 7 writes the kernel to expect, and the boot that has to be over, unless the
\* machine already started on it; block 8 puts Docker's source back.
WriteKernel(t) == /\ On(t, "kernel") /\ Set(t, "kernel", newest) /\ Go(t)
                  /\ UNCHANGED <<etc, pk, timers, ts>> /\ RestMachine
WriteBoot(t) == /\ On(t, "boot") /\ (IF early(term[t].f) THEN UNCHANGED bf ELSE Set(t, "boot", boot)) /\ Go(t)
                /\ UNCHANGED <<etc, pk, timers, ts>> /\ RestMachine
DockerBack(t) == /\ On(t, "docker") /\ etc' = (IF etc.aside = "none" THEN etc ELSE [etc EXCEPT !.docker = "to"]) /\ Go(t)
                 /\ UNCHANGED <<pk, timers, ts, bf>> /\ RestMachine
dockerAnswers(t) == /\ On(t, "docker")
                    /\ \/ term' = [term EXCEPT ![t] = After(After(@))] /\ UNCHANGED dead
                       \/ Stop(t)
                    /\ UNCHANGED <<etc, pk, kern, boot, timers, had, ts, bf, spent>>
DockerUnpaused(t) == /\ On(t, "undocker") /\ etc' = [etc EXCEPT !.aside = "none"] /\ Go(t)
                     /\ UNCHANGED <<pk, timers, ts, bf>> /\ RestMachine
--------------------------------------------------------------------------------
\* A terminal dies between two commands, or inside apt; the machine restarts, with the
\* timers it had enabled; the owner finishes what dpkg left, by hand.
Lost(x) == IF x.f \in Refreshes THEN {x.f} ELSE {}
Kill(t) == /\ term[t] # Idle /\ spent.kills < MaxKills
           /\ spent' = [spent EXCEPT !.kills = @ + 1, !.cut = @ \/ \E s \in {"list", "parts", "forget"} : On(t, s),
                                    !.taken = @ \/ (term[t].b = "after" /\ On(t, "done"))]
           /\ pk' \in IF \E s \in {"minimal", "ladder", "refresh", "converge"} : On(t, s) THEN Torn \cup {pk} ELSE {pk}
           /\ term' = [term EXCEPT ![t] = Idle] /\ dead' = dead \cup Lost(term[t])
           /\ UNCHANGED <<etc, kern, boot, timers, had, ts, bf>>
Reboot == /\ boot <= MaxBoots /\ boot' = boot + 1 /\ \A f \in HopFolders : "after" \notin bf[f].done
          /\ \A t \in Terminals : term[t] = Idle
          /\ timers' = had /\ kern' \in {[kern EXCEPT !.running = k] : k \in kern.installed}
          /\ UNCHANGED <<etc, pk, had, ts, bf, term, dead, spent>>
ByHand == /\ pk.half /\ pk' = [pk EXCEPT !.half = FALSE] /\ (\A t \in Terminals : term[t] = Idle)
          /\ UNCHANGED <<etc, kern, boot, timers, had, ts, bf, term, dead, spent>>

StepOf(t) ==
    \/ shTimersState(t) \/ ReadTimers(t) \/ Publish(t) \/ shTimersOf(t) \/ shTimersBack(t) \/ DropState(t)
    \/ Snapshot(t) \/ CheckHash(t) \/ RefuseHash(t) \/ WriteScript(t) \/ Copy(t) \/ sourcesBackup(t) \/ PauseSources(t) \/ treeMoves(t)
    \/ ClearParts(t) \/ RestoreList(t) \/ RestoreParts(t) \/ Forget(t) \/ PutAside(t) \/ autoForward(t) \/ FolderAway(t)
    \/ Look(t) \/ LookStops(t) \/ Done(t) \/ AboutToStop(t) \/ BeginRefresh(t)
    \/ MarkBegun(t) \/ MinimalUpgrade(t) \/ MinimalFails(t) \/ repairLadder(t) \/ LadderFails(t)
    \/ Converged(t) \/ CatchUp(t) \/ StillLeft(t)
    \/ WriteKernel(t) \/ WriteBoot(t) \/ DockerBack(t) \/ dockerAnswers(t) \/ DockerUnpaused(t)
InRange(order) == {order[i] : i \in DOMAIN order}
Opens(t) == \/ \E f \in HopFolders : (\E b \in InRange(Order) : Paste(t, f, b)) \/ Restore(t, f)
            \/ \E f \in Refreshes : (\E b \in InRange(ROrder) : Refresh(t, f, b)) \/ Unwind(t, f)
RNext == (\E t \in Terminals : StepOf(t) \/ Opens(t) \/ Kill(t)) \/ Reboot \/ ByHand
RSpec == RInit /\ [][RNext]_rbVars
--------------------------------------------------------------------------------
\* Properties

\* While the packages are those of the old release the sources can be put back: either
\* they are the original ones, or a folder holds a copy of exactly those with the script
\* that puts them back. No copy is ever of anything else: not of sources another plan or
\* a refresh wrote, nor of ones that were half put back.
WayBack ==
    /\ \A f \in Folders : bf[f].orig \subseteq {Original}
    /\ pk.s = "from" => etc = Original \/ \E f \in Folders : bf[f].orig # {} /\ bf[f].script

\* The file of the timers always holds the state of before the first of the blocks that
\* stopped them, whichever plan or refresh wrote it, and when a hop is over the timers run
\* that ran before. (Unless the file was taken from a plan that goes on: a refresh between
\* its blocks ends by removing it, and so does a block 8 that dies before its mark.)
TimersKept ==
    ~spent.taken =>
    /\ ts \subseteq {had}
    /\ (\E f \in HopFolders : "after" \in bf[f].done) => had \subseteq timers

\* A hop that block 8 ended is whole: packages, os-release, sources and the running kernel
\* are of the new release. What block 2 wrote down of a plan whose sources are in place is
\* the machine before the hop. And a plan that passed the point of no return has the
\* sources of the new release in place: unless its restore script was cut before it took
\* blocks 3 and 4 back, which lets block 5 run on the old sources.
EndIsWhole ==
    \A f \in HopFolders :
        /\ "after" \in bf[f].done => /\ pk.s = "to" /\ pk.rel = "to" /\ etc.list = "to"
                                     /\ NewKernel => kern.running = "new"
        /\ "begun" \in bf[f].done => etc.list = "to" \/ spent.cut
        /\ bf[f].orig # {} => \A s \in bf[f].snap : s.s = "from" /\ s.kernels = {"old"}

\* The runbook follows the way of a hop (HopWay): back only while no package changed, and
\* packages change only under the sources of the new release.
Where == CASE \E f \in HopFolders : "after" \in bf[f].done -> "reached"
           [] pk.s # "from" -> IF etc.list = "to" THEN "forward" ELSE "lost"
           [] etc = Original -> "before"
           [] OTHER -> "between"
Abstract == INSTANCE HopWay WITH where <- Where
\* The blocks of every plan, the restore script and a refresh beside them take the machine only along
\* the way of a hop: no packages change under the old sources, none goes back once they did.
FollowsTheWay == Abstract!Way

\* The blocks, in whatever terminal, order or plan they are pasted, and wherever they are killed,
\* leave a way back, the timers as they were, and a hop that is whole when it says so.
RunbookHolds == WayBack /\ TimersKept /\ EndIsWhole
===============================================================================
