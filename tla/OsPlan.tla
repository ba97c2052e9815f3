-------------------------------- MODULE OsPlan ---------------------------------
(* The job that makes the plan of a hop (service/system_os_plan.go): the request *)
(* that starts it, the phases of osplan.Run in a sandbox of its own, the state   *)
(* that it publishes, the end of the core in the middle of it, and the sweep of  *)
(* what a core that died left in /var/tmp (pkg/osplan/sandbox_dir.go). The       *)
(* planner of a module (pkg/modulecmd/sandbox_linux.go) makes a directory of the *)
(* same name beside it, and sweeps too.                                          *)
EXTENDS AptPlan, PlanSources

CONSTANTS Boxes,       \* machines: their sources, settings, packages and room
          Asks,        \* requests that start a plan
          MaxStarts,   \* plans that are begun
          MaxDeaths,   \* ends of the core
          MaxModule    \* plans of a module that are begun beside
ASSUME OsPlanAssumption == {MaxStarts, MaxDeaths, MaxModule} \subseteq Nat

VARIABLES box,      \* the machine
          pointer,  \* osPlanJob.state, with a number that tells one pointer from another
          asks,     \* the requests: where they are and the pointer they loaded
          jobs,     \* the goroutines that make a plan
          dirs,     \* the directories of sandboxes: whose they are, and whether they are old
          core,     \* the core: up, stopping or down
          module,   \* the planner of a module: the directory it has
          spent     \* starts, deaths and plans of a module so far
pVars == <<box, pointer, asks, jobs, dirs, core, module, spent>>

Phases == <<"sources", "update", "upgrade", "dist-upgrade", "estimate", "parse">>
NoState == [ver |-> 0, state |-> "idle", phase |-> "", job |-> 0, failure |-> "none", plan |-> <<>>, left |-> FALSE, expired |-> FALSE]
NoJob == [pc |-> "none", dir |-> FALSE, canceled |-> FALSE, failure |-> "none", sources |-> <<>>, out |-> <<>>, plan |-> <<>>, left |-> FALSE]
JobIds == 1 .. MaxStarts
Alive(j) == jobs[j].pc \notin {"none", "over", "dead"}
DirOf(j) == [of |-> "plan", n |-> j, old |-> FALSE]
Live(d) == IF d.of = "plan" THEN Alive(d.n) /\ jobs[d.n].dir ELSE d.of = "module" /\ module = d.n

PInit == /\ box \in Boxes /\ pointer = NoState /\ asks = [a \in Asks |-> [pc |-> "idle", prev |-> 0, asked |-> FALSE]]
         /\ jobs = [j \in JobIds |-> NoJob]
         /\ dirs = {[of |-> "foreign", n |-> 0, old |-> TRUE]}
         /\ core = "up" /\ module = 0 /\ spent = [starts |-> 0, deaths |-> 0, module |-> 0]

-------------------------------------------------------------------------------
\* StartSystemOSPlan: a plan that runs is the answer; the machine is looked at once, with
\* no lock, and the pointer is taken only if it is still the one that was loaded.
SetAsk(a, pc, prev, asked) == asks' = [asks EXCEPT ![a] = [pc |-> pc, prev |-> prev, asked |-> asked]]
Load(a) == /\ core # "down" /\ asks[a].pc \in {"idle", "again"}
           /\ asks[a].pc = "idle" => spent.starts < MaxStarts
           /\ IF pointer.state = "running" THEN SetAsk(a, "idle", 0, FALSE) /\ asks[a].pc = "again"
              ELSE SetAsk(a, IF asks[a].asked THEN "swap" ELSE "preflight", pointer.ver, asks[a].asked)
           /\ UNCHANGED <<box, pointer, jobs, dirs, core, module, spent>>
Preflight(refused) == box.busy \/ ~box.plannable \/ refused
AskPreflight(a) == /\ asks[a].pc = "preflight"
                   /\ \E refused \in BOOLEAN :
                        IF Preflight(refused) THEN SetAsk(a, "idle", 0, FALSE) ELSE SetAsk(a, "swap", asks[a].prev, TRUE)
                   /\ UNCHANGED <<box, pointer, jobs, dirs, core, module, spent>>
Running(ver, j) == [NoState EXCEPT !.ver = ver, !.state = "running", !.phase = "sources", !.job = j]
CompareAndSwap_Store(a) == TRUE
CompareAndSwap(a) == pointer.ver = asks[a].prev
StartSystemOSPlan(a) ==
    /\ asks[a].pc = "swap"
    /\ IF CompareAndSwap(a)
       THEN /\ spent.starts < MaxStarts
            /\ LET j == spent.starts + 1
               IN pointer' = Running(pointer.ver + 1, j) /\ jobs' = [jobs EXCEPT ![j].pc = "sources"] /\ spent' = [spent EXCEPT !.starts = j]
            /\ SetAsk(a, "idle", 0, FALSE)
       ELSE SetAsk(a, "again", 0, TRUE) /\ UNCHANGED <<pointer, jobs, spent>>
    /\ UNCHANGED <<box, dirs, core, module>>

-------------------------------------------------------------------------------
\* A phase of osplan.Run: the phase is published, the work is done, and the job goes on,
\* or fails. Every command is bound to the job and to a time of its own.
Publish(j, phase) == pointer' = [Running(pointer.ver + 1, j) EXCEPT !.phase = phase]
Fail(j, why) == jobs' = [jobs EXCEPT ![j].pc = "remove", ![j].failure = why]
NextPhase(phase) == Phases[(CHOOSE i \in DOMAIN Phases : Phases[i] = phase) + 1]
GoOn(j, out) == jobs' = [jobs EXCEPT ![j].pc = NextPhase(@), ![j].out = out]
At(j, phase) == jobs[j].pc = phase /\ core # "down"
ctxFailure(j, late) == IF jobs[j].canceled THEN "canceled" ELSE IF late THEN "timeout" ELSE "none"
\* runInSandbox: ended is how the command ended, out what it printed.
runInSandbox(j, phase, ended, code, Then(_)) ==
    CASE jobs[j].canceled \/ ended = "late" -> Fail(j, ctxFailure(j, ended = "late"))
      [] ended = "unrun" /\ ~jobs[j].canceled -> Fail(j, code)
      [] OTHER -> Then(phase)
Ended == {"late", "unrun", "done"}

Sources(j) ==
    /\ At(j, "sources") /\ Publish(j, "sources")
    /\ \E rewritten \in {RewriteSources(box.files, FALSE)}, conf \in {ReadAptConfig(box.conf)} :
          \E refused, made, written \in BOOLEAN :
            CASE Preflight(refused) -> Fail(j, "busy") /\ UNCHANGED dirs
              [] ~Preflight(refused) /\ rewritten.why # "none" -> Fail(j, rewritten.why) /\ UNCHANGED dirs
              [] OTHER -> IF conf.failed \/ ~made THEN Fail(j, "internal") /\ UNCHANGED dirs
                          ELSE /\ dirs' = dirs \cup {DirOf(j)}
                               /\ jobs' = [jobs EXCEPT ![j].dir = TRUE, ![j].sources = <<rewritten.tree, conf.leftOut>>,
                                                       ![j].pc = IF written THEN "update" ELSE "remove",
                                                       ![j].failure = IF written THEN "none" ELSE "internal"]
    /\ UNCHANGED <<box, asks, core, module, spent>>
\* Another package manager may have begun meanwhile: it is asked for once more.
Update(j) ==
    /\ At(j, "update") /\ Publish(j, "update")
    /\ \E busy \in BOOLEAN, ended \in Ended, out \in box.updates :
         IF busy THEN Fail(j, "busy")
         ELSE runInSandbox(j, "update", ended, "sandbox_update_failed",
                           LAMBDA p : IF ParseUpdate(out) # "none" THEN Fail(j, ParseUpdate(out)) ELSE GoOn(j, <<>>))
    /\ UNCHANGED <<box, asks, dirs, core, module, spent>>
\* What a simulation prints; lines of it may be lost on the way.
Output(truth, lossy) == LET all == Printed(truth)
                        IN {[exit |-> 0, truncated |-> FALSE, lines |-> SelectSeq(all, LAMBDA l : l \notin lost)] :
                              lost \in IF lossy THEN SUBSET ToSet(all) ELSE {{}}} \cup box.odd
Simulate(j, phase, truth) ==
    /\ At(j, phase) /\ Publish(j, phase)
    /\ \E ended \in Ended : \E out \in Output(truth, box.lossy = phase) :
         runInSandbox(j, phase, ended, "sandbox_solver_failed",
                      LAMBDA p : IF SolverFailed(out) THEN Fail(j, "sandbox_solver_failed") ELSE GoOn(j, Append(jobs[j].out, out)))
    /\ UNCHANGED <<box, asks, dirs, core, module, spent>>
Upgrade(j) == Simulate(j, "upgrade", box.upgrade)
DistUpgrade(j) == Simulate(j, "dist-upgrade", box.dist)
\* An estimate that could not be had does not end the plan, unless its time did.
NoOutput == [exit |-> 0, truncated |-> FALSE, lines |-> <<>>]
Estimate(j) ==
    /\ At(j, "estimate") /\ Publish(j, "estimate")
    /\ \E ended \in Ended, out \in box.estimates :
         IF jobs[j].canceled \/ ended = "late" THEN Fail(j, ctxFailure(j, ended = "late"))
         ELSE GoOn(j, Append(jobs[j].out, IF ended = "unrun" THEN NoOutput ELSE out))
    /\ UNCHANGED <<box, asks, dirs, core, module, spent>>
Parse(j) ==
    /\ At(j, "parse") /\ Publish(j, "parse")
    /\ \E upgrade \in {ParseSolver(jobs[j].out[1])}, dist \in {ParseSolver(jobs[j].out[2])} :
         CASE upgrade.bad # "none" \/ dist.bad # "none" -> Fail(j, "plan_unparsed")
           [] OTHER -> IF UnknownRemoval(dist, upgrade) THEN Fail(j, "plan_unparsed")
                       ELSE IF jobs[j].canceled THEN Fail(j, "canceled")
                       ELSE jobs' = [jobs EXCEPT ![j].pc = "remove",
                                ![j].plan = Assemble(jobs[j].sources, dist, upgrade, ParseEstimate(jobs[j].out[3], dist.sum[1]), box)]
    /\ UNCHANGED <<box, asks, dirs, core, module, spent>>
\* A panic in any phase is an end like the others.
Panic(j) == /\ core # "down" /\ jobs[j].pc \in ToSet(Phases) /\ box.panics /\ Fail(j, "internal")
            /\ UNCHANGED <<box, pointer, asks, dirs, core, module, spent>>
\* The directory goes before the end is published; what two tries leave is named.
Mine(j) == {d \in dirs : d.of = "plan" /\ d.n = j}
remove(j) == /\ At(j, "remove")
             /\ \E gone \in IF jobs[j].dir THEN BOOLEAN ELSE {TRUE} :
                  /\ dirs' = IF gone THEN dirs \ Mine(j) ELSE dirs
                  /\ jobs' = [jobs EXCEPT ![j].pc = "publish", ![j].left = ~gone]
             /\ UNCHANGED <<box, pointer, asks, core, module, spent>>
makeOSPlan(j) ==
    /\ At(j, "publish")
    /\ pointer' = [NoState EXCEPT !.ver = pointer.ver + 1, !.state = IF jobs[j].failure # "none" THEN "failed" ELSE "done", !.job = j,
                                  !.failure = jobs[j].failure, !.plan = jobs[j].plan, !.left = jobs[j].left]
    /\ jobs' = [jobs EXCEPT ![j].pc = "over", ![j].out = <<>>]
    /\ UNCHANGED <<box, asks, dirs, core, module, spent>>
JobStep(j) == Sources(j) \/ Update(j) \/ Upgrade(j) \/ DistUpgrade(j) \/ Estimate(j) \/ Parse(j) \/ remove(j) \/ makeOSPlan(j)

-------------------------------------------------------------------------------
\* The runbook is written from a plan that is whole, of this day and not blocked.
GetSystemOSRunbook == pointer.state = "done" /\ ~pointer.expired /\ pointer.plan.verdict # "blocked"
Expire == /\ pointer.state = "done" /\ ~pointer.expired /\ pointer' = [pointer EXCEPT !.expired = TRUE]
          /\ UNCHANGED <<box, asks, jobs, dirs, core, module, spent>>
\* An orderly end cancels the job and waits a while for it; either way the core ends.
StopSystemOSPlan == /\ core = "up" /\ spent.deaths < MaxDeaths /\ core' = "stopping"
                    /\ jobs' = [j \in JobIds |-> IF pointer.state = "running" /\ pointer.job = j THEN [jobs[j] EXCEPT !.canceled = TRUE] ELSE jobs[j]]
                    /\ UNCHANGED <<box, pointer, asks, dirs, module, spent>>
Die == /\ core # "down" /\ spent.deaths < MaxDeaths /\ core' = "down"
       /\ jobs' = [j \in JobIds |-> IF Alive(j) THEN [NoJob EXCEPT !.pc = "dead"] ELSE jobs[j]]
       /\ pointer' = [NoState EXCEPT !.ver = pointer.ver + 1]
       /\ asks' = [a \in Asks |-> [pc |-> "idle", prev |-> 0, asked |-> FALSE]]
       /\ spent' = [spent EXCEPT !.deaths = @ + 1] /\ UNCHANGED <<box, dirs, module>>
\* A directory is old after an hour, longer than any planner lives.
Age == /\ \E d \in dirs : ~d.old /\ ~Live(d) /\ dirs' = (dirs \ {d}) \cup {[d EXCEPT !.old = TRUE]}
       /\ UNCHANGED <<box, pointer, asks, jobs, core, module, spent>>
notOurs(d) == d.of = "foreign"
\* Old directories that are the core's; one that does not go is left for the next sweep.
SweepStale_Young(stuck) == {d \in dirs : ~notOurs(d) /\ d \notin stuck}
SweepStale(stuck) == {d \in dirs : d.old /\ ~notOurs(d) /\ d \notin stuck}
CoreStart == /\ core = "down" /\ core' = "up"
             /\ \E stuck \in SUBSET {d \in dirs : d.old} : dirs' = dirs \ SweepStale(stuck)
             /\ UNCHANGED <<box, pointer, asks, jobs, module, spent>>
ModulePlan == /\ module = 0 /\ spent.module < MaxModule
              /\ LET n == spent.module + 1
                 IN module' = n /\ spent' = [spent EXCEPT !.module = n]
                    /\ dirs' = (dirs \ SweepStale({})) \cup {[of |-> "module", n |-> n, old |-> FALSE]}
              /\ UNCHANGED <<box, pointer, asks, jobs, core>>
ModuleEnds == /\ module # 0 /\ module' = 0
              /\ \E killed \in BOOLEAN : dirs' = IF killed THEN dirs ELSE {d \in dirs : d.of # "module"}
              /\ UNCHANGED <<box, pointer, asks, jobs, core, spent>>

PNext == \/ \E a \in Asks : Load(a) \/ AskPreflight(a) \/ StartSystemOSPlan(a)
         \/ \E j \in JobIds : JobStep(j) \/ Panic(j)
         \/ Expire \/ StopSystemOSPlan \/ Die \/ Age \/ CoreStart \/ ModulePlan \/ ModuleEnds
PFair == \A j \in JobIds : WF_pVars(JobStep(j))
PSpec == PInit /\ [][PNext]_pVars /\ PFair

-------------------------------------------------------------------------------
\* One plan is made at a time, whatever requests come between: the look at the machine
\* is made with no lock, so the swap of the pointer alone decides.
OnePlan == \A i, j \in JobIds : Alive(i) /\ Alive(j) => i = j
\* A runbook is only ever written of a plan that tells the truth of what apt would do,
\* whatever lines of its output were lost: every removal is in it, none of them is of a
\* protected or an essential package, one of a package that the owner asked for is his
\* to accept, nothing goes back or stays behind, and the tree names the new release only.
Truthful(plan) ==
    LET gone == box.dist.removed \cup box.upgrade.removed
        tree == plan.sources[1]
    IN /\ {r.name : r \in plan.removals} = gone
       /\ \A p \in gone : ~Facts[p].protected /\ ~Facts[p].essential
       /\ (\E p \in gone : ~Facts[p].auto) => plan.verdict = "needs_acceptance"
       /\ box.dist.downgraded \cup box.upgrade.downgraded \cup box.dist.kept = {}
       /\ Active(tree) # {} /\ \A l \in Active(tree) : l.base = "to" /\ Suite(l) = "distro"
       /\ \A i \in DOMAIN box.files : \A l \in ToSet(box.files[i].lines) :
            l.repo /\ Suite(l) = "distro" /\ l.suffix \in Kept => \E m \in Active(tree) : m.suffix = l.suffix /\ l.comps \subseteq m.comps
\* A runbook is handed out only for a plan that tells all that apt and the sources said: what is removed,
\* held, downgraded or left out, over every form of the files (system_os_plan.go, plan.go, rewrite.go).
NothingHidden == GetSystemOSRunbook => Truthful(pointer.plan)
\* The end of a plan is published when its directory is gone, or names it; and no sweep,
\* of a core that starts or of the planner of a module, takes the directory of a planner
\* that is at work.
DirsTold == [][/\ \A j \in JobIds : Alive(j) /\ jobs'[j].pc = "over" => Mine(j) = {} \/ pointer'.left
               /\ \A d \in dirs : Live(d) /\ d \notin dirs' => ~Live(d)' \/ (d.of = "plan" /\ jobs[d.n].pc = "remove")]_pVars
\* A plan that runs ends: every command has a time, and what fails is an end too.
PlanEnds == pointer.state = "running" ~> pointer.state # "running"

\* The end of a plan comes, and tells of its directory.
EndsTold == DirsTold /\ PlanEnds
===============================================================================
