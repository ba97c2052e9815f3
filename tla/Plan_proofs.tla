------------------------------ MODULE Plan_proofs ------------------------------
(***************************************************************************)
(* For any number of requests, plans, ends of the core and plans of a      *)
(* module, and for every machine: one plan of a hop is made at a time, no  *)
(* sweep takes the directory of a planner that is at work, and the end of  *)
(* a plan tells of a directory that it left.                               *)
(*                                                                         *)
(* OnePlan does not carry itself.  A job that is alive is the one that the *)
(* pointer names as running (Pointed), and a request can take only a       *)
(* pointer that it found at rest (Loaded): no version of the pointer is    *)
(* ever used again.  For the directories, one that is at work is young     *)
(* (Young), because a job makes the only directory of its number (OwnDirs) *)
(* and a module planner one of a number never given out (Numbered).        *)
(***************************************************************************)
EXTENDS OsPlan, TLAPS

Pcs == {"none", "sources", "update", "upgrade", "dist-upgrade", "estimate", "parse", "remove", "publish", "over", "dead"}
Parts == {"pc", "dir", "canceled", "failure", "sources", "out", "plan", "left"}
\* What the proofs need of a job; what it read and made of it can be anything.
IsJob(r) == r = [x \in Parts |-> r[x]] /\ r.pc \in Pcs /\ r.dir \in BOOLEAN /\ r.left \in BOOLEAN
Ask == [pc : {"idle", "again", "preflight", "swap"}, prev : Nat, asked : BOOLEAN]
Dir == [of : {"plan", "module", "foreign"}, n : Nat, old : BOOLEAN]
Spent == [starts : Nat, deaths : Nat, module : Nat]

PlanTypes ==
    /\ jobs = [j \in JobIds |-> jobs[j]] /\ \A j \in JobIds : IsJob(jobs[j])
    /\ asks \in [Asks -> Ask]
    /\ dirs \subseteq Dir
    /\ spent \in Spent
    /\ pointer.ver \in Nat /\ DOMAIN pointer = DOMAIN NoState
    /\ module \in Nat

Begun == \A j \in JobIds : j > spent.starts => jobs[j].pc = "none"
Pointed == \A j \in JobIds : Alive(j) => pointer.state = "running" /\ pointer.job = j
Loaded == \A a \in Asks : asks[a].pc \in {"preflight", "swap"} =>
              /\ asks[a].prev <= pointer.ver
              /\ asks[a].prev = pointer.ver => pointer.state # "running"
PlanInv == PlanTypes /\ Begun /\ Pointed /\ Loaded

OwnDirs ==
    /\ \A j \in JobIds : jobs[j].pc \in {"none", "sources"} => ~jobs[j].dir /\ Mine(j) = {}
    /\ \A j \in JobIds : jobs[j].pc = "publish" => Mine(j) = {} \/ jobs[j].left
    /\ \A d \in dirs : d.of = "plan" => d.n \in JobIds
Numbered == module <= spent.module /\ \A d \in dirs : d.of = "module" => d.n <= spent.module /\ d.n > 0
Young == \A d \in dirs : Live(d) => ~d.old
DirsInv == OwnDirs /\ Numbered /\ Young

-------------------------------------------------------------------------------
\* The phases, and what comes after one.
Working == {"sources", "update", "upgrade", "dist-upgrade", "estimate", "parse"}

\* The phases of a job and their order.
LEMMA PhaseFacts ==
    /\ ToSet(Phases) = Working
    /\ \A p \in Working \ {"parse"} : NextPhase(p) \in Working \ {"sources"}
<1>1. DOMAIN Phases = 1 .. 6 /\ ToSet(Phases) = Working BY DEF Phases, ToSet, Working
<1>2. ASSUME NEW p \in Working \ {"parse"} PROVE NextPhase(p) \in Working \ {"sources"}
  <2> DEFINE i == CHOOSE k \in DOMAIN Phases : Phases[k] = p
  <2>1. \E k \in DOMAIN Phases : Phases[k] = p BY <1>1 DEF Phases, Working
  <2>2. i \in 1 .. 6 /\ Phases[i] = p BY <1>1, <2>1
  <2>3. NextPhase(p) = Phases[i + 1] BY DEF NextPhase
  <2> HIDE DEF i
  <2>4. i \in 1 .. 5 BY <2>2 DEF Phases, Working
  <2>5. QED BY <2>3, <2>4 DEF Phases, Working
<1>3. QED BY <1>1, <1>2

\* The first job of a number is one, and nothing is to be said of its directory.
LEMMA FirstJob == IsJob(NoJob) /\ NoJob.pc = "none" /\ NoJob.dir = FALSE
  BY DEF IsJob, Parts, Pcs, NoJob

\* Before the first request there is no plan, and no directory but one of somebody else.
LEMMA PlanInit == PInit => PlanInv /\ DirsInv
<1> SUFFICES ASSUME PInit PROVE PlanInv /\ DirsInv OBVIOUS
<1> USE DEF PInit
<1>1. jobs = [j \in JobIds |-> jobs[j]] /\ \A j \in JobIds : jobs[j] = NoJob OBVIOUS
<1>2. asks \in [Asks -> Ask] /\ dirs \subseteq Dir /\ spent \in Spent BY DEF Ask, Dir, Spent
<1>3. pointer.ver \in Nat /\ DOMAIN pointer = DOMAIN NoState /\ module \in Nat BY DEF NoState
<1>4. PlanInv BY <1>1, <1>2, <1>3, FirstJob DEF PlanInv, PlanTypes, Begun, Pointed, Loaded, Alive
<1>5. DirsInv BY <1>1, FirstJob DEF DirsInv, OwnDirs, Numbered, Young, Live, Mine
<1>6. QED BY <1>4, <1>5

-------------------------------------------------------------------------------
\* What a phase does to its job: r is the job after it.
Puts(j, r) == IsJob(r) /\ jobs' = [jobs EXCEPT ![j] = r]
Goes(j, r) == Puts(j, r) /\ r.pc \in (Working \ {"sources"}) \cup {"remove"} /\ r.left = jobs[j].left
Made(j, x, written, why) ==
    jobs' = [jobs EXCEPT ![j].dir = TRUE, ![j].sources = x, ![j].pc = IF written THEN "update" ELSE "remove", ![j].failure = why]
Told(j) == DOMAIN pointer' = DOMAIN NoState /\ pointer'.ver = pointer.ver + 1 /\ pointer'.state = "running" /\ pointer'.job = j

\* A failure, and the way to the next phase.
LEMMA FailGoes ==
    ASSUME NEW j \in JobIds, PlanTypes, NEW why, Fail(j, why)
    PROVE  \E r : Goes(j, r) /\ r.dir = jobs[j].dir
<1> DEFINE r == [jobs[j] EXCEPT !.pc = "remove", !.failure = why]
<1>1. IsJob(jobs[j]) BY DEF PlanTypes
<1>3. IsJob(r) /\ r.pc = "remove" /\ r.dir = jobs[j].dir /\ r.left = jobs[j].left BY <1>1 DEF IsJob, Parts, Pcs
<1>4. jobs' = [jobs EXCEPT ![j] = r]
  <2>1. jobs' = [jobs EXCEPT ![j].pc = "remove", ![j].failure = why] BY DEF Fail
  <2>2. QED BY <2>1 DEF PlanTypes
<1>5. QED BY <1>3, <1>4 DEF Goes, Puts

\* A phase that went well, or did not, moves its own job and leaves its folder.
LEMMA GoOnGoes ==
    ASSUME NEW j \in JobIds, PlanTypes, NEW out, GoOn(j, out), jobs[j].pc \in Working \ {"parse"}
    PROVE  \E r : Goes(j, r) /\ r.dir = jobs[j].dir
<1> DEFINE pc == NextPhase(jobs[j].pc)
           r == [jobs[j] EXCEPT !.pc = pc, !.out = out]
<1>0. pc \in Working \ {"sources"} BY PhaseFacts
<1>1. IsJob(jobs[j]) BY DEF PlanTypes
<1>2. jobs' = [jobs EXCEPT ![j] = r]
  <2>1. jobs' = [jobs EXCEPT ![j].pc = NextPhase(@), ![j].out = out] BY DEF GoOn
  <2>2. QED BY <2>1 DEF PlanTypes
<1> HIDE DEF pc
<1>3. pc \in Pcs BY <1>0 DEF Pcs, Working
<1>4. IsJob(r) /\ r.pc = pc /\ r.dir = jobs[j].dir /\ r.left = jobs[j].left BY <1>1, <1>3 DEF IsJob, Parts
<1>5. QED BY <1>0, <1>2, <1>4 DEF Goes, Puts

\* What the six phases and a panic come to, for the plan and its directory.
Phase(j) == Sources(j) \/ Update(j) \/ Upgrade(j) \/ DistUpgrade(j) \/ Estimate(j) \/ Parse(j) \/ Panic(j)

\* A phase moves its own job only, tells the pointer of it or leaves the pointer alone, and makes
\* its own folder only.
LEMMA PhaseSteps ==
    ASSUME NEW j \in JobIds, PlanTypes, Phase(j)
    PROVE  /\ jobs[j].pc \in Working
           /\ Told(j) \/ UNCHANGED pointer
           /\ \E r : /\ Goes(j, r)
                     /\ \/ r.dir = jobs[j].dir /\ UNCHANGED dirs
                        \/ r.dir /\ jobs[j].pc = "sources" /\ dirs' = dirs \cup {DirOf(j)}
           /\ UNCHANGED <<asks, module, spent>>
<1>0. UNCHANGED <<asks, module, spent>>
  BY DEF Phase, Sources, Update, Upgrade, DistUpgrade, Simulate, Estimate, Parse, Panic
<1>1. jobs[j].pc \in Working
  BY PhaseFacts DEF Phase, Sources, Update, Upgrade, DistUpgrade, Simulate, Estimate, Parse, Panic, At, Working
<1>2. \A p : Publish(j, p) => Told(j)
  BY DEF Publish, Told, Running, NoState
<1>3. Told(j) \/ UNCHANGED pointer
  BY <1>2 DEF Phase, Sources, Update, Upgrade, DistUpgrade, Simulate, Estimate, Parse, Panic
<1>4. CASE Sources(j)
  <2>0. jobs[j].pc = "sources" BY <1>4 DEF Sources, At
  <2>1. \/ (\E why : Fail(j, why)) /\ UNCHANGED dirs
        \/ /\ dirs' = dirs \cup {DirOf(j)}
           /\ \E x, why : \E written \in BOOLEAN : Made(j, x, written, why)
    <3>1. PICK rewritten \in {RewriteSources(box.files, FALSE)}, conf \in {ReadAptConfig(box.conf)},
               refused \in BOOLEAN, made \in BOOLEAN, written \in BOOLEAN :
            CASE Preflight(refused) -> Fail(j, "busy") /\ UNCHANGED dirs
              [] ~Preflight(refused) /\ rewritten.why # "none" -> Fail(j, rewritten.why) /\ UNCHANGED dirs
              [] OTHER -> IF conf.failed \/ ~made THEN Fail(j, "internal") /\ UNCHANGED dirs
                          ELSE /\ dirs' = dirs \cup {DirOf(j)}
                               /\ Made(j, <<rewritten.tree, conf.leftOut>>, written, IF written THEN "none" ELSE "internal")
      BY <1>4 DEF Sources, Made
    <3>2. QED BY <3>1
  <2>2. CASE (\E why : Fail(j, why)) /\ UNCHANGED dirs BY <2>2, FailGoes, <1>0, <1>1, <1>3
  <2>3. ASSUME dirs' = dirs \cup {DirOf(j)}, NEW x, NEW why, NEW written \in BOOLEAN,
               Made(j, x, written, why)
        PROVE  \E r : Goes(j, r) /\ r.dir /\ dirs' = dirs \cup {DirOf(j)}
    <3> DEFINE pc == IF written THEN "update" ELSE "remove"
               r == [jobs[j] EXCEPT !.dir = TRUE, !.sources = x, !.pc = pc, !.failure = why]
    <3>1. pc \in Pcs BY DEF Pcs
    <3>4. IsJob(r) /\ r.dir = TRUE /\ r.left = jobs[j].left /\ r.pc = pc
      <4> HIDE DEF pc
      <4>1. QED BY <3>1 DEF IsJob, Parts, PlanTypes
    <3>5. jobs' = [jobs EXCEPT ![j] = r] BY <2>3 DEF PlanTypes, Made
    <3>7. Goes(j, r) BY <3>4, <3>5 DEF Goes, Puts, Working
    <3>8. QED BY <2>3, <3>4, <3>7
  <2>4. QED BY <2>0, <2>1, <2>2, <2>3, <1>0, <1>1, <1>3
<1>5. CASE Update(j)
  <2>1. jobs[j].pc \in Working \ {"parse"} /\ UNCHANGED dirs BY <1>5 DEF Update, At, Working
  <2>2. (\E why : Fail(j, why)) \/ (\E out : GoOn(j, out)) BY <1>5 DEF Update, runInSandbox
  <2>3. QED BY <2>1, <2>2, FailGoes, GoOnGoes, <1>0, <1>1, <1>3
<1>6. CASE Upgrade(j) \/ DistUpgrade(j)
  <2>1. jobs[j].pc \in Working \ {"parse"} /\ UNCHANGED dirs BY <1>6 DEF Upgrade, DistUpgrade, Simulate, At, Working
  <2>2. (\E why : Fail(j, why)) \/ (\E out : GoOn(j, out)) BY <1>6 DEF Upgrade, DistUpgrade, Simulate, runInSandbox
  <2>3. QED BY <2>1, <2>2, FailGoes, GoOnGoes, <1>0, <1>1, <1>3
<1>7. CASE Estimate(j)
  <2>1. jobs[j].pc \in Working \ {"parse"} /\ UNCHANGED dirs BY <1>7 DEF Estimate, At, Working
  <2>2. (\E why : Fail(j, why)) \/ (\E out : GoOn(j, out)) BY <1>7 DEF Estimate
  <2>3. QED BY <2>1, <2>2, FailGoes, GoOnGoes, <1>0, <1>1, <1>3
<1>8. CASE Parse(j)
  <2>1. UNCHANGED dirs BY <1>8 DEF Parse
  <2>2. (\E why : Fail(j, why)) \/ (\E plan : jobs' = [jobs EXCEPT ![j].pc = "remove", ![j].plan = plan]) BY <1>8 DEF Parse
  <2>3. ASSUME NEW plan, jobs' = [jobs EXCEPT ![j].pc = "remove", ![j].plan = plan] PROVE \E r : Goes(j, r) /\ r.dir = jobs[j].dir
    <3> DEFINE r == [jobs[j] EXCEPT !.pc = "remove", !.plan = plan]
    <3>2. IsJob(r) /\ r.pc = "remove" /\ r.dir = jobs[j].dir /\ r.left = jobs[j].left BY DEF IsJob, Parts, Pcs, PlanTypes
    <3>3. jobs' = [jobs EXCEPT ![j] = r] BY <2>3 DEF PlanTypes
    <3>4. QED BY <3>2, <3>3 DEF Goes, Puts
  <2>4. QED BY <2>1, <2>2, <2>3, FailGoes, <1>0, <1>1, <1>3
<1>9. CASE Panic(j)
  <2>1. UNCHANGED dirs /\ Fail(j, "internal") BY <1>9 DEF Panic
  <2>2. QED BY <2>1, FailGoes, <1>0, <1>1, <1>3
<1>10. QED BY <1>4, <1>5, <1>6, <1>7, <1>8, <1>9 DEF Phase

-------------------------------------------------------------------------------
\* The requests: a swap finds the pointer at rest, since it is the one that was loaded.
AskStep == \E a \in Asks : Load(a) \/ AskPreflight(a) \/ StartSystemOSPlan(a)

\* The steps of the owner's requests keep the invariant.
LEMMA AskKeeps == ASSUME PlanInv, AskStep PROVE PlanInv'
<1> PICK a \in Asks : Load(a) \/ AskPreflight(a) \/ StartSystemOSPlan(a) BY DEF AskStep
<1>0. asks[a] \in Ask BY DEF PlanInv, PlanTypes
<1>1. \A pc, prev, asked : SetAsk(a, pc, prev, asked) =>
        /\ asks' = [asks EXCEPT ![a] = [pc |-> pc, prev |-> prev, asked |-> asked]]
        /\ asks'[a].pc = pc /\ asks'[a].prev = prev /\ \A o \in Asks : o # a => asks'[o] = asks[o]
  BY DEF SetAsk, PlanInv, PlanTypes
<1>2. \A pc \in {"idle", "again", "preflight", "swap"}, prev \in Nat, asked \in BOOLEAN :
        SetAsk(a, pc, prev, asked) => asks' \in [Asks -> Ask]
  BY DEF SetAsk, Ask, PlanInv, PlanTypes
<1>3. CASE Load(a) \/ AskPreflight(a)
  <2>1. UNCHANGED <<jobs, pointer, spent, dirs, module>> BY <1>3 DEF Load, AskPreflight
  <2>2. \/ SetAsk(a, "idle", 0, FALSE)
        \/ \E pc \in {"swap", "preflight"}, asked \in BOOLEAN : SetAsk(a, pc, pointer.ver, asked) /\ pointer.state # "running"
        \/ SetAsk(a, "swap", asks[a].prev, TRUE) /\ asks[a].pc = "preflight"
    BY <1>0, <1>3 DEF Load, AskPreflight, Ask
  <2>3. asks' \in [Asks -> Ask] BY <1>0, <1>2, <2>2 DEF Ask, PlanInv, PlanTypes
  <2>4. Loaded'
    <3> SUFFICES ASSUME NEW o \in Asks, asks'[o].pc \in {"preflight", "swap"}
                 PROVE  asks'[o].prev <= pointer.ver /\ (asks'[o].prev = pointer.ver => pointer.state # "running")
      BY <2>1 DEF Loaded
    <3>0. pointer.ver \in Nat /\ Loaded BY DEF PlanInv, PlanTypes
    <3>1. CASE o # a BY <1>1, <2>2, <3>0, <3>1 DEF Loaded
    <3>2. CASE o = a
      <4>1. \/ asks'[a].pc = "idle"
            \/ asks'[a].prev = pointer.ver /\ pointer.state # "running"
            \/ asks'[a].prev = asks[a].prev /\ asks[a].pc = "preflight"
        BY <1>1, <2>2
      <4>2. QED BY <3>0, <3>2, <4>1 DEF Loaded
    <3>3. QED BY <3>1, <3>2
  <2>5. QED BY <2>1, <2>3, <2>4 DEF PlanInv, PlanTypes, Begun, Pointed, Alive
<1>4. CASE StartSystemOSPlan(a) /\ ~CompareAndSwap(a)
  <2>1. UNCHANGED <<jobs, pointer, spent, dirs, module>> /\ SetAsk(a, "again", 0, TRUE) BY <1>4 DEF StartSystemOSPlan
  <2>2. Loaded' BY <1>1, <2>1, ZenonT(60) DEF PlanInv, PlanTypes, Loaded
  <2>3. QED BY <1>2, <2>1, <2>2 DEF PlanInv, PlanTypes, Begun, Pointed, Alive
<1>5. CASE StartSystemOSPlan(a) /\ CompareAndSwap(a)
  <2> DEFINE j == spent.starts + 1
             r == [jobs[j] EXCEPT !.pc = "sources"]
  <2>1. j \in JobIds /\ spent.starts \in Nat /\ spent' \in Spent /\ spent'.starts = j
    BY <1>5, OsPlanAssumption DEF StartSystemOSPlan, JobIds, PlanInv, PlanTypes, Spent
  <2>2. SetAsk(a, "idle", 0, FALSE) /\ UNCHANGED <<dirs, module>> /\ pointer' = Running(pointer.ver + 1, j)
    BY <1>5 DEF StartSystemOSPlan
  <2>3. jobs' = [jobs EXCEPT ![j] = r] BY <1>5, <2>1 DEF StartSystemOSPlan, PlanInv, PlanTypes
  <2>4. IsJob(r) /\ r.pc = "sources"
    <3>1. IsJob(jobs[j]) BY <2>1 DEF PlanInv, PlanTypes
    <3>2. QED BY <3>1 DEF IsJob, Parts, Pcs
  <2>5. pointer.state # "running" BY <1>5 DEF StartSystemOSPlan, CompareAndSwap, PlanInv, Loaded
  <2>6. DOMAIN pointer' = DOMAIN NoState /\ pointer'.ver = pointer.ver + 1 /\ pointer'.state = "running" /\ pointer'.job = j BY <2>2 DEF Running, NoState
  <2>0. j = spent.starts + 1 OBVIOUS
  <2> HIDE DEF r, j
  <2>7. Begun' /\ Pointed'
    <3>1. \A i \in JobIds : i # j => jobs'[i] = jobs[i] /\ ~Alive(i) BY <2>3, <2>5 DEF Pointed, PlanInv, PlanTypes
    <3>2. \A i \in JobIds : i \in Nat /\ (i > j => i > spent.starts) BY <2>0, <2>1 DEF JobIds
    <3>3. QED BY <2>1, <2>6, <3>1, <3>2 DEF Begun, Pointed, Alive, PlanInv
  <2>8. Loaded'
    <3> SUFFICES ASSUME NEW o \in Asks, asks'[o].pc \in {"preflight", "swap"}
                 PROVE  asks'[o].prev <= pointer'.ver /\ asks'[o].prev # pointer'.ver
      BY DEF Loaded
    <3>0. pointer.ver \in Nat /\ Loaded /\ asks[o] \in Ask BY DEF PlanInv, PlanTypes
    <3>1. o # a /\ asks'[o] = asks[o] BY <1>1, <2>2
    <3>2. QED BY <2>6, <3>0, <3>1 DEF Loaded, Ask
  <2>9. asks' \in [Asks -> Ask] BY <1>2, <2>2
  <2>10. PlanTypes' BY <2>1, <2>2, <2>3, <2>4, <2>6, <2>9 DEF PlanInv, PlanTypes
  <2>11. QED BY <2>7, <2>8, <2>10 DEF PlanInv
<1>6. QED BY <1>3, <1>4, <1>5

\* The directories that a phase leaves are ones.
LEMMA PhaseKeeps == ASSUME NEW j \in JobIds, PlanInv, Phase(j) PROVE PlanInv'
<1>0. j \in Nat BY OsPlanAssumption DEF JobIds
<1>1. PICK r : Goes(j, r) /\ (UNCHANGED dirs \/ dirs' = dirs \cup {DirOf(j)}) BY PhaseSteps DEF PlanInv
<1>2. jobs[j].pc \in Working /\ (Told(j) \/ UNCHANGED pointer) /\ UNCHANGED <<asks, module, spent>> BY PhaseSteps DEF PlanInv
<1>3. Alive(j) /\ pointer.state = "running" /\ pointer.job = j BY <1>2 DEF Alive, Working, PlanInv, Pointed
<1>4. DOMAIN pointer' = DOMAIN NoState /\ pointer'.ver \in Nat /\ pointer'.ver >= pointer.ver /\ pointer'.state = "running" /\ pointer'.job = j
  BY <1>2, <1>3 DEF Told, PlanInv, PlanTypes
<1>5. IsJob(r) /\ jobs' = [jobs EXCEPT ![j] = r] BY <1>1 DEF Goes, Puts
<1>6. dirs' \subseteq Dir
  <2>1. DirOf(j) \in Dir BY <1>0 DEF DirOf, Dir
  <2>2. QED BY <1>1, <2>1 DEF PlanInv, PlanTypes
<1>7. PlanTypes' BY <1>2, <1>4, <1>5, <1>6 DEF PlanInv, PlanTypes
<1>8. Begun' /\ Pointed' BY <1>2, <1>3, <1>4, <1>5 DEF Begun, Pointed, Alive, PlanInv, PlanTypes, Working
<1>9. Loaded' BY <1>2, <1>3, <1>4 DEF PlanInv, PlanTypes, Loaded, Ask, Told
<1>10. QED BY <1>7, <1>8, <1>9 DEF PlanInv

\* The end of a job, and of the core: what is alive after it is as it was.
LEMMA EndKeeps ==
    ASSUME PlanInv, StopSystemOSPlan \/ Die \/ \E j \in JobIds : remove(j) \/ makeOSPlan(j)
    PROVE  PlanInv'
<1>1. CASE \E j \in JobIds : remove(j)
  <2> PICK j \in JobIds : remove(j) BY <1>1
  <2>1. PICK gone \in BOOLEAN : /\ dirs' = IF gone THEN dirs \ Mine(j) ELSE dirs
                                /\ jobs' = [jobs EXCEPT ![j].pc = "publish", ![j].left = ~gone]
    BY DEF remove
  <2> DEFINE r == [jobs[j] EXCEPT !.pc = "publish", !.left = ~gone]
  <2>2. IsJob(r) /\ r.pc = "publish" BY DEF PlanInv, PlanTypes, IsJob, Parts, Pcs
  <2>3. jobs' = [jobs EXCEPT ![j] = r] BY <2>1 DEF PlanInv, PlanTypes
  <2>4. Alive(j) /\ UNCHANGED <<pointer, asks, module, spent>> BY DEF remove, At, Alive
  <2> HIDE DEF r
  <2>5. PlanTypes' BY <2>1, <2>2, <2>3, <2>4 DEF PlanInv, PlanTypes
  <2>6. Begun' /\ Pointed' BY <2>2, <2>3, <2>4 DEF Begun, Pointed, Alive, PlanInv, PlanTypes
  <2>7. Loaded' BY <2>4 DEF Loaded, PlanInv
  <2>8. QED BY <2>5, <2>6, <2>7 DEF PlanInv
<1>2. CASE \E j \in JobIds : makeOSPlan(j)
  <2> PICK j \in JobIds : makeOSPlan(j) BY <1>2
  <2> DEFINE r == [jobs[j] EXCEPT !.pc = "over", !.out = <<>>]
  <2>1. IsJob(r) /\ r.pc = "over" BY DEF PlanInv, PlanTypes, IsJob, Parts, Pcs
  <2>2. jobs' = [jobs EXCEPT ![j] = r] BY DEF PlanInv, PlanTypes, makeOSPlan
  <2>3. Alive(j) /\ UNCHANGED <<dirs, asks, module, spent>> BY DEF makeOSPlan, At, Alive
  <2>4. DOMAIN pointer' = DOMAIN NoState /\ pointer'.ver = pointer.ver + 1 BY DEF makeOSPlan, NoState
  <2> HIDE DEF r
  <2>5. PlanTypes' BY <2>1, <2>2, <2>3, <2>4 DEF PlanInv, PlanTypes
  <2>6. \A i \in JobIds : ~Alive(i)' BY <2>1, <2>2, <2>3 DEF Pointed, Alive, PlanInv, PlanTypes
  <2>7. Begun' BY <2>1, <2>2, <2>3 DEF Begun, Alive, PlanInv, PlanTypes
  <2>8. Loaded' BY <2>3, <2>4 DEF Loaded, PlanInv, PlanTypes, Ask
  <2>9. QED BY <2>5, <2>6, <2>7, <2>8 DEF PlanInv, Pointed
<1>3. CASE StopSystemOSPlan
  <2>1. \A j \in JobIds : IsJob(jobs'[j]) /\ jobs'[j].pc = jobs[j].pc
    <3> SUFFICES ASSUME NEW j \in JobIds PROVE IsJob(jobs'[j]) /\ jobs'[j].pc = jobs[j].pc OBVIOUS
    <3>1. IsJob(jobs[j]) BY DEF PlanInv, PlanTypes
    <3>2. jobs'[j] = jobs[j] \/ jobs'[j] = [jobs[j] EXCEPT !.canceled = TRUE] BY <1>3 DEF StopSystemOSPlan
    <3>3. QED BY <3>1, <3>2 DEF IsJob, Parts
  <2>2. UNCHANGED <<pointer, asks, dirs, module, spent>> /\ jobs' = [j \in JobIds |-> jobs'[j]] BY <1>3 DEF StopSystemOSPlan
  <2>3. QED BY <2>1, <2>2 DEF PlanInv, PlanTypes, Begun, Pointed, Loaded, Alive
<1>4. CASE Die
  <2>1. \A j \in JobIds : IsJob(jobs'[j]) /\ ~Alive(j)' /\ (jobs[j].pc = "none" => jobs'[j].pc = "none")
    <3> SUFFICES ASSUME NEW j \in JobIds
                 PROVE  IsJob(jobs'[j]) /\ ~Alive(j)' /\ (jobs[j].pc = "none" => jobs'[j].pc = "none") OBVIOUS
    <3>1. IsJob(jobs[j]) BY DEF PlanInv, PlanTypes
    <3>2. jobs'[j] = IF Alive(j) THEN [NoJob EXCEPT !.pc = "dead"] ELSE jobs[j] BY <1>4 DEF Die
    <3>3. [NoJob EXCEPT !.pc = "dead"].pc = "dead" /\ IsJob([NoJob EXCEPT !.pc = "dead"]) BY FirstJob DEF Pcs, IsJob, Parts
    <3>4. QED BY <3>1, <3>2, <3>3 DEF Alive
  <2>2. DOMAIN pointer' = DOMAIN NoState /\ pointer'.ver = pointer.ver + 1 /\ jobs' = [j \in JobIds |-> jobs'[j]] BY <1>4 DEF Die, NoState
  <2>3. spent' \in Spent /\ spent'.starts = spent.starts BY <1>4 DEF Die, PlanInv, PlanTypes, Spent
  <2>4. asks' \in [Asks -> Ask] /\ \A a \in Asks : asks'[a].pc = "idle" BY <1>4 DEF Die, Ask
  <2>5. dirs' = dirs /\ module' = module BY <1>4 DEF Die
  <2>6. PlanTypes' BY <2>1, <2>2, <2>3, <2>4, <2>5 DEF PlanInv, PlanTypes
  <2>7. QED BY <2>1, <2>3, <2>4, <2>6 DEF PlanInv, Begun, Pointed, Loaded
<1>5. QED BY <1>1, <1>2, <1>3, <1>4

\* The rest touches neither job nor request; a plan that is a day old was at rest before.
BesideStep == Expire \/ Age \/ CoreStart \/ ModulePlan \/ ModuleEnds

\* What happens beside the job and the requests keeps the invariant.
LEMMA BesideKeeps == ASSUME PlanInv, BesideStep PROVE PlanInv'
<1>1. UNCHANGED <<jobs, asks>> BY DEF BesideStep, Expire, Age, CoreStart, ModulePlan, ModuleEnds
<1>2. /\ pointer'.ver = pointer.ver /\ pointer'.job = pointer.job
      /\ pointer'.state = pointer.state /\ DOMAIN pointer' = DOMAIN pointer
  BY DEF PlanInv, PlanTypes, NoState, BesideStep, Expire, Age, CoreStart, ModulePlan, ModuleEnds
<1>3. spent' \in Spent /\ spent'.starts = spent.starts /\ module' \in Nat
  BY DEF BesideStep, Expire, Age, CoreStart, ModulePlan, ModuleEnds, PlanInv, PlanTypes, Spent
<1>4. dirs' \subseteq Dir
  <2>1. CASE Age
    <3>1. \A d \in Dir : [d EXCEPT !.old = TRUE] \in Dir BY DEF Dir
    <3>2. QED BY <2>1, <3>1 DEF Age, PlanInv, PlanTypes
  <2>2. CASE ModulePlan
    <3>1. [of |-> "module", n |-> spent.module + 1, old |-> FALSE] \in Dir BY DEF Dir, PlanInv, PlanTypes, Spent
    <3>2. QED BY <2>2, <3>1 DEF ModulePlan, PlanInv, PlanTypes
  <2>3. CASE Expire \/ CoreStart \/ ModuleEnds BY <2>3 DEF Expire, CoreStart, ModuleEnds, PlanInv, PlanTypes
  <2>4. QED BY <2>1, <2>2, <2>3 DEF BesideStep
<1>5. QED BY <1>1, <1>2, <1>3, <1>4 DEF PlanInv, PlanTypes, Begun, Pointed, Loaded, Alive

\* Every step keeps it.
LEMMA PlanStep == PlanInv /\ [PNext]_pVars => PlanInv'
<1> SUFFICES ASSUME PlanInv, [PNext]_pVars PROVE PlanInv' OBVIOUS
<1>1. CASE UNCHANGED pVars BY <1>1 DEF pVars, PlanInv, PlanTypes, Begun, Pointed, Loaded, Alive
<1>2. QED BY <1>1, AskKeeps, PhaseKeeps, EndKeeps, BesideKeeps DEF PNext, JobStep, AskStep, Phase, BesideStep

\* The invariant, for every behaviour of the requests, the jobs and the core.
THEOREM PlanInvariant == PSpec => []PlanInv
  BY PlanInit, PlanStep, PTL DEF PSpec

\* One plan is made at a time (system_os_plan.go: StartSystemOSPlan, whose look at the machine holds no
\* lock, so that CompareAndSwap alone decides).
THEOREM OnePlanHolds == PSpec => []OnePlan
<1>1. PlanInv => OnePlan BY DEF PlanInv, Pointed, OnePlan
<1>2. QED BY <1>1, PlanInvariant, PTL

-------------------------------------------------------------------------------
\* The directories. What makes a job of a number that had none leaves them as they are.
LEMMA AskDirs == ASSUME PlanInv, DirsInv, AskStep PROVE DirsInv'
<1> PICK a \in Asks : Load(a) \/ AskPreflight(a) \/ StartSystemOSPlan(a) BY DEF AskStep
<1>1. UNCHANGED <<dirs, module>> BY DEF Load, AskPreflight, StartSystemOSPlan
<1>2. CASE UNCHANGED <<jobs, spent>>
  BY <1>1, <1>2 DEF DirsInv, OwnDirs, Numbered, Young, Live, Alive, Mine
<1>3. CASE StartSystemOSPlan(a) /\ CompareAndSwap(a)
  <2> DEFINE j == spent.starts + 1
  <2>1. j \in JobIds /\ j > spent.starts /\ spent'.module = spent.module
    BY <1>3, OsPlanAssumption DEF StartSystemOSPlan, JobIds, PlanInv, PlanTypes, Spent
  <2>2. jobs[j].pc = "none" BY <2>1 DEF PlanInv, Begun
  <2>3. ~jobs[j].dir /\ Mine(j) = {} BY <2>1, <2>2 DEF DirsInv, OwnDirs
  <2>4. /\ jobs'[j].pc = "sources" /\ jobs'[j].dir = jobs[j].dir
        /\ \A i \in JobIds : i # j => jobs'[i] = jobs[i]
    <3>1. jobs' = [jobs EXCEPT ![j].pc = "sources"] BY <1>3 DEF StartSystemOSPlan
    <3>2. IsJob(jobs[j]) BY <2>1 DEF PlanInv, PlanTypes
    <3>3. QED BY <2>1, <3>1, <3>2 DEF PlanInv, PlanTypes, IsJob, Parts
  <2> HIDE DEF j
  <2>5. OwnDirs' BY <1>1, <2>1, <2>3, <2>4 DEF DirsInv, OwnDirs, Mine
  <2>6. Numbered' BY <1>1, <2>1 DEF DirsInv, Numbered
  <2>7. Young' BY <1>1, <2>1, <2>3, <2>4 DEF DirsInv, Young, OwnDirs, Live, Alive
  <2>8. QED BY <2>5, <2>6, <2>7 DEF DirsInv
<1>4. QED BY <1>2, <1>3 DEF Load, AskPreflight, StartSystemOSPlan

\* A phase makes the first directory of its job, which is young.
LEMMA PhaseDirs == ASSUME NEW j \in JobIds, PlanInv, DirsInv, Phase(j) PROVE DirsInv'
<1>1. PICK r : /\ Goes(j, r)
               /\ \/ r.dir = jobs[j].dir /\ UNCHANGED dirs
                  \/ r.dir /\ jobs[j].pc = "sources" /\ dirs' = dirs \cup {DirOf(j)}
  BY PhaseSteps DEF PlanInv
<1>2. jobs[j].pc \in Working /\ UNCHANGED <<module, spent>> BY PhaseSteps DEF PlanInv
<1>3. jobs'[j] = r /\ r.pc \notin {"none", "sources", "publish"} /\ \A i \in JobIds : i # j => jobs'[i] = jobs[i]
  BY <1>1 DEF Goes, Puts, Working, PlanInv, PlanTypes
<1>4. DirOf(j).of = "plan" /\ DirOf(j).n = j /\ DirOf(j).old = FALSE BY DEF DirOf
<1>5. OwnDirs' BY <1>1, <1>3, <1>4 DEF DirsInv, OwnDirs, Mine
<1>6. Numbered' BY <1>1, <1>2, <1>4 DEF DirsInv, Numbered
<1>7. Young'
  <2> SUFFICES ASSUME NEW d \in dirs', Live(d)' PROVE ~d.old BY DEF Young
  <2>1. CASE d = DirOf(j) BY <1>4, <2>1
  <2>2. CASE d \in dirs /\ ~(d.of = "plan" /\ d.n = j) BY <1>2, <1>3, <2>2 DEF DirsInv, Young, OwnDirs, Live, Alive
  <2>3. CASE d \in dirs /\ d.of = "plan" /\ d.n = j
    <3>1. jobs[j].pc # "sources" BY <2>3 DEF DirsInv, OwnDirs, Mine
    <3>2. Live(d) BY <1>1, <1>2, <1>3, <2>3, <3>1 DEF Live, Alive, Working
    <3>3. QED BY <2>3, <3>2 DEF DirsInv, Young
  <2>4. QED BY <1>1, <2>1, <2>2, <2>3
<1>8. QED BY <1>5, <1>6, <1>7 DEF DirsInv

\* The end of a job takes its directory away or names it; no end makes one that is at work.
LEMMA EndDirs ==
    ASSUME PlanInv, DirsInv, StopSystemOSPlan \/ Die \/ \E j \in JobIds : remove(j) \/ makeOSPlan(j)
    PROVE  DirsInv'
<1>1. CASE \E j \in JobIds : remove(j)
  <2> PICK j \in JobIds : remove(j) BY <1>1
  <2>1. PICK gone \in BOOLEAN : /\ dirs' = IF gone THEN dirs \ Mine(j) ELSE dirs
                                /\ jobs' = [jobs EXCEPT ![j].pc = "publish", ![j].left = ~gone]
    BY DEF remove
  <2>2. /\ jobs'[j].pc = "publish" /\ jobs'[j].left = ~gone /\ jobs'[j].dir = jobs[j].dir
        /\ \A i \in JobIds : i # j => jobs'[i] = jobs[i]
    <3>1. IsJob(jobs[j]) BY DEF PlanInv, PlanTypes
    <3>2. QED BY <2>1, <3>1 DEF PlanInv, PlanTypes, IsJob, Parts
  <2>3. Alive(j) /\ UNCHANGED <<module, spent>> BY DEF remove, At, Alive
  <2>4. dirs' \subseteq dirs BY <2>1
  <2>5. OwnDirs' BY <2>1, <2>2, <2>4, ZenonT(60) DEF DirsInv, OwnDirs, Mine
  <2>6. Numbered' BY <2>3, <2>4 DEF DirsInv, Numbered
  <2>7. Young' BY <2>2, <2>3, <2>4 DEF DirsInv, Young, OwnDirs, Live, Alive
  <2>8. QED BY <2>5, <2>6, <2>7 DEF DirsInv
<1>2. CASE \E j \in JobIds : makeOSPlan(j)
  <2> PICK j \in JobIds : makeOSPlan(j) BY <1>2
  <2>1. jobs'[j].pc = "over" /\ \A i \in JobIds : i # j => jobs'[i] = jobs[i]
    <3>1. IsJob(jobs[j]) BY DEF PlanInv, PlanTypes
    <3>2. QED BY <3>1 DEF PlanInv, PlanTypes, IsJob, Parts, makeOSPlan
  <2>2. UNCHANGED <<dirs, module, spent>> BY DEF makeOSPlan
  <2>3. QED BY <2>1, <2>2 DEF DirsInv, OwnDirs, Numbered, Mine, Young, Live, Alive
<1>3. CASE StopSystemOSPlan
  <2>1. \A j \in JobIds : jobs'[j].pc = jobs[j].pc /\ jobs'[j].dir = jobs[j].dir /\ jobs'[j].left = jobs[j].left
    <3> SUFFICES ASSUME NEW j \in JobIds
                 PROVE jobs'[j].pc = jobs[j].pc /\ jobs'[j].dir = jobs[j].dir /\ jobs'[j].left = jobs[j].left OBVIOUS
    <3>1. IsJob(jobs[j]) BY DEF PlanInv, PlanTypes
    <3>2. jobs'[j] = jobs[j] \/ jobs'[j] = [jobs[j] EXCEPT !.canceled = TRUE] BY <1>3 DEF StopSystemOSPlan
    <3>3. QED BY <3>1, <3>2 DEF IsJob, Parts
  <2>2. UNCHANGED <<dirs, module, spent>> BY <1>3 DEF StopSystemOSPlan
  <2>3. QED BY <2>1, <2>2 DEF DirsInv, OwnDirs, Numbered, Mine, Young, Live, Alive
<1>4. CASE Die
  <2>1. \A j \in JobIds : jobs'[j] = jobs[j] \/ jobs'[j].pc = "dead"
    <3>1. [NoJob EXCEPT !.pc = "dead"].pc = "dead" BY FirstJob DEF IsJob, Parts
    <3>2. QED BY <1>4, <3>1 DEF Die
  <2>2. UNCHANGED <<dirs, module>> /\ spent'.module = spent.module BY <1>4 DEF Die, PlanInv, PlanTypes, Spent
  <2>3. QED BY <2>1, <2>2 DEF DirsInv, OwnDirs, Numbered, Mine, Young, Live, Alive
<1>5. QED BY <1>1, <1>2, <1>3, <1>4

\* Beside: a directory grows old only when nobody is at work in it, and a module planner makes one of a new number.
LEMMA BesideDirs == ASSUME PlanInv, DirsInv, BesideStep PROVE DirsInv'
<1>0. UNCHANGED jobs BY DEF BesideStep, Expire, Age, CoreStart, ModulePlan, ModuleEnds
<1>1. CASE Expire
  BY <1>0, <1>1 DEF Expire, DirsInv, OwnDirs, Numbered, Mine, Young, Live, Alive
<1>2. CASE Age
  <2>1. PICK d \in dirs : ~d.old /\ ~Live(d) /\ dirs' = (dirs \ {d}) \cup {[d EXCEPT !.old = TRUE]} BY <1>2 DEF Age
  <2> DEFINE e == [d EXCEPT !.old = TRUE]
  <2>2. e.of = d.of /\ e.n = d.n BY DEF PlanInv, PlanTypes, Dir
  <2>3. UNCHANGED <<module, spent>> BY <1>2 DEF Age
  <2> HIDE DEF e
  <2>4. dirs' = (dirs \ {d}) \cup {e} BY <2>1 DEF e
  <2>5. \A j : Mine(j) = {} => Mine(j)' = {} BY <2>2, <2>4 DEF Mine
  <2>6. OwnDirs' BY <1>0, <2>2, <2>4, <2>5 DEF DirsInv, OwnDirs
  <2>7. Numbered' BY <2>2, <2>3, <2>4 DEF DirsInv, Numbered
  <2>8. Young' BY <1>0, <2>1, <2>2, <2>3, <2>4 DEF DirsInv, Young, Live, Alive
  <2>9. QED BY <2>6, <2>7, <2>8 DEF DirsInv
<1>3. CASE CoreStart
  <2>1. dirs' \subseteq dirs /\ UNCHANGED <<module, spent>> BY <1>3 DEF CoreStart
  <2>2. QED BY <1>0, <2>1 DEF DirsInv, OwnDirs, Numbered, Mine, Young, Live, Alive
<1>4. CASE ModulePlan
  <2> DEFINE n == spent.module + 1
             e == [of |-> "module", n |-> n, old |-> FALSE]
  <2>1. module' = n /\ spent'.module = n /\ n \in Nat /\ n > spent.module /\ n > 0
    BY <1>4 DEF ModulePlan, PlanInv, PlanTypes, Spent
  <2>2. dirs' \subseteq dirs \cup {e} BY <1>4 DEF ModulePlan
  <2>3. e.of = "module" /\ e.n = n /\ e.old = FALSE OBVIOUS
  <2>4. \A d \in dirs : d.n \in Nat /\ spent.module \in Nat BY DEF PlanInv, PlanTypes, Dir, Spent
  <2> HIDE DEF n, e
  <2>5. OwnDirs' BY <1>0, <2>2, <2>3 DEF DirsInv, OwnDirs, Mine
  <2>6. Numbered' BY <2>1, <2>2, <2>3, <2>4 DEF DirsInv, Numbered
  <2>7. Young'
    <3> SUFFICES ASSUME NEW d \in dirs', Live(d)' PROVE ~d.old BY DEF Young
    <3>1. CASE d = e BY <2>3, <3>1
    <3>2. CASE d \in dirs /\ d.of = "plan" BY <1>0, <3>2 DEF DirsInv, Young, Live, Alive
    <3>3. CASE d \in dirs /\ d.of # "plan" BY <2>1, <2>4, <3>3 DEF Live, DirsInv, Numbered
    <3>4. QED BY <2>2, <3>1, <3>2, <3>3
  <2>8. QED BY <2>5, <2>6, <2>7 DEF DirsInv
<1>5. CASE ModuleEnds
  <2>1. dirs' \subseteq dirs /\ module' = 0 /\ spent' = spent BY <1>5 DEF ModuleEnds
  <2>2. spent.module \in Nat BY DEF PlanInv, PlanTypes, Spent
  <2>3. OwnDirs' /\ Numbered' BY <1>0, <2>1, <2>2 DEF DirsInv, OwnDirs, Mine, Numbered
  <2>4. \A d \in dirs : d.of = "module" => d.n # 0 BY <2>2 DEF DirsInv, Numbered
  <2>5. Young' BY <1>0, <2>1, <2>4 DEF DirsInv, Young, Live, Alive
  <2>6. QED BY <2>3, <2>5 DEF DirsInv
<1>6. QED BY <1>1, <1>2, <1>3, <1>4, <1>5 DEF BesideStep

\* Every step keeps what is known of the directories.
LEMMA DirsStep == PlanInv /\ DirsInv /\ [PNext]_pVars => DirsInv'
<1> SUFFICES ASSUME PlanInv, DirsInv, [PNext]_pVars PROVE DirsInv' OBVIOUS
<1>1. CASE UNCHANGED pVars BY <1>1 DEF pVars, DirsInv, OwnDirs, Numbered, Mine, Young, Live, Alive
<1>2. QED BY <1>1, AskDirs, PhaseDirs, EndDirs, BesideDirs DEF PNext, JobStep, AskStep, Phase, BesideStep

\* A directory of a planner at work is young, whoever sweeps (sandbox_dir.go: SweepStale).
THEOREM DirsInvariant == PSpec => []DirsInv
  BY PlanInit, PlanStep, DirsStep, PTL DEF PSpec

\* A job is over when its end is published, and then its directory is gone or the end names it.
LEMMA OverTold ==
    ASSUME PlanInv, DirsInv, PNext, NEW j \in JobIds, Alive(j), jobs'[j].pc = "over"
    PROVE  Mine(j) = {} \/ pointer'.left
<1>1. CASE makeOSPlan(j)
  <2>1. jobs[j].pc = "publish" /\ pointer'.left = jobs[j].left BY <1>1 DEF makeOSPlan, At, NoState
  <2>2. QED BY <2>1 DEF DirsInv, OwnDirs
<1>2. ASSUME ~makeOSPlan(j) PROVE FALSE
  <2>1. CASE AskStep
    <3> PICK a \in Asks : Load(a) \/ AskPreflight(a) \/ StartSystemOSPlan(a) BY <2>1 DEF AskStep
    <3>1. CASE UNCHANGED jobs BY <3>1 DEF Alive
    <3>2. CASE StartSystemOSPlan(a) /\ CompareAndSwap(a)
      <4>1. jobs' = [jobs EXCEPT ![spent.starts + 1].pc = "sources"] BY <3>2 DEF StartSystemOSPlan
      <4>2. IsJob(jobs[j]) BY DEF PlanInv, PlanTypes
      <4>3. jobs'[j] = jobs[j] \/ jobs'[j].pc = "sources" BY <4>1, <4>2 DEF PlanInv, PlanTypes, IsJob, Parts
      <4>4. QED BY <4>3 DEF Alive
    <3>3. QED BY <3>1, <3>2 DEF Load, AskPreflight, StartSystemOSPlan
  <2>2. CASE \E i \in JobIds : Phase(i)
    <3> PICK i \in JobIds : Phase(i) BY <2>2
    <3>1. PICK r : Goes(i, r) BY PhaseSteps DEF PlanInv
    <3>2. jobs'[j] = jobs[j] \/ jobs'[j] = r BY <3>1 DEF Goes, Puts, PlanInv, PlanTypes
    <3>3. QED BY <3>1, <3>2 DEF Goes, Alive, Working
  <2>3. CASE \E i \in JobIds : remove(i)
    <3> PICK i \in JobIds : remove(i) BY <2>3
    <3>1. PICK gone \in BOOLEAN : jobs' = [jobs EXCEPT ![i].pc = "publish", ![i].left = ~gone] BY DEF remove
    <3>2. IsJob(jobs[i]) BY DEF PlanInv, PlanTypes
    <3>3. jobs'[j] = jobs[j] \/ jobs'[j].pc = "publish" BY <3>1, <3>2 DEF PlanInv, PlanTypes, IsJob, Parts
    <3>4. QED BY <3>3 DEF Alive
  <2>4. CASE \E i \in JobIds : makeOSPlan(i)
    <3> PICK i \in JobIds : makeOSPlan(i) BY <2>4
    <3>1. Alive(i) BY DEF makeOSPlan, At, Alive
    <3>2. QED BY <1>2, <3>1 DEF PlanInv, Pointed
  <2>5. CASE StopSystemOSPlan
    <3>1. IsJob(jobs[j]) BY DEF PlanInv, PlanTypes
    <3>2. jobs'[j] = jobs[j] \/ jobs'[j] = [jobs[j] EXCEPT !.canceled = TRUE] BY <2>5 DEF StopSystemOSPlan
    <3>3. jobs'[j].pc = jobs[j].pc BY <3>1, <3>2 DEF IsJob, Parts
    <3>4. QED BY <3>3 DEF Alive
  <2>6. CASE Die
    <3>1. [NoJob EXCEPT !.pc = "dead"].pc = "dead" BY FirstJob DEF IsJob, Parts
    <3>2. QED BY <2>6, <3>1 DEF Die
  <2>7. CASE BesideStep BY <2>7 DEF BesideStep, Expire, Age, CoreStart, ModulePlan, ModuleEnds, Alive
  <2>8. QED BY <2>1, <2>2, <2>3, <2>4, <2>5, <2>6, <2>7 DEF PNext, JobStep, AskStep, Phase, BesideStep
<1>3. QED BY <1>1, <1>2

\* Only the planner itself takes away the directory that it works in.
LEMMA SweepSpares ==
    ASSUME PlanInv, DirsInv, PNext, NEW d \in dirs, Live(d), d \notin dirs'
    PROVE  ~Live(d)' \/ (d.of = "plan" /\ jobs[d.n].pc = "remove")
<1>1. ~d.old BY DEF DirsInv, Young
<1>2. CASE AskStep BY <1>2 DEF AskStep, Load, AskPreflight, StartSystemOSPlan
<1>3. CASE \E j \in JobIds : Phase(j)
  <2> PICK j \in JobIds : Phase(j) BY <1>3
  <2>1. QED BY PhaseSteps DEF PlanInv
<1>4. CASE \E j \in JobIds : remove(j) BY <1>4 DEF remove, At, Mine
<1>5. CASE (\E j \in JobIds : makeOSPlan(j)) \/ StopSystemOSPlan \/ Die BY <1>5 DEF makeOSPlan, StopSystemOSPlan, Die
<1>6. CASE Expire \/ Age BY <1>6 DEF Expire, Age
<1>7. CASE CoreStart \/ ModulePlan BY <1>1, <1>7 DEF CoreStart, ModulePlan, SweepStale
<1>8. CASE ModuleEnds
  <2>1. spent.module \in Nat BY DEF PlanInv, PlanTypes, Spent
  <2>2. d.of = "module" /\ d.n # 0 /\ module' = 0 BY <1>8, <2>1 DEF ModuleEnds, DirsInv, Numbered
  <2>3. QED BY <2>2 DEF Live
<1>9. QED BY <1>2, <1>3, <1>4, <1>5, <1>6, <1>7, <1>8 DEF PNext, JobStep, AskStep, Phase

\* The end of a plan is published when its directory is gone, or names it; and no sweep takes the directory of
\* a planner that is at work (system_os_plan.go: makeOSPlan; sandbox_dir.go: Remove, SweepStale).
THEOREM DirsToldHolds == PSpec => DirsTold
<1> DEFINE Tells == /\ \A j \in JobIds : Alive(j) /\ jobs'[j].pc = "over" => Mine(j) = {} \/ pointer'.left
                    /\ \A d \in dirs : Live(d) /\ d \notin dirs' => ~Live(d)' \/ (d.of = "plan" /\ jobs[d.n].pc = "remove")
<1>1. PlanInv /\ DirsInv /\ [PNext]_pVars => [Tells]_pVars BY OverTold, SweepSpares
<1>2. QED BY <1>1, PlanInvariant, DirsInvariant, PTL DEF PSpec, DirsTold
===============================================================================
