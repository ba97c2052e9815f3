------------------------------ MODULE Jobs_proofs ------------------------------
(* The jobs that change packages keep apart, for any number of requests, jobs   *)
(* and faults: JobsApart of Maintenance, from what the mutex and the lock of    *)
(* the assistant protect.                                                       *)
(*                                                                              *)
(* OneAtATime does not carry itself: a request that is about to start its unit  *)
(* must still find none (SeenFree), which holds because it has kept the mutex   *)
(* since it looked (Holds); and a log is the unit's own because the unit has    *)
(* the lock of the assistant while it works (Locked).                           *)
(*                                                                              *)
(* The second part is about the run of the Docker update: KeepsItsWord of       *)
(* DockerRun.                                                                   *)
EXTENDS Maintenance, DockerRun, FiniteSetTheorems, SequenceTheorems, WellFoundedInduction, TLAPS

Pcs == {"idle", "look", "plan", "second", "queue", "start", "failed", "abandon", "done"}
Request == [kind : JobKinds \cup {"none"}, pc : Pcs, job : Nat, said : {"nothing", "refused", "started", "failed", "job"}]
UnitRec == [state : {"gone", "asked", "running"}, job : Nat]
LogRec == [job : Nat, begun : BOOLEAN, end : {"none", "ok", "failed"}, age : {"fresh", "old", "silent"}]
JobTypes ==
    /\ mutex \in Requests \cup {Nobody} /\ req \in [Requests -> Request]
    /\ units \in [JobKinds -> UnitRec] /\ logs \in [JobKinds -> LogRec]
    /\ lock \in {Nobody, "unit", "cli"} /\ nonce \in Nat /\ doubt \in BOOLEAN
    /\ \A r \in Requests : req[r].pc \notin {"idle", "done"} => req[r].kind \in JobKinds
\* A request has the mutex from its second look until systemd answered.
Holds == \A r \in Requests : req[r].pc \in {"queue", "start", "failed", "abandon"} => mutex = r
\* What a request saw at its second look still holds when its unit is started: no unit is there.
SeenFree == ~doubt => \A r \in Requests : req[r].pc \in {"queue", "start"} => \A k \in JobKinds : units[k].state = "gone"
\* At most one unit is there.
Single == ~doubt => \A k, l \in JobKinds : units[k].state # "gone" /\ units[l].state # "gone" => k = l
\* The unit of a module has the lock of the assistant while it works, and the log is its own.
Locked == units["module"].state = "running" =>
            lock = "unit" /\ logs["module"].job = units["module"].job /\ logs["module"].end = "none"
JobsInv == JobTypes /\ Holds /\ SeenFree /\ Single /\ Locked

-------------------------------------------------------------------------------
Crit == {"queue", "start", "failed", "abandon"}
AllGone == \A k \in JobKinds : units[k].state = "gone"
\* What a step of one request does to the requests.
Step(r, p) == /\ req' \in [Requests -> Request] /\ req'[r].pc = p /\ req'[r].kind = req[r].kind
              /\ \A q \in Requests \ {r} : req'[q] = req[q]
\* A request goes on, or is answered.
LEMMA Goes == ASSUME JobTypes, NEW r \in Requests, NEW p \in Pcs, GoTo(r, p) PROVE Step(r, p)
  BY DEF JobTypes, GoTo, Step, Request

\* Answering a request ends it and changes nothing but its record.
LEMMA Says ==
    ASSUME JobTypes, NEW r \in Requests, NEW s \in {"refused", "started", "failed", "job"}, Say(r, s)
    PROVE  Step(r, "done")
  BY DEF JobTypes, Say, Step, Request, Pcs
\* Nobody is no request.
LEMMA NobodyElse == Nobody \notin Requests
  BY MaintenanceAssumption DEF Nobody

\* A step of a request keeps the invariant when it takes the mutex from nobody else, has it where it must, comes to the
\* start with every unit gone, and lets the log of a working module alone.
LEMMA RequestKeeps ==
    ASSUME JobsInv, NEW r \in Requests, NEW p \in Pcs, Step(r, p),
           mutex' \in Requests \cup {Nobody}, \A q \in Requests \ {r} : mutex = q => mutex' = q,
           p \in Crit => mutex' = r, p \in {"queue", "start"} => doubt' \/ AllGone,
           p \notin {"idle", "done"} => req'[r].kind \in JobKinds,
           UNCHANGED <<units, lock>>, logs' \in [JobKinds -> LogRec],
           units["module"].state = "running" => logs'["module"] = logs["module"],
           nonce' \in Nat, doubt' \in BOOLEAN, doubt => doubt'
    PROVE  JobsInv'
<1>1. JobTypes'
  <2>1. \A q \in Requests : req'[q].pc \notin {"idle", "done"} => req'[q].kind \in JobKinds
    BY DEF JobsInv, JobTypes, Step
  <2>2. QED BY <2>1 DEF JobsInv, JobTypes, Step
<1>2. Holds'
  <2>1. SUFFICES ASSUME NEW q \in Requests, req'[q].pc \in {"queue", "start", "failed", "abandon"} PROVE mutex' = q BY DEF Holds
  <2>2. CASE q = r BY <2>1, <2>2 DEF Crit, Step
  <2>3. CASE q # r BY <2>1, <2>3 DEF Step, JobsInv, Holds
  <2>4. QED BY <2>2, <2>3
<1>3. SeenFree'
  <2>1. SUFFICES ASSUME ~doubt', NEW q \in Requests, req'[q].pc \in {"queue", "start"} PROVE AllGone BY DEF SeenFree, AllGone
  <2>2. CASE q = r BY <2>1, <2>2 DEF Step
  <2>3. CASE q # r BY <2>1, <2>3 DEF Step, JobsInv, SeenFree, AllGone
  <2>4. QED BY <2>2, <2>3
<1>4. Single' BY DEF JobsInv, Single
<1>5. Locked' BY DEF JobsInv, Locked
<1>6. QED BY <1>1, <1>2, <1>3, <1>4, <1>5 DEF JobsInv

\* A step of a unit keeps it when no unit comes to be there, but in doubt.
LEMMA UnitKeeps ==
    ASSUME JobsInv, UNCHANGED <<mutex, req, nonce>>, units' \in [JobKinds -> UnitRec], logs' \in [JobKinds -> LogRec],
           lock' \in {Nobody, "unit", "cli"}, doubt' \in BOOLEAN, doubt => doubt',
           ~doubt' => \A k \in JobKinds : units'[k].state # "gone" => units[k].state # "gone", Locked'
    PROVE  JobsInv'
<1>1. JobTypes' BY DEF JobsInv, JobTypes
<1>2. Holds' BY DEF JobsInv, Holds
<1>3. SeenFree' BY DEF JobsInv, SeenFree
<1>4. Single' BY DEF JobsInv, Single
<1>5. QED BY <1>1, <1>2, <1>3, <1>4 DEF JobsInv

\* Who lets go of the mutex takes it from nobody else.
LEMMA LeaveGives ==
    ASSUME JobTypes, NEW r \in Requests, Leave(r)
    PROVE  mutex' \in Requests \cup {Nobody} /\ \A q \in Requests \ {r} : mutex = q => mutex' = q
  BY DEF JobTypes, Leave

\* A look that systemd answered in full finds no unit.
LEMMA LookSees == ASSUME JobTypes, NEW k \in JobKinds, ~Blocked(k, {}) PROVE AllGone
<1>1. \A l \in JobKinds : unitActive(l, {}) <=> units[l].state # "gone" BY DEF unitActive
<1>2. CASE k = "packages" BY <1>1, <1>2 DEF Blocked, maintenanceBusy, AllGone, JobKinds
<1>3. CASE k = "docker" BY <1>1, <1>3 DEF Blocked, maintenanceBusy, dockerBusy, AllGone, JobKinds
<1>4. CASE k = "module" BY <1>1, <1>4 DEF Blocked, maintenanceBusy, moduleBlocked, AllGone, JobKinds
<1>5. QED BY <1>2, <1>3, <1>4 DEF JobKinds

-------------------------------------------------------------------------------
\* A request is made, looks for the first time, makes its plan and is answered: it holds nothing.
LEMMA AskKeeps == ASSUME JobsInv, NEW r \in Requests, NEW k \in JobKinds, Ask(r, k) PROVE JobsInv'
<1>1. PICK p \in {"look", "second"} : req' = [req EXCEPT ![r] = [Waiting EXCEPT !.kind = k, !.pc = p]]
  BY DEF Ask
<1>2. [Waiting EXCEPT !.kind = k, !.pc = p] \in Request /\ [Waiting EXCEPT !.kind = k, !.pc = p].pc = p /\ [Waiting EXCEPT !.kind = k, !.pc = p].kind = k
  BY DEF Waiting, Request, Pcs, NoJob
<1>3. /\ req' \in [Requests -> Request] /\ req'[r].pc = p /\ req'[r].kind = k /\ \A q \in Requests \ {r} : req'[q] = req[q]
  BY <1>1, <1>2 DEF JobsInv, JobTypes
<1>4. UNCHANGED <<mutex, units, logs, lock, nonce, doubt>> BY DEF Ask
<1>5. JobTypes'
  <2>1. \A q \in Requests : req'[q].pc \notin {"idle", "done"} => req'[q].kind \in JobKinds BY <1>3 DEF JobsInv, JobTypes
  <2>2. QED BY <1>3, <1>4, <2>1 DEF JobsInv, JobTypes
<1>6. Holds' /\ SeenFree'
  <2>1. \A q \in Requests : req'[q].pc \in {"queue", "start", "failed", "abandon"} => req'[q] = req[q] BY <1>3
  <2>2. QED BY <1>4, <2>1 DEF JobsInv, Holds, SeenFree
<1>7. Single' /\ Locked' BY <1>4 DEF JobsInv, Single, Locked
<1>8. QED BY <1>5, <1>6, <1>7 DEF JobsInv

\* The first look at the other jobs keeps the invariant.
LEMMA FirstKeeps == ASSUME JobsInv, NEW r \in Requests, NEW mute \in SUBSET JobKinds, FirstLook(r, mute) PROVE JobsInv'
<1>1. UNCHANGED <<units, logs, lock, nonce, doubt>> /\ req[r].pc = "look" BY DEF FirstLook, At
<1>2. JobTypes BY DEF JobsInv
<1>3. CASE GoTo(r, "plan") /\ UNCHANGED <<mutex, turn>>
  <2>1. Step(r, "plan") BY <1>2, <1>3, Goes DEF Pcs
  <2>2. req'[r].kind \in JobKinds BY <1>1, <1>2, <2>1 DEF JobTypes, Step
  <2>3. QED BY <1>1, <1>2, <1>3, <2>1, <2>2, RequestKeeps DEF JobTypes, Crit, Pcs
<1>4. CASE Say(r, "refused") /\ Leave(r)
  <2>1. Step(r, "done") BY <1>2, <1>4, Says
  <2>2. QED BY <1>1, <1>2, <1>4, <2>1, LeaveGives, RequestKeeps DEF JobTypes, Crit, Pcs
<1>5. QED BY <1>3, <1>4 DEF FirstLook

\* Making the plan keeps the invariant.
LEMMA PlanKeeps == ASSUME JobsInv, NEW r \in Requests, MakePlan(r) PROVE JobsInv'
<1>1. UNCHANGED <<units, logs, lock, nonce, doubt>> /\ req[r].pc = "plan" BY DEF MakePlan, At
<1>2. JobTypes BY DEF JobsInv
<1>3. CASE GoTo(r, "second") /\ UNCHANGED <<mutex, turn>>
  <2>1. Step(r, "second") BY <1>2, <1>3, Goes DEF Pcs
  <2>2. req'[r].kind \in JobKinds BY <1>1, <1>2, <2>1 DEF JobTypes, Step
  <2>3. QED BY <1>1, <1>2, <1>3, <2>1, <2>2, RequestKeeps DEF JobTypes, Crit, Pcs
<1>4. CASE Say(r, "refused") /\ Leave(r)
  <2>1. Step(r, "done") BY <1>2, <1>4, Says
  <2>2. QED BY <1>1, <1>2, <1>4, <2>1, LeaveGives, RequestKeeps DEF JobTypes, Crit, Pcs
<1>5. QED BY <1>3, <1>4 DEF MakePlan

\* The answer that is given after the start keeps the invariant.
LEMMA AnsweredKeeps == ASSUME JobsInv, NEW r \in Requests, Answered(r) PROVE JobsInv'
<1>1. UNCHANGED <<mutex, units, logs, lock, nonce, doubt>> BY DEF Answered
<1>2. Waiting \in Request /\ Waiting.pc = "idle" BY DEF Waiting, Request, Pcs, NoJob
<1>3. req' \in [Requests -> Request] /\ req'[r].pc = "idle" /\ \A q \in Requests \ {r} : req'[q] = req[q]
  BY <1>2 DEF Answered, JobsInv, JobTypes
<1>4. JobTypes'
  <2>1. \A q \in Requests : req'[q].pc \notin {"idle", "done"} => req'[q].kind \in JobKinds BY <1>3 DEF JobsInv, JobTypes
  <2>2. QED BY <1>1, <1>3, <2>1 DEF JobsInv, JobTypes
<1>5. Holds' /\ SeenFree'
  <2>1. \A q \in Requests : req'[q].pc \in {"queue", "start", "failed", "abandon"} => req'[q] = req[q] BY <1>3
  <2>2. QED BY <1>1, <2>1 DEF JobsInv, Holds, SeenFree
<1>6. Single' /\ Locked' BY <1>1 DEF JobsInv, Single, Locked
<1>7. QED BY <1>4, <1>5, <1>6 DEF JobsInv

\* The second look is the one that counts: it is made under the mutex, and when systemd answered no unit is there.
LEMMA SecondKeeps == ASSUME JobsInv, NEW r \in Requests, NEW mute \in SUBSET JobKinds, SecondLook(r, mute) PROVE JobsInv'
<1>1. UNCHANGED <<units, logs, lock, nonce>> /\ req[r].pc = "second" /\ mutex = Nobody BY DEF SecondLook, At
<1>2. JobTypes /\ doubt \in BOOLEAN /\ req[r].kind \in JobKinds BY <1>1 DEF JobsInv, JobTypes
<1>3. CASE ~Blocked(req[r].kind, mute) /\ mutex' = r /\ GoTo(r, "queue") /\ doubt' = (doubt \/ mute # {})
  <2>1. Step(r, "queue") BY <1>2, <1>3, Goes DEF Pcs
  <2>2. req'[r].kind \in JobKinds BY <1>2, <2>1 DEF Step
  <2>3. doubt' \/ AllGone BY <1>2, <1>3, LookSees
  <2>4. \A q \in Requests \ {r} : mutex = q => mutex' = q BY <1>1, NobodyElse
  <2>5. doubt' \in BOOLEAN /\ (doubt => doubt') BY <1>2, <1>3
  <2>6. mutex' = r /\ mutex' \in Requests \cup {Nobody} /\ "queue" \in Pcs BY <1>3 DEF Pcs
  <2>7. logs' \in [JobKinds -> LogRec] /\ logs'["module"] = logs["module"] /\ nonce' \in Nat BY <1>1, <1>2 DEF JobTypes
  <2>8. QED BY <1>1, <2>1, <2>2, <2>3, <2>4, <2>5, <2>6, <2>7, RequestKeeps
<1>4. CASE Say(r, "refused") /\ Leave(r) /\ UNCHANGED doubt
  <2>1. Step(r, "done") BY <1>2, <1>4, Says
  <2>2. QED BY <1>1, <1>2, <1>4, <2>1, LeaveGives, RequestKeeps DEF JobTypes, Crit, Pcs
<1>5. QED BY <1>3, <1>4 DEF SecondLook
\* The line of the job replaces the log: for a module only when nobody holds the lock.
LEMMA QueueKeeps == ASSUME JobsInv, NEW r \in Requests, Queue(r) PROVE JobsInv'
<1>1. UNCHANGED <<units, lock, doubt>> /\ req[r].pc = "queue" /\ mutex = r BY DEF Queue, At, JobsInv, Holds
<1>2. JobTypes /\ doubt \in BOOLEAN /\ req[r].kind \in JobKinds BY <1>1 DEF JobsInv, JobTypes
<1> DEFINE k == req[r].kind
           l == [job |-> nonce', begun |-> FALSE, end |-> "none", age |-> "fresh"]
<1>3. CASE /\ k = "module" => lock = Nobody
           /\ nonce' = nonce + 1 /\ logs' = [logs EXCEPT ![k] = l]
           /\ req' = [req EXCEPT ![r].pc = "start", ![r].job = nonce'] /\ UNCHANGED <<mutex, turn>>
  <2>1. nonce' \in Nat BY <1>2, <1>3 DEF JobTypes
  <2>2. l \in LogRec BY <2>1 DEF LogRec
  <2> HIDE DEF l
  <2>3. logs' \in [JobKinds -> LogRec] /\ (k # "module" => logs'["module"] = logs["module"]) BY <1>2, <1>3, <2>2 DEF JobTypes, JobKinds
  <2>4. Step(r, "start") BY <1>2, <1>3, <2>1 DEF JobTypes, Step, Request, Pcs
  <2>5. units["module"].state = "running" => lock = "unit" BY DEF JobsInv, Locked
  <2>6. units["module"].state = "running" => logs'["module"] = logs["module"] BY <1>3, <2>3, <2>5 DEF Nobody
  <2>7. doubt' \/ AllGone BY <1>1 DEF JobsInv, SeenFree, AllGone
  <2>8. req'[r].kind \in JobKinds /\ "start" \in Pcs BY <1>2, <2>4 DEF Step, Pcs
  <2>9. mutex' = r /\ mutex' \in Requests \cup {Nobody} /\ \A q \in Requests \ {r} : mutex = q => mutex' = q BY <1>1, <1>3
  <2>10. QED BY <1>1, <1>2, <2>1, <2>3, <2>4, <2>6, <2>7, <2>8, <2>9, RequestKeeps
<1>4. CASE Say(r, "refused") /\ Leave(r) /\ UNCHANGED <<nonce, logs>>
  <2>1. Step(r, "done") BY <1>2, <1>4, Says
  <2>2. QED BY <1>1, <1>2, <1>4, <2>1, LeaveGives, RequestKeeps DEF JobTypes, Crit, Pcs
<1>5. QED BY <1>3, <1>4 DEF Queue
\* systemd-run: the one step that brings a unit, while every unit is gone and nobody else has the mutex.
LEMMA StartKeeps == ASSUME JobsInv, NEW r \in Requests, Start(r) PROVE JobsInv'
<1>1. UNCHANGED <<logs, lock, nonce, doubt>> /\ req[r].pc = "start" /\ mutex = r BY DEF Start, At, JobsInv, Holds
<1>2. JobTypes /\ doubt \in BOOLEAN /\ req[r].kind \in JobKinds BY <1>1 DEF JobsInv, JobTypes
<1>3. \A q \in Requests \ {r} : req[q].pc \notin Crit BY <1>1 DEF JobsInv, Holds, Crit
<1>4. ASSUME NEW p \in {"done", "failed"}, Step(r, p), p = "failed" => mutex' = r, UNCHANGED units,
             mutex' \in Requests \cup {Nobody}, \A q \in Requests \ {r} : mutex = q => mutex' = q
      PROVE  JobsInv'
  <2>1. p \in Pcs /\ p \notin {"queue", "start", "abandon"} /\ (p \in Crit => mutex' = r) BY <1>4 DEF Pcs, Crit
  <2>2. req'[r].kind \in JobKinds BY <1>2, <1>4 DEF Step
  <2>3. logs' \in [JobKinds -> LogRec] /\ logs'["module"] = logs["module"] /\ nonce' \in Nat BY <1>1, <1>2 DEF JobTypes
  <2>4. QED BY <1>1, <1>2, <1>4, <2>1, <2>2, <2>3, RequestKeeps
<1>5. ASSUME NEW p \in {"done", "failed"}, Step(r, p), p = "failed" => mutex' = r, Started(r), AllGone \/ doubt,
             units[req[r].kind].state = "gone",
             mutex' \in Requests \cup {Nobody}, \A q \in Requests \ {r} : mutex = q => mutex' = q
      PROVE  JobsInv'
  <2> DEFINE k == req[r].kind
             u == [state |-> "asked", job |-> req[r].job]
  <2>1. u \in UnitRec /\ u.state = "asked" BY <1>2 DEF JobTypes, Request, UnitRec
  <2> HIDE DEF u
  <2>2. units' \in [JobKinds -> UnitRec] /\ units'[k].state = "asked" /\ \A l \in JobKinds \ {k} : units'[l] = units[l]
    BY <1>2, <1>5, <2>1 DEF JobTypes, Started, u
  <2>3. JobTypes'
    <3>1. \A q \in Requests : req'[q].pc \notin {"idle", "done"} => req'[q].kind \in JobKinds BY <1>2, <1>5 DEF JobTypes, Step
    <3>2. QED BY <1>1, <1>2, <1>5, <2>2, <3>1 DEF JobTypes, Step
  <2>4. Holds' /\ SeenFree'
    <3>1. \A q \in Requests : req'[q].pc \in Crit => q = r /\ p = "failed" BY <1>3, <1>5 DEF Step, Crit
    <3>2. QED BY <1>5, <3>1 DEF Holds, SeenFree, Step, Crit
  <2>5. Single' BY <1>1, <1>5, <2>2 DEF Single, AllGone
  <2>6. Locked' BY <1>1, <1>2, <2>2 DEF JobsInv, Locked, JobKinds
  <2>7. QED BY <2>3, <2>4, <2>5, <2>6 DEF JobsInv
<1>6. AllGone \/ doubt BY <1>1 DEF JobsInv, SeenFree, AllGone
<1>7. CASE units[req[r].kind].state = "gone" /\ Started(r) /\ Say(r, "started") /\ Leave(r)
  <2>1. Step(r, "done") BY <1>2, <1>7, Says
  <2>2. QED BY <1>2, <1>5, <1>6, <1>7, <2>1, LeaveGives
<1>8. CASE units[req[r].kind].state = "gone" /\ Started(r) /\ GoTo(r, "failed") /\ UNCHANGED <<mutex, turn>>
  <2>1. Step(r, "failed") BY <1>2, <1>8, Goes DEF Pcs
  <2>2. mutex' = r /\ mutex' \in Requests \cup {Nobody} /\ \A q \in Requests \ {r} : mutex = q => mutex' = q BY <1>1, <1>8
  <2>3. QED BY <1>5, <1>6, <1>8, <2>1, <2>2
<1>9. CASE GoTo(r, "failed") /\ UNCHANGED <<units, mutex, turn>>
  <2>1. Step(r, "failed") BY <1>2, <1>9, Goes DEF Pcs
  <2>2. mutex' = r /\ mutex' \in Requests \cup {Nobody} /\ \A q \in Requests \ {r} : mutex = q => mutex' = q BY <1>1, <1>9
  <2>3. QED BY <1>4, <1>9, <2>1, <2>2
<1>10. QED BY <1>7, <1>8, <1>9 DEF Start
\* The start that failed is written over the log of the packages or of Docker.
LEMMA FailedKeeps == ASSUME JobsInv, NEW r \in Requests, StartFailed(r) PROVE JobsInv'
<1>1. UNCHANGED <<units, lock, nonce, doubt>> /\ req[r].pc = "failed" /\ Leave(r) BY DEF StartFailed, At
<1>2. JobTypes /\ req[r].kind \in JobKinds BY <1>1 DEF JobsInv, JobTypes
<1> DEFINE l == [job |-> req[r].job, begun |-> FALSE, end |-> "failed", age |-> "fresh"]
<1>3. l \in LogRec BY <1>2 DEF JobTypes, Request, LogRec
<1>4. logs' = [logs EXCEPT ![req[r].kind] = l] /\ req[r].kind # "module" BY DEF StartFailed
<1> HIDE DEF l
<1>5. logs' \in [JobKinds -> LogRec] /\ logs'["module"] = logs["module"] BY <1>2, <1>3, <1>4 DEF JobTypes, JobKinds
<1>6. Step(r, "done") BY <1>2, Says DEF StartFailed
<1>7. QED BY <1>1, <1>2, <1>5, <1>6, LeaveGives, RequestKeeps DEF JobTypes, Crit, Pcs
\* A module asks whether its unit is there all the same.
LEMMA ExistsKeeps == ASSUME JobsInv, NEW r \in Requests, NEW mute \in SUBSET JobKinds, StartExists(r, mute) PROVE JobsInv'
<1>1. UNCHANGED <<units, logs, lock, nonce, doubt>> /\ req[r].pc = "failed" /\ mutex = r BY DEF StartExists, At, JobsInv, Holds
<1>2. JobTypes /\ req[r].kind \in JobKinds BY <1>1 DEF JobsInv, JobTypes
<1>3. CASE Say(r, "job") /\ Leave(r)
  <2>1. Step(r, "done") BY <1>2, <1>3, Says
  <2>2. QED BY <1>1, <1>2, <1>3, <2>1, LeaveGives, RequestKeeps DEF JobTypes, Crit, Pcs
<1>4. CASE GoTo(r, "abandon") /\ UNCHANGED <<mutex, turn>>
  <2>1. Step(r, "abandon") BY <1>2, <1>4, Goes DEF Pcs
  <2>2. req'[r].kind \in JobKinds BY <1>2, <2>1 DEF Step
  <2>3. mutex' = r /\ mutex' \in Requests \cup {Nobody} /\ \A q \in Requests \ {r} : mutex = q => mutex' = q BY <1>1, <1>4
  <2>4. QED BY <1>1, <1>2, <2>1, <2>2, <2>3, RequestKeeps DEF JobTypes, Crit, Pcs
<1>5. QED BY <1>3, <1>4 DEF StartExists
\* The log of a module is closed under its lock only, so no unit works.
LEMMA AbandonKeeps == ASSUME JobsInv, NEW r \in Requests, Abandon(r) PROVE JobsInv'
<1>1. UNCHANGED <<units, lock, nonce, doubt>> /\ req[r].pc = "abandon" /\ Leave(r) BY DEF Abandon, At
<1>2. JobTypes BY DEF JobsInv
<1>3. Step(r, "done") BY <1>2, Says DEF Abandon
<1>4. logs' \in [JobKinds -> LogRec] /\ (units["module"].state = "running" => logs'["module"] = logs["module"])
  <2>1. CASE UNCHANGED logs BY <1>2, <2>1 DEF JobTypes
  <2>2. CASE lock = Nobody /\ Abandoned(r)
    <3> DEFINE l == [job |-> req[r].job, begun |-> FALSE, end |-> "failed", age |-> "fresh"]
    <3>1. l \in LogRec BY <1>2 DEF JobTypes, Request, LogRec
    <3>2. logs' = [logs EXCEPT !["module"] = l] BY <2>2 DEF Abandoned
    <3> HIDE DEF l
    <3>3. logs' \in [JobKinds -> LogRec] BY <1>2, <3>1, <3>2 DEF JobTypes
    <3>4. units["module"].state # "running" BY <2>2 DEF JobsInv, Locked, Nobody
    <3>5. QED BY <3>3, <3>4
  <2>3. QED BY <2>1, <2>2 DEF Abandon
<1>5. QED BY <1>1, <1>2, <1>3, <1>4, LeaveGives, RequestKeeps DEF JobTypes, Crit, Pcs

-------------------------------------------------------------------------------
\* What is known of the units, of the logs and of a log that is written.
LEMMA UnitFacts ==
    ASSUME JobTypes, NEW k \in JobKinds
    PROVE  /\ units[k] \in UnitRec /\ units[k].job \in Nat /\ logs[k] \in LogRec
           /\ Gone(k) => /\ units' \in [JobKinds -> UnitRec] /\ units'[k].state = "gone"
                         /\ \A l \in JobKinds \ {k} : units'[l] = units[l]
           /\ Runs(k) => /\ units' \in [JobKinds -> UnitRec] /\ units'[k].state = "running" /\ units'[k].job = units[k].job
                         /\ \A l \in JobKinds \ {k} : units'[l] = units[l]
<1>1. units[k] \in UnitRec /\ logs[k] \in LogRec /\ units[k].job \in Nat BY DEF JobTypes, UnitRec
<1>2. Gone(k) => /\ units' \in [JobKinds -> UnitRec] /\ units'[k].state = "gone"
                 /\ \A l \in JobKinds \ {k} : units'[l] = units[l]
  <2> DEFINE g == [state |-> "gone", job |-> NoJob]
  <2>1. g \in UnitRec /\ g.state = "gone" BY DEF UnitRec, NoJob
  <2>2. Gone(k) => units' = [units EXCEPT ![k] = g] BY DEF Gone
  <2> HIDE DEF g
  <2>3. QED BY <2>1, <2>2 DEF JobTypes
<1>3. Runs(k) => /\ units' \in [JobKinds -> UnitRec] /\ units'[k].state = "running" /\ units'[k].job = units[k].job
                 /\ \A l \in JobKinds \ {k} : units'[l] = units[l]
  BY DEF Runs, JobTypes, UnitRec
<1>4. QED BY <1>1, <1>2, <1>3

\* Writing the log of a kind of job leaves the logs of the others.
LEMMA WriteFacts ==
    ASSUME JobTypes, NEW k \in JobKinds, NEW l \in LogRec, Write(k, l)
    PROVE  logs' \in [JobKinds -> LogRec] /\ logs'[k] = l /\ \A j \in JobKinds \ {k} : logs'[j] = logs[j]
  BY DEF Write, JobTypes
\* A log that goes on keeps its job and its last word.
LEMMA YoungFacts ==
    ASSUME NEW l \in LogRec, NEW a \in {"fresh", "old", "silent"}
    PROVE  [l EXCEPT !.age = a] \in LogRec /\ [l EXCEPT !.age = a].job = l.job /\ [l EXCEPT !.age = a].end = l.end
  BY DEF LogRec

\* The unit's first line keeps the invariant.
LEMMA BeginsKeeps == ASSUME JobsInv, NEW k \in JobKinds, UnitBegins(k) PROVE JobsInv'
<1>1. JobTypes /\ k # "module" /\ units[k].state = "asked" /\ Runs(k) /\ UNCHANGED <<mutex, req, lock, nonce, doubt>> BY DEF UnitBegins, JobsInv
<1> DEFINE l == [logs[k] EXCEPT !.age = "fresh", !.begun = @ \/ k = "packages" \/ logs[k].job = units[k].job]
<1>2. l \in LogRec BY <1>1, UnitFacts DEF LogRec
<1>3. Write(k, l) BY DEF UnitBegins
<1> HIDE DEF l
<1>4. logs' \in [JobKinds -> LogRec] /\ logs'["module"] = logs["module"] BY <1>1, <1>2, <1>3, WriteFacts DEF JobKinds
<1>5. /\ units' \in [JobKinds -> UnitRec] /\ units'["module"] = units["module"]
      /\ \A j \in JobKinds : units'[j].state # "gone" => units[j].state # "gone" BY <1>1, UnitFacts DEF JobKinds
<1>6. Locked' BY <1>1, <1>4, <1>5 DEF JobsInv, Locked
<1>7. QED BY <1>1, <1>4, <1>5, <1>6, UnitKeeps DEF JobTypes
\* The unit of a module begins only with the lock, and its log is cut to its own.
LEMMA ModuleKeeps == ASSUME JobsInv, ModuleBegins PROVE JobsInv'
<1>1. JobTypes /\ "module" \in JobKinds /\ units["module"].state = "asked" /\ UNCHANGED <<mutex, req, nonce, doubt>> BY DEF ModuleBegins, JobsInv, JobKinds
<1>2. CASE lock' = "unit" /\ Runs("module") /\ Write("module", openLog(units["module"].job))
  <2> DEFINE l == openLog(units["module"].job)
  <2>1. l \in LogRec /\ l.job = units["module"].job /\ l.end = "none" BY <1>1, UnitFacts DEF openLog, LogRec
  <2>1a. Write("module", l) BY <1>2
  <2> HIDE DEF l
  <2>2. logs' \in [JobKinds -> LogRec] /\ logs'["module"] = l BY <1>1, <2>1, <2>1a, WriteFacts
  <2>3. /\ units' \in [JobKinds -> UnitRec] /\ units'["module"].job = units["module"].job
        /\ \A j \in JobKinds : units'[j].state # "gone" => units[j].state # "gone" BY <1>1, <1>2, UnitFacts
  <2>4. Locked' BY <1>2, <2>1, <2>2, <2>3 DEF Locked
  <2>5. QED BY <1>1, <1>2, <2>2, <2>3, <2>4, UnitKeeps DEF JobTypes
<1>3. CASE Gone("module") /\ UNCHANGED <<lock, logs>>
  <2>1. /\ units' \in [JobKinds -> UnitRec] /\ units'["module"].state = "gone"
        /\ \A j \in JobKinds : units'[j].state # "gone" => units[j].state # "gone" BY <1>1, <1>3, UnitFacts
  <2>2. Locked' BY <2>1 DEF Locked
  <2>3. QED BY <1>1, <1>3, <2>1, <2>2, UnitKeeps DEF JobTypes
<1>4. QED BY <1>2, <1>3 DEF ModuleBegins
\* A unit writes, or time passes.
LEMMA WritesKeeps == ASSUME JobsInv, NEW k \in JobKinds, UnitSays(k) \/ Age(k) PROVE JobsInv'
<1>1. JobTypes /\ UNCHANGED <<mutex, req, units, lock, nonce, doubt>> BY DEF UnitSays, Age, JobsInv
<1>2. logs[k] \in LogRec BY <1>1, UnitFacts
<1>3. PICK a \in {"fresh", "old", "silent"} : Write(k, [logs[k] EXCEPT !.age = a])
  <2>1. CASE UnitSays(k) BY <2>1 DEF UnitSays
  <2>2. CASE Age(k)
    <3>1. Write(k, [logs[k] EXCEPT !.age = IF logs[k].age = "fresh" THEN "old" ELSE "silent"]) BY <2>2 DEF Age
    <3>2. QED BY <3>1
  <2>3. QED BY <2>1, <2>2
<1>4. [logs[k] EXCEPT !.age = a] \in LogRec /\ [logs[k] EXCEPT !.age = a].job = logs[k].job /\ [logs[k] EXCEPT !.age = a].end = logs[k].end
  BY <1>2, YoungFacts
<1> DEFINE l == [logs[k] EXCEPT !.age = a]
<1> HIDE DEF l
<1>5. Write(k, l) /\ l \in LogRec /\ l.job = logs[k].job /\ l.end = logs[k].end BY <1>3, <1>4 DEF l
<1>6. logs' \in [JobKinds -> LogRec] /\ logs'[k] = l /\ \A j \in JobKinds \ {k} : logs'[j] = logs[j] BY <1>1, <1>5, WriteFacts
<1>7. Locked' BY <1>1, <1>5, <1>6 DEF JobsInv, Locked, JobKinds
<1>8. QED BY <1>1, <1>6, <1>7, UnitKeeps DEF JobTypes

\* The unit's last line keeps the invariant.
LEMMA EndsKeeps == ASSUME JobsInv, NEW k \in JobKinds, NEW how \in {"ok", "failed"}, UnitEnds(k, how) PROVE JobsInv'
<1>1. JobTypes /\ Gone(k) /\ UNCHANGED <<mutex, req, nonce, doubt>> /\ lock' = (IF k = "module" THEN Nobody ELSE lock) BY DEF UnitEnds, JobsInv
<1> DEFINE l == [logs[k] EXCEPT !.age = "fresh", !.end = IF k = "docker" /\ logs[k].job # units[k].job THEN @ ELSE how]
<1>2. l \in LogRec BY <1>1, UnitFacts DEF LogRec
<1>3. Write(k, l) BY DEF UnitEnds
<1> HIDE DEF l
<1>4. logs' \in [JobKinds -> LogRec] /\ \A j \in JobKinds \ {k} : logs'[j] = logs[j] BY <1>1, <1>2, <1>3, WriteFacts
<1>5. /\ units' \in [JobKinds -> UnitRec] /\ units'[k].state = "gone" /\ \A j \in JobKinds \ {k} : units'[j] = units[j]
      /\ \A j \in JobKinds : units'[j].state # "gone" => units[j].state # "gone" BY <1>1, UnitFacts
<1>6. Locked' BY <1>1, <1>4, <1>5 DEF JobsInv, Locked, JobKinds
<1>7. QED BY <1>1, <1>4, <1>5, <1>6, UnitKeeps DEF JobTypes
\* A unit is killed: its lock goes with it.
LEMMA KilledKeeps == ASSUME JobsInv, NEW k \in JobKinds, UnitKilled(k) PROVE JobsInv'
<1>1. /\ JobTypes /\ Gone(k) /\ UNCHANGED <<mutex, req, logs, nonce, doubt>>
      /\ lock' = (IF k = "module" /\ lock = "unit" THEN Nobody ELSE lock)
  BY DEF UnitKilled, JobsInv
<1>2. /\ units' \in [JobKinds -> UnitRec] /\ units'[k].state = "gone" /\ \A j \in JobKinds \ {k} : units'[j] = units[j]
      /\ \A j \in JobKinds : units'[j].state # "gone" => units[j].state # "gone" BY <1>1, UnitFacts
<1>3. Locked' BY <1>1, <1>2 DEF JobsInv, Locked, JobKinds
<1>4. QED BY <1>1, <1>2, <1>3, UnitKeeps DEF JobTypes
\* A unit that systemd-run had given up begins: the one way that two units are there, and doubt says so.
LEMMA LateKeeps == ASSUME JobsInv, NEW k \in JobKinds, NEW j \in 1 .. MaxNonce, LateStart(k, j) PROVE JobsInv'
<1>1. /\ JobTypes /\ UNCHANGED <<mutex, req, logs, lock, nonce>> /\ doubt' = TRUE
      /\ units' = [units EXCEPT ![k] = [state |-> "asked", job |-> j]]
  BY DEF LateStart, JobsInv
<1> DEFINE u == [state |-> "asked", job |-> j]
<1>2. u \in UnitRec /\ u.state = "asked" BY MaintenanceAssumption DEF UnitRec
<1>3. units' = [units EXCEPT ![k] = u] BY <1>1
<1> HIDE DEF u
<1>4. units' \in [JobKinds -> UnitRec] /\ units'[k].state = "asked" /\ \A l \in JobKinds \ {k} : units'[l] = units[l]
  BY <1>1, <1>2, <1>3 DEF JobTypes
<1>5. Locked' BY <1>1, <1>4 DEF JobsInv, Locked, JobKinds
<1>6. QED BY <1>1, <1>4, <1>5, UnitKeeps DEF JobTypes
\* Somebody at a terminal takes the lock, and lets go of it.
LEMMA CliKeeps == ASSUME JobsInv, CliBegins \/ CliEnds PROVE JobsInv'
<1>1. JobTypes /\ "module" \in JobKinds /\ UNCHANGED <<mutex, req, units, nonce, doubt>> /\ lock # "unit" /\ lock' \in {Nobody, "cli"}
  BY DEF CliBegins, CliEnds, JobsInv, JobKinds, Nobody
<1>2. logs' \in [JobKinds -> LogRec]
  <2>1. CASE CliEnds BY <1>1, <2>1 DEF CliEnds, JobTypes
  <2>2. CASE CliBegins
    <3> DEFINE l == [NoLog EXCEPT !.age = "fresh"]
    <3>1. l \in LogRec BY DEF NoLog, NoJob, LogRec
    <3>2. Write("module", l) BY <2>2 DEF CliBegins
    <3> HIDE DEF l
    <3>3. QED BY <1>1, <3>1, <3>2, WriteFacts
  <2>3. QED BY <2>1, <2>2
<1>3. Locked' BY <1>1 DEF JobsInv, Locked
<1>4. QED BY <1>1, <1>2, <1>3, UnitKeeps DEF JobTypes
\* The core is restarted with the mutex free and no request.
LEMMA RestartKeeps == ASSUME JobsInv, CoreRestarts PROVE JobsInv'
<1>1. mutex' = Nobody /\ req' = [r \in Requests |-> Waiting] /\ UNCHANGED <<units, logs, lock, nonce, doubt>> BY DEF CoreRestarts
<1>2. Waiting \in Request /\ Waiting.pc = "idle" BY DEF Waiting, Request, Pcs, NoJob
<1>3. req' \in [Requests -> Request] /\ \A r \in Requests : req'[r].pc = "idle" BY <1>1, <1>2
<1>4. JobTypes' BY <1>1, <1>3 DEF JobsInv, JobTypes
<1>5. Holds' /\ SeenFree' BY <1>3 DEF Holds, SeenFree
<1>6. Single' /\ Locked' BY <1>1 DEF JobsInv, Single, Locked
<1>7. QED BY <1>4, <1>5, <1>6 DEF JobsInv

-------------------------------------------------------------------------------
\* No request, no unit, no log.
LEMMA JobsBegin == MInit => JobsInv
<1> SUFFICES ASSUME MInit PROVE JobsInv OBVIOUS
<1>1. Waiting \in Request /\ Waiting.pc = "idle" BY DEF Waiting, Request, Pcs, NoJob
<1>2. NoLog \in LogRec BY DEF NoLog, LogRec, NoJob
<1> DEFINE g == [state |-> "gone", job |-> NoJob]
<1>3. g \in UnitRec /\ g.state = "gone" BY DEF UnitRec, NoJob
<1>4. units = [k \in JobKinds |-> g] BY DEF MInit
<1> HIDE DEF g
<1>5. /\ units \in [JobKinds -> UnitRec] /\ (\A k \in JobKinds : units[k].state = "gone")
      /\ req \in [Requests -> Request] /\ \A r \in Requests : req[r].pc = "idle"
  BY <1>1, <1>3, <1>4 DEF MInit
<1>6. JobTypes BY <1>2, <1>5 DEF MInit, JobTypes, NoJob
<1>7. QED BY <1>5, <1>6 DEF JobsInv, Holds, SeenFree, Single, Locked, JobKinds
\* Every step keeps the invariant.
LEMMA JobsStep == JobsInv /\ [MNext]_mVars => JobsInv'
<1>1. SUFFICES ASSUME JobsInv, [MNext]_mVars PROVE JobsInv' OBVIOUS
<1>2. CASE UNCHANGED mVars
  <2>1. UNCHANGED <<mutex, req, units, logs, lock, nonce, doubt>> BY <1>2 DEF mVars
  <2>2. JobTypes' BY <1>1, <2>1 DEF JobsInv, JobTypes
  <2>3. QED BY <1>1, <2>1, <2>2 DEF JobsInv, Holds, SeenFree, Single, Locked
<1>3. ASSUME NEW r \in Requests, NEW k \in JobKinds, Ask(r, k) PROVE JobsInv' BY <1>1, <1>3, AskKeeps
<1>4. ASSUME NEW r \in Requests, NEW mute \in SUBSET JobKinds, FirstLook(r, mute) \/ SecondLook(r, mute) \/ StartExists(r, mute) PROVE JobsInv'
  BY <1>1, <1>4, FirstKeeps, SecondKeeps, ExistsKeeps
<1>5. ASSUME NEW r \in Requests, MakePlan(r) \/ Queue(r) \/ Start(r) \/ StartFailed(r) \/ Abandon(r) \/ Answered(r) PROVE JobsInv'
  BY <1>1, <1>5, PlanKeeps, QueueKeeps, StartKeeps, FailedKeeps, AbandonKeeps, AnsweredKeeps
<1>6. ASSUME NEW k \in JobKinds, UnitBegins(k) \/ UnitSays(k) \/ UnitKilled(k) \/ Age(k) PROVE JobsInv'
  BY <1>1, <1>6, BeginsKeeps, WritesKeeps, KilledKeeps
<1>7. ASSUME NEW k \in JobKinds, NEW how \in {"ok", "failed"}, UnitEnds(k, how) PROVE JobsInv' BY <1>1, <1>7, EndsKeeps
<1>8. ASSUME NEW k \in JobKinds, NEW j \in 1 .. MaxNonce, LateStart(k, j) PROVE JobsInv' BY <1>1, <1>8, LateKeeps
<1>9. CASE ModuleBegins \/ CliBegins \/ CliEnds \/ CoreRestarts BY <1>1, <1>9, ModuleKeeps, CliKeeps, RestartKeeps
<1>10. QED BY <1>1, <1>2, <1>3, <1>4, <1>5, <1>6, <1>7, <1>8, <1>9 DEF MNext

\* What the mutex, the second look and the lock of the assistant protect, at every step of the requests, the units and the
\* core (service/system_package*.go, service/system_module.go).
THEOREM JobsInvariant == MSpec => []JobsInv
<1>1. QED BY JobsBegin, JobsStep, PTL DEF MSpec

\* No two jobs that change packages work at once, and a module writes in a log of its own, for any number of requests,
\* jobs and faults.
THEOREM JobsApartHolds == MSpec => []JobsApart
<1>1. JobsInv => JobsApart
  <2>1. SUFFICES ASSUME JobsInv PROVE JobsApart OBVIOUS
  <2>2. UnitOwnsLog BY <2>1 DEF JobsInv, Locked, UnitOwnsLog
  <2>3. OneAtATime
    <3> DEFINE S == {k \in JobKinds : units[k].state # "gone"}
    <3>1. SUFFICES ASSUME ~doubt PROVE Cardinality(S) <= 1 BY DEF OneAtATime
    <3>2. \A k, l \in S : k = l BY <2>1, <3>1 DEF JobsInv, Single
    <3> HIDE DEF S
    <3>3. CASE S = {}
      <4>1. Cardinality({}) = 0 BY FS_EmptySet
      <4>2. QED BY <3>3, <4>1
    <3>4. CASE S # {}
      <4>1. PICK k \in S : TRUE BY <3>4
      <4>2. S = {k} BY <3>2, <4>1
      <4>3. Cardinality({k}) = 1 BY FS_Singleton
      <4>4. QED BY <4>2, <4>3
    <3>5. QED BY <3>3, <3>4
  <2>4. QED BY <2>2, <2>3 DEF JobsApart
<1>2. QED BY <1>1, JobsInvariant, PTL

-------------------------------------------------------------------------------
(* The update of Docker: KeepsItsWord, whatever the owner, the repository and a   *)
(* kill do between any two steps of the unit.                                     *)

UnitPcs == {"idle", "queued", "words", "held", "previous", "guard", "download", "look", "install", "restore", "after", "daemon",
            "containers", "last_restore", "holds", "end", "fail_restore", "fail_holds", "fail_end", "over"}
Before == {"idle", "queued", "words", "held", "previous", "guard", "download", "look"}
Told == {"previous", "guard", "download", "look", "install", "restore", "after", "daemon", "containers", "last_restore", "holds", "end"}
DaemonIn == {"containers", "last_restore", "holds", "end"}
Outcomes == {"SUCCESS", "RESTART_PENDING", "FAILED"}
Reasons == {"none", "guard", "download", "install", "daemon"}
Package == [ver : Nat, held : BOOLEAN]
HoldRec == [start : SUBSET Packages, ran : BOOLEAN, back : BOOLEAN, rc : {"none", "ok", "bad", "SUCCESS", "RESTART_PENDING"}, why : Reasons]
Whats == {"hold", "lift", "inst", "new"} \X (Packages \cup {3})
BoxRec == [dpkg : [Packages -> Package], look : SUBSET Packages, changed : SUBSET Packages, own : SUBSET Whats, lifted : SUBSET Packages]
Things == Reasons \cup {"start", "plan", "app"} \cup Packages \cup [name : Packages, cand : Nat] \cup Nat
MarkRec == [kind : {"QUEUED", "STARTED", "GUARD", "HELD", "PREVIOUS", "DOWNLOADED", "INSTALLED", "DAEMON", "NOTRETURNED", "HOLDS"} \cup Outcomes,
            arg : SUBSET Things]
DockerTypes ==
    /\ dpkg \in [Packages -> Package] /\ offer \in {2, 3} /\ needs \in [{2, 3} -> SUBSET Foreign]
    /\ pc \in UnitPcs /\ hold \in HoldRec /\ marks \in Seq(MarkRec) /\ box \in BoxRec
    /\ pc \in DaemonIn => hold.rc \in {"SUCCESS", "RESTART_PENDING"}

\* Until the install, only the owner changes what is installed: the engine is the old one.
OldEngine == pc \in Before \cup {"install"} => \A p \in Packages : IF p \in Engine THEN dpkg[p].ver = 1 ELSE dpkg[p].ver \in {0, 1}

\* The words are those of the plan that was confirmed, which is of one version.
WordsOf(v) ==
    /\ du.pins # {} /\ \A pin \in du.pins : pin.cand = v
    /\ \A n \in du.names : n \in Packages /\ \E pkg \in du.plan.packages : pkg.name = n /\ pkg.cand = v
    /\ du.held = du.plan.held /\ du.held \subseteq Engine /\ du.flag = (du.held # {})
Confirmed == pc # "idle" => \E v \in {2, 3} : WordsOf(v)

\* What the log has of a kind, and its last line.
Args(kind) == {marks[i].arg : i \in Of(kind)}
LastKind == marks[Len(marks)].kind
LogSays ==
    /\ pc = "idle" => marks = <<>>
    /\ pc \notin {"idle", "over"} => marks # <<>> /\ LastKind \notin Outcomes
    /\ Args("HELD") \subseteq {hold.start}
    /\ pc \in {"idle", "queued", "words", "held"} => Args("HELD") = {}
    /\ pc \in Told => Args("HELD") # {}
    /\ Args("HELD") = {} => hold.start = {} /\ ~hold.ran
    /\ pc \notin {"end", "fail_end", "over"} => Args("HOLDS") = {}
    /\ pc \in {"end", "fail_end"} /\ Args("HELD") # {} => Args("HOLDS") # {}
    /\ pc = "over" /\ Terminal # "" /\ Args("HELD") # {} => Args("HOLDS") # {}
    /\ \A a, b \in Args("HOLDS") : a = b

\* Where the install has not begun, the packages and their holds are as the unit found them but for the owner.
ByOwner(p) == /\ dpkg[p].ver # box.dpkg[p].ver => <<"inst", p>> \in box.own
              /\ dpkg[p].held /\ (p \in box.lifted \/ ~box.dpkg[p].held) => <<"hold", p>> \in box.own
Untouched ==
    /\ pc \in Before => ~hold.ran
    /\ pc = "install" => hold.ran
    /\ ~hold.ran => \A p \in Packages : ByOwner(p)
    /\ pc \in {"fail_restore", "fail_holds", "fail_end"} /\ hold.why \in {"guard", "download"} => ~hold.ran
    /\ pc = "over" /\ FailReason \in {"start", "download", "guard"} => ~hold.ran

\* A hold of the last look stands, or was lifted by the owner, or is one that is put back, and said not to be again.
HoldsKnown ==
    /\ hold.start \subseteq du.held
    /\ pc \in Before => box.look = {} /\ box.changed = {}
    /\ \A p \in box.look : p \in Held(dpkg) \/ p \in box.lifted \/ (p \in hold.start /\ \A a \in Args("HOLDS") : p \notin a)
    /\ pc = "install" => /\ box.changed = {} /\ box.look \ box.lifted \subseteq Held(dpkg)
                         /\ du.flag => box.look \cap du.names \subseteq hold.start

\* What apt would install is what the guard saw, and what it did install was confirmed.
Guarded ==
    /\ pc \in {"download", "look", "install"} => Wanted(PinnedVer) \cup Pulled(PinnedVer) \subseteq du.names
    /\ \A p \in box.changed : p \in du.names /\ (p \in box.look \ box.lifted => p \in du.held)

DockerInv == DockerTypes /\ OldEngine /\ Confirmed /\ LogSays /\ Untouched /\ HoldsKnown /\ Guarded

\* A set of numbers has a least one, and one that has a bound a greatest.
LEMMA HasLeast == ASSUME NEW S \in SUBSET Nat, S # {} PROVE \E m \in S : \A o \in S : m <= o
<1>1. PICK m \in S : \A y \in S : ~(<<y, m>> \in OpToRel(<, Nat)) BY WFMin, NatLessThanWellFounded
<1>2. \A y \in S : ~(y < m) BY <1>1 DEF OpToRel
<1>3. QED BY <1>2

\* It is the one that is nearest to the bound.
LEMMA HasMost == ASSUME NEW n \in Nat, NEW S \in SUBSET (1 .. n), S # {} PROVE \E m \in S : \A o \in S : o <= m
<1> DEFINE T == {n - i : i \in S}
<1>1. T \in SUBSET Nat /\ T # {}
  <2>1. \A i \in S : i \in 1 .. n /\ n - i \in Nat OBVIOUS
  <2>2. QED BY <2>1
<1>2. PICK t \in T : \A o \in T : t <= o
  <2> HIDE DEF T
  <2>1. QED BY <1>1, HasLeast
<1>3. PICK m \in S : t = n - m OBVIOUS
<1>4. ASSUME NEW o \in S PROVE o <= m
  <2>1. n - o \in T OBVIOUS
  <2>2. n - m <= n - o BY <1>2, <1>3, <2>1
  <2>3. QED BY <2>2
<1>5. QED BY <1>4

\* A line is added to the log.
LEMMA LogGrows ==
    ASSUME marks \in Seq(MarkRec), NEW m \in MarkRec, marks' = Append(marks, m)
    PROVE  /\ marks' \in Seq(MarkRec) /\ marks' # <<>> /\ marks'[Len(marks')] = m /\ LastKind' = m.kind
           /\ \A k : m.kind # k => Args(k)' = Args(k)
           /\ Args(m.kind)' = Args(m.kind) \cup {m.arg}
<1>1. /\ marks' \in Seq(MarkRec) /\ Len(marks) \in Nat /\ Len(marks') = Len(marks) + 1 /\ DOMAIN marks = 1 .. Len(marks)
      /\ DOMAIN marks' = 1 .. Len(marks) + 1 /\ marks'[Len(marks) + 1] = m /\ \A i \in 1 .. Len(marks) : marks'[i] = marks[i]
  OBVIOUS
<1>2. DOMAIN marks' = DOMAIN marks \cup {Len(marks) + 1} BY <1>1
<1>3. ASSUME NEW k PROVE Of(k)' = Of(k) \cup IF m.kind = k THEN {Len(marks) + 1} ELSE {}
  <2>1. \A i \in DOMAIN marks : marks'[i] = marks[i] BY <1>1
  <2>2. QED BY <1>1, <1>2, <2>1 DEF Of
<1>4. ASSUME NEW k PROVE Args(k)' = Args(k) \cup IF m.kind = k THEN {m.arg} ELSE {}
  <2>1. \A i \in Of(k) : marks'[i] = marks[i] BY <1>1 DEF Of
  <2>2. Args(k)' = {marks'[i].arg : i \in Of(k)'} BY DEF Args
  <2>3. CASE m.kind = k
    <3>1. Of(k)' = Of(k) \cup {Len(marks) + 1} BY <1>3, <2>3
    <3>2. marks'[Len(marks) + 1].arg = m.arg BY <1>1
    <3>3. {marks'[i].arg : i \in Of(k) \cup {Len(marks) + 1}} = {marks[i].arg : i \in Of(k)} \cup {m.arg} BY <2>1, <3>2
    <3>4. QED BY <2>2, <2>3, <3>1, <3>3 DEF Args
  <2>4. CASE m.kind # k
    <3>1. Of(k)' = Of(k) BY <1>3, <2>4
    <3>2. QED BY <2>1, <2>2, <2>4, <3>1 DEF Args
  <2>5. QED BY <2>3, <2>4
<1>5. marks' # <<>> /\ marks'[Len(marks')] = m BY <1>1
<1>6. LastKind' = m.kind BY <1>1 DEF LastKind
<1>7. QED BY <1>1, <1>4, <1>5, <1>6

\* What is read of the log is one of its lines of that kind.
LEMMA LogRead ==
    ASSUME marks \in Seq(MarkRec)
    PROVE  /\ Args("HELD") # {} => RunHeld \in Args("HELD")
           /\ Args("HOLDS") # {} => RunHolds \in Args("HOLDS")
<1>1. Len(marks) \in Nat /\ DOMAIN marks = 1 .. Len(marks) OBVIOUS
<1>2. Of("HELD") \in SUBSET Nat /\ Of("HOLDS") \in SUBSET (1 .. Len(marks)) BY <1>1 DEF Of
<1>3. ASSUME Args("HELD") # {} PROVE RunHeld \in Args("HELD")
  <2>1. Of("HELD") # {} BY <1>3 DEF Args
  <2>2. \E i \in Of("HELD") : \A j \in Of("HELD") : i <= j BY <1>2, <2>1, HasLeast
  <2>3. QED BY <2>1, <2>2 DEF RunHeld, Args
<1>4. ASSUME Args("HOLDS") # {} PROVE RunHolds \in Args("HOLDS")
  <2>1. Of("HOLDS") # {} BY <1>4 DEF Args
  <2>2. \E i \in Of("HOLDS") : \A j \in Of("HOLDS") : j <= i BY <1>1, <1>2, <2>1, HasMost
  <2>3. QED BY <2>1, <2>2 DEF RunHolds, Args
<1>5. QED BY <1>3, <1>4

\* The pins have one version.
LEMMA PinnedIs == ASSUME NEW v, WordsOf(v) PROVE PinnedVer = v
<1>1. {pin.cand : pin \in du.pins} = {v} BY DEF WordsOf
<1>2. QED BY <1>1 DEF PinnedVer

\* The invariant gives what is promised.
LEMMA DockerInvGives ==
    ASSUME DockerInv
    PROVE  KeepsItsWord
<1> USE DEF DockerInv
<1>1. NoHoldLost
  <2>1. SUFFICES ASSUME pc = "over", Terminal # "", NEW p \in box.look, p \notin Held(dpkg), p \notin box.lifted
                 PROVE  p \in RunHeld \ RunHolds
    BY DEF NoHoldLost, HoldsKept
  <2>2. p \in hold.start /\ \A a \in Args("HOLDS") : p \notin a BY <2>1 DEF HoldsKnown
  <2>3. Args("HELD") # {} BY <2>2 DEF LogSays
  <2>4. Args("HOLDS") # {} BY <2>1, <2>3 DEF LogSays
  <2>5. RunHeld \in Args("HELD") /\ RunHolds \in Args("HOLDS") BY <2>3, <2>4, LogRead DEF DockerTypes
  <2>6. RunHeld = hold.start BY <2>5 DEF LogSays
  <2>7. QED BY <2>2, <2>5, <2>6
<1>2. SaysUnchanged
  <2>1. SUFFICES ASSUME FailReason \in {"start", "download", "guard"} PROVE ChangedByUnit = {} /\ PutOnHold = {} BY DEF SaysUnchanged
  <2>2. Terminal = "FAILED" BY <2>1 DEF FailReason
  <2>3. marks # <<>> /\ LastKind \in Outcomes BY <2>2 DEF Terminal, LastKind, Outcomes
  <2>4. pc = "over" BY <2>3 DEF LogSays
  <2>5. ~hold.ran BY <2>1, <2>4 DEF Untouched
  <2>6. \A p \in Packages : ByOwner(p) BY <2>5 DEF Untouched
  <2>7. QED BY <2>6 DEF ByOwner, ChangedByUnit, PutOnHold
<1>3. OnlyConfirmed
  <2>1. SUFFICES ASSUME NEW p \in box.changed
                 PROVE  (\E pkg \in du.plan.packages : pkg.name = p /\ pkg.cand = PinnedVer) /\ (p \in box.look \ box.lifted => p \in du.plan.held)
    BY DEF OnlyConfirmed
  <2>2. p \in du.names /\ (p \in box.look \ box.lifted => p \in du.held) BY DEF Guarded
  <2>3. pc # "idle"
    <3>1. pc \in Before => box.changed = {} BY DEF HoldsKnown
    <3>2. QED BY <3>1 DEF Before
  <2>4. PICK v \in {2, 3} : WordsOf(v) BY <2>3 DEF Confirmed
  <2>5. QED BY <2>2, <2>4, PinnedIs DEF WordsOf
<1>4. QED BY <1>1, <1>2, <1>3 DEF KeepsItsWord

\* It holds before the page is opened.
LEMMA DockerStarts ==
    ASSUME DInit
    PROVE  DockerInv
<1>1. marks = <<>> /\ pc = "idle" /\ hold = NoHold /\ du = NoWords /\ box = [dpkg |-> dpkg, look |-> {}, changed |-> {}, own |-> {}, lifted |-> {}]
  BY DEF DInit
<1>2. dpkg \in [Packages -> Package] BY DEF DInit, Package
<1>3. box \in BoxRec
  <2>1. {} \in SUBSET Whats /\ {} \in SUBSET Packages OBVIOUS
  <2>2. QED BY <1>1, <1>2, <2>1 DEF BoxRec
<1>4. hold \in HoldRec BY <1>1 DEF NoHold, HoldRec, Reasons
<1>5. marks \in Seq(MarkRec) /\ DOMAIN marks = {} BY <1>1
<1>6. DockerTypes BY <1>1, <1>2, <1>3, <1>4, <1>5 DEF DockerTypes, DInit, UnitPcs, DaemonIn
<1>7. OldEngine BY DEF OldEngine, DInit, Packages
<1>8. Of("HELD") = {} /\ Of("HOLDS") = {} BY <1>5 DEF Of
<1>9. Args("HELD") = {} /\ Args("HOLDS") = {} BY <1>8 DEF Args
<1>10. LogSays BY <1>1, <1>9 DEF LogSays, NoHold, Told
<1>11. Untouched BY <1>1 DEF Untouched, NoHold, ByOwner
<1>12. HoldsKnown BY <1>1 DEF HoldsKnown, NoHold, NoWords
<1>13. QED BY <1>1, <1>6, <1>7, <1>10, <1>11, <1>12 DEF DockerInv, Confirmed, Guarded

\* Where nothing of it changes.
LEMMA DockerStands ==
    ASSUME DockerInv, UNCHANGED <<dpkg, offer, needs, du, pc, hold, marks, box>>
    PROVE  DockerInv'
<1>1. DockerTypes' /\ OldEngine' /\ Confirmed' BY DEF DockerInv, DockerTypes, OldEngine, Confirmed, WordsOf
<1>2. (\A k : Args(k)' = Args(k)) /\ LastKind' = LastKind /\ Terminal' = Terminal /\ FailReason' = FailReason
  BY DEF Args, Of, LastKind, Terminal, FailReason
<1>3. LogSays' BY <1>2 DEF DockerInv, LogSays
<1>4. Untouched' BY <1>2 DEF DockerInv, Untouched, ByOwner
<1>5. Held(dpkg') = Held(dpkg) OBVIOUS
<1>6. HoldsKnown' BY <1>2 DEF DockerInv, HoldsKnown, Held, Present
<1>7. Guarded' BY DEF DockerInv, Guarded, Wanted, Pulled, PinnedVer, Present
<1>8. QED BY <1>1, <1>3, <1>4, <1>6, <1>7 DEF DockerInv

\* A line that is neither of the holds nor of the outcome, or none.
Chats == \/ marks' = marks
         \/ \E m \in MarkRec : m.kind \notin {"HELD", "HOLDS"} \cup Outcomes /\ marks' = Append(marks, m)

\* The log after it.
LEMMA ChatKeeps ==
    ASSUME DockerTypes, Chats, marks # <<>> /\ LastKind \notin Outcomes
    PROVE  /\ marks' \in Seq(MarkRec) /\ marks' # <<>> /\ LastKind' \notin Outcomes
           /\ Args("HELD")' = Args("HELD") /\ Args("HOLDS")' = Args("HOLDS")
<1>1. CASE marks' = marks BY <1>1 DEF DockerTypes, LastKind, Args, Of
<1>2. CASE \E m \in MarkRec : m.kind \notin {"HELD", "HOLDS"} \cup Outcomes /\ marks' = Append(marks, m)
  <2>1. PICK m \in MarkRec : m.kind \notin {"HELD", "HOLDS"} \cup Outcomes /\ marks' = Append(marks, m) BY <1>2
  <2>2. QED BY <2>1, LogGrows DEF DockerTypes
<1>3. QED BY <1>1, <1>2 DEF Chats

\* A step of the unit that changes no package and looks at no hold.
LEMMA UnitGoesOn ==
    ASSUME DockerInv, UNCHANGED <<dpkg, offer, needs, du, box>>, Chats, hold' \in HoldRec, hold'.start = hold.start, hold'.ran = hold.ran,
           pc \notin {"idle", "end", "fail_end", "over"}, pc' \in UnitPcs \ {"idle", "install", "end", "fail_end", "over"},
           pc' \in Before => pc \in Before, pc' \in {"queued", "words", "held"} => pc \in {"queued", "words", "held"}, pc' \in Told => pc \in Told,
           pc' \in {"fail_restore", "fail_holds"} /\ hold'.why \in {"guard", "download"} => ~hold.ran,
           pc' \in DaemonIn => hold'.rc \in {"SUCCESS", "RESTART_PENDING"},
           pc' \in {"download", "look"} => Wanted(PinnedVer) \cup Pulled(PinnedVer) \subseteq du.names
    PROVE  DockerInv'
<1> USE DEF DockerInv
<1>1. marks # <<>> /\ LastKind \notin Outcomes BY DEF LogSays
<1>2. /\ marks' \in Seq(MarkRec) /\ marks' # <<>> /\ LastKind' \notin Outcomes
      /\ Args("HELD")' = Args("HELD") /\ Args("HOLDS")' = Args("HOLDS")
  BY <1>1, ChatKeeps
<1>3. DockerTypes' BY <1>2 DEF DockerTypes
<1>4. OldEngine' BY DEF OldEngine
<1>5. Confirmed' BY DEF Confirmed, WordsOf
<1>6. LogSays' BY <1>2 DEF LogSays
<1>7. Untouched' BY DEF Untouched, ByOwner
<1>8. HoldsKnown' BY <1>2 DEF HoldsKnown, Held, Present
<1>9. Guarded' BY DEF Guarded, Wanted, Pulled, PinnedVer, Present
<1>10. QED BY <1>3, <1>4, <1>5, <1>6, <1>7, <1>8, <1>9

\* fail: the reason is kept.
LEMMA FailIs ==
    ASSUME DockerTypes, NEW why \in Reasons, fail(why)
    PROVE  hold' \in HoldRec /\ hold'.start = hold.start /\ hold'.ran = hold.ran /\ hold'.why = why /\ pc' = "fail_restore"
BY DEF fail, Go, DockerTypes, HoldRec

\* A line of the log.
LEMMA MarkIs ==
    ASSUME NEW kind \in {"QUEUED", "STARTED", "GUARD", "HELD", "PREVIOUS", "DOWNLOADED", "INSTALLED", "DAEMON", "NOTRETURNED", "HOLDS"} \cup Outcomes,
           NEW arg \in SUBSET Things
    PROVE  [kind |-> kind, arg |-> arg] \in MarkRec
BY DEF MarkRec

\* The steps of the unit that only look and tell.
LEMMA LooksKeep ==
    ASSUME DockerInv, LookFirst \/ SayPrevious \/ Guard \/ Download \/ AfterInstall \/ Daemon \/ Containers
    PROVE  DockerInv'
<1>1. DockerTypes BY DEF DockerInv
<1>2. {"plan"} \in SUBSET Things /\ {} \in SUBSET Things /\ {"app"} \in SUBSET Things BY DEF Things
<1>3. ASSUME NEW kind \in {"GUARD", "PREVIOUS", "DOWNLOADED", "INSTALLED", "DAEMON", "NOTRETURNED"}, NEW arg \in SUBSET Things, Mark(kind, arg) PROVE Chats
  <2>1. [kind |-> kind, arg |-> arg] \in MarkRec BY MarkIs
  <2>2. [kind |-> kind, arg |-> arg].kind \notin {"HELD", "HOLDS"} \cup Outcomes BY DEF Outcomes
  <2>3. QED BY <1>3, <2>1, <2>2 DEF Mark, Chats
<1>4. Quiet => Chats BY DEF Quiet, Chats
<1>5. hold \in HoldRec /\ (pc \in DaemonIn => hold.rc \in {"SUCCESS", "RESTART_PENDING"}) BY <1>1 DEF DockerTypes
<1>6. UNCHANGED hold => /\ hold' \in HoldRec /\ hold'.start = hold.start /\ hold'.ran = hold.ran
                        /\ pc \in DaemonIn => hold'.rc \in {"SUCCESS", "RESTART_PENDING"}
  BY <1>5
<1>7. CASE LookFirst
  <2>1. UNCHANGED <<dpkg, offer, needs, du, box>> /\ pc = "words" /\ ~hold.ran BY <1>7 DEF LookFirst, Still, DockerInv, Untouched, Before
  <2>2. CASE Bad \/ refuse_unrestorable_holds(du.held)
    <3>1. fail("guard") /\ Mark("GUARD", {"plan"}) BY <1>7, <2>2 DEF LookFirst
    <3>2. Chats BY <1>2, <1>3, <3>1
    <3>3. hold' \in HoldRec /\ hold'.start = hold.start /\ hold'.ran = hold.ran /\ pc' = "fail_restore" BY <1>1, <3>1, FailIs DEF Reasons
    <3>4. QED BY <2>1, <3>2, <3>3, UnitGoesOn DEF UnitPcs, Before, Told, DaemonIn
  <2>3. CASE ~(Bad \/ refuse_unrestorable_holds(du.held))
    <3>1. pc' = "held" /\ UNCHANGED hold /\ Quiet BY <1>7, <2>3 DEF LookFirst, Go
    <3>2. QED BY <1>4, <1>6, <2>1, <3>1, UnitGoesOn DEF UnitPcs, Before, Told, DaemonIn
  <2>4. QED BY <2>2, <2>3
<1>8. CASE SayPrevious
  <2>1. UNCHANGED <<dpkg, offer, needs, du, box, hold>> /\ pc = "previous" /\ pc' = "guard" BY <1>8 DEF SayPrevious, Still, Go
  <2> DEFINE arg == {[name |-> p, cand |-> dpkg[p].ver] : p \in du.names \cap Present(dpkg)}
  <2>2. arg \in SUBSET Things
    <3>1. \A p \in Present(dpkg) : p \in Packages /\ dpkg[p].ver \in Nat BY <1>1 DEF Present, DockerTypes, Package
    <3>2. \A p \in Present(dpkg) : [name |-> p, cand |-> dpkg[p].ver] \in [name : Packages, cand : Nat] BY <3>1
    <3>3. QED BY <3>2 DEF Things
  <2>3. Mark("PREVIOUS", arg) BY <1>8 DEF SayPrevious
  <2> HIDE DEF arg
  <2>4. Chats BY <1>3, <2>2, <2>3
  <2>5. QED BY <1>6, <2>1, <2>4, UnitGoesOn DEF UnitPcs, Before, Told, DaemonIn
<1>9. CASE Guard
  <2>1. UNCHANGED <<dpkg, offer, needs, du, box>> /\ pc = "guard" /\ ~hold.ran BY <1>9 DEF Guard, Still, DockerInv, Untouched, Before
  <2>2. CASE ~guardPasses
    <3>1. fail("guard") /\ Mark("GUARD", {"plan"}) BY <1>9, <2>2 DEF Guard
    <3>2. Chats BY <1>2, <1>3, <3>1
    <3>3. hold' \in HoldRec /\ hold'.start = hold.start /\ hold'.ran = hold.ran /\ pc' = "fail_restore" BY <1>1, <3>1, FailIs DEF Reasons
    <3>4. QED BY <2>1, <3>2, <3>3, UnitGoesOn DEF UnitPcs, Before, Told, DaemonIn
  <2>3. CASE guardPasses
    <3>1. pc' = "download" /\ UNCHANGED hold /\ Quiet BY <1>9, <2>3 DEF Guard, Go
    <3>2. Wanted(PinnedVer) \cup Pulled(PinnedVer) \subseteq du.names
      <4>1. SUFFICES ASSUME NEW p \in Wanted(PinnedVer) \cup Pulled(PinnedVer) PROVE p \in du.names OBVIOUS
      <4> DEFINE i == [name |-> p, cur |-> dpkg[p].ver, cand |-> PinnedVer, new |-> p \notin Present(dpkg)]
      <4>2. i \in Inst(PinnedVer) BY DEF Inst
      <4>3. i.name \in du.names BY <2>3, <4>2 DEF guardPasses
      <4>4. QED BY <4>3
    <3>3. QED BY <1>4, <1>6, <2>1, <3>1, <3>2, UnitGoesOn DEF UnitPcs, Before, Told, DaemonIn
  <2>4. QED BY <2>2, <2>3
<1>10. CASE Download
  <2>1. UNCHANGED <<dpkg, offer, needs, du, box>> /\ pc = "download" /\ ~hold.ran BY <1>10 DEF Download, Still, DockerInv, Untouched, Before
  <2>2. CASE fail("download") /\ Quiet
    <3>1. hold' \in HoldRec /\ hold'.start = hold.start /\ hold'.ran = hold.ran /\ pc' = "fail_restore" BY <1>1, <2>2, FailIs DEF Reasons
    <3>2. QED BY <1>4, <2>1, <2>2, <3>1, UnitGoesOn DEF UnitPcs, Before, Told, DaemonIn
  <2>3. CASE Mark("DOWNLOADED", {}) /\ Go("look") /\ UNCHANGED hold
    <3>1. Chats BY <1>2, <1>3, <2>3
    <3>2. Wanted(PinnedVer) \cup Pulled(PinnedVer) \subseteq du.names BY <2>1 DEF DockerInv, Guarded
    <3>3. QED BY <1>6, <2>1, <2>3, <3>1, <3>2, UnitGoesOn DEF UnitPcs, Before, Told, DaemonIn, Go
  <2>4. QED BY <1>10, <2>2, <2>3 DEF Download
<1>11. CASE AfterInstall
  <2>1. UNCHANGED <<dpkg, offer, needs, du, box>> /\ pc = "after" BY <1>11 DEF AfterInstall, Still
  <2>2. CASE fail("install") /\ Quiet
    <3>1. hold' \in HoldRec /\ hold'.start = hold.start /\ hold'.ran = hold.ran /\ hold'.why = "install" /\ pc' = "fail_restore" BY <1>1, <2>2, FailIs DEF Reasons
    <3>2. QED BY <1>4, <2>1, <2>2, <3>1, UnitGoesOn DEF UnitPcs, Before, Told, DaemonIn
  <2>3. CASE Mark("INSTALLED", {}) /\ Go("daemon") /\ UNCHANGED hold
    <3>1. Chats BY <1>2, <1>3, <2>3
    <3>2. QED BY <1>6, <2>1, <2>3, <3>1, UnitGoesOn DEF UnitPcs, Before, Told, DaemonIn, Go
  <2>4. QED BY <1>11, <2>2, <2>3 DEF AfterInstall
<1>12. CASE Daemon
  <2>1. UNCHANGED <<dpkg, offer, needs, du, box>> /\ pc = "daemon" BY <1>12 DEF Daemon, Still
  <2>2. CASE fail("daemon") /\ Quiet
    <3>1. hold' \in HoldRec /\ hold'.start = hold.start /\ hold'.ran = hold.ran /\ hold'.why = "daemon" /\ pc' = "fail_restore" BY <1>1, <2>2, FailIs DEF Reasons
    <3>2. QED BY <1>4, <2>1, <2>2, <3>1, UnitGoesOn DEF UnitPcs, Before, Told, DaemonIn
  <2>3. CASE \E v \in {1, PinnedVer} : Mark("DAEMON", {v}) /\ Go("containers") /\ hold' = [hold EXCEPT !.rc = IF v = PinnedVer THEN "SUCCESS" ELSE "RESTART_PENDING"]
    <3>1. PICK v \in {1, PinnedVer} : Mark("DAEMON", {v}) /\ Go("containers") /\ hold' = [hold EXCEPT !.rc = IF v = PinnedVer THEN "SUCCESS" ELSE "RESTART_PENDING"]
      BY <2>3
    <3>2. PinnedVer \in Nat
      <4>1. PICK u \in {2, 3} : WordsOf(u) BY <2>1 DEF DockerInv, Confirmed
      <4>2. QED BY <4>1, PinnedIs
    <3>3. {v} \in SUBSET Things BY <3>2 DEF Things
    <3>4. Chats BY <1>3, <3>1, <3>3
    <3>5. hold' \in HoldRec /\ hold'.start = hold.start /\ hold'.ran = hold.ran /\ hold'.rc \in {"SUCCESS", "RESTART_PENDING"} BY <1>5, <3>1 DEF HoldRec
    <3>6. QED BY <2>1, <3>1, <3>4, <3>5, UnitGoesOn DEF UnitPcs, Before, Told, DaemonIn, Go
  <2>4. QED BY <1>12, <2>2, <2>3 DEF Daemon
<1>13. CASE Containers
  <2>1. UNCHANGED <<dpkg, offer, needs, du, box, hold>> /\ pc = "containers" /\ pc' = "last_restore" BY <1>13 DEF Containers, Still, Go
  <2>2. Chats BY <1>2, <1>3, <1>4, <1>13 DEF Containers
  <2>3. QED BY <1>6, <2>1, <2>2, UnitGoesOn DEF UnitPcs, Before, Told, DaemonIn
<1>14. QED BY <1>7, <1>8, <1>9, <1>10, <1>11, <1>12, <1>13

\* What apt would change is new, or the engine that is there, or what it needs.
LEMMA InstIs ==
    ASSUME NEW v
    PROVE  /\ \A i \in Inst(v) : i.cand = v
           /\ {i.name : i \in Inst(v)} = Wanted(v) \cup Pulled(v)
<1> DEFINE rec(p) == [name |-> p, cur |-> dpkg[p].ver, cand |-> v, new |-> p \notin Present(dpkg)]
<1>2. Inst(v) = {rec(p) : p \in Wanted(v) \cup Pulled(v)} BY DEF Inst
<1>3. \A p : rec(p).name = p /\ rec(p).cand = v OBVIOUS
<1> HIDE DEF rec
<1>4. {i.name : i \in Inst(v)} = Wanted(v) \cup Pulled(v) BY <1>2, <1>3
<1>5. QED BY <1>2, <1>3, <1>4

\* The start: the plan is made again, and the words of the unit are of that plan.
LEMMA StartedKeeps ==
    ASSUME DockerInv, NEW allow \in BOOLEAN, startDockerUpdate(allow)
    PROVE  DockerInv'
<1> USE DEF DockerInv
<1> DEFINE plan == dockerUpdatePreflight(allow)
<1>1. pc = "idle" /\ page # NoPlan /\ UNCHANGED <<dpkg, offer, needs, box>> BY DEF startDockerUpdate
<1>2. IF plan = page THEN QueueUnit(dockerUpdateArgs(plan)) ELSE UNCHANGED <<pc, du, marks, hold>> BY DEF startDockerUpdate
<1>3. CASE plan # page BY <1>1, <1>2, <1>3, DockerStands
<1>4. CASE plan = page
  <2>1. ~preflightRefused(allow) /\ plan = [packages |-> enginePlan, held |-> Held(dpkg) \cap Engine]
    BY <1>1, <1>4 DEF dockerUpdatePreflight
  <2>2. plan.packages = Inst(offer) /\ plan.held = Held(dpkg) \cap Engine /\ Pins(Inst(offer)) # {}
    BY <2>1 DEF preflightRefused, enginePlan
  <2> HIDE DEF plan
  <2>3. /\ pc' = "queued" /\ hold' = NoHold /\ marks' = <<[kind |-> "QUEUED", arg |-> {}]>>
        /\ du' = [plan |-> page, pins |-> Pins(plan.packages), names |-> Names(plan.packages), held |-> plan.held, flag |-> plan.held # {}]
    BY <1>2, <1>4 DEF QueueUnit, dockerUpdateArgs
  <2>4. du'.plan = plan /\ du'.pins = Pins(Inst(offer)) /\ du'.names = Names(Inst(offer)) /\ du'.held = plan.held /\ du'.flag = (du'.held # {})
    BY <1>4, <2>2, <2>3
  <2>5. offer \in {2, 3} /\ offer' = offer BY <1>1 DEF DockerTypes
  <2>6. WordsOf(offer)'
    <3>1. \A i \in Inst(offer) : i.cand = offer BY InstIs
    <3>2. \A pin \in Pins(Inst(offer)) : pin.cand = offer BY <3>1 DEF Pins
    <3>3. {i.name : i \in Inst(offer)} \subseteq Packages
      <4>1. needs[offer] \subseteq Foreign BY <2>5 DEF DockerTypes
      <4>2. QED BY <4>1, InstIs DEF Wanted, Pulled, Packages
    <3>4. \A n \in Names(Inst(offer)) : \E pkg \in Inst(offer) : pkg.name = n BY DEF Names
    <3>5. \A n \in Names(Inst(offer)) : n \in Packages BY <3>3, <3>4
    <3>6. QED BY <2>2, <2>4, <2>5, <3>1, <3>2, <3>4, <3>5 DEF WordsOf
  <2>7. Confirmed' BY <2>5, <2>6 DEF Confirmed
  <2>8. [kind |-> "QUEUED", arg |-> {}] \in MarkRec BY MarkIs
  <2>9. marks' \in Seq(MarkRec) /\ marks' # <<>> /\ Len(marks') = 1 /\ DOMAIN marks' = {1} /\ marks'[1].kind = "QUEUED" BY <2>3, <2>8
  <2>10. Of("HELD")' = {} /\ Of("HOLDS")' = {} BY <2>9 DEF Of
  <2>11. Args("HELD")' = {} /\ Args("HOLDS")' = {} /\ LastKind' = "QUEUED" BY <2>9, <2>10 DEF Args, LastKind
  <2>12. hold' \in HoldRec /\ hold'.start = {} /\ ~hold'.ran BY <2>3 DEF NoHold, HoldRec, Reasons
  <2>13. DockerTypes' BY <1>1, <2>3, <2>9, <2>12 DEF DockerTypes, UnitPcs, DaemonIn
  <2>14. OldEngine' BY <1>1, <2>3 DEF OldEngine, Before
  <2>15. LogSays' BY <2>3, <2>9, <2>11, <2>12 DEF LogSays, Told, Outcomes
  <2>16. Untouched' BY <1>1, <2>3, <2>12 DEF Untouched, ByOwner, Before
  <2>17. box.look = {} /\ box.changed = {} BY <1>1 DEF HoldsKnown, Before
  <2>18. HoldsKnown' BY <1>1, <2>3, <2>12, <2>17 DEF HoldsKnown
  <2>19. Guarded' BY <1>1, <2>3, <2>17 DEF Guarded
  <2>20. QED BY <2>7, <2>13, <2>14, <2>15, <2>16, <2>18, <2>19
<1>5. QED BY <1>3, <1>4

\* The unit begins, or cannot be started.
LEMMA UnitStartsKeeps ==
    ASSUME DockerInv, UnitStarts
    PROVE  DockerInv'
<1> USE DEF DockerInv
<1>1. pc = "queued" /\ UNCHANGED <<dpkg, offer, needs, du, hold>> BY DEF UnitStarts, Still
<1>2. /\ DockerTypes /\ marks \in Seq(MarkRec) /\ Args("HELD") = {} /\ Args("HOLDS") = {} /\ hold.start = {} /\ ~hold.ran
      /\ box \in BoxRec /\ box.look = {} /\ box.changed = {} /\ dpkg \in [Packages -> Package]
  BY <1>1 DEF DockerTypes, LogSays, HoldsKnown, Before
<1>3. Confirmed' BY <1>1 DEF Confirmed, WordsOf, UnitStarts, Go
<1>4. CASE Mark("STARTED", {}) /\ Go("words") /\ box' = [box EXCEPT !.dpkg = dpkg, !.lifted = {}, !.own = {}]
  <2>1. [kind |-> "STARTED", arg |-> {}] \in MarkRec BY MarkIs
  <2>2. /\ marks' \in Seq(MarkRec) /\ marks' # <<>> /\ LastKind' = "STARTED" /\ Args("HELD")' = {} /\ Args("HOLDS")' = {}
    BY <1>2, <1>4, <2>1, LogGrows DEF Mark
  <2>3. box' \in BoxRec /\ box'.look = {} /\ box'.changed = {} /\ box'.dpkg = dpkg /\ box'.lifted = {} BY <1>2, <1>4 DEF BoxRec
  <2>4. DockerTypes' BY <1>1, <1>4, <2>2, <2>3 DEF DockerTypes, Go, UnitPcs, DaemonIn
  <2>5. OldEngine' BY <1>1 DEF OldEngine, Before
  <2>6. LogSays' BY <1>1, <1>2, <1>4, <2>2 DEF LogSays, Go, Told, Outcomes
  <2>7. Untouched' BY <1>1, <1>2, <1>4, <2>3 DEF Untouched, ByOwner, Go
  <2>8. HoldsKnown' BY <1>1, <1>2, <1>4, <2>2, <2>3 DEF HoldsKnown, Go
  <2>9. Guarded' BY <1>4, <2>3 DEF Guarded, Go
  <2>10. QED BY <1>3, <2>4, <2>5, <2>6, <2>7, <2>8, <2>9
<1>5. CASE Mark("FAILED", {"start"}) /\ Go("over") /\ UNCHANGED box
  <2>1. [kind |-> "FAILED", arg |-> {"start"}] \in MarkRec
    <3>1. {"start"} \in SUBSET Things BY DEF Things
    <3>2. QED BY <3>1, MarkIs DEF Outcomes
  <2>2. /\ marks' \in Seq(MarkRec) /\ marks' # <<>> /\ LastKind' = "FAILED" /\ Args("HELD")' = {} /\ Args("HOLDS")' = {}
    BY <1>2, <1>5, <2>1, LogGrows DEF Mark
  <2>3. DockerTypes' BY <1>1, <1>5, <2>2 DEF DockerTypes, Go, UnitPcs, DaemonIn
  <2>4. LogSays' BY <1>1, <1>2, <1>5, <2>2 DEF LogSays, Go, Told
  <2>5. Untouched' BY <1>1, <1>2, <1>5 DEF Untouched, ByOwner, Go
  <2>6. HoldsKnown' BY <1>1, <1>2, <1>5, <2>2 DEF HoldsKnown, Go, Before
  <2>7. Guarded' BY <1>2, <1>5 DEF Guarded, Go
  <2>8. OldEngine' BY <1>5 DEF OldEngine, Before, Go
  <2>9. QED BY <1>3, <2>3, <2>4, <2>5, <2>6, <2>7, <2>8
<1>6. QED BY <1>4, <1>5 DEF UnitStarts

\* The holds that it will put back are told.
LEMMA SayHeldKeeps ==
    ASSUME DockerInv, SayHeld
    PROVE  DockerInv'
<1> USE DEF DockerInv
<1>1. pc = "held" /\ UNCHANGED <<dpkg, offer, needs, du, box>> /\ pc' = "previous" BY DEF SayHeld, Still, Go
<1>2. hold' = [hold EXCEPT !.start = held_list] /\ Mark("HELD", held_list) BY DEF SayHeld
<1>3. held_list \subseteq du.held /\ held_list \subseteq Packages BY DEF held_list, held_among, Held, Present
<1>4. marks \in Seq(MarkRec) /\ hold \in HoldRec /\ Args("HELD") = {} /\ Args("HOLDS") = {} /\ ~hold.ran /\ box.look = {} /\ box.changed = {}
  BY <1>1 DEF DockerTypes, LogSays, HoldsKnown, Before
<1>5. [kind |-> "HELD", arg |-> held_list] \in MarkRec
  <2>1. held_list \in SUBSET Things BY <1>3 DEF Things
  <2>2. QED BY <2>1, MarkIs
<1>6. /\ marks' \in Seq(MarkRec) /\ marks' # <<>> /\ LastKind' = "HELD" /\ Args("HELD")' = {held_list} /\ Args("HOLDS")' = {}
  BY <1>2, <1>4, <1>5, LogGrows DEF Mark
<1>7. hold' \in HoldRec /\ hold'.start = held_list /\ hold'.ran = hold.ran BY <1>2, <1>3, <1>4 DEF HoldRec
<1>8. DockerTypes' BY <1>1, <1>6, <1>7 DEF DockerTypes, UnitPcs, DaemonIn
<1>9. OldEngine' BY <1>1 DEF OldEngine, Before
<1>10. Confirmed' BY <1>1 DEF Confirmed, WordsOf
<1>11. LogSays' BY <1>1, <1>6, <1>7 DEF LogSays, Outcomes
<1>12. Untouched' BY <1>1, <1>4, <1>7 DEF Untouched, ByOwner
<1>13. HoldsKnown' BY <1>1, <1>3, <1>4, <1>7 DEF HoldsKnown
<1>14. Guarded' BY <1>1, <1>4 DEF Guarded
<1>15. QED BY <1>8, <1>9, <1>10, <1>11, <1>12, <1>13, <1>14

\* The second look: what is on hold then is what is put back.
LEMMA LookAgainKeeps ==
    ASSUME DockerInv, LookAgain
    PROVE  DockerInv'
<1> USE DEF DockerInv
<1>1. pc = "look" /\ UNCHANGED <<dpkg, offer, needs, du>> /\ box' = [box EXCEPT !.look = Held(dpkg)] BY DEF LookAgain, Still
<1>2. DockerTypes /\ box \in BoxRec /\ hold \in HoldRec /\ ~hold.ran /\ box.changed = {} /\ Args("HELD") # {} /\ marks # <<>> /\ LastKind \notin Outcomes /\ Args("HOLDS") = {}
  BY <1>1 DEF DockerTypes, Untouched, HoldsKnown, LogSays, Before, Told
<1>3. Held(dpkg) \subseteq Packages BY DEF Held, Present
<1>4. /\ box' \in BoxRec /\ box'.look = Held(dpkg) /\ box'.changed = {} /\ box'.lifted = box.lifted /\ box'.dpkg = box.dpkg /\ box'.own = box.own
  BY <1>1, <1>2, <1>3 DEF BoxRec
<1>5. Wanted(PinnedVer) \cup Pulled(PinnedVer) \subseteq du.names BY <1>1 DEF Guarded
<1>6. CASE refuse_unrestorable_holds(hold.start)
  <2>1. fail("guard") /\ Mark("GUARD", {"plan"}) BY <1>6 DEF LookAgain
  <2>2. hold' \in HoldRec /\ hold'.start = hold.start /\ hold'.ran = hold.ran /\ hold'.why = "guard" /\ pc' = "fail_restore" BY <1>2, <2>1, FailIs DEF Reasons
  <2>3. [kind |-> "GUARD", arg |-> {"plan"}] \in MarkRec
    <3>1. {"plan"} \in SUBSET Things BY DEF Things
    <3>2. QED BY <3>1, MarkIs
  <2>4. Chats BY <2>1, <2>3 DEF Chats, Mark, Outcomes
  <2>5. /\ marks' \in Seq(MarkRec) /\ marks' # <<>> /\ LastKind' \notin Outcomes /\ Args("HELD")' = Args("HELD") /\ Args("HOLDS")' = {}
    BY <1>2, <2>4, ChatKeeps
  <2>6. DockerTypes' BY <1>1, <1>4, <2>2, <2>5 DEF DockerTypes, UnitPcs, DaemonIn
  <2>7. OldEngine' BY <2>2 DEF OldEngine, Before
  <2>8. Confirmed' BY <1>1 DEF Confirmed, WordsOf
  <2>9. LogSays' BY <1>2, <2>2, <2>5 DEF LogSays, Told
  <2>10. Untouched' BY <1>1, <1>2, <1>4, <2>2 DEF Untouched, ByOwner
  <2>11. HoldsKnown' BY <1>1, <1>4, <2>2 DEF HoldsKnown, Before
  <2>12. Guarded' BY <1>4, <2>2 DEF Guarded
  <2>13. QED BY <2>6, <2>7, <2>8, <2>9, <2>10, <2>11, <2>12
<1>7. CASE ~refuse_unrestorable_holds(hold.start)
  <2>1. pc' = "install" /\ hold' = [hold EXCEPT !.ran = TRUE] /\ marks' = marks BY <1>7 DEF LookAgain, Go, Quiet
  <2>2. hold' \in HoldRec /\ hold'.start = hold.start /\ hold'.ran BY <1>2, <2>1 DEF HoldRec
  <2>3. Args("HELD")' = Args("HELD") /\ Args("HOLDS")' = {} /\ LastKind' = LastKind BY <1>2, <2>1 DEF Args, Of, LastKind
  <2>4. DockerTypes' BY <1>1, <1>4, <2>1, <2>2 DEF DockerTypes, UnitPcs, DaemonIn
  <2>5. OldEngine' BY <1>1, <2>1 DEF OldEngine, Before
  <2>6. Confirmed' BY <1>1 DEF Confirmed, WordsOf
  <2>7. LogSays' BY <1>2, <2>1, <2>2, <2>3 DEF LogSays
  <2>8. Untouched' BY <2>1, <2>2 DEF Untouched, Before
  <2>9. du.flag => Held(dpkg) \cap du.names \subseteq hold.start BY <1>7 DEF refuse_unrestorable_holds, held_among
  <2>10. HoldsKnown' BY <1>1, <1>4, <2>1, <2>2, <2>9 DEF HoldsKnown, Before
  <2>11. Guarded'
    <3>1. UNCHANGED <<Wanted(PinnedVer), Pulled(PinnedVer)>> BY <1>1 DEF Wanted, Pulled, PinnedVer, Present
    <3>2. QED BY <1>1, <1>4, <1>5, <3>1 DEF Guarded
  <2>12. QED BY <2>4, <2>5, <2>6, <2>7, <2>8, <2>10, <2>11
<1>8. QED BY <1>6, <1>7

\* The install: what loses its hold was to be put back, and what is changed was confirmed.
LEMMA InstallKeeps ==
    ASSUME DockerInv, Install
    PROVE  DockerInv'
<1> USE DEF DockerInv
<1>1. pc = "install" /\ marks' = marks /\ pc' = "restore" /\ UNCHANGED <<offer, needs, du>> BY DEF Install, Quiet, Go
<1>2. PICK some \in SUBSET {i.name : i \in Inst(PinnedVer)} :
        /\ some = {} \/ (~SimFails(du.flag, PinnedVer) /\ Removed(PinnedVer) = {})
        /\ dpkg' = Unpacked(some) /\ box' = [box EXCEPT !.changed = some]
        /\ \E rc \in IF some = {i.name : i \in Inst(PinnedVer)} /\ ~SimFails(du.flag, PinnedVer) /\ Removed(PinnedVer) = {} THEN {"ok", "bad"} ELSE {"bad"} :
              hold' = [hold EXCEPT !.rc = rc]
  BY DEF Install
<1>3. PICK rc \in {"ok", "bad"} : hold' = [hold EXCEPT !.rc = rc] BY <1>2
<1>4. PICK v \in {2, 3} : WordsOf(v) BY <1>1 DEF Confirmed
<1>5. PinnedVer = v BY <1>4, PinnedIs
<1>6. some \subseteq Wanted(v) \cup Pulled(v) BY <1>2, <1>5, InstIs
<1>7. some \subseteq du.names BY <1>1, <1>5, <1>6 DEF Guarded
<1>8. some \subseteq Packages BY <1>4, <1>7 DEF WordsOf
<1>9. hold \in HoldRec /\ box \in BoxRec /\ dpkg \in [Packages -> Package] /\ hold.ran /\ Args("HELD") # {} /\ Args("HOLDS") = {} /\ marks # <<>> /\ LastKind \notin Outcomes
  <2>1. Args("HELD") # {} /\ Args("HOLDS") = {} /\ marks # <<>> /\ LastKind \notin Outcomes BY <1>1 DEF LogSays, Told
  <2>2. QED BY <1>1, <2>1 DEF DockerTypes, Untouched
<1>10. hold' \in HoldRec /\ hold'.start = hold.start /\ hold'.ran = hold.ran BY <1>3, <1>9 DEF HoldRec
<1>11. /\ box' \in BoxRec /\ box'.changed = some /\ box'.look = box.look /\ box'.lifted = box.lifted
  BY <1>2, <1>8, <1>9 DEF BoxRec
<1>12. dpkg' \in [Packages -> Package] /\ \A p \in Packages \ some : dpkg'[p] = dpkg[p] BY <1>2, <1>5, <1>9 DEF Unpacked, Package
<1>13. Args("HELD")' = Args("HELD") /\ Args("HOLDS")' = Args("HOLDS") /\ LastKind' = LastKind BY <1>1 DEF Args, Of, LastKind
<1>14. ASSUME NEW p \in some, p \in box.look, p \notin box.lifted PROVE p \in hold.start
  <2>1. p \in Held(dpkg) BY <1>1, <1>14 DEF HoldsKnown
  <2>2. du.flag BY <1>2, <1>5, <1>6, <1>14, <2>1 DEF SimFails
  <2>3. QED BY <1>1, <1>7, <1>14, <2>2 DEF HoldsKnown
<1>15. DockerTypes' BY <1>1, <1>10, <1>11, <1>12 DEF DockerTypes, UnitPcs, DaemonIn
<1>16. OldEngine' BY <1>1 DEF OldEngine, Before
<1>17. Confirmed' BY <1>1 DEF Confirmed, WordsOf
<1>18. LogSays' BY <1>1, <1>9, <1>10, <1>13 DEF LogSays
<1>19. Untouched' BY <1>1, <1>9, <1>10 DEF Untouched, Before
<1>20. HoldsKnown'
  <2>1. ASSUME NEW p \in box.look PROVE p \in Held(dpkg') \/ p \in box.lifted \/ p \in hold.start
    <3>1. CASE p \in some BY <1>14, <3>1
    <3>2. CASE p \notin some
      <4>1. p \in Held(dpkg) \/ p \in box.lifted BY <1>1 DEF HoldsKnown
      <4>2. p \in Packages BY <1>9 DEF BoxRec
      <4>3. dpkg'[p] = dpkg[p] BY <1>12, <3>2, <4>2
      <4>4. QED BY <4>1, <4>3 DEF Held, Present
    <3>3. QED BY <3>1, <3>2
  <2>2. Held(dpkg)' = Held(dpkg') BY DEF Held, Present
  <2>3. hold.start \subseteq du.held BY DEF HoldsKnown
  <2>4. QED BY <1>1, <1>9, <1>10, <1>11, <1>13, <2>1, <2>2, <2>3 DEF HoldsKnown, Before
<1>21. Guarded'
  <2>1. hold.start \subseteq du.held BY DEF HoldsKnown
  <2>2. QED BY <1>1, <1>7, <1>11, <1>14, <2>1 DEF Guarded
<1>22. QED BY <1>15, <1>16, <1>17, <1>18, <1>19, <1>20, <1>21

\* The holds are put back, or dpkg stays locked.
LEMMA RestoringKeeps ==
    ASSUME DockerInv, NEW at \in {"restore", "last_restore", "fail_restore"}, NEW next \in {"after", "holds", "fail_holds"}, Restoring(at, next),
           at = "restore" => next = "after", at = "last_restore" => next = "holds", at = "fail_restore" => next = "fail_holds"
    PROVE  DockerInv'
<1> USE DEF DockerInv
<1>1. pc = at /\ pc' = next /\ marks' = marks /\ UNCHANGED <<offer, needs, du, box>> BY DEF Restoring, Go, Quiet
<1>2. CASE UNCHANGED <<dpkg, hold>>
  <2>1. Chats BY <1>1 DEF Chats
  <2>2. /\ hold' \in HoldRec /\ hold'.start = hold.start /\ hold'.ran = hold.ran
        /\ pc \in DaemonIn => hold'.rc \in {"SUCCESS", "RESTART_PENDING"}
    BY <1>2 DEF DockerTypes
  <2>3. pc' \in {"fail_restore", "fail_holds"} /\ hold'.why \in {"guard", "download"} => ~hold.ran BY <1>1, <1>2 DEF Untouched
  <2>4. QED BY <1>1, <1>2, <2>1, <2>2, <2>3, UnitGoesOn DEF UnitPcs, Before, Told, DaemonIn
<1>3. CASE hold.ran /\ dpkg' = Again /\ hold' = [hold EXCEPT !.back = TRUE]
  <2>1. hold \in HoldRec /\ dpkg \in [Packages -> Package] /\ marks # <<>> /\ LastKind \notin Outcomes BY <1>1 DEF DockerTypes, LogSays
  <2>2. hold' \in HoldRec /\ hold'.start = hold.start /\ hold'.ran = hold.ran /\ hold'.why = hold.why /\ hold'.rc = hold.rc BY <1>3, <2>1 DEF HoldRec
  <2>3. dpkg' \in [Packages -> Package] /\ \A p \in Packages : dpkg'[p].ver = dpkg[p].ver /\ (dpkg[p].held => dpkg'[p].held)
    <3>1. \A p \in Packages : dpkg[p] \in Package /\ [dpkg[p] EXCEPT !.held = TRUE] \in Package /\ [dpkg[p] EXCEPT !.held = TRUE].ver = dpkg[p].ver /\ [dpkg[p] EXCEPT !.held = TRUE].held
      BY <2>1 DEF Package
    <3>2. QED BY <1>3, <3>1 DEF Again
  <2>4. Held(dpkg) \subseteq Held(dpkg') BY <2>3 DEF Held, Present
  <2>5. Held(dpkg)' = Held(dpkg') BY DEF Held, Present
  <2>6. Args("HELD")' = Args("HELD") /\ Args("HOLDS")' = Args("HOLDS") /\ LastKind' = LastKind BY <1>1 DEF Args, Of, LastKind
  <2>7. DockerTypes' BY <1>1, <2>2, <2>3 DEF DockerTypes, UnitPcs, DaemonIn
  <2>8. OldEngine' BY <1>1 DEF OldEngine, Before
  <2>9. Confirmed' BY <1>1 DEF Confirmed, WordsOf
  <2>10. LogSays' BY <1>1, <2>2, <2>6 DEF LogSays, Told
  <2>11. Untouched' BY <1>1, <1>3, <2>2 DEF Untouched, Before
  <2>12. HoldsKnown' BY <1>1, <2>2, <2>4, <2>5, <2>6 DEF HoldsKnown, Before
  <2>13. Guarded' BY <1>1 DEF Guarded
  <2>14. QED BY <2>7, <2>8, <2>9, <2>10, <2>11, <2>12, <2>13
<1>4. QED BY <1>2, <1>3 DEF Restoring, restore_holds

\* The holds as they are now are told.
LEMMA SayHoldsKeeps ==
    ASSUME DockerInv, NEW at \in {"holds", "fail_holds"}, NEW next \in {"end", "fail_end"}, SayHolds(at, next),
           at = "holds" => next = "end", at = "fail_holds" => next = "fail_end"
    PROVE  DockerInv'
<1> USE DEF DockerInv
<1>1. pc = at /\ pc' = next /\ UNCHANGED <<dpkg, offer, needs, du, hold, box>> BY DEF SayHolds, Still, Go
<1>2. marks \in Seq(MarkRec) /\ Args("HOLDS") = {} /\ marks # <<>> /\ LastKind \notin Outcomes BY <1>1 DEF DockerTypes, LogSays
<1>3. Args("HELD") # {} <=> \E i \in DOMAIN marks : marks[i].kind = "HELD" BY DEF Args, Of
<1>4. /\ marks' \in Seq(MarkRec) /\ marks' # <<>> /\ LastKind' \notin Outcomes /\ Args("HELD")' = Args("HELD")
      /\ IF Args("HELD") = {} THEN Args("HOLDS")' = {} ELSE Args("HOLDS")' = {held_list}
  <2>1. CASE Args("HELD") = {}
    <3>1. marks' = marks BY <1>3, <2>1 DEF SayHolds, Quiet
    <3>2. QED BY <1>2, <2>1, <3>1 DEF Args, Of, LastKind
  <2>2. CASE Args("HELD") # {}
    <3>1. Mark("HOLDS", held_list) BY <1>3, <2>2 DEF SayHolds
    <3>2. held_list \in SUBSET Things BY DEF held_list, held_among, Held, Present, Things
    <3>3. [kind |-> "HOLDS", arg |-> held_list] \in MarkRec BY <3>2, MarkIs
    <3>4. QED BY <1>2, <2>2, <3>1, <3>3, LogGrows DEF Mark, Outcomes
  <2>3. QED BY <2>1, <2>2
<1>5. DockerTypes' BY <1>1, <1>4 DEF DockerTypes, UnitPcs, DaemonIn
<1>6. OldEngine' BY <1>1 DEF OldEngine, Before
<1>7. Confirmed' BY <1>1 DEF Confirmed, WordsOf
<1>8. LogSays' BY <1>1, <1>4 DEF LogSays, Told
<1>9. Untouched' BY <1>1 DEF Untouched, ByOwner, Before
<1>10. HoldsKnown'
  <2>1. Held(dpkg)' = Held(dpkg) BY <1>1 DEF Held, Present
  <2>2. ASSUME NEW p \in box.look PROVE p \in Held(dpkg) \/ p \in box.lifted \/ (p \in hold.start /\ \A a \in Args("HOLDS")' : p \notin a)
    <3>1. p \in Held(dpkg) \/ p \in box.lifted \/ p \in hold.start BY DEF HoldsKnown
    <3>2. p \in Held(dpkg) \/ p \notin held_list BY DEF held_list, held_among
    <3>3. QED BY <1>4, <3>1, <3>2
  <2>3. hold.start \subseteq du.held BY DEF HoldsKnown
  <2>4. QED BY <1>1, <2>1, <2>2, <2>3 DEF HoldsKnown, Before
<1>11. Guarded' BY <1>1 DEF Guarded
<1>12. QED BY <1>5, <1>6, <1>7, <1>8, <1>9, <1>10, <1>11

\* The run is over: with its word, or killed.
LEMMA OverKeeps ==
    ASSUME DockerInv, Ends \/ Killed
    PROVE  DockerInv'
<1> USE DEF DockerInv
<1>1. UNCHANGED <<dpkg, offer, needs, du, hold, box>> /\ pc' = "over" /\ pc \notin {"idle", "over"} BY DEF Ends, Killed, Still, Go
<1>2. marks \in Seq(MarkRec) /\ marks # <<>> /\ LastKind \notin Outcomes /\ hold \in HoldRec BY <1>1 DEF DockerTypes, LogSays
<1>3. /\ marks' \in Seq(MarkRec) /\ Args("HELD")' = Args("HELD") /\ Args("HOLDS")' = Args("HOLDS")
      /\ Terminal' # "" /\ Args("HELD") # {} => Args("HOLDS") # {}
      /\ FailReason' \in {"start", "download", "guard"} => ~hold.ran
  <2>1. CASE marks' = marks
    <3>1. Terminal' = "" /\ FailReason' = "" BY <1>2, <2>1 DEF Terminal, FailReason, LastKind, Outcomes
    <3>2. QED BY <1>2, <2>1, <3>1 DEF Args, Of
  <2>2. CASE pc = "end" /\ Mark(hold.rc, {})
    <3>1. hold.rc \in {"SUCCESS", "RESTART_PENDING"} BY <2>2 DEF DockerTypes, DaemonIn
    <3>2. CASE hold.rc \in Outcomes
      <4>1. [kind |-> hold.rc, arg |-> {}] \in MarkRec BY <3>2, MarkIs
      <4>2. /\ marks' \in Seq(MarkRec) /\ marks' # <<>> /\ marks'[Len(marks')] = [kind |-> hold.rc, arg |-> {}]
            /\ Args("HELD")' = Args("HELD") /\ Args("HOLDS")' = Args("HOLDS")
        BY <1>2, <2>2, <3>2, <4>1, LogGrows DEF Mark, Outcomes
      <4>3. FailReason' = ""
        <5>1. marks'[Len(marks')].kind # "FAILED" BY <3>1, <4>2
        <5>2. QED BY <4>2, <5>1 DEF FailReason, Terminal
      <4>4. Args("HELD") # {} => Args("HOLDS") # {} BY <2>2 DEF LogSays
      <4>5. QED BY <4>2, <4>3, <4>4
    <3>3. QED BY <3>1, <3>2, <2>2 DEF Outcomes
  <2>3. CASE pc = "fail_end" /\ Mark("FAILED", {hold.why})
    <3>1. hold.why \in Reasons BY <1>2 DEF HoldRec
    <3>2. {hold.why} \in SUBSET Things BY <3>1 DEF Things
    <3>3. [kind |-> "FAILED", arg |-> {hold.why}] \in MarkRec BY <3>2, MarkIs DEF Outcomes
    <3>4. /\ marks' \in Seq(MarkRec) /\ marks' # <<>> /\ marks'[Len(marks')] = [kind |-> "FAILED", arg |-> {hold.why}]
          /\ Args("HELD")' = Args("HELD") /\ Args("HOLDS")' = Args("HOLDS")
      BY <1>2, <2>3, <3>3, LogGrows DEF Mark
    <3>5. Terminal' = "FAILED" BY <3>4 DEF Terminal
    <3>6. FailReason' = CHOOSE w \in {hold.why} : TRUE BY <3>4, <3>5 DEF FailReason
    <3>7. FailReason' = hold.why BY <3>6
    <3>8. hold.why \in {"guard", "download"} => ~hold.ran BY <2>3 DEF Untouched
    <3>9. Args("HELD") # {} => Args("HOLDS") # {} BY <2>3 DEF LogSays
    <3>10. QED BY <3>1, <3>4, <3>7, <3>8, <3>9 DEF Reasons
  <2>4. QED BY <2>1, <2>2, <2>3 DEF Ends, Killed
<1>4. DockerTypes' BY <1>1, <1>3 DEF DockerTypes, UnitPcs, DaemonIn
<1>5. OldEngine' BY <1>1 DEF OldEngine, Before
<1>6. Confirmed' BY <1>1 DEF Confirmed, WordsOf
<1>7. LogSays' BY <1>1, <1>3 DEF LogSays, Told
<1>8. Untouched' BY <1>1, <1>3 DEF Untouched, ByOwner, Before
<1>9. HoldsKnown' BY <1>1, <1>3 DEF HoldsKnown, Before, Held, Present
<1>10. Guarded' BY <1>1 DEF Guarded
<1>11. QED BY <1>4, <1>5, <1>6, <1>7, <1>8, <1>9, <1>10

\* The owner holds, releases or installs a package, or the repository has a newer one.
LEMMA OwnerKeepsWord ==
    ASSUME DockerInv, (\E p \in Packages : OwnerHolds(p) \/ OwnerReleases(p) \/ OwnerInstalls(p)) \/ Published
    PROVE  DockerInv'
<1> USE DEF DockerInv
<1>1. /\ UNCHANGED <<needs, du, pc, hold, marks>> /\ pc # "over" /\ offer' \in {2, 3}
  <2>1. offer \in {2, 3} BY DEF DockerTypes
  <2>2. QED BY <2>1 DEF OwnerHolds, OwnerReleases, OwnerInstalls, Published, Own
<1>2. box \in BoxRec /\ dpkg \in [Packages -> Package] BY DEF DockerTypes
<1>3. /\ dpkg' \in [Packages -> Package] /\ box' \in BoxRec /\ box'.dpkg = box.dpkg /\ box'.look = box.look /\ box'.changed = box.changed
      /\ box.own \subseteq box'.own /\ box.lifted \subseteq box'.lifted
      /\ \A p \in Packages : /\ dpkg'[p].ver # dpkg[p].ver => p \in Foreign /\ dpkg[p].ver = 0 /\ dpkg'[p].ver = 1 /\ <<"inst", p>> \in box'.own
                             /\ dpkg[p].held /\ ~dpkg'[p].held => p \in box'.lifted
                             /\ dpkg'[p].held => (dpkg[p].held /\ (p \in box'.lifted => p \in box.lifted)) \/ <<"hold", p>> \in box'.own
  <2>1. ASSUME NEW what \in {"hold", "lift", "inst", "new"}, NEW x \in Packages \cup {3} PROVE box.own \cup {<<what, x>>} \in SUBSET Whats
    <3>1. <<what, x>> \in Whats BY DEF Whats
    <3>2. QED BY <1>2, <3>1 DEF BoxRec
  <2>2. ASSUME NEW p \in Packages, OwnerHolds(p)
        PROVE  /\ dpkg' \in [Packages -> Package] /\ box' \in BoxRec /\ box'.dpkg = box.dpkg /\ box'.look = box.look /\ box'.changed = box.changed
               /\ box'.own = box.own \cup {<<"hold", p>>} /\ box'.lifted = box.lifted
               /\ \A q \in Packages : IF q = p THEN dpkg'[q].ver = dpkg[q].ver /\ dpkg'[q].held ELSE dpkg'[q] = dpkg[q]
    <3>1. dpkg' = [dpkg EXCEPT ![p].held = TRUE] /\ box' = [box EXCEPT !.own = @ \cup {<<"hold", p>>}] BY <2>2 DEF OwnerHolds
    <3>2. box.own \cup {<<"hold", p>>} \in SUBSET Whats BY <2>1
    <3>3. box' \in BoxRec /\ box'.dpkg = box.dpkg /\ box'.look = box.look /\ box'.changed = box.changed /\ box'.own = box.own \cup {<<"hold", p>>} /\ box'.lifted = box.lifted
      BY <1>2, <3>1, <3>2 DEF BoxRec
    <3>4. dpkg' \in [Packages -> Package] /\ \A q \in Packages : IF q = p THEN dpkg'[q].ver = dpkg[q].ver /\ dpkg'[q].held ELSE dpkg'[q] = dpkg[q]
      <4>1. dpkg[p] \in Package BY <1>2
      <4>2. /\ [dpkg[p] EXCEPT !.held = TRUE] \in Package /\ [dpkg[p] EXCEPT !.held = TRUE].ver = dpkg[p].ver
            /\ [dpkg[p] EXCEPT !.held = TRUE].held
        BY <4>1 DEF Package
      <4>3. dpkg' = [dpkg EXCEPT ![p] = [dpkg[p] EXCEPT !.held = TRUE]] BY <1>2, <3>1
      <4>4. QED BY <1>2, <4>2, <4>3
    <3>5. QED BY <3>3, <3>4
  <2>3. ASSUME NEW p \in Packages, OwnerReleases(p)
        PROVE  /\ dpkg' \in [Packages -> Package] /\ box' \in BoxRec /\ box'.dpkg = box.dpkg /\ box'.look = box.look /\ box'.changed = box.changed
               /\ box'.own = box.own \cup {<<"lift", p>>} /\ box'.lifted = box.lifted \cup {p}
               /\ \A q \in Packages : IF q = p THEN dpkg'[q].ver = dpkg[q].ver /\ ~dpkg'[q].held ELSE dpkg'[q] = dpkg[q]
    <3>1. dpkg' = [dpkg EXCEPT ![p].held = FALSE] /\ box' = [box EXCEPT !.own = @ \cup {<<"lift", p>>}, !.lifted = @ \cup {p}] BY <2>3 DEF OwnerReleases
    <3>2. box.own \cup {<<"lift", p>>} \in SUBSET Whats BY <2>1
    <3>3. box' \in BoxRec /\ box'.dpkg = box.dpkg /\ box'.look = box.look /\ box'.changed = box.changed /\ box'.own = box.own \cup {<<"lift", p>>} /\ box'.lifted = box.lifted \cup {p}
      BY <1>2, <3>1, <3>2 DEF BoxRec
    <3>4. dpkg' \in [Packages -> Package] /\ \A q \in Packages : IF q = p THEN dpkg'[q].ver = dpkg[q].ver /\ ~dpkg'[q].held ELSE dpkg'[q] = dpkg[q]
      <4>1. dpkg[p] \in Package BY <1>2
      <4>2. /\ [dpkg[p] EXCEPT !.held = FALSE] \in Package /\ [dpkg[p] EXCEPT !.held = FALSE].ver = dpkg[p].ver
            /\ ~[dpkg[p] EXCEPT !.held = FALSE].held
        BY <4>1 DEF Package
      <4>3. dpkg' = [dpkg EXCEPT ![p] = [dpkg[p] EXCEPT !.held = FALSE]] BY <1>2, <3>1
      <4>4. QED BY <1>2, <4>2, <4>3
    <3>5. QED BY <3>3, <3>4
  <2>4. ASSUME NEW p \in Packages, OwnerInstalls(p)
        PROVE  /\ dpkg' \in [Packages -> Package] /\ box' \in BoxRec /\ box'.dpkg = box.dpkg /\ box'.look = box.look /\ box'.changed = box.changed
               /\ box'.own = box.own \cup {<<"inst", p>>} /\ box'.lifted = box.lifted /\ p \in Foreign /\ dpkg[p].ver = 0
               /\ \A q \in Packages : dpkg'[q] = IF q = p THEN [ver |-> 1, held |-> dpkg[p].held] ELSE dpkg[q]
    <3>1. dpkg' = [dpkg EXCEPT ![p].ver = 1] /\ box' = [box EXCEPT !.own = @ \cup {<<"inst", p>>}] /\ p \in Foreign /\ dpkg[p].ver = 0 BY <2>4 DEF OwnerInstalls
    <3>2. box.own \cup {<<"inst", p>>} \in SUBSET Whats BY <2>1
    <3>3. box' \in BoxRec /\ box'.dpkg = box.dpkg /\ box'.look = box.look /\ box'.changed = box.changed /\ box'.own = box.own \cup {<<"inst", p>>} /\ box'.lifted = box.lifted
      BY <1>2, <3>1, <3>2 DEF BoxRec
    <3>4. dpkg' \in [Packages -> Package] /\ \A q \in Packages : dpkg'[q] = IF q = p THEN [ver |-> 1, held |-> dpkg[p].held] ELSE dpkg[q]
      <4>1. dpkg[p] \in Package BY <1>2
      <4>2. [dpkg[p] EXCEPT !.ver = 1] = [ver |-> 1, held |-> dpkg[p].held] /\ [ver |-> 1, held |-> dpkg[p].held] \in Package BY <4>1 DEF Package
      <4>3. dpkg' = [dpkg EXCEPT ![p] = [ver |-> 1, held |-> dpkg[p].held]] BY <1>2, <3>1, <4>2
      <4>4. QED BY <1>2, <4>2, <4>3
    <3>5. QED BY <3>1, <3>3, <3>4
  <2>5. ASSUME Published
        PROVE  dpkg' = dpkg /\ box' \in BoxRec /\ box'.dpkg = box.dpkg /\ box'.look = box.look /\ box'.changed = box.changed /\ box.own \subseteq box'.own /\ box'.lifted = box.lifted
    <3>1. dpkg' = dpkg /\ box' = [box EXCEPT !.own = @ \cup {<<"new", 3>>}] BY <2>5 DEF Published
    <3>2. box.own \cup {<<"new", 3>>} \in SUBSET Whats BY <2>1
    <3>3. QED BY <1>2, <3>1, <3>2 DEF BoxRec
  <2>6. CASE \E p \in Packages : OwnerHolds(p)
    <3>1. PICK p \in Packages : OwnerHolds(p) BY <2>6
    <3>2. dpkg' \in [Packages -> Package] /\ box' \in BoxRec /\ box'.dpkg = box.dpkg /\ box'.look = box.look /\ box'.changed = box.changed BY <2>2, <3>1
    <3>3. box'.own = box.own \cup {<<"hold", p>>} /\ box'.lifted = box.lifted BY <2>2, <3>1
    <3>4. \A q \in Packages : IF q = p THEN dpkg'[q].ver = dpkg[q].ver /\ dpkg'[q].held ELSE dpkg'[q] = dpkg[q] BY <2>2, <3>1
    <3>5. QED BY <3>2, <3>3, <3>4
  <2>7. CASE \E p \in Packages : OwnerReleases(p)
    <3>1. PICK p \in Packages : OwnerReleases(p) BY <2>7
    <3>2. dpkg' \in [Packages -> Package] /\ box' \in BoxRec /\ box'.dpkg = box.dpkg /\ box'.look = box.look /\ box'.changed = box.changed BY <2>3, <3>1
    <3>3. box'.own = box.own \cup {<<"lift", p>>} /\ box'.lifted = box.lifted \cup {p} BY <2>3, <3>1
    <3>4. \A q \in Packages : IF q = p THEN dpkg'[q].ver = dpkg[q].ver /\ ~dpkg'[q].held ELSE dpkg'[q] = dpkg[q] BY <2>3, <3>1
    <3>5. QED BY <3>2, <3>3, <3>4
  <2>8. CASE \E p \in Packages : OwnerInstalls(p)
    <3>1. PICK p \in Packages : OwnerInstalls(p) BY <2>8
    <3>2. dpkg' \in [Packages -> Package] /\ box' \in BoxRec /\ box'.dpkg = box.dpkg /\ box'.look = box.look /\ box'.changed = box.changed BY <2>4, <3>1
    <3>3. box'.own = box.own \cup {<<"inst", p>>} /\ box'.lifted = box.lifted /\ p \in Foreign /\ dpkg[p].ver = 0 BY <2>4, <3>1
    <3>4. \A q \in Packages : dpkg'[q] = IF q = p THEN [ver |-> 1, held |-> dpkg[p].held] ELSE dpkg[q] BY <2>4, <3>1
    <3>5. QED BY <3>2, <3>3, <3>4
  <2>9. CASE Published BY <1>2, <2>5, <2>9
  <2>10. QED BY <2>6, <2>7, <2>8, <2>9
<1>4. DockerTypes' BY <1>1, <1>3 DEF DockerTypes
<1>5. OldEngine'
  <2>1. \A p \in Packages : p \in Foreign => p \notin Engine BY DockerAssumption
  <2>2. QED BY <1>1, <1>3, <2>1 DEF OldEngine
<1>6. Confirmed' BY <1>1 DEF Confirmed, WordsOf
<1>7. (\A k : Args(k)' = Args(k)) /\ LastKind' = LastKind BY <1>1 DEF Args, Of, LastKind
<1>8. LogSays' BY <1>1, <1>7 DEF LogSays
<1>9. Untouched'
  <2>1. ASSUME ~hold.ran, NEW p \in Packages PROVE ByOwner(p)'
    <3>1. ByOwner(p) BY <2>1 DEF Untouched
    <3>2. dpkg'[p].ver # box'.dpkg[p].ver => <<"inst", p>> \in box'.own BY <1>3, <3>1 DEF ByOwner
    <3>3. dpkg'[p].held /\ (p \in box'.lifted \/ ~box'.dpkg[p].held) => <<"hold", p>> \in box'.own BY <1>3, <3>1 DEF ByOwner
    <3>4. QED BY <3>2, <3>3 DEF ByOwner
  <2>2. QED BY <1>1, <2>1 DEF Untouched
<1>10. ASSUME NEW p \in Packages, p \in Held(dpkg) PROVE p \in Held(dpkg)' \/ p \in box'.lifted
  BY <1>3, <1>10 DEF Held, Present
<1>11. HoldsKnown'
  <2>1. box.look \subseteq Packages BY <1>2 DEF BoxRec
  <2>2. ASSUME NEW p \in box.look PROVE p \in Held(dpkg)' \/ p \in box'.lifted \/ (p \in hold.start /\ \A a \in Args("HOLDS") : p \notin a)
    <3>1. p \in Held(dpkg) \/ p \in box.lifted \/ (p \in hold.start /\ \A a \in Args("HOLDS") : p \notin a) BY DEF HoldsKnown
    <3>2. QED BY <1>3, <1>10, <2>1, <3>1
  <2>3. ASSUME pc = "install", NEW p \in box.look \ box'.lifted PROVE p \in Held(dpkg)'
    <3>1. p \in Held(dpkg) BY <1>3, <2>3 DEF HoldsKnown
    <3>2. QED BY <1>10, <2>1, <3>1
  <2>4. QED BY <1>1, <1>3, <1>7, <2>2, <2>3 DEF HoldsKnown
<1>12. Guarded'
  <2>1. \A p \in box'.changed : p \in du.names /\ (p \in box'.look \ box'.lifted => p \in du.held) BY <1>3 DEF Guarded
  <2>2. ASSUME pc \in {"download", "look", "install"} PROVE (Wanted(PinnedVer) \cup Pulled(PinnedVer))' \subseteq du.names
    <3>1. PICK v \in {2, 3} : WordsOf(v) BY <2>2 DEF Confirmed
    <3>2. PinnedVer = v /\ PinnedVer' = v
      <4>1. PinnedVer = v BY <3>1, PinnedIs
      <4>2. PinnedVer' = PinnedVer BY <1>1 DEF PinnedVer
      <4>3. QED BY <4>1, <4>2
    <3>3. \A p \in Packages : dpkg[p].ver \in {0, 1} BY <2>2 DEF OldEngine, Before
    <3>4. \A p \in Engine : p \in Packages /\ dpkg'[p].ver = dpkg[p].ver BY <1>3, DockerAssumption DEF Packages
    <3>5. Wanted(v)' = Wanted(v) BY <3>4 DEF Wanted, Present
    <3>6. needs[v] \subseteq Packages BY DEF DockerTypes, Packages
    <3>7. \A p \in Packages : dpkg[p].ver < v BY <3>3
    <3>8. Pulled(v)' \subseteq Pulled(v) BY <1>1, <3>5, <3>6, <3>7 DEF Pulled
    <3>9. Wanted(v) \cup Pulled(v) \subseteq du.names BY <2>2, <3>2 DEF Guarded
    <3>10. Wanted(PinnedVer)' = Wanted(v)' /\ Pulled(PinnedVer)' = Pulled(v)' BY <3>2 DEF Wanted, Pulled
    <3>11. QED BY <3>5, <3>8, <3>9, <3>10
  <2>3. QED BY <1>1, <2>1, <2>2 DEF Guarded
<1>13. QED BY <1>4, <1>5, <1>6, <1>8, <1>9, <1>11, <1>12

\* Every step keeps it.
LEMMA DockerKeeps ==
    ASSUME DockerInv, [DNext]_dVars
    PROVE  DockerInv'
<1>1. CASE UNCHANGED dVars BY <1>1, DockerStands DEF dVars
<1>2. CASE Check BY <1>2, DockerStands DEF Check
<1>3. CASE \E allow \in BOOLEAN : startDockerUpdate(allow) BY <1>3, StartedKeeps
<1>4. CASE Unit
  <2>1. CASE LookFirst \/ SayPrevious \/ Guard \/ Download \/ AfterInstall \/ Daemon \/ Containers BY <2>1, LooksKeep
  <2>2. CASE Restoring("restore", "after") \/ Restoring("last_restore", "holds") \/ Restoring("fail_restore", "fail_holds")
    <3>1. CASE Restoring("restore", "after") BY <3>1, RestoringKeeps
    <3>2. CASE Restoring("last_restore", "holds") BY <3>2, RestoringKeeps
    <3>3. CASE Restoring("fail_restore", "fail_holds") BY <3>3, RestoringKeeps
    <3>4. QED BY <2>2, <3>1, <3>2, <3>3
  <2>3. CASE SayHolds("holds", "end") \/ SayHolds("fail_holds", "fail_end")
    <3>1. CASE SayHolds("holds", "end") BY <3>1, SayHoldsKeeps
    <3>2. CASE SayHolds("fail_holds", "fail_end") BY <3>2, SayHoldsKeeps
    <3>3. QED BY <2>3, <3>1, <3>2
  <2>4. CASE UnitStarts BY <2>4, UnitStartsKeeps
  <2>5. CASE SayHeld BY <2>5, SayHeldKeeps
  <2>6. CASE LookAgain BY <2>6, LookAgainKeeps
  <2>7. CASE Install BY <2>7, InstallKeeps
  <2>8. CASE Ends BY <2>8, OverKeeps
  <2>9. QED BY <1>4, <2>1, <2>2, <2>3, <2>4, <2>5, <2>6, <2>7, <2>8 DEF Unit
<1>5. CASE Killed BY <1>5, OverKeeps
<1>6. CASE (\E p \in Packages : OwnerHolds(p) \/ OwnerReleases(p) \/ OwnerInstalls(p)) \/ Published BY <1>6, OwnerKeepsWord
<1>7. QED BY <1>1, <1>2, <1>3, <1>4, <1>5, <1>6 DEF DNext

\* Docker (system_package_docker_update.go, system_package_docker_script.go): the invariant of the run, for any
\* packages, and any number of steps of the owner and kills.
THEOREM DockerInvariant == DSpec => []DockerInv
<1>1. DInit => DockerInv BY DockerStarts
<1>2. DockerInv /\ [DNext]_dVars => DockerInv' BY DockerKeeps
<1>3. QED BY <1>1, <1>2, PTL DEF DSpec

\* Docker: no hold is lost without a word, "nothing was changed" is true where it is said, and what is changed was
\* confirmed (KeepsItsWord).
THEOREM KeepsItsWordHolds == DSpec => []KeepsItsWord
<1>1. DockerInv => KeepsItsWord BY DockerInvGives
<1>2. QED BY <1>1, DockerInvariant, PTL
===============================================================================
