------------------------------ MODULE FileTasks ------------------------------
(* Copies and moves of the Files page (service/file.go, service/notify.go): a    *)
(* queue that runs one operation at a time, the loop that reports and takes out  *)
(* what is finished, the one that writes the progress, and cancels, failures and *)
(* panics at any point.                                                          *)
(* Each source is one entry of a folder; its target is the entry of that name in *)
(* the folder of the task. A copy of it is nothing, something else, a part of it *)
(* or the whole.                                                                 *)
EXTENDS Naturals, Sequences, FiniteSets

CONSTANTS Sources,          \* entries that are copied and moved
          Folders,          \* where to: [name, disk], disk TRUE when it is the source's
          Asked,            \* what a task may be: [kind, style, items, to]
          Ids,              \* tasks that are asked for
          Again,            \* an entry that was to be moved may be asked for again
          MaxStarts,        \* starts of the queue that are on their way
          MaxFailures       \* calls that fail and operations that panic
ASSUME FileTasksAssumption ==
    /\ \A t \in Asked : t.kind \in {"copy", "move"} /\ t.items \subseteq Sources /\ t.to \in Folders
    /\ Ids \in Nat /\ MaxStarts \in Nat /\ MaxFailures \in Nat

VARIABLES source,           \* what is left of each source
          copied,           \* what is at each target
          wanted,           \* the tasks that were asked for, as they were asked
          queue,            \* OpStrArr
          tasks,            \* FileQueue
          running,          \* fileOperateCancels: the operations that run, cancelled or not
          work,             \* where an operation is: [pc, items, existed, error]
          starts,           \* calls of ExecOpFile that are on their way
          reporters,        \* loops of SendFileOperateNotify
          progress,         \* the task that CheckFileStatus has read
          failuresLeft
taskVars == <<source, copied, wanted, queue, tasks, running, work, starts, reporters, progress, failuresLeft>>

Waiting(t) == [task |-> t, finished |-> FALSE, error |-> FALSE]
NoProgress == [id |-> 0, seen |-> <<>>]
TargetOf(t, s) == <<s, t.to.name>>
Running == DOMAIN running
Live(k) == running[k] = "on"
Without(f, gone) == [k \in DOMAIN f \ gone |-> f[k]]
With(f, new, v) == [k \in DOMAIN f \cup {new} |-> IF k \in DOMAIN f THEN f[k] ELSE v]

taskInit == /\ source = [s \in Sources |-> "whole"]
            /\ copied \in [Sources \X {f.name : f \in Folders} -> {"none", "other"}]
            /\ wanted = <<>> /\ queue = <<>> /\ tasks = <<>> /\ running = <<>> /\ work = <<>>
            /\ starts = 0 /\ reporters = 0 /\ progress = NoProgress /\ failuresLeft = MaxFailures

Begins == starts < MaxStarts /\ starts' = starts + 1
\* PostOperateFileOrDir: the task is queued; the first one starts the queue and the loops.
PostOperateFileOrDir(t) ==
    /\ Len(wanted) < Ids /\ wanted' = Append(wanted, t)
    /\ Again \/ \A i \in DOMAIN wanted : wanted[i].kind = "move" => wanted[i].items \cap t.items = {}
    /\ tasks' = With(tasks, Len(wanted) + 1, Waiting(t))
    /\ queue' = Append(queue, Len(wanted) + 1)
    /\ IF queue = <<>> THEN Begins /\ reporters' = reporters + 1 ELSE UNCHANGED <<starts, reporters>>
    /\ UNCHANGED <<source, copied, running, work, progress, failuresLeft>>
\* Altered: a cancelled operation that is still stopping does not hold the queue.
ExecOpFile_Beside ==
    /\ starts > 0 /\ starts' = starts - 1
    /\ IF queue = <<>> \/ Head(queue) \in Running THEN UNCHANGED <<running, work>>
       ELSE IF Head(queue) \notin DOMAIN tasks \/ tasks[Head(queue)].finished THEN UNCHANGED <<running, work>>
       ELSE /\ running' = With(running, Head(queue), "on")
            /\ work' = With(work, Head(queue), [pc |-> "next", items |-> tasks[Head(queue)].task.items, at |-> "", existed |-> FALSE, error |-> FALSE])
    /\ UNCHANGED <<source, copied, wanted, queue, tasks, reporters, progress, failuresLeft>>
\* ExecOpFile: the head, unless an operation still runs or that task has run.
ExecOpFile ==
    /\ starts > 0 /\ starts' = starts - 1
    /\ IF queue = <<>> \/ Running # {} THEN UNCHANGED <<running, work>>
       ELSE IF Head(queue) \notin DOMAIN tasks \/ tasks[Head(queue)].finished THEN UNCHANGED <<running, work>>
       ELSE /\ running' = With(running, Head(queue), "on")
            /\ work' = With(work, Head(queue), [pc |-> "next", items |-> tasks[Head(queue)].task.items, at |-> "", existed |-> FALSE, error |-> FALSE])
    /\ UNCHANGED <<source, copied, wanted, queue, tasks, reporters, progress, failuresLeft>>
\* The tasks of the queue that stay, in their order.
StillWaiting(gone) ==
    LET waiting[i \in 0..Len(queue)] ==
            IF i = 0 THEN <<>> ELSE IF queue[i] \in gone THEN waiting[i - 1] ELSE Append(waiting[i - 1], queue[i])
    IN  waiting[Len(queue)]
\* What leaves the queue; another head is started.
TakeOut(gone) ==
    /\ tasks' = Without(tasks, gone)
    /\ queue' = StillWaiting(gone)
    /\ IF queue' # <<>> /\ queue'[1] # queue[1] THEN Begins ELSE UNCHANGED starts
\* CancelFileOperate: one task or all of them.
CancelFileOperate(gone) ==
    /\ gone # {} /\ TakeOut(gone)
    /\ running' = [k \in Running |-> IF k \in gone /\ k \in DOMAIN tasks THEN "cancelled" ELSE running[k]]
    /\ UNCHANGED <<source, copied, wanted, work, reporters, progress, failuresLeft>>
\* fileOperateTasks: the finished ones are reported and taken out; a loop that finds no task ends.
SendFileOperateNotify ==
    /\ reporters > 0
    /\ IF DOMAIN tasks = {} THEN reporters' = reporters - 1 /\ UNCHANGED <<queue, tasks, starts>>
       ELSE TakeOut({k \in DOMAIN tasks : tasks[k].finished}) /\ UNCHANGED reporters
    /\ UNCHANGED <<source, copied, wanted, running, work, progress, failuresLeft>>
\* CheckFileStatus reads a task, sums up what is at its targets, and writes the progress of one that is still there.
ReadProgress == /\ progress = NoProgress
                /\ \E k \in DOMAIN tasks : progress' = [id |-> k, seen |-> tasks[k]]
                /\ UNCHANGED <<source, copied, wanted, queue, tasks, running, work, starts, reporters, failuresLeft>>
CheckFileStatus == /\ progress # NoProgress /\ progress' = NoProgress
                   /\ UNCHANGED <<source, copied, wanted, queue, tasks, running, work, starts, reporters, failuresLeft>>

-------------------------------------------------------------------------------
Fails == failuresLeft > 0 /\ failuresLeft' = failuresLeft - 1
Step(k, pc) == work' = [work EXCEPT ![k].pc = pc]
\* fail keeps that an item failed, unless the task was cancelled.
ItemFails(k) == work' = [work EXCEPT ![k].pc = "next", ![k].error = @ \/ Live(k)]
ItemDone(k) == Step(k, "next")
Op(k) == wanted[k]
WorkAt(k, pc) == k \in Running /\ work[k].pc = pc
Here(k) == TargetOf(Op(k), work[k].at)
Queue == UNCHANGED <<wanted, queue, tasks, running, starts, reporters, progress>>

\* The next item, while the task is not cancelled. A folder whose target was made inside it since is left alone.
NextItem(k) ==
    /\ WorkAt(k, "next") /\ Live(k)
    /\ \E s \in work[k].items :
         work' = [work EXCEPT ![k].items = @ \ {s}, ![k].at = s, ![k].pc = Op(k).kind, ![k].existed = copied[TargetOf(Op(k), s)] # "none"]
    /\ UNCHANGED <<source, copied, failuresLeft>> /\ Queue
\* A move: what is at the target is skipped or removed first; a disk that is mounted there stops the item.
moveItem(k) ==
    /\ WorkAt(k, "move")
    /\ \/ ~work[k].existed /\ Step(k, "rename") /\ UNCHANGED <<copied, failuresLeft>>
       \/ work[k].existed /\ Op(k).style = "skip" /\ ItemDone(k) /\ UNCHANGED <<copied, failuresLeft>>
       \/ /\ work[k].existed /\ Op(k).style # "skip"
          /\ \/ copied' = [copied EXCEPT ![Here(k)] = "none"] /\ Step(k, "rename") /\ UNCHANGED failuresLeft
             \/ Fails /\ ItemFails(k) /\ UNCHANGED copied
    /\ UNCHANGED source /\ Queue
\* Then a rename, which another disk turns into a copy.
rename(k) ==
    /\ WorkAt(k, "rename")
    /\ \/ source[work[k].at] = "gone" /\ ItemFails(k) /\ UNCHANGED <<source, copied, failuresLeft>>
       \/ /\ source[work[k].at] # "gone" /\ Op(k).to.disk
          /\ copied' = [copied EXCEPT ![Here(k)] = source[work[k].at]] /\ source' = [source EXCEPT ![work[k].at] = "gone"]
          /\ ItemDone(k) /\ UNCHANGED failuresLeft
       \/ source[work[k].at] # "gone" /\ ~Op(k).to.disk /\ Step(k, "copying") /\ UNCHANGED <<source, copied, failuresLeft>>
       \/ source[work[k].at] # "gone" /\ Fails /\ ItemFails(k) /\ UNCHANGED <<source, copied>>
    /\ Queue
copyItem(k) == /\ WorkAt(k, "copy") /\ Step(k, "copying")
               /\ UNCHANGED <<source, copied, failuresLeft>> /\ Queue
Skips(k) == Op(k).style = "skip" /\ copied[Here(k)] # "none"
\* copyDir begins; over what is there it merges, and skipping it does nothing.
copyDir(k) ==
    /\ WorkAt(k, "copying")
    /\ IF source[work[k].at] = "gone" THEN Step(k, "cut") /\ UNCHANGED copied
       ELSE IF Skips(k) THEN Step(k, "whole") /\ UNCHANGED copied
       ELSE copied' = [copied EXCEPT ![Here(k)] = "part"] /\ Step(k, "part")
    /\ UNCHANGED <<source, failuresLeft>> /\ Queue
\* It ends with the whole, or is cut short by a cancel, or by an entry it cannot copy.
copyEnds(k) ==
    /\ WorkAt(k, "part")
    /\ \/ Live(k) /\ Step(k, "whole") /\ copied' = [copied EXCEPT ![Here(k)] = source[work[k].at]] /\ UNCHANGED failuresLeft
       \/ ~Live(k) /\ Step(k, "cut") /\ UNCHANGED <<copied, failuresLeft>>
       \/ Fails /\ Step(k, "cut") /\ UNCHANGED copied
    /\ UNCHANGED source /\ Queue
\* A move removes the source once all of it is copied; a removal that fails may have begun.
removeSource(k) ==
    /\ WorkAt(k, "whole") /\ Op(k).kind = "move"
    /\ \/ source' = [source EXCEPT ![work[k].at] = "gone"] /\ ItemDone(k) /\ UNCHANGED failuresLeft
       \/ source' = [source EXCEPT ![work[k].at] = "part"] /\ ItemFails(k) /\ Fails
    /\ UNCHANGED copied /\ Queue
copied_(k) == /\ WorkAt(k, "whole") /\ Op(k).kind = "copy" /\ ItemDone(k)
              /\ UNCHANGED <<source, copied, failuresLeft>> /\ Queue
\* What was cut short: a move removes the target, a cancelled copy the one that it made.
dropHalf(k) ==
    /\ WorkAt(k, "cut") /\ ItemFails(k)
    /\ copied' = IF Op(k).kind = "move" \/ (~Live(k) /\ ~work[k].existed) THEN [copied EXCEPT ![Here(k)] = "none"] ELSE copied
    /\ UNCHANGED <<source, failuresLeft>> /\ Queue

\* The operation is over, by its end, a cancel or a panic: the outcome is kept if the task is still queued, and the queue goes on.
fileOperate(k) ==
    /\ k \in Running
    /\ \E panicked \in BOOLEAN :
         /\ IF panicked THEN Fails ELSE WorkAt(k, "next") /\ (work[k].items = {} \/ ~Live(k)) /\ UNCHANGED failuresLeft
         /\ tasks' = IF k \in DOMAIN tasks THEN [tasks EXCEPT ![k].finished = TRUE, ![k].error = panicked \/ work[k].error] ELSE tasks
    /\ running' = Without(running, {k}) /\ work' = Without(work, {k})
    /\ Begins
    /\ UNCHANGED <<source, copied, wanted, queue, reporters, progress>>

taskStep(k) == \/ NextItem(k) \/ moveItem(k) \/ rename(k) \/ copyItem(k) \/ copyDir(k) \/ copyEnds(k)
               \/ removeSource(k) \/ copied_(k) \/ dropHalf(k) \/ fileOperate(k)
taskNext == \/ \E t \in Asked : PostOperateFileOrDir(t)
            \/ \E k \in DOMAIN tasks : CancelFileOperate({k})
            \/ CancelFileOperate(DOMAIN tasks)
            \/ ExecOpFile \/ SendFileOperateNotify \/ ReadProgress \/ CheckFileStatus
            \/ \E k \in Running : taskStep(k)
taskSpec == taskInit /\ [][taskNext]_taskVars

-------------------------------------------------------------------------------
Range_(q) == {q[i] : i \in DOMAIN q}
Whole(s) == source[s] = "whole" \/ \E f \in Folders : copied[<<s, f.name>>] = "whole"
\* However tasks are queued, cancelled, fail and panic: one operation works at a time, the queue has the
\* tasks that are neither reported nor cancelled, and it never stands: a loop reports, and an operation
\* works, is being started, or has ended at the head; an entry is whole at its place or at a target
\* (service/file.go:36, 118, 172, 241; service/notify.go:91).
NothingLost == /\ Cardinality(Running) <= 1 /\ Range_(queue) = DOMAIN tasks
               /\ queue # <<>> => reporters > 0 /\ (Running # {} \/ starts > 0 \/ tasks[Head(queue)].finished)
               /\ \A s \in Sources : Whole(s)
===============================================================================
