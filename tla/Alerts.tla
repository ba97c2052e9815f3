-------------------------------- MODULE Alerts --------------------------------
(* The alerts (pkg/alerts): what is sent to the owner's channels, and how often. *)
(* A level is a condition that is looked at again and again (a disk that fails,  *)
(* a full storage, an array); an event is said once by the bus. Three notices    *)
(* are told once: the end of a Docker update, the end of the system's support,   *)
(* a step of the upgrade. The core may restart, which forgets what was sent, and *)
(* a channel may refuse.                                                         *)
(* Of the age of a record only what tells the windows apart is kept.             *)
EXTENDS Integers, FiniteSets, Sequences

CONSTANTS Levels,              \* conditions that are polled
          Events,              \* conditions that the bus says once
          dedupeWindow,        \* six hours
          sinceWindow,         \* a day
          Retries,             \* waits before a notice of the upgrade is sent again
          MaxFlips,            \* changes of the conditions
          MaxRestarts,         \* restarts of the core
          MaxRefused,          \* messages that a channel refuses
          MaxChanges           \* the owner turns the channels off or on

\* What was resolved is remembered at least as long as a repeat is held back.
ASSUME AlertsAssumption == /\ dedupeWindow \in Nat \ {0} /\ sinceWindow \in Nat /\ sinceWindow >= dedupeWindow
                           /\ {MaxFlips, MaxRestarts, MaxRefused, MaxChanges} \subseteq Nat

VARIABLES raised,                \* the conditions as they are: raised, or not
          sent,                \* the records of this life of the core
          flight,              \* messages that are being delivered: [key, kind, by]
          channel,             \* there is a channel, and the category is on
          muted,               \* Docker is being updated, or the system upgraded
          notice,              \* the upgrade's notice: [pc, tries]
          docker, support,     \* the notices of Docker and of the support: [pc, memory, file, told]
          polled,              \* the sources that have looked since the last tick
          alertsLeft,          \* what is left of the bounds
          word,                \* the last message of a key that a channel took
          quiet                \* ticks since the channel took an alert of the key, in this life of the core
alertVars == <<raised, sent, flight, channel, muted, notice, docker, support, polled, alertsLeft, word, quiet>>

Keys == Levels \cup Events \cup {"docker", "support", "upgrade"}
None == [age |-> 0, repeats |-> 0, resolved |-> TRUE]
Known(k) == k \in DOMAIN sent
Forget(s, gone) == [k \in DOMAIN s \ gone |-> s[k]]

\* Altered: what was resolved is not remembered.
Recent_Unresolved(k) == Known(k) /\ sent[k].age < dedupeWindow /\ ~sent[k].resolved
\* The alert was sent less than six hours ago, resolved since or not.
Recent(k) == Known(k) /\ sent[k].age < dedupeWindow
Stale == {k \in DOMAIN sent : sent[k].resolved /\ sent[k].age >= sinceWindow}
New == [age |-> 0, repeats |-> 0, resolved |-> FALSE]
\* raiseAs: nothing without a channel; a repeat is counted; else the record, and the message on its way.
\* A caller that waits keeps the record before, to put it back when no channel took the message.
raiseAs(k, s, by) ==
    IF ~channel THEN [sent |-> s, out |-> {}]
    ELSE IF k \in DOMAIN s /\ Recent(k) THEN [sent |-> [s EXCEPT ![k].repeats = IF @ < 1 THEN @ + 1 ELSE @], out |-> {}]
    ELSE [sent |-> [j \in {k} \cup (DOMAIN s \ Stale) |-> IF j = k THEN New ELSE s[j]],
          out |-> {[key |-> k, kind |-> "alert", by |-> by, previous |-> IF k \in DOMAIN s THEN s[k] ELSE None]}]
\* resolve: once per alert sent, and the record stays.
resolve(k, s) ==
    IF k \notin DOMAIN s \/ s[k].resolved THEN [sent |-> s, out |-> {}]
    ELSE [sent |-> [s EXCEPT ![k].resolved = TRUE],
          out |-> IF channel THEN {[key |-> k, kind |-> "resolved", by |-> "", previous |-> None]} ELSE {}]
Apply(r) == sent' = r.sent /\ flight' = flight \cup r.out

-------------------------------------------------------------------------------
Watch == [pc |-> "idle", memory |-> FALSE, file |-> FALSE, told |-> 0]
Never == [Watch EXCEPT !.pc = "never"]      \* there is nothing to tell
alertsInit == /\ raised = [k \in Levels \cup Events |-> FALSE]
              /\ sent = <<>> /\ flight = {} /\ channel = TRUE /\ muted = FALSE
              /\ notice \in [pc : {"none", "done"}, tries : {0}]
              /\ docker \in {Watch, Never} /\ support \in {Watch, Never}
              /\ polled = {}
              /\ alertsLeft \in [flips : {0, MaxFlips}, restarts : {MaxRestarts}, refused : {MaxRefused}, changes : {MaxChanges}]
              /\ word = [k \in Keys |-> "none"]
              /\ quiet = [k \in Keys |-> dedupeWindow]

Spend(what) == alertsLeft[what] > 0 /\ alertsLeft' = [alertsLeft EXCEPT ![what] = @ - 1]
Flip(k) == /\ Spend("flips") /\ raised' = [raised EXCEPT ![k] = ~@]
           /\ UNCHANGED <<sent, flight, channel, muted, notice, docker, support, polled, word, quiet>>
\* A level is looked at; a look whose services do not answer does nothing.
Poll(k, answered) ==
    /\ k \notin polled /\ polled' = polled \cup {k}
    /\ IF ~answered THEN UNCHANGED <<sent, flight>>
       ELSE Apply(IF raised[k] THEN raiseAs(k, sent, "") ELSE resolve(k, sent))
    /\ UNCHANGED <<raised, channel, muted, notice, docker, support, alertsLeft, word, quiet>>
\* The bus says that a condition came or went, once; while Docker is changed it is not listened to.
onEvent(k) ==
    /\ k \in Events /\ Spend("flips") /\ raised' = [raised EXCEPT ![k] = ~@]
    /\ IF muted THEN UNCHANGED <<sent, flight>>
       ELSE Apply(IF raised'[k] THEN raiseAs(k, sent, "") ELSE resolve(k, sent))
    /\ UNCHANGED <<channel, muted, notice, docker, support, polled, word, quiet>>

\* deliverAll: a channel takes the message or refuses it. Whoever waited hears which: a record of a
\* message that nobody took is put back to what was.
Deliver(m, taken) ==
    /\ m \in flight /\ flight' = flight \ {m}
    /\ IF taken THEN UNCHANGED alertsLeft ELSE Spend("refused")
    /\ word' = IF taken THEN [word EXCEPT ![m.key] = m.kind] ELSE word
    /\ quiet' = IF taken /\ m.kind = "alert" THEN [quiet EXCEPT ![m.key] = 0] ELSE quiet
    /\ sent' = IF taken \/ m.by = "" THEN sent
               ELSE IF m.previous = None THEN Forget(sent, {m.key}) ELSE [sent EXCEPT ![m.key] = m.previous]
    /\ notice' = IF m.by # "upgrade" THEN notice ELSE IF taken THEN [notice EXCEPT !.pc = "done"] ELSE [notice EXCEPT !.pc = "refused"]
    /\ support' = IF m.by # "support" THEN support ELSE IF taken THEN [support EXCEPT !.pc = "told", !.memory = TRUE] ELSE [support EXCEPT !.pc = "due"]
    /\ UNCHANGED <<raised, channel, muted, docker, polled>>

\* OSUpgradeNotice: sent until a channel takes it, a few times.
OSUpgradeNotice ==
    /\ notice.pc \in {"none", "again"} /\ channel
    /\ \E r \in {raiseAs("upgrade", sent, "upgrade")} :
         /\ Apply(r)
         /\ notice' = [notice EXCEPT !.pc = IF r.out = {} THEN "done" ELSE "sending"]
    /\ UNCHANGED <<raised, channel, muted, docker, support, polled, alertsLeft, word, quiet>>
NoticeAgain ==
    /\ notice.pc = "refused" \/ (notice.pc = "again" /\ ~channel)
    /\ notice' = IF notice.tries < Retries /\ channel THEN [pc |-> "again", tries |-> notice.tries + 1] ELSE [notice EXCEPT !.pc = "done"]
    /\ UNCHANGED <<raised, sent, flight, channel, muted, docker, support, polled, alertsLeft, word, quiet>>

\* The update of Docker begins, ends, and the loop that waits for it sees its end.
DockerBegins == /\ docker.pc = "idle" /\ docker' = [docker EXCEPT !.pc = "runs"] /\ muted' = TRUE
                /\ UNCHANGED <<raised, sent, flight, channel, notice, support, polled, alertsLeft, word, quiet>>
DockerEnds == /\ docker.pc = "runs" /\ docker' = [docker EXCEPT !.pc = "ended"]
              /\ UNCHANGED <<raised, sent, flight, channel, muted, notice, support, polled, alertsLeft, word, quiet>>
Unmute == /\ muted /\ docker.pc # "runs" /\ muted' = FALSE
          /\ UNCHANGED <<raised, sent, flight, channel, notice, docker, support, polled, alertsLeft, word, quiet>>
\* dockerEnded: the run is marked as told, then told.
dockerEnded ==
    /\ docker.pc = "ended" /\ ~docker.memory /\ ~docker.file
    /\ docker' = [docker EXCEPT !.pc = "marked", !.memory = TRUE, !.file = TRUE]
    /\ UNCHANGED <<raised, sent, flight, channel, muted, notice, support, polled, alertsLeft, word, quiet>>
tellDocker ==
    /\ docker.pc = "marked"
    /\ \E r \in {raiseAs("docker", sent, "")} : Apply(r) /\ docker' = [docker EXCEPT !.pc = "ended", !.told = @ + Cardinality(r.out)]
    /\ UNCHANGED <<raised, channel, muted, notice, support, polled, alertsLeft, word, quiet>>

\* Altered: the notice is written down as it is sent.
checkOSSupport_Marked ==
    /\ support.pc = "due" /\ "support" \notin polled /\ polled' = polled \cup {"support"}
    /\ IF support.memory \/ support.file THEN support' = [support EXCEPT !.memory = TRUE] /\ UNCHANGED <<sent, flight>>
       ELSE \E r \in {raiseAs("support", sent, "support")} :
              /\ Apply(r)
              /\ support' = IF r.out # {} THEN [support EXCEPT !.pc = "sending", !.file = TRUE] ELSE support
    /\ UNCHANGED <<raised, channel, muted, notice, docker, alertsLeft, word, quiet>>
\* checkOSSupport, every day once the support is ending: told, and then written down.
SupportEnds == /\ support.pc = "idle" /\ support' = [support EXCEPT !.pc = "due"]
               /\ UNCHANGED <<raised, sent, flight, channel, muted, notice, docker, polled, alertsLeft, word, quiet>>
checkOSSupport ==
    /\ support.pc = "due" /\ "support" \notin polled /\ polled' = polled \cup {"support"}
    /\ IF support.memory \/ support.file THEN support' = [support EXCEPT !.memory = TRUE] /\ UNCHANGED <<sent, flight>>
       ELSE \E r \in {raiseAs("support", sent, "support")} :
              /\ Apply(r)
              /\ support' = IF r.out # {} THEN [support EXCEPT !.pc = "sending"]
                            ELSE IF channel THEN [support EXCEPT !.pc = "told", !.memory = TRUE] ELSE support
    /\ UNCHANGED <<raised, channel, muted, notice, docker, alertsLeft, word, quiet>>
writeSupport == /\ support.pc = "told" /\ support' = [support EXCEPT !.pc = "due", !.file = TRUE]
                /\ UNCHANGED <<raised, sent, flight, channel, muted, notice, docker, polled, alertsLeft, word, quiet>>

\* The core restarts: records, messages on their way and the loops that wait are gone.
Restart == /\ Spend("restarts")
           /\ sent' = <<>> /\ flight' = {}
           /\ notice' = IF notice.pc \in {"sending", "refused", "again"} THEN [notice EXCEPT !.pc = "done"] ELSE notice
           /\ docker' = [docker EXCEPT !.memory = FALSE, !.pc = IF @ = "marked" THEN "ended" ELSE @]
           /\ support' = [support EXCEPT !.memory = FALSE, !.pc = IF @ \in {"sending", "told"} THEN "due" ELSE @]
           /\ quiet' = [k \in Keys |-> dedupeWindow]
           /\ UNCHANGED <<raised, channel, muted, polled, word>>
Change == /\ Spend("changes") /\ channel' = ~channel
          /\ UNCHANGED <<raised, sent, flight, muted, notice, docker, support, polled, word, quiet>>
\* Time passes: a delivery ends within seconds, so none is on its way.
AlertTick ==
    /\ flight = {} /\ Levels \subseteq polled /\ (support.pc = "due" => "support" \in polled)
    /\ polled' = {}
    /\ sent' = [k \in DOMAIN sent |-> [sent[k] EXCEPT !.age = IF @ < sinceWindow THEN @ + 1 ELSE @]]
    /\ quiet' = [k \in Keys |-> IF quiet[k] < dedupeWindow THEN quiet[k] + 1 ELSE quiet[k]]
    /\ UNCHANGED <<raised, flight, channel, muted, notice, docker, support, alertsLeft, word>>

alertsNext == \/ \E k \in Levels : Flip(k) \/ Poll(k, TRUE) \/ Poll(k, FALSE)
              \/ \E k \in Events : onEvent(k)
              \/ \E m \in flight, taken \in BOOLEAN : Deliver(m, taken)
              \/ OSUpgradeNotice \/ NoticeAgain \/ DockerBegins \/ DockerEnds \/ Unmute \/ dockerEnded \/ tellDocker
              \/ SupportEnds \/ checkOSSupport \/ writeSupport \/ Restart \/ Change \/ AlertTick
\* Polls come round and are answered again and again; a channel takes messages again and again.
alertsFair == /\ WF_alertVars(AlertTick) /\ WF_alertVars(checkOSSupport \/ writeSupport) /\ WF_alertVars(\E m \in flight : Deliver(m, TRUE))
              /\ \A k \in Levels : WF_alertVars(Poll(k, TRUE) \/ Poll(k, FALSE)) /\ SF_alertVars(Poll(k, TRUE))
alertsSpec == alertsInit /\ [][alertsNext]_alertVars /\ alertsFair

-------------------------------------------------------------------------------
\* A message of an alert is on its way only when the channel took none of it in the last six hours of
\* this life of the core, cleared and come back meanwhile or not; and the end of a Docker update is
\* told once at most, over restarts (alerts.go:10-19, docker.go:92).
Sparing == docker.told <= 1 /\ \A m \in flight : m.kind = "alert" => quiet[m.key] >= dedupeWindow
\* A level that stays as it is comes to be known: the last word the owner has of one that is up is the
\* alert, and the end of the system's support is told, whatever restarts and refusals (alerts.go:22-25).
OwnerKnows == /\ \A k \in Levels : <>[](raised[k] /\ channel) => []<>(word[k] = "alert")
              /\ (<>[]channel /\ <>(support.pc = "due")) => <>(word["support"] = "alert")
===============================================================================
