------------------------------- MODULE OsRun -------------------------------
(***************************************************************************)
(* The pure reducer of an upgrade (pkg/osrun/reduce.go and action.go): the *)
(* log of a run, the files of its backup folder and what systemd and the   *)
(* kernel say now, reduced to the state of the run, to the buttons that    *)
(* are valid in it and to the one thing the core does next.                *)
(*                                                                         *)
(* Time is what has passed: a reading holds the set of the deadlines that  *)
(* are over, each counted from the event that starts it.                   *)
(*   grace           no sign of life of the run for GraceQuiet             *)
(*   startLost       the latest attempt (or the run) is StartLost old      *)
(*   startLostSilent the latest attempt is StartLostSilent old             *)
(*   lifeSilence     no sign of life of the run for SystemdSilence         *)
(*   systemdSilence  systemd has not answered for SystemdSilence           *)
(*   rebootStall     the restart was asked for RebootStall ago             *)
(*   rehearsalTTL    the rehearsal is RehearsalTTL old                     *)
(*   resumeWait      the new boot was seen ResumeWait ago                  *)
(*   backoff         the wait before the next automatic repair is over     *)
(*   reminder        a reminder of the restart is due and was not sent     *)
(*                                                                         *)
(* A log is a sequence of markers, records with the field k.  A boot is a  *)
(* number, 0 for one that could not be read.  The block a unit is in, the  *)
(* status it ended with and the times shown are not here: no decision      *)
(* reads them.                                                             *)
(***************************************************************************)
EXTENDS OsVocab

CONSTANTS
    MaxVerifyAttempts,  \* Timing.MaxVerifyAttempts
    MaxUnwindAttempts,  \* Timing.MaxUnwindAttempts
    AutoRecoverTries,   \* Timing.AutoRecoverTries: 0 as shipped
    AutoRecoverWave     \* Timing.AutoRecoverWave

ASSUME TimingAssumption ==
    /\ MaxVerifyAttempts \in Nat
    /\ MaxUnwindAttempts \in Nat \ {0}
    /\ AutoRecoverTries \in Nat
    /\ AutoRecoverWave \in Nat

Deadlines == {"grace", "startLost", "startLostSilent", "lifeSilence", "systemdSilence",
              "rebootStall", "rehearsalTTL", "resumeWait", "backoff", "reminder"}

Results == {"REFRESH_DONE", "REHEARSAL_READY", "REBOOT_PENDING", "REBOOT_NOT_NEEDED",
            "VERIFY_DONE"}

Verdicts == {"clean", "warnings", "errors"}

NoStop == [class |-> "", pnr |-> FALSE]

NoResult == [kind |-> "", boot |-> 0, yes |-> FALSE, startBoot |-> 0]

\* attemptView: what the log says of one attempt.
NewAttempt(m) ==
    [phase |-> m.phase, who |-> m.who, startFailed |-> FALSE, started |-> FALSE,
     startBoot |-> 0, ended |-> FALSE, lastStart |-> "", stop |-> NoStop,
     unwound |-> "", result |-> ""]

\* view: the log reduced to the markers that can belong to the run.
EmptyView ==
    [valid |-> FALSE, kind |-> "", attempt |-> << >>, m |-> NoResult, requested |-> FALSE,
     rehearsalReady |-> FALSE, takeover |-> FALSE, acked |-> FALSE, sealed |-> FALSE]

last(v) == v.attempt[Len(v.attempt)]

HasAttempt(v) == v.attempt # << >>

count(v, phase) == Cardinality({i \in DOMAIN v.attempt : v.attempt[i].phase = phase})

-----------------------------------------------------------------------------
(* What a reading says of the latest attempt. *)

\* Mutant: a run that failed lets the machine go, half changed or not.
busyOf_Failed(name, pnr) ==
    name \notin {"idle", "failed", "refreshed", "rehearsal_done", "succeeded",
                 "succeeded_with_findings", "manual_done"}

\* busyOf: the machine is to be left alone.
busyOf(name, pnr) ==
    IF name = "failed" THEN pnr
    ELSE name \notin {"idle", "refreshed", "rehearsal_done", "succeeded",
                      "succeeded_with_findings", "manual_done"}

\* st: a state of the run with what every state has.
st(v, in, name) ==
    [name |-> name, reason |-> "", class |-> "",
     phase |-> IF HasAttempt(v) THEN last(v).phase ELSE "",
     pnr |-> PNR(in.files), busy |-> busyOf(name, PNR(in.files)),
     half |-> PNR(in.files) /\ "prereboot" \notin in.files,
     resumable |-> FALSE, abortable |-> FALSE, rebootBlocked |-> FALSE,
     closed |-> FALSE, placed |-> v.valid /\ v.kind # ""]

attention(v, in, reason) == [st(v, in, "needs_attention") EXCEPT !.reason = reason]

systemdSilent(in) ==
    ~in.answered /\ "lifeSilence" \in in.past /\ "systemdSilence" \in in.past

silentForLong(in) == ~in.answered /\ "systemdSilence" \in in.past

spokeLately(in) == "grace" \notin in.past

\* active: the unit of the latest attempt is running, cannot be asked, or is
\* gone and spoke a moment ago.
active(v, in) ==
    /\ HasAttempt(v) /\ ~last(v).ended
    /\ \/ in.active
       \/ ~last(v).startFailed /\ (~in.answered \/ (last(v).started /\ spokeLately(in)))

startLost(v, in) ==
    \/ last(v).startFailed
    \/ in.answered /\ ~in.active /\ "startLost" \in in.past
    \/ "startLostSilent" \in in.past

\* Mutant: an attempt is not there before its unit has spoken.
inFlight_Never(v, in) == FALSE

\* inFlight: the attempt was written and its unit is on its way.
inFlight(v, in) ==
    HasAttempt(v) /\ ~last(v).started /\ ~last(v).startFailed /\ ~startLost(v, in)

\* running: the state of the phase of the latest attempt.
running(v, in) ==
    LET a == last(v)
        name == CASE a.phase = "refresh"  -> "refreshing"
                  [] a.phase = "rehearse" -> "rehearsing"
                  [] a.phase = "run"      -> "running"
                  [] a.phase = "recover"  -> "recovering"
                  [] a.phase = "verify"   -> "verifying"
                  [] OTHER                -> "unwinding"
    IN  [st(v, in, name) EXCEPT !.abortable =
            /\ a.phase \in {"refresh", "rehearse", "run"}
            /\ ~PNR(in.files) /\ ~pastAbort(a.lastStart)
            /\ a.stop = NoStop /\ a.result = "" /\ a.unwound = ""]

-----------------------------------------------------------------------------
(* How an attempt that is over came out. *)

\* stopClass: a plan that no longer holds, once packages are being changed, is
\* the guard's word.
stopClass(stop, in) == IF stop.class = "plan" /\ PNR(in.files) THEN "guard" ELSE stop.class

\* interrupted: the unit did not finish.  The undoing is tried a few times.
interrupted(v, in) ==
    LET a == last(v)
        s == [st(v, in, "interrupted") EXCEPT !.resumable = PNR(in.files)]
        class == stopClass(a.stop, in)
    IN  IF a.phase = "unwind" /\ count(v, "unwind") >= MaxUnwindAttempts
        THEN attention(v, in, "unwind_partial")
        ELSE IF a.stop = NoStop \/ a.phase = "unwind" THEN s
        ELSE [s EXCEPT !.class = class,
                       !.resumable = IF PNR(in.files) /\ a.phase # "verify"
                                     THEN Resumable(class) ELSE @]

notStarted(v, in) ==
    IF last(v).phase = "unwind" THEN interrupted(v, in)
    ELSE [st(v, in, "failed") EXCEPT !.reason = "start", !.resumable = PNR(in.files)]

stoppedBefore(v, in) ==
    LET a == last(v)
        failed == [st(v, in, "failed") EXCEPT !.reason = a.stop.class, !.class = a.stop.class]
    IN  CASE a.unwound = "ok"      -> failed
          [] a.unwound = "partial" -> attention(v, in, "unwind_partial")
          [] a.unwound = "" /\ a.stop.class = "integrity" -> failed
          [] OTHER -> interrupted(v, in)

\* autoTries: repairs the core made by itself since the owner last asked.
autoTries(v) ==
    LET repairs == {i \in DOMAIN v.attempt : v.attempt[i].phase = "recover"}
        asked == {i \in repairs : v.attempt[i].who = "owner"}
    IN  Cardinality({i \in repairs \ asked : \A j \in asked : j < i})

stoppedAfter(v, in) ==
    LET a == last(v)
        class == IF a.stop.class = "plan" THEN "guard" ELSE a.stop.class
        as(name) == [st(v, in, name) EXCEPT !.class = class, !.resumable = Resumable(class)]
    IN  CASE a.phase = "verify" ->
               [as("failed") EXCEPT !.reason = "verify", !.resumable = TRUE]
          [] /\ a.phase # "verify" /\ AutoRecoverTries > 0
             /\ autoTries(v) >= AutoRecoverTries /\ Retryable(class, AutoRecoverWave) ->
               [as("failed") EXCEPT !.reason = "half"]
          [] OTHER -> as("stopped_at_waypoint")

\* The latest of the attempts.
lastOf(S) == CHOOSE i \in S : \A j \in S : j <= i

\* unwoundOK: a rehearsal that was undone, or a failure that can be tried
\* again, with the class of the latest stop that was before the point of no
\* return.
unwoundOK(v, in) ==
    LET stops == {i \in DOMAIN v.attempt : v.attempt[i].stop # NoStop /\ ~v.attempt[i].stop.pnr}
        class == v.attempt[lastOf(stops)].stop.class
    IN  IF v.kind = "rehearsal" /\ v.rehearsalReady THEN st(v, in, "rehearsal_done")
        ELSE [st(v, in, "failed") EXCEPT
                !.reason = IF stops # {} THEN class
                           ELSE IF in.abort THEN "abort" ELSE "interrupted",
                !.class = IF stops # {} THEN class ELSE ""]

\* checkBegan: an attempt of the check after the restart has begun.
checkBegan(v) ==
    \E i \in DOMAIN v.attempt : v.attempt[i].phase = "verify" /\ v.attempt[i].started

\* result: the latest word of a unit that says how an attempt ended, or the
\* files' word for it.  NoResult when neither is the run's.
result(v, in) ==
    CASE "after" \in in.files /\ ~checkBegan(v) -> NoResult
      [] /\ "after" \in in.files => checkBegan(v)
         /\ v.m # NoResult
         /\ "after" \in in.files => v.m.kind = "VERIFY_DONE" -> v.m
      [] /\ "after" \in in.files /\ checkBegan(v)
         /\ v.m.kind # "VERIFY_DONE" -> [NoResult EXCEPT !.kind = "VERIFY_DONE"]
      [] /\ "after" \notin in.files /\ v.m = NoResult
         /\ "prereboot" \in in.files /\ in.bootFile # 0 ->
            [NoResult EXCEPT !.kind = "REBOOT_PENDING", !.boot = in.bootFile]
      [] /\ "after" \notin in.files /\ v.m = NoResult
         /\ "prereboot" \in in.files /\ in.bootFile = 0 ->
            [NoResult EXCEPT !.kind = "REBOOT_NOT_NEEDED"]
      [] OTHER -> NoResult

\* waiting: waiting for the restart, restarting, or restarted.
waiting(v, in, r) ==
    LET unknown == in.boot = 0 \/ r.boot = 0
        blocked == v.kind = "hop" /\ (in.barrier # "ok" \/ "prereboot" \notin in.files)
    IN  CASE ~unknown /\ in.boot # r.boot -> st(v, in, "resuming")
          [] (unknown \/ in.boot = r.boot) /\ ~v.requested ->
               [st(v, in, "awaiting_reboot") EXCEPT !.rebootBlocked = blocked]
          [] (unknown \/ in.boot = r.boot) /\ v.requested /\ "rebootStall" \notin in.past ->
               st(v, in, "rebooting")
          [] OTHER -> [st(v, in, "reboot_stalled") EXCEPT !.rebootBlocked = blocked]

\* verdict: the machine was checked, and was or was not judged.
verdict(v, in) ==
    CASE in.verify = "none"     -> st(v, in, "verifying")
      [] in.verify = "errors"   ->
            [st(v, in, "failed") EXCEPT !.reason = "verify", !.resumable = TRUE]
      [] in.verify = "warnings" ->
            [st(v, in, "succeeded_with_findings") EXCEPT !.resumable = TRUE]
      [] OTHER -> st(v, in, "succeeded")

\* byResult: r is the word that decides, from the log or from the files.
byResult(v, in, r) ==
    LET unknown == in.boot = 0 \/ r.startBoot = 0
    IN  CASE r = NoResult ->
               IF last(v).phase = "verify" THEN interrupted(v, in)
               ELSE attention(v, in, "run_damaged")
          [] r.kind = "REFRESH_DONE" ->
               st(v, in, IF r.yes /\ (unknown \/ in.boot = r.startBoot)
                         THEN "reboot_first" ELSE "refreshed")
          [] r.kind = "REHEARSAL_READY"   -> st(v, in, "rehearsed")
          [] r.kind = "REBOOT_PENDING"    -> waiting(v, in, r)
          [] r.kind = "REBOOT_NOT_NEEDED" -> st(v, in, "resuming")
          [] OTHER -> IF "after" \notin in.files THEN attention(v, in, "run_damaged")
                      ELSE verdict(v, in)

\* unwound: an unwind attempt that ended.
unwound(v, in) ==
    LET a == last(v)
    IN  CASE a.stop # NoStop /\ PNR(in.files) -> stoppedAfter(v, in)
          [] (a.stop = NoStop \/ ~PNR(in.files)) /\ a.unwound = "ok" -> unwoundOK(v, in)
          [] (a.stop = NoStop \/ ~PNR(in.files)) /\ a.unwound = "partial" ->
               attention(v, in, "unwind_partial")
          [] OTHER -> interrupted(v, in)

\* canFinishFromFiles: the unit died with the last block of the hop done.
canFinishFromFiles(v, in) ==
    last(v).phase \in {"run", "recover"} /\ last(v).stop = NoStop /\ "prereboot" \in in.files

\* settled: the latest attempt is not running.
settled(v, in) ==
    LET a == last(v)
    IN  IF a.started /\ a.phase = "verify" /\ a.stop = NoStop /\ "after" \in in.files
        THEN byResult(v, in, result(v, in))
        ELSE IF ~a.started THEN notStarted(v, in)
        ELSE IF ~a.ended
        THEN IF \/ canFinishFromFiles(v, in)
                \/ a.result # "" /\ a.phase \in {"refresh", "rehearse"}
             THEN byResult(v, in, result(v, in)) ELSE interrupted(v, in)
        ELSE IF a.phase = "unwind" THEN unwound(v, in)
        ELSE IF a.stop = NoStop THEN byResult(v, in, result(v, in))
        ELSE IF ~PNR(in.files) /\ a.phase # "verify" THEN stoppedBefore(v, in)
        ELSE stoppedAfter(v, in)

\* live: the latest attempt's unit is running or is being started.
NotLive(v, in) ==
    \/ last(v).ended
    \/ /\ ~systemdSilent(in)
       /\ \/ ~last(v).started /\ ~in.active /\ "startLostSilent" \in in.past
          \/ ~active(v, in) /\ ~inFlight(v, in)

live(v, in) ==
    CASE systemdSilent(in) -> attention(v, in, "systemd_silent")
      [] /\ ~systemdSilent(in) /\ ~active(v, in) /\ last(v).phase = "verify"
         /\ result(v, in).kind \in {"REBOOT_PENDING", "REBOOT_NOT_NEEDED"} ->
            byResult(v, in, result(v, in))
      [] OTHER -> running(v, in)

-----------------------------------------------------------------------------
(* The state of the run. *)

\* A log that cannot place the run says nothing: the files and the unit do.
Unplaced(v, in) ==
    IF PNR(in.files) \/ in.active \/ in.damaged
    THEN attention(v, in, "run_damaged") ELSE st(v, in, "idle")

noAttempt(v, in) ==
    CASE PNR(in.files) \/ in.active -> attention(v, in, "run_damaged")
      [] ~PNR(in.files) /\ ~in.active /\ "startLost" \in in.past ->
            [st(v, in, "failed") EXCEPT !.reason = "start"]
      [] OTHER -> st(v, in, "idle")

\* A state s that holds the machine is not trusted when systemd is silent for long.
heard(v, in, s) ==
    IF s.busy /\ s.name \notin {"rebooting", "needs_attention"} /\ silentForLong(in)
    THEN attention(v, in, "systemd_silent") ELSE s

placed(v, in) == IF ~NotLive(v, in) THEN live(v, in) ELSE heard(v, in, settled(v, in))

decide(v, in) ==
    IF ~v.valid \/ v.kind = "" THEN Unplaced(v, in)
    ELSE IF v.acked THEN [st(v, in, "idle") EXCEPT !.closed = TRUE]
    ELSE IF v.takeover THEN st(v, in, IF "after" \in in.files THEN "manual_done" ELSE "manual")
    ELSE IF in.damaged THEN attention(v, in, "run_damaged")
    ELSE IF ~HasAttempt(v) THEN noAttempt(v, in)
    ELSE placed(v, in)

\* sealedBy: the log decides the state for good.
sealedBy(s) ==
    \/ s.name \in {"succeeded", "succeeded_with_findings"} /\ s.phase = "verify"
    \/ s.name \in {"refreshed", "rehearsal_done"}
    \/ s.name = "failed" /\ ~s.pnr /\ s.reason # "start"

-----------------------------------------------------------------------------
(* Reading the log. *)

\* addUnitMarker: a word of the unit of the latest attempt, which has begun and
\* not ended.  The end of a unit may decide the run, as it is read today.
addUnitMarker(v, m, in) ==
    LET n == Len(v.attempt)
        a == v.attempt[n]
        put(b) == [v EXCEPT !.attempt[n] = b]
        ended == put([a EXCEPT !.ended = TRUE])
    IN  CASE m.k = "BLOCK_START" -> put([a EXCEPT !.lastStart = m.id])
          [] m.k = "STOP" /\ a.stop = NoStop /\ a.result = "" ->
                put([a EXCEPT !.stop = [class |-> m.class, pnr |-> m.pnr]])
          [] /\ m.k = "UNWOUND" /\ a.unwound = ""
             /\ a.phase = "unwind" \/ (a.stop # NoStop /\ ~a.stop.pnr) ->
                put([a EXCEPT !.unwound = m.res])
          [] /\ m.k \in Results /\ a.stop = NoStop /\ a.result = ""
             /\ resultOfPhase(m.k, a.phase) ->
                [put([a EXCEPT !.result = m.k]) EXCEPT
                    !.m = [kind |-> m.k, boot |-> m.boot, yes |-> m.yes, startBoot |-> a.startBoot],
                    !.requested = FALSE,
                    !.rehearsalReady = @ \/ m.k = "REHEARSAL_READY"]
          [] m.k = "UNIT_END" -> [ended EXCEPT !.sealed = sealedBy(decide(ended, in))]
          [] OTHER -> v

\* add: a marker of a run that has been opened and is not decided.
add(v, m, in) ==
    LET n == Len(v.attempt)
        latest == HasAttempt(v) /\ m.n = n
    IN  CASE m.k \in {"QUEUED", "RUN", "BOOT_SEEN"} -> v
          [] m.k = "TAKEOVER"         -> [v EXCEPT !.takeover = TRUE, !.sealed = TRUE]
          [] m.k = "REBOOT_REQUESTED" -> [v EXCEPT !.requested = TRUE]
          [] m.k = "REBOOT_FAILED"    -> [v EXCEPT !.requested = FALSE]
          [] m.k = "ATTEMPT" ->
                IF m.n = n + 1 /\ phaseFits(v.kind, m.phase, n = 0)
                THEN [v EXCEPT !.attempt = Append(@, NewAttempt(m))] ELSE v
          [] m.k = "START_FAILED" ->
                IF latest /\ ~last(v).started
                THEN [v EXCEPT !.attempt[n].startFailed = TRUE] ELSE v
          [] m.k = "UNIT_START" ->
                IF latest /\ ~last(v).started /\ m.phase = last(v).phase
                THEN [v EXCEPT !.attempt[n] = [@ EXCEPT !.started = TRUE, !.startFailed = FALSE,
                                                        !.startBoot = m.boot]]
                ELSE v
          [] OTHER ->
                IF latest /\ last(v).started /\ ~last(v).ended
                THEN addUnitMarker(v, m, in) ELSE v

\* Mutant: a run that is decided still takes lines.
take_Unsealed(v, m, in) ==
    CASE v.kind = ""                -> IF m.k = "RUN" THEN [v EXCEPT !.kind = m.kind] ELSE v
      [] v.kind # "" /\ m.k = "ACK" -> [v EXCEPT !.acked = TRUE]
      [] OTHER                      -> add(v, m, in)

\* A marker after the first line: the run line opens the run, the owner's
\* closing is always taken, and nothing else is once the run is decided.
take(v, m, in) ==
    CASE v.kind = ""                   -> IF m.k = "RUN" THEN [v EXCEPT !.kind = m.kind] ELSE v
      [] v.kind # "" /\ m.k = "ACK"    -> [v EXCEPT !.acked = TRUE]
      [] v.kind # "" /\ m.k # "ACK" /\ v.sealed -> v
      [] OTHER                         -> add(v, m, in)

scan(log, in) ==
    LET upTo[i \in 1..Len(log)] ==
            IF i = 1 THEN [EmptyView EXCEPT !.valid = TRUE]
            ELSE take(upTo[i - 1], log[i], in)
    IN  IF log = << >> \/ log[1].k # "QUEUED" THEN EmptyView ELSE upTo[Len(log)]

Reduce(log, in) == decide(scan(log, in), in)

NextAttempt(log, in) == Len(scan(log, in).attempt) + 1

-----------------------------------------------------------------------------
(* What may be done next. *)

\* ActionsFor: the buttons that are valid for a state.
ActionsFor(s) ==
    LET forward == s.name = "stopped_at_waypoint" \/ s.pnr
        on(name, ok) == IF ok THEN {name} ELSE {}
    IN  CASE s.name \in {"refreshing", "rehearsing", "running"} -> on("abort", s.abortable)
          [] s.name = "reboot_first" -> {"reboot", "acknowledge"}
          [] s.name \in {"refreshed", "rehearsal_done", "succeeded", "manual", "manual_done"} ->
                {"acknowledge"}
          [] s.name = "succeeded_with_findings" -> {"acknowledge"} \cup on("resume", s.resumable)
          [] s.name = "rehearsed" -> {"discard"}
          [] s.name = "failed" ->
                on("acknowledge", ~s.pnr \/ s.reason # "start") \cup on("discard", ~s.pnr)
                \cup on("resume", s.pnr /\ s.resumable) \cup on("takeover", s.pnr)
          [] s.name \in {"awaiting_reboot", "reboot_stalled"} ->
                on("reboot", ~s.rebootBlocked) \cup {"takeover"}
          [] s.name \in {"interrupted", "stopped_at_waypoint"} ->
                on("resume", forward /\ s.resumable) \cup on("takeover", forward)
                \cup on("acknowledge", forward)
          [] s.name = "needs_attention" ->
                on("takeover", s.reason # "systemd_silent") \cup {"acknowledge"}
          [] OTHER -> {}

canLaunch(v, in) == in.answered /\ ~in.active /\ ~inFlight(v, in)

\* resumeWaited: the machine has had the time it is given to get ready.
resumeWaited(v, in) ==
    (in.bootSeen \/ result(v, in).kind = "REBOOT_NOT_NEEDED") /\ "resumeWait" \in in.past

rehearsalMachineRestarted(v, in) ==
    LET begun == {i \in DOMAIN v.attempt : v.attempt[i].phase = "rehearse"
                     /\ v.attempt[i].started /\ v.attempt[i].startBoot # 0}
    IN  in.boot # 0 /\ \E i \in begun : (\A j \in begun : i <= j) /\ v.attempt[i].startBoot # in.boot

Do(kind, phase) == [kind |-> kind, phase |-> phase]

DoNone == Do("none", "")

relaunchVerify(v, in) ==
    CASE ~canLaunch(v, in) -> DoNone
      [] canLaunch(v, in) /\ count(v, "verify") >= MaxVerifyAttempts -> Do("alert", "")
      [] OTHER -> Do("launch_verify", "verify")

\* afterStop: with no automatic repairs, as shipped, the owner is told.
afterStop(v, in, s) ==
    LET class == IF s.class = "" THEN "apt_failed" ELSE s.class  \* unknown has that wave
        allowed == autoTries(v) < AutoRecoverTries /\ Retryable(class, AutoRecoverWave)
    IN  CASE ~canLaunch(v, in) -> DoNone
          [] canLaunch(v, in) /\ ~allowed -> Do("alert", "")
          [] canLaunch(v, in) /\ allowed /\ "backoff" \notin in.past -> DoNone
          [] OTHER -> IF FirstMissing(in.files) = "" THEN Do("alert", "")
                      ELSE Do("launch_recover", "recover")

afterInterruption(v, in, s) ==
    CASE ~HasAttempt(v) \/ ~canLaunch(v, in) -> DoNone
      [] HasAttempt(v) /\ canLaunch(v, in) /\ last(v).phase = "verify" -> relaunchVerify(v, in)
      [] HasAttempt(v) /\ canLaunch(v, in) /\ last(v).phase # "verify" /\ ~s.pnr ->
            IF count(v, "unwind") >= MaxUnwindAttempts THEN Do("alert", "")
            ELSE Do("unwind", "unwind")
      [] OTHER -> afterStop(v, in, s)

nextAction(v, in, s) ==
    CASE ~v.valid \/ v.kind = "" -> DoNone
      [] s.closed -> Do("cleanup", "")
      [] s.name = "interrupted" -> afterInterruption(v, in, s)
      [] s.name = "rehearsed" ->
            IF canLaunch(v, in)
               /\ ("rehearsalTTL" \in in.past \/ rehearsalMachineRestarted(v, in))
            THEN Do("unwind", "unwind") ELSE DoNone
      [] s.name = "resuming" ->
            IF canLaunch(v, in) /\ (in.ready \/ resumeWaited(v, in))
            THEN relaunchVerify(v, in) ELSE DoNone
      [] s.name = "failed" /\ s.pnr /\ s.reason = "start" ->
            IF HasAttempt(v) /\ last(v).phase = "verify"
            THEN relaunchVerify(v, in) ELSE afterStop(v, in, s)
      [] s.name = "stopped_at_waypoint" -> afterStop(v, in, s)
      [] s.name = "verifying" ->
            IF in.answered /\ ~active(v, in) /\ ~inFlight(v, in)
            THEN Do("judge", "") ELSE DoNone
      [] s.name \in {"awaiting_reboot", "reboot_stalled"} ->
            IF "reminder" \in in.past THEN Do("remind", "") ELSE Do("barrier", "")
      [] s.name = "reboot_first" ->
            IF "reminder" \in in.past THEN Do("remind", "") ELSE DoNone
      [] OTHER -> DoNone

\* NextAction: a machine whose packages are being changed is not put back.
NextAction(v, in, s) ==
    LET act == nextAction(v, in, s)
    IN  IF act.kind = "unwind" /\ PNR(in.files) THEN DoNone ELSE act
=============================================================================
