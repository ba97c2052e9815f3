--------------------------- MODULE OsUpgrade_proofs ---------------------------
(***************************************************************************)
(* What holds of a run of the upgrade for any number of faults, requests,  *)
(* boots, attempts and tries, with units that are late and without.        *)
(*                                                                         *)
(* The number of tries is read from the log, and the log is what the core, *)
(* a unit and a loss of power all change: the proof is about what a        *)
(* reading of a log says of its lines.  A log is good when its view has    *)
(* one attempt for each line of an attempt, in their order, and when an    *)
(* attempt that the core made by itself can be counted; every part of it   *)
(* that a loss of power can leave is good too.  The look decides from a    *)
(* log it read before, which may only have grown by lines that are not the *)
(* core's own: what it decided is still within the bound when the attempt  *)
(* is written under the lock.                                              *)
(***************************************************************************)
EXTENDS OsUpgrade, FiniteSetTheorems, SequenceTheorems, WellFoundedInduction, TLAPS

\* A line of the log, what the log says of an attempt, and the log reduced.
Keys == {"QUEUED", "RUN", "BOOT_SEEN", "TAKEOVER", "ACK", "REBOOT_REQUESTED", "REBOOT_FAILED", "ATTEMPT",
         "START_FAILED", "UNIT_START", "UNIT_END", "BLOCK_START", "STOP", "UNWOUND"} \cup Results
Phase == Phases \cup {""}
Who == {"", "auto", "owner"}
Undoings == {"", "ok", "partial"}
LineT == [k : Keys, n : Nat, phase : Phase, who : Who, kind : RunKinds \cup {""},
          id : BlockIDs \cup {""}, class : Classes \cup {""}, pnr : BOOLEAN, res : Undoings,
          boot : Nat, yes : BOOLEAN]
AttemptT == [phase : Phase, who : Who, startFailed : BOOLEAN, started : BOOLEAN,
             startBoot : Nat, ended : BOOLEAN, lastStart : BlockIDs \cup {""},
             stop : [class : Classes \cup {""}, pnr : BOOLEAN], unwound : Undoings,
             result : Results \cup {""}]
ResultT == [kind : Results \cup {""}, boot : Nat, yes : BOOLEAN, startBoot : Nat]
ViewT == [valid : BOOLEAN, kind : RunKinds \cup {""}, attempt : Seq(AttemptT), m : ResultT,
          requested : BOOLEAN, rehearsalReady : BOOLEAN, takeover : BOOLEAN, acked : BOOLEAN,
          sealed : BOOLEAN]

\* Lines of a log.
Has(lines, k) == \E i \in DOMAIN lines : lines[i].k = k
AttemptIn(lines, phase) == \E i \in DOMAIN lines : lines[i].k = "ATTEMPT" /\ lines[i].phase = phase
VerifyIn(lines) == AttemptIn(lines, "verify")
Tried(lines) == {i \in DOMAIN lines : lines[i].k = "ATTEMPT"}
AutoIn(lines, phase) == {i \in DOMAIN lines :
    lines[i].k = "ATTEMPT" /\ lines[i].phase = phase /\ lines[i].who = "auto"}

\* A state that no line but the owner's closing changes.
Final(s) == sealedBy(s) \/ s.closed \/ s.name \in {"manual", "manual_done"}

\* What a view of a log is.
ViewOf(v, lines, in) ==
    /\ v \in ViewT /\ v.valid /\ v.kind = lines[2].kind
    /\ v.acked => Has(lines, "ACK")
    /\ \A j \in 1 .. Len(v.attempt) :
          AttemptIn(lines, v.attempt[j].phase) /\ phaseFits(v.kind, v.attempt[j].phase, j = 1)
    /\ v.m # NoResult =>
          /\ \E i \in DOMAIN lines : lines[i].k = v.m.kind /\ lines[i].boot = v.m.boot
          /\ \E j \in 1 .. Len(v.attempt) : resultOfPhase(v.m.kind, v.attempt[j].phase)
    /\ v.takeover => v.sealed
    /\ Has(lines, "TAKEOVER") => v.sealed
    /\ v.sealed => Final(decide(v, in))
    /\ ~v.sealed =>
          /\ Len(v.attempt) = Cardinality(Tried(lines))
          /\ \A ph \in Phases : Cardinality(AutoIn(lines, ph)) <= count(v, ph)

Good(lines) ==
    /\ lines \in Seq(LineT) /\ Len(lines) >= 2
    /\ lines[1].k = "QUEUED" /\ lines[2].k = "RUN" /\ lines[2].kind \in RunKinds
    /\ \A in : ViewOf(scan(lines, in), lines, in)

\* The latest attempt is n, of this phase, and its unit is on its way or at work.
Flying(v, n, phase) ==
    /\ v.attempt # << >> /\ Len(v.attempt) = n /\ last(v).phase = phase
    /\ ~last(v).ended /\ ~last(v).startFailed

-----------------------------------------------------------------------------
(* Reading a log: what a line adds to what was read before it.               *)

\* A set of numbers that is not empty has a least one.
LEMMA HasLeast == ASSUME NEW S \in SUBSET Nat, S # {} PROVE \E m \in S : \A o \in S : m <= o
<1>1. PICK m \in S : \A y \in S : ~(<<y, m>> \in OpToRel(<, Nat)) BY WFMin, NatLessThanWellFounded
<1>2. \A y \in S : ~(y < m) BY <1>1 DEF OpToRel
<1>3. QED BY <1>2

\* f is what scan makes of the first n lines.
Opened == [EmptyView EXCEPT !.valid = TRUE]
Scans(f, lines, in, n) ==
    f = [i \in 1 .. n |-> IF i = 1 THEN Opened ELSE take(f[i - 1], lines[i], in)]

\* Two readings of the same lines agree, and one of fewer lines with one of more.
LEMMA ScansAgree ==
    ASSUME NEW l, NEW k, NEW in, NEW n \in Nat, NEW o \in Nat, n <= o,
           \A i \in 1 .. n : l[i] = k[i],
           NEW f, Scans(f, l, in, n), NEW g, Scans(g, k, in, o)
    PROVE  \A i \in 1 .. n : f[i] = g[i]
<1> DEFINE S == {i \in 1 .. n : f[i] # g[i]}
<1> SUFFICES ASSUME S # {} PROVE FALSE OBVIOUS
<1>0. S \in SUBSET Nat OBVIOUS
<1>1. PICK i \in S : \A j \in S : i <= j
  <2> HIDE DEF S
  <2>1. QED BY <1>0, HasLeast
<1>2. i \in 1 .. n /\ f[i] # g[i] OBVIOUS
<1>3. f[i] = IF i = 1 THEN Opened ELSE take(f[i - 1], l[i], in) BY <1>2 DEF Scans
<1>4. g[i] = IF i = 1 THEN Opened ELSE take(g[i - 1], k[i], in) BY <1>2 DEF Scans
<1>5. CASE i = 1 BY <1>2, <1>3, <1>4, <1>5
<1>6. CASE i # 1
  <2>1. i - 1 \in 1 .. n /\ i - 1 \notin S BY <1>1, <1>2, <1>6
  <2>2. f[i - 1] = g[i - 1] BY <2>1
  <2>3. QED BY <1>2, <1>3, <1>4, <1>6, <2>2
<1>7. QED BY <1>5, <1>6

\* A reading of one line more.
LEMMA ScansGrow ==
    ASSUME NEW l, NEW k, NEW in, NEW n \in Nat \ {0}, NEW m, k[n + 1] = m, \A i \in 1 .. n : l[i] = k[i],
           NEW f, Scans(f, l, in, n), NEW g, Scans(g, k, in, n + 1)
    PROVE  g[n + 1] = take(f[n], m, in)
<1>1. n \in Nat /\ n + 1 \in Nat /\ n <= n + 1 OBVIOUS
<1>2. \A i \in 1 .. n : f[i] = g[i] BY <1>1, ScansAgree
<1>3. n + 1 \in 1 .. n + 1 /\ n + 1 # 1 /\ (n + 1) - 1 = n OBVIOUS
<1>4. g[n + 1] = take(g[n], k[n + 1], in) BY <1>3 DEF Scans
<1>5. QED BY <1>2, <1>4

\* Every log can be read.
LEMMA ScansExist ==
    ASSUME NEW l, NEW in, NEW n \in Nat
    PROVE  \E f : Scans(f, l, in, n)
<1> DEFINE S == {i \in Nat : ~\E f : Scans(f, l, in, i)}
<1> SUFFICES ASSUME S # {} PROVE FALSE OBVIOUS
<1>1. PICK i \in S : \A j \in S : i <= j BY HasLeast
<1>2. i \in Nat /\ ~\E f : Scans(f, l, in, i) OBVIOUS
<1>3. CASE i = 0
  <2>1. Scans([j \in 1 .. i |-> 0], l, in, i) BY <1>3 DEF Scans
  <2>2. QED BY <1>2, <2>1
<1>4. CASE i = 1
  <2> DEFINE f == [j \in 1 .. i |-> Opened]
  <2>1. f = [j \in 1 .. i |-> IF j = 1 THEN Opened ELSE take(f[j - 1], l[j], in)] BY <1>4
  <2>2. QED BY <1>2, <2>1 DEF Scans
<1>5. CASE i > 1
  <2>1. i - 1 \in Nat /\ i - 1 \notin S BY <1>1, <1>2, <1>5
  <2>2. PICK f : Scans(f, l, in, i - 1) BY <2>1
  <2> DEFINE g == [j \in 1 .. i |-> IF j = i THEN take(f[i - 1], l[i], in) ELSE f[j]]
  <2>3. \A j \in 1 .. i : g[j] = IF j = 1 THEN Opened ELSE take(g[j - 1], l[j], in)
    <3> SUFFICES ASSUME NEW j \in 1 .. i PROVE g[j] = IF j = 1 THEN Opened ELSE take(g[j - 1], l[j], in)
      OBVIOUS
    <3>1. \A a \in 1 .. i - 1 : f[a] = IF a = 1 THEN Opened ELSE take(f[a - 1], l[a], in) BY <2>2 DEF Scans
    <3>2. CASE j = i
      <4>1. i - 1 \in 1 .. i /\ i - 1 # i BY <1>5, <2>1
      <4>2. g[i - 1] = f[i - 1] BY <4>1
      <4>3. QED BY <1>5, <3>2, <4>2
    <3>3. CASE j # i
      <4>1. j \in 1 .. i - 1 /\ g[j] = f[j] BY <1>2, <3>3
      <4>2. CASE j = 1 BY <3>1, <4>1, <4>2
      <4>3. CASE j # 1
        <5>1. j - 1 \in 1 .. i /\ j - 1 # i BY <1>2, <4>3
        <5>2. g[j - 1] = f[j - 1] BY <5>1
        <5>3. QED BY <3>1, <4>1, <4>3, <5>2
      <4>4. QED BY <4>2, <4>3
    <3>4. QED BY <3>2, <3>3
  <2>4. DOMAIN g = 1 .. i OBVIOUS
  <2>5. g = [j \in 1 .. i |-> g[j]] OBVIOUS
  <2> HIDE DEF g
  <2>6. g = [j \in 1 .. i |-> IF j = 1 THEN Opened ELSE take(g[j - 1], l[j], in)] BY <2>3, <2>5
  <2>7. QED BY <1>2, <2>6 DEF Scans
<1>6. QED BY <1>2, <1>3, <1>4, <1>5

\* What scan reads.
LEMMA ScanIs ==
    ASSUME NEW l, l # << >>, l[1].k = "QUEUED", NEW in, Len(l) \in Nat
    PROVE  \E f : Scans(f, l, in, Len(l)) /\ scan(l, in) = f[Len(l)]
<1> DEFINE up == CHOOSE f : f = [i \in 1 .. Len(l) |-> IF i = 1 THEN [EmptyView EXCEPT !.valid = TRUE]
                                                       ELSE take(f[i - 1], l[i], in)]
<1>1. \E f : f = [i \in 1 .. Len(l) |-> IF i = 1 THEN [EmptyView EXCEPT !.valid = TRUE]
                                        ELSE take(f[i - 1], l[i], in)]
  <2>1. \E f : Scans(f, l, in, Len(l)) BY ScansExist
  <2>2. QED BY <2>1 DEF Scans, Opened
<1>2. up = [i \in 1 .. Len(l) |-> IF i = 1 THEN [EmptyView EXCEPT !.valid = TRUE]
                                  ELSE take(up[i - 1], l[i], in)]
  BY <1>1
<1>3. scan(l, in) = up[Len(l)] BY DEF scan
<1> HIDE DEF up
<1>4. Scans(up, l, in, Len(l)) BY <1>2 DEF Scans, Opened
<1>5. QED BY <1>3, <1>4

\* A line more is one more line taken.
LEMMA ScanAppend ==
    ASSUME NEW l \in Seq(LineT), l # << >>, l[1].k = "QUEUED", NEW m \in LineT, NEW in
    PROVE  scan(Append(l, m), in) = take(scan(l, in), m, in)
<1> DEFINE k == Append(l, m)
<1>1. /\ Len(l) \in Nat /\ Len(l) >= 1 /\ Len(k) = Len(l) + 1 /\ k # << >> /\ k[1].k = "QUEUED"
      /\ k[Len(l) + 1] = m /\ \A i \in 1 .. Len(l) : l[i] = k[i]
  BY EmptySeq, LenProperties
<1> HIDE DEF k
<1>2. PICK f : Scans(f, l, in, Len(l)) /\ scan(l, in) = f[Len(l)] BY <1>1, ScanIs
<1>3. PICK g : Scans(g, k, in, Len(k)) /\ scan(k, in) = g[Len(k)] BY <1>1, ScanIs
<1>4. Len(l) \in Nat \ {0} /\ Scans(g, k, in, Len(l) + 1) BY <1>1, <1>3
<1>5. g[Len(l) + 1] = take(f[Len(l)], m, in) BY <1>1, <1>2, <1>4, ScansGrow
<1>6. QED BY <1>1, <1>2, <1>3, <1>5 DEF k

\* The first two lines open the run.
OpenView(kind) == [EmptyView EXCEPT !.valid = TRUE, !.kind = kind]
\* The reading of the two lines that a run begins with.
LEMMA ScanOpens ==
    ASSUME NEW l, l # << >>, Len(l) = 2, l[1].k = "QUEUED", l[2].k = "RUN", NEW in
    PROVE  scan(l, in) = OpenView(l[2].kind)
<1>1. Len(l) \in Nat OBVIOUS
<1>2. PICK f : Scans(f, l, in, Len(l)) /\ scan(l, in) = f[Len(l)] BY <1>1, ScanIs
<1>3. f[1] = Opened /\ f[2] = take(f[1], l[2], in) BY <1>2 DEF Scans
<1>4. QED BY <1>2, <1>3 DEF Opened, take, EmptyView, OpenView

-----------------------------------------------------------------------------
(* A state is decided from what was read, whether the log is decided or not.  *)

Alike(v, w) ==
    /\ w.valid = v.valid /\ w.kind = v.kind /\ w.attempt = v.attempt /\ w.m = v.m
    /\ w.requested = v.requested /\ w.rehearsalReady = v.rehearsalReady
    /\ w.takeover = v.takeover /\ w.acked = v.acked

\* The state does not tell two views apart that only differ in whether they are decided.
LEMMA SealedUnread ==
    ASSUME NEW v, NEW w, Alike(v, w), NEW in
    PROVE  decide(w, in) = decide(v, in)
<1> USE DEF Alike
<1>1. HasAttempt(w) = HasAttempt(v) /\ last(w) = last(v) BY DEF HasAttempt, last
<1>2. \A name : st(w, in, name) = st(v, in, name) BY <1>1 DEF st
<1>3. \A reason : attention(w, in, reason) = attention(v, in, reason) BY <1>2 DEF attention
<1>4. \A ph : count(w, ph) = count(v, ph) BY DEF count
<1>5. autoTries(w) = autoTries(v) BY DEF autoTries
<1>6. interrupted(w, in) = interrupted(v, in)
  <2>1. count(w, "unwind") = count(v, "unwind") BY <1>4
  <2>2. st(w, in, "interrupted") = st(v, in, "interrupted") BY <1>2
  <2>3. attention(w, in, "unwind_partial") = attention(v, in, "unwind_partial") BY <1>3
  <2>4. QED BY <1>1, <2>1, <2>2, <2>3 DEF interrupted
<1>7. notStarted(w, in) = notStarted(v, in) BY <1>1, <1>2, <1>6 DEF notStarted
<1>8. stoppedBefore(w, in) = stoppedBefore(v, in)
  <2>1. st(w, in, "failed") = st(v, in, "failed") BY <1>2
  <2>2. attention(w, in, "unwind_partial") = attention(v, in, "unwind_partial") BY <1>3
  <2>3. QED BY <1>1, <1>6, <2>1, <2>2 DEF stoppedBefore
<1>9. stoppedAfter(w, in) = stoppedAfter(v, in)
  <2>1. st(w, in, "failed") = st(v, in, "failed") /\ st(w, in, "stopped_at_waypoint") = st(v, in, "stopped_at_waypoint") BY <1>2
  <2>2. QED BY <1>1, <1>5, <2>1 DEF stoppedAfter
<1>10. unwoundOK(w, in) = unwoundOK(v, in)
  <2>1. st(w, in, "failed") = st(v, in, "failed") /\ st(w, in, "rehearsal_done") = st(v, in, "rehearsal_done") BY <1>2
  <2> DEFINE S(a) == {i \in DOMAIN a : a[i].stop # NoStop /\ ~a[i].stop.pnr}
  <2>2. S(w.attempt) = S(v.attempt) OBVIOUS
  <2>3. lastOf(S(w.attempt)) = lastOf(S(v.attempt)) BY <2>2
  <2>4. QED BY <2>1, <2>2, <2>3 DEF unwoundOK
<1>11. checkBegan(w) = checkBegan(v) BY DEF checkBegan
<1>12. result(w, in) = result(v, in) BY <1>11 DEF result
<1>13. \A r : waiting(w, in, r) = waiting(v, in, r) BY <1>2 DEF waiting
<1>14. verdict(w, in) = verdict(v, in)
  <2>1. /\ st(w, in, "verifying") = st(v, in, "verifying") /\ st(w, in, "failed") = st(v, in, "failed")
        /\ st(w, in, "succeeded") = st(v, in, "succeeded")
        /\ st(w, in, "succeeded_with_findings") = st(v, in, "succeeded_with_findings")
    BY <1>2
  <2>2. QED BY <2>1 DEF verdict
<1>15. \A r : byResult(w, in, r) = byResult(v, in, r)
  BY <1>1, <1>2, <1>3, <1>6, <1>13, <1>14 DEF byResult
<1>16. unwound(w, in) = unwound(v, in) BY <1>1, <1>3, <1>6, <1>9, <1>10 DEF unwound
<1>17. canFinishFromFiles(w, in) = canFinishFromFiles(v, in) BY <1>1 DEF canFinishFromFiles
<1>18. settled(w, in) = settled(v, in)
  <2>1. byResult(w, in, result(w, in)) = byResult(v, in, result(v, in)) BY <1>12, <1>15
  <2>2. QED BY <1>1, <1>6, <1>7, <1>8, <1>9, <1>16, <1>17, <2>1 DEF settled
<1>19. active(w, in) = active(v, in) BY <1>1 DEF active
<1>20. startLost(w, in) = startLost(v, in) BY <1>1 DEF startLost
<1>21. inFlight(w, in) = inFlight(v, in) BY <1>1, <1>20 DEF inFlight
<1>22. running(w, in) = running(v, in) BY <1>1, <1>2 DEF running
<1>23. NotLive(w, in) = NotLive(v, in) BY <1>1, <1>19, <1>21 DEF NotLive
<1>24. live(w, in) = live(v, in)
  <2>1. byResult(w, in, result(w, in)) = byResult(v, in, result(v, in)) BY <1>12, <1>15
  <2>2. QED BY <1>1, <1>3, <1>12, <1>19, <1>22, <2>1 DEF live
<1>25. \A s : heard(w, in, s) = heard(v, in, s) BY <1>3 DEF heard
<1>26. placed(w, in) = placed(v, in)
  <2>1. heard(w, in, settled(w, in)) = heard(v, in, settled(v, in)) BY <1>18, <1>25
  <2>2. QED BY <1>23, <1>24, <2>1 DEF placed
<1>27. Unplaced(w, in) = Unplaced(v, in) BY <1>2, <1>3 DEF Unplaced
<1>28. noAttempt(w, in) = noAttempt(v, in) BY <1>2, <1>3 DEF noAttempt
<1>29. QED
  <2>1. /\ st(w, in, "idle") = st(v, in, "idle") /\ st(w, in, "manual") = st(v, in, "manual")
        /\ st(w, in, "manual_done") = st(v, in, "manual_done")
    BY <1>2
  <2>2. attention(w, in, "run_damaged") = attention(v, in, "run_damaged") BY <1>3
  <2>3. QED BY <1>1, <1>26, <1>27, <1>28, <2>1, <2>2 DEF decide

-----------------------------------------------------------------------------
(* What one line does to a view.                                              *)

\* The latest attempt of a view is put in its place.
Put(v, b) == [v EXCEPT !.attempt[Len(v.attempt)] = b]

\* What putting the latest attempt in its place leaves as it was.
LEMMA PutIs ==
    ASSUME NEW v \in ViewT, v.attempt # << >>, NEW b \in AttemptT
    PROVE  /\ Put(v, b) \in ViewT /\ Len(v.attempt) \in Nat \ {0}
           /\ Put(v, b).attempt \in Seq(AttemptT)
           /\ Len(Put(v, b).attempt) = Len(v.attempt) /\ Put(v, b).attempt # << >> /\ last(Put(v, b)) = b
           /\ \A j \in 1 .. Len(v.attempt) :
                 Put(v, b).attempt[j] = IF j = Len(v.attempt) THEN b ELSE v.attempt[j]
           /\ Put(v, b).valid = v.valid /\ Put(v, b).kind = v.kind /\ Put(v, b).m = v.m
           /\ Put(v, b).requested = v.requested /\ Put(v, b).rehearsalReady = v.rehearsalReady
           /\ Put(v, b).takeover = v.takeover /\ Put(v, b).acked = v.acked /\ Put(v, b).sealed = v.sealed
<1> DEFINE a == v.attempt
           n == Len(a)
           c == [a EXCEPT ![n] = b]
<1>1. a \in Seq(AttemptT) BY DEF ViewT
<1>2. n \in Nat \ {0} BY <1>1, EmptySeq, LenProperties
<1>3. c \in Seq(AttemptT) /\ Len(c) = n /\ \A j \in 1 .. n : c[j] = IF j = n THEN b ELSE a[j]
  BY <1>1, <1>2, ExceptSeq
<1>4. Put(v, b) = [v EXCEPT !.attempt = c] BY DEF Put
<1> HIDE DEF c
<1>5. c # << >> BY <1>2, <1>3
<1>6. Put(v, b) \in ViewT BY <1>3, <1>4 DEF ViewT
<1>7. Put(v, b).attempt = c BY <1>4 DEF ViewT
<1>8. last(Put(v, b)) = b BY <1>2, <1>3, <1>7 DEF last
<1>9. QED BY <1>2, <1>3, <1>4, <1>5, <1>6, <1>7, <1>8 DEF ViewT

\* How a line is taken by a view that is open: not at all, by the flags of the view, as a new
\* attempt, or by the latest attempt.
Taken(v, m, w, in) ==
    \/ w = v
    \/ m.k = "TAKEOVER" /\ w = [v EXCEPT !.takeover = TRUE, !.sealed = TRUE]
    \/ m.k # "ATTEMPT" /\ \E b \in BOOLEAN : w = [v EXCEPT !.requested = b]
    \/ /\ m.k = "ATTEMPT" /\ m.n = Len(v.attempt) + 1 /\ phaseFits(v.kind, m.phase, Len(v.attempt) = 0)
       /\ w = [v EXCEPT !.attempt = Append(@, NewAttempt(m))]
    \/ /\ v.attempt # << >> /\ m.k # "ATTEMPT" /\ m.n = Len(v.attempt)
       /\ \E b \in AttemptT :
             /\ b.phase = last(v).phase
             /\ b.ended # last(v).ended => m.k = "UNIT_END"
             /\ last(v).started => b.started /\ b.startFailed = last(v).startFailed
             /\ b.startFailed /\ ~last(v).startFailed => m.k = "START_FAILED"
             /\ m.k = "UNIT_START" /\ m.phase = last(v).phase => b.started /\ (~last(v).started => ~b.startFailed)
             /\ \/ m.k # "UNIT_END" /\ w = Put(v, b)
                \/ /\ m.k \in Results /\ resultOfPhase(m.k, b.phase)
                   /\ \E r \in ResultT, ready \in BOOLEAN :
                         /\ r.kind = m.k /\ r.boot = m.boot
                         /\ w = [Put(v, b) EXCEPT !.m = r, !.requested = FALSE, !.rehearsalReady = ready]
                \/ m.k = "UNIT_END" /\ w = [Put(v, b) EXCEPT !.sealed = sealedBy(decide(Put(v, b), in))]

\* The reducer takes a line (reduce.go, add, addUnitMarker) in one of these ways.
LEMMA AddTakes ==
    ASSUME NEW v \in ViewT, NEW m \in LineT, NEW in
    PROVE  Taken(v, m, add(v, m, in), in)
<1> DEFINE n == Len(v.attempt)
           a == last(v)
<1>0. v.attempt \in Seq(AttemptT) /\ n \in Nat BY LenProperties DEF ViewT
<1>1. v.attempt # << >> => n \in 1 .. n /\ a \in AttemptT /\ a = v.attempt[n] BY <1>0, EmptySeq, ElementOfSeq DEF last
<1>2. CASE m.k \in {"QUEUED", "RUN", "BOOT_SEEN"} BY <1>2 DEF add, Taken
<1>3. CASE m.k = "TAKEOVER" BY <1>3 DEF add, Taken
<1>4. CASE m.k = "REBOOT_REQUESTED"
  <2>1. add(v, m, in) = [v EXCEPT !.requested = TRUE] BY <1>4 DEF add
  <2>2. QED BY <1>4, <2>1 DEF Taken
<1>5. CASE m.k = "REBOOT_FAILED"
  <2>1. add(v, m, in) = [v EXCEPT !.requested = FALSE] BY <1>5 DEF add
  <2>2. QED BY <1>5, <2>1 DEF Taken
<1>6. CASE m.k = "ATTEMPT"
  <2>1. add(v, m, in) = IF m.n = n + 1 /\ phaseFits(v.kind, m.phase, n = 0)
                        THEN [v EXCEPT !.attempt = Append(@, NewAttempt(m))] ELSE v
    BY <1>6 DEF add
  <2>2. QED BY <1>6, <2>1 DEF Taken
<1>7. CASE m.k = "START_FAILED"
  <2>1. add(v, m, in) = IF HasAttempt(v) /\ m.n = n /\ ~a.started
                        THEN [v EXCEPT !.attempt[n].startFailed = TRUE] ELSE v
    BY <1>7 DEF add
  <2>2. CASE HasAttempt(v) /\ m.n = n /\ ~a.started
    <3> DEFINE b == [a EXCEPT !.startFailed = TRUE]
    <3>1. b \in AttemptT /\ b.phase = a.phase /\ b.ended = a.ended BY <1>1, <2>2 DEF HasAttempt, AttemptT
    <3>2. add(v, m, in) = Put(v, b) BY <1>1, <2>1, <2>2 DEF Put, HasAttempt
    <3> HIDE DEF b
    <3>3. QED BY <1>7, <2>2, <3>1, <3>2 DEF Taken, HasAttempt
  <2>3. QED BY <2>1, <2>2 DEF Taken
<1>8. CASE m.k = "UNIT_START"
  <2>1. add(v, m, in) = IF HasAttempt(v) /\ m.n = n /\ ~a.started /\ m.phase = a.phase
                        THEN [v EXCEPT !.attempt[n] = [@ EXCEPT !.started = TRUE, !.startFailed = FALSE,
                                                                !.startBoot = m.boot]] ELSE v
    BY <1>8 DEF add
  <2>2. CASE HasAttempt(v) /\ m.n = n /\ ~a.started /\ m.phase = a.phase
    <3> DEFINE b == [a EXCEPT !.started = TRUE, !.startFailed = FALSE, !.startBoot = m.boot]
    <3>0. m.boot \in Nat BY DEF LineT
    <3>1. b \in AttemptT /\ b.phase = a.phase /\ b.ended = a.ended /\ b.started /\ ~b.startFailed
      BY <1>1, <2>2, <3>0 DEF HasAttempt, AttemptT
    <3>2. add(v, m, in) = Put(v, b) BY <1>1, <2>1, <2>2 DEF Put, HasAttempt
    <3> HIDE DEF b
    <3>3. QED BY <1>8, <2>2, <3>1, <3>2 DEF Taken, HasAttempt
  <2>3. QED BY <2>1, <2>2 DEF Taken
<1>9. CASE m.k \notin {"QUEUED", "RUN", "BOOT_SEEN", "TAKEOVER", "REBOOT_REQUESTED", "REBOOT_FAILED",
                       "ATTEMPT", "START_FAILED", "UNIT_START"}
  <2>1. add(v, m, in) = IF HasAttempt(v) /\ m.n = n /\ a.started /\ ~a.ended
                        THEN addUnitMarker(v, m, in) ELSE v
    BY <1>9 DEF add
  <2>2. CASE HasAttempt(v) /\ m.n = n /\ a.started /\ ~a.ended
    <3>0. v.attempt # << >> /\ a \in AttemptT /\ a = v.attempt[n] /\ add(v, m, in) = addUnitMarker(v, m, in)
      BY <1>1, <2>1, <2>2 DEF HasAttempt
    <3>1. /\ m.id \in BlockIDs \cup {""} /\ m.class \in Classes \cup {""} /\ m.pnr \in BOOLEAN
          /\ m.res \in Undoings /\ m.boot \in Nat /\ m.yes \in BOOLEAN
      BY DEF LineT
    <3>2. ASSUME NEW b \in AttemptT, b.phase = a.phase, b.ended = a.ended, b.started = a.started,
                 b.startFailed = a.startFailed, m.k # "UNIT_END", add(v, m, in) = Put(v, b)
          PROVE  Taken(v, m, add(v, m, in), in)
      BY <1>9, <2>2, <3>0, <3>2 DEF Taken
    <3>3. CASE m.k = "BLOCK_START"
      <4> DEFINE b == [a EXCEPT !.lastStart = m.id]
      <4>1. b \in AttemptT /\ b.phase = a.phase /\ b.ended = a.ended /\ b.started = a.started /\ b.startFailed = a.startFailed
        BY <3>0, <3>1 DEF AttemptT
      <4>2. add(v, m, in) = Put(v, b) BY <3>0, <3>3 DEF addUnitMarker, Put, Results
      <4> HIDE DEF b
      <4>3. QED BY <3>2, <3>3, <4>1, <4>2
    <3>4. CASE m.k = "STOP" /\ a.stop = NoStop /\ a.result = ""
      <4> DEFINE b == [a EXCEPT !.stop = [class |-> m.class, pnr |-> m.pnr]]
      <4>1. b \in AttemptT /\ b.phase = a.phase /\ b.ended = a.ended /\ b.started = a.started /\ b.startFailed = a.startFailed
        BY <3>0, <3>1 DEF AttemptT
      <4>2. add(v, m, in) = Put(v, b) BY <3>0, <3>4 DEF addUnitMarker, Put, Results
      <4> HIDE DEF b
      <4>3. QED BY <3>2, <3>4, <4>1, <4>2
    <3>5. CASE m.k = "UNWOUND" /\ a.unwound = "" /\ (a.phase = "unwind" \/ (a.stop # NoStop /\ ~a.stop.pnr))
      <4> DEFINE b == [a EXCEPT !.unwound = m.res]
      <4>1. b \in AttemptT /\ b.phase = a.phase /\ b.ended = a.ended /\ b.started = a.started /\ b.startFailed = a.startFailed
        BY <3>0, <3>1 DEF AttemptT
      <4>2. add(v, m, in) = Put(v, b) BY <3>0, <3>5 DEF addUnitMarker, Put, Results
      <4> HIDE DEF b
      <4>3. QED BY <3>2, <3>5, <4>1, <4>2
    <3>6. CASE m.k \in Results /\ a.stop = NoStop /\ a.result = "" /\ resultOfPhase(m.k, a.phase)
      <4> DEFINE b == [a EXCEPT !.result = m.k]
                 r == [kind |-> m.k, boot |-> m.boot, yes |-> m.yes, startBoot |-> a.startBoot]
                 ready == v.rehearsalReady \/ m.k = "REHEARSAL_READY"
      <4>1. b \in AttemptT /\ b.phase = a.phase /\ b.ended = a.ended /\ b.started = a.started /\ b.startFailed = a.startFailed
        BY <3>0, <3>1, <3>6 DEF AttemptT
      <4>2. r \in ResultT /\ r.kind = m.k /\ r.boot = m.boot /\ ready \in BOOLEAN BY <3>0, <3>1, <3>6 DEF AttemptT, ResultT
      <4>3. add(v, m, in) = [Put(v, b) EXCEPT !.m = r, !.requested = FALSE, !.rehearsalReady = @ \/ m.k = "REHEARSAL_READY"]
        BY <3>0, <3>6 DEF addUnitMarker, Put, Results
      <4>4. Put(v, b).rehearsalReady = v.rehearsalReady BY <3>0, <4>1, PutIs
      <4>5. add(v, m, in) = [Put(v, b) EXCEPT !.m = r, !.requested = FALSE, !.rehearsalReady = ready] BY <4>3, <4>4
      <4>6. m.k # "UNIT_START" /\ m.k # "UNIT_END" /\ m.k # "START_FAILED" BY <3>6 DEF Results
      <4> HIDE DEF b, r, ready
      <4>7. \E q \in ResultT, z \in BOOLEAN : /\ q.kind = m.k /\ q.boot = m.boot
               /\ add(v, m, in) = [Put(v, b) EXCEPT !.m = q, !.requested = FALSE, !.rehearsalReady = z]
        BY <4>2, <4>5
      <4>8. resultOfPhase(m.k, b.phase) BY <3>6, <4>1
      <4>9. QED BY <1>9, <2>2, <3>0, <3>6, <4>1, <4>6, <4>7, <4>8 DEF Taken
    <3>7. CASE m.k = "UNIT_END"
      <4> DEFINE b == [a EXCEPT !.ended = TRUE]
      <4>1. b \in AttemptT /\ b.phase = a.phase /\ b.started = a.started /\ b.startFailed = a.startFailed
        BY <3>0 DEF AttemptT
      <4>2. add(v, m, in) = [Put(v, b) EXCEPT !.sealed = sealedBy(decide(Put(v, b), in))]
        BY <3>0, <3>7 DEF addUnitMarker, Put, Results
      <4> HIDE DEF b
      <4>3. QED BY <1>9, <2>2, <3>0, <3>7, <4>1, <4>2 DEF Taken
    <3>8. QED
      <4>1. CASE addUnitMarker(v, m, in) = v BY <3>0, <4>1 DEF Taken
      <4>2. addUnitMarker(v, m, in) = v \/ m.k = "BLOCK_START" \/ (m.k = "STOP" /\ a.stop = NoStop /\ a.result = "")
            \/ (m.k = "UNWOUND" /\ a.unwound = "" /\ (a.phase = "unwind" \/ (a.stop # NoStop /\ ~a.stop.pnr)))
            \/ (m.k \in Results /\ a.stop = NoStop /\ a.result = "" /\ resultOfPhase(m.k, a.phase)) \/ m.k = "UNIT_END"
        BY <3>0 DEF addUnitMarker
      <4>3. QED BY <3>3, <3>4, <3>5, <3>6, <3>7, <4>1, <4>2
  <2>3. QED BY <2>1, <2>2 DEF Taken
<1>10. QED BY <1>2, <1>3, <1>4, <1>5, <1>6, <1>7, <1>8, <1>9

\* A number that is not there makes a set one larger.
LEMMA OneMore ==
    ASSUME NEW n \in Nat, NEW S \in SUBSET (1 .. n)
    PROVE  /\ IsFiniteSet(S) /\ Cardinality(S) \in Nat
           /\ Cardinality(S \cup {n + 1}) = Cardinality(S) + 1
<1>1. IsFiniteSet(S)
  <2>1. IsFiniteSet(1 .. n) BY FS_Interval
  <2>2. QED BY <2>1, FS_Subset
<1>2. n + 1 \notin S OBVIOUS
<1>3. QED BY <1>1, <1>2, FS_CardinalityType, FS_AddElement

\* The attempts of a log, and those that the core made by itself, when a line is added.
LEMMA LinesGrow ==
    ASSUME NEW l \in Seq(LineT), NEW m \in LineT
    PROVE  /\ Append(l, m) \in Seq(LineT) /\ Len(l) \in Nat /\ Len(Append(l, m)) = Len(l) + 1
           /\ Append(l, m)[Len(l) + 1] = m /\ \A i \in 1 .. Len(l) : Append(l, m)[i] = l[i]
           /\ DOMAIN l = 1 .. Len(l) /\ DOMAIN Append(l, m) = 1 .. Len(l) + 1
           /\ \A k : Has(Append(l, m), k) <=> Has(l, k) \/ m.k = k
           /\ \A ph : AttemptIn(Append(l, m), ph) <=> AttemptIn(l, ph) \/ (m.k = "ATTEMPT" /\ m.phase = ph)
           /\ Cardinality(Tried(l)) \in Nat
           /\ Cardinality(Tried(Append(l, m))) = Cardinality(Tried(l)) + IF m.k = "ATTEMPT" THEN 1 ELSE 0
           /\ \A ph : /\ Cardinality(AutoIn(l, ph)) \in Nat
                      /\ Cardinality(AutoIn(Append(l, m), ph)) = Cardinality(AutoIn(l, ph)) +
                            IF m.k = "ATTEMPT" /\ m.phase = ph /\ m.who = "auto" THEN 1 ELSE 0
<1> DEFINE n == Len(l)
           k == Append(l, m)
<1>1. /\ n \in Nat /\ DOMAIN l = 1 .. n /\ k \in Seq(LineT) /\ Len(k) = n + 1 /\ k[n + 1] = m
      /\ \A i \in 1 .. n : k[i] = l[i]
  BY LenProperties, AppendProperties
<1>2. DOMAIN k = 1 .. n + 1 BY <1>1, LenProperties
<1> HIDE DEF n, k
<1>3. \A i : i \in 1 .. n + 1 <=> i \in 1 .. n \/ i = n + 1 BY <1>1
<1>4. \A x : Has(k, x) <=> Has(l, x) \/ m.k = x BY <1>1, <1>2, <1>3 DEF Has
<1>5. \A ph : AttemptIn(k, ph) <=> AttemptIn(l, ph) \/ (m.k = "ATTEMPT" /\ m.phase = ph) BY <1>1, <1>2, <1>3 DEF AttemptIn
<1>6. /\ Tried(l) \in SUBSET (1 .. n)
      /\ Tried(k) = IF m.k = "ATTEMPT" THEN Tried(l) \cup {n + 1} ELSE Tried(l)
  BY <1>1, <1>2, <1>3 DEF Tried
<1>7. Cardinality(Tried(l)) \in Nat /\ Cardinality(Tried(k)) = Cardinality(Tried(l)) + IF m.k = "ATTEMPT" THEN 1 ELSE 0
  <2>1. /\ Cardinality(Tried(l)) \in Nat /\ Cardinality(Tried(l) \cup {n + 1}) = Cardinality(Tried(l)) + 1
    BY <1>1, <1>6, OneMore
  <2>2. QED BY <1>6, <2>1
<1>8. ASSUME NEW ph
      PROVE  /\ Cardinality(AutoIn(l, ph)) \in Nat
             /\ Cardinality(AutoIn(k, ph)) = Cardinality(AutoIn(l, ph)) +
                   IF m.k = "ATTEMPT" /\ m.phase = ph /\ m.who = "auto" THEN 1 ELSE 0
  <2>1. /\ AutoIn(l, ph) \in SUBSET (1 .. n)
        /\ AutoIn(k, ph) = IF m.k = "ATTEMPT" /\ m.phase = ph /\ m.who = "auto"
                           THEN AutoIn(l, ph) \cup {n + 1} ELSE AutoIn(l, ph)
    BY <1>1, <1>2, <1>3 DEF AutoIn
  <2>2. /\ Cardinality(AutoIn(l, ph)) \in Nat
        /\ Cardinality(AutoIn(l, ph) \cup {n + 1}) = Cardinality(AutoIn(l, ph)) + 1
    BY <1>1, <2>1, OneMore
  <2>3. CASE m.k = "ATTEMPT" /\ m.phase = ph /\ m.who = "auto" BY <2>1, <2>2, <2>3
  <2>4. CASE ~(m.k = "ATTEMPT" /\ m.phase = ph /\ m.who = "auto") BY <2>1, <2>2, <2>4
  <2>5. QED BY <2>3, <2>4
<1>9. QED BY <1>1, <1>2, <1>4, <1>5, <1>7, <1>8 DEF n, k

\* A view with one more attempt.
Attempted(v, m) == [v EXCEPT !.attempt = Append(@, NewAttempt(m))]

\* The attempt that the log takes is the last of the view, and has the phase of its line.
LEMMA AttemptTaken ==
    ASSUME NEW v \in ViewT, NEW m \in LineT, m.phase \in Phases
    PROVE  /\ Attempted(v, m) \in ViewT /\ Attempted(v, m).attempt = Append(v.attempt, NewAttempt(m)) /\ Len(v.attempt) \in Nat
           /\ Len(Attempted(v, m).attempt) = Len(v.attempt) + 1 /\ Attempted(v, m).attempt # << >>
           /\ Attempted(v, m).attempt[Len(v.attempt) + 1] = NewAttempt(m) /\ last(Attempted(v, m)) = NewAttempt(m)
           /\ \A j \in 1 .. Len(v.attempt) : Attempted(v, m).attempt[j] = v.attempt[j]
           /\ Attempted(v, m).valid = v.valid /\ Attempted(v, m).kind = v.kind /\ Attempted(v, m).m = v.m /\ Attempted(v, m).requested = v.requested
           /\ Attempted(v, m).rehearsalReady = v.rehearsalReady /\ Attempted(v, m).takeover = v.takeover /\ Attempted(v, m).acked = v.acked
           /\ Attempted(v, m).sealed = v.sealed
<1> DEFINE a == v.attempt
           n == Len(a)
           b == NewAttempt(m)
           c == Append(a, b)
           w == Attempted(v, m)
<1>1. a \in Seq(AttemptT) BY DEF ViewT
<1>2. b \in AttemptT
  <2>1. m.who \in Who BY DEF LineT
  <2>2. NoStop \in [class : Classes \cup {""}, pnr : BOOLEAN] BY DEF NoStop
  <2>3. m.phase \in Phase /\ "" \in Undoings BY DEF Phase, Undoings
  <2>4. QED BY <2>1, <2>2, <2>3 DEF NewAttempt, AttemptT
<1>3. /\ n \in Nat /\ DOMAIN a = 1 .. n /\ c \in Seq(AttemptT) /\ Len(c) = n + 1 /\ c[n + 1] = b
      /\ (\A j \in 1 .. n : c[j] = a[j]) /\ c # << >>
  BY <1>1, <1>2, LenProperties, AppendProperties
<1>4. DOMAIN c = 1 .. n + 1 BY <1>3, LenProperties
<1>5. w \in ViewT /\ w.attempt = c BY <1>3 DEF ViewT, Attempted
<1>6. /\ w.valid = v.valid /\ w.kind = v.kind /\ w.m = v.m /\ w.requested = v.requested
      /\ w.rehearsalReady = v.rehearsalReady /\ w.takeover = v.takeover /\ w.acked = v.acked
      /\ w.sealed = v.sealed
  BY DEF ViewT, Attempted
<1>7. b.phase = m.phase BY DEF NewAttempt
<1> HIDE DEF b, c, n, w
<1>8. last(w) = b BY <1>3, <1>5 DEF last
<1>9. QED BY <1>3, <1>5, <1>6, <1>8 DEF b, c, n, w

\* It has one attempt more of that phase.
LEMMA AttemptCounts ==
    ASSUME NEW v \in ViewT, NEW m \in LineT, m.phase \in Phases, NEW ph
    PROVE  /\ count(v, ph) \in Nat
           /\ count(Attempted(v, m), ph) = count(v, ph) + IF m.phase = ph THEN 1 ELSE 0
<1> DEFINE a == v.attempt
           n == Len(a)
           w == Attempted(v, m)
           c == w.attempt
           S == {i \in DOMAIN a : a[i].phase = ph}
           T == {i \in DOMAIN c : c[i].phase = ph}
<1>1. /\ n \in Nat /\ c \in Seq(AttemptT) /\ Len(c) = n + 1 /\ c[n + 1] = NewAttempt(m)
      /\ \A j \in 1 .. n : c[j] = a[j]
  BY AttemptTaken DEF ViewT
<1>2. DOMAIN a = 1 .. n /\ DOMAIN c = 1 .. n + 1 BY <1>1, LenProperties DEF ViewT
<1>3. NewAttempt(m).phase = m.phase BY DEF NewAttempt
<1>4. \A i : i \in 1 .. n + 1 <=> i \in 1 .. n \/ i = n + 1 BY <1>1
<1>5. count(v, ph) = Cardinality(S) /\ count(w, ph) = Cardinality(T) BY DEF count
<1> HIDE DEF a, c, n, w
<1>6. S \in SUBSET (1 .. n) BY <1>2
<1>7. T = IF m.phase = ph THEN S \cup {n + 1} ELSE S BY <1>1, <1>2, <1>3, <1>4
<1> HIDE DEF S, T
<1>8. Cardinality(S) \in Nat /\ Cardinality(S \cup {n + 1}) = Cardinality(S) + 1 BY <1>1, <1>6, OneMore
<1>9. QED BY <1>5, <1>7, <1>8 DEF w

\* The number of the attempts of a phase is not changed by what they say.
LEMMA PutCounts ==
    ASSUME NEW v \in ViewT, v.attempt # << >>, NEW b \in AttemptT, b.phase = last(v).phase, NEW ph
    PROVE  count(Put(v, b), ph) = count(v, ph)
<1> DEFINE w == Put(v, b)
<1>1. /\ w.attempt \in Seq(AttemptT) /\ v.attempt \in Seq(AttemptT) /\ Len(w.attempt) = Len(v.attempt)
      /\ \A j \in 1 .. Len(v.attempt) : w.attempt[j] = IF j = Len(v.attempt) THEN b ELSE v.attempt[j]
  BY PutIs DEF ViewT
<1>2. DOMAIN w.attempt = 1 .. Len(v.attempt) /\ DOMAIN v.attempt = 1 .. Len(v.attempt) BY <1>1, LenProperties
<1>3. \A j \in 1 .. Len(v.attempt) : w.attempt[j].phase = v.attempt[j].phase BY <1>1 DEF last
<1> HIDE DEF w
<1>4. {i \in DOMAIN w.attempt : w.attempt[i].phase = ph} = {i \in DOMAIN v.attempt : v.attempt[i].phase = ph}
  BY <1>2, <1>3
<1>5. QED BY <1>4 DEF count, w

\* An attempt that the log can take next.
NextIs(lines, m) ==
    /\ m.n = Cardinality(Tried(lines)) + 1 /\ m.phase \in Phases
    /\ phaseFits(lines[2].kind, m.phase, Cardinality(Tried(lines)) = 0)

\* The view of a log with one more line.
LEMMA ViewGrows ==
    ASSUME NEW l \in Seq(LineT), Len(l) >= 2, l[2].kind \in RunKinds, NEW in, NEW v, ViewOf(v, l, in),
           NEW m \in LineT, m.k = "ATTEMPT" => NextIs(l, m)
    PROVE  ViewOf(take(v, m, in), Append(l, m), in)
<1> DEFINE k == Append(l, m)
           w == take(v, m, in)
<1>1. /\ k \in Seq(LineT) /\ Len(l) \in Nat /\ DOMAIN l = 1 .. Len(l) /\ DOMAIN k = 1 .. Len(l) + 1
      /\ k[Len(l) + 1] = m /\ (\A i \in 1 .. Len(l) : k[i] = l[i]) /\ k[2] = l[2]
      /\ (\A x : Has(k, x) <=> Has(l, x) \/ m.k = x)
      /\ (\A ph : AttemptIn(k, ph) <=> AttemptIn(l, ph) \/ (m.k = "ATTEMPT" /\ m.phase = ph))
      /\ Cardinality(Tried(l)) \in Nat
      /\ Cardinality(Tried(k)) = Cardinality(Tried(l)) + IF m.k = "ATTEMPT" THEN 1 ELSE 0
      /\ \A ph : /\ Cardinality(AutoIn(l, ph)) \in Nat
                 /\ Cardinality(AutoIn(k, ph)) = Cardinality(AutoIn(l, ph)) +
                       IF m.k = "ATTEMPT" /\ m.phase = ph /\ m.who = "auto" THEN 1 ELSE 0
  BY LinesGrow
<1> HIDE DEF k
<1>2. v \in ViewT /\ v.valid /\ v.kind = l[2].kind /\ v.kind # "" BY DEF ViewOf, RunKinds
<1>3. \A i \in DOMAIN l : i \in DOMAIN k /\ k[i] = l[i] BY <1>1
<1>4. ASSUME NEW u \in ViewT, u.valid = v.valid, u.kind = v.kind, u.attempt = v.attempt, u.m = v.m,
             u.takeover = v.takeover, u.sealed = v.sealed, u.acked => v.acked \/ m.k = "ACK",
             u.sealed => Final(decide(u, in)), m.k = "TAKEOVER" => v.sealed,
             ~v.sealed => m.k # "ATTEMPT"
      PROVE  ViewOf(u, k, in)
  <2>1. \A ph : count(u, ph) = count(v, ph) BY <1>4 DEF count
  <2>2. u.acked => Has(k, "ACK") BY <1>1, <1>4 DEF ViewOf
  <2>3. u.valid /\ u.kind = k[2].kind /\ (u.takeover => u.sealed) /\ (Has(k, "TAKEOVER") => u.sealed)
    BY <1>1, <1>2, <1>4 DEF ViewOf
  <2>4. \A j \in 1 .. Len(u.attempt) : AttemptIn(k, u.attempt[j].phase) /\ phaseFits(u.kind, u.attempt[j].phase, j = 1)
    BY <1>1, <1>4 DEF ViewOf
  <2>5. u.m # NoResult =>
          /\ \E i \in DOMAIN k : k[i].k = u.m.kind /\ k[i].boot = u.m.boot
          /\ \E j \in 1 .. Len(u.attempt) : resultOfPhase(u.m.kind, u.attempt[j].phase)
    BY <1>3, <1>4 DEF ViewOf
  <2>6. ~u.sealed =>
          /\ Len(u.attempt) = Cardinality(Tried(k))
          /\ \A ph \in Phases : Cardinality(AutoIn(k, ph)) <= count(u, ph)
    BY <1>1, <1>4, <2>1 DEF ViewOf
  <2>7. QED BY <1>4, <2>2, <2>3, <2>4, <2>5, <2>6 DEF ViewOf
<1>5. CASE m.k = "ACK"
  <2> DEFINE u == [v EXCEPT !.acked = TRUE]
  <2>1. w = u BY <1>2, <1>5 DEF take
  <2>2. /\ u \in ViewT /\ u.valid = v.valid /\ u.kind = v.kind /\ u.attempt = v.attempt /\ u.m = v.m
        /\ u.takeover = v.takeover /\ u.sealed = v.sealed /\ u.acked
    BY <1>2 DEF ViewT
  <2> HIDE DEF u
  <2>3. decide(u, in).closed
    <3>1. decide(u, in) = [st(u, in, "idle") EXCEPT !.closed = TRUE] BY <1>2, <2>2 DEF decide
    <3>2. QED BY <3>1 DEF st
  <2>4. Final(decide(u, in)) BY <2>3 DEF Final
  <2>5. QED BY <1>4, <1>5, <2>1, <2>2, <2>4 DEF k
<1>6. CASE m.k # "ACK" /\ v.sealed
  <2>1. w = v BY <1>2, <1>6 DEF take
  <2>2. QED BY <1>2, <1>4, <1>6, <2>1 DEF ViewOf, k
<1>7. CASE m.k # "ACK" /\ ~v.sealed
  <2>1. Taken(v, m, w, in) BY <1>2, <1>7, AddTakes DEF take
  <2> HIDE DEF w
  <2>2. ~v.takeover /\ ~Has(l, "TAKEOVER") BY <1>7 DEF ViewOf
  <2>3. CASE m.k = "ATTEMPT"
    <3>1. NextIs(l, m) /\ Len(v.attempt) = Cardinality(Tried(l)) /\ v.attempt \in Seq(AttemptT)
      BY <1>2, <1>7, <2>3 DEF ViewOf, ViewT
    <3>2. w = Attempted(v, m)
      <4>1. take(v, m, in) = IF m.n = Len(v.attempt) + 1 /\ phaseFits(v.kind, m.phase, Len(v.attempt) = 0)
                             THEN [v EXCEPT !.attempt = Append(@, NewAttempt(m))] ELSE v
        BY <1>2, <1>7, <2>3 DEF take, add
      <4>2. QED BY <1>2, <3>1, <4>1 DEF NextIs, Attempted, w
    <3>3. /\ w \in ViewT /\ Len(v.attempt) \in Nat
          /\ Len(w.attempt) = Len(v.attempt) + 1
          /\ w.attempt[Len(v.attempt) + 1].phase = m.phase
          /\ \A j \in 1 .. Len(v.attempt) : w.attempt[j] = v.attempt[j]
          /\ w.valid = v.valid /\ w.kind = v.kind /\ w.m = v.m /\ w.takeover = v.takeover /\ w.acked = v.acked
          /\ w.sealed = v.sealed
          /\ \A ph : count(w, ph) = count(v, ph) + IF m.phase = ph THEN 1 ELSE 0
          /\ \A ph : count(v, ph) \in Nat
      <4>1. m.phase \in Phases /\ NewAttempt(m).phase = m.phase BY <3>1 DEF NextIs, NewAttempt
      <4>2. /\ w \in ViewT /\ Len(v.attempt) \in Nat /\ Len(w.attempt) = Len(v.attempt) + 1
            /\ w.attempt[Len(v.attempt) + 1] = NewAttempt(m)
            /\ \A j \in 1 .. Len(v.attempt) : w.attempt[j] = v.attempt[j]
        BY <1>2, <3>2, <4>1, AttemptTaken, ZenonT(60)
      <4>3. /\ w.valid = v.valid /\ w.kind = v.kind /\ w.m = v.m /\ w.takeover = v.takeover /\ w.acked = v.acked
            /\ w.sealed = v.sealed
        BY <1>2, <3>2, <4>1, AttemptTaken
      <4>4. ASSUME NEW ph PROVE count(w, ph) = count(v, ph) + IF m.phase = ph THEN 1 ELSE 0
        <5>1. count(Attempted(v, m), ph) = count(v, ph) + IF m.phase = ph THEN 1 ELSE 0 BY <1>2, <4>1, AttemptCounts
        <5>2. QED BY <3>2, <5>1
      <4>5. \A ph : count(v, ph) \in Nat BY <1>2, <3>2, <4>1, AttemptCounts
      <4>6. QED BY <4>1, <4>2, <4>3, <4>4, <4>5
    <3>4. \A j \in 1 .. Len(w.attempt) : AttemptIn(k, w.attempt[j].phase) /\ phaseFits(w.kind, w.attempt[j].phase, j = 1)
      <4> TAKE j \in 1 .. Len(w.attempt)
      <4>1. CASE j = Len(v.attempt) + 1
        <5>1. AttemptIn(k, m.phase) BY <1>1, <2>3
        <5>2. (j = 1) = (Cardinality(Tried(l)) = 0) BY <3>1, <3>3, <4>1
        <5>3. phaseFits(w.kind, m.phase, j = 1) BY <1>2, <3>1, <3>3, <5>2 DEF NextIs
        <5>4. QED BY <3>3, <4>1, <5>1, <5>3
      <4>2. CASE j # Len(v.attempt) + 1
        <5>1. j \in 1 .. Len(v.attempt) BY <3>3, <4>2
        <5>2. QED BY <1>1, <3>3, <5>1 DEF ViewOf
      <4>3. QED BY <4>1, <4>2
    <3>5. ASSUME w.m # NoResult
          PROVE  /\ \E i \in DOMAIN k : k[i].k = w.m.kind /\ k[i].boot = w.m.boot
                 /\ \E j \in 1 .. Len(w.attempt) : resultOfPhase(w.m.kind, w.attempt[j].phase)
      <4>1. v.m # NoResult BY <3>3, <3>5
      <4>2. PICK j \in 1 .. Len(v.attempt) : resultOfPhase(v.m.kind, v.attempt[j].phase) BY <4>1 DEF ViewOf
      <4>3. j \in 1 .. Len(w.attempt) /\ w.attempt[j] = v.attempt[j] BY <3>3
      <4>4. \E i \in DOMAIN l : l[i].k = v.m.kind /\ l[i].boot = v.m.boot BY <4>1 DEF ViewOf
      <4>5. QED BY <1>3, <3>3, <4>2, <4>3, <4>4
    <3>6. ASSUME NEW ph \in Phases PROVE Cardinality(AutoIn(k, ph)) <= count(w, ph)
      <4>1. Cardinality(AutoIn(l, ph)) <= count(v, ph) BY <1>7 DEF ViewOf
      <4>2. /\ Cardinality(AutoIn(l, ph)) \in Nat
            /\ Cardinality(AutoIn(k, ph)) = Cardinality(AutoIn(l, ph)) +
                  IF m.k = "ATTEMPT" /\ m.phase = ph /\ m.who = "auto" THEN 1 ELSE 0
        BY <1>1
      <4>3. count(v, ph) \in Nat /\ count(w, ph) = count(v, ph) + IF m.phase = ph THEN 1 ELSE 0 BY <3>3
      <4>4. QED BY <4>1, <4>2, <4>3
    <3>7. Len(w.attempt) = Cardinality(Tried(k)) BY <1>1, <2>3, <3>1, <3>3
    <3>8. (w.acked => Has(k, "ACK")) /\ ~Has(k, "TAKEOVER") BY <1>1, <2>2, <2>3, <3>3 DEF ViewOf
    <3>9. w.valid /\ w.kind = k[2].kind /\ ~w.takeover /\ ~w.sealed BY <1>1, <1>2, <1>7, <2>2, <3>3
    <3>10. QED BY <3>3, <3>4, <3>5, <3>6, <3>7, <3>8, <3>9 DEF ViewOf, w, k
  <2>4. CASE m.k # "ATTEMPT" /\ w = v
    <3>1. m.k # "TAKEOVER"
      <4>1. m.k = "TAKEOVER" => w = [v EXCEPT !.takeover = TRUE, !.sealed = TRUE]
        BY <1>2, <1>7 DEF take, add, w
      <4>2. m.k = "TAKEOVER" => w.sealed BY <1>2, <4>1 DEF ViewT
      <4>3. QED BY <1>7, <2>4, <4>2
    <3>2. QED BY <1>2, <1>4, <1>7, <2>4, <3>1 DEF k, w
  <2>5. CASE m.k = "TAKEOVER" /\ w = [v EXCEPT !.takeover = TRUE, !.sealed = TRUE]
    <3>1. /\ w \in ViewT /\ w.valid = v.valid /\ w.kind = v.kind /\ w.attempt = v.attempt /\ w.m = v.m
          /\ w.takeover /\ w.sealed /\ w.acked = v.acked
      BY <1>2, <2>5 DEF ViewT
    <3>2. Final(decide(w, in))
      <4>1. CASE w.acked
        <5>1. decide(w, in) = [st(w, in, "idle") EXCEPT !.closed = TRUE] BY <1>2, <3>1, <4>1 DEF decide
        <5>2. decide(w, in).closed BY <5>1 DEF st
        <5>3. QED BY <5>2 DEF Final
      <4>2. CASE ~w.acked
        <5>1. decide(w, in) = st(w, in, IF "after" \in in.files THEN "manual_done" ELSE "manual")
          BY <1>2, <3>1, <4>2 DEF decide
        <5>2. \A name : st(w, in, name).name = name BY DEF st
        <5>3. decide(w, in).name \in {"manual", "manual_done"} BY <5>1, <5>2
        <5>4. QED BY <5>3 DEF Final
      <4>3. QED BY <4>1, <4>2
    <3>3. \A j \in 1 .. Len(w.attempt) : AttemptIn(k, w.attempt[j].phase) /\ phaseFits(w.kind, w.attempt[j].phase, j = 1)
      BY <1>1, <3>1 DEF ViewOf
    <3>4. w.m # NoResult =>
            /\ \E i \in DOMAIN k : k[i].k = w.m.kind /\ k[i].boot = w.m.boot
            /\ \E j \in 1 .. Len(w.attempt) : resultOfPhase(w.m.kind, w.attempt[j].phase)
      BY <1>3, <3>1 DEF ViewOf
    <3>5. (w.acked => Has(k, "ACK")) /\ w.valid /\ w.kind = k[2].kind BY <1>1, <1>2, <3>1 DEF ViewOf
    <3>6. QED BY <3>1, <3>2, <3>3, <3>4, <3>5 DEF ViewOf, w, k
  <2>6. CASE m.k # "ATTEMPT" /\ m.k # "TAKEOVER" /\ \E b \in BOOLEAN : w = [v EXCEPT !.requested = b]
    <3>1. /\ w \in ViewT /\ w.valid = v.valid /\ w.kind = v.kind /\ w.attempt = v.attempt /\ w.m = v.m
          /\ w.takeover = v.takeover /\ w.sealed = v.sealed /\ w.acked = v.acked
      BY <1>2, <2>6 DEF ViewT
    <3>2. QED BY <1>4, <1>7, <2>6, <3>1 DEF k, w
  <2>7. ASSUME m.k # "ATTEMPT", m.k # "TAKEOVER", v.attempt # << >>, NEW b \in AttemptT, b.phase = last(v).phase,
               NEW r \in ResultT, r = v.m \/ (m.k = r.kind /\ m.boot = r.boot /\ resultOfPhase(r.kind, b.phase)),
               w \in ViewT, w.attempt = Put(v, b).attempt, w.m = r, w.valid = v.valid, w.kind = v.kind,
               w.takeover = v.takeover, w.acked = v.acked, w.sealed => Final(decide(w, in))
        PROVE  ViewOf(w, k, in)
    <3>0. v.attempt \in Seq(AttemptT) BY <1>2 DEF ViewT
    <3>1. /\ Len(v.attempt) \in Nat \ {0} /\ Len(w.attempt) = Len(v.attempt)
          /\ \A j \in 1 .. Len(v.attempt) : w.attempt[j].phase = v.attempt[j].phase
          /\ w.attempt[Len(v.attempt)] = b
      <4>1. /\ Len(v.attempt) \in Nat \ {0} /\ Len(Put(v, b).attempt) = Len(v.attempt)
            /\ \A j \in 1 .. Len(v.attempt) :
                  Put(v, b).attempt[j] = IF j = Len(v.attempt) THEN b ELSE v.attempt[j]
        BY <1>2, <2>7, PutIs
      <4>2. b.phase = v.attempt[Len(v.attempt)].phase BY <2>7 DEF last
      <4>3. QED BY <2>7, <4>1, <4>2
    <3>2. ASSUME NEW ph PROVE count(w, ph) = count(v, ph)
      <4>1. count(w, ph) = count(Put(v, b), ph) BY <2>7 DEF count
      <4>2. QED BY <1>2, <2>7, <4>1, PutCounts
    <3>3. \A j \in 1 .. Len(w.attempt) : AttemptIn(k, w.attempt[j].phase) /\ phaseFits(w.kind, w.attempt[j].phase, j = 1)
      BY <1>1, <2>7, <3>1 DEF ViewOf
    <3>4. ASSUME w.m # NoResult
          PROVE  /\ \E i \in DOMAIN k : k[i].k = w.m.kind /\ k[i].boot = w.m.boot
                 /\ \E j \in 1 .. Len(w.attempt) : resultOfPhase(w.m.kind, w.attempt[j].phase)
      <4>1. CASE r = v.m
        <5>1. PICK j \in 1 .. Len(v.attempt) : resultOfPhase(v.m.kind, v.attempt[j].phase) BY <2>7, <3>4, <4>1 DEF ViewOf
        <5>2. \E i \in DOMAIN l : l[i].k = v.m.kind /\ l[i].boot = v.m.boot BY <2>7, <3>4, <4>1 DEF ViewOf
        <5>3. QED BY <1>3, <2>7, <3>1, <4>1, <5>1, <5>2
      <4>2. CASE m.k = r.kind /\ m.boot = r.boot /\ resultOfPhase(r.kind, b.phase)
        <5>1. Len(l) + 1 \in DOMAIN k /\ k[Len(l) + 1] = m BY <1>1
        <5>2. Len(v.attempt) \in 1 .. Len(w.attempt) /\ w.attempt[Len(v.attempt)].phase = b.phase BY <3>1
        <5>3. QED BY <2>7, <4>2, <5>1, <5>2
      <4>3. QED BY <2>7, <4>1, <4>2
    <3>5. /\ Len(w.attempt) = Cardinality(Tried(k))
          /\ \A ph \in Phases : Cardinality(AutoIn(k, ph)) <= count(w, ph)
      BY <1>1, <1>7, <2>7, <3>1, <3>2 DEF ViewOf
    <3>6. (w.acked => Has(k, "ACK")) /\ ~Has(k, "TAKEOVER") /\ w.valid /\ w.kind = k[2].kind /\ ~w.takeover
      BY <1>1, <1>2, <2>2, <2>7 DEF ViewOf
    <3>7. QED BY <2>7, <3>3, <3>4, <3>5, <3>6 DEF ViewOf
  <2>8. ASSUME m.k # "ATTEMPT", m.k # "TAKEOVER", v.attempt # << >>, NEW b \in AttemptT, b.phase = last(v).phase,
               \/ m.k # "UNIT_END" /\ w = Put(v, b)
               \/ /\ m.k \in Results /\ resultOfPhase(m.k, b.phase)
                  /\ \E r \in ResultT, ready \in BOOLEAN :
                        /\ r.kind = m.k /\ r.boot = m.boot
                        /\ w = [Put(v, b) EXCEPT !.m = r, !.requested = FALSE, !.rehearsalReady = ready]
               \/ m.k = "UNIT_END" /\ w = [Put(v, b) EXCEPT !.sealed = sealedBy(decide(Put(v, b), in))]
        PROVE  ViewOf(w, k, in)
    <3> DEFINE p == Put(v, b)
    <3>0. /\ p \in ViewT /\ p.valid = v.valid /\ p.kind = v.kind /\ p.m = v.m /\ p.takeover = v.takeover
          /\ p.acked = v.acked /\ p.sealed = v.sealed
      BY <1>2, <2>8, PutIs
    <3> HIDE DEF p
    <3>1. CASE m.k # "UNIT_END" /\ w = p
      <4>1. v.m \in ResultT BY <1>2 DEF ViewT
      <4>2. QED BY <1>7, <2>7, <2>8, <3>0, <3>1, <4>1 DEF p
    <3>2. CASE /\ m.k \in Results /\ resultOfPhase(m.k, b.phase)
               /\ \E r \in ResultT, ready \in BOOLEAN :
                        /\ r.kind = m.k /\ r.boot = m.boot
                        /\ w = [p EXCEPT !.m = r, !.requested = FALSE, !.rehearsalReady = ready]
      <4>1. PICK r \in ResultT, ready \in BOOLEAN :
                /\ r.kind = m.k /\ r.boot = m.boot
                /\ w = [p EXCEPT !.m = r, !.requested = FALSE, !.rehearsalReady = ready]
        BY <3>2
      <4>2. /\ w \in ViewT /\ w.attempt = p.attempt /\ w.m = r /\ w.valid = v.valid /\ w.kind = v.kind
            /\ w.takeover = v.takeover /\ w.acked = v.acked /\ w.sealed = v.sealed
        BY <3>0, <4>1 DEF ViewT
      <4>3. QED BY <1>7, <2>7, <2>8, <3>2, <4>1, <4>2 DEF p
    <3>3. CASE m.k = "UNIT_END" /\ w = [p EXCEPT !.sealed = sealedBy(decide(p, in))]
      <4>1. sealedBy(decide(p, in)) \in BOOLEAN BY DEF sealedBy
      <4>2. /\ w \in ViewT /\ w.attempt = p.attempt /\ w.m = v.m /\ w.valid = v.valid /\ w.kind = v.kind
            /\ w.takeover = v.takeover /\ w.acked = v.acked /\ w.sealed = sealedBy(decide(p, in))
            /\ Alike(p, w)
        BY <3>0, <3>3, <4>1 DEF ViewT, Alike
      <4>3. decide(w, in) = decide(p, in) BY <4>2, SealedUnread
      <4>4. w.sealed => Final(decide(w, in)) BY <4>2, <4>3 DEF Final
      <4>5. v.m \in ResultT BY <1>2 DEF ViewT
      <4>6. QED BY <2>7, <2>8, <4>2, <4>4, <4>5 DEF p
    <3>4. QED BY <2>8, <3>1, <3>2, <3>3 DEF p
  <2>9. QED
    <3>1. ViewOf(w, k, in)
      <4>1. CASE m.k \in {"ATTEMPT", "TAKEOVER"}
        <5>1. m.k = "TAKEOVER" => w = [v EXCEPT !.takeover = TRUE, !.sealed = TRUE] BY <1>2, <1>7 DEF take, add, w
        <5>2. QED BY <2>3, <2>5, <4>1, <5>1 DEF k, w
      <4>2. CASE m.k \notin {"ATTEMPT", "TAKEOVER"}
        BY <2>1, <2>4, <2>6, <2>8, <4>2 DEF Taken, k, w
      <4>3. QED BY <4>1, <4>2
    <3>2. QED BY <3>1 DEF k, w
<1>8. QED BY <1>5, <1>6, <1>7

-----------------------------------------------------------------------------
(* A log that is good stays so.                                               *)

Prefixes(l) == \A k \in 2 .. Len(l) : Good(SubSeq(l, 1, k))

\* A good log takes a line.
LEMMA GoodGrows ==
    ASSUME NEW l, Good(l), NEW m \in LineT, m.k = "ATTEMPT" => NextIs(l, m)
    PROVE  Good(Append(l, m))
<1>1. l \in Seq(LineT) /\ Len(l) >= 2 /\ l[1].k = "QUEUED" /\ l[2].k = "RUN" /\ l[2].kind \in RunKinds BY DEF Good
<1>2. /\ Append(l, m) \in Seq(LineT) /\ Len(l) \in Nat /\ Len(Append(l, m)) = Len(l) + 1
      /\ \A i \in 1 .. Len(l) : Append(l, m)[i] = l[i]
  BY <1>1, LinesGrow
<1>3. Append(l, m)[1] = l[1] /\ Append(l, m)[2] = l[2] BY <1>1, <1>2
<1>4. ASSUME NEW in PROVE ViewOf(scan(Append(l, m), in), Append(l, m), in)
  <2>1. l # << >> BY <1>1
  <2>2. scan(Append(l, m), in) = take(scan(l, in), m, in) BY <1>1, <2>1, ScanAppend
  <2>3. ViewOf(scan(l, in), l, in) BY DEF Good
  <2>4. ViewOf(take(scan(l, in), m, in), Append(l, m), in) BY <1>1, <2>3, ViewGrows
  <2>5. QED BY <2>2, <2>4
<1>5. QED BY <1>1, <1>2, <1>3, <1>4 DEF Good

\* The first k lines.
LEMMA FirstLines ==
    ASSUME NEW l \in Seq(LineT), NEW k \in 0 .. Len(l)
    PROVE  SubSeq(l, 1, k) \in Seq(LineT) /\ Len(SubSeq(l, 1, k)) = k /\ \A i \in 1 .. k : SubSeq(l, 1, k)[i] = l[i]
<1>1. Len(l) \in Nat /\ k \in Int /\ k \in Nat BY LenProperties
<1>2. \A i \in 1 .. k : l[i] \in LineT BY <1>1, ElementOfSeq
<1>3. /\ SubSeq(l, 1, k) \in Seq(LineT) /\ Len(SubSeq(l, 1, k)) = IF 1 <= k THEN k - 1 + 1 ELSE 0
      /\ \A i \in 1 .. k - 1 + 1 : SubSeq(l, 1, k)[i] = l[1 + i - 1]
  BY <1>1, <1>2, SubSeqProperties
<1>4. QED BY <1>1, <1>3

\* The first lines of two logs that begin alike.
LEMMA SameFirstLines ==
    ASSUME NEW l \in Seq(LineT), NEW a \in Seq(LineT), NEW k \in Nat, k <= Len(l), k <= Len(a), \A i \in 1 .. k : a[i] = l[i]
    PROVE  SubSeq(a, 1, k) = SubSeq(l, 1, k)
<1>0. Len(l) \in Nat /\ Len(a) \in Nat BY LenProperties
<1>1. k \in 0 .. Len(l) /\ k \in 0 .. Len(a) BY <1>0
<1>2. /\ SubSeq(l, 1, k) \in Seq(LineT) /\ Len(SubSeq(l, 1, k)) = k /\ \A i \in 1 .. k : SubSeq(l, 1, k)[i] = l[i] BY <1>1, FirstLines
<1>3. /\ SubSeq(a, 1, k) \in Seq(LineT) /\ Len(SubSeq(a, 1, k)) = k /\ \A i \in 1 .. k : SubSeq(a, 1, k)[i] = a[i] BY <1>1, FirstLines
<1>4. QED BY <1>2, <1>3, SeqEqual

\* What is known of every beginning of a log is known of the log, and of the log with a line more.
LEMMA PrefixesGrow ==
    ASSUME NEW l \in Seq(LineT), Len(l) >= 2, Prefixes(l)
    PROVE  /\ Good(l)
           /\ \A m \in LineT : (m.k = "ATTEMPT" => NextIs(l, m)) =>
                 Good(Append(l, m)) /\ Prefixes(Append(l, m))
           /\ \A k \in 2 .. Len(l) : SubSeq(l, 1, k) \in Seq(LineT) /\ Len(SubSeq(l, 1, k)) = k /\ Prefixes(SubSeq(l, 1, k))
<1>0. Len(l) \in Nat /\ Len(l) \in 2 .. Len(l) BY LenProperties
<1>1. SubSeq(l, 1, Len(l)) = l BY <1>0, SubSeqFull
<1>2. Good(l) BY <1>0, <1>1 DEF Prefixes
<1>3. ASSUME NEW m \in LineT, m.k = "ATTEMPT" => NextIs(l, m)
      PROVE  Good(Append(l, m)) /\ Prefixes(Append(l, m))
  <2> DEFINE a == Append(l, m)
  <2>1. Good(a) BY <1>2, <1>3, GoodGrows
  <2>2. a \in Seq(LineT) /\ Len(a) = Len(l) + 1 /\ \A i \in 1 .. Len(l) : a[i] = l[i] BY LinesGrow
  <2> HIDE DEF a
  <2>3. ASSUME NEW k \in 2 .. Len(a) PROVE Good(SubSeq(a, 1, k))
    <3>1. CASE k = Len(a)
      <4>1. SubSeq(a, 1, k) = a BY <2>2, <3>1, SubSeqFull
      <4>2. QED BY <2>1, <4>1
    <3>2. CASE k # Len(a)
      <4>1. k \in 2 .. Len(l) BY <1>0, <2>2, <3>2
      <4>2. k \in Nat /\ k <= Len(l) /\ k <= Len(a) BY <1>0, <2>2, <4>1
      <4>3. \A i \in 1 .. k : a[i] = l[i] BY <1>0, <2>2, <4>1
      <4>4. SubSeq(a, 1, k) = SubSeq(l, 1, k) BY <2>2, <4>2, <4>3, SameFirstLines
      <4>5. QED BY <4>1, <4>4 DEF Prefixes
    <3>3. QED BY <3>1, <3>2
  <2>4. QED BY <2>1, <2>3 DEF Prefixes, a
<1>4. ASSUME NEW k \in 2 .. Len(l)
      PROVE  SubSeq(l, 1, k) \in Seq(LineT) /\ Len(SubSeq(l, 1, k)) = k /\ Prefixes(SubSeq(l, 1, k))
  <2> DEFINE a == SubSeq(l, 1, k)
  <2>1. a \in Seq(LineT) /\ Len(a) = k /\ \A i \in 1 .. k : a[i] = l[i] BY <1>0, FirstLines
  <2> HIDE DEF a
  <2>2. ASSUME NEW j \in 2 .. Len(a) PROVE Good(SubSeq(a, 1, j))
    <3>1. j \in 2 .. Len(l) /\ j \in 2 .. k BY <1>0, <2>1
    <3>2. j \in Nat /\ j <= Len(l) /\ j <= Len(a) BY <1>0, <2>1, <3>1
    <3>3. \A i \in 1 .. j : a[i] = l[i] BY <2>1, <3>1
    <3>4. SubSeq(a, 1, j) = SubSeq(l, 1, j) BY <2>1, <3>2, <3>3, SameFirstLines
    <3>5. QED BY <3>1, <3>4 DEF Prefixes
  <2>3. QED BY <2>1, <2>2 DEF Prefixes, a
<1>5. QED BY <1>2, <1>3, <1>4

\* The first two lines of a run.
LEMMA OpensGood ==
    ASSUME NEW q \in LineT, NEW r \in LineT, q.k = "QUEUED", r.k = "RUN", r.kind \in RunKinds
    PROVE  /\ <<q, r>> \in Seq(LineT) /\ Len(<<q, r>>) = 2 /\ Prefixes(<<q, r>>)
           /\ Tried(<<q, r>>) = {} /\ \A ph : AutoIn(<<q, r>>, ph) = {}
<1> DEFINE l == <<q, r>>
<1>1. l \in Seq(LineT) /\ Len(l) = 2 /\ DOMAIN l = 1 .. 2 /\ l[1] = q /\ l[2] = r OBVIOUS
<1>2. Tried(l) = {} /\ \A ph : AutoIn(l, ph) = {}
  <2>1. \A i \in DOMAIN l : l[i].k # "ATTEMPT" BY <1>1
  <2> HIDE DEF l
  <2>2. QED BY <2>1 DEF Tried, AutoIn
<1>3. ASSUME NEW in PROVE ViewOf(scan(l, in), l, in)
  <2> DEFINE v == OpenView(r.kind)
  <2>1. scan(l, in) = v
    <3>1. l # << >> BY <1>1
    <3> HIDE DEF l
    <3>2. QED BY <1>1, <3>1, ScanOpens
  <2>2. NoResult \in ResultT BY DEF NoResult, ResultT
  <2>3. << >> \in Seq(AttemptT) OBVIOUS
  <2>4. /\ v \in ViewT /\ v.valid /\ v.kind = r.kind /\ v.attempt = << >> /\ v.m = NoResult /\ ~v.acked /\ ~v.takeover /\ ~v.sealed
    BY <2>2, <2>3 DEF EmptyView, ViewT, OpenView
  <2> HIDE DEF v
  <2>5. ~Has(l, "TAKEOVER")
    <3>1. \A i \in DOMAIN l : l[i].k # "TAKEOVER" BY <1>1
    <3> HIDE DEF l
    <3>2. QED BY <3>1 DEF Has
  <2>6. Cardinality(Tried(l)) = 0 /\ \A ph : Cardinality(AutoIn(l, ph)) = 0 BY <1>2, FS_EmptySet
  <2>7. \A ph : count(v, ph) = 0
    <3> TAKE ph
    <3>1. {i \in DOMAIN v.attempt : v.attempt[i].phase = ph} = {} BY <2>4
    <3>2. QED BY <3>1, FS_EmptySet DEF count
  <2>8. Len(v.attempt) = 0 BY <2>4
  <2>9. v.kind = l[2].kind BY <1>1, <2>4
  <2> HIDE DEF l
  <2>10. QED BY <2>1, <2>4, <2>5, <2>6, <2>7, <2>8, <2>9 DEF ViewOf
<1>4. Good(l) BY <1>1, <1>3 DEF Good
<1>5. ASSUME NEW k \in 2 .. Len(l) PROVE Good(SubSeq(l, 1, k))
  <2>1. k = Len(l) BY <1>1
  <2>2. SubSeq(l, 1, k) = l
    <3> HIDE DEF l
    <3>1. QED BY <1>1, <2>1, SubSeqFull
  <2>3. QED BY <1>4, <2>2
<1>6. QED BY <1>1, <1>2, <1>5 DEF Prefixes

-----------------------------------------------------------------------------
(* The states of a run, and what a state says of the log and of the files.    *)

Names == {"idle", "refreshing", "rehearsing", "running", "recovering", "verifying", "unwinding",
          "needs_attention", "interrupted", "failed", "stopped_at_waypoint", "rehearsal_done", "resuming",
          "awaiting_reboot", "rebooting", "reboot_stalled", "succeeded", "succeeded_with_findings",
          "refreshed", "reboot_first", "rehearsed", "manual", "manual_done"}

\* The machine has restarted since the packages were changed, or did not have to.
Restarts(v, in) ==
    \/ v.m.kind = "REBOOT_NOT_NEEDED"
    \/ v.m.kind = "REBOOT_PENDING" /\ v.m.boot # in.boot
    \/ "prereboot" \in in.files /\ (in.bootFile = 0 \/ in.bootFile # in.boot)

\* What is so when a state has this name.
Told(v, in, name) ==
    /\ name \in {"succeeded", "succeeded_with_findings"} =>
          "after" \in in.files /\ in.verify # "none" /\ checkBegan(v)
    /\ name \in {"refreshed", "reboot_first"} => v.m.kind = "REFRESH_DONE"
    /\ name = "rehearsed" => v.m.kind = "REHEARSAL_READY" /\ HasAttempt(v) /\ last(v).phase # "unwind"
    /\ name = "rehearsal_done" => v.kind = "rehearsal"
    /\ name = "resuming" => Restarts(v, in)
    /\ name = "stopped_at_waypoint" => PNR(in.files) \/ (HasAttempt(v) /\ last(v).phase = "verify")
    /\ name = "manual_done" => "after" \in in.files
    /\ name = "idle" => v.acked \/ ~PNR(in.files)
    /\ name \in {"interrupted", "stopped_at_waypoint", "resuming"} => HasAttempt(v)
    /\ name = "failed" => HasAttempt(v) \/ ~PNR(in.files)

Says(v, in, s) ==
    /\ s.name \in Names /\ Told(v, in, s.name)
    /\ s.pnr = PNR(in.files) /\ s.phase = (IF HasAttempt(v) THEN last(v).phase ELSE "")
    /\ s.busy = busyOf(s.name, PNR(in.files))
    /\ s.closed => v.acked /\ v.valid /\ v.kind # "" /\ s.name = "idle"

\* A state that only has the name is one of these.
LEMMA StSays ==
    ASSUME NEW v, NEW in, NEW name \in Names, Told(v, in, name)
    PROVE  /\ Says(v, in, st(v, in, name))
           /\ \A x : /\ Says(v, in, [st(v, in, name) EXCEPT !.reason = x])
                     /\ Says(v, in, [st(v, in, name) EXCEPT !.abortable = x])
                     /\ Says(v, in, [st(v, in, name) EXCEPT !.resumable = x])
                     /\ Says(v, in, [st(v, in, name) EXCEPT !.rebootBlocked = x])
           /\ \A x, y : /\ Says(v, in, [st(v, in, name) EXCEPT !.reason = x, !.resumable = y])
                        /\ Says(v, in, [st(v, in, name) EXCEPT !.reason = x, !.class = y])
                        /\ Says(v, in, [st(v, in, name) EXCEPT !.class = x, !.resumable = y])
           /\ \A x, y, z, t :
                 /\ Says(v, in, [[st(v, in, name) EXCEPT !.class = x, !.resumable = y] EXCEPT !.reason = z])
                 /\ Says(v, in, [[st(v, in, name) EXCEPT !.class = x, !.resumable = y] EXCEPT !.reason = z, !.resumable = t])
                 /\ Says(v, in, [[st(v, in, name) EXCEPT !.resumable = x] EXCEPT !.class = y, !.resumable = z])
  BY DEF Says, st

\* So is the call for the owner.
LEMMA AttentionSays ==
    ASSUME NEW v, NEW in, NEW reason
    PROVE  Says(v, in, attention(v, in, reason))
<1>1. "needs_attention" \in Names /\ Told(v, in, "needs_attention") BY DEF Names, Told
<1>2. QED BY <1>1, StSays DEF attention

\* Every state of a run says what is so.
LEMMA DecideSays ==
    ASSUME NEW v, NEW in, HasAttempt(v) => last(v).phase \in Phase
    PROVE  Says(v, in, decide(v, in))
<1>1. /\ \A name \in {"refreshing", "rehearsing", "running", "recovering", "verifying", "unwinding",
                      "awaiting_reboot", "rebooting", "reboot_stalled", "manual"} :
            name \in Names /\ Told(v, in, name)
      /\ HasAttempt(v) => \A name \in {"interrupted", "failed"} : name \in Names /\ Told(v, in, name)
  BY DEF Names, Told
<1>2. HasAttempt(v) => interrupted(v, in) = attention(v, in, "unwind_partial") \/ Says(v, in, interrupted(v, in))
  <2> SUFFICES ASSUME HasAttempt(v) PROVE interrupted(v, in) = attention(v, in, "unwind_partial") \/ Says(v, in, interrupted(v, in))
    OBVIOUS
  <2>1. "interrupted" \in Names /\ Told(v, in, "interrupted") BY <1>1
  <2>2. QED BY <2>1, StSays DEF interrupted
<1>3. HasAttempt(v) => Says(v, in, interrupted(v, in)) BY <1>2, AttentionSays
<1>4. ASSUME HasAttempt(v) PROVE Says(v, in, notStarted(v, in))
  <2>1. "failed" \in Names /\ Told(v, in, "failed") BY <1>1, <1>4
  <2>2. QED BY <1>3, <1>4, <2>1, StSays DEF notStarted
<1>5. ASSUME HasAttempt(v) PROVE Says(v, in, stoppedBefore(v, in))
  <2>1. "failed" \in Names /\ Told(v, in, "failed") BY <1>1, <1>5
  <2>2. Says(v, in, attention(v, in, "unwind_partial")) BY AttentionSays
  <2>3. QED BY <1>3, <1>5, <2>1, <2>2, StSays DEF stoppedBefore
<1>6. ASSUME HasAttempt(v), PNR(in.files) \/ last(v).phase = "verify" PROVE Says(v, in, stoppedAfter(v, in))
  <2>1. "failed" \in Names /\ Told(v, in, "failed") BY <1>1, <1>6
  <2>2. "stopped_at_waypoint" \in Names /\ Told(v, in, "stopped_at_waypoint") BY <1>6 DEF Names, Told
  <2>3. QED BY <2>1, <2>2, StSays, ZenonT(60) DEF stoppedAfter
<1>7. ASSUME HasAttempt(v) PROVE Says(v, in, unwoundOK(v, in))
  <2>1. "failed" \in Names /\ Told(v, in, "failed") BY <1>1, <1>7
  <2>2. v.kind = "rehearsal" => "rehearsal_done" \in Names /\ Told(v, in, "rehearsal_done") BY DEF Names, Told
  <2>3. QED BY <2>1, <2>2, StSays DEF unwoundOK
<1>8. ASSUME HasAttempt(v), NEW r, r = result(v, in), r.kind = "REBOOT_PENDING" PROVE Says(v, in, waiting(v, in, r))
  <2>1. r.boot # 0 /\ r.boot # in.boot /\ in.boot # 0 => Restarts(v, in) BY <1>8 DEF result, Restarts, NoResult
  <2>2. Restarts(v, in) => "resuming" \in Names /\ Told(v, in, "resuming") BY <1>8 DEF Names, Told
  <2>3. /\ "awaiting_reboot" \in Names /\ Told(v, in, "awaiting_reboot") /\ "rebooting" \in Names /\ Told(v, in, "rebooting")
        /\ "reboot_stalled" \in Names /\ Told(v, in, "reboot_stalled")
    BY <1>1
  <2>4. QED BY <2>1, <2>2, <2>3, StSays DEF waiting
<1>9. ASSUME HasAttempt(v), "after" \in in.files, checkBegan(v) PROVE Says(v, in, verdict(v, in))
  <2>1. "failed" \in Names /\ Told(v, in, "failed") /\ "verifying" \in Names /\ Told(v, in, "verifying") BY <1>1, <1>9
  <2>2. in.verify # "none" => /\ "succeeded" \in Names /\ Told(v, in, "succeeded")
                              /\ "succeeded_with_findings" \in Names /\ Told(v, in, "succeeded_with_findings")
    BY <1>9 DEF Names, Told
  <2>3. QED BY <2>1, <2>2, StSays DEF verdict
<1>10. ASSUME NEW r, r = result(v, in), HasAttempt(v), last(v).phase # "unwind"
       PROVE  Says(v, in, byResult(v, in, r))
  <2>1. CASE r = NoResult
    <3>1. byResult(v, in, r) = IF last(v).phase = "verify" THEN interrupted(v, in) ELSE attention(v, in, "run_damaged")
      BY <2>1 DEF byResult, NoResult
    <3>2. QED BY <1>3, <1>10, <3>1, AttentionSays
  <2>2. CASE r # NoResult /\ r.kind = "REFRESH_DONE"
    <3>1. v.m.kind = "REFRESH_DONE" BY <1>10, <2>2 DEF result, NoResult
    <3>2. \A name \in {"refreshed", "reboot_first"} : name \in Names /\ Told(v, in, name) BY <3>1 DEF Names, Told
    <3>3. QED BY <2>2, <3>2, StSays DEF byResult
  <2>3. CASE r # NoResult /\ r.kind = "REHEARSAL_READY"
    <3>1. v.m.kind = "REHEARSAL_READY" BY <1>10, <2>3 DEF result, NoResult
    <3>2. "rehearsed" \in Names /\ Told(v, in, "rehearsed") BY <1>10, <3>1 DEF Names, Told
    <3>3. QED BY <2>3, <3>2, StSays DEF byResult
  <2>4. CASE r # NoResult /\ r.kind = "REBOOT_PENDING" BY <1>8, <1>10, <2>4 DEF byResult
  <2>5. CASE r # NoResult /\ r.kind = "REBOOT_NOT_NEEDED"
    <3>1. Restarts(v, in) BY <1>10, <2>5 DEF result, NoResult, Restarts
    <3>2. "resuming" \in Names /\ Told(v, in, "resuming") BY <1>10, <3>1 DEF Names, Told
    <3>3. QED BY <2>5, <3>2, StSays DEF byResult
  <2>6. CASE r # NoResult /\ r.kind \notin {"REFRESH_DONE", "REHEARSAL_READY", "REBOOT_PENDING", "REBOOT_NOT_NEEDED"}
    <3>1. "after" \in in.files => checkBegan(v) BY <1>10, <2>6 DEF result
    <3>2. byResult(v, in, r) = IF "after" \notin in.files THEN attention(v, in, "run_damaged") ELSE verdict(v, in)
      BY <2>6 DEF byResult
    <3>3. QED BY <1>9, <1>10, <3>1, <3>2, AttentionSays
  <2>7. QED BY <2>1, <2>2, <2>3, <2>4, <2>5, <2>6
<1>11. ASSUME HasAttempt(v) PROVE Says(v, in, unwound(v, in))
  <2>1. Says(v, in, attention(v, in, "unwind_partial")) BY AttentionSays
  <2>2. QED BY <1>3, <1>6, <1>7, <1>11, <2>1 DEF unwound
<1>12. ASSUME HasAttempt(v) PROVE Says(v, in, settled(v, in))
  <2>1. last(v).phase # "unwind" => Says(v, in, byResult(v, in, result(v, in))) BY <1>10, <1>12
  <2>2. canFinishFromFiles(v, in) => last(v).phase # "unwind" BY DEF canFinishFromFiles
  <2>3. QED BY <1>3, <1>4, <1>5, <1>6, <1>11, <1>12, <2>1, <2>2 DEF settled
<1>13. ASSUME HasAttempt(v) PROVE Says(v, in, running(v, in))
  <2>1. \A name \in {"refreshing", "rehearsing", "running", "recovering", "verifying", "unwinding"} :
           name \in Names /\ Told(v, in, name)
    BY <1>1
  <2>2. \A name \in {"refreshing", "rehearsing", "running", "recovering", "verifying", "unwinding"} :
           \A x : Says(v, in, [st(v, in, name) EXCEPT !.abortable = x])
    BY <2>1, StSays
  <2>3. QED BY <2>2 DEF running
<1>14. ASSUME HasAttempt(v) PROVE Says(v, in, live(v, in))
  <2>1. last(v).phase # "unwind" => Says(v, in, byResult(v, in, result(v, in))) BY <1>10, <1>14
  <2>2. Says(v, in, attention(v, in, "systemd_silent")) BY AttentionSays
  <2>3. QED BY <1>13, <1>14, <2>1, <2>2 DEF live
<1>15. ASSUME HasAttempt(v) PROVE Says(v, in, placed(v, in))
  <2>1. Says(v, in, attention(v, in, "systemd_silent")) BY AttentionSays
  <2>2. QED BY <1>12, <1>14, <1>15, <2>1 DEF placed, heard
<1>16. ~PNR(in.files) \/ v.acked => "idle" \in Names /\ Told(v, in, "idle") BY DEF Names, Told
<1>17. Says(v, in, attention(v, in, "run_damaged")) BY AttentionSays
<1>18. Says(v, in, Unplaced(v, in))
  BY <1>16, <1>17, StSays DEF Unplaced
<1>19. Says(v, in, noAttempt(v, in))
  <2>1. ~PNR(in.files) => "failed" \in Names /\ Told(v, in, "failed") BY DEF Names, Told
  <2>2. QED BY <1>16, <1>17, <2>1, StSays DEF noAttempt
<1>20. v.acked /\ v.valid /\ v.kind # "" => Says(v, in, [st(v, in, "idle") EXCEPT !.closed = TRUE])
  BY <1>16 DEF Says, st
<1>21. Says(v, in, st(v, in, IF "after" \in in.files THEN "manual_done" ELSE "manual"))
  <2>1. "manual" \in Names /\ Told(v, in, "manual") BY <1>1
  <2>2. "after" \in in.files => "manual_done" \in Names /\ Told(v, in, "manual_done") BY DEF Names, Told
  <2>3. QED BY <2>1, <2>2, StSays
<1>22. QED BY <1>15, <1>17, <1>18, <1>19, <1>20, <1>21 DEF decide

-----------------------------------------------------------------------------
(* What the states of a view lead to.                                         *)

\* The attempts of a view and its latest result are of its kind.
LEMMA ViewKinds ==
    ASSUME NEW v, NEW l, NEW in, ViewOf(v, l, in)
    PROVE  /\ HasAttempt(v) => /\ Len(v.attempt) \in Nat \ {0} /\ Len(v.attempt) \in 1 .. Len(v.attempt)
                               /\ last(v) \in AttemptT /\ last(v).phase \in Phase
                               /\ phaseFits(v.kind, last(v).phase, Len(v.attempt) = 1) /\ AttemptIn(l, last(v).phase)
           /\ v.kind = "hop" => v.m.kind \notin {"REFRESH_DONE", "REHEARSAL_READY"}
           /\ v.m.kind = "REHEARSAL_READY" => v.kind = "rehearsal"
           /\ v.m.kind # "" => \E i \in DOMAIN l : l[i].k = v.m.kind /\ l[i].boot = v.m.boot
<1>1. v \in ViewT /\ v.attempt \in Seq(AttemptT) BY DEF ViewOf, ViewT
<1>2. v.m.kind # "" =>
        /\ \E i \in DOMAIN l : l[i].k = v.m.kind /\ l[i].boot = v.m.boot
        /\ \E j \in 1 .. Len(v.attempt) : resultOfPhase(v.m.kind, v.attempt[j].phase)
  <2>1. NoResult.kind = "" BY DEF NoResult
  <2>2. QED BY <2>1 DEF ViewOf
<1>3. \A j \in 1 .. Len(v.attempt) : AttemptIn(l, v.attempt[j].phase) /\ phaseFits(v.kind, v.attempt[j].phase, j = 1) BY DEF ViewOf
<1>4. ASSUME HasAttempt(v)
      PROVE  /\ Len(v.attempt) \in Nat \ {0} /\ Len(v.attempt) \in 1 .. Len(v.attempt)
             /\ last(v) \in AttemptT /\ last(v).phase \in Phase
             /\ phaseFits(v.kind, last(v).phase, Len(v.attempt) = 1) /\ AttemptIn(l, last(v).phase)
  <2>1. Len(v.attempt) \in Nat \ {0} /\ Len(v.attempt) \in 1 .. Len(v.attempt) BY <1>1, <1>4, EmptySeq, LenProperties DEF HasAttempt
  <2>2. last(v) \in AttemptT BY <1>1, <2>1, ElementOfSeq DEF last
  <2>3. last(v).phase \in Phase BY <2>2 DEF AttemptT
  <2>4. QED BY <1>3, <2>1, <2>2, <2>3 DEF last
<1>5. v.kind = "hop" => v.m.kind \notin {"REFRESH_DONE", "REHEARSAL_READY"}
  BY <1>2, <1>3 DEF resultOfPhase, phaseFits
<1>6. v.m.kind = "REHEARSAL_READY" => v.kind = "rehearsal"
  BY <1>2, <1>3 DEF resultOfPhase, phaseFits
<1>7. QED BY <1>2, <1>4, <1>5, <1>6

\* Half changed, a machine is to be left alone in every state of the hop that is not closed.
LEMMA HalfIsBusy ==
    ASSUME NEW v, NEW l, NEW in, ViewOf(v, l, in), v.kind = "hop", ~v.acked,
           PNR(in.files), "after" \notin in.files
    PROVE  decide(v, in).busy
<1>1. /\ HasAttempt(v) => last(v).phase \in Phase
      /\ v.m.kind \notin {"REFRESH_DONE", "REHEARSAL_READY"}
  BY ViewKinds
<1> DEFINE s == decide(v, in)
<1>2. Says(v, in, s) BY <1>1, DecideSays
<1> HIDE DEF s
<1>3. s.name \notin {"idle", "refreshed", "rehearsal_done", "succeeded", "succeeded_with_findings", "manual_done"}
  BY <1>1, <1>2 DEF Says, Told
<1>4. QED BY <1>2, <1>3 DEF Says, busyOf, s

\* An attempt whose unit is on its way or at work, in its time, is what the state says, or a
\* systemd that has been silent for long.
LEMMA FlyingIsLive ==
    ASSUME NEW v, NEW l, NEW in, ViewOf(v, l, in), ~v.acked, ~v.takeover, ~in.damaged,
           NEW n, NEW ph, Flying(v, n, ph), ph # "verify",
           last(v).started => "grace" \notin in.past,
           ~last(v).started => "startLost" \notin in.past /\ "startLostSilent" \notin in.past
    PROVE  /\ \/ decide(v, in).name \in LiveStates
              \/ decide(v, in).name = "needs_attention" /\ decide(v, in).reason = "systemd_silent" /\ ~in.answered
           /\ decide(v, in).busy /\ ~decide(v, in).closed
<1>1. HasAttempt(v) /\ v.valid /\ v.kind # ""
  <2>1. HasAttempt(v) /\ v.valid BY DEF Flying, HasAttempt, ViewOf
  <2>2. phaseFits(v.kind, last(v).phase, Len(v.attempt) = 1) BY <2>1, ViewKinds
  <2>3. QED BY <2>1, <2>2 DEF phaseFits
<1>2. decide(v, in) = placed(v, in) BY <1>1 DEF decide
<1>3. ~NotLive(v, in)
  BY <1>1 DEF NotLive, Flying, inFlight, active, startLost, spokeLately
<1>4. placed(v, in) = live(v, in) BY <1>3 DEF placed
<1>5. (live(v, in) = attention(v, in, "systemd_silent") /\ ~in.answered) \/ live(v, in) = running(v, in)
  BY DEF live, Flying, systemdSilent
<1>6. CASE live(v, in) = attention(v, in, "systemd_silent") /\ ~in.answered
  <2>1. /\ attention(v, in, "systemd_silent").name = "needs_attention" /\ attention(v, in, "systemd_silent").reason = "systemd_silent"
        /\ attention(v, in, "systemd_silent").busy /\ ~attention(v, in, "systemd_silent").closed
    BY DEF attention, st, busyOf
  <2>2. QED BY <1>2, <1>4, <1>6, <2>1
<1>7. CASE live(v, in) = running(v, in)
  <2>1. running(v, in).name \in LiveStates /\ running(v, in).busy /\ ~running(v, in).closed
    BY DEF running, st, busyOf, LiveStates
  <2>2. QED BY <1>2, <1>4, <1>7, <2>1
<1>8. QED BY <1>5, <1>6, <1>7

\* What the core does next of a state: nothing of a run that is decided; what it undoes is
\* before the point of no return; what it checks has restarted or was being checked; each within
\* its number of tries.
ActKinds == {"none", "alert", "cleanup", "unwind", "launch_verify", "launch_recover", "judge", "remind", "barrier",
             "start", "resume"}
Launches == {"unwind", "launch_verify", "launch_recover"}
\* What the reducer says is next (reduce.go, NextAction): a launch is of a run that is open, asked
\* of a systemd that answers and has no unit, and within the number of tries that the log counts.
LEMMA ActsWithin ==
    ASSUME NEW v, NEW l, NEW in, ViewOf(v, l, in), NEW a, a = NextAction(v, in, decide(v, in)),
           MaxUnwindAttempts \in Nat \ {0}
    PROVE  /\ a \in [kind : ActKinds, phase : {"", "unwind", "verify", "recover"}]
           /\ a.kind \in Launches => a.phase # ""
           /\ a.phase # "" => HasAttempt(v) /\ ~v.sealed /\ ~v.acked /\ ~v.takeover /\ in.answered /\ ~in.active /\ ~in.damaged
           /\ a.phase = "unwind" => ~PNR(in.files) /\ ~(count(v, "unwind") >= MaxUnwindAttempts)
           /\ a.phase = "verify" => /\ ~(count(v, "verify") >= MaxVerifyAttempts)
                                    /\ (AttemptIn(l, "verify") \/ Restarts(v, in))
           /\ a.phase = "recover" => AutoRecoverTries # 0
<1> DEFINE s == decide(v, in)
           p == nextAction(v, in, s)
           relaunch == /\ canLaunch(v, in) /\ ~(count(v, "verify") >= MaxVerifyAttempts)
           repair == canLaunch(v, in) /\ AutoRecoverTries # 0
           nothing(x) == x \in [kind : ActKinds \ Launches, phase : {""}]
<1>1. nothing(DoNone) /\ \A k \in {"alert", "cleanup", "judge", "remind", "barrier"} : nothing(Do(k, ""))
  BY DEF DoNone, Do, ActKinds, Launches
<1>2. nothing(relaunchVerify(v, in)) \/ (relaunchVerify(v, in) = Do("launch_verify", "verify") /\ relaunch)
  BY <1>1 DEF relaunchVerify
<1>3. nothing(afterStop(v, in, s)) \/ (afterStop(v, in, s) = Do("launch_recover", "recover") /\ repair)
  <2>1. autoTries(v) \in Nat
    <3> DEFINE repairs == {i \in DOMAIN v.attempt : v.attempt[i].phase = "recover"}
               fromOwner == {i \in repairs : v.attempt[i].who = "owner"}
               S == {i \in repairs \ fromOwner : \A j \in fromOwner : j < i}
    <3>1. v.attempt \in Seq(AttemptT) BY DEF ViewOf, ViewT
    <3>2. Len(v.attempt) \in Nat /\ DOMAIN v.attempt = 1 .. Len(v.attempt) BY <3>1, LenProperties
    <3>3. S \in SUBSET (1 .. Len(v.attempt)) BY <3>2
    <3>4. autoTries(v) = Cardinality(S) BY DEF autoTries
    <3> HIDE DEF S
    <3>5. QED BY <3>2, <3>3, <3>4, OneMore
  <2>2. autoTries(v) < AutoRecoverTries => AutoRecoverTries # 0 BY <2>1
  <2>9. QED BY <1>1, <2>2 DEF afterStop
<1>4. /\ s.pnr = PNR(in.files) /\ Told(v, in, s.name)
      /\ s.closed => v.valid /\ v.kind # "" /\ s.name = "idle"
  <2>1. HasAttempt(v) => last(v).phase \in Phase BY ViewKinds
  <2>2. Says(v, in, s) BY <2>1, DecideSays
  <2> HIDE DEF s
  <2>3. QED BY <2>2 DEF Says
<1>5. v.acked /\ v.valid /\ v.kind # "" => s.closed BY DEF decide, st
<1>6. v.sealed => Final(s) BY DEF ViewOf
<1>7. v.takeover => v.sealed BY DEF ViewOf
<1>8. HasAttempt(v) /\ last(v).phase = "verify" => AttemptIn(l, "verify") BY ViewKinds
<1>9. s.name = "rehearsed" => count(v, "unwind") = 0
  <2> SUFFICES ASSUME s.name = "rehearsed" PROVE count(v, "unwind") = 0 OBVIOUS
  <2>1. v.m.kind = "REHEARSAL_READY" /\ HasAttempt(v) /\ last(v).phase # "unwind" BY <1>4 DEF Told
  <2>2. v.kind = "rehearsal" /\ phaseFits(v.kind, last(v).phase, Len(v.attempt) = 1) BY <2>1, ViewKinds
  <2>3. Len(v.attempt) = 1 BY <2>1, <2>2 DEF phaseFits
  <2>4. v.attempt \in Seq(AttemptT) BY DEF ViewOf, ViewT
  <2>5. DOMAIN v.attempt = 1 .. 1 BY <2>3, <2>4, LenProperties
  <2>6. v.attempt[1].phase # "unwind" BY <2>1, <2>3 DEF last
  <2>7. {i \in DOMAIN v.attempt : v.attempt[i].phase = "unwind"} = {} BY <2>5, <2>6
  <2>8. QED BY <2>7, FS_EmptySet DEF count
<1> DEFINE begins == s.name \in {"interrupted", "rehearsed", "resuming", "stopped_at_waypoint"} \/ (s.name = "failed" /\ s.pnr)
<1> HIDE DEF s, relaunch, repair, nothing
<1>10. ASSUME HasAttempt(v)
       PROVE  \/ nothing(afterInterruption(v, in, s))
              \/ afterInterruption(v, in, s) = Do("launch_verify", "verify") /\ relaunch /\ last(v).phase = "verify"
              \/ afterInterruption(v, in, s) = Do("launch_recover", "recover") /\ repair
              \/ /\ afterInterruption(v, in, s) = Do("unwind", "unwind") /\ canLaunch(v, in)
                 /\ ~(count(v, "unwind") >= MaxUnwindAttempts)
  BY <1>1, <1>2, <1>3, <1>10 DEF afterInterruption
<1>11. \/ nothing(p)
       \/ begins /\ ~s.closed /\ v.valid /\ v.kind # "" /\ p = Do("launch_verify", "verify") /\ relaunch
          /\ (s.name = "resuming" \/ AttemptIn(l, "verify"))
       \/ begins /\ ~s.closed /\ v.valid /\ v.kind # "" /\ p = Do("launch_recover", "recover") /\ repair
       \/ begins /\ ~s.closed /\ v.valid /\ v.kind # "" /\ p = Do("unwind", "unwind") /\ canLaunch(v, in)
          /\ ~(count(v, "unwind") >= MaxUnwindAttempts)
  <2>1. CASE ~v.valid \/ v.kind = ""
    <3>1. s.name \in {"idle", "needs_attention"} BY <2>1 DEF s, decide, Unplaced, attention, st
    <3>2. p = DoNone BY <1>4, <2>1, <3>1 DEF nextAction
    <3>3. QED BY <1>1, <3>2
  <2>2. CASE v.valid /\ v.kind # "" /\ s.closed
    <3>1. p = Do("cleanup", "") BY <1>4, <2>2 DEF nextAction
    <3>2. QED BY <1>1, <3>1
  <2>3. CASE v.valid /\ v.kind # "" /\ ~s.closed /\ s.name = "interrupted"
    <3>1. p = afterInterruption(v, in, s) BY <2>3 DEF nextAction
    <3>2. ~HasAttempt(v) => p = DoNone BY <3>1 DEF afterInterruption
    <3>3. QED BY <1>1, <1>8, <1>10, <2>3, <3>1, <3>2
  <2>4. CASE v.valid /\ v.kind # "" /\ ~s.closed /\ s.name = "rehearsed"
    <3>1. ~(0 >= MaxUnwindAttempts) OBVIOUS
    <3>2. QED BY <1>1, <1>9, <2>4, <3>1 DEF nextAction
  <2>5. CASE v.valid /\ v.kind # "" /\ ~s.closed /\ s.name = "resuming"
    <3>1. p = relaunchVerify(v, in) \/ p = DoNone BY <2>5 DEF nextAction
    <3>2. QED BY <1>1, <1>2, <2>5, <3>1
  <2>6. CASE v.valid /\ v.kind # "" /\ ~s.closed /\ s.name = "failed" /\ s.pnr /\ s.reason = "start"
    <3>1. (HasAttempt(v) /\ last(v).phase = "verify" /\ p = relaunchVerify(v, in)) \/ p = afterStop(v, in, s) BY <2>6 DEF nextAction
    <3>2. QED BY <1>2, <1>3, <1>8, <2>6, <3>1
  <2>7. CASE v.valid /\ v.kind # "" /\ ~s.closed /\ s.name = "stopped_at_waypoint"
    <3>1. p = afterStop(v, in, s) BY <2>7 DEF nextAction
    <3>2. QED BY <1>3, <2>7, <3>1
  <2>8. CASE /\ v.valid /\ v.kind # "" /\ ~s.closed
             /\ s.name \notin {"interrupted", "rehearsed", "resuming", "stopped_at_waypoint"}
             /\ ~(s.name = "failed" /\ s.pnr /\ s.reason = "start")
    BY <1>1, <2>8 DEF nextAction
  <2>9. QED BY <2>1, <2>2, <2>3, <2>4, <2>5, <2>6, <2>7, <2>8
<1>12. begins /\ ~s.closed /\ v.valid /\ v.kind # "" => HasAttempt(v) /\ ~v.sealed /\ ~v.acked /\ ~v.takeover /\ ~in.damaged
  <2>1. begins => HasAttempt(v) BY <1>4 DEF Told
  <2>2. begins /\ ~s.closed /\ v.valid /\ v.kind # "" => HasAttempt(v) /\ ~v.sealed /\ ~v.acked /\ ~v.takeover
    BY <1>4, <1>5, <1>6, <1>7, <2>1 DEF Final, sealedBy
  <2>3. v.valid /\ v.kind # "" /\ ~v.acked /\ ~v.takeover /\ in.damaged => s.name = "needs_attention"
    BY DEF s, decide, attention, st
  <2>4. QED BY <2>2, <2>3
<1>13. a = p \/ a = DoNone BY DEF NextAction, s
<1>14. a.phase = "unwind" => ~PNR(in.files)
  <2>1. p = Do("unwind", "unwind") /\ PNR(in.files) => a = DoNone BY DEF NextAction, s, Do
  <2>2. nothing(p) => p.phase # "unwind" BY DEF nothing
  <2>3. p \in {Do("launch_verify", "verify"), Do("launch_recover", "recover")} => p.phase # "unwind" BY DEF Do
  <2>4. DoNone.phase # "unwind" BY DEF DoNone, Do
  <2> HIDE DEF p
  <2>5. QED BY <1>11, <1>13, <2>1, <2>2, <2>3, <2>4
<1>15. canLaunch(v, in) => in.answered /\ ~in.active BY DEF canLaunch
<1>16. s.name = "resuming" => Restarts(v, in) BY <1>4 DEF Told
<1> HIDE DEF p, begins
<1>17. CASE nothing(a) BY <1>17 DEF nothing
<1>18. CASE a = p /\ ~nothing(p)
  <2>1. /\ Do("launch_verify", "verify") = [kind |-> "launch_verify", phase |-> "verify"]
        /\ Do("launch_recover", "recover") = [kind |-> "launch_recover", phase |-> "recover"]
        /\ Do("unwind", "unwind") = [kind |-> "unwind", phase |-> "unwind"]
    BY DEF Do
  <2>2. a.phase # "" => HasAttempt(v) /\ ~v.sealed /\ ~v.acked /\ ~v.takeover /\ canLaunch(v, in) /\ ~in.damaged
    BY <1>11, <1>12, <1>18 DEF relaunch, repair
  <2>3. CASE a = Do("launch_verify", "verify")
    <3>1. a.kind = "launch_verify" /\ a.phase = "verify" /\ a \in [kind : ActKinds, phase : {"", "unwind", "verify", "recover"}]
      <4>1. a = [kind |-> "launch_verify", phase |-> "verify"] BY <2>1, <2>3
      <4>2. "launch_verify" \in ActKinds BY DEF ActKinds
      <4>3. QED BY <4>1, <4>2
    <3>2. p # Do("launch_recover", "recover") /\ p # Do("unwind", "unwind") BY <1>18, <2>1, <2>3
    <3>3. QED BY <1>11, <1>15, <1>16, <1>18, <2>2, <3>1, <3>2 DEF relaunch
  <2>4. CASE a = Do("launch_recover", "recover")
    <3>1. a.kind = "launch_recover" /\ a.phase = "recover" /\ a \in [kind : ActKinds, phase : {"", "unwind", "verify", "recover"}]
      <4>1. a = [kind |-> "launch_recover", phase |-> "recover"] BY <2>1, <2>4
      <4>2. "launch_recover" \in ActKinds BY DEF ActKinds
      <4>3. QED BY <4>1, <4>2
    <3>2. p # Do("launch_verify", "verify") /\ p # Do("unwind", "unwind") BY <1>18, <2>1, <2>4
    <3>3. QED BY <1>11, <1>15, <1>18, <2>2, <3>1, <3>2 DEF repair
  <2>5. CASE a = Do("unwind", "unwind")
    <3>1. a.kind = "unwind" /\ a.phase = "unwind" /\ a \in [kind : ActKinds, phase : {"", "unwind", "verify", "recover"}]
      <4>1. a = [kind |-> "unwind", phase |-> "unwind"] BY <2>1, <2>5
      <4>2. "unwind" \in ActKinds BY DEF ActKinds
      <4>3. QED BY <4>1, <4>2
    <3>2. p # Do("launch_verify", "verify") /\ p # Do("launch_recover", "recover") BY <1>18, <2>1, <2>5
    <3>3. QED BY <1>11, <1>14, <1>15, <1>18, <2>2, <3>1, <3>2
  <2>6. QED BY <1>11, <1>18, <2>3, <2>4, <2>5
<1>19. QED BY <1>1, <1>13, <1>17, <1>18

\* The owner's buttons: what goes on or is taken over is not at work, what goes on is being
\* checked or is past the point of no return, and what is dropped is a rehearsal.
LEMMA ButtonsFor ==
    ASSUME NEW v, NEW l, NEW in, ViewOf(v, l, in), NEW s, s = decide(v, in)
    PROVE  /\ "resume" \in ActionsFor(s) /\ ~Judged(s) =>
                 /\ s.name \in {"failed", "interrupted", "stopped_at_waypoint"}
                 /\ s.phase = "verify" => AttemptIn(l, "verify")
                 /\ s.phase # "verify" => PNR(in.files)
           /\ "takeover" \in ActionsFor(s) =>
                 /\ s.name \notin LiveStates /\ ~(s.name = "needs_attention" /\ s.reason = "systemd_silent")
           /\ s.name = "rehearsed" => v.kind = "rehearsal"
<1>1. HasAttempt(v) => last(v).phase \in Phase /\ AttemptIn(l, last(v).phase) BY ViewKinds
<1>2. Says(v, in, s) BY <1>1, DecideSays
<1>3. s.pnr = PNR(in.files) /\ Told(v, in, s.name) /\ s.phase = (IF HasAttempt(v) THEN last(v).phase ELSE "") BY <1>2 DEF Says
<1>4. "resume" \in ActionsFor(s) /\ ~Judged(s) =>
         \/ s.name = "failed" /\ s.pnr
         \/ s.name \in {"interrupted", "stopped_at_waypoint"} /\ (s.name = "stopped_at_waypoint" \/ s.pnr)
  BY DEF ActionsFor, Judged
<1>5. "takeover" \in ActionsFor(s) =>
         s.name \notin LiveStates /\ ~(s.name = "needs_attention" /\ s.reason = "systemd_silent")
  BY DEF ActionsFor, LiveStates
<1>6. s.phase = "verify" => AttemptIn(l, "verify") BY <1>1, <1>3
<1>7. s.name = "stopped_at_waypoint" /\ s.phase # "verify" => PNR(in.files) BY <1>3 DEF Told
<1>8. s.name = "rehearsed" => v.kind = "rehearsal" BY <1>3, ViewKinds DEF Told
<1>9. QED BY <1>3, <1>4, <1>5, <1>6, <1>7, <1>8

-----------------------------------------------------------------------------
(* The types of the state.                                                    *)

UnitPCs == {"", "check", "next", "read", "begin", "exec", "stop", "undo", "undone", "putaway", "end"}
UnitT == [st : {"none", "queued", "alive"}, n : Nat, phase : Phase, pc : UnitPCs,
          idx : Nat, list : Seq(BlockIDs), class : Classes \cup {""},
          res : {"", "fresh", "again", "ok", "partial"}]
AnswerT == [answered : BOOLEAN, active : BOOLEAN]
ReadingT == [log : Seq(LineT), files : SUBSET Files, bootFile : Nat, abort : BOOLEAN, quiet : BOOLEAN]
LaunchPCs == {"lask", "lprep", "lrun", "lexists", "lfail"}
SettlePCs == {"idle", "read", "reread", "asked", "boot", "do", "judge", "forget"} \cup LaunchPCs
StartPCs == {"apps", "lclear", "abandon"} \cup LaunchPCs
OwnerPCs == {"idle", "ack", "rejudge", "reboot", "power", "abort", "stop"} \cup StartPCs
Ops == {"", "start", "abort", "acknowledge", "discard", "takeover", "resume", "reboot"}
ProcT == [pc : SettlePCs \cup OwnerPCs, op : Ops,
          seen : ReadingT, u : AnswerT, act : [kind : ActKinds, phase : Phase], name : Names \cup {""},
          new : BOOLEAN, checked : BOOLEAN, holds : BOOLEAN, n : Nat]

Typed ==
    /\ past \in SUBSET Deadlines
    /\ files \in SUBSET Files /\ home \in {"backup", "aborted", "done"} /\ bootFile \in Nat
    /\ damaged \in BOOLEAN /\ abort \in BOOLEAN /\ busy \in BOOLEAN /\ pointer \in BOOLEAN
    /\ asked \in BOOLEAN /\ sd \in BOOLEAN /\ late \in BOOLEAN
    /\ judged \in Verdicts \cup {"none"} /\ barrier \in {"none", "ok", "red"}
    /\ unit \in UnitT /\ unit.idx <= Len(unit.list)
    /\ unit.pc \in {"read", "begin", "exec"} => unit.idx >= 1
    /\ unit.st = "none" => unit = NoUnit
    /\ unit.pc = "undone" => unit.res \in {"ok", "partial"}
    /\ boot \in Nat \ {0}
    /\ core \in [Procs -> ProcT]

\* The log is empty or good, and so is every part of it that a loss of power can leave.
LogIsGood ==
    /\ log \in Seq(LineT) /\ synced \in Nat /\ synced <= Len(log)
    /\ log # << >> => synced >= 2 /\ Prefixes(log)
    /\ log = << >> => ~pointer /\ synced = 0

\* A log that is there is good.
LEMMA LogGood ==
    ASSUME LogIsGood, log # << >>
    PROVE  Good(log) /\ Len(log) >= 2 /\ Len(log) \in Nat /\ log[1].k = "QUEUED" /\ log[2].k = "RUN" /\ log[2].kind \in RunKinds
<1>1. Len(log) \in Nat /\ Len(log) >= 2 BY LenProperties DEF LogIsGood
<1>2. Good(log) BY <1>1, PrefixesGrow DEF LogIsGood
<1>3. QED BY <1>1, <1>2 DEF Good

\* The lines of the log.
LEMMA MarkIs ==
    ASSUME NEW k \in Keys
    PROVE  /\ Mark(k) \in LineT /\ Mark(k).k = k /\ Mark(k).n = 0 /\ Mark(k).phase = "" /\ Mark(k).boot = 0
           /\ \A n \in Nat : [Mark(k) EXCEPT !.n = n] \in LineT /\ [Mark(k) EXCEPT !.n = n].k = k /\ [Mark(k) EXCEPT !.n = n].n = n
           /\ \A n \in Nat : [Mark(k) EXCEPT !.boot = n] \in LineT /\ [Mark(k) EXCEPT !.boot = n].k = k /\ [Mark(k) EXCEPT !.boot = n].boot = n
<1>1. "" \in Phase /\ "" \in Undoings /\ "" \in Who BY DEF Phase, Undoings, Who
<1>2. QED BY <1>1 DEF Mark, LineT

\* The line of an attempt.
LEMMA AttemptLineIs ==
    ASSUME NEW p, NEW n \in Nat, NEW phase \in Phases
    PROVE  /\ AttemptLine(p, n, phase) \in LineT /\ AttemptLine(p, n, phase).k = "ATTEMPT"
           /\ AttemptLine(p, n, phase).n = n /\ AttemptLine(p, n, phase).phase = phase
           /\ AttemptLine(p, n, phase).who = IF p = "settle" THEN "auto" ELSE "owner"
<1>1. "" \in Undoings /\ phase \in Phase BY DEF Phase, Undoings
<1>2. "ATTEMPT" \in Keys BY DEF Keys
<1>3. (IF p = "settle" THEN "auto" ELSE "owner") \in Who BY DEF Who
<1>4. QED BY <1>1, <1>2, <1>3 DEF AttemptLine, Mark, LineT

-----------------------------------------------------------------------------
(* The launch of an attempt.                                                  *)

\* What launchPrepareLocked found before it wrote the attempt n.
Prepared(p, phase, n) ==
    /\ n \in Nat /\ log # << >> /\ MayLaunch(p, core[p].u, phase, n)
    /\ AttemptLine(p, n, phase) \in LineT /\ NextIs(log, AttemptLine(p, n, phase))
    /\ ~scan(log, InputWith(Reading, core[p].u, FALSE)).sealed

PrepareRefused(p) == Refused(p) /\ UNCHANGED <<words, results, flags>>

PrepareBroken(p, phase, n) ==
    /\ Prepared(p, phase, n) /\ damaged
    /\ log' = Append(Append(log, AttemptLine(p, n, phase)), [Mark("START_FAILED") EXCEPT !.n = n])
    /\ synced' = Len(log') /\ past' = past \ (Life \cup Launch)
    /\ Refused(p)
    /\ UNCHANGED <<results, flags>>

PrepareTaken(p, phase, n) ==
    /\ Prepared(p, phase, n) /\ ~damaged
    /\ BlockList(phase, files) # << >> \/ phase = "unwind"
    /\ log' = Append(log, AttemptLine(p, n, phase))
    /\ synced' = Len(log') /\ past' = past \ (Life \cup Launch)
    /\ core' = [core EXCEPT ![p].pc = "lrun", ![p].n = n, ![p].u = NoAnswer, ![p].act.phase = phase]
    /\ judged' = IF core[p].op = "resume" /\ phase = "verify" THEN "none" ELSE judged
    /\ UNCHANGED <<flags, abort, barrier>>

\* The attempt is refused, or written with the number that comes next.
LEMMA PrepareIs ==
    ASSUME LogIsGood, NEW p \in Procs, NEW phase \in Phases, Prepare(p, phase)
    PROVE  /\ UNCHANGED <<disk, unit, machine, bounds>>
           /\ \/ PrepareRefused(p)
              \/ \E n : PrepareBroken(p, phase, n) \/ PrepareTaken(p, phase, n)
<1> DEFINE in == InputWith(Reading, core[p].u, FALSE)
           v == scan(log, in)
           n == NextAttempt(log, in)
           line == AttemptLine(p, n, phase)
           fail == [Mark("START_FAILED") EXCEPT !.n = n]
<1>1. MayLaunch(p, core[p].u, phase, n) => Prepared(p, phase, n)
  <2> SUFFICES ASSUME MayLaunch(p, core[p].u, phase, n) PROVE Prepared(p, phase, n) OBVIOUS
  <2>1. NextAttempt(Append(log, line), in) = n + 1 BY DEF MayLaunch
  <2>2. n = Len(v.attempt) + 1 BY DEF NextAttempt
  <2> HIDE DEF in, v, n
  <2>3. log # << >>
    <3> SUFFICES ASSUME log = << >> PROVE FALSE OBVIOUS
    <3>1. v.attempt = << >> BY DEF scan, EmptyView, v
    <3>2. n = 1 BY <2>2, <3>1
    <3>3. line.k = "ATTEMPT" BY <3>2, AttemptLineIs
    <3>4. Append(log, line) = <<line>> OBVIOUS
    <3>5. <<line>>[1].k # "QUEUED" BY <3>3
    <3>6. scan(<<line>>, in) = EmptyView BY <3>5 DEF scan
    <3>7. NextAttempt(Append(log, line), in) = 1
      <4>1. EmptyView.attempt = << >> BY DEF EmptyView
      <4> HIDE DEF line
      <4>2. QED BY <3>4, <3>6, <4>1 DEF NextAttempt
    <3>8. QED BY <2>1, <3>2, <3>7
  <2>4. Good(log) BY <2>3, LogGood
  <2>5. ViewOf(v, log, in) BY <2>4 DEF Good, v
  <2>6. v \in ViewT /\ v.kind = log[2].kind /\ v.kind # "" BY <2>4, <2>5 DEF ViewOf, Good, RunKinds
  <2>7. Len(v.attempt) \in Nat /\ n \in Nat
    <3>1. v.attempt \in Seq(AttemptT) BY <2>6 DEF ViewT
    <3>2. QED BY <2>2, <3>1, LenProperties
  <2>8. line \in LineT /\ line.k = "ATTEMPT" /\ line.n = n /\ line.phase = phase BY <2>7, AttemptLineIs
  <2> HIDE DEF line
  <2>9. Len(take(v, line, in).attempt) + 1 = n + 1
    <3>1. log \in Seq(LineT) /\ log[1].k = "QUEUED" BY <2>4 DEF Good
    <3>2. scan(Append(log, line), in) = take(v, line, in) BY <2>3, <2>8, <3>1, ScanAppend DEF v
    <3>3. QED BY <2>1, <3>2 DEF NextAttempt
  <2>10. ~v.sealed
    <3>1. v.sealed => take(v, line, in) = v BY <2>6, <2>8 DEF take
    <3>2. QED BY <2>2, <2>7, <2>9, <3>1
  <2>11. take(v, line, in) = IF phaseFits(v.kind, phase, Len(v.attempt) = 0) THEN Attempted(v, line) ELSE v
    BY <2>2, <2>6, <2>8, <2>10 DEF take, add, Attempted
  <2>12. phaseFits(v.kind, phase, Len(v.attempt) = 0) BY <2>2, <2>7, <2>9, <2>11
  <2>13. Len(v.attempt) = Cardinality(Tried(log)) BY <2>5, <2>10 DEF ViewOf
  <2>14. NextIs(log, line) BY <2>2, <2>6, <2>8, <2>12, <2>13 DEF NextIs
  <2>15. QED BY <2>3, <2>7, <2>8, <2>10, <2>14 DEF Prepared, line, v, in
<1>2. log \in Seq(LineT) BY DEF LogIsGood
<1>3. Prepared(p, phase, n) => line \in LineT /\ fail \in LineT
  <2>1. "START_FAILED" \in Keys BY DEF Keys
  <2>2. QED BY <2>1, MarkIs DEF Prepared
<1>4. line \in LineT => log \o <<line>> = Append(log, line) BY <1>2, AppendIsConcat
<1>5. line \in LineT /\ fail \in LineT => log \o <<line, fail>> = Append(Append(log, line), fail)
  <2> SUFFICES ASSUME line \in LineT, fail \in LineT PROVE log \o <<line, fail>> = Append(Append(log, line), fail) OBVIOUS
  <2> HIDE DEF line, fail
  <2>1. QED BY <1>2
<1>6. UNCHANGED <<disk, unit, machine, bounds>> BY DEF Prepare
<1>7. CASE /\ ~MayLaunch(p, core[p].u, phase, n) \/ (~damaged /\ BlockList(phase, files) = << >> /\ phase # "unwind")
           /\ Refused(p) /\ UNCHANGED <<words, results, flags>>
  BY <1>6, <1>7 DEF PrepareRefused
<1>8. CASE /\ MayLaunch(p, core[p].u, phase, n) /\ damaged
           /\ Write(<<line, fail>>)
           /\ past' = past \ (Life \cup Launch)
           /\ Refused(p)
           /\ UNCHANGED <<results, flags>>
  <2>1. PrepareBroken(p, phase, n) BY <1>1, <1>3, <1>5, <1>8 DEF PrepareBroken, Write
  <2>2. QED BY <1>6, <2>1
<1>9. CASE /\ MayLaunch(p, core[p].u, phase, n) /\ ~damaged /\ ~(BlockList(phase, files) = << >> /\ phase # "unwind")
           /\ Write(<<line>>)
           /\ past' = past \ (Life \cup Launch)
           /\ core' = [core EXCEPT ![p].pc = "lrun", ![p].n = n, ![p].u = NoAnswer, ![p].act.phase = phase]
           /\ judged' = IF core[p].op = "resume" /\ phase = "verify" THEN "none" ELSE judged
           /\ UNCHANGED <<flags, abort, barrier>>
  <2>1. PrepareTaken(p, phase, n) BY <1>1, <1>3, <1>4, <1>9 DEF PrepareTaken, Write
  <2>2. QED BY <1>6, <2>1
<1>10. QED BY <1>7, <1>8, <1>9 DEF Prepare

-----------------------------------------------------------------------------
(* What holds of the processes of the core, of the log that the look has read *)
(* and of the tries, whatever the constants.                                  *)

Seen == core["settle"].seen

\* A process is where it can be.
Places ==
    /\ core["settle"].pc \in SettlePCs /\ core["settle"].op = ""
    /\ core["owner"].pc \in OwnerPCs
    /\ core["owner"].op = "start" => core["owner"].pc \in StartPCs /\ core["owner"].act.phase \in Phases
    /\ core["owner"].pc \in {"apps", "lclear", "abandon"} => core["owner"].op = "start"
    /\ core["owner"].pc = "ack" => core["owner"].op \in {"acknowledge", "discard", "takeover"}
    /\ \A p \in Procs : At(p, "idle") => core[p] = Idle
    /\ \A p \in Procs : core[p].pc \in LaunchPCs => core[p].act.phase \in Phases
    /\ core["settle"].pc = "boot" => core["settle"].new
    /\ core["settle"].act.kind \in Launches => core["settle"].act.phase \in Phases

\* The run before its first attempt, and the start of it.
Fresh == log = << >> \/ (core["owner"].op = "start" /\ core["owner"].pc \in {"apps", "lask", "lprep", "abandon"})

Launching(p) == core[p].pc \in {"lrun", "lexists", "lfail"}

\* Nothing of the core or of systemd works on a run that can be taken back, or has one of another
\* boot in mind.
Young ==
    /\ Fresh => /\ unit.st = "none" /\ ~Launching("settle") /\ core["settle"].act.phase = ""
                /\ damaged \/ Tried(log) = {}
                /\ Looking => damaged \/ Tried(Seen.log) = {}
    /\ ~At("owner", "idle") => log # << >>
    /\ core["owner"].op = "start" => log[2].boot = boot
    /\ Looking /\ Seen.log[2].boot # boot => log # << >> /\ log[2].boot # boot
    /\ core["settle"].new => log # << >> /\ log[2].boot # boot

\* What the look has read.
SeenIsGood == Looking => Good(Seen.log)

\* The core's own tries: what the look decided on is within the bound.
Bound(ph) == IF ph = "unwind" THEN MaxUnwindAttempts ELSE MaxVerifyAttempts
Tries ==
    \A ph \in {"unwind", "verify"} :
       /\ Cardinality(AutoIn(log, ph)) <= Bound(ph)
       /\ Looking => Cardinality(AutoIn(log, ph)) <= Cardinality(AutoIn(Seen.log, ph))
       /\ core["settle"].pc \in {"asked", "boot", "do", "lask", "lprep"} /\ core["settle"].act.phase = ph =>
             Cardinality(AutoIn(log, ph)) < Bound(ph)

Base == Typed /\ LogIsGood /\ Places /\ Young /\ SeenIsGood /\ Tries

-----------------------------------------------------------------------------
(* How a step writes to the log.                                              *)

LogStays == log' = log /\ (synced' = synced \/ synced' = Len(log))
LogTakes(m) ==
    /\ m \in LineT /\ log # << >> /\ log' = Append(log, m) /\ (m.k = "ATTEMPT" => NextIs(log, m))
    /\ synced' = synced \/ synced' = Len(log')
    /\ m.k \in {"ATTEMPT", "TAKEOVER", "ACK"} => synced' = Len(log')
LogBreaks(m, f) ==
    /\ m \in LineT /\ f \in LineT /\ f.k # "ATTEMPT" /\ log # << >> /\ log' = Append(Append(log, m), f)
    /\ m.k = "ATTEMPT" /\ NextIs(log, m) /\ synced' = Len(log')
LogOpens(kind) ==
    /\ kind \in RunKinds /\ synced' = 2
    /\ log' = <<Mark("QUEUED"), [Mark("RUN") EXCEPT !.kind = kind, !.boot = boot]>>
LogGoes == log' = << >> /\ synced' = 0 /\ ~pointer'
LogCut == log # << >> /\ \E k \in synced .. Len(log) : log' = SubSeq(log, 1, k) /\ synced' = k
LogStep ==
    \/ (LogStays /\ (pointer' => pointer)) \/ (\E m : LogTakes(m)) \/ (\E m, f : LogBreaks(m, f))
    \/ (\E kind : LogOpens(kind)) \/ LogGoes \/ LogCut

\* The log stays good.
LEMMA LogKept ==
    ASSUME LogIsGood, boot \in Nat, LogStep
    PROVE  LogIsGood'
<1>0. log \in Seq(LineT) /\ Len(log) \in Nat /\ synced \in Nat /\ synced <= Len(log) BY LenProperties DEF LogIsGood
<1>1. CASE LogStays /\ (pointer' => pointer)
  <2>1. log' = log /\ synced' \in Nat /\ synced' <= Len(log) BY <1>0, <1>1 DEF LogStays
  <2>2. log # << >> => synced' >= 2 /\ Prefixes(log)
    <3>1. log # << >> => Len(log) >= 2 BY LogGood
    <3>2. QED BY <1>0, <1>1, <3>1 DEF LogStays, LogIsGood
  <2>3. log = << >> => ~pointer' /\ synced' = 0 BY <1>1 DEF LogStays, LogIsGood
  <2>4. QED BY <1>0, <2>1, <2>2, <2>3 DEF LogIsGood
<1>2. ASSUME NEW m, LogTakes(m) PROVE LogIsGood'
  <2>1. Prefixes(log) /\ Len(log) >= 2 /\ synced >= 2 BY <1>2, LogGood DEF LogTakes, LogIsGood
  <2>2. Prefixes(log') BY <1>0, <1>2, <2>1, PrefixesGrow DEF LogTakes
  <2>3. log' \in Seq(LineT) /\ Len(log') = Len(log) + 1 BY <1>0, <1>2, LinesGrow DEF LogTakes
  <2>4. log' # << >> BY <1>0, <2>3
  <2>5. synced' \in Nat /\ synced' <= Len(log') /\ synced' >= 2 BY <1>0, <1>2, <2>1, <2>3 DEF LogTakes
  <2>6. QED BY <2>2, <2>3, <2>4, <2>5 DEF LogIsGood, Prefixes
<1>3. ASSUME NEW m, NEW f, LogBreaks(m, f) PROVE LogIsGood'
  <2> DEFINE k == Append(log, m)
  <2>1. Prefixes(log) /\ Len(log) >= 2 BY <1>3, LogGood DEF LogBreaks, LogIsGood
  <2>2. Prefixes(k) /\ k \in Seq(LineT) /\ Len(k) = Len(log) + 1 BY <1>0, <1>3, <2>1, PrefixesGrow, LinesGrow DEF LogBreaks
  <2> HIDE DEF k
  <2>3. f \in LineT /\ f.k # "ATTEMPT" /\ log' = Append(k, f) /\ synced' = Len(log') BY <1>3 DEF LogBreaks, k
  <2>4. Len(k) >= 2 BY <1>0, <2>1, <2>2
  <2>5. Prefixes(log') BY <2>2, <2>3, <2>4, PrefixesGrow
  <2>6. log' \in Seq(LineT) /\ Len(log') = Len(k) + 1 BY <2>2, <2>3, LinesGrow
  <2>7. log' # << >> /\ synced' \in Nat /\ synced' >= 2 /\ synced' <= Len(log') BY <1>0, <2>2, <2>3, <2>4, <2>6
  <2>8. QED BY <2>5, <2>6, <2>7 DEF LogIsGood, Prefixes
<1>4. ASSUME NEW kind, LogOpens(kind) PROVE LogIsGood'
  <2> DEFINE q == Mark("QUEUED")
             r == [Mark("RUN") EXCEPT !.kind = kind, !.boot = boot]
  <2>1. "QUEUED" \in Keys /\ "RUN" \in Keys BY DEF Keys
  <2>2. q \in LineT /\ q.k = "QUEUED" BY <2>1, MarkIs
  <2>3. r \in LineT /\ r.k = "RUN" /\ r.kind = kind
    <3>1. kind \in RunKinds BY <1>4 DEF LogOpens
    <3>2. QED BY <2>1, <3>1 DEF Mark, LineT, Phase, Undoings, Who
  <2>4. log' = <<q, r>> /\ synced' = 2 /\ kind \in RunKinds BY <1>4 DEF LogOpens
  <2> HIDE DEF q, r
  <2>5. <<q, r>> \in Seq(LineT) /\ Len(<<q, r>>) = 2 /\ Prefixes(<<q, r>>) BY <2>2, <2>3, <2>4, OpensGood
  <2>6. log' \in Seq(LineT) /\ Len(log') = 2 /\ Prefixes(log') BY <2>4, <2>5
  <2>7. log' # << >> BY <2>6
  <2>8. QED BY <2>4, <2>6, <2>7 DEF LogIsGood, Prefixes
<1>5. CASE LogGoes BY <1>5 DEF LogGoes, LogIsGood
<1>6. CASE LogCut
  <2>1. Prefixes(log) /\ Len(log) >= 2 /\ synced >= 2 BY <1>6, LogGood DEF LogCut, LogIsGood
  <2>2. PICK k \in synced .. Len(log) : log' = SubSeq(log, 1, k) /\ synced' = k BY <1>6 DEF LogCut
  <2>3. k \in 2 .. Len(log) BY <1>0, <2>1
  <2>4. SubSeq(log, 1, k) \in Seq(LineT) /\ Len(SubSeq(log, 1, k)) = k /\ Prefixes(SubSeq(log, 1, k)) BY <1>0, <2>1, <2>3, PrefixesGrow
  <2>5. log' \in Seq(LineT) /\ Len(log') = k /\ Prefixes(log') BY <2>2, <2>4
  <2>6. log' # << >> /\ k \in Nat BY <1>0, <2>3, <2>5
  <2>7. QED BY <2>2, <2>3, <2>5, <2>6 DEF LogIsGood, Prefixes
<1>7. QED BY <1>1, <1>2, <1>3, <1>4, <1>5, <1>6 DEF LogStep

-----------------------------------------------------------------------------
(* The steps, with the request of the owner and the launch taken apart.       *)

AckRefused ==
    /\ At("owner", "ack") /\ Rest("owner")
    /\ UNCHANGED <<disk, words, results, flags, unit, machine, late>>

AckTakes ==
    /\ At("owner", "ack") /\ pointer
    /\ "takeover" \in ActionsFor(StateWith(core["owner"].u))
    /\ core["owner"].u.answered /\ ~core["owner"].u.active
    /\ Write(<<Mark("TAKEOVER")>>) /\ Rest("owner")
    /\ UNCHANGED <<past, disk, results, flags, unit, machine, bounds>>

AckCloses == At("owner", "ack") /\ pointer /\ \E k \in 1 .. 4 : Close(k)

\* A process and the phase that it asks a unit for.
Prepares(p, phase) ==
    \/ At(p, "lprep") /\ phase = core[p].act.phase
    \/ /\ p = "owner" /\ At("owner", "ack") /\ core["owner"].op = "discard" /\ phase = "unwind" /\ pointer
       /\ StateWith(core["owner"].u).name = "rehearsed"

PrepareStep ==
    \E p \in Procs, phase \in Phases :
       /\ Prepares(p, phase)
       /\ UNCHANGED <<disk, unit, machine, bounds>>
       /\ \/ PrepareRefused(p)
          \/ \E n : PrepareBroken(p, phase, n) \/ PrepareTaken(p, phase, n)

CoreStep ==
    \/ DropStrayFlag \/ SettleRead \/ SettleAsk \/ KeepFlag \/ SeeBoot \/ SettleDo \/ Judge \/ Forget
    \/ StartOpen \/ StartApps \/ StartClears \/ Abandon \/ (\E op \in Buttons : AckAsk(op))
    \/ AckRefused \/ AckTakes \/ AckCloses \/ ResumeAsk \/ JudgeAgain
    \/ RebootAsk \/ RebootLocked \/ RebootPower \/ AbortFlag \/ AbortLook \/ AbortStop
    \/ PrepareStep
    \/ \E p \in Procs : LaunchAsk(p) \/ LaunchRun(p) \/ LaunchExists(p) \/ LaunchFailed(p)

\* Every step is one of the driver, of the core, of the machine or of the clock: a launch that is
\* prepared under the lock of a discard is the one of the launch itself.
LEMMA StepIs ==
    ASSUME LogIsGood, Places, Next
    PROVE  DriverStep \/ CoreStep \/ MachineStep \/ \E d \in Deadlines : Elapse(d)
<1>1. ASSUME NEW p \in Procs, NEW phase \in Phases, Prepares(p, phase), Prepare(p, phase) PROVE PrepareStep
  BY <1>1, PrepareIs DEF PrepareStep
<1>2. CASE SettleStep BY <1>2 DEF SettleStep, CoreStep
<1>3. ASSUME AckLocked PROVE CoreStep
  <2> DEFINE me == core["owner"]
             s == StateWith(core["owner"].u)
             valid == pointer /\ me.op \in ActionsFor(s)
             undo == me.op = "discard" /\ s.name = "rehearsed"
  <2>1. /\ me.pc = "ack"
        /\ \/ /\ ~valid \/ (~undo /\ ~Quiet(s, me.u, me.op))
              /\ Rest("owner")
              /\ clicks' = clicks - 1
              /\ UNCHANGED <<disk, words, results, flags, unit, machine, faults, late>>
           \/ /\ valid /\ undo
              /\ Prepare("owner", "unwind")
           \/ /\ valid /\ ~undo /\ Quiet(s, me.u, me.op) /\ me.op = "takeover"
              /\ Write(<<Mark("TAKEOVER")>>)
              /\ Rest("owner")
              /\ UNCHANGED <<past, disk, results, flags, unit, machine, bounds>>
           \/ /\ valid /\ ~undo /\ Quiet(s, me.u, me.op) /\ me.op # "takeover"
              /\ \E k \in 1..4 : Close(k)
    BY <1>3 DEF AckLocked
  <2> HIDE DEF s
  <2>2. CASE Rest("owner") /\ UNCHANGED <<disk, words, results, flags, unit, machine, faults, late>>
    BY <2>1, <2>2 DEF AckRefused, CoreStep, At
  <2>3. CASE valid /\ undo /\ Prepare("owner", "unwind")
    <3>1. Prepares("owner", "unwind") BY <2>1, <2>3 DEF Prepares, At, s
    <3>2. "owner" \in Procs /\ "unwind" \in Phases BY DEF Procs, Phases
    <3>3. QED BY <1>1, <2>3, <3>1, <3>2 DEF CoreStep
  <2>4. CASE /\ valid /\ Quiet(s, me.u, me.op) /\ me.op = "takeover"
             /\ Write(<<Mark("TAKEOVER")>>) /\ Rest("owner")
             /\ UNCHANGED <<past, disk, results, flags, unit, machine, bounds>>
    BY <2>1, <2>4 DEF AckTakes, CoreStep, At, Quiet, s
  <2>5. CASE valid /\ \E k \in 1..4 : Close(k)
    BY <2>1, <2>5 DEF AckCloses, CoreStep, At
  <2>6. QED BY <2>1, <2>2, <2>3, <2>4, <2>5
<1>4. CASE OwnerStep BY <1>3, <1>4 DEF OwnerStep, CoreStep
<1>5. ASSUME NEW p \in Procs, LaunchStep(p) PROVE CoreStep
  <2>1. ASSUME LaunchPrepare(p) PROVE CoreStep
    <3>1. core[p].act.phase \in Phases /\ Prepares(p, core[p].act.phase)
      BY <2>1 DEF Places, LaunchPrepare, LaunchPCs, At, Prepares
    <3>2. PrepareStep BY <1>1, <2>1, <3>1 DEF LaunchPrepare
    <3>3. QED BY <3>2 DEF CoreStep
  <2>2. QED BY <1>5, <2>1 DEF LaunchStep, CoreStep
<1>6. QED BY <1>2, <1>4, <1>5 DEF Next

-----------------------------------------------------------------------------
(* The steps of the driver.                                                   *)

\* The lines that count are the same.
Same ==
    /\ log' = << >> <=> log = << >>
    /\ log # << >> => log'[2] = log[2]
    /\ Tried(log') = Tried(log)
    /\ \A ph : AutoIn(log', ph) = AutoIn(log, ph)

\* A line that is not an attempt changes none of them.
LEMMA SameLines ==
    ASSUME LogIsGood, log' = log \/ \E m \in LineT : m.k # "ATTEMPT" /\ log # << >> /\ log' = Append(log, m)
    PROVE  Same
<1>1. CASE log' = log BY <1>1 DEF Same
<1>2. ASSUME NEW m \in LineT, m.k # "ATTEMPT", log # << >>, log' = Append(log, m) PROVE Same
  <2>1. log \in Seq(LineT) /\ Len(log) >= 2 BY <1>2, LogGood DEF LogIsGood
  <2>2. /\ Len(log) \in Nat /\ Len(log') = Len(log) + 1 /\ log'[Len(log) + 1] = m
        /\ \A i \in 1 .. Len(log) : log'[i] = log[i]
        /\ DOMAIN log = 1 .. Len(log) /\ DOMAIN log' = 1 .. Len(log) + 1
        /\ log' \in Seq(LineT)
    BY <1>2, <2>1, LinesGrow
  <2>3. log' # << >> /\ log'[2] = log[2] BY <2>1, <2>2
  <2>4. ASSUME NEW i \in DOMAIN log', log'[i].k = "ATTEMPT" PROVE i \in DOMAIN log
    <3>1. i \in 1 .. Len(log) \/ i = Len(log) + 1 BY <2>2
    <3>2. QED BY <1>2, <2>2, <2>4, <3>1
  <2>5. \A i \in DOMAIN log : i \in DOMAIN log' /\ log'[i] = log[i] BY <2>2
  <2>6. Tried(log') = Tried(log) BY <2>4, <2>5 DEF Tried
  <2>7. \A ph : AutoIn(log', ph) = AutoIn(log, ph) BY <2>4, <2>5 DEF AutoIn
  <2>8. QED BY <1>2, <2>3, <2>6, <2>7 DEF Same
<1>3. QED BY <1>1, <1>2

\* A line of the driver.
LEMMA LineIs ==
    ASSUME Typed, NEW k \in Keys
    PROVE  /\ Line(k) \in LineT /\ Line(k).k = k
           /\ \A b \in Nat : [Line(k) EXCEPT !.boot = b] \in LineT /\ [Line(k) EXCEPT !.boot = b].k = k
           /\ \A b \in Nat, y \in BOOLEAN : [Line(k) EXCEPT !.boot = b, !.yes = y] \in LineT /\ [Line(k) EXCEPT !.boot = b, !.yes = y].k = k
           /\ \A c \in Classes, q \in BOOLEAN : [Line(k) EXCEPT !.class = c, !.pnr = q] \in LineT /\ [Line(k) EXCEPT !.class = c, !.pnr = q].k = k
           /\ \A id \in BlockIDs : [Line(k) EXCEPT !.id = id] \in LineT /\ [Line(k) EXCEPT !.id = id].k = k
           /\ \A r \in Undoings : [Line(k) EXCEPT !.res = r] \in LineT /\ [Line(k) EXCEPT !.res = r].k = k
<1>1. unit.n \in Nat /\ unit.phase \in Phase BY DEF Typed, UnitT
<1>2. "" \in Undoings /\ "" \in Who BY DEF Undoings, Who
<1>3. Mark(k) \in LineT /\ Mark(k).k = k BY MarkIs
<1>4. Line(k) = [Mark(k) EXCEPT !.n = unit.n, !.phase = unit.phase] BY DEF Line
<1> HIDE DEF Line
<1>5. Line(k) \in LineT /\ Line(k).k = k BY <1>1, <1>3, <1>4 DEF LineT
<1>6. QED BY <1>2, <1>5 DEF LineT

\* The driver says nothing that counts, and works only on a run that is there.
Speaks ==
    /\ Typed' /\ UNCHANGED <<core, pointer, boot, damaged>> /\ unit.st # "none"
    /\ \/ log' = log /\ (synced' = synced \/ synced' = Len(log))
       \/ synced' = synced /\ \E m \in LineT : m.k \notin {"ATTEMPT", "TAKEOVER", "ACK"} /\ log' = Append(log, m)

\* The driver adds at most one line, of its own unit, and changes nothing of the core.
LEMMA DriverSpeaks ==
    ASSUME Typed, DriverStep
    PROVE  Speaks
<1> DEFINE UnitOK(u) == /\ u \in UnitT /\ u.idx <= Len(u.list) /\ (u.pc \in {"read", "begin", "exec"} => u.idx >= 1)
                        /\ (u.st = "none" => u = NoUnit) /\ (u.pc = "undone" => u.res \in {"ok", "partial"})
           Adds(m) == log' = Append(log, m) /\ synced' = synced
           Around == /\ past' \in SUBSET Deadlines /\ files' \in SUBSET Files
                   /\ home' \in {"backup", "aborted", "done"} /\ bootFile' \in Nat
                   /\ UNCHANGED <<damaged, abort, judged, barrier, busy, pointer, boot, asked, sd, core, late>>
           Tells == \/ log' = log /\ (synced' = synced \/ synced' = Len(log))
                    \/ \E m \in LineT : m.k \notin {"ATTEMPT", "TAKEOVER", "ACK"} /\ Adds(m)
<1>1. ASSUME Around, UnitOK(unit'), Tells, unit.st # "none" PROVE Speaks
  <2>1. Typed' BY <1>1 DEF Typed
  <2>2. QED BY <1>1, <2>1 DEF Speaks
<1>2. /\ UnitOK(unit) /\ unit.idx \in Nat /\ unit.list \in Seq(BlockIDs) /\ Len(unit.list) \in Nat /\ unit.n \in Nat /\ boot \in Nat
      /\ (\A S : past \ S \in SUBSET Deadlines) /\ (\A S : files \ S \in SUBSET Files) /\ bootFile \in Nat
      /\ home \in {"backup", "aborted", "done"} /\ files \in SUBSET Files /\ "begun" \in Files
  <2>1. unit.list \in Seq(BlockIDs) BY DEF Typed, UnitT
  <2>2. QED BY <2>1, LenProperties DEF Typed, UnitT, Files
<1>3. ASSUME NEW pc \in {"end", "undo", "next", "exec", "begin", "stop", "putaway"}, unit.st # "none",
             pc \in {"begin", "exec"} => unit.idx >= 1
      PROVE  /\ UnitOK([unit EXCEPT !.pc = pc])
             /\ \A r \in {"", "fresh", "again", "ok", "partial"} : UnitOK([unit EXCEPT !.pc = pc, !.res = r])
             /\ \A c \in Classes : UnitOK([unit EXCEPT !.pc = pc, !.class = c, !.res = ""])
  <2>1. pc \in UnitPCs BY DEF UnitPCs
  <2>2. QED BY <1>2, <1>3, <2>1, ZenonT(60) DEF UnitT
<1>4. ASSUME NEW k \in Keys PROVE Line(k) \in LineT /\ Line(k).k = k BY <1>4, LineIs
<1>5. \A c \in Classes : [Line("STOP") EXCEPT !.class = c, !.pnr = PNR(BK)] \in LineT
                         /\ [Line("STOP") EXCEPT !.class = c, !.pnr = PNR(BK)].k = "STOP"
  <2>1. "STOP" \in Keys /\ PNR(BK) \in BOOLEAN BY DEF Keys, PNR
  <2>2. QED BY <2>1, LineIs
<1> HIDE DEF UnitOK
<1>6. \A c \in Classes : StopAt(c) /\ unit.st # "none" => Tells /\ UnitOK(unit')
  <2>1. ASSUME NEW c \in Classes, StopAt(c), unit.st # "none" PROVE Tells /\ UnitOK(unit')
    <3>1. Adds([Line("STOP") EXCEPT !.class = c, !.pnr = PNR(BK)]) BY <2>1 DEF StopAt, Tell
    <3>2. Tells BY <1>5, <3>1
    <3>3. PICK pc \in {"end", "undo"} : unit' = [unit EXCEPT !.pc = pc] BY <2>1 DEF StopAt, Step
    <3>4. QED BY <1>3, <2>1, <3>2, <3>3
  <2>2. QED BY <2>1
<1>7. {"integrity", "abort", "guard"} \subseteq Classes BY DEF Classes
<1>8. Breathe => past' \in SUBSET Deadlines BY <1>2 DEF Breathe
<1>9. offDriver' = offDriver => UNCHANGED <<abort, judged, barrier, busy, pointer, boot, asked, sd, core>>
  BY DEF offDriver, results, flags, machine
<1>10. bounds' = bounds => late' = late BY DEF bounds
<1>11. disk' = disk => UNCHANGED <<files, home, bootFile, damaged>> BY DEF disk
<1>12. Breathe /\ UNCHANGED <<disk, offDriver, bounds>> => Around BY <1>2, <1>8, <1>9, <1>10, <1>11
<1>a. CASE UnitStart
  <2>1. "UNIT_START" \in Keys BY DEF Keys
  <2>2. [Line("UNIT_START") EXCEPT !.boot = boot] \in LineT /\ [Line("UNIT_START") EXCEPT !.boot = boot].k = "UNIT_START"
    BY <1>2, <2>1, LineIs
  <2>3. Tells BY <1>a, <2>2 DEF UnitStart, Tell
  <2>4. UnitOK(unit') BY <1>2, <1>a DEF UnitStart, UnitOK, UnitT, UnitPCs
  <2>5. QED BY <1>1, <1>12, <1>a, <2>3, <2>4 DEF UnitStart
<1>b. CASE UnitCheck
  <2>1. unit.st # "none" BY <1>b DEF UnitCheck, Alive
  <2>2. Tells /\ UnitOK(unit')
    <3>1. CASE damaged BY <1>3, <1>5, <1>7, <1>b, <2>1, <3>1 DEF UnitCheck, Tell, Step
    <3>2. CASE ~damaged BY <1>3, <1>b, <2>1, <3>2 DEF UnitCheck, Step
    <3>3. QED BY <3>1, <3>2
  <2>3. QED BY <1>1, <1>12, <1>b, <2>1, <2>2 DEF UnitCheck
<1>c. CASE BlockStart
  <2> DEFINE id == unit.list[unit.idx + 1]
  <2>1. unit.st # "none" /\ unit.idx < Len(unit.list) BY <1>c DEF BlockStart, Alive
  <2>2. id \in BlockIDs
    <3>1. unit.idx + 1 \in 1 .. Len(unit.list) BY <1>2, <2>1
    <3>2. QED BY <1>2, <3>1, ElementOfSeq
  <2>3. "BLOCK_START" \in Keys BY DEF Keys
  <2>4. [Line("BLOCK_START") EXCEPT !.id = id] \in LineT /\ [Line("BLOCK_START") EXCEPT !.id = id].k = "BLOCK_START"
    BY <2>2, <2>3, LineIs
  <2> HIDE DEF id
  <2>5. Tells /\ UnitOK(unit')
    <3>1. CASE id \in BK
      <4>1. log' = log /\ synced' = synced /\ unit' = [unit EXCEPT !.idx = @ + 1] BY <1>c, <3>1 DEF BlockStart, id
      <4>2. unit \in UnitT /\ unit.pc = "next" BY <1>2, <1>c DEF UnitOK, BlockStart, Alive
      <4>n. unit.idx + 1 \in Nat BY <1>2
      <4>3. unit' \in UnitT /\ unit'.idx = unit.idx + 1 /\ unit'.list = unit.list /\ unit'.pc = "next" /\ unit'.st = unit.st
        BY <4>n, <4>1, <4>2 DEF UnitT
      <4>4. QED BY <1>2, <2>1, <4>1, <4>3 DEF UnitOK
    <3>2. CASE id \notin BK
      <4>1. Adds([Line("BLOCK_START") EXCEPT !.id = id]) /\ unit' = [unit EXCEPT !.idx = @ + 1, !.pc = "read"]
        BY <1>c, <3>2 DEF BlockStart, Tell, id
      <4>2. unit \in UnitT /\ "read" \in UnitPCs BY <1>2 DEF UnitOK, UnitPCs
      <4>n. unit.idx + 1 \in Nat BY <1>2
      <4>3. unit' \in UnitT /\ unit'.idx = unit.idx + 1 /\ unit'.list = unit.list /\ unit'.pc = "read" /\ unit'.st = unit.st
        BY <4>n, <4>1, <4>2 DEF UnitT
      <4>4. UnitOK(unit') BY <1>2, <2>1, <4>3 DEF UnitOK
      <4>5. QED BY <2>4, <4>1, <4>4
    <3>3. QED BY <3>1, <3>2
  <2>6. QED BY <1>1, <1>12, <1>c, <2>1, <2>5 DEF BlockStart
<1>d. CASE ReadFlag
  <2>1. unit.st # "none" /\ unit.pc = "read" BY <1>d DEF ReadFlag, Alive
  <2>2. unit.idx >= 1 BY <1>2, <2>1 DEF UnitOK
  <2>3. Tells /\ UnitOK(unit')
    <3>1. CASE abort /\ ~PNR(BK) BY <1>6, <1>7, <1>d, <2>1, <3>1 DEF ReadFlag
    <3>2. CASE ~(abort /\ ~PNR(BK))
      <4>1. log' = log /\ (synced' = synced \/ synced' = Len(log)) BY <1>d, <3>2 DEF ReadFlag
      <4>2. PICK pc \in {"begin", "exec"} : unit' = [unit EXCEPT !.pc = pc] BY <1>d, <3>2 DEF ReadFlag, Step
      <4>3. QED BY <1>3, <2>1, <2>2, <4>1, <4>2
    <3>3. QED BY <3>1, <3>2
  <2>4. QED BY <1>1, <1>12, <1>d, <2>1, <2>3 DEF ReadFlag
<1>e. CASE Begin
  <2>1. unit.st # "none" /\ unit.pc = "begin" BY <1>e DEF Begin, Alive
  <2>2. unit.idx >= 1 BY <1>2, <2>1 DEF UnitOK
  <2>3. PICK r \in {"again", "fresh"} : unit' = [unit EXCEPT !.pc = "exec", !.res = r] BY <1>e DEF Begin
  <2>4. UnitOK(unit') BY <1>3, <2>1, <2>2, <2>3
  <2>5. Around BY <1>2, <1>8, <1>9, <1>10, <1>e DEF Begin
  <2>6. Tells BY <1>e DEF Begin
  <2>7. QED BY <1>1, <2>1, <2>4, <2>5, <2>6
<1>f. CASE BlockDone
  <2>1. unit.st # "none" /\ unit.pc = "exec" BY <1>f DEF BlockDone, Alive
  <2>2. unit.idx \in 1 .. Len(unit.list) BY <1>2, <2>1 DEF UnitOK
  <2>3. Block \in BlockIDs BY <1>2, <2>2, ElementOfSeq DEF Block
  <2>4. Block = "forward" \/ Block \in Files BY <2>3 DEF BlockIDs, Files
  <2>5. files' \in SUBSET Files
    <3>1. CASE Block = "forward" BY <1>2, <1>f, <3>1 DEF BlockDone
    <3>2. CASE Block # "forward" BY <1>2, <1>f, <2>4, <3>2 DEF BlockDone
    <3>3. QED BY <3>1, <3>2
  <2>6. bootFile' \in Nat BY <1>2, <1>f DEF BlockDone
  <2>7. Around BY <1>2, <1>8, <1>9, <1>10, <1>f, <2>5, <2>6 DEF BlockDone
  <2>8. UnitOK(unit') BY <1>3, <1>f, <2>1 DEF BlockDone
  <2>9. Tells BY <1>f DEF BlockDone
  <2>10. QED BY <1>1, <2>1, <2>7, <2>8, <2>9
<1>g. CASE BlockFail
  <2>1. unit.st # "none" BY <1>g DEF BlockFail, Alive
  <2>2. PICK class \in StopClasses, kept \in BOOLEAN :
           /\ files' = IF kept THEN files ELSE files \ {"begun"}
           /\ unit' = [unit EXCEPT !.pc = "stop", !.class = class, !.res = ""]
    BY <1>g DEF BlockFail
  <2>3. class \in Classes BY KindAssumption
  <2>4. UnitOK(unit') BY <1>3, <2>1, <2>2, <2>3
  <2>5. files' \in SUBSET Files BY <1>2, <2>2
  <2>6. late' = late BY <1>10, <1>g DEF BlockFail, Fault
  <2>7. Around BY <1>2, <1>8, <1>9, <1>g, <2>5, <2>6 DEF BlockFail
  <2>8. Tells BY <1>g DEF BlockFail
  <2>9. QED BY <1>1, <2>1, <2>4, <2>7, <2>8
<1>h. CASE BlockStop
  <2>1. unit.st # "none" BY <1>h DEF BlockStop, Alive
  <2>2. unit.class \in Classes \cup {""} BY DEF Typed, UnitT
  <2>3. \A c \in Classes \cup {""} : [Line("STOP") EXCEPT !.class = c, !.pnr = PNR(BK)] \in LineT
                         /\ [Line("STOP") EXCEPT !.class = c, !.pnr = PNR(BK)].k = "STOP"
    <3>1. "STOP" \in Keys /\ PNR(BK) \in BOOLEAN BY DEF Keys, PNR
    <3>2. Line("STOP") \in LineT /\ Line("STOP").k = "STOP" BY <1>4, <3>1
    <3> HIDE DEF Line
    <3>3. QED BY <3>1, <3>2 DEF LineT
  <2>4. Adds([Line("STOP") EXCEPT !.class = unit.class, !.pnr = PNR(BK)]) BY <1>h DEF BlockStop, StopAt, Tell
  <2>5. Tells BY <2>2, <2>3, <2>4
  <2>6. PICK pc \in {"end", "undo"} : unit' = [unit EXCEPT !.pc = pc] BY <1>h DEF BlockStop, StopAt, Step
  <2>7. QED BY <1>1, <1>3, <1>12, <1>h, <2>1, <2>5, <2>6 DEF BlockStop
<1>i. CASE Undo
  <2>1. unit.st # "none" BY <1>i DEF Undo, Alive
  <2>2. CASE PNR(BK) /\ unit.phase = "unwind"
    <3>1. StopAt("guard") /\ home' = home BY <1>i, <2>2 DEF Undo
    <3>2. Tells /\ UnitOK(unit') BY <1>6, <1>7, <2>1, <3>1
    <3>3. Around BY <1>2, <1>8, <1>9, <1>10, <1>i, <2>2, <3>1 DEF Undo
    <3>4. QED BY <1>1, <2>1, <3>2, <3>3
  <2>3. CASE PNR(BK) /\ unit.phase # "unwind"
    <3>1. Step("end") /\ log' = log /\ synced' = synced /\ home' = home BY <1>i, <2>3 DEF Undo
    <3>2. UnitOK(unit') BY <1>3, <2>1, <3>1 DEF Step
    <3>3. Around BY <1>2, <1>8, <1>9, <1>10, <1>i, <2>3, <3>1 DEF Undo
    <3>4. QED BY <1>1, <2>1, <3>1, <3>2, <3>3
  <2>4. CASE ~PNR(BK)
    <3>1. log' = log /\ synced' = synced /\ home' \in {"backup", "aborted", "done"} BY <1>2, <1>i, <2>4 DEF Undo
    <3>2. PICK r \in {"ok", "partial"} : unit' = [unit EXCEPT !.pc = "undone", !.res = r] BY <1>i, <2>4 DEF Undo
    <3>3. UnitOK(unit') BY <1>2, <2>1, <3>2 DEF UnitOK, UnitT, UnitPCs
    <3>4. late' = late BY <1>10, <1>i, <2>4 DEF Undo, Fault
    <3>5. Around BY <1>2, <1>8, <1>9, <1>i, <3>1, <3>4 DEF Undo
    <3>6. QED BY <1>1, <2>1, <3>1, <3>3, <3>5
  <2>5. QED BY <2>2, <2>3, <2>4
<1>j. CASE Undone
  <2>1. unit.st # "none" /\ unit.pc = "undone" BY <1>j DEF Undone, Alive
  <2>2. Tell([Line("UNWOUND") EXCEPT !.res = unit.res]) /\ Step("end") BY <1>j DEF Undone
  <2>3. UnitOK(unit') BY <1>3, <2>1, <2>2 DEF Step
  <2>4. unit.res \in Undoings BY <2>1 DEF Typed, Undoings
  <2>5. "UNWOUND" \in Keys BY DEF Keys
  <2>6. [Line("UNWOUND") EXCEPT !.res = unit.res] \in LineT /\ [Line("UNWOUND") EXCEPT !.res = unit.res].k = "UNWOUND"
    BY <2>4, <2>5, LineIs
  <2>7. Tells BY <2>2, <2>6 DEF Tell
  <2>8. QED BY <1>1, <1>12, <1>j, <2>1, <2>3, <2>7 DEF Undone
<1>k. CASE PhaseEnd
  <2>1. unit.st # "none" BY <1>k DEF PhaseEnd, Alive
  <2>2. Tells /\ UnitOK(unit')
    <3>1. CASE StopAt("integrity") BY <1>6, <1>7, <2>1, <3>1
    <3>2. ASSUME NEW k \in Results, NEW yes \in BOOLEAN, Tell([Line(k) EXCEPT !.boot = bootFile, !.yes = yes]),
                 NEW pc \in {"putaway", "end"}, Step(pc)
          PROVE  Tells /\ UnitOK(unit')
      <4>1. k \in Keys /\ k \notin {"ATTEMPT", "TAKEOVER", "ACK"} BY DEF Keys, Results
      <4>2. [Line(k) EXCEPT !.boot = bootFile, !.yes = yes] \in LineT /\ [Line(k) EXCEPT !.boot = bootFile, !.yes = yes].k = k
        BY <1>2, <4>1, LineIs, ZenonT(60)
      <4>3. Tells BY <3>2, <4>1, <4>2 DEF Tell
      <4>4. UnitOK(unit') BY <1>3, <2>1, <3>2 DEF Step
      <4>5. QED BY <4>3, <4>4
    <3>3. \/ StopAt("integrity")
          \/ \E k \in Results, yes \in BOOLEAN, pc \in {"putaway", "end"} :
                Tell([Line(k) EXCEPT !.boot = bootFile, !.yes = yes]) /\ Step(pc)
      BY <1>k DEF PhaseEnd, Results
    <3>4. QED BY <3>1, <3>2, <3>3
  <2>3. past' \in SUBSET Deadlines BY <1>2, <1>k DEF PhaseEnd
  <2>4. Around BY <1>2, <1>9, <1>10, <1>11, <1>k, <2>3 DEF PhaseEnd
  <2>5. QED BY <1>1, <2>1, <2>2, <2>4
<1>l. CASE PutAway
  <2>1. unit.st # "none" BY <1>l DEF PutAway, Alive
  <2>2. UnitOK(unit') BY <1>3, <1>l, <2>1 DEF PutAway, Step
  <2>3. past' \in SUBSET Deadlines /\ log' = log /\ synced' = synced BY <1>l DEF PutAway, words, Typed
  <2>4. Around BY <1>2, <1>9, <1>10, <1>l, <2>3 DEF PutAway
  <2>5. QED BY <1>1, <2>1, <2>2, <2>3, <2>4
<1>m. CASE UnitEnd
  <2>1. unit.st # "none" BY <1>m DEF UnitEnd, Alive
  <2>2. UnitOK(unit')
    <3>1. NoUnit \in UnitT /\ Len(NoUnit.list) = 0 /\ NoUnit.idx = 0 /\ NoUnit.pc = "" BY DEF NoUnit, UnitT, UnitPCs, Phase
    <3>2. unit' = NoUnit BY <1>m DEF UnitEnd
    <3> HIDE DEF NoUnit
    <3>3. UnitOK(NoUnit)
      <4>1. 0 <= 0 OBVIOUS
      <4>2. QED BY <3>1, <4>1 DEF UnitOK
    <3>4. QED BY <3>2, <3>3
  <2>3. "UNIT_END" \in Keys BY DEF Keys
  <2>4. Tells BY <1>4, <1>m, <2>3 DEF UnitEnd, Tell
  <2>5. QED BY <1>1, <1>12, <1>m, <2>1, <2>2, <2>4 DEF UnitEnd
<1>n. QED BY <1>a, <1>b, <1>c, <1>d, <1>e, <1>f, <1>g, <1>h, <1>i, <1>j, <1>k, <1>l, <1>m DEF DriverStep

\* A line that does not count, on a run that is there.
LEMMA SpeaksKeeps ==
    ASSUME Base, Speaks
    PROVE  Base' /\ Same
<1> USE DEF Base
<1>1. Typed' /\ core' = core /\ pointer' = pointer /\ boot' = boot /\ damaged' = damaged BY DEF Speaks
<1>2. ~Fresh /\ log # << >> BY DEF Speaks, Young, Fresh
<1>3. LogStep
  <2>1. CASE log' = log /\ (synced' = synced \/ synced' = Len(log)) BY <1>1, <2>1 DEF LogStep, LogStays
  <2>2. ASSUME synced' = synced, NEW m \in LineT, m.k \notin {"ATTEMPT", "TAKEOVER", "ACK"}, log' = Append(log, m)
        PROVE  LogStep
    <3>1. LogTakes(m) BY <1>2, <2>2 DEF LogTakes
    <3>2. QED BY <3>1 DEF LogStep
  <2>3. QED BY <2>1, <2>2 DEF Speaks
<1>4. LogIsGood' BY <1>3, LogKept DEF Typed
<1>5. Same BY <1>2, SameLines DEF Speaks
<1>6. Fresh' <=> Fresh BY <1>1, <1>2, <1>5 DEF Fresh, Same
<1>7. Places' BY <1>1 DEF Places, At
<1>8. Looking' = Looking /\ Seen' = Seen BY <1>1 DEF Looking, Seen
<1>9. Young' BY <1>1, <1>2, <1>5, <1>6, <1>8 DEF Young, Same, At
<1>10. SeenIsGood' BY <1>8 DEF SeenIsGood
<1>11. Tries' BY <1>1, <1>5, <1>8 DEF Tries, Same, Seen
<1>12. QED BY <1>1, <1>4, <1>5, <1>7, <1>9, <1>10, <1>11

-----------------------------------------------------------------------------
(* The moves of the processes of the core.                                    *)

\* The state but for the unit and the core.
Others ==
    /\ past \in SUBSET Deadlines
    /\ files \in SUBSET Files /\ home \in {"backup", "aborted", "done"} /\ bootFile \in Nat
    /\ damaged \in BOOLEAN /\ abort \in BOOLEAN /\ busy \in BOOLEAN /\ pointer \in BOOLEAN
    /\ asked \in BOOLEAN /\ sd \in BOOLEAN /\ late \in BOOLEAN
    /\ judged \in Verdicts \cup {"none"} /\ barrier \in {"none", "ok", "red"}
    /\ boot \in Nat \ {0}

\* A process moves, and the log takes no attempt.
Moves(p, q) == q \in ProcT /\ core' = [core EXCEPT ![p] = q] /\ boot' = boot /\ damaged' = damaged

\* Where the look may go.
LookGoes(q) ==
    /\ q.pc \in SettlePCs /\ q.op = "" /\ (q.pc = "idle" => q = Idle)
    /\ q.pc \in LaunchPCs => q.act.phase \in Phases
    /\ q.pc = "boot" => q.new
    /\ q.act.kind \in Launches => q.act.phase \in Phases
    /\ Fresh => q.pc \notin {"lrun", "lexists", "lfail"} /\ q.act.phase = ""
    /\ q.pc \in {"read", "reread"} =>
          /\ Good(q.seen.log)
          /\ Fresh => damaged \/ Tried(q.seen.log) = {}
          /\ q.seen.log[2].boot # boot => log # << >> /\ log[2].boot # boot
          /\ \A ph \in {"unwind", "verify"} : Cardinality(AutoIn(log, ph)) <= Cardinality(AutoIn(q.seen.log, ph))
    /\ q.new => log # << >> /\ log[2].boot # boot
    /\ \A ph \in {"unwind", "verify"} :
          q.pc \in {"asked", "boot", "do", "lask", "lprep"} /\ q.act.phase = ph =>
             Cardinality(AutoIn(log, ph)) < Bound(ph)

\* The unit is as it was, or gone, or one that systemd took for a run that is not taken back.
SameUnit ==
    \/ unit' \in {unit, NoUnit}
    \/ ~Fresh /\ unit' \in UnitT /\ unit'.st = "queued" /\ unit'.pc = "" /\ unit'.idx = 0

\* A unit that is as it was, or gone, keeps its type.
LEMMA UnitStays ==
    ASSUME Typed, SameUnit
    PROVE  /\ unit' \in UnitT /\ unit'.idx <= Len(unit'.list) /\ (unit'.pc \in {"read", "begin", "exec"} => unit'.idx >= 1)
           /\ unit'.st = "none" => unit' = NoUnit
           /\ unit'.pc = "undone" => unit'.res \in {"ok", "partial"}
           /\ Fresh /\ unit.st = "none" => unit'.st = "none"
<1>1. CASE unit' = unit BY <1>1 DEF Typed
<1>2. CASE unit' = NoUnit
  <2>1. NoUnit \in UnitT /\ Len(NoUnit.list) = 0 /\ NoUnit.idx = 0 /\ NoUnit.pc = "" /\ NoUnit.st = "none" BY DEF NoUnit, UnitT, UnitPCs, Phase
  <2>2. 0 <= 0 OBVIOUS
  <2> HIDE DEF NoUnit
  <2>3. QED BY <1>2, <2>1, <2>2
<1>3. CASE ~Fresh /\ unit' \in UnitT /\ unit'.st = "queued" /\ unit'.pc = "" /\ unit'.idx = 0
  <2>1. unit'.list \in Seq(BlockIDs) BY <1>3 DEF UnitT
  <2>2. Len(unit'.list) \in Nat BY <2>1, LenProperties
  <2>a. \A k \in Nat : 0 <= k OBVIOUS
  <2>b. 0 <= Len(unit'.list) BY <2>2, <2>a
  <2>c. unit'.idx = 0 BY <1>3
  <2>3. unit'.idx <= Len(unit'.list) BY <2>b, <2>c
  <2>4. unit'.st # "none" /\ unit'.pc \notin {"read", "begin", "exec", "undone"} BY <1>3
  <2>5. QED BY <1>3, <2>3, <2>4
<1>4. QED BY <1>1, <1>2, <1>3 DEF SameUnit

\* A step of the look that starts nothing keeps what holds.
LEMMA LookKeeps ==
    ASSUME Base, Others', NEW q, Moves("settle", q), LookGoes(q), SameUnit, Same, LogStep
    PROVE  Base'
<1> USE DEF Base
<1>1. /\ core \in [Procs -> ProcT] /\ core' \in [Procs -> ProcT] /\ core'["settle"] = q /\ core'["owner"] = core["owner"]
      /\ boot' = boot /\ damaged' = damaged
  BY DEF Moves, Typed, Procs
<1>2. Typed' BY <1>1, UnitStays DEF Others, Typed
<1>3. LogIsGood' BY LogKept DEF Typed
<1>4. Fresh' <=> Fresh BY <1>1 DEF Fresh, Same
<1>5. Places' BY <1>1 DEF Places, LookGoes, At, Procs
<1>6. Looking' = (q.pc \in {"read", "reread"}) /\ Seen' = q.seen BY <1>1 DEF Looking, Seen
<1>7. Young'
  <2>1. Fresh => unit'.st = "none" BY UnitStays DEF Young
  <2>2. log' # << >> => log'[2] = log[2] BY DEF Same
  <2>3. ~(core["owner"].pc = "idle") => log' # << >> BY DEF Young, At, Same
  <2>4. core["owner"].op = "start" => core["owner"].pc # "idle" BY DEF Places, StartPCs, LaunchPCs
  <2>5. QED BY <1>1, <1>4, <1>6, <2>1, <2>2, <2>3, <2>4 DEF Young, LookGoes, Same, At, Launching
<1>8. SeenIsGood' BY <1>6 DEF SeenIsGood, LookGoes
<1>9. Tries' BY <1>1, <1>6 DEF Tries, LookGoes, Same
<1>10. QED BY <1>2, <1>3, <1>5, <1>7, <1>8, <1>9

\* Where the owner's request may go.
OwnerGoes(q) ==
    /\ q.pc \in OwnerPCs /\ (q.pc = "idle" => q = Idle)
    /\ q.pc # "idle" => log # << >>
    /\ q.op = "start" => q.pc \in StartPCs /\ core["owner"].op = "start" /\ q.act.phase \in Phases
    /\ q.op = "start" /\ q.pc \in {"apps", "lask", "lprep", "abandon"} => Fresh
    /\ q.pc \in {"apps", "lclear", "abandon"} => q.op = "start"
    /\ q.pc = "ack" => q.op \in {"acknowledge", "discard", "takeover"}
    /\ q.pc \in LaunchPCs => q.act.phase \in Phases

\* A step of a request that starts nothing keeps what holds.
LEMMA OwnerKeeps ==
    ASSUME Base, Others', NEW q, Moves("owner", q), OwnerGoes(q), SameUnit, Same, LogStep
    PROVE  Base'
<1> USE DEF Base
<1>1. /\ core \in [Procs -> ProcT] /\ core' \in [Procs -> ProcT] /\ core'["owner"] = q /\ core'["settle"] = core["settle"]
      /\ boot' = boot /\ damaged' = damaged
  BY DEF Moves, Typed, Procs
<1>2. Typed' BY <1>1, UnitStays DEF Others, Typed
<1>3. LogIsGood' BY LogKept DEF Typed
<1>4. Fresh' => Fresh BY <1>1 DEF Fresh, Same, OwnerGoes
<1>5. Places' BY <1>1 DEF Places, OwnerGoes, At, Procs
<1>6. Looking' = Looking /\ Seen' = Seen BY <1>1 DEF Looking, Seen
<1>7. Young'
  <2>1. Fresh => unit'.st = "none" BY UnitStays DEF Young
  <2>2. log' # << >> => log'[2] = log[2] BY DEF Same
  <2>3. ~(q.pc = "idle") => log' # << >> BY DEF OwnerGoes, Same
  <2>4. q.op = "start" => q.pc # "idle" BY DEF OwnerGoes, StartPCs, LaunchPCs
  <2>5. QED BY <1>1, <1>4, <1>6, <2>1, <2>2, <2>3, <2>4 DEF Young, OwnerGoes, Same, At, Launching
<1>8. SeenIsGood' BY <1>6 DEF SeenIsGood
<1>9. Tries' BY <1>1, <1>6 DEF Tries, Same, Seen
<1>10. QED BY <1>2, <1>3, <1>5, <1>7, <1>8, <1>9

\* A process that rests.
LEMMA IdleIs ==
    Idle \in ProcT /\ Idle.pc = "idle" /\ Idle.op = "" /\ ~Idle.new /\ Idle.act = DoNone /\ Idle.act.phase = "" /\ Idle.act.kind \notin Launches
<1>1. NoReading \in ReadingT BY DEF NoReading, ReadingT
<1>2. NoAnswer \in AnswerT BY DEF NoAnswer, AnswerT
<1>3. DoNone \in [kind : ActKinds, phase : Phase] /\ DoNone.phase = "" /\ DoNone.kind \notin Launches BY DEF DoNone, Do, ActKinds, Phase, Launches
<1>4. "idle" \in SettlePCs \cup OwnerPCs /\ "" \in Ops BY DEF SettlePCs, Ops
<1> HIDE DEF NoReading, NoAnswer, DoNone
<1>5. Idle = [pc |-> "idle", op |-> "", seen |-> NoReading, u |-> NoAnswer, act |-> DoNone,
              name |-> "", new |-> FALSE, checked |-> FALSE, holds |-> FALSE, n |-> 0]
  BY DEF Idle
<1>6. QED BY <1>1, <1>2, <1>3, <1>4, <1>5 DEF ProcT

\* The core forgets its processes.
LEMMA ForgetsKeeps ==
    ASSUME Base, Others', core' = [p \in Procs |-> Idle], SameUnit, LogStep,
           log' = << >> => log = << >>,
           \A ph \in {"unwind", "verify"} : Cardinality(AutoIn(log', ph)) <= Cardinality(AutoIn(log, ph)),
           \A ph \in {"unwind", "verify"} : Cardinality(AutoIn(log', ph)) \in Nat /\ Cardinality(AutoIn(log, ph)) \in Nat
    PROVE  Base'
<1> USE DEF Base
<1>0. Idle \in ProcT /\ Idle.pc = "idle" /\ Idle.op = "" /\ ~Idle.new /\ Idle.act = DoNone /\ Idle.act.phase = "" /\ Idle.act.kind \notin Launches BY IdleIs
<1>1. core' \in [Procs -> ProcT] /\ core'["settle"] = Idle /\ core'["owner"] = Idle BY <1>0 DEF Procs
<1> HIDE DEF Idle
<1>2. Typed' BY <1>1, UnitStays DEF Others, Typed
<1>3. LogIsGood' BY LogKept DEF Typed
<1>4. Fresh' => log' = << >> BY <1>0, <1>1 DEF Fresh
<1>5. Places' BY <1>0, <1>1 DEF Places, At, Procs, SettlePCs, OwnerPCs, LaunchPCs
<1>6. ~Looking' BY <1>0, <1>1 DEF Looking
<1>7. Young'
  <2>1. Fresh' => unit'.st = "none" /\ Tried(log') = {}
    <3>1. Fresh' => log' = << >> /\ Fresh BY <1>4 DEF Fresh
    <3>2. Tried(<< >>) = {} BY DEF Tried
    <3>3. QED BY <3>1, <3>2, UnitStays DEF Young
  <2>2. QED BY <1>0, <1>1, <1>6, <2>1 DEF Young, At, Launching
<1>8. SeenIsGood' BY <1>6 DEF SeenIsGood
<1>9. Tries'
  <2>1. Bound("unwind") \in Nat /\ Bound("verify") \in Nat BY TimingAssumption DEF Bound
  <2>2. \A ph \in {"unwind", "verify"} : Cardinality(AutoIn(log', ph)) <= Bound(ph) BY <2>1 DEF Tries
  <2>3. QED BY <1>0, <1>1, <1>6, <2>2 DEF Tries, Bound
<1>10. QED BY <1>2, <1>3, <1>5, <1>7, <1>8, <1>9

-----------------------------------------------------------------------------
(* The steps of the look.                                                     *)

\* The numbers of the core's own tries.
LEMMA AutoNat ==
    ASSUME NEW l \in Seq(LineT), NEW ph
    PROVE  Cardinality(AutoIn(l, ph)) \in Nat
<1>1. Len(l) \in Nat /\ DOMAIN l = 1 .. Len(l) BY LenProperties
<1>2. AutoIn(l, ph) \in SUBSET (1 .. Len(l)) BY <1>1 DEF AutoIn
<1>3. QED BY <1>1, <1>2, OneMore

\* The look reads the run: what it has read is what the log says, for now.
LEMMA ReadKeeps ==
    ASSUME Base, SettleRead
    PROVE  Base'
<1> USE DEF Base
<1>1. PICK quiet \in BOOLEAN : core' = [core EXCEPT !["settle"].pc = "read", !["settle"].seen = [Reading EXCEPT !.quiet = quiet]]
  BY DEF SettleRead
<1> DEFINE r == [Reading EXCEPT !.quiet = quiet]
           q == [core["settle"] EXCEPT !.pc = "read", !.seen = r]
<1>2. log \in Seq(LineT) /\ pointer /\ core["settle"] = Idle /\ core["settle"] \in ProcT
  BY DEF SettleRead, Places, LogIsGood, Typed, Procs, At
<1>3. r \in ReadingT /\ r.log = log BY <1>2 DEF Reading, ReadingT, Typed
<1> HIDE DEF r
<1>4. "read" \in SettlePCs BY DEF SettlePCs
<1>5. q \in ProcT /\ q.pc = "read" /\ q.op = "" /\ q.seen = r /\ ~q.new /\ q.act = DoNone
  BY <1>2, <1>3, <1>4, IdleIs DEF ProcT
<1>6. core' = [core EXCEPT !["settle"] = q] BY <1>1 DEF Typed, Procs, r
<1> HIDE DEF q
<1>7. UNCHANGED <<files, home, bootFile, damaged, log, synced, past, abort, judged, barrier, busy, pointer, unit, boot, asked, sd, late>>
  BY DEF SettleRead, disk, words, results, flags, machine, bounds
<1>8. Others' BY <1>7 DEF Others, Typed
<1>9. log # << >> /\ Good(log) BY <1>2, LogGood DEF LogIsGood
<1>10. Moves("settle", q) BY <1>5, <1>6, <1>7 DEF Moves
<1>11. SameUnit /\ Same /\ LogStep BY <1>7 DEF SameUnit, Same, LogStep, LogStays
<1>12. q.pc \notin LaunchPCs BY <1>5 DEF LaunchPCs
<1>13. \A ph : Cardinality(AutoIn(log, ph)) \in Nat BY <1>2, AutoNat
<1>14. LookGoes(q)
  <2>1. q.act.phase = "" /\ q.act.kind \notin Launches BY <1>5, IdleIs
  <2>2. q.seen.log = log BY <1>3, <1>5
  <2>3. Good(q.seen.log) BY <1>9, <2>2
  <2>4. Fresh => damaged \/ Tried(q.seen.log) = {} BY <2>2 DEF Young
  <2>5. q.seen.log[2].boot # boot => log # << >> /\ log[2].boot # boot BY <1>9, <2>2
  <2>6. \A ph \in {"unwind", "verify"} : Cardinality(AutoIn(log, ph)) <= Cardinality(AutoIn(q.seen.log, ph)) BY <1>13, <2>2
  <2>7. QED BY <1>4, <1>5, <1>12, <2>1, <2>3, <2>4, <2>5, <2>6 DEF LookGoes
<1>15. QED BY <1>8, <1>10, <1>11, <1>14, LookKeeps

\* The look asks systemd and decides: the tries that the log it read counts are no fewer than the
\* ones of the log as it is now, for the core alone adds its own attempts.
LEMMA AskKeeps ==
    ASSUME Base, SettleAsk
    PROVE  Base'
<1> USE DEF Base
<1> DEFINE me == core["settle"]
<1>1. PICK ready \in BOOLEAN :
         \E in \in {InputWith(me.seen, Answer, ready)} :
         \E v \in {scan(me.seen.log, in)} :
         \E s \in {decide(v, in)} :
            /\ s.name # "resuming" => ~ready
            /\ core' = [core EXCEPT !["settle"] =
                    [me EXCEPT !.pc = IF me.pc = "read" THEN "asked" ELSE "do",
                               !.seen = NoReading, !.u = Answer, !.name = s.name,
                               !.holds = Holds(s), !.act = NextAction(v, in, s),
                               !.new = s.busy /\ ~BootKnown(me.seen.log),
                               !.checked = "after" \in me.seen.files]]
  BY Zenon DEF SettleAsk
<1> DEFINE in == InputWith(me.seen, Answer, ready)
           v == scan(me.seen.log, in)
           s == decide(v, in)
           a == NextAction(v, in, s)
           pc == IF me.pc = "read" THEN "asked" ELSE "do"
           new == s.busy /\ ~BootKnown(me.seen.log)
           checked == "after" \in me.seen.files
           q == [me EXCEPT !.pc = pc, !.seen = NoReading, !.u = Answer, !.name = s.name,
                           !.holds = Holds(s), !.act = a, !.new = new, !.checked = checked]
<1>2. core' = [core EXCEPT !["settle"] = q] BY <1>1
<1>3. me.pc \in {"read", "reread"} /\ me \in ProcT /\ me.op = "" BY DEF SettleAsk, Typed, Procs, Places
<1>4. Looking BY <1>3 DEF Looking
<1>5. Good(me.seen.log) BY <1>4 DEF SeenIsGood, Seen
<1>6. ViewOf(v, me.seen.log, in) BY <1>5 DEF Good
<1>7. in.damaged = damaged BY DEF InputWith
<1>8. UNCHANGED <<files, home, bootFile, damaged, log, synced, past, abort, judged, barrier, busy, pointer, unit, boot, asked, sd, late>>
  BY DEF SettleAsk, disk, words, results, flags, machine, bounds
<1> HIDE DEF in, v
<1>9. Says(v, in, s)
  <2>1. HasAttempt(v) => last(v).phase \in Phase BY <1>6, ViewKinds
  <2>2. QED BY <2>1, DecideSays
<1>10. s.name \in Names /\ s.busy \in BOOLEAN
  <2> HIDE DEF s
  <2>1. QED BY <1>9 DEF Says, busyOf, PNR
<1>11. /\ a \in [kind : ActKinds, phase : {"", "unwind", "verify", "recover"}]
       /\ a.kind \in Launches => a.phase # ""
       /\ a.phase # "" => HasAttempt(v) /\ ~v.sealed /\ ~in.damaged
       /\ a.phase = "unwind" => ~(count(v, "unwind") >= MaxUnwindAttempts)
       /\ a.phase = "verify" => ~(count(v, "verify") >= MaxVerifyAttempts)
  <2>1. MaxUnwindAttempts \in Nat \ {0} BY TimingAssumption
  <2> HIDE DEF a
  <2>2. a = NextAction(v, in, decide(v, in)) BY DEF a, s
  <2>3. QED BY <1>6, <2>1, <2>2, ActsWithin
<1>12. Holds(s) \in BOOLEAN BY DEF Holds
<1> HIDE DEF s, a
<1>13. pc \in {"asked", "do"} /\ pc \in SettlePCs \cup OwnerPCs /\ pc \in SettlePCs BY DEF SettlePCs
<1>14. new \in BOOLEAN /\ checked \in BOOLEAN BY <1>10
<1>15. a \in [kind : ActKinds, phase : Phase] BY <1>11 DEF Phase, Phases
<1>16. Answer \in AnswerT BY DEF Answer, AnswerT, Typed
<1>17. NoReading \in ReadingT BY DEF NoReading, ReadingT
<1> HIDE DEF pc, new, checked
<1>18. q \in ProcT /\ q.pc = pc /\ q.op = "" /\ q.act = a /\ q.new = new
  BY <1>3, <1>10, <1>12, <1>13, <1>14, <1>15, <1>16, <1>17, ZenonT(60) DEF ProcT
<1> HIDE DEF q
<1>19. Others' BY <1>8 DEF Others, Typed
<1>20. Moves("settle", q) BY <1>2, <1>8, <1>18 DEF Moves
<1>21. SameUnit /\ Same /\ LogStep BY <1>8 DEF SameUnit, Same, LogStep, LogStays
<1>22. a.phase # "" => ~Fresh
  <2> SUFFICES ASSUME a.phase # "", Fresh PROVE FALSE OBVIOUS
  <2>1. ~damaged /\ HasAttempt(v) /\ ~v.sealed BY <1>7, <1>11
  <2>2. Tried(me.seen.log) = {} BY <1>4, <2>1 DEF Young, Seen
  <2>3. Len(v.attempt) = Cardinality(Tried(me.seen.log)) BY <1>6, <2>1 DEF ViewOf
  <2>4. Len(v.attempt) = 0 BY <2>2, <2>3, FS_EmptySet
  <2>5. v.attempt \in Seq(AttemptT) BY <1>6 DEF ViewOf, ViewT
  <2>6. QED BY <2>1, <2>4, <2>5, EmptySeq DEF HasAttempt
<1>23. new => log # << >> /\ log[2].boot # boot
  <2> SUFFICES ASSUME new PROVE log # << >> /\ log[2].boot # boot OBVIOUS
  <2>1. ~BootKnown(me.seen.log) BY DEF new
  <2>2. 2 \in DOMAIN me.seen.log /\ me.seen.log[2].k = "RUN" BY <1>5, LenProperties DEF Good
  <2>3. me.seen.log[2].boot # boot BY <2>1, <2>2 DEF BootKnown
  <2>4. QED BY <1>4, <2>3 DEF Young, Seen
<1>24. ASSUME NEW ph \in {"unwind", "verify"}, a.phase = ph PROVE Cardinality(AutoIn(log, ph)) < Bound(ph)
  <2>1. ~v.sealed BY <1>11, <1>24
  <2>2. ph \in Phases BY DEF Phases
  <2>3. Cardinality(AutoIn(me.seen.log, ph)) <= count(v, ph) BY <1>6, <2>1, <2>2 DEF ViewOf
  <2>4. Cardinality(AutoIn(log, ph)) <= Cardinality(AutoIn(me.seen.log, ph)) BY <1>4 DEF Tries, Seen
  <2>5. Cardinality(AutoIn(me.seen.log, ph)) \in Nat /\ Cardinality(AutoIn(log, ph)) \in Nat
    BY <1>5, AutoNat DEF Good, LogIsGood
  <2>6. count(v, ph) \in Nat
    <3>1. v \in ViewT BY <1>6 DEF ViewOf
    <3>2. v.attempt \in Seq(AttemptT) BY <3>1 DEF ViewT
    <3>3. Len(v.attempt) \in Nat /\ {i \in DOMAIN v.attempt : v.attempt[i].phase = ph} \in SUBSET (1 .. Len(v.attempt))
      BY <3>2, LenProperties
    <3>4. QED BY <3>3, OneMore DEF count
  <2>7. ~(count(v, ph) >= Bound(ph)) BY <1>11, <1>24 DEF Bound
  <2>8. Bound(ph) \in Nat BY TimingAssumption DEF Bound
  <2>9. QED BY <2>3, <2>4, <2>5, <2>6, <2>7, <2>8
<1>25. a.phase # "" => a.phase \in Phases BY <1>11 DEF Phases
<1>26. pc \notin LaunchPCs /\ pc \notin {"idle", "boot", "read", "reread", "lrun", "lexists", "lfail"} BY <1>13 DEF LaunchPCs
<1>27. LookGoes(q) BY <1>11, <1>13, <1>18, <1>22, <1>23, <1>24, <1>25, <1>26 DEF LookGoes
<1>28. QED BY <1>19, <1>20, <1>21, <1>27, LookKeeps

\* Either process may rest.
LEMMA MayRest ==
    LookGoes(Idle) /\ OwnerGoes(Idle)
<1>1. Idle.pc \in SettlePCs /\ Idle.pc \in OwnerPCs /\ Idle.pc \notin LaunchPCs /\ Idle.pc \notin StartPCs
  BY IdleIs DEF SettlePCs, OwnerPCs, LaunchPCs, StartPCs
<1> HIDE DEF Idle
<1>2. Idle.act.kind \in Launches => Idle.act.phase \in Phases BY IdleIs
<1>3. LookGoes(Idle) BY <1>1, <1>2, IdleIs DEF LookGoes
<1>4. OwnerGoes(Idle) BY <1>1, IdleIs DEF OwnerGoes
<1>5. QED BY <1>3, <1>4

\* The look puts the flag up or down, and goes on.
LEMMA FlagKeeps ==
    ASSUME Base, KeepFlag
    PROVE  Base'
<1> USE DEF Base
<1> DEFINE me == core["settle"]
           pc == IF me.new THEN "boot" ELSE "do"
           q == [me EXCEPT !.pc = pc]
<1>1. me.pc = "asked" /\ me \in ProcT /\ me.op = "" BY DEF KeepFlag, Typed, Procs, Places
<1>2. core' = [core EXCEPT !["settle"].pc = pc] BY DEF KeepFlag, Goto
<1>3. UNCHANGED <<files, home, bootFile, damaged, log, synced, past, abort, judged, barrier, pointer, unit, boot, asked, sd, late>>
  BY DEF KeepFlag, disk, words, results, machine, bounds
<1>4. busy' \in BOOLEAN BY DEF KeepFlag, Typed, StillHolds
<1>5. Others' BY <1>3, <1>4 DEF Others, Typed
<1>6. pc \in {"boot", "do"} /\ pc \in SettlePCs /\ pc \notin LaunchPCs /\ (pc = "boot" => me.new) BY DEF SettlePCs, LaunchPCs
<1> HIDE DEF pc
<1>7. q \in ProcT /\ q.pc = pc /\ q.op = "" /\ q.act = me.act /\ q.new = me.new BY <1>1, <1>6 DEF ProcT
<1>8. core' = [core EXCEPT !["settle"] = q] BY <1>2 DEF Typed, Procs
<1> HIDE DEF q
<1>9. Moves("settle", q) BY <1>3, <1>7, <1>8 DEF Moves
<1>10. SameUnit /\ Same /\ LogStep BY <1>3 DEF SameUnit, Same, LogStep, LogStays
<1>11. LookGoes(q)
  <2>1. q.act.kind \in Launches => q.act.phase \in Phases BY <1>7 DEF Places
  <2>2. Fresh => q.act.phase = "" BY <1>7 DEF Young
  <2>3. q.new => log # << >> /\ log[2].boot # boot BY <1>7 DEF Young
  <2>4. \A ph \in {"unwind", "verify"} : q.act.phase = ph => Cardinality(AutoIn(log, ph)) < Bound(ph) BY <1>1, <1>7 DEF Tries
  <2>5. QED BY <1>6, <1>7, <2>1, <2>2, <2>3, <2>4 DEF LookGoes
<1>12. QED BY <1>5, <1>9, <1>10, <1>11, LookKeeps

\* The look writes the boot down and reads again: no attempt is added by it.
LEMMA BootKeeps ==
    ASSUME Base, SeeBoot
    PROVE  Base'
<1> USE DEF Base
<1> DEFINE me == core["settle"]
           line == [Mark("BOOT_SEEN") EXCEPT !.boot = boot]
<1>1. me.pc = "boot" /\ me \in ProcT /\ me.op = "" /\ me.new BY DEF SeeBoot, Typed, Procs, Places
<1>2. log # << >> /\ log[2].boot # boot BY <1>1 DEF Young
<1>3. Good(log) /\ log \in Seq(LineT) BY <1>2, LogGood DEF LogIsGood
<1>4. line \in LineT /\ line.k = "BOOT_SEEN"
  <2>1. "BOOT_SEEN" \in Keys /\ boot \in Nat BY DEF Keys, Typed
  <2>2. QED BY <2>1, MarkIs
<1> HIDE DEF line
<1>5. ~Fresh BY <1>2 DEF Fresh, Young
<1>6. PICK r : /\ core' = [core EXCEPT !["settle"].pc = "reread", !["settle"].seen = r] /\ r \in ReadingT
               /\ \/ r.log = log /\ log' = log /\ synced' = synced /\ past' = past
                  \/ r.log = Append(log, line) /\ log' = Append(log, line) /\ synced' = Len(log') /\ past' = past \ {"resumeWait"}
  <2>1. Reading \in ReadingT /\ Reading.log = log BY <1>3 DEF Reading, ReadingT, Typed
  <2>2. Append(log, line) \in Seq(LineT) BY <1>3, <1>4, LinesGrow
  <2>3. log \o <<line>> = Append(log, line) BY <1>3, <1>4, AppendIsConcat
  <2> HIDE DEF Reading
  <2>4. [Reading EXCEPT !.log = Append(log, line)] \in ReadingT /\ [Reading EXCEPT !.log = Append(log, line)].log = Append(log, line)
    BY <2>1, <2>2 DEF ReadingT
  <2>5. CASE ~me.checked /\ me.name # "reboot_first" /\ ~sd
    <3>1. core' = [core EXCEPT !["settle"].pc = "reread", !["settle"].seen = Reading] /\ UNCHANGED words
      BY <2>5 DEF SeeBoot
    <3>2. QED BY <2>1, <3>1 DEF words
  <2>6. CASE ~(~me.checked /\ me.name # "reboot_first" /\ ~sd)
    <3>1. /\ core' = [core EXCEPT !["settle"].pc = "reread", !["settle"].seen = [Reading EXCEPT !.log = Append(log, line)]]
          /\ log' = log \o <<line>> /\ synced' = Len(log') /\ past' = past \ {"resumeWait"}
      BY <2>6 DEF SeeBoot, Write, line
    <3>2. QED BY <2>3, <2>4, <3>1
  <2>7. QED BY <2>5, <2>6
<1> DEFINE q == [me EXCEPT !.pc = "reread", !.seen = r]
<1>7. "reread" \in SettlePCs /\ "reread" \notin LaunchPCs BY DEF SettlePCs, LaunchPCs
<1>8. q \in ProcT /\ q.pc = "reread" /\ q.op = "" /\ q.act = me.act /\ q.new = me.new /\ q.seen = r BY <1>1, <1>6, <1>7 DEF ProcT
<1>9. core' = [core EXCEPT !["settle"] = q] BY <1>6 DEF Typed, Procs
<1> HIDE DEF q
<1>10. UNCHANGED <<files, home, bootFile, damaged, abort, judged, barrier, busy, pointer, unit, boot, asked, sd, late>>
  BY DEF SeeBoot, disk, results, flags, machine, bounds
<1>11. past' \in SUBSET Deadlines BY <1>6 DEF Typed
<1>12. Others' BY <1>10, <1>11 DEF Others, Typed
<1>13. Moves("settle", q) BY <1>8, <1>9, <1>10 DEF Moves
<1>14. Same BY <1>2, <1>4, <1>6, SameLines
<1>15. LogStep
  <2>1. CASE log' = log /\ synced' = synced BY <1>10, <2>1 DEF LogStep, LogStays
  <2>2. CASE log' = Append(log, line) /\ synced' = Len(log')
    <3>1. LogTakes(line) BY <1>2, <1>4, <2>2 DEF LogTakes
    <3>2. QED BY <3>1 DEF LogStep
  <2>3. QED BY <1>6, <2>1, <2>2
<1>16. Good(r.log) BY <1>3, <1>4, <1>6, GoodGrows
<1>17. \A ph : Cardinality(AutoIn(log, ph)) <= Cardinality(AutoIn(r.log, ph))
  <2>1. \A ph : Cardinality(AutoIn(log, ph)) \in Nat BY <1>3, AutoNat
  <2>2. \A ph : AutoIn(r.log, ph) = AutoIn(log, ph) BY <1>6, <1>14 DEF Same
  <2>3. QED BY <2>1, <2>2
<1>18. LookGoes(q)
  <2>1. q.act.kind \in Launches => q.act.phase \in Phases BY <1>8 DEF Places
  <2>2. QED BY <1>2, <1>5, <1>7, <1>8, <1>16, <1>17, <2>1 DEF LookGoes
<1>19. SameUnit BY <1>10 DEF SameUnit
<1>20. QED BY <1>12, <1>13, <1>14, <1>15, <1>18, <1>19, LookKeeps

\* The look begins the launch that it decided on.
LEMMA DoKeeps ==
    ASSUME Base, SettleDo
    PROVE  Base'
<1> USE DEF Base
<1> DEFINE me == core["settle"]
<1>1. me.pc = "do" /\ me \in ProcT /\ me.act \in [kind : ActKinds, phase : Phase] BY DEF SettleDo, Typed, Procs, ProcT
<1>2. UNCHANGED <<files, home, bootFile, damaged, log, synced, past, abort, judged, busy, pointer, unit, boot, asked, sd, late>>
  BY DEF SettleDo, disk, words, flags, machine, bounds
<1>3. barrier' \in {"none", "ok", "red"} BY DEF SettleDo, Barrier, Typed
<1>4. Others' BY <1>2, <1>3 DEF Others, Typed
<1>5. SameUnit /\ Same /\ LogStep BY <1>2 DEF SameUnit, Same, LogStep, LogStays
<1>6. ASSUME NEW q \in ProcT, core' = [core EXCEPT !["settle"] = q], LookGoes(q) PROVE Base'
  <2>1. Moves("settle", q) BY <1>2, <1>6 DEF Moves
  <2>2. QED BY <1>4, <1>5, <1>6, <2>1, LookKeeps
<1>7. {"lask", "judge", "forget"} \subseteq SettlePCs /\ "lask" \in LaunchPCs /\ {"judge", "forget"} \cap LaunchPCs = {} BY DEF SettlePCs, LaunchPCs
<1>8. Idle \in ProcT /\ Idle.op = "" /\ ~Idle.new /\ Idle.act.phase = "" /\ Idle.act.kind \notin Launches BY IdleIs
<1>9. CASE me.act.kind \in Launches
  <2> DEFINE q == [Idle EXCEPT !.pc = "lask", !.act = me.act]
  <2>1. core' = [core EXCEPT !["settle"] = q] BY <1>9 DEF SettleDo, Launches
  <2> HIDE DEF Idle
  <2>2. q \in ProcT /\ q.pc = "lask" /\ q.act = me.act /\ q.op = "" /\ ~q.new BY <1>1, <1>7, <1>8 DEF ProcT
  <2> HIDE DEF q
  <2>3. q.act.phase \in Phases BY <1>9, <2>2 DEF Places
  <2>4. Fresh => q.act.phase = "" BY <2>2 DEF Young
  <2>5. "" \notin Phases BY DEF Phases
  <2>6. \A ph \in {"unwind", "verify"} : q.act.phase = ph => Cardinality(AutoIn(log, ph)) < Bound(ph) BY <1>1, <2>2 DEF Tries
  <2>7. LookGoes(q) BY <1>7, <2>2, <2>3, <2>4, <2>5, <2>6 DEF LookGoes
  <2>8. QED BY <1>6, <2>1, <2>2, <2>7
<1>10. ASSUME NEW pc \in {"judge", "forget"}, core' = [core EXCEPT !["settle"] = [Idle EXCEPT !.pc = pc]] PROVE Base'
  <2> DEFINE q == [Idle EXCEPT !.pc = pc]
  <2>1. core' = [core EXCEPT !["settle"] = q] BY <1>10
  <2> HIDE DEF Idle
  <2>2. q \in ProcT /\ q.pc = pc /\ q.act = Idle.act /\ q.op = "" /\ ~q.new BY <1>7, <1>8 DEF ProcT
  <2> HIDE DEF q
  <2>3. LookGoes(q) BY <1>7, <1>8, <2>2 DEF LookGoes
  <2>4. QED BY <1>6, <2>1, <2>2, <2>3
<1>11. CASE Rest("settle") BY <1>6, <1>8, <1>11, MayRest DEF Rest
<1>12. CASE me.act.kind \notin Launches
  <2>1. \/ core' = [core EXCEPT !["settle"] = [Idle EXCEPT !.pc = "judge"]]
        \/ core' = [core EXCEPT !["settle"] = [Idle EXCEPT !.pc = "forget"]]
        \/ Rest("settle")
    BY <1>12 DEF SettleDo, Launches
  <2>2. QED BY <1>10, <1>11, <2>1
<1>13. QED BY <1>9, <1>12

\* The other steps of the look.
LEMMA RestKeeps ==
    ASSUME Base, DropStrayFlag \/ Judge \/ Forget
    PROVE  Base'
<1> USE DEF Base
<1>1. CASE DropStrayFlag
  <2>1. UNCHANGED <<files, home, bootFile, damaged, log, synced, past, abort, judged, barrier, pointer, unit, boot, asked, sd, core, late>> /\ busy' = FALSE
    BY <1>1 DEF DropStrayFlag, disk, words, results, machine, bounds
  <2> DEFINE q == core["settle"]
  <2>2. q = Idle /\ q \in ProcT BY <1>1, IdleIs DEF DropStrayFlag, Places, Procs
  <2>3. core' = [core EXCEPT !["settle"] = q] BY <2>1 DEF Typed, Procs
  <2> HIDE DEF q
  <2>4. Others' BY <2>1 DEF Others, Typed
  <2>5. Moves("settle", q) /\ LookGoes(q) BY <2>1, <2>2, <2>3, MayRest DEF Moves
  <2>6. SameUnit /\ Same /\ LogStep BY <2>1 DEF SameUnit, Same, LogStep, LogStays
  <2>7. QED BY <2>4, <2>5, <2>6, LookKeeps
<1>2. CASE Judge \/ Forget
  <2>1. UNCHANGED <<files, home, bootFile, damaged, log, synced, past, abort, barrier, unit, boot, asked, sd, late>> /\ (pointer' => pointer)
    BY <1>2 DEF Judge, Forget, disk, words, results, machine, bounds, flags
  <2>2. judged' \in Verdicts \cup {"none"} /\ busy' \in BOOLEAN /\ pointer' \in BOOLEAN
    BY <1>2 DEF Judge, Forget, results, flags, Typed
  <2>3. core' = [core EXCEPT !["settle"] = Idle] BY <1>2 DEF Judge, Forget, Rest
  <2>4. Others' BY <2>1, <2>2 DEF Others, Typed
  <2>5. Moves("settle", Idle) /\ LookGoes(Idle) BY <2>1, <2>3, IdleIs, MayRest DEF Moves
  <2>6. SameUnit /\ Same /\ LogStep BY <2>1 DEF SameUnit, Same, LogStep, LogStays
  <2>7. QED BY <2>4, <2>5, <2>6, LookKeeps
<1>3. QED BY <1>1, <1>2

-----------------------------------------------------------------------------
(* The steps of the owner's requests.                                         *)

\* A run is opened: its log is new, and nothing of it was tried.
LEMMA OpenKeeps ==
    ASSUME Base, StartOpen
    PROVE  Base'
<1> USE DEF Base
<1>1. log = << >> /\ ~pointer /\ core["owner"] = Idle BY DEF StartOpen, Places, Procs, At
<1>2. Fresh BY <1>1 DEF Fresh
<1>3. UNCHANGED <<files, home, bootFile, damaged, abort, judged, barrier, unit, boot, asked, sd>>
  BY DEF StartOpen, disk, results, machine
<1>4. SameUnit BY <1>3 DEF SameUnit
<1>5. ASSUME NEW kind \in Kinds,
             log' = <<Mark("QUEUED"), [Mark("RUN") EXCEPT !.kind = kind, !.boot = boot]>>, synced' = 2, past' = {},
             busy' = TRUE, pointer' = TRUE, UNCHANGED bounds, NEW phase \in Phases,
             core' = [core EXCEPT !["owner"].pc = "apps", !["owner"].op = "start", !["owner"].act = Do("start", phase)]
      PROVE  Base'
  <2> DEFINE line == Mark("QUEUED")
             run == [Mark("RUN") EXCEPT !.kind = kind, !.boot = boot]
             act == Do("start", phase)
             q == [core["owner"] EXCEPT !.pc = "apps", !.op = "start", !.act = act]
  <2>1. act \in [kind : ActKinds, phase : Phase] /\ act.phase = phase
    <3>1. act = [kind |-> "start", phase |-> phase] BY DEF Do
    <3>2. "start" \in ActKinds /\ phase \in Phase BY DEF ActKinds, Phase
    <3>3. QED BY <3>1, <3>2
  <2> HIDE DEF act
  <2>2. "apps" \in OwnerPCs /\ "apps" \in StartPCs /\ "apps" \notin LaunchPCs /\ "start" \in Ops BY DEF OwnerPCs, StartPCs, LaunchPCs, Ops
  <2>3. q \in ProcT /\ q.pc = "apps" /\ q.op = "start" /\ q.act = act BY <1>1, <2>1, <2>2, IdleIs DEF ProcT
  <2>4. core' = [core EXCEPT !["owner"] = q] BY <1>5 DEF Typed, Procs, act
  <2> HIDE DEF q
  <2>5. core' \in [Procs -> ProcT] /\ core'["owner"] = q /\ core'["settle"] = core["settle"] BY <2>3, <2>4 DEF Typed, Procs
  <2>6. late' = late BY <1>5 DEF bounds
  <2>7. Others' BY <1>3, <1>5, <2>6 DEF Others, Typed
  <2>8. Typed' BY <1>4, <2>5, <2>7, UnitStays DEF Others, Typed
  <2>9. kind \in RunKinds BY KindAssumption
  <2>10. LogOpens(kind) BY <1>5, <2>9 DEF LogOpens
  <2>11. LogIsGood' BY <2>10, LogKept DEF LogStep, Typed
  <2>12. line \in LineT /\ line.k = "QUEUED" /\ run \in LineT /\ run.k = "RUN" /\ run.kind = kind /\ run.boot = boot
    <3>1. "QUEUED" \in Keys /\ "RUN" \in Keys /\ boot \in Nat BY DEF Keys, Typed
    <3>2. Mark("QUEUED") \in LineT /\ Mark("QUEUED").k = "QUEUED" /\ Mark("RUN") \in LineT /\ Mark("RUN").k = "RUN" BY <3>1, MarkIs
    <3> HIDE DEF Mark
    <3>3. QED BY <2>9, <3>1, <3>2 DEF LineT
  <2> HIDE DEF line, run
  <2>13. log' = <<line, run>> BY <1>5 DEF line, run
  <2>14. log' # << >> /\ log'[2].boot = boot BY <2>12, <2>13
  <2>15. Tried(log') = {} /\ \A ph : AutoIn(log', ph) = {} BY <2>9, <2>12, <2>13, OpensGood
  <2>16. boot' = boot /\ damaged' = damaged /\ unit' = unit BY <1>3
  <2>17. Looking' = Looking /\ Seen' = Seen BY <2>5 DEF Looking, Seen
  <2>18. Places' BY <2>1, <2>2, <2>3, <2>5 DEF Places, At, Procs
  <2>19. Young' BY <1>1, <1>2, <2>3, <2>5, <2>14, <2>15, <2>16, <2>17 DEF Young, At, Launching
  <2>20. SeenIsGood' BY <2>17 DEF SeenIsGood
  <2>21. Tries'
    <3>1. core["settle"].act.phase = "" BY <1>2 DEF Young
    <3>2. \A ph : Cardinality(AutoIn(log', ph)) = 0 BY <2>15, FS_EmptySet
    <3>3. Looking => \A ph : Cardinality(AutoIn(Seen.log, ph)) \in Nat BY AutoNat DEF SeenIsGood, Good
    <3>4. \A ph \in {"unwind", "verify"} : 0 <= Bound(ph) BY TimingAssumption DEF Bound
    <3>5. Looking => \A ph : 0 <= Cardinality(AutoIn(Seen.log, ph)) BY <3>3
    <3>6. QED BY <2>5, <2>17, <3>1, <3>2, <3>4, <3>5 DEF Tries
  <2>22. QED BY <2>8, <2>11, <2>18, <2>19, <2>20, <2>21
<1>6. ASSUME Fault, busy' = TRUE, core' = [p \in Procs |-> Idle], UNCHANGED <<words, pointer>> PROVE Base'
  <2>1. log' = log /\ synced' = synced /\ past' = past /\ pointer' = pointer /\ late' = late BY <1>6 DEF words, Fault
  <2>2. Others' BY <1>3, <1>6, <2>1 DEF Others, Typed
  <2>3. LogStep BY <2>1 DEF LogStep, LogStays
  <2>4. \A ph : Cardinality(AutoIn(log, ph)) \in Nat BY AutoNat DEF LogIsGood
  <2>5. \A ph \in {"unwind", "verify"} : Cardinality(AutoIn(log', ph)) <= Cardinality(AutoIn(log, ph)) BY <2>1, <2>4
  <2>6. \A ph \in {"unwind", "verify"} : Cardinality(AutoIn(log', ph)) \in Nat BY <2>1, <2>4
  <2>7. QED BY <1>4, <1>6, <2>1, <2>2, <2>3, <2>4, <2>5, <2>6, ForgetsKeeps
<1>7. \/ \E kind \in Kinds, phase \in Phases :
            /\ log' = <<Mark("QUEUED"), [Mark("RUN") EXCEPT !.kind = kind, !.boot = boot]>> /\ synced' = 2 /\ past' = {}
            /\ busy' = TRUE /\ pointer' = TRUE /\ UNCHANGED bounds
            /\ core' = [core EXCEPT !["owner"].pc = "apps", !["owner"].op = "start", !["owner"].act = Do("start", phase)]
      \/ Fault /\ busy' = TRUE /\ core' = [p \in Procs |-> Idle] /\ UNCHANGED <<words, pointer>>
  <2>1. CASE Fault /\ busy' = TRUE /\ core' = [p \in Procs |-> Idle] /\ UNCHANGED <<words, pointer>> BY <2>1
  <2>2. ASSUME NEW kind \in Kinds,
               log' = <<Mark("QUEUED"), [Mark("RUN") EXCEPT !.kind = kind, !.boot = boot]>>, synced' = 2, past' = {},
               busy' = TRUE, pointer' = TRUE, UNCHANGED bounds,
               core' = [core EXCEPT !["owner"].pc = "apps", !["owner"].op = "start",
                          !["owner"].act = Do("start", CASE kind = "refresh" -> "refresh"
                                                         [] kind = "rehearsal" -> "rehearse"
                                                         [] OTHER -> "run")]
        PROVE  \E phase \in Phases : core' = [core EXCEPT !["owner"].pc = "apps", !["owner"].op = "start", !["owner"].act = Do("start", phase)]
    <3> DEFINE phase == CASE kind = "refresh" -> "refresh" [] kind = "rehearsal" -> "rehearse" [] OTHER -> "run"
    <3>1. phase \in Phases BY DEF Phases
    <3>2. core' = [core EXCEPT !["owner"].pc = "apps", !["owner"].op = "start", !["owner"].act = Do("start", phase)] BY <2>2
    <3> HIDE DEF phase
    <3>3. QED BY <3>1, <3>2
  <2>3. QED BY <2>1, <2>2, Zenon DEF StartOpen
<1>8. QED BY <1>5, <1>6, <1>7

\* A start that is taken back leaves no log, and no launch of the look that has one in mind.
LEMMA AbandonKeeps ==
    ASSUME Base, Abandon
    PROVE  Base'
<1> USE DEF Base
<1>1. core["owner"].pc = "abandon" /\ core["owner"].op = "start" BY DEF Abandon, At, Places
<1>2. Fresh /\ log[2].boot = boot BY <1>1 DEF Fresh, Young
<1>3. UNCHANGED <<files, home, bootFile, damaged, abort, judged, barrier, unit, boot, asked, sd, late>>
  BY DEF Abandon, disk, results, machine, bounds
<1>4. log' = << >> /\ synced' = 0 /\ past' = {} /\ busy' = FALSE /\ pointer' = FALSE /\ core' = [core EXCEPT !["owner"] = Idle]
  BY DEF Abandon, Rest
<1>5. core' \in [Procs -> ProcT] /\ core'["owner"] = Idle /\ core'["settle"] = core["settle"] BY <1>4, IdleIs DEF Typed, Procs
<1>6. SameUnit BY <1>3 DEF SameUnit
<1>7. Others' BY <1>3, <1>4 DEF Others, Typed
<1>8. Typed' BY <1>5, <1>6, <1>7, UnitStays DEF Others, Typed
<1>9. LogIsGood' BY <1>4, LogKept DEF LogStep, LogGoes, Typed
<1>10. Tried(log') = {} /\ \A ph : AutoIn(log', ph) = {} BY <1>4 DEF Tried, AutoIn
<1>11. Looking' = Looking /\ Seen' = Seen BY <1>5 DEF Looking, Seen
<1>12. Idle.pc \in OwnerPCs /\ Idle.pc \notin LaunchPCs /\ Idle.pc \notin {"apps", "lclear", "abandon", "ack"} /\ Idle.op # "start"
  BY IdleIs DEF OwnerPCs, LaunchPCs
<1>13. Places' BY <1>5, <1>12 DEF Places, At, Procs
<1>14. Young' BY <1>2, <1>3, <1>4, <1>5, <1>10, <1>11, <1>12, IdleIs DEF Young, At, Launching
<1>15. SeenIsGood' BY <1>11 DEF SeenIsGood
<1>16. Tries'
  <2>1. core["settle"].act.phase = "" BY <1>2 DEF Young
  <2>2. \A ph : Cardinality(AutoIn(log', ph)) = 0 BY <1>10, FS_EmptySet
  <2>3. Looking => \A ph : Cardinality(AutoIn(Seen.log, ph)) \in Nat BY AutoNat DEF SeenIsGood, Good
  <2>4. \A ph \in {"unwind", "verify"} : 0 <= Bound(ph) BY TimingAssumption DEF Bound
  <2>5. Looking => \A ph : 0 <= Cardinality(AutoIn(Seen.log, ph)) BY <2>3
  <2>6. QED BY <1>5, <1>11, <2>1, <2>2, <2>4, <2>5 DEF Tries
<1>17. QED BY <1>8, <1>9, <1>13, <1>14, <1>15, <1>16

\* A request that leaves the log alone.
LEMMA OwnerMoves ==
    ASSUME Base, Others', NEW q \in ProcT, core' = [core EXCEPT !["owner"] = q], OwnerGoes(q), SameUnit,
           UNCHANGED <<log, synced, pointer, boot, damaged>>
    PROVE  Base'
<1>1. Moves("owner", q) BY DEF Moves
<1>2. Same /\ LogStep BY DEF Same, LogStep, LogStays
<1>3. QED BY <1>1, <1>2, OwnerKeeps

\* A request that is made: the process was at rest, and the pointer names a run.
LEMMA ClickKeeps ==
    ASSUME Base, NEW op, Click(op), Others', NEW q \in ProcT, core' = [core EXCEPT !["owner"] = q],
           q.pc \in OwnerPCs \ {"idle", "apps", "lclear", "abandon"}, q.op # "start",
           q.pc = "ack" => q.op \in {"acknowledge", "discard", "takeover"},
           q.pc \in LaunchPCs => q.act.phase \in Phases, SameUnit,
           UNCHANGED <<log, synced, pointer, boot, damaged>>
    PROVE  Base'
<1>1. log # << >> BY DEF Click, Base, LogIsGood
<1>2. OwnerGoes(q) BY <1>1 DEF OwnerGoes
<1>3. QED BY <1>2, OwnerMoves

\* The process of a request with what it asked systemd.
LEMMA OwnerIs ==
    ASSUME Typed, NEW pc \in OwnerPCs, NEW op \in Ops
    PROVE  /\ [Idle EXCEPT !.pc = pc, !.op = op, !.u = Answer] \in ProcT
           /\ [Idle EXCEPT !.pc = pc, !.op = op, !.u = Answer].pc = pc
           /\ [Idle EXCEPT !.pc = pc, !.op = op, !.u = Answer].op = op
           /\ [Idle EXCEPT !.pc = pc, !.op = op, !.u = Answer].act.phase = ""
<1>1. Answer \in AnswerT BY DEF Answer, AnswerT, Typed
<1>2. Idle \in ProcT /\ Idle.act.phase = "" BY IdleIs
<1> HIDE DEF Idle, Answer
<1>3. QED BY <1>1, <1>2 DEF ProcT

\* The questions that a request begins with.
LEMMA AsksKeep ==
    ASSUME Base, (\E op \in Buttons : AckAsk(op)) \/ ResumeAsk \/ RebootAsk \/ AbortFlag
    PROVE  Base'
<1> USE DEF Base
<1>1. ASSUME NEW op \in Buttons, AckAsk(op) PROVE Base'
  <2>1. Click(op) /\ op \in {"acknowledge", "discard", "takeover"} BY <1>1 DEF AckAsk
  <2>2. UNCHANGED <<files, home, bootFile, damaged, log, synced, past, abort, judged, barrier, busy, pointer, unit, boot, asked, sd, late>>
    BY <1>1 DEF AckAsk, Click, disk, words, results, flags, machine
  <2>3. Others' /\ SameUnit BY <2>2 DEF Others, Typed, SameUnit
  <2> DEFINE q == [Idle EXCEPT !.pc = "ack", !.op = op, !.u = Answer]
  <2>4. core' = [core EXCEPT !["owner"] = q] BY <1>1 DEF AckAsk, Owner
  <2>5. "ack" \in OwnerPCs /\ op \in Ops /\ "ack" \notin LaunchPCs BY <2>1 DEF OwnerPCs, Ops, LaunchPCs
  <2>6. q \in ProcT /\ q.pc = "ack" /\ q.op = op BY <2>5, OwnerIs
  <2> HIDE DEF q
  <2>7. QED BY <2>1, <2>2, <2>3, <2>4, <2>5, <2>6, ClickKeeps
<1>2. CASE ResumeAsk
  <2>1. Click("resume") BY <1>2 DEF ResumeAsk
  <2>2. UNCHANGED <<files, home, bootFile, damaged, log, synced, past, abort, judged, barrier, busy, pointer, unit, boot, asked, sd, late>>
    BY <1>2 DEF ResumeAsk, Click, disk, words, results, flags, machine
  <2>3. Others' /\ SameUnit BY <2>2 DEF Others, Typed, SameUnit
  <2>4. CASE core' = [core EXCEPT !["owner"] = [Idle EXCEPT !.pc = "rejudge", !.op = "resume", !.u = Answer]]
    <3> DEFINE q == [Idle EXCEPT !.pc = "rejudge", !.op = "resume", !.u = Answer]
    <3>1. "rejudge" \in OwnerPCs /\ "resume" \in Ops /\ "rejudge" \notin LaunchPCs BY DEF OwnerPCs, Ops, LaunchPCs
    <3>2. q \in ProcT /\ q.pc = "rejudge" /\ q.op = "resume" BY <3>1, OwnerIs
    <3>3. core' = [core EXCEPT !["owner"] = q] BY <2>4
    <3> HIDE DEF q
    <3>4. QED BY <2>1, <2>2, <2>3, <3>1, <3>2, <3>3, ClickKeeps
  <2>5. ASSUME NEW phase \in {"verify", "recover"},
               core' = [core EXCEPT !["owner"] = [Idle EXCEPT !.pc = "lask", !.op = "resume", !.act = Do("resume", phase)]]
        PROVE  Base'
    <3> DEFINE act == Do("resume", phase)
               q == [Idle EXCEPT !.pc = "lask", !.op = "resume", !.act = act]
    <3>1. "lask" \in OwnerPCs /\ "resume" \in Ops /\ "lask" \in LaunchPCs BY DEF OwnerPCs, Ops, LaunchPCs, StartPCs
    <3>2. act \in [kind : ActKinds, phase : Phase] /\ act.phase \in Phases BY DEF Do, ActKinds, Phase, Phases
    <3>3. core' = [core EXCEPT !["owner"] = q] BY <2>5
    <3> HIDE DEF act, Idle
    <3>4. q \in ProcT /\ q.pc = "lask" /\ q.op = "resume" /\ q.act = act BY <3>1, <3>2, IdleIs DEF ProcT
    <3> HIDE DEF q
    <3>5. QED BY <2>1, <2>2, <2>3, <3>1, <3>2, <3>3, <3>4, ClickKeeps
  <2>6. \/ core' = [core EXCEPT !["owner"] = [Idle EXCEPT !.pc = "rejudge", !.op = "resume", !.u = Answer]]
        \/ \E phase \in {"verify", "recover"} :
              core' = [core EXCEPT !["owner"] = [Idle EXCEPT !.pc = "lask", !.op = "resume", !.act = Do("resume", phase)]]
    <3>1. PICK s : IF Judged(s) THEN Owner("rejudge", "resume")
                   ELSE core' = [core EXCEPT !["owner"] = [Idle EXCEPT !.pc = "lask", !.op = "resume",
                                   !.act = Do("resume", IF s.phase = "verify" THEN "verify" ELSE "recover")]]
      BY <1>2 DEF ResumeAsk
    <3>2. QED BY <3>1 DEF Owner
  <2>7. QED BY <2>4, <2>5, <2>6
<1>3. CASE RebootAsk
  <2>1. Click("reboot") BY <1>3 DEF RebootAsk
  <2>2. UNCHANGED <<files, home, bootFile, damaged, log, synced, past, abort, judged, busy, pointer, unit, boot, asked, sd, late>>
    BY <1>3 DEF RebootAsk, Click, disk, words, flags, machine
  <2>3. barrier' \in {"none", "ok", "red"} BY <1>3 DEF RebootAsk, Barrier, Typed
  <2>4. Others' /\ SameUnit BY <2>2, <2>3 DEF Others, Typed, SameUnit
  <2>5. core' = core \/ Owner("reboot", "reboot") BY <1>3 DEF RebootAsk
  <2>6. CASE core' = core
    <3> DEFINE q == core["owner"]
    <3>1. q = Idle /\ q \in ProcT BY <2>1, IdleIs DEF Click, Places, Procs
    <3>2. core' = [core EXCEPT !["owner"] = q] BY <2>6 DEF Typed, Procs
    <3> HIDE DEF q
    <3>3. OwnerGoes(q) BY <3>1, MayRest
    <3>4. QED BY <2>2, <2>4, <3>1, <3>2, <3>3, OwnerMoves
  <2>7. CASE Owner("reboot", "reboot")
    <3> DEFINE q == [Idle EXCEPT !.pc = "reboot", !.op = "reboot", !.u = Answer]
    <3>1. "reboot" \in OwnerPCs /\ "reboot" \in Ops /\ "reboot" \notin LaunchPCs BY DEF OwnerPCs, Ops, LaunchPCs
    <3>2. q \in ProcT /\ q.pc = "reboot" /\ q.op = "reboot" BY <3>1, OwnerIs
    <3>3. core' = [core EXCEPT !["owner"] = q] BY <2>7 DEF Owner
    <3> HIDE DEF q
    <3>4. QED BY <2>1, <2>2, <2>4, <3>1, <3>2, <3>3, ClickKeeps
  <2>8. QED BY <2>5, <2>6, <2>7
<1>4. CASE AbortFlag
  <2>1. Click("abort") /\ abort' = TRUE BY <1>4 DEF AbortFlag
  <2>2. UNCHANGED <<files, home, bootFile, damaged, log, synced, past, judged, barrier, busy, pointer, unit, boot, asked, sd, late>>
    BY <1>4 DEF AbortFlag, Click, disk, words, flags, machine
  <2>3. Others' /\ SameUnit BY <2>1, <2>2 DEF Others, Typed, SameUnit
  <2> DEFINE q == [Idle EXCEPT !.pc = "abort", !.op = "abort", !.u = Answer]
  <2>4. core' = [core EXCEPT !["owner"] = q] BY <1>4 DEF AbortFlag, Owner
  <2>5. "abort" \in OwnerPCs /\ "abort" \in Ops /\ "abort" \notin LaunchPCs BY DEF OwnerPCs, Ops, LaunchPCs
  <2>6. q \in ProcT /\ q.pc = "abort" /\ q.op = "abort" BY <2>5, OwnerIs
  <2> HIDE DEF q
  <2>7. QED BY <2>1, <2>2, <2>3, <2>4, <2>5, <2>6, ClickKeeps
<1>5. QED BY <1>1, <1>2, <1>3, <1>4

\* A line of the core that is not an attempt.
LEMMA WritesOne ==
    ASSUME Base, NEW k \in Keys \ {"ATTEMPT"}, NEW m \in LineT, m.k = k, log # << >>, Write(<<m>>)
    PROVE  /\ Same /\ LogStep /\ LogTakes(m) /\ log' # << >>
           /\ \A ph \in {"unwind", "verify"} : Cardinality(AutoIn(log', ph)) <= Cardinality(AutoIn(log, ph))
           /\ \A ph \in {"unwind", "verify"} : Cardinality(AutoIn(log', ph)) \in Nat /\ Cardinality(AutoIn(log, ph)) \in Nat
<1>1. log \in Seq(LineT) /\ LogIsGood BY DEF Base, LogIsGood
<1>2. log' = Append(log, m) /\ synced' = Len(log') BY <1>1, AppendIsConcat DEF Write
<1>3. Same BY <1>1, <1>2, SameLines
<1>4. LogTakes(m) BY <1>2 DEF LogTakes
<1>5. \A ph : AutoIn(log', ph) = AutoIn(log, ph) /\ Cardinality(AutoIn(log, ph)) \in Nat BY <1>1, <1>3, AutoNat DEF Same
<1>6. \A ph : Cardinality(AutoIn(log', ph)) <= Cardinality(AutoIn(log, ph)) BY <1>5
<1>7. QED BY <1>3, <1>4, <1>5, <1>6 DEF LogStep, Same

\* The steps of a request that write nothing.
LEMMA RequestsKeep ==
    ASSUME Base, StartApps \/ StartClears \/ AckRefused \/ JudgeAgain \/ AbortLook \/ AbortStop
    PROVE  Base'
<1> USE DEF Base
<1> DEFINE me == core["owner"]
<1>1. me \in ProcT BY DEF Typed, Procs
<1>2. ASSUME Rest("owner"), Others', SameUnit, UNCHANGED <<log, synced, pointer, boot, damaged>> PROVE Base'
  <2>1. core' = [core EXCEPT !["owner"] = Idle] BY <1>2 DEF Rest
  <2>2. QED BY <1>2, <2>1, IdleIs, MayRest, OwnerMoves
<1>3. ASSUME NEW pc \in {"lask", "abandon", "stop"}, Goto("owner", pc), Others', SameUnit, UNCHANGED <<log, synced, pointer, boot, damaged>>,
             pc # "stop" => me.pc = "apps", pc = "stop" => me.pc = "abort"
      PROVE  Base'
  <2> DEFINE q == [me EXCEPT !.pc = pc]
  <2>1. pc \in OwnerPCs /\ pc # "idle" BY DEF OwnerPCs, StartPCs, LaunchPCs
  <2>2. q \in ProcT /\ q.pc = pc /\ q.op = me.op /\ q.act = me.act BY <1>1, <2>1 DEF ProcT
  <2>3. core' = [core EXCEPT !["owner"] = q] BY <1>3 DEF Goto, Typed, Procs
  <2> HIDE DEF q
  <2>4. log # << >> BY <1>3 DEF Young, At
  <2>5. pc # "stop" => me.op = "start" /\ me.act.phase \in Phases /\ Fresh BY <1>3 DEF Places, Fresh
  <2>6. pc = "stop" => me.op # "start" BY <1>3 DEF Places, StartPCs, LaunchPCs
  <2>7. (pc # "stop" => pc \in StartPCs) /\ "stop" \notin LaunchPCs BY DEF StartPCs, LaunchPCs
  <2>8. OwnerGoes(q) BY <2>1, <2>2, <2>4, <2>5, <2>6, <2>7 DEF OwnerGoes
  <2>9. QED BY <1>3, <2>2, <2>3, <2>8, OwnerMoves
<1>4. CASE StartApps
  <2>1. UNCHANGED <<files, home, bootFile, damaged, log, synced, past, abort, judged, barrier, busy, pointer, unit, boot, asked, sd, late>>
    BY <1>4 DEF StartApps, Fault, disk, words, results, flags, machine, bounds
  <2>2. Others' /\ SameUnit BY <2>1 DEF Others, Typed, SameUnit
  <2>3. me.pc = "apps" /\ me.op = "start" BY <1>4 DEF StartApps, At, Places
  <2>4. Goto("owner", "lask") \/ Goto("owner", "abandon") BY <1>4, <2>3 DEF StartApps, Refused
  <2>5. QED BY <1>3, <2>1, <2>2, <2>3, <2>4
<1>5. CASE StartClears
  <2>1. UNCHANGED <<files, home, bootFile, damaged, log, synced, past, abort, judged, barrier, pointer, unit, boot, asked, sd, late>> /\ busy' = FALSE
    BY <1>5 DEF StartClears, disk, words, results, machine, bounds
  <2>2. Others' /\ SameUnit BY <2>1 DEF Others, Typed, SameUnit
  <2>3. QED BY <1>2, <1>5, <2>1, <2>2 DEF StartClears
<1>6. CASE AckRefused
  <2>1. UNCHANGED <<files, home, bootFile, damaged, log, synced, past, abort, judged, barrier, busy, pointer, unit, boot, asked, sd, late>>
    BY <1>6 DEF AckRefused, disk, words, results, flags, machine
  <2>2. Others' /\ SameUnit BY <2>1 DEF Others, Typed, SameUnit
  <2>3. QED BY <1>2, <1>6, <2>1, <2>2 DEF AckRefused
<1>7. CASE JudgeAgain
  <2>1. UNCHANGED <<files, home, bootFile, damaged, log, synced, past, abort, barrier, busy, pointer, unit, boot, asked, sd, late>>
    BY <1>7 DEF JudgeAgain, disk, words, flags, machine, bounds
  <2>2. judged' \in Verdicts \cup {"none"} BY <1>7 DEF JudgeAgain, Typed
  <2>3. Others' /\ SameUnit BY <2>1, <2>2 DEF Others, Typed, SameUnit
  <2>4. QED BY <1>2, <1>7, <2>1, <2>3 DEF JudgeAgain
<1>8. CASE AbortLook
  <2>1. UNCHANGED <<files, home, bootFile, damaged, log, synced, past, judged, barrier, busy, pointer, unit, boot, asked, sd, late>>
    BY <1>8 DEF AbortLook, disk, words, flags, machine, bounds
  <2>2. abort' \in BOOLEAN /\ me.pc = "abort" /\ (Goto("owner", "stop") \/ Rest("owner")) BY <1>8 DEF AbortLook, Typed, At
  <2>3. Others' /\ SameUnit BY <2>1, <2>2 DEF Others, Typed, SameUnit
  <2>4. QED BY <1>2, <1>3, <2>1, <2>2, <2>3
<1>9. CASE AbortStop
  <2>1. UNCHANGED <<files, home, bootFile, damaged, log, synced, past, abort, judged, barrier, busy, pointer, boot, asked, sd, late>>
    BY <1>9 DEF AbortStop, disk, words, results, flags, machine, bounds
  <2>2. Others' /\ SameUnit BY <1>9, <2>1 DEF Others, Typed, SameUnit, AbortStop
  <2>3. QED BY <1>2, <1>9, <2>1, <2>2 DEF AbortStop
<1>10. QED BY <1>4, <1>5, <1>6, <1>7, <1>8, <1>9

\* The steps of a request that write a line of the owner: a takeover, a closing, a restart.
LEMMA WritesKeep ==
    ASSUME Base, AckTakes \/ AckCloses \/ RebootLocked \/ RebootPower
    PROVE  Base'
<1> USE DEF Base
<1> DEFINE me == core["owner"]
<1>1. me \in ProcT BY DEF Typed, Procs
<1>2. \A k \in {"TAKEOVER", "ACK", "REBOOT_REQUESTED", "REBOOT_FAILED"} : k \in Keys \ {"ATTEMPT"} /\ Mark(k) \in LineT /\ Mark(k).k = k
  <2>1. \A k \in {"TAKEOVER", "ACK", "REBOOT_REQUESTED", "REBOOT_FAILED"} : k \in Keys \ {"ATTEMPT"} BY DEF Keys
  <2>2. QED BY <2>1, MarkIs
<1> HIDE DEF Mark
<1>3. ASSUME Rest("owner"), Others', UNCHANGED <<unit, boot, damaged>>, Same, LogStep PROVE Base'
  <2>1. Moves("owner", Idle) BY <1>3, IdleIs DEF Rest, Moves
  <2>2. SameUnit BY <1>3 DEF SameUnit
  <2>3. QED BY <1>3, <2>1, <2>2, MayRest, OwnerKeeps
<1>4. pointer => log # << >> BY DEF LogIsGood
<1>5. ~At("owner", "idle") => log # << >> BY DEF Young
<1>6. CASE AckTakes
  <2>1. UNCHANGED <<files, home, bootFile, damaged, past, abort, judged, barrier, busy, pointer, unit, boot, asked, sd, late>>
    BY <1>6 DEF AckTakes, disk, results, flags, machine, bounds
  <2>2. Others' BY <2>1 DEF Others, Typed
  <2>3. Same /\ LogStep
    <3>1. Write(<<Mark("TAKEOVER")>>) /\ log # << >> BY <1>4, <1>6 DEF AckTakes
    <3>2. QED BY <1>2, <3>1, WritesOne
  <2>4. QED BY <1>3, <1>6, <2>1, <2>2, <2>3 DEF AckTakes
<1>7. CASE AckCloses
  <2>1. PICK k \in 1 .. 4 : Close(k) BY <1>7 DEF AckCloses
  <2>2. UNCHANGED <<files, bootFile, damaged, past, abort, judged, barrier, unit, boot, asked, sd, late>>
    BY <2>1 DEF Close, Fault, results, machine, bounds
  <2>3. home' \in {"backup", "aborted", "done"} /\ busy' \in BOOLEAN /\ pointer' \in BOOLEAN BY <2>1 DEF Close, Typed
  <2>4. Others' BY <2>2, <2>3 DEF Others, Typed
  <2>5. pointer /\ log # << >> BY <1>4, <1>7 DEF AckCloses
  <2>6. /\ Same /\ LogStep /\ log' # << >>
        /\ \A ph \in {"unwind", "verify"} : Cardinality(AutoIn(log', ph)) <= Cardinality(AutoIn(log, ph))
        /\ \A ph \in {"unwind", "verify"} : Cardinality(AutoIn(log', ph)) \in Nat /\ Cardinality(AutoIn(log, ph)) \in Nat
    <3>1. CASE k >= 2
      <4>1. Write(<<Mark("ACK")>>) BY <2>1, <3>1 DEF Close
      <4>2. QED BY <1>2, <2>5, <4>1, WritesOne
    <3>2. CASE ~(k >= 2)
      <4>1. log' = log /\ synced' = synced BY <2>1, <3>2 DEF Close
      <4>2. \A ph : Cardinality(AutoIn(log, ph)) \in Nat BY AutoNat DEF LogIsGood
      <4>3. \A ph : Cardinality(AutoIn(log, ph)) <= Cardinality(AutoIn(log, ph)) BY <4>2
      <4>4. QED BY <2>5, <4>1, <4>2, <4>3 DEF Same, LogStep, LogStays
    <3>3. QED BY <3>1, <3>2
  <2>7. CASE core' = [p \in Procs |-> Idle]
    <3>1. SameUnit BY <2>2 DEF SameUnit
    <3>2. QED BY <2>4, <2>6, <2>7, <3>1, ForgetsKeeps
  <2>8. CASE Rest("owner") BY <1>3, <2>2, <2>4, <2>6, <2>8
  <2>9. QED BY <2>1, <2>7, <2>8 DEF Close
<1>8. CASE RebootLocked
  <2>1. UNCHANGED <<files, home, bootFile, damaged, abort, judged, barrier, busy, pointer, unit, boot, asked, sd, late>> /\ me.pc = "reboot"
    BY <1>8 DEF RebootLocked, disk, results, flags, machine, bounds
  <2>2. CASE Rest("owner") /\ UNCHANGED words
    <3>1. log' = log /\ synced' = synced /\ past' = past BY <2>2 DEF words
    <3>2. Others' BY <2>1, <3>1 DEF Others, Typed
    <3>3. Same /\ LogStep BY <2>1, <3>1 DEF Same, LogStep, LogStays
    <3>4. QED BY <1>3, <2>1, <2>2, <3>2, <3>3
  <2>3. CASE Write(<<Mark("REBOOT_REQUESTED")>>) /\ past' = past \ {"rebootStall"} /\ Goto("owner", "power")
    <3> DEFINE q == [me EXCEPT !.pc = "power"]
    <3>1. "power" \in OwnerPCs /\ "power" \notin LaunchPCs BY DEF OwnerPCs, LaunchPCs
    <3>2. q \in ProcT /\ q.pc = "power" /\ q.op = me.op BY <1>1, <3>1 DEF ProcT
    <3>3. core' = [core EXCEPT !["owner"] = q] BY <2>3 DEF Goto, Typed, Procs
    <3> HIDE DEF q
    <3>4. log # << >> BY <1>5, <2>1 DEF At
    <3>5. me.op # "start" BY <2>1 DEF Places, StartPCs, LaunchPCs
    <3>6. OwnerGoes(q) BY <3>1, <3>2, <3>4, <3>5 DEF OwnerGoes
    <3>7. past' \in SUBSET Deadlines BY <2>3 DEF Typed
    <3>8. Others' /\ SameUnit BY <2>1, <3>7 DEF Others, Typed, SameUnit
    <3>9. Same /\ LogStep BY <1>2, <2>3, <3>4, WritesOne
    <3>10. Moves("owner", q) BY <2>1, <3>2, <3>3 DEF Moves
    <3>11. QED BY <3>6, <3>8, <3>9, <3>10, OwnerKeeps
  <2>4. QED BY <1>8, <2>2, <2>3 DEF RebootLocked
<1>9. CASE RebootPower
  <2>1. UNCHANGED <<files, home, bootFile, damaged, past, abort, judged, barrier, busy, pointer, unit, boot, sd, late>> /\ asked' \in BOOLEAN
    BY <1>9 DEF RebootPower, Fault, disk, results, flags, bounds, Typed
  <2>2. Others' BY <2>1 DEF Others, Typed
  <2>3. log # << >> BY <1>5, <1>9 DEF RebootPower, At
  <2>4. Same /\ LogStep
    <3>1. CASE log' = log /\ synced' = synced BY <2>1, <3>1 DEF Same, LogStep, LogStays
    <3>2. CASE Write(<<Mark("REBOOT_FAILED")>>) BY <1>2, <2>3, <3>2, WritesOne
    <3>3. QED BY <1>9, <3>1, <3>2 DEF RebootPower
  <2>5. QED BY <1>3, <1>9, <2>1, <2>2, <2>4 DEF RebootPower
<1>10. QED BY <1>6, <1>7, <1>8, <1>9

-----------------------------------------------------------------------------
(* The steps of a launch.                                                     *)

\* A process of the core moves where it may, and the log takes no attempt.
LEMMA LaunchMoves ==
    ASSUME Base, Others', NEW p \in Procs, NEW q, Moves(p, q), p = "settle" => LookGoes(q), p = "owner" => OwnerGoes(q),
           SameUnit, Same, LogStep
    PROVE  Base'
<1>1. CASE p = "settle" BY <1>1, LookKeeps
<1>2. CASE p = "owner" BY <1>2, OwnerKeeps
<1>3. QED BY <1>1, <1>2 DEF Procs

\* A process in the middle of a launch works on a run that is there.
LEMMA LaunchIs ==
    ASSUME Base, NEW p \in Procs, core[p].pc \in LaunchPCs
    PROVE  /\ core[p] \in ProcT /\ core[p].act.phase \in Phases /\ log # << >> /\ (p = "settle" => ~Fresh /\ core[p].op = "")
           /\ core[p].act \in [kind : ActKinds, phase : Phase]
           /\ Launching(p) => ~Fresh
<1> USE DEF Base
<1>1. core[p] \in ProcT BY DEF Typed
<1>2. core[p].act \in [kind : ActKinds, phase : Phase] BY <1>1 DEF ProcT
<1>3. core[p].act.phase \in Phases /\ "" \notin Phases BY DEF Places, Phases
<1>4. CASE p = "settle"
  <2>1. ~Fresh /\ core[p].op = "" BY <1>3, <1>4 DEF Young, Places
  <2>2. QED BY <1>1, <1>2, <1>3, <2>1 DEF Fresh
<1>5. CASE p = "owner"
  <2>1. log # << >> BY <1>5 DEF Young, At, LaunchPCs
  <2>2. Launching(p) => ~Fresh BY <1>5, <2>1 DEF Launching, Fresh
  <2>3. QED BY <1>1, <1>2, <1>3, <1>5, <2>1, <2>2
<1>6. QED BY <1>4, <1>5 DEF Procs

\* The blocks of a phase (unit.go, BlockList).
LEMMA BlockListIs ==
    ASSUME NEW phase, NEW f
    PROVE  BlockList(phase, f) \in Seq(BlockIDs)
<1>1. /\ <<"rcheck", "rsources", "rupgrade", "rdone">> \in Seq(BlockIDs) /\ ReversibleBlocks \in Seq(BlockIDs)
      /\ <<"minimal", "full", "prereboot">> \in Seq(BlockIDs) /\ <<"after">> \in Seq(BlockIDs) /\ << >> \in Seq(BlockIDs)
      /\ <<"prereboot">> \in Seq(BlockIDs) /\ <<"forward", "full", "prereboot">> \in Seq(BlockIDs)
      /\ <<"forward", "minimal", "full", "prereboot">> \in Seq(BlockIDs)
  BY DEF BlockIDs, ReversibleBlocks
<1>2. ReversibleBlocks \o <<"minimal", "full", "prereboot">> \in Seq(BlockIDs) BY <1>1, ConcatProperties
<1> HIDE DEF ReversibleBlocks
<1>3. QED BY <1>1, <1>2 DEF BlockList

\* The steps of a launch around the writing of its attempt.
LEMMA LaunchesKeep ==
    ASSUME Base, NEW p \in Procs, LaunchAsk(p) \/ LaunchRun(p) \/ LaunchExists(p) \/ LaunchFailed(p)
    PROVE  Base'
<1> USE DEF Base
<1> DEFINE me == core[p]
<1>1. me.pc \in {"lask", "lrun", "lexists", "lfail"} /\ me.pc \in LaunchPCs
  BY DEF LaunchAsk, LaunchRun, LaunchExists, LaunchFailed, At, LaunchPCs
<1>2. /\ me \in ProcT /\ me.act.phase \in Phases /\ log # << >> /\ (p = "settle" => ~Fresh /\ me.op = "")
      /\ me.act \in [kind : ActKinds, phase : Phase] /\ (Launching(p) => ~Fresh)
  BY <1>1, LaunchIs
<1>3. UNCHANGED <<files, home, bootFile, damaged, past, abort, judged, barrier, busy, pointer, boot, asked, sd, late>>
  BY DEF LaunchAsk, LaunchRun, LaunchExists, LaunchFailed, Fault, disk, words, results, flags, machine, bounds
<1>4. Others' BY <1>3 DEF Others, Typed
<1>5. ASSUME NEW q \in ProcT, core' = [core EXCEPT ![p] = q], p = "settle" => LookGoes(q), p = "owner" => OwnerGoes(q),
             SameUnit, Same, LogStep
      PROVE  Base'
  <2>1. Moves(p, q) BY <1>3, <1>5 DEF Moves
  <2>2. QED BY <1>4, <1>5, <2>1, LaunchMoves
<1>6. ASSUME Rest(p), SameUnit, Same, LogStep PROVE Base'
  <2>1. core' = [core EXCEPT ![p] = Idle] BY <1>6 DEF Rest
  <2>2. QED BY <1>5, <1>6, <2>1, MayRest, IdleIs
<1>7. ASSUME NEW pc \in {"lprep", "lexists", "lfail"}, NEW q \in ProcT, core' = [core EXCEPT ![p] = q], q.pc = pc,
             q.op = me.op, q.act = me.act, q.new = me.new,
             pc = "lprep" => me.pc = "lask", pc # "lprep" => Launching(p),
             SameUnit, Same, LogStep
      PROVE  Base'
  <2>1. pc \in LaunchPCs /\ pc \in SettlePCs /\ pc \in StartPCs /\ pc \in OwnerPCs BY DEF LaunchPCs, SettlePCs, StartPCs, OwnerPCs
  <2>2. ASSUME p = "settle" PROVE LookGoes(q)
    <3>1. ~Fresh /\ me.op = "" BY <1>2, <2>2
    <3>2. q.new => log # << >> /\ log[2].boot # boot BY <1>7, <2>2 DEF Young
    <3>3. \A ph \in {"unwind", "verify"} : pc = "lprep" /\ q.act.phase = ph => Cardinality(AutoIn(log, ph)) < Bound(ph)
      BY <1>7, <2>2 DEF Tries
    <3>4. QED BY <1>2, <1>7, <2>1, <3>1, <3>2, <3>3 DEF LookGoes
  <2>3. ASSUME p = "owner" PROVE OwnerGoes(q)
    <3>1. q.op = "start" /\ pc = "lprep" => Fresh BY <1>7, <2>3 DEF Fresh
    <3>2. QED BY <1>2, <1>7, <2>1, <2>3, <3>1 DEF OwnerGoes
  <2>4. QED BY <1>5, <1>7, <2>2, <2>3
<1>8. CASE LaunchAsk(p)
  <2>1. UNCHANGED <<log, synced, unit>> /\ me.pc = "lask" BY <1>8 DEF LaunchAsk, words, At
  <2>2. SameUnit /\ Same /\ LogStep BY <1>3, <2>1 DEF SameUnit, Same, LogStep, LogStays
  <2> DEFINE q == [me EXCEPT !.pc = "lprep", !.u = Answer]
  <2>3. "lprep" \in SettlePCs /\ Answer \in AnswerT BY DEF SettlePCs, LaunchPCs, Answer, AnswerT, Typed
  <2> HIDE DEF Answer
  <2>4. q \in ProcT /\ q.pc = "lprep" /\ q.op = me.op /\ q.act = me.act /\ q.new = me.new BY <1>2, <2>3 DEF ProcT
  <2>5. core' = [core EXCEPT ![p] = q] BY <1>8 DEF LaunchAsk, Typed
  <2> HIDE DEF q
  <2>6. QED BY <1>7, <2>1, <2>2, <2>4, <2>5
<1>9. ASSUME NEW pc \in {"lexists", "lfail"}, Goto(p, pc), Launching(p), SameUnit, Same, LogStep PROVE Base'
  <2> DEFINE q == [me EXCEPT !.pc = pc]
  <2>1. pc \in SettlePCs BY DEF SettlePCs, LaunchPCs
  <2>2. q \in ProcT /\ q.pc = pc /\ q.op = me.op /\ q.act = me.act /\ q.new = me.new BY <1>2, <2>1 DEF ProcT
  <2>3. core' = [core EXCEPT ![p] = q] BY <1>9 DEF Goto, Typed
  <2> HIDE DEF q
  <2>4. QED BY <1>7, <1>9, <2>2, <2>3
<1>10. CASE LaunchRun(p)
  <2>1. UNCHANGED <<log, synced>> /\ me.pc = "lrun" BY <1>10 DEF LaunchRun, words, At
  <2>2. Same /\ LogStep BY <1>3, <2>1 DEF Same, LogStep, LogStays
  <2>3. Launching(p) /\ ~Fresh BY <1>2, <2>1 DEF Launching
  <2>4. Queued(p) \in UnitT /\ Queued(p).st = "queued" /\ Queued(p).pc = "" /\ Queued(p).idx = 0
    <3> DEFINE list == BlockList(core[p].act.phase, files)
    <3>1. list \in Seq(BlockIDs) BY BlockListIs
    <3>2. NoUnit \in UnitT /\ NoUnit.pc = "" /\ NoUnit.idx = 0 BY DEF NoUnit, UnitT, UnitPCs, Phase
    <3>3. me.n \in Nat /\ me.act.phase \in Phase BY <1>2 DEF ProcT, Phase
    <3>4. Queued(p) = [NoUnit EXCEPT !.st = "queued", !.n = core[p].n, !.phase = core[p].act.phase, !.list = list] BY DEF Queued
    <3> HIDE DEF list, NoUnit
    <3>5. QED BY <3>1, <3>2, <3>3, <3>4 DEF UnitT
  <2>5. unit' \in {unit, NoUnit, Queued(p)} /\ (Rest(p) \/ Goto(p, "lexists")) BY <1>10 DEF LaunchRun
  <2>6. SameUnit BY <2>3, <2>4, <2>5 DEF SameUnit
  <2>7. QED BY <1>6, <1>9, <2>2, <2>3, <2>5, <2>6
<1>11. CASE LaunchExists(p)
  <2>1. UNCHANGED <<log, synced, unit>> /\ me.pc = "lexists" BY <1>11 DEF LaunchExists, words, At
  <2>2. SameUnit /\ Same /\ LogStep BY <1>3, <2>1 DEF SameUnit, Same, LogStep, LogStays
  <2>3. Launching(p) /\ (Goto(p, "lfail") \/ Rest(p)) BY <1>11, <2>1 DEF LaunchExists, Launching
  <2>4. QED BY <1>6, <1>9, <2>2, <2>3
<1>12. CASE LaunchFailed(p)
  <2> DEFINE line == [Mark("START_FAILED") EXCEPT !.n = me.n]
  <2>1. unit' = unit /\ me.pc = "lfail" /\ Write(<<line>>) BY <1>12 DEF LaunchFailed, At
  <2>2. "START_FAILED" \in Keys \ {"ATTEMPT"} BY DEF Keys
  <2>3. me.n \in Nat BY <1>2 DEF ProcT
  <2>4. line \in LineT /\ line.k = "START_FAILED" BY <2>2, <2>3, MarkIs
  <2> HIDE DEF line
  <2>5. Same /\ LogStep BY <1>2, <2>1, <2>2, <2>4, WritesOne
  <2>6. SameUnit BY <2>1 DEF SameUnit
  <2>7. CASE me.op = "start"
    <3> DEFINE q == [me EXCEPT !.pc = "lclear"]
    <3>1. p = "owner" BY <1>2, <2>7 DEF Procs
    <3>2. core' = [core EXCEPT ![p] = q] BY <1>12, <2>7 DEF LaunchFailed, Goto, Typed
    <3>3. "lclear" \in OwnerPCs /\ "lclear" \in StartPCs /\ "lclear" \notin LaunchPCs BY DEF OwnerPCs, StartPCs, LaunchPCs
    <3>4. q \in ProcT /\ q.pc = "lclear" /\ q.op = "start" /\ q.act = me.act BY <1>2, <2>7, <3>3 DEF ProcT
    <3> HIDE DEF q
    <3>5. OwnerGoes(q) BY <1>2, <2>7, <3>1, <3>3, <3>4 DEF OwnerGoes
    <3>6. QED BY <1>5, <2>5, <2>6, <3>1, <3>2, <3>4, <3>5
  <2>8. CASE me.op # "start"
    <3>1. Rest(p) BY <1>12, <2>8 DEF LaunchFailed
    <3>2. QED BY <1>6, <2>5, <2>6, <3>1
  <2>9. QED BY <2>7, <2>8
<1>13. QED BY <1>8, <1>10, <1>11, <1>12

\* Of numbers.
LEMMA OneMoreFits == \A a, b \in Nat : (a < b => a + 1 <= b) /\ (a <= b => a + 0 <= b)
OBVIOUS

\* The log takes an attempt: the core's own one is within its number of tries.
LEMMA AttemptKeeps ==
    ASSUME Base, Others', NEW p \in Procs, NEW phase \in Phases, Prepares(p, phase), log # << >>,
           LogStep, log' # << >>, log'[2] = log[2],
           \A ph : Cardinality(AutoIn(log', ph)) = Cardinality(AutoIn(log, ph)) + IF p = "settle" /\ phase = ph THEN 1 ELSE 0,
           unit' = unit, NEW q, Moves(p, q),
           p = "settle" =>
              /\ q.pc \in {"idle", "lrun"} /\ q.op = "" /\ (q.pc = "idle" => q = Idle)
              /\ q.pc = "lrun" => q.act.phase \in Phases /\ q.new = core[p].new,
           p = "owner" => OwnerGoes(q) /\ (q.op = "start" /\ q.pc \in {"apps", "lask", "lprep", "abandon"} => damaged)
    PROVE  Base'
<1> USE DEF Base
<1>1. core \in [Procs -> ProcT] /\ core' \in [Procs -> ProcT] /\ core'[p] = q /\ (\A x \in Procs \ {p} : core'[x] = core[x])
      /\ boot' = boot /\ damaged' = damaged
  BY DEF Moves, Typed
<1>2. SameUnit BY DEF SameUnit
<1>3. Typed' BY <1>1, <1>2, UnitStays DEF Others, Typed
<1>4. LogIsGood' BY LogKept DEF Typed
<1>5. \A ph : Cardinality(AutoIn(log, ph)) \in Nat BY AutoNat DEF LogIsGood
<1>6. Bound("unwind") \in Nat /\ Bound("verify") \in Nat BY TimingAssumption DEF Bound
<1>7. CASE p = "settle"
  <2>1. core'["settle"] = q /\ core'["owner"] = core["owner"] BY <1>1, <1>7 DEF Procs
  <2>2. core["settle"].pc = "lprep" /\ core["settle"].act.phase = phase BY <1>7 DEF Prepares, At
  <2>3. ~Fresh BY <2>2 DEF Young, Phases
  <2>4. ~Fresh' BY <2>1, <2>3 DEF Fresh
  <2>5. q.pc \in SettlePCs /\ (q.pc = "idle" => q.pc \notin LaunchPCs) /\ q.pc # "boot" BY <1>7 DEF SettlePCs, LaunchPCs
  <2>6. q.act.kind \in Launches => q.act.phase \in Phases BY <1>7, IdleIs
  <2>7. Places' BY <1>7, <2>1, <2>5, <2>6 DEF Places, At, Procs
  <2>8. ~Looking' BY <1>7, <2>1 DEF Looking
  <2>9. q.new => core["settle"].new BY <1>7, IdleIs
  <2>10. Young' BY <1>1, <2>1, <2>4, <2>8, <2>9 DEF Young, At
  <2>11. SeenIsGood' BY <2>8 DEF SeenIsGood
  <2>12. Tries'
    <3>1. \A ph \in {"unwind", "verify"} : phase = ph => Cardinality(AutoIn(log, ph)) < Bound(ph) BY <2>2 DEF Tries
    <3>2. ASSUME NEW ph \in {"unwind", "verify"} PROVE Cardinality(AutoIn(log', ph)) <= Bound(ph)
      <4>1. Bound(ph) \in Nat /\ Cardinality(AutoIn(log, ph)) \in Nat BY <1>5, <1>6
      <4>2. CASE phase = ph
        <5>1. Cardinality(AutoIn(log', ph)) = Cardinality(AutoIn(log, ph)) + 1 BY <1>7, <4>2
        <5>2. Cardinality(AutoIn(log, ph)) < Bound(ph) BY <3>1, <4>2
        <5>3. Cardinality(AutoIn(log, ph)) + 1 <= Bound(ph) BY <4>1, <5>2, OneMoreFits, Zenon
        <5>4. QED BY <5>1, <5>3, Zenon
      <4>3. CASE phase # ph
        <5>1. Cardinality(AutoIn(log', ph)) = Cardinality(AutoIn(log, ph)) + 0 BY <1>7, <4>3
        <5>2. Cardinality(AutoIn(log, ph)) <= Bound(ph) BY DEF Tries
        <5>3. Cardinality(AutoIn(log, ph)) + 0 <= Bound(ph) BY <4>1, <5>2, OneMoreFits, Zenon
        <5>4. QED BY <5>1, <5>3, Zenon
      <4>4. QED BY <4>2, <4>3
    <3>3. q.pc \notin {"asked", "boot", "do", "lask", "lprep"} BY <1>7
    <3>4. QED BY <2>1, <2>8, <3>2, <3>3 DEF Tries
  <2>13. QED BY <1>3, <1>4, <2>7, <2>10, <2>11, <2>12
<1>8. CASE p = "owner"
  <2>1. core'["owner"] = q /\ core'["settle"] = core["settle"] BY <1>1, <1>8 DEF Procs
  <2>2. \A ph : Cardinality(AutoIn(log', ph)) = Cardinality(AutoIn(log, ph)) BY <1>5, <1>8
  <2>3. Fresh' => Fresh /\ damaged BY <1>8, <2>1 DEF Fresh, OwnerGoes
  <2>4. Places' BY <1>8, <2>1 DEF Places, OwnerGoes, At, Procs
  <2>5. Looking' = Looking /\ Seen' = Seen BY <2>1 DEF Looking, Seen
  <2>6. Young'
    <3>1. q.op = "start" => log[2].boot = boot BY <1>8 DEF OwnerGoes, Young
    <3>2. QED BY <1>1, <2>1, <2>3, <2>5, <3>1 DEF Young, At, Launching
  <2>7. SeenIsGood' BY <2>5 DEF SeenIsGood
  <2>8. Tries' BY <2>1, <2>2, <2>5 DEF Tries, Seen
  <2>9. QED BY <1>3, <1>4, <2>4, <2>6, <2>7, <2>8
<1>9. QED BY <1>7, <1>8 DEF Procs

\* launchPrepareLocked writes an attempt or refuses it.
LEMMA PrepareKeeps ==
    ASSUME Base, PrepareStep
    PROVE  Base'
<1> USE DEF Base
<1>1. PICK p \in Procs, phase \in Phases :
         /\ Prepares(p, phase)
         /\ UNCHANGED <<disk, unit, machine, bounds>>
         /\ \/ PrepareRefused(p)
            \/ \E n : PrepareBroken(p, phase, n) \/ PrepareTaken(p, phase, n)
  BY DEF PrepareStep
<1> DEFINE me == core[p]
<1>2. UNCHANGED <<files, home, bootFile, damaged, unit, boot, asked, sd, late>> BY <1>1 DEF disk, machine, bounds
<1>3. me \in ProcT BY DEF Typed
<1>4. me.op = "start" => p = "owner" /\ me.pc = "lprep" /\ Fresh /\ me.act.phase \in Phases
  <2>1. p = "settle" => me.op = "" BY DEF Places
  <2>2. me.op = "start" => p = "owner" /\ me.pc = "lprep" BY <1>1, <2>1 DEF Prepares, At, Procs
  <2>3. QED BY <2>2 DEF Fresh, Places
<1>5. p = "owner" => log # << >>
  <2>1. p = "owner" => core["owner"].pc # "idle" BY <1>1 DEF Prepares, At
  <2>2. QED BY <2>1 DEF Young, At
<1>6. Refused(p) => \/ me.op = "start" /\ core' = [core EXCEPT ![p] = [me EXCEPT !.pc = "abandon"]]
                    \/ me.op # "start" /\ core' = [core EXCEPT ![p] = Idle]
  BY DEF Refused, Goto, Rest, Typed
<1>7. ASSUME me.op = "start"
      PROVE  /\ [me EXCEPT !.pc = "abandon"] \in ProcT /\ OwnerGoes([me EXCEPT !.pc = "abandon"])
             /\ [me EXCEPT !.pc = "abandon"].pc = "abandon"
  <2> DEFINE q == [me EXCEPT !.pc = "abandon"]
  <2>1. "abandon" \in OwnerPCs /\ "abandon" \in StartPCs /\ "abandon" \notin LaunchPCs BY DEF OwnerPCs, StartPCs, LaunchPCs
  <2>2. q \in ProcT /\ q.pc = "abandon" /\ q.op = "start" /\ q.act = me.act BY <1>3, <1>7, <2>1 DEF ProcT
  <2> HIDE DEF q
  <2>3. OwnerGoes(q) BY <1>4, <1>5, <1>7, <2>1, <2>2 DEF OwnerGoes
  <2>4. QED BY <2>2, <2>3 DEF q
<1>8. CASE PrepareRefused(p)
  <2>1. UNCHANGED <<log, synced, past, abort, judged, barrier, busy, pointer>> BY <1>8 DEF PrepareRefused, words, results, flags
  <2>2. Others' BY <1>2, <2>1 DEF Others, Typed
  <2>3. SameUnit /\ Same /\ LogStep BY <1>2, <2>1 DEF SameUnit, Same, LogStep, LogStays
  <2>4. PICK q \in ProcT : core' = [core EXCEPT ![p] = q] /\ (p = "settle" => LookGoes(q)) /\ (p = "owner" => OwnerGoes(q))
    <3>1. Refused(p) BY <1>8 DEF PrepareRefused
    <3>2. CASE me.op = "start" BY <1>4, <1>6, <1>7, <3>1, <3>2
    <3>3. CASE me.op # "start" BY <1>6, <3>1, <3>3, IdleIs, MayRest
    <3>4. QED BY <3>2, <3>3
  <2>5. Moves(p, q) BY <1>2, <2>4 DEF Moves
  <2>6. QED BY <2>2, <2>3, <2>4, <2>5, LaunchMoves
<1>9. ASSUME NEW n, Prepared(p, phase, n)
      PROVE  LET line == AttemptLine(p, n, phase)
             IN  /\ line \in LineT /\ line.k = "ATTEMPT" /\ Append(log, line) \in Seq(LineT) /\ Append(log, line) # << >>
                 /\ Append(log, line)[2] = log[2] /\ log # << >> /\ Len(Append(log, line)) >= 2
                 /\ \A ph : Cardinality(AutoIn(Append(log, line), ph)) =
                               Cardinality(AutoIn(log, ph)) + IF p = "settle" /\ phase = ph THEN 1 ELSE 0
  <2> DEFINE line == AttemptLine(p, n, phase)
  <2>1. n \in Nat /\ log # << >> BY <1>9 DEF Prepared
  <2>2. line \in LineT /\ line.k = "ATTEMPT" /\ line.phase = phase /\ (line.who = "auto" <=> p = "settle") BY <2>1, AttemptLineIs
  <2> HIDE DEF line
  <2>3. log \in Seq(LineT) /\ Len(log) >= 2 BY <2>1, LogGood DEF LogIsGood
  <2>4. /\ Append(log, line) \in Seq(LineT) /\ Len(log) \in Nat /\ Len(Append(log, line)) = Len(log) + 1
        /\ \A i \in 1 .. Len(log) : Append(log, line)[i] = log[i]
        /\ \A ph : Cardinality(AutoIn(Append(log, line), ph)) = Cardinality(AutoIn(log, ph)) +
                            IF line.k = "ATTEMPT" /\ line.phase = ph /\ line.who = "auto" THEN 1 ELSE 0
    BY <2>2, <2>3, LinesGrow
  <2>5. Append(log, line) # << >> /\ Append(log, line)[2] = log[2] /\ Len(Append(log, line)) >= 2 BY <2>3, <2>4
  <2>6. \A ph : Cardinality(AutoIn(Append(log, line), ph)) = Cardinality(AutoIn(log, ph)) + IF p = "settle" /\ phase = ph THEN 1 ELSE 0
    BY <2>2, <2>4
  <2>7. QED BY <2>1, <2>2, <2>4, <2>5, <2>6 DEF line
<1>10. ASSUME NEW n, PrepareTaken(p, phase, n) PROVE Base'
  <2> DEFINE line == AttemptLine(p, n, phase)
             q == [me EXCEPT !.pc = "lrun", !.n = n, !.u = NoAnswer, !.act.phase = phase]
  <2>1. Prepared(p, phase, n) /\ n \in Nat BY <1>10 DEF PrepareTaken, Prepared
  <2>2. log' = Append(log, line) /\ synced' = Len(log') BY <1>10 DEF PrepareTaken
  <2>3. /\ line \in LineT /\ line.k = "ATTEMPT" /\ log' # << >> /\ log # << >>
        /\ log'[2] = log[2] /\ \A ph : Cardinality(AutoIn(log', ph)) =
                               Cardinality(AutoIn(log, ph)) + IF p = "settle" /\ phase = ph THEN 1 ELSE 0
    BY <1>9, <2>1, <2>2
  <2>4. LogTakes(line) BY <2>1, <2>2, <2>3 DEF LogTakes, Prepared
  <2> HIDE DEF line
  <2>5. LogStep BY <2>4 DEF LogStep
  <2>6. past' \in SUBSET Deadlines /\ judged' \in Verdicts \cup {"none"} /\ UNCHANGED <<busy, pointer, abort, barrier>>
    BY <1>10 DEF PrepareTaken, flags, Typed
  <2>7. Others' BY <1>2, <2>6 DEF Others, Typed
  <2>8. core' = [core EXCEPT ![p] = q] BY <1>10, ZenonT(60) DEF PrepareTaken, Typed
  <2>9. me.act \in [kind : ActKinds, phase : Phase] BY <1>3 DEF ProcT
  <2>10. NoAnswer \in AnswerT /\ "lrun" \in SettlePCs /\ "lrun" \in OwnerPCs /\ "lrun" \in StartPCs /\ "lrun" \in LaunchPCs /\ phase \in Phase
    BY DEF NoAnswer, AnswerT, SettlePCs, OwnerPCs, StartPCs, LaunchPCs, Phase
  <2> HIDE DEF NoAnswer
  <2>11. q \in ProcT /\ q.pc = "lrun" /\ q.op = me.op /\ q.act.phase = phase /\ q.new = me.new BY <1>3, <2>1, <2>9, <2>10 DEF ProcT
  <2> HIDE DEF q
  <2>12. Moves(p, q) BY <1>2, <2>8, <2>11 DEF Moves
  <2>13. p = "owner" => OwnerGoes(q) BY <1>4, <2>3, <2>10, <2>11 DEF OwnerGoes
  <2>14. p = "settle" => q.op = "" BY <2>11 DEF Places
  <2>15. QED BY <1>1, <1>2, <2>3, <2>5, <2>7, <2>11, <2>12, <2>13, <2>14, AttemptKeeps
<1>11. ASSUME NEW n, PrepareBroken(p, phase, n) PROVE Base'
  <2> DEFINE line == AttemptLine(p, n, phase)
             l == Append(log, line)
             fail == [Mark("START_FAILED") EXCEPT !.n = n]
  <2>1. Prepared(p, phase, n) /\ n \in Nat /\ damaged BY <1>11 DEF PrepareBroken, Prepared
  <2>2. log' = Append(l, fail) /\ synced' = Len(log') BY <1>11 DEF PrepareBroken
  <2>3. /\ line \in LineT /\ line.k = "ATTEMPT" /\ l \in Seq(LineT) /\ log # << >> /\ Len(l) >= 2
        /\ l[2] = log[2] /\ \A ph : Cardinality(AutoIn(l, ph)) =
                               Cardinality(AutoIn(log, ph)) + IF p = "settle" /\ phase = ph THEN 1 ELSE 0
    BY <1>9, <2>1
  <2>4. fail \in LineT /\ fail.k = "START_FAILED"
    <3>1. "START_FAILED" \in Keys BY DEF Keys
    <3>2. QED BY <2>1, <3>1, MarkIs
  <2> HIDE DEF fail
  <2>5. NextIs(log, line) BY <2>1 DEF Prepared
  <2>6. LogBreaks(line, fail) BY <2>2, <2>3, <2>4, <2>5 DEF LogBreaks
  <2>7. LogStep BY <2>6 DEF LogStep
  <2> HIDE DEF line, l
  <2>8. /\ Len(l) \in Nat /\ Len(log') = Len(l) + 1 /\ \A i \in 1 .. Len(l) : log'[i] = l[i]
        /\ \A ph : Cardinality(AutoIn(l, ph)) \in Nat
        /\ \A ph : Cardinality(AutoIn(log', ph)) = Cardinality(AutoIn(l, ph)) +
                            IF fail.k = "ATTEMPT" /\ fail.phase = ph /\ fail.who = "auto" THEN 1 ELSE 0
        /\ log' \in Seq(LineT)
    BY <2>2, <2>3, <2>4, LinesGrow
  <2>9. log' # << >> /\ log'[2] = log[2] BY <2>3, <2>8
  <2>10. \A ph : Cardinality(AutoIn(log', ph)) = Cardinality(AutoIn(l, ph)) BY <2>4, <2>8
  <2>11. \A ph : Cardinality(AutoIn(log', ph)) = Cardinality(AutoIn(log, ph)) + IF p = "settle" /\ phase = ph THEN 1 ELSE 0
    BY <2>3, <2>10
  <2>12. past' \in SUBSET Deadlines /\ UNCHANGED <<busy, pointer, abort, judged, barrier>>
    BY <1>11 DEF PrepareBroken, flags, results, Typed
  <2>13. Others' BY <1>2, <2>12 DEF Others, Typed
  <2>14. Refused(p) BY <1>11 DEF PrepareBroken
  <2>15. CASE me.op = "start"
    <3> DEFINE q == [me EXCEPT !.pc = "abandon"]
    <3>1. q \in ProcT /\ OwnerGoes(q) /\ p = "owner" BY <1>4, <1>7, <2>15
    <3>2. Moves(p, q) BY <1>2, <1>6, <2>14, <2>15, <3>1 DEF Moves
    <3> HIDE DEF q
    <3>3. QED BY <1>1, <1>2, <2>1, <2>3, <2>7, <2>9, <2>11, <2>13, <3>1, <3>2, AttemptKeeps
  <2>16. CASE me.op # "start"
    <3>1. Moves(p, Idle) BY <1>2, <1>6, <2>14, <2>16, IdleIs DEF Moves
    <3>2. OwnerGoes(Idle) /\ Idle.op # "start" /\ Idle.op = "" /\ Idle.pc = "idle" BY IdleIs, MayRest
    <3>3. QED BY <1>1, <1>2, <2>3, <2>7, <2>9, <2>11, <2>13, <3>1, <3>2, AttemptKeeps
  <2>17. QED BY <2>15, <2>16
<1>12. QED BY <1>1, <1>8, <1>10, <1>11

-----------------------------------------------------------------------------
(* The steps of the machine, and the whole.                                   *)

\* Kills, crashes, losses of power, silences of systemd, damage, an owner at the console and time.
LEMMA MachineKeeps ==
    ASSUME Base, MachineStep \/ \E d \in Deadlines : Elapse(d)
    PROVE  Base'
<1> USE DEF Base
<1>0. \A ph : Cardinality(AutoIn(log, ph)) \in Nat BY AutoNat DEF LogIsGood
<1>1. ASSUME core' = core, Others', UNCHANGED <<log, synced, pointer, boot>>, unit' \in {unit, NoUnit}, damaged => damaged' PROVE Base'
  <2>1. SameUnit BY <1>1 DEF SameUnit
  <2>2. Typed' BY <1>1, <2>1, UnitStays DEF Others, Typed
  <2>3. LogIsGood' BY <1>1 DEF LogIsGood
  <2>4. Places' BY <1>1 DEF Places, At
  <2>5. Looking' = Looking /\ Seen' = Seen /\ Fresh' = Fresh BY <1>1 DEF Looking, Seen, Fresh
  <2>6. Fresh => unit'.st = "none" BY <2>1, UnitStays DEF Young
  <2>7. Young' BY <1>1, <2>5, <2>6 DEF Young, At, Launching
  <2>8. SeenIsGood' BY <2>5 DEF SeenIsGood
  <2>9. Tries' BY <1>1, <2>5 DEF Tries, Seen
  <2>10. QED BY <2>2, <2>3, <2>4, <2>7, <2>8, <2>9
<1>2. CASE UnitKill
  <2>1. UNCHANGED <<files, home, bootFile, damaged, log, synced, past, abort, judged, barrier, busy, pointer, boot, asked, sd, core, late>> /\ unit' = NoUnit
    BY <1>2 DEF UnitKill, Fault, disk, words, results, flags, machine
  <2>2. Others' BY <2>1 DEF Others, Typed
  <2>3. QED BY <1>1, <2>1, <2>2
<1>3. CASE CoreCrash
  <2>1. UNCHANGED <<files, home, bootFile, damaged, log, synced, abort, judged, barrier, busy, pointer, unit, boot, asked, sd, late>>
    BY <1>3 DEF CoreCrash, Fault, disk, results, flags, machine
  <2>2. past' \in SUBSET Deadlines /\ core' = [p \in Procs |-> Idle] BY <1>3 DEF CoreCrash, Typed
  <2>3. Others' /\ SameUnit /\ LogStep BY <2>1, <2>2 DEF Others, Typed, SameUnit, LogStep, LogStays
  <2>4. \A ph : Cardinality(AutoIn(log', ph)) <= Cardinality(AutoIn(log, ph)) /\ Cardinality(AutoIn(log', ph)) \in Nat BY <1>0, <2>1
  <2>5. QED BY <1>0, <2>1, <2>2, <2>3, <2>4, ForgetsKeeps
<1>4. ASSUME Boot, late' = late, LogStep, log' = << >> => log = << >>,
             \A ph \in {"unwind", "verify"} : Cardinality(AutoIn(log', ph)) <= Cardinality(AutoIn(log, ph)),
             \A ph \in {"unwind", "verify"} : Cardinality(AutoIn(log', ph)) \in Nat
      PROVE  Base'
  <2>1. UNCHANGED <<files, home, bootFile, damaged, abort, judged, barrier, busy, pointer>> BY <1>4 DEF Boot, disk, results, flags
  <2>2. /\ past' \in SUBSET Deadlines /\ boot' \in Nat \ {0} /\ asked' = FALSE /\ sd' = TRUE /\ unit' = NoUnit
        /\ core' = [p \in Procs |-> Idle]
    BY <1>4 DEF Boot, Typed
  <2>3. Others' /\ SameUnit BY <1>4, <2>1, <2>2 DEF Others, Typed, SameUnit
  <2>4. QED BY <1>0, <1>4, <2>2, <2>3, ForgetsKeeps
<1>5. CASE Restart
  <2>1. log' = log /\ synced' = synced /\ late' = late /\ Boot /\ pointer' = pointer BY <1>5 DEF Restart, Boot, bounds, flags
  <2>2. LogStep BY <2>1 DEF LogStep, LogStays
  <2>3. \A ph : Cardinality(AutoIn(log', ph)) <= Cardinality(AutoIn(log, ph)) /\ Cardinality(AutoIn(log', ph)) \in Nat BY <1>0, <2>1
  <2>4. QED BY <1>4, <2>1, <2>2, <2>3
<1>6. CASE PowerLoss
  <2>1. pointer /\ Boot /\ late' = late BY <1>6 DEF PowerLoss, Fault
  <2>2. log # << >> /\ log \in Seq(LineT) /\ synced \in Nat /\ synced >= 2 BY <2>1 DEF LogIsGood
  <2>3. Len(log) \in Nat /\ DOMAIN log = 1 .. Len(log) BY <2>2, LenProperties
  <2>4. PICK k \in synced .. Len(log) : log' = SubSeq(log, 1, k) /\ synced' = k BY <1>6 DEF PowerLoss
  <2>5. LogStep BY <2>2, <2>4 DEF LogStep, LogCut
  <2>6. k \in 0 .. Len(log) /\ k >= 2 BY <2>2, <2>3
  <2>7. log' \in Seq(LineT) /\ Len(log') = k /\ \A i \in 1 .. k : log'[i] = log[i] BY <2>2, <2>4, <2>6, FirstLines
  <2>8. DOMAIN log' = 1 .. k /\ log' # << >> BY <2>6, <2>7, LenProperties
  <2>9. ASSUME NEW ph PROVE Cardinality(AutoIn(log', ph)) <= Cardinality(AutoIn(log, ph)) /\ Cardinality(AutoIn(log', ph)) \in Nat
    <3>1. AutoIn(log', ph) \subseteq AutoIn(log, ph) BY <2>3, <2>6, <2>7, <2>8 DEF AutoIn
    <3>2. AutoIn(log, ph) \in SUBSET (1 .. Len(log)) BY <2>3 DEF AutoIn
    <3>3. IsFiniteSet(AutoIn(log, ph)) BY <2>3, <3>2, OneMore
    <3>4. QED BY <2>7, <3>1, <3>3, FS_Subset, AutoNat
  <2>10. QED BY <1>4, <2>1, <2>5, <2>8, <2>9
<1>7. CASE SystemdSilent \/ SystemdBack
  <2>1. UNCHANGED <<files, home, bootFile, damaged, log, synced, abort, judged, barrier, busy, pointer, unit, boot, asked, core, late>>
    BY <1>7 DEF SystemdSilent, SystemdBack, Fault, disk, words, results, flags, bounds
  <2>2. past' \in SUBSET Deadlines /\ sd' \in BOOLEAN BY <1>7 DEF SystemdSilent, SystemdBack, words, Typed
  <2>3. Others' BY <2>1, <2>2 DEF Others, Typed
  <2>4. QED BY <1>1, <2>1, <2>3
<1>8. CASE Damage
  <2>1. UNCHANGED <<files, home, bootFile, log, synced, past, abort, judged, barrier, busy, pointer, unit, boot, asked, sd, core, late>> /\ damaged' = TRUE
    BY <1>8 DEF Damage, Fault, words, results, flags, machine
  <2>2. Others' BY <2>1 DEF Others, Typed
  <2>3. QED BY <1>1, <2>1, <2>2
<1>9. CASE ByHand
  <2>1. UNCHANGED <<home, bootFile, damaged, log, synced, past, abort, judged, barrier, busy, pointer, unit, boot, asked, sd, core, late>>
    BY <1>9 DEF ByHand, words, results, flags, machine, bounds
  <2>2. files' \in SUBSET Files BY <1>9 DEF ByHand, Files, Typed
  <2>3. Others' BY <2>1, <2>2 DEF Others, Typed
  <2>4. QED BY <1>1, <2>1, <2>3
<1>10. ASSUME NEW d \in Deadlines, Elapse(d) PROVE Base'
  <2>1. UNCHANGED <<files, home, bootFile, damaged, log, synced, abort, judged, barrier, busy, pointer, unit, boot, asked, sd, core, late>>
    BY <1>10 DEF Elapse, disk, results, flags, machine, bounds
  <2>2. past' \in SUBSET Deadlines BY <1>10 DEF Elapse, Typed
  <2>3. Others' BY <2>1, <2>2 DEF Others, Typed
  <2>4. QED BY <1>1, <2>1, <2>3
<1>11. QED BY <1>2, <1>3, <1>5, <1>6, <1>7, <1>8, <1>9, <1>10 DEF MachineStep

\* It holds at first.
LEMMA BaseStarts ==
    ASSUME Init
    PROVE  Base
<1>1. core["settle"] = Idle /\ core["owner"] = Idle /\ core \in [Procs -> ProcT] BY IdleIs DEF Init, Procs
<1>2. late \in BOOLEAN BY KindAssumption DEF Init
<1>3. NoUnit \in UnitT /\ Len(NoUnit.list) = 0 /\ NoUnit.idx = 0 /\ NoUnit.pc = "" /\ NoUnit.st = "none" BY DEF NoUnit, UnitT, UnitPCs, Phase
<1>4. log = << >> /\ synced = 0 /\ ~pointer /\ unit = NoUnit BY DEF Init
<1>5. Typed
  <2> HIDE DEF NoUnit, Idle
  <2>1. 0 <= 0 OBVIOUS
  <2>2. unit \in UnitT /\ unit.idx <= Len(unit.list) /\ unit.pc = "" BY <1>3, <1>4, <2>1
  <2>3. 0 \in Nat /\ 1 \in Nat \ {0} OBVIOUS
  <2>4. past \in SUBSET Deadlines /\ files \in SUBSET Files /\ home \in {"backup", "aborted", "done"} /\ bootFile \in Nat /\ boot \in Nat \ {0}
    BY <2>3 DEF Init
  <2>5. damaged \in BOOLEAN /\ abort \in BOOLEAN /\ busy \in BOOLEAN /\ pointer \in BOOLEAN /\ asked \in BOOLEAN /\ sd \in BOOLEAN
        /\ judged \in Verdicts \cup {"none"} /\ barrier \in {"none", "ok", "red"}
    BY DEF Init
  <2>6. QED BY <1>1, <1>2, <1>4, <2>2, <2>4, <2>5 DEF Typed
<1>6. LogIsGood BY <1>4 DEF LogIsGood
<1> HIDE DEF Idle, NoUnit
<1>7. Places BY <1>1, IdleIs DEF Places, At, Procs, SettlePCs, OwnerPCs, LaunchPCs
<1>8. ~Looking BY <1>1, IdleIs DEF Looking
<1>9. Tried(<< >>) = {} /\ \A ph : AutoIn(<< >>, ph) = {} BY DEF Tried, AutoIn
<1>10. Young BY <1>1, <1>3, <1>4, <1>8, <1>9, IdleIs DEF Young, At, Launching
<1>11. SeenIsGood BY <1>8 DEF SeenIsGood
<1>12. Tries
  <2>1. \A ph : Cardinality(AutoIn(log, ph)) = 0 BY <1>4, <1>9, FS_EmptySet
  <2>2. \A ph \in {"unwind", "verify"} : 0 <= Bound(ph) BY TimingAssumption DEF Bound
  <2>3. QED BY <1>1, <1>8, <2>1, <2>2, IdleIs DEF Tries
<1>13. QED BY <1>5, <1>6, <1>7, <1>10, <1>11, <1>12 DEF Base

\* The steps of the core keep it.
LEMMA CoreKeeps ==
    ASSUME Base, CoreStep
    PROVE  Base'
<1>1. CASE DropStrayFlag \/ Judge \/ Forget BY <1>1, RestKeeps
<1>2. CASE SettleRead BY <1>2, ReadKeeps
<1>3. CASE SettleAsk BY <1>3, AskKeeps
<1>4. CASE KeepFlag BY <1>4, FlagKeeps
<1>5. CASE SeeBoot BY <1>5, BootKeeps
<1>6. CASE SettleDo BY <1>6, DoKeeps
<1>7. CASE StartOpen BY <1>7, OpenKeeps
<1>8. CASE Abandon BY <1>8, AbandonKeeps
<1>9. CASE StartApps \/ StartClears \/ AckRefused \/ JudgeAgain \/ AbortLook \/ AbortStop BY <1>9, RequestsKeep
<1>10. CASE (\E op \in Buttons : AckAsk(op)) \/ ResumeAsk \/ RebootAsk \/ AbortFlag BY <1>10, AsksKeep
<1>11. CASE AckTakes \/ AckCloses \/ RebootLocked \/ RebootPower BY <1>11, WritesKeep
<1>12. CASE PrepareStep BY <1>12, PrepareKeeps
<1>13. CASE \E p \in Procs : LaunchAsk(p) \/ LaunchRun(p) \/ LaunchExists(p) \/ LaunchFailed(p) BY <1>13, LaunchesKeep
<1>14. QED BY <1>1, <1>2, <1>3, <1>4, <1>5, <1>6, <1>7, <1>8, <1>9, <1>10, <1>11, <1>12, <1>13 DEF CoreStep

\* Every step keeps it.
LEMMA BaseKept ==
    ASSUME Base, [Next]_vars
    PROVE  Base'
<1>1. CASE Next
  <2>1. DriverStep \/ CoreStep \/ MachineStep \/ \E d \in Deadlines : Elapse(d) BY <1>1, StepIs DEF Base
  <2>2. CASE DriverStep BY <2>2, DriverSpeaks, SpeaksKeeps DEF Base
  <2>3. QED BY <2>1, <2>2, CoreKeeps, MachineKeeps
<1>2. CASE UNCHANGED vars
  <2>1. UNCHANGED <<files, home, bootFile, damaged, log, synced, past, abort, judged, barrier, busy, pointer, unit, boot, asked, sd, core, late>>
    BY <1>2 DEF vars, disk, words, results, flags, machine, bounds
  <2>2. Typed' BY <2>1 DEF Base, Typed
  <2>3. LogIsGood' BY <2>1 DEF Base, LogIsGood
  <2>4. Places' BY <2>1 DEF Base, Places, At
  <2>5. Looking' = Looking /\ Seen' = Seen /\ Fresh' = Fresh BY <2>1 DEF Looking, Seen, Fresh
  <2>6. Young' BY <2>1, <2>5 DEF Base, Young, At, Launching
  <2>7. SeenIsGood' BY <2>5 DEF Base, SeenIsGood
  <2>8. Tries' BY <2>1, <2>5 DEF Base, Tries, Seen
  <2>9. QED BY <2>2, <2>3, <2>4, <2>6, <2>7, <2>8 DEF Base
<1>3. QED BY <1>1, <1>2

\* The undoings and the checks that the core makes by itself are bounded (relaunchVerify and
\* afterInterruption count them from the log), whatever is killed, lost, cut off or late.
THEOREM TriesBounded == Spec => []RetriesBounded
<1>1. Init => Base BY BaseStarts
<1>2. Base /\ [Next]_vars => Base' BY BaseKept
<1>3. Base => RetriesBounded
  <2>1. ByItself("unwind") = Cardinality(AutoIn(log, "unwind")) /\ ByItself("verify") = Cardinality(AutoIn(log, "verify"))
    BY DEF ByItself, AutoIn
  <2>2. Bound("unwind") = MaxUnwindAttempts /\ Bound("verify") = MaxVerifyAttempts BY DEF Bound
  <2>3. QED BY <2>1, <2>2 DEF Base, Tries, RetriesBounded
<1>4. QED BY <1>1, <1>2, <1>3, PTL DEF Spec

\* Nothing is put back once packages are being changed: the undoing looks at the folder it would
\* put aside (driver.go, unwind), and nothing else puts one aside.
THEOREM NothingUndone == Spec => NeverUndone
<1>1. ASSUME [Next]_vars, home = "backup", home' = "aborted" PROVE ~PNR(files)
  <2>1. home' # home BY <1>1
  <2>2. Undo
    <3>1. ASSUME Next PROVE Undo
      <4>1. CASE DriverStep BY <1>1, <4>1 DEF DriverStep, UnitStart, UnitCheck, BlockStart, ReadFlag, Begin, BlockDone, BlockFail,
                                BlockStop, Undone, PhaseEnd, PutAway, UnitEnd, disk
      <4>2. CASE SettleStep BY <2>1, <4>2 DEF SettleStep, DropStrayFlag, SettleRead, SettleAsk, KeepFlag, SeeBoot, SettleDo, Judge, Forget, disk
      <4>3. ASSUME NEW p, NEW phase, Prepare(p, phase) PROVE home' = home BY <4>3 DEF Prepare, disk
      <4>4. CASE OwnerStep
        <5>1. CASE AckLocked
          <6>1. CASE Prepare("owner", "unwind") BY <2>1, <4>3, <6>1
          <6>2. CASE disk' = disk BY <2>1, <6>2 DEF disk
          <6>3. CASE \E k \in 1 .. 4 : Close(k) BY <1>1, <6>3 DEF Close
          <6>4. QED BY <5>1, <6>1, <6>2, <6>3 DEF AckLocked
        <5>2. CASE OwnerStep /\ ~AckLocked
          BY <2>1, <5>2 DEF OwnerStep, StartOpen, StartApps, StartClears, Abandon, AckAsk, ResumeAsk, JudgeAgain, RebootAsk, RebootLocked,
                     RebootPower, AbortFlag, AbortLook, AbortStop, disk
        <5>3. QED BY <4>4, <5>1, <5>2
      <4>5. CASE MachineStep BY <2>1, <4>5 DEF MachineStep, UnitKill, CoreCrash, Restart, PowerLoss, Boot, SystemdSilent, SystemdBack, Damage, ByHand, disk
      <4>6. CASE \E p \in Procs : LaunchStep(p)
        BY <2>1, <4>3, <4>6 DEF LaunchStep, LaunchAsk, LaunchPrepare, LaunchRun, LaunchExists, LaunchFailed, disk
      <4>7. CASE \E d \in Deadlines : Elapse(d) BY <2>1, <4>7 DEF Elapse, disk
      <4>8. QED BY <3>1, <4>1, <4>2, <4>4, <4>5, <4>6, <4>7 DEF Next
    <3>2. CASE UNCHANGED vars BY <2>1, <3>2 DEF vars, disk
    <3>3. QED BY <1>1, <3>1, <3>2
  <2>3. QED BY <1>1, <2>2 DEF Undo, BK
<1>2. QED BY <1>1, PTL DEF Spec, NeverUndone

\* What the core does by itself keeps within its limits: the undoings and the checks are counted over
\* crashes and losses of power (relaunchVerify, afterInterruption), and nothing is put back once
\* packages are being changed (driver.go, unwind).
THEOREM StaysWithin == Spec => KeepsWithin
BY TriesBounded, NothingUndone, PTL DEF KeepsWithin
=============================================================================
