-------------------------------- MODULE MCBox --------------------------------
(* The parts of the core that work on their own, for TLC: the automatic update,  *)
(* the alerts, the trash, the copies and moves, the uploads and the shares. A    *)
(* behaviour is about one of them.                                               *)
EXTENDS AutoUpdate, Alerts, Trash, FileTasks, Uploads, Shares

VARIABLE subject     \* the part that a behaviour is about
boxVars == <<updateVars, alertVars, trashVars, taskVars, uploadVars, shareVars, subject>>

MCWindows == {[opens |-> 1, closes |-> 2], [opens |-> 2, closes |-> 1]}
near == [name |-> "near", disk |-> TRUE]
far == [name |-> "far", disk |-> FALSE]
MCFolders == {near, far}
MCAsked == {[kind |-> "move", style |-> "overwrite", items |-> {"a", "b"}, to |-> far],
            [kind |-> "move", style |-> "overwrite", items |-> {"a"}, to |-> near],
            [kind |-> "move", style |-> "skip", items |-> {"b"}, to |-> near],
            [kind |-> "copy", style |-> "overwrite", items |-> {"a"}, to |-> near],
            [kind |-> "copy", style |-> "skip", items |-> {"b"}, to |-> far]}

\* A share in another one; accounts of before and after; a folder of two rows, of before creates waited for each other.
MCWithin == {<<"p", "q">>}
Row(id, path, owner, members) == [id |-> id, path |-> path, owner |-> owner, members |-> members, tm |-> FALSE]
ro(who) == [name |-> who, readOnly |-> TRUE]
Uid(a, b, c) == [n \in Accounts |-> CASE n = "ann" -> a [] n = "ben" -> b [] n = "cat" -> c [] OTHER -> 99]
Plain == [rows |-> <<Row(1, "p", "ann", <<rw("ann"), rw("ben")>>), Row(2, "q", "ann", <<rw("ann"), ro("ben")>>)>>, uid |-> Uid(3, 2, 0), external |-> FALSE, included |-> TRUE]
MCShareStarts == {Plain,
             [Plain EXCEPT !.rows = <<@[1], Row(2, "q", "ann", <<rw("ann"), rw("sam")>>)>>, !.external = TRUE],
             [rows |-> <<Row(1, "p", "", <<>>), Row(2, "p", "ann", <<>>)>>, uid |-> Uid(3, 2, 0), external |-> FALSE, included |-> TRUE],
             [rows |-> <<Row(1, "q", "sam", <<rw("sam"), ro("ben")>>)>>, uid |-> Uid(0, 3, 0), external |-> TRUE, included |-> FALSE],
             [rows |-> <<>>, uid |-> Uid(0, 3, 0), external |-> FALSE, included |-> TRUE]}
MCGrants == {[ids |-> {1, 2}, readOnly |-> FALSE], [ids |-> {1}, readOnly |-> TRUE]}
MCWishes == {[members |-> <<>>, tm |-> FALSE], [members |-> <<rw("ben")>>, tm |-> TRUE],
             [members |-> <<ro("ben"), rw("cat")>>, tm |-> FALSE]}

\* The polled and the said conditions; the Docker update and the support; the upgrade's notice and the support.
Scenes == \/ alertsLeft.flips > 0 /\ docker = Never /\ support = Never /\ notice.pc = "done"
          \/ alertsLeft.flips = 0 /\ docker = Watch /\ support = Watch /\ notice.pc = "done"
          \/ alertsLeft.flips = 0 /\ docker = Never /\ support = Watch /\ notice.pc = "none"
Other(s) == subject # s
boxInit ==
    /\ subject \in {"update", "alerts", "trash", "tasks", "uploads", "shares"}
    /\ updateInit /\ saved.window = [opens |-> 2, closes |-> 1]
    /\ left.owner + left.stops + left.unsaved = 2 /\ (Other("update") => left.owner = 0)
    /\ alertsInit /\ IF Other("alerts") THEN docker = Never /\ support = Never /\ notice.pc = "done" /\ alertsLeft.flips = 0 ELSE Scenes
    /\ trashInit /\ (Other("trash") => confined /\ files[1] = 0)
    /\ taskInit /\ copied["a", "far"] = "none" /\ copied["b", "near"] = "none" /\ copied["a", "near"] = copied["b", "far"]
    /\ (Other("tasks") => copied["a", "near"] = "none")
    /\ uploadInit
    /\ sharesInit /\ (Other("shares") => rows = <<>>)
Update_ == subject = "update" /\ updateNext /\ UNCHANGED <<alertVars, trashVars, taskVars, uploadVars, shareVars, subject>>
Alerts_ == subject = "alerts" /\ alertsNext /\ UNCHANGED <<updateVars, trashVars, taskVars, uploadVars, shareVars, subject>>
Trash_ == subject = "trash" /\ trashNext /\ UNCHANGED <<updateVars, alertVars, taskVars, uploadVars, shareVars, subject>>
Tasks_ == subject = "tasks" /\ taskNext /\ UNCHANGED <<updateVars, alertVars, trashVars, uploadVars, shareVars, subject>>
Uploads_ == subject = "uploads" /\ uploadNext /\ UNCHANGED <<updateVars, alertVars, trashVars, taskVars, shareVars, subject>>
Shares_ == subject = "shares" /\ sharesNext /\ UNCHANGED <<updateVars, alertVars, trashVars, taskVars, uploadVars, subject>>
boxNext == Update_ \/ Alerts_ \/ Trash_ \/ Tasks_ \/ Uploads_ \/ Shares_
\* The fairness of the two parts that have one, while they are the subject.
boxFair == /\ WF_updateVars(subject = "update" /\ Tick) /\ WF_updateVars(subject = "update" /\ updateCore) /\ WF_updateVars(subject = "update" /\ UnitEnds)
           /\ SF_updateVars(subject = "update" /\ calmCheck)
           /\ WF_alertVars(subject = "alerts" /\ AlertTick) /\ WF_alertVars(subject = "alerts" /\ (checkOSSupport \/ writeSupport))
           /\ WF_alertVars(subject = "alerts" /\ \E m \in flight : Deliver(m, TRUE))
           /\ \A k \in Levels : WF_alertVars(subject = "alerts" /\ (Poll(k, TRUE) \/ Poll(k, FALSE))) /\ SF_alertVars(subject = "alerts" /\ Poll(k, TRUE))
boxSpec == boxInit /\ [][boxNext]_boxVars /\ boxFair
===============================================================================
