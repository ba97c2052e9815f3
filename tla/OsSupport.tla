------------------------------- MODULE OsSupport -------------------------------
(* The table of the releases and what follows each (pkg/ossupport): who the     *)
(* machine is and how long its release is supported. Days are counted from the  *)
(* day the table was written (AsOf, 2026-10-09).                                *)
EXTENDS Integers, Sequences, TLC

staleAfter == 548                          \* eighteen months
endingSoonDays == 180
table == ("debian-11" :> [ends |-> -39, next |-> "debian-12"] @@
                "debian-12" :> [ends |-> 630, next |-> "debian-13"] @@
                "debian-13" :> [ends |-> 1360, next |-> ""] @@
                "ubuntu-20.04" :> [ends |-> -498, next |-> ""] @@
                "ubuntu-22.04" :> [ends |-> 234, next |-> "ubuntu-24.04"] @@
                "ubuntu-24.04" :> [ends |-> 965, next |-> "ubuntu-26.04"] @@
                "ubuntu-26.04" :> [ends |-> 1693, next |-> ""])

BeforeTable(now) == now < 0
Stale(now) == now > staleAfter

\* A release as os-release names it: [id, release, codename, armbian]; the codename is
\* "" or it has to be the one of the table. "other" stands for any other system.
Parse(r) == [known |-> r.id \in {"debian", "ubuntu"} /\ ~r.armbian, variant |-> IF r.id \in {"debian", "ubuntu"} /\ r.armbian THEN "armbian" ELSE "",
             release |-> r.release, named |-> r.codename]
Evaluate(id, now) ==
    LET row == table[id.release]
        state == CASE now > row.ends -> "security_ended"
                   [] row.ends - now <= endingSoonDays -> "ending_soon"
                   [] OTHER -> "supported"
    IN IF ~id.known \/ BeforeTable(now) \/ id.release \notin DOMAIN table \/ ~id.named \/ (Stale(now) /\ state # "security_ended")
       THEN [state |-> "unknown", next |-> ""]
       ELSE [state |-> state, next |-> IF Stale(now) THEN "" ELSE row.next]
\* The markers of a vendor are looked for only on what says it is Debian or Ubuntu.
Describe(r, now, marker) ==
    LET parsed == Parse(r)
        id == IF parsed.known /\ marker # "" THEN [parsed EXCEPT !.known = FALSE, !.variant = marker] ELSE parsed
    IN [identity |-> id, support |-> Evaluate(id, now)]
===============================================================================
