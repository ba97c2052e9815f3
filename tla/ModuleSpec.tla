------------------------------ MODULE ModuleSpec ------------------------------
(* What the module assistant promises of one module, without its steps: the    *)
(* version that is on the box changes at one instant of a job, an install and  *)
(* an update to a version of the catalogue and a remove to none; a job that    *)
(* says it is done did so, one that says it was rolled back did not, and a job *)
(* that is cut short may have done either and never something in between.      *)
EXTENDS Integers

CONSTANT Newest   \* the last version the catalogue ever names (BoxAssumption of ModuleBox: 1 or more)

VARIABLES installed,  \* the version on the box, 0 for none
          latest,     \* the version the catalogue names
          job,        \* the kind of the job at work, "none" for none
          was,        \* what was installed when the job was admitted
          result      \* what the last job said, "none" when it was cut short
vars == <<installed, latest, job, was, result>>

Kinds == {"install", "update", "remove"}
Init == /\ installed = 0 /\ latest = 1
        /\ job = "none" /\ was = 0 /\ result = "none"

\* A release brings a catalogue with a later version.
Release == /\ latest < Newest /\ latest' = latest + 1
           /\ UNCHANGED <<installed, job, was, result>>

Begin(k) == /\ job = "none" /\ job' = k
            /\ was' = installed /\ result' = "none"
            /\ UNCHANGED <<installed, latest>>

\* The one instant at which a job takes effect.
Commit == /\ CASE job = "install" -> installed = 0 /\ installed' \in 1 .. latest
              [] job = "update" -> installed = was /\ installed' \in was + 1 .. latest
              [] job = "remove" -> installed' = 0
              [] OTHER -> FALSE
          /\ UNCHANGED <<latest, job, was, result>>

\* An install that took effect and then failed takes it back.
Undo == /\ job = "install" /\ was = 0 /\ installed # 0 /\ installed' = 0
        /\ UNCHANGED <<latest, job, was, result>>

End(r) == /\ job # "none" /\ job' = "none" /\ result' = r
          /\ r = "ok" => IF job = "remove" THEN installed = 0 ELSE installed > was
          /\ r \in {"refused", "rolled_back"} => installed = was
          /\ UNCHANGED <<installed, latest, was>>

Next == \/ Release \/ Commit \/ Undo
        \/ \E k \in Kinds : Begin(k)
        \/ \E r \in {"ok", "refused", "rolled_back", "left", "incomplete", "failed", "none"} : End(r)
Spec == Init /\ [][Next]_vars
===============================================================================
