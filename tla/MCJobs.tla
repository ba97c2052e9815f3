-------------------------------- MODULE MCJobs --------------------------------
\* The starts of the jobs and the run of the Docker update, one or the other in a behaviour.
EXTENDS Maintenance, DockerRun
VARIABLE subject
JInit == /\ MInit /\ DInit /\ subject \in {"starts", "docker"}
         /\ subject = "starts" => drops = {} /\ needs[2] = {} /\ needs[3] = {} /\ Held(dpkg) = {}
JNext == \/ subject = "starts" /\ MNext /\ UNCHANGED <<subject, dVars>>
         \/ subject = "docker" /\ DNext /\ UNCHANGED <<subject, mVars>>
JSpec == JInit /\ [][JNext]_<<subject, mVars, dVars>> /\ MFair
===============================================================================
