------------------------------- MODULE Uploads -------------------------------
(* Uploads in chunks (service/file_upload.go): the chunks of a file come in      *)
(* requests that run at once and end in any order, an answer may be lost and its *)
(* chunk sent again, the same file may be sent again later, and the core may     *)
(* stop. One upload has one identifier and one path.                             *)
(* A file is an object that names lead to: a request that has it open goes on    *)
(* writing to it whatever its name is by then.                                   *)
EXTENDS Naturals, FiniteSets

CONSTANTS Chunks,           \* of the file
          Senders,          \* requests that may be under way
          MaxFiles,         \* files that are made under the name ending in .tmp
          MaxLost,          \* chunks that are sent again though they arrived
          MaxCut,           \* requests that are cut short
          AsksFirst,        \* the client asks for a chunk each time before it sends it, and not only the first time
          MaxCrashes        \* times the core stops

\* There is something to send.
ASSUME UploadsAssumption == Chunks # {} /\ MaxLost \in Nat /\ MaxCut \in Nat /\ MaxCrashes \in Nat

VARIABLES files_,           \* the chunks that are written in each file
          tmp, name,        \* the file under the temporary name and under its own, 0 for none
          status,           \* uploadStatus: the table that the upload has, 0 for none
          uploaded,         \* the chunks of each table
          sender,           \* requests: [pc, chunk, file, table]
          client,           \* chunks that the client knows to be there
          uploadsLeft       \* what is left of the bounds
uploadVars == <<files_, tmp, name, status, uploaded, sender, client, uploadsLeft>>

NoSend == [pc |-> "idle", chunk |-> 0, file |-> 0, table |-> 0]
Made == Cardinality(DOMAIN files_)
Tables == Cardinality(DOMAIN uploaded)
Spare(what) == uploadsLeft[what] > 0 /\ uploadsLeft' = [uploadsLeft EXCEPT ![what] = @ - 1]

uploadInit == /\ files_ = <<>> /\ tmp = 0 /\ name = 0 /\ status = 0 /\ uploaded = <<>>
              /\ sender = [s \in Senders |-> NoSend] /\ client = {}
              /\ uploadsLeft = [lost |-> MaxLost, cut |-> MaxCut, crashes |-> MaxCrashes]

\* UploadFile, its first part: the temporary file is opened, made and sized, and the table with a first chunk.
OpenChunk(s, c) ==
    /\ sender[s] = NoSend /\ c \notin client /\ \A o \in Senders : sender[o].chunk # c
    /\ AsksFirst /\ status # 0 => c \notin uploaded[status]
    /\ tmp = 0 => Made < MaxFiles
    /\ LET file == IF tmp = 0 THEN Made + 1 ELSE tmp
           table == IF status = 0 THEN Tables + 1 ELSE status IN
         /\ tmp' = file
         /\ files_' = [f \in DOMAIN files_ \cup {file} |-> IF f \in DOMAIN files_ THEN files_[f] ELSE {}]
         /\ status' = table
         /\ uploaded' = [t \in DOMAIN uploaded \cup {table} |-> IF t \in DOMAIN uploaded THEN uploaded[t] ELSE {}]
         /\ sender' = [sender EXCEPT ![s] = [pc |-> "copy", chunk |-> c, file |-> file, table |-> table]]
    /\ UNCHANGED <<name, client, uploadsLeft>>
\* The chunk is written where it goes, or the request is cut short.
Copy(s) ==
    /\ sender[s].pc = "copy"
    /\ \/ /\ files_' = [files_ EXCEPT ![sender[s].file] = @ \cup {sender[s].chunk}]
          /\ sender' = [sender EXCEPT ![s].pc = "mark"] /\ UNCHANGED uploadsLeft
       \/ Spare("cut") /\ sender' = [sender EXCEPT ![s] = NoSend] /\ UNCHANGED files_
    /\ UNCHANGED <<tmp, name, status, uploaded, client>>
\* Altered: the file is put in place one chunk too early.
Mark_Early(s) ==
    /\ sender[s].pc = "mark"
    /\ LET have == uploaded[sender[s].table] \cup {sender[s].chunk} IN
         /\ uploaded' = [uploaded EXCEPT ![sender[s].table] = have]
         /\ IF Cardinality(have) + 1 < Cardinality(Chunks) THEN UNCHANGED <<tmp, name, status>>
            ELSE /\ IF tmp = 0 THEN UNCHANGED <<tmp, name>> ELSE name' = tmp /\ tmp' = 0
                 /\ status' = 0
    /\ client' = client \cup {sender[s].chunk}
    /\ sender' = [sender EXCEPT ![s] = NoSend]
    /\ UNCHANGED <<files_, uploadsLeft>>
\* Its last part: the chunk is in the table; with all of them there, what the temporary name leads to gets the
\* name of the file, and the upload is forgotten. The answer may be lost.
Mark(s) ==
    /\ sender[s].pc = "mark"
    /\ LET have == uploaded[sender[s].table] \cup {sender[s].chunk} IN
         /\ uploaded' = [uploaded EXCEPT ![sender[s].table] = have]
         /\ IF have # Chunks THEN UNCHANGED <<tmp, name, status>>
            ELSE /\ IF tmp = 0 THEN UNCHANGED <<tmp, name>> ELSE name' = tmp /\ tmp' = 0
                 /\ status' = 0
    /\ \/ client' = client \cup {sender[s].chunk} /\ UNCHANGED uploadsLeft
       \/ Spare("lost") /\ UNCHANGED client
    /\ sender' = [sender EXCEPT ![s] = NoSend]
    /\ UNCHANGED files_
\* TestChunk: the client asks before it sends a chunk, and sends none that the table has.
TestChunk(c) == /\ c \notin client /\ (\A s \in Senders : sender[s].chunk # c) /\ status # 0 /\ c \in uploaded[status]
                /\ client' = client \cup {c}
                /\ UNCHANGED <<files_, tmp, name, status, uploaded, sender, uploadsLeft>>
\* The client has sent all of it; it may send it again.
SendAgain == /\ client = Chunks /\ client' = {} /\ \A s \in Senders : sender[s] = NoSend
             /\ UNCHANGED <<files_, tmp, name, status, uploaded, sender, uploadsLeft>>
Crash == /\ Spare("crashes") /\ status' = 0 /\ sender' = [s \in Senders |-> NoSend]
         /\ UNCHANGED <<files_, tmp, name, uploaded, client>>

uploadNext == \/ \E s \in Senders : Copy(s) \/ Mark(s) \/ \E c \in Chunks : OpenChunk(s, c)
              \/ \E c \in Chunks : TestChunk(c)
              \/ SendAgain \/ Crash
uploadSpec == uploadInit /\ [][uploadNext]_uploadVars

-------------------------------------------------------------------------------
\* In whatever order chunks end, are sent again and are cut short, and wherever the core stops: a file
\* that has its own name has every chunk; and unless the core stopped, a client that heard of every
\* chunk has its file (file_upload.go:160-178).
WholeFile == /\ name # 0 => files_[name] = Chunks
             /\ client = Chunks /\ uploadsLeft.crashes = MaxCrashes => name # 0
===============================================================================
