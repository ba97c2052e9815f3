------------------------------ MODULE Box_proofs ------------------------------
(* Parts of the core that work on their own, for any number of requests, chunks, *)
(* releases, hours, tasks and faults: what Uploads, AutoUpdate, Alerts, Trash    *)
(* and FileTasks promise.                                                        *)
EXTENDS AutoUpdate, Alerts, Trash, FileTasks, Uploads, FiniteSetTheorems, SequenceTheorems, WellFoundedInduction, TLAPS

-------------------------------------------------------------------------------
(* Uploads: WholeFile, for a client that asks before it sends.                   *)

SenderRec == [pc : {"idle", "copy", "mark"}, chunk : Chunks \cup {0}, file : Nat, table : Nat]
Counted(f) == \E n \in Nat : f \in [1 .. n -> SUBSET Chunks]
UploadTypes ==
    /\ Counted(files_) /\ Counted(uploaded)
    /\ tmp \in DOMAIN files_ \cup {0} /\ name \in DOMAIN files_ \cup {0} /\ status \in DOMAIN uploaded \cup {0}
    /\ sender \in [Senders -> SenderRec] /\ client \in SUBSET Chunks
    /\ uploadsLeft \in [lost : Nat, cut : Nat, crashes : Nat] /\ uploadsLeft.crashes <= MaxCrashes
\* A request works for the upload that is under way, on the file that has the temporary name: none outlives its
\* upload, since the last chunk to be marked is the only one that was still missing.
OfThisUpload ==
    \A s \in Senders : sender[s].pc # "idle" =>
        /\ status # 0 /\ sender[s].table = status /\ sender[s].file = tmp
        /\ sender[s].chunk \in Chunks \ uploaded[status]
        /\ sender[s].pc = "mark" => sender[s].chunk \in files_[tmp]
        /\ \A o \in Senders \ {s} : sender[o].pc # "idle" => sender[o].chunk # sender[s].chunk
\* What the table says is written, and it never says all.
TableTrue == status # 0 => /\ tmp # 0 /\ uploaded[status] \subseteq files_[tmp] /\ uploaded[status] # Chunks
NamedWhole == name # 0 => files_[name] = Chunks
\* Until the file first has its name, and unless the core stopped, the client knows only what the table says.
ClientTold == name = 0 /\ uploadsLeft.crashes = MaxCrashes =>
                client \subseteq (IF status = 0 THEN {} ELSE uploaded[status])
UploadInv == UploadTypes /\ OfThisUpload /\ TableTrue /\ NamedWhole /\ ClientTold

\* The number of files, or of tables, that were made is a new one.
LEMMA Fresh ==
    ASSUME NEW f, Counted(f)
    PROVE  /\ Cardinality(DOMAIN f) \in Nat /\ DOMAIN f = 1 .. Cardinality(DOMAIN f)
           /\ Cardinality(DOMAIN f) + 1 \notin DOMAIN f /\ 0 \notin DOMAIN f
<1>1. PICK n \in Nat : f \in [1 .. n -> SUBSET Chunks] BY DEF Counted
<1>2. DOMAIN f = 1 .. n BY <1>1
<1>3. Cardinality(1 .. n) = n
  BY <1>1, FS_Interval
<1>4. QED BY <1>1, <1>2, <1>3

\* Before the first chunk there is no chunk file and no assembled file.
LEMMA UploadStarts == uploadInit => UploadInv
<1> SUFFICES ASSUME uploadInit PROVE UploadInv OBVIOUS
<1> USE UploadsAssumption DEF uploadInit, NoSend
<1>1. <<>> \in [1 .. 0 -> SUBSET Chunks] OBVIOUS
<1>2. Counted(files_) /\ Counted(uploaded) BY <1>1 DEF Counted
<1>3. UploadTypes BY <1>2 DEF UploadTypes, SenderRec
<1>4. QED BY <1>3 DEF UploadInv, OfThisUpload, TableTrue, NamedWhole, ClientTold

\* The temporary file and the table are found or made, and a request has both.
LEMMA OpenChunkKeeps ==
    ASSUME AsksFirst, UploadInv, NEW s \in Senders, NEW c \in Chunks, OpenChunk(s, c) PROVE UploadInv'
<1> DEFINE file == IF tmp = 0 THEN Made + 1 ELSE tmp
           table == IF status = 0 THEN Tables + 1 ELSE status
<1>1. /\ Made \in Nat /\ DOMAIN files_ = 1 .. Made /\ Made + 1 \notin DOMAIN files_ /\ 0 \notin DOMAIN files_
      /\ Tables \in Nat /\ DOMAIN uploaded = 1 .. Tables /\ Tables + 1 \notin DOMAIN uploaded /\ 0 \notin DOMAIN uploaded
  BY Fresh DEF UploadInv, UploadTypes, Made, Tables
<1>2. /\ tmp' = file /\ status' = table
      /\ files_' = [f \in DOMAIN files_ \cup {file} |-> IF f \in DOMAIN files_ THEN files_[f] ELSE {}]
      /\ uploaded' = [t \in DOMAIN uploaded \cup {table} |-> IF t \in DOMAIN uploaded THEN uploaded[t] ELSE {}]
      /\ sender' = [sender EXCEPT ![s] = [pc |-> "copy", chunk |-> c, file |-> file, table |-> table]]
      /\ sender[s] = NoSend /\ (\A o \in Senders : sender[o].chunk # c) /\ c \notin client
      /\ (status # 0 => c \notin uploaded[status]) /\ UNCHANGED <<name, client, uploadsLeft>>
  BY DEF OpenChunk
<1>3. files_ \in [1 .. Made -> SUBSET Chunks] /\ uploaded \in [1 .. Tables -> SUBSET Chunks]
  BY <1>1 DEF UploadInv, UploadTypes, Counted
<1>4. /\ tmp \in 1 .. Made \cup {0} /\ status \in 1 .. Tables \cup {0} /\ name \in 1 .. Made \cup {0}
  BY <1>1 DEF UploadInv, UploadTypes
<1>5. /\ file \in Nat /\ table \in Nat /\ file # 0 /\ table # 0
      /\ file \in DOMAIN files_' /\ table \in DOMAIN uploaded'
      /\ (tmp # 0 => file = tmp) /\ (status # 0 => table = status)
      /\ (tmp = 0 => files_'[file] = {}) /\ (status = 0 => uploaded'[table] = {})
      /\ (\A f \in DOMAIN files_ : f \in DOMAIN files_' /\ files_'[f] = files_[f])
      /\ (\A t \in DOMAIN uploaded : t \in DOMAIN uploaded' /\ uploaded'[t] = uploaded[t])
  BY <1>1, <1>2, <1>4
<1>6. Counted(files_) /\ Counted(uploaded) BY DEF UploadInv, UploadTypes
<1>7. Counted(files_')
  <2>1. CASE tmp = 0
    <3>1. files_' \in [1 .. (Made + 1) -> SUBSET Chunks] BY <2>1, <1>1, <1>2, <1>3
    <3>2. QED BY <3>1, <1>1 DEF Counted
  <2>2. CASE tmp # 0
    <3>1. files_' = files_ BY <2>2, <1>1, <1>2, <1>3, <1>4
    <3>2. QED BY <3>1, <1>6
  <2>3. QED BY <2>1, <2>2
<1>8. Counted(uploaded')
  <2>1. CASE status = 0
    <3>1. uploaded' \in [1 .. (Tables + 1) -> SUBSET Chunks] BY <2>1, <1>1, <1>2, <1>3
    <3>2. QED BY <3>1, <1>1 DEF Counted
  <2>2. CASE status # 0
    <3>1. uploaded' = uploaded BY <2>2, <1>1, <1>2, <1>3, <1>4
    <3>2. QED BY <3>1, <1>6
  <2>3. QED BY <2>1, <2>2
<1>9. name' \in DOMAIN files_' \cup {0} BY <1>1, <1>2, <1>4, <1>5
<1> HIDE DEF file, table
<1>10. UploadTypes'
  BY <1>2, <1>5, <1>7, <1>8, <1>9 DEF UploadInv, UploadTypes, SenderRec
<1>11. OfThisUpload'
  <2>1. sender'[s] = [pc |-> "copy", chunk |-> c, file |-> file, table |-> table] /\ \A o \in Senders \ {s} : sender'[o] = sender[o]
    BY <1>2 DEF UploadInv, UploadTypes
  <2>2. c \in Chunks \ uploaded'[status'] BY <1>1, <1>2, <1>4, <1>5
  <2>3. SUFFICES ASSUME NEW o \in Senders, sender'[o].pc # "idle"
                 PROVE  /\ status' # 0 /\ sender'[o].table = status' /\ sender'[o].file = tmp'
                        /\ sender'[o].chunk \in Chunks \ uploaded'[status']
                        /\ sender'[o].pc = "mark" => sender'[o].chunk \in files_'[tmp']
                        /\ \A q \in Senders \ {o} : sender'[q].pc # "idle" => sender'[q].chunk # sender'[o].chunk
    BY DEF OfThisUpload
  <2>4. CASE o = s
    BY <1>2, <1>5, <2>1, <2>2, <2>4
  <2>5. CASE o # s
    <3>1. /\ status # 0 /\ sender[o].table = status /\ sender[o].file = tmp
          /\ sender[o].chunk \in Chunks \ uploaded[status]
          /\ sender[o].pc = "mark" => sender[o].chunk \in files_[tmp]
          /\ \A q \in Senders \ {o} : sender[q].pc # "idle" => sender[q].chunk # sender[o].chunk
      BY <2>1, <2>3, <2>5 DEF UploadInv, OfThisUpload
    <3>2. tmp # 0 BY <3>1 DEF UploadInv, TableTrue
    <3>3. uploaded'[status'] = uploaded[status] /\ files_'[tmp'] = files_[tmp] BY <1>1, <1>2, <1>4, <1>5, <3>1, <3>2
    <3>4. QED BY <1>2, <1>5, <2>1, <2>5, <3>1, <3>2, <3>3
  <2>6. QED BY <2>4, <2>5
<1>12. TableTrue'
  <2>1. CASE status = 0 BY <2>1, <1>2, <1>5, UploadsAssumption DEF TableTrue
  <2>2. CASE status # 0
    <3>1. tmp # 0 /\ uploaded[status] \subseteq files_[tmp] /\ uploaded[status] # Chunks
      BY <2>2 DEF UploadInv, TableTrue
    <3>2. uploaded'[status'] = uploaded[status] /\ files_'[tmp'] = files_[tmp] BY <1>1, <1>2, <1>4, <1>5, <2>2, <3>1
    <3>3. QED BY <1>2, <1>5, <3>1, <3>2, <2>2 DEF TableTrue
  <2>3. QED BY <2>1, <2>2
<1>13. NamedWhole' BY <1>1, <1>2, <1>4, <1>5 DEF UploadInv, NamedWhole
<1>14. ClientTold'
  <2>1. CASE status = 0 BY <2>1, <1>2, <1>5 DEF UploadInv, ClientTold
  <2>2. CASE status # 0
    <3>1. uploaded'[status'] = uploaded[status] BY <1>1, <1>2, <1>4, <1>5, <2>2
    <3>2. QED BY <3>1, <1>2, <1>5, <2>2 DEF UploadInv, ClientTold
  <2>3. QED BY <2>1, <2>2
<1>15. QED BY <1>10, <1>11, <1>12, <1>13, <1>14 DEF UploadInv

\* A chunk is written, or the request is cut short and gone.
LEMMA CopyKeeps == ASSUME UploadInv, NEW s \in Senders, Copy(s) PROVE UploadInv'
<1>1. /\ sender[s].pc = "copy" /\ UNCHANGED <<tmp, name, status, uploaded, client>>
  BY DEF Copy
<1>2. /\ status # 0 /\ sender[s].file = tmp /\ tmp # 0 /\ sender[s].chunk \in Chunks
      /\ tmp \in DOMAIN files_
  BY <1>1 DEF UploadInv, OfThisUpload, TableTrue, UploadTypes
<1>3. CASE /\ files_' = [files_ EXCEPT ![sender[s].file] = @ \cup {sender[s].chunk}]
           /\ sender' = [sender EXCEPT ![s].pc = "mark"] /\ UNCHANGED uploadsLeft
  <2>1. /\ DOMAIN files_' = DOMAIN files_ /\ files_'[tmp] = files_[tmp] \cup {sender[s].chunk}
        /\ \A f \in DOMAIN files_ : f # tmp => files_'[f] = files_[f]
    BY <1>2, <1>3 DEF UploadInv, UploadTypes, Counted
  <2>2. Counted(files_') BY <1>2, <1>3 DEF UploadInv, UploadTypes, Counted
  <2>3. UploadTypes' BY <1>1, <1>3, <2>1, <2>2 DEF UploadInv, UploadTypes, SenderRec
  <2>4. files_[tmp] \subseteq Chunks BY <1>2 DEF UploadInv, UploadTypes, Counted
  <2>5. /\ sender'[s].pc = "mark" /\ sender'[s].chunk = sender[s].chunk /\ sender'[s].file = sender[s].file
        /\ sender'[s].table = sender[s].table /\ \A o \in Senders \ {s} : sender'[o] = sender[o]
    BY <1>3 DEF UploadInv, UploadTypes, SenderRec
  <2>6. OfThisUpload' BY <1>1, <1>2, <2>1, <2>5 DEF UploadInv, OfThisUpload
  <2>7. TableTrue' BY <1>1, <2>1 DEF UploadInv, TableTrue
  <2>8. NamedWhole' BY <1>1, <1>2, <2>1, <2>4 DEF UploadInv, NamedWhole, UploadTypes
  <2>9. ClientTold' BY <1>1, <1>3 DEF UploadInv, ClientTold
  <2>10. QED BY <2>3, <2>6, <2>7, <2>8, <2>9 DEF UploadInv
<1>4. CASE Spare("cut") /\ sender' = [sender EXCEPT ![s] = NoSend] /\ UNCHANGED files_
  <2>1. uploadsLeft' \in [lost : Nat, cut : Nat, crashes : Nat] /\ uploadsLeft'.crashes = uploadsLeft.crashes
    BY <1>4 DEF Spare, UploadInv, UploadTypes
  <2>2. sender' \in [Senders -> SenderRec] /\ sender'[s].pc = "idle" /\ \A o \in Senders \ {s} : sender'[o] = sender[o]
    BY <1>4 DEF UploadInv, UploadTypes, SenderRec, NoSend
  <2>3. UploadTypes' BY <1>1, <1>4, <2>1, <2>2 DEF UploadInv, UploadTypes
  <2>4. OfThisUpload' BY <1>1, <1>4, <2>2 DEF UploadInv, OfThisUpload
  <2>5. QED BY <1>1, <1>4, <2>1, <2>3, <2>4 DEF UploadInv, TableTrue, NamedWhole, ClientTold
<1>5. QED BY <1>3, <1>4 DEF Copy

\* The chunk is in the table. With the last one the file has its name, and no other request is under way.
LEMMA MarkKeeps == ASSUME UploadInv, NEW s \in Senders, Mark(s) PROVE UploadInv'
<1> DEFINE c == sender[s].chunk
           have == uploaded[status] \cup {c}
<1>1. /\ status # 0 /\ sender[s].table = status /\ tmp # 0 /\ c \in Chunks \ uploaded[status] /\ c \in files_[tmp]
      /\ tmp \in DOMAIN files_ /\ status \in DOMAIN uploaded /\ sender[s].pc = "mark"
      /\ uploaded[status] \subseteq files_[tmp]
  BY DEF Mark, UploadInv, OfThisUpload, TableTrue, UploadTypes
<1>2. /\ uploaded' = [uploaded EXCEPT ![status] = have]
      /\ IF have # Chunks THEN UNCHANGED <<tmp, name, status>> ELSE name' = tmp /\ tmp' = 0 /\ status' = 0
      /\ sender' = [sender EXCEPT ![s] = NoSend] /\ UNCHANGED files_
      /\ \/ client' = client \cup {c} /\ UNCHANGED uploadsLeft
         \/ Spare("lost") /\ UNCHANGED client
  BY <1>1 DEF Mark
<1>3. uploadsLeft' \in [lost : Nat, cut : Nat, crashes : Nat] /\ uploadsLeft'.crashes = uploadsLeft.crashes
  BY <1>2 DEF Spare, UploadInv, UploadTypes
<1>4. /\ sender' \in [Senders -> SenderRec] /\ sender'[s].pc = "idle" /\ \A o \in Senders \ {s} : sender'[o] = sender[o]
  <2>1. sender \in [Senders -> SenderRec] BY DEF UploadInv, UploadTypes
  <2>2. NoSend \in SenderRec /\ NoSend.pc = "idle" BY DEF SenderRec, NoSend
  <2>3. sender' = [sender EXCEPT ![s] = NoSend] BY <1>2
  <2>4. QED BY <2>1, <2>2, <2>3
<1>5. /\ files_[tmp] \subseteq Chunks /\ uploaded[status] \subseteq Chunks /\ have \subseteq files_[tmp]
  BY <1>1 DEF UploadInv, UploadTypes, Counted
<1>6. Counted(uploaded') /\ DOMAIN uploaded' = DOMAIN uploaded /\ uploaded'[status] = have
  <2>1. PICK n \in Nat : uploaded \in [1 .. n -> SUBSET Chunks] BY DEF UploadInv, UploadTypes, Counted
  <2>2. uploaded' \in [1 .. n -> SUBSET Chunks] BY <1>1, <1>2, <1>5, <2>1
  <2>3. QED BY <1>1, <1>2, <2>1, <2>2 DEF Counted
<1>7. client' \in SUBSET Chunks /\ client' \subseteq client \cup {c} BY <1>1, <1>2 DEF UploadInv, UploadTypes
<1> HIDE DEF c
<1>8. UploadTypes'
  BY <1>1, <1>2, <1>3, <1>4, <1>6, <1>7 DEF UploadInv, UploadTypes
<1>9. CASE have # Chunks
  <2>1. UNCHANGED <<tmp, name, status, files_>> BY <1>2, <1>9
  <2>2. OfThisUpload' BY <2>1, <1>1, <1>4, <1>6 DEF UploadInv, OfThisUpload, c
  <2>3. TableTrue' BY <2>1, <1>5, <1>6, <1>9, <1>1 DEF TableTrue
  <2>4. NamedWhole' BY <2>1 DEF UploadInv, NamedWhole
  <2>5. ClientTold' BY <2>1, <1>1, <1>3, <1>6, <1>7 DEF UploadInv, ClientTold
  <2>6. QED BY <1>8, <2>2, <2>3, <2>4, <2>5 DEF UploadInv
<1>10. CASE have = Chunks
  <2>1. name' = tmp /\ tmp' = 0 /\ status' = 0 /\ UNCHANGED files_ BY <1>2, <1>10
  <2>2. \A o \in Senders : sender'[o].pc = "idle"
    BY <1>1, <1>4, <1>10 DEF UploadInv, OfThisUpload, c
  <2>3. NamedWhole' BY <2>1, <1>5, <1>10 DEF NamedWhole
  <2>4. QED BY <1>1, <1>8, <2>1, <2>2, <2>3 DEF UploadInv, OfThisUpload, TableTrue, ClientTold
<1>11. QED BY <1>9, <1>10

\* What the client hears, the upload again and a stop of the core.
LEMMA UploadRestKeeps ==
    ASSUME UploadInv, (\E c \in Chunks : TestChunk(c)) \/ SendAgain \/ Crash PROVE UploadInv'
<1>1. CASE \E c \in Chunks : TestChunk(c)
  BY <1>1 DEF TestChunk, UploadInv, UploadTypes, OfThisUpload, TableTrue, NamedWhole, ClientTold
<1>2. CASE SendAgain
  BY <1>2 DEF SendAgain, UploadInv, UploadTypes, OfThisUpload, TableTrue, NamedWhole, ClientTold
<1>3. CASE Crash
  <2>1. uploadsLeft' \in [lost : Nat, cut : Nat, crashes : Nat] /\ uploadsLeft'.crashes < MaxCrashes
    BY <1>3, UploadsAssumption DEF Crash, Spare, UploadInv, UploadTypes
  <2>2. sender' \in [Senders -> SenderRec] /\ \A o \in Senders : sender'[o].pc = "idle"
    BY <1>3 DEF Crash, NoSend, SenderRec
  <2>3. status' = 0 /\ UNCHANGED <<files_, tmp, name, uploaded, client>> BY <1>3 DEF Crash
  <2>4. UploadTypes' BY <2>1, <2>2, <2>3, UploadsAssumption DEF UploadInv, UploadTypes
  <2>5. ClientTold' BY <2>1, <2>4, UploadsAssumption DEF ClientTold, UploadTypes
  <2>6. QED BY <2>2, <2>3, <2>4, <2>5 DEF UploadInv, OfThisUpload, TableTrue, NamedWhole
<1>4. QED BY <1>1, <1>2, <1>3

\* Every step of an upload keeps its invariant, when the client asks before it sends a chunk.
THEOREM UploadInvariant == ASSUME AsksFirst PROVE uploadSpec => []UploadInv
<1>1. uploadInit => UploadInv BY UploadStarts
<1>2. UploadInv /\ [uploadNext]_uploadVars => UploadInv'
  <2>1. SUFFICES ASSUME UploadInv, [uploadNext]_uploadVars PROVE UploadInv' OBVIOUS
  <2>2. CASE uploadNext
    BY <2>1, <2>2, OpenChunkKeeps, CopyKeeps, MarkKeeps, UploadRestKeeps DEF uploadNext
  <2>3. CASE UNCHANGED uploadVars
    BY <2>1, <2>3 DEF uploadVars, UploadInv, UploadTypes, OfThisUpload, TableTrue, NamedWhole, ClientTold
  <2>4. QED BY <2>1, <2>2, <2>3
<1>3. QED BY <1>1, <1>2, PTL DEF uploadSpec

\* In whatever order the chunks of a file end, are sent again and are cut short, and wherever the core stops: a
\* file that has its own name is whole, and a client that heard of every chunk has its file (file_upload.go:160-178).
THEOREM WholeFileHolds == ASSUME AsksFirst PROVE uploadSpec => []WholeFile
<1>1. UploadInv => WholeFile
  BY UploadsAssumption DEF UploadInv, TableTrue, NamedWhole, ClientTold, WholeFile, UploadTypes, Counted
<1>2. QED BY <1>1, UploadInvariant, PTL

-------------------------------------------------------------------------------
(* AutoUpdate: Restrained.                                                       *)

LastRec == [version : Nat, age : Nat, result : {"", "running", "succeeded", "failed"}]
FailRec == [version : Nat, count : Nat]
SavedRec == [enabled : BOOLEAN, window : Windows, last : LastRec, failures : FailRec]
CorePcs == {"down", "idle", "settled", "decided", "start", "busy", "failed"}
CoreRec == [pc : CorePcs, version : Nat, before : LastRec, calm : BOOLEAN]
LeftRec == [owner : Nat, stops : Nat, unsaved : Nat]
Ages == \E n \in 1 .. MaxRelease : age \in [1 .. n -> 0 .. Hours]
UpdateTypes ==
    /\ hour \in 0 .. Hours - 1 /\ Ages /\ current \in Nat /\ unit \in Nat
    /\ saved \in SavedRec /\ core \in CoreRec /\ due \in BOOLEAN /\ left \in LeftRec
    /\ tries \in [1 .. MaxRelease -> Nat] /\ tonight \in Nat
\* Out, and old enough to be installed by itself.
Aged(v) == v \in DOMAIN age /\ age[v] = Hours
UnderWay == saved.last.result = "running"
\* From the decision to the start, the core holds a release that none that was tried is newer than.
Deciding == core.pc \in {"decided", "start", "busy", "failed"}
Started == core.pc \in {"start", "busy", "failed"}
FailuresOf(v) == IF saved.failures.version = v THEN saved.failures.count ELSE 0
\* The attempt that is saved as running may have had a unit, unless the core is still about to start it.
Pending(v) == IF UnderWay /\ ~Started /\ saved.last.version = v THEN 1 ELSE 0
\* One that was tried is out and aged; what runs, or is about to, is the newest of them.
TriedAged == \A v \in DOMAIN tries : tries[v] > 0 => /\ Aged(v)
                                                     /\ UnderWay => v <= saved.last.version
                                                     /\ Deciding => v <= core.version
RunningAged == /\ UnderWay => Aged(saved.last.version)
               /\ Deciding => Aged(core.version)
               /\ Started => UnderWay /\ saved.last.version = core.version /\ saved.last.age = 0 /\ core.before.result # "running"
               /\ core.pc = "decided" => ~UnderWay
\* What was tried and is not installed, and has no newer one that is aged, has its failures counted.
Tallied == \A v \in DOMAIN tries :
             \/ tries[v] = 0 \/ v <= current \/ (\E w \in DOMAIN age : w > v /\ Aged(w))
             \/ tries[v] <= FailuresOf(v) + Pending(v)
\* Until the core starts it, the release it decided on failed less than twice.
LessThanTwice == core.pc \in {"decided", "start"} => tries[core.version] <= FailuresOf(core.version) /\ FailuresOf(core.version) <= 1
\* A unit that was started in this opening of the window is the saved attempt, made since it opened.
TonightSaved == tonight > 0 => /\ saved.last.version # 0 /\ saved.last.age <= Since(saved.window, hour)
                               /\ ~Deciding
UpdateInv == UpdateTypes /\ RunningAged /\ TriedAged /\ Tallied /\ LessThanTwice /\ TonightSaved /\ Restrained

\* A set of numbers up to a bound has a greatest one.
LEMMA HasMax == ASSUME NEW n \in Nat, NEW S \in SUBSET (1 .. n), S # {} PROVE \E m \in S : \A o \in S : o <= m
<1> DEFINE T == {n - x : x \in S}
<1>1. T \subseteq Nat OBVIOUS
<1>2. PICK s \in S : TRUE OBVIOUS
<1>3. T # {} BY <1>2
<1>4. PICK m \in T : \A y \in T : ~(<<y, m>> \in OpToRel(<, Nat))
  BY <1>1, <1>3, WFMin, NatLessThanWellFounded
<1>5. \A y \in T : ~(y < m) BY <1>4, <1>1 DEF OpToRel
<1>6. PICK x \in S : m = n - x OBVIOUS
<1>7. \A o \in S : ~(n - o < n - x) BY <1>5, <1>6
<1>8. ASSUME NEW o \in S PROVE o <= x
  <2>1. ~(n - o < n - x) BY <1>7
  <2>2. o \in 1 .. n /\ x \in 1 .. n OBVIOUS
  <2>3. QED BY <2>1, <2>2
<1>9. QED BY <1>8

\* An hour of the day and how long ago a window opened, without the remainder.
LEMMA ModIs ==
    ASSUME NEW n \in Nat \ {0}, NEW x \in Int, -n < x, x <= n
    PROVE  x % n = IF x < 0 THEN x + n ELSE IF x = n THEN 0 ELSE x
<1>1. CASE x < 0
  <2>1. x = n * (-1) + (x + n) OBVIOUS
  <2>2. QED BY <1>1, Z3
<1>2. CASE x = n BY <1>2
<1>3. CASE 0 <= x /\ x < n BY <1>3
<1>4. QED BY <1>1, <1>2, <1>3

\* The hours since a window opened are a number, and an hour later they are one more unless the
\* window has just opened.
LEMMA SinceIs ==
    ASSUME NEW h \in 0 .. Hours - 1, NEW w \in Windows
    PROVE  /\ Since(w, h) \in Nat /\ (h + 1) % Hours \in 0 .. Hours - 1
           /\ Since(w, (h + 1) % Hours) \in Nat
           /\ Since(w, (h + 1) % Hours) > 0 => Since(w, (h + 1) % Hours) = Since(w, h) + 1
<1>1. Hours \in Nat \ {0} /\ w.opens \in 0 .. Hours - 1 BY AutoUpdateAssumption
<1> DEFINE g == (h + 1) % Hours
<1>2. g = IF h + 1 = Hours THEN 0 ELSE h + 1
  <2>1. h + 1 \in Int /\ -Hours < h + 1 /\ h + 1 <= Hours /\ ~(h + 1 < 0) BY <1>1
  <2>2. QED BY <1>1, <2>1, ModIs
<1>3. Since(w, h) = IF h - w.opens < 0 THEN h - w.opens + Hours ELSE h - w.opens
  BY <1>1, ModIs DEF Since
<1>4. g \in 0 .. Hours - 1 BY <1>1, <1>2
<1> HIDE DEF g
<1>5. Since(w, g) = IF g - w.opens < 0 THEN g - w.opens + Hours ELSE g - w.opens
  BY <1>1, <1>4, ModIs DEF Since
<1>6. Since(w, g) > 0 => Since(w, g) = Since(w, h) + 1 BY <1>1, <1>2, <1>3, <1>5
<1>7. Since(w, h) \in Nat /\ Since(w, g) \in Nat BY <1>1, <1>3, <1>4, <1>5
<1>8. QED BY <1>4, <1>6, <1>7 DEF g

\* The releases that are out are the numbers up to the latest.
LEMMA LatestIs == ASSUME Ages PROVE latest \in 1 .. MaxRelease /\ age \in [1 .. latest -> 0 .. Hours]
<1>1. PICK n \in 1 .. MaxRelease : age \in [1 .. n -> 0 .. Hours] BY DEF Ages
<1>2. Cardinality(1 .. n) = n BY FS_Interval, AutoUpdateAssumption
<1>3. latest = n BY <1>1, <1>2 DEF latest
<1>4. QED BY <1>1, <1>3

\* pickSettled is the newest of the releases that are aged.
LEMMA PickIs == ASSUME Ages
                PROVE  \/ pickSettled = 0 /\ \A v : ~Aged(v)
                       \/ Aged(pickSettled) /\ \A v : Aged(v) => v <= pickSettled
<1> DEFINE old == {v \in DOMAIN age : ~tooYoung(v)}
<1>1. latest \in 1 .. MaxRelease /\ age \in [1 .. latest -> 0 .. Hours] BY LatestIs
<1>2. \A v : v \in old <=> Aged(v) BY <1>1, AutoUpdateAssumption DEF tooYoung, Aged
<1>3. CASE old = {} BY <1>2, <1>3 DEF pickSettled
<1>4. CASE old # {}
  <2>1. old \in SUBSET (1 .. latest) /\ latest \in Nat BY <1>1, AutoUpdateAssumption
  <2>2. \E m \in old : \A o \in old : o <= m BY <2>1, <1>4, HasMax
  <2>3. pickSettled = CHOOSE v \in old : \A o \in old : o <= v BY <1>4 DEF pickSettled
  <2>4. pickSettled \in old /\ \A o \in old : o <= pickSettled BY <2>2, <2>3
  <2>5. QED BY <2>4, <1>2
<1>5. QED BY <1>3, <1>4

\* A release that is decided on is the newest that is aged, it is not installed, and it failed less than twice.
LEMMA DecideIs ==
    ASSUME UpdateTypes, NEW read \in BOOLEAN, NEW settled \in {0, pickSettled}, decide(saved, read, settled)
    PROVE  /\ Target(settled) \in DOMAIN age /\ Aged(Target(settled)) /\ \A v : Aged(v) => v <= Target(settled)
           /\ Target(settled) > current /\ ~UnderWay
           /\ ~Paused(saved, Target(settled)) /\ earliestIsNow(saved)
<1>1. Ages /\ current \in Nat BY DEF UpdateTypes
<1>2. latest \in 1 .. MaxRelease /\ age \in [1 .. latest -> 0 .. Hours] BY <1>1, LatestIs
<1>3. /\ latest > current /\ ~tooYoung(Target(settled)) /\ ~UnderWay /\ ~Paused(saved, Target(settled)) /\ earliestIsNow(saved)
  BY DEF decide, UnderWay
<1>4. CASE tooYoung(latest) /\ settled > current
  <2>1. Target(settled) = settled /\ settled = pickSettled BY <1>1, <1>4 DEF Target
  <2>2. pickSettled # 0 BY <2>1, <1>1, <1>4
  <2>3. Aged(pickSettled) /\ \A v : Aged(v) => v <= pickSettled BY <1>1, <2>2, PickIs
  <2>4. QED BY <1>3, <1>4, <2>1, <2>3 DEF Aged
<1>5. CASE ~(tooYoung(latest) /\ settled > current)
  <2>1. Target(settled) = latest BY <1>5 DEF Target
  <2>2. Aged(latest) BY <1>2, <1>3, <2>1, AutoUpdateAssumption DEF Aged, tooYoung
  <2>3. \A v : Aged(v) => v <= latest BY <1>2 DEF Aged
  <2>4. QED BY <1>3, <2>1, <2>2, <2>3 DEF Aged
<1>6. QED BY <1>4, <1>5

\* A box that has never been updated has nothing recorded against it.
LEMMA UpdateStarts == updateInit => UpdateInv
<1> SUFFICES ASSUME updateInit PROVE UpdateInv OBVIOUS
<1> USE AutoUpdateAssumption DEF updateInit
<1>1. NoLast \in LastRec /\ NoFailures \in FailRec BY DEF NoLast, NoFailures, LastRec, FailRec
<1>2. saved \in SavedRec BY <1>1 DEF SavedRec
<1>3. core \in CoreRec /\ core.pc = "down" BY <1>1 DEF Idle, CoreRec, CorePcs
<1>4. left \in LeftRec BY DEF LeftRec
<1>5. Ages
  <2>1. age \in [1 .. 1 -> 0 .. Hours] /\ 1 \in 1 .. MaxRelease OBVIOUS
  <2>2. QED BY ONLY <2>1 DEF Ages
<1>6. UpdateTypes
  <2>1. hour \in 0 .. Hours - 1 /\ current \in Nat /\ unit \in Nat OBVIOUS
  <2>2. tonight \in Nat /\ tries \in [1 .. MaxRelease -> Nat] OBVIOUS
  <2>3. due = FALSE OBVIOUS
  <2>4. QED BY ONLY <2>1, <2>2, <2>3, <1>2, <1>3, <1>4, <1>5 DEF UpdateTypes
<1>7. ~UnderWay
  <2>1. saved.last = NoLast OBVIOUS
  <2>2. NoLast.result = "" BY DEF NoLast
  <2>3. QED BY ONLY <2>1, <2>2 DEF UnderWay
<1>8. ~Deciding /\ ~Started /\ tonight = 0 /\ \A v \in DOMAIN tries : tries[v] = 0 BY <1>3 DEF Deciding, Started
<1>9. RunningAged BY <1>3, <1>7, <1>8 DEF RunningAged
<1>10. TriedAged /\ Tallied BY <1>8 DEF TriedAged, Tallied
<1>11. LessThanTwice /\ TonightSaved /\ Restrained BY <1>3, <1>8 DEF LessThanTwice, TonightSaved, Restrained
<1>12. QED BY <1>6, <1>9, <1>10, <1>11 DEF UpdateInv

-------------------------------------------------------------------------------
\* What a settled attempt leaves: nothing changed, or the attempt that was running succeeded, or it failed.
Same(s) == s = saved
Succeeded(s) == /\ UnderWay /\ current >= saved.last.version
                /\ s = [saved EXCEPT !.last.result = "succeeded", !.failures = NoFailures]
Failed(s) == UnderWay /\ s = fail(saved)
\* Nothing of what is saved but the result and the failures changes.
Outcome(s) == /\ s \in SavedRec /\ s.window = saved.window /\ s.last.version = saved.last.version /\ s.last.age = saved.last.age
              /\ s.last.result # "running"

\* A failed try adds one to the failures of the version it tried, and starts from one for another
\* version.
LEMMA FailIs ==
    ASSUME saved \in SavedRec
    PROVE  /\ Outcome(fail(saved)) /\ fail(saved).failures.version = saved.last.version
           /\ fail(saved).failures.count = IF saved.failures.version = saved.last.version THEN saved.failures.count + 1 ELSE 1
<1> DEFINE l == [saved.last EXCEPT !.result = "failed"]
           f == [version |-> saved.last.version, count |-> IF saved.failures.version = saved.last.version THEN saved.failures.count + 1 ELSE 1]
<1>1. saved.last \in LastRec /\ saved.failures \in FailRec BY DEF SavedRec
<1>2. l \in LastRec /\ l.version = saved.last.version /\ l.age = saved.last.age /\ l.result = "failed"
  BY <1>1 DEF LastRec
<1>3. f \in FailRec
  <2>1. saved.last.version \in Nat /\ saved.failures.count \in Nat BY <1>1 DEF LastRec, FailRec
  <2>2. (IF saved.failures.version = saved.last.version THEN saved.failures.count + 1 ELSE 1) \in Nat BY <2>1
  <2>3. QED BY <2>1, <2>2 DEF FailRec
<1>4. fail(saved) = [saved EXCEPT !.last = l, !.failures = f] BY DEF fail, SavedRec
<1>5. fail(saved) \in SavedRec /\ fail(saved).last = l /\ fail(saved).failures = f /\ fail(saved).window = saved.window
  <2> HIDE DEF l, f
  <2>1. QED BY <1>2, <1>3, <1>4 DEF SavedRec
<1>6. QED BY <1>2, <1>5 DEF Outcome

\* A success leaves a well formed record.
LEMMA SucceedIs ==
    ASSUME saved \in SavedRec, NEW s, Succeeded(s) PROVE Outcome(s)
  BY DEF Succeeded, Outcome, SavedRec, LastRec, FailRec, NoFailures

\* Settling leaves the saved record alone, or records a success, or records a failure.
LEMMA SettleIs ==
    ASSUME NEW answered \in BOOLEAN
    PROVE  Same(settleBody(answered)) \/ Succeeded(settleBody(answered)) \/ Failed(settleBody(answered))
  BY DEF settleBody, Same, Succeeded, Failed, UnderWay

\* A save that fails leaves the record on the disk as it was.
LEMMA ModifyIs ==
    ASSUME left \in LeftRec, NEW c, modify(c) PROVE (saved' = c \/ Same(saved')) /\ left' \in LeftRec
  BY DEF modify, LeftRec, Same

\* An attempt that is over: the core is where it holds no release, and the attempt is settled or stays.
LEMMA OverKeeps ==
    ASSUME UpdateInv, core' \in CoreRec, core'.pc \in {"idle", "settled"},
           Same(saved') \/ Succeeded(saved') \/ Failed(saved'),
           left' \in LeftRec, due' \in BOOLEAN, UNCHANGED <<hour, age, current, unit, tries, tonight>>
    PROVE  UpdateInv'
<1>1. UpdateTypes /\ ~Deciding' /\ ~Started' /\ core'.pc # "decided" BY DEF UpdateInv, Deciding, Started
<1>2. saved \in SavedRec BY <1>1 DEF UpdateTypes
<1>3. /\ saved' \in SavedRec /\ saved'.window = saved.window /\ saved'.last.version = saved.last.version
      /\ saved'.last.age = saved.last.age /\ (UnderWay' => UnderWay)
  BY <1>2, FailIs, SucceedIs DEF Same, Failed, Outcome, UnderWay
<1>4. UpdateTypes' BY <1>1, <1>3 DEF UpdateTypes, Ages
<1>5. RunningAged' BY <1>1, <1>3 DEF UpdateInv, RunningAged, Aged
<1>6. TriedAged' BY <1>1, <1>3 DEF UpdateInv, TriedAged, Aged
<1>7. LessThanTwice' BY <1>1 DEF LessThanTwice, Deciding
<1>8. TonightSaved' BY <1>1, <1>3 DEF UpdateInv, TonightSaved
<1>9. Tallied'
  <2>1. SUFFICES ASSUME NEW v \in DOMAIN tries, tries[v] # 0, ~(v <= current), ~\E w \in DOMAIN age : w > v /\ Aged(w)
                 PROVE  tries[v] <= FailuresOf(v)' + Pending(v)'
    BY DEF Tallied, Aged
  <2>2. tries[v] <= FailuresOf(v) + Pending(v) BY <2>1 DEF UpdateInv, Tallied
  <2>3. /\ tries[v] \in Nat /\ tries[v] > 0 /\ v \in Nat /\ current \in Nat /\ saved.last.version \in Nat
        /\ saved.failures.count \in Nat /\ saved.failures.version \in Nat
    <3>1. saved.last \in LastRec /\ saved.failures \in FailRec BY <1>2 DEF SavedRec
    <3>2. saved.last.version \in Nat /\ saved.failures.count \in Nat /\ saved.failures.version \in Nat BY <3>1 DEF LastRec, FailRec
    <3>3. tries \in [1 .. MaxRelease -> Nat] /\ current \in Nat /\ MaxRelease \in Nat BY <1>1, AutoUpdateAssumption DEF UpdateTypes
    <3>4. tries[v] \in Nat /\ tries[v] > 0 /\ v \in Nat BY <2>1, <3>3
    <3>5. QED BY <3>2, <3>3, <3>4
  <2>4. UnderWay => v <= saved.last.version /\ Aged(saved.last.version)
    BY <2>1, <2>3 DEF UpdateInv, TriedAged, RunningAged
  <2>5. CASE Same(saved')
    <3>1. FailuresOf(v)' = FailuresOf(v) /\ UnderWay' = UnderWay BY <2>5 DEF Same, FailuresOf, UnderWay
    <3>2. FailuresOf(v) \in Nat /\ Pending(v) \in 0 .. 1 /\ Pending(v)' \in 0 .. 1 BY <2>3 DEF FailuresOf, Pending
    <3>3. Pending(v) <= Pending(v)' BY <3>1, <1>1, <2>5 DEF Pending, Same
    <3>4. QED BY <2>2, <2>3, <3>1, <3>2, <3>3
  <2>6. CASE Succeeded(saved')
    BY <2>1, <2>3, <2>4, <2>6 DEF Succeeded
  <2>7. CASE Failed(saved')
    <3>1. v = saved.last.version
      BY <2>1, <2>3, <2>4, <2>7 DEF Failed, Aged
    <3>2. FailuresOf(v)' = IF saved.failures.version = v THEN saved.failures.count + 1 ELSE 1
      BY <1>2, <2>7, <3>1, FailIs DEF Failed, FailuresOf
    <3>3. FailuresOf(v)' = FailuresOf(v) + 1 /\ FailuresOf(v) \in Nat BY <2>3, <3>2 DEF FailuresOf
    <3>4. Pending(v) \in 0 .. 1 /\ Pending(v)' \in 0 .. 1 BY DEF Pending
    <3>5. QED BY <2>2, <2>3, <3>3, <3>4
  <2>8. QED BY <2>5, <2>6, <2>7
<1>10. Restrained' BY DEF UpdateInv, Restrained
<1>11. QED BY <1>4, <1>5, <1>6, <1>7, <1>8, <1>9, <1>10 DEF UpdateInv

\* Run and the first part of Check settle the attempt before.
LEMMA SettlingKeeps == ASSUME UpdateInv, Run_ \/ settle PROVE UpdateInv'
<1>1. UpdateTypes BY DEF UpdateInv
<1>2. left \in LeftRec /\ core \in CoreRec BY <1>1 DEF UpdateTypes
<1>3. Idle \in CoreRec /\ Idle.pc = "idle" BY DEF Idle, NoLast, CoreRec, CorePcs, LastRec
<1>4. CASE Run_
  <2>1. PICK answered \in BOOLEAN : modify(settleBody(answered)) BY <1>4 DEF Run_
  <2>2. left' \in LeftRec /\ (Same(saved') \/ Succeeded(saved') \/ Failed(saved')) BY <1>2, <2>1, ModifyIs, SettleIs
  <2>3. core' = Idle /\ UNCHANGED <<hour, age, current, unit, due, tries, tonight>> BY <1>4 DEF Run_
  <2>4. due' \in BOOLEAN BY <1>1, <2>3 DEF UpdateTypes
  <2>5. QED BY <1>3, <2>2, <2>3, <2>4, OverKeeps
<1>5. CASE settle
  <2>1. PICK answered \in BOOLEAN, calm \in BOOLEAN :
          core' = [Idle EXCEPT !.pc = "settled", !.calm = calm] /\ modify(settleBody(answered))
    BY <1>5 DEF settle
  <2>2. left' \in LeftRec /\ (Same(saved') \/ Succeeded(saved') \/ Failed(saved')) BY <1>2, <2>1, ModifyIs, SettleIs
  <2>3. core' \in CoreRec /\ core'.pc = "settled" BY <2>1 DEF Idle, NoLast, CoreRec, CorePcs, LastRec
  <2>4. due' = FALSE /\ UNCHANGED <<hour, age, current, unit, tries, tonight>> BY <1>5 DEF settle
  <2>5. QED BY <2>2, <2>3, <2>4, OverKeeps
<1>6. QED BY <1>4, <1>5

\* cannotStart is an attempt that failed at once.
LEMMA CannotStartKeeps == ASSUME UpdateInv, cannotStart PROVE UpdateInv'
<1>1. UpdateTypes BY DEF UpdateInv
<1>2. left \in LeftRec /\ due \in BOOLEAN BY <1>1 DEF UpdateTypes
<1>3. Idle \in CoreRec /\ Idle.pc = "idle" BY DEF Idle, NoLast, CoreRec, CorePcs, LastRec
<1>4. /\ modify(IF UnderWay THEN fail(saved) ELSE saved)
      /\ core' = Idle /\ UNCHANGED <<hour, age, current, unit, due, tries, tonight>>
  BY DEF cannotStart, UnderWay
<1>5. left' \in LeftRec /\ (Same(saved') \/ Failed(saved')) BY <1>2, <1>4, ModifyIs DEF Failed, Same
<1>6. QED BY <1>2, <1>3, <1>4, <1>5, OverKeeps

\* A core that holds no release may come to be anywhere else where it holds none.
LEMMA RestKeeps ==
    ASSUME UpdateInv, core' \in CoreRec, core'.pc \in {"down", "idle"}, left' \in LeftRec,
           UNCHANGED <<hour, age, current, unit, saved, due, tries, tonight>>
    PROVE  UpdateInv'
<1>1. UpdateTypes /\ ~Deciding' /\ ~Started' /\ core'.pc # "decided" BY DEF UpdateInv, Deciding, Started
<1>2. UpdateTypes' BY <1>1 DEF UpdateTypes, Ages
<1>3. RunningAged' BY <1>1 DEF UpdateInv, RunningAged, Aged, UnderWay
<1>4. TriedAged' BY <1>1 DEF UpdateInv, TriedAged, Aged, UnderWay
<1>5. LessThanTwice' /\ TonightSaved' BY <1>1 DEF UpdateInv, LessThanTwice, TonightSaved, Deciding
<1>6. Tallied'
  <2>1. \A v \in DOMAIN tries : FailuresOf(v)' = FailuresOf(v) /\ FailuresOf(v) \in Nat /\ tries[v] \in Nat
    BY <1>1 DEF FailuresOf, UpdateTypes, SavedRec, FailRec
  <2>2. \A v : Pending(v) \in 0 .. 1 /\ Pending(v)' \in 0 .. 1 /\ Pending(v) <= Pending(v)' BY <1>1 DEF Pending, UnderWay
  <2>3. \A v \in DOMAIN tries : tries[v] <= FailuresOf(v) + Pending(v) => tries[v] <= FailuresOf(v)' + Pending(v)'
    BY <2>1, <2>2
  <2>4. QED BY <2>3 DEF UpdateInv, Tallied, Aged
<1>7. QED BY <1>2, <1>3, <1>4, <1>5, <1>6 DEF UpdateInv, Restrained

\* The core stays away, or stops.
LEMMA StayAwayKeeps == ASSUME UpdateInv, StayAway \/ Stop PROVE UpdateInv'
<1>1. UpdateTypes BY DEF UpdateInv
<1>2. left \in LeftRec BY <1>1 DEF UpdateTypes
<1>3. Idle \in CoreRec /\ Idle.pc = "idle" BY DEF Idle, NoLast, CoreRec, CorePcs, LastRec
<1>4. CASE StayAway BY <1>2, <1>3, <1>4, RestKeeps DEF StayAway
<1>5. CASE Stop
  <2>1. core' \in CoreRec /\ core'.pc = "down" BY <1>3, <1>5 DEF Stop, CoreRec, CorePcs
  <2>2. left' \in LeftRec BY <1>2, <1>5 DEF Stop, LeftRec
  <2>3. QED BY <1>5, <2>1, <2>2, RestKeeps DEF Stop
<1>6. QED BY <1>4, <1>5

\* Types of what is saved and of what was tried.
Fields == /\ saved.last \in LastRec /\ saved.failures \in FailRec /\ saved.window \in Windows
          /\ saved.last.version \in Nat /\ saved.last.age \in Nat /\ saved.failures.version \in Nat /\ saved.failures.count \in Nat
          /\ core.version \in Nat /\ core.before \in LastRec /\ core.pc \in CorePcs
          /\ current \in Nat /\ tonight \in Nat /\ MaxRelease \in Nat /\ DOMAIN tries = 1 .. MaxRelease
          /\ \A v \in 1 .. MaxRelease : tries[v] \in Nat

\* An hour makes an age at most one hour older.
LEMMA OlderIs == \A g, s \in Nat : g <= s => Older(g) <= s + 1
  BY AutoUpdateAssumption DEF Older

\* The types of the fields of the state, taken apart.
LEMMA FieldTypes == ASSUME UpdateTypes PROVE Fields
<1>1. saved.last \in LastRec /\ saved.failures \in FailRec /\ saved.window \in Windows BY DEF UpdateTypes, SavedRec
<1>2. saved.last.version \in Nat /\ saved.last.age \in Nat /\ saved.failures.version \in Nat /\ saved.failures.count \in Nat
  BY <1>1 DEF LastRec, FailRec
<1>3. core.version \in Nat /\ core.before \in LastRec /\ core.pc \in CorePcs BY DEF UpdateTypes, CoreRec
<1>4. current \in Nat /\ tonight \in Nat /\ MaxRelease \in Nat /\ DOMAIN tries = 1 .. MaxRelease
  BY AutoUpdateAssumption DEF UpdateTypes
<1>5. \A v \in 1 .. MaxRelease : tries[v] \in Nat BY DEF UpdateTypes
<1>6. QED BY <1>1, <1>2, <1>3, <1>4, <1>5 DEF Fields

\* The decision: the release is the newest that is aged, so none that was tried is newer, and its failures are counted.
LEMMA CheckKeeps == ASSUME UpdateInv, Check PROVE UpdateInv'
<1>1. PICK read \in BOOLEAN, settled \in {0, pickSettled} :
        core' = IF decide(saved, read, settled) THEN [core EXCEPT !.pc = "decided", !.version = Target(settled)] ELSE Idle
  BY DEF Check
<1>2. UpdateTypes /\ UNCHANGED <<hour, age, current, unit, saved, due, left, tries, tonight>> /\ core.pc = "settled"
  BY DEF UpdateInv, Check
<1>3. left \in LeftRec /\ core \in CoreRec /\ Ages BY <1>2 DEF UpdateTypes
<1>4. CASE ~decide(saved, read, settled)
  <2>1. core' \in CoreRec /\ core'.pc = "idle" BY <1>1, <1>4 DEF Idle, NoLast, CoreRec, CorePcs, LastRec
  <2>2. QED BY <1>2, <1>3, <2>1, RestKeeps
<1>5. CASE decide(saved, read, settled)
  <2> DEFINE t == Target(settled)
  <2>1. /\ t \in DOMAIN age /\ Aged(t) /\ (\A v : Aged(v) => v <= t) /\ t > current /\ ~UnderWay
        /\ ~Paused(saved, t) /\ earliestIsNow(saved)
    BY <1>2, <1>5, DecideIs
  <2> HIDE DEF t
  <2>2. Fields BY <1>2, FieldTypes
  <2>3. latest \in 1 .. MaxRelease /\ age \in [1 .. latest -> 0 .. Hours] BY <1>3, LatestIs
  <2>4. t \in 1 .. MaxRelease /\ t \in Nat BY <2>1, <2>2, <2>3 DEF Fields
  <2>5. core' \in CoreRec /\ core'.pc = "decided" /\ core'.version = t BY <1>1, <1>3, <1>5, <2>4 DEF CoreRec, CorePcs, t
  <2>6. UpdateTypes' BY <1>2, <2>5 DEF UpdateTypes, Ages
  <2>7. RunningAged' BY <1>2, <2>1, <2>5 DEF RunningAged, Aged, UnderWay, Started
  <2>8. TriedAged' BY <1>2, <2>1, <2>5 DEF UpdateInv, TriedAged, Aged, UnderWay
  <2>9. \A v : FailuresOf(v)' = FailuresOf(v) /\ Pending(v) = 0 /\ Pending(v)' = 0
    BY <1>2, <2>1 DEF FailuresOf, Pending, UnderWay
  <2>10. Tallied' BY <1>2, <2>9 DEF UpdateInv, Tallied, Aged
  <2>11. LessThanTwice'
    <3>1. FailuresOf(t) \in Nat /\ FailuresOf(t) <= 1 BY <2>1, <2>2 DEF Paused, FailuresOf, Fields
    <3>2. ~\E w \in DOMAIN age : w > t /\ Aged(w)
      <4>1. SUFFICES ASSUME NEW w \in DOMAIN age, w > t, Aged(w) PROVE FALSE OBVIOUS
      <4>2. w <= t /\ w \in Nat BY <4>1, <2>1, <2>3
      <4>3. QED BY <4>1, <4>2, <2>4
    <3>3. ~(t <= current) BY <2>1, <2>2, <2>4 DEF Fields
    <3>4. tries[t] = 0 \/ tries[t] <= FailuresOf(t) + Pending(t) BY <2>2, <2>4, <3>2, <3>3 DEF UpdateInv, Tallied, Fields
    <3>5. tries[t] <= FailuresOf(t) BY <2>9, <3>1, <3>4, <2>2, <2>4 DEF Fields
    <3>6. QED BY <1>2, <2>5, <2>9, <3>1, <3>5 DEF LessThanTwice
  <2>12. TonightSaved'
    <3>1. tonight = 0
      BY <2>1, <2>2 DEF UpdateInv, TonightSaved, earliestIsNow, Fields
    <3>2. QED BY <1>2, <3>1 DEF TonightSaved
  <2>13. Restrained' BY <1>2 DEF UpdateInv, Restrained
  <2>14. QED BY <2>6, <2>7, <2>8, <2>10, <2>11, <2>12, <2>13 DEF UpdateInv
<1>6. QED BY <1>4, <1>5

\* The attempt is saved, or the file cannot be written and the core lets it be.
LEMMA StartKeeps == ASSUME UpdateInv, start PROVE UpdateInv'
<1>1. /\ UpdateTypes /\ core.pc = "decided" /\ UNCHANGED <<hour, age, current, unit, due, tries, tonight>>
  BY DEF UpdateInv, start
<1>2. left \in LeftRec /\ core \in CoreRec /\ saved \in SavedRec BY <1>1 DEF UpdateTypes
<1>3. Fields BY <1>1, FieldTypes
<1>4. CASE left.unsaved > 0 /\ left' = [left EXCEPT !.unsaved = @ - 1] /\ core' = Idle /\ UNCHANGED saved
  <2>1. core' \in CoreRec /\ core'.pc = "idle" BY <1>4 DEF Idle, NoLast, CoreRec, CorePcs, LastRec
  <2>2. left' \in LeftRec BY <1>2, <1>4 DEF LeftRec
  <2>3. QED BY <1>1, <1>4, <2>1, <2>2, RestKeeps
<1>5. CASE /\ saved' = [saved EXCEPT !.last = [version |-> core.version, age |-> 0, result |-> "running"]]
           /\ core' = [core EXCEPT !.pc = "start", !.before = saved.last] /\ UNCHANGED left
  <2>1. ~UnderWay /\ Aged(core.version) BY <1>1 DEF UpdateInv, RunningAged, Deciding
  <2>2. /\ core' \in CoreRec /\ core'.pc = "start" /\ core'.version = core.version /\ core'.before = saved.last
    BY <1>2, <1>3, <1>5 DEF CoreRec, CorePcs, Fields
  <2>3. /\ saved' \in SavedRec /\ saved'.last = [version |-> core.version, age |-> 0, result |-> "running"]
        /\ saved'.failures = saved.failures
    <3>1. [version |-> core.version, age |-> 0, result |-> "running"] \in LastRec BY <1>3 DEF Fields, LastRec
    <3>2. QED BY <1>2, <1>5, <3>1 DEF SavedRec
  <2>4. saved'.last.version = core.version /\ saved'.last.result = "running" /\ saved'.last.age = 0 BY <2>3
  <2>5. UpdateTypes' BY <1>1, <1>5, <2>2, <2>3 DEF UpdateTypes, Ages
  <2>6. RunningAged' BY <1>1, <2>1, <2>2, <2>4 DEF RunningAged, Aged, UnderWay, Started, Deciding
  <2>7. TriedAged' BY <1>1, <2>2, <2>4 DEF UpdateInv, TriedAged, Aged, UnderWay, Deciding
  <2>8. \A v : FailuresOf(v)' = FailuresOf(v) /\ Pending(v) = 0 /\ Pending(v)' = 0
    BY <2>1, <2>2, <2>3 DEF FailuresOf, Pending, Started
  <2>9. Tallied' BY <1>1, <2>8 DEF UpdateInv, Tallied, Aged
  <2>10. LessThanTwice' BY <1>1, <2>2, <2>8 DEF UpdateInv, LessThanTwice
  <2>11. TonightSaved' BY <1>1, <1>3 DEF UpdateInv, TonightSaved, Deciding, Fields
  <2>12. QED BY <1>1, <2>5, <2>6, <2>7, <2>9, <2>10, <2>11 DEF UpdateInv, Restrained
<1>6. QED BY <1>4, <1>5 DEF start

\* The unit is started, once more for its release; or the box is busy, or systemd refuses.
LEMMA UpdateSystemKeeps == ASSUME UpdateInv, updateSystem PROVE UpdateInv'
<1>1. /\ UpdateTypes /\ core.pc = "start" /\ UNCHANGED <<hour, age, current, saved, due, left>>
  BY DEF UpdateInv, updateSystem
<1>2. left \in LeftRec /\ core \in CoreRec /\ saved \in SavedRec /\ Ages BY <1>1 DEF UpdateTypes
<1>3. Fields BY <1>1, FieldTypes
<1>4. /\ UnderWay /\ Aged(core.version) /\ saved.last.version = core.version /\ saved.last.age = 0
      /\ core.before.result # "running" /\ Deciding /\ Started
  BY <1>1 DEF UpdateInv, RunningAged, Deciding, Started
<1>5. latest \in 1 .. MaxRelease /\ age \in [1 .. latest -> 0 .. Hours] BY <1>2, LatestIs
<1>6. core.version \in 1 .. MaxRelease BY <1>3, <1>4, <1>5 DEF Aged, Fields
<1>7. tonight = 0 BY <1>3, <1>4 DEF UpdateInv, TonightSaved, Fields
<1>8. ASSUME NEW p \in {"busy", "failed"}, core' = [core EXCEPT !.pc = p], UNCHANGED <<unit, tries, tonight>>
      PROVE  UpdateInv'
  <2>1. core' \in CoreRec /\ core'.pc = p /\ core'.version = core.version /\ core'.before = core.before
    BY <1>2, <1>8 DEF CoreRec, CorePcs
  <2>2. UpdateTypes' BY <1>1, <1>8, <2>1 DEF UpdateTypes, Ages
  <2>3. RunningAged' BY <1>1, <1>4, <1>8, <2>1 DEF RunningAged, Aged, UnderWay, Started, Deciding
  <2>4. TriedAged' BY <1>1, <1>4, <1>8, <2>1 DEF UpdateInv, TriedAged, Aged, UnderWay
  <2>5. \A v : FailuresOf(v)' = FailuresOf(v) /\ Pending(v) = 0 /\ Pending(v)' = 0
    BY <1>1, <1>4, <1>8, <2>1 DEF FailuresOf, Pending, Started
  <2>6. Tallied' BY <1>1, <1>8, <2>5 DEF UpdateInv, Tallied, Aged
  <2>7. LessThanTwice' BY <1>8, <2>1 DEF LessThanTwice
  <2>8. TonightSaved' BY <1>7, <1>8 DEF TonightSaved
  <2>9. QED BY <1>8, <2>2, <2>3, <2>4, <2>6, <2>7, <2>8 DEF UpdateInv, Restrained
<1>9. ASSUME unit' = core.version, core' = Idle, tries' = [tries EXCEPT ![core.version] = @ + 1], tonight' = tonight + 1
      PROVE  UpdateInv'
  <2>1. core' \in CoreRec /\ core'.pc = "idle" BY <1>9 DEF Idle, NoLast, CoreRec, CorePcs, LastRec
  <2>2. /\ tries' \in [1 .. MaxRelease -> Nat] /\ tries'[core.version] = tries[core.version] + 1 /\ tonight' = 1
        /\ \A v \in 1 .. MaxRelease : v # core.version => tries'[v] = tries[v]
    BY <1>1, <1>3, <1>6, <1>7, <1>9 DEF UpdateTypes, Fields
  <2>3. UpdateTypes'
    <3>1. Ages' BY <1>1, <1>2 DEF Ages
    <3>2. unit' \in Nat BY <1>6, <1>9
    <3>3. QED BY <1>1, <2>1, <2>2, <3>1, <3>2 DEF UpdateTypes
  <2>4. ~Deciding' /\ ~Started' BY <2>1 DEF Deciding, Started
  <2>5. RunningAged' BY <1>1, <1>4, <2>1, <2>4 DEF RunningAged, Aged, UnderWay
  <2>6. TriedAged'
    <3>1. SUFFICES ASSUME NEW v \in 1 .. MaxRelease, tries'[v] > 0 PROVE Aged(v) /\ v <= saved.last.version
      BY <1>1, <2>2, <2>4 DEF TriedAged, Aged, UnderWay
    <3>2. CASE v = core.version BY <3>2, <1>3, <1>4 DEF Fields
    <3>3. CASE v # core.version BY <3>1, <3>3, <1>3, <1>4, <2>2 DEF UpdateInv, TriedAged, Fields
    <3>4. QED BY <3>2, <3>3
  <2>7. /\ tries[core.version] <= FailuresOf(core.version) /\ FailuresOf(core.version) <= 1 /\ FailuresOf(core.version) \in Nat
        /\ tries[core.version] \in Nat
    BY <1>1, <1>3, <1>6 DEF UpdateInv, LessThanTwice, FailuresOf, Fields
  <2>8. \A v : FailuresOf(v)' = FailuresOf(v) /\ Pending(v) = 0 BY <1>1, <1>4 DEF FailuresOf, Pending
  <2>9. \A v : v = core.version => Pending(v)' = 1
    <3>1. UnderWay' /\ saved'.last.version = core.version BY <1>1, <1>4 DEF UnderWay
    <3>2. QED BY <3>1, <2>4 DEF Pending
  <2>10. Tallied'
    <3>1. SUFFICES ASSUME NEW v \in 1 .. MaxRelease
                   PROVE  \/ tries'[v] = 0 \/ v <= current \/ (\E w \in DOMAIN age : w > v /\ Aged(w))
                          \/ tries'[v] <= FailuresOf(v)' + Pending(v)'
      BY <1>1, <2>2 DEF Tallied, Aged
    <3>2. CASE v = core.version BY <3>2, <2>2, <2>7, <2>8, <2>9
    <3>3. CASE v # core.version
      <4>1. CASE tries[v] <= FailuresOf(v) + Pending(v)
        <5>1. Pending(v)' \in Nat /\ FailuresOf(v) \in Nat BY <1>3 DEF Pending, FailuresOf, Fields
        <5>2. QED BY <2>2, <2>8, <3>3, <4>1, <5>1, <1>3 DEF Fields
      <4>2. CASE tries[v] = 0 \/ v <= current \/ (\E w \in DOMAIN age : w > v /\ Aged(w)) BY <2>2, <3>3, <4>2
      <4>3. QED BY <4>1, <4>2, <1>3 DEF UpdateInv, Tallied, Fields
    <3>4. QED BY <3>2, <3>3
  <2>11. LessThanTwice' BY <2>1 DEF LessThanTwice
  <2>12. TonightSaved'
    <3>1. hour \in 0 .. Hours - 1 /\ saved.window \in Windows BY <1>1, <1>3 DEF UpdateTypes, Fields
    <3>2. Since(saved.window, hour) \in Nat BY <3>1, SinceIs
    <3>3. saved.last.version # 0 BY <1>4, <1>6
    <3>4. QED BY <1>1, <1>4, <2>4, <3>2, <3>3 DEF TonightSaved
  <2>13. Restrained'
    <3>1. \A v \in 1 .. MaxRelease : tries[v] <= 2 BY <1>3 DEF UpdateInv, Restrained, Fields
    <3>2. tries'[core.version] <= 2 BY <2>2, <2>7
    <3>3. \A v \in 1 .. MaxRelease : tries'[v] <= 2 BY <2>2, <3>1, <3>2
    <3>4. tonight' <= 1 /\ DOMAIN tries' = 1 .. MaxRelease BY <2>2
    <3>5. QED BY <3>3, <3>4 DEF Restrained
  <2>14. QED BY <2>3, <2>5, <2>6, <2>10, <2>11, <2>12, <2>13 DEF UpdateInv
<1>10. QED BY <1>8, <1>9 DEF updateSystem

\* A busy box: the attempt before is put back, or the file cannot be written and it stays as one that runs.
LEMMA TakeBackKeeps == ASSUME UpdateInv, takeBack PROVE UpdateInv'
<1>1. /\ UpdateTypes /\ core.pc = "busy" /\ core' = Idle /\ UNCHANGED <<hour, age, current, unit, due, tries, tonight>>
  BY DEF UpdateInv, takeBack
<1>2. left \in LeftRec /\ core \in CoreRec /\ saved \in SavedRec BY <1>1 DEF UpdateTypes
<1>3. Fields BY <1>1, FieldTypes
<1>4. /\ UnderWay /\ saved.last.version = core.version /\ core.before.result # "running" /\ Deciding /\ Started
  BY <1>1 DEF UpdateInv, RunningAged, Deciding, Started
<1>5. modify([saved EXCEPT !.last = core.before])
  BY <1>4 DEF takeBack, UnderWay
<1>6. left' \in LeftRec /\ (saved' = [saved EXCEPT !.last = core.before] \/ saved' = saved) BY <1>2, <1>5, ModifyIs DEF Same
<1>7. core' \in CoreRec /\ core'.pc = "idle" BY <1>1 DEF Idle, NoLast, CoreRec, CorePcs, LastRec
<1>8. CASE saved' = saved BY <1>1, <1>6, <1>7, <1>8, RestKeeps
<1>9. CASE saved' = [saved EXCEPT !.last = core.before]
  <2>1. saved' \in SavedRec /\ saved'.last = core.before /\ saved'.failures = saved.failures BY <1>2, <1>3, <1>9 DEF SavedRec, Fields
  <2>2. ~UnderWay' /\ ~Deciding' /\ ~Started' /\ core'.pc # "decided" BY <1>4, <1>7, <2>1 DEF UnderWay, Deciding, Started
  <2>3. UpdateTypes' BY <1>1, <1>6, <1>7, <2>1 DEF UpdateTypes, Ages
  <2>4. RunningAged' BY <2>2 DEF RunningAged
  <2>5. TriedAged' BY <1>1, <2>2 DEF UpdateInv, TriedAged, Aged
  <2>6. \A v : FailuresOf(v)' = FailuresOf(v) /\ Pending(v) = 0 /\ Pending(v)' = 0
    BY <1>4, <2>1, <2>2 DEF FailuresOf, Pending
  <2>7. Tallied' BY <1>1, <2>6 DEF UpdateInv, Tallied, Aged
  <2>8. LessThanTwice' BY <1>7 DEF LessThanTwice
  <2>9. TonightSaved'
    <3>1. tonight = 0 BY <1>3, <1>4 DEF UpdateInv, TonightSaved, Fields
    <3>2. QED BY <1>1, <3>1 DEF TonightSaved
  <2>10. QED BY <1>1, <2>3, <2>4, <2>5, <2>7, <2>8, <2>9 DEF UpdateInv, Restrained
<1>10. QED BY <1>6, <1>8, <1>9

\* A unit ends, or the owner's button starts one: what is installed never goes back.
LEMMA UnitsKeep == ASSUME UpdateInv, UnitEnds \/ Button PROVE UpdateInv'
<1>1. UpdateTypes BY DEF UpdateInv
<1>2. Fields /\ Ages /\ unit \in Nat BY <1>1, FieldTypes DEF UpdateTypes
<1>3. latest \in 1 .. MaxRelease /\ age \in [1 .. latest -> 0 .. Hours] BY <1>2, LatestIs
<1>4. /\ UNCHANGED <<hour, age, saved, core, due, tries, tonight>>
  BY DEF UnitEnds, Button
<1>5. left' \in LeftRec BY <1>1 DEF UnitEnds, Button, Owner, UpdateTypes, LeftRec
<1>6. current' \in Nat /\ current' >= current BY <1>2, <1>3 DEF UnitEnds, Button, Fields
<1>7. unit' \in Nat BY <1>2, <1>3, AutoUpdateAssumption DEF UnitEnds, Button
<1>8. UpdateTypes' BY <1>1, <1>4, <1>5, <1>6, <1>7 DEF UpdateTypes, Ages
<1>9. RunningAged' /\ TriedAged' BY <1>4 DEF UpdateInv, RunningAged, TriedAged, Aged, UnderWay, Started, Deciding
<1>10. \A v : FailuresOf(v)' = FailuresOf(v) /\ Pending(v)' = Pending(v) BY <1>4 DEF FailuresOf, Pending, UnderWay, Started
<1>11. \A v \in DOMAIN tries : v <= current => v <= current' BY <1>2, <1>6 DEF Fields
<1>12. Tallied' BY <1>4, <1>10, <1>11 DEF UpdateInv, Tallied, Aged
<1>13. LessThanTwice' BY <1>4, <1>10 DEF UpdateInv, LessThanTwice
<1>14. TonightSaved' /\ Restrained' BY <1>4 DEF UpdateInv, TonightSaved, Restrained, Deciding, Since
<1>15. QED BY <1>8, <1>9, <1>12, <1>13, <1>14 DEF UpdateInv

\* The owner's settings: another window forgets the night, and a resume the failures together with the tries.
LEMMA OwnerKeeps ==
    ASSUME UpdateInv, NEW enabled \in BOOLEAN, NEW resume \in BOOLEAN, NEW w \in Windows, Update(enabled, w, resume)
    PROVE  UpdateInv'
<1>1. UpdateTypes /\ UNCHANGED <<hour, age, current, unit, core, due>> BY DEF UpdateInv, Update
<1>2. Fields /\ saved \in SavedRec BY <1>1, FieldTypes DEF UpdateTypes
<1>3. left' \in LeftRec BY <1>1 DEF Update, Owner, UpdateTypes, LeftRec
<1>4. /\ saved' \in SavedRec /\ saved'.last = saved.last /\ saved'.window = w
      /\ saved'.failures = IF resume THEN NoFailures ELSE saved.failures
  BY <1>2 DEF Update, SavedRec, NoFailures, FailRec
<1>5. /\ tonight' = IF w = saved.window THEN tonight ELSE 0
      /\ tries' = IF resume THEN [v \in DOMAIN tries |-> 0] ELSE tries
  BY DEF Update
<1>6. tonight' \in Nat /\ tries' \in [1 .. MaxRelease -> Nat] BY <1>1, <1>2, <1>5 DEF UpdateTypes, Fields
<1>7. UpdateTypes' BY <1>1, <1>3, <1>4, <1>6 DEF UpdateTypes, Ages
<1>8. UnderWay' = UnderWay /\ Started' = Started /\ Deciding' = Deciding BY <1>1, <1>4 DEF UnderWay, Started, Deciding
<1>9. RunningAged' BY <1>1, <1>4, <1>8 DEF UpdateInv, RunningAged, Aged
<1>10. \A v : Pending(v)' = Pending(v) BY <1>4, <1>8 DEF Pending
<1>11. TonightSaved' BY <1>1, <1>4, <1>5, <1>8 DEF UpdateInv, TonightSaved
<1>12. CASE ~resume
  <2>1. tries' = tries /\ \A v : FailuresOf(v)' = FailuresOf(v) BY <1>4, <1>5, <1>12 DEF FailuresOf
  <2>2. TriedAged' BY <1>1, <1>4, <1>8, <2>1 DEF UpdateInv, TriedAged, Aged
  <2>3. Tallied' BY <1>1, <1>10, <2>1 DEF UpdateInv, Tallied, Aged
  <2>4. LessThanTwice' BY <1>1, <2>1 DEF UpdateInv, LessThanTwice
  <2>5. Restrained' BY <1>2, <1>5, <2>1 DEF UpdateInv, Restrained, Fields
  <2>6. QED BY <1>7, <1>9, <1>11, <2>2, <2>3, <2>4, <2>5 DEF UpdateInv
<1>13. CASE resume
  <2>1. DOMAIN tries' = 1 .. MaxRelease /\ \A v \in 1 .. MaxRelease : tries'[v] = 0 BY <1>2, <1>5, <1>13 DEF Fields
  <2>2. TriedAged' /\ Tallied' BY <2>1 DEF TriedAged, Tallied
  <2>3. Restrained' BY <1>2, <1>5, <2>1 DEF UpdateInv, Restrained, Fields
  <2>4. LessThanTwice'
    <3>1. SUFFICES ASSUME core.pc \in {"decided", "start"}
                   PROVE  tries'[core.version] <= FailuresOf(core.version)' /\ FailuresOf(core.version)' <= 1
      BY <1>1 DEF LessThanTwice
    <3>2. Aged(core.version) BY <3>1 DEF UpdateInv, RunningAged, Deciding
    <3>3. Ages BY <1>1 DEF UpdateTypes
    <3>4. latest \in 1 .. MaxRelease /\ age \in [1 .. latest -> 0 .. Hours] BY <3>3, LatestIs
    <3>5. core.version \in 1 .. MaxRelease BY <1>2, <3>2, <3>4 DEF Aged, Fields
    <3>6. saved'.failures.count = 0 /\ saved'.failures.version = 0 BY <1>4, <1>13 DEF NoFailures
    <3>7. FailuresOf(core.version)' = 0 BY <3>6 DEF FailuresOf
    <3>8. QED BY <2>1, <3>5, <3>7
  <2>5. QED BY <1>7, <1>9, <1>11, <2>2, <2>3, <2>4 DEF UpdateInv
<1>14. QED BY <1>12, <1>13

\* Releases come out and get older: what is aged stays so.
LEMMA TimeKeeps == ASSUME UpdateInv, Publish \/ Tick PROVE UpdateInv'
<1>1. UpdateTypes BY DEF UpdateInv
<1>2. Fields /\ Ages /\ saved \in SavedRec /\ hour \in 0 .. Hours - 1 BY <1>1, FieldTypes DEF UpdateTypes
<1>3. latest \in 1 .. MaxRelease /\ age \in [1 .. latest -> 0 .. Hours] BY <1>2, LatestIs
<1> USE AutoUpdateAssumption
<1>4. UNCHANGED <<current, unit, core, left, tries>> BY DEF Publish, Tick
<1>5. Ages' /\ \A v : Aged(v) => Aged(v)'
  <2>1. CASE Publish
    <3>1. age' = [v \in 1 .. latest + 1 |-> IF v <= latest THEN age[v] ELSE 0] /\ latest < MaxRelease BY <2>1 DEF Publish
    <3>2. latest + 1 \in 1 .. MaxRelease /\ age' \in [1 .. latest + 1 -> 0 .. Hours] BY <1>3, <3>1
    <3>3. Ages' BY ONLY <3>2 DEF Ages
    <3>4. \A v : Aged(v) => Aged(v)' BY <1>3, <3>1 DEF Aged
    <3>5. QED BY <3>3, <3>4
  <2>2. CASE Tick
    <3>1. age' = [v \in DOMAIN age |-> Older(age[v])] BY <2>2 DEF Tick
    <3>2. age' \in [1 .. latest -> 0 .. Hours] BY <1>3, <3>1 DEF Older
    <3>3. Ages' BY ONLY <1>3, <3>2 DEF Ages
    <3>4. \A v : Aged(v) => Aged(v)' BY <1>3, <3>1 DEF Aged, Older
    <3>5. QED BY <3>3, <3>4
  <2>3. QED BY <2>1, <2>2
<1>6. /\ saved' \in SavedRec /\ saved'.failures = saved.failures /\ saved'.window = saved.window
      /\ saved'.last.version = saved.last.version /\ saved'.last.result = saved.last.result
      /\ (~Deciding \/ saved'.last = saved.last)
  <2>1. CASE Publish BY <2>1, <1>2 DEF Publish
  <2>2. CASE Tick
    <3> DEFINE a == IF saved.last.version = 0 THEN saved.last.age ELSE Older(saved.last.age)
    <3>1. saved' = [saved EXCEPT !.last.age = a] /\ ~Deciding BY <2>2 DEF Tick, Deciding
    <3>2. a \in Nat BY <1>2 DEF Older, Fields
    <3> HIDE DEF a
    <3>3. QED BY <1>2, <3>1, <3>2 DEF SavedRec, LastRec
  <2>3. QED BY <2>1, <2>2
<1>7. hour' \in 0 .. Hours - 1 /\ due' \in BOOLEAN /\ tonight' \in Nat
  <2>1. CASE Publish BY <1>1, <2>1 DEF Publish, UpdateTypes
  <2>2. CASE Tick
    <3>1. hour' \in 0 .. Hours - 1 BY <1>2, <2>2, SinceIs DEF Tick, Fields
    <3>2. due' = TRUE BY <2>2 DEF Tick
    <3>3. tonight' \in {tonight, 0} BY <2>2 DEF Tick
    <3>4. QED BY <1>2, <3>1, <3>2, <3>3 DEF Fields
  <2>3. QED BY <2>1, <2>2
<1>8. UpdateTypes' BY <1>1, <1>4, <1>5, <1>6, <1>7 DEF UpdateTypes
<1>9. UnderWay' = UnderWay /\ Started' = Started /\ Deciding' = Deciding BY <1>4, <1>6 DEF UnderWay, Started, Deciding
<1>10. Started => Deciding BY DEF Started, Deciding
<1>11. RunningAged' BY <1>4, <1>5, <1>6, <1>9, <1>10 DEF UpdateInv, RunningAged
<1>12. TriedAged' BY <1>4, <1>5, <1>6, <1>9 DEF UpdateInv, TriedAged
<1>13. \A v : FailuresOf(v)' = FailuresOf(v) /\ Pending(v)' = Pending(v) BY <1>6, <1>9 DEF FailuresOf, Pending
<1>14. Tallied'
  <2>1. \A v : (\E w \in DOMAIN age : w > v /\ Aged(w)) => \E w \in DOMAIN age' : w > v /\ Aged(w)' BY <1>5 DEF Aged
  <2>2. QED BY <1>4, <1>13, <2>1 DEF UpdateInv, Tallied
<1>15. LessThanTwice' BY <1>4, <1>13 DEF UpdateInv, LessThanTwice
<1>16. TonightSaved'
  <2>1. CASE Publish BY <2>1, <1>9 DEF Publish, UpdateInv, TonightSaved
  <2>2. CASE Tick
    <3>1. SUFFICES ASSUME tonight' > 0 PROVE saved'.last.version # 0 /\ saved'.last.age <= Since(saved'.window, hour') /\ ~Deciding'
      BY DEF TonightSaved
    <3>2. tonight' = tonight /\ Since(saved.window, hour') > 0 BY <2>2, <3>1 DEF Tick
    <3>3. saved.last.version # 0 /\ saved.last.age <= Since(saved.window, hour) /\ ~Deciding
      BY <3>1, <3>2 DEF UpdateInv, TonightSaved
    <3>4. hour' = (hour + 1) % Hours BY <2>2 DEF Tick
    <3>5. Since(saved.window, hour) \in Nat /\ Since(saved.window, hour') = Since(saved.window, hour) + 1
      BY <1>2, <3>2, <3>4, SinceIs DEF Fields
    <3>6. saved'.last.age = Older(saved.last.age)
      <4>1. saved' = [saved EXCEPT !.last.age = Older(saved.last.age)] BY <2>2, <3>3 DEF Tick
      <4>2. QED BY <1>2, <4>1 DEF SavedRec, LastRec
    <3>7. saved.last.age \in Nat BY <1>2 DEF Fields
    <3>8. saved'.last.age <= Since(saved.window, hour')
      <4>1. PICK g, s : g = saved.last.age /\ s = Since(saved.window, hour) OBVIOUS
      <4>2. g \in Nat /\ s \in Nat /\ g <= s BY <3>3, <3>5, <3>7, <4>1
      <4>3. Older(g) <= s + 1 BY ONLY <4>2, OlderIs
      <4>4. QED BY ONLY <3>5, <3>6, <4>1, <4>3
    <3>9. QED BY <1>6, <1>9, <3>3, <3>8
  <2>3. QED BY <2>1, <2>2
<1>17. Restrained'
  <2>1. tonight' \in {tonight, 0} BY DEF Publish, Tick
  <2>2. QED BY <1>2, <1>4, <2>1 DEF UpdateInv, Restrained, Fields
<1>18. QED BY <1>8, <1>11, <1>12, <1>14, <1>15, <1>16, <1>17 DEF UpdateInv

\* Every step of the automatic update keeps its invariant.
THEOREM UpdateInvariant == updateSpec => []UpdateInv
<1>1. updateInit => UpdateInv BY UpdateStarts
<1>2. UpdateInv /\ [updateNext]_updateVars => UpdateInv'
  <2>1. SUFFICES ASSUME UpdateInv, [updateNext]_updateVars PROVE UpdateInv' OBVIOUS
  <2>2. CASE updateCore
    BY <2>1, <2>2, SettlingKeeps, CheckKeeps, StayAwayKeeps, StartKeeps, UpdateSystemKeeps, TakeBackKeeps, CannotStartKeeps
       DEF updateCore
  <2>3. CASE Stop BY <2>1, <2>3, StayAwayKeeps
  <2>4. CASE UnitEnds \/ Button BY <2>1, <2>4, UnitsKeep
  <2>5. CASE Publish \/ Tick BY <2>1, <2>5, TimeKeeps
  <2>6. CASE \E enabled, resume \in BOOLEAN, w \in Windows : Update(enabled, w, resume) BY <2>1, <2>6, OwnerKeeps
  <2>7. CASE UNCHANGED updateVars
    BY <2>1, <2>7 DEF updateVars, UpdateInv, UpdateTypes, RunningAged, TriedAged, Tallied, LessThanTwice, TonightSaved,
       Restrained, Ages, Aged, UnderWay, Started, Deciding, FailuresOf, Pending, Since
  <2>8. QED BY <2>1, <2>2, <2>3, <2>4, <2>5, <2>6, <2>7 DEF updateNext
<1>3. QED BY <1>1, <1>2, PTL DEF updateSpec

\* However the core stops, the file fails and the owner and the button come between: no release is started by itself
\* more than twice before the owner resumes it, and none twice in one opening of the window (decide.go:123, autoupdate.go:189).
THEOREM RestrainedHolds == updateSpec => []Restrained
<1>1. UpdateInv => Restrained BY DEF UpdateInv
<1>2. QED BY <1>1, UpdateInvariant, PTL

-------------------------------------------------------------------------------
(* Alerts: Sparing.                                                              *)

SentRec == [age : Nat, repeats : Nat, resolved : BOOLEAN]
Waiters == {"", "upgrade", "support"}
Message == [key : Keys, kind : {"alert", "resolved"}, by : Waiters, previous : SentRec]
DockerRec == [pc : {"never", "idle", "runs", "ended", "marked"}, memory : BOOLEAN, file : BOOLEAN, told : Nat]
SentTypes == /\ DOMAIN sent \subseteq Keys /\ sent \in [DOMAIN sent -> SentRec]
             /\ flight \subseteq Message /\ quiet \in [Keys -> 0 .. dedupeWindow]
\* What a channel took less than six hours ago has a record, no older than that.
Remembered == \A k \in Keys : quiet[k] < dedupeWindow => Known(k) /\ sent[k].age <= quiet[k]
\* An alert that is on its way has a record of this tick, and is the only one of its key.
OnItsWay == \A m \in flight : m.kind = "alert" =>
              /\ Known(m.key) /\ sent[m.key].age = 0 /\ quiet[m.key] >= dedupeWindow
              /\ \A o \in flight : o.kind = "alert" /\ o.key = m.key => o = m
\* Whoever waits for an answer waits for that of an alert.
NoWaiter(m) == m.by = ""
WaitedFor == \A m \in flight : NoWaiter(m) \/ m.kind = "alert"
\* The end of a Docker update is told only when it is marked, and marked once.
Marked == /\ docker \in DockerRec /\ docker.told <= 1 /\ (~docker.file => docker.told = 0) /\ (docker.pc = "marked" => docker.told = 0 /\ docker.file)
SentInv == SentTypes /\ Remembered /\ OnItsWay /\ WaitedFor
AlertInv == SentInv /\ Marked

\* At the start no alert is raised and nothing was sent.
LEMMA AlertsStart == alertsInit => AlertInv
<1> SUFFICES ASSUME alertsInit PROVE AlertInv OBVIOUS
<1>1. sent = <<>> /\ flight = {} /\ quiet = [k \in Keys |-> dedupeWindow] BY DEF alertsInit
<1>2. DOMAIN sent = {} /\ sent \in [{} -> SentRec] BY <1>1
<1>3. SentTypes BY <1>1, <1>2, AlertsAssumption DEF SentTypes
<1>4. Remembered BY <1>1, AlertsAssumption DEF Remembered
<1>5. OnItsWay BY <1>1 DEF OnItsWay
<1>6. docker \in {Watch, Never} BY DEF alertsInit
<1>7. docker \in DockerRec /\ docker.told = 0 /\ docker.pc # "marked"
  <2>1. Watch \in DockerRec /\ Watch.told = 0 /\ Watch.pc = "idle" BY DEF Watch, DockerRec
  <2>2. Never \in DockerRec /\ Never.told = 0 /\ Never.pc = "never" BY <2>1 DEF Never, DockerRec
  <2>3. QED BY <1>6, <2>1, <2>2
<1>9. Marked BY <1>7 DEF Marked
<1>10. QED BY <1>1, <1>3, <1>4, <1>5, <1>9 DEF AlertInv, SentInv, WaitedFor

\* The records that are kept when an alert is raised: all that a repeat or a message on its way asks for.
LEMMA NotStale ==
    ASSUME SentInv, NEW k \in DOMAIN sent, sent[k].age < dedupeWindow PROVE k \notin Stale
  BY AlertsAssumption DEF SentInv, SentTypes, SentRec, Stale
\* An alert that is raised is held back, or is the only one of its key on its way.
LEMMA RaiseKeeps ==
    ASSUME SentInv, NEW k \in Keys, NEW by \in Waiters, Apply(raiseAs(k, sent, by)), UNCHANGED quiet
    PROVE  SentInv'
<1>0. dedupeWindow \in Nat \ {0} BY AlertsAssumption
<1>1. SentTypes /\ Remembered /\ OnItsWay /\ WaitedFor BY DEF SentInv
<1>2. CASE ~channel
  <2>1. sent' = sent /\ flight' = flight BY <1>2 DEF Apply, raiseAs
  <2>2. QED BY <2>1 DEF SentInv, SentTypes, Remembered, OnItsWay, WaitedFor, Known
<1>3. CASE channel /\ k \in DOMAIN sent /\ Recent(k)
  <2> DEFINE n == IF sent[k].repeats < 1 THEN sent[k].repeats + 1 ELSE sent[k].repeats
  <2>1. sent' = [sent EXCEPT ![k].repeats = n] /\ flight' = flight BY <1>3 DEF Apply, raiseAs
  <2>2. sent[k] \in SentRec BY <1>1, <1>3 DEF SentTypes
  <2>3. n \in Nat
    <3>1. sent[k].repeats \in Nat BY <2>2 DEF SentRec
    <3>2. QED BY ONLY <3>1 DEF n
  <2> HIDE DEF n
  <2>4. sent' \in [DOMAIN sent -> SentRec] /\ DOMAIN sent' = DOMAIN sent /\ \A j \in DOMAIN sent : sent'[j].age = sent[j].age
    BY <1>1, <1>3, <2>1, <2>2, <2>3 DEF SentTypes, SentRec
  <2>5. SentTypes' BY <1>1, <2>1, <2>4 DEF SentTypes
  <2>6. Remembered' BY <1>1, <2>4 DEF Remembered, Known
  <2>7. OnItsWay' BY <1>1, <2>1, <2>4 DEF OnItsWay, Known
  <2>8. QED BY <1>1, <2>1, <2>5, <2>6, <2>7 DEF SentInv, WaitedFor
<1>4. CASE channel /\ ~(k \in DOMAIN sent /\ Recent(k))
  <2> DEFINE m == [key |-> k, kind |-> "alert", by |-> by, previous |-> IF k \in DOMAIN sent THEN sent[k] ELSE None]
  <2>1. sent' = [j \in {k} \cup (DOMAIN sent \ Stale) |-> IF j = k THEN New ELSE sent[j]] /\ flight' = flight \cup {m} BY <1>4 DEF Apply, raiseAs
  <2>2. New \in SentRec /\ New.age = 0 /\ None \in SentRec BY DEF New, None, SentRec
  <2>3. m \in Message /\ m.kind = "alert" /\ m.key = k
    <3>1. (IF k \in DOMAIN sent THEN sent[k] ELSE None) \in SentRec BY <1>1, <2>2 DEF SentTypes
    <3>2. QED BY <3>1 DEF Message
  <2> HIDE DEF m
  <2>4. /\ DOMAIN sent' = {k} \cup (DOMAIN sent \ Stale) /\ sent'[k] = New
        /\ \A j \in DOMAIN sent \ Stale : j # k => sent'[j] = sent[j]
    BY <2>1
  <2>5. sent' \in [DOMAIN sent' -> SentRec]
    <3>1. sent' = [j \in DOMAIN sent' |-> sent'[j]] BY <2>1
    <3>2. \A j \in DOMAIN sent' : sent'[j] \in SentRec BY <1>1, <2>2, <2>4 DEF SentTypes
    <3>3. QED BY <3>1, <3>2
  <2>6. \A j \in Keys : quiet[j] \in Nat BY ONLY <1>0, <1>1 DEF SentTypes
  <2>7. quiet[k] >= dedupeWindow
    <3>1. quiet[k] \in Nat BY <2>6
    <3>2. quiet[k] < dedupeWindow => k \in DOMAIN sent /\ sent[k].age <= quiet[k] /\ sent[k].age \in Nat
      BY <1>1 DEF Remembered, Known, SentTypes, SentRec
    <3>3. k \in DOMAIN sent => ~(sent[k].age < dedupeWindow) BY <1>4 DEF Recent, Known
    <3>4. QED BY ONLY <1>0, <3>1, <3>2, <3>3
  <2>8. \A o \in flight : o.kind = "alert" => o.key # k
    <3>1. k \in DOMAIN sent => ~(sent[k].age < dedupeWindow) BY <1>4 DEF Recent, Known
    <3>2. QED BY ONLY <1>0, <1>1, <3>1 DEF OnItsWay, Known
  <2>9. SentTypes' BY <1>1, <2>1, <2>3, <2>4, <2>5 DEF SentTypes
  <2>10. Remembered'
    <3>1. SUFFICES ASSUME NEW j \in Keys, quiet[j] < dedupeWindow PROVE j \in DOMAIN sent' /\ sent'[j].age <= quiet[j]
      BY DEF Remembered, Known
    <3>2. j \in DOMAIN sent /\ sent[j].age <= quiet[j] /\ sent[j].age \in Nat BY <1>1, <3>1 DEF Remembered, Known, SentTypes, SentRec
    <3>3. sent[j].age < dedupeWindow
      <4>1. quiet[j] \in Nat BY <2>6
      <4>2. QED BY ONLY <1>0, <3>1, <3>2, <4>1
    <3>4. j \notin Stale BY <3>2, <3>3, NotStale
    <3>5. j # k
      <4>1. quiet[j] \in Nat BY <2>6
      <4>2. QED BY ONLY <1>0, <2>7, <3>1, <4>1
    <3>6. QED BY <2>4, <3>2, <3>4, <3>5
  <2>11. OnItsWay'
    <3>1. SUFFICES ASSUME NEW o \in flight', o.kind = "alert"
                   PROVE  /\ o.key \in DOMAIN sent' /\ sent'[o.key].age = 0 /\ quiet[o.key] >= dedupeWindow
                          /\ \A q \in flight' : q.kind = "alert" /\ q.key = o.key => q = o
      BY DEF OnItsWay, Known
    <3>2. CASE o = m BY <3>2, <2>1, <2>2, <2>3, <2>4, <2>7, <2>8
    <3>3. CASE o # m
      <4>1. o \in flight /\ o.key # k BY <2>1, <2>8, <3>1, <3>3
      <4>2. o.key \in DOMAIN sent /\ sent[o.key].age = 0 /\ quiet[o.key] >= dedupeWindow BY <1>1, <3>1, <4>1 DEF OnItsWay, Known
      <4>3. o.key \notin Stale
        <5>1. 0 < dedupeWindow BY ONLY <1>0
        <5>2. QED BY <4>2, <5>1, NotStale
      <4>4. QED BY <1>1, <2>1, <2>3, <2>4, <3>1, <4>1, <4>2, <4>3 DEF OnItsWay
    <3>4. QED BY <3>2, <3>3
  <2>12. WaitedFor' BY <1>1, <2>1, <2>3 DEF WaitedFor, NoWaiter
  <2>13. QED BY <2>9, <2>10, <2>11, <2>12 DEF SentInv
<1>5. QED BY <1>2, <1>3, <1>4

\* A condition that is gone is said once, and its record stays.
LEMMA ResolveKeeps ==
    ASSUME SentInv, NEW k \in Keys, Apply(resolve(k, sent)), UNCHANGED quiet PROVE SentInv'
<1>1. SentTypes /\ Remembered /\ OnItsWay /\ WaitedFor BY DEF SentInv
<1>2. CASE k \notin DOMAIN sent \/ sent[k].resolved
  <2>1. sent' = sent /\ flight' = flight BY <1>2 DEF Apply, resolve
  <2>2. QED BY <2>1 DEF SentInv, SentTypes, Remembered, OnItsWay, WaitedFor, Known
<1>3. CASE ~(k \notin DOMAIN sent \/ sent[k].resolved)
  <2> DEFINE m == [key |-> k, kind |-> "resolved", by |-> "", previous |-> None]
  <2>1. sent' = [sent EXCEPT ![k].resolved = TRUE] /\ (flight' = flight \cup {m} \/ flight' = flight)
    BY <1>3 DEF Apply, resolve
  <2>2. m \in Message /\ m.kind = "resolved" /\ NoWaiter(m) BY DEF Message, None, SentRec, Waiters, NoWaiter
  <2> HIDE DEF m
  <2>3. sent[k] \in SentRec BY <1>1, <1>3 DEF SentTypes
  <2>4. sent' \in [DOMAIN sent -> SentRec] /\ DOMAIN sent' = DOMAIN sent /\ \A j \in DOMAIN sent : sent'[j].age = sent[j].age
    BY <1>1, <1>3, <2>1, <2>3 DEF SentTypes, SentRec
  <2>5. SentTypes' BY <1>1, <2>1, <2>2, <2>4 DEF SentTypes
  <2>6. Remembered' BY <1>1, <2>4 DEF Remembered, Known
  <2>7. \A o \in flight' : o.kind = "alert" => o \in flight BY <2>1, <2>2
  <2>8. OnItsWay' BY <1>1, <2>4, <2>7 DEF OnItsWay, Known
  <2>9. WaitedFor' BY <1>1, <2>1, <2>2 DEF WaitedFor, NoWaiter
  <2>10. QED BY <2>5, <2>6, <2>8, <2>9 DEF SentInv
<1>4. QED BY <1>2, <1>3

\* A poll, the bus and the loops that tell raise an alert, resolve one, or do nothing.
LEMMA AppliesKeep ==
    ASSUME SentInv, UNCHANGED quiet, UNCHANGED <<sent, flight>> \/ \E k \in Keys : \/ Apply(resolve(k, sent))
                                                              \/ \E by \in Waiters : Apply(raiseAs(k, sent, by))
    PROVE  SentInv'
<1>1. CASE UNCHANGED <<sent, flight>> BY <1>1 DEF SentInv, SentTypes, Remembered, OnItsWay, WaitedFor, Known
<1>2. CASE \E k \in Keys : Apply(resolve(k, sent)) BY <1>2, ResolveKeeps
<1>3. CASE \E k \in Keys, by \in Waiters : Apply(raiseAs(k, sent, by)) BY <1>3, RaiseKeeps
<1>4. QED BY <1>1, <1>2, <1>3

\* A channel takes a message: its alert is recorded at this tick, and no other of its key is on its way.
\* Or it refuses: the record of whoever waited is what it was before, and the channel took none lately.
LEMMA DeliverKeeps == ASSUME SentInv, NEW m \in flight, NEW taken \in BOOLEAN, Deliver(m, taken) PROVE SentInv'
<1>0. dedupeWindow \in Nat \ {0} BY AlertsAssumption
<1>1. SentTypes /\ Remembered /\ OnItsWay /\ WaitedFor BY DEF SentInv
<1>2. /\ flight' = flight \ {m}
      /\ quiet' = IF taken /\ m.kind = "alert" THEN [quiet EXCEPT ![m.key] = 0] ELSE quiet
      /\ sent' = IF taken \/ NoWaiter(m) THEN sent
                 ELSE IF m.previous = None THEN Forget(sent, {m.key}) ELSE [sent EXCEPT ![m.key] = m.previous]
  BY DEF Deliver, NoWaiter
<1>3. m \in Message /\ m.key \in Keys /\ m.previous \in SentRec BY <1>1 DEF SentTypes, Message
<1>4. CASE taken \/ NoWaiter(m)
  <2>1. sent' = sent BY <1>2, <1>4
  <2>2. quiet' \in [Keys -> 0 .. dedupeWindow]
    <3>1. 0 \in 0 .. dedupeWindow BY <1>0
    <3>2. QED BY <1>1, <1>2, <1>3, <3>1 DEF SentTypes
  <2>3. SentTypes' BY <1>1, <1>2, <2>1, <2>2 DEF SentTypes
  <2>4. \A j \in Keys : quiet'[j] = quiet[j] \/ (m.kind = "alert" /\ j = m.key /\ quiet'[j] = 0)
    BY <1>1, <1>2, <1>3 DEF SentTypes
  <2>5. Remembered'
    <3>1. SUFFICES ASSUME NEW j \in Keys, quiet'[j] < dedupeWindow PROVE j \in DOMAIN sent /\ sent[j].age <= quiet'[j]
      BY <2>1 DEF Remembered, Known
    <3>2. CASE quiet'[j] = quiet[j] BY <1>1, <3>1, <3>2 DEF Remembered, Known
    <3>3. CASE m.kind = "alert" /\ j = m.key /\ quiet'[j] = 0
      <4>1. j \in DOMAIN sent /\ sent[j].age = 0 BY <1>1, <3>3 DEF OnItsWay, Known
      <4>2. QED BY <3>3, <4>1
    <3>4. QED BY <2>4, <3>2, <3>3
  <2>6. OnItsWay'
    <3>1. SUFFICES ASSUME NEW o \in flight', o.kind = "alert"
                   PROVE  /\ o.key \in DOMAIN sent /\ sent[o.key].age = 0 /\ quiet'[o.key] >= dedupeWindow
                          /\ \A q \in flight' : q.kind = "alert" /\ q.key = o.key => q = o
      BY <2>1 DEF OnItsWay, Known
    <3>2. o \in flight /\ o # m /\ o.key \in Keys BY <1>1, <1>2 DEF SentTypes, Message
    <3>3. /\ o.key \in DOMAIN sent /\ sent[o.key].age = 0 /\ quiet[o.key] >= dedupeWindow
          /\ \A q \in flight : q.kind = "alert" /\ q.key = o.key => q = o
      BY <1>1, <3>1, <3>2 DEF OnItsWay, Known
    <3>4. ~(m.kind = "alert" /\ m.key = o.key) BY <3>2, <3>3
    <3>5. quiet'[o.key] = quiet[o.key] BY <2>4, <3>2, <3>4
    <3>6. QED BY <1>2, <3>3, <3>5
  <2>7. WaitedFor' BY <1>1, <1>2 DEF WaitedFor, NoWaiter
  <2>8. QED BY <2>3, <2>5, <2>6, <2>7 DEF SentInv
<1>5. CASE ~(taken \/ NoWaiter(m))
  <2>1. quiet' = quiet BY <1>2, <1>5
  <2>2. /\ DOMAIN sent' \subseteq DOMAIN sent /\ (\A j \in DOMAIN sent \ {m.key} : j \in DOMAIN sent' /\ sent'[j] = sent[j])
        /\ sent' \in [DOMAIN sent' -> SentRec]
    <3>1. CASE m.previous = None
      <4>1. sent' = [j \in DOMAIN sent \ {m.key} |-> sent[j]] BY <1>2, <1>5, <3>1 DEF Forget
      <4>2. QED BY <1>1, <4>1 DEF SentTypes
    <3>2. CASE m.previous # None
      <4>1. sent' = [sent EXCEPT ![m.key] = m.previous] BY <1>2, <1>5, <3>2
      <4>2. QED BY <1>1, <1>3, <4>1 DEF SentTypes
    <3>3. QED BY <3>1, <3>2
  <2>3. SentTypes' BY <1>1, <1>2, <2>1, <2>2 DEF SentTypes
  <2>4. m.kind = "alert" BY <1>1, <1>5 DEF WaitedFor
  <2>5. quiet[m.key] >= dedupeWindow /\ \A o \in flight : o.kind = "alert" /\ o.key = m.key => o = m
    BY <1>1, <2>4 DEF OnItsWay
  <2>6. \A j \in Keys : quiet[j] \in Nat BY <1>0, <1>1 DEF SentTypes
  <2>7. Remembered'
    <3>1. SUFFICES ASSUME NEW j \in Keys, quiet[j] < dedupeWindow PROVE j \in DOMAIN sent' /\ sent'[j].age <= quiet[j]
      BY <2>1 DEF Remembered, Known
    <3>2. j # m.key BY <1>0, <2>5, <2>6, <3>1
    <3>3. QED BY <1>1, <2>2, <3>1, <3>2 DEF Remembered, Known
  <2>8. OnItsWay'
    <3>1. \A o \in flight' : o \in flight /\ (o.kind = "alert" => o.key # m.key) BY <1>2, <2>5
    <3>2. QED BY <1>1, <2>1, <2>2, <3>1 DEF OnItsWay, Known
  <2>9. WaitedFor' BY <1>1, <1>2 DEF WaitedFor, NoWaiter
  <2>10. QED BY <2>3, <2>7, <2>8, <2>9 DEF SentInv
<1>6. QED BY <1>4, <1>5

\* Time passes with nothing on its way: a record gets older no faster than the quiet it explains.
LEMMA AlertTickKeeps == ASSUME SentInv, AlertTick PROVE SentInv'
<1>0. dedupeWindow \in Nat \ {0} /\ sinceWindow \in Nat BY AlertsAssumption
<1>1. SentTypes /\ Remembered BY DEF SentInv
<1>2. /\ flight = {} /\ flight' = flight
      /\ sent' = [k \in DOMAIN sent |-> [sent[k] EXCEPT !.age = IF @ < sinceWindow THEN @ + 1 ELSE @]]
      /\ quiet' = [k \in Keys |-> IF quiet[k] < dedupeWindow THEN quiet[k] + 1 ELSE quiet[k]]
  BY DEF AlertTick
<1>3. \A k \in DOMAIN sent : /\ sent'[k] \in SentRec /\ sent[k].age \in Nat /\ sent'[k].age \in Nat
                             /\ sent'[k].age <= sent[k].age + 1
  <2>1. SUFFICES ASSUME NEW k \in DOMAIN sent
                 PROVE  /\ sent'[k] \in SentRec /\ sent[k].age \in Nat /\ sent'[k].age \in Nat /\ sent'[k].age <= sent[k].age + 1
    OBVIOUS
  <2> DEFINE a == IF sent[k].age < sinceWindow THEN sent[k].age + 1 ELSE sent[k].age
  <2>2. sent[k] \in SentRec /\ sent[k].age \in Nat BY <1>1 DEF SentTypes, SentRec
  <2>3. a \in Nat /\ a <= sent[k].age + 1 BY <1>0, <2>2
  <2>4. sent'[k] = [sent[k] EXCEPT !.age = a] BY <1>2
  <2> HIDE DEF a
  <2>5. sent'[k] \in SentRec /\ sent'[k].age = a BY <2>2, <2>3, <2>4 DEF SentRec
  <2>6. QED BY <2>2, <2>3, <2>5
<1>4. DOMAIN sent' = DOMAIN sent /\ sent' \in [DOMAIN sent -> SentRec] BY <1>2, <1>3
<1>5. \A k \in Keys : quiet[k] \in 0 .. dedupeWindow BY <1>1 DEF SentTypes
<1>6. \A k \in Keys : quiet'[k] \in 0 .. dedupeWindow /\ quiet'[k] = IF quiet[k] < dedupeWindow THEN quiet[k] + 1 ELSE quiet[k]
  BY <1>0, <1>2, <1>5
<1>7. SentTypes'
  <2>1. quiet' \in [Keys -> 0 .. dedupeWindow] BY <1>2, <1>6
  <2>2. QED BY <1>1, <1>2, <1>4, <2>1 DEF SentTypes
<1>8. Remembered'
  <2>1. SUFFICES ASSUME NEW k \in Keys, quiet'[k] < dedupeWindow PROVE k \in DOMAIN sent' /\ sent'[k].age <= quiet'[k]
    BY DEF Remembered, Known
  <2>2. quiet[k] \in 0 .. dedupeWindow /\ quiet'[k] = IF quiet[k] < dedupeWindow THEN quiet[k] + 1 ELSE quiet[k] BY <1>5, <1>6
  <2>3. quiet[k] < dedupeWindow /\ quiet'[k] = quiet[k] + 1 BY <1>0, <2>1, <2>2
  <2>4. k \in DOMAIN sent /\ sent[k].age <= quiet[k] BY <1>1, <2>3 DEF Remembered, Known
  <2>5. sent[k].age \in Nat /\ sent'[k].age \in Nat /\ sent'[k].age <= sent[k].age + 1 BY <1>3, <2>4
  <2>6. QED BY <1>0, <1>4, <2>2, <2>3, <2>4, <2>5
<1>9. OnItsWay' BY <1>2 DEF OnItsWay
<1>10. QED BY <1>2, <1>7, <1>8, <1>9 DEF SentInv, WaitedFor

\* A raise sends one message at most.
LEMMA OneMessage == ASSUME NEW k, NEW by PROVE Cardinality(raiseAs(k, sent, by).out) \in {0, 1}
<1>1. (\E m : raiseAs(k, sent, by).out = {m}) \/ raiseAs(k, sent, by).out = {} BY DEF raiseAs
<1>2. CASE raiseAs(k, sent, by).out = {} BY <1>2, FS_EmptySet
<1>3. CASE \E m : raiseAs(k, sent, by).out = {m} BY <1>3, FS_Singleton
<1>4. QED BY <1>1, <1>2, <1>3
\* No other than the loop that waits for the end of Docker's update has its notice.
LEMMA DockerKeeps ==
    ASSUME Marked, DockerBegins \/ DockerEnds \/ dockerEnded \/ tellDocker \/ Restart PROVE Marked'
<1>1. docker \in DockerRec /\ docker.told \in Nat BY DEF Marked, DockerRec
<1>2. CASE DockerBegins
  <2>1. docker' = [docker EXCEPT !.pc = "runs"] BY <1>2 DEF DockerBegins
  <2>2. docker' \in DockerRec /\ docker'.pc = "runs" /\ docker'.told = docker.told /\ docker'.file = docker.file BY <1>1, <2>1 DEF DockerRec
  <2>3. QED BY <2>2 DEF Marked
<1>3. CASE DockerEnds
  <2>1. docker' = [docker EXCEPT !.pc = "ended"] BY <1>3 DEF DockerEnds
  <2>2. docker' \in DockerRec /\ docker'.pc = "ended" /\ docker'.told = docker.told /\ docker'.file = docker.file BY <1>1, <2>1 DEF DockerRec
  <2>3. QED BY <2>2 DEF Marked
<1>4. CASE dockerEnded
  <2>1. docker' = [docker EXCEPT !.pc = "marked", !.memory = TRUE, !.file = TRUE] /\ ~docker.file BY <1>4 DEF dockerEnded
  <2>2. docker' \in DockerRec /\ docker'.pc = "marked" /\ docker'.told = docker.told /\ docker'.file = TRUE BY <1>1, <2>1 DEF DockerRec
  <2>3. docker.told = 0 BY <2>1 DEF Marked
  <2>4. QED BY <2>2, <2>3 DEF Marked
<1>5. CASE tellDocker
  <2> DEFINE c == Cardinality(raiseAs("docker", sent, "").out)
  <2>1. docker.pc = "marked" /\ docker' = [docker EXCEPT !.pc = "ended", !.told = docker.told + c] BY <1>5 DEF tellDocker
  <2>2. c \in {0, 1} BY OneMessage
  <2> HIDE DEF c
  <2>3. docker.told = 0 /\ docker.file BY <2>1 DEF Marked
  <2>4. docker' \in DockerRec /\ docker'.pc = "ended" /\ docker'.told = c /\ docker'.file = docker.file
    <3>1. docker.told + c \in Nat /\ docker.told + c = c BY <2>2, <2>3
    <3>2. QED BY <1>1, <2>1, <3>1 DEF DockerRec
  <2>5. QED BY <2>2, <2>3, <2>4 DEF Marked
<1>6. CASE Restart
  <2> DEFINE p == IF docker.pc = "marked" THEN "ended" ELSE docker.pc
  <2>1. docker' = [docker EXCEPT !.memory = FALSE, !.pc = p] BY <1>6 DEF Restart
  <2>2. p \in {"never", "idle", "runs", "ended", "marked"} /\ p # "marked" BY <1>1 DEF DockerRec
  <2> HIDE DEF p
  <2>3. docker' \in DockerRec /\ docker'.pc = p /\ docker'.told = docker.told /\ docker'.file = docker.file
    BY <1>1, <2>1, <2>2 DEF DockerRec
  <2>4. QED BY <2>2, <2>3 DEF Marked
<1>7. QED BY <1>2, <1>3, <1>4, <1>5, <1>6

\* Every step of the alerts keeps their invariant.
LEMMA AlertStep == ASSUME AlertInv, alertsNext PROVE AlertInv'
<1>1. SentInv /\ Marked BY DEF AlertInv
<1>2. {"docker", "support", "upgrade"} \subseteq Keys /\ Levels \subseteq Keys /\ Events \subseteq Keys BY DEF Keys
<1>3. "" \in Waiters /\ "upgrade" \in Waiters /\ "support" \in Waiters BY DEF Waiters
<1>4. ASSUME UNCHANGED docker, SentInv' PROVE AlertInv' BY <1>1, <1>4 DEF AlertInv, Marked
<1>5. CASE \E k \in Levels : Flip(k) \/ Poll(k, TRUE) \/ Poll(k, FALSE)
  <2>1. PICK k \in Levels : Flip(k) \/ Poll(k, TRUE) \/ Poll(k, FALSE) BY <1>5
  <2>2. k \in Keys /\ UNCHANGED <<docker, quiet>> BY <1>2, <2>1 DEF Flip, Poll
  <2>3. UNCHANGED <<sent, flight>> \/ Apply(resolve(k, sent)) \/ Apply(raiseAs(k, sent, "")) BY <2>1 DEF Flip, Poll
  <2>4. QED BY <1>1, <1>3, <1>4, <2>2, <2>3, AppliesKeep
<1>6. CASE \E k \in Events : onEvent(k)
  <2>1. PICK k \in Events : onEvent(k) BY <1>6
  <2>2. k \in Keys /\ UNCHANGED <<docker, quiet>> BY <1>2, <2>1 DEF onEvent
  <2>3. UNCHANGED <<sent, flight>> \/ Apply(resolve(k, sent)) \/ Apply(raiseAs(k, sent, "")) BY <2>1 DEF onEvent
  <2>4. QED BY <1>1, <1>3, <1>4, <2>2, <2>3, AppliesKeep
<1>7. CASE \E m \in flight, taken \in BOOLEAN : Deliver(m, taken)
  BY <1>1, <1>4, <1>7, DeliverKeeps DEF Deliver
<1>8. CASE OSUpgradeNotice
  <2>1. Apply(raiseAs("upgrade", sent, "upgrade")) /\ UNCHANGED <<docker, quiet>> BY <1>8 DEF OSUpgradeNotice
  <2>2. QED BY <1>1, <1>2, <1>3, <1>4, <2>1, AppliesKeep
<1>9. CASE NoticeAgain \/ Unmute \/ SupportEnds \/ writeSupport \/ Change
  <2>1. UNCHANGED <<sent, flight, docker, quiet>> BY <1>9 DEF NoticeAgain, Unmute, SupportEnds, writeSupport, Change
  <2>2. QED BY <1>1, <1>4, <2>1, AppliesKeep
<1>10. CASE DockerBegins \/ DockerEnds \/ dockerEnded
  <2>1. UNCHANGED <<sent, flight, quiet>> BY <1>10 DEF DockerBegins, DockerEnds, dockerEnded
  <2>2. QED BY <1>1, <1>10, <2>1, AppliesKeep, DockerKeeps DEF AlertInv
<1>11. CASE tellDocker
  <2>1. Apply(raiseAs("docker", sent, "")) /\ UNCHANGED quiet BY <1>11 DEF tellDocker
  <2>2. SentInv' BY <1>1, <1>2, <1>3, <2>1, AppliesKeep
  <2>3. QED BY <1>1, <1>11, <2>2, DockerKeeps DEF AlertInv
<1>12. CASE checkOSSupport
  <2>1. UNCHANGED <<sent, flight>> \/ Apply(raiseAs("support", sent, "support")) BY <1>12 DEF checkOSSupport
  <2>2. UNCHANGED <<docker, quiet>> BY <1>12 DEF checkOSSupport
  <2>3. QED BY <1>1, <1>2, <1>3, <1>4, <2>1, <2>2, AppliesKeep
<1>13. CASE Restart
  <2>1. sent' = <<>> /\ flight' = {} /\ quiet' = [k \in Keys |-> dedupeWindow] BY <1>13 DEF Restart
  <2>2. DOMAIN sent' = {} /\ sent' \in [{} -> SentRec] BY <2>1
  <2>3. dedupeWindow \in Nat \ {0} BY AlertsAssumption
  <2>4. dedupeWindow \in 0 .. dedupeWindow /\ ~(dedupeWindow < dedupeWindow) BY ONLY <2>3
  <2>5. quiet' \in [Keys -> 0 .. dedupeWindow] /\ \A k \in Keys : quiet'[k] = dedupeWindow BY <2>1, <2>4
  <2>6. SentTypes' BY <2>1, <2>2, <2>5 DEF SentTypes
  <2>7. Remembered' BY <2>4, <2>5 DEF Remembered
  <2>8. SentInv' BY <2>1, <2>6, <2>7 DEF SentInv, OnItsWay, WaitedFor
  <2>9. QED BY <1>1, <1>13, <2>8, DockerKeeps DEF AlertInv
<1>14. CASE AlertTick
  BY <1>1, <1>4, <1>14, AlertTickKeeps DEF AlertTick
<1>15. QED BY <1>5, <1>6, <1>7, <1>8, <1>9, <1>10, <1>11, <1>12, <1>13, <1>14 DEF alertsNext

\* The records that hold repeats back explain the quiet, in every reachable state of the alerts.
THEOREM AlertInvariant == alertsSpec => []AlertInv
<1>1. alertsInit => AlertInv BY AlertsStart
<1>2. AlertInv /\ [alertsNext]_alertVars => AlertInv'
  <2>1. SUFFICES ASSUME AlertInv, [alertsNext]_alertVars PROVE AlertInv' OBVIOUS
  <2>2. CASE UNCHANGED alertVars
    BY <2>1, <2>2 DEF alertVars, AlertInv, SentInv, SentTypes, Remembered, OnItsWay, WaitedFor, Known, Marked
  <2>3. QED BY <2>1, <2>2, AlertStep
<1>3. QED BY <1>1, <1>2, PTL DEF alertsSpec

\* No alert is on its way while the channel took one of its key in the last six hours of this life of the core, and the
\* end of a Docker update is told once at most, over restarts (alerts.go:10-19, docker.go:92).
THEOREM SparingHolds == alertsSpec => []Sparing
<1>1. AlertInv => Sparing BY DEF AlertInv, SentInv, OnItsWay, Marked, Sparing
<1>2. QED BY <1>1, AlertInvariant, PTL

-------------------------------------------------------------------------------
(* Trash: Kept, when the look at an entry and the call that changes it are one.  *)

\* Where a request is between calls that belong together.
CritPcs == {"move", "taken", "undo", "sure", "moved"}
PutPcs == {"move", "taken", "undo"}
TakePcs == {"found", "sure", "moved"}
InfoRec == [path : Paths \cup {NoPath}, age : 0 .. 2]
Listed == [name : Names, item : Nat]
OpRec == [kind : {"none", "put", "restore", "delete", "empty", "purge"},
          pc : {"idle", "info", "list", "sweep"} \cup PutPcs \cup TakePcs,
          name : Nat, item : Nat, path : Paths \cup {NoPath}, try : Nat, todo : (SUBSET Listed) \cup (SUBSET Names)]
\* An item that was made, the foreign one, or none.
Thing(i) == i \in Nat /\ (i <= Len(born) \/ i = Foreign)
TrashTypes ==
    /\ place \in [Paths \X (0 .. MaxRestored) -> Nat] /\ files \in [Names -> Nat] /\ info \in [Names -> InfoRec]
    /\ op \in [Requests -> OpRec] /\ born \in Seq(Paths) /\ Len(born) <= MaxItems /\ confined \in BOOLEAN
    /\ (\A q \in DOMAIN place : Thing(place[q])) /\ (\A n \in Names : Thing(files[n])) /\ (\A r \in Requests : Thing(op[r].item)) /\ (\A c \in chosen : Thing(c))
\* What a request of each kind knows.
ShapeOf(o) ==
    /\ o.pc \in PutPcs \cup {"info"} => o.kind = "put" /\ o.path \in Paths /\ o.try > 0
    /\ o.pc \in PutPcs => o.try \in Names
    /\ o.pc \in TakePcs => o.kind \in {"restore", "delete", "empty", "purge"} /\ o.name \in Names /\ o.item # 0
    /\ o.kind = "restore" => o.path \in Paths /\ o.try \in 0 .. MaxRestored
    /\ o.kind = "empty" /\ o.pc # "sweep" => o.todo \subseteq Listed /\ \A e \in o.todo : e.item # 0
    /\ o.kind = "purge" => o.todo \subseteq Listed /\ o.pc # "sweep"
    /\ o.pc = "sweep" => o.kind = "empty" /\ o.todo \subseteq Names
Shapes == \A r \in Requests : ShapeOf(op[r])
\* One request at a time is between such calls.
OneCritical == \A r, s \in Requests : op[r].pc \in CritPcs /\ op[s].pc \in CritPcs => r = s
\* An item is at the path it was made at, and is restored to it.
PathOf(o) == o.kind = "restore" /\ o.item \in DOMAIN born => born[o.item] = o.path
Placed == \A q \in DOMAIN place : place[q] \in DOMAIN born => born[place[q]] = q[1]
AtItsPath == Placed /\ \A r \in Requests : PathOf(op[r])
\* A name that is being put to holds no item of this box yet, and its info is of the path.
\* A name that was looked at holds what was seen, and then nothing.
HeldFor(o) == /\ o.pc \in PutPcs => files[o.try] \notin DOMAIN born /\ info[o.try].path = o.path
              /\ o.pc = "sure" => files[o.name] = o.item
              /\ o.pc = "moved" => files[o.name] = 0
Held == \A r \in Requests : HeldFor(op[r])
\* What a request takes away was asked for.
AskedOf(o, c) == /\ o.kind \in {"delete", "empty", "purge"} /\ o.pc \in TakePcs => o.item \in c
                 /\ o.kind \in {"empty", "purge"} /\ o.pc # "sweep" => \A e \in o.todo : e.item # 0 => e.item \in c
AskedFor == \A r \in Requests : AskedOf(op[r], chosen)
OnePurge == \A r, s \in Requests : op[r].kind = "purge" /\ op[s].kind = "purge" => r = s
\* The info without an item that the purge listed is still one, and nobody works under its name.
OnceEach(o) == o.kind = "purge" => \A e, f \in o.todo : f.name = e.name => f = e
Orphan(o, n) == o.kind = "purge" /\ \E e \in o.todo : e.item = 0 /\ e.name = n
Away(o, n) == (o.pc \in PutPcs => o.try # n) /\ (o.pc \in {"sure", "moved"} => o.name # n)
Orphaned(n) == info[n] # NoInfo /\ files[n] = 0
Orphans == \A r \in Requests : /\ OnceEach(op[r])
                               /\ \A n \in Names : Orphan(op[r], n) => Orphaned(n) /\ \A s \in Requests : Away(op[s], n)
TrashInv == /\ TrashTypes /\ Shapes /\ OneCritical /\ AtItsPath /\ Held /\ AskedFor /\ OnePurge /\ Orphans /\ Kept

\* What a step of r leaves, with o as what r is at then: everything that has an item or an info is in order, and the
\* names that the purge listed without an item are still such.
Turned(r, o) == /\ op' = [op EXCEPT ![r] = o] /\ UNCHANGED <<born, confined>>
                /\ chosen \subseteq chosen' /\ \A c \in chosen' : c \in chosen \/ \E n \in Names : c = files[n]
DiskFits == /\ place' \in [Paths \X (0 .. MaxRestored) -> Nat] /\ files' \in [Names -> Nat] /\ info' \in [Names -> InfoRec]
            /\ (\A q \in DOMAIN place' : Thing(place'[q])) /\ (\A n \in Names : Thing(files'[n]))
            /\ Placed' /\ Kept'
OpFits(r, o) == /\ o \in OpRec /\ Thing(o.item) /\ ShapeOf(o) /\ PathOf(o) /\ AskedOf(o, chosen') /\ OnceEach(o)
                /\ (o.kind = "purge" => \A s \in Requests \ {r} : op[s].kind # "purge")
\* The names listed without an item, by r and by others.
Spared_(r, o) == /\ \A s \in Requests \ {r}, n \in Names : Orphan(op[s], n) => Orphaned(n)' /\ Away(o, n)
                 /\ \A n \in Names : Orphan(o, n) => Orphaned(n)' /\ Away(o, n)
\* Nobody but r is between calls when r goes on.
LEMMA AloneIs == ASSUME Swift, NEW r \in Requests, Free(r) PROVE \A s \in Requests \ {r} : op[s].pc \notin CritPcs
  BY DEF Free, CritPcs

\* A step of a request keeps the invariant when what it leaves fits.
LEMMA RequestKeepsTrash ==
    ASSUME Swift, TrashInv, NEW r \in Requests, NEW o, Free(r), Turned(r, o), DiskFits, OpFits(r, o), Spared_(r, o), HeldFor(o)'
    PROVE  TrashInv'
<1>1. /\ TrashTypes /\ Shapes /\ OneCritical /\ AtItsPath /\ Held /\ AskedFor /\ OnePurge /\ Orphans BY DEF TrashInv
<1>2. \A s \in Requests \ {r} : op[s].pc \notin CritPcs BY AloneIs
<1>3. o \in OpRec BY DEF OpFits
<1>4. op' \in [Requests -> OpRec] /\ op'[r] = o /\ \A s \in Requests \ {r} : op'[s] = op[s]
  BY <1>1, <1>3 DEF Turned, TrashTypes
<1>5. born' = born /\ confined' = confined /\ chosen \subseteq chosen' BY DEF Turned
<1>6. TrashTypes'
  <2>1. \A i : Thing(i)' <=> Thing(i) BY <1>5 DEF Thing
  <2>2. \A s \in Requests : Thing(op'[s].item) BY <1>1, <1>4 DEF TrashTypes, OpFits
  <2>3. \A c \in chosen' : Thing(c) BY <1>1 DEF TrashTypes, Turned
  <2>4. QED BY <1>1, <1>4, <1>5, <2>1, <2>2, <2>3 DEF TrashTypes, DiskFits
<1>7. Shapes' BY <1>1, <1>4 DEF Shapes, OpFits
<1>8. OneCritical' BY <1>2, <1>4 DEF OneCritical
<1>9. AtItsPath' BY <1>1, <1>4, <1>5 DEF AtItsPath, PathOf, OpFits, DiskFits
<1>10. Held'
  <2>1. SUFFICES ASSUME NEW s \in Requests PROVE HeldFor(op[s])' BY DEF Held
  <2>2. CASE s = r BY <1>4, <2>2 DEF HeldFor
  <2>3. CASE s # r BY <1>2, <1>4, <2>3 DEF HeldFor, CritPcs, PutPcs
  <2>4. QED BY <2>2, <2>3
<1>11. AskedFor' BY <1>1, <1>4, <1>5 DEF AskedFor, AskedOf, OpFits
<1>12. OnePurge' BY <1>1, <1>4 DEF OnePurge, OpFits
<1>13. Orphans'
  <2>1. \A s \in Requests : OnceEach(op'[s]) BY <1>1, <1>4 DEF Orphans, OpFits
  <2>2. SUFFICES ASSUME NEW s \in Requests, NEW n \in Names, Orphan(op'[s], n)
                 PROVE  Orphaned(n)' /\ \A t \in Requests : Away(op'[t], n)
    BY <2>1 DEF Orphans, OnceEach, Orphan, Away
  <2>3. \A t \in Requests \ {r} : Away(op[t], n) BY <1>2 DEF Away, CritPcs, PutPcs
  <2>4. CASE s = r BY <1>4, <2>2, <2>3, <2>4 DEF Spared_
  <2>5. CASE s # r BY <1>4, <2>2, <2>3, <2>5 DEF Spared_
  <2>6. QED BY <2>4, <2>5
<1>14. QED BY <1>6, <1>7, <1>8, <1>9, <1>10, <1>11, <1>12, <1>13 DEF TrashInv, DiskFits

\* The disk as it is fits.
LEMMA SameDiskFits ==
    ASSUME TrashInv, UNCHANGED <<place, files, info, born>>, chosen \subseteq chosen' PROVE DiskFits
<1>1. TrashTypes /\ AtItsPath /\ Kept BY DEF TrashInv
<1>2. Kept' BY <1>1 DEF Kept, Somewhere
<1>3. Placed' BY <1>1 DEF AtItsPath, Placed
<1>4. QED BY <1>1, <1>2, <1>3 DEF DiskFits, TrashTypes
\* With it, a step need only keep r away from the names of the purge.
LEMMA OpKeeps ==
    ASSUME Swift, TrashInv, NEW r \in Requests, NEW o, Free(r), Turned(r, o), UNCHANGED <<place, files, info>>, OpFits(r, o),
           HeldFor(o), \A s \in Requests, n \in Names : Orphan(op[s], n) => Away(o, n),
           \A n \in Names : Orphan(o, n) => Orphaned(n) /\ Away(o, n)
    PROVE  TrashInv'
<1>1. DiskFits BY SameDiskFits DEF Turned
<1>2. \A n \in Names : Orphaned(n)' <=> Orphaned(n) BY DEF Orphaned
<1>3. \A s \in Requests, n \in Names : Orphan(op[s], n) => Orphaned(n) BY DEF TrashInv, Orphans
<1>4. Spared_(r, o) BY <1>2, <1>3 DEF Spared_
<1>5. HeldFor(o)' BY DEF HeldFor, Turned
<1>6. QED BY <1>1, <1>4, <1>5, RequestKeepsTrash

\* What is known of a request.
Known_(r) == /\ op[r] \in OpRec /\ Thing(op[r].item) /\ ShapeOf(op[r]) /\ PathOf(op[r]) /\ HeldFor(op[r]) /\ AskedOf(op[r], chosen)
             /\ OnceEach(op[r]) /\ (op[r].kind = "purge" => \A s \in Requests \ {r} : op[s].kind # "purge")
             /\ \A s \in Requests, n \in Names : Orphan(op[s], n) => Orphaned(n) /\ Away(op[r], n)

\* What the invariant says about one request, and about the others beside it.
LEMMA KnownIs == ASSUME TrashInv, NEW r \in Requests PROVE Known_(r)
  BY DEF TrashInv, TrashTypes, Shapes, AtItsPath, Held, AskedFor, OnePurge, Orphans, Known_
OpFields(o) == /\ o.kind \in {"none", "put", "restore", "delete", "empty", "purge"}
               /\ o.pc \in {"idle", "info", "list", "sweep"} \cup PutPcs \cup TakePcs
               /\ o.name \in Nat /\ o.item \in Nat /\ o.path \in Paths \cup {NoPath} /\ o.try \in Nat
               /\ o.todo \in (SUBSET Listed) \cup (SUBSET Names)

\* The fields of a request's record.
LEMMA FieldsOf == ASSUME NEW o \in OpRec PROVE OpFields(o)
  BY DEF OpRec, OpFields
\* A request that is not between such calls holds nothing.
Calm(o) == o.pc \notin CritPcs

\* A request that is neither putting nor taking holds no name of the trash.
LEMMA CalmHolds == ASSUME NEW o, Calm(o) PROVE HeldFor(o) /\ HeldFor(o)' /\ \A n : Away(o, n)
  BY DEF Calm, CritPcs, HeldFor, Away, PutPcs
\* Nothing to do fits.
LEMMA NoOpIs == NoOp \in OpRec
  BY DEF NoOp, OpRec, PutPcs, TakePcs

\* An idle request claims nothing.
LEMMA NoOpFits ==
    ASSUME TrashTypes, NEW r \in Requests PROVE OpFits(r, NoOp) /\ Calm(NoOp) /\ \A n : ~Orphan(NoOp, n)
<1>1. /\ NoOp.kind = "none" /\ NoOp.pc = "idle" /\ NoOp.item = 0 /\ NoOp.name = 0 /\ NoOp.try = 0 /\ NoOp.todo = {} /\ NoOp.path = NoPath
  BY DEF NoOp
<1>2. NoOp \in OpRec BY NoOpIs
<1>3. Thing(NoOp.item) BY <1>1 DEF Thing, TrashTypes
<1>4. OpFits(r, NoOp) BY <1>1, <1>2, <1>3 DEF OpFits, ShapeOf, PathOf, AskedOf, OnceEach, PutPcs, TakePcs
<1>5. QED BY <1>1, <1>4 DEF Calm, CritPcs, Orphan
\* A request that goes on to p, with all else as it was.
PcTo(r, p) == [op[r] EXCEPT !.pc = p]

\* Moving a request on changes where it stands and nothing else.
LEMMA PcToIs ==
    ASSUME NEW r \in Requests, op[r] \in OpRec, NEW p \in {"idle", "info", "list", "sweep"} \cup PutPcs \cup TakePcs
    PROVE  /\ PcTo(r, p) \in OpRec /\ PcTo(r, p).pc = p /\ PcTo(r, p).kind = op[r].kind /\ PcTo(r, p).name = op[r].name
           /\ PcTo(r, p).item = op[r].item /\ PcTo(r, p).path = op[r].path /\ PcTo(r, p).try = op[r].try /\ PcTo(r, p).todo = op[r].todo
  BY DEF PcTo, OpRec
\* Going on between calls that belong together fits what the request knows.
LEMMA PcToFits ==
    ASSUME TrashInv, NEW r \in Requests, NEW p \in PutPcs \cup {"sure", "moved"}, chosen \subseteq chosen',
           p \in PutPcs => op[r].kind = "put" /\ op[r].path \in Paths /\ op[r].try \in Names,
           p \in {"sure", "moved"} => op[r].pc \in TakePcs
    PROVE  OpFits(r, PcTo(r, p)) /\ \A n : Orphan(PcTo(r, p), n) <=> Orphan(op[r], n)
<1>1. Known_(r) BY KnownIs
<1>2. PICK o : o = PcTo(r, p) OBVIOUS
<1>3. /\ o \in OpRec /\ o.pc = p /\ o.kind = op[r].kind /\ o.name = op[r].name
      /\ o.item = op[r].item /\ o.path = op[r].path /\ o.try = op[r].try /\ o.todo = op[r].todo
  BY <1>1, <1>2, PcToIs, ZenonT(60) DEF Known_, TakePcs
<1>4. Thing(o.item) /\ PathOf(o) /\ OnceEach(o) BY <1>1, <1>3 DEF Known_, PathOf, OnceEach
<1>5. o.kind = "purge" => \A s \in Requests \ {r} : op[s].kind # "purge" BY <1>1, <1>3 DEF Known_
<1>6. op[r].kind \in {"empty", "purge"} => op[r].pc # "sweep"
  BY <1>1 DEF Known_, ShapeOf, TakePcs, PutPcs
<1>7. ShapeOf(o)
  <2>0. op[r].try \in Names => op[r].try > 0 BY TrashAssumption DEF Names
  <2>1. o.pc \in PutPcs \cup {"info"} => o.kind = "put" /\ o.path \in Paths /\ o.try > 0 BY <1>3, <2>0 DEF PutPcs
  <2>2. o.pc \in PutPcs => o.try \in Names BY <1>3
  <2>3. o.pc \in TakePcs => o.kind \in {"restore", "delete", "empty", "purge"} /\ o.name \in Names /\ o.item # 0
    BY <1>1, <1>3 DEF Known_, ShapeOf, PutPcs, TakePcs
  <2>4. o.kind = "restore" => o.path \in Paths /\ o.try \in 0 .. MaxRestored BY <1>1, <1>3 DEF Known_, ShapeOf
  <2>5. o.kind = "empty" /\ o.pc # "sweep" => o.todo \subseteq Listed /\ \A e \in o.todo : e.item # 0
    BY <1>1, <1>3, <1>6 DEF Known_, ShapeOf
  <2>6. o.kind = "purge" => o.todo \subseteq Listed /\ o.pc # "sweep" BY <1>1, <1>3 DEF Known_, ShapeOf, PutPcs
  <2>7. o.pc = "sweep" => o.kind = "empty" /\ o.todo \subseteq Names BY <1>3 DEF PutPcs
  <2>8. QED BY <2>1, <2>2, <2>3, <2>4, <2>5, <2>6, <2>7 DEF ShapeOf
<1>8. AskedOf(o, chosen')
  <2>1. o.kind \in {"delete", "empty", "purge"} /\ o.pc \in TakePcs => o.item \in chosen'
    BY <1>1, <1>3 DEF Known_, AskedOf, PutPcs, TakePcs
  <2>2. o.kind \in {"empty", "purge"} /\ o.pc # "sweep" => \A e \in o.todo : e.item # 0 => e.item \in chosen'
    BY <1>1, <1>3, <1>6 DEF Known_, AskedOf
  <2>3. QED BY <2>1, <2>2 DEF AskedOf
<1>9. OpFits(r, o) BY <1>3, <1>4, <1>5, <1>7, <1>8 DEF OpFits
<1>10. \A n : Orphan(o, n) <=> Orphan(op[r], n) BY <1>3 DEF Orphan
<1>11. QED BY <1>2, <1>9, <1>10
\* An entry that is done with leaves the list of its request, or nothing.
After(r) == IF op[r].kind \in {"empty", "purge"} THEN [op[r] EXCEPT !.pc = "list", !.name = 0, !.item = 0] ELSE NoOp

\* A request that is done with an entry goes on to its list, or ends, holding nothing.
LEMMA AfterFits ==
    ASSUME TrashInv, NEW r \in Requests, op[r].pc \in TakePcs, chosen \subseteq chosen'
    PROVE  OpFits(r, After(r)) /\ Calm(After(r)) /\ \A n : Orphan(After(r), n) => Orphan(op[r], n)
<1>1. Known_(r) /\ TrashTypes BY KnownIs DEF TrashInv
<1>3. CASE op[r].kind \notin {"empty", "purge"}
  <2>1. After(r) = NoOp BY <1>3 DEF After
  <2>2. QED BY <1>1, <2>1, NoOpFits
<1>4. CASE op[r].kind \in {"empty", "purge"}
  <2>0. PICK o : o = [op[r] EXCEPT !.pc = "list", !.name = 0, !.item = 0] OBVIOUS
  <2>1. After(r) = o BY <1>4, <2>0 DEF After
  <2>2. /\ o.pc = "list" /\ o.name = 0 /\ o.item = 0 /\ o.kind = op[r].kind /\ o.todo = op[r].todo /\ o.path = op[r].path /\ o.try = op[r].try
    BY <1>1, <2>0 DEF Known_, OpRec
  <2>3. o \in OpRec BY <1>1, <2>0 DEF Known_, OpRec, PutPcs, TakePcs
  <2>4. op[r].pc # "sweep" BY DEF TakePcs
  <2>5. Thing(o.item) BY <1>1, <2>2 DEF Thing, TrashTypes
  <2>6. ShapeOf(o) BY <1>1, <1>4, <2>2, <2>4 DEF Known_, ShapeOf, PutPcs, TakePcs
  <2>7. AskedOf(o, chosen') BY <1>1, <1>4, <2>2, <2>4 DEF Known_, AskedOf, TakePcs
  <2>8. OnceEach(o) /\ (o.kind = "purge" => \A s \in Requests \ {r} : op[s].kind # "purge") BY <1>1, <2>2 DEF Known_, OnceEach
  <2>9. PathOf(o) BY <1>4, <2>2 DEF PathOf
  <2>10. OpFits(r, o) BY <2>3, <2>5, <2>6, <2>7, <2>8, <2>9 DEF OpFits
  <2>12. Calm(o) /\ \A n : Orphan(o, n) => Orphan(op[r], n) BY <2>2 DEF Calm, CritPcs, Orphan
  <2>13. QED BY <2>1, <2>10, <2>12
<1>5. QED BY <1>3, <1>4

\* A request that is calm after a step which left the disk alone.
LEMMA CalmKeeps ==
    ASSUME Swift, TrashInv, NEW r \in Requests, NEW o, Free(r), Turned(r, o), UNCHANGED <<place, files, info>>, OpFits(r, o), Calm(o),
           \A n \in Names : Orphan(o, n) => Orphaned(n)
    PROVE  TrashInv'
  BY CalmHolds, OpKeeps
\* The info of a name that holds no item of this box may be written or taken away.
LEMMA InfoFits ==
    ASSUME TrashInv, UNCHANGED <<place, files, born>>, chosen \subseteq chosen', NEW n \in Names, NEW i \in InfoRec,
           info' = [info EXCEPT ![n] = i], files[n] \notin DOMAIN born
    PROVE  DiskFits
<1>1. TrashTypes /\ AtItsPath /\ Kept BY DEF TrashInv
<1>2. info' \in [Names -> InfoRec] /\ \A m \in Names : m # n => info'[m] = info[m] BY <1>1 DEF TrashTypes
<1>3. Kept' BY <1>1, <1>2 DEF Kept, Somewhere
<1>4. Placed' BY <1>1 DEF AtItsPath, Placed
<1>5. QED BY <1>1, <1>2, <1>3, <1>4 DEF DiskFits, TrashTypes
\* A step that changed one info keeps the invariant when the name was not one of the purge's.
LEMMA InfoKeeps ==
    ASSUME Swift, TrashInv, NEW r \in Requests, NEW o, Free(r), Turned(r, o), UNCHANGED <<place, files>>, NEW n \in Names, NEW i \in InfoRec,
           info' = [info EXCEPT ![n] = i], files[n] \notin DOMAIN born, OpFits(r, o), HeldFor(o)',
           \A m \in Names : Orphan(o, m) => Orphaned(m) /\ m # n,
           \A s \in Requests \ {r}, m \in Names : Orphan(op[s], m) => m # n,
           \A s \in Requests, m \in Names : Orphan(op[s], m) \/ Orphan(o, m) => Away(o, m)
    PROVE  TrashInv'
<1>1. DiskFits BY InfoFits DEF Turned
<1>2. \A m \in Names : m # n => (Orphaned(m)' <=> Orphaned(m)) BY DEF TrashInv, TrashTypes, Orphaned
<1>3. \A s \in Requests, m \in Names : Orphan(op[s], m) => Orphaned(m) BY DEF TrashInv, Orphans
<1>4. Spared_(r, o) BY <1>2, <1>3 DEF Spared_
<1>5. QED BY <1>1, <1>4, RequestKeepsTrash

\* What was asked for: prepare, find, Empty and Purge begin with what they see.
LEMMA prepareKeeps == ASSUME Swift, TrashInv, NEW r \in Requests, NEW p \in Paths, prepare(r, p) PROVE TrashInv'
<1>1. PICK o : o = [NoOp EXCEPT !.kind = "put", !.pc = "info", !.path = p, !.try = 1] OBVIOUS
<1>2. Free(r) /\ Turned(r, o) /\ UNCHANGED <<place, files, info>> /\ chosen' = chosen
  BY <1>1 DEF prepare, Ask, Turned
<1>3. o = [kind |-> "put", pc |-> "info", name |-> 0, item |-> 0, path |-> p, try |-> 1, todo |-> {}] BY <1>1 DEF NoOp
<1>4. o \in OpRec BY <1>3 DEF OpRec, PutPcs, TakePcs
<1>5. TrashTypes BY DEF TrashInv
<1>6. Thing(o.item) BY <1>3, <1>5 DEF Thing, TrashTypes
<1>7. OpFits(r, o) BY <1>3, <1>4, <1>6 DEF OpFits, ShapeOf, PathOf, AskedOf, OnceEach, PutPcs, TakePcs
<1>8. Calm(o) /\ \A n : ~Orphan(o, n) BY <1>3 DEF Calm, CritPcs, Orphan
<1>9. QED BY <1>2, <1>7, <1>8, CalmKeeps

\* Finding the entry that a restore or a delete names keeps the invariant.
LEMMA findKeeps ==
    ASSUME Swift, TrashInv, NEW r \in Requests, NEW n \in Names, NEW way \in {"restore", "delete"}, find(r, way, n) PROVE TrashInv'
<1>0. TrashTypes /\ Kept BY DEF TrashInv
<1>1. PICK o, p, i : /\ p = (IF way = "restore" THEN info[n].path ELSE NoPath) /\ i = files[n]
                     /\ o = [NoOp EXCEPT !.kind = way, !.pc = "found", !.name = n, !.item = i, !.path = p]
  OBVIOUS
<1>2. Free(r) /\ Turned(r, o) /\ UNCHANGED <<place, files, info>> BY <1>1 DEF find, Ask, Turned
<1>3. files[n] # 0 /\ info[n].path \in Paths /\ (way = "delete" => files[n] \in chosen') BY DEF find, Shown, Entry, Allowed
<1>4. n \in Nat /\ i \in Nat /\ Thing(i) /\ MaxRestored \in Nat BY <1>0, <1>1, TrashAssumption DEF Names, TrashTypes
<1>5. /\ o \in OpRec /\ o.kind = way /\ o.pc = "found" /\ o.name = n /\ o.item = files[n] /\ o.path = p /\ o.try = 0 /\ o.todo = {}
  <2>1. p \in Paths \cup {NoPath} BY <1>1, <1>3
  <2>2. NoOp.try = 0 /\ NoOp.todo = {} BY DEF NoOp
  <2>3. QED BY <1>1, <1>4, <2>1, <2>2, NoOpIs DEF OpRec, PutPcs, TakePcs
<1>6. ShapeOf(o) BY <1>1, <1>3, <1>4, <1>5 DEF ShapeOf, PutPcs, TakePcs
<1>7. PathOf(o) BY <1>0, <1>1, <1>5 DEF PathOf, Kept
<1>8. AskedOf(o, chosen') /\ OnceEach(o) /\ o.kind # "purge" BY <1>3, <1>5 DEF AskedOf, OnceEach
<1>9. Thing(o.item) BY <1>1, <1>4, <1>5
<1>10. OpFits(r, o) BY <1>5, <1>6, <1>7, <1>8, <1>9 DEF OpFits
<1>11. Calm(o) /\ \A m : ~Orphan(o, m) BY <1>5 DEF Calm, CritPcs, Orphan
<1>12. QED BY <1>2, <1>10, <1>11, CalmKeeps
\* A list of entries that is begun with: each is what its name holds, and was asked for.
LEMMA ListKeeps ==
    ASSUME Swift, TrashInv, NEW r \in Requests, Free(r), NEW way \in {"empty", "purge"}, NEW es,
           op' = [op EXCEPT ![r] = [NoOp EXCEPT !.kind = way, !.pc = "list", !.todo = es]],
           chosen' = chosen \cup ({e.item : e \in es} \ {0}), UNCHANGED <<place, files, info, born, confined>>,
           way = "empty" => \A e \in es : e.item # 0,
           way = "purge" => \A s \in Requests : op[s].kind # "purge",
           \A e \in es : \E n \in Names : info[n] # NoInfo /\ e = [name |-> n, item |-> files[n]]
    PROVE  TrashInv'
<1>0. TrashTypes BY DEF TrashInv
<1>1. PICK o : o = [NoOp EXCEPT !.kind = way, !.pc = "list", !.todo = es] OBVIOUS
<1>2. Turned(r, o) BY <1>1 DEF Turned
<1>3. \A e \in es : e \in Listed BY <1>0 DEF Listed, TrashTypes
<1>4. /\ o \in OpRec /\ o.kind = way /\ o.pc = "list" /\ o.item = 0 /\ o.todo = es
  <2>1. es \in SUBSET Listed BY <1>3
  <2>2. NoOp.item = 0 BY DEF NoOp
  <2>3. QED BY <1>1, <2>1, <2>2, NoOpIs DEF OpRec
<1>5. ShapeOf(o) BY <1>3, <1>4 DEF ShapeOf, PutPcs, TakePcs
<1>6. AskedOf(o, chosen') BY <1>4 DEF AskedOf, TakePcs
<1>7. OnceEach(o) BY <1>4 DEF OnceEach
<1>8. Thing(o.item) /\ PathOf(o) BY <1>0, <1>4 DEF Thing, TrashTypes, PathOf
<1>9. OpFits(r, o) BY <1>4, <1>5, <1>6, <1>7, <1>8 DEF OpFits
<1>10. Calm(o) /\ \A m \in Names : Orphan(o, m) => Orphaned(m) BY <1>4 DEF Calm, CritPcs, Orphan, Orphaned
<1>11. QED BY <1>2, <1>9, <1>10, CalmKeeps
\* An entry that is listed is a name with an info.
LEMMA EntriesAre ==
    ASSUME NEW e \in entries PROVE \E n \in Names : info[n] # NoInfo /\ Item(e) = [name |-> n, item |-> files[n]] /\ e.item = files[n]
<1>1. PICK n \in Names : info[n] # NoInfo /\ e = Entry(n) BY DEF entries
<1>2. QED BY <1>1 DEF Entry, Item

\* Emptying the trash begins by listing it, which keeps the invariant.
LEMMA EmptyKeeps == ASSUME Swift, TrashInv, NEW r \in Requests, Empty(r) PROVE TrashInv'
<1>1. PICK es : /\ es = {Item(e) : e \in {e \in entries : Shown(e)}}
                /\ op' = [op EXCEPT ![r] = [NoOp EXCEPT !.kind = "empty", !.pc = "list", !.todo = es]]
                /\ chosen' = chosen \cup ({e.item : e \in es} \ {0})
  BY DEF Empty
<1>2. Free(r) /\ UNCHANGED <<place, files, info, born, confined>> BY DEF Empty, Ask
<1>3. \A e \in es : e.item # 0 /\ \E n \in Names : info[n] # NoInfo /\ e = [name |-> n, item |-> files[n]]
  <2>1. SUFFICES ASSUME NEW x \in es PROVE x.item # 0 /\ \E n \in Names : info[n] # NoInfo /\ x = [name |-> n, item |-> files[n]] OBVIOUS
  <2>2. PICK e \in entries : x = Item(e) /\ Shown(e) BY <1>1
  <2>3. QED BY <2>2, EntriesAre DEF Shown, Item
<1>4. QED BY <1>1, <1>2, <1>3, ListKeeps

\* The purge of what is too old begins by listing the trash, which keeps the invariant.
LEMMA PurgeKeeps == ASSUME Swift, TrashInv, NEW r \in Requests, Purge(r) PROVE TrashInv'
<1>1. PICK es : /\ es = {Item(e) : e \in {e \in entries : IF e.item = 0 THEN e.age > 0 ELSE e.path \in Paths /\ e.age > 1}}
                /\ op' = [op EXCEPT ![r] = [NoOp EXCEPT !.kind = "purge", !.pc = "list", !.todo = es]]
                /\ chosen' = chosen \cup ({e.item : e \in es} \ {0})
  BY DEF Purge
<1>2. Free(r) /\ UNCHANGED <<place, files, info, born, confined>> /\ \A s \in Requests : op[s].kind # "purge" BY DEF Purge, Ask
<1>3. \A e \in es : \E n \in Names : info[n] # NoInfo /\ e = [name |-> n, item |-> files[n]]
  <2>1. SUFFICES ASSUME NEW x \in es PROVE \E n \in Names : info[n] # NoInfo /\ x = [name |-> n, item |-> files[n]] OBVIOUS
  <2>2. PICK e \in entries : x = Item(e) BY <1>1
  <2>3. QED BY <2>2, EntriesAre
<1>4. QED BY <1>1, <1>2, <1>3, ListKeeps

\* Put: its three calls.
LEMMA PutInfoKeeps == ASSUME Swift, TrashInv, NEW r \in Requests, PutInfo(r) PROVE TrashInv'
<1>1. Known_(r) /\ TrashTypes /\ Kept BY KnownIs DEF TrashInv
<1>2. /\ Free(r) /\ op[r].kind = "put" /\ op[r].pc = "info" /\ UNCHANGED <<place, files, born, confined>> /\ chosen' = chosen
      /\ op[r].path \in Paths /\ op[r].try > 0 /\ op[r].try \in Nat
  BY <1>1, FieldsOf DEF PutInfo, OpAt, Known_, ShapeOf, OpFields
<1>3. CASE op[r].try > MaxNames
  <2>1. Turned(r, NoOp) /\ UNCHANGED info BY <1>2, <1>3 DEF PutInfo, Turned
  <2>2. QED BY <1>1, <1>2, <2>1, NoOpFits, CalmKeeps
<1>4. CASE ~(op[r].try > MaxNames) /\ info[op[r].try] # NoInfo
  <2>1. PICK o : o = [op[r] EXCEPT !.try = op[r].try + 1] OBVIOUS
  <2>2. Turned(r, o) /\ UNCHANGED info
    <3>1. op' = [op EXCEPT ![r].try = op[r].try + 1] /\ UNCHANGED info BY <1>4 DEF PutInfo
    <3>2. QED BY <1>2, <2>1, <3>1 DEF Turned
  <2>3. op[r].try + 1 \in Nat /\ op[r].try + 1 > 0 BY <1>2
  <2>4. /\ o \in OpRec /\ o.pc = "info" /\ o.kind = "put" /\ o.name = op[r].name
        /\ o.item = op[r].item /\ o.path = op[r].path /\ o.try = op[r].try + 1 /\ o.todo = op[r].todo
    BY <1>1, <1>2, <2>1, <2>3 DEF Known_, OpRec
  <2>5. OpFits(r, o) BY <1>1, <1>2, <2>3, <2>4 DEF Known_, OpFits, ShapeOf, PathOf, AskedOf, OnceEach, PutPcs, TakePcs
  <2>6. Calm(o) /\ \A n : ~Orphan(o, n) BY <2>4 DEF Calm, CritPcs, Orphan
  <2>7. QED BY <1>2, <2>2, <2>5, <2>6, CalmKeeps
<1>5. CASE ~(op[r].try > MaxNames) /\ info[op[r].try] = NoInfo
  <2>1. PICK o, n, i : o = PcTo(r, "move") /\ n = op[r].try /\ i = [path |-> op[r].path, age |-> 0] OBVIOUS
  <2>2. op' = [op EXCEPT ![r].pc = "move"] /\ info' = [info EXCEPT ![n] = i] BY <1>5, <2>1 DEF PutInfo, Go
  <2>3. Turned(r, o) BY <1>2, <2>1, <2>2 DEF Turned, PcTo
  <2>4. n \in Names /\ i \in InfoRec /\ info[n] = NoInfo BY <1>2, <1>5, <2>1, TrashAssumption DEF Names, InfoRec
  <2>5. files[n] \notin DOMAIN born
    <3>1. NoInfo.path = NoPath /\ NoPath \notin Paths BY TrashAssumption DEF NoInfo
    <3>2. \A k \in DOMAIN born : born[k] \in Paths BY <1>1 DEF TrashTypes
    <3>3. QED BY <1>1, <2>4, <3>1, <3>2 DEF Kept
  <2>6. OpFits(r, o) /\ \A m : ~Orphan(o, m)
    BY <1>2, <2>1, <2>4, PcToFits DEF PutPcs, Orphan
  <2>7. o.pc = "move" /\ o.try = n /\ o.path = op[r].path BY <1>1, <2>1, PcToIs DEF PutPcs, Known_
  <2>8. HeldFor(o)'
    <3>1. info'[n] = i /\ i.path = op[r].path BY <1>1, <2>1, <2>2, <2>4 DEF TrashTypes
    <3>2. QED BY <1>2, <2>5, <2>7, <3>1 DEF HeldFor
  <2>9. \A s \in Requests, m \in Names : Orphan(op[s], m) => m # n /\ Away(o, m)
    BY <1>1, <2>4, <2>7 DEF Known_, Orphaned, Away
  <2>10. UNCHANGED <<place, files>> BY <1>2
  <2>11. \A m \in Names : Orphan(o, m) => Orphaned(m) /\ m # n BY <2>6
  <2>12. \A s \in Requests \ {r}, m \in Names : Orphan(op[s], m) => m # n BY <2>9
  <2>13. \A s \in Requests, m \in Names : Orphan(op[s], m) \/ Orphan(o, m) => Away(o, m) BY <2>6, <2>9
  <2>14. OpFits(r, o) BY <2>6
  <2>15. QED BY <1>2, <2>2, <2>3, <2>4, <2>5, <2>8, <2>10, <2>11, <2>12, <2>13, <2>14, InfoKeeps
<1>6. QED BY <1>3, <1>4, <1>5
\* The item at a path moves to a name of the trash that holds nothing, or an item of the trash to a path that holds nothing.
LEMMA SwapFits ==
    ASSUME TrashInv, UNCHANGED <<info, born>>, chosen \subseteq chosen', NEW q \in DOMAIN place, NEW n \in Names,
           NEW x, NEW y, x = place[q], y = files[n], x = 0 \/ y = 0,
           place' = [place EXCEPT ![q] = y], files' = [files EXCEPT ![n] = x],
           y \in DOMAIN born => born[y] = q[1], x \in DOMAIN born => info[n].path = born[x]
    PROVE  DiskFits
<1>1. TrashTypes /\ AtItsPath /\ Kept BY DEF TrashInv
<1>2. x \in Nat /\ y \in Nat /\ Thing(x) /\ Thing(y) /\ Thing(0) BY <1>1 DEF TrashTypes, Thing
<1>3. /\ place' \in [Paths \X (0 .. MaxRestored) -> Nat] /\ DOMAIN place' = DOMAIN place
      /\ place'[q] = y /\ \A p \in DOMAIN place : p # q => place'[p] = place[p]
  BY <1>1, <1>2 DEF TrashTypes
<1>4. files' \in [Names -> Nat] /\ files'[n] = x /\ \A m \in Names : m # n => files'[m] = files[m] BY <1>1, <1>2 DEF TrashTypes
<1>5. \A p \in DOMAIN place' : Thing(place'[p]) BY <1>1, <1>2, <1>3 DEF TrashTypes
<1>6. \A m \in Names : Thing(files'[m]) BY <1>1, <1>2, <1>4 DEF TrashTypes
<1>7. Placed' BY <1>1, <1>3 DEF AtItsPath, Placed
<1>8. \A i : Somewhere(i) => Somewhere(i)' \/ i = 0
  <2>1. SUFFICES ASSUME NEW i, Somewhere(i), i # 0 PROVE Somewhere(i)' OBVIOUS
  <2>2. CASE \E p \in DOMAIN place : place[p] = i BY <1>3, <1>4, <2>2 DEF Somewhere
  <2>3. CASE \E m \in Names : files[m] = i BY <1>3, <1>4, <2>3 DEF Somewhere
  <2>4. QED BY <2>1, <2>2, <2>3 DEF Somewhere
<1>9. 0 \notin DOMAIN born BY <1>1 DEF TrashTypes
<1>10. \A i \in DOMAIN born' : i \in chosen' \/ Somewhere(i)' BY <1>1, <1>8, <1>9 DEF Kept
<1>11. \A m \in Names : files'[m] \in DOMAIN born' => info'[m].path = born'[files'[m]] BY <1>1, <1>4 DEF Kept
<1>12. Kept' BY <1>10, <1>11 DEF Kept
<1>13. QED BY <1>1, <1>3, <1>4, <1>5, <1>6, <1>7, <1>12 DEF DiskFits, TrashTypes
\* What a name of the trash holds may go when its removal was asked for.
LEMMA DropFits ==
    ASSUME TrashInv, UNCHANGED <<place, info, born>>, chosen \subseteq chosen', NEW n \in Names,
           files[n] \in DOMAIN born => files[n] \in chosen', files' = [files EXCEPT ![n] = 0]
    PROVE  DiskFits
<1>1. TrashTypes /\ AtItsPath /\ Kept BY DEF TrashInv
<1>2. Thing(0) /\ 0 \notin DOMAIN born BY <1>1 DEF TrashTypes, Thing
<1>3. files' \in [Names -> Nat] /\ files'[n] = 0 /\ \A m \in Names : m # n => files'[m] = files[m] BY <1>1 DEF TrashTypes
<1>4. \A m \in Names : Thing(files'[m]) BY <1>1, <1>2, <1>3 DEF TrashTypes
<1>5. Placed' BY <1>1 DEF AtItsPath, Placed
<1>6. \A i \in DOMAIN born' : i \in chosen' \/ Somewhere(i)'
  <2>1. SUFFICES ASSUME NEW i \in DOMAIN born, i \notin chosen' PROVE Somewhere(i)' OBVIOUS
  <2>2. Somewhere(i) /\ i # files[n] BY <1>1, <2>1 DEF Kept
  <2>3. QED BY <1>3, <2>2 DEF Somewhere
<1>7. \A m \in Names : files'[m] \in DOMAIN born' => info'[m].path = born'[files'[m]] BY <1>1, <1>2, <1>3 DEF Kept
<1>8. Kept' BY <1>6, <1>7 DEF Kept
<1>9. QED BY <1>1, <1>3, <1>4, <1>5, <1>8 DEF DiskFits, TrashTypes
\* The names of the purge stay as they are when the step gave no item to one of them and no info away.
LEMMA FilesSpare ==
    ASSUME TrashInv, NEW r \in Requests, NEW o, UNCHANGED info, NEW n \in Names, NEW x, files' = [files EXCEPT ![n] = x],
           \A s \in Requests, m \in Names : Orphan(op[s], m) => Away(o, m) /\ (m = n => x = 0),
           \A m \in Names : Orphan(o, m) => Orphan(op[r], m)
    PROVE  Spared_(r, o)
<1>1. \A s \in Requests, m \in Names : Orphan(op[s], m) => Orphaned(m) BY DEF TrashInv, Orphans
<1>2. \A m \in Names : files'[m] = IF m = n THEN x ELSE files[m] BY DEF TrashInv, TrashTypes
<1>3. \A s \in Requests, m \in Names : Orphan(op[s], m) => Orphaned(m)' BY <1>1, <1>2 DEF Orphaned
<1>4. QED BY <1>3 DEF Spared_

\* The move of a Put.
LEMMA PutMoveKeeps == ASSUME Swift, TrashInv, NEW r \in Requests, PutMove(r) PROVE TrashInv'
<1>1. Known_(r) /\ TrashTypes /\ AtItsPath BY KnownIs DEF TrashInv
<1>2. /\ Free(r) /\ op[r].kind = "put" /\ op[r].pc = "move" /\ UNCHANGED <<info, born, confined>> /\ chosen' = chosen
      /\ op[r].path \in Paths /\ op[r].try \in Names /\ info[op[r].try].path = op[r].path
  BY <1>1 DEF PutMove, OpAt, Known_, ShapeOf, PutPcs, HeldFor
<1>3. CASE op' = [op EXCEPT ![r] = NoOp] /\ place[Own(op[r].path)] # 0 /\ files[op[r].try] = 0
            /\ files' = [files EXCEPT ![op[r].try] = place[Own(op[r].path)]] /\ place' = [place EXCEPT ![Own(op[r].path)] = 0]
  <2>1. PICK q, n, x, y : q = Own(op[r].path) /\ n = op[r].try /\ x = place[q] /\ y = files[n] OBVIOUS
  <2>2. q \in DOMAIN place /\ q[1] = op[r].path
    <3>1. 0 \in 0 .. MaxRestored BY TrashAssumption
    <3>2. QED BY <1>1, <1>2, <2>1, <3>1 DEF TrashTypes, Own
  <2>3. n \in Names /\ y = 0 /\ files' = [files EXCEPT ![n] = x] /\ place' = [place EXCEPT ![q] = y] BY <1>2, <1>3, <2>1
  <2>4. y \notin DOMAIN born BY <1>1, <2>3 DEF TrashTypes
  <2>5. x \in DOMAIN born => info[n].path = born[x] BY <1>1, <1>2, <2>1, <2>2 DEF AtItsPath, Placed
  <2>6. DiskFits BY <1>2, <2>1, <2>2, <2>3, <2>4, <2>5, SwapFits
  <2>7. OpFits(r, NoOp) /\ Calm(NoOp) /\ \A m : ~Orphan(NoOp, m) BY <1>1, NoOpFits
  <2>8. HeldFor(NoOp)' /\ \A m : Away(NoOp, m) BY <2>7, CalmHolds
  <2>9. \A s \in Requests, m \in Names : Orphan(op[s], m) => m # n
    BY <1>1, <1>2, <2>1 DEF Known_, Away, PutPcs
  <2>10. Spared_(r, NoOp) BY <1>2, <2>3, <2>7, <2>8, <2>9, FilesSpare
  <2>11. Turned(r, NoOp) BY <1>2, <1>3 DEF Turned
  <2>12. QED BY <1>2, <2>6, <2>7, <2>8, <2>10, <2>11, RequestKeepsTrash
<1>4. CASE \E p \in {"taken", "undo"} : Go(r, p) /\ UNCHANGED <<place, files>>
  <2>1. PICK p \in {"taken", "undo"} : Go(r, p) /\ UNCHANGED <<place, files>> BY <1>4
  <2>2. PICK o : o = PcTo(r, p) OBVIOUS
  <2>3. p \in PutPcs BY DEF PutPcs
  <2>4. Turned(r, o) BY <1>2, <2>1, <2>2 DEF Turned, PcTo, Go
  <2>5. OpFits(r, o) /\ \A m : Orphan(o, m) <=> Orphan(op[r], m)
    <3>1. ~(p \in {"sure", "moved"}) OBVIOUS
    <3>2. QED BY <1>2, <2>2, <2>3, <3>1, PcToFits
  <2>6. o.pc = p /\ o.try = op[r].try /\ o.path = op[r].path /\ o.kind = "put" BY <1>1, <1>2, <2>2, <2>3, PcToIs DEF Known_
  <2>7. HeldFor(o) BY <1>1, <1>2, <2>3, <2>6 DEF Known_, HeldFor, PutPcs
  <2>8. \A s \in Requests, m \in Names : Orphan(op[s], m) => Away(o, m) BY <1>1, <1>2, <2>6 DEF Known_, Away, PutPcs
  <2>9. \A m : ~Orphan(o, m) BY <2>6 DEF Orphan
  <2>10. UNCHANGED <<place, files, info>> BY <1>2, <2>1
  <2>11. QED BY <1>2, <2>4, <2>5, <2>7, <2>8, <2>9, <2>10, OpKeeps
<1>5. QED BY <1>3, <1>4 DEF PutMove
\* A Put that could not be done takes its info away.
LEMMA PutUndoKeeps == ASSUME Swift, TrashInv, NEW r \in Requests, PutUndo(r) PROVE TrashInv'
<1>1. Known_(r) /\ TrashTypes BY KnownIs DEF TrashInv
<1>2. /\ Free(r) /\ op[r].kind = "put" /\ op[r].pc \in {"taken", "undo"} /\ UNCHANGED <<place, files, born, confined>> /\ chosen' = chosen
      /\ op[r].path \in Paths /\ op[r].try \in Names /\ files[op[r].try] \notin DOMAIN born
  BY <1>1 DEF PutUndo, Known_, ShapeOf, PutPcs, HeldFor
<1>3. PICK n : n = op[r].try OBVIOUS
<1>4. n \in Names /\ NoInfo \in InfoRec /\ info' = [info EXCEPT ![n] = NoInfo] /\ files[n] \notin DOMAIN born
  BY <1>2, <1>3 DEF PutUndo, NoInfo, InfoRec
<1>5. \A s \in Requests, m \in Names : Orphan(op[s], m) => m # n BY <1>1, <1>2, <1>3 DEF Known_, Away, PutPcs
<1>6. ASSUME NEW o, Turned(r, o), OpFits(r, o), Calm(o), \A m : ~Orphan(o, m) PROVE TrashInv'
  <2>1. HeldFor(o)' /\ \A m : Away(o, m) BY <1>6, CalmHolds
  <2>2. UNCHANGED <<place, files>> BY <1>2
  <2>3. QED BY <1>2, <1>4, <1>5, <1>6, <2>1, <2>2, InfoKeeps
<1>7. CASE op[r].pc = "undo"
  <2>1. Turned(r, NoOp) BY <1>2, <1>7 DEF PutUndo, Turned
  <2>2. QED BY <1>1, <1>6, <2>1, NoOpFits
<1>8. CASE op[r].pc = "taken"
  <2>1. PICK o : o = [op[r] EXCEPT !.pc = "info", !.try = op[r].try + 1] OBVIOUS
  <2>2. Turned(r, o)
    <3>1. op' = [op EXCEPT ![r] = [op[r] EXCEPT !.pc = "info", !.try = op[r].try + 1]] BY <1>8 DEF PutUndo
    <3>2. QED BY <1>2, <2>1, <3>1 DEF Turned
  <2>3. op[r].try + 1 \in Nat /\ op[r].try + 1 > 0 BY <1>2, TrashAssumption DEF Names
  <2>4. /\ o \in OpRec /\ o.pc = "info" /\ o.kind = "put" /\ o.item = op[r].item /\ o.path = op[r].path /\ o.try = op[r].try + 1
    BY <1>1, <1>2, <2>1, <2>3 DEF Known_, OpRec
  <2>5. OpFits(r, o) BY <1>1, <1>2, <2>3, <2>4 DEF Known_, OpFits, ShapeOf, PathOf, AskedOf, OnceEach, PutPcs, TakePcs
  <2>6. Calm(o) /\ \A m : ~Orphan(o, m) BY <2>4 DEF Calm, CritPcs, Orphan
  <2>7. QED BY <1>6, <2>2, <2>5, <2>6
<1>9. QED BY <1>2, <1>7, <1>8
\* A request that is done with an entry, whatever it did to it.
LEMMA DoneIs == ASSUME NEW r \in Requests, Done(r) PROVE op' = [op EXCEPT ![r] = After(r)]
  BY DEF Done, After

\* Being done with an entry keeps the invariant.
LEMMA DoneKeeps ==
    ASSUME Swift, TrashInv, NEW r \in Requests, Free(r), op[r].pc \in TakePcs, Done(r),
           UNCHANGED <<place, files, info, born, confined>>, chosen' = chosen
    PROVE  TrashInv'
<1>1. PICK o : o = After(r) OBVIOUS
<1>2. Turned(r, o) BY <1>1, DoneIs DEF Turned
<1>3. OpFits(r, o) /\ Calm(o) /\ \A n : Orphan(o, n) => Orphan(op[r], n) BY <1>1, AfterFits
<1>4. \A n \in Names : Orphan(o, n) => Orphaned(n) BY <1>3, KnownIs DEF Known_
<1>5. QED BY <1>2, <1>3, <1>4, CalmKeeps
\* same.
LEMMA sameKeeps == ASSUME Swift, TrashInv, NEW r \in Requests, same(r) PROVE TrashInv'
<1>1. Known_(r) BY KnownIs
<1>2. Free(r) /\ op[r].pc = "found" /\ UNCHANGED <<place, files, info, born, confined>> /\ chosen' = chosen BY DEF same
<1>3. CASE files[op[r].name] # op[r].item BY <1>2, <1>3, DoneKeeps DEF same, TakePcs
<1>4. CASE files[op[r].name] = op[r].item
  <2>1. Go(r, "sure") BY <1>4 DEF same
  <2>2. PICK o : o = PcTo(r, "sure") OBVIOUS
  <2>3. Turned(r, o) BY <1>2, <2>1, <2>2 DEF Turned, PcTo, Go
  <2>4. OpFits(r, o) /\ \A m : Orphan(o, m) <=> Orphan(op[r], m)
    BY <1>2, <2>2, PcToFits DEF PutPcs, TakePcs
  <2>5. o.pc = "sure" /\ o.name = op[r].name /\ o.item = op[r].item BY <1>1, <2>2, PcToIs DEF Known_, TakePcs
  <2>6. op[r].item # 0 BY <1>1, <1>2 DEF Known_, ShapeOf, TakePcs
  <2>7. HeldFor(o) BY <1>4, <2>5 DEF HeldFor, PutPcs
  <2>8. \A s \in Requests, m \in Names : Orphan(op[s], m) => Orphaned(m) /\ Away(o, m)
    BY <1>1, <1>4, <2>5, <2>6 DEF Known_, Orphaned, Away, PutPcs
  <2>9. \A m \in Names : Orphan(o, m) => Orphaned(m) /\ Away(o, m) BY <2>4, <2>8
  <2>10. UNCHANGED <<place, files, info>> BY <1>2
  <2>11. QED BY <1>2, <2>3, <2>4, <2>7, <2>8, <2>9, <2>10, OpKeeps
<1>5. QED BY <1>3, <1>4
\* The item is gone from its name: the request goes on to the info.
LEMMA MovedKeeps ==
    ASSUME Swift, TrashInv, NEW r \in Requests, Free(r), op[r].pc = "sure", Go(r, "moved"), DiskFits,
           files' = [files EXCEPT ![op[r].name] = 0], UNCHANGED <<info, born, confined>>, chosen' = chosen
    PROVE  TrashInv'
<1>1. Known_(r) /\ TrashTypes BY KnownIs DEF TrashInv
<1>2. PICK o, n : o = PcTo(r, "moved") /\ n = op[r].name OBVIOUS
<1>3. Turned(r, o) BY <1>2 DEF Turned, PcTo, Go
<1>4. OpFits(r, o) /\ \A m : Orphan(o, m) <=> Orphan(op[r], m)
  BY <1>2, PcToFits DEF PutPcs, TakePcs
<1>5. o.pc = "moved" /\ o.name = n BY <1>1, <1>2, PcToIs DEF Known_, TakePcs
<1>6. n \in Names BY <1>1, <1>2 DEF Known_, ShapeOf, TakePcs
<1>7. files' = [files EXCEPT ![n] = 0] /\ files'[n] = 0 BY <1>1, <1>2, <1>6 DEF TrashTypes
<1>8. HeldFor(o)' BY <1>5, <1>7 DEF HeldFor, PutPcs
<1>9. \A s \in Requests, m \in Names : Orphan(op[s], m) => Away(o, m)
  BY <1>1, <1>2, <1>5 DEF Known_, Away, PutPcs
<1>10. Spared_(r, o) BY <1>4, <1>6, <1>7, <1>9, FilesSpare
<1>11. QED BY <1>3, <1>4, <1>8, <1>10, RequestKeepsTrash
\* Restore.
LEMMA RestoreKeeps == ASSUME Swift, TrashInv, NEW r \in Requests, Restore(r) PROVE TrashInv'
<1>1. Known_(r) /\ TrashTypes /\ OpFields(op[r]) BY KnownIs, FieldsOf DEF TrashInv, Known_
<1>2. /\ Free(r) /\ op[r].kind = "restore" /\ op[r].pc = "sure" /\ UNCHANGED <<info, born, confined>> /\ chosen' = chosen
      /\ op[r].path \in Paths /\ op[r].try \in 0 .. MaxRestored /\ op[r].name \in Names /\ files[op[r].name] = op[r].item
  BY <1>1 DEF Restore, OpAt, Known_, ShapeOf, TakePcs, HeldFor
<1>3. PICK q, n, x, y : q = <<op[r].path, op[r].try>> /\ n = op[r].name /\ x = place[q] /\ y = files[n] OBVIOUS
<1>4. q \in DOMAIN place /\ q[1] = op[r].path /\ n \in Names BY <1>1, <1>2, <1>3 DEF TrashTypes
<1>5. CASE place[q] = 0 /\ place' = [place EXCEPT ![q] = files[n]] /\ files' = [files EXCEPT ![n] = 0] /\ Go(r, "moved")
  <2>1. x = 0 /\ place' = [place EXCEPT ![q] = y] /\ files' = [files EXCEPT ![n] = x] BY <1>3, <1>5
  <2>2. x \notin DOMAIN born BY <1>1, <2>1 DEF TrashTypes
  <2>3. y \in DOMAIN born => born[y] = q[1] BY <1>1, <1>2, <1>3, <1>4 DEF Known_, PathOf
  <2>4. DiskFits BY <1>2, <1>3, <1>4, <2>1, <2>2, <2>3, SwapFits
  <2>5. files' = [files EXCEPT ![op[r].name] = 0] BY <1>3, <1>5
  <2>6. QED BY <1>2, <1>5, <2>4, <2>5, MovedKeeps
<1>6. CASE op[r].try < MaxRestored /\ op' = [op EXCEPT ![r].pc = "found", ![r].try = @ + 1] /\ UNCHANGED <<place, files>>
  <2>1. PICK o : o = [op[r] EXCEPT !.pc = "found", !.try = op[r].try + 1] OBVIOUS
  <2>2. op' = [op EXCEPT ![r] = o] BY <1>1, <1>6, <2>1 DEF TrashTypes
  <2>3. op[r].try + 1 \in Nat /\ op[r].try + 1 \in 0 .. MaxRestored BY <1>2, <1>6, TrashAssumption
  <2>4. /\ o \in OpRec /\ o.pc = "found" /\ o.kind = "restore" /\ o.name = op[r].name
        /\ o.item = op[r].item /\ o.path = op[r].path /\ o.try = op[r].try + 1
    BY <1>1, <1>2, <2>1, <2>3 DEF Known_, OpRec, TakePcs
  <2>5. Turned(r, o) BY <1>2, <2>2 DEF Turned
  <2>6. op[r].item # 0 BY <1>1, <1>2 DEF Known_, ShapeOf, TakePcs
  <2>7. ShapeOf(o) BY <1>2, <2>3, <2>4, <2>6 DEF ShapeOf, PutPcs, TakePcs
  <2>8. OpFits(r, o) BY <1>1, <1>2, <2>4, <2>7 DEF Known_, OpFits, PathOf, AskedOf, OnceEach
  <2>9. Calm(o) /\ \A m : ~Orphan(o, m) BY <2>4 DEF Calm, CritPcs, Orphan
  <2>10. UNCHANGED <<place, files, info>> BY <1>2, <1>6
  <2>11. QED BY <1>2, <2>5, <2>8, <2>9, <2>10, CalmKeeps
<1>7. CASE Done(r) /\ UNCHANGED <<place, files>> BY <1>2, <1>7, DoneKeeps DEF TakePcs
<1>8. QED BY <1>3, <1>5, <1>6, <1>7 DEF Restore
\* remove.
LEMMA removeKeeps == ASSUME Swift, TrashInv, NEW r \in Requests, remove(r) PROVE TrashInv'
<1>1. Known_(r) BY KnownIs
<1>2. /\ Free(r) /\ op[r].kind \in {"delete", "empty", "purge"} /\ op[r].pc = "sure" /\ UNCHANGED <<place, info, born, confined>> /\ chosen' = chosen
      /\ op[r].name \in Names /\ files[op[r].name] \in chosen
  BY <1>1 DEF remove, OpAt, Known_, ShapeOf, TakePcs, HeldFor, AskedOf
<1>3. CASE files' = [files EXCEPT ![op[r].name] = 0] /\ Go(r, "moved")
  <2>1. DiskFits
    <3>1. PICK n : n = op[r].name OBVIOUS
    <3>2. QED BY <1>2, <1>3, <3>1, DropFits
  <2>2. QED BY <1>2, <1>3, <2>1, MovedKeeps
<1>4. CASE Done(r) /\ UNCHANGED files BY <1>2, <1>4, DoneKeeps DEF TakePcs
<1>5. QED BY <1>3, <1>4 DEF remove
\* The info goes last.
LEMMA UninfoKeeps == ASSUME Swift, TrashInv, NEW r \in Requests, Uninfo(r) PROVE TrashInv'
<1>1. Known_(r) /\ TrashTypes BY KnownIs DEF TrashInv
<1>2. /\ Free(r) /\ op[r].pc = "moved" /\ UNCHANGED <<place, files, born, confined>> /\ chosen' = chosen
      /\ op[r].name \in Names /\ files[op[r].name] = 0
  BY <1>1 DEF Uninfo, OpAt, Known_, ShapeOf, TakePcs, HeldFor
<1>3. PICK o, n : o = After(r) /\ n = op[r].name OBVIOUS
<1>4. Turned(r, o) BY <1>2, <1>3, DoneIs DEF Uninfo, Turned
<1>5. OpFits(r, o) /\ Calm(o) /\ \A m : Orphan(o, m) => Orphan(op[r], m) BY <1>2, <1>3, AfterFits DEF TakePcs
<1>6. HeldFor(o)' /\ \A m : Away(o, m) BY <1>5, CalmHolds
<1>7. n \in Names /\ NoInfo \in InfoRec /\ info' = [info EXCEPT ![n] = NoInfo] /\ files[n] \notin DOMAIN born
  BY <1>1, <1>2, <1>3 DEF Uninfo, NoInfo, InfoRec, TrashTypes
<1>8. \A s \in Requests, m \in Names : Orphan(op[s], m) => Orphaned(m) /\ m # n BY <1>1, <1>2, <1>3 DEF Known_, Away
<1>9. \A m \in Names : Orphan(o, m) => Orphaned(m) /\ m # n BY <1>5, <1>8
<1>10. UNCHANGED <<place, files>> BY <1>2
<1>11. OpFits(r, o) BY <1>5
<1>12. \A s \in Requests \ {r}, m \in Names : Orphan(op[s], m) => m # n BY <1>8
<1>13. QED BY <1>2, <1>4, <1>6, <1>7, <1>9, <1>10, <1>11, <1>12, InfoKeeps
\* A request with a list, one entry shorter, and what it is at.
LEMMA ShorterFits ==
    ASSUME TrashInv, NEW r \in Requests, NEW o \in OpRec, chosen \subseteq chosen', op[r].pc \in {"list", "sweep"}, op[r].kind \in {"empty", "purge"},
           o.kind = op[r].kind, o.path = op[r].path, o.try = op[r].try, o.todo \subseteq op[r].todo, Thing(o.item),
           o.pc = op[r].pc \/ (op[r].pc = "list" /\ o.pc = "found" /\ o.name \in Names /\ o.item # 0 /\ o.item \in chosen)
    PROVE  OpFits(r, o) /\ Calm(o) /\ \A n : Orphan(o, n) => Orphan(op[r], n)
<1>1. Known_(r) BY KnownIs
<1>2. ShapeOf(o) BY <1>1 DEF Known_, ShapeOf, PutPcs, TakePcs
<1>3. PathOf(o) BY DEF PathOf
<1>4. AskedOf(o, chosen') BY <1>1 DEF Known_, AskedOf, TakePcs
<1>5. OnceEach(o) BY <1>1 DEF Known_, OnceEach
<1>6. o.kind = "purge" => \A s \in Requests \ {r} : op[s].kind # "purge" BY <1>1 DEF Known_
<1>7. Calm(o) BY DEF Calm, CritPcs
<1>8. \A n : Orphan(o, n) => Orphan(op[r], n) BY DEF Orphan
<1>9. QED BY <1>2, <1>3, <1>4, <1>5, <1>6, <1>7, <1>8 DEF OpFits

\* Taking the next entry of the list keeps the invariant.
LEMMA NextEntryKeeps == ASSUME Swift, TrashInv, NEW r \in Requests, NextEntry(r) PROVE TrashInv'
<1>1. Known_(r) /\ TrashTypes /\ OpFields(op[r]) BY KnownIs, FieldsOf DEF TrashInv, Known_
<1>2. /\ Free(r) /\ op[r].kind \in {"empty", "purge"} /\ op[r].pc = "list" /\ UNCHANGED <<place, files, born, confined>> /\ chosen' = chosen
      /\ op[r].todo \subseteq Listed
  BY <1>1 DEF NextEntry, OpAt, Known_, ShapeOf
<1>3. PICK e \in op[r].todo :
         IF e.item = 0 THEN op' = [op EXCEPT ![r].todo = op[r].todo \ {e}] /\ info' = [info EXCEPT ![e.name] = NoInfo]
         ELSE op' = [op EXCEPT ![r] = [op[r] EXCEPT !.pc = "found", !.name = e.name, !.item = e.item, !.todo = op[r].todo \ {e}]] /\ UNCHANGED info
  BY DEF NextEntry
<1>4. PICK es : es = op[r].todo \ {e} OBVIOUS
<1>5. e.name \in Names /\ e.name \in Nat /\ e.item \in Nat /\ es \in SUBSET Listed BY <1>2, <1>4 DEF Listed, Names
<1>6. CASE e.item = 0
  <2>1. PICK o, n : o = [op[r] EXCEPT !.todo = es] /\ n = e.name OBVIOUS
  <2>2. Turned(r, o) /\ info' = [info EXCEPT ![n] = NoInfo] BY <1>2, <1>3, <1>4, <1>6, <2>1 DEF Turned
  <2>3. /\ o \in OpRec /\ o.kind = op[r].kind /\ o.path = op[r].path /\ o.try = op[r].try /\ o.todo = es /\ o.item = op[r].item /\ o.pc = op[r].pc
    BY <1>1, <1>5, <2>1 DEF Known_, OpRec
  <2>4. Thing(o.item) /\ es \subseteq op[r].todo BY <1>1, <1>4, <2>3 DEF Known_
  <2>5. OpFits(r, o) /\ Calm(o) /\ \A m : Orphan(o, m) => Orphan(op[r], m) BY <1>2, <2>3, <2>4, ShorterFits
  <2>6. HeldFor(o)' /\ \A m : Away(o, m) BY <2>5, CalmHolds
  <2>7. op[r].kind = "purge"
    BY <1>1, <1>2, <1>6 DEF Known_, ShapeOf
  <2>8. Orphan(op[r], n) BY <1>6, <2>1, <2>7 DEF Orphan
  <2>9. \A s \in Requests, m \in Names : Orphan(op[s], m) => Orphaned(m) /\ s = r BY <1>1, <2>7 DEF Known_, Orphan
  <2>10. n \in Names /\ NoInfo \in InfoRec /\ files[n] \notin DOMAIN born
    <3>1. n \in Names /\ files[n] = 0 BY <1>5, <2>1, <2>8, <2>9 DEF Orphaned
    <3>2. QED BY <1>1, <3>1 DEF TrashTypes, NoInfo, InfoRec
  <2>11. ~Orphan(o, n)
    <3>1. \A f \in op[r].todo : f.name = n => f = e BY <1>1, <2>1, <2>7 DEF Known_, OnceEach
    <3>2. QED BY <1>4, <2>3, <3>1 DEF Orphan
  <2>12. \A m \in Names : Orphan(o, m) => Orphaned(m) /\ m # n BY <2>5, <2>9, <2>11
  <2>13. \A s \in Requests \ {r}, m \in Names : Orphan(op[s], m) => m # n BY <2>9
  <2>14. UNCHANGED <<place, files>> BY <1>2
  <2>15. OpFits(r, o) BY <2>5
  <2>16. QED BY <1>2, <2>2, <2>6, <2>10, <2>12, <2>13, <2>14, <2>15, InfoKeeps
<1>7. CASE e.item # 0
  <2>1. PICK o, n, i : o = [op[r] EXCEPT !.pc = "found", !.name = n, !.item = i, !.todo = es] /\ n = e.name /\ i = e.item OBVIOUS
  <2>2. Turned(r, o) /\ UNCHANGED info BY <1>2, <1>3, <1>4, <1>7, <2>1 DEF Turned
  <2>3. /\ o \in OpRec /\ o.kind = op[r].kind /\ o.path = op[r].path /\ o.try = op[r].try /\ o.todo = es
        /\ o.item = i /\ o.name = n /\ o.pc = "found"
    BY <1>1, <1>5, <2>1 DEF Known_, OpRec, TakePcs
  <2>4. i \in chosen BY <1>1, <1>2, <1>7, <2>1 DEF Known_, AskedOf
  <2>5. Thing(i)
    <3>1. \A c \in chosen : Thing(c) BY DEF TrashInv, TrashTypes
    <3>2. QED BY <2>4, <3>1
  <2>6. OpFits(r, o) /\ Calm(o) /\ \A m : Orphan(o, m) => Orphan(op[r], m)
    <3>1. Thing(o.item) /\ es \subseteq op[r].todo BY <1>4, <2>3, <2>5
    <3>2. QED BY <1>2, <1>5, <1>7, <2>1, <2>3, <2>4, <3>1, ShorterFits
  <2>7. \A n_ \in Names : Orphan(o, n_) => Orphaned(n_) BY <1>1, <2>6 DEF Known_
  <2>8. UNCHANGED <<place, files, info>> BY <1>2, <2>2
  <2>9. QED BY <1>2, <2>2, <2>6, <2>7, <2>8, CalmKeeps
<1>8. QED BY <1>6, <1>7

\* Reaching the end of the list keeps the invariant.
LEMMA ListEndsKeeps == ASSUME Swift, TrashInv, NEW r \in Requests, ListEnds(r) PROVE TrashInv'
<1>1. Known_(r) /\ TrashTypes /\ OpFields(op[r]) BY KnownIs, FieldsOf DEF TrashInv, Known_
<1>2. /\ Free(r) /\ op[r].pc = "list" /\ UNCHANGED <<place, files, info, born, confined>> /\ chosen' = chosen
  BY DEF ListEnds, OpAt
<1>3. CASE ~(op[r].kind = "empty" /\ ~confined)
  <2>1. Turned(r, NoOp) BY <1>2, <1>3 DEF ListEnds, Turned
  <2>2. QED BY <1>1, <1>2, <2>1, NoOpFits, CalmKeeps
<1>4. CASE op[r].kind = "empty" /\ ~confined
  <2>1. PICK o, ns : o = [op[r] EXCEPT !.pc = "sweep", !.todo = ns] /\ ns = {n \in Names : files[n] # 0} OBVIOUS
  <2>2. Turned(r, o) BY <1>2, <1>4, <2>1 DEF ListEnds, Turned
  <2>3. /\ o \in OpRec /\ o.kind = "empty" /\ o.pc = "sweep" /\ o.todo = ns /\ o.item = op[r].item
    BY <1>1, <1>4, <2>1 DEF Known_, OpRec
  <2>4. ShapeOf(o) BY <2>1, <2>3 DEF ShapeOf, PutPcs, TakePcs
  <2>5. OpFits(r, o) BY <1>1, <2>3, <2>4 DEF Known_, OpFits, PathOf, AskedOf, OnceEach, TakePcs
  <2>6. Calm(o) /\ \A m : ~Orphan(o, m) BY <2>3 DEF Calm, CritPcs, Orphan
  <2>7. QED BY <1>2, <2>2, <2>5, <2>6, CalmKeeps
<1>5. QED BY <1>3, <1>4

\* The sweep of leftover files keeps the invariant.
LEMMA SweepKeeps == ASSUME Swift, TrashInv, NEW r \in Requests, Sweep(r) PROVE TrashInv'
<1>1. Known_(r) /\ TrashTypes /\ OpFields(op[r]) BY KnownIs, FieldsOf DEF TrashInv, Known_
<1>2. /\ Free(r) /\ op[r].kind = "empty" /\ op[r].pc = "sweep" /\ UNCHANGED <<place, info, born, confined>> /\ op[r].todo \subseteq Names
  BY <1>1 DEF Sweep, OpAt, Known_, ShapeOf
<1>3. CASE op[r].todo = {}
  <2>1. Turned(r, NoOp) /\ UNCHANGED files BY <1>2, <1>3 DEF Sweep, Turned
  <2>2. UNCHANGED <<place, files, info>> BY <1>2, <2>1
  <2>3. QED BY <1>1, <1>2, <2>1, <2>2, NoOpFits, CalmKeeps
<1>4. CASE op[r].todo # {}
  <2>1. PICK n \in op[r].todo : /\ op' = [op EXCEPT ![r].todo = op[r].todo \ {n}]
                                /\ files' = [files EXCEPT ![n] = 0] /\ chosen' = chosen \cup ({files[n]} \ {0})
    BY <1>4 DEF Sweep
  <2>2. PICK o, ns : o = [op[r] EXCEPT !.todo = ns] /\ ns = op[r].todo \ {n} OBVIOUS
  <2>3. Turned(r, o) BY <1>2, <2>1, <2>2 DEF Turned
  <2>4. ns \in SUBSET Names /\ n \in Names /\ ns \subseteq op[r].todo BY <1>2, <2>2
  <2>5. /\ o \in OpRec /\ o.kind = op[r].kind /\ o.path = op[r].path /\ o.try = op[r].try /\ o.todo = ns /\ o.item = op[r].item /\ o.pc = op[r].pc
    BY <1>1, <2>2, <2>4 DEF Known_, OpRec
  <2>6. Thing(o.item) /\ chosen \subseteq chosen' BY <1>1, <2>1, <2>5 DEF Known_
  <2>7. OpFits(r, o) /\ Calm(o) /\ \A m : Orphan(o, m) => Orphan(op[r], m) BY <1>2, <2>4, <2>5, <2>6, ShorterFits
  <2>8. HeldFor(o)' /\ \A m : Away(o, m) BY <2>7, CalmHolds
  <2>9. files[n] \in DOMAIN born => files[n] \in chosen' BY <1>1, <2>1 DEF TrashTypes
  <2>10. DiskFits BY <1>2, <2>1, <2>4, <2>6, <2>9, DropFits
  <2>11. Spared_(r, o) BY <1>2, <2>1, <2>4, <2>7, <2>8, FilesSpare
  <2>12. QED BY <1>2, <2>3, <2>7, <2>8, <2>10, <2>11, RequestKeepsTrash
<1>5. QED BY <1>3, <1>4
\* An item is made: it is another than all that are anywhere.
LEMMA MakeItemKeeps == ASSUME TrashInv, NEW p \in Paths, MakeItem(p) PROVE TrashInv'
<1>1. /\ TrashTypes /\ Shapes /\ OneCritical /\ AtItsPath /\ Held /\ AskedFor /\ OnePurge /\ Orphans /\ Kept BY DEF TrashInv
<1>2. PICK q, i : q = Own(p) /\ i = Len(born) + 1 OBVIOUS
<1>3. /\ born' = Append(born, p) /\ place' = [place EXCEPT ![q] = i] /\ place[q] = 0 /\ Len(born) < MaxItems
      /\ UNCHANGED <<files, info, op, chosen, confined>>
  BY <1>2 DEF MakeItem
<1>4. born \in Seq(Paths) /\ Len(born) \in Nat /\ MaxItems \in Nat BY <1>1, TrashAssumption DEF TrashTypes
<1>5. i \in Nat /\ i # 0 /\ i > Len(born) /\ i <= MaxItems /\ i # Foreign BY <1>2, <1>3, <1>4 DEF Foreign
<1>6. /\ born' \in Seq(Paths) /\ Len(born') = i /\ DOMAIN born = 1 .. Len(born) /\ DOMAIN born' = 1 .. i /\ born'[i] = p
      /\ \A k \in DOMAIN born : born'[k] = born[k]
  BY <1>2, <1>3, <1>4
<1>7. \A k : k \in DOMAIN born' <=> k \in DOMAIN born \/ k = i BY <1>2, <1>4, <1>5, <1>6
<1>8. \A k : Thing(k) => k # i /\ Thing(k)' BY <1>4, <1>5, <1>6 DEF Thing
<1>9. Thing(i)' BY <1>5, <1>6 DEF Thing
<1>10. q \in DOMAIN place /\ q[1] = p /\ DOMAIN place = Paths \X (0 .. MaxRestored)
  <2>1. 0 \in 0 .. MaxRestored BY TrashAssumption
  <2>2. QED BY <1>1, <1>2, <2>1 DEF TrashTypes, Own
<1>11. /\ place' \in [Paths \X (0 .. MaxRestored) -> Nat] /\ DOMAIN place' = DOMAIN place /\ place'[q] = i
       /\ \A x \in DOMAIN place : x # q => place'[x] = place[x]
  BY <1>1, <1>3, <1>5, <1>10 DEF TrashTypes
<1>12. \A k : (Thing(k) /\ k \in DOMAIN born') => k \in DOMAIN born BY <1>7, <1>8
<1>13. TrashTypes'
  <2>1. \A x \in DOMAIN place' : Thing(place[x])' BY <1>1, <1>8, <1>9, <1>11 DEF TrashTypes
  <2>2. \A n \in Names : Thing(files[n])' BY <1>1, <1>3, <1>8 DEF TrashTypes
  <2>3. \A r \in Requests : Thing(op[r].item)' BY <1>1, <1>3, <1>8 DEF TrashTypes
  <2>4. \A c \in chosen' : Thing(c)' BY <1>1, <1>3, <1>8 DEF TrashTypes
  <2>5. QED BY <1>1, <1>3, <1>5, <1>6, <1>11, <2>1, <2>2, <2>3, <2>4 DEF TrashTypes
<1>14. AtItsPath'
  <2>1. Placed'
    <3>1. SUFFICES ASSUME NEW x \in DOMAIN place', place'[x] \in DOMAIN born' PROVE born'[place'[x]] = x[1] BY DEF Placed
    <3>2. CASE x = q BY <1>6, <1>10, <1>11, <3>2
    <3>3. CASE x # q
      <4>1. Thing(place[x]) /\ place'[x] = place[x] BY <1>1, <1>11, <3>1, <3>3 DEF TrashTypes
      <4>2. place[x] \in DOMAIN born BY <1>12, <3>1, <4>1
      <4>3. QED BY <1>1, <1>6, <1>11, <3>1, <4>1, <4>2 DEF AtItsPath, Placed
    <3>4. QED BY <3>2, <3>3
  <2>2. \A r \in Requests : PathOf(op[r])'
    <3>1. SUFFICES ASSUME NEW r \in Requests PROVE PathOf(op[r])' OBVIOUS
    <3>2. op'[r] = op[r] /\ Thing(op[r].item) /\ PathOf(op[r]) BY <1>1, <1>3 DEF TrashTypes, AtItsPath
    <3>3. QED BY <1>6, <1>12, <3>2 DEF PathOf
  <2>3. QED BY <2>1, <2>2 DEF AtItsPath
<1>15. Held'
  <2>1. SUFFICES ASSUME NEW r \in Requests PROVE HeldFor(op[r])' BY DEF Held
  <2>2. op'[r] = op[r] /\ HeldFor(op[r]) /\ ShapeOf(op[r]) BY <1>1, <1>3 DEF Held, Shapes
  <2>3. op[r].pc \in PutPcs => Thing(files[op[r].try]) BY <1>1, <2>2 DEF TrashTypes, ShapeOf
  <2>4. QED BY <1>3, <1>12, <2>2, <2>3 DEF HeldFor
<1>16. Shapes' /\ OneCritical' /\ AskedFor' /\ OnePurge'
  BY <1>1, <1>3 DEF Shapes, ShapeOf, OneCritical, AskedFor, AskedOf, OnePurge
<1>17. Orphans' BY <1>1, <1>3 DEF Orphans, OnceEach, Orphan, Orphaned, Away
<1>18. Kept'
  <2>1. \A k : Somewhere(k) /\ k # 0 => Somewhere(k)' BY <1>3, <1>10, <1>11 DEF Somewhere
  <2>2. Somewhere(i)' BY <1>10, <1>11 DEF Somewhere
  <2>3. \A k \in DOMAIN born' : k \in chosen' \/ Somewhere(k)' BY <1>1, <1>3, <1>6, <1>7, <2>1, <2>2 DEF Kept
  <2>4. \A n \in Names : files'[n] \in DOMAIN born' => info'[n].path = born'[files'[n]]
    <3>1. \A n \in Names : Thing(files[n]) BY <1>1 DEF TrashTypes
    <3>2. QED BY <1>1, <1>3, <1>6, <1>12, <3>1 DEF Kept
  <2>5. QED BY <2>3, <2>4 DEF Kept
<1>19. QED BY <1>13, <1>14, <1>15, <1>16, <1>17, <1>18 DEF TrashInv
\* Time passes with nothing being put: the infos only get older.
LEMMA PassTimeKeeps == ASSUME TrashInv, PassTime PROVE TrashInv'
<1>1. /\ TrashTypes /\ Shapes /\ OneCritical /\ AtItsPath /\ Held /\ AskedFor /\ OnePurge /\ Orphans /\ Kept BY DEF TrashInv
<1>2. /\ info' = [n \in Names |-> IF info[n] = NoInfo \/ info[n].age = 2 THEN info[n] ELSE [info[n] EXCEPT !.age = @ + 1]]
      /\ UNCHANGED <<place, files, op, born, chosen, confined>> /\ \A r \in Requests : op[r].kind # "put"
  BY DEF PassTime
<1>3. \A n \in Names : info'[n] \in InfoRec /\ info'[n].path = info[n].path /\ (info[n] # NoInfo => info'[n] # NoInfo)
  <2>1. SUFFICES ASSUME NEW n \in Names PROVE info'[n] \in InfoRec /\ info'[n].path = info[n].path /\ (info[n] # NoInfo => info'[n] # NoInfo)
    OBVIOUS
  <2>2. info[n] \in InfoRec /\ info[n].age \in 0 .. 2 BY <1>1 DEF TrashTypes, InfoRec
  <2>3. CASE info[n] = NoInfo \/ info[n].age = 2 BY <1>2, <2>2, <2>3
  <2>4. CASE ~(info[n] = NoInfo \/ info[n].age = 2)
    <3>1. PICK a : a = info[n].age + 1 OBVIOUS
    <3>2. a \in 0 .. 2 /\ a # 0 BY <2>2, <2>4, <3>1
    <3>3. info'[n] = [info[n] EXCEPT !.age = a] BY <1>2, <2>4, <3>1
    <3>4. info'[n] \in InfoRec /\ info'[n].path = info[n].path /\ info'[n].age = a BY <2>2, <3>2, <3>3 DEF InfoRec
    <3>5. NoInfo.age = 0 BY DEF NoInfo
    <3>6. QED BY <3>2, <3>4, <3>5
  <2>5. QED BY <2>3, <2>4
<1>4. TrashTypes'
  <2>1. info' \in [Names -> InfoRec] BY <1>2, <1>3
  <2>2. QED BY <1>1, <1>2, <2>1 DEF TrashTypes, Thing
<1>5. Held'
  <2>1. \A r \in Requests : op[r].pc \notin PutPcs BY <1>1, <1>2 DEF Shapes, ShapeOf
  <2>2. QED BY <1>1, <1>2, <2>1 DEF Held, HeldFor
<1>6. Shapes' /\ OneCritical' /\ AskedFor' /\ OnePurge' /\ AtItsPath'
  BY <1>1, <1>2 DEF Shapes, ShapeOf, OneCritical, AskedFor, AskedOf, OnePurge, AtItsPath, Placed, PathOf
<1>7. Orphans' BY <1>1, <1>2, <1>3 DEF Orphans, OnceEach, Orphan, Orphaned, Away
<1>8. Kept' BY <1>1, <1>2, <1>3 DEF Kept, Somewhere
<1>9. QED BY <1>4, <1>5, <1>6, <1>7, <1>8 DEF TrashInv
\* The core stops: what the requests were at is lost, and the disk stays.
LEMMA StopCoreKeeps == ASSUME TrashInv, StopCore PROVE TrashInv'
<1>1. TrashTypes /\ AtItsPath /\ Kept BY DEF TrashInv
<1>2. op' = [r \in Requests |-> NoOp] /\ UNCHANGED <<place, files, info, born, chosen, confined>> BY DEF StopCore
<1>3. /\ op' \in [Requests -> OpRec] /\ \A r \in Requests : op'[r] = NoOp BY <1>2, NoOpIs
<1>4. \A r \in Requests : OpFits(r, NoOp) /\ Calm(NoOp) /\ \A n : ~Orphan(NoOp, n) BY <1>1, NoOpFits
<1>5. NoOp.kind = "none" BY DEF NoOp
<1>6. TrashTypes' BY <1>1, <1>2, <1>3, <1>4 DEF TrashTypes, Thing, OpFits
<1>7. Shapes' /\ OneCritical' /\ OnePurge' BY <1>3, <1>4, <1>5 DEF Shapes, OpFits, OneCritical, Calm, OnePurge
<1>8. AskedFor' BY <1>2, <1>3, <1>4 DEF AskedFor, AskedOf, OpFits
<1>9. AtItsPath' BY <1>1, <1>2, <1>3, <1>4 DEF AtItsPath, Placed, PathOf, OpFits
<1>10. Held'
  <2>1. SUFFICES ASSUME NEW r \in Requests PROVE HeldFor(op[r])' BY DEF Held
  <2>2. op'[r].pc = "idle" BY <1>3 DEF NoOp
  <2>3. QED BY <2>2 DEF HeldFor, PutPcs
<1>11. Orphans' BY <1>3, <1>5 DEF Orphans, OnceEach, Orphan
<1>12. Kept' BY <1>1, <1>2 DEF Kept, Somewhere
<1>13. QED BY <1>6, <1>7, <1>8, <1>9, <1>10, <1>11, <1>12 DEF TrashInv
\* A trash that nobody has used yet.
LEMMA TrashStart == ASSUME trashInit PROVE TrashInv
<1>1. /\ place = [q \in Paths \X (0 .. MaxRestored) |-> 0] /\ info = [n \in Names |-> NoInfo] /\ op = [r \in Requests |-> NoOp]
      /\ born = <<>> /\ chosen = {} /\ confined \in BOOLEAN
  BY DEF trashInit
<1>2. files \in [Names -> Nat] /\ \A n \in Names : files[n] = 0 \/ files[n] = Foreign
  <2>1. Foreign \in Nat BY TrashAssumption DEF Foreign
  <2>2. CASE files = [n \in Names |-> 0] BY <2>2
  <2>3. CASE files = [n \in Names |-> IF n = 1 THEN Foreign ELSE 0] BY <2>1, <2>3
  <2>4. QED BY <2>2, <2>3 DEF trashInit
<1>3. born \in Seq(Paths) /\ Len(born) = 0 /\ DOMAIN born = {} /\ MaxItems \in Nat BY <1>1, TrashAssumption
<1>4. Thing(0) /\ Thing(Foreign) BY <1>3 DEF Thing, Foreign
<1>5. op \in [Requests -> OpRec] /\ \A r \in Requests : op[r] = NoOp BY <1>1, NoOpIs
<1>6. NoOp.kind = "none" /\ NoOp.pc = "idle" /\ NoOp.item = 0 BY DEF NoOp
<1>7. NoInfo \in InfoRec BY DEF NoInfo, InfoRec
<1>8. TrashTypes
  <2>1. place \in [Paths \X (0 .. MaxRestored) -> Nat] /\ \A q \in DOMAIN place : place[q] = 0 BY <1>1
  <2>2. info \in [Names -> InfoRec] BY <1>1, <1>7
  <2>3. (\A n \in Names : Thing(files[n])) /\ (\A r \in Requests : Thing(op[r].item)) BY <1>2, <1>4, <1>5, <1>6
  <2>4. Len(born) <= MaxItems BY <1>3
  <2>5. QED BY <1>1, <1>2, <1>3, <1>4, <1>5, <2>1, <2>2, <2>3, <2>4 DEF TrashTypes
<1>9. Shapes /\ OneCritical /\ OnePurge BY <1>5, <1>6 DEF Shapes, ShapeOf, OneCritical, CritPcs, OnePurge, PutPcs, TakePcs
<1>10. AskedFor BY <1>5, <1>6 DEF AskedFor, AskedOf
<1>11. AtItsPath /\ Kept BY <1>3, <1>5, <1>6 DEF AtItsPath, Placed, PathOf, Kept
<1>12. Held BY <1>5, <1>6 DEF Held, HeldFor, PutPcs
<1>13. Orphans BY <1>5, <1>6 DEF Orphans, OnceEach, Orphan
<1>14. QED BY <1>8, <1>9, <1>10, <1>11, <1>12, <1>13 DEF TrashInv
\* Every step of the trash keeps its invariant.
LEMMA TrashStep == ASSUME Swift, TrashInv, trashNext PROVE TrashInv'
<1>1. CASE \E p \in Paths : MakeItem(p) \/ \E r \in Requests : prepare(r, p) BY <1>1, MakeItemKeeps, prepareKeeps
<1>2. CASE \E r \in Requests : PutInfo(r) \/ PutMove(r) \/ PutUndo(r) BY <1>2, PutInfoKeeps, PutMoveKeeps, PutUndoKeeps
<1>3. CASE \E r \in Requests : same(r) \/ Restore(r) \/ remove(r) \/ Uninfo(r) BY <1>3, sameKeeps, RestoreKeeps, removeKeeps, UninfoKeeps
<1>4. CASE \E r \in Requests : Empty(r) \/ Purge(r) \/ NextEntry(r) \/ ListEnds(r) \/ Sweep(r)
  BY <1>4, EmptyKeeps, PurgeKeeps, NextEntryKeeps, ListEndsKeeps, SweepKeeps
<1>5. CASE \E r \in Requests, n \in Names, kind \in {"restore", "delete"} : find(r, kind, n) BY <1>5, findKeeps
<1>6. CASE StopCore \/ PassTime BY <1>6, StopCoreKeeps, PassTimeKeeps
<1>7. QED BY <1>1, <1>2, <1>3, <1>4, <1>5, <1>6 DEF trashNext

\* The names, infos and items of the trash fit what each request knows of them, in every reachable state, when nobody
\* comes between the look at an entry and the call that changes it.
THEOREM TrashInvariant == ASSUME Swift PROVE trashSpec => []TrashInv
<1>1. trashInit => TrashInv BY TrashStart
<1>2. TrashInv /\ [trashNext]_trashVars => TrashInv'
  <2>1. SUFFICES ASSUME TrashInv, [trashNext]_trashVars PROVE TrashInv' OBVIOUS
  <2>2. CASE UNCHANGED trashVars
    <3>1. UNCHANGED <<place, files, info, op, born, chosen, confined>> BY <2>2 DEF trashVars
    <3>2. (TrashTypes /\ Shapes /\ OneCritical)' BY <2>1, <3>1 DEF TrashInv, TrashTypes, Thing, Shapes, ShapeOf, OneCritical
    <3>3. (AtItsPath /\ Held /\ AskedFor)' BY <2>1, <3>1 DEF TrashInv, AtItsPath, Placed, PathOf, Held, HeldFor, AskedFor, AskedOf
    <3>4. (OnePurge /\ Orphans /\ Kept)'
      BY <2>1, <3>1 DEF TrashInv, OnePurge, Orphans, OnceEach, Orphan, Orphaned, Away, Kept, Somewhere
    <3>5. QED BY <3>2, <3>3, <3>4 DEF TrashInv
  <2>3. QED BY <2>1, <2>2, TrashStep
<1>3. QED BY <1>1, <1>2, PTL DEF trashSpec

\* Whatever requests run at once and wherever the core stops, an item that nobody asked to remove is in its place, in
\* the trash or restored, and one in the trash has the info it is listed and restored by (trash_linux.go:393, 561, 600, 644).
THEOREM KeptHolds == ASSUME Swift PROVE trashSpec => []Kept
<1>1. TrashInv => Kept BY DEF TrashInv
<1>2. QED BY <1>1, TrashInvariant, PTL

-------------------------------------------------------------------------------
(* Copies and moves: NothingLost, where an entry that was to be moved is not     *)
(* asked for again.                                                              *)

\* A set of numbers has a least one.
LEMMA HasLeast == ASSUME NEW S \in SUBSET Nat, S # {} PROVE \E m \in S : \A o \in S : m <= o
<1>1. PICK m \in S : \A y \in S : ~(<<y, m>> \in OpToRel(<, Nat)) BY WFMin, NatLessThanWellFounded
<1>2. \A y \in S : ~(y < m) BY <1>1 DEF OpToRel
<1>3. QED BY <1>2

\* What the loop over the queue has kept after its first n entries.
Keeps(w, q, gone, n) ==
    w = [i \in 0 .. n |-> IF i = 0 THEN << >> ELSE IF q[i] \in gone THEN w[i - 1] ELSE Append(w[i - 1], q[i])]

\* The loop can be made over every queue.
LEMMA KeepsExist ==
    ASSUME NEW q, NEW gone, NEW n \in Nat
    PROVE  \E w : Keeps(w, q, gone, n)
<1> DEFINE S == {i \in Nat : ~\E w : Keeps(w, q, gone, i)}
<1> SUFFICES ASSUME S # {} PROVE FALSE OBVIOUS
<1>1. PICK i \in S : \A j \in S : i <= j BY HasLeast
<1>2. i \in Nat /\ ~\E w : Keeps(w, q, gone, i) OBVIOUS
<1>3. CASE i = 0
  <2> DEFINE w == [j \in 0 .. 0 |-> << >>]
  <2>1. w = [j \in 0 .. 0 |-> IF j = 0 THEN << >> ELSE IF q[j] \in gone THEN w[j - 1] ELSE Append(w[j - 1], q[j])] OBVIOUS
  <2>2. QED BY <1>2, <1>3, <2>1 DEF Keeps
<1>4. CASE i > 0
  <2>1. i - 1 \in Nat /\ i - 1 \notin S BY <1>1, <1>2, <1>4
  <2>2. PICK w : Keeps(w, q, gone, i - 1) BY <2>1
  <2> DEFINE new == IF q[i] \in gone THEN w[i - 1] ELSE Append(w[i - 1], q[i])
             x == [j \in 0 .. i |-> IF j = i THEN new ELSE w[j]]
  <2>3. ASSUME NEW j \in 0 .. i PROVE x[j] = IF j = 0 THEN << >> ELSE IF q[j] \in gone THEN x[j - 1] ELSE Append(x[j - 1], q[j])
    <3>1. \A a \in 0 .. i - 1 : w[a] = IF a = 0 THEN << >> ELSE IF q[a] \in gone THEN w[a - 1] ELSE Append(w[a - 1], q[a])
      BY <2>2 DEF Keeps
    <3>2. j # 0 => j - 1 \in 0 .. i /\ j - 1 # i BY <1>2
    <3>3. j # 0 => x[j - 1] = w[j - 1] BY <3>2
    <3>4. CASE j = i BY <1>4, <3>3, <3>4
    <3>5. CASE j # i
      <4>1. j \in 0 .. i - 1 /\ x[j] = w[j] BY <1>2, <3>5
      <4>2. QED BY <3>1, <3>3, <4>1
    <3>6. QED BY <3>4, <3>5
  <2>4. x = [j \in 0 .. i |-> x[j]] OBVIOUS
  <2> HIDE DEF x
  <2>5. x = [j \in 0 .. i |-> IF j = 0 THEN << >> ELSE IF q[j] \in gone THEN x[j - 1] ELSE Append(x[j - 1], q[j])] BY <2>3, <2>4
  <2>6. QED BY <1>2, <2>5 DEF Keeps
<1>5. QED BY <1>2, <1>3, <1>4

\* The numbers of a queue rise.
Rising(q) == \A i, j \in DOMAIN q : i < j => q[i] < q[j]

\* What is kept of a queue whose numbers rise.
LEMMA KeepsIs ==
    ASSUME NEW q \in Seq(Nat), Rising(q), NEW gone, NEW w, Keeps(w, q, gone, Len(q))
    PROVE  \A n \in 0 .. Len(q) : /\ w[n] \in Seq(Nat) /\ Rising(w[n])
                                  /\ Range_(w[n]) = {q[i] : i \in 1 .. n} \ gone
<1> DEFINE Fine(n) == w[n] \in Seq(Nat) /\ Rising(w[n]) /\ Range_(w[n]) = {q[i] : i \in 1 .. n} \ gone
           S == {n \in 0 .. Len(q) : ~Fine(n)}
<1>1. Len(q) \in Nat /\ DOMAIN q = 1 .. Len(q) /\ \A i \in 1 .. Len(q) : q[i] \in Nat OBVIOUS
<1> SUFFICES ASSUME S # {} PROVE FALSE OBVIOUS
<1>2. S \in SUBSET Nat BY <1>1
<1>3. PICK n \in S : \A o \in S : n <= o
  <2> HIDE DEF S
  <2>1. QED BY <1>2, HasLeast
<1>4. n \in 0 .. Len(q) /\ ~Fine(n) OBVIOUS
<1>5. w[n] = IF n = 0 THEN << >> ELSE IF q[n] \in gone THEN w[n - 1] ELSE Append(w[n - 1], q[n]) BY <1>4 DEF Keeps
<1>6. CASE n = 0
  <2>1. w[n] = << >> BY <1>5, <1>6
  <2>2. Range_(w[n]) = {} /\ {q[i] : i \in 1 .. n} = {} BY <2>1, <1>6 DEF Range_
  <2>3. Rising(w[n]) /\ w[n] \in Seq(Nat) BY <2>1 DEF Rising
  <2>4. QED BY <1>4, <2>2, <2>3
<1>7. CASE n # 0
  <2>1. n - 1 \in 0 .. Len(q) /\ n - 1 \notin S
    <3>1. n - 1 \in 0 .. Len(q) /\ ~(n <= n - 1) BY <1>1, <1>4, <1>7
    <3> HIDE DEF S
    <3>2. QED BY <1>3, <3>1
  <2>2. Fine(n - 1) BY <2>1
  <2>3. n \in 1 .. Len(q) /\ 1 .. n = (1 .. n - 1) \cup {n} BY <1>1, <1>4, <1>7
  <2>4. {q[i] : i \in 1 .. n} = {q[i] : i \in 1 .. n - 1} \cup {q[n]} BY <2>3
  <2> DEFINE old == w[n - 1]
  <2>5. old \in Seq(Nat) /\ Rising(old) /\ Range_(old) = {q[i] : i \in 1 .. n - 1} \ gone BY <2>2
  <2> HIDE DEF old
  <2>6. CASE q[n] \in gone
    <3>1. w[n] = old BY <1>5, <1>7, <2>6 DEF old
    <3>2. QED BY <1>4, <2>4, <2>5, <2>6, <3>1
  <2>7. CASE q[n] \notin gone
    <3>1. w[n] = Append(old, q[n]) BY <1>5, <1>7, <2>7 DEF old
    <3>2. q[n] \in Nat BY <1>1, <2>3
    <3>3. /\ w[n] \in Seq(Nat) /\ Len(w[n]) = Len(old) + 1 /\ DOMAIN w[n] = 1 .. Len(old) + 1 /\ DOMAIN old = 1 .. Len(old)
          /\ w[n][Len(old) + 1] = q[n] /\ \A i \in 1 .. Len(old) : w[n][i] = old[i]
      BY <2>5, <3>1, <3>2
    <3>4. Len(old) \in Nat /\ 1 .. Len(old) + 1 = (1 .. Len(old)) \cup {Len(old) + 1} BY <2>5
    <3>5. Range_(w[n]) = Range_(old) \cup {q[n]}
      <4>1. \A i \in DOMAIN w[n] : w[n][i] = IF i = Len(old) + 1 THEN q[n] ELSE old[i] BY <3>3, <3>4
      <4>2. Range_(w[n]) \subseteq Range_(old) \cup {q[n]} BY <3>3, <3>4, <4>1 DEF Range_
      <4>3. Len(old) + 1 \in DOMAIN w[n] /\ \A i \in DOMAIN old : i \in DOMAIN w[n] BY <3>3, <3>4
      <4>4. q[n] \in Range_(w[n]) BY <3>3, <4>3 DEF Range_
      <4>5. ASSUME NEW i \in DOMAIN old PROVE old[i] \in Range_(w[n])
        <5>1. old[i] = w[n][i] /\ i \in DOMAIN w[n] BY <3>3, <4>3
        <5>2. QED BY <5>1 DEF Range_
      <4>6. QED BY <4>2, <4>4, <4>5 DEF Range_
    <3>6. \A i \in 1 .. Len(old) : old[i] < q[n]
      <4>1. SUFFICES ASSUME NEW i \in 1 .. Len(old) PROVE old[i] < q[n] OBVIOUS
      <4>2. old[i] \in Range_(old) BY <3>3 DEF Range_
      <4>3. PICK j \in 1 .. n - 1 : old[i] = q[j] BY <2>5, <4>2
      <4>4. j \in 1 .. Len(q) /\ j < n BY <1>1, <2>3
      <4>5. QED BY <1>1, <2>3, <4>3, <4>4 DEF Rising
    <3>7. Rising(w[n])
      <4>1. SUFFICES ASSUME NEW i \in 1 .. Len(old) + 1, NEW j \in 1 .. Len(old) + 1, i < j PROVE w[n][i] < w[n][j] BY <3>3 DEF Rising
      <4>2. i \in 1 .. Len(old) BY <3>4, <4>1
      <4>6. w[n][i] = old[i] BY <3>3, <4>2
      <4>3. CASE j = Len(old) + 1 BY <3>3, <3>6, <4>2, <4>3, <4>6
      <4>4. CASE j # Len(old) + 1
        <5>1. j \in 1 .. Len(old) /\ w[n][j] = old[j] BY <3>3, <3>4, <4>4
        <5>2. old[i] < old[j] BY <2>5, <3>3, <4>1, <4>2, <5>1 DEF Rising
        <5>3. QED BY <4>6, <5>1, <5>2
      <4>5. QED BY <4>3, <4>4
    <3>8. QED BY <1>4, <2>4, <2>5, <2>7, <3>3, <3>5, <3>7
  <2>8. QED BY <2>6, <2>7
<1>8. QED BY <1>6, <1>7

\* The tasks that stay are those of the queue that do not go.
LEMMA StillWaitingIs ==
    ASSUME queue \in Seq(Nat), Rising(queue), NEW gone
    PROVE  /\ StillWaiting(gone) \in Seq(Nat) /\ Rising(StillWaiting(gone))
           /\ Range_(StillWaiting(gone)) = Range_(queue) \ gone
<1> DEFINE up == CHOOSE w : w = [i \in 0 .. Len(queue) |-> IF i = 0 THEN << >> ELSE IF queue[i] \in gone THEN w[i - 1]
                                                             ELSE Append(w[i - 1], queue[i])]
<1>1. Len(queue) \in Nat OBVIOUS
<1>2. \E w : w = [i \in 0 .. Len(queue) |-> IF i = 0 THEN << >> ELSE IF queue[i] \in gone THEN w[i - 1] ELSE Append(w[i - 1], queue[i])]
  <2>1. \E w : Keeps(w, queue, gone, Len(queue)) BY <1>1, KeepsExist
  <2>2. QED BY <2>1 DEF Keeps
<1>3. up = [i \in 0 .. Len(queue) |-> IF i = 0 THEN << >> ELSE IF queue[i] \in gone THEN up[i - 1] ELSE Append(up[i - 1], queue[i])]
  BY <1>2
<1>4. StillWaiting(gone) = up[Len(queue)] BY DEF StillWaiting
<1> HIDE DEF up
<1>5. Keeps(up, queue, gone, Len(queue)) BY <1>3 DEF Keeps
<1>6. Len(queue) \in 0 .. Len(queue) BY <1>1
<1>7. Range_(queue) = {queue[i] : i \in 1 .. Len(queue)} BY DEF Range_
<1>8. \A n \in 0 .. Len(queue) : up[n] \in Seq(Nat) /\ Rising(up[n]) /\ Range_(up[n]) = {queue[i] : i \in 1 .. n} \ gone
  BY <1>5, KeepsIs
<1>9. QED BY <1>4, <1>6, <1>7, <1>8

-------------------------------------------------------------------------------
\* The targets, what is at one, and an operation at work.
Targets == Sources \X {f.name : f \in Folders}
Lefts == {"whole", "part", "gone"}
Rests == {"none", "other", "part", "whole", "gone"}
Steps == {"next", "move", "copy", "rename", "copying", "part", "whole", "cut"}
WorkRec == [pc : Steps, items : SUBSET Sources, at : Sources \cup {""}, existed : BOOLEAN, error : BOOLEAN]

TaskTypes ==
    /\ source \in [Sources -> Lefts] /\ copied \in [Targets -> Rests]
    /\ wanted \in Seq(Asked) /\ queue \in Seq(Nat) /\ starts \in Nat /\ reporters \in Nat /\ failuresLeft \in Nat
    /\ tasks = [k \in DOMAIN tasks |-> tasks[k]] /\ DOMAIN tasks \subseteq DOMAIN wanted
    /\ \A k \in DOMAIN tasks : tasks[k] \in [task : Asked, finished : BOOLEAN, error : BOOLEAN] /\ tasks[k].task = wanted[k]
    /\ running \in [Running -> {"on", "cancelled"}] /\ Running \subseteq DOMAIN wanted
    /\ work \in [Running -> WorkRec]

\* Tasks are run in the order in which they were asked for, one at a time.
InOrder ==
    /\ Rising(queue) /\ Range_(queue) = DOMAIN tasks
    /\ \A k, o \in Running : k = o
    /\ \A k \in Running, o \in DOMAIN tasks : k <= o

\* The queue never stands.
Going == queue # << >> => reporters > 0 /\ (Running # {} \/ starts > 0 \/ tasks[Head(queue)].finished)

\* What was to be moved is not asked for again.
AskedOnce == \A i, j \in DOMAIN wanted : i < j /\ wanted[i].kind = "move" => wanted[i].items \cap wanted[j].items = {}

\* What an operation has in hand: the source is removed only when the target is whole.
InHand(k, w) ==
    /\ w.items \subseteq wanted[k].items
    /\ w.pc # "next" => w.at \in wanted[k].items \ w.items
    /\ w.pc \in {"move", "rename"} => wanted[k].kind = "move"
    /\ w.pc = "copy" => wanted[k].kind = "copy"
    /\ wanted[k].kind = "move" =>
          /\ w.pc = "move" /\ ~w.existed => copied[TargetOf(wanted[k], w.at)] = "none"
          /\ w.pc \in {"rename", "copying"} => copied[TargetOf(wanted[k], w.at)] = "none"
          /\ w.pc = "whole" => copied[TargetOf(wanted[k], w.at)] = "whole"
AllInHand == \A k \in Running : InHand(k, work[k])

\* The move that took a source: every task that was asked for before it is over, and it will not come
\* to that source again.
TakenBy(s, m) ==
    /\ wanted[m].kind = "move" /\ s \in wanted[m].items
    /\ \A k \in DOMAIN tasks : m < k \/ (k = m /\ (m \in Running \/ tasks[m].finished))
    /\ \A k \in Running : m < k \/ (k = m /\ s \notin work[k].items /\ (work[k].pc # "next" => work[k].at # s))
Moved ==
    \A s \in Sources : source[s] # "whole" =>
       /\ \E f \in Folders : copied[<<s, f.name>>] = "whole"
       /\ \E m \in DOMAIN wanted : TakenBy(s, m)

TaskInv == TaskTypes /\ InOrder /\ Going /\ AskedOnce /\ AllInHand /\ Moved

\* It gives what is promised.
LEMMA TaskInvGives ==
    ASSUME TaskInv
    PROVE  NothingLost
<1>1. Cardinality(Running) <= 1
  <2>1. CASE Running = {} BY <2>1, FS_EmptySet
  <2>2. CASE Running # {}
    <3>1. PICK k \in Running : TRUE BY <2>2
    <3>2. Running = {k} BY <3>1 DEF TaskInv, InOrder
    <3>3. QED BY <3>2, FS_Singleton
  <2>3. QED BY <2>1, <2>2
<1>2. \A s \in Sources : Whole(s) BY DEF TaskInv, Moved, Whole
<1>3. QED BY <1>1, <1>2 DEF TaskInv, InOrder, Going, NothingLost

\* It holds at first: nothing was asked for.
LEMMA TasksStart ==
    ASSUME taskInit
    PROVE  TaskInv
<1>1. running = << >> /\ work = << >> /\ tasks = << >> /\ wanted = << >> /\ queue = << >> BY DEF taskInit
<1>2. DOMAIN << >> = {} OBVIOUS
<1>3. Running = {} /\ DOMAIN tasks = {} /\ DOMAIN wanted = {} BY <1>1, <1>2 DEF Running
<1>4. source \in [Sources -> Lefts] /\ copied \in [Targets -> Rests] BY DEF taskInit, Lefts, Rests, Targets
<1>5. << >> = [k \in {} |-> 0] OBVIOUS
<1>6. running \in [Running -> {"on", "cancelled"}] /\ work \in [Running -> WorkRec] /\ tasks = [k \in DOMAIN tasks |-> tasks[k]] BY <1>1, <1>3, <1>5
<1>7. TaskTypes BY <1>1, <1>3, <1>4, <1>6, FileTasksAssumption DEF TaskTypes, taskInit
<1>8. InOrder BY <1>1, <1>3 DEF InOrder, Rising, Range_
<1>9. Moved BY DEF taskInit, Moved
<1>10. QED BY <1>1, <1>3, <1>7, <1>8, <1>9 DEF TaskInv, Going, AskedOnce, AllInHand

\* An operation that runs is of a task that was asked for.
LEMMA RunningIs ==
    ASSUME TaskTypes, NEW k \in Running
    PROVE  /\ k \in DOMAIN wanted /\ wanted[k] \in Asked /\ work[k] \in WorkRec /\ k \in Nat /\ DOMAIN wanted \subseteq Nat
           /\ wanted[k].items \subseteq Sources /\ wanted[k].to \in Folders /\ wanted[k].kind \in {"copy", "move"}
           /\ \A s \in Sources : TargetOf(wanted[k], s) \in Targets
<1>1. k \in DOMAIN wanted /\ wanted[k] \in Asked BY DEF TaskTypes
<1>2. work[k] \in WorkRec BY DEF TaskTypes
<1>3. DOMAIN wanted \subseteq Nat BY DEF TaskTypes
<1>4. wanted[k].items \subseteq Sources /\ wanted[k].to \in Folders /\ wanted[k].kind \in {"copy", "move"} BY <1>1, FileTasksAssumption
<1>5. \A s \in Sources : TargetOf(wanted[k], s) \in Targets BY <1>4 DEF TargetOf, Targets
<1>6. QED BY <1>1, <1>2, <1>3, <1>4, <1>5

\* A source that an operation has yet to come to, or has in hand, is whole.
LEMMA InHandWhole ==
    ASSUME TaskInv, NEW k \in Running
    PROVE  /\ \A s \in work[k].items : source[s] = "whole"
           /\ work[k].pc # "next" => work[k].at \in Sources /\ source[work[k].at] = "whole"
<1>1. k \in DOMAIN wanted /\ k \in Nat /\ DOMAIN wanted \subseteq Nat BY RunningIs DEF TaskInv
<1>2. wanted[k].items \subseteq Sources BY RunningIs DEF TaskInv
<1>3. ASSUME NEW s \in Sources, s \in wanted[k].items, source[s] # "whole"
      PROVE  s \notin work[k].items /\ (work[k].pc # "next" => work[k].at # s)
  <2>1. PICK m \in DOMAIN wanted : TakenBy(s, m) BY <1>3 DEF TaskInv, Moved
  <2>2. ~(m < k) BY <1>1, <1>3, <2>1 DEF TaskInv, AskedOnce, TakenBy
  <2>3. QED BY <2>1, <2>2 DEF TakenBy
<1>4. work[k].items \subseteq wanted[k].items /\ (work[k].pc # "next" => work[k].at \in wanted[k].items) BY DEF TaskInv, AllInHand, InHand
<1>5. QED BY <1>2, <1>3, <1>4

\* A step of an operation on what it has in hand.
LEMMA ItemKeeps ==
    ASSUME TaskInv, NEW k \in Running, Queue, failuresLeft' \in Nat, NEW w \in WorkRec, work' = [work EXCEPT ![k] = w],
           source' \in [Sources -> Lefts], copied' \in [Targets -> Rests],
           \A s \in Sources : work[k].pc = "next" \/ s # work[k].at => source'[s] = source[s] /\ \A f \in Folders : copied'[<<s, f.name>>] = copied[<<s, f.name>>],
           w.items \subseteq work[k].items,
           w.pc # "next" => w.at \notin w.items /\ (w.at \in work[k].items \/ (work[k].pc # "next" /\ w.at = work[k].at)),
           InHand(k, work[k])',
           work[k].pc # "next" /\ source'[work[k].at] # "whole" =>
              /\ w.pc = "next" /\ wanted[k].kind = "move" /\ copied'[<<work[k].at, wanted[k].to.name>>] = "whole"
    PROVE  TaskInv'
<1> USE DEF TaskInv
<1>1. UNCHANGED <<wanted, queue, tasks, running, starts, reporters>> /\ Running' = Running BY DEF Queue, Running
<1>2. work'[k] = w /\ work' \in [Running -> WorkRec] /\ \A o \in Running : o = k BY DEF TaskTypes, InOrder
<1>3. TaskTypes' BY <1>1, <1>2 DEF TaskTypes
<1>4. InOrder' /\ Going' /\ AskedOnce' BY <1>1 DEF InOrder, Going, AskedOnce
<1>5. AllInHand' BY <1>1, <1>2 DEF AllInHand
<1>6. k \in DOMAIN wanted /\ k \in Nat /\ DOMAIN wanted \subseteq Nat BY RunningIs
<1>7. wanted[k].items \subseteq Sources /\ wanted[k].to \in Folders BY RunningIs
<1>8. Moved'
  <2>1. SUFFICES ASSUME NEW s \in Sources, source'[s] # "whole"
                 PROVE  (\E f \in Folders : copied'[<<s, f.name>>] = "whole") /\ \E m \in DOMAIN wanted : TakenBy(s, m)'
    BY <1>1 DEF Moved
  <2>2. CASE source[s] # "whole"
    <3>1. PICK f \in Folders : copied[<<s, f.name>>] = "whole" BY <2>2 DEF Moved
    <3>2. PICK m \in DOMAIN wanted : TakenBy(s, m) BY <2>2 DEF Moved
    <3>3. work[k].pc = "next" \/ s # work[k].at BY <2>2, InHandWhole
    <3>4. copied'[<<s, f.name>>] = "whole" BY <3>1, <3>3
    <3>5. s \notin work[k].items BY <2>2, InHandWhole
    <3>6. s \notin w.items /\ (w.pc # "next" => w.at # s) BY <3>3, <3>5
    <3>7. TakenBy(s, m)' BY <1>1, <1>2, <3>2, <3>6 DEF TakenBy
    <3>8. QED BY <3>4, <3>7
  <2>3. CASE source[s] = "whole"
    <3>1. work[k].pc # "next" /\ s = work[k].at BY <2>1, <2>3
    <3>2. w.pc = "next" /\ wanted[k].kind = "move" /\ copied'[<<s, wanted[k].to.name>>] = "whole" BY <2>1, <3>1
    <3>3. s \in wanted[k].items /\ s \notin work[k].items BY <3>1 DEF AllInHand, InHand
    <3>4. \A o \in DOMAIN tasks : k < o \/ k = o
      <4>1. \A o \in DOMAIN tasks : o \in Nat /\ k <= o BY <1>6 DEF InOrder, TaskTypes
      <4>2. \A i, j \in Nat : i <= j => i < j \/ i = j OBVIOUS
      <4>3. QED BY <1>6, <4>1, <4>2
    <3>5. TakenBy(s, k)' BY <1>1, <1>2, <3>2, <3>3, <3>4 DEF TakenBy
    <3>6. QED BY <1>6, <1>7, <3>2, <3>5
  <2>4. QED BY <2>2, <2>3
<1>9. QED BY <1>3, <1>4, <1>5, <1>8

\* An operation goes on with what it has in hand: its place in the code, what is at the target and what
\* is left of the source.
ItemGoes(k, pc, e, x, y) ==
    /\ work[k].pc # "next" /\ Queue /\ failuresLeft' \in Nat
    /\ work' = [work EXCEPT ![k] = [work[k] EXCEPT !.pc = pc, !.error = e]]
    /\ copied' = [copied EXCEPT ![TargetOf(wanted[k], work[k].at)] = x] /\ source' = [source EXCEPT ![work[k].at] = y]
    /\ y # "whole" => pc = "next" /\ wanted[k].kind = "move" /\ x = "whole"
    /\ pc \notin {"move", "copy"} /\ (pc = "rename" => wanted[k].kind = "move")
    /\ wanted[k].kind = "move" => (pc \in {"rename", "copying"} => x = "none") /\ (pc = "whole" => x = "whole")

\* A step on the item in hand, which takes its source away only once the target is whole.
LEMMA ItemGoesOn ==
    ASSUME TaskInv, NEW k \in Running, NEW pc \in Steps, NEW e \in BOOLEAN, NEW x \in Rests, NEW y \in Lefts, ItemGoes(k, pc, e, x, y)
    PROVE  TaskInv'
<1> DEFINE a == work[k]
           here == TargetOf(wanted[k], a.at)
           w == [a EXCEPT !.pc = pc, !.error = e]
<1>1. source \in [Sources -> Lefts] /\ copied \in [Targets -> Rests] /\ work \in [Running -> WorkRec] /\ a \in WorkRec BY DEF TaskInv, TaskTypes
<1>2. InHand(k, a) BY DEF TaskInv, AllInHand
<1>3. a.pc # "next" /\ Queue /\ failuresLeft' \in Nat BY DEF ItemGoes
<1>4. a.at \in Sources /\ here \in Targets /\ a.at \in wanted[k].items \ a.items /\ a.items \subseteq wanted[k].items
  BY <1>2, <1>3, InHandWhole, RunningIs DEF InHand, TaskInv
<1>5. w \in WorkRec /\ w.pc = pc /\ w.at = a.at /\ w.items = a.items BY <1>1 DEF WorkRec
<1>6. work' = [work EXCEPT ![k] = w] BY DEF ItemGoes
<1> HIDE DEF w, here
<1>7. work'[k] = w BY <1>1, <1>6
<1>8. copied' = [copied EXCEPT ![here] = x] /\ source' = [source EXCEPT ![a.at] = y] BY DEF ItemGoes, here
<1>9. source' \in [Sources -> Lefts] /\ copied' \in [Targets -> Rests] /\ source'[a.at] = y /\ copied'[here] = x BY <1>1, <1>4, <1>8
<1>10. \A s \in Sources : s # a.at => source'[s] = source[s] BY <1>1, <1>8
<1>11. ASSUME NEW s \in Sources, s # a.at, NEW f \in Folders PROVE copied'[<<s, f.name>>] = copied[<<s, f.name>>]
  <2>1. <<s, f.name>> \in Targets BY DEF Targets
  <2>2. <<s, f.name>> # here BY <1>11 DEF here, TargetOf
  <2>3. QED BY <1>1, <1>8, <2>1, <2>2
<1>12. wanted' = wanted BY <1>3 DEF Queue
<1>13. InHand(k, work[k])'
  <2>1. here' = TargetOf(wanted[k], w.at) /\ copied'[TargetOf(wanted[k], w.at)] = x BY <1>5, <1>7, <1>9, <1>12 DEF here
  <2>2. QED BY <1>4, <1>5, <1>7, <1>12, <2>1 DEF InHand, ItemGoes
<1>14. copied'[<<a.at, wanted[k].to.name>>] = x BY <1>9 DEF TargetOf, here
<1>15. y # "whole" => w.pc = "next" /\ wanted[k].kind = "move" /\ x = "whole" BY <1>5 DEF ItemGoes
<1>16. QED BY <1>3, <1>4, <1>5, <1>6, <1>9, <1>10, <1>11, <1>13, <1>14, <1>15, ItemKeeps

\* The steps of an operation on an item.
LEMMA ItemSteps ==
    ASSUME TaskInv, NEW k \in Running,
           NextItem(k) \/ moveItem(k) \/ rename(k) \/ copyItem(k) \/ copyDir(k) \/ copyEnds(k) \/ removeSource(k) \/ copied_(k) \/ dropHalf(k)
    PROVE  TaskInv'
<1> DEFINE a == work[k]
           here == TargetOf(wanted[k], a.at)
           goes(pc, e, x, y) == ItemGoes(k, pc, e, x, y)
<1>1. /\ k \in DOMAIN wanted /\ wanted[k] \in Asked /\ a \in WorkRec /\ wanted[k].items \subseteq Sources /\ wanted[k].to \in Folders
      /\ wanted[k].kind \in {"copy", "move"} /\ \A s \in Sources : TargetOf(wanted[k], s) \in Targets
  BY RunningIs DEF TaskInv
<1>2. /\ source \in [Sources -> Lefts] /\ copied \in [Targets -> Rests] /\ failuresLeft \in Nat /\ work \in [Running -> WorkRec] BY DEF TaskInv, TaskTypes
<1>3. InHand(k, a) BY DEF TaskInv, AllInHand
<1>4. a.pc # "next" => a.at \in Sources /\ source[a.at] = "whole" /\ here \in Targets
  BY <1>1, InHandWhole
<1>5. Fails => failuresLeft' \in Nat BY <1>2 DEF Fails
<1>6. UNCHANGED failuresLeft => failuresLeft' \in Nat BY <1>2
<1>7. UNCHANGED copied => copied' = [copied EXCEPT ![here] = copied[here]] BY <1>2
<1>8. UNCHANGED source /\ a.pc # "next" => source' = [source EXCEPT ![a.at] = "whole"] BY <1>2, <1>4
<1>9. \A pc : Step(k, pc) => work' = [work EXCEPT ![k] = [a EXCEPT !.pc = pc, !.error = a.error]]
  <2>1. \A pc : [a EXCEPT !.pc = pc] = [a EXCEPT !.pc = pc, !.error = a.error] BY <1>1 DEF WorkRec
  <2>2. \A pc : [work EXCEPT ![k].pc = pc] = [work EXCEPT ![k] = [a EXCEPT !.pc = pc]] BY <1>2
  <2>3. QED BY <2>1, <2>2 DEF Step
<1>10. a.error \in BOOLEAN BY <1>1 DEF WorkRec
<1>11. ItemFails(k) => \E e \in BOOLEAN : work' = [work EXCEPT ![k] = [a EXCEPT !.pc = "next", !.error = e]]
  <2>1. (a.error \/ Live(k)) \in BOOLEAN OBVIOUS
  <2>2. QED BY <1>2, <2>1 DEF ItemFails
<1>12. a.pc # "next" => copied[here] \in Rests BY <1>2, <1>4
<1>13. \A s \in {"next", "move", "copy", "rename", "copying", "part", "whole", "cut"} : s \in Steps BY DEF Steps
<1>14. "none" \in Rests /\ "part" \in Rests /\ "whole" \in Rests /\ "gone" \in Lefts /\ "part" \in Lefts /\ "whole" \in Lefts BY DEF Rests, Lefts
<1>15. Op(k) = wanted[k] /\ Here(k) = here BY DEF Op, Here
<1>16. \A pc \in Steps, e \in BOOLEAN, x \in Rests, y \in Lefts : goes(pc, e, x, y) => TaskInv' BY ItemGoesOn
<1>17. ASSUME NEW pc, NEW e, NEW x, NEW y, a.pc # "next", Queue, failuresLeft' \in Nat,
              work' = [work EXCEPT ![k] = [a EXCEPT !.pc = pc, !.error = e]],
              copied' = [copied EXCEPT ![here] = x], source' = [source EXCEPT ![a.at] = y],
              y # "whole" => pc = "next" /\ wanted[k].kind = "move" /\ x = "whole",
              pc \notin {"move", "copy"}, pc = "rename" => wanted[k].kind = "move",
              wanted[k].kind = "move" => (pc \in {"rename", "copying"} => x = "none") /\ (pc = "whole" => x = "whole")
       PROVE  goes(pc, e, x, y)
  BY <1>17 DEF ItemGoes
<1> HIDE DEF a, here, goes
<1>20. CASE moveItem(k)
  <2>1. a.pc = "move" /\ wanted[k].kind = "move" /\ source' = source /\ Queue BY <1>20, <1>3 DEF moveItem, WorkAt, InHand, a
  <2>2. ~a.existed => copied[here] = "none" BY <1>3, <2>1 DEF InHand, here
  <2>3. CASE ~a.existed /\ Step(k, "rename") /\ UNCHANGED <<copied, failuresLeft>>
    <3>1. goes("rename", a.error, copied[here], "whole") BY <1>6, <1>7, <1>8, <1>9, <1>17, <2>1, <2>2, <2>3
    <3>2. QED BY <1>10, <1>12, <1>13, <1>14, <1>16, <2>1, <3>1
  <2>4. CASE ItemDone(k) /\ UNCHANGED <<copied, failuresLeft>>
    <3>1. goes("next", a.error, copied[here], "whole") BY <1>6, <1>7, <1>8, <1>9, <1>17, <2>1, <2>4 DEF ItemDone
    <3>2. QED BY <1>10, <1>12, <1>13, <1>14, <1>16, <2>1, <3>1
  <2>5. CASE copied' = [copied EXCEPT ![here] = "none"] /\ Step(k, "rename") /\ UNCHANGED failuresLeft
    <3>1. goes("rename", a.error, "none", "whole") BY <1>6, <1>8, <1>9, <1>17, <2>1, <2>5
    <3>2. QED BY <1>10, <1>13, <1>14, <1>16, <3>1
  <2>6. CASE Fails /\ ItemFails(k) /\ UNCHANGED copied
    <3>1. PICK e \in BOOLEAN : work' = [work EXCEPT ![k] = [a EXCEPT !.pc = "next", !.error = e]] BY <1>11, <2>6
    <3>2. goes("next", e, copied[here], "whole") BY <1>5, <1>7, <1>8, <1>17, <2>1, <2>6, <3>1
    <3>3. QED BY <1>12, <1>13, <1>14, <1>16, <2>1, <3>2
  <2>7. QED BY <1>15, <1>20, <2>3, <2>4, <2>5, <2>6 DEF moveItem, a
<1>21. CASE rename(k)
  <2>1. a.pc = "rename" /\ wanted[k].kind = "move" /\ Queue /\ copied[here] = "none" BY <1>21, <1>3 DEF rename, WorkAt, InHand, a, here
  <2>2. source[a.at] # "gone" BY <1>4, <2>1
  <2>3. CASE copied' = [copied EXCEPT ![here] = source[a.at]] /\ source' = [source EXCEPT ![a.at] = "gone"] /\ ItemDone(k) /\ UNCHANGED failuresLeft
    <3>1. goes("next", a.error, "whole", "gone") BY <1>4, <1>6, <1>9, <1>17, <2>1, <2>3 DEF ItemDone
    <3>2. QED BY <1>10, <1>13, <1>14, <1>16, <3>1
  <2>4. CASE Step(k, "copying") /\ UNCHANGED <<source, copied, failuresLeft>>
    <3>1. goes("copying", a.error, copied[here], "whole") BY <1>6, <1>7, <1>8, <1>9, <1>17, <2>1, <2>4
    <3>2. QED BY <1>10, <1>12, <1>13, <1>14, <1>16, <2>1, <3>1
  <2>5. CASE Fails /\ ItemFails(k) /\ UNCHANGED <<source, copied>>
    <3>1. PICK e \in BOOLEAN : work' = [work EXCEPT ![k] = [a EXCEPT !.pc = "next", !.error = e]] BY <1>11, <2>5
    <3>2. goes("next", e, copied[here], "whole") BY <1>5, <1>7, <1>8, <1>17, <2>1, <2>5, <3>1
    <3>3. QED BY <1>12, <1>13, <1>14, <1>16, <2>1, <3>2
  <2>6. QED BY <1>15, <1>21, <2>2, <2>3, <2>4, <2>5 DEF rename, a
<1>22. CASE copyItem(k)
  <2>1. a.pc = "copy" /\ Queue /\ Step(k, "copying") /\ UNCHANGED <<source, copied, failuresLeft>> BY <1>22 DEF copyItem, WorkAt, a
  <2>2. wanted[k].kind # "move" BY <1>3, <2>1 DEF InHand
  <2>3. goes("copying", a.error, copied[here], "whole") BY <1>6, <1>7, <1>8, <1>9, <1>17, <2>1, <2>2
  <2>4. QED BY <1>10, <1>12, <1>13, <1>14, <1>16, <2>1, <2>3
<1>23. CASE copyDir(k)
  <2>1. a.pc = "copying" /\ Queue /\ UNCHANGED <<source, failuresLeft>> /\ (wanted[k].kind = "move" => copied[here] = "none")
    BY <1>23, <1>3 DEF copyDir, WorkAt, InHand, a, here
  <2>2. source[a.at] # "gone" BY <1>4, <2>1
  <2>3. CASE Skips(k) /\ Step(k, "whole") /\ UNCHANGED copied
    <3>1. wanted[k].kind # "move" BY <1>15, <2>1, <2>3 DEF Skips
    <3>2. goes("whole", a.error, copied[here], "whole") BY <1>6, <1>7, <1>8, <1>9, <1>17, <2>1, <2>3, <3>1
    <3>3. QED BY <1>10, <1>12, <1>13, <1>14, <1>16, <2>1, <3>2
  <2>4. CASE copied' = [copied EXCEPT ![here] = "part"] /\ Step(k, "part")
    <3>1. goes("part", a.error, "part", "whole") BY <1>6, <1>8, <1>9, <1>17, <2>1, <2>4
    <3>2. QED BY <1>10, <1>13, <1>14, <1>16, <3>1
  <2>5. QED BY <1>15, <1>23, <2>2, <2>3, <2>4 DEF copyDir, a
<1>24. CASE copyEnds(k)
  <2>1. a.pc = "part" /\ Queue /\ UNCHANGED source BY <1>24 DEF copyEnds, WorkAt, a
  <2>2. CASE Step(k, "whole") /\ copied' = [copied EXCEPT ![here] = source[a.at]] /\ UNCHANGED failuresLeft
    <3>1. goes("whole", a.error, "whole", "whole") BY <1>4, <1>6, <1>8, <1>9, <1>17, <2>1, <2>2
    <3>2. QED BY <1>10, <1>13, <1>14, <1>16, <3>1
  <2>3. CASE Step(k, "cut") /\ UNCHANGED copied /\ (Fails \/ UNCHANGED failuresLeft)
    <3>1. goes("cut", a.error, copied[here], "whole") BY <1>5, <1>6, <1>7, <1>8, <1>9, <1>17, <2>1, <2>3
    <3>2. QED BY <1>10, <1>12, <1>13, <1>14, <1>16, <2>1, <3>1
  <2>4. QED BY <1>15, <1>24, <2>2, <2>3 DEF copyEnds, a
<1>25. CASE removeSource(k)
  <2>1. a.pc = "whole" /\ wanted[k].kind = "move" /\ Queue /\ UNCHANGED copied /\ copied[here] = "whole"
    BY <1>25, <1>3 DEF removeSource, WorkAt, InHand, Op, a, here
  <2>2. CASE source' = [source EXCEPT ![a.at] = "gone"] /\ ItemDone(k) /\ UNCHANGED failuresLeft
    <3>1. goes("next", a.error, "whole", "gone") BY <1>6, <1>7, <1>9, <1>17, <2>1, <2>2 DEF ItemDone
    <3>2. QED BY <1>10, <1>13, <1>14, <1>16, <3>1
  <2>3. CASE source' = [source EXCEPT ![a.at] = "part"] /\ ItemFails(k) /\ Fails
    <3>1. PICK e \in BOOLEAN : work' = [work EXCEPT ![k] = [a EXCEPT !.pc = "next", !.error = e]] BY <1>11, <2>3
    <3>2. goes("next", e, "whole", "part") BY <1>5, <1>7, <1>17, <2>1, <2>3, <3>1
    <3>3. QED BY <1>13, <1>14, <1>16, <3>2
  <2>4. QED BY <1>25, <2>2, <2>3 DEF removeSource, a
<1>26. CASE copied_(k)
  <2>1. a.pc = "whole" /\ Queue /\ ItemDone(k) /\ UNCHANGED <<source, copied, failuresLeft>> BY <1>26 DEF copied_, WorkAt, a
  <2>2. goes("next", a.error, copied[here], "whole") BY <1>6, <1>7, <1>8, <1>9, <1>17, <2>1 DEF ItemDone
  <2>3. QED BY <1>10, <1>12, <1>13, <1>14, <1>16, <2>1, <2>2
<1>27. CASE dropHalf(k)
  <2>1. a.pc = "cut" /\ Queue /\ ItemFails(k) /\ UNCHANGED <<source, failuresLeft>> /\ (copied' = copied \/ copied' = [copied EXCEPT ![here] = "none"])
    BY <1>15, <1>27 DEF dropHalf, WorkAt, a
  <2>2. PICK e \in BOOLEAN : work' = [work EXCEPT ![k] = [a EXCEPT !.pc = "next", !.error = e]] BY <1>11, <2>1
  <2>3. CASE copied' = copied
    <3>1. goes("next", e, copied[here], "whole") BY <1>6, <1>7, <1>8, <1>17, <2>1, <2>2, <2>3
    <3>2. QED BY <1>12, <1>13, <1>14, <1>16, <2>1, <3>1
  <2>4. CASE copied' = [copied EXCEPT ![here] = "none"]
    <3>1. goes("next", e, "none", "whole") BY <1>6, <1>8, <1>17, <2>1, <2>2, <2>4
    <3>2. QED BY <1>13, <1>14, <1>16, <3>1
  <2>5. QED BY <2>1, <2>3, <2>4
<1>28. CASE NextItem(k)
  <2>1. a.pc = "next" /\ Queue /\ UNCHANGED <<source, copied, failuresLeft>> BY <1>28 DEF NextItem, WorkAt, a
  <2>2. PICK s \in a.items : work' = [work EXCEPT ![k].items = @ \ {s}, ![k].at = s, ![k].pc = Op(k).kind, ![k].existed = copied[TargetOf(Op(k), s)] # "none"]
    BY <1>28 DEF NextItem, a
  <2> DEFINE w == [a EXCEPT !.items = @ \ {s}, !.at = s, !.pc = wanted[k].kind, !.existed = copied[TargetOf(wanted[k], s)] # "none"]
  <2>3. work' = [work EXCEPT ![k] = w] /\ work'[k] = w BY <1>2, <1>15, <2>2 DEF a
  <2>4. s \in Sources /\ wanted[k].kind \in Steps /\ a \in WorkRec BY <1>1, <1>13 DEF WorkRec
  <2>5. (copied[TargetOf(wanted[k], s)] # "none") \in BOOLEAN /\ a.items \ {s} \in SUBSET Sources BY <1>1 DEF WorkRec
  <2>6. w \in WorkRec /\ w.items = a.items \ {s} /\ w.at = s /\ w.pc = wanted[k].kind /\ w.existed = (copied[TargetOf(wanted[k], s)] # "none")
    BY <2>4, <2>5 DEF WorkRec
  <2> HIDE DEF w
  <2>7. wanted' = wanted BY <2>1 DEF Queue
  <2>8. w.pc \notin {"next", "rename", "copying", "whole"} /\ w.pc = wanted[k].kind BY <1>1, <2>6
  <2>9. s \in wanted[k].items \ w.items /\ w.items \subseteq wanted[k].items BY <1>3, <2>6 DEF InHand
  <2>10. InHand(k, work[k])' BY <2>1, <2>3, <2>6, <2>7, <2>8, <2>9 DEF InHand
  <2>11. QED BY <1>2, <2>1, <2>3, <2>6, <2>10, ItemKeeps DEF a
<1>29. QED BY <1>20, <1>21, <1>22, <1>23, <1>24, <1>25, <1>26, <1>27, <1>28

\* The queue when tasks leave it: another head is started.
LEMMA TakenOut ==
    ASSUME TaskInv, NEW gone, TakeOut(gone), UNCHANGED <<source, copied, wanted, work, progress, failuresLeft>>,
           running' \in [Running -> {"on", "cancelled"}], reporters' = reporters
    PROVE  TaskInv'
<1> USE DEF TaskInv
<1>1. Running' = Running BY DEF Running
<1>2. DOMAIN tasks' = DOMAIN tasks \ gone /\ \A k \in DOMAIN tasks' : tasks'[k] = tasks[k] BY DEF TakeOut, Without
<1>3. tasks' = [k \in DOMAIN tasks' |-> tasks'[k]] BY DEF TakeOut, Without
<1>4. queue \in Seq(Nat) /\ Rising(queue) /\ Range_(queue) = DOMAIN tasks /\ starts \in Nat /\ reporters \in Nat BY DEF TaskTypes, InOrder
<1>5. queue' = StillWaiting(gone) BY DEF TakeOut
<1>6. queue' \in Seq(Nat) /\ Rising(queue') /\ Range_(queue') = Range_(queue) \ gone BY <1>4, <1>5, StillWaitingIs
<1>7. starts' \in Nat BY <1>4 DEF TakeOut, Begins
<1>8. TaskTypes' BY <1>1, <1>2, <1>3, <1>6, <1>7 DEF TaskTypes
<1>9. InOrder'
  <2>1. Range_(queue') = DOMAIN tasks' BY <1>2, <1>4, <1>6
  <2>2. Range_(queue)' = Range_(queue') /\ Rising(queue)' = Rising(queue') BY DEF Range_, Rising
  <2>3. QED BY <1>1, <1>2, <1>6, <2>1, <2>2 DEF InOrder
<1>10. Going'
  <2>1. SUFFICES ASSUME queue' # << >> PROVE reporters' > 0 /\ (Running' # {} \/ starts' > 0 \/ tasks'[Head(queue')].finished)
    BY DEF Going
  <2>2. Len(queue') \in Nat \ {0} /\ Head(queue') = queue'[1] /\ 1 \in DOMAIN queue' BY <1>6, <2>1
  <2>3. queue'[1] \in Range_(queue') BY <2>2 DEF Range_
  <2>4. queue'[1] \in Range_(queue) /\ queue'[1] \in DOMAIN tasks' BY <1>2, <1>4, <1>6, <2>3
  <2>5. queue # << >> BY <2>4 DEF Range_
  <2>6. Head(queue) = queue[1] BY <1>4, <2>5
  <2>7. CASE queue'[1] = queue[1]
    <3>1. starts' = starts BY <2>7 DEF TakeOut
    <3>2. tasks'[queue'[1]] = tasks[queue[1]] BY <1>2, <2>4, <2>7
    <3>3. QED BY <1>1, <2>2, <2>5, <2>6, <3>1, <3>2 DEF Going
  <2>8. CASE queue'[1] # queue[1]
    <3>1. starts' = starts + 1 BY <2>1, <2>8 DEF TakeOut, Begins
    <3>2. QED BY <1>4, <2>5, <3>1 DEF Going
  <2>9. QED BY <2>7, <2>8
<1>11. AskedOnce' /\ AllInHand' BY <1>1 DEF AskedOnce, AllInHand, InHand
<1>12. Moved'
  <2>1. SUFFICES ASSUME NEW s \in Sources, source[s] # "whole" PROVE (\E f \in Folders : copied[<<s, f.name>>] = "whole") /\ \E m \in DOMAIN wanted : TakenBy(s, m)'
    BY DEF Moved
  <2>2. PICK m \in DOMAIN wanted : TakenBy(s, m) BY <2>1 DEF Moved
  <2>3. TakenBy(s, m)' BY <1>1, <1>2, <2>2 DEF TakenBy
  <2>4. QED BY <2>1, <2>3 DEF Moved
<1>13. QED BY <1>8, <1>9, <1>10, <1>11, <1>12

\* A task is asked for: its number is the greatest, and nothing that was moved is in it.
LEMMA PostKeeps ==
    ASSUME TaskInv, ~Again, NEW t \in Asked, PostOperateFileOrDir(t)
    PROVE  TaskInv'
<1> USE DEF TaskInv
<1> DEFINE n == Len(wanted) + 1
<1>1. /\ wanted' = Append(wanted, t) /\ tasks' = With(tasks, n, Waiting(t)) /\ queue' = Append(queue, n)
      /\ UNCHANGED <<source, copied, running, work, progress, failuresLeft>>
      /\ IF queue = << >> THEN starts' = starts + 1 /\ reporters' = reporters + 1 ELSE UNCHANGED <<starts, reporters>>
      /\ \A i \in DOMAIN wanted : wanted[i].kind = "move" => wanted[i].items \cap t.items = {}
  BY DEF PostOperateFileOrDir, Begins
<1>2. /\ wanted \in Seq(Asked) /\ queue \in Seq(Nat) /\ Rising(queue) /\ Range_(queue) = DOMAIN tasks /\ DOMAIN tasks \subseteq DOMAIN wanted
      /\ starts \in Nat /\ reporters \in Nat /\ Running \subseteq DOMAIN wanted
  BY DEF TaskTypes, InOrder
<1>3. /\ Len(wanted) \in Nat /\ n \in Nat /\ DOMAIN wanted = 1 .. Len(wanted) /\ wanted' \in Seq(Asked) /\ DOMAIN wanted' = 1 .. n
      /\ wanted'[n] = t /\ \A i \in 1 .. Len(wanted) : wanted'[i] = wanted[i]
  BY <1>1, <1>2
<1>4. 1 .. n = (1 .. Len(wanted)) \cup {n} /\ n \notin DOMAIN wanted /\ \A i \in DOMAIN wanted : i \in Nat /\ i < n BY <1>3
<1>5. DOMAIN tasks' = DOMAIN tasks \cup {n} /\ tasks'[n] = Waiting(t) /\ \A k \in DOMAIN tasks : tasks'[k] = tasks[k]
  <2>1. tasks' = [x \in DOMAIN tasks \cup {n} |-> IF x \in DOMAIN tasks THEN tasks[x] ELSE Waiting(t)]
    BY <1>1 DEF With
  <2>2. QED BY <1>2, <1>4, <2>1
<1>6. tasks' = [k \in DOMAIN tasks' |-> tasks'[k]]
  <2>1. tasks' = [x \in DOMAIN tasks \cup {n} |-> IF x \in DOMAIN tasks THEN tasks[x] ELSE Waiting(t)]
    BY <1>1 DEF With
  <2>2. QED BY <2>1
<1>7. Waiting(t) \in [task : Asked, finished : BOOLEAN, error : BOOLEAN] /\ Waiting(t).task = t BY DEF Waiting
<1>8. Running' = Running BY <1>1 DEF Running
<1> HIDE DEF n
<1>9. TaskTypes'
  <2>1. queue' \in Seq(Nat) BY <1>1, <1>2, <1>3
  <2>2. starts' \in Nat /\ reporters' \in Nat BY <1>1, <1>2
  <2>3. DOMAIN tasks' \subseteq DOMAIN wanted' BY <1>2, <1>3, <1>4, <1>5
  <2>4. ASSUME NEW k \in DOMAIN tasks' PROVE tasks'[k] \in [task : Asked, finished : BOOLEAN, error : BOOLEAN] /\ tasks'[k].task = wanted'[k]
    <3>1. CASE k = n BY <1>3, <1>5, <1>7, <3>1
    <3>2. CASE k \in DOMAIN tasks BY <1>2, <1>3, <1>5, <3>2 DEF TaskTypes
    <3>3. QED BY <1>5, <3>1, <3>2
  <2>5. Running \subseteq DOMAIN wanted' BY <1>2, <1>3, <1>4
  <2>6. QED BY <1>1, <1>3, <1>6, <1>8, <2>1, <2>2, <2>3, <2>4, <2>5 DEF TaskTypes
<1>10. /\ Len(queue) \in Nat /\ DOMAIN queue = 1 .. Len(queue) /\ DOMAIN queue' = 1 .. Len(queue) + 1 /\ queue'[Len(queue) + 1] = n
       /\ \A i \in 1 .. Len(queue) : queue'[i] = queue[i]
  BY <1>1, <1>2, <1>3
<1>11. 1 .. Len(queue) + 1 = (1 .. Len(queue)) \cup {Len(queue) + 1} BY <1>10
<1>12. \A i \in 1 .. Len(queue) : queue[i] \in DOMAIN tasks /\ queue[i] < n
  <2>1. \A i \in 1 .. Len(queue) : queue[i] \in DOMAIN tasks BY <1>2, <1>10 DEF Range_
  <2>2. QED BY <1>2, <1>4, <2>1
<1>13. InOrder'
  <2>1. Rising(queue')
    <3>1. SUFFICES ASSUME NEW i \in 1 .. Len(queue) + 1, NEW j \in 1 .. Len(queue) + 1, i < j PROVE queue'[i] < queue'[j] BY <1>10 DEF Rising
    <3>2. i \in 1 .. Len(queue) BY <1>10, <1>11, <3>1
    <3>3. queue'[i] = queue[i] BY <1>10, <3>2
    <3>4. CASE j = Len(queue) + 1 BY <1>10, <1>12, <3>2, <3>3, <3>4
    <3>5. CASE j \in 1 .. Len(queue)
      <4>1. queue[i] < queue[j] BY <1>2, <1>10, <3>1, <3>2, <3>5 DEF Rising
      <4>2. QED BY <1>10, <3>3, <3>5, <4>1
    <3>6. QED BY <1>11, <3>4, <3>5
  <2>2. Range_(queue') = DOMAIN tasks'
    <3>1. \A i \in 1 .. Len(queue) + 1 : queue'[i] = IF i = Len(queue) + 1 THEN n ELSE queue[i] BY <1>10, <1>11
    <3>2. Range_(queue') \subseteq DOMAIN tasks' BY <1>5, <1>10, <1>11, <1>12, <3>1 DEF Range_
    <3>3. n \in Range_(queue') BY <1>10, <1>11 DEF Range_
    <3>4. ASSUME NEW k \in DOMAIN tasks PROVE k \in Range_(queue')
      <4>1. PICK i \in DOMAIN queue : queue[i] = k BY <1>2 DEF Range_
      <4>2. i \in DOMAIN queue' /\ queue'[i] = k BY <1>10, <1>11, <4>1
      <4>3. QED BY <4>2 DEF Range_
    <3>5. QED BY <1>5, <3>2, <3>3, <3>4
  <2>3. Range_(queue)' = Range_(queue') /\ Rising(queue)' = Rising(queue') BY DEF Range_, Rising
  <2>4. \A k \in Running : k <= n BY <1>2, <1>3, <1>4
  <2>5. QED BY <1>5, <1>8, <2>1, <2>2, <2>3, <2>4 DEF InOrder
<1>14. Going'
  <2>1. CASE queue = << >>
    <3>1. starts' > 0 /\ reporters' > 0 BY <1>1, <1>2, <2>1
    <3>2. QED BY <3>1 DEF Going
  <2>2. CASE queue # << >>
    <3>1. Head(queue') = Head(queue) /\ Head(queue) \in DOMAIN tasks
      <4>1. 1 \in 1 .. Len(queue) BY <1>2, <1>10, <2>2
      <4>2. Head(queue) = queue[1] /\ Head(queue') = queue'[1] BY <1>1, <1>2, <1>3, <2>2
      <4>3. QED BY <1>10, <1>12, <4>1, <4>2
    <3>2. tasks'[Head(queue')] = tasks[Head(queue)] BY <1>5, <3>1
    <3>3. QED BY <1>1, <1>8, <2>2, <3>2 DEF Going
  <2>3. QED BY <2>1, <2>2
<1>15. AskedOnce'
  <2>1. SUFFICES ASSUME NEW i \in DOMAIN wanted', NEW j \in DOMAIN wanted', i < j, wanted'[i].kind = "move"
                 PROVE  wanted'[i].items \cap wanted'[j].items = {}
    BY DEF AskedOnce
  <2>2. i \in DOMAIN wanted /\ wanted'[i] = wanted[i] BY <1>3, <1>4, <2>1
  <2>3. CASE j = n BY <1>1, <1>3, <2>1, <2>2, <2>3
  <2>4. CASE j \in DOMAIN wanted BY <1>3, <2>1, <2>2, <2>4 DEF AskedOnce
  <2>5. QED BY <1>3, <1>4, <2>3, <2>4
<1>16. AllInHand'
  <2>1. \A k \in Running : wanted'[k] = wanted[k] BY <1>2, <1>3
  <2>2. QED BY <1>1, <1>8, <2>1, ZenonT(60) DEF AllInHand, InHand
<1>17. Moved'
  <2>1. SUFFICES ASSUME NEW s \in Sources, source[s] # "whole" PROVE (\E f \in Folders : copied[<<s, f.name>>] = "whole") /\ \E m \in DOMAIN wanted' : TakenBy(s, m)'
    BY <1>1 DEF Moved
  <2>2. PICK m \in DOMAIN wanted : TakenBy(s, m) BY <2>1 DEF Moved
  <2>3. m \in DOMAIN wanted' /\ wanted'[m] = wanted[m] /\ m < n BY <1>3, <1>4
  <2>4. m \in DOMAIN tasks => tasks'[m] = tasks[m] BY <1>5
  <2>5. TakenBy(s, m)' BY <1>1, <1>5, <1>8, <2>2, <2>3, <2>4 DEF TakenBy
  <2>6. QED BY <2>1, <2>3, <2>5 DEF Moved
<1>18. QED BY <1>9, <1>13, <1>14, <1>15, <1>16, <1>17

\* The head of the queue is started, when no operation runs.
LEMMA ExecKeeps ==
    ASSUME TaskInv, ExecOpFile
    PROVE  TaskInv'
<1> USE DEF TaskInv
<1>1. /\ starts > 0 /\ starts' = starts - 1 /\ UNCHANGED <<source, copied, wanted, queue, tasks, reporters, failuresLeft>>
      /\ queue \in Seq(Nat) /\ starts \in Nat /\ starts' \in Nat
  <2>1. starts > 0 /\ starts' = starts - 1 BY DEF ExecOpFile
  <2>2. UNCHANGED <<source, copied, wanted, queue, tasks, reporters, failuresLeft>> BY DEF ExecOpFile
  <2>3. queue \in Seq(Nat) /\ starts \in Nat BY DEF TaskTypes
  <2>4. QED BY <2>1, <2>2, <2>3
<1> DEFINE h == Head(queue)
<1>2. CASE queue = << >> \/ Running # {} \/ h \notin DOMAIN tasks \/ tasks[h].finished
  <2>1. UNCHANGED <<running, work>> BY <1>2 DEF ExecOpFile
  <2>2. Running' = Running BY <2>1 DEF Running
  <2>3. TaskTypes' BY <1>1, <2>1, <2>2 DEF TaskTypes
  <2>4. InOrder' /\ AskedOnce' BY <1>1, <2>2 DEF InOrder, AskedOnce
  <2>5. h \in DOMAIN tasks \/ queue = << >>
    <3>1. queue # << >> => 1 \in DOMAIN queue /\ h = queue[1] BY <1>1
    <3>2. QED BY <3>1 DEF InOrder, Range_
  <2>6. Going' BY <1>1, <1>2, <2>2, <2>5 DEF Going
  <2>7. AllInHand' BY <1>1, <2>1, <2>2 DEF AllInHand, InHand
  <2>8. Moved' BY <1>1, <2>1, <2>2 DEF Moved, TakenBy
  <2>9. QED BY <2>3, <2>4, <2>6, <2>7, <2>8
<1>3. CASE ~(queue = << >> \/ Running # {} \/ h \notin DOMAIN tasks \/ tasks[h].finished)
  <2> DEFINE w == [pc |-> "next", items |-> tasks[h].task.items, at |-> "", existed |-> FALSE, error |-> FALSE]
  <2>1. queue # << >> /\ Running = {} /\ h \in DOMAIN tasks /\ ~tasks[h].finished BY <1>3
  <2>2. running' = With(running, h, "on") /\ work' = With(work, h, w) BY <2>1 DEF ExecOpFile
  <2>3. h \in DOMAIN wanted /\ tasks[h].task = wanted[h] /\ wanted[h] \in Asked BY <2>1 DEF TaskTypes
  <2>4. wanted[h].items \subseteq Sources BY <2>3, FileTasksAssumption
  <2>5. w \in WorkRec BY <2>3, <2>4 DEF WorkRec, Steps
  <2>6. w.items = wanted[h].items /\ w.pc = "next" BY <2>3
  <2> HIDE DEF w, h
  <2>7. Running' = {h} /\ running' \in [{h} -> {"on", "cancelled"}] BY <2>1, <2>2 DEF With, Running
  <2>8. DOMAIN work = {} BY <2>1 DEF TaskTypes
  <2>9. work' \in [{h} -> WorkRec] /\ work'[h] = w BY <2>2, <2>5, <2>8 DEF With
  <2>10. TaskTypes' BY <1>1, <2>3, <2>7, <2>9 DEF TaskTypes
  <2>11. \A o \in DOMAIN tasks : h <= o
    <3>1. Len(queue) \in Nat /\ DOMAIN queue = 1 .. Len(queue) /\ 1 \in DOMAIN queue /\ h = queue[1] BY <1>1, <2>1 DEF h
    <3>2. SUFFICES ASSUME NEW i \in DOMAIN queue PROVE queue[1] <= queue[i] BY <3>1 DEF InOrder, Range_
    <3>3. queue[1] \in Nat /\ queue[i] \in Nat BY <1>1, <3>1
    <3>4. CASE i = 1 BY <3>3, <3>4
    <3>5. CASE i # 1
      <4>1. 1 < i BY <3>1, <3>5
      <4>2. queue[1] < queue[i] BY <3>1, <4>1 DEF InOrder, Rising
      <4>3. QED BY <3>3, <4>2
    <3>6. QED BY <3>4, <3>5
  <2>12. InOrder' BY <1>1, <2>7, <2>11 DEF InOrder
  <2>13. Going' /\ AskedOnce' BY <1>1, <2>7 DEF Going, AskedOnce
  <2>14. AllInHand' BY <1>1, <2>6, <2>7, <2>9 DEF AllInHand, InHand
  <2>15. Moved'
    <3>1. SUFFICES ASSUME NEW s \in Sources, source[s] # "whole"
                   PROVE  (\E f \in Folders : copied[<<s, f.name>>] = "whole") /\ \E m \in DOMAIN wanted : TakenBy(s, m)'
      BY <1>1 DEF Moved
    <3>2. PICK m \in DOMAIN wanted : TakenBy(s, m) BY <3>1 DEF Moved
    <3>3. m < h BY <2>1, <3>2 DEF TakenBy
    <3>4. TakenBy(s, m)' BY <1>1, <2>1, <2>7, <3>2, <3>3 DEF TakenBy
    <3>5. QED BY <3>1, <3>4 DEF Moved
  <2>16. QED BY <2>10, <2>12, <2>13, <2>14, <2>15
<1>4. QED BY <1>2, <1>3

\* An operation is over: its task is finished, and the queue goes on.
LEMMA TaskOverKeeps ==
    ASSUME TaskInv, NEW k \in Running, fileOperate(k)
    PROVE  TaskInv'
<1> USE DEF TaskInv
<1>1. /\ UNCHANGED <<source, copied, wanted, queue, reporters>> /\ starts' = starts + 1
      /\ running' = Without(running, {k}) /\ work' = Without(work, {k})
  BY DEF fileOperate, Begins
<1>2. PICK e \in BOOLEAN : /\ tasks' = IF k \in DOMAIN tasks THEN [tasks EXCEPT ![k].finished = TRUE, ![k].error = e] ELSE tasks
                           /\ failuresLeft' \in Nat
  <2>1. PICK panicked \in BOOLEAN :
           /\ IF panicked THEN Fails ELSE WorkAt(k, "next") /\ (work[k].items = {} \/ ~Live(k)) /\ UNCHANGED failuresLeft
           /\ tasks' = IF k \in DOMAIN tasks THEN [tasks EXCEPT ![k].finished = TRUE, ![k].error = panicked \/ work[k].error] ELSE tasks
    BY DEF fileOperate
  <2>2. failuresLeft' \in Nat BY <2>1 DEF Fails, TaskTypes
  <2>3. (panicked \/ work[k].error) \in BOOLEAN OBVIOUS
  <2>4. QED BY <2>1, <2>2, <2>3
<1>3. Running = {k} BY DEF InOrder
<1>4. Running' = {} BY <1>1, <1>3 DEF Without, Running
<1>5. starts \in Nat /\ starts' \in Nat /\ starts' > 0 BY <1>1 DEF TaskTypes
<1>6. DOMAIN work = {k} BY <1>3 DEF TaskTypes
<1>7. running' \in [{} -> {"on", "cancelled"}] /\ work' \in [{} -> WorkRec] BY <1>1, <1>3, <1>6 DEF Without, Running
<1>8. DOMAIN tasks' = DOMAIN tasks /\ tasks' = [o \in DOMAIN tasks' |-> tasks'[o]]
  BY <1>2 DEF TaskTypes
<1>9. \A o \in DOMAIN tasks : /\ tasks'[o] \in [task : Asked, finished : BOOLEAN, error : BOOLEAN] /\ tasks'[o].task = wanted[o]
                              /\ o # k => tasks'[o] = tasks[o]
                              /\ o = k => tasks'[o].finished
  <2>1. SUFFICES ASSUME NEW o \in DOMAIN tasks PROVE /\ tasks'[o] \in [task : Asked, finished : BOOLEAN, error : BOOLEAN] /\ tasks'[o].task = wanted[o]
                                                     /\ o # k => tasks'[o] = tasks[o]
                                                     /\ o = k => tasks'[o].finished
    OBVIOUS
  <2>2. tasks[o] \in [task : Asked, finished : BOOLEAN, error : BOOLEAN] /\ tasks[o].task = wanted[o] BY DEF TaskTypes
  <2>3. CASE o # k BY <1>2, <2>2, <2>3
  <2>4. CASE o = k
    <3>1. tasks' = [tasks EXCEPT ![k].finished = TRUE, ![k].error = e] BY <1>2, <2>4
    <3>2. tasks'[o] = [task |-> tasks[o].task, finished |-> TRUE, error |-> e] BY <2>2, <2>4, <3>1
    <3>3. QED BY <2>2, <2>4, <3>2
  <2>5. QED BY <2>3, <2>4
<1>10. TaskTypes' BY <1>1, <1>2, <1>4, <1>5, <1>7, <1>8, <1>9 DEF TaskTypes
<1>11. InOrder' /\ AskedOnce' /\ AllInHand' BY <1>1, <1>4, <1>8 DEF InOrder, AskedOnce, AllInHand
<1>12. Going' BY <1>1, <1>5 DEF Going
<1>13. Moved'
  <2>1. SUFFICES ASSUME NEW s \in Sources, source[s] # "whole"
                 PROVE  (\E f \in Folders : copied[<<s, f.name>>] = "whole") /\ \E m \in DOMAIN wanted : TakenBy(s, m)'
    BY <1>1 DEF Moved
  <2>2. PICK m \in DOMAIN wanted : TakenBy(s, m) BY <2>1 DEF Moved
  <2>3. \A o \in DOMAIN tasks : m < o \/ (o = m /\ tasks'[m].finished)
    <3>1. SUFFICES ASSUME NEW o \in DOMAIN tasks PROVE m < o \/ (o = m /\ tasks'[m].finished) OBVIOUS
    <3>2. m < o \/ (o = m /\ (m \in Running \/ tasks[m].finished)) BY <2>2 DEF TakenBy
    <3>3. QED BY <1>3, <1>9, <3>2
  <2>4. TakenBy(s, m)' BY <1>1, <1>4, <1>8, <2>2, <2>3 DEF TakenBy
  <2>5. QED BY <2>1, <2>4 DEF Moved
<1>14. QED BY <1>10, <1>11, <1>12, <1>13

\* Where nothing of it changes.
LEMMA TasksStand ==
    ASSUME TaskInv, UNCHANGED <<source, copied, wanted, queue, tasks, running, work, starts, reporters, failuresLeft>>
    PROVE  TaskInv'
<1>1. Running' = Running BY DEF Running
<1>2. TaskTypes' BY <1>1 DEF TaskInv, TaskTypes
<1>3. InOrder' /\ Going' /\ AskedOnce' BY <1>1 DEF TaskInv, InOrder, Going, AskedOnce
<1>4. AllInHand' BY <1>1 DEF TaskInv, AllInHand, InHand
<1>5. Moved' BY <1>1 DEF TaskInv, Moved, TakenBy
<1>6. QED BY <1>2, <1>3, <1>4, <1>5 DEF TaskInv

\* The tasks are cancelled, or the finished ones are reported; a loop that finds none ends.
LEMMA LeaveKeeps ==
    ASSUME TaskInv, (\E gone : CancelFileOperate(gone)) \/ SendFileOperateNotify
    PROVE  TaskInv'
<1>1. running \in [Running -> {"on", "cancelled"}] BY DEF TaskInv, TaskTypes
<1>2. ASSUME NEW gone, CancelFileOperate(gone) PROVE TaskInv'
  <2>1. TakeOut(gone) /\ UNCHANGED <<source, copied, wanted, work, reporters, progress, failuresLeft>> BY <1>2 DEF CancelFileOperate
  <2>2. running' \in [Running -> {"on", "cancelled"}] BY <1>1, <1>2 DEF CancelFileOperate
  <2>3. QED BY <2>1, <2>2, TakenOut
<1>3. CASE SendFileOperateNotify /\ DOMAIN tasks # {}
  <2>1. TakeOut({k \in DOMAIN tasks : tasks[k].finished}) /\ UNCHANGED <<source, copied, wanted, work, running, reporters, progress, failuresLeft>>
    BY <1>3 DEF SendFileOperateNotify
  <2>2. running' \in [Running -> {"on", "cancelled"}] BY <1>1, <2>1
  <2>3. QED BY <2>1, <2>2, TakenOut
<1>4. CASE SendFileOperateNotify /\ DOMAIN tasks = {}
  <2>1. UNCHANGED <<source, copied, wanted, queue, tasks, running, work, starts, failuresLeft>> /\ reporters > 0 /\ reporters' = reporters - 1
    BY <1>4 DEF SendFileOperateNotify
  <2>2. Running' = Running BY <2>1 DEF Running
  <2>3. queue = << >>
    <3>1. SUFFICES ASSUME queue # << >> PROVE FALSE OBVIOUS
    <3>2. 1 \in DOMAIN queue BY <3>1 DEF TaskInv, TaskTypes
    <3>3. QED BY <1>4, <3>2 DEF TaskInv, InOrder, Range_
  <2>4. TaskTypes' BY <2>1, <2>2 DEF TaskInv, TaskTypes
  <2>5. Going' BY <2>1, <2>3 DEF Going
  <2>6. QED BY <2>1, <2>2, <2>4, <2>5 DEF TaskInv, InOrder, AskedOnce, AllInHand, InHand, Moved, TakenBy
<1>5. QED BY <1>2, <1>3, <1>4

\* Every step keeps it.
LEMMA TaskKeeps ==
    ASSUME ~Again, TaskInv, [taskNext]_taskVars
    PROVE  TaskInv'
<1>1. CASE UNCHANGED taskVars BY <1>1, TasksStand DEF taskVars
<1>2. CASE taskNext
  <2>1. CASE \E t \in Asked : PostOperateFileOrDir(t) BY <2>1, PostKeeps
  <2>2. CASE (\E k \in DOMAIN tasks : CancelFileOperate({k})) \/ CancelFileOperate(DOMAIN tasks) \/ SendFileOperateNotify
    BY <2>2, LeaveKeeps
  <2>3. CASE ExecOpFile BY <2>3, ExecKeeps
  <2>4. CASE ReadProgress \/ CheckFileStatus BY <2>4, TasksStand DEF ReadProgress, CheckFileStatus
  <2>5. CASE \E k \in Running : taskStep(k)
    <3>1. PICK k \in Running : taskStep(k) BY <2>5
    <3>2. CASE fileOperate(k) BY <3>2, TaskOverKeeps
    <3>3. CASE ~fileOperate(k) BY <3>1, <3>3, ItemSteps DEF taskStep
    <3>4. QED BY <3>2, <3>3
  <2>6. QED BY <1>2, <2>1, <2>2, <2>3, <2>4, <2>5 DEF taskNext
<1>3. QED BY <1>1, <1>2

\* Files (service/file.go, service/notify.go): where what was to be moved is not asked for again, the
\* invariant holds of any number of tasks, entries, folders and failures.
THEOREM TaskInvariant == ASSUME ~Again PROVE taskSpec => []TaskInv
<1>1. taskInit => TaskInv BY TasksStart
<1>2. TaskInv /\ [taskNext]_taskVars => TaskInv' BY TaskKeeps
<1>3. QED BY <1>1, <1>2, PTL DEF taskSpec

\* Files: one operation at a time, a queue that never stands, and every entry whole somewhere
\* (NothingLost), where what was to be moved is not asked for again.
THEOREM NothingIsLost == ASSUME ~Again PROVE taskSpec => []NothingLost
<1>1. TaskInv => NothingLost BY TaskInvGives
<1>2. QED BY <1>1, TaskInvariant, PTL
===============================================================================
