-------------------------------- MODULE Shares --------------------------------
(* The network shares (service/shares*.go, share_owner.go, samba_user.go and     *)
(* route/v1/samba*.go): the table, smb.casa.conf, what smbd has read of it, the  *)
(* owner of each shared folder, the accounts, and the walks that hand the files  *)
(* of an owner to the next one in the background. A change is one call under     *)
(* sharesMutex, in its steps; a client, the walker and a stop of the core come   *)
(* between them.                                                                 *)
EXTENDS Naturals, Sequences, FiniteSets, SequencesExt

CONSTANTS SharePaths,          \* folders that may be shared, each of another name
          Within,           \* pairs of folders <<outer, inner>>
          Containers,       \* folders where containers keep their data (reownRefused)
          People,           \* share accounts that may be made
          Logins,           \* other accounts of the machine
          Uids,             \* the uids of share accounts
          ShareStarts,           \* the rows, the uids and whose smb.conf it is when the core starts
          Wishes,           \* the members and the Time Machine that are asked for
          Grants,           \* the shares that are asked for an account
          MaxCalls,         \* calls that change something
          MaxShareUpsets,        \* calls of the system that fail, stops of the core, hands of the owner
          MaxClients,       \* mounts of a share by a client
          UidReuse             \* an account may be made while walks wait

VARIABLES rows,             \* o_shares, in the order of the ids
          conf,             \* smb.casa.conf: {} or one sequence of sections
          main,             \* smb.conf: the host's own, with the include, the guest mapping
          smbd,             \* the sections and the mapping that smbd has
          session,          \* the mounts of clients: the share, its section then, and whom they write as
          uid,              \* of each account, 0 when there is none
          folder,           \* [uid, mode] of each folder
          fileUids,            \* the uids that own files in each folder
          walks,            \* the walks that wait, the first of them runs
          call,             \* the call that is being made
          spent,            \* calls, upsets and mounts so far
          ghost             \* what the code is known to leave: see the properties
shareVars == <<rows, conf, main, smbd, session, uid, folder, fileUids, walks, call, spent, ghost>>

Accounts == People \cup Logins
RootUid == 0
rw(name) == [name |-> name, readOnly |-> FALSE]
NamesOf(members) == {m.name : m \in ToSet(members)}
\* MemberList: a row of before members has its one account.
MemberList(row) == IF row.members = <<>> /\ row.owner # "" THEN <<rw(row.owner)>> ELSE row.members
\* sambaSection: the section of a row.
sambaSection(row) ==
    LET members == ToSet(MemberList(row)) IN
    [path |-> row.path, force |-> row.owner, tm |-> row.tm, guests |-> row.owner = "",
     valid |-> IF row.owner = "" THEN {} ELSE {m.name : m \in members},
     writers |-> IF row.owner = "" THEN {} ELSE {m.name : m \in {n \in members : ~n.readOnly}}]
SectionsOf(table) == [i \in DOMAIN table |-> sambaSection(table[i])]
\* The oldest row of a folder.
Oldest(sections, p) == sections[CHOOSE i \in DOMAIN sections : sections[i].path = p /\ \A j \in DOMAIN sections : sections[j].path = p => i <= j]
Has(sections, p) == \E i \in DOMAIN sections : sections[i].path = p
\* sambaShareSections: the last one of a name, as smbd reads them.
sambaShareSections(sections) ==
    [p \in {s.path : s \in ToSet(sections)} |-> sections[CHOOSE i \in DOMAIN sections : sections[i].path = p /\ \A j \in DOMAIN sections : sections[j].path = p => j <= i]]
changedSambaShares_Removed(before, after) == {p \in DOMAIN sambaShareSections(before) : p \notin DOMAIN sambaShareSections(after)}
changedSambaShares(before, after) ==
    {p \in DOMAIN sambaShareSections(before) :
        p \notin DOMAIN sambaShareSections(after) \/ sambaShareSections(after)[p] # sambaShareSections(before)[p]}
TimeMachines(sections) == {p \in DOMAIN sambaShareSections(sections) : sambaShareSections(sections)[p].tm}
timeMachineSharesChanged(before, after) == TimeMachines(before) # TimeMachines(after)
File(c) == IF c = {} THEN <<>> ELSE CHOOSE s \in c : TRUE

Exists(name) == name \in Accounts /\ uid[name] # 0
isShareAccount(name) == name \in People /\ Exists(name)
\* chooseShareOwner: the owner stays while its account exists, else a share account that
\* may write, else any; a set, empty when nobody can own the share.
chooseShareOwner(current, members, leaving) ==
    IF members = <<>> THEN {""}
    ELSE IF current \notin {"", leaving} /\ Exists(current) THEN {current}
    ELSE LET able == SelectSeq(members, LAMBDA m : isShareAccount(m.name))
             write == SelectSeq(able, LAMBDA m : ~m.readOnly)
         IN IF able = <<>> THEN {} ELSE IF write # <<>> THEN {write[1].name} ELSE {able[1].name}
validateShareMembers(members, kept) ==
    /\ Cardinality(NamesOf(members)) = Len(members)
    /\ \A name \in NamesOf(members) \ NamesOf(kept) : isShareAccount(name)
\* withMember
withMember(members, name, in, readOnly) ==
    LET new == [name |-> name, readOnly |-> readOnly]
        rest == SelectSeq(members, LAMBDA m : m.name # name)
    IN IF ~in THEN rest
       ELSE IF name \in NamesOf(members) THEN [i \in DOMAIN members |-> IF members[i].name = name THEN new ELSE members[i]]
       ELSE Append(members, new)

-------------------------------------------------------------------------------
NoCall == [kind |-> "none", pc |-> "", todo |-> <<>>, done |-> <<>>, plans |-> <<>>, leaving |-> "", row |-> <<>>,
           table |-> <<>>, prev |-> {}, main |-> FALSE, back |-> FALSE, moved |-> FALSE, was |-> <<>>, plan |-> <<>>]
Quiet == call = NoCall
ShareUpset == spent.upsets < MaxShareUpsets /\ spent' = [spent EXCEPT !.upsets = @ + 1]
Smooth == UNCHANGED spent
Goto(pc) == call' = [call EXCEPT !.pc = pc]
At(pc) == call.pc = pc
\* checkExternalMainConfig
Refused == main.external /\ ~main.included
NewId == IF rows = <<>> THEN 1 ELSE 1 + rows[Len(rows)].id
Changed(row, owner, members, tm) == [row EXCEPT !.owner = owner, !.members = members, !.tm = tm]
TableWith(row) == [i \in DOMAIN rows |-> IF rows[i].id = row.id THEN row ELSE rows[i]]

\* The core starts: duplicates are merged, and a host's own smb.conf gets its shares again.
Boot == [NoCall EXCEPT !.kind = "boot", !.pc = "merge"]
\* pathSharedElsewhere
pathSharedElsewhere(row) == \E r \in ToSet(rows) : r.id # row.id /\ r.path = row.path
Protected(table) == \E r \in ToSet(table) : r.owner # ""
sharesInit ==
    \E t \in ShareStarts :
        /\ rows = t.rows /\ uid = t.uid
        /\ main = [external |-> t.external, included |-> t.included, ours |-> ~t.external /\ rows # <<>>,
                   mapping |-> IF Protected(rows) THEN "never" ELSE "bad user"]
        /\ conf = {SectionsOf(rows)} /\ smbd = [sections |-> SectionsOf(rows), mapping |-> main.mapping] /\ session = {}
        /\ folder = [p \in SharePaths |-> IF ~Has(rows, p) THEN [uid |-> RootUid, mode |-> "755"]
                                       ELSE IF Oldest(rows, p).owner = "" THEN [uid |-> RootUid, mode |-> "777"]
                                       ELSE [uid |-> uid[Oldest(rows, p).owner], mode |-> "770"]]
        /\ fileUids = [p \in SharePaths |-> {folder[p].uid}]
        /\ walks = <<>> /\ call = Boot /\ spent = [calls |-> 0, upsets |-> 0, clients |-> 0]
        /\ ghost = [apart |-> FALSE, lag |-> FALSE, odd |-> {r.path : r \in {x \in ToSet(rows) : pathSharedElsewhere(x)}}, left |-> [p \in SharePaths |-> {RootUid}], gone |-> {}]

-------------------------------------------------------------------------------
\* applyConfig, from the check of the host's smb.conf to the refresh of smbd. The guest mapping
\* follows whether a share is protected; it is not put back when the sections are refused.
syncGuestMapping(protected) == IF ~main.ours THEN main ELSE [main EXCEPT !.mapping = IF protected THEN "never" ELSE "bad user"]
TakeUp(c, table, mainWritten) == [c EXCEPT !.pc = "apply", !.table = table, !.main = mainWritten]
\* A call that cannot go on: a change of members puts its folder back and those made before it,
\* a create or a delete ends where it is.
Abandoned(c) == CASE c.kind \in {"create", "delete", "boot"} -> NoCall
              [] c.back -> [c EXCEPT !.pc = "putback"]
              [] OTHER -> [c EXCEPT !.pc = "unmove"]
sharesRest == UNCHANGED <<session, uid, folder, fileUids, walks>>
applyConfig ==
    /\ At("apply") /\ sharesRest /\ UNCHANGED <<rows, conf, smbd>>
    /\ IF Refused THEN /\ call' = Abandoned(call) /\ UNCHANGED main /\ Smooth
                      /\ ghost' = [ghost EXCEPT !.apart = @ \/ conf # {SectionsOf(rows)}]
       ELSE /\ UNCHANGED ghost
            /\ \/ /\ main' = syncGuestMapping(\E r \in ToSet(call.table) : r.owner # "") /\ Smooth
                  /\ call' = [call EXCEPT !.pc = "write", !.main = @ \/ main' # main]
               \/ ShareUpset /\ UNCHANGED main /\ Goto("write")
writeConfig ==
    /\ At("write") /\ sharesRest /\ UNCHANGED <<rows, main, smbd, ghost>> /\ Smooth
    /\ conf' = {SectionsOf(call.table)} /\ call' = [call EXCEPT !.pc = "test", !.prev = conf]
\* validateSambaConfig: what is refused is taken back, or removed when there was nothing before.
validateSambaConfig ==
    /\ At("test") /\ sharesRest /\ UNCHANGED <<rows, main, smbd>>
    /\ \/ /\ Smooth /\ UNCHANGED <<conf, ghost>>
          /\ Goto(IF call.main \/ timeMachineSharesChanged(File(call.prev), File(conf)) THEN "restart" ELSE "reload")
       \/ /\ ShareUpset /\ conf' = call.prev /\ call' = Abandoned(call)
          /\ ghost' = [ghost EXCEPT !.apart = @ \/ conf' # {SectionsOf(rows)}]
\* refreshSamba: a restart drops every client; a reload is followed by the closing of the
\* shares whose section changed; one that fails is followed by a restart.
restartSMBD ==
    /\ At("restart") /\ Goto("commit") /\ UNCHANGED <<rows, conf, main, uid, folder, fileUids, walks>>
    /\ \/ /\ smbd' = [sections |-> File(conf), mapping |-> main.mapping] /\ session' = {} /\ Smooth
          /\ ghost' = [ghost EXCEPT !.lag = FALSE]
       \/ /\ ShareUpset /\ UNCHANGED <<smbd, session>> /\ ghost' = [ghost EXCEPT !.lag = TRUE]
reloadSMBD ==
    /\ At("reload") /\ UNCHANGED <<rows, conf, main, session, uid, folder, fileUids, walks, ghost>>
    /\ \/ smbd' = [smbd EXCEPT !.sections = File(conf)] /\ Goto("close") /\ Smooth
       \/ UNCHANGED smbd /\ Goto("restart") /\ ShareUpset
closeShares ==
    /\ At("close") /\ UNCHANGED <<rows, conf, main, smbd, uid, folder, fileUids, walks, ghost>>
    /\ \/ /\ session' = {s \in session : s.path \notin changedSambaShares(File(call.prev), File(conf))}
          /\ Goto("commit") /\ Smooth
       \/ UNCHANGED session /\ Goto("restart") /\ ShareUpset

-------------------------------------------------------------------------------
\* moveShareOwnership: the folder as it becomes; the walk that is left to do, for a change from
\* one account to another whose folder is still the old one's.
previousOwnerUID(from, now) == IF Exists(from) THEN <<uid[from], uid[from] = now>>
                               ELSE <<now, \A a \in Accounts : uid[a] # now>>
RestrictShareToUser(to) == [uid |-> uid[to], mode |-> "770"]
ReleaseShareFromUser == [uid |-> RootUid, mode |-> "755"]
Moved(p, from, to) == IF from = to THEN folder[p] ELSE IF to = "" THEN ReleaseShareFromUser ELSE RestrictShareToUser(to)
reownRefused(p) == p \in Containers
Walk(p, from, to) ==
    LET old == previousOwnerUID(from, folder[p].uid)
    IN IF from \in {to, ""} \/ to = "" \/ ~old[2] \/ old[1] \in {RootUid, uid[to]} \/ reownRefused(p) THEN <<>>
       ELSE <<[path |-> p, old |-> old[1], new |-> uid[to], prune |-> {}]>>
\* sharesInside
sharesInside(p) == {r.path : r \in {x \in ToSet(rows) : x.owner # "" /\ <<p, x.path>> \in Within}}
\* The folders of a walk: find leaves out the shares inside.
Covers(w, p) == p = w.path \/ (<<w.path, p>> \in Within /\ p \notin w.prune)
\* Whose a file becomes by the walks that wait; a new share keeps what it finds.
Reaches(f, p) == FoldLeft(LAMBDA u, w : IF Covers(w, p) /\ u = w.old THEN w.new ELSE u, f, walks)
Found(p) == fileUids[p] \cup {Reaches(f, p) : f \in fileUids[p]}
\* The files that a change leaves to whom they belong to: those of a folder that is opened or
\* protected, of one that is not the owner's any more, and of one with data of containers.
Leaves(p, from, to) == IF from = to \/ Walk(p, from, to) # <<>> THEN {} ELSE Found(p) \cup {folder[p].uid}

\* The next change of a call: its owner is chosen and its folder moved.
applyShareMembers ==
    /\ At("change") /\ call.todo # <<>> /\ UNCHANGED <<rows, conf, main, smbd, session, uid, fileUids, walks>>
    /\ LET c == Head(call.todo)
           owners == chooseShareOwner(c.row.owner, c.members, call.leaving)
       IN IF owners = {} THEN call' = [call EXCEPT !.pc = "undo"] /\ UNCHANGED <<folder, ghost>> /\ Smooth
          ELSE \E owner \in owners :
                 \/ /\ folder' = [folder EXCEPT ![c.row.path] = Moved(c.row.path, c.row.owner, owner)] /\ Smooth
                    /\ call' = TakeUp([call EXCEPT !.moved = owner # c.row.owner, !.was = folder[c.row.path], !.row = c.row,
                                                  !.plan = Walk(c.row.path, c.row.owner, owner)],
                                     TableWith(Changed(c.row, owner, c.members, c.tm)), FALSE)
                    /\ ghost' = [ghost EXCEPT !.left[c.row.path] = @ \cup Leaves(c.row.path, c.row.owner, owner)]
                 \/ ShareUpset /\ call' = [call EXCEPT !.pc = "undo"] /\ UNCHANGED <<folder, ghost>>
\* The folder of a change as it was before it, where it moved; what clients wrote meanwhile stays
\* the other account's, and a row that is stuck has a folder that is not its owner's.
FolderBack(stuck) ==
    LET p == call.row.path
        odd == [ghost EXCEPT !.odd = @ \cup {p}]
    IN \/ /\ Smooth /\ folder' = (IF call.moved THEN [folder EXCEPT ![p] = call.was] ELSE folder)
          /\ ghost' = [(IF stuck THEN odd ELSE ghost) EXCEPT !.left[p] = @ \cup (IF call.moved THEN {folder[p].uid} ELSE {})]
       \/ call.moved /\ ShareUpset /\ UNCHANGED folder /\ ghost' = odd
\* putFolderBack of a change that Samba, or the table, refused.
putFolderBack ==
    /\ At("unmove") /\ UNCHANGED <<rows, conf, main, smbd, session, uid, fileUids, walks>>
    /\ call' = [call EXCEPT !.pc = "undo"] /\ FolderBack(FALSE)
\* The changes made before it are undone, the newest first: the row, then the folder.
undoChange ==
    /\ At("undo") /\ sharesRest /\ UNCHANGED <<rows, conf, main, smbd, ghost>> /\ Smooth
    /\ IF call.done = <<>> THEN call' = NoCall
       ELSE LET d == call.done[Len(call.done)]
                row == [d.row EXCEPT !.members = MemberList(d.row)]
            IN call' = TakeUp([call EXCEPT !.back = TRUE, !.row = row, !.moved = d.moved, !.was = d.was, !.done = Front(@)], TableWith(row), FALSE)
restoreFolder ==
    /\ At("putback") /\ UNCHANGED <<rows, conf, main, smbd, session, uid, fileUids, walks>> /\ Goto("undo")
    /\ FolderBack(rows[CHOOSE i \in DOMAIN rows : rows[i].id = call.row.id] # call.row)

\* The table follows the sections that Samba took; where the write of it fails, a change is
\* put back and a create does not hear of it.
commit ==
    /\ At("commit") /\ UNCHANGED <<conf, main, smbd, session, uid, folder, fileUids, walks>>
    /\ \/ /\ rows' = call.table /\ Smooth
          /\ ghost' = [ghost EXCEPT !.apart = FALSE, !.left = IF call.kind = "create" THEN [@ EXCEPT ![call.row.path] = @ \cup Found(call.row.path)] ELSE @]
          /\ call' = IF call.back THEN [call EXCEPT !.pc = "putback"]
                     ELSE IF call.kind # "members" THEN NoCall
                     ELSE [call EXCEPT !.pc = "change", !.todo = Tail(@), !.done = Append(@, [row |-> call.row, moved |-> call.moved, was |-> call.was]),
                                       !.plans = @ \o [i \in DOMAIN call.plan |-> [call.plan[i] EXCEPT !.prune = sharesInside(call.row.path)]]]
       \/ /\ call.kind \in {"members", "create"} /\ ShareUpset /\ UNCHANGED rows /\ call' = Abandoned(call)
          /\ ghost' = [ghost EXCEPT !.apart = TRUE]
\* The walks of a call are asked for once all its changes have worked.
queueReown ==
    /\ At("change") /\ call.todo = <<>> /\ UNCHANGED <<rows, conf, main, smbd, session, uid, folder, fileUids, ghost>> /\ Smooth
    /\ walks' = walks \o call.plans
    /\ call' = IF call.leaving = "" THEN NoCall ELSE [call EXCEPT !.pc = "account", !.plans = <<>>]
\* DeleteSambaUser of the service: the account goes last; smbpasswd or userdel may fail.
deleteShareAccount ==
    /\ At("account") /\ UNCHANGED <<rows, conf, main, smbd, session, folder, fileUids, walks, ghost>> /\ call' = NoCall
    /\ \/ uid' = [uid EXCEPT ![call.leaving] = 0] /\ Smooth
       \/ Exists(call.leaving) /\ ShareUpset /\ UNCHANGED uid

-------------------------------------------------------------------------------
\* The calls.
Called(c) == /\ Quiet /\ spent.calls < MaxCalls /\ spent' = [spent EXCEPT !.calls = @ + 1] /\ call' = c
Members(changes, leaving) == [NoCall EXCEPT !.kind = "members", !.pc = "change", !.todo = changes, !.leaving = leaving]
allRest == UNCHANGED <<rows, conf, main, smbd, session, uid, folder, fileUids, walks, ghost>>
\* PostSambaSharesCreate, of one folder: it is opened or handed to its owner, then the share is made;
\* the first one writes smb.conf. What fails is not put back.
PostSambaSharesCreate(p, members, tm) ==
    /\ ~Has(rows, p) /\ validateShareMembers(members, <<>>)
    /\ \E owner \in chooseShareOwner("", members, "") :
          LET row == [id |-> NewId, path |-> p, owner |-> owner, members |-> members, tm |-> tm] IN
          /\ Called(TakeUp([NoCall EXCEPT !.kind = "create", !.row = row], Append(rows, row), ~main.external /\ ~main.ours))
          /\ folder' = [folder EXCEPT ![p] = IF owner = "" THEN [@ EXCEPT !.mode = "777"] ELSE RestrictShareToUser(owner)]
    /\ main' = IF main.external \/ main.ours THEN main ELSE [main EXCEPT !.ours = TRUE, !.mapping = "never"]
    /\ UNCHANGED <<rows, conf, smbd, session, uid, fileUids, walks, ghost>>
\* PutSambaShare
PutSambaShare(row, members, tm) ==
    /\ validateShareMembers(members, MemberList(row)) /\ (members # MemberList(row) \/ tm # row.tm)
    /\ Called(Members(<<[row |-> row, members |-> members, tm |-> tm]>>, "")) /\ allRest
\* PutSambaUserShares: the protected shares of an account are these, and no others.
PutSambaUserShares(name, ids, readOnly) ==
    LET After(row) == withMember(MemberList(row), name, row.id \in ids, readOnly)
        touched == SelectSeq(rows, LAMBDA row : MemberList(row) # <<>> /\ After(row) # MemberList(row))
    IN /\ isShareAccount(name) /\ touched # <<>>
       /\ ids \subseteq {r.id : r \in ToSet(rows)} /\ \A r \in ToSet(rows) : IF MemberList(r) = <<>> THEN r.id \notin ids ELSE After(r) # <<>>
       /\ Called(Members([i \in DOMAIN touched |-> [row |-> touched[i], members |-> After(touched[i]), tm |-> touched[i].tm]], "")) /\ allRest
\* DeleteSambaUser: not the only member of a share.
DeleteSambaUser(name) ==
    LET After(row) == withMember(MemberList(row), name, FALSE, FALSE)
        touched == SelectSeq(rows, LAMBDA row : After(row) # MemberList(row) \/ row.owner = name)
    IN /\ \A i \in DOMAIN touched : After(touched[i]) # <<>>
       /\ name \in People /\ (Exists(name) \/ touched # <<>>)
       /\ Called(Members([i \in DOMAIN touched |-> [row |-> touched[i], members |-> After(touched[i]), tm |-> touched[i].tm]], name)) /\ allRest
\* DeleteSambaShares: the folder goes back to root, then the row goes, then the sections are written.
DeleteSambaShares(row) ==
    /\ Called([NoCall EXCEPT !.kind = "delete", !.pc = "unrow", !.row = row])
    /\ folder' = IF row.owner # "" /\ ~pathSharedElsewhere(row) THEN [folder EXCEPT ![row.path] = ReleaseShareFromUser] ELSE folder
    /\ UNCHANGED <<rows, conf, main, smbd, session, uid, fileUids, walks, ghost>>
OddNow == ghost' = [ghost EXCEPT !.odd = @ \cup {call.row.path}]
DeleteShare ==
    /\ At("unrow") /\ sharesRest /\ UNCHANGED <<conf, main, smbd>>
    /\ \/ Refused /\ call' = NoCall /\ UNCHANGED rows /\ OddNow /\ Smooth
       \/ ~Refused /\ call' = TakeUp(call, rows, FALSE) /\ UNCHANGED rows /\ OddNow /\ ShareUpset
       \/ /\ ~Refused /\ rows' = SelectSeq(rows, LAMBDA r : r.id # call.row.id) /\ call' = TakeUp(call, rows', FALSE)
          /\ UNCHANGED ghost /\ Smooth

\* mergeDuplicateShares: the oldest row of a folder gains what the others gave.
Joined(a, b) ==
    LET mine == MemberList(a)
        theirs == MemberList(b)
        both == [i \in DOMAIN mine |-> [mine[i] EXCEPT !.readOnly = @ /\ \A m \in ToSet(theirs) : m.name = mine[i].name => m.readOnly]]
    IN [a EXCEPT !.owner = IF @ = "" THEN b.owner ELSE @, !.tm = @ \/ b.tm,
                 !.members = both \o SelectSeq(theirs, LAMBDA m : m.name \notin NamesOf(mine))]
mergeDuplicateShares(table) ==
    FoldLeft(LAMBDA kept, row : IF Has(kept, row.path) THEN [i \in DOMAIN kept |-> IF kept[i].path = row.path THEN Joined(kept[i], row) ELSE kept[i]]
                                ELSE Append(kept, row), <<>>, table)
\* newlyProtected
newlyProtected == {r \in ToSet(mergeDuplicateShares(rows)) : r.owner # "" /\ Oldest(rows, r.path).owner = ""}
\* The start of the core: folders that become protected go to their owner, then the rows are
\* merged, then the sections are written; a host's own smb.conf gets them at every start.
MergeDuplicateShares ==
    /\ At("merge") /\ UNCHANGED <<rows, conf, main, smbd, session, uid, fileUids, walks, ghost>>
    /\ IF mergeDuplicateShares(rows) = rows \/ Refused
       THEN UNCHANGED folder /\ Smooth /\ call' = IF main.external THEN TakeUp(call, rows, FALSE) ELSE NoCall
       ELSE \/ /\ \A r \in newlyProtected : Exists(r.owner) /\ Goto("rows") /\ Smooth
               /\ folder' = [p \in SharePaths |-> IF \E r \in newlyProtected : r.path = p THEN RestrictShareToUser(Oldest(mergeDuplicateShares(rows), p).owner) ELSE folder[p]]
            \/ UNCHANGED folder /\ ShareUpset /\ call' = NoCall
MergeRows ==
    /\ At("rows") /\ sharesRest /\ UNCHANGED <<conf, main, smbd>> /\ Smooth
    /\ rows' = mergeDuplicateShares(rows) /\ call' = TakeUp(call, rows', FALSE)
    /\ ghost' = [ghost EXCEPT !.odd = {}, !.left = [p \in SharePaths |-> @[p] \cup fileUids[p]]]

-------------------------------------------------------------------------------
\* CreateSambaUser, beside any call: useradd takes the highest uid that is free; an account that
\* Samba does not take is removed again.
CreateSambaUser(name) ==
    LET free == Uids \ {uid[a] : a \in Accounts} IN
    /\ spent.calls < MaxCalls /\ spent' = [spent EXCEPT !.calls = @ + 1]
    /\ ~Exists(name) /\ free # {} /\ (UidReuse \/ (walks = <<>> /\ call.plans = <<>>))
    /\ uid' = [uid EXCEPT ![name] = CHOOSE n \in free : \A m \in free : m <= n]
    /\ UNCHANGED <<rows, conf, main, smbd, session, folder, fileUids, walks, call, ghost>>
\* A client (external) mounts a share as smbd has it, writes as the account that owns it, and goes.
Connects(p) ==
    /\ spent.clients < MaxClients /\ spent' = [spent EXCEPT !.clients = @ + 1] /\ Has(smbd.sections, p)
    /\ LET sec == sambaShareSections(smbd.sections)[p] IN
       /\ sec.guests \/ (Exists(sec.force) /\ \E name \in sec.writers : Exists(name))
       /\ session' = session \cup {[path |-> p, sec |-> sec, as |-> IF sec.guests THEN RootUid ELSE uid[sec.force]]}
    /\ UNCHANGED <<rows, conf, main, smbd, uid, folder, fileUids, walks, call, ghost>>
Writes ==
    /\ \E c \in session : /\ (c.as \in {RootUid, folder[c.path].uid} \/ folder[c.path].mode = "777")
                           /\ fileUids' = [fileUids EXCEPT ![c.path] = @ \cup {c.as}]
    /\ UNCHANGED <<rows, conf, main, smbd, session, uid, folder, walks, call, spent, ghost>>
\* runReown: find goes through the folder and what is in it but for the shares there; files that
\* chown cannot change stay.
runReown ==
    /\ walks # <<>> /\ walks' = Tail(walks)
    /\ LET w == Head(walks) IN
       \/ /\ fileUids' = [p \in SharePaths |-> IF Covers(w, p) /\ w.old \in fileUids[p] THEN (fileUids[p] \ {w.old}) \cup {w.new} ELSE fileUids[p]]
          /\ Smooth /\ UNCHANGED ghost
       \/ ShareUpset /\ UNCHANGED fileUids /\ ghost' = [ghost EXCEPT !.left = [p \in SharePaths |-> IF Covers(w, p) THEN @[p] \cup {w.old} ELSE @[p]]]
    /\ UNCHANGED <<rows, conf, main, smbd, session, uid, folder, call>>
\* The core stops: the walks that wait are lost with it, and a file that is being written is cut.
CoreStops ==
    /\ ShareUpset /\ call' = Boot /\ walks' = <<>> /\ call.kind # "boot"
    /\ conf' \in {conf} \cup (IF At("write") THEN {{<<>>}, {SectionsOf(call.table)}} ELSE {})
    /\ LET lost == ToSet(walks) \cup ToSet(call.plans) \cup ToSet(call.plan) IN
       ghost' = [ghost EXCEPT !.apart = @ \/ conf' # {SectionsOf(rows)}, !.lag = @ \/ call.pc \in {"write", "test", "restart", "reload", "close"},
                              !.odd = IF call.row = <<>> \/ Quiet THEN @ ELSE @ \cup {call.row.path},
                              !.left = [p \in SharePaths |-> @[p] \cup {w.old : w \in {x \in lost : Covers(x, p)}}]]
    /\ UNCHANGED <<rows, main, smbd, session, uid, folder, fileUids>>
\* The owner removes an account from the shell, or the host takes the include out of its smb.conf.
ByShell ==
    /\ ShareUpset /\ UNCHANGED <<rows, conf, smbd, session, folder, fileUids, walks, call>>
    /\ \/ \E a \in People : Exists(a) /\ uid' = [uid EXCEPT ![a] = 0] /\ ghost' = [ghost EXCEPT !.gone = @ \cup {a}] /\ UNCHANGED main
       \/ main.external /\ main' = [main EXCEPT !.included = ~@] /\ UNCHANGED <<uid, ghost>>

sharesStep == \/ applyConfig \/ writeConfig \/ validateSambaConfig \/ restartSMBD \/ reloadSMBD \/ closeShares \/ commit
              \/ applyShareMembers \/ putFolderBack \/ undoChange \/ restoreFolder \/ queueReown \/ deleteShareAccount
              \/ DeleteShare \/ MergeDuplicateShares \/ MergeRows
sharesCalls == \/ \E p \in SharePaths, w \in Wishes : PostSambaSharesCreate(p, w.members, w.tm)
               \/ \E row \in ToSet(rows) : DeleteSambaShares(row) \/ \E w \in Wishes : PutSambaShare(row, w.members, w.tm)
               \/ \E name \in People : \/ DeleteSambaUser(name) \/ CreateSambaUser(name)
                                       \/ \E g \in Grants : PutSambaUserShares(name, g.ids, g.readOnly)
sharesNext == sharesStep \/ sharesCalls \/ runReown \/ CoreStops \/ ByShell \/ Writes \/ \E p \in SharePaths : Connects(p)
sharesSpec == sharesInit /\ [][sharesNext]_shareVars

-------------------------------------------------------------------------------
Alone(row) == row.owner # "" /\ ~pathSharedElsewhere(row) /\ row.path \notin ghost.odd
\* Between two calls the file says what the table says, and smbd has read what the file says, whatever
\* failed on the way - unless the code said so: a write of the table or of smbd that failed.
Agree == Quiet /\ ~ghost.apart => conf = {SectionsOf(rows)} /\ (~ghost.lag => smbd.sections = File(conf))
\* No client goes on with rights that a change took away: what it mounted is what its share is now.
SessionsFit == Quiet /\ ~ghost.lag => \A c \in session : Has(smbd.sections, c.path) /\ sambaShareSections(smbd.sections)[c.path] = c.sec
\* No share names an account that is gone: one is removed only after every share let go of it.
NamesExist == Quiet => \A r \in ToSet(rows) : \A name \in NamesOf(MemberList(r)) \cup ({r.owner} \ {""}) : Exists(name) \/ name \in ghost.gone
\* A protected share's folder is its owner's alone, also after a change that failed half way.
OwnersHold == Quiet => \A r \in ToSet(rows) : Alone(r) /\ r.owner \notin ghost.gone => folder[r.path] = RestrictShareToUser(r.owner)
\* Every file of a protected share is its owner's, or a walk that waits makes it so: the walks run in the
\* order of the changes and none goes into another share. Files a share was made with keep their owner.
FilesFollow == Quiet => \A r \in ToSet(rows) : Alone(r) /\ r.owner \notin ghost.gone =>
                  \A f \in fileUids[r.path] \ ghost.left[r.path] : Reaches(f, r.path) = uid[r.owner]
\* The table, the file, smbd, the clients, the folders and the files in them agree between two calls
\* (applyConfig, refreshSamba, applyShareMembers with its undo, queueReown and runReown).
SharesHold == Agree /\ SessionsFit /\ NamesExist /\ OwnersHold /\ FilesFollow

===============================================================================
