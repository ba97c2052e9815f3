-------------------------------- MODULE Trash --------------------------------
(* The trash of a disk (pkg/trash): requests that put, restore and delete items  *)
(* at the same time, the emptying of it and the daily purge, and a core that     *)
(* stops anywhere. An entry is two files: the item under a name of files/, and   *)
(* an info of that name which says where it was and since when.                  *)
(* All the items have one base name, so that they compete for the names of the   *)
(* trash; an age is 0, more than infoGrace (1) or more than Retention (2).       *)
EXTENDS Naturals, Sequences, FiniteSets

CONSTANTS Paths,            \* where items are deleted from
          InRoots,          \* the paths below the file API's roots, when it is confined
          Requests,         \* requests and the purge: each is at one operation
          MaxItems,         \* items that are made
          MaxNames,         \* names that are tried in the trash
          MaxRestored,      \* names that are tried where an item is restored
          MaxAsked,         \* operations that are asked for
          MaxTrashStops,    \* times the core stops
          Swift             \* no other request comes between the calls of one that change an entry

VARIABLES place,            \* the item at a path, under its name (0) or a restored name; 0 is none
          files, info,      \* of the trash, by name
          op,               \* what each request is at
          born,             \* the path of each item that was made
          chosen,           \* items whose removal was asked for
          confined,         \* the file API has roots
          asked, stops
trashVars == <<place, files, info, op, born, chosen, confined, asked, stops>>

Names == 1 .. MaxNames
Own(p) == <<p, 0>>            \* a path under its own name
NoPath == ""
NoInfo == [path |-> NoPath, age |-> 0]
Foreign == MaxItems + 1      \* an item that something else left in files/ without an info
NoOp == [kind |-> "none", pc |-> "idle", name |-> 0, item |-> 0, path |-> NoPath, try |-> 0, todo |-> {}]
ASSUME TrashAssumption == NoPath \notin Paths /\ {MaxItems, MaxNames, MaxRestored, MaxAsked, MaxTrashStops} \subseteq Nat
\* inRoots: what is listed, restored and deleted.
Allowed(p) == p \in Paths /\ (confined => p \in InRoots)
\* entries: each info with the item of its name; an item of 0 is gone.
Entry(n) == [name |-> n, item |-> files[n], path |-> info[n].path, age |-> info[n].age]
entries == {Entry(n) : n \in {n \in Names : info[n] # NoInfo}}
Item(e) == [name |-> e.name, item |-> e.item]
Shown(e) == e.item # 0 /\ Allowed(e.path)

trashInit == /\ place = [q \in Paths \X (0 .. MaxRestored) |-> 0]
             /\ files \in {[n \in Names |-> 0], [n \in Names |-> IF n = 1 THEN Foreign ELSE 0]} /\ info = [n \in Names |-> NoInfo]
             /\ op = [r \in Requests |-> NoOp]
             /\ born = <<>> /\ chosen = {}
             /\ confined \in BOOLEAN /\ asked = 0 /\ stops = 0

\* Whoever is between those calls goes first when they are swift.
Free(r) == Swift => \A o \in Requests \ {r} : op[o].pc \notin {"move", "taken", "undo", "sure", "moved"}
Ask(r) == op[r] = NoOp /\ Free(r) /\ asked < MaxAsked /\ asked' = asked + 1
OpAt(r, kinds, pc) == op[r].kind \in kinds /\ op[r].pc = pc /\ Free(r)
Go(r, pc) == op' = [op EXCEPT ![r].pc = pc]
\* An entry is done with: a request that has a list goes on with it.
Done(r) == op' = [op EXCEPT ![r] = IF @.kind \in {"empty", "purge"} THEN [@ EXCEPT !.pc = "list", !.name = 0, !.item = 0] ELSE NoOp]

MakeItem(p) == /\ place[Own(p)] = 0 /\ Len(born) < MaxItems
               /\ born' = Append(born, p) /\ place' = [place EXCEPT ![Own(p)] = Len(born) + 1]
               /\ UNCHANGED <<files, info, op, chosen, confined, asked, stops>>

-------------------------------------------------------------------------------
\* prepare: the item is there and its disk may have a trash.
prepare(r, p) == /\ Ask(r) /\ place[Own(p)] # 0 /\ Allowed(p)
                 /\ op' = [op EXCEPT ![r] = [NoOp EXCEPT !.kind = "put", !.pc = "info", !.path = p, !.try = 1]]
                 /\ UNCHANGED <<place, files, info, born, chosen, confined, stops>>
\* Put: an info of a name that no info has; past the last name the item stays where it is.
PutInfo(r) == /\ OpAt(r, {"put"}, "info")
              /\ IF op[r].try > MaxNames THEN op' = [op EXCEPT ![r] = NoOp] /\ UNCHANGED info
                 ELSE IF info[op[r].try] # NoInfo THEN op' = [op EXCEPT ![r].try = @ + 1] /\ UNCHANGED info
                 ELSE Go(r, "move") /\ info' = [info EXCEPT ![op[r].try] = [path |-> op[r].path, age |-> 0]]
              /\ UNCHANGED <<place, files, born, chosen, confined, asked, stops>>
\* Then the item, without replacing. Whatever is at its path by now is moved.
PutMove(r) == /\ OpAt(r, {"put"}, "move")
              /\ \/ /\ place[Own(op[r].path)] # 0 /\ files[op[r].try] = 0
                    /\ files' = [files EXCEPT ![op[r].try] = place[Own(op[r].path)]]
                    /\ place' = [place EXCEPT ![Own(op[r].path)] = 0]
                    /\ op' = [op EXCEPT ![r] = NoOp]
                 \/ Go(r, "taken") /\ place[Own(op[r].path)] # 0 /\ files[op[r].try] # 0 /\ UNCHANGED <<place, files>>
                 \/ Go(r, "undo") /\ UNCHANGED <<place, files>>
              /\ UNCHANGED <<info, born, chosen, confined, asked, stops>>
\* An item that could not be moved takes its info with it; a name that was taken is followed by the next.
PutUndo(r) == /\ op[r].kind = "put" /\ op[r].pc \in {"taken", "undo"} /\ Free(r)
              /\ info' = [info EXCEPT ![op[r].try] = NoInfo]
              /\ op' = [op EXCEPT ![r] = IF @.pc = "taken" THEN [@ EXCEPT !.pc = "info", !.try = op[r].try + 1] ELSE NoOp]
              /\ UNCHANGED <<place, files, born, chosen, confined, asked, stops>>

-------------------------------------------------------------------------------
\* find: the entry a request names.
find(r, kind, n) == /\ Ask(r) /\ info[n] # NoInfo /\ Shown(Entry(n))
                    /\ op' = [op EXCEPT ![r] = [NoOp EXCEPT !.kind = kind, !.pc = "found", !.name = n, !.item = files[n], !.path = IF kind = "restore" THEN info[n].path ELSE NoPath]]
                    /\ chosen' = IF kind = "delete" THEN chosen \cup {files[n]} ELSE chosen
                    /\ UNCHANGED <<place, files, info, born, confined, stops>>
\* Altered: the name is trusted.
same_Name(r) == /\ op[r].kind \in {"restore", "delete", "empty", "purge"} /\ op[r].pc = "found" /\ Free(r)
                /\ Go(r, "sure")
                /\ UNCHANGED <<place, files, info, born, chosen, confined, asked, stops>>
\* same: the name still holds the item that was read, or the entry is not found.
same(r) == /\ op[r].kind \in {"restore", "delete", "empty", "purge"} /\ op[r].pc = "found" /\ Free(r)
           /\ IF files[op[r].name] = op[r].item THEN Go(r, "sure") ELSE Done(r)
           /\ UNCHANGED <<place, files, info, born, chosen, confined, asked, stops>>
\* Restore: to its path or the next restored name that is free; the last one was tried or the disk refuses: it stays.
Restore(r) ==
    /\ OpAt(r, {"restore"}, "sure")
    /\ LET to == <<op[r].path, op[r].try>> IN
       \/ /\ files[op[r].name] # 0 /\ place[to] = 0
          /\ place' = [place EXCEPT ![to] = files[op[r].name]] /\ files' = [files EXCEPT ![op[r].name] = 0]
          /\ Go(r, "moved")
       \/ /\ place[to] # 0 /\ op[r].try < MaxRestored
          /\ op' = [op EXCEPT ![r].pc = "found", ![r].try = @ + 1] /\ UNCHANGED <<place, files>>
       \/ Done(r) /\ UNCHANGED <<place, files>>
    /\ UNCHANGED <<info, born, chosen, confined, asked, stops>>
\* remove: what the name holds, or nothing when it is gone; or the disk refuses.
remove(r) == /\ OpAt(r, {"delete", "empty", "purge"}, "sure")
             /\ \/ files' = [files EXCEPT ![op[r].name] = 0] /\ Go(r, "moved")
                \/ Done(r) /\ UNCHANGED files
             /\ UNCHANGED <<place, info, born, chosen, confined, asked, stops>>
\* The info goes last.
Uninfo(r) == /\ OpAt(r, {"restore", "delete", "empty", "purge"}, "moved")
             /\ info' = [info EXCEPT ![op[r].name] = NoInfo] /\ Done(r)
             /\ UNCHANGED <<place, files, born, chosen, confined, asked, stops>>

\* Empty takes what is shown; Purge, one at a time, what is older than
\* Retention and the infos past their grace whose item is gone.
Empty(r) == /\ Ask(r)
            /\ \E es \in {{Item(e) : e \in {e \in entries : Shown(e)}}} :
                 /\ op' = [op EXCEPT ![r] = [NoOp EXCEPT !.kind = "empty", !.pc = "list", !.todo = es]]
                 /\ chosen' = chosen \cup ({e.item : e \in es} \ {0})
            /\ UNCHANGED <<place, files, info, born, confined, stops>>
Purge(r) == /\ Ask(r) /\ \A o \in Requests : op[o].kind # "purge"
            /\ \E es \in {{Item(e) : e \in {e \in entries : IF e.item = 0 THEN e.age > 0 ELSE e.path \in Paths /\ e.age > 1}}} :
                 /\ es # {}
                 /\ op' = [op EXCEPT ![r] = [NoOp EXCEPT !.kind = "purge", !.pc = "list", !.todo = es]]
                 /\ chosen' = chosen \cup ({e.item : e \in es} \ {0})
            /\ UNCHANGED <<place, files, info, born, confined, stops>>
NextEntry(r) ==
    /\ OpAt(r, {"empty", "purge"}, "list")
    /\ \E e \in op[r].todo :
         IF e.item = 0 THEN op' = [op EXCEPT ![r].todo = @ \ {e}] /\ info' = [info EXCEPT ![e.name] = NoInfo]
         ELSE op' = [op EXCEPT ![r] = [@ EXCEPT !.pc = "found", !.name = e.name, !.item = e.item, !.todo = op[r].todo \ {e}]] /\ UNCHANGED info
    /\ UNCHANGED <<place, files, born, chosen, confined, asked, stops>>
\* Without roots, Empty then removes every name of files/, whoever put it there since.
ListEnds(r) == /\ OpAt(r, {"empty", "purge"}, "list") /\ op[r].todo = {}
               /\ op' = [op EXCEPT ![r] = IF @.kind = "empty" /\ ~confined THEN [@ EXCEPT !.pc = "sweep", !.todo = {n \in Names : files[n] # 0}] ELSE NoOp]
               /\ UNCHANGED <<place, files, info, born, chosen, confined, asked, stops>>
Sweep(r) == /\ OpAt(r, {"empty"}, "sweep")
            /\ IF op[r].todo = {} THEN op' = [op EXCEPT ![r] = NoOp] /\ UNCHANGED <<files, chosen>>
               ELSE \E n \in op[r].todo :
                      /\ op' = [op EXCEPT ![r].todo = @ \ {n}]
                      /\ files' = [files EXCEPT ![n] = 0] /\ chosen' = chosen \cup ({files[n]} \ {0})
            /\ UNCHANGED <<place, info, born, confined, asked, stops>>

StopCore == /\ stops < MaxTrashStops /\ stops' = stops + 1
            /\ op' = [r \in Requests |-> NoOp]
            /\ UNCHANGED <<place, files, info, born, chosen, confined, asked>>
\* Time passes: an item that is being put takes less than infoGrace.
PassTime == /\ \A r \in Requests : op[r].kind # "put"
         /\ info' = [n \in Names |-> IF info[n] = NoInfo \/ info[n].age = 2 THEN info[n] ELSE [info[n] EXCEPT !.age = @ + 1]]
         /\ info' # info
         /\ UNCHANGED <<place, files, op, born, chosen, confined, asked, stops>>

trashNext ==
    \/ \E p \in Paths : MakeItem(p) \/ \E r \in Requests : prepare(r, p)
    \/ \E r \in Requests :
         \/ PutInfo(r) \/ PutMove(r) \/ PutUndo(r) \/ same(r) \/ Restore(r) \/ remove(r) \/ Uninfo(r)
         \/ Empty(r) \/ Purge(r) \/ NextEntry(r) \/ ListEnds(r) \/ Sweep(r)
         \/ \E n \in Names, kind \in {"restore", "delete"} : find(r, kind, n)
    \/ StopCore \/ PassTime
trashSpec == trashInit /\ [][trashNext]_trashVars

-------------------------------------------------------------------------------
Somewhere(i) == (\E q \in DOMAIN place : place[q] = i) \/ (\E n \in Names : files[n] = i)
\* Whatever requests run at once and wherever the core stops: an item that nobody asked to remove is in
\* its place, in the trash or restored, never overwritten and never taken for another; and one that is
\* in the trash has the info it is listed and restored by (trash_linux.go:393, 561, 600, 644).
Kept == /\ \A i \in DOMAIN born : i \in chosen \/ Somewhere(i)
        /\ \A n \in Names : files[n] \in DOMAIN born => info[n].path = born[files[n]]
===============================================================================
