----------------------------- MODULE Fleet_proofs -----------------------------
(***************************************************************************)
(* For any number of connections, requests, keys, calls and faults: the    *)
(* tunnel of a box was made with the key that the box has now, and a box   *)
(* is said to be offline only when it has been, but for one whose code was *)
(* rotated.                                                                *)
(*                                                                         *)
(* OnlyCurrentKey does not carry itself.  A connection that is a tunnel    *)
(* must be the one that was authorised for this box (Served); the slot of  *)
(* a hello that is on its way is not a tunnel yet (Greeting); and a new    *)
(* box gets an id that no box has (Enlisted), so that its key is not put   *)
(* over that of a tunnel.                                                  *)
(*                                                                         *)
(* The second half is about the private network over a relay: what its     *)
(* four files, the marker and the network are at each place of each call,  *)
(* so that they agree between calls (RelayInOrder) and a network of the    *)
(* owner's own is not left (OwnerNetKept).                                 *)
(***************************************************************************)
EXTENDS FleetTunnel, FleetRelay, TLAPS

Places == {"gone", "upgraded", "hello", "serving"}
Conn == [at : Places, open : BOOLEAN, alive : BOOLEAN, box : Ids \cup {0}, key : Nat, pending : SUBSET Requests]
Code == [box : Ids \cup {0}, key : Nat]
MemberLoop == [at : {"load", "idle", "wait", "dial", "hello", "open", "restarted"},
               st : Code, conn : Slots \cup {0}, handling : SUBSET Requests]
Relayed == [at : {"idle", "picked", "sent", "got", "ended"}, conn : Nat, box : Ids \cup {0}]
Watch == [up : Nat, age : [Ids -> Int], quiet : [Ids -> Nat], alert : SUBSET Ids, cut : SUBSET Ids]

\* What the proofs need of the types.
TunnelTypes ==
    /\ master \in [on : BOOLEAN, key : [Ids -> Nat]]
    /\ tunnels \in [Ids -> Nat]
    /\ conns \in [Slots -> Conn]
    /\ memberFile \in Code /\ codes \subseteq Code
    /\ member \in MemberLoop
    /\ req \in [Requests -> Relayed]
    /\ watch \in Watch
    /\ made \in Nat

Served == \A b \in Ids : tunnels[b] # 0 =>
              /\ tunnels[b] \in Slots
              /\ conns[tunnels[b]].at = "serving" /\ conns[tunnels[b]].box = b
              /\ Enrolled(b) /\ conns[tunnels[b]].key = master.key[b]
Greeting == member.at = "hello" => member.conn \in Slots /\ conns[member.conn].at \in {"upgraded", "gone"}
Enlisted == \A b \in Ids : b > made => master.key[b] = 0 /\ watch.age[b] = -1

\* A box without a tunnel has been without one since it was seen last, or since the master started.
Counted(b) == \/ watch.age[b] = -1 \/ b \in watch.cut
              \/ watch.quiet[b] >= watch.age[b] \/ watch.quiet[b] >= watch.up \/ watch.quiet[b] >= OfflineAfter
Away == \A b \in Ids : master.key[b] # 0 /\ tunnels[b] = 0 => Counted(b)

TunnelInv == TunnelTypes /\ Served /\ Greeting /\ Enlisted /\ Away

-------------------------------------------------------------------------------
\* Before the first call nobody is enrolled and nothing is connected.
LEMMA TunnelInit == tunnelInit => TunnelInv
  BY FleetTunnelAssumption
     DEF tunnelInit, TunnelInv, TunnelTypes, Served, Greeting, Enlisted, Away, Counted, Enrolled,
         Conn, Code, MemberLoop, Relayed, Watch, Places, NoConn, NoCode, Loop

\* What is changed of a connection leaves it one.
LEMMA ConnEdits ==
    ASSUME NEW k \in Conn
    PROVE  /\ [k EXCEPT !.open = FALSE] \in Conn /\ [k EXCEPT !.alive = FALSE] \in Conn
           /\ \A at \in Places : [k EXCEPT !.at = at] \in Conn
           /\ [k EXCEPT !.open = FALSE, !.at = "gone"] \in Conn
           /\ [k EXCEPT !.at = "gone", !.open = FALSE] \in Conn
           /\ \A P \in SUBSET Requests : [k EXCEPT !.pending = P] \in Conn
<1>1. [k EXCEPT !.open = FALSE] \in Conn BY DEF Conn
<1>2. [k EXCEPT !.alive = FALSE] \in Conn BY DEF Conn
<1>3. ASSUME NEW at \in Places PROVE [k EXCEPT !.at = at] \in Conn BY <1>3 DEF Conn
<1>4. [k EXCEPT !.open = FALSE, !.at = "gone"] \in Conn BY DEF Conn, Places
<1>5. [k EXCEPT !.at = "gone", !.open = FALSE] \in Conn BY DEF Conn, Places
<1>6. ASSUME NEW P \in SUBSET Requests PROVE [k EXCEPT !.pending = P] \in Conn BY <1>6 DEF Conn
<1>7. QED BY <1>1, <1>2, <1>3, <1>4, <1>5, <1>6

\* A function with another value at one place is of the same type.
LEMMA PutIn ==
    ASSUME NEW S, NEW T, NEW f \in [S -> T], NEW c, NEW v, c \in S => v \in T
    PROVE  [f EXCEPT ![c] = v] \in [S -> T]
  OBVIOUS

\* So the connections with another one in a slot.
LEMMA PutConn ==
    ASSUME NEW f \in [Slots -> Conn], NEW c, NEW v, c \in Slots => v \in Conn
    PROVE  [f EXCEPT ![c] = v] \in [Slots -> Conn]
  BY PutIn

\* Of another connection, or of one that is only opened, closed, lost or asked, nothing that a
\* tunnel stands on changes.
Alike(k, m) == m.at = k.at /\ m.box = k.box /\ m.key = k.key

\* Closing a connection, losing its peer or changing its pending requests leaves its master, box and
\* key.
LEMMA AlikeEdits ==
    ASSUME NEW k \in Conn
    PROVE  /\ Alike(k, [k EXCEPT !.open = FALSE]) /\ Alike(k, [k EXCEPT !.alive = FALSE])
           /\ \A P : Alike(k, [k EXCEPT !.pending = P])
<1>1. Alike(k, [k EXCEPT !.open = FALSE]) BY DEF Conn, Alike
<1>2. Alike(k, [k EXCEPT !.alive = FALSE]) BY DEF Conn, Alike
<1>3. ASSUME NEW P PROVE Alike(k, [k EXCEPT !.pending = P]) BY DEF Conn, Alike
<1>4. QED BY <1>1, <1>2, <1>3

\* Closing connections leaves all that a tunnel stands on.
LEMMA ShutKeeps ==
    ASSUME TunnelTypes, NEW C
    PROVE  Shut(C) \in [Slots -> Conn] /\ \A c \in Slots : Alike(conns[c], Shut(C)[c])
<1>1. conns \in [Slots -> Conn] BY DEF TunnelTypes
<1>2. Shut(C) \in [Slots -> Conn] BY <1>1, ConnEdits DEF Shut
<1>3. ASSUME NEW c \in Slots PROVE Alike(conns[c], Shut(C)[c])
  <2>1. Shut(C)[c] = IF c \in C THEN [conns[c] EXCEPT !.open = FALSE] ELSE conns[c] BY DEF Shut
  <2>2. Alike(conns[c], [conns[c] EXCEPT !.open = FALSE]) BY <1>1, AlikeEdits
  <2>3. QED BY <2>1, <2>2 DEF Alike
<1>4. QED BY <1>2, <1>3

\* Taking tunnels away leaves the types; no tunnel comes of it.
LEMMA WithoutKeeps ==
    ASSUME NEW f \in [Ids -> Nat], NEW B
    PROVE  /\ Without(f, B) \in [Ids -> Nat]
           /\ \A b \in Ids : Without(f, B)[b] = IF b \in B THEN 0 ELSE f[b]
  BY DEF Without


\* The steps of the member leave the connections of their type.
LEMMA MemberConns == ASSUME TunnelInv, memberStep PROVE conns' \in [Slots -> Conn]
<1> USE DEF masterSide
<1>0. conns \in [Slots -> Conn] /\ member.st \in Code /\ member.conn \in Slots \cup {0} BY DEF TunnelInv, TunnelTypes, MemberLoop
<1>1. CASE Run \/ Woken \/ Backoff BY <1>0, <1>1 DEF Run, Woken, Backoff
<1>2. CASE dial
  <2>1. CASE UNCHANGED conns BY <1>0, <2>1
  <2>2. CASE authorize(member.st) /\ \E c \in Slots : Unused(c)
    <3> DEFINE c == CHOOSE x \in Slots : Unused(x)
               new == [at |-> "upgraded", open |-> TRUE, alive |-> TRUE, box |-> member.st.box,
                       key |-> member.st.key, pending |-> {}]
    <3>1. new \in Conn BY <1>0 DEF Conn, Code, Places
    <3>2. [conns EXCEPT ![c] = new] \in [Slots -> Conn] BY <1>0, <3>1, PutConn
    <3>3. QED BY <1>2, <2>1, <3>2 DEF dial
  <2>3. QED BY <1>2, <2>1, <2>2 DEF dial
<1>3. CASE hello
  <2>1. [conns EXCEPT ![member.conn].at = "hello"] \in [Slots -> Conn] BY <1>0, ConnEdits, PutConn DEF Places
  <2>2. [conns EXCEPT ![member.conn].alive = FALSE] \in [Slots -> Conn] BY <1>0, ConnEdits, PutConn
  <2>3. QED BY <1>3, <2>1, <2>2 DEF hello
<1>4. CASE watcher
  <2>1. Shut({member.conn}) \in [Slots -> Conn] BY ShutKeeps DEF TunnelInv
  <2>2. [Shut({member.conn}) EXCEPT ![member.conn].alive = FALSE] \in [Slots -> Conn] BY <2>1, ConnEdits, PutConn
  <2>3. QED BY <1>0, <1>4, <2>2 DEF watcher, Restart
<1>5. CASE SessionEnds
  <2>1. [conns EXCEPT ![member.conn].alive = FALSE] \in [Slots -> Conn] BY <1>0, ConnEdits, PutConn
  <2>2. QED BY <1>5, <2>1 DEF SessionEnds
<1>6. QED BY <1>1, <1>2, <1>3, <1>4, <1>5 DEF memberStep

\* The steps of the member leave the other types as they are.
LEMMA MemberTypes == ASSUME TunnelInv, memberStep PROVE TunnelTypes'
<1>1. conns' \in [Slots -> Conn] BY MemberConns
<1> USE <1>1, FleetTunnelAssumption DEF TunnelInv, TunnelTypes, masterSide, memberSide, bounds, Loop, Code, MemberLoop, NoCode
<1>2. CASE Run BY <1>2 DEF Run
<1>3. CASE Woken \/ Backoff BY <1>3 DEF Woken, Backoff
<1>4. CASE dial
  <2> DEFINE free == CHOOSE x \in Slots : Unused(x)
  <2>1. (\E c \in Slots : Unused(c)) => free \in Slots OBVIOUS
  <2>2. member' = Loop("wait") \/ (free \in Slots /\ member' = [member EXCEPT !.at = "hello", !.conn = free])
    BY <1>4, <2>1 DEF dial
  <2> HIDE DEF free
  <2>3. UNCHANGED <<master, tunnels, memberFile, req, watch, codes, made>> BY <1>4 DEF dial
  <2>4. free \in Slots => [member EXCEPT !.at = "hello", !.conn = free] \in MemberLoop OBVIOUS
  <2>5. Loop("wait") \in MemberLoop OBVIOUS
  <2>6. member' \in MemberLoop BY <2>2, <2>4, <2>5
  <2>7. QED BY <2>3, <2>6
<1>5. CASE hello BY <1>5 DEF hello
<1>6. CASE watcher BY <1>6 DEF watcher, Restart
<1>7. CASE SessionEnds BY <1>7 DEF SessionEnds
<1>8. QED BY <1>2, <1>3, <1>4, <1>5, <1>6, <1>7 DEF memberStep

\* So do the steps of the master's end, of the network and of the relayed requests.
LEMMA MasterConns ==
    ASSUME TunnelInv, masterStep \/ faultStep \/ relayStep \/ askStep
    PROVE  conns' \in [Slots -> Conn]
<1> USE DEF masterSide
<1>0. conns \in [Slots -> Conn] BY DEF TunnelInv, TunnelTypes
<1>1. ASSUME NEW C PROVE Shut(C) \in [Slots -> Conn] BY ShutKeeps DEF TunnelInv
<1>2. ASSUME NEW c \in Slots PROVE /\ [conns EXCEPT ![c].at = "serving"] \in [Slots -> Conn]
                                   /\ [conns EXCEPT ![c].open = FALSE, ![c].at = "gone"] \in [Slots -> Conn]
                                   /\ [conns EXCEPT ![c].at = "gone", ![c].open = FALSE] \in [Slots -> Conn]
  <2>1. [conns EXCEPT ![c].at = "serving"] \in [Slots -> Conn] BY <1>0, ConnEdits, PutConn DEF Places
  <2>2. [conns[c] EXCEPT !.open = FALSE, !.at = "gone"] \in Conn /\ [conns[c] EXCEPT !.at = "gone", !.open = FALSE] \in Conn
    BY <1>0, ConnEdits
  <2>3. QED BY <1>0, <2>1, <2>2
<1>3. ASSUME NEW c \in Slots, attach(c) \/ helloWait(c) \/ detach(c) \/ Close(c) PROVE conns' \in [Slots -> Conn]
  <2>1. CASE attach(c) BY <1>2, <2>1 DEF attach, Attach
  <2>2. CASE helloWait(c) BY <1>2, <2>2 DEF helloWait
  <2>3. CASE detach(c) BY <1>2, <2>3 DEF detach, Detach
  <2>4. CASE Close(c) BY <1>1, <2>4 DEF Close
  <2>5. QED BY <1>3, <2>1, <2>2, <2>3, <2>4
<1>4. CASE pokeMember BY <1>0, <1>1, <1>4 DEF pokeMember
<1>5. CASE DialFails \/ MemberDies
  <2>1. [conns EXCEPT ![member.conn].alive = FALSE] \in [Slots -> Conn] BY <1>0, ConnEdits, PutConn
  <2>2. QED BY <1>0, <1>5, <2>1 DEF DialFails, MemberDies
<1>6. CASE MasterRestarts
  <2>1. \A c \in Slots : [conns[c] EXCEPT !.open = FALSE, !.at = "gone"] \in Conn BY <1>0, ConnEdits
  <2>2. QED BY <1>6, <2>1 DEF MasterRestarts
<1>7. ASSUME NEW c \in Slots, Breaks(c) PROVE conns' \in [Slots -> Conn] BY <1>1, <1>7 DEF Breaks
<1>8. ASSUME NEW r \in Requests, register(r) \/ execute(r) \/ answer(r) \/ RelayGets(r) \/ RelayOffline(r) \/ RelayTimeout(r)
                                 \/ \E b \in Ids : Relay(r, b)
      PROVE  conns' \in [Slots -> Conn]
  <2> DEFINE c == req[r].conn
  <2>1. c \in Slots => conns[c].pending \in SUBSET Requests BY <1>0 DEF Conn
  <2>2. [conns EXCEPT ![c].pending = conns[c].pending \cup {r}] \in [Slots -> Conn] BY <1>0, <2>1, ConnEdits, PutConn
  <2>3. [conns EXCEPT ![c].pending = conns[c].pending \ {r}] \in [Slots -> Conn] BY <1>0, <2>1, ConnEdits, PutConn
  <2>4. QED BY <1>0, <1>8, <2>2, <2>3 DEF register, execute, answer, RelayGets, RelayOffline, RelayTimeout, Relay, unregister
<1>9. QED BY <1>3, <1>4, <1>5, <1>6, <1>7, <1>8 DEF masterStep, faultStep, relayStep, askStep

\* And the calls of the owner and the watch.
LEMMA OwnerConns == ASSUME TunnelInv, ownerStep \/ watchStep PROVE conns' \in [Slots -> Conn]
<1> USE DEF masterSide
<1>0. conns \in [Slots -> Conn] BY DEF TunnelInv, TunnelTypes
<1>1. ASSUME NEW C PROVE Shut(C) \in [Slots -> Conn] BY ShutKeeps DEF TunnelInv
<1>2. CASE AddBox BY <1>1, <1>2 DEF AddBox
<1>3. ASSUME NEW c \in codes, enrol(c) PROVE conns' \in [Slots -> Conn] BY <1>1, <1>3 DEF enrol
<1>4. CASE enableMaster \/ DisableMaster \/ Leave \/ (\E b \in Ids : RemoveBox(b) \/ RotateCode(b)) \/ watchStep
  BY <1>0, <1>4 DEF enableMaster, DisableMaster, Leave, RemoveBox, RotateCode, watchStep, Tick, checkOffline
<1>5. QED BY <1>2, <1>3, <1>4 DEF ownerStep

\* The rest of the types, for the steps that change more than connections.
LEMMA OwnerTypes == ASSUME TunnelInv, ownerStep PROVE TunnelTypes'
<1>1. conns' \in [Slots -> Conn] BY OwnerConns
<1>0. tunnels \in [Ids -> Nat] /\ master.key \in [Ids -> Nat] BY DEF TunnelInv, TunnelTypes
<1>2. ASSUME NEW B PROVE Without(tunnels, B) \in [Ids -> Nat] /\ Without(master.key, B) \in [Ids -> Nat]
  BY <1>0, WithoutKeeps
<1> USE <1>1, <1>2, FleetTunnelAssumption DEF TunnelInv, TunnelTypes, masterSide, memberSide, Op, Code, NoCode
<1>3. CASE enableMaster BY <1>3 DEF enableMaster
<1>4. CASE DisableMaster BY <1>4 DEF DisableMaster
<1>5. CASE AddBox
  <2>1. made + 1 \in Ids /\ made' = made + 1 BY <1>5 DEF AddBox, Ids
  <2>2. master' \in [on : BOOLEAN, key : [Ids -> Nat]]
    <3> DEFINE gone == IF selfBox THEN {b \in Ids : master.key[b] # 0} ELSE {}
    <3>1. [Without(master.key, gone) EXCEPT ![made'] = made'] \in [Ids -> Nat] BY <2>1
    <3>2. master' = [master EXCEPT !.key = [Without(master.key, gone) EXCEPT ![made'] = made']] BY <1>5 DEF AddBox
    <3> HIDE DEF gone
    <3>3. QED BY <3>1, <3>2
  <2>3. tunnels' \in [Ids -> Nat] BY <1>5 DEF AddBox
  <2>4. memberFile' \in Code /\ codes' \subseteq Code BY <1>5, <2>1 DEF AddBox
  <2>5. QED BY <1>5, <2>1, <2>2, <2>3, <2>4 DEF AddBox
<1>6. CASE Leave BY <1>6 DEF Leave
<1>7. ASSUME NEW b \in Ids, RemoveBox(b) PROVE TunnelTypes' BY <1>7 DEF RemoveBox
<1>8. ASSUME NEW b \in Ids, RotateCode(b) PROVE TunnelTypes'
  <2>1. watch' \in Watch BY <1>8 DEF RotateCode, Watch
  <2>2. made' \in Nat BY <1>8 DEF RotateCode
  <2>3. memberFile' \in Code /\ codes' \subseteq Code BY <1>8, <2>2 DEF RotateCode
  <2>4. master' \in [on : BOOLEAN, key : [Ids -> Nat]] BY <1>8, <2>2 DEF RotateCode
  <2>5. tunnels' \in [Ids -> Nat] BY <1>8 DEF RotateCode
  <2>6. QED BY <1>8, <2>1, <2>2, <2>3, <2>4, <2>5 DEF RotateCode
<1>9. ASSUME NEW c \in codes, enrol(c) PROVE TunnelTypes' BY <1>9 DEF enrol
<1>10. QED BY <1>3, <1>4, <1>5, <1>6, <1>7, <1>8, <1>9 DEF ownerStep

\* A box that is seen keeps the watch of its type.
Seen(w, b) == [w EXCEPT !.age[b] = 0, !.quiet[b] = 0, !.cut = @ \ {b}]

\* Marking a box as seen keeps the watch well formed.
LEMMA WatchSeen ==
    ASSUME NEW w \in Watch, NEW b
    PROVE  Seen(w, b) \in Watch
<1> DEFINE age == [w.age EXCEPT ![b] = 0]
           quiet == [w.quiet EXCEPT ![b] = 0]
           cut == w.cut \ {b}
<1>1. age \in [Ids -> Int]
  <2>1. w.age \in [Ids -> Int] BY DEF Watch
  <2>2. QED BY <2>1, PutIn
<1>2. quiet \in [Ids -> Nat]
  <2>1. w.quiet \in [Ids -> Nat] BY DEF Watch
  <2>2. QED BY <2>1
<1>3. cut \in SUBSET Ids BY DEF Watch
<1>4. Seen(w, b) = [w EXCEPT !.age = age, !.quiet = quiet, !.cut = cut] BY DEF Watch, Seen
<1> HIDE DEF age, quiet, cut
<1>5. QED BY <1>1, <1>2, <1>3, <1>4 DEF Watch

\* The steps of the master keep the types.
LEMMA MasterTypes == ASSUME TunnelInv, masterStep PROVE TunnelTypes'
<1>1. conns' \in [Slots -> Conn] BY MasterConns
<1> USE <1>1, FleetTunnelAssumption DEF TunnelInv, TunnelTypes, masterSide, memberSide, bounds
<1>2. ASSUME NEW c \in Slots, attach(c) PROVE TunnelTypes'
  <2>1. tunnels' \in [Ids -> Nat] BY <1>2 DEF attach, Attach
  <2>2. watch' \in Watch
    <3>1. watch' = watch \/ watch' = Seen(watch, conns[c].box) BY <1>2 DEF attach, Attach, Seen
    <3>2. QED BY <3>1, WatchSeen
  <2>3. QED BY <1>2, <2>1, <2>2 DEF attach, Attach
<1>3. ASSUME NEW c \in Slots, helloWait(c) PROVE TunnelTypes' BY <1>3 DEF helloWait
<1>4. ASSUME NEW c \in Slots, detach(c) PROVE TunnelTypes'
  <2>1. tunnels' \in [Ids -> Nat] BY <1>4 DEF detach, Detach
  <2>2. watch' \in Watch BY <1>4 DEF detach, Detach, Watch
  <2>3. QED BY <1>4, <2>1, <2>2 DEF detach, Detach
<1>5. ASSUME NEW c \in Slots, Close(c) PROVE TunnelTypes' BY <1>5 DEF Close
<1>6. CASE pokeMember BY <1>6 DEF pokeMember
<1>7. QED BY <1>2, <1>3, <1>4, <1>5, <1>6 DEF masterStep

\* The faults keep the types.
LEMMA FaultTypes == ASSUME TunnelInv, faultStep PROVE TunnelTypes'
<1>1. conns' \in [Slots -> Conn] BY MasterConns
<1> USE <1>1, FleetTunnelAssumption DEF TunnelInv, TunnelTypes, masterSide, memberSide
<1>2. Loop("wait") \in MemberLoop /\ Loop("load") \in MemberLoop BY DEF Loop, MemberLoop, Code, NoCode
<1>3. CASE DialFails BY <1>2, <1>3 DEF DialFails
<1>4. CASE MemberDies BY <1>2, <1>4 DEF MemberDies
<1>5. CASE MasterRestarts
  <2>1. tunnels' \in [Ids -> Nat] BY <1>5, WithoutKeeps DEF MasterRestarts
  <2>2. watch' \in Watch BY <1>5 DEF MasterRestarts, Watch
  <2>3. req' \in [Requests -> Relayed]
    BY <1>5, ZenonT(60) DEF MasterRestarts, Relayed
  <2>4. QED BY <1>2, <1>5, <2>1, <2>2, <2>3 DEF MasterRestarts
<1>6. ASSUME NEW c \in Slots, Breaks(c) PROVE TunnelTypes' BY <1>6 DEF Breaks
<1>7. QED BY <1>3, <1>4, <1>5, <1>6 DEF faultStep

\* The steps of the relay and the requests through it keep the types.
LEMMA RelayTypes == ASSUME TunnelInv, relayStep \/ askStep PROVE TunnelTypes'
<1>1. conns' \in [Slots -> Conn] BY MasterConns
<1> USE <1>1, FleetTunnelAssumption DEF TunnelInv, TunnelTypes, masterSide, memberSide, bounds
<1>2. PICK r \in Requests : register(r) \/ execute(r) \/ answer(r) \/ RelayGets(r) \/ RelayOffline(r) \/ RelayTimeout(r)
                            \/ \E b \in Ids : Relay(r, b)
  BY DEF relayStep, askStep
<1>3. member' \in MemberLoop
  <2>1. CASE execute(r) BY <2>1 DEF execute, MemberLoop
  <2>2. CASE answer(r) BY <2>2 DEF answer, MemberLoop
  <2>3. QED BY <1>2, <2>1, <2>2 DEF register, RelayGets, RelayOffline, RelayTimeout, Relay
<1>4. req' \in [Requests -> Relayed]
  <2> USE DEF Ends, Relayed
  <2>1. CASE register(r) BY <2>1 DEF register
  <2>2. CASE execute(r) BY <2>2 DEF execute
  <2>3. CASE answer(r) BY <2>3 DEF answer
  <2>4. CASE RelayGets(r) \/ RelayOffline(r) \/ RelayTimeout(r) BY <2>4 DEF RelayGets, RelayOffline, RelayTimeout
  <2>5. ASSUME NEW b \in Ids, Relay(r, b) PROVE req' \in [Requests -> Relayed]
    BY <2>5 DEF Relay
  <2>6. QED BY <1>2, <2>1, <2>2, <2>3, <2>4, <2>5
<1>5. QED BY <1>2, <1>3, <1>4 DEF register, execute, answer, RelayGets, RelayOffline, RelayTimeout, Relay

\* The steps of the watch over the boxes keep the types.
LEMMA WatchTypes == ASSUME TunnelInv, watchStep PROVE TunnelTypes'
<1>1. conns' \in [Slots -> Conn] BY OwnerConns
<1> USE <1>1, FleetTunnelAssumption DEF TunnelInv, TunnelTypes, masterSide, memberSide, bounds
<1>2. CASE Tick
  <2>1. watch' \in Watch
    <3> DEFINE age == [b \in Ids |-> IF watch.age[b] = -1 THEN -1 ELSE UpTo(watch.age[b], OfflineAfter)]
               quiet == [b \in Ids |-> IF tunnels[b] # 0 THEN 0 ELSE UpTo(watch.quiet[b], OfflineAfter)]
    <3>1. UpTo(watch.up, StartGrace) \in Nat BY DEF Watch, UpTo
    <3>2. age \in [Ids -> Int] BY DEF Watch, UpTo
    <3>3. quiet \in [Ids -> Nat] BY DEF Watch, UpTo
    <3>4. watch' = [watch EXCEPT !.up = UpTo(watch.up, StartGrace), !.age = age, !.quiet = quiet] BY <1>2 DEF Tick
    <3> HIDE DEF age, quiet
    <3>5. QED BY <3>1, <3>2, <3>3, <3>4 DEF Watch
  <2>2. QED BY <1>2, <2>1 DEF Tick
<1>3. CASE checkOffline
  <2>1. watch' \in Watch BY <1>3 DEF checkOffline, Watch
  <2>2. QED BY <1>3, <2>1 DEF checkOffline
<1>4. QED BY <1>2, <1>3 DEF watchStep

\* Every step leaves the types as they are.
LEMMA TunnelTypesStep == ASSUME TunnelInv, [tunnelNext]_tunnelVars PROVE TunnelTypes'
<1>1. CASE UNCHANGED tunnelVars
  BY <1>1 DEF TunnelInv, TunnelTypes, tunnelVars, masterSide, memberSide, bounds
<1>2. QED BY <1>1, MemberTypes, OwnerTypes, MasterTypes, FaultTypes, RelayTypes, WatchTypes DEF tunnelNext

-------------------------------------------------------------------------------
\* What a step that changes neither boxes nor tunnels nor the watch leaves of the invariant: the
\* connections that serve go on as they are.
LEMMA AsideKeeps ==
    ASSUME TunnelInv, TunnelTypes', Greeting', UNCHANGED <<master, tunnels, watch, made>>,
           \A c \in Slots : conns[c].at = "serving" => Alike(conns[c], conns'[c])
    PROVE  TunnelInv'
<1>1. Served' BY DEF TunnelInv, Served, Enrolled, Alike
<1>2. QED BY <1>1 DEF TunnelInv, Enlisted, Away, Counted

\* The loop of the member. A dial takes a slot that nobody holds, and a hello one that does not serve.
LEMMA MemberKeeps == ASSUME TunnelInv, memberStep PROVE TunnelInv'
<1> USE DEF masterSide, memberSide, bounds
<1>1. TunnelTypes' BY MemberTypes
<1>0. conns \in [Slots -> Conn] /\ conns' \in [Slots -> Conn] BY <1>1 DEF TunnelInv, TunnelTypes
<1> DEFINE Serve == \A d \in Slots : conns[d].at = "serving" => Alike(conns[d], conns'[d])
<1>2. UNCHANGED <<master, tunnels, watch, made>>
  BY DEF memberStep, Run, Woken, Backoff, dial, hello, watcher, SessionEnds
<1>3. ASSUME NEW c, conns' = [conns EXCEPT ![c].alive = FALSE] PROVE Serve
  <2>1. c \in Slots => Alike(conns[c], [conns[c] EXCEPT !.alive = FALSE]) BY <1>0, AlikeEdits
  <2>2. QED BY <1>0, <1>3, <2>1 DEF Alike
<1>4. CASE Run \/ Woken \/ Backoff
  <2>1. Serve /\ Greeting' BY <1>4 DEF Run, Woken, Backoff, Alike, Greeting, Loop
  <2>2. QED BY <1>1, <1>2, <2>1, AsideKeeps
<1>5. CASE dial
  <2> DEFINE c == CHOOSE x \in Slots : Unused(x)
             new == [at |-> "upgraded", open |-> TRUE, alive |-> TRUE, box |-> member.st.box,
                     key |-> member.st.key, pending |-> {}]
  <2>1. CASE member' = Loop("wait") /\ UNCHANGED conns
    <3>1. Serve /\ Greeting' BY <2>1 DEF Alike, Greeting, Loop
    <3>2. QED BY <1>1, <1>2, <3>1, AsideKeeps
  <2>2. CASE /\ \E x \in Slots : Unused(x)
             /\ conns' = [conns EXCEPT ![c] = new] /\ member' = [member EXCEPT !.at = "hello", !.conn = c]
    <3>1. c \in Slots /\ conns[c].at = "gone" BY <2>2 DEF Unused
    <3> HIDE DEF c
    <3>2. Serve BY <1>0, <2>2, <3>1 DEF Alike
    <3>3. Greeting' BY <1>0, <2>2, <3>1 DEF Greeting, TunnelInv, TunnelTypes, MemberLoop
    <3>4. QED BY <1>1, <1>2, <3>2, <3>3, AsideKeeps
  <2>3. QED BY <1>5, <2>1, <2>2 DEF dial
<1>6. CASE hello
  <2>1. member.conn \in Slots /\ conns[member.conn].at # "serving" BY <1>6 DEF hello, TunnelInv, Greeting
  <2>2. ASSUME conns' = [conns EXCEPT ![member.conn].at = "hello"] PROVE Serve
    BY <1>0, <2>1, <2>2 DEF Alike
  <2>3. Serve BY <1>3, <1>6, <2>2 DEF hello
  <2>4. Greeting' BY <1>6 DEF hello, Greeting, Loop, TunnelInv, TunnelTypes, MemberLoop
  <2>5. QED BY <1>1, <1>2, <2>3, <2>4, AsideKeeps
<1>7. CASE watcher
  <2> DEFINE c == member.conn
             S == Shut({c})
  <2>1. Greeting' BY <1>7 DEF watcher, Restart, Greeting, TunnelInv, TunnelTypes, MemberLoop
  <2>2. ASSUME conns' = [S EXCEPT ![c].alive = FALSE] PROVE Serve
    <3>1. S \in [Slots -> Conn] /\ \A d \in Slots : Alike(conns[d], S[d]) BY ShutKeeps DEF TunnelInv
    <3> HIDE DEF c, S
    <3>2. c \in Slots => Alike(S[c], [S[c] EXCEPT !.alive = FALSE]) BY <3>1, AlikeEdits
    <3>3. QED BY <2>2, <3>1, <3>2 DEF Alike
  <2>3. Serve BY <1>7, <2>2 DEF watcher, Restart, Alike
  <2>4. QED BY <1>1, <1>2, <2>1, <2>3, AsideKeeps
<1>8. CASE SessionEnds
  <2>1. Serve BY <1>3, <1>8 DEF SessionEnds
  <2>2. Greeting' BY <1>8 DEF SessionEnds, Greeting, Loop
  <2>3. QED BY <1>1, <1>2, <2>1, <2>2, AsideKeeps
<1>9. QED BY <1>4, <1>5, <1>6, <1>7, <1>8 DEF memberStep

\* The network and the relayed requests touch no tunnel; a master that restarts has none.
LEMMA FaultKeeps == ASSUME TunnelInv, faultStep PROVE TunnelInv'
<1> USE DEF masterSide, memberSide, bounds
<1>1. TunnelTypes' BY FaultTypes
<1>0. conns \in [Slots -> Conn] BY DEF TunnelInv, TunnelTypes
<1>2. CASE DialFails
  <2>1. Greeting' BY <1>2 DEF DialFails, Greeting, Loop
  <2>2. QED BY <1>1, <1>2, <2>1, AsideKeeps DEF DialFails, Alike
<1>3. CASE MemberDies
  <2>1. Greeting' BY <1>3 DEF MemberDies, Greeting, Loop
  <2>2. member.conn \in Slots => Alike(conns[member.conn], [conns[member.conn] EXCEPT !.alive = FALSE]) BY <1>0, AlikeEdits
  <2>3. \A d \in Slots : Alike(conns[d], conns'[d]) BY <1>0, <1>3, <2>2 DEF MemberDies, Alike
  <2>4. QED BY <1>1, <1>3, <2>1, <2>3, AsideKeeps DEF MemberDies
<1>4. CASE MasterRestarts
  <2>1. \A b \in Ids : tunnels'[b] = 0 BY <1>4 DEF MasterRestarts, Without
  <2>2. Served' BY <2>1 DEF Served
  <2>3. \A c \in Slots : conns'[c].at = "gone"
    <3>1. \A c \in Slots : [conns[c] EXCEPT !.open = FALSE, !.at = "gone"].at = "gone" BY <1>0 DEF Conn
    <3>2. QED BY <1>4, <3>1 DEF MasterRestarts
  <2>4. Greeting'
    <3>1. member' = Loop("load") \/ member' = member BY <1>4 DEF MasterRestarts
    <3>2. Loop("load").at = "load" BY DEF Loop
    <3>3. QED BY <2>3, <3>1, <3>2 DEF Greeting, TunnelInv
  <2>5. watch'.age = watch.age /\ watch'.up = 0 /\ watch'.quiet \in [Ids -> Nat]
    BY <1>1, <1>4 DEF MasterRestarts, TunnelInv, TunnelTypes, Watch
  <2>6. Enlisted' BY <1>4, <2>5 DEF MasterRestarts, Enlisted, TunnelInv
  <2>7. Away' BY <2>5 DEF Away, Counted
  <2>8. QED BY <1>1, <2>2, <2>4, <2>6, <2>7 DEF TunnelInv
<1>5. ASSUME NEW c \in Slots, Breaks(c) PROVE TunnelInv'
  <2>1. \A d \in Slots : Alike(conns[d], conns'[d]) BY <1>5, ShutKeeps DEF Breaks, TunnelInv
  <2>2. Greeting' BY <1>5, <2>1 DEF Breaks, Greeting, Alike, TunnelInv
  <2>3. QED BY <1>1, <1>5, <2>1, <2>2, AsideKeeps DEF Breaks
<1>6. QED BY <1>2, <1>3, <1>4, <1>5 DEF faultStep

\* The steps of the relay and the requests through it keep the invariant.
LEMMA RelayKeeps == ASSUME TunnelInv, relayStep \/ askStep PROVE TunnelInv'
<1> USE DEF masterSide, memberSide, bounds
<1>1. TunnelTypes' BY RelayTypes
<1>0. conns \in [Slots -> Conn] BY DEF TunnelInv, TunnelTypes
<1>2. PICK r \in Requests : register(r) \/ execute(r) \/ answer(r) \/ RelayGets(r) \/ RelayOffline(r) \/ RelayTimeout(r)
                            \/ \E b \in Ids : Relay(r, b)
  BY DEF relayStep, askStep
<1>3. \A d \in Slots : Alike(conns[d], conns'[d])
  <2>1. ASSUME NEW c, NEW P, conns' = [conns EXCEPT ![c].pending = P] PROVE \A d \in Slots : Alike(conns[d], conns'[d])
    <3>1. c \in Slots => Alike(conns[c], [conns[c] EXCEPT !.pending = P]) BY <1>0, AlikeEdits
    <3>2. QED BY <1>0, <2>1, <3>1 DEF Alike
  <2>2. \/ UNCHANGED conns
        \/ conns' = [conns EXCEPT ![req[r].conn].pending = conns[req[r].conn].pending \cup {r}]
        \/ conns' = [conns EXCEPT ![req[r].conn].pending = conns[req[r].conn].pending \ {r}]
    BY <1>2 DEF register, execute, answer, RelayGets, RelayOffline, RelayTimeout, Relay, unregister
  <2>3. QED BY <2>1, <2>2 DEF Alike
<1>4. member'.at = member.at /\ member'.conn = member.conn
  BY <1>2 DEF register, execute, answer, RelayGets, RelayOffline, RelayTimeout, Relay, TunnelInv, TunnelTypes, MemberLoop
<1>5. Greeting' BY <1>3, <1>4 DEF Greeting, Alike, TunnelInv
<1>6. UNCHANGED <<master, tunnels, watch, made>>
  BY <1>2 DEF register, execute, answer, RelayGets, RelayOffline, RelayTimeout, Relay
<1>7. QED BY <1>1, <1>3, <1>5, <1>6, AsideKeeps

\* The master's end: a hello is attached when the key is still the one of the box, and the end of a
\* connection takes away no tunnel but its own.
LEMMA MasterKeeps == ASSUME TunnelInv, masterStep PROVE TunnelInv'
<1> USE DEF masterSide, memberSide, bounds
<1>1. TunnelTypes' BY MasterTypes
<1>0. conns \in [Slots -> Conn] /\ tunnels \in [Ids -> Nat] BY DEF TunnelInv, TunnelTypes
<1>2. ASSUME NEW c \in Slots, attach(c) PROVE TunnelInv'
  <2> DEFINE b == conns[c].box
  <2>0. conns[c].at = "hello" BY <1>2 DEF attach, Attach
  <2>1. CASE authorize([box |-> b, key |-> conns[c].key])
    <3>1. b \in Ids /\ Enrolled(b) /\ master.key[b] = conns[c].key BY <2>1 DEF authorize
    <3>2. /\ tunnels' = [tunnels EXCEPT ![b] = c] /\ conns' = [conns EXCEPT ![c].at = "serving"]
          /\ watch' = Seen(watch, b) /\ UNCHANGED <<master, member, made>>
      BY <1>2, <2>1 DEF attach, Attach, Seen
    <3> HIDE DEF b
    <3>3. /\ conns'[c].at = "serving" /\ conns'[c].box = conns[c].box /\ conns'[c].key = conns[c].key
          /\ \A d \in Slots \ {c} : conns'[d] = conns[d]
      BY <1>0, <3>2 DEF Conn
    <3>4. Served'
      <4> SUFFICES ASSUME NEW o \in Ids, tunnels'[o] # 0
                   PROVE  /\ tunnels'[o] \in Slots /\ conns'[tunnels'[o]].at = "serving" /\ conns'[tunnels'[o]].box = o
                          /\ Enrolled(o)' /\ conns'[tunnels'[o]].key = master'.key[o]
        BY DEF Served
      <4>1. CASE o = b BY <1>0, <3>1, <3>2, <3>3, <4>1 DEF Enrolled, b
      <4>2. CASE o # b BY <1>0, <2>0, <3>2, <3>3, <4>2 DEF Enrolled, TunnelInv, Served
      <4>3. QED BY <4>1, <4>2
    <3>5. Greeting' BY <2>0, <3>2, <3>3 DEF Greeting, TunnelInv
    <3>6. \A o \in Ids \ {b} : /\ watch'.age[o] = watch.age[o] /\ watch'.quiet[o] = watch.quiet[o]
                               /\ (o \in watch'.cut <=> o \in watch.cut)
      BY <3>2 DEF Seen, TunnelInv, TunnelTypes, Watch
    <3>7. watch'.up = watch.up BY <3>2 DEF Seen, TunnelInv, TunnelTypes, Watch
    <3>8. Enlisted'
      <4>1. ~(b > made) BY <3>1 DEF Enrolled, TunnelInv, Enlisted
      <4>2. QED BY <3>2, <3>6, <4>1 DEF Enlisted, TunnelInv
    <3>9. Away'
      <4>1. tunnels'[b] # 0 BY <1>0, <3>1, <3>2, FleetTunnelAssumption
      <4>2. QED BY <1>0, <3>2, <3>6, <3>7, <4>1 DEF Away, Counted, TunnelInv
    <3>10. QED BY <1>1, <3>4, <3>5, <3>8, <3>9 DEF TunnelInv
  <2>2. CASE ~authorize([box |-> b, key |-> conns[c].key])
    <3>1. conns' = [conns EXCEPT ![c].open = FALSE, ![c].at = "gone"] /\ UNCHANGED <<tunnels, watch, master, member, made>>
      BY <1>2, <2>2 DEF attach, Attach
    <3>2. conns'[c].at = "gone" /\ \A d \in Slots \ {c} : conns'[d] = conns[d] BY <1>0, <3>1 DEF Conn
    <3>3. Greeting' BY <3>1, <3>2 DEF Greeting, TunnelInv
    <3>4. \A d \in Slots : conns[d].at = "serving" => Alike(conns[d], conns'[d]) BY <2>0, <3>2 DEF Alike
    <3>5. QED BY <1>1, <3>1, <3>3, <3>4, AsideKeeps
  <2>3. QED BY <2>1, <2>2
<1>3. ASSUME NEW c \in Slots, helloWait(c) PROVE TunnelInv'
  <2>1. conns[c].at = "upgraded" /\ conns' = [conns EXCEPT ![c].open = FALSE, ![c].at = "gone"]
        /\ UNCHANGED <<tunnels, watch, master, member, made>>
    BY <1>3 DEF helloWait
  <2>2. conns'[c].at = "gone" /\ \A d \in Slots \ {c} : conns'[d] = conns[d] BY <1>0, <2>1 DEF Conn
  <2>3. Greeting' BY <2>1, <2>2 DEF Greeting, TunnelInv
  <2>4. \A d \in Slots : conns[d].at = "serving" => Alike(conns[d], conns'[d]) BY <2>1, <2>2 DEF Alike
  <2>5. QED BY <1>1, <2>1, <2>3, <2>4, AsideKeeps
<1>4. ASSUME NEW c \in Slots, detach(c) PROVE TunnelInv'
  <2> DEFINE b == conns[c].box
  <2>1. conns[c].at = "serving" /\ conns' = [conns EXCEPT ![c].at = "gone", ![c].open = FALSE] /\ UNCHANGED <<master, member, made>>
    BY <1>4 DEF detach, Detach
  <2>2. conns'[c].at = "gone" /\ \A d \in Slots \ {c} : conns'[d] = conns[d] BY <1>0, <2>1 DEF Conn
  <2>3. Greeting' BY <2>1, <2>2 DEF Greeting, TunnelInv
  <2>4. CASE tunnels[b] = c
    <3>1. tunnels' = [tunnels EXCEPT ![b] = 0] /\ watch' = IF Enrolled(b) THEN [watch EXCEPT !.age[b] = 0] ELSE watch
      BY <1>4, <2>4 DEF detach, Detach
    <3> HIDE DEF b
    <3>2. \A o \in Ids : tunnels'[o] # 0 => tunnels'[o] = tunnels[o] /\ o # b BY <1>0, <3>1
    <3>3. Served'
      <4>1. ASSUME NEW o \in Ids, tunnels'[o] # 0 PROVE tunnels[o] # c BY <3>2, <4>1 DEF Served, TunnelInv, b
      <4>2. ASSUME NEW o \in Ids, tunnels'[o] # 0 PROVE tunnels'[o] \in Slots /\ conns'[tunnels'[o]] = conns[tunnels[o]]
        BY <2>2, <3>2, <4>1, <4>2 DEF Served, TunnelInv
      <4>3. QED BY <2>1, <3>2, <4>2, ZenonT(60) DEF Served, Enrolled, TunnelInv
    <3>4. /\ \A o \in Ids \ {b} : watch'.age[o] = watch.age[o]
          /\ watch'.quiet = watch.quiet /\ watch'.cut = watch.cut /\ watch'.up = watch.up
          /\ Enrolled(b) /\ b \in Ids => watch'.age[b] = 0
      BY <3>1 DEF TunnelInv, TunnelTypes, Watch
    <3>5. Enlisted'
      <4>1. Enrolled(b) /\ b \in Ids => ~(b > made) BY DEF Enrolled, TunnelInv, Enlisted
      <4>2. ~Enrolled(b) => watch' = watch BY <3>1
      <4>3. QED BY <2>1, <3>4, <4>1, <4>2 DEF Enlisted, TunnelInv
    <3>6. Away'
      <4> SUFFICES ASSUME NEW o \in Ids, master'.key[o] # 0, tunnels'[o] = 0 PROVE Counted(o)'
        BY DEF Away
      <4>0. watch.quiet \in [Ids -> Nat] BY DEF TunnelInv, TunnelTypes, Watch
      <4>1. CASE o = b
        <5>1. Enrolled(b)
          <6>1. c # 0 BY FleetTunnelAssumption
          <6>2. QED BY <2>4, <4>1, <6>1 DEF TunnelInv, Served, b
        <5>2. QED BY <3>4, <4>0, <4>1, <5>1 DEF Counted
      <4>2. CASE o # b
        <5>1. tunnels[o] = 0 /\ master.key[o] # 0 BY <1>0, <2>1, <3>1, <4>2
        <5>2. Counted(o) BY <5>1 DEF TunnelInv, Away
        <5>3. QED BY <3>4, <4>2, <5>2 DEF Counted
      <4>3. QED BY <4>1, <4>2
    <3>7. QED BY <1>1, <2>3, <3>3, <3>5, <3>6 DEF TunnelInv
  <2>5. CASE tunnels[b] # c
    <3>1. UNCHANGED <<tunnels, watch>> BY <1>4, <2>5 DEF detach, Detach
    <3>2. \A o \in Ids : tunnels[o] # 0 => tunnels[o] # c BY <2>5 DEF Served, TunnelInv
    <3>3. Served'
      <4>1. ASSUME NEW o \in Ids, tunnels[o] # 0 PROVE conns'[tunnels[o]] = conns[tunnels[o]]
        BY <2>2, <3>2, <4>1 DEF Served, TunnelInv
      <4> SUFFICES ASSUME NEW o \in Ids, tunnels[o] # 0
                   PROVE  /\ tunnels[o] \in Slots /\ conns'[tunnels[o]].at = "serving" /\ conns'[tunnels[o]].box = o
                          /\ Enrolled(o)' /\ conns'[tunnels[o]].key = master'.key[o]
        BY <3>1 DEF Served
      <4>2. QED BY <2>1, <4>1 DEF Served, Enrolled, TunnelInv
    <3>4. QED BY <1>1, <2>1, <2>3, <3>1, <3>3 DEF TunnelInv, Enlisted, Away, Counted
  <2>6. QED BY <2>4, <2>5
<1>5. ASSUME NEW c \in Slots, Close(c) PROVE TunnelInv'
  <2>1. \A d \in Slots : Alike(conns[d], conns'[d]) BY <1>5, ShutKeeps DEF Close, TunnelInv
  <2>2. Greeting' BY <1>5, <2>1 DEF Close, Greeting, Alike, TunnelInv
  <2>3. QED BY <1>1, <1>5, <2>1, <2>2, AsideKeeps DEF Close
<1>6. CASE pokeMember
  <2>1. \A d \in Slots : Alike(conns[d], conns'[d]) BY <1>6, ShutKeeps DEF pokeMember, TunnelInv, Alike
  <2>2. Greeting' BY <1>6, <2>1 DEF pokeMember, Greeting, Alike, TunnelInv
  <2>3. QED BY <1>1, <1>6, <2>1, <2>2, AsideKeeps DEF pokeMember
<1>7. QED BY <1>2, <1>3, <1>4, <1>5, <1>6 DEF masterStep

\* The calls of the owner: whatever takes away or changes a key takes the tunnel with it.
LEMMA OwnerKeeps == ASSUME TunnelInv, ownerStep PROVE TunnelInv'
<1> USE DEF masterSide, memberSide, bounds
<1>1. TunnelTypes' BY OwnerTypes
<1>0. /\ tunnels \in [Ids -> Nat] /\ master.key \in [Ids -> Nat] /\ watch \in Watch /\ made \in Nat
      /\ conns \in [Slots -> Conn] /\ master \in [on : BOOLEAN, key : [Ids -> Nat]]
  BY DEF TunnelInv, TunnelTypes
<1> DEFINE Same == (\A d \in Slots : Alike(conns[d], conns'[d])) /\ UNCHANGED member
\* what is enough: of the boxes that keep a tunnel nothing changed
<1>2. ASSUME Same, made' >= made, made' \in Nat,
             \A b \in Ids : tunnels'[b] # 0 => tunnels'[b] = tunnels[b] /\ Enrolled(b)' /\ master'.key[b] = master.key[b]
      PROVE  Served' /\ Greeting'
  <2>1. Greeting' BY <1>2 DEF Greeting, Alike, TunnelInv
  <2>2. Served' BY <1>2 DEF Served, Alike, TunnelInv
  <2>3. QED BY <2>1, <2>2
<1>3. CASE enableMaster
  <2>1. Same BY <1>3 DEF enableMaster, Alike
  <2>2. master'.on /\ master'.key = master.key /\ UNCHANGED <<tunnels, watch, made>> BY <1>0, <1>3 DEF enableMaster
  <2>3. Served' /\ Greeting' BY <1>0, <1>2, <2>1, <2>2 DEF Served, Enrolled, TunnelInv
  <2>4. Enlisted' /\ Away' BY <2>2 DEF Enlisted, Away, Counted, TunnelInv
  <2>5. QED BY <1>1, <2>3, <2>4 DEF TunnelInv
<1>4. CASE DisableMaster
  <2>1. Same BY <1>4 DEF DisableMaster, Alike
  <2>2. (\A b \in Ids : tunnels'[b] = 0 /\ master'.key[b] = 0) /\ UNCHANGED <<watch, made>>
    BY <1>4 DEF DisableMaster, Without
  <2>3. Served' /\ Greeting' BY <1>0, <1>2, <2>1, <2>2
  <2>4. Enlisted' /\ Away' BY <2>2 DEF Enlisted, Away, TunnelInv
  <2>5. QED BY <1>1, <2>3, <2>4 DEF TunnelInv
<1>5. CASE AddBox
  <2> DEFINE gone == IF selfBox THEN {b \in Ids : master.key[b] # 0} ELSE {}
  <2>0. made' = made + 1 /\ made' \in Ids /\ UNCHANGED <<watch, member>> BY <1>0, <1>5, FleetTunnelAssumption DEF AddBox, Ids
  <2>1. Same BY <1>5, <2>0, ShutKeeps DEF AddBox, TunnelInv
  <2>2. tunnels' = Without(tunnels, gone) /\ master' = [master EXCEPT !.key = [Without(master.key, gone) EXCEPT ![made'] = made']]
    BY <1>5 DEF AddBox
  <2> HIDE DEF gone
  <2>3. master.on BY <1>5 DEF AddBox
  <2>4. /\ master'.on = master.on /\ master'.key[made'] # 0
        /\ \A b \in Ids \ {made'} : master'.key[b] = IF b \in gone THEN 0 ELSE master.key[b]
    <3>1. Without(master.key, gone) \in [Ids -> Nat] /\ \A b \in Ids : Without(master.key, gone)[b] = IF b \in gone THEN 0 ELSE master.key[b]
      BY <1>0, WithoutKeeps
    <3>2. master'.key = [Without(master.key, gone) EXCEPT ![made'] = made'] /\ master'.on = master.on BY <1>0, <2>2
    <3>3. QED BY <1>0, <2>0, <3>1, <3>2
  <2>5. \A b \in Ids : tunnels'[b] = IF b \in gone THEN 0 ELSE tunnels[b] BY <1>0, <2>2, WithoutKeeps
  <2>6. master.key[made'] = 0 /\ tunnels[made'] = 0 /\ watch.age[made'] = -1
    BY <1>0, <2>0 DEF TunnelInv, Enlisted, Served, Enrolled
  <2>7. Served' /\ Greeting'
    <3>1. ASSUME NEW b \in Ids, tunnels'[b] # 0
          PROVE  tunnels'[b] = tunnels[b] /\ Enrolled(b)' /\ master'.key[b] = master.key[b]
      <4>1. b \notin gone /\ b # made' /\ tunnels'[b] = tunnels[b] BY <2>5, <2>6, <3>1
      <4>2. Enrolled(b) BY <3>1, <4>1 DEF TunnelInv, Served
      <4>3. b \in Ids \ {made'} BY <4>1
      <4>4. master'.key[b] = master.key[b] /\ master'.on = master.on BY <2>4, <4>1, <4>3
      <4>5. master.on /\ master.key[b] # 0 BY <4>2 DEF Enrolled
      <4>6. master'.on /\ master'.key[b] # 0 BY <4>4, <4>5
      <4>7. Enrolled(b)' BY <4>6 DEF Enrolled
      <4>8. QED BY <4>1, <4>4, <4>7
    <3>2. \A b \in Ids : tunnels'[b] # 0 => tunnels'[b] = tunnels[b] /\ Enrolled(b)' /\ master'.key[b] = master.key[b]
      BY <3>1
    <3>3. made' >= made /\ made' \in Nat BY <1>0, <2>0
    <3>4. QED BY <1>2, <2>1, <3>2, <3>3
  <2>8. Enlisted' BY <1>0, <2>0, <2>4 DEF Enlisted, TunnelInv
  <2>9. Away'
    <3> SUFFICES ASSUME NEW b \in Ids, master'.key[b] # 0, tunnels'[b] = 0 PROVE Counted(b)'
      BY DEF Away
    <3>1. CASE b = made' BY <2>0, <2>6, <3>1 DEF Counted
    <3>2. CASE b # made'
      <4>1. b \notin gone /\ master.key[b] # 0 /\ tunnels[b] = 0 BY <2>4, <2>5, <3>2
      <4>2. Counted(b) BY <4>1 DEF TunnelInv, Away
      <4>3. QED BY <2>0, <4>2 DEF Counted
    <3>3. QED BY <3>1, <3>2
  <2>10. QED BY <1>1, <2>7, <2>8, <2>9 DEF TunnelInv
<1>6. CASE Leave
  <2>1. Same /\ UNCHANGED <<master, tunnels, watch, made>> BY <1>6 DEF Leave, Alike
  <2>2. Greeting' BY <2>1 DEF Greeting, Alike, TunnelInv
  <2>3. QED BY <1>1, <2>1, <2>2, AsideKeeps
<1>7. ASSUME NEW b \in Ids, RemoveBox(b) PROVE TunnelInv'
  <2>1. Same /\ UNCHANGED <<watch, made>> BY <1>7 DEF RemoveBox, Alike
  <2>2. /\ master'.on = master.on /\ master'.key[b] = 0 /\ tunnels'[b] = 0
        /\ \A o \in Ids \ {b} : master'.key[o] = master.key[o] /\ tunnels'[o] = tunnels[o]
    BY <1>0, <1>7, WithoutKeeps DEF RemoveBox
  <2>3. Served' /\ Greeting' BY <1>0, <1>2, <2>1, <2>2 DEF TunnelInv, Served, Enrolled
  <2>4. Enlisted' /\ Away' BY <1>0, <2>1, <2>2 DEF Enlisted, Away, Counted, TunnelInv
  <2>5. QED BY <1>1, <2>3, <2>4 DEF TunnelInv
<1>8. ASSUME NEW b \in Ids, RotateCode(b) PROVE TunnelInv'
  <2>1. Same BY <1>8 DEF RotateCode, Alike
  <2>2. made' \in Nat /\ made' >= made BY <1>0, <1>8 DEF RotateCode
  <2>3. /\ master'.on = master.on /\ tunnels'[b] = 0
        /\ \A o \in Ids \ {b} : master'.key[o] = master.key[o] /\ tunnels'[o] = tunnels[o]
    BY <1>0, <1>8, WithoutKeeps DEF RotateCode
  <2>4. /\ watch'.age = watch.age /\ watch'.quiet = watch.quiet /\ watch'.up = watch.up /\ watch.cut \subseteq watch'.cut
        /\ tunnels[b] # 0 => b \in watch'.cut
    BY <1>0, <1>8 DEF RotateCode, Watch
  <2>5. master.key[b] # 0 BY <1>8 DEF RotateCode, Enrolled
  <2>6. Served' /\ Greeting' BY <1>0, <1>2, <2>1, <2>2, <2>3 DEF TunnelInv, Served, Enrolled
  <2>7. Enlisted'
    <3>1. b \in Nat /\ \A o \in Ids : o \in Nat BY DEF Ids
    <3>2. ~(b > made) BY <2>5 DEF Enlisted, TunnelInv
    <3>3. QED BY <1>0, <2>2, <2>3, <2>4, <3>1, <3>2 DEF Enlisted, TunnelInv
  <2>8. Away' BY <2>3, <2>4, <2>5 DEF Away, Counted, TunnelInv
  <2>9. QED BY <1>1, <2>6, <2>7, <2>8 DEF TunnelInv
<1>9. ASSUME NEW c \in codes, enrol(c) PROVE TunnelInv'
  <2>1. Same /\ UNCHANGED <<master, tunnels, watch, made>> BY <1>9, ShutKeeps DEF enrol, TunnelInv
  <2>2. Greeting' BY <2>1 DEF Greeting, Alike, TunnelInv
  <2>3. QED BY <1>1, <2>1, <2>2, AsideKeeps
<1>10. QED BY <1>3, <1>4, <1>5, <1>6, <1>7, <1>8, <1>9 DEF ownerStep

\* Time adds to what a box is away as it adds to when it was seen and when the master started.
LEMMA WatchKeeps == ASSUME TunnelInv, watchStep PROVE TunnelInv'
<1> USE DEF masterSide, memberSide, bounds
<1>1. TunnelTypes' BY WatchTypes
<1>0. UNCHANGED <<master, tunnels, conns, member, made>> BY DEF watchStep, Tick, checkOffline
<1>2. Served' /\ Greeting' BY <1>0 DEF Served, Greeting, Enrolled, TunnelInv
<1>3. CASE Tick
  <2>1. /\ watch'.up = UpTo(watch.up, StartGrace) /\ watch'.cut = watch.cut
        /\ \A b \in Ids : /\ watch'.age[b] = IF watch.age[b] = -1 THEN -1 ELSE UpTo(watch.age[b], OfflineAfter)
                          /\ watch'.quiet[b] = IF tunnels[b] # 0 THEN 0 ELSE UpTo(watch.quiet[b], OfflineAfter)
    BY <1>3 DEF Tick, TunnelInv, TunnelTypes, Watch
  <2>2. Enlisted' BY <1>0, <2>1 DEF Enlisted, TunnelInv
  <2>3. Away'
    <3> SUFFICES ASSUME NEW b \in Ids, master.key[b] # 0, tunnels[b] = 0 PROVE Counted(b)'
      BY <1>0 DEF Away
    <3>1. Counted(b) BY DEF TunnelInv, Away
    <3>2. watch.up \in Nat /\ watch.age[b] \in Int /\ watch.quiet[b] \in Nat BY DEF TunnelInv, TunnelTypes, Watch
    <3>3. QED BY <2>1, <3>1, <3>2, FleetTunnelAssumption, GraceAssumption DEF Counted, UpTo
  <2>4. QED BY <1>1, <1>2, <2>2, <2>3 DEF TunnelInv
<1>4. CASE checkOffline
  <2>1. watch'.up = watch.up /\ watch'.cut = watch.cut /\ watch'.age = watch.age /\ watch'.quiet = watch.quiet
    BY <1>4 DEF checkOffline, TunnelInv, TunnelTypes, Watch
  <2>2. QED BY <1>0, <1>1, <1>2, <2>1 DEF TunnelInv, Enlisted, Away, Counted
<1>5. QED BY <1>3, <1>4 DEF watchStep

\* Every step keeps the invariant.
LEMMA TunnelStep == TunnelInv /\ [tunnelNext]_tunnelVars => TunnelInv'
<1> SUFFICES ASSUME TunnelInv, [tunnelNext]_tunnelVars PROVE TunnelInv' OBVIOUS
<1>1. CASE UNCHANGED tunnelVars
  BY <1>1 DEF TunnelInv, TunnelTypes, Served, Greeting, Enlisted, Away, Counted, Enrolled, tunnelVars, masterSide, memberSide, bounds
<1>2. QED BY <1>1, MemberKeeps, OwnerKeeps, MasterKeeps, FaultKeeps, RelayKeeps, WatchKeeps DEF tunnelNext

\* The invariant, for every behaviour of the tunnels.
THEOREM TunnelInvariant == tunnelSpec => []TunnelInv
  BY TunnelInit, TunnelStep, PTL DEF tunnelSpec

\* A live tunnel was made with the key that its box has now (master.go: attach looks at the key again,
\* under the lock that RotateCode, RemoveBox and DisableMaster take).
THEOREM OnlyCurrentKeyHolds == tunnelSpec => []OnlyCurrentKey
<1>1. TunnelInv => OnlyCurrentKey BY DEF TunnelInv, Served, OnlyCurrentKey, authorize
<1>2. QED BY <1>1, TunnelInvariant, PTL

\* An alert is raised only for a box that had no tunnel for the time that is said, or whose code was
\* rotated (offline.go: checkOffline).
THEOREM OfflineLongEnoughHolds == tunnelSpec => OfflineLongEnough
<1>1. ASSUME TunnelInv, tunnelNext, NEW b \in Raised PROVE watch.quiet[b] >= OfflineAfter \/ b \in watch.cut
  <2>1. checkOffline
    <3>1. watch'.alert # watch.alert BY <1>1 DEF Raised
    <3>2. ASSUME ~checkOffline PROVE watch'.alert \subseteq watch.alert
      <4>1. CASE Tick BY <4>1 DEF Tick, TunnelInv, TunnelTypes, Watch
      <4>2. CASE memberStep BY <4>2 DEF memberStep, Run, Woken, Backoff, dial, hello, watcher, SessionEnds
      <4>3. CASE ownerStep
        <5>1. UNCHANGED watch \/ \E o \in Ids : watch' = [watch EXCEPT !.cut = @ \cup {o}]
          BY <4>3 DEF ownerStep, enableMaster, DisableMaster, AddBox, Leave, RemoveBox, RotateCode, enrol
        <5>2. QED BY <1>1, <5>1 DEF TunnelInv, TunnelTypes, Watch
      <4>4. CASE masterStep
        <5>1. UNCHANGED watch \/ \E o : watch' = Seen(watch, o) \/ watch' = [watch EXCEPT !.age[o] = 0]
          BY <4>4 DEF masterStep, attach, Attach, helloWait, detach, Detach, Close, pokeMember, Seen
        <5>2. QED BY <1>1, <5>1 DEF TunnelInv, TunnelTypes, Watch, Seen
      <4>5. CASE faultStep
        <5>1. UNCHANGED watch \/ watch' = [watch EXCEPT !.up = 0, !.alert = {}]
          BY <4>5 DEF faultStep, DialFails, MemberDies, MasterRestarts, Breaks
        <5>2. QED BY <1>1, <5>1 DEF TunnelInv, TunnelTypes, Watch
      <4>6. CASE relayStep \/ askStep
        BY <4>6 DEF relayStep, askStep, register, execute, answer, RelayGets, RelayOffline, RelayTimeout, Relay
      <4>7. QED BY <1>1, <3>2, <4>1, <4>2, <4>3, <4>4, <4>5, <4>6 DEF tunnelNext, watchStep
    <3>3. QED BY <1>1, <3>2 DEF Raised
  <2>2. b \in Ids /\ Enrolled(b) /\ tunnels[b] = 0 /\ Gone(b)
    BY <1>1, <2>1 DEF checkOffline, Raised, TunnelInv, TunnelTypes, Watch
  <2>3. Counted(b) BY <1>1, <2>2 DEF TunnelInv, Away, Enrolled
  <2>4. watch.up \in Nat /\ watch.age[b] \in Int /\ watch.quiet[b] \in Nat BY <1>1, <2>2 DEF TunnelInv, TunnelTypes, Watch
  <2>5. QED BY <2>2, <2>3, <2>4, FleetTunnelAssumption, GraceAssumption DEF Counted, Gone
<1>2. TunnelInv /\ [tunnelNext]_tunnelVars => [\A b \in Raised : watch.quiet[b] >= OfflineAfter \/ b \in watch.cut]_tunnelVars
  BY <1>1
<1>3. QED BY <1>2, TunnelInvariant, PTL DEF tunnelSpec, OfflineLongEnough

-------------------------------------------------------------------------------
(* For any relays, fleets and number of calls, failures and stops of the core:    *)
(* between calls the files of the box, its network and the codes it hands out     *)
(* agree (RelayInOrder), and the owner's own network is not left (OwnerNetKept).  *)
(*                                                                                *)
(* RelayInOrder speaks of the time between calls only.  RelayInv says, for every  *)
(* place of every call, which file is written (Books), what the network is and    *)
(* which file names it (Nets), and of which fleet it is (Fleets).                 *)
\* A fleet at a relay, as a file or a call names it.
Fleet == [relay : Relays, fleet : Nat \ {0}]
Old == [relay : Relays \cup {""}, fleet : Nat]
Net == [login : Relays \cup {"", Own}, fleet : Nat, up : BOOLEAN]
Names == {"", "enable", "change", "disable", "code", "join", "leave"}
EnableAt == {"e.check", "e.own", "e.state", "create", "e.save", "key", "up", "addr", "e.master"}
ChangeAt == {"c.check", "create", "key", "c.down", "up", "addr", "c.save", "c.move", "c.lost", "c.back"}
LeaveAt == {"l.delete", "l.down", "l.clear"}
JoinAt == {"j.check", "j.down", "j.mark", "j.up", "j.addr", "j.enrol", "j.undo", "j.clear"}
Ats == EnableAt \cup ChangeAt \cup LeaveAt \cup JoinAt \cup {"idle", "d.remove", "k.relay", "k.code", "v.clear", "v.down"}
Call == [name : Names, at : Ats, relay : Relays \cup {""}, fleet : Nat, old : Old, down : BOOLEAN,
         then : {"idle", "e.own"}, key : BOOLEAN]

NetTypes ==
    /\ masterFile \in Fleet \cup {None} /\ relayFile \in Fleet \cup {None, Damaged}
    /\ memberJson \in Fleet \cup {None} /\ netOwn \in Relays \cup {""}
    /\ net \in Net /\ call \in Call /\ recode \in BOOLEAN
    /\ handed \in [key : Nat, fleet : Nat] /\ fleetsMade \in Nat /\ owners \in Nat

\* Which call is where, and the relays that its steps have.
CallPlaces ==
    /\ call.name = "" => call = NoCall
    /\ call.name = "enable" => call.at \in EnableAt \cup LeaveAt /\ call.relay \in Relays
    /\ call.name = "change" => call.at \in ChangeAt /\ call.relay \in Relays
    /\ call.name = "disable" => call.at \in LeaveAt \cup {"d.remove"} /\ call.then = "idle"
    /\ call.name = "code" => call.at \in {"k.relay", "k.code"}
    /\ call.name = "join" => call.at \in JoinAt /\ call.relay \in Relays /\ call.fleet # 0
    /\ call.name = "leave" => call.at \in {"v.clear", "v.down"}
    /\ call.at = "v.down" => call.relay \in Relays
    /\ call.name \in {"enable", "change"} /\ call.at \notin {"e.check", "e.own", "e.state", "c.check", "create"} \cup LeaveAt => call.fleet # 0
    /\ call.at \in {"l.delete", "l.down"} => call.old \in Fleet \/ (call.name = "disable" /\ call.old = None)
    /\ call.at = "l.down" => call.down
    /\ call.name = "change" /\ call.at # "c.check" => call.old \in Fleet
    /\ call.at = "j.down" => call.old.relay \in Relays
    /\ call.at \in {"j.down", "j.mark", "j.up", "j.addr", "j.undo", "j.clear"} => call.key

\* A box is a master or a member.
Either == /\ masterFile = None \/ memberJson = None
          /\ call.name = "join" /\ call.at # "j.check" => masterFile = None
          /\ call.name = "join" /\ ~call.key => memberJson # None
          /\ call.name = "enable" /\ call.at # "e.check" => masterFile = None /\ memberJson = None
          /\ call.name = "disable" => IF call.at = "d.remove" THEN masterFile # None ELSE masterFile = None /\ memberJson = None
          /\ call.name \in {"change", "code"} => masterFile # None
          /\ call.at = "v.down" => memberJson = None
\* The fleets of relay.json were made before the new one of a call.
Fresh == /\ relayFile.fleet <= fleetsMade
         /\ call.name = "change" => IF call.at \in {"c.check", "create"} THEN call.old.fleet <= fleetsMade
                                     ELSE call.old.fleet < call.fleet /\ call.fleet = fleetsMade
         /\ call.name = "enable" => call.fleet <= fleetsMade
\* A code is of the fleet that master.json names when it is handed out.
CodeInv == /\ handed # NoHanded => handed.key = handed.fleet /\ (masterFile.fleet # handed.fleet => recode)
           /\ call.at = "k.code" => masterFile.fleet = call.fleet

\* Nothing went wrong that is not repaired, but for a logout that a marker still names.
Clean == left \subseteq {"marked"}
\* The steps of an enable before the box is in the new network.
Before == call.name = "enable" /\ call.at \in {"e.state", "create", "e.save", "key", "up"}
Others == {memberJson.relay, netOwn}
\* What relay.json is during a call.
FileAt == /\ relayFile = Damaged => "damage" \in left
          /\ Clean /\ call.name = "enable" =>
                /\ call.at \in {"e.own", "e.state", "create", "e.save"} => relayFile = None
                /\ call.at \in {"key", "up", "addr", "e.master"} => relayFile = New
          /\ Clean /\ call.at \in {"l.delete", "l.down"} /\ call.down => relayFile = call.old
          /\ Clean /\ call.name = "change" =>
                /\ call.at \in {"create", "key", "c.down", "up", "addr", "c.save"} => relayFile = call.old
                /\ call.at = "c.move" => relayFile = New
                /\ call.at \in {"c.lost", "c.back"} => relayFile \in {call.old, New}
\* Where the box is logged in, and which marker it has, during a call.
NetAt == /\ call.at \in {"addr", "e.master", "c.save", "c.move", "j.addr", "j.enrol", "j.undo", "j.clear"} => net.login = call.relay
         /\ call.at \in {"j.up", "j.addr", "j.undo", "j.clear"} => netOwn = call.relay
         /\ call.at = "j.enrol" /\ call.key => netOwn = call.relay
         /\ call.at = "j.clear" => memberJson = New
         /\ call.at = "j.down" => /\ call.old.relay \in Others
                                  /\ netOwn # "" /\ netOwn # call.old.relay => net.login # netOwn
         /\ Clean /\ call.at = "c.back" => net.login # call.relay
         /\ Clean /\ net.login \in Relays /\ (Before \/ call.at \in {"e.own", "l.clear"} \/ (call.at = "l.delete" /\ ~call.down))
                => net.login \in Others
\* A network that the box joined is named by relay.json, member.json or the marker, but in two windows.
Excused == \/ call.name = "change" /\ call.at \in {"addr", "c.save", "c.lost"} /\ net.login = call.relay /\ net.fleet # loadRelay.fleet
           \/ call.at = "v.down" /\ net.login = call.relay /\ netOwn # call.relay
NamedInv == Clean /\ net.login \in Relays => net.login \in Others \cup {relayFile.relay} \/ Excused

\* The fleets, as long as nothing went wrong at all.
Marked == left = {} /\ (masterFile # None \/ Before \/ (call.name = "enable" /\ call.at \in {"addr", "e.master"})) => netOwn = ""
FleetAt ==
    left = {} =>
      /\ Before \/ (call.name = "change" /\ call.at \in {"up", "c.back"}) => net.login \notin Relays
      /\ call.at \in {"addr", "e.master", "c.save", "c.move"} => net.fleet = call.fleet
      /\ call.at = "c.lost" /\ net.login \in Relays => net.login = call.relay
JoinFleet ==
    left = {} /\ relayFile = None =>
      /\ call.at \in {"j.mark", "j.up"} /\ net.login \in Relays => net.login = call.relay /\ net.fleet = call.fleet /\ memberJson = New
      /\ call.at \in {"j.addr", "j.enrol"} => net.fleet = call.fleet
      /\ call.at = "j.enrol" /\ ~call.key => memberJson = New /\ netOwn \in {"", net.login}
MasterFleet ==
    left = {} /\ masterFile # None /\ net.login \in Relays /\ net.login = relayFile.relay =>
      net.fleet = relayFile.fleet \/ (call.name = "change" /\ call.at \in {"addr", "c.save", "c.lost"})
MemberFleet ==
    left = {} /\ relayFile = None /\ memberJson # None /\ net.login \in Relays =>
      \/ net.login = memberJson.relay /\ netOwn \in {"", net.login} /\ net.fleet = memberJson.fleet
      \/ call.name = "join" /\ call.at \in {"j.addr", "j.enrol", "j.undo"} /\ memberJson # New

Books == Either /\ Fresh /\ FileAt /\ CodeInv
Nets == NetAt /\ NamedInv
Fleets == Marked /\ FleetAt /\ JoinFleet /\ MasterFleet /\ MemberFleet
RelayInv == NetTypes /\ CallPlaces /\ Books /\ Nets /\ Fleets

-------------------------------------------------------------------------------
\* The fields of what is fixed.
LEMMA NoneFields == None.relay = "" /\ None.fleet = 0 /\ Damaged.relay = "damaged" /\ Damaged.fleet = 0 /\ None \in Old /\ None # Damaged
  BY DEF None, Damaged, Old

\* No fleet, and a damaged one, are not later than the fleets made.
LEMMA NoneMade == ASSUME fleetsMade \in Nat PROVE None.fleet <= fleetsMade /\ Damaged.fleet <= fleetsMade
  BY DEF None, Damaged

\* The fields of a fleet's record, and what sets it apart from none and from a damaged one.
LEMMA FleetFields ==
    /\ \A f \in Fleet : f.relay \in Relays /\ f.relay # "" /\ f.fleet \in Nat /\ f.fleet # 0 /\ f # None /\ f # Damaged /\ f \in Old
    /\ \A f \in Old : f.fleet \in Nat
    /\ "" \notin Relays /\ Own \notin Relays /\ "damaged" \notin Relays
<1>1. \A f \in Fleet : f.relay \in Relays /\ f.fleet \in Nat /\ f.fleet # 0 /\ f \in Old BY DEF Fleet, Old
<1>2. \A f \in Old : f.fleet \in Nat BY DEF Old
<1>3. QED BY <1>1, <1>2, NoneFields, FleetRelayAssumption

\* The record a call is about to write has the call's relay and fleet.
LEMMA NewFields == New.relay = call.relay /\ New.fleet = call.fleet /\ New'.relay = call'.relay /\ New'.fleet = call'.fleet
  BY DEF New

\* It stays the same while the call keeps its relay and its fleet.
LEMMA SameNew == ASSUME call'.relay = call.relay, call'.fleet = call.fleet PROVE New' = New
  BY DEF New

\* The record of no call.
LEMMA IdleFields == /\ NoCall \in Call /\ NoCall.name = "" /\ NoCall.at = "idle" /\ NoCall.old = None
                    /\ NoCall.relay = "" /\ NoCall.fleet = 0 /\ NoCall.key = FALSE /\ NoCall.then = "idle"
<1>1. "idle" \in Ats /\ "" \in Names /\ None \in Old /\ "" \in Relays \cup {""} /\ FALSE \in BOOLEAN BY NoneFields DEF Ats, Names
<1>2. NoCall \in Call
  <2> DEFINE A == Ats F == Old R == Relays \cup {""} N == Names
  <2>1. "idle" \in A /\ None \in F /\ "" \in R /\ "" \in N BY <1>1
  <2> HIDE DEF A, F, R, N
  <2>2. NoCall \in [name : N, at : A, relay : R, fleet : Nat, old : F, down : BOOLEAN, then : {"idle", "e.own"}, key : BOOLEAN]
    BY <2>1 DEF NoCall
  <2>3. QED BY <2>2 DEF Call, A, F, R, N
<1>3. QED BY <1>2 DEF NoCall

\* The fields of a call after a step of it.
Moved(at) == /\ call' \in Call /\ call'.at = at /\ call'.name = call.name /\ call'.relay = call.relay /\ call'.fleet = call.fleet
             /\ call'.old = call.old /\ call'.down = call.down /\ call'.then = call.then /\ call'.key = call.key

\* Going on changes where a call stands and nothing else.
LEMMA GoMoves == ASSUME call \in Call, NEW at \in Ats, Go(at) PROVE Moved(at)
  BY DEF Go, Moved, Call
Leaving(rs, down, then) ==
    /\ call' \in Call /\ call'.at = "l.delete" /\ call'.name = call.name /\ call'.relay = call.relay /\ call'.fleet = call.fleet
    /\ call'.old = rs /\ call'.down = down /\ call'.then = then /\ call'.key = call.key

\* A call that turns to leaving a relay remembers which one, and what comes after.
LEMMA LeaveMoves ==
    ASSUME call \in Call, NEW rs \in Old, NEW down \in BOOLEAN, NEW then \in {"idle", "e.own"}, LeaveRelay(rs, down, then)
    PROVE  Leaving(rs, down, then)
<1>1. "l.delete" \in Ats BY DEF Ats, LeaveAt
<1> DEFINE A == Ats F == Old
<1>2. call \in [name : Names, at : A, relay : Relays \cup {""}, fleet : Nat, old : F, down : BOOLEAN, then : {"idle", "e.own"}, key : BOOLEAN]
  BY DEF Call
<1> HIDE DEF A, F
<1>3. QED BY <1>1, <1>2 DEF LeaveRelay, Leaving, Call, A, F
\* A call that got a fleet at its relay, or the one that it replaces.
Turned(at, fleet, old) ==
    /\ call' \in Call /\ call'.at = at /\ call'.name = call.name /\ call'.relay = call.relay /\ call'.fleet = fleet
    /\ call'.old = old /\ call'.down = call.down /\ call'.then = call.then /\ call'.key = call.key

\* A call that turns to another fleet keeps its relay.
LEMMA Turns ==
    ASSUME call \in Call, NEW at \in Ats, NEW fleet \in Nat, NEW old \in Old,
           call' = [call EXCEPT !.at = at, !.fleet = fleet, !.old = old]
    PROVE  Turned(at, fleet, old)
<1> DEFINE A == Ats F == Old
<1>2. call \in [name : Names, at : A, relay : Relays \cup {""}, fleet : Nat, old : F, down : BOOLEAN, then : {"idle", "e.own"}, key : BOOLEAN]
  BY DEF Call
<1> HIDE DEF A, F
<1>3. QED BY <1>2 DEF Turned, Call, A, F
\* A leave that goes on at another relay.
LEMMA ReAims ==
    ASSUME call \in Call, NEW at \in Ats, NEW r \in Relays, call' = [call EXCEPT !.at = at, !.relay = r]
    PROVE  call' \in Call /\ call'.at = at /\ call'.name = call.name /\ call'.relay = r
<1> DEFINE A == Ats F == Old
<1>2. call \in [name : Names, at : A, relay : Relays \cup {""}, fleet : Nat, old : F, down : BOOLEAN, then : {"idle", "e.own"}, key : BOOLEAN]
  BY DEF Call
<1> HIDE DEF A, F
<1>3. QED BY <1>2 DEF Call, A, F
Ended == call' = NoCall /\ call' \in Call /\ call'.name = "" /\ call'.at = "idle"

\* A call that ends leaves no call.
LEMMA EndEnds == End => Ended
  BY IdleFields DEF End, Ended

\* Whose step a place is.
LEMMA Where ==
    ASSUME call \in Call, CallPlaces
    PROVE  /\ call.name \in Names /\ call.at \in Ats /\ call.old \in Old /\ call.fleet \in Nat /\ call.key \in BOOLEAN /\ call.down \in BOOLEAN
           /\ call.at \in {"e.check", "e.own", "e.state", "e.save", "e.master"} => call.name = "enable"
           /\ call.at \in {"create", "key", "up", "addr"} => call.name \in {"enable", "change"}
           /\ call.at \in {"c.check", "c.down", "c.save", "c.move", "c.lost", "c.back"} => call.name = "change"
           /\ call.at \in {"l.delete", "l.down", "l.clear"} => call.name \in {"enable", "disable"}
           /\ call.at = "d.remove" => call.name = "disable"
           /\ call.at \in {"k.relay", "k.code"} => call.name = "code"
           /\ call.at \in {"v.clear", "v.down"} => call.name = "leave"
           /\ call.at \in {"j.check", "j.down", "j.mark", "j.up", "j.addr", "j.enrol", "j.undo", "j.clear"} => call.name = "join"
           /\ call.name \in {"enable", "change", "join"} => call.relay \in Relays
           /\ call.at \in {"e.save", "key", "up", "addr", "e.master", "c.down", "c.save", "c.move", "c.lost", "c.back"} => New \in Fleet
           /\ call.name = "join" => New \in Fleet
<1>1. call.name \in Names /\ call.at \in Ats /\ call.old \in Old /\ call.fleet \in Nat /\ call.key \in BOOLEAN /\ call.down \in BOOLEAN BY DEF Call
<1>2. call.name = "" => call.at = "idle" BY IdleFields DEF CallPlaces
<1>3. call.relay \in Relays /\ call.fleet \in Nat \ {0} => New \in Fleet BY DEF New, Fleet
<1>4. QED BY <1>1, <1>2, <1>3 DEF CallPlaces, Names, EnableAt, ChangeAt, LeaveAt, JoinAt

\* relay.json as it is read, and what relayFor says of it.
LEMMA LoadFacts ==
    ASSUME NetTypes
    PROVE  /\ loadRelay \in Fleet \cup {None} /\ loadRelay \in Old /\ (loadRelay = relayFile \/ (relayFile = Damaged /\ loadRelay = None))
           /\ relayFor \in {"ok", "moves"} => loadRelay \in Fleet /\ relayFile = loadRelay
           /\ relayFor = "ok" => masterFile = relayFile
           /\ relayFor = "moves" => net.login = relayFile.relay
<1>1. /\ loadRelay \in Fleet \cup {None} /\ loadRelay \in Old /\ (loadRelay = relayFile \/ (relayFile = Damaged /\ loadRelay = None))
  BY FleetFields, NoneFields DEF NetTypes, loadRelay
<1>2. relayFor \in {"ok", "moves"} => loadRelay # None BY DEF relayFor
<1>3. relayFor = "ok" => masterFile = loadRelay BY DEF relayFor
<1>4. relayFor = "moves" => net.login = loadRelay.relay BY DEF relayFor, Connected, LoginServer
<1>5. QED BY <1>1, <1>2, <1>3, <1>4, NoneFields
\* moveMaster: master.json follows relay.json.
RelayFollows == masterFile' = relayFile /\ relayFile \in Fleet /\ net.login = relayFile.relay /\ recode' = (handed # NoHanded \/ recode)

\* What a pair holds.
LEMMA Pair == ASSUME NEW x, NEW y, NEW p, p = <<x, y>> PROVE p[1] = x /\ p[2] = y OBVIOUS
\* What leaving a network and joining one come to.
LEMMA DownFacts ==
    ASSUME net \in Net, NEW r, NEW d \in Down(r)
    PROVE  /\ d[1] \in Net /\ (d[1].login # "" => d[1].login = net.login /\ d[1].fleet = net.fleet)
           /\ d[2] = "ok" => IF r = "" THEN d[1].login = "" ELSE d[1].login # r
           /\ r # "" /\ r # net.login => d[1].login = net.login
<1>1. LoggedOut \in Net /\ LoggedOut.login = "" BY DEF LoggedOut, Net
<1>2. /\ [net EXCEPT !.up = FALSE] \in Net /\ [net EXCEPT !.up = FALSE].login = net.login
      /\ [net EXCEPT !.up = FALSE].fleet = net.fleet BY DEF Net
<1> DEFINE c == [net EXCEPT !.up = FALSE]
<1>3. \/ d = <<net, "ok">> /\ r # "" /\ net.login \notin {"", r}
      \/ d = <<net, "fail">>
      \/ (d = <<LoggedOut, "ok">> \/ d = <<c, "stays">>) /\ (r = "" \/ net.login \in {"", r})
  BY DEF Down
<1> HIDE DEF c
<1>4. \/ d[1] = net /\ d[2] = "ok" /\ r # "" /\ net.login \notin {"", r}
      \/ d[1] = net /\ d[2] = "fail"
      \/ ((d[1] = LoggedOut /\ d[2] = "ok") \/ (d[1] = c /\ d[2] = "stays")) /\ (r = "" \/ net.login \in {"", r})
  <2>1. d = <<net, "ok">> => d[1] = net /\ d[2] = "ok" BY Pair
  <2>2. d = <<net, "fail">> => d[1] = net /\ d[2] = "fail" BY Pair
  <2>3. d = <<LoggedOut, "ok">> => d[1] = LoggedOut /\ d[2] = "ok" BY Pair
  <2>4. d = <<c, "stays">> => d[1] = c /\ d[2] = "stays" BY Pair
  <2>5. QED BY <1>3, <2>1, <2>2, <2>3, <2>4, Zenon
<1>5. c \in Net /\ c.login = net.login /\ c.fleet = net.fleet BY <1>2 DEF c
<1>6. QED BY <1>1, <1>4, <1>5
UpEffect(r, f, u) ==
    /\ u[1] \in Net
    /\ u[2] = "ok" => u[1].login = r /\ (IF net.login = r THEN u[1].fleet = net.fleet ELSE u[1].fleet = f /\ net.login = "")
    /\ u[2] = "other" => net.login \notin {"", r}
    /\ u[2] = "stays" => u[1].login = r /\ u[1].fleet = f /\ net.login = ""
    /\ u[2] # "ok" /\ u[2] # "stays" => u[1].login = net.login /\ u[1].fleet = net.fleet
    /\ u[2] \in {"ok", "stays", "fail", "other"}
    /\ net.login = Own => u[1] = net

\* What bringing the network up can leave: the owner's own network is never touched.
LEMMA UpFacts == ASSUME net \in Net, NEW r \in Relays, NEW f \in Nat, NEW u \in Up(r, f) PROVE UpEffect(r, f, u)
<1> USE DEF UpEffect
<1>0. r # "" /\ r # Own /\ Own # "" BY FleetRelayAssumption
<1>1. /\ [net EXCEPT !.up = TRUE] \in Net /\ [net EXCEPT !.up = TRUE].login = net.login
      /\ [net EXCEPT !.up = TRUE].fleet = net.fleet BY DEF Net
<1>2. /\ [login |-> r, fleet |-> f, up |-> TRUE] \in Net /\ [login |-> r, fleet |-> f, up |-> net.up] \in Net BY DEF Net
<1> DEFINE a == [net EXCEPT !.up = TRUE]
           b == [login |-> r, fleet |-> f, up |-> TRUE]
           c == [login |-> r, fleet |-> f, up |-> net.up]
<1>3. b.login = r /\ b.fleet = f /\ c.login = r /\ c.fleet = f OBVIOUS
<1>4. \/ net.login \notin {"", r} /\ u = <<net, "other">>
      \/ net.login = r /\ (u = <<a, "ok">> \/ u = <<net, "fail">>)
      \/ net.login = "" /\ (u = <<b, "ok">> \/ u = <<net, "fail">> \/ u = <<c, "stays">>)
  BY <1>0 DEF Up
<1> HIDE DEF a, b, c
<1>5. /\ \/ net.login \notin {"", r} /\ u[1] = net /\ u[2] = "other"
         \/ net.login = r /\ ((u[1] = a /\ u[2] = "ok") \/ (u[1] = net /\ u[2] = "fail"))
         \/ net.login = "" /\ ((u[1] = b /\ u[2] = "ok") \/ (u[1] = net /\ u[2] = "fail") \/ (u[1] = c /\ u[2] = "stays"))
  <2>1. u = <<net, "other">> => u[1] = net /\ u[2] = "other" BY Pair
  <2>2. u = <<net, "fail">> => u[1] = net /\ u[2] = "fail" BY Pair
  <2>3. u = <<a, "ok">> => u[1] = a /\ u[2] = "ok" BY Pair
  <2>4. u = <<b, "ok">> => u[1] = b /\ u[2] = "ok" BY Pair
  <2>5. u = <<c, "stays">> => u[1] = c /\ u[2] = "stays" BY Pair
  <2>6. QED BY <1>4, <2>1, <2>2, <2>3, <2>4, <2>5, Zenon
<1>6. a \in Net /\ a.login = net.login /\ a.fleet = net.fleet /\ b \in Net /\ c \in Net BY <1>1, <1>2 DEF a, b, c
<1>7. QED BY <1>0, <1>3, <1>5, <1>6

\* A call that begins.
Began(name, at, relay, fleet, key) ==
    /\ call = NoCall /\ call' \in Call /\ call'.name = name /\ call'.at = at /\ call'.relay = relay /\ call'.fleet = fleet
    /\ call'.old = None /\ call'.key = key /\ call'.then = "idle"
    /\ UNCHANGED <<masterFile, relayFile, memberJson, netOwn, net, left, handed, recode, fleetsMade, owners>>

\* A call that begins has its name, its relay and no fleet yet.
LEMMA BeginBegins ==
    ASSUME NEW name \in Names, NEW at \in Ats, NEW relay \in Relays \cup {""}, Begin(name, at, relay)
    PROVE  Began(name, at, relay, 0, FALSE)
<1>1. call' = [NoCall EXCEPT !.name = name, !.at = at, !.relay = relay] BY DEF Begin
<1> DEFINE R == Relays \cup {""} A == Ats N == Names F == Old
<1>2. NoCall \in [name : N, at : A, relay : R, fleet : Nat, old : F, down : BOOLEAN, then : {"idle", "e.own"}, key : BOOLEAN]
  BY IdleFields DEF Call
<1>3. name \in N /\ at \in A /\ relay \in R OBVIOUS
<1> HIDE DEF R, A, N, F
<1>4. /\ call' \in [name : N, at : A, relay : R, fleet : Nat, old : F, down : BOOLEAN, then : {"idle", "e.own"}, key : BOOLEAN]
      /\ call'.name = name /\ call'.at = at /\ call'.relay = relay /\ call'.old = NoCall.old /\ call'.fleet = NoCall.fleet /\ call'.key = NoCall.key /\ call'.then = NoCall.then
  BY <1>1, <1>2, <1>3
<1>5. call' \in Call BY <1>4 DEF Call, R, A, N, F
<1>6. QED BY <1>4, <1>5, IdleFields DEF Began, Begin, files

\* A call to join begins with the relay, the fleet and the key of its code.
LEMMA JoinBegins == ASSUME NEW c \in JoinCodes, Join(c) PROVE Began("join", "j.check", c.relay, c.fleet, c.key)
<1>0. c.relay \in Relays /\ c.fleet \in Nat /\ c.key \in BOOLEAN BY FleetRelayAssumption
<1>1. call' = [NoCall EXCEPT !.name = "join", !.at = "j.check", !.relay = c.relay, !.fleet = c.fleet, !.key = c.key] BY DEF Join
<1> DEFINE R == Relays \cup {""} A == Ats N == Names F == Old
<1>2. NoCall \in [name : N, at : A, relay : R, fleet : Nat, old : F, down : BOOLEAN, then : {"idle", "e.own"}, key : BOOLEAN]
  BY IdleFields DEF Call
<1>3. "join" \in N /\ "j.check" \in A /\ c.relay \in R BY <1>0 DEF Names, Ats, JoinAt
<1> HIDE DEF R, A, N, F
<1>4. /\ call' \in [name : N, at : A, relay : R, fleet : Nat, old : F, down : BOOLEAN, then : {"idle", "e.own"}, key : BOOLEAN]
      /\ call'.name = "join" /\ call'.at = "j.check" /\ call'.relay = c.relay /\ call'.old = NoCall.old /\ call'.fleet = c.fleet /\ call'.key = c.key /\ call'.then = NoCall.then
  BY <1>0, <1>1, <1>2, <1>3
<1>5. call' \in Call BY <1>4 DEF Call, R, A, N, F
<1>6. QED BY <1>4, <1>5, IdleFields DEF Began, Join, files

\* The calls begin with everything as it was.
LEMMA CallsKeep == ASSUME RelayInv, relayCalls PROVE RelayInv'
<1> USE DEF Moved, Leaving, Turned, Ended, RelayFollows
<1>0. call \in Call /\ CallPlaces /\ fleetsMade \in Nat /\ None.fleet <= fleetsMade BY NoneMade DEF RelayInv, NetTypes
<1>a. \/ \E r \in Relays : Began("enable", "e.check", r, 0, FALSE)
      \/ \E r \in Relays : Began("change", "c.check", r, 0, FALSE) /\ masterFile # None
      \/ Began("disable", "d.remove", "", 0, FALSE) /\ masterFile # None
      \/ Began("code", "k.relay", "", 0, FALSE) /\ masterFile # None
      \/ Began("leave", "v.clear", "", 0, FALSE)
      \/ \E c \in JoinCodes : Began("join", "j.check", c.relay, c.fleet, c.key) /\ (c.key \/ memberJson # None)
  <2>1. {"enable", "change", "disable", "code", "leave"} \subseteq Names /\ {"e.check", "c.check", "d.remove", "k.relay", "v.clear"} \subseteq Ats
    BY DEF Names, Ats, EnableAt, ChangeAt
  <2>2. QED BY <2>1, BeginBegins, JoinBegins, NoneFields
          DEF relayCalls, EnableMasterRelay, ChangeRelay, DisableRelayed, joinKey, LeaveNet, Join
<1>1. \/ call'.name = "enable" /\ call'.at = "e.check" /\ call'.relay \in Relays /\ call'.fleet = 0
      \/ call'.name = "change" /\ call'.at = "c.check" /\ call'.relay \in Relays /\ masterFile # None
      \/ call'.name = "disable" /\ call'.at = "d.remove" /\ masterFile # None
      \/ call'.name = "code" /\ call'.at = "k.relay" /\ masterFile # None
      \/ call'.name = "leave" /\ call'.at = "v.clear"
      \/ call'.name = "join" /\ call'.at = "j.check" /\ call'.relay \in Relays /\ call'.fleet # 0 /\ (call'.key \/ memberJson # None)
  BY <1>a, FleetRelayAssumption DEF Began
<1>2. /\ call = NoCall /\ call' \in Call /\ call'.old = None /\ call'.then = "idle"
      /\ UNCHANGED <<masterFile, relayFile, memberJson, netOwn, net, left, handed, recode, fleetsMade, owners>>
  BY <1>a DEF Began
<1>4. NetTypes' BY <1>0, <1>1, <1>2, IdleFields, NoneFields DEF RelayInv, NetTypes
<1>5. CallPlaces' BY <1>0, <1>1, <1>2, IdleFields, NoneFields DEF RelayInv, CallPlaces, EnableAt, ChangeAt, LeaveAt, JoinAt
<1>6. Either' /\ CodeInv' BY <1>0, <1>1, <1>2, IdleFields, NoneFields, SameNew DEF RelayInv, Books, Either, CodeInv
<1>7. Fresh' BY <1>0, <1>1, <1>2 DEF RelayInv, Books, Fresh
<1>8. FileAt' BY <1>0, <1>1, <1>2, IdleFields, NoneFields, SameNew DEF RelayInv, Books, FileAt, Clean
<1>9. Nets' BY <1>0, <1>1, <1>2, IdleFields, NoneFields, SameNew DEF RelayInv, Books, Either, FileAt, Nets, NetAt, NamedInv, Excused, Before, Others, Clean
<1>10. Fleets' BY <1>0, <1>1, <1>2, IdleFields, NoneFields, SameNew DEF RelayInv, Fleets, Marked, FleetAt, JoinFleet, MasterFleet, MemberFleet, Before
<1>11. QED BY <1>4, <1>5, <1>6, <1>7, <1>8, <1>9, <1>10 DEF RelayInv, Books

\* The end of a fleet at its relay.
LEMMA DeleteKeeps == ASSUME RelayInv, DeleteFleet PROVE RelayInv'
<1> USE DEF Moved, Leaving, Turned, Ended, RelayFollows
<1>0. call \in Call /\ CallPlaces /\ fleetsMade \in Nat /\ None.fleet <= fleetsMade BY NoneMade DEF RelayInv, NetTypes
<1>1. call.at = "l.delete" /\ UNCHANGED <<masterFile, relayFile, memberJson, netOwn, net, left, handed, recode, fleetsMade, owners>> BY DEF DeleteFleet, Keep, files
<1>2. call.down \in BOOLEAN /\ Moved(IF call.down THEN "l.down" ELSE "l.clear")
  BY <1>0, GoMoves, Where DEF DeleteFleet, Ats, LeaveAt
<1>3. call.name \in {"enable", "disable"} BY <1>0, <1>1, Where
<1>4. NetTypes' BY <1>0, <1>1, <1>2, <1>3 DEF RelayInv, NetTypes
<1>5. CallPlaces' BY <1>0, <1>1, <1>2, <1>3 DEF RelayInv, CallPlaces, EnableAt, ChangeAt, LeaveAt, JoinAt
<1>6. Either' /\ CodeInv' BY <1>0, <1>1, <1>2, <1>3, SameNew DEF RelayInv, Books, Either, CodeInv
<1>7. Fresh' BY <1>0, <1>1, <1>2, <1>3 DEF RelayInv, Books, Fresh
<1>8. FileAt' BY <1>0, <1>1, <1>2, <1>3, SameNew DEF RelayInv, Books, FileAt, Clean
<1>9. Nets' BY <1>0, <1>1, <1>2, <1>3, SameNew DEF RelayInv, Books, Either, FileAt, Nets, NetAt, NamedInv, Excused, Before, Others, Clean
<1>10. Fleets' BY <1>0, <1>1, <1>2, <1>3, SameNew DEF RelayInv, Fleets, Marked, FleetAt, JoinFleet, MasterFleet, MemberFleet, Before
<1>11. QED BY <1>4, <1>5, <1>6, <1>7, <1>8, <1>9, <1>10 DEF RelayInv, Books

\* leaveRelay leaves the network of the fleet that ends.
LEMMA LeaveDownKeeps == ASSUME RelayInv, leaveRelay, call.at = "l.down" PROVE RelayInv'
<1> USE DEF Moved, Leaving, Turned, Ended, RelayFollows
<1>0. call \in Call /\ CallPlaces /\ fleetsMade \in Nat /\ None.fleet <= fleetsMade BY NoneMade DEF RelayInv, NetTypes
<1>a. PICK d \in Down(call.old.relay) : net' = d[1] /\ Stays(d[2]) BY DEF leaveRelay
<1>b. net \in Net /\ call.name \in {"enable", "disable"} /\ call.down /\ (call.old \in Fleet \/ call.old = None)
  BY <1>0, Where DEF RelayInv, NetTypes, CallPlaces
<1>1. /\ net' \in Net /\ (net'.login # "" => net'.login = net.login /\ net'.fleet = net.fleet)
      /\ d[2] = "ok" => IF call.old.relay = "" THEN net'.login = "" ELSE net'.login # call.old.relay
      /\ left' = IF d[2] = "ok" THEN left ELSE left \cup {"logout"}
      /\ UNCHANGED <<masterFile, relayFile, memberJson, netOwn, handed, recode, fleetsMade, owners>>
  BY <1>a, <1>b, DownFacts DEF leaveRelay, Keep, files, Stays
<1>2. Moved("l.clear") BY <1>0, GoMoves DEF leaveRelay, Ats, LeaveAt
<1>4. NetTypes' BY <1>0, <1>1, <1>2, <1>b, FleetFields, NoneFields DEF RelayInv, NetTypes
<1>5. CallPlaces' BY <1>0, <1>1, <1>2, <1>b, FleetFields, NoneFields DEF RelayInv, CallPlaces, EnableAt, ChangeAt, LeaveAt, JoinAt
<1>6. Either' /\ CodeInv' BY <1>0, <1>1, <1>2, <1>b, FleetFields, NoneFields, SameNew DEF RelayInv, Books, Either, CodeInv
<1>7. Fresh' BY <1>0, <1>1, <1>2, <1>b DEF RelayInv, Books, Fresh
<1>8. FileAt' BY <1>0, <1>1, <1>2, <1>b, FleetFields, NoneFields, SameNew DEF RelayInv, Books, FileAt, Clean
<1>9. Nets' BY <1>0, <1>1, <1>2, <1>b, FleetFields, NoneFields, SameNew DEF RelayInv, Books, Either, FileAt, Nets, NetAt, NamedInv, Excused, Before, Others, Clean
<1>10. Fleets' BY <1>0, <1>1, <1>2, <1>b, FleetFields, NoneFields, SameNew DEF RelayInv, Fleets, Marked, FleetAt, JoinFleet, MasterFleet, MemberFleet, Before
<1>11. QED BY <1>4, <1>5, <1>6, <1>7, <1>8, <1>9, <1>10 DEF RelayInv, Books

\* leaveRelay removes relay.json, and an enable goes on.
LEMMA LeaveClearKeeps == ASSUME RelayInv, leaveRelay, call.at = "l.clear" PROVE RelayInv'
<1> USE DEF Moved, Leaving, Turned, Ended, RelayFollows
<1>0. call \in Call /\ CallPlaces /\ fleetsMade \in Nat /\ None.fleet <= fleetsMade BY NoneMade DEF RelayInv, NetTypes
<1>1. /\ relayFile' = None
      /\ UNCHANGED <<masterFile, memberJson, netOwn, net, left, handed, recode, fleetsMade, owners>> BY DEF leaveRelay, Keep
<1>2. \/ Ended
      \/ Moved("e.own") /\ call.name = "enable"
  <2>1. call.then \in {"idle", "e.own"} /\ "e.own" \in Ats BY <1>0 DEF Call, Ats, EnableAt
  <2>2. call.name \in {"enable", "disable"} /\ (call.name = "disable" => call.then = "idle") BY <1>0, Where DEF CallPlaces
  <2>3. QED BY <1>0, <2>1, <2>2, GoMoves, EndEnds DEF leaveRelay
<1>3. call.name \in {"enable", "disable"} BY <1>0, Where
<1>3a. memberJson = None /\ masterFile = None BY <1>3 DEF RelayInv, Books, Either
<1>4. NetTypes' BY <1>0, <1>1, <1>2, <1>3, <1>3a, FleetFields, NoneFields, IdleFields DEF RelayInv, NetTypes
<1>5. CallPlaces' BY <1>0, <1>1, <1>2, <1>3, <1>3a, FleetFields, NoneFields, IdleFields DEF RelayInv, CallPlaces, EnableAt, ChangeAt, LeaveAt, JoinAt
<1>6. Either' /\ CodeInv' BY <1>0, <1>1, <1>2, <1>3, <1>3a, FleetFields, NoneFields, IdleFields, SameNew DEF RelayInv, Books, Either, CodeInv
<1>7. Fresh' BY <1>0, <1>1, <1>2, <1>3, <1>3a DEF RelayInv, Books, Fresh
<1>8. FileAt' BY <1>0, <1>1, <1>2, <1>3, <1>3a, FleetFields, NoneFields, IdleFields, SameNew DEF RelayInv, Books, FileAt, Clean
<1>9. Nets' BY <1>0, <1>1, <1>2, <1>3, <1>3a, FleetFields, NoneFields, IdleFields, SameNew DEF RelayInv, Books, Either, FileAt, Nets, NetAt, NamedInv, Excused, Before, Others, Clean
<1>10. Fleets' BY <1>0, <1>1, <1>2, <1>3, <1>3a, FleetFields, NoneFields, IdleFields, SameNew DEF RelayInv, Fleets, Marked, FleetAt, JoinFleet, MasterFleet, MemberFleet, Before
<1>11. QED BY <1>4, <1>5, <1>6, <1>7, <1>8, <1>9, <1>10 DEF RelayInv, Books

\* The steps of an enable.
LEMMA EnableChecksKeeps == ASSUME RelayInv, EnableChecks PROVE RelayInv'
<1> USE DEF Moved, Leaving, Turned, Ended, RelayFollows
<1>0. call \in Call /\ CallPlaces /\ fleetsMade \in Nat /\ None.fleet <= fleetsMade BY NoneMade DEF RelayInv, NetTypes
<1>a. NetTypes /\ "e.own" \in Ats BY DEF RelayInv, Ats, EnableAt
<1>1. call.at = "e.check" /\ call.name = "enable" /\ UNCHANGED <<relayFile, memberJson, netOwn, net, left, handed, fleetsMade, owners>>
  BY <1>0, Where DEF EnableChecks, relayBounds
<1>2. \/ Ended /\ UNCHANGED <<masterFile, recode>>
      \/ Ended /\ RelayFollows /\ memberJson = None /\ masterFile # None
      \/ /\ UNCHANGED <<masterFile, recode>> /\ memberJson = None /\ masterFile = None
         /\ \/ Leaving(loadRelay, TRUE, "e.own") /\ loadRelay \in Fleet /\ relayFile = loadRelay
            \/ Moved("e.own") /\ relayFile \in {None, Damaged}
  BY <1>0, <1>a, LoadFacts, EndEnds, LeaveMoves, GoMoves, NoneFields, FleetFields DEF EnableChecks, moveMaster, NetTypes
<1>4. NetTypes' BY <1>0, <1>1, <1>2, IdleFields, NoneFields, FleetFields DEF RelayInv, NetTypes
<1>5. CallPlaces' BY <1>0, <1>1, <1>2, IdleFields, NoneFields, FleetFields DEF RelayInv, CallPlaces, EnableAt, ChangeAt, LeaveAt, JoinAt
<1>6. Either' /\ CodeInv' BY <1>0, <1>1, <1>2, IdleFields, NoneFields, FleetFields, SameNew DEF RelayInv, Books, Either, CodeInv
<1>7. Fresh' BY <1>0, <1>1, <1>2 DEF RelayInv, Books, Fresh
<1>8. FileAt' BY <1>0, <1>1, <1>2, IdleFields, NoneFields, FleetFields, SameNew DEF RelayInv, Books, FileAt, Clean
<1>9. Nets' BY <1>0, <1>1, <1>2, IdleFields, NoneFields, FleetFields, SameNew, ZenonT(60) DEF RelayInv, Books, Either, FileAt, Nets, NetAt, NamedInv, Excused, Before, Others, Clean
<1>10. Fleets' BY <1>0, <1>1, <1>2, IdleFields, NoneFields, FleetFields, SameNew DEF RelayInv, Fleets, Marked, FleetAt, JoinFleet, MasterFleet, MemberFleet, Before
<1>11. QED BY <1>4, <1>5, <1>6, <1>7, <1>8, <1>9, <1>10 DEF RelayInv, Books

\* An enable leaves the network of a join that did not finish.
LEMMA EnableOwnKeeps == ASSUME RelayInv, EnableOwn PROVE RelayInv'
<1> USE DEF Moved, Leaving, Turned, Ended, RelayFollows
<1>0. call \in Call /\ CallPlaces /\ fleetsMade \in Nat /\ None.fleet <= fleetsMade BY NoneMade DEF RelayInv, NetTypes
<1>a. net \in Net /\ netOwn \in Relays \cup {""} BY DEF RelayInv, NetTypes
<1>1. /\ call.at = "e.own" /\ call.name = "enable" /\ memberJson = None /\ masterFile = None
      /\ UNCHANGED <<masterFile, relayFile, memberJson, handed, recode, fleetsMade, owners>>
  BY <1>0, Where DEF EnableOwn, Keep, RelayInv, Books, Either
<1>2. /\ Moved("e.state")
      /\ net' \in Net /\ (net'.login # "" => net'.login = net.login /\ net'.fleet = net.fleet)
      /\ \/ netOwn' = "" /\ left' = left /\ (netOwn = "" \/ net'.login # netOwn)
         \/ netOwn' = netOwn /\ left' = left \cup {"marked"}
  <2>1. Moved("e.state") BY <1>0, GoMoves DEF EnableOwn, Ats, EnableAt
  <2>2. CASE netOwn = "" BY <1>a, <2>1, <2>2 DEF EnableOwn
  <2>3. CASE netOwn # ""
    <3>1. PICK d \in Down(netOwn) : /\ net' = d[1]
                                    /\ netOwn' = IF d[2] = "ok" /\ netOwn = netOwn THEN "" ELSE netOwn
                                    /\ left' = IF d[2] = "ok" THEN left ELSE left \cup {IF netOwn = netOwn THEN "marked" ELSE "logout"}
      BY <2>3 DEF EnableOwn, netDown
    <3>2. QED BY <1>a, <2>1, <2>3, <3>1, DownFacts
  <2>4. QED BY <2>2, <2>3
<1>3. left' = {} => net'.login \notin Relays
  BY <1>1, <1>2, NoneFields, FleetFields DEF RelayInv, Nets, NetAt, Clean, Others
<1>4. NetTypes' BY <1>0, <1>1, <1>2, <1>3, NoneFields, FleetFields DEF RelayInv, NetTypes
<1>5. CallPlaces' BY <1>0, <1>1, <1>2, <1>3, NoneFields, FleetFields DEF RelayInv, CallPlaces, EnableAt, ChangeAt, LeaveAt, JoinAt
<1>6. Either' /\ CodeInv' BY <1>0, <1>1, <1>2, <1>3, NoneFields, FleetFields, SameNew DEF RelayInv, Books, Either, CodeInv
<1>7. Fresh' BY <1>0, <1>1, <1>2, <1>3 DEF RelayInv, Books, Fresh
<1>8. FileAt' BY <1>0, <1>1, <1>2, <1>3, NoneFields, FleetFields, SameNew DEF RelayInv, Books, FileAt, Clean
<1>9. Nets' BY <1>0, <1>1, <1>2, <1>3, NoneFields, FleetFields, SameNew DEF RelayInv, Books, Either, FileAt, Nets, NetAt, NamedInv, Excused, Before, Others, Clean
<1>10. Fleets' BY <1>0, <1>1, <1>2, <1>3, NoneFields, FleetFields, SameNew DEF RelayInv, Fleets, Marked, FleetAt, JoinFleet, MasterFleet, MemberFleet, Before
<1>11. QED BY <1>4, <1>5, <1>6, <1>7, <1>8, <1>9, <1>10 DEF RelayInv, Books

\* An enable ends in a network that is not its own to leave.
LEMMA EnableStateKeeps == ASSUME RelayInv, EnableState PROVE RelayInv'
<1> USE DEF Moved, Leaving, Turned, Ended, RelayFollows
<1>0. call \in Call /\ CallPlaces /\ fleetsMade \in Nat /\ None.fleet <= fleetsMade BY NoneMade DEF RelayInv, NetTypes
<1>1. call.at = "e.state" /\ call.name = "enable" /\ UNCHANGED <<masterFile, relayFile, memberJson, netOwn, net, left, handed, recode, fleetsMade, owners>> BY <1>0, Where DEF EnableState, Keep, files
<1>2. Ended \/ Moved("create") BY <1>0, GoMoves, EndEnds DEF EnableState, Ats, EnableAt
<1>4. NetTypes' BY <1>0, <1>1, <1>2, IdleFields DEF RelayInv, NetTypes
<1>5. CallPlaces' BY <1>0, <1>1, <1>2, IdleFields DEF RelayInv, CallPlaces, EnableAt, ChangeAt, LeaveAt, JoinAt
<1>6. Either' /\ CodeInv' BY <1>0, <1>1, <1>2, IdleFields, SameNew DEF RelayInv, Books, Either, CodeInv
<1>7. Fresh' BY <1>0, <1>1, <1>2 DEF RelayInv, Books, Fresh
<1>8. FileAt' BY <1>0, <1>1, <1>2, IdleFields, SameNew DEF RelayInv, Books, FileAt, Clean
<1>9. Nets' BY <1>0, <1>1, <1>2, IdleFields, SameNew DEF RelayInv, Books, Either, FileAt, Nets, NetAt, NamedInv, Excused, Before, Others, Clean
<1>10. Fleets' BY <1>0, <1>1, <1>2, IdleFields, SameNew DEF RelayInv, Fleets, Marked, FleetAt, JoinFleet, MasterFleet, MemberFleet, Before
<1>11. QED BY <1>4, <1>5, <1>6, <1>7, <1>8, <1>9, <1>10 DEF RelayInv, Books

\* The steps of a change.
LEMMA ChangeChecksKeeps == ASSUME RelayInv, ChangeChecks PROVE RelayInv'
<1> USE DEF Moved, Leaving, Turned, Ended, RelayFollows
<1>0. call \in Call /\ CallPlaces /\ fleetsMade \in Nat /\ None.fleet <= fleetsMade BY NoneMade DEF RelayInv, NetTypes
<1>a. NetTypes /\ "create" \in Ats /\ call.fleet \in Nat BY <1>0, Where DEF RelayInv, Ats, EnableAt
<1>1. /\ call.at = "c.check" /\ call.name = "change" /\ masterFile # None
      /\ UNCHANGED <<relayFile, memberJson, netOwn, net, left, handed, fleetsMade, owners>>
  BY <1>0, Where DEF ChangeChecks, relayBounds, RelayInv, Books, Either
<1>2. \/ Ended /\ UNCHANGED <<masterFile, recode>>
      \/ /\ Turned("create", call.fleet, relayFile) /\ relayFile \in Fleet
         /\ UNCHANGED <<masterFile, recode>> \/ RelayFollows
  <2>1. CASE relayFor \notin {"ok", "moves"} BY <2>1, EndEnds DEF ChangeChecks
  <2>2. CASE relayFor \in {"ok", "moves"}
    <3>1. loadRelay \in Old /\ loadRelay = relayFile /\ relayFile \in Fleet BY <1>a, <2>2, LoadFacts
    <3>2. call' = [call EXCEPT !.at = "create", !.fleet = call.fleet, !.old = relayFile] BY <1>0, <2>2, <3>1 DEF ChangeChecks, Call
    <3>3. Turned("create", call.fleet, relayFile) BY <1>0, <1>a, <3>1, <3>2, Turns
    <3>4. QED BY <1>a, <2>2, <3>1, <3>3, LoadFacts DEF ChangeChecks, moveMaster
  <2>3. QED BY <2>1, <2>2
<1>4. NetTypes' BY <1>0, <1>1, <1>2, NoneFields, FleetFields, IdleFields DEF RelayInv, NetTypes
<1>5. CallPlaces' BY <1>0, <1>1, <1>2, NoneFields, FleetFields, IdleFields DEF RelayInv, CallPlaces, EnableAt, ChangeAt, LeaveAt, JoinAt
<1>6. Either' /\ CodeInv' BY <1>0, <1>1, <1>2, NoneFields, FleetFields, IdleFields, SameNew DEF RelayInv, Books, Either, CodeInv
<1>7. Fresh' BY <1>0, <1>1, <1>2 DEF RelayInv, Books, Fresh
<1>8. FileAt' BY <1>0, <1>1, <1>2, NoneFields, FleetFields, IdleFields, SameNew DEF RelayInv, Books, FileAt, Clean
<1>9. Nets' BY <1>0, <1>1, <1>2, NoneFields, FleetFields, IdleFields, SameNew DEF RelayInv, Books, Either, FileAt, Nets, NetAt, NamedInv, Excused, Before, Others, Clean
<1>10. Fleets' BY <1>0, <1>1, <1>2, NoneFields, FleetFields, IdleFields, SameNew DEF RelayInv, Fleets, Marked, FleetAt, JoinFleet, MasterFleet, MemberFleet, Before
<1>11. QED BY <1>4, <1>5, <1>6, <1>7, <1>8, <1>9, <1>10 DEF RelayInv, Books

\* The new fleet of an enable or a change.
LEMMA CreateKeeps == ASSUME RelayInv, CreateFleet PROVE RelayInv'
<1> USE DEF Moved, Leaving, Turned, Ended, RelayFollows
<1>0. call \in Call /\ CallPlaces /\ fleetsMade \in Nat /\ None.fleet <= fleetsMade BY NoneMade DEF RelayInv, NetTypes
<1>1. /\ call.at = "create" /\ call.name \in {"enable", "change"}
      /\ UNCHANGED <<masterFile, relayFile, memberJson, netOwn, net, left, handed, recode, owners>>
  BY <1>0, Where DEF CreateFleet, files
<1>2. \/ /\ fleetsMade' = fleetsMade + 1 /\ fleetsMade' # 0 /\ fleetsMade' \in Nat
         /\ Turned(IF call.name = "enable" THEN "e.save" ELSE "key", fleetsMade', call.old)
      \/ Ended /\ UNCHANGED fleetsMade
  <2>1. CASE UNCHANGED fleetsMade /\ End BY <2>1, EndEnds
  <2>2. CASE /\ fleetsMade' = fleetsMade + 1
             /\ call' = [call EXCEPT !.fleet = fleetsMade', !.at = IF call.name = "enable" THEN "e.save" ELSE "key"]
    <3> DEFINE at == IF call.name = "enable" THEN "e.save" ELSE "key"
    <3>1. at \in Ats /\ fleetsMade' \in Nat /\ fleetsMade' # 0 /\ call.old \in Old BY <1>0, <2>2, Where DEF Ats, EnableAt
    <3>2. call' = [call EXCEPT !.at = at, !.fleet = fleetsMade', !.old = call.old] BY <1>0, <2>2 DEF Call
    <3> HIDE DEF at
    <3>3. Turned(at, fleetsMade', call.old) BY <1>0, <3>1, <3>2, Turns
    <3>4. QED BY <2>2, <3>1, <3>3 DEF at
  <2>3. QED BY <2>1, <2>2 DEF CreateFleet
<1>3. relayFile.fleet < fleetsMade + 1 /\ (call.name = "change" => call.old.fleet < fleetsMade + 1) /\ (call.name = "enable" => call.fleet <= fleetsMade)
  <2>1. call.fleet \in Nat /\ relayFile.fleet \in Nat /\ call.old.fleet \in Nat
    BY <1>0, Where, FleetFields, NoneFields DEF RelayInv, NetTypes
  <2>2. relayFile.fleet <= fleetsMade /\ (call.name = "change" => call.old.fleet <= fleetsMade) /\ (call.name = "enable" => call.fleet <= fleetsMade)
    BY <1>1 DEF RelayInv, Books, Fresh
  <2>3. QED BY <1>0, <2>1, <2>2
<1>3a. relayFile.fleet \in Nat BY FleetFields, NoneFields DEF RelayInv, NetTypes
<1>4. NetTypes' BY <1>0, <1>1, <1>2, <1>3, <1>3a, NoneFields, FleetFields, IdleFields DEF RelayInv, NetTypes
<1>5. CallPlaces' BY <1>0, <1>1, <1>2, <1>3, <1>3a, NoneFields, FleetFields, IdleFields DEF RelayInv, CallPlaces, EnableAt, ChangeAt, LeaveAt, JoinAt
<1>6. Either' /\ CodeInv' BY <1>0, <1>1, <1>2, <1>3, <1>3a, NoneFields, FleetFields, IdleFields, SameNew DEF RelayInv, Books, Either, CodeInv
<1>7. Fresh'
  <2>1. CASE fleetsMade' = fleetsMade + 1 /\ Turned(IF call.name = "enable" THEN "e.save" ELSE "key", fleetsMade', call.old)
    <3>1. call'.fleet = fleetsMade + 1 /\ call'.old = call.old /\ call'.name = call.name /\ call'.at \notin {"c.check", "create"} BY <2>1
    <3>2. relayFile'.fleet <= fleetsMade' BY <1>0, <1>1, <1>3, <1>3a, <2>1
    <3>3. call'.name = "change" => call'.old.fleet < call'.fleet BY <1>3, <3>1
    <3>4. call'.fleet = fleetsMade' /\ call'.fleet <= fleetsMade' BY <1>0, <2>1, <3>1
    <3>5. QED BY <3>1, <3>2, <3>3, <3>4 DEF Fresh
  <2>2. CASE Ended /\ UNCHANGED fleetsMade BY <1>1, <2>2 DEF RelayInv, Books, Fresh
  <2>3. QED BY <1>2, <2>1, <2>2
<1>8. FileAt' BY <1>0, <1>1, <1>2, <1>3, <1>3a, NoneFields, FleetFields, IdleFields, SameNew DEF RelayInv, Books, FileAt, Clean
<1>9. Nets' BY <1>0, <1>1, <1>2, <1>3, <1>3a, NoneFields, FleetFields, IdleFields, SameNew DEF RelayInv, Books, Either, FileAt, Nets, NetAt, NamedInv, Excused, Before, Others, Clean
<1>10. Fleets' BY <1>0, <1>1, <1>2, <1>3, <1>3a, NoneFields, FleetFields, IdleFields, SameNew DEF RelayInv, Fleets, Marked, FleetAt, JoinFleet, MasterFleet, MemberFleet, Before
<1>11. QED BY <1>4, <1>5, <1>6, <1>7, <1>8, <1>9, <1>10 DEF RelayInv, Books

\* An enable saves relay.json before anything uses the new fleet.
LEMMA SaveRelayKeeps == ASSUME RelayInv, saveRelay PROVE RelayInv'
<1> USE DEF Moved, Leaving, Turned, Ended, RelayFollows
<1>0. call \in Call /\ CallPlaces /\ fleetsMade \in Nat /\ None.fleet <= fleetsMade BY NoneMade DEF RelayInv, NetTypes
<1>a. New \in Fleet /\ New \in Old /\ "key" \in Ats BY <1>0, Where, FleetFields DEF saveRelay, Ats, EnableAt
<1>1. /\ call.at = "e.save" /\ call.name = "enable" /\ New.fleet = call.fleet /\ New.relay = call.relay /\ masterFile = None /\ memberJson = None
      /\ UNCHANGED <<masterFile, memberJson, netOwn, net, left, handed, recode, fleetsMade, owners>>
  BY <1>0, Where, NewFields DEF saveRelay, Keep, RelayInv, Books, Either
<1>2. \/ Moved("key") /\ relayFile' = New
      \/ Leaving(New, FALSE, "idle") /\ UNCHANGED relayFile
  BY <1>0, <1>a, GoMoves, LeaveMoves DEF saveRelay
<1>4. NetTypes' BY <1>0, <1>1, <1>2, <1>a, NoneFields, FleetFields, IdleFields DEF RelayInv, NetTypes
<1>5. CallPlaces' BY <1>0, <1>1, <1>2, <1>a, NoneFields, FleetFields, IdleFields DEF RelayInv, CallPlaces, EnableAt, ChangeAt, LeaveAt, JoinAt
<1>6. Either' /\ CodeInv' BY <1>0, <1>1, <1>2, <1>a, NoneFields, FleetFields, IdleFields, SameNew DEF RelayInv, Books, Either, CodeInv
<1>7. Fresh' BY <1>0, <1>1, <1>2, <1>a DEF RelayInv, Books, Fresh
<1>8. FileAt' BY <1>0, <1>1, <1>2, <1>a, NoneFields, FleetFields, IdleFields, SameNew DEF RelayInv, Books, FileAt, Clean
<1>9. Nets' BY <1>0, <1>1, <1>2, <1>a, NoneFields, FleetFields, IdleFields, SameNew DEF RelayInv, Books, Either, FileAt, Nets, NetAt, NamedInv, Excused, Before, Others, Clean
<1>10. Fleets' BY <1>0, <1>1, <1>2, <1>a, NoneFields, FleetFields, IdleFields, SameNew DEF RelayInv, Fleets, Marked, FleetAt, JoinFleet, MasterFleet, MemberFleet, Before
<1>11. QED BY <1>4, <1>5, <1>6, <1>7, <1>8, <1>9, <1>10 DEF RelayInv, Books

\* The join key of the new fleet.
LEMMA JoinKeyKeeps == ASSUME RelayInv, JoinKey PROVE RelayInv'
<1> USE DEF Moved, Leaving, Turned, Ended, RelayFollows
<1>0. call \in Call /\ CallPlaces /\ fleetsMade \in Nat /\ None.fleet <= fleetsMade BY NoneMade DEF RelayInv, NetTypes
<1>a. New \in Fleet /\ New \in Old /\ {"up", "c.down"} \subseteq Ats BY <1>0, Where, FleetFields DEF JoinKey, Ats, EnableAt, ChangeAt
<1>1. /\ call.at = "key" /\ call.name \in {"enable", "change"} /\ UNCHANGED <<masterFile, relayFile, memberJson, netOwn, net, left, handed, recode, fleetsMade, owners>>
  BY <1>0, Where DEF JoinKey, Keep, files
<1>2. \/ call.name = "enable" /\ (Moved("up") \/ Leaving(New, FALSE, "idle"))
      \/ call.name = "change" /\ (Moved("c.down") \/ Ended)
  BY <1>0, <1>1, <1>a, GoMoves, LeaveMoves, EndEnds DEF JoinKey
<1>4. NetTypes' BY <1>0, <1>1, <1>2, <1>a, NoneFields, FleetFields, IdleFields DEF RelayInv, NetTypes
<1>5. CallPlaces' BY <1>0, <1>1, <1>2, <1>a, NoneFields, FleetFields, IdleFields DEF RelayInv, CallPlaces, EnableAt, ChangeAt, LeaveAt, JoinAt
<1>6. Either' /\ CodeInv' BY <1>0, <1>1, <1>2, <1>a, NoneFields, FleetFields, IdleFields, SameNew DEF RelayInv, Books, Either, CodeInv
<1>7. Fresh' BY <1>0, <1>1, <1>2, <1>a DEF RelayInv, Books, Fresh
<1>8. FileAt' BY <1>0, <1>1, <1>2, <1>a, NoneFields, FleetFields, IdleFields, SameNew DEF RelayInv, Books, FileAt, Clean
<1>9. Nets' BY <1>0, <1>1, <1>2, <1>a, NoneFields, FleetFields, IdleFields, SameNew DEF RelayInv, Books, Either, FileAt, Nets, NetAt, NamedInv, Excused, Before, Others, Clean
<1>10. Fleets' BY <1>0, <1>1, <1>2, <1>a, NoneFields, FleetFields, IdleFields, SameNew DEF RelayInv, Fleets, Marked, FleetAt, JoinFleet, MasterFleet, MemberFleet, Before
<1>11. QED BY <1>4, <1>5, <1>6, <1>7, <1>8, <1>9, <1>10 DEF RelayInv, Books

\* A change leaves the old network first.
LEMMA ChangeDownKeeps == ASSUME RelayInv, ChangeDown PROVE RelayInv'
<1> USE DEF Moved, Leaving, Turned, Ended, RelayFollows
<1>0. call \in Call /\ CallPlaces /\ fleetsMade \in Nat /\ None.fleet <= fleetsMade BY NoneMade DEF RelayInv, NetTypes
<1>a. net \in Net /\ "up" \in Ats BY DEF RelayInv, NetTypes, Ats, EnableAt
<1>b. PICK d \in Down(call.old.relay) : net' = d[1] /\ (IF d[2] = "ok" THEN Go("up") ELSE End) BY DEF ChangeDown
<1>1. /\ call.at = "c.down" /\ call.name = "change" /\ call.old \in Fleet /\ masterFile # None
      /\ UNCHANGED <<masterFile, relayFile, memberJson, netOwn, left, handed, recode, fleetsMade, owners>>
  BY <1>0, Where DEF ChangeDown, Keep, files, RelayInv, Books, Either, CallPlaces
<1>2. /\ net' \in Net /\ (net'.login # "" => net'.login = net.login /\ net'.fleet = net.fleet)
      /\ Ended \/ (Moved("up") /\ net'.login # call.old.relay)
  BY <1>0, <1>1, <1>a, <1>b, DownFacts, GoMoves, EndEnds, FleetFields
<1>3. left = {} /\ Moved("up") => net'.login \notin Relays
  BY <1>1, <1>2, FleetFields, NoneFields DEF RelayInv, Books, FileAt, Either, Nets, NamedInv, Excused, Clean, Others, Fleets, Marked
<1>4. NetTypes' BY <1>0, <1>1, <1>2, <1>3, NoneFields, FleetFields, IdleFields DEF RelayInv, NetTypes
<1>5. CallPlaces' BY <1>0, <1>1, <1>2, <1>3, NoneFields, FleetFields, IdleFields DEF RelayInv, CallPlaces, EnableAt, ChangeAt, LeaveAt, JoinAt
<1>6. Either' /\ CodeInv' BY <1>0, <1>1, <1>2, <1>3, NoneFields, FleetFields, IdleFields, SameNew DEF RelayInv, Books, Either, CodeInv
<1>7. Fresh' BY <1>0, <1>1, <1>2, <1>3 DEF RelayInv, Books, Fresh
<1>8. FileAt' BY <1>0, <1>1, <1>2, <1>3, NoneFields, FleetFields, IdleFields, SameNew DEF RelayInv, Books, FileAt, Clean
<1>9. Nets' BY <1>0, <1>1, <1>2, <1>3, NoneFields, FleetFields, IdleFields, SameNew DEF RelayInv, Books, Either, FileAt, Nets, NetAt, NamedInv, Excused, Before, Others, Clean
<1>10. Fleets' BY <1>0, <1>1, <1>2, <1>3, NoneFields, FleetFields, IdleFields, SameNew DEF RelayInv, Fleets, Marked, FleetAt, JoinFleet, MasterFleet, MemberFleet, Before
<1>11. QED BY <1>4, <1>5, <1>6, <1>7, <1>8, <1>9, <1>10 DEF RelayInv, Books

\* The box joins the new network: it fails, or is logged in and cannot be logged out.
LEMMA JoinNetKeeps == ASSUME RelayInv, JoinNet PROVE RelayInv'
<1> USE DEF Moved, Leaving, Turned, Ended, RelayFollows
<1>0. call \in Call /\ CallPlaces /\ fleetsMade \in Nat /\ None.fleet <= fleetsMade BY NoneMade DEF RelayInv, NetTypes
<1>a. /\ net \in Net /\ {"addr", "c.lost"} \subseteq Ats /\ New \in Fleet /\ New \in Old /\ call.relay \in Relays /\ call.fleet \in Nat
      /\ call.at = "up" /\ call.name \in {"enable", "change"} /\ New.relay = call.relay /\ New.fleet = call.fleet
  BY <1>0, Where, FleetFields, NewFields DEF RelayInv, NetTypes, Ats, EnableAt, ChangeAt, JoinNet
<1>b. PICK u \in Up(call.relay, call.fleet) :
         /\ net' = u[1]
         /\ IF u[2] = "ok" THEN Go("addr") ELSE IF call.name = "enable" THEN LeaveRelay(New, FALSE, "idle") ELSE Lost
         /\ left' = IF u[2] = "stays" /\ call.name = "enable" THEN left \cup {"logout"} ELSE left
  BY DEF JoinNet
<1>c. /\ net' \in Net
      /\ u[2] = "ok" => net'.login = call.relay /\ (IF net.login = call.relay THEN net'.fleet = net.fleet ELSE net'.fleet = call.fleet /\ net.login = "")
      /\ u[2] = "stays" => net'.login = call.relay /\ net'.fleet = call.fleet /\ net.login = ""
      /\ u[2] # "ok" /\ u[2] # "stays" => net'.login = net.login /\ net'.fleet = net.fleet
  <2> HIDE DEF Moved, Leaving, Turned, Ended, RelayFollows
  <2>1. net \in Net /\ call.relay \in Relays /\ call.fleet \in Nat /\ u \in Up(call.relay, call.fleet) BY <1>a, <1>b
  <2>2. UpEffect(call.relay, call.fleet, u) BY <2>1, UpFacts
  <2>3. QED BY <1>b, <2>2 DEF UpEffect
<1>d. /\ Go("addr") => Moved("addr")
      /\ Lost => Moved("c.lost")
      /\ LeaveRelay(New, FALSE, "idle") => Leaving(New, FALSE, "idle")
  <2> HIDE DEF Moved, Leaving, Turned, Ended, RelayFollows
  <2>1. QED BY <1>0, <1>a, GoMoves, LeaveMoves DEF Lost
<1>1. UNCHANGED <<masterFile, relayFile, memberJson, netOwn, handed, recode, fleetsMade, owners>> BY DEF JoinNet, Keep, files
<1>2. \/ /\ Moved("addr") /\ left' = left /\ net' \in Net /\ net'.login = call.relay
         /\ IF net.login = call.relay THEN net'.fleet = net.fleet ELSE net'.fleet = call.fleet /\ net.login = ""
      \/ /\ net' \in Net /\ net'.login = call.relay /\ net'.fleet = call.fleet /\ net.login = ""
         /\ \/ call.name = "enable" /\ Leaving(New, FALSE, "idle") /\ left' = left \cup {"logout"}
            \/ call.name = "change" /\ Moved("c.lost") /\ left' = left
      \/ /\ net' \in Net /\ net'.login = net.login /\ net'.fleet = net.fleet /\ left' = left
         /\ \/ call.name = "enable" /\ Leaving(New, FALSE, "idle")
            \/ call.name = "change" /\ Moved("c.lost")
  <2> HIDE DEF Moved, Leaving, Turned, Ended, RelayFollows
  <2>1. CASE u[2] = "ok" BY <1>b, <1>c, <1>d, <2>1
  <2>2. CASE u[2] = "stays" BY <1>a, <1>b, <1>c, <1>d, <2>2
  <2>3. CASE u[2] # "ok" /\ u[2] # "stays" BY <1>a, <1>b, <1>c, <1>d, <2>3
  <2>4. QED BY <2>1, <2>2, <2>3
<1>3b. /\ (Clean' => Clean) /\ (left' = {} => left = {}) /\ (left = {} => Clean)
       /\ call.name = "enable" => masterFile = None /\ memberJson = None /\ (Clean => relayFile = New)
       /\ left' = left \/ ~Clean'
       /\ "logout" \in left' => ~Clean'
  BY <1>a, <1>2 DEF RelayInv, Books, Either, FileAt, Clean
<1>3. call.name = "change" => /\ masterFile # None /\ memberJson = None
                              /\ Clean => relayFile = call.old /\ loadRelay = call.old /\ call.old.fleet # call.fleet
  <2> HIDE DEF Moved, Leaving, Turned, Ended, RelayFollows
  <2>1. call.name = "change" => masterFile # None /\ memberJson = None BY DEF RelayInv, Books, Either
  <2>2. call.name = "change" => call.old \in Fleet BY <1>a DEF RelayInv, CallPlaces
  <2>3. call.name = "change" /\ Clean => relayFile = call.old BY <1>a DEF RelayInv, Books, FileAt
  <2>4. call.name = "change" => call.old.fleet # call.fleet
    <3>1. SUFFICES ASSUME call.name = "change" PROVE call.old.fleet # call.fleet OBVIOUS
    <3>2. call.old.fleet < call.fleet BY <1>a, <3>1 DEF RelayInv, Books, Fresh
    <3>3. call.old.fleet \in Nat BY <2>2, <3>1, FleetFields
    <3>4. QED BY <1>a, <3>2, <3>3
  <2>5. QED BY <2>1, <2>2, <2>3, <2>4, FleetFields DEF loadRelay
<1>3a. UNCHANGED loadRelay BY <1>1 DEF loadRelay
<1>4. NetTypes' BY <1>0, <1>1, <1>2, <1>a, <1>3, <1>3a, <1>3b, NoneFields, FleetFields, IdleFields DEF RelayInv, NetTypes
<1>5. CallPlaces' BY <1>0, <1>1, <1>2, <1>a, <1>3, <1>3a, <1>3b, NoneFields, FleetFields, IdleFields DEF RelayInv, CallPlaces, EnableAt, ChangeAt, LeaveAt, JoinAt
<1>6. Either' /\ CodeInv' BY <1>0, <1>1, <1>2, <1>a, <1>3, <1>3a, <1>3b, NoneFields, FleetFields, IdleFields, SameNew DEF RelayInv, Books, Either, CodeInv
<1>7. Fresh' BY <1>0, <1>1, <1>2, <1>a, <1>3, <1>3a, <1>3b DEF RelayInv, Books, Fresh
<1>8. FileAt' BY <1>0, <1>1, <1>2, <1>a, <1>3, <1>3a, <1>3b, NoneFields, FleetFields, IdleFields, SameNew DEF RelayInv, Books, FileAt, Clean
<1>9. Nets'
  <2>1. CASE Moved("addr")
    BY <2>1, <1>0, <1>1, <1>2, <1>a, <1>3, <1>3a, <1>3b, NoneFields, FleetFields, IdleFields, SameNew DEF RelayInv, Nets, NetAt, NamedInv, Excused, Before, Others
  <2>2. CASE Leaving(New, FALSE, "idle")
    BY <2>2, <1>0, <1>1, <1>2, <1>a, <1>3, <1>3a, <1>3b, NoneFields, FleetFields, IdleFields, SameNew DEF RelayInv, Nets, NetAt, NamedInv, Excused, Before, Others
  <2>3. CASE Moved("c.lost")
    BY <2>3, <1>0, <1>1, <1>2, <1>a, <1>3, <1>3a, <1>3b, NoneFields, FleetFields, IdleFields, SameNew DEF RelayInv, Nets, NetAt, NamedInv, Excused, Before, Others
  <2>4. QED BY <1>2, <2>1, <2>2, <2>3
<1>10. Fleets'
  <2>1. CASE Moved("addr")
    BY <2>1, <1>0, <1>1, <1>2, <1>a, <1>3, <1>3a, <1>3b, NoneFields, FleetFields, IdleFields, SameNew DEF RelayInv, Fleets, Marked, FleetAt, JoinFleet, MasterFleet, MemberFleet, Before
  <2>2. CASE Leaving(New, FALSE, "idle")
    BY <2>2, <1>0, <1>1, <1>2, <1>a, <1>3, <1>3a, <1>3b, NoneFields, FleetFields, IdleFields, SameNew DEF RelayInv, Fleets, Marked, FleetAt, JoinFleet, MasterFleet, MemberFleet, Before
  <2>3. CASE Moved("c.lost")
    BY <2>3, <1>0, <1>1, <1>2, <1>a, <1>3, <1>3a, <1>3b, NoneFields, FleetFields, IdleFields, SameNew DEF RelayInv, Fleets, Marked, FleetAt, JoinFleet, MasterFleet, MemberFleet, Before
  <2>4. QED BY <1>2, <2>1, <2>2, <2>3
<1>11. QED BY <1>4, <1>5, <1>6, <1>7, <1>8, <1>9, <1>10 DEF RelayInv, Books

\* The address in the new network.
LEMMA WaitAddrKeeps == ASSUME RelayInv, waitAddr PROVE RelayInv'
<1> USE DEF Moved, Leaving, Turned, Ended, RelayFollows
<1>0. call \in Call /\ CallPlaces /\ fleetsMade \in Nat /\ None.fleet <= fleetsMade BY NoneMade DEF RelayInv, NetTypes
<1>a. New \in Fleet /\ New \in Old /\ {"e.master", "c.save", "c.lost"} \subseteq Ats BY <1>0, Where, FleetFields DEF waitAddr, Ats, EnableAt, ChangeAt
<1>1. /\ call.at = "addr" /\ call.name \in {"enable", "change"} /\ UNCHANGED <<masterFile, relayFile, memberJson, netOwn, net, left, handed, recode, fleetsMade, owners>>
  BY <1>0, Where DEF waitAddr, Keep, files
<1>2. \/ call.name = "enable" /\ (Moved("e.master") \/ Leaving(New, TRUE, "idle"))
      \/ call.name = "change" /\ (Moved("c.save") \/ Moved("c.lost"))
  BY <1>0, <1>1, <1>a, GoMoves, LeaveMoves DEF waitAddr, Lost
<1>3. UNCHANGED loadRelay BY <1>1 DEF loadRelay
<1>4. NetTypes' BY <1>0, <1>1, <1>2, <1>a, <1>3, NoneFields, FleetFields, IdleFields DEF RelayInv, NetTypes
<1>5. CallPlaces' BY <1>0, <1>1, <1>2, <1>a, <1>3, NoneFields, FleetFields, IdleFields DEF RelayInv, CallPlaces, EnableAt, ChangeAt, LeaveAt, JoinAt
<1>6. Either' /\ CodeInv' BY <1>0, <1>1, <1>2, <1>a, <1>3, NoneFields, FleetFields, IdleFields, SameNew DEF RelayInv, Books, Either, CodeInv
<1>7. Fresh' BY <1>0, <1>1, <1>2, <1>a, <1>3 DEF RelayInv, Books, Fresh
<1>8. FileAt' BY <1>0, <1>1, <1>2, <1>a, <1>3, NoneFields, FleetFields, IdleFields, SameNew DEF RelayInv, Books, FileAt, Clean
<1>9. Nets' BY <1>0, <1>1, <1>2, <1>a, <1>3, NoneFields, FleetFields, IdleFields, SameNew DEF RelayInv, Books, Either, FileAt, Nets, NetAt, NamedInv, Excused, Before, Others, Clean
<1>10. Fleets' BY <1>0, <1>1, <1>2, <1>a, <1>3, NoneFields, FleetFields, IdleFields, SameNew DEF RelayInv, Fleets, Marked, FleetAt, JoinFleet, MasterFleet, MemberFleet, Before, Books, Either, Nets, NetAt
<1>11. QED BY <1>4, <1>5, <1>6, <1>7, <1>8, <1>9, <1>10 DEF RelayInv, Books

\* An enable ends with master.json.
LEMMA EnableSavesKeeps == ASSUME RelayInv, EnableSaves PROVE RelayInv'
<1> USE DEF Moved, Leaving, Turned, Ended, RelayFollows
<1>0. call \in Call /\ CallPlaces /\ fleetsMade \in Nat /\ None.fleet <= fleetsMade BY NoneMade DEF RelayInv, NetTypes
<1>a. New \in Fleet /\ New \in Old BY <1>0, Where, FleetFields DEF EnableSaves
<1>1. /\ call.at = "e.master" /\ call.name = "enable" /\ masterFile = None /\ memberJson = None /\ New.relay = call.relay /\ New.fleet = call.fleet
      /\ UNCHANGED <<relayFile, memberJson, netOwn, net, left, handed, fleetsMade, owners>>
  BY <1>0, Where, NewFields DEF EnableSaves, RelayInv, Books, Either
<1>2. \/ Ended /\ masterFile' = New /\ recode' = (handed # NoHanded)
      \/ Leaving(New, TRUE, "idle") /\ UNCHANGED <<masterFile, recode>>
  BY <1>0, <1>a, EndEnds, LeaveMoves DEF EnableSaves
<1>3. left = {} => relayFile = New /\ net.fleet = New.fleet
  BY <1>1 DEF RelayInv, Books, FileAt, Clean, Fleets, FleetAt
<1>4. NetTypes' BY <1>0, <1>1, <1>2, <1>a, <1>3, NoneFields, FleetFields, IdleFields DEF RelayInv, NetTypes
<1>5. CallPlaces' BY <1>0, <1>1, <1>2, <1>a, <1>3, NoneFields, FleetFields, IdleFields DEF RelayInv, CallPlaces, EnableAt, ChangeAt, LeaveAt, JoinAt
<1>6. Either' /\ CodeInv' BY <1>0, <1>1, <1>2, <1>a, <1>3, NoneFields, FleetFields, IdleFields, SameNew DEF RelayInv, Books, Either, CodeInv
<1>7. Fresh' BY <1>0, <1>1, <1>2, <1>a, <1>3 DEF RelayInv, Books, Fresh
<1>8. FileAt' BY <1>0, <1>1, <1>2, <1>a, <1>3, NoneFields, FleetFields, IdleFields, SameNew DEF RelayInv, Books, FileAt, Clean
<1>9. Nets' BY <1>0, <1>1, <1>2, <1>a, <1>3, NoneFields, FleetFields, IdleFields, SameNew DEF RelayInv, Books, Either, FileAt, Nets, NetAt, NamedInv, Excused, Before, Others, Clean
<1>10. Fleets' BY <1>0, <1>1, <1>2, <1>a, <1>3, NoneFields, FleetFields, IdleFields, SameNew DEF RelayInv, Fleets, Marked, FleetAt, JoinFleet, MasterFleet, MemberFleet, Before
<1>11. QED BY <1>4, <1>5, <1>6, <1>7, <1>8, <1>9, <1>10 DEF RelayInv, Books

\* A change saves relay.json first.
LEMMA ChangeSavesKeeps == ASSUME RelayInv, ChangeSaves PROVE RelayInv'
<1> USE DEF Moved, Leaving, Turned, Ended, RelayFollows
<1>0. call \in Call /\ CallPlaces /\ fleetsMade \in Nat /\ None.fleet <= fleetsMade BY NoneMade DEF RelayInv, NetTypes
<1>a. New \in Fleet /\ {"c.move", "c.lost"} \subseteq Ats BY <1>0, Where, FleetFields DEF ChangeSaves, Ats, ChangeAt
<1>1. /\ call.at = "c.save" /\ call.name = "change" /\ masterFile # None /\ memberJson = None /\ New.relay = call.relay /\ New.fleet = call.fleet
      /\ net.login = call.relay
      /\ UNCHANGED <<masterFile, memberJson, netOwn, net, left, handed, recode, fleetsMade, owners>>
  BY <1>0, Where, NewFields DEF ChangeSaves, Keep, RelayInv, Books, Either, Nets, NetAt
<1>2. \/ Moved("c.move") /\ relayFile' = New
      \/ Moved("c.lost") /\ UNCHANGED <<relayFile, loadRelay>>
  BY <1>0, <1>a, GoMoves DEF ChangeSaves, Lost, loadRelay
<1>3. call.fleet = fleetsMade BY <1>1 DEF RelayInv, Books, Fresh
<1>4. NetTypes' BY <1>0, <1>1, <1>2, <1>a, <1>3, NoneFields, FleetFields, IdleFields DEF RelayInv, NetTypes
<1>5. CallPlaces' BY <1>0, <1>1, <1>2, <1>a, <1>3, NoneFields, FleetFields, IdleFields DEF RelayInv, CallPlaces, EnableAt, ChangeAt, LeaveAt, JoinAt
<1>6. Either' /\ CodeInv' BY <1>0, <1>1, <1>2, <1>a, <1>3, NoneFields, FleetFields, IdleFields, SameNew DEF RelayInv, Books, Either, CodeInv
<1>7. Fresh' BY <1>0, <1>1, <1>2, <1>a, <1>3 DEF RelayInv, Books, Fresh
<1>8. FileAt' BY <1>0, <1>1, <1>2, <1>a, <1>3, NoneFields, FleetFields, IdleFields, SameNew DEF RelayInv, Books, FileAt, Clean
<1>9. Nets' BY <1>0, <1>1, <1>2, <1>a, <1>3, NoneFields, FleetFields, IdleFields, SameNew DEF RelayInv, Books, Either, FileAt, Nets, NetAt, NamedInv, Excused, Before, Others, Clean
<1>10. Fleets' BY <1>0, <1>1, <1>2, <1>a, <1>3, NoneFields, FleetFields, IdleFields, SameNew DEF RelayInv, Fleets, Marked, FleetAt, JoinFleet, MasterFleet, MemberFleet, Before
<1>11. QED BY <1>4, <1>5, <1>6, <1>7, <1>8, <1>9, <1>10 DEF RelayInv, Books

\* Then master.json.
LEMMA ChangeMovesKeeps == ASSUME RelayInv, ChangeMoves PROVE RelayInv'
<1> USE DEF Moved, Leaving, Turned, Ended, RelayFollows
<1>0. call \in Call /\ CallPlaces /\ fleetsMade \in Nat /\ None.fleet <= fleetsMade BY NoneMade DEF RelayInv, NetTypes
<1>a. New \in Fleet /\ "c.lost" \in Ats BY <1>0, Where, FleetFields DEF ChangeMoves, Ats, ChangeAt
<1>1. /\ call.at = "c.move" /\ call.name = "change" /\ masterFile # None /\ memberJson = None /\ New.relay = call.relay /\ New.fleet = call.fleet
      /\ net.login = call.relay /\ (Clean => relayFile = New)
      /\ UNCHANGED <<relayFile, memberJson, netOwn, net, left, handed, fleetsMade, owners>>
  BY <1>0, Where, NewFields DEF ChangeMoves, Keep, RelayInv, Books, Either, Nets, NetAt, FileAt
<1>2. \/ Ended /\ masterFile' = New /\ recode' = (handed # NoHanded \/ recode)
      \/ Moved("c.lost") /\ UNCHANGED <<masterFile, recode>>
  BY <1>0, <1>a, GoMoves, EndEnds DEF ChangeMoves, Lost, moveMaster
<1>4. NetTypes' BY <1>0, <1>1, <1>2, <1>a, NoneFields, FleetFields, IdleFields DEF RelayInv, NetTypes
<1>5. CallPlaces' BY <1>0, <1>1, <1>2, <1>a, NoneFields, FleetFields, IdleFields DEF RelayInv, CallPlaces, EnableAt, ChangeAt, LeaveAt, JoinAt
<1>6. Either' /\ CodeInv' BY <1>0, <1>1, <1>2, <1>a, NoneFields, FleetFields, IdleFields, SameNew DEF RelayInv, Books, Either, CodeInv
<1>7. Fresh' BY <1>0, <1>1, <1>2, <1>a DEF RelayInv, Books, Fresh
<1>8. FileAt' BY <1>0, <1>1, <1>2, <1>a, NoneFields, FleetFields, IdleFields, SameNew DEF RelayInv, Books, FileAt, Clean
<1>9. Nets' BY <1>0, <1>1, <1>2, <1>a, NoneFields, FleetFields, IdleFields, SameNew DEF RelayInv, Books, Either, FileAt, Nets, NetAt, NamedInv, Excused, Before, Others, Clean
<1>10. Fleets' BY <1>0, <1>1, <1>2, <1>a, NoneFields, FleetFields, IdleFields, SameNew DEF RelayInv, Fleets, Marked, FleetAt, JoinFleet, MasterFleet, MemberFleet, Before
<1>11. QED BY <1>4, <1>5, <1>6, <1>7, <1>8, <1>9, <1>10 DEF RelayInv, Books

\* A change that failed: the new network is left, and relay.json written back.
LEMMA ChangeLostKeeps == ASSUME RelayInv, ChangeLost, call.at = "c.lost" PROVE RelayInv'
<1> USE DEF Moved, Leaving, Turned, Ended, RelayFollows
<1>0. call \in Call /\ CallPlaces /\ fleetsMade \in Nat /\ None.fleet <= fleetsMade BY NoneMade DEF RelayInv, NetTypes
<1>a. net \in Net /\ "c.back" \in Ats BY DEF RelayInv, NetTypes, Ats, ChangeAt
<1>b. PICK d \in Down(call.relay) : net' = d[1] /\ Stays(d[2]) BY DEF ChangeLost
<1>1. /\ call.name = "change" /\ masterFile # None /\ memberJson = None /\ call.relay \in Relays
      /\ UNCHANGED <<masterFile, relayFile, memberJson, netOwn, handed, recode, fleetsMade, owners>>
  BY <1>0, Where DEF ChangeLost, Keep, files, RelayInv, Books, Either
<1>2. /\ Moved("c.back") /\ net' \in Net /\ (net'.login # "" => net'.login = net.login /\ net'.fleet = net.fleet)
      /\ (left' = left /\ net'.login # call.relay) \/ left' = left \cup {"logout"}
  <2>1. Moved("c.back") BY <1>0, <1>a, GoMoves DEF ChangeLost
  <2> HIDE DEF Moved
  <2>2. QED BY <2>1, <1>1, <1>a, <1>b, DownFacts, FleetFields DEF Stays
<1>4. NetTypes' BY <1>0, <1>1, <1>2, <1>a, NoneFields, FleetFields, IdleFields DEF RelayInv, NetTypes
<1>5. CallPlaces' BY <1>0, <1>1, <1>2, <1>a, NoneFields, FleetFields, IdleFields DEF RelayInv, CallPlaces, EnableAt, ChangeAt, LeaveAt, JoinAt
<1>6. Either' /\ CodeInv' BY <1>0, <1>1, <1>2, <1>a, NoneFields, FleetFields, IdleFields, SameNew DEF RelayInv, Books, Either, CodeInv
<1>7. Fresh' BY <1>0, <1>1, <1>2, <1>a DEF RelayInv, Books, Fresh
<1>8. FileAt' BY <1>0, <1>1, <1>2, <1>a, NoneFields, FleetFields, IdleFields, SameNew DEF RelayInv, Books, FileAt, Clean
<1>9. Nets'
  <2>1. CASE left' = left /\ net'.login # call.relay
    <3>1. Clean' = Clean BY <2>1 DEF Clean
    <3>2. QED BY <2>1, <3>1, <1>0, <1>1, <1>2, NoneFields, FleetFields DEF RelayInv, Nets, NetAt, NamedInv, Excused, Before, Others
  <2>2. CASE left' = left \cup {"logout"}
    <3>1. ~Clean' BY <2>2 DEF Clean
    <3>2. QED BY <3>1, <1>0, <1>1, <1>2 DEF RelayInv, Nets, NetAt, NamedInv
  <2>3. QED BY <1>2, <2>1, <2>2
<1>10. Fleets' BY <1>0, <1>1, <1>2, <1>a, NoneFields, FleetFields, IdleFields, SameNew DEF RelayInv, Fleets, Marked, FleetAt, JoinFleet, MasterFleet, MemberFleet, Before
<1>11. QED BY <1>4, <1>5, <1>6, <1>7, <1>8, <1>9, <1>10 DEF RelayInv, Books

\* relay.json is written back.
LEMMA ChangeBackKeeps == ASSUME RelayInv, ChangeLost, call.at = "c.back" PROVE RelayInv'
<1> USE DEF Moved, Leaving, Turned, Ended, RelayFollows
<1>0. call \in Call /\ CallPlaces /\ fleetsMade \in Nat /\ None.fleet <= fleetsMade BY NoneMade DEF RelayInv, NetTypes
<1>1. /\ call.name = "change" /\ masterFile # None /\ memberJson = None /\ call.relay \in Relays /\ call.old \in Fleet
      /\ New.relay = call.relay
      /\ UNCHANGED <<masterFile, memberJson, netOwn, net, handed, recode, fleetsMade, owners>>
  BY <1>0, Where, NewFields DEF ChangeLost, Keep, files, RelayInv, Books, Either, CallPlaces
<1>2. Ended /\ \/ relayFile' = call.old /\ left' = left
               \/ relayFile' = relayFile /\ left' = IF relayFile = call.old THEN left ELSE left \cup {"relay.json"}
  BY EndEnds DEF ChangeLost
<1>3. call.old.fleet <= fleetsMade
  <2>1. call.old.fleet < call.fleet /\ call.fleet = fleetsMade BY <1>1 DEF RelayInv, Books, Fresh
  <2>2. call.old.fleet \in Nat BY <1>1, FleetFields
  <2>3. QED BY <1>0, <2>1, <2>2
<1>4. NetTypes' BY <1>0, <1>1, <1>2, <1>3, NoneFields, FleetFields, IdleFields DEF RelayInv, NetTypes
<1>5. CallPlaces' BY <1>0, <1>1, <1>2, <1>3, NoneFields, FleetFields, IdleFields DEF RelayInv, CallPlaces, EnableAt, ChangeAt, LeaveAt, JoinAt
<1>6. Either' /\ CodeInv' BY <1>0, <1>1, <1>2, <1>3, NoneFields, FleetFields, IdleFields, SameNew DEF RelayInv, Books, Either, CodeInv
<1>7. Fresh' BY <1>0, <1>1, <1>2, <1>3 DEF RelayInv, Books, Fresh
<1>8. FileAt' BY <1>0, <1>1, <1>2, <1>3, NoneFields, FleetFields, IdleFields, SameNew DEF RelayInv, Books, FileAt, Clean
<1>9. Nets' BY <1>0, <1>1, <1>2, <1>3, NoneFields, FleetFields, IdleFields, SameNew, ZenonT(60) DEF RelayInv, Books, Either, FileAt, Nets, NetAt, NamedInv, Excused, Before, Others, Clean
<1>10. Fleets' BY <1>0, <1>1, <1>2, <1>3, NoneFields, FleetFields, IdleFields, SameNew DEF RelayInv, Fleets, Marked, FleetAt, JoinFleet, MasterFleet, MemberFleet, Before
<1>11. QED BY <1>4, <1>5, <1>6, <1>7, <1>8, <1>9, <1>10 DEF RelayInv, Books

\* A disable forgets the master and leaves its relay.
LEMMA DisableKeeps == ASSUME RelayInv, DisableRemoves PROVE RelayInv'
<1> USE DEF Moved, Leaving, Turned, Ended, RelayFollows
<1>0. call \in Call /\ CallPlaces /\ fleetsMade \in Nat /\ None.fleet <= fleetsMade BY NoneMade DEF RelayInv, NetTypes
<1>a. NetTypes BY DEF RelayInv
<1>1. /\ call.at = "d.remove" /\ call.name = "disable" /\ memberJson = None
      /\ masterFile' = None /\ handed' = NoHanded /\ recode' = FALSE
      /\ UNCHANGED <<relayFile, memberJson, netOwn, net, left, fleetsMade, owners>>
  BY <1>0, Where DEF DisableRemoves, relayBounds, RelayInv, Books, Either
<1>2. Leaving(loadRelay, TRUE, "idle") BY <1>0, <1>a, LoadFacts, LeaveMoves DEF DisableRemoves
<1>3. NoHanded \in [key : Nat, fleet : Nat] BY DEF NoHanded
<1>3a. /\ loadRelay \in Fleet \cup {None} /\ loadRelay \in Old /\ (loadRelay = relayFile \/ (relayFile = Damaged /\ loadRelay = None))
  BY <1>a, LoadFacts
<1>4. NetTypes' BY <1>0, <1>1, <1>2, <1>3, <1>3a, NoneFields, FleetFields, IdleFields DEF RelayInv, NetTypes
<1>5. CallPlaces' BY <1>0, <1>1, <1>2, <1>3, <1>3a, NoneFields, FleetFields, IdleFields DEF RelayInv, CallPlaces, EnableAt, ChangeAt, LeaveAt, JoinAt
<1>6. Either' /\ CodeInv' BY <1>0, <1>1, <1>2, <1>3, <1>3a, NoneFields, FleetFields, IdleFields, SameNew DEF RelayInv, Books, Either, CodeInv
<1>7. Fresh' BY <1>0, <1>1, <1>2, <1>3, <1>3a DEF RelayInv, Books, Fresh
<1>8. FileAt' BY <1>0, <1>1, <1>2, <1>3, <1>3a, NoneFields, FleetFields, IdleFields, SameNew DEF RelayInv, Books, FileAt, Clean
<1>9. Nets' BY <1>0, <1>1, <1>2, <1>3, <1>3a, NoneFields, FleetFields, IdleFields, SameNew DEF RelayInv, Books, Either, FileAt, Nets, NetAt, NamedInv, Excused, Before, Others, Clean
<1>10. Fleets' BY <1>0, <1>1, <1>2, <1>3, <1>3a, NoneFields, FleetFields, IdleFields, SameNew DEF RelayInv, Fleets, Marked, FleetAt, JoinFleet, MasterFleet, MemberFleet, Before
<1>11. QED BY <1>4, <1>5, <1>6, <1>7, <1>8, <1>9, <1>10 DEF RelayInv, Books

\* A code: the relay is asked for a join key, then the code is made.
LEMMA KeyForKeeps == ASSUME RelayInv, joinKeyFor PROVE RelayInv'
<1> USE DEF Moved, Leaving, Turned, Ended, RelayFollows
<1>0. call \in Call /\ CallPlaces /\ fleetsMade \in Nat /\ None.fleet <= fleetsMade BY NoneMade DEF RelayInv, NetTypes
<1>a. NetTypes /\ "k.code" \in Ats BY DEF RelayInv, Ats
<1>1. /\ call.at = "k.relay" /\ call.name = "code" /\ masterFile # None /\ masterFile \in Old
      /\ UNCHANGED <<relayFile, memberJson, netOwn, net, left, handed, fleetsMade, owners>>
  BY <1>0, Where, FleetFields, NoneFields DEF joinKeyFor, RelayInv, Books, Either, NetTypes
<1>2. /\ UNCHANGED <<masterFile, recode>> \/ RelayFollows
      /\ Ended \/ (Turned("k.code", relayFile.fleet, masterFile) /\ masterFile'.fleet = relayFile.fleet)
  <2>1. relayFor \in {"ok", "moves"} => relayFile = loadRelay /\ relayFile \in Fleet BY <1>a, LoadFacts
  <2>2. UNCHANGED <<masterFile, recode>> \/ RelayFollows BY <1>a, <2>1, LoadFacts DEF joinKeyFor, moveMaster
  <2>3. CASE End BY <2>2, <2>3, EndEnds
  <2>4. CASE relayFor \in {"ok", "moves"} /\ call' = [call EXCEPT !.at = "k.code", !.fleet = loadRelay.fleet, !.old = masterFile]
    <3>1. call' = [call EXCEPT !.at = "k.code", !.fleet = relayFile.fleet, !.old = masterFile] /\ relayFile.fleet \in Nat
      BY <2>1, <2>4, FleetFields
    <3>2. Turned("k.code", relayFile.fleet, masterFile) BY <1>0, <1>1, <1>a, <3>1, Turns
    <3>3. masterFile' = relayFile BY <1>a, <2>1, <2>4, LoadFacts DEF joinKeyFor, moveMaster
    <3>4. QED BY <2>2, <3>2, <3>3
  <2>5. QED BY <2>3, <2>4 DEF joinKeyFor
<1>4. NetTypes' BY <1>0, <1>1, <1>2, NoneFields, FleetFields, IdleFields DEF RelayInv, NetTypes
<1>5. CallPlaces' BY <1>0, <1>1, <1>2, NoneFields, FleetFields, IdleFields DEF RelayInv, CallPlaces, EnableAt, ChangeAt, LeaveAt, JoinAt
<1>6. Either' /\ CodeInv'
  <2>1. Either' BY <1>0, <1>1, <1>2, NoneFields, FleetFields, IdleFields DEF RelayInv, Books, Either
  <2>2. CodeInv'
    <3>1. CASE RelayFollows BY <1>0, <1>1, <1>2, <3>1, IdleFields DEF RelayInv, Books, CodeInv
    <3>2. CASE UNCHANGED <<masterFile, recode>> BY <1>0, <1>1, <1>2, <3>2, IdleFields DEF RelayInv, Books, CodeInv
    <3>3. QED BY <1>2, <3>1, <3>2
  <2>3. QED BY <2>1, <2>2
<1>7. Fresh' BY <1>0, <1>1, <1>2 DEF RelayInv, Books, Fresh
<1>8. FileAt' BY <1>0, <1>1, <1>2, NoneFields, FleetFields, IdleFields, SameNew DEF RelayInv, Books, FileAt, Clean
<1>9. Nets' BY <1>0, <1>1, <1>2, NoneFields, FleetFields, IdleFields, SameNew DEF RelayInv, Books, Either, FileAt, Nets, NetAt, NamedInv, Excused, Before, Others, Clean
<1>10. Fleets' BY <1>0, <1>1, <1>2, NoneFields, FleetFields, IdleFields, SameNew DEF RelayInv, Fleets, Marked, FleetAt, JoinFleet, MasterFleet, MemberFleet, Before
<1>11. QED BY <1>4, <1>5, <1>6, <1>7, <1>8, <1>9, <1>10 DEF RelayInv, Books

\* The code is of the fleet that master.json names.
LEMMA CodeKeeps == ASSUME RelayInv, code PROVE RelayInv'
<1> USE DEF Moved, Leaving, Turned, Ended, RelayFollows
<1>0. call \in Call /\ CallPlaces /\ fleetsMade \in Nat /\ None.fleet <= fleetsMade BY NoneMade DEF RelayInv, NetTypes
<1>a. call.fleet \in Nat /\ masterFile.fleet \in Nat BY <1>0, Where, FleetFields, NoneFields DEF RelayInv, NetTypes
<1>1. /\ call.at = "k.code" /\ call.name = "code" /\ call.fleet = masterFile.fleet
      /\ recode' = FALSE
      /\ UNCHANGED <<masterFile, relayFile, memberJson, netOwn, net, left, fleetsMade, owners>>
  BY <1>0, Where DEF code, files, relayBounds, RelayInv, Books, CodeInv
<1>2. Ended /\ handed'.key = call.fleet /\ handed'.fleet = call.fleet /\ handed' \in [key : Nat, fleet : Nat]
  BY <1>1, <1>a, EndEnds DEF code, handOver
<1>4. NetTypes' BY <1>0, <1>1, <1>2, NoneFields, FleetFields, IdleFields DEF RelayInv, NetTypes
<1>5. CallPlaces' BY <1>0, <1>1, <1>2, NoneFields, FleetFields, IdleFields DEF RelayInv, CallPlaces, EnableAt, ChangeAt, LeaveAt, JoinAt
<1>6. Either' /\ CodeInv' BY <1>0, <1>1, <1>2, NoneFields, FleetFields, IdleFields, SameNew DEF RelayInv, Books, Either, CodeInv
<1>7. Fresh' BY <1>0, <1>1, <1>2 DEF RelayInv, Books, Fresh
<1>8. FileAt' BY <1>0, <1>1, <1>2, NoneFields, FleetFields, IdleFields, SameNew DEF RelayInv, Books, FileAt, Clean
<1>9. Nets' BY <1>0, <1>1, <1>2, NoneFields, FleetFields, IdleFields, SameNew DEF RelayInv, Books, Either, FileAt, Nets, NetAt, NamedInv, Excused, Before, Others, Clean
<1>10. Fleets' BY <1>0, <1>1, <1>2, NoneFields, FleetFields, IdleFields, SameNew DEF RelayInv, Fleets, Marked, FleetAt, JoinFleet, MasterFleet, MemberFleet, Before
<1>11. QED BY <1>4, <1>5, <1>6, <1>7, <1>8, <1>9, <1>10 DEF RelayInv, Books

\* The steps of a join.
LEMMA JoinChecksKeeps == ASSUME RelayInv, JoinChecks PROVE RelayInv'
<1> USE DEF Moved, Leaving, Turned, Ended, RelayFollows
<1>0. call \in Call /\ CallPlaces /\ fleetsMade \in Nat /\ None.fleet <= fleetsMade BY NoneMade DEF RelayInv, NetTypes
<1>a. /\ NetTypes /\ {"j.enrol", "j.mark", "j.down"} \subseteq Ats /\ call.key \in BOOLEAN /\ New.relay = call.relay /\ New.fleet = call.fleet
  BY <1>0, Where, NewFields DEF RelayInv, Ats, JoinAt
<1>1. /\ call.at = "j.check" /\ call.name = "join" /\ call.relay \in Relays /\ (call.key \/ memberJson # None)
      /\ UNCHANGED <<masterFile, relayFile, memberJson, netOwn, net, left, handed, recode, fleetsMade, owners>>
  BY <1>0, <1>a, Where DEF JoinChecks, Keep, files, RelayInv, Books, Either
<1>b. /\ memberJson.relay \in Relays \cup {""} /\ (memberJson.relay = "" <=> memberJson = None)
      /\ memberJson.fleet \in Nat /\ (memberJson # None => memberJson.fleet # 0) /\ netOwn \in Relays \cup {""}
  BY <1>a, FleetFields, NoneFields DEF NetTypes
<1>c. /\ Go("j.enrol") => Moved("j.enrol")
      /\ Go("j.mark") => Moved("j.mark")
  BY <1>0, <1>a, GoMoves
<1>2. \/ Ended
      \/ /\ masterFile = None
         /\ \/ Moved("j.enrol") /\ ~call.key /\ net.login = call.relay /\ memberJson.fleet = call.fleet
            \/ Moved("j.mark") /\ call.key /\ memberJson = New
            \/ Moved("j.mark") /\ call.key /\ memberJson = None /\ netOwn = ""
            \/ /\ call' \in Call /\ call'.at = "j.down" /\ call'.name = call.name /\ call'.relay = call.relay /\ call'.fleet = call.fleet
               /\ call'.key = call.key /\ call.key
               /\ call'.old.relay \in Relays /\ call'.old.relay \in Others
               /\ netOwn # "" /\ netOwn # call'.old.relay => net.login # netOwn
  <2> HIDE DEF Moved, Ended
  <2>1. CASE End BY <2>1, EndEnds
  <2>2. CASE masterFile = None /\ ~call.key /\ Connected /\ LoginServer = call.relay /\ memberJson.fleet \in {0, call.fleet} /\ Go("j.enrol")
    BY <1>1, <1>b, <1>c, <2>2 DEF Connected, LoginServer
  <2>3. CASE masterFile = None /\ call.key /\ sameFleet /\ Go("j.mark") BY <1>c, <2>3 DEF sameFleet
  <2>4. CASE masterFile = None /\ call.key /\ ownNet = {} /\ LoginServer = "" /\ Go("j.mark")
    <3>0. \A r \in Ours : r \in ownNet BY <2>4 DEF ownNet
    <3>1. netOwn = "" /\ memberJson.relay = "" BY <2>4, <3>0 DEF Ours
    <3>2. QED BY <1>b, <1>c, <2>4, <3>1
  <2>5. CASE /\ masterFile = None /\ call.key /\ ownNet # {}
             /\ call' = [call EXCEPT !.at = "j.down", !.old.relay = IF netOwn \in ownNet THEN netOwn ELSE memberJson.relay]
    <3> DEFINE r == IF netOwn \in ownNet THEN netOwn ELSE memberJson.relay
    <3>1. r \in Relays /\ r \in Others BY <1>b, <2>5 DEF ownNet, Ours, Others
    <3>2. netOwn # "" /\ netOwn # r => net.login # netOwn
      <4>1. SUFFICES ASSUME netOwn # "", netOwn \notin ownNet PROVE net.login # netOwn BY <1>b
      <4>2. LoginServer \notin {"", netOwn} BY <4>1 DEF ownNet, Ours
      <4>3. QED BY <4>2 DEF LoginServer
    <3>3. call.old \in Old BY <1>0, Where
    <3>4. call' = [call EXCEPT !.at = "j.down", !.old.relay = r] BY <2>5
    <3> HIDE DEF r
    <3>5. [call.old EXCEPT !.relay = r] \in Old /\ [call.old EXCEPT !.relay = r].relay = r BY <3>1, <3>3 DEF Old
    <3>6. call' = [call EXCEPT !.at = "j.down", !.old = [call.old EXCEPT !.relay = r]] BY <1>0, <3>4 DEF Call
    <3> DEFINE o == [call.old EXCEPT !.relay = r]
    <3>7. call' = [call EXCEPT !.at = "j.down", !.fleet = call.fleet, !.old = o] /\ o \in Old /\ o.relay = r
      BY <1>0, <3>5, <3>6 DEF Call
    <3> HIDE DEF o
    <3>8. Turned("j.down", call.fleet, o) BY <1>0, <1>a, <3>7, Turns, Where
    <3>9. QED BY <2>5, <3>1, <3>2, <3>7, <3>8
  <2>6. QED BY <2>1, <2>2, <2>3, <2>4, <2>5 DEF JoinChecks
<1>3. left = {} => Clean BY DEF Clean
<1>3a. left = {} /\ relayFile = None /\ memberJson = None /\ netOwn = "" => net.login \notin Relays
  BY <1>1, <1>3, NoneFields, FleetFields DEF RelayInv, Nets, NamedInv, Excused, Others
<1>3b. memberJson # None /\ memberJson.relay = call.relay /\ memberJson.fleet = call.fleet => memberJson = New
  BY <1>a DEF NetTypes, Fleet, New
<1>4. NetTypes' BY <1>0, <1>1, <1>2, <1>a, <1>b, <1>3, <1>3a, <1>3b, NoneFields, FleetFields, IdleFields DEF RelayInv, NetTypes
<1>5. CallPlaces' BY <1>0, <1>1, <1>2, <1>a, <1>b, <1>3, <1>3a, <1>3b, NoneFields, FleetFields, IdleFields DEF RelayInv, CallPlaces, EnableAt, ChangeAt, LeaveAt, JoinAt
<1>6. Either' /\ CodeInv' BY <1>0, <1>1, <1>2, <1>a, <1>b, <1>3, <1>3a, <1>3b, NoneFields, FleetFields, IdleFields, SameNew DEF RelayInv, Books, Either, CodeInv
<1>7. Fresh' BY <1>0, <1>1, <1>2, <1>a, <1>b, <1>3, <1>3a, <1>3b DEF RelayInv, Books, Fresh
<1>8. FileAt' BY <1>0, <1>1, <1>2, <1>a, <1>b, <1>3, <1>3a, <1>3b, NoneFields, FleetFields, IdleFields, SameNew DEF RelayInv, Books, FileAt, Clean
<1>9. Nets' BY <1>0, <1>1, <1>2, <1>a, <1>b, <1>3, <1>3a, <1>3b, NoneFields, FleetFields, IdleFields, SameNew DEF RelayInv, Books, Either, FileAt, Nets, NetAt, NamedInv, Excused, Before, Others, Clean
<1>10. Fleets'
  <2>1. Marked' /\ FleetAt' BY <1>0, <1>1, <1>2, <1>a, <1>b, <1>3, <1>3a, <1>3b, NoneFields, FleetFields, IdleFields, SameNew DEF RelayInv, Fleets, Marked, FleetAt, Before
  <2>2. JoinFleet' BY <1>0, <1>1, <1>2, <1>a, <1>b, <1>3, <1>3a, <1>3b, NoneFields, FleetFields, IdleFields, SameNew, ZenonT(60) DEF RelayInv, Fleets, JoinFleet, MemberFleet
  <2>3. MasterFleet' BY <1>0, <1>1, <1>2, <1>a, <1>b, <1>3, <1>3a, <1>3b, NoneFields, FleetFields, IdleFields DEF RelayInv, Fleets, MasterFleet
  <2>4. MemberFleet' BY <1>0, <1>1, <1>2, <1>a, <1>b, <1>3, <1>3a, <1>3b, NoneFields, FleetFields, IdleFields, SameNew DEF RelayInv, Fleets, MemberFleet
  <2>5. QED BY <2>1, <2>2, <2>3, <2>4 DEF Fleets
<1>11. QED BY <1>4, <1>5, <1>6, <1>7, <1>8, <1>9, <1>10 DEF RelayInv, Books

\* A join leaves the network of an earlier one.
LEMMA JoinLeavesKeeps == ASSUME RelayInv, JoinLeaves PROVE RelayInv'
<1> USE DEF Moved, Leaving, Turned, Ended, RelayFollows
<1>0. call \in Call /\ CallPlaces /\ fleetsMade \in Nat /\ None.fleet <= fleetsMade BY NoneMade DEF RelayInv, NetTypes
<1>a. net \in Net /\ "j.mark" \in Ats BY DEF RelayInv, NetTypes, Ats, JoinAt
<1>b. PICK d \in Down(call.old.relay) : /\ net' = d[1]
                                        /\ IF d[2] = "ok" THEN netOwn' = "" /\ Go("j.mark") ELSE End /\ UNCHANGED netOwn
  BY DEF JoinLeaves
<1>1. /\ call.at = "j.down" /\ call.name = "join" /\ masterFile = None /\ call.old.relay \in Relays
      /\ call.old.relay \in Others /\ (netOwn # "" /\ netOwn # call.old.relay => net.login # netOwn)
      /\ UNCHANGED <<masterFile, relayFile, memberJson, left, handed, recode, fleetsMade, owners>>
  BY <1>0, Where DEF JoinLeaves, Keep, RelayInv, Books, Either, CallPlaces, Nets, NetAt
<1>2. /\ net' \in Net /\ (net'.login # "" => net'.login = net.login /\ net'.fleet = net.fleet)
      /\ \/ Ended /\ netOwn' = netOwn
         \/ Moved("j.mark") /\ netOwn' = "" /\ net'.login # call.old.relay
  BY <1>0, <1>1, <1>a, <1>b, DownFacts, GoMoves, EndEnds, FleetFields
<1>3. left = {} => Clean BY DEF Clean
<1>3a. left = {} /\ relayFile = None /\ net'.login \in Relays => Ended
  BY <1>1, <1>2, <1>3, FleetFields, NoneFields DEF RelayInv, Nets, NamedInv, Excused, Others, Fleets, MemberFleet
<1>4. NetTypes' BY <1>0, <1>1, <1>2, <1>3, <1>3a, NoneFields, FleetFields, IdleFields DEF RelayInv, NetTypes
<1>5. CallPlaces' BY <1>0, <1>1, <1>2, <1>3, <1>3a, NoneFields, FleetFields, IdleFields DEF RelayInv, CallPlaces, EnableAt, ChangeAt, LeaveAt, JoinAt
<1>6. Either' /\ CodeInv' BY <1>0, <1>1, <1>2, <1>3, <1>3a, NoneFields, FleetFields, IdleFields, SameNew DEF RelayInv, Books, Either, CodeInv
<1>7. Fresh' BY <1>0, <1>1, <1>2, <1>3, <1>3a DEF RelayInv, Books, Fresh
<1>8. FileAt' BY <1>0, <1>1, <1>2, <1>3, <1>3a, NoneFields, FleetFields, IdleFields, SameNew DEF RelayInv, Books, FileAt, Clean
<1>9. Nets' BY <1>0, <1>1, <1>2, <1>3, <1>3a, NoneFields, FleetFields, IdleFields, SameNew DEF RelayInv, Books, Either, FileAt, Nets, NetAt, NamedInv, Excused, Before, Others, Clean
<1>10. Fleets' BY <1>0, <1>1, <1>2, <1>3, <1>3a, NoneFields, FleetFields, IdleFields, SameNew DEF RelayInv, Fleets, Marked, FleetAt, JoinFleet, MasterFleet, MemberFleet, Before
<1>11. QED BY <1>4, <1>5, <1>6, <1>7, <1>8, <1>9, <1>10 DEF RelayInv, Books

\* A join marks the network before it is in it.
LEMMA MarkKeeps == ASSUME RelayInv, Watched = {}, saveNetOwn PROVE RelayInv'
<1> USE DEF Moved, Leaving, Turned, Ended, RelayFollows
<1>0. call \in Call /\ CallPlaces /\ fleetsMade \in Nat /\ None.fleet <= fleetsMade BY NoneMade DEF RelayInv, NetTypes
<1>1. /\ call.at = "j.mark" /\ call.name = "join" /\ masterFile = None /\ call.relay \in Relays
      /\ left' = left \cup (IF netOwn \in {"", call.relay} THEN {} ELSE {"marker"})
      /\ UNCHANGED <<masterFile, relayFile, memberJson, net, handed, recode, fleetsMade, owners>>
  BY <1>0, Where DEF saveNetOwn, Keep, RelayInv, Books, Either
<1>2. \/ Moved("j.up") /\ netOwn' = call.relay
      \/ Ended /\ netOwn' = netOwn
  BY <1>0, GoMoves, EndEnds DEF saveNetOwn, Ats, JoinAt
<1>3. /\ Clean' => Clean /\ netOwn \in {"", call.relay}
      /\ left' = {} => left = {} /\ netOwn \in {"", call.relay}
  BY <1>1 DEF Clean
<1>4. NetTypes' BY <1>0, <1>1, <1>2, <1>3, NoneFields, FleetFields, IdleFields DEF RelayInv, NetTypes
<1>5. CallPlaces' BY <1>0, <1>1, <1>2, <1>3, NoneFields, FleetFields, IdleFields DEF RelayInv, CallPlaces, EnableAt, ChangeAt, LeaveAt, JoinAt
<1>6. Either' /\ CodeInv' BY <1>0, <1>1, <1>2, <1>3, NoneFields, FleetFields, IdleFields, SameNew DEF RelayInv, Books, Either, CodeInv
<1>7. Fresh' BY <1>0, <1>1, <1>2, <1>3 DEF RelayInv, Books, Fresh
<1>8. FileAt' BY <1>0, <1>1, <1>2, <1>3, NoneFields, FleetFields, IdleFields, SameNew DEF RelayInv, Books, FileAt, Clean
<1>9. Nets' BY <1>0, <1>1, <1>2, <1>3, NoneFields, FleetFields, IdleFields, SameNew DEF RelayInv, Books, Either, FileAt, Nets, NetAt, NamedInv, Excused, Before, Others, Clean
<1>10. Fleets' BY <1>0, <1>1, <1>2, <1>3, NoneFields, FleetFields, IdleFields, SameNew DEF RelayInv, Fleets, Marked, FleetAt, JoinFleet, MasterFleet, MemberFleet, Before
<1>11. QED BY <1>4, <1>5, <1>6, <1>7, <1>8, <1>9, <1>10 DEF RelayInv, Books

\* A join logs in.
LEMMA JoinUpKeeps == ASSUME RelayInv, JoinUp PROVE RelayInv'
<1> USE DEF Moved, Leaving, Turned, Ended, RelayFollows
<1>0. call \in Call /\ CallPlaces /\ fleetsMade \in Nat /\ None.fleet <= fleetsMade BY NoneMade DEF RelayInv, NetTypes
<1>a. /\ net \in Net /\ "j.addr" \in Ats /\ New \in Fleet /\ call.relay \in Relays /\ call.fleet \in Nat
      /\ call.at = "j.up" /\ call.name = "join" /\ New.relay = call.relay /\ New.fleet = call.fleet /\ masterFile = None /\ netOwn = call.relay
  BY <1>0, Where, FleetFields, NewFields DEF RelayInv, NetTypes, Ats, JoinAt, JoinUp, Books, Either, Nets, NetAt
<1>b. PICK u \in Up(call.relay, call.fleet) :
         /\ net' = u[1]
         /\ IF u[2] = "ok" THEN Go("j.addr") /\ UNCHANGED netOwn
            ELSE (IF u[2] = "other" THEN netOwn' = "" ELSE UNCHANGED netOwn) /\ End
         /\ left' = IF u[2] = "stays" THEN left \cup {"marked"} ELSE left
  BY DEF JoinUp
<1>c. UpEffect(call.relay, call.fleet, u)
  <2> HIDE DEF Moved, Leaving, Turned, Ended, RelayFollows
  <2>1. net \in Net /\ call.relay \in Relays /\ call.fleet \in Nat /\ u \in Up(call.relay, call.fleet) BY <1>a, <1>b
  <2>2. QED BY <2>1, UpFacts
<1>1. UNCHANGED <<masterFile, relayFile, memberJson, handed, recode, fleetsMade, owners>> BY DEF JoinUp, Keep
<1>2. /\ net' \in Net
      /\ \/ /\ Moved("j.addr") /\ netOwn' = netOwn /\ left' = left /\ net'.login = call.relay
            /\ IF net.login = call.relay THEN net'.fleet = net.fleet ELSE net'.fleet = call.fleet /\ net.login = ""
         \/ Ended /\ netOwn' = "" /\ left' = left /\ net.login \notin {"", call.relay} /\ net'.login = net.login /\ net'.fleet = net.fleet
         \/ Ended /\ netOwn' = netOwn /\ left' = left \cup {"marked"} /\ net'.login = call.relay
         \/ Ended /\ netOwn' = netOwn /\ left' = left /\ net'.login = net.login /\ net'.fleet = net.fleet
  <2>1. (Go("j.addr") => Moved("j.addr")) /\ (End => Ended) BY <1>0, <1>a, GoMoves, EndEnds
  <2> HIDE DEF Moved, Leaving, Turned, Ended, RelayFollows
  <2>2. CASE u[2] = "ok" BY <1>b, <1>c, <2>1, <2>2 DEF UpEffect
  <2>3. CASE u[2] = "other" BY <1>b, <1>c, <2>1, <2>3 DEF UpEffect
  <2>4. CASE u[2] = "stays" BY <1>b, <1>c, <2>1, <2>4 DEF UpEffect
  <2>5. CASE u[2] = "fail" BY <1>b, <1>c, <2>1, <2>5 DEF UpEffect
  <2>6. QED BY <1>c, <2>2, <2>3, <2>4, <2>5 DEF UpEffect
<1>4. NetTypes' BY <1>0, <1>1, <1>2, <1>a, NoneFields, FleetFields, IdleFields DEF RelayInv, NetTypes
<1>5. CallPlaces' BY <1>0, <1>1, <1>2, <1>a, NoneFields, FleetFields, IdleFields DEF RelayInv, CallPlaces, EnableAt, ChangeAt, LeaveAt, JoinAt
<1>6. Either' /\ CodeInv' BY <1>0, <1>1, <1>2, <1>a, NoneFields, FleetFields, IdleFields, SameNew DEF RelayInv, Books, Either, CodeInv
<1>7. Fresh' BY <1>0, <1>1, <1>2, <1>a DEF RelayInv, Books, Fresh
<1>8. FileAt' BY <1>0, <1>1, <1>2, <1>a, NoneFields, FleetFields, IdleFields, SameNew DEF RelayInv, Books, FileAt, Clean
<1>9. Nets' BY <1>0, <1>1, <1>2, <1>a, NoneFields, FleetFields, IdleFields, SameNew DEF RelayInv, Books, Either, FileAt, Nets, NetAt, NamedInv, Excused, Before, Others, Clean
<1>10. Fleets' BY <1>0, <1>1, <1>2, <1>a, NoneFields, FleetFields, IdleFields, SameNew DEF RelayInv, Fleets, Marked, FleetAt, JoinFleet, MasterFleet, MemberFleet, Before
<1>11. QED BY <1>4, <1>5, <1>6, <1>7, <1>8, <1>9, <1>10 DEF RelayInv, Books

\* A join waits for its address.
LEMMA JoinAddrKeeps == ASSUME RelayInv, JoinAddr PROVE RelayInv'
<1> USE DEF Moved, Leaving, Turned, Ended, RelayFollows
<1>0. call \in Call /\ CallPlaces /\ fleetsMade \in Nat /\ None.fleet <= fleetsMade BY NoneMade DEF RelayInv, NetTypes
<1>1. call.at = "j.addr" /\ call.name = "join" /\ UNCHANGED <<masterFile, relayFile, memberJson, netOwn, net, left, handed, recode, fleetsMade, owners>> BY <1>0, Where DEF JoinAddr, Keep, files
<1>2. Moved("j.enrol") \/ Moved("j.undo") BY <1>0, GoMoves DEF JoinAddr, Ats, JoinAt
<1>3. call.key BY <1>0, <1>1 DEF CallPlaces
<1>4. NetTypes' BY <1>0, <1>1, <1>2, <1>3, NoneFields, FleetFields, IdleFields DEF RelayInv, NetTypes
<1>5. CallPlaces' BY <1>0, <1>1, <1>2, <1>3, NoneFields, FleetFields, IdleFields DEF RelayInv, CallPlaces, EnableAt, ChangeAt, LeaveAt, JoinAt
<1>6. Either' /\ CodeInv' BY <1>0, <1>1, <1>2, <1>3, NoneFields, FleetFields, IdleFields, SameNew DEF RelayInv, Books, Either, CodeInv
<1>7. Fresh' BY <1>0, <1>1, <1>2, <1>3 DEF RelayInv, Books, Fresh
<1>8. FileAt' BY <1>0, <1>1, <1>2, <1>3, NoneFields, FleetFields, IdleFields, SameNew DEF RelayInv, Books, FileAt, Clean
<1>9. Nets' BY <1>0, <1>1, <1>2, <1>3, NoneFields, FleetFields, IdleFields, SameNew DEF RelayInv, Books, Either, FileAt, Nets, NetAt, NamedInv, Excused, Before, Others, Clean
<1>10. Fleets' BY <1>0, <1>1, <1>2, <1>3, NoneFields, FleetFields, IdleFields, SameNew DEF RelayInv, Fleets, Marked, FleetAt, JoinFleet, MasterFleet, MemberFleet, Before
<1>11. QED BY <1>4, <1>5, <1>6, <1>7, <1>8, <1>9, <1>10 DEF RelayInv, Books

\* A join enrols at the master and saves member.json.
LEMMA JoinEnrolsKeeps == ASSUME RelayInv, JoinEnrols PROVE RelayInv'
<1> USE DEF Moved, Leaving, Turned, Ended, RelayFollows
<1>0. call \in Call /\ CallPlaces /\ fleetsMade \in Nat /\ None.fleet <= fleetsMade BY NoneMade DEF RelayInv, NetTypes
<1>a. New \in Fleet /\ {"j.clear", "j.undo"} \subseteq Ats /\ call.key \in BOOLEAN /\ New.relay = call.relay /\ New.fleet = call.fleet
  BY <1>0, Where, NewFields DEF JoinEnrols, Ats, JoinAt
<1>1. /\ call.at = "j.enrol" /\ call.name = "join" /\ masterFile = None /\ net.login = call.relay /\ (call.key => netOwn = call.relay)
      /\ UNCHANGED <<masterFile, relayFile, netOwn, net, left, handed, recode, fleetsMade, owners>>
  BY <1>0, Where DEF JoinEnrols, Keep, RelayInv, Books, Either, Nets, NetAt
<1>2. \/ memberJson' = New /\ ((call.key /\ Moved("j.clear")) \/ (~call.key /\ Ended))
      \/ memberJson' = memberJson /\ ((call.key /\ Moved("j.undo")) \/ (~call.key /\ Ended))
  BY <1>0, <1>a, GoMoves, EndEnds DEF JoinEnrols
<1>4. NetTypes' BY <1>0, <1>1, <1>2, <1>a, NoneFields, FleetFields, IdleFields DEF RelayInv, NetTypes
<1>5. CallPlaces' BY <1>0, <1>1, <1>2, <1>a, NoneFields, FleetFields, IdleFields DEF RelayInv, CallPlaces, EnableAt, ChangeAt, LeaveAt, JoinAt
<1>6. Either' /\ CodeInv' BY <1>0, <1>1, <1>2, <1>a, NoneFields, FleetFields, IdleFields, SameNew DEF RelayInv, Books, Either, CodeInv
<1>7. Fresh' BY <1>0, <1>1, <1>2, <1>a DEF RelayInv, Books, Fresh
<1>8. FileAt' BY <1>0, <1>1, <1>2, <1>a, NoneFields, FleetFields, IdleFields, SameNew DEF RelayInv, Books, FileAt, Clean
<1>9. Nets' BY <1>0, <1>1, <1>2, <1>a, NoneFields, FleetFields, IdleFields, SameNew DEF RelayInv, Books, Either, FileAt, Nets, NetAt, NamedInv, Excused, Before, Others, Clean
<1>10. Fleets' BY <1>0, <1>1, <1>2, <1>a, NoneFields, FleetFields, IdleFields, SameNew DEF RelayInv, Fleets, Marked, FleetAt, JoinFleet, MasterFleet, MemberFleet, Before
<1>11. QED BY <1>4, <1>5, <1>6, <1>7, <1>8, <1>9, <1>10 DEF RelayInv, Books

\* A join that failed leaves the network again.
LEMMA JoinUndoesKeeps == ASSUME RelayInv, JoinUndoes PROVE RelayInv'
<1> USE DEF Moved, Leaving, Turned, Ended, RelayFollows
<1>0. call \in Call /\ CallPlaces /\ fleetsMade \in Nat /\ None.fleet <= fleetsMade BY NoneMade DEF RelayInv, NetTypes
<1>a. net \in Net BY DEF RelayInv, NetTypes
<1>1. /\ call.at = "j.undo" /\ call.name = "join" /\ masterFile = None /\ net.login = call.relay /\ netOwn = call.relay /\ call.relay \in Relays
      /\ UNCHANGED <<masterFile, relayFile, memberJson, handed, recode, fleetsMade, owners>>
  BY <1>0, Where DEF JoinUndoes, Keep, RelayInv, Books, Either, Nets, NetAt
<1>b. PICK d \in Down(call.relay) : /\ net' = d[1]
                                    /\ netOwn' = IF d[2] = "ok" /\ netOwn = call.relay THEN "" ELSE netOwn
                                    /\ left' = IF d[2] = "ok" THEN left ELSE left \cup {IF netOwn = call.relay THEN "marked" ELSE "logout"}
  BY DEF JoinUndoes, netDown
<1>2. /\ Ended /\ net' \in Net /\ (net'.login # "" => net'.login = net.login /\ net'.fleet = net.fleet)
      /\ \/ netOwn' = "" /\ left' = left /\ net'.login = ""
         \/ netOwn' = netOwn /\ left' = left \cup {"marked"}
  <2>1. Ended BY EndEnds DEF JoinUndoes
  <2> HIDE DEF Ended
  <2>2. QED BY <1>1, <1>a, <1>b, <2>1, DownFacts, FleetFields
<1>4. NetTypes' BY <1>0, <1>1, <1>2, NoneFields, FleetFields, IdleFields DEF RelayInv, NetTypes
<1>5. CallPlaces' BY <1>0, <1>1, <1>2, NoneFields, FleetFields, IdleFields DEF RelayInv, CallPlaces, EnableAt, ChangeAt, LeaveAt, JoinAt
<1>6. Either' /\ CodeInv' BY <1>0, <1>1, <1>2, NoneFields, FleetFields, IdleFields, SameNew DEF RelayInv, Books, Either, CodeInv
<1>7. Fresh' BY <1>0, <1>1, <1>2 DEF RelayInv, Books, Fresh
<1>8. FileAt' BY <1>0, <1>1, <1>2, NoneFields, FleetFields, IdleFields, SameNew DEF RelayInv, Books, FileAt, Clean
<1>9. Nets' BY <1>0, <1>1, <1>2, NoneFields, FleetFields, IdleFields, SameNew DEF RelayInv, Books, Either, FileAt, Nets, NetAt, NamedInv, Excused, Before, Others, Clean
<1>10. Fleets' BY <1>0, <1>1, <1>2, NoneFields, FleetFields, IdleFields, SameNew DEF RelayInv, Fleets, Marked, FleetAt, JoinFleet, MasterFleet, MemberFleet, Before
<1>11. QED BY <1>4, <1>5, <1>6, <1>7, <1>8, <1>9, <1>10 DEF RelayInv, Books

\* The marker goes once member.json names the network.
LEMMA JoinClearsKeeps == ASSUME RelayInv, JoinClears PROVE RelayInv'
<1> USE DEF Moved, Leaving, Turned, Ended, RelayFollows
<1>0. call \in Call /\ CallPlaces /\ fleetsMade \in Nat /\ None.fleet <= fleetsMade BY NoneMade DEF RelayInv, NetTypes
<1>1. /\ call.at = "j.clear" /\ call.name = "join" /\ masterFile = None /\ net.login = call.relay /\ netOwn = call.relay /\ call.relay \in Relays
      /\ memberJson = New /\ New.relay = call.relay
      /\ UNCHANGED <<masterFile, relayFile, memberJson, net, left, handed, recode, fleetsMade, owners>>
  BY <1>0, Where, NewFields DEF JoinClears, Keep, RelayInv, Books, Either, Nets, NetAt
<1>2. Ended /\ netOwn' = "" BY EndEnds DEF JoinClears
<1>4. NetTypes' BY <1>0, <1>1, <1>2, NoneFields, FleetFields, IdleFields DEF RelayInv, NetTypes
<1>5. CallPlaces' BY <1>0, <1>1, <1>2, NoneFields, FleetFields, IdleFields DEF RelayInv, CallPlaces, EnableAt, ChangeAt, LeaveAt, JoinAt
<1>6. Either' /\ CodeInv' BY <1>0, <1>1, <1>2, NoneFields, FleetFields, IdleFields, SameNew DEF RelayInv, Books, Either, CodeInv
<1>7. Fresh' BY <1>0, <1>1, <1>2 DEF RelayInv, Books, Fresh
<1>8. FileAt' BY <1>0, <1>1, <1>2, NoneFields, FleetFields, IdleFields, SameNew DEF RelayInv, Books, FileAt, Clean
<1>9. Nets' BY <1>0, <1>1, <1>2, NoneFields, FleetFields, IdleFields, SameNew DEF RelayInv, Books, Either, FileAt, Nets, NetAt, NamedInv, Excused, Before, Others, Clean
<1>10. Fleets' BY <1>0, <1>1, <1>2, NoneFields, FleetFields, IdleFields, SameNew DEF RelayInv, Fleets, Marked, FleetAt, JoinFleet, MasterFleet, MemberFleet, Before
<1>11. QED BY <1>4, <1>5, <1>6, <1>7, <1>8, <1>9, <1>10 DEF RelayInv, Books

\* The steps of a leave.
LEMMA LeaveClearsKeeps == ASSUME RelayInv, LeaveClears PROVE RelayInv'
<1> USE DEF Moved, Leaving, Turned, Ended, RelayFollows
<1>0. call \in Call /\ CallPlaces /\ fleetsMade \in Nat /\ None.fleet <= fleetsMade BY NoneMade DEF RelayInv, NetTypes
<1>a. /\ memberJson.relay \in Relays \cup {""} /\ (memberJson.relay = "" <=> memberJson = None) /\ netOwn \in Relays \cup {""}
  BY FleetFields, NoneFields DEF RelayInv, NetTypes
<1>1. /\ call.at = "v.clear" /\ call.name = "leave" /\ memberJson' = None
      /\ UNCHANGED <<masterFile, relayFile, netOwn, net, left, handed, recode, fleetsMade, owners>>
  BY <1>0, Where DEF LeaveClears, Keep
<1>2. \/ Ended /\ memberJson = None
      \/ /\ call' \in Call /\ call'.at = "v.down" /\ call'.name = call.name
         /\ call'.relay = (IF memberJson.relay = "" THEN netOwn ELSE memberJson.relay) /\ call'.relay \in Relays
  <2>1. CASE memberJson.relay = "" /\ netOwn = "" BY <1>a, <2>1, IdleFields DEF LeaveClears
  <2>2. CASE ~(memberJson.relay = "" /\ netOwn = "")
    <3> DEFINE r == IF memberJson.relay = "" THEN netOwn ELSE memberJson.relay
    <3>1. r \in Relays BY <1>a, <2>2
    <3>2. call' = [call EXCEPT !.at = "v.down", !.relay = r] BY <2>2 DEF LeaveClears
    <3> HIDE DEF r
    <3>3. call' \in Call /\ call'.at = "v.down" /\ call'.name = call.name /\ call'.relay = r BY <1>0, <3>1, <3>2, ReAims DEF Ats
    <3>4. QED BY <3>1, <3>3 DEF r
  <2>3. QED BY <2>1, <2>2
<1>4. NetTypes' BY <1>0, <1>1, <1>2, <1>a, NoneFields, FleetFields, IdleFields DEF RelayInv, NetTypes
<1>5. CallPlaces' BY <1>0, <1>1, <1>2, <1>a, NoneFields, FleetFields, IdleFields DEF RelayInv, CallPlaces, EnableAt, ChangeAt, LeaveAt, JoinAt
<1>6. Either' /\ CodeInv' BY <1>0, <1>1, <1>2, <1>a, NoneFields, FleetFields, IdleFields, SameNew DEF RelayInv, Books, Either, CodeInv
<1>7. Fresh' BY <1>0, <1>1, <1>2, <1>a DEF RelayInv, Books, Fresh
<1>8. FileAt' BY <1>0, <1>1, <1>2, <1>a, NoneFields, FleetFields, IdleFields, SameNew DEF RelayInv, Books, FileAt, Clean
<1>9. Nets' BY <1>0, <1>1, <1>2, <1>a, NoneFields, FleetFields, IdleFields, SameNew DEF RelayInv, Books, Either, FileAt, Nets, NetAt, NamedInv, Excused, Before, Others, Clean
<1>10. Fleets' BY <1>0, <1>1, <1>2, <1>a, NoneFields, FleetFields, IdleFields, SameNew DEF RelayInv, Fleets, Marked, FleetAt, JoinFleet, MasterFleet, MemberFleet, Before
<1>11. QED BY <1>4, <1>5, <1>6, <1>7, <1>8, <1>9, <1>10 DEF RelayInv, Books

\* A leave logs out of the networks that were its own.
LEMMA LeaveDownsKeeps == ASSUME RelayInv, LeaveDowns PROVE RelayInv'
<1> USE DEF Moved, Leaving, Turned, Ended, RelayFollows
<1>0. call \in Call /\ CallPlaces /\ fleetsMade \in Nat /\ None.fleet <= fleetsMade BY NoneMade DEF RelayInv, NetTypes
<1>a. net \in Net /\ netOwn \in Relays \cup {""} BY DEF RelayInv, NetTypes
<1>1. /\ call.at = "v.down" /\ call.name = "leave" /\ memberJson = None /\ call.relay \in Relays
      /\ UNCHANGED <<masterFile, relayFile, memberJson, handed, recode, fleetsMade, owners>>
  BY <1>0, Where DEF LeaveDowns, Keep, RelayInv, Books, Either, CallPlaces
<1>b. PICK d \in Down(call.relay) : /\ net' = d[1]
                                    /\ netOwn' = IF d[2] = "ok" /\ netOwn = call.relay THEN "" ELSE netOwn
                                    /\ left' = IF d[2] = "ok" THEN left ELSE left \cup {IF netOwn = call.relay THEN "marked" ELSE "logout"}
  BY DEF LeaveDowns, netDown
<1>2. /\ \/ Ended
         \/ /\ netOwn # "" /\ netOwn # call.relay
            /\ call' \in Call /\ call'.at = "v.down" /\ call'.name = call.name /\ call'.relay = netOwn
      /\ net' \in Net /\ (net'.login # "" => net'.login = net.login /\ net'.fleet = net.fleet)
      /\ \/ /\ left' = left /\ net'.login # call.relay
            /\ netOwn' = IF netOwn = call.relay THEN "" ELSE netOwn
         \/ netOwn' = netOwn /\ left' = left \cup {IF netOwn = call.relay THEN "marked" ELSE "logout"}
  <2>1. \/ Ended
        \/ /\ netOwn # "" /\ netOwn # call.relay
           /\ call' \in Call /\ call'.at = "v.down" /\ call'.name = call.name /\ call'.relay = netOwn
    <3>1. CASE netOwn # "" /\ netOwn # call.relay
      <4>1. call' = [call EXCEPT !.at = "v.down", !.relay = netOwn] BY <1>0, <1>1, <3>1 DEF LeaveDowns, Call
      <4>2. netOwn \in Relays BY <1>a, <3>1
      <4>3. QED BY <1>0, <3>1, <4>1, <4>2, ReAims DEF Ats
    <3>2. CASE ~(netOwn # "" /\ netOwn # call.relay) BY <3>2, EndEnds DEF LeaveDowns
    <3>3. QED BY <3>1, <3>2
  <2>2. net' \in Net /\ (net'.login # "" => net'.login = net.login /\ net'.fleet = net.fleet) BY <1>a, <1>b, DownFacts
  <2>3. d[2] = "ok" => net'.login # call.relay BY <1>1, <1>a, <1>b, DownFacts, FleetFields
  <2> HIDE DEF Ended
  <2>4. QED BY <1>b, <2>1, <2>2, <2>3
<1>3. /\ "logout" \in left' => ~Clean'
      /\ Clean' => Clean
      /\ left' = {} => left = {} /\ left' = left
  BY <1>2 DEF Clean
<1>4. NetTypes' BY <1>0, <1>1, <1>2, <1>a, <1>3, NoneFields, FleetFields, IdleFields DEF RelayInv, NetTypes
<1>5. CallPlaces' BY <1>0, <1>1, <1>2, <1>a, <1>3, NoneFields, FleetFields, IdleFields DEF RelayInv, CallPlaces, EnableAt, ChangeAt, LeaveAt, JoinAt
<1>6. Either' /\ CodeInv' BY <1>0, <1>1, <1>2, <1>a, <1>3, NoneFields, FleetFields, IdleFields, SameNew DEF RelayInv, Books, Either, CodeInv
<1>7. Fresh' BY <1>0, <1>1, <1>2, <1>a, <1>3 DEF RelayInv, Books, Fresh
<1>8. FileAt' BY <1>0, <1>1, <1>2, <1>a, <1>3, NoneFields, FleetFields, IdleFields, SameNew DEF RelayInv, Books, FileAt, Clean
<1>9. Nets'
  <2>1. NetAt' BY <1>0, <1>1, <1>2, <1>a, <1>3, NoneFields, FleetFields, IdleFields DEF RelayInv, Nets, NetAt, Before, Others
  <2>2. NamedInv'
    <3>1. CASE left' = left /\ net'.login # call.relay /\ netOwn' = (IF netOwn = call.relay THEN "" ELSE netOwn)
      BY <3>1, <1>0, <1>1, <1>2, <1>a, <1>3, NoneFields, FleetFields, IdleFields DEF RelayInv, Nets, NamedInv, Excused, Others
    <3>2. CASE netOwn' = netOwn /\ netOwn = call.relay
      BY <3>2, <1>0, <1>1, <1>2, <1>a, <1>3, NoneFields, FleetFields, IdleFields DEF RelayInv, Nets, NamedInv, Excused, Others
    <3>3. CASE ~Clean' BY <3>3 DEF NamedInv
    <3>4. QED BY <1>2, <1>3, <3>1, <3>2, <3>3
  <2>3. QED BY <2>1, <2>2 DEF Nets
<1>10. Fleets' BY <1>0, <1>1, <1>2, <1>a, <1>3, NoneFields, FleetFields, IdleFields, SameNew DEF RelayInv, Fleets, Marked, FleetAt, JoinFleet, MasterFleet, MemberFleet, Before
<1>11. QED BY <1>4, <1>5, <1>6, <1>7, <1>8, <1>9, <1>10 DEF RelayInv, Books

\* The core stops: the windows that nothing repairs are told apart in left.
LEMMA CrashKeeps == ASSUME RelayInv, Watched = {}, Crash PROVE RelayInv'
<1> USE DEF Moved, Leaving, Turned, Ended, RelayFollows
<1>0. call \in Call /\ CallPlaces /\ fleetsMade \in Nat /\ None.fleet <= fleetsMade BY NoneMade DEF RelayInv, NetTypes
<1>1. UNCHANGED <<masterFile, relayFile, memberJson, netOwn, net, handed, recode, fleetsMade, owners>> BY DEF Crash, files
<1>2. Ended /\ left' = left \cup Window BY IdleFields DEF Crash
<1>3. /\ Clean' => Clean /\ Window \subseteq {"marked"}
      /\ left' = {} => left = {} /\ Window = {}
      /\ left = {} => Clean
  BY <1>2 DEF Clean
<1>3a. /\ call.name = "change" /\ net.login \in Relays /\ net.fleet # loadRelay.fleet => Window = {"change"}
       /\ call.at = "v.down" /\ netOwn # call.relay => Window = {"leave"}
       /\ call.name = "join" /\ memberJson \notin {None, New} /\ call.at \in {"j.addr", "j.enrol", "j.undo"} => Window = {"switch"}
  BY <1>0, Where DEF Window
<1>3b. UNCHANGED loadRelay /\ (loadRelay = relayFile \/ relayFile = Damaged) BY <1>1 DEF loadRelay
<1>3c. Clean => relayFile # Damaged BY DEF RelayInv, Books, FileAt, Clean
<1>4. NetTypes' BY <1>0, <1>1, <1>2, <1>3, <1>3a, <1>3b, <1>3c, NoneFields, FleetFields, IdleFields DEF RelayInv, NetTypes
<1>5. CallPlaces' BY <1>0, <1>1, <1>2, <1>3, <1>3a, <1>3b, <1>3c, NoneFields, FleetFields, IdleFields DEF RelayInv, CallPlaces, EnableAt, ChangeAt, LeaveAt, JoinAt
<1>6. Either' /\ CodeInv' BY <1>0, <1>1, <1>2, <1>3, <1>3a, <1>3b, <1>3c, NoneFields, FleetFields, IdleFields, SameNew DEF RelayInv, Books, Either, CodeInv
<1>7. Fresh' BY <1>0, <1>1, <1>2, <1>3, <1>3a, <1>3b, <1>3c DEF RelayInv, Books, Fresh
<1>8. FileAt' BY <1>0, <1>1, <1>2, <1>3, <1>3a, <1>3b, <1>3c, NoneFields, FleetFields, IdleFields, SameNew DEF RelayInv, Books, FileAt, Clean
<1>9. Nets' BY <1>0, <1>1, <1>2, <1>3, <1>3a, <1>3b, <1>3c, NoneFields, FleetFields, IdleFields, SameNew DEF RelayInv, Books, Either, FileAt, Nets, NetAt, NamedInv, Excused, Before, Others, Clean
<1>10. Fleets' BY <1>0, <1>1, <1>2, <1>3, <1>3a, <1>3b, <1>3c, NoneFields, FleetFields, IdleFields, SameNew DEF RelayInv, Fleets, Marked, FleetAt, JoinFleet, MasterFleet, MemberFleet, Before
<1>11. QED BY <1>4, <1>5, <1>6, <1>7, <1>8, <1>9, <1>10 DEF RelayInv, Books

\* The owner's own network.
LEMMA OwnerNetKeeps == ASSUME RelayInv, OwnerNet PROVE RelayInv'
<1> USE DEF Moved, Leaving, Turned, Ended, RelayFollows
<1>0. call \in Call /\ CallPlaces /\ fleetsMade \in Nat /\ None.fleet <= fleetsMade BY NoneMade DEF RelayInv, NetTypes
<1>a. net \in Net /\ netOwn \in Relays \cup {""} BY DEF RelayInv, NetTypes
<1>1. UNCHANGED <<masterFile, relayFile, memberJson, netOwn, call, handed, recode, left, fleetsMade>> /\ owners' \in Nat
  <2>1. owners \in Nat BY DEF RelayInv, NetTypes
  <2>2. owners' = owners + 1 BY DEF OwnerNet
  <2>3. owners' \in Nat BY <2>1, <2>2
  <2>4. QED BY <2>3 DEF OwnerNet, files
<1>2. /\ net' \in Net
      /\ \/ net.login = "" /\ net'.login = Own
         \/ net.login = Own /\ net'.login = ""
         \/ net'.login = net.login /\ net'.fleet = net.fleet
  <2>1. LoggedOut \in Net /\ LoggedOut.login = "" BY DEF LoggedOut, Net
  <2>2. [login |-> Own, fleet |-> 0, up |-> TRUE] \in Net BY DEF Net
  <2>3. /\ [net EXCEPT !.up = ~@] \in Net /\ [net EXCEPT !.up = ~@].login = net.login
        /\ [net EXCEPT !.up = ~@].fleet = net.fleet BY <1>a DEF Net
  <2>4. \/ net.login = "" /\ net' = [login |-> Own, fleet |-> 0, up |-> TRUE]
        \/ net.login = Own /\ net' = LoggedOut
        \/ net' = [net EXCEPT !.up = ~@]
    BY DEF OwnerNet
  <2>5. CASE net.login = "" /\ net' = [login |-> Own, fleet |-> 0, up |-> TRUE] BY <2>2, <2>5
  <2>6. CASE net.login = Own /\ net' = LoggedOut BY <2>1, <2>6
  <2>7. CASE net' = [net EXCEPT !.up = ~@] BY <2>3, <2>7
  <2>8. QED BY <2>4, <2>5, <2>6, <2>7
<1>3. UNCHANGED <<loadRelay, New>> BY <1>1 DEF loadRelay, New
<1>3a. /\ call.at \in {"addr", "e.master", "c.save", "c.move", "c.back", "c.lost", "j.addr", "j.enrol", "j.undo", "j.clear", "v.down"} => call.relay \in Relays
       /\ call.at \in {"addr", "e.master", "c.save", "c.move", "j.addr", "j.enrol", "j.undo", "j.clear"} => net'.login = net.login /\ net'.fleet = net.fleet
  <2>1. call.at \in {"addr", "e.master", "c.save", "c.move", "c.back", "c.lost", "j.addr", "j.enrol", "j.undo", "j.clear", "v.down"} => call.relay \in Relays
    BY <1>0, Where DEF CallPlaces
  <2>2. QED BY <1>2, <2>1, FleetFields DEF RelayInv, Nets, NetAt
<1>4. NetTypes' BY <1>0, <1>1, <1>2, <1>a, <1>3, <1>3a, NoneFields, FleetFields, IdleFields DEF RelayInv, NetTypes
<1>5. CallPlaces' BY <1>0, <1>1, <1>2, <1>a, <1>3, <1>3a, NoneFields, FleetFields, IdleFields DEF RelayInv, CallPlaces, EnableAt, ChangeAt, LeaveAt, JoinAt
<1>6. Either' /\ CodeInv' BY <1>0, <1>1, <1>2, <1>a, <1>3, <1>3a, NoneFields, FleetFields, IdleFields, SameNew DEF RelayInv, Books, Either, CodeInv
<1>7. Fresh' BY <1>0, <1>1, <1>2, <1>a, <1>3, <1>3a DEF RelayInv, Books, Fresh
<1>8. FileAt' BY <1>0, <1>1, <1>2, <1>a, <1>3, <1>3a, NoneFields, FleetFields, IdleFields, SameNew DEF RelayInv, Books, FileAt, Clean
<1>9. Nets' BY <1>0, <1>1, <1>2, <1>a, <1>3, <1>3a, NoneFields, FleetFields, IdleFields, SameNew, ZenonT(60) DEF RelayInv, Books, Either, FileAt, Nets, NetAt, NamedInv, Excused, Before, Others, Clean
<1>10. Fleets'
  <2>1. Marked' /\ FleetAt' BY <1>0, <1>1, <1>2, <1>a, <1>3, <1>3a, NoneFields, FleetFields, IdleFields, SameNew DEF RelayInv, Fleets, Marked, FleetAt, Before
  <2>2. JoinFleet' BY <1>0, <1>1, <1>2, <1>a, <1>3, <1>3a, NoneFields, FleetFields, IdleFields, SameNew DEF RelayInv, Fleets, JoinFleet, MemberFleet
  <2>3. MasterFleet' BY <1>0, <1>1, <1>2, <1>a, <1>3, <1>3a, NoneFields, FleetFields, IdleFields DEF RelayInv, Fleets, MasterFleet
  <2>4. MemberFleet' BY <1>0, <1>1, <1>2, <1>a, <1>3, <1>3a, NoneFields, FleetFields, IdleFields, SameNew DEF RelayInv, Fleets, MemberFleet
  <2>5. QED BY <2>1, <2>2, <2>3, <2>4 DEF Fleets
<1>11. QED BY <1>4, <1>5, <1>6, <1>7, <1>8, <1>9, <1>10 DEF RelayInv, Books

\* relay.json is damaged.
LEMMA DamageKeeps == ASSUME RelayInv, Damage PROVE RelayInv'
<1> USE DEF Moved, Leaving, Turned, Ended, RelayFollows
<1>0. call \in Call /\ CallPlaces /\ fleetsMade \in Nat /\ None.fleet <= fleetsMade BY NoneMade DEF RelayInv, NetTypes
<1>1. /\ relayFile' = Damaged /\ left' = left \cup {"damage"}
      /\ UNCHANGED <<masterFile, memberJson, netOwn, net, call, handed, recode, fleetsMade, owners>>
  BY DEF Damage
<1>2. ~Clean' /\ left' # {} /\ Damaged.fleet <= fleetsMade BY <1>0, <1>1, NoneMade DEF Clean
<1>3. UNCHANGED New BY <1>1 DEF New
<1>4. NetTypes' BY <1>0, <1>1, <1>2, <1>3, NoneFields, FleetFields, IdleFields DEF RelayInv, NetTypes
<1>5. CallPlaces' BY <1>0, <1>1, <1>2, <1>3, NoneFields, FleetFields, IdleFields DEF RelayInv, CallPlaces, EnableAt, ChangeAt, LeaveAt, JoinAt
<1>6. Either' /\ CodeInv' BY <1>0, <1>1, <1>2, <1>3, NoneFields, FleetFields, IdleFields, SameNew DEF RelayInv, Books, Either, CodeInv
<1>7. Fresh' BY <1>0, <1>1, <1>2, <1>3 DEF RelayInv, Books, Fresh
<1>8. FileAt' BY <1>0, <1>1, <1>2, <1>3, NoneFields, FleetFields, IdleFields, SameNew DEF RelayInv, Books, FileAt, Clean
<1>9. Nets' BY <1>0, <1>1, <1>2, <1>3, NoneFields, FleetFields, IdleFields, SameNew DEF RelayInv, Books, Either, FileAt, Nets, NetAt, NamedInv, Excused, Before, Others, Clean
<1>10. Fleets' BY <1>0, <1>1, <1>2, <1>3, NoneFields, FleetFields, IdleFields, SameNew DEF RelayInv, Fleets, Marked, FleetAt, JoinFleet, MasterFleet, MemberFleet, Before
<1>11. QED BY <1>4, <1>5, <1>6, <1>7, <1>8, <1>9, <1>10 DEF RelayInv, Books

-------------------------------------------------------------------------------
\* A box that is no master and no member, in no network or in its owner's.
LEMMA RelayBegins == relayInit => RelayInv
<1> SUFFICES ASSUME relayInit PROVE RelayInv OBVIOUS
<1>1. /\ masterFile = None /\ relayFile = None /\ memberJson = None /\ netOwn = ""
      /\ call = NoCall /\ handed = NoHanded /\ recode = FALSE /\ left = {} /\ fleetsMade = 0 /\ owners = 0
  BY DEF relayInit
<1>2. net \in Net /\ net.login \in {"", Own}
  <2>1. /\ [login |-> "", fleet |-> 0, up |-> FALSE] \in Net /\ [login |-> Own, fleet |-> 0, up |-> FALSE] \in Net BY DEF Net
  <2>2. CASE net = [login |-> "", fleet |-> 0, up |-> FALSE] BY <2>1, <2>2
  <2>3. CASE net = [login |-> Own, fleet |-> 0, up |-> FALSE] BY <2>1, <2>3
  <2>4. QED BY <2>2, <2>3 DEF relayInit
<1>3. NetTypes BY <1>1, <1>2, IdleFields DEF NetTypes, NoHanded
<1>4. CallPlaces BY <1>1, IdleFields DEF CallPlaces
<1>5. Either /\ FileAt /\ CodeInv BY <1>1, IdleFields, NoneFields DEF Either, FileAt, CodeInv
<1>6. Fresh
  <2>1. relayFile.fleet = 0 /\ call.name = "" BY <1>1, IdleFields, NoneFields
  <2>2. fleetsMade \in Nat BY <1>1
  <2>2a. relayFile.fleet <= fleetsMade BY <1>1, <2>2, NoneMade
  <2>3. QED BY <2>1, <2>2a DEF Fresh
<1>7. Nets BY <1>1, <1>2, IdleFields, FleetFields DEF Nets, NetAt, NamedInv, Before
<1>8. Fleets BY <1>1, <1>2, IdleFields, FleetFields DEF Fleets, Marked, FleetAt, JoinFleet, MasterFleet, MemberFleet, Before
<1>9. QED BY <1>3, <1>4, <1>5, <1>6, <1>7, <1>8 DEF RelayInv, Books

\* Nothing happens.
LEMMA RelayStutters == ASSUME RelayInv, UNCHANGED relayVars PROVE RelayInv'
<1>1. UNCHANGED <<masterFile, relayFile, memberJson, netOwn, net, call, handed, recode, left, fleetsMade, owners>>
  BY DEF relayVars, files, relayBounds
<1>2. NetTypes' BY <1>1 DEF RelayInv, NetTypes
<1>2a. CallPlaces' BY <1>1, ZenonT(60) DEF RelayInv, CallPlaces
<1>3. Books' BY <1>1 DEF RelayInv, Books, Either, Fresh, FileAt, CodeInv, Clean, New
<1>4. Nets' BY <1>1 DEF RelayInv, Nets, NetAt, NamedInv, Excused, Before, Others, Clean, New, loadRelay
<1>5. Fleets' BY <1>1 DEF RelayInv, Fleets, Marked, FleetAt, JoinFleet, MasterFleet, MemberFleet, Before, New
<1>6. QED BY <1>2, <1>2a, <1>3, <1>4, <1>5 DEF RelayInv

\* The files of the relays, the network and the calls agree at every step, in every interleaving with the owner
\* and after every failure and crash: the inductive invariant of master.go, member.go and relaystate.go.
THEOREM RelayInvariant == ASSUME Watched = {} PROVE relaySpec => []RelayInv
<1>1. relayInit => RelayInv BY RelayBegins
<1>2. RelayInv /\ [relayNext]_relayVars => RelayInv'
  <2>1. SUFFICES ASSUME RelayInv, [relayNext]_relayVars PROVE RelayInv' OBVIOUS
  <2>2. CASE relayCalls BY <2>1, <2>2, CallsKeep
  <2>3. CASE relaySteps
    <3>1. CASE leaveRelay
      <4>1. call.at = "l.down" \/ call.at = "l.clear" BY <3>1 DEF leaveRelay
      <4>2. QED BY <2>1, <3>1, <4>1, LeaveDownKeeps, LeaveClearKeeps
    <3>2. CASE ChangeLost
      <4>1. call.at = "c.lost" \/ call.at = "c.back" BY <3>2 DEF ChangeLost
      <4>2. QED BY <2>1, <3>2, <4>1, ChangeLostKeeps, ChangeBackKeeps
    <3>3. CASE DeleteFleet \/ EnableChecks \/ EnableOwn \/ EnableState \/ ChangeChecks \/ CreateFleet \/ saveRelay \/ JoinKey \/ ChangeDown \/ JoinNet
      BY <2>1, <3>3, DeleteKeeps, EnableChecksKeeps, EnableOwnKeeps, EnableStateKeeps, ChangeChecksKeeps, CreateKeeps, SaveRelayKeeps,
         JoinKeyKeeps, ChangeDownKeeps, JoinNetKeeps
    <3>4. CASE waitAddr \/ EnableSaves \/ ChangeSaves \/ ChangeMoves \/ DisableRemoves \/ joinKeyFor \/ code
      BY <2>1, <3>4, WaitAddrKeeps, EnableSavesKeeps, ChangeSavesKeeps, ChangeMovesKeeps, DisableKeeps, KeyForKeeps, CodeKeeps
    <3>5. CASE JoinChecks \/ JoinLeaves \/ saveNetOwn \/ JoinUp \/ JoinAddr \/ JoinEnrols \/ JoinUndoes \/ JoinClears
      BY <2>1, <3>5, JoinChecksKeeps, JoinLeavesKeeps, MarkKeeps, JoinUpKeeps, JoinAddrKeeps, JoinEnrolsKeeps, JoinUndoesKeeps, JoinClearsKeeps
    <3>6. CASE LeaveClears \/ LeaveDowns BY <2>1, <3>6, LeaveClearsKeeps, LeaveDownsKeeps
    <3>7. QED BY <2>3, <3>1, <3>2, <3>3, <3>4, <3>5, <3>6 DEF relaySteps
  <2>4. CASE Crash BY <2>1, <2>4, CrashKeeps
  <2>5. CASE OwnerNet BY <2>1, <2>5, OwnerNetKeeps
  <2>6. CASE Damage BY <2>1, <2>6, DamageKeeps
  <2>7. CASE UNCHANGED relayVars BY <2>1, <2>7, RelayStutters
  <2>8. QED BY <2>1, <2>2, <2>3, <2>4, <2>5, <2>6, <2>7 DEF relayNext
<1>3. QED BY <1>1, <1>2, PTL DEF relaySpec

\* Between calls a network that the box joined is named by one of its files, it is the network of the fleet that the
\* file names, and a code carries the key of the fleet it names, whatever the relays, the codes and the bounds are.
THEOREM RelayInOrderHolds == ASSUME Watched = {} PROVE relaySpec => []RelayInOrder
<1>1. RelayInv => RelayInOrder
  <2>1. SUFFICES ASSUME RelayInv PROVE RelayInOrder OBVIOUS
  <2>2. NetNamed
    <3>1. SUFFICES ASSUME call = NoCall, net.login \in Relays, ~(left \ {"marked"} # {}) PROVE net.login \in Named BY DEF NetNamed
    <3>2. Clean BY <3>1 DEF Clean
    <3>3. net.login \in Others \cup {relayFile.relay}
      BY <2>1, <3>1, <3>2, IdleFields DEF RelayInv, Nets, NamedInv, Excused
    <3>4. QED BY <3>3 DEF Named, Others
  <2>3. RightFleet
    <3>1. SUFFICES ASSUME call = NoCall, left = {}, net.login \in Relays
                   PROVE  /\ masterFile.relay = net.login /\ relayFor = "ok" => net.fleet = masterFile.fleet
                          /\ memberJson.relay = net.login /\ netOwn = "" /\ relayFile = None => net.fleet = memberJson.fleet
      BY DEF RightFleet
    <3>2. ASSUME masterFile.relay = net.login, relayFor = "ok" PROVE net.fleet = masterFile.fleet
      <4>1. masterFile = relayFile /\ masterFile \in Fleet BY <2>1, <3>2, LoadFacts DEF RelayInv
      <4>2. QED BY <2>1, <3>1, <3>2, <4>1, FleetFields, IdleFields DEF RelayInv, Fleets, MasterFleet
    <3>3. ASSUME memberJson.relay = net.login, relayFile = None PROVE net.fleet = memberJson.fleet
      BY <2>1, <3>1, <3>3, FleetFields, NoneFields, IdleFields DEF RelayInv, Fleets, MemberFleet
    <3>4. QED BY <3>2, <3>3
  <2>4. CodeFits BY <2>1 DEF RelayInv, Books, CodeInv, CodeFits
  <2>5. QED BY <2>2, <2>3, <2>4 DEF RelayInOrder
<1>2. QED BY <1>1, RelayInvariant, PTL

\* A step of the code leaves the owner's own network only for a disable that lost relay.json (net.go:56).
LEMMA OwnerStep ==
    ASSUME RelayInv, relayNext, net.login = Own, net'.login # Own
    PROVE  owners' > owners \/ (call.name = "disable" /\ call.old = None)
<1>0. call \in Call /\ CallPlaces /\ net \in Net /\ NetTypes /\ Own # "" /\ Own \notin Relays /\ owners \in Nat
  BY FleetRelayAssumption, FleetFields DEF RelayInv, NetTypes
<1>1. \A r \in Relays : \A d \in Down(r) : net' = d[1] => net'.login = Own
  <2>1. SUFFICES ASSUME NEW r \in Relays, NEW d \in Down(r), net' = d[1] PROVE net'.login = Own OBVIOUS
  <2>2. r # "" /\ r # net.login BY <1>0, FleetFields
  <2>3. QED BY <1>0, <2>1, <2>2, DownFacts
<1>2. ~(UNCHANGED net) OBVIOUS
<1>3. CASE relayCalls BY <1>2, <1>3 DEF relayCalls, EnableMasterRelay, ChangeRelay, DisableRelayed, joinKey, LeaveNet, Join, Begin
<1>4. CASE DeleteFleet \/ EnableChecks \/ EnableState \/ ChangeChecks \/ CreateFleet \/ saveRelay \/ JoinKey
  BY <1>2, <1>4 DEF DeleteFleet, EnableChecks, EnableState, ChangeChecks, CreateFleet, saveRelay, JoinKey, Keep
<1>5. CASE waitAddr \/ EnableSaves \/ ChangeSaves \/ ChangeMoves \/ DisableRemoves \/ joinKeyFor \/ code \/ JoinChecks \/ saveNetOwn
  BY <1>2, <1>5 DEF waitAddr, EnableSaves, ChangeSaves, ChangeMoves, DisableRemoves, joinKeyFor, code, JoinChecks, saveNetOwn, Keep
<1>6. CASE JoinAddr \/ JoinEnrols \/ JoinClears \/ LeaveClears \/ Crash \/ Damage
  BY <1>2, <1>6 DEF JoinAddr, JoinEnrols, JoinClears, LeaveClears, Crash, Damage, Keep
<1>7. CASE leaveRelay
  <2>1. call.at = "l.down" /\ \E d \in Down(call.old.relay) : net' = d[1] BY <1>2, <1>7 DEF leaveRelay, Keep
  <2>2. call.old \in Fleet \/ (call.name = "disable" /\ call.old = None) BY <1>0, <2>1 DEF CallPlaces
  <2>3. CASE call.old \in Fleet BY <1>1, <2>1, <2>3, FleetFields
  <2>4. QED BY <2>2, <2>3
<1>8. CASE EnableOwn
  <2>1. netOwn # "" /\ \E d \in Down(netOwn) : net' = d[1] BY <1>2, <1>8 DEF EnableOwn, netDown
  <2>2. netOwn \in Relays BY <1>0, <2>1 DEF NetTypes
  <2>3. QED BY <1>1, <2>1, <2>2
<1>9. CASE ChangeDown
  <2>1. call.at = "c.down" /\ \E d \in Down(call.old.relay) : net' = d[1] BY <1>9 DEF ChangeDown
  <2>2. call.old \in Fleet BY <1>0, <2>1, Where DEF CallPlaces
  <2>3. QED BY <1>1, <2>1, <2>2, FleetFields
<1>10. CASE ChangeLost
  <2>1. call.at = "c.lost" /\ \E d \in Down(call.relay) : net' = d[1] BY <1>2, <1>10 DEF ChangeLost, Keep
  <2>2. call.relay \in Relays BY <1>0, <2>1, Where
  <2>3. QED BY <1>1, <2>1, <2>2
<1>11. CASE JoinLeaves
  <2>1. call.at = "j.down" /\ \E d \in Down(call.old.relay) : net' = d[1] BY <1>11 DEF JoinLeaves
  <2>2. call.old.relay \in Relays BY <1>0, <2>1 DEF CallPlaces
  <2>3. QED BY <1>1, <2>1, <2>2
<1>12. CASE JoinUndoes
  <2>1. call.at = "j.undo" /\ \E d \in Down(call.relay) : net' = d[1] BY <1>12 DEF JoinUndoes, netDown
  <2>2. call.relay \in Relays BY <1>0, <2>1, Where
  <2>3. QED BY <1>1, <2>1, <2>2
<1>13. CASE LeaveDowns
  <2>1. call.at = "v.down" /\ \E d \in Down(call.relay) : net' = d[1] BY <1>13 DEF LeaveDowns, netDown
  <2>2. call.relay \in Relays BY <1>0, <2>1 DEF CallPlaces
  <2>3. QED BY <1>1, <2>1, <2>2
<1>14. CASE JoinNet \/ JoinUp
  <2>1. call.at \in {"up", "j.up"} BY <1>14 DEF JoinNet, JoinUp
  <2>2. call.relay \in Relays /\ call.fleet \in Nat BY <1>0, <2>1, Where
  <2>3. PICK u \in Up(call.relay, call.fleet) : net' = u[1] BY <1>14 DEF JoinNet, JoinUp
  <2>4. UpEffect(call.relay, call.fleet, u) BY <1>0, <2>2, UpFacts
  <2>5. QED BY <1>2, <2>3, <2>4 DEF UpEffect
<1>15. CASE OwnerNet
  <2>1. owners' = owners + 1 /\ owners \in Nat BY <1>0, <1>15 DEF OwnerNet
  <2>2. owners' > owners BY <2>1
  <2>3. QED BY <2>2
<1>16. QED BY <1>3, <1>4, <1>5, <1>6, <1>7, <1>8, <1>9, <1>10, <1>11, <1>12, <1>13, <1>14, <1>15 DEF relayNext, relaySteps

\* The owner's own network is never left by a call of the fleet, for every relay and every failure, but by a disable
\* whose relay.json is lost.
THEOREM OwnerNetKeptHolds == ASSUME Watched = {} PROVE relaySpec => OwnerNetKept
<1> DEFINE A == net.login = Own /\ net'.login # Own => owners' > owners \/ (call.name = "disable" /\ call.old = None)
<1>1. RelayInv /\ [relayNext]_relayVars => [A]_relayVars
  <2>1. SUFFICES ASSUME RelayInv, relayNext PROVE A OBVIOUS
  <2>2. QED BY <2>1, OwnerStep
<1>2. QED BY <1>1, RelayInvariant, PTL DEF relaySpec, OwnerNetKept
===============================================================================
