------------------------------ MODULE FleetTunnel ------------------------------
(* The tunnel of a fleet (pkg/fleet master.go, member.go, offline.go): a member *)
(* dials the master with the key of its code, the master authorises the dial,   *)
(* waits for the hello and makes the connection the tunnel of the box, unless   *)
(* the key was rotated or the box removed meanwhile; requests are relayed down  *)
(* the tunnel. The loop of the member follows member.json, which is changed     *)
(* under it. `selfBox` says that the member is the master itself.               *)
EXTENDS Integers, FiniteSets, TLC

CONSTANTS Slots, Requests,               \* connections; relayed requests
          MaxKeys, MaxOps, MaxBreaks,    \* bounds: keys and ids made, calls of the owner, faults
          MaxInFlight, OfflineAfter, StartGrace,
          RotateMayFail                  \* RotateCode may fail to make the code or to write master.json

ASSUME FleetTunnelAssumption == /\ Slots \subseteq Nat \ {0}
                                /\ MaxInFlight \in Nat \ {0} /\ RotateMayFail \in BOOLEAN
                                /\ {MaxKeys, MaxOps, MaxBreaks, OfflineAfter, StartGrace} \subseteq Nat
\* A master that starts waits at least as long as a box may be away (offline.go:11-12: both are ten minutes).
ASSUME GraceAssumption == OfflineAfter <= StartGrace

VARIABLES
    selfBox,
    master,                              \* master.json: [on, key]; key 0: the box is not enrolled
    tunnels,                             \* Fleet.tunnels: the connection of a box, 0 for none
    conns,                               \* the connections: [at, open, alive, box, key, pending]
    afters,                              \* what a call does once f.mu is let go: connections to close, TheDrop, ThePoke
    memberFile,                          \* member.json
    poke,                                \* Fleet.restart holds a poke
    member,                              \* the loop: [at, st, conn, handling]
    req,                                 \* a relayed request: [at, conn, box]
    watch,                               \* checkOffline: [up, age, quiet, alert, cut]; age -1: never seen
    codes, made, ops, breaks             \* the codes handed out; the bounds

masterSide == <<master, tunnels, conns>>
memberSide == <<memberFile, poke, member>>
bounds == <<codes, made, ops, breaks>>
tunnelVars == <<selfBox, masterSide, afters, memberSide, req, watch, bounds>>

Ids == 1 .. MaxKeys
ThePoke == 0 - 1                       \* pokeMember and memberState.drop, among what is left of a call
TheDrop == 0 - 2
NoCode == [box |-> 0, key |-> 0]
NoConn == [at |-> "gone", open |-> FALSE, alive |-> FALSE, box |-> 0, key |-> 0, pending |-> {}]
Enrolled(b) == master.on /\ master.key[b] # 0
Loop(at) == [at |-> at, st |-> NoCode, conn |-> 0, handling |-> {}]

tunnelInit ==
    /\ selfBox \in BOOLEAN
    /\ master = [on |-> FALSE, key |-> [b \in Ids |-> 0]]
    /\ tunnels = [b \in Ids |-> 0]
    /\ conns = [c \in Slots |-> NoConn]
    /\ afters = {}
    /\ memberFile = NoCode /\ poke = FALSE /\ member = Loop("load")
    /\ req = [r \in Requests |-> [at |-> "idle", conn |-> 0, box |-> 0]]
    /\ watch = [up |-> 0, age |-> [b \in Ids |-> -1], quiet |-> [b \in Ids |-> 0], alert |-> {}, cut |-> {}]
    /\ codes = {} /\ made = 0 /\ ops = 0 /\ breaks = 0

-------------------------------------------------------------------------------
\* The calls of the owner at the master: what each does under f.mu is one step, the rest is in afters.
Op == ops < MaxOps /\ ops' = ops + 1
Shut(C) == [c \in Slots |-> IF c \in C THEN [conns[c] EXCEPT !.open = FALSE] ELSE conns[c]]
Without(f, B) == [b \in Ids |-> IF b \in B THEN 0 ELSE f[b]]
TunnelsOf(B) == {tunnels[b] : b \in B} \ {0}

enableMaster ==
    /\ Op /\ ~master.on
    /\ master' = [master EXCEPT !.on = TRUE]
    /\ UNCHANGED <<selfBox, tunnels, conns, afters, memberSide, req, watch, codes, made, breaks>>
\* master.json goes, and with it the boxes; so does the member.json of this box itself.
DisableMaster ==
    /\ Op /\ master.on
    /\ master' = [on |-> FALSE, key |-> Without(master.key, Ids)]
    /\ tunnels' = Without(tunnels, Ids)
    /\ memberFile' = IF selfBox THEN NoCode ELSE memberFile
    /\ afters' = afters \cup TunnelsOf(Ids) \cup (IF selfBox /\ memberFile # NoCode THEN {ThePoke} ELSE {})
    /\ UNCHANGED <<selfBox, conns, poke, member, req, watch, codes, made, breaks>>
\* A new id and a new key. This box itself is enrolled once: an older enrolment of it goes.
AddBox ==
    /\ Op /\ master.on /\ made < MaxKeys
    /\ made' = made + 1
    /\ LET gone == IF selfBox THEN {b \in Ids : master.key[b] # 0} ELSE {}
       IN /\ master' = [master EXCEPT !.key = [Without(@, gone) EXCEPT ![made'] = made']]
          /\ conns' = Shut(TunnelsOf(gone))
          /\ tunnels' = Without(tunnels, gone)
    /\ LET code == [box |-> made', key |-> made']
       IN IF selfBox THEN memberFile' = code /\ poke' = TRUE /\ UNCHANGED codes
          ELSE codes' = codes \cup {code} /\ UNCHANGED <<memberFile, poke>>
    /\ UNCHANGED <<selfBox, afters, member, req, watch, breaks>>
RemoveBox(b) ==
    /\ Op /\ Enrolled(b)
    /\ master' = [master EXCEPT !.key[b] = 0]
    /\ tunnels' = Without(tunnels, {b})
    /\ afters' = afters \cup TunnelsOf({b})
    /\ UNCHANGED <<selfBox, conns, memberSide, req, watch, codes, made, breaks>>
\* The old key is worth nothing once the new one is saved. The tunnel is forgotten either way,
\* and closed only when the code could be made and saved.
RotateCode(b) ==
    /\ Op /\ Enrolled(b) /\ made < MaxKeys
    /\ tunnels' = Without(tunnels, {b})
    /\ \/ /\ made' = made + 1
          /\ master' = [master EXCEPT !.key[b] = made']
          /\ afters' = afters \cup TunnelsOf({b}) \cup (IF selfBox THEN {ThePoke} ELSE {})
          /\ LET code == [box |-> b, key |-> made']
             IN IF selfBox THEN memberFile' = code /\ UNCHANGED codes
                ELSE codes' = codes \cup {code} /\ UNCHANGED memberFile
       \/ RotateMayFail /\ UNCHANGED <<made, master, afters, memberFile, codes>>
    /\ watch' = IF tunnels[b] # 0 THEN [watch EXCEPT !.cut = @ \cup {b}] ELSE watch
    /\ UNCHANGED <<selfBox, conns, poke, member, req, breaks>>

\* What is left of a call once it let f.mu go.
Close(c) ==
    /\ c \in afters
    /\ afters' = afters \ {c}
    /\ conns' = Shut({c})
    /\ UNCHANGED <<selfBox, master, tunnels, memberSide, req, watch, bounds>>
\* drop cuts the connection that the loop reported; a session that only dials is not seen by it.
Reported == IF member.at = "open" THEN {member.conn} ELSE {}
pokeMember ==
    /\ ThePoke \in afters
    /\ afters' = afters \ {ThePoke, TheDrop}
    /\ conns' = IF TheDrop \in afters THEN Shut(Reported) ELSE conns
    /\ poke' = TRUE
    /\ UNCHANGED <<selfBox, master, tunnels, memberFile, member, req, watch, bounds>>

-------------------------------------------------------------------------------
\* The calls of the owner at the member.
enrol(code) ==
    /\ Op /\ ~selfBox
    /\ memberFile' = code /\ poke' = TRUE
    /\ conns' = Shut(Reported)
    /\ UNCHANGED <<selfBox, master, tunnels, afters, member, req, watch, codes, made, breaks>>
Leave ==
    /\ Op /\ ~selfBox
    /\ memberFile' = NoCode
    /\ afters' = afters \cup {TheDrop, ThePoke}
    /\ UNCHANGED <<selfBox, masterSide, poke, member, req, watch, codes, made, breaks>>

\* The loop of the member: without a code it waits for a poke, with one it dials.
Run ==
    /\ member.at = "load"
    /\ member' = IF memberFile = NoCode THEN Loop("idle") ELSE [Loop("dial") EXCEPT !.st = memberFile]
    /\ UNCHANGED <<selfBox, masterSide, afters, memberFile, poke, req, watch, bounds>>
Woken ==
    /\ member.at \in {"idle", "wait"}
    /\ poke /\ poke' = FALSE
    /\ member' = Loop("load")
    /\ UNCHANGED <<selfBox, masterSide, afters, memberFile, req, watch, bounds>>
Backoff ==
    /\ member.at = "wait"
    /\ member' = Loop("load")
    /\ UNCHANGED <<selfBox, masterSide, afters, memberFile, poke, req, watch, bounds>>

\* A slot that nobody holds any more.
Unused(c) == /\ conns[c].at = "gone" /\ member.conn # c /\ c \notin afters
             /\ \A r \in Requests : req[r].conn # c \/ req[r].at \notin {"picked", "sent", "got"}
authorize(st) == st.box \in Ids /\ Enrolled(st.box) /\ master.key[st.box] = st.key
\* The handshake: the master answers 401, or upgrades, with the key that it found then.
dial ==
    /\ member.at = "dial"
    /\ \/ ~authorize(member.st) /\ member' = Loop("wait") /\ UNCHANGED conns
       \/ /\ authorize(member.st) /\ \E c \in Slots : Unused(c)
          /\ LET c == CHOOSE x \in Slots : Unused(x)
             IN /\ conns' = [conns EXCEPT ![c] = [at |-> "upgraded", open |-> TRUE, alive |-> TRUE, box |-> member.st.box,
                                                   key |-> member.st.key, pending |-> {}]]
                /\ member' = [member EXCEPT !.at = "hello", !.conn = c]
    /\ UNCHANGED <<selfBox, master, tunnels, afters, memberFile, poke, req, watch, bounds>>
DialFails ==
    /\ member.at = "dial" /\ breaks < MaxBreaks
    /\ breaks' = breaks + 1
    /\ member' = Loop("wait")
    /\ UNCHANGED <<selfBox, masterSide, afters, memberFile, poke, req, watch, codes, made, ops>>
hello ==
    /\ member.at = "hello"
    /\ IF conns[member.conn].open
       THEN /\ member' = [member EXCEPT !.at = "open"]
            /\ conns' = [conns EXCEPT ![member.conn].at = "hello"]
       ELSE member' = Loop("wait") /\ conns' = [conns EXCEPT ![member.conn].alive = FALSE]
    /\ UNCHANGED <<selfBox, master, tunnels, afters, memberFile, poke, req, watch, bounds>>

Restart(c) == /\ conns' = [Shut({c}) EXCEPT ![c].alive = FALSE]
              /\ member' = [member EXCEPT !.at = "restarted"]
\* Altered: the poke is taken for the one of its own enrolment.
watcher_Deaf ==
    /\ member.at = "open" /\ poke /\ poke' = FALSE
    /\ UNCHANGED <<conns, member>>
    /\ UNCHANGED <<selfBox, master, tunnels, afters, memberFile, req, watch, bounds>>
\* The watcher of a session takes a poke: it restarts only when member.json is another one.
watcher ==
    /\ member.at = "open" /\ poke /\ poke' = FALSE
    /\ IF memberFile # member.st THEN Restart(member.conn) ELSE UNCHANGED <<conns, member>>
    /\ UNCHANGED <<selfBox, master, tunnels, afters, memberFile, req, watch, bounds>>
\* The session ends once its handlers did: the loop dials at once when it was restarted.
SessionEnds ==
    /\ member.at = "restarted" \/ (member.at = "open" /\ ~conns[member.conn].open)
    /\ member.handling = {}
    /\ conns' = [conns EXCEPT ![member.conn].alive = FALSE]
    /\ member' = Loop(IF member.at = "restarted" THEN "load" ELSE "wait")
    /\ UNCHANGED <<selfBox, master, tunnels, afters, memberFile, poke, req, watch, bounds>>

-------------------------------------------------------------------------------
\* The master's end of a connection.
Attach(c, allowed) ==
    /\ conns[c].at = "hello"
    /\ LET b == conns[c].box IN
       IF allowed
       THEN /\ tunnels' = [tunnels EXCEPT ![b] = c]
            /\ conns' = [conns EXCEPT ![c].at = "serving"]
            /\ afters' = afters \cup TunnelsOf({b})
            /\ watch' = [watch EXCEPT !.age[b] = 0, !.quiet[b] = 0, !.cut = @ \ {b}]
       ELSE conns' = [conns EXCEPT ![c].open = FALSE, ![c].at = "gone"] /\ UNCHANGED <<tunnels, afters, watch>>
    /\ UNCHANGED <<selfBox, master, memberSide, req, bounds>>
\* Altered: the handshake alone authorises.
attach_Trusts(c) == Attach(c, TRUE)
attach(c) == Attach(c, authorize([box |-> conns[c].box, key |-> conns[c].key]))
\* The hello does not come, or the connection is gone before it is read.
helloWait(c) ==
    /\ conns[c].at = "upgraded" /\ ~(conns[c].open /\ conns[c].alive)
    /\ conns' = [conns EXCEPT ![c].open = FALSE, ![c].at = "gone"]
    /\ UNCHANGED <<selfBox, master, tunnels, afters, memberSide, req, watch, bounds>>
\* The reader of a tunnel ends with the connection, or with the deadline of a peer that is dead.
\* A newer tunnel of the box is left where it is.
Detach(c, seen) ==
    /\ conns[c].at = "serving" /\ ~(conns[c].open /\ conns[c].alive)
    /\ LET b == conns[c].box IN
       /\ conns' = [conns EXCEPT ![c].at = "gone", ![c].open = FALSE]
       /\ IF tunnels[b] = c
          THEN /\ tunnels' = [tunnels EXCEPT ![b] = 0]
               /\ watch' = IF seen /\ Enrolled(b) THEN [watch EXCEPT !.age[b] = 0] ELSE watch
          ELSE UNCHANGED <<tunnels, watch>>
    /\ UNCHANGED <<selfBox, master, afters, memberSide, req, bounds>>
\* Altered: the end of a tunnel is not recorded.
detach_Unseen(c) == Detach(c, FALSE)
detach(c) == Detach(c, TRUE)

\* The network breaks; the machine of the member stops without a word; the core of the master restarts.
Breaks(c) ==
    /\ breaks < MaxBreaks /\ conns[c].open
    /\ breaks' = breaks + 1
    /\ conns' = Shut({c})
    /\ UNCHANGED <<selfBox, master, tunnels, afters, memberSide, req, watch, codes, made, ops>>
MemberDies ==
    /\ breaks < MaxBreaks /\ ~selfBox
    /\ breaks' = breaks + 1
    /\ conns' = IF member.conn = 0 THEN conns ELSE [conns EXCEPT ![member.conn].alive = FALSE]
    /\ member' = Loop("load") /\ poke' = FALSE
    /\ afters' = afters \ {TheDrop, ThePoke}
    /\ UNCHANGED <<selfBox, master, tunnels, memberFile, req, watch, codes, made, ops>>
MasterRestarts ==
    /\ breaks < MaxBreaks
    /\ breaks' = breaks + 1
    /\ conns' = [c \in Slots |-> [conns[c] EXCEPT !.open = FALSE, !.at = "gone"]]
    /\ tunnels' = Without(tunnels, Ids)
    /\ req' = [r \in Requests |-> IF req[r].at \in {"idle", "ended"} THEN req[r] ELSE [req[r] EXCEPT !.at = "ended"]]
    /\ watch' = [watch EXCEPT !.up = 0, !.alert = {}]
    /\ IF selfBox THEN afters' = {} /\ member' = Loop("load") /\ poke' = FALSE
       ELSE afters' = afters \ Slots /\ UNCHANGED <<member, poke>>
    /\ UNCHANGED <<selfBox, master, memberFile, codes, made, ops>>

-------------------------------------------------------------------------------
\* A relayed request: the tunnel is looked up under f.mu and used after it.
Ends(r) == req' = [req EXCEPT ![r].at = "ended"]
Relay(r, b) ==
    /\ req[r].at = "idle"
    /\ IF Enrolled(b) /\ tunnels[b] # 0 THEN req' = [req EXCEPT ![r] = [at |-> "picked", conn |-> tunnels[b], box |-> b]] ELSE Ends(r)
    /\ UNCHANGED <<selfBox, masterSide, afters, memberSide, watch, bounds>>
\* It is registered and written, unless too many are in flight or the write fails.
register(r) ==
    /\ req[r].at = "picked"
    /\ LET c == req[r].conn IN
       IF Cardinality(conns[c].pending) >= MaxInFlight \/ ~conns[c].open
       THEN Ends(r) /\ UNCHANGED conns
       ELSE req' = [req EXCEPT ![r].at = "sent"] /\ conns' = [conns EXCEPT ![c].pending = @ \cup {r}]
    /\ UNCHANGED <<selfBox, master, tunnels, afters, memberSide, watch, bounds>>
\* The member makes the request against its own gateway, a few at a time.
execute(r) ==
    /\ req[r].at = "sent" /\ member.at = "open" /\ member.conn = req[r].conn /\ conns[member.conn].open
    /\ r \in conns[req[r].conn].pending /\ r \notin member.handling
    /\ IF Cardinality(member.handling) < MaxInFlight
       THEN member' = [member EXCEPT !.handling = @ \cup {r}] /\ UNCHANGED req
       ELSE req' = [req EXCEPT ![r].at = "got"] /\ UNCHANGED member
    /\ UNCHANGED <<selfBox, masterSide, afters, memberFile, poke, watch, bounds>>
\* The handler answers; an answer that nobody waits for any more is dropped.
answer(r) ==
    /\ r \in member.handling
    /\ member' = [member EXCEPT !.handling = @ \ {r}]
    /\ req' = IF req[r].at = "sent" /\ conns[member.conn].open /\ r \in conns[member.conn].pending THEN [req EXCEPT ![r].at = "got"] ELSE req
    /\ UNCHANGED <<selfBox, masterSide, afters, memberFile, poke, watch, bounds>>
unregister(r) == conns' = [conns EXCEPT ![req[r].conn].pending = @ \ {r}]
RelayGets(r) ==
    /\ req[r].at = "got" /\ Ends(r) /\ unregister(r)
    /\ UNCHANGED <<selfBox, master, tunnels, afters, memberSide, watch, bounds>>
\* The tunnel was closed under it.
RelayOffline(r) ==
    /\ req[r].at = "sent" /\ ~conns[req[r].conn].open /\ Ends(r) /\ unregister(r)
    /\ UNCHANGED <<selfBox, master, tunnels, afters, memberSide, watch, bounds>>
RelayTimeout(r) ==
    /\ req[r].at = "sent" /\ Ends(r) /\ unregister(r)
    /\ UNCHANGED <<selfBox, master, tunnels, afters, memberSide, watch, bounds>>

-------------------------------------------------------------------------------
\* The watch of boxes that are offline, and the time that it compares.
UpTo(n, max) == IF n < max THEN n + 1 ELSE max
Tick ==
    /\ watch' = [watch EXCEPT !.up = UpTo(@, StartGrace),
                              !.age = [b \in Ids |-> IF @[b] = -1 THEN -1 ELSE UpTo(@[b], OfflineAfter)],
                              !.quiet = [b \in Ids |-> IF tunnels[b] # 0 THEN 0 ELSE UpTo(@[b], OfflineAfter)]]
    /\ watch' # watch
    /\ UNCHANGED <<selfBox, masterSide, afters, memberSide, req, bounds>>
Gone(b) == Enrolled(b) /\ tunnels[b] = 0 /\ watch.age[b] >= OfflineAfter /\ watch.up >= StartGrace
checkOffline ==
    /\ watch' = [watch EXCEPT !.alert = {b \in Ids : Enrolled(b) /\ tunnels[b] = 0 /\ (b \in @ \/ Gone(b))}]
    /\ watch' # watch
    /\ UNCHANGED <<selfBox, masterSide, afters, memberSide, req, bounds>>

-------------------------------------------------------------------------------
memberStep == Run \/ Woken \/ Backoff \/ dial \/ hello \/ watcher \/ SessionEnds
masterStep == \/ \E c \in Slots : attach(c) \/ helloWait(c) \/ detach(c) \/ Close(c)
              \/ pokeMember
ownerStep == \/ enableMaster \/ DisableMaster \/ AddBox \/ Leave
             \/ \E b \in Ids : RemoveBox(b) \/ RotateCode(b)
             \/ \E code \in codes : enrol(code)
faultStep == DialFails \/ MemberDies \/ MasterRestarts \/ \E c \in Slots : Breaks(c)
relayStep == \E r \in Requests : register(r) \/ execute(r) \/ answer(r) \/ RelayGets(r) \/ RelayOffline(r)
askStep == \E r \in Requests : RelayTimeout(r) \/ \E b \in Ids : Relay(r, b)
watchStep == Tick \/ checkOffline
tunnelNext == memberStep \/ masterStep \/ ownerStep \/ faultStep \/ relayStep \/ askStep \/ watchStep

\* The loops run, calls end, a dead peer is noticed by the deadline of its reader. The master's
\* time limit of a request is not assumed, nor that the owner or the network do anything.
tunnelFairness == /\ WF_tunnelVars(Run) /\ WF_tunnelVars(Woken) /\ WF_tunnelVars(Backoff) /\ WF_tunnelVars(dial)
                  /\ WF_tunnelVars(hello) /\ WF_tunnelVars(watcher) /\ WF_tunnelVars(SessionEnds) /\ WF_tunnelVars(pokeMember)
                  /\ \A c \in Slots : /\ WF_tunnelVars(attach(c)) /\ WF_tunnelVars(helloWait(c))
                                      /\ WF_tunnelVars(detach(c)) /\ WF_tunnelVars(Close(c))
                  /\ \A r \in Requests : /\ WF_tunnelVars(register(r)) /\ WF_tunnelVars(execute(r)) /\ WF_tunnelVars(answer(r))
                                         /\ WF_tunnelVars(RelayGets(r)) /\ WF_tunnelVars(RelayOffline(r))
tunnelSpec == tunnelInit /\ [][tunnelNext]_tunnelVars /\ tunnelFairness

-------------------------------------------------------------------------------
\* The tunnel of a box was made with the key that the box has now, at a master that is on: a dial
\* that overlaps a rotation, a removal or a disable never ends in a live tunnel (master.go:205-208).
OnlyCurrentKey == \A b \in Ids : tunnels[b] # 0 => authorize([box |-> b, key |-> conns[tunnels[b]].key])
\* Once member.json is, for good, the code that the master has for the box, the box ends up online for
\* good with that code, whatever was changed under the loop and in whatever state it was (member.go:396, fleet.go:72).
InStep == memberFile # NoCode /\ authorize(memberFile)
Online == /\ memberFile.box \in Ids /\ member.at = "open" /\ member.st = memberFile
          /\ tunnels[memberFile.box] = member.conn /\ conns[member.conn].open
Follows == <>[]InStep => <>[]Online
\* A request that was sent ends with the tunnel it was sent down, without its time limit (master.go:276).
RelayEnds == \A r \in Requests : req[r].at = "sent" ~> req[r].at = "ended"
Raised == watch'.alert \ watch.alert
\* An alert is raised only for a box that had no tunnel for the time that is said (offline.go:8), but for one whose
\* code was rotated: the tunnel that RotateCode takes away is not recorded as seen.
OfflineLongEnough == [][\A b \in Raised : watch.quiet[b] >= OfflineAfter \/ b \in watch.cut]_tunnelVars
\* The same of every box: "A box with no tunnel for offlineAfter gets one alert" (offline.go:8).
OfflineAlways == [][\A b \in Raised : watch.quiet[b] >= OfflineAfter]_tunnelVars

\* Neither a member nor a request waits for ever on a tunnel that was changed under it.
NobodyWaits == Follows /\ RelayEnds
===============================================================================
