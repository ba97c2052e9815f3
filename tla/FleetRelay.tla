------------------------------- MODULE FleetRelay ------------------------------
(* The private network of a fleet over a relay (pkg/fleet master.go, member.go, *)
(* relaystate.go, net.go): a master makes a fleet at a relay and joins its      *)
(* network, changes relay, or is disabled; a member joins with a code and       *)
(* leaves. Each call writes several files and talks to the relay and to         *)
(* tailscaled; any of it can fail, and the core can stop between two steps. A   *)
(* box is in one network at a time, which can also be the owner's own. Calls    *)
(* hold relayMu, so one is under way at a time.                                 *)
EXTENDS Integers, FiniteSets, Sequences, TLC

CONSTANTS Relays, Own,                   \* relays; the server of the owner's own network
          JoinCodes,                     \* codes of other masters: [relay, fleet, key]
          MaxFleets, MaxCalls, MaxFails, MaxCrashes, MaxOwn, MaxDamage,
          Watched                        \* the windows that a crash may hit although nothing repairs them

ASSUME FleetRelayAssumption == /\ Own # "" /\ {Own, "", "damaged"} \cap Relays = {}
                               /\ JoinCodes \subseteq [relay : Relays, fleet : Nat \ {0}, key : BOOLEAN]
                               /\ {MaxFleets, MaxCalls, MaxFails, MaxCrashes, MaxOwn, MaxDamage} \subseteq Nat

VARIABLES
    masterFile,                          \* master.json: [relay, fleet]
    relayFile,                           \* relay.json: [relay, fleet]; relay "damaged"
    memberJson,                         \* member.json: [relay, fleet]
    netOwn,                              \* netown.json: a relay
    net,                                 \* tailscaled: [login, fleet, up]; login "" when logged out
    call,                                \* the call under way: [name, at, relay, fleet, old, down, then]
    handed,                              \* the last code of the master: [key, fleet], fleets of the join key and of the code
    recode,                              \* Box.NeedsRecode of the box that has this code
    left,                                \* what went wrong that the code does not repair
    fleetsMade, calls, fails, crashes, owners, damages

files == <<masterFile, relayFile, memberJson, netOwn>>
relayBounds == <<fleetsMade, calls, fails, crashes, owners, damages>>
relayVars == <<files, net, call, handed, recode, left, relayBounds>>

None == [relay |-> "", fleet |-> 0]
Damaged == [relay |-> "damaged", fleet |-> 0]
NoCall == [name |-> "", at |-> "idle", relay |-> "", fleet |-> 0, old |-> None, down |-> FALSE, then |-> "idle", key |-> FALSE]
NoHanded == [key |-> 0, fleet |-> 0]
loadRelay == IF relayFile = Damaged THEN None ELSE relayFile

relayInit ==
    /\ masterFile = None /\ relayFile = None /\ memberJson = None /\ netOwn = ""
    /\ net \in {[login |-> "", fleet |-> 0, up |-> FALSE], [login |-> Own, fleet |-> 0, up |-> FALSE]}
    /\ call = NoCall /\ handed = NoHanded /\ recode = FALSE /\ left = {}
    /\ fleetsMade = 0 /\ calls = 0 /\ fails = 0 /\ crashes = 0 /\ owners = 0 /\ damages = 0

-------------------------------------------------------------------------------
\* tailscaled. A daemon that is stopped does not say where it is logged in.
LoginServer == IF net.up THEN net.login ELSE ""
Connected == net.up /\ net.login # ""
LoggedOut == [login |-> "", fleet |-> 0, up |-> FALSE]
\* Up: a no-op at the same server, refused at another; a login that fails is logged out of again,
\* as far as that goes. What it leaves and how it ends.
Up(relay, fleet) ==
    IF net.login \notin {"", relay} THEN {<<net, "other">>}
    ELSE IF net.login = relay THEN {<<[net EXCEPT !.up = TRUE], "ok">>} \cup (IF net.up THEN {} ELSE {<<net, "fail">>})
    ELSE {<<[login |-> relay, fleet |-> fleet, up |-> TRUE], "ok">>, <<net, "fail">>,
          <<[login |-> relay, fleet |-> fleet, up |-> net.up], "stays">>}
\* Altered: a stopped daemon is logged out without a look at whose login it was.
Down_Blind(relay) ==
    IF net.up /\ relay # "" /\ net.login \notin {"", relay} THEN {<<net, "ok">>, <<net, "fail">>}
    ELSE {<<LoggedOut, "ok">>, <<net, "fail">>} \cup (IF net.login = "" THEN {} ELSE {<<[net EXCEPT !.up = FALSE], "stays">>})
\* Down starts the daemon, reads the login, and logs out of the network of this relay only ("": of any).
Down(relay) ==
    IF relay # "" /\ net.login \notin {"", relay} THEN {<<net, "ok">>, <<net, "fail">>}
    ELSE {<<LoggedOut, "ok">>, <<net, "fail">>} \cup (IF net.login = "" THEN {} ELSE {<<[net EXCEPT !.up = FALSE], "stays">>})

\* A step that can go wrong takes of the bound of failures when it does.
Fail == fails < MaxFails /\ fails' = fails + 1
Well == UNCHANGED fails
Go(at) == call' = [call EXCEPT !.at = at]
End == call' = NoCall
Keep(list) == UNCHANGED <<list, handed, recode, fleetsMade, calls, crashes, owners, damages>>
Begin(name, at, relay) ==
    /\ call = NoCall /\ calls < MaxCalls /\ calls' = calls + 1
    /\ call' = [NoCall EXCEPT !.name = name, !.at = at, !.relay = relay]
    /\ UNCHANGED <<files, net, handed, recode, left, fleetsMade, fails, crashes, owners, damages>>
\* A login that cannot be logged out of is left behind by what only tries its best.
Stays(result) == left' = IF result = "ok" THEN left ELSE left \cup {"logout"}
\* The end of a fleet at its relay: deleted there, the network left, relay.json removed; every failure is only logged.
LeaveRelay(rs, down, then) == call' = [call EXCEPT !.at = "l.delete", !.old = rs, !.down = down, !.then = then]
DeleteFleet == /\ call.at = "l.delete"
               /\ Go(IF call.down THEN "l.down" ELSE "l.clear")
               /\ Keep(<<files, net, left, fails>>)
leaveRelay ==
    \/ /\ call.at = "l.down" /\ Go("l.clear")
       /\ \E d \in Down(call.old.relay) : /\ net' = d[1] /\ Stays(d[2])
                                          /\ IF d[2] = "ok" THEN Well ELSE Fail
       /\ Keep(files)
    \/ /\ call.at = "l.clear" /\ (IF call.then = "idle" THEN End ELSE Go(call.then))
       /\ relayFile' = None
       /\ Keep(<<masterFile, memberJson, netOwn, net, left, fails>>)

-------------------------------------------------------------------------------
\* relay.json for the relay that master.json names. Another fleet in it is a relay change that was cut
\* short: master.json follows it once this box is on that network. The master after it, or an error.
moveMaster(rs) == masterFile' = rs /\ recode' = (handed # NoHanded \/ recode)
relayFor == IF loadRelay = None THEN "lost"
            ELSE IF loadRelay = masterFile THEN "ok"
            ELSE IF Connected /\ LoginServer = loadRelay.relay THEN "moves" ELSE "not up"

EnableMasterRelay(relay) == Begin("enable", "e.check", relay)
EnableChecks ==
    /\ call.at = "e.check"
    /\ IF memberJson # None THEN End /\ UNCHANGED <<masterFile, recode>>
       ELSE IF masterFile.relay # "" THEN End /\ (IF relayFor = "moves" THEN moveMaster(loadRelay) ELSE UNCHANGED <<masterFile, recode>>)
       ELSE /\ UNCHANGED <<masterFile, recode>>
            /\ IF loadRelay # None THEN LeaveRelay(loadRelay, TRUE, "e.own") ELSE Go("e.own")
    /\ UNCHANGED <<relayFile, memberJson, netOwn, net, handed, left, relayBounds>>
\* netDown leaves a network and forgets the marker that names it once the box left.
netDown(relay) == \E d \in Down(relay) :
    /\ net' = d[1]
    /\ netOwn' = IF d[2] = "ok" /\ netOwn = relay THEN "" ELSE netOwn
    /\ IF d[2] = "ok" THEN Well ELSE Fail
    /\ left' = IF d[2] = "ok" THEN left ELSE left \cup {IF netOwn = relay THEN "marked" ELSE "logout"}
EnableOwn ==
    /\ call.at = "e.own" /\ Go("e.state")
    /\ IF netOwn # "" THEN netDown(netOwn) ELSE UNCHANGED <<net, netOwn, fails, left>>
    /\ Keep(<<masterFile, relayFile, memberJson>>)
EnableState ==
    /\ call.at = "e.state"
    /\ IF LoginServer # "" THEN End ELSE Go("create")
    /\ Keep(<<files, net, left, fails>>)

ChangeRelay(relay) == masterFile.relay # "" /\ Begin("change", "c.check", relay)
ChangeChecks ==
    /\ call.at = "c.check"
    /\ IF relayFor \in {"ok", "moves"} THEN call' = [call EXCEPT !.at = "create", !.old = loadRelay] ELSE End
    /\ IF relayFor = "moves" THEN moveMaster(loadRelay) ELSE UNCHANGED <<masterFile, recode>>
    /\ UNCHANGED <<relayFile, memberJson, netOwn, net, handed, left, relayBounds>>

\* The new fleet: made at the relay; an enable saves its secret at once, a change once it is on its network.
CreateFleet ==
    /\ call.at = "create"
    /\ \/ /\ fleetsMade < MaxFleets /\ fleetsMade' = fleetsMade + 1 /\ Well
          /\ call' = [call EXCEPT !.fleet = fleetsMade', !.at = IF call.name = "enable" THEN "e.save" ELSE "key"]
       \/ Fail /\ End /\ UNCHANGED fleetsMade
    /\ UNCHANGED <<files, net, left, handed, recode, calls, crashes, owners, damages>>
New == [relay |-> call.relay, fleet |-> call.fleet]
saveRelay ==
    /\ call.at = "e.save"
    /\ \/ relayFile' = New /\ Well /\ Go("key")
       \/ Fail /\ LeaveRelay(New, FALSE, "idle") /\ UNCHANGED relayFile
    /\ Keep(<<masterFile, memberJson, netOwn, net, left>>)
JoinKey ==
    /\ call.at = "key"
    /\ \/ Well /\ Go(IF call.name = "enable" THEN "up" ELSE "c.down")
       \/ Fail /\ (IF call.name = "enable" THEN LeaveRelay(New, FALSE, "idle") ELSE End)
    /\ Keep(<<files, net, left>>)
ChangeDown ==
    /\ call.at = "c.down"
    /\ \E d \in Down(call.old.relay) : /\ net' = d[1]
                                       /\ IF d[2] = "ok" THEN Well /\ Go("up") ELSE Fail /\ End
    /\ Keep(<<files, left>>)
\* Up, then an address, then the files; a failure undoes what was done.
Lost == Go("c.lost")
JoinNet ==
    /\ call.at = "up"
    /\ \E u \in Up(call.relay, call.fleet) :
          /\ net' = u[1]
          /\ IF u[2] = "ok" THEN Well /\ Go("addr")
             ELSE /\ IF u[2] = "other" THEN Well ELSE Fail
                  /\ IF call.name = "enable" THEN LeaveRelay(New, FALSE, "idle") ELSE Lost
          /\ left' = IF u[2] = "stays" /\ call.name = "enable" THEN left \cup {"logout"} ELSE left
    /\ Keep(files)
waitAddr ==
    /\ call.at = "addr"
    /\ \/ Well /\ Go(IF call.name = "enable" THEN "e.master" ELSE "c.save")
       \/ Fail /\ (IF call.name = "enable" THEN LeaveRelay(New, TRUE, "idle") ELSE Lost)
    /\ Keep(<<files, net, left>>)
EnableSaves ==
    /\ call.at = "e.master"
    /\ \/ masterFile' = New /\ End /\ Well /\ recode' = (handed # NoHanded)
       \/ Fail /\ LeaveRelay(New, TRUE, "idle") /\ UNCHANGED <<masterFile, recode>>
    /\ UNCHANGED <<relayFile, memberJson, netOwn, net, left, handed, fleetsMade, calls, crashes, owners, damages>>
ChangeSaves ==
    /\ call.at = "c.save"
    /\ \/ relayFile' = New /\ Well /\ Go("c.move")
       \/ Fail /\ Lost /\ UNCHANGED relayFile
    /\ Keep(<<masterFile, memberJson, netOwn, net, left>>)
ChangeMoves ==
    /\ call.at = "c.move"
    /\ \/ moveMaster(New) /\ Well /\ End
       \/ Fail /\ Lost /\ UNCHANGED <<masterFile, recode>>
    /\ UNCHANGED <<relayFile, memberJson, netOwn, net, left, handed, fleetsMade, calls, crashes, owners, damages>>
\* The new network is left again and relay.json written back: the box is off the network.
ChangeLost ==
    \/ /\ call.at = "c.lost" /\ Go("c.back")
       /\ \E d \in Down(call.relay) : net' = d[1] /\ Stays(d[2]) /\ (IF d[2] = "ok" THEN Well ELSE Fail)
       /\ Keep(files)
    \/ /\ call.at = "c.back" /\ End
       /\ \/ relayFile' = call.old /\ Well /\ UNCHANGED left
          \/ Fail /\ UNCHANGED relayFile /\ left' = IF relayFile = call.old THEN left ELSE left \cup {"relay.json"}
       /\ Keep(<<masterFile, memberJson, netOwn, net>>)

DisableRelayed == masterFile # None /\ Begin("disable", "d.remove", "")
DisableRemoves ==
    /\ call.at = "d.remove"
    /\ masterFile' = None /\ handed' = NoHanded /\ recode' = FALSE
    /\ LeaveRelay(loadRelay, TRUE, "idle")
    /\ UNCHANGED <<relayFile, memberJson, netOwn, net, left, relayBounds>>

\* AddBox or RotateCode of another box: the relay is asked first, and master.json read again after it.
joinKey == masterFile.relay # "" /\ Begin("code", "k.relay", "")
joinKeyFor ==
    /\ call.at = "k.relay"
    /\ \/ /\ relayFor \in {"ok", "moves"} /\ Well
          /\ call' = [call EXCEPT !.at = "k.code", !.fleet = loadRelay.fleet, !.old = masterFile]
       \/ relayFor \in {"ok", "moves"} /\ Fail /\ End
       \/ relayFor \notin {"ok", "moves"} /\ Well /\ End
    /\ IF relayFor = "moves" THEN moveMaster(loadRelay) ELSE UNCHANGED <<masterFile, recode>>
    /\ UNCHANGED <<relayFile, memberJson, netOwn, net, left, handed, fleetsMade, calls, crashes, owners, damages>>
handOver == handed' = [key |-> call.fleet, fleet |-> masterFile.fleet]
code ==
    /\ call.at = "k.code" /\ End
    /\ handOver /\ recode' = FALSE
    /\ UNCHANGED <<files, net, left, relayBounds>>

-------------------------------------------------------------------------------
\* The member.
\* (A code without a key is made for a box that is online, and so a member.)
Join(c) ==
    /\ c.key \/ memberJson # None
    /\ call = NoCall /\ calls < MaxCalls /\ calls' = calls + 1
    /\ call' = [NoCall EXCEPT !.name = "join", !.at = "j.check", !.relay = c.relay, !.fleet = c.fleet, !.key = c.key]
    /\ UNCHANGED <<files, net, handed, recode, left, fleetsMade, fails, crashes, owners, damages>>
\* The network that the box shows is one it joined as a member: by the marker, or by member.json.
Ours == {netOwn, memberJson.relay} \ {""}
ownNet == {r \in Ours : LoginServer \in {"", r}}
sameFleet == memberJson = New
\* Altered: the network of another fleet of the relay is not left first.
JoinChecks_Stays ==
    /\ call.at = "j.check"
    /\ IF masterFile # None THEN End
       ELSE IF ~call.key THEN End
       ELSE IF LoginServer \notin {"", call.relay} THEN End ELSE Go("j.mark")
    /\ Keep(<<files, net, left, fails>>)
JoinChecks ==
    /\ call.at = "j.check"
    /\ IF masterFile # None THEN End
       ELSE IF ~call.key
       THEN IF Connected /\ LoginServer = call.relay /\ memberJson.fleet \in {0, call.fleet} THEN Go("j.enrol") ELSE End
       ELSE IF sameFleet THEN Go("j.mark")
       ELSE IF ownNet # {} THEN call' = [call EXCEPT !.at = "j.down", !.old.relay = IF netOwn \in ownNet THEN netOwn ELSE memberJson.relay]
       ELSE IF LoginServer # "" THEN End ELSE Go("j.mark")
    /\ Keep(<<files, net, left, fails>>)
JoinLeaves ==
    /\ call.at = "j.down"
    /\ \E d \in Down(call.old.relay) : /\ net' = d[1]
                                       /\ IF d[2] = "ok" THEN Well /\ netOwn' = "" /\ Go("j.mark") ELSE Fail /\ End /\ UNCHANGED netOwn
    /\ Keep(<<masterFile, relayFile, memberJson, left>>)
saveNetOwn ==
    /\ call.at = "j.mark"
    /\ \/ netOwn' = call.relay /\ Well /\ Go("j.up")
       \/ Fail /\ End /\ UNCHANGED netOwn
    /\ left' = left \cup ((IF netOwn \in {"", call.relay} THEN {} ELSE {"marker"}) \ Watched)
    /\ Keep(<<masterFile, relayFile, memberJson, net>>)
\* (The marker of an earlier Join that could not log out again was written over: nothing names that login any more.)
JoinUp ==
    /\ call.at = "j.up"
    /\ \E u \in Up(call.relay, call.fleet) :
          /\ net' = u[1]
          /\ IF u[2] = "ok" THEN Well /\ Go("j.addr") /\ UNCHANGED netOwn
             ELSE /\ IF u[2] = "other" THEN Well /\ netOwn' = "" ELSE Fail /\ UNCHANGED netOwn
                  /\ End
          /\ left' = IF u[2] = "stays" THEN left \cup {"marked"} ELSE left
    /\ Keep(<<masterFile, relayFile, memberJson>>)
JoinAddr ==
    /\ call.at = "j.addr"
    /\ \/ Well /\ Go("j.enrol")
       \/ Fail /\ Go("j.undo")
    /\ Keep(<<files, net, left>>)
JoinEnrols ==
    /\ call.at = "j.enrol"
    /\ \/ memberJson' = New /\ Well /\ (IF call.key THEN Go("j.clear") ELSE End)
       \/ Fail /\ (IF call.key THEN Go("j.undo") ELSE End) /\ UNCHANGED memberJson
    /\ Keep(<<masterFile, relayFile, netOwn, net, left>>)
JoinUndoes == /\ call.at = "j.undo" /\ End
              /\ netDown(call.relay)
              /\ Keep(<<masterFile, relayFile, memberJson>>)
JoinClears == /\ call.at = "j.clear" /\ End
              /\ netOwn' = ""
              /\ Keep(<<masterFile, relayFile, memberJson, net, left, fails>>)

LeaveNet == Ours # {} /\ Begin("leave", "v.clear", "")
LeaveClears ==
    /\ call.at = "v.clear"
    /\ memberJson' = None
    /\ call' = IF memberJson.relay = "" /\ netOwn = "" THEN NoCall
               ELSE [call EXCEPT !.at = "v.down", !.relay = IF memberJson.relay = "" THEN netOwn ELSE memberJson.relay]
    /\ Keep(<<masterFile, relayFile, netOwn, net, left, fails>>)
\* The member's relay, then the one of a Join that did not finish.
LeaveDowns ==
    /\ call.at = "v.down"
    /\ netDown(call.relay)
    /\ IF netOwn # "" /\ netOwn # call.relay THEN call' = [call EXCEPT !.relay = netOwn] ELSE End
    /\ Keep(<<masterFile, relayFile, memberJson>>)

-------------------------------------------------------------------------------
\* The core stops. Three windows leave a login that the files do not tell of: a relay change that joined the new network
\* and did not save it; a leave that forgot member.json and did not log out; a member of one fleet that joined the network
\* of another one and still has the member.json of the first.
Window == CASE call.name = "change" /\ net.login \in Relays /\ net.fleet # loadRelay.fleet -> {"change"}
            [] call.at = "v.down" /\ netOwn # call.relay -> {"leave"}
            [] call.name = "join" /\ memberJson \notin {None, New} /\ call.at \in {"j.addr", "j.enrol", "j.undo"} -> {"switch"}
            [] OTHER -> {}
Crash ==
    /\ call # NoCall /\ crashes < MaxCrashes /\ crashes' = crashes + 1
    /\ left' = left \cup (Window \ Watched)
    /\ call' = NoCall
    /\ UNCHANGED <<files, net, handed, recode, fleetsMade, calls, fails, owners, damages>>
\* The owner puts the box into a network of their own, takes it out, stops or starts the daemon.
OwnerNet ==
    /\ owners < MaxOwn /\ owners' = owners + 1
    /\ \/ net.login = "" /\ net' = [login |-> Own, fleet |-> 0, up |-> TRUE]
       \/ net.login = Own /\ net' = LoggedOut
       \/ net' = [net EXCEPT !.up = ~@]
    /\ UNCHANGED <<files, call, handed, recode, left, fleetsMade, calls, fails, crashes, damages>>
\* relay.json is damaged or lost.
Damage ==
    /\ damages < MaxDamage /\ damages' = damages + 1 /\ relayFile \notin {None, Damaged}
    /\ relayFile' = Damaged /\ left' = left \cup {"damage"}
    /\ UNCHANGED <<masterFile, memberJson, netOwn, net, call, handed, recode, fleetsMade, calls, fails, crashes, owners>>

relayCalls == \/ \E r \in Relays : EnableMasterRelay(r) \/ ChangeRelay(r)
              \/ DisableRelayed \/ joinKey \/ LeaveNet \/ \E c \in JoinCodes : Join(c)
relaySteps == \/ DeleteFleet \/ leaveRelay \/ EnableChecks \/ EnableOwn \/ EnableState \/ ChangeChecks \/ CreateFleet \/ saveRelay
              \/ JoinKey \/ ChangeDown \/ JoinNet \/ waitAddr \/ EnableSaves \/ ChangeSaves \/ ChangeMoves \/ ChangeLost \/ DisableRemoves
              \/ joinKeyFor \/ code \/ JoinChecks \/ JoinLeaves \/ saveNetOwn \/ JoinUp \/ JoinAddr \/ JoinEnrols \/ JoinUndoes \/ JoinClears
              \/ LeaveClears \/ LeaveDowns
relayNext == relayCalls \/ relaySteps \/ Crash \/ OwnerNet \/ Damage
relaySpec == relayInit /\ [][relayNext]_relayVars

-------------------------------------------------------------------------------
\* A network of the owner's own is never left by the code, whatever of its own fleets it cleans up and whether the
\* daemon was stopped or not; only a disable without relay.json does not know whose it is (net.go:56, member.go:165).
OwnerNetKept == [][net.login = Own /\ net'.login # Own => owners' > owners \/ (call.name = "disable" /\ call.old = None)]_relayVars
\* Between calls a network that this box joined is named by one of its files, so that a later call can leave it,
\* whatever failed and wherever the core was stopped, but for the two windows of Crash and a logout that failed
\* (member.go:181 "a crash after it never leaves a network nobody knows is ours").
Named == {relayFile.relay, masterFile.relay, memberJson.relay, netOwn}
NetNamed == call = NoCall /\ net.login \in Relays => net.login \in Named \/ left \ {"marked"} # {}
\* Between calls the box is in the network of the fleet that its file names, when it is at that relay at all: the box is
\* not connected to another fleet of the same relay while it is shown as connected.
RightFleet == call = NoCall /\ left = {} /\ net.login \in Relays =>
    /\ masterFile.relay = net.login /\ relayFor = "ok" => net.fleet = masterFile.fleet
    /\ memberJson.relay = net.login /\ netOwn = "" /\ relayFile = None => net.fleet = memberJson.fleet
\* A code carries the key of the fleet that it names, and a box whose code is of another fleet than the master's is asked for a new one.
CodeFits == call = NoCall /\ handed # NoHanded =>
    /\ handed.key = handed.fleet
    /\ masterFile.fleet # handed.fleet => recode

\* Between calls the files of the relays, the network of the box and the codes it hands out agree.
RelayInOrder == NetNamed /\ RightFleet /\ CodeFits
===============================================================================
