-------------------------------- MODULE MCFleet --------------------------------
\* A tunnel, seen from the loop of the member, from the requests and from the watch (these two begin with
\* a box that is enrolled, as enableMaster, AddBox and enrol leave it), and the networks of the relays.
EXTENDS FleetTunnel, FleetRelay
VARIABLE subject
MCJoinCodes == {[relay |-> "a", fleet |-> 8, key |-> TRUE], [relay |-> "a", fleet |-> 9, key |-> TRUE],
                [relay |-> "a", fleet |-> 8, key |-> FALSE], [relay |-> "b", fleet |-> 7, key |-> TRUE]}
Started == /\ selfBox = FALSE
           /\ master = [on |-> TRUE, key |-> [b \in Ids |-> IF b = 1 THEN 1 ELSE 0]]
           /\ tunnels = [b \in Ids |-> 0] /\ conns = [c \in Slots |-> NoConn] /\ afters = {}
           /\ memberFile = [box |-> 1, key |-> 1] /\ poke = TRUE /\ member = Loop("idle")
           /\ req = [r \in Requests |-> [at |-> "idle", conn |-> 0, box |-> 0]]
           /\ watch = [up |-> 0, age |-> [b \in Ids |-> -1], quiet |-> [b \in Ids |-> 0], alert |-> {}, cut |-> {}]
           /\ codes = {memberFile} /\ made = 1
FInit == \/ tunnelInit /\ relayInit /\ net.login = "" /\ subject = "loop"
         \/ /\ Started /\ subject \in {"requests", "watch"} /\ relayInit /\ net.login = ""
            /\ \E n \in {0, 1} : ops = MaxOps - n /\ breaks = MaxBreaks - (1 - n)
         \/ relayInit /\ tunnelInit /\ selfBox = FALSE /\ subject = "relay"
FNext == /\ UNCHANGED subject
         /\ \/ subject # "relay" /\ UNCHANGED relayVars /\ (memberStep \/ masterStep \/ ownerStep \/ faultStep)
            \/ subject = "requests" /\ UNCHANGED relayVars /\ (relayStep \/ askStep)
            \/ subject = "watch" /\ UNCHANGED relayVars /\ watchStep
            \/ subject = "relay" /\ UNCHANGED tunnelVars /\ relayNext
FSpec == FInit /\ [][FNext]_<<subject, tunnelVars, relayVars>> /\ tunnelFairness
===============================================================================
