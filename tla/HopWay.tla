-------------------------------- MODULE HopWay ---------------------------------
\* What the runbook of a hop promises of the machine: until packages change it may go to
\* the sources of the new release and back as often as the owner likes; packages change
\* only under the new sources; from there the way is forward, and it ends with all
\* packages of the new release and the sources that name it.
VARIABLE where

Places == {"before", "between", "forward", "reached"}
Move(from, to) == where = from /\ where' = to

Init == where = "before"
GoOn == Move("before", "between") \/ Move("between", "forward") \/ Move("forward", "reached")
Return == Move("between", "before")
Next == GoOn \/ Return
Way == Init /\ [][Next]_where
===============================================================================
