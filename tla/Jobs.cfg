SPECIFICATION JSpec
CONSTANTS Requests = {r1, r2}
          MaxNonce = 2
          MaxUpsets = 1
          Engine = {ce, cli}
          Foreign = {dep}
          MaxOwner = 1
          MaxLost = 1
CHECK_DEADLOCK FALSE
INVARIANTS  KeepsItsWord
PROPERTIES Frees
