----------------------------- MODULE MCOsAbort -----------------------------
(* Two requests and one driver, on small runs. *)
EXTENDS OsAbort

CONSTANTS c1, c2

TwoCallers == {c1, c2}

RefreshThenHop == <<"refresh", "run">>
=============================================================================
