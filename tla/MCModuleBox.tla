------------------------------ MODULE MCModuleBox ------------------------------
(* Two versions of a module: a path that both hold, one of the old one only and *)
(* one of the new one only.                                                     *)
EXTENDS ModuleBox, TLC
MCFilesOf == <<("a" :> 1) @@ ("b" :> 3), ("a" :> 2) @@ ("c" :> 4)>>
===============================================================================
