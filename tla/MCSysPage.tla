----------------------------- MODULE MCSysPage -----------------------------
(***************************************************************************)
(* An instance of SysPage: two callouts share data, one has data of its    *)
(* own, one has none; pages are small, so that their borders are met.      *)
(***************************************************************************)
EXTENDS SysPage

MCSetSize == [private |-> 8]
MCGrowSize == [strings |-> {1, 9}]
MCRtnSize == [r \in {"plain", "rw", "spin"} |->
                CASE r = "plain" -> 4 [] r = "rw" -> 12 [] OTHER -> 8]
MCRwOf == [plain |-> "none", rw |-> "w1", spin |-> "w2"]
MCRwSize == [w1 |-> 4, w2 |-> 8]
=============================================================================
