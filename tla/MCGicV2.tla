------------------------------ MODULE MCGicV2 ------------------------------
(* Instances of GicV2 for TLC.                                             *)
EXTENDS GicV2

\* Two CPUs wired the other way round, so that a CPU number used as an
\* interface number would be noticed.
MCGicIf == [c \in CPU |-> NumCpu - 1 - c]
MCPpi == {27}
MCSpi == {33}
MCTrigIrqs == {31, 33}
=============================================================================
