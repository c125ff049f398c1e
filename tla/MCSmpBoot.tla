----------------------------- MODULE MCSmpBoot -----------------------------
(* Instances of SmpBoot for TLC.                                           *)
EXTENDS SmpBoot

\* -P1, -P2, -P3 and the default ~0, which is larger than any NumCpu here.
MCMaxCpuOpts == 1 .. NumCpu + 1
=============================================================================
