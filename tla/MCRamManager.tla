--------------------------- MODULE MCRamManager ---------------------------
(***************************************************************************)
(* An instance of RamManager and RamInfo: the image and startup's lists    *)
(* lie in the first of three banks, the second touches it, a gap lies      *)
(* before the third. Pages have two units, and one -r option begins inside *)
(* a page. The firmware's maps have the image in loader memory and what    *)
(* the firmware keeps at the bottom, in the middle or at the top of RAM.   *)
(***************************************************************************)
EXTENDS RamInfo

MCBank == {<<2, 16>>, <<18, 4>>, <<24, 5>>}
MCResmem == {<<12, 1>>, <<19, 2>>}
MCAllocReq == {<<2, 2>>, <<3, 1>>}
MCWsReq == {1}
MCReserveReq == {<<3, 0, FALSE>>, <<4, 4, FALSE>>, <<2, 4, TRUE>>}

MCBoardRam == <<2, 16>>
R(s, n) == [start |-> s, size |-> n]
N(ac, sc, cells, reg) == [ac |-> ac, sc |-> sc, cells |-> cells, reg |-> reg]
MCTrees == {
  [rsv |-> <<R(2, 2), R(10, 4)>>, nodes |-> <<N(2, 2, 4, <<R(2, 20)>>)>>],
  [rsv |-> <<R(12, 2), R(24, 2)>>,
   nodes |-> <<N(1, 1, 4, <<R(2, 16), R(18, 4)>>), N(2, 1, 3, <<R(24, 5)>>)>>] }
D(t, s, n) == [type |-> t, start |-> s, size |-> n]
MCMaps == {
  <<D("EfiRuntimeServicesData", 2, 2), D("EfiLoaderCode", 4, 6), D("EfiConventionalMemory", 10, 8)>>,
  <<D("EfiLoaderCode", 4, 6), D("EfiConventionalMemory", 10, 6), D("EfiMemoryMappedIO", 16, 2),
    D("EfiACPIReclaimMemory", 18, 2), D("EfiConventionalMemory", 20, 4)>>,
  <<D("EfiConventionalMemory", 14, 6), D("EfiBootServicesData", 12, 2), D("EfiLoaderCode", 4, 8)>> }
=============================================================================
