---------------------------- MODULE MCRestoreIfs ----------------------------
(***************************************************************************)
(* Instances of RestoreIfs: an image of a header and the data of two       *)
(* executables, one whose second executable has no writable segment, and   *)
(* one with too many executables.                                          *)
(***************************************************************************)
EXTENDS RestoreIfs

MCImages == {<< <<2>>, <<3>> >>, << <<2>>, << >> >>, << <<2>>, <<3>>, <<3>> >>}

\* Loaded by an IPL, compressed and not; by a boot loader that notes no
\* place, compressed; compressed at the final place, which is refused.
Elsewhere == ImagePaddr + StartupSize + ImgSize
Hdr(comp, paddr, off) == [comp |-> comp, imagefs_paddr |-> paddr, addr_off |-> off]
MCHeaders == {Hdr(TRUE, Elsewhere, 0), Hdr(FALSE, Elsewhere, 0),
              Hdr(TRUE, 0, 0), Hdr(TRUE, ImagePaddr + StartupSize, 0)}
MCHeaderOff == {Hdr(FALSE, Elsewhere, 1)}

\* -I, -I1 and -i with the letters R and K, a source and a place.
Opt(flags) == [f \in {"enable", "cksum", "ifs2", "restore2", "cksum2", "src2",
                      "dst2"} |-> f \in flags]
MCOptions == {Opt({}), Opt({"enable"}), Opt({"enable", "ifs2"}),
              Opt({"enable", "cksum", "ifs2", "restore2", "cksum2", "src2"}),
              Opt({"ifs2", "src2", "dst2"}), Opt({"ifs2", "restore2"}),
              Opt({"ifs2", "restore2", "cksum2"})}
MCOptionI == {Opt({"enable", "cksum"})}
MCOptionDst == {Opt({"ifs2", "restore2", "cksum2", "src2", "dst2"})}
=============================================================================
