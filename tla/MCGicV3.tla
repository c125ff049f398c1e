------------------------------ MODULE MCGicV3 ------------------------------
(* Instances of GicV3 for TLC.                                             *)
EXTENDS GicV3

\* Two CPUs, one of them beyond aff0 15, and three frames: in the order of
\* the CPUs, and in another one.
MCCpuAff == [c \in CPU |-> IF c = 0 THEN <<1, 1, 0, 0>> ELSE <<17, 1, 0, 0>>]
Other == <<0, 0, 0, 0>>
InOrder == [i \in Gicr |-> <<MCCpuAff[0], MCCpuAff[1], Other>>[i + 1]]
Swapped == [i \in Gicr |-> <<Other, MCCpuAff[1], MCCpuAff[0]>>[i + 1]]
MCGicrUnit == [i \in Gicr |-> 2 * i + 6]
MCProcNum  == [i \in Gicr |-> i]
MCSpi  == {66}
MCEspi == {4097}
MCLpi  == {8193}

E(cls, base, num, msi) == <<cls, [base |-> base, num |-> num, msi |-> msi]>>
\* Entries that fit, overlap at either end, contain one another, come out
\* of order.
Entries == {E("spi", 32, 32, FALSE), E("spi", 64, 32, TRUE),
            E("spi", 48, 32, FALSE), E("spi", 60, 8, FALSE),
            E("espi", 4096, 16, FALSE), E("espi", 4100, 28, TRUE),
            E("lpi", 8192, 4, FALSE), E("lpi", 8193, 2, FALSE)}

Sre(prog) == [sre |-> TRUE, pta |-> TRUE, settable |-> TRUE, touched |-> TRUE,
               gicr_aff |-> Swapped, calls |-> prog]
Mm(prog) == [sre |-> FALSE, pta |-> FALSE, settable |-> FALSE,
              touched |-> FALSE, gicr_aff |-> InOrder, calls |-> prog]

\* Boards that run: all defaults; several entries, with and without LPIs;
\* memory-mapped callouts. Boards that only add entries: all sequences of
\* up to three.
P(gits) == <<<<"paddr", gits>>>>
MCBoards ==
  {Sre(P(FALSE) \o <<<<"initialize">>, <<"trig", 66, TRUE>>, <<"trig", 5000, TRUE>>>>),
   Sre(P(TRUE) \o <<<<"its", "dt_page", 65536>>, <<"its", "q_pages", 1>>, E("spi", 32, 32, FALSE),
         E("spi", 64, 32, TRUE), E("lpi", 8192, 4, FALSE), <<"initialize">>>>),
   Mm(P(FALSE) \o <<<<"mm", FALSE>>, E("espi", 4096, 16, FALSE), <<"initialize">>>>),
   Mm(P(TRUE) \o <<<<"mm", TRUE>>, E("lpi", 8192, 4, FALSE), <<"initialize">>>>)}
  \cup {Mm(P(FALSE) \o s) : s \in [1 .. 3 -> Entries]}
=============================================================================
