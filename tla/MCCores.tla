------------------------------ MODULE MCCores ------------------------------
(***************************************************************************)
(* Boards of two and three cores of four kinds: with the same caches, with *)
(* others of the same size, with other widths, without EL2; -P beyond the  *)
(* cores there are; each state of the hypervisor option.                   *)
(***************************************************************************)
EXTENDS Cores, TLC
Features == [simd |-> 0, fp |-> 0, lse |-> 2, aes |-> 2, sha1 |-> 1, sha2 |-> 1, sha3 |-> 0, rndr |-> 0,
             dic |-> FALSE, sve |-> 0, apa |-> FALSE]
Core(midr, clidr, d, i, el2, vhe, f) ==
  [midr |-> midr, clidr |-> clidr, ccsidr |-> <<d, i>>, el2 |-> el2, vhe |-> vhe] @@ f
Kinds == {Core("a35", 3, 32, 32, TRUE, FALSE, Features),
          Core("a57", 3, 32, 48, TRUE, FALSE, [Features EXCEPT !.aes = 1, !.dic = TRUE, !.apa = TRUE]),
          Core("big", 3, 64, 64, TRUE, TRUE, [Features EXCEPT !.sha2 = 2, !.sha3 = 1, !.rndr = 1, !.sve = 1]),
          Core("odd", 4, 64, 0, FALSE, FALSE, [Features EXCEPT !.simd = 15, !.fp = 15, !.lse = 1, !.aes = 0])}
MCKnown == ("a35" :> "Cortex-A35") @@ ("a57" :> "Cortex-A57")
L2 == <<[next |-> CACHE_LIST_END, kind |-> "unified", size |-> 512]>>
Options3 == {{}, {"virtual", "sve", "ssbs"}, {"spectre_v2", "pauth"}}
Board(cs, n, o, h, l) ==
  [cpus |-> [i \in 1 .. Len(cs) |-> cs[i] @@ [mpidr |-> 10 + i]], max_cpus |-> n, opts |-> o, hyp |-> h, shared |-> l,
   flags_on |-> IF o = {} THEN {} ELSE {"X"}, flags_off |-> IF o = {} THEN {} ELSE {"LSE"}, cpu_freq |-> 0]
MCBoards ==
  {Board(<<a, b, c>>, n, o, h, l) : a \in Kinds, b \in Kinds, c \in Kinds, n \in {2, 4}, o \in Options3,
     h \in {"enabled"}, l \in {<< >>, L2}}
  \cup {Board(<<a, b>>, 1000, {"virtual"}, h, << >>) : a \in Kinds, b \in Kinds, h \in {"disabled", "el1", "el2", "invalid"}}
=============================================================================
