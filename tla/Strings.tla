------------------------------ MODULE Strings ------------------------------
(***************************************************************************)
(* The two string sections of the system page. Typed strings are a list of *)
(* a type, a word, and its string, padded to words; type _CS_NONE ends it, *)
(* and a type that is set again replaces what was there. Other strings are *)
(* kept once each, with an empty one at the end, and known by their        *)
(* offset. Sections are zero when they grow, and another section follows.  *)
(***************************************************************************)
EXTENDS Integers, Sequences, FiniteSets, FiniteSetsExt, SequencesExt

CONSTANTS
  Types,      \* types a board gives, less _CS_NONE
  Texts,      \* strings, sequences of characters
  Word,       \* bytes of a word
  Chunk,      \* bytes add_string() grows by: 128
  MaxAdds     \* bound on the calls

Nul == ""
_CS_NONE == Nul   \* both are bytes of zeros
Other == "other"  \* a byte of the section behind

VARIABLES
  typed,      \* the bytes of the typed strings
  strings,    \* the bytes of the others
  given,      \* history: type -> the string it was last given
  offsets     \* history: pairs of a string and the offset it was given

vars == <<typed, strings, given, offsets>>

Round(n, a) == ((n + a - 1) \div a) * a
\* Offsets count from 0.
Byte(m, i) == IF i < Len(m) THEN m[i + 1] ELSE Other
Zeros(n) == [i \in 1 .. n |-> Nul]
\* grow_syspage_section(), which adds multiples of two words.
Grow(m, n) == IF n > 0 THEN m \o Zeros(Round(n, 2 * Word)) ELSE m
\* What of a string fits is written; behind the section it is lost.
Put(m, i, s) == [k \in 1 .. Len(m) |-> IF k - i \in 1 .. Len(s) THEN s[k - i] ELSE m[k]]
strlen(m, i) == Min({k \in 0 .. Len(m) : Byte(m, i + k) \in {Nul, Other}})
StringOf(m, i) == SubSeq(m, i + 1, i + strlen(m, i))

\* The entry behind the typed string at i.
NextEntry(m, i) == Round(i + Word + strlen(m, i + Word) + 1, Word)
\* The offset of a type, or -1. _CS_NONE is found at the end.
find_typed_string(m, type) ==
  LET Look(f, k) ==
        IF f.found THEN f
        ELSE IF Byte(m, f.i) = type THEN [f EXCEPT !.found = TRUE]
        ELSE IF Byte(m, f.i) = _CS_NONE THEN [found |-> TRUE, i |-> -1]
        ELSE [f EXCEPT !.i = NextEntry(m, @)]
  IN  FoldLeft(Look, [found |-> FALSE, i |-> 0], [k \in 1 .. Len(m) |-> k]).i

\* The old place of what was moved down.
Cleared(m, i, end) == [k \in 1 .. Len(m) |-> IF k - 1 \in i .. end - 1 THEN Nul ELSE m[k]]
del_typed_string(m, type) ==
  LET i == find_typed_string(m, type)
      j == NextEntry(m, i)
      end == find_typed_string(m, _CS_NONE)
  IN  IF i < 0 THEN m ELSE Cleared(Put(m, i, SubSeq(m, j + 1, end)), i + end - j, end)

add_typed_string(m, type, name) ==
  LET d == del_typed_string(m, type)
      i == find_typed_string(d, _CS_NONE)
      need == Round(Len(name) + 1, Word) + 2 * Word
      g == Grow(d, need - (Len(d) - i))
  IN  Put(g, i, <<type>> \o Zeros(Word - 1) \o name \o <<Nul>>)

Room(name) == Len(name) + 2
\* The strings of a section, by offset.
Starts(m) == {i \in 0 .. Len(m) - 1 : Byte(m, i) # Nul /\ (i = 0 \/ Byte(m, i - 1) = Nul)}
add_string(m, name) ==
  LET same == {i \in Starts(m) : StringOf(m, i) = name}
      end == IF Starts(m) = {} THEN 0 ELSE Max({i + strlen(m, i) + 1 : i \in Starts(m)})
      spare == Len(m) - end
      g == Grow(m, IF Room(name) > spare THEN Round(Room(name) - spare, Chunk) ELSE 0)
  IN  IF same # {} THEN [m |-> m, off |-> Min(same)]
      ELSE [m |-> Put(g, end, Append(name, Nul)), off |-> end]

-----------------------------------------------------------------------------
\* Both sections begin with the end of a list.
Init ==
  /\ typed = Grow(<< >>, Word) /\ strings = Grow(<< >>, 1)
  /\ given = [t \in {} |-> << >>] /\ offsets = << >>

\* A board sets a type; -N sets the host's name before or after.
AddTyped(type, name) ==
  /\ typed' = add_typed_string(typed, type, name)
  /\ given' = [t \in DOMAIN given \cup {type} |-> IF t = type THEN name ELSE given[t]]
  /\ UNCHANGED <<strings, offsets>>

DelTyped(type) ==
  /\ typed' = del_typed_string(typed, type)
  /\ given' = [t \in DOMAIN given \ {type} |-> given[t]]
  /\ UNCHANGED <<strings, offsets>>

AddString(name) ==
  LET a == add_string(strings, name) IN
  /\ Len(offsets) < MaxAdds /\ name # << >>
  /\ strings' = a.m /\ offsets' = Append(offsets, <<name, a.off>>)
  /\ UNCHANGED <<typed, given>>

Next ==
  \/ \E t \in Types : DelTyped(t) \/ \E s \in Texts : AddTyped(t, s)
  \/ \E s \in Texts : AddString(s)
Spec == Init /\ [][Next]_vars

-----------------------------------------------------------------------------
(* Properties                                                              *)

\* Each type is found with the string it was last given and the others are
\* not found, however often strings were replaced by longer or shorter ones
\* and the section grew; the list ends inside its section.
TypedRight ==
  /\ \A t \in Types :
       LET i == find_typed_string(typed, t) IN
       IF t \in DOMAIN given THEN i >= 0 /\ StringOf(typed, i + Word) = given[t] ELSE i = -1
  /\ find_typed_string(typed, _CS_NONE) \in 0 .. Len(typed) - Word

\* An offset stays that of the string it was given for, equal strings have
\* one, and an empty string ends the section.
OffsetsRight ==
  /\ \A k \in 1 .. Len(offsets) : StringOf(strings, offsets[k][2]) = offsets[k][1]
  /\ \A k, l \in 1 .. Len(offsets) : offsets[k][1] = offsets[l][1] => offsets[k][2] = offsets[l][2]
  /\ \E i \in 0 .. Len(strings) - 1 : Byte(strings, i) = Nul /\ (i = 0 \/ Byte(strings, i - 1) = Nul)

StringsRight == TypedRight /\ OffsetsRight
=============================================================================
