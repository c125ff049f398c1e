---------------------------- MODULE SectionStore ----------------------------
(***************************************************************************)
(* What startup's system page promises its users: each section is an       *)
(* array of its own that only grows at its end, whatever happens to the    *)
(* others, and the patch data registered for a callout stays with that     *)
(* callout until it is written out. There are no addresses, no order of    *)
(* the sections and no moves; SysPage implements it.                       *)
(***************************************************************************)
EXTENDS Integers

CONSTANT NoData   \* no patch data, NULL

VARIABLES
  content,     \* section -> its words, a function on 0 .. n - 1
  registered,  \* patch data: a set of pairs of slot and data
  patched      \* callouts written out: pairs of slot and data given

vars == <<content, registered, patched>>

\* A slot is a word that holds a callout: a section and an index in it.
HasData(slot) == \E p \in registered : p[1] = slot
DataOf(slot) == IF HasData(slot)
                THEN (CHOOSE p \in registered : p[1] = slot)[2] ELSE NoData

Init == registered = {} /\ patched = {}

\* Section s gets new words; data may be registered for one of them.
Append(s) ==
  LET old == content[s]
      new == content'[s]
  IN /\ DOMAIN old \subseteq DOMAIN new
     /\ \A i \in DOMAIN old : new[i] = old[i]
     /\ \A t \in DOMAIN content \ {s} : content'[t] = content[t]
     /\ registered \subseteq registered'
     /\ \A p \in registered' \ registered :
          p[1][1] = s /\ p[1][2] \in DOMAIN new \ DOMAIN old
     /\ UNCHANGED patched

\* One word of s is written. A slot keeps the first data it was given.
Write(s) ==
  \E i \in DOMAIN content[s] :
    /\ content' = [content EXCEPT ![s][i] = content'[s][i]]
    /\ registered \subseteq registered'
    /\ \A p \in registered' \ registered : p[1] = <<s, i>> /\ ~ HasData(p[1])
    /\ UNCHANGED patched

\* The callout in slot <<s, i>> is written out, patched with the data
\* registered for it, and replaced by its address.
Output(s) ==
  \E i \in DOMAIN content[s] :
    /\ content' = [content EXCEPT ![s][i] = content'[s][i]]
    /\ patched' = patched \cup {<<<<s, i>>, DataOf(<<s, i>>)>>}
    /\ UNCHANGED registered

Next == \E s \in DOMAIN content : Append(s) \/ Write(s) \/ Output(s)

Spec == Init /\ [][Next]_vars
=============================================================================
