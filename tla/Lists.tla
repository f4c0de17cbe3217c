------------------------------- MODULE Lists --------------------------------
(***************************************************************************)
(* The operators on sequences that the queues and the AI runs use.         *)
(* SequencesExt has them too, under other names; its definitions, and      *)
(* those it extends, would be in the context of every proof step.          *)
(***************************************************************************)
EXTENDS Naturals, Sequences, FiniteSetsExt

LastOf(s) == s[Len(s)]
FrontOf(s) == SubSeq(s, 1, Len(s) - 1)

Occurs(s, e) == \E i \in 1 .. Len(s) : s[i] = e

\* s is the beginning of t.
Begins(s, t) == Len(s) <= Len(t) /\ s = SubSeq(t, 1, Len(s))

DropAt(s, i) == SubSeq(s, 1, i - 1) \o SubSeq(s, i + 1, Len(s))

\* LREM with a count of 1 takes one occurrence off a list.
DropFirst(s, e) == IF Occurs(s, e) THEN DropAt(s, Min({i \in 1 .. Len(s) : s[i] = e})) ELSE s
=============================================================================
