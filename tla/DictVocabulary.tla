---------------------------- MODULE DictVocabulary ----------------------------
(***************************************************************************)
(* The mapping under which a dictionary implements Vocabulary: the words   *)
(* of a chain are what lies between its head and the next chain head, or   *)
(* the null link.                                                          *)
(***************************************************************************)
EXTENDS Dict

Own == LET words == EntriesUpTo(Chains) IN [c \in Chains |-> words[Link(c)]]
Anchor == LET words == Own
          IN [c \in Chains |-> IF words[c] = <<>> THEN Link(c)
                               ELSE Link(words[c][Len(words[c])])]
HiddenWords == {i \in 1..Len(dict) : ~IsChain(i) /\ Hidden(i)}
Named == [word |-> last_name, chain |-> last_chain]

Voc == INSTANCE Vocabulary WITH own <- Own, anchor <- Anchor,
                                hidden <- HiddenWords, named <- Named

\* The links in the heap are lists of words, newest first: a word joins the
\* chain it was named for and no other, once, in front of all others, and
\* nothing else ever moves.
DictImplementsVocabulary == Voc!Spec
==============================================================================
