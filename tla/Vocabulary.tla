------------------------------ MODULE Vocabulary ------------------------------
(***************************************************************************)
(* What the dictionary of muforth promises, without links and heap: every  *)
(* chain is a list of words, the newest first, and may be anchored to      *)
(* another chain, in which a search goes on. A word is named first and     *)
(* joins its chain later, when it is revealed. Dict implements this.       *)
(***************************************************************************)
EXTENDS Naturals, Sequences

VARIABLES own,      \* own[c]: the words revealed on chain c, newest first
          anchor,   \* anchor[c]: the chain that c is anchored to, or 0
          hidden,   \* words that no search finds
          named     \* the word named last, and the chain it is to join

vars == <<own, anchor, hidden, named>>

Chains == DOMAIN own

Words == LET lists == own
         IN UNION {{lists[c][k] : k \in 1..Len(lists[c])} : c \in Chains}

\* The order in which a search of each chain looks at the words.
SearchOrder ==
  LET order[c \in Chains] ==
        own[c] \o IF anchor[c] = 0 THEN <<>> ELSE order[anchor[c]]
  IN order

\* Some chains with words, each word on one of them.
Init ==
  /\ DOMAIN anchor = Chains
  /\ \A c \in Chains : anchor[c] \in {0} \cup Chains
  /\ \A c, d \in Chains : \A k \in 1..Len(own[c]), l \in 1..Len(own[d]) :
       own[c][k] = own[d][l] => c = d /\ k = l
  /\ named.word \in Words /\ named.chain \in Chains

\* A new word is named for a chain that exists.
NameWord(w, c) ==
  /\ w \notin Words /\ c \in Chains
  /\ named' = [word |-> w, chain |-> c]
  /\ UNCHANGED <<own, anchor>>

\* The word named last joins its chain, unless it has joined it already.
Reveal ==
  /\ UNCHANGED <<named, hidden, anchor>>
  /\ own' = IF named.word \in Words THEN own
            ELSE [own EXCEPT ![named.chain] = <<named.word>> \o @]

\* A word is named and revealed at once; it may be the name of a new chain,
\* whose head follows it.
Define(w, c) ==
  /\ w \notin Words /\ c \in Chains
  /\ named' = [word |-> w, chain |-> c]
  /\ LET mine == [own EXCEPT ![c] = <<w>> \o @]
         extend(f, x) == [d \in DOMAIN f \cup {w+1} |->
                            IF d = w+1 THEN x ELSE f[d]]
     IN \/ own' = mine /\ anchor' = anchor
        \/ /\ own' = extend(mine, <<>>)
           /\ \E a \in {0} \cup Chains : anchor' = extend(anchor, a)

\* A word is hidden for good.
Hide == hidden \subseteq hidden' /\ UNCHANGED <<named, anchor, own>>

Next ==
  \/ Hide
  \/ Reveal
  \/ LET w == named'.word
         c == named'.chain
     IN (NameWord(w, c) \/ Define(w, c)) /\ hidden' \in {hidden, hidden \cup {w}}

Spec == Init /\ [][Next]_vars
==============================================================================
