--------------------------------- MODULE Dict ---------------------------------
(***************************************************************************)
(* The dictionary of muforth: dict.c, and the words of startup.mu4 that    *)
(* create names (new, create, colon and semicolon, chain, undef).          *)
(*                                                                         *)
(* An entry of the heap is a name and the link that follows it; its index  *)
(* stands for the address of its link field and 0 for the null link. The   *)
(* head of a chain is such an entry too, the hidden name "muchain", whose  *)
(* link is the word shown last: dynamic anchoring links to it.             *)
(***************************************************************************)
EXTENDS Naturals, Sequences

CONSTANTS Name,        \* names of 1 to 255 characters
          Long,        \* tokens of more than 255 characters
          core,        \* a name: that of every word of the C kernel
          Empty,       \* the empty token, read at the end of the input
          muchain,     \* the name of every chain head
          Cap,         \* Cap[t]: the first 255 characters of a long token
          Fold,        \* Fold[n]: n in lower case
          MaxEntries   \* entries in the heap, at most

NameAssumption ==
  /\ core \in Name /\ Name \cap Long = {}
  /\ Empty \notin Name \cup Long /\ muchain \notin Name /\ Empty # muchain
  /\ Cap \in [Long -> Name] /\ Fold \in [Name -> Name]
MaxEntriesAssumption == MaxEntries \in Nat

\* What the program names its words.
Token == (Name \ {core}) \cup Long \cup {Empty}

VARIABLES
  dict,        \* the entries, oldest first: hp is the end of the sequence
  last_name,   \* the entry created last
  last_chain,  \* the chain it was created on
  current,     \* the chain that receives new definitions
  match,       \* "strncmp" or "strncasecmp"
  state,       \* "interpret" or "compile"
  building,    \* the entry of the colon definition being compiled, or 0
  finished     \* entries whose definition is complete (not in the code)

dict_vars == <<dict, last_name, last_chain, current, match, state, building,
               finished>>

Here == Len(dict) + 1
Entry(name, link) == [name |-> name, link |-> link]

-----------------------------------------------------------------------------
(* Names *)

IsChain(i) == dict[i].name = muchain
Chains == {i \in 1..Len(dict) : IsChain(i)}

\* new_name caps the length at 255; a name of length 0 is hidden.
Stored(t) == IF t \in Long THEN Cap[t] ELSE t

Hidden(i) == dict[i].name \in {muchain, Empty}

\* find compares entries with tokens of 1 to 255 characters only.
Matches(i, t) ==
  /\ t \in Name /\ ~Hidden(i)
  /\ IF match = "strncmp" THEN dict[i].name = t
                          ELSE Fold[dict[i].name] = Fold[t]

Link(i) == IF i = 0 THEN 0 ELSE dict[i].link

\* The entries from j on, as the links lead to them, up to one of ends or the
\* null link. They are Len(dict) at most, if no links form a circle.
EntriesUpTo(ends) ==
  LET from[k \in 0..Len(dict)] ==
        [j \in 0..Len(dict) |->
           IF k = 0 \/ j \in {0} \cup ends THEN <<>>
           ELSE <<j>> \o from[k-1][Link(j)]]
  IN from[Len(dict)]

\* What is behind i.
Path(i) == EntriesUpTo({})[Link(i)]
Reach(c) == LET path == Path(c) IN {path[k] : k \in DOMAIN path}

\* find: the first entry behind c that matches, or 0.
Find(t, c) ==
  LET path == Path(c)
      hits == {k \in DOMAIN path : Matches(path[k], t)}
  IN IF hits = {} THEN 0 ELSE path[CHOOSE k \in hits : \A l \in hits : k <= l]

\* (unlinked-name): the new entry links to the head of the chain, which
\* does not yet link to it.
UnlinkedName(t) == Append(dict, Entry(Stored(t), dict[current].link))

\* show: the chain of the last new name links to it.
\* Mutants: the chain that is current does; or the word's own link is lost.
ShowOnCurrent(d, name, chain) == [d EXCEPT ![current].link = name]
ShowCut(d, name, chain) ==
  [d EXCEPT ![chain].link = name, ![name].link = 0]
Show(d, name, chain) == [d EXCEPT ![chain].link = name]

-----------------------------------------------------------------------------

Lex == 2
Forth == 4
Compiler == 6
Runtime == 8

\* init_dict creates the chains .lex. .forth. .compiler. and .runtime. and
\* anchors them; startup.mu4 ends by creating a word on .forth. .
DictInit ==
  /\ dict = << Entry(core, Lex), Entry(muchain, 0),
               Entry(core, 1), Entry(muchain, 9),
               Entry(core, 3), Entry(muchain, Lex),
               Entry(core, 5), Entry(muchain, Forth),
               Entry(core, 7) >>
  /\ last_name = 9 /\ last_chain = Forth
  /\ current = Forth
  /\ match = "strncmp"
  /\ state = "interpret"
  /\ building = 0
  /\ finished = {1, 3, 5, 7, 9}

Interpreting == state = "interpret" /\ Here <= MaxEntries

\* (unlinked-name) remembers the name and the chain.
New == last_name' = Here /\ last_chain' = current

\* : creates an unlinked name and enters compile mode.

Colon(t) ==
  /\ Interpreting
  /\ dict' = UnlinkedName(t)
  /\ New
  /\ state' = "compile" /\ building' = Here
  /\ UNCHANGED <<current, match, finished>>

\* -: starts a colon definition that has no name.
Nameless ==
  /\ state = "interpret"
  /\ state' = "compile" /\ building' = 0
  /\ UNCHANGED <<dict, last_name, last_chain, current, match, finished>>

\* ; ends either, leaves compile mode and executes show.
Semicolon ==
  /\ state = "compile"
  /\ dict' = Show(dict, last_name, last_chain)
  /\ state' = "interpret" /\ building' = 0
  /\ finished' = finished \cup ({building} \ {0})
  /\ UNCHANGED <<last_name, last_chain, current, match>>

\* create, and the words built on it, show the name at once.
\* Mutant: only create-hidden.
CreateHidden(t) ==
  /\ Interpreting
  /\ dict' = UnlinkedName(t)
  /\ New
  /\ finished' = finished \cup {Here}
  /\ UNCHANGED <<current, match, state, building>>

Create(t) ==
  /\ Interpreting
  /\ dict' = Show(UnlinkedName(t), Here, current)
  /\ New
  /\ finished' = finished \cup {Here}
  /\ UNCHANGED <<current, match, state, building>>

\* uncomment creates a noop word and does not show it.
Uncomment(t) ==
  /\ Interpreting
  /\ dict' = UnlinkedName(t)
  /\ New
  /\ finished' = finished \cup {Here}
  /\ UNCHANGED <<current, match, state, building>>

\* chain creates a name whose body is a chain head, anchored to another
\* chain (chained, or by hand) or to nothing (sealed).
NewChain(t, anchor) ==
  /\ Interpreting /\ Here < MaxEntries
  /\ dict' = Append(Show(UnlinkedName(t), Here, current),
                    Entry(muchain, anchor))
  /\ New
  /\ finished' = finished \cup {Here}
  /\ UNCHANGED <<current, match, state, building>>

\* forth, compiler, runtime, lex: chain definitions.
Definitions(chain) ==
  /\ state = "interpret"
  /\ current' = chain
  /\ UNCHANGED <<dict, last_name, last_chain, match, state, building, finished>>

\* undef zeroes the length of the entry that a search of current finds.
Undef(t) ==
  /\ state = "interpret"
  /\ Find(t, current) # 0
  /\ dict' = [dict EXCEPT ![Find(t, current)].name = Empty]
  /\ UNCHANGED <<last_name, last_chain, current, match, state, building,
                 finished>>

\* +case, -case
Case(m) ==
  /\ state = "interpret"
  /\ match' = m
  /\ UNCHANGED <<dict, last_name, last_chain, current, state, building, finished>>

\* A word is not defined. If a file was being loaded, load-file has preserved
\* state, and interpret mode comes back: the definition is abandoned. (It
\* has preserved current too: Definitions.) At the console it goes on.
Abandon ==
  /\ state = "compile"
  /\ state' = "interpret" /\ building' = 0
  /\ UNCHANGED <<dict, last_name, last_chain, current, match, finished>>

DictNext ==
  \/ \E t \in Token : Colon(t) \/ Create(t) \/ Uncomment(t) \/ Undef(t)
  \/ \E t \in Token, a \in {0} \cup Chains : NewChain(t, a)
  \/ Nameless \/ Semicolon \/ Abandon
  \/ \E c \in Chains : Definitions(c)
  \/ \E m \in {"strncmp", "strncasecmp"} : Case(m)

DictSpec == DictInit /\ [][DictNext]_dict_vars

-----------------------------------------------------------------------------
(* Properties *)

TypeOK ==
  /\ dict \in Seq([name : Name \cup {Empty, muchain}, link : Nat])
  /\ \A i \in 1..Len(dict) : dict[i].link \in 0..Len(dict)
  /\ last_name \in 1..Len(dict) /\ last_chain \in Chains /\ current \in Chains
  /\ match \in {"strncmp", "strncasecmp"}
  /\ state \in {"interpret", "compile"}
  /\ building \in {0, last_name}
  /\ finished \subseteq 1..Len(dict)

\* Every search comes to an end, whatever chains are anchored to which and
\* however often show relinks them: no links form a circle.
EverySearchEnds == \A c \in 1..Len(dict) : Len(Path(c)) < Len(dict)

\* What a search passes through it always will: no definition, nested,
\* abandoned or on another chain, ever unlinks a word or a chain.
NothingIsForgotten == \A c \in Chains : Reach(c) \subseteq Reach(c)'

\* The newest definition of a name is the one that is found on its chain,
\* at once, and on every chain anchored to it that does not redefine it.
NewestIsFound ==
  \A t \in Name : Create(t) =>
    \A c \in Chains :
      IF c = current THEN Find(t, c)' = Here
      ELSE current \in Reach(c) /\ Find(t, c) \in {0, Find(t, current)}
             => Find(t, c)' = Here

-----------------------------------------------------------------------------
(* What comments of the code say, and the runs refute *)

\* "the chain isn't changed to point to the new word until the new definition
\* is 'finished'" (dict.c): only finished words are found.
OnlyFinishedFound ==
  \A c \in Chains : \A i \in Reach(c) : IsChain(i) \/ i \in finished
==============================================================================
