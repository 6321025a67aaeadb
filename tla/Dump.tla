--------------------------------- MODULE Dump ---------------------------------
(***************************************************************************)
(* The memory dumper (lib/du-cached.mu4): its cache of one line, the modes *)
(* of inspect, the stack of addresses that c and r use, and dumps.         *)
(*                                                                         *)
(* Memory is seen a line at a time: its contents are the number of times   *)
(* the line was written. An address is a byte of a line. A mode shows the  *)
(* line it is at.                                                          *)
(***************************************************************************)
EXTENDS Integers, Sequences

CONSTANTS Source,     \* what |read reads: the host, an image, a target
          Host,       \* one of them
          Mode,       \* words that du-mode defines
          SourceOf,   \* SourceOf[m]: the source that m sets
          AlignOf,    \* AlignOf[m]: what the mask of m rounds addresses to
          LineSize,   \* 16
          CellSize,   \* 8: |cell
          Lines,      \* lines of the address space: 2^|addr / LineSize
          MaxWrites,  \* writes to a line, at most
          MaxDepth    \* 12, the room on the i-stack

SourceAssumption ==
  /\ Host \in Source /\ SourceOf \in [Mode -> Source]
  /\ AlignOf \in [Mode -> Nat \ {0}]
SizeAssumption ==
  /\ LineSize \in Nat \ {0} /\ Lines \in Nat \ {0} /\ CellSize \in Nat \ {0}
  /\ LineSize % CellSize = 0
BoundAssumption == MaxWrites \in Nat /\ MaxDepth \in Nat

NoLine == -1
LineNumber == 0..(Lines - 1)
Address == 0..(Lines * LineSize - 1)

VARIABLES
  memory,   \* memory[s][l]: what source s holds in line l (not in the code)
  source,   \* the source that |read reads
  cache,    \* du-cache-addr and du-cache-line
  mode,     \* du-set-mode
  a,        \* the address on the stack
  istack,   \* what c pushed: addresses and modes
  skip_by_cell,
  saved,    \* istack, preserved while dumps is executing
  limit,    \* of dumps
  pc,       \* "console", "show" or "key" (inspect), "dumps"
  shown     \* the line shown last (not in the code)

vars == <<memory, source, cache, mode, a, istack, skip_by_cell, saved, limit,
          pc, shown>>

Wrap(x) == x % (Lines * LineSize)
LineOf(x) == x \div LineSize
RoundDown(x, n) == x - (x % n)

\* see-skip and skip-advance.
Skip == IF skip_by_cell THEN CellSize ELSE LineSize
SkipAdvance(x, skip) == RoundDown(Wrap(x + skip), Skip)

Init ==
  /\ memory = [s \in Source |-> [l \in LineNumber |-> 0]]
  /\ source = Host
  /\ cache = [line |-> NoLine, data |-> 0]
  /\ mode \in Mode
  /\ a = 0 /\ istack = <<>> /\ skip_by_cell = FALSE
  /\ saved = <<>> /\ limit = 0
  /\ pc = "console"
  /\ shown = [line |-> NoLine, data |-> 0]

-----------------------------------------------------------------------------
(* The cache *)

\* du-cached: the line is read if it is not the one in the cache. Its address
\* is stored first, so that it stays if |read fails.
Cached(l) == IF cache.line = l THEN cache.data ELSE memory[source][l]
Show(l) ==
  /\ cache' = [line |-> l, data |-> Cached(l)]
  /\ shown' = [line |-> l, data |-> Cached(l)]
ReadFails(l) ==
  /\ cache.line # l /\ source # Host
  /\ cache' = [cache EXCEPT !.line = l]
  /\ UNCHANGED shown

-----------------------------------------------------------------------------
(* inspect *)

\* A mode word: -valid, the mode and its source are set, and the address is
\* rounded.
\* Mutant: the cache stays valid.
EnterKeepsCache(m, x) ==
  /\ cache' = cache
  /\ mode' = m /\ source' = SourceOf[m]
  /\ a' = RoundDown(Wrap(x), AlignOf[m])
Enter(m, x) ==
  /\ cache' = [cache EXCEPT !.line = NoLine]
  /\ mode' = m /\ source' = SourceOf[m]
  /\ a' = RoundDown(Wrap(x), AlignOf[m])

Inspect(m, x) ==
  /\ pc = "console" /\ pc' = "show"
  /\ Enter(m, x)
  /\ UNCHANGED <<memory, istack, skip_by_cell, saved, limit, shown>>

ShowLine ==
  /\ pc = "show"
  /\ \/ Show(LineOf(a)) /\ pc' = "key"
     \/ ReadFails(LineOf(a)) /\ pc' = "console"
  /\ UNCHANGED <<memory, source, mode, a, istack, skip_by_cell, saved, limit>>

\* A key that goes on inspecting at another address.
Move(x) ==
  /\ pc = "key" /\ pc' = "show"
  /\ a' = x
  /\ UNCHANGED <<memory, source, cache, mode, saved, limit, shown>>

Forward  == Move(SkipAdvance(a, Skip)) /\ UNCHANGED <<istack, skip_by_cell>>
Backward == Move(SkipAdvance(a, -Skip)) /\ UNCHANGED <<istack, skip_by_cell>>

\* 1: by cell or by line
Toggle ==
  /\ skip_by_cell' = ~skip_by_cell
  /\ Move(RoundDown(a, IF skip_by_cell THEN LineSize ELSE CellSize))
  /\ UNCHANGED istack

\* g, and c, go to ea, the cell shown last, which may hold anything.
Go(ea) == Move(ea) /\ UNCHANGED <<istack, skip_by_cell>>

Call(ea) ==
  /\ IF Len(istack) < MaxDepth
     THEN /\ istack' = Append(istack, [addr |-> a, mode |-> mode])
          /\ Move(ea)
     ELSE istack' = istack /\ Move(a)
  /\ UNCHANGED skip_by_cell

\* r: i-pop executes the mode word it saved.
ReturnFromCall ==
  /\ pc = "key" /\ pc' = "show"
  /\ IF istack = <<>> THEN UNCHANGED <<cache, mode, source, a, istack>>
     ELSE LET top == istack[Len(istack)] IN
          /\ istack' = SubSeq(istack, 1, Len(istack) - 1)
          /\ Enter(top.mode, top.addr)
  /\ UNCHANGED <<memory, skip_by_cell, saved, limit, shown>>

\* A key that a target binds to another of its modes.
SwitchMode(m) ==
  /\ pc = "key" /\ pc' = "show"
  /\ Enter(m, a)
  /\ UNCHANGED <<memory, istack, skip_by_cell, saved, limit, shown>>

Quit ==
  /\ pc = "key" /\ pc' = "console"
  /\ UNCHANGED <<memory, source, cache, mode, a, istack, skip_by_cell, saved,
                 limit, shown>>

-----------------------------------------------------------------------------
(* dumps, and what happens to memory between commands *)

Dumps(start, end) ==
  /\ pc = "console" /\ pc' = "dumps"
  /\ source' = Host
  /\ saved' = istack /\ istack' = <<>>
  /\ a' = start /\ limit' = end
  /\ UNCHANGED <<memory, cache, mode, skip_by_cell, shown>>

DumpLine ==
  /\ pc = "dumps" /\ a < limit
  /\ Show(LineOf(a))
  /\ a' = RoundDown(Wrap(a + LineSize), LineSize)
  /\ UNCHANGED <<memory, source, mode, istack, skip_by_cell, saved, limit, pc>>

DumpsDone ==
  /\ pc = "dumps" /\ a >= limit
  /\ pc' = "console"
  /\ istack' = saved /\ saved' = <<>> /\ limit' = 0
  /\ UNCHANGED <<memory, source, cache, mode, a, skip_by_cell, shown>>

\* Words executed at the console write to the host or an image, or make the
\* target run.
Write(s, l) ==
  /\ pc = "console" /\ memory[s][l] < MaxWrites
  /\ memory' = [memory EXCEPT ![s][l] = @ + 1]
  /\ UNCHANGED <<source, cache, mode, a, istack, skip_by_cell, saved, limit, pc,
                 shown>>

Next ==
  \/ ShowLine \/ Forward \/ Backward \/ Toggle \/ ReturnFromCall \/ Quit
  \/ \E x \in Address : Go(x) \/ Call(x)
  \/ \E m \in Mode : SwitchMode(m) \/ \E x \in Address : Inspect(m, x)
  \/ \E x, y \in Address : Dumps(x, y)
  \/ DumpLine \/ DumpsDone
  \/ \E s \in Source, l \in LineNumber : Write(s, l)

Spec == Init /\ [][Next]_vars

-----------------------------------------------------------------------------
(* Properties *)

\* What inspect shows is what the memory of its mode holds, although lines
\* are cached, reads fail, modes change back and forth and memory is written
\* between one inspection and the next.
InspectShowsMemory ==
  pc = "key" => shown.data = memory[SourceOf[mode]][shown.line]

==============================================================================
