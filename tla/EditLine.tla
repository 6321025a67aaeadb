------------------------------- MODULE EditLine -------------------------------
(***************************************************************************)
(* Command-line editing and history (lib/editline.mu4).                    *)
(*                                                                         *)
(* The line is kept twice: in the buffer cl, with its length and the index *)
(* of the cursor on the stack, and on the screen, which is only told what  *)
(* changed, with ANSI sequences. The history is a circle of entries that   *)
(* point to the previous and the next; an entry's index stands for its     *)
(* address, and 1 is cl-root.                                              *)
(***************************************************************************)
EXTENDS Naturals, Sequences

CONSTANTS Printable,   \* printable characters
          Blank,       \* what the screen shows where nothing was written
          Width,       \* cl-width: columns of stderr
          BufferSize,  \* size of cl, one more than the greatest count
          MaxEntries   \* entries of the history, at most

CharAssumption == Blank \notin Printable
SizeAssumption == Width \in Nat /\ BufferSize \in Nat \ {0}
MaxEntriesAssumption == MaxEntries \in Nat

VARIABLES
  line,     \* the first len characters of cl
  idx,      \* characters before the cursor
  entries,  \* [prev, next, text]; the first is the root
  cl_cur,   \* the entry being edited
  screen,   \* the row of the terminal: characters from column 0 on
  column,   \* of the cursor
  editing,  \* editline is executing; if not, the line is evaluated
  entered   \* the lines that were evaluated, if not empty (not in the code)

vars == <<line, idx, entries, cl_cur, screen, column, editing, entered>>

Root == 1
len == Len(line)

-----------------------------------------------------------------------------
(* The terminal. What is beyond the end of screen is blank. *)

Columns == IF Width = 0 THEN BufferSize + 2 ELSE Width
Row == 0..(Columns - 1)
BlankRow == [c \in Row |-> Blank]
Clip(c) == IF c \in Row THEN c ELSE Columns - 1

EraseEol(row, col) == [c \in Row |-> IF c < col THEN row[c] ELSE Blank]
InsertBlank(row, col) ==
  [c \in Row |-> IF c < col THEN row[c]
                 ELSE IF c = col THEN Blank ELSE row[c-1]]
DeleteChar(row, col) ==
  [c \in Row |-> IF c < col THEN row[c]
                 ELSE IF c + 1 \in Row THEN row[c+1] ELSE Blank]
Typed(row, col, text) ==
  [c \in Row |-> IF c \in col..(col + Len(text) - 1) THEN text[c - col + 1]
                 ELSE row[c]]

-----------------------------------------------------------------------------

Init ==
  /\ line = <<>> /\ idx = 0
  /\ entries = <<[prev |-> Root, next |-> Root, text |-> <<>>]>>
  /\ cl_cur = Root
  /\ screen = BlankRow /\ column = 0
  /\ editing = FALSE
  /\ entered = <<>>

\* typing: editline begins with an empty line, on a new row.
Typing ==
  /\ ~editing /\ editing' = TRUE
  /\ line' = <<>> /\ idx' = 0
  /\ cl_cur' = Root
  /\ screen' = BlankRow /\ column' = 0
  /\ UNCHANGED <<entries, entered>>

\* A key that changes the line or the place in it.
Key(new, i) ==
  /\ editing
  /\ line' = new /\ idx' = i
  /\ UNCHANGED <<entries, cl_cur, editing, entered>>

Until(i) == SubSeq(line, 1, i)
From(i) == SubSeq(line, i + 1, len)

\* cl-key-add: "over cl-width 1- u<" is true of any length if the width is 0,
\* as the least number is greater than all others.
Room == Width = 0 \/ len < Width - 1

Add(ch) ==
  /\ Room
  /\ Key(Until(idx) \o <<ch>> \o From(idx), idx + 1)
  /\ screen' = Typed(InsertBlank(screen, column), column, <<ch>>)
  /\ column' = Clip(column + 1)

MoveTo(i, c) == Key(line, i) /\ column' = c /\ UNCHANGED screen
LeftOf(c) == IF c = 0 THEN 0 ELSE c - 1

Left  == idx > 0 /\ MoveTo(idx - 1, LeftOf(column))
Right == idx < len /\ MoveTo(idx + 1, Clip(column + 1))
Home  == MoveTo(0, 0)
End   == MoveTo(len, Clip(len))

\* cl-key-del: ^D
Delete ==
  /\ idx < len
  /\ Key(Until(idx) \o From(idx + 1), idx)
  /\ screen' = DeleteChar(screen, column)
  /\ UNCHANGED column

\* cl-key-bs: ^H or DEL; left, then ^D.
\* Mutant: the screen deletes the character under the cursor.
BackspaceInPlace ==
  /\ idx > 0
  /\ Key(Until(idx - 1) \o From(idx), idx - 1)
  /\ screen' = DeleteChar(screen, column)
  /\ column' = LeftOf(column)

Backspace ==
  /\ idx > 0
  /\ Key(Until(idx - 1) \o From(idx), idx - 1)
  /\ screen' = DeleteChar(screen, LeftOf(column))
  /\ column' = LeftOf(column)

\* cl-key-erase: ^U
Erase == Key(<<>>, 0) /\ screen' = EraseEol(screen, 0) /\ column' = 0

\* >cl: the line is a copy of entry e.
Edit(e) ==
  /\ editing
  /\ cl_cur' = e
  /\ line' = entries[e].text /\ idx' = Len(line')
  /\ screen' = Typed(EraseEol(screen, 0), 0, line') /\ column' = Clip(Len(line'))
  /\ UNCHANGED <<entries, editing, entered>>

\* Mutant: the next instead.
UpToNext == Edit(entries[cl_cur].next)
Up   == Edit(entries[cl_cur].prev)
Down == Edit(entries[cl_cur].next)

\* cl>history: a copy of up to 255 characters, linked before the root.

Link(text) ==
  LET new == Len(entries) + 1
      last == entries[Root].prev
      linked == [entries EXCEPT ![Root].prev = new] IN
  Append([linked EXCEPT ![last].next = new],
         [prev |-> last, next |-> Root, text |-> text])

Capped == SubSeq(line, 1, IF len < BufferSize THEN len ELSE BufferSize - 1)

\* cl-key-ret: the line goes into the history, if it is not empty, and to
\* evaluate.
Return ==
  /\ editing /\ editing' = FALSE
  /\ IF line = <<>> THEN UNCHANGED <<entries, entered>>
     ELSE /\ Len(entries) <= MaxEntries
          /\ entries' = Link(Capped)
          /\ entered' = Append(entered, line)
  /\ column' = Clip(len + 1)
  /\ UNCHANGED <<line, idx, cl_cur, screen>>

Next ==
  \/ Typing \/ Left \/ Right \/ Home \/ End
  \/ Delete \/ Backspace \/ Erase \/ Up \/ Down \/ Return
  \/ \E ch \in Printable : Add(ch)

Spec == Init /\ [][Next]_vars

-----------------------------------------------------------------------------
(* Properties *)

TypeOK ==
  /\ line \in Seq(Printable) /\ idx \in 0..len /\ len <= BufferSize
  /\ cl_cur \in 1..Len(entries)
  /\ \A e \in 1..Len(entries) :
       /\ entries[e].prev \in 1..Len(entries)
       /\ entries[e].next \in 1..Len(entries)
       /\ entries[e].text \in Seq(Printable)
  /\ screen \in [Row -> Printable \cup {Blank}] /\ column \in Row
  /\ editing \in BOOLEAN

\* What the user sees is the line and the place in it, after any sequence of
\* keys: the sequences sent to the terminal do to the row what the code does
\* to the buffer.
ScreenShowsLine ==
  editing => /\ screen = Typed(BlankRow, 0, line)
             /\ column = idx

\* Up shows the line entered before the one that is shown, the last one
\* first, and after the oldest an empty line.
Shown(e) == IF e = Root THEN 0 ELSE Len(entered) + 2 - e
UpIsOlder ==
  Up => LET age == (Shown(cl_cur) + 1) % (Len(entered) + 1) IN
        line' = IF age = 0 THEN <<>> ELSE entered[Len(entered) + 1 - age]
UpShowsOlder == [][UpIsOlder]_vars
==============================================================================
