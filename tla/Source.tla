-------------------------------- MODULE Source --------------------------------
(***************************************************************************)
(* Reading source text: token, parse, untoken and the accounting of line   *)
(* numbers (interpret.c), the comment word | and the nesting of sources by *)
(* evaluate and raw-load-file (startup.mu4).                               *)
(*                                                                         *)
(* A text is a sequence of characters; a position is the number of         *)
(* characters before it, which stands for the pointer.                     *)
(***************************************************************************)
EXTENDS Naturals, Sequences, FiniteSets

CONSTANTS File,      \* texts of files
          String,    \* texts that are evaluated, of one line
          MaxNest    \* sources suspended at a time, at most

Char == {"x", "|", "space", "tab", "newline"}
Spaces == {"space", "tab", "newline"}

TextAssumption ==
  /\ File \subseteq Seq(Char) /\ File # {}
  /\ String \subseteq Seq(Char \ {"newline"})
BoundAssumption == MaxNest \in Nat

VARIABLES
  text,    \* the source: what lies before end
  reader,  \* first, lineno, and what the last scan captured (of skipped
           \* white space, which nothing here reads, only the lines count)
  outer,   \* the suspended sources, the outermost first
  token    \* the token being consumed, as [at, length] (not in the code)

vars == <<text, reader, outer, token>>

Piece(at, end) == [at |-> at, length |-> end - at]
End(piece) == piece.at + piece.length

Newlines(t, i, j) == Cardinality({k \in (i+1)..j : t[k] = "newline"})

\* The first position from i on where a character of S stands, or the end.
StopAt(t, i, S) ==
  LET stops == {k \in i..(Len(t) - 1) : t[k+1] \in S}
  IN IF stops = {} THEN Len(t) ELSE CHOOSE k \in stops : \A l \in stops : k <= l

-----------------------------------------------------------------------------
(* The scanner; r is the reader, t the text *)

Start(lineno) ==
  [first |-> 0, lineno |-> lineno, parsed_lineno |-> lineno,
   parsed |-> Piece(0, 0), trailing |-> Piece(0, 0)]

\* skip passes over white space and counts its newlines.
Skip(t, r) ==
  LET n == StopAt(t, r.first, Char \ Spaces)
  IN [r EXCEPT !.first = n, !.lineno = @ + Newlines(t, r.first, n)]

\* scan goes up to a delimiter, consumes it, and counts the newlines of both.
\* Mutants: a delimiter of white space is only the blank; a newline that
\* delimits a token is not counted.
ScanOnlyBlanks(t, r, delim) ==
  LET n == StopAt(t, r.first, {delim})
      end == IF n < Len(t) THEN n + 1 ELSE n
  IN [r EXCEPT !.parsed = Piece(r.first, n), !.trailing = Piece(n, end),
               !.first = end, !.parsed_lineno = r.lineno,
               !.lineno = @ + Newlines(t, r.first, end)]

ScanMissesDelimiter(t, r, delim) ==
  LET n == StopAt(t, r.first, IF delim = "space" THEN Spaces ELSE {delim})
      end == IF n < Len(t) THEN n + 1 ELSE n
  IN [r EXCEPT !.parsed = Piece(r.first, n), !.trailing = Piece(n, end),
               !.first = end, !.parsed_lineno = r.lineno,
               !.lineno = @ + Newlines(t, r.first, n)]

Scan(t, r, delim) ==
  LET n == StopAt(t, r.first, IF delim = "space" THEN Spaces ELSE {delim})
      end == IF n < Len(t) THEN n + 1 ELSE n
  IN [r EXCEPT !.parsed = Piece(r.first, n), !.trailing = Piece(n, end),
               !.first = end, !.parsed_lineno = r.lineno,
               !.lineno = @ + Newlines(t, r.first, end)]

\* token: skip, then scan for white space.
ReadToken(t, r) == Scan(t, Skip(t, r), "space")

\* untoken: back to the token's first character and the line it stands on.
BackUp(r) == [r EXCEPT !.first = r.parsed.at, !.lineno = r.parsed_lineno]

IsBar(t, piece) == piece.length = 1 /\ t[piece.at + 1] = "|"

\* The rest of the line after | is a comment if a space follows the |.
Comment(t, r) ==
  IF r.trailing.length = 1 /\ t[r.trailing.at + 1] = "space"
  THEN Scan(t, r, "newline") ELSE r

-----------------------------------------------------------------------------

Init ==
  /\ text \in File
  /\ reader = Start(1)
  /\ outer = <<>>
  /\ token = Piece(0, 0)

\* interpret reads the next token and consumes it: it is a word like any
\* other, which does nothing here, or | .
Word ==
  /\ LET r == ReadToken(text, reader) IN
       /\ r.parsed.length > 0 /\ ~IsBar(text, r.parsed)
       /\ reader' = r /\ token' = r.parsed
  /\ UNCHANGED <<text, outer>>

\* The comment word: it throws away the rest of the line (the address of an
\* empty delimiter that it leaves on the data stack is not modelled).
Bar ==
  /\ LET r == ReadToken(text, reader) IN
       /\ IsBar(text, r.parsed)
       /\ reader' = Comment(text, r) /\ token' = r.parsed
  /\ UNCHANGED <<text, outer>>

\* A word other than | is being consumed.
Consuming == token.length > 0 /\ ~IsBar(text, token)

\* The word being consumed parses up to a delimiter, as ( and z" do.
Parse(delim) ==
  /\ Consuming
  /\ reader' = Scan(text, reader, delim)
  /\ UNCHANGED <<text, outer, token>>

\* The word being consumed reads one more token, and may read it again.
MoreToken ==
  /\ Consuming
  /\ reader' = ReadToken(text, reader)
  /\ UNCHANGED <<text, outer, token>>

Untoken ==
  /\ Consuming
  /\ reader' = BackUp(ReadToken(text, reader))
  /\ UNCHANGED <<text, outer, token>>

\* raw-load-file and evaluate suspend the source; raw-load-file preserves
\* line, too, and starts with line 1.
Suspend(line) ==
  /\ Consuming
  /\ Len(outer) < MaxNest
  /\ outer' = Append(outer, [text |-> text, first |-> reader.first,
                             line |-> line, token |-> token])

Load(t) ==
  /\ Suspend(reader.lineno)
  /\ text' = t /\ reader' = [reader EXCEPT !.first = 0, !.lineno = 1]
  /\ token' = Piece(0, 0)

Evaluate(t) ==
  /\ Suspend(0)
  /\ text' = t /\ reader' = [reader EXCEPT !.first = 0]
  /\ token' = Piece(0, 0)

\* interpret reads an empty token at the end of the source: evaluate's
\* cleanup sets the source back, preserve's sets line back.
EndOfSource ==
  /\ outer # <<>>
  /\ LET r == ReadToken(text, reader)
         back == outer[Len(outer)] IN
       /\ r.parsed.length = 0
       /\ text' = back.text /\ token' = back.token
       /\ reader' = [r EXCEPT !.first = back.first,
                       !.lineno = IF back.line = 0 THEN @ ELSE back.line]
  /\ outer' = SubSeq(outer, 1, Len(outer) - 1)

Next ==
  \/ Word \/ Bar \/ MoreToken \/ Untoken \/ EndOfSource
  \/ \E d \in {"newline", "x"} : Parse(d)
  \/ \E t \in File : Load(t)
  \/ \E t \in String : Evaluate(t)

Spec == Init /\ [][Next]_vars

-----------------------------------------------------------------------------
(* Properties *)

InFile == outer = <<>> \/ outer[Len(outer)].line # 0

\* line is the line that the next character stands on, whichever way tokens,
\* comments and strings were read and read again, and whatever was loaded or
\* evaluated in between.
LineIsPosition ==
  InFile => reader.lineno = 1 + Newlines(text, 0, reader.first)

\* Tokens are what white space separates: nothing but white space is passed
\* over between them, and no token is cut short.
WordIsToken ==
  Word =>
    /\ \A k \in (reader.first+1)..token'.at : text[k] \in Spaces
    /\ \A k \in (token'.at+1)..End(token') : text[k] \notin Spaces
    /\ End(token') < Len(text) => text[End(token')+1] \in Spaces
    /\ reader'.first \in {End(token'), End(token') + 1}
TokensAreWords == [][WordIsToken]_vars

-----------------------------------------------------------------------------
(* What comments of startup.mu4 say, and the runs refute *)

\* "so we should get more accurate error locations" (about raw-load-file):
\* @line, which .where prints, is the line of the token being consumed, or
\* of one that the word it calls has read since.
ErrorLocation ==
  InFile /\ token.length > 0 =>
    reader.parsed_lineno \in (1 + Newlines(text, 0, token.at))..reader.lineno
==============================================================================
