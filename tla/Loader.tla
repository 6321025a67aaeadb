-------------------------------- MODULE Loader --------------------------------
(***************************************************************************)
(* Loading files: load-file and raw-load-file (startup.mu4), the file      *)
(* words of file.c they execute, the console and the errors that end a     *)
(* load (warm, quit, ?error).                                              *)
(*                                                                         *)
(* The frames that preserve and on-exit push, and the order in which a     *)
(* return or an unwind discharges them, are those of UndoLog, which        *)
(* ReturnStack implements; the frame with which evaluate restores the      *)
(* source is in Source. The text of a file is whatever words it makes the  *)
(* interpreter execute; none of them catches errors.                       *)
(***************************************************************************)
EXTENDS Naturals, Sequences, FiniteSets

CONSTANTS File,      \* names of files
          CommandLine, \* being-loaded while the command line is interpreted
          NoFile,    \* being-loaded at the console
          Fd,        \* file descriptors
          Chosen,    \* settings that words make: some of Setup
          MaxCalls,  \* files loaded one inside another, at most
          MaxLines   \* lines read in all, at most

FileAssumption ==
  /\ {CommandLine, NoFile} \cap File = {} /\ CommandLine # NoFile
  /\ IsFiniteSet(Fd)

Setting == {"radix", "state", "current"}
Setup == [radix : {"decimal", "hex"}, state : {"interpret", "compile"},
          current : {"forth", "other"}]
ChosenAssumption == Chosen \subseteq Setup
BoundAssumption == MaxCalls \in Nat /\ MaxLines \in Nat

VARIABLES
  env,        \* being_loaded, line, radix, state, current and out_channel
  open,       \* descriptors that are open
  frames,     \* obligations, the newest last
  calls,      \* loads whose text is being interpreted, the innermost last
  pending,    \* the load that has no text yet, when pc is "open" or "read"
  pc,         \* "text", "open", "read", "return" or "unwind"
  lines_read,
  newlines,   \* lines of files read so far (not in the code)
  before      \* settings the console expects to find again (not in the code)

vars == <<env, open, frames, calls, pending, pc, lines_read, newlines, before>>

Settings(e) == [s \in Setting |-> e[s]]

\* What raw-load-file sets before it opens the file.
Fresh == [radix |-> "decimal", state |-> "interpret", current |-> "forth"]
Overlay(e, settings) ==
  [v \in DOMAIN e |-> IF v \in Setting THEN settings[v] ELSE e[v]]

Restore(var, e) == [kind |-> "restore", var |-> var, value |-> e[var]]
CloseFile(fd) == [kind |-> "close", fd |-> fd]
AddLinesRead == [kind |-> "lines"]
CheckDepth == [kind |-> "depth"]

Outside == calls = <<>>
Innermost == calls[Len(calls)]
NoLoad == [file |-> NoFile, fd |-> 0, base |-> 0]

\* warm: the command line is interpreted first. normal-text has left the
\* output on stdout.
Init ==
  /\ env = Overlay([being_loaded |-> CommandLine, line |-> 0,
                    out_channel |-> "stdout", radix |-> "", state |-> "",
                    current |-> ""], Fresh)
  /\ open = {} /\ frames = <<>> /\ calls = <<>> /\ pending = NoLoad
  /\ pc = "text"
  /\ lines_read = 0 /\ newlines = 0
  /\ before = {Fresh}

-----------------------------------------------------------------------------
(* Words that a text executes *)

\* Any words that change the settings or redirect the output.
Change ==
  /\ pc = "text"
  /\ \E settings \in Chosen, out \in {"stdout", "stderr"} :
       env' = [Overlay(env, settings) EXCEPT !.out_channel = out]
  /\ before' = IF Outside THEN {Settings(env')} ELSE before
  /\ UNCHANGED <<open, frames, calls, pending, pc, lines_read, newlines>>

\* The scanner counts a newline.
Newline ==
  /\ pc = "text" /\ ~Outside /\ newlines < MaxLines
  /\ env' = [env EXCEPT !.line = @ + 1]
  /\ calls' = [calls EXCEPT ![Len(calls)].line = @ + 1]
  /\ newlines' = newlines + 1
  /\ UNCHANGED <<open, frames, pending, pc, lines_read, before>>

\* raw-load-file begins: decimal, [ and forth.
Begin(f, saved) ==
  /\ pc = "text" /\ Len(calls) < MaxCalls
  /\ frames' = frames \o saved
  /\ env' = Overlay(env, Fresh)
  /\ pending' = [file |-> f, fd |-> 0, base |-> Len(frames)]
  /\ pc' = "open"
  /\ UNCHANGED <<open, calls, lines_read, newlines>>

RawLoadFile(f) ==
  /\ Begin(f, <<>>)
  /\ before' = IF Outside THEN Setup ELSE before

\* load-file preserves the settings. Mutant: it forgets current.
LoadFileKeepsCurrent(f) ==
  /\ Begin(f, <<Restore("radix", env), Restore("state", env)>>)
  /\ UNCHANGED before

LoadFile(f) ==
  /\ Begin(f, <<Restore("radix", env), Restore("state", env),
                Restore("current", env)>>)
  /\ UNCHANGED before

\* open-file? finds the file, and its close is registered.
\* Mutant: it is not.
OpenFileOnly ==
  /\ pc = "open"
  /\ \E fd \in Fd \ open :
       /\ open' = open \cup {fd}
       /\ pending' = [pending EXCEPT !.fd = fd]
       /\ UNCHANGED frames
  /\ pc' = "read"
  /\ UNCHANGED <<env, calls, lines_read, newlines, before>>

OpenFile ==
  /\ pc = "open"
  /\ \E fd \in Fd \ open :
       /\ open' = open \cup {fd}
       /\ pending' = [pending EXCEPT !.fd = fd]
       /\ frames' = Append(frames, CloseFile(fd))
  /\ pc' = "read"
  /\ UNCHANGED <<env, calls, lines_read, newlines, before>>

\* throw: catch returns, ?error prints where (being-loaded and the line) and
\* what, leaves the output on stdout, and unwinds.
Throw == pc' = "unwind" /\ env' = [env EXCEPT !.out_channel = "stdout"]

\* There is no such file, or no descriptor is left: ?abort.
OpenFails ==
  /\ pc = "open"
  /\ Throw /\ pending' = NoLoad
  /\ UNCHANGED <<open, frames, calls, lines_read, newlines, before>>

\* read-file maps the file; being-loaded and line are preserved and set, the
\* counting of lines and the check of the depth registered, and the text is
\* evaluated.
\* Mutant: being-loaded is set without being preserved.
ReadFileWith(saved) ==
  /\ pc = "read"
  /\ frames' = frames \o saved
  /\ env' = [env EXCEPT !.being_loaded = pending.file, !.line = 1]
  /\ calls' = Append(calls, [file |-> pending.file, base |-> pending.base,
                             line |-> 1])
  /\ pending' = NoLoad
  /\ pc' = "text"
  /\ UNCHANGED <<open, lines_read, newlines, before>>

ReadFileForgets ==
  ReadFileWith(<<Restore("line", env), AddLinesRead, CheckDepth>>)
ReadFile ==
  ReadFileWith(<<Restore("being_loaded", env), Restore("line", env),
                 AddLinesRead, CheckDepth>>)

\* read-file fails, as for a directory: it closes the file and aborts.
ReadFails ==
  /\ pc = "read"
  /\ open' = open \ {pending.fd}
  /\ Throw /\ pending' = NoLoad
  /\ UNCHANGED <<frames, calls, lines_read, newlines, before>>

\* The text ends and raw-load-file, or load-file, returns.
EndOfText ==
  /\ pc = "text" /\ ~Outside
  /\ pc' = "return"
  /\ UNCHANGED <<env, open, frames, calls, pending, lines_read, newlines, before>>

\* A word throws.
Error ==
  /\ pc = "text"
  /\ Throw
  /\ UNCHANGED <<open, frames, calls, pending, lines_read, newlines, before>>

-----------------------------------------------------------------------------
(* Discharging the newest frame *)

Newest == frames[Len(frames)]
ButNewest == SubSeq(frames, 1, Len(frames) - 1)

\* The frame is unlinked before its cleanup is executed. close-file aborts
\* if the descriptor is not open.
\* Mutant: it is unlinked only when the cleanup returns.
DischargeThenUnlink ==
  \/ /\ Newest.kind = "restore"
     /\ env' = [env EXCEPT ![Newest.var] = Newest.value]
     /\ frames' = ButNewest
     /\ UNCHANGED <<open, pc, lines_read>>
  \/ /\ Newest.kind = "lines"
     /\ lines_read' = lines_read + (env.line - 1)
     /\ frames' = ButNewest
     /\ UNCHANGED <<env, open, pc>>
  \/ /\ Newest.kind = "depth"
     /\ frames' = ButNewest
     /\ UNCHANGED <<env, open, pc, lines_read>>
  \/ /\ Newest.kind = "close"
     /\ IF Newest.fd \in open
          THEN frames' = ButNewest /\ UNCHANGED <<env, pc>>
          ELSE frames' = frames /\ Throw
     /\ open' = open \ {Newest.fd}
     /\ UNCHANGED lines_read

Discharge ==
  /\ frames' = ButNewest
  /\ \/ /\ Newest.kind = "restore"
        /\ env' = [env EXCEPT ![Newest.var] = Newest.value]
        /\ UNCHANGED <<open, pc, lines_read>>
     \/ /\ Newest.kind = "lines"
        /\ lines_read' = lines_read + (env.line - 1)
        /\ UNCHANGED <<env, open, pc>>
     \/ /\ Newest.kind = "depth"
        /\ UNCHANGED <<env, open, pc, lines_read>>
     \/ /\ Newest.kind = "close"
        /\ IF Newest.fd \in open THEN UNCHANGED <<env, pc>> ELSE Throw
        /\ open' = open \ {Newest.fd}
        /\ UNCHANGED lines_read

Cleanup ==
  /\ \/ pc = "return" /\ Len(frames) > Innermost.base
     \/ pc = "unwind" /\ frames # <<>>
  /\ Discharge
  /\ UNCHANGED <<calls, pending, newlines, before>>

Returned ==
  /\ pc = "return" /\ Len(frames) = Innermost.base
  /\ calls' = SubSeq(calls, 1, Len(calls) - 1)
  /\ pc' = "text"
  /\ UNCHANGED <<env, open, frames, pending, lines_read, newlines, before>>

\* unwind has discharged all frames, and the console goes on: after the
\* command line, it has no file.
Unwound ==
  /\ pc = "unwind" /\ frames = <<>>
  /\ calls' = <<>>
  /\ pc' = "text"
  /\ env' = [env EXCEPT !.being_loaded = NoFile, !.out_channel = "stderr"]
  /\ UNCHANGED <<open, frames, pending, lines_read, newlines, before>>

\* The command line, or the line typed, has been interpreted; typing
\* redirects the output to stderr.
Typing ==
  /\ pc = "text" /\ Outside
  /\ env' = [env EXCEPT !.being_loaded = NoFile, !.out_channel = "stderr"]
  /\ UNCHANGED <<open, frames, calls, pending, pc, lines_read, newlines, before>>

Next ==
  \/ Change \/ Newline
  \/ \E f \in File : RawLoadFile(f) \/ LoadFile(f)
  \/ OpenFile \/ OpenFails \/ ReadFile \/ ReadFails
  \/ EndOfText \/ Error
  \/ Cleanup \/ Returned \/ Unwound \/ Typing

\* The engine goes on executing the words it is executing.
Fairness == WF_vars(Cleanup) /\ WF_vars(Unwound)

Spec == Init /\ [][Next]_vars /\ Fairness

-----------------------------------------------------------------------------
(* Properties *)

AtConsole == pc = "text" /\ Outside

\* Whether files end or fail, while they are opened, read or interpreted or
\* while they are closed, all that were opened have been closed when the
\* console gets its turn, and it is not located in a file.
NothingLeftOpen ==
  AtConsole => open = {} /\ frames = <<>> /\ env.being_loaded \notin File

\* load-file gives radix, mode and current chain back as it found them,
\* whatever files did to them and however they ended; only raw-load-file
\* may leave others.
SettingsRestored == AtConsole => Settings(env) \in before

\* being-loaded and line are those of the text being interpreted, or whose
\* word is loading another: an error is located in that one.
LocatedInText ==
  pc \in {"text", "open", "read"} /\ ~Outside =>
    env.being_loaded = Innermost.file /\ env.line = Innermost.line

\* Every line of every file is counted once, however the loading ended.
LinesCounted == AtConsole => lines_read = newlines

\* Every error comes to the console, also if a cleanup fails meanwhile.
ErrorsReachConsole == pc = "unwind" ~> AtConsole
==============================================================================
