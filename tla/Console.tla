-------------------------------- MODULE Console --------------------------------
(***************************************************************************)
(* What a user at the console meets, in one state space: lines edited with *)
(* a history (EditLine), texts divided into tokens (Source), conditional   *)
(* compilation (Conditional), and memory dumped (Dump).  They share        *)
(* nothing, so a behaviour is one of one of them, and the others stay as   *)
(* they are.                                                               *)
(***************************************************************************)
EXTENDS Conditional

CONSTANTS
    Parts,                                          \* the components it is about
    SourceFile, String, MaxNest,                                    \* Source
    Printable, Blank, Width, BufferSize, MaxEntries,                \* EditLine
    Source, Host, Mode, SourceOf, AlignOf,                          \* Dump
    LineSize, CellSize, Lines, MaxWrites, MaxDepth,
    dumping                                         \* the mode the others leave it in

VARIABLES
    part,
    source_text, reader, source_outer, token,                       \* Source
    line, idx, entries, cl_cur, screen, column, editing, entered,   \* EditLine
    memory, source, cache, mode, a, istack, skip_by_cell, saved, limit, pc, shown

ofSource == <<source_text, reader, source_outer, token>>
ofLine == <<line, idx, entries, cl_cur, screen, column, editing, entered>>
ofDump == <<memory, source, cache, mode, a, istack, skip_by_cell, saved, limit, pc, shown>>

S == INSTANCE Source WITH text <- source_text, outer <- source_outer, File <- SourceFile
E == INSTANCE EditLine
D == INSTANCE Dump

ASSUME SourceAssumption == S!TextAssumption /\ S!BoundAssumption
ASSUME EditLineAssumption == E!CharAssumption /\ E!SizeAssumption /\ E!MaxEntriesAssumption
ASSUME DumpAssumption == D!SourceAssumption /\ D!SizeAssumption /\ D!BoundAssumption

Is(p) == part = p /\ UNCHANGED part

ConsoleInit ==
    /\ part \in Parts
    /\ Init /\ E!Init /\ D!Init /\ S!Init
    /\ part # "source" => source_text = <<>>
    /\ part # "dump" => mode = dumping

ConsoleNext ==
    \/ Is("conditional") /\ Next /\ UNCHANGED <<ofSource, ofLine, ofDump>>
    \/ Is("source") /\ S!Next /\ UNCHANGED <<vars, ofLine, ofDump>>
    \/ Is("line") /\ E!Next /\ UNCHANGED <<vars, ofSource, ofDump>>
    \/ Is("dump") /\ D!Next /\ UNCHANGED <<vars, ofSource, ofLine>>

consoleVars == <<part, vars, ofSource, ofLine, ofDump>>

ConsoleSpec == ConsoleInit /\ [][ConsoleNext]_consoleVars

-----------------------------------------------------------------------------
(* The properties of the components, stated and explained there. Those of steps *)
(* are evaluated in behaviours of their component only. *)

LineIsPosition == S!LineIsPosition
ErrorLocation == S!ErrorLocation
TokensAreWords == [][part = "source" => S!WordIsToken]_ofSource
ScreenShowsLine == E!ScreenShowsLine
UpShowsOlder == [][part = "line" => E!UpIsOlder]_ofLine
InspectShowsMemory == D!InspectShowsMemory
=============================================================================
