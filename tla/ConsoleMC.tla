------------------------------ MODULE ConsoleMC ------------------------------
(***************************************************************************)
(* The texts, sources and modes of the runs of Console.                    *)
(***************************************************************************)
EXTENDS Console

CONSTANTS
    LineLength, FileLength,         \* tokens of the lines and files of Conditional
    CharsOfFile, CharsOfString      \* characters of the texts of Source

\* The name that .ifdef takes is there.
TextsUpTo(length) ==
    {t \in UNION {[1 .. n -> Token] : n \in 0 .. length} :
        \A i \in 1 .. (Len(t) - 1) : t[i] = "ifdef" => t[i + 1] = "word"}
TypedLines == TextsUpTo(LineLength)
LoadedFiles == TextsUpTo(FileLength)

\* All files of up to so many characters and longer ones of words and newlines,
\* where a token can be read again on a later line; all short strings.
ShortFiles == UNION {[1 .. n -> {"x", "|", "space", "newline"}] : n \in 0 .. CharsOfFile}
                \cup [1 .. (CharsOfFile + 1) -> {"x", "newline"}]
ShortStrings == UNION {[1 .. n -> {"x", "space"}] : n \in 0 .. CharsOfString}

\* Two sources, of which the host can always be read; the mode of the target, like
\* those of the targets, masks nothing.
TwoSources == [m \in Mode |-> IF m = dumping THEN Host ELSE CHOOSE s \in Source : s # Host]
TwoAligns == [m \in Mode |-> IF m = dumping THEN CellSize ELSE 1]
=============================================================================
