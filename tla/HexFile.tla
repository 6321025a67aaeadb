-------------------------------- MODULE HexFile --------------------------------
(***************************************************************************)
(* Intel hex files as intel-hex.mu4 writes and reads them, with an image   *)
(* of target memory as the targets that load it set it up.                 *)
(*                                                                         *)
(* A file is a sequence of records and a record a sequence of bytes:       *)
(* count, high and low byte of the address, type, data, and a checksum.    *)
(* The colon before a record, and the digits of a byte, are left out; a    *)
(* byte has two digits of any size.                                        *)
(***************************************************************************)
EXTENDS Integers, Sequences, SequencesExt

CONSTANTS Digit,      \* values of a digit: 16 in the code
          ImageSize,  \* bytes of the image
          Chunk,      \* data bytes of a record, at most: 16 in the code
          Contents,   \* contents of an image that are written
          Region,     \* parts of target memory that are written: start and size
          Foreign     \* files of other programs, that are read

Byte == 0..(Digit * Digit - 1)
Bytes == Digit * Digit          \* 2^8

\* The memory of the host: the image, and what is allotted behind it.
Image == 0..(ImageSize - 1)
Place == 0..(ImageSize + Bytes - 2)

\* image+ wraps the address of the first byte only.
Host(a) == a % ImageSize
Places(a, n) == {Host(a) + i : i \in 0..(n - 1)}

\* The parts of a record, and the data bytes that are taken for it, whatever it counts:
\* none at the end, and two for a base.
Count(r) == r[1]
ReadAddress(r) == r[2] * Bytes + r[3]
Type(r) == r[4]
Taken(r) == CASE Type(r) = 1 -> 0 [] Type(r) \in {2, 4} -> 2 [] OTHER -> Count(r)

SizeAssumption ==
  /\ Digit \in Nat \ (0..2) /\ ImageSize \in 1..(Bytes * Bytes) /\ Chunk \in Byte \ {0}
RegionAssumption ==
  /\ Region \subseteq [start : Nat, size : Nat]
  /\ \A r \in Region : r.start + r.size <= Bytes * Bytes /\ Places(r.start, r.size) \subseteq Image
FileAssumption ==
  /\ Contents \subseteq [Image -> Byte] /\ Foreign \subseteq Seq(Seq(Byte))
  /\ \A f \in Foreign : \A k \in DOMAIN f : Len(f[k]) >= 5 /\ Len(f[k]) = Taken(f[k]) + 5

VARIABLES
  memory,     \* of the host
  ihrbase,    \* what the last segment or linear base record said
  ihrlast,    \* one past the last address written to
  input,      \* records not yet read, between m and ihrend
  file,       \* the file on the disk
  state,      \* "idle", "reading", "read" or "failed"
  \* Not in the code:
  image,      \* the places that were written to the file and what they held,
  damaged,    \* whether a digit of the file was changed, and
  before      \* memory and base when reading began

vars == <<memory, ihrbase, ihrlast, input, file, state, image, damaged, before>>

NoFile == <<>>

Fresh == {[p \in Place |-> IF p \in Image THEN c[p] ELSE 0] : c \in Contents}

Init ==
  /\ memory \in Fresh
  /\ ihrbase = 0 /\ ihrlast = 0
  /\ input = <<>> /\ file = NoFile /\ state = "idle"
  /\ image = <<>> /\ damaged = FALSE /\ before = [memory |-> memory, ihrbase |-> 0]

-----------------------------------------------------------------------------
(* Writing *)

Total(bytes) == FoldLeft(+, 0, bytes)

\* ihwaddr: the high byte first, and no more than two.
AddressBytes(a) == <<(a \div Bytes) % Bytes, a % Bytes>>

Record(tag, a, data) ==
  LET body == <<Len(data)>> \o AddressBytes(a) \o <<tag>> \o data
  IN Append(body, (-Total(body)) % Bytes)

Data(a, host, n) == Record(0, a, [i \in 1..n |-> memory[host + i - 1]])
End == Record(1, 0, <<>>)
Ext(base) == Record(4, 0, AddressBytes(base))

\* ihwchunks: as many full chunks as there are, and the rest, if there is any.
Chunks(r) ==
  LET chunk(at, n) == Data(r.start + at, Host(r.start) + at, n)
      full == r.size \div Chunk
      rest == r.size % Chunk
  IN [k \in 1..full |-> chunk(Chunk * (k - 1), Chunk)]
     \o IF rest = 0 THEN <<>> ELSE <<chunk(Chunk * full, rest)>>

Write(regions, records) ==
  /\ state = "idle" /\ file = NoFile
  /\ file' = records \o <<End>>
  /\ image' = [p \in UNION {Places(r.start, r.size) : r \in regions} |-> memory[p]]
  /\ UNCHANGED <<memory, ihrbase, ihrlast, input, state, damaged, before>>

\* gen-ihex of AVR/intel-hex.mu4 and 8051/intel-hex.mu4 writes the flash after a base
\* of 0; that of AVR/memory.mu4 writes flash and boot and no base.
WriteWithBase(flash) == Write({flash}, <<Ext(0)>> \o Chunks(flash))
WriteRegions(flash, boot) == Write({flash, boot}, Chunks(flash) \o Chunks(boot))

-----------------------------------------------------------------------------
(* Between writing and reading *)

\* The image gets other contents, as by a program that is compiled.
Fill(contents) ==
  /\ state = "idle" /\ file # NoFile
  /\ memory' = [p \in Place |-> IF p \in Image THEN contents[p] ELSE memory[p]]
  /\ UNCHANGED <<ihrbase, ihrlast, input, file, state, image, damaged, before>>

SameDigit(x, y) == x % Digit = y % Digit \/ x \div Digit = y \div Digit

\* One digit of an address, of data or of a checksum is not what was written. Counts
\* and types are not among them: they decide how much is read, so that a record
\* can be read as a shorter one that is correct.
Damage(r, i, b) ==
  /\ state = "idle" /\ ~damaged
  /\ i \notin {1, 4} /\ b # file[r][i] /\ SameDigit(b, file[r][i])
  /\ file' = [file EXCEPT ![r][i] = b] /\ damaged' = TRUE
  /\ UNCHANGED <<memory, ihrbase, ihrlast, input, state, image, before>>

-----------------------------------------------------------------------------
(* Reading *)

Read(records) ==
  /\ input' = records /\ state' = "reading"
  /\ before' = [memory |-> memory, ihrbase |-> ihrbase]
  /\ UNCHANGED <<memory, ihrbase, ihrlast, image, damaged>>

ReadFile == state = "idle" /\ file # NoFile /\ Read(file) /\ UNCHANGED file

\* A file of another program is read, before one of ours is written.
ReadForeign(f) == state = "idle" /\ file = NoFile /\ Read(f) /\ UNCHANGED file

\* ihrcheck: the sum of everything that was read has to be 0. An error is raised after
\* the record was obeyed.
Checked == state' = IF Total(Head(input)) % Bytes = 0 THEN "reading" ELSE "failed"

\* The first byte goes where image+ says, the others behind it.
Stored(r) ==
  LET host == Host(ReadAddress(r) + ihrbase)
  IN [p \in Place |-> IF p \in host..(host + Count(r) - 1) THEN r[5 + p - host] ELSE memory[p]]

ReadData(r) ==
  /\ memory' = Stored(r)
  /\ ihrlast' = ReadAddress(r) + Count(r) + ihrbase
  /\ Checked
  /\ UNCHANGED ihrbase

\* The base is the data, shifted by one digit, or by sixteen bits.
ReadSeg(r) ==
  /\ ihrbase' = (r[5] * Bytes + r[6]) * Digit
  /\ Checked
  /\ UNCHANGED <<memory, ihrlast>>
\* Mutant: it is added to the base there was.
ReadExtAdded(r) ==
  /\ ihrbase' = ihrbase + (r[5] * Bytes + r[6]) * Bytes * Bytes
  /\ Checked
  /\ UNCHANGED <<memory, ihrlast>>
ReadExt(r) ==
  /\ ihrbase' = (r[5] * Bytes + r[6]) * Bytes * Bytes
  /\ Checked
  /\ UNCHANGED <<memory, ihrlast>>

\* The record at the end takes no data, and others are skipped; reading goes on.
ReadOther(r) == Checked /\ UNCHANGED <<memory, ihrbase, ihrlast>>

ReadRecord ==
  /\ state = "reading" /\ input # <<>>
  /\ LET r == Head(input)
     IN \/ Type(r) = 0 /\ ReadData(r)
        \/ Type(r) = 2 /\ ReadSeg(r)
        \/ Type(r) = 4 /\ ReadExt(r)
        \/ Type(r) \notin {0, 2, 4} /\ ReadOther(r)
  /\ input' = Tail(input)
  /\ UNCHANGED <<file, image, damaged, before>>

\* Nothing is left between m and ihrend.
ReadEnds ==
  /\ state = "reading" /\ input = <<>> /\ state' = "read"
  /\ UNCHANGED <<memory, ihrbase, ihrlast, input, file, image, damaged, before>>

\* The next file, after one of another program: the base and the image stay.
Again ==
  /\ state = "read" /\ file = NoFile
  /\ state' = "idle" /\ input' = <<>>
  /\ UNCHANGED <<memory, ihrbase, ihrlast, file, image, damaged, before>>

\* Another muforth.
Restart ==
  /\ state \in {"read", "failed"} /\ file # NoFile
  /\ memory' \in Fresh /\ ihrbase' = 0 /\ ihrlast' = 0
  /\ state' = "idle" /\ input' = <<>> /\ file' = NoFile
  /\ image' = <<>> /\ damaged' = FALSE /\ before' = [memory |-> memory', ihrbase |-> 0]

-----------------------------------------------------------------------------
Next ==
  \/ \E r \in Region : WriteWithBase(r)
  \/ \E r, s \in Region : r.start + r.size <= s.start /\ WriteRegions(r, s)
  \/ \E c \in Contents : Fill(c)
  \/ \E r \in DOMAIN file : \E i \in DOMAIN file[r], b \in Byte : Damage(r, i, b)
  \/ ReadFile
  \/ \E f \in Foreign : ReadForeign(f)
  \/ ReadRecord \/ ReadEnds \/ Again \/ Restart

Spec == Init /\ [][Next]_vars

-----------------------------------------------------------------------------
\* A file of ours that is read to its end without an error was not damaged, and the
\* image holds what it held when the file was written, at the same addresses,
\* whatever was read and compiled in between; the rest of memory is untouched.
\* The base that a file of another program has left must not move it: only files
\* that begin with a base, or that are read when none was left, are promised that.
ReadIsWritten ==
  state = "read" /\ file # NoFile /\ (Type(file[1]) = 4 \/ before.ihrbase = 0) =>
    /\ ~damaged
    /\ \A p \in Place :
         memory[p] = IF p \in DOMAIN image THEN image[p] ELSE before.memory[p]
=============================================================================
