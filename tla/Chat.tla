-------------------------------- MODULE Chat --------------------------------
(***************************************************************************)
(* The conversation of muforth (chat-serial-host.mu4, the words of         *)
(* common/flash.mu4 that program a flash image) with the chat firmware of  *)
(* an AVR (chat-serial.mu4, chat-loop.mu4) over a serial line.  There is   *)
(* no framing, no checksum and no timeout: a command is a byte, followed   *)
(* by its arguments, and some are answered.                                *)
(*                                                                         *)
(* A word of the host is the sequence of what it does on the line.  The    *)
(* user may kill the host between any two of these, and start it again.    *)
(* Commands are numbered as in the code.                                   *)
(***************************************************************************)
EXTENDS Integers, Sequences, SequencesExt

CONSTANTS
    Words,          \* what the user may ask for (the words below)
    MaxWords,       \* and how often; a bound for TLC
    DataSize,       \* bytes of data space, and of eeprom
    FlashSize,      \* bytes of flash for the application
    Page, Chunk,    \* bytes per page of flash, and per chunk (#chunk)
    Count,          \* a count byte is taken modulo this (256)
    Version,        \* the bytes of the version, which lie behind the flash
    Closed,         \* what flash reads as while its section is closed
    Cut             \* commands that the user may cut short of their arguments

SizeAssumption == {DataSize, FlashSize, Page, Chunk, Count} \subseteq Nat \ {0}
ChunkAssumption == Page % Chunk = 0 /\ FlashSize % Page = 0 /\ Chunk % 2 = 0

\* What the words are given: addresses of two bytes, of memory that there is, a
\* stream of no more than a count can say, and an image that fits the flash.
Byte == 0 .. 255
Address == {a \in Nat : a \div 256 \in Byte}
ReadAssumption ==
    \A w \in Words : w.word = "read" =>
        /\ w.space \in {"flash", "data", "eeprom"} /\ w.a \in Address /\ w.n \in Nat
        /\ IF w.space = "flash" THEN w.n \in 1 .. Count /\ w.a + w.n <= FlashSize
                                ELSE w.a + w.n <= DataSize
WriteAssumption ==
    \A w \in Words : w.word = "write" =>
        /\ w.space \in {"data", "eeprom"} /\ w.a \in Address /\ w.bytes \in Seq(Byte)
        /\ w.a + Len(w.bytes) <= DataSize
FlashAssumption ==
    \A w \in Words : w.word = "flash" =>
        w.n \in 1 .. FlashSize /\ w.image \in [0 .. FlashSize - 1 -> Byte]
RunAssumption ==
    \A w \in Words : w.word = "run" => w.a \in Address /\ w.dp \in Address
WordAssumption ==
    /\ \A w \in Words : w.word \in {"read", "write", "flash", "run"}
    /\ ReadAssumption /\ WriteAssumption /\ FlashAssumption /\ RunAssumption
    /\ Chunk <= Count /\ Count <= 256 /\ FlashSize <= 65536
    /\ Version \in Seq(Byte) /\ Len(Version) \in 1 .. Count
    /\ Closed \in [0 .. FlashSize - 1 -> Byte]

VARIABLES
    toPeer, toHost,         \* bytes on their way
    script, got, wanted,    \* the host: what the word has still to do, what it
                            \* has received, what it should
    running,                \* the host has not been killed
    believed,               \* what the memory should hold, if that is known
    burnt,                  \* bytes of the image, if the last word flashes one
    cmd, args,              \* the peer: the command it executes, its arguments
    z,                      \* its memory address
    memory,                 \* its data space, eeprom and flash, and whether the
                            \* section of the application is open (rww)
    buffer,                 \* the page buffer of spm
    asked                   \* the words asked for, for the bound

host == <<script, got, wanted, running, believed, burnt, asked>>
peer == <<cmd, args, z, memory, buffer>>
vars == <<toPeer, toHost, host, peer>>

Blank == 255
Erased == [w \in 0 .. Page - 1 |-> Blank]

(***************************************************************************)
(* The words of the host, as scripts                                       *)
(***************************************************************************)
\* A command byte, the bytes that follow a command, and a reply awaited.
Cmd(c) == <<[op |-> "send", b |-> c, of |-> 0]>>
With(c, bytes) == Cmd(c) \o [i \in 1 .. Len(bytes) |->
                                [op |-> "send", b |-> bytes[i], of |-> c]]
Recvs(n) == [i \in 1 .. n |-> [op |-> "recv"]]

\* >w, w>: the low byte of a word is the first on the line.
LoHi(w) == <<w % 256, w \div 256>>
\* Mutant: the high byte first.
SetAddrHiLo(a) == With(17, <<a \div 256, a % 256>>)
SetAddr(a) == With(17, LoHi(a))                                 \* cx.set-addr
GetAddr == Cmd(18) \o Recvs(2)                                  \* cx.get-addr
\* Mutant: the high byte first.
CxWriteFlashHiLo(lo, hi, c) == With(23, <<hi, lo, c>>) \o Recvs(1)
CxWriteFlash(lo, hi, c) == With(23, <<lo, hi, c>>) \o Recvs(1)

\* Mutant: what has arrived is not thrown away.
ResyncUnflushed == Cmd(0) \o Cmd(0) \o <<[op |-> "drain"]>>
Resync == Cmd(0) \o Cmd(0) \o <<[op |-> "drain"], [op |-> "flush"]>>
\* Mutant: the count is one less, as if it were tested before it is decremented.
ReadFlashLess(n) == With(20, <<n - 1>>) \o Recvs(n)
ReadFlash(n) == With(20, <<n % Count>>) \o Recvs(n)
Hello == Resync \o Cmd(16) \o ReadFlash(Len(Version))

Times(n, s) == FlattenSeq([i \in 1 .. n |-> s])
ReadSpace(a, n, space) ==
    SetAddr(a) \o IF space = "flash" THEN ReadFlash(n)
                   ELSE Times(n, Cmd(IF space = "data" THEN 21 ELSE 22) \o Recvs(1))
WriteData(a, bytes) ==
    SetAddr(a) \o FlattenSeq([i \in 1 .. Len(bytes) |-> With(24, <<bytes[i]>>)])
WriteEeprom(a, bytes) ==
    SetAddr(a) \o FlattenSeq([i \in 1 .. Len(bytes) |-> With(25, <<bytes[i]>>) \o Recvs(1)])
Run(pc, dp) == SetAddr(pc) \o With(19, LoHi(dp))
GetStatus == GetAddr
AppStop == Cmd(27) \o GetStatus

Erase(a) == SetAddr(a) \o CxWriteFlash(0, 0, 3)
Rounded(n) == 2 * ((n + 1) \div 2)                      \* 1+ 2/ words
Program(image, a, n) ==
    SetAddr(a)
    \o FlattenSeq([i \in 1 .. Rounded(n) \div 2 |->
            CxWriteFlash(image[a + 2 * i - 2], image[a + 2 * i - 1], 1)])
    \o SetAddr(a) \o CxWriteFlash(0, 0, 5)
\* Mutant: the section of the application is not opened again.
FlashEndForgotten == <<>>
FlashEnd == SetAddr(0) \o CxWriteFlash(0, 0, 17)

\* erase-program-chunk: before the first byte of a page, erase it.
ChunkAt(image, a, n) ==
    (IF a % Page = 0 THEN Erase(a) ELSE <<>>) \o Program(image, a, n)
\* flash-region: the region's whole chunks, and the rest.
Chunks(image, n) ==
    LET whole == n \div Chunk
        rest == n % Chunk
    IN  FlattenSeq([i \in 1 .. whole |-> ChunkAt(image, (i - 1) * Chunk, Chunk)])
        \o IF rest = 0 THEN <<>> ELSE ChunkAt(image, whole * Chunk, rest)
\* verify-region: the target's chunks, to be compared with the host's.
VerifyChunks(n) ==
    LET whole == n \div Chunk
        rest == n % Chunk
    IN  FlattenSeq([i \in 1 .. whole |-> ReadSpace((i - 1) * Chunk, Chunk, "flash")])
        \o IF rest = 0 THEN <<>> ELSE ReadSpace(whole * Chunk, rest, "flash")
FlashImage(image, n) == AppStop \o Chunks(image, n) \o FlashEnd \o VerifyChunks(n)

Script(w) ==
    CASE w.word = "read" -> ReadSpace(w.a, w.n, w.space)
      [] w.word = "write" -> IF w.space = "data" THEN WriteData(w.a, w.bytes)
                                                 ELSE WriteEeprom(w.a, w.bytes)
      [] w.word = "flash" -> FlashImage(w.image, w.n)
      [] w.word = "run" -> Run(w.a, w.dp) \o GetStatus

(***************************************************************************)
(* What the words are for, in one step: what they return, and what they    *)
(* make of the memory.                                                     *)
(***************************************************************************)
Returns(w, m) ==
    CASE w.word = "read" ->
            IF w.space = "flash" /\ m.rww = "closed" THEN <<>>
            ELSE [i \in 1 .. w.n |-> m[w.space][w.a + i - 1]]
      [] w.word = "run" -> LoHi(w.dp)
      [] w.word = "flash" -> [i \in 1 .. w.n |-> w.image[i - 1]]
      [] w.word = "write" -> <<>>

Effect(w, m) ==
    CASE w.word = "write" ->
            [m EXCEPT ![w.space] = [a \in DOMAIN @ |->
                IF a \in w.a .. w.a + Len(w.bytes) - 1 THEN w.bytes[a - w.a + 1] ELSE @[a]]]
      [] w.word = "flash" ->
            [m EXCEPT !.flash = [a \in DOMAIN m.flash |->
                IF a < Rounded(w.n) THEN w.image[a]
                ELSE IF a \div Page <= (w.n - 1) \div Page THEN Blank
                ELSE m.flash[a]], !.rww = "open"]
      [] OTHER -> m

(***************************************************************************)
(* The host                                                                *)
(***************************************************************************)
Init ==
    /\ toPeer = <<>> /\ toHost = <<>>
    /\ script = <<>> /\ got = <<>> /\ wanted = <<>>
    /\ running = TRUE
    /\ cmd = 0 /\ args = <<>> /\ z = 0
    /\ memory = [data |-> [a \in 0 .. DataSize - 1 |-> 0],
                 eeprom |-> [a \in 0 .. DataSize - 1 |-> Blank],
                 flash |-> [a \in 0 .. FlashSize - 1 |-> Blank],
                 rww |-> "open"]
    /\ believed = memory /\ burnt = 0 /\ buffer = Erased /\ asked = 0

Known == believed # <<>>
Prompt == running /\ script = <<>>

\* An image that is flashed while the page buffer holds words of another, whose
\* programming was killed, is mixed with them, and what the hardware makes of a
\* word of the buffer that is written twice is not known: no contents are
\* promised, but that verify-region reads what there is (VerifyTells).  Code is
\* run from flash that is not closed.
Begin(w) ==
    /\ Prompt
    /\ w.word = "run" => memory.rww = "open"
    /\ asked < MaxWords /\ asked' = asked + 1
    /\ script' = Script(w) /\ got' = <<>>
    /\ burnt' = IF w.word = "flash" THEN w.n ELSE 0
    /\ LET m == IF Known THEN believed ELSE memory
           mixed == w.word = "flash" /\ buffer # Erased
       IN  /\ wanted' = IF mixed THEN <<>> ELSE Returns(w, m)
           /\ believed' = IF mixed THEN <<>> ELSE Effect(w, m)
    /\ UNCHANGED <<toPeer, toHost, running, peer>>

Does(op) == running /\ script # <<>> /\ Head(script).op = op
Done == script' = Tail(script)

HostSends ==
    /\ Does("send")
    /\ toPeer' = Append(toPeer, Head(script).b) /\ Done
    /\ UNCHANGED <<toHost, got, wanted, running, believed, burnt, asked, peer>>

HostReceives ==
    /\ Does("recv") /\ toHost # <<>>
    /\ got' = Append(got, Head(toHost)) /\ toHost' = Tail(toHost) /\ Done
    /\ UNCHANGED <<toPeer, wanted, running, believed, burnt, asked, peer>>

\* drain: the bytes have been transmitted; here, the peer has also taken them,
\* for which the code does not wait.
Drain ==
    /\ Does("drain") /\ toPeer = <<>> /\ Done
    /\ UNCHANGED <<toPeer, toHost, got, wanted, running, believed, burnt, asked, peer>>

\* flush: throw away what has arrived.
Flush ==
    /\ Does("flush") /\ toHost' = <<>> /\ Done
    /\ UNCHANGED <<toPeer, got, wanted, running, believed, burnt, asked, peer>>

\* Arguments that the commands take.
Needs(c) == CASE c \in {17, 19} -> 2      \* set-addr, run
              [] c \in {20, 24, 25} -> 1  \* read-flash, write-data, write-eeprom
              [] c = 23 -> 3              \* write-flash
              [] OTHER -> 0

Kill ==
    /\ running /\ script # <<>>
    /\ Does("send") => Head(script).of \in Cut \cup {0}
    /\ running' = FALSE /\ believed' = <<>> /\ burnt' = 0
    /\ script' = <<>> /\ got' = <<>> /\ wanted' = <<>>
    /\ UNCHANGED <<toPeer, toHost, asked, peer>>

\* By the time muforth is loaded again, the line is quiet: the peer has done
\* what it was sent.
Working == toPeer # <<>> \/ (cmd # 0 /\ Len(args) = Needs(cmd))
Restart ==
    /\ ~running /\ ~Working
    /\ running' = TRUE
    /\ script' = Hello /\ got' = <<>> /\ wanted' = Version
    /\ UNCHANGED <<toPeer, toHost, believed, burnt, asked, peer>>

(***************************************************************************)
(* The peer                                                                *)
(***************************************************************************)

\* process: take a command; those it does not know are ignored.
Process ==
    /\ cmd = 0 /\ toPeer # <<>>
    /\ toPeer' = Tail(toPeer)
    /\ cmd' = IF Head(toPeer) \in 16 .. 27 THEN Head(toPeer) ELSE 0
    /\ UNCHANGED <<toHost, host, args, z, memory, buffer>>

RecvByte ==
    /\ cmd # 0 /\ Len(args) < Needs(cmd) /\ toPeer # <<>>
    /\ toPeer' = Tail(toPeer) /\ args' = Append(args, Head(toPeer))
    /\ UNCHANGED <<toHost, host, cmd, z, memory, buffer>>

Executes(c) == cmd = c /\ Len(args) = Needs(c)
Returned == cmd' = 0 /\ args' = <<>>
Reply(bytes) == toHost' = toHost \o bytes

\* recv-word: the first byte is the low one.
Word(lo, hi) == hi * 256 + lo

\* The version is in the boot region, behind the application's flash.
FlashAt(a) ==
    IF a < FlashSize THEN IF memory.rww = "open" THEN memory.flash[a] ELSE Closed[a]
    ELSE IF a < FlashSize + Len(Version) THEN Version[a - FlashSize + 1] ELSE Blank

VersionCmd ==
    /\ Executes(16) /\ z' = FlashSize /\ Returned
    /\ UNCHANGED <<toPeer, toHost, host, memory, buffer>>

SetAddrCmd ==
    /\ Executes(17) /\ z' = Word(args[1], args[2]) /\ Returned
    /\ UNCHANGED <<toPeer, toHost, host, memory, buffer>>

GetAddrCmd ==
    /\ Executes(18) /\ Reply(LoHi(z)) /\ Returned
    /\ UNCHANGED <<toPeer, host, z, memory, buffer>>

\* The code that is run returns to chat and leaves the address it was given.
RunCmd ==
    /\ Executes(19) /\ z' = Word(args[1], args[2]) /\ Returned
    /\ UNCHANGED <<toPeer, toHost, host, memory, buffer>>

\* One byte of the stream; the count is decremented before it is tested.
ReadFlashCmd ==
    /\ Executes(20)
    /\ Reply(<<FlashAt(z)>>) /\ z' = z + 1
    /\ LET left == (args[1] + Count - 1) % Count
       IN  IF left = 0 THEN Returned ELSE args' = <<left>> /\ UNCHANGED cmd
    /\ UNCHANGED <<toPeer, host, memory, buffer>>

ReadByte(space) ==
    /\ Reply(<<memory[space][z % DataSize]>>) /\ z' = z + 1 /\ Returned
    /\ UNCHANGED <<toPeer, host, memory, buffer>>
ReadDataCmd == Executes(21) /\ ReadByte("data")
ReadEepromCmd == Executes(22) /\ ReadByte("eeprom")

WriteByte(space) ==
    /\ memory' = [memory EXCEPT ![space][z % DataSize] = args[1]]
    /\ z' = z + 1 /\ Returned
    /\ UNCHANGED <<toPeer, host, buffer>>
WriteDataCmd == Executes(24) /\ WriteByte("data") /\ UNCHANGED toHost
WriteEepromCmd == Executes(25) /\ WriteByte("eeprom") /\ Reply(<<0>>)

\* The flash: erase, fill the page buffer, program (bits are only cleared: for
\* bytes one of which is blank or 0, the smaller one is left), open the section.
\* What is erased or programmed closes it.
Both(b, c) == IF b < c THEN b ELSE c
PageOf(a) == {b \in 0 .. FlashSize - 1 : b \div Page = a \div Page}
Reflash(f) == memory' = [memory EXCEPT !.flash = f, !.rww = "closed"]
Spm(c, lo, hi) ==
    CASE c = 3 -> /\ Reflash([a \in 0 .. FlashSize - 1 |->
                        IF a \in PageOf(z) THEN Blank ELSE memory.flash[a]])
                  /\ UNCHANGED buffer
      [] c = 1 -> /\ LET w == 2 * ((z % Page) \div 2)
                     IN  buffer' = [buffer EXCEPT ![w] = lo, ![w + 1] = hi]
                  /\ UNCHANGED memory
      [] c = 5 -> /\ Reflash([a \in 0 .. FlashSize - 1 |->
                        IF a \in PageOf(z) THEN Both(memory.flash[a], buffer[a % Page])
                                           ELSE memory.flash[a]])
                  /\ buffer' = Erased
      [] c = 17 -> buffer' = Erased /\ memory' = [memory EXCEPT !.rww = "open"]
      [] OTHER -> UNCHANGED <<memory, buffer>>

\* The low byte of the word goes to the even address.
WriteFlashCmd ==
    /\ Executes(23)
    /\ Spm(args[3], args[1], args[2])
    /\ z' = z + 2 /\ Reply(<<0>>) /\ Returned
    /\ UNCHANGED <<toPeer, host>>

\* app-start-cmd and app-stop-cmd concern the tasks (Tasker).
AppCmd ==
    /\ Executes(26) \/ Executes(27)
    /\ Returned
    /\ UNCHANGED <<toPeer, toHost, host, z, memory, buffer>>

HostSteps == HostSends \/ HostReceives \/ Drain \/ Flush \/ Restart
PeerSteps == \/ Process \/ RecvByte \/ VersionCmd \/ SetAddrCmd \/ GetAddrCmd \/ RunCmd
             \/ ReadFlashCmd \/ ReadDataCmd \/ ReadEepromCmd \/ WriteDataCmd
             \/ WriteEepromCmd \/ WriteFlashCmd \/ AppCmd

Next == (\E w \in Words : Begin(w)) \/ HostSteps \/ Kill \/ PeerSteps

Spec == Init /\ [][Next]_vars /\ WF_vars(HostSteps) /\ WF_vars(PeerSteps)

(***************************************************************************)
(* What is checked                                                         *)
(***************************************************************************)

(* At the prompt, host and peer are in step: no byte is left over that a   *)
(* later word would take for its own, and the peer waits for a command;    *)
(* also when the host has been killed and has greeted the peer again (the  *)
(* words of chat-serial-host.mu4, c.resync).                               *)
InStep ==
    Prompt => toHost = <<>> /\ (~Working => cmd = 0)

(* A word that reads returns what the peer's memory holds at these         *)
(* addresses (c.read-space: streamed from flash, a count of 256 sent as 0; *)
(* byte by byte from data), the version after c.hello, the address that    *)
(* code run on the peer left, and after flash-image has verified, the      *)
(* image, read chunk by chunk; but for flash whose section a killed        *)
(* flash-image has left closed, and images that a dirty page buffer spoils.*)
ReadsAreTrue == Prompt => IsSuffix(wanted, got)

(* What the host has written is what the memory holds, once the peer has   *)
(* caught up: writes to data, which nobody acknowledges, and flash images  *)
(* of every length, erased page by page and programmed chunk by chunk,     *)
(* whose section can be read again (c.write-data, flash-region, c.program, *)
(* c.flash-end).  Of an image that is flashed while the page buffer holds  *)
(* words of another it says nothing; VerifyTells does.                     *)
WritesLand == Prompt /\ Known /\ ~Working => memory = believed

(* What flash-image has compared with the image, at its end, is what the   *)
(* flash holds, also of an image that a dirty page buffer has spoilt, or   *)
(* that was flashed after another was killed half-way and left its section *)
(* closed: no spoilt image passes for a good one (verify-region,           *)
(* c.flash-end).                                                           *)
VerifyTells ==
    Prompt => IsSuffix([i \in 1 .. burnt |-> memory.flash[i - 1]], got)

(* No word waits for ever for a reply (recv: there is no timeout), if what *)
(* the peer is made to call returns: the code that is run, and what        *)
(* app-stop calls of the application (Tasker: of one that is only partly   *)
(* programmed this may not).                                               *)
WordsEnd == running ~> (Prompt \/ ~running)
=============================================================================
