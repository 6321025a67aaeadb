# Formal models of muforth

muforth is a Forth for microcontroller work. A small C kernel (`src/src`)
provides an indirect-threaded engine, a dictionary, a tokenizer with a first
interpreter, arithmetic, and wrappers of file and terminal calls. The language
itself is built on top of it by `src/mu/startup.mu4`: compiler words,
return-stack frames, catch and throw, number conversion, file loading and the
command loop. Libraries in `src/mu/lib` add command-line editing, a memory
dumper and others; `src/mu/target` holds assemblers, cross compilers and
protocols for microcontrollers.

This directory holds TLA+ models of that code, the configurations with which
TLC checks them and the proofs that TLAPS checks about them. `PROJECT.json`
lists components, runs, the lines behind each definition, the mutants that show
each property can fail, findings, hazards and theorems. To run one:

    tlc -config Console.cfg ConsoleMC.tla
    tlapm LoaderProofs.tla

## The system

The host is one process and one thread. What makes its code hard is not
concurrency but control that leaves its textual order - an error may end any
word at any point, and cleanup words run on the way - and state that is kept
twice, or kept as less than one would think is needed: pointers into a stack
whose cells are dropped, one slot for "the last name", one number for a nest of
conditionals, a line number that is counted while text is consumed, a screen
that is only told what changed, a cache of memory that others write. Around it there is concurrency: devices are
unplugged while they are searched for, the host is killed in the middle of a
conversation with a board, and the firmware of the board switches between tasks that
a timer interrupt wakes, while one of them replaces the program of the others.

| component | state | operations | used by |
|---|---|---|---|
| return stack (startup.mu4:670-881) | R stack, `fp`, `cf`, `unwinding` | preserve, on-exit, room, catch, throw, unwind, and every return through a frame | loader, console, dumper, target code |
| inner interpreter (engine-itc.c), control structures (startup.mu4:302-337) | IP, W, RP, the activations of `mu_execute` on C's stack | call, exit, branches, loops, execute; if, begin, for, do | everything |
| stack, memory and arithmetic words (kernel.c) | SP, heap | one step each | everything |
| dictionary (dict.c, startup.mu4:40-130, 195-300, 405, 1050-1080) | entries in the heap, chains, `current`, last name and last chain | find, new, show, create, : ; -: , chain, undef | interpreter, compilers, conditionals |
| source text and tokens (interpret.c, startup.mu4:191, 364) | first, end, line, last token and its line | token, parse, untoken, comments, evaluate | interpreter, loader, error messages |
| conditional compilation (startup.mu4:630-668) | a count | .if .ifdef .else .then, eat | the text that is loaded |
| file loader and console (startup.mu4:1376-1440, 1880-1936, file.c, error.c) | open files, name and line, radix, mode, current chain, output | load-file, raw-load-file, errors, quit, warm | the user |
| command-line editor (lib/editline.mu4) | buffer, length, cursor, row on the screen, history | the keys | the console |
| memory dumper (lib/du-cached.mu4) | cached line, mode, address, stack of addresses | inspect and its keys, dumps | the user, target code |
| numbers (startup.mu4:889-1007, 1187-1266) | radix, dpl, ?sep | conversion in both directions | interpreter, output |
| channels and strings (startup.mu4:1080-1185) | output column, width | type, ?wrap, -trailing | output |
| USB enumeration (usb-linux.c, usb-netbsd.c, usb-freebsd.c) | open files, the directory being read | usb-find-device, hid-find-device | target code |
| files (file.c) | descriptors | open, read, write, close | loader, libraries, target code |
| terminals, select, time (tty.c, select.c, pty.c, time.c) | the operating system's | wrappers | libraries, target code |
| checksums (crc16.c, lib/crc16.mu4) | which function is used | sum a byte or a buffer | target code |
| hex files (lib/intel-hex.mu4) | `ihrbase`, the image | write and read records | target code |
| tasks of an AVR (mu/target/AVR) | status bytes, the ring of tasks, timer, watchdog | nap, wake, yield, app-start, app-stop | the application on the board |
| chat with an AVR (mu/target/AVR) | what either side expects next, memories, the page buffer | read, write, run, flash, verify, resync | the user, through the dumper and the flash words |
| other formats, colours, multiple precision | none | conversion | libraries |
| target compilers, other boards (mu/target) | images | assemble, compile, load, talk | the user |

How they interact. The console reads a line through the editor (a deferred
word, `typing`), and hands it to the interpreter with `evaluate`. The
interpreter takes tokens, looks them up on chains of the dictionary, and
executes or compiles them through the inner interpreter. Loading a file is a
word like any other: it pushes frames on the return stack that restore the
settings, close the file and put back the source text, and evaluates what it has
read. Errors, from C (`abort_zmsg`, error.c) or Forth (`?abort`), end up in `throw`,
which returns through the newest catch frame; the console, which pushed it,
prints the message with the location of the last token and unwinds the frames.
An error in a primitive executes `throw` in a new activation of `mu_execute`, on top of
the one that is executing the primitive. Code for a board is compiled into an image,
and sent over a serial line to the chat task of the board, one byte per command, or
written to a hex file.

Every component and the reason why it is or is not modelled is under
`components` in `PROJECT.json`; what can go wrong in them, line by line, and the
property that would notice, under `hazards`.

### What makes each component correct

- Return stack: `fp` and `cf` always point into live frames of the right kind;
  a registered cleanup runs exactly once, however its word is left; a preserved
  variable has its value back after its word, by return or by unwind; an error
  reaches the nearest handler that is still active.
- Dictionary: a search finds the newest word of a name on the chain or behind
  its anchor; it ends; a word that is being defined is not found; nothing is
  lost.
- Source text: line numbers are those of the text, also after re-reading and
  nesting, and errors are located there; a comment ends where its line does.
- Conditionals: a word is executed if and only if all conditions it is in
  select the text.
- Loader and console: what was opened is closed; settings, name and line
  are put back; every error gets the user back to the console.
- Editor: screen and buffer agree; the line fits both; the history is in order.
- Dumper: what is shown is what the memory holds; moving back undoes moving
  forward.
- Numbers: what looks like a number is one, with the value it shows, and nothing
  else is; radix and dpl are left right; what is written reads back.
- Arithmetic: results are cells; division floors; products do not depend on signs.
- Control structures: the branches that are compiled do what the text says; every
  activation of the interpreter ends, and in the right place.
- USB: a device that is there is found; nothing is left open by a search.
- Files: a write that is interrupted goes on where it stopped.
- Checksums: the same sum, that of the standard, by whichever function and in however
  many calls.
- Hex files: what is read without an error is what was written.
- Tasks: no wakeup is lost; chat answers whatever the application does; an application
  that is being replaced does not run.
- Chat: host and board stay in step, also after the host was killed; what is read is
  what is there, what is written arrives; every word ends.

## Modules

| module | models | composed with |
|---|---|---|
| UndoLog | what return-stack frames promise, without a stack | abstract specification |
| ReturnStack | frames, catch, throw, unwind | |
| ReturnStackUndoLog | the obligations that the frames of ReturnStack stand for | ReturnStack implements UndoLog |
| Vocabulary | what chains promise, without links | abstract specification |
| Dict, DictVocabulary | heap entries, links, anchors, show | Dict implements Vocabulary |
| Source | tokens, lines, comments, nested sources | |
| Conditional | .if .else .then and eat over nested texts | |
| EditLine | the editor's keys, the screen, the history | |
| Dump | the cache, inspect, dumps | |
| Console, ConsoleMC | | Conditional, Source, EditLine, Dump |
| Numbers | numbers to text and text to numbers | |
| Cells | arithmetic of kernel.c | |
| Crc16 | three functions of a CRC | |
| HexFile | writing and reading hex files | |
| Arithmetic, ArithmeticMC | | Cells, Numbers, Crc16, HexFile |
| Structured | what control structures mean, without branches or a stack | reference for Engine |
| Engine, EngineMC | compiling control structures, running them in nested activations | runs against Structured |
| Loader | load-file, the console, errors | uses the obligations of UndoLog |
| Usb | searches for devices, closing them, writing to them | |
| Loading, LoadingMC | | Loader, DictVocabulary |
| UsbMC | | Usb |
| Tasker | tasks, timer interrupt and watchdog of the firmware | |
| Chat | host and firmware over a serial line | |
| Target, TargetMC | | Tasker, Chat |
| *X*Proofs | theorems about X | |

An MC module gives constants their values. Four modules (Loading, Console, Arithmetic and
Target) hold several components that share no state: a behaviour is one of one component,
chosen at first, and the others stay as they are. This keeps a run for each part of
the system without multiplying their states. ReturnStackUndoLog and DictVocabulary
state the refinements, with the mapping of the variables of the abstract specification.

**ReturnStack** keeps the stack as a sequence of tagged cells; an index stands
for an address and 0 for null. An action is one Forth word: Call and
ExitToCaller are `mu_do_colon` and `exit`; Preserve, OnExit and Room push a
frame with `link`; a return comes to whatever is on top, which is the address of
its caller, of `remove` (ExitToRemove), of the code behind `unlink`
(ExitToUnlink) or of `catch` (ExitToCatch); Throw returns through `cf` and
leaves everything above; Unwind, UnwindFrame and UnwindDone are the loop of
`unwind`. A cleanup word is a word like any other in the middle of an unlink: it may
call, bind, catch or throw. The program is any sequence of at most MaxWords words, with the discipline
that Forth demands: data on the return stack are removed before a return.

**Dict** keeps the heap as a sequence of entries with a name and a link; the head of
a chain is such an entry, so that anchoring one chain to another is a
link to its head, as in the C code. Tokens longer than 255 characters, the
empty token at the end of the input, and names that differ in case only are
model values. Bodies of words are left out.

**Source** keeps texts as sequences of characters of five kinds and the reader as
`first`, `lineno` and the last token with the line it began on. Its actions are
token, parse, the comment word, untoken, evaluate, loading a file, and the end of a
source; any of them may follow any other.

**Conditional** keeps a text as a sequence of kinds of tokens and reads one token
a step. `nesting` is the single number of the code, or Interpreting; the nest of
conditions the text is really in is a history variable that only properties
look at.

**Loader** has one action for each step after which something may fail: open,
read, every line of the text, each cleanup, the return and the unwind. Frames
are obligations on a log, as UndoLog describes; ReturnStack shows that the
stack keeps such a log.

**EditLine** has one action per key. It models ANSI sequences by what they do to a row of
the terminal (insert, delete, move, clear), and the history with its prev and
next links and its root.

**Dump** keeps memory as a number of writes per line, with sources that may be
read or fail, and follows the address, the mode and the stack of addresses
through keys of inspect and steps of dumps.

**Numbers** reads a token one character a step, as `>number` and the loop of
`number?` do, and writes a number one digit a step, as `#sep` does; what was
written may be read next. Radix, dpl and +sep persist from one number to the next.

**Cells** keeps a data stack; its words replace the cells on top. Widths are
constants. Sums and products wrap and signed right shifts shift copies of the
sign in, as the compilers with which muforth is built do. The comparison in BIGSHIFT
is unsigned because `sizeof` has as many bits as a cell on 64-bit hosts, which
are the hosts modelled. A division that the processor traps ends the process,
as it does when tried.

**Engine** first compiles a text, token by token, with the marks and destinations of
unfinished structures on a data stack, and then runs it: one action per instruction,
with the return stack as in the code, where `do` leaves its limit and index such that
the loop ends on signed overflow, and with a stack of activations, each of which
knows the height of the return stack at which it ends. `RTOP += TOP` overflows a signed
integer, which C leaves undefined; the builds let it wrap, and so does the model.
`execute` and an error call `mu_execute` anew. **Structured** gives the same texts a
meaning by recursion on their structure.

**Usb** has one search with the differences of four systems as conditions: usbfs reads
directories of buses, hidraw asks each node for its ids, ugen opens a device again for
its descriptors, usbdev sets a time-out. Devices come and go, and any call fails,
between any two steps, the directories too. The retry loop of `write_carefully` is in
the same module; reading from a device is not modelled.

**Tasker** takes one step for what an interrupt cannot divide, and reads and writes
the status byte of a task separately where the firmware does. The application's state is
whether its flash is whole or being programmed; tasks may hang, with interrupts on
or off; the watchdog resets the chip. app-stop is three steps, because it first calls the
application through its RESET vector (AppStop, AppReturns) and only then disables interrupts,
takes the tasks out of the ring and turns off the watchdog (Stop). An application that is whole
does nothing there and returns. What one does that is partly programmed is not known: its
vector may be blank or unreadable and is then not called; when called, it may return, with
interrupts on or off, or never (`lost`).

**Chat** makes a word of the host the sequence of bytes it sends and waits for, with
the line as two queues and the firmware as a process that takes a command and then its
arguments. Words are two bytes, the low one first, which >w and w> of the host and recv-word
and send-word of the firmware each do in their own way (LoHi, Word). Flash is erased and
programmed through the page buffer of `spm`, which closes its section to reading until
c.flash-end opens it; what is read in between is not specified by the hardware and is any fixed
contents here (`Closed`). A word of the page buffer that is written twice without programming keeps
what was written last; the hardware promises nothing, and no property depends on it, since an image
that finds the buffer in use is promised nothing (`mixed` in Begin) but that its verification tells what
there is. Code is assumed to be run from flash that is open. The user may kill the host between any two bytes and start it again, which
greets the board with c.resync; `Cut` names the commands whose arguments may be
cut short. Bytes are never lost: nothing in the code would notice if they were.

**Crc16** takes words to be sets of bits, so that exclusive or is symmetric difference
and theorems about it are about sets. **HexFile** writes and reads records of an image
with digits of any size; what is left of `ihrbase` by an earlier file stays.

## Runs

Each run is a question; its answer is under `about` in `PROJECT.json`. Bounds are chosen
so that every action fires and each mutant is found.

| run | bounds | why they suffice |
|---|---|---|
| ReturnStackSafety | 6 words, one variable of two values, one object, rooms of one local | a catch, two frames above it, a throw in a cleanup, a second catch and a second unwind take six; two bindings of one variable, a catch, a throw and an assignment take five |
| Loading: Dict | 11 entries, nine of them the kernel's; three names, one too long | two words, or a chain, beyond those of the four chains of the kernel, which are already anchored to each other: a redefinition on a chain in front of, or behind, the first |
| EngineLoops | cells of 3 bits; seven families of programs (EngineMC), 80 numbers written | every pair of limit and index, every step and early leave; loops in loops; a word that fails, escapes or exits from a loop in a loop of the word that executed it |
| Console: Conditional | lines of 5 tokens, files of 2, one level | a nested condition with both its .else and its .then inside a skipped one |
| Console: Source | texts of 3 characters (4 of words and newlines), strings of 1, one level | a token between two newlines, in a text in a text |
| Console: EditLine | 4 columns, 2 characters, 3 history entries | a full line, and a history with something on both sides |
| Console: Dump | 2 lines of 4 bytes, 2 sources, 1 write | both ends of memory, and a stale line of each source |
| Arithmetic: Cells | cells of 4 bits, all 256 pairs | both signs, both ends, counts below, at and above the width |
| Arithmetic: Numbers | tokens of 5 of ten characters; 17 numbers in cells of 16 bits | a radix, a sign, and two digits about a separator; two points; groups of three and four digits, both ends of a cell |
| Arithmetic: Crc16 | messages of 3 of nine bytes, two starting values, two buffers | the polynomial of 16 bits has gone round once after two bytes; functions and ways of calling mixed |
| Arithmetic: HexFile | an image of 8 bytes, chunks of 2, digits below 4 | a chunk that is not full, addresses that wrap, a base left by another file, each digit of data, address and checksum damaged |
| Loading: Loader | two files, two levels, two descriptors, one or two lines | a load that fails in a load, or in the cleanup of one, with the settings changed before and in between |
| UsbSearch | three nodes on two buses, two ids, two searches, transfers of 3 bytes | a device found after one that fails, one that is gone between two steps, a second search after a leak; a write cut twice |
| Target: Tasker | status bytes of 2 bits, two buttons and the heart, overflows of 6 and 2 | a byte that comes round; wakeups of two tasks at once; each way for the watchdog to bite or not; app-stop for an application that is whole, and for a part of one |
| Target: Chat | 3 words of nine; data of 4 bytes, flash of two pages of two chunks, counts modulo 8 | a word cut short, the greeting and another word; an image that ends within a chunk; two images with a page in common; an image after one that was killed with words in the page buffer and the section closed |

Runs that end in a violation check what a comment, a test or a document
says, and show that the code does something else:

| run | what the code does |
|---|---|
| ReturnStackRethrow | an error thrown again by its handler comes back to that handler (the test in mu/test expects otherwise) |
| DictUnfinished | the `;` of a nameless word shows a word whose definition had failed |
| SourceWhere | an error after a nested load is located at a line of the nested file |
| UsbHighIds | an id with its highest bit set is never found among HID devices |
| ChatResync | a host that is killed within the arguments of some commands does not get into step again |

Deadlock is checked in the other runs, ReturnStackRethrow and UsbHighIds included. It is
not in EngineLoops, where programs end; in Console and SourceWhere, where
the outermost text ends and there is nothing left to read; and in Target and
ChatResync, where the words that the user asks for are bounded.

### Fairness

Five modules state it, for the properties about what happens in the end.

- ReturnStack (FairSpec, for EveryCleanupRuns): weak fairness of the engine as a whole,
  a single thread that always executes the next word. It does not assume that a program
  ever returns; MaxWords bounds the words it may choose, after which it can but return.
- Engine (ProgramEnds): the same, weak fairness of Next.
- Loader (ErrorsReachConsole): weak fairness of cleanups and of the end of an unwind,
  loops of the program with nothing to wait for. Reading lines and opening files are not
  assumed to happen.
- Tasker (ChatAnswers): weak fairness of the processor, of the timer and of the watchdog,
  which are clocked. A task that hangs takes its own steps for ever.
- Chat (WordsEnd): weak fairness of either side taking what the line has for it. The user
  need not ask for anything, and need not kill anything. What the peer is made to call is
  taken to return: the code of run, and the application that app-stop calls, which one that is
  partly programmed may not.

### Divergences met while modelling

Five are findings with a run of their own, above. The others follow from one or two lines
of the code, which the models translate as they are; they are listed here without a run.

- An error raised before `warm` pushes the first catch frame, but after it stored
  throw in `'abort` (the banner failing to be written), executes `throw` with `cf` = 0,
  where error.c:20 says of `die` "only called if we haven't set up a catch frame"
  (ThrowUncaught).
- `unwind` turns `unwinding` off when it is done, without restoring what it found
  (startup.mu4:800): an unwind in a cleanup word leaves it off for the cleanups of the
  outer unwind, which "could be tested by the various cleanup routines"
  (startup.mu4:786-788) (UnwindDone).
- `init_dict` anchors `.compiler.` to `.lex.` (dict.c:503), where dict.c:372 says
  ".compiler. is a sealed chain" (Init of Dict).
- `uncomment` creates the delimiter and does not show it (startup.mu4:523), where 516-517
  says "the delimiter becomes a noop" (Uncomment).
- A `|` that is the last character of a text leaves the address of its missing
  delimiter on the data stack (startup.mu4:364).
- `mu_read_file` closes a file that it cannot map (file.c:187), and the cleanup that
  raw-load-file registered before closes it again, which raises a second error during
  the unwind (ReadFails, Cleanup). ErrorsReachConsole holds all the same.
- raw-load-file "also redirects the console output to stderr" (startup.mu4:1404-1405), but
  does not touch the channel: a file of the command line writes to stdout.
- `cl-key-add` tests the length of the line against the terminal's width, never against
  the 256 bytes of the buffer (editline.mu4:71, 153), so that a terminal of more than 257
  columns, or of width 0, overruns it (SizeAssumption assumes a narrower one).
- `dumps` does not throw the cached line away (du-cached.mu4:356), though the cache
  is "invalidated by any memory write debug command" (52-54): after a write, dumps may show
  the line as it was (DumpLine). inspect, which does, is checked.
- The comment at startup.mu4:909-912 says that a bare / is "happily parsed as a number":
  since `digits` has to convert one before each separator, it is not (BadNumber).
- `read_carefully` goes on after it has aborted (file.c:246), and leaves a count as if
  it had read; the other primitives return when the abort does.
- On Linux a device that fails to answer leaves its file open (usb-linux.c:133); on NetBSD and
  FreeBSD one whose time-out cannot be set does, and FreeBSD never closes the directory. SearchClosesFiles
  is about searches in which no such call has failed (`clean`).
- app-stop-cmd calls the RESET vector of the application whenever the first word of flash is
  not blank, before it disables interrupts (chat-loop.mu4:74), where 71-73 says "the app code
  will do its "stop" behavior": in an image that follows a flash that was killed, c.flash-begin
  executes a part of an application, which may never return, with the watchdog off. AppStop
  and AppReturns of Tasker do the same; PartialIsIdle excepts the call, and holds after it.
- `nap` adds one to a status byte and `wake` takes one away, without a limit: 128 wakeups
  before a nap make a task sleep, and are forgotten (heart.mu4:9). The tasks of the
  application nap each time they run.
- app-start does not answer: commands within the 16 ms until the reset it causes are lost.
- The host never checks how fast the peer takes bytes, and neither side times out.
- A `c.program` that is killed leaves words in the page buffer of the chip, and nothing
  empties it before the next image: the first page that is flashed then is mixed with them.
  ReadsAreTrue and WritesLand promise nothing of that image (`mixed` in Chat's Begin).
  VerifyTells says that verify-region finds out: what it compares is what the flash holds.
- A flash that is killed leaves the section of the application closed, and nothing but
  c.flash-end of a later one opens it: until then c.read-space of flash returns what
  the hardware does not specify, without an error. ReadsAreTrue excludes these reads.
- `ihrbase` "Defaults to 0" (intel-hex.mu4:152), once: a file without a record of a base is
  read at the base of the file read before. ReadIsWritten says what holds despite this.
- A record is obeyed before its checksum is looked at, and may write past the image; a
  damaged count or type may read as another correct record; reading goes on after the
  end record. The model damages data, addresses and checksums only.

## What is proved

TLC checks small instances, the theorems hold for all values of the constants.
Assumptions are those that the modules state about their constants (TLC checks them
on every run): bounds are natural numbers, texts are sequences, a modulus is twice Half.
All theorems are in modules named *X*Proofs; 34 of the properties of the runs
are proved. AllCounted is proved of a property, LinesCounted, that no run checks.

**ReturnStackProofs** (TypeCorrect, FramePointersCorrect, UnwindHasCatchCorrect,
CleanupPendingOnceCorrect, DynamicScopeCorrect, UndoLogImplemented). That `fp` and `cf` point to live frames is not
inductive: returning through a frame makes `fp` what the cell below it says. The
invariant describes the whole stack. Every frame has the shape its word built
(Shaped, Caught), every link cell leads to the next older cell of its kind, and the pointers to the
newest (Linked). Pushing data and return addresses keeps that; unlink removes
exactly the newest frame; throw only pushes; unwind removes frames down to
the catch frame. There is one lemma per way of changing the stack and one step
per action. From that follows what the frames are for. A step that links or unlinks
changes the set of frames by the newest one only (PendingPushed), the others leave it as
it is (PendingSame), so each registered object stays in one frame until its cleanup
begins. The cell of a bound variable is always the lowest of a whole frame (VarsFramed),
so a binding comes and goes with its frame. Binding pushes the value that the variable
has, unlinking stores it again: the lowest binding above a level, or the variable itself,
holds the same value before and after (UnderBound). Only assignment changes it.
For the refinement, the log is the sequence of the live frames, oldest first. A step
that changes the stack between frames leaves the log as it is, linking appends one
obligation (OneEntryMore), unlinking or unwinding a frame removes the newest, and throw
leaves it to the unwinding: each step of ReturnStack is one of UndoLog or a stutter.

**LoaderProofs** (LoaderInvariant, AllClosed, AllRestored, LinesInvariant, AlwaysLocated,
AllCounted). For any files, nested to any
depth and failing anywhere. What holds at the console must follow from the frames while
files are loaded, so the invariant is about them: each open file has a frame that closes
it (ClosePending); the oldest frame that restores a name restores one that is not a
file's (NameKept); the three oldest frames, as far as they are still there, restore what
the console is to find, and where they are not the settings already have those values
(Kept); and the frames that the outermost load found stay below those of the inner ones
(Nested, Guarded), so that texts, which change settings at will, do so only while the
three frames are there. While an error unwinds, Nested and Guarded are not needed:
all frames go. Where an error is located, and whether every line is counted, is a claim
about all the texts that are being loaded, the suspended ones too. LinesInv therefore reads
the frames as a forecast: from the newest frame down, each name, line and count that is
restored, and each adding of lines, says what the place and the total will be once
control is back in the text of the next older load (Foretold, Accounted).

**ConsoleProofs**, for texts, lines, keys and memories of any size.

- Conditions (TypeCorrect, SelectedIsInterpretedCorrect, NestingIsDepthCorrect).
  That one number suffices rests on where eat starts: at
  the outermost condition that is not selected, and counting the depth from there.
  So all conditions outside are selected, and the count is the number of conditions
  inside. It holds for texts of any length, and loads to any depth, because a text that loads
  another is itself interpreted (LoaderIsInterpreted).
- The reader (LineIsPositionCorrect, TokensAreWordsCorrect). The line is one more than
  the newlines before `first`, of every text that is suspended too, whose number was
  kept for a file and must come back by itself for a string (Numbered, Placed). That
  evaluating a string does not disturb the number of the line around it holds because
  strings have one line (TextAssumption of Source). A scan stops at the first character
  that ends it (Stops), so that what was passed over is white space, and what was taken is not.
- The editor (ScreenShowsLineCorrect, UpShowsOlderCorrect). The row is what typing the line
  on an empty one shows, and the cursor is where the place in the line is, after each
  key (TypedShows and a lemma for inserting, and one for deleting). Both assume RowFits, that
  the terminal has at least one column and no more than the buffer has bytes: editline.mu4 tests
  for the first limit only, and beyond the other overruns its buffer. The history is a circle of entries in order of age
  (Circle), so that its links, which is all the code has, are those of a sequence.
- The dumper (InspectShowsMemoryCorrect). Outside dumps, the cached line is that of memory in the
  source it was read from (CacheIsLine), and changing the source empties the cache.

**DictProofs** (TypeCorrect, SearchEndsCorrect, NothingForgottenCorrect,
NewestFoundCorrect, VocabularyImplemented). For every number of words, chains and
definitions. Entries are put in front of chains and chains are
linked to one another, so links do not follow the order of the heap. They form no circle
because entries have ranks that decrease along them (Acyclic). A step that links keeps
that because what it links is linked to by nobody yet but the chain it is to join: the invariant
says so of the word that is being defined (DictInvariant). Ranks give induction along links
(Descent), and by it the lists behind entries exist, are unique (Unfolds) and change by one splice
when an entry joins a chain (Spliced). From that follow that a search ends within
the number of entries, that what it passed stays in its way (Behind only grows), that the first
word of a name is the newest (FirstIn), and that own words, anchors and hidden words,
read off the links, change only as Vocabulary allows. NameAssumption says that the
names of words are none of the two marks that the heap uses.

**EngineProofs** (ActivationsOnStackCorrect, DoCorrect, IndexCorrect, LoopCorrect, PlusLoopCorrect). For every program, also one that
unbalances its stacks: the activations of `mu_execute` start at ever greater heights of
the return stack, so there are never more of them on C's stack than addresses on the
return stack, however often errors are thrown. And for cells of every width, what do leaves
of a loop is the difference of index and limit (InLoop, which says of the loop n
levels out what its three cells hold), so that i, j and k give the index by adding the limit
again, loop ends exactly when the next index is the limit, and +loop exactly when it
steps over the limit or over the point opposite to it (Crosses), although it only tests whether the
difference has changed its sign. All of it rests on there being one number of a cell for each
integer modulo twice Half (NumbersDiffer, WrapSum).

**UsbProofs** (NotFoundMeansAbsentCorrect, SearchClosesFilesCorrect, BytesOnceCorrect). For any number of
nodes, buses, ids and searches. A node that has not been tried is still among those left
or, on usbfs, on a bus that is left; files open are those handed out and those of the
step the search is in. What was sent of a write and what is left of it are together the buffer
(SentInv), so that nothing is missing when nothing is left.
The first theorem assumes that no id has its highest bit set,
without which UsbHighIds refutes it.

**TargetProofs** (PartialIsIdleCorrect, WakeupsConservedCorrect). For any number of tasks,
any width of a status byte and any pace of timer and watchdog. What nap holds in a
register is what the status byte holds, because interrupts are off in between (NapHolds);
once the application is stopped, chat runs alone with interrupts off until a reset
(StoppedIsQuiet), and flash is incomplete only then (PartialIsStopped). The time in which app-stop
calls the application is excepted, because nothing can be promised of a part of one; what the theorem
says is that all is quiet again once the call is back and app-stop done, although the call
may have enabled interrupts.

The conversation (InStepCorrect, ReadsAreTrueCorrect, WritesLandCorrect, VerifyTellsCorrect), for memories, pages,
chunks and counts of any size, any words, and any order in which bytes and replies travel. That nothing is left over at the
prompt says nothing about the middle of a word; the invariant does. What the
peer does with a byte depends on the bytes before it, and not on when the byte comes. So the
bytes on the line lead from where the peer is to one place (Items, Leads): the
command it will then wait with, its arguments, its memory, and the replies it will have
given. From that place the rest of the script must lead to a peer without a command and no
reply left over (Talking). A step of the peer moves along the line, a byte that is sent lengthens it, a
reply that is taken is taken from every place at once (DroppedLeads). A word begins well because its
script is put together of commands with as many replies as they give (Whole,
WholeScript: over all chunks of an image, whatever its length). A host
that was killed leaves a command that may be cut short (Silent), two
zeros finish it and are not answered, and after the flush nothing is left over (Greeting).
CutAssumption says which commands may be cut short; without it ChatResync refutes InStep.

The same place carries what the other three need: the memory, the page buffer and what the
host has received. For each word there is a lemma on where its script leads (Turns; WordDone
for all of them): to a peer with the memory that Effect says and a host that has received
what Returns says. Streams, fields of bytes, chunks and pages come by a least place at which it could go
wrong. For an image, each chunk is erased, held in the page buffer word by word (Held)
and programmed, which on blank bytes leaves the words themselves; a chunk
that shares its page with the one before finds blank what that left. Reading
back what was burnt gives the image (FlashReturns). So the place where line and script
end has the memory that the host believes and the replies that are wanted (Kept), and at the
prompt the host is at that place (AtRest). A word that is asked for while the peer still works through an
earlier one begins from where that will end.
After a kill the host knows nothing of the memory (`believed` is empty), and the next word is described from the
memory there is at the prompt. That is the memory there will be only if no byte that writes is
still on its way. It is, because each script that leaves the host knowing nothing (the greeting, and an
image flashed over a page buffer that is not empty) ends by reading:
replies are never taken back, so that their number (Total) tells how far the peer is, and on the
way to the end, wherever as many replies have been given as the end has, the memory is already that of
the end (Sure, Within, Assured). That an image has been verified rests on the same, whatever the page buffer
held and however the flash had been left (FlashSurely): up to the end of programming the script leads
somewhere, with the section open (BurnOpens); from there verify-region reads the flash that there is (BurnSurely), and
at the prompt that is the flash there still is (Verified). If the buffer was empty, it is the image too. ReadsAreTrue and
WritesLand are silent about what is flashed over a buffer in use, and ReadsAreTrue about reading
closed flash. WordAssumption says that what words are given is in the memory there is;
nothing in the code tests it.

**ArithmeticProofs** (TypeCorrect, DivisionFloorsCorrect, StarSignlessCorrect), for
cells of every width. From division with a remainder being unique follow that wrapping does
not change bits, the exchange of signed and unsigned factors (the "Prove this!" of
kernel.c:114), and, by the four cases of signs and whether anything remains, that the
adjustment of mu_slash_mod floors and that its quotient fits a cell, the trap aside.
The CRC (FunctionsAgree, AnyFunction, CrcIsRemainderCorrect), for every sum, every byte and every message.
Bit by bit, two steps of the bitwise function are worked out (TwoBits), composed to four (FourBits) and
eight, and each bit of the result is that of the function made of shifts (ThierryBits).
That the sum is the remainder of the message as a polynomial over two
elements is a claim about sets of exponents: a sum of polynomials is a symmetric difference, whose
coefficients are parities of cardinalities, so that taking a remainder is linear; a
remainder times x is a shift with feedback, which is one round; eight rounds are x^8, so
that a byte may be appended to what was summed; and the buffer of a call is one byte
after the other, by the least place at which it could go wrong.
Numbers (NumberIsTokenCorrect, PrintedReadsBackCorrect), for tokens of every length and
cells of every width. What a text stands for is a sum over its digits, each times the weight
of its place, which the separators behind it do not count towards (Sum). The code never computes that sum:
it reads from the left, and writes from the right. So the invariant relates the two halves. While a
token is read, what was read so far times the weight of what is left, and the sum of what
is left, is the sum of the whole (Amounts); while a number is written, what is left to divide,
times the weight of what is held, and the sum of what is held, is the number (HoldsOf). Both change
as one digit in front changes a sum over a finite set (DigitsBehind, InFront).
The sign is outside both: -2^(w-1) has no positive counterpart, and comes back because its
negation, taken as an unsigned number, is itself (NumberNegated).
Hex files (ReadIsWrittenCorrect), for images, regions, chunks and files of every size. The sum of a
record grows by the byte that is appended, and changes by the difference when one is exchanged
(TotalAppended, TotalChanged): so what is written is right, and a byte that was damaged shows.
The chunks of a region are together all of it (ChunksAre). While a file is read, what is left is
the rest of it, and memory is the image where the records so far put something, as long as the
base is 0 (RecordsRead). At the end nothing damaged is left to be found, and all places were reached.
FileAssumption says which bytes of other programs' files make a record: those ihrtype takes.

Only model-checked, and why:

- what happens in the end (EveryCleanupRuns, ProgramEnds, ErrorsReachConsole, ChatAnswers,
  WordsEnd): liveness under fairness is out of the prover's reach, and so is ENABLED;
- RunsAsWritten: it compares with what a RECURSIVE operator computes (Structured), which the
  prover cannot reason about in any module that reaches one. What the
  instructions of a loop do one by one is proved (EngineProofs).

## What is not modelled

- Bodies of words, the heap's limit, does>: nothing here depends on them, and
  the code has no checks to speak of.
- Text of messages, columns and colours, decoding of escape sequences.
- mmap, read and write as the system does them, except that they fail and, for write,
  that they do part of what they should.
- Loss of bytes on the serial line, for which there is no code; a reset of the board by hand.
- Shift registers, terminals, time, multiple precision, other formats of files, macOS:
  wrappers, pure conversions, or not part of the builds.
- Assemblers, disassemblers and compilers for boards (mu/target), and chat with others
  than the AVR: tables of instructions, and protocols of the same shape.
- The firmware library of a chip vendor under mu/target/RISC-V/firmware. Nothing in muforth
  calls or compiles it. It is nine tenths of the lines of C in the repository (some 41 600
  of 45 700); muforth's own C has about 4 100, much of it tables of words and wrappers
  of system calls, and most of the system is Forth (.mu4), which the modules translate
  for the greater part. A share of the C lines says little about either.

## What could come next

1. `meta.mu4` and the chains of target compilers, whose search order changes while a word
   is compiled.
2. The chats of other boards where they differ: the S08, whose host drives the clock of
   the debug interface, and the MSP430's bootstrap loader, which has a checksum.
