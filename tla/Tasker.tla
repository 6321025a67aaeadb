------------------------------- MODULE Tasker -------------------------------
(***************************************************************************)
(* The tasks of an AVR that carries muforth's chat firmware: simple-tasker *)
(* switches between the chat task and those of an application, the timer   *)
(* interrupt of heart.mu4 wakes the latter, and a watchdog that the heart  *)
(* task feeds resets the chip.  A task's status byte is a semaphore that   *)
(* counts downwards: a task runs while the byte is negative.               *)
(*                                                                         *)
(* A step is what no interrupt can divide, or what it may divide freely:   *)
(* nap takes two, between which the interrupt would fit if it were not     *)
(* held off.  The chat firmware sits in the boot region; the application,  *)
(* its interrupt handler included, in flash that chat erases and programs. *)
(* What an application does that is only partly programmed is not known:   *)
(* once chat has called it, it may come back or be lost.  The chip is not  *)
(* reset by hand.                                                          *)
(***************************************************************************)
EXTENDS Integers, Sequences, FiniteSets

CONSTANTS
    Chat,           \* the chat task
    Heart,          \* the task that feeds the watchdog
    Buttons,        \* the sequence of the other tasks of the application
    Half,           \* a status byte is one of 2 * Half values (2^7 in the code)
    ButtonEvery,    \* timer overflows between two wakeups of a button task
    HeartEvery,     \* and of the heart task, a multiple of ButtonEvery
    Timeout         \* overflows until the watchdog bites: "long" and "short"

Created == Append(Buttons, Heart)           \* the order app-start creates them in
App == {Created[i] : i \in 1 .. Len(Created)}
Task == {Chat} \cup App
Byte == 0 .. 2 * Half - 1

ASSUME TaskAssumption == /\ Buttons \in Seq(Task) /\ Chat \notin App
                         /\ \A i, j \in 1 .. Len(Created) :
                                Created[i] = Created[j] => i = j
ASSUME ByteAssumption == Half \in Nat \ {0}
ASSUME TimerAssumption == /\ ButtonEvery \in Nat \ {0}
                          /\ HeartEvery \in Nat \ {0}
                          /\ HeartEvery % ButtonEvery = 0
ASSUME DogAssumption == Timeout \in [{"long", "short"} -> Nat \ {0}]

VARIABLES
    status, next,   \* the first two bytes of every user area
    u,              \* the task that runs
    y,              \* the task that yield looks at
    at,             \* where the processor is
    g0,             \* the status byte as nap has read it
    begun,          \* the heart task is past its initialisation
    ie, tov,        \* interrupts enabled; an overflow waits to be handled
    beat,           \* heart-beat, the low bits that matter
    ticking,        \* the timer runs and may interrupt
    dog, fed,       \* the watchdog, and the overflows since it was fed
    flash           \* the application in flash: whole, or being programmed

machine == <<u, y, at, g0>>
timer == <<tov, beat, ticking>>
watchdog == <<dog, fed>>
vars == <<status, next, machine, begun, ie, timer, watchdog, flash>>

Places == {"startup", "entry", "poll", "call", "lost", "stop", "work", "load",
           "store", "yield", "search", "busy"}

TypeOK ==
    /\ status \in [Task -> Byte] /\ next \in [Task -> Task]
    /\ u \in Task /\ y \in Task /\ at \in Places /\ g0 \in Byte
    /\ begun \in BOOLEAN /\ ie \in BOOLEAN /\ tov \in BOOLEAN
    /\ beat \in 0 .. HeartEvery - 1 /\ ticking \in BOOLEAN
    /\ dog \in {"off", "long", "short"} /\ fed \in Nat
    /\ flash \in {"whole", "partial"}

\* create-task: every task leads to the one created before it, the first to
\* the chat task, and that to the last one (system-startup).
Circle(first) == [t \in Task |->
    IF t = Chat THEN Heart
    ELSE LET i == CHOOSE i \in 1 .. Len(Created) : Created[i] = t
         IN  IF i = 1 THEN first ELSE Created[i - 1]]
\* Mutant: the circle is closed without the chat task.
RingOfApp == Circle(Heart)
Ring == Circle(Chat)

Alone == [next EXCEPT ![Chat] = Chat]       \* chat-only

Negative(b) == b >= Half
Up(b) == (b + 1) % (2 * Half)
Down(b) == (b + 2 * Half - 1) % (2 * Half)

Init ==
    /\ status = [t \in Task |-> 0] /\ next = [t \in Task |-> Chat]
    /\ u = Chat /\ y = Chat /\ at = "startup" /\ g0 = 0
    /\ begun = FALSE /\ ie = FALSE /\ tov = FALSE /\ beat = 0 /\ ticking = FALSE
    /\ dog = "off" /\ fed = 0 /\ flash = "whole"

(***************************************************************************)
(* system-startup, with the application's app-start and run-task.  On some *)
(* parts a watchdog that has bitten keeps running until the reset flags    *)
(* are cleared, which is after watchdog-off: then it stays on at its       *)
(* shortest.                                                               *)
(***************************************************************************)
Startup ==
    /\ at = "startup"
    /\ at' = "poll" /\ u' = Chat /\ y' = Chat
    /\ status' = [t \in Task |-> 2 * Half - 1]
    /\ next' = Ring
    /\ begun' = FALSE /\ ie' = FALSE /\ tov' = FALSE /\ ticking' = FALSE /\ beat' = 0
    /\ dog' \in IF dog = "off" THEN {"off"} ELSE {"off", "short"}
    /\ fed' = 0
    /\ UNCHANGED <<g0, flash>>

(* The chat task, whenever it is run again. *)

Chats == at = "poll"

\* No byte has come, or a command that changes none of this.
Poll ==
    /\ Chats /\ at' = "yield"
    /\ UNCHANGED <<status, next, u, y, g0, begun, ie, timer, watchdog, flash>>

\* app-start-cmd: chat-only, watchdog-on.  The user gives it when the
\* application is programmed and verified.
AppStart ==
    /\ Chats /\ flash = "whole"
    /\ next' = Alone /\ dog' = "short" /\ fed' = 0 /\ at' = "yield"
    /\ UNCHANGED <<status, u, y, g0, begun, ie, timer, flash>>

\* app-stop-cmd begins with app-call: if the RESET vector of the application is
\* not empty, that is called with h2 = 0.  Of an application that is being
\* programmed the vector may still be empty, or what is read there undefined.
AppStop ==
    /\ Chats
    /\ at' \in IF flash = "whole" THEN {"call"} ELSE {"call", "stop"}
    /\ UNCHANGED <<status, next, u, y, g0, begun, ie, timer, watchdog, flash>>

\* The application's app-stop does nothing.  One that is partly programmed may
\* run into code that is not there; if it returns, interrupts may be enabled.
AppReturns ==
    /\ at = "call"
    /\ IF flash = "whole" THEN at' = "stop" /\ ie' = ie
       ELSE at' \in {"stop", "lost"} /\ ie' \in BOOLEAN
    /\ UNCHANGED <<status, next, u, y, g0, begun, timer, watchdog, flash>>

\* The rest of it: cli, chat-only, watchdog-off.
\* Mutant: interrupts are not disabled.
CliForgotten == ie' = ie
Cli == ie' = FALSE
Stop ==
    /\ at = "stop" /\ Cli
    /\ next' = Alone /\ dog' = "off" /\ fed' = 0 /\ at' = "yield"
    /\ UNCHANGED <<status, u, y, g0, begun, timer, flash>>

\* The host has chat erase and program pages.  c.flash-begin of the host has
\* stopped the application before, and no word of its starts it in between.
Stopped == next[Chat] = Chat /\ dog = "off"
WriteFlash ==
    /\ Chats /\ Stopped
    /\ flash' \in {"whole", "partial"} /\ at' = "yield"
    /\ UNCHANGED <<status, next, u, y, g0, begun, ie, timer, watchdog>>

(* The tasks of the application. *)

\* heart-task, up to its loop, with the first wdr and the call of nap.
HeartEntry ==
    /\ at = "entry" /\ u = Heart
    /\ ticking' = TRUE /\ beat' = 0 /\ dog' = "long" /\ fed' = 0
    /\ begun' = TRUE /\ at' = "load"
    /\ UNCHANGED <<status, next, u, y, g0, ie, tov, flash>>

\* Its loop, once: feed the watchdog, nap.
HeartLoop ==
    /\ at = "work" /\ u = Heart
    /\ fed' = 0 /\ at' = "load"
    /\ UNCHANGED <<status, next, u, y, g0, begun, ie, timer, dog, flash>>

\* A button task samples its pin and naps.
ButtonLoop ==
    /\ at = "work" /\ u \notin {Chat, Heart}
    /\ at' = "load"
    /\ UNCHANGED <<status, next, u, y, g0, begun, ie, timer, watchdog, flash>>

\* Code of the application, or code that the host runs, does not come back.
Hang ==
    /\ at \in {"poll", "work"} /\ u # Heart
    /\ at' = "busy"
    /\ UNCHANGED <<status, next, u, y, g0, begun, ie, timer, watchdog, flash>>

\* nap: read the status byte with interrupts disabled ...
NapLoad ==
    /\ at = "load"
    /\ Cli /\ g0' = status[u] /\ at' = "store"
    /\ UNCHANGED <<status, next, u, y, begun, timer, watchdog, flash>>

\* ... and write it back incremented, enable them, and go to yield.
NapStore ==
    /\ at = "store"
    /\ status' = [status EXCEPT ![u] = Up(g0)] /\ ie' = TRUE /\ at' = "yield"
    /\ UNCHANGED <<next, u, y, g0, begun, timer, watchdog, flash>>

Yield ==
    /\ at = "yield"
    /\ y' = u /\ at' = "search"
    /\ UNCHANGED <<status, next, u, g0, begun, ie, timer, watchdog, flash>>

\* Where a task continues, once run-task has its stack.
Resumes(t) == CASE t = Chat -> "poll"
                [] t = Heart /\ ~begun -> "entry"
                [] OTHER -> "work"

\* One turn of yield's loop: the next task; run it if it has been woken.
Search ==
    /\ at = "search"
    /\ y' = next[y]
    /\ IF Negative(status[next[y]])
       THEN u' = next[y] /\ at' = Resumes(next[y])
       ELSE UNCHANGED <<u, at>>
    /\ UNCHANGED <<status, next, g0, begun, ie, timer, watchdog, flash>>

(***************************************************************************)
(* The hardware.  A tick is an overflow of the timer, and the unit of the  *)
(* watchdog's time.                                                        *)
(***************************************************************************)

Tick ==
    /\ at # "startup"
    /\ dog # "off" => fed < Timeout[dog]
    /\ tov' = (tov \/ ticking)
    /\ fed' = IF dog = "off" THEN 0 ELSE fed + 1
    /\ UNCHANGED <<status, next, machine, begun, ie, beat, ticking, dog, flash>>

Bite ==
    /\ at # "startup" /\ dog # "off" /\ fed = Timeout[dog]
    /\ at' = "startup"
    /\ UNCHANGED <<status, next, u, y, g0, begun, ie, timer, watchdog, flash>>

\* Who the overflow that makes heart-beat b wakes.
Woken(b) == (IF b = 0 THEN {Heart} ELSE {})
                \cup IF b % ButtonEvery = 0 THEN App \ {Heart} ELSE {}

\* timer0-overflow-handler, which runs with interrupts disabled.
Interrupt ==
    /\ ie /\ tov /\ at # "startup"
    /\ tov' = FALSE /\ beat' = (beat + 1) % HeartEvery
    /\ status' = [t \in Task |-> IF t \in Woken(beat') THEN Down(status[t])
                                                       ELSE status[t]]
    /\ UNCHANGED <<next, machine, begun, ie, ticking, watchdog, flash>>

Step == \/ Startup \/ Poll \/ AppStart \/ AppStop \/ AppReturns \/ Stop
        \/ WriteFlash \/ HeartEntry \/ HeartLoop \/ ButtonLoop \/ Hang \/ NapLoad
        \/ NapStore \/ Yield \/ Search

Next == Step \/ Tick \/ Bite \/ Interrupt

\* The processor executes, time passes, and the watchdog is not late.
Fairness == WF_vars(Step) /\ WF_vars(Tick) /\ WF_vars(Bite)

Spec == Init /\ [][Next]_vars /\ Fairness

(***************************************************************************)
(* What is checked                                                         *)
(***************************************************************************)

(* No wakeup is lost or made up, wherever the timer interrupts: of the     *)
(* wakeups a task has (its status byte, negated) an overflow adds one for  *)
(* the tasks it wakes and nap takes one away for the task that naps,       *)
(* although both read the byte before they write it (wake and nap of       *)
(* heart.mu4; simple-tasker.mu4: "a counting semaphore").                  *)
WakeupsConserved ==
    [][at # "startup" =>
         \A t \in Task :
            LET woken == tov /\ ~tov' /\ t \in Woken(beat')
                naps == at = "store" /\ at' = "yield" /\ t = u
            IN  status'[t] = IF woken THEN Down(status[t])
                             ELSE IF naps THEN Up(status[t]) ELSE status[t]]_vars

(* While the application in flash is not whole, nothing of it is executed  *)
(* but what app-stop itself calls: chat has the processor and shares it    *)
(* with nobody, no interrupt is handled, whose handler is part of the      *)
(* application, and the watchdog cannot reset the chip and so start it     *)
(* (app-stop-cmd; the host's c.flash-begin).  It holds again when that     *)
(* call has come back and app-stop is done, whatever it did to interrupts. *)
PartialIsIdle ==
    flash = "partial" /\ at \notin {"call", "lost", "stop"} =>
        u = Chat /\ y = Chat /\ next[Chat] = Chat /\ ~ie /\ dog = "off"

(* While the watchdog is on, chat answers: whatever a task of the          *)
(* application or code run from the host does, an endless loop included,   *)
(* the chat task comes to poll the serial line again (yield, run-task;     *)
(* heart-task: "Enable watchdog"; system-startup).                         *)
ChatAnswers == dog # "off" ~> at = "poll"
=============================================================================
