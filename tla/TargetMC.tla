------------------------------ MODULE TargetMC ------------------------------
(***************************************************************************)
(* Status bytes of two bits, two button tasks, a watchdog that bites after *)
(* six overflows of the timer, or after two; data and eeprom of four       *)
(* bytes, flash of two pages of two chunks of a word, whose bytes look     *)
(* like commands.                                                          *)
(***************************************************************************)
EXTENDS Target

ButtonsMC == <<"button1", "button0">>
TimeoutMC == [long |-> 6, short |-> 2]

VersionMC == <<1, 2, 3, 4>>
At0(s) == [a \in 0 .. Len(s) - 1 |-> s[a + 1]]
ClosedMC == [a \in 0 .. 7 |-> 255]
Image1 == At0(<<20, 0, 20, 255, 0, 27, 20, 23>>)
Image2 == At0(<<0, 23, 255, 0, 20, 20, 0, 255>>)
WordsMC == {[word |-> "read", a |-> 0, n |-> 1, space |-> "flash"],
            [word |-> "read", a |-> 0, n |-> 8, space |-> "flash"],
            [word |-> "read", a |-> 1, n |-> 3, space |-> "data"],
            [word |-> "read", a |-> 0, n |-> 2, space |-> "eeprom"],
            [word |-> "write", a |-> 1, bytes |-> <<20, 0>>, space |-> "data"],
            [word |-> "write", a |-> 0, bytes |-> <<27, 23>>, space |-> "eeprom"],
            [word |-> "flash", image |-> Image1, n |-> 7],
            [word |-> "flash", image |-> Image2, n |-> 4],
            [word |-> "run", a |-> 3, dp |-> 5]}
=============================================================================
