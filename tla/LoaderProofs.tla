------------------------------ MODULE LoaderProofs ------------------------------
(***************************************************************************)
(* That loading leaves nothing behind, for any files, nested to any depth, *)
(* that end or fail at any point: whatever was opened is closed, the       *)
(* settings are those that load-file found, and every line is counted; and *)
(* that a place in a file is at all times the one that is reported.        *)
(***************************************************************************)
EXTENDS Loader, Integers, TLAPS

-----------------------------------------------------------------------------
(* Types *)

Names == File \cup {CommandLine, NoFile}
Radix == {"decimal", "hex"}
State == {"interpret", "compile"}
Current == {"forth", "other"}
Env == [being_loaded : Names, line : Nat, radix : Radix, state : State,
        current : Current, out_channel : {"stdout", "stderr"}]
RestoreFrames(var, values) == [kind : {"restore"}, var : {var}, value : values]
RestoreFrame ==
  RestoreFrames("being_loaded", Names) \cup RestoreFrames("line", Nat)
    \cup RestoreFrames("radix", Radix) \cup RestoreFrames("state", State)
    \cup RestoreFrames("current", Current)
Frame == RestoreFrame \cup [kind : {"close"}, fd : Fd] \cup [kind : {"lines", "depth"}]
Call == [file : File, base : Nat, line : Nat]
Load == [file : File \cup {NoFile}, fd : Fd \cup {0}, base : Nat]

TypeOK ==
  /\ env \in Env /\ open \in SUBSET Fd /\ frames \in Seq(Frame) /\ calls \in Seq(Call)
  /\ pending \in Load /\ before \in SUBSET Setup
  /\ pc \in {"text", "open", "read", "return", "unwind"}
  /\ pc \in {"open", "read"} => pending.file \in File

-----------------------------------------------------------------------------
(* The inductive invariant *)

\* A file that is open will be closed.
ClosePending ==
  \A fd \in open : \E i \in 1..Len(frames) : frames[i].kind = "close" /\ frames[i].fd = fd

\* Loads are nested: the frames of one lie above those of the one outside it, and the
\* outermost found none.
Nested ==
  pc # "unwind" =>
    /\ \A k \in 1..Len(calls) : /\ k = 1 => calls[k].base = 0
                                /\ calls[k].base <= Len(frames)
                                /\ \A j \in k..Len(calls) : calls[k].base <= calls[j].base
    /\ pc \in {"open", "read"} =>
         /\ pending.base <= Len(frames)
         /\ calls = <<>> => pending.base = 0
         /\ calls # <<>> => Innermost.base <= pending.base
    /\ pc = "text" /\ calls = <<>> => frames = <<>>
    /\ pc = "return" => calls # <<>>

\* The name that the oldest frame with a name restores is not that of a file; if there
\* is none, that is the name now.
Named(f) == f.kind = "restore" /\ f.var = "being_loaded"
NameKeptBy(fs, e) ==
  \E p \in Nat \ {0} :
    /\ \A j \in 1..Len(fs) : j < p => ~Named(fs[j])
    /\ IF p <= Len(fs) THEN Named(fs[p]) /\ fs[p].value \notin File
                       ELSE e.being_loaded \notin File
NameKept == NameKeptBy(frames, env)

\* Either the outermost load has promised nothing, or its first frames restore the three
\* settings that the console is to find.
Any == before = Setup
KeptBy(s, fs, e) ==
  /\ IF Len(fs) >= 1
       THEN fs[1] = [kind |-> "restore", var |-> "radix", value |-> s.radix]
       ELSE e.radix = s.radix
  /\ IF Len(fs) >= 2
       THEN fs[2] = [kind |-> "restore", var |-> "state", value |-> s.state]
       ELSE e.state = s.state
  /\ IF Len(fs) >= 3
       THEN fs[3] = [kind |-> "restore", var |-> "current", value |-> s.current]
       ELSE e.current = s.current
Kept == \E s \in before : KeptBy(s, frames, env)

\* Texts change the settings while these frames are there.
Guarded ==
  pc # "unwind" /\ ~Any =>
    /\ \A k \in 2..Len(calls) : calls[k].base >= 3
    /\ pc \in {"open", "read"} => Len(frames) >= 3 /\ (calls # <<>> => pending.base >= 3)
    /\ pc = "text" /\ calls # <<>> => Len(frames) >= 3

LoaderInv == TypeOK /\ ClosePending /\ Nested /\ NameKept /\ (Any \/ Kept) /\ Guarded

USE DEF Names, Radix, State, Current

-----------------------------------------------------------------------------
(* Environments and frames *)

\* Setting the settings sets them, and nothing else.
LEMMA OverlayTypes ==
  ASSUME NEW e \in Env, NEW s \in Setup
  PROVE  /\ Overlay(e, s) \in Env
         /\ Overlay(e, s).being_loaded = e.being_loaded
         /\ Settings(Overlay(e, s)) = s
<1>1. /\ DOMAIN e = {"being_loaded", "line", "radix", "state", "current", "out_channel"}
      /\ s = [v \in Setting |-> s[v]]
  BY DEF Env, Setup, Setting
<1>2. Overlay(e, s) = [being_loaded |-> e.being_loaded, line |-> e.line, radix |-> s.radix,
                       state |-> s.state, current |-> s.current,
                       out_channel |-> e.out_channel]
  BY <1>1 DEF Overlay, Setting
<1>3. Settings(Overlay(e, s)) = s
  BY <1>1, <1>2 DEF Settings, Setting
<1> QED  BY <1>2, <1>3 DEF Env, Setup

\* It does not set line either.
LEMMA OverlayLine ==
  ASSUME NEW e \in Env, NEW s \in Setup
  PROVE  Overlay(e, s).line = e.line
<1>1. "line" \in DOMAIN e /\ "line" \notin Setting
  BY DEF Env, Setting
<1> QED  BY <1>1 DEF Overlay

\* The settings of an environment are its radix, mode and current chain.
LEMMA SettingsTypes ==
  ASSUME NEW e \in Env
  PROVE  /\ Settings(e) \in Setup
         /\ Settings(e).radix = e.radix /\ Settings(e).state = e.state
         /\ Settings(e).current = e.current
<1>1. Settings(e) = [radix |-> e.radix, state |-> e.state, current |-> e.current]
  BY DEF Settings, Setting
<1> QED  BY <1>1 DEF Setup, Env

\* What raw-load-file sets are settings.
LEMMA FreshInSetup == Fresh \in Setup
BY DEF Fresh, Setup

\* A frame that restores a variable restores a value of its type.
LEMMA RestoreTypes ==
  ASSUME NEW e \in Env, NEW f \in Frame, f.kind = "restore"
  PROVE  /\ [e EXCEPT ![f.var] = f.value] \in Env
         /\ \A v \in {"being_loaded", "line", "radix", "state", "current"} :
              [e EXCEPT ![f.var] = f.value][v] = IF v = f.var THEN f.value ELSE e[v]
<1>1. f \in RestoreFrame
  BY DEF Frame
<1>2. /\ f.var \in {"being_loaded", "line", "radix", "state", "current"}
      /\ f.var = "being_loaded" => f.value \in Names
      /\ f.var = "line" => f.value \in Nat
      /\ f.var = "radix" => f.value \in Radix
      /\ f.var = "state" => f.value \in State
      /\ f.var = "current" => f.value \in Current
  BY <1>1 DEF RestoreFrame, RestoreFrames
<1>3. CASE f.var = "being_loaded"
  BY <1>2, <1>3 DEF Env
<1>4. CASE f.var = "line"
  BY <1>2, <1>4 DEF Env
<1>5. CASE f.var = "radix"
  BY <1>2, <1>5 DEF Env
<1>6. CASE f.var = "state"
  BY <1>2, <1>6 DEF Env
<1>7. CASE f.var = "current"
  BY <1>2, <1>7 DEF Env
<1> QED  BY <1>2, <1>3, <1>4, <1>5, <1>6, <1>7

\* What preserve pushes is a frame.
LEMMA RestoreIsFrame ==
  ASSUME NEW e \in Env,
         NEW v \in {"being_loaded", "line", "radix", "state", "current"}
  PROVE  Restore(v, e) \in Frame
BY DEF Restore, Frame, RestoreFrame, RestoreFrames, Env

\* What on-exit pushes is a frame too.
LEMMA OtherFrames ==
  /\ AddLinesRead \in Frame /\ CheckDepth \in Frame
  /\ \A fd \in Fd : CloseFile(fd) \in Frame
BY DEF AddLinesRead, CheckDepth, CloseFile, Frame

\* All elements but the last.
LEMMA AllButLast ==
  ASSUME NEW S, NEW fs \in Seq(S), fs # <<>>
  PROVE  LET gs == SubSeq(fs, 1, Len(fs) - 1)
         IN  /\ gs \in Seq(S) /\ Len(fs) \in Nat \ {0} /\ Len(gs) = Len(fs) - 1
             /\ \A i \in 1..Len(gs) : gs[i] = fs[i]
<1>1. Len(fs) \in Nat \ {0} /\ 1 \in Nat /\ Len(fs) - 1 \in 0..Len(fs)
  OBVIOUS
<1>2. \A i \in 1..Len(fs) - 1 : i \in 1..Len(fs) /\ fs[i] \in S
  BY <1>1
<1>3. SubSeq(fs, 1, Len(fs) - 1) = [i \in 1..Len(fs) - 1 |-> fs[i]]
  BY <1>1, SMT
<1>4. [i \in 1..Len(fs) - 1 |-> fs[i]] \in Seq(S)
  BY <1>1, <1>2, SMT
<1>5. Len([i \in 1..Len(fs) - 1 |-> fs[i]]) = Len(fs) - 1
  BY <1>1, SMT
<1> QED  BY <1>1, <1>3, <1>4, <1>5, SMT

\* Those of the first sequence stay where they are.
LEMMA Concatenated ==
  ASSUME NEW S, NEW fs \in Seq(S), NEW gs \in Seq(S)
  PROVE  /\ fs \o gs \in Seq(S) /\ Len(fs \o gs) = Len(fs) + Len(gs) /\ Len(fs) \in Nat
         /\ \A i \in 1..Len(fs) : (fs \o gs)[i] = fs[i]
OBVIOUS

\* Those of the second come after them.
LEMMA ConcatenatedAbove ==
  ASSUME NEW S, NEW fs \in Seq(S), NEW gs \in Seq(S)
  PROVE  \A i \in 1..Len(gs) : (fs \o gs)[Len(fs) + i] = gs[i]
<1> SUFFICES ASSUME NEW i \in 1..Len(gs) PROVE (fs \o gs)[Len(fs) + i] = gs[i]
  OBVIOUS
<1>1. /\ Len(fs) \in Nat /\ Len(gs) \in Nat /\ Len(fs) + i \in 1..Len(fs) + Len(gs)
      /\ ~(Len(fs) + i <= Len(fs)) /\ Len(fs) + i - Len(fs) = i
  OBVIOUS
<1> QED  BY <1>1

\* While the three frames are there, what is pushed or set leaves the promise as it is.
LEMMA KeptPushed ==
  ASSUME NEW s, NEW fs \in Seq(Frame), NEW gs \in Seq(Frame), NEW e, NEW e2,
         KeptBy(s, fs, e), Len(fs) >= 3
  PROVE  KeptBy(s, fs \o gs, e2)
<1>1. /\ Len(fs) >= 1 /\ Len(fs) >= 2
      /\ fs[1] = (fs \o gs)[1] /\ fs[2] = (fs \o gs)[2] /\ fs[3] = (fs \o gs)[3]
      /\ Len(fs \o gs) >= 1 /\ Len(fs \o gs) >= 2 /\ Len(fs \o gs) >= 3
  OBVIOUS
<1> QED  BY <1>1 DEF KeptBy

\* Discharging a frame that is a setting restores it, any other leaves them.
LEMMA KeptPopped ==
  ASSUME NEW s \in Setup, NEW fs \in Seq(Frame), NEW e \in Env, NEW e2,
         fs # <<>>, KeptBy(s, fs, e),
         LET f == fs[Len(fs)]
         IN  \A v \in {"radix", "state", "current"} :
               e2[v] = IF f.kind = "restore" /\ f.var = v THEN f.value ELSE e[v]
  PROVE  KeptBy(s, SubSeq(fs, 1, Len(fs) - 1), e2)
<1> DEFINE gs == SubSeq(fs, 1, Len(fs) - 1)
<1>1. /\ Len(gs) = Len(fs) - 1 /\ Len(fs) \in Nat \ {0}
      /\ \A i \in 1..Len(gs) : gs[i] = fs[i]
  BY AllButLast
<1>2. /\ e2.radix = IF fs[Len(fs)].kind = "restore" /\ fs[Len(fs)].var = "radix"
                      THEN fs[Len(fs)].value ELSE e.radix
      /\ e2.state = IF fs[Len(fs)].kind = "restore" /\ fs[Len(fs)].var = "state"
                      THEN fs[Len(fs)].value ELSE e.state
      /\ e2.current = IF fs[Len(fs)].kind = "restore" /\ fs[Len(fs)].var = "current"
                        THEN fs[Len(fs)].value ELSE e.current
  OBVIOUS
<1> HIDE DEF gs
<1>3. CASE Len(fs) = 1
  BY <1>1, <1>2, <1>3 DEF KeptBy
<1>4. CASE Len(fs) = 2
  BY <1>1, <1>2, <1>4 DEF KeptBy
<1>5. CASE Len(fs) = 3
  BY <1>1, <1>2, <1>5 DEF KeptBy
<1>6. CASE Len(fs) > 3
  <2>1. /\ Len(gs) >= 1 /\ Len(gs) >= 2 /\ Len(gs) >= 3
        /\ Len(fs) >= 1 /\ Len(fs) >= 2 /\ Len(fs) >= 3
        /\ gs[1] = fs[1] /\ gs[2] = fs[2] /\ gs[3] = fs[3]
    BY <1>1, <1>6
  <2> QED  BY <2>1 DEF KeptBy
<1>7. Len(fs) = 1 \/ Len(fs) = 2 \/ Len(fs) = 3 \/ Len(fs) > 3
  BY <1>1
<1> QED  BY <1>3, <1>4, <1>5, <1>6, <1>7, Zenon

\* What is pushed keeps the name if it sets none, and if it preserves the one it changes.
LEMMA NamePushed ==
  ASSUME NEW fs \in Seq(Frame), NEW gs \in Seq(Frame), NEW e, NEW e2, NameKeptBy(fs, e),
         \/ /\ \A i \in 1..Len(gs) : ~Named(gs[i])
            /\ e2.being_loaded = e.being_loaded
         \/ gs # <<>> /\ Named(gs[1]) /\ gs[1].value = e.being_loaded
  PROVE  NameKeptBy(fs \o gs, e2)
<1>1. PICK p \in Nat \ {0} :
        /\ \A j \in 1..Len(fs) : j < p => ~Named(fs[j])
        /\ IF p <= Len(fs) THEN Named(fs[p]) /\ fs[p].value \notin File
                           ELSE e.being_loaded \notin File
  BY DEF NameKeptBy
<1>2. /\ Len(fs \o gs) = Len(fs) + Len(gs) /\ Len(fs) \in Nat /\ Len(gs) \in Nat
      /\ \A i \in 1..Len(fs) : (fs \o gs)[i] = fs[i]
      /\ \A i \in 1..Len(fs) + Len(gs) : i > Len(fs) => (fs \o gs)[i] = gs[i - Len(fs)]
  OBVIOUS
<1> DEFINE hs == fs \o gs
<1> HIDE DEF hs
<1>3. CASE p <= Len(fs)
  <2>1. /\ \A j \in 1..Len(hs) : j < p => ~Named(hs[j])
        /\ p <= Len(hs) /\ Named(hs[p]) /\ hs[p].value \notin File
    BY <1>1, <1>2, <1>3 DEF hs
  <2> QED  BY <2>1 DEF NameKeptBy, hs
<1>4. CASE p > Len(fs) /\ gs # <<>> /\ Named(gs[1]) /\ gs[1].value = e.being_loaded
  <2>1. Len(fs) + 1 <= Len(fs) + Len(gs) /\ Len(gs) >= 1
    BY <1>2, <1>4
  <2>2. hs[Len(fs) + 1] = gs[1]
    BY <1>2, <2>1 DEF hs
  <2>3. \A j \in 1..Len(hs) : j < Len(fs) + 1 => ~Named(hs[j])
    BY <1>1, <1>2, <1>4 DEF hs
  <2>4. /\ Len(fs) + 1 \in Nat \ {0} /\ Len(fs) + 1 <= Len(hs)
        /\ Named(hs[Len(fs) + 1]) /\ hs[Len(fs) + 1].value \notin File
    BY <1>1, <1>2, <1>4, <2>1, <2>2 DEF hs
  <2> QED  BY <2>3, <2>4 DEF NameKeptBy, hs
<1>5. CASE /\ p > Len(fs) /\ \A i \in 1..Len(gs) : ~Named(gs[i])
           /\ e2.being_loaded = e.being_loaded
  <2> DEFINE q == Len(hs) + 1
  <2>1. q \in Nat \ {0} /\ ~(q <= Len(hs)) /\ e2.being_loaded \notin File
    BY <1>1, <1>2, <1>5 DEF hs
  <2>2. \A j \in 1..Len(hs) : ~Named(hs[j])
    <3> SUFFICES ASSUME NEW j \in 1..Len(hs) PROVE ~Named(hs[j])
      OBVIOUS
    <3>1. CASE j <= Len(fs)
      BY <1>1, <1>2, <1>5, <3>1 DEF hs
    <3>2. CASE j > Len(fs)
      <4>1. hs[j] = gs[j - Len(fs)] /\ j - Len(fs) \in 1..Len(gs)
        BY <1>2, <3>2 DEF hs
      <4> QED  BY <1>5, <4>1
    <3> QED  BY <1>2, <3>1, <3>2
  <2> HIDE DEF q
  <2> QED  BY <2>1, <2>2 DEF NameKeptBy, hs
<1>6. NameKeptBy(hs, e2)
  <2>1. CASE p <= Len(fs)
    BY <1>3, <2>1 DEF hs
  <2>2. CASE p > Len(fs)
    BY <1>4, <1>5, <2>2 DEF hs
  <2> QED  BY <1>2, <2>1, <2>2
<1> QED  BY <1>6 DEF hs

\* Discharging the newest frame keeps the name.
LEMMA NamePopped ==
  ASSUME NEW fs \in Seq(Frame), NEW e, NEW e2, fs # <<>>, NameKeptBy(fs, e),
         e2.being_loaded = IF Named(fs[Len(fs)]) THEN fs[Len(fs)].value
                                                 ELSE e.being_loaded
  PROVE  NameKeptBy(SubSeq(fs, 1, Len(fs) - 1), e2)
<1>1. PICK p \in Nat \ {0} :
        /\ \A j \in 1..Len(fs) : j < p => ~Named(fs[j])
        /\ IF p <= Len(fs) THEN Named(fs[p]) /\ fs[p].value \notin File
                           ELSE e.being_loaded \notin File
  BY DEF NameKeptBy
<1> DEFINE gs == SubSeq(fs, 1, Len(fs) - 1)
<1>2. /\ Len(gs) = Len(fs) - 1 /\ Len(fs) \in Nat \ {0}
      /\ \A i \in 1..Len(gs) : gs[i] = fs[i]
  BY AllButLast
<1> HIDE DEF gs
<1>3. \A j \in 1..Len(gs) : j < p => ~Named(gs[j])
  BY <1>1, <1>2
<1>4. CASE p < Len(fs)
  BY <1>1, <1>2, <1>3, <1>4 DEF NameKeptBy
<1>5. CASE p >= Len(fs)
  <2>1. ~(p <= Len(gs)) /\ e2.being_loaded \notin File
    <3>1. CASE p = Len(fs)
      BY <1>1, <1>2, <3>1
    <3>2. CASE p > Len(fs)
      <4>1. Len(fs) \in 1..Len(fs) /\ Len(fs) < p
        BY <1>2, <3>2
      <4>2. ~Named(fs[Len(fs)]) /\ ~(p <= Len(fs))
        BY <1>1, <1>2, <3>2, <4>1
      <4>3. ~(p <= Len(gs))
        BY <1>2, <3>2
      <4> QED  BY <1>1, <4>2, <4>3
    <3> QED  BY <1>2, <1>5, <3>1, <3>2
  <2> QED  BY <1>1, <1>3, <2>1 DEF NameKeptBy
<1>6. p < Len(fs) \/ p >= Len(fs)
  BY <1>1, <1>2
<1> QED  BY <1>4, <1>5, <1>6, Zenon

-----------------------------------------------------------------------------
(* The actions keep the invariant *)

\* At first there is nothing to close or to restore.
LEMMA InitInv == ASSUME FileAssumption PROVE Init => LoaderInv
<1> SUFFICES ASSUME Init PROVE LoaderInv
  OBVIOUS
<1>1. /\ env = [being_loaded |-> CommandLine, line |-> 0, out_channel |-> "stdout",
                radix |-> "decimal", state |-> "interpret", current |-> "forth"]
  BY DEF Init, Overlay, Fresh, Setting
<1>a. /\ frames = <<>> /\ calls = <<>> /\ open = {} /\ pending = NoLoad /\ pc = "text"
      /\ before = {Fresh}
  BY DEF Init
<1>2. TypeOK
  <2>1. env \in Env
    BY <1>1 DEF Env
  <2>2. pending \in Load /\ pc = "text" /\ open = {}
    BY <1>a DEF Load, NoLoad
  <2>3. frames \in Seq(Frame) /\ calls \in Seq(Call)
    BY <1>a
  <2>4. before \in SUBSET Setup
    BY <1>a, FreshInSetup
  <2> QED  BY <2>1, <2>2, <2>3, <2>4 DEF TypeOK
<1>3. Len(frames) = 0 /\ Len(calls) = 0 /\ env.being_loaded \notin File
  BY <1>1, <1>a DEF FileAssumption
<1>4. NameKept
  <2>1. \A j \in 1..Len(frames) : j < 1 => ~Named(frames[j])
    BY <1>3
  <2>2. ~(1 <= Len(frames))
    BY <1>3
  <2> QED  BY <1>3, <2>1, <2>2 DEF NameKept, NameKeptBy
<1>5. Kept
  <2>1. Fresh \in before /\ env.radix = Fresh.radix /\ env.state = Fresh.state
        /\ env.current = Fresh.current
    BY <1>1, <1>a DEF Fresh
  <2>2. ~(Len(frames) >= 1) /\ ~(Len(frames) >= 2) /\ ~(Len(frames) >= 3)
    BY <1>3
  <2> QED  BY <2>1, <2>2 DEF Kept, KeptBy
<1>6. Guarded
  BY <1>3, <1>a DEF Guarded
<1>7. ClosePending /\ Nested
  BY <1>3, <1>a DEF ClosePending, Nested
<1> QED  BY <1>2, <1>4, <1>5, <1>6, <1>7 DEF LoaderInv

\* A text that a load interprets may change the settings: frames restore them.
LEMMA ChangeInv ==
  ASSUME LoaderInv, Change, ChosenAssumption PROVE LoaderInv'
<1> USE DEF LoaderInv
<1>1. PICK settings \in Chosen, out \in {"stdout", "stderr"} :
        env' = [Overlay(env, settings) EXCEPT !.out_channel = out]
  BY DEF Change
<1>2. /\ settings \in Setup /\ env \in Env
      /\ Overlay(env, settings) \in Env
      /\ Overlay(env, settings).being_loaded = env.being_loaded
  BY OverlayTypes DEF TypeOK, ChosenAssumption
<1>3. env' \in Env /\ env'.being_loaded = env.being_loaded
  BY <1>1, <1>2 DEF Env
<1>4. Settings(env') \in Setup
  BY <1>3, SettingsTypes
<1>5. TypeOK'
  BY <1>3, <1>4 DEF TypeOK, Change
<1>6. ClosePending' /\ Nested'
  BY DEF ClosePending, Nested, Change
<1>7. NameKept'
  BY <1>3 DEF NameKept, NameKeptBy, Change
<1>8. (Any \/ Kept)'
  <2>1. CASE Outside
    <3>1. before' = {Settings(env')} /\ Len(frames') = 0
      BY <2>1 DEF Change, Outside, Nested
    <3> QED  BY <1>3, <3>1, SettingsTypes DEF Kept, KeptBy
  <2>2. CASE ~Outside
    <3>1. before' = before /\ frames' = frames
      BY <2>2 DEF Change
    <3>2. CASE Any
      BY <3>1, <3>2 DEF Any
    <3>3. CASE ~Any
      <4>1. Len(frames) >= 3
        BY <2>2, <3>3 DEF Guarded, Change, Outside
      <4>2. PICK s \in before : KeptBy(s, frames, env)
        BY <3>3 DEF Kept
      <4>3. frames \o <<>> = frames /\ <<>> \in Seq(Frame) /\ frames \in Seq(Frame)
        BY DEF TypeOK
      <4>4. KeptBy(s, frames, env')
        BY <4>1, <4>2, <4>3, KeptPushed
      <4> QED  BY <3>1, <4>4 DEF Kept
    <3> QED  BY <3>2, <3>3
  <2> QED  BY <2>1, <2>2
<1>9. Guarded'
  <2>1. CASE Outside
    BY <2>1 DEF Guarded, Change, Outside
  <2>2. CASE ~Outside
    BY <2>2 DEF Guarded, Change, Any
  <2> QED  BY <2>1, <2>2
<1> QED  BY <1>5, <1>6, <1>7, <1>8, <1>9

\* Counting a line disturbs no frame.
LEMMA NewlineInv ==
  ASSUME LoaderInv, Newline PROVE LoaderInv'
<1> USE DEF LoaderInv
<1>1. /\ env' \in Env /\ env'.being_loaded = env.being_loaded
      /\ env'.radix = env.radix /\ env'.state = env.state /\ env'.current = env.current
  BY DEF Newline, TypeOK, Env
<1>2. /\ calls # <<>> /\ calls \in Seq(Call) /\ Len(calls) \in 1..Len(calls)
  BY DEF Newline, TypeOK, Outside
<1>3. /\ calls' \in Seq(Call) /\ Len(calls') = Len(calls)
      /\ \A k \in 1..Len(calls) : calls'[k].base = calls[k].base
  <2>1. calls[Len(calls)] \in Call
    BY <1>2
  <2>2. [calls[Len(calls)] EXCEPT !.line = @ + 1] \in Call
    BY <2>1 DEF Call
  <2>3. [calls[Len(calls)] EXCEPT !.line = @ + 1].base = calls[Len(calls)].base
    BY <2>1 DEF Call
  <2>4. calls' = [calls EXCEPT ![Len(calls)] = [calls[Len(calls)] EXCEPT !.line = @ + 1]]
    BY <1>2 DEF Newline
  <2> HIDE DEF Call
  <2> QED  BY <1>2, <2>2, <2>3, <2>4
<1>4. calls' # <<>> /\ pc' = "text" /\ pc = "text"
  BY <1>2, <1>3 DEF Newline
<1>5. TypeOK'
  BY <1>1, <1>3, <1>4 DEF TypeOK, Newline
<1>6. ClosePending' /\ NameKept'
  BY <1>1 DEF ClosePending, NameKept, NameKeptBy, Newline
<1>7. Nested'
  BY <1>3, <1>4 DEF Nested, Newline
<1>8. (Any \/ Kept)'
  BY <1>1 DEF Any, Kept, KeptBy, Newline
<1>9. Guarded'
  BY <1>2, <1>3, <1>4 DEF Guarded, Any, Newline
<1> QED  BY <1>5, <1>6, <1>7, <1>8, <1>9

\* The loads in progress, and the innermost, have a type.
LEMMA CallTypes ==
  ASSUME TypeOK
  PROVE  /\ \A k \in 1..Len(calls) : calls[k] \in Call /\ calls[k].base \in Nat
         /\ Len(calls) \in Nat
         /\ calls # <<>> => Len(calls) \in 1..Len(calls)
<1>1. \A k \in 1..Len(calls) : calls[k] \in Call
  BY DEF TypeOK
<1>2. Len(calls) \in Nat /\ (calls # <<>> => Len(calls) \in 1..Len(calls))
  BY DEF TypeOK
<1> QED  BY <1>1, <1>2 DEF Call

\* The frames that load-file pushes for the settings.
SavedSettings(e) == <<Restore("radix", e), Restore("state", e), Restore("current", e)>>

\* A load begins: either it preserves the settings, or it makes no promise.
LEMMA BeginInv ==
  ASSUME LoaderInv, NEW f \in File, NEW saved \in Seq(Frame), Begin(f, saved),
         saved = SavedSettings(env) \/ saved = <<>>,
         IF saved = <<>> /\ Outside THEN before' = Setup ELSE before' = before
  PROVE  LoaderInv'
<1> USE DEF LoaderInv
<1>1. /\ env \in Env /\ env' \in Env /\ env'.being_loaded = env.being_loaded
      /\ Settings(env) \in Setup
  BY OverlayTypes, FreshInSetup, SettingsTypes DEF TypeOK, Begin
<1>2. /\ frames \in Seq(Frame) /\ frames' = frames \o saved /\ calls' = calls
      /\ open' = open /\ pc = "text" /\ pc' = "open"
      /\ pending' = [file |-> f, fd |-> 0, base |-> Len(frames)]
  BY DEF TypeOK, Begin
<1>3. /\ frames' \in Seq(Frame) /\ Len(frames') = Len(frames) + Len(saved)
      /\ Len(frames) \in Nat /\ Len(saved) \in Nat
      /\ \A i \in 1..Len(frames) : frames'[i] = frames[i]
  BY <1>2
<1>4. TypeOK'
  <2>1. pending' \in Load /\ pending'.file \in File
    BY <1>2, <1>3 DEF Load
  <2>2. before' \in SUBSET Setup
    BY DEF TypeOK
  <2> QED  BY <1>1, <1>2, <1>3, <2>1, <2>2 DEF TypeOK
<1>5. ClosePending'
  BY <1>2, <1>3 DEF ClosePending
<1>6. Nested'
  <2>1. pending'.base = Len(frames)
    BY <1>2
  <2>2. \A k \in 1..Len(calls) : /\ k = 1 => calls[k].base = 0
                                 /\ calls[k].base <= Len(frames)
                                 /\ calls[k].base \in Nat
                                 /\ \A j \in k..Len(calls) : calls[k].base <= calls[j].base
    BY <1>2, CallTypes DEF Nested
  <2>3. pending'.base <= Len(frames')
    BY <1>3, <2>1
  <2>4. calls = <<>> => pending'.base = 0
    BY <1>2, <2>1 DEF Nested
  <2>5. calls # <<>> => Innermost.base <= pending'.base
    <3>1. calls # <<>> => Len(calls) \in 1..Len(calls)
      BY DEF TypeOK
    <3> QED  BY <2>1, <2>2, <3>1 DEF Innermost
  <2>6. \A k \in 1..Len(calls) : calls[k].base <= Len(frames')
    BY <1>3, <2>2
  <2>7. Innermost' = Innermost
    BY <1>2 DEF Innermost
  <2> QED  BY <1>2, <2>2, <2>3, <2>4, <2>5, <2>6, <2>7 DEF Nested
<1>7. NameKept'
  <2>1. \A i \in 1..Len(saved) : ~Named(saved[i])
    BY DEF Named, SavedSettings, Restore
  <2> QED  BY <1>1, <1>2, <2>1, NamePushed DEF NameKept
<1>8. CASE Any'
  BY <1>4, <1>5, <1>6, <1>7, <1>8 DEF Guarded
<1>9. CASE ~Any'
  <2>1. before' = before /\ ~Any
    BY <1>9 DEF Any
  <2>2. PICK s \in before : KeptBy(s, frames, env)
    BY <2>1 DEF Kept
  <2>3. CASE Outside
    <3>1. Len(frames) = 0 /\ frames' = saved
      BY <1>2, <2>3 DEF Nested, Outside
    <3>2. saved = SavedSettings(env) /\ Len(saved) = 3
      BY <1>9, <2>3 DEF Any, SavedSettings
    <3>3. KeptBy(s, frames', env')
      BY <2>2, <3>1, <3>2 DEF KeptBy, SavedSettings, Restore
    <3>4. Guarded'
      BY <1>2, <2>3, <3>1, <3>2 DEF Guarded, Outside
    <3> QED  BY <1>4, <1>5, <1>6, <1>7, <2>1, <3>3, <3>4 DEF Kept
  <2>4. CASE ~Outside
    <3>1. Len(frames) >= 3
      BY <1>2, <2>1, <2>4 DEF Guarded, Outside
    <3>2. KeptBy(s, frames', env')
      BY <1>2, <2>2, <3>1, KeptPushed
    <3>3. Guarded'
      BY <1>2, <1>3, <2>1, <3>1 DEF Guarded
    <3> QED  BY <1>4, <1>5, <1>6, <1>7, <2>1, <3>2, <3>3 DEF Kept
  <2> QED  BY <2>3, <2>4
<1> QED  BY <1>8, <1>9

\* load-file pushes the frames before it changes what they restore.
LEMMA LoadFileInv ==
  ASSUME LoaderInv, NEW f \in File, LoadFile(f) PROVE LoaderInv'
<1>1. env \in Env
  BY DEF LoaderInv, TypeOK
<1>2. SavedSettings(env) \in Seq(Frame) /\ SavedSettings(env) # <<>>
  BY <1>1, RestoreIsFrame DEF SavedSettings
<1>3. Begin(f, SavedSettings(env)) /\ before' = before
  BY DEF LoadFile, SavedSettings
<1> QED  BY <1>2, <1>3, BeginInv

\* raw-load-file pushes none: at the console it promises nothing, in a load that load
\* has the frames.
LEMMA RawLoadFileInv ==
  ASSUME LoaderInv, NEW f \in File, RawLoadFile(f) PROVE LoaderInv'
<1>1. <<>> \in Seq(Frame) /\ Begin(f, <<>>)
  BY DEF RawLoadFile
<1>2. IF Outside THEN before' = Setup ELSE before' = before
  BY DEF RawLoadFile
<1> QED  BY <1>1, <1>2, BeginInv

\* A file is opened, and its close is pushed.
LEMMA OpenFileInv ==
  ASSUME LoaderInv, OpenFile PROVE LoaderInv'
<1> USE DEF LoaderInv
<1>1. PICK fd \in Fd \ open :
        /\ open' = open \cup {fd}
        /\ pending' = [pending EXCEPT !.fd = fd]
        /\ frames' = Append(frames, CloseFile(fd))
  BY DEF OpenFile
<1> DEFINE gs == <<CloseFile(fd)>>
<1>2. /\ gs \in Seq(Frame) /\ frames \in Seq(Frame) /\ frames' = frames \o gs
      /\ frames' \in Seq(Frame) /\ Len(frames') = Len(frames) + 1 /\ Len(frames) \in Nat
      /\ \A i \in 1..Len(frames) : frames'[i] = frames[i]
      /\ frames'[Len(frames')] = CloseFile(fd)
  <2>1. CloseFile(fd) \in Frame /\ frames \in Seq(Frame)
    BY OtherFrames DEF TypeOK
  <2>2. frames' = Append(frames, CloseFile(fd))
    BY <1>1
  <2> QED  BY <2>1, <2>2
<1>3. /\ env' = env /\ calls' = calls /\ before' = before /\ pc = "open" /\ pc' = "read"
  BY DEF OpenFile
<1>4. /\ pending' \in Load /\ pending'.file = pending.file
      /\ pending'.base = pending.base /\ pending.base \in Nat
  BY <1>1 DEF TypeOK, Load
<1>5. TypeOK'
  BY <1>1, <1>2, <1>3, <1>4 DEF TypeOK
<1>6. ClosePending'
  <2> SUFFICES ASSUME NEW g \in open'
               PROVE  \E i \in 1..Len(frames') :
                        frames'[i].kind = "close" /\ frames'[i].fd = g
    BY DEF ClosePending
  <2>1. CASE g = fd
    <3>1. /\ Len(frames') \in 1..Len(frames')
          /\ frames'[Len(frames')].kind = "close" /\ frames'[Len(frames')].fd = g
      BY <1>2, <2>1 DEF CloseFile
    <3> QED  BY <3>1
  <2>2. CASE g \in open
    <3>1. PICK i \in 1..Len(frames) : frames[i].kind = "close" /\ frames[i].fd = g
      BY <2>2 DEF ClosePending
    <3>2. i \in 1..Len(frames') /\ frames'[i] = frames[i]
      BY <1>2
    <3> QED  BY <3>1, <3>2
  <2> QED  BY <1>1, <2>1, <2>2
<1>7. Nested'
  <2>1. \A k \in 1..Len(calls) : /\ k = 1 => calls[k].base = 0
                                 /\ calls[k].base <= Len(frames')
                                 /\ \A j \in k..Len(calls) : calls[k].base <= calls[j].base
    BY <1>2, <1>3, CallTypes DEF Nested
  <2>2. /\ pending'.base <= Len(frames')
        /\ calls = <<>> => pending'.base = 0
        /\ calls # <<>> => Innermost.base <= pending'.base
    BY <1>2, <1>3, <1>4 DEF Nested
  <2>3. Innermost' = Innermost
    BY <1>3 DEF Innermost
  <2> QED  BY <1>3, <2>1, <2>2, <2>3 DEF Nested
<1>8. NameKept'
  <2>1. \A i \in 1..Len(gs) : ~Named(gs[i])
    BY DEF Named, CloseFile
  <2> HIDE DEF gs
  <2> QED  BY <1>2, <1>3, <2>1, NamePushed DEF NameKept
<1>9. (Any \/ Kept)' /\ Guarded'
  <2>1. CASE Any
    BY <1>3, <2>1 DEF Any, Guarded
  <2>2. CASE ~Any
    <3>1. Len(frames) >= 3
      BY <1>3, <2>2 DEF Guarded
    <3>2. PICK s \in before : KeptBy(s, frames, env)
      BY <2>2 DEF Kept
    <3> HIDE DEF gs
    <3>3. KeptBy(s, frames', env')
      BY <1>2, <3>1, <3>2, KeptPushed
    <3>4. Guarded'
      BY <1>2, <1>3, <1>4, <2>2, <3>1 DEF Guarded, Any
    <3> QED  BY <1>3, <3>3, <3>4 DEF Kept
  <2> QED  BY <2>1, <2>2
<1> QED  BY <1>5, <1>6, <1>7, <1>8, <1>9

\* The text of the file begins.
LEMMA ReadFileInv ==
  ASSUME LoaderInv, ReadFile PROVE LoaderInv'
<1> USE DEF LoaderInv
<1> DEFINE gs == <<Restore("being_loaded", env), Restore("line", env), AddLinesRead,
                   CheckDepth>>
           call == [file |-> pending.file, base |-> pending.base, line |-> 1]
<1>1. /\ frames' = frames \o gs
      /\ env' = [env EXCEPT !.being_loaded = pending.file, !.line = 1]
      /\ calls' = Append(calls, call)
      /\ pending' = NoLoad /\ pc = "read" /\ pc' = "text" /\ open' = open /\ before' = before
  BY DEF ReadFile, ReadFileWith
<1>2. /\ env \in Env /\ gs \in Seq(Frame) /\ frames \in Seq(Frame)
      /\ gs # <<>> /\ Named(gs[1]) /\ gs[1].value = env.being_loaded
  <2>1. env \in Env /\ frames \in Seq(Frame)
    BY DEF TypeOK
  <2>2. /\ Restore("being_loaded", env) \in Frame /\ Restore("line", env) \in Frame
        /\ AddLinesRead \in Frame /\ CheckDepth \in Frame
    BY <2>1, RestoreIsFrame, OtherFrames
  <2>3. gs \in Seq(Frame) /\ gs # <<>> /\ gs[1] = Restore("being_loaded", env)
    BY <2>2
  <2> QED  BY <2>1, <2>3 DEF Named, Restore
<1>3. Len(gs) = 4
  OBVIOUS
<1> HIDE DEF gs
<1>4. /\ frames' \in Seq(Frame) /\ Len(frames') = Len(frames) + 4 /\ Len(frames) \in Nat
      /\ \A i \in 1..Len(frames) : frames'[i] = frames[i]
  <2>1. frames' = frames \o gs /\ gs \in Seq(Frame) /\ frames \in Seq(Frame)
    BY <1>1, <1>2
  <2>2. /\ frames \o gs \in Seq(Frame) /\ Len(frames \o gs) = Len(frames) + Len(gs)
        /\ Len(frames) \in Nat /\ \A i \in 1..Len(frames) : (frames \o gs)[i] = frames[i]
    BY <2>1, Concatenated
  <2> QED  BY <1>3, <2>1, <2>2
<1>5. /\ call \in Call /\ call.base = pending.base /\ pending.base \in Nat
      /\ env' \in Env
  BY <1>1, <1>2 DEF TypeOK, Load, Call, Env
<1> HIDE DEF call
<1>6. /\ calls \in Seq(Call) /\ calls' \in Seq(Call) /\ Len(calls') = Len(calls) + 1
      /\ Len(calls) \in Nat /\ \A k \in 1..Len(calls) : calls'[k] = calls[k]
      /\ calls'[Len(calls) + 1] = call
  BY <1>1, <1>5 DEF TypeOK
<1>7. TypeOK'
  <2>1. pending' \in Load
    BY <1>1 DEF NoLoad, Load
  <2> QED  BY <1>1, <1>4, <1>5, <1>6, <2>1 DEF TypeOK
<1>8. ClosePending'
  <2> SUFFICES ASSUME NEW g \in open
               PROVE  \E i \in 1..Len(frames') :
                        frames'[i].kind = "close" /\ frames'[i].fd = g
    BY <1>1 DEF ClosePending
  <2>1. PICK i \in 1..Len(frames) : frames[i].kind = "close" /\ frames[i].fd = g
    BY DEF ClosePending
  <2>2. i \in 1..Len(frames') /\ frames'[i] = frames[i]
    BY <1>4
  <2> QED  BY <2>1, <2>2
<1>9. Nested'
  <2>1. \A k \in 1..Len(calls) : /\ k = 1 => calls[k].base = 0
                                 /\ calls[k].base <= Len(frames)
                                 /\ calls[k].base \in Nat
                                 /\ calls[k].base <= pending.base
                                 /\ \A j \in k..Len(calls) : calls[k].base <= calls[j].base
    <3> SUFFICES ASSUME NEW k \in 1..Len(calls)
                 PROVE  /\ k = 1 => calls[k].base = 0
                        /\ calls[k].base <= Len(frames)
                        /\ calls[k].base \in Nat
                        /\ calls[k].base <= pending.base
                        /\ \A j \in k..Len(calls) : calls[k].base <= calls[j].base
      OBVIOUS
    <3>1. /\ k = 1 => calls[k].base = 0
          /\ calls[k].base <= Len(frames) /\ calls[k].base \in Nat
          /\ \A j \in k..Len(calls) : calls[k].base <= calls[j].base
      BY <1>1, CallTypes DEF Nested
    <3>2. calls # <<>> /\ Len(calls) \in k..Len(calls) /\ Len(calls) \in 1..Len(calls)
      BY <1>6
    <3>3. calls[k].base <= calls[Len(calls)].base /\ calls[Len(calls)].base \in Nat
      BY <3>1, <3>2, CallTypes
    <3>4. calls[Len(calls)].base <= pending.base
      BY <1>1, <3>2 DEF Nested, Innermost
    <3>5. calls[k].base <= pending.base
      BY <1>5, <3>1, <3>3, <3>4
    <3> QED  BY <3>1, <3>5
  <2>2. /\ pending.base <= Len(frames)
        /\ calls = <<>> => pending.base = 0
    BY <1>1 DEF Nested
  <2>3. \A k \in 1..Len(calls') :
          /\ k = 1 => calls'[k].base = 0
          /\ calls'[k].base <= Len(frames')
          /\ \A j \in k..Len(calls') : calls'[k].base <= calls'[j].base
    <3> SUFFICES ASSUME NEW k \in 1..Len(calls')
                 PROVE  /\ k = 1 => calls'[k].base = 0
                        /\ calls'[k].base <= Len(frames')
                        /\ \A j \in k..Len(calls') : calls'[k].base <= calls'[j].base
      OBVIOUS
    <3>1. CASE k = Len(calls) + 1
      <4>1. calls'[k].base = pending.base
        BY <1>5, <1>6, <3>1
      <4>2. k = 1 => calls = <<>>
        BY <1>6, <3>1
      <4>3. \A j \in k..Len(calls') : j = k
        BY <1>6, <3>1
      <4> QED  BY <1>4, <1>5, <2>2, <4>1, <4>2, <4>3
    <3>2. CASE k # Len(calls) + 1
      <4>1. k \in 1..Len(calls) /\ calls'[k] = calls[k]
        BY <1>6, <3>2
      <4>2. \A j \in k..Len(calls') : calls'[k].base <= calls'[j].base
        <5> SUFFICES ASSUME NEW j \in k..Len(calls')
                     PROVE  calls'[k].base <= calls'[j].base
          OBVIOUS
        <5>1. CASE j = Len(calls) + 1
          BY <1>5, <1>6, <2>1, <4>1, <5>1
        <5>2. CASE j # Len(calls) + 1
          <6>1. j \in k..Len(calls) /\ j \in 1..Len(calls) /\ calls'[j] = calls[j]
            BY <1>6, <4>1, <5>2
          <6> QED  BY <2>1, <4>1, <6>1
        <5> QED  BY <5>1, <5>2
      <4>3. calls[k].base <= Len(frames')
        BY <1>4, <2>1, <4>1
      <4> QED  BY <2>1, <4>1, <4>2, <4>3
    <3> QED  BY <3>1, <3>2
  <2>4. calls' # <<>>
    BY <1>6
  <2> QED  BY <1>1, <2>3, <2>4 DEF Nested
<1>10. NameKept'
  BY <1>1, <1>2, NamePushed DEF NameKept
<1>11. (Any \/ Kept)' /\ Guarded'
  <2>1. CASE Any
    BY <1>1, <2>1 DEF Any, Guarded
  <2>2. CASE ~Any
    <3>1. /\ Len(frames) >= 3 /\ (calls # <<>> => pending.base >= 3)
          /\ \A k \in 2..Len(calls) : calls[k].base >= 3
      BY <1>1, <2>2 DEF Guarded
    <3>2. PICK s \in before : KeptBy(s, frames, env)
      BY <2>2 DEF Kept
    <3>3. KeptBy(s, frames', env')
      BY <1>1, <1>2, <3>1, <3>2, KeptPushed
    <3>4. \A k \in 2..Len(calls') : calls'[k].base >= 3
      <4> SUFFICES ASSUME NEW k \in 2..Len(calls') PROVE calls'[k].base >= 3
        OBVIOUS
      <4>1. CASE k = Len(calls) + 1
        <5>1. calls # <<>>
          BY <1>6, <4>1
        <5> QED  BY <1>5, <1>6, <3>1, <4>1, <5>1
      <4>2. CASE k # Len(calls) + 1
        BY <1>6, <3>1, <4>2
      <4> QED  BY <4>1, <4>2
    <3>5. Guarded'
      BY <1>1, <1>4, <3>1, <3>4 DEF Guarded
    <3> QED  BY <1>1, <3>3, <3>5 DEF Kept
  <2> QED  BY <2>1, <2>2
<1> QED  BY <1>7, <1>8, <1>9, <1>10, <1>11

\* The steps that only throw, or only end a text, or only go back to typing.
LEMMA ThrowInv ==
  ASSUME LoaderInv, OpenFails \/ ReadFails \/ Error PROVE LoaderInv'
<1> USE DEF LoaderInv
<1>1. /\ env' = [env EXCEPT !.out_channel = "stdout"] /\ pc' = "unwind"
      /\ frames' = frames /\ calls' = calls /\ before' = before
      /\ open' \subseteq open /\ pending' \in {pending, NoLoad}
  BY DEF OpenFails, ReadFails, Error, Throw
<1>2. /\ env' \in Env /\ env'.being_loaded = env.being_loaded
      /\ env'.radix = env.radix /\ env'.state = env.state /\ env'.current = env.current
  BY <1>1 DEF TypeOK, Env
<1>3. NoLoad \in Load
  BY DEF NoLoad, Load
<1>4. TypeOK'
  BY <1>1, <1>2, <1>3 DEF TypeOK
<1>5. ClosePending' /\ Nested' /\ Guarded'
  BY <1>1 DEF ClosePending, Nested, Guarded
<1>6. NameKept' /\ (Any \/ Kept)'
  BY <1>1, <1>2 DEF NameKept, NameKeptBy, Any, Kept, KeptBy
<1> QED  BY <1>4, <1>5, <1>6

\* The end of a text leaves its frames to be discharged.
LEMMA EndOfTextInv ==
  ASSUME LoaderInv, EndOfText PROVE LoaderInv'
<1> USE DEF LoaderInv
<1>1. TypeOK'
  BY DEF EndOfText, TypeOK
<1>2. ClosePending' /\ NameKept' /\ (Any \/ Kept)'
  BY DEF EndOfText, ClosePending, NameKept, Any, Kept
<1>3. Nested' /\ Guarded'
  BY DEF EndOfText, Nested, Guarded, Any, Outside, Innermost
<1> QED  BY <1>1, <1>2, <1>3

\* At the console nothing is left to discharge.
LEMMA TypingInv ==
  ASSUME LoaderInv, FileAssumption, Typing \/ Unwound PROVE LoaderInv'
<1> USE DEF LoaderInv
<1>1. /\ env' = [env EXCEPT !.being_loaded = NoFile, !.out_channel = "stderr"]
      /\ pc' = "text" /\ calls' = <<>> /\ frames' = frames /\ frames = <<>>
      /\ open' = open /\ pending' = pending /\ before' = before
  BY DEF Typing, Unwound, Outside, Nested
<1>2. /\ env' \in Env /\ env'.being_loaded \notin File
      /\ env'.radix = env.radix /\ env'.state = env.state /\ env'.current = env.current
  BY <1>1 DEF TypeOK, Env, FileAssumption
<1>3. TypeOK'
  <2>1. calls' \in Seq(Call)
    BY <1>1
  <2> QED  BY <1>1, <1>2, <2>1 DEF TypeOK
<1>4. Len(frames') = 0 /\ Len(calls') = 0
  BY <1>1
<1>5. ClosePending' /\ Nested' /\ Guarded'
  BY <1>1, <1>4 DEF ClosePending, Nested, Guarded
<1>6. NameKept'
  <2>1. /\ \A j \in 1..Len(frames') : j < 1 => ~Named(frames'[j])
        /\ ~(1 <= Len(frames'))
    BY <1>4
  <2> QED  BY <1>2, <2>1 DEF NameKept, NameKeptBy
<1>7. (Any \/ Kept)'
  BY <1>1, <1>2 DEF Any, Kept, KeptBy
<1> QED  BY <1>3, <1>5, <1>6, <1>7

\* A load returns when the frames are those that it found.
LEMMA ReturnedInv ==
  ASSUME LoaderInv, Returned PROVE LoaderInv'
<1> USE DEF LoaderInv
<1>1. /\ env' = env /\ open' = open /\ frames' = frames /\ pending' = pending
      /\ before' = before /\ pc = "return" /\ pc' = "text"
      /\ calls' = SubSeq(calls, 1, Len(calls) - 1) /\ Len(frames) = calls[Len(calls)].base
  BY DEF Returned, Innermost
<1>2. calls \in Seq(Call) /\ calls # <<>>
  BY <1>1 DEF TypeOK, Nested
<1>3. /\ calls' \in Seq(Call) /\ Len(calls) \in Nat \ {0} /\ Len(calls') = Len(calls) - 1
      /\ \A k \in 1..Len(calls') : calls'[k] = calls[k]
  BY <1>1, <1>2, AllButLast
<1>4. TypeOK'
  BY <1>1, <1>3 DEF TypeOK
<1>5. ClosePending' /\ NameKept' /\ (Any \/ Kept)'
  BY <1>1 DEF ClosePending, NameKept, Any, Kept
<1>6. Nested'
  <2>1. \A k \in 1..Len(calls') :
          /\ k = 1 => calls'[k].base = 0
          /\ calls'[k].base <= Len(frames')
          /\ \A j \in k..Len(calls') : calls'[k].base <= calls'[j].base
    <3> SUFFICES ASSUME NEW k \in 1..Len(calls')
                 PROVE  /\ k = 1 => calls'[k].base = 0
                        /\ calls'[k].base <= Len(frames')
                        /\ \A j \in k..Len(calls') : calls'[k].base <= calls'[j].base
      OBVIOUS
    <3>1. k \in 1..Len(calls) /\ calls'[k] = calls[k]
      BY <1>3
    <3>2. \A j \in k..Len(calls') : j \in k..Len(calls) /\ calls'[j] = calls[j]
      BY <1>3
    <3>3. /\ k = 1 => calls[k].base = 0
          /\ calls[k].base <= Len(frames)
          /\ \A j \in k..Len(calls) : calls[k].base <= calls[j].base
      BY <1>1, <3>1 DEF Nested
    <3> QED  BY <1>1, <3>1, <3>2, <3>3
  <2>2. calls' = <<>> => frames' = <<>>
    <3>1. calls' = <<>> => Len(calls) = 1
      BY <1>3
    <3>2. Len(calls) = 1 => Len(frames) = 0
      BY <1>1 DEF Nested
    <3>3. Len(frames) = 0 => frames = <<>>
      BY DEF TypeOK
    <3> QED  BY <1>1, <3>1, <3>2, <3>3
  <2> QED  BY <1>1, <2>1, <2>2 DEF Nested
<1>7. Guarded'
  <2> SUFFICES ASSUME ~Any
               PROVE  /\ \A k \in 2..Len(calls') : calls'[k].base >= 3
                      /\ calls' # <<>> => Len(frames') >= 3
    BY <1>1 DEF Guarded, Any
  <2>1. \A k \in 2..Len(calls) : calls[k].base >= 3
    BY <1>1 DEF Guarded
  <2>2. \A k \in 2..Len(calls') : calls'[k].base >= 3
    BY <1>3, <2>1
  <2>3. calls' # <<>> => Len(calls) \in 2..Len(calls)
    BY <1>3
  <2> QED  BY <1>1, <2>1, <2>2, <2>3
<1> QED  BY <1>4, <1>5, <1>6, <1>7

\* What discharging the newest frame does.
LEMMA DischargeDoes ==
  ASSUME TypeOK, frames # <<>>, Discharge
  PROVE  /\ frames' = SubSeq(frames, 1, Len(frames) - 1)
         /\ env' \in Env
         /\ \A v \in {"being_loaded", "line", "radix", "state", "current"} :
              env'[v] = IF Newest.kind = "restore" /\ Newest.var = v THEN Newest.value
                                                                     ELSE env[v]
         /\ open' = IF Newest.kind = "close" THEN open \ {Newest.fd} ELSE open
         /\ pc' \in {pc, "unwind"}
<1>1. /\ frames \in Seq(Frame) /\ Len(frames) \in 1..Len(frames) /\ env \in Env
      /\ open \in SUBSET Fd
  BY DEF TypeOK
<1>2. Newest \in Frame
  BY <1>1 DEF Newest
<1>3. frames' = SubSeq(frames, 1, Len(frames) - 1)
  BY DEF Discharge, ButNewest
<1>4. CASE Newest.kind = "restore"
  <2>1. /\ env' = [env EXCEPT ![Newest.var] = Newest.value]
        /\ open' = open /\ pc' = pc
    BY <1>4 DEF Discharge
  <2>2. /\ env' \in Env
        /\ \A v \in {"being_loaded", "line", "radix", "state", "current"} :
             env'[v] = IF v = Newest.var THEN Newest.value ELSE env[v]
    BY <1>1, <1>2, <1>4, <2>1, RestoreTypes
  <2> QED  BY <1>3, <1>4, <2>1, <2>2
<1>5. CASE Newest.kind # "restore"
  <2>1. /\ env' = env \/ env' = [env EXCEPT !.out_channel = "stdout"]
        /\ open' = IF Newest.kind = "close" THEN open \ {Newest.fd} ELSE open
        /\ pc' \in {pc, "unwind"}
    BY <1>5 DEF Discharge, Throw
  <2>2. /\ env' \in Env /\ env'["being_loaded"] = env["being_loaded"]
        /\ env'["line"] = env["line"] /\ env'["radix"] = env["radix"] /\ env'["state"] = env["state"]
        /\ env'["current"] = env["current"]
    BY <1>1, <2>1 DEF Env
  <2> QED  BY <1>3, <1>5, <2>1, <2>2
<1> QED  BY <1>4, <1>5

\* The frame discharged is the one whose promise is kept by it.
LEMMA CleanupInv ==
  ASSUME LoaderInv, Cleanup PROVE LoaderInv'
<1> USE DEF LoaderInv
<1>1. frames \in Seq(Frame) /\ frames # <<>> /\ env \in Env
  <2>1. pc = "return" => calls # <<>> /\ Len(calls) \in 1..Len(calls)
    BY CallTypes DEF Nested
  <2>2. pc = "return" => Innermost.base \in Nat
    BY <2>1, CallTypes DEF Innermost
  <2>3. frames = <<>> => Len(frames) = 0
    OBVIOUS
  <2> QED  BY <2>2, <2>3 DEF TypeOK, Cleanup
<1>2. /\ frames' = SubSeq(frames, 1, Len(frames) - 1)
      /\ env' \in Env
      /\ \A v \in {"being_loaded", "radix", "state", "current"} :
           env'[v] = IF Newest.kind = "restore" /\ Newest.var = v THEN Newest.value
                                                                  ELSE env[v]
      /\ open' = IF Newest.kind = "close" THEN open \ {Newest.fd} ELSE open
      /\ pc' \in {pc, "unwind"}
  BY <1>1, DischargeDoes DEF Cleanup
<1>3. /\ calls' = calls /\ pending' = pending /\ before' = before
      /\ pc \in {"return", "unwind"}
      /\ pc = "return" => Len(frames) > Innermost.base
  BY DEF Cleanup
<1>4. /\ frames' \in Seq(Frame) /\ Len(frames) \in Nat \ {0}
      /\ Len(frames') = Len(frames) - 1
      /\ \A i \in 1..Len(frames') : frames'[i] = frames[i]
  BY <1>1, <1>2, AllButLast
<1>5. TypeOK'
  BY <1>2, <1>3, <1>4 DEF TypeOK
<1>6. ClosePending'
  <2> SUFFICES ASSUME NEW g \in open'
               PROVE  \E i \in 1..Len(frames') :
                        frames'[i].kind = "close" /\ frames'[i].fd = g
    BY DEF ClosePending
  <2>1. g \in open /\ ~(Newest.kind = "close" /\ Newest.fd = g)
    BY <1>2
  <2>2. PICK i \in 1..Len(frames) : frames[i].kind = "close" /\ frames[i].fd = g
    BY <2>1 DEF ClosePending
  <2>3. i # Len(frames)
    BY <2>1, <2>2 DEF Newest
  <2>4. i \in 1..Len(frames')
    BY <1>4, <2>3
  <2> QED  BY <1>4, <2>2, <2>4
<1>7. NameKept'
  <2>1. env'.being_loaded = IF Named(frames[Len(frames)]) THEN frames[Len(frames)].value
                                                          ELSE env.being_loaded
    BY <1>2 DEF Named, Newest
  <2> QED  BY <1>1, <1>2, <2>1, NamePopped DEF NameKept
<1>8. (Any \/ Kept)'
  <2>1. CASE Any
    BY <1>3, <2>1 DEF Any
  <2>2. CASE ~Any
    <3>1. PICK s \in before : KeptBy(s, frames, env)
      BY <2>2 DEF Kept
    <3>2. s \in Setup
      BY DEF TypeOK
    <3>3. \A v \in {"radix", "state", "current"} :
            env'[v] = IF frames[Len(frames)].kind = "restore"
                           /\ frames[Len(frames)].var = v
                        THEN frames[Len(frames)].value ELSE env[v]
      BY <1>2 DEF Newest
    <3>4. KeptBy(s, frames', env')
      BY <1>1, <1>2, <3>1, <3>2, <3>3, KeptPopped
    <3> QED  BY <1>3, <3>4 DEF Kept
  <2> QED  BY <2>1, <2>2
<1>9. Nested' /\ Guarded'
  <2>1. CASE pc' = "unwind"
    BY <2>1 DEF Nested, Guarded
  <2>2. CASE pc' # "unwind"
    <3>1. pc = "return" /\ pc' = "return" /\ calls # <<>> /\ Len(calls) \in 1..Len(calls)
      BY <1>2, <1>3, <2>2, CallTypes DEF Nested
    <3>2. Innermost.base \in Nat /\ Innermost.base <= Len(frames')
      <4>1. Innermost.base \in Nat
        BY <3>1, CallTypes DEF Innermost
      <4> QED  BY <1>3, <1>4, <3>1, <4>1
    <3>3. \A k \in 1..Len(calls) : /\ k = 1 => calls[k].base = 0
                                   /\ calls[k].base <= Len(frames')
                                   /\ \A j \in k..Len(calls) : calls[k].base <= calls[j].base
      <4> SUFFICES ASSUME NEW k \in 1..Len(calls)
                   PROVE  /\ k = 1 => calls[k].base = 0
                          /\ calls[k].base <= Len(frames')
                          /\ \A j \in k..Len(calls) : calls[k].base <= calls[j].base
        OBVIOUS
      <4>1. /\ k = 1 => calls[k].base = 0
            /\ \A j \in k..Len(calls) : calls[k].base <= calls[j].base
        BY <3>1 DEF Nested
      <4>2. Len(calls) \in k..Len(calls)
        BY <3>1
      <4>3. calls[k].base <= Innermost.base /\ calls[k].base \in Nat
        BY <4>1, <4>2, CallTypes DEF Innermost
      <4>4. calls[k].base <= Len(frames')
        BY <1>4, <3>2, <4>3
      <4> QED  BY <4>1, <4>4
    <3>4. Nested'
      BY <1>3, <3>1, <3>3 DEF Nested
    <3>5. Guarded'
      BY <1>3, <3>1 DEF Guarded, Any
    <3> QED  BY <3>4, <3>5
  <2> QED  BY <2>1, <2>2
<1> QED  BY <1>5, <1>6, <1>7, <1>8, <1>9

-----------------------------------------------------------------------------
(* The theorems *)

\* The invariant holds of every behaviour: whatever a text does, the frames that were
\* pushed say what is still to be closed and restored.
THEOREM LoaderInvariant ==
  ASSUME FileAssumption, ChosenAssumption PROVE Spec => []LoaderInv
<1>1. Init => LoaderInv
  BY InitInv
<1>2. LoaderInv /\ [Next]_vars => LoaderInv'
  <2> SUFFICES ASSUME LoaderInv, [Next]_vars PROVE LoaderInv'
    OBVIOUS
  <2>1. CASE UNCHANGED vars
    BY <2>1 DEF vars, LoaderInv, TypeOK, ClosePending, Nested, NameKept, Any, Kept, Guarded,
                Innermost
  <2>2. CASE Change
    BY <2>2, ChangeInv
  <2>3. CASE Newline
    BY <2>3, NewlineInv
  <2>4. CASE \E f \in File : RawLoadFile(f) \/ LoadFile(f)
    BY <2>4, RawLoadFileInv, LoadFileInv
  <2>5. CASE OpenFile
    BY <2>5, OpenFileInv
  <2>6. CASE ReadFile
    BY <2>6, ReadFileInv
  <2>7. CASE OpenFails \/ ReadFails \/ Error
    BY <2>7, ThrowInv
  <2>8. CASE EndOfText
    BY <2>8, EndOfTextInv
  <2>9. CASE Cleanup
    BY <2>9, CleanupInv
  <2>10. CASE Returned
    BY <2>10, ReturnedInv
  <2>11. CASE Typing \/ Unwound
    BY <2>11, TypingInv
  <2> QED  BY <2>1, <2>2, <2>3, <2>4, <2>5, <2>6, <2>7, <2>8, <2>9, <2>10, <2>11 DEF Next
<1> QED  BY <1>1, <1>2, PTL DEF Spec

\* For any files nested to any depth, ending or failing at any point: when the console
\* gets its turn every file is closed, and it is located in none.
THEOREM AllClosed ==
  ASSUME FileAssumption, ChosenAssumption PROVE Spec => []NothingLeftOpen
<1>1. LoaderInv => NothingLeftOpen
  <2> SUFFICES ASSUME LoaderInv, AtConsole
               PROVE  open = {} /\ frames = <<>> /\ env.being_loaded \notin File
    BY DEF NothingLeftOpen
  <2>1. frames = <<>> /\ Len(frames) = 0
    BY DEF LoaderInv, Nested, AtConsole, Outside
  <2>2. open = {}
    BY <2>1 DEF LoaderInv, ClosePending
  <2>3. env.being_loaded \notin File
    BY <2>1 DEF LoaderInv, NameKept, NameKeptBy
  <2> QED  BY <2>1, <2>2, <2>3
<1> QED  BY <1>1, LoaderInvariant, PTL

\* For any files nested to any depth, whatever they do to radix, mode and current chain
\* and however they end: load-file gives them back to the console as it found them.
THEOREM AllRestored ==
  ASSUME FileAssumption, ChosenAssumption PROVE Spec => []SettingsRestored
<1>1. LoaderInv => SettingsRestored
  <2> SUFFICES ASSUME LoaderInv, AtConsole PROVE Settings(env) \in before
    BY DEF SettingsRestored
  <2>1. env \in Env /\ before \in SUBSET Setup /\ Settings(env) \in Setup
    BY SettingsTypes DEF LoaderInv, TypeOK
  <2>2. CASE Any
    BY <2>1, <2>2 DEF Any
  <2>3. CASE ~Any
    <3>1. Len(frames) = 0
      BY DEF LoaderInv, Nested, AtConsole, Outside
    <3>2. PICK s \in before : KeptBy(s, frames, env)
      BY <2>3 DEF LoaderInv, Kept
    <3>3. s \in Setup /\ s.radix = env.radix /\ s.state = env.state /\ s.current = env.current
      BY <2>1, <3>1, <3>2 DEF KeptBy
    <3>4. s = Settings(env)
      BY <2>1, <3>3, SettingsTypes DEF Setup
    <3> QED  BY <3>4
  <2> QED  BY <2>2, <2>3
<1> QED  BY <1>1, LoaderInvariant, PTL

-----------------------------------------------------------------------------
(* Where a text is, and how many lines have been read *)

Lined(f) == f.kind = "restore" /\ f.var = "line"
Idle(f) == ~Named(f) /\ ~Lined(f) /\ f.kind # "lines"

\* What discharging the frames above the oldest i would make of being_loaded and of line
\* (name[i], line[i]), and what discharging these i would then add to lines_read (owed[i]).
Foretold(fs, e, name, line, owed) ==
  /\ name[Len(fs)] = e.being_loaded /\ line[Len(fs)] = e.line
  /\ owed[0] = 0
  /\ \A i \in 0..Len(fs) : line[i] \in Nat /\ owed[i] \in Int
  /\ \A i \in 1..Len(fs) :
       /\ name[i - 1] = IF Named(fs[i]) THEN fs[i].value ELSE name[i]
       /\ line[i - 1] = IF Lined(fs[i]) THEN fs[i].value ELSE line[i]
       /\ owed[i] = owed[i - 1] + (IF fs[i].kind = "lines" THEN line[i] - 1 ELSE 0)

\* Of the frames above lo, the last that has to do with lines counts them, and the one
\* below it restores line: the lines counted from now on are those of one text.
Counting(fs, lo, hi) ==
  \E t \in Nat :
    /\ t \in lo + 2..hi
    /\ fs[t].kind = "lines" /\ Lined(fs[t - 1])
    /\ \A i \in t + 1..hi : ~Lined(fs[i]) /\ fs[i].kind # "lines"

\* A load finds, where its frames begin, the place in the text of the load outside it.
Located(name, line) ==
  /\ \A k \in 1..Len(calls) - 1 : /\ Counting(frames, calls[k].base, calls[k + 1].base)
                                  /\ name[calls[k + 1].base] = calls[k].file
                                  /\ line[calls[k + 1].base] = calls[k].line
  /\ pc = "text" /\ calls # <<>> => Counting(frames, Innermost.base, Len(frames))
  /\ pc \in {"open", "read"} =>
       /\ calls # <<>> => Counting(frames, Innermost.base, pending.base)
       /\ name[pending.base] = env.being_loaded /\ line[pending.base] = env.line
  /\ pc \in {"text", "open", "read"} /\ calls # <<>> =>
       env.being_loaded = Innermost.file /\ env.line = Innermost.line

Accounted(name, line, owed) ==
  /\ Foretold(frames, env, name, line, owed)
  /\ lines_read + owed[Len(frames)] = newlines
  /\ pc # "unwind" => Located(name, line)

LinesInv ==
  /\ lines_read \in Int /\ newlines \in Int
  /\ \E name, line, owed : Accounted(name, line, owed)

\* Counting looks at no other frames.
LEMMA CountingSame ==
  ASSUME NEW fs, NEW gs, NEW lo \in Nat, NEW hi \in Nat, Counting(fs, lo, hi),
         \A i \in 1..hi : gs[i] = fs[i]
  PROVE  Counting(gs, lo, hi)
<1>1. PICK t \in Nat :
        /\ t \in lo + 2..hi
        /\ fs[t].kind = "lines" /\ Lined(fs[t - 1])
        /\ \A i \in t + 1..hi : ~Lined(fs[i]) /\ fs[i].kind # "lines"
  BY DEF Counting
<1>2. t \in 1..hi /\ t - 1 \in 1..hi /\ \A i \in t + 1..hi : i \in 1..hi
  BY <1>1
<1>3. gs[t] = fs[t] /\ gs[t - 1] = fs[t - 1] /\ \A i \in t + 1..hi : gs[i] = fs[i]
  BY <1>2
<1> QED  BY <1>1, <1>3 DEF Counting

\* Frames that have to do with neither name nor lines leave what is foretold.
LEMMA ForetoldPushed ==
  ASSUME NEW fs \in Seq(Frame), NEW gs \in Seq(Frame), NEW e, NEW e2, NEW name, NEW line,
         NEW owed, Foretold(fs, e, name, line, owed), \A i \in 1..Len(gs) : Idle(gs[i]),
         e2.being_loaded = e.being_loaded, e2.line = e.line
  PROVE  \E name2, line2, owed2 :
           /\ Foretold(fs \o gs, e2, name2, line2, owed2)
           /\ owed2[Len(fs \o gs)] = owed[Len(fs)]
           /\ \A i \in 0..Len(fs) : name2[i] = name[i] /\ line2[i] = line[i]
<1> DEFINE n == Len(fs)
           hs == fs \o gs
           name2 == [i \in Nat |-> IF i <= n THEN name[i] ELSE name[n]]
           line2 == [i \in Nat |-> IF i <= n THEN line[i] ELSE line[n]]
           owed2 == [i \in Nat |-> IF i <= n THEN owed[i] ELSE owed[n]]
<1>1. /\ n \in Nat /\ Len(gs) \in Nat /\ Len(hs) = n + Len(gs)
      /\ \A i \in 1..n : hs[i] = fs[i]
      /\ \A i \in n + 1..Len(hs) : i - n \in 1..Len(gs) /\ hs[i] = gs[i - n]
  OBVIOUS
<1> HIDE DEF hs, n
<1>2. \A i \in n + 1..Len(hs) : Idle(hs[i])
  BY <1>1
<1>3. /\ name[n] = e.being_loaded /\ line[n] = e.line /\ owed[0] = 0
      /\ \A i \in 0..n : line[i] \in Nat /\ owed[i] \in Int
      /\ \A i \in 1..n :
           /\ name[i - 1] = IF Named(fs[i]) THEN fs[i].value ELSE name[i]
           /\ line[i - 1] = IF Lined(fs[i]) THEN fs[i].value ELSE line[i]
           /\ owed[i] = owed[i - 1] + (IF fs[i].kind = "lines" THEN line[i] - 1 ELSE 0)
  BY DEF Foretold, n
<1>4. /\ \A i \in 0..n : name2[i] = name[i] /\ line2[i] = line[i] /\ owed2[i] = owed[i]
      /\ \A i \in n..Len(hs) :
           name2[i] = name[n] /\ line2[i] = line[n] /\ owed2[i] = owed[n]
  BY <1>1
<1> HIDE DEF name2, line2, owed2
<1>5. \A i \in 0..Len(hs) : line2[i] \in Nat /\ owed2[i] \in Int
  <2> SUFFICES ASSUME NEW i \in 0..Len(hs) PROVE line2[i] \in Nat /\ owed2[i] \in Int
    OBVIOUS
  <2>1. n \in 0..n /\ (i \in 0..n \/ i \in n..Len(hs))
    BY <1>1
  <2>2. CASE i \in 0..n
    BY <1>3, <1>4, <2>2
  <2>3. CASE i \in n..Len(hs)
    BY <1>3, <1>4, <2>1, <2>3
  <2> QED  BY <2>1, <2>2, <2>3
<1>6. \A i \in 1..Len(hs) :
        /\ name2[i - 1] = IF Named(hs[i]) THEN hs[i].value ELSE name2[i]
        /\ line2[i - 1] = IF Lined(hs[i]) THEN hs[i].value ELSE line2[i]
        /\ owed2[i] = owed2[i - 1] + (IF hs[i].kind = "lines" THEN line2[i] - 1 ELSE 0)
  <2> SUFFICES ASSUME NEW i \in 1..Len(hs)
               PROVE  /\ name2[i - 1] = IF Named(hs[i]) THEN hs[i].value ELSE name2[i]
                      /\ line2[i - 1] = IF Lined(hs[i]) THEN hs[i].value ELSE line2[i]
                      /\ owed2[i] = owed2[i - 1]
                                      + (IF hs[i].kind = "lines" THEN line2[i] - 1 ELSE 0)
    OBVIOUS
  <2>1. CASE i <= n
    <3>1. i \in 0..n /\ i - 1 \in 0..n /\ i \in 1..n
      BY <1>1, <2>1
    <3> QED  BY <1>1, <1>3, <1>4, <3>1
  <2>2. CASE i > n
    <3>1. i \in n..Len(hs) /\ i - 1 \in n..Len(hs) /\ i \in n + 1..Len(hs) /\ n \in 0..n
      BY <1>1, <2>2
    <3> QED  BY <1>2, <1>3, <1>4, <3>1 DEF Idle
  <2> QED  BY <1>1, <2>1, <2>2
<1>7. Foretold(hs, e2, name2, line2, owed2)
  <2>1. Len(hs) \in n..Len(hs) /\ 0 \in 0..n
    BY <1>1
  <2> QED  BY <1>3, <1>4, <1>5, <1>6, <2>1 DEF Foretold
<1>8. owed2[Len(hs)] = owed[n]
  <2>1. Len(hs) \in n..Len(hs)
    BY <1>1
  <2> QED  BY <1>4, <2>1
<1> QED  BY <1>4, <1>7, <1>8 DEF hs, n

\* Without its newest frame, the frames foretell what they did.
LEMMA ForetoldPopped ==
  ASSUME NEW fs \in Seq(Frame), fs # <<>>, NEW e, NEW e2, NEW name, NEW line, NEW owed,
         Foretold(fs, e, name, line, owed),
         LET f == fs[Len(fs)]
         IN  /\ e2.being_loaded = IF Named(f) THEN f.value ELSE e.being_loaded
             /\ e2.line = IF Lined(f) THEN f.value ELSE e.line
  PROVE  Foretold(SubSeq(fs, 1, Len(fs) - 1), e2, name, line, owed)
<1> DEFINE gs == SubSeq(fs, 1, Len(fs) - 1)
<1>1. /\ Len(gs) = Len(fs) - 1 /\ Len(fs) \in Nat \ {0}
      /\ \A i \in 1..Len(gs) : gs[i] = fs[i]
  BY AllButLast
<1> HIDE DEF gs
<1>2. Len(fs) \in 1..Len(fs)
  BY <1>1
<1>3. name[Len(gs)] = e2.being_loaded /\ line[Len(gs)] = e2.line
  BY <1>1, <1>2 DEF Foretold
<1>4. \A i \in 0..Len(gs) : i \in 0..Len(fs)
  BY <1>1
<1>5. \A i \in 1..Len(gs) : i \in 1..Len(fs) /\ gs[i] = fs[i]
  BY <1>1
<1> QED  BY <1>3, <1>4, <1>5 DEF Foretold, gs

\* Steps that leave the frames, the place and both counts alone.
LEMMA StillAccounted ==
  ASSUME LinesInv, frames' = frames, env'.being_loaded = env.being_loaded,
         env'.line = env.line, lines_read' = lines_read, newlines' = newlines,
         \A name, line : pc' # "unwind" /\ (pc # "unwind" => Located(name, line))
                           => Located(name, line)'
  PROVE  LinesInv'
<1>1. PICK name, line, owed : Accounted(name, line, owed)
  BY DEF LinesInv
<1>2. Foretold(frames', env', name, line, owed)
  BY <1>1 DEF Accounted, Foretold
<1>3. pc' # "unwind" => Located(name, line)'
  BY <1>1 DEF Accounted
<1>4. Accounted(name, line, owed)'
  BY <1>1, <1>2, <1>3 DEF Accounted
<1> QED  BY <1>4 DEF LinesInv

\* The settings and the output are no place, and an error or the end of a text moves none.
LEMMA ChangeLines ==
  ASSUME LoaderInv, LinesInv, ChosenAssumption, Change PROVE LinesInv'
<1>1. PICK settings \in Chosen, out \in {"stdout", "stderr"} :
        env' = [Overlay(env, settings) EXCEPT !.out_channel = out]
  BY DEF Change
<1>2. env \in Env /\ settings \in Setup
  BY <1>1 DEF LoaderInv, TypeOK, ChosenAssumption
<1>3. /\ Overlay(env, settings).being_loaded = env.being_loaded
      /\ Overlay(env, settings).line = env.line /\ Overlay(env, settings) \in Env
  BY <1>2, OverlayTypes, OverlayLine
<1>4. env'.being_loaded = env.being_loaded /\ env'.line = env.line
  BY <1>1, <1>3 DEF Env
<1>5. \A name, line : Located(name, line) => Located(name, line)'
  BY <1>4 DEF Located, Change, Innermost
<1>6. pc = "text" /\ frames' = frames /\ lines_read' = lines_read /\ newlines' = newlines
  BY DEF Change
<1> QED  BY <1>4, <1>5, <1>6, StillAccounted

LEMMA ThrowLines ==
  ASSUME LoaderInv, LinesInv, OpenFails \/ ReadFails \/ Error PROVE LinesInv'
<1>1. /\ env' = [env EXCEPT !.out_channel = "stdout"] /\ pc' = "unwind"
      /\ frames' = frames /\ lines_read' = lines_read /\ newlines' = newlines
  BY DEF OpenFails, ReadFails, Error, Throw
<1>2. env'.being_loaded = env.being_loaded /\ env'.line = env.line
  BY <1>1 DEF LoaderInv, TypeOK, Env
<1> QED  BY <1>1, <1>2, StillAccounted

LEMMA EndOfTextLines ==
  ASSUME LinesInv, EndOfText PROVE LinesInv'
<1>1. /\ env' = env /\ calls' = calls /\ pc = "text" /\ pc' = "return"
      /\ frames' = frames /\ lines_read' = lines_read /\ newlines' = newlines
  BY DEF EndOfText
<1>2. \A name, line : Located(name, line) => Located(name, line)'
  BY <1>1 DEF Located
<1> QED  BY <1>1, <1>2, StillAccounted

\* A load that returns has left the place to the load outside it.
LEMMA ReturnedLines ==
  ASSUME LoaderInv, LinesInv, Returned PROVE LinesInv'
<1>1. /\ env' = env /\ pc = "return" /\ pc' = "text" /\ frames' = frames
      /\ lines_read' = lines_read /\ newlines' = newlines
      /\ calls' = SubSeq(calls, 1, Len(calls) - 1) /\ Len(frames) = calls[Len(calls)].base
  BY DEF Returned, Innermost
<1>2. calls \in Seq(Call) /\ calls # <<>>
  BY <1>1 DEF LoaderInv, TypeOK, Nested
<1>3. /\ calls' \in Seq(Call) /\ Len(calls) \in Nat \ {0} /\ Len(calls') = Len(calls) - 1
      /\ \A k \in 1..Len(calls') : calls'[k] = calls[k]
  BY <1>1, <1>2, AllButLast
<1>4. PICK name, line, owed : Accounted(name, line, owed)
  BY DEF LinesInv
<1>5. Located(name, line) /\ name[Len(frames)] = env.being_loaded
      /\ line[Len(frames)] = env.line
  BY <1>1, <1>4 DEF Accounted, Foretold
<1>6. \A k \in 1..Len(calls') - 1 : /\ Counting(frames, calls'[k].base, calls'[k + 1].base)
                                    /\ name[calls'[k + 1].base] = calls'[k].file
                                    /\ line[calls'[k + 1].base] = calls'[k].line
  <2> SUFFICES ASSUME NEW k \in 1..Len(calls') - 1
               PROVE  /\ Counting(frames, calls'[k].base, calls'[k + 1].base)
                      /\ name[calls'[k + 1].base] = calls'[k].file
                      /\ line[calls'[k + 1].base] = calls'[k].line
    OBVIOUS
  <2>1. k \in 1..Len(calls) - 1 /\ k \in 1..Len(calls') /\ k + 1 \in 1..Len(calls')
    BY <1>3
  <2> QED  BY <1>3, <1>5, <2>1 DEF Located
<1>7. calls' # <<>> =>
        /\ Counting(frames, Innermost'.base, Len(frames))
        /\ env.being_loaded = Innermost'.file /\ env.line = Innermost'.line
  <2> SUFFICES ASSUME calls' # <<>>
               PROVE  /\ Counting(frames, Innermost'.base, Len(frames))
                      /\ env.being_loaded = Innermost'.file /\ env.line = Innermost'.line
    OBVIOUS
  <2>1. /\ Len(calls') \in 1..Len(calls') /\ Len(calls') \in 1..Len(calls) - 1
        /\ Len(calls') + 1 = Len(calls)
    BY <1>3
  <2>2. Innermost' = calls[Len(calls')]
    BY <1>3, <2>1 DEF Innermost
  <2> QED  BY <1>1, <1>5, <2>1, <2>2 DEF Located
<1>8. Located(name, line)'
  BY <1>1, <1>6, <1>7 DEF Located
<1>9. Accounted(name, line, owed)'
  BY <1>1, <1>4, <1>8 DEF Accounted
<1> QED  BY <1>1, <1>9 DEF LinesInv

\* The console is in no text, and no line is owed.
LEMMA TypingLines ==
  ASSUME LoaderInv, LinesInv, FileAssumption, Typing \/ Unwound PROVE LinesInv'
<1>1. /\ env' = [env EXCEPT !.being_loaded = NoFile, !.out_channel = "stderr"]
      /\ pc' = "text" /\ calls' = <<>> /\ frames' = frames /\ frames = <<>>
      /\ lines_read' = lines_read /\ newlines' = newlines
  BY DEF Typing, Unwound, Outside, LoaderInv, Nested
<1>2. env'.line = env.line /\ Len(frames) = 0 /\ Len(calls') = 0 /\ env.line \in Nat
  BY <1>1 DEF LoaderInv, TypeOK, Env
<1>3. PICK name, line, owed : Accounted(name, line, owed)
  BY DEF LinesInv
<1>4. PICK name2 : name2[0] = env'.being_loaded
  <2>1. [i \in {0} |-> env'.being_loaded][0] = env'.being_loaded
    OBVIOUS
  <2> QED  BY <2>1
<1>5. Foretold(frames', env', name2, line, owed)
  BY <1>1, <1>2, <1>3, <1>4 DEF Accounted, Foretold
<1>6. Located(name2, line)'
  BY <1>1, <1>2 DEF Located
<1>7. Accounted(name2, line, owed)'
  BY <1>1, <1>2, <1>3, <1>5, <1>6 DEF Accounted
<1> QED  BY <1>1, <1>7 DEF LinesInv

\* While frames are pushed that have to do with neither, the loads in progress stay
\* where they are: LocatedCalls is the part of Located that speaks of them.
LocatedCalls(fs, name, line) ==
  \A k \in 1..Len(calls) - 1 : /\ Counting(fs, calls[k].base, calls[k + 1].base)
                               /\ name[calls[k + 1].base] = calls[k].file
                               /\ line[calls[k + 1].base] = calls[k].line

\* The step leaves as they were the oldest m frames, all those below the innermost load
\* among them, and what is foretold of them.
SameUpTo(m, name, line, name2, line2) ==
  /\ m \in Nat /\ m <= Len(frames)
  /\ calls # <<>> => Innermost.base <= m
  /\ \A i \in 1..m : frames'[i] = frames[i]
  /\ \A i \in 0..m : name2[i] = name[i] /\ line2[i] = line[i]

LEMMA CallsStayLocated ==
  ASSUME LoaderInv, pc # "unwind", NEW name, NEW line, NEW name2, NEW line2,
         LocatedCalls(frames, name, line), NEW m, SameUpTo(m, name, line, name2, line2)
  PROVE  LocatedCalls(frames', name2, line2)
<1> SUFFICES ASSUME NEW k \in 1..Len(calls) - 1
             PROVE  /\ Counting(frames', calls[k].base, calls[k + 1].base)
                    /\ name2[calls[k + 1].base] = calls[k].file
                    /\ line2[calls[k + 1].base] = calls[k].line
  BY DEF LocatedCalls
<1>a. /\ m \in Nat /\ m <= Len(frames)
      /\ calls # <<>> => Innermost.base <= m
      /\ \A i \in 1..m : frames'[i] = frames[i]
      /\ \A i \in 0..m : name2[i] = name[i] /\ line2[i] = line[i]
  BY DEF SameUpTo
<1>1. /\ k \in 1..Len(calls) /\ k + 1 \in 1..Len(calls) /\ Len(calls) \in k + 1..Len(calls)
      /\ Len(calls) \in 1..Len(calls) /\ calls # <<>>
  BY CallTypes DEF LoaderInv
<1>2. calls[k].base \in Nat /\ calls[k + 1].base \in Nat /\ Innermost.base \in Nat
  BY <1>1, CallTypes DEF LoaderInv, Innermost
<1>3. calls[k + 1].base <= m
  <2>1. calls[k + 1].base <= Innermost.base
    BY <1>1 DEF LoaderInv, Nested, Innermost
  <2> QED  BY <1>a, <1>1, <1>2, <2>1
<1>4. Counting(frames', calls[k].base, calls[k + 1].base)
  <2>1. Counting(frames, calls[k].base, calls[k + 1].base)
    BY DEF LocatedCalls
  <2>2. \A i \in 1..calls[k + 1].base : frames'[i] = frames[i]
    BY <1>a, <1>2, <1>3
  <2> QED  BY <1>2, <2>1, <2>2, CountingSame
<1>5. calls[k + 1].base \in 0..m
  BY <1>a, <1>2, <1>3
<1> QED  BY <1>a, <1>4, <1>5 DEF LocatedCalls

\* A load begins where the text outside it is.
LEMMA BeginLines ==
  ASSUME LoaderInv, LinesInv, NEW f \in File, NEW saved \in Seq(Frame), Begin(f, saved),
         saved = SavedSettings(env) \/ saved = <<>>
  PROVE  LinesInv'
<1>1. /\ frames' = frames \o saved /\ env' = Overlay(env, Fresh) /\ pc = "text"
      /\ pc' = "open" /\ pending'.base = Len(frames) /\ calls' = calls
      /\ lines_read' = lines_read /\ newlines' = newlines
  BY DEF Begin
<1>2. /\ env \in Env /\ frames \in Seq(Frame) /\ Len(frames) \in Nat
      /\ \A i \in 1..Len(frames) : frames'[i] = frames[i]
  BY <1>1 DEF LoaderInv, TypeOK
<1>3. env'.being_loaded = env.being_loaded /\ env'.line = env.line
  BY <1>1, <1>2, FreshInSetup, OverlayTypes, OverlayLine
<1>4. \A i \in 1..Len(saved) : Idle(saved[i])
  BY DEF Idle, Named, Lined, SavedSettings, Restore
<1>5. PICK name, line, owed : Accounted(name, line, owed)
  BY DEF LinesInv
<1>6. PICK name2, line2, owed2 :
        /\ Foretold(frames', env', name2, line2, owed2)
        /\ owed2[Len(frames')] = owed[Len(frames)]
        /\ \A i \in 0..Len(frames) : name2[i] = name[i] /\ line2[i] = line[i]
  <2>1. Foretold(frames, env, name, line, owed)
    BY <1>5 DEF Accounted
  <2> QED  BY <1>1, <1>2, <1>3, <1>4, <2>1, ForetoldPushed
<1>7. Located(name, line) /\ name[Len(frames)] = env.being_loaded
      /\ line[Len(frames)] = env.line
  BY <1>1, <1>5 DEF Accounted, Foretold
<1>8. Located(name2, line2)'
  <2>1. calls # <<>> => Len(calls) \in 1..Len(calls) /\ Innermost.base \in Nat
                        /\ Innermost.base <= Len(frames)
    BY <1>1, CallTypes DEF LoaderInv, Nested, Innermost
  <2>2. \A k \in 1..Len(calls) - 1 :
           /\ Counting(frames', calls[k].base, calls[k + 1].base)
           /\ name2[calls[k + 1].base] = calls[k].file
           /\ line2[calls[k + 1].base] = calls[k].line
    <3>1. LocatedCalls(frames, name, line)
      BY <1>7 DEF Located, LocatedCalls
    <3>2. pc # "unwind" /\ SameUpTo(Len(frames), name, line, name2, line2)
      BY <1>1, <1>2, <1>6, <2>1 DEF SameUpTo
    <3>3. LocatedCalls(frames', name2, line2)
      BY <3>1, <3>2, CallsStayLocated
    <3> QED  BY <3>3 DEF LocatedCalls
  <2>3. calls # <<>> => Counting(frames', Innermost.base, Len(frames))
    BY <1>1, <1>2, <1>7, <2>1, CountingSame DEF Located
  <2>4. /\ name2[Len(frames)] = env'.being_loaded /\ line2[Len(frames)] = env'.line
    BY <1>2, <1>3, <1>6, <1>7
  <2>5. calls # <<>> => env'.being_loaded = Innermost.file /\ env'.line = Innermost.line
    BY <1>1, <1>3, <1>7 DEF Located
  <2>6. Innermost' = Innermost
    BY <1>1 DEF Innermost
  <2> QED  BY <1>1, <2>2, <2>3, <2>4, <2>5, <2>6 DEF Located
<1>9. Accounted(name2, line2, owed2)'
  BY <1>1, <1>5, <1>6, <1>8 DEF Accounted
<1> QED  BY <1>1, <1>9 DEF LinesInv

LEMMA LoadLines ==
  ASSUME LoaderInv, LinesInv, NEW f \in File, RawLoadFile(f) \/ LoadFile(f)
  PROVE  LinesInv'
<1>1. CASE RawLoadFile(f)
  <2>1. <<>> \in Seq(Frame) /\ Begin(f, <<>>)
    BY <1>1 DEF RawLoadFile
  <2> QED  BY <2>1, BeginLines
<1>2. CASE LoadFile(f)
  <2>1. env \in Env
    BY DEF LoaderInv, TypeOK
  <2>2. SavedSettings(env) \in Seq(Frame) /\ Begin(f, SavedSettings(env))
    BY <1>2, <2>1, RestoreIsFrame DEF SavedSettings, LoadFile
  <2> QED  BY <2>2, BeginLines
<1> QED  BY <1>1, <1>2

\* Closing a file moves no place.
LEMMA OpenFileLines ==
  ASSUME LoaderInv, LinesInv, OpenFile PROVE LinesInv'
<1>1. PICK fd \in Fd \ open :
        /\ pending' = [pending EXCEPT !.fd = fd]
        /\ frames' = Append(frames, CloseFile(fd))
  BY DEF OpenFile
<1>2. /\ env' = env /\ calls' = calls /\ pc = "open" /\ pc' = "read"
      /\ lines_read' = lines_read /\ newlines' = newlines
  BY DEF OpenFile
<1> DEFINE gs == <<CloseFile(fd)>>
<1>3. /\ gs \in Seq(Frame) /\ frames \in Seq(Frame) /\ frames' = frames \o gs
      /\ Len(frames) \in Nat /\ \A i \in 1..Len(frames) : frames'[i] = frames[i]
  <2>1. CloseFile(fd) \in Frame /\ frames \in Seq(Frame)
    BY OtherFrames DEF LoaderInv, TypeOK
  <2> QED  BY <1>1, <2>1
<1>4. \A i \in 1..Len(gs) : Idle(gs[i])
  BY DEF Idle, Named, Lined, CloseFile
<1> HIDE DEF gs
<1>5. pending'.base = pending.base /\ pending.base \in Nat /\ pending.base <= Len(frames)
  BY <1>1, <1>2 DEF LoaderInv, TypeOK, Load, Nested
<1>6. PICK name, line, owed : Accounted(name, line, owed)
  BY DEF LinesInv
<1>7. PICK name2, line2, owed2 :
        /\ Foretold(frames', env', name2, line2, owed2)
        /\ owed2[Len(frames')] = owed[Len(frames)]
        /\ \A i \in 0..Len(frames) : name2[i] = name[i] /\ line2[i] = line[i]
  <2>1. Foretold(frames, env, name, line, owed)
    BY <1>6 DEF Accounted
  <2>2. env'.being_loaded = env.being_loaded /\ env'.line = env.line
    BY <1>2
  <2> QED  BY <1>3, <1>4, <2>1, <2>2, ForetoldPushed
<1>8. Located(name, line)
  BY <1>2, <1>6 DEF Accounted
<1>9. Located(name2, line2)'
  <2>1. calls # <<>> => Innermost.base <= pending.base
    BY <1>2 DEF LoaderInv, Nested
  <2>2. /\ \A i \in 1..pending.base : frames'[i] = frames[i]
        /\ \A i \in 0..pending.base : name2[i] = name[i] /\ line2[i] = line[i]
        /\ pending.base \in 0..pending.base
    BY <1>3, <1>5, <1>7
  <2>3. \A k \in 1..Len(calls) - 1 :
           /\ Counting(frames', calls[k].base, calls[k + 1].base)
           /\ name2[calls[k + 1].base] = calls[k].file
           /\ line2[calls[k + 1].base] = calls[k].line
    <3>1. LocatedCalls(frames, name, line) /\ pc # "unwind"
      BY <1>2, <1>8 DEF Located, LocatedCalls
    <3>2. SameUpTo(pending.base, name, line, name2, line2)
      BY <1>5, <2>1, <2>2 DEF SameUpTo
    <3>3. LocatedCalls(frames', name2, line2)
      BY <3>1, <3>2, CallsStayLocated
    <3> QED  BY <3>3 DEF LocatedCalls
  <2>4. calls # <<>> => Counting(frames', Innermost.base, pending.base)
    <3> SUFFICES ASSUME calls # <<>> PROVE Counting(frames', Innermost.base, pending.base)
      OBVIOUS
    <3>1. Innermost.base \in Nat
      BY CallTypes DEF LoaderInv, Innermost
    <3>2. Counting(frames, Innermost.base, pending.base)
      BY <1>2, <1>8 DEF Located
    <3> HIDE DEF Innermost
    <3> QED  BY <1>5, <2>2, <3>1, <3>2, CountingSame
  <2>5. name2[pending.base] = env.being_loaded /\ line2[pending.base] = env.line
    BY <1>2, <1>8, <2>2 DEF Located
  <2>6. Innermost' = Innermost
    BY <1>2 DEF Innermost
  <2> QED  BY <1>2, <1>5, <1>8, <2>3, <2>4, <2>5, <2>6 DEF Located
<1>10. Accounted(name2, line2, owed2)'
  BY <1>2, <1>6, <1>7, <1>9 DEF Accounted
<1> QED  BY <1>2, <1>10 DEF LinesInv

\* The line of the text is now one more than the lines of it that its frames will count.
LEMMA NewlineLines ==
  ASSUME LoaderInv, LinesInv, Newline PROVE LinesInv'
<1>1. /\ frames' = frames /\ pc = "text" /\ pc' = "text" /\ calls # <<>>
      /\ env' = [env EXCEPT !.line = @ + 1] /\ lines_read' = lines_read
      /\ newlines' = newlines + 1
      /\ calls' = [calls EXCEPT ![Len(calls)].line = @ + 1]
  BY DEF Newline, Outside
<1>2. /\ env.line \in Nat /\ env'.line = env.line + 1
      /\ env'.being_loaded = env.being_loaded /\ frames \in Seq(Frame)
      /\ calls \in Seq(Call) /\ Len(calls) \in 1..Len(calls) /\ Len(frames) \in Nat
  BY <1>1 DEF LoaderInv, TypeOK, Env
<1>3. /\ Len(calls') = Len(calls) /\ calls' # <<>>
      /\ \A k \in 1..Len(calls) : /\ calls'[k].base = calls[k].base
                                  /\ calls'[k].file = calls[k].file
                                  /\ k # Len(calls) => calls'[k].line = calls[k].line
      /\ calls'[Len(calls)].line = calls[Len(calls)].line + 1
  <2>1. calls[Len(calls)] \in Call
    BY <1>2
  <2>2. calls' = [calls EXCEPT ![Len(calls)] = [calls[Len(calls)] EXCEPT !.line = @ + 1]]
    BY <1>1
  <2>3. /\ [calls[Len(calls)] EXCEPT !.line = @ + 1].base = calls[Len(calls)].base
        /\ [calls[Len(calls)] EXCEPT !.line = @ + 1].file = calls[Len(calls)].file
        /\ [calls[Len(calls)] EXCEPT !.line = @ + 1].line = calls[Len(calls)].line + 1
    BY <2>1 DEF Call
  <2> HIDE DEF Call
  <2>4. /\ Len(calls') = Len(calls) /\ calls' # <<>>
        /\ \A k \in 1..Len(calls) :
             calls'[k] = IF k = Len(calls)
                           THEN [calls[Len(calls)] EXCEPT !.line = @ + 1] ELSE calls[k]
    BY <1>2, <2>2
  <2> QED  BY <1>2, <2>3, <2>4
<1>4. PICK name, line, owed : Accounted(name, line, owed)
  BY DEF LinesInv
<1>5. Located(name, line)
  BY <1>1, <1>4 DEF Accounted
<1>6. /\ name[Len(frames)] = env.being_loaded /\ line[Len(frames)] = env.line /\ owed[0] = 0
      /\ \A i \in 0..Len(frames) : line[i] \in Nat /\ owed[i] \in Int
      /\ \A i \in 1..Len(frames) :
           /\ name[i - 1] = IF Named(frames[i]) THEN frames[i].value ELSE name[i]
           /\ line[i - 1] = IF Lined(frames[i]) THEN frames[i].value ELSE line[i]
           /\ owed[i] = owed[i - 1] + (IF frames[i].kind = "lines" THEN line[i] - 1 ELSE 0)
      /\ lines_read + owed[Len(frames)] = newlines
  BY <1>4 DEF Accounted, Foretold
<1>7. Innermost.base \in Nat /\ Innermost = calls[Len(calls)]
  BY <1>2, CallTypes DEF LoaderInv, Innermost
<1>8. PICK t \in Nat :
        /\ t \in Innermost.base + 2..Len(frames)
        /\ frames[t].kind = "lines" /\ Lined(frames[t - 1])
        /\ \A i \in t + 1..Len(frames) : ~Lined(frames[i]) /\ frames[i].kind # "lines"
  BY <1>1, <1>5 DEF Located, Counting
<1> DEFINE line2 == [i \in Nat |-> IF i >= t - 1 THEN line[i] + 1 ELSE line[i]]
           owed2 == [i \in Nat |-> IF i >= t THEN owed[i] + 1 ELSE owed[i]]
<1>9. \A i \in Nat : /\ line2[i] = IF i >= t - 1 THEN line[i] + 1 ELSE line[i]
                     /\ owed2[i] = IF i >= t THEN owed[i] + 1 ELSE owed[i]
  OBVIOUS
<1> HIDE DEF line2, owed2
<1>10. \A i \in 1..Len(frames) :
        /\ line2[i - 1] = IF Lined(frames[i]) THEN frames[i].value ELSE line2[i]
        /\ owed2[i] = owed2[i - 1] + (IF frames[i].kind = "lines" THEN line2[i] - 1 ELSE 0)
  <2> SUFFICES ASSUME NEW i \in 1..Len(frames)
               PROVE  /\ line2[i - 1] = IF Lined(frames[i]) THEN frames[i].value ELSE line2[i]
                      /\ owed2[i] = owed2[i - 1]
                                  + (IF frames[i].kind = "lines" THEN line2[i] - 1 ELSE 0)
    OBVIOUS
  <2>1. /\ i \in Nat /\ i - 1 \in Nat /\ i \in 0..Len(frames) /\ i - 1 \in 0..Len(frames)
        /\ line[i - 1] \in Nat /\ line[i] \in Nat /\ owed[i - 1] \in Int /\ owed[i] \in Int
        /\ line[i - 1] = IF Lined(frames[i]) THEN frames[i].value ELSE line[i]
        /\ owed[i] = owed[i - 1] + (IF frames[i].kind = "lines" THEN line[i] - 1 ELSE 0)
    <3>1. i \in Nat /\ i - 1 \in Nat /\ i \in 0..Len(frames) /\ i - 1 \in 0..Len(frames)
      OBVIOUS
    <3> QED  BY <1>6, <3>1
  <2>2. CASE i < t - 1
    BY <1>8, <1>9, <2>1, <2>2
  <2>3. CASE i = t - 1
    <3>1. Lined(frames[i]) /\ frames[i].kind # "lines"
      BY <1>8, <2>3 DEF Lined
    <3> QED  BY <1>8, <1>9, <2>1, <2>3, <3>1
  <2>4. CASE i = t
    <3>1. frames[i].kind = "lines" /\ ~Lined(frames[i])
      BY <1>8, <2>4 DEF Lined
    <3>2. line2[i - 1] = line[i - 1] + 1 /\ line2[i] = line[i] + 1
      BY <1>8, <1>9, <2>1, <2>4
    <3>3. owed2[i - 1] = owed[i - 1] /\ owed2[i] = owed[i] + 1
      BY <1>8, <1>9, <2>1, <2>4
    <3> QED  BY <2>1, <3>1, <3>2, <3>3
  <2>5. CASE i > t
    <3>1. ~Lined(frames[i]) /\ frames[i].kind # "lines"
      BY <1>8, <2>5
    <3> QED  BY <1>8, <1>9, <2>1, <2>5, <3>1
  <2> QED  BY <1>8, <2>1, <2>2, <2>3, <2>4, <2>5
<1>11. \A i \in 0..Len(frames) : line2[i] \in Nat /\ owed2[i] \in Int
  BY <1>6, <1>9
<1>12. /\ line2[Len(frames)] = env'.line /\ owed2[0] = 0
       /\ owed2[Len(frames)] = owed[Len(frames)] + 1
  <2>1. Len(frames) >= t - 1 /\ Len(frames) >= t /\ ~(0 >= t)
    BY <1>2, <1>7, <1>8
  <2> QED  BY <1>2, <1>6, <1>9, <2>1
<1>13. Foretold(frames', env', name, line2, owed2)
  BY <1>1, <1>2, <1>6, <1>10, <1>11, <1>12 DEF Foretold
<1>14. PICK line3, owed3 : /\ line3 = line2 /\ owed3 = owed2
  OBVIOUS
<1>15. Located(name, line3)'
  <2>1. \A k \in 1..Len(calls) - 1 :
          /\ Counting(frames, calls'[k].base, calls'[k + 1].base)
          /\ name[calls'[k + 1].base] = calls'[k].file
          /\ line2[calls'[k + 1].base] = calls'[k].line
    <3> SUFFICES ASSUME NEW k \in 1..Len(calls) - 1
                 PROVE  /\ Counting(frames, calls'[k].base, calls'[k + 1].base)
                        /\ name[calls'[k + 1].base] = calls'[k].file
                        /\ line2[calls'[k + 1].base] = calls'[k].line
      OBVIOUS
    <3>1. /\ k \in 1..Len(calls) /\ k # Len(calls) /\ k + 1 \in 1..Len(calls)
          /\ Len(calls) \in k + 1..Len(calls)
      BY <1>2
    <3>2. calls[k + 1].base \in Nat /\ calls[k + 1].base <= Innermost.base
      BY <1>1, <1>7, <3>1, CallTypes DEF LoaderInv, Nested
    <3>3. line2[calls[k + 1].base] = line[calls[k + 1].base]
      BY <1>7, <1>8, <1>9, <3>2
    <3> QED  BY <1>3, <1>5, <3>1, <3>3 DEF Located
  <2>2. /\ Innermost'.base = Innermost.base /\ Innermost'.file = Innermost.file
        /\ Innermost'.line = Innermost.line + 1
    BY <1>2, <1>3, <1>7 DEF Innermost
  <2>3. /\ Counting(frames, Innermost.base, Len(frames))
        /\ env.being_loaded = Innermost.file /\ env.line = Innermost.line
    BY <1>1, <1>5 DEF Located
  <2> QED  BY <1>1, <1>2, <1>3, <1>14, <2>1, <2>2, <2>3 DEF Located
<1>16. Foretold(frames', env', name, line3, owed3) /\ owed3[Len(frames)] = owed[Len(frames)] + 1
  BY <1>12, <1>13, <1>14
<1>17. /\ lines_read' \in Int /\ newlines' \in Int
       /\ lines_read' + owed3[Len(frames')] = newlines'
  <2>1. lines_read \in Int /\ newlines \in Int /\ owed[Len(frames)] \in Int
        /\ lines_read + owed[Len(frames)] = newlines
    BY <1>2, <1>6 DEF LinesInv
  <2>2. lines_read + (owed[Len(frames)] + 1) = newlines + 1
    BY <2>1
  <2> QED  BY <1>1, <1>16, <2>1, <2>2
<1>18. Accounted(name, line3, owed3)'
  BY <1>15, <1>16, <1>17 DEF Accounted
<1> QED  BY <1>17, <1>18 DEF LinesInv

\* What is preserved when a text begins is where the text outside it is; none of its own
\* lines has been read.
LEMMA ReadFileLines ==
  ASSUME LoaderInv, LinesInv, ReadFile PROVE LinesInv'
<1> DEFINE n == Len(frames)
           gs == <<Restore("being_loaded", env), Restore("line", env), AddLinesRead,
                   CheckDepth>>
           call == [file |-> pending.file, base |-> pending.base, line |-> 1]
<1>1. /\ frames' = frames \o gs
      /\ env' = [env EXCEPT !.being_loaded = pending.file, !.line = 1]
      /\ calls' = Append(calls, call)
      /\ pc = "read" /\ pc' = "text" /\ lines_read' = lines_read /\ newlines' = newlines
  BY DEF ReadFile, ReadFileWith
<1>2. /\ frames \in Seq(Frame) /\ n \in Nat /\ calls \in Seq(Call) /\ Len(calls) \in Nat
      /\ env'.being_loaded = pending.file /\ env'.line = 1
      /\ pending.base \in Nat /\ pending.base <= n /\ env.line \in Nat
  BY <1>1 DEF LoaderInv, TypeOK, Nested, Load, Env
<1>3. /\ Len(frames') = n + 4
      /\ \A i \in 1..n : frames'[i] = frames[i]
      /\ frames'[n + 1] = Restore("being_loaded", env) /\ frames'[n + 2] = Restore("line", env)
      /\ frames'[n + 3] = AddLinesRead /\ frames'[n + 4] = CheckDepth
  <2>1. Len(gs) = 4 /\ gs[1] = Restore("being_loaded", env) /\ gs[2] = Restore("line", env)
        /\ gs[3] = AddLinesRead /\ gs[4] = CheckDepth
    OBVIOUS
  <2>2. gs \in Seq(Frame)
    <3>1. env \in Env
      BY DEF LoaderInv, TypeOK
    <3> QED  BY <3>1, RestoreIsFrame, OtherFrames
  <2> HIDE DEF gs, n
  <2>3. /\ Len(frames \o gs) = Len(frames) + Len(gs)
        /\ \A i \in 1..Len(frames) : (frames \o gs)[i] = frames[i]
    BY <1>2, <2>1, <2>2, Concatenated
  <2>4. /\ (frames \o gs)[Len(frames) + 1] = gs[1] /\ (frames \o gs)[Len(frames) + 2] = gs[2]
        /\ (frames \o gs)[Len(frames) + 3] = gs[3] /\ (frames \o gs)[Len(frames) + 4] = gs[4]
    <3>1. /\ 1 \in 1..4 /\ 2 \in 1..4 /\ 3 \in 1..4 /\ 4 \in 1..4
      OBVIOUS
    <3>2. \A i \in 1..Len(gs) : (frames \o gs)[Len(frames) + i] = gs[i]
      BY <1>2, <2>2, ConcatenatedAbove
    <3> QED  BY <2>1, <3>1, <3>2
  <2> QED  BY <1>1, <2>1, <2>3, <2>4 DEF n
<1>4. /\ Len(calls') = Len(calls) + 1 /\ calls' # <<>>
      /\ \A k \in 1..Len(calls) : calls'[k] = calls[k]
      /\ calls'[Len(calls) + 1] = call
  BY <1>1, <1>2
<1>5. /\ call.file = pending.file /\ call.base = pending.base /\ call.line = 1
  OBVIOUS
<1> HIDE DEF gs, n, call
<1>6. /\ Named(frames'[n + 1]) /\ frames'[n + 1].value = env.being_loaded
      /\ ~Named(frames'[n + 2]) /\ ~Named(frames'[n + 3]) /\ ~Named(frames'[n + 4])
      /\ Lined(frames'[n + 2]) /\ frames'[n + 2].value = env.line
      /\ ~Lined(frames'[n + 1]) /\ ~Lined(frames'[n + 3]) /\ ~Lined(frames'[n + 4])
      /\ frames'[n + 3].kind = "lines" /\ frames'[n + 1].kind # "lines"
      /\ frames'[n + 2].kind # "lines" /\ frames'[n + 4].kind # "lines"
  BY <1>3 DEF Restore, AddLinesRead, CheckDepth, Named, Lined
<1>7. PICK name, line, owed : Accounted(name, line, owed)
  BY DEF LinesInv
<1>8. /\ name[n] = env.being_loaded /\ line[n] = env.line /\ owed[0] = 0
      /\ \A i \in 0..n : line[i] \in Nat /\ owed[i] \in Int
      /\ \A i \in 1..n :
           /\ name[i - 1] = IF Named(frames[i]) THEN frames[i].value ELSE name[i]
           /\ line[i - 1] = IF Lined(frames[i]) THEN frames[i].value ELSE line[i]
           /\ owed[i] = owed[i - 1] + (IF frames[i].kind = "lines" THEN line[i] - 1 ELSE 0)
      /\ lines_read + owed[n] = newlines
  BY <1>7 DEF Accounted, Foretold, n
<1>9. PICK name2, line2, owed2 :
        /\ name2 = [i \in Nat |-> IF i <= n THEN name[i] ELSE env'.being_loaded]
        /\ line2 = [i \in Nat |-> IF i <= n THEN line[i] ELSE IF i = n + 1 THEN env.line ELSE 1]
        /\ owed2 = [i \in Nat |-> IF i <= n THEN owed[i] ELSE owed[n]]
  OBVIOUS
<1>10. /\ \A i \in 0..n : name2[i] = name[i] /\ line2[i] = line[i] /\ owed2[i] = owed[i]
       /\ \A i \in n + 1..n + 4 : name2[i] = env'.being_loaded /\ owed2[i] = owed[n]
       /\ line2[n + 1] = env.line /\ line2[n + 2] = 1 /\ line2[n + 3] = 1 /\ line2[n + 4] = 1
  BY <1>2, <1>9
<1>11. \A i \in 0..n + 4 : line2[i] \in Nat /\ owed2[i] \in Int
  <2> SUFFICES ASSUME NEW i \in 0..n + 4 PROVE line2[i] \in Nat /\ owed2[i] \in Int
    OBVIOUS
  <2>1. i \in 0..n \/ i = n + 1 \/ i = n + 2 \/ i = n + 3 \/ i = n + 4
    BY <1>2
  <2>2. CASE i \in 0..n
    BY <1>8, <1>10, <2>2
  <2>3. CASE i = n + 1 \/ i = n + 2 \/ i = n + 3 \/ i = n + 4
    <3>1. i \in n + 1..n + 4 /\ n \in 0..n
      BY <1>2, <2>3
    <3> QED  BY <1>2, <1>8, <1>10, <2>3, <3>1
  <2> QED  BY <2>1, <2>2, <2>3
<1>12. \A i \in 1..n + 4 :
        /\ name2[i - 1] = IF Named(frames'[i]) THEN frames'[i].value ELSE name2[i]
        /\ line2[i - 1] = IF Lined(frames'[i]) THEN frames'[i].value ELSE line2[i]
        /\ owed2[i] = owed2[i - 1] + (IF frames'[i].kind = "lines" THEN line2[i] - 1 ELSE 0)
  <2> SUFFICES ASSUME NEW i \in 1..n + 4
               PROVE  /\ name2[i - 1] = IF Named(frames'[i]) THEN frames'[i].value ELSE name2[i]
                      /\ line2[i - 1] = IF Lined(frames'[i]) THEN frames'[i].value ELSE line2[i]
                      /\ owed2[i] = owed2[i - 1]
                                  + (IF frames'[i].kind = "lines" THEN line2[i] - 1 ELSE 0)
    OBVIOUS
  <2>1. i \in 1..n \/ i = n + 1 \/ i = n + 2 \/ i = n + 3 \/ i = n + 4
    BY <1>2
  <2>2. CASE i \in 1..n
    <3>1. i \in 0..n /\ i - 1 \in 0..n
      BY <1>2, <2>2
    <3> QED  BY <1>3, <1>8, <1>10, <2>2, <3>1
  <2>3. CASE i = n + 1
    <3>1. i - 1 = n /\ n \in 0..n /\ i \in n + 1..n + 4 /\ owed[n] \in Int
      BY <1>2, <1>8, <2>3
    <3>2. /\ name2[n] = env.being_loaded /\ line2[n] = env.line /\ owed2[n] = owed[n]
          /\ line2[i] = env.line /\ owed2[i] = owed[n]
      BY <1>8, <1>10, <2>3, <3>1
    <3> QED  BY <1>6, <2>3, <3>1, <3>2
  <2>4. CASE i = n + 2
    <3>1. /\ i - 1 = n + 1 /\ n + 1 \in n + 1..n + 4 /\ i \in n + 1..n + 4 /\ n \in 0..n
          /\ owed[n] \in Int
      BY <1>2, <1>8, <2>4
    <3> QED  BY <1>6, <1>10, <2>4, <3>1
  <2>5. CASE i = n + 3
    <3>1. /\ i - 1 = n + 2 /\ n + 2 \in n + 1..n + 4 /\ i \in n + 1..n + 4 /\ n \in 0..n
          /\ owed[n] \in Int /\ owed[n] = owed[n] + (1 - 1)
      BY <1>2, <1>8, <2>5
    <3> QED  BY <1>6, <1>10, <2>5, <3>1
  <2>6. CASE i = n + 4
    <3>1. /\ i - 1 = n + 3 /\ n + 3 \in n + 1..n + 4 /\ i \in n + 1..n + 4 /\ n \in 0..n
          /\ owed[n] \in Int
      BY <1>2, <1>8, <2>6
    <3> QED  BY <1>6, <1>10, <2>6, <3>1
  <2> QED  BY <2>1, <2>2, <2>3, <2>4, <2>5, <2>6
<1>13. Foretold(frames', env', name2, line2, owed2) /\ owed2[n + 4] = owed[n]
  <2>1. n + 4 \in n + 1..n + 4 /\ 0 \in 0..n
    BY <1>2
  <2> QED  BY <1>2, <1>3, <1>8, <1>10, <1>11, <1>12, <2>1 DEF Foretold
<1>14. Located(name, line)
  BY <1>1, <1>7 DEF Accounted
<1>15. Located(name2, line2)'
  <2>1. calls # <<>> => Len(calls) \in 1..Len(calls) /\ Innermost.base \in Nat
                        /\ Innermost.base <= pending.base
    BY <1>1, CallTypes DEF LoaderInv, Nested, Innermost
  <2>2. /\ \A i \in 1..pending.base : frames'[i] = frames[i]
        /\ \A i \in 0..pending.base : name2[i] = name[i] /\ line2[i] = line[i]
        /\ pending.base \in 0..pending.base /\ pc # "unwind" /\ pending.base <= Len(frames)
    <3>1. n \in Nat /\ pending.base \in Nat /\ pending.base <= n /\ n = Len(frames) /\ pc # "unwind"
      BY <1>1, <1>2 DEF n
    <3>2. pending.base \in 0..pending.base
          /\ \A i \in 0..pending.base : i \in 0..n /\ (i \in 1..pending.base => i \in 1..n)
      BY <3>1
    <3>3. \A i \in 1..pending.base : i \in 0..pending.base
      BY <3>1
    <3>4. \A i \in 1..n : frames'[i] = frames[i]
      BY <1>3
    <3>5. \A i \in 0..n : name2[i] = name[i] /\ line2[i] = line[i]
      BY <1>10
    <3> QED  BY <3>1, <3>2, <3>3, <3>4, <3>5
  <2>3. \A k \in 1..Len(calls) - 1 :
           /\ Counting(frames', calls[k].base, calls[k + 1].base)
           /\ name2[calls[k + 1].base] = calls[k].file
           /\ line2[calls[k + 1].base] = calls[k].line
    <3>1. LocatedCalls(frames, name, line)
      BY <1>14 DEF Located, LocatedCalls
    <3>2. pc # "unwind" /\ SameUpTo(pending.base, name, line, name2, line2)
      BY <1>2, <2>1, <2>2 DEF SameUpTo
    <3>3. LocatedCalls(frames', name2, line2)
      BY <3>1, <3>2, CallsStayLocated
    <3> QED  BY <3>3 DEF LocatedCalls
  <2>4. calls # <<>> => Counting(frames', Innermost.base, pending.base)
    <3> SUFFICES ASSUME calls # <<>> PROVE Counting(frames', Innermost.base, pending.base)
      OBVIOUS
    <3>1. Counting(frames, Innermost.base, pending.base) /\ Innermost.base \in Nat
      BY <1>1, <1>14, <2>1 DEF Located
    <3> HIDE DEF Innermost
    <3> QED  BY <1>2, <2>2, <3>1, CountingSame
  <2>5. calls # <<>> =>
          name2[pending.base] = Innermost.file /\ line2[pending.base] = Innermost.line
    BY <1>1, <1>14, <2>2 DEF Located
  <2>6. \A k \in 1..Len(calls') - 1 :
          /\ Counting(frames', calls'[k].base, calls'[k + 1].base)
          /\ name2[calls'[k + 1].base] = calls'[k].file
          /\ line2[calls'[k + 1].base] = calls'[k].line
    <3> SUFFICES ASSUME NEW k \in 1..Len(calls') - 1
                 PROVE  /\ Counting(frames', calls'[k].base, calls'[k + 1].base)
                        /\ name2[calls'[k + 1].base] = calls'[k].file
                        /\ line2[calls'[k + 1].base] = calls'[k].line
      OBVIOUS
    <3>1. CASE k = Len(calls)
      <4>1. calls # <<>> /\ calls'[k] = Innermost /\ calls'[k + 1] = call
        BY <1>4, <3>1 DEF Innermost
      <4> QED  BY <1>5, <2>4, <2>5, <4>1
    <3>2. CASE k # Len(calls)
      <4>1. k \in 1..Len(calls) - 1 /\ k \in 1..Len(calls) /\ k + 1 \in 1..Len(calls)
        BY <1>2, <1>4, <3>2
      <4>2. calls'[k] = calls[k] /\ calls'[k + 1] = calls[k + 1]
        BY <1>4, <4>1
      <4> QED  BY <2>3, <4>1, <4>2
    <3> QED  BY <3>1, <3>2
  <2>7. Innermost' = call
    BY <1>4 DEF Innermost
  <2>8. Counting(frames', pending.base, n + 4)
    <3>1. n + 3 \in pending.base + 2..n + 4 /\ n + 3 \in Nat /\ (n + 3) - 1 = n + 2
      BY <1>2
    <3>2. \A i \in (n + 3) + 1..n + 4 : i = n + 4
      BY <1>2
    <3> QED  BY <1>6, <3>1, <3>2 DEF Counting
  <2> QED  BY <1>1, <1>2, <1>3, <1>4, <1>5, <2>6, <2>7, <2>8 DEF Located
<1>16. Accounted(name2, line2, owed2)'
  BY <1>1, <1>3, <1>8, <1>13, <1>15 DEF Accounted
<1> QED  BY <1>1, <1>16 DEF LinesInv

\* The frame discharged leaves the place, and the lines counted, as it foretold.
LEMMA CleanupLines ==
  ASSUME LoaderInv, LinesInv, Cleanup PROVE LinesInv'
<1>1. frames \in Seq(Frame) /\ frames # <<>> /\ env \in Env /\ Len(frames) \in Nat
      /\ (pc = "return" => /\ calls # <<>> /\ Innermost.base \in Nat
                           /\ Innermost.base < Len(frames))
  <2>1. pc = "return" => calls # <<>> /\ Len(calls) \in 1..Len(calls)
    BY CallTypes DEF LoaderInv, Nested
  <2>2. pc = "return" => Innermost.base \in Nat
    BY <2>1, CallTypes DEF LoaderInv, Innermost
  <2>3. frames \in Seq(Frame) /\ Len(frames) \in Nat /\ env \in Env
        /\ (frames = <<>> => Len(frames) = 0)
    BY DEF LoaderInv, TypeOK
  <2>4. pc = "return" => Innermost.base < Len(frames)
    BY <2>2, <2>3 DEF Cleanup
  <2> QED  BY <2>1, <2>2, <2>3, <2>4 DEF Cleanup
<1>2. /\ frames' = SubSeq(frames, 1, Len(frames) - 1)
      /\ \A v \in {"being_loaded", "line", "radix", "state", "current"} :
           env'[v] = IF Newest.kind = "restore" /\ Newest.var = v THEN Newest.value
                                                                  ELSE env[v]
      /\ pc' \in {pc, "unwind"}
  BY <1>1, DischargeDoes DEF LoaderInv, Cleanup
<1>3. /\ calls' = calls /\ newlines' = newlines /\ pc \in {"return", "unwind"}
      /\ lines_read' = lines_read + (IF Newest.kind = "lines" THEN env.line - 1 ELSE 0)
  <2>1. lines_read \in Int /\ lines_read + 0 = lines_read
    BY DEF LinesInv
  <2> QED  BY <2>1 DEF Cleanup, Discharge
<1>4. /\ Len(frames') = Len(frames) - 1 /\ Len(frames) \in 1..Len(frames)
      /\ \A i \in 1..Len(frames') : frames'[i] = frames[i]
  BY <1>1, <1>2, AllButLast
<1>5. PICK name, line, owed : Accounted(name, line, owed)
  BY DEF LinesInv
<1>6. Foretold(frames', env', name, line, owed)
  <2>1. /\ env'.being_loaded = IF Named(frames[Len(frames)]) THEN frames[Len(frames)].value
                                                             ELSE env.being_loaded
        /\ env'.line = IF Lined(frames[Len(frames)]) THEN frames[Len(frames)].value
                                                     ELSE env.line
    BY <1>2 DEF Named, Lined, Newest
  <2>2. Foretold(frames, env, name, line, owed)
    BY <1>5 DEF Accounted
  <2> QED  BY <1>1, <1>2, <2>1, <2>2, ForetoldPopped
<1>7. lines_read' \in Int /\ newlines' \in Int /\ lines_read' + owed[Len(frames')] = newlines'
  <2>1. /\ line[Len(frames)] = env.line
        /\ owed[Len(frames)] = owed[Len(frames) - 1]
             + (IF frames[Len(frames)].kind = "lines" THEN line[Len(frames)] - 1 ELSE 0)
        /\ lines_read + owed[Len(frames)] = newlines
    BY <1>4, <1>5 DEF Accounted, Foretold
  <2>2. Len(frames) - 1 \in 0..Len(frames) /\ Len(frames) \in 0..Len(frames)
    BY <1>1, <1>4
  <2>3. owed[Len(frames) - 1] \in Int /\ line[Len(frames)] \in Nat
    BY <1>5, <2>2 DEF Accounted, Foretold
  <2>4. lines_read \in Int /\ newlines \in Int
    BY DEF LinesInv
  <2>5. CASE Newest.kind = "lines"
    <3>1. /\ lines_read' = lines_read + (line[Len(frames)] - 1)
          /\ owed[Len(frames)] = owed[Len(frames) - 1] + (line[Len(frames)] - 1)
      BY <1>3, <2>1, <2>5 DEF Newest
    <3> QED  BY <1>3, <1>4, <2>1, <2>3, <2>4, <3>1
  <2>6. CASE Newest.kind # "lines"
    <3>1. lines_read' = lines_read + 0 /\ owed[Len(frames)] = owed[Len(frames) - 1] + 0
      BY <1>3, <2>1, <2>6 DEF Newest
    <3>2. lines_read' = lines_read /\ owed[Len(frames)] = owed[Len(frames) - 1]
      BY <2>3, <2>4, <3>1
    <3> QED  BY <1>3, <1>4, <2>1, <2>3, <2>4, <3>2
  <2> QED  BY <2>5, <2>6
<1>8. pc' # "unwind" => Located(name, line)'
  <2> SUFFICES ASSUME pc' # "unwind" PROVE Located(name, line)'
    OBVIOUS
  <2>1. pc = "return" /\ pc' = "return"
    BY <1>2, <1>3
  <2>2. LocatedCalls(frames, name, line)
    BY <1>5, <2>1 DEF Accounted, Located, LocatedCalls
  <2>3. pc # "unwind" /\ SameUpTo(Len(frames'), name, line, name, line)
    BY <1>1, <1>4, <2>1 DEF SameUpTo
  <2>4. \A k \in 1..Len(calls) - 1 :
          /\ Counting(frames', calls[k].base, calls[k + 1].base)
          /\ name[calls[k + 1].base] = calls[k].file
          /\ line[calls[k + 1].base] = calls[k].line
    <3>1. LocatedCalls(frames', name, line)
      BY <2>2, <2>3, CallsStayLocated
    <3> QED  BY <3>1 DEF LocatedCalls
  <2> QED  BY <1>3, <2>1, <2>4 DEF Located
<1>9. Accounted(name, line, owed)'
  BY <1>6, <1>7, <1>8 DEF Accounted
<1> QED  BY <1>7, <1>9 DEF LinesInv

\* At first there are neither frames nor lines.
LEMMA InitLines ==
  ASSUME Init PROVE LinesInv
<1>1. /\ frames = <<>> /\ calls = <<>> /\ pc = "text" /\ lines_read = 0 /\ newlines = 0
      /\ Len(frames) = 0 /\ Len(calls) = 0
  BY DEF Init
<1>2. env.line = 0
  BY DEF Init, Overlay, Setting
<1> DEFINE name == [i \in {0} |-> env.being_loaded]
           line == [i \in {0} |-> 0]
<1>3. Foretold(frames, env, name, line, line)
  BY <1>1, <1>2 DEF Foretold
<1>4. Located(name, line)
  BY <1>1 DEF Located
<1>5. Accounted(name, line, line)
  BY <1>1, <1>3, <1>4 DEF Accounted
<1> QED  BY <1>1, <1>5 DEF LinesInv

\* What the frames foretell of the place and of the lines holds of every behaviour.
THEOREM LinesInvariant ==
  ASSUME FileAssumption, ChosenAssumption PROVE Spec => []LinesInv
<1>1. Init => LinesInv
  BY InitLines
<1>2. LoaderInv /\ LinesInv /\ [Next]_vars => LinesInv'
  <2> SUFFICES ASSUME LoaderInv, LinesInv, [Next]_vars PROVE LinesInv'
    OBVIOUS
  <2>1. CASE UNCHANGED vars
    <3>1. \A name, line : Located(name, line) => Located(name, line)'
      BY <2>1 DEF vars, Located, Innermost
    <3> QED  BY <2>1, <3>1, StillAccounted DEF vars
  <2>2. CASE Change
    BY <2>2, ChangeLines
  <2>3. CASE Newline
    BY <2>3, NewlineLines
  <2>4. CASE \E f \in File : RawLoadFile(f) \/ LoadFile(f)
    BY <2>4, LoadLines
  <2>5. CASE OpenFile
    BY <2>5, OpenFileLines
  <2>6. CASE ReadFile
    BY <2>6, ReadFileLines
  <2>7. CASE OpenFails \/ ReadFails \/ Error
    BY <2>7, ThrowLines
  <2>8. CASE EndOfText
    BY <2>8, EndOfTextLines
  <2>9. CASE Cleanup
    BY <2>9, CleanupLines
  <2>10. CASE Returned
    BY <2>10, ReturnedLines
  <2>11. CASE Typing \/ Unwound
    BY <2>11, TypingLines
  <2> QED  BY <2>1, <2>2, <2>3, <2>4, <2>5, <2>6, <2>7, <2>8, <2>9, <2>10, <2>11 DEF Next
<1> QED  BY <1>1, <1>2, LoaderInvariant, PTL DEF Spec

\* For any files nested to any depth: while a text is interpreted, and while one of its
\* words opens or reads another file, an error is located in that text, at the line that
\* the scanner has reached.
THEOREM AlwaysLocated ==
  ASSUME FileAssumption, ChosenAssumption PROVE Spec => []LocatedInText
<1>1. LinesInv => LocatedInText
  BY DEF LinesInv, Accounted, Located, LocatedInText, Outside
<1> QED  BY <1>1, LinesInvariant, PTL

\* For any files nested to any depth, ending or failing at any point: every line is
\* counted once.
THEOREM AllCounted ==
  ASSUME FileAssumption, ChosenAssumption PROVE Spec => []LinesCounted
<1>1. LoaderInv /\ LinesInv => LinesCounted
  <2> SUFFICES ASSUME LoaderInv, LinesInv, AtConsole PROVE lines_read = newlines
    BY DEF LinesCounted
  <2>1. Len(frames) = 0
    BY DEF LoaderInv, Nested, AtConsole, Outside
  <2>2. PICK name, line, owed : Accounted(name, line, owed)
    BY DEF LinesInv
  <2>3. owed[0] = 0 /\ lines_read + owed[0] = newlines /\ lines_read \in Int
    BY <2>1, <2>2 DEF Accounted, Foretold, LinesInv
  <2> QED  BY <2>3
<1> QED  BY <1>1, LoaderInvariant, LinesInvariant, PTL

=============================================================================
