------------------------------ MODULE Target ------------------------------
(***************************************************************************)
(* An AVR on the bench: the tasks that run on it (Tasker), or what the     *)
(* host says to the chat task (Chat).  Tasker takes a command to be served *)
(* as soon as the chat task gets its turn, Chat takes the chat task to get *)
(* its turns; so a behaviour is one of one of them, and the other stays as *)
(* it is.                                                                  *)
(***************************************************************************)
EXTENDS Tasker

CONSTANTS
    Parts,                                          \* the components that are checked
    Words, MaxWords, DataSize, FlashSize, Page, Chunk, Count, Version, Closed,
    Cut                                             \* of Chat

VARIABLES
    part,
    toPeer, toHost, script, got, wanted, running, believed, burnt, cmd,    \* Chat
    args, z, memory, buffer, asked

ofChat == <<toPeer, toHost, script, got, wanted, running, believed, burnt, cmd, args,
            z, memory, buffer, asked>>

C == INSTANCE Chat

ASSUME ChatAssumption == C!SizeAssumption /\ C!ChunkAssumption /\ C!WordAssumption

Is(p) == part = p /\ UNCHANGED part
TaskerStep(A) == Is("tasker") /\ A /\ UNCHANGED ofChat
ChatStep(A) == Is("chat") /\ A /\ UNCHANGED vars

TargetInit == part \in Parts /\ Init /\ C!Init
TargetNext == TaskerStep(Next) \/ ChatStep(C!Next)

all == <<part, vars, ofChat>>

\* The fairness of Tasker and of Chat.
TargetSpec ==
    /\ TargetInit /\ [][TargetNext]_all
    /\ WF_all(TaskerStep(Step)) /\ WF_all(TaskerStep(Tick)) /\ WF_all(TaskerStep(Bite))
    /\ WF_all(ChatStep(C!HostSteps)) /\ WF_all(ChatStep(C!PeerSteps))

(* The properties of the conversation, stated and explained in Chat. *)
InStep == C!InStep
ReadsAreTrue == C!ReadsAreTrue
WritesLand == C!WritesLand
VerifyTells == C!VerifyTells
WordsEnd == C!WordsEnd
=============================================================================
