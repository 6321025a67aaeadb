------------------------------- MODULE Loading -------------------------------
(***************************************************************************)
(* What loading source text leaves behind, in one state space: for files,  *)
(* settings and the console (Loader), two files which may load themselves  *)
(* and each other; and for the dictionary (Dict), words and chains beyond  *)
(* those of the kernel, with names that are alike but for case, too long   *)
(* or empty. Loader takes texts to do what they like to the settings,      *)
(* Dict takes a load to fail at any point of a definition (Abandon); so a  *)
(* behaviour is one of one of them, and the other stays as it is.          *)
(***************************************************************************)
EXTENDS Loader, DictVocabulary

CONSTANT Parts      \* the components whose behaviours are considered
VARIABLE part

Is(p) == part = p /\ UNCHANGED part
LoaderStep(A) == Is("loader") /\ A /\ UNCHANGED dict_vars

LoadingInit == part \in Parts /\ Init /\ DictInit
LoadingNext ==
  \/ LoaderStep(Next)
  \/ Is("dict") /\ DictNext /\ UNCHANGED vars

loading_vars == <<part, vars, dict_vars>>

\* The fairness of Loader.
LoadingSpec ==
  /\ LoadingInit /\ [][LoadingNext]_loading_vars
  /\ WF_loading_vars(LoaderStep(Cleanup)) /\ WF_loading_vars(LoaderStep(Unwound))

-----------------------------------------------------------------------------
(* The properties of the dictionary, stated and explained in Dict and      *)
(* DictVocabulary: they are about its behaviours.                          *)

SearchEnds == part = "dict" => EverySearchEnds
NothingForgotten == [][part = "dict" => NothingIsForgotten]_dict_vars
NewestFound == [][part = "dict" => NewestIsFound]_dict_vars

\* A step that changes nothing of Vocabulary is one of its own (Hide).
ImplementsVocabulary == Voc!Init /\ [][part = "dict" => Voc!Next]_dict_vars
=============================================================================
