------------------------------- MODULE Answers -------------------------------
(***************************************************************************)
(* The answers of AdapterStream under names of their own, to be read       *)
(* beside AgentLoop, which acts upon them.                                 *)
(***************************************************************************)
EXTENDS Naturals

CONSTANTS MaxBlocks, MaxFragments       \* bounds on an answer

ASSUME AnswersAssumption == {MaxBlocks, MaxFragments} \subseteq Nat \ {0}

VARIABLES protocol, made, reason, over, buffers, finish, input, out

Answer == INSTANCE AdapterStream

AnswerSpec == Answer!Spec

\* The state of an answer and the events that the adapter emits have their types.
AnswerTypes == Answer!TypeOK

\* What the loop gets of an answer can be acted upon: calls are whole, or last in an
\* answer that is told to be cut or of which nobody said the end, and the end is told
\* once, last and as what the provider said it was.
AnswerIsSound == Answer!AnswerIsSound

=============================================================================
