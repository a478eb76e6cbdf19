---------------------------- MODULE MCEvaluation ----------------------------
(* Instances of EvaluationApi for TLC. *)
EXTENDS EvaluationApi, TLC

\* Keys, payloads, calls and users are interchangeable except that Init's NoCall
\* picks a user and a payload, so only calls and keys are permuted.
CallSymmetry == Permutations(Calls) \union Permutations(Keys)
=============================================================================
