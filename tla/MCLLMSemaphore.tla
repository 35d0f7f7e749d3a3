---------------------------- MODULE MCLLMSemaphore ----------------------------
(* LLMSemaphore on a handful of goroutines. *)
EXTENDS LLMSemaphore, TLC

Symmetric == Permutations(Callers)
=============================================================================
