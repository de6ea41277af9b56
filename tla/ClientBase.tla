----------------------------- MODULE ClientBase -----------------------------
(***************************************************************************)
(* What the models of the browser clients share.  A client is a page with  *)
(* local state, a cache of reads that the page observes, and requests in   *)
(* flight; a callback runs without interruption, and everything else may   *)
(* happen between two callbacks.                                           *)
(***************************************************************************)
EXTENDS Integers, Sequences, FiniteSets

CONSTANT Nothing    \* undefined, null or the empty string

Maybe(S) == S \union {Nothing}
=============================================================================
