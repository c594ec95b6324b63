-------------------------------- MODULE MCTodos ---------------------------------
(* Todos alone, for TLC: a session of few calls.                           *)
EXTENDS Todos
=============================================================================
