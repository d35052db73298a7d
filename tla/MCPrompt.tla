------------------------------ MODULE MCPrompt ------------------------------
(* Small instances of the prompt. *)
EXTENDS Prompt
=============================================================================
