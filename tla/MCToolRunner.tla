---------------------------- MODULE MCToolRunner ----------------------------
(* ToolRunner with pipes and limits of a few bytes. *)
EXTENDS ToolRunner
=============================================================================
