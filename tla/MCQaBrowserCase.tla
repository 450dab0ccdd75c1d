-------------------------- MODULE MCQaBrowserCase --------------------------
(* QaBrowserCase with a small number of steps, and the mutants of its      *)
(* definitions that the properties are tried against.                      *)
EXTENDS QaBrowserCase
=============================================================================
