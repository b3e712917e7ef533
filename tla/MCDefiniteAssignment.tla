------------------------ MODULE MCDefiniteAssignment ------------------------
(* The handlers treat every name by itself, so one variable, or one field,   *)
(* already shows how its status travels through nested statements.           *)
EXTENDS DefiniteAssignment

\* Once a function shadows a variable, assigns in a lambda or skips an assignment
\* in an operand, the passing properties promise nothing about it: such functions
\* are not continued.
WithoutHoles == holes = {}
=============================================================================
