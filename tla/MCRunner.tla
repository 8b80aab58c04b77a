-------------------------------- MODULE MCRunner --------------------------------
(* Runner for model checking. *)
EXTENDS Runner

CONSTANTS INT, TERM

MCNumber == [s \in {INT, TERM} |-> IF s = INT THEN 2 ELSE 15]

\* With and without a terminal, whatever standard input is.
AnyTerminal == BOOLEAN \X BOOLEAN
================================================================================
