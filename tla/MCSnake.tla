------------------------------- MODULE MCSnake -------------------------------
(* Terminal sizes, rows by columns, for the runs of module Snake.            *)
EXTENDS Snake

OneSize == {<<8, 6>>}
TwoSizes == {<<6, 6>>, <<8, 6>>}
==============================================================================
