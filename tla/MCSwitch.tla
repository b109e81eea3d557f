------------------------------ MODULE MCSwitch ------------------------------
(* Two page tables that map two pages differently.                          *)
EXTENDS Switch

CONSTANTS t1, t2

MCSpace == [t \in {t1, t2} |-> [v \in {0, 1} |-> IF t = t1 THEN v ELSE v + 2]]
=============================================================================
