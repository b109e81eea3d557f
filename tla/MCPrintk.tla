------------------------------ MODULE MCPrintk ------------------------------
(* Printk with integers of 1, 2, 4 and 5 bits.                                     *)
EXTENDS Printk

MCStrings == {<<"s", "t">>}
MCStars == {-2, 3}
=============================================================================
