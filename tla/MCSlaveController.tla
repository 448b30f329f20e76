------------------------- MODULE MCSlaveController -------------------------
(* One port and two names let requests compete for a port and its           *)
(* directories.                                                             *)
EXTENDS SlaveController

OnePort  == {1}
OneName  == {"a"}
TwoNames == {"a", "b"}
=============================================================================
