----------------------------- MODULE MCPortScan -----------------------------
(* findUnusedPort over every sorted list of at most four used ports and     *)
(* every range within five port numbers.                                    *)
EXTENDS PortScan

MCPortNumbers == 1..5
=============================================================================
