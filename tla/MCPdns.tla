------------------------------- MODULE MCPdns -------------------------------
(* TLC instance of Pdns.                                                     *)
EXTENDS Pdns, TLC
=============================================================================
