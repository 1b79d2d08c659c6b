--------------------------- MODULE MCProxyServer ---------------------------
(***************************************************************************)
(* The runs of ProxyServer.                                                *)
(***************************************************************************)
EXTENDS ProxyServer

\* The process ends only when it is told to. It does not hold: Panics.
EndsWhenTold == run # "accept" => cancelled

=============================================================================
