--------------------------- MODULE MCEventProtocol ---------------------------
(***************************************************************************)
(* Two threads and four events: gamma derived from beta derived from       *)
(* alpha, and an unrelated delta.                                          *)
(***************************************************************************)
EXTENDS EventProtocol

MCChainOf == [alpha |-> {"alpha"}, beta |-> {"alpha", "beta"},
              gamma |-> {"alpha", "beta", "gamma"}, delta |-> {"delta"}]

=============================================================================
