--------------------------- MODULE MCProviderCalls ---------------------------
(* An instance of ProviderCalls: a live thread and a backfill thread. *)
EXTENDS ProviderCalls, TLC

CONSTANTS c1, c2
=============================================================================
