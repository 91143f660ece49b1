------------------------------ MODULE MCClientCache ------------------------------
(* ClientCache on the instances of MCResponseCache.                        *)
EXTENDS ClientCache, MCResponseCache
=============================================================================
