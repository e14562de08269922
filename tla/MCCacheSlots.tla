---------------------------- MODULE MCCacheSlots ----------------------------
(* CacheSlots with three case runs and two slots.                           *)
EXTENDS CacheSlots, TLC

CONSTANTS h1, h2, h3
MCHolders == {h1, h2, h3}
=============================================================================
