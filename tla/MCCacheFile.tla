---------------------------- MODULE MCCacheFile ----------------------------
(***************************************************************************)
(* A small instance of CacheFile: up to three blocks of two.               *)
(***************************************************************************)
EXTENDS CacheFile

MCIds == 1..6
=============================================================================
