---------------------------- MODULE MCCacheRaces ----------------------------
(* CacheRaces on the instances of MCIMService.                             *)
EXTENDS CacheRaces, MCIMService
=============================================================================
