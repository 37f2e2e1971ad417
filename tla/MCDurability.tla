----------------------------- MODULE MCDurability -----------------------------
(***************************************************************************)
(* Durability for TLC, with the sets of MCStorage.                         *)
(***************************************************************************)
EXTENDS Durability, MCStorage
===============================================================================
