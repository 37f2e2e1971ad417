--------------------------- MODULE MCStorageTests ---------------------------
(***************************************************************************)
(* StorageTests for TLC: one thread, one Storage and one iterator at a     *)
(* time, as in the tests; u16 is 0 .. 3 and u64 is 0 .. 7, which holds the *)
(* namespaces 0 .. 3 and the log keys up to i + 2 = 4 of the tests; the    *)
(* buffer holds the namespace id and two bytes of key.  The tests name     *)
(* their own keys and values, so the sets free callers draw from are       *)
(* empty.                                                                  *)
(***************************************************************************)
EXTENDS StorageTests

CONSTANTS t1, h1, i1

NoKeys == {}

=============================================================================
