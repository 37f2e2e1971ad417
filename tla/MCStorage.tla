------------------------------ MODULE MCStorage ------------------------------
(***************************************************************************)
(* Storage for TLC: two-byte integers of two-valued bytes, so that u16 and *)
(* u64 are both 0 .. 3 and 3 is the value whose successor overflows, and a *)
(* buffer that holds the namespace id and one byte of key.                 *)
(***************************************************************************)
EXTENDS Storage

CONSTANTS t1, t2, h1, h2, i1, v1

NoKeys == {}

\* The empty key, a key that fits the buffer, and one that does not.
ShortAndLongKeys == {<<>>, <<1>>, <<1, 1>>}

OneKey == {<<1>>}

\* Two entries of prefix 1, below and at the start of the scan, and one of
\* the prefix after it.
ThreeLogKeys == {<<1, 0>>, <<1, 1>>, <<2, 0>>}

OneLogKey == {<<0, 1>>}

\* An entry of the last prefix, before and at the start of the scan.
LastPrefixLogKeys == {<<3, 0>>, <<3, 1>>}

\* A scan of prefix 1 from inside its entries, and one of the last prefix.
TwoScans == {<<1, 1>>, <<3, 0>>}

LastPrefixScan == {<<3, 1>>}

ThreadSymmetry == Permutations({t1, t2})
HandleSymmetry == Permutations({h1, h2})
Symmetry == ThreadSymmetry \cup HandleSymmetry

=============================================================================
