------------------------------ MODULE KeyCodec ------------------------------
(***************************************************************************)
(* The key codec of src/storage.rs: how a namespace id and a user key, or  *)
(* a namespace id and a log key (prefix, seq), become one physical key of  *)
(* the shared engine, and the byte ranges clear() and log_iterator() build *)
(* from those encodings.                                                   *)
(*                                                                         *)
(* A physical key is a sequence of bytes.  The widths are constants so     *)
(* that TLC can check the codec over complete, small integer types: the    *)
(* code has ByteBase = 256, NsWidth = 2 (u16), LogWidth = 8 (u64) and      *)
(* BufLen = 512.  Nothing below depends on the particular values.          *)
(***************************************************************************)
EXTENDS Naturals, Sequences

CONSTANTS ByteBase,   \* number of values of one byte
          NsWidth,    \* bytes of a namespace id (Storage.num)
          LogWidth,   \* bytes of each half of a log key
          BufLen      \* bytes of the stack buffer of get, set and del

ASSUME /\ ByteBase \in Nat \ {0, 1}
       /\ NsWidth \in Nat \ {0}
       /\ LogWidth \in Nat \ {0}
       /\ BufLen \in Nat /\ BufLen >= NsWidth

Byte   == 0 .. ByteBase - 1
MaxU16 == ByteBase ^ NsWidth - 1
MaxU64 == ByteBase ^ LogWidth - 1
U16    == 0 .. MaxU16
U64    == 0 .. MaxU64

(***************************************************************************)
(* write_uN::<BigEndian> and read_uN::<BigEndian> of the byteorder crate:  *)
(* the most significant byte first.                                        *)
(***************************************************************************)
BigEndian(n, w) == [i \in 1 .. w |-> (n \div ByteBase ^ (w - i)) % ByteBase]

RECURSIVE ReadBigEndian(_)
ReadBigEndian(bytes) ==
    IF bytes = <<>> THEN 0
    ELSE ReadBigEndian(SubSeq(bytes, 1, Len(bytes) - 1)) * ByteBase
         + bytes[Len(bytes)]

(***************************************************************************)
(* `+ 1` on an unsigned integer of w bytes as a build without overflow     *)
(* checks computes it.  A build with overflow checks panics instead, when  *)
(* the operand is the maximum.                                             *)
(***************************************************************************)
WrappingSucc(n, w) == (n + 1) % ByteBase ^ w

(***************************************************************************)
(* The order of the engine's default comparator: bytewise, a proper prefix *)
(* before its extensions.                                                  *)
(***************************************************************************)
BytewiseLess(a, b) ==
    \E i \in 1 .. Len(b) :
        /\ \A j \in 1 .. i - 1 : j <= Len(a) /\ a[j] = b[j]
        /\ i > Len(a) \/ a[i] < b[i]

InRange(key, from, to) == ~BytewiseLess(key, from) /\ BytewiseLess(key, to)

(***************************************************************************)
(* U16BeSuffixTransform, the prefix extractor of the main column family.   *)
(***************************************************************************)
in_domain(key) == Len(key) >= NsWidth
transform(key) == SubSeq(key, 1, NsWidth)

(***************************************************************************)
(* build_key writes into a caller's buffer and panics (unwrap of a short   *)
(* write) when the key does not fit behind the namespace id.               *)
(***************************************************************************)
Fits(buflen, key) == NsWidth + Len(key) <= buflen

build_key(num, key) == BigEndian(num, NsWidth) \o key

\* Fault variant of build_log_key: seq written before prefix.
build_log_key_swapped(num, log_key) ==
    BigEndian(num, NsWidth) \o BigEndian(log_key[2], LogWidth)
                            \o BigEndian(log_key[1], LogWidth)

build_log_key(num, log_key) ==
    BigEndian(num, NsWidth) \o BigEndian(log_key[1], LogWidth)
                            \o BigEndian(log_key[2], LogWidth)

build_log_prefix(num, prefix) ==
    BigEndian(num, NsWidth) \o BigEndian(prefix, LogWidth)

(***************************************************************************)
(* What the two iterators hand to their caller: the user key behind the    *)
(* namespace id, and the two halves of a log key read back as integers.    *)
(***************************************************************************)
UserKey(physical) == SubSeq(physical, NsWidth + 1, Len(physical))

\* Fault variant of LogKey: both halves read from the first offset.
LogKey_same_offset(physical) ==
    << ReadBigEndian(SubSeq(physical, NsWidth + 1, NsWidth + LogWidth)),
       ReadBigEndian(SubSeq(physical, NsWidth + 1, NsWidth + LogWidth)) >>

LogKey(physical) ==
    << ReadBigEndian(SubSeq(physical, NsWidth + 1, NsWidth + LogWidth)),
       ReadBigEndian(SubSeq(physical, NsWidth + LogWidth + 1,
                                      NsWidth + 2 * LogWidth)) >>

(***************************************************************************)
(* The range clear() deletes, [num, num + 1) in namespace ids, and the     *)
(* seek key and upper bound of log_iterator(prefix, start).                *)
(***************************************************************************)
\* Fault variant of ClearBounds: the upper bound one namespace too far.
ClearBounds_off_by_one(num) ==
    [from |-> BigEndian(num, NsWidth),
     to   |-> BigEndian(WrappingSucc(WrappingSucc(num, NsWidth), NsWidth),
                        NsWidth)]

ClearBounds(num) ==
    [from |-> BigEndian(num, NsWidth),
     to   |-> BigEndian(WrappingSucc(num, NsWidth), NsWidth)]

\* Fault variant of LogIterBounds: the upper bound at prefix, not prefix + 1.
LogIterBounds_no_succ(num, prefix, start) ==
    [from |-> build_log_key(num, <<prefix, start>>),
     to   |-> build_log_prefix(num, prefix)]

LogIterBounds(num, prefix, start) ==
    [from |-> build_log_key(num, <<prefix, start>>),
     to   |-> build_log_prefix(num, WrappingSucc(prefix, LogWidth))]

=============================================================================
