---------------------------- MODULE StorageTests ----------------------------
(***************************************************************************)
(* The tests of src/storage.rs (mod tests) replayed on the model.  A test  *)
(* is the sequence of the calls it makes, the drops at the end of a scope  *)
(* or a statement included; an assertion is an entry of the sequence with  *)
(* the result the test expects.  Every test starts by removing its         *)
(* directory, so StorageManager::new finds none.                           *)
(*                                                                         *)
(* The byte strings of the tests are scaled like the integers: "sample" is *)
(* a key of one byte, the decimal i.to_string() as a key is i in the bytes *)
(* the buffer has room for.  As values the strings are themselves.         *)
(***************************************************************************)
EXTENDS Durability, TLC

VARIABLES test,  \* the test that runs
          at     \* the position in its script of the call that comes next

tvars == <<dvars, test, at>>

sample == <<1>>
Key(i) == BigEndian(i, BufLen - NsWidth)

ForEach(is, body(_)) == FlattenSeq([j \in DOMAIN is |-> body(is[j])])

\* make.iter().<what>() compared with expect; the iterator is a temporary.
Collect(make, what, expect) ==
    <<make, <<"collect">>, <<"assert_eq", what, expect>>, <<"drop_iter">>>>

test_simple ==
    << <<"new">>, <<"open", 1>>,
       <<"get_vec", sample, None>>,
       <<"set", sample, "sample_value">>,
       <<"get_vec", sample, "sample_value">>,
       <<"del", sample>>,
       <<"get_vec", sample, None>>,
       <<"drop">>, <<"drop_manager">> >>

test_simple_log ==
    << <<"new">>, <<"open", 1>>,
       <<"get_vec", sample, None>>,
       <<"batch_new">>,
       <<"b.set", sample, "sample_value">>,
       <<"b.log_set", <<1, 1>>, "sample">>,
       <<"batch_write">>,
       <<"get_vec", sample, "sample_value">>,
       <<"log_get_vec", <<1, 1>>, "sample">>,
       <<"drop">>, <<"drop_manager">> >>

test_iter ==
    << <<"new">> >>
    \o ForEach(<<0, 1, 2>>, LAMBDA i :
          << <<"open", i>>,
             <<"set", Key(1), ToString(i)>>,
             <<"set", Key(2), ToString(i)>>,
             <<"set", Key(3), ToString(i)>>,
             <<"drop">> >>)
    \o ForEach(<<0, 1, 2>>, LAMBDA i :
          << <<"open", i>> >>
          \o Collect(<<"iterator">>, "values",
                     <<ToString(i), ToString(i), ToString(i)>>)
          \o << <<"drop">> >>)
    \o << <<"drop_manager">> >>

test_iter_log ==
    << <<"new">> >>
    \o ForEach(<<0, 1, 2>>, LAMBDA i :
          << <<"open", i>>, <<"batch_new">>,
             <<"b.log_set", <<i, i + 0>>, ToString(i + 0)>>,
             <<"b.log_set", <<i, i + 1>>, ToString(i + 1)>>,
             <<"b.log_set", <<i, i + 2>>, ToString(i + 2)>>,
             <<"b.log_set", <<i + 1, i>>, "">>,
             <<"batch_write">>, <<"drop">> >>)
    \o ForEach(<<0, 1, 2>>, LAMBDA i :
          << <<"open", i>> >>
          \o Collect(<<"log_iterator", i, i + 1>>, "items",
                     << <<<<i, i + 1>>, ToString(i + 1)>>,
                        <<<<i, i + 2>>, ToString(i + 2)>> >>)
          \o Collect(<<"log_iterator", i, i>>, "count", 3)
          \o << <<"drop">> >>)
    \o << <<"drop_manager">> >>

test_clear ==
    << <<"new">> >>
    \o ForEach(<<0, 1, 2>>, LAMBDA i :
          << <<"open", i>>, <<"batch_new">>,
             <<"b.set", Key(i), ToString(i)>>,
             <<"b.log_set", <<i, i>>, ToString(i)>>,
             <<"batch_write">>, <<"drop">> >>)
    \o ForEach(<<0, 1, 2>>, LAMBDA i :
          << <<"open", i>> >>
          \o Collect(<<"iterator">>, "count", 1)
          \o Collect(<<"log_iterator", i, i>>, "count", 1)
          \o << <<"clear">> >>
          \o Collect(<<"iterator">>, "count", 0)
          \o Collect(<<"log_iterator", i, i>>, "count", 0)
          \o << <<"drop">> >>)
    \o << <<"drop_manager">> >>

test_open_all ==
    << <<"new">> >>
    \o ForEach(<<1, 2, 3, 1, 2, 3>>, LAMBDA i : << <<"open", i>>, <<"drop">> >>)
    \o << <<"drop_manager">> >>

Tests ==
    [test_simple   |-> test_simple,   test_simple_log |-> test_simple_log,
     test_iter     |-> test_iter,     test_iter_log   |-> test_iter_log,
     test_clear    |-> test_clear,    test_open_all   |-> test_open_all]

Script   == Tests[test]
Finished == at > Len(Script)

-----------------------------------------------------------------------------
\* The call c as thread t makes it, on the Storage h and the iterator i.
Call(t, h, i, c) ==
    \/ c[1] = "open"         /\ Open(t, h, c[2])
    \/ c[1] = "drop"         /\ DropStorage(t, h)
    \/ c[1] = "drop_manager" /\ DropManager(t)
    \/ c[1] = "get_vec"      /\ Get(t, h, c[2])
    \/ c[1] = "set"          /\ Set(t, h, c[2], c[3])
    \/ c[1] = "del"          /\ Del(t, h, c[2])
    \/ c[1] = "batch_new"    /\ BatchNew(t, h)
    \/ c[1] = "b.set"        /\ BatchSet(t, c[2], c[3])
    \/ c[1] = "b.log_set"    /\ BatchLogSet(t, c[2], c[3])
    \/ c[1] = "batch_write"  /\ BatchWrite(t)
    \/ c[1] = "iterator"     /\ Iterator(t, h, i)
    \/ c[1] = "log_iterator" /\ LogIterator(t, h, i, c[2], c[3])
    \/ c[1] = "collect"      /\ IterNext(t, i)
    \/ c[1] = "drop_iter"    /\ IterDrop(t, i)
    \/ c[1] = "clear"        /\ (ClearBegin(t, h) \/ ClearStep(t))
    \/ c[1] \in {"log_get_vec", "assert_eq"} /\ UNCHANGED vars

\* The call has not returned: new and clear() are several steps, and
\* collect and count call next() until it returns None.
InCall(c) ==
    \/ \E t \in Threads : pc[t] \in NewPcs \cup ClearPcs
    \/ c[1] = "collect" /\ \E i \in Iters : iter[i] # None /\ ~iter[i].done

TestInit ==
    /\ DurableInit /\ families = {}
    /\ test \in DOMAIN Tests /\ at = 1

TestStep ==
    /\ ~Finished
    /\ \E c \in {Script[at]}, t \in Threads, h \in Handles, i \in Iters :
          /\ \/ Call(t, h, i, c) /\ Journal
             \/ c[1] = "new" /\ (New(t) \/ NewRetry(t) \/ NewCreateCf(t))
          /\ at' = IF InCall(c)' THEN at ELSE at + 1
    /\ UNCHANGED test

\* cargo runs a test to its end.
TestSpec == TestInit /\ [][TestStep]_tvars /\ WF_tvars(TestStep)

-----------------------------------------------------------------------------
\* What the collecting adaptors of the tests make of what next() returned.
Collected(out) ==
    [count |-> Len(out), items |-> out,
     values |-> [j \in DOMAIN out |-> out[j][2]]]

\* The assertion that comes next holds.
Holds(c) ==
    /\ c[1] = "get_vec" =>
          \A h \in Handles : get_vec(h, c[2]) = c[3]
    /\ c[1] = "log_get_vec" =>
          \A h \in Handles : log_get_vec(h, c[2]) = c[3]
    /\ c[1] = "assert_eq" =>
          \A i \in Iters : Collected(iter[i].out)[c[2]] = c[3]

(***************************************************************************)
(* The tests of the repository pass on the model: no call of a test        *)
(* panics, the drops of its Storage, iterators and StorageManager          *)
(* included, and every assert_eq! finds what the test expects.             *)
(***************************************************************************)
TestsPass ==
    /\ \A t \in Threads : pc[t] # "panicked"
    /\ ~Finished => Holds(Script[at])

(***************************************************************************)
(* Every test runs to its end: StorageManager::new and open return Ok over *)
(* the directory the test has removed, so that their unwrap goes through,  *)
(* and the loops of clear(), collect and count come to an end.             *)
(***************************************************************************)
TestsRunToTheEnd == <>Finished

-----------------------------------------------------------------------------
(***************************************************************************)
(* The codec under the tests, against its reference: what the encodings    *)
(* say (bytewise order, byte ranges, decoded fields) compared with what    *)
(* the inputs say, over every namespace id, every log key and every user   *)
(* key that fits the buffer.  The laws do not depend on the state; they    *)
(* are stated of the state a test starts in.                               *)
(***************************************************************************)
LogKeyPairs == U64 \X U64
FittingKeys == SeqOf(Byte, BufLen - NsWidth)

\* (num, prefix, seq) of a before that of b, as integers.
NumericLess(a, b) ==
    \E i \in 1 .. 3 : a[i] < b[i] /\ \A j \in 1 .. i - 1 : a[j] = b[j]

(***************************************************************************)
(* The engine orders the log column family bytewise; build_log_key must    *)
(* make that order the numeric order of (num, prefix, seq), or a log scan  *)
(* returns entries out of sequence.                                        *)
(***************************************************************************)
LogKeyOrderIsNumeric ==
    at = 1 => \A a, b \in U16 \X U64 \X U64 :
        BytewiseLess(build_log_key(a[1], <<a[2], a[3]>>),
                     build_log_key(b[1], <<b[2], b[3]>>)) <=> NumericLess(a, b)

(***************************************************************************)
(* The range clear() computes for a namespace holds the main and log keys  *)
(* of that namespace and of no other.  Stated for every namespace whose    *)
(* successor exists: at the last one the sum of line 274 overflows.        *)
(***************************************************************************)
ClearBoundsSelectNamespace ==
    at = 1 => \A num \in U16 \ {MaxU16}, other \in U16 :
        \A k \in {build_key(other, key) : key \in FittingKeys}
                 \cup {build_log_key(other, lk) : lk \in LogKeyPairs} :
            InRange(k, ClearBounds(num).from, ClearBounds(num).to)
                <=> other = num

(***************************************************************************)
(* The seek key and upper bound of log_iterator(prefix, start) enclose the *)
(* entries (prefix, s) with s >= start of the same namespace and nothing   *)
(* else.  Stated for every prefix whose successor exists: at the last one  *)
(* the sum of line 195 overflows.                                          *)
(***************************************************************************)
LogIterBoundsSelectSuffix ==
    at = 1 => \A num, other \in U16, lk \in LogKeyPairs,
                 scan \in (U64 \ {MaxU64}) \X U64 :
        LET b == LogIterBounds(num, scan[1], scan[2])
        IN InRange(build_log_key(other, lk), b.from, b.to) <=>
              other = num /\ lk[1] = scan[1] /\ lk[2] >= scan[2]

(***************************************************************************)
(* What LogStorageIter::next and StorageIter::next decode from a physical  *)
(* key is what build_log_key and build_key encoded, and the prefix         *)
(* extractor sees the namespace id of every main key.                      *)
(***************************************************************************)
DecodeInvertsEncode ==
    at = 1 => \A num \in U16 :
        /\ \A lk \in LogKeyPairs : LogKey(build_log_key(num, lk)) = lk
        /\ \A key \in FittingKeys :
              LET k == build_key(num, key)
              IN /\ UserKey(k) = key /\ in_domain(k)
                 /\ ReadBigEndian(transform(k)) = num

=============================================================================
