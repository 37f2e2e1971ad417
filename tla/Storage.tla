------------------------------- MODULE Storage -------------------------------
(***************************************************************************)
(* The namespace handles of src/storage.rs (struct Storage), their batches *)
(* and iterators, over the one engine they share.  Threads call the        *)
(* operations of any open handle (Storage is Send and Sync); every call is *)
(* one step, except clear(), which is a loop of engine calls other         *)
(* threads interleave with.                                                *)
(*                                                                         *)
(* The engine is what the code sees of it: two column families, each a     *)
(* map from physical keys to values, ordered bytewise, written atomically  *)
(* by a write batch and read through cursors that see the contents of the  *)
(* moment they were created.                                               *)
(***************************************************************************)
EXTENDS KeyCodec, FiniteSets, SequencesExt

CONSTANTS Threads,         \* the threads that call into the storage
          Handles,         \* identities of Storage values
          Iters,           \* identities of iterators
          Nums,            \* the namespace ids passed to open
          Keys,            \* the user keys passed to get, set and del
          LogKeys,         \* the (prefix, seq) pairs passed to log_set
          Scans,           \* the (prefix, start) pairs passed to log_iterator
          Values,          \* the values written
          MaxBatchOps,     \* bound on the operations of one batch
          OverflowChecks,  \* TRUE: `+ 1` panics on overflow; FALSE: it wraps
          None

ASSUME /\ Nums \subseteq U16
       /\ Keys \subseteq Seq(Byte)
       /\ LogKeys \subseteq U64 \X U64 /\ Scans \subseteq U64 \X U64
       /\ MaxBatchOps \in Nat
       /\ OverflowChecks \in BOOLEAN
       /\ None \notin Values \cup U16 \cup Handles

VARIABLES db,      \* [cf, log_cf]: the contents of the two column families
          manager, \* TRUE while the StorageManager has not been dropped
          handle,  \* handle[h]: num of the open Storage h, or None
          iter,    \* iter[i]: the live iterator i, or None
          batch,   \* batch[t]: the StorageBatch thread t is building, or None
          pc,      \* pc[t]: where thread t is
          clr,     \* clr[t]: the locals of clear() in thread t
          owed     \* owed[t]: what the clear() of thread t has to remove

vars == <<db, manager, handle, iter, batch, pc, clr, owed>>

CFs      == {"cf", "log_cf"}
ClearPcs == {"clear_files", "clear_seek", "clear_delete"}

-----------------------------------------------------------------------------
(***************************************************************************)
(* The engine.                                                             *)
(***************************************************************************)
EmptyMap == [k \in {} |-> None]

Put(m, k, v) == [x \in DOMAIN m \cup {k} |-> IF x = k THEN v ELSE m[x]]
Delete(m, k) == Restrict(m, DOMAIN m \ {k})

\* One operation of a write batch; a delete carries no value.
ApplyOp(d, op) ==
    [d EXCEPT ![op.cf] = IF op.value = None THEN Delete(@, op.key)
                                            ELSE Put(@, op.key, op.value)]

\* DB::write: the operations of a batch in order, as one change.
Write(d, wb) == FoldLeft(ApplyOp, d, wb)

Least(S) == CHOOSE k \in S : \A j \in S : ~BytewiseLess(j, k)

\* DBIterator::next: the cursor moves off the key it stands on.
Advance(todo) == IF todo = {} THEN {} ELSE todo \ {Least(todo)}

(***************************************************************************)
(* The keys a cursor of column family c, created over contents m with read *)
(* options ro and sought to target, will visit.  Only the main column      *)
(* family has a prefix extractor, so prefix_same_as_start means nothing on *)
(* the log.                                                                *)
(***************************************************************************)
SeekKeys(c, m, ro, target) ==
    {k \in DOMAIN m :
        /\ ~BytewiseLess(k, target)
        /\ ro.upper # None => BytewiseLess(k, ro.upper)
        /\ (ro.prefix_same_as_start /\ c = "cf" /\ in_domain(target)) =>
               in_domain(k) /\ transform(k) = transform(target)}

-----------------------------------------------------------------------------
Running(t) == pc[t] = "idle"
IsOpen(h)  == handle[h] # None

\* A panic unwinds the thread: the batch it was building goes with it.
Panic(t) ==
    /\ pc' = [pc EXCEPT ![t] = "panicked"]
    /\ batch' = [batch EXCEPT ![t] = None]

\* The iterators holding a clone of h's iterators_handle.
PendingIters(h) == {i \in Iters : iter[i] # None /\ iter[i].storage = h}

check_pending_iters(h) == PendingIters(h) = {}

\* What some thread borrows of h: a batch, or self in a running clear().
Borrowed(h) ==
    \/ \E t \in Threads : batch[t] # None /\ batch[t].storage = h
    \/ \E t \in Threads : pc[t] \in ClearPcs /\ clr[t].storage = h

\* Fault variant of MainOp: the put goes to the log column family.
MainOp_into_log(num, key, value) ==
    [cf |-> "log_cf", key |-> build_key(num, key), value |-> value]

MainOp(num, key, value) ==
    [cf |-> "cf", key |-> build_key(num, key), value |-> value]

LogOp(num, log_key, value) ==
    [cf |-> "log_cf", key |-> build_log_key(num, log_key), value |-> value]

\* A committed write: the engine changes, and a key put again is no longer
\* for a running clear() to remove.
Commit(wb) ==
    /\ db' = Write(db, wb)
    /\ owed' = [t \in Threads |->
                  owed[t] \ {<<wb[j].cf, wb[j].key>> : j \in DOMAIN wb}]

-----------------------------------------------------------------------------
Init ==
    /\ db = [c \in CFs |-> EmptyMap]
    /\ manager = TRUE
    /\ handle = [h \in Handles |-> None]
    /\ iter = [i \in Iters |-> None]
    /\ batch = [t \in Threads |-> None]
    /\ pc = [t \in Threads |-> "idle"]
    /\ clr = [t \in Threads |-> None]
    /\ owed = [t \in Threads |-> {}]

(***************************************************************************)
(* StorageManager.  Init is the state StorageManager::new leaves over an   *)
(* empty directory.  Every Storage and every iterator holds a clone of the *)
(* Arc of the engine, and the drop of the manager asserts that none is     *)
(* left; the engine itself lives on for as long as one of them does.       *)
(***************************************************************************)
Open(t, h, num) ==
    /\ Running(t) /\ manager /\ ~IsOpen(h)
    /\ handle' = [handle EXCEPT ![h] = num]
    /\ UNCHANGED <<db, manager, iter, batch, pc, clr, owed>>

EngineClones ==
    {h \in Handles : IsOpen(h)} \cup {i \in Iters : iter[i] # None}

DropManager(t) ==
    /\ Running(t) /\ manager
    /\ manager' = FALSE
    /\ IF EngineClones = {} THEN UNCHANGED <<pc, batch>> ELSE Panic(t)
    /\ UNCHANGED <<db, handle, iter, clr, owed>>

\* The assert of drop fails while iterators are pending; the Storage is
\* gone all the same, and its iterators_handle lives on in the iterators.
DropStorage(t, h) ==
    /\ Running(t) /\ IsOpen(h) /\ ~Borrowed(h)
    /\ handle' = [handle EXCEPT ![h] = None]
    /\ iter' = [i \in Iters |->
                  IF i \in PendingIters(h)
                  THEN [iter[i] EXCEPT !.storage = None] ELSE iter[i]]
    /\ IF check_pending_iters(h) THEN UNCHANGED <<pc, batch>> ELSE Panic(t)
    /\ UNCHANGED <<db, manager, clr, owed>>

(***************************************************************************)
(* What a read returns: the value under the encoded key in the column      *)
(* family of its kind, or None.  The callback of get and log_get sees the  *)
(* value; the one get_vec and log_get_vec pass copies it.                  *)
(***************************************************************************)
GetCf(c, k) == IF k \in DOMAIN db[c] THEN db[c][k] ELSE None

get(h, key) == GetCf("cf", build_key(handle[h], key))

\* Fault variant of log_get: the read goes to self.cf.
log_get_from_cf(h, log_key) ==
    GetCf("cf", build_log_key(handle[h], log_key))

log_get(h, log_key) ==
    GetCf("log_cf", build_log_key(handle[h], log_key))

get_vec(h, key) == get(h, key)

log_get_vec(h, log_key) == log_get(h, log_key)

(***************************************************************************)
(* get, set, del: a key that does not fit the buffer panics in build_key,  *)
(* before the engine is touched.                                           *)
(***************************************************************************)
Get(t, h, key) ==
    /\ Running(t) /\ IsOpen(h)
    /\ IF Fits(BufLen, key) THEN UNCHANGED <<pc, batch>> ELSE Panic(t)
    /\ UNCHANGED <<db, manager, handle, iter, clr, owed>>

Set(t, h, key, value) ==
    /\ Running(t) /\ IsOpen(h)
    /\ IF Fits(BufLen, key)
       THEN Commit(<<MainOp(handle[h], key, value)>>) /\ UNCHANGED <<pc, batch>>
       ELSE Panic(t) /\ UNCHANGED <<db, owed>>
    /\ UNCHANGED <<manager, handle, iter, clr>>

Del(t, h, key) == Set(t, h, key, None)

(***************************************************************************)
(* Batches.  A batch encodes its keys with the num of the Storage it was   *)
(* created from; batch_write hands it to the engine whole.                 *)
(***************************************************************************)
BatchNew(t, h) ==
    /\ Running(t) /\ IsOpen(h) /\ batch[t] = None
    /\ batch' = [batch EXCEPT ![t] = [storage |-> h, wb |-> <<>>]]
    /\ UNCHANGED <<db, manager, handle, iter, pc, clr, owed>>

BatchAdd(t, op) ==
    /\ Running(t) /\ batch[t] # None /\ Len(batch[t].wb) < MaxBatchOps
    /\ batch' = [batch EXCEPT ![t].wb = Append(@, op)]
    /\ UNCHANGED <<db, manager, handle, iter, pc, clr, owed>>

BatchKeyTooLong(t, key) ==
    /\ Running(t) /\ batch[t] # None /\ ~Fits(BufLen, key)
    /\ Panic(t)
    /\ UNCHANGED <<db, manager, handle, iter, clr, owed>>

BatchSet(t, key, value) ==
    \/ Fits(BufLen, key)
         /\ BatchAdd(t, MainOp(handle[batch[t].storage], key, value))
    \/ BatchKeyTooLong(t, key)

BatchDel(t, key) == BatchSet(t, key, None)

BatchLogSet(t, log_key, value) ==
    BatchAdd(t, LogOp(handle[batch[t].storage], log_key, value))

BatchWrite(t) ==
    /\ Running(t) /\ batch[t] # None
    /\ Commit(batch[t].wb)
    /\ batch' = [batch EXCEPT ![t] = None]
    /\ UNCHANGED <<manager, handle, iter, pc, clr>>

(***************************************************************************)
(* Iterators.  A cursor sees the column family as it was when the iterator *)
(* was created.  todo is what the cursor has not passed: it stands on the  *)
(* least key of todo and is valid while todo is not empty.  out is what    *)
(* next() has returned so far, kept for the properties.                    *)
(***************************************************************************)
NewIterator(h, kind, scan, c, ro, target) ==
    [storage |-> h, kind |-> kind, num |-> handle[h], scan |-> scan,
     snap |-> db[c], todo |-> SeekKeys(c, db[c], ro, target),
     first |-> TRUE, done |-> FALSE, out |-> <<>>]

Iterator(t, h, i) ==
    /\ Running(t) /\ IsOpen(h) /\ iter[i] = None
    /\ iter' = [iter EXCEPT ![i] =
                  NewIterator(h, "main", None, "cf",
                              [prefix_same_as_start |-> TRUE, upper |-> None],
                              build_key(handle[h], <<>>))]
    /\ UNCHANGED <<db, manager, handle, batch, pc, clr, owed>>

LogIterator(t, h, i, prefix, start) ==
    /\ Running(t) /\ IsOpen(h) /\ iter[i] = None
    /\ IF OverflowChecks /\ prefix = MaxU64
       THEN Panic(t) /\ UNCHANGED iter
       ELSE LET b == LogIterBounds(handle[h], prefix, start)
            IN /\ iter' = [iter EXCEPT ![i] =
                     NewIterator(h, "log", <<prefix, start>>, "log_cf",
                         [prefix_same_as_start |-> FALSE, upper |-> b.to],
                         b.from)]
               /\ UNCHANGED <<pc, batch>>
    /\ UNCHANGED <<db, manager, handle, clr, owed>>

\* The item next() makes of the key the cursor stands on.
Item(it, k) ==
    <<IF it.kind = "main" THEN UserKey(k) ELSE LogKey(k), it.snap[k]>>

\* Fault variant of IterNext: the cursor advances on the first call too.
IterNext_no_first(t, i) ==
    /\ Running(t) /\ iter[i] # None /\ ~iter[i].done
    /\ LET it   == iter[i]
           todo == Advance(it.todo)
       IN iter' = [iter EXCEPT ![i] =
             IF todo = {} THEN [it EXCEPT !.todo = {}, !.done = TRUE]
             ELSE [it EXCEPT !.todo = todo,
                             !.out = Append(@, Item(it, Least(todo)))]]
    /\ UNCHANGED <<db, manager, handle, batch, pc, clr, owed>>

\* The assert of LogStorageIter::next on the key the cursor stands on.
Asserted(it, k) == it.kind = "log" => Len(k) = NsWidth + 2 * LogWidth

\* StorageIter::next and LogStorageIter::next, until they return None.
IterNext(t, i) ==
    /\ Running(t) /\ iter[i] # None /\ ~iter[i].done
    /\ LET it   == iter[i]
           todo == IF it.first THEN it.todo ELSE Advance(it.todo)
       IN \/ /\ todo = {}
             /\ iter' = [iter EXCEPT ![i].first = FALSE, ![i].done = TRUE]
             /\ UNCHANGED <<pc, batch>>
          \/ /\ todo # {} /\ Asserted(it, Least(todo))
             /\ iter' = [iter EXCEPT ![i] =
                   [it EXCEPT !.first = FALSE, !.todo = todo,
                              !.out = Append(@, Item(it, Least(todo)))]]
             /\ UNCHANGED <<pc, batch>>
          \/ /\ todo # {} /\ ~Asserted(it, Least(todo))
             /\ iter' = [iter EXCEPT ![i].first = FALSE, ![i].todo = todo]
             /\ Panic(t)
    /\ UNCHANGED <<db, manager, handle, clr, owed>>

\* next() again after None advances a cursor that is not valid, which the
\* engine leaves undefined: the cursor stays as it is, or the call dies on
\* the engine's assertion.
IterNextAgain(t, i) ==
    /\ Running(t) /\ iter[i] # None /\ iter[i].done
    /\ UNCHANGED <<pc, batch>> \/ Panic(t)
    /\ UNCHANGED <<db, manager, handle, iter, clr, owed>>

IterDrop(t, i) ==
    /\ Running(t) /\ iter[i] # None
    /\ iter' = [iter EXCEPT ![i] = None]
    /\ UNCHANGED <<db, manager, handle, batch, pc, clr, owed>>

(***************************************************************************)
(* clear().  The check for pending iterators and the bounds come first;    *)
(* then, for each column family in turn: delete_file_in_range, which drops *)
(* whichever files lie wholly inside the range and so removes some of its  *)
(* keys; a cursor over the range; and one delete per key the cursor finds. *)
(***************************************************************************)
ClearBegin(t, h) ==
    /\ Running(t) /\ IsOpen(h)
    /\ IF check_pending_iters(h) /\ ~(OverflowChecks /\ handle[h] = MaxU16)
       THEN /\ pc' = [pc EXCEPT ![t] = "clear_files"]
            /\ clr' = [clr EXCEPT ![t] =
                         [storage |-> h, cfs |-> <<"cf", "log_cf">>,
                          bounds |-> ClearBounds(handle[h]), todo |-> {}]]
            /\ owed' = [owed EXCEPT ![t] =
                         {<<c, k>> \in CFs \X UNION {DOMAIN db[c] : c \in CFs} :
                             /\ k \in DOMAIN db[c]
                             /\ ReadBigEndian(transform(k)) = handle[h]}]
            /\ UNCHANGED batch
       ELSE Panic(t) /\ UNCHANGED <<clr, owed>>
    /\ UNCHANGED <<db, manager, handle, iter>>

\* Fault variant of ClearDeleteFiles: the range has no lower bound.
ClearDeleteFiles_no_from(t) ==
    /\ pc[t] = "clear_files"
    /\ LET c == Head(clr[t].cfs)
       IN \E gone \in SUBSET {k \in DOMAIN db[c] :
                                BytewiseLess(k, clr[t].bounds.to)} :
              db' = [db EXCEPT ![c] = Restrict(@, DOMAIN @ \ gone)]
    /\ pc' = [pc EXCEPT ![t] = "clear_seek"]
    /\ UNCHANGED <<manager, handle, iter, batch, clr, owed>>

ClearDeleteFiles(t) ==
    /\ pc[t] = "clear_files"
    /\ LET c == Head(clr[t].cfs)
           b == clr[t].bounds
       IN \E gone \in SUBSET {k \in DOMAIN db[c] : InRange(k, b.from, b.to)} :
              db' = [db EXCEPT ![c] = Restrict(@, DOMAIN @ \ gone)]
    /\ pc' = [pc EXCEPT ![t] = "clear_seek"]
    /\ UNCHANGED <<manager, handle, iter, batch, clr, owed>>

\* Fault variant of ClearSeek: the cursor has no upper bound.
ClearSeek_unbounded(t) ==
    /\ pc[t] = "clear_seek"
    /\ LET c == Head(clr[t].cfs)
       IN clr' = [clr EXCEPT ![t].todo =
                    SeekKeys(c, db[c],
                             [prefix_same_as_start |-> TRUE, upper |-> None],
                             clr[t].bounds.from)]
    /\ pc' = [pc EXCEPT ![t] = "clear_delete"]
    /\ UNCHANGED <<db, manager, handle, iter, batch, owed>>

ClearSeek(t) ==
    /\ pc[t] = "clear_seek"
    /\ LET c == Head(clr[t].cfs)
           b == clr[t].bounds
       IN clr' = [clr EXCEPT ![t].todo =
                    SeekKeys(c, db[c],
                             [prefix_same_as_start |-> TRUE, upper |-> b.to],
                             b.from)]
    /\ pc' = [pc EXCEPT ![t] = "clear_delete"]
    /\ UNCHANGED <<db, manager, handle, iter, batch, owed>>

\* Fault variant of ClearDelete: the loop body without iter.next().
ClearDelete_no_next(t) ==
    /\ pc[t] = "clear_delete" /\ clr[t].todo # {}
    /\ db' = [db EXCEPT ![Head(clr[t].cfs)] = Delete(@, Least(clr[t].todo))]
    /\ UNCHANGED <<manager, handle, iter, batch, pc, clr, owed>>

ClearDelete(t) ==
    /\ pc[t] = "clear_delete" /\ clr[t].todo # {}
    /\ LET k == Least(clr[t].todo)
       IN /\ db' = [db EXCEPT ![Head(clr[t].cfs)] = Delete(@, k)]
          /\ clr' = [clr EXCEPT ![t].todo = Advance(@)]
    /\ UNCHANGED <<manager, handle, iter, batch, pc, owed>>

\* Fault variant of ClearNextCf: clear() returns after the first family.
ClearNextCf_main_only(t) ==
    /\ pc[t] = "clear_delete" /\ clr[t].todo = {}
    /\ pc' = [pc EXCEPT ![t] = "idle"]
    /\ clr' = [clr EXCEPT ![t] = None]
    /\ UNCHANGED <<db, manager, handle, iter, batch, owed>>

\* The cursor is exhausted: on to the log column family, or return.
ClearNextCf(t) ==
    /\ pc[t] = "clear_delete" /\ clr[t].todo = {}
    /\ IF Len(clr[t].cfs) > 1
       THEN /\ pc' = [pc EXCEPT ![t] = "clear_files"]
            /\ clr' = [clr EXCEPT ![t].cfs = Tail(@)]
       ELSE /\ pc' = [pc EXCEPT ![t] = "idle"]
            /\ clr' = [clr EXCEPT ![t] = None]
    /\ UNCHANGED <<db, manager, handle, iter, batch, owed>>

ClearStep(t) ==
    ClearDeleteFiles(t) \/ ClearSeek(t) \/ ClearDelete(t) \/ ClearNextCf(t)

-----------------------------------------------------------------------------
Next ==
    \E t \in Threads :
        \/ DropManager(t)
        \/ \E h \in Handles :
              \/ \E num \in Nums : Open(t, h, num)
              \/ DropStorage(t, h)
              \/ \E key \in Keys :
                    \/ Get(t, h, key)
                    \/ Del(t, h, key)
                    \/ \E value \in Values : Set(t, h, key, value)
              \/ BatchNew(t, h)
              \/ \E i \in Iters :
                    \/ Iterator(t, h, i)
                    \/ \E scan \in Scans : LogIterator(t, h, i, scan[1], scan[2])
              \/ ClearBegin(t, h)
        \/ \E key \in Keys :
              \/ BatchDel(t, key)
              \/ \E value \in Values : BatchSet(t, key, value)
        \/ \E log_key \in LogKeys, value \in Values :
              BatchLogSet(t, log_key, value)
        \/ BatchWrite(t)
        \/ \E i \in Iters : IterNext(t, i) \/ IterNextAgain(t, i) \/ IterDrop(t, i)
        \/ ClearStep(t)

Spec == Init /\ [][Next]_vars

\* A thread inside clear() is scheduled again: it takes its next step.
FairSpec == Spec /\ \A t \in Threads : WF_vars(ClearStep(t))

-----------------------------------------------------------------------------
Op == [cf : CFs, key : Seq(Byte), value : Values \cup {None}]

\* The state is well-formed.  The keys of the log column family have the
\* one length LogStorageIter::next asserts of them: every writer of that
\* family builds its keys with build_log_key, so the assert cannot fail.
TypeOK ==
    /\ DOMAIN db = CFs
    /\ \A c \in CFs : \A k \in DOMAIN db[c] :
          /\ k \in Seq(Byte) /\ db[c][k] \in Values
          /\ IF c = "cf" THEN in_domain(k)
                          ELSE Len(k) = NsWidth + 2 * LogWidth
    /\ manager \in BOOLEAN
    /\ handle \in [Handles -> Nums \cup {None}]
    /\ \A i \in Iters : iter[i] # None =>
          /\ iter[i].storage \in Handles \cup {None}
          /\ iter[i].kind \in {"main", "log"}
          /\ iter[i].todo \subseteq DOMAIN iter[i].snap
          /\ iter[i].first \in BOOLEAN /\ iter[i].done \in BOOLEAN
    /\ \A t \in Threads : batch[t] # None =>
          /\ IsOpen(batch[t].storage)
          /\ batch[t].wb \in Seq(Op) /\ Len(batch[t].wb) <= MaxBatchOps
    /\ pc \in [Threads -> {"idle", "panicked"} \cup ClearPcs]
    /\ \A t \in Threads : pc[t] \in ClearPcs <=> clr[t] # None
    /\ \A t \in Threads : clr[t] # None => IsOpen(clr[t].storage)
    /\ \A t \in Threads : owed[t] \subseteq CFs \X Seq(Byte)

(***************************************************************************)
(* Namespace isolation.  Whatever a step changes in the engine lies in the *)
(* namespace of one open Storage: no set, del, batch_write or step of      *)
(* clear() (delete_file_in_range and the per-key deletes of its cursor)    *)
(* reaches a key of a namespace nobody holds a handle of.                  *)
(***************************************************************************)
Touched(d, e) ==
    {<<c, k>> \in CFs \X UNION {DOMAIN d[c] \cup DOMAIN e[c] : c \in CFs} :
        \/ (k \in DOMAIN d[c]) # (k \in DOMAIN e[c])
        \/ k \in DOMAIN d[c] /\ k \in DOMAIN e[c] /\ d[c][k] # e[c][k]}

NamespaceIsolation ==
    [][\E h \in Handles :
          /\ IsOpen(h)
          /\ \A ck \in Touched(db, db') :
                transform(ck[2]) = BigEndian(handle[h], NsWidth)]_db

(***************************************************************************)
(* Clear.  When clear() returns, every key the namespace held in either    *)
(* column family when clear() began, and that nobody has put again since,  *)
(* is gone: the two ranges, the file deletion and the cursor loop between  *)
(* them cover the namespace, whatever other threads write meanwhile.       *)
(***************************************************************************)
ClearReturns(t) == pc[t] \in ClearPcs /\ pc'[t] = "idle"

ClearRemovesNamespace ==
    [][\A t \in Threads :
          ClearReturns(t) => \A ck \in owed[t] : ck[2] \notin DOMAIN db'[ck[1]]]_vars

(***************************************************************************)
(* Iterator order (StorageIter::next).  What iterator() has returned is    *)
(* in strictly ascending order of user key, is made of entries the         *)
(* namespace held when the iterator was created, and, once next() has      *)
(* returned None, is all of them: each present key exactly once, none of   *)
(* another namespace, whatever was written or cleared since.               *)
(***************************************************************************)
Yielded(it) == {it.out[j] : j \in DOMAIN it.out}

Ascending(out, Less(_, _)) ==
    \A a, b \in DOMAIN out : a < b => Less(out[a][1], out[b][1])

MainEntries(it) ==
    {<<UserKey(k), it.snap[k]>> : k \in
        {k \in DOMAIN it.snap : ReadBigEndian(transform(k)) = it.num}}

MainIteratorYieldsNamespace ==
    \A i \in Iters : (iter[i] # None /\ iter[i].kind = "main") =>
        /\ Ascending(iter[i].out, BytewiseLess)
        /\ Yielded(iter[i]) \subseteq MainEntries(iter[i])
        /\ iter[i].done => Yielded(iter[i]) = MainEntries(iter[i])

(***************************************************************************)
(* Log range (LogStorageIter::next).  log_iterator(prefix, start) returns  *)
(* the entries (prefix, s) with s >= start that the namespace held when    *)
(* the iterator was created, in ascending s, all of them once next() has   *)
(* returned None, and no entry of another prefix or namespace.             *)
(***************************************************************************)
LogEntries(it) ==
    {<<LogKey(k), it.snap[k]>> : k \in
        {k \in DOMAIN it.snap :
            /\ ReadBigEndian(transform(k)) = it.num
            /\ LogKey(k)[1] = it.scan[1]
            /\ LogKey(k)[2] >= it.scan[2]}}

LogIteratorYieldsRange ==
    \A i \in Iters : (iter[i] # None /\ iter[i].kind = "log") =>
        /\ Ascending(iter[i].out, LAMBDA a, b : a[2] < b[2])
        /\ Yielded(iter[i]) \subseteq LogEntries(iter[i])
        /\ iter[i].done => Yielded(iter[i]) = LogEntries(iter[i])

(***************************************************************************)
(* Storage implements NamespaceStore.  Seen through the decoding of the    *)
(* physical keys (the namespace id in front, the user key or the two       *)
(* halves of the log key behind it), every step of the code is a step of   *)
(* the abstract store or changes nothing of it: set, del and batch_write   *)
(* change exactly the slots their operations name, in the namespace of the *)
(* handle the batch was made from; the engine calls of clear() remove      *)
(* slots of the namespace being cleared only; and clear() returns only     *)
(* when everything it owed is gone.                                        *)
(***************************************************************************)
NamespaceOf(k) == ReadBigEndian(transform(k))

Slot(c, k) == <<c, IF c = "cf" THEN UserKey(k) ELSE LogKey(k)>>

\* What the engine holds, as entries of the namespaces.
LogicalEntries ==
    UNION {{[ns |-> NamespaceOf(k), slot |-> Slot(c, k), value |-> db[c][k]] :
               k \in DOMAIN db[c]} : c \in CFs}

LogicalOp(op) == [slot |-> Slot(op.cf, op.key), value |-> op.value]

LogicalBatch(t) ==
    IF batch[t] = None THEN None
    ELSE [ns  |-> handle[batch[t].storage],
          ops |-> [j \in DOMAIN batch[t].wb |-> LogicalOp(batch[t].wb[j])]]

LogicalClear(t) ==
    IF clr[t] = None THEN None
    ELSE [ns   |-> handle[clr[t].storage],
          owed |-> {Slot(ck[1], ck[2]) : ck \in owed[t]}]

(***************************************************************************)
(* Reads.  get_vec and log_get_vec of an open Storage return what its      *)
(* namespace holds in the slot asked for, and None exactly when it holds   *)
(* nothing there: the key a read encodes is the key the writes, the        *)
(* batches and clear() of any handle of the namespace have left there, in  *)
(* the column family of its kind.                                          *)
(***************************************************************************)
Held(ns, slot) ==
    {e.value : e \in {x \in LogicalEntries : x.ns = ns /\ x.slot = slot}}

ReadsReturnTheNamespace ==
    \A h \in {x \in Handles : IsOpen(x)} :
        /\ \A key \in {k \in Keys : Fits(BufLen, k)} :
              Held(handle[h], <<"cf", key>>) = {get_vec(h, key)} \ {None}
        /\ \A log_key \in LogKeys :
              Held(handle[h], <<"log_cf", log_key>>)
                 = {log_get_vec(h, log_key)} \ {None}

NS == INSTANCE NamespaceStore WITH
          Namespaces <- U16,
          Slots      <- ({"cf"} \X Keys) \cup ({"log_cf"} \X LogKeys),
          Callers    <- Threads,
          store      <- LogicalEntries,
          held       <- {handle[h] : h \in {x \in Handles : IsOpen(x)}},
          batch      <- [t \in Threads |-> LogicalBatch(t)],
          clearing   <- [t \in Threads |-> LogicalClear(t)]

ImplementsNamespaceStore == NS!Spec

(***************************************************************************)
(* clear() asserts that no iterator is pending so that no cursor is open   *)
(* on the namespace while its keys are deleted: while a thread is inside   *)
(* clear(), after check_pending_iters, no iterator of that namespace is    *)
(* alive.                                                                  *)
(***************************************************************************)
NoIteratorWhileClearing ==
    \A t \in Threads : pc[t] \in ClearPcs =>
        \A i \in Iters :
            iter[i] # None => iter[i].num # handle[clr[t].storage]

(***************************************************************************)
(* clear() returns.  The cursor of clear() walks the keys of the moment it *)
(* was created, so writers that keep adding keys to the namespace cannot   *)
(* keep it from reaching the end.                                          *)
(***************************************************************************)
ClearTerminates ==
    \A t \in Threads : (pc[t] \in ClearPcs) ~> (pc[t] \notin ClearPcs)

=============================================================================
