------------------------------ MODULE Durability ------------------------------
(***************************************************************************)
(* The storage of module Storage over a directory that outlives the        *)
(* process: StorageManager::new opening or converting what it finds there, *)
(* Storage::sync, and the crash of the machine at any moment.              *)
(*                                                                         *)
(* Failures covered: a crash between any two steps, those of new and of    *)
(* clear() included; a directory that is missing, or has only the default  *)
(* column family; an engine already open in the process.                   *)
(* Not covered: I/O errors of the engine, which new passes on and every    *)
(* other operation unwraps.                                                *)
(*                                                                         *)
(* The engine is modelled by what its documentation promises.  A write     *)
(* batch is one record of the write-ahead log; a write returns before its  *)
(* record is on disk, and sync_wal returns after every record is; recovery *)
(* replays a prefix of the log, so it brings back the contents of some     *)
(* moment since the last sync.  delete_files_in_range is not a record of   *)
(* the log: the files it removes are gone from whatever recovery brings    *)
(* back.  Flushes the engine starts by itself only narrow what a crash may *)
(* leave, and are left out.                                                *)
(***************************************************************************)
EXTENDS Storage

VARIABLES families,  \* the column families of the directory; {} when it is missing
          wal,       \* the contents recovery may bring back
          whole      \* of these, the contents between two operations

dvars == <<vars, families, wal, whole>>

Layout == {"default", "log"}
NewPcs == {"new_retry", "new_create_cf"}

\* Every clear() has removed all it had to, or nothing yet: the contents
\* are those some operation left.
NothingOwed ==
    \A t \in Threads : \A ck \in owed[t] : ck[2] \notin DOMAIN db[ck[1]]

\* The engine holds the lock of its directory for as long as a DB lives:
\* in the manager, in a Storage or an iterator, or in the closure of new.
EngineAlive ==
    manager \/ EngineClones # {} \/ \E t \in Threads : pc[t] = "new_create_cf"

\* Fault variant of Created: create_if_missing is not set.
Created_if_present == families

\* create_if_missing: a missing database is created with the default family.
Created == IF families = {} THEN {"default"} ELSE families

\* DB::open_cf succeeds when the lock is free and cfds names every family.
CanOpen(cfds) == ~EngineAlive /\ Created = cfds

-----------------------------------------------------------------------------
\* A process that has just started: no manager, no handle, nothing begun.
Started(m, hs, is, bs, pcs, cs, os) ==
    /\ m = FALSE
    /\ hs = [h \in Handles |-> None] /\ is = [i \in Iters |-> None]
    /\ bs = [t \in Threads |-> None] /\ pcs = [t \in Threads |-> "idle"]
    /\ cs = [t \in Threads |-> None] /\ os = [t \in Threads |-> {}]

DurableInit ==
    /\ db = [c \in CFs |-> EmptyMap]
    /\ Started(manager, handle, iter, batch, pc, clr, owed)
    /\ families \in {{}, {"default"}}
    /\ wal = {db} /\ whole = {db}

\* new, up to the first open_cf: with both families.
New(t) ==
    /\ Running(t)
    /\ families' = Created
    /\ \/ CanOpen(Layout) /\ manager' = TRUE /\ UNCHANGED pc
       \/ ~CanOpen(Layout) /\ pc' = [pc EXCEPT ![t] = "new_retry"]
                           /\ UNCHANGED manager
    /\ UNCHANGED <<db, handle, iter, batch, clr, owed, wal, whole>>

\* The closure of or_else: open_cf with the default family alone; its
\* error is the one new returns.
NewRetry(t) ==
    /\ pc[t] = "new_retry"
    /\ families' = Created
    /\ pc' = [pc EXCEPT ![t] = IF CanOpen({"default"}) THEN "new_create_cf"
                                                       ELSE "idle"]
    /\ UNCHANGED <<db, manager, handle, iter, batch, clr, owed, wal, whole>>

\* Fault variant of NewCreateCf: the closure returns the legacy database.
NewCreateCf_skipped(t) ==
    /\ pc[t] = "new_create_cf"
    /\ manager' = TRUE
    /\ pc' = [pc EXCEPT ![t] = "idle"]
    /\ UNCHANGED <<db, handle, iter, batch, clr, owed, families, wal, whole>>

NewCreateCf(t) ==
    /\ pc[t] = "new_create_cf"
    /\ families' = Layout
    /\ manager' = TRUE
    /\ pc' = [pc EXCEPT ![t] = "idle"]
    /\ UNCHANGED <<db, handle, iter, batch, clr, owed, wal, whole>>

Sync(t, h) ==
    /\ Running(t) /\ IsOpen(h)
    /\ wal' = {db}
    /\ whole' = whole \cap {db}
    /\ UNCHANGED <<vars, families>>

\* The step is the delete_files_in_range of some clear().
FilesDropped == \E t \in Threads : pc[t] = "clear_files" /\ pc'[t] # pc[t]

\* Contents d without the keys this step removes.
Without(d) ==
    [c \in CFs |-> Restrict(d[c], DOMAIN d[c] \ (DOMAIN db[c] \ DOMAIN db'[c]))]

\* What a step of the storage leaves on disk: a record at the end of the
\* log, or fewer files.
Journal ==
    /\ wal' = IF FilesDropped THEN {Without(d) : d \in wal} ELSE wal \cup {db'}
    /\ whole' = IF NothingOwed' THEN whole \cup {db'} ELSE whole
    /\ UNCHANGED families

\* The machine stops and starts again: the process and all it held are
\* gone, the directory has its families and some contents of the log.
Crash ==
    /\ db' \in wal
    /\ wal' = {db'} /\ whole' = {db'}
    /\ Started(manager', handle', iter', batch', pc', clr', owed')
    /\ UNCHANGED families

DurableNext ==
    \/ Next /\ Journal
    \/ \E t \in Threads : New(t) \/ NewRetry(t) \/ NewCreateCf(t)
    \/ \E t \in Threads, h \in Handles : Sync(t, h)
    \/ Crash

DurableSpec == DurableInit /\ [][DurableNext]_dvars

-----------------------------------------------------------------------------
(***************************************************************************)
(* StorageManager::open unwraps cf_handle("default") and cf_handle("log"). *)
(* Whenever new has returned a manager the directory has both families,    *)
(* whichever of its two paths new took and wherever an earlier new was cut *)
(* short by a crash, so neither unwrap can panic.                          *)
(***************************************************************************)
OpenFindsBothFamilies == manager => families = Layout

(***************************************************************************)
(* The or_else of new turns every failure of the first open_cf into a      *)
(* second attempt.  new returns an error only when the engine is open in   *)
(* this process, or was when new began and has since left the directory    *)
(* with both families: a missing directory, a legacy one, and one a crash  *)
(* left between the second open_cf and create_cf are all opened.           *)
(***************************************************************************)
NewOpensEveryLayout ==
    [][\A t \in Threads :
          NewRetry(t) /\ pc'[t] = "idle" => EngineAlive \/ families = Layout]_dvars

(***************************************************************************)
(* "Either all or none [of a batch] are visible after a crash/reopen":     *)
(* the contents a crash leaves are those some operation left.  clear()     *)
(* removes a namespace in one engine call per file range and per key, so a *)
(* crash inside it leaves what no operation did.                           *)
(***************************************************************************)
RecoveryIsACommitPoint == [][Crash => db' \in whole]_dvars
===============================================================================
