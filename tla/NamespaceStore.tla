--------------------------- MODULE NamespaceStore ---------------------------
(***************************************************************************)
(* What the storage layer promises its callers, without the engine, the    *)
(* physical keys and the column families: every namespace is a store of    *)
(* its own: a set of entries, one at most for each slot (a user key, or a  *)
(* log key).                                                               *)
(*                                                                         *)
(*   - A caller writes to a namespace somebody holds, one operation at a   *)
(*     time or a batch at once; nothing else changes.                      *)
(*   - A clear runs for a while.  While it runs, slots of its namespace    *)
(*     may disappear, and it ends only when every slot it found at its     *)
(*     start is gone, unless somebody has written that slot meanwhile.     *)
(*   - Slots never disappear from a namespace that is not being cleared    *)
(*     otherwise than by a write to that namespace.                        *)
(***************************************************************************)
EXTENDS Sequences, SequencesExt

CONSTANTS Namespaces,  \* the namespace ids
          Slots,       \* the logical keys of one namespace
          Values,
          Callers,
          None

VARIABLES store,     \* the entries [ns, slot, value] of all namespaces
          held,      \* the namespaces somebody has a handle of
          batch,     \* batch[c]: the batch caller c is building, or None
          clearing   \* clearing[c]: the clear caller c is in, or None

avars == <<store, held, batch, clearing>>

Op == [slot : Slots, value : Values \cup {None}]

SlotsOf(n) == {e.slot : e \in {x \in store : x.ns = n}}

Without(s, n, gone) == {e \in s : ~(e.ns = n /\ e.slot \in gone)}

\* One operation on namespace n; a delete has no value.
Apply(s, n, op) ==
    Without(s, n, {op.slot}) \cup
        IF op.value = None THEN {}
        ELSE {[ns |-> n, slot |-> op.slot, value |-> op.value]}

InUse(n) ==
    \E c \in Callers : \/ batch[c] # None /\ batch[c].ns = n
                       \/ clearing[c] # None /\ clearing[c].ns = n

\* A slot written while its namespace is being cleared is the writer's.
Settle(n, written) ==
    clearing' = [c \in Callers |->
                   IF clearing[c] # None /\ clearing[c].ns = n
                   THEN [clearing[c] EXCEPT !.owed = @ \ written]
                   ELSE clearing[c]]

Abandon(c) == batch' = [batch EXCEPT ![c] = None]

-----------------------------------------------------------------------------
Init ==
    /\ store = {}
    /\ held = {}
    /\ batch = [c \in Callers |-> None]
    /\ clearing = [c \in Callers |-> None]

Acquire(n) ==
    /\ UNCHANGED <<batch, clearing>>
    /\ held' = held \cup {n}
    /\ UNCHANGED store

\* A caller gives up a namespace, and possibly, failing, its batch with it.
Release(c, n) ==
    /\ held' = held \ {n}
    /\ UNCHANGED batch \/ Abandon(c)
    /\ ~InUse(n)'
    /\ UNCHANGED <<clearing, store>>

Discard(c) ==
    /\ batch[c] # None
    /\ Abandon(c)
    /\ UNCHANGED <<held, clearing, store>>

Put(n) ==
    /\ UNCHANGED <<held, batch>>
    /\ \E op \in Op : /\ Settle(n, {op.slot})
                      /\ store' = Apply(store, n, op)

BatchNew(c, n) ==
    /\ batch[c] = None
    /\ UNCHANGED <<held, clearing>>
    /\ batch' = [batch EXCEPT ![c] = [ns |-> n, ops |-> <<>>]]
    /\ UNCHANGED store

BatchAdd(c) ==
    /\ batch[c] # None
    /\ UNCHANGED <<held, clearing>>
    /\ \E op \in Op : batch' = [batch EXCEPT ![c].ops = Append(@, op)]
    /\ UNCHANGED store

\* The operations of the batch in order, main and log slots alike, at once.
BatchWrite(c) ==
    /\ batch[c] # None
    /\ Abandon(c)
    /\ UNCHANGED held
    /\ LET b == batch[c]
       IN /\ Settle(b.ns, {b.ops[j].slot : j \in DOMAIN b.ops})
          /\ store' = FoldLeft(LAMBDA s, op : Apply(s, b.ns, op),
                             store, b.ops)

ClearBegin(c, n) ==
    /\ clearing[c] = None
    /\ UNCHANGED <<held, batch>>
    /\ clearing' = [clearing EXCEPT ![c] = [ns |-> n, owed |-> SlotsOf(n)]]
    /\ UNCHANGED store

ClearRemove(c) ==
    /\ clearing[c] # None
    /\ UNCHANGED <<held, batch, clearing>>
    /\ \E gone \in SUBSET SlotsOf(clearing[c].ns) :
          store' = Without(store, clearing[c].ns, gone)

ClearEnd(c) ==
    /\ clearing[c] # None
    /\ clearing' = [clearing EXCEPT ![c] = None]
    /\ UNCHANGED <<held, batch>>
    /\ clearing[c].owed \cap SlotsOf(clearing[c].ns) = {}
    /\ UNCHANGED store

Next ==
    \/ \E n \in Namespaces : Acquire(n)
    \/ \E n \in held :
          \/ Put(n)
          \/ \E c \in Callers : Release(c, n) \/ BatchNew(c, n) \/ ClearBegin(c, n)
    \/ \E c \in Callers :
          \/ Discard(c)
          \/ BatchAdd(c)
          \/ BatchWrite(c)
          \/ ClearRemove(c)
          \/ ClearEnd(c)

Spec == Init /\ [][Next]_avars

=============================================================================
