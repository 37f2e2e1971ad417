------------------------------- MODULE Fabric -------------------------------
(***************************************************************************)
(* The exchanges the messages of src/fabric_msg.rs are made for: remote    *)
(* get and set between two nodes, and the synchronization of one replica   *)
(* of a vnode from another, over a transport that delivers each message at *)
(* most once, in any order.                                                *)
(*                                                                         *)
(* The messages and get_type are those of the source (module FabricMsg).   *)
(* The handlers are not in this repository: they follow the message        *)
(* semantics of the specification.                                         *)
(*                                                                         *)
(* A write is known by its dot (origin node, number).  A replica stores a  *)
(* write of a vnode twice, in one batch: as a record of the default column *)
(* family (the container of a key is the dots written to it) and as an     *)
(* entry of the log column family (the dot names the key).  A version      *)
(* vector is the set of dots it covers.                                    *)
(***************************************************************************)
EXTENDS Naturals, FiniteSets, Sequences, SequencesExt

CONSTANTS Nodes, VNodes, Cookies, Keys,
          Clients,        \* the nodes that start conversations
          Refusals,       \* the errors a node answers a request with
          MaxWrites,      \* MaxWrites[n]: bound on the writes node n originates
          MaxRequests,    \* bound on the conversations a node starts
          None

Dots    == UNION {{n} \X (1 .. MaxWrites[n]) : n \in Nodes}
Entries == [dot : Dots, key : Keys]

INSTANCE FabricMsg WITH
    VNodeId <- VNodes, NodeId <- Nodes, Cookie <- Cookies, Bytes <- Keys,
    Cube <- SUBSET Dots, BitmappedVersionVector <- SUBSET Dots,
    VersionVector <- SUBSET Dots, U64 <- 1 .. Cardinality(Dots)

ASSUME /\ Clients \subseteq Nodes
       /\ MaxWrites \in [Nodes -> Nat]
       /\ Refusals \subseteq FabricError

VARIABLES data,   \* data[n][v]: the records node n stores of vnode v
          log,    \* log[n][v]: the log entries node n stores of vnode v
          clock,  \* clock[n][v]: the dots node n claims to have seen
          net,    \* the messages in flight
          asked,  \* asked[n]: the conversations node n has started
          ini,    \* ini[n][c]: the conversation n tracks under cookie c
          rsp,    \* rsp[n][c]: the sync n is streaming under cookie c
          lost    \* some message has been lost

vars == <<data, log, clock, net, asked, ini, rsp, lost>>

Stored(n, v)       == {e.dot : e \in data[n][v]}
Container(n, v, k) == {e.dot : e \in {x \in data[n][v] : x.key = k}}

\* batch_write of records and the log entries that describe them.
Commit(n, v, entries) ==
    /\ data' = [data EXCEPT ![n][v] = @ \cup entries]
    /\ log' = [log EXCEPT ![n][v] = @ \cup entries]

Envelope(src, dst, variant, msg) ==
    [src |-> src, dst |-> dst, msg |-> into(variant, msg)]

\* What node n finds in its mailbox, by category and variant.
Inbox(n, type, variant) ==
    {e \in net : e.dst = n /\ get_type(e.msg) = type /\ e.msg.variant = variant}

\* The handler consumes e and sends its replies.
Handle(e, replies) == net' = (net \ {e}) \cup replies

\* The cookie allocator of the initiator: a cookie is unique while the
\* conversation under it lasts, and free again once it is over or dropped.
Allocate(n, c) ==
    /\ ini[n][c] = None
    /\ asked[n] < MaxRequests
    /\ asked' = [asked EXCEPT ![n] = @ + 1]

Tracks(n, c, kind) == ini[n][c] # None /\ ini[n][c].kind = kind

-----------------------------------------------------------------------------
Init ==
    /\ data = [n \in Nodes |-> [v \in VNodes |-> {}]]
    /\ log = [n \in Nodes |-> [v \in VNodes |-> {}]]
    /\ clock = [n \in Nodes |-> [v \in VNodes |-> {}]]
    /\ net = {}
    /\ asked = [n \in Nodes |-> 0]
    /\ ini = [n \in Nodes |-> [c \in Cookies |-> None]]
    /\ rsp = [n \in Nodes |-> [c \in Cookies |-> None]]
    /\ lost = FALSE

\* A local write: the record and the log entry describing it, in one batch.
Write(n, v, k) ==
    LET dot == <<n, Cardinality({d \in Stored(n, v) : d[1] = n}) + 1>>
    IN /\ dot \in Dots
       /\ Commit(n, v, {[dot |-> dot, key |-> k]})
       /\ clock' = [clock EXCEPT ![n][v] = @ \cup {dot}]
       /\ UNCHANGED <<net, asked, ini, rsp, lost>>

\* The transport delivers at most once: a message may never arrive.
Lose(e) ==
    /\ net' = net \ {e}
    /\ lost' = TRUE
    /\ UNCHANGED <<data, log, clock, asked, ini, rsp>>

\* The log column family is compacted in FIFO style: the engine drops
\* entries of the log by itself once the log outgrows its limit.  Which
\* entries are the oldest is not tracked: any may go.
Compact(n, v) ==
    /\ \E gone \in SUBSET log[n][v] \ {{}} :
          log' = [log EXCEPT ![n][v] = @ \ gone]
    /\ UNCHANGED <<data, clock, net, asked, ini, rsp, lost>>

\* The caller drops the cookie.
Cancel(n, c) ==
    /\ ini[n][c] # None
    /\ ini' = [ini EXCEPT ![n][c] = None]
    /\ UNCHANGED <<data, log, clock, net, asked, rsp, lost>>

\* A reply or a continuation for a cookie the node does not track (any
\* longer) is dropped.
Untracked(n, e) ==
    /\ e.dst = n
    /\ \/ e.msg.variant = "RemoteGetAck" /\ ~Tracks(n, e.msg.msg.cookie, "get")
       \/ e.msg.variant = "RemoteSetAck" /\ ~Tracks(n, e.msg.msg.cookie, "set")
       \/ /\ e.msg.variant \in {"SyncSend", "SyncFin"}
          /\ ~Tracks(n, e.msg.msg.cookie, "sync")
       \/ e.msg.variant = "SyncAck" /\ rsp[n][e.msg.msg.cookie] = None
    /\ Handle(e, {})
    /\ UNCHANGED <<data, log, clock, asked, ini, rsp, lost>>

-----------------------------------------------------------------------------
(***************************************************************************)
(* CRUD.                                                                   *)
(***************************************************************************)
RemoteGet(n, p, v, c, k) ==
    /\ Allocate(n, c)
    /\ ini' = [ini EXCEPT ![n][c] = [kind |-> "get", vnode |-> v, key |-> k]]
    /\ net' = net \cup {Envelope(n, p, "RemoteGet",
                                 [vnode |-> v, cookie |-> c, key |-> k])}
    /\ UNCHANGED <<data, log, clock, rsp, lost>>

OnRemoteGet(n, e) ==
    /\ e \in Inbox(n, "Crud", "RemoteGet")
    /\ \E result \in {Ok(Container(n, e.msg.msg.vnode, e.msg.msg.key))}
                        \cup {Err(error) : error \in Refusals} :
          Handle(e, {Envelope(n, e.src, "RemoteGetAck",
                       [vnode |-> e.msg.msg.vnode, cookie |-> e.msg.msg.cookie,
                        result |-> result])})
    /\ UNCHANGED <<data, log, clock, asked, ini, rsp, lost>>

\* The requester sends the container it holds; it waits for an answer only
\* if it asks for one.
RemoteSet(n, p, v, c, k, reply, reply_result) ==
    /\ Allocate(n, c)
    /\ ini' = [ini EXCEPT ![n][c] = IF reply
                  THEN [kind |-> "set", vnode |-> v, key |-> k] ELSE None]
    /\ net' = net \cup {Envelope(n, p, "RemoteSet",
                 [vnode |-> v, cookie |-> c, key |-> k,
                  value |-> Container(n, v, k),
                  reply |-> reply, reply_result |-> reply_result])}
    /\ UNCHANGED <<data, log, clock, rsp, lost>>

SetAck(n, e, result) ==
    IF e.msg.msg.reply
    THEN {Envelope(n, e.src, "RemoteSetAck",
             [vnode |-> e.msg.msg.vnode, cookie |-> e.msg.msg.cookie,
              result |-> result])}
    ELSE {}

\* The responder merges the value into its container of the key.
OnRemoteSet(n, e) ==
    /\ e \in Inbox(n, "Crud", "RemoteSet")
    /\ LET m == e.msg.msg
       IN \/ /\ Commit(n, m.vnode,
                    {[dot |-> d, key |-> m.key] : d \in m.value})
             /\ clock' = [clock EXCEPT ![n][m.vnode] = @ \cup m.value]
             /\ Handle(e, SetAck(n, e,
                   Ok(IF m.reply_result THEN Container(n, m.vnode, m.key)
                                        ELSE None)))
          \/ /\ \E error \in Refusals : Handle(e, SetAck(n, e, Err(error)))
             /\ UNCHANGED <<data, log, clock>>
    /\ UNCHANGED <<asked, ini, rsp, lost>>

\* RemoteGetAck and RemoteSetAck: the conversation ends with the answer.
OnRemoteAck(n, e) ==
    /\ \/ /\ e \in Inbox(n, "Crud", "RemoteGetAck")
          /\ Tracks(n, e.msg.msg.cookie, "get")
       \/ /\ e \in Inbox(n, "Crud", "RemoteSetAck")
          /\ Tracks(n, e.msg.msg.cookie, "set")
    /\ ini' = [ini EXCEPT ![n][e.msg.msg.cookie] = None]
    /\ Handle(e, {})
    /\ UNCHANGED <<data, log, clock, asked, rsp, lost>>

-----------------------------------------------------------------------------
(***************************************************************************)
(* Synchronization: initiator n asks peer p for what p has and n has not.  *)
(***************************************************************************)
InScope(dot, target) == target = None \/ dot[1] = target

SyncStart(n, p, v, c, target) ==
    /\ Allocate(n, c)
    /\ ini' = [ini EXCEPT ![n][c] =
                  [kind |-> "sync", vnode |-> v, key |-> None]]
    /\ net' = net \cup {Envelope(n, p, "SyncStart",
                 [vnode |-> v, cookie |-> c, clocks_in_peer |-> clock[n][v],
                  target |-> target])}
    /\ UNCHANGED <<data, log, clock, rsp, lost>>

SyncFin(n, to, v, c, result) ==
    Envelope(n, to, "SyncFin", [vnode |-> v, cookie |-> c, result |-> result])

\* The peer refuses, or scans its log for the entries beyond clocks_in_peer
\* and remembers the clocks that go with them.
OnSyncStart(n, e) ==
    /\ e \in Inbox(n, "Synch", "SyncStart")
    /\ LET m == e.msg.msg
       IN \/ /\ rsp[n][m.cookie] = None
             /\ rsp' = [rsp EXCEPT ![n][m.cookie] =
                  [to |-> e.src, vnode |-> m.vnode,
                   stream |-> SetToSeq({x \in log[n][m.vnode] :
                                  /\ x.dot \notin m.clocks_in_peer
                                  /\ InScope(x.dot, m.target)}),
                   clocks |-> {d \in clock[n][m.vnode] : InScope(d, m.target)},
                   next |-> 1, inflight |-> {}]]
             /\ Handle(e, {})
          \/ /\ \E error \in Refusals :
                   Handle(e, {SyncFin(n, e.src, m.vnode, m.cookie, Err(error))})
             /\ UNCHANGED rsp
    /\ UNCHANGED <<data, log, clock, asked, ini, lost>>

\* The next entry of the stream goes out under the next seq.
SendNext(n, c) ==
    LET s == rsp[n][c]
    IN /\ s.next <= Len(s.stream)
       /\ rsp' = [rsp EXCEPT ![n][c].next = @ + 1,
                             ![n][c].inflight = @ \cup {s.next}]
       /\ net' = net \cup {Envelope(n, s.to, "SyncSend",
                    [vnode |-> s.vnode, cookie |-> c, seq |-> s.next,
                     key |-> s.stream[s.next].key,
                     value |-> {s.stream[s.next].dot}])}
       /\ UNCHANGED <<data, log, clock, asked, ini, lost>>

\* The peer streams the next entry; it does not wait for the SyncAck of
\* the one before.
SyncSend(n, c) == rsp[n][c] # None /\ SendNext(n, c)

\* The initiator stores the entry and acknowledges its seq.
OnSyncSend(n, e) ==
    /\ e \in Inbox(n, "Synch", "SyncSend")
    /\ Tracks(n, e.msg.msg.cookie, "sync")
    /\ LET m == e.msg.msg
       IN /\ Commit(n, m.vnode,
                 {[dot |-> d, key |-> m.key] : d \in m.value})
          /\ Handle(e, {Envelope(n, e.src, "SyncAck",
                          [vnode |-> m.vnode, cookie |-> m.cookie,
                           seq |-> m.seq])})
    /\ UNCHANGED <<clock, asked, ini, rsp, lost>>

OnSyncAck(n, e) ==
    /\ e \in Inbox(n, "Synch", "SyncAck")
    /\ rsp[n][e.msg.msg.cookie] # None
    /\ rsp' = [rsp EXCEPT ![n][e.msg.msg.cookie].inflight = @ \ {e.msg.msg.seq}]
    /\ Handle(e, {})
    /\ UNCHANGED <<data, log, clock, asked, ini, lost>>

\* The peer ends the sync it serves under cookie c with a SyncFin.
Finish(n, c, result) ==
    /\ net' = net \cup {SyncFin(n, rsp[n][c].to, rsp[n][c].vnode, c, result)}
    /\ rsp' = [rsp EXCEPT ![n][c] = None]
    /\ UNCHANGED <<data, log, clock, asked, ini, lost>>

SyncDone(n, c) ==
    /\ rsp[n][c] # None
    /\ rsp[n][c].next > Len(rsp[n][c].stream)
    /\ rsp[n][c].inflight = {}
    /\ Finish(n, c, Ok(rsp[n][c].clocks))

\* The peer aborts the sync.
SyncInterrupt(n, c) ==
    rsp[n][c] # None /\ Finish(n, c, Err("SyncInterrupted"))

\* The initiator merges the clocks of a sync that went through; of an
\* aborted one it keeps what it stored and no clocks.
OnSyncFin(n, e) ==
    /\ e \in Inbox(n, "Synch", "SyncFin")
    /\ Tracks(n, e.msg.msg.cookie, "sync")
    /\ LET m == e.msg.msg
       IN clock' = [clock EXCEPT ![n][m.vnode] =
                      IF m.result.ok THEN @ \cup m.result.value ELSE @]
    /\ ini' = [ini EXCEPT ![n][e.msg.msg.cookie] = None]
    /\ Handle(e, {})
    /\ UNCHANGED <<data, log, asked, rsp, lost>>

-----------------------------------------------------------------------------
Request(n) ==
    /\ n \in Clients
    /\ \E p \in Nodes \ {n}, v \in VNodes, c \in Cookies :
          \/ \E k \in Keys :
                \/ RemoteGet(n, p, v, c, k)
                \/ \E reply, reply_result \in BOOLEAN :
                      RemoteSet(n, p, v, c, k, reply, reply_result)
          \/ \E target \in Nodes \cup {None} : SyncStart(n, p, v, c, target)

Receive(n) ==
    \E e \in net :
        \/ OnRemoteGet(n, e) \/ OnRemoteSet(n, e) \/ OnRemoteAck(n, e)
        \/ OnSyncStart(n, e) \/ OnSyncSend(n, e) \/ OnSyncAck(n, e)
        \/ OnSyncFin(n, e)
        \/ Untracked(n, e)

Serve(n) == \E c \in Cookies : SyncSend(n, c) \/ SyncDone(n, c)

Next ==
    \/ \E n \in Nodes :
          \/ \E v \in VNodes, k \in Keys : Write(n, v, k)
          \/ Request(n)
          \/ \E c \in Cookies : Cancel(n, c) \/ SyncInterrupt(n, c)
          \/ Receive(n)
          \/ Serve(n)
    \/ \E e \in net : Lose(e)

Spec == Init /\ [][Next]_vars

\* The same with a log that outgrows the limit of its column family.
CompactingSpec ==
    Init /\ [][Next \/ \E n \in Nodes, v \in VNodes : Compact(n, v)]_vars

\* A node handles what has arrived, and goes on streaming a sync it serves.
FairSpec == Spec /\ \A n \in Nodes : WF_vars(Receive(n)) /\ WF_vars(Serve(n))

-----------------------------------------------------------------------------
Conversation == [kind : {"get", "set", "sync"}, vnode : VNodes,
                 key : Keys \cup {None}]

Stream == [to : Nodes, vnode : VNodes, stream : Seq(Entries),
           clocks : SUBSET Dots, next : Nat, inflight : SUBSET Nat]

\* The state is well-formed, and every message in flight is a FabricMsg that
\* get_type puts into a category: none reaches the unreachable!() of its
\* catch-all arm.
TypeOK ==
    /\ data \in [Nodes -> [VNodes -> SUBSET Entries]]
    /\ log \in [Nodes -> [VNodes -> SUBSET Entries]]
    /\ clock \in [Nodes -> [VNodes -> SUBSET Dots]]
    /\ \A e \in net : /\ e.src \in Nodes /\ e.dst \in Nodes \ {e.src}
                      /\ IsFabricMsg(e.msg)
                      /\ get_type(e.msg) \in FabricMsgType
    /\ asked \in [Nodes -> 0 .. MaxRequests]
    /\ \A n \in Nodes, c \in Cookies :
          /\ ini[n][c] \in Conversation \cup {None}
          /\ rsp[n][c] = None \/ rsp[n][c] \in Stream
    /\ lost \in BOOLEAN

\* A replica never claims a write it does not store.  SyncFin hands the
\* initiator the clocks of the peer: they may be merged only when every
\* SyncSend of the stream has been stored, whatever order the transport
\* delivers SyncSend, SyncAck and SyncFin in and whichever of them it loses.
ClocksAreBacked ==
    \A n \in Nodes, v \in VNodes : clock[n][v] \subseteq Stored(n, v)

\* "The cookie identifies a request/response conversation": an answer a
\* node is about to accept for a get is an answer to that get, read from
\* the container of the key the node asked for.  MsgRemoteGetAck names the
\* vnode and the cookie only, and a caller may drop a cookie and use it
\* again, so the answer to the dropped get can be taken for the next one's.
AnswersAreForTheKeyAsked ==
    \A e \in net :
        (/\ e.msg.variant = "RemoteGetAck"
         /\ e.msg.msg.result.ok
         /\ Tracks(e.dst, e.msg.msg.cookie, "get"))
        => e.msg.msg.result.value
              \subseteq Container(e.src, e.msg.msg.vnode,
                                  ini[e.dst][e.msg.msg.cookie].key)

\* A conversation a node tracks ends (with an answer, a SyncFin or a
\* cancellation) unless the transport loses a message: get_type puts every
\* message into the category whose handler takes it, late answers to a
\* cookie used again included, and the SyncAck of every SyncSend lets the
\* peer send its SyncFin.
ConversationsEnd ==
    \A n \in Clients, c \in Cookies :
        (ini[n][c] # None) ~> (ini[n][c] = None \/ lost)

=============================================================================
