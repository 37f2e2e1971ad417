----------------------------- MODULE FabricMsg ------------------------------
(***************************************************************************)
(* The fabric message family of src/fabric_msg.rs: the closed set of       *)
(* messages nodes exchange, the fields of each, the closed set of errors a *)
(* reply can carry, and get_type, which puts a message into one of three   *)
(* categories by its variant alone.                                        *)
(*                                                                         *)
(* The types the file imports (identifiers, keys, containers, version      *)
(* vectors) are constants: sets of opaque values.                          *)
(***************************************************************************)
CONSTANTS VNodeId, NodeId, Cookie,   \* opaque identifiers
          Bytes,                     \* keys and opaque payloads
          Cube,                      \* the conflict container of one key
          BitmappedVersionVector,    \* what a replica has seen of a vnode
          VersionVector,             \* the version of the DHT
          U64,                       \* the seq of SyncSend and SyncAck
          None

FabricMsgType == {"Crud", "Synch", "DHT", "Unknown"}

FabricError == {"NoRoute", "CookieNotFound", "BadVNodeStatus", "NotReady",
                "SyncInterrupted", "StorageError"}

\* Result<T, FabricError>
Ok(value)  == [ok |-> TRUE, value |-> value]
Err(error) == [ok |-> FALSE, error |-> error]
Result(T)  == {Ok(value) : value \in T} \cup {Err(error) : error \in FabricError}

-----------------------------------------------------------------------------
MsgRemoteGet == [vnode : VNodeId, cookie : Cookie, key : Bytes]

MsgRemoteGetAck == [vnode : VNodeId, cookie : Cookie, result : Result(Cube)]

MsgRemoteSet == [vnode : VNodeId, cookie : Cookie, key : Bytes, value : Cube,
                 reply : BOOLEAN, reply_result : BOOLEAN]

MsgRemoteSetAck ==
    [vnode : VNodeId, cookie : Cookie, result : Result(Cube \cup {None})]

MsgSyncStart == [vnode : VNodeId, cookie : Cookie,
                 clocks_in_peer : BitmappedVersionVector,
                 target : NodeId \cup {None}]

MsgSyncFin == [vnode : VNodeId, cookie : Cookie,
               result : Result(BitmappedVersionVector)]

MsgSyncSend == [vnode : VNodeId, cookie : Cookie, seq : U64, key : Bytes,
                value : Cube]

MsgSyncAck == [vnode : VNodeId, cookie : Cookie, seq : U64]

-----------------------------------------------------------------------------
\* What each variant of FabricMsg wraps.
Payload ==
    [RemoteGet |-> MsgRemoteGet, RemoteGetAck |-> MsgRemoteGetAck,
     RemoteSet |-> MsgRemoteSet, RemoteSetAck |-> MsgRemoteSetAck,
     SyncStart |-> MsgSyncStart, SyncSend     |-> MsgSyncSend,
     SyncAck   |-> MsgSyncAck,   SyncFin      |-> MsgSyncFin,
     DHTAE     |-> VersionVector, DHTSync     |-> Bytes,
     Unknown   |-> {None}]

\* impl_into!: a message struct becomes the variant that wraps it.
into(variant, msg) == [variant |-> variant, msg |-> msg]

\* The enum FabricMsg, as the test of belonging to it.
IsFabricMsg(m) ==
    /\ DOMAIN m = {"variant", "msg"}
    /\ m.variant \in DOMAIN Payload
    /\ m.msg \in Payload[m.variant]

\* Fault variant of get_type: SyncAck is in no arm, and the catch-all takes it.
get_type_ack_forgotten(m) ==
    CASE m.variant \in {"RemoteGet", "RemoteGetAck", "RemoteSet",
                         "RemoteSetAck"} -> "Crud"
      [] m.variant \in {"SyncStart", "SyncSend", "SyncFin"} -> "Synch"
      [] m.variant \in {"DHTSync", "DHTAE"} -> "DHT"
      [] OTHER -> "unreachable"

\* Fault variant of get_type: SyncAck falls into the first arm.
get_type_ack_as_crud(m) ==
    CASE m.variant \in {"RemoteGet", "RemoteGetAck", "RemoteSet",
                         "RemoteSetAck", "SyncAck"} -> "Crud"
      [] m.variant \in {"SyncStart", "SyncSend", "SyncFin"} -> "Synch"
      [] m.variant \in {"DHTSync", "DHTAE"} -> "DHT"
      [] OTHER -> "unreachable"

\* The last arm is unreachable!(): get_type of Unknown panics, and no arm
\* returns FabricMsgType::Unknown.
get_type(m) ==
    CASE m.variant \in {"RemoteGet", "RemoteGetAck", "RemoteSet",
                         "RemoteSetAck"} -> "Crud"
      [] m.variant \in {"SyncStart", "SyncSend", "SyncAck", "SyncFin"} -> "Synch"
      [] m.variant \in {"DHTSync", "DHTAE"} -> "DHT"
      [] OTHER -> "unreachable"

=============================================================================
