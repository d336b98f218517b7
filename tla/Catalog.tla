------------------------------ MODULE Catalog ------------------------------
(***************************************************************************)
(* Which blobs a peer is shown: the catalog protocol (CatalogHandler of    *)
(* core/protocol/catalog.rs and its client, Node::catalog_connect) and the *)
(* owner's own view of it, blob list --peer --ring (Node::list_blobs).     *)
(* Neither holds a lock: tags, rings, associations and grants change       *)
(* between any two reads. One peer, one listing of either kind at a time:  *)
(* listings write nothing the others read.                                 *)
(***************************************************************************)
EXTENDS Naturals

CONSTANTS
  Blobs,      \* blob hashes
  Rings,      \* named rings
  Open,       \* the built-in open ring
  MaxFaults   \* bound on broken connections and store errors

AllRings == Rings \cup {Open}

ASSUME CatalogAssumption ==
  /\ Open \notin Rings
  /\ MaxFaults \in Nat

VARIABLES
  tagged,     \* blobs that have a tag
  assoc,      \* assoc[b]: the rings that give Read on blob b
  member,     \* named rings of which the peer is a member
  granted,    \* has the peer the BlobList grant?
  client,     \* the peer's catalog_connect
  server,     \* the CatalogHandler of its connection
  wire,       \* what the handler has written to the stream
  seen,       \* entries the client has decoded
  todo,       \* tags a listing has still to look at
  local,      \* list_blobs
  faults,
  could,      \* history: blobs the peer could read at some instant of the listing
  must,       \* history: blobs tagged and readable at all of its instants
  lost,       \* history: blobs passed over by an error of the registry or store
  quiet       \* history: nothing has changed and no lookup failed during it

world == <<tagged, assoc, member, granted>>
remote == <<client, server, wire, seen>>
history == <<could, must, lost, quiet>>
vars == <<world, remote, todo, local, faults, history>>

NoWire == [status |-> "none", entries |-> {}, end |-> "open"]

\* rings: the peer's rings as far as they are known, left: the ones to look at,
\* found: the answer so far, byPeer: --peer, filter: the set of the rings given
\* with --ring, as a set of no or one set.
NoLocal == [pc |-> "idle", byPeer |-> FALSE, filter |-> {},
            left |-> {}, rings |-> {}, found |-> {}]

Init ==
  /\ tagged = {}
  /\ assoc = [b \in Blobs |-> {}]
  /\ member = {}
  /\ granted = FALSE
  /\ client = "idle"
  /\ server = "idle"
  /\ wire = NoWire
  /\ seen = {}
  /\ todo = {}
  /\ local = NoLocal
  /\ faults = 0
  /\ could = {}
  /\ must = {}
  /\ lost = {}
  /\ quiet = TRUE

\* External: has_permission of the registry, the gate's own question.
Readable(b) == assoc[b] \cap (member \cup {Open}) # {}

Listing == client # "idle" \/ local.pc # "idle"

\* The histories start with a listing.
Watch ==
  /\ could' = {b \in Blobs : Readable(b)}
  /\ must' = {b \in tagged : Readable(b)}
  /\ lost' = {}
  /\ quiet' = TRUE

-----------------------------------------------------------------------------
(* CatalogHandler. *)

\* catalog_connect sends a command; this version of the program knows one.
Connect(known) ==
  /\ ~Listing
  /\ server = "idle"
  /\ client' = "status"
  /\ server' = IF known THEN "grant" ELSE "unknown"
  /\ wire' = NoWire
  /\ seen' = {}
  /\ Watch
  /\ UNCHANGED <<world, todo, local, faults>>

\* The handler answers a command it does not know.
UnknownCommand ==
  /\ server = "unknown"
  /\ wire' = [wire EXCEPT !.status = "denied", !.end = "finished"]
  /\ server' = "hold"
  /\ UNCHANGED <<world, client, seen, todo, local, faults, history>>

\* The grant, looked up once: the rest is only for a peer that has it.
CheckGrant ==
  /\ server = "grant"
  /\ IF granted
     THEN /\ wire' = [wire EXCEPT !.status = "allowed"]
          /\ server' = "tags"
     ELSE /\ wire' = [wire EXCEPT !.status = "denied", !.end = "finished"]
          /\ server' = "hold"
  /\ UNCHANGED <<world, client, seen, todo, local, faults, history>>

\* The list of tags, which the handler works through.
ListTags ==
  /\ server = "tags"
  /\ todo' = tagged
  /\ server' = "item"
  /\ UNCHANGED <<world, client, wire, seen, local, faults, history>>

\* Mutant: a tag that the peer may not read ends the list.
CheckItemStops ==
  /\ server = "item"
  /\ \E b \in todo :
       /\ todo' = IF Readable(b) THEN todo \ {b} ELSE {}
       /\ wire' = IF Readable(b) THEN [wire EXCEPT !.entries = @ \cup {b}] ELSE wire
  /\ UNCHANGED <<world, client, server, seen, local, faults, history>>

\* Mutant: the grant is taken for the permission.
CheckItemUnfiltered ==
  /\ server = "item"
  /\ \E b \in todo :
       /\ todo' = todo \ {b}
       /\ wire' = [wire EXCEPT !.entries = @ \cup {b}]
  /\ UNCHANGED <<world, client, server, seen, local, faults, history>>

\* One turn of the loop: an entry for a blob that the peer may read by now.
CheckItem ==
  /\ server = "item"
  /\ \E b \in todo :
       /\ todo' = todo \ {b}
       /\ wire' = IF Readable(b) THEN [wire EXCEPT !.entries = @ \cup {b}] ELSE wire
  /\ UNCHANGED <<world, client, server, seen, local, faults, history>>

\* A lookup that fails counts as no permission, and the list goes on without
\* the blob.
CheckItemFails ==
  /\ server = "item"
  /\ faults < MaxFaults
  /\ faults' = faults + 1
  /\ \E b \in todo :
       /\ todo' = todo \ {b}
       /\ lost' = lost \cup {b}
  /\ quiet' = FALSE
  /\ UNCHANGED <<world, remote, local, could, must>>

\* Mutant: the handler waits for the client without finishing the stream.
FinishListOpenEnded ==
  /\ server = "item"
  /\ todo = {}
  /\ server' = "hold"
  /\ UNCHANGED <<world, client, wire, seen, todo, local, faults, history>>

\* The end of the stream; the handler keeps the connection up for the client.
FinishList ==
  /\ server = "item"
  /\ todo = {}
  /\ wire' = [wire EXCEPT !.end = "finished"]
  /\ server' = "hold"
  /\ UNCHANGED <<world, client, seen, todo, local, faults, history>>

\* handle: until the peer closes the connection.
ServerCloses ==
  /\ server = "hold"
  /\ client = "idle"
  /\ server' = "idle"
  /\ wire' = NoWire
  /\ seen' = {}
  /\ UNCHANGED <<world, client, todo, local, faults, history>>

\* The handler fails and drops stream and connection, in this order: the client
\* sees a broken connection, or the end of the stream if that got out before,
\* since dropping a stream finishes it.
ServerFails ==
  /\ server \in {"grant", "tags", "item"}
  /\ faults < MaxFaults
  /\ faults' = faults + 1
  /\ \E end \in {"finished", "broken"} : wire' = [wire EXCEPT !.end = end]
  /\ server' = "hold"
  /\ todo' = {}
  /\ lost' = lost \cup IF server = "item" THEN todo ELSE Blobs
  /\ quiet' = FALSE
  /\ UNCHANGED <<world, client, seen, local, could, must>>

\* External: the connection breaks or times out.
Break ==
  /\ client # "idle"
  /\ wire.end # "broken"
  /\ faults < MaxFaults
  /\ faults' = faults + 1
  /\ wire' = [wire EXCEPT !.end = "broken"]
  /\ server' = "hold"
  /\ todo' = {}
  /\ UNCHANGED <<world, client, seen, local, history>>

-----------------------------------------------------------------------------
(* catalog_connect and decode_entries. *)

\* The command is over, with an error or once its answer is printed.
ClientReturns ==
  /\ client' = "idle"
  /\ UNCHANGED <<world, server, wire, seen, todo, local, faults, history>>

ReadStatus ==
  /\ client = "status"
  /\ wire.status = "allowed"
  /\ client' = "entries"
  /\ UNCHANGED <<world, server, wire, seen, todo, local, faults, history>>

\* Denied, or no status byte before the end.
NoStatus ==
  /\ client = "status"
  /\ \/ wire.status = "denied"
     \/ wire.status = "none" /\ wire.end = "finished"
     \/ wire.end = "broken"
  /\ ClientReturns

DecodeEntry ==
  /\ client = "entries"
  /\ \E b \in wire.entries \ seen : seen' = seen \cup {b}
  /\ UNCHANGED <<world, client, server, wire, todo, local, faults, history>>

\* Mutant: an answer is what has been decoded when the connection ends.
EndOfEntriesAnyhow ==
  /\ client = "entries"
  /\ wire.end # "open"
  /\ client' = "answer"
  /\ UNCHANGED <<world, server, wire, seen, todo, local, faults, history>>

\* The stream ends between two entries: what has been decoded is the answer.
EndOfEntries ==
  /\ client = "entries"
  /\ wire.end = "finished"
  /\ wire.entries = seen
  /\ client' = "answer"
  /\ UNCHANGED <<world, server, wire, seen, todo, local, faults, history>>

\* A broken connection is an error, whatever has been decoded.
BrokenEntries ==
  /\ client = "entries"
  /\ wire.end = "broken"
  /\ ClientReturns

\* handle_remote_blob_list prints the answer.
PrintAnswer ==
  /\ client = "answer"
  /\ ClientReturns

-----------------------------------------------------------------------------
(* list_blobs, with the peer and the rings it filters by. *)

Filters == {{}} \cup {{R} : R \in SUBSET AllRings}

\* The tags come first.
LocalList(byPeer, filter) ==
  /\ ~Listing
  /\ server = "idle"
  /\ todo' = tagged
  /\ local' = [NoLocal EXCEPT !.byPeer = byPeer, !.filter = filter,
                              !.pc = IF byPeer THEN "rings" ELSE "filter"]
  /\ Watch
  /\ UNCHANGED <<world, remote, faults>>

\* Mutant: the open ring is left out of the peer's rings.
PeerRingsNamed ==
  /\ local.pc = "rings"
  /\ local' = [local EXCEPT !.pc = "ring", !.left = Rings, !.rings = {}]
  /\ UNCHANGED <<world, remote, todo, faults, history>>

\* peer_ring_set: the named rings, to be looked at one by one, and the open one.
PeerRings ==
  /\ local.pc = "rings"
  /\ local' = [local EXCEPT !.pc = "ring", !.left = Rings, !.rings = {Open}]
  /\ UNCHANGED <<world, remote, todo, faults, history>>

\* Mutant: the members are collected, not the ring's name.
PeerRingMembers ==
  /\ local.pc = "ring"
  /\ \E r \in local.left :
       local' = [local EXCEPT !.left = @ \ {r},
                              !.rings = IF r \in member THEN @ \cup {member} ELSE @]
  /\ UNCHANGED <<world, remote, todo, faults, history>>

\* peer_ring_set: is the peer among the ring's members?
PeerRing ==
  /\ local.pc = "ring"
  /\ \E r \in local.left :
       local' = [local EXCEPT !.left = @ \ {r},
                              !.rings = IF r \in member THEN @ \cup {r} ELSE @]
  /\ UNCHANGED <<world, remote, todo, faults, history>>

PeerRingsDone ==
  /\ local.pc = "ring"
  /\ local.left = {}
  /\ local' = [local EXCEPT !.pc = "filter"]
  /\ UNCHANGED <<world, remote, todo, faults, history>>

\* Mutant: --ring with several rings asks for all of them.
KeepsAll(b) ==
  /\ \A R \in local.filter : R \subseteq assoc[b]
  /\ local.byPeer => assoc[b] \cap local.rings # {}

\* Does list_blobs keep blob b?
Keeps(b) ==
  /\ \A R \in local.filter : assoc[b] \cap R # {}
  /\ local.byPeer => assoc[b] \cap local.rings # {}

\* One turn of retain: the blob's rings, and both filters.
RetainBlob ==
  /\ local.pc = "filter"
  /\ \E b \in todo :
       /\ todo' = todo \ {b}
       /\ local' = IF Keeps(b) THEN [local EXCEPT !.found = @ \cup {b}] ELSE local
  /\ UNCHANGED <<world, remote, faults, history>>

\* A lookup that fails counts as no member, or as no ring.
LookupFails ==
  /\ faults < MaxFaults
  /\ faults' = faults + 1
  /\ \/ /\ local.pc = "ring"
        /\ \E r \in local.left : local' = [local EXCEPT !.left = @ \ {r}]
        /\ UNCHANGED todo
     \/ /\ local.pc = "filter"
        /\ local.byPeer \/ local.filter # {}
        /\ \E b \in todo : todo' = todo \ {b}
        /\ UNCHANGED local
  /\ quiet' = FALSE
  /\ UNCHANGED <<world, remote, could, must, lost>>

\* Every blob is looked at; sizes follow, and handle_blob_list prints.
LocalListed ==
  /\ local.pc = "filter"
  /\ todo = {}
  /\ local' = [local EXCEPT !.pc = "listed"]
  /\ UNCHANGED <<world, remote, todo, faults, history>>

LocalReturns ==
  /\ local.pc = "listed"
  /\ local' = NoLocal
  /\ UNCHANGED <<world, remote, todo, faults, history>>

-----------------------------------------------------------------------------
(* The other commands, one registry, grant or tag write at a time. *)

\* The histories go on with the new state, while there is a listing.
Observe ==
  IF Listing
  THEN /\ could' = could \cup {b \in Blobs : Readable(b)'}
       /\ must' = {b \in must : b \in tagged' /\ Readable(b)'}
       /\ quiet' = FALSE
       /\ UNCHANGED lost
  ELSE UNCHANGED history

\* blob attach, blob detach and import: RingAttachments has the whole commands.
ChangeAssociation(b, r) ==
  /\ assoc' = [assoc EXCEPT ![b] = IF r \in @ THEN @ \ {r} ELSE @ \cup {r}]
  /\ UNCHANGED <<tagged, member, granted>>

\* ring add, ring remove, peer remove and expiry: see PeerDirectory.
ChangeMember(r) ==
  /\ member' = IF r \in member THEN member \ {r} ELSE member \cup {r}
  /\ UNCHANGED <<tagged, assoc, granted>>

\* import and remove: see BlobStore.
ChangeTag(b) ==
  /\ tagged' = IF b \in tagged THEN tagged \ {b} ELSE tagged \cup {b}
  /\ UNCHANGED <<assoc, member, granted>>

\* peer grant and peer revoke.
ChangeGrant ==
  /\ granted' = ~granted
  /\ UNCHANGED <<tagged, assoc, member>>

Change ==
  /\ \/ \E b \in Blobs, r \in AllRings : ChangeAssociation(b, r)
     \/ \E r \in Rings : ChangeMember(r)
     \/ \E b \in Blobs : ChangeTag(b)
     \/ ChangeGrant
  /\ Observe
  /\ UNCHANGED <<remote, todo, local, faults>>

Serve ==
  \/ UnknownCommand
  \/ CheckGrant
  \/ ListTags
  \/ CheckItem
  \/ FinishList
  \/ ServerCloses

Receive ==
  \/ ReadStatus
  \/ NoStatus
  \/ DecodeEntry
  \/ EndOfEntries
  \/ BrokenEntries
  \/ PrintAnswer

ListLocally ==
  \/ PeerRings
  \/ PeerRing
  \/ PeerRingsDone
  \/ RetainBlob
  \/ LocalListed
  \/ LocalReturns

Next ==
  \/ \E known \in BOOLEAN : Connect(known)
  \/ Serve
  \/ Receive
  \/ CheckItemFails
  \/ ServerFails
  \/ Break
  \/ \E byPeer \in BOOLEAN, filter \in Filters : LocalList(byPeer, filter)
  \/ ListLocally
  \/ LookupFails
  \/ Change

\* The runtime runs both ends on. A peer that falls silent is a Break.
Fairness == WF_vars(Serve) /\ WF_vars(Receive)

Spec == Init /\ [][Next]_vars /\ Fairness

-----------------------------------------------------------------------------
(* Properties. *)

\* The variables keep their types.
TypeOK ==
  /\ tagged \in SUBSET Blobs
  /\ assoc \in [Blobs -> SUBSET AllRings]
  /\ member \in SUBSET Rings
  /\ granted \in BOOLEAN
  /\ client \in {"idle", "status", "entries", "answer"}
  /\ server \in {"idle", "unknown", "grant", "tags", "item", "hold"}
  /\ wire \in [status : {"none", "allowed", "denied"}, entries : SUBSET Blobs,
               end : {"open", "finished", "broken"}]
  /\ seen \in SUBSET Blobs
  /\ todo \in SUBSET Blobs
  /\ local \in [pc : {"idle", "rings", "ring", "filter", "listed"},
                byPeer : BOOLEAN, filter : Filters,
                left : SUBSET Rings, rings : SUBSET AllRings, found : SUBSET Blobs]
  /\ faults \in 0 .. MaxFaults
  /\ could \in SUBSET Blobs
  /\ must \in SUBSET Blobs
  /\ lost \in SUBSET Blobs
  /\ quiet \in BOOLEAN

\* The catalog shows nothing else than what the peer could download: every blob
\* that was sent could be read by the peer at some instant of its connection,
\* however rings, memberships and tags change under the handler.
CatalogSound == client # "idle" => wire.entries \subseteq could

\* What can be missing from an answer that the client accepts: of the blobs that
\* had a tag and were readable all along, only one whose own lookup failed, or
\* one that a handler that failed had not come to. Neither a change of the other
\* tags, rings and memberships nor a broken connection makes a list shorter.
CatalogComplete == client = "answer" => must \subseteq seen \cup lost

\* "Command byte: request the full list of blobs the caller may download", and
\* decode_entries takes the end of the stream for the end of the list ("server
\* closed cleanly"). Violated: a failed lookup passes for a missing permission,
\* and a handler that fails ends its stream like one that is done.
FullList == client = "answer" => must \subseteq seen

\* The owner's view agrees with the gate: if nothing changes meanwhile, `blob
\* list --peer` finds exactly the tagged blobs of the asked rings that
\* has_permission would let the peer read, though it works this out by itself,
\* from ring members and associations.
OwnerSeesTheSame ==
  local.pc = "listed" /\ quiet =>
    local.found =
      {b \in tagged :
         /\ \A R \in local.filter : assoc[b] \cap R # {}
         /\ local.byPeer => Readable(b)}

\* The two ends do not wait for each other: a connection ends, for the client,
\* which waits for the end of the stream, and for the handler, which waits for
\* the client to close ("Hold `conn` alive until the peer closes").
CatalogEnds == server # "idle" ~> server = "idle"
=============================================================================
