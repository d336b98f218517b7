--------------------------- MODULE CatalogProofs ---------------------------
(***************************************************************************)
(* Proofs about Catalog, for any blobs, rings and faults. The last part is *)
(* about the end of a connection: what each step brings nearer, and that   *)
(* its two ends never wait for each other.                                 *)
(***************************************************************************)
EXTENDS Catalog, TLAPS

\* The histories are true of the present state while there is a listing.
Observed ==
  Listing =>
    /\ \A b \in Blobs : Readable(b) => b \in could
    /\ \A b \in must : b \in tagged /\ Readable(b)

\* Where the two ends of a connection are, and one listing at a time.
Ends ==
  /\ client # "idle" => server # "idle"
  /\ local.pc # "idle" => client = "idle" /\ server = "idle"
  /\ server \in {"unknown", "grant", "tags", "item"} => wire.end = "open"
  /\ server \in {"unknown", "grant"} => wire.status = "none"
  /\ client \in {"entries", "answer"} => wire.status = "allowed"

\* A blob that the peer must be shown is sent, or still to be looked at, or one
\* that an error has passed over.
Underway ==
  client # "idle" =>
    /\ server = "item" => must \subseteq wire.entries \cup todo \cup lost
    /\ wire.end = "finished" /\ wire.status = "allowed" =>
         must \subseteq wire.entries \cup lost

\* What list_blobs knows, as long as nothing changes: the rings it has looked
\* at, then the blobs.
Found ==
  quiet =>
    /\ local.pc \in {"rings", "ring"} =>
         todo = tagged /\ local.found = {} /\ local.byPeer
    /\ local.pc = "ring" => local.rings = {Open} \cup (member \ local.left)
    /\ local.pc \in {"filter", "listed"} =>
         /\ local.byPeer => local.rings = {Open} \cup member
         /\ todo \subseteq tagged
         /\ local.found = {b \in tagged \ todo : Keeps(b)}
    /\ local.pc = "listed" => todo = {}

\* The inductive invariant.
Inv ==
  /\ TypeOK
  /\ Observed
  /\ Ends
  /\ Underway
  /\ Found
  /\ CatalogSound
  /\ CatalogComplete

-----------------------------------------------------------------------------
(* Types. *)

LEMMA ServeType ==
  ASSUME TypeOK, Serve \/ CheckItemFails \/ ServerFails \/ Break
  PROVE  TypeOK'
<1>1. CASE UnknownCommand \/ FinishList
  BY <1>1 DEF TypeOK, UnknownCommand, FinishList, world, history
<1>2. CASE CheckGrant
  BY <1>2 DEF TypeOK, CheckGrant, world, history
<1>3. CASE ServerCloses
  BY <1>3 DEF TypeOK, ServerCloses, NoWire, world, history
<1>4. CASE ListTags
  BY <1>4 DEF TypeOK, ListTags, world, history
<1>5. CASE CheckItem
  BY <1>5 DEF TypeOK, CheckItem, world, history
<1>6. CASE CheckItemFails \/ ServerFails \/ Break
  <2>1. faults' \in 0 .. MaxFaults
    BY <1>6, CatalogAssumption DEF TypeOK, CheckItemFails, ServerFails, Break
  <2>2. CASE CheckItemFails
    BY <2>1, <2>2 DEF TypeOK, CheckItemFails, world, remote
  <2>3. CASE ServerFails
    BY <2>1, <2>3 DEF TypeOK, ServerFails, world
  <2>4. CASE Break
    BY <2>1, <2>4 DEF TypeOK, Break, world, history
  <2>5. QED
    BY <1>6, <2>2, <2>3, <2>4
<1>7. QED
  BY <1>1, <1>2, <1>3, <1>4, <1>5, <1>6 DEF Serve

LEMMA ReceiveType == ASSUME TypeOK, Receive PROVE TypeOK'
BY DEF TypeOK, Receive, ReadStatus, NoStatus, ClientReturns, DecodeEntry, EndOfEntries,
       BrokenEntries, PrintAnswer, world, remote, history

LEMMA StartType ==
  ASSUME TypeOK,
         \/ \E known \in BOOLEAN : Connect(known)
         \/ \E byPeer \in BOOLEAN, filter \in Filters : LocalList(byPeer, filter)
  PROVE  TypeOK'
<1>1. ASSUME NEW known \in BOOLEAN, Connect(known) PROVE TypeOK'
  BY <1>1 DEF TypeOK, Connect, Watch, NoWire, world
<1>2. ASSUME NEW byPeer \in BOOLEAN, NEW filter \in Filters, LocalList(byPeer, filter)
      PROVE  TypeOK'
  BY <1>2 DEF TypeOK, LocalList, Watch, NoLocal, world, remote
<1>3. QED
  BY <1>1, <1>2

LEMMA ListLocallyType == ASSUME TypeOK, ListLocally \/ LookupFails PROVE TypeOK'
<1>1. CASE PeerRings \/ PeerRingsDone \/ LocalListed
  BY <1>1 DEF TypeOK, PeerRings, PeerRingsDone, LocalListed, AllRings, world, remote,
              history
<1>2. CASE LocalReturns
  BY <1>2 DEF TypeOK, LocalReturns, NoLocal, Filters, world, remote, history
<1>3. CASE PeerRing
  <2>1. PICK r \in local.left :
          local' = [local EXCEPT !.left = @ \ {r},
                                 !.rings = IF r \in member THEN @ \cup {r} ELSE @]
    BY <1>3 DEF PeerRing
  <2>2. r \in AllRings
    BY DEF TypeOK, AllRings
  <2>3. QED
    BY <1>3, <2>1, <2>2 DEF TypeOK, PeerRing, world, remote, history
<1>4. CASE RetainBlob
  BY <1>4 DEF TypeOK, RetainBlob, world, remote, history
<1>5. CASE LookupFails
  <2>1. faults' \in 0 .. MaxFaults
    BY <1>5, CatalogAssumption DEF TypeOK, LookupFails
  <2>2. todo' \in SUBSET Blobs
    BY <1>5 DEF TypeOK, LookupFails
  <2>3. CASE UNCHANGED local
    BY <1>5, <2>1, <2>2, <2>3 DEF TypeOK, LookupFails, world, remote
  <2>4. ASSUME NEW r \in local.left, local' = [local EXCEPT !.left = @ \ {r}]
        PROVE  TypeOK'
    BY <1>5, <2>1, <2>2, <2>4 DEF TypeOK, LookupFails, world, remote
  <2>5. QED
    BY <1>5, <2>3, <2>4 DEF LookupFails
<1>6. QED
  BY <1>1, <1>2, <1>3, <1>4, <1>5 DEF ListLocally

LEMMA ChangeType == ASSUME TypeOK, Change PROVE TypeOK'
<1>1. /\ tagged' \in SUBSET Blobs
      /\ assoc' \in [Blobs -> SUBSET AllRings]
      /\ member' \in SUBSET Rings
      /\ granted' \in BOOLEAN
  <2>1. ASSUME NEW b \in Blobs, NEW r \in AllRings, ChangeAssociation(b, r)
        PROVE  assoc' \in [Blobs -> SUBSET AllRings]
    BY <2>1 DEF TypeOK, ChangeAssociation
  <2>2. QED
    BY <2>1 DEF TypeOK, Change, ChangeAssociation, ChangeMember, ChangeTag, ChangeGrant
<1>2. /\ could' \in SUBSET Blobs /\ must' \in SUBSET Blobs
      /\ lost' \in SUBSET Blobs /\ quiet' \in BOOLEAN
  BY DEF TypeOK, Change, Observe, history
<1>3. QED
  BY <1>1, <1>2 DEF TypeOK, Change, remote

LEMMA TypeKeeps == ASSUME TypeOK, [Next]_vars PROVE TypeOK'
<1>1. CASE UNCHANGED vars
  BY <1>1 DEF TypeOK, vars, world, remote, history
<1>2. QED
  BY <1>1, ServeType, ReceiveType, StartType, ListLocallyType, ChangeType DEF Next

-----------------------------------------------------------------------------
(* The histories. *)

\* Between the start of a listing and its end, only Change touches the rings,
\* tags and grants, and what an error has passed over stays so.
Still == /\ UNCHANGED <<tagged, assoc, member>>
         /\ Listing' => Listing
         /\ could' = could
         /\ must' = must /\ lost \subseteq lost'
         /\ quiet' = quiet \/ quiet' = FALSE

LEMMA StillSteps ==
  ASSUME TypeOK, Serve \/ Receive \/ CheckItemFails \/ ServerFails \/ Break
                 \/ ListLocally \/ LookupFails \/ UNCHANGED vars
  PROVE  Still
<1>1. CASE Serve
  BY <1>1 DEF Serve, UnknownCommand, CheckGrant, ListTags, CheckItem, FinishList,
              ServerCloses, Still, Listing, world, history
<1>2. CASE Receive
  BY <1>2 DEF Receive, ReadStatus, NoStatus, ClientReturns, DecodeEntry, EndOfEntries,
              BrokenEntries, PrintAnswer, Still, Listing, world, history
<1>3. CASE CheckItemFails \/ ServerFails \/ Break \/ UNCHANGED vars
  BY <1>3 DEF CheckItemFails, ServerFails, Break, vars, Still, Listing, world, remote,
              history
<1>4. CASE ListLocally
  BY <1>4 DEF ListLocally, PeerRings, PeerRing, PeerRingsDone, RetainBlob, LocalListed,
              LocalReturns, NoLocal, Still, Listing, world, remote, history, TypeOK
<1>5. CASE LookupFails
  BY <1>5 DEF LookupFails, Still, Listing, world, remote, TypeOK
<1>6. QED
  BY <1>1, <1>2, <1>3, <1>4, <1>5

LEMMA ObservedKeeps == ASSUME TypeOK, Observed, [Next]_vars PROVE Observed'
<1>1. CASE Still
  BY <1>1 DEF Observed, Still, Readable
<1>2. ASSUME Watch, UNCHANGED world PROVE Observed'
  BY <1>2 DEF Observed, Watch, Readable, world
<1>3. CASE Change
  <2>1. Listing' <=> Listing
    BY <1>3 DEF Change, Listing, remote
  <2>2. CASE Listing
    BY <1>3, <2>1, <2>2 DEF Change, Observe, Observed
  <2>3. QED
    BY <2>1, <2>2 DEF Observed
<1>4. QED
  BY <1>1, <1>2, <1>3, StillSteps DEF Next, Connect, LocalList

-----------------------------------------------------------------------------
(* The connection. *)

LEMMA EndsKeeps == ASSUME TypeOK, Ends, [Next]_vars PROVE Ends'
<1>1. CASE Serve
  BY <1>1 DEF TypeOK, Ends, Serve, UnknownCommand, CheckGrant, ListTags, CheckItem,
              FinishList, ServerCloses, NoWire
<1>2. CASE CheckItemFails \/ ServerFails \/ Break
  BY <1>2 DEF TypeOK, Ends, CheckItemFails, ServerFails, Break, remote
<1>3. CASE Receive
  BY <1>3 DEF TypeOK, Ends, Receive, ReadStatus, NoStatus, ClientReturns, DecodeEntry,
              EndOfEntries, BrokenEntries, PrintAnswer
<1>4. ASSUME NEW known \in BOOLEAN, Connect(known) PROVE Ends'
  BY <1>4 DEF Ends, Connect, Listing, NoWire
<1>5. ASSUME NEW byPeer \in BOOLEAN, NEW filter \in Filters, LocalList(byPeer, filter)
      PROVE  Ends'
  BY <1>5 DEF Ends, LocalList, Listing, remote
<1>6. CASE ListLocally
  BY <1>6 DEF TypeOK, Ends, ListLocally, PeerRings, PeerRing, PeerRingsDone, RetainBlob,
              LocalListed, LocalReturns, NoLocal, remote
<1>7. CASE LookupFails
  BY <1>7 DEF TypeOK, Ends, LookupFails, remote
<1>8. CASE Change \/ UNCHANGED vars
  BY <1>8 DEF Ends, Change, vars, remote
<1>9. QED
  BY <1>1, <1>2, <1>3, <1>4, <1>5, <1>6, <1>7, <1>8 DEF Next

\* While the client is connected nothing is taken off the wire.
LEMMA SoundKeeps ==
  ASSUME TypeOK, Observed, CatalogSound, [Next]_vars PROVE CatalogSound'
<1>1. CASE CheckItem
  <2>1. PICK b \in todo :
          wire' = IF Readable(b) THEN [wire EXCEPT !.entries = @ \cup {b}] ELSE wire
    BY <1>1 DEF CheckItem
  <2>2. client # "idle" /\ Readable(b) => b \in could
    BY <2>1 DEF TypeOK, Observed, Listing
  <2>3. wire'.entries = IF Readable(b) THEN wire.entries \cup {b} ELSE wire.entries
    BY <2>1 DEF TypeOK
  <2>4. QED
    BY <1>1, <2>2, <2>3 DEF CatalogSound, CheckItem, history
<1>2. CASE Serve /\ ~CheckItem
  BY <1>2 DEF TypeOK, CatalogSound, Serve, UnknownCommand, CheckGrant, ListTags,
              FinishList, ServerCloses, history
<1>3. CASE CheckItemFails \/ ServerFails \/ Break
  BY <1>3 DEF TypeOK, CatalogSound, CheckItemFails, ServerFails, Break, remote, history
<1>4. CASE Receive
  BY <1>4 DEF CatalogSound, Receive, ReadStatus, NoStatus, ClientReturns, DecodeEntry,
              EndOfEntries, BrokenEntries, PrintAnswer, history
<1>5. ASSUME NEW known \in BOOLEAN, Connect(known) PROVE CatalogSound'
  BY <1>5 DEF CatalogSound, Connect, NoWire
<1>6. ASSUME NEW byPeer \in BOOLEAN, NEW filter \in Filters, LocalList(byPeer, filter)
      PROVE  CatalogSound'
  BY <1>6 DEF CatalogSound, LocalList, Listing, remote
<1>7. CASE ListLocally \/ LookupFails \/ UNCHANGED vars
  BY <1>7 DEF CatalogSound, ListLocally, PeerRings, PeerRing, PeerRingsDone, RetainBlob,
              LocalListed, LocalReturns, LookupFails, vars, remote, history
<1>8. CASE Change
  BY <1>8 DEF CatalogSound, Change, Observe, remote, history
<1>9. QED
  BY <1>1, <1>2, <1>3, <1>4, <1>5, <1>6, <1>7, <1>8 DEF Next

\* The handler only passes over what need not be shown.
LEMMA UnderwayKeeps ==
  ASSUME TypeOK, Observed, Ends, Underway, [Next]_vars PROVE Underway'
<1>1. CASE CheckItem
  <2>1. PICK b \in todo :
          /\ todo' = todo \ {b}
          /\ wire' = IF Readable(b) THEN [wire EXCEPT !.entries = @ \cup {b}] ELSE wire
    BY <1>1 DEF CheckItem
  <2>2. client # "idle" /\ ~Readable(b) => b \notin must
    BY DEF Observed, Listing
  <2>3. /\ wire'.entries = IF Readable(b) THEN wire.entries \cup {b} ELSE wire.entries
        /\ wire'.end = wire.end
    BY <2>1 DEF TypeOK
  <2>4. QED
    BY <1>1, <2>1, <2>2, <2>3 DEF Underway, Ends, CheckItem, history
<1>2. CASE ListTags
  BY <1>2 DEF Observed, Listing, Ends, Underway, ListTags, history
<1>3. CASE FinishList
  BY <1>3 DEF TypeOK, Underway, FinishList, history
<1>4. CASE UnknownCommand \/ CheckGrant \/ ServerCloses
  BY <1>4 DEF TypeOK, Ends, Underway, UnknownCommand, CheckGrant, ServerCloses, history
<1>5. CASE CheckItemFails \/ ServerFails \/ Break
  <2>1. CASE CheckItemFails
    BY <2>1 DEF TypeOK, Ends, Underway, CheckItemFails, remote
  <2>2. CASE ServerFails
    BY <2>2 DEF TypeOK, Ends, Underway, ServerFails
  <2>3. CASE Break
    BY <2>3 DEF TypeOK, Underway, Break, history
  <2>4. QED
    BY <1>5, <2>1, <2>2, <2>3
<1>6. CASE Receive
  BY <1>6 DEF Underway, Receive, ReadStatus, NoStatus, ClientReturns, DecodeEntry,
              EndOfEntries, BrokenEntries, PrintAnswer, history
<1>7. ASSUME NEW known \in BOOLEAN, Connect(known) PROVE Underway'
  BY <1>7 DEF Underway, Connect, NoWire
<1>8. ASSUME NEW byPeer \in BOOLEAN, NEW filter \in Filters, LocalList(byPeer, filter)
      PROVE  Underway'
  BY <1>8 DEF Underway, LocalList, Listing, remote
<1>9. CASE ListLocally \/ LookupFails
  BY <1>9 DEF Ends, Underway, ListLocally, PeerRings, PeerRing, PeerRingsDone,
              RetainBlob, LocalListed, LocalReturns, LookupFails, remote
<1>10. CASE Change
  BY <1>10 DEF Underway, Change, Observe, remote, history
<1>11. CASE UNCHANGED vars
  BY <1>11 DEF Underway, vars, remote, history
<1>12. QED
  BY <1>1, <1>2, <1>3, <1>4, <1>5, <1>6, <1>7, <1>8, <1>9, <1>10, <1>11 DEF Next, Serve

LEMMA CompleteKeeps ==
  ASSUME TypeOK, Ends, Underway, CatalogComplete, [Next]_vars PROVE CatalogComplete'
<1>1. CASE EndOfEntries
  BY <1>1 DEF Ends, Underway, CatalogComplete, EndOfEntries, history
<1>2. CASE Receive /\ ~EndOfEntries
  BY <1>2 DEF CatalogComplete, Receive, ReadStatus, NoStatus, ClientReturns, DecodeEntry,
              BrokenEntries, PrintAnswer, history
<1>3. CASE Serve \/ CheckItemFails \/ ServerFails \/ Break
  BY <1>3 DEF CatalogComplete, Serve, UnknownCommand, CheckGrant, ListTags, CheckItem,
              FinishList, ServerCloses, CheckItemFails, ServerFails, Break, remote,
              history
<1>4. ASSUME NEW known \in BOOLEAN, Connect(known) PROVE CatalogComplete'
  BY <1>4 DEF CatalogComplete, Connect
<1>5. ASSUME NEW byPeer \in BOOLEAN, NEW filter \in Filters, LocalList(byPeer, filter)
      PROVE  CatalogComplete'
  BY <1>5 DEF CatalogComplete, LocalList, Listing, remote
<1>6. CASE ListLocally \/ LookupFails \/ UNCHANGED vars
  BY <1>6 DEF CatalogComplete, ListLocally, PeerRings, PeerRing, PeerRingsDone,
              RetainBlob, LocalListed, LocalReturns, LookupFails, vars, remote, history
<1>7. CASE Change
  BY <1>7 DEF CatalogComplete, Change, Observe, remote, history
<1>8. QED
  BY <1>1, <1>2, <1>3, <1>4, <1>5, <1>6, <1>7 DEF Next

-----------------------------------------------------------------------------
(* list_blobs. *)

LEMMA FoundKeeps ==
  ASSUME TypeOK, Ends, Found, [Next]_vars PROVE Found'
<1>1. CASE PeerRings
  BY <1>1 DEF TypeOK, Found, PeerRings, world, history
<1>2. CASE PeerRing
  <2>1. PICK r \in local.left :
          local' = [local EXCEPT !.left = @ \ {r},
                                 !.rings = IF r \in member THEN @ \cup {r} ELSE @]
    BY <1>2 DEF PeerRing
  <2>2. /\ local'.pc = "ring" /\ local'.found = local.found
        /\ local'.byPeer = local.byPeer /\ local'.left = local.left \ {r}
        /\ local'.rings = IF r \in member THEN local.rings \cup {r} ELSE local.rings
    BY <1>2, <2>1 DEF TypeOK, PeerRing
  <2>3. QED
    BY <1>2, <2>1, <2>2 DEF Found, PeerRing, world, history
<1>3. CASE PeerRingsDone
  <2>1. /\ local'.pc = "filter" /\ local'.found = local.found
        /\ local'.rings = local.rings /\ local'.byPeer = local.byPeer
        /\ local.pc = "ring" /\ local.left = {}
    BY <1>3 DEF TypeOK, PeerRingsDone
  <2>2. UNCHANGED <<tagged, member, quiet, todo>>
    BY <1>3 DEF PeerRingsDone, world, history
  <2>3. QED
    BY <2>1, <2>2 DEF Found
<1>4. CASE RetainBlob
  <2>1. PICK b \in todo :
          /\ todo' = todo \ {b}
          /\ local' = IF Keeps(b) THEN [local EXCEPT !.found = @ \cup {b}] ELSE local
    BY <1>4 DEF RetainBlob
  <2>2. /\ local'.pc = "filter" /\ local'.byPeer = local.byPeer
        /\ local'.rings = local.rings /\ local'.filter = local.filter
        /\ local'.found = IF Keeps(b) THEN local.found \cup {b} ELSE local.found
    BY <1>4, <2>1 DEF TypeOK, RetainBlob
  <2>3. UNCHANGED <<tagged, assoc, member, quiet>>
    BY <1>4 DEF RetainBlob, world, history
  <2>4. \A d : Keeps(d)' <=> Keeps(d)
    BY <2>2, <2>3 DEF Keeps
  <2>5. QED
    BY <1>4, <2>1, <2>2, <2>3, <2>4 DEF Found, RetainBlob
<1>5. CASE LocalListed
  <2>1. /\ local'.pc = "listed" /\ local'.byPeer = local.byPeer
        /\ local'.rings = local.rings /\ local'.filter = local.filter
        /\ local'.found = local.found /\ local.pc = "filter"
    BY <1>5 DEF TypeOK, LocalListed
  <2>2. UNCHANGED <<tagged, assoc, member, quiet, todo>> /\ todo = {}
    BY <1>5 DEF LocalListed, world, history
  <2>3. \A d : Keeps(d)' <=> Keeps(d)
    BY <2>1, <2>2 DEF Keeps
  <2>4. QED
    BY <2>1, <2>2, <2>3 DEF Found
<1>6. CASE LocalReturns
  BY <1>6 DEF Found, LocalReturns, NoLocal
<1>7. CASE LookupFails
  BY <1>7 DEF Found, LookupFails
<1>8. ASSUME NEW byPeer \in BOOLEAN, NEW filter \in Filters, LocalList(byPeer, filter)
      PROVE  Found'
  <2>1. /\ local'.pc = IF byPeer THEN "rings" ELSE "filter"
        /\ local'.byPeer = byPeer /\ local'.found = {}
    BY <1>8 DEF LocalList, NoLocal
  <2>2. todo' = tagged /\ tagged' = tagged
    BY <1>8 DEF LocalList, world
  <2>3. QED
    BY <2>1, <2>2 DEF Found
<1>9. CASE local.pc = "idle" /\ local' = local
  BY <1>9 DEF Found
<1>10. CASE Serve \/ CheckItemFails \/ ServerFails \/ Break \/ Receive
  BY <1>9, <1>10 DEF Ends, Serve, UnknownCommand, CheckGrant, ListTags, CheckItem,
     FinishList, ServerCloses, CheckItemFails, ServerFails, Break, Receive, ReadStatus,
     NoStatus, ClientReturns, DecodeEntry, EndOfEntries, BrokenEntries, PrintAnswer,
     TypeOK
<1>11. ASSUME NEW known \in BOOLEAN, Connect(known) PROVE Found'
  BY <1>9, <1>11 DEF Connect, Listing
<1>12. CASE Change
  BY <1>9, <1>12 DEF Change, Observe, Listing, Found, Ends
<1>13. CASE UNCHANGED vars
  BY <1>13 DEF Found, Keeps, vars, world, history
<1>14. QED
  BY <1>1, <1>2, <1>3, <1>4, <1>5, <1>6, <1>7, <1>8, <1>10, <1>11, <1>12, <1>13
     DEF Next, ListLocally

-----------------------------------------------------------------------------
(* The theorems. *)

LEMMA InvHolds == Spec => []Inv
<1>1. Init => Inv
  <2> SUFFICES ASSUME Init PROVE Inv
    OBVIOUS
  <2>1. TypeOK
    <3>1. {} \in Filters
      BY DEF Filters
    <3>2. local \in [pc : {"idle", "rings", "ring", "filter", "listed"},
                    byPeer : BOOLEAN, filter : Filters,
                    left : SUBSET Rings, rings : SUBSET AllRings, found : SUBSET Blobs]
      BY <3>1 DEF Init, NoLocal
    <3>3. faults \in 0 .. MaxFaults
      BY CatalogAssumption DEF Init
    <3>4. QED
      BY <3>2, <3>3 DEF Init, TypeOK, NoWire
  <2>2. Observed /\ Ends /\ Underway /\ Found /\ CatalogSound /\ CatalogComplete
    BY DEF Init, Observed, Listing, Ends, Underway, Found, CatalogSound,
           CatalogComplete, NoLocal, NoWire
  <2>3. QED
    BY <2>1, <2>2 DEF Inv
<1>2. Inv /\ [Next]_vars => Inv'
  BY TypeKeeps, ObservedKeeps, EndsKeeps, UnderwayKeeps, FoundKeeps, SoundKeeps,
     CompleteKeeps DEF Inv
<1>3. QED
  BY <1>1, <1>2, PTL DEF Spec

\* The variables of the two listings keep their types (CatalogHandler,
\* catalog_connect, list_blobs).
THEOREM CatalogTypeHolds == Spec => []TypeOK
<1>1. Inv => TypeOK
  BY DEF Inv
<1>2. QED
  BY <1>1, InvHolds, PTL

\* A peer is sent no entry for a blob that it could not read at some instant of
\* its connection (CatalogHandler::handle, which holds no lock).
THEOREM CatalogSoundHolds == Spec => []CatalogSound
<1>1. Inv => CatalogSound
  BY DEF Inv
<1>2. QED
  BY <1>1, InvHolds, PTL

\* An answer that the client accepts lacks nothing that was tagged and readable
\* all along but what an error passed over (decode_entries, handle_blob_list).
THEOREM CatalogCompleteHolds == Spec => []CatalogComplete
<1>1. Inv => CatalogComplete
  BY DEF Inv
<1>2. QED
  BY <1>1, InvHolds, PTL

\* blob list --peer finds what the gate would let the peer read (list_blobs,
\* peer_ring_set).
THEOREM OwnerSeesTheSameHolds == Spec => []OwnerSeesTheSame
<1>1. Inv => OwnerSeesTheSame
  <2> SUFFICES ASSUME Inv, local.pc = "listed", quiet
               PROVE  local.found =
                        {b \in tagged :
                           /\ \A R \in local.filter : assoc[b] \cap R # {}
                           /\ local.byPeer => Readable(b)}
    BY DEF OwnerSeesTheSame
  <2>1. /\ local.byPeer => local.rings = {Open} \cup member
        /\ todo = {} /\ local.found = {b \in tagged \ todo : Keeps(b)}
    BY DEF Inv, Found
  <2>2. QED
    BY <2>1 DEF Keeps, Readable
<1>2. QED
  BY <1>1, InvHolds, PTL
-----------------------------------------------------------------------------
(* Why a connection ends. *)

\* How far the handler has still to go, and how far the client.
ServerStage ==
  CASE server \in {"unknown", "grant"} -> 4
    [] server = "tags" -> 3
    [] server = "item" -> 2
    [] server = "hold" -> 1
    [] OTHER -> 0

ClientStage ==
  CASE client = "status" -> 3
    [] client = "entries" -> 2
    [] client = "answer" -> 1
    [] OTHER -> 0

Undecoded == wire.entries \ seen

\* The connection is nearer to its end, in the lexicographic order of the
\* handler's stage, the tags it has still to look at, the client's stage and
\* the entries it has still to decode.
Nearer ==
  \/ ServerStage' < ServerStage
  \/ /\ ServerStage' = ServerStage
     /\ \/ todo' \subseteq todo /\ todo' # todo
        \/ /\ todo' = todo
           /\ \/ ClientStage' < ClientStage
              \/ /\ ClientStage' = ClientStage
                 /\ Undecoded' \subseteq Undecoded
                 /\ Undecoded' # Undecoded

\* Every step of either end brings a connection nearer to its end, and nothing
\* else moves it back: not a change of tags, rings or grants, not a failed
\* lookup, not a broken connection.
NearerEachStep ==
  server # "idle" =>
    /\ Serve \/ Receive => Nearer
    /\ \/ Nearer
       \/ UNCHANGED <<server, todo, client>> /\ Undecoded' = Undecoded

ConnectionsApproach == [][NearerEachStep]_vars

\* The guards of the two ends.
ServerCanStep ==
  \/ server \in {"unknown", "grant", "tags", "item"}
  \/ server = "hold" /\ client = "idle"

ClientCanStep ==
  \/ client = "status" /\ (wire.status # "none" \/ wire.end # "open")
  \/ client = "entries" /\ (Undecoded # {} \/ wire.end # "open")
  \/ client = "answer"

\* The handler, which holds the connection for the client, and the client,
\* which reads to the end of the stream, never both wait.
NoMutualWait == server # "idle" => ServerCanStep \/ ClientCanStep

\* What the client has decoded was sent, no tags are left over from an earlier
\* listing, and a handler that holds the connection has ended the stream.
Tidy ==
  /\ seen \subseteq wire.entries
  /\ server = "hold" => wire.end # "open"
  /\ server # "item" /\ local.pc \in {"idle", "listed"} => todo = {}

LEMMA TidyKeeps == ASSUME TypeOK, Ends, Tidy, [Next]_vars PROVE Tidy'
<1> USE DEF Tidy
<1>1. CASE UnknownCommand \/ CheckGrant \/ ListTags \/ FinishList
  BY <1>1 DEF TypeOK, Ends, UnknownCommand, CheckGrant, ListTags, FinishList, world, history
<1>2. CASE CheckItem \/ CheckItemFails
  BY <1>2 DEF TypeOK, Ends, CheckItem, CheckItemFails, world, history, remote
<1>3. CASE ServerCloses \/ ServerFails \/ Break
  BY <1>3 DEF TypeOK, Ends, ServerCloses, ServerFails, Break, NoWire, world, history
<1>4. CASE Receive
  BY <1>4 DEF Receive, ReadStatus, NoStatus, ClientReturns, DecodeEntry, EndOfEntries,
     BrokenEntries, PrintAnswer, world, history
<1>5. ASSUME NEW known \in BOOLEAN, Connect(known) PROVE Tidy'
  BY <1>5 DEF Connect, Listing, NoWire, world
<1>6. ASSUME NEW byPeer \in BOOLEAN, NEW filter \in Filters, LocalList(byPeer, filter)
      PROVE  Tidy'
  BY <1>6 DEF TypeOK, LocalList, NoLocal, world, remote
<1>7. CASE ListLocally \/ LookupFails
  <2>1. remote' = remote /\ local.pc # "idle" /\ server = "idle"
    BY <1>7 DEF Ends, ListLocally, PeerRings, PeerRing, PeerRingsDone, RetainBlob,
       LocalListed, LocalReturns, LookupFails
  <2>2. local'.pc \in {"idle", "listed"} => todo' = {}
    BY <1>7, <2>1 DEF TypeOK, ListLocally, PeerRings, PeerRing, PeerRingsDone,
       RetainBlob, LocalListed, LocalReturns, LookupFails, NoLocal
  <2>3. QED
    BY <2>1, <2>2 DEF remote
<1>8. CASE Change \/ UNCHANGED vars
  BY <1>8 DEF Change, vars, remote
<1>9. QED
  BY <1>1, <1>2, <1>3, <1>4, <1>5, <1>6, <1>7, <1>8 DEF Next, Serve

LEMMA TidyHolds == Spec => [](Inv /\ Tidy)
<1>1. Init => Tidy
  BY DEF Init, Tidy, NoWire
<1>2. Inv /\ Tidy /\ [Next]_vars => Tidy'
  BY TidyKeeps DEF Inv
<1>3. QED
  BY <1>1, <1>2, InvHolds, PTL DEF Spec

LEMMA ServeNearer ==
  ASSUME TypeOK, Ends, Tidy, server # "idle",
         Serve \/ CheckItemFails \/ ServerFails
  PROVE  Nearer
<1> USE DEF Nearer, ServerStage
<1>1. CASE UnknownCommand \/ CheckGrant \/ ListTags \/ FinishList
  BY <1>1 DEF UnknownCommand, CheckGrant, ListTags, FinishList
<1>2. CASE CheckItem \/ CheckItemFails
  BY <1>2 DEF CheckItem, CheckItemFails, remote
<1>3. CASE ServerCloses \/ ServerFails
  BY <1>3 DEF ServerCloses, ServerFails
<1>4. QED
  BY <1>1, <1>2, <1>3 DEF Serve

LEMMA ReceiveNearer == ASSUME Tidy, Receive PROVE Nearer
<1>1. CASE ReadStatus \/ NoStatus \/ EndOfEntries \/ BrokenEntries \/ PrintAnswer
  <2>1. /\ server' = server /\ todo' = todo
        /\ \/ client = "status" /\ client' \in {"entries", "idle"}
           \/ client = "entries" /\ client' \in {"answer", "idle"}
           \/ client = "answer" /\ client' = "idle"
    BY <1>1 DEF ReadStatus, NoStatus, EndOfEntries, BrokenEntries, PrintAnswer,
       ClientReturns
  <2>2. ServerStage' = ServerStage /\ ClientStage' < ClientStage
    BY <2>1 DEF ServerStage, ClientStage
  <2>3. QED
    BY <2>1, <2>2 DEF Nearer
<1>2. CASE DecodeEntry
  <2>1. PICK b \in wire.entries \ seen : seen' = seen \cup {b}
    BY <1>2 DEF DecodeEntry
  <2>2. UNCHANGED <<server, client, wire, todo>>
    BY <1>2 DEF DecodeEntry
  <2>3. Undecoded' = Undecoded \ {b} /\ b \in Undecoded
    BY <2>1, <2>2 DEF Undecoded
  <2>4. ServerStage' = ServerStage /\ ClientStage' = ClientStage
    BY <2>2 DEF ServerStage, ClientStage
  <2>5. QED
    BY <2>2, <2>3, <2>4 DEF Nearer
<1>3. QED
  BY <1>1, <1>2 DEF Receive

\* What breaks a connection does not make it longer.
LEMMA BreakNearer ==
  ASSUME TypeOK, Ends, Tidy, server # "idle", Break
  PROVE  Nearer \/ (UNCHANGED <<server, todo, client>> /\ Undecoded' = Undecoded)
<1>1. /\ server' = "hold" /\ todo' = {} /\ client' = client /\ seen' = seen
      /\ wire'.entries = wire.entries
  BY DEF TypeOK, Break
<1>2. CASE server = "hold"
  <2>1. local.pc = "idle"
    BY DEF Ends, Break
  <2>2. QED
    BY <1>1, <1>2, <2>1 DEF Tidy, Undecoded
<1>3. CASE server # "hold"
  BY <1>1, <1>3 DEF TypeOK, Nearer, ServerStage
<1>4. QED
  BY <1>2, <1>3

\* The measure that makes every connection of the catalog protocol end
\* (CatalogHandler::handle, decode_entries): the safety half of CatalogEnds.
THEOREM ConnectionsApproachHolds == Spec => ConnectionsApproach
<1>1. ASSUME Inv, Tidy, [Next]_vars PROVE [NearerEachStep]_vars
  <2> SUFFICES ASSUME server # "idle"
               PROVE  /\ Serve \/ Receive => Nearer
                      /\ \/ Nearer
                         \/ UNCHANGED <<server, todo, client>> /\ Undecoded' = Undecoded
    BY DEF NearerEachStep
  <2>1. TypeOK /\ Ends
    BY <1>1 DEF Inv
  <2>2. Serve \/ Receive \/ CheckItemFails \/ ServerFails => Nearer
    BY <1>1, <2>1, ServeNearer, ReceiveNearer
  <2>3. ~(ListLocally \/ LookupFails)
    BY <2>1 DEF Ends, ListLocally, PeerRings, PeerRing, PeerRingsDone, RetainBlob,
       LocalListed, LocalReturns, LookupFails
  <2>4. ~(\E known \in BOOLEAN : Connect(known))
    BY DEF Connect
  <2>5. ~(\E byPeer \in BOOLEAN, filter \in Filters : LocalList(byPeer, filter))
    BY DEF LocalList
  <2>6. Change \/ UNCHANGED vars =>
          UNCHANGED <<server, todo, client>> /\ Undecoded' = Undecoded
    BY DEF Change, remote, vars, Undecoded
  <2>7. QED
    BY <1>1, <2>1, <2>2, <2>3, <2>4, <2>5, <2>6, BreakNearer DEF Next
<1>2. QED
  BY <1>1, TidyHolds, PTL DEF Spec, ConnectionsApproach

\* The two ends of a connection never wait for each other: a handler that holds
\* it has ended the stream, which is what a client that has decoded everything
\* waits for.
THEOREM NoMutualWaitHolds == Spec => []NoMutualWait
<1>1. Inv /\ Tidy => NoMutualWait
  BY DEF Inv, TypeOK, Tidy, NoMutualWait, ServerCanStep, ClientCanStep
<1>2. QED
  BY <1>1, TidyHolds, PTL
=============================================================================
