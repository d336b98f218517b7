----------------------------- MODULE LocalStore -----------------------------
(***************************************************************************)
(* LocalStore::open (local_store.rs): the migration of grants.redb and     *)
(* peers.redb into local.redb, file by file, with a crash or an error      *)
(* possible before every step, and the store it opens. A file is NoFile or *)
(* its committed rows; a redb transaction is one step.                     *)
(***************************************************************************)
EXTENDS Naturals

CONSTANTS
  Peers,         \* the peers of the rows
  Nicks,         \* nicknames
  NoNick,        \* a row with no nickname (the empty string)
  Absent,        \* no row
  NoFile,        \* a file that does not exist
  HeldChoices,   \* may a process that opens the store hold registry.redb open?
                 \* {TRUE} is the daemon; the library takes any registry
  MaxFaults      \* bound on the errors and crashes

ASSUME StoreAssumption ==
  /\ \A content \in SUBSET Peers : content # NoFile
  /\ \A content \in [Peers -> Nicks \cup {NoNick, Absent}] : content # NoFile
  /\ \A content \in [grants : SUBSET Peers,
                      peers : [Peers -> Nicks \cup {NoNick, Absent}]] :
       content # NoFile
  /\ Absent \notin Nicks \cup {NoNick}
  /\ HeldChoices \subseteq BOOLEAN
  /\ MaxFaults \in Nat

VARIABLES
  grants,    \* grants.redb
  peers,     \* peers.redb
  registry,  \* registry.redb: the members of its named rings
  tmp,       \* local.redb.tmp
  local,     \* local.redb
  pc,        \* where LocalStore::open is; "down" when no process runs
  held,      \* does the process hold registry.redb open?
  has,       \* the locals has_grants and has_peers
  faults

files == <<grants, peers, registry, tmp, local>>
vars == <<files, pc, held, has, faults>>

Book == [Peers -> Nicks \cup {NoNick, Absent}]

Rows == [grants : SUBSET Peers, peers : Book]

Empty == [grants |-> {}, peers |-> [p \in Peers |-> Absent]]

Init ==
  /\ grants \in {NoFile} \cup SUBSET Peers
  /\ peers \in {NoFile} \cup Book
  /\ registry \in {NoFile} \cup SUBSET Peers
  /\ tmp = NoFile
  /\ local = NoFile
  /\ pc = "down"
  /\ held = FALSE
  /\ has = [grants |-> FALSE, peers |-> FALSE]
  /\ faults = 0

\* One step of LocalStore::open, from one label to the next.
Go(from, to) == pc = from /\ pc' = to

\* A process starts. The daemon opens registry.redb first, and creates it.
Boot(holds) ==
  /\ Go("down", "check")
  /\ held' = holds
  /\ registry' = IF holds /\ registry = NoFile THEN {} ELSE registry
  /\ UNCHANGED <<grants, peers, tmp, local, has, faults>>

\* Mutant: the old files decide, not local.redb.
CheckOldFilesOnly ==
  /\ pc = "check"
  /\ has' = [grants |-> grants # NoFile, peers |-> peers # NoFile]
  /\ pc' = IF grants = NoFile /\ peers = NoFile THEN "attach" ELSE "clean"
  /\ UNCHANGED <<files, held, faults>>

\* Nothing to migrate: local.redb exists, or neither old file does.
Check ==
  /\ pc = "check"
  /\ IF local # NoFile \/ (grants = NoFile /\ peers = NoFile)
     THEN pc' = "attach" /\ UNCHANGED has
     ELSE /\ pc' = "clean"
          /\ has' = [grants |-> grants # NoFile, peers |-> peers # NoFile]
  /\ UNCHANGED <<files, held, faults>>

\* Mutant: a leftover of an earlier attempt is an error.
CleanTmpRefused ==
  /\ Go("clean", IF tmp = NoFile THEN "create" ELSE "down")
  /\ UNCHANGED <<files, held, has, faults>>

\* The leftover of an earlier attempt is removed.
CleanTmp ==
  /\ Go("clean", "create")
  /\ tmp' = NoFile
  /\ UNCHANGED <<grants, peers, registry, local, held, has, faults>>

\* Both tables are created empty.
CreateTmp ==
  /\ Go("create", "grants")
  /\ tmp' = Empty
  /\ UNCHANGED <<grants, peers, registry, local, held, has, faults>>

\* Skipped when there was no grants.redb.
CopyGrants ==
  /\ Go("grants", "peers")
  /\ tmp' = IF has.grants THEN [tmp EXCEPT !.grants = grants] ELSE tmp
  /\ UNCHANGED <<grants, peers, registry, local, held, has, faults>>

\* Skipped when there was no peers.redb.
CopyPeers ==
  /\ Go("peers", "rings")
  /\ tmp' = IF has.peers THEN [tmp EXCEPT !.peers = peers] ELSE tmp
  /\ UNCHANGED <<grants, peers, registry, local, held, has, faults>>

\* Mutant: the new row holds the key.
BackfillKey(book, members) ==
  [p \in Peers |-> IF p \in members /\ book[p] = Absent THEN p ELSE book[p]]

\* Ring members without a row get one, with no nickname.
Backfill(book, members) ==
  [p \in Peers |-> IF p \in members /\ book[p] = Absent THEN NoNick ELSE book[p]]

\* Mutant: with a registry, its members are all there is in the address book.
CopyRingPeersOnly ==
  /\ Go("rings", "rename")
  /\ registry = NoFile \/ ~held
  /\ tmp' = IF registry = NoFile THEN tmp
            ELSE [tmp EXCEPT !.peers = Backfill(Empty.peers, registry)]
  /\ UNCHANGED <<grants, peers, registry, local, held, has, faults>>

\* Skipped when there is no registry; the file must not be open already.
CopyRingPeers ==
  /\ Go("rings", "rename")
  /\ registry = NoFile \/ ~held
  /\ tmp' = IF registry = NoFile THEN tmp
            ELSE [tmp EXCEPT !.peers = Backfill(@, registry)]
  /\ UNCHANGED <<grants, peers, registry, local, held, has, faults>>

\* Mutant: the failure is ignored and the daemon starts with a new store.
RegistryBusyIgnored ==
  /\ Go("rings", "attach")
  /\ registry # NoFile /\ held
  /\ UNCHANGED <<files, held, has, faults>>

\* Database::open of a file this process has open fails: so does the start.
RegistryBusy ==
  /\ Go("rings", "down")
  /\ registry # NoFile /\ held
  /\ UNCHANGED <<files, held, has, faults>>

RenameTmp ==
  /\ Go("rename", "rmgrants")
  /\ local' = tmp
  /\ tmp' = NoFile
  /\ UNCHANGED <<grants, peers, registry, held, has, faults>>

DeleteGrants ==
  /\ Go("rmgrants", "rmpeers")
  /\ grants' = IF has.grants THEN NoFile ELSE grants
  /\ UNCHANGED <<peers, registry, tmp, local, held, has, faults>>

DeletePeers ==
  /\ Go("rmpeers", "attach")
  /\ peers' = IF has.peers THEN NoFile ELSE peers
  /\ UNCHANGED <<grants, registry, tmp, local, held, has, faults>>

\* Database::create and the two from_db: missing tables are created empty.
Attach ==
  /\ Go("attach", "open")
  /\ local' = IF local = NoFile THEN Empty ELSE local
  /\ UNCHANGED <<grants, peers, registry, tmp, held, has, faults>>

\* GrantStore and PeerStore: one row per transaction.
WriteRow ==
  /\ pc = "open"
  /\ \E p \in Peers :
       \/ \E rows \in {local.grants \cup {p}, local.grants \ {p}} :
            local' = [local EXCEPT !.grants = rows]
       \/ \E row \in Nicks \cup {NoNick, Absent} :
            local' = [local EXCEPT !.peers[p] = row]
  /\ UNCHANGED <<grants, peers, registry, tmp, pc, held, has, faults>>

\* The daemon is stopped.
Quit ==
  /\ Go("open", "down")
  /\ UNCHANGED <<files, held, has, faults>>

\* A step fails and its error ends the process, or the process is killed.
Fault ==
  /\ pc # "down"
  /\ faults < MaxFaults
  /\ pc' = "down"
  /\ faults' = faults + 1
  /\ UNCHANGED <<files, held, has>>

Migrate ==
  \/ Check
  \/ CleanTmp
  \/ CreateTmp
  \/ CopyGrants
  \/ CopyPeers
  \/ CopyRingPeers
  \/ RegistryBusy
  \/ RenameTmp
  \/ DeleteGrants
  \/ DeletePeers
  \/ Attach

Next ==
  \/ \E holds \in HeldChoices : Boot(holds)
  \/ Migrate
  \/ WriteRow
  \/ Quit
  \/ Fault

\* The store is opened again and again, by whoever may, and the process runs on.
Fairness ==
  /\ \A holds \in HeldChoices : SF_vars(Boot(holds))
  /\ WF_vars(Migrate)

Spec == Init /\ [][Next]_vars /\ Fairness

-----------------------------------------------------------------------------
(* Properties. *)

\* Files hold rows of their own kind, and local.redb is whole from the moment
\* it exists, whatever step the migration was stopped at.
TypeOK ==
  /\ grants \in {NoFile} \cup SUBSET Peers
  /\ peers \in {NoFile} \cup Book
  /\ registry \in {NoFile} \cup SUBSET Peers
  /\ tmp \in {NoFile} \cup Rows
  /\ local \in {NoFile} \cup Rows
  /\ pc \in {"down", "check", "clean", "create", "grants", "peers", "rings",
             "rename", "rmgrants", "rmpeers", "attach", "open"}
  /\ held \in BOOLEAN
  /\ has \in [grants : BOOLEAN, peers : BOOLEAN]
  /\ faults \in 0 .. MaxFaults

OldGrants == IF grants = NoFile THEN {} ELSE grants

OldBook == IF peers = NoFile THEN Empty.peers ELSE peers

\* The rows the files stand for: local.redb alone once it exists, else the old
\* files with the ring members added, else nothing.
Contents ==
  IF local # NoFile THEN local
  ELSE IF grants = NoFile /\ peers = NoFile THEN Empty
  ELSE [grants |-> OldGrants,
        peers  |-> IF registry = NoFile THEN OldBook ELSE Backfill(OldBook, registry)]

Copying == pc \in {"clean", "create", "grants", "peers", "rings", "rename"}

\* What each step of the migration can rely on: local.redb does not exist while
\* rows are copied, the old files are the ones that were there at the check, and
\* local.redb.tmp holds all that has been copied so far when it is renamed.
Copied ==
  /\ Copying =>
       /\ local = NoFile
       /\ has.grants <=> grants # NoFile
       /\ has.peers <=> peers # NoFile
       /\ has.grants \/ has.peers
  /\ pc = "grants" => tmp = Empty
  /\ pc = "peers"  => tmp = [grants |-> OldGrants, peers |-> Empty.peers]
  /\ pc = "rings"  => tmp = [grants |-> OldGrants, peers |-> OldBook]
  /\ pc = "rename" => tmp = Contents
  /\ pc \in {"rmgrants", "rmpeers", "open"} => local # NoFile
  /\ pc = "attach" => local # NoFile \/ (grants = NoFile /\ peers = NoFile)

Store == INSTANCE DurableStore WITH rows <- Contents, open <- pc = "open"

\* The migration implements the durable store: no crash, error or retry loses a
\* grant or a nickname, and no old file brings back a row removed since.
StoreSpec == Store!Spec

\* A start that fails can be retried until it succeeds (migrate_if_needed: "so
\* the next startup can retry").
Starts == pc = "down" ~> pc = "open"
=============================================================================
