-------------------------- MODULE LocalStoreProofs --------------------------
(***************************************************************************)
(* Proofs about LocalStore: the migration loses no row and brings none     *)
(* back, for any peers, nicknames, registry and number of faults; and a    *)
(* daemon never does it.                                                   *)
(***************************************************************************)
EXTENDS LocalStore, TLAPS

\* The inductive invariant: the types and what each step can rely on.
Inv == TypeOK /\ Copied

LEMMA BackfillType ==
  ASSUME NEW book \in Book, NEW members \in SUBSET Peers
  PROVE  Backfill(book, members) \in Book
  BY DEF Backfill, Book

LEMMA EmptyType == Empty \in Rows
  BY DEF Empty, Rows, Book

\* A file that holds something exists.
LEMMA ContentIsAFile ==
  /\ \A content \in SUBSET Peers : content # NoFile
  /\ \A content \in Book : content # NoFile
  /\ \A content \in Rows : content # NoFile
  BY StoreAssumption DEF Book, Rows

LEMMA ContentsType ==
  ASSUME TypeOK
  PROVE  Contents \in Rows /\ OldBook \in Book /\ OldGrants \in SUBSET Peers
<1>1. OldBook \in Book
  BY DEF TypeOK, OldBook, Empty, Book
<1>2. OldGrants \in SUBSET Peers
  BY DEF TypeOK, OldGrants
<1>3. registry # NoFile => Backfill(OldBook, registry) \in Book
  BY <1>1, BackfillType DEF TypeOK
<1>4. Contents \in Rows
  BY <1>1, <1>2, <1>3, EmptyType DEF TypeOK, Contents, Rows
<1>5. QED
  BY <1>1, <1>2, <1>4

LEMMA ContentsTypeNext == TypeOK' => (Contents \in Rows)'
<1>1. TypeOK => Contents \in Rows
  BY ContentsType
<1>2. QED
  BY <1>1, PTL

LEMMA InitInv == Init => Inv
<1>1. Init => 0 \in 0 .. MaxFaults
  BY StoreAssumption
<1>2. Init => TypeOK
  <2>1. Init => held \in BOOLEAN
    BY Zenon DEF Init
  <2>2. [grants |-> FALSE, peers |-> FALSE] \in [grants : BOOLEAN, peers : BOOLEAN]
    OBVIOUS
  <2>3. QED
    BY <1>1, <2>1, <2>2 DEF Init, TypeOK
<1>3. Init => Copied
  BY DEF Init, Copied, Copying
<1>4. QED
  BY <1>2, <1>3 DEF Inv

(***************************************************************************)
(* The steps that write a file, one lemma each, and the others together.   *)
(***************************************************************************)

LEMMA CopyInv ==
  ASSUME Inv, CreateTmp \/ CopyGrants \/ CopyPeers \/ CopyRingPeers
  PROVE  Inv' /\ Contents' = Contents
<1> USE DEF Inv, Go
<1>1. UNCHANGED <<grants, peers, local, held, has, faults, registry>>
  BY DEF CreateTmp, CopyGrants, CopyPeers, CopyRingPeers
<1>2. /\ Contents' = Contents
      /\ OldGrants' = OldGrants
      /\ OldBook' = OldBook
  BY <1>1 DEF Contents, OldGrants, OldBook
<1>3. CASE CreateTmp
  <2>1. TypeOK'
    BY <1>1, <1>3, EmptyType DEF CreateTmp, TypeOK
  <2>2. Copied'
    BY <1>1, <1>3 DEF CreateTmp, Copied, Copying
  <2>3. QED
    BY <1>2, <2>1, <2>2
<1>4. CASE CopyGrants
  <2>1. tmp' = [grants |-> OldGrants, peers |-> Empty.peers]
    BY <1>4 DEF CopyGrants, Copied, Copying, OldGrants, Empty
  <2>2. tmp' \in Rows
    BY <2>1, ContentsType, EmptyType DEF Rows, Empty
  <2>3. QED
    BY <1>1, <1>2, <1>4, <2>1, <2>2 DEF CopyGrants, TypeOK, Copied, Copying
<1>5. CASE CopyPeers
  <2>1. tmp' = [grants |-> OldGrants, peers |-> OldBook]
    BY <1>5 DEF CopyPeers, Copied, Copying, OldBook, Empty
  <2>2. tmp' \in Rows
    BY <2>1, ContentsType DEF Rows
  <2>3. QED
    BY <1>1, <1>2, <1>5, <2>1, <2>2 DEF CopyPeers, TypeOK, Copied, Copying
<1>6. CASE CopyRingPeers
  <2>1. tmp' = Contents
    BY <1>6 DEF CopyRingPeers, Copied, Copying, Contents
  <2>2. tmp' \in Rows
    BY <2>1, ContentsType
  <2>3. QED
    BY <1>1, <1>2, <1>6, <2>1, <2>2 DEF CopyRingPeers, TypeOK, Copied, Copying
<1>7. QED
  BY <1>3, <1>4, <1>5, <1>6, <1>2

LEMMA SwitchInv ==
  ASSUME Inv, RenameTmp \/ DeleteGrants \/ DeletePeers \/ Attach
  PROVE  Inv' /\ Contents' = Contents
<1> USE DEF Inv, Go
<1>1. CASE RenameTmp
  <2>1. tmp = Contents /\ tmp \in Rows
    BY <1>1, ContentsType DEF RenameTmp, Copied
  <2>2. local' # NoFile /\ local' = tmp
    BY <1>1, <2>1, ContentIsAFile DEF RenameTmp
  <2>3. Contents' = Contents
    BY <2>1, <2>2 DEF Contents
  <2>4. QED
    BY <1>1, <2>1, <2>2, <2>3 DEF RenameTmp, TypeOK, Copied, Copying
<1>2. CASE DeleteGrants
  BY <1>2 DEF DeleteGrants, TypeOK, Copied, Copying, Contents
<1>3. CASE DeletePeers
  BY <1>3 DEF DeletePeers, TypeOK, Copied, Copying, Contents
<1>4. CASE Attach
  <2>1. local' \in Rows /\ local' # NoFile
    BY <1>4, EmptyType, ContentIsAFile DEF Attach, TypeOK
  <2>2. local' = Contents
    BY <1>4 DEF Attach, Copied, Contents
  <2>3. QED
    BY <1>4, <2>1, <2>2 DEF Attach, TypeOK, Copied, Copying, Contents
<1>5. QED
  BY <1>1, <1>2, <1>3, <1>4

LEMMA OtherInv ==
  ASSUME Inv, \/ \E holds \in HeldChoices : Boot(holds)
              \/ Check \/ CleanTmp \/ RegistryBusy \/ Quit \/ Fault
              \/ UNCHANGED vars
  PROVE  Inv' /\ Contents' = Contents
<1> USE DEF Inv, Go
<1>1. CASE \E holds \in HeldChoices : Boot(holds)
  <2> PICK holds \in HeldChoices : Boot(holds)
    BY <1>1
  <2>1. Contents' = Contents
    <3>1. CASE registry' = registry
      BY <3>1 DEF Boot, Contents, OldGrants, OldBook
    <3>2. CASE registry = NoFile /\ registry' = {}
      <4>1. OldBook \in Book
        BY ContentsType
      <4>2. Backfill(OldBook, {}) = OldBook
        BY <4>1 DEF Backfill, Book
      <4>3. {} # NoFile
        BY ContentIsAFile
      <4>4. QED
        BY <3>2, <4>2, <4>3 DEF Boot, Contents, OldGrants, OldBook
    <3>3. QED
      BY <3>1, <3>2 DEF Boot
  <2>2. QED
    BY <2>1, StoreAssumption DEF Boot, TypeOK, Copied, Copying
<1>2. CASE Check
  <2>1. Contents' = Contents
    BY <1>2 DEF Check, files, Contents, OldGrants, OldBook
  <2>2. CASE local # NoFile \/ (grants = NoFile /\ peers = NoFile)
    BY <1>2, <2>1, <2>2 DEF Check, files, TypeOK, Copied, Copying
  <2>3. CASE local = NoFile /\ (grants # NoFile \/ peers # NoFile)
    <3>1. has' = [grants |-> grants # NoFile, peers |-> peers # NoFile]
      BY <1>2, <2>3 DEF Check
    <3>2. /\ has' \in [grants : BOOLEAN, peers : BOOLEAN]
          /\ has'.grants <=> grants # NoFile
          /\ has'.peers <=> peers # NoFile
      <4>1. \A a, b \in BOOLEAN :
              LET r == [grants |-> a, peers |-> b]
              IN r \in [grants : BOOLEAN, peers : BOOLEAN] /\ r.grants = a /\ r.peers = b
        OBVIOUS
      <4>2. (grants # NoFile) \in BOOLEAN /\ (peers # NoFile) \in BOOLEAN
        OBVIOUS
      <4>3. QED
        BY <3>1, <4>1, <4>2, Zenon
    <3>3. pc' = "clean" /\ UNCHANGED <<files, held, faults>>
      BY <1>2, <2>3 DEF Check
    <3>4. QED
      BY <2>1, <2>3, <3>2, <3>3 DEF files, TypeOK, Copied, Copying
  <2>4. QED
    BY <2>2, <2>3
<1>3. CASE CleanTmp
  BY <1>3 DEF CleanTmp, TypeOK, Copied, Copying, Contents, OldGrants, OldBook
<1>4. CASE RegistryBusy \/ Quit
  BY <1>4 DEF RegistryBusy, Quit, files, TypeOK, Copied, Copying,
              Contents, OldGrants, OldBook
<1>5. CASE Fault
  BY <1>5, StoreAssumption
     DEF Fault, files, TypeOK, Copied, Copying, Contents, OldGrants, OldBook
<1>6. CASE UNCHANGED vars
  BY <1>6 DEF vars, files, TypeOK, Copied, Copying, Contents, OldGrants, OldBook
<1>7. QED
  BY <1>1, <1>2, <1>3, <1>4, <1>5, <1>6

LEMMA WriteInv ==
  ASSUME Inv, WriteRow
  PROVE  Inv'
<1>1. local \in Rows
  BY DEF Inv, WriteRow, TypeOK, Copied
<1>2. PICK p \in Peers :
        \/ \E rows \in {local.grants \cup {p}, local.grants \ {p}} :
             local' = [local EXCEPT !.grants = rows]
        \/ \E row \in Nicks \cup {NoNick, Absent} :
             local' = [local EXCEPT !.peers[p] = row]
  BY DEF WriteRow
<1>3. local' \in Rows
  BY <1>1, <1>2 DEF Rows, Book
<1>4. local' # NoFile
  BY <1>3, ContentIsAFile
<1>5. QED
  BY <1>3, <1>4 DEF Inv, WriteRow, TypeOK, Copied, Copying

LEMMA StepInv ==
  ASSUME Inv, [Next]_vars
  PROVE  Inv'
  BY CopyInv, SwitchInv, OtherInv, WriteInv DEF Next, Migrate

\* Every file is whole and local.redb.tmp is complete when it is renamed, in
\* every reachable state (migrate_if_needed).
THEOREM MigrationInvariant == Spec => [](TypeOK /\ Copied)
<1>1. Inv /\ [Next]_vars => Inv'
  BY StepInv
<1>2. QED
  BY InitInv, <1>1, PTL DEF Spec, Inv

\* The variables of the migration keep their types, the files their rows
\* (LocalStore::open and migrate_if_needed).
THEOREM LocalStoreTypeHolds == Spec => []TypeOK
<1>1. TypeOK /\ Copied => TypeOK
  OBVIOUS
<1>2. QED
  BY <1>1, MigrationInvariant, PTL

(***************************************************************************)
(* The refinement. Only WriteRow changes the contents, and only while the  *)
(* store is open.                                                          *)
(***************************************************************************)

LEMMA InitStore == Init => Store!Init
<1> SUFFICES ASSUME Init PROVE Store!Init
  OBVIOUS
<1>1. Contents \in Rows
  BY InitInv, ContentsType DEF Inv
<1>2. QED
  BY <1>1 DEF Init, Store!Init

LEMMA StepStore ==
  ASSUME Inv, Inv', [Next]_vars
  PROVE  [Store!Next]_<<Contents, pc = "open">>
<1> USE DEF Store!Next, Store!Start, Store!Write, Store!Stop
<1>1. CASE WriteRow
  <2>1. Contents' \in Rows
    BY ContentsTypeNext DEF Inv
  <2>2. QED
    BY <1>1, <2>1 DEF WriteRow
<1>2. CASE ~WriteRow
  <2>1. Contents' = Contents
    BY <1>2, CopyInv, SwitchInv, OtherInv DEF Next, Migrate
  <2>2. QED
    BY <2>1
<1>3. QED
  BY <1>1, <1>2

\* The migration implements DurableStore: no crash, error or retry of
\* LocalStore::open loses a row or brings back one removed since.
THEOREM MigrationRefines == Spec => StoreSpec
<1>1. Inv /\ Inv' /\ [Next]_vars => [Store!Next]_<<Contents, pc = "open">>
  BY StepStore
<1>2. Inv /\ [Next]_vars => Inv'
  BY StepInv
<1>3. QED
  BY InitInv, InitStore, <1>1, <1>2, PTL DEF Spec, StoreSpec, Store!Spec
-----------------------------------------------------------------------------
(* The migration that the daemon cannot do. *)

\* The old files are there and have not been migrated.
Unmigrated ==
  /\ grants # NoFile \/ peers # NoFile
  /\ local = NoFile
  /\ pc \in {"down", "check", "clean", "create", "grants", "peers", "rings"}

\* The daemon holds registry.redb from before the check to the end of the start.
HoldsRegistry == pc # "down" => held /\ registry # NoFile

\* A daemon never gets past the ring members of a migration, with no fault at
\* all: the old files stay, no store is opened, and every retry fails in the
\* same way (run_serve opens registry.redb before LocalStore::open copies from
\* it). That is what the run of the daemon shows for one peer.
THEOREM DaemonNeverMigrates ==
  ASSUME HeldChoices \subseteq {TRUE}
  PROVE  Spec => (Unmigrated => []Unmigrated)
<1>1. Init => HoldsRegistry
  BY DEF Init, HoldsRegistry
<1>2. TypeOK /\ Unmigrated /\ HoldsRegistry /\ [Next]_vars => (Unmigrated /\ HoldsRegistry)'
  <2> SUFFICES ASSUME TypeOK, Unmigrated, HoldsRegistry, [Next]_vars
               PROVE  (Unmigrated /\ HoldsRegistry)'
    OBVIOUS
  <2> USE DEF Unmigrated, HoldsRegistry, Go, files
  <2>1. ASSUME NEW holds \in HeldChoices, Boot(holds)
        PROVE  (Unmigrated /\ HoldsRegistry)'
    <3>1. holds = TRUE /\ registry' # NoFile
      BY <2>1, ContentIsAFile DEF Boot
    <3>2. QED
      BY <2>1, <3>1 DEF Boot
  <2>2. CASE Check
    BY <2>2 DEF Check
  <2>3. CASE CleanTmp \/ CreateTmp \/ CopyGrants \/ CopyPeers
    BY <2>3 DEF CleanTmp, CreateTmp, CopyGrants, CopyPeers
  <2>4. CASE RegistryBusy \/ Fault
    BY <2>4 DEF RegistryBusy, Fault
  <2>5. ~(CopyRingPeers \/ RenameTmp \/ DeleteGrants \/ DeletePeers \/ Attach
          \/ WriteRow \/ Quit)
    BY DEF CopyRingPeers, RenameTmp, DeleteGrants, DeletePeers, Attach, WriteRow, Quit
  <2>6. CASE UNCHANGED vars
    BY <2>6 DEF vars
  <2>7. QED
    BY <2>1, <2>2, <2>3, <2>4, <2>5, <2>6 DEF Next, Migrate
<1>3. QED
  BY <1>1, <1>2, LocalStoreTypeHolds, PTL DEF Spec
=============================================================================
