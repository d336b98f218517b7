----------------------------- MODULE BlobStore -----------------------------
(***************************************************************************)
(* What a node keeps: import_file, import_directory and delete_blob of     *)
(* core/node.rs over the blob store, whose garbage collector deletes every *)
(* blob that no tag protects and which writes its database in batches.     *)
(* Handlers run concurrently; each call to the store is one action.        *)
(*                                                                         *)
(* A blob is its hash. A path that is imported is the blob it hashes to    *)
(* and the name the tag gets, its last component.                          *)
(***************************************************************************)
EXTENDS Naturals

CONSTANTS
  Slots,      \* request slots: how many handlers may be in flight at once
  Files,      \* blobs of single files
  Colls,      \* root blobs of collections
  Members,    \* Members[c]: the files of collection c
  Names,      \* file and directory names, the keys of tags
  None,       \* no tag, or an idle slot
  MaxFaults   \* bound on handler errors and killed daemons

Blobs == Files \cup Colls

ASSUME BlobStoreAssumption ==
  /\ Files \cap Colls = {}
  /\ Members \in [Colls -> SUBSET Files]
  /\ None \notin Blobs
  /\ MaxFaults \in Nat

VARIABLES
  complete,   \* blobs whose content is in the store
  tags,       \* tags[n]: the blob that tag n pins, or None
  saved,      \* the store's database as of its last committed batch
  temp,       \* temp[q]: what the temporary tags of the request in q protect
  op,         \* op[q]: the request in slot q
  faults,
  pins,       \* history: pins[n] is the blob of the last import under name n
              \* that was answered, until a remove finds it or a kill loses it
  raced       \* history: names that were set while a remove that had listed
              \* them, or that removes their new blob, was deleting

store == <<complete, tags>>
vars == <<store, saved, temp, op, faults, pins, raced>>

(***************************************************************************)
(* A request. remove: it removes the blob (after importing it, when its    *)
(* target is a path). todo: the files import_directory has still to add;   *)
(* names: the tags delete_blob has still to delete.                        *)
(***************************************************************************)
Request ==
  [pc : {"idle", "add", "member", "tag", "list", "delete"},
   blob : Blobs \cup {None}, name : Names \cup {None}, remove : BOOLEAN,
   todo : SUBSET Files, names : SUBSET Names]

Idle == [pc |-> "idle", blob |-> None, name |-> None, remove |-> FALSE,
         todo |-> {}, names |-> {}]

Init ==
  /\ complete = {}
  /\ tags = [n \in Names |-> None]
  /\ saved = [complete |-> {}, tags |-> [n \in Names |-> None]]
  /\ temp = [q \in Slots |-> {}]
  /\ op = [q \in Slots |-> Idle]
  /\ faults = 0
  /\ pins = [n \in Names |-> None]
  /\ raced = {}

At(q, label) == op[q].pc = label

\* The handler returns, and its temporary tags are dropped.
Return(q) ==
  /\ op' = [op EXCEPT ![q] = Idle]
  /\ temp' = [temp EXCEPT ![q] = {}]

-----------------------------------------------------------------------------
(* Requests arriving. *)

\* import_path: a file or a directory, for handle_import or resolve_target.
ImportPath(q, b, n, remove) ==
  /\ At(q, "idle")
  /\ op' = [op EXCEPT ![q] =
       [Idle EXCEPT !.blob = b, !.name = n, !.remove = remove,
                    !.pc = IF b \in Files THEN "add" ELSE "member",
                    !.todo = IF b \in Files THEN {} ELSE Members[b]]]
  /\ UNCHANGED <<store, saved, temp, faults, pins, raced>>

\* handle_blob_remove of a hash.
BlobRemove(q, b) ==
  /\ At(q, "idle")
  /\ op' = [op EXCEPT ![q] = [Idle EXCEPT !.blob = b, !.remove = TRUE,
                                          !.pc = "list"]]
  /\ UNCHANGED <<store, saved, temp, faults, pins, raced>>

-----------------------------------------------------------------------------
(* import_file and import_directory. *)

\* Mutant: the temporary tag of the file is dropped at once.
AddPathUnheld(q) ==
  /\ At(q, "add")
  /\ complete' = complete \cup {op[q].blob}
  /\ op' = [op EXCEPT ![q].pc = "tag"]
  /\ UNCHANGED <<tags, saved, temp, faults, pins, raced>>

\* import_file: the file is hashed and added, under a temporary tag.
AddPath(q) ==
  /\ At(q, "add")
  /\ complete' = complete \cup {op[q].blob}
  /\ temp' = [temp EXCEPT ![q] = {op[q].blob}]
  /\ op' = [op EXCEPT ![q].pc = "tag"]
  /\ UNCHANGED <<tags, saved, faults, pins, raced>>

\* One turn of import_directory's loop. The file's temporary tag is a variable
\* of the loop's body: the turn ends without it.
AddMember(q) ==
  /\ At(q, "member")
  /\ \E f \in op[q].todo :
       /\ complete' = complete \cup {f}
       /\ op' = [op EXCEPT ![q].todo = @ \ {f}]
  /\ UNCHANGED <<tags, saved, temp, faults, pins, raced>>

\* Mutant: the temporary tag of the collection is dropped at once.
StoreCollectionUnheld(q) ==
  /\ At(q, "member")
  /\ op[q].todo = {}
  /\ complete' = complete \cup {op[q].blob}
  /\ op' = [op EXCEPT ![q].pc = "tag"]
  /\ UNCHANGED <<tags, saved, temp, faults, pins, raced>>

\* collection.store, under a temporary tag. It does not look at the members.
StoreCollection(q) ==
  /\ At(q, "member")
  /\ op[q].todo = {}
  /\ complete' = complete \cup {op[q].blob}
  /\ temp' = [temp EXCEPT ![q] = {op[q].blob}]
  /\ op' = [op EXCEPT ![q].pc = "tag"]
  /\ UNCHANGED <<tags, saved, faults, pins, raced>>

\* Does a remove in flight concern name n, about to be set to b?
Deleting(n, b) ==
  \E q \in Slots : At(q, "delete") /\ (n \in op[q].names \/ op[q].blob = b)

\* Mutant: key and value are swapped.
SetTagSwapped(q) ==
  LET n == op[q].name
      b == op[q].blob IN
  /\ At(q, "tag")
  /\ tags' = [tags EXCEPT ![n] = n]
  /\ pins' = [pins EXCEPT ![n] = b]
  /\ raced' = IF Deleting(n, b) THEN raced \cup {n} ELSE raced \ {n}
  /\ Return(q)
  /\ UNCHANGED <<complete, saved, faults>>

\* The tag is set, over whatever it was. The import returns, to its answer or
\* to the remove whose target the path is.
SetTag(q) ==
  LET n == op[q].name
      b == op[q].blob IN
  /\ At(q, "tag")
  /\ tags' = [tags EXCEPT ![n] = b]
  /\ pins' = [pins EXCEPT ![n] = b]
  /\ raced' = IF Deleting(n, b) THEN raced \cup {n} ELSE raced \ {n}
  /\ IF op[q].remove
     THEN /\ op' = [op EXCEPT ![q].pc = "list"]
          /\ temp' = [temp EXCEPT ![q] = {}]
     ELSE Return(q)
  /\ UNCHANGED <<complete, saved, faults>>

-----------------------------------------------------------------------------
(* delete_blob. *)

Tagged(b) == {n \in Names : tags[n] = b}

\* Mutant: one tag of the blob is enough.
ListTagsFirst(q) ==
  LET found == Tagged(op[q].blob) IN
  /\ At(q, "list")
  /\ pins' = [n \in Names |-> IF n \in found THEN None ELSE pins[n]]
  /\ IF found = {} THEN Return(q)
     ELSE /\ \E n \in found :
               op' = [op EXCEPT ![q].pc = "delete", ![q].names = {n}]
          /\ UNCHANGED temp
  /\ UNCHANGED <<store, saved, faults, raced>>

\* The names of the tags on the blob; none at all is an error.
ListTags(q) ==
  LET found == Tagged(op[q].blob) IN
  /\ At(q, "list")
  /\ pins' = [n \in Names |-> IF n \in found THEN None ELSE pins[n]]
  /\ IF found = {} THEN Return(q)
     ELSE /\ op' = [op EXCEPT ![q].pc = "delete", ![q].names = found]
          /\ UNCHANGED temp
  /\ UNCHANGED <<store, saved, faults, raced>>

\* One turn of the loop: a tag goes by its name, whatever it pins by now.
DeleteTag(q) ==
  /\ At(q, "delete")
  /\ \E n \in op[q].names :
       /\ tags' = [tags EXCEPT ![n] = None]
       /\ op' = [op EXCEPT ![q].names = @ \ {n}]
  /\ UNCHANGED <<complete, saved, temp, faults, pins, raced>>

\* "Removed".
Removed(q) ==
  /\ At(q, "delete")
  /\ op[q].names = {}
  /\ Return(q)
  /\ UNCHANGED <<store, saved, faults, pins, raced>>

-----------------------------------------------------------------------------
(* The blob store (iroh-blobs) and the process it lives in. *)

\* External: a tag protects its blob and, of a complete collection, the members.
Protected(b) ==
  LET roots == ({tags[n] : n \in Names} \ {None}) \cup UNION {temp[q] : q \in Slots}
  IN \/ b \in roots
     \/ \E c \in roots \cap Colls : c \in complete /\ b \in Members[c]

\* External: the garbage collector, every 30 s, deletes what is not protected.
Collect(b) ==
  /\ b \in complete
  /\ ~Protected(b)
  /\ complete' = complete \ {b}
  /\ UNCHANGED <<tags, saved, temp, op, faults, pins, raced>>

\* External: the store commits a batch.
Commit ==
  /\ saved' = [complete |-> complete, tags |-> tags]
  /\ UNCHANGED <<store, temp, op, faults, pins, raced>>

\* The store call of a handler fails, or a file cannot be read: nothing is undone.
HandlerFails(q) ==
  /\ ~At(q, "idle")
  /\ faults < MaxFaults
  /\ faults' = faults + 1
  /\ Return(q)
  /\ UNCHANGED <<store, saved, pins, raced>>

\* What a start finds: no request, no temporary tag, the last committed batch.
Restart ==
  /\ complete' = saved'.complete
  /\ tags' = saved'.tags
  /\ op' = [q \in Slots |-> Idle]
  /\ temp' = [q \in Slots |-> {}]

\* The daemon is killed and started again: what was not committed is lost.
Kill ==
  /\ faults < MaxFaults
  /\ faults' = faults + 1
  /\ UNCHANGED saved
  /\ Restart
  /\ pins' = [n \in Names |-> IF saved.tags[n] = pins[n] THEN pins[n] ELSE None]
  /\ UNCHANGED raced

\* Mutant: shutdown does not wait for the store.
ShutdownUnsynced ==
  /\ \A q \in Slots : At(q, "idle")
  /\ UNCHANGED saved
  /\ Restart
  /\ UNCHANGED <<faults, pins, raced>>

\* Node::shutdown, with no request left, and the next start: sync_db commits
\* everything first.
Shutdown ==
  /\ \A q \in Slots : At(q, "idle")
  /\ saved' = [complete |-> complete, tags |-> tags]
  /\ Restart
  /\ UNCHANGED <<faults, pins, raced>>

Arrives(q) ==
  \/ \E b \in Blobs, n \in Names, remove \in BOOLEAN : ImportPath(q, b, n, remove)
  \/ \E b \in Blobs : BlobRemove(q, b)

Step(q) ==
  \/ AddPath(q)
  \/ AddMember(q)
  \/ StoreCollection(q)
  \/ SetTag(q)
  \/ ListTags(q)
  \/ DeleteTag(q)
  \/ Removed(q)

Next ==
  \/ \E q \in Slots : Arrives(q) \/ Step(q) \/ HandlerFails(q)
  \/ \E b \in Blobs : Collect(b)
  \/ Commit
  \/ Kill
  \/ Shutdown

Spec == Init /\ [][Next]_vars

-----------------------------------------------------------------------------
(* Properties. *)

\* The variables keep their types.
TypeOK ==
  /\ complete \in SUBSET Blobs
  /\ tags \in [Names -> Blobs \cup {None}]
  /\ saved \in [complete : SUBSET Blobs, tags : [Names -> Blobs \cup {None}]]
  /\ temp \in [Slots -> SUBSET Blobs]
  /\ op \in [Slots -> Request]
  /\ faults \in Nat
  /\ pins \in [Names -> Blobs \cup {None}]
  /\ raced \in SUBSET Names

\* An import that was answered is kept: its name pins its blob, and the blob is
\* in the store, through every collection, graceful restart and other request,
\* until a remove finds it or another import takes its name (import_file:
\* "Persist: replace temp tag with a named tag so GC won't collect this blob";
\* Node::shutdown: "data is durable before we exit"). Exempt is a name that is
\* set while delete_blob deletes by name.
Kept ==
  \A n \in Names \ raced :
    pins[n] # None => tags[n] = pins[n] /\ pins[n] \in complete

\* A remove that is answered leaves no tag on its blob, under any name, but for
\* names that were set meanwhile: the blob's space can be reclaimed.
RemoveComplete ==
  [][\A q \in Slots :
       At(q, "delete") /\ op[q].names = {} /\ op'[q] = Idle /\ UNCHANGED faults
         => Tagged(op[q].blob) \subseteq raced]_vars

\* No name resolves to a blob that is not there, raced or not, and the database
\* that a killed daemon comes back with has no such name either: an import holds
\* its blob by a temporary tag from the store to the tag that persists it
\* (import_file, import_directory: "replace temp tag with a named tag").
NoDangling ==
  /\ \A n \in Names : tags[n] # None => tags[n] \in complete
  /\ \A n \in Names : saved.tags[n] # None => saved.tags[n] \in saved.complete

\* What import_directory says of a directory that it has imported ("named tag on
\* the collection; GC follows HashSeq refs to keep member blobs"): its members
\* are in the store.
MembersKept ==
  \A n \in Names \ raced :
    pins[n] \in Colls => Members[pins[n]] \subseteq complete
=============================================================================
