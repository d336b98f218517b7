------------------------------ MODULE Transfer ------------------------------
(***************************************************************************)
(* Receiving a blob: handle_receive (handlers/receive.rs), download_impl   *)
(* (core/node.rs) and RingReceiver (core/protocol/rings.rs), against a     *)
(* sender whose gate may change its mind, a connection that may break, a   *)
(* garbage collector that runs all the time, and a daemon that may die.    *)
(* All receives are for one ticket and one destination.                    *)
(***************************************************************************)
EXTENDS Naturals

CONSTANTS
  Recvs,     \* request slots
  Root,      \* the blob of the ticket
  Meta,      \* of a collection: the names of its files
  Files,     \* of a collection: its files
  Chunks,    \* chunks of each blob
  MaxFaults  \* bound on broken connections, store errors and daemon crashes

ASSUME TransferAssumption ==
  /\ Root # Meta
  /\ {Root, Meta} \cap Files = {}
  /\ Chunks \in Nat \ {0}
  /\ MaxFaults \in Nat

VARIABLES
  format,   \* of the ticket: "Raw" or "HashSeq"
  have,     \* have[b]: verified chunks of b in the receiver's store
  guards,   \* slots that hold a temporary tag on the root
  recv,     \* recv[q]: the receive in slot q
  allowed,  \* does the sender's gate let this peer read the blob?
  there,    \* there[p]: what is at place p of the file system
  faults

world == <<format, allowed, there>>
vars == <<format, have, guards, recv, allowed, there, faults>>

\* The destination that handle_receive announces, and the ticket's name inside
\* of it, in case it is a directory.
Places == {"dest", "nested"}

Blobs == {Root, Meta} \cup Files

\* What ends up at the destination.
Targets == IF format = "Raw" THEN {Root} ELSE Files

Idle == [pc |-> "idle", blob |-> Root, pos |-> 0, todo |-> {},
         place |-> "dest"]

Complete(b) == have[b] = Chunks

Init ==
  /\ format \in {"Raw", "HashSeq"}
  /\ have = [b \in Blobs |-> 0]
  /\ guards = {}
  /\ recv = [q \in Recvs |-> Idle]
  /\ allowed \in BOOLEAN
  /\ \E kind \in {"none", "file", "dir"} :
       /\ there = [p \in Places |-> IF p = "dest" THEN kind ELSE "none"]
  /\ faults = 0

At(q, label) == recv[q].pc = label

Goto(q, label) == recv' = [recv EXCEPT ![q].pc = label]

\* The receive is over; its temporary tag goes with it.
Return(q) ==
  /\ recv' = [recv EXCEPT ![q] = Idle]
  /\ guards' = guards \ {q}

-----------------------------------------------------------------------------
(* handle_receive and download_impl, up to the connection. *)

\* check_dest, check_dir_dest: an existing destination needs force_overwrite.
HandleReceive(q, force) ==
  /\ At(q, "idle")
  /\ there["dest"] = "none" \/ force
  /\ recv' = [recv EXCEPT ![q] = [Idle EXCEPT !.pc = "status"]]
  /\ UNCHANGED <<world, have, guards, faults>>

\* A raw blob that is complete is exported at once, without a temporary tag.
CheckStatus(q) ==
  /\ At(q, "status")
  /\ recv' = [recv EXCEPT
       ![q].pc = IF format = "Raw" /\ Complete(Root) THEN "export" ELSE "guard",
       ![q].todo = IF format = "Raw" /\ Complete(Root) THEN Targets ELSE {}]
  /\ UNCHANGED <<world, have, guards, faults>>

\* Mutant: the tag is taken when the root has been fetched.
GuardLater(q) ==
  /\ At(q, "guard")
  /\ guards' = IF Complete(Root) THEN guards \cup {q} ELSE guards
  /\ recv' = [recv EXCEPT ![q].pc = "next", ![q].blob = Root]
  /\ UNCHANGED <<world, have, faults>>

\* The temporary tag for the duration of the download; then the connection.
Guard(q) ==
  /\ At(q, "guard")
  /\ guards' = guards \cup {q}
  /\ recv' = [recv EXCEPT ![q].pc = "next", ![q].blob = Root]
  /\ UNCHANGED <<world, have, faults>>

-----------------------------------------------------------------------------
(* RingReceiver. *)

\* download: what follows once the current blob is there. The root of a
\* collection gives the metadata blob, and that one the files, in a fixed order.
Onward(q) ==
  LET r == recv[q]
      todo == IF r.blob = Meta THEN Files ELSE r.todo
      f == CHOOSE x \in todo : TRUE
  IN IF r.blob = Root /\ format = "HashSeq"
     THEN [r EXCEPT !.pc = "next", !.blob = Meta, !.pos = 0]
     ELSE IF format = "Raw" \/ todo = {}
     THEN [r EXCEPT !.pc = "export", !.pos = 0, !.todo = Targets]
     ELSE [r EXCEPT !.pc = "next", !.blob = f, !.pos = 0, !.todo = todo \ {f}]

\* fetch_blob: a blob that is complete is skipped.
SkipBlob(q) ==
  /\ At(q, "next")
  /\ Complete(recv[q].blob)
  /\ recv' = [recv EXCEPT ![q] = Onward(q)]
  /\ UNCHANGED <<world, have, guards, faults>>

\* Otherwise it is asked for, all of its chunks, and the gate answers.
RequestBlob(q) ==
  /\ At(q, "next")
  /\ ~Complete(recv[q].blob)
  /\ IF allowed THEN Goto(q, "stream") /\ UNCHANGED guards ELSE Return(q)
  /\ UNCHANGED <<world, have, faults>>

\* Mutant: a chunk may follow the last one.
ReceiveChunkMore(q) ==
  LET b == recv[q].blob
      pos == recv[q].pos + 1 IN
  /\ At(q, "stream")
  /\ recv' = [recv EXCEPT ![q].pos = pos]
  /\ have' = [have EXCEPT ![b] = IF pos > @ THEN pos ELSE @]
  /\ UNCHANGED <<world, guards, faults>>

\* Mutant: only a chunk that the store misses counts as received.
ReceiveChunkMissing(q) ==
  LET b == recv[q].blob
      pos == recv[q].pos + 1 IN
  /\ At(q, "stream")
  /\ recv[q].pos < Chunks
  /\ have[b] < pos
  /\ recv' = [recv EXCEPT ![q].pos = pos]
  /\ have' = [have EXCEPT ![b] = pos]
  /\ UNCHANGED <<world, guards, faults>>

\* One chunk is decoded, verified and stored.
ReceiveChunk(q) ==
  LET b == recv[q].blob
      pos == recv[q].pos + 1 IN
  /\ At(q, "stream")
  /\ recv[q].pos < Chunks
  /\ recv' = [recv EXCEPT ![q].pos = pos]
  /\ have' = [have EXCEPT ![b] = IF pos > @ THEN pos ELSE @]
  /\ UNCHANGED <<world, guards, faults>>

\* The stream has ended, and so has the import.
BlobReceived(q) ==
  /\ At(q, "stream")
  /\ recv[q].pos = Chunks
  /\ recv' = [recv EXCEPT ![q] = Onward(q)]
  /\ UNCHANGED <<world, have, guards, faults>>

\* export: a destination that is a directory by now is written into; the
\* directory of a collection is made, unless a file is in its way.
OpenDest(q) ==
  LET place == IF there["dest"] = "dir" THEN "nested" ELSE "dest" IN
  /\ At(q, "export")
  /\ IF format = "HashSeq" /\ there[place] = "file"
     THEN Return(q) /\ UNCHANGED there
     ELSE /\ recv' = [recv EXCEPT ![q].pc = "write", ![q].place = place]
          /\ there' = IF format = "HashSeq" THEN [there EXCEPT ![place] = "dir"]
                      ELSE there
          /\ UNCHANGED guards
  /\ UNCHANGED <<format, have, allowed, faults>>

\* One file is written, over whatever is in its place by now.
WriteOver(q) ==
  there' = IF format = "Raw" THEN [there EXCEPT ![recv[q].place] = "file"]
           ELSE there

\* Mutant: what is in the store of a file is written, were it a part of it.
ExportFilePart(q) ==
  /\ At(q, "write")
  /\ format = "Raw" => there[recv[q].place] # "dir"
  /\ \E f \in recv[q].todo : recv' = [recv EXCEPT ![q].todo = @ \ {f}]
  /\ WriteOver(q)
  /\ UNCHANGED <<format, have, guards, allowed, faults>>

\* export: one file.
ExportFile(q) ==
  /\ At(q, "write")
  /\ format = "Raw" => there[recv[q].place] # "dir"
  /\ \E f \in recv[q].todo :
       /\ Complete(f)
       /\ recv' = [recv EXCEPT ![q].todo = @ \ {f}]
  /\ WriteOver(q)
  /\ UNCHANGED <<format, have, guards, allowed, faults>>

\* A blob that was collected meanwhile cannot be exported, nor can a file take
\* the place of a directory.
ExportFails(q) ==
  /\ At(q, "write")
  /\ \E f \in recv[q].todo :
       \/ ~Complete(f)
       \/ format = "Raw" /\ there[recv[q].place] = "dir"
  /\ Return(q)
  /\ UNCHANGED <<world, have, faults>>

\* "Transfer complete."
Finish(q) ==
  /\ At(q, "write")
  /\ recv[q].todo = {}
  /\ Return(q)
  /\ UNCHANGED <<world, have, faults>>

-----------------------------------------------------------------------------
(* The environment. *)

\* The connection breaks or times out, or the store or the disk fails.
Fail(q) ==
  /\ ~At(q, "idle")
  /\ faults < MaxFaults
  /\ faults' = faults + 1
  /\ Return(q)
  /\ UNCHANGED <<world, have>>

\* The daemon dies and is restarted; verified chunks are on disk.
Crash ==
  /\ faults < MaxFaults
  /\ faults' = faults + 1
  /\ recv' = [q \in Recvs |-> Idle]
  /\ guards' = {}
  /\ UNCHANGED <<world, have>>

\* External: what a tag on the root protects; the members of a collection are
\* found through its complete root.
Live ==
  IF guards = {} THEN {}
  ELSE IF format = "HashSeq" /\ Complete(Root) THEN Blobs
  ELSE {Root}

\* External: the store's garbage collector deletes an unprotected blob.
Collect(b) ==
  /\ b \notin Live
  /\ have[b] > 0
  /\ have' = [have EXCEPT ![b] = 0]
  /\ UNCHANGED <<world, guards, recv, faults>>

\* External: the sender attaches, detaches, adds or removes members.
GateChanges ==
  /\ allowed' = ~allowed
  /\ UNCHANGED <<format, have, guards, recv, there, faults>>

\* External: somebody uses the destination path.
UserWrites ==
  /\ \E p \in Places, kind \in {"file", "dir"} :
       /\ there[p] = "none"
       /\ p = "nested" => there["dest"] = "dir"
       /\ there' = [there EXCEPT ![p] = kind]
  /\ UNCHANGED <<format, have, guards, recv, allowed, faults>>

\* External: somebody clears the destination, with no receive running.
UserMoves ==
  /\ there["dest"] # "none"
  /\ \A q \in Recvs : At(q, "idle")
  /\ there' = [p \in Places |-> "none"]
  /\ UNCHANGED <<format, have, guards, recv, allowed, faults>>

Step(q) ==
  \/ CheckStatus(q)
  \/ Guard(q)
  \/ SkipBlob(q)
  \/ RequestBlob(q)
  \/ ReceiveChunk(q)
  \/ BlobReceived(q)
  \/ OpenDest(q)
  \/ ExportFile(q)
  \/ ExportFails(q)
  \/ Finish(q)

Running ==
  \/ \E q \in Recvs :
       \/ \E force \in BOOLEAN : HandleReceive(q, force)
       \/ Step(q)
       \/ Fail(q)
  \/ \E b \in Blobs : Collect(b)
  \/ GateChanges
  \/ UserWrites
  \/ UserMoves

Next == Running \/ Crash

\* The runtime runs every receive on; a connection that gives nothing any more
\* times out, which is a Fail and counted: chunks keep coming otherwise.
Fairness == \A q \in Recvs : WF_vars(Step(q))

Spec == Init /\ [][Next]_vars /\ Fairness

-----------------------------------------------------------------------------
(* Properties. *)

\* The variables keep their types.
TypeOK ==
  /\ format \in {"Raw", "HashSeq"}
  /\ have \in [Blobs -> 0 .. Chunks]
  /\ guards \in SUBSET Recvs
  /\ recv \in [Recvs ->
       [pc : {"idle", "status", "guard", "next", "stream", "export",
              "write"},
        blob : Blobs, pos : 0 .. Chunks,
        todo : SUBSET Blobs, place : Places]]
  /\ allowed \in BOOLEAN
  /\ there \in [Places -> {"none", "file", "dir"}]
  /\ faults \in 0 .. MaxFaults

\* The temporary tag does its job (download_impl: "so GC doesn't unlink the
\* partial .data file while we're writing it"): nothing a receive has fetched is
\* collected while it goes on, be it the blob it is streaming or the root and
\* the metadata that its later blobs depend on.
GuardKeeps ==
  \A q \in Recvs :
    /\ At(q, "stream") => have[recv[q].blob] >= recv[q].pos
    /\ recv[q].blob # Root => Complete(Root)
    /\ recv[q].blob \in Files => Complete(Meta)

\* A file of the receive in slot q is written in this step.
Writes(q) ==
  /\ At(q, "write")
  /\ recv'[q].pc = "write"
  /\ recv'[q].todo # recv[q].todo

\* A receive writes all or nothing as far as the store can tell: no file of the
\* ticket is exported unless every one of them is whole at that moment (download
\* exports last, and the temporary tag or, on the fast path, the store's own
\* check of a single blob keeps garbage collection out).
AllOrNothing ==
  [][\A q \in Recvs : Writes(q) => \A f \in Targets : Complete(f)]_vars

\* Every receive ends, whatever the garbage collector, the sender's gate and
\* other receives of the same blob do (fetch_blob joins the decoder with the
\* store's import, which must see the end of the stream).
ReceiveEnds == \A q \in Recvs : At(q, "status") ~> At(q, "idle")
=============================================================================
