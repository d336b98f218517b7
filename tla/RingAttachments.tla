-------------------------- MODULE RingAttachments --------------------------
(***************************************************************************)
(* The blob commands of the daemon that change which rings a blob belongs  *)
(* to: import, attach, detach and remove (daemon/server/handlers/blob.rs). *)
(*                                                                         *)
(* Every connection runs its handler in a task of its own on a             *)
(* multi-threaded runtime, so handlers interleave between any two calls to *)
(* the registry. Each registry call is one redb transaction: one action.   *)
(***************************************************************************)
EXTENDS Naturals

CONSTANTS
  Reqs,        \* request slots: how many handlers may be in flight at once
  Blobs,       \* blob hashes
  Rings,       \* named rings
  Open,        \* the built-in open ring (OPEN_RING_NAME)
  None,        \* an idle slot
  MaxFaults    \* bound on handler errors and daemon crashes

VARIABLES
  attached,    \* registry: attached[h] is the set of rings of blob h
  stored,      \* blobs that carry a named tag in the blob store
  req,         \* req[q]: the handler running in slot q, or None
  faults,      \* faults so far
  asked,       \* history: rings any request ever asked for, per blob
  wanted,      \* history: rings asked for and not cut since, per blob
  contested,   \* history: blobs whose requests overlap, or did until the last
               \* one; wanted starts afresh with a request that finds it quiet
  purged       \* history: blobs whose last request is a remove nobody overlapped

vars == <<attached, stored, req, faults, asked, wanted, contested, purged>>

AllRings == Rings \cup {Open}

(***************************************************************************)
(* A handler in flight. add and cut are what the request documents, todo   *)
(* is the loop's remaining work and pc the next registry call.             *)
(***************************************************************************)
Request ==
  [op : {"attach", "detach", "remove"}, blob : Blobs,
   add : SUBSET AllRings, cut : SUBSET AllRings,
   open : BOOLEAN, todo : SUBSET AllRings,
   pc : {"attach", "open", "read", "clear", "rewrite", "delete", "done"}]

Intent == [blob : Blobs, add : SUBSET AllRings, cut : SUBSET AllRings]

ASSUME AttachmentsAssumption ==
  /\ Open \notin Rings
  /\ None \notin Request \cup Intent
  /\ MaxFaults \in Nat

Init ==
  /\ attached = [h \in Blobs |-> {}]
  /\ stored = {}
  /\ req = [q \in Reqs |-> None]
  /\ faults = 0
  /\ asked = [h \in Blobs |-> {}]
  /\ wanted = [h \in Blobs |-> {}]
  /\ contested = {}
  /\ purged = {}

At(q, label) == req[q] # None /\ req[q].pc = label

\* The handler in slot q moves on, with todo left to do.
Advance(q, todo, label) ==
  req' = [req EXCEPT ![q] = [@ EXCEPT !.todo = todo, !.pc = label]]

Return(q) == req' = [req EXCEPT ![q] = None]

Busy(h) == \E q \in Reqs : req[q] # None /\ req[q].blob = h

-----------------------------------------------------------------------------
(* The registry's two writes on a resource (iroh-rings), one transaction each. *)

\* External: add_ring_to_resource, idempotent.
AddRingToResource(h, r) == attached' = [attached EXCEPT ![h] = @ \cup {r}]

\* External: remove_ring_from_resource, which drops every ring of the resource.
RemoveRingFromResource(h) == attached' = [attached EXCEPT ![h] = {}]

-----------------------------------------------------------------------------
(* Requests arriving: the handler up to its first registry call. *)

\* handlers/mod.rs resolve_target: an existing path is imported (and tagged),
\* anything else is parsed as a hash and leaves the store alone.
ResolveTarget(h) == stored' \in {stored \cup {h}, stored}

\* The rings an import or a detach speaks of: `open` overrides `rings`.
Chosen(R, open) == IF open THEN {Open} ELSE R

Launch(q, r) ==
  /\ req[q] = None
  /\ req' = [req EXCEPT ![q] = r]
  /\ asked' = [asked EXCEPT ![r.blob] = @ \cup r.add]
  /\ contested' = IF Busy(r.blob) THEN contested \cup {r.blob}
                  ELSE contested \ {r.blob}
  /\ wanted' = IF r.blob \in contested /\ ~Busy(r.blob)
               THEN [wanted EXCEPT ![r.blob] = attached[r.blob]] ELSE wanted
  /\ purged' = IF r.op = "remove" /\ ~Busy(r.blob)
               THEN purged \cup {r.blob} ELSE purged \ {r.blob}
  /\ UNCHANGED <<attached, faults>>

\* Mutant: an import that names no ring falls back to the open ring.
HandleImportDefaultsToOpen(q, h, R, open) ==
  LET effective == IF open \/ R = {} THEN {Open} ELSE R IN
  /\ Launch(q, [op |-> "attach", blob |-> h, add |-> Chosen(R, open),
                cut |-> {}, open |-> FALSE, todo |-> effective, pc |-> "attach"])
  /\ stored' = stored \cup {h}

\* handle_import: the blob is stored, then attached to [open] or to the rings.
HandleImport(q, h, R, open) ==
  LET effective == Chosen(R, open) IN
  /\ Launch(q, [op |-> "attach", blob |-> h, add |-> effective,
                cut |-> {}, open |-> FALSE, todo |-> effective,
                pc |-> IF effective = {} THEN "done" ELSE "attach"])
  /\ stored' = stored \cup {h}

\* handle_attach: refuses an empty request; the rings come first, then open,
\* which does not override them.
HandleAttach(q, h, R, open) ==
  /\ R # {} \/ open
  /\ Launch(q, [op |-> "attach", blob |-> h,
                add |-> R \cup (IF open THEN {Open} ELSE {}),
                cut |-> {}, open |-> open, todo |-> R,
                pc |-> IF R = {} THEN "open" ELSE "attach"])
  /\ ResolveTarget(h)

\* handle_detach with all = true: straight to the registry's removal.
HandleDetachAll(q, h) ==
  /\ Launch(q, [op |-> "detach", blob |-> h, add |-> {}, cut |-> AllRings,
                open |-> FALSE, todo |-> {}, pc |-> "clear"])
  /\ ResolveTarget(h)

\* handle_detach of named rings or of the open ring: a read-modify-write.
HandleDetach(q, h, R, open) ==
  /\ Launch(q, [op |-> "detach", blob |-> h, add |-> {},
                cut |-> Chosen(R, open),
                open |-> FALSE, todo |-> {}, pc |-> "read"])
  /\ ResolveTarget(h)

\* Mutant: the caller of delete_blob forgets the associations.
HandleBlobRemoveTagsOnly(q, h) ==
  /\ Launch(q, [op |-> "remove", blob |-> h, add |-> {}, cut |-> AllRings,
                open |-> FALSE, todo |-> {}, pc |-> "delete"])
  /\ ResolveTarget(h)

\* handle_blob_remove: associations first, then the tags.
HandleBlobRemove(q, h) ==
  /\ Launch(q, [op |-> "remove", blob |-> h, add |-> {}, cut |-> AllRings,
                open |-> FALSE, todo |-> {}, pc |-> "clear"])
  /\ ResolveTarget(h)

-----------------------------------------------------------------------------
(* The registry calls of the handlers in flight. *)

\* One turn of the attach loop of handle_import or handle_attach.
AttachRing(q) ==
  /\ At(q, "attach")
  /\ \E r \in req[q].todo :
       /\ AddRingToResource(req[q].blob, r)
       /\ wanted' = [wanted EXCEPT ![req[q].blob] = @ \cup {r}]
       /\ Advance(q, req[q].todo \ {r}, IF req[q].todo # {r} THEN "attach"
                                         ELSE IF req[q].open THEN "open"
                                         ELSE "done")
  /\ UNCHANGED <<stored, faults, asked, contested, purged>>

\* The open ring, attached after the named ones.
AttachOpen(q) ==
  /\ At(q, "open")
  /\ AddRingToResource(req[q].blob, Open)
  /\ wanted' = [wanted EXCEPT ![req[q].blob] = @ \cup {Open}]
  /\ Advance(q, {}, "done")
  /\ UNCHANGED <<stored, faults, asked, contested, purged>>

\* Mutant: the rings to drop are not filtered out of the ones to write back.
ReadCurrentKeepsAll(q) ==
  /\ At(q, "read")
  /\ IF attached[req[q].blob] \cap req[q].cut = {} THEN Return(q)
     ELSE Advance(q, attached[req[q].blob], "clear")
  /\ UNCHANGED <<attached, stored, faults, asked, wanted, contested, purged>>

\* Mutant: nothing is remembered to write back.
ReadCurrentForgetsRest(q) ==
  /\ At(q, "read")
  /\ IF attached[req[q].blob] \cap req[q].cut = {} THEN Return(q)
     ELSE Advance(q, {}, "clear")
  /\ UNCHANGED <<attached, stored, faults, asked, wanted, contested, purged>>

\* list_resource_rings of handle_detach, and what it decides: nothing to
\* remove is an error, otherwise the associations to keep are remembered.
ReadCurrent(q) ==
  LET current == attached[req[q].blob]
      remaining == current \ req[q].cut IN
  /\ At(q, "read")
  /\ IF current \cap req[q].cut = {} THEN Return(q)
     ELSE Advance(q, remaining, "clear")
  /\ UNCHANGED <<attached, stored, faults, asked, wanted, contested, purged>>

\* remove_ring_from_resource, of handle_detach or handle_blob_remove.
ClearRings(q) ==
  /\ At(q, "clear")
  /\ RemoveRingFromResource(req[q].blob)
  /\ wanted' = [wanted EXCEPT ![req[q].blob] = @ \ req[q].cut]
  /\ Advance(q, req[q].todo, IF req[q].op = "remove" THEN "delete"
                             ELSE IF req[q].todo = {} THEN "done"
                             ELSE "rewrite")
  /\ UNCHANGED <<stored, faults, asked, contested, purged>>

\* Mutant: the whole list of remaining rings is written as one ring.
RewriteRingAsList(q) ==
  /\ At(q, "rewrite")
  /\ AddRingToResource(req[q].blob, req[q].todo)
  /\ Advance(q, {}, "done")
  /\ UNCHANGED <<stored, faults, asked, wanted, contested, purged>>

\* One turn of handle_detach's loop that writes the remaining rings back.
RewriteRing(q) ==
  /\ At(q, "rewrite")
  /\ \E r \in req[q].todo :
       /\ AddRingToResource(req[q].blob, r)
       /\ Advance(q, req[q].todo \ {r},
                  IF req[q].todo = {r} THEN "done" ELSE "rewrite")
  /\ UNCHANGED <<stored, faults, asked, wanted, contested, purged>>

\* Node::delete_blob: every tag of the blob goes; no tag at all is an error.
DeleteTags(q) ==
  LET h == req[q].blob IN
  /\ At(q, "delete")
  /\ stored' = stored \ {h}
  /\ IF h \in stored THEN Advance(q, {}, "done") ELSE Return(q)
  /\ UNCHANGED <<attached, faults, asked, wanted, contested, purged>>

\* The Done event is sent and the handler returns.
Finish(q) ==
  /\ At(q, "done")
  /\ Return(q)
  /\ UNCHANGED <<attached, stored, faults, asked, wanted, contested, purged>>

-----------------------------------------------------------------------------
(* Faults. *)

\* A remove that dies before its first write has removed nothing.
Unstarted(Q) == {req[q].blob : q \in {p \in Q : At(p, "clear")}}

\* A store call returns an error: `?` ends the handler, nothing is undone.
HandlerFails(q) ==
  /\ req[q] # None
  /\ req[q].pc # "done"
  /\ faults < MaxFaults
  /\ faults' = faults + 1
  /\ Return(q)
  /\ purged' = purged \ Unstarted({q})
  /\ UNCHANGED <<attached, stored, asked, wanted, contested>>

\* The daemon dies and is restarted: committed transactions survive.
Crash ==
  /\ faults < MaxFaults
  /\ faults' = faults + 1
  /\ req' = [q \in Reqs |-> None]
  /\ purged' = purged \ Unstarted(Reqs)
  /\ UNCHANGED <<attached, stored, asked, wanted, contested>>

Arrives(q) ==
  \E h \in Blobs :
    \/ \E R \in SUBSET AllRings, open \in BOOLEAN : HandleImport(q, h, R, open)
    \/ \E R \in SUBSET AllRings, open \in BOOLEAN : HandleAttach(q, h, R, open)
    \/ \E R \in SUBSET AllRings, open \in BOOLEAN : HandleDetach(q, h, R, open)
    \/ HandleDetachAll(q, h)
    \/ HandleBlobRemove(q, h)

Step(q) ==
  \/ AttachRing(q)
  \/ AttachOpen(q)
  \/ ReadCurrent(q)
  \/ ClearRings(q)
  \/ RewriteRing(q)
  \/ DeleteTags(q)
  \/ Finish(q)

Next ==
  \/ \E q \in Reqs : Arrives(q) \/ Step(q) \/ HandlerFails(q)
  \/ Crash

Spec == Init /\ [][Next]_vars

-----------------------------------------------------------------------------
(* Properties. *)

\* The variables keep their types.
TypeOK ==
  /\ attached \in [Blobs -> SUBSET AllRings]
  /\ stored \in SUBSET Blobs
  /\ req \in [Reqs -> Request \cup {None}]
  /\ faults \in Nat
  /\ asked \in [Blobs -> SUBSET AllRings]
  /\ wanted \in [Blobs -> SUBSET AllRings]
  /\ contested \in SUBSET Blobs
  /\ purged \in SUBSET Blobs

\* Access is closed by default: a blob is only ever associated with rings
\* some import or attach request for that blob asked for. The
\* read-modify-write of handle_detach, racing with anything, must not break it.
OnlyRequested == \A h \in Blobs : attached[h] \subseteq asked[h]

\* Detaching is final: no association survives, or comes back after, a detach
\* or remove that cut it, unless a later attach asks for it again. Errors and
\* crashes in the middle of handle_detach may narrow access, never widen it.
\* The code has it for blobs whose requests do not overlap.
DetachFinal == \A h \in Blobs \ contested : attached[h] \subseteq wanted[h]

\* The same for every blob, which is what handle_detach claims: "the daemon
\* serialises requests so concurrent modification is not a concern".
FailClosed == \A h \in Blobs : attached[h] \subseteq wanted[h]

\* A removed blob is served to nobody: once a remove that no other request on
\* the blob overlapped is over, even if it failed between the associations and
\* the tags, the blob has no association until a later request names it.
RemovedUnserved == \A h \in purged : ~Busy(h) => attached[h] = {}

\* Associations a detach in flight has read, cleared and not yet written back.
Pending(h) ==
  UNION {req[q].todo : q \in {p \in Reqs : At(p, "rewrite") /\ req[p].blob = h}}

Policy == INSTANCE AccessPolicy WITH
  policy <- [h \in Blobs |-> attached[h] \cup Pending(h)],
  doing <- [q \in Reqs |->
              IF req[q] = None THEN None
              ELSE [blob |-> req[q].blob, add |-> req[q].add, cut |-> req[q].cut]]

\* The handlers implement AccessPolicy: a detach takes its rings away at one
\* instant and nothing else, whatever transactions handle_detach makes of it,
\* unless another request on the blob overlaps with it.
PolicyRefined == Policy!PolicySpec
=============================================================================
