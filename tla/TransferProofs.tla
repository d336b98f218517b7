--------------------------- MODULE TransferProofs ---------------------------
(***************************************************************************)
(* Proofs about Transfer and Progress, for any receives, files, chunks and *)
(* faults. The inductive invariant of Transfer says of each receive what   *)
(* it has fetched so far and that its temporary tag is set, which keeps    *)
(* the collector off; that of Progress where the files of the watched      *)
(* receive are between the callback and the display.                       *)
(***************************************************************************)
EXTENDS Progress, SequenceTheorems, TLAPS

\* Where a receive is, and that it holds its tag while it depends on it. The
\* fast path of a raw blob has none.
Placed(q) ==
  /\ recv[q].pc \in {"idle", "status", "guard"} => recv[q].blob = Root
  /\ recv[q].pc \in {"status", "guard", "next"} => recv[q].pos = 0
  /\ recv[q].pc \in {"next", "stream"} => q \in guards
  /\ recv[q].pc \in {"export", "write"} => recv[q].todo \subseteq Targets
  /\ recv[q].blob # Root => format = "HashSeq" /\ q \in guards
  /\ format = "HashSeq" /\ recv[q].pc \in {"export", "write"} => q \in guards

\* What a receive has fetched.
Fetched(q) ==
  /\ At(q, "stream") => have[recv[q].blob] >= recv[q].pos
  /\ recv[q].blob # Root => Complete(Root)
  /\ recv[q].blob \in Files => Complete(Meta)
  /\ recv[q].blob \in Files /\ recv[q].pc \in {"next", "stream"} =>
       \A f \in Files : f \in recv[q].todo \/ f = recv[q].blob \/ Complete(f)
  /\ format = "HashSeq" /\ recv[q].pc \in {"export", "write"} =>
       Complete(Root) /\ \A f \in Files : Complete(f)

Good(q) == Placed(q) /\ Fetched(q)

\* The inductive invariant.
Inv == TypeOK /\ \A q \in Recvs : Good(q)

-----------------------------------------------------------------------------
(* What the steps have in common. *)

Receive ==
  [pc : {"idle", "status", "guard", "next", "stream", "export", "write"},
   blob : Blobs, pos : 0 .. Chunks, todo : SUBSET Blobs, place : Places]

\* What is complete stays so, unless it is collected.
LEMMA CompleteStays ==
  ASSUME TypeOK, TypeOK', \A b \in Blobs : have'[b] >= have[b],
         NEW b \in Blobs, Complete(b)
  PROVE  Complete(b)'
BY TransferAssumption DEF TypeOK, Complete

\* A receive that stays where it is keeps what it has.
LEMMA OthersKeep ==
  ASSUME Inv, TypeOK', \A b \in Blobs : have'[b] >= have[b], format' = format,
         NEW d \in Recvs, recv'[d] = recv[d], d \in guards => d \in guards'
  PROVE  Good(d)'
<1>1. Good(d) /\ TypeOK
  BY DEF Inv
<1>2. \A b \in Blobs : Complete(b) => Complete(b)'
  BY <1>1, CompleteStays
<1>3. Placed(d)'
  BY <1>1 DEF Good, Placed, Targets
<1>4. recv[d].blob \in Blobs /\ recv[d].pos \in 0 .. Chunks
  BY <1>1 DEF TypeOK
<1>5. At(d, "stream")' => have'[recv'[d].blob] >= recv'[d].pos
  <2>1. have'[recv[d].blob] \in Nat /\ have[recv[d].blob] \in Nat /\ recv[d].pos \in Nat
    BY <1>1, <1>4, TransferAssumption DEF TypeOK
  <2>2. QED
    BY <1>1, <1>4, <2>1 DEF Good, Fetched, At
<1>6. Fetched(d)'
  BY <1>1, <1>2, <1>5 DEF Good, Fetched, Blobs
<1>7. QED
  BY <1>3, <1>6 DEF Good

\* So a step of one receive only has to look at its own.
LEMMA Frame ==
  ASSUME Inv, NEW q \in Recvs, TypeOK', Good(q)', format' = format,
         \A b \in Blobs : have'[b] >= have[b],
         \A d \in Recvs \ {q} : recv'[d] = recv[d] /\ (d \in guards => d \in guards')
  PROVE  Inv'
<1>1. ASSUME NEW d \in Recvs, d # q PROVE Good(d)'
  BY <1>1, OthersKeep
<1>2. QED
  BY <1>1 DEF Inv

\* have is unchanged by most steps.
LEMMA SameHave == ASSUME TypeOK, have' = have PROVE \A b \in Blobs : have'[b] >= have[b]
<1>1. \A b \in Blobs : have[b] \in Nat
  BY TransferAssumption DEF TypeOK
<1>2. QED
  BY <1>1

LEMMA IdleType == Idle \in Receive
BY TransferAssumption DEF Idle, Receive, Blobs, Places

\* A step that replaces the record of one receive.
LEMMA RecvType ==
  ASSUME TypeOK, NEW q \in Recvs, NEW r \in Receive, recv' = [recv EXCEPT ![q] = r],
         format' = format, have' \in [Blobs -> 0 .. Chunks], guards' \in SUBSET Recvs,
         allowed' = allowed, there' \in [Places -> {"none", "file", "dir"}],
         faults' = faults
  PROVE  TypeOK' /\ recv'[q] = r /\ \A d \in Recvs \ {q} : recv'[d] = recv[d]
BY DEF TypeOK, Receive

\* A receive that is over has nothing to keep.
LEMMA ReturnKeeps ==
  ASSUME Inv, NEW q \in Recvs, Return(q), have' = have, format' = format,
         allowed' = allowed, there' = there, faults' \in 0 .. MaxFaults
  PROVE  Inv'
<1>1. TypeOK'
  BY IdleType DEF Inv, TypeOK, Return, Receive
<1>2. recv'[q] = Idle /\ \A d \in Recvs \ {q} : recv'[d] = recv[d]
  BY DEF Inv, TypeOK, Return
<1>3. Good(q)'
  BY <1>2, TransferAssumption DEF Good, Placed, Fetched, At, Idle
<1>4. QED
  BY <1>1, <1>2, <1>3, Frame, SameHave DEF Inv, Return

-----------------------------------------------------------------------------
(* The steps of a receive. *)

LEMMA HandleReceiveKeeps ==
  ASSUME Inv, NEW q \in Recvs, NEW force \in BOOLEAN, HandleReceive(q, force)
  PROVE  Inv'
<1>1. /\ recv'[q] = [Idle EXCEPT !.pc = "status"]
      /\ \A d \in Recvs \ {q} : recv'[d] = recv[d]
  BY DEF Inv, TypeOK, HandleReceive
<1>2. TypeOK'
  BY IdleType DEF Inv, TypeOK, HandleReceive, world, Receive
<1>3. Good(q)'
  BY <1>1, TransferAssumption DEF Good, Placed, Fetched, At, Idle
<1>4. QED
  BY <1>1, <1>2, <1>3, Frame, SameHave DEF Inv, HandleReceive, world

LEMMA CheckStatusKeeps ==
  ASSUME Inv, NEW q \in Recvs, CheckStatus(q)
  PROVE  Inv'
<1> DEFINE fast == format = "Raw" /\ Complete(Root)
           r == [recv[q] EXCEPT !.pc = IF fast THEN "export" ELSE "guard",
                                !.todo = IF fast THEN Targets ELSE {}]
<1>1. recv' = [recv EXCEPT ![q] = r] /\ recv[q].pc = "status"
  BY DEF Inv, TypeOK, CheckStatus, At
<1>2. recv[q] \in Receive /\ Targets \subseteq Blobs
  BY DEF Inv, TypeOK, Receive, Targets, Blobs
<1>3. /\ r \in Receive /\ r.blob = recv[q].blob /\ r.pos = recv[q].pos
      /\ r.pc = IF fast THEN "export" ELSE "guard"
      /\ r.todo = IF fast THEN Targets ELSE {}
  BY <1>2 DEF Receive
<1>4. format' = format /\ have' = have /\ guards' = guards
  BY DEF CheckStatus, world
<1> HIDE DEF r
<1>5. TypeOK' /\ recv'[q] = r /\ \A d \in Recvs \ {q} : recv'[d] = recv[d]
  BY <1>1, <1>3, RecvType DEF Inv, TypeOK, CheckStatus, world
<1>6. Good(q) /\ recv[q].blob = Root /\ recv[q].pos = 0
  BY <1>1 DEF Inv, Good, Placed
<1>7. Placed(q)'
  BY <1>3, <1>4, <1>5, <1>6 DEF Placed, Targets
<1>8. Fetched(q)'
  BY <1>3, <1>4, <1>5, <1>6, TransferAssumption DEF Fetched, At
<1>9. QED
  BY <1>4, <1>5, <1>7, <1>8, Frame, SameHave DEF Inv, Good

LEMMA GuardKeepsInv ==
  ASSUME Inv, NEW q \in Recvs, Guard(q)
  PROVE  Inv'
<1>1. /\ recv'[q].pc = "next" /\ recv'[q].blob = Root /\ recv'[q].pos = recv[q].pos
      /\ recv[q].pc = "guard"
      /\ \A d \in Recvs \ {q} : recv'[d] = recv[d]
  BY DEF Inv, TypeOK, Guard, At
<1>2. TypeOK'
  BY DEF Inv, TypeOK, Guard, world, Blobs
<1>3. recv[q].pos = 0
  BY <1>1 DEF Inv, Good, Placed
<1>4. Good(q)'
  BY <1>1, <1>3, TransferAssumption DEF Good, Placed, Fetched, At, Guard
<1>5. QED
  BY <1>1, <1>2, <1>4, Frame, SameHave DEF Inv, Guard, world

\* What follows once the current blob is complete, by the blob that it was.
LEMMA OnwardKeeps ==
  ASSUME Inv, NEW q \in Recvs, At(q, "next") \/ At(q, "stream"), Complete(recv[q].blob),
         recv' = [recv EXCEPT ![q] = Onward(q)], UNCHANGED <<world, have, guards, faults>>
  PROVE  Inv'
<1> DEFINE r == recv[q]
           todo == IF r.blob = Meta THEN Files ELSE r.todo
           f == CHOOSE x \in todo : TRUE
<1>1. /\ TypeOK /\ Good(q) /\ q \in guards /\ r.pc \in {"next", "stream"}
      /\ format' = format /\ have' = have /\ guards' = guards
  BY DEF Inv, Good, Placed, At, world
<1>2. /\ r \in Receive /\ todo \in SUBSET Blobs /\ Targets \in SUBSET Blobs
      /\ Root \in Blobs /\ Meta \in Blobs /\ 0 \in 0 .. Chunks
      /\ format \in {"Raw", "HashSeq"}
  BY <1>1, TransferAssumption DEF TypeOK, Blobs, Targets, Receive
<1>3. ASSUME Onward(q) \in Receive, Placed(q)', Fetched(q)' PROVE Inv'
  <2>1. TypeOK' /\ \A d \in Recvs \ {q} : recv'[d] = recv[d]
    BY <1>1, <1>3, RecvType DEF TypeOK, world
  <2>2. QED
    BY <1>1, <1>3, <2>1, Frame, SameHave DEF Good
<1>4. recv'[q] = Onward(q)
  BY <1>1 DEF TypeOK
<1>5. CASE r.blob = Root /\ format = "HashSeq"
  <2>1. Onward(q) = [r EXCEPT !.pc = "next", !.blob = Meta, !.pos = 0]
    BY <1>5 DEF Onward
  <2>2. /\ Onward(q) \in Receive /\ recv'[q].pc = "next" /\ recv'[q].blob = Meta
        /\ recv'[q].pos = 0
    BY <1>2, <1>4, <2>1 DEF Receive
  <2>3. Placed(q)'
    BY <1>1, <1>5, <2>2 DEF Placed
  <2>4. Fetched(q)'
    BY <1>1, <1>5, <2>2, TransferAssumption DEF Fetched, At, Complete
  <2>5. QED
    BY <1>3, <2>2, <2>3, <2>4
<1>6. CASE ~(r.blob = Root /\ format = "HashSeq") /\ (format = "Raw" \/ todo = {})
  <2>1. Onward(q) = [r EXCEPT !.pc = "export", !.pos = 0, !.todo = Targets]
    BY <1>6 DEF Onward
  <2>2. /\ Onward(q) \in Receive /\ recv'[q].pc = "export" /\ recv'[q].blob = r.blob
        /\ recv'[q].todo = Targets
    BY <1>2, <1>4, <2>1 DEF Receive
  <2>3. format = "HashSeq" => Complete(Root) /\ \A x \in Files : Complete(x)
    BY <1>1, <1>2, <1>6, TransferAssumption DEF Good, Placed, Fetched, Receive, Blobs
  <2>4. Placed(q)'
    BY <1>1, <2>2 DEF Good, Placed, Targets
  <2>5. Fetched(q)'
    BY <1>1, <2>2, <2>3 DEF Good, Fetched, At, Complete
  <2>6. QED
    BY <1>3, <2>2, <2>4, <2>5
<1>7. CASE ~(r.blob = Root /\ format = "HashSeq") /\ ~(format = "Raw" \/ todo = {})
  <2>1. Onward(q) = [r EXCEPT !.pc = "next", !.blob = f, !.pos = 0, !.todo = todo \ {f}]
    BY <1>7 DEF Onward
  <2>2. f \in todo /\ todo \ {f} \in SUBSET Blobs
    BY <1>2, <1>7
  <2>3. /\ Onward(q) \in Receive /\ recv'[q].pc = "next" /\ recv'[q].blob = f
        /\ recv'[q].pos = 0 /\ recv'[q].todo = todo \ {f}
    <3>1. f \in Blobs
      BY <1>2, <2>2
    <3> HIDE DEF f, todo
    <3> DEFINE o == [r EXCEPT !.pc = "next", !.blob = f, !.pos = 0, !.todo = todo \ {f}]
    <3>2. o \in Receive
      BY <1>2, <2>2, <3>1 DEF Receive
    <3>3. o.pc = "next" /\ o.blob = f /\ o.pos = 0 /\ o.todo = todo \ {f}
      BY <1>2 DEF Receive
    <3>4. QED
      BY <1>4, <2>1, <3>2, <3>3
  <2>4. format = "HashSeq" /\ r.blob # Root /\ Complete(Root)
    BY <1>1, <1>2, <1>7 DEF Good, Fetched
  <2>5. Complete(Meta)
    BY <1>1, <1>2, <2>4 DEF Good, Fetched, Receive, Blobs
  <2>6. \A x \in Files : x \in todo \/ Complete(x)
    BY <1>1, <1>2, <2>4 DEF Good, Fetched, Receive, Blobs
  <2>7. Placed(q)'
    BY <1>1, <2>3, <2>4 DEF Placed
  <2>8. Fetched(q)'
    BY <1>1, <2>3, <2>4, <2>5, <2>6 DEF Fetched, At, Complete
  <2>9. QED
    BY <1>3, <2>3, <2>7, <2>8
<1>8. QED
  BY <1>5, <1>6, <1>7

LEMMA RequestKeeps ==
  ASSUME Inv, NEW q \in Recvs, RequestBlob(q)
  PROVE  Inv'
<1>1. CASE Return(q)
  BY <1>1, ReturnKeeps DEF RequestBlob, world, Inv, TypeOK
<1>2. CASE Goto(q, "stream") /\ UNCHANGED guards
  <2>1. /\ recv'[q].pc = "stream" /\ recv'[q].blob = recv[q].blob
        /\ recv'[q].pos = recv[q].pos /\ recv'[q].todo = recv[q].todo
        /\ \A d \in Recvs \ {q} : recv'[d] = recv[d]
    BY <1>2 DEF Inv, TypeOK, Goto
  <2>2. TypeOK'
    BY <1>2 DEF Inv, TypeOK, Goto, RequestBlob, world
  <2>3. /\ Good(q) /\ recv[q].pc = "next" /\ recv[q].pos = 0 /\ have[recv[q].blob] \in Nat
        /\ format' = format /\ have' = have /\ guards' = guards
    BY <1>2, TransferAssumption DEF Inv, TypeOK, Good, Placed, RequestBlob, At, world
  <2>4. Placed(q)'
    BY <2>1, <2>3 DEF Good, Placed
  <2>5. Fetched(q)'
    BY <2>1, <2>3 DEF Good, Fetched, At, Complete
  <2>6. QED
    BY <2>1, <2>2, <2>3, <2>4, <2>5, Frame, SameHave DEF Inv, Good
<1>3. QED
  BY <1>1, <1>2 DEF RequestBlob

LEMMA ReceiveChunkKeeps ==
  ASSUME Inv, NEW q \in Recvs, ReceiveChunk(q)
  PROVE  Inv'
<1> DEFINE b == recv[q].blob
           pos == recv[q].pos + 1
<1>1. /\ TypeOK /\ Good(q) /\ b \in Blobs /\ pos \in 0 .. Chunks
      /\ have[b] \in 0 .. Chunks /\ recv[q].pc = "stream"
  BY TransferAssumption DEF Inv, TypeOK, ReceiveChunk, At
<1>2. /\ recv'[q].pc = "stream" /\ recv'[q].blob = b /\ recv'[q].pos = pos
      /\ recv'[q].todo = recv[q].todo
      /\ \A d \in Recvs \ {q} : recv'[d] = recv[d]
  BY <1>1 DEF TypeOK, ReceiveChunk
<1>3. have' = [have EXCEPT ![b] = IF pos > have[b] THEN pos ELSE have[b]]
  BY DEF ReceiveChunk
<1>4. TypeOK'
  <2>1. have' \in [Blobs -> 0 .. Chunks]
    BY <1>1, <1>3 DEF TypeOK
  <2>2. [recv[q] EXCEPT !.pos = pos] \in Receive
    BY <1>1 DEF TypeOK, Receive
  <2>3. recv' = [recv EXCEPT ![q] = [recv[q] EXCEPT !.pos = pos]]
    BY DEF ReceiveChunk
  <2>4. QED
    BY <1>1, <2>1, <2>2, <2>3, RecvType DEF TypeOK, ReceiveChunk, world
<1>5. \A x \in Blobs : have'[x] >= have[x]
  BY <1>1, <1>3, TransferAssumption DEF TypeOK
<1>6. \A x \in Blobs : Complete(x) => Complete(x)'
  BY <1>1, <1>4, <1>5, CompleteStays
<1>7. have'[b] >= pos
  BY <1>1, <1>3, TransferAssumption DEF TypeOK
<1>8. format' = format /\ guards' = guards
  BY DEF ReceiveChunk, world
<1>9. Placed(q)'
  BY <1>1, <1>2, <1>8 DEF Good, Placed
<1>10. Fetched(q)'
  BY <1>1, <1>2, <1>6, <1>7 DEF Good, Fetched, Blobs, At
<1>11. QED
  BY <1>2, <1>4, <1>5, <1>8, <1>9, <1>10, Frame DEF Good

LEMMA BlobReceivedKeeps ==
  ASSUME Inv, NEW q \in Recvs, BlobReceived(q)
  PROVE  Inv'
<1>1. Complete(recv[q].blob)
  <2>1. have[recv[q].blob] \in 0 .. Chunks /\ have[recv[q].blob] >= Chunks
    BY DEF Inv, TypeOK, Good, Fetched, BlobReceived
  <2>2. QED
    BY <2>1, TransferAssumption DEF Complete
<1>2. QED
  BY <1>1, OnwardKeeps DEF BlobReceived

LEMMA OpenDestKeeps ==
  ASSUME Inv, NEW q \in Recvs, OpenDest(q)
  PROVE  Inv'
<1> DEFINE place == IF there["dest"] = "dir" THEN "nested" ELSE "dest"
<1>1. CASE Return(q) /\ UNCHANGED there
  BY <1>1, ReturnKeeps DEF OpenDest, Inv, TypeOK
<1>2. CASE /\ recv' = [recv EXCEPT ![q].pc = "write", ![q].place = place]
           /\ there' = IF format = "HashSeq" THEN [there EXCEPT ![place] = "dir"]
                       ELSE there
           /\ UNCHANGED guards
  <2>1. /\ recv'[q].pc = "write" /\ recv'[q].blob = recv[q].blob
        /\ recv'[q].pos = recv[q].pos /\ recv'[q].todo = recv[q].todo
        /\ \A d \in Recvs \ {q} : recv'[d] = recv[d]
    BY <1>2 DEF Inv, TypeOK
  <2>2. TypeOK'
    <3>1. place \in Places /\ recv[q] \in Receive
      BY DEF Places, Receive, Inv, TypeOK
    <3>2. [recv[q] EXCEPT !.pc = "write", !.place = place] \in Receive
      BY <3>1 DEF Receive
    <3>3. there' \in [Places -> {"none", "file", "dir"}]
      BY <1>2, <3>1 DEF Inv, TypeOK
    <3>4. recv' = [recv EXCEPT ![q] = [recv[q] EXCEPT !.pc = "write", !.place = place]]
      BY <1>2 DEF Inv, TypeOK
    <3>5. QED
      BY <1>2, <3>2, <3>3, <3>4, RecvType DEF Inv, TypeOK, OpenDest
  <2>3. /\ Good(q) /\ recv[q].pc = "export"
        /\ format' = format /\ have' = have /\ guards' = guards
    BY <1>2 DEF Inv, OpenDest, At
  <2>4. Placed(q)'
    BY <2>1, <2>3 DEF Good, Placed, Targets
  <2>5. Fetched(q)'
    BY <2>1, <2>3 DEF Good, Fetched, At, Complete
  <2>6. QED
    BY <2>1, <2>2, <2>3, <2>4, <2>5, Frame, SameHave DEF Inv, Good
<1>3. QED
  BY <1>1, <1>2 DEF OpenDest

LEMMA ExportFileKeeps ==
  ASSUME Inv, NEW q \in Recvs, ExportFile(q)
  PROVE  Inv'
<1>1. PICK f \in recv[q].todo : recv' = [recv EXCEPT ![q].todo = @ \ {f}]
  BY DEF ExportFile
<1>2. /\ recv'[q].pc = "write" /\ recv'[q].blob = recv[q].blob
      /\ recv'[q].pos = recv[q].pos /\ recv'[q].todo = recv[q].todo \ {f}
      /\ \A d \in Recvs \ {q} : recv'[d] = recv[d]
  BY <1>1 DEF Inv, TypeOK, ExportFile, At
<1>3. TypeOK'
  BY <1>1 DEF Inv, TypeOK, ExportFile, WriteOver
<1>4. /\ Good(q) /\ recv[q].pc = "write"
      /\ format' = format /\ have' = have /\ guards' = guards
  BY DEF Inv, ExportFile, At
<1>5. Placed(q)'
  BY <1>2, <1>4 DEF Good, Placed, Targets
<1>6. Fetched(q)'
  BY <1>2, <1>4 DEF Good, Fetched, At, Complete
<1>7. QED
  BY <1>2, <1>3, <1>4, <1>5, <1>6, Frame, SameHave DEF Inv, Good

LEMMA StepKeeps == ASSUME Inv, NEW q \in Recvs, Step(q) PROVE Inv'
<1>1. CASE SkipBlob(q)
  BY <1>1, OnwardKeeps DEF SkipBlob
<1>2. CASE ExportFails(q) \/ Finish(q)
  BY <1>2, ReturnKeeps DEF ExportFails, Finish, world, Inv, TypeOK
<1>3. QED
  BY <1>1, <1>2, CheckStatusKeeps, GuardKeepsInv, RequestKeeps, ReceiveChunkKeeps,
     BlobReceivedKeeps, OpenDestKeeps, ExportFileKeeps DEF Step

-----------------------------------------------------------------------------
(* The environment. *)

LEMMA FailKeeps == ASSUME Inv, NEW q \in Recvs, Fail(q) PROVE Inv'
<1>1. faults' \in 0 .. MaxFaults
  BY TransferAssumption DEF Inv, TypeOK, Fail
<1>2. QED
  BY <1>1, ReturnKeeps DEF Fail, world

LEMMA CrashKeeps == ASSUME Inv, Crash PROVE Inv'
<1>1. faults' \in 0 .. MaxFaults
  BY TransferAssumption DEF Inv, TypeOK, Crash
<1>2. TypeOK'
  BY <1>1, IdleType DEF Inv, TypeOK, Crash, world, Receive
<1>3. ASSUME NEW q \in Recvs PROVE Good(q)'
  BY TransferAssumption DEF Crash, Good, Placed, Fetched, At, Idle
<1>4. QED
  BY <1>2, <1>3 DEF Inv

\* While a receive holds its tag the collector spares the root, and everything
\* once the root of a collection is complete.
LEMMA CollectKeeps == ASSUME Inv, NEW b \in Blobs, Collect(b) PROVE Inv'
<1>1. TypeOK'
  BY TransferAssumption DEF Inv, TypeOK, Collect, world
<1>2. ASSUME NEW q \in Recvs PROVE Good(q)'
  <2>1. /\ TypeOK /\ Good(q) /\ recv' = recv /\ guards' = guards /\ format' = format
        /\ \A x \in Blobs \ {b} : have'[x] = have[x]
    BY DEF Inv, TypeOK, Collect, world
  <2>2. Placed(q)'
    BY <2>1 DEF Good, Placed, Targets
  <2>3. recv[q].blob \in Blobs /\ Root \in Blobs /\ Meta \in Blobs /\ Files \subseteq Blobs
    BY <2>1 DEF TypeOK, Blobs
  <2>4. CASE q \in guards
    <3>1. b # Root /\ ~(format = "HashSeq" /\ Complete(Root))
      BY <2>3, <2>4 DEF Collect, Live
    <3>2. recv[q].blob = Root
      BY <2>1, <3>1 DEF Good, Placed, Fetched
    <3>3. ~(format = "HashSeq" /\ recv[q].pc \in {"export", "write"})
      BY <2>1, <3>1 DEF Good, Fetched
    <3>4. have'[Root] = have[Root]
      BY <2>1, <2>3, <3>1
    <3>5. QED
      BY <2>1, <2>2, <3>2, <3>3, <3>4, TransferAssumption DEF Good, Fetched, At
  <2>5. CASE q \notin guards
    <3>1. /\ recv[q].blob = Root /\ recv[q].pc # "stream"
          /\ ~(format = "HashSeq" /\ recv[q].pc \in {"export", "write"})
      BY <2>1, <2>5 DEF Good, Placed
    <3>2. QED
      BY <2>1, <2>2, <3>1, TransferAssumption DEF Good, Fetched, At
  <2>6. QED
    BY <2>4, <2>5
<1>3. QED
  BY <1>1, <1>2 DEF Inv

LEMMA OutsideKeeps ==
  ASSUME Inv, GateChanges \/ UserWrites \/ UserMoves \/ UNCHANGED vars PROVE Inv'
<1>1. TypeOK'
  BY DEF Inv, TypeOK, GateChanges, UserWrites, UserMoves, vars, Places
<1>2. format' = format /\ have' = have /\ guards' = guards /\ recv' = recv
  BY DEF GateChanges, UserWrites, UserMoves, vars
<1>3. \A d \in Recvs : Good(d)'
  BY <1>1, <1>2, OthersKeep, SameHave DEF Inv
<1>4. QED
  BY <1>1, <1>3 DEF Inv

-----------------------------------------------------------------------------
(* The theorems. *)

LEMMA NextInv == Inv /\ [Next]_vars => Inv'
BY HandleReceiveKeeps, StepKeeps, FailKeeps, CrashKeeps, CollectKeeps, OutsideKeeps
   DEF Next, Running

LEMMA InvHolds == Spec => []Inv
<1>1. Init => Inv
  <2> SUFFICES ASSUME Init PROVE Inv
    OBVIOUS
  <2>1. TypeOK
    <3>1. have \in [Blobs -> 0 .. Chunks] /\ faults \in 0 .. MaxFaults
      BY TransferAssumption DEF Init
    <3>2. recv \in [Recvs ->
            [pc : {"idle", "status", "guard", "next", "stream", "export", "write"},
             blob : Blobs, pos : 0 .. Chunks, todo : SUBSET Blobs, place : Places]]
      BY IdleType DEF Init, Receive
    <3>3. QED
      BY <3>1, <3>2 DEF Init, TypeOK
  <2>2. ASSUME NEW q \in Recvs PROVE Good(q)
    BY TransferAssumption DEF Init, Good, Placed, Fetched, At, Idle
  <2>3. QED
    BY <2>1, <2>2 DEF Inv
<1>2. QED
  BY <1>1, NextInv, PTL DEF Spec

\* The variables of the receives keep their types (handle_receive,
\* download_impl, RingReceiver).
THEOREM TransferTypeHolds == Spec => []TypeOK
<1>1. Inv => TypeOK
  BY DEF Inv
<1>2. QED
  BY <1>1, InvHolds, PTL

\* Nothing that a receive has fetched is collected while it goes on, thanks to
\* the temporary tag of download_impl.
THEOREM GuardKeepsHolds == Spec => []GuardKeeps
<1>1. Inv => GuardKeeps
  BY DEF Inv, Good, Fetched, GuardKeeps
<1>2. QED
  BY <1>1, InvHolds, PTL

\* No file of a ticket is exported unless all of them are whole (RingReceiver's
\* export comes after the last fetch).
THEOREM AllOrNothingHolds == Spec => AllOrNothing
<1>1. ASSUME Inv, [Next]_vars, NEW q \in Recvs, Writes(q), NEW f \in Targets
      PROVE  Complete(f)
  <2>1. Good(q) /\ recv[q].pc = "write" /\ TypeOK
    BY <1>1 DEF Inv, Writes, At
  <2>2. CASE format = "HashSeq"
    BY <2>1, <2>2 DEF Good, Fetched, Targets
  <2>3. CASE format = "Raw"
    <3>1. recv[q].todo \subseteq {Root} /\ f = Root
      BY <2>1, <2>3 DEF Good, Placed, Targets
    <3>2. ExportFile(q)
      <4>1. recv'[q] # recv[q] /\ recv'[q].pc = "write"
        BY <1>1 DEF Writes
      <4>2. PICK d \in Recvs :
              \/ \E force \in BOOLEAN : HandleReceive(d, force)
              \/ Step(d)
              \/ Fail(d)
        BY <1>1, <4>1 DEF Next, Running, Crash, Collect, GateChanges, UserWrites,
           UserMoves, vars, Idle
      <4>3. d = q
        BY <2>1, <4>1, <4>2 DEF TypeOK, HandleReceive, Step, CheckStatus, Guard, SkipBlob,
           RequestBlob, Goto, Return, ReceiveChunk, BlobReceived, OpenDest, ExportFile,
           ExportFails, Finish, Fail
      <4>4. ~Return(q)
        BY <2>1, <4>1 DEF Return, Idle, TypeOK
      <4>5. QED
        BY <2>1, <4>2, <4>3, <4>4 DEF HandleReceive, Step, CheckStatus, Guard, SkipBlob,
           RequestBlob, ReceiveChunk, BlobReceived, OpenDest, ExportFails, Finish, Fail,
           At
    <3>3. QED
      BY <3>1, <3>2 DEF ExportFile
  <2>4. QED
    BY <2>1, <2>2, <2>3 DEF TypeOK
<1>2. Inv /\ [Next]_vars =>
        [\A q \in Recvs : Writes(q) => \A f \in Targets : Complete(f)]_vars
  BY <1>1
<1>3. QED
  BY <1>2, InvHolds, PTL DEF Spec, AllOrNothing

-----------------------------------------------------------------------------
(* Why a receive ends. *)

\* How far a receive still has to go.
Stage(q) ==
  CASE recv[q].pc = "status" -> 5
    [] recv[q].pc = "guard" -> 4
    [] recv[q].pc \in {"next", "stream"} -> 3
    [] recv[q].pc = "export" -> 2
    [] recv[q].pc = "write" -> 1
    [] OTHER -> 0

\* The blobs to be fetched, or the files to be written.
Ahead(q) ==
  IF recv[q].pc \in {"next", "stream"}
  THEN {recv[q].blob} \cup (IF recv[q].blob = Root THEN Blobs
                            ELSE IF recv[q].blob = Meta THEN Files
                            ELSE recv[q].todo)
  ELSE recv[q].todo

\* The chunks of the current blob, and its request.
ChunksAhead(q) ==
  IF recv[q].pc = "stream" THEN Chunks - recv[q].pos ELSE Chunks + 1

Nearer(q) ==
  \/ Stage(q)' < Stage(q)
  \/ /\ Stage(q)' = Stage(q)
     /\ \/ Ahead(q)' \subseteq Ahead(q) /\ Ahead(q)' # Ahead(q)
        \/ Ahead(q)' = Ahead(q) /\ ChunksAhead(q)' < ChunksAhead(q)

\* Every step of a receive brings it nearer to its end, in the lexicographic
\* order of its stage, the set of what it has still to fetch or to write, and
\* the chunks of the current blob; and nothing else moves it at all, unless it
\* ends it.
NearerEachStep ==
  \A q \in Recvs :
    /\ Step(q) => Nearer(q)
    /\ ~At(q, "idle") => Nearer(q) \/ recv'[q] = recv[q]

ReceivesApproach == [][NearerEachStep]_vars

\* A file being fetched is not one of the files that follow it.
Apart(q) ==
  recv[q].pc \in {"next", "stream"} /\ recv[q].blob \in Files =>
    recv[q].blob \notin recv[q].todo /\ recv[q].todo \subseteq Files

LEMMA ReturnNearer ==
  ASSUME Inv, NEW q \in Recvs, ~At(q, "idle"), recv'[q] = Idle
  PROVE  Nearer(q) /\ Apart(q)'
<1>1. recv'[q].pc = "idle"
  BY DEF Idle
<1>2. recv[q].pc \in {"status", "guard", "next", "stream", "export", "write"}
  BY DEF Inv, TypeOK, At
<1>3. Stage(q)' = 0 /\ Stage(q) \in 1 .. 5
  BY <1>1, <1>2 DEF Stage
<1>4. QED
  BY <1>1, <1>3 DEF Nearer, Apart

\* The next blob is one of those ahead, and the current one no longer is.
LEMMA OnwardNearer ==
  ASSUME Inv, NEW q \in Recvs, Apart(q), At(q, "next") \/ At(q, "stream"),
         recv'[q] = Onward(q)
  PROVE  Nearer(q) /\ Apart(q)'
<1> DEFINE r == recv[q]
           todo == IF r.blob = Meta THEN Files ELSE r.todo
           f == CHOOSE x \in todo : TRUE
<1>1. /\ Placed(q) /\ r \in Receive /\ format \in {"Raw", "HashSeq"}
      /\ r.pc \in {"next", "stream"} /\ Stage(q) = 3
      /\ Root \notin Files /\ Meta \notin Files /\ Root # Meta
  BY TransferAssumption DEF Inv, TypeOK, Good, Receive, At, Stage
<1>2. CASE r.blob = Root /\ format = "HashSeq"
  <2>1. Onward(q) = [r EXCEPT !.pc = "next", !.blob = Meta, !.pos = 0]
    BY <1>2 DEF Onward
  <2>2. recv'[q].pc = "next" /\ recv'[q].blob = Meta
    BY <1>1, <2>1 DEF Receive
  <2>3. Stage(q)' = 3 /\ Ahead(q)' = {Meta} \cup Files
    BY <1>1, <2>2 DEF Stage, Ahead
  <2>4. Ahead(q) = Blobs
    BY <1>1, <1>2 DEF Ahead, Blobs
  <2>5. QED
    BY <1>1, <2>2, <2>3, <2>4 DEF Nearer, Apart, Blobs
<1>3. CASE ~(r.blob = Root /\ format = "HashSeq") /\ (format = "Raw" \/ todo = {})
  <2>1. Onward(q) = [r EXCEPT !.pc = "export", !.pos = 0, !.todo = Targets]
    BY <1>3 DEF Onward
  <2>2. recv'[q].pc = "export"
    BY <1>1, <2>1 DEF Receive
  <2>3. QED
    BY <1>1, <2>2 DEF Nearer, Apart, Stage
<1>4. CASE ~(r.blob = Root /\ format = "HashSeq") /\ ~(format = "Raw" \/ todo = {})
  <2>1. Onward(q) = [r EXCEPT !.pc = "next", !.blob = f, !.pos = 0, !.todo = todo \ {f}]
    BY <1>4 DEF Onward
  <2>2. f \in todo
    BY <1>4
  <2>3. /\ recv'[q].pc = "next" /\ recv'[q].blob = f /\ recv'[q].todo = todo \ {f}
    <3> HIDE DEF f, todo
    <3>1. QED
      BY <1>1, <2>1 DEF Receive
  <2>4. r.blob # Root
    BY <1>1, <1>4
  <2>5. todo \subseteq Files /\ Ahead(q) = {r.blob} \cup todo /\ r.blob \notin todo
    <3>1. CASE r.blob = Meta
      BY <1>1, <3>1 DEF Ahead
    <3>2. CASE r.blob # Meta
      BY <1>1, <2>4, <3>2 DEF Ahead, Apart, Receive, Blobs
    <3>3. QED
      BY <3>1, <3>2
  <2> HIDE DEF f, todo
  <2>6. Stage(q)' = 3 /\ Ahead(q)' = todo
    BY <1>1, <2>2, <2>3, <2>5 DEF Stage, Ahead
  <2>7. Apart(q)'
    BY <2>3, <2>5 DEF Apart
  <2>8. QED
    BY <1>1, <2>5, <2>6, <2>7 DEF Nearer
<1>5. QED
  BY <1>2, <1>3, <1>4

LEMMA StepNearer ==
  ASSUME Inv, NEW q \in Recvs, Apart(q), Step(q)
  PROVE  Nearer(q) /\ Apart(q)'
<1>1. TypeOK /\ Good(q) /\ recv[q] \in Receive
  BY DEF Inv, TypeOK, Receive
<1>2. ASSUME Return(q), ~At(q, "idle") PROVE Nearer(q) /\ Apart(q)'
  BY <1>1, <1>2, ReturnNearer DEF Return, TypeOK
<1>3. ASSUME CheckStatus(q) PROVE Nearer(q) /\ Apart(q)'
  <2>1. recv[q].pc = "status" /\ recv'[q].pc \in {"export", "guard"}
    BY <1>1, <1>3 DEF CheckStatus, At, TypeOK
  <2>2. QED
    BY <2>1 DEF Nearer, Stage, Apart
<1>4. ASSUME Guard(q) PROVE Nearer(q) /\ Apart(q)'
  <2>1. recv[q].pc = "guard" /\ recv'[q].pc = "next" /\ recv'[q].blob = Root
    BY <1>1, <1>4 DEF Guard, At, TypeOK
  <2>2. QED
    BY <2>1, TransferAssumption DEF Nearer, Stage, Apart
<1>5. ASSUME SkipBlob(q) \/ BlobReceived(q) PROVE Nearer(q) /\ Apart(q)'
  <2>1. (At(q, "next") \/ At(q, "stream")) /\ recv'[q] = Onward(q)
    BY <1>1, <1>5 DEF SkipBlob, BlobReceived, TypeOK
  <2>2. QED
    BY <2>1, OnwardNearer
<1>6. ASSUME RequestBlob(q), Goto(q, "stream") PROVE Nearer(q) /\ Apart(q)'
  <2>1. /\ recv[q].pc = "next" /\ recv'[q].pc = "stream"
        /\ recv'[q].blob = recv[q].blob /\ recv'[q].pos = recv[q].pos
        /\ recv'[q].todo = recv[q].todo
    BY <1>1, <1>6 DEF RequestBlob, At, Goto, TypeOK
  <2>2. Stage(q)' = Stage(q) /\ Ahead(q)' = Ahead(q) /\ Apart(q)'
    BY <2>1 DEF Stage, Ahead, Apart
  <2>3. ChunksAhead(q)' < ChunksAhead(q)
    BY <1>1, <2>1, TransferAssumption DEF ChunksAhead, Good, Placed
  <2>4. QED
    BY <2>2, <2>3 DEF Nearer
<1>7. ASSUME ReceiveChunk(q) PROVE Nearer(q) /\ Apart(q)'
  <2>1. /\ recv[q].pc = "stream" /\ recv'[q].pc = "stream"
        /\ recv'[q].blob = recv[q].blob /\ recv'[q].pos = recv[q].pos + 1
        /\ recv'[q].todo = recv[q].todo
    BY <1>1, <1>7 DEF ReceiveChunk, At, TypeOK
  <2>2. Stage(q)' = Stage(q) /\ Ahead(q)' = Ahead(q) /\ Apart(q)'
    BY <2>1 DEF Stage, Ahead, Apart
  <2>3. recv[q].pos \in Nat
    BY <1>1, TransferAssumption DEF Receive
  <2>4. ChunksAhead(q)' < ChunksAhead(q)
    BY <2>1, <2>3, TransferAssumption DEF ChunksAhead
  <2>5. QED
    BY <2>2, <2>4 DEF Nearer
<1>8. ASSUME OpenDest(q) PROVE Nearer(q) /\ Apart(q)'
  <2>1. recv[q].pc = "export"
    BY <1>8 DEF OpenDest, At
  <2>2. ASSUME recv'[q].pc = "write" PROVE Nearer(q) /\ Apart(q)'
    BY <2>1, <2>2 DEF Nearer, Stage, Apart
  <2>3. Return(q) \/ recv'[q].pc = "write"
    BY <1>1, <1>8 DEF OpenDest, TypeOK
  <2>4. QED
    BY <1>2, <2>1, <2>2, <2>3 DEF At
<1>9. ASSUME ExportFile(q) PROVE Nearer(q) /\ Apart(q)'
  <2>1. PICK f \in recv[q].todo : recv' = [recv EXCEPT ![q].todo = @ \ {f}]
    BY <1>9 DEF ExportFile
  <2>2. /\ recv[q].pc = "write" /\ recv'[q].pc = "write"
        /\ recv'[q].todo = recv[q].todo \ {f}
    BY <1>1, <1>9, <2>1 DEF ExportFile, At, TypeOK
  <2>3. /\ Stage(q)' = Stage(q) /\ Apart(q)'
        /\ Ahead(q)' = Ahead(q) \ {f} /\ f \in Ahead(q)
    BY <2>1, <2>2 DEF Stage, Ahead, Apart
  <2>4. QED
    BY <2>3 DEF Nearer
<1>10. QED
  BY <1>2, <1>3, <1>4, <1>5, <1>6, <1>7, <1>8, <1>9
     DEF Step, RequestBlob, ExportFails, Finish, At

\* A receive is in its own hands.
LEMMA NextNearer ==
  ASSUME Inv, [Next]_vars, NEW q \in Recvs, Apart(q)
  PROVE  /\ Apart(q)'
         /\ ~At(q, "idle") => Nearer(q) \/ recv'[q] = recv[q]
<1>1. TypeOK
  BY DEF Inv
<1>2. ASSUME recv'[q] = recv[q] PROVE Apart(q)'
  BY <1>2 DEF Apart
<1>3. ASSUME NEW d \in Recvs, d # q,
             \/ \E force \in BOOLEAN : HandleReceive(d, force)
             \/ Step(d) \/ Fail(d)
      PROVE  recv'[q] = recv[q]
  BY <1>1, <1>3 DEF TypeOK, HandleReceive, Step, CheckStatus, Guard, SkipBlob,
     RequestBlob, Goto, Return, ReceiveChunk, BlobReceived, OpenDest, ExportFile,
     ExportFails, Finish, Fail
<1>4. ASSUME NEW force \in BOOLEAN, HandleReceive(q, force)
      PROVE  At(q, "idle") /\ Apart(q)'
  <2>1. recv'[q] = [Idle EXCEPT !.pc = "status"]
    BY <1>1, <1>4 DEF HandleReceive, TypeOK
  <2>2. recv'[q].pc = "status"
    BY <2>1 DEF Idle
  <2>3. QED
    BY <1>4, <2>2 DEF HandleReceive, Apart
<1>5. ASSUME Fail(q) PROVE Nearer(q) /\ Apart(q)'
  BY <1>1, <1>5, ReturnNearer DEF Fail, Return, TypeOK
<1>6. ASSUME Crash PROVE Apart(q)' /\ (~At(q, "idle") => Nearer(q))
  <2>1. recv'[q] = Idle
    BY <1>6 DEF Crash
  <2>2. Apart(q)'
    BY <2>1 DEF Apart, Idle
  <2>3. QED
    BY <2>1, <2>2, ReturnNearer
<1>7. ASSUME \/ \E b \in Blobs : Collect(b)
             \/ GateChanges \/ UserWrites \/ UserMoves \/ UNCHANGED vars
      PROVE  recv'[q] = recv[q]
  BY <1>7 DEF Collect, GateChanges, UserWrites, UserMoves, vars
<1>8. QED
  BY <1>2, <1>3, <1>4, <1>5, <1>6, <1>7, StepNearer DEF Next, Running

\* The measure that makes every receive end (fetch_blob, export), whatever the
\* collector, the gate and other receives do: the safety half of ReceiveEnds,
\* which only adds that the runtime runs a receive on.
THEOREM ReceivesApproachHolds == Spec => ReceivesApproach
<1>1. Init => \A q \in Recvs : Apart(q)
  BY DEF Init, Apart, Idle
<1>2. ASSUME Inv, \A q \in Recvs : Apart(q), [Next]_vars
      PROVE  (\A q \in Recvs : Apart(q))' /\ [NearerEachStep]_vars
  BY <1>2, NextNearer, StepNearer DEF NearerEachStep
<1>3. QED
  BY <1>1, <1>2, InvHolds, PTL DEF Spec, ReceivesApproach

-----------------------------------------------------------------------------
(* The display of a receive. *)

Reports == ({"start"} \X Files) \cup {<<"bytes">>}
Events == ({"file"} \X Files) \cup {<<"done">>, <<"error">>}

\* The pipeline's variables keep their types.
PipeType ==
  /\ progress \in Seq(Reports)
  /\ file \in Files \cup {NoFile}
  /\ ending \in {"no", "done", "error", "lost"}
  /\ events \in Seq(Events)
  /\ shown \in [file : Files \cup {NoFile}, ticked : Seq(Files),
                end : {"no", "done", "error"}]
  /\ got \in Seq(Files)

\* S: the files whose first bytes have come, those of got and perhaps one more.
\* Where the receive is says which, and that no file comes twice.
SentAt(S) ==
  LET r == recv[Client] IN
  /\ ending # "no" => r.pc = "idle"
  /\ \A i, j \in 1 .. Len(S) : S[i] = S[j] => i = j
  /\ r.pc \in {"status", "guard", "next", "stream"} /\ r.blob \notin Files => S = <<>>
  /\ r.pc \in {"next", "stream"} /\ r.blob \in Files =>
       /\ r.todo \subseteq Files \ {r.blob}
       /\ \A i \in 1 .. Len(S) : S[i] \notin r.todo
  /\ r.pc = "next" /\ r.blob \in Files => \A i \in 1 .. Len(S) : S[i] # r.blob
  /\ r.pc = "stream" /\ r.blob \in Files => S = Append(got, r.blob)
  /\ r.pc \in {"next", "export", "write"} \/ ending = "done" => S = got

Sent == {got} \cup {Append(got, f) : f \in Files}

\* How many files the command line has heard of.
Heard == Len(shown.ticked) + IF shown.file = NoFile THEN 0 ELSE 1

\* The files shown are the first ones of S, in their order.
ShownIn(S) ==
  /\ Heard <= Len(S)
  /\ \A i \in 1 .. Len(shown.ticked) : shown.ticked[i] = S[i]
  /\ IF shown.file = NoFile THEN shown.ticked = <<>> ELSE shown.file = S[Heard]

\* The answer is on its way: nothing comes after it.
Answered(S, i) ==
  /\ i = Len(events)
  /\ events[i] \in {<<"done">>, <<"error">>}
  /\ events[i] = <<"done">> => S = got /\ Heard + i = Len(S) + 1
  /\ recv[Client].pc = "idle" /\ progress = <<>> /\ ending \in {"no", "lost"}

\* The events are of the files that follow in S.
ComingIn(S) ==
  \A i \in 1 .. Len(events) :
    \/ Heard + i <= Len(S) /\ events[i] = <<"file", S[Heard + i]>>
    \/ Answered(S, i)

\* Of the first n[i] files of S there are events when the task has read i reports;
\* each file's bytes come right after its start.
Report(S, n, i) ==
  \/ n[i] = n[i - 1] /\ \E f \in Files : progress[i] = <<"start", f>>
  \/ /\ progress[i] = <<"bytes">>
     /\ n[i] = n[i - 1] + 1
     /\ IF i = 1 THEN file = S[n[i]] ELSE progress[i - 1] = <<"start", S[n[i]]>>

\* The reports are of the files that follow those of the events.
ReportsOf(S, n) ==
  /\ n[0] = Heard + Len(events)
  /\ \A i \in 1 .. Len(progress) : Report(S, n, i)
  /\ n[Len(progress)] = Len(S)
  /\ recv[Client].pc = "next" /\ recv[Client].blob \in Files =>
       IF progress = <<>> THEN file = recv[Client].blob
       ELSE progress[Len(progress)] = <<"start", recv[Client].blob>>

\* While the command line waits.
Piping ==
  shown.end = "no" =>
    \E S \in Sent :
      /\ SentAt(S) /\ ShownIn(S) /\ ComingIn(S)
      /\ IF ending = "lost" THEN progress = <<>>
         ELSE \/ \E i \in 1 .. Len(events) : Answered(S, i)
              \/ \E n \in [0 .. Len(progress) -> 0 .. Len(S)] : ReportsOf(S, n)

\* When it has ended.
Settled ==
  shown.end # "no" =>
    /\ recv[Client].pc = "idle" /\ progress = <<>> /\ ending = "no"
    /\ IsPrefix(shown.ticked, got)
    /\ shown.end = "done" => shown.ticked = got

PipeInv == PipeType /\ Piping /\ Settled

\* The first element of a queue is read; the others move up.
LEMMA HeadRead ==
  ASSUME NEW T, NEW s \in Seq(T), s # <<>>
  PROVE  /\ Len(s) \in Nat /\ Len(s) >= 1 /\ Head(s) = s[1] /\ s[1] \in T
         /\ Tail(s) \in Seq(T) /\ Len(Tail(s)) = Len(s) - 1
         /\ \A i \in 1 .. Len(s) - 1 : Tail(s)[i] = s[i + 1]
<1>1. Len(s) \in Nat /\ Len(s) >= 1
  BY EmptySeq, LenProperties
<1>2. Head(s) = s[1] /\ s[1] \in T
  BY <1>1, ElementOfSeq
<1>3. QED
  BY <1>1, <1>2, HeadTailProperties

\* Sent is of sequences that are one longer than got at most.
LEMMA SentType ==
  ASSUME PipeType, NEW S \in Sent
  PROVE  /\ S \in Seq(Files) /\ Len(S) \in Nat /\ Len(got) \in Nat
         /\ S = got \/ Len(S) = Len(got) + 1
         /\ \A i \in 1 .. Len(got) : S[i] = got[i]
         /\ \A i \in 1 .. Len(S) : S[i] \in Files
<1>1. got \in Seq(Files) /\ Len(got) \in Nat
  BY LenProperties DEF PipeType
<1>2. CASE S = got
  BY <1>1, <1>2, ElementOfSeq
<1>3. CASE \E f \in Files : S = Append(got, f)
  <2>1. PICK f \in Files : S = Append(got, f)
    BY <1>3
  <2>2. /\ S \in Seq(Files) /\ Len(S) = Len(got) + 1
        /\ \A i \in 1 .. Len(got) : S[i] = got[i]
    BY <1>1, <2>1, AppendProperties
  <2>3. QED
    BY <1>1, <2>2, ElementOfSeq
<1>4. QED
  BY <1>2, <1>3 DEF Sent

LEMMA HeardType ==
  ASSUME PipeType
  PROVE  Heard \in Nat /\ Len(shown.ticked) \in Nat /\ Len(events) \in Nat /\ Len(progress) \in Nat
         /\ Heard = Len(shown.ticked) + (IF shown.file = NoFile THEN 0 ELSE 1)
<1>1. shown.ticked \in Seq(Files) /\ events \in Seq(Events) /\ progress \in Seq(Reports)
  BY DEF PipeType
<1>2. Len(shown.ticked) \in Nat /\ Len(events) \in Nat /\ Len(progress) \in Nat
  BY <1>1, LenProperties
<1>3. CASE shown.file = NoFile
  BY <1>2, <1>3 DEF Heard
<1>4. CASE shown.file # NoFile
  BY <1>2, <1>4 DEF Heard
<1>5. QED
  BY <1>3, <1>4

\* A report goes from the callback's queue to the task, and perhaps on.
LEMMA ForwardKeeps == ASSUME PipeInv, Forward PROVE PipeInv'
<1>1. /\ PipeType /\ shown.end = "no" /\ progress # <<>>
      /\ recv' = recv /\ ending' = ending /\ shown' = shown /\ got' = got
      /\ progress' = Tail(progress)
  BY DEF PipeInv, Settled, Forward, vars
<1>2. PICK S \in Sent :
        /\ SentAt(S) /\ ShownIn(S) /\ ComingIn(S)
        /\ ending # "lost"
        /\ \A i \in 1 .. Len(events) : ~Answered(S, i)
        /\ \E n \in [0 .. Len(progress) -> 0 .. Len(S)] : ReportsOf(S, n)
  BY <1>1 DEF PipeInv, Piping, Answered
<1>3. PICK n \in [0 .. Len(progress) -> 0 .. Len(S)] : ReportsOf(S, n)
  BY <1>2
<1>4. /\ Len(progress) \in Nat /\ Len(progress) >= 1 /\ Head(progress) = progress[1]
      /\ progress[1] \in Reports
      /\ progress' \in Seq(Reports) /\ Len(progress') = Len(progress) - 1
      /\ \A i \in 1 .. Len(progress) - 1 : progress'[i] = progress[i + 1]
  BY <1>1, HeadRead DEF PipeType
<1>5. /\ Len(S) \in Nat /\ Heard \in Nat /\ Len(events) \in Nat /\ Heard' = Heard
      /\ \A i \in 1 .. Len(S) : S[i] \in Files
  BY <1>1, SentType, HeardType DEF Heard
<1>6. PICK m \in [0 .. Len(progress') -> 0 .. Len(S)] :
        /\ m[0] = n[1] /\ m[Len(progress')] = n[Len(progress)]
        /\ \A i \in 1 .. Len(progress') : m[i] = n[i + 1] /\ m[i - 1] = n[i]
  <2> DEFINE k == [i \in 0 .. Len(progress') |-> n[i + 1]]
  <2>1. /\ k \in [0 .. Len(progress') -> 0 .. Len(S)]
        /\ k[0] = n[1] /\ k[Len(progress')] = n[Len(progress)]
        /\ \A i \in 1 .. Len(progress') : k[i] = n[i + 1] /\ k[i - 1] = n[i]
    BY <1>4
  <2>2. QED
    BY <2>1
<1>7. /\ n[0] = Heard + Len(events) /\ n[Len(progress)] = Len(S)
      /\ \A i \in 1 .. Len(progress) : Report(S, n, i)
  BY <1>3 DEF ReportsOf
<1>8. /\ \A i \in 0 .. Len(progress) : n[i] \in 0 .. Len(S)
      /\ Report(S, n, 1)
  <2>1. 1 \in 1 .. Len(progress)
    BY <1>4
  <2>2. Report(S, n, 1)
    BY <1>7, <2>1
  <2>3. \A i \in 0 .. Len(progress) : n[i] \in 0 .. Len(S)
    BY <1>3
  <2>4. QED
    BY <2>2, <2>3
<1>9. /\ SentAt(S)' /\ ShownIn(S)' /\ S \in Sent'
      /\ recv[Client].pc = "next" /\ recv[Client].blob \in Files =>
           progress[Len(progress)] = <<"start", recv[Client].blob>>
  BY <1>1, <1>2, <1>3 DEF SentAt, ShownIn, Heard, Sent, ReportsOf
<1>10. ASSUME ComingIn(S)', n[1] = Heard + Len(events'),
              events' \in Seq(Events), file' \in Files \cup {NoFile},
              progress[1] = <<"bytes">> \/ progress[1] = <<"start", file'>>
       PROVE  PipeInv'
  <2>1. ASSUME NEW i \in 1 .. Len(progress') PROVE Report(S, m, i)'
    <3>1. Report(S, n, i + 1) /\ i + 1 \in 1 .. Len(progress)
      BY <1>4, <1>7
    <3>2. /\ m[i] = n[i + 1] /\ m[i - 1] = n[i] /\ progress'[i] = progress[i + 1]
          /\ (i + 1) - 1 = i
      BY <1>4, <1>6
    <3>3. i # 1 => progress'[i - 1] = progress[i]
      BY <1>4
    <3>4. CASE n[i + 1] = n[i] /\ \E f \in Files : progress[i + 1] = <<"start", f>>
      BY <3>2, <3>4 DEF Report
    <3>5. CASE /\ progress[i + 1] = <<"bytes">>
               /\ n[i + 1] = n[i] + 1
               /\ progress[i] = <<"start", S[n[i + 1]]>>
      <4>1. i = 1 => file' = S[n[i + 1]]
        BY <1>10, <3>5
      <4>2. QED
        BY <3>2, <3>3, <3>5, <4>1 DEF Report
    <3>6. QED
      BY <3>1, <3>2, <3>4, <3>5 DEF Report
  <2>2. recv'[Client].pc = "next" /\ recv'[Client].blob \in Files =>
          IF progress' = <<>> THEN file' = recv'[Client].blob
          ELSE progress'[Len(progress')] = <<"start", recv'[Client].blob>>
    <3> SUFFICES ASSUME recv[Client].pc = "next" /\ recv[Client].blob \in Files
                 PROVE  IF progress' = <<>> THEN file' = recv[Client].blob
                        ELSE progress'[Len(progress')] = <<"start", recv[Client].blob>>
      BY <1>1
    <3>1. CASE progress' = <<>>
      <4>1. Len(progress) = 1
        BY <1>4, <3>1
      <4>2. QED
        BY <1>9, <1>10, <3>1, <4>1
    <3>2. CASE progress' # <<>>
      <4>1. Len(progress) > 1
        BY <1>4, <3>2, EmptySeq
      <4>2. QED
        BY <1>4, <1>9, <3>2, <4>1
    <3>3. QED
      BY <3>1, <3>2
  <2>3. ReportsOf(S, m)'
    BY <1>6, <1>7, <1>5, <1>10, <2>1, <2>2 DEF ReportsOf
  <2>4. PipeType'
    BY <1>1, <1>4, <1>10 DEF PipeType
  <2>5. Piping'
    <3>1. m \in [0 .. Len(progress) -> 0 .. Len(S)]'
      BY <1>6
    <3>2. QED
      BY <1>1, <1>2, <1>9, <1>10, <2>3, <3>1 DEF Piping
  <2>6. QED
    BY <1>1, <2>4, <2>5 DEF PipeInv, Settled
<1>11. CASE progress[1][1] = "start"
  <2>1. PICK f \in Files : progress[1] = <<"start", f>>
    BY <1>4, <1>11 DEF Reports
  <2>2. file' = f /\ events' = events
    BY <1>4, <2>1 DEF Forward
  <2>3. n[1] = n[0]
    BY <1>8, <2>1 DEF Report
  <2>4. ComingIn(S)'
    BY <1>1, <1>2, <1>5, <2>2 DEF ComingIn, Answered, Heard
  <2>5. QED
    BY <1>1, <1>7, <1>10, <2>1, <2>2, <2>3, <2>4 DEF PipeType
<1>12. CASE progress[1][1] # "start"
  <2>1. progress[1] = <<"bytes">>
    BY <1>4, <1>12 DEF Reports
  <2>2. file' = file /\ events' = Append(events, <<"file", file>>)
    BY <1>4, <1>12 DEF Forward
  <2>3. n[1] = n[0] + 1 /\ file = S[n[1]]
    BY <1>8, <2>1 DEF Report
  <2>4. n[1] \in 1 .. Len(S) /\ file \in Files
    BY <1>4, <1>5, <1>8, <1>7, <2>3
  <2>5. <<"file", file>> \in Events /\ events \in Seq(Events)
    BY <1>1, <2>4 DEF Events, PipeType
  <2>6. /\ events' \in Seq(Events) /\ Len(events') = Len(events) + 1
        /\ \A i \in 1 .. Len(events) : events'[i] = events[i]
        /\ events'[Len(events) + 1] = <<"file", file>>
    BY <2>2, <2>5, AppendProperties
  <2>7. ComingIn(S)'
    <3>1. ASSUME NEW i \in 1 .. Len(events')
          PROVE  Heard + i <= Len(S) /\ events'[i] = <<"file", S[Heard + i]>>
      <4>1. CASE i \in 1 .. Len(events)
        BY <1>2, <2>6, <4>1 DEF ComingIn
      <4>2. CASE i = Len(events) + 1
        BY <1>5, <1>7, <2>3, <2>4, <2>6, <4>2
      <4>3. QED
        BY <1>5, <2>6, <4>1, <4>2
    <3>2. QED
      BY <1>5, <3>1 DEF ComingIn
  <2>8. QED
    BY <1>1, <1>5, <1>7, <1>10, <2>1, <2>2, <2>3, <2>6, <2>7 DEF PipeType
<1>13. QED
  BY <1>11, <1>12

\* The answer joins the events once the task has read all reports.
LEMMA AnswerKeeps == ASSUME PipeInv, Answer PROVE PipeInv'
<1>1. /\ PipeType /\ shown.end = "no" /\ progress = <<>> /\ ending \in {"done", "error"}
      /\ recv' = recv /\ ending' = "no" /\ shown' = shown /\ got' = got
      /\ progress' = progress /\ file' = NoFile /\ events' = Append(events, <<ending>>)
  BY DEF PipeInv, Settled, Answer, vars
<1>2. PICK S \in Sent :
        /\ SentAt(S) /\ ShownIn(S) /\ ComingIn(S)
        /\ \E n \in [0 .. Len(progress) -> 0 .. Len(S)] : ReportsOf(S, n)
  BY <1>1 DEF PipeInv, Piping, Answered
<1>3. PICK n \in [0 .. Len(progress) -> 0 .. Len(S)] : ReportsOf(S, n)
  BY <1>2
<1>4. /\ Len(S) \in Nat /\ Heard \in Nat /\ Len(events) \in Nat /\ Heard' = Heard
      /\ Len(progress) = 0
  BY <1>1, SentType, HeardType, EmptySeq DEF Heard
<1>5. Len(S) = Heard + Len(events)
  BY <1>3, <1>4 DEF ReportsOf
<1>6. <<ending>> \in Events /\ events \in Seq(Events)
  BY <1>1 DEF Events, PipeType
<1>7. /\ events' \in Seq(Events) /\ Len(events') = Len(events) + 1
      /\ \A i \in 1 .. Len(events) : events'[i] = events[i]
      /\ events'[Len(events) + 1] = <<ending>>
  BY <1>1, <1>6, AppendProperties
<1>8. SentAt(S)' /\ ShownIn(S)' /\ S \in Sent' /\ recv[Client].pc = "idle"
  BY <1>1, <1>2 DEF SentAt, ShownIn, Heard, Sent
<1>9. Answered(S, Len(events))'
  <2>1. ending = "done" => S = got
    BY <1>1, <1>2 DEF SentAt
  <2>2. <<ending>> \in {<<"done">>, <<"error">>} /\ (<<ending>> = <<"done">> => ending = "done")
    BY <1>1
  <2>3. QED
    BY <1>1, <1>4, <1>5, <1>7, <1>8, <2>1, <2>2 DEF Answered
<1>10. ComingIn(S)'
  <2>1. ASSUME NEW i \in 1 .. Len(events)
        PROVE  Heard + i <= Len(S) /\ events'[i] = <<"file", S[Heard + i]>>
    BY <1>1, <1>2, <1>7 DEF ComingIn, Answered
  <2>2. ASSUME NEW i \in 1 .. Len(events'), i \notin 1 .. Len(events)
        PROVE  i = Len(events')
    BY <1>4, <1>7, <2>2
  <2>3. QED
    BY <1>4, <1>9, <2>1, <2>2 DEF ComingIn
<1>11. Piping'
  <2>1. Len(events') \in 1 .. Len(events')
    BY <1>4, <1>7
  <2>2. QED
    BY <1>1, <1>8, <1>9, <1>10, <2>1 DEF Piping
<1>12. PipeType' /\ Settled'
  BY <1>1, <1>7 DEF PipeType, Settled
<1>13. QED
  BY <1>11, <1>12 DEF PipeInv

\* The file shown joins the ticks.
LEMMA TickedIs ==
  ASSUME PipeType, NEW S \in Sent, ShownIn(S)
  PROVE  /\ Ticked \in Seq(Files) /\ Len(Ticked) = Heard
         /\ \A i \in 1 .. Heard : Ticked[i] = S[i]
<1>1. shown.ticked \in Seq(Files) /\ Len(shown.ticked) \in Nat /\ shown.file \in Files \cup {NoFile}
  BY HeardType DEF PipeType
<1>2. CASE shown.file = NoFile
  BY <1>1, <1>2, EmptySeq DEF Ticked, Heard, ShownIn
<1>3. CASE shown.file # NoFile
  <2>1. Ticked = Append(shown.ticked, shown.file) /\ Heard = Len(shown.ticked) + 1
    BY <1>3 DEF Ticked, Heard
  <2>2. /\ Ticked \in Seq(Files) /\ Len(Ticked) = Heard
        /\ \A i \in 1 .. Len(shown.ticked) : Ticked[i] = shown.ticked[i]
        /\ Ticked[Heard] = shown.file
    BY <1>1, <1>3, <2>1, AppendProperties
  <2>3. /\ \A i \in 1 .. Len(shown.ticked) : shown.ticked[i] = S[i]
        /\ shown.file = S[Heard]
    BY <1>3 DEF ShownIn
  <2>4. QED
    BY <1>1, <2>1, <2>2, <2>3
<1>4. QED
  BY <1>2, <1>3

LEMMA PrefixByElement ==
  ASSUME NEW T, NEW s \in Seq(T), NEW t \in Seq(T), Len(s) <= Len(t),
         \A i \in 1 .. Len(s) : s[i] = t[i]
  PROVE  IsPrefix(s, t)
<1>1. Len(s) \in Nat /\ Len(t) \in Nat
  BY LenProperties
<1>2. \A i \in 1 .. Len(s) : s[i] \in T /\ t[i] \in T
  BY <1>1, ElementOfSeq
<1>3. /\ SubSeq(s, 1, Len(s)) \in Seq(T) /\ SubSeq(t, 1, Len(s)) \in Seq(T)
      /\ Len(SubSeq(s, 1, Len(s))) = Len(s) /\ Len(SubSeq(t, 1, Len(s))) = Len(s)
      /\ \A i \in 1 .. Len(s) : SubSeq(s, 1, Len(s))[i] = s[i]
      /\ \A i \in 1 .. Len(s) : SubSeq(t, 1, Len(s))[i] = t[i]
  BY <1>1, <1>2, SubSeqProperties
<1>4. SubSeq(s, 1, Len(s)) = SubSeq(t, 1, Len(s))
  BY <1>3, SeqEqual
<1>5. QED
  BY <1>4 DEF IsPrefix

\* What has been ticked off, without the file shown, has come whole.
LEMMA TicksArePrefix ==
  ASSUME PipeType, NEW S \in Sent, ShownIn(S) PROVE IsPrefix(shown.ticked, got)
<1>1. /\ shown.ticked \in Seq(Files) /\ got \in Seq(Files)
      /\ Len(shown.ticked) \in Nat /\ Len(got) \in Nat /\ Len(S) \in Nat
      /\ S = got \/ Len(S) = Len(got) + 1
      /\ \A i \in 1 .. Len(got) : S[i] = got[i]
  BY HeardType, SentType DEF PipeType
<1>2. Len(shown.ticked) <= Len(got)
  <2>1. CASE shown.file = NoFile
    BY <1>1, <2>1, EmptySeq DEF ShownIn
  <2>2. CASE shown.file # NoFile
    BY <1>1, <2>2 DEF ShownIn, Heard
  <2>3. QED
    BY <2>1, <2>2
<1>3. \A i \in 1 .. Len(shown.ticked) : shown.ticked[i] = got[i]
  BY <1>1, <1>2 DEF ShownIn
<1>4. QED
  BY <1>1, <1>2, <1>3, PrefixByElement

\* The next file's first event ends the file shown.
LEMMA ReadProgressKeeps == ASSUME PipeInv, ReadProgress PROVE PipeInv'
<1>1. /\ PipeType /\ shown.end = "no" /\ events # <<>>
      /\ recv' = recv /\ ending' = ending /\ got' = got /\ progress' = progress /\ file' = file
      /\ events' = Tail(events)
  BY DEF PipeInv, ReadProgress, vars
<1>2. PICK S \in Sent :
        /\ SentAt(S) /\ ShownIn(S) /\ ComingIn(S)
        /\ IF ending = "lost" THEN progress = <<>>
           ELSE \/ \E i \in 1 .. Len(events) : Answered(S, i)
                \/ \E n \in [0 .. Len(progress) -> 0 .. Len(S)] : ReportsOf(S, n)
  BY <1>1 DEF PipeInv, Piping
<1>3. /\ Len(events) \in Nat /\ Len(events) >= 1 /\ Head(events) = events[1]
      /\ events' \in Seq(Events) /\ Len(events') = Len(events) - 1
      /\ \A i \in 1 .. Len(events) - 1 : events'[i] = events[i + 1]
  BY <1>1, HeadRead DEF PipeType
<1>4. /\ Len(S) \in Nat /\ Heard \in Nat
      /\ \A i \in 1 .. Len(S) : S[i] \in Files
  BY <1>1, SentType, HeardType
<1>5. ~Answered(S, 1)
  <2>1. events[1][1] = "file"
    BY <1>3 DEF ReadProgress
  <2>2. <<"done">>[1] = "done" /\ <<"error">>[1] = "error"
    OBVIOUS
  <2>3. QED
    BY <2>1, <2>2 DEF Answered
<1>6. Heard + 1 <= Len(S) /\ events[1] = <<"file", S[Heard + 1]>>
  BY <1>2, <1>3, <1>5 DEF ComingIn
<1>7. S[Heard + 1] \in Files /\ S[Heard + 1] # NoFile /\ S[Heard + 1] # shown.file
  <2>1. S[Heard + 1] \in Files
    BY <1>4, <1>6
  <2>2. ASSUME shown.file # NoFile PROVE S[Heard + 1] # shown.file
    <3>1. shown.file = S[Heard] /\ Heard >= 1
      BY <1>1, <1>2, <2>2, HeardType DEF ShownIn
    <3>2. QED
      BY <1>2, <1>4, <1>6, <3>1 DEF SentAt
  <2>3. QED
    BY <2>1, <2>2, ProgressAssumption
<1>8. /\ shown' = [shown EXCEPT !.file = S[Heard + 1], !.ticked = Ticked]
      /\ shown \in [file : Files \cup {NoFile}, ticked : Seq(Files), end : {"no", "done", "error"}]
  <2>1. Head(events)[2] = S[Heard + 1]
    BY <1>3, <1>6
  <2>2. shown' = [shown EXCEPT !.file = Head(events)[2], !.ticked = Ticked]
    BY <1>7, <2>1 DEF ReadProgress
  <2>3. QED
    BY <1>1, <2>1, <2>2 DEF PipeType
<1>9. /\ Ticked \in Seq(Files) /\ Len(Ticked) = Heard
      /\ \A i \in 1 .. Heard : Ticked[i] = S[i]
  BY <1>1, <1>2, TickedIs
<1>10. shown'.file = S[Heard + 1] /\ shown'.ticked = Ticked /\ shown'.end = "no"
  BY <1>1, <1>8
<1>11. Heard' = Heard + 1
  BY <1>7, <1>9, <1>10 DEF Heard
<1>12. PipeType'
  <2>1. shown' \in [file : Files \cup {NoFile}, ticked : Seq(Files), end : {"no", "done", "error"}]
    BY <1>7, <1>8, <1>9
  <2>2. QED
    BY <1>1, <1>3, <2>1 DEF PipeType
<1>13. SentAt(S)' /\ S \in Sent'
  BY <1>1, <1>2 DEF SentAt, Sent
<1>14. ShownIn(S)'
  BY <1>6, <1>7, <1>9, <1>10, <1>11 DEF ShownIn
<1>15. ASSUME NEW i \in 1 .. Len(events'), Answered(S, i + 1) PROVE Answered(S, i)'
  <2>1. events'[i] = events[i + 1] /\ i + 1 = Len(events) /\ i = Len(events')
    BY <1>3, <1>15 DEF Answered
  <2>2. Heard + (i + 1) = Len(S) + 1 => Heard' + i = Len(S) + 1
    BY <1>4, <1>11
  <2>3. QED
    BY <1>1, <1>15, <2>1, <2>2 DEF Answered
<1>16. ComingIn(S)'
  <2>1. ASSUME NEW i \in 1 .. Len(events'),
               Heard + (i + 1) <= Len(S), events[i + 1] = <<"file", S[Heard + (i + 1)]>>
        PROVE  Heard' + i <= Len(S) /\ events'[i] = <<"file", S[Heard' + i]>>
    <3>1. Heard + (i + 1) = Heard' + i
      BY <1>4, <1>11
    <3>2. QED
      BY <1>3, <2>1, <3>1
  <2>2. ASSUME NEW i \in 1 .. Len(events') PROVE i + 1 \in 1 .. Len(events)
    BY <1>3
  <2>3. QED
    BY <1>2, <1>15, <2>1, <2>2 DEF ComingIn
<1>17. CASE ending = "lost"
  BY <1>1, <1>2, <1>10, <1>12, <1>13, <1>14, <1>16, <1>17 DEF PipeInv, Piping, Settled
<1>18. CASE ending # "lost" /\ \E i \in 1 .. Len(events) : Answered(S, i)
  <2>1. PICK i \in 1 .. Len(events) : Answered(S, i)
    BY <1>18
  <2>2. i - 1 \in 1 .. Len(events') /\ (i - 1) + 1 = i
    BY <1>3, <1>5, <2>1
  <2>3. Answered(S, i - 1)'
    BY <1>15, <2>1, <2>2
  <2>4. QED
    BY <1>1, <1>10, <1>12, <1>13, <1>14, <1>16, <2>2, <2>3 DEF PipeInv, Piping, Settled
<1>19. CASE /\ ending # "lost"
            /\ \E n \in [0 .. Len(progress) -> 0 .. Len(S)] : ReportsOf(S, n)
  <2>1. PICK n \in [0 .. Len(progress) -> 0 .. Len(S)] : ReportsOf(S, n)
    BY <1>19
  <2>2. ReportsOf(S, n)'
    <3>1. Heard + Len(events) = Heard' + Len(events')
      BY <1>3, <1>4, <1>11
    <3>2. QED
      BY <1>1, <2>1, <3>1 DEF ReportsOf, Report
  <2>3. QED
    BY <1>1, <1>10, <1>12, <1>13, <1>14, <1>16, <2>2 DEF PipeInv, Piping, Settled
<1>20. QED
  BY <1>2, <1>17, <1>18, <1>19

\* The answer is the last event. Done comes when all of got has been heard of.
LEMMA ReadEndKeeps == ASSUME PipeInv, ReadEnd PROVE PipeInv'
<1>1. /\ PipeType /\ shown.end = "no" /\ events # <<>>
      /\ recv' = recv /\ ending' = "no" /\ got' = got /\ progress' = progress /\ file' = file
      /\ events' = Tail(events)
  BY DEF PipeInv, ReadEnd, vars
<1>2. PICK S \in Sent : SentAt(S) /\ ShownIn(S) /\ ComingIn(S)
  BY <1>1 DEF PipeInv, Piping
<1>3. /\ Len(events) \in Nat /\ Len(events) >= 1 /\ Head(events) = events[1]
      /\ events' \in Seq(Events) /\ events[1][1] \in {"done", "error"}
  BY <1>1, HeadRead DEF PipeType, ReadEnd
<1>4. Answered(S, 1)
  <2>1. events[1] # <<"file", S[Heard + 1]>>
    BY <1>3
  <2>2. QED
    BY <1>2, <1>3, <2>1 DEF ComingIn
<1>5. shown' = [file |-> NoFile, end |-> events[1][1],
                ticked |-> IF events[1][1] = "done" THEN Ticked ELSE shown.ticked]
  BY <1>3 DEF ReadEnd
<1>6. /\ Ticked \in Seq(Files) /\ Len(Ticked) = Heard
      /\ \A i \in 1 .. Heard : Ticked[i] = S[i]
  BY <1>1, <1>2, TickedIs
<1>7. got \in Seq(Files) /\ shown.ticked \in Seq(Files) /\ Len(S) \in Nat /\ Heard \in Nat
  BY <1>1, SentType, HeardType DEF PipeType
<1>8. ASSUME events[1][1] = "done" PROVE Ticked = got
  <2>1. S = got /\ Heard + 1 = Len(S) + 1
    <3>1. events[1] = <<"done">>
      BY <1>4, <1>8 DEF Answered
    <3>2. QED
      BY <1>4, <3>1 DEF Answered
  <2>2. QED
    BY <1>6, <1>7, <2>1, SeqEqual
<1>9. IsPrefix(shown.ticked, got) /\ IsPrefix(got, got)
  BY <1>1, <1>2, <1>7, TicksArePrefix, PrefixByElement, LenProperties
<1>10. /\ shown'.end \in {"done", "error"} /\ shown'.ticked \in Seq(Files)
       /\ shown' \in [file : Files \cup {NoFile}, ticked : Seq(Files), end : {"no", "done", "error"}]
       /\ IsPrefix(shown'.ticked, got)
       /\ shown'.end = "done" => shown'.ticked = got
  <2>1. CASE events[1][1] = "done"
    BY <1>3, <1>5, <1>7, <1>8, <1>9, <2>1
  <2>2. CASE events[1][1] = "error"
    BY <1>3, <1>5, <1>7, <1>9, <2>2
  <2>3. QED
    BY <1>3, <2>1, <2>2
<1>11. PipeType'
  BY <1>1, <1>3, <1>10 DEF PipeType
<1>12. Settled'
  BY <1>1, <1>4, <1>10 DEF Settled, Answered
<1>13. QED
  BY <1>10, <1>11, <1>12 DEF PipeInv, Piping

\* The end of the connection ticks nothing off.
LEMMA ReadEofKeeps == ASSUME PipeInv, ReadEof PROVE PipeInv'
<1>1. /\ PipeType /\ shown.end = "no" /\ ending = "lost"
      /\ recv' = recv /\ ending' = "no" /\ got' = got /\ progress' = progress /\ file' = file
      /\ events' = events /\ shown' = [shown EXCEPT !.end = "error"]
  BY DEF PipeInv, ReadEof, vars
<1>2. PICK S \in Sent : SentAt(S) /\ ShownIn(S) /\ progress = <<>>
  BY <1>1 DEF PipeInv, Piping
<1>3. shown'.end = "error" /\ shown'.ticked = shown.ticked
  BY <1>1 DEF PipeType
<1>4. PipeType'
  BY <1>1 DEF PipeType
<1>5. Settled'
  <2>1. IsPrefix(shown.ticked, got) /\ recv[Client].pc = "idle"
    BY <1>1, <1>2, TicksArePrefix DEF SentAt
  <2>2. QED
    BY <1>1, <1>2, <1>3, <2>1 DEF Settled
<1>6. QED
  BY <1>3, <1>4, <1>5 DEF PipeInv, Piping

\* Of the events on their way, the first ones arrive.
LEMMA LoseKeeps == ASSUME PipeInv, Lose PROVE PipeInv'
<1>1. PICK k \in 0 .. Len(events) : events' = SubSeq(events, 1, k)
  BY DEF Lose
<1>2. /\ PipeType /\ recv'[Client] = Idle /\ progress' = <<>> /\ file' = NoFile
      /\ ending' = (IF shown.end = "no" THEN "lost" ELSE "no")
      /\ shown' = shown /\ got' = got
  BY ProgressAssumption DEF PipeInv, Lose, Crash
<1>3. /\ events' \in Seq(Events) /\ Len(events') = k
      /\ \A i \in 1 .. k : events'[i] = events[i]
      /\ Len(events) \in Nat /\ k \in 0 .. Len(events)
  <2>1. events \in Seq(Events) /\ Len(events) \in Nat
    BY <1>2, LenProperties DEF PipeType
  <2>2. \A i \in 1 .. k : events[i] \in Events
    BY <2>1, ElementOfSeq
  <2>3. QED
    BY <1>1, <2>1, <2>2, SubSeqProperties
<1>4. Idle.pc = "idle" /\ Idle.blob = Root /\ <<>> \in Seq(Reports)
  BY EmptySeq DEF Idle
<1>5. PipeType'
  BY <1>2, <1>3, <1>4 DEF PipeType
<1>6. CASE shown.end # "no"
  BY <1>2, <1>4, <1>5, <1>6 DEF PipeInv, Settled, Piping
<1>7. CASE shown.end = "no"
  <2>1. PICK S \in Sent : SentAt(S) /\ ShownIn(S) /\ ComingIn(S)
    BY <1>7 DEF PipeInv, Piping
  <2>2. SentAt(S)' /\ ShownIn(S)' /\ S \in Sent' /\ Heard' = Heard
    BY <1>2, <1>4, <1>7, <2>1 DEF SentAt, ShownIn, Heard, Sent
  <2>3. ComingIn(S)'
    <3>1. ASSUME NEW i \in 1 .. Len(events'), Answered(S, i) PROVE Answered(S, i)'
      <4>1. i = Len(events) /\ k = Len(events)
        BY <1>3, <3>1 DEF Answered
      <4>2. QED
        BY <1>2, <1>3, <1>4, <1>7, <2>2, <3>1, <4>1 DEF Answered
    <3>2. QED
      BY <1>3, <2>1, <2>2, <3>1 DEF ComingIn
  <2>4. QED
    BY <1>2, <1>4, <1>5, <1>7, <2>1, <2>2, <2>3 DEF PipeInv, Piping, Settled
<1>8. QED
  BY <1>6, <1>7

-----------------------------------------------------------------------------
(* The steps of the watched receive. *)

\* Where they lead, and when.
Moves ==
  LET r == recv[Client]
      s == recv'[Client] IN
  \/ s = r
  \/ r.pc = "idle" /\ s.pc = "status" /\ s.blob = Root
  \/ /\ r.pc \in {"status", "guard", "next", "stream"} /\ r.blob \notin Files
     /\ s.pc \in {"guard", "next", "stream", "export"} /\ s.blob \notin Files
  \/ /\ r.pc \in {"next", "stream"} /\ r.blob \notin Files
     /\ s.pc = "next" /\ s.blob \in Files /\ s.todo = Files \ {s.blob}
  \/ /\ r.pc \in {"next", "stream"} /\ r.blob \in Files
     /\ s.pc = "stream" /\ s.blob = r.blob /\ s.todo = r.todo
  \/ /\ r.pc = "next" \/ (r.pc = "stream" /\ Complete(r.blob))
     /\ r.blob \in Files
     /\ \/ s.pc = "next" /\ s.blob \in r.todo /\ s.todo = r.todo \ {s.blob}
        \/ s.pc = "export"
  \/ r.pc \in {"export", "write"} /\ s.pc = "write"
  \/ r.pc # "idle" /\ s.pc = "idle"

\* Onward, by the blob that the receive has just got.
LEMMA OnwardMoves ==
  ASSUME Inv, At(Client, "next") \/ (At(Client, "stream") /\ Complete(recv[Client].blob)),
         recv'[Client] = Onward(Client)
  PROVE  Moves
<1> DEFINE r == recv[Client]
           todo == IF r.blob = Meta THEN Files ELSE r.todo
           f == CHOOSE x \in todo : TRUE
<1>1. /\ Placed(Client) /\ r \in Receive /\ format \in {"Raw", "HashSeq"}
      /\ r.pc \in {"next", "stream"}
      /\ r.pc = "next" \/ (r.pc = "stream" /\ Complete(r.blob))
      /\ Root \notin Files /\ Meta \notin Files /\ Root # Meta
  BY TransferAssumption, ProgressAssumption DEF Inv, TypeOK, Good, Receive, At
<1>2. CASE r.blob = Root /\ format = "HashSeq"
  <2>1. Onward(Client) = [r EXCEPT !.pc = "next", !.blob = Meta, !.pos = 0]
    BY <1>2 DEF Onward
  <2>2. Onward(Client).pc = "next" /\ Onward(Client).blob = Meta
    BY <1>1, <2>1 DEF Receive
  <2>3. QED
    BY <1>1, <1>2, <2>2 DEF Moves
<1>3. CASE ~(r.blob = Root /\ format = "HashSeq") /\ (format = "Raw" \/ todo = {})
  <2>1. Onward(Client) = [r EXCEPT !.pc = "export", !.pos = 0, !.todo = Targets]
    BY <1>3 DEF Onward
  <2>2. Onward(Client).pc = "export" /\ Onward(Client).blob = r.blob
    BY <1>1, <2>1 DEF Receive
  <2>3. QED
    BY <1>1, <2>2 DEF Moves
<1>4. CASE ~(r.blob = Root /\ format = "HashSeq") /\ ~(format = "Raw" \/ todo = {})
  <2>1. Onward(Client) = [r EXCEPT !.pc = "next", !.blob = f, !.pos = 0, !.todo = todo \ {f}]
    BY <1>4 DEF Onward
  <2>2. f \in todo
    BY <1>4
  <2>3. /\ Onward(Client).pc = "next" /\ Onward(Client).blob = f
        /\ Onward(Client).todo = todo \ {f}
    <3> HIDE DEF f, todo
    <3>1. QED
      BY <1>1, <2>1 DEF Receive
  <2>4. r.blob # Root
    BY <1>1, <1>4
  <2>5. CASE r.blob = Meta
    BY <1>1, <2>2, <2>3, <2>5 DEF Moves
  <2>6. CASE r.blob \in Files
    BY <1>1, <2>2, <2>3, <2>6 DEF Moves
  <2>7. QED
    BY <1>1, <2>4, <2>5, <2>6 DEF Receive, Blobs
<1>5. QED
  BY <1>2, <1>3, <1>4

LEMMA ClientMoves == ASSUME Inv, Running PROVE Moves
<1>1. /\ Client \in Recvs /\ TypeOK /\ Good(Client) /\ recv[Client] \in Receive
      /\ Root \notin Files /\ Meta \notin Files
  BY TransferAssumption, ProgressAssumption DEF Inv, TypeOK, Receive
<1>2. ASSUME NEW q \in Recvs, NEW force \in BOOLEAN, HandleReceive(q, force) PROVE Moves
  <2>1. CASE q = Client
    <3>1. recv'[Client] = [Idle EXCEPT !.pc = "status"] /\ recv[Client].pc = "idle"
      BY <1>1, <1>2, <2>1 DEF HandleReceive, At, TypeOK
    <3>2. recv'[Client].pc = "status" /\ recv'[Client].blob = Root
      BY <3>1 DEF Idle
    <3>3. QED
      BY <3>1, <3>2 DEF Moves
  <2>2. CASE q # Client
    BY <1>1, <1>2, <2>2 DEF HandleReceive, TypeOK, Moves
  <2>3. QED
    BY <2>1, <2>2
<1>3. ASSUME NEW q \in Recvs, Step(q) \/ Fail(q), q # Client PROVE Moves
  <2>1. recv'[Client] = recv[Client]
    BY <1>1, <1>3 DEF TypeOK, Step, CheckStatus, Guard, SkipBlob, RequestBlob, Goto, Return,
       ReceiveChunk, BlobReceived, OpenDest, ExportFile, ExportFails, Finish, Fail
  <2>2. QED
    BY <2>1 DEF Moves
<1>4. ASSUME Return(Client), recv[Client].pc # "idle" PROVE Moves
  <2>1. recv'[Client] = Idle
    BY <1>1, <1>4 DEF Return, TypeOK
  <2>2. QED
    BY <1>4, <2>1 DEF Moves, Idle
<1>5. CASE CheckStatus(Client)
  <2>1. /\ recv[Client].pc = "status" /\ recv'[Client].pc \in {"export", "guard"}
        /\ recv'[Client].blob = recv[Client].blob
    BY <1>1, <1>5 DEF CheckStatus, At, TypeOK
  <2>2. recv[Client].blob = Root
    BY <1>1, <2>1 DEF Good, Placed
  <2>3. QED
    BY <1>1, <2>1, <2>2 DEF Moves
<1>6. CASE Guard(Client)
  <2>1. /\ recv[Client].pc = "guard" /\ recv'[Client].pc = "next"
        /\ recv'[Client].blob = Root
    BY <1>1, <1>6 DEF Guard, At, TypeOK
  <2>2. recv[Client].blob = Root
    BY <1>1, <2>1 DEF Good, Placed
  <2>3. QED
    BY <1>1, <2>1, <2>2 DEF Moves
<1>7. CASE SkipBlob(Client)
  <2>1. At(Client, "next") /\ recv'[Client] = Onward(Client)
    BY <1>1, <1>7 DEF SkipBlob, TypeOK
  <2>2. QED
    BY <2>1, OnwardMoves
<1>8. CASE RequestBlob(Client)
  <2>1. recv[Client].pc = "next"
    BY <1>8 DEF RequestBlob, At
  <2>2. CASE Goto(Client, "stream")
    <3>1. /\ recv'[Client].pc = "stream" /\ recv'[Client].blob = recv[Client].blob
          /\ recv'[Client].todo = recv[Client].todo
      BY <1>1, <2>2 DEF Goto, TypeOK
    <3>2. QED
      BY <2>1, <3>1 DEF Moves
  <2>3. QED
    BY <1>4, <1>8, <2>1, <2>2 DEF RequestBlob
<1>9. CASE ReceiveChunk(Client)
  <2>1. /\ recv[Client].pc = "stream" /\ recv'[Client].pc = "stream"
        /\ recv'[Client].blob = recv[Client].blob
        /\ recv'[Client].todo = recv[Client].todo
    BY <1>1, <1>9 DEF ReceiveChunk, At, TypeOK
  <2>2. QED
    BY <2>1 DEF Moves
<1>10. CASE BlobReceived(Client)
  <2>1. At(Client, "stream") /\ recv'[Client] = Onward(Client)
    BY <1>1, <1>10 DEF BlobReceived, TypeOK
  <2>2. Complete(recv[Client].blob)
    <3>1. have[recv[Client].blob] \in 0 .. Chunks /\ have[recv[Client].blob] >= Chunks
      BY <1>1, <1>10 DEF TypeOK, Good, Fetched, BlobReceived
    <3>2. QED
      BY <3>1, TransferAssumption DEF Complete
  <2>3. QED
    BY <2>1, <2>2, OnwardMoves
<1>11. CASE OpenDest(Client) \/ ExportFile(Client)
  <2>1. recv[Client].pc \in {"export", "write"}
    BY <1>11 DEF OpenDest, ExportFile, At
  <2>2. Return(Client) \/ recv'[Client].pc = "write"
    BY <1>1, <1>11 DEF OpenDest, ExportFile, At, TypeOK
  <2>3. QED
    BY <1>4, <2>1, <2>2 DEF Moves
<1>12. CASE ExportFails(Client) \/ Finish(Client) \/ Fail(Client)
  BY <1>4, <1>12 DEF ExportFails, Finish, Fail, At
<1>13. CASE \/ \E b \in Blobs : Collect(b)
            \/ GateChanges \/ UserWrites \/ UserMoves
  BY <1>13 DEF Collect, GateChanges, UserWrites, UserMoves, Moves
<1>14. QED
  BY <1>2, <1>3, <1>5, <1>6, <1>7, <1>8, <1>9, <1>10, <1>11, <1>12, <1>13 DEF Running, Step

\* The watched receive stays where it is.
LEMMA StillKeeps ==
  ASSUME PipeInv, UNCHANGED <<pipe, got>>, recv'[Client] = recv[Client]
  PROVE  PipeInv'
<1>1. /\ progress' = progress /\ file' = file /\ ending' = ending /\ events' = events
      /\ shown' = shown /\ got' = got
  BY DEF pipe
<1>2. PipeType' /\ Settled'
  BY <1>1 DEF PipeInv, PipeType, Settled
<1>3. ASSUME NEW S PROVE /\ SentAt(S) => SentAt(S)'
                         /\ ShownIn(S) => ShownIn(S)'
                         /\ ComingIn(S) => ComingIn(S)'
  BY <1>1 DEF SentAt, ShownIn, ComingIn, Answered, Heard
<1>4. ASSUME NEW S, NEW i PROVE Answered(S, i) => Answered(S, i)'
  BY <1>1 DEF Answered, Heard
<1>5. ASSUME NEW S, NEW n PROVE ReportsOf(S, n) => ReportsOf(S, n)'
  BY <1>1 DEF ReportsOf, Report, Heard
<1>6. Sent' = Sent
  BY <1>1 DEF Sent
<1>7. Piping'
  <2> SUFFICES ASSUME shown.end = "no" PROVE Piping'
    BY <1>1 DEF Piping
  <2>1. PICK S \in Sent :
          /\ SentAt(S) /\ ShownIn(S) /\ ComingIn(S)
          /\ IF ending = "lost" THEN progress = <<>>
             ELSE \/ \E i \in 1 .. Len(events) : Answered(S, i)
                  \/ \E n \in [0 .. Len(progress) -> 0 .. Len(S)] : ReportsOf(S, n)
    BY DEF PipeInv, Piping
  <2>2. S \in Sent' /\ SentAt(S)' /\ ShownIn(S)' /\ ComingIn(S)'
    BY <1>3, <1>6, <2>1
  <2>3. CASE ending = "lost"
    BY <1>1, <2>1, <2>2, <2>3 DEF Piping
  <2>4. CASE \E i \in 1 .. Len(events) : Answered(S, i)
    BY <1>1, <1>4, <2>1, <2>2, <2>4 DEF Piping
  <2>5. CASE \E n \in [0 .. Len(progress) -> 0 .. Len(S)] : ReportsOf(S, n)
    BY <1>1, <1>5, <2>1, <2>2, <2>5 DEF Piping
  <2>6. QED
    BY <2>1, <2>3, <2>4, <2>5
<1>8. QED
  BY <1>2, <1>7 DEF PipeInv

\* A command line starts, and with it a receive.
LEMMA BeginKeeps ==
  ASSUME PipeInv, Watched, recv[Client].pc = "idle", recv'[Client].pc = "status",
         recv'[Client].blob = Root
  PROVE  PipeInv'
<1>1. /\ PipeType /\ shown.end # "no" /\ progress = <<>> /\ ending = "no"
      /\ events' = <<>> /\ shown' = Fresh /\ got' = <<>> /\ file' = file
      /\ progress' = <<>> /\ ending' = "no"
  BY TransferAssumption DEF PipeInv, Watched, Start, Callback, Returned, Remember
<1>2. shown'.end = "no" /\ shown'.ticked = <<>> /\ shown'.file = NoFile
  BY <1>1 DEF Fresh
<1>3. /\ <<>> \in Seq(Files) /\ <<>> \in Seq(Events) /\ <<>> \in Seq(Reports)
      /\ Len(<<>>) = 0
  BY EmptySeq
<1>4. PipeType'
  BY <1>1, <1>3 DEF PipeType, Fresh
<1>5. Heard' = 0
  BY <1>2, <1>3 DEF Heard
<1>6. <<>> \in Sent' /\ SentAt(<<>>)' /\ ShownIn(<<>>)' /\ ComingIn(<<>>)'
  BY <1>1, <1>2, <1>3, <1>5, TransferAssumption DEF Sent, SentAt, ShownIn, ComingIn
<1> DEFINE n == [i \in 0 .. 0 |-> 0]
<1>7. n \in [0 .. Len(<<>>) -> 0 .. Len(<<>>)] /\ n[0] = 0
  BY <1>3
<1>8. ReportsOf(<<>>, n)'
  BY <1>1, <1>3, <1>5, <1>7, TransferAssumption DEF ReportsOf
<1> HIDE DEF n
<1>9. Piping'
  <2>1. \E k \in [0 .. Len(progress') -> 0 .. Len(<<>>)] : ReportsOf(<<>>, k)'
    BY <1>1, <1>7, <1>8
  <2>2. QED
    BY <1>1, <1>6, <2>1 DEF Piping
<1>10. QED
  BY <1>2, <1>4, <1>9 DEF PipeInv, Settled

\* A receive under way: what holds of it and of the pipe behind it.
LEMMA UnderWay ==
  ASSUME PipeInv, Watched, recv[Client].pc # "idle"
  PROVE  /\ PipeType /\ shown.end = "no" /\ ending = "no"
         /\ UNCHANGED <<file, events, shown>>
         /\ \E S \in Sent :
              /\ SentAt(S) /\ ShownIn(S) /\ ComingIn(S)
              /\ \E n \in [0 .. Len(progress) -> 0 .. Len(S)] : ReportsOf(S, n)
<1>1. PipeType /\ shown.end = "no" /\ UNCHANGED <<file, events, shown>>
  BY DEF PipeInv, Settled, Watched, Start
<1>2. PICK S \in Sent :
        /\ SentAt(S) /\ ShownIn(S) /\ ComingIn(S)
        /\ IF ending = "lost" THEN progress = <<>>
           ELSE \/ \E i \in 1 .. Len(events) : Answered(S, i)
                \/ \E n \in [0 .. Len(progress) -> 0 .. Len(S)] : ReportsOf(S, n)
  BY <1>1 DEF PipeInv, Piping
<1>3. ending = "no"
  BY <1>1, <1>2 DEF SentAt
<1>4. QED
  BY <1>1, <1>2, <1>3 DEF Answered

\* It goes on, and the callback has nothing to report.
LEMMA SilentKeeps ==
  ASSUME PipeInv, Watched, recv[Client].pc # "idle", progress' = progress,
         got' \in Seq(Files), ending' \in {"no", "done", "error"},
         recv'[Client].pc = "next" => recv'[Client].blob \notin Files,
         \A S \in Sent : SentAt(S) => S \in Sent' /\ SentAt(S)'
  PROVE  PipeInv'
<1>1. PipeType /\ shown.end = "no" /\ UNCHANGED <<file, events, shown>>
  BY UnderWay
<1>2. PICK S \in Sent :
        /\ SentAt(S) /\ ShownIn(S) /\ ComingIn(S)
        /\ \E n \in [0 .. Len(progress) -> 0 .. Len(S)] : ReportsOf(S, n)
  BY UnderWay
<1>3. PICK n \in [0 .. Len(progress) -> 0 .. Len(S)] : ReportsOf(S, n)
  BY <1>2
<1>4. S \in Sent' /\ SentAt(S)' /\ ShownIn(S)' /\ Heard' = Heard
  BY <1>1, <1>2 DEF ShownIn, Heard
<1>5. ComingIn(S)'
  BY <1>1, <1>2, <1>4 DEF ComingIn, Answered
<1>6. ReportsOf(S, n)'
  BY <1>1, <1>3, <1>4 DEF ReportsOf, Report
<1>7. PipeType'
  BY <1>1 DEF PipeType
<1>8. QED
  BY <1>1, <1>4, <1>5, <1>6, <1>7 DEF PipeInv, Piping, Settled

\* It goes on to a file, and the callback reports it.
LEMMA ReportKeeps ==
  ASSUME PipeInv, Watched, recv[Client].pc # "idle", got' \in Seq(Files), ending' = "no",
         NEW e \in Reports, progress' = Append(progress, e),
         \A S \in Sent : SentAt(S) => \E U \in Sent' :
           /\ SentAt(U)'
           /\ \/ /\ U = S /\ e = <<"start", recv'[Client].blob>>
                 /\ recv'[Client].blob \in Files
              \/ /\ U = Append(S, recv[Client].blob) /\ e = <<"bytes">>
                 /\ recv[Client].pc = "next" /\ recv[Client].blob \in Files
                 /\ recv'[Client].pc # "next"
  PROVE  PipeInv'
<1>1. PipeType /\ shown.end = "no" /\ UNCHANGED <<file, events, shown>>
  BY UnderWay
<1>2. PICK S \in Sent :
        /\ SentAt(S) /\ ShownIn(S) /\ ComingIn(S)
        /\ \E n \in [0 .. Len(progress) -> 0 .. Len(S)] : ReportsOf(S, n)
  BY UnderWay
<1>3. PICK n \in [0 .. Len(progress) -> 0 .. Len(S)] : ReportsOf(S, n)
  BY <1>2
<1>4. PICK U \in Sent' :
        /\ SentAt(U)'
        /\ \/ /\ U = S /\ e = <<"start", recv'[Client].blob>>
              /\ recv'[Client].blob \in Files
           \/ /\ U = Append(S, recv[Client].blob) /\ e = <<"bytes">>
              /\ recv[Client].pc = "next" /\ recv[Client].blob \in Files
              /\ recv'[Client].pc # "next"
  BY <1>2
<1> DEFINE last == Len(progress)
           m == [i \in 0 .. last + 1 |-> IF i <= last THEN n[i] ELSE Len(U)]
<1>5. /\ progress \in Seq(Reports) /\ last \in Nat /\ Len(progress') = last + 1
      /\ progress' \in Seq(Reports)
      /\ \A i \in 1 .. last : progress'[i] = progress[i]
      /\ progress'[last + 1] = e
  BY <1>1, HeardType, AppendProperties DEF PipeType
<1>6. /\ S \in Seq(Files) /\ Len(S) \in Nat /\ Heard \in Nat /\ Len(events) \in Nat
  BY <1>1, SentType, HeardType
<1>7. /\ Len(U) \in {Len(S), Len(S) + 1}
      /\ \A i \in 1 .. Len(S) : U[i] = S[i]
      /\ e # <<"bytes">> => U = S
      /\ e = <<"bytes">> => Len(U) = Len(S) + 1 /\ U[Len(S) + 1] = recv[Client].blob
  <2>1. CASE U = S /\ e = <<"start", recv'[Client].blob>>
    BY <1>6, <2>1
  <2>2. CASE /\ U = Append(S, recv[Client].blob) /\ e = <<"bytes">>
             /\ recv[Client].blob \in Files
    BY <1>6, <2>2, AppendProperties
  <2>3. QED
    BY <1>4, <2>1, <2>2
<1>8. ShownIn(U)' /\ Heard' = Heard
  <2>1. Heard = 0 \/ S[Heard] = U[Heard]
    BY <1>2, <1>6, <1>7 DEF ShownIn
  <2>2. Heard' = Heard
    BY <1>1 DEF Heard
  <2>3. Heard <= Len(S) /\ Len(shown.ticked) \in Nat /\ Len(shown.ticked) <= Heard
    <3>1. Heard <= Len(S)
      BY <1>2 DEF ShownIn
    <3>2. CASE shown.file = NoFile
      BY <1>1, <3>1, <3>2, HeardType
    <3>3. CASE shown.file # NoFile
      BY <1>1, <3>1, <3>3, HeardType
    <3>4. QED
      BY <3>2, <3>3
  <2>4. shown.file # NoFile => Heard # 0
    BY <1>1, HeardType
  <2>5. QED
    BY <1>1, <1>2, <1>6, <1>7, <2>1, <2>2, <2>3, <2>4 DEF ShownIn
<1>9. ComingIn(U)'
  <2>1. ASSUME NEW i \in 1 .. Len(events)
        PROVE  Heard + i <= Len(U) /\ events[i] = <<"file", U[Heard + i]>>
    <3>1. Heard + i <= Len(S) /\ events[i] = <<"file", S[Heard + i]>>
      BY <1>2 DEF ComingIn, Answered
    <3>2. QED
      BY <1>6, <1>7, <3>1
  <2>2. QED
    BY <1>1, <1>8, <2>1 DEF ComingIn
<1>10. /\ n[0] = Heard + Len(events) /\ n[last] = Len(S)
       /\ \A i \in 1 .. last : Report(S, n, i)
       /\ \A i \in 0 .. last : n[i] \in 0 .. Len(S)
       /\ recv[Client].pc = "next" /\ recv[Client].blob \in Files =>
            IF progress = <<>> THEN file = recv[Client].blob
            ELSE progress[last] = <<"start", recv[Client].blob>>
  BY <1>3 DEF ReportsOf
<1>11. PICK k \in [0 .. last + 1 -> 0 .. Len(U)] :
         /\ \A i \in 0 .. last : k[i] = n[i]
         /\ k[last + 1] = Len(U)
  <2>1. /\ m \in [0 .. last + 1 -> 0 .. Len(U)]
        /\ \A i \in 0 .. last : m[i] = n[i]
        /\ m[last + 1] = Len(U)
    BY <1>5, <1>6, <1>7, <1>10
  <2>2. QED
    BY <2>1
<1> HIDE DEF m
<1>12. ASSUME NEW i \in 1 .. last PROVE Report(U, k, i)'
  <2>1. /\ progress'[i] = progress[i] /\ k[i] = n[i] /\ k[i - 1] = n[i - 1]
        /\ i # 1 => progress'[i - 1] = progress[i - 1]
    BY <1>5, <1>11
  <2>2. Report(S, n, i)
    BY <1>10
  <2>3. n[i] \in 0 .. Len(S) /\ n[i - 1] \in 0 .. Len(S)
    BY <1>5, <1>10
  <2>4. n[i] = n[i - 1] + 1 => U[n[i]] = S[n[i]]
    BY <1>6, <1>7, <2>3
  <2>5. QED
    BY <1>1, <2>1, <2>2, <2>4 DEF Report
<1>13. Report(U, k, Len(progress))'
  <2>1. k[last + 1] = Len(U) /\ k[last] = Len(S) /\ (last + 1) - 1 = last
    <3>1. last \in 0 .. last
      BY <1>5
    <3>2. k[last] = n[last]
      BY <1>11, <3>1
    <3>3. last \in Nat /\ n[last] = Len(S) /\ k[last + 1] = Len(U)
      BY <1>5, <1>10, <1>11
    <3> HIDE DEF last
    <3>4. (last + 1) - 1 = last
      BY <3>3
    <3>5. QED
      BY <3>2, <3>3, <3>4
  <2>2. CASE U = S /\ e = <<"start", recv'[Client].blob>> /\ recv'[Client].blob \in Files
    BY <1>5, <2>1, <2>2 DEF Report
  <2>3. CASE /\ U = Append(S, recv[Client].blob) /\ e = <<"bytes">>
             /\ recv[Client].pc = "next" /\ recv[Client].blob \in Files
    <3>1. Len(U) = Len(S) + 1 /\ U[Len(U)] = recv[Client].blob
      BY <1>7, <2>3
    <3>2. CASE last = 0
      <4>1. progress = <<>>
        BY <1>5, <3>2, EmptySeq
      <4>2. file = recv[Client].blob
        BY <1>10, <2>3, <4>1
      <4>3. QED
        BY <1>1, <1>5, <2>1, <2>3, <3>1, <3>2, <4>2 DEF Report
    <3>3. CASE last # 0
      <4>1. progress # <<>> /\ last \in 1 .. last
        BY <1>5, <3>3, EmptySeq
      <4>2. progress'[last] = <<"start", recv[Client].blob>>
        BY <1>5, <1>10, <2>3, <4>1
      <4>3. last + 1 # 1
        BY <1>5, <3>3
      <4>4. QED
        BY <1>5, <2>1, <2>3, <3>1, <4>2, <4>3 DEF Report
    <3>4. QED
      BY <3>2, <3>3
  <2>4. QED
    BY <1>4, <2>2, <2>3
<1>14. ReportsOf(U, k)'
  <2>1. ASSUME NEW i \in 1 .. Len(progress') PROVE Report(U, k, i)'
    <3>1. i \in 1 .. last \/ i = Len(progress')
      BY <1>5
    <3>2. QED
      BY <1>12, <1>13, <3>1
  <2>2. k[0] = Heard' + Len(events') /\ k[Len(progress')] = Len(U)
    BY <1>1, <1>5, <1>8, <1>10, <1>11
  <2>3. recv'[Client].pc = "next" /\ recv'[Client].blob \in Files =>
          IF progress' = <<>> THEN file' = recv'[Client].blob
          ELSE progress'[Len(progress')] = <<"start", recv'[Client].blob>>
    <3>1. progress' # <<>>
      <4>1. Len(progress') # 0
        BY <1>5
      <4>2. QED
        BY <4>1, EmptySeq
    <3>2. QED
      BY <1>4, <1>5, <3>1
  <2>4. QED
    BY <2>1, <2>2, <2>3 DEF ReportsOf
<1>15. PipeType'
  BY <1>1, <1>5 DEF PipeType
<1>16. k \in [0 .. Len(progress') -> 0 .. Len(U)]
  BY <1>5, <1>11
<1>17. QED
  BY <1>1, <1>4, <1>8, <1>9, <1>14, <1>15, <1>16 DEF PipeInv, Piping, Settled

\* Whatever the receive does next, its reports keep up with it.
LEMMA WatchedKeeps == ASSUME PipeInv, Inv, Watched PROVE PipeInv'
<1> DEFINE r == recv[Client]
           s == recv'[Client]
<1>1. /\ Moves
      /\ Start(r, s) /\ Callback(r, s) /\ Returned(r, s) /\ Remember(r, s)
      /\ file' = file
  BY ClientMoves DEF Watched
<1>2. got \in Seq(Files) /\ PipeType
  BY DEF PipeInv, PipeType
<1>3. CASE s = r
  <2>1. UNCHANGED <<pipe, got>> /\ recv'[Client] = recv[Client]
    BY <1>1, <1>3 DEF Start, Callback, Returned, Remember, pipe
  <2>2. QED
    BY <2>1, StillKeeps
<1>4. CASE r.pc = "idle" /\ s.pc = "status" /\ s.blob = Root
  BY <1>4, BeginKeeps
<1>5. CASE s # r /\ r.pc # "idle" /\ s.pc = "idle"
  <2>1. progress' = progress /\ got' = got /\ ending' \in {"done", "error"}
    BY <1>1, <1>5 DEF Callback, Returned, Remember
  <2>2. ending' = "done" => r.pc = "write"
    BY <1>1, <1>5 DEF Returned
  <2>3. ASSUME NEW S \in Sent, SentAt(S) PROVE S \in Sent' /\ SentAt(S)'
    BY <1>5, <2>1, <2>2, <2>3 DEF Sent, SentAt
  <2>4. QED
    BY <1>2, <1>5, <2>1, <2>3, SilentKeeps
<1>6. CASE s # r /\ r.pc # "idle" /\ s.pc # "idle"
  <2>1. ending' = ending /\ ending = "no"
    BY <1>1, <1>6, UnderWay DEF Returned
  <2>2. CASE /\ r.pc \in {"status", "guard", "next", "stream"} /\ r.blob \notin Files
             /\ s.pc \in {"guard", "next", "stream", "export"} /\ s.blob \notin Files
    <3>1. progress' = progress /\ got' = got
      BY <1>1, <2>2 DEF Callback, Remember
    <3>2. ASSUME NEW S \in Sent, SentAt(S) PROVE S \in Sent' /\ SentAt(S)'
      <4>1. S = <<>>
        BY <2>2, <3>2 DEF SentAt
      <4>2. S = got
        BY <1>2, <3>2, <4>1, SentType, EmptySeq
      <4>3. QED
        BY <2>1, <2>2, <3>1, <3>2, <4>1, <4>2 DEF Sent, SentAt
    <3>3. QED
      BY <1>2, <1>6, <2>1, <2>2, <3>1, <3>2, SilentKeeps
  <2>3. CASE /\ r.pc \in {"next", "stream"} /\ r.blob \notin Files
             /\ s.pc = "next" /\ s.blob \in Files /\ s.todo = Files \ {s.blob}
    <3>1. progress' = Append(progress, <<"start", s.blob>>) /\ got' = got
      BY <1>1, <1>6, <2>3 DEF Callback, Remember
    <3>2. ASSUME NEW S \in Sent, SentAt(S) PROVE S \in Sent' /\ SentAt(S)'
      <4>1. S = <<>>
        BY <2>3, <3>2 DEF SentAt
      <4>2. S = got /\ Len(S) = 0
        BY <1>2, <3>2, <4>1, SentType, EmptySeq
      <4>3. QED
        BY <2>1, <2>3, <3>1, <3>2, <4>1, <4>2 DEF Sent, SentAt
    <3>3. <<"start", s.blob>> \in Reports
      BY <2>3 DEF Reports
    <3>4. QED
      BY <1>2, <1>6, <2>1, <2>3, <3>1, <3>2, <3>3, ReportKeeps
  <2>4. CASE /\ r.pc = "next" /\ r.blob \in Files
             /\ s.pc = "stream" /\ s.blob = r.blob /\ s.todo = r.todo
    <3>1. progress' = Append(progress, <<"bytes">>) /\ got' = got
      BY <1>1, <1>6, <2>4 DEF Callback, Remember
    <3>2. ASSUME NEW S \in Sent, SentAt(S)
          PROVE  Append(S, r.blob) \in Sent' /\ SentAt(Append(S, r.blob))'
      <4>1. S = got
        BY <2>4, <3>2 DEF SentAt
      <4>2. /\ Len(Append(S, r.blob)) = Len(S) + 1 /\ Len(S) \in Nat
            /\ \A i \in 1 .. Len(S) : Append(S, r.blob)[i] = S[i]
            /\ Append(S, r.blob)[Len(S) + 1] = r.blob
        BY <1>2, <2>4, <4>1, AppendProperties, LenProperties
      <4>3. ASSUME NEW i \in 1 .. Len(Append(S, r.blob)), i # Len(S) + 1
            PROVE  i \in 1 .. Len(S)
        BY <4>2, <4>3
      <4>4. /\ \A i, j \in 1 .. Len(S) : S[i] = S[j] => i = j
            /\ \A i \in 1 .. Len(S) : S[i] # r.blob /\ S[i] \notin r.todo
            /\ r.todo \subseteq Files \ {r.blob}
        BY <2>4, <3>2 DEF SentAt
      <4>5. \A i, j \in 1 .. Len(Append(S, r.blob)) :
              Append(S, r.blob)[i] = Append(S, r.blob)[j] => i = j
        BY <4>2, <4>3, <4>4
      <4>6. \A i \in 1 .. Len(Append(S, r.blob)) : Append(S, r.blob)[i] \notin s.todo
        BY <2>4, <4>2, <4>3, <4>4
      <4>7. Append(S, r.blob) \in Sent'
        BY <2>4, <3>1, <4>1 DEF Sent
      <4>8. SentAt(Append(S, r.blob))'
        BY <2>1, <2>4, <3>1, <4>1, <4>4, <4>5, <4>6 DEF SentAt
      <4>9. QED
        BY <4>7, <4>8
    <3>3. <<"bytes">> \in Reports
      BY DEF Reports
    <3>4. QED
      BY <1>2, <1>6, <2>1, <2>4, <3>1, <3>2, <3>3, ReportKeeps
  <2>5. CASE /\ r.pc = "stream" /\ r.blob \in Files
             /\ s.pc = "stream" /\ s.blob = r.blob /\ s.todo = r.todo
    <3>1. progress' = progress /\ got' = got
      BY <1>1, <2>5 DEF Callback, Remember
    <3>2. ASSUME NEW S \in Sent, SentAt(S) PROVE S \in Sent' /\ SentAt(S)'
      BY <2>1, <2>5, <3>1, <3>2 DEF Sent, SentAt
    <3>3. QED
      BY <1>2, <1>6, <2>1, <2>5, <3>1, <3>2, SilentKeeps
  <2>6. CASE /\ r.pc = "next" \/ (r.pc = "stream" /\ Complete(r.blob))
             /\ r.blob \in Files
             /\ \/ s.pc = "next" /\ s.blob \in r.todo /\ s.todo = r.todo \ {s.blob}
                \/ s.pc = "export"
    <3>1. ASSUME NEW S \in Sent, SentAt(S) PROVE S = got'
      BY <1>1, <2>6, <3>1 DEF Remember, SentAt
    <3>2. got' \in Seq(Files)
      BY <1>1, <1>2, <2>6, AppendProperties DEF Remember
    <3>3. ASSUME NEW S \in Sent, SentAt(S) PROVE S \in Sent' /\ SentAt(S)'
      BY <2>1, <2>6, <3>1, <3>3 DEF Sent, SentAt
    <3>4. CASE s.pc = "next"
      <4>1. r.todo \subseteq Files
        <5>1. PICK S \in Sent : SentAt(S)
          BY <1>6, UnderWay
        <5>2. QED
          BY <2>6, <5>1 DEF SentAt
      <4>2. s.blob \in Files /\ progress' = Append(progress, <<"start", s.blob>>)
        BY <1>1, <1>6, <2>6, <3>4, <4>1 DEF Callback
      <4>3. <<"start", s.blob>> \in Reports
        BY <4>2 DEF Reports
      <4>4. QED
        BY <1>6, <2>1, <3>2, <3>3, <4>2, <4>3, ReportKeeps
    <3>5. CASE s.pc = "export"
      <4>1. progress' = progress
        BY <1>1, <3>5 DEF Callback
      <4>2. QED
        BY <1>6, <2>1, <3>2, <3>3, <3>5, <4>1, SilentKeeps
    <3>6. QED
      BY <2>6, <3>4, <3>5
  <2>7. CASE r.pc \in {"export", "write"} /\ s.pc = "write"
    <3>1. progress' = progress /\ got' = got
      BY <1>1, <2>7 DEF Callback, Remember
    <3>2. ASSUME NEW S \in Sent, SentAt(S) PROVE S \in Sent' /\ SentAt(S)'
      BY <2>1, <2>7, <3>1, <3>2 DEF Sent, SentAt
    <3>3. QED
      BY <1>2, <1>6, <2>1, <2>7, <3>1, <3>2, SilentKeeps
  <2>8. QED
    BY <1>1, <1>6, <2>2, <2>3, <2>4, <2>5, <2>6, <2>7 DEF Moves
<1>7. QED
  BY <1>1, <1>3, <1>4, <1>5, <1>6 DEF Moves

-----------------------------------------------------------------------------
(* The theorems of Progress. *)

LEMMA ProgressSteps == [ProgressNext]_<<vars, pipe, got>> => [Next]_vars
BY DEF ProgressNext, Watched, Forward, Answer, Lose, ReadProgress, ReadEnd, ReadEof, Next

\* The command line and the progress task only watch: what they add to a receive
\* is no more than the receive may do by itself, the callback included.
THEOREM ProgressRefines == ProgressSpec => Spec
<1>1. ProgressInit => Init
  BY DEF ProgressInit
<1>2. QED
  BY <1>1, ProgressSteps, PTL DEF ProgressSpec, Spec

LEMMA PipeInvHolds == ProgressSpec => []PipeInv
<1>1. ProgressInit => PipeInv
  <2> SUFFICES ASSUME ProgressInit PROVE PipeInv
    OBVIOUS
  <2>1. /\ <<>> \in Seq(Reports) /\ <<>> \in Seq(Events) /\ <<>> \in Seq(Files)
        /\ Len(<<>>) = 0
    BY EmptySeq
  <2>2. PipeType
    BY <2>1 DEF ProgressInit, Fresh, PipeType
  <2>3. IsPrefix(<<>>, <<>>)
    BY <2>1 DEF IsPrefix
  <2>4. recv[Client].pc = "idle"
    BY ProgressAssumption DEF ProgressInit, Init, Idle
  <2>5. Settled
    BY <2>3, <2>4 DEF ProgressInit, Fresh, Settled
  <2>6. QED
    BY <2>2, <2>5 DEF PipeInv, Piping, ProgressInit, Fresh
<1>2. PipeInv /\ Inv /\ [ProgressNext]_<<vars, pipe, got>> => PipeInv'
  BY WatchedKeeps, ForwardKeeps, AnswerKeeps, LoseKeeps, ReadProgressKeeps, ReadEndKeeps,
     ReadEofKeeps, StillKeeps DEF ProgressNext, vars
<1>3. QED
  BY <1>1, <1>2, ProgressRefines, InvHolds, PTL DEF ProgressSpec

\* The ticks are the files received whole, in their order, and Done comes when all
\* are ticked: no report, event or answer overtakes another between the callback
\* of RingReceiver, the task of handle_receive and the display of the command.
THEOREM TicksHold == ProgressSpec => []TicksAreTrue
<1>1. PipeInv => TicksAreTrue
  <2>1. CASE shown.end = "no"
    BY <2>1, TicksArePrefix DEF PipeInv, Piping, TicksAreTrue
  <2>2. CASE shown.end # "no"
    BY <2>2 DEF PipeInv, Settled, TicksAreTrue
  <2>3. QED
    BY <2>1, <2>2
<1>2. QED
  BY <1>1, PipeInvHolds, PTL
=============================================================================
