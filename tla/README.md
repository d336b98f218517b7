# A TLA+ model of ringdrop

ringdrop (`rdrop`) shares files between peers over QUIC. A daemon owns the node;
the command line talks to it over a local socket, one JSON line per request.
Blobs live in a content-addressed store; *rings* say which peers may read which
blob. This directory models the daemon: what its commands do to its stores, how
its tasks work together, how a transfer goes and what the command line shows of it,
and how daemons are started and stopped, with the errors, crashes and interleavings
each of them has to live with.

## The system

| Part | State | Operations | Hard behaviour |
|---|---|---|---|
| Blob commands (`daemon/server/handlers/blob.rs`) | registry: blob -> rings (redb); tags of the blob store | import, attach, detach, remove, list | several transactions per command, commands of other connections in between, errors half way |
| Ring, peer and grant commands (`handlers/{ring,peer,grant}.rs`, `core/{peers,grants}.rs`) | registry: ring -> members with expiry; address book and grants (`local.redb`) | ring new/add/remove, peer add/remove, grant/revoke, lists | three stores per command, expiry, check-then-insert |
| Local database (`local_store.rs`) | `local.redb`, and the older `grants.redb`, `peers.redb` | open, migrate | a crash between any two steps, a file that is open already |
| IPC server (`daemon/server/mod.rs`, `daemon/client.rs`) | accept loop, connection and dispatch tasks, event channel, shutdown notification | accept, read, dispatch, forward, shut down | three kinds of tasks per request, a bounded channel, a drain with a timeout, `Arc::try_unwrap` |
| Receiving (`handlers/receive.rs`, `core/node.rs`, `core/protocol/rings.rs`) | partial blobs, a temporary tag, the destination | receive | garbage collection during a download, broken connections, other receives, other users of the destination |
| Node (`core/node.rs`) | endpoint, router, blob store, registry | start, import, list, delete, shut down | import against garbage collection, tag names that collide, writes that are acknowledged before they are durable |
| Catalog (`core/protocol/catalog.rs`, `handlers/remote.rs`) | none of its own | remote blob list | a grant checked once, permissions checked per blob while the answer is streamed |
| Sending | in the `iroh-rings` crate (`RingGate`, `FsTransfer`) | serve a blob | outside of this repository |
| CLI, configuration (`cli/command/*.rs`, `config.rs`) | `config.json`, the lock of `registry.redb`, the daemon's port | start, stop, status, run; one request; the display of a receive | processes that start at once, a stop that polls while the daemon drains, a display that infers from the next event that a file is done |
| Tickets, utilities | none | encode, parse, format | none: pure functions with unit tests |

The parts meet in four places. A request enters at the IPC server, which runs
its handler in a task of its own, so handlers of different connections
interleave at every store transaction. Handlers share the registry, the local
database and the blob store; nothing locks across two of them. The registry
is what the gate and the catalog read when another peer asks. And the processes of
one data directory share `config.json`, the lock on `registry.redb` and the port.

What makes each part correct:

- blob commands: a blob is in a ring only if some request said so; a detach is
  final; a removed blob is served to nobody;
- ring, peer and grant commands: `peer remove` leaves no trace; nicknames are
  not lost; whoever is in a ring is in the address book, where `peer remove`
  finds him;
- local database: no row is lost or comes back, wherever a migration stopped;
- IPC server: every request of a client that reads is answered, nothing follows the
  answer, a shutdown is heard and ends;
- blob store: an import that was answered is kept, no tag is without its blob, a
  remove leaves no tag, a directory keeps its files (which it does not, see below);
- catalog and `blob list`: a peer is shown nothing but what the gate would serve
  him, and all of it unless something fails, which he is not told of (see below);
- receiving: what a download has fetched is kept while it runs, nothing
  incomplete is exported, a receive ends, and the command line ticks off the files
  that were received and no others;
- listings: nothing is shown that never was, nothing left out that stayed;
- start and stop: "stopped" means that the data directory is free, a start leaves a
  daemon that serves, every command returns, and the node keeps its key.

## Modules

| Module | Models |
|---|---|
| `RingAttachments` | the blob commands: one action per registry transaction |
| `AccessPolicy` | what they promise: an abstract specification of additions and cuts |
| `RingAttachmentsProofs` | proofs about `RingAttachments` |
| `PeerDirectory` | the ring, peer and grant commands: one action per transaction |
| `PeerDirectoryProofs` | proofs about `PeerDirectory` and `Listings` |
| `Listings` | over `PeerDirectory`: ring list, ring members, peer list, grant list, one action per read |
| `LocalStore` | `LocalStore::open`, its migration, and the writes of an open store |
| `DurableStore` | what it promises: rows that change only by a write of an open store |
| `LocalStoreProofs` | proofs about `LocalStore` |
| `DaemonServer` | the accept loop, the connection, dispatch and progress tasks, clients |
| `DaemonServerProofs` | proofs about `DaemonServer` |
| `Transfer` | receives of one ticket, the garbage collector, the sender's gate, the destination |
| `TransferProofs` | proofs about `Transfer` and `Progress` |
| `Progress` | over `Transfer`: the progress callback, its task, the events, the display of `rdrop receive` |
| `BlobStore` | imports, `delete_blob`, tags, the garbage collector, batched writes, shutdown |
| `BlobStoreProofs` | proofs about `BlobStore` |
| `Catalog` | both ends of the catalog protocol, and `list_blobs` with its filters |
| `CatalogProofs` | proofs about `Catalog` |
| `Lifecycle` | processes on one data directory: `load_or_create`, the commands, `run_serve` as they see it |
| `LifecycleProofs` | proofs about `Lifecycle` |
| `MC...` | symmetry sets for TLC; the `.cfg` files give the constants |

Definitions whose comment starts with *Mutant* are not part of a specification:
each is a plausible bug of the definition that follows it, and shows that a
property would notice.

### RingAttachments

`attached` is the registry's table from blobs to rings, `stored` the blobs that
carry a named tag. `req[q]` is the handler in request slot `q` with the program
counter of its next store call: the spawned task of `handle_connection`. The
first action of a command (`HandleImport`, `HandleAttach`, `HandleDetach`,
`HandleDetachAll`, `HandleBlobRemove`) is the handler up to its first registry
call; the others are one `add_ring_to_resource`, `list_resource_rings` or
`remove_ring_from_resource` each (`AttachRing`, `AttachOpen`, `ReadCurrent`,
`ClearRings`, `RewriteRing`), and `DeleteTags` is `Node::delete_blob`.
`HandlerFails` is `?`: the handler is gone and nothing is undone. `Crash` is the
end of the process; committed transactions stay. `asked`, `wanted`, `contested`
and `purged` are history variables that no guard reads.

Two requests of one blob *overlap* if one arrives while the other is in flight.
`contested` remembers the blobs this has happened to, until a request finds the
blob quiet. For those blobs the read-modify-write of `handle_detach` can do
anything, which run `attachments_race` shows.

`AccessPolicy` has requests with an intent (rings to add, rings to cut) instead
of transactions. The refinement mapping counts the associations a detach has
read, cleared and not yet written back (`Pending`) as there: so the detach
happens at the instant of `ClearRings`, and the gap in which the registry shows
fewer rings than remain is invisible. A fault in the gap is the abstract `Fault`,
which takes associations away and never adds one.

### PeerDirectory

`member` holds memberships as none, forever or limited (with an expiry, that
`Expire` may end at any time), `granted` and `book` are the two tables of
`local.redb`. Commands of one transaction are one action. `PeerStore::ensure` is
two (`EnsureRead`, `EnsureInsert`), `ring add` adds the member first, and `peer
remove` takes its snapshot of the rings (`ListRings`) and then works through
rings, grants and address book (`SweepRing`, `RevokeGrants`, `ForgetPeer`).
`Lifetimes` stands for `add_peer_to_ring` of the `iroh-rings` crate: which expiry
wins when both have one is left open.

Commands of one peer *overlap* if one arrives while the other is in flight; `contested`
remembers the peers this has happened to. `NicknameKept` and `MembersInBook` are about
the others; without the exemption they are `NicknamePreserved` and `MembersRegistered`,
which the code violates (see *What the code does not do*).

### Listings

A listing is one request that changes nothing and reads several times: the rings
and then the members of each, the members of a ring and then the nickname of each,
and all of it once for the lines and once for the records. `list` is the listing
under way with what it has shown in this pass, the commands of `PeerDirectory` run in
between, and `once` and `always` remember what was true of its subject at some
instant of the pass and at all of them.

### LocalStore and DurableStore

One action per step of `migrate_if_needed`, in its order; `Fault` may end the
process between any two. `held` says whether the process has `registry.redb`
open, which redb then refuses to open once more (`RegistryBusy`): the daemon's
`run_serve` opens it before the node starts, a program that uses the library with
a registry of its own does not. `Contents` is the refinement mapping: `local.redb` once
it exists, else the old files with the ring members added.

### DaemonServer

Each connection has its `handle_connection` task (`task`, in the JoinSet), its
dispatch task (`job`, spawned on its own, owns the `Arc<Node>` and a sender of the
event channel) and for a receive a progress task (`prog`) with another sender.
Events are either lines or the end (`Done` or `Error`); their contents are left out.
What a client writes is a request or one of the three things that never become one:
a line that does not parse (`bad`, answered with an `Error`), one over
`MAX_LINE_BYTES` (`long`: the `Error` is written, but the socket is closed with the
rest of the line unread, and the reset that follows may overtake it), and one that
the codec cannot read (`garbled`, not UTF-8: `ReadFails` returns the codec's error to
the task, which logs it, and the client gets no event).
Clients may never write, stop reading (`Stall`: the socket's buffers are full)
or leave at any time. `Exit` is the end of the process.

### Transfer

`have[b]` counts the verified chunks of a blob, in order as the decoder delivers
them. A receive is checked against its destination (`HandleReceive`), takes the
fast path or the temporary tag (`CheckStatus`, `Guard`), visits the root, the
metadata blob and the files of a collection, one request per incomplete blob
(`SkipBlob`, `RequestBlob`, `ReceiveChunk`, `BlobReceived`), and exports (`OpenDest`,
`ExportFile`, `ExportFails`, `Finish`). External are `Collect`, which may take any
blob that no temporary tag protects, `GateChanges`, and `UserWrites` and `UserMoves`
at the destination. `there` knows two places: the destination announced, and the
ticket's name inside of it, because `export` resolves the path a second time.

### Progress

The receive of slot `Client` is watched. `Watched` is a step of `Transfer` with what
its callback reports (`Callback`); `Forward` is the progress task, which keeps the
name of the last `FileStart`; `Answer` is `handle_receive` after it has joined the
task; `ReadProgress`, `ReadEnd` and `ReadEof` are the command line. Each stage lags
behind the one before by as much as it likes, and a daemon that dies leaves what the
socket holds (`Lose`). Of a file's `Bytes` only the first is modelled: the others
move the bar.

### BlobStore

`tags[n]` is the blob a tag pins; its key is the file or directory name. `op[q]` is
an import or a remove with its next store call, `temp[q]` the temporary tag it
holds. A path is imported (`AddPath`, or `AddMember` per file and `StoreCollection`,
then `SetTag`) by `import`, and by any command whose target is a path; a remove
lists the blob's tags (`ListTags`) and deletes them by name, one by one
(`DeleteTag`). Associations are `RingAttachments`' business and are left out here.
`Collect` may take any blob that no tag protects, at any time: the real collector
marks and sweeps every 30 s, and what it could take in a sweep it can take here
blob by blob. `saved` is the database as of the last committed batch: a `Kill`
falls back to it, a `Shutdown` commits first. `pins` remembers the last answered
import of each name, `raced` the names that were set while a remove that had
listed them was deleting by name; there the code loses the new tag.

### Catalog

`server` and `client` are the two ends of one catalog connection, `wire` what was
written to the stream, `seen` what the client has decoded, and `local` a call of
`list_blobs` with its `--peer` and `--ring` filters. Tags, associations, memberships
and the grant change between any two of their reads (`Change`, one write at a
time; the whole commands are in `RingAttachments`, `PeerDirectory` and `BlobStore`).
A lookup that fails counts as no permission in both (`CheckItemFails`,
`LookupFails`). A handler that fails drops its stream, which QUIC ends as if
finished, and then its connection: the client may see either (`ServerFails`). The
histories `could`, `must` and `quiet` say what was readable at some instant of the
listing, what was tagged and readable at all of them, and whether anything changed or
failed; `lost` are the blobs whose own lookup failed, or that a handler that failed had
not come to. No fault touches `must`: what a failure costs is in `lost` alone. Sizes and
counts of entries are left out.

### Lifecycle

`pc[p]` is where each process is: a command of the user (`Shells`) or a `daemon run`
(`Daemons`). The port belongs to the daemon that `Listens`, the registry to the one
that `Owns` it; a connection is made by the listener's backlog, accepted or not
(`Connect`), and is closed with the process (`End`). `file` is `config.json`: missing,
torn (`fs::write` empties a file before it writes) or whole. `foreign` are the daemons
that run under another key than the one in it. `run_start` and `run_stop` look again
every 100 ms: a look in vain that is not the last changes nothing, so `PollStart` and
`PollStop` have the last one, at any time. `Node::start` waits in `endpoint.online()`
without a timeout while it holds `registry.redb`: `GoOffline` is a daemon that is
started without a network, one of the faults, and `ComeOnline` may or may not
follow. A request is any command; what happens to
it inside of the daemon is `DaemonServer`'s subject, and `Crash` are the two ends that
model finds (an error of `accept`, the panic of the unwrap).

## Runs

| Run | Bounds | Checks |
|---|---|---|
| `attachments` | 2 handlers, 1 blob, 2 named rings and the open ring, 1 fault | `TypeOK`, `OnlyRequested`, `DetachFinal`, `RemovedUnserved`, `PolicyRefined` |
| `directory` | 2 handlers, or one and a listing, a peer beside the daemon itself, 2 rings, 2 nicknames, 1 fault | `TypeOK`, `RemovalComplete`, `NicknameKept`, `MembersInBook`, `ListSound`, `ListComplete` |
| `store_migrate` | 2 peers, 1 nickname, 2 faults, with and without the registry held | `TypeOK`, `Copied`, `StoreSpec`, `Starts` |
| `server` | 2 connections, a channel of 1 event, 1 line or callback each | `TypeOK`, `TerminalLast`, `CleanCloseAnswered`, `ShutdownHeard`, `DrainEnds`, `ClientAnswered` |
| `transfer` | 2 receives, one of them watched, 2 files of 2 chunks, 1 fault | `TypeOK`, `GuardKeeps`, `TicksAreTrue`, `AllOrNothing`, `ReceiveEnds` |
| `attachments_race` | 2 handlers, no fault | finds `FailClosed` violated |
| `store_daemon` | 1 peer, the registry held | finds `Starts` violated |
| `server_panic` | 1 connection | finds `NoPanic` violated |
| `lifecycle` | 2 commands, 2 daemons, 2 first starts at once, 1 fault | `TypeOK`, `StoppedIsReleased`, `IdentityKept`, `CommandEnds`, `StartServes` |
| `blob_store` | 2 requests, a file and a directory that holds it, 2 names, 1 fault | `TypeOK`, `Kept`, `NoDangling`, `RemoveComplete` |
| `catalog` | 2 blobs, 1 named ring and the open ring, 1 fault | `TypeOK`, `CatalogSound`, `CatalogComplete`, `OwnerSeesTheSame`, `CatalogEnds` |
| `blob_members` | 1 import of a directory of 1 file, no fault | finds `MembersKept` violated |

Why these bounds: every race in the code is between two handlers, tasks or
receives, and a third is in the state the second may be in. Handlers of
different blobs share no row, so one blob is enough; a detach must have a ring to
cut and another to keep, and the open ring is treated apart. `peer remove` must
sweep more than one ring. One fault per behaviour leaves every command once at
every point; the migration gets two, so that a retry can fail as well. A channel
of one event is full as soon as one is sent, which the code's 32 reach later. Two
files and two chunks give a transfer that stops inside of a blob, between two
blobs and between two exports. A file and a directory
are two blobs that can take each other's name, and one that depends on the other;
the second name gives a blob two tags. Two blobs are a listing that can change
between its entries. A listing takes one of the request slots (`SlotFree`), so one
handler is half way beside it, and commands of one transaction come as they like. Two
commands and two daemons are a start beside a start, a stop beside a start, and a
daemon that begins while another drains; two keys are enough for them to differ
(`MaxFirst`). Faults (`MaxFaults`), lines and callbacks
(`MaxLines`), channel capacity (`Capacity`) and request slots are the only bounds; the sets are finite
in the code as well.

Two runs turn off the deadlock check. In `server` a daemon that has stopped, with its
clients gone, is where the system ends; in `lifecycle` a `config.json` that a kill has
left torn ends every later process at once.

### Fairness

- `LocalStore`: the process runs on, and whoever may open the store tries again
  (`SF` on `Boot`, so that a start is not always a daemon's when others may start).
- `DaemonServer`: tasks that can run are run by tokio, timers fire, downloads end
  (QUIC connections time out). `Accept` and `StartDrain` are strongly fair because
  `select!` picks among ready branches at random. Nothing is assumed of clients.
- `Transfer`: the receiving task runs on, and chunks keep coming: a connection
  that stays silent is timed out by QUIC, which is a `Fail`. Nothing is assumed of
  the collector, the gate or the user.
- `Lifecycle`: processes run on, and handlers, drains and `Node::start` end, the
  drain by its timeout. That `Node::start` ends is an assumption about the machine:
  nothing in it bounds the wait for a network. So a start that waits for one
  (`offline`) is not fair, it counts as a fault, and `StartServes`, which promises
  nothing once something has failed, promises nothing of it; a second start beside it
  finds the registry taken and gives way. Commands are strongly fair (`SF` on
  `ShellStep`) because a process can always be started, while the slots of the model
  may be taken now and then, and because the answer to a command waits for a daemon that may be between
  two states. Nothing makes a user act.
- `Catalog`: both ends run on; a peer that falls silent is a `Break`. Nothing is
  assumed of other commands.

`RingAttachments`, `PeerDirectory` and `BlobStore` have safety properties only.

### What the code does not do

- `attachments_race`: the comment on `handle_detach` says that the daemon
  serialises requests. It does not (`handle_connection` spawns), and of two detaches of one
  blob at once the later write-back can restore the ring the other has just cut.
- `store_daemon`: a failed migration is to be retried by the next start. In the
  daemon it fails each time: `copy_ring_peers` opens `registry.redb`, which the
  daemon already holds.
- `server_panic`: `run` expects to hold the last reference to the node when the
  connection tasks have ended, but the dispatch tasks hold it and nobody waits
  for them. A shutdown can panic instead of flushing the blob store.
- `blob_members`: `import_directory` lets go of each file's temporary tag before it
  adds the next, and stores the collection last. In a directory that takes longer
  than 30 s to import, the collector takes files that were added first; the import
  succeeds, and the collection can be neither served nor exported whole.

Three more have a configuration, in which TLC finds the property violated in a few
seconds, and are not among the runs of `PROJECT.json`:

- `tlc -config MCCatalog_short.cfg MCCatalog` (`FullList`): the command asks for the full
  list of what the caller may download (`catalog.rs:49`). A lookup that fails leaves its
  blob out, and a handler that fails ends its stream like one that is done; the client
  takes either for the full list, as the entries have no count and no end mark.
  `CatalogComplete` says how much such a failure can cost.
- `tlc -config MCPeerDirectory_nickname.cfg MCPeerDirectory` (`NicknamePreserved`):
  `PeerStore::ensure` promises to preserve a nickname (`peers.rs:99`). It looks in one
  transaction and inserts in another, and overwrites a nickname given in between.
- `tlc -config MCPeerDirectory_members.cfg MCPeerDirectory` (`MembersRegistered`): a ring
  add registers its peer in the address book (`protocol.rs:91`). Beside a peer remove
  that has swept the rings it finds the entry there that the remove then deletes: the
  member stays, and `peer remove` does not know him any more.

Met on the way and not given a run: `fetch_blob` asks for all chunks of a blob that
is not complete, those it has verified included (`RequestBlob`), where the repository's
README.md:21 has verified data not sent again; a process that is killed while it
writes its first `config.json` leaves a torn file, with which no later process starts
(`CreateConfig`, `ReadConfig`), and of processes that start at once in an empty
directory one may run under a key that the file does not hold (`foreign`); a request
that waits in the backlog of a daemon that drains is closed without an answer, while
`daemon start` takes such a daemon for a running one (`Probe`, `Connect`); the lines
and the records of one listing are read apart and may differ (`NextPass`);
`handle_attach` attaches the named rings as
well when `open` is set, where `protocol.rs` says they are ignored
(`HandleAttach`); a client whose line is not UTF-8 is closed without an event, and one
whose line is too long may miss its own (`ReadFails`, `ReadLongLine`, the exceptions of
`CleanCloseAnswered`); a receive that dies
between two exports is refused when it is run again, because its own directory
is there (`HandleReceive`); `export` resolves the destination once more, so with
`--force-overwrite` a directory received before gets the new one inside of it
instead of being replaced (`OpenDest`, place `nested`); two imports of different
files with one file name set one tag, so the first blob is collected while its
rings and tickets stay, and a tag set between the two halves of `delete_blob` is
deleted with the others (`Kept` is about the last import of a name, outside of
`raced`); the description of an entry in `catalog.rs` lacks the size and the count
that `write_entry` adds.

## Proofs

`RingAttachmentsProofs`, for any slots, blobs, rings and faults:

- `TypeCorrect`: `Spec => []TypeOK`. `Fresh` abstracts the five commands to what
  the rest of the proof needs of a new request.
- `OnlyRequestedHolds`: `Spec => []OnlyRequested`. Not inductive alone: a handler
  writes what it carries in `todo`, so `CarriesAsked` says that what a handler
  carries has been asked for. It holds of an attach by its request, and of a
  detach because it only writes back what it has read.
- `DetachFinalHolds` and `RemovedUnservedHolds`: `Spec => []DetachFinal` and
  `Spec => []RemovedUnserved`. The inductive invariant `FinalInv` is about who can
  undo a detach. One handler at most works on a blob that is not contested, and on
  one that is purged (`Lone`); what a detach will write back is none of what it cuts
  (`WritesBack`); a purged blob has no association left, or the remove that is at
  work on it is about to clear them (`Purged`). So between the clear and the
  rewrites nobody else adds what the detach has taken away.
- `PolicyHolds`: `Spec => PolicyRefined`, the refinement of `AccessPolicy`. `Intends`
  says that what a handler carries is what its request documents. Every transaction
  then maps to an addition, a cut, the end of a request, or a stutter; a fault only
  ends requests in the abstract specification.
- `RacesAreExplained`: `Spec => RacesExplained`. The run `attachments_race` shows that a
  blob can be served in a ring that its last request took it out of. By the theorem
  there is one way only: the write-back of a detach that had read the ring before, on
  a blob with overlapping requests.

`LocalStoreProofs`, for any peers, nicknames, registry and faults:

- `MigrationInvariant`: `Spec => [](TypeOK /\ Copied)`. `Copied` is the inductive
  invariant itself: what each step of the migration relies on, above all that
  `local.redb.tmp` equals `Contents` when it is renamed.
- `LocalStoreTypeHolds`: `Spec => []TypeOK`, a part of it.
- `MigrationRefines`: `Spec => StoreSpec`. Only `WriteRow` changes `Contents`, and
  only `WriteRow` runs while the store is open; every other step stutters or
  opens or closes the store.
- `DaemonNeverMigrates`: if every process that opens the store holds `registry.redb`,
  as `run_serve` does, `Spec => (Unmigrated => []Unmigrated)`. The run `store_daemon` shows a
  migration that fails; the theorem, that it fails each time, faults or not.

`BlobStoreProofs`, for any requests, blobs, names and faults:

- `StoreTypeCorrect`: `Spec => []TypeOK`.
- `KeptHolds`: `Spec => []Kept`. The inductive invariant adds that no tag dangles, in
  memory or in the last committed batch (`NoDangling`, a property of its own); that an
  import which is about to set its tag has its blob in the store, under its own temporary tag
  (`Held`), which is why the collector keeps `NoDangling`; and that a pin is given
  up before its tag is deleted (`GivenUp`).
- `RemoveCompleteHolds`: `Spec => RemoveComplete`, from the part `Unlisted` of the
  invariant: a tag on the blob of a remove is on its list or was set meanwhile.
- `NoDanglingHolds`: `Spec => []NoDangling`, a part of the invariant: no tag is without
  its blob, whatever the collector takes and whatever a kill falls back to.
- `LossesAreExplained`: `Spec => LossesExplained`. The run `blob_members` shows a tagged
  collection whose members are gone; the theorem, that one becomes so only when an
  import tags it after they were collected, or when a kill goes back to a database
  in which that had happened.

`LifecycleProofs`, for any commands, daemons and faults:

- `LifecycleTypeHolds`: `Spec => []TypeOK`.
- `StoppedHolds`: `Spec => []StoppedIsReleased`. The inductive invariant adds
  `Connected`: the daemon a command is connected to listens or is falling. So when
  `PollStop` finds nobody listening, the daemon it asked has either fallen or closed
  its listener, which it does after everything else, and is gone. Without
  `Connected` the daemon could be anywhere by then.
- `IdentityHolds`: `Spec => IdentityKept`. Only `CreateConfig` and `WriteConfig` touch
  the file or add to `foreign`, and neither runs when the directory is settled.
- `CommandsApproachHolds` and `NoneForgottenHolds`: `Spec => CommandsApproach` and
  `[]NoneForgotten`. A command goes through its labels, and its request through its
  states, in one direction, whoever else moves. And it never waits in vain, though
  `DaemonClient::send` has no timeout: a request in the backlog has a daemon that
  still has its listener, one that was taken has a daemon that serves or drains,
  because `EndDrain` and `Crash` close what they leave behind (`Attended`).
- `StartsKeptHolds`: `Spec => StartsKept`. Once a start in a settled directory has
  spawned its daemon, one is at the registry, at its node or on the port until one
  listens, while nothing fails: who finds the registry taken gives way to one
  that gets to the port, as a daemon falls, or is offline, by a fault only (`FallsByFault`).

`PeerDirectoryProofs`, for any handlers, peers, rings, nicknames and faults:

- `DirectoryTypeHolds`, `RemovalHolds`, `NicknameHolds` and `MembersHold`:
  `Spec => []TypeOK`, `[]RemovalComplete`, `[]NicknameKept` and `[]MembersInBook`.
  One inductive invariant carries all four. Who works on a peer: unless commands
  overlap one handler at most does (`Single`), and on an erased peer nobody but its
  removal (`OnlyRemoval`). What a removal has done already: its peer is in no ring
  that it has visited and in none made since its snapshot (`Swept`), and its grant
  is gone before the entry is (`Revoked`, `StillThere`). What `ensure` has read is
  still true when it inserts (`StillAbsent`). A member without an entry has its ring
  add at work (`Registered`).
- `ListSoundHolds` and `ListCompleteHolds`: `ListSpec => []ListSound` and
  `[]ListComplete`. The invariant `ListInv` follows a listing through its reads: what it
  has shown was so at some moment since its start (`Listed`); what was so all the time
  is shown or still in what is left to read or to look up (`OnlyOwed`); and the
  histories that this is measured by agree with the stores until the answer is
  given (`Watched`).
- `DirectoryHoldsBesideListings`: the four invariants of the commands under
  `ListSpec`, because the steps of a listing only read.

`DaemonServerProofs`, for any connections, operations, capacity and line bound:

- `ServerTypeHolds`, `TerminalLastHolds` and `CleanCloseHolds`: `Spec => []TypeOK`,
  `[]TerminalLast` and `[]CleanCloseAnswered`. Connections share only the accept loop,
  so the inductive invariant is one of each connection (`Good`, with `Frame` for the
  others). It follows the event that ends a request: before the handler sends it
  there is none (`NotYet`); from then on the client has it or it is the last in the
  channel (`Answered`), because the second sender, the progress task, has ended: it
  only runs while the handler waits for it (`OneSender`). A socket that closes while
  its task ends normally has then delivered it (`CleanClose`), or nothing was
  dispatched for its line.
- `ShutdownKeptHolds`: `Spec => []ShutdownKept`. A notified shutdown has stopped the
  accept loop or left its permit, so none is lost between two polls.
- `NoCircularWaitHolds`: `Spec => []NoCircularWait`. The handler waits for the progress
  task, that one for room in the channel, the channel for the connection task, and
  this one for the client only: while a request is in flight and its client
  reads, one of them can step, whatever the channel's capacity (`Owed`).
- `PanicsAreExplained`: `Spec => PanicsExplained`. The run `server_panic` shows the unwrap at
  the end of `run` fail; the theorem, that it fails only on a dispatch task that
  outlived its connection: the connection was aborted by the drain's timeout, its
  client had left, or the task is between dropping its sender and its `Arc<Node>`.

`TransferProofs`, for any receives, files, chunks and faults:

- `TransferTypeHolds`, `GuardKeepsHolds` and `AllOrNothingHolds`: `Spec => []TypeOK`,
  `[]GuardKeeps` and `AllOrNothing`. `Placed` says that a receive holds its temporary
  tag from before its first request to its end, except on the fast path; `Fetched`,
  what it has fetched by then: the root before the metadata, the metadata before the
  files, every file before the export. `CollectKeeps` is where the two meet: with the
  tag the collector spares the root, and everything once the root is complete. On
  the fast path nothing protects the one blob, and `AllOrNothing` rests on the
  store's own check in `ExportFile`.
- `ReceivesApproachHolds`: `Spec => ReceivesApproach`. In the lexicographic order of a
  receive's stage, the set of what it has still to fetch or to write, and the chunks
  of its current blob, every step of a receive brings it nearer its end and no step
  of the collector, the gate or another receive takes it away from it. `Files` and
  `Blobs` are finite in the code, so the order is well-founded.
- `ProgressRefines`: `ProgressSpec => Spec`. The callback, its task and the display add
  no step that a receive could not take without them, so all of the above holds
  beside them.
- `TicksHold`: `ProgressSpec => []TicksAreTrue`. The invariant `PipeInv` accounts for
  every file by its place: what the display and the events hold are the first files
  received, in their order, and a function, chosen by an existential, says how many
  of them are told by each report still in the queue (`Piping`). After the
  answer nothing is left on its way (`Settled`).

`CatalogProofs`, for any blobs, rings and faults:

- `CatalogTypeHolds`, `CatalogSoundHolds` and `CatalogCompleteHolds`: `Spec => []TypeOK`,
  `[]CatalogSound` and `[]CatalogComplete`. What must be shown is already sent, still
  to be looked at, or passed over by a failure (`Underway`), which holds because a blob
  that the handler passes over otherwise is not readable at that moment (`Observed`);
  the end of the stream is only written when nothing is left, or by a failure, which
  puts all that is left in `lost` (`Ends` has the phases of the two ends).
- `OwnerSeesTheSameHolds`: `Spec => []OwnerSeesTheSame`. `Found` follows `list_blobs`
  through its two loops while nothing changes.
- `ConnectionsApproachHolds` and `NoMutualWaitHolds`: `Spec => ConnectionsApproach` and
  `[]NoMutualWait`. Every step of either end brings a connection nearer its end in a
  well-founded order, nothing else takes it further away, and while the handler has
  the connection one of the two can step.

The assumptions are the named ones of the modules: the special values (`None`,
`NoFile`, `Absent`, ...) differ from what they mark the absence of, and bounds are
naturals.

Every invariant, action property and refinement of the runs that pass is stated by a
theorem. Only model-checked: the liveness properties (`Starts`, `ShutdownHeard`,
`DrainEnds`, `ClientAnswered`, `ReceiveEnds`, `CatalogEnds`, `CommandEnds`,
`StartServes`), as fairness is out of the prover's reach. For six of them theorems
state the part that is safety: `ShutdownKept` for `ShutdownHeard`, `NoCircularWait` for
`ClientAnswered`, `ReceivesApproach` for `ReceiveEnds`, `ConnectionsApproach` and
`NoMutualWait` for `CatalogEnds`, `CommandsApproach` and `NoneForgotten` for `CommandEnds`,
`StartsKept` for `StartServes`. That a step which can be taken is taken, and that a
measure which only falls reaches its end, is left to TLC. The properties that
are stated in a proof module were checked by TLC on small instances first.

## Not modelled

- The gate and the sending side: code of `iroh-rings`. Its registry operations
  are modelled as single transactions, from how the handlers use them.
- Files half written by an export that is killed.
- Received blobs in `BlobStore`: a receive sets no named tag, and `Transfer` has its
  temporary one.
- Sizes of listed blobs, and the lifetimes shown by `ring members`.
- The arithmetic of expiries (`parse_duration`, `unix_secs_after`, `future_expiry`): a
  membership ends at any time, and a ring add with a bad expiry returns early.
- Two data directories that share a port, and the relay probe and sockets of
  `Node::start`, whose failure is one step of `Lifecycle`. That dropping the node
  closes `registry.redb` and the blob store at once is taken from redb and iroh-blobs.
- Tickets, parsing, formatting, and the printing of commands other than `receive`:
  pure functions, with unit tests.

## Plan

Done: 1. `RingAttachments` with `AccessPolicy`; 2. `PeerDirectory` with `Listings`;
3. `LocalStore` with `DurableStore`; 4. `DaemonServer`; 5. `Transfer` with `Progress`;
6. `BlobStore`; 7. `Catalog`; 8. `Lifecycle`; proofs about all of them.

Next:

1. Memberships with a clock (expiry arithmetic in whole seconds against a clock that
   is not); two data directories on one port.
2. Proofs: the safety halves of `Starts` and `DrainEnds`.
