---------------------------- MODULE DaemonServer ----------------------------
(***************************************************************************)
(* The daemon's IPC server (daemon/server/mod.rs) and the part of          *)
(* handle_receive that streams progress (handlers/receive.rs).             *)
(*                                                                         *)
(*   run                the accept loop, the drain and the final unwrap    *)
(*   handle_connection  one task per connection, in the JoinSet            *)
(*   dispatch           one task per request, spawned on its own: it owns  *)
(*                      the request's Arc<Node> and sends its events       *)
(*                      through a bounded channel to handle_connection     *)
(*   progress           a third task, for a receive, with a clone of the   *)
(*                      channel's sender                                   *)
(***************************************************************************)
EXTENDS Naturals, Sequences

CONSTANTS
  Conns,     \* client connections
  Ops,       \* the operations clients ask for
  Capacity,  \* of the event channel between dispatch and handle_connection
  MaxLines   \* bound on the lines or progress callbacks of one request

ASSUME ServerAssumption ==
  /\ Ops \subseteq {"op", "receive", "shutdown"}
  /\ Capacity \in Nat \ {0}
  /\ MaxLines \in Nat \ {0}

VARIABLES
  server,   \* where `run` is
  permit,   \* the permit stored in the shutdown Notify
  sock,     \* sock[c]: the client: "waiting" reads, "stalled" does not and the
            \* socket's buffers are full, "closed" has read the end of the stream
  line,     \* line[c]: the request line the client wrote, "none" before
            \* ("bad": not a request, "long": too long, "garbled": not UTF-8)
  task,     \* task[c]: the handle_connection task
  job,      \* job[c]: the dispatch task, with the lines it will still send
  prog,     \* prog[c]: the progress task of a receive
  pending,  \* pending[c]: progress callbacks not yet taken by that task
  chan,     \* chan[c]: the event channel, of "line" and "end" (Done or Error)
  got       \* got[c]: has the client seen the last event, or even more?

serverVars == <<server, permit>>
vars == <<server, permit, sock, line, task, job, prog, pending, chan, got>>

JobState ==
  [pc : {"none", "running", "fetching", "joining", "notify", "return", "closing", "ended"},
   left : 0 .. MaxLines]

Init ==
  /\ server = "select"
  /\ permit = FALSE
  /\ sock = [c \in Conns |-> "none"]
  /\ line = [c \in Conns |-> "none"]
  /\ task = [c \in Conns |-> "none"]
  /\ job = [c \in Conns |-> [pc |-> "none", left |-> 0]]
  /\ prog = [c \in Conns |-> "none"]
  /\ pending = [c \in Conns |-> 0]
  /\ chan = [c \in Conns |-> <<>>]
  /\ got = [c \in Conns |-> "open"]

Up == server \in {"select", "accepting", "draining", "aborting"}

Live(c) == task[c] \in {"reading", "forwarding"}

\* The connection's Arc<Node>: with handle_connection until the request is
\* dispatched, then with dispatch until it has returned.
HoldsNode(c) == task[c] = "reading" \/ job[c].pc \notin {"none", "ended"}

\* A sender of the event channel still exists.
SenderAlive(c) ==
  \/ job[c].pc \in {"running", "fetching", "joining", "notify", "return"}
  \/ prog[c] = "running"

-----------------------------------------------------------------------------
(* Clients: daemon/client.rs, or anything else on the socket. A probe that   *)
(* connects and leaves without a word is DaemonClient::is_running.           *)

\* The listener is open until the process ends, also while it drains.
Connect(c) ==
  /\ Up
  /\ sock[c] = "none"
  /\ sock' = [sock EXCEPT ![c] = "waiting"]
  /\ UNCHANGED <<serverVars, line, task, job, prog, pending, chan, got>>

\* One request line, or what is written in the place of one.
WriteLine(c) ==
  /\ sock[c] = "waiting"
  /\ line[c] = "none"
  /\ \E op \in Ops \cup {"bad", "long", "garbled"} : line' = [line EXCEPT ![c] = op]
  /\ UNCHANGED <<serverVars, sock, task, job, prog, pending, chan, got>>

\* The client stops reading, and the socket's buffers are full.
Stall(c) ==
  /\ sock[c] = "waiting"
  /\ sock' = [sock EXCEPT ![c] = "stalled"]
  /\ UNCHANGED <<serverVars, line, task, job, prog, pending, chan, got>>

Leave(c) ==
  /\ sock[c] \in {"waiting", "stalled"}
  /\ sock' = [sock EXCEPT ![c] = "left"]
  /\ UNCHANGED <<serverVars, line, task, job, prog, pending, chan, got>>

\* The client sees an event; nothing may follow the last one.
Sees(c, event) ==
  got' = [got EXCEPT ![c] = IF @ # "open" THEN "excess"
                            ELSE IF event = "end" THEN "end" ELSE "open"]

\* handle_connection returns: the channel's receiver and the socket go.
EndTask(c) ==
  /\ task' = [task EXCEPT ![c] = "ended"]
  /\ chan' = [chan EXCEPT ![c] = <<>>]
  /\ sock' = [sock EXCEPT ![c] = IF @ = "waiting" THEN "closed" ELSE @]

-----------------------------------------------------------------------------
(* handle_connection. *)

\* The peer closed before sending a line: nothing to do.
ReadNothing(c) ==
  /\ task[c] = "reading"
  /\ line[c] = "none"
  /\ sock[c] = "left"
  /\ EndTask(c)
  /\ UNCHANGED <<serverVars, line, job, prog, pending, got>>

\* Any other error of the codec: the line is not UTF-8, or the connection was
\* reset with a line still unread. handle_connection returns it to the task,
\* which logs it; the socket is closed without an event.
ReadFails(c) ==
  /\ task[c] = "reading"
  /\ line[c] = "garbled" \/ sock[c] = "left"
  /\ EndTask(c)
  /\ UNCHANGED <<serverVars, line, job, prog, pending, got>>

\* Too long a line: an error event, but the socket is closed with the rest of
\* the line unread, and the reset may overtake the event.
ReadLongLine(c) ==
  /\ task[c] = "reading"
  /\ line[c] = "long"
  /\ \/ UNCHANGED got
     \/ sock[c] = "waiting" /\ Sees(c, "end")
  /\ EndTask(c)
  /\ UNCHANGED <<serverVars, line, job, prog, pending>>

\* Not a request: an error event, written directly.
ReadBadLine(c) ==
  /\ task[c] = "reading"
  /\ line[c] = "bad"
  /\ IF sock[c] = "waiting" THEN Sees(c, "end") ELSE UNCHANGED got
  /\ EndTask(c)
  /\ UNCHANGED <<serverVars, line, job, prog, pending>>

\* A request: its dispatch task is spawned and takes the Arc<Node> along. The
\* handler will send some number of lines and records, none for a shutdown.
SpawnDispatch(c) ==
  /\ task[c] = "reading"
  /\ line[c] \in Ops
  /\ task' = [task EXCEPT ![c] = "forwarding"]
  /\ \E n \in 0 .. (IF line[c] = "shutdown" THEN 0 ELSE MaxLines) :
       job' = [job EXCEPT ![c] = [pc |-> "running", left |-> n]]
  /\ UNCHANGED <<serverVars, sock, line, prog, pending, chan, got>>

\* rx.recv() yields an event and the write goes through.
Forward(c) ==
  /\ task[c] = "forwarding"
  /\ chan[c] # <<>>
  /\ sock[c] = "waiting"
  /\ Sees(c, Head(chan[c]))
  /\ chan' = [chan EXCEPT ![c] = Tail(@)]
  /\ UNCHANGED <<serverVars, sock, line, task, job, prog, pending>>

\* The client is gone: the write fails, or still fits in a buffer.
ForwardToNobody(c) ==
  /\ task[c] = "forwarding"
  /\ chan[c] # <<>>
  /\ sock[c] = "left"
  /\ \/ EndTask(c)
     \/ /\ chan' = [chan EXCEPT ![c] = Tail(@)]
        /\ UNCHANGED <<task, sock>>
  /\ UNCHANGED <<serverVars, line, job, prog, pending, got>>

\* Mutant: the forward loop stops with the senders, and loses what is queued.
ForwardEndsEarly(c) ==
  /\ task[c] = "forwarding"
  /\ ~SenderAlive(c)
  /\ EndTask(c)
  /\ UNCHANGED <<serverVars, line, job, prog, pending, got>>

\* rx.recv() yields None: the channel is empty and has no sender left.
ForwardEnds(c) ==
  /\ task[c] = "forwarding"
  /\ chan[c] = <<>>
  /\ ~SenderAlive(c)
  /\ EndTask(c)
  /\ UNCHANGED <<serverVars, line, job, prog, pending, got>>

-----------------------------------------------------------------------------
(* dispatch, and the handlers as far as the channel can tell. *)

JobAt(c, label) == job[c].pc = label

JobGoto(c, label) == job' = [job EXCEPT ![c].pc = label]

\* Mutant: the event channel is unbounded.
SendUnbounded(c, event) ==
  IF task[c] = "forwarding"
  THEN chan' = [chan EXCEPT ![c] = Append(@, event)]
  ELSE UNCHANGED chan

\* tx.send(event).await: blocks while the channel is full; the error of a
\* channel whose receiver is gone is ignored.
Send(c, event) ==
  IF task[c] = "forwarding"
  THEN /\ Len(chan[c]) < Capacity
       /\ chan' = [chan EXCEPT ![c] = Append(@, event)]
  ELSE UNCHANGED chan

SendLine(c) ==
  /\ JobAt(c, "running")
  /\ job[c].left > 0
  /\ Send(c, "line")
  /\ job' = [job EXCEPT ![c].left = @ - 1]
  /\ UNCHANGED <<serverVars, sock, line, task, prog, pending, got>>

\* Done from the handler, or Error from dispatch, as the last event.
SendEnd(c) ==
  /\ JobAt(c, "running")
  /\ job[c].left = 0
  /\ Send(c, "end")
  /\ JobGoto(c, IF line[c] = "shutdown" THEN "notify" ELSE "return")
  /\ UNCHANGED <<serverVars, sock, line, task, prog, pending, got>>

\* Mutant: notify_waiters, which leaves no permit for a loop that is busy.
NotifyShutdownWaiters(c) ==
  /\ JobAt(c, "notify")
  /\ permit' = (permit \/ server = "select")
  /\ JobGoto(c, "return")
  /\ UNCHANGED <<server, sock, line, task, prog, pending, chan, got>>

\* Op::Shutdown: notify_one stores a permit if nobody is waiting.
NotifyShutdown(c) ==
  /\ JobAt(c, "notify")
  /\ permit' = TRUE
  /\ JobGoto(c, "return")
  /\ UNCHANGED <<server, sock, line, task, prog, pending, chan, got>>

\* dispatch returns; its arguments are dropped last to first, so the sender
\* goes one step before the Arc<Node>.
DropSender(c) ==
  /\ JobAt(c, "return")
  /\ JobGoto(c, "closing")
  /\ UNCHANGED <<serverVars, sock, line, task, prog, pending, chan, got>>

DropNode(c) ==
  /\ JobAt(c, "closing")
  /\ JobGoto(c, "ended")
  /\ UNCHANGED <<serverVars, sock, line, task, prog, pending, chan, got>>

\* handle_receive, its destination accepted and its first lines sent, spawns
\* the progress task and starts the download, which reports n times at most.
StartDownload(c) ==
  /\ JobAt(c, "running")
  /\ job[c].left = 0
  /\ line[c] = "receive"
  /\ prog[c] = "none"
  /\ prog' = [prog EXCEPT ![c] = "running"]
  /\ \E n \in 0 .. MaxLines :
       job' = [job EXCEPT ![c] = [pc |-> "fetching", left |-> n]]
  /\ UNCHANGED <<serverVars, sock, line, task, pending, chan, got>>

\* on_progress: never blocks, the progress channel is unbounded.
ProgressCallback(c) ==
  /\ JobAt(c, "fetching")
  /\ job[c].left > 0
  /\ job' = [job EXCEPT ![c].left = @ - 1]
  /\ pending' = [pending EXCEPT ![c] = @ + 1]
  /\ UNCHANGED <<serverVars, sock, line, task, prog, chan, got>>

\* The download succeeds or fails, and drops the progress sender with itself.
DownloadEnds(c) ==
  /\ JobAt(c, "fetching")
  /\ job' = [job EXCEPT ![c] = [pc |-> "joining", left |-> 0]]
  /\ UNCHANGED <<serverVars, sock, line, task, prog, pending, chan, got>>

\* Mutant: the progress task is not awaited.
JoinProgressLater(c) ==
  /\ JobAt(c, "joining")
  /\ \E n \in {0, 1} :
       job' = [job EXCEPT ![c] = [pc |-> "running", left |-> n]]
  /\ UNCHANGED <<serverVars, sock, line, task, prog, pending, chan, got>>

\* progress_task.await; then "Transfer complete." and Done, or the Error alone.
JoinProgress(c) ==
  /\ JobAt(c, "joining")
  /\ prog[c] = "ended"
  /\ \E n \in {0, 1} :
       job' = [job EXCEPT ![c] = [pc |-> "running", left |-> n]]
  /\ UNCHANGED <<serverVars, sock, line, task, prog, pending, chan, got>>

-----------------------------------------------------------------------------
(* The progress task of handle_receive. *)

SendProgress(c) ==
  /\ prog[c] = "running"
  /\ pending[c] > 0
  /\ Send(c, "line")
  /\ pending' = [pending EXCEPT ![c] = @ - 1]
  /\ UNCHANGED <<serverVars, sock, line, task, job, prog, got>>

\* Mutant: the handler keeps a progress sender until it returns.
ProgressEndsAtReturn(c) ==
  /\ prog[c] = "running"
  /\ pending[c] = 0
  /\ job[c].pc \in {"return", "closing", "ended"}
  /\ prog' = [prog EXCEPT ![c] = "ended"]
  /\ UNCHANGED <<serverVars, sock, line, task, job, pending, chan, got>>

\* progress_rx.recv() yields None once the download has dropped its sender.
ProgressEnds(c) ==
  /\ prog[c] = "running"
  /\ pending[c] = 0
  /\ ~JobAt(c, "fetching")
  /\ prog' = [prog EXCEPT ![c] = "ended"]
  /\ UNCHANGED <<serverVars, sock, line, task, job, pending, chan, got>>

-----------------------------------------------------------------------------
(* run. *)

\* select!'s accept branch wins: a task is spawned for the connection.
Accept(c) ==
  /\ server = "select"
  /\ sock[c] # "none"
  /\ task[c] = "none"
  /\ task' = [task EXCEPT ![c] = "reading"]
  /\ server' = "accepting"
  /\ UNCHANGED <<permit, sock, line, job, prog, pending, chan, got>>

\* Back to select!, with a new notified() future.
Loop ==
  /\ server = "accepting"
  /\ server' = "select"
  /\ UNCHANGED <<permit, sock, line, task, job, prog, pending, chan, got>>

\* select!'s shutdown branch wins and takes the permit.
StartDrain ==
  /\ server = "select"
  /\ permit
  /\ permit' = FALSE
  /\ server' = "draining"
  /\ UNCHANGED <<sock, line, task, job, prog, pending, chan, got>>

\* Mutant: the timeout spares the connections with a request in flight.
DrainTimeoutIdle ==
  /\ server = "draining"
  /\ \E c \in Conns : Live(c)
  /\ \A c \in Conns : task[c] # "forwarding"
  /\ server' = "aborting"
  /\ UNCHANGED <<permit, sock, line, task, job, prog, pending, chan, got>>

\* The 30 s are over before the JoinSet is empty: abort_all.
DrainTimeout ==
  /\ server = "draining"
  /\ \E c \in Conns : Live(c)
  /\ server' = "aborting"
  /\ UNCHANGED <<permit, sock, line, task, job, prog, pending, chan, got>>

\* An aborted connection task is dropped where it waits. Its dispatch task is
\* not in the JoinSet and goes on.
AbortTask(c) ==
  /\ server = "aborting"
  /\ Live(c)
  /\ task' = [task EXCEPT ![c] = "aborted"]
  /\ chan' = [chan EXCEPT ![c] = <<>>]
  /\ sock' = [sock EXCEPT ![c] = IF @ = "waiting" THEN "closed" ELSE @]
  /\ UNCHANGED <<serverVars, line, job, prog, pending, got>>

\* The process ends: every task and every socket goes with it.
Exit(outcome) ==
  /\ server' = outcome
  /\ task' = [c \in Conns |-> IF Live(c) THEN "aborted" ELSE task[c]]
  /\ job' = [c \in Conns |-> IF JobAt(c, "none") THEN job[c]
                             ELSE [pc |-> "ended", left |-> 0]]
  /\ prog' = [c \in Conns |-> IF prog[c] = "none" THEN "none" ELSE "ended"]
  /\ chan' = [c \in Conns |-> <<>>]
  /\ pending' = [c \in Conns |-> 0]
  /\ sock' = [c \in Conns |-> IF sock[c] = "waiting" THEN "closed" ELSE sock[c]]
  /\ UNCHANGED <<permit, line, got>>

\* The JoinSet is empty: Arc::try_unwrap gives the node up for its shutdown
\* (router, blob store flush) if this was the last reference, else it panics.
UnwrapNode ==
  /\ server \in {"draining", "aborting"}
  /\ \A c \in Conns : ~Live(c)
  /\ Exit(IF \E c \in Conns : HoldsNode(c) THEN "panicked" ELSE "stopped")

\* accept() fails: run returns the error, without the node's shutdown.
AcceptFails ==
  /\ server = "select"
  /\ Exit("failed")

-----------------------------------------------------------------------------

TaskStep(c) ==
  \/ ReadNothing(c)
  \/ ReadFails(c)
  \/ ReadLongLine(c)
  \/ ReadBadLine(c)
  \/ SpawnDispatch(c)
  \/ Forward(c)
  \/ ForwardToNobody(c)
  \/ ForwardEnds(c)

JobStep(c) ==
  \/ SendLine(c)
  \/ SendEnd(c)
  \/ NotifyShutdown(c)
  \/ DropSender(c)
  \/ DropNode(c)
  \/ StartDownload(c)
  \/ DownloadEnds(c)
  \/ JoinProgress(c)

ProgressStep(c) == SendProgress(c) \/ ProgressEnds(c)

ClientStep(c) == Connect(c) \/ WriteLine(c) \/ Stall(c) \/ Leave(c)

Next ==
  \/ \E c \in Conns :
       \/ ClientStep(c)
       \/ TaskStep(c)
       \/ JobStep(c)
       \/ ProgressCallback(c)
       \/ ProgressStep(c)
       \/ Accept(c)
       \/ AbortTask(c)
  \/ Loop
  \/ StartDrain
  \/ DrainTimeout
  \/ UnwrapNode
  \/ AcceptFails

(***************************************************************************)
(* Tasks that can run are run by the runtime, timers fire, downloads end   *)
(* (QUIC connections time out), and select! picks ready branches at random *)
(* so neither is passed over forever. Clients owe nothing: they may never  *)
(* write, read or leave; nor must accept() fail or progress be reported.   *)
(***************************************************************************)
Fairness ==
  /\ \A c \in Conns :
       /\ WF_vars(TaskStep(c))
       /\ WF_vars(JobStep(c))
       /\ WF_vars(ProgressStep(c))
       /\ SF_vars(Accept(c))
       /\ WF_vars(AbortTask(c))
  /\ WF_vars(Loop)
  /\ SF_vars(StartDrain)
  /\ WF_vars(DrainTimeout)
  /\ WF_vars(UnwrapNode)

Spec == Init /\ [][Next]_vars /\ Fairness

-----------------------------------------------------------------------------
(* Properties. *)

\* The variables keep their types, the channel its capacity.
TypeOK ==
  /\ server \in {"select", "accepting", "draining", "aborting",
                 "stopped", "panicked", "failed"}
  /\ permit \in BOOLEAN
  /\ sock \in [Conns -> {"none", "waiting", "stalled", "left", "closed"}]
  /\ line \in [Conns -> Ops \cup {"none", "bad", "long", "garbled"}]
  /\ task \in [Conns -> {"none", "reading", "forwarding", "ended", "aborted"}]
  /\ job \in [Conns -> JobState]
  /\ prog \in [Conns -> {"none", "running", "ended"}]
  /\ pending \in [Conns -> 0 .. MaxLines]
  /\ chan \in [Conns -> Seq({"line", "end"})]
  /\ \A c \in Conns : Len(chan[c]) <= Capacity
  /\ got \in [Conns -> {"open", "end", "excess"}]

\* No event follows Done or Error, in the channel or at the client, although a
\* receive has two tasks sending into the channel (protocol.rs: "no further
\* events will follow for this req_id").
TerminalLast ==
  \A c \in Conns :
    /\ got[c] # "excess"
    /\ \A i \in 1 .. Len(chan[c]) : chan[c][i] = "end" => i = Len(chan[c])
    /\ got[c] = "end" => chan[c] = <<>>

\* When the daemon closes a connection of its own accord, that is not by an
\* abort or the end of the process, a client that wrote a line and still reads
\* has its Done or Error: the channel is drained before the socket goes. The
\* exceptions are a line that cannot be read, which is closed with no event at
\* all, and one that is too long, whose event can be lost; nothing was
\* dispatched for either, so a silent close never hides an operation.
CleanCloseAnswered ==
  \A c \in Conns :
    task[c] = "ended" /\ sock[c] = "closed" /\ line[c] # "none"
      => \/ got[c] = "end"
         \/ line[c] \in {"long", "garbled"} /\ JobAt(c, "none")

\* The daemon never fails to shut its node down: when the connection tasks
\* have completed nobody holds the node ("all connection tasks completed").
NoPanic == server # "panicked"

\* A shutdown request that was acknowledged makes the accept loop stop, even
\* when it arrives while the loop is busy with another connection.
ShutdownHeard ==
  (\E c \in Conns : JobAt(c, "notify")) ~> server \notin {"select", "accepting"}

\* Draining ends, whatever clients and handlers do: idle connections, clients
\* that stopped reading and full channels cannot keep the process alive.
DrainEnds == server = "draining" ~> ~Up

\* A client that wrote a line and keeps reading gets its Done or Error, or sees
\* the connection close.
ClientAnswered ==
  \A c \in Conns :
    sock[c] = "waiting" /\ line[c] # "none"
      ~> got[c] = "end" \/ sock[c] # "waiting"
=============================================================================
