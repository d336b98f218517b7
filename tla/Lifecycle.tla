------------------------------ MODULE Lifecycle ------------------------------
(***************************************************************************)
(* One data directory, the daemons that run on it and the commands of the  *)
(* user that start, stop and ask them: config.rs, cli/command/daemon.rs,   *)
(* daemon/client.rs, and of the daemon what they can see of it (run_serve, *)
(* Node::start, DaemonServer::bind and run). Processes share three things: *)
(* config.json, the lock redb has on registry.redb, and the port.          *)
(* What happens inside of a serving daemon is DaemonServer's subject.      *)
(***************************************************************************)
EXTENDS Naturals, FiniteSets

CONSTANTS
  Shells,    \* slots for commands of the user that run at once
  Daemons,   \* slots for `daemon run` processes
  Nobody,    \* no process
  MaxFirst,  \* bound on the processes that make a key at once
  MaxFaults  \* bound on kills, errors and outages of the environment, and panics

Procs == Shells \cup Daemons

\* op: any command of one request (ring, peer, blob, grant, id, ...), and
\* `daemon status`, which also looks first.
Commands == {"start", "stop", "op"}

ASSUME LifecycleAssumption ==
  /\ Shells \cap Daemons = {}
  /\ Nobody \notin Procs
  /\ MaxFirst \in Nat
  /\ MaxFaults \in Nat

VARIABLES
  file,      \* config.json: missing, torn (there, without its text) or whole
  foreign,   \* daemons whose key is not the one in config.json
  pc,        \* where each process is; "idle" when there is none
  cmd,       \* cmd[s]: the command of shell s
  conn,      \* conn[s]: the connection of s, [to: daemon, st: its state]
  notified,  \* daemons that have been told to shut down
  faults

config == <<file, foreign>>
shells == <<cmd, conn>>
vars == <<config, pc, shells, notified, faults>>

Closed == [to |-> Nobody, st |-> "none"]

Init ==
  /\ file = "missing"
  /\ foreign = {}
  /\ pc = [p \in Procs |-> "idle"]
  /\ cmd = [s \in Shells |-> "none"]
  /\ conn = [s \in Shells |-> Closed]
  /\ notified = {}
  /\ faults = 0

Goto(p, label) == pc' = [pc EXCEPT ![p] = label]

\* p goes on, and nothing else changes.
Step(p, from, to) ==
  /\ pc[p] = from
  /\ Goto(p, to)
  /\ UNCHANGED <<config, shells, notified, faults>>

\* Process p is gone, and with it all it had open; the answers a daemon has
\* sent can still be read.
End(p) ==
  /\ Goto(p, "idle")
  /\ foreign' = foreign \ {p}
  /\ cmd' = [s \in Shells |-> IF s = p THEN "none" ELSE cmd[s]]
  /\ conn' = [s \in Shells |->
       IF s = p THEN Closed
       ELSE IF conn[s].to # p THEN conn[s]
       ELSE [to |-> Nobody,
             st |-> IF conn[s].st = "answered" THEN "answered" ELSE "closed"]]
  /\ UNCHANGED file

\* p ends by itself.
Finish(p) == End(p) /\ notified' = notified \ {p} /\ UNCHANGED faults

\* Has d the registry open? redb allows it to one process.
Owns(d) == pc[d] \in {"node", "offline", "serve", "drain", "flush", "falling"}

\* Mutant: the listener is dropped when the drain is over.
ListensUntilDrained(d) == pc[d] \in {"serve", "drain"}

\* Has d the port? run keeps its listener until the node is gone.
Listens(d) == pc[d] \in {"serve", "drain", "flush", "released"}

\* DaemonClient::is_running: the connection succeeds, accepted or not.
Running == \E d \in Daemons : Listens(d)

-----------------------------------------------------------------------------
(* Config::load_or_create, the first thing every process does. *)

Creating == {p \in Procs : pc[p] \in {"create", "write"}}

\* The processes with a key. That of a command is of no use to it.
Configured == {p \in Procs : pc[p] \notin {"idle", "create"}}

\* What p, running command c, does with its configuration. run_stop looks first
\* whether a daemon is there: like its request it ends when there is none.
FirstStep(p, c) ==
  IF p \in Daemons THEN "registry" ELSE IF c = "start" THEN "probe" ELSE "connect"

\* Mutant: the configuration is created whether or not it exists.
ReadConfigAnew(p, c) == Goto(p, "create")

\* A process starts: the file is looked for, read and parsed. Without its text it
\* is an error, and the process is gone again.
ReadConfig(p, c) ==
  \/ file = "whole" /\ Goto(p, FirstStep(p, c))
  \/ file = "missing" /\ Cardinality(Creating) < MaxFirst /\ Goto(p, "create")

\* A new key; fs::write empties the file, or makes it, before it writes.
CreateConfig(p) ==
  /\ pc[p] = "create"
  /\ Goto(p, "write")
  /\ file' = "torn"
  /\ UNCHANGED <<foreign, shells, notified, faults>>

\* Mutant: the commands are counted in.
WriteConfigAll(p) ==
  /\ pc[p] = "write"
  /\ file' = "whole"
  /\ foreign' = Configured \ {p}
  /\ Goto(p, FirstStep(p, IF p \in Shells THEN cmd[p] ELSE "run"))
  /\ UNCHANGED <<shells, notified, faults>>

WriteConfig(p) ==
  /\ pc[p] = "write"
  /\ file' = "whole"
  /\ foreign' = (Configured \cap Daemons) \ {p}
  /\ Goto(p, FirstStep(p, IF p \in Shells THEN cmd[p] ELSE "run"))
  /\ UNCHANGED <<shells, notified, faults>>

-----------------------------------------------------------------------------
(* Commands. *)

\* The user runs a command, which reads the configuration.
Invoke(s, c) ==
  /\ pc[s] = "idle"
  /\ cmd' = [cmd EXCEPT ![s] = c]
  /\ ReadConfig(s, c)
  /\ UNCHANGED <<config, conn, notified, faults>>

\* run_start looks whether a daemon is there.
Probe(s) ==
  \/ ~Running /\ Step(s, "probe", "spawn")
  \/ Running /\ pc[s] = "probe" /\ Finish(s)

\* run_start: a process of its own, in its own process group. config.json is
\* there by now, if perhaps torn.
Spawn(s) ==
  /\ pc[s] = "spawn"
  /\ \E d \in Daemons :
       /\ pc[d] = "idle"
       /\ pc' = [pc EXCEPT ![s] = "poll",
                          ![d] = IF file = "whole" THEN FirstStep(d, "run") ELSE "idle"]
  /\ UNCHANGED <<config, cmd, conn, notified, faults>>

\* A daemon is there, its own or another: run_start asks it for its id.
Found(s) ==
  /\ Running
  /\ Goto(s, "connect")
  /\ cmd' = [cmd EXCEPT ![s] = "op"]
  /\ UNCHANGED <<config, conn, notified, faults>>

\* Mutant: run_start waits for as long as it takes.
PollStartOn(s) == pc[s] = "poll" /\ Found(s)

\* run_start waits for a daemon.
PollStart(s) == pc[s] = "poll" /\ (Found(s) \/ (~Running /\ Finish(s)))

\* DaemonClient::send. The connection is made by the listener's backlog,
\* whether or not the daemon still accepts; without a listener it is refused.
Connect(s) ==
  /\ pc[s] = "connect"
  /\ \/ \E d \in Daemons :
          /\ Listens(d)
          /\ conn' = [conn EXCEPT ![s] = [to |-> d, st |-> "queued"]]
          /\ Goto(s, "wait")
          /\ UNCHANGED <<config, cmd, notified, faults>>
     \/ ~Running /\ Finish(s)

\* The last event, or the end of the connection without one. run_stop goes on
\* to see the daemon off; the others are done (run_start says "?" for an id).
ReadAnswer(s) ==
  /\ pc[s] = "wait"
  /\ \/ /\ conn[s].st = "answered"
        /\ cmd[s] = "stop"
        /\ Goto(s, "leaving")
        /\ UNCHANGED <<config, cmd, conn, notified, faults>>
     \/ /\ conn[s].st = "answered"
        /\ cmd[s] # "stop"
        /\ Finish(s)
     \/ conn[s].st = "closed" /\ Finish(s)

\* run_stop looks until nobody listens.
PollStop(s) ==
  \/ ~Running /\ Step(s, "leaving", "stopped")
  \/ Running /\ pc[s] = "leaving" /\ Finish(s)

\* "Rdrop daemon stopped."
SayStopped(s) == pc[s] = "stopped" /\ Finish(s)

-----------------------------------------------------------------------------
(* run_serve. *)

\* `daemon run` without `daemon start`.
RunForeground(d) ==
  /\ pc[d] = "idle"
  /\ ReadConfig(d, "run")
  /\ UNCHANGED <<config, shells, notified, faults>>

\* RedbRegistry::open.
OpenRegistry(d) ==
  \/ (\A e \in Daemons : ~Owns(e)) /\ Step(d, "registry", "node")
  \/ (\E e \in Daemons : Owns(e)) /\ pc[d] = "registry" /\ Finish(d)

\* Node::start: relay, endpoint, blob store, local store, the wait to be online;
\* then DaemonServer::bind.
StartNode(d) ==
  \/ ~Running /\ Step(d, "node", "serve")
  \/ Running /\ pc[d] = "node" /\ Finish(d)

\* Node::start waits in endpoint.online, without a timeout, for as long as the
\* machine has no network; it has registry.redb open meanwhile.
GoOffline(d) ==
  /\ faults < MaxFaults
  /\ pc[d] = "node"
  /\ Goto(d, "offline")
  /\ faults' = faults + 1
  /\ UNCHANGED <<config, shells, notified>>

\* The network is there again, if ever.
ComeOnline(d) == Step(d, "offline", "node")

\* The accept loop takes a connection and starts its tasks.
Accept(d, s) ==
  /\ pc[d] = "serve"
  /\ conn[s] = [to |-> d, st |-> "queued"]
  /\ conn' = [conn EXCEPT ![s].st = "taken"]
  /\ UNCHANGED <<config, pc, cmd, notified, faults>>

\* The handler ends; a shutdown request notifies the accept loop as well.
Answer(d, s) ==
  /\ pc[d] \in {"serve", "drain"}
  /\ conn[s] = [to |-> d, st |-> "taken"]
  /\ conn' = [conn EXCEPT ![s].st = "answered"]
  /\ notified' = IF cmd[s] = "stop" THEN notified \cup {d} ELSE notified
  /\ UNCHANGED <<config, pc, cmd, faults>>

\* The accept loop ends; the listener stays.
BeginDrain(d) == d \in notified /\ Step(d, "serve", "drain")

\* The connections of d in a state of S are closed.
Cut(d, S) ==
  conn' = [s \in Shells |->
    IF conn[s].to = d /\ conn[s].st \in S
    THEN [conn[s] EXCEPT !.st = "closed"] ELSE conn[s]]

\* Every request is answered, or aborted after 30 s; the node is unwrapped.
EndDrain(d) ==
  /\ pc[d] = "drain"
  /\ Cut(d, {"taken"})
  /\ Goto(d, "flush")
  /\ UNCHANGED <<config, cmd, notified, faults>>

\* Node::shutdown, which consumes the node; registry.redb is closed with it.
Shutdown(d) == Step(d, "flush", "released")

\* accept() fails and run returns at once, or a dispatch task still has the node
\* when it is to be unwrapped, which panics (see DaemonServer). The listener goes
\* first when a dispatch task has the node to the end, and last when none has.
Crash(d) ==
  /\ pc[d] \in {"serve", "drain"}
  /\ faults < MaxFaults
  /\ faults' = faults + 1
  /\ \/ Goto(d, "falling") /\ Cut(d, {"queued", "taken"})
     \/ pc[d] = "serve" /\ Goto(d, "released") /\ Cut(d, {"taken"})
  /\ UNCHANGED <<config, cmd, notified>>

\* The process is gone.
Exit(d) == pc[d] \in {"released", "falling"} /\ Finish(d)

-----------------------------------------------------------------------------
(* Faults. *)

\* The daemons a killed process had asked, or was about to ask, to shut down.
Asked(p) ==
  IF p \in Shells /\ cmd[p] = "stop" THEN {conn[p].to} \cap Daemons ELSE {}

\* A process is killed or interrupted, or Node::start returns an error (relay,
\* endpoint, blob store, local store). A request it has sent may arrive.
Kill(p) ==
  /\ pc[p] # "idle"
  /\ faults < MaxFaults
  /\ faults' = faults + 1
  /\ End(p)
  /\ \E told \in SUBSET Asked(p) : notified' = (notified \cup told) \ {p}

\* The steps of a command, those its daemon takes for it included.
ShellStep(s) ==
  \/ CreateConfig(s) \/ WriteConfig(s)
  \/ Probe(s) \/ Spawn(s) \/ PollStart(s)
  \/ Connect(s) \/ ReadAnswer(s) \/ PollStop(s) \/ SayStopped(s)
  \/ \E d \in Daemons : Accept(d, s) \/ Answer(d, s)

DaemonStep(d) ==
  \/ CreateConfig(d) \/ WriteConfig(d)
  \/ OpenRegistry(d) \/ StartNode(d)
  \/ BeginDrain(d) \/ EndDrain(d) \/ Shutdown(d) \/ Exit(d)

Next ==
  \/ \E s \in Shells : ShellStep(s) \/ \E c \in Commands : Invoke(s, c)
  \/ \E d \in Daemons : DaemonStep(d) \/ RunForeground(d) \/ Crash(d)
                        \/ GoOffline(d) \/ ComeOnline(d)
  \/ \E p \in Procs : Kill(p)

Spec == Init /\ [][Next]_vars

\* Processes run on; handlers, drains and, but for a machine without a network,
\* Node::start end. A process can always be started, while the slots for daemons,
\* a bound of the model, may be taken now and then: hence the strong fairness.
\* Nothing makes a user act or a network come back.
Fairness ==
  /\ \A s \in Shells : SF_vars(ShellStep(s))
  /\ \A d \in Daemons : WF_vars(DaemonStep(d))

FairSpec == Spec /\ Fairness

-----------------------------------------------------------------------------
(* Properties. *)

ShellLabels == {"idle", "create", "write", "probe", "spawn", "poll",
                "connect", "wait", "leaving", "stopped"}

DaemonLabels == {"idle", "create", "write", "registry", "node", "offline",
                 "serve", "drain", "flush", "released", "falling"}

\* The variables keep their types.
TypeOK ==
  /\ file \in {"missing", "torn", "whole"}
  /\ foreign \in SUBSET (Configured \cap Daemons)
  /\ pc \in [Procs -> ShellLabels \cup DaemonLabels]
  /\ \A s \in Shells : pc[s] \in ShellLabels
  /\ \A d \in Daemons : pc[d] \in DaemonLabels
  /\ cmd \in [Shells -> Commands \cup {"none"}]
  /\ conn \in [Shells -> [to : Daemons \cup {Nobody},
                 st : {"none", "queued", "taken", "answered", "closed"}]]
  /\ notified \in SUBSET Daemons
  /\ faults \in 0 .. MaxFaults

\* "Rdrop daemon stopped" is true: the daemon that took the request has let go
\* of the data directory, so that the next one can start. run_stop only looks
\* whether anybody listens, so run must close its listener last. Exempt is a
\* daemon that falls.
StoppedIsReleased ==
  \A s \in Shells :
    /\ pc[s] = "stopped"
    /\ conn[s].to # Nobody
    => pc[conn[s].to] = "falling"

\* config.json is there and nobody is about to write another.
Settled == file = "whole" /\ Creating = {}

\* A node keeps its identity: once config.json is there and no first start is
\* still under way, nobody replaces it or runs under another key. Processes that
\* start at once in an empty directory do make a key each, and one that dies
\* before fs::write has written leaves a file nobody can read: load_or_create
\* looks and then writes.
IdentityKept == [][Settled => Settled' /\ foreign' \subseteq foreign]_vars

\* Every command returns, whatever the daemon does meanwhile: requests to a
\* daemon that drains wait in the backlog of its listener (DaemonClient::send
\* has no timeout), start and stop count their polls.
CommandEnds == \A s \in Shells : pc[s] # "idle" ~> pc[s] = "idle"

\* `daemon start` that has found no daemon is followed by one that listens, its
\* own or one that was faster, unless something failed or the machine is offline:
\* of two daemons that start at once the one that finds the registry taken gives
\* way to one that gets to its port.
StartServes ==
  \A s \in Shells : pc[s] = "spawn" /\ Settled ~> Running \/ faults > 0
=============================================================================
