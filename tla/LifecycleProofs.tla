-------------------------- MODULE LifecycleProofs --------------------------
(***************************************************************************)
(* Proofs about Lifecycle: "stopped" means released, the identity of a     *)
(* node is kept, no command is forgotten and no start is given up, for any *)
(* number of commands and daemons and any faults.                          *)
(***************************************************************************)
EXTENDS Lifecycle, TLAPS

\* A connection leads to a daemon that has bound its port and has not exited.
Connected ==
  \A s \in Shells :
    conn[s].to # Nobody => Listens(conn[s].to) \/ pc[conn[s].to] = "falling"

\* The inductive invariant. PollStop needs Connected: the daemon that took the
\* request still listens, unless it falls or has exited.
Inv == TypeOK /\ Connected /\ StoppedIsReleased

Conns == [to : Daemons \cup {Nobody},
          st : {"none", "queued", "taken", "answered", "closed"}]

USE LifecycleAssumption

LEMMA Labels ==
  ASSUME TypeOK
  PROVE /\ \A p \in Procs : pc[p] \in ShellLabels \cup DaemonLabels
        /\ \A s \in Shells : pc[s] \in ShellLabels /\ s \in Procs
        /\ \A d \in Daemons : pc[d] \in DaemonLabels /\ d \in Procs /\ d # Nobody
        /\ \A s \in Shells, d \in Daemons : s # d
        /\ \A s \in Shells : conn[s] \in Conns
  BY DEF TypeOK, Procs, Conns

LEMMA FirstStepType ==
  /\ \A d \in Daemons, c \in Commands \cup {"run", "none"} : FirstStep(d, c) = "registry"
  /\ \A s \in Shells, c \in Commands \cup {"run", "none"} :
       FirstStep(s, c) \in {"probe", "connect"}
  BY DEF FirstStep

LEMMA InitInv == Init => Inv
<1> SUFFICES ASSUME Init PROVE Inv
  OBVIOUS
<1>1. TypeOK
  BY DEF Init, TypeOK, Closed, Procs, ShellLabels, DaemonLabels
<1>2. Connected /\ StoppedIsReleased
  BY DEF Init, Connected, StoppedIsReleased, Closed, Procs
<1> QED
  BY <1>1, <1>2 DEF Inv

-----------------------------------------------------------------------------
(* The three ways a process moves. *)

\* A label for another.
LEMMA Moved ==
  ASSUME TypeOK, NEW p \in Procs, NEW l, Goto(p, l),
         l \in ShellLabels \cup DaemonLabels,
         p \in Shells => l \in ShellLabels,
         p \in Daemons => l \in DaemonLabels
  PROVE /\ pc' \in [Procs -> ShellLabels \cup DaemonLabels]
        /\ \A s \in Shells : pc'[s] \in ShellLabels
        /\ \A d \in Daemons : pc'[d] \in DaemonLabels
        /\ pc'[p] = l
        /\ \A q \in Procs : q # p => pc'[q] = pc[q]
  BY Labels DEF TypeOK, Goto

\* A command goes on, without a change of its connection.
LEMMA ShellMoves ==
  ASSUME Inv, NEW s \in Shells, NEW l \in ShellLabels \ {"idle", "create"},
         Goto(s, l), conn' = conn, foreign' = foreign,
         l = "stopped" => ~Running
  PROVE /\ pc' \in [Procs -> ShellLabels \cup DaemonLabels]
        /\ \A t \in Shells : pc'[t] \in ShellLabels
        /\ \A d \in Daemons : pc'[d] \in DaemonLabels
        /\ (foreign \in SUBSET (Configured \cap Daemons))'
        /\ Connected'
        /\ StoppedIsReleased'
<1>1. s \in Procs /\ s \notin Daemons
  BY DEF Procs
<1>2. /\ pc' \in [Procs -> ShellLabels \cup DaemonLabels]
      /\ \A t \in Shells : pc'[t] \in ShellLabels
      /\ \A d \in Daemons : pc'[d] \in DaemonLabels
      /\ pc'[s] = l
      /\ \A q \in Procs : q # s => pc'[q] = pc[q]
  BY <1>1, Moved DEF Inv
<1>3. \A d \in Daemons : pc'[d] = pc[d]
  BY <1>1, <1>2, Labels DEF Inv
<1>4. (foreign \in SUBSET (Configured \cap Daemons))'
  BY <1>3 DEF Inv, TypeOK, Configured, Procs
<1>5. \A t \in Shells : conn[t].to # Nobody => conn[t].to \in Daemons
  BY Labels DEF Inv, Conns
<1>6. Connected'
  BY <1>3, <1>5 DEF Inv, Connected, Listens
<1>7. StoppedIsReleased'
  <2> SUFFICES ASSUME NEW t \in Shells, pc'[t] = "stopped", conn[t].to # Nobody
               PROVE pc'[conn[t].to] = "falling"
    BY DEF StoppedIsReleased
  <2>1. conn[t].to \in Daemons
    BY <1>5
  <2>2. CASE t = s
    BY <2>1, <2>2, <1>2, <1>3 DEF Inv, Connected, Running
  <2>3. CASE t # s
    BY <2>1, <2>3, <1>2, <1>3, Labels DEF Inv, StoppedIsReleased
  <2> QED
    BY <2>2, <2>3
<1> QED
  BY <1>2, <1>4, <1>6, <1>7

\* A process is gone.
LEMMA EndKeeps ==
  ASSUME Inv, NEW p \in Procs, End(p), notified' \in SUBSET Daemons,
         faults' \in 0 .. MaxFaults
  PROVE Inv'
<1>1. /\ pc' \in [Procs -> ShellLabels \cup DaemonLabels]
      /\ \A s \in Shells : pc'[s] \in ShellLabels
      /\ \A d \in Daemons : pc'[d] \in DaemonLabels
      /\ pc'[p] = "idle"
      /\ \A q \in Procs : q # p => pc'[q] = pc[q]
  BY Moved DEF Inv, End, ShellLabels, DaemonLabels
<1>2. \A s \in Shells :
        /\ conn'[s] \in Conns
        /\ conn'[s].to # Nobody => /\ s # p /\ conn[s].to # p
                                   /\ conn'[s] = conn[s] /\ conn[s].to \in Daemons
  <2> SUFFICES ASSUME NEW s \in Shells
               PROVE /\ conn'[s] \in Conns
                     /\ conn'[s].to # Nobody =>
                          /\ s # p /\ conn[s].to # p
                          /\ conn'[s] = conn[s] /\ conn[s].to \in Daemons
    OBVIOUS
  <2>1. conn[s] \in Conns
    BY Labels DEF Inv
  <2>2. CASE s = p
    BY <2>2 DEF End, Closed, Conns
  <2>3. CASE s # p /\ conn[s].to # p
    BY <2>1, <2>3 DEF End, Conns
  <2>4. CASE s # p /\ conn[s].to = p
    BY <2>1, <2>4 DEF End, Conns
  <2> QED
    BY <2>2, <2>3, <2>4
<1>3. conn' \in [Shells -> Conns]
  BY <1>2 DEF End
<1>4. (foreign \in SUBSET (Configured \cap Daemons))'
  BY <1>1 DEF Inv, TypeOK, End, Configured
<1>5. TypeOK'
  BY <1>1, <1>3, <1>4 DEF Inv, TypeOK, End, Conns
<1>6. Connected'
  BY <1>1, <1>2, Labels DEF Inv, Connected, Listens
<1>7. StoppedIsReleased'
  BY <1>1, <1>2, Labels DEF Inv, StoppedIsReleased
<1> QED
  BY <1>5, <1>6, <1>7 DEF Inv

LEMMA FinishKeeps ==
  ASSUME Inv, NEW p \in Procs, Finish(p)
  PROVE Inv'
<1>1. End(p) /\ notified' \in SUBSET Daemons /\ faults' \in 0 .. MaxFaults
  BY DEF Finish, Inv, TypeOK
<1> QED
  BY <1>1, EndKeeps

\* A daemon goes on; connections may be answered or closed, and stay where they
\* are.
LEMMA DaemonMoves ==
  ASSUME Inv, NEW d \in Daemons, NEW l \in DaemonLabels \ {"idle", "create"},
         Goto(d, l), foreign' = foreign, UNCHANGED <<file, cmd, notified>>,
         faults' \in 0 .. MaxFaults,
         conn' \in [Shells -> Conns], \A s \in Shells : conn'[s].to = conn[s].to,
         pc[d] # "falling",
         Listens(d) => l \in {"serve", "drain", "flush", "released", "falling"}
  PROVE Inv'
<1>1. d \in Procs /\ d \notin Shells
  BY DEF Procs
<1>2. /\ pc' \in [Procs -> ShellLabels \cup DaemonLabels]
      /\ \A s \in Shells : pc'[s] \in ShellLabels
      /\ \A e \in Daemons : pc'[e] \in DaemonLabels
      /\ pc'[d] = l
      /\ \A q \in Procs : q # d => pc'[q] = pc[q]
  BY <1>1, Moved DEF Inv
<1>3. \A s \in Shells : conn[s].to # Nobody => conn[s].to \in Daemons
  BY Labels DEF Inv, Conns
<1>4. (foreign \in SUBSET (Configured \cap Daemons))'
  BY <1>2 DEF Inv, TypeOK, Configured
<1>5. TypeOK'
  BY <1>2, <1>4 DEF Inv, TypeOK, Conns
<1>6. Connected'
  BY <1>2, <1>3, Labels DEF Inv, Connected, Listens
<1>7. StoppedIsReleased'
  <2> SUFFICES ASSUME NEW s \in Shells, pc'[s] = "stopped", conn[s].to # Nobody
               PROVE pc'[conn[s].to] = "falling"
    BY DEF StoppedIsReleased
  <2>1. pc[conn[s].to] = "falling" /\ conn[s].to \in Daemons
    BY <1>1, <1>2, <1>3, Labels DEF Inv, StoppedIsReleased
  <2> QED
    BY <2>1, <1>2, Labels DEF Inv
<1> QED
  BY <1>5, <1>6, <1>7 DEF Inv

LEMMA CutType ==
  ASSUME TypeOK, NEW d \in Daemons, NEW S, Cut(d, S)
  PROVE conn' \in [Shells -> Conns] /\ \A s \in Shells : conn'[s].to = conn[s].to
<1>1. \A s \in Shells : conn'[s] \in Conns /\ conn'[s].to = conn[s].to
  <2> SUFFICES ASSUME NEW s \in Shells
               PROVE conn'[s] \in Conns /\ conn'[s].to = conn[s].to
    OBVIOUS
  <2>1. conn[s] \in Conns
    BY Labels
  <2> QED
    BY <2>1 DEF Cut, Conns
<1> QED
  BY <1>1 DEF Cut

-----------------------------------------------------------------------------
(* The steps. *)

\* config.json is made. Only a daemon's key counts.
LEMMA ConfigKeeps ==
  ASSUME Inv, NEW p \in Procs, CreateConfig(p) \/ WriteConfig(p)
  PROVE Inv'
<1>1. CASE CreateConfig(p)
  <2>1. /\ pc' \in [Procs -> ShellLabels \cup DaemonLabels]
        /\ \A s \in Shells : pc'[s] \in ShellLabels
        /\ \A d \in Daemons : pc'[d] \in DaemonLabels
        /\ pc'[p] = "write"
        /\ \A q \in Procs : q # p => pc'[q] = pc[q]
    BY <1>1, Moved DEF Inv, CreateConfig, ShellLabels, DaemonLabels
  <2>2. TypeOK'
    BY <1>1, <2>1 DEF Inv, TypeOK, CreateConfig, shells, Configured
  <2>3. \A s \in Shells : conn'[s] = conn[s]
                          /\ (conn[s].to # Nobody => conn[s].to \in Daemons /\ conn[s].to # p)
    BY <1>1, Labels DEF Inv, CreateConfig, shells, Conns, Connected, Listens
  <2>4. Connected' /\ StoppedIsReleased'
    BY <2>1, <2>3, Labels DEF Inv, Connected, StoppedIsReleased, Listens
  <2> QED
    BY <2>2, <2>4 DEF Inv
<1>2. CASE WriteConfig(p)
  <2> DEFINE l == FirstStep(p, IF p \in Shells THEN cmd[p] ELSE "run")
  <2>1. Goto(p, l) /\ pc[p] = "write"
    BY <1>2 DEF WriteConfig
  <2>2. /\ p \in Shells => l \in {"probe", "connect"}
        /\ p \in Daemons => l = "registry"
    BY FirstStepType DEF Inv, TypeOK, Procs
  <2> HIDE DEF l
  <2>3. /\ pc' \in [Procs -> ShellLabels \cup DaemonLabels]
        /\ \A s \in Shells : pc'[s] \in ShellLabels
        /\ \A d \in Daemons : pc'[d] \in DaemonLabels
        /\ pc'[p] = l
        /\ \A q \in Procs : q # p => pc'[q] = pc[q]
    BY <2>1, <2>2, Moved DEF Inv, ShellLabels, DaemonLabels, Procs
  <2>4. l \notin {"idle", "create", "stopped", "falling"}
    BY <2>2 DEF Procs
  <2>5. TypeOK'
    BY <1>2, <2>3, <2>4 DEF Inv, TypeOK, WriteConfig, shells, Configured
  <2>6. \A s \in Shells : conn'[s] = conn[s]
                          /\ (conn[s].to # Nobody => conn[s].to \in Daemons /\ conn[s].to # p)
    BY <1>2, <2>1, Labels DEF Inv, WriteConfig, shells, Conns, Connected, Listens
  <2>7. Connected' /\ StoppedIsReleased'
    BY <2>3, <2>4, <2>6, Labels DEF Inv, Connected, StoppedIsReleased, Listens
  <2> QED
    BY <2>5, <2>7 DEF Inv
<1> QED
  BY <1>1, <1>2

\* A process starts, from idle.
LEMMA StartKeeps ==
  ASSUME Inv, NEW p \in Procs, NEW c \in Commands \cup {"run"}, pc[p] = "idle",
         ReadConfig(p, c), UNCHANGED <<config, conn, notified, faults>>,
         cmd' \in [Shells -> Commands \cup {"none"}]
  PROVE Inv'
<1>1. PICK l : Goto(p, l) /\ (l = FirstStep(p, c) \/ l = "create")
  BY DEF ReadConfig
<1>2. /\ p \in Shells => l \in {"probe", "connect", "create"}
      /\ p \in Daemons => l \in {"registry", "create"}
  BY <1>1, FirstStepType DEF Commands
<1>3. /\ pc' \in [Procs -> ShellLabels \cup DaemonLabels]
      /\ \A s \in Shells : pc'[s] \in ShellLabels
      /\ \A d \in Daemons : pc'[d] \in DaemonLabels
      /\ pc'[p] = l
      /\ \A q \in Procs : q # p => pc'[q] = pc[q]
  BY <1>1, <1>2, Moved DEF Inv, ShellLabels, DaemonLabels, Procs
<1>4. l \notin {"stopped", "falling"}
  BY <1>2 DEF Procs
<1>5. TypeOK'
  BY <1>3 DEF Inv, TypeOK, config, Configured
<1>6. \A s \in Shells : conn'[s] = conn[s]
                        /\ (conn[s].to # Nobody => conn[s].to \in Daemons /\ conn[s].to # p)
  BY Labels DEF Inv, Conns, Connected, Listens
<1>7. Connected' /\ StoppedIsReleased'
  BY <1>3, <1>4, <1>6, Labels DEF Inv, Connected, StoppedIsReleased, Listens
<1> QED
  BY <1>5, <1>7 DEF Inv

LEMMA InvokeKeeps ==
  ASSUME Inv, NEW s \in Shells, NEW c \in Commands, Invoke(s, c)
  PROVE Inv'
<1>1. cmd' \in [Shells -> Commands \cup {"none"}]
  BY DEF Inv, TypeOK, Invoke
<1>2. s \in Procs /\ c \in Commands \cup {"run"}
  BY DEF Procs
<1> QED
  BY <1>1, <1>2, StartKeeps DEF Invoke

LEMMA RunKeeps ==
  ASSUME Inv, NEW d \in Daemons, RunForeground(d)
  PROVE Inv'
<1>1. cmd' \in [Shells -> Commands \cup {"none"}]
  BY DEF Inv, TypeOK, RunForeground, shells
<1>2. d \in Procs
  BY DEF Procs
<1> QED
  BY <1>1, <1>2, StartKeeps DEF RunForeground, shells

\* One command and one daemon move at once.
LEMMA SpawnKeeps ==
  ASSUME Inv, NEW s \in Shells, Spawn(s)
  PROVE Inv'
<1>1. PICK d \in Daemons :
        /\ pc[d] = "idle"
        /\ pc' = [pc EXCEPT ![s] = "poll",
                    ![d] = IF file = "whole" THEN FirstStep(d, "run") ELSE "idle"]
  BY DEF Spawn
<1>2. s \in Procs /\ d \in Procs /\ s # d /\ s \notin Daemons /\ d \notin Shells
  BY DEF Procs
<1>3. /\ pc' \in [Procs -> ShellLabels \cup DaemonLabels]
      /\ pc'[s] = "poll"
      /\ pc'[d] \in {"registry", "idle"}
      /\ \A q \in Procs : q \notin {s, d} => pc'[q] = pc[q]
  BY <1>1, <1>2, FirstStepType DEF Inv, TypeOK, ShellLabels, DaemonLabels
<1>4. /\ \A t \in Shells : pc'[t] \in ShellLabels
      /\ \A e \in Daemons : pc'[e] \in DaemonLabels
  BY <1>2, <1>3, Labels DEF Inv, ShellLabels, DaemonLabels
<1>5. TypeOK'
  BY <1>1, <1>2, <1>3, <1>4 DEF Inv, TypeOK, Spawn, config, Configured
<1>6. \A t \in Shells : conn'[t] = conn[t]
                        /\ (conn[t].to # Nobody => conn[t].to \in Daemons /\ conn[t].to # d)
  BY <1>1, Labels DEF Inv, Spawn, Conns, Connected, Listens
<1>7. Connected' /\ StoppedIsReleased'
  BY <1>2, <1>3, <1>6, Labels DEF Inv, Connected, StoppedIsReleased, Listens
<1> QED
  BY <1>5, <1>7 DEF Inv

LEMMA CommandKeeps ==
  ASSUME Inv, NEW s \in Shells,
         \/ Probe(s) \/ PollStart(s) \/ ReadAnswer(s) \/ PollStop(s) \/ SayStopped(s)
  PROVE Inv'
<1>1. s \in Procs
  BY DEF Procs
<1>2. CASE Finish(s)
  BY <1>1, <1>2, FinishKeeps
<1>3. CASE /\ ~Finish(s)
           /\ \E l \in ShellLabels \ {"idle", "create"} :
                Goto(s, l) /\ (l = "stopped" => ~Running)
           /\ UNCHANGED <<config, conn, notified, faults>>
           /\ cmd' \in [Shells -> Commands \cup {"none"}]
  <2>1. PICK l \in ShellLabels \ {"idle", "create"} :
          Goto(s, l) /\ (l = "stopped" => ~Running)
    BY <1>3
  <2>2. /\ pc' \in [Procs -> ShellLabels \cup DaemonLabels]
        /\ \A t \in Shells : pc'[t] \in ShellLabels
        /\ \A d \in Daemons : pc'[d] \in DaemonLabels
        /\ (foreign \in SUBSET (Configured \cap Daemons))'
        /\ Connected'
        /\ StoppedIsReleased'
    BY <1>3, <2>1, ShellMoves DEF config
  <2> QED
    BY <1>3, <2>2 DEF Inv, TypeOK, config
<1>4. CASE Probe(s)
  BY <1>2, <1>3, <1>4 DEF Probe, Step, shells, Inv, TypeOK, ShellLabels
<1>5. CASE PollStart(s)
  BY <1>2, <1>3, <1>5 DEF PollStart, Found, Inv, TypeOK, ShellLabels, Commands
<1>6. CASE ReadAnswer(s)
  BY <1>2, <1>3, <1>6 DEF ReadAnswer, Inv, TypeOK, ShellLabels
<1>7. CASE PollStop(s)
  BY <1>2, <1>3, <1>7 DEF PollStop, Step, shells, Inv, TypeOK, ShellLabels
<1>8. CASE SayStopped(s)
  BY <1>2, <1>8 DEF SayStopped
<1> QED
  BY <1>4, <1>5, <1>6, <1>7, <1>8

LEMMA ConnectKeeps ==
  ASSUME Inv, NEW s \in Shells, Connect(s)
  PROVE Inv'
<1>1. s \in Procs
  BY DEF Procs
<1>2. CASE Finish(s)
  BY <1>1, <1>2, FinishKeeps
<1>3. CASE ~Finish(s)
  <2>1. PICK d \in Daemons :
          /\ Listens(d)
          /\ conn' = [conn EXCEPT ![s] = [to |-> d, st |-> "queued"]]
          /\ Goto(s, "wait")
          /\ UNCHANGED <<config, cmd, notified, faults>>
    BY <1>3 DEF Connect
  <2>2. /\ pc' \in [Procs -> ShellLabels \cup DaemonLabels]
        /\ \A t \in Shells : pc'[t] \in ShellLabels
        /\ \A e \in Daemons : pc'[e] \in DaemonLabels
        /\ pc'[s] = "wait"
        /\ \A q \in Procs : q # s => pc'[q] = pc[q]
    BY <1>1, <2>1, Moved DEF Inv, ShellLabels, DaemonLabels, Procs
  <2>3. conn' \in [Shells -> Conns] /\ conn'[s].to = d
        /\ \A t \in Shells : t # s => conn'[t] = conn[t]
    BY <2>1 DEF Inv, TypeOK, Conns
  <2>4. (foreign \in SUBSET (Configured \cap Daemons))'
    BY <2>1, <2>2 DEF Inv, TypeOK, config, Configured
  <2>5. TypeOK'
    BY <2>1, <2>2, <2>3, <2>4 DEF Inv, TypeOK, config, Conns
  <2>6. \A t \in Shells : conn[t].to # Nobody => conn[t].to \in Daemons
    BY Labels DEF Inv, Conns
  <2>7. Connected'
    BY <2>1, <2>2, <2>3, <2>6, Labels DEF Inv, Connected, Listens
  <2>8. StoppedIsReleased'
    BY <2>2, <2>3, <2>6, Labels DEF Inv, StoppedIsReleased
  <2> QED
    BY <2>5, <2>7, <2>8 DEF Inv
<1> QED
  BY <1>2, <1>3

\* The accept loop and the handlers: connections stay with their daemon.
LEMMA RequestKeeps ==
  ASSUME Inv, NEW s \in Shells, NEW d \in Daemons, Accept(d, s) \/ Answer(d, s)
  PROVE Inv'
<1>1. UNCHANGED <<config, pc, cmd, faults>> /\ notified' \in SUBSET Daemons
  BY DEF Accept, Answer, Inv, TypeOK
<1>2. PICK st \in {"taken", "answered"} : conn' = [conn EXCEPT ![s].st = st]
  BY DEF Accept, Answer
<1>3. conn[s] \in Conns
  BY Labels DEF Inv
<1>4. conn' \in [Shells -> Conns] /\ \A t \in Shells : conn'[t].to = conn[t].to
  BY <1>2, <1>3 DEF Inv, TypeOK, Conns
<1>5. TypeOK'
  BY <1>1, <1>4 DEF Inv, TypeOK, config, Conns, Configured
<1>6. Connected' /\ StoppedIsReleased'
  BY <1>1, <1>4 DEF Inv, Connected, StoppedIsReleased, Listens
<1> QED
  BY <1>5, <1>6 DEF Inv

LEMMA DaemonKeeps ==
  ASSUME Inv, NEW d \in Daemons,
         \/ OpenRegistry(d) \/ StartNode(d) \/ BeginDrain(d) \/ EndDrain(d)
         \/ Shutdown(d) \/ Exit(d) \/ Crash(d) \/ GoOffline(d) \/ ComeOnline(d)
  PROVE Inv'
<1>1. d \in Procs
  BY DEF Procs
<1>2. CASE Finish(d)
  BY <1>1, <1>2, FinishKeeps
<1>3. ASSUME NEW from, NEW l \in DaemonLabels \ {"idle", "create"},
             Step(d, from, l), from # "falling",
             from \in {"serve", "drain", "flush", "released"} =>
               l \in {"serve", "drain", "flush", "released", "falling"}
      PROVE Inv'
  <2>1. conn' \in [Shells -> Conns] /\ \A s \in Shells : conn'[s].to = conn[s].to
    BY <1>3, Labels DEF Inv, TypeOK, Step, shells, Conns
  <2>2. Listens(d) => l \in {"serve", "drain", "flush", "released", "falling"}
    BY <1>3 DEF Step, Listens
  <2> QED
    BY <1>3, <2>1, <2>2, DaemonMoves DEF Step, config, shells, Inv, TypeOK
<1>4. CASE OpenRegistry(d)
  BY <1>2, <1>3, <1>4 DEF OpenRegistry, DaemonLabels
<1>5. CASE StartNode(d)
  BY <1>2, <1>3, <1>5 DEF StartNode, DaemonLabels
<1>6. CASE BeginDrain(d)
  BY <1>3, <1>6 DEF BeginDrain, DaemonLabels
<1>7. CASE EndDrain(d)
  <2>1. conn' \in [Shells -> Conns] /\ \A s \in Shells : conn'[s].to = conn[s].to
    BY <1>7, CutType DEF Inv, EndDrain
  <2> QED
    BY <1>7, <2>1, DaemonMoves DEF EndDrain, config, DaemonLabels, Inv, TypeOK
<1>8. CASE Shutdown(d)
  BY <1>3, <1>8 DEF Shutdown, DaemonLabels
<1>9. CASE Exit(d)
  BY <1>2, <1>9 DEF Exit
<1>10. CASE Crash(d)
  <2>1. PICK l \in {"falling", "released"} : Goto(d, l) /\ \E S : Cut(d, S)
    BY <1>10 DEF Crash
  <2>2. conn' \in [Shells -> Conns] /\ \A s \in Shells : conn'[s].to = conn[s].to
    BY <2>1, CutType DEF Inv
  <2>3. faults' \in 0 .. MaxFaults
    BY <1>10 DEF Crash, Inv, TypeOK
  <2> QED
    BY <1>10, <2>1, <2>2, <2>3, DaemonMoves DEF Crash, config, DaemonLabels
<1>11. CASE GoOffline(d)
  <2>1. conn' = conn /\ faults' \in 0 .. MaxFaults /\ Goto(d, "offline") /\ ~Listens(d)
    BY <1>11 DEF GoOffline, shells, Listens, Inv, TypeOK
  <2>2. conn \in [Shells -> Conns]
    BY DEF Inv, TypeOK, Conns
  <2>3. UNCHANGED <<file, foreign, cmd, notified>> /\ pc[d] # "falling"
    BY <1>11 DEF GoOffline, config, shells
  <2> QED
    BY <2>1, <2>2, <2>3, DaemonMoves DEF DaemonLabels
<1>12. CASE ComeOnline(d)
  BY <1>3, <1>12 DEF ComeOnline, DaemonLabels
<1> QED
  BY <1>4, <1>5, <1>6, <1>7, <1>8, <1>9, <1>10, <1>11, <1>12

LEMMA KillKeeps ==
  ASSUME Inv, NEW p \in Procs, Kill(p)
  PROVE Inv'
<1>1. End(p) /\ faults' \in 0 .. MaxFaults
  BY DEF Kill, Inv, TypeOK
<1>2. notified' \in SUBSET Daemons
  BY DEF Kill, Asked, Inv, TypeOK
<1> QED
  BY <1>1, <1>2, EndKeeps

LEMMA NextInv == Inv /\ [Next]_vars => Inv'
<1> SUFFICES ASSUME Inv, [Next]_vars PROVE Inv'
  OBVIOUS
<1>1. ASSUME NEW s \in Shells, ShellStep(s) PROVE Inv'
  <2>1. s \in Procs
    BY DEF Procs
  <2> QED
    BY <1>1, <2>1, ConfigKeeps, CommandKeeps, SpawnKeeps, ConnectKeeps, RequestKeeps
       DEF ShellStep
<1>2. ASSUME NEW d \in Daemons, DaemonStep(d) PROVE Inv'
  <2>1. d \in Procs
    BY DEF Procs
  <2> QED
    BY <1>2, <2>1, ConfigKeeps, DaemonKeeps DEF DaemonStep
<1>3. CASE UNCHANGED vars
  BY <1>3 DEF vars, config, shells, Inv, TypeOK, Connected, StoppedIsReleased,
              Configured, Listens
<1> QED
  BY <1>1, <1>2, <1>3, InvokeKeeps, RunKeeps, DaemonKeeps, KillKeeps DEF Next

\* The variables keep their types, for any number of processes.
THEOREM LifecycleTypeHolds == Spec => []TypeOK
<1>1. Inv => TypeOK
  BY DEF Inv
<1> QED
  BY InitInv, NextInv, <1>1, PTL DEF Spec

\* When `daemon stop` says so, the daemon has let go of the data directory
\* (run_stop and the order in which run ends), for any number of commands and
\* daemons and any faults.
THEOREM StoppedHolds == Spec => []StoppedIsReleased
<1>1. Inv => StoppedIsReleased
  BY DEF Inv
<1> QED
  BY InitInv, NextInv, <1>1, PTL DEF Spec

-----------------------------------------------------------------------------
(* Identity. *)

\* A step keeps the node settled when it leaves config.json alone, adds no
\* daemon with a key of its own and sends nobody to make one.
Harmless ==
  /\ file' = file
  /\ foreign' \subseteq foreign
  /\ \A p \in Procs : pc'[p] = pc[p] \/ pc'[p] \notin {"create", "write"}

LEMMA Elsewhere ==
  ASSUME TypeOK, NEW p \in Procs, NEW l, l \notin {"create", "write"}, Goto(p, l)
  PROVE \A q \in Procs : pc'[q] = pc[q] \/ pc'[q] \notin {"create", "write"}
  BY DEF Goto, TypeOK

LEMMA StepHarmless ==
  ASSUME TypeOK, NEW p \in Procs
  PROVE /\ \A from, l : Step(p, from, l) /\ l \notin {"create", "write"} => Harmless
        /\ End(p) => Harmless
        /\ Finish(p) => Harmless
  BY Elsewhere DEF Harmless, Step, config, End, Finish

\* A node that has its config.json keeps it, and its identity
\* (Config::load_or_create), for any number of processes.
THEOREM IdentityHolds == Spec => IdentityKept
<1>1. TypeOK /\ [Next]_vars => (Settled => Settled' /\ foreign' \subseteq foreign)
  <2> SUFFICES ASSUME TypeOK, Settled, Next PROVE Harmless
    BY DEF Harmless, Settled, Creating, vars, config
  <2>1. \A p \in Procs : ~CreateConfig(p) /\ ~WriteConfig(p)
    BY DEF Settled, Creating, CreateConfig, WriteConfig
  <2>2. ASSUME NEW p \in Procs, NEW c \in Commands \cup {"run"}, ReadConfig(p, c),
               UNCHANGED config
        PROVE Harmless
    <3>1. Goto(p, FirstStep(p, c))
      BY <2>2 DEF ReadConfig, Settled
    <3>2. FirstStep(p, c) \notin {"create", "write"}
      BY FirstStepType DEF Procs
    <3> QED
      BY <2>2, <3>1, <3>2, Elsewhere DEF Harmless, config
  <2>3. ASSUME NEW s \in Shells, ShellStep(s) PROVE Harmless
    <3>1. s \in Procs
      BY DEF Procs
    <3>2. CASE Probe(s) \/ PollStop(s) \/ SayStopped(s)
      BY <3>1, <3>2, StepHarmless DEF Probe, PollStop, SayStopped
    <3>3. CASE PollStart(s) \/ Connect(s) \/ ReadAnswer(s)
      BY <3>1, <3>3, StepHarmless, Elsewhere
         DEF PollStart, Found, Connect, ReadAnswer, Harmless, config
    <3>4. CASE Spawn(s)
      BY <3>1, <3>4, FirstStepType
         DEF Spawn, Harmless, config, TypeOK, Procs, Commands
    <3>5. CASE \E d \in Daemons : Accept(d, s) \/ Answer(d, s)
      BY <3>5 DEF Accept, Answer, Harmless, config
    <3> QED
      BY <2>1, <2>3, <3>1, <3>2, <3>3, <3>4, <3>5 DEF ShellStep
  <2>4. ASSUME NEW d \in Daemons,
               DaemonStep(d) \/ Crash(d) \/ GoOffline(d) \/ ComeOnline(d)
        PROVE Harmless
    <3>1. d \in Procs
      BY DEF Procs
    <3>2. CASE OpenRegistry(d) \/ StartNode(d) \/ BeginDrain(d) \/ Shutdown(d) \/ Exit(d)
               \/ ComeOnline(d)
      BY <3>1, <3>2, StepHarmless
         DEF OpenRegistry, StartNode, BeginDrain, Shutdown, Exit, ComeOnline
    <3>3. CASE EndDrain(d) \/ Crash(d) \/ GoOffline(d)
      BY <3>1, <3>3, Elsewhere DEF EndDrain, Crash, GoOffline, Harmless, config
    <3> QED
      BY <2>1, <2>4, <3>1, <3>2, <3>3 DEF DaemonStep
  <2>5. ASSUME NEW s \in Shells, NEW c \in Commands, Invoke(s, c) PROVE Harmless
    BY <2>2, <2>5 DEF Invoke, Procs
  <2>6. ASSUME NEW d \in Daemons, RunForeground(d) PROVE Harmless
    BY <2>2, <2>6 DEF RunForeground, Procs
  <2>7. ASSUME NEW p \in Procs, Kill(p) PROVE Harmless
    BY <2>7, StepHarmless DEF Kill
  <2> QED
    BY <2>3, <2>4, <2>5, <2>6, <2>7 DEF Next
<1>2. Inv => TypeOK
  BY DEF Inv
<1> QED
  BY <1>1, <1>2, InitInv, NextInv, PTL DEF Spec, IdentityKept
-----------------------------------------------------------------------------
(* Why a command returns and a start is followed by a daemon. *)

\* How far a command has still to go, and its request.
Ahead(s) ==
  CASE pc[s] = "create" -> 11
    [] pc[s] = "write" -> 10
    [] pc[s] = "probe" -> 9
    [] pc[s] = "spawn" -> 8
    [] pc[s] = "poll" -> 7
    [] pc[s] = "connect" -> 6
    [] pc[s] = "wait" /\ conn[s].st = "queued" -> 5
    [] pc[s] = "wait" /\ conn[s].st = "taken" -> 4
    [] pc[s] = "wait" /\ conn[s].st \notin {"queued", "taken"} -> 3
    [] pc[s] = "leaving" -> 2
    [] pc[s] = "stopped" -> 1
    [] OTHER -> 0

\* Every step of a command brings it nearer to its end, and no other process
\* moves it back, whatever becomes of the daemons meanwhile.
NearerEachStep ==
  \A s \in Shells :
    pc[s] # "idle" =>
      /\ Ahead(s)' <= Ahead(s)
      /\ ShellStep(s) => Ahead(s)' < Ahead(s)

CommandsApproach == [][NearerEachStep]_vars

\* No command waits for a daemon that will neither answer it nor close its
\* connection: as long as a request is not taken its daemon keeps its listener,
\* and once it is, its daemon does not get past the drain.
NoneForgotten ==
  \A s \in Shells :
    pc[s] = "wait" =>
      \/ conn[s].st \in {"answered", "closed"}
      \/ conn[s].st = "queued" /\ conn[s].to \in Daemons /\ Listens(conn[s].to)
      \/ conn[s].st = "taken" /\ conn[s].to \in Daemons /\ pc[conn[s].to] \in {"serve", "drain"}

\* Only a command that waits has a request on its way.
Requesting ==
  \A s \in Shells : conn[s].st \in {"queued", "taken"} => pc[s] = "wait"

\* A daemon falls, or is offline, by a fault.
FallsByFault == \A d \in Daemons : pc[d] \in {"falling", "offline"} => faults > 0

\* A daemon serves or is about to.
Promised == Running \/ \E d \in Daemons : pc[d] \in {"registry", "node"}

\* Of the daemons that start at once none gives way to one that does not get
\* there: from the moment a settled start has spawned its daemon one is on its
\* way until one listens, unless something failed.
PromiseKept ==
  faults = 0 /\ faults' = 0 =>
    /\ \A s \in Shells : Settled /\ Spawn(s) => Promised'
    /\ ~Running /\ Promised => Promised'

StartsKept == [][PromiseKept]_vars
\* The part of NoneForgotten and of Requesting that is about s.
Attended(s) ==
  /\ conn[s].st \in {"queued", "taken"} => pc[s] = "wait"
  /\ pc[s] = "wait" =>
       \/ conn[s].st \in {"answered", "closed"}
       \/ conn[s].st = "queued" /\ conn[s].to \in Daemons /\ Listens(conn[s].to)
       \/ conn[s].st = "taken" /\ conn[s].to \in Daemons /\ pc[conn[s].to] \in {"serve", "drain"}

LEMMA AheadType ==
  ASSUME TypeOK, NEW s \in Shells
  PROVE  Ahead(s) \in Nat /\ (pc[s] = "idle" => Ahead(s) = 0)
BY Labels DEF Ahead, ShellLabels

\* A step of another process that leaves the label of s alone and the request
\* of s to the same daemon, which attends to it, or to its end.
LEMMA LeftAlone ==
  ASSUME TypeOK, NEW s \in Shells, Attended(s), pc'[s] = pc[s],
         \/ /\ conn'[s] = conn[s]
            /\ conn[s].to \in Daemons =>
                 /\ Listens(conn[s].to) /\ conn[s].st = "queued" => Listens(conn[s].to)'
                 /\ pc[conn[s].to] \in {"serve", "drain"} /\ conn[s].st = "taken" =>
                      pc'[conn[s].to] \in {"serve", "drain"}
         \/ conn'[s].st \in {"answered", "closed"}
  PROVE  Attended(s)' /\ Ahead(s)' <= Ahead(s)
<1>1. CASE conn'[s] = conn[s] /\ conn'[s].st \notin {"answered", "closed"}
  <2>1. Attended(s)'
    BY <1>1 DEF Attended
  <2>2. Ahead(s)' = Ahead(s)
    BY <1>1 DEF Ahead
  <2>3. QED
    BY <2>1, <2>2, AheadType
<1>2. CASE conn'[s].st \in {"answered", "closed"}
  <2>1. Attended(s)'
    BY <1>2 DEF Attended
  <2>2. pc[s] # "wait" => Ahead(s)' = Ahead(s)
    BY DEF Ahead
  <2>3. pc[s] = "wait" => Ahead(s)' = 3 /\ Ahead(s) \in {3, 4, 5}
    BY <1>2 DEF Ahead
  <2>4. QED
    BY <2>1, <2>2, <2>3, AheadType
<1>3. QED
  BY <1>1, <1>2

\* The end of a process.
LEMMA EndAttends ==
  ASSUME TypeOK, NEW s \in Shells, Attended(s), NEW p \in Procs, End(p)
  PROVE  /\ Attended(s)'
         /\ s # p => Ahead(s)' <= Ahead(s)
         /\ s = p => pc'[s] = "idle" /\ Ahead(s)' = 0
<1>1. conn[s] \in Conns /\ s \in Procs
  BY Labels
<1>2. pc'[p] = "idle" /\ \A q \in Procs : q # p => pc'[q] = pc[q]
  BY DEF End, Goto, TypeOK
<1>3. CASE s = p
  BY <1>2, <1>3 DEF End, Attended, Ahead, Closed
<1>4. CASE s # p /\ conn[s].to # p
  <2>1. conn'[s] = conn[s]
    BY <1>4 DEF End
  <2>2. conn[s].to \in Daemons => pc'[conn[s].to] = pc[conn[s].to]
    BY <1>2, <1>4 DEF Procs
  <2>3. QED
    BY <1>1, <1>2, <1>4, <2>1, <2>2, LeftAlone DEF Listens
<1>5. CASE s # p /\ conn[s].to = p
  <2>1. conn'[s].st \in {"answered", "closed"}
    BY <1>5 DEF End
  <2>2. QED
    BY <1>1, <1>2, <1>5, <2>1, LeftAlone
<1>6. QED
  BY <1>3, <1>4, <1>5

\* A process that goes on and does not touch the connection of s.
LEMMA MoveAttends ==
  ASSUME TypeOK, NEW s \in Shells, Attended(s), NEW p \in Procs, p # s, NEW l, Goto(p, l),
         conn' = conn,
         conn[s].to = p =>
           /\ Listens(p) /\ conn[s].st = "queued" =>
                l \in {"serve", "drain", "flush", "released"}
           /\ pc[p] \in {"serve", "drain"} /\ conn[s].st = "taken" => l \in {"serve", "drain"}
  PROVE  Attended(s)' /\ Ahead(s)' <= Ahead(s)
<1>1. s \in Procs /\ Daemons \subseteq Procs
  BY DEF Procs
<1>2. pc'[p] = l /\ \A q \in Procs : q # p => pc'[q] = pc[q]
  BY DEF Goto, TypeOK
<1>3. QED
  BY <1>1, <1>2, LeftAlone DEF Listens
\* A step of the command itself.
LEMMA OwnStep ==
  ASSUME TypeOK, NEW s \in Shells, Attended(s), ShellStep(s)
  PROVE  Attended(s)' /\ Ahead(s)' < Ahead(s)
<1>1. conn[s] \in Conns /\ s \in Procs /\ s \notin Daemons /\ cmd[s] \in Commands \cup {"none"}
  BY Labels DEF TypeOK
<1>2. ASSUME NEW l \in ShellLabels, Goto(s, l)
      PROVE  /\ pc'[s] = l
             /\ \A d \in Daemons : pc'[d] = pc[d]
  BY <1>1, <1>2 DEF Goto, TypeOK, Procs
<1>3. ASSUME NEW l \in ShellLabels \ {"wait"}, Goto(s, l), conn' = conn,
             conn[s].st \notin {"queued", "taken"}
      PROVE  Attended(s)' /\ pc'[s] = l
  BY <1>2, <1>3 DEF Attended
<1>4. Finish(s) => Attended(s)' /\ Ahead(s)' = 0
  BY <1>1, EndAttends DEF Finish
<1>5. CASE CreateConfig(s)
  BY <1>3, <1>5 DEF CreateConfig, shells, Attended, Ahead, ShellLabels
<1>6. CASE WriteConfig(s)
  <2> DEFINE l == FirstStep(s, cmd[s])
  <2>1. l \in {"probe", "connect"} /\ Goto(s, l)
    BY <1>1, <1>6, FirstStepType DEF WriteConfig
  <2> HIDE DEF l
  <2>2. Attended(s)' /\ pc'[s] = l
    BY <1>3, <1>6, <2>1 DEF WriteConfig, shells, Attended, ShellLabels
  <2>3. QED
    BY <1>6, <2>1, <2>2 DEF WriteConfig, Ahead
<1>7. CASE Probe(s)
  BY <1>3, <1>4, <1>7 DEF Probe, Step, shells, Attended, Ahead, ShellLabels
<1>8. CASE Spawn(s)
  <2>1. pc[s] = "spawn" /\ pc'[s] = "poll" /\ conn' = conn
    BY <1>1, <1>8 DEF Spawn, TypeOK
  <2>2. QED
    BY <2>1 DEF Attended, Ahead
<1>9. CASE PollStart(s)
  BY <1>3, <1>4, <1>9 DEF PollStart, Found, Attended, Ahead, ShellLabels
<1>10. CASE Connect(s)
  <2>1. CASE ~Running /\ Finish(s)
    BY <1>4, <1>10, <2>1 DEF Connect, Ahead
  <2>2. ASSUME NEW d \in Daemons, Listens(d),
               conn' = [conn EXCEPT ![s] = [to |-> d, st |-> "queued"]], Goto(s, "wait")
        PROVE  Attended(s)' /\ Ahead(s)' < Ahead(s)
    <3>1. conn'[s] = [to |-> d, st |-> "queued"]
      BY <2>2 DEF TypeOK
    <3>2. pc'[s] = "wait" /\ pc'[d] = pc[d]
      BY <1>2, <2>2 DEF ShellLabels
    <3>3. QED
      BY <1>10, <2>2, <3>1, <3>2 DEF Connect, Attended, Ahead, Listens
  <2>3. QED
    BY <1>10, <2>1, <2>2 DEF Connect
<1>11. CASE ReadAnswer(s)
  BY <1>3, <1>4, <1>11 DEF ReadAnswer, Ahead, ShellLabels
<1>12. CASE PollStop(s) \/ SayStopped(s)
  BY <1>3, <1>4, <1>12 DEF PollStop, SayStopped, Step, shells, Attended, Ahead, ShellLabels
<1>13. ASSUME NEW d \in Daemons, Accept(d, s)
       PROVE  Attended(s)' /\ Ahead(s)' < Ahead(s)
  <2>1. conn[s].st = "queued" /\ conn'[s].st = "taken" /\ conn'[s].to = d /\ pc' = pc
        /\ pc[d] = "serve"
    BY <1>13 DEF Accept, TypeOK
  <2>2. QED
    BY <2>1 DEF Attended, Ahead
<1>14. ASSUME NEW d \in Daemons, Answer(d, s)
       PROVE  Attended(s)' /\ Ahead(s)' < Ahead(s)
  <2>1. conn[s].st = "taken" /\ conn'[s].st = "answered" /\ pc' = pc
    BY <1>14 DEF Answer, TypeOK
  <2>2. QED
    BY <2>1 DEF Attended, Ahead
<1>15. QED
  BY <1>5, <1>6, <1>7, <1>8, <1>9, <1>10, <1>11, <1>12, <1>13, <1>14 DEF ShellStep

\* A step of another command.
LEMMA OtherStep ==
  ASSUME TypeOK, NEW s \in Shells, Attended(s), NEW t \in Shells, t # s,
         ShellStep(t) \/ \E c \in Commands : Invoke(t, c)
  PROVE  Attended(s)' /\ Ahead(s)' <= Ahead(s)
<1>1. conn[s] \in Conns /\ s \in Procs /\ t \in Procs /\ t \notin Daemons /\ s \notin Daemons
      /\ t # conn[s].to
  BY Labels DEF Conns, Procs
<1>2. ASSUME NEW l, Goto(t, l), conn'[s] = conn[s]
      PROVE  Attended(s)' /\ Ahead(s)' <= Ahead(s)
  <2>1. pc'[s] = pc[s] /\ \A d \in Daemons : pc'[d] = pc[d]
    BY <1>1, <1>2 DEF Goto, TypeOK
  <2>2. QED
    BY <1>2, <2>1, LeftAlone DEF Listens
<1>3. CASE Finish(t)
  BY <1>1, <1>3, EndAttends DEF Finish
<1>4. CASE CreateConfig(t) \/ WriteConfig(t)
  BY <1>2, <1>4 DEF CreateConfig, WriteConfig, shells
<1>5. CASE Probe(t) \/ PollStart(t) \/ PollStop(t) \/ SayStopped(t)
  BY <1>2, <1>3, <1>5 DEF Probe, PollStart, Found, PollStop, SayStopped, Step, shells
<1>6. CASE Spawn(t)
  <2>1. PICK d \in Daemons :
          pc[d] = "idle" /\ \E l : pc' = [pc EXCEPT ![t] = "poll", ![d] = l]
    BY <1>6 DEF Spawn
  <2>2. PICK l : pc' = [pc EXCEPT ![t] = "poll", ![d] = l]
    BY <2>1
  <2>3. pc'[s] = pc[s] /\ \A e \in Daemons : e # d => pc'[e] = pc[e]
    BY <1>1, <2>2 DEF TypeOK, Procs
  <2>4. ~Listens(d)
    BY <2>1 DEF Listens
  <2>5. QED
    BY <1>6, <2>3, <2>4, LeftAlone DEF Listens, Spawn
<1>7. CASE Connect(t) \/ ReadAnswer(t)
  BY <1>2, <1>3, <1>7 DEF Connect, ReadAnswer, TypeOK
<1>8. ASSUME NEW d \in Daemons, Accept(d, t) \/ Answer(d, t)
      PROVE  Attended(s)' /\ Ahead(s)' <= Ahead(s)
  BY <1>1, <1>8, LeftAlone DEF Accept, Answer, TypeOK, Listens
<1>9. ASSUME NEW c \in Commands, Invoke(t, c) PROVE Attended(s)' /\ Ahead(s)' <= Ahead(s)
  BY <1>2, <1>9 DEF Invoke, ReadConfig
<1>10. QED
  BY <1>4, <1>5, <1>6, <1>7, <1>8, <1>9 DEF ShellStep
\* A step of a daemon. Before it gets past the drain it closes what it has taken,
\* and what still waits in its backlog when it loses its listener.
LEMMA DaemonAttends ==
  ASSUME TypeOK, NEW s \in Shells, Attended(s), NEW d \in Daemons,
         DaemonStep(d) \/ RunForeground(d) \/ Crash(d) \/ GoOffline(d) \/ ComeOnline(d)
  PROVE  Attended(s)' /\ Ahead(s)' <= Ahead(s)
<1>1. conn[s] \in Conns /\ s \in Procs /\ d \in Procs /\ d # s
  BY Labels
<1>2. ASSUME NEW l, Goto(d, l), conn' = conn,
             \/ pc[d] \notin {"serve", "drain", "flush", "released"}
             \/ pc[d] = "flush" /\ l = "released"
             \/ l \in {"serve", "drain"}
      PROVE  Attended(s)' /\ Ahead(s)' <= Ahead(s)
  BY <1>1, <1>2, MoveAttends DEF Listens
<1>3. CASE Finish(d)
  BY <1>1, <1>3, EndAttends DEF Finish
<1>4. CASE CreateConfig(d) \/ WriteConfig(d)
  BY <1>2, <1>4 DEF CreateConfig, WriteConfig, shells
<1>5. CASE OpenRegistry(d) \/ StartNode(d) \/ GoOffline(d) \/ ComeOnline(d)
  BY <1>2, <1>3, <1>5 DEF OpenRegistry, StartNode, GoOffline, ComeOnline, Step, shells
<1>6. CASE BeginDrain(d) \/ Shutdown(d)
  BY <1>2, <1>6 DEF BeginDrain, Shutdown, Step, shells
<1>7. CASE Exit(d)
  BY <1>3, <1>7 DEF Exit
<1>8. CASE RunForeground(d)
  BY <1>2, <1>8 DEF RunForeground, ReadConfig, shells
<1>9. ASSUME NEW S, Cut(d, S), NEW l, Goto(d, l), "taken" \in S,
             "queued" \in S \/ l \in {"flush", "released"}
      PROVE  Attended(s)' /\ Ahead(s)' <= Ahead(s)
  <2>1. pc'[d] = l /\ \A q \in Procs : q # d => pc'[q] = pc[q]
    BY <1>1, <1>9 DEF Goto, TypeOK
  <2>2. CASE conn[s].to = d /\ conn[s].st \in S
    <3>1. conn'[s].st = "closed"
      BY <1>1, <1>9, <2>2 DEF Cut, Conns
    <3>2. QED
      BY <1>1, <2>1, <3>1, LeftAlone
  <2>3. CASE ~(conn[s].to = d /\ conn[s].st \in S)
    <3>1. conn'[s] = conn[s]
      BY <1>9, <2>3 DEF Cut
    <3>2. QED
      BY <1>1, <1>9, <2>1, <2>3, <3>1, LeftAlone DEF Listens, Procs
  <2>4. QED
    BY <2>2, <2>3
<1>10. CASE EndDrain(d)
  BY <1>9, <1>10 DEF EndDrain
<1>11. CASE Crash(d)
  BY <1>9, <1>11 DEF Crash
<1>12. QED
  BY <1>4, <1>5, <1>6, <1>7, <1>8, <1>10, <1>11 DEF DaemonStep

LEMMA StepAttends ==
  ASSUME TypeOK, NEW s \in Shells, Attended(s), [Next]_vars
  PROVE  /\ Attended(s)'
         /\ pc[s] # "idle" => /\ Ahead(s)' <= Ahead(s)
                              /\ ShellStep(s) => Ahead(s)' < Ahead(s)
<1>1. ASSUME ShellStep(s) PROVE Attended(s)' /\ Ahead(s)' < Ahead(s) /\ Ahead(s)' <= Ahead(s)
  <2>1. Attended(s)' /\ Ahead(s)' < Ahead(s)
    BY <1>1, OwnStep
  <2>2. Ahead(s) \in Nat /\ Ahead(s)' \in Nat
    BY AheadType DEF Ahead
  <2>3. QED
    BY <2>1, <2>2
<1>2. SUFFICES ASSUME ~ShellStep(s)
               PROVE  Attended(s)' /\ (pc[s] # "idle" => Ahead(s)' <= Ahead(s))
  BY <1>1
<1>3. ASSUME NEW c \in Commands, Invoke(s, c)
      PROVE  Attended(s)' /\ pc[s] = "idle"
  <2>1. pc[s] = "idle" /\ conn' = conn /\ pc'[s] # "wait"
    BY <1>3, FirstStepType DEF Invoke, ReadConfig, Goto, TypeOK, Procs
  <2>2. QED
    BY <2>1 DEF Attended
<1>4. ASSUME NEW p \in Procs, Kill(p)
      PROVE  Attended(s)' /\ Ahead(s)' <= Ahead(s)
  BY <1>4, EndAttends, AheadType DEF Kill
<1>5. CASE UNCHANGED vars
  BY <1>5, LeftAlone DEF vars, shells, Listens
<1>6. QED
  BY <1>2, <1>3, <1>4, <1>5, OtherStep, DaemonAttends DEF Next

LEMMA AttendedHolds == Spec => [](Inv /\ \A s \in Shells : Attended(s))
<1>1. Init => \A s \in Shells : Attended(s)
  BY DEF Init, Attended, Closed, Procs
<1>2. Inv /\ (\A s \in Shells : Attended(s)) /\ [Next]_vars => (\A s \in Shells : Attended(s))'
  BY StepAttends DEF Inv
<1>3. QED
  BY <1>1, <1>2, InitInv, NextInv, PTL DEF Spec

\* Every command goes to its end without a step back (run_start and run_stop
\* count their polls, DaemonClient::send has one request).
THEOREM CommandsApproachHolds == Spec => CommandsApproach
<1>1. Inv /\ (\A s \in Shells : Attended(s)) /\ [Next]_vars => [NearerEachStep]_vars
  BY StepAttends DEF Inv, NearerEachStep
<1>2. QED
  BY <1>1, AttendedHolds, PTL DEF Spec, CommandsApproach

\* No command is left waiting for a daemon that has gone (DaemonClient::send has
\* no timeout, the order in which run ends is what it relies on). With
\* CommandsApproach, the safety half of CommandEnds.
THEOREM NoneForgottenHolds == Spec => []NoneForgotten
<1>1. (\A s \in Shells : Attended(s)) => NoneForgotten
  BY DEF Attended, NoneForgotten
<1>2. QED
  BY <1>1, AttendedHolds, PTL

\* Who falls has failed, and who is offline too.
LEMMA FallsHolds == Spec => [](Inv /\ FallsByFault)
<1>1. Init => FallsByFault
  BY DEF Init, FallsByFault, Procs
<1>2. ASSUME Inv, FallsByFault, [Next]_vars PROVE FallsByFault'
  <2> USE DEF FallsByFault
  <2>1. faults \in Nat /\ \A p \in Procs : pc[p] \in ShellLabels \cup DaemonLabels
    BY <1>2, Labels DEF Inv, TypeOK
  <2>2. ASSUME NEW p \in Procs, NEW l, Goto(p, l), l \notin {"falling", "offline"}, faults' = faults
        PROVE  FallsByFault'
    BY <1>2, <2>2 DEF Goto, Inv, TypeOK, Procs
  <2>3. ASSUME NEW p \in Procs, Finish(p) PROVE FallsByFault'
    BY <2>2, <2>3 DEF Finish, End
  <2>4. ASSUME NEW p \in Procs, CreateConfig(p) \/ WriteConfig(p) PROVE FallsByFault'
    <3>1. \A c : FirstStep(p, c) \notin {"falling", "offline"}
      BY DEF FirstStep
    <3>2. QED
      BY <2>2, <2>4, <3>1 DEF CreateConfig, WriteConfig
  <2>5. ASSUME NEW s \in Shells, ShellStep(s) PROVE FallsByFault'
    <3>1. s \in Procs
      BY DEF Procs
    <3>2. CASE Probe(s) \/ PollStart(s) \/ PollStop(s) \/ SayStopped(s) \/ Connect(s)
               \/ ReadAnswer(s)
      BY <2>2, <2>3, <3>1, <3>2 DEF Probe, PollStart, Found, PollStop, SayStopped,
                                    Connect, ReadAnswer, Step
    <3>3. CASE Spawn(s)
      BY <1>2, <3>3 DEF Spawn, Inv, TypeOK, Procs, FirstStep
    <3>4. CASE \E d \in Daemons : Accept(d, s) \/ Answer(d, s)
      BY <1>2, <3>4 DEF Accept, Answer
    <3>5. QED
      BY <2>4, <2>5, <3>1, <3>2, <3>3, <3>4 DEF ShellStep
  <2>6. ASSUME NEW d \in Daemons, DaemonStep(d) PROVE FallsByFault'
    <3>1. d \in Procs
      BY DEF Procs
    <3>2. CASE OpenRegistry(d) \/ StartNode(d) \/ BeginDrain(d) \/ EndDrain(d)
               \/ Shutdown(d) \/ Exit(d)
      BY <2>2, <2>3, <3>1, <3>2 DEF OpenRegistry, StartNode, BeginDrain, EndDrain,
                                    Shutdown, Exit, Step
    <3>3. QED
      BY <2>4, <2>6, <3>1, <3>2 DEF DaemonStep
  <2>7. ASSUME NEW p \in Procs, NEW c, ReadConfig(p, c), faults' = faults PROVE FallsByFault'
    <3>1. FirstStep(p, c) \notin {"falling", "offline"}
      BY DEF FirstStep
    <3>2. QED
      BY <2>2, <2>7, <3>1 DEF ReadConfig
  <2>8. ASSUME faults' = faults + 1 PROVE FallsByFault'
    BY <2>1, <2>8
  <2>9. CASE UNCHANGED vars
    BY <1>2, <2>9 DEF vars
  <2>10. ASSUME NEW d \in Daemons, ComeOnline(d) PROVE FallsByFault'
    BY <2>2, <2>10 DEF ComeOnline, Step, Procs
  <2>11. QED
    BY <1>2, <2>5, <2>6, <2>7, <2>8, <2>9, <2>10
       DEF Next, Invoke, RunForeground, Crash, GoOffline, Kill, Procs
<1>3. QED
  BY <1>1, <1>2, InitInv, NextInv, PTL DEF Spec

\* A daemon d that is on its way, or serves, keeps the promise if another process
\* moves.
LEMMA OthersPromise ==
  ASSUME TypeOK, NEW p \in Procs, NEW l, Goto(p, l),
         NEW d \in Daemons, d # p, pc[d] \in {"registry", "node"} \/ Listens(d)
  PROVE  Promised'
<1>1. pc'[d] = pc[d]
  BY DEF Goto, TypeOK, Procs
<1>2. QED
  BY <1>1 DEF Promised, Running, Listens

\* And so does one that moves on in this direction.
LEMMA OwnPromise ==
  ASSUME TypeOK, NEW d \in Daemons, NEW l \in {"registry", "node", "serve"}, Goto(d, l)
  PROVE  Promised'
<1>1. pc'[d] = l
  BY DEF Goto, TypeOK, Procs
<1>2. QED
  BY <1>1 DEF Promised, Running, Listens

\* While nobody listens, whoever ends without a fault leaves somebody on the way.
LEMMA PromiseSteps ==
  ASSUME Inv, FallsByFault, faults = 0, ~Running, Promised, Next, faults' = faults
  PROVE  Promised'
<1>1. /\ TypeOK
      /\ \A d \in Daemons : d \in Procs /\ d \notin Shells /\ ~Listens(d)
                             /\ pc[d] \notin {"falling", "offline"}
      /\ Shells \subseteq Procs
  BY DEF Inv, Running, Procs, FallsByFault
<1>2. PICK e \in Daemons : pc[e] \in {"registry", "node"}
  BY DEF Promised
<1>3. ASSUME NEW p \in Procs, NEW l, Goto(p, l), pc[p] \notin {"registry", "node"}
      PROVE  Promised'
  BY <1>1, <1>2, <1>3, OthersPromise
<1>4. ASSUME pc' = pc PROVE Promised'
  BY <1>2, <1>4 DEF Promised
<1>5. ASSUME NEW p \in Procs, CreateConfig(p) \/ WriteConfig(p) PROVE Promised'
  BY <1>3, <1>5 DEF CreateConfig, WriteConfig
<1>6. ASSUME NEW s \in Shells, ShellStep(s) PROVE Promised'
  <2>1. pc[s] \notin {"registry", "node"} /\ s \in Procs
    BY <1>1, Labels DEF ShellLabels
  <2>2. CASE Probe(s) \/ PollStart(s) \/ PollStop(s) \/ SayStopped(s) \/ Connect(s)
             \/ ReadAnswer(s)
    BY <1>3, <2>1, <2>2 DEF Probe, PollStart, Found, PollStop, SayStopped, Connect,
                            ReadAnswer, Step, Finish, End
  <2>3. CASE Spawn(s)
    <3>1. pc'[e] = pc[e]
      BY <1>1, <1>2, <2>3 DEF Spawn, TypeOK
    <3>2. QED
      BY <1>2, <3>1 DEF Promised
  <2>4. CASE \E d \in Daemons : Accept(d, s) \/ Answer(d, s)
    BY <1>4, <2>4 DEF Accept, Answer
  <2>5. QED
    BY <1>5, <1>6, <2>1, <2>2, <2>3, <2>4 DEF ShellStep
<1>7. ASSUME NEW d \in Daemons, OpenRegistry(d) PROVE Promised'
  <2>1. CASE Step(d, "registry", "node")
    BY <1>1, <2>1, OwnPromise DEF Step
  <2>2. ASSUME NEW o \in Daemons, Owns(o), pc[d] = "registry", Finish(d) PROVE Promised'
    <3>1. pc[o] = "node" /\ o # d
      BY <1>1, <2>2 DEF Owns, Listens
    <3>2. QED
      BY <1>1, <2>2, <3>1, OthersPromise DEF Finish, End
  <2>3. QED
    BY <1>7, <2>1, <2>2 DEF OpenRegistry
<1>8. ASSUME NEW d \in Daemons, StartNode(d) PROVE Promised'
  BY <1>1, <1>8, OwnPromise DEF StartNode, Step
<1>9. ASSUME NEW d \in Daemons, DaemonStep(d) PROVE Promised'
  <2>1. ~(BeginDrain(d) \/ EndDrain(d) \/ Shutdown(d) \/ Exit(d))
    BY <1>1 DEF BeginDrain, EndDrain, Shutdown, Exit, Step, Listens
  <2>2. QED
    BY <1>1, <1>5, <1>7, <1>8, <1>9, <2>1 DEF DaemonStep
<1>10. ASSUME NEW p \in Procs, NEW c, pc[p] = "idle", ReadConfig(p, c) PROVE Promised'
  BY <1>3, <1>10 DEF ReadConfig
<1>11. ~\E d \in Daemons : Crash(d) \/ GoOffline(d) \/ ComeOnline(d)
  BY <1>1 DEF Crash, GoOffline, ComeOnline, Step, Listens, Inv, TypeOK
<1>12. ~\E p \in Procs : Kill(p)
  BY DEF Kill
<1>13. QED
  BY <1>1, <1>6, <1>9, <1>10, <1>11, <1>12 DEF Next, Invoke, RunForeground

\* A start that has spawned its daemon is not given up before a daemon listens
\* (run_start, RedbRegistry::open and the bind of run_serve decide who gives way):
\* the safety half of StartServes.
THEOREM StartsKeptHolds == Spec => StartsKept
<1>1. ASSUME Inv, FallsByFault, [Next]_vars PROVE [PromiseKept]_vars
  <2> SUFFICES ASSUME faults = 0, faults' = 0, Next
               PROVE  /\ \A s \in Shells : Settled /\ Spawn(s) => Promised'
                      /\ ~Running /\ Promised => Promised'
    BY <1>1 DEF PromiseKept
  <2>1. ASSUME NEW s \in Shells, Settled, Spawn(s) PROVE Promised'
    <3>1. PICK d \in Daemons :
            /\ pc[d] = "idle"
            /\ pc' = [pc EXCEPT ![s] = "poll",
                               ![d] = IF file = "whole" THEN FirstStep(d, "run") ELSE "idle"]
      BY <2>1 DEF Spawn
    <3>2. FirstStep(d, "run") = "registry" /\ file = "whole"
      BY <2>1, FirstStepType DEF Settled
    <3>3. pc'[d] = "registry"
      BY <1>1, <3>1, <3>2 DEF Inv, TypeOK, Procs
    <3>4. QED
      BY <3>3 DEF Promised
  <2>2. ~Running /\ Promised => Promised'
    BY <1>1, PromiseSteps
  <2>3. QED
    BY <2>1, <2>2
<1>2. QED
  BY <1>1, FallsHolds, PTL DEF Spec, StartsKept
=============================================================================
