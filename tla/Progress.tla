------------------------------- MODULE Progress -------------------------------
(***************************************************************************)
(* What the command line shows of a receive over Transfer: the progress    *)
(* callback (core/protocol/rings.rs), the task of handle_receive that      *)
(* turns its reports into events (handlers/receive.rs), and the display of *)
(* `rdrop receive` (cli/command/receive.rs). One slot's receive is         *)
(* watched. Each stage reads a queue of its own and lags as it likes; the  *)
(* bound of the event channel is DaemonServer's subject.                   *)
(***************************************************************************)
EXTENDS Transfer, SequencesExt

CONSTANTS
  Client,  \* the slot whose receive is watched
  NoFile   \* no current_file

VARIABLES
  progress, \* reports of the callback: <<"start", file>> and <<"bytes">>
  file,     \* the progress task's current_file
  ending,   \* download_impl is over: "done", "error"; "no"; or "lost"
  events,   \* on their way to the client: <<"file", file>>, <<"done">>, <<"error">>
  shown,    \* the command line: its current_file, the files ticked off, its end
  got       \* history: the files this receive was sent whole, in their order

pipe == <<progress, file, ending, events, shown>>

ASSUME ProgressAssumption == Client \in Recvs /\ NoFile \notin Files

Fresh == [file |-> NoFile, ticked |-> <<>>, end |-> "no"]

\* No command line is there yet.
ProgressInit ==
  /\ Init
  /\ progress = <<>>
  /\ file = NoFile
  /\ ending = "no"
  /\ events = <<>>
  /\ shown = [Fresh EXCEPT !.end = "error"]
  /\ got = <<>>

-----------------------------------------------------------------------------
(* The daemon's side. *)

\* A command line starts, when the one before is over and its pipe empty.
Start(r, s) ==
  IF r.pc = "idle" /\ s.pc # "idle"
  THEN /\ shown.end # "no"
       /\ progress = <<>> /\ ending = "no"
       /\ events' = <<>>
       /\ shown' = Fresh
  ELSE UNCHANGED <<events, shown>>

\* on_progress, called as the watched receive goes from r to s: FileStart before
\* each file of a collection, Bytes when the sender begins (the later Bytes of a
\* file only move the bar, as all Bytes of a single blob do, and the root and the
\* metadata of a collection have none).
Callback(r, s) ==
  progress' =
    IF r = s \/ s.blob \notin Files THEN progress
    ELSE IF s.pc = "next" THEN Append(progress, <<"start", s.blob>>)
    ELSE IF r.pc = "next" /\ s.pc = "stream" THEN Append(progress, <<"bytes">>)
    ELSE progress

\* download_impl returns.
Returned(r, s) ==
  ending' = IF r.pc = "idle" \/ s.pc # "idle" THEN ending
            ELSE IF r.pc = "write" /\ r.todo = {} /\ faults' = faults THEN "done"
            ELSE "error"

Remember(r, s) ==
  got' = IF r.pc = "idle" /\ s.pc # "idle" THEN <<>>
         ELSE IF r.pc = "stream" /\ s.pc \in {"next", "export"}
                /\ r.blob \in Files /\ Complete(r.blob)
         THEN Append(got, r.blob) ELSE got

\* A step of Transfer with the daemon running, as far as it is watched.
Watched ==
  LET r == recv[Client]
      s == recv'[Client] IN
  /\ Running
  /\ Start(r, s) /\ Callback(r, s) /\ Returned(r, s) /\ Remember(r, s)
  /\ UNCHANGED file

\* The progress task: FileStart names the file that the Bytes after it are of.
Forward ==
  /\ progress # <<>>
  /\ LET e == Head(progress) IN
       IF e[1] = "start" THEN file' = e[2] /\ UNCHANGED events
       ELSE events' = Append(events, <<"file", file>>) /\ UNCHANGED file
  /\ progress' = Tail(progress)
  /\ UNCHANGED <<vars, ending, shown, got>>

\* Mutant: handle_receive does not wait for the progress task.
AnswerUnjoined ==
  /\ ending \in {"done", "error"}
  /\ events' = Append(events, <<ending>>)
  /\ ending' = "no"
  /\ file' = NoFile
  /\ UNCHANGED <<vars, progress, shown, got>>

\* handle_receive joins the progress task and answers.
Answer ==
  /\ ending \in {"done", "error"}
  /\ progress = <<>>
  /\ events' = Append(events, <<ending>>)
  /\ ending' = "no"
  /\ file' = NoFile
  /\ UNCHANGED <<vars, progress, shown, got>>

\* The daemon dies: of the events, what the socket holds still arrives.
Lose ==
  /\ Crash
  /\ progress' = <<>>
  /\ file' = NoFile
  /\ \E n \in 0 .. Len(events) : events' = SubSeq(events, 1, n)
  /\ ending' = IF shown.end = "no" THEN "lost" ELSE "no"
  /\ UNCHANGED <<shown, got>>

-----------------------------------------------------------------------------
(* The command line's side. *)

\* The file shown so far is ticked off.
Ticked == IF shown.file = NoFile THEN shown.ticked
          ELSE Append(shown.ticked, shown.file)

\* Mutant: the error, too, ends the current file with a tick.
ReadEndTicking ==
  /\ shown.end = "no"
  /\ events # <<>>
  /\ LET e == Head(events) IN
       /\ e[1] \in {"done", "error"}
       /\ shown' = [file |-> NoFile, ticked |-> Ticked, end |-> e[1]]
  /\ events' = Tail(events)
  /\ ending' = "no"
  /\ UNCHANGED <<vars, progress, file, got>>

\* Done ticks the last file off, Error does not; then the command ends.
ReadEnd ==
  /\ shown.end = "no"
  /\ events # <<>>
  /\ LET e == Head(events) IN
       /\ e[1] \in {"done", "error"}
       /\ shown' = [file |-> NoFile, end |-> e[1],
                    ticked |-> IF e[1] = "done" THEN Ticked ELSE shown.ticked]
  /\ events' = Tail(events)
  /\ ending' = "no"
  /\ UNCHANGED <<vars, progress, file, got>>

\* FileProgress: another file than the current one, which is thereby over.
ReadProgress ==
  /\ shown.end = "no"
  /\ events # <<>>
  /\ LET e == Head(events) IN
       /\ e[1] = "file"
       /\ shown' = IF e[2] = shown.file THEN shown
                   ELSE [shown EXCEPT !.file = e[2], !.ticked = Ticked]
  /\ events' = Tail(events)
  /\ UNCHANGED <<vars, progress, file, ending, got>>

\* The connection closes without an answer.
ReadEof ==
  /\ shown.end = "no"
  /\ events = <<>>
  /\ ending = "lost"
  /\ shown' = [shown EXCEPT !.end = "error"]
  /\ ending' = "no"
  /\ UNCHANGED <<vars, progress, file, events, got>>

ProgressNext ==
  Watched \/ Forward \/ Answer \/ Lose \/ ReadProgress \/ ReadEnd \/ ReadEof

ProgressSpec ==
  ProgressInit /\ [][ProgressNext]_<<vars, pipe, got>> /\ Fairness

-----------------------------------------------------------------------------
(* Properties. *)

\* The ticks are the files received whole, in their order, each once ("a static
\* completion line for the file that just finished"), although the command line
\* learns of each from the next file's first event or from Done alone, whatever
\* breaks the receive off, and whatever other receives bring in between. A
\* command that ends with Done has ticked every file it was sent: the answer
\* overtakes no event on its way through the callback's queue, the task and the
\* connection.
TicksAreTrue ==
  /\ IsPrefix(shown.ticked, got)
  /\ shown.end = "done" => shown.ticked = got
=============================================================================
