------------------------- MODULE DaemonServerProofs -------------------------
(***************************************************************************)
(* Proofs about DaemonServer, for any number of connections, any capacity  *)
(* of the event channel and any number of lines. The inductive invariant   *)
(* speaks of one connection at a time: which of its tasks can still send,  *)
(* and where its last event is. A second part is about what the tasks of a *)
(* connection, the accept loop and the final unwrap wait for.              *)
(***************************************************************************)
EXTENDS DaemonServer, SequenceTheorems, TLAPS

Before == {"running", "fetching", "joining"}
After == {"notify", "return", "closing", "ended"}

\* Nothing has been sent for a connection whose request is not dispatched.
Undispatched(c) ==
  /\ task[c] \in {"none", "reading"} =>
       job[c].pc = "none" /\ prog[c] = "none" /\ got[c] = "open"
  /\ sock[c] = "none" => task[c] = "none"
  /\ Up /\ task[c] = "none" => sock[c] # "closed"

\* The channel goes with handle_connection, and so does the socket.
Closed(c) ==
  /\ task[c] # "forwarding" => chan[c] = <<>>
  /\ task[c] = "forwarding" => job[c].pc # "none"
  /\ task[c] \in {"ended", "aborted"} => sock[c] # "waiting"
  /\ Live(c) => sock[c] # "closed"

\* The progress task only runs while the handler waits for it.
OneSender(c) == prog[c] = "running" => job[c].pc \in {"fetching", "joining"}

\* There are no more progress callbacks than a download makes.
Callbacks(c) ==
  /\ prog[c] = "none" => pending[c] = 0
  /\ job[c].pc = "fetching" => prog[c] # "none"
  /\ job[c].pc = "fetching" => job[c].left + pending[c] <= MaxLines

\* Until the handler sends its last event there is none.
NotYet(c) ==
  task[c] = "forwarding" /\ job[c].pc \in Before =>
    /\ got[c] = "open"
    /\ \A i \in 1 .. Len(chan[c]) : chan[c][i] # "end"

\* From then on the client has it, or it is the last in the channel, unless the
\* client has left.
Answered(c) ==
  task[c] = "forwarding" /\ job[c].pc \in After =>
    \/ got[c] = "end"
    \/ sock[c] = "left"
    \/ chan[c] # <<>> /\ chan[c][Len(chan[c])] = "end"

LastIsLast(c) ==
  /\ got[c] # "excess"
  /\ \A i \in 1 .. Len(chan[c]) : chan[c][i] = "end" => i = Len(chan[c])
  /\ got[c] = "end" => chan[c] = <<>>

CleanClose(c) ==
  task[c] = "ended" /\ sock[c] = "closed" /\ line[c] # "none" =>
    \/ got[c] = "end"
    \/ line[c] \in {"long", "garbled"} /\ job[c].pc = "none"

Good(c) ==
  /\ Undispatched(c) /\ Closed(c) /\ OneSender(c) /\ Callbacks(c)
  /\ NotYet(c) /\ Answered(c) /\ LastIsLast(c) /\ CleanClose(c)

\* The inductive invariant.
Inv == TypeOK /\ \A c \in Conns : Good(c)

-----------------------------------------------------------------------------

Same(d) ==
  /\ Up' => Up
  /\ sock'[d] = sock[d] /\ line'[d] = line[d] /\ task'[d] = task[d]
  /\ job'[d] = job[d] /\ prog'[d] = prog[d] /\ pending'[d] = pending[d]
  /\ chan'[d] = chan[d] /\ got'[d] = got[d]

\* A step of one connection leaves the others alone.
LEMMA Frame ==
  ASSUME Inv, NEW c \in Conns, TypeOK', Good(c)',
         \A d \in Conns \ {c} : Same(d)
  PROVE  Inv'
<1>1. ASSUME NEW d \in Conns, d # c PROVE Good(d)'
  <2>1. Good(d) /\ Same(d)
    BY <1>1 DEF Inv
  <2>2. QED
    BY <2>1 DEF Same, Live, Good, Undispatched, Closed, OneSender, Callbacks, NotYet,
                Answered, LastIsLast, CleanClose
<1>2. QED
  BY <1>1 DEF Inv

\* What Send does to the channel.
LEMMA SendEffect ==
  ASSUME Inv, NEW c \in Conns, NEW event \in {"line", "end"}, Send(c, event)
  PROVE  /\ chan' \in [Conns -> Seq({"line", "end"})]
         /\ \A d \in Conns : Len(chan'[d]) <= Capacity
         /\ \A d \in Conns \ {c} : chan'[d] = chan[d]
         /\ task[c] # "forwarding" => chan'[c] = <<>>
         /\ Len(chan[c]) \in Nat
         /\ task[c] = "forwarding" =>
              /\ chan'[c] # <<>>
              /\ Len(chan'[c]) = Len(chan[c]) + 1
              /\ chan'[c][Len(chan'[c])] = event
              /\ \A i \in 1 .. Len(chan'[c]) :
                   \/ i = Len(chan'[c])
                   \/ i \in 1 .. Len(chan[c]) /\ chan'[c][i] = chan[c][i]
<1>1. CASE task[c] = "forwarding"
  <2> DEFINE s == Append(chan[c], event)
  <2>1. chan' = [chan EXCEPT ![c] = s] /\ Len(chan[c]) < Capacity
    BY <1>1 DEF Send
  <2>2. chan[c] \in Seq({"line", "end"})
    BY DEF Inv, TypeOK
  <2>3. /\ s \in Seq({"line", "end"}) /\ s # <<>>
        /\ Len(s) = Len(chan[c]) + 1 /\ Len(chan[c]) \in Nat
        /\ s[Len(s)] = event
        /\ \A i \in 1 .. Len(chan[c]) : s[i] = chan[c][i]
    BY <2>2, AppendProperties
  <2>4. Len(s) <= Capacity
    BY <2>1, <2>2, <2>3, ServerAssumption
  <2> HIDE DEF s
  <2>5. /\ chan'[c] = s
        /\ chan' \in [Conns -> Seq({"line", "end"})]
        /\ \A d \in Conns : Len(chan'[d]) <= Capacity
        /\ \A d \in Conns \ {c} : chan'[d] = chan[d]
    BY <2>1, <2>3, <2>4 DEF Inv, TypeOK
  <2>6. /\ chan'[c] # <<>>
        /\ Len(chan'[c]) = Len(chan[c]) + 1 /\ Len(chan[c]) \in Nat
        /\ chan'[c][Len(chan'[c])] = event
        /\ \A i \in 1 .. Len(chan[c]) : chan'[c][i] = chan[c][i]
    BY <2>3, <2>5
  <2>7. \A i \in 1 .. Len(chan'[c]) : i = Len(chan'[c]) \/ i \in 1 .. Len(chan[c])
    BY <2>6
  <2>8. QED
    BY <1>1, <2>5, <2>6, <2>7
<1>2. CASE task[c] # "forwarding"
  BY <1>2 DEF Send, Inv, TypeOK, Good, Closed
<1>3. QED
  BY <1>1, <1>2

\* What taking an event does to it.
LEMMA TakeEffect ==
  ASSUME Inv, NEW c \in Conns, chan[c] # <<>>,
         chan' = [chan EXCEPT ![c] = Tail(@)]
  PROVE  /\ chan' \in [Conns -> Seq({"line", "end"})]
         /\ \A d \in Conns : Len(chan'[d]) <= Capacity
         /\ \A d \in Conns \ {c} : chan'[d] = chan[d]
         /\ Head(chan[c]) = chan[c][1] /\ chan[c][1] \in {"line", "end"}
         /\ Len(chan[c]) \in Nat \ {0}
         /\ Len(chan'[c]) = Len(chan[c]) - 1
         /\ Len(chan[c]) = 1 <=> chan'[c] = <<>>
         /\ \A i \in 1 .. Len(chan'[c]) :
              i + 1 \in 1 .. Len(chan[c]) /\ chan'[c][i] = chan[c][i + 1]
<1> DEFINE s == Tail(chan[c])
<1>1. chan[c] \in Seq({"line", "end"}) /\ Len(chan[c]) <= Capacity
  BY DEF Inv, TypeOK
<1>2. /\ s \in Seq({"line", "end"})
      /\ Len(chan[c]) \in Nat \ {0}
      /\ Len(s) = Len(chan[c]) - 1
      /\ Len(chan[c]) = 1 <=> s = <<>>
      /\ \A i \in 1 .. Len(s) :
           i + 1 \in 1 .. Len(chan[c]) /\ s[i] = chan[c][i + 1]
      /\ Head(chan[c]) = chan[c][1] /\ chan[c][1] \in {"line", "end"}
  <2>1. Len(chan[c]) \in Nat \ {0} /\ s \in Seq({"line", "end"}) /\ Len(s) = Len(chan[c]) - 1
    BY <1>1, EmptySeq, HeadTailProperties
  <2>2. Len(chan[c]) = 1 <=> s = <<>>
    <3>1. s # <<>> => Len(s) \in Nat \ {0}
      BY <2>1, EmptySeq
    <3>2. s = <<>> => Len(s) = 0
      BY EmptySeq
    <3> HIDE DEF s
    <3>3. QED
      BY <2>1, <3>1, <3>2
  <2>3. /\ \A i \in 1 .. Len(s) :
             i + 1 \in 1 .. Len(chan[c]) /\ s[i] = chan[c][i + 1]
        /\ Head(chan[c]) = chan[c][1] /\ chan[c][1] \in {"line", "end"}
    BY <1>1, <2>1
  <2>4. QED
    BY <2>1, <2>2, <2>3
<1>3. Len(s) <= Capacity
  BY <1>1, <1>2, ServerAssumption
<1>4. chan' = [chan EXCEPT ![c] = s]
  OBVIOUS
<1> HIDE DEF s
<1>5. /\ chan'[c] = s
      /\ chan' \in [Conns -> Seq({"line", "end"})]
      /\ \A d \in Conns \ {c} : chan'[d] = chan[d]
  BY <1>2, <1>4 DEF Inv, TypeOK
<1>6. \A d \in Conns : Len(chan'[d]) <= Capacity
  BY <1>3, <1>5 DEF Inv, TypeOK
<1>7. QED
  BY <1>2, <1>5, <1>6

LEMMA ConnectKeeps ==
  ASSUME Inv, NEW c \in Conns, Connect(c)
  PROVE  Inv'
<1> USE ServerAssumption DEF Inv, TypeOK, Connect, serverVars, Up
<1>1. TypeOK'
  OBVIOUS
<1>2. \A d \in Conns \ {c} : Same(d)
  BY DEF Same, Up
<1>3. Undispatched(c)'
  BY DEF Good, Undispatched, Up
<1>4. Closed(c)'
  BY DEF Good, Closed, Live, Undispatched, Up
<1>5. Answered(c)'
  BY DEF Good, Answered, After
<1>6. CleanClose(c)'
  BY DEF Good, CleanClose
<1>7. OneSender(c)' /\ Callbacks(c)'
  BY DEF Good, OneSender, Callbacks
<1>8. NotYet(c)' /\ LastIsLast(c)'
  BY DEF Good, NotYet, LastIsLast
<1>9. Good(c)'
  BY <1>3, <1>4, <1>5, <1>6, <1>7, <1>8 DEF Good
<1>10. QED
  BY <1>1, <1>2, <1>9, Frame

LEMMA WriteLineKeeps ==
  ASSUME Inv, NEW c \in Conns, WriteLine(c)
  PROVE  Inv'
<1> USE ServerAssumption DEF Inv, TypeOK, WriteLine, serverVars
<1>1. TypeOK'
  OBVIOUS
<1>2. \A d \in Conns \ {c} : Same(d)
  BY DEF Same, Up
<1>3. CleanClose(c)'
  BY DEF Good, CleanClose
<1>4. Undispatched(c)' /\ Closed(c)'
  BY DEF Good, Undispatched, Closed, Up, Live
<1>5. OneSender(c)' /\ Callbacks(c)' /\ NotYet(c)' /\ Answered(c)' /\
   LastIsLast(c)'
  BY DEF Good, OneSender, Callbacks, NotYet, Answered, LastIsLast
<1>6. Good(c)'
  BY <1>3, <1>4, <1>5 DEF Good
<1>7. QED
  BY <1>1, <1>2, <1>6, Frame

LEMMA StallKeeps ==
  ASSUME Inv, NEW c \in Conns, Stall(c)
  PROVE  Inv'
<1> USE ServerAssumption DEF Inv, TypeOK, Stall, serverVars
<1>1. TypeOK'
  OBVIOUS
<1>2. \A d \in Conns \ {c} : Same(d)
  BY DEF Same, Up
<1>3. Undispatched(c)'
  BY DEF Good, Undispatched, Up
<1>4. Closed(c)'
  BY DEF Good, Closed, Live, Undispatched, Up
<1>5. Answered(c)'
  BY DEF Good, Answered, After
<1>6. CleanClose(c)'
  BY DEF Good, CleanClose
<1>7. OneSender(c)' /\ Callbacks(c)'
  BY DEF Good, OneSender, Callbacks
<1>8. NotYet(c)' /\ LastIsLast(c)'
  BY DEF Good, NotYet, LastIsLast
<1>9. Good(c)'
  BY <1>3, <1>4, <1>5, <1>6, <1>7, <1>8 DEF Good
<1>10. QED
  BY <1>1, <1>2, <1>9, Frame

LEMMA LeaveKeeps ==
  ASSUME Inv, NEW c \in Conns, Leave(c)
  PROVE  Inv'
<1> USE ServerAssumption DEF Inv, TypeOK, Leave, serverVars
<1>1. TypeOK'
  OBVIOUS
<1>2. \A d \in Conns \ {c} : Same(d)
  BY DEF Same, Up
<1>3. Undispatched(c)'
  BY DEF Good, Undispatched, Up
<1>4. Closed(c)'
  BY DEF Good, Closed, Live, Undispatched, Up
<1>5. Answered(c)'
  BY DEF Good, Answered, After
<1>6. CleanClose(c)'
  BY DEF Good, CleanClose
<1>7. OneSender(c)' /\ Callbacks(c)'
  BY DEF Good, OneSender, Callbacks
<1>8. NotYet(c)' /\ LastIsLast(c)'
  BY DEF Good, NotYet, LastIsLast
<1>9. Good(c)'
  BY <1>3, <1>4, <1>5, <1>6, <1>7, <1>8 DEF Good
<1>10. QED
  BY <1>1, <1>2, <1>9, Frame

LEMMA ReadNothingKeeps ==
  ASSUME Inv, NEW c \in Conns, ReadNothing(c)
  PROVE  Inv'
<1> USE ServerAssumption DEF Inv, TypeOK, ReadNothing, EndTask, serverVars
<1>1. TypeOK'
  OBVIOUS
<1>2. \A d \in Conns \ {c} : Same(d)
  BY DEF Same, Up
<1>3. Undispatched(c)'
  BY DEF Good, Undispatched, Up
<1>4. Closed(c)'
  BY DEF Good, Closed, Live, Undispatched, Up
<1>5. NotYet(c)'
  BY DEF Good, NotYet, Before
<1>6. Answered(c)'
  BY DEF Good, Answered, After
<1>7. LastIsLast(c)'
  BY DEF Good, LastIsLast
<1>8. CleanClose(c)'
  BY DEF Good, CleanClose
<1>9. OneSender(c)' /\ Callbacks(c)'
  BY DEF Good, OneSender, Callbacks
<1>10. Good(c)'
  BY <1>3, <1>4, <1>5, <1>6, <1>7, <1>8, <1>9 DEF Good
<1>11. QED
  BY <1>1, <1>2, <1>10, Frame

\* The three ends of a connection whose line is no request: without an event,
\* with one, or with one that the reset overtakes.
LEMMA ReadRefusedKeeps ==
  ASSUME Inv, NEW c \in Conns, ReadFails(c) \/ ReadLongLine(c) \/ ReadBadLine(c)
  PROVE  Inv'
<1>b. /\ task[c] = "reading" /\ EndTask(c)
      /\ UNCHANGED <<serverVars, line, job, prog, pending>>
  BY DEF ReadFails, ReadLongLine, ReadBadLine
<1> USE ServerAssumption DEF Inv, TypeOK, EndTask, serverVars
<1>a. /\ got[c] = "open" /\ job[c].pc = "none"
      /\ got' \in [Conns -> {"open", "end", "excess"}]
      /\ \A d \in Conns \ {c} : got'[d] = got[d]
      /\ got'[c] \in {"open", "end"}
      /\ \/ got'[c] = "end"
         \/ line[c] \in {"long", "garbled"}
         \/ sock[c] # "waiting"
  <2>1. got[c] = "open" /\ job[c].pc = "none"
    BY <1>b DEF Good, Undispatched
  <2>2. CASE Sees(c, "end") /\ sock[c] = "waiting"
    <3>1. got' = [got EXCEPT ![c] = "end"]
      BY <2>1, <2>2 DEF Sees
    <3>2. QED
      BY <2>1, <3>1
  <2>3. CASE got' = got /\ (line[c] \in {"long", "garbled"} \/ sock[c] # "waiting")
    BY <2>1, <2>3
  <2>4. QED
    BY <2>2, <2>3 DEF ReadFails, ReadLongLine, ReadBadLine
<1>1. TypeOK'
  BY <1>a, <1>b
<1>2. \A d \in Conns \ {c} : Same(d)
  BY <1>a, <1>b DEF Same, Up
<1>3. Undispatched(c)'
  BY <1>a, <1>b DEF Good, Undispatched, Up
<1>4. Closed(c)'
  BY <1>a, <1>b DEF Good, Closed, Live, Undispatched, Up
<1>5. NotYet(c)'
  BY <1>a, <1>b DEF Good, NotYet, Before
<1>6. Answered(c)'
  BY <1>a, <1>b DEF Good, Answered, After
<1>7. LastIsLast(c)'
  BY <1>a, <1>b DEF Good, LastIsLast
<1>8. CleanClose(c)'
  <2>1. sock[c] # "closed"
    BY <1>b DEF Good, Closed, Live
  <2>2. QED
    BY <1>a, <1>b, <2>1 DEF CleanClose
<1>9. OneSender(c)' /\ Callbacks(c)'
  BY <1>a, <1>b DEF Good, OneSender, Callbacks
<1>10. Good(c)'
  BY <1>3, <1>4, <1>5, <1>6, <1>7, <1>8, <1>9 DEF Good
<1>11. QED
  BY <1>1, <1>2, <1>10, Frame

LEMMA SpawnDispatchKeeps ==
  ASSUME Inv, NEW c \in Conns, SpawnDispatch(c)
  PROVE  Inv'
<1> USE ServerAssumption DEF Inv, TypeOK, SpawnDispatch, serverVars
<1>1. TypeOK'
  BY DEF JobState
<1>2. \A d \in Conns \ {c} : Same(d)
  BY DEF Same, Up
<1>3. Undispatched(c)'
  BY DEF Good, Undispatched, JobState, Up
<1>4. Closed(c)'
  BY DEF Good, Closed, JobState, Live, Undispatched, Up
<1>5. OneSender(c)'
  BY DEF Good, OneSender, Undispatched, JobState
<1>6. Callbacks(c)'
  BY DEF Good, Callbacks, JobState
<1>7. NotYet(c)'
  BY DEF Good, NotYet, Undispatched, Closed, JobState, Before
<1>8. Answered(c)'
  BY DEF Good, Answered, JobState, After
<1>9. CleanClose(c)'
  BY DEF Good, CleanClose, JobState
<1>10. LastIsLast(c)'
  BY DEF Good, LastIsLast
<1>11. Good(c)'
  BY <1>3, <1>4, <1>5, <1>6, <1>7, <1>8, <1>9, <1>10 DEF Good
<1>12. QED
  BY <1>1, <1>2, <1>11, Frame

LEMMA ForwardKeeps ==
  ASSUME Inv, NEW c \in Conns, Forward(c)
  PROVE  Inv'
<1>t. /\ chan' \in [Conns -> Seq({"line", "end"})]
      /\ \A d \in Conns : Len(chan'[d]) <= Capacity
      /\ \A d \in Conns \ {c} : chan'[d] = chan[d]
      /\ Len(chan[c]) \in Nat \ {0}
      /\ Len(chan'[c]) = Len(chan[c]) - 1
      /\ Len(chan[c]) = 1 <=> chan'[c] = <<>>
      /\ \A i \in 1 .. Len(chan'[c]) :
           i + 1 \in 1 .. Len(chan[c]) /\ chan'[c][i] = chan[c][i + 1]
      /\ Head(chan[c]) = chan[c][1] /\ chan[c][1] \in {"line", "end"}
  BY TakeEffect DEF Forward
<1> USE ServerAssumption DEF Inv, TypeOK, Forward, serverVars
<1>a. got[c] = "open"
  BY DEF Good, LastIsLast
<1>g. /\ got' \in [Conns -> {"open", "end", "excess"}]
      /\ \A d \in Conns \ {c} : got'[d] = got[d]
      /\ got'[c] = IF chan[c][1] = "end" THEN "end" ELSE "open"
  BY <1>a, <1>t DEF Sees
<1>1. TypeOK'
  BY <1>a, <1>t, <1>g 
<1>2. \A d \in Conns \ {c} : Same(d)
  BY <1>a, <1>t, <1>g DEF Same, Up
<1>3. Undispatched(c)'
  BY <1>a, <1>t, <1>g DEF Good, Undispatched, Up
<1>4. Closed(c)'
  BY <1>a, <1>t, <1>g DEF Good, Closed, Live, Undispatched, Up
<1>5. NotYet(c)'
  BY <1>a, <1>t, <1>g DEF Good, NotYet, Before
<1>6. Answered(c)'
  <2>1. Answered(c) /\ Len(chan[c]) \in Nat \ {0}
    BY <1>t DEF Good
  <2>2. task[c] = "forwarding" /\ sock' = sock /\ job' = job
    OBVIOUS
  <2> HIDE DEF Inv, TypeOK, Forward
  <2>3. CASE chan[c][Len(chan[c])] = "end"
    <3>1. CASE Len(chan[c]) = 1
      BY <1>g, <2>3, <3>1 DEF Answered
    <3>2. CASE Len(chan[c]) # 1
      BY <1>t, <2>1, <2>3, <3>2 DEF Answered
    <3>3. QED
      BY <3>1, <3>2
  <2>4. QED
    BY <1>a, <2>1, <2>2, <2>3 DEF Answered
<1>7. LastIsLast(c)'
  <2>1. LastIsLast(c)
    BY DEF Good
  <2> HIDE DEF Inv, TypeOK, Forward
  <2>2. CASE chan[c][1] = "end"
    <3>1. Len(chan[c]) = 1
      BY <1>t, <2>1, <2>2 DEF LastIsLast
    <3>2. QED
      BY <1>t, <1>g, <2>2, <3>1 DEF LastIsLast
  <2>3. CASE chan[c][1] # "end"
    <3>1. ASSUME NEW i \in 1 .. Len(chan'[c]), chan'[c][i] = "end"
          PROVE  i = Len(chan'[c])
      <4>1. i + 1 \in 1 .. Len(chan[c]) /\ chan[c][i + 1] = "end"
        BY <1>t, <3>1
      <4>2. i + 1 = Len(chan[c])
        BY <2>1, <4>1 DEF LastIsLast
      <4>3. QED
        BY <1>t, <4>2
    <3>2. QED
      BY <1>g, <2>3, <3>1 DEF LastIsLast
  <2>4. QED
    BY <2>2, <2>3
<1>8. CleanClose(c)'
  BY <1>a, <1>t, <1>g DEF Good, CleanClose
<1>9. OneSender(c)' /\ Callbacks(c)'
  BY DEF Good, OneSender, Callbacks
<1>10. Good(c)'
  BY <1>3, <1>4, <1>5, <1>6, <1>7, <1>8, <1>9 DEF Good
<1>11. QED
  BY <1>1, <1>2, <1>10, Frame

LEMMA ForwardToNobodyKeeps ==
  ASSUME Inv, NEW c \in Conns, ForwardToNobody(c)
  PROVE  Inv'
<1> USE ServerAssumption DEF Inv, TypeOK, ForwardToNobody, EndTask, serverVars
<1>a. /\ chan' \in [Conns -> Seq({"line", "end"})]
      /\ \A d \in Conns : Len(chan'[d]) <= Capacity
      /\ \A d \in Conns \ {c} : chan'[d] = chan[d]
      /\ Len(chan'[c]) \in Nat /\ Len(chan[c]) \in Nat
      /\ Len(chan'[c]) = 0 \/ Len(chan'[c]) = Len(chan[c]) - 1
      /\ \A i \in 1 .. Len(chan'[c]) :
           i + 1 \in 1 .. Len(chan[c]) /\ chan'[c][i] = chan[c][i + 1]
  <2>1. CASE EndTask(c)
    BY <2>1
  <2>2. CASE chan' = [chan EXCEPT ![c] = Tail(@)]
    BY <2>2, TakeEffect
  <2>3. QED
    BY <2>1, <2>2
<1>1. TypeOK'
  BY <1>a
<1>2. \A d \in Conns \ {c} : Same(d)
  BY <1>a DEF Same, Up
<1>3. Undispatched(c)'
  BY <1>a DEF Good, Undispatched, Up
<1>4. Closed(c)'
  BY <1>a DEF Good, Closed, Live, Undispatched, Up
<1>5. NotYet(c)'
  <2>1. /\ NotYet(c) /\ got' = got /\ job' = job
        /\ task'[c] = "forwarding" => task[c] = "forwarding"
    BY DEF Good
  <2> HIDE DEF Inv, TypeOK, ForwardToNobody
  <2>2. QED
    BY <1>a, <2>1 DEF NotYet
<1>6. Answered(c)'
  BY <1>a DEF Good, Answered, After
<1>7. LastIsLast(c)'
  <2>1. LastIsLast(c) /\ got' = got /\ chan[c] # <<>>
    BY DEF Good
  <2> HIDE DEF Inv, TypeOK, ForwardToNobody
  <2>2. ASSUME NEW i \in 1 .. Len(chan'[c]), chan'[c][i] = "end"
        PROVE  i = Len(chan'[c])
    <3>1. i + 1 = Len(chan[c])
      BY <1>a, <2>1, <2>2 DEF LastIsLast
    <3>2. QED
      BY <1>a, <2>2, <3>1
  <2>3. QED
    BY <2>1, <2>2 DEF LastIsLast
<1>8. CleanClose(c)'
  BY <1>a DEF Good, CleanClose
<1>9. OneSender(c)' /\ Callbacks(c)'
  BY DEF Good, OneSender, Callbacks
<1>10. Good(c)'
  BY <1>3, <1>4, <1>5, <1>6, <1>7, <1>8, <1>9 DEF Good
<1>11. QED
  BY <1>1, <1>2, <1>10, Frame

LEMMA ForwardEndsKeeps ==
  ASSUME Inv, NEW c \in Conns, ForwardEnds(c)
  PROVE  Inv'
<1> USE ServerAssumption DEF Inv, TypeOK, ForwardEnds, EndTask, serverVars,
   SenderAlive
<1>1. TypeOK'
  OBVIOUS
<1>2. \A d \in Conns \ {c} : Same(d)
  BY DEF Same, Up
<1>3. Undispatched(c)'
  BY DEF Good, Undispatched, Up
<1>4. Closed(c)'
  BY DEF Good, Closed, Live, Undispatched, Up
<1>5. NotYet(c)'
  BY DEF Good, NotYet, Before
<1>6. Answered(c)'
  BY DEF Good, Answered, After
<1>7. LastIsLast(c)'
  BY DEF Good, LastIsLast
<1>8. CleanClose(c)'
  <2>1. got' = got /\ (sock'[c] = "closed" => sock[c] = "waiting")
    BY DEF Good, Closed, Live
  <2>2. job[c].pc \in After
    BY DEF Good, Closed, After, JobState
  <2>3. got[c] = "end" \/ sock[c] = "left"
    BY <2>2 DEF Good, Answered
  <2>4. QED
    BY <2>1, <2>3 DEF CleanClose
<1>9. OneSender(c)' /\ Callbacks(c)'
  BY DEF Good, OneSender, Callbacks
<1>10. Good(c)'
  BY <1>3, <1>4, <1>5, <1>6, <1>7, <1>8, <1>9 DEF Good
<1>11. QED
  BY <1>1, <1>2, <1>10, Frame

LEMMA SendLineKeeps ==
  ASSUME Inv, NEW c \in Conns, SendLine(c)
  PROVE  Inv'
<1> USE ServerAssumption DEF Inv, TypeOK, SendLine, JobAt, serverVars
<1>s. /\ chan' \in [Conns -> Seq({"line", "end"})]
      /\ \A d \in Conns : Len(chan'[d]) <= Capacity
      /\ \A d \in Conns \ {c} : chan'[d] = chan[d]
      /\ task[c] # "forwarding" => chan'[c] = <<>>
      /\ Len(chan[c]) \in Nat
      /\ task[c] = "forwarding" =>
           /\ chan'[c] # <<>>
           /\ Len(chan'[c]) = Len(chan[c]) + 1
           /\ chan'[c][Len(chan'[c])] = "line"
           /\ \A i \in 1 .. Len(chan'[c]) :
                \/ i = Len(chan'[c])
                \/ i \in 1 .. Len(chan[c]) /\ chan'[c][i] = chan[c][i]
  BY SendEffect
<1>j. /\ job' \in [Conns -> JobState]
      /\ \A d \in Conns \ {c} : job'[d] = job[d]
      /\ job'[c].pc = "running"
  BY DEF JobState
<1>1. TypeOK'
  BY <1>s, <1>j DEF JobState
<1>2. \A d \in Conns \ {c} : Same(d)
  BY <1>s, <1>j DEF Same, Up
<1>3. Undispatched(c)'
  BY <1>s, <1>j DEF Good, Undispatched, JobState, Up
<1>4. Closed(c)'
  BY <1>s, <1>j DEF Good, Closed, JobState, Live, Undispatched, Up
<1>5. OneSender(c)'
  BY <1>s, <1>j DEF Good, OneSender, JobState
<1>6. Callbacks(c)'
  BY <1>s, <1>j DEF Good, Callbacks, JobState
<1>7. NotYet(c)'
  <2>1. NotYet(c) /\ got' = got /\ task' = task /\ job[c].pc = "running"
    BY DEF Good, OneSender
  <2> HIDE DEF Inv, TypeOK, SendLine
  <2>2. QED
    BY <1>s, <1>j, <2>1 DEF NotYet, Before
<1>8. Answered(c)'
  BY <1>s, <1>j DEF Good, Answered, JobState, After
<1>9. LastIsLast(c)'
  <2>1. /\ NotYet(c) /\ LastIsLast(c)
        /\ got' = got /\ task' = task /\ job[c].pc = "running"
    BY DEF Good, OneSender
  <2> HIDE DEF Inv, TypeOK, SendLine
  <2>2. CASE task[c] = "forwarding"
    BY <1>s, <2>1, <2>2 DEF NotYet, LastIsLast, Before
  <2>3. CASE task[c] # "forwarding"
    <3>1. Len(chan'[c]) = 0 /\ chan'[c] = <<>>
      BY <1>s, <2>3
    <3>2. QED
      BY <2>1, <3>1 DEF LastIsLast
  <2>4. QED
    BY <2>2, <2>3
<1>10. CleanClose(c)'
  BY DEF Good, CleanClose
<1>11. Good(c)'
  BY <1>3, <1>4, <1>5, <1>6, <1>7, <1>8, <1>9, <1>10 DEF Good
<1>12. QED
  BY <1>1, <1>2, <1>11, Frame

LEMMA SendEndKeeps ==
  ASSUME Inv, NEW c \in Conns, SendEnd(c)
  PROVE  Inv'
<1> USE ServerAssumption DEF Inv, TypeOK, SendEnd, JobAt, JobGoto, serverVars
<1>s. /\ chan' \in [Conns -> Seq({"line", "end"})]
      /\ \A d \in Conns : Len(chan'[d]) <= Capacity
      /\ \A d \in Conns \ {c} : chan'[d] = chan[d]
      /\ task[c] # "forwarding" => chan'[c] = <<>>
      /\ Len(chan[c]) \in Nat
      /\ task[c] = "forwarding" =>
           /\ chan'[c] # <<>>
           /\ Len(chan'[c]) = Len(chan[c]) + 1
           /\ chan'[c][Len(chan'[c])] = "end"
           /\ \A i \in 1 .. Len(chan'[c]) :
                \/ i = Len(chan'[c])
                \/ i \in 1 .. Len(chan[c]) /\ chan'[c][i] = chan[c][i]
  BY SendEffect
<1>j. /\ job' \in [Conns -> JobState]
      /\ \A d \in Conns \ {c} : job'[d] = job[d]
      /\ job'[c].pc \in {"notify", "return"}
  BY DEF JobState
<1>1. TypeOK'
  BY <1>s, <1>j DEF JobState
<1>2. \A d \in Conns \ {c} : Same(d)
  BY <1>s, <1>j DEF Same, Up
<1>3. Undispatched(c)'
  BY <1>s, <1>j DEF Good, Undispatched, JobState, Up
<1>4. Closed(c)'
  BY <1>s, <1>j DEF Good, Closed, JobState, Live, Undispatched, Up
<1>5. OneSender(c)'
  BY <1>s, <1>j DEF Good, OneSender, JobState
<1>6. Callbacks(c)'
  BY <1>s, <1>j DEF Good, Callbacks, JobState
<1>7. NotYet(c)'
  BY <1>s, <1>j DEF Good, NotYet, JobState, Before
<1>8. Answered(c)'
  BY <1>s, <1>j DEF Good, Answered, JobState, After
<1>9. LastIsLast(c)'
  <2>1. /\ NotYet(c) /\ LastIsLast(c)
        /\ got' = got /\ task' = task /\ job[c].pc = "running"
    BY DEF Good, OneSender
  <2> HIDE DEF Inv, TypeOK, SendEnd
  <2>2. CASE task[c] = "forwarding"
    BY <1>s, <2>1, <2>2 DEF NotYet, LastIsLast, Before
  <2>3. CASE task[c] # "forwarding"
    <3>1. Len(chan'[c]) = 0 /\ chan'[c] = <<>>
      BY <1>s, <2>3
    <3>2. QED
      BY <2>1, <3>1 DEF LastIsLast
  <2>4. QED
    BY <2>2, <2>3
<1>10. CleanClose(c)'
  BY DEF Good, CleanClose
<1>11. Good(c)'
  BY <1>3, <1>4, <1>5, <1>6, <1>7, <1>8, <1>9, <1>10 DEF Good
<1>12. QED
  BY <1>1, <1>2, <1>11, Frame

LEMMA NotifyShutdownKeeps ==
  ASSUME Inv, NEW c \in Conns, NotifyShutdown(c)
  PROVE  Inv'
<1> USE ServerAssumption DEF Inv, TypeOK, NotifyShutdown, JobAt, JobGoto
<1>1. TypeOK'
  BY DEF JobState
<1>2. \A d \in Conns \ {c} : Same(d)
  BY DEF Same, Up
<1>3. Undispatched(c)'
  BY DEF Good, Undispatched, JobState, Up
<1>4. Closed(c)'
  BY DEF Good, Closed, JobState, Live, Undispatched, Up
<1>5. OneSender(c)'
  BY DEF Good, OneSender, JobState
<1>6. Callbacks(c)'
  BY DEF Good, Callbacks, JobState
<1>7. NotYet(c)'
  BY DEF Good, NotYet, JobState, Before
<1>8. Answered(c)'
  BY DEF Good, Answered, JobState, After
<1>9. LastIsLast(c)' /\ CleanClose(c)'
  BY DEF Good, LastIsLast, CleanClose
<1>10. Good(c)'
  BY <1>3, <1>4, <1>5, <1>6, <1>7, <1>8, <1>9 DEF Good
<1>11. QED
  BY <1>1, <1>2, <1>10, Frame

LEMMA DropSenderKeeps ==
  ASSUME Inv, NEW c \in Conns, DropSender(c)
  PROVE  Inv'
<1> USE ServerAssumption DEF Inv, TypeOK, DropSender, JobAt, JobGoto,
   serverVars
<1>1. TypeOK'
  BY DEF JobState
<1>2. \A d \in Conns \ {c} : Same(d)
  BY DEF Same, Up
<1>3. Undispatched(c)'
  BY DEF Good, Undispatched, JobState, Up
<1>4. Closed(c)'
  BY DEF Good, Closed, JobState, Live, Undispatched, Up
<1>5. OneSender(c)'
  BY DEF Good, OneSender, JobState
<1>6. Callbacks(c)'
  BY DEF Good, Callbacks, JobState
<1>7. NotYet(c)'
  BY DEF Good, NotYet, JobState, Before
<1>8. Answered(c)'
  BY DEF Good, Answered, JobState, After
<1>9. LastIsLast(c)' /\ CleanClose(c)'
  BY DEF Good, LastIsLast, CleanClose
<1>10. Good(c)'
  BY <1>3, <1>4, <1>5, <1>6, <1>7, <1>8, <1>9 DEF Good
<1>11. QED
  BY <1>1, <1>2, <1>10, Frame

LEMMA DropNodeKeeps ==
  ASSUME Inv, NEW c \in Conns, DropNode(c)
  PROVE  Inv'
<1> USE ServerAssumption DEF Inv, TypeOK, DropNode, JobAt, JobGoto, serverVars
<1>1. TypeOK'
  BY DEF JobState
<1>2. \A d \in Conns \ {c} : Same(d)
  BY DEF Same, Up
<1>3. Undispatched(c)'
  BY DEF Good, Undispatched, JobState, Up
<1>4. Closed(c)'
  BY DEF Good, Closed, JobState, Live, Undispatched, Up
<1>5. OneSender(c)'
  BY DEF Good, OneSender, JobState
<1>6. Callbacks(c)'
  BY DEF Good, Callbacks, JobState
<1>7. NotYet(c)'
  BY DEF Good, NotYet, JobState, Before
<1>8. Answered(c)'
  BY DEF Good, Answered, JobState, After
<1>9. LastIsLast(c)' /\ CleanClose(c)'
  BY DEF Good, LastIsLast, CleanClose
<1>10. Good(c)'
  BY <1>3, <1>4, <1>5, <1>6, <1>7, <1>8, <1>9 DEF Good
<1>11. QED
  BY <1>1, <1>2, <1>10, Frame

LEMMA StartDownloadKeeps ==
  ASSUME Inv, NEW c \in Conns, StartDownload(c)
  PROVE  Inv'
<1> USE ServerAssumption DEF Inv, TypeOK, StartDownload, JobAt, serverVars
<1>1. TypeOK'
  BY DEF JobState
<1>2. \A d \in Conns \ {c} : Same(d)
  BY DEF Same, Up
<1>3. Undispatched(c)'
  BY DEF Good, Undispatched, JobState, Up
<1>4. Closed(c)'
  BY DEF Good, Closed, JobState, Live, Undispatched, Up
<1>5. OneSender(c)'
  BY DEF Good, OneSender, JobState
<1>6. Callbacks(c)'
  BY DEF Good, Callbacks, JobState
<1>7. NotYet(c)'
  BY DEF Good, NotYet, JobState, Before
<1>8. Answered(c)'
  BY DEF Good, Answered, JobState, After
<1>9. LastIsLast(c)' /\ CleanClose(c)'
  BY DEF Good, LastIsLast, CleanClose
<1>10. Good(c)'
  BY <1>3, <1>4, <1>5, <1>6, <1>7, <1>8, <1>9 DEF Good
<1>11. QED
  BY <1>1, <1>2, <1>10, Frame

LEMMA ProgressCallbackKeeps ==
  ASSUME Inv, NEW c \in Conns, ProgressCallback(c)
  PROVE  Inv'
<1> USE ServerAssumption DEF Inv, TypeOK, ProgressCallback, JobAt, serverVars
<1>j. /\ job[c].left \in 1 .. MaxLines /\ pending[c] \in 0 .. MaxLines
      /\ job[c].left + pending[c] <= MaxLines
  BY DEF JobState, Good, Callbacks
<1>p. /\ job' \in [Conns -> JobState]
      /\ \A d \in Conns \ {c} : job'[d] = job[d]
      /\ job'[c].pc = "fetching" /\ job'[c].left = job[c].left - 1
  BY <1>j DEF JobState
<1>q. /\ pending[c] + 1 \in 0 .. MaxLines
      /\ pending' = [pending EXCEPT ![c] = pending[c] + 1]
      /\ pending'[c] = pending[c] + 1
  BY <1>j
<1>1. TypeOK'
  BY <1>j, <1>p, <1>q DEF JobState
<1>2. \A d \in Conns \ {c} : Same(d)
  BY <1>j, <1>p, <1>q DEF Same, Up
<1>3. Undispatched(c)'
  BY <1>j, <1>p, <1>q DEF Good, Undispatched, JobState, Up
<1>4. Closed(c)'
  BY <1>j, <1>p, <1>q DEF Good, Closed, JobState, Live, Undispatched, Up
<1>5. OneSender(c)'
  BY <1>j, <1>p, <1>q DEF Good, OneSender, JobState
<1>6. Callbacks(c)'
  BY <1>j, <1>p, <1>q DEF Good, Callbacks, JobState
<1>7. NotYet(c)'
  BY <1>j, <1>p, <1>q DEF Good, NotYet, JobState, Before
<1>8. Answered(c)'
  BY <1>j, <1>p, <1>q DEF Good, Answered, JobState, After
<1>9. LastIsLast(c)' /\ CleanClose(c)'
  BY DEF Good, LastIsLast, CleanClose
<1>10. Good(c)'
  BY <1>3, <1>4, <1>5, <1>6, <1>7, <1>8, <1>9 DEF Good
<1>11. QED
  BY <1>1, <1>2, <1>10, Frame

LEMMA DownloadEndsKeeps ==
  ASSUME Inv, NEW c \in Conns, DownloadEnds(c)
  PROVE  Inv'
<1> USE ServerAssumption DEF Inv, TypeOK, DownloadEnds, JobAt, serverVars
<1>1. TypeOK'
  BY DEF JobState
<1>2. \A d \in Conns \ {c} : Same(d)
  BY DEF Same, Up
<1>3. Undispatched(c)'
  BY DEF Good, Undispatched, JobState, Up
<1>4. Closed(c)'
  BY DEF Good, Closed, JobState, Live, Undispatched, Up
<1>5. OneSender(c)'
  BY DEF Good, OneSender, JobState
<1>6. Callbacks(c)'
  BY DEF Good, Callbacks, JobState
<1>7. NotYet(c)'
  BY DEF Good, NotYet, JobState, Before
<1>8. Answered(c)'
  BY DEF Good, Answered, JobState, After
<1>9. LastIsLast(c)' /\ CleanClose(c)'
  BY DEF Good, LastIsLast, CleanClose
<1>10. Good(c)'
  BY <1>3, <1>4, <1>5, <1>6, <1>7, <1>8, <1>9 DEF Good
<1>11. QED
  BY <1>1, <1>2, <1>10, Frame

LEMMA JoinProgressKeeps ==
  ASSUME Inv, NEW c \in Conns, JoinProgress(c)
  PROVE  Inv'
<1> USE ServerAssumption DEF Inv, TypeOK, JoinProgress, JobAt, serverVars
<1>1. TypeOK'
  BY DEF JobState
<1>2. \A d \in Conns \ {c} : Same(d)
  BY DEF Same, Up
<1>3. Undispatched(c)'
  BY DEF Good, Undispatched, JobState, Up
<1>4. Closed(c)'
  BY DEF Good, Closed, JobState, Live, Undispatched, Up
<1>5. OneSender(c)'
  BY DEF Good, OneSender, JobState
<1>6. Callbacks(c)'
  BY DEF Good, Callbacks, JobState
<1>7. NotYet(c)'
  BY DEF Good, NotYet, JobState, Before
<1>8. Answered(c)'
  BY DEF Good, Answered, JobState, After
<1>9. LastIsLast(c)' /\ CleanClose(c)'
  BY DEF Good, LastIsLast, CleanClose
<1>10. Good(c)'
  BY <1>3, <1>4, <1>5, <1>6, <1>7, <1>8, <1>9 DEF Good
<1>11. QED
  BY <1>1, <1>2, <1>10, Frame

LEMMA SendProgressKeeps ==
  ASSUME Inv, NEW c \in Conns, SendProgress(c)
  PROVE  Inv'
<1> USE ServerAssumption DEF Inv, TypeOK, SendProgress, serverVars
<1>s. /\ chan' \in [Conns -> Seq({"line", "end"})]
      /\ \A d \in Conns : Len(chan'[d]) <= Capacity
      /\ \A d \in Conns \ {c} : chan'[d] = chan[d]
      /\ task[c] # "forwarding" => chan'[c] = <<>>
      /\ Len(chan[c]) \in Nat
      /\ task[c] = "forwarding" =>
           /\ chan'[c] # <<>>
           /\ Len(chan'[c]) = Len(chan[c]) + 1
           /\ chan'[c][Len(chan'[c])] = "line"
           /\ \A i \in 1 .. Len(chan'[c]) :
                \/ i = Len(chan'[c])
                \/ i \in 1 .. Len(chan[c]) /\ chan'[c][i] = chan[c][i]
  BY SendEffect
<1>p. /\ pending[c] \in 1 .. MaxLines /\ pending[c] - 1 \in 0 .. MaxLines
      /\ pending' = [pending EXCEPT ![c] = pending[c] - 1]
      /\ pending'[c] = pending[c] - 1
      /\ pending' \in [Conns -> 0 .. MaxLines]
  OBVIOUS
<1>1. TypeOK'
  BY <1>s, <1>p 
<1>2. \A d \in Conns \ {c} : Same(d)
  BY <1>s, <1>p DEF Same, Up
<1>3. Closed(c)'
  BY <1>s, <1>p DEF Good, Closed, Live, Undispatched, Up
<1>4. Callbacks(c)'
  BY <1>s, <1>p DEF Good, Callbacks, JobState
<1>5. NotYet(c)'
  <2>1. NotYet(c) /\ got' = got /\ task' = task /\ job[c].pc \in {"fetching", "joining"}
    BY DEF Good, OneSender
  <2> HIDE DEF Inv, TypeOK, SendProgress
  <2>2. QED
    BY <1>s, <2>1 DEF NotYet, Before
<1>6. Answered(c)'
  BY <1>s, <1>p DEF Good, Answered, OneSender, JobState, After
<1>7. LastIsLast(c)'
  <2>1. /\ NotYet(c) /\ LastIsLast(c)
        /\ got' = got /\ task' = task /\ job[c].pc \in {"fetching", "joining"}
    BY DEF Good, OneSender
  <2> HIDE DEF Inv, TypeOK, SendProgress
  <2>2. CASE task[c] = "forwarding"
    BY <1>s, <2>1, <2>2 DEF NotYet, LastIsLast, Before
  <2>3. CASE task[c] # "forwarding"
    <3>1. Len(chan'[c]) = 0 /\ chan'[c] = <<>>
      BY <1>s, <2>3
    <3>2. QED
      BY <2>1, <3>1 DEF LastIsLast
  <2>4. QED
    BY <2>2, <2>3
<1>8. Undispatched(c)' /\ OneSender(c)' /\ CleanClose(c)'
  BY DEF Good, Undispatched, OneSender, CleanClose, Up
<1>9. Good(c)'
  BY <1>3, <1>4, <1>5, <1>6, <1>7, <1>8 DEF Good
<1>10. QED
  BY <1>1, <1>2, <1>9, Frame

LEMMA ProgressEndsKeeps ==
  ASSUME Inv, NEW c \in Conns, ProgressEnds(c)
  PROVE  Inv'
<1> USE ServerAssumption DEF Inv, TypeOK, ProgressEnds, JobAt, serverVars
<1>1. TypeOK'
  OBVIOUS
<1>2. \A d \in Conns \ {c} : Same(d)
  BY DEF Same, Up
<1>3. Undispatched(c)'
  BY DEF Good, Undispatched, Up
<1>4. OneSender(c)'
  BY DEF Good, OneSender
<1>5. Callbacks(c)'
  BY DEF Good, Callbacks
<1>6. Closed(c)' /\ NotYet(c)'
  BY DEF Good, Closed, NotYet, Live
<1>7. Answered(c)' /\ LastIsLast(c)' /\ CleanClose(c)'
  BY DEF Good, Answered, LastIsLast, CleanClose
<1>8. Good(c)'
  BY <1>3, <1>4, <1>5, <1>6, <1>7 DEF Good
<1>9. QED
  BY <1>1, <1>2, <1>8, Frame

LEMMA AcceptKeeps ==
  ASSUME Inv, NEW c \in Conns, Accept(c)
  PROVE  Inv'
<1> USE ServerAssumption DEF Inv, TypeOK, Accept
<1>1. TypeOK'
  OBVIOUS
<1>2. \A d \in Conns \ {c} : Same(d)
  BY DEF Same, Up
<1>3. Undispatched(c)'
  BY DEF Good, Undispatched, Up
<1>4. Closed(c)'
  BY DEF Good, Closed, Live, Undispatched, Up
<1>5. NotYet(c)'
  BY DEF Good, NotYet, Before
<1>6. Answered(c)'
  BY DEF Good, Answered, After
<1>7. CleanClose(c)'
  BY DEF Good, CleanClose
<1>8. OneSender(c)' /\ Callbacks(c)' /\ LastIsLast(c)'
  BY DEF Good, OneSender, Callbacks, LastIsLast
<1>9. Good(c)'
  BY <1>3, <1>4, <1>5, <1>6, <1>7, <1>8 DEF Good
<1>10. QED
  BY <1>1, <1>2, <1>9, Frame

LEMMA AbortTaskKeeps ==
  ASSUME Inv, NEW c \in Conns, AbortTask(c)
  PROVE  Inv'
<1> USE ServerAssumption DEF Inv, TypeOK, AbortTask, serverVars, Live
<1>1. TypeOK'
  OBVIOUS
<1>2. \A d \in Conns \ {c} : Same(d)
  BY DEF Same, Up
<1>3. Undispatched(c)'
  BY DEF Good, Undispatched, Up
<1>4. Closed(c)'
  BY DEF Good, Closed, Live, Undispatched, Up
<1>5. NotYet(c)'
  BY DEF Good, NotYet, Before
<1>6. Answered(c)'
  BY DEF Good, Answered, After
<1>7. LastIsLast(c)'
  BY DEF Good, LastIsLast
<1>8. CleanClose(c)'
  BY DEF Good, CleanClose
<1>9. OneSender(c)' /\ Callbacks(c)'
  BY DEF Good, OneSender, Callbacks
<1>10. Good(c)'
  BY <1>3, <1>4, <1>5, <1>6, <1>7, <1>8, <1>9 DEF Good
<1>11. QED
  BY <1>1, <1>2, <1>10, Frame

-----------------------------------------------------------------------------
(* The accept loop, and the end of the process. *)

LEMMA ServerKeeps ==
  ASSUME Inv, Loop \/ StartDrain \/ DrainTimeout
  PROVE  Inv'
<1>1. TypeOK'
  BY DEF Inv, TypeOK, Loop, StartDrain, DrainTimeout
<1>2. /\ UNCHANGED <<sock, line, task, job, prog, pending, chan, got>>
      /\ Up' => Up
  BY DEF Loop, StartDrain, DrainTimeout, Up
<1>3. ASSUME NEW c \in Conns PROVE Good(c)'
  <2>1. Good(c)
    BY DEF Inv
  <2>2. QED
    BY <1>2, <2>1 DEF Live, Good, Undispatched, Closed, OneSender, Callbacks,
       NotYet, Answered, LastIsLast, CleanClose
<1>4. QED
  BY <1>1, <1>3 DEF Inv

LEMMA ExitKeeps ==
  ASSUME Inv, UnwrapNode \/ AcceptFails
  PROVE  Inv'
<1>1. PICK outcome \in {"panicked", "stopped", "failed"} : Exit(outcome)
  BY DEF UnwrapNode, AcceptFails
<1>2. TypeOK'
  <2>1. /\ sock' \in [Conns -> {"none", "waiting", "stalled", "left", "closed"}]
        /\ task' \in [Conns -> {"none", "reading", "forwarding", "ended", "aborted"}]
        /\ prog' \in [Conns -> {"none", "running", "ended"}]
        /\ pending' \in [Conns -> 0 .. MaxLines]
    BY <1>1, ServerAssumption DEF Exit, Inv, TypeOK
  <2>2. job' \in [Conns -> JobState]
    BY <1>1, ServerAssumption DEF Exit, Inv, TypeOK, JobState, JobAt
  <2>3. chan' \in [Conns -> Seq({"line", "end"})] /\ \A c \in Conns : chan'[c] = <<>>
    BY <1>1 DEF Exit
  <2>4. \A c \in Conns : Len(chan'[c]) <= Capacity
    BY <2>3, ServerAssumption
  <2>5. QED
    BY <1>1, <2>1, <2>2, <2>3, <2>4 DEF Exit, Inv, TypeOK
<1>3. ASSUME NEW c \in Conns PROVE Good(c)'
  <2>1. /\ Good(c) /\ ~Up'
        /\ line'[c] = line[c] /\ got'[c] = got[c] /\ chan'[c] = <<>>
        /\ pending'[c] = 0
        /\ task'[c] = IF Live(c) THEN "aborted" ELSE task[c]
        /\ prog'[c] = IF prog[c] = "none" THEN "none" ELSE "ended"
        /\ sock'[c] = IF sock[c] = "waiting" THEN "closed" ELSE sock[c]
        /\ job'[c].pc = IF job[c].pc = "none" THEN "none" ELSE "ended"
    BY <1>1 DEF Exit, Inv, JobAt, Up
  <2>2. Undispatched(c)' /\ Closed(c)'
    BY <2>1 DEF Good, Undispatched, Closed, Live
  <2>3. OneSender(c)' /\ Callbacks(c)'
    BY <2>1 DEF Good, OneSender, Callbacks
  <2>4. NotYet(c)' /\ Answered(c)'
    BY <2>1 DEF Good, NotYet, Answered, Live
  <2>5. Len(chan'[c]) = 0
    BY <2>1
  <2>6. LastIsLast(c)'
    BY <2>1, <2>5 DEF Good, LastIsLast
  <2>7. CleanClose(c)'
    BY <2>1 DEF Good, CleanClose, Closed, Live
  <2>8. QED
    BY <2>2, <2>3, <2>4, <2>6, <2>7 DEF Good
<1>4. QED
  BY <1>2, <1>3 DEF Inv

-----------------------------------------------------------------------------
(* The theorems. *)

LEMMA InitInv == Init => Inv
<1> SUFFICES ASSUME Init PROVE Inv
  OBVIOUS
<1>1. TypeOK
  <2>1. /\ 0 \in 0 .. MaxLines
        /\ [pc |-> "none", left |-> 0] \in JobState
    BY ServerAssumption DEF JobState
  <2>2. job \in [Conns -> JobState] /\ pending \in [Conns -> 0 .. MaxLines]
    BY <2>1 DEF Init
  <2>3. /\ chan \in [Conns -> Seq({"line", "end"})]
        /\ \A c \in Conns : chan[c] = <<>>
    BY DEF Init
  <2>4. ASSUME NEW c \in Conns PROVE Len(chan[c]) <= Capacity
    <3>1. Len(chan[c]) = 0
      BY <2>3
    <3>2. QED
      BY <3>1, ServerAssumption
  <2>5. QED
    BY <2>2, <2>3, <2>4 DEF Init, TypeOK
<1>2. ASSUME NEW c \in Conns PROVE Good(c)
  <2>1. Len(chan[c]) = 0
    BY DEF Init
  <2>2. QED
    BY <2>1, ServerAssumption DEF Init, Live, Good, Undispatched, Closed, OneSender,
       Callbacks, NotYet, Answered, After, Before, LastIsLast, CleanClose
<1>3. QED
  BY <1>1, <1>2 DEF Inv

LEMMA NextInv == Inv /\ [Next]_vars => Inv'
<1> SUFFICES ASSUME Inv, [Next]_vars PROVE Inv'
  OBVIOUS
<1>1. ASSUME NEW c \in Conns, ClientStep(c) PROVE Inv'
  BY <1>1, ConnectKeeps, WriteLineKeeps, StallKeeps, LeaveKeeps DEF ClientStep
<1>2. ASSUME NEW c \in Conns, TaskStep(c) PROVE Inv'
  BY <1>2, ReadNothingKeeps, ReadRefusedKeeps, SpawnDispatchKeeps, ForwardKeeps,
     ForwardToNobodyKeeps, ForwardEndsKeeps DEF TaskStep
<1>3. ASSUME NEW c \in Conns, JobStep(c) PROVE Inv'
  BY <1>3, SendLineKeeps, SendEndKeeps, NotifyShutdownKeeps, DropSenderKeeps,
     DropNodeKeeps, StartDownloadKeeps, DownloadEndsKeeps, JoinProgressKeeps
     DEF JobStep
<1>4. ASSUME NEW c \in Conns,
             ProgressCallback(c) \/ ProgressStep(c) \/ Accept(c) \/ AbortTask(c)
      PROVE  Inv'
  BY <1>4, ProgressCallbackKeeps, SendProgressKeeps, ProgressEndsKeeps,
     AcceptKeeps, AbortTaskKeeps DEF ProgressStep
<1>5. CASE UNCHANGED vars
  <2>1. TypeOK' /\ Up' = Up
    BY <1>5 DEF vars, serverVars, Inv, TypeOK, Up
  <2>2. ASSUME NEW c \in Conns PROVE Good(c)'
    <3>1. Good(c)
      BY DEF Inv
    <3>2. QED
      BY <1>5, <2>1, <3>1 DEF vars, Live, Good, Undispatched, Closed, OneSender,
         Callbacks, NotYet, Answered, LastIsLast, CleanClose
  <2>3. QED
    BY <2>1, <2>2 DEF Inv
<1>6. QED
  BY <1>1, <1>2, <1>3, <1>4, <1>5, ServerKeeps, ExitKeeps DEF Next

LEMMA InvHolds == Spec => []Inv
  BY InitInv, NextInv, PTL DEF Spec

\* The variables of the server keep their types and the event channel its
\* capacity.
THEOREM ServerTypeHolds == Spec => []TypeOK
<1>1. Inv => TypeOK
  BY DEF Inv
<1>2. QED
  BY <1>1, InvHolds, PTL

\* Done or Error is the last event of a request, although the progress task of
\* a receive sends into the same channel (handle_receive, dispatch).
THEOREM TerminalLastHolds == Spec => []TerminalLast
<1>1. Inv => TerminalLast
  BY DEF Inv, Good, LastIsLast, TerminalLast
<1>2. QED
  BY <1>1, InvHolds, PTL

\* A connection that the daemon closes of its own accord has had its Done or
\* Error (handle_connection drains the channel first); where it may not have,
\* its line could not be read or was too long, and nothing was dispatched.
THEOREM CleanCloseHolds == Spec => []CleanCloseAnswered
<1>1. Inv => CleanCloseAnswered
  BY DEF Inv, Good, CleanClose, CleanCloseAnswered, JobAt
<1>2. QED
  BY <1>1, InvHolds, PTL
-----------------------------------------------------------------------------
(* Who waits for whom, and why the node can be missing at the end. *)

\* The accept loop has been told to stop, or will be when it next waits.
Heard == permit \/ server \notin {"select", "accepting"}

\* What the handler, its progress task and handle_connection owe each other.
Owed(c) ==
  /\ job[c].pc # "none" => line[c] \in Ops
  /\ job[c].pc = "joining" => prog[c] # "none"
  /\ task[c] = "ended" =>
       job[c].pc \in {"none", "closing", "ended"} \/ sock[c] = "left"
  /\ line[c] = "shutdown" /\ job[c].pc \in {"return", "closing", "ended"} => Heard

Room(c) == task[c] = "forwarding" => Len(chan[c]) < Capacity

\* The guards of the steps of the three tasks of a connection.
JobCanStep(c) ==
  \/ job[c].pc = "running" /\ Room(c)
  \/ job[c].pc \in {"fetching", "notify", "return", "closing"}
  \/ job[c].pc = "joining" /\ prog[c] = "ended"

ProgressCanStep(c) ==
  /\ prog[c] = "running"
  /\ \/ pending[c] > 0 /\ Room(c)
     \/ pending[c] = 0 /\ job[c].pc # "fetching"

TaskCanStep(c) ==
  /\ task[c] = "forwarding"
  /\ \/ chan[c] # <<>> /\ sock[c] \in {"waiting", "left"}
     \/ chan[c] = <<>> /\ ~SenderAlive(c)

\* A request in flight is never stuck in a circle of the handler, the progress
\* task, a full channel and handle_connection: unless its client has stopped
\* reading, one of them can go on.
NoCircularWait ==
  \A c \in Conns :
    \/ task[c] = "forwarding" /\ sock[c] # "stalled"
    \/ task[c] # "forwarding" /\ job[c].pc \notin {"none", "ended"}
    => JobCanStep(c) \/ ProgressCanStep(c) \/ TaskCanStep(c)

\* No shutdown request is lost: when its handler has called notify_one the
\* accept loop has stopped, or a permit is waiting for it.
ShutdownKept ==
  \A c \in Conns :
    line[c] = "shutdown" /\ job[c].pc \in {"return", "closing", "ended"} => Heard

\* What it takes for Arc::try_unwrap to fail: a dispatch task that outlived its
\* connection, because that was aborted, or its client left, or for the one
\* step between the drop of its sender and the drop of its Arc<Node>.
PanicExplained ==
  server' = "panicked" /\ server # "panicked" =>
    \E c \in Conns :
      /\ HoldsNode(c)
      /\ task[c] = "aborted" \/ sock[c] = "left" \/ job[c].pc = "closing"
PanicsExplained == [][PanicExplained]_vars

OwedAll == \A c \in Conns : Owed(c)

LEMMA HeardStays == Inv /\ Heard /\ [Next]_vars => Heard'
<1> SUFFICES ASSUME Inv, Heard, [Next]_vars PROVE Heard'
  OBVIOUS
<1>1. ASSUME NEW c \in Conns, ClientStep(c) \/ TaskStep(c) PROVE Heard'
  BY <1>1 DEF ClientStep, Connect, WriteLine, Stall, Leave, TaskStep, ReadNothing,
     ReadFails, ReadLongLine, ReadBadLine, SpawnDispatch, Forward, ForwardToNobody, ForwardEnds, serverVars, Heard
<1>2. ASSUME NEW c \in Conns, JobStep(c) PROVE Heard'
  BY <1>2 DEF JobStep, SendLine, SendEnd, NotifyShutdown, DropSender, DropNode,
     StartDownload, DownloadEnds, JoinProgress, serverVars, Heard
<1>3. ASSUME NEW c \in Conns,
             ProgressCallback(c) \/ ProgressStep(c) \/ Accept(c) \/ AbortTask(c)
      PROVE  Heard'
  BY <1>3 DEF ProgressCallback, ProgressStep, SendProgress, ProgressEnds, Accept,
     AbortTask, serverVars, Heard
<1>4. CASE Loop \/ StartDrain \/ DrainTimeout \/ UNCHANGED vars
  BY <1>4 DEF Loop, StartDrain, DrainTimeout, vars, serverVars, Heard
<1>5. CASE UnwrapNode \/ AcceptFails
  BY <1>5 DEF UnwrapNode, AcceptFails, Exit, Heard
<1>6. QED
  BY <1>1, <1>2, <1>3, <1>4, <1>5 DEF Next

\* The same connection, seen from another one's step.
LEMMA OwedFrame ==
  ASSUME Inv, OwedAll, NEW c \in Conns, Owed(c)', Heard => Heard',
         \A d \in Conns \ {c} : Same(d)
  PROVE  OwedAll'
<1>1. ASSUME NEW d \in Conns, d # c PROVE Owed(d)'
  BY <1>1 DEF OwedAll, Owed, Same
<1>2. QED
  BY <1>1 DEF OwedAll

LEMMA ClientOwed ==
  ASSUME Inv, OwedAll, NEW c \in Conns, ClientStep(c), Heard => Heard'
  PROVE  OwedAll'
<1> USE DEF Inv, TypeOK
<1>1. \A d \in Conns \ {c} : Same(d)
  BY DEF Same, ClientStep, Connect, WriteLine, Stall, Leave, serverVars, Up
<1>2. Owed(c) /\ Good(c)
  BY DEF OwedAll
<1>3. ASSUME Connect(c) \/ Stall(c) \/ Leave(c) PROVE Owed(c)'
  BY <1>2, <1>3 DEF Connect, Stall, Leave, Owed, Good, Undispatched
<1>4. ASSUME WriteLine(c) PROVE Owed(c)'
  BY <1>2, <1>4, ServerAssumption DEF WriteLine, Owed
<1>5. Owed(c)'
  BY <1>3, <1>4 DEF ClientStep
<1>6. QED
  BY <1>1, <1>5, OwedFrame

LEMMA TaskOwed ==
  ASSUME Inv, OwedAll, NEW c \in Conns, TaskStep(c), Heard => Heard'
  PROVE  OwedAll'
<1> USE DEF Inv, TypeOK
<1>1. \A d \in Conns \ {c} : Same(d)
  BY DEF Same, TaskStep, ReadNothing, ReadFails, ReadLongLine,
     ReadBadLine, SpawnDispatch, Forward, ForwardToNobody, ForwardEnds, EndTask, Sees, serverVars, Up
<1>2. Owed(c) /\ Good(c)
  BY DEF OwedAll
<1>3. ASSUME ReadNothing(c) \/ ReadFails(c) \/ ReadLongLine(c) \/ ReadBadLine(c)
      PROVE  Owed(c)'
  BY <1>2, <1>3 DEF ReadNothing, ReadFails, ReadLongLine, ReadBadLine, EndTask, Owed, Good, Undispatched
<1>4. ASSUME SpawnDispatch(c) PROVE Owed(c)'
  BY <1>2, <1>4 DEF SpawnDispatch, Owed, JobState
<1>5. ASSUME Forward(c) PROVE Owed(c)'
  BY <1>2, <1>5 DEF Forward, Owed
<1>6. ASSUME ForwardToNobody(c) PROVE Owed(c)'
  BY <1>2, <1>6 DEF ForwardToNobody, EndTask, Owed
<1>7. ASSUME ForwardEnds(c) PROVE Owed(c)'
  BY <1>2, <1>7 DEF ForwardEnds, EndTask, SenderAlive, Owed, JobState
<1>8. Owed(c)'
  BY <1>3, <1>4, <1>5, <1>6, <1>7 DEF TaskStep
<1>9. QED
  BY <1>1, <1>8, OwedFrame

LEMMA JobOwed ==
  ASSUME Inv, OwedAll, NEW c \in Conns, JobStep(c), Heard => Heard'
  PROVE  OwedAll'
<1> USE DEF Inv, TypeOK, JobState, JobAt, JobGoto
<1>1. \A d \in Conns \ {c} : Same(d)
  BY DEF Same, JobStep, SendLine, SendEnd, NotifyShutdown, DropSender, DropNode,
     StartDownload, DownloadEnds, JoinProgress, Send, serverVars, Up
<1>2. Owed(c) /\ Good(c)
  BY DEF OwedAll
<1>3. ASSUME SendLine(c) \/ SendEnd(c) PROVE Owed(c)'
  BY <1>2, <1>3 DEF SendLine, SendEnd, Owed
<1>4. ASSUME NotifyShutdown(c) PROVE Owed(c)'
  BY <1>2, <1>4 DEF NotifyShutdown, Owed, Heard
<1>5. ASSUME DropSender(c) \/ DropNode(c) PROVE Owed(c)'
  BY <1>2, <1>5 DEF DropSender, DropNode, Owed
<1>6. ASSUME StartDownload(c) PROVE Owed(c)'
  BY <1>2, <1>6 DEF StartDownload, Owed
<1>7. ASSUME DownloadEnds(c) PROVE Owed(c)'
  BY <1>2, <1>7 DEF DownloadEnds, Owed, Good, Callbacks
<1>8. ASSUME JoinProgress(c) PROVE Owed(c)'
  BY <1>2, <1>8 DEF JoinProgress, Owed
<1>9. Owed(c)'
  BY <1>3, <1>4, <1>5, <1>6, <1>7, <1>8 DEF JobStep
<1>10. QED
  BY <1>1, <1>9, OwedFrame

LEMMA OtherOwed ==
  ASSUME Inv, OwedAll, NEW c \in Conns, Heard => Heard',
         ProgressCallback(c) \/ ProgressStep(c) \/ Accept(c) \/ AbortTask(c)
  PROVE  OwedAll'
<1> USE DEF Inv, TypeOK
<1>1. \A d \in Conns \ {c} : Same(d)
  BY DEF Same, ProgressCallback, ProgressStep, SendProgress, ProgressEnds, Accept,
     AbortTask, Send, serverVars, Up
<1>2. Owed(c) /\ Good(c)
  BY DEF OwedAll
<1>3. ASSUME ProgressCallback(c) PROVE Owed(c)'
  BY <1>2, <1>3 DEF ProgressCallback, JobAt, JobState, Owed
<1>4. ASSUME ProgressStep(c) PROVE Owed(c)'
  BY <1>2, <1>4 DEF ProgressStep, SendProgress, ProgressEnds, Owed
<1>5. ASSUME Accept(c) \/ AbortTask(c) PROVE Owed(c)'
  BY <1>2, <1>5 DEF Accept, AbortTask, Owed, Good, Undispatched, Live
<1>6. Owed(c)'
  BY <1>3, <1>4, <1>5
<1>7. QED
  BY <1>1, <1>6, OwedFrame

LEMMA ExitOwed ==
  ASSUME Inv, OwedAll, UnwrapNode \/ AcceptFails
  PROVE  OwedAll'
<1>1. PICK outcome \in {"panicked", "stopped", "failed"} : Exit(outcome)
  BY DEF UnwrapNode, AcceptFails
<1>2. Heard'
  BY <1>1 DEF Exit, Heard
<1>3. ASSUME NEW c \in Conns PROVE Owed(c)'
  <2>1. /\ Owed(c) /\ line'[c] = line[c]
        /\ task'[c] = IF Live(c) THEN "aborted" ELSE task[c]
        /\ prog'[c] = IF prog[c] = "none" THEN "none" ELSE "ended"
        /\ job'[c].pc = IF job[c].pc = "none" THEN "none" ELSE "ended"
    BY <1>1 DEF Exit, OwedAll, Inv, TypeOK, JobAt
  <2>2. QED
    BY <1>2, <2>1 DEF Owed
<1>4. QED
  BY <1>3 DEF OwedAll

LEMMA OwedHolds == Spec => [](Inv /\ OwedAll)
<1>1. Init => OwedAll
  <2>1. ASSUME Init, NEW c \in Conns PROVE Owed(c)
    <3>1. job[c].pc = "none" /\ task[c] = "none"
      BY <2>1 DEF Init
    <3>2. QED
      BY <3>1 DEF Owed
  <2>2. QED
    BY <2>1 DEF OwedAll
<1>2. Inv /\ OwedAll /\ [Next]_vars => OwedAll'
  <2> SUFFICES ASSUME Inv, OwedAll, [Next]_vars PROVE OwedAll'
    OBVIOUS
  <2>1. Heard => Heard'
    BY HeardStays
  <2>2. CASE Loop \/ StartDrain \/ DrainTimeout \/ UNCHANGED vars
    <3>1. UNCHANGED <<sock, line, task, job, prog>>
      BY <2>2 DEF Loop, StartDrain, DrainTimeout, vars
    <3>2. QED
      BY <2>1, <3>1 DEF OwedAll, Owed
  <2>3. ASSUME NEW c \in Conns,
               \/ ClientStep(c) \/ TaskStep(c) \/ JobStep(c) \/ ProgressCallback(c)
               \/ ProgressStep(c) \/ Accept(c) \/ AbortTask(c)
        PROVE  OwedAll'
    BY <2>1, <2>3, ClientOwed, TaskOwed, JobOwed, OtherOwed
  <2>4. QED
    BY <2>2, <2>3, ExitOwed DEF Next
<1>3. QED
  BY <1>1, <1>2, InvHolds, NextInv, PTL DEF Spec

\* A shutdown request whose handler has returned from notify_one has reached the
\* accept loop, or its permit is still there (server/mod.rs, Op::Shutdown): the
\* safety half of ShutdownHeard.
THEOREM ShutdownKeptHolds == Spec => []ShutdownKept
<1>1. OwedAll => ShutdownKept
  BY DEF OwedAll, Owed, ShutdownKept
<1>2. QED
  BY <1>1, OwedHolds, PTL

\* The tasks of a connection never wait for each other in a circle
\* (handle_receive awaits its progress task, which awaits room in the channel,
\* which handle_connection drains): the safety half of ClientAnswered.
THEOREM NoCircularWaitHolds == Spec => []NoCircularWait
<1>1. Inv /\ OwedAll => NoCircularWait
  <2> SUFFICES ASSUME Inv, OwedAll, NEW c \in Conns,
                      \/ task[c] = "forwarding" /\ sock[c] # "stalled"
                      \/ task[c] # "forwarding" /\ job[c].pc \notin {"none", "ended"}
               PROVE  JobCanStep(c) \/ ProgressCanStep(c) \/ TaskCanStep(c)
    BY DEF NoCircularWait
  <2>1. Good(c) /\ Owed(c)
    BY DEF Inv, OwedAll
  <2>2. /\ job[c].pc \in {"none", "running", "fetching", "joining", "notify",
                          "return", "closing", "ended"}
        /\ prog[c] \in {"none", "running", "ended"}
        /\ sock[c] \in {"none", "waiting", "stalled", "left", "closed"}
        /\ pending[c] \in Nat
    BY ServerAssumption DEF Inv, TypeOK, JobState
  <2>3. chan[c] # <<>> => ~(sock[c] \in {"none", "closed"})
    BY <2>1 DEF Good, Closed, Undispatched, Live
  <2>4. chan[c] = <<>> => Room(c)
    BY ServerAssumption DEF Room
  <2>5. CASE task[c] = "forwarding" /\ chan[c] # <<>> /\ sock[c] # "stalled"
    BY <2>2, <2>3, <2>5 DEF TaskCanStep
  <2>6. CASE task[c] # "forwarding" \/ chan[c] = <<>>
    <3>1. Room(c)
      BY <2>4, <2>6 DEF Room
    <3>2. CASE job[c].pc \in {"running", "fetching", "notify", "return", "closing"}
      BY <3>1, <3>2 DEF JobCanStep
    <3>3. CASE job[c].pc = "joining"
      BY <2>1, <2>2, <3>1, <3>3 DEF Owed, JobCanStep, ProgressCanStep
    <3>4. CASE job[c].pc \in {"none", "ended"}
      BY <2>1, <2>2, <2>6, <3>4 DEF Good, OneSender, SenderAlive, TaskCanStep
    <3>5. QED
      BY <2>2, <3>2, <3>3, <3>4
  <2>7. QED
    BY <2>5, <2>6
<1>2. QED
  BY <1>1, OwedHolds, PTL

\* Every failure of Arc::try_unwrap at the end of `run` is of a dispatch task
\* that is not in the JoinSet and outlives its connection, in one of three ways
\* (the run that expects NoPanic to be violated shows one).
THEOREM PanicsAreExplained == Spec => PanicsExplained
<1>1. Inv /\ OwedAll /\ [Next]_vars => [PanicExplained]_vars
  <2> SUFFICES ASSUME Inv, OwedAll, [Next]_vars,
                      server' = "panicked", server # "panicked"
               PROVE  \E c \in Conns :
                        /\ HoldsNode(c)
                        /\ task[c] = "aborted" \/ sock[c] = "left" \/ job[c].pc = "closing"
    BY DEF PanicExplained
  <2>1. ASSUME NEW c \in Conns, ClientStep(c) \/ TaskStep(c) PROVE server' = server
    BY <2>1 DEF ClientStep, Connect, WriteLine, Stall, Leave, TaskStep, ReadNothing,
       ReadFails, ReadLongLine, ReadBadLine, SpawnDispatch, Forward, ForwardToNobody, ForwardEnds, serverVars
  <2>2. ASSUME NEW c \in Conns, JobStep(c) PROVE server' = server
    BY <2>2 DEF JobStep, SendLine, SendEnd, NotifyShutdown, DropSender, DropNode,
       StartDownload, DownloadEnds, JoinProgress, serverVars
  <2>3. ASSUME NEW c \in Conns,
               ProgressCallback(c) \/ ProgressStep(c) \/ Accept(c) \/ AbortTask(c)
        PROVE  server' # "panicked"
    BY <2>3 DEF ProgressCallback, ProgressStep, SendProgress, ProgressEnds, Accept,
       AbortTask, serverVars
  <2>4. ~(Loop \/ StartDrain \/ DrainTimeout \/ AcceptFails \/ UNCHANGED vars)
    BY DEF Loop, StartDrain, DrainTimeout, AcceptFails, Exit, vars
  <2>5. UnwrapNode
    BY <2>1, <2>2, <2>3, <2>4 DEF Next
  <2>6. PICK c \in Conns : HoldsNode(c) /\ ~Live(c)
    BY <2>5 DEF UnwrapNode, Exit
  <2>7. /\ Good(c) /\ Owed(c)
        /\ task[c] \in {"none", "reading", "forwarding", "ended", "aborted"}
    BY DEF Inv, TypeOK, OwedAll
  <2>8. QED
    BY <2>6, <2>7 DEF HoldsNode, Live, Good, Undispatched, Owed
<1>2. QED
  BY <1>1, OwedHolds, PTL DEF Spec, PanicsExplained
=============================================================================
