----------------------- MODULE LinuxConnectionProofs -----------------------
(***************************************************************************)
(* Proofs about LinuxConnection: data reach the listener in order and are  *)
(* not lost while their connection is the current one, a callback is       *)
(* called once, only callers end a healthy connection, and no task that    *)
(* was stopped reads the current one.  Any number of callers, streams,     *)
(* tasks, callbacks and data.                                              *)
(*                                                                         *)
(* The argument is that a stream is inserted at most once, before any task *)
(* reads it: a stream that is not the current one any more never becomes   *)
(* it again, so a task that was stopped late stops nothing but the past.   *)
(***************************************************************************)
EXTENDS LinuxConnection, FiniteSetTheorems, SequenceTheorems, TLAPS

-----------------------------------------------------------------------------
Places     == {"idle", "stop", "connecting", "insert", "call", "install", "lock", "write"}
TaskPlaces == {"unborn", "top", "wait", "read", "deliver", "teardown", "done"}
Entries  == [stream : Stream \cup {0}, stop : ReadTask \cup {0}, thread : ReadTask \cup {0},
             cb : Callback \cup {0}, listener : BOOLEAN]
Holdings == [stream : Stream \cup {0}, stop : ReadTask \cup {0}, thread : ReadTask \cup {0},
             cb : Callback \cup {0}, next : {"idle", "connecting"}]
Counts   == [streams : 0..MaxStreams, tasks : 0..MaxTasks, callbacks : 0..MaxCallbacks,
             data : 0..MaxData]

\* The callers that are about to call a callback.
Callers(cb) == {c \in Clients : pc[c] = "call" /\ reg[c].cb = cb}

\* One datum is on its way from the stream to the listener, or none is.
Gap(s) == IF InHand(s) = {} THEN 0 ELSE 1

-----------------------------------------------------------------------------
(***************************************************************************)
(* The inductive invariant                                                 *)
(***************************************************************************)
TypeOK ==
    /\ conn \in Entries
    /\ waitingCallback \in Callback \cup {0} /\ waitingListener \in BOOLEAN
    /\ made \in Counts /\ called \in [Callback -> Nat]
    /\ got \in [Stream -> Nat] /\ ended \subseteq Stream
    /\ delivered \in [Stream -> Seq(Nat)]
    /\ tpc \in [ReadTask -> TaskPlaces] /\ reads \in [ReadTask -> Stream \cup {0}]
    /\ hand \in [ReadTask -> Nat]
    /\ flagged \subseteq ReadTask /\ aborted \subseteq ReadTask
    /\ pc \in [Clients -> Places] /\ reg \in [Clients -> Holdings]

\* A callback is called, or in the hands of a single caller, when the connection has
\* it, and neither while it waits; a callback to come is nowhere yet.
Callbacks ==
    \A cb \in Callback :
        /\ called[cb] <= 1
        /\ \A c, d \in Callers(cb) : c = d
        /\ Callers(cb) # {} => called[cb] = 0
        /\ conn.cb = cb => called[cb] = 1 \/ Callers(cb) # {}
        /\ waitingCallback = cb => called[cb] = 0 /\ Callers(cb) = {}
        /\ cb > made.callbacks => /\ called[cb] = 0 /\ Callers(cb) = {}
                                  /\ conn.cb # cb /\ waitingCallback # cb

\* Tasks are numbered as they are spawned.
Spawned ==
    /\ \A t \in ReadTask : /\ tpc[t] = "unborn" <=> t > made.tasks
                           /\ reads[t] = 0 <=> t > made.tasks
    /\ \A t \in flagged \cup aborted : t <= made.tasks
    /\ conn.stop <= made.tasks /\ conn.thread <= made.tasks
    /\ \A c \in Clients : /\ reg[c].stop <= made.tasks /\ reg[c].thread <= made.tasks
                          /\ pc[c] = "install" => reg[c].thread # 0

\* A stream that waits to be inserted is new: no task reads it and it is nobody else's.
NewStreams ==
    /\ conn.stream <= made.streams
    /\ \A t \in ReadTask : reads[t] <= made.streams
    /\ \A c \in Clients : pc[c] = "insert" =>
          /\ reg[c].stream \in Stream /\ reg[c].stream <= made.streams
          /\ reg[c].stream # conn.stream
          /\ \A t \in ReadTask : reads[t] # reg[c].stream
          /\ \A d \in Clients : pc[d] = "insert" /\ reg[d].stream = reg[c].stream => d = c

\* A task that was stopped, or is about to be, does not read the current stream.
Past ==
    /\ \A t \in flagged \cup aborted : reads[t] # conn.stream
    /\ \A c \in Clients : pc[c] = "stop" =>
          \A t \in {reg[c].stop, reg[c].thread} \ {0} : reads[t] # conn.stream

\* A task that is about to tear its connection down saw it end, or is of the past.
Ending ==
    \A t \in ReadTask :
        /\ tpc[t] = "deliver" /\ hand[t] = 0 => reads[t] \in ended
        /\ tpc[t] = "teardown" => reads[t] \in ended \/ reads[t] # conn.stream

\* One task at a time reads or delivers the data of a stream.
Exclusive ==
    \A t, u \in ReadTask :
        /\ {tpc[t], tpc[u]} \subseteq {"read", "deliver"}
        /\ reads[t] = reads[u]
        => t = u

\* What was delivered increases up to what was read, which the task has in hand; of
\* the current stream nothing is missing.
Data ==
    /\ \A s \in Stream : (\A t \in ReadTask : reads[t] # s) => got[s] = 0 /\ delivered[s] = <<>>
    /\ \A s \in Stream : /\ Increasing(delivered[s])
                         /\ \A i \in DOMAIN delivered[s] : delivered[s][i] <= got[s]
    /\ \A s \in Stream : \A t \in InHand(s) :
          /\ hand[t] = got[s]
          /\ \A i \in DOMAIN delivered[s] : delivered[s][i] < hand[t]
    /\ Connected => Len(delivered[conn.stream]) + Gap(conn.stream) = got[conn.stream]

IInv == TypeOK /\ Callbacks /\ Spawned /\ NewStreams /\ Past /\ Ending /\ Exclusive /\ Data

-----------------------------------------------------------------------------
(***************************************************************************)
(* Lemmas about the operators                                              *)
(***************************************************************************)
LEMMA Numbers ==
    /\ \A s \in Stream \cup {0} : s \in Nat
    /\ \A t \in ReadTask \cup {0} : t \in Nat
    /\ \A cb \in Callback \cup {0} : cb \in Nat
    /\ 0 \notin Stream /\ 0 \notin ReadTask /\ 0 \notin Callback
BY BoundsAssumption DEF Stream, ReadTask, Callback

LEMMA EntryFields ==
    ASSUME NEW s \in Stream \cup {0}, NEW cb \in Callback \cup {0}, NEW l \in BOOLEAN
    PROVE  /\ Entry(s, cb, l) \in Entries
           /\ Entry(s, cb, l).stream = s /\ Entry(s, cb, l).cb = cb
           /\ Entry(s, cb, l).stop = 0 /\ Entry(s, cb, l).thread = 0
BY DEF Entry, Entries

LEMMA NoConnFields ==
    /\ NoConn \in Entries /\ NoConn.stream = 0 /\ NoConn.cb = 0
    /\ NoConn.stop = 0 /\ NoConn.thread = 0
BY EntryFields DEF NoConn

LEMMA HoldingFields ==
    ASSUME NEW s \in Stream \cup {0}, NEW stop \in ReadTask \cup {0},
           NEW thread \in ReadTask \cup {0}, NEW cb \in Callback \cup {0},
           NEW next \in {"idle", "connecting"}
    PROVE  LET h == Holding(s, stop, thread, cb, next)
           IN  /\ h \in Holdings /\ h.stream = s /\ h.stop = stop /\ h.thread = thread
               /\ h.cb = cb /\ h.next = next
BY DEF Holding, Holdings

\* Caller c goes to place l with r in hand.
Moved(c, l, r) ==
    /\ pc' \in [Clients -> Places] /\ reg' \in [Clients -> Holdings]
    /\ pc'[c] = l /\ reg'[c] = r
    /\ \A d \in Clients \ {c} : pc'[d] = pc[d] /\ reg'[d] = reg[d]

LEMMA GotoMoves ==
    ASSUME TypeOK, NEW c \in Clients, NEW l \in Places, NEW r \in Holdings, Goto(c, l, r)
    PROVE  Moved(c, l, r)
BY DEF TypeOK, Goto, Moved

LEMMA ReturnMoves ==
    ASSUME TypeOK, NEW c \in Clients, Return(c)
    PROVE  Moved(c, "idle", Nothing) /\ Nothing.stop = 0 /\ Nothing.thread = 0
<1>1. /\ Nothing \in Holdings /\ Nothing.stop = 0 /\ Nothing.thread = 0
  BY HoldingFields DEF Nothing
<1> QED BY <1>1, GotoMoves DEF Return, Places

\* The caller takes the connection, to stop it if there is one.
LEMMA TakeEffect ==
    ASSUME TypeOK, NEW c \in Clients, NEW next \in {"idle", "connecting"},
           TakeConnection(c, next)
    PROVE  /\ conn' = NoConn
           /\ \E l \in {"stop", next}, r \in Holdings :
                 /\ Moved(c, l, r)
                 /\ r.stop \in {conn.stop, 0} /\ r.thread \in {conn.thread, 0}
                 /\ Connected => l = "stop"
<1>1. CASE Connected
  <2> DEFINE r == Holding(conn.stream, conn.stop, conn.thread, 0, next)
  <2>0. /\ conn.stream \in Stream \cup {0} /\ conn.stop \in ReadTask \cup {0}
        /\ conn.thread \in ReadTask \cup {0} /\ 0 \in Callback \cup {0}
    BY DEF TypeOK, Entries
  <2>1. r \in Holdings /\ r.stop = conn.stop /\ r.thread = conn.thread
    BY <2>0 DEF Holding, Holdings
  <2>2. Goto(c, "stop", r) /\ conn' = NoConn /\ "stop" \in Places
    BY <1>1 DEF TakeConnection, Places
  <2> QED BY <2>1, <2>2, GotoMoves
<1>2. CASE ~Connected
  <2>1. Nothing \in Holdings /\ Nothing.stop = 0 /\ Nothing.thread = 0
    BY HoldingFields DEF Nothing
  <2>2. Goto(c, next, Nothing) /\ conn' = NoConn /\ next \in Places
    BY <1>2 DEF TakeConnection, Places
  <2> QED BY <1>2, <2>1, <2>2, GotoMoves
<1> QED BY <1>1, <1>2

LEMMA CallLaterEffect ==
    ASSUME TypeOK, NEW c \in Clients, NEW cb \in Callback \cup {0}, CallLater(c, cb)
    PROVE  \E l \in {"idle", "call"}, r \in Holdings :
              /\ Moved(c, l, r) /\ r.stop = 0 /\ r.thread = 0
              /\ l = "call" <=> cb # 0
              /\ l = "call" => r.cb = cb
<1>1. CASE cb = 0
  BY <1>1, ReturnMoves DEF CallLater, Moved, Return, Nothing, Holding, Holdings
<1>2. CASE cb # 0
  <2> DEFINE r == Holding(0, 0, 0, cb, "idle")
  <2>1. r \in Holdings /\ r.stop = 0 /\ r.thread = 0 /\ r.cb = cb
    BY HoldingFields
  <2>2. Goto(c, "call", r) /\ "call" \in Places
    BY <1>2 DEF CallLater, Places
  <2> QED BY <1>2, <2>1, <2>2, GotoMoves
<1> QED BY <1>1, <1>2

-----------------------------------------------------------------------------
(***************************************************************************)
(* Callers: what their steps leave to the tasks                            *)
(***************************************************************************)
\* A caller's step replaces the current stream by none or by a new one, at most.
StreamStep == \/ conn'.stream \in {conn.stream, 0}
              \/ conn'.stream \in Stream /\ \A t \in ReadTask : reads[t] # conn'.stream

LEMMA CallerData ==
    ASSUME TypeOK, TypeOK', Spawned, Ending, Exclusive, Data, StreamStep,
           UNCHANGED <<streamVars, tpc, reads, hand>>
    PROVE  Ending' /\ Exclusive' /\ Data'
<1>1. UNCHANGED <<got, ended, delivered>>
  BY DEF streamVars
<1>2. Exclusive'
  BY DEF Exclusive
<1>3. Ending'
  <2>1. ASSUME NEW t \in ReadTask, tpc[t] = "teardown", reads[t] # conn.stream
        PROVE  reads[t] # conn'.stream
    <3>1. reads[t] # 0
      BY <2>1 DEF Spawned, TypeOK
    <3> QED BY <2>1, <3>1 DEF StreamStep
  <2> QED BY <1>1, <2>1 DEF Ending
<1>4. \A s \in Stream : InHand(s)' = InHand(s)
  BY DEF InHand
<1>5. ASSUME NEW s \in Stream, conn'.stream = s
      PROVE  Len(delivered[s]) + Gap(s)' = got[s]
  <2>1. CASE conn.stream = s
    <3>1. Connected /\ Gap(s)' = Gap(s)
      BY <1>4, <2>1, Numbers DEF Gap, Connected
    <3> QED BY <2>1, <3>1 DEF Data
  <2>2. CASE \A t \in ReadTask : reads[t] # s
    <3>1. InHand(s)' = {}
      BY <2>2 DEF InHand
    <3>2. got[s] = 0 /\ delivered[s] = <<>>
      BY <2>2 DEF Data
    <3> QED BY <3>1, <3>2 DEF Gap
  <2> QED BY <1>5, <2>1, <2>2, Numbers DEF StreamStep
<1>6. Data'
  <2>1. Connected' => conn'.stream \in Stream
    BY DEF Connected, TypeOK, Entries
  <2>2. Connected' => (Len(delivered[conn.stream]) + Gap(conn.stream) = got[conn.stream])'
    BY <1>1, <1>5, <2>1
  <2>3. /\ (\A s \in Stream : (\A t \in ReadTask : reads[t] # s)
                               => got[s] = 0 /\ delivered[s] = <<>>)'
        /\ (\A s \in Stream : /\ Increasing(delivered[s])
                              /\ \A i \in DOMAIN delivered[s] : delivered[s][i] <= got[s])'
    BY <1>1 DEF Data, Increasing
  <2>4. (\A s \in Stream : \A t \in InHand(s) :
            /\ hand[t] = got[s]
            /\ \A i \in DOMAIN delivered[s] : delivered[s][i] < hand[t])'
    BY <1>1, <1>4 DEF Data
  <2> QED BY <2>2, <2>3, <2>4 DEF Data
<1> QED BY <1>2, <1>3, <1>6

\* The tasks that are numbered and the ones that are stopped stay what they are.
LEMMA CallerSpawned ==
    ASSUME TypeOK, Spawned, NEW c \in Clients, NEW l, NEW r, Moved(c, l, r),
           l # "install", r.stop <= made.tasks, r.thread <= made.tasks,
           conn'.stop <= made.tasks, conn'.thread <= made.tasks,
           \A t \in flagged' \cup aborted' : t <= made.tasks,
           UNCHANGED <<tpc, reads>>, made'.tasks = made.tasks
    PROVE  Spawned'
BY DEF Spawned, Moved

\* Callers that come and go without a callback in their hands.
LEMMA CallersKept ==
    ASSUME NEW c \in Clients, NEW l, NEW r, Moved(c, l, r), pc[c] # "call", l # "call"
    PROVE  \A cb \in Callback : Callers(cb)' = Callers(cb)
BY DEF Moved, Callers

LEMMA CallbacksKept ==
    ASSUME Callbacks, UNCHANGED called, made'.callbacks = made.callbacks,
           waitingCallback' \in {waitingCallback, 0}, conn'.cb \in {conn.cb, 0},
           \A cb \in Callback : Callers(cb)' = Callers(cb)
    PROVE  Callbacks'
<1> SUFFICES ASSUME NEW cb \in Callback
             PROVE  (/\ called[cb] <= 1
                     /\ \A c, d \in Callers(cb) : c = d
                     /\ Callers(cb) # {} => called[cb] = 0
                     /\ conn.cb = cb => called[cb] = 1 \/ Callers(cb) # {}
                     /\ waitingCallback = cb => called[cb] = 0 /\ Callers(cb) = {}
                     /\ cb > made.callbacks => /\ called[cb] = 0 /\ Callers(cb) = {}
                                               /\ conn.cb # cb /\ waitingCallback # cb)'
  BY DEF Callbacks
<1> QED BY Numbers DEF Callbacks

\* A caller that goes elsewhere than to insert a stream.
LEMMA NewStreamsKept ==
    ASSUME TypeOK, NewStreams, NEW c \in Clients, NEW l, NEW r, Moved(c, l, r), l # "insert",
           conn'.stream \in {conn.stream, 0}, UNCHANGED reads, made'.streams = made.streams
    PROVE  NewStreams'
<1>1. conn'.stream <= made.streams
  BY DEF NewStreams, TypeOK, Counts
<1>2. \A d \in Clients : pc'[d] = "insert" => pc[d] = "insert" /\ reg'[d] = reg[d]
  BY DEF Moved
<1> QED BY <1>1, <1>2, Numbers DEF NewStreams

-----------------------------------------------------------------------------
(***************************************************************************)
(* The steps of callers                                                    *)
(***************************************************************************)
\* Steps that make no stream, task or callback and call none.
LEMMA CallerIInv ==
    ASSUME IInv, NEW c \in Clients, NEW l, NEW r, Moved(c, l, r),
           pc[c] # "call", l \notin {"call", "insert", "install"},
           r.stop <= made.tasks, r.thread <= made.tasks,
           l = "stop" => \A t \in {r.stop, r.thread} \ {0} : reads[t] # conn'.stream,
           conn' \in Entries, conn'.stream \in {conn.stream, 0}, conn'.cb \in {conn.cb, 0},
           conn'.stop <= made.tasks, conn'.thread <= made.tasks,
           waitingCallback' \in {waitingCallback, 0}, waitingListener' \in BOOLEAN,
           flagged' \subseteq ReadTask, aborted' \subseteq ReadTask,
           \A t \in flagged' \cup aborted' : t <= made.tasks /\ reads[t] # conn'.stream,
           UNCHANGED <<streamVars, tpc, reads, hand, called, made>>
    PROVE  IInv'
<1>1. /\ TypeOK /\ Callbacks /\ Spawned /\ NewStreams /\ Past /\ Ending /\ Exclusive
      /\ Data
  BY DEF IInv
<1>2. TypeOK'
  BY <1>1 DEF TypeOK, streamVars, Moved
<1>3. Callbacks'
  BY <1>1, CallersKept, CallbacksKept
<1>4. Spawned'
  BY <1>1, CallerSpawned
<1>5. NewStreams'
  BY <1>1, NewStreamsKept
<1>6. Past'
  <2>1. ASSUME NEW d \in Clients, pc'[d] = "stop", NEW t \in {reg'[d].stop, reg'[d].thread} \ {0}
        PROVE  reads[t] # conn'.stream
    <3>1. CASE d = c
      BY <2>1, <3>1 DEF Moved
    <3>2. CASE d # c
      <4>1. pc[d] = "stop" /\ reg'[d] = reg[d]
        BY <2>1, <3>2 DEF Moved
      <4>2. t <= made.tasks /\ t \in ReadTask /\ reads[t] # conn.stream
        BY <1>1, <2>1, <4>1 DEF Spawned, Past, TypeOK, Holdings
      <4>3. reads[t] # 0
        BY <1>1, <4>2, Numbers DEF Spawned, TypeOK, Counts
      <4> QED BY <4>2, <4>3
    <3> QED BY <3>1, <3>2
  <2> QED BY <2>1 DEF Past
<1>7. Ending' /\ Exclusive' /\ Data'
  BY <1>1, <1>2, CallerData DEF StreamStep
<1> QED BY <1>2, <1>3, <1>4, <1>5, <1>6, <1>7 DEF IInv

\* What was stopped before reads neither the current stream nor, if it is taken, none.
LEMMA StoppedPast ==
    ASSUME IInv
    PROVE  /\ conn \in Entries /\ made.tasks \in Nat /\ 0 <= made.tasks
           /\ conn.stop <= made.tasks /\ conn.thread <= made.tasks
           /\ flagged \subseteq ReadTask /\ aborted \subseteq ReadTask
           /\ \A t \in flagged \cup aborted : t <= made.tasks /\ reads[t] # conn.stream
           /\ \A t \in ReadTask : t <= made.tasks => reads[t] # 0
           /\ waitingListener \in BOOLEAN
<1>1. TypeOK /\ Spawned /\ Past
  BY DEF IInv
<1>2. made.tasks \in Nat
  BY <1>1 DEF TypeOK, Counts
<1>3. \A t \in ReadTask : t <= made.tasks => reads[t] # 0
  BY <1>1, <1>2, Numbers DEF Spawned
<1> QED BY <1>1, <1>2, <1>3 DEF Spawned, Past, TypeOK

\* connect begins, and disconnect: the connection is taken.
LEMMA TakeIInv ==
    ASSUME IInv, NEW c \in Clients, NEW next \in {"idle", "connecting"}, pc[c] = "idle",
           TakeConnection(c, next),
           waitingCallback' \in {waitingCallback, 0}, waitingListener' \in BOOLEAN,
           UNCHANGED <<streamVars, taskVars, made, called>>
    PROVE  IInv'
<1>1. TypeOK
  BY DEF IInv
<1>2. PICK l \in {"stop", next}, r \in Holdings :
        /\ Moved(c, l, r) /\ conn' = NoConn
        /\ r.stop \in {conn.stop, 0} /\ r.thread \in {conn.thread, 0}
  BY <1>1, TakeEffect
<1>3. r.stop <= made.tasks /\ r.thread <= made.tasks
  BY <1>2, StoppedPast
<1>4. \A t \in {r.stop, r.thread} \ {0} : reads[t] # 0
  BY <1>2, <1>3, StoppedPast DEF Holdings
<1>5. \A t \in flagged \cup aborted : t <= made.tasks /\ reads[t] # 0
  BY StoppedPast
<1> QED BY <1>2, <1>3, <1>4, <1>5, NoConnFields, StoppedPast, CallerIInv DEF taskVars

LEMMA StopIInv ==
    ASSUME NEW c \in Clients, IInv, Stop(c)
    PROVE  IInv'
<1>1. TypeOK /\ Spawned /\ Past /\ reg[c] \in Holdings
  BY DEF IInv, TypeOK
<1>2. /\ pc[c] = "stop" /\ Goto(c, reg[c].next, Nothing)
      /\ flagged' = flagged \cup ({reg[c].stop} \ {0})
      /\ aborted' = aborted \cup ({reg[c].thread} \ {0})
      /\ UNCHANGED <<tableVars, streamVars, tpc, reads, hand, made, called>>
  BY DEF Stop
<1>3. reg[c].next \in {"idle", "connecting"} /\ reg[c].next \in Places
  BY <1>1 DEF Holdings, Places
<1>4. Nothing \in Holdings /\ Nothing.stop = 0 /\ Nothing.thread = 0
  BY HoldingFields DEF Nothing
<1>5. Moved(c, reg[c].next, Nothing)
  BY <1>1, <1>2, <1>3, <1>4, GotoMoves
<1>6. \A t \in {reg[c].stop, reg[c].thread} \ {0} :
        t \in ReadTask /\ t <= made.tasks /\ reads[t] # conn.stream
  BY <1>1, <1>2 DEF Spawned, Past, Holdings
<1>7. /\ flagged' \subseteq ReadTask /\ aborted' \subseteq ReadTask
      /\ \A t \in flagged' \cup aborted' : t <= made.tasks /\ reads[t] # conn.stream
  BY <1>2, <1>6, StoppedPast
<1> QED BY <1>2, <1>3, <1>4, <1>5, <1>7, StoppedPast, CallerIInv DEF tableVars

\* Steps that only move the caller on.
LEMMA OnlyMovesIInv ==
    ASSUME IInv, NEW c \in Clients, NEW l, NEW r, Moved(c, l, r),
           pc[c] # "call", l \notin {"call", "insert", "install", "stop"},
           r.stop <= made.tasks, r.thread <= made.tasks,
           UNCHANGED <<tableVars, streamVars, taskVars, made, called>>
    PROVE  IInv'
<1>1. /\ conn' = conn /\ waitingCallback' = waitingCallback
      /\ waitingListener' = waitingListener /\ flagged' = flagged /\ aborted' = aborted
      /\ UNCHANGED <<streamVars, tpc, reads, hand, called, made>>
  BY DEF tableVars, taskVars
<1> QED BY <1>1, StoppedPast, CallerIInv

LEMMA ConnectIInv ==
    ASSUME NEW c \in Clients, IInv, Connect(c)
    PROVE  IInv'
<1>1. /\ pc[c] = "idle" /\ TakeConnection(c, "connecting")
      /\ UNCHANGED <<waitingCallback, waitingListener, streamVars, taskVars, made, called>>
  BY DEF Connect
<1> QED BY <1>1, StoppedPast, TakeIInv

LEMMA DisconnectIInv ==
    ASSUME NEW c \in Clients, IInv, Disconnect(c)
    PROVE  IInv'
<1>1. /\ pc[c] = "idle" /\ TakeConnection(c, "idle")
      /\ waitingCallback' = 0 /\ waitingListener' = FALSE
      /\ UNCHANGED <<streamVars, taskVars, made, called>>
  BY DEF Disconnect
<1> QED BY <1>1, TakeIInv

\* A connect that fails, and the steps of a send.
LEMMA PassingIInv ==
    ASSUME NEW c \in Clients, IInv,
           ConnectFails(c) \/ SendLookup(c) \/ SendLock(c) \/ SendEnds(c)
    PROVE  IInv'
<1>1. TypeOK /\ Spawned
  BY DEF IInv
<1>2. CASE ConnectFails(c) \/ SendEnds(c)
  <2>1. Moved(c, "idle", Nothing) /\ Nothing.stop = 0 /\ Nothing.thread = 0
    BY <1>1, <1>2, ReturnMoves DEF ConnectFails, SendEnds
  <2> QED BY <1>2, <2>1, StoppedPast, OnlyMovesIInv DEF ConnectFails, SendEnds
<1>3. CASE SendLookup(c)
  <2> DEFINE r == Holding(conn.stream, 0, 0, 0, "idle")
  <2>1. r \in Holdings /\ r.stop = 0 /\ r.thread = 0 /\ "lock" \in Places
    BY <1>1 DEF TypeOK, Entries, Holding, Holdings, Places
  <2>2. Moved(c, "lock", r)
    BY <1>1, <1>3, <2>1, GotoMoves DEF SendLookup
  <2> QED BY <1>3, <2>1, <2>2, StoppedPast, OnlyMovesIInv DEF SendLookup
<1>4. CASE SendLock(c)
  <2>1. reg[c] \in Holdings /\ "write" \in Places
    BY <1>1 DEF TypeOK, Places
  <2>2. Moved(c, "write", reg[c])
    BY <1>1, <1>4, <2>1, GotoMoves DEF SendLock
  <2>3. reg[c].stop <= made.tasks /\ reg[c].thread <= made.tasks
    BY <1>1 DEF Spawned
  <2> QED BY <1>4, <2>2, <2>3, OnlyMovesIInv DEF SendLock
<1> QED BY <1>2, <1>3, <1>4

LEMMA SetListenerIInv ==
    ASSUME NEW c \in Clients, IInv, SetListener(c)
    PROVE  IInv'
<1>1. TypeOK /\ Spawned
  BY DEF IInv
<1>2. Moved(c, "idle", reg[c]) /\ pc[c] = "idle"
  BY <1>1 DEF SetListener, clientVars, Moved, TypeOK
<1>3. reg[c].stop <= made.tasks /\ reg[c].thread <= made.tasks
  BY <1>1 DEF Spawned
<1>4. /\ conn' \in Entries /\ conn'.stream = conn.stream /\ conn'.cb = conn.cb
      /\ conn'.stop = conn.stop /\ conn'.thread = conn.thread
      /\ waitingListener' \in BOOLEAN
  <2>1. conn \in Entries /\ waitingListener \in BOOLEAN
    BY <1>1 DEF TypeOK
  <2>2. \/ conn' = [conn EXCEPT !.listener = TRUE] /\ UNCHANGED waitingListener
        \/ waitingListener' \in BOOLEAN /\ UNCHANGED conn
    BY DEF SetListener
  <2> QED BY <2>1, <2>2 DEF Entries
<1>5. /\ UNCHANGED <<waitingCallback, flagged, aborted>>
      /\ UNCHANGED <<streamVars, tpc, reads, hand, called, made>>
  BY DEF SetListener, taskVars
<1> QED BY <1>2, <1>3, <1>4, <1>5, StoppedPast, CallerIInv

LEMMA InstallIInv ==
    ASSUME NEW c \in Clients, IInv, Install(c)
    PROVE  IInv'
<1> DEFINE th == reg[c].thread
<1>1. TypeOK /\ th \in ReadTask /\ th <= made.tasks /\ conn \in Entries
  <2>1. TypeOK /\ Spawned /\ reg[c] \in Holdings /\ pc[c] = "install"
    BY DEF IInv, TypeOK, Install
  <2> QED BY <2>1 DEF Spawned, Holdings, TypeOK
<1>2. Moved(c, "idle", Nothing) /\ Nothing.stop = 0 /\ Nothing.thread = 0 /\ pc[c] = "install"
  BY <1>1, ReturnMoves DEF Install
<1>3. UNCHANGED <<waitingCallback, waitingListener, flagged, streamVars, tpc, reads, hand,
                  called, made>>
  BY DEF Install
<1>4. IF Connected THEN conn' = [conn EXCEPT !.thread = th] /\ aborted' = aborted
                   ELSE conn' = conn /\ aborted' = aborted \cup {th}
  BY DEF Install
<1> HIDE DEF th
<1>5. CASE Connected
  <2>1. /\ conn' \in Entries /\ conn'.stream = conn.stream /\ conn'.cb = conn.cb
        /\ conn'.stop = conn.stop /\ conn'.thread = th /\ aborted' = aborted
    BY <1>1, <1>4, <1>5 DEF Entries
  <2> QED BY <1>1, <1>2, <1>3, <2>1, StoppedPast, CallerIInv
<1>6. CASE ~Connected
  <2>1. conn' = conn /\ conn.stream = 0 /\ aborted' = aborted \cup {th}
    BY <1>4, <1>6 DEF Connected
  <2>2. reads[th] # 0
    BY <1>1, StoppedPast
  <2>3. /\ aborted' \subseteq ReadTask
        /\ \A t \in flagged \cup aborted' : t <= made.tasks /\ reads[t] # conn.stream
    BY <1>1, <2>1, <2>2, StoppedPast
  <2> QED BY <1>2, <1>3, <2>1, <2>3, StoppedPast, CallerIInv
<1> QED BY <1>5, <1>6

\* The next stream, task and callback are new ones of their kind.
LEMMA CountUp ==
    ASSUME made \in Counts
    PROVE  /\ made.streams < MaxStreams /\ made' = [made EXCEPT !.streams = @ + 1] =>
                 /\ made' \in Counts /\ made'.streams = made.streams + 1
                 /\ made.streams + 1 \in Stream
                 /\ made'.tasks = made.tasks /\ made'.callbacks = made.callbacks
           /\ made.tasks < MaxTasks /\ made' = [made EXCEPT !.tasks = made.tasks + 1] =>
                 /\ made' \in Counts /\ made'.tasks = made.tasks + 1
                 /\ made.tasks + 1 \in ReadTask
                 /\ made'.streams = made.streams /\ made'.callbacks = made.callbacks
           /\ made.callbacks < MaxCallbacks /\ made' = [made EXCEPT !.callbacks = @ + 1] =>
                 /\ made' \in Counts /\ made'.callbacks = made.callbacks + 1
                 /\ made.callbacks + 1 \in Callback
                 /\ made'.streams = made.streams /\ made'.tasks = made.tasks
           /\ made.streams \in Nat /\ made.tasks \in Nat /\ made.callbacks \in Nat
BY BoundsAssumption DEF Counts, Stream, ReadTask, Callback

\* A caller that is not about to stop anything leaves what was stopped in the past.
LEMMA CallerPast ==
    ASSUME IInv, NEW c \in Clients, NEW l, NEW r, Moved(c, l, r), l # "stop", StreamStep,
           UNCHANGED <<reads, flagged, aborted>>
    PROVE  Past'
<1>1. TypeOK /\ Spawned /\ Past
  BY DEF IInv
<1>2. \A t \in ReadTask : t <= made.tasks /\ reads[t] # conn.stream => reads[t] # conn'.stream
  BY StoppedPast DEF StreamStep
<1>3. \A t \in flagged \cup aborted : reads[t] # conn'.stream
  BY <1>2, StoppedPast
<1>4. ASSUME NEW d \in Clients, pc'[d] = "stop", NEW t \in {reg'[d].stop, reg'[d].thread} \ {0}
      PROVE  reads[t] # conn'.stream
  <2>1. d # c /\ pc[d] = "stop" /\ reg'[d] = reg[d]
    BY <1>4 DEF Moved
  <2>2. t \in ReadTask /\ t <= made.tasks /\ reads[t] # conn.stream
    BY <1>1, <1>4, <2>1 DEF Spawned, Past, TypeOK, Holdings
  <2> QED BY <1>2, <2>2
<1> QED BY <1>3, <1>4 DEF Past

LEMMA ConnectSucceedsIInv ==
    ASSUME NEW c \in Clients, IInv, ConnectSucceeds(c)
    PROVE  IInv'
<1>1. /\ TypeOK /\ Callbacks /\ Spawned /\ NewStreams /\ Ending /\ Exclusive /\ Data
      /\ made \in Counts
  BY DEF IInv, TypeOK
<1>2. PICK n \in Stream : n = made.streams + 1
  BY <1>1, CountUp DEF ConnectSucceeds
<1> DEFINE r == Holding(n, 0, 0, 0, "idle")
<1>3. /\ pc[c] = "connecting" /\ Goto(c, "insert", r)
      /\ UNCHANGED <<tableVars, streamVars, taskVars, called>>
  BY <1>2 DEF ConnectSucceeds
<1>4. /\ made' \in Counts /\ made'.streams = n /\ made'.tasks = made.tasks
      /\ made'.callbacks = made.callbacks /\ made.streams \in Nat /\ made.tasks \in Nat
  BY <1>1, <1>2, CountUp DEF ConnectSucceeds
<1>5. /\ r \in Holdings /\ r.stream = n /\ r.stop = 0 /\ r.thread = 0 /\ "insert" \in Places
  BY DEF Holding, Holdings, Places
<1> HIDE DEF r
<1>6. Moved(c, "insert", r)
  BY <1>1, <1>3, <1>5, GotoMoves
<1>7. TypeOK'
  BY <1>1, <1>3, <1>4, <1>6 DEF TypeOK, tableVars, streamVars, taskVars, Moved
<1>8. Callbacks'
  BY <1>1, <1>3, <1>4, <1>6, CallersKept, CallbacksKept DEF tableVars
<1>9. Spawned'
  <2>1. \A t \in flagged \cup aborted : t <= made.tasks
    BY StoppedPast
  <2>2. conn.stop <= made.tasks /\ conn.thread <= made.tasks
    BY StoppedPast
  <2> QED BY <1>1, <1>3, <1>4, <1>5, <1>6, <2>1, <2>2, CallerSpawned DEF tableVars, taskVars
<1>10. NewStreams'
  <2>0. \A i \in Nat : i <= made.streams => i < n
    BY <1>2, <1>4
  <2>1. conn.stream \in Nat /\ conn.stream < n
    <3>1. conn.stream \in Stream \cup {0} /\ conn.stream <= made.streams
      BY <1>1 DEF NewStreams, TypeOK, Entries
    <3> QED BY <2>0, <3>1, Numbers
  <2>2. \A t \in ReadTask : reads[t] \in Nat /\ reads[t] < n
    <3>1. \A t \in ReadTask : reads[t] \in Stream \cup {0} /\ reads[t] <= made.streams
      BY <1>1 DEF NewStreams, TypeOK
    <3> QED BY <2>0, <3>1, Numbers
  <2>3. \A d \in Clients \ {c} : pc'[d] = "insert" =>
          /\ pc[d] = "insert" /\ reg'[d] = reg[d]
          /\ reg[d].stream \in Stream /\ reg[d].stream \in Nat /\ reg[d].stream < n
    BY <1>1, <1>2, <1>4, <1>6, Numbers DEF NewStreams, Moved
  <2>4. n \in Nat /\ pc'[c] = "insert" /\ reg'[c].stream = n
    BY <1>2, <1>4, <1>5, <1>6 DEF Moved
  <2> QED BY <1>1, <1>3, <1>4, <2>1, <2>2, <2>3, <2>4 DEF NewStreams, tableVars, taskVars
<1>11. StreamStep
  BY <1>3 DEF StreamStep, tableVars
<1>12. Past'
  BY <1>3, <1>6, <1>11, CallerPast DEF taskVars
<1>13. Ending' /\ Exclusive' /\ Data'
  BY <1>1, <1>3, <1>7, <1>11, CallerData DEF taskVars
<1> QED BY <1>7, <1>8, <1>9, <1>10, <1>12, <1>13 DEF IInv

\* A callback that is neither called nor in anybody's hands is given to caller c, and
\* the connection has it from then on.
LEMMA CallbackGiven ==
    ASSUME TypeOK, Callbacks, NEW c \in Clients, NEW l, NEW r, Moved(c, l, r), pc[c] # "call",
           NEW cb \in Callback \cup {0}, l = "call" <=> cb # 0, l = "call" => r.cb = cb,
           cb # 0 => /\ called[cb] = 0 /\ Callers(cb) = {}
                     /\ waitingCallback' # cb /\ cb <= made'.callbacks,
           conn'.cb = cb, waitingCallback' \in {waitingCallback, 0}, UNCHANGED called,
           made'.callbacks \in Nat, made.callbacks <= made'.callbacks
    PROVE  Callbacks'
<1>1. \A x \in Callback : x # cb => Callers(x)' = Callers(x)
  BY Numbers DEF Moved, Callers
<1>2. cb # 0 => Callers(cb)' = {c}
  BY DEF Moved, Callers
<1>3. made.callbacks \in Nat
  BY DEF TypeOK, Counts
<1> SUFFICES ASSUME NEW x \in Callback
             PROVE  (/\ called[x] <= 1
                     /\ \A a, b \in Callers(x) : a = b
                     /\ Callers(x) # {} => called[x] = 0
                     /\ conn.cb = x => called[x] = 1 \/ Callers(x) # {}
                     /\ waitingCallback = x => called[x] = 0 /\ Callers(x) = {}
                     /\ x > made.callbacks => /\ called[x] = 0 /\ Callers(x) = {}
                                              /\ conn.cb # x /\ waitingCallback # x)'
  BY DEF Callbacks
<1>4. x \in Nat /\ x # 0
  BY Numbers
<1>5. CASE x = cb
  <2>1. ~(x > made'.callbacks)
    BY <1>4, <1>5
  <2> QED BY <1>2, <1>4, <1>5, <2>1
<1>6. CASE x # cb
  <2>1. x > made'.callbacks => x > made.callbacks
    BY <1>3, <1>4
  <2> QED BY <1>1, <1>4, <1>6, <2>1 DEF Callbacks
<1> QED BY <1>5, <1>6

LEMMA InsertIInv ==
    ASSUME NEW c \in Clients, IInv, Insert(c)
    PROVE  IInv'
<1>1. /\ TypeOK /\ Callbacks /\ Spawned /\ NewStreams /\ Ending /\ Exclusive /\ Data
      /\ waitingCallback \in Callback \cup {0} /\ waitingListener \in BOOLEAN
  BY DEF IInv, TypeOK
<1> DEFINE s == reg[c].stream
<1>2. /\ pc[c] = "insert" /\ conn' = Entry(s, waitingCallback, waitingListener)
      /\ waitingCallback' = 0 /\ waitingListener' = FALSE
      /\ CallLater(c, waitingCallback)
      /\ UNCHANGED <<streamVars, taskVars, made, called>>
  BY DEF Insert
<1>3. /\ s \in Stream /\ s <= made.streams /\ \A t \in ReadTask : reads[t] # s
      /\ \A d \in Clients : pc[d] = "insert" /\ reg[d].stream = s => d = c
  BY <1>1, <1>2 DEF NewStreams
<1>4. PICK l \in {"idle", "call"}, r \in Holdings :
        /\ Moved(c, l, r) /\ r.stop = 0 /\ r.thread = 0
        /\ l = "call" <=> waitingCallback # 0
        /\ l = "call" => r.cb = waitingCallback
  BY <1>1, <1>2, CallLaterEffect
<1> HIDE DEF s
<1>5. /\ conn' \in Entries /\ conn'.stream = s /\ conn'.cb = waitingCallback
      /\ conn'.stop = 0 /\ conn'.thread = 0
  BY <1>1, <1>2, <1>3, EntryFields
<1>6. TypeOK'
  BY <1>1, <1>2, <1>4, <1>5 DEF TypeOK, streamVars, taskVars, Moved
<1>7. Callbacks'
  <2>1. waitingCallback # 0 => /\ called[waitingCallback] = 0 /\ Callers(waitingCallback) = {}
                               /\ waitingCallback' # waitingCallback
                               /\ waitingCallback <= made'.callbacks
    <3>1. waitingCallback # 0 => ~(waitingCallback > made.callbacks)
      BY <1>1 DEF Callbacks
    <3>2. waitingCallback \in Nat /\ made.callbacks \in Nat
      BY <1>1, Numbers DEF TypeOK, Counts
    <3>3. waitingCallback # 0 => waitingCallback <= made'.callbacks
      BY <1>2, <3>1, <3>2
    <3> QED BY <1>1, <1>2, <3>3 DEF Callbacks
  <2>2. made'.callbacks \in Nat /\ made.callbacks <= made'.callbacks
    BY <1>1, <1>2 DEF TypeOK, Counts
  <2> QED BY <1>1, <1>2, <1>4, <1>5, <2>1, <2>2, CallbackGiven
<1>8. Spawned'
  BY <1>1, <1>2, <1>4, <1>5, StoppedPast, CallerSpawned DEF taskVars
<1>9. NewStreams'
  <2>1. \A d \in Clients : pc'[d] = "insert" =>
          d # c /\ pc[d] = "insert" /\ reg'[d] = reg[d] /\ reg[d].stream # s
    BY <1>3, <1>4 DEF Moved
  <2> QED BY <1>1, <1>2, <1>3, <1>5, <2>1 DEF NewStreams, taskVars
<1>10. StreamStep
  BY <1>3, <1>5 DEF StreamStep
<1>11. Past'
  BY <1>2, <1>4, <1>10, CallerPast DEF taskVars
<1>12. Ending' /\ Exclusive' /\ Data'
  BY <1>1, <1>2, <1>6, <1>10, CallerData DEF taskVars
<1> QED BY <1>6, <1>7, <1>8, <1>9, <1>11, <1>12 DEF IInv

LEMMA CallIInv ==
    ASSUME NEW c \in Clients, IInv, Call(c)
    PROVE  IInv'
<1>1. /\ TypeOK /\ Callbacks /\ Spawned /\ NewStreams /\ Ending /\ Exclusive /\ Data
  BY DEF IInv
<1>0. PICK cb \in Callback \cup {0} : cb = reg[c].cb
  BY <1>1 DEF TypeOK, Holdings
<1>2. /\ pc[c] = "call" /\ called' = [called EXCEPT ![cb] = @ + 1]
      /\ UNCHANGED <<tableVars, streamVars, taskVars, made>>
  BY <1>0 DEF Call
<1>3. Moved(c, "idle", Nothing) /\ Nothing.stop = 0 /\ Nothing.thread = 0
  BY <1>1, ReturnMoves DEF Call
<1>4. c \in Callers(cb)
  BY <1>0, <1>2 DEF Callers
<1>5. TypeOK'
  <2>1. called' \in [Callback -> Nat]
    <3>1. called \in [Callback -> Nat] /\ called' = [called EXCEPT ![cb] = called[cb] + 1]
      BY <1>1, <1>2 DEF TypeOK
    <3>2. CASE cb \in Callback
      BY <3>1, <3>2
    <3>3. CASE cb \notin Callback
      BY <3>1, <3>3
    <3> QED BY <3>2, <3>3
  <2> QED BY <1>1, <1>2, <1>3, <2>1 DEF TypeOK, tableVars, streamVars, taskVars, Moved
<1>6. Callbacks'
  <2>1. \A x \in Callback : x # cb => Callers(x)' = Callers(x) /\ called'[x] = called[x]
    BY <1>0, <1>1, <1>2, <1>3 DEF Moved, Callers, TypeOK
  <2>2. cb \in Callback => Callers(cb)' = {} /\ called'[cb] = 1
    <3>1. cb \in Callback => Callers(cb) = {c} /\ called[cb] = 0
      BY <1>1, <1>4 DEF Callbacks
    <3>2. cb \in Callback => called'[cb] = called[cb] + 1
      BY <1>1, <1>2 DEF TypeOK
    <3>3. Callers(cb)' \subseteq Callers(cb) \ {c}
      BY <1>3 DEF Moved, Callers
    <3> QED BY <3>1, <3>2, <3>3
  <2>3. UNCHANGED <<conn, waitingCallback, made>>
    BY <1>2 DEF tableVars
  <2> SUFFICES ASSUME NEW x \in Callback
               PROVE  (/\ called[x] <= 1
                       /\ \A a, b \in Callers(x) : a = b
                       /\ Callers(x) # {} => called[x] = 0
                       /\ conn.cb = x => called[x] = 1 \/ Callers(x) # {}
                       /\ waitingCallback = x => called[x] = 0 /\ Callers(x) = {}
                       /\ x > made.callbacks => /\ called[x] = 0 /\ Callers(x) = {}
                                                /\ conn.cb # x /\ waitingCallback # x)'
    BY DEF Callbacks
  <2>4. CASE x = cb
    BY <1>1, <1>4, <2>2, <2>3, <2>4 DEF Callbacks
  <2>5. CASE x # cb
    BY <1>1, <2>1, <2>3, <2>5 DEF Callbacks
  <2> QED BY <2>4, <2>5
<1>7. Spawned'
  BY <1>1, <1>2, <1>3, StoppedPast, CallerSpawned DEF taskVars, tableVars
<1>8. NewStreams'
  BY <1>1, <1>2, <1>3, NewStreamsKept DEF taskVars, tableVars
<1>9. StreamStep
  BY <1>2 DEF StreamStep, tableVars
<1>10. Past'
  BY <1>2, <1>3, <1>9, CallerPast DEF taskVars
<1>11. Ending' /\ Exclusive' /\ Data'
  BY <1>1, <1>2, <1>5, <1>9, CallerData DEF taskVars
<1> QED BY <1>5, <1>6, <1>7, <1>8, <1>10, <1>11 DEF IInv

LEMMA OnConnectedIInv ==
    ASSUME NEW c \in Clients, IInv, OnConnected(c)
    PROVE  IInv'
<1>1. /\ TypeOK /\ Callbacks /\ Spawned /\ NewStreams /\ Ending /\ Exclusive /\ Data
      /\ made \in Counts /\ conn \in Entries
  BY DEF IInv, TypeOK
<1>2. PICK cb \in Callback : cb = made.callbacks + 1
  BY <1>1, CountUp DEF OnConnected
<1>3. /\ pc[c] = "idle"
      /\ UNCHANGED <<waitingListener, streamVars, taskVars, called>>
      /\ IF Connected
         THEN /\ conn' = [conn EXCEPT !.cb = cb]
              /\ CallLater(c, cb)
              /\ UNCHANGED waitingCallback
         ELSE waitingCallback' = cb /\ UNCHANGED <<conn, clientVars>>
  BY <1>2 DEF OnConnected
<1>4. /\ made' \in Counts /\ made'.callbacks = cb /\ made'.tasks = made.tasks
      /\ made'.streams = made.streams
      /\ made.callbacks \in Nat /\ made.tasks \in Nat /\ made.streams \in Nat
  BY <1>1, <1>2, CountUp DEF OnConnected
<1>5. /\ called[cb] = 0 /\ Callers(cb) = {} /\ conn.cb # cb /\ waitingCallback # cb
      /\ cb # 0 /\ cb \in Nat /\ made.callbacks <= cb
  <2>1. cb > made.callbacks /\ cb # 0
    BY <1>2, <1>4
  <2> QED BY <1>1, <1>2, <1>4, <2>1 DEF Callbacks
<1>6. /\ conn' \in Entries /\ conn'.stream = conn.stream
      /\ conn'.stop = conn.stop /\ conn'.thread = conn.thread
      /\ conn'.cb = IF Connected THEN cb ELSE conn.cb
      /\ waitingCallback' = IF Connected THEN waitingCallback ELSE cb
  BY <1>1, <1>3 DEF Entries
<1>7. PICK l \in {"idle", "call"}, r \in Holdings :
        /\ Moved(c, l, r) /\ r.stop <= made.tasks /\ r.thread <= made.tasks
        /\ Connected => l = "call" /\ r.cb = cb
        /\ ~Connected => l = "idle"
  <2>1. CASE Connected
    <3>1. CallLater(c, cb)
      BY <1>3, <2>1
    <3> QED BY <1>1, <1>4, <1>5, <2>1, <3>1, CallLaterEffect
  <2>2. CASE ~Connected
    <3>1. Moved(c, "idle", reg[c])
      BY <1>1, <1>3, <2>2 DEF Moved, clientVars, TypeOK
    <3>2. reg[c] \in Holdings
      BY <1>1 DEF TypeOK
    <3>3. reg[c].stop <= made.tasks /\ reg[c].thread <= made.tasks
      BY <1>1 DEF Spawned
    <3> QED BY <2>2, <3>1, <3>2, <3>3
  <2> QED BY <2>1, <2>2
<1>8. TypeOK'
  BY <1>1, <1>3, <1>4, <1>6, <1>7 DEF TypeOK, streamVars, taskVars, Moved
<1>9. Callbacks'
  <2>1. CASE Connected
    <3>1. /\ l = "call" /\ r.cb = cb /\ conn'.cb = cb /\ waitingCallback' = waitingCallback
          /\ cb <= made'.callbacks /\ made'.callbacks \in Nat
          /\ made.callbacks <= made'.callbacks
      BY <1>4, <1>5, <1>6, <1>7, <2>1
    <3> QED BY <1>1, <1>3, <1>5, <1>7, <3>1, CallbackGiven
  <2>2. CASE ~Connected
    <3>1. \A x \in Callback : Callers(x)' = Callers(x)
      BY <1>3, <1>7, <2>2, CallersKept
    <3>2. conn'.cb = conn.cb /\ waitingCallback' = cb
      BY <1>6, <2>2
    <3>3. ASSUME NEW x \in Callback, x > made'.callbacks
          PROVE  x > made.callbacks /\ x # cb
      <4>1. x \in Nat
        BY Numbers
      <4> QED BY <1>2, <1>4, <3>3, <4>1
    <3> QED BY <1>1, <1>3, <1>5, <3>1, <3>2, <3>3 DEF Callbacks
  <2> QED BY <2>1, <2>2
<1>10. Spawned'
  BY <1>1, <1>3, <1>4, <1>6, <1>7, StoppedPast, CallerSpawned DEF taskVars
<1>11. NewStreams'
  BY <1>1, <1>3, <1>4, <1>6, <1>7, NewStreamsKept DEF taskVars
<1>12. StreamStep
  BY <1>6 DEF StreamStep
<1>13. Past'
  BY <1>3, <1>7, <1>12, CallerPast DEF taskVars
<1>14. Ending' /\ Exclusive' /\ Data'
  BY <1>1, <1>3, <1>8, <1>12, CallerData DEF taskVars
<1> QED BY <1>8, <1>9, <1>10, <1>11, <1>13, <1>14 DEF IInv

LEMMA SubscribeIInv ==
    ASSUME NEW c \in Clients, IInv, Subscribe(c)
    PROVE  IInv'
<1>1. /\ TypeOK /\ Callbacks /\ Spawned /\ NewStreams /\ Past /\ Ending /\ Exclusive
      /\ Data /\ made \in Counts /\ conn \in Entries
  BY DEF IInv, TypeOK
<1>2. PICK t \in ReadTask : t = made.tasks + 1
  BY <1>1, CountUp DEF Subscribe
<1> DEFINE r == Holding(0, 0, t, 0, "idle")
<1>3. /\ pc[c] = "idle" /\ conn.stream # 0
      /\ conn' = [conn EXCEPT !.stop = t] /\ Goto(c, "install", r)
      /\ tpc' = [tpc EXCEPT ![t] = "top"] /\ reads' = [reads EXCEPT ![t] = conn.stream]
      /\ UNCHANGED <<waitingCallback, waitingListener, streamVars, hand, flagged, aborted,
                     called>>
  BY <1>2 DEF Subscribe, Connected, TaskGoto
<1>4. /\ made' \in Counts /\ made'.tasks = t /\ made'.callbacks = made.callbacks
      /\ made'.streams = made.streams /\ made.tasks \in Nat
  BY <1>1, <1>2, CountUp DEF Subscribe
<1>5. /\ r \in Holdings /\ r.stop = 0 /\ r.thread = t /\ "install" \in Places
  BY DEF Holding, Holdings, Places
<1> HIDE DEF r
<1>6. Moved(c, "install", r)
  BY <1>1, <1>3, <1>5, GotoMoves
<1>7. /\ conn' \in Entries /\ conn'.stream = conn.stream /\ conn'.cb = conn.cb
      /\ conn'.stop = t /\ conn'.thread = conn.thread /\ conn.stream \in Stream
  BY <1>1, <1>3 DEF Entries
<1>8. /\ tpc[t] = "unborn" /\ reads[t] = 0 /\ t # 0 /\ t \in Nat
      /\ \A u \in ReadTask \cup {0} : u <= made.tasks => u # t /\ u <= t
  <2>1. t > made.tasks /\ t \in Nat
    BY <1>2, <1>4
  <2>2. \A u \in ReadTask \cup {0} : u <= made.tasks => u # t /\ u <= t
    <3> SUFFICES ASSUME NEW u \in ReadTask \cup {0}, u <= made.tasks
                 PROVE  u # t /\ u <= t
      OBVIOUS
    <3>1. u \in Nat
      BY Numbers
    <3> QED BY <1>2, <1>4, <3>1
  <2> QED BY <1>1, <2>1, <2>2, Numbers DEF Spawned
<1>9. /\ tpc'[t] = "top" /\ reads'[t] = conn.stream
      /\ \A u \in ReadTask \ {t} : tpc'[u] = tpc[u] /\ reads'[u] = reads[u]
  BY <1>1, <1>3 DEF TypeOK
<1>10. TypeOK'
  <2>1. tpc' \in [ReadTask -> TaskPlaces] /\ reads' \in [ReadTask -> Stream \cup {0}]
    BY <1>1, <1>3, <1>7 DEF TypeOK, TaskPlaces
  <2> QED BY <1>1, <1>3, <1>4, <1>6, <1>7, <2>1 DEF TypeOK, streamVars, Moved
<1>11. Callbacks'
  BY <1>1, <1>3, <1>4, <1>6, <1>7, CallersKept, CallbacksKept
<1>12. Spawned'
  <2>1. \A u \in ReadTask \ {t} : u > t <=> u > made.tasks
    <3> SUFFICES ASSUME NEW u \in ReadTask, u # t PROVE u > t <=> u > made.tasks
      OBVIOUS
    <3>1. u \in Nat
      BY Numbers
    <3> QED BY <1>2, <1>4, <3>1
  <2>2. \A u \in ReadTask : /\ tpc'[u] = "unborn" <=> u > t
                            /\ reads'[u] = 0 <=> u > t
    BY <1>1, <1>7, <1>8, <1>9, <2>1, Numbers DEF Spawned
  <2>3. \A u \in flagged \cup aborted : u <= t
    BY <1>8, StoppedPast
  <2>4. conn'.stop <= t /\ conn'.thread <= t
    <3>1. conn'.stop <= t
      BY <1>7, <1>8
    <3>2. conn.thread \in ReadTask \cup {0} /\ conn.thread <= made.tasks
      BY <1>1 DEF Spawned, Entries
    <3> QED BY <1>7, <1>8, <3>1, <3>2
  <2>5. ASSUME NEW d \in Clients
        PROVE  /\ reg'[d].stop <= t /\ reg'[d].thread <= t
               /\ pc'[d] = "install" => reg'[d].thread # 0
    <3>1. CASE d = c
      BY <1>5, <1>6, <1>8, <3>1 DEF Moved
    <3>2. CASE d # c
      <4>1. reg[d] \in Holdings /\ pc'[d] = pc[d] /\ reg'[d] = reg[d]
        BY <1>1, <1>6, <3>2 DEF TypeOK, Moved
      <4> QED BY <1>1, <1>8, <4>1 DEF Spawned, Holdings
    <3> QED BY <3>1, <3>2
  <2> QED BY <1>3, <1>4, <2>2, <2>3, <2>4, <2>5 DEF Spawned
<1>13. NewStreams'
  <2>1. \A d \in Clients : pc'[d] = "insert" => pc[d] = "insert" /\ reg'[d] = reg[d]
    BY <1>6 DEF Moved
  <2>2. \A u \in ReadTask : reads'[u] \in {reads[u], conn.stream}
    BY <1>9
  <2> QED BY <1>1, <1>4, <1>7, <2>1, <2>2 DEF NewStreams
<1>14. Past'
  <2>1. \A u \in flagged \cup aborted : reads'[u] # conn.stream
    BY <1>8, <1>9, StoppedPast
  <2>2. ASSUME NEW d \in Clients, pc'[d] = "stop", NEW u \in {reg'[d].stop, reg'[d].thread} \ {0}
        PROVE  reads'[u] # conn.stream
    <3>1. pc[d] = "stop" /\ reg'[d] = reg[d] /\ reg[d] \in Holdings
      BY <1>1, <1>6, <2>2 DEF Moved, TypeOK
    <3>2. u \in ReadTask /\ u <= made.tasks /\ reads[u] # conn.stream
      BY <1>1, <2>2, <3>1 DEF Spawned, Past, Holdings
    <3> QED BY <1>8, <1>9, <3>2
  <2> QED BY <1>3, <1>7, <2>1, <2>2 DEF Past
<1>15. Exclusive'
  BY <1>1, <1>9 DEF Exclusive
<1>16. Ending'
  BY <1>1, <1>3, <1>7, <1>9 DEF Ending, streamVars
<1>17. Data'
  <2>1. \A s \in Stream : InHand(s)' = InHand(s)
    BY <1>3, <1>8, <1>9 DEF InHand
  <2>2. UNCHANGED <<got, delivered, hand>>
    BY <1>3 DEF streamVars
  <2>3. \A s \in Stream : (\A u \in ReadTask : reads'[u] # s) => \A u \in ReadTask : reads[u] # s
    BY <1>8, <1>9, Numbers
  <2>4. (\A s \in Stream : (\A u \in ReadTask : reads[u] # s)
                           => got[s] = 0 /\ delivered[s] = <<>>)'
    BY <1>1, <2>2, <2>3 DEF Data
  <2>5. (\A s \in Stream : /\ Increasing(delivered[s])
                          /\ \A i \in DOMAIN delivered[s] : delivered[s][i] <= got[s])'
    BY <1>1, <2>2 DEF Data, Increasing
  <2>6. (\A s \in Stream : \A u \in InHand(s) :
            /\ hand[u] = got[s]
            /\ \A i \in DOMAIN delivered[s] : delivered[s][i] < hand[u])'
    BY <1>1, <2>1, <2>2 DEF Data
  <2>7. (Connected => Len(delivered[conn.stream]) + Gap(conn.stream) = got[conn.stream])'
    <3>1. Connected /\ Gap(conn.stream)' = Gap(conn.stream)
      BY <1>3, <1>7, <2>1 DEF Connected, Gap
    <3> QED BY <1>1, <1>7, <2>2, <3>1 DEF Data
  <2> QED BY <2>4, <2>5, <2>6, <2>7 DEF Data
<1> QED BY <1>10, <1>11, <1>12, <1>13, <1>14, <1>15, <1>16, <1>17 DEF IInv

-----------------------------------------------------------------------------
(***************************************************************************)
(* Read tasks: what their steps leave to the callers                       *)
(***************************************************************************)
\* Task t goes to place l.
Went(t, l) == /\ tpc' \in [ReadTask -> TaskPlaces] /\ tpc'[t] = l
              /\ \A u \in ReadTask \ {t} : tpc'[u] = tpc[u]

LEMMA TaskGotoGoes ==
    ASSUME TypeOK, NEW t \in ReadTask, NEW l \in TaskPlaces, TaskGoto(t, l)
    PROVE  Went(t, l)
BY DEF TypeOK, TaskGoto, Went

\* What the steps of tasks have in common: a task that is alive goes elsewhere, and
\* nothing but data changes.
TaskStep(t, l) ==
    /\ tpc[t] # "unborn" /\ l # "unborn" /\ Went(t, l)
    /\ UNCHANGED <<waitingCallback, waitingListener, reads, clientVars, called>>
    /\ made' \in Counts /\ made'.streams = made.streams /\ made'.tasks = made.tasks
    /\ made'.callbacks = made.callbacks

LEMMA TaskKeepsCallers ==
    ASSUME IInv, NEW t \in ReadTask, NEW l, TaskStep(t, l), UNCHANGED <<conn, flagged, aborted>>
    PROVE  Callbacks' /\ Spawned' /\ NewStreams' /\ Past'
<1>1. TypeOK /\ Callbacks /\ Spawned /\ NewStreams /\ Past
  BY DEF IInv
<1>2. UNCHANGED <<waitingCallback, reads, pc, reg, called>>
  BY DEF TaskStep, clientVars
<1>3. \A u \in ReadTask : tpc'[u] = "unborn" <=> tpc[u] = "unborn"
  BY DEF TaskStep, Went
<1>4. \A cb \in Callback : Callers(cb)' = Callers(cb)
  BY <1>2 DEF Callers
<1>5. Callbacks'
  BY <1>1, <1>2, <1>4, CallbacksKept DEF TaskStep
<1>6. Spawned'
  BY <1>1, <1>2, <1>3 DEF Spawned, TaskStep
<1>7. NewStreams'
  BY <1>1, <1>2 DEF NewStreams, TaskStep
<1>8. Past'
  BY <1>1, <1>2 DEF Past
<1> QED BY <1>5, <1>6, <1>7, <1>8

\* A step that reads and delivers nothing, of a task that has no data in hand after it.
LEMMA DataKept ==
    ASSUME IInv, NEW t \in ReadTask, NEW l, Went(t, l), UNCHANGED <<got, delivered, reads>>,
           conn'.stream \in {conn.stream, 0}, conn'.stream = conn.stream => t \notin InHand(conn.stream),
           l # "deliver" \/ hand'[t] = 0,
           \A u \in ReadTask \ {t} : hand'[u] = hand[u]
    PROVE  Data'
<1>1. TypeOK /\ Data
  BY DEF IInv
<1>2. \A s \in Stream : InHand(s)' = InHand(s) \ {t}
  BY DEF InHand, Went
<1>3. (\A s \in Stream : (\A u \in ReadTask : reads[u] # s)
                           => got[s] = 0 /\ delivered[s] = <<>>)'
  BY <1>1 DEF Data
<1>4. (\A s \in Stream : /\ Increasing(delivered[s])
                          /\ \A i \in DOMAIN delivered[s] : delivered[s][i] <= got[s])'
  BY <1>1 DEF Data, Increasing
<1>5. (\A s \in Stream : \A u \in InHand(s) :
          /\ hand[u] = got[s]
          /\ \A i \in DOMAIN delivered[s] : delivered[s][i] < hand[u])'
  <2> SUFFICES ASSUME NEW s \in Stream, NEW u \in InHand(s) \ {t}
               PROVE  /\ hand'[u] = got[s]
                      /\ \A i \in DOMAIN delivered[s] : delivered[s][i] < hand'[u]
    BY <1>2
  <2>1. u \in ReadTask \ {t}
    BY DEF InHand
  <2> QED BY <1>1, <2>1 DEF Data
<1>6. (Connected => Len(delivered[conn.stream]) + Gap(conn.stream) = got[conn.stream])'
  <2>1. CASE conn'.stream = conn.stream /\ Connected
    <3>1. conn.stream \in Stream
      BY <1>1, <2>1 DEF Connected, TypeOK, Entries
    <3>2. InHand(conn.stream)' = InHand(conn.stream)
      BY <1>2, <2>1, <3>1
    <3>3. Gap(conn.stream)' = Gap(conn.stream)
      BY <3>2 DEF Gap
    <3> QED BY <1>1, <2>1, <3>1, <3>3 DEF Data
  <2>2. CASE conn'.stream = 0
    BY <2>2 DEF Connected
  <2> QED BY <2>1, <2>2 DEF Connected
<1> QED BY <1>3, <1>4, <1>5, <1>6 DEF Data

LEMMA EndingKept ==
    ASSUME IInv, NEW t \in ReadTask, NEW l, Went(t, l), UNCHANGED <<reads, ended>>,
           conn'.stream \in {conn.stream, 0},
           l = "deliver" /\ hand'[t] = 0 => reads[t] \in ended,
           l = "teardown" => reads[t] \in ended \/ reads[t] # conn'.stream,
           \A u \in ReadTask \ {t} : hand'[u] = hand[u]
    PROVE  Ending'
<1>1. Ending /\ Spawned /\ TypeOK
  BY DEF IInv
<1> SUFFICES ASSUME NEW u \in ReadTask
             PROVE  (/\ tpc[u] = "deliver" /\ hand[u] = 0 => reads[u] \in ended
                     /\ tpc[u] = "teardown" => reads[u] \in ended \/ reads[u] # conn.stream)'
  BY DEF Ending
<1>2. CASE u = t
  BY <1>2 DEF Went
<1>3. CASE u # t
  <2>1. tpc'[u] = tpc[u]
    BY <1>3 DEF Went
  <2>2. tpc[u] = "teardown" => reads[u] # 0
    BY <1>1 DEF Spawned
  <2> QED BY <1>1, <1>3, <2>1, <2>2 DEF Ending
<1> QED BY <1>2, <1>3

LEMMA ExclusiveKept ==
    ASSUME IInv, NEW t \in ReadTask, NEW l, Went(t, l), UNCHANGED reads,
           l \in {"read", "deliver"} => tpc[t] \in {"read", "deliver"} \/ ~Locked(reads[t])
    PROVE  Exclusive'
<1>1. Exclusive
  BY DEF IInv
<1>2. ASSUME NEW u \in ReadTask \ {t}, l \in {"read", "deliver"}, reads[u] = reads[t]
      PROVE  tpc[u] \notin {"read", "deliver"}
  BY <1>1, <1>2 DEF Exclusive, Locked
<1> QED BY <1>1, <1>2 DEF Exclusive, Went

\* Steps that read and deliver nothing.
LEMMA TaskIInv ==
    ASSUME IInv, NEW t \in ReadTask, NEW l, TaskStep(t, l),
           UNCHANGED <<conn, flagged, aborted, waitingListener, streamVars>>,
           hand' \in [ReadTask -> Nat], \A u \in ReadTask \ {t} : hand'[u] = hand[u],
           t \notin InHand(conn.stream), l = "deliver" => hand'[t] = 0 /\ reads[t] \in ended,
           l = "teardown" => reads[t] \in ended \/ reads[t] # conn.stream,
           l \in {"read", "deliver"} => tpc[t] \in {"read", "deliver"} \/ ~Locked(reads[t])
    PROVE  IInv'
<1>1. Went(t, l) /\ UNCHANGED <<reads, got, ended, delivered>>
  BY DEF TaskStep, streamVars
<1>2. TypeOK'
  BY <1>1 DEF IInv, TypeOK, TaskStep, Went, clientVars
<1>3. Data'
  BY <1>1, DataKept
<1>4. Ending'
  BY <1>1, EndingKept
<1>5. Exclusive'
  BY <1>1, ExclusiveKept
<1> QED BY <1>2, <1>3, <1>4, <1>5, TaskKeepsCallers DEF IInv

-----------------------------------------------------------------------------
(***************************************************************************)
(* The steps of read tasks                                                 *)
(***************************************************************************)
LEMMA CheckFlagIInv ==
    ASSUME NEW t \in ReadTask, IInv, CheckFlag(t)
    PROVE  IInv'
<1>1. TypeOK /\ Past
  BY DEF IInv
<1> DEFINE l == IF t \in flagged THEN "teardown" ELSE "wait"
<1>2. /\ tpc[t] = "top" /\ TaskGoto(t, l) /\ l \in TaskPlaces
      /\ UNCHANGED <<tableVars, streamVars, reads, hand, flagged, aborted, clientVars, made,
                     called>>
  BY DEF CheckFlag, TaskPlaces
<1>3. TaskStep(t, l)
  BY <1>1, <1>2, TaskGotoGoes DEF TaskStep, tableVars, TypeOK
<1>4. l = "teardown" => reads[t] # conn.stream
  BY <1>1 DEF Past
<1>5. t \notin InHand(conn.stream)
  BY <1>2 DEF InHand
<1> QED BY <1>1, <1>2, <1>3, <1>4, <1>5, TaskIInv DEF tableVars, TypeOK

LEMMA AcquireIInv ==
    ASSUME NEW t \in ReadTask, IInv, Acquire(t)
    PROVE  IInv'
<1>1. TypeOK
  BY DEF IInv
<1>2. /\ tpc[t] = "wait" /\ ~Locked(reads[t]) /\ TaskGoto(t, "read") /\ "read" \in TaskPlaces
      /\ UNCHANGED <<tableVars, streamVars, reads, hand, flagged, aborted, clientVars, made,
                     called>>
  BY DEF Acquire, TaskPlaces
<1>3. TaskStep(t, "read")
  BY <1>1, <1>2, TaskGotoGoes DEF TaskStep, tableVars, TypeOK
<1>4. t \notin InHand(conn.stream)
  BY <1>2 DEF InHand
<1> QED BY <1>1, <1>2, <1>3, <1>4, TaskIInv DEF tableVars, TypeOK

LEMMA PauseIInv ==
    ASSUME NEW t \in ReadTask, IInv, Pause(t)
    PROVE  IInv'
<1>1. TypeOK
  BY DEF IInv
<1>2. /\ tpc[t] = "read" /\ TaskGoto(t, "top") /\ "top" \in TaskPlaces
      /\ UNCHANGED <<tableVars, streamVars, reads, hand, flagged, aborted, clientVars, made,
                     called>>
  BY DEF Pause, TaskPlaces
<1>3. TaskStep(t, "top")
  BY <1>1, <1>2, TaskGotoGoes DEF TaskStep, tableVars, TypeOK
<1>4. t \notin InHand(conn.stream)
  BY <1>2 DEF InHand
<1> QED BY <1>1, <1>2, <1>3, <1>4, TaskIInv DEF tableVars, TypeOK

\* hand[t] becomes n.
LEMMA HandSet ==
    ASSUME TypeOK, NEW t \in ReadTask, NEW n \in Nat, hand' = [hand EXCEPT ![t] = n]
    PROVE  /\ hand' \in [ReadTask -> Nat] /\ hand'[t] = n
           /\ \A u \in ReadTask \ {t} : hand'[u] = hand[u]
BY DEF TypeOK

LEMMA ReadEndIInv ==
    ASSUME NEW t \in ReadTask, IInv, ReadEnd(t)
    PROVE  IInv'
<1>1. TypeOK
  BY DEF IInv
<1>2. /\ tpc[t] = "read" /\ reads[t] \in ended /\ hand' = [hand EXCEPT ![t] = 0]
      /\ TaskGoto(t, "deliver") /\ "deliver" \in TaskPlaces
      /\ UNCHANGED <<tableVars, streamVars, reads, flagged, aborted, clientVars, made, called>>
  BY DEF ReadEnd, TaskPlaces
<1>3. TaskStep(t, "deliver")
  BY <1>1, <1>2, TaskGotoGoes DEF TaskStep, tableVars, TypeOK
<1>4. t \notin InHand(conn.stream)
  BY <1>2 DEF InHand
<1> QED BY <1>1, <1>2, <1>3, <1>4, HandSet, TaskIInv DEF tableVars, TypeOK

LEMMA CancelledIInv ==
    ASSUME NEW t \in ReadTask, IInv, Cancelled(t)
    PROVE  IInv'
<1>1. TypeOK /\ Past
  BY DEF IInv
<1>2. /\ t \in aborted /\ tpc[t] # "unborn" /\ hand' = [hand EXCEPT ![t] = 0]
      /\ TaskGoto(t, "done") /\ "done" \in TaskPlaces
      /\ UNCHANGED <<tableVars, streamVars, reads, flagged, aborted, clientVars, made, called>>
  BY DEF Cancelled, TaskPlaces
<1>3. TaskStep(t, "done")
  BY <1>1, <1>2, TaskGotoGoes DEF TaskStep, tableVars, TypeOK
<1>4. t \notin InHand(conn.stream)
  BY <1>1, <1>2 DEF InHand, Past
<1> QED BY <1>1, <1>2, <1>3, <1>4, HandSet, TaskIInv DEF tableVars, TypeOK

LEMMA TeardownIInv ==
    ASSUME NEW t \in ReadTask, IInv, Teardown(t)
    PROVE  IInv'
<1>1. TypeOK /\ Callbacks /\ Spawned /\ NewStreams /\ Past
  BY DEF IInv
<1>2. /\ tpc[t] = "teardown" /\ TaskGoto(t, "done") /\ "done" \in TaskPlaces
      /\ UNCHANGED <<waitingCallback, waitingListener, streamVars, reads, hand, clientVars,
                     made, called>>
  BY DEF Teardown, TaskPlaces
<1>3. TaskStep(t, "done") /\ Went(t, "done")
  BY <1>1, <1>2, TaskGotoGoes DEF TaskStep, TypeOK
<1>4. t \notin InHand(conn.stream)
  BY <1>2 DEF InHand
<1>5. CASE ~Owns(t)
  <2>1. UNCHANGED <<conn, flagged, aborted>>
    BY <1>5 DEF Teardown
  <2> QED BY <1>1, <1>2, <1>3, <1>4, <2>1, TaskIInv DEF TypeOK
<1>6. CASE Owns(t)
  <2>1. /\ conn' = NoConn
        /\ flagged' = flagged \cup ({conn.stop} \ {0})
        /\ aborted' = aborted \cup ({conn.thread} \ {0})
    BY <1>6 DEF Teardown
  <2>2. /\ conn' \in Entries /\ conn'.stream = 0 /\ conn'.cb = 0
        /\ conn'.stop = 0 /\ conn'.thread = 0
    BY <2>1, NoConnFields
  <2>3. UNCHANGED <<got, ended, delivered, reads, pc, reg, waitingCallback, called, made>>
    BY <1>2 DEF streamVars, clientVars
  <2>4. \A u \in flagged' \cup aborted' : u \in ReadTask /\ u <= made.tasks
    BY <2>1, StoppedPast DEF Entries
  <2>5. TypeOK'
    BY <1>1, <1>2, <1>3, <2>2, <2>3, <2>4 DEF TypeOK, Went
  <2>6. Callbacks'
    <3>1. \A cb \in Callback : Callers(cb)' = Callers(cb)
      BY <2>3 DEF Callers
    <3> QED BY <1>1, <2>2, <2>3, <3>1, CallbacksKept
  <2>7. Spawned'
    <3>1. \A u \in ReadTask : tpc'[u] = "unborn" <=> tpc[u] = "unborn"
      BY <1>2, <1>3 DEF Went
    <3> QED BY <1>1, <2>2, <2>3, <2>4, <3>1, StoppedPast DEF Spawned
  <2>8. NewStreams'
    <3>1. conn'.stream <= made.streams
      BY <1>1, <2>2 DEF TypeOK, Counts
    <3> QED BY <1>1, <2>2, <2>3, <3>1, Numbers DEF NewStreams
  <2>9. Past'
    <3>1. \A u \in ReadTask : u <= made.tasks => reads[u] # 0
      BY StoppedPast
    <3>2. \A c \in Clients : \A u \in {reg[c].stop, reg[c].thread} \ {0} :
            u \in ReadTask /\ u <= made.tasks
      BY <1>1 DEF TypeOK, Holdings, Spawned
    <3> QED BY <2>2, <2>3, <2>4, <3>1, <3>2 DEF Past
  <2>10. Ending'
    BY <1>2, <1>3, <2>2, <2>3, EndingKept
  <2>11. Exclusive'
    BY <1>3, <2>3, ExclusiveKept
  <2>12. Data'
    BY <1>2, <1>3, <1>4, <2>2, <2>3, DataKept
  <2> QED BY <2>5, <2>6, <2>7, <2>8, <2>9, <2>10, <2>11, <2>12 DEF IInv
<1> QED BY <1>5, <1>6

\* A task that reads or delivers is the only one at its stream.
LEMMA Alone ==
    ASSUME IInv, NEW t \in ReadTask, tpc[t] \in {"read", "deliver"}
    PROVE  /\ reads[t] \in Stream
           /\ InHand(reads[t]) = IF tpc[t] = "deliver" /\ hand[t] # 0 THEN {t} ELSE {}
<1>1. TypeOK /\ Spawned /\ Exclusive
  BY DEF IInv
<1>2. reads[t] \in Stream
  BY <1>1 DEF TypeOK, Spawned
<1>3. \A u \in InHand(reads[t]) : u = t
  BY <1>1 DEF Exclusive, InHand
<1> QED BY <1>2, <1>3 DEF InHand

LEMMA ReadDataIInv ==
    ASSUME NEW t \in ReadTask, IInv, ReadData(t)
    PROVE  IInv'
<1>1. TypeOK /\ Data
  BY DEF IInv
<1>2. PICK s \in Stream : s = reads[t]
  BY Alone DEF ReadData
<1>3. PICK n \in Nat : n = got[s]
  BY <1>1 DEF TypeOK
<1>4. /\ tpc[t] = "read" /\ got' = [got EXCEPT ![s] = n + 1]
      /\ hand' = [hand EXCEPT ![t] = n + 1] /\ TaskGoto(t, "deliver")
      /\ "deliver" \in TaskPlaces
      /\ UNCHANGED <<tableVars, ended, delivered, reads, flagged, aborted, clientVars, called>>
  BY <1>2, <1>3 DEF ReadData, TaskPlaces
<1>5. /\ made' \in Counts /\ made'.streams = made.streams /\ made'.tasks = made.tasks
      /\ made'.callbacks = made.callbacks
  <2>1. made \in Counts /\ made.data < MaxData /\ made' = [made EXCEPT !.data = @ + 1]
    BY <1>1 DEF ReadData, TypeOK
  <2> QED BY <2>1, BoundsAssumption DEF Counts
<1>6. TaskStep(t, "deliver") /\ Went(t, "deliver")
  BY <1>1, <1>4, <1>5, TaskGotoGoes DEF TaskStep, tableVars
<1>7. /\ got' \in [Stream -> Nat] /\ got'[s] = n + 1
      /\ \A x \in Stream \ {s} : got'[x] = got[x]
  BY <1>1, <1>3, <1>4 DEF TypeOK
<1>8. /\ hand' \in [ReadTask -> Nat] /\ hand'[t] = n + 1 /\ n + 1 # 0
      /\ \A u \in ReadTask \ {t} : hand'[u] = hand[u]
  <2>1. n + 1 \in Nat /\ n + 1 # 0
    BY <1>3
  <2> QED BY <1>1, <1>4, <2>1, HandSet
<1>9. TypeOK'
  BY <1>1, <1>4, <1>5, <1>6, <1>7, <1>8 DEF TypeOK, tableVars, clientVars, Went
<1>10. Callbacks' /\ Spawned' /\ NewStreams' /\ Past'
  BY <1>4, <1>6, TaskKeepsCallers DEF tableVars
<1>11. Ending'
  BY <1>4, <1>6, <1>8, EndingKept DEF tableVars
<1>12. Exclusive'
  BY <1>4, <1>6, ExclusiveKept
<1>13. Data'
  <2>1. InHand(s) = {} /\ InHand(s)' = {t}
    <3>1. InHand(s) = {}
      BY <1>2, <1>4, Alone
    <3>2. InHand(s)' \subseteq InHand(s) \cup {t}
      BY <1>4, <1>6, <1>8 DEF InHand, Went
    <3>3. t \in InHand(s)'
      BY <1>2, <1>4, <1>6, <1>8 DEF InHand, Went
    <3> QED BY <3>1, <3>2, <3>3
  <2>2. \A x \in Stream \ {s} : InHand(x)' = InHand(x)
    BY <1>2, <1>4, <1>6, <1>8 DEF InHand, Went
  <2>3. UNCHANGED <<conn, delivered, reads>>
    BY <1>4 DEF tableVars
  <2>4. \A i \in DOMAIN delivered[s] : delivered[s][i] \in Nat /\ delivered[s][i] <= n
    BY <1>1, <1>3 DEF Data, TypeOK
  <2>5. (\A x \in Stream : (\A u \in ReadTask : reads[u] # x)
                             => got[x] = 0 /\ delivered[x] = <<>>)'
    BY <1>1, <1>2, <1>7, <2>3 DEF Data
  <2>6. (\A x \in Stream : /\ Increasing(delivered[x])
                            /\ \A i \in DOMAIN delivered[x] : delivered[x][i] <= got[x])'
    <3>1. \A i \in DOMAIN delivered[s] : delivered[s][i] <= n + 1
      BY <2>4
    <3> QED BY <1>1, <1>7, <2>3, <3>1 DEF Data, Increasing
  <2>7. (\A x \in Stream : \A u \in InHand(x) :
            /\ hand[u] = got[x]
            /\ \A i \in DOMAIN delivered[x] : delivered[x][i] < hand[u])'
    <3> SUFFICES ASSUME NEW x \in Stream, NEW u \in InHand(x)'
                 PROVE  /\ hand'[u] = got'[x]
                        /\ \A i \in DOMAIN delivered[x] : delivered[x][i] < hand'[u]
      BY <2>3
    <3>1. CASE x = s
      <4>1. \A i \in DOMAIN delivered[s] : delivered[s][i] < n + 1
        BY <2>4
      <4> QED BY <1>7, <1>8, <2>1, <3>1, <4>1
    <3>2. CASE x # s
      <4>1. u \in InHand(x) /\ u \in ReadTask \ {t}
        BY <1>2, <2>2, <3>2 DEF InHand
      <4> QED BY <1>1, <1>7, <1>8, <3>2, <4>1 DEF Data
    <3> QED BY <3>1, <3>2
  <2>8. (Connected => Len(delivered[conn.stream]) + Gap(conn.stream) = got[conn.stream])'
    <3> SUFFICES ASSUME NEW x \in Stream, x = conn.stream
                 PROVE  Len(delivered[x]) + Gap(x)' = got'[x]
      BY <1>1, <2>3 DEF Connected, TypeOK, Entries
    <3>1. Len(delivered[x]) + Gap(x) = got[x] /\ Len(delivered[x]) \in Nat
      BY <1>1, Numbers DEF Data, Connected, TypeOK
    <3>2. CASE x = s
      <4>1. Gap(x) = 0 /\ Gap(x)' = 1
        BY <2>1, <3>2 DEF Gap
      <4> QED BY <1>3, <1>7, <3>1, <3>2, <4>1
    <3>3. CASE x # s
      <4>1. InHand(x)' = InHand(x)
        BY <2>2, <3>3
      <4>2. Gap(x)' = Gap(x)
        BY <4>1 DEF Gap
      <4> QED BY <1>7, <3>1, <3>3, <4>2
    <3> QED BY <3>2, <3>3
  <2> QED BY <2>5, <2>6, <2>7, <2>8 DEF Data
<1> QED BY <1>9, <1>10, <1>11, <1>12, <1>13 DEF IInv

\* The listener gets something that arrived after all it got before.
LEMMA AppendIncreasing ==
    ASSUME NEW q \in Seq(Nat), NEW n \in Nat, Increasing(q), \A i \in DOMAIN q : q[i] < n
    PROVE  /\ Append(q, n) \in Seq(Nat) /\ Len(Append(q, n)) = Len(q) + 1
           /\ Increasing(Append(q, n))
           /\ \A i \in DOMAIN Append(q, n) : Append(q, n)[i] <= n
<1> DEFINE p == Append(q, n)
<1>1. p \in Seq(Nat) /\ Len(p) = Len(q) + 1 /\ DOMAIN p = 1..Len(q) + 1
  OBVIOUS
<1>2. /\ DOMAIN q = 1..Len(q) /\ Len(q) \in Nat
      /\ \A i \in DOMAIN q : p[i] = q[i] /\ q[i] \in Nat
      /\ p[Len(q) + 1] = n
  OBVIOUS
<1> HIDE DEF p
<1>3. \A i \in DOMAIN p : i \in DOMAIN q \/ i = Len(q) + 1
  BY <1>1, <1>2
<1>4. \A i \in DOMAIN p : p[i] <= n
  BY <1>2, <1>3
<1>5. Increasing(p)
  <2> SUFFICES ASSUME NEW i \in DOMAIN p, NEW j \in DOMAIN p, i < j
               PROVE  p[i] < p[j]
    BY DEF Increasing
  <2>1. i \in DOMAIN q
    BY <1>1, <1>2
  <2>2. CASE j \in DOMAIN q
    BY <1>2, <2>1, <2>2 DEF Increasing
  <2>3. CASE j = Len(q) + 1
    BY <1>2, <2>1, <2>3
  <2> QED BY <1>3, <2>2, <2>3
<1> QED BY <1>1, <1>4, <1>5 DEF p

LEMMA DeliverIInv ==
    ASSUME NEW t \in ReadTask, IInv, Deliver(t)
    PROVE  IInv'
<1>1. TypeOK /\ Data /\ Ending
  BY DEF IInv
<1>2. /\ tpc[t] = "deliver" /\ hand' = [hand EXCEPT ![t] = 0]
      /\ UNCHANGED <<tableVars, got, ended, reads, flagged, aborted, clientVars, made, called>>
  BY DEF Deliver
<1>3. /\ hand' \in [ReadTask -> Nat] /\ hand'[t] = 0
      /\ \A u \in ReadTask \ {t} : hand'[u] = hand[u]
  BY <1>1, <1>2, HandSet
<1>4. CASE hand[t] = 0
  <2>1. TaskGoto(t, "teardown") /\ UNCHANGED delivered /\ "teardown" \in TaskPlaces
    BY <1>4 DEF Deliver, TaskPlaces
  <2>2. TaskStep(t, "teardown")
    BY <1>1, <1>2, <2>1, TaskGotoGoes DEF TaskStep, tableVars, TypeOK
  <2>3. t \notin InHand(conn.stream)
    BY <1>4 DEF InHand
  <2>4. reads[t] \in ended
    BY <1>1, <1>2, <1>4 DEF Ending
  <2> QED BY <1>1, <1>2, <1>3, <2>1, <2>2, <2>3, <2>4, TaskIInv DEF tableVars, streamVars, TypeOK
<1>5. CASE hand[t] # 0
  <2>0. PICK s \in Stream : s = reads[t]
    BY <1>2, Alone
  <2>1. InHand(s) = {t}
    BY <1>2, <1>5, <2>0, Alone
  <2>2. PICK n \in Nat : n = hand[t] /\ n = got[s]
    BY <1>1, <2>1 DEF Data, TypeOK
  <2>3. /\ TaskGoto(t, "top") /\ "top" \in TaskPlaces
        /\ delivered' = [delivered EXCEPT ![s] = Append(delivered[s], n)]
    BY <1>5, <2>0, <2>2 DEF Deliver, TaskPlaces
  <2>4. TaskStep(t, "top") /\ Went(t, "top")
    BY <1>1, <1>2, <2>3, TaskGotoGoes DEF TaskStep, tableVars, TypeOK
  <2>5. /\ delivered[s] \in Seq(Nat) /\ Increasing(delivered[s])
        /\ \A i \in DOMAIN delivered[s] : delivered[s][i] < n
    BY <1>1, <2>1, <2>2 DEF Data, TypeOK
  <2>6. /\ Append(delivered[s], n) \in Seq(Nat)
        /\ Len(Append(delivered[s], n)) = Len(delivered[s]) + 1
        /\ Increasing(Append(delivered[s], n))
        /\ \A i \in DOMAIN Append(delivered[s], n) : Append(delivered[s], n)[i] <= n
    BY <2>5, AppendIncreasing
  <2>7. /\ delivered' \in [Stream -> Seq(Nat)]
        /\ delivered'[s] = Append(delivered[s], n)
        /\ \A x \in Stream \ {s} : delivered'[x] = delivered[x]
    BY <1>1, <2>3, <2>6 DEF TypeOK
  <2>8. TypeOK'
    BY <1>1, <1>2, <1>3, <2>4, <2>7 DEF TypeOK, tableVars, clientVars, Went
  <2>9. Callbacks' /\ Spawned' /\ NewStreams' /\ Past'
    BY <1>2, <2>4, TaskKeepsCallers DEF tableVars
  <2>10. Ending'
    BY <1>2, <1>3, <2>4, EndingKept DEF tableVars
  <2>11. Exclusive'
    BY <1>2, <2>4, ExclusiveKept
  <2>12. Data'
    <3>1. InHand(s)' = {}
      BY <1>2, <1>3, <2>1, <2>4 DEF InHand, Went
    <3>2. \A x \in Stream \ {s} : InHand(x)' = InHand(x)
      BY <1>2, <1>3, <2>0, <2>4 DEF InHand, Went
    <3>3. UNCHANGED <<conn, got, reads>>
      BY <1>2 DEF tableVars
    <3>4. (\A x \in Stream : (\A u \in ReadTask : reads[u] # x)
                               => got[x] = 0 /\ delivered[x] = <<>>)'
      BY <1>1, <2>0, <2>7, <3>3 DEF Data
    <3>5. (\A x \in Stream : /\ Increasing(delivered[x])
                              /\ \A i \in DOMAIN delivered[x] : delivered[x][i] <= got[x])'
      <4> SUFFICES ASSUME NEW x \in Stream
                   PROVE  /\ Increasing(delivered'[x])
                          /\ \A i \in DOMAIN delivered'[x] : delivered'[x][i] <= got[x]
        BY <3>3 DEF Increasing
      <4>1. CASE x = s
        BY <2>2, <2>6, <2>7, <4>1
      <4>2. CASE x # s
        BY <1>1, <2>7, <4>2 DEF Data
      <4> QED BY <4>1, <4>2
    <3>6. (\A x \in Stream : \A u \in InHand(x) :
              /\ hand[u] = got[x]
              /\ \A i \in DOMAIN delivered[x] : delivered[x][i] < hand[u])'
      <4> SUFFICES ASSUME NEW x \in Stream, NEW u \in InHand(x)'
                   PROVE  /\ hand'[u] = got'[x]
                          /\ \A i \in DOMAIN delivered'[x] : delivered'[x][i] < hand'[u]
        OBVIOUS
      <4>1. x # s
        BY <3>1
      <4>2. u \in InHand(x) /\ u \in ReadTask \ {t}
        BY <2>0, <3>2, <4>1 DEF InHand
      <4> QED BY <1>1, <1>3, <2>7, <3>3, <4>1, <4>2 DEF Data
    <3>7. (Connected => Len(delivered[conn.stream]) + Gap(conn.stream) = got[conn.stream])'
      <4> SUFFICES ASSUME NEW x \in Stream, x = conn.stream
                   PROVE  Len(delivered'[x]) + Gap(x)' = got[x]
        BY <1>1, <3>3 DEF Connected, TypeOK, Entries
      <4>1. Len(delivered[x]) + Gap(x) = got[x] /\ Len(delivered[x]) \in Nat
        BY <1>1, Numbers DEF Data, Connected, TypeOK
      <4>2. CASE x = s
        <5>1. Gap(x) = 1 /\ Gap(x)' = 0
          BY <2>1, <3>1, <4>2 DEF Gap
        <5> QED BY <2>6, <2>7, <4>1, <4>2, <5>1
      <4>3. CASE x # s
        <5>1. InHand(x)' = InHand(x)
          BY <3>2, <4>3
        <5>2. Gap(x)' = Gap(x)
          BY <5>1 DEF Gap
        <5> QED BY <2>7, <4>1, <4>3, <5>2
      <4> QED BY <4>2, <4>3
    <3> QED BY <3>4, <3>5, <3>6, <3>7 DEF Data
  <2> QED BY <2>8, <2>9, <2>10, <2>11, <2>12 DEF IInv
<1> QED BY <1>4, <1>5

LEMMA PeerEndsIInv ==
    ASSUME NEW s \in Stream, IInv, PeerEnds(s)
    PROVE  IInv'
<1>1. /\ ended' = ended \cup {s}
      /\ UNCHANGED <<conn, waitingCallback, waitingListener, got, delivered, tpc, reads, hand,
                     flagged, aborted, pc, reg, made, called>>
  BY DEF PeerEnds, tableVars, taskVars, clientVars
<1>2. /\ TypeOK /\ Callbacks /\ Spawned /\ NewStreams /\ Past /\ Ending /\ Exclusive /\ Data
  BY DEF IInv
<1>3. TypeOK'
  BY <1>1, <1>2 DEF TypeOK
<1>4. Ending'
  BY <1>1, <1>2 DEF Ending
<1>5. Callbacks'
  BY <1>1, <1>2 DEF Callbacks, Callers
<1>6. Spawned' /\ NewStreams' /\ Past' /\ Exclusive'
  BY <1>1, <1>2 DEF Spawned, NewStreams, Past, Exclusive
<1>7. Data'
  BY <1>1, <1>2 DEF Data, InHand, Gap, Increasing, Connected
<1> QED BY <1>3, <1>4, <1>5, <1>6, <1>7 DEF IInv

-----------------------------------------------------------------------------
(***************************************************************************)
(* The theorems                                                            *)
(***************************************************************************)
LEMMA InitIInv == Init => IInv
<1> SUFFICES ASSUME Init PROVE IInv
  OBVIOUS
<1>1. /\ conn \in Entries /\ conn.stream = 0 /\ conn.cb = 0 /\ conn.stop = 0 /\ conn.thread = 0
  BY NoConnFields DEF Init
<1>2. /\ made.streams = 0 /\ made.tasks = 0 /\ made.callbacks = 0 /\ made \in Counts
  BY BoundsAssumption DEF Init, Counts
<1>3. Nothing \in Holdings /\ Nothing.stop = 0 /\ Nothing.thread = 0
  BY HoldingFields DEF Nothing
<1>4. TypeOK
  <2>1. delivered \in [Stream -> Seq(Nat)]
    BY DEF Init
  <2>2. pc \in [Clients -> Places] /\ reg \in [Clients -> Holdings]
    BY <1>3 DEF Init, Places
  <2>3. tpc \in [ReadTask -> TaskPlaces] /\ reads \in [ReadTask -> Stream \cup {0}]
    BY DEF Init, TaskPlaces
  <2> QED BY <1>1, <1>2, <2>1, <2>2, <2>3 DEF Init, TypeOK
<1>5. Callbacks
  BY <1>1, Numbers DEF Init, Callbacks, Callers
<1>6. Spawned
  <2>1. \A t \in ReadTask : t > 0
    BY BoundsAssumption DEF ReadTask
  <2> QED BY <1>1, <1>2, <1>3, <2>1 DEF Init, Spawned
<1>7. NewStreams
  BY <1>1, <1>2 DEF Init, NewStreams
<1>8. Past /\ Ending /\ Exclusive
  BY DEF Init, Past, Ending, Exclusive
<1>9. Data
  BY <1>1 DEF Init, Data, InHand, Connected, Increasing
<1> QED BY <1>4, <1>5, <1>6, <1>7, <1>8, <1>9 DEF IInv

LEMMA NextIInv == IInv /\ [Next]_vars => IInv'
<1> SUFFICES ASSUME IInv, [Next]_vars PROVE IInv'
  OBVIOUS
<1>1. ASSUME NEW c \in Clients, Begin(c) PROVE IInv'
  BY <1>1, ConnectIInv, DisconnectIInv, OnConnectedIInv, SetListenerIInv, SubscribeIInv,
     PassingIInv DEF Begin
<1>2. ASSUME NEW c \in Clients, Continue(c) PROVE IInv'
  BY <1>2, StopIInv, ConnectSucceedsIInv, InsertIInv, CallIInv, InstallIInv, PassingIInv
     DEF Continue
<1>3. ASSUME NEW t \in ReadTask, Reader(t) PROVE IInv'
  BY <1>3, CheckFlagIInv, AcquireIInv, PauseIInv, ReadDataIInv, ReadEndIInv, DeliverIInv,
     TeardownIInv, CancelledIInv DEF Reader
<1>4. CASE UNCHANGED vars
  <2>1. UNCHANGED <<conn, waitingCallback, waitingListener, got, ended, delivered, tpc, reads,
                    hand, flagged, aborted, pc, reg, made, called>>
    BY <1>4 DEF vars, tableVars, streamVars, taskVars, clientVars
  <2>2. TypeOK' /\ Callbacks' /\ Spawned' /\ NewStreams'
    BY <2>1 DEF IInv, TypeOK, Callbacks, Callers, Spawned, NewStreams
  <2>3. Past' /\ Ending' /\ Exclusive'
    BY <2>1 DEF IInv, Past, Ending, Exclusive
  <2>4. Data'
    BY <2>1 DEF IInv, Data, InHand, Gap, Increasing, Connected
  <2> QED BY <2>2, <2>3, <2>4 DEF IInv
<1> QED BY <1>1, <1>2, <1>3, <1>4, PeerEndsIInv DEF Next

\* The inductive invariant holds: a callback is at one place at a time, a stream is
\* inserted once and before any task reads it, stopped tasks are of the past, and one
\* task at a time takes data from a stream to the listener.
THEOREM Invariance == Spec => []IInv
<1>1. Init => IInv
  BY InitIInv
<1>2. IInv /\ [Next]_vars => IInv'
  BY NextIInv
<1> QED BY <1>1, <1>2, PTL DEF Spec

\* The listener gets the data in the order of arrival, and while their connection is
\* the current one nothing is lost and nothing given twice, whatever number of
\* subscriptions read the stream.
THEOREM DataStaysInOrder == Spec => []InOrder
<1>1. IInv => InOrder
  <2> SUFFICES ASSUME IInv PROVE InOrder
    OBVIOUS
  <2>1. TypeOK /\ Exclusive /\ Data
    BY DEF IInv
  <2>2. ASSUME NEW s \in Stream PROVE Cardinality(InHand(s)) = Gap(s)
    <3>1. CASE InHand(s) = {}
      BY <3>1, FS_EmptySet DEF Gap
    <3>2. CASE InHand(s) # {}
      <4>1. PICK t : InHand(s) = {t}
        BY <2>1, <3>2 DEF InHand, Exclusive
      <4> QED BY <4>1, FS_Singleton DEF Gap
    <3> QED BY <3>1, <3>2
  <2>3. Connected => conn.stream \in Stream
    BY <2>1 DEF Connected, TypeOK, Entries
  <2> QED BY <2>1, <2>2, <2>3 DEF InOrder, Data
<1> QED BY <1>1, Invariance, PTL

\* A callback is called once, when the connection that it was registered for is there
\* or comes, and not while it waits: connect and on_connected never both call it.
THEOREM CallbacksOnce == Spec => []CallbackOnce
<1>1. IInv => CallbackOnce
  <2> SUFFICES ASSUME IInv, NEW cb \in Callback
               PROVE  /\ Due(cb) <= 1
                      /\ conn.cb = cb => Due(cb) = 1
                      /\ waitingCallback = cb => Due(cb) = 0
    BY DEF CallbackOnce
  <2>1. TypeOK /\ Callbacks
    BY DEF IInv
  <2>2. called[cb] \in Nat
    BY <2>1 DEF TypeOK
  <2>3. Due(cb) = called[cb] + Cardinality(Callers(cb))
    BY DEF Due, Callers
  <2>4. CASE Callers(cb) = {}
    <3>1. Cardinality(Callers(cb)) = 0
      BY <2>4, FS_EmptySet
    <3> QED BY <2>1, <2>2, <2>3, <2>4, <3>1 DEF Callbacks
  <2>5. CASE Callers(cb) # {}
    <3>1. PICK c : Callers(cb) = {c}
      BY <2>1, <2>5 DEF Callbacks
    <3>2. Cardinality(Callers(cb)) = 1
      BY <3>1, FS_Singleton
    <3>3. called[cb] = 0 /\ waitingCallback # cb
      BY <2>1, <2>5 DEF Callbacks
    <3> QED BY <2>3, <3>2, <3>3
  <2> QED BY <2>4, <2>5
<1> QED BY <1>1, Invariance, PTL

LEMMA HealthyCaller ==
    ASSUME IInv, NEW c \in Clients, Begin(c) \/ Continue(c), Connected, ~Connected'
    PROVE  ~UNCHANGED clientVars
<1>1. TypeOK /\ NewStreams /\ conn \in Entries
  BY DEF IInv, TypeOK
<1>2. CASE Connect(c) \/ Disconnect(c)
  <2>1. PICK next : TakeConnection(c, next) /\ pc[c] = "idle"
    BY <1>2 DEF Connect, Disconnect
  <2>2. pc' = [pc EXCEPT ![c] = "stop"]
    BY <2>1 DEF TakeConnection, Goto
  <2> QED BY <1>1, <2>1, <2>2 DEF TypeOK, clientVars
<1>3. CASE Insert(c)
  <2>1. reg[c].stream \in Stream /\ conn' = Entry(reg[c].stream, waitingCallback, waitingListener)
    BY <1>1, <1>3 DEF Insert, NewStreams
  <2>2. conn'.stream = reg[c].stream
    BY <2>1 DEF Entry
  <2> QED BY <2>1, <2>2, Numbers DEF Connected
<1>4. CASE ~(Connect(c) \/ Disconnect(c) \/ Insert(c))
  <2>1. conn'.stream = conn.stream
    BY <1>1, <1>4 DEF Begin, Continue, OnConnected, SetListener, Subscribe, SendLookup, Stop,
       ConnectFails, ConnectSucceeds, Call, Install, SendLock, SendEnds, tableVars, Entries
  <2> QED BY <2>1 DEF Connected
<1> QED BY <1>2, <1>3, <1>4

\* Only callers end a connection whose peer is still there: a read task tears down no
\* connection but one whose stream it saw ending.
THEOREM HealthyAreKept == Spec => HealthyKept
<1>1. IInv /\ [Next]_vars => [Connected /\ ~Connected' /\ UNCHANGED clientVars
                                => conn.stream \in ended]_vars
  <2> SUFFICES ASSUME IInv, Next, Connected, ~Connected', UNCHANGED clientVars
               PROVE  conn.stream \in ended
    OBVIOUS
  <2>1. PICK t \in ReadTask : Reader(t)
    <3>1. ~ \E s \in Stream : PeerEnds(s)
      BY DEF PeerEnds, tableVars, Connected
    <3> QED BY <3>1, HealthyCaller DEF Next
  <2>2. Teardown(t) /\ Owns(t)
    BY <2>1 DEF Reader, CheckFlag, Acquire, Pause, ReadData, ReadEnd, Deliver, Teardown,
       Cancelled, tableVars, Connected
  <2> QED BY <2>2 DEF Teardown, Owns, IInv, Ending
<1> QED BY <1>1, Invariance, PTL DEF Spec, HealthyKept

\* A caller that stops what it displaced, however late, stops no task that reads the
\* current connection.
THEOREM CurrentReadersRun == Spec => []CurrentReaderRuns
<1>1. IInv => CurrentReaderRuns
  BY DEF IInv, Past, CurrentReaderRuns
<1> QED BY <1>1, Invariance, PTL
=============================================================================
