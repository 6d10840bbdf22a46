-------------------------- MODULE LinuxConnection --------------------------
(***************************************************************************)
(* Connections of the Linux backend (src/linux/implementation.rs) to one   *)
(* device: callers on threads of their own, and read tasks on the Tokio    *)
(* runtime.  Devices share nothing but the lock on STATE.                  *)
(*                                                                         *)
(* A critical section of STATE is one step; what a caller took out of it   *)
(* is in reg.  A stream is an Arc<Mutex<Stream>>: it stays open as long as *)
(* the map, a task or a caller holds it (Held), and its asynchronous mutex *)
(* is held by the task that reads or delivers, or by the caller that       *)
(* writes (Locked).  Received data are the numbers 1, 2, ... in the order  *)
(* of arrival.  Calls that change nothing are left out.                    *)
(*                                                                         *)
(* A definition whose name begins with Bad is the definition after it with *)
(* a mistake in it; the runs check that a property notices.                *)
(***************************************************************************)
EXTENDS Naturals, Sequences, FiniteSets

CONSTANTS
    Clients,       \* callers' threads
    MaxStreams,    \* bound: streams that get connected
    MaxTasks,      \* bound: read tasks
    MaxCallbacks,  \* bound: on_connected calls
    MaxData        \* bound: data read, on all streams together

ASSUME BoundsAssumption == {MaxStreams, MaxTasks, MaxCallbacks, MaxData} \subseteq Nat

Stream   == 1..MaxStreams
ReadTask == 1..MaxTasks
Callback == 1..MaxCallbacks

VARIABLES
    conn,             \* the device's entry of GlobalState.connections
    waitingCallback,  \* ... of on_connected_callbacks, or 0
    waitingListener,  \* whether data_listener_callbacks has one
    made,             \* how many streams, tasks, callbacks and data there are
    called,           \* how often each callback was called
    got, ended,       \* per stream: data read; streams whose peer is gone
    delivered,        \* per stream: the data given to a listener
    tpc, reads, hand, \* per task: where it is, its stream, the data it has read
    flagged, aborted, \* tasks whose stop flag is set, whose handle was aborted
    pc, reg           \* per client: where it is, what it took from the state

tableVars  == <<conn, waitingCallback, waitingListener>>
streamVars == <<got, ended, delivered>>
taskVars   == <<tpc, reads, hand, flagged, aborted>>
clientVars == <<pc, reg>>
vars == <<tableVars, streamVars, taskVars, clientVars, made, called>>

\* DeviceConnection; stream 0 is an absent entry, stop and thread are tasks or 0.
Entry(s, cb, l) == [stream |-> s, stop |-> 0, thread |-> 0, cb |-> cb, listener |-> l]
NoConn == Entry(0, 0, FALSE)
Connected == conn.stream # 0

\* What a caller holds, and where it goes after stop_connection.
Holding(s, stop, thread, cb, next) ==
    [stream |-> s, stop |-> stop, thread |-> thread, cb |-> cb, next |-> next]
Nothing == Holding(0, 0, 0, 0, "idle")

Goto(c, l, r) == pc' = [pc EXCEPT ![c] = l] /\ reg' = [reg EXCEPT ![c] = r]
Return(c) == Goto(c, "idle", Nothing)
TaskGoto(t, l) == tpc' = [tpc EXCEPT ![t] = l]
Running(t) == tpc[t] \notin {"unborn", "done"}

\* Who keeps a stream open, and who holds its mutex.
Held(s) == \/ conn.stream = s
           \/ \E t \in ReadTask : Running(t) /\ reads[t] = s
           \/ \E c \in Clients : reg[c].stream = s
BadLocked(s) == \/ \E t \in ReadTask : tpc[t] = "read" /\ reads[t] = s
                \/ \E c \in Clients : pc[c] = "write" /\ reg[c].stream = s
Locked(s) == \/ \E t \in ReadTask : tpc[t] \in {"read", "deliver"} /\ reads[t] = s
             \/ \E c \in Clients : pc[c] = "write" /\ reg[c].stream = s

-----------------------------------------------------------------------------
(***************************************************************************)
(* Callers                                                                 *)
(***************************************************************************)
\* Take the entry out of the map; the caller stops it after unlocking.
TakeConnection(c, next) ==
    /\ conn' = NoConn
    /\ IF Connected
       THEN Goto(c, "stop", Holding(conn.stream, conn.stop, conn.thread, 0, next))
       ELSE Goto(c, next, Nothing)

\* stop_connection
BadStop(c) ==
    /\ pc[c] = "stop"
    /\ aborted' = aborted \cup ({reg[c].thread} \ {0})
    /\ Goto(c, reg[c].next, Nothing)
    /\ UNCHANGED <<tableVars, streamVars, tpc, reads, hand, flagged, made, called>>
Stop(c) ==
    /\ pc[c] = "stop"
    /\ flagged' = flagged \cup ({reg[c].stop} \ {0})
    /\ aborted' = aborted \cup ({reg[c].thread} \ {0})
    /\ Goto(c, reg[c].next, Nothing)
    /\ UNCHANGED <<tableVars, streamVars, tpc, reads, hand, made, called>>

\* connect, up to the removal of the old connection; none is begun once the streams
\* of the bound are used up
Connect(c) ==
    /\ pc[c] = "idle" /\ made.streams < MaxStreams
    /\ TakeConnection(c, "connecting")
    /\ UNCHANGED <<waitingCallback, waitingListener, streamVars, taskVars, made, called>>

ConnectFails(c) ==
    /\ pc[c] = "connecting"
    /\ Return(c)
    /\ UNCHANGED <<tableVars, streamVars, taskVars, made, called>>

\* The profile or one of the channels gives a stream.
ConnectSucceeds(c) ==
    /\ pc[c] = "connecting" /\ made.streams < MaxStreams
    /\ made' = [made EXCEPT !.streams = @ + 1]
    /\ Goto(c, "insert", Holding(made.streams + 1, 0, 0, 0, "idle"))
    /\ UNCHANGED <<tableVars, streamVars, taskVars, called>>

\* The callback, if there is one, is called after unlocking.
CallLater(c, cb) == IF cb = 0 THEN Return(c) ELSE Goto(c, "call", Holding(0, 0, 0, cb, "idle"))

\* The new connection takes the waiting callbacks with it.  An entry that another
\* connect has inserted meanwhile is dropped, not stopped.
BadInsert(c) ==
    /\ pc[c] = "insert"
    /\ conn' = Entry(reg[c].stream, waitingCallback, waitingListener)
    /\ CallLater(c, waitingCallback)
    /\ UNCHANGED <<waitingCallback, waitingListener, streamVars, taskVars, made, called>>
Insert(c) ==
    /\ pc[c] = "insert"
    /\ conn' = Entry(reg[c].stream, waitingCallback, waitingListener)
    /\ waitingCallback' = 0 /\ waitingListener' = FALSE
    /\ CallLater(c, waitingCallback)
    /\ UNCHANGED <<streamVars, taskVars, made, called>>

Call(c) ==
    /\ pc[c] = "call"
    /\ called' = [called EXCEPT ![reg[c].cb] = @ + 1]
    /\ Return(c)
    /\ UNCHANGED <<tableVars, streamVars, taskVars, made>>

\* on_connected, with a callback of its own for every call
OnConnected(c) ==
    /\ pc[c] = "idle" /\ made.callbacks < MaxCallbacks
    /\ made' = [made EXCEPT !.callbacks = @ + 1]
    /\ LET cb == made.callbacks + 1
       IN  IF Connected
           THEN /\ conn' = [conn EXCEPT !.cb = cb]
                /\ CallLater(c, cb)
                /\ UNCHANGED waitingCallback
           ELSE waitingCallback' = cb /\ UNCHANGED <<conn, clientVars>>
    /\ UNCHANGED <<waitingListener, streamVars, taskVars, called>>

\* set_data_listener
SetListener(c) ==
    /\ pc[c] = "idle"
    /\ IF Connected
       THEN conn' = [conn EXCEPT !.listener = TRUE] /\ UNCHANGED waitingListener
       ELSE waitingListener' = TRUE /\ UNCHANGED conn
    /\ UNCHANGED <<waitingCallback, streamVars, taskVars, clientVars, made, called>>

\* start_subscription: check the entry, give it a stop flag and spawn the task ...
Subscribe(c) ==
    /\ pc[c] = "idle" /\ made.tasks < MaxTasks
    /\ Connected /\ conn.thread = 0 /\ conn.listener
    /\ LET t == made.tasks + 1
       IN  /\ made' = [made EXCEPT !.tasks = t]
           /\ conn' = [conn EXCEPT !.stop = t]
           /\ TaskGoto(t, "top")
           /\ reads' = [reads EXCEPT ![t] = conn.stream]
           /\ Goto(c, "install", Holding(0, 0, t, 0, "idle"))
    /\ UNCHANGED <<waitingCallback, waitingListener, streamVars, hand, flagged, aborted,
                   called>>

\* ... and store its handle in the entry there is by then.
Install(c) ==
    /\ pc[c] = "install"
    /\ IF Connected
       THEN conn' = [conn EXCEPT !.thread = reg[c].thread] /\ UNCHANGED aborted
       ELSE aborted' = aborted \cup {reg[c].thread} /\ UNCHANGED conn
    /\ Return(c)
    /\ UNCHANGED <<waitingCallback, waitingListener, streamVars, tpc, reads, hand, flagged,
                   made, called>>

\* send: look the stream up, lock it, write
SendLookup(c) ==
    /\ pc[c] = "idle" /\ Connected
    /\ Goto(c, "lock", Holding(conn.stream, 0, 0, 0, "idle"))
    /\ UNCHANGED <<tableVars, streamVars, taskVars, made, called>>
SendLock(c) ==
    /\ pc[c] = "lock" /\ ~Locked(reg[c].stream)
    /\ Goto(c, "write", reg[c])
    /\ UNCHANGED <<tableVars, streamVars, taskVars, made, called>>
\* write_all and flush, which have no timeout
SendEnds(c) ==
    /\ pc[c] = "write"
    /\ Return(c)
    /\ UNCHANGED <<tableVars, streamVars, taskVars, made, called>>

\* disconnect, and disconnect_all for this device
Disconnect(c) ==
    /\ pc[c] = "idle"
    /\ waitingCallback' = 0 /\ waitingListener' = FALSE
    /\ TakeConnection(c, "idle")
    /\ UNCHANGED <<streamVars, taskVars, made, called>>

-----------------------------------------------------------------------------
(***************************************************************************)
(* The read task                                                           *)
(***************************************************************************)
CheckFlag(t) ==
    /\ tpc[t] = "top"
    /\ TaskGoto(t, IF t \in flagged THEN "teardown" ELSE "wait")
    /\ UNCHANGED <<tableVars, streamVars, reads, hand, flagged, aborted, clientVars, made,
                   called>>

Acquire(t) ==
    /\ tpc[t] = "wait" /\ ~Locked(reads[t])
    /\ TaskGoto(t, "read")
    /\ UNCHANGED <<tableVars, streamVars, reads, hand, flagged, aborted, clientVars, made,
                   called>>

\* The 10 ms are over: give the mutex up and look at the flag again.
BadPause(t) == tpc[t] = "read" /\ UNCHANGED vars
Pause(t) ==
    /\ tpc[t] = "read"
    /\ TaskGoto(t, "top")
    /\ UNCHANGED <<tableVars, streamVars, reads, hand, flagged, aborted, clientVars, made,
                   called>>

ReadData(t) ==
    /\ tpc[t] = "read" /\ made.data < MaxData
    /\ made' = [made EXCEPT !.data = @ + 1]
    /\ got' = [got EXCEPT ![reads[t]] = @ + 1]
    /\ hand' = [hand EXCEPT ![t] = got[reads[t]] + 1]
    /\ TaskGoto(t, "deliver")
    /\ UNCHANGED <<tableVars, ended, delivered, reads, flagged, aborted, clientVars, called>>

\* The peer closed or the link failed: the listener gets an error.
ReadEnd(t) ==
    /\ tpc[t] = "read" /\ reads[t] \in ended
    /\ hand' = [hand EXCEPT ![t] = 0]
    /\ TaskGoto(t, "deliver")
    /\ UNCHANGED <<tableVars, streamVars, reads, flagged, aborted, clientVars, made, called>>

\* The listener is called under the stream's mutex.
Deliver(t) ==
    /\ tpc[t] = "deliver"
    /\ IF hand[t] = 0
       THEN TaskGoto(t, "teardown") /\ UNCHANGED delivered
       ELSE /\ delivered' = [delivered EXCEPT ![reads[t]] = Append(@, hand[t])]
            /\ TaskGoto(t, "top")
    /\ hand' = [hand EXCEPT ![t] = 0]
    /\ UNCHANGED <<tableVars, got, ended, reads, flagged, aborted, clientVars, made,
                   called>>

\* The task removes and stops the connection whose stream it read, if that is
\* still the current one.
BadOwns(t) == Connected
Owns(t) == conn.stream = reads[t]
BadTeardown(t) ==
    /\ tpc[t] = "teardown"
    /\ TaskGoto(t, "done")
    /\ UNCHANGED <<tableVars, streamVars, reads, hand, flagged, aborted, clientVars, made,
                   called>>
Teardown(t) ==
    /\ tpc[t] = "teardown"
    /\ TaskGoto(t, "done")
    /\ IF Owns(t)
       THEN /\ conn' = NoConn
            /\ flagged' = flagged \cup ({conn.stop} \ {0})
            /\ aborted' = aborted \cup ({conn.thread} \ {0})
       ELSE UNCHANGED <<conn, flagged, aborted>>
    /\ UNCHANGED <<waitingCallback, waitingListener, streamVars, reads, hand, clientVars,
                   made, called>>

\* An aborted task ends where it waits, before it starts or between two turns;
\* what it has read is lost.
Cancelled(t) ==
    /\ t \in aborted /\ tpc[t] \in {"top", "wait", "read", "deliver"}
    /\ TaskGoto(t, "done")
    /\ hand' = [hand EXCEPT ![t] = 0]
    /\ UNCHANGED <<tableVars, streamVars, reads, flagged, aborted, clientVars, made, called>>

-----------------------------------------------------------------------------
\* The peer closes or goes out of range; data it sent before may still be read.
PeerEnds(s) ==
    /\ Held(s) /\ s \notin ended
    /\ ended' = ended \cup {s}
    /\ UNCHANGED <<tableVars, got, delivered, taskVars, clientVars, made, called>>

Init ==
    /\ conn = NoConn /\ waitingCallback = 0 /\ waitingListener = FALSE
    /\ made = [streams |-> 0, tasks |-> 0, callbacks |-> 0, data |-> 0]
    /\ called = [cb \in Callback |-> 0]
    /\ got = [s \in Stream |-> 0] /\ ended = {}
    /\ delivered = [s \in Stream |-> <<>>]
    /\ tpc = [t \in ReadTask |-> "unborn"]
    /\ reads = [t \in ReadTask |-> 0] /\ hand = [t \in ReadTask |-> 0]
    /\ flagged = {} /\ aborted = {}
    /\ pc = [c \in Clients |-> "idle"] /\ reg = [c \in Clients |-> Nothing]

Begin(c) == \/ Connect(c) \/ Disconnect(c) \/ OnConnected(c) \/ SetListener(c)
            \/ Subscribe(c) \/ SendLookup(c)
Continue(c) == \/ Stop(c) \/ ConnectFails(c) \/ ConnectSucceeds(c) \/ Insert(c)
               \/ Call(c) \/ Install(c) \/ SendLock(c) \/ SendEnds(c)
Reader(t) == \/ CheckFlag(t) \/ Acquire(t) \/ Pause(t) \/ ReadData(t) \/ ReadEnd(t)
             \/ Deliver(t) \/ Teardown(t) \/ Cancelled(t)

Next == \/ \E c \in Clients : Begin(c) \/ Continue(c)
        \/ \E t \in ReadTask : Reader(t)
        \/ \E s \in Stream : PeerEnds(s)

Spec == Init /\ [][Next]_vars

\* Threads and tasks keep running, a connect attempt returns (it has timeouts), a write
\* returns once its stream has ended, with an error, and may block for ever before,
\* Tokio's mutex is fair, a read is polled with a fresh timer in every turn and so is
\* not passed over again and again once the stream has ended, and an aborted task is
\* cancelled.
Fairness ==
    /\ \A c \in Clients : /\ WF_vars(Continue(c) /\ (pc[c] = "write" => reg[c].stream \in ended))
                          /\ SF_vars(SendLock(c))
    /\ \A t \in ReadTask : /\ WF_vars(Reader(t)) /\ SF_vars(Acquire(t))
                           /\ WF_vars(Cancelled(t))
                           /\ <>[][~(Pause(t) /\ reads[t] \in ended)]_vars
FairSpec == Spec /\ Fairness

-----------------------------------------------------------------------------
(***************************************************************************)
(* Properties                                                              *)
(***************************************************************************)

\* A listener gets the data in the order in which they arrived, and as long as the
\* connection is the current one nothing is lost or given twice, even when two
\* subscriptions read the same stream.
Increasing(q) == \A i, j \in DOMAIN q : i < j => q[i] < q[j]
InHand(s) == {t \in ReadTask : tpc[t] = "deliver" /\ reads[t] = s /\ hand[t] # 0}
InOrder == /\ \A s \in Stream : Increasing(delivered[s])
           /\ Connected => Len(delivered[conn.stream]) + Cardinality(InHand(conn.stream))
                             = got[conn.stream]

\* A callback is called once if there is a connection when it is registered or the
\* next one is made, and never while it waits (connect hands the waiting callback
\* over, on_connected calls it at once).
Due(cb) == called[cb] + Cardinality({c \in Clients : pc[c] = "call" /\ reg[c].cb = cb})
CallbackOnce == \A cb \in Callback : /\ Due(cb) <= 1
                                     /\ conn.cb = cb => Due(cb) = 1
                                     /\ waitingCallback = cb => Due(cb) = 0

\* Only callers end a connection whose peer is still there: a read task, however
\* late, tears down no connection but the one that it saw ending, or that was
\* stopped.
HealthyKept == [][Connected /\ ~Connected' /\ UNCHANGED clientVars
                    => conn.stream \in ended]_vars

\* A caller that stops what it displaced, however late, stops no task that reads the
\* current connection: data and the end of the stream are always noticed.
CurrentReaderRuns == \A t \in flagged \cup aborted : reads[t] # conn.stream

\* "Do not let a completed reader prevent a later subscription": no connection keeps
\* the handle of a task that is done.
NoCompletedReader == conn.thread # 0 => tpc[conn.thread] # "done"

\* A reader does not "leave a dead connection open": a connection whose peer is gone and
\* that has ever been subscribed does not stay.
Dead == conn.stream \in ended /\ \E t \in ReadTask : reads[t] = conn.stream
DeadConnectionEnds == []<>~Dead

\* "Dropping the stream closes the RFCOMM connection": a connection that is not the
\* current one any more does not stay open but for a send that is under way, provided
\* that no two subscriptions of one connection overlap, the later of which takes the
\* place of the earlier one's task, and that no connect inserts its connection over one
\* that another inserted meanwhile.
Sending(s) == \E c \in Clients : pc[c] \in {"lock", "write"} /\ reg[c].stream = s
Leaked(s)  == Held(s) /\ conn.stream # s /\ ~Sending(s)
Installing(c, s) == pc[c] = "install" /\ reads[reg[c].thread] = s
Overlap == \/ \E c, d \in Clients, s \in Stream : c # d /\ Installing(c, s) /\ Installing(d, s)
           \/ \E c \in Clients : pc[c] = "insert" /\ Connected
DroppedCloses == []~Overlap => []<>~(\E s \in Stream : Leaked(s))

\* Calls return, but for a send whose write blocks or that waits for the mutex of one
\* whose write blocks; no send waits for ever for the turns of read tasks.
Stuck(c) == /\ pc[c] \in {"lock", "write"} /\ reg[c].stream \notin ended
            /\ \E d \in Clients : pc[d] = "write" /\ reg[d].stream = reg[c].stream
CallsReturn == \A c \in Clients : []<>(pc[c] = "idle") \/ <>[]Stuck(c)
=============================================================================
