--------------------------- MODULE WinConnection ---------------------------
(***************************************************************************)
(* The connection to one device in the Windows backend                     *)
(* (src/win/implementation.rs): callers' threads that connect, disconnect, *)
(* subscribe and send, and the read threads they spawn.                    *)
(*                                                                         *)
(* A critical section of BT_STATE is one step.  A SOCKET is a handle of a  *)
(* small pool that Windows hands out again once it was closed; obj says    *)
(* which connection's kernel socket stands behind a handle.  A connection  *)
(* is numbered when its socket is made, where the code numbers it when it  *)
(* installs it: the number only tells connections apart.  Calls that find  *)
(* nothing to do (already connected, not connected, subscription active)   *)
(* change nothing and are left out; so is the scan, see WinScan.           *)
(*                                                                         *)
(* A definition whose name begins with Bad is the definition after it with *)
(* a mistake in it; the runs check that a property notices.                *)
(***************************************************************************)
EXTENDS Naturals, FiniteSets

CONSTANTS
    Clients,       \* callers' threads
    NoAgent,       \* nobody holds a socket_close_lock
    MaxSockets,    \* bound: SOCKET handles
    HandleReuse,   \* whether Windows hands a closed handle out again
    MaxConns,      \* bound: sockets that connect
    MaxReaders,    \* bound: read threads spawned
    MaxDrops,      \* bound: disconnect calls, and peers that close
    MaxSends,      \* bound: sends
    MaxListeners   \* bound: set_data_listener calls

ConnId   == 1..MaxConns
Readers  == 1..MaxReaders
Sockets  == 1..MaxSockets
NoSocket == 0
Agents   == Clients \cup Readers

ASSUME AgentsAssumption == Clients \cap Readers = {} /\ NoAgent \notin Agents
ASSUME ReuseAssumption == HandleReuse \in BOOLEAN
ASSUME BoundsAssumption == {MaxSockets, MaxConns, MaxReaders} \subseteq Nat

VARIABLES
    cur,        \* connection_handles (and connected_device_info) of the device
    listener,   \* data_listener_callback: the number of its registration, or 0
    stopped,    \* connections whose stop_flag is set
    closeLock,  \* connection -> holder of its socket_close_lock
    obj,        \* SOCKET -> connection whose kernel socket it denotes, or 0
    shut,       \* connections whose kernel socket was shut down, from any side
    pc, reg,    \* per agent: where it is, and the connection it works on
    job,        \* per agent: the DisconnectedConnection it has to close
    held,       \* per read thread: the listener it is about to call
    installed,  \* read threads whose handle was stored in connection_handles
    count       \* calls made so far, against the bounds

stateVars  == <<cur, listener>>
socketVars == <<stopped, closeLock, obj, shut>>
agentVars  == <<pc, reg, job, held, installed>>
vars == <<stateVars, socketVars, agentVars, count>>

-----------------------------------------------------------------------------
None == [id |-> 0, sock |-> NoSocket, reader |-> 0]

Spend(what, bound) == /\ count[what] < bound
                      /\ count' = [count EXCEPT ![what] = @ + 1]
Goto(a, l) == pc' = [pc EXCEPT ![a] = l]
\* Where an agent is once it has nothing left to do.
Rest(a) == IF a \in Clients THEN "idle" ELSE "done"

\* The kernel socket a handle denotes now, if any: what a call on it acts on.
Behind(s) == {obj[s]} \ {0}

\* disconnect_internal by agent a, h taking the place of the current handles; the
\* connection taken is a's to close.
BadTake(a, h) ==
    /\ cur' = h
    /\ job' = [job EXCEPT ![a] = cur]
    /\ stopped' = stopped \cup ({cur.id} \ {0})
    /\ Goto(a, IF cur = None THEN Rest(a) ELSE "join")
    /\ UNCHANGED shut
Take(a, h) ==
    /\ cur' = h
    /\ job' = [job EXCEPT ![a] = cur]
    /\ stopped' = stopped \cup ({cur.id} \ {0})
    /\ shut' = IF cur = None THEN shut ELSE shut \cup Behind(cur.sock)
    /\ Goto(a, IF cur = None THEN Rest(a) ELSE "join")

-----------------------------------------------------------------------------
\* connect_impl: not connected when it looks ...
ConnectCheck(t) ==
    /\ pc[t] = "idle" /\ cur = None
    /\ Goto(t, "connecting")
    /\ UNCHANGED <<stateVars, socketVars, reg, job, held, installed, count>>

\* ... try_connect_sequence fails, or makes a socket ...
ConnectFails(t) ==
    /\ pc[t] = "connecting"
    /\ Goto(t, "idle")
    /\ UNCHANGED <<stateVars, socketVars, reg, job, held, installed, count>>

ConnectSucceeds(t) ==
    /\ pc[t] = "connecting"
    /\ Spend("conn", MaxConns)
    /\ \E s \in Sockets :
          /\ obj[s] = 0 /\ (HandleReuse \/ s = count.conn + 1)
          /\ obj' = [obj EXCEPT ![s] = count.conn + 1]
          /\ reg' = [reg EXCEPT ![t] = [id |-> count.conn + 1, sock |-> s, reader |-> 0]]
    /\ Goto(t, "install")
    /\ UNCHANGED <<stateVars, stopped, closeLock, shut, job, held, installed>>

\* ... and installs it, displacing a connection made meanwhile; callbacks stay.
BadConnectInstall(t) ==
    /\ pc[t] = "install"
    /\ cur' = reg[t]
    /\ Goto(t, "idle")
    /\ UNCHANGED <<listener, socketVars, reg, job, held, installed, count>>
ConnectInstall(t) ==
    /\ pc[t] = "install"
    /\ Take(t, reg[t])
    /\ UNCHANGED <<listener, closeLock, obj, reg, held, installed, count>>

\* disconnect_impl: the handles are taken and the device's entry removed.
Disconnect(t) ==
    /\ pc[t] = "idle"
    /\ Spend("drop", MaxDrops)
    /\ Take(t, None)
    /\ listener' = 0
    /\ UNCHANGED <<closeLock, obj, reg, held, installed>>

\* close_disconnected_socket: join the read thread, unless it is the caller ...
BadJoin(a) ==
    /\ pc[a] = "join"
    /\ Goto(a, "close")
    /\ UNCHANGED <<stateVars, socketVars, reg, job, held, installed, count>>
Join(a) ==
    /\ pc[a] = "join"
    /\ job[a].reader \in {0, a} \cup {r \in Readers : pc[r] = "done"}
    /\ Goto(a, "close")
    /\ UNCHANGED <<stateVars, socketVars, reg, job, held, installed, count>>

\* ... then close the socket under its close lock.
CloseSocket(a) ==
    /\ pc[a] = "close" /\ closeLock[job[a].id] = NoAgent
    /\ obj' = [obj EXCEPT ![job[a].sock] = 0]
    /\ job' = [job EXCEPT ![a] = None]
    /\ Goto(a, Rest(a))
    /\ UNCHANGED <<stateVars, stopped, closeLock, shut, reg, held, installed, count>>

-----------------------------------------------------------------------------
\* start_subscription_impl: look, and spawn a read thread r ...
SubscribeCheck(t) ==
    /\ pc[t] = "idle" /\ cur # None /\ cur.reader = 0
    /\ Spend("reader", MaxReaders)
    /\ LET r == count.reader + 1
       IN  /\ reg' = [reg EXCEPT ![t] = [cur EXCEPT !.reader = r], ![r] = cur]
           /\ pc' = [pc EXCEPT ![t] = "subscribe", ![r] = "check"]
    /\ UNCHANGED <<stateVars, socketVars, job, held, installed>>

\* ... store its handle if the connection is still the same and has none ...
SubscribeInstall(t) ==
    /\ pc[t] = "subscribe"
    /\ cur = [reg[t] EXCEPT !.reader = 0]
    /\ cur' = reg[t]
    /\ installed' = installed \cup {reg[t].reader}
    /\ Goto(t, "idle")
    /\ UNCHANGED <<listener, socketVars, reg, job, held, count>>

\* ... or stop the connection it looked at and shut the socket it copied.
BadSubscribeLost(t) ==
    /\ pc[t] = "subscribe"
    /\ cur # [reg[t] EXCEPT !.reader = 0]
    /\ stopped' = stopped \cup {reg[t].id}
    /\ Goto(t, "subscribeJoin")
    /\ UNCHANGED <<stateVars, closeLock, obj, shut, reg, job, held, installed, count>>
SubscribeLost(t) ==
    /\ pc[t] = "subscribe"
    /\ cur # [reg[t] EXCEPT !.reader = 0]
    /\ stopped' = stopped \cup {reg[t].id}
    /\ shut' = shut \cup Behind(reg[t].sock)
    /\ Goto(t, "subscribeJoin")
    /\ UNCHANGED <<stateVars, closeLock, obj, reg, job, held, installed, count>>

SubscribeJoin(t) ==
    /\ pc[t] = "subscribeJoin" /\ pc[reg[t].reader] = "done"
    /\ Goto(t, "idle")
    /\ UNCHANGED <<stateVars, socketVars, reg, job, held, installed, count>>

\* set_data_listener_impl
SetListener(t) ==
    /\ pc[t] = "idle"
    /\ Spend("listener", MaxListeners)
    /\ listener' = count.listener + 1
    /\ UNCHANGED <<cur, socketVars, agentVars>>

-----------------------------------------------------------------------------
\* send_impl: copy the handles; under the close lock give up if the connection is
\* stopping, else send; a failed send shuts the socket down.
SendLookup(t) ==
    /\ pc[t] = "idle" /\ cur # None
    /\ Spend("send", MaxSends)
    /\ reg' = [reg EXCEPT ![t] = cur]
    /\ Goto(t, "sendLock")
    /\ UNCHANGED <<stateVars, socketVars, job, held, installed>>

BadMaySend(t) == TRUE
MaySend(t) == reg[t].id \notin stopped
SendLock(t) ==
    /\ pc[t] = "sendLock" /\ closeLock[reg[t].id] = NoAgent
    /\ \/ /\ ~MaySend(t)
          /\ Goto(t, "idle")
          /\ UNCHANGED closeLock
       \/ /\ MaySend(t)
          /\ Goto(t, "sending")
          /\ closeLock' = [closeLock EXCEPT ![reg[t].id] = t]
    /\ UNCHANGED <<stateVars, stopped, obj, shut, reg, job, held, installed, count>>

SendEnds(t, ok) ==
    /\ pc[t] = "sending"
    /\ ok => Behind(reg[t].sock) \cap shut = {}
    /\ shut' = IF ok THEN shut ELSE shut \cup Behind(reg[t].sock)
    /\ closeLock' = [closeLock EXCEPT ![reg[t].id] = NoAgent]
    /\ Goto(t, "idle")
    /\ UNCHANGED <<stateVars, stopped, obj, reg, job, held, installed, count>>

-----------------------------------------------------------------------------
(***************************************************************************)
(* The read thread                                                         *)
(***************************************************************************)
ReadCheck(r) ==
    /\ pc[r] = "check"
    /\ Goto(r, IF reg[r].id \in stopped THEN "exit" ELSE "recv")
    /\ UNCHANGED <<stateVars, socketVars, reg, job, held, installed, count>>

\* recv returns data, or returns because the socket is shut or closed.
ReadData(r) ==
    /\ pc[r] = "recv"
    /\ Behind(reg[r].sock) # {} /\ Behind(reg[r].sock) \cap shut = {}
    /\ Goto(r, "data")
    /\ UNCHANGED <<stateVars, socketVars, reg, job, held, installed, count>>

ReadEnd(r) ==
    /\ pc[r] = "recv"
    /\ Behind(reg[r].sock) \subseteq shut
    /\ Goto(r, IF reg[r].id \in stopped THEN "exit" ELSE "error")
    /\ UNCHANGED <<stateVars, socketVars, reg, job, held, installed, count>>

\* notify_data_listener: fetch the callback if the connection is the current one ...
After(l) == IF l \in {"data", "callData"} THEN "check" ELSE "exit"
Fetch(r) ==
    /\ pc[r] \in {"data", "error"}
    /\ \/ /\ cur.id = reg[r].id /\ listener # 0
          /\ held' = [held EXCEPT ![r] = listener]
          /\ Goto(r, IF pc[r] = "data" THEN "callData" ELSE "callError")
       \/ /\ cur.id # reg[r].id \/ listener = 0
          /\ Goto(r, After(pc[r]))
          /\ UNCHANGED held
    /\ UNCHANGED <<stateVars, socketVars, reg, job, installed, count>>

\* ... and call it, outside the lock.
CallListener(r) ==
    /\ pc[r] \in {"callData", "callError"}
    /\ held' = [held EXCEPT ![r] = 0]
    /\ Goto(r, After(pc[r]))
    /\ UNCHANGED <<stateVars, socketVars, reg, job, installed, count>>

\* The thread ends; it disconnects the connection if that is still its own.
BadReadExit(r) ==
    /\ pc[r] = "exit"
    /\ Goto(r, "done")
    /\ UNCHANGED <<stateVars, socketVars, reg, job, held, installed, count>>
ReadExit(r) ==
    /\ pc[r] = "exit"
    /\ \/ /\ cur.id = reg[r].id /\ cur.sock = reg[r].sock
          /\ Take(r, None)
       \/ /\ ~(cur.id = reg[r].id /\ cur.sock = reg[r].sock)
          /\ Goto(r, "done")
          /\ UNCHANGED <<cur, job, stopped, shut>>
    /\ UNCHANGED <<listener, closeLock, obj, reg, held, installed, count>>

\* The peer closes, or the link is lost.
PeerCloses ==
    /\ Spend("drop", MaxDrops)
    /\ \E s \in Sockets : Behind(s) # {} /\ shut' = shut \cup Behind(s)
    /\ UNCHANGED <<stateVars, stopped, closeLock, obj, agentVars>>

-----------------------------------------------------------------------------
Init ==
    /\ cur = None /\ listener = 0
    /\ stopped = {} /\ shut = {} /\ installed = {}
    /\ closeLock = [i \in ConnId |-> NoAgent]
    /\ obj = [s \in Sockets |-> 0]
    /\ pc = [a \in Agents |-> IF a \in Clients THEN "idle" ELSE "unborn"]
    /\ reg = [a \in Agents |-> None]
    /\ job = [a \in Agents |-> None]
    /\ held = [r \in Readers |-> 0]
    /\ count = [conn |-> 0, reader |-> 0, drop |-> 0, send |-> 0, listener |-> 0]

\* A new call, and the rest of a call.
Call(t) == \/ ConnectCheck(t) \/ Disconnect(t) \/ SubscribeCheck(t)
           \/ SetListener(t) \/ SendLookup(t)
Continue(t) == \/ ConnectFails(t) \/ ConnectSucceeds(t) \/ ConnectInstall(t)
               \/ Join(t) \/ CloseSocket(t)
               \/ SubscribeInstall(t) \/ SubscribeLost(t) \/ SubscribeJoin(t)
               \/ SendLock(t) \/ \E ok \in BOOLEAN : SendEnds(t, ok)
Read(r) == \/ ReadCheck(r) \/ ReadData(r) \/ ReadEnd(r) \/ Fetch(r) \/ CallListener(r)
           \/ ReadExit(r) \/ Join(r) \/ CloseSocket(r)

Next == \/ \E t \in Clients : Call(t) \/ Continue(t)
        \/ \E r \in Readers : Read(r)
        \/ PeerCloses

Spec == Init /\ [][Next]_vars

\* Threads keep running and blocking system calls return; nothing is assumed of the
\* peer or of when new calls are made.  recv on a live socket may block for ever,
\* which ReadData only ever makes look like progress: fairness of Read is stated
\* without it.
Progress(r) == \/ ReadCheck(r) \/ ReadEnd(r) \/ Fetch(r) \/ CallListener(r)
               \/ ReadExit(r) \/ Join(r) \/ CloseSocket(r)
Fairness == /\ \A t \in Clients : WF_vars(Continue(t))
            /\ \A r \in Readers : WF_vars(Progress(r))
FairSpec == Spec /\ Fairness

-----------------------------------------------------------------------------
(***************************************************************************)
(* Properties                                                              *)
(***************************************************************************)
\* send() never writes to a socket that was closed, nor to the socket of another
\* connection that got the same handle: the stop flag is set before a socket is
\* closed and both are read and written under the close lock.
SendOnOwnSocket ==
    \A t \in Clients : pc[t] = "sending" => obj[reg[t].sock] = reg[t].id

\* Who will close a socket: the connection state, the connect that made it, or the
\* thread that took it out of the state.
Owners(s) == (IF cur.sock = s THEN {NoAgent} ELSE {})
             \cup {a \in Agents : pc[a] = "install" /\ reg[a].sock = s}
             \cup {a \in Agents : pc[a] \in {"join", "close"} /\ job[a].sock = s}

\* Every open socket has exactly one owner and every owner's socket is open and its
\* own: through races of connect, disconnect, subscribe and the read threads no
\* socket leaks, none is closed twice, and no reused handle is closed by mistake.
SocketsOwned ==
    /\ \A s \in Sockets : Cardinality(Owners(s)) = IF obj[s] = 0 THEN 0 ELSE 1
    /\ cur # None => obj[cur.sock] = cur.id
    /\ \A a \in Agents : pc[a] \in {"join", "close"} => obj[job[a].sock] = job[a].id

\* A read thread whose handle was stored never calls recv on a closed or reused
\* socket: whoever closes the socket joins it first.
InstalledReaderSafe ==
    \A r \in installed : pc[r] = "recv" => obj[reg[r].sock] = reg[r].id

\* A connection that counts as subscribed has a read thread that will see its end: no
\* handle is stored of a thread that is done, however late it is stored.
SubscribedIsRead == cur.reader # 0 => pc[cur.reader] \notin {"unborn", "done"}

\* A read thread that nobody joins (its subscription lost the race, or its handle
\* was not stored yet) sits in recv on a handle that denotes another connection by
\* now: what it waits for is that connection's end.
ForeignRecv ==
    \E r \in Readers : pc[r] = "recv" /\ obj[reg[r].sock] \notin {0, reg[r].id}

\* Nobody waits in vain.  The read thread that a taken connection is joined with waits
\* for no other thread, and recv will return to it; recv will also return to the thread
\* of a subscription that lost, unless its handle denotes another connection by now; and
\* the close lock is held only by a caller inside send.
Returns(r) == pc[r] = "recv" => Behind(reg[r].sock) \subseteq shut
WaitsEnd ==
    /\ \A a \in Agents : pc[a] = "join" /\ job[a].reader \notin {0, a} =>
          pc[job[a].reader] \notin {"join", "close"} /\ Returns(job[a].reader)
    /\ \A t \in Clients : LET r == reg[t].reader
                         IN  pc[t] = "subscribeJoin" =>
                                Returns(r) \/ obj[reg[r].sock] # reg[r].id
    /\ \A i \in ConnId : closeLock[i] # NoAgent =>
          pc[closeLock[i]] = "sending" /\ reg[closeLock[i]].id = i

\* A subscribed connection has who reads it, and whoever waits has whom it waits for:
\* nobody waits for a thread or a lock that will not come.
NobodyWaitsInVain == SubscribedIsRead /\ WaitsEnd

\* Every call returns, no join waiting for a thread that waits for the caller, as
\* long as no read thread is caught on the handle of another connection.
CallsReturn ==
    []~ForeignRecv => \A t \in Clients : pc[t] # "idle" ~> pc[t] = "idle"

\* Once its peer or a failed send has shut a subscribed connection, the device does
\* not stay "connected".
DeadConnectionEnds ==
    \A i \in ConnId : (cur.id = i /\ cur.reader # 0 /\ i \in shut) ~> cur.id # i

\* "A stale read thread must not deliver data to a replacement connection using the
\* same address": the listener a read thread calls with data is not the one of a
\* connection that has taken its connection's place.
StaleReaderSilent ==
    \A r \in Readers :
        pc[r] = "callData" /\ held[r] = listener => cur.id \in {0, reg[r].id}
=============================================================================
