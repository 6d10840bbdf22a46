------------------------ MODULE WinConnectionProofs ------------------------
(***************************************************************************)
(* Proofs about WinConnection: every open socket has one owner, send()     *)
(* writes to the socket of its own connection, and a read thread that was  *)
(* stored never reads from a closed or reused socket; for any numbers of   *)
(* callers, read threads, sockets and calls, and whether or not Windows    *)
(* hands closed handles out again.                                         *)
(*                                                                         *)
(* The connection an owner holds is Held(o).  Installing a connection,     *)
(* disconnecting it and taking it down from its read thread all exchange   *)
(* what the state holds with what the thread holds: ownership is settled   *)
(* by one lemma about such an exchange.                                    *)
(*                                                                         *)
(* A second layer, Waits, says who waits for whom: a connection that       *)
(* counts as subscribed has a read thread that will see its end, and a     *)
(* thread that is joined will come back.                                   *)
(***************************************************************************)
EXTENDS WinConnection, FiniteSetTheorems, TLAPS

-----------------------------------------------------------------------------
Conns   == [id : ConnId \cup {0}, sock : Sockets \cup {NoSocket},
            reader : Readers \cup {0}]
Counts  == [conn : 0..MaxConns, reader : 0..MaxReaders, drop : Nat, send : Nat,
            listener : Nat]
Closing == {"join", "close"}
Live    == {"check", "recv", "data", "error", "callData", "callError", "exit"}
ClientPlaces == {"idle", "connecting", "install", "subscribe", "subscribeJoin",
                 "sendLock", "sending"} \cup Closing
ReaderPlaces == {"unborn", "done"} \cup Live \cup Closing

\* Who may own a connection, and the connection each owns: NoAgent stands for the
\* connection state.
Holders == Agents \cup {NoAgent}
Held(o) == IF o = NoAgent THEN cur
           ELSE IF pc[o] = "install" THEN reg[o]
           ELSE IF pc[o] \in Closing THEN job[o]
           ELSE None

\* A connection that was made.
Made(c) == /\ c.id \in ConnId /\ c.id <= count.conn
           /\ c.sock \in Sockets

-----------------------------------------------------------------------------
(***************************************************************************)
(* The inductive invariant                                                 *)
(***************************************************************************)
TypeOK ==
    /\ cur \in Conns /\ listener \in Nat
    /\ stopped \subseteq ConnId /\ shut \subseteq ConnId
    /\ closeLock \in [ConnId -> Clients \cup {NoAgent}]
    /\ obj \in [Sockets -> ConnId \cup {0}]
    /\ pc \in [Agents -> ClientPlaces \cup ReaderPlaces]
    /\ \A t \in Clients : pc[t] \in ClientPlaces
    /\ \A r \in Readers : pc[r] \in ReaderPlaces
    /\ reg \in [Agents -> Conns] /\ job \in [Agents -> Conns]
    /\ held \in [Readers -> Nat]
    /\ installed \subseteq Readers
    /\ count \in Counts

\* A handle denotes the socket of a connection that was made, and no two handles the
\* same one.
Handles ==
    /\ \A s \in Sockets : obj[s] <= count.conn
    /\ \A s1, s2 \in Sockets : obj[s1] = obj[s2] /\ obj[s1] # 0 => s1 = s2

\* An owner's socket is open and its own, no two own the same, and each open one is
\* owned.
Owned ==
    /\ \A o \in Holders : Held(o) = None \/ (Made(Held(o)) /\ obj[Held(o).sock] = Held(o).id)
    /\ \A o1, o2 \in Holders : Held(o1).sock = Held(o2).sock /\ Held(o1) # None => o1 = o2
    /\ \A s \in Sockets : obj[s] # 0 => \E o \in Holders : Held(o).sock = s

\* A connection that is taken down was stopped first; its socket is closed by whoever
\* joined its read thread, or is that thread.
Down ==
    /\ \A a \in Agents : pc[a] \in Closing => job[a] # None /\ job[a].id \in stopped
    /\ \A a \in Agents : pc[a] = "close" =>
          job[a].reader \in {0, a} \cup {r \in Readers : pc[r] = "done"}

\* A sender's connection: until it is stopped its handle stays its own, and while the
\* close lock is held as well.
Senders ==
    \A t \in Clients :
        /\ pc[t] = "sendLock" =>
              Made(reg[t]) /\ (reg[t].id \in stopped \/ obj[reg[t].sock] = reg[t].id)
        /\ pc[t] = "sending" =>
              /\ Made(reg[t]) /\ obj[reg[t].sock] = reg[t].id
              /\ closeLock[reg[t].id] = t

\* A read thread works on the connection its subscriber looked at; while it lives and
\* its handle is stored, the owner of the connection knows it.
Reading ==
    /\ \A r \in Readers : pc[r] = "unborn" <=> r > count.reader
    /\ \A r \in Readers : pc[r] \in Live => Made(reg[r])
    /\ \A t \in Clients : pc[t] = "subscribe" =>
          /\ Made(reg[t])
          /\ reg[t].reader \in Readers /\ reg[t].reader <= count.reader
          /\ reg[reg[t].reader].id = reg[t].id
          /\ reg[reg[t].reader].sock = reg[t].sock
    /\ \A r \in installed : r <= count.reader
    /\ \A r \in installed : pc[r] \in Live =>
          /\ obj[reg[r].sock] = reg[r].id
          /\ \A o \in Holders : Held(o).id = reg[r].id => Held(o).reader = r

IInv == TypeOK /\ Handles /\ Owned /\ Down /\ Senders /\ Reading

-----------------------------------------------------------------------------
(***************************************************************************)
(* Lemmas about the operators                                              *)
(***************************************************************************)
\* A call counted against a bound of its own changes no count a proof speaks of.
LEMMA SpendOther ==
    ASSUME NEW what \in {"drop", "send", "listener"}, NEW bound,
           count \in Counts, Spend(what, bound)
    PROVE  count' \in Counts /\ count'.conn = count.conn /\ count'.reader = count.reader
BY DEF Counts, Spend

LEMMA SpendConn ==
    ASSUME count \in Counts, Spend("conn", MaxConns)
    PROVE  /\ count' \in Counts /\ count'.conn = count.conn + 1
           /\ count'.reader = count.reader /\ count'.conn \in ConnId
BY BoundsAssumption DEF Counts, Spend, ConnId

LEMMA SpendReader ==
    ASSUME count \in Counts, Spend("reader", MaxReaders)
    PROVE  /\ count' \in Counts /\ count'.reader = count.reader + 1
           /\ count'.conn = count.conn /\ count'.reader \in Readers
BY BoundsAssumption DEF Counts, Spend, Readers

LEMMA ConnNumbers == \A i \in ConnId \cup {0} : i \in Nat
BY BoundsAssumption DEF ConnId

LEMMA ReaderNumbers == \A r \in Readers \cup {0} : r \in Nat
BY BoundsAssumption DEF Readers

LEMMA NoneFacts == /\ None \in Conns
                   /\ None.id = 0 /\ None.sock = 0 /\ None.reader = 0
                   /\ 0 \notin ConnId /\ 0 \notin Sockets /\ 0 \notin Readers
                   /\ NoAgent \notin Agents
                   /\ Clients \cap Readers = {} /\ Agents = Clients \cup Readers
                   /\ Readers \subseteq Nat /\ ConnId \subseteq Nat
BY AgentsAssumption, BoundsAssumption
   DEF None, Conns, NoSocket, ConnId, Sockets, Readers, Agents

-----------------------------------------------------------------------------
(***************************************************************************)
(* Steps that leave every connection with its owner                        *)
(***************************************************************************)
\* Agent a moves from pc[a] to l without taking or giving up a connection.
Moves(a, l) ==
    /\ pc' = [pc EXCEPT ![a] = l]
    /\ "install" \notin {pc[a], l}
    /\ pc[a] \in Closing <=> l \in Closing
    /\ l = "close" => job[a].reader \in {0, a} \cup {r \in Readers : pc[r] = "done"}
    /\ pc[a] \notin {"unborn", "done"} /\ l # "unborn"
    /\ l = "subscribe" => pc[a] = "subscribe"
    /\ l \in Live => pc[a] \in Live

LEMMA MovesHeld ==
    ASSUME TypeOK, NEW a \in Agents, NEW l, Moves(a, l), UNCHANGED <<cur, job>>,
           \A b \in Agents \ {a} : reg'[b] = reg[b]
    PROVE  \A o \in Holders : Held(o)' = Held(o)
<1> SUFFICES ASSUME NEW o \in Holders PROVE Held(o)' = Held(o)
  OBVIOUS
<1>1. CASE o = NoAgent
  BY <1>1 DEF Held
<1>2. CASE o # NoAgent /\ o # a
  <2>1. o \in Agents /\ pc'[o] = pc[o] /\ reg'[o] = reg[o]
    BY <1>2 DEF Holders, Moves, TypeOK
  <2> QED BY <1>2, <2>1 DEF Held
<1>3. CASE o # NoAgent /\ o = a
  <2>1. pc'[a] = l
    BY DEF Moves, TypeOK
  <2> QED BY <1>3, <2>1 DEF Held, Moves
<1> QED BY <1>1, <1>2, <1>3

LEMMA KeptOwned ==
    ASSUME Handles, Owned, UNCHANGED obj, count'.conn = count.conn,
           \A o \in Holders : Held(o)' = Held(o)
    PROVE  Handles' /\ Owned'
<1>1. Handles'
  BY DEF Handles
<1>2. \A o \in Holders : Made(Held(o))' <=> Made(Held(o))
  BY DEF Made
<1>3. Owned'
  BY <1>2 DEF Owned, Holders, None
<1> QED BY <1>1, <1>3

LEMMA MovesDown ==
    ASSUME TypeOK, Down, NEW a \in Agents, NEW l, Moves(a, l), UNCHANGED job,
           stopped \subseteq stopped'
    PROVE  Down'
<1>1. pc'[a] = l /\ \A b \in Agents \ {a} : pc'[b] = pc[b]
  BY DEF Moves, TypeOK
<1>2. \A b \in Agents : pc'[b] \in Closing => pc[b] \in Closing
  BY <1>1 DEF Moves
<1>3. \A r \in Readers : pc[r] = "done" => pc'[r] = "done"
  BY <1>1 DEF Moves, Agents
<1>4. \A b \in Agents : pc'[b] = "close" =>
        job[b].reader \in {0, b} \cup {r \in Readers : pc[r] = "done"}
  BY <1>1 DEF Moves, Down
<1> QED BY <1>2, <1>3, <1>4 DEF Down

LEMMA MovesReading ==
    ASSUME TypeOK, Reading, NEW a \in Agents, NEW l, Moves(a, l),
           UNCHANGED <<obj, installed>>,
           count'.conn = count.conn, count'.reader = count.reader,
           \A b \in Agents \ {a} : reg'[b] = reg[b],
           a \in Readers \/ pc[a] = "subscribe" => reg'[a] = reg[a],
           \A o \in Holders : Held(o)' = Held(o)
    PROVE  Reading'
<1>1. pc'[a] = l /\ \A b \in Agents \ {a} : pc'[b] = pc[b]
  BY DEF Moves, TypeOK
<1>2. \A r \in Readers : /\ reg'[r] = reg[r]
                         /\ pc'[r] = "unborn" <=> pc[r] = "unborn"
                         /\ pc'[r] \in Live => pc[r] \in Live
  BY <1>1 DEF Moves, Agents
<1>3. \A t \in Clients : pc'[t] = "subscribe" =>
        pc[t] = "subscribe" /\ reg'[t] = reg[t]
  BY <1>1 DEF Moves, Agents
<1>4. \A b \in Agents : reg'[b] = reg[b] => (Made(reg[b])' <=> Made(reg[b]))
  BY DEF Made
<1>5. \A r \in installed : r \in Readers
  BY DEF TypeOK
<1>6. \A t \in Clients : pc'[t] = "subscribe" =>
          /\ Made(reg[t])'
          /\ reg'[t].reader \in Readers /\ reg'[t].reader <= count'.reader
          /\ reg'[reg'[t].reader].id = reg'[t].id
          /\ reg'[reg'[t].reader].sock = reg'[t].sock
  BY <1>2, <1>3, <1>4 DEF Reading, Agents
<1>7. \A r \in Readers : pc'[r] \in Live => Made(reg[r])'
  BY <1>2, <1>4 DEF Reading, Agents
<1>8. \A r \in installed : pc'[r] \in Live =>
          /\ obj[reg'[r].sock] = reg'[r].id
          /\ \A o \in Holders : Held(o)'.id = reg'[r].id => Held(o)'.reader = r
  BY <1>2, <1>5 DEF Reading
<1> QED BY <1>2, <1>6, <1>7, <1>8 DEF Reading, Holders

LEMMA MovesIInv ==
    ASSUME IInv, NEW a \in Agents, NEW l, Moves(a, l),
           UNCHANGED <<cur, obj, job, installed>>, stopped \subseteq stopped',
           count'.conn = count.conn, count'.reader = count.reader,
           \A b \in Agents \ {a} : reg'[b] = reg[b],
           a \in Readers \/ pc[a] = "subscribe" => reg'[a] = reg[a],
           TypeOK', Senders'
    PROVE  IInv'
<1>1. TypeOK /\ Handles /\ Owned /\ Down /\ Reading
  BY DEF IInv
<1>2. \A o \in Holders : Held(o)' = Held(o)
  BY <1>1, MovesHeld
<1>3. Handles' /\ Owned'
  BY <1>1, <1>2, KeptOwned
<1>4. Down'
  BY <1>1, MovesDown
<1>5. Reading'
  BY <1>1, <1>2, MovesReading
<1> QED BY <1>3, <1>4, <1>5 DEF IInv

\* The places of agents after a move.
LEMMA MovesPlaces ==
    ASSUME TypeOK, NEW a \in Agents, NEW l, Moves(a, l),
           a \in Clients => l \in ClientPlaces, a \in Readers => l \in ReaderPlaces
    PROVE  /\ pc' \in [Agents -> ClientPlaces \cup ReaderPlaces]
           /\ \A t \in Clients : pc'[t] \in ClientPlaces
           /\ \A r \in Readers : pc'[r] \in ReaderPlaces
<1>1. pc' = [pc EXCEPT ![a] = l] /\ l \in ClientPlaces \cup ReaderPlaces
  BY DEF Moves, Agents
<1>2. pc'[a] = l /\ \A b \in Agents \ {a} : pc'[b] = pc[b]
  BY <1>1 DEF TypeOK
<1> QED BY <1>1, <1>2 DEF TypeOK, Agents

LEMMA MovesSenders ==
    ASSUME TypeOK, Senders, NEW a \in Agents, NEW l, Moves(a, l),
           UNCHANGED <<obj, closeLock>>, stopped \subseteq stopped',
           count'.conn = count.conn,
           \A b \in Agents \ {a} : reg'[b] = reg[b], l \notin {"sendLock", "sending"}
    PROVE  Senders'
<1>1. pc'[a] = l /\ \A b \in Agents \ {a} : pc'[b] = pc[b]
  BY DEF Moves, TypeOK
<1>2. \A b \in Agents : reg'[b] = reg[b] => (Made(reg[b])' <=> Made(reg[b]))
  BY DEF Made
<1>3. \A t \in Clients : pc'[t] \in {"sendLock", "sending"} =>
        pc'[t] = pc[t] /\ reg'[t] = reg[t]
  BY <1>1 DEF Agents
<1> QED BY <1>2, <1>3 DEF Senders, Agents

\* Steps that only move an agent on, except to or from a send.
LEMMA OnlyMovesIInv ==
    ASSUME IInv, NEW a \in Agents, NEW l, Moves(a, l),
           UNCHANGED <<cur, obj, job, installed, closeLock, reg>>, listener' \in Nat,
           stopped \subseteq stopped', stopped' \subseteq ConnId, shut' \subseteq ConnId,
           held' \in [Readers -> Nat],
           count' \in Counts, count'.conn = count.conn, count'.reader = count.reader,
           l \notin {"sendLock", "sending"},
           a \in Clients => l \in ClientPlaces, a \in Readers => l \in ReaderPlaces
    PROVE  IInv'
<1>1. TypeOK /\ Senders
  BY DEF IInv
<1>2. TypeOK'
  BY <1>1, MovesPlaces DEF TypeOK
<1>3. Senders'
  BY <1>1, MovesSenders
<1> QED BY <1>2, <1>3, MovesIInv

-----------------------------------------------------------------------------
(***************************************************************************)
(* The steps of calls that leave every connection with its owner           *)
(***************************************************************************)
\* The kernel sockets behind a handle are of connections.
LEMMA BehindConns ==
    ASSUME TypeOK, NEW s \in Sockets
    PROVE  Behind(s) \subseteq ConnId
BY DEF TypeOK, Behind

LEMMA ConnectCheckIInv ==
    ASSUME NEW t \in Clients, IInv, ConnectCheck(t) \/ ConnectFails(t)
    PROVE  IInv'
<1>1. PICK l \in {"idle", "connecting"} :
        pc' = [pc EXCEPT ![t] = l] /\ pc[t] \in {"idle", "connecting"}
  BY DEF ConnectCheck, ConnectFails, Goto
<1>2. Moves(t, l) /\ t \in Agents /\ t \notin Readers
  BY <1>1, NoneFacts DEF Moves, Closing, Live
<1>3. UNCHANGED <<stateVars, socketVars, reg, job, held, installed, count>>
  BY DEF ConnectCheck, ConnectFails
<1>4. l \in ClientPlaces
  BY DEF ClientPlaces
<1>5. TypeOK
  BY DEF IInv
<1> QED BY <1>2, <1>3, <1>4, <1>5, OnlyMovesIInv DEF stateVars, socketVars, TypeOK

LEMMA JoinIInv ==
    ASSUME NEW a \in Agents, IInv, Join(a)
    PROVE  IInv'
<1>1. Moves(a, "close") /\ "close" \in ClientPlaces /\ "close" \in ReaderPlaces
  BY DEF Join, Goto, Moves, Closing, Live, ClientPlaces, ReaderPlaces
<1>2. UNCHANGED <<stateVars, socketVars, reg, job, held, installed, count>>
  BY DEF Join
<1>3. TypeOK
  BY DEF IInv
<1> QED BY <1>1, <1>2, <1>3, OnlyMovesIInv DEF stateVars, socketVars, TypeOK

LEMMA SubscribeLostIInv ==
    ASSUME NEW t \in Clients, IInv, SubscribeLost(t)
    PROVE  IInv'
<1>1. Moves(t, "subscribeJoin") /\ t \in Agents /\ t \notin Readers
  BY NoneFacts DEF SubscribeLost, Goto, Moves, Closing, Live
<1>2. /\ UNCHANGED <<stateVars, closeLock, obj, reg, job, held, installed, count>>
      /\ stopped' = stopped \cup {reg[t].id}
      /\ shut' = shut \cup Behind(reg[t].sock)
  BY DEF SubscribeLost
<1>3. TypeOK /\ reg[t].id \in ConnId /\ reg[t].sock \in Sockets
  BY DEF IInv, Reading, Made, SubscribeLost
<1>4. Behind(reg[t].sock) \subseteq ConnId
  BY <1>3, BehindConns
<1>5. "subscribeJoin" \in ClientPlaces
  BY DEF ClientPlaces
<1> QED BY <1>1, <1>2, <1>3, <1>4, <1>5, OnlyMovesIInv DEF stateVars, TypeOK

LEMMA SubscribeJoinIInv ==
    ASSUME NEW t \in Clients, IInv, SubscribeJoin(t)
    PROVE  IInv'
<1>1. Moves(t, "idle") /\ t \in Agents /\ t \notin Readers
  BY NoneFacts DEF SubscribeJoin, Goto, Moves, Closing, Live
<1>2. UNCHANGED <<stateVars, socketVars, reg, job, held, installed, count>>
  BY DEF SubscribeJoin
<1>3. TypeOK /\ "idle" \in ClientPlaces
  BY DEF IInv, ClientPlaces
<1> QED BY <1>1, <1>2, <1>3, OnlyMovesIInv DEF stateVars, socketVars, TypeOK

LEMMA SetListenerIInv ==
    ASSUME NEW t \in Clients, IInv, SetListener(t)
    PROVE  IInv'
<1>1. TypeOK /\ count \in Counts
  BY DEF IInv, TypeOK
<1>2. Moves(t, "idle") /\ t \in Agents /\ t \notin Readers
  <2>1. pc' = [pc EXCEPT ![t] = "idle"] /\ pc[t] = "idle"
    BY <1>1 DEF SetListener, agentVars, TypeOK, Agents
  <2> QED BY <2>1, NoneFacts DEF Moves, Closing, Live
<1>3. /\ count' \in Counts /\ count'.conn = count.conn /\ count'.reader = count.reader
      /\ listener' \in Nat
  BY <1>1, SpendOther DEF SetListener, Counts
<1>4. UNCHANGED <<cur, socketVars, reg, job, held, installed>>
  BY DEF SetListener, agentVars
<1>5. "idle" \in ClientPlaces
  BY DEF ClientPlaces
<1> QED BY <1>1, <1>2, <1>3, <1>4, <1>5, OnlyMovesIInv DEF socketVars, TypeOK

LEMMA SendLookupIInv ==
    ASSUME NEW t \in Clients, IInv, SendLookup(t)
    PROVE  IInv'
<1>1. Moves(t, "sendLock") /\ t \in Agents /\ t \notin Readers
  BY NoneFacts DEF SendLookup, Goto, Moves, Closing, Live
<1>2. /\ UNCHANGED <<stateVars, socketVars, job, held, installed>>
      /\ reg' = [reg EXCEPT ![t] = cur] /\ cur # None /\ pc[t] = "idle"
  BY DEF SendLookup
<1>3. TypeOK /\ Owned /\ Senders
  BY DEF IInv
<1>4. /\ count' \in Counts /\ count'.conn = count.conn /\ count'.reader = count.reader
  BY <1>3, SpendOther DEF SendLookup, TypeOK
<1>5. reg' \in [Agents -> Conns] /\ reg'[t] = cur /\ \A b \in Agents \ {t} : reg'[b] = reg[b]
  BY <1>1, <1>2, <1>3 DEF TypeOK
<1>6. "sendLock" \in ClientPlaces
  BY DEF ClientPlaces
<1>7. TypeOK'
  BY <1>1, <1>2, <1>3, <1>4, <1>5, <1>6, MovesPlaces DEF stateVars, socketVars, TypeOK
<1>8. Made(cur) /\ obj[cur.sock] = cur.id
  BY <1>2, <1>3 DEF Owned, Holders, Held
<1>9. \A b \in Agents : reg'[b] = reg[b] => (Made(reg[b])' <=> Made(reg[b]))
  BY <1>4 DEF Made
<1>10. pc'[t] = "sendLock" /\ \A b \in Agents \ {t} : pc'[b] = pc[b]
  BY <1>1, <1>3 DEF Moves, TypeOK
<1>11. Made(reg[t])' /\ obj'[reg'[t].sock] = reg'[t].id
  BY <1>2, <1>4, <1>5, <1>8 DEF Made, socketVars
<1>12. Senders'
  <2>1. ASSUME NEW u \in Clients, u # t
        PROVE  /\ u \in Agents /\ pc'[u] = pc[u] /\ reg'[u] = reg[u]
               /\ Made(reg[u])' <=> Made(reg[u])
    BY <1>5, <1>9, <1>10, <2>1 DEF Agents
  <2> QED BY <1>2, <1>3, <1>10, <1>11, <2>1 DEF Senders, socketVars
<1> QED BY <1>1, <1>2, <1>4, <1>5, <1>7, <1>12, MovesIInv DEF stateVars, socketVars

LEMMA SendLockIInv ==
    ASSUME NEW t \in Clients, IInv, SendLock(t)
    PROVE  IInv'
<1>1. PICK l \in {"idle", "sending"} :
        /\ pc' = [pc EXCEPT ![t] = l] /\ pc[t] = "sendLock"
        /\ l = "idle" => UNCHANGED closeLock
        /\ l = "sending" => /\ reg[t].id \notin stopped /\ closeLock[reg[t].id] = NoAgent
                            /\ closeLock' = [closeLock EXCEPT ![reg[t].id] = t]
  BY DEF SendLock, MaySend, Goto
<1>2. Moves(t, l) /\ t \in Agents /\ t \notin Readers
  BY <1>1, NoneFacts DEF Moves, Closing, Live
<1>3. UNCHANGED <<stateVars, stopped, obj, shut, reg, job, held, installed, count>>
  BY DEF SendLock
<1>4. TypeOK /\ Senders /\ Made(reg[t])
  BY <1>1 DEF IInv, Senders
<1>5. closeLock' \in [ConnId -> Clients \cup {NoAgent}]
  BY <1>1, <1>4 DEF TypeOK
<1>6. l \in ClientPlaces
  BY DEF ClientPlaces
<1>7. TypeOK'
  BY <1>2, <1>3, <1>4, <1>5, <1>6, MovesPlaces DEF stateVars, TypeOK
<1>8. \A b \in Agents : Made(reg[b])' <=> Made(reg[b])
  BY <1>3 DEF Made
<1>9. pc'[t] = l /\ \A b \in Agents \ {t} : pc'[b] = pc[b]
  BY <1>2, <1>4 DEF Moves, TypeOK
<1>10. Senders'
  <2>1. ASSUME NEW u \in Clients, u # t, pc[u] = "sending"
        PROVE  closeLock'[reg[u].id] = u
    <3>1. closeLock[reg[u].id] = u /\ u # NoAgent /\ reg[u].id \in ConnId
      BY <1>4, <2>1, NoneFacts DEF Senders, Made
    <3> QED BY <1>1, <1>4, <3>1 DEF TypeOK
  <2>2. ASSUME l = "sending"
        PROVE  obj[reg[t].sock] = reg[t].id /\ closeLock'[reg[t].id] = t
    BY <1>1, <1>4, <2>2 DEF Senders, Made, TypeOK
  <2>3. \A u \in Clients : u \in Agents
    BY DEF Agents
  <2> QED BY <1>3, <1>4, <1>8, <1>9, <2>1, <2>2, <2>3 DEF Senders
<1> QED BY <1>2, <1>3, <1>7, <1>10, MovesIInv DEF stateVars

LEMMA SendEndsIInv ==
    ASSUME NEW t \in Clients, NEW ok \in BOOLEAN, IInv, SendEnds(t, ok)
    PROVE  IInv'
<1>1. /\ pc' = [pc EXCEPT ![t] = "idle"] /\ pc[t] = "sending"
      /\ shut' = IF ok THEN shut ELSE shut \cup Behind(reg[t].sock)
      /\ closeLock' = [closeLock EXCEPT ![reg[t].id] = NoAgent]
      /\ UNCHANGED <<stateVars, stopped, obj, reg, job, held, installed, count>>
  BY DEF SendEnds, Goto
<1>2. Moves(t, "idle") /\ t \in Agents /\ t \notin Readers
  BY <1>1, NoneFacts DEF Moves, Closing, Live
<1>3. TypeOK /\ Senders /\ Made(reg[t]) /\ closeLock[reg[t].id] = t
  BY <1>1 DEF IInv, Senders
<1>4. closeLock' \in [ConnId -> Clients \cup {NoAgent}] /\ shut' \subseteq ConnId
  BY <1>1, <1>3, BehindConns DEF TypeOK, Made
<1>5. "idle" \in ClientPlaces
  BY DEF ClientPlaces
<1>6. TypeOK'
  BY <1>1, <1>2, <1>3, <1>4, <1>5, MovesPlaces DEF stateVars, TypeOK
<1>7. \A b \in Agents : Made(reg[b])' <=> Made(reg[b])
  BY <1>1 DEF Made
<1>8. pc'[t] = "idle" /\ \A b \in Agents \ {t} : pc'[b] = pc[b]
  BY <1>2, <1>3 DEF Moves, TypeOK
<1>9. Senders'
  <2>1. ASSUME NEW u \in Clients, u # t, pc[u] = "sending"
        PROVE  closeLock'[reg[u].id] = u
    <3>1. closeLock[reg[u].id] = u /\ reg[u].id \in ConnId
      BY <1>3, <2>1 DEF Senders, Made
    <3> QED BY <1>1, <1>3, <2>1, <3>1 DEF TypeOK
  <2>2. \A u \in Clients : u \in Agents
    BY DEF Agents
  <2> QED BY <1>1, <1>3, <1>7, <1>8, <2>1, <2>2 DEF Senders
<1> QED BY <1>1, <1>2, <1>6, <1>9, MovesIInv DEF stateVars

LEMMA PeerClosesIInv ==
    ASSUME IInv, PeerCloses
    PROVE  IInv'
<1>1. TypeOK /\ Handles /\ Owned /\ Down /\ Senders /\ Reading
  BY DEF IInv
<1>2. count' \in Counts /\ count'.conn = count.conn /\ count'.reader = count.reader
  BY <1>1, SpendOther DEF PeerCloses, TypeOK
<1>3. UNCHANGED <<cur, listener, stopped, closeLock, obj, pc, reg, job, held, installed>>
  BY DEF PeerCloses, stateVars, agentVars
<1>4. shut' \subseteq ConnId
  BY <1>1, BehindConns DEF PeerCloses, TypeOK
<1>5. \A o \in Holders : Held(o)' = Held(o)
  BY <1>3 DEF Held
<1>6. Handles' /\ Owned'
  BY <1>1, <1>2, <1>3, <1>5, KeptOwned
<1>7. \A a \in Agents : Made(reg[a])' <=> Made(reg[a])
  BY <1>2, <1>3 DEF Made
<1>8. Senders'
  BY <1>1, <1>3, <1>7 DEF Senders, Agents
<1>9. Reading'
  <2>1. \A t \in Clients : t \in Agents
    BY DEF Agents
  <2>2. \A r \in Readers : r \in Agents
    BY DEF Agents
  <2> QED BY <1>1, <1>2, <1>3, <1>5, <1>7, <2>1, <2>2 DEF Reading
<1>10. Down' /\ TypeOK'
  BY <1>1, <1>2, <1>3, <1>4 DEF Down, TypeOK
<1> QED BY <1>6, <1>8, <1>9, <1>10 DEF IInv

-----------------------------------------------------------------------------
(***************************************************************************)
(* The steps of a read thread that leave every connection with its owner   *)
(***************************************************************************)
LEMMA ReadMovesIInv ==
    ASSUME NEW r \in Readers, NEW l \in Live \cup {"done"}, IInv,
           pc[r] \in Live, pc' = [pc EXCEPT ![r] = l],
           UNCHANGED <<stateVars, socketVars, reg, job, installed, count>>,
           held' \in [Readers -> Nat]
    PROVE  IInv'
<1>1. Moves(r, l) /\ r \in Agents /\ r \notin Clients
  BY NoneFacts DEF Moves, Closing, Live
<1>2. l \in ReaderPlaces /\ l \notin {"sendLock", "sending"}
  BY DEF ReaderPlaces, Live
<1>3. TypeOK
  BY DEF IInv
<1> QED BY <1>1, <1>2, <1>3, OnlyMovesIInv DEF stateVars, socketVars, TypeOK

LEMMA ReadIInv ==
    ASSUME NEW r \in Readers, IInv,
           \/ ReadCheck(r) \/ ReadData(r) \/ ReadEnd(r) \/ Fetch(r) \/ CallListener(r)
    PROVE  IInv'
<1>1. pc[r] \in Live
  BY DEF ReadCheck, ReadData, ReadEnd, Fetch, CallListener, Live
<1>2. \E l \in Live \cup {"done"} : pc' = [pc EXCEPT ![r] = l]
  BY DEF ReadCheck, ReadData, ReadEnd, Fetch, CallListener, Goto, After, Live
<1>3. UNCHANGED <<stateVars, socketVars, reg, job, installed, count>>
  BY DEF ReadCheck, ReadData, ReadEnd, Fetch, CallListener
<1>4. held' \in [Readers -> Nat]
  <2>1. held \in [Readers -> Nat] /\ listener \in Nat
    BY DEF IInv, TypeOK
  <2> QED BY <2>1 DEF ReadCheck, ReadData, ReadEnd, Fetch, CallListener
<1> QED BY <1>1, <1>2, <1>3, <1>4, ReadMovesIInv

-----------------------------------------------------------------------------
(***************************************************************************)
(* Steps that exchange the connection of the state with a thread's         *)
(***************************************************************************)
\* What every owner holds after a and the state have exchanged their connections.
Exchanged(a) ==
    /\ Held(NoAgent)' = Held(a) /\ Held(a)' = Held(NoAgent)
    /\ \A o \in Agents \ {a} : Held(o)' = Held(o)

LEMMA ExchangedOwned ==
    ASSUME NEW a \in Agents, Handles, Owned, Exchanged(a), UNCHANGED obj,
           count'.conn = count.conn
    PROVE  Handles' /\ Owned'
<1>1. Handles'
  BY DEF Handles
<1>2. a \in Holders /\ NoAgent \in Holders /\ a # NoAgent
  BY NoneFacts DEF Holders
<1>3. ASSUME NEW o \in Holders
      PROVE  /\ Held(o)' = Held(IF o = a THEN NoAgent ELSE IF o = NoAgent THEN a ELSE o)
             /\ (IF o = a THEN NoAgent ELSE IF o = NoAgent THEN a ELSE o) \in Holders
  BY <1>2 DEF Exchanged, Holders
<1>4. \A o \in Holders : Held(o)' = None \/ (Made(Held(o))' /\ obj'[Held(o)'.sock] = Held(o)'.id)
  <2>1. ASSUME NEW o \in Holders, NEW p \in Holders, Held(o)' = Held(p)
        PROVE  Held(o)' = None \/ (Made(Held(o))' /\ obj'[Held(o)'.sock] = Held(o)'.id)
    BY <2>1 DEF Owned, Made
  <2> QED BY <1>3, <2>1
<1>5. \A o1, o2 \in Holders : Held(o1)'.sock = Held(o2)'.sock /\ Held(o1)' # None => o1 = o2
  <2> SUFFICES ASSUME NEW o1 \in Holders, NEW o2 \in Holders,
                      Held(o1)'.sock = Held(o2)'.sock, Held(o1)' # None
               PROVE  o1 = o2
    OBVIOUS
  <2> DEFINE other(o) == IF o = a THEN NoAgent ELSE IF o = NoAgent THEN a ELSE o
  <2>1. /\ Held(o1)' = Held(other(o1)) /\ other(o1) \in Holders
        /\ Held(o2)' = Held(other(o2)) /\ other(o2) \in Holders
    BY <1>3
  <2>2. other(o1) = other(o2) => o1 = o2
    BY <1>2
  <2> HIDE DEF other
  <2>3. other(o1) = other(o2)
    BY <2>1 DEF Owned
  <2> QED BY <2>2, <2>3
<1>6. \A s \in Sockets : obj'[s] # 0 => \E o \in Holders : Held(o)'.sock = s
  BY <1>2 DEF Owned, Exchanged, Holders
<1> QED BY <1>1, <1>4, <1>5, <1>6 DEF Owned, None

LEMMA TakeIInv ==
    ASSUME NEW a \in Agents, NEW h, IInv, Take(a, h),
           \/ pc[a] = "install" /\ h = reg[a]
           \/ pc[a] \in {"idle", "exit"} /\ h = None,
           UNCHANGED <<closeLock, obj, reg, held, installed>>, listener' \in Nat,
           count' \in Counts, count'.conn = count.conn, count'.reader = count.reader
    PROVE  IInv'
<1>1. TypeOK /\ Handles /\ Owned /\ Down /\ Senders /\ Reading
  BY DEF IInv
<1>2. a # NoAgent /\ a \in Holders /\ NoAgent \in Holders
  BY NoneFacts DEF Holders
<1> DEFINE l == IF cur = None THEN Rest(a) ELSE "join"
<1>3. /\ cur' = h /\ job' = [job EXCEPT ![a] = cur] /\ pc' = [pc EXCEPT ![a] = l]
      /\ stopped' = stopped \cup ({cur.id} \ {0})
      /\ shut' = IF cur = None THEN shut ELSE shut \cup Behind(cur.sock)
  BY DEF Take, Goto
<1>4. /\ pc'[a] = l /\ job'[a] = cur
      /\ \A b \in Agents \ {a} : pc'[b] = pc[b] /\ job'[b] = job[b]
  BY <1>1, <1>3 DEF TypeOK
<1>5. /\ l \in {"idle", "done", "join"} /\ (l = "join" <=> cur # None)
      /\ a \in Clients => l \in {"idle", "join"}
      /\ a \in Readers => l \in {"done", "join"}
  BY NoneFacts DEF Rest
<1> HIDE DEF l
<1>6. Exchanged(a)
  <2>1. Held(a) = h
    BY <1>2 DEF Held, Closing
  <2>2. Held(NoAgent) = cur /\ Held(NoAgent)' = cur'
    BY DEF Held
  <2>3. Held(a)' = cur
    BY <1>2, <1>4, <1>5 DEF Held, Closing
  <2>4. \A o \in Agents \ {a} : Held(o)' = Held(o)
    BY <1>4, NoneFacts DEF Held
  <2> QED BY <1>3, <2>1, <2>2, <2>3, <2>4 DEF Exchanged
<1>7. Handles' /\ Owned'
  BY <1>1, <1>6, ExchangedOwned
<1>8. cur = None \/ Made(cur)
  BY <1>1, <1>2 DEF Owned, Held
<1>9. TypeOK'
  <2>1. h \in Conns
    BY <1>1, NoneFacts DEF TypeOK
  <2>2. stopped' \subseteq ConnId /\ shut' \subseteq ConnId
    BY <1>1, <1>3, <1>8, BehindConns, NoneFacts DEF Made, TypeOK
  <2>3. /\ pc' \in [Agents -> ClientPlaces \cup ReaderPlaces]
        /\ \A t \in Clients : pc'[t] \in ClientPlaces
        /\ \A r \in Readers : pc'[r] \in ReaderPlaces
    <3>1. l \in ClientPlaces \cup ReaderPlaces
      BY <1>5 DEF ClientPlaces, ReaderPlaces, Closing
    <3>2. (a \in Clients => l \in ClientPlaces) /\ (a \in Readers => l \in ReaderPlaces)
      BY <1>5 DEF ClientPlaces, ReaderPlaces, Closing
    <3> QED BY <1>1, <1>3, <1>4, <3>1, <3>2, NoneFacts DEF TypeOK
  <2>4. job' \in [Agents -> Conns]
    BY <1>1, <1>3 DEF TypeOK
  <2> QED BY <1>1, <1>3, <2>1, <2>2, <2>3, <2>4 DEF TypeOK
<1>10. Down'
  <2>1. pc'[a] \in Closing => job'[a] # None /\ job'[a].id \in stopped'
    BY <1>3, <1>4, <1>5, <1>8, NoneFacts DEF Made, Closing
  <2>2. \A r \in Readers : pc[r] = "done" => pc'[r] = "done"
    BY <1>4 DEF Agents
  <2>3. pc'[a] # "close" /\ stopped \subseteq stopped'
    BY <1>3, <1>4, <1>5
  <2> QED BY <1>1, <1>4, <2>1, <2>2, <2>3 DEF Down
<1>11. \A b \in Agents : Made(reg[b])' <=> Made(reg[b])
  BY DEF Made
<1>12. Senders'
  <2>1. \A t \in Clients : pc'[t] \in {"sendLock", "sending"} => pc'[t] = pc[t] /\ t \in Agents
    BY <1>4, <1>5 DEF Agents
  <2> QED BY <1>1, <1>3, <1>11, <2>1 DEF Senders
<1>13. Reading'
  <2>1. \A r \in Readers : /\ r \in Agents
                           /\ pc'[r] = "unborn" <=> pc[r] = "unborn"
                           /\ pc'[r] \in Live => pc[r] \in Live
    BY <1>4, <1>5 DEF Agents, Live
  <2>2. \A t \in Clients : t \in Agents /\ (pc'[t] = "subscribe" => pc[t] = "subscribe")
    BY <1>4, <1>5 DEF Agents
  <2>3. \A o \in Holders : \E p \in Holders : Held(o)' = Held(p)
    BY <1>2, <1>6 DEF Exchanged, Holders
  <2>4. \A r \in installed : pc'[r] \in Live =>
          /\ obj[reg[r].sock] = reg[r].id
          /\ \A o \in Holders : Held(o)'.id = reg[r].id => Held(o)'.reader = r
    <3>1. installed \subseteq Readers
      BY <1>1 DEF TypeOK
    <3>2. ASSUME NEW r \in installed, pc[r] \in Live, NEW o \in Holders,
                 Held(o)'.id = reg[r].id
          PROVE  Held(o)'.reader = r
      <4>1. PICK p \in Holders : Held(o)' = Held(p)
        BY <2>3
      <4> QED BY <1>1, <3>2, <4>1 DEF Reading
    <3> QED BY <1>1, <2>1, <3>1, <3>2 DEF Reading
  <2> QED BY <1>1, <1>11, <2>1, <2>2, <2>4 DEF Reading, Holders
<1> QED BY <1>7, <1>9, <1>10, <1>12, <1>13 DEF IInv

LEMMA ConnectInstallIInv ==
    ASSUME NEW t \in Clients, IInv, ConnectInstall(t)
    PROVE  IInv'
<1>1. TypeOK /\ t \in Agents
  BY DEF IInv, Agents
<1>2. /\ pc[t] = "install" /\ Take(t, reg[t])
      /\ UNCHANGED <<listener, closeLock, obj, reg, held, installed, count>>
  BY DEF ConnectInstall
<1> QED BY <1>1, <1>2, TakeIInv DEF TypeOK

LEMMA DisconnectIInv ==
    ASSUME NEW t \in Clients, IInv, Disconnect(t)
    PROVE  IInv'
<1>1. TypeOK /\ t \in Agents
  BY DEF IInv, Agents
<1>2. /\ pc[t] = "idle" /\ Take(t, None) /\ listener' = 0
      /\ UNCHANGED <<closeLock, obj, reg, held, installed>>
  BY DEF Disconnect
<1>3. count' \in Counts /\ count'.conn = count.conn /\ count'.reader = count.reader
  BY <1>1, SpendOther DEF Disconnect, TypeOK
<1> QED BY <1>1, <1>2, <1>3, TakeIInv

LEMMA ReadExitIInv ==
    ASSUME NEW r \in Readers, IInv, ReadExit(r)
    PROVE  IInv'
<1>1. TypeOK /\ r \in Agents
  BY DEF IInv, Agents
<1>2. pc[r] = "exit" /\ UNCHANGED <<listener, closeLock, obj, reg, held, installed, count>>
  BY DEF ReadExit
<1>3. CASE Take(r, None)
  BY <1>1, <1>2, <1>3, TakeIInv DEF TypeOK
<1>4. CASE Goto(r, "done") /\ UNCHANGED <<cur, job, stopped, shut>>
  <2>1. pc[r] \in Live /\ "done" \in Live \cup {"done"} /\ pc' = [pc EXCEPT ![r] = "done"]
    BY <1>2, <1>4 DEF Live, Goto
  <2> QED BY <1>1, <1>2, <1>4, <2>1, ReadMovesIInv DEF TypeOK, stateVars, socketVars
<1> QED BY <1>3, <1>4 DEF ReadExit

-----------------------------------------------------------------------------
(***************************************************************************)
(* A socket is made                                                        *)
(***************************************************************************)
LEMMA ConnectSucceedsIInv ==
    ASSUME NEW t \in Clients, IInv, ConnectSucceeds(t)
    PROVE  IInv'
<1>1. TypeOK /\ Handles /\ Owned /\ Down /\ Senders /\ Reading
  BY DEF IInv
<1>2. /\ t \in Agents /\ t \notin Readers /\ t # NoAgent
      /\ t \in Holders /\ NoAgent \in Holders
  BY NoneFacts DEF Holders
<1> DEFINE n == count.conn + 1
<1>3. PICK s \in Sockets :
        /\ obj[s] = 0 /\ obj' = [obj EXCEPT ![s] = n]
        /\ reg' = [reg EXCEPT ![t] = [id |-> n, sock |-> s, reader |-> 0]]
  BY DEF ConnectSucceeds
<1> DEFINE c == [id |-> n, sock |-> s, reader |-> 0]
<1>4. /\ count' \in Counts /\ count'.conn = n /\ count'.reader = count.reader
      /\ n \in ConnId /\ count.conn \in Nat /\ n = count.conn + 1
  BY <1>1, SpendConn DEF ConnectSucceeds, TypeOK, Counts
<1>5. /\ pc[t] = "connecting" /\ pc' = [pc EXCEPT ![t] = "install"]
      /\ UNCHANGED <<stateVars, stopped, closeLock, shut, job, held, installed>>
  BY DEF ConnectSucceeds, Goto
<1>6. c \in Conns /\ c.id = n /\ c.sock = s /\ c.reader = 0 /\ c # None
  BY <1>4, NoneFacts DEF Conns, None
<1> HIDE DEF c
<1>7. /\ pc'[t] = "install" /\ reg'[t] = c
      /\ \A b \in Agents \ {t} : pc'[b] = pc[b] /\ reg'[b] = reg[b]
      /\ obj'[s] = n /\ \A v \in Sockets \ {s} : obj'[v] = obj[v]
  BY <1>1, <1>2, <1>3, <1>5 DEF TypeOK, c
<1> HIDE DEF n
<1>8. /\ Held(t) = None /\ Held(t)' = c
      /\ \A o \in Holders \ {t} : Held(o)' = Held(o)
  <2>1. Held(t) = None
    BY <1>2, <1>5 DEF Held, Closing
  <2>2. Held(t)' = c
    BY <1>2, <1>7 DEF Held
  <2>3. \A o \in Holders \ {t} : Held(o)' = Held(o)
    BY <1>5, <1>7 DEF Held, Holders, stateVars
  <2> QED BY <2>1, <2>2, <2>3
<1>9. TypeOK'
  <2>1. obj' \in [Sockets -> ConnId \cup {0}]
    BY <1>1, <1>3, <1>4 DEF TypeOK
  <2>2. reg' \in [Agents -> Conns]
    BY <1>1, <1>3, <1>6 DEF TypeOK, c
  <2>3. /\ pc' \in [Agents -> ClientPlaces \cup ReaderPlaces]
        /\ \A u \in Clients : pc'[u] \in ClientPlaces
        /\ \A r \in Readers : pc'[r] \in ReaderPlaces
    <3>1. "install" \in ClientPlaces
      BY DEF ClientPlaces
    <3> QED BY <1>1, <1>2, <1>5, <1>7, <3>1, NoneFacts DEF TypeOK
  <2> QED BY <1>1, <1>4, <1>5, <2>1, <2>2, <2>3 DEF TypeOK, stateVars
<1>10. Handles'
  <2>1. \A v \in Sockets : obj[v] \in Nat /\ obj[v] # n
    <3> SUFFICES ASSUME NEW v \in Sockets PROVE obj[v] \in Nat /\ obj[v] # n
      OBVIOUS
    <3>1. obj[v] \in Nat
      <4>1. obj[v] \in ConnId \cup {0}
        BY <1>1 DEF TypeOK
      <4> QED BY <4>1, ConnNumbers
    <3>2. obj[v] <= count.conn
      BY <1>1 DEF Handles
    <3> QED BY <1>4, <3>1, <3>2
  <2> QED BY <1>1, <1>4, <1>7, <2>1 DEF Handles
<1>11. \A d \in Conns : Made(d) => Made(d)'
  <2> SUFFICES ASSUME NEW d, Made(d) PROVE Made(d)'
    OBVIOUS
  <2>1. d.id \in Nat /\ d.id <= count.conn
    BY NoneFacts DEF Made
  <2>2. d.id <= count'.conn
    BY <1>4, <2>1
  <2> QED BY <2>2 DEF Made
<1>12. \A d \in Conns : Made(d) /\ obj[d.sock] = d.id => obj'[d.sock] = d.id
  BY <1>3, <1>7, NoneFacts DEF Made
<1>13. \A o \in Holders : Held(o) \in Conns
  BY <1>1, NoneFacts DEF Held, Holders, TypeOK
<1>14. Owned'
  <2>1. \A o \in Holders \ {t} : Held(o) = None \/ (Made(Held(o)) /\ Held(o).sock # s)
    BY <1>1, <1>3, NoneFacts DEF Owned, Made
  <2>2. \A o \in Holders : Held(o)' = None \/ (Made(Held(o))' /\ obj'[Held(o)'.sock] = Held(o)'.id)
    <3>1. Made(Held(t))' /\ obj'[Held(t)'.sock] = Held(t)'.id
      BY <1>4, <1>6, <1>7, <1>8 DEF Made
    <3>2. ASSUME NEW o \in Holders, o # t, Held(o) # None
          PROVE  Made(Held(o))' /\ obj'[Held(o)'.sock] = Held(o)'.id
      <4>1. Held(o)' = Held(o) /\ Made(Held(o)) /\ obj[Held(o).sock] = Held(o).id
        BY <1>1, <1>8, <3>2 DEF Owned
      <4>2. obj'[Held(o)'.sock] = Held(o)'.id
        BY <1>12, <1>13, <4>1
      <4> QED BY <1>11, <1>13, <4>1, <4>2 DEF Made
    <3> QED BY <1>8, <3>1, <3>2
  <2>3. \A o1, o2 \in Holders : Held(o1)'.sock = Held(o2)'.sock /\ Held(o1)' # None => o1 = o2
    BY <1>1, <1>6, <1>8, <2>1, NoneFacts DEF Owned
  <2>4. \A v \in Sockets : obj'[v] # 0 => \E o \in Holders : Held(o)'.sock = v
    BY <1>1, <1>2, <1>6, <1>7, <1>8, NoneFacts DEF Owned
  <2> QED BY <2>2, <2>3, <2>4 DEF Owned, None
<1>15. Down'
  BY <1>1, <1>2, <1>5, <1>7, NoneFacts DEF Down, Closing, Agents
<1>16. Senders'
  <2>1. \A u \in Clients : pc'[u] \in {"sendLock", "sending"} =>
          /\ pc'[u] = pc[u] /\ reg'[u] = reg[u]
          /\ reg[u] \in Conns /\ u \in Agents
    BY <1>1, <1>7 DEF Agents, TypeOK
  <2>2. \A b \in Agents : reg'[b] = reg[b] /\ reg[b] \in Conns => (Made(reg[b]) => Made(reg[b])')
    BY <1>11 DEF Made
  <2> QED BY <1>1, <1>5, <1>12, <2>1, <2>2 DEF Senders
<1>17. Reading'
  <2>1. \A r \in Readers : /\ r \in Agents /\ r # t /\ pc'[r] = pc[r] /\ reg'[r] = reg[r]
                           /\ reg[r] \in Conns
    BY <1>1, <1>2, <1>7 DEF Agents, TypeOK
  <2>2. \A b \in Agents : reg'[b] = reg[b] /\ reg[b] \in Conns => (Made(reg[b]) => Made(reg[b])')
    BY <1>11 DEF Made
  <2>3. \A u \in Clients : u \in Agents /\ (pc'[u] = "subscribe" =>
           pc[u] = "subscribe" /\ reg'[u] = reg[u] /\ reg[u] \in Conns)
    BY <1>1, <1>7 DEF Agents, TypeOK
  <2>4. ASSUME NEW r \in installed, pc'[r] \in Live
        PROVE  /\ obj'[reg'[r].sock] = reg'[r].id
               /\ \A o \in Holders : Held(o)'.id = reg'[r].id => Held(o)'.reader = r
    <3>1. /\ r \in Readers /\ Made(reg[r]) /\ reg[r] \in Conns /\ reg'[r] = reg[r]
          /\ obj[reg[r].sock] = reg[r].id
      BY <1>1, <2>1, <2>4 DEF Reading, TypeOK
    <3>2. reg[r].id # n /\ reg'[r] = reg[r]
      BY <1>4, <2>1, <3>1, NoneFacts DEF Made
    <3> QED BY <1>1, <1>6, <1>8, <1>12, <2>1, <2>4, <3>1, <3>2 DEF Reading
  <2> QED BY <1>1, <1>4, <1>5, <2>1, <2>2, <2>3, <2>4 DEF Reading, Holders
<1> QED BY <1>9, <1>10, <1>14, <1>15, <1>16, <1>17 DEF IInv

-----------------------------------------------------------------------------
(***************************************************************************)
(* A socket is closed                                                      *)
(***************************************************************************)
LEMMA CloseSocketIInv ==
    ASSUME NEW a \in Agents, IInv, CloseSocket(a)
    PROVE  IInv'
<1>1. TypeOK /\ Handles /\ Owned /\ Down /\ Senders /\ Reading
  BY DEF IInv
<1>2. a # NoAgent /\ a \in Holders
  BY NoneFacts DEF Holders
<1> DEFINE c == job[a]
           l == Rest(a)
<1>3. /\ pc[a] = "close" /\ closeLock[c.id] = NoAgent
      /\ obj' = [obj EXCEPT ![c.sock] = 0] /\ job' = [job EXCEPT ![a] = None]
      /\ pc' = [pc EXCEPT ![a] = l]
      /\ UNCHANGED <<stateVars, stopped, closeLock, shut, reg, held, installed, count>>
  BY DEF CloseSocket, Goto
<1>4. /\ l \in {"idle", "done"} /\ (a \in Clients => l = "idle")
      /\ (a \in Readers => l = "done")
  BY NoneFacts DEF Rest
<1>5. Held(a) = c
  BY <1>2, <1>3 DEF Held, Closing
<1>6. c # None /\ c.id \in stopped /\ Made(c) /\ obj[c.sock] = c.id /\ c \in Conns
  BY <1>1, <1>2, <1>3, <1>5 DEF Down, Closing, Owned, TypeOK
<1> HIDE DEF c, l
<1>7. /\ pc'[a] = l /\ job'[a] = None
      /\ \A b \in Agents \ {a} : pc'[b] = pc[b] /\ job'[b] = job[b]
      /\ obj'[c.sock] = 0 /\ \A v \in Sockets \ {c.sock} : obj'[v] = obj[v]
  BY <1>1, <1>3, <1>6 DEF TypeOK, Made
<1>8. Held(a)' = None /\ \A o \in Holders \ {a} : Held(o)' = Held(o)
  <2>1. Held(a)' = None
    BY <1>2, <1>4, <1>7 DEF Held, Closing
  <2>2. \A o \in Holders \ {a} : Held(o)' = Held(o)
    BY <1>3, <1>7 DEF Held, Holders, stateVars
  <2> QED BY <2>1, <2>2
<1>9. TypeOK'
  <2>1. obj' \in [Sockets -> ConnId \cup {0}] /\ job' \in [Agents -> Conns]
    BY <1>1, <1>3, NoneFacts DEF TypeOK
  <2>2. /\ pc' \in [Agents -> ClientPlaces \cup ReaderPlaces]
        /\ \A u \in Clients : pc'[u] \in ClientPlaces
        /\ \A r \in Readers : pc'[r] \in ReaderPlaces
    <3>1. "idle" \in ClientPlaces /\ "done" \in ReaderPlaces
      BY DEF ClientPlaces, ReaderPlaces
    <3> QED BY <1>1, <1>3, <1>4, <1>7, <3>1, NoneFacts DEF TypeOK
  <2> QED BY <1>1, <1>3, <2>1, <2>2 DEF TypeOK, stateVars
<1>10. Handles'
  BY <1>1, <1>3, <1>6, <1>7, NoneFacts DEF Handles, Made, TypeOK, Counts
<1>11. \A d \in Conns : Made(d)' <=> Made(d)
  BY <1>3 DEF Made
<1>12. \A d \in Conns : Made(d) /\ obj[d.sock] = d.id /\ d.id # c.id => obj'[d.sock] = d.id
  BY <1>6, <1>7 DEF Made
<1>13. \A o \in Holders : Held(o) \in Conns
  BY <1>1, NoneFacts DEF Held, Holders, TypeOK
<1>14. Owned'
  <2>1. \A o \in Holders \ {a} : Held(o) # None => Held(o).sock # c.sock
    BY <1>1, <1>2, <1>5, <1>6 DEF Owned
  <2>2. ASSUME NEW o \in Holders, Held(o)' # None
        PROVE  Made(Held(o))' /\ obj'[Held(o)'.sock] = Held(o)'.id
    <3>1. o # a /\ Held(o)' = Held(o) /\ Made(Held(o)) /\ obj[Held(o).sock] = Held(o).id
      BY <1>1, <1>8, <2>2 DEF Owned
    <3>2. obj'[Held(o).sock] = Held(o).id
      BY <1>7, <2>1, <2>2, <3>1 DEF Made
    <3> QED BY <1>3, <3>1, <3>2 DEF Made
  <2>3. \A o1, o2 \in Holders : Held(o1)'.sock = Held(o2)'.sock /\ Held(o1)' # None => o1 = o2
    <3>1. \A o \in Holders \ {a} : Held(o) # None => Held(o).sock # 0
      BY <1>1, NoneFacts DEF Owned, Made
    <3> QED BY <1>1, <1>8, <3>1, NoneFacts DEF Owned
  <2>4. \A v \in Sockets : obj'[v] # 0 => \E o \in Holders : Held(o)'.sock = v
    <3>1. ASSUME NEW v \in Sockets, obj'[v] # 0
          PROVE  \E o \in Holders : Held(o)'.sock = v
      <4>1. v # c.sock /\ obj[v] # 0
        BY <1>7, <3>1
      <4>2. PICK o \in Holders : Held(o).sock = v
        BY <1>1, <4>1 DEF Owned
      <4> QED BY <1>5, <1>8, <4>1, <4>2
    <3> QED BY <3>1
  <2> QED BY <2>2, <2>3, <2>4 DEF Owned, None
<1>15. Down'
  <2>1. \A r \in Readers : pc[r] = "done" => pc'[r] = "done"
    BY <1>3, <1>7 DEF Agents
  <2>2. pc'[a] \notin Closing /\ pc'[a] # "close"
    BY <1>4, <1>7 DEF Closing
  <2>3. stopped' = stopped /\ \A b \in Agents : pc'[b] \in Closing \/ pc'[b] = "close" =>
           pc'[b] = pc[b] /\ job'[b] = job[b]
    BY <1>3, <1>7, <2>2
  <2> QED BY <1>1, <2>1, <2>3 DEF Down
<1>16. Senders'
  <2>1. \A u \in Clients : pc'[u] \in {"sendLock", "sending"} =>
          /\ pc'[u] = pc[u] /\ reg[u] \in Conns /\ u \in Agents
    BY <1>1, <1>4, <1>7 DEF Agents, TypeOK
  <2>2. \A u \in Clients : pc[u] = "sending" => reg[u].id # c.id
    BY <1>1, <1>3, NoneFacts DEF Senders, Agents
  <2>3. \A u \in Clients : Made(reg[u])' <=> Made(reg[u])
    BY <1>3 DEF Made
  <2> QED BY <1>1, <1>3, <1>6, <1>12, <2>1, <2>2, <2>3 DEF Senders
<1>17. Reading'
  <2>1. \A r \in Readers : /\ r \in Agents /\ reg[r] \in Conns
                           /\ pc'[r] = "unborn" <=> pc[r] = "unborn"
                           /\ pc'[r] \in Live => pc[r] \in Live /\ r # a
    BY <1>1, <1>3, <1>4, <1>7 DEF Agents, TypeOK, Live
  <2>2. \A u \in Clients : u \in Agents /\ (pc'[u] = "subscribe" => pc[u] = "subscribe")
    BY <1>4, <1>7 DEF Agents
  <2>3. \A b \in Agents : Made(reg[b])' <=> Made(reg[b])
    BY <1>3 DEF Made
  <2>4. ASSUME NEW r \in installed, pc'[r] \in Live
        PROVE  /\ obj'[reg[r].sock] = reg[r].id
               /\ \A o \in Holders : Held(o)'.id = reg[r].id => Held(o)'.reader = r
    <3>1. r \in Readers /\ pc[r] \in Live /\ r # a /\ Made(reg[r])
      BY <1>1, <2>1, <2>4 DEF Reading, TypeOK
    <3>2. reg[r].id # c.id
      <4>1. reg[r].id = c.id => c.reader = r
        BY <1>1, <1>2, <1>5, <3>1 DEF Reading
      <4>2. c.reader \in {0, a} \cup {q \in Readers : pc[q] = "done"}
        BY <1>1, <1>3 DEF Down, c
      <4>3. c.reader # r
        BY <3>1, <4>2, NoneFacts DEF Live
      <4> QED BY <4>1, <4>3
    <3>3. reg[r].id # 0 /\ None.id = 0
      BY <3>1, NoneFacts DEF Made
    <3> QED BY <1>1, <1>8, <1>12, <2>1, <3>1, <3>2, <3>3 DEF Reading
  <2> QED BY <1>1, <1>3, <2>1, <2>2, <2>3, <2>4 DEF Reading, Holders
<1> QED BY <1>9, <1>10, <1>14, <1>15, <1>16, <1>17 DEF IInv

-----------------------------------------------------------------------------
(***************************************************************************)
(* A read thread is spawned, and stored                                    *)
(***************************************************************************)
LEMMA SubscribeCheckIInv ==
    ASSUME NEW t \in Clients, IInv, SubscribeCheck(t)
    PROVE  IInv'
<1>1. TypeOK /\ Handles /\ Owned /\ Down /\ Senders /\ Reading
  BY DEF IInv
<1>2. t \in Agents /\ t \notin Readers /\ NoAgent \in Holders
  BY NoneFacts DEF Holders
<1>0. PICK r \in Readers : r = count.reader + 1
  BY <1>1, SpendReader DEF SubscribeCheck, TypeOK, Counts
<1> DEFINE c == [cur EXCEPT !.reader = r]
<1>3. /\ pc[t] = "idle" /\ cur # None
      /\ reg' = [reg EXCEPT ![t] = c, ![r] = cur]
      /\ pc' = [pc EXCEPT ![t] = "subscribe", ![r] = "check"]
      /\ UNCHANGED <<stateVars, socketVars, job, held, installed>>
  BY <1>0 DEF SubscribeCheck
<1>4. /\ count' \in Counts /\ count'.reader = r /\ count'.conn = count.conn
      /\ r \in Readers /\ count.reader \in Nat /\ r = count.reader + 1
  BY <1>0, <1>1, SpendReader DEF SubscribeCheck, TypeOK, Counts
<1>5. /\ c \in Conns /\ c.id = cur.id /\ c.sock = cur.sock /\ c.reader = r
      /\ cur \in Conns
  BY <1>1, <1>4 DEF TypeOK, Conns
<1> HIDE DEF c
<1>6. r \in Agents /\ r # t /\ r \notin Clients /\ pc[r] = "unborn"
  BY <1>1, <1>2, <1>4, NoneFacts DEF Reading
<1>7. /\ pc'[t] = "subscribe" /\ pc'[r] = "check" /\ reg'[t] = c /\ reg'[r] = cur
      /\ \A b \in Agents \ {t, r} : pc'[b] = pc[b] /\ reg'[b] = reg[b]
  BY <1>1, <1>2, <1>3, <1>6 DEF TypeOK
<1>8. \A o \in Holders : Held(o)' = Held(o)
  <2>1. ASSUME NEW o \in {t, r} PROVE Held(o)' = None /\ Held(o) = None
    BY <1>2, <1>3, <1>6, <1>7, NoneFacts DEF Held, Closing
  <2>2. ASSUME NEW o \in Holders \ {t, r} PROVE Held(o)' = Held(o)
    BY <1>3, <1>7 DEF Held, Holders, stateVars
  <2> QED BY <2>1, <2>2
<1>9. Handles' /\ Owned'
  BY <1>1, <1>3, <1>4, <1>8, KeptOwned DEF socketVars
<1>10. TypeOK'
  <2>1. reg' \in [Agents -> Conns]
    BY <1>1, <1>3, <1>5 DEF TypeOK
  <2>2. /\ pc' \in [Agents -> ClientPlaces \cup ReaderPlaces]
        /\ \A u \in Clients : pc'[u] \in ClientPlaces
        /\ \A q \in Readers : pc'[q] \in ReaderPlaces
    <3>1. "subscribe" \in ClientPlaces /\ "check" \in ReaderPlaces
      BY DEF ClientPlaces, ReaderPlaces, Live
    <3> QED BY <1>1, <1>2, <1>3, <1>6, <1>7, <3>1, NoneFacts DEF TypeOK
  <2> QED BY <1>1, <1>3, <1>4, <2>1, <2>2 DEF TypeOK, stateVars, socketVars
<1>11. Made(cur) /\ obj[cur.sock] = cur.id
  BY <1>1, <1>2, <1>3 DEF Owned, Held
<1>12. \A b \in Agents : reg'[b] = reg[b] => (Made(reg[b])' <=> Made(reg[b]))
  BY <1>4 DEF Made
<1>13. Made(reg[t])' /\ Made(reg[r])'
  BY <1>4, <1>5, <1>7, <1>11 DEF Made
<1>14. Down'
  <2>1. \A q \in Readers : pc[q] = "done" => pc'[q] = "done"
    BY <1>2, <1>6, <1>7 DEF Agents
  <2>2. \A b \in Agents : pc'[b] \in Closing \/ pc'[b] = "close" => pc'[b] = pc[b]
    BY <1>7 DEF Closing
  <2>3. UNCHANGED <<job, stopped>>
    BY <1>3 DEF socketVars
  <2> QED BY <1>1, <2>1, <2>2, <2>3 DEF Down
<1>15. Senders'
  <2>1. \A u \in Clients : pc'[u] \in {"sendLock", "sending"} =>
          pc'[u] = pc[u] /\ reg'[u] = reg[u] /\ u \in Agents
    BY <1>6, <1>7 DEF Agents
  <2>2. UNCHANGED <<stopped, obj, closeLock>>
    BY <1>3 DEF socketVars
  <2> QED BY <1>1, <1>12, <2>1, <2>2 DEF Senders
<1>16. Reading'
  <2>1. \A q \in Readers \ {r} : q \in Agents /\ pc'[q] = pc[q] /\ reg'[q] = reg[q]
    BY <1>2, <1>7 DEF Agents
  <2>2. \A q \in Readers : pc'[q] = "unborn" <=> q > count'.reader
    <3>1. ASSUME NEW q \in Readers, q # r
          PROVE  q > count'.reader <=> q > count.reader
      <4>1. q \in Nat /\ r \in Nat /\ count.reader \in Nat
        BY <1>4, ReaderNumbers
      <4> QED BY <1>4, <3>1, <4>1
    <3>2. ~(r > count'.reader)
      BY <1>4, NoneFacts
    <3> QED BY <1>1, <1>7, <2>1, <3>1, <3>2 DEF Reading
  <2>3. \A q \in Readers : pc'[q] \in Live => Made(reg[q])'
    BY <1>1, <1>12, <1>13, <2>1 DEF Reading
  <2>4. \A u \in Clients : pc'[u] = "subscribe" =>
          /\ Made(reg[u])'
          /\ reg'[u].reader \in Readers /\ reg'[u].reader <= count'.reader
          /\ reg'[reg'[u].reader].id = reg'[u].id
          /\ reg'[reg'[u].reader].sock = reg'[u].sock
    <3>1. r <= count'.reader
      BY <1>4, NoneFacts
    <3>2. ASSUME NEW u \in Clients, u # t, pc'[u] = "subscribe"
          PROVE  /\ Made(reg[u])'
                 /\ reg'[u].reader \in Readers /\ reg'[u].reader <= count'.reader
                 /\ reg'[reg'[u].reader].id = reg'[u].id
                 /\ reg'[reg'[u].reader].sock = reg'[u].sock
      <4>1. u \in Agents /\ pc[u] = "subscribe" /\ reg'[u] = reg[u]
        BY <1>6, <1>7, <3>2 DEF Agents
      <4>2. reg[u].reader \in Readers /\ reg[u].reader <= count.reader
        BY <1>1, <4>1 DEF Reading
      <4>3. reg[u].reader # r /\ reg[u].reader <= count'.reader
        <5>1. reg[u].reader \in Nat /\ r \in Nat /\ count.reader \in Nat
          BY <1>4, <4>2, ReaderNumbers
        <5> QED BY <1>4, <4>2, <5>1
      <4> QED BY <1>1, <1>12, <2>1, <4>1, <4>2, <4>3 DEF Reading
    <3> QED BY <1>4, <1>5, <1>7, <1>13, <3>1, <3>2
  <2>5. \A q \in installed : /\ q \in Readers /\ q # r /\ q <= count.reader
                             /\ q <= count'.reader
    BY <1>1, <1>4, NoneFacts DEF Reading, TypeOK
  <2>6. \A q \in installed : pc'[q] \in Live =>
          /\ obj[reg'[q].sock] = reg'[q].id
          /\ \A o \in Holders : Held(o)'.id = reg'[q].id => Held(o)'.reader = q
    BY <1>1, <1>8, <2>1, <2>5 DEF Reading
  <2> QED BY <1>3, <2>2, <2>3, <2>4, <2>5, <2>6 DEF Reading, Holders, socketVars
<1> QED BY <1>9, <1>10, <1>14, <1>15, <1>16 DEF IInv

LEMMA SubscribeInstallIInv ==
    ASSUME NEW t \in Clients, IInv, SubscribeInstall(t)
    PROVE  IInv'
<1>1. TypeOK /\ Handles /\ Owned /\ Down /\ Senders /\ Reading
  BY DEF IInv
<1>2. t \in Agents /\ t \notin Readers /\ NoAgent \in Holders /\ t # NoAgent
  BY NoneFacts DEF Holders
<1> DEFINE c == reg[t]
           r == reg[t].reader
<1>3. /\ pc[t] = "subscribe" /\ cur = [c EXCEPT !.reader = 0] /\ cur' = c
      /\ installed' = installed \cup {r}
      /\ pc' = [pc EXCEPT ![t] = "idle"]
      /\ UNCHANGED <<listener, socketVars, reg, job, held, count>>
  BY DEF SubscribeInstall, Goto
<1>4. /\ Made(c) /\ c \in Conns /\ r \in Readers /\ r <= count.reader
      /\ reg[r].id = c.id /\ reg[r].sock = c.sock /\ c.reader = r
  BY <1>1, <1>2, <1>3 DEF Reading, TypeOK
<1>5. cur.id = c.id /\ cur.sock = c.sock /\ cur.reader = 0
  BY <1>3, <1>4 DEF Conns
<1> HIDE DEF c, r
<1>6. pc'[t] = "idle" /\ \A b \in Agents \ {t} : pc'[b] = pc[b]
  BY <1>1, <1>2, <1>3 DEF TypeOK
<1>7. /\ Held(NoAgent) = cur /\ Held(NoAgent)' = c
      /\ \A o \in Holders \ {NoAgent} : Held(o)' = Held(o)
  <2>1. Held(NoAgent) = cur /\ Held(NoAgent)' = c
    BY <1>3 DEF Held
  <2>2. Held(t) = None /\ Held(t)' = None
    BY <1>2, <1>3, <1>6 DEF Held, Closing
  <2>3. \A o \in Holders \ {NoAgent, t} : Held(o)' = Held(o)
    BY <1>3, <1>6 DEF Held, Holders
  <2> QED BY <2>1, <2>2, <2>3
<1>8. cur # None /\ obj[c.sock] = c.id /\ c # None
  <2>1. cur # None /\ c # None
    BY <1>4, <1>5, NoneFacts DEF Made
  <2> QED BY <1>1, <1>2, <1>5, <1>7, <2>1 DEF Owned
<1>9. TypeOK'
  <2>1. /\ pc' \in [Agents -> ClientPlaces \cup ReaderPlaces]
        /\ \A u \in Clients : pc'[u] \in ClientPlaces
        /\ \A q \in Readers : pc'[q] \in ReaderPlaces
    <3>1. "idle" \in ClientPlaces
      BY DEF ClientPlaces
    <3> QED BY <1>1, <1>2, <1>3, <1>6, <3>1, NoneFacts DEF TypeOK
  <2>2. cur' \in Conns /\ installed' \subseteq Readers
    BY <1>1, <1>3, <1>4 DEF TypeOK
  <2> QED BY <1>1, <1>3, <2>1, <2>2 DEF TypeOK, socketVars
<1>10. Handles'
  BY <1>1, <1>3 DEF Handles, socketVars
<1>11. \A d : Made(d)' <=> Made(d)
  BY <1>3 DEF Made
<1>12. Owned'
  <2>1. \A o \in Holders : Held(o)'.sock = Held(o).sock /\ Held(o)'.id = Held(o).id
    BY <1>5, <1>7
  <2>2. \A o \in Holders : Held(o)' = None <=> Held(o) = None
    BY <1>7, <1>8
  <2>3. \A o \in Holders : Made(Held(o))' <=> Made(Held(o))
    BY <1>3, <2>1 DEF Made
  <2> QED BY <1>1, <1>3, <2>1, <2>2, <2>3 DEF Owned, socketVars, Holders, None
<1>13. Down'
  <2>1. \A q \in Readers : pc[q] = "done" => pc'[q] = "done"
    BY <1>2, <1>6 DEF Agents
  <2>2. \A b \in Agents : pc'[b] \in Closing \/ pc'[b] = "close" => pc'[b] = pc[b]
    BY <1>6 DEF Closing
  <2>3. UNCHANGED <<job, stopped>>
    BY <1>3 DEF socketVars
  <2> QED BY <1>1, <2>1, <2>2, <2>3 DEF Down
<1>14. Senders'
  <2>1. \A u \in Clients : pc'[u] \in {"sendLock", "sending"} => pc'[u] = pc[u]
    BY <1>6 DEF Agents
  <2>2. UNCHANGED <<stopped, obj, closeLock, reg>>
    BY <1>3 DEF socketVars
  <2> QED BY <1>1, <1>11, <2>1, <2>2 DEF Senders, Made
<1>15. Reading'
  <2>1. \A q \in Readers : pc'[q] = pc[q]
    BY <1>2, <1>6 DEF Agents
  <2>2. \A u \in Clients : pc'[u] = "subscribe" => pc[u] = "subscribe"
    BY <1>6 DEF Agents
  <2>3. \A b \in Agents : Made(reg[b])' <=> Made(reg[b])
    BY <1>3 DEF Made
  <2>4. \A q \in installed' : q <= count.reader
    BY <1>1, <1>3, <1>4 DEF Reading
  <2>5. \A o \in Holders \ {NoAgent} : Held(o).id # c.id
    <3>1. ASSUME NEW o \in Holders, o # NoAgent, Held(o).id = c.id
          PROVE  FALSE
      <4>1. Held(o) # None
        BY <1>4, <3>1, NoneFacts DEF Made
      <4>2. Made(Held(o)) /\ obj[Held(o).sock] = c.id
        BY <1>1, <3>1, <4>1 DEF Owned
      <4>3. Held(o).sock = c.sock
        BY <1>1, <1>4, <1>8, <4>2, NoneFacts DEF Handles, Made
      <4> QED BY <1>1, <1>2, <1>5, <1>7, <3>1, <4>1, <4>3 DEF Owned
    <3> QED BY <3>1
  <2>6. ASSUME NEW q \in installed', pc[q] \in Live
        PROVE  /\ obj[reg[q].sock] = reg[q].id
               /\ \A o \in Holders : Held(o)'.id = reg[q].id => Held(o)'.reader = q
    <3>1. CASE q = r
      BY <1>4, <1>7, <1>8, <2>5, <3>1
    <3>2. CASE q \in installed /\ q # r
      <4>1. /\ obj[reg[q].sock] = reg[q].id /\ q \in Readers
            /\ \A o \in Holders : Held(o).id = reg[q].id => Held(o).reader = q
        BY <1>1, <2>6, <3>2 DEF Reading, TypeOK
      <4>2. reg[q].id # c.id
        BY <1>2, <1>5, <1>7, <4>1, NoneFacts
      <4> QED BY <1>7, <4>1, <4>2
    <3> QED BY <1>3, <3>1, <3>2
  <2>7. UNCHANGED <<obj, reg, count>>
    BY <1>3 DEF socketVars
  <2>8. installed' \subseteq Readers
    BY <1>9 DEF TypeOK
  <2>9. \A q \in Readers : q \in Agents
    BY DEF Agents
  <2>10. \A u \in Clients : u \in Agents
    BY DEF Agents
  <2> QED BY <1>1, <2>1, <2>2, <2>3, <2>4, <2>6, <2>7, <2>8, <2>9, <2>10 DEF Reading, Holders
<1> QED BY <1>9, <1>10, <1>12, <1>13, <1>14, <1>15 DEF IInv

-----------------------------------------------------------------------------
(***************************************************************************)
(* The theorems                                                            *)
(***************************************************************************)
LEMMA InitIInv == Init => IInv
<1> SUFFICES ASSUME Init PROVE IInv
  OBVIOUS
<1>1. \A t \in Clients : pc[t] = "idle"
  BY DEF Init, Agents
<1>2. \A r \in Readers : pc[r] = "unborn"
  BY NoneFacts DEF Init, Agents
<1>3. \A a \in Agents : pc[a] \in {"idle", "unborn"}
  BY <1>1, <1>2 DEF Agents
<1>4. TypeOK
  <2>1. count \in Counts
    BY BoundsAssumption DEF Init, Counts
  <2>2. pc \in [Agents -> ClientPlaces \cup ReaderPlaces]
    BY <1>3 DEF Init, ClientPlaces, ReaderPlaces
  <2> QED BY <1>1, <1>2, <2>1, <2>2, NoneFacts DEF Init, TypeOK, ClientPlaces, ReaderPlaces
<1>5. \A o \in Holders : Held(o) = None
  BY <1>3 DEF Init, Held, Holders, Closing
<1>6. Handles /\ Owned
  BY <1>5, NoneFacts DEF Init, Handles, Owned
<1>7. Down /\ Senders
  BY <1>1, <1>3 DEF Down, Senders, Closing
<1>8. Reading
  <2>1. \A r \in Readers : r > count.reader
    BY BoundsAssumption DEF Init, Readers
  <2> QED BY <1>1, <1>2, <2>1 DEF Init, Reading, Live
<1> QED BY <1>4, <1>6, <1>7, <1>8 DEF IInv

LEMMA NextIInv == IInv /\ [Next]_vars => IInv'
<1> SUFFICES ASSUME IInv, [Next]_vars PROVE IInv'
  OBVIOUS
<1>1. CASE UNCHANGED vars
  BY <1>1 DEF vars, stateVars, socketVars, agentVars, IInv, TypeOK, Handles, Owned, Down,
              Senders, Reading, Held, Made
<1>2. ASSUME NEW t \in Clients, Call(t)
      PROVE  IInv'
  BY <1>2, ConnectCheckIInv, DisconnectIInv, SubscribeCheckIInv, SetListenerIInv,
     SendLookupIInv DEF Call
<1>3. ASSUME NEW t \in Clients, Continue(t)
      PROVE  IInv'
  <2>1. t \in Agents
    BY DEF Agents
  <2> QED BY <1>3, <2>1, ConnectCheckIInv, ConnectSucceedsIInv, ConnectInstallIInv, JoinIInv,
             CloseSocketIInv, SubscribeInstallIInv, SubscribeLostIInv, SubscribeJoinIInv,
             SendLockIInv, SendEndsIInv DEF Continue
<1>4. ASSUME NEW r \in Readers, Read(r)
      PROVE  IInv'
  <2>1. r \in Agents
    BY DEF Agents
  <2> QED BY <1>4, <2>1, ReadIInv, ReadExitIInv, JoinIInv, CloseSocketIInv DEF Read
<1> QED BY <1>1, <1>2, <1>3, <1>4, PeerClosesIInv DEF Next

\* The state of the Windows connection always satisfies the inductive invariant.
THEOREM Invariance == Spec => []IInv
BY InitIInv, NextIInv, PTL DEF Spec

\* send() only ever writes to the open socket of the connection it looked up: the stop
\* flag is set before a socket is closed, and the close lock is held while sending.
THEOREM SendsOnOwnSocket == Spec => []SendOnOwnSocket
<1>1. IInv => SendOnOwnSocket
  BY DEF IInv, Senders, SendOnOwnSocket
<1> QED BY <1>1, Invariance, PTL

\* A read thread whose handle was stored in connection_handles never calls recv on a
\* handle that was closed or given to another connection.
THEOREM InstalledReadersAreSafe == Spec => []InstalledReaderSafe
<1>1. IInv => InstalledReaderSafe
  BY DEF IInv, Reading, InstalledReaderSafe, Live
<1> QED BY <1>1, Invariance, PTL

\* Every open socket has exactly one thread, or the connection state, that will close
\* it, and what is closed is its own: no socket leaks or is closed twice.
THEOREM SocketsAreOwned == Spec => []SocketsOwned
<1>1. IInv => SocketsOwned
  <2> SUFFICES ASSUME IInv PROVE SocketsOwned
    OBVIOUS
  <2>1. TypeOK /\ Owned /\ Down
    BY DEF IInv
  <2>2. ASSUME NEW s \in Sockets
        PROVE  Owners(s) = {o \in Holders : Held(o).sock = s}
    BY NoneFacts DEF Owners, Held, Holders, Closing
  <2>3. ASSUME NEW s \in Sockets
        PROVE  Cardinality(Owners(s)) = IF obj[s] = 0 THEN 0 ELSE 1
    <3>1. CASE obj[s] = 0
      <4>1. ASSUME NEW o \in Holders, Held(o).sock = s
            PROVE  FALSE
        <5>1. Held(o) # None
          BY <4>1, NoneFacts
        <5> QED BY <2>1, <3>1, <4>1, <5>1, NoneFacts DEF Owned, Made
      <4>2. Owners(s) = {}
        BY <2>2, <4>1
      <4> QED BY <3>1, <4>2, FS_EmptySet
    <3>2. CASE obj[s] # 0
      <4>1. PICK o \in Holders : Held(o).sock = s
        BY <2>1, <3>2 DEF Owned
      <4>2. Held(o) # None
        BY <4>1, NoneFacts
      <4>3. Owners(s) = {o}
        BY <2>1, <2>2, <4>1, <4>2 DEF Owned
      <4> QED BY <3>2, <4>3, FS_Singleton
    <3> QED BY <3>1, <3>2
  <2>4. cur # None => obj[cur.sock] = cur.id
    BY <2>1 DEF Owned, Holders, Held
  <2>5. \A a \in Agents : pc[a] \in {"join", "close"} => obj[job[a].sock] = job[a].id
    BY <2>1, NoneFacts DEF Owned, Down, Holders, Held, Closing
  <2> QED BY <2>3, <2>4, <2>5 DEF SocketsOwned
<1> QED BY <1>1, Invariance, PTL

-----------------------------------------------------------------------------
(***************************************************************************)
(* Nobody waits in vain: an invariant beside the inductive one             *)
(***************************************************************************)
\* What an owner knows of a connection agrees with its read thread: the socket, and
\* that the thread was started and reads this connection.
Sound(c) ==
    /\ \A r \in Readers : c.id # 0 /\ c.id = reg[r].id => c.sock = reg[r].sock
    /\ c.reader # 0 => /\ c.reader \in Readers /\ pc[c.reader] # "unborn"
                       /\ reg[c.reader].id = c.id

Known ==
    /\ \A r \in Readers : /\ reg[r].id <= count.conn
                          /\ pc[r] # "unborn" => reg[r].id # 0
    /\ \A o \in Holders : Sound(Held(o))
    /\ \A t \in Clients, r \in Readers : pc[t] = "install" => reg[r].id # reg[t].id

\* A thread that reads no more left no connection behind, and closes none but its own.
Left ==
    \A r \in Readers :
        /\ pc[r] \notin Live \cup {"unborn"} => cur.id # reg[r].id
        /\ pc[r] \in Closing => job[r].id = reg[r].id

\* What is being closed was shut down, and so was the connection of a subscription that
\* lost, as long as its handle denotes it.
Ended ==
    /\ \A a \in Agents : pc[a] \in Closing => job[a].id \in shut
    /\ \A t \in Clients : pc[t] = "subscribeJoin" =>
          LET r == reg[t].reader
          IN  /\ r \in Readers /\ pc[r] # "unborn"
              /\ obj[reg[r].sock] = reg[r].id => reg[r].id \in shut

\* A close lock is held only by a sender of its connection.
Locks == \A i \in ConnId : closeLock[i] # NoAgent =>
            pc[closeLock[i]] = "sending" /\ reg[closeLock[i]].id = i

Waits == Known /\ Left /\ Ended /\ Locks

LEMMA SoundNone == Sound(None) /\ Sound(None)'
BY DEF Sound, None

\* Read threads after a step that starts none.
SameReaders == \A r \in Readers : reg'[r] = reg[r] /\ (pc'[r] = "unborn" <=> pc[r] = "unborn")

\* Steps after which every owner holds what one held before, or nothing, and that
\* neither start a read thread nor make a connection.
LEMMA KnownKept ==
    ASSUME Known, count'.conn = count.conn, SameReaders,
           \A o \in Holders : Held(o)' = None \/ \E p \in Holders : Held(o)' = Held(p),
           \A t \in Clients : pc'[t] = "install" => pc[t] = "install" /\ reg'[t] = reg[t]
    PROVE  Known'
<1>1. \A r \in Readers : /\ reg'[r].id <= count'.conn
                         /\ pc'[r] # "unborn" => reg'[r].id # 0
  BY DEF Known, SameReaders
<1>2. ASSUME NEW o \in Holders
      PROVE  Sound(Held(o))'
  <2>1. CASE Held(o)' = None
    BY <2>1, SoundNone DEF Sound
  <2>2. ASSUME NEW p \in Holders, Held(o)' = Held(p)
        PROVE  Sound(Held(o))'
    <3>1. Sound(Held(p))
      BY DEF Known
    <3> QED BY <2>2, <3>1 DEF Sound, SameReaders
  <2> QED BY <2>1, <2>2
<1>3. \A t \in Clients, r \in Readers : pc'[t] = "install" => reg'[r].id # reg'[t].id
  BY DEF Known, SameReaders
<1> QED BY <1>1, <1>2, <1>3 DEF Known, Holders

\* A close lock changes hands only in a send.
LEMMA LocksKept ==
    ASSUME TypeOK, Locks, NEW a \in Agents, pc[a] # "sending", UNCHANGED closeLock,
           \A b \in Agents \ {a} : pc[b] = "sending" => pc'[b] = pc[b] /\ reg'[b] = reg[b]
    PROVE  Locks'
<1>1. \A i \in ConnId : closeLock[i] # NoAgent => closeLock[i] \in Agents \ {a}
  BY DEF TypeOK, Locks, Agents
<1> QED BY <1>1 DEF Locks

\* A handle that a thread read from keeps denoting what it denoted, or denotes no longer
\* that connection; what was shut stays shut.
EndedOn == /\ shut \subseteq shut'
           /\ \A r \in Readers : pc[r] # "unborn" /\ obj'[reg[r].sock] = reg[r].id
                 => obj[reg[r].sock] = reg[r].id

LEMMA EndedKept ==
    ASSUME Ended, SameReaders, EndedOn,
           \A a \in Agents : pc'[a] \in Closing =>
              job'[a].id \in shut' \/ (pc[a] \in Closing /\ job'[a] = job[a]),
           \A t \in Clients : pc'[t] = "subscribeJoin" =>
              pc[t] = "subscribeJoin" /\ reg'[t] = reg[t]
    PROVE  Ended'
<1>1. \A a \in Agents : pc'[a] \in Closing => job'[a].id \in shut'
  BY DEF Ended, EndedOn
<1>2. ASSUME NEW t \in Clients, pc'[t] = "subscribeJoin", NEW r, r = reg'[t].reader
      PROVE  /\ r \in Readers /\ pc'[r] # "unborn"
             /\ obj'[reg'[r].sock] = reg'[r].id => reg'[r].id \in shut'
  <2>1. r \in Readers /\ pc[r] # "unborn" /\ (obj[reg[r].sock] = reg[r].id => reg[r].id \in shut)
    BY <1>2 DEF Ended
  <2> QED BY <2>1 DEF SameReaders, EndedOn
<1> QED BY <1>1, <1>2 DEF Ended

-----------------------------------------------------------------------------
(***************************************************************************)
(* Steps that only move an agent on                                        *)
(***************************************************************************)
LEMMA OnlyMovesWaits ==
    ASSUME IInv, Waits, NEW a \in Agents, NEW l, Moves(a, l),
           UNCHANGED <<cur, obj, job>>, shut \subseteq shut', count'.conn = count.conn,
           \A b \in Agents \ {a} : reg'[b] = reg[b], a \in Readers => reg'[a] = reg[a],
           a \in Readers => l \in Live \cup Closing \/ cur.id # reg[a].id,
           a \in Readers => (pc[a] = "unborn" <=> l = "unborn"),
           l # "subscribeJoin", Locks'
    PROVE  Waits'
<1>1. TypeOK /\ Known /\ Left /\ Ended
  BY DEF IInv, Waits
<1>2. pc'[a] = l /\ \A b \in Agents \ {a} : pc'[b] = pc[b]
  BY <1>1 DEF Moves, TypeOK
<1>3. SameReaders
  BY <1>2 DEF SameReaders, Agents
<1>4. Known'
  <2>1. \A o \in Holders : Held(o)' = Held(o)
    BY <1>1, MovesHeld
  <2>2. \A t \in Clients : pc'[t] = "install" => pc[t] = "install" /\ reg'[t] = reg[t]
    BY <1>2 DEF Moves, Agents
  <2> QED BY <1>1, <1>3, <2>1, <2>2, KnownKept
<1>5. Left'
  <2>1. \A r \in Readers : r \in Agents
    BY DEF Agents
  <2>2. ASSUME NEW r \in Readers, pc'[r] \notin Live \cup {"unborn"}
        PROVE  cur'.id # reg'[r].id
    BY <1>1, <1>2, <1>3, <2>1, <2>2 DEF Left, SameReaders, Moves, Live, Closing
  <2>3. ASSUME NEW r \in Readers, pc'[r] \in Closing
        PROVE  job'[r].id = reg'[r].id
    BY <1>1, <1>2, <1>3, <2>1, <2>3 DEF Left, SameReaders, Moves
  <2> QED BY <2>2, <2>3 DEF Left
<1>6. Ended'
  <2>1. \A b \in Agents : pc'[b] \in Closing => pc[b] \in Closing
    BY <1>2 DEF Moves
  <2>2. \A t \in Clients : pc'[t] = "subscribeJoin" =>
          pc[t] = "subscribeJoin" /\ reg'[t] = reg[t]
    BY <1>2 DEF Agents
  <2>3. EndedOn
    BY DEF EndedOn
  <2> QED BY <1>1, <1>3, <2>1, <2>2, <2>3, EndedKept
<1> QED BY <1>4, <1>5, <1>6 DEF Waits

LEMMA ConnectCheckWaits ==
    ASSUME NEW t \in Clients, IInv, Waits, ConnectCheck(t) \/ ConnectFails(t)
    PROVE  Waits'
<1>1. PICK l \in {"idle", "connecting"} :
        pc' = [pc EXCEPT ![t] = l] /\ pc[t] \in {"idle", "connecting"}
  BY DEF ConnectCheck, ConnectFails, Goto
<1>2. Moves(t, l) /\ t \in Agents /\ t \notin Readers
  BY <1>1, NoneFacts DEF Moves, Closing, Live
<1>3. UNCHANGED <<stateVars, socketVars, reg, job, held, installed, count>>
  BY DEF ConnectCheck, ConnectFails
<1>4. Locks'
  <2>1. TypeOK /\ Locks /\ \A b \in Agents \ {t} : pc'[b] = pc[b]
    BY <1>1, <1>2 DEF IInv, Waits, TypeOK
  <2> QED BY <1>1, <1>2, <1>3, <2>1, LocksKept DEF socketVars
<1> QED BY <1>1, <1>2, <1>3, <1>4, OnlyMovesWaits DEF stateVars, socketVars

LEMMA JoinWaits ==
    ASSUME NEW a \in Agents, IInv, Waits, Join(a)
    PROVE  Waits'
<1>1. Moves(a, "close") /\ pc[a] = "join" /\ "close" \in Closing
  BY DEF Join, Goto, Moves, Closing, Live
<1>2. UNCHANGED <<stateVars, socketVars, reg, job, held, installed, count>>
  BY DEF Join
<1>3. Locks'
  <2>1. TypeOK /\ Locks /\ \A b \in Agents \ {a} : pc'[b] = pc[b]
    BY <1>1 DEF IInv, Waits, TypeOK, Moves
  <2> QED BY <1>1, <1>2, <2>1, LocksKept DEF socketVars
<1> QED BY <1>1, <1>2, <1>3, OnlyMovesWaits DEF stateVars, socketVars

LEMMA SubscribeJoinWaits ==
    ASSUME NEW t \in Clients, IInv, Waits, SubscribeJoin(t)
    PROVE  Waits'
<1>1. Moves(t, "idle") /\ t \in Agents /\ t \notin Readers /\ pc[t] = "subscribeJoin"
  BY NoneFacts DEF SubscribeJoin, Goto, Moves, Closing, Live
<1>2. UNCHANGED <<stateVars, socketVars, reg, job, held, installed, count>>
  BY DEF SubscribeJoin
<1>3. Locks'
  <2>1. TypeOK /\ Locks /\ \A b \in Agents \ {t} : pc'[b] = pc[b]
    BY <1>1 DEF IInv, Waits, TypeOK, Moves
  <2> QED BY <1>1, <1>2, <2>1, LocksKept DEF socketVars
<1> QED BY <1>1, <1>2, <1>3, OnlyMovesWaits DEF stateVars, socketVars

LEMMA SetListenerWaits ==
    ASSUME NEW t \in Clients, IInv, Waits, SetListener(t)
    PROVE  Waits'
<1>1. TypeOK
  BY DEF IInv
<1>2. Moves(t, "idle") /\ t \in Agents /\ t \notin Readers /\ pc[t] = "idle"
  <2>1. pc' = [pc EXCEPT ![t] = "idle"] /\ pc[t] = "idle"
    BY <1>1 DEF SetListener, agentVars, TypeOK, Agents
  <2> QED BY <2>1, NoneFacts DEF Moves, Closing, Live
<1>3. count'.conn = count.conn
  BY <1>1, SpendOther DEF SetListener, TypeOK
<1>4. UNCHANGED <<cur, socketVars, agentVars>>
  BY DEF SetListener
<1>5. Locks'
  BY <1>1, <1>2, <1>4, LocksKept DEF socketVars, agentVars, Waits
<1> QED BY <1>2, <1>3, <1>4, <1>5, OnlyMovesWaits DEF socketVars, agentVars

LEMMA SendLookupWaits ==
    ASSUME NEW t \in Clients, IInv, Waits, SendLookup(t)
    PROVE  Waits'
<1>1. TypeOK
  BY DEF IInv
<1>2. Moves(t, "sendLock") /\ t \in Agents /\ t \notin Readers /\ pc[t] = "idle"
  BY NoneFacts DEF SendLookup, Goto, Moves, Closing, Live
<1>3. /\ UNCHANGED <<stateVars, socketVars, job, held, installed>>
      /\ \A b \in Agents \ {t} : reg'[b] = reg[b]
  BY <1>1, <1>2 DEF SendLookup, TypeOK
<1>4. count'.conn = count.conn
  BY <1>1, SpendOther DEF SendLookup, TypeOK
<1>5. Locks'
  <2>1. Locks /\ \A b \in Agents \ {t} : pc'[b] = pc[b]
    BY <1>1, <1>2 DEF Waits, TypeOK, Moves
  <2> QED BY <1>1, <1>2, <1>3, <2>1, LocksKept DEF socketVars
<1> QED BY <1>2, <1>3, <1>4, <1>5, OnlyMovesWaits DEF stateVars, socketVars

LEMMA SendLockWaits ==
    ASSUME NEW t \in Clients, IInv, Waits, SendLock(t)
    PROVE  Waits'
<1>1. TypeOK /\ Locks
  BY DEF IInv, Waits
<1>2. PICK l \in {"idle", "sending"} :
        /\ pc' = [pc EXCEPT ![t] = l]
        /\ l = "idle" => closeLock' = closeLock
        /\ l = "sending" => closeLock' = [closeLock EXCEPT ![reg[t].id] = t]
  BY DEF SendLock, Goto
<1>3. Moves(t, l) /\ t \in Agents /\ t \notin Readers /\ pc[t] = "sendLock"
  BY <1>2, NoneFacts DEF SendLock, Moves, Closing, Live
<1>4. UNCHANGED <<stateVars, stopped, obj, shut, reg, job, held, installed, count>>
  BY DEF SendLock
<1>5. pc'[t] = l /\ \A b \in Agents \ {t} : pc'[b] = pc[b]
  BY <1>1, <1>2, <1>3 DEF TypeOK
<1>6. Locks'
  <2>1. CASE l = "idle"
    BY <1>1, <1>2, <1>3, <1>4, <1>5, <2>1, LocksKept
  <2>2. CASE l = "sending"
    <3>1. closeLock \in [ConnId -> Clients \cup {NoAgent}]
      BY <1>1 DEF TypeOK
    <3>2. ASSUME NEW i \in ConnId, closeLock'[i] # NoAgent
          PROVE  pc'[closeLock'[i]] = "sending" /\ reg[closeLock'[i]].id = i
      <4>1. CASE i = reg[t].id
        BY <1>2, <1>5, <2>2, <3>1, <4>1
      <4>2. CASE i # reg[t].id
        <5>1. closeLock'[i] = closeLock[i]
          BY <1>2, <2>2, <3>1, <4>2
        <5>2. pc[closeLock[i]] = "sending" /\ reg[closeLock[i]].id = i /\ closeLock[i] \in Agents
          BY <1>1, <3>1, <3>2, <5>1 DEF Locks, Agents
        <5> QED BY <1>3, <1>5, <5>1, <5>2
      <4> QED BY <4>1, <4>2
    <3> QED BY <1>4, <3>2 DEF Locks
  <2> QED BY <2>1, <2>2
<1> QED BY <1>2, <1>3, <1>4, <1>6, OnlyMovesWaits DEF stateVars

LEMMA SendEndsWaits ==
    ASSUME NEW t \in Clients, NEW ok \in BOOLEAN, IInv, Waits, SendEnds(t, ok)
    PROVE  Waits'
<1>1. TypeOK /\ Locks
  BY DEF IInv, Waits
<1>2. Moves(t, "idle") /\ t \in Agents /\ t \notin Readers
  BY NoneFacts DEF SendEnds, Goto, Moves, Closing, Live
<1>3. /\ UNCHANGED <<stateVars, stopped, obj, reg, job, held, installed, count>>
      /\ closeLock' = [closeLock EXCEPT ![reg[t].id] = NoAgent] /\ shut \subseteq shut'
  BY DEF SendEnds
<1>4. \A b \in Agents \ {t} : pc'[b] = pc[b]
  BY <1>1, <1>2 DEF TypeOK, Moves
<1>5. Locks'
  <2>1. closeLock \in [ConnId -> Clients \cup {NoAgent}]
    BY <1>1 DEF TypeOK
  <2>2. ASSUME NEW i \in ConnId, closeLock'[i] # NoAgent
        PROVE  pc'[closeLock'[i]] = "sending" /\ reg[closeLock'[i]].id = i
    <3>1. i # reg[t].id /\ closeLock'[i] = closeLock[i]
      BY <1>3, <2>1, <2>2
    <3>2. pc[closeLock[i]] = "sending" /\ reg[closeLock[i]].id = i /\ closeLock[i] \in Agents
      BY <1>1, <2>1, <2>2, <3>1 DEF Locks, Agents
    <3> QED BY <1>4, <3>1, <3>2
  <2> QED BY <1>3, <2>2 DEF Locks
<1> QED BY <1>2, <1>3, <1>5, OnlyMovesWaits DEF stateVars

LEMMA ReadMovesWaits ==
    ASSUME NEW r \in Readers, NEW l \in Live \cup {"done"}, IInv, Waits,
           pc[r] \in Live, pc' = [pc EXCEPT ![r] = l], l = "done" => cur.id # reg[r].id,
           UNCHANGED <<cur, socketVars, reg, job, count>>
    PROVE  Waits'
<1>1. TypeOK /\ Locks
  BY DEF IInv, Waits
<1>2. Moves(r, l) /\ r \in Agents /\ r \notin Clients /\ pc[r] # "sending"
  BY NoneFacts DEF Moves, Closing, Live
<1>3. Locks'
  <2>1. \A b \in Agents \ {r} : pc'[b] = pc[b]
    BY <1>1, <1>2 DEF TypeOK, Moves
  <2> QED BY <1>1, <1>2, <2>1, LocksKept DEF socketVars
<1>4. /\ l \in Live \cup Closing \/ cur.id # reg[r].id
      /\ pc[r] # "unborn" /\ l # "unborn" /\ l # "subscribeJoin"
  BY DEF Live
<1> QED BY <1>2, <1>3, <1>4, OnlyMovesWaits DEF socketVars

LEMMA ReadWaits ==
    ASSUME NEW r \in Readers, IInv, Waits,
           \/ ReadCheck(r) \/ ReadData(r) \/ ReadEnd(r) \/ Fetch(r) \/ CallListener(r)
    PROVE  Waits'
<1>1. pc[r] \in Live
  BY DEF ReadCheck, ReadData, ReadEnd, Fetch, CallListener, Live
<1>2. PICK l \in Live : pc' = [pc EXCEPT ![r] = l]
  BY DEF ReadCheck, ReadData, ReadEnd, Fetch, CallListener, Goto, After, Live
<1>3. UNCHANGED <<stateVars, socketVars, reg, job, installed, count>>
  BY DEF ReadCheck, ReadData, ReadEnd, Fetch, CallListener
<1>4. l # "done"
  BY DEF Live
<1> QED BY <1>1, <1>2, <1>3, <1>4, ReadMovesWaits DEF stateVars

\* A subscription that lost shuts the connection it looked at.
LEMMA SubscribeLostWaits ==
    ASSUME NEW t \in Clients, IInv, Waits, SubscribeLost(t)
    PROVE  Waits'
<1>1. TypeOK /\ Reading /\ Known /\ Left /\ Ended /\ Locks
  BY DEF IInv, Waits
<1>2. Moves(t, "subscribeJoin") /\ t \in Agents /\ t \notin Readers /\ pc[t] = "subscribe"
  BY NoneFacts DEF SubscribeLost, Goto, Moves, Closing, Live
<1>3. /\ UNCHANGED <<stateVars, closeLock, obj, reg, job, held, installed, count>>
      /\ shut' = shut \cup Behind(reg[t].sock)
  BY DEF SubscribeLost
<1>4. pc'[t] = "subscribeJoin" /\ \A b \in Agents \ {t} : pc'[b] = pc[b]
  BY <1>1, <1>2 DEF Moves, TypeOK
<1>5. SameReaders
  BY <1>2, <1>3, <1>4 DEF SameReaders, Agents
<1>6. Known'
  <2>1. \A o \in Holders : Held(o)' = Held(o)
    BY <1>1, <1>2, <1>3, MovesHeld DEF stateVars
  <2>2. \A u \in Clients : pc'[u] = "install" => pc[u] = "install" /\ reg'[u] = reg[u]
    BY <1>3, <1>4 DEF Agents
  <2> QED BY <1>1, <1>3, <1>5, <2>1, <2>2, KnownKept
<1>7. Left'
  <2>1. \A r \in Readers : pc'[r] = pc[r]
    BY <1>2, <1>4 DEF Agents
  <2> QED BY <1>1, <1>3, <2>1 DEF Left, stateVars
<1>8. Ended'
  <2>1. ASSUME NEW b \in Agents, pc'[b] \in Closing
        PROVE  job'[b].id \in shut'
    <3>1. pc[b] \in Closing
      BY <1>4, <2>1 DEF Closing
    <3> QED BY <1>1, <1>3, <3>1 DEF Ended
  <2> DEFINE r == reg[t].reader
  <2>2. r \in Readers /\ pc[r] # "unborn" /\ reg[r].id = reg[t].id /\ reg[r].sock = reg[t].sock
    <3>1. r \in Readers /\ r <= count.reader /\ reg[r].id = reg[t].id /\ reg[r].sock = reg[t].sock
      BY <1>1, <1>2 DEF Reading
    <3>2. r \in Nat /\ count.reader \in Nat
      BY <1>1, <3>1, ReaderNumbers DEF TypeOK, Counts
    <3> QED BY <1>1, <3>1, <3>2 DEF Reading
  <2>3. reg[r].id # 0
    BY <1>1, <2>2 DEF Known
  <2>4. obj[reg[r].sock] = reg[r].id => reg[r].id \in shut'
    BY <1>3, <2>2, <2>3 DEF Behind
  <2> HIDE DEF r
  <2>5. ASSUME NEW u \in Clients, pc'[u] = "subscribeJoin", u # t,
               NEW q, q = reg'[u].reader
        PROVE  /\ q \in Readers /\ pc'[q] # "unborn"
               /\ obj'[reg'[q].sock] = reg'[q].id => reg'[q].id \in shut'
    <3>1. pc[u] = "subscribeJoin"
      BY <1>4, <2>5 DEF Agents
    <3>2. q \in Readers /\ pc[q] # "unborn" /\ (obj[reg[q].sock] = reg[q].id => reg[q].id \in shut)
      BY <1>1, <1>3, <2>5, <3>1 DEF Ended
    <3> QED BY <1>3, <1>5, <3>2 DEF SameReaders
  <2>6. \A u \in Clients : pc'[u] = "subscribeJoin" =>
          LET q == reg'[u].reader
          IN  /\ q \in Readers /\ pc'[q] # "unborn"
              /\ obj'[reg'[q].sock] = reg'[q].id => reg'[q].id \in shut'
    BY <1>3, <1>5, <2>2, <2>4, <2>5 DEF r, SameReaders
  <2> QED BY <2>1, <2>6 DEF Ended
<1>9. Locks'
  BY <1>1, <1>2, <1>3, <1>4, LocksKept
<1> QED BY <1>6, <1>7, <1>8, <1>9 DEF Waits

-----------------------------------------------------------------------------
(***************************************************************************)
(* Steps that make, exchange or close a connection                         *)
(***************************************************************************)
\* The current connection's kernel socket is what a disconnect shuts down.
LEMMA TakeWaits ==
    ASSUME NEW a \in Agents, NEW h, IInv, Waits, Take(a, h),
           \/ a \in Clients /\ pc[a] = "install" /\ h = reg[a]
           \/ a \in Clients /\ pc[a] = "idle" /\ h = None
           \/ a \in Readers /\ pc[a] = "exit" /\ h = None /\ cur.id = reg[a].id,
           UNCHANGED <<closeLock, obj, reg>>, count'.conn = count.conn
    PROVE  Waits'
<1>1. TypeOK /\ Owned /\ Known /\ Left /\ Ended /\ Locks
  BY DEF IInv, Waits
<1>2. a # NoAgent /\ a \in Holders /\ NoAgent \in Holders
  BY NoneFacts DEF Holders
<1> DEFINE l == IF cur = None THEN Rest(a) ELSE "join"
<1>3. /\ cur' = h /\ job' = [job EXCEPT ![a] = cur] /\ pc' = [pc EXCEPT ![a] = l]
      /\ shut' = IF cur = None THEN shut ELSE shut \cup Behind(cur.sock)
  BY DEF Take, Goto
<1>4. /\ pc'[a] = l /\ job'[a] = cur
      /\ \A b \in Agents \ {a} : pc'[b] = pc[b] /\ job'[b] = job[b]
  BY <1>1, <1>3 DEF TypeOK
<1>5. /\ l \in {"idle", "done", "join"} /\ (l = "join" <=> cur # None)
      /\ pc[a] \in {"install", "idle", "exit"}
  BY DEF Rest
<1> HIDE DEF l
<1>6. SameReaders
  BY <1>4, <1>5 DEF SameReaders, Agents
<1>7. \A o \in Holders : \E p \in Holders : Held(o)' = Held(p)
  <2>1. Held(a) = h /\ Held(NoAgent) = cur /\ Held(NoAgent)' = cur'
    BY <1>2, <1>5 DEF Held, Closing
  <2>2. Held(a)' = cur
    BY <1>2, <1>4, <1>5 DEF Held, Closing
  <2>3. \A o \in Agents \ {a} : Held(o)' = Held(o)
    BY <1>4, NoneFacts DEF Held
  <2> QED BY <1>2, <1>3, <2>1, <2>2, <2>3 DEF Holders
<1>8. \A t \in Clients : pc'[t] = "install" => pc[t] = "install" /\ reg'[t] = reg[t]
  BY <1>4, <1>5 DEF Agents
<1>9. Known'
  BY <1>1, <1>6, <1>7, <1>8, KnownKept
<1>10. Left'
  <2>1. ASSUME NEW r \in Readers, pc'[r] \notin Live \cup {"unborn"}
        PROVE  cur'.id # reg'[r].id
    <3>1. reg'[r].id # 0 /\ reg'[r] = reg[r]
      BY <1>6, <1>9, <2>1 DEF Known, SameReaders
    <3> QED BY <1>1, <1>3, <3>1, NoneFacts DEF Known
  <2>2. ASSUME NEW r \in Readers, pc'[r] \in Closing
        PROVE  job'[r].id = reg'[r].id
    <3>1. CASE r = a
      BY <1>4, <3>1, NoneFacts
    <3>2. CASE r # a
      <4>1. r \in Agents
        BY DEF Agents
      <4> QED BY <1>1, <1>4, <2>2, <3>2, <4>1 DEF Left
    <3> QED BY <3>1, <3>2
  <2> QED BY <2>1, <2>2 DEF Left
<1>11. Ended'
  <2>1. cur # None => cur.id \in shut'
    BY <1>1, <1>2, <1>3, NoneFacts DEF Owned, Held, Behind, Made
  <2>2. \A b \in Agents : pc'[b] \in Closing =>
          job'[b].id \in shut' \/ (pc[b] \in Closing /\ job'[b] = job[b])
    BY <1>4, <1>5, <2>1 DEF Closing
  <2>3. \A t \in Clients : pc'[t] = "subscribeJoin" =>
          pc[t] = "subscribeJoin" /\ reg'[t] = reg[t]
    BY <1>4, <1>5 DEF Agents
  <2>4. EndedOn
    BY <1>3 DEF EndedOn
  <2> QED BY <1>1, <1>6, <2>2, <2>3, <2>4, EndedKept
<1>12. Locks'
  BY <1>1, <1>4, <1>5, LocksKept
<1> QED BY <1>9, <1>10, <1>11, <1>12 DEF Waits

LEMMA ReadExitWaits ==
    ASSUME NEW r \in Readers, IInv, Waits, ReadExit(r)
    PROVE  Waits'
<1>1. pc[r] = "exit" /\ UNCHANGED <<listener, closeLock, obj, reg, held, installed, count>>
  BY DEF ReadExit
<1>2. r \in Agents /\ NoAgent \in Holders /\ Held(NoAgent) = cur
  BY DEF Agents, Holders, Held
<1>3. CASE cur.id = reg[r].id /\ Take(r, None)
  BY <1>1, <1>2, <1>3, TakeWaits
<1>4. CASE /\ ~(cur.id = reg[r].id /\ cur.sock = reg[r].sock)
           /\ Goto(r, "done") /\ UNCHANGED <<cur, job, stopped, shut>>
  <2>1. cur.id # reg[r].id
    <3>1. Sound(cur) /\ reg[r].id # 0
      BY <1>1, <1>2 DEF Waits, Known
    <3> QED BY <1>4, <3>1 DEF Sound
  <2>2. pc[r] \in Live /\ "done" \in Live \cup {"done"} /\ pc' = [pc EXCEPT ![r] = "done"]
    BY <1>1, <1>4 DEF Live, Goto
  <2> QED BY <1>1, <1>4, <2>1, <2>2, ReadMovesWaits DEF socketVars
<1> QED BY <1>3, <1>4 DEF ReadExit

LEMMA CallerTakesWaits ==
    ASSUME NEW t \in Clients, IInv, Waits, ConnectInstall(t) \/ Disconnect(t)
    PROVE  Waits'
<1>1. TypeOK /\ t \in Agents
  BY DEF IInv, Agents
<1>2. CASE ConnectInstall(t)
  BY <1>1, <1>2, TakeWaits DEF ConnectInstall
<1>3. CASE Disconnect(t)
  <2>1. count'.conn = count.conn
    BY <1>1, <1>3, SpendOther DEF Disconnect, TypeOK
  <2> QED BY <1>1, <1>3, <2>1, TakeWaits DEF Disconnect
<1> QED BY <1>2, <1>3

LEMMA CloseSocketWaits ==
    ASSUME NEW a \in Agents, IInv, Waits, CloseSocket(a)
    PROVE  Waits'
<1>1. TypeOK /\ Owned /\ Known /\ Left /\ Ended /\ Locks
  BY DEF IInv, Waits
<1>2. /\ pc[a] = "close" /\ obj' = [obj EXCEPT ![job[a].sock] = 0]
      /\ job' = [job EXCEPT ![a] = None] /\ pc' = [pc EXCEPT ![a] = Rest(a)]
      /\ UNCHANGED <<stateVars, stopped, closeLock, shut, reg, held, installed, count>>
  BY DEF CloseSocket, Goto
<1>3. /\ pc'[a] = Rest(a) /\ Rest(a) \in {"idle", "done"}
      /\ \A b \in Agents \ {a} : pc'[b] = pc[b] /\ job'[b] = job[b]
  BY <1>1, <1>2 DEF TypeOK, Rest
<1>4. SameReaders
  BY <1>2, <1>3 DEF SameReaders, Agents
<1>5. Known'
  <2>1. \A o \in Holders : Held(o)' = None \/ Held(o)' = Held(o)
    <3>1. Held(NoAgent)' = Held(NoAgent)
      BY <1>2 DEF Held, stateVars
    <3>2. Held(a)' = None
      BY <1>3, NoneFacts DEF Held, Closing
    <3>3. \A o \in Agents \ {a} : Held(o)' = Held(o)
      BY <1>2, <1>3, NoneFacts DEF Held
    <3> QED BY <3>1, <3>2, <3>3 DEF Holders
  <2>2. \A t \in Clients : pc'[t] = "install" => pc[t] = "install" /\ reg'[t] = reg[t]
    BY <1>2, <1>3 DEF Agents
  <2> QED BY <1>1, <1>2, <1>4, <2>1, <2>2, KnownKept
<1>6. Left'
  <2>1. \A r \in Readers : pc'[r] \notin Live \cup {"unborn"} => pc[r] \notin Live \cup {"unborn"}
    BY <1>2, <1>3 DEF Live, Agents
  <2>2. \A r \in Readers : pc'[r] \in Closing => pc[r] \in Closing /\ job'[r] = job[r]
    BY <1>3 DEF Closing, Agents
  <2> QED BY <1>1, <1>2, <2>1, <2>2 DEF Left, stateVars
<1>7. Ended'
  <2>1. \A b \in Agents : pc'[b] \in Closing => pc[b] \in Closing /\ job'[b] = job[b]
    BY <1>3 DEF Closing
  <2>2. \A t \in Clients : pc'[t] = "subscribeJoin" =>
          pc[t] = "subscribeJoin" /\ reg'[t] = reg[t]
    BY <1>2, <1>3 DEF Agents
  <2>3. EndedOn
    <3>1. ASSUME NEW r \in Readers, pc[r] # "unborn", obj'[reg[r].sock] = reg[r].id
          PROVE  obj[reg[r].sock] = reg[r].id
      <4>1. reg[r].id # 0
        BY <1>1, <3>1 DEF Known
      <4>2. job[a].sock \in Sockets
        <5>1. job[a] = Held(a) /\ a \in Holders /\ job[a] # None
          BY <1>2, NoneFacts DEF Held, Holders, Closing, IInv, Down
        <5> QED BY <1>1, <5>1 DEF Owned, Made
      <4> QED BY <1>1, <1>2, <3>1, <4>1, <4>2 DEF TypeOK
    <3> QED BY <1>2, <3>1 DEF EndedOn
  <2> QED BY <1>1, <1>4, <2>1, <2>2, <2>3, EndedKept
<1>8. Locks'
  BY <1>1, <1>2, <1>3, LocksKept
<1> QED BY <1>5, <1>6, <1>7, <1>8 DEF Waits

LEMMA ConnectSucceedsWaits ==
    ASSUME NEW t \in Clients, IInv, Waits, ConnectSucceeds(t)
    PROVE  Waits'
<1>1. TypeOK /\ Known /\ Left /\ Ended /\ Locks
  BY DEF IInv, Waits
<1>2. t \in Agents /\ t \notin Readers /\ t # NoAgent /\ t \in Holders
  BY NoneFacts DEF Holders
<1> DEFINE n == count.conn + 1
<1>3. PICK s \in Sockets :
        /\ obj[s] = 0 /\ obj' = [obj EXCEPT ![s] = n]
        /\ reg' = [reg EXCEPT ![t] = [id |-> n, sock |-> s, reader |-> 0]]
  BY DEF ConnectSucceeds
<1>4. count'.conn = n /\ n \in Nat /\ count.conn \in Nat /\ n = count.conn + 1
  BY <1>1, SpendConn DEF ConnectSucceeds, TypeOK, Counts
<1> HIDE DEF n
<1>5. /\ pc[t] = "connecting" /\ pc' = [pc EXCEPT ![t] = "install"]
      /\ UNCHANGED <<stateVars, stopped, closeLock, shut, job, held, installed>>
  BY DEF ConnectSucceeds, Goto
<1> DEFINE c == [id |-> n, sock |-> s, reader |-> 0]
<1>6. c.id = n /\ c.reader = 0
  OBVIOUS
<1>7. /\ pc'[t] = "install" /\ reg'[t] = c
      /\ \A b \in Agents \ {t} : pc'[b] = pc[b] /\ reg'[b] = reg[b]
  BY <1>1, <1>2, <1>3, <1>5 DEF TypeOK
<1> HIDE DEF c
<1>8. SameReaders
  BY <1>2, <1>7 DEF SameReaders, Agents
<1>9. \A r \in Readers : /\ reg[r].id \in Nat /\ reg[r].id # n /\ reg[r].id <= n
  <2>1. ASSUME NEW r \in Readers PROVE reg[r].id \in Nat /\ reg[r].id <= count.conn
    <3>1. reg[r].id \in ConnId \cup {0}
      BY <1>1 DEF TypeOK, Agents, Conns
    <3> QED BY <1>1, <3>1, ConnNumbers DEF Known
  <2> QED BY <1>4, <2>1
<1>10. Known'
  <2>1. \A r \in Readers : reg'[r].id <= count'.conn /\ (pc'[r] # "unborn" => reg'[r].id # 0)
    BY <1>1, <1>4, <1>8, <1>9 DEF Known, SameReaders
  <2>2. Held(t)' = c
    BY <1>2, <1>7 DEF Held
  <2>3. \A o \in Holders \ {t} : Held(o)' = Held(o)
    BY <1>5, <1>7 DEF Held, Holders, stateVars
  <2>4. Sound(Held(t))'
    BY <1>6, <1>8, <1>9, <2>2 DEF Sound, SameReaders
  <2>5. \A o \in Holders \ {t} : Sound(Held(o))'
    BY <1>1, <1>8, <2>3 DEF Known, Sound, SameReaders
  <2>6. \A u \in Clients, r \in Readers : pc'[u] = "install" => reg'[r].id # reg'[u].id
    BY <1>1, <1>6, <1>7, <1>8, <1>9 DEF Known, SameReaders, Agents
  <2> QED BY <2>1, <2>4, <2>5, <2>6 DEF Known, Holders
<1>11. Left'
  BY <1>1, <1>2, <1>5, <1>7 DEF Left, stateVars, Agents
<1>12. Ended'
  <2>1. EndedOn
    BY <1>1, <1>3, <1>5, <1>9 DEF EndedOn, TypeOK
  <2>2. \A a \in Agents : pc'[a] \in Closing => pc[a] \in Closing /\ job'[a] = job[a]
    BY <1>5, <1>7 DEF Closing
  <2>3. \A u \in Clients : pc'[u] = "subscribeJoin" =>
          pc[u] = "subscribeJoin" /\ reg'[u] = reg[u]
    BY <1>7 DEF Agents
  <2> QED BY <1>1, <1>8, <2>1, <2>2, <2>3, EndedKept
<1>13. Locks'
  BY <1>1, <1>2, <1>5, <1>7, LocksKept
<1> QED BY <1>10, <1>11, <1>12, <1>13 DEF Waits

\* A read thread is started for the current connection.
LEMMA SubscribeCheckWaits ==
    ASSUME NEW t \in Clients, IInv, Waits, SubscribeCheck(t)
    PROVE  Waits'
<1>1. TypeOK /\ Handles /\ Owned /\ Reading /\ Known /\ Left /\ Ended /\ Locks
  BY DEF IInv, Waits
<1>2. t \in Agents /\ t \notin Readers /\ NoAgent \in Holders
  BY NoneFacts DEF Holders
<1>3. PICK r \in Readers : r = count.reader + 1
  BY <1>1, SpendReader DEF SubscribeCheck, TypeOK, Counts
<1> DEFINE c == [cur EXCEPT !.reader = r]
<1>4. /\ pc[t] = "idle" /\ cur # None
      /\ reg' = [reg EXCEPT ![t] = c, ![r] = cur]
      /\ pc' = [pc EXCEPT ![t] = "subscribe", ![r] = "check"]
      /\ UNCHANGED <<stateVars, socketVars, job, held, installed>>
  BY <1>3 DEF SubscribeCheck
<1> HIDE DEF c
<1>5. count'.conn = count.conn /\ count.reader \in Nat
  BY <1>1, SpendReader DEF SubscribeCheck, TypeOK, Counts
<1>6. r \in Agents /\ r # t /\ r \notin Clients /\ pc[r] = "unborn"
  BY <1>1, <1>2, <1>3, <1>5, NoneFacts DEF Reading
<1>7. /\ pc'[t] = "subscribe" /\ pc'[r] = "check" /\ reg'[r] = cur
      /\ \A b \in Agents \ {t, r} : pc'[b] = pc[b] /\ reg'[b] = reg[b]
  BY <1>1, <1>2, <1>4, <1>6 DEF TypeOK
<1>8. Held(NoAgent) = cur /\ \A o \in Holders : Held(o)' = Held(o)
  <2>1. ASSUME NEW o \in {t, r} PROVE Held(o)' = None /\ Held(o) = None
    BY <1>2, <1>4, <1>6, <1>7, NoneFacts DEF Held, Closing
  <2>2. ASSUME NEW o \in Holders \ {t, r} PROVE Held(o)' = Held(o)
    BY <1>4, <1>7 DEF Held, Holders, stateVars
  <2> QED BY <2>1, <2>2 DEF Held
<1>9. Made(cur) /\ obj[cur.sock] = cur.id
  BY <1>1, <1>2, <1>4, <1>8 DEF Owned
<1>10. \A q \in Readers \ {r} : q \in Agents /\ pc'[q] = pc[q] /\ reg'[q] = reg[q]
  BY <1>2, <1>7 DEF Agents
<1>11. ASSUME NEW o \in Holders, Held(o).id = cur.id
       PROVE  o = NoAgent
  <2>1. Held(o) # None
    BY <1>9, <1>11, NoneFacts DEF Made
  <2>2. Made(Held(o)) /\ obj[Held(o).sock] = cur.id
    BY <1>1, <1>11, <2>1 DEF Owned
  <2>3. Held(o).sock = cur.sock
    BY <1>1, <1>9, <2>2, NoneFacts DEF Handles, Made
  <2> QED BY <1>1, <1>2, <1>8, <2>1, <2>3 DEF Owned
<1>12. Known'
  <2>1. \A q \in Readers : reg'[q].id <= count'.conn /\ (pc'[q] # "unborn" => reg'[q].id # 0)
    BY <1>1, <1>5, <1>7, <1>9, <1>10, NoneFacts DEF Known, Made
  <2>2. ASSUME NEW o \in Holders
        PROVE  Sound(Held(o))'
    <3>1. Sound(Held(o)) /\ Held(o)' = Held(o)
      BY <1>1, <1>8 DEF Known
    <3>2. Held(o).id = cur.id => Held(o).sock = cur.sock
      BY <1>8, <1>11
    <3>3. Held(o).reader # 0 => Held(o).reader \in Readers \ {r}
      BY <1>6, <3>1 DEF Sound
    <3> QED BY <1>7, <1>10, <3>1, <3>2, <3>3 DEF Sound
  <2>3. ASSUME NEW u \in Clients, pc'[u] = "install", NEW q \in Readers
        PROVE  reg'[q].id # reg'[u].id
    <3>1. u \in Agents \ {t, r} /\ pc[u] = "install" /\ reg'[u] = reg[u]
      BY <1>6, <1>7, <2>3 DEF Agents
    <3>2. Held(u) = reg[u] /\ u \in Holders /\ u # NoAgent
      BY <3>1, NoneFacts DEF Held, Holders
    <3>3. reg[u].id # cur.id
      BY <1>11, <3>2
    <3> QED BY <1>1, <1>7, <1>10, <3>1, <3>3 DEF Known
  <2> QED BY <2>1, <2>2, <2>3 DEF Known, Holders
<1>13. Left'
  <2>1. pc'[r] \in Live /\ pc'[r] \notin Closing
    BY <1>7 DEF Live, Closing
  <2> QED BY <1>1, <1>4, <1>10, <2>1 DEF Left, stateVars
<1>14. Ended'
  <2>1. \A a \in Agents : pc'[a] \in Closing => pc[a] \in Closing /\ job'[a] = job[a]
    BY <1>4, <1>7 DEF Closing
  <2>2. ASSUME NEW u \in Clients, pc'[u] = "subscribeJoin", NEW q, q = reg'[u].reader
        PROVE  /\ q \in Readers /\ pc'[q] # "unborn"
               /\ obj'[reg'[q].sock] = reg'[q].id => reg'[q].id \in shut'
    <3>1. pc[u] = "subscribeJoin" /\ reg'[u] = reg[u]
      BY <1>6, <1>7, <2>2 DEF Agents
    <3>2. q \in Readers /\ pc[q] # "unborn" /\ (obj[reg[q].sock] = reg[q].id => reg[q].id \in shut)
      BY <1>1, <2>2, <3>1 DEF Ended
    <3>3. q \in Readers \ {r}
      BY <1>6, <3>2
    <3>4. pc'[q] = pc[q] /\ reg'[q] = reg[q] /\ obj' = obj /\ shut' = shut
      BY <1>4, <1>10, <3>3 DEF socketVars
    <3> QED BY <3>2, <3>4
  <2>3. \A a \in Agents : pc'[a] \in Closing => job'[a].id \in shut'
    BY <1>1, <1>4, <2>1 DEF Ended, socketVars
  <2> QED BY <2>2, <2>3 DEF Ended
<1>15. Locks'
  <2>1. \A i \in ConnId : closeLock[i] # NoAgent =>
          closeLock[i] \in Agents \ {t, r}
    BY <1>1, <1>4, <1>6 DEF TypeOK, Locks, Agents
  <2>2. closeLock' = closeLock
    BY <1>4 DEF socketVars
  <2>3. \A i \in ConnId : closeLock[i] # NoAgent =>
          pc'[closeLock[i]] = pc[closeLock[i]] /\ reg'[closeLock[i]] = reg[closeLock[i]]
    BY <1>7, <2>1
  <2> QED BY <1>1, <2>2, <2>3 DEF Locks
<1> QED BY <1>12, <1>13, <1>14, <1>15 DEF Waits

\* Its handle is stored.
LEMMA SubscribeInstallWaits ==
    ASSUME NEW t \in Clients, IInv, Waits, SubscribeInstall(t)
    PROVE  Waits'
<1>1. TypeOK /\ Reading /\ Known /\ Left /\ Ended /\ Locks
  BY DEF IInv, Waits
<1>2. t \in Agents /\ t \notin Readers /\ NoAgent \in Holders /\ t # NoAgent
  BY NoneFacts DEF Holders
<1> DEFINE c == reg[t]
           r == reg[t].reader
<1>3. /\ pc[t] = "subscribe" /\ cur = [c EXCEPT !.reader = 0] /\ cur' = c
      /\ pc' = [pc EXCEPT ![t] = "idle"]
      /\ UNCHANGED <<listener, socketVars, reg, job, held, count>>
  BY DEF SubscribeInstall, Goto
<1>4. /\ c \in Conns /\ r \in Readers /\ r <= count.reader
      /\ reg[r].id = c.id /\ c.reader = r
  BY <1>1, <1>2, <1>3 DEF Reading, TypeOK
<1>5. cur.id = c.id /\ cur.sock = c.sock
  BY <1>3, <1>4 DEF Conns
<1> HIDE DEF c, r
<1>6. pc[r] # "unborn"
  <2>1. r \in Nat /\ count.reader \in Nat
    BY <1>1, <1>4, ReaderNumbers DEF TypeOK, Counts
  <2> QED BY <1>1, <1>4, <2>1 DEF Reading
<1>7. pc'[t] = "idle" /\ \A b \in Agents \ {t} : pc'[b] = pc[b]
  BY <1>1, <1>2, <1>3 DEF TypeOK
<1>8. SameReaders
  BY <1>2, <1>3, <1>7 DEF SameReaders, Agents
<1>9. Known'
  <2>1. Sound(cur) /\ Held(NoAgent)' = c
    <3>1. Held(NoAgent) = cur
      BY DEF Held
    <3>2. Held(NoAgent)' = c
      BY <1>3 DEF Held
    <3> QED BY <1>1, <1>2, <3>1, <3>2 DEF Known
  <2>2. Sound(Held(NoAgent))'
    BY <1>4, <1>5, <1>6, <1>8, <2>1 DEF Sound, SameReaders
  <2>3. \A o \in Agents : Held(o)' = Held(o)
    BY <1>3, <1>7, NoneFacts DEF Held, Closing
  <2>4. \A o \in Agents : Sound(Held(o))'
    BY <1>1, <1>8, <2>3 DEF Known, Sound, SameReaders, Holders
  <2>5. \A u \in Clients, q \in Readers : pc'[u] = "install" => reg'[q].id # reg'[u].id
    BY <1>1, <1>3, <1>7 DEF Known, Agents
  <2> QED BY <1>1, <1>3, <1>8, <2>2, <2>4, <2>5 DEF Known, Holders, SameReaders
<1>10. Left'
  BY <1>1, <1>2, <1>3, <1>5, <1>7 DEF Left, Agents
<1>11. Ended'
  <2>1. \A a \in Agents : pc'[a] \in Closing => pc[a] \in Closing /\ job'[a] = job[a]
    BY <1>3, <1>7 DEF Closing
  <2>2. \A u \in Clients : pc'[u] = "subscribeJoin" =>
          pc[u] = "subscribeJoin" /\ reg'[u] = reg[u]
    BY <1>3, <1>7 DEF Agents
  <2>3. EndedOn
    BY <1>3 DEF EndedOn, socketVars
  <2> QED BY <1>1, <1>8, <2>1, <2>2, <2>3, EndedKept
<1>12. Locks'
  BY <1>1, <1>2, <1>3, <1>7, LocksKept DEF socketVars
<1> QED BY <1>9, <1>10, <1>11, <1>12 DEF Waits

\* Nothing changes but, perhaps, that a connection is shut.
LEMMA PeerClosesWaits ==
    ASSUME TypeOK, Waits, UNCHANGED <<cur, closeLock, obj, pc, reg, job>>,
           shut \subseteq shut', count'.conn = count.conn
    PROVE  Waits'
<1>1. Known /\ Left /\ Ended /\ Locks /\ SameReaders
  BY DEF Waits, SameReaders
<1>2. Known'
  <2>1. \A o \in Holders : Held(o)' = Held(o)
    BY DEF Held
  <2> QED BY <1>1, <2>1, KnownKept
<1>3. Left' /\ Locks'
  BY <1>1 DEF Left, Locks
<1>4. Ended'
  <2>1. EndedOn
    BY DEF EndedOn
  <2> QED BY <1>1, <2>1, EndedKept
<1> QED BY <1>2, <1>3, <1>4 DEF Waits

-----------------------------------------------------------------------------
LEMMA InitWaits == Init => Waits
<1> SUFFICES ASSUME Init PROVE Waits
  OBVIOUS
<1>1. \A t \in Clients : pc[t] = "idle"
  BY DEF Init, Agents
<1>2. \A r \in Readers : pc[r] = "unborn" /\ reg[r] = None
  BY NoneFacts DEF Init, Agents
<1>3. \A a \in Agents : pc[a] \in {"idle", "unborn"}
  BY <1>1, <1>2 DEF Agents
<1>4. \A o \in Holders : Held(o) = None
  BY <1>3 DEF Init, Held, Holders, Closing
<1>5. Known
  BY <1>1, <1>2, <1>4, SoundNone, NoneFacts DEF Init, Known
<1>6. Left /\ Ended /\ Locks
  BY <1>1, <1>2, <1>3 DEF Init, Left, Ended, Locks, Live, Closing
<1> QED BY <1>5, <1>6 DEF Waits

LEMMA NextWaits == IInv /\ Waits /\ [Next]_vars => Waits'
<1> SUFFICES ASSUME IInv, Waits, [Next]_vars PROVE Waits'
  OBVIOUS
<1>1. TypeOK
  BY DEF IInv
<1>2. CASE UNCHANGED vars
  BY <1>1, <1>2, PeerClosesWaits DEF vars, stateVars, socketVars, agentVars
<1>3. CASE PeerCloses
  <2>1. count'.conn = count.conn
    BY <1>1, <1>3, SpendOther DEF PeerCloses, TypeOK
  <2> QED BY <1>1, <1>3, <2>1, PeerClosesWaits DEF PeerCloses, stateVars, agentVars
<1>4. ASSUME NEW t \in Clients, Call(t)
      PROVE  Waits'
  BY <1>4, ConnectCheckWaits, CallerTakesWaits, SubscribeCheckWaits, SetListenerWaits,
     SendLookupWaits DEF Call
<1>5. ASSUME NEW t \in Clients, Continue(t)
      PROVE  Waits'
  <2>1. t \in Agents
    BY DEF Agents
  <2> QED BY <1>5, <2>1, ConnectCheckWaits, ConnectSucceedsWaits, CallerTakesWaits, JoinWaits,
             CloseSocketWaits, SubscribeInstallWaits, SubscribeLostWaits, SubscribeJoinWaits,
             SendLockWaits, SendEndsWaits DEF Continue
<1>6. ASSUME NEW r \in Readers, Read(r)
      PROVE  Waits'
  <2>1. r \in Agents
    BY DEF Agents
  <2> QED BY <1>6, <2>1, ReadWaits, ReadExitWaits, JoinWaits, CloseSocketWaits DEF Read
<1> QED BY <1>2, <1>3, <1>4, <1>5, <1>6 DEF Next

LEMMA WaitsInvariance == Spec => [](IInv /\ Waits)
<1>1. Init => IInv /\ Waits
  BY InitIInv, InitWaits
<1>2. IInv /\ Waits /\ [Next]_vars => (IInv /\ Waits)'
  BY NextIInv, NextWaits
<1> QED BY <1>1, <1>2, PTL DEF Spec

\* A connection that counts as subscribed has a read thread that will see its end: the
\* handle stored, however late, is never of a thread that is done.
THEOREM SubscribedAreRead == Spec => []SubscribedIsRead
<1>1. IInv /\ Waits => SubscribedIsRead
  <2> SUFFICES ASSUME Waits, cur.reader # 0
               PROVE  pc[cur.reader] \notin {"unborn", "done"}
    BY DEF SubscribedIsRead
  <2>1. Sound(cur)
    BY DEF Waits, Known, Holders, Held
  <2>2. cur.reader \in Readers /\ pc[cur.reader] # "unborn" /\ reg[cur.reader].id = cur.id
    BY <2>1 DEF Sound
  <2> QED BY <2>2 DEF Waits, Left, Live
<1> QED BY <1>1, WaitsInvariance, PTL

\* No thread waits in vain for a read thread or a close lock: the thread joined waits
\* for no other and its recv will return, and the lock's holder is inside send.
THEOREM WaitsDoEnd == Spec => []WaitsEnd
<1>1. IInv /\ Waits => WaitsEnd
  <2> SUFFICES ASSUME IInv, Waits PROVE WaitsEnd
    OBVIOUS
  <2>1. TypeOK /\ Handles /\ Owned /\ Known /\ Left /\ Ended /\ Locks
    BY DEF IInv, Waits
  <2>2. ASSUME NEW a \in Agents, pc[a] = "join", job[a].reader \notin {0, a},
               NEW r, r = job[a].reader
        PROVE  pc[r] \notin {"join", "close"} /\ Returns(r)
    <3>1. a \in Holders /\ Held(a) = job[a]
      BY <2>2, NoneFacts DEF Holders, Held, Closing
    <3>2. r \in Readers /\ pc[r] # "unborn" /\ reg[r].id = job[a].id /\ reg[r].id # 0
      BY <2>1, <2>2, <3>1 DEF Known, Sound
    <3>3. reg[r].sock = job[a].sock
      BY <2>1, <3>1, <3>2 DEF Known, Sound
    <3>4. job[a] # None /\ Made(job[a]) /\ obj[job[a].sock] = job[a].id
      BY <2>1, <3>1, <3>2, NoneFacts DEF Owned
    <3>5. pc[r] \notin {"join", "close"}
      <4>1. ASSUME pc[r] \in Closing PROVE FALSE
        <5>1. r \in Holders /\ Held(r) = job[r] /\ job[r].id = job[a].id
          BY <2>1, <3>2, <4>1, NoneFacts DEF Holders, Held, Closing, Left
        <5>2. Made(job[r]) /\ obj[job[r].sock] = job[a].id
          BY <2>1, <3>2, <5>1, NoneFacts DEF Owned
        <5>3. job[r].sock = job[a].sock
          BY <2>1, <3>4, <5>2, NoneFacts DEF Handles, Made
        <5> QED BY <2>1, <2>2, <3>1, <3>4, <5>1, <5>3 DEF Owned
      <4> QED BY <4>1 DEF Closing
    <3>6. Returns(r)
      <4>1. job[a].id \in shut
        BY <2>1, <2>2 DEF Ended, Closing
      <4> QED BY <3>2, <3>3, <3>4, <4>1 DEF Returns, Behind
    <3> QED BY <3>5, <3>6
  <2>3. ASSUME NEW t \in Clients, pc[t] = "subscribeJoin", NEW r, r = reg[t].reader
        PROVE  Returns(r) \/ obj[reg[r].sock] # reg[r].id
    BY <2>1, <2>3 DEF Ended, Returns, Behind
  <2> QED BY <2>1, <2>2, <2>3 DEF WaitsEnd, Locks
<1> QED BY <1>1, WaitsInvariance, PTL

\* Nobody waits in vain: a subscribed connection has a reader, and a thread that is
\* joined or holds a close lock comes back.
THEOREM AllWaitsEnd == Spec => []NobodyWaitsInVain
  BY SubscribedAreRead, WaitsDoEnd, PTL DEF NobodyWaitsInVain
=============================================================================
