--------------------------- MODULE LinuxScanProofs --------------------------
(***************************************************************************)
(* Proofs about LinuxScan: a running scan that nobody can stop any more    *)
(* was robbed of its fields by another scan's last step, or two calls of   *)
(* start_scan overlapped.  Any number of callers, scans and devices.       *)
(***************************************************************************)
EXTENDS LinuxScan, FiniteSetTheorems, TLAPS

Born == {t \in Scan : tpc[t] # "unborn"}

-----------------------------------------------------------------------------
(***************************************************************************)
(* The inductive invariant                                                 *)
(***************************************************************************)
TypeOK ==
    /\ current \in Nat
    /\ pc \in [Clients -> {"idle", "stop"} \cup Starting] /\ reg \in [Clients -> Nat]
    /\ tpc \in [Scan -> {"unborn", "setup", "top", "select", "name", "add", "remove",
                         "last", "done"}]
    /\ overlap \in BOOLEAN

\* Scans are numbered without a gap, so that a task that is spawned is a new one.
Numbered == \E k \in 0..MaxScans : Born = 1..k

\* A caller has a handle in hand only while it is about to use it.
Handed == \A c \in Clients : pc[c] \in {"idle", "spawn"} => reg[c] = 0

\* Unless calls of start_scan overlap, there is one caller at a time between taking
\* the fields and storing its own, and nothing is stored meanwhile.
OneStarts ==
    ~overlap => \A c \in Clients : pc[c] \in Starting =>
                   current = 0 /\ \A o \in Clients : pc[o] \in Starting => o = c

IInv == TypeOK /\ Numbered /\ Handed /\ OneStarts /\ OrphanOnlyByRace

-----------------------------------------------------------------------------
\* A step of a task that was running, to a place that is not its birth.
TaskMoves(t, l) ==
    /\ TaskGoto(t, l)
    /\ tpc[t] \notin {"unborn", "done"}
    /\ l \in {"top", "select", "name", "add", "remove", "last", "done"}
    /\ tpc[t] = "last" => l = "done"

LEMMA TaskMovesEffect ==
    ASSUME NEW t \in Scan, NEW l, TypeOK, TaskMoves(t, l)
    PROVE  /\ Born' = Born
           /\ tpc' \in [Scan -> {"unborn", "setup", "top", "select", "name", "add", "remove",
                                 "last", "done"}]
           /\ \A u \in Scan : Running(u)' /\ tpc'[u] # "last" =>
                                Running(u) /\ tpc[u] # "last" /\ (u = t => l # "done")
<1>1. tpc'[t] = l /\ \A u \in Scan \ {t} : tpc'[u] = tpc[u]
  BY DEF TaskMoves, TaskGoto, TypeOK
<1>2. Born' = Born
  BY <1>1 DEF Born, TaskMoves
<1>3. tpc' \in [Scan -> {"unborn", "setup", "top", "select", "name", "add", "remove",
                         "last", "done"}]
  BY DEF TaskMoves, TaskGoto, TypeOK
<1> QED BY <1>1, <1>2, <1>3 DEF Running, TaskMoves

\* The steps of a task that leave the fields of the scan alone.
LEMMA TurnIInv ==
    ASSUME NEW t \in Scan, NEW l, IInv, TaskMoves(t, l),
           UNCHANGED <<current, clientVars, stopped, robbed, overlap>>
    PROVE  IInv'
<1>1. TypeOK /\ Numbered /\ Handed /\ OneStarts /\ OrphanOnlyByRace
  BY DEF IInv
<1>2. TypeOK' /\ Numbered'
  BY <1>1, TaskMovesEffect DEF TypeOK, Numbered, clientVars
<1>3. Handed' /\ OneStarts'
  BY <1>1 DEF Handed, OneStarts, clientVars
<1>4. \A u \in Scan : Running(u)' /\ tpc'[u] # "last" => Running(u) /\ tpc[u] # "last"
  BY <1>1, TaskMovesEffect
<1>5. OrphanOnlyByRace'
  BY <1>1, <1>4 DEF OrphanOnlyByRace, Orphan, Stoppable, clientVars
<1> QED BY <1>2, <1>3, <1>5 DEF IInv

LEMMA TaskIInv ==
    ASSUME NEW t \in Scan, IInv, Turn(t)
    PROVE  IInv'
<1> USE DEF TaskMoves, clientVars
<1>1. CASE SetupFails(t)
  BY <1>1, TurnIInv DEF SetupFails
<1>2. CASE SetupEnds(t)
  BY <1>2, TurnIInv DEF SetupEnds
<1>3. CASE CheckFlag(t)
  BY <1>3, TurnIInv DEF CheckFlag
<1>4. CASE Pause(t)
  BY <1>4, TurnIInv DEF Pause
<1>5. ASSUME NEW d \in Devices, Event(t, d, "name") \/ Event(t, d, "remove")
      PROVE  IInv'
  BY <1>5, TurnIInv DEF Event
<1>6. CASE Named(t)
  BY <1>6, TurnIInv DEF Named
<1>7. CASE ChangeList(t)
  BY <1>7, TurnIInv DEF ChangeList
<1>8. CASE StreamEnds(t)
  BY <1>8, TurnIInv DEF StreamEnds
<1>9. CASE Cancelled(t)
  BY <1>9, TurnIInv DEF Cancelled
<1>10. CASE Finish(t)
  <2>1. TypeOK /\ Numbered /\ Handed /\ OneStarts /\ OrphanOnlyByRace
    BY DEF IInv
  <2>2. /\ TaskMoves(t, "done") /\ current' = 0 /\ UNCHANGED <<pc, reg, stopped, overlap>>
        /\ robbed' = robbed \cup ({current} \ {0, t})
    BY <1>10 DEF Finish
  <2>3. TypeOK' /\ Numbered'
    BY <2>1, <2>2, TaskMovesEffect DEF TypeOK, Numbered
  <2>4. Handed' /\ OneStarts'
    BY <2>1, <2>2 DEF Handed, OneStarts
  <2>5. \A u \in Scan : Running(u)' /\ tpc'[u] # "last" =>
                          Running(u) /\ tpc[u] # "last" /\ u # t
    BY <2>1, <2>2, TaskMovesEffect
  <2>6. ASSUME NEW u \in Scan, Orphan(u)', ~overlap
        PROVE  u \in robbed'
    <3>1. Running(u) /\ tpc[u] # "last" /\ u # t
      BY <2>5, <2>6 DEF Orphan
    <3>2. u \notin stopped /\ \A c \in Clients : reg[c] # u
      BY <2>2, <2>6 DEF Orphan, Stoppable
    <3>3. CASE current = u
      BY <2>2, <3>1, <3>3 DEF Scan
    <3>4. CASE current # u
      BY <2>1, <2>2, <2>6, <3>1, <3>2, <3>4 DEF OrphanOnlyByRace, Orphan, Stoppable
    <3> QED BY <3>3, <3>4
  <2> QED BY <2>2, <2>3, <2>4, <2>6 DEF IInv, OrphanOnlyByRace
<1> QED BY <1>1, <1>2, <1>3, <1>4, <1>5, <1>6, <1>7, <1>8, <1>9, <1>10 DEF Turn

-----------------------------------------------------------------------------
(***************************************************************************)
(* Callers                                                                 *)
(***************************************************************************)
\* StopScan and StartScan: the caller takes the fields.
LEMMA TakeIInv ==
    ASSUME NEW c \in Clients, NEW l \in {"stop", "restop"}, IInv, pc[c] = "idle",
           current' = 0, Goto(c, l, current), UNCHANGED taskVars,
           overlap' \in BOOLEAN, overlap => overlap',
           l = "restop" /\ ~overlap' => \A o \in Clients \ {c} : pc[o] \notin Starting
    PROVE  IInv'
<1>1. TypeOK /\ Numbered /\ Handed /\ OneStarts /\ OrphanOnlyByRace
  BY DEF IInv
<1>2. /\ pc'[c] = l /\ reg'[c] = current /\ reg[c] = 0
      /\ \A o \in Clients \ {c} : pc'[o] = pc[o] /\ reg'[o] = reg[o]
  BY <1>1 DEF Goto, TypeOK, Handed
<1>3. TypeOK' /\ Numbered'
  BY <1>1 DEF Goto, TypeOK, Numbered, Born, taskVars, Starting
<1>4. Handed' /\ OneStarts'
  BY <1>1, <1>2 DEF Handed, OneStarts, Starting
<1>5. \A u \in Scan : Orphan(u)' => Orphan(u)
  <2> SUFFICES ASSUME NEW u \in Scan, Orphan(u)' PROVE Orphan(u)
    OBVIOUS
  <2>1. Running(u) /\ tpc[u] # "last" /\ u \notin stopped /\ \A o \in Clients : reg'[o] # u
    BY DEF Orphan, Running, Stoppable, taskVars
  <2>2. current # u /\ u # 0
    BY <1>2, <2>1 DEF Scan
  <2> QED BY <1>2, <2>1, <2>2 DEF Orphan, Stoppable
<1>6. OrphanOnlyByRace'
  BY <1>1, <1>5 DEF OrphanOnlyByRace, taskVars
<1> QED BY <1>3, <1>4, <1>6 DEF IInv

LEMMA SignalIInv ==
    ASSUME NEW c \in Clients, IInv, Signal(c)
    PROVE  IInv'
<1>1. TypeOK /\ Numbered /\ Handed /\ OneStarts /\ OrphanOnlyByRace
  BY DEF IInv
<1>2. /\ pc[c] \in {"stop", "restop"} /\ stopped' = stopped \cup ({reg[c]} \ {0})
      /\ UNCHANGED <<current, tpc, robbed, overlap>>
  BY DEF Signal
<1>3. /\ pc'[c] = (IF pc[c] = "stop" THEN "idle" ELSE "spawn") /\ reg'[c] = 0
      /\ \A o \in Clients \ {c} : pc'[o] = pc[o] /\ reg'[o] = reg[o]
  BY <1>1 DEF Signal, Goto, TypeOK
<1>4. TypeOK' /\ Numbered'
  <2>1. /\ pc' \in [Clients -> {"idle", "stop"} \cup Starting]
        /\ reg' \in [Clients -> Nat]
    BY <1>1 DEF Signal, Goto, TypeOK, Starting
  <2> QED BY <1>1, <1>2, <2>1 DEF TypeOK, Numbered, Born
<1>5. Handed'
  BY <1>1, <1>3 DEF Handed
<1>6. OneStarts'
  BY <1>1, <1>2, <1>3 DEF OneStarts, Starting
<1>7. \A u \in Scan : Orphan(u)' => Orphan(u)
  <2> SUFFICES ASSUME NEW u \in Scan, Orphan(u)' PROVE Orphan(u)
    OBVIOUS
  <2>1. /\ Running(u) /\ tpc[u] # "last" /\ u \notin stopped' /\ current # u
        /\ \A o \in Clients : reg'[o] # u
    BY <1>2 DEF Orphan, Running, Stoppable
  <2>2. reg[c] # u
    BY <1>2, <2>1 DEF Scan
  <2> QED BY <1>2, <1>3, <2>1, <2>2 DEF Orphan, Stoppable
<1>8. OrphanOnlyByRace'
  BY <1>1, <1>2, <1>7 DEF OrphanOnlyByRace
<1> QED BY <1>4, <1>5, <1>6, <1>8 DEF IInv

LEMMA SpawnIInv ==
    ASSUME NEW c \in Clients, IInv, Spawn(c)
    PROVE  IInv'
<1>1. TypeOK /\ Numbered /\ Handed /\ OneStarts /\ OrphanOnlyByRace
  BY DEF IInv
<1>2. PICK k \in 0..MaxScans : Born = 1..k
  BY <1>1 DEF Numbered
<1>3. k \in Nat /\ k <= MaxScans /\ MaxScans \in Nat /\ Cardinality(Born) = k
  BY <1>2, BoundsAssumption, FS_Interval
<1>4. /\ pc[c] = "spawn" /\ Goto(c, "store", k + 1) /\ TaskGoto(k + 1, "setup")
      /\ UNCHANGED <<current, stopped, robbed, overlap>>
  BY <1>3 DEF Spawn, Born
<1>5. /\ pc'[c] = "store" /\ reg'[c] = k + 1 /\ reg[c] = 0
      /\ \A o \in Clients \ {c} : pc'[o] = pc[o] /\ reg'[o] = reg[o]
  BY <1>1, <1>4 DEF Goto, TypeOK, Handed
<1>6. /\ \A u \in Scan : u # k + 1 => tpc'[u] = tpc[u]
      /\ k + 1 \in Scan => tpc'[k + 1] = "setup"
  BY <1>1, <1>4 DEF TaskGoto, TypeOK
<1>7. TypeOK'
  <2>1. /\ pc' \in [Clients -> {"idle", "stop"} \cup Starting]
        /\ reg' \in [Clients -> Nat]
    BY <1>1, <1>3, <1>4 DEF Goto, TypeOK, Starting
  <2>2. tpc' \in [Scan -> {"unborn", "setup", "top", "select", "name", "add", "remove",
                           "last", "done"}]
    BY <1>1, <1>4 DEF TaskGoto, TypeOK
  <2> QED BY <1>1, <1>4, <2>1, <2>2 DEF TypeOK
<1>8. Numbered'
  <2>1. CASE k + 1 \in Scan
    <3>1. Born' = 1..(k + 1)
      BY <1>2, <1>3, <1>6, <2>1 DEF Born, Scan
    <3>2. k + 1 \in 0..MaxScans
      BY <1>3, <2>1 DEF Scan
    <3> QED BY <3>1, <3>2 DEF Numbered
  <2>2. CASE k + 1 \notin Scan
    <3>1. Born' = Born
      BY <1>6, <2>2 DEF Born
    <3> QED BY <1>2, <3>1 DEF Numbered
  <2> QED BY <2>1, <2>2
<1>9. Handed'
  BY <1>1, <1>5 DEF Handed
<1>10. OneStarts'
  BY <1>1, <1>4, <1>5 DEF OneStarts, Starting
<1>11. \A u \in Scan : Orphan(u)' => Orphan(u)
  <2> SUFFICES ASSUME NEW u \in Scan, Orphan(u)' PROVE Orphan(u)
    OBVIOUS
  <2>1. /\ u # k + 1 /\ u \notin stopped /\ current # u /\ u # 0
        /\ \A o \in Clients : reg'[o] # u
    BY <1>4, <1>5 DEF Orphan, Stoppable, Scan
  <2>2. Running(u) /\ tpc[u] # "last"
    BY <1>6, <2>1 DEF Orphan, Running
  <2> QED BY <1>5, <2>1, <2>2 DEF Orphan, Stoppable
<1>12. OrphanOnlyByRace'
  BY <1>1, <1>4, <1>11 DEF OrphanOnlyByRace
<1> QED BY <1>7, <1>8, <1>9, <1>10, <1>12 DEF IInv

LEMMA StoreIInv ==
    ASSUME NEW c \in Clients, IInv, Store(c)
    PROVE  IInv'
<1>1. TypeOK /\ Numbered /\ Handed /\ OneStarts /\ OrphanOnlyByRace
  BY DEF IInv
<1>2. pc[c] = "store" /\ current' = reg[c] /\ UNCHANGED <<tpc, stopped, robbed, overlap>>
  BY DEF Store, taskVars
<1>3. /\ pc'[c] = "idle" /\ reg'[c] = 0
      /\ \A o \in Clients \ {c} : pc'[o] = pc[o] /\ reg'[o] = reg[o]
  BY <1>1 DEF Store, Goto, TypeOK
<1>4. TypeOK' /\ Numbered'
  BY <1>1, <1>2 DEF Store, Goto, TypeOK, Starting, Numbered, Born
<1>5. Handed' /\ OneStarts'
  BY <1>1, <1>2, <1>3 DEF Handed, OneStarts, Starting
<1>6. \A u \in Scan : Orphan(u)' /\ ~overlap => Orphan(u)
  <2> SUFFICES ASSUME NEW u \in Scan, Orphan(u)', ~overlap PROVE Orphan(u)
    OBVIOUS
  <2>1. /\ Running(u) /\ tpc[u] # "last" /\ u \notin stopped /\ reg[c] # u /\ u # 0
        /\ \A o \in Clients : reg'[o] # u
    BY <1>2 DEF Orphan, Running, Stoppable, Scan
  <2>2. current = 0
    BY <1>1, <1>2 DEF OneStarts, Starting
  <2> QED BY <1>3, <2>1, <2>2 DEF Orphan, Stoppable
<1>7. OrphanOnlyByRace'
  BY <1>1, <1>2, <1>6 DEF OrphanOnlyByRace
<1> QED BY <1>4, <1>5, <1>7 DEF IInv

-----------------------------------------------------------------------------
(***************************************************************************)
(* The theorem                                                             *)
(***************************************************************************)
LEMMA InitIInv == Init => IInv
<1> SUFFICES ASSUME Init PROVE IInv
  OBVIOUS
<1>1. Born = 1..0 /\ 0 \in 0..MaxScans
  BY BoundsAssumption DEF Init, Born
<1> QED BY <1>1 DEF Init, IInv, TypeOK, Numbered, Handed, OneStarts, Starting,
                    OrphanOnlyByRace, Orphan, Running

LEMMA NextIInv == IInv /\ [Next]_vars => IInv'
<1> SUFFICES ASSUME IInv, [Next]_vars PROVE IInv'
  OBVIOUS
<1>1. CASE UNCHANGED vars
  BY <1>1 DEF vars, clientVars, taskVars, IInv, TypeOK, Numbered, Born, Handed, OneStarts,
              OrphanOnlyByRace, Orphan, Running, Stoppable
<1>2. ASSUME NEW c \in Clients, StopScan(c)
      PROVE  IInv'
  <2>1. TypeOK
    BY DEF IInv
  <2> QED BY <1>2, <2>1, TakeIInv DEF StopScan, TypeOK
<1>3. ASSUME NEW c \in Clients, StartScan(c)
      PROVE  IInv'
  <2>1. overlap \in BOOLEAN
    BY DEF IInv, TypeOK
  <2>2. /\ overlap' \in BOOLEAN /\ (overlap => overlap')
        /\ ~overlap' => \A o \in Clients \ {c} : pc[o] \notin Starting
    BY <1>3, <2>1 DEF StartScan
  <2>3. /\ pc[c] = "idle" /\ current' = 0 /\ Goto(c, "restop", current)
        /\ UNCHANGED taskVars
    BY <1>3 DEF StartScan
  <2> QED BY <2>2, <2>3, TakeIInv
<1> QED BY <1>1, <1>2, <1>3, SignalIInv, SpawnIInv, StoreIInv, TaskIInv
           DEF Next, Begin, Continue

\* The state of the Linux discovery always satisfies the inductive invariant.
THEOREM Invariance == Spec => []IInv
BY InitIInv, NextIInv, PTL DEF Spec

\* A scan that runs on and that neither stop_scan nor a caller can stop any more was
\* robbed of its fields by the last step of another scan, unless two calls of
\* start_scan overlapped: there is no other way to lose one.
THEOREM OrphansOnlyByRaces == Spec => []OrphanOnlyByRace
BY Invariance, PTL DEF IInv
=============================================================================
