--------------------------- MODULE WinScanProofs ---------------------------
(***************************************************************************)
(* Proofs about the Windows discovery: for any number of callers and any   *)
(* number of scans, a thread that outlives its scan neither writes into    *)
(* the scan that follows nor escapes the order to stop, and who waits for  *)
(* a thread has told it to stop.                                           *)
(***************************************************************************)
EXTENDS WinScan, TLAPS

ThreadPlaces == {"unborn", "top", "inquiry", "enumerate", "remember", "next",
                 "pause", "finish", "done"}
Outcomes     == {"idle", "start", "connecting"}
ClientPlaces == Outcomes \cup {"signal", "join"}
Taken        == [event : 0..MaxGen, handle : 0..MaxGen, then : Outcomes]

\* The types of the variables.
TypeOK ==
    /\ scanning \in BOOLEAN /\ scanError \in BOOLEAN
    /\ generation \in 0..MaxGen /\ event \in 0..MaxGen /\ handle \in 0..MaxGen
    /\ found \subseteq Gen /\ signalled \subseteq Gen /\ terr \subseteq Gen
    /\ deaf \subseteq Gen
    /\ tpc \in [Gen -> ThreadPlaces]
    /\ pc \in [Clients -> ClientPlaces]
    /\ reg \in [Clients -> Taken]

\* A thread was spawned by a scan that has begun; only threads that are no longer the
\* current one are, or are about to be, told to stop.
OldAreTold ==
    /\ \A g \in Gen : tpc[g] # "unborn" => g <= generation
    /\ \A g \in signalled : g < generation
    /\ event <= generation
    /\ \A c \in Clients : reg[c].event = 0 \/ reg[c].event < generation

\* The thread of the current generation runs only while is_scanning is set: a stop
\* changes the generation and the thread's last step resets the flag.
LiveMeansScanning == \A g \in Gen : Live(g) /\ g = generation => scanning

\* The stop event and the handle in the state, and those a caller took, are of one
\* thread.
OneThread == event = handle /\ \A c \in Clients : reg[c].event = reg[c].handle

IInv == /\ TypeOK /\ OldAreTold /\ LiveMeansScanning /\ OneThread
        /\ StaleScanSilent /\ ScanningIsHonest /\ SupersededIsStopped /\ WaitedForIsTold

-----------------------------------------------------------------------------
USE BoundAssumption DEF Gen

LEMMA InitIInv == Init => IInv
<1> SUFFICES ASSUME Init PROVE IInv
  OBVIOUS
<1> USE DEF Init
<1>1. scanning \in BOOLEAN /\ scanError \in BOOLEAN
  OBVIOUS
<1>2. NoScan \in Taken
  BY DEF NoScan, Taken, Outcomes
<1>3. TypeOK
  BY <1>1, <1>2 DEF TypeOK, Outcomes, ClientPlaces, ThreadPlaces
<1>4. OldAreTold
  BY DEF OldAreTold, NoScan
<1>5. /\ LiveMeansScanning /\ StaleScanSilent
      /\ ScanningIsHonest /\ SupersededIsStopped
  BY DEF LiveMeansScanning, StaleScanSilent, ScanningIsHonest, SupersededIsStopped, Live
<1>6. OneThread /\ WaitedForIsTold
  BY DEF OneThread, WaitedForIsTold, NoScan
<1> QED BY <1>3, <1>4, <1>5, <1>6 DEF IInv

\* stop_scan_inner keeps the invariant: the thread it leaves behind is the one whose
\* event it took.
LEMMA StopScanIInv ==
    ASSUME IInv, NEW c \in Clients, NEW next \in Outcomes, StopScan(c, next)
    PROVE  IInv'
<1> USE DEF IInv, StopScan, NothingToStop, ClientGoto, threadVars
<1>1. TypeOK'
  <2>1. scanning' \in BOOLEAN
    BY DEF TypeOK
  <2>2. [event |-> event, handle |-> handle, then |-> next] \in Taken
    BY DEF TypeOK, Taken
  <2>3. reg' \in [Clients -> Taken]
    BY <2>2 DEF TypeOK
  <2>4. pc' \in [Clients -> ClientPlaces]
    BY DEF TypeOK, ClientPlaces
  <2>5. generation' \in 0..MaxGen /\ event' \in 0..MaxGen /\ handle' \in 0..MaxGen
    BY DEF TypeOK
  <2> QED BY <2>1, <2>3, <2>4, <2>5 DEF TypeOK
<1>2. OldAreTold'
  <2>1. \A d \in Clients : reg'[d].event = reg[d].event \/ reg'[d].event = event
    BY DEF TypeOK
  <2>2. CASE NothingToStop
    BY <2>2 DEF OldAreTold
  <2>3. CASE ~NothingToStop
    <3>1. generation' = generation + 1 /\ event' = 0
      BY <2>3
    <3>2. \A d \in Clients : reg[d].event \in Nat
      BY DEF TypeOK, Taken
    <3> QED BY <2>1, <3>1, <3>2 DEF TypeOK, OldAreTold
  <2> QED BY <2>2, <2>3
<1>3. LiveMeansScanning'
  BY DEF TypeOK, OldAreTold, LiveMeansScanning, Live
<1>4. StaleScanSilent' /\ ScanningIsHonest'
  BY DEF TypeOK, StaleScanSilent, ScanningIsHonest, Live
<1>5. SupersededIsStopped'
  <2> SUFFICES ASSUME NEW g \in Gen, Live(g)', tpc'[g] # "finish", g # generation'
               PROVE  \/ g \in signalled' \cup deaf'
                      \/ \E d \in Clients : pc'[d] = "signal" /\ reg'[d].event = g
    BY DEF SupersededIsStopped
  <2>1. \A d \in Clients : pc[d] = "signal" => pc'[d] = "signal" /\ reg'[d] = reg[d]
    BY DEF TypeOK
  <2>0. signalled' = signalled /\ deaf' = deaf /\ tpc' = tpc
    OBVIOUS
  <2>2. CASE g # generation
    <3>1. \/ g \in signalled \cup deaf
          \/ \E d \in Clients : pc[d] = "signal" /\ reg[d].event = g
      BY <2>0, <2>2 DEF SupersededIsStopped, Live
    <3> HIDE DEF StopScan, ClientGoto, IInv
    <3> QED BY <2>0, <2>1, <3>1
  <2>3. CASE g = generation
    <3>1. scanning /\ event = g
      BY <2>3 DEF LiveMeansScanning, ScanningIsHonest, Live
    <3>2. pc'[c] = "signal" /\ reg'[c].event = g
      BY <3>1 DEF TypeOK
    <3> QED BY <3>2
  <2> QED BY <2>2, <2>3
<1>6. OneThread' /\ WaitedForIsTold'
  BY DEF TypeOK, OneThread, WaitedForIsTold, Outcomes
<1> QED BY <1>1, <1>2, <1>3, <1>4, <1>5, <1>6

\* The steps of a caller after stop_scan_inner keep it.
LEMMA ContinueIInv ==
    ASSUME IInv, NEW c \in Clients, Continue(c)
    PROVE  IInv'
<1> USE DEF IInv, ClientGoto, ThreadGoto, scanVars, threadVars
<1>1. CASE Signal(c)
  <2>1. TypeOK'
    <3>1. reg[c].event \in 0..MaxGen /\ reg[c].then \in Outcomes
      BY DEF TypeOK, Taken
    <3>2. signalled' \subseteq Gen
      <4>1. {reg[c].event} \ {0} \subseteq Gen
        BY <3>1
      <4>2. signalled \subseteq Gen
        BY DEF TypeOK
      <4>3. signalled' = signalled \cup ({reg[c].event} \ {0})
        BY <1>1 DEF Signal
      <4> HIDE DEF Gen
      <4> QED BY <4>1, <4>2, <4>3
    <3>3. pc' \in [Clients -> ClientPlaces]
      BY <1>1, <3>1 DEF Signal, TypeOK, ClientPlaces
    <3> QED BY <1>1, <3>2, <3>3 DEF Signal, TypeOK
  <2>2. OldAreTold' /\ LiveMeansScanning' /\ StaleScanSilent' /\ ScanningIsHonest'
    BY <1>1 DEF Signal, TypeOK, OldAreTold, LiveMeansScanning, StaleScanSilent,
                ScanningIsHonest, Live
  <2>3. SupersededIsStopped'
    BY <1>1 DEF Signal, TypeOK, SupersededIsStopped, Live
  <2>4. OneThread' /\ WaitedForIsTold'
    BY <1>1 DEF Signal, TypeOK, OneThread, WaitedForIsTold
  <2> QED BY <2>1, <2>2, <2>3, <2>4
<1>2. CASE JoinScan(c) \/ Connected(c)
  <2>1. TypeOK'
    BY <1>2 DEF JoinScan, Connected, TypeOK, Taken, ClientPlaces, Outcomes
  <2>2. OldAreTold' /\ LiveMeansScanning' /\ StaleScanSilent' /\ ScanningIsHonest'
    BY <1>2 DEF JoinScan, Connected, OldAreTold, LiveMeansScanning, StaleScanSilent,
                ScanningIsHonest, Live
  <2>3. SupersededIsStopped'
    BY <1>2 DEF JoinScan, Connected, TypeOK, SupersededIsStopped, Live
  <2>4. OneThread' /\ WaitedForIsTold'
    BY <1>2 DEF JoinScan, Connected, TypeOK, Taken, Outcomes, OneThread, WaitedForIsTold
  <2> QED BY <2>1, <2>2, <2>3, <2>4
<1>3. CASE StartScan(c)
  <2> USE <1>3 DEF StartScan, MayStart
  <2>0. OneThread' /\ WaitedForIsTold'
    BY DEF TypeOK, OneThread, WaitedForIsTold
  <2>1. CASE UNCHANGED <<scanVars, tpc>>
    <3>1. TypeOK'
      BY <2>1 DEF TypeOK, ClientPlaces, Outcomes
    <3>2. OldAreTold' /\ LiveMeansScanning' /\ StaleScanSilent' /\ ScanningIsHonest'
      BY <2>1 DEF OldAreTold, LiveMeansScanning, StaleScanSilent, ScanningIsHonest, Live
    <3>3. SupersededIsStopped'
      BY <2>1 DEF TypeOK, SupersededIsStopped, Live
    <3> QED BY <2>0, <3>1, <3>2, <3>3
  <2>2. CASE /\ ~scanning /\ generation < MaxGen
             /\ generation' = generation + 1
             /\ scanning' = TRUE /\ scanError' = FALSE /\ found' = {}
             /\ event' = generation + 1 /\ handle' = generation + 1
             /\ tpc' = [tpc EXCEPT ![generation + 1] = "top"]
    <3>0. generation \in 0..MaxGen /\ generation + 1 \in Gen
      BY <2>2 DEF TypeOK
    <3>1. TypeOK'
      <4>1. scanning' \in BOOLEAN /\ scanError' \in BOOLEAN
        BY <2>2
      <4>2. pc' \in [Clients -> ClientPlaces] /\ tpc' \in [Gen -> ThreadPlaces]
        BY <2>2 DEF TypeOK, ClientPlaces, Outcomes, ThreadPlaces
      <4>3. /\ generation' \in 0..MaxGen /\ event' \in 0..MaxGen
            /\ handle' \in 0..MaxGen /\ found' \subseteq Gen
        BY <2>2, <3>0
      <4> QED BY <4>1, <4>2, <4>3 DEF TypeOK
    <3>2. OldAreTold'
      BY <2>2, <3>0 DEF TypeOK, OldAreTold, Taken
    <3>3. generation' \notin signalled' /\ tpc'[generation'] = "top"
      BY <2>2, <3>0 DEF TypeOK, OldAreTold
    <3>4. LiveMeansScanning' /\ StaleScanSilent'
      BY <2>2 DEF LiveMeansScanning, StaleScanSilent
    <3>5. ScanningIsHonest'
      BY <2>2, <3>0, <3>3 DEF ScanningIsHonest, Live
    <3>6. SupersededIsStopped'
      BY <2>2, <3>0 DEF TypeOK, LiveMeansScanning, SupersededIsStopped, Live
    <3> QED BY <2>0, <3>1, <3>2, <3>4, <3>5, <3>6
  <2> QED BY <2>1, <2>2
<1>4. CASE SignalFails(c)
  <2> USE <1>4 DEF SignalFails
  <2>1. TypeOK'
    <3>1. reg[c].event \in Gen
      BY DEF TypeOK, Taken
    <3>2. deaf' \subseteq Gen
      <4> HIDE DEF Gen
      <4> QED BY <3>1 DEF TypeOK
    <3>3. pc' \in [Clients -> ClientPlaces]
      BY DEF TypeOK, ClientPlaces, Outcomes
    <3> QED BY <3>2, <3>3 DEF TypeOK
  <2>2. OldAreTold' /\ LiveMeansScanning' /\ StaleScanSilent' /\ ScanningIsHonest'
    BY DEF OldAreTold, LiveMeansScanning, StaleScanSilent, ScanningIsHonest, Live
  <2>3. SupersededIsStopped'
    BY DEF TypeOK, SupersededIsStopped, Live
  <2>4. OneThread' /\ WaitedForIsTold'
    BY DEF TypeOK, OneThread, WaitedForIsTold
  <2> QED BY <2>1, <2>2, <2>3, <2>4
<1> QED BY <1>1, <1>2, <1>3, <1>4 DEF Continue

\* The steps of a scan thread keep it, the current thread's and a stale one's.
LEMMA ThreadIInv ==
    ASSUME IInv, NEW g \in Gen, Thread(g)
    PROVE  IInv'
<1> USE DEF IInv, ThreadGoto, scanVars
<1>0. OneThread' /\ WaitedForIsTold'
  BY DEF Thread, Look, Remember, Finish, Inquire, OneThread, WaitedForIsTold
<1>1. CASE Look(g)
  <2> USE <1>1 DEF Look
  <2>1. TypeOK'
    BY DEF TypeOK, ThreadPlaces
  <2>2. OldAreTold' /\ LiveMeansScanning' /\ StaleScanSilent' /\ ScanningIsHonest'
    BY DEF TypeOK, OldAreTold, LiveMeansScanning, StaleScanSilent, ScanningIsHonest, Live
  <2>3. SupersededIsStopped'
    BY DEF TypeOK, SupersededIsStopped, Live
  <2> QED BY <1>0, <2>1, <2>2, <2>3
<1>2. CASE \E outcome \in {"device", "none", "error"} : Inquire(g, outcome)
  <2> PICK outcome \in {"device", "none", "error"} : Inquire(g, outcome)
    BY <1>2
  <2> USE DEF Inquire
  <2>1. TypeOK'
    BY DEF TypeOK, ThreadPlaces
  <2>2. OldAreTold' /\ LiveMeansScanning' /\ StaleScanSilent' /\ ScanningIsHonest'
    BY DEF TypeOK, OldAreTold, LiveMeansScanning, StaleScanSilent, ScanningIsHonest, Live
  <2>3. SupersededIsStopped'
    BY DEF TypeOK, SupersededIsStopped, Live
  <2> QED BY <1>0, <2>1, <2>2, <2>3
<1>3. CASE Remember(g)
  <2> USE <1>3 DEF Remember, IsCurrent
  <2>1. TypeOK'
    BY DEF TypeOK, ThreadPlaces
  <2>2. OldAreTold' /\ LiveMeansScanning' /\ StaleScanSilent' /\ ScanningIsHonest'
    BY DEF TypeOK, OldAreTold, LiveMeansScanning, StaleScanSilent, ScanningIsHonest, Live
  <2>3. SupersededIsStopped'
    BY DEF TypeOK, SupersededIsStopped, Live
  <2> QED BY <1>0, <2>1, <2>2, <2>3
<1>4. CASE Finish(g)
  <2> USE <1>4 DEF Finish, IsCurrent
  <2>1. TypeOK'
    <3>1. (g \in terr) \in BOOLEAN
      OBVIOUS
    <3>2. scanning' \in BOOLEAN /\ scanError' \in BOOLEAN
      BY <3>1 DEF TypeOK
    <3>3. tpc' \in [Gen -> ThreadPlaces]
      BY DEF TypeOK, ThreadPlaces
    <3> QED BY <3>2, <3>3 DEF TypeOK
  <2>2. OldAreTold' /\ LiveMeansScanning' /\ StaleScanSilent' /\ ScanningIsHonest'
    BY DEF TypeOK, OldAreTold, LiveMeansScanning, StaleScanSilent, ScanningIsHonest, Live
  <2>3. SupersededIsStopped'
    BY DEF TypeOK, SupersededIsStopped, Live
  <2> QED BY <1>0, <2>1, <2>2, <2>3
<1> QED BY <1>1, <1>2, <1>3, <1>4 DEF Thread

LEMMA NextIInv == IInv /\ [Next]_vars => IInv'
<1> SUFFICES ASSUME IInv, [Next]_vars PROVE IInv'
  OBVIOUS
<1>1. CASE UNCHANGED vars
  BY <1>1 DEF vars, scanVars, threadVars, IInv, TypeOK, OldAreTold, LiveMeansScanning,
              OneThread, StaleScanSilent, ScanningIsHonest, SupersededIsStopped,
              WaitedForIsTold, Live
<1>2. CASE Next
  BY <1>2, StopScanIInv, ContinueIInv, ThreadIInv DEF Next, Outcomes
<1> QED BY <1>1, <1>2

THEOREM Invariance == Spec => []IInv
  BY InitIInv, NextIInv, PTL DEF Spec

-----------------------------------------------------------------------------
\* A scan thread that outlived its scan writes nothing into the one that follows: the
\* list and the error of a running scan are its own (scan_generation).
THEOREM StaleScanIsSilent == Spec => []StaleScanSilent
<1>1. IInv => StaleScanSilent
  BY DEF IInv
<1> QED BY Invariance, <1>1, PTL

\* is_scanning is set only while the current generation's thread scans, not told to
\* stop, with its handle and event kept.
THEOREM ScanningStaysHonest == Spec => []ScanningIsHonest
<1>1. IInv => ScanningIsHonest
  BY DEF IInv
<1> QED BY Invariance, <1>1, PTL

\* A superseded thread's stop event is set, or held by the caller about to set it, or
\* Windows refused to set it.
THEOREM SupersededIsToldToStop == Spec => []SupersededIsStopped
<1>1. IInv => SupersededIsStopped
  BY DEF IInv
<1> QED BY Invariance, <1>1, PTL

\* A caller that waits for a scan thread has set that thread's stop event.
THEOREM NobodyWaitsUntold == Spec => []WaitedForIsTold
<1>1. IInv => WaitedForIsTold
  BY DEF IInv
<1> QED BY Invariance, <1>1, PTL

\* Each superseded scan thread, and the one that is waited for, is told to stop.
THEOREM StopsReachThreads == Spec => []StopsAreTold
  BY SupersededIsToldToStop, NobodyWaitsUntold, PTL DEF StopsAreTold
=============================================================================
