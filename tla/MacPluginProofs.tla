-------------------------- MODULE MacPluginProofs --------------------------
(***************************************************************************)
(* Proofs about the macOS discovery and audio guard around the             *)
(* connections, for any number of watches, outputs, scans and inquiries:   *)
(* whatever the main run loop, IOBluetooth and CoreAudio do and in which   *)
(* order, there is no inquiry while a connection is made, no scan stalls   *)
(* and no guarded watch is left without a listener.                        *)
(***************************************************************************)
EXTENDS MacPlugin, TLAPS

-----------------------------------------------------------------------------
(***************************************************************************)
(* Discovery                                                               *)
(***************************************************************************)
ScanTypeOK ==
    /\ inquiry \in Nat /\ restarts \in Nat /\ inquiries \in Nat /\ first \in Nat
    /\ reporting \subseteq 1..inquiries
    /\ first <= inquiries + 1

\* The inquiry in the state belongs to the last scan: it is no older than that scan's
\* first.
InquiryOfThisScan == inquiry # 0 => inquiry \in first..inquiries

ScanInv == /\ ScanTypeOK /\ InquiryOfThisScan
           /\ ScanGoesOn /\ ListIsOfThisScan

\* A step of the audio guard or of the connections leaves the scan alone.
LEMMA ScanUnchanged == ScanInv /\ UNCHANGED scanVars => ScanInv'
  BY DEF scanVars, ScanInv, ScanTypeOK, InquiryOfThisScan, ScanGoesOn, ListIsOfThisScan

LEMMA ScanInitInv == ScanInit => ScanInv /\ inquiry = 0 /\ ~running
  BY DEF ScanInit, ScanInv, ScanTypeOK, InquiryOfThisScan, ScanGoesOn, ListIsOfThisScan

LEMMA StopScanInv == ScanInv /\ StopScan => ScanInv' /\ inquiry' = 0 /\ ~running'
  BY DEF StopScan, ScanInv, ScanTypeOK, InquiryOfThisScan, ScanGoesOn, ListIsOfThisScan

LEMMA StartScanInv ==
    ASSUME NEW connecting, NEW ok \in BOOLEAN, ScanInv, StartScan(connecting, ok)
    PROVE  ScanInv' /\ (connecting # {} => inquiry' = 0 /\ ~running')
<1>1. CASE connecting # {}
  BY <1>1, StopScanInv DEF StartScan
<1>2. CASE connecting = {}
  <2>1. /\ inquiries' = inquiries + 1 /\ first' = inquiries + 1
        /\ running' = ok /\ foreign' = FALSE /\ restarts' = restarts
        /\ inquiry' = (IF ok THEN inquiries + 1 ELSE 0)
        /\ reporting' = (IF ok THEN reporting \cup {inquiries + 1} ELSE reporting)
    BY <1>2 DEF StartScan, StartInquiry
  <2>2. ScanTypeOK'
    BY <2>1 DEF ScanInv, ScanTypeOK
  <2>3. InquiryOfThisScan' /\ ScanGoesOn' /\ ListIsOfThisScan'
    BY <2>1 DEF ScanInv, ScanTypeOK, InquiryOfThisScan, ScanGoesOn, ListIsOfThisScan
  <2> QED BY <1>2, <2>2, <2>3 DEF ScanInv
<1> QED BY <1>1, <1>2

\* What IOBluetooth and the main queue do never starts a scan that was stopped.
LEMMA ScanSystemInv ==
    ASSUME ScanInv, ScanSystem
    PROVE  ScanInv' /\ (inquiry = 0 /\ ~running => inquiry' = 0 /\ ~running')
<1> USE DEF ScanInv
<1>1. CASE \E i \in reporting : Found(i)
  <2> PICK i \in reporting : Found(i)
    BY <1>1
  <2>1. ~(i = inquiry /\ i < first)
    BY DEF ScanTypeOK, InquiryOfThisScan
  <2>2. ListIsOfThisScan'
    BY <2>1, Zenon DEF Found, ListIsOfThisScan
  <2>3. /\ inquiry' = inquiry /\ restarts' = restarts /\ reporting' = reporting
        /\ inquiries' = inquiries /\ first' = first /\ (running' <=> running)
    BY DEF Found
  <2> QED BY <2>2, <2>3 DEF ScanTypeOK, InquiryOfThisScan, ScanGoesOn
<1>2. CASE \E i \in reporting : \E good \in BOOLEAN : Complete(i, good)
  <2> PICK i \in reporting, good \in BOOLEAN : Complete(i, good)
    BY <1>2
  <2>1. CASE i = inquiry
    BY <2>1 DEF Complete, ScanTypeOK, InquiryOfThisScan, ScanGoesOn, ListIsOfThisScan
  <2>2. CASE i # inquiry
    BY <2>2 DEF Complete, ScanTypeOK, InquiryOfThisScan, ScanGoesOn, ListIsOfThisScan
  <2> QED BY <2>1, <2>2
<1>3. CASE \E ok \in BOOLEAN : Restart(ok)
  <2> PICK ok \in BOOLEAN : Restart(ok)
    BY <1>3
  <2>1. CASE running /\ inquiry = 0
    <3>1. /\ inquiries' = inquiries + 1 /\ first' = first /\ foreign' = foreign
          /\ running' = ok /\ restarts' = restarts - 1 /\ restarts > 0
          /\ inquiry' = (IF ok THEN inquiries + 1 ELSE 0)
          /\ reporting' = (IF ok THEN reporting \cup {inquiries + 1} ELSE reporting)
      BY <2>1 DEF Restart, StartInquiry
    <3>2. ScanTypeOK'
      BY <3>1 DEF ScanTypeOK
    <3>3. InquiryOfThisScan'
      BY <3>1 DEF ScanTypeOK, InquiryOfThisScan
    <3>4. ScanGoesOn' /\ ListIsOfThisScan'
      BY <3>1 DEF ScanTypeOK, ScanGoesOn, ListIsOfThisScan
    <3> QED BY <2>1, <3>2, <3>3, <3>4
  <2>2. CASE ~(running /\ inquiry = 0)
    <3>1. /\ inquiry' = inquiry /\ reporting' = reporting /\ inquiries' = inquiries
          /\ first' = first /\ (running' <=> running) /\ (foreign' <=> foreign)
          /\ restarts' = restarts - 1 /\ restarts > 0
      BY <2>2 DEF Restart
    <3> QED BY <2>2, <3>1 DEF ScanTypeOK, InquiryOfThisScan, ScanGoesOn, ListIsOfThisScan
  <2> QED BY <2>1, <2>2
<1> QED BY <1>1, <1>2, <1>3 DEF ScanSystem
-----------------------------------------------------------------------------
(***************************************************************************)
(* The audio guard                                                         *)
(***************************************************************************)
GuardTypeOK ==
    /\ active \in BOOLEAN /\ registered \in BOOLEAN /\ leftover \in BOOLEAN
    /\ targets \subseteq Watch /\ DOMAIN preferred = Watch
    /\ mpc \in {"idle", "insert", "register", "remove"}
    /\ mpc \in {"insert", "register"} => mreg.watch \in Watch

\* While the main thread is at rest, or has yet to insert a target, the guard is active
\* exactly if there are targets, and CoreAudio has the listener exactly then or because
\* it refused to remove it; in between, it is added for the only target, or removed
\* after the last.
ListenerFollows ==
    /\ mpc \in {"idle", "insert"} => /\ active <=> targets # {}
                                     /\ active => registered
                                     /\ registered => active \/ leftover
    /\ mpc = "register" => /\ active /\ targets = {mreg.watch}
                           /\ registered => leftover
    /\ mpc = "remove"   => ~active /\ targets = {}

GuardInv == GuardTypeOK /\ ListenerFollows /\ NoPingPong

LEMMA GuardUnchanged ==
    GuardInv /\ UNCHANGED <<guardVars, mainVars>> => GuardInv'
<1> SUFFICES ASSUME GuardInv, UNCHANGED <<guardVars, mainVars>> PROVE GuardInv'
  OBVIOUS
<1> USE DEF GuardInv, guardVars, mainVars
<1>1. GuardTypeOK'
  BY DEF GuardTypeOK
<1>2. ListenerFollows'
  BY DEF ListenerFollows
<1>3. NoPingPong'
  BY DEF NoPingPong
<1> QED BY <1>1, <1>2, <1>3

LEMMA GuardInitInv == GuardInit => GuardInv
  BY DEF GuardInit, GuardInv, GuardTypeOK, ListenerFollows, NoPingPong

LEMMA StartInv ==
    ASSUME NEW w \in Watch, GuardInv, Start(w)
    PROVE  GuardInv'
<1> USE DEF GuardInv, Start, guardVars
<1>1. mreg'.watch = w
  OBVIOUS
<1>2. GuardTypeOK'
  BY <1>1 DEF GuardTypeOK
<1>3. ListenerFollows'
  BY DEF ListenerFollows
<1>4. NoPingPong'
  BY DEF NoPingPong
<1> QED BY <1>2, <1>3, <1>4

\* The target inserted prefers no watch that is guarded, so it closes no cycle.
LEMMA InsertInv ==
    ASSUME GuardInv, Insert
    PROVE  GuardInv'
<1> USE DEF GuardInv
<1> DEFINE n == mreg.watch
<1>0. n \in Watch /\ mpc = "insert"
  BY DEF Insert, GuardTypeOK
<1>1. NoPingPong'
  <2>1. \A v \in targets : preferred'[n] # v
    <3> SUFFICES ASSUME NEW v \in targets, preferred'[n] = v PROVE FALSE
      OBVIOUS
    <3>1. v = Preference
      BY <1>0 DEF Insert, GuardTypeOK
    <3>2. v # NoOutput
      BY OutputAssumption DEF GuardTypeOK, Output
    <3>3. mreg.current = v
      BY <3>1, <3>2 DEF Preference
    <3> QED BY <3>1, <3>2, <3>3 DEF Preference, Matches
  <2>2. \A v \in Watch : v # n => preferred'[v] = preferred[v]
    BY DEF Insert, GuardTypeOK
  <2>3. targets' = targets \cup {n} /\ targets \subseteq Watch
    BY DEF Insert, GuardTypeOK
  <2> QED BY <1>0, <2>1, <2>2, <2>3 DEF NoPingPong
<1>2. CASE active
  <2>1. targets' = targets \cup {n} /\ mpc' = "idle" /\ active' = TRUE
    BY <1>2 DEF Insert
  <2>2. registered' = registered /\ leftover' = leftover /\ DOMAIN preferred' = Watch
    BY DEF Insert, GuardTypeOK
  <2>3. GuardTypeOK'
    BY <1>0, <2>1, <2>2 DEF GuardTypeOK
  <2>4. registered
    BY <1>0, <1>2 DEF ListenerFollows
  <2>5. ListenerFollows'
    BY <2>1, <2>2, <2>4 DEF ListenerFollows
  <2> QED BY <1>1, <2>3, <2>5
<1>3. CASE ~active
  <2>1. targets = {} /\ (registered => leftover)
    <3>1. (active <=> targets # {}) /\ (registered => active \/ leftover)
      BY <1>0 DEF ListenerFollows
    <3> QED BY <1>3, <3>1, Zenon
  <2>2. /\ targets' = {n} /\ mpc' = "register" /\ active' = TRUE
        /\ mreg' = mreg
    BY <1>3, <2>1 DEF Insert
  <2>3. registered' = registered /\ leftover' = leftover /\ DOMAIN preferred' = Watch
    BY DEF Insert, GuardTypeOK
  <2>4. GuardTypeOK'
    BY <1>0, <2>2, <2>3 DEF GuardTypeOK
  <2>5. ListenerFollows'
    BY <2>1, <2>2, <2>3 DEF ListenerFollows
  <2> QED BY <1>1, <2>4, <2>5
<1> QED BY <1>2, <1>3

\* CoreAudio accepts the listener of the only target, or that target is taken out.
LEMMA RegisterInv ==
    ASSUME NEW ok \in BOOLEAN, GuardInv, Register(ok)
    PROVE  GuardInv'
<1> USE DEF GuardInv
<1>1. targets = {mreg.watch} /\ (registered => leftover)
  BY DEF Register, ListenerFollows
<1>2. /\ mpc' = "idle" /\ (active' <=> ok)
      /\ (registered' <=> registered \/ ok) /\ (leftover' <=> leftover /\ ~ok)
      /\ targets' = (IF ok THEN targets ELSE {})
  <2>1. targets' = (IF ok THEN targets ELSE {})
    BY <1>1 DEF Register
  <2> QED BY <2>1 DEF Register
<1>3. GuardTypeOK'
  <2>1. registered' \in BOOLEAN /\ active' \in BOOLEAN /\ leftover' \in BOOLEAN
    BY DEF Register
  <2>2. DOMAIN preferred' = Watch
    BY DEF Register, GuardTypeOK, Without
  <2> QED BY <1>2, <2>1, <2>2 DEF GuardTypeOK
<1>4. ListenerFollows'
  BY <1>1, <1>2 DEF ListenerFollows
<1>5. NoPingPong'
  BY <1>2 DEF NoPingPong, Register
<1> QED BY <1>3, <1>4, <1>5

LEMMA StopInv ==
    ASSUME NEW ws, GuardInv, Stop(ws)
    PROVE  GuardInv'
<1> USE DEF GuardInv
<1>1. /\ mpc = "idle" /\ targets' = targets \ ws /\ preferred' = Without(ws)
      /\ (registered' <=> registered) /\ (leftover' <=> leftover)
      /\ (active' <=> active /\ targets' # {})
      /\ mpc' = (IF active /\ targets' = {} THEN "remove" ELSE "idle")
  BY DEF Stop
<1>2. GuardTypeOK'
  <2>1. active' \in BOOLEAN /\ registered' \in BOOLEAN /\ leftover' \in BOOLEAN
    BY DEF Stop, GuardTypeOK
  <2> QED BY <1>1, <2>1 DEF GuardTypeOK, Without
<1>3. /\ active <=> targets # {}
      /\ active => registered
      /\ registered => active \/ leftover
  BY <1>1 DEF ListenerFollows
<1>4. ListenerFollows'
  <2>1. CASE active /\ targets' = {}
    BY <1>1, <2>1 DEF ListenerFollows
  <2>2. CASE active /\ targets' # {}
    BY <1>1, <1>3, <2>2 DEF ListenerFollows
  <2>3. CASE ~active
    <3>1. targets = {} /\ (registered => leftover)
      BY <1>3, <2>3
    <3>2. targets' = {} /\ ~active' /\ (registered' => leftover') /\ mpc' = "idle"
      BY <1>1, <2>3, <3>1
    <3> QED BY <3>2 DEF ListenerFollows
  <2> QED BY <2>1, <2>2, <2>3
<1>5. NoPingPong'
  <2>1. \A v \in targets' : v \in targets /\ preferred'[v] = preferred[v]
    BY <1>1 DEF Without, GuardTypeOK
  <2> QED BY <2>1 DEF NoPingPong
<1> QED BY <1>2, <1>4, <1>5

\* The listener is removed, or CoreAudio refuses and it is left over.
LEMMA RemoveInv ==
    ASSUME NEW ok \in BOOLEAN, GuardInv, Remove(ok)
    PROVE  GuardInv'
<1> USE DEF GuardInv
<1>1. ~active /\ targets = {}
  BY DEF Remove, ListenerFollows
<1>2. /\ mpc' = "idle" /\ targets' = {} /\ (active' <=> active)
      /\ (registered' <=> registered /\ ~ok) /\ (leftover' <=> ~ok)
  BY <1>1 DEF Remove
<1>3. GuardTypeOK'
  <2>1. registered' \in BOOLEAN /\ active' \in BOOLEAN /\ leftover' \in BOOLEAN
    BY DEF Remove, GuardTypeOK
  <2> QED BY <1>2, <2>1 DEF Remove, GuardTypeOK
<1>4. ListenerFollows' /\ NoPingPong'
  BY <1>1, <1>2 DEF ListenerFollows, NoPingPong
<1> QED BY <1>3, <1>4

LEMMA MainInv == GuardInv /\ Main => GuardInv'
  BY InsertInv, RegisterInv, RemoveInv DEF Main

\* The callback and the changes of the output write nothing of this.
LEMMA OutputInv ==
    GuardInv /\ (Callback \/ \E o \in Output : Switch(o)) => GuardInv'
<1>1. Callback \/ (\E o \in Output : Switch(o)) => UNCHANGED <<guardVars, mainVars>>
  BY DEF Callback, Notified, ReadOutput, SetOutput, Switch
<1> QED BY <1>1, GuardUnchanged

-----------------------------------------------------------------------------
(***************************************************************************)
(* The two and the connections                                             *)
(***************************************************************************)
StatusOK == status \in [Watch -> {"idle", "connecting", "connected"}]

IInv == ScanInv /\ GuardInv /\ StatusOK /\ NoInquiryWhileConnecting

LEMMA InitIInv == Init => IInv
<1> SUFFICES ASSUME Init PROVE IInv
  OBVIOUS
<1>1. ScanInv /\ inquiry = 0 /\ ~running
  BY ScanInitInv DEF Init
<1>2. GuardInv
  BY GuardInitInv DEF Init
<1>3. StatusOK
  BY DEF Init, Slot!SlotInit, StatusOK
<1> QED BY <1>1, <1>2, <1>3 DEF IInv, NoInquiryWhileConnecting

\* The steps of the connections: only a request adds to those being made, and it stops
\* the scan.
LEMMA ConnectionIInv ==
    ASSUME IInv,
           \/ \E w \in Watch : Connect(w) \/ Attempt(w) \/ Established(w) \/ Ended(w)
           \/ Retry \/ DisconnectAll
    PROVE  IInv'
<1> USE DEF IInv
<1>1. ASSUME NEW w \in Watch, Connect(w) PROVE IInv'
  <2>1. ScanInv' /\ inquiry' = 0 /\ ~running'
    BY <1>1, StopScanInv DEF Connect
  <2>2. GuardInv'
    BY <1>1, GuardUnchanged DEF Connect, audioGuardVars
  <2>3. StatusOK'
    BY <1>1 DEF Connect, Slot!Request, StatusOK
  <2> QED BY <2>1, <2>2, <2>3 DEF NoInquiryWhileConnecting
<1>2. ASSUME UNCHANGED scanVars, GuardInv', StatusOK', Connecting' \subseteq Connecting
      PROVE  IInv'
  <2>1. ScanInv'
    BY <1>2, ScanUnchanged
  <2>2. inquiry' = inquiry /\ (running' <=> running)
    BY <1>2 DEF scanVars
  <2> QED BY <1>2, <2>1, <2>2 DEF NoInquiryWhileConnecting
<1>3. ASSUME NEW w \in Watch, Attempt(w) PROVE IInv'
  <2>1. GuardInv'
    BY <1>3, StartInv, GuardUnchanged DEF Attempt, audioGuardVars
  <2>2. StatusOK' /\ Connecting' = Connecting
    BY <1>3 DEF Attempt, Slot!Begin, StatusOK, Connecting
  <2> QED BY <1>2, <1>3, <2>1, <2>2 DEF Attempt
<1>4. ASSUME NEW w \in Watch, Established(w) PROVE IInv'
  <2>1. GuardInv'
    BY <1>4, GuardUnchanged DEF Established, audioGuardVars
  <2>2. StatusOK' /\ Connecting' \subseteq Connecting
    BY <1>4 DEF Established, Slot!Establish, StatusOK, Connecting
  <2> QED BY <1>2, <1>4, <2>1, <2>2 DEF Established
<1>5. ASSUME NEW w \in Watch, Ended(w) PROVE IInv'
  <2>1. GuardInv'
    BY <1>5, StopInv DEF Ended
  <2>2. StatusOK' /\ Connecting' \subseteq Connecting
    BY <1>5 DEF Ended, Slot!End, StatusOK, Connecting
  <2> QED BY <1>2, <1>5, <2>1, <2>2 DEF Ended
<1>6. CASE Retry
  <2>1. GuardInv'
    BY <1>6, GuardUnchanged DEF Retry, audioGuardVars
  <2>2. StatusOK' /\ Connecting' = Connecting
    BY <1>6 DEF Retry, Slot!Yield, StatusOK, Connecting
  <2> QED BY <1>2, <1>6, <2>1, <2>2 DEF Retry
<1>7. CASE DisconnectAll
  <2>1. GuardInv'
    BY <1>7, StopInv DEF DisconnectAll
  <2>2. StatusOK' /\ Connecting' \subseteq Connecting
    BY <1>7 DEF DisconnectAll, Slot!Shutdown, StatusOK, Connecting
  <2> QED BY <1>2, <1>7, <2>1, <2>2 DEF DisconnectAll
<1> QED BY <1>1, <1>3, <1>4, <1>5, <1>6, <1>7

LEMMA NextIInv == IInv /\ [Next]_vars => IInv'
<1> SUFFICES ASSUME IInv, [Next]_vars PROVE IInv'
  OBVIOUS
<1> USE DEF IInv
<1>1. ASSUME UNCHANGED slotVars PROVE StatusOK' /\ Connecting' = Connecting
  BY <1>1 DEF slotVars, StatusOK, Connecting
<1>2. ASSUME UNCHANGED <<scanVars, slotVars>>, GuardInv' PROVE IInv'
  <2>1. ScanInv'
    BY <1>2, ScanUnchanged
  <2>2. inquiry' = inquiry /\ (running' <=> running)
    BY <1>2 DEF scanVars
  <2> QED BY <1>1, <1>2, <2>1, <2>2 DEF NoInquiryWhileConnecting
<1>3. CASE ScanCall
  <2>1. ScanInv' /\ (Connecting # {} => inquiry' = 0 /\ ~running')
    BY <1>3, StopScanInv, StartScanInv DEF ScanCall
  <2>2. GuardInv' /\ StatusOK' /\ Connecting' = Connecting
    BY <1>1, <1>3, GuardUnchanged DEF ScanCall, audioGuardVars
  <2> QED BY <2>1, <2>2 DEF NoInquiryWhileConnecting
<1>4. CASE ScanTurn
  <2>1. ScanInv' /\ (inquiry = 0 /\ ~running => inquiry' = 0 /\ ~running')
    BY <1>4, ScanSystemInv DEF ScanTurn
  <2>2. GuardInv' /\ StatusOK' /\ Connecting' = Connecting
    BY <1>1, <1>4, GuardUnchanged DEF ScanTurn, audioGuardVars
  <2> QED BY <2>1, <2>2 DEF NoInquiryWhileConnecting
<1>5. CASE GuardTurn
  BY <1>2, <1>5, MainInv DEF GuardTurn
<1>6. CASE AudioTurn \/ OutputSwitched
  BY <1>2, <1>6, OutputInv DEF AudioTurn, OutputSwitched
<1>7. CASE UNCHANGED vars
  BY <1>2, <1>7, GuardUnchanged DEF vars, audioGuardVars
<1> QED BY <1>3, <1>4, <1>5, <1>6, <1>7, ConnectionIInv DEF Next

THEOREM Invariance == Spec => []IInv
  BY InitIInv, NextIInv, PTL DEF Spec

-----------------------------------------------------------------------------
\* No inquiry runs, nor will one be started by a restart posted earlier, while a
\* connection is being made.
THEOREM NoInquiryDisturbs == Spec => []NoInquiryWhileConnecting
<1>1. IInv => NoInquiryWhileConnecting
  BY DEF IInv
<1> QED BY Invariance, <1>1, PTL

\* A scan that runs has an inquiry that will complete or a restart that is posted.
THEOREM ScanNeverStalls == Spec => []ScanGoesOn
<1>1. IInv => ScanGoesOn
  BY DEF IInv, ScanInv
<1> QED BY Invariance, <1>1, PTL

\* The list of a scan holds only what its own inquiries found: those that were stopped
\* report in vain.
THEOREM ListIsItsOwn == Spec => []ListIsOfThisScan
<1>1. IInv => ListIsOfThisScan
  BY DEF IInv, ScanInv
<1> QED BY Invariance, <1>1, PTL

\* Between two blocks of the main run loop the guard is active exactly if there are
\* guarded watches, CoreAudio has the listener if it is, and CoreAudio has it without a
\* guarded watch only because it refused to remove it.
THEOREM GuardIsReal == Spec => []TargetsAreGuarded
<1>1. IInv => TargetsAreGuarded
  <2> SUFFICES ASSUME IInv, mpc = "idle"
               PROVE  /\ active = (targets # {})
                      /\ active => registered
                      /\ registered => active \/ leftover
    BY DEF TargetsAreGuarded
  <2>1. /\ active <=> targets # {}
        /\ active => registered
        /\ registered => active \/ leftover
    BY DEF IInv, GuardInv, ListenerFollows
  <2>2. active \in BOOLEAN
    BY DEF IInv, GuardInv, GuardTypeOK
  <2> QED BY <2>1, <2>2
<1> QED BY Invariance, <1>1, PTL

\* No two guarded watches prefer each other's output.
THEOREM OutputIsNotTossed == Spec => []NoPingPong
<1>1. IInv => NoPingPong
  BY DEF IInv, GuardInv
<1> QED BY Invariance, <1>1, PTL
=============================================================================
