----------------------------- MODULE MacPlugin -----------------------------
(***************************************************************************)
(* The macOS backend around its connections: discovery (MacScan) and the   *)
(* audio guard (AudioGuard), driven by connections that are known by what  *)
(* ConnectionSlot promises of them, which MacConnection is checked to      *)
(* implement.                                                              *)
(*                                                                         *)
(* Everything but the CoreAudio callback runs on the main run loop: while  *)
(* the main thread is inside the audio guard (mpc), no other block runs.   *)
(*                                                                         *)
(* A definition whose name begins with Bad is the definition after it with *)
(* a mistake in it; the runs check that a property notices.                *)
(***************************************************************************)
EXTENDS MacScan, AudioGuard

VARIABLES
    status, attempt,  \* the connections, as in ConnectionSlot
    begun             \* connections whose service was looked up: a retry begins after it

Slot == INSTANCE ConnectionSlot WITH Addr <- Watch, NoAddr <- NoOutput

slotVars == <<status, attempt, begun>>
vars == <<scanVars, audioGuardVars, slotVars>>

\* MainThreadState.connections
Connecting == {w \in Watch : status[w] = "connecting"}

\* A block of the main run loop begins.
Block == mpc = "idle"

-----------------------------------------------------------------------------
\* connect stops the scan and accepts the device.
Connect(w) ==
    /\ Block /\ Slot!Request(w)
    /\ StopScan
    /\ UNCHANGED <<audioGuardVars, begun>>

\* The first attempt of a connection starts its guard; a retry does not.
Attempt(w) ==
    /\ Block /\ Slot!Begin(w)
    /\ IF w \in begun THEN UNCHANGED audioGuardVars ELSE Start(w)
    /\ begun' = begun \cup {w}
    /\ UNCHANGED scanVars
Retry == Block /\ Slot!Yield /\ UNCHANGED <<scanVars, audioGuardVars, begun>>
Established(w) ==
    /\ Block /\ w \in begun /\ Slot!Establish(w)
    /\ UNCHANGED <<scanVars, audioGuardVars, begun>>

\* Failure, closure and disconnect stop the device's guard.
Ended(w) ==
    /\ Block /\ Slot!End(w)
    /\ Stop({w})
    /\ begun' = begun \ {w}
    /\ UNCHANGED scanVars

\* disconnect_all, also the second half of cleanup_bluetooth_resources, whose first is
\* a stop_scan.
DisconnectAll ==
    /\ Block /\ Slot!Shutdown
    /\ Stop(Watch)
    /\ begun' = {}
    /\ UNCHANGED scanVars

\* Calls of start_scan and stop_scan, and what the inquiry does.
ScanCall ==
    /\ Block
    /\ StopScan \/ \E ok \in BOOLEAN : StartScan(Connecting, ok)
    /\ UNCHANGED <<audioGuardVars, slotVars>>
ScanTurn == Block /\ ScanSystem /\ UNCHANGED <<audioGuardVars, slotVars>>

GuardTurn == Main /\ UNCHANGED <<scanVars, slotVars>>
AudioTurn == Callback /\ UNCHANGED <<scanVars, slotVars>>
OutputSwitched == (\E o \in Output : Switch(o)) /\ UNCHANGED <<scanVars, slotVars>>

-----------------------------------------------------------------------------
Init == ScanInit /\ GuardInit /\ Slot!SlotInit /\ begun = {}

Next == \/ \E w \in Watch : Connect(w) \/ Attempt(w) \/ Established(w) \/ Ended(w)
        \/ Retry \/ DisconnectAll \/ ScanCall \/ ScanTurn
        \/ GuardTurn \/ AudioTurn \/ OutputSwitched

Spec == Init /\ [][Next]_vars

\* CoreAudio's thread and the main thread keep running.
FairSpec == Spec /\ WF_vars(GuardTurn) /\ WF_vars(AudioTurn)

-----------------------------------------------------------------------------
\* "Starting inquiry while paging/pairing degrades connection success": there is no
\* inquiry, and none will be started by a restart posted earlier, while a connection is
\* being made.
NoInquiryWhileConnecting == Connecting # {} => inquiry = 0 /\ ~running
=============================================================================
