------------------------------ MODULE WinScan ------------------------------
(***************************************************************************)
(* Device discovery of the Windows backend (src/win/implementation.rs):    *)
(* callers that start and stop scans or connect, and the scan threads,     *)
(* whose inquiry blocks for seconds and cannot be interrupted, so that a   *)
(* stopped thread may outlive the start of its successor.                  *)
(*                                                                         *)
(* A scan thread is named by the scan_generation it was spawned with.      *)
(* Devices are abstracted to the threads that reported one.  A critical    *)
(* section of BT_STATE is one step.                                        *)
(*                                                                         *)
(* A definition whose name begins with Bad is the definition after it with *)
(* a mistake in it; the runs check that a property notices.                *)
(***************************************************************************)
EXTENDS Naturals

CONSTANTS
    Clients,  \* callers' threads
    MaxGen    \* bound: values scan_generation takes

ASSUME BoundAssumption == MaxGen \in Nat

Gen == 1..MaxGen

VARIABLES
    scanning, generation,   \* is_scanning, scan_generation
    event, handle,          \* scan_stop_event, scan_thread_handle: the thread or 0
    scanError,              \* whether scan_error is set
    found,                  \* scanned_devices: the threads that reported one
    signalled,              \* threads whose stop event is set
    deaf,                   \* ghost: threads whose stop event could not be set
    tpc, terr,              \* per scan thread: where it is; its scan_error local
    pc, reg                 \* per client: where it is; what it took from the state

scanVars   == <<scanning, generation, event, handle, scanError, found>>
threadVars == <<signalled, deaf, tpc, terr>>
vars == <<scanVars, threadVars, pc, reg>>

NoScan == [event |-> 0, handle |-> 0, then |-> "idle"]

ClientGoto(c, l) == pc' = [pc EXCEPT ![c] = l]
ThreadGoto(g, l) == tpc' = [tpc EXCEPT ![g] = l]
Live(g) == tpc[g] \notin {"unborn", "done"}

-----------------------------------------------------------------------------
(***************************************************************************)
(* stop_scan_inner, called by stop_scan, by start_scan and, waiting, by    *)
(* connect: `next` is what the caller does afterwards.  The cleanup of the *)
(* stack does the same to this state as stop_scan.                         *)
(***************************************************************************)
NothingToStop == ~scanning /\ handle = 0

StopScan(c, next) ==
    /\ pc[c] = "idle"
    /\ UNCHANGED <<scanError, found, threadVars>>
    /\ \/ /\ NothingToStop
          /\ ClientGoto(c, next)
          /\ UNCHANGED <<scanning, generation, event, handle, reg>>
       \/ /\ ~NothingToStop
          /\ generation < MaxGen
          /\ generation' = generation + 1
          /\ reg' = [reg EXCEPT ![c] = [event |-> event, handle |-> handle, then |-> next]]
          /\ scanning' = FALSE /\ event' = 0 /\ handle' = 0
          /\ ClientGoto(c, "signal")

\* SetEvent, then wait for the thread (connect) or leave it to be reaped.
BadSignal(c) ==
    /\ pc[c] = "signal"
    /\ ClientGoto(c, IF reg[c].then = "connecting" THEN "join" ELSE reg[c].then)
    /\ UNCHANGED <<scanVars, threadVars, reg>>
Signal(c) ==
    /\ pc[c] = "signal"
    /\ signalled' = signalled \cup ({reg[c].event} \ {0})
    /\ ClientGoto(c, IF reg[c].then = "connecting" THEN "join" ELSE reg[c].then)
    /\ UNCHANGED <<scanVars, deaf, tpc, terr, reg>>

\* SetEvent fails: the caller returns the error, and the event and the handle it took
\* are dropped with nobody told and nobody waited for.
SignalFails(c) ==
    /\ pc[c] = "signal" /\ reg[c].event # 0
    /\ deaf' = deaf \cup {reg[c].event}
    /\ ClientGoto(c, "idle")
    /\ UNCHANGED <<scanVars, signalled, tpc, terr, reg>>

JoinScan(c) ==
    /\ pc[c] = "join"
    /\ reg[c].handle \in {0} \cup {g \in Gen : tpc[g] = "done"}
    /\ ClientGoto(c, reg[c].then)
    /\ UNCHANGED <<scanVars, threadVars, reg>>

\* The rest of start_scan: without a radio it fails; a scan another caller started
\* meanwhile is left alone.
MayStart == ~scanning
StartScan(c) ==
    /\ pc[c] = "start"
    /\ ClientGoto(c, "idle")
    /\ UNCHANGED <<signalled, deaf, terr, reg>>
    /\ \/ UNCHANGED <<scanVars, tpc>>
       \/ /\ MayStart /\ generation < MaxGen
          /\ generation' = generation + 1
          /\ scanning' = TRUE /\ scanError' = FALSE /\ found' = {}
          /\ event' = generation + 1 /\ handle' = generation + 1
          /\ ThreadGoto(generation + 1, "top")

\* try_connect_sequence is over, one way or the other.
Connected(c) ==
    /\ pc[c] = "connecting"
    /\ ClientGoto(c, "idle")
    /\ UNCHANGED <<scanVars, threadVars, reg>>

-----------------------------------------------------------------------------
(***************************************************************************)
(* The scan thread                                                         *)
(***************************************************************************)
\* At the top of a cycle, between two devices and after the pause it looks at the
\* stop event.
Look(g) ==
    /\ tpc[g] \in {"top", "next", "pause"}
    /\ ThreadGoto(g, IF g \in signalled THEN "finish"
                     ELSE CASE tpc[g] = "top"   -> "inquiry"
                            [] tpc[g] = "next"  -> "enumerate"
                            [] tpc[g] = "pause" -> "top")
    /\ UNCHANGED <<scanVars, signalled, deaf, terr, pc, reg>>

\* BluetoothFindFirstDevice and BluetoothFindNextDevice find a device, no (more)
\* devices, or fail.
Inquire(g, outcome) ==
    /\ tpc[g] \in {"inquiry", "enumerate"}
    /\ ThreadGoto(g, CASE outcome = "device" -> "remember"
                       [] outcome = "none"   -> "pause"
                       [] outcome = "error"  -> "finish")
    /\ terr' = IF outcome = "error" THEN terr \cup {g} ELSE terr
    /\ UNCHANGED <<scanVars, signalled, deaf, pc, reg>>

BadIsCurrent(g) == TRUE
IsCurrent(g) == generation = g

\* remember_scanned_device
Remember(g) ==
    /\ tpc[g] = "remember"
    /\ found' = IF IsCurrent(g) THEN found \cup {g} ELSE found
    /\ ThreadGoto(g, "next")
    /\ UNCHANGED <<scanning, generation, event, handle, scanError, signalled, deaf, terr,
                   pc, reg>>

BadFinish(g) ==
    /\ tpc[g] = "finish"
    /\ ThreadGoto(g, "done")
    /\ IF IsCurrent(g) /\ g \notin terr
       THEN scanning' = FALSE /\ scanError' = FALSE
       ELSE UNCHANGED <<scanning, scanError>>
    /\ UNCHANGED <<generation, event, handle, found, signalled, deaf, terr, pc, reg>>
Finish(g) ==
    /\ tpc[g] = "finish"
    /\ ThreadGoto(g, "done")
    /\ IF IsCurrent(g)
       THEN scanning' = FALSE /\ scanError' = (g \in terr)
       ELSE UNCHANGED <<scanning, scanError>>
    /\ UNCHANGED <<generation, event, handle, found, signalled, deaf, terr, pc, reg>>

-----------------------------------------------------------------------------
Init ==
    /\ scanning = FALSE /\ generation = 0 /\ event = 0 /\ handle = 0
    /\ scanError = FALSE /\ found = {}
    /\ signalled = {} /\ deaf = {} /\ terr = {}
    /\ tpc = [g \in Gen |-> "unborn"]
    /\ pc = [c \in Clients |-> "idle"]
    /\ reg = [c \in Clients |-> NoScan]

Continue(c) ==
    Signal(c) \/ SignalFails(c) \/ JoinScan(c) \/ StartScan(c) \/ Connected(c)
Thread(g) == \/ Look(g) \/ Remember(g) \/ Finish(g)
             \/ \E outcome \in {"device", "none", "error"} : Inquire(g, outcome)

Next == \/ \E c \in Clients : \/ \E next \in {"idle", "start", "connecting"} :
                                     StopScan(c, next)
                              \/ Continue(c)
        \/ \E g \in Gen : Thread(g)

Spec == Init /\ [][Next]_vars

\* Threads keep running and an inquiry returns in the end.
Fairness == /\ \A c \in Clients : WF_vars(Continue(c))
            /\ \A g \in Gen : WF_vars(Thread(g))
FairSpec == Spec /\ Fairness

-----------------------------------------------------------------------------
(***************************************************************************)
(* Properties                                                              *)
(***************************************************************************)

\* While a scan runs, every listed device was reported by it, and its predecessors,
\* still stuck in their inquiry, have not marked it failed (the comment on
\* scan_generation: a stale thread's writes are dropped).
StaleScanSilent == scanning => found \subseteq {generation} /\ ~scanError

\* is_scanning is never left set without a thread that scans: the thread of the
\* current generation runs, unasked to stop, and its handle and event are kept.
ScanningIsHonest ==
    scanning => /\ generation \in Gen /\ Live(generation)
                /\ generation \notin signalled
                /\ handle = generation /\ event = generation

\* A scan thread that was superseded has been told to stop, or is about to be: no
\* interleaving of callers loses its stop event while it runs.  Only if Windows refused
\* to set the event does it scan on.
SupersededIsStopped ==
    \A g \in Gen : Live(g) /\ tpc[g] # "finish" /\ g # generation =>
        \/ g \in signalled \cup deaf
        \/ \E c \in Clients : pc[c] = "signal" /\ reg[c].event = g

\* connect waits only for a scan thread that was told to stop: the handle and the stop
\* event that a caller took belong to one thread, and it sets the event first.
WaitedForIsTold ==
    \A c \in Clients : pc[c] = "join" /\ reg[c].handle # 0 => reg[c].handle \in signalled

\* The order to stop reaches each scan thread that is superseded, and first of all the
\* one that connect waits for.
StopsAreTold == SupersededIsStopped /\ WaitedForIsTold

\* Calls return, the waiting one of connect too.
CallsReturn == \A c \in Clients : pc[c] # "idle" ~> pc[c] = "idle"
=============================================================================
