----------------------------- MODULE LinuxScan -----------------------------
(***************************************************************************)
(* Discovery of the Linux backend (src/linux/implementation.rs): callers   *)
(* that start and stop scans (connect begins with a stop), and one task    *)
(* per scan on the Tokio runtime.                                          *)
(*                                                                         *)
(* scan_stop and scan_thread are always written together: current is the   *)
(* scan they belong to.  An aborted task ends where it waits; where it     *)
(* does not wait it goes on, up to its last step, which resets scan_stop   *)
(* and scan_thread, whose ever they are.                                   *)
(*                                                                         *)
(* A definition whose name begins with Bad is the definition after it with *)
(* a mistake in it; the runs check that a property notices.                *)
(***************************************************************************)
EXTENDS Naturals, FiniteSets

CONSTANTS
    Clients,    \* callers' threads
    Devices,    \* devices in range
    MaxScans,   \* bound: scans started
    MaxStops    \* bound: calls that only stop

ASSUME BoundsAssumption == MaxScans \in Nat /\ MaxStops \in Nat

Scan == 1..MaxScans

VARIABLES
    current,          \* scan_stop and scan_thread: whose they are, or 0
    devices,          \* scanned_devices
    pc, reg,          \* per client: where it is, the scan it took or spawned, or 0
    tpc, hand,        \* per task: where it is, the devices it has in hand
    stopped,          \* tasks whose flag is set and whose handle was aborted
    robbed,           \* scans whose fields another scan's last step has reset
    scans, stops,     \* calls so far
    overlap           \* whether two calls of start_scan ever overlapped

clientVars == <<pc, reg>>
taskVars   == <<tpc, hand, stopped, robbed>>
vars == <<current, devices, clientVars, taskVars, scans, stops, overlap>>

Goto(c, l, t) == pc' = [pc EXCEPT ![c] = l] /\ reg' = [reg EXCEPT ![c] = t]
Starting == {"restop", "spawn", "store"}
TaskGoto(t, l) == tpc' = [tpc EXCEPT ![t] = l]

-----------------------------------------------------------------------------
(***************************************************************************)
(* Callers                                                                 *)
(***************************************************************************)
\* stop_scan, called for itself or by connect: take both fields ...
StopScan(c) ==
    /\ pc[c] = "idle" /\ stops < MaxStops
    /\ stops' = stops + 1
    /\ current' = 0
    /\ Goto(c, "stop", current)
    /\ UNCHANGED <<devices, taskVars, scans, overlap>>

\* ... and start_scan, which begins the same way ...
BadStartScan(c) ==
    /\ pc[c] = "idle" /\ scans < MaxScans
    /\ scans' = scans + 1
    /\ overlap' = (overlap \/ \E o \in Clients \ {c} : pc[o] \in Starting)
    /\ Goto(c, "spawn", 0)
    /\ UNCHANGED <<current, devices, taskVars, stops>>
StartScan(c) ==
    /\ pc[c] = "idle" /\ scans < MaxScans
    /\ scans' = scans + 1
    /\ overlap' = (overlap \/ \E o \in Clients \ {c} : pc[o] \in Starting)
    /\ current' = 0
    /\ Goto(c, "restop", current)
    /\ UNCHANGED <<devices, taskVars, stops>>

\* ... set the flag and abort the task, after unlocking.
Signal(c) ==
    /\ pc[c] \in {"stop", "restop"}
    /\ stopped' = stopped \cup ({reg[c]} \ {0})
    /\ Goto(c, IF pc[c] = "stop" THEN "idle" ELSE "spawn", 0)
    /\ UNCHANGED <<current, devices, tpc, hand, robbed, scans, stops, overlap>>

\* start_scan spawns the task, which runs from then on ...
Spawn(c) ==
    /\ pc[c] = "spawn"
    /\ LET t == Cardinality({u \in Scan : tpc[u] # "unborn"}) + 1
       IN  Goto(c, "store", t) /\ TaskGoto(t, "setup")
    /\ UNCHANGED <<current, devices, hand, stopped, robbed, scans, stops, overlap>>

\* ... and stores its fields under the lock.
Store(c) ==
    /\ pc[c] = "store"
    /\ current' = reg[c]
    /\ devices' = {}
    /\ Goto(c, "idle", 0)
    /\ UNCHANGED <<taskVars, scans, stops, overlap>>

-----------------------------------------------------------------------------
(***************************************************************************)
(* The scan task.  It waits at "setup" (power on, start discovery), at     *)
(* "select" and at "name".                                                 *)
(***************************************************************************)
\* The adapter is missing or refuses: the task returns and resets nothing.
SetupFails(t) ==
    /\ tpc[t] = "setup"
    /\ TaskGoto(t, "done")
    /\ UNCHANGED <<current, devices, clientVars, hand, stopped, robbed, scans, stops, overlap>>
SetupEnds(t) ==
    /\ tpc[t] = "setup"
    /\ TaskGoto(t, "top")
    /\ UNCHANGED <<current, devices, clientVars, hand, stopped, robbed, scans, stops, overlap>>

\* The head of the loop.
BadCheckFlag(t) ==
    /\ tpc[t] = "top"
    /\ TaskGoto(t, "select")
    /\ UNCHANGED <<current, devices, clientVars, hand, stopped, robbed, scans, stops, overlap>>
CheckFlag(t) ==
    /\ tpc[t] = "top"
    /\ TaskGoto(t, IF t \in stopped THEN "last" ELSE "select")
    /\ UNCHANGED <<current, devices, clientVars, hand, stopped, robbed, scans, stops, overlap>>

\* The 100 ms are over, or there is an event of no interest.
Pause(t) ==
    /\ tpc[t] = "select"
    /\ TaskGoto(t, "top")
    /\ UNCHANGED <<current, devices, clientVars, hand, stopped, robbed, scans, stops, overlap>>

\* DeviceAdded: ask for the device's name; DeviceRemoved: no need to.
Event(t, d, l) ==
    /\ tpc[t] = "select"
    /\ hand' = [hand EXCEPT ![t] = {d}]
    /\ TaskGoto(t, l)
    /\ UNCHANGED <<current, devices, clientVars, stopped, robbed, scans, stops, overlap>>
Named(t) ==
    /\ tpc[t] = "name"
    /\ TaskGoto(t, "add")
    /\ UNCHANGED <<current, devices, clientVars, hand, stopped, robbed, scans, stops, overlap>>

\* The list changes under the lock; no other task is consulted.
ChangeList(t) ==
    /\ tpc[t] \in {"add", "remove"}
    /\ devices' = IF tpc[t] = "add" THEN devices \cup hand[t] ELSE devices \ hand[t]
    /\ hand' = [hand EXCEPT ![t] = {}]
    /\ TaskGoto(t, "top")
    /\ UNCHANGED <<current, clientVars, stopped, robbed, scans, stops, overlap>>

\* The event stream ends, because the adapter is gone.
StreamEnds(t) ==
    /\ tpc[t] = "select"
    /\ TaskGoto(t, "last")
    /\ UNCHANGED <<current, devices, clientVars, hand, stopped, robbed, scans, stops, overlap>>

\* The last step resets both fields.
Finish(t) ==
    /\ tpc[t] = "last"
    /\ current' = 0
    /\ robbed' = robbed \cup ({current} \ {0, t})
    /\ TaskGoto(t, "done")
    /\ UNCHANGED <<devices, clientVars, hand, stopped, scans, stops, overlap>>

\* The abort takes effect where the task waits, or before it runs at all.
Cancelled(t) ==
    /\ t \in stopped /\ tpc[t] \in {"setup", "select", "name"}
    /\ hand' = [hand EXCEPT ![t] = {}]
    /\ TaskGoto(t, "done")
    /\ UNCHANGED <<current, devices, clientVars, stopped, robbed, scans, stops, overlap>>

-----------------------------------------------------------------------------
Init ==
    /\ current = 0 /\ devices = {} /\ scans = 0 /\ stops = 0 /\ overlap = FALSE
    /\ pc = [c \in Clients |-> "idle"] /\ reg = [c \in Clients |-> 0]
    /\ tpc = [t \in Scan |-> "unborn"] /\ hand = [t \in Scan |-> {}]
    /\ stopped = {} /\ robbed = {}

Begin(c) == StopScan(c) \/ StartScan(c)
Continue(c) == Signal(c) \/ Spawn(c) \/ Store(c)
Turn(t) == \/ SetupFails(t) \/ SetupEnds(t) \/ CheckFlag(t) \/ Pause(t)
           \/ \E d \in Devices : Event(t, d, "name") \/ Event(t, d, "remove")
           \/ Named(t) \/ ChangeList(t) \/ StreamEnds(t) \/ Finish(t) \/ Cancelled(t)

Next == \/ \E c \in Clients : Begin(c) \/ Continue(c)
        \/ \E t \in Scan : Turn(t)

Spec == Init /\ [][Next]_vars

\* Threads and tasks keep running.
Fairness == /\ \A c \in Clients : WF_vars(Continue(c))
            /\ \A t \in Scan : WF_vars(Turn(t))
FairSpec == Spec /\ Fairness

-----------------------------------------------------------------------------
(***************************************************************************)
(* Properties                                                              *)
(***************************************************************************)
\* A running scan can be stopped: the state or a caller holds its handle, or it was
\* stopped.  The two ways to lose one are a stopped scan that resets the fields of its
\* successor, and two overlapping calls of start_scan.
Running(t) == tpc[t] \notin {"unborn", "done"}
Stoppable(t) == \/ t \in stopped \/ current = t
                \/ \E c \in Clients : reg[c] = t
Orphan(t) == Running(t) /\ tpc[t] # "last" /\ ~Stoppable(t)
OrphanOnlyByRace ==
    \A t \in Scan : Orphan(t) /\ ~overlap => t \in robbed

\* A scan that was stopped ends, whatever it was doing.
StoppedEnds == \A t \in Scan : t \in stopped ~> tpc[t] = "done"
=============================================================================
