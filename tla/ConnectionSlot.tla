--------------------------- MODULE ConnectionSlot ---------------------------
(***************************************************************************)
(* What the connection management of a backend promises, whatever protocol *)
(* it runs underneath: a device is idle, connecting or connected; a device *)
(* becomes connected only from connecting; and one attempt is under way at *)
(* a time, so that only the device whose attempt it is can become          *)
(* connected or hand the slot on.                                          *)
(***************************************************************************)
CONSTANTS Addr, NoAddr

VARIABLES status,   \* addr -> "idle", "connecting" or "connected"
          attempt   \* the device whose attempt is under way, or NoAddr

slotVars == <<status, attempt>>

SlotInit == status = [a \in Addr |-> "idle"] /\ attempt = NoAddr

\* A caller asks for a connection.
Request(a) ==
    /\ status[a] = "idle"
    /\ status' = [status EXCEPT ![a] = "connecting"]
    /\ UNCHANGED attempt

\* The free slot is given to a device that waits for it.
Begin(a) ==
    /\ attempt = NoAddr /\ status[a] = "connecting"
    /\ attempt' = a
    /\ UNCHANGED status

\* The attempt is put back behind those of the other devices.
Yield == attempt # NoAddr /\ attempt' = NoAddr /\ UNCHANGED status

\* A device connects: the slot is its own, or free and taken only for this step.
Establish(a) ==
    /\ attempt \in {a, NoAddr} /\ status[a] = "connecting"
    /\ status' = [status EXCEPT ![a] = "connected"]
    /\ attempt' = NoAddr

\* A connection, or the attempt to make one, is over for good; the slot is freed
\* if it was that device's.
End(a) ==
    /\ status[a] # "idle"
    /\ status' = [status EXCEPT ![a] = "idle"]
    /\ attempt' = IF attempt = a THEN NoAddr ELSE attempt

\* Everything is shut down.
Shutdown == status' = [a \in Addr |-> "idle"] /\ attempt' = NoAddr

SlotNext == \/ \E a \in Addr : Request(a) \/ Begin(a) \/ Establish(a) \/ End(a)
            \/ Yield \/ Shutdown

SlotSpec == SlotInit /\ [][SlotNext]_slotVars
=============================================================================
