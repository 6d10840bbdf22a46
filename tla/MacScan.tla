------------------------------ MODULE MacScan ------------------------------
(***************************************************************************)
(* Discovery of the macOS backend (src/macos/implementation.rs): an        *)
(* inquiry that is started again whenever it completes, until the scan is  *)
(* stopped.  Calls, the callbacks of IOBluetooth and the posted restart    *)
(* all run on the main run loop, so each is one step.                      *)
(*                                                                         *)
(* connecting is MainThreadState.connections, which this module only       *)
(* reads: it belongs to whoever composes the module with the connections.  *)
(* Inquiries are numbered as they are created; the number stands for the   *)
(* object's identity.                                                      *)
(*                                                                         *)
(* A definition whose name begins with Bad is the definition after it with *)
(* a mistake in it; the runs check that a property notices.                *)
(***************************************************************************)
EXTENDS Naturals

CONSTANTS
    MaxScans,      \* bound: calls of start_scan
    MaxInquiries   \* bound: inquiries created

ASSUME ScanBoundsAssumption == MaxScans \in Nat /\ MaxInquiries \in Nat

VARIABLES
    running,    \* scan_loop_running
    inquiry,    \* MainThreadState.inquiry: its number, or 0
    restarts,   \* restart blocks posted to the main queue
    reporting,  \* inquiries that IOBluetooth may still call back about
    scans,      \* calls of start_scan that were accepted so far
    inquiries,  \* inquiries created so far
    first,      \* the number of the first inquiry of the last scan
    foreign     \* whether scanned_devices has an entry found for an earlier scan

scanVars == <<running, inquiry, restarts, reporting, scans, inquiries, first, foreign>>

ScanInit ==
    /\ running = FALSE /\ inquiry = 0 /\ restarts = 0 /\ reporting = {}
    /\ scans = 0 /\ inquiries = 0 /\ first = 1 /\ foreign = FALSE

-----------------------------------------------------------------------------
\* stop_scan: an inquiry that is told to stop completes later, as aborted.
BadStopScan ==
    /\ running' = FALSE
    /\ UNCHANGED <<inquiry, restarts, reporting, scans, inquiries, first, foreign>>
StopScan ==
    /\ running' = FALSE /\ inquiry' = 0
    /\ UNCHANGED <<restarts, reporting, scans, inquiries, first, foreign>>

\* start_inquiry, with no inquiry in the state: the new one is stored, and is taken
\* out again when it does not start.
StartInquiry(ok) ==
    /\ inquiries < MaxInquiries
    /\ inquiries' = inquiries + 1
    /\ IF ok THEN /\ inquiry' = inquiries + 1
                  /\ reporting' = reporting \cup {inquiries + 1}
             ELSE inquiry' = 0 /\ UNCHANGED reporting

\* start_scan stops the scan under way, even when it then refuses to start one.
StartScan(connecting, ok) ==
    /\ scans < MaxScans
    /\ IF connecting # {}
       THEN ok = FALSE /\ StopScan
       ELSE /\ scans' = scans + 1 /\ first' = inquiries + 1 /\ foreign' = FALSE
            /\ StartInquiry(ok)
            /\ running' = ok
            /\ UNCHANGED restarts

\* deviceInquiryDeviceFound
BadFound(i) ==
    /\ i \in reporting
    /\ foreign' = (foreign \/ i < first)
    /\ UNCHANGED <<running, inquiry, restarts, reporting, scans, inquiries, first>>
Found(i) ==
    /\ i \in reporting
    /\ foreign' = (foreign \/ (i = inquiry /\ i < first))
    /\ UNCHANGED <<running, inquiry, restarts, reporting, scans, inquiries, first>>

\* deviceInquiryComplete, of the current inquiry or of one that was stopped
Complete(i, good) ==
    /\ i \in reporting
    /\ reporting' = reporting \ {i}
    /\ IF i = inquiry
       THEN /\ inquiry' = 0
            /\ running' = (running /\ good)
            /\ restarts' = IF running /\ good THEN restarts + 1 ELSE restarts
       ELSE UNCHANGED <<inquiry, running, restarts>>
    /\ UNCHANGED <<scans, inquiries, first, foreign>>

\* The posted restart: nothing if the scan was stopped, or if a later scan has its
\* inquiry already.
BadRestart(ok) ==
    /\ restarts > 0
    /\ restarts' = restarts - 1
    /\ IF inquiry = 0
       THEN StartInquiry(ok) /\ UNCHANGED running
       ELSE UNCHANGED <<running, inquiry, reporting, inquiries>>
    /\ UNCHANGED <<scans, first, foreign>>
Restart(ok) ==
    /\ restarts > 0
    /\ restarts' = restarts - 1
    /\ IF running /\ inquiry = 0
       THEN StartInquiry(ok) /\ running' = ok
       ELSE UNCHANGED <<running, inquiry, reporting, inquiries>>
    /\ UNCHANGED <<scans, first, foreign>>

\* What IOBluetooth and the main queue do.
ScanSystem == \/ \E i \in reporting : Found(i) \/ \E good \in BOOLEAN : Complete(i, good)
              \/ \E ok \in BOOLEAN : Restart(ok)

-----------------------------------------------------------------------------
\* scan_loop_running tells the truth: a scan that runs has an inquiry that will
\* complete or a restart that is posted, and there is no inquiry without a scan.
ScanGoesOn ==
    /\ running => inquiry \in reporting \/ (inquiry = 0 /\ restarts > 0)
    /\ inquiry # 0 => running

\* "A delayed completion from a stopped scan must not clear its successor", and its
\* reports do not get into the successor's list.
ListIsOfThisScan == ~foreign
=============================================================================
