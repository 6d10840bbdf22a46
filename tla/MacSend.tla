------------------------------ MODULE MacSend ------------------------------
(***************************************************************************)
(* Asynchronous transmission of the macOS backend                          *)
(* (src/macos/implementation.rs): send_impl on the callers' threads, the   *)
(* pump and the write completions on the main run loop, for one device.    *)
(*                                                                         *)
(* A payload is a number of chunks of one MTU; `wire` is the byte stream   *)
(* the stack accepted for the present session.  How a session comes to be  *)
(* open is the subject of MacConnection: here it is one step, Open.        *)
(* A turn of the pump is several steps, two per writeAsync, the           *)
(* reservation before the call and what is done with its result, because   *)
(* completions and other callbacks may be delivered from inside the call;  *)
(* no other block runs on the main run loop meanwhile.  Posted blocks run  *)
(* in any order, which includes the order the queue and the delays give.   *)
(*                                                                         *)
(* A definition whose name begins with Bad is the definition after it with *)
(* a mistake in it; the runs check that a property notices.                *)
(***************************************************************************)
EXTENDS Naturals, Sequences, FiniteSets

CONSTANTS
    Threads,        \* callers' threads
    Sizes,          \* payload lengths, in chunks
    MaxInFlight,    \* RFCOMM_ASYNC_MAX_IN_FLIGHT (8 in the code)
    WritesPerTurn,  \* RFCOMM_WRITES_PER_TURN (4 in the code)
    MaxSends,       \* bound: accepted sends
    MaxSessions     \* bound: sessions opened

ASSUME SizesAssumption == Sizes \subseteq Nat \ {0}
ASSUME LimitsAssumption == MaxInFlight \in Nat \ {0} /\ WritesPerTurn \in Nat \ {0}

VARIABLES
    session,      \* the open RfcommSession, generation 0 if there is none
    retiring,     \* generation, send id and in_flight of the sessions in retiring
    posted,       \* blocks posted to the main queue
    turn,         \* the running turn of the pump: generation, writes left, and the
                  \* send and the offset it has reserved a write for (send 0: none)
    alive,        \* generations whose channel has not closed by itself
    outstanding,  \* writes whose buffer the stack owns
    wire,         \* the chunks the stack accepted for the session, in order
    acked,        \* the chunks whose write completed without an error
    pc, mine,     \* per thread: where it is in send_impl, and its send
    result,       \* per thread: what completion_tx sent it
    sends, opens  \* counted against the bounds; the identifiers in use

sessionVars == <<session, retiring, posted, turn>>
stackVars   == <<alive, outstanding, wire, acked>>
threadVars  == <<pc, mine, result>>
vars == <<sessionVars, stackVars, threadVars, sends, opens>>

-----------------------------------------------------------------------------
NoSend    == [id |-> 0, total |-> 0, next |-> 0, inFlight |-> 0]
NoSession == [gen |-> 0, failed |-> FALSE, scheduled |-> FALSE, send |-> NoSend]
NoTurn    == [gen |-> 0, left |-> 0, id |-> 0, offset |-> 0]
NoWork    == [gen |-> 0, id |-> 0, total |-> 0]

B(kind, g) == [kind |-> kind, gen |-> g]

HasSession == session.gen # 0
Sending    == session.send.id # 0
Idle       == turn = NoTurn        \* the main run loop can run a block
Calling    == turn.id # 0          \* the pump is inside writeAsync
Reserved   == IF Calling THEN 1 ELSE 0
NewTurn(g) == [NoTurn EXCEPT !.gen = g, !.left = WritesPerTurn]
Less(n)    == IF n = 0 THEN 0 ELSE n - 1                      \* saturating_sub(1)

\* completion_tx.send(r): only the thread that waits for this send hears it.
Notify(id, r) == [t \in Threads |-> IF pc[t] # "idle" /\ mine[t].id = id
                                    THEN r ELSE result[t]]

\* schedule_pump for session s
MayPump(s)  == ~s.failed /\ ~s.scheduled /\ s.send.id # 0
Pumping(s)  == IF MayPump(s) THEN [s EXCEPT !.scheduled = TRUE] ELSE s
PumpOf(s)   == IF MayPump(s) THEN {B("pump", s.gen)} ELSE {}
SchedulePump(s, running) ==
    session' = Pumping(s) /\ posted' = (posted \ running) \cup PumpOf(s)

\* fail_session_later for session s
FailLater(s, running) ==
    /\ session' = IF s.failed THEN s ELSE [s EXCEPT !.failed = TRUE]
    /\ posted' = (posted \ running) \cup (IF s.failed THEN {} ELSE {B("fail", s.gen)})

-----------------------------------------------------------------------------
(***************************************************************************)
(* close_session.  A pending send is told of the failure; the session goes *)
(* to retiring before closeChannel is called and stays there if closing    *)
(* failed while writes are in flight.  A channel that did close owns no    *)
(* buffer any more.                                                        *)
(***************************************************************************)
Kept(closed) == HasSession /\ ~closed /\ session.send.inFlight # 0

CloseSession(alreadyClosed) ==
    /\ session' = NoSession
    /\ result' = IF Sending THEN Notify(session.send.id, "err") ELSE result
    /\ \E closed \in IF alreadyClosed THEN {TRUE} ELSE BOOLEAN :
          LET kept == Kept(closed)
          IN  /\ retiring' = IF kept
                             THEN retiring \cup {[gen |-> session.gen,
                                                  id |-> session.send.id,
                                                  inFlight |-> session.send.inFlight]}
                             ELSE retiring
              /\ alive' = IF kept THEN alive ELSE alive \ {session.gen}
              /\ outstanding' = IF closed THEN {w \in outstanding : w.gen # session.gen}
                                ELSE outstanding

\* release_retiring_session
ReleaseRetiring(g) ==
    /\ retiring' = {r \in retiring : r.gen # g}
    /\ alive' = IF \E r \in retiring : r.gen = g THEN alive \ {g} ELSE alive

\* A session opens: MacConnection's handle_open_complete.  connect_impl refuses
\* while a session of the device is retiring.
Open ==
    /\ Idle /\ ~HasSession /\ retiring = {} /\ opens < MaxSessions
    /\ opens' = opens + 1
    /\ session' = [NoSession EXCEPT !.gen = opens + 1]
    /\ alive' = alive \cup {opens + 1}
    /\ wire' = <<>>
    /\ UNCHANGED <<retiring, posted, turn, outstanding, acked, threadVars, sends>>

Disconnect ==
    /\ Idle /\ HasSession
    /\ CloseSession(FALSE)
    /\ UNCHANGED <<posted, turn, wire, acked, pc, mine, sends, opens>>

-----------------------------------------------------------------------------
(***************************************************************************)
(* pump_pending_rfcomm_send                                                *)
(***************************************************************************)
BadPumpStops == \/ session.gen # turn.gen \/ ~Sending
                \/ session.send.inFlight >= MaxInFlight
                \/ session.send.next = session.send.total
PumpStops == \/ session.gen # turn.gen \/ session.failed \/ ~Sending
             \/ session.send.inFlight >= MaxInFlight
             \/ session.send.next = session.send.total

\* Nothing to write, or no room: the turn ends and nothing is scheduled.
PumpReturns ==
    /\ ~Idle /\ ~Calling /\ turn.left > 0 /\ PumpStops
    /\ turn' = NoTurn
    /\ UNCHANGED <<session, retiring, posted, stackVars, threadVars, sends, opens>>

\* A write is reserved, then writeAsync is called.
PumpReserves ==
    /\ ~Idle /\ ~Calling /\ turn.left > 0 /\ ~PumpStops
    /\ turn' = [turn EXCEPT !.id = session.send.id, !.offset = session.send.next]
    /\ session' = [session EXCEPT !.send.next = @ + 1, !.send.inFlight = @ + 1]
    /\ UNCHANGED <<retiring, posted, stackVars, threadVars, sends, opens>>

\* The write is accepted; the turn may go on, unless its time is up.
PumpWrites ==
    /\ Calling /\ turn.gen \in alive
    /\ LET chunk == turn.offset + 1
       IN  /\ outstanding' = outstanding \cup {[gen |-> turn.gen, id |-> turn.id,
                                                 chunk |-> chunk]}
           /\ wire' = Append(wire, [id |-> turn.id, chunk |-> chunk,
                                    total |-> session.send.total])
    /\ \E left \in {turn.left - 1, 0} :
          turn' = [turn EXCEPT !.left = left, !.id = 0, !.offset = 0]
    /\ UNCHANGED <<session, retiring, posted, alive, acked, threadVars, sends, opens>>

\* The reservation is taken back from the send it was made for, as that is now.
BadUndone(s) == IF s.gen = turn.gen /\ ~s.failed /\ s.send.id = turn.id
                THEN [s EXCEPT !.send.next = turn.offset, !.send.inFlight = @ - 1]
                ELSE s
Undone(s) == IF s.gen = turn.gen /\ s.send.id = turn.id
             THEN [s EXCEPT !.send.next = turn.offset, !.send.inFlight = @ - 1]
             ELSE s

\* The write is refused for now, or the channel is paused: the pump comes back.
BadPumpBusy ==
    /\ Calling
    /\ turn' = NoTurn
    /\ session' = Undone(session)
    /\ UNCHANGED <<retiring, posted, stackVars, threadVars, sends, opens>>
PumpBusy ==
    /\ Calling
    /\ turn' = NoTurn
    /\ SchedulePump(Undone(session), {})
    /\ UNCHANGED <<retiring, stackVars, threadVars, sends, opens>>

\* The write fails for good.
PumpFails ==
    /\ Calling
    /\ turn' = NoTurn
    /\ FailLater(Undone(session), {})
    /\ UNCHANGED <<retiring, stackVars, threadVars, sends, opens>>

\* The turn has made its writes: the pump yields and comes back.
PumpYields ==
    /\ ~Idle /\ ~Calling /\ turn.left = 0
    /\ turn' = NoTurn
    /\ IF session.gen = turn.gen THEN SchedulePump(session, {})
                                 ELSE UNCHANGED <<session, posted>>
    /\ UNCHANGED <<retiring, stackVars, threadVars, sends, opens>>

PumpStep == PumpReturns \/ PumpReserves \/ PumpWrites \/ PumpBusy \/ PumpFails \/ PumpYields

\* The block schedule_pump posted.
RunPump(g) ==
    /\ Idle /\ B("pump", g) \in posted
    /\ posted' = posted \ {B("pump", g)}
    /\ IF session.gen = g
       THEN /\ session' = [session EXCEPT !.scheduled = FALSE]
            /\ turn' = NewTurn(g)
       ELSE UNCHANGED <<session, turn>>
    /\ UNCHANGED <<retiring, stackVars, threadVars, sends, opens>>

\* The block fail_session_later posted: fail_connection.
RunFail(g) ==
    /\ Idle /\ B("fail", g) \in posted
    /\ posted' = posted \ {B("fail", g)}
    /\ IF session.gen = g
       THEN CloseSession(FALSE)
       ELSE UNCHANGED <<session, retiring, alive, outstanding, result>>
    /\ UNCHANGED <<turn, wire, acked, pc, mine, sends, opens>>

\* The block of rfcommChannelClosed, for an open session or a retiring one.
RunClosed(g) ==
    /\ Idle /\ B("closed", g) \in posted
    /\ posted' = posted \ {B("closed", g)}
    /\ IF session.gen = g
       THEN CloseSession(TRUE)
       ELSE ReleaseRetiring(g) /\ UNCHANGED <<session, outstanding, result>>
    /\ UNCHANGED <<turn, wire, acked, pc, mine, sends, opens>>

RunRelease(g) ==
    /\ Idle /\ B("release", g) \in posted
    /\ posted' = posted \ {B("release", g)}
    /\ ReleaseRetiring(g)
    /\ UNCHANGED <<session, turn, outstanding, wire, acked, threadVars, sends, opens>>

RunBlock == \E b \in posted : \/ RunPump(b.gen) \/ RunFail(b.gen)
                              \/ RunClosed(b.gen) \/ RunRelease(b.gen)

-----------------------------------------------------------------------------
(***************************************************************************)
(* IOBluetooth                                                             *)
(***************************************************************************)
\* handle_write_complete for a write of a retiring session
BadLastWrite(r) == TRUE
LastWrite(r) == Less(r.inFlight) = 0
RetiredWriteComplete(w) ==
    /\ UNCHANGED <<session, threadVars>>
    /\ \E r \in retiring :
          /\ r.gen = w.gen
          /\ IF r.id = w.id
             THEN /\ retiring' = (retiring \ {r}) \cup {[r EXCEPT !.inFlight = Less(@)]}
                  /\ posted' = IF LastWrite(r)
                               THEN posted \cup {B("release", w.gen)} ELSE posted
             ELSE UNCHANGED <<retiring, posted>>

\* handle_write_complete for a write of the session's send
OneFewer == [session EXCEPT !.send.inFlight = Less(@)]
AllDone == session.send.next = session.send.total /\ OneFewer.send.inFlight = 0

SessionWriteComplete(ok) ==
    /\ UNCHANGED <<retiring, pc, mine>>
    /\ \/ /\ ~session.failed /\ ok /\ AllDone
          /\ session' = [session EXCEPT !.send = NoSend]
          /\ result' = Notify(session.send.id, "ok")
          /\ UNCHANGED posted
       \/ /\ ~session.failed /\ ok /\ ~AllDone
          /\ SchedulePump(OneFewer, {})
          /\ UNCHANGED result
       \/ /\ ~session.failed /\ ~ok
          /\ FailLater(OneFewer, {})
          /\ UNCHANGED result
       \/ /\ session.failed
          /\ session' = OneFewer
          /\ UNCHANGED <<posted, result>>

IsRetired(g) == \E r \in retiring : r.gen = g
WriteComplete(w, ok) ==
    /\ w \in outstanding
    /\ outstanding' = outstanding \ {w}
    /\ acked' = IF ok THEN acked \cup {[id |-> w.id, chunk |-> w.chunk]} ELSE acked
    /\ UNCHANGED <<turn, alive, wire, sends, opens>>
    /\ \/ IsRetired(w.gen) /\ RetiredWriteComplete(w)
       \/ /\ ~IsRetired(w.gen)
          /\ session.gen = w.gen /\ session.send.id = w.id
          /\ SessionWriteComplete(ok)
       \/ /\ ~IsRetired(w.gen)
          /\ ~(session.gen = w.gen /\ session.send.id = w.id)
          /\ UNCHANGED <<session, retiring, posted, threadVars>>

\* rfcommChannelQueueSpaceAvailable, rfcommChannelFlowControlChanged
QueueSpace ==
    /\ HasSession /\ session.gen \in alive /\ MayPump(session)
    /\ SchedulePump(session, {})
    /\ UNCHANGED <<retiring, turn, stackVars, threadVars, sends, opens>>

\* The channel closes by itself and gives up its buffers.
ChannelClosed(g) ==
    /\ g \in alive
    /\ alive' = alive \ {g}
    /\ outstanding' = {w \in outstanding : w.gen # g}
    /\ posted' = posted \cup {B("closed", g)}
    /\ UNCHANGED <<session, retiring, turn, wire, acked, threadVars, sends, opens>>

Stack == \/ \E w \in outstanding, ok \in BOOLEAN : WriteComplete(w, ok)
         \/ \E g \in alive : ChannelClosed(g)
         \/ QueueSpace

-----------------------------------------------------------------------------
(***************************************************************************)
(* send_impl on thread t.  A call that is refused (no open session, or a   *)
(* send already in progress) changes nothing.                              *)
(***************************************************************************)
Begin(t) ==
    /\ pc[t] = "idle" /\ Idle
    /\ HasSession /\ ~session.failed /\ ~Sending
    /\ sends < MaxSends
    /\ sends' = sends + 1
    /\ \E n \in Sizes :
          /\ session' = [session EXCEPT !.send = [NoSend EXCEPT !.id = sends + 1,
                                                                !.total = n]]
          /\ mine' = [mine EXCEPT ![t] = [gen |-> session.gen, id |-> sends + 1,
                                          total |-> n]]
    /\ turn' = NewTurn(session.gen)
    /\ pc' = [pc EXCEPT ![t] = "waiting"]
    /\ result' = [result EXCEPT ![t] = "none"]
    /\ UNCHANGED <<retiring, posted, stackVars, opens>>

Receive(t) ==
    /\ pc[t] = "waiting" /\ result[t] # "none"
    /\ pc' = [pc EXCEPT ![t] = "idle"]
    /\ UNCHANGED <<sessionVars, stackVars, mine, result, sends, opens>>

\* RFCOMM_ASYNC_SEND_TIMEOUT passes without an answer.
TimeOut(t) ==
    /\ pc[t] = "waiting" /\ result[t] = "none"
    /\ pc' = [pc EXCEPT ![t] = "timedOut"]
    /\ UNCHANGED <<sessionVars, stackVars, mine, result, sends, opens>>

\* The block a timed-out send runs: fail_connection if its send is still pending.
StillPending(t) == session.gen = mine[t].gen /\ session.send.id = mine[t].id
Abort(t) ==
    /\ pc[t] = "timedOut" /\ Idle
    /\ pc' = [pc EXCEPT ![t] = "idle"]
    /\ IF StillPending(t)
       THEN CloseSession(FALSE)
       ELSE UNCHANGED <<session, retiring, alive, outstanding, result>>
    /\ UNCHANGED <<posted, turn, wire, acked, mine, sends, opens>>

Callers == Disconnect \/ \E t \in Threads : Begin(t) \/ Receive(t) \/ TimeOut(t) \/ Abort(t)

-----------------------------------------------------------------------------
Init ==
    /\ session = NoSession /\ retiring = {} /\ posted = {} /\ turn = NoTurn
    /\ alive = {} /\ outstanding = {} /\ wire = <<>> /\ acked = {}
    /\ pc = [t \in Threads |-> "idle"]
    /\ mine = [t \in Threads |-> NoWork]
    /\ result = [t \in Threads |-> "none"]
    /\ sends = 0 /\ opens = 0

Next == Open \/ PumpStep \/ RunBlock \/ Stack \/ Callers

Spec == Init /\ [][Next]_vars

-----------------------------------------------------------------------------
(***************************************************************************)
(* Properties                                                              *)
(***************************************************************************)

\* The byte stream of a session is whole payloads, each once and in order; only the
\* last may be cut.  A send that timed out or failed half way is never followed by
\* another payload on the same stream ("do not reuse the byte stream").
StreamIntact ==
    \A i \in 1..Len(wire) :
        IF wire[i].chunk = 1
        THEN i > 1 => wire[i - 1].chunk = wire[i - 1].total
        ELSE /\ i > 1
             /\ wire[i - 1].id = wire[i].id
             /\ wire[i].chunk = wire[i - 1].chunk + 1

\* send() answers Ok only when every chunk of its payload was written and every
\* one of these writes completed without an error.
OkMeansDelivered ==
    \A t \in Threads : result[t] = "ok" =>
        \A k \in 1..mine[t].total : [id |-> mine[t].id, chunk |-> k] \in acked

\* in_flight is the number of writes the stack owns, and one more from the moment a
\* write is reserved to the result of writeAsync, whatever completions are delivered in
\* between and whether or not the reservation is taken back; taking it back never goes
\* below zero.  Failed closes keep the number, until the channel closes by itself; it
\* never exceeds RFCOMM_ASYNC_MAX_IN_FLIGHT.
InFlightExact ==
    /\ session.send.inFlight \in Reserved..MaxInFlight
    /\ session.gen \in alive =>
          session.send.inFlight =
              Cardinality({w \in outstanding : w.gen = session.gen}) + Reserved
    /\ \A r \in retiring : r.gen \in alive =>
          r.inFlight = Cardinality({w \in outstanding : w.gen = r.gen})

\* While the stack owns a buffer, the payload it points into is kept: its send is
\* the pending send of the session or of a retiring session.
BuffersKept ==
    \A w \in outstanding :
        \/ session.gen = w.gen /\ session.send.id = w.id
        \/ \E r \in retiring : r.gen = w.gen /\ r.id = w.id

\* A pending send of a healthy session is never forgotten by the pump: a turn is
\* running, one is posted, or a completion that will post one is to come.  Turns are
\* coalesced by pump_scheduled, which is set exactly while one is posted; the teardown
\* of a failed session is posted.
PumpNotLost ==
    /\ Sending /\ ~session.failed =>
          \/ turn.gen = session.gen
          \/ B("pump", session.gen) \in posted
          \/ session.send.inFlight > 0
    /\ session.scheduled <=> HasSession /\ B("pump", session.gen) \in posted
    /\ session.failed => B("fail", session.gen) \in posted

\* The transmission implements the abstract stream of payloads: what a caller waits for
\* is its work, the session's send the payload under way; the window, the turns, the
\* posted blocks and the buffers of retiring sessions cannot be seen from outside.  So
\* a caller hears "ok" by the completion of its last chunk, "err" by the end of the
\* session, and no other way; a failed session is offered no chunk; and when send
\* returns its payload is not written any further.  A reserved chunk is one that is
\* offered, and written when the stack has accepted it.
Link == IF ~HasSession THEN "closed" ELSE IF session.failed THEN "broken" ELSE "open"
Work == [t \in Threads |-> IF pc[t] = "idle" THEN 0 ELSE mine[t].id]
Accepted == IF Calling THEN turn.offset ELSE session.send.next
Confirmed == {k \in 1..Accepted : [id |-> session.send.id, chunk |-> k] \in acked}
Job == [id |-> session.send.id, size |-> session.send.total, written |-> Accepted,
        offered |-> Reserved, confirmed |-> Confirmed]

Payload == INSTANCE PayloadStream WITH Callers <- Threads, link <- Link, job <- Job,
              stream <- wire, work <- Work, answer <- result, accepted <- sends
ImplementsStream == Payload!StreamSpec
=============================================================================
