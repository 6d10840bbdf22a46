---------------------------- MODULE MacListener ----------------------------
(***************************************************************************)
(* How the macOS backend (src/macos/implementation.rs) delivers received   *)
(* data, connection events and errors to the application, for one device:  *)
(* callbacks of IOBluetooth and posted blocks on the main run loop, one    *)
(* worker thread per data listener, one thread per connected callback, and *)
(* the application's threads that register both.                           *)
(*                                                                         *)
(* The main queue is first in, first out, and the main thread calls the    *)
(* blocks it found there before it turns to IOBluetooth again (left counts *)
(* those it still has to call).  Sessions are numbered by generation, data *)
(* in the order in which they arrive.                                      *)
(*                                                                         *)
(* A definition whose name begins with Bad is the definition after it with *)
(* a mistake in it; the runs check that a property notices.                *)
(***************************************************************************)
EXTENDS Naturals, Sequences, SequencesExt

CONSTANTS
    MaxSessions,   \* bound: sessions
    MaxData,       \* bound: data callbacks
    MaxListeners   \* bound: calls of set_data_listener

ASSUME BoundsAssumption == MaxSessions \in Nat /\ MaxData \in Nat /\ MaxListeners \in Nat

Gen    == 1..MaxSessions
Worker == 1..MaxListeners

VARIABLES
    pending,    \* connections holds the device
    session,    \* its RfcommSession, generation 0 if there is none
    sessions,   \* sessions so far; the identifiers in use
    channel,    \* the generation of the channel that calls its delegate, or 0, and
                \* whether it has said how its open ended
    sent,       \* data callbacks so far
    posted,     \* the main queue
    left,       \* blocks of it that are called before the next callback
    listener,   \* data_listeners: the worker that has the receiver, or 0
    callback,   \* whether on_connected_callbacks has one
    inbox,      \* per worker: events in its channel
    running,    \* workers whose thread runs
    last,       \* per worker: what its listener was called with last
    workers     \* workers so far

mainVars   == <<pending, session, sessions>>
nativeVars == <<channel, sent>>
queueVars  == <<posted, left>>
sharedVars == <<listener, callback>>
workerVars == <<running, last, workers>>
vars == <<mainVars, nativeVars, queueVars, sharedVars, inbox, workerVars>>

-----------------------------------------------------------------------------
\* heard: whether the thread of notify_connected has its call before it or behind it.  A
\* thread whose session is not active any more calls nothing.
NoSession == [gen |-> 0, opened |-> FALSE, failed |-> FALSE, heard |-> "no"]
NewSession(g) == [NoSession EXCEPT !.gen = g]
NoChannel == [gen |-> 0, answered |-> FALSE]
Event(g, n) == [gen |-> g, n |-> n]     \* ReceivedData; those of generation 0 are no data
Nothing     == Event(0, 0)
Closed      == Event(0, 1)              \* active: None, data: Err(error)
B(kind, g, n) == [kind |-> kind, gen |-> g, n |-> n]

IsCurrent(g) == session.gen = g                     \* session_matches
Active(g)    == IsCurrent(g) /\ ~session.failed     \* the session's active flag

\* IOBluetooth calls the delegate between two turns of the queue.
Callback == left = 0

Post(b)  == posted' = Append(posted, b) /\ UNCHANGED left
Takes(b) == /\ posted # <<>> /\ Head(posted) = b
            /\ posted' = Tail(posted)
            /\ left' = (IF left = 0 THEN Len(posted) ELSE left) - 1

\* Sending to worker w, if there is one.  The sender is fetched under the lock and used
\* after it; a listener registered in between does not change what the old one gets.
SendTo(w, e) == inbox' = IF w = 0 THEN inbox ELSE [inbox EXCEPT ![w] = Append(@, e)]

\* close_session: if closeChannel fails and native writes are out, the delegate is kept
\* until they are back.
CloseSession ==
    /\ session' = NoSession
    /\ \/ channel' = IF channel.gen = session.gen THEN NoChannel ELSE channel
       \/ session.opened /\ UNCHANGED channel

\* clear_device_state takes the listener out, and tells it of the error if there is one.
BadClear(error) ==
    /\ callback' = FALSE /\ UNCHANGED listener
    /\ IF error THEN SendTo(listener, Closed) ELSE UNCHANGED inbox
BadClearUntold(error) == callback' = FALSE /\ listener' = 0 /\ UNCHANGED inbox
Clear(error) ==
    /\ callback' = FALSE /\ listener' = 0
    /\ IF error THEN SendTo(listener, Closed) ELSE UNCHANGED inbox

\* fail_connection
FailConnection ==
    /\ CloseSession /\ Clear(TRUE)
    /\ pending' = FALSE

-----------------------------------------------------------------------------
(***************************************************************************)
(* Connections, as far as they matter here                                 *)
(***************************************************************************)
\* connect, when there is neither a connection nor a retiring session
Connect ==
    /\ ~pending /\ session.gen = 0 /\ channel.gen = 0
    /\ pending' = TRUE
    /\ UNCHANGED <<session, sessions, nativeVars, queueVars, sharedVars, inbox, workerVars>>

\* handle_open_complete with success, for session s: notify_connected
Open(s) ==
    /\ session' = [s EXCEPT !.opened = TRUE,
                            !.heard = IF pending /\ callback THEN "due" ELSE @]
    /\ pending' = FALSE

\* try_next_channel: the channel may be open when it is returned.
TryChannel ==
    /\ pending /\ session.gen = 0 /\ sessions < MaxSessions
    /\ sessions' = sessions + 1
    /\ channel' = [gen |-> sessions', answered |-> FALSE]
    /\ \/ session' = NewSession(sessions') /\ UNCHANGED pending
       \/ Open(NewSession(sessions'))
    /\ UNCHANGED <<sent, queueVars, sharedVars, inbox, workerVars>>

\* After an open timeout another channel is tried, or the connection fails.
Retry ==
    /\ pending /\ session.gen # 0
    /\ CloseSession
    /\ UNCHANGED <<pending, sessions, sent, queueVars, sharedVars, inbox, workerVars>>
GiveUp ==
    /\ pending
    /\ FailConnection
    /\ UNCHANGED <<sessions, sent, queueVars, workerVars>>

\* disconnect and disconnect_all tell the listener nothing.
Disconnect ==
    /\ CloseSession /\ Clear(FALSE)
    /\ pending' = FALSE
    /\ UNCHANGED <<sessions, sent, queueVars, workerVars>>

-----------------------------------------------------------------------------
(***************************************************************************)
(* IOBluetooth calls the delegate of channel.gen                           *)
(***************************************************************************)
Deliver(g, n) == IF Active(g) THEN SendTo(listener, Event(g, n)) ELSE UNCHANGED inbox

\* rfcommChannelData: the data of a session that has not opened yet wait their turn in
\* the main queue.
DataReceived ==
    /\ Callback /\ channel.gen # 0 /\ sent < MaxData
    /\ sent' = sent + 1
    /\ IF IsCurrent(channel.gen) /\ session.opened
       THEN Deliver(channel.gen, sent') /\ UNCHANGED queueVars
       ELSE Post(B("data", channel.gen, sent')) /\ UNCHANGED inbox
    /\ UNCHANGED <<mainVars, channel, sharedVars, workerVars>>

\* rfcommChannelOpenComplete only posts.
BadOpenComplete(kind) ==
    /\ Callback /\ channel.gen # 0 /\ ~channel.answered
    /\ channel' = [channel EXCEPT !.answered = TRUE]
    /\ kind = "opened" /\ IsCurrent(channel.gen) /\ ~session.opened
    /\ Open(session)
    /\ UNCHANGED <<sessions, sent, queueVars, sharedVars, inbox, workerVars>>
OpenComplete(kind) ==
    /\ Callback /\ channel.gen # 0 /\ ~channel.answered
    /\ channel' = [channel EXCEPT !.answered = TRUE]
    /\ Post(B(kind, channel.gen, 0))
    /\ UNCHANGED <<mainVars, sent, sharedVars, inbox, workerVars>>

ChannelClosed ==
    /\ Callback /\ channel.gen # 0
    /\ channel' = NoChannel
    /\ Post(B("closed", channel.gen, 0))
    /\ UNCHANGED <<mainVars, sent, sharedVars, inbox, workerVars>>

\* A write fails: fail_session_later.
WriteFails ==
    /\ Callback /\ session.opened /\ ~session.failed
    /\ session' = [session EXCEPT !.failed = TRUE]
    /\ Post(B("fail", session.gen, 0))
    /\ UNCHANGED <<pending, sessions, nativeVars, sharedVars, inbox, workerVars>>

\* The last write of a retiring session is back: release_retiring_session.
ReleaseRetiring ==
    /\ channel.gen # 0 /\ ~IsCurrent(channel.gen)
    /\ channel' = NoChannel
    /\ UNCHANGED <<mainVars, sent, queueVars, sharedVars, inbox, workerVars>>

-----------------------------------------------------------------------------
(***************************************************************************)
(* Posted blocks                                                           *)
(***************************************************************************)
RunData(g, n) ==
    /\ Takes(B("data", g, n))
    /\ Deliver(g, n)
    /\ UNCHANGED <<mainVars, nativeVars, sharedVars, workerVars>>

RunOpened(g) ==
    /\ Takes(B("opened", g, 0))
    /\ IF IsCurrent(g) /\ ~session.opened
       THEN Open(session) ELSE UNCHANGED <<session, pending>>
    /\ UNCHANGED <<sessions, nativeVars, sharedVars, inbox, workerVars>>
RunOpenFailed(g) ==
    /\ Takes(B("refused", g, 0))
    /\ IF IsCurrent(g) /\ ~session.opened
       THEN CloseSession ELSE UNCHANGED <<session, channel>>
    /\ UNCHANGED <<pending, sessions, sent, sharedVars, inbox, workerVars>>

\* A session that closes while its connection is being made is tried again.
RunClosed(g) ==
    /\ Takes(B("closed", g, 0))
    /\ IF IsCurrent(g) THEN session' = NoSession ELSE UNCHANGED session
    /\ IF IsCurrent(g) /\ ~pending
       THEN Clear(TRUE)
       ELSE UNCHANGED <<sharedVars, inbox>>
    /\ UNCHANGED <<pending, sessions, nativeVars, workerVars>>
RunFail(g) ==
    /\ Takes(B("fail", g, 0))
    /\ IF IsCurrent(g)
       THEN FailConnection
       ELSE UNCHANGED <<pending, session, channel, sharedVars, inbox>>
    /\ UNCHANGED <<sessions, sent, workerVars>>

-----------------------------------------------------------------------------
(***************************************************************************)
(* The application's threads, the workers and the callback threads         *)
(***************************************************************************)
OnConnected ==
    /\ ~callback
    /\ callback' = TRUE
    /\ UNCHANGED <<mainVars, nativeVars, queueVars, listener, inbox, workerVars>>

\* set_data_listener starts a worker and replaces the old one's sender.
SetDataListener ==
    /\ workers < MaxListeners
    /\ workers' = workers + 1 /\ listener' = workers + 1
    /\ running' = running \cup {workers + 1}
    /\ UNCHANGED <<mainVars, nativeVars, queueVars, callback, inbox, last>>

\* The worker takes an event, skips it if it is of a session that is not active any
\* more, and else calls the listener; it ends with the error.  While a listener is busy
\* the worker's next step is late.
Receive(w) ==
    /\ w \in running /\ inbox[w] # <<>>
    /\ LET e == Head(inbox[w])
       IN  /\ running' = IF e = Closed THEN running \ {w} ELSE running
           /\ last' = [last EXCEPT ![w] = CASE e = Closed -> Nothing
                                            [] e # Closed /\ Active(e.gen) -> e
                                            [] OTHER -> @]
    /\ inbox' = [inbox EXCEPT ![w] = Tail(@)]
    /\ UNCHANGED <<mainVars, nativeVars, queueVars, sharedVars, workers>>

\* It ends, too, when no sender is left.
HangUp(w) ==
    /\ w \in running /\ inbox[w] = <<>> /\ listener # w
    /\ running' = running \ {w}
    /\ last' = [last EXCEPT ![w] = Nothing]
    /\ UNCHANGED <<mainVars, nativeVars, queueVars, sharedVars, inbox, workers>>

\* The thread of notify_connected
CallConnected ==
    /\ session.heard = "due" /\ ~session.failed
    /\ session' = [session EXCEPT !.heard = "yes"]
    /\ UNCHANGED <<pending, sessions, nativeVars, queueVars, sharedVars, inbox, workerVars>>

-----------------------------------------------------------------------------
Init ==
    /\ pending = FALSE /\ session = NoSession /\ sessions = 0
    /\ channel = NoChannel /\ sent = 0 /\ posted = <<>> /\ left = 0
    /\ listener = 0 /\ callback = FALSE
    /\ inbox = [w \in Worker |-> <<>>]
    /\ last = [w \in Worker |-> Nothing] /\ workers = 0 /\ running = {}

Connections == Connect \/ TryChannel \/ Retry \/ GiveUp \/ Disconnect
Native == \/ DataReceived \/ ChannelClosed \/ WriteFails \/ ReleaseRetiring
          \/ \E kind \in {"opened", "refused"} : OpenComplete(kind)
RunBlock == \E g \in Gen : \/ RunOpened(g) \/ RunOpenFailed(g) \/ RunClosed(g) \/ RunFail(g)
                           \/ \E n \in 1..MaxData : RunData(g, n)
WorkerTurn(w) == Receive(w) \/ HangUp(w)

Next == \/ Connections \/ Native \/ RunBlock \/ OnConnected \/ CallConnected \/ SetDataListener
        \/ \E w \in Worker : WorkerTurn(w)

Spec == Init /\ [][Next]_vars

-----------------------------------------------------------------------------
(***************************************************************************)
(* Properties                                                              *)
(***************************************************************************)

\* "Each device's listener runs on its own worker, in order": what a listener is
\* called with are the data of one session after another, each an unbroken run of the
\* stream, although data that arrive before the session is open take another way.
Follows(e, f) == f.gen > e.gen \/ (f.gen = e.gen /\ f.n = e.n + 1)
DataInOrder ==
    \A w \in Worker : last'[w] \notin {last[w], Nothing} => Follows(last[w], last'[w])

\* The application hears "connected" once per session, however often the session is
\* found to be open: when its channel is returned, and by rfcommChannelOpenComplete.
ConnectedOnce ==
    session'.gen = session.gen /\ session.heard = "yes" => session'.heard = "yes"

\* What the application hears of a connection: it is told once, and its data in order.
InOrder == [][DataInOrder /\ ConnectedOnce]_vars

\* A registered listener has a worker that will call it: none has ended, or is about
\* to, with its sender still in the state, where data would be sent to nobody.
ListenerLives ==
    listener # 0 => /\ listener \in running
                    /\ \A i \in 1..Len(inbox[listener]) : inbox[listener][i] # Closed

\* An open connection that ends, unless the application disconnects, ends with an error
\* on its way to the listener.
EndIsTold == [][session.opened /\ session'.gen = 0 /\ listener # 0 /\ ~Disconnect =>
                    inbox'[listener] # <<>> /\ Last(inbox'[listener]) = Closed]_vars
=============================================================================
