--------------------------- MODULE MacConnection ---------------------------
(***************************************************************************)
(* Connection establishment of the macOS backend                           *)
(* (src/macos/implementation.rs).                                          *)
(*                                                                         *)
(* Everything below runs on the main run loop: mainQ is the FIFO of blocks *)
(* posted with Queue::main().exec_async, timers the blocks armed with      *)
(* exec_after that have not run yet.  One step of Next runs one block to   *)
(* completion or delivers one IOBluetooth callback.  The body of a call    *)
(* (run_on_main_thread) and the block of a timer run in one step of their  *)
(* own, between any two other blocks: a caller may have posted its block   *)
(* at any earlier time.  This also lets a timer overtake blocks that were  *)
(* posted before it was armed, which the program never does.               *)
(*                                                                         *)
(* Data is abstracted: an address is a model value, a session keeps of its *)
(* pending send only whether native writes are outstanding (inFlight), and *)
(* generation 0 stands for an absent entry of a HashMap (next_id never     *)
(* returns 0).  Transmission itself is the subject of MacSend.             *)
(*                                                                         *)
(* A definition whose name begins with Bad is the definition after it with *)
(* a mistake in it; the runs check that a property notices.                *)
(***************************************************************************)
EXTENDS Naturals, Sequences, FiniteSets

CONSTANTS
    Addr,            \* device addresses
    NoAddr,          \* the None of MainThreadState.connecting
    Fallbacks,       \* channel lists normalized_fallback_channels may return
    SdpChannel,      \* the channel an SDP record announces
    Paired,          \* devices whose SPP record the system has from before
    ListenerFails,   \* whether CoreAudio may refuse the audio guard's listener
    PollAttempts,    \* polls of the SDP cache before falling back (30 in the code)
    MaxConnects,     \* bound: connect calls
    MaxSends,        \* bound: sends that reach the native layer
    MaxEnds          \* bound: disconnect and disconnect_all calls, and channels
                     \* that close by themselves

ASSUME AddrAssumption == NoAddr \notin Addr
ASSUME FallbacksAssumption ==
    \A f \in Fallbacks : /\ Len(f) > 0
                         /\ \A i, j \in 1..Len(f) : f[i] = f[j] => i = j
ASSUME PairedAssumption == Paired \subseteq Addr
ASSUME ListenerAssumption == ListenerFails \in BOOLEAN
ASSUME PollAssumption == PollAttempts \in Nat \ {0}

VARIABLES
    \* MainThreadState
    sessions,      \* addr -> RfcommSession
    retiring,      \* handles of sessions closed while the stack may own buffers
    connections,   \* addr -> PendingConnection (without its channels)
    channelsLeft,  \* addr -> PendingConnection.channels
    connectQueue,  \* addresses waiting for the connection slot
    connecting,    \* the address that holds the slot
    nextId,        \* the last identifier next_id returned
    \* shared with the callers
    info,          \* keys of SharedState.connected_device_info
    guarded,       \* targets of the audio guard
    \* run loop
    mainQ, timers,
    \* IOBluetooth
    opening,       \* handles whose openComplete has not been delivered
    alive,         \* handles with our delegate whose closed has not been delivered
    writes,        \* handles for which writeAsync still owns a buffer
    sdpActive,     \* devices with an SDP query under way
    cached,        \* devices whose SPP record the system has cached
    budget         \* calls made so far, against the bounds

mainVars   == <<sessions, retiring, connections, channelsLeft, connectQueue,
                connecting, nextId>>
sharedVars == <<info, guarded>>
loopVars   == <<mainQ, timers>>
nativeVars == <<opening, alive, writes, sdpActive, cached>>
vars == <<mainVars, sharedVars, loopVars, nativeVars, budget>>

-----------------------------------------------------------------------------
Handle  == [addr : Addr, gen : Nat]
Session == [gen : Nat, opened : BOOLEAN, failed : BOOLEAN, inFlight : BOOLEAN]
Pending == [gen : Nat, resolved : BOOLEAN]

NewSession(g, opened) == [gen |-> g, opened |-> opened, failed |-> FALSE,
                          inFlight |-> FALSE]
NoSession == NewSession(0, FALSE)
NoPending == [gen |-> 0, resolved |-> FALSE]

Kind == {"startNext", "poll", "retry", "openTimeout", "opened", "openFailed",
         "closed", "fail", "release"}
Task == {t \in [kind : Kind, addr : Addr \cup {NoAddr}, gen : Nat, n : Nat] :
            t.kind = "startNext" <=> t.addr = NoAddr}

T(kind, a, g)  == [kind |-> kind, addr |-> a, gen |-> g, n |-> 0]
StartNext      == T("startNext", NoAddr, 0)
BadPollRestarted(a, g, k) == [kind |-> "poll", addr |-> a, gen |-> g, n |-> 0]
BadPollSigned(a, g, k) == [kind |-> "poll", addr |-> a, gen |-> g, n |-> k - 1]
Poll(a, g, k)  == [kind |-> "poll", addr |-> a, gen |-> g, n |-> k]

\* The tasks that will run without anybody else's help.
Scheduled == timers \cup {mainQ[i] : i \in DOMAIN mainQ}

HandleOf(a) == [addr |-> a, gen |-> sessions[a].gen]
HasSession(a) == sessions[a].gen # 0
IsPending(a) == connections[a].gen # 0
Matches(a, g) == HasSession(a) /\ sessions[a].gen = g

\* connect_queue.retain(|queued| queued != addr): the n-th place of the result holds
\* what the n-th place kept held.
Without(q, a) ==
  LET kept == {i \in DOMAIN q : q[i] # a}
      place(n) == CHOOSE i \in kept : Cardinality({j \in kept : j <= i}) = n
  IN  [n \in 1..Cardinality(kept) |-> q[place(n)]]

(***************************************************************************)
(* What a running block has before it calls into the operators below: the  *)
(* rest of the main queue, the timers, connect_queue and the audio guard's *)
(* targets.  A block comes from the head of the queue, from a timer, or    *)
(* from a caller.                                                          *)
(***************************************************************************)
Ctx(rest, tm, q, g) == [rest |-> rest, timers |-> tm, queue |-> q, guarded |-> g]
FromQueue    == Ctx(Tail(mainQ), timers, connectQueue, guarded)
FromTimer(t) == Ctx(mainQ, timers \ {t}, connectQueue, guarded)
FromCaller   == Ctx(mainQ, timers, connectQueue, guarded)
\* start_next_connection has popped the first i entries of the queue.
Popped(i)    == Ctx(Tail(mainQ), timers,
                    SubSeq(connectQueue, i + 1, Len(connectQueue)), guarded)
\* audio_guard::start: the first target registers the listener, or goes without.
Guarding(c, a) == Ctx(c.rest, c.timers, c.queue, c.guarded \cup {a})
BadGuardings(c, a) == {IF c.guarded = {} THEN Guarding(c, a) ELSE c}
Guardings(c, a) == {Guarding(c, a)} \cup
                   (IF ListenerFails /\ c.guarded = {} THEN {c} ELSE {})

Runs(kind) == mainQ # <<>> /\ Head(mainQ).kind = kind
\* The block posts the blocks ts and arms the timers ts.
Then(c, ts) == mainQ' = c.rest \o ts
Arm(c, ts)  == timers' = c.timers \cup ts
\* One more of what a bound counts.
Spend(counter, bound) == /\ budget[counter] < bound
                         /\ budget' = [budget EXCEPT ![counter] = @ + 1]

\* An IOBluetooth callback posts a block.
Post(t) == mainQ' = Append(mainQ, t)

-----------------------------------------------------------------------------
(***************************************************************************)
(* close_session, with the session `new` (if any) that takes the place of  *)
(* the closed one.  closeChannel may fail; the session then stays in       *)
(* retiring exactly when its writes are outstanding.  A session that is    *)
(* dropped loses its delegate: no callback of it is delivered any more.    *)
(***************************************************************************)
BadKeptIdle(a, closed) == HasSession(a) /\ ~closed
Kept(a, closed) == HasSession(a) /\ ~closed /\ sessions[a].inFlight

Close(a, new, alreadyClosed) ==
    LET h == HandleOf(a)
        started == IF new.gen = 0 THEN {} ELSE {[addr |-> a, gen |-> new.gen]}
    IN  /\ sessions' = [sessions EXCEPT ![a] = new]
        /\ \E closed \in IF alreadyClosed THEN {TRUE} ELSE BOOLEAN :
              LET gone == IF Kept(a, closed) THEN {} ELSE {h}
              IN  /\ retiring' = retiring \cup ({h} \ gone)
                  /\ opening' = (opening \ gone) \cup started
                  /\ alive' = (alive \ gone) \cup started
                  /\ writes' = IF closed THEN writes \ {h} ELSE writes

\* release_connection_slot
BadReleaseSlot(a, c) ==
    /\ connections' = [connections EXCEPT ![a] = NoPending]
    /\ channelsLeft' = [channelsLeft EXCEPT ![a] = <<>>]
    /\ connectQueue' = Without(c.queue, a)
    /\ connecting' = NoAddr
ReleaseSlot(a, c) ==
    /\ connections' = [connections EXCEPT ![a] = NoPending]
    /\ channelsLeft' = [channelsLeft EXCEPT ![a] = <<>>]
    /\ connectQueue' = Without(c.queue, a)
    /\ connecting' = IF connecting = a THEN NoAddr ELSE connecting

\* audio_guard::stop_for and clear_device_state
BadForgetInfo(a, c) == guarded' = c.guarded \ {a} /\ info' = info
Forget(a, c) == guarded' = c.guarded \ {a} /\ info' = info \ {a}

\* fail_connection; also what disconnect_impl does to this state.
BadFailConnection(a, alreadyClosed, c) ==
    /\ Close(a, NoSession, alreadyClosed)
    /\ Forget(a, c)
    /\ ReleaseSlot(a, c)
    /\ Then(c, <<>>) /\ Arm(c, {})
    /\ UNCHANGED nextId
FailConnection(a, alreadyClosed, c) ==
    /\ Close(a, NoSession, alreadyClosed)
    /\ Forget(a, c)
    /\ ReleaseSlot(a, c)
    /\ Then(c, <<StartNext>>) /\ Arm(c, {})
    /\ UNCHANGED nextId

\* retry_connection
RetryConnection(a, alreadyClosed, c) ==
    \/ /\ ~IsPending(a)
       /\ Close(a, NoSession, alreadyClosed)
       /\ Then(c, <<>>) /\ Arm(c, {})
       /\ UNCHANGED <<connections, channelsLeft, connectQueue, connecting, nextId,
                      sharedVars>>
    \/ /\ IsPending(a) /\ channelsLeft[a] = <<>>
       /\ FailConnection(a, alreadyClosed, c)
    \/ /\ IsPending(a) /\ channelsLeft[a] # <<>>
       /\ Close(a, NoSession, alreadyClosed)
       /\ connecting' = IF connecting = a THEN NoAddr ELSE connecting
       /\ connectQueue' = Append(c.queue, a)
       /\ Then(c, <<StartNext>>) /\ Arm(c, {})
       /\ UNCHANGED <<connections, channelsLeft, nextId, sharedVars>>

-----------------------------------------------------------------------------
(***************************************************************************)
(* try_next_channel for the slot's holder a, whose channels after SDP are  *)
(* chs.  The open request is rejected at once, accepted, or accepted with  *)
(* the channel already open.                                               *)
(***************************************************************************)
HoldSlot(a, chs, c) ==
    /\ connections' = [connections EXCEPT ![a].resolved = TRUE]
    /\ channelsLeft' = [channelsLeft EXCEPT ![a] = Tail(chs)]
    /\ connecting' = a
    /\ connectQueue' = c.queue

TryNextChannel(a, chs, c) ==
    \/ chs = <<>> /\ FailConnection(a, FALSE, c)
    \/ /\ chs # <<>>
       /\ nextId' = nextId + 1
       /\ guarded' = c.guarded
       /\ \/ \* rejected: retried from the run loop
             /\ Close(a, NoSession, FALSE)
             /\ HoldSlot(a, chs, c)
             /\ Then(c, <<T("retry", a, connections[a].gen)>>) /\ Arm(c, {})
             /\ UNCHANGED info
          \/ \* accepted
             /\ Close(a, NewSession(nextId + 1, FALSE), FALSE)
             /\ HoldSlot(a, chs, c)
             /\ Then(c, <<>>) /\ Arm(c, {T("openTimeout", a, nextId + 1)})
             /\ UNCHANGED info
          \/ \* accepted and already open: handle_open_complete runs inline
             /\ Close(a, NewSession(nextId + 1, TRUE), FALSE)
             /\ ReleaseSlot(a, c)
             /\ info' = info \cup {a}
             /\ Then(c, <<StartNext>>) /\ Arm(c, {T("openTimeout", a, nextId + 1)})

\* finish_sdp with the channel of a cached record, or with None: the announced
\* channel goes first, once.
SdpFirst(chs) == <<SdpChannel>> \o Without(chs, SdpChannel)
FinishSdp(a, found, c) ==
    LET chs == IF found THEN SdpFirst(channelsLeft[a]) ELSE channelsLeft[a]
    IN  TryNextChannel(a, chs, c) /\ UNCHANGED <<sdpActive, cached>>

-----------------------------------------------------------------------------
\* start_next_connection, once a has been popped and takes the slot.
BeginSdp(a, c) ==
    /\ guarded' = c.guarded
    /\ connecting' = a
    /\ connectQueue' = c.queue
    /\ sdpActive' = sdpActive \cup {a}
    /\ Then(c, <<>>) /\ Arm(c, {Poll(a, connections[a].gen, 0)})
    /\ UNCHANGED <<sessions, retiring, connections, channelsLeft, nextId,
                   info, opening, alive, writes, cached>>

StartConnection(a, c) ==
    \/ /\ connections[a].resolved
       /\ TryNextChannel(a, channelsLeft[a], c)
       /\ UNCHANGED <<sdpActive, cached>>
    \/ /\ ~connections[a].resolved
       /\ \E guarding \in Guardings(c, a) :
             \/ a \in cached /\ FinishSdp(a, TRUE, guarding)
             \/ a \notin cached /\ BeginSdp(a, guarding)
             \/ \* the query does not start
                a \notin cached /\ FinishSdp(a, FALSE, guarding)

\* The entry the loop of start_next_connection stops at.
IsNext(i) == /\ IsPending(connectQueue[i])
             /\ \A j \in 1..(i - 1) : ~IsPending(connectQueue[j])

RunStartNext ==
    /\ Runs("startNext")
    /\ UNCHANGED budget
    /\ \/ /\ connecting # NoAddr
          /\ Then(FromQueue, <<>>)
          /\ UNCHANGED <<mainVars, sharedVars, timers, nativeVars>>
       \/ /\ connecting = NoAddr
          /\ \A i \in DOMAIN connectQueue : ~IsPending(connectQueue[i])
          /\ connectQueue' = <<>>
          /\ Then(FromQueue, <<>>)
          /\ UNCHANGED <<sessions, retiring, connections, channelsLeft, connecting,
                         nextId, sharedVars, timers, nativeVars>>
       \/ /\ connecting = NoAddr
          /\ \E a \in Addr, i \in DOMAIN connectQueue :
                /\ a = connectQueue[i]
                /\ IsNext(i)
                /\ StartConnection(a, Popped(i))

\* A block of poll_sdp: stale, resolved, given up, or armed again.
PollIsCurrent(t) == connections[t.addr].gen = t.gen /\ connecting = t.addr
RunPoll(t) ==
    /\ t.kind = "poll"
    /\ UNCHANGED budget
    /\ \/ /\ ~PollIsCurrent(t)
          /\ timers' = timers \ {t}
          /\ UNCHANGED <<mainVars, sharedVars, mainQ, nativeVars>>
       \/ /\ PollIsCurrent(t) /\ t.addr \in cached
          /\ FinishSdp(t.addr, TRUE, FromTimer(t))
       \/ /\ PollIsCurrent(t) /\ t.addr \notin cached /\ t.n >= PollAttempts - 1
          /\ FinishSdp(t.addr, FALSE, FromTimer(t))
       \/ /\ PollIsCurrent(t) /\ t.addr \notin cached /\ t.n < PollAttempts - 1
          /\ Arm(FromTimer(t), {Poll(t.addr, t.gen, t.n + 1)})
          /\ UNCHANGED <<mainVars, sharedVars, mainQ, nativeVars>>

\* A block that calls RetryConnection if `current`, and else does nothing.
RetryIf(current, a, c) ==
    /\ UNCHANGED <<sdpActive, cached, budget>>
    /\ \/ current /\ RetryConnection(a, FALSE, c)
       \/ /\ ~current
          /\ Then(c, <<>>) /\ Arm(c, {})
          /\ UNCHANGED <<mainVars, sharedVars, opening, alive, writes>>

\* The block try_next_channel posts when the open request was rejected.
RetryIsCurrent(t) == IsPending(t.addr) /\ connections[t.addr].gen = t.gen
RunRetry == Runs("retry") /\ RetryIf(RetryIsCurrent(Head(mainQ)), Head(mainQ).addr, FromQueue)

\* The block RFCOMM_OPEN_TIMEOUT runs, and handle_open_complete with an error.
BadIsOpening(t) == HasSession(t.addr) /\ ~sessions[t.addr].opened
IsOpeningSession(t) == Matches(t.addr, t.gen) /\ ~sessions[t.addr].opened
RunOpenTimeout(t) ==
    t.kind = "openTimeout" /\ RetryIf(IsOpeningSession(t), t.addr, FromTimer(t))
RunOpenFailed ==
    /\ Runs("openFailed")
    /\ RetryIf(IsOpeningSession(Head(mainQ)), Head(mainQ).addr, FromQueue)

\* handle_open_complete with success
RunOpened ==
    /\ Runs("opened")
    /\ UNCHANGED <<retiring, nextId, guarded, timers, nativeVars, budget>>
    /\ LET a == Head(mainQ).addr
       IN  \/ /\ ~IsOpeningSession(Head(mainQ))
              /\ Then(FromQueue, <<>>)
              /\ UNCHANGED <<sessions, connections, channelsLeft, connectQueue,
                             connecting, info>>
           \/ /\ IsOpeningSession(Head(mainQ))
              /\ sessions' = [sessions EXCEPT ![a].opened = TRUE]
              /\ \/ /\ IsPending(a)
                    /\ info' = info \cup {a}
                    /\ ReleaseSlot(a, FromQueue)
                    /\ Then(FromQueue, <<StartNext>>)
                 \/ /\ ~IsPending(a)
                    /\ Then(FromQueue, <<>>)
                    /\ UNCHANGED <<connections, channelsLeft, connectQueue, connecting,
                                   info>>

\* release_retiring_session
Release(h) == /\ retiring' = retiring \ {h}
              /\ alive' = IF h \in retiring THEN alive \ {h} ELSE alive

\* The block of rfcommChannelClosed.
RunClosed ==
    /\ Runs("closed")
    /\ UNCHANGED <<sdpActive, cached, budget>>
    /\ LET t == Head(mainQ)
           a == t.addr
           h == [addr |-> a, gen |-> t.gen]
           current == h \notin retiring /\ Matches(a, t.gen)
       IN  \/ /\ ~current
              /\ Release(h)
              /\ Then(FromQueue, <<>>)
              /\ UNCHANGED <<sessions, connections, channelsLeft, connectQueue, connecting,
                             nextId, sharedVars, timers, opening, writes>>
           \/ /\ current /\ IsPending(a)
              /\ RetryConnection(a, TRUE, FromQueue)
           \/ /\ current /\ ~IsPending(a)
              /\ Close(a, NoSession, TRUE)
              /\ Forget(a, FromQueue)
              /\ Then(FromQueue, <<>>)
              /\ UNCHANGED <<connections, channelsLeft, connectQueue, connecting, nextId,
                             timers>>

\* The block handle_write_complete posts for the last write of a retired session.
RunRelease ==
    /\ Runs("release")
    /\ Release([addr |-> Head(mainQ).addr, gen |-> Head(mainQ).gen])
    /\ Then(FromQueue, <<>>)
    /\ UNCHANGED <<sessions, connections, channelsLeft, connectQueue, connecting, nextId,
                   sharedVars, timers, opening, writes, sdpActive, cached, budget>>

\* The block fail_session_later posts.
RunFail ==
    /\ Runs("fail")
    /\ UNCHANGED <<sdpActive, cached, budget>>
    /\ LET t == Head(mainQ)
       IN  \/ Matches(t.addr, t.gen) /\ FailConnection(t.addr, FALSE, FromQueue)
           \/ /\ ~Matches(t.addr, t.gen)
              /\ Then(FromQueue, <<>>)
              /\ UNCHANGED <<mainVars, sharedVars, timers, opening, alive, writes>>

RunBlock == \/ RunStartNext \/ RunRetry \/ RunOpenFailed \/ RunOpened
            \/ RunClosed \/ RunRelease \/ RunFail

\* exec_after: the delay is over.
RunTimer == \E t \in timers : RunPoll(t) \/ RunOpenTimeout(t)

-----------------------------------------------------------------------------
\* connect_impl on the main run loop, when it has something to do: it refuses a
\* device whose old session is retiring, and answers Ok(true) for a known one.
IsRetiring(a) == \E h \in retiring : h.addr = a
Connect(a) ==
    /\ Spend("connect", MaxConnects)
    /\ ~IsRetiring(a) /\ ~IsPending(a) /\ ~HasSession(a)
    /\ nextId' = nextId + 1
    /\ connections' = [connections EXCEPT ![a] = [gen |-> nextId + 1, resolved |-> FALSE]]
    /\ \E f \in Fallbacks : channelsLeft' = [channelsLeft EXCEPT ![a] = f]
    /\ connectQueue' = Append(connectQueue, a)
    /\ Then(FromCaller, <<StartNext>>)
    /\ UNCHANGED <<sessions, retiring, connecting, sharedVars, timers, nativeVars>>

\* disconnect_impl on the main run loop
Disconnect(a) ==
    /\ Spend("end", MaxEnds)
    /\ FailConnection(a, FALSE, FromCaller)
    /\ UNCHANGED <<sdpActive, cached>>

\* disconnect_all_impl on the main run loop; `stuck` are the sessions whose
\* closeChannel fails while the stack owns buffers of theirs.
DisconnectAll ==
    /\ Spend("end", MaxEnds)
    /\ connections' = [a \in Addr |-> NoPending]
    /\ channelsLeft' = [a \in Addr |-> <<>>]
    /\ connectQueue' = <<>>
    /\ connecting' = NoAddr
    /\ sessions' = [a \in Addr |-> NoSession]
    /\ \E refused \in SUBSET {a \in Addr : HasSession(a)} :
          LET live  == {HandleOf(a) : a \in {b \in Addr : HasSession(b)}}
              stuck == {HandleOf(a) : a \in {b \in refused : sessions[b].inFlight}}
              shut  == {HandleOf(a) : a \in {b \in Addr : HasSession(b)} \ refused}
          IN  /\ retiring' = retiring \cup stuck
              /\ opening' = opening \ (live \ stuck)
              /\ alive' = alive \ (live \ stuck)
              /\ writes' = writes \ shut
    /\ info' = {}
    /\ guarded' = {}
    /\ UNCHANGED <<nextId, loopVars, sdpActive, cached>>

-----------------------------------------------------------------------------
(***************************************************************************)
(* IOBluetooth.  Callbacks arrive for handles with our delegate only.      *)
(* openComplete and closed post a block; writeComplete is handled inline.  *)
(* A channel that closes owns no buffer any more.                          *)
(***************************************************************************)
OpenComplete(h, status) ==
    /\ h \in opening
    /\ opening' = opening \ {h}
    /\ Post(T(status, h.addr, h.gen))
    /\ UNCHANGED <<mainVars, sharedVars, timers, alive, writes, sdpActive, cached, budget>>

ChannelClosed(h) ==
    /\ h \in alive
    /\ alive' = alive \ {h}
    /\ opening' = opening \ {h}
    /\ writes' = writes \ {h}
    /\ Spend("end", MaxEnds)
    /\ Post(T("closed", h.addr, h.gen))
    /\ UNCHANGED <<mainVars, sharedVars, timers, sdpActive, cached>>

\* The SDP query of a ends, with or without an SPP record.
SdpComplete(a, found) ==
    /\ a \in sdpActive
    /\ sdpActive' = sdpActive \ {a}
    /\ cached' = IF found THEN cached \cup {a} ELSE cached
    /\ UNCHANGED <<mainVars, sharedVars, loopVars, opening, alive, writes, budget>>

\* fail_session_later, called inline on the main run loop.
Failed(a) == [gen |-> sessions[a].gen, opened |-> sessions[a].opened, failed |-> TRUE,
              inFlight |-> HandleOf(a) \in writes']
FailLater(a) ==
    /\ sessions' = [sessions EXCEPT ![a] = Failed(a)]
    /\ Post(T("fail", a, sessions[a].gen))

Sendable(a) == sessions[a].opened /\ ~sessions[a].failed

\* send_impl's block pumps a first write into the stack.
StartSend(a) ==
    /\ Sendable(a) /\ ~sessions[a].inFlight
    /\ HandleOf(a) \in alive
    /\ Spend("send", MaxSends)
    /\ nextId' = nextId + 1
    /\ sessions' = [sessions EXCEPT ![a].inFlight = TRUE]
    /\ writes' = writes \cup {HandleOf(a)}
    /\ UNCHANGED <<retiring, connections, channelsLeft, connectQueue, connecting,
                   sharedVars, loopVars, opening, alive, sdpActive, cached>>

\* pump_pending_rfcomm_send is refused a write for good while earlier ones are
\* outstanding; also the send timeout, which fails the connection the same way.
RejectWrite(a) ==
    /\ Sendable(a) /\ sessions[a].inFlight
    /\ UNCHANGED writes
    /\ FailLater(a)
    /\ UNCHANGED <<retiring, connections, channelsLeft, connectQueue, connecting, nextId,
                   sharedVars, timers, opening, alive, sdpActive, cached, budget>>

\* handle_write_complete for the last outstanding write.
WriteComplete(h, ok) ==
    /\ h \in writes
    /\ writes' = writes \ {h}
    /\ UNCHANGED <<retiring, connections, channelsLeft, connectQueue, connecting, nextId,
                   sharedVars, timers, opening, alive, sdpActive, cached, budget>>
    /\ \/ /\ h \in retiring
          /\ Post(T("release", h.addr, h.gen))
          /\ UNCHANGED sessions
       \/ /\ h \notin retiring
          /\ Matches(h.addr, h.gen) /\ ~ok /\ ~sessions[h.addr].failed
          /\ FailLater(h.addr)
       \/ /\ h \notin retiring
          /\ Matches(h.addr, h.gen) /\ (ok \/ sessions[h.addr].failed)
          /\ sessions' = [sessions EXCEPT ![h.addr].inFlight = FALSE]
          /\ UNCHANGED mainQ
       \/ /\ h \notin retiring /\ ~Matches(h.addr, h.gen)
          /\ UNCHANGED <<sessions, mainQ>>

Native ==
    \/ \E h \in opening, status \in {"opened", "openFailed"} : OpenComplete(h, status)
    \/ \E h \in alive : ChannelClosed(h)
    \/ \E a \in sdpActive, found \in BOOLEAN : SdpComplete(a, found)
    \/ \E h \in writes, ok \in BOOLEAN : WriteComplete(h, ok)

Callers == \/ \E a \in Addr : \/ Connect(a) \/ Disconnect(a)
                              \/ StartSend(a) \/ RejectWrite(a)
           \/ DisconnectAll

-----------------------------------------------------------------------------
Init ==
    /\ sessions = [a \in Addr |-> NoSession]
    /\ retiring = {}
    /\ connections = [a \in Addr |-> NoPending]
    /\ channelsLeft = [a \in Addr |-> <<>>]
    /\ connectQueue = <<>>
    /\ connecting = NoAddr
    /\ nextId = 0
    /\ info = {} /\ guarded = {}
    /\ mainQ = <<>> /\ timers = {}
    /\ opening = {} /\ alive = {} /\ writes = {} /\ sdpActive = {}
    /\ cached = Paired
    /\ budget = [connect |-> 0, send |-> 0, end |-> 0]

Next == RunBlock \/ RunTimer \/ Native \/ Callers

Spec == Init /\ [][Next]_vars

\* The run loop keeps running its blocks and the timers keep expiring; nothing
\* is assumed of IOBluetooth, which may never call back, or of the callers.
Fairness == WF_vars(RunBlock) /\ WF_vars(RunTimer)
FairSpec == Spec /\ Fairness

-----------------------------------------------------------------------------
(***************************************************************************)
(* Properties                                                              *)
(***************************************************************************)

\* Every variable has its type; the two sequences of addresses and channels are
\* left to NoConnectionLost.
TypeOK ==
    /\ sessions \in [Addr -> Session]
    /\ connections \in [Addr -> Pending]
    /\ retiring \subseteq Handle
    /\ connecting \in Addr \cup {NoAddr}
    /\ nextId \in Nat
    /\ info \subseteq Addr /\ guarded \subseteq Addr
    /\ mainQ \in Seq(Task) /\ timers \subseteq Task
    /\ opening \subseteq Handle /\ alive \subseteq Handle /\ writes \subseteq Handle
    /\ sdpActive \subseteq Addr /\ cached \subseteq Addr
    /\ budget \in [{"connect", "send", "end"} -> Nat]

\* Establishment is serialized (the comment on MainThreadState.connecting): a
\* session that is not open yet belongs to the device that holds the slot, so
\* there is at most one.
OneAttempt ==
    \A a \in Addr : HasSession(a) /\ ~sessions[a].opened => connecting = a /\ IsPending(a)

\* A connection that connect() accepted is either waiting in the queue, once, or
\* holds the slot, until it is resolved: no sequence of retries, rejections and
\* disconnects drops it or queues it twice.
NoConnectionLost ==
    /\ connecting # NoAddr => IsPending(connecting)
    /\ \A a \in Addr :
          Cardinality({i \in DOMAIN connectQueue : connectQueue[i] = a})
             = IF IsPending(a) /\ connecting # a THEN 1 ELSE 0

\* Establishment never waits for IOBluetooth alone.  If the slot is free while a device
\* is pending, start_next_connection is posted; whoever holds the slot has an armed
\* poll, a posted retry or an open timeout that will not find itself stale.
WillGoOn(t) == \/ t.kind = "poll" /\ PollIsCurrent(t)
               \/ t.kind = "retry" /\ RetryIsCurrent(t)
               \/ t.kind = "openTimeout" /\ IsOpeningSession(t)
SlotNeverStalls ==
    IF connecting = NoAddr
    THEN (\E a \in Addr : IsPending(a)) => StartNext \in Scheduled
    ELSE \E t \in Scheduled : t.addr = connecting /\ WillGoOn(t)

\* An accepted connection keeps its place, and what serves it next is on its way.
ConnectionsServed == NoConnectionLost /\ SlotNeverStalls

\* get_connected_device_info answers for a device exactly while it has an open
\* session ("only openComplete publishes device info"), whichever of failure,
\* closure and disconnect ends it.
InfoMatchesSessions == info = {a \in Addr : sessions[a].opened}

\* The audio guard protects no device that is neither pending nor connected and,
\* where CoreAudio lets it listen, every device that has a session or the slot.
GuardFollowsConnections ==
    /\ \A a \in guarded : HasSession(a) \/ IsPending(a)
    /\ ~ListenerFails =>
          \A a \in Addr : HasSession(a) \/ connecting = a => a \in guarded

\* A retiring session, which makes connect() refuse its device, always has what
\* will release it: a write that is still to complete, or the posted release.
RetiringEnds ==
    \A h \in retiring : \/ h \in writes
                        \/ T("release", h.addr, h.gen) \in Scheduled
                        \/ T("closed", h.addr, h.gen) \in Scheduled

\* The block a step ran: a timer that is gone, or the old head of the main queue.
Extends(q, p) == Len(q) >= Len(p) /\ SubSeq(q, 1, Len(p)) = p
HeadRan == mainQ # <<>> /\ ~Extends(mainQ', mainQ)
Ran == {t \in timers : t \notin timers'} \cup (IF HeadRan THEN {Head(mainQ)} ELSE {})

\* A block stamped with a session's generation, run late, neither opens nor ends a
\* session of another generation ("stale callbacks cannot touch a new connection").
Stamped == {"opened", "openFailed", "openTimeout", "closed", "fail"}
StaleBlocksInert ==
    [][\A a \in Addr, t \in Ran :
          /\ HasSession(a)
          /\ \/ sessions'[a].gen # sessions[a].gen
             \/ sessions'[a].opened # sessions[a].opened
          /\ t.kind \in Stamped
          => t.addr = a /\ t.gen = sessions[a].gen]_vars

\* Every accepted connection is resolved, whatever IOBluetooth does: it opens,
\* fails after the last channel, or is disconnected.
ConnectionsResolve == \A a \in Addr : IsPending(a) ~> ~IsPending(a)

\* The backend implements the abstract connection slot: pending is connecting, an
\* open session is connected, connecting is the attempt.
Slot == INSTANCE ConnectionSlot WITH
            status  <- [a \in Addr |-> IF sessions[a].opened THEN "connected"
                                       ELSE IF IsPending(a) THEN "connecting" ELSE "idle"],
            attempt <- connecting
ImplementsSlot == Slot!SlotSpec
=============================================================================
