------------------------ MODULE MacConnectionProofs ------------------------
(***************************************************************************)
(* Theorems about MacConnection, for every set of addresses, every bound   *)
(* and every list of fallback channels.                                    *)
(*                                                                         *)
(* The invariant is inductive in layers.  Control says how sessions,       *)
(* pending connections, the slot and the published device info belong      *)
(* together; every other layer is inductive once Control holds.  Retired   *)
(* says who will still release a session that waits for its writes; Guard, *)
(* what the audio guard has to protect; Order, that each waiting device    *)
(* stands in the queue once and that posted retries and armed polls belong *)
(* to the connection that holds the slot.  On top of these, SlotNeverStalls*)
(* is inductive as it stands.                                              *)
(*                                                                         *)
(* Each operator of the module that several blocks call (Close,            *)
(* FailConnection, RetryConnection, TryNextChannel, FinishSdp,             *)
(* StartConnection) has a lemma in each layer; the blocks, the callbacks   *)
(* and the callers then follow one by one.                                 *)
(***************************************************************************)
EXTENDS MacConnection, FiniteSetTheorems, TLAPS

USE AddrAssumption

-----------------------------------------------------------------------------
\* Whoever holds the slot has an accepted connection.
SlotPending == connecting # NoAddr => IsPending(connecting)

\* An open session exists, and its connection is no longer pending.
OpenIsSettled == \A a \in Addr : sessions[a].opened => HasSession(a) /\ ~IsPending(a)

Control == /\ TypeOK /\ SlotPending /\ OneAttempt /\ OpenIsSettled
           /\ InfoMatchesSessions

\* What a block hands to the operators: its context is well-typed.
GoodCtx(c) == /\ c.rest \in Seq(Task)
              /\ c.timers \subseteq Task
              /\ c.guarded \subseteq Addr

\* The variables the operators leave to the block keep their types.
OthersTyped == /\ sdpActive' \subseteq Addr /\ cached' \subseteq Addr
               /\ budget' \in [{"connect", "send", "end"} -> Nat]

-----------------------------------------------------------------------------
\* Blocks and timers are well-typed tasks.
LEMMA TaskTypes ==
    /\ StartNext \in Task /\ <<>> \in Seq(Task)
    /\ \A a \in Addr, g \in Nat, k \in Kind \ {"startNext"} : T(k, a, g) \in Task
    /\ \A a \in Addr, g, k \in Nat : Poll(a, g, k) \in Task
  BY DEF StartNext, T, Poll, Task, Kind

\* The records a session or a pending connection is replaced by are well-typed.
LEMMA SessionTypes ==
    /\ NoSession \in Session /\ NoPending \in Pending
    /\ \A g \in Nat, opened \in BOOLEAN : NewSession(g, opened) \in Session
  BY DEF NewSession, NoSession, NoPending, Session, Pending

\* The session of a device names a handle.
LEMMA HandleTypes ==
    ASSUME TypeOK, NEW a \in Addr
    PROVE  HandleOf(a) \in Handle
  BY DEF TypeOK, HandleOf, Handle, Session

\* A block taken from the head of the main queue, from a timer or from a caller
\* runs in a well-typed context.
LEMMA Contexts ==
    ASSUME TypeOK
    PROVE  /\ mainQ # <<>> => GoodCtx(FromQueue) /\ Head(mainQ) \in Task
           /\ \A t \in timers : GoodCtx(FromTimer(t)) /\ t \in Task
           /\ GoodCtx(FromCaller)
<1>1. mainQ \in Seq(Task) /\ timers \subseteq Task /\ guarded \subseteq Addr
  BY DEF TypeOK
<1>2. ASSUME mainQ # <<>> PROVE Tail(mainQ) \in Seq(Task) /\ Head(mainQ) \in Task
  BY <1>1, <1>2
<1>3. QED
  BY <1>1, <1>2 DEF GoodCtx, FromQueue, FromTimer, FromCaller, Ctx

\* Posting well-typed blocks keeps the main queue well-typed.
LEMMA ThenTyped ==
    ASSUME NEW c, GoodCtx(c), NEW ts \in Seq(Task), Then(c, ts)
    PROVE  mainQ' \in Seq(Task)
  BY DEF GoodCtx, Then

\* Arming well-typed timers keeps the timers well-typed.
LEMMA ArmTyped ==
    ASSUME NEW c, GoodCtx(c), NEW ts \in SUBSET Task, Arm(c, ts)
    PROVE  timers' \subseteq Task
  BY DEF GoodCtx, Arm

\* Close keeps the types of what it changes and touches no other session.
LEMMA CloseEffect ==
    ASSUME TypeOK, NEW a \in Addr, NEW new \in Session, NEW already \in BOOLEAN,
           Close(a, new, already)
    PROVE  /\ sessions' = [sessions EXCEPT ![a] = new]
           /\ sessions' \in [Addr -> Session]
           /\ retiring' \subseteq Handle /\ opening' \subseteq Handle
           /\ alive' \subseteq Handle /\ writes' \subseteq Handle
<1>1. sessions' = [sessions EXCEPT ![a] = new]
  BY DEF Close
<1>2. HandleOf(a) \in Handle
  BY HandleTypes
<1>3. [addr |-> a, gen |-> new.gen] \in Handle
  BY DEF Handle, Session
<1>4. retiring' \subseteq Handle /\ opening' \subseteq Handle
      /\ alive' \subseteq Handle /\ writes' \subseteq Handle
  BY <1>2, <1>3 DEF Close, TypeOK
<1>5. sessions' \in [Addr -> Session]
  BY <1>1 DEF TypeOK
<1>6. QED
  BY <1>1, <1>4, <1>5

\* release_connection_slot removes the pending connection and frees the slot exactly
\* when the device holds it.
LEMMA ReleaseEffect ==
    ASSUME TypeOK, NEW a \in Addr, NEW c, ReleaseSlot(a, c)
    PROVE  /\ connections' = [connections EXCEPT ![a] = NoPending]
           /\ connections' \in [Addr -> Pending]
           /\ connecting' = IF connecting = a THEN NoAddr ELSE connecting
           /\ connecting' \in Addr \cup {NoAddr}
  BY SessionTypes DEF ReleaseSlot, TypeOK

-----------------------------------------------------------------------------
\* fail_connection keeps Control: it ends session, info and pending together.
LEMMA FailConnectionControl ==
    ASSUME Control, OthersTyped, NEW a \in Addr, NEW already \in BOOLEAN,
           NEW c, GoodCtx(c), FailConnection(a, already, c)
    PROVE  Control'
<1>1. Close(a, NoSession, already) /\ Forget(a, c) /\ ReleaseSlot(a, c)
      /\ Then(c, <<StartNext>>) /\ Arm(c, {}) /\ nextId' = nextId
  BY DEF FailConnection
<1>2. TypeOK
  BY DEF Control
<1>3. /\ sessions' = [sessions EXCEPT ![a] = NoSession]
      /\ sessions' \in [Addr -> Session]
      /\ retiring' \subseteq Handle /\ opening' \subseteq Handle
      /\ alive' \subseteq Handle /\ writes' \subseteq Handle
  BY <1>1, <1>2, CloseEffect, SessionTypes
<1>4. /\ connections' = [connections EXCEPT ![a] = NoPending]
      /\ connections' \in [Addr -> Pending]
      /\ connecting' = IF connecting = a THEN NoAddr ELSE connecting
      /\ connecting' \in Addr \cup {NoAddr}
  BY <1>1, <1>2, ReleaseEffect
<1>5. mainQ' \in Seq(Task) /\ timers' \subseteq Task
  <2>1. <<StartNext>> \in Seq(Task)
    BY TaskTypes
  <2>2. QED
    BY <1>1, <2>1, ThenTyped, ArmTyped
<1>6. info' = info \ {a} /\ guarded' \subseteq Addr
  BY <1>1 DEF Forget, GoodCtx
<1>7. TypeOK'
  BY <1>1, <1>2, <1>3, <1>4, <1>5, <1>6 DEF TypeOK, OthersTyped
<1>8. SlotPending'
  BY <1>2, <1>4 DEF Control, SlotPending, IsPending, TypeOK
<1>9. OneAttempt'
  BY <1>2, <1>3, <1>4 DEF Control, OneAttempt, HasSession, IsPending, TypeOK, NoSession, NewSession
<1>10. OpenIsSettled'
  BY <1>2, <1>3, <1>4
  DEF Control, OpenIsSettled, HasSession, IsPending, TypeOK, NoSession, NewSession, NoPending
<1>11. InfoMatchesSessions'
  BY <1>2, <1>3, <1>6 DEF Control, InfoMatchesSessions, TypeOK, NoSession, NewSession
<1>12. QED
  BY <1>7, <1>8, <1>9, <1>10, <1>11 DEF Control

\* retry_connection keeps Control; what it closes was not open.
LEMMA RetryConnectionControl ==
    ASSUME Control, OthersTyped, NEW a \in Addr, NEW already \in BOOLEAN,
           NEW c, GoodCtx(c), ~sessions[a].opened,
           RetryConnection(a, already, c)
    PROVE  Control'
<1>1. CASE FailConnection(a, already, c)
  BY <1>1, FailConnectionControl
<1>2. CASE ~FailConnection(a, already, c)
  <2>1. /\ Close(a, NoSession, already)
        /\ connections' = connections /\ nextId' = nextId
        /\ info' = info /\ guarded' = guarded
        /\ \/ connecting' = connecting /\ ~IsPending(a)
           \/ connecting' = IF connecting = a THEN NoAddr ELSE connecting
        /\ Arm(c, {})
        /\ \E ts \in {<<>>, <<StartNext>>} : Then(c, ts)
    BY <1>2 DEF RetryConnection, sharedVars
  <2>2. TypeOK
    BY DEF Control
  <2>3. /\ sessions' = [sessions EXCEPT ![a] = NoSession]
        /\ sessions' \in [Addr -> Session]
        /\ retiring' \subseteq Handle /\ opening' \subseteq Handle
        /\ alive' \subseteq Handle /\ writes' \subseteq Handle
    BY <2>1, <2>2, CloseEffect, SessionTypes
  <2>4. mainQ' \in Seq(Task) /\ timers' \subseteq Task
    <3>1. <<>> \in Seq(Task) /\ <<StartNext>> \in Seq(Task)
      BY TaskTypes
    <3>2. QED
      BY <2>1, <3>1, ThenTyped, ArmTyped
  <2>5. connecting' \in Addr \cup {NoAddr}
    BY <2>1, <2>2 DEF TypeOK
  <2>6. TypeOK'
    BY <2>1, <2>2, <2>3, <2>4, <2>5 DEF TypeOK, OthersTyped
  <2>7. SlotPending'
    BY <2>1 DEF Control, SlotPending, IsPending
  <2>8. OneAttempt'
    BY <2>1, <2>2, <2>3
    DEF Control, OneAttempt, HasSession, IsPending, TypeOK, NoSession, NewSession
  <2>9. OpenIsSettled'
    BY <2>1, <2>2, <2>3
    DEF Control, OpenIsSettled, HasSession, IsPending, TypeOK, NoSession, NewSession
  <2>10. InfoMatchesSessions'
    BY <2>1, <2>2, <2>3 DEF Control, InfoMatchesSessions, TypeOK, NoSession, NewSession
  <2>11. QED
    BY <2>6, <2>7, <2>8, <2>9, <2>10 DEF Control
<1>3. QED
  BY <1>1, <1>2

-----------------------------------------------------------------------------
\* try_next_channel keeps Control when the slot is free or the device's own.
LEMMA TryNextChannelControl ==
    ASSUME Control, OthersTyped, NEW a \in Addr, NEW chs, NEW c, GoodCtx(c),
           IsPending(a), connecting \in {a, NoAddr},
           TryNextChannel(a, chs, c)
    PROVE  Control'
<1>1. TypeOK
  BY DEF Control
<1>2. ~sessions[a].opened
  BY DEF Control, OpenIsSettled
<1>3. CASE FailConnection(a, FALSE, c)
  BY <1>3, FailConnectionControl
<1>4. CASE ~FailConnection(a, FALSE, c)
  <2> DEFINE retry == T("retry", a, connections[a].gen)
             timeout == T("openTimeout", a, nextId + 1)
  <2>1. nextId' = nextId + 1 /\ nextId' \in Nat /\ guarded' \subseteq Addr
    <3>1. nextId' = nextId + 1 /\ guarded' = c.guarded
      BY <1>4, Zenon DEF TryNextChannel
    <3>2. QED
      BY <1>1, <3>1 DEF GoodCtx, TypeOK
  <2>2. retry \in Task /\ timeout \in Task
    <3>1. connections[a].gen \in Nat /\ nextId + 1 \in Nat
      BY <1>1 DEF TypeOK, Pending
    <3>2. QED
      BY <3>1, TaskTypes DEF Kind
  <2>3. ASSUME NEW opened \in BOOLEAN,
               Close(a, NewSession(nextId + 1, opened), FALSE)
        PROVE  /\ sessions' = [sessions EXCEPT ![a] = NewSession(nextId + 1, opened)]
               /\ sessions' \in [Addr -> Session]
               /\ retiring' \subseteq Handle /\ opening' \subseteq Handle
               /\ alive' \subseteq Handle /\ writes' \subseteq Handle
    <3>1. NewSession(nextId + 1, opened) \in Session
      BY <1>1, SessionTypes DEF TypeOK
    <3>2. QED
      BY <1>1, <2>3, <3>1, CloseEffect
  <2>4. ASSUME HoldSlot(a, chs, c)
        PROVE  /\ connections' \in [Addr -> Pending]
               /\ \A b \in Addr : connections'[b].gen = connections[b].gen
               /\ connecting' = a
    BY <1>1, <2>4 DEF HoldSlot, TypeOK, Pending
  <2>5. CASE /\ Close(a, NoSession, FALSE) /\ HoldSlot(a, chs, c)
             /\ Then(c, <<retry>>) /\ Arm(c, {})
             /\ UNCHANGED info
    <3>1. /\ sessions' = [sessions EXCEPT ![a] = NoSession]
          /\ sessions' \in [Addr -> Session]
          /\ retiring' \subseteq Handle /\ opening' \subseteq Handle
          /\ alive' \subseteq Handle /\ writes' \subseteq Handle
      BY <1>1, <2>5, CloseEffect, SessionTypes
    <3>2. mainQ' \in Seq(Task) /\ timers' \subseteq Task
      <4>1. <<retry>> \in Seq(Task)
        BY <2>2
      <4>2. QED
        BY <2>5, <4>1, ThenTyped, ArmTyped
    <3>3. TypeOK'
      BY <1>1, <2>1, <2>4, <2>5, <3>1, <3>2 DEF TypeOK, OthersTyped
    <3>4. SlotPending'
      BY <1>1, <2>4, <2>5 DEF SlotPending, IsPending, TypeOK, Pending
    <3>5. OneAttempt'
      BY <1>1, <2>4, <2>5, <3>1
      DEF Control, OneAttempt, HasSession, IsPending, TypeOK, NoSession, NewSession
    <3>6. OpenIsSettled' /\ InfoMatchesSessions'
      BY <1>1, <1>2, <2>4, <2>5, <3>1
      DEF Control, OpenIsSettled, InfoMatchesSessions, HasSession, IsPending, TypeOK,
          Pending, NoSession, NewSession
    <3>7. QED
      BY <3>3, <3>4, <3>5, <3>6 DEF Control
  <2>6. CASE /\ Close(a, NewSession(nextId + 1, FALSE), FALSE) /\ HoldSlot(a, chs, c)
             /\ Then(c, <<>>) /\ Arm(c, {timeout})
             /\ UNCHANGED info
    <3>1. mainQ' \in Seq(Task) /\ timers' \subseteq Task
      <4>1. <<>> \in Seq(Task) /\ {timeout} \in SUBSET Task
        BY <2>2
      <4>2. QED
        BY <2>6, <4>1, ThenTyped, ArmTyped
    <3>2. sessions' = [sessions EXCEPT ![a] = NewSession(nextId + 1, FALSE)]
      BY <2>3, <2>6
    <3>3. /\ \A b \in Addr : connections'[b].gen = connections[b].gen
          /\ connecting' = a
      BY <2>4, <2>6
    <3>4. TypeOK'
      BY <1>1, <2>1, <2>3, <2>4, <2>6, <3>1 DEF TypeOK, OthersTyped
    <3>5. SlotPending'
      BY <1>1, <3>3 DEF SlotPending, IsPending, TypeOK
    <3>6. OneAttempt'
      BY <1>1, <3>2, <3>3
      DEF Control, OneAttempt, HasSession, IsPending, TypeOK, NewSession
    <3>7. OpenIsSettled' /\ InfoMatchesSessions'
      BY <1>1, <1>2, <2>6, <3>2, <3>3
      DEF Control, OpenIsSettled, InfoMatchesSessions, HasSession, IsPending, TypeOK,
          NewSession
    <3>8. QED
      BY <3>4, <3>5, <3>6, <3>7 DEF Control
  <2>7. CASE /\ Close(a, NewSession(nextId + 1, TRUE), FALSE) /\ ReleaseSlot(a, c)
             /\ info' = info \cup {a}
             /\ Then(c, <<StartNext>>) /\ Arm(c, {timeout})
    <3>1. mainQ' \in Seq(Task) /\ timers' \subseteq Task
      <4>1. <<StartNext>> \in Seq(Task) /\ {timeout} \in SUBSET Task
        BY <2>2, TaskTypes
      <4>2. QED
        BY <2>7, <4>1, ThenTyped, ArmTyped
    <3>2. /\ connections' = [connections EXCEPT ![a] = NoPending]
          /\ connections' \in [Addr -> Pending]
          /\ connecting' = IF connecting = a THEN NoAddr ELSE connecting
          /\ connecting' \in Addr \cup {NoAddr}
      BY <1>1, <2>7, ReleaseEffect
    <3>3. sessions' = [sessions EXCEPT ![a] = NewSession(nextId + 1, TRUE)]
      BY <2>3, <2>7
    <3>4. TypeOK'
      BY <1>1, <2>1, <2>3, <2>7, <3>1, <3>2 DEF TypeOK, OthersTyped
    <3>5. connecting' = NoAddr
      BY <3>2
    <3>6. SlotPending'
      BY <3>5 DEF SlotPending
    <3>7. OneAttempt'
      BY <1>1, <3>2, <3>3
      DEF Control, OneAttempt, HasSession, IsPending, TypeOK, NewSession
    <3>8. OpenIsSettled' /\ InfoMatchesSessions'
      BY <1>1, <1>2, <2>1, <2>7, <3>2, <3>3
      DEF Control, OpenIsSettled, InfoMatchesSessions, HasSession, IsPending, TypeOK,
          NewSession, NoPending
    <3>9. QED
      BY <3>4, <3>6, <3>7, <3>8 DEF Control
  <2>8. QED
    BY <1>4, <2>5, <2>6, <2>7 DEF TryNextChannel
<1>5. QED
  BY <1>3, <1>4

\* finish_sdp keeps Control: it only chooses the channels that are tried.
LEMMA FinishSdpControl ==
    ASSUME Control, budget' = budget, NEW a \in Addr, NEW found \in BOOLEAN,
           NEW c, GoodCtx(c), IsPending(a), connecting \in {a, NoAddr},
           FinishSdp(a, found, c)
    PROVE  Control'
<1>1. OthersTyped
  BY DEF FinishSdp, OthersTyped, Control, TypeOK
<1>2. PICK chs : TryNextChannel(a, chs, c)
  BY DEF FinishSdp
<1>3. QED
  BY <1>1, <1>2, TryNextChannelControl

\* start_next_connection keeps Control when it takes the free slot.
LEMMA StartConnectionControl ==
    ASSUME Control, budget' = budget, NEW a \in Addr, IsPending(a),
           connecting = NoAddr, NEW c, GoodCtx(c), StartConnection(a, c)
    PROVE  Control'
<1>1. TypeOK
  BY DEF Control
<1>2. \A guarding \in Guardings(c, a) : GoodCtx(guarding)
  BY DEF GoodCtx, Guardings, Guarding, Ctx
<1>4. CASE TryNextChannel(a, channelsLeft[a], c) /\ UNCHANGED <<sdpActive, cached>>
  <2>1. OthersTyped
    BY <1>1, <1>4 DEF OthersTyped, TypeOK
  <2>2. QED
    BY <1>4, <2>1, TryNextChannelControl
<1>5. ASSUME NEW guarding \in Guardings(c, a), NEW found \in BOOLEAN,
             FinishSdp(a, found, guarding)
      PROVE  Control'
  BY <1>2, <1>5, FinishSdpControl
<1>6. ASSUME NEW guarding \in Guardings(c, a), BeginSdp(a, guarding)
      PROVE  Control'
  <2>1. /\ GoodCtx(guarding) /\ guarded' = guarding.guarded
        /\ connecting' = a
        /\ sdpActive' = sdpActive \cup {a}
        /\ Then(guarding, <<>>) /\ Arm(guarding, {Poll(a, connections[a].gen, 0)})
        /\ UNCHANGED <<sessions, retiring, connections, channelsLeft, nextId,
                       info, opening, alive, writes, cached>>
    BY <1>2, <1>6 DEF BeginSdp
  <2>2. mainQ' \in Seq(Task) /\ timers' \subseteq Task
    <3>1. connections[a].gen \in Nat /\ 0 \in Nat
      BY <1>1 DEF TypeOK, Pending
    <3>2. <<>> \in Seq(Task) /\ {Poll(a, connections[a].gen, 0)} \in SUBSET Task
      BY <3>1, TaskTypes
    <3>3. QED
      BY <2>1, <3>2, ThenTyped, ArmTyped
  <2>3. guarded' \subseteq Addr
    BY <2>1 DEF GoodCtx
  <2>4. TypeOK'
    BY <1>1, <2>1, <2>2, <2>3 DEF TypeOK
  <2>5. SlotPending'
    BY <2>1 DEF SlotPending, IsPending
  <2>6. OneAttempt'
    BY <2>1 DEF Control, OneAttempt, HasSession, IsPending
  <2>7. OpenIsSettled' /\ InfoMatchesSessions'
    BY <2>1 DEF Control, OpenIsSettled, InfoMatchesSessions, HasSession, IsPending
  <2>8. QED
    BY <2>4, <2>5, <2>6, <2>7 DEF Control
<1>7. QED
  BY <1>4, <1>5, <1>6 DEF StartConnection

-----------------------------------------------------------------------------
\* A step that leaves alone what Control is about, but for well-typed changes.
LEMMA ControlUntouched ==
    ASSUME Control, TypeOK', UNCHANGED <<connections, connecting, info>>,
           \A a \in Addr : /\ sessions'[a].gen = sessions[a].gen
                           /\ sessions'[a].opened = sessions[a].opened
    PROVE  Control'
  BY DEF Control, SlotPending, OneAttempt, OpenIsSettled, InfoMatchesSessions,
         HasSession, IsPending

\* start_next_connection keeps Control, whether the slot is taken, nobody waits, or
\* the first pending device gets it.
LEMMA RunStartNextControl ==
    ASSUME Control, RunStartNext
    PROVE  Control'
<1>1. TypeOK /\ mainQ # <<>> /\ GoodCtx(FromQueue) /\ budget' = budget
  BY Contexts DEF Control, RunStartNext, Runs
<1>2. ASSUME UNCHANGED <<sessions, retiring, connections, connecting, nextId, info,
                         guarded, timers, opening, alive, writes, sdpActive, cached>>,
             Then(FromQueue, <<>>)
      PROVE  Control'
  <2>1. mainQ' \in Seq(Task)
    BY <1>1, <1>2, TaskTypes, ThenTyped
  <2>2. TypeOK'
    BY <1>1, <1>2, <2>1 DEF TypeOK
  <2>3. QED
    BY <1>2, <2>2, ControlUntouched
<1>3. ASSUME NEW a \in Addr, NEW i \in DOMAIN connectQueue, connecting = NoAddr,
             a = connectQueue[i], IsNext(i), StartConnection(a, Popped(i))
      PROVE  Control'
  <2>1. IsPending(a)
    BY <1>3 DEF IsNext
  <2>2. GoodCtx(Popped(i))
    BY <1>1 DEF GoodCtx, FromQueue, Popped, Ctx
  <2>3. QED
    BY <1>1, <1>3, <2>1, <2>2, StartConnectionControl
<1>4. QED
  BY <1>2, <1>3 DEF RunStartNext, mainVars, sharedVars, nativeVars

\* A poll of the SDP cache keeps Control, stale, resolved, given up or armed again.
LEMMA RunPollControl ==
    ASSUME Control, NEW t \in timers, RunPoll(t)
    PROVE  Control'
<1>1. /\ TypeOK /\ GoodCtx(FromTimer(t)) /\ t \in Task
      /\ t.kind = "poll" /\ budget' = budget
  BY Contexts DEF Control, RunPoll
<1>2. t.addr \in Addr /\ t.gen \in Nat /\ t.n \in Nat
  BY <1>1 DEF Task
<1>3. PollIsCurrent(t) => IsPending(t.addr) /\ connecting = t.addr
  BY <1>2 DEF PollIsCurrent, Control, SlotPending
<1>4. CASE /\ timers' = timers \ {t}
           /\ UNCHANGED <<mainVars, sharedVars, mainQ, nativeVars>>
  <2>1. TypeOK'
    BY <1>1, <1>4 DEF TypeOK, mainVars, sharedVars, nativeVars
  <2>2. QED
    BY <1>4, <2>1, ControlUntouched DEF mainVars, sharedVars
<1>5. ASSUME NEW found \in BOOLEAN, PollIsCurrent(t),
             FinishSdp(t.addr, found, FromTimer(t))
      PROVE  Control'
  BY <1>1, <1>2, <1>3, <1>5, FinishSdpControl
<1>6. CASE /\ Arm(FromTimer(t), {Poll(t.addr, t.gen, t.n + 1)})
           /\ UNCHANGED <<mainVars, sharedVars, mainQ, nativeVars>>
  <2>1. {Poll(t.addr, t.gen, t.n + 1)} \in SUBSET Task
    BY <1>2, TaskTypes
  <2>2. timers' \subseteq Task
    BY <1>1, <1>6, <2>1, ArmTyped
  <2>3. TypeOK'
    BY <1>1, <1>6, <2>2 DEF TypeOK, mainVars, sharedVars, nativeVars
  <2>4. QED
    BY <1>6, <2>3, ControlUntouched DEF mainVars, sharedVars
<1>7. QED
  BY <1>4, <1>5, <1>6 DEF RunPoll

\* The blocks that may call retry_connection: what they close was not open.
LEMMA RetryIfControl ==
    ASSUME Control, NEW current, NEW a, NEW c, GoodCtx(c),
           current => a \in Addr /\ ~sessions[a].opened,
           RetryIf(current, a, c)
    PROVE  Control'
<1>1. TypeOK /\ OthersTyped
  BY DEF RetryIf, OthersTyped, Control, TypeOK
<1>2. CASE current /\ RetryConnection(a, FALSE, c)
  BY <1>1, <1>2, RetryConnectionControl
<1>3. CASE /\ Then(c, <<>>) /\ Arm(c, {})
           /\ UNCHANGED <<mainVars, sharedVars, opening, alive, writes>>
  <2>1. mainQ' \in Seq(Task) /\ timers' \subseteq Task
    BY <1>3, TaskTypes, ThenTyped, ArmTyped
  <2>2. TypeOK'
    BY <1>1, <1>3, <2>1 DEF TypeOK, OthersTyped, mainVars, sharedVars
  <2>3. QED
    BY <1>3, <2>2, ControlUntouched DEF mainVars, sharedVars
<1>4. QED
  BY <1>2, <1>3 DEF RetryIf

\* The retry of a rejected open request keeps Control: a pending device has no open
\* session to lose.
LEMMA RunRetryControl ==
    ASSUME Control, RunRetry
    PROVE  Control'
<1> DEFINE t == Head(mainQ)
<1>1. GoodCtx(FromQueue) /\ t \in Task /\ t.kind = "retry"
  BY Contexts DEF RunRetry, Runs, Control
<1>2. t.addr \in Addr
  BY <1>1 DEF Task
<1>3. RetryIsCurrent(t) => ~sessions[t.addr].opened
  BY <1>2 DEF RetryIsCurrent, Control, OpenIsSettled
<1>4. RetryIf(RetryIsCurrent(t), t.addr, FromQueue)
  BY DEF RunRetry
<1>5. QED
  BY <1>1, <1>2, <1>3, <1>4, RetryIfControl

\* The open timeout keeps Control: it closes the session it was armed for, not open
\* yet.
LEMMA RunOpenTimeoutControl ==
    ASSUME Control, NEW t \in timers, RunOpenTimeout(t)
    PROVE  Control'
<1>1. GoodCtx(FromTimer(t)) /\ t \in Task /\ t.kind = "openTimeout"
  BY Contexts DEF RunOpenTimeout, Control
<1>2. t.addr \in Addr
  BY <1>1 DEF Task
<1>3. IsOpeningSession(t) => ~sessions[t.addr].opened
  BY DEF IsOpeningSession
<1>4. RetryIf(IsOpeningSession(t), t.addr, FromTimer(t))
  BY DEF RunOpenTimeout
<1>5. QED
  BY <1>1, <1>2, <1>3, <1>4, RetryIfControl

\* An openComplete with an error keeps Control: it closes a session not open yet.
LEMMA RunOpenFailedControl ==
    ASSUME Control, RunOpenFailed
    PROVE  Control'
<1> DEFINE t == Head(mainQ)
<1>1. GoodCtx(FromQueue) /\ t \in Task /\ t.kind = "openFailed"
  BY Contexts DEF RunOpenFailed, Runs, Control
<1>2. t.addr \in Addr
  BY <1>1 DEF Task
<1>3. IsOpeningSession(t) => ~sessions[t.addr].opened
  BY DEF IsOpeningSession
<1>4. RetryIf(IsOpeningSession(t), t.addr, FromQueue)
  BY DEF RunOpenFailed
<1>5. QED
  BY <1>1, <1>2, <1>3, <1>4, RetryIfControl

\* An openComplete with success keeps Control: the session opens, its device info is
\* published and its slot released in one block.
LEMMA RunOpenedControl ==
    ASSUME Control, RunOpened
    PROVE  Control'
<1> DEFINE t == Head(mainQ)
           a == t.addr
<1>1. GoodCtx(FromQueue) /\ t \in Task /\ t.kind = "opened" /\ TypeOK
  BY Contexts DEF RunOpened, Runs, Control
<1>2. a \in Addr
  BY <1>1 DEF Task
<1>3. UNCHANGED <<retiring, nextId, guarded, timers, opening, alive, writes,
                  sdpActive, cached, budget>>
  BY DEF RunOpened, nativeVars
<1>4. CASE /\ ~IsOpeningSession(t)
           /\ Then(FromQueue, <<>>)
           /\ UNCHANGED <<sessions, connections, channelsLeft, connectQueue,
                          connecting, info>>
  <2>1. mainQ' \in Seq(Task)
    BY <1>1, <1>4, TaskTypes, ThenTyped
  <2>2. TypeOK'
    BY <1>1, <1>3, <1>4, <2>1 DEF TypeOK
  <2>3. QED
    BY <1>4, <2>2, ControlUntouched
<1>5. ASSUME IsOpeningSession(t), sessions' = [sessions EXCEPT ![a].opened = TRUE],
             IsPending(a), info' = info \cup {a}, ReleaseSlot(a, FromQueue),
             Then(FromQueue, <<StartNext>>)
      PROVE  Control'
  <2>1. mainQ' \in Seq(Task)
    <3>1. <<StartNext>> \in Seq(Task)
      BY TaskTypes
    <3>2. QED
      BY <1>1, <1>5, <3>1, ThenTyped
  <2>2. /\ connections' = [connections EXCEPT ![a] = NoPending]
        /\ connections' \in [Addr -> Pending]
        /\ connecting' = IF connecting = a THEN NoAddr ELSE connecting
        /\ connecting' \in Addr \cup {NoAddr}
    BY <1>1, <1>2, <1>5, ReleaseEffect
  <2>3. HasSession(a) /\ connecting = a
    BY <1>2, <1>5 DEF IsOpeningSession, Matches, Control, OneAttempt
  <2>4. /\ sessions' \in [Addr -> Session]
        /\ \A b \in Addr : /\ sessions'[b].gen = sessions[b].gen
                            /\ sessions'[b].opened = (sessions[b].opened \/ b = a)
    <3>1. sessions \in [Addr -> Session]
      BY <1>1 DEF TypeOK
    <3>2. QED
      BY <1>1, <1>5, <3>1 DEF Session
  <2>5. TypeOK'
    BY <1>1, <1>2, <1>3, <1>5, <2>1, <2>2, <2>4 DEF TypeOK
  <2>6. SlotPending'
    BY <2>2, <2>3 DEF SlotPending
  <2>7. OneAttempt'
    BY <1>1, <1>2, <2>2, <2>3, <2>4
    DEF Control, OneAttempt, HasSession, IsPending, TypeOK
  <2>8. OpenIsSettled' /\ InfoMatchesSessions'
    BY <1>1, <1>2, <1>5, <2>2, <2>3, <2>4
    DEF Control, OpenIsSettled, InfoMatchesSessions, HasSession, IsPending, TypeOK,
        NoPending
  <2>9. QED
    BY <2>5, <2>6, <2>7, <2>8 DEF Control
<1>6. IsOpeningSession(t) => IsPending(a)
  BY <1>2 DEF IsOpeningSession, Matches, Control, OneAttempt
<1>7. QED
  BY <1>4, <1>5, <1>6 DEF RunOpened

\* rfcommChannelClosed keeps Control: the session of the channel ends, or its
\* connection is retried.
LEMMA RunClosedControl ==
    ASSUME Control, RunClosed
    PROVE  Control'
<1> DEFINE t == Head(mainQ)
           a == t.addr
           h == [addr |-> a, gen |-> t.gen]
           current == h \notin retiring /\ Matches(a, t.gen)
<1>1. /\ GoodCtx(FromQueue) /\ t \in Task /\ t.kind = "closed" /\ TypeOK
      /\ UNCHANGED <<sdpActive, cached, budget>>
  BY Contexts DEF RunClosed, Runs, Control
<1>2. a \in Addr
  BY <1>1 DEF Task
<1>3. OthersTyped
  BY <1>1 DEF OthersTyped, TypeOK
<1>4. ASSUME Then(FromQueue, <<>>)
      PROVE  mainQ' \in Seq(Task)
  BY <1>1, <1>4, TaskTypes, ThenTyped
<1>5. CASE /\ Release(h)
           /\ Then(FromQueue, <<>>)
           /\ UNCHANGED <<sessions, connections, channelsLeft, connectQueue, connecting,
                          nextId, sharedVars, timers, opening, writes>>
  <2>1. TypeOK'
    BY <1>1, <1>4, <1>5 DEF TypeOK, Release, sharedVars
  <2>2. QED
    BY <1>5, <2>1, ControlUntouched DEF sharedVars
<1>6. CASE IsPending(a) /\ RetryConnection(a, TRUE, FromQueue)
  <2>1. ~sessions[a].opened
    BY <1>2, <1>6 DEF Control, OpenIsSettled
  <2>2. QED
    BY <1>1, <1>2, <1>3, <1>6, <2>1, RetryConnectionControl
<1>7. CASE /\ ~IsPending(a)
           /\ Close(a, NoSession, TRUE)
           /\ Forget(a, FromQueue)
           /\ Then(FromQueue, <<>>)
           /\ UNCHANGED <<connections, channelsLeft, connectQueue, connecting, nextId,
                          timers>>
  <2>1. /\ sessions' = [sessions EXCEPT ![a] = NoSession]
        /\ sessions' \in [Addr -> Session]
        /\ retiring' \subseteq Handle /\ opening' \subseteq Handle
        /\ alive' \subseteq Handle /\ writes' \subseteq Handle
    BY <1>1, <1>2, <1>7, CloseEffect, SessionTypes
  <2>2. info' = info \ {a} /\ guarded' \subseteq Addr
    BY <1>1, <1>7 DEF Forget, GoodCtx
  <2>3. TypeOK'
    BY <1>1, <1>4, <1>7, <2>1, <2>2 DEF TypeOK
  <2>4. SlotPending'
    BY <1>7 DEF Control, SlotPending, IsPending
  <2>5. OneAttempt'
    BY <1>1, <1>7, <2>1
    DEF Control, OneAttempt, HasSession, IsPending, TypeOK, NoSession, NewSession
  <2>6. OpenIsSettled' /\ InfoMatchesSessions'
    BY <1>1, <1>7, <2>1, <2>2
    DEF Control, OpenIsSettled, InfoMatchesSessions, HasSession, IsPending, TypeOK,
        NoSession, NewSession
  <2>7. QED
    BY <2>3, <2>4, <2>5, <2>6 DEF Control
<1>8. QED
  BY <1>5, <1>6, <1>7 DEF RunClosed

\* The release of a retiring session keeps Control.
LEMMA RunReleaseControl ==
    ASSUME Control, RunRelease
    PROVE  Control'
<1>1. TypeOK /\ GoodCtx(FromQueue)
  BY Contexts DEF RunRelease, Runs, Control
<1>2. mainQ' \in Seq(Task)
  BY <1>1, TaskTypes, ThenTyped DEF RunRelease
<1>3. TypeOK'
  BY <1>1, <1>2 DEF TypeOK, RunRelease, Release, sharedVars
<1>4. QED
  BY <1>3, ControlUntouched DEF RunRelease, sharedVars

\* The block of fail_session_later keeps Control.
LEMMA RunFailControl ==
    ASSUME Control, RunFail
    PROVE  Control'
<1> DEFINE t == Head(mainQ)
<1>1. /\ GoodCtx(FromQueue) /\ t \in Task /\ t.kind = "fail" /\ TypeOK
      /\ UNCHANGED <<sdpActive, cached, budget>>
  BY Contexts DEF RunFail, Runs, Control
<1>2. t.addr \in Addr /\ OthersTyped
  BY <1>1 DEF Task, OthersTyped, TypeOK
<1>3. CASE FailConnection(t.addr, FALSE, FromQueue)
  BY <1>1, <1>2, <1>3, FailConnectionControl
<1>4. CASE /\ Then(FromQueue, <<>>)
           /\ UNCHANGED <<mainVars, sharedVars, timers, opening, alive, writes>>
  <2>1. mainQ' \in Seq(Task)
    BY <1>1, <1>4, TaskTypes, ThenTyped
  <2>2. TypeOK'
    BY <1>1, <1>4, <2>1 DEF TypeOK, mainVars, sharedVars
  <2>3. QED
    BY <1>4, <2>2, ControlUntouched DEF mainVars, sharedVars
<1>5. QED
  BY <1>3, <1>4 DEF RunFail

-----------------------------------------------------------------------------
\* Counting a call keeps the bounds' counters well-typed.
LEMMA SpendTyped ==
    ASSUME TypeOK, NEW k \in {"connect", "send", "end"}, NEW n,
           Spend(k, n)
    PROVE  budget' \in [{"connect", "send", "end"} -> Nat]
  BY DEF TypeOK, Spend

\* connect keeps Control: it adds a pending connection to a device without one.
LEMMA ConnectControl ==
    ASSUME Control, NEW a \in Addr, Connect(a)
    PROVE  Control'
<1> DEFINE p == [gen |-> nextId + 1, resolved |-> FALSE]
<1>1. TypeOK /\ GoodCtx(FromCaller)
  BY Contexts DEF Control
<1>2. budget' \in [{"connect", "send", "end"} -> Nat]
  BY <1>1, SpendTyped DEF Connect
<1>3. /\ ~IsPending(a) /\ ~HasSession(a) /\ nextId' = nextId + 1
      /\ connections' = [connections EXCEPT ![a] = p]
      /\ Then(FromCaller, <<StartNext>>)
      /\ UNCHANGED <<sessions, retiring, connecting, info, guarded, timers, opening,
                     alive, writes, sdpActive, cached>>
  BY DEF Connect, sharedVars, nativeVars
<1>4. mainQ' \in Seq(Task)
  <2>1. <<StartNext>> \in Seq(Task)
    BY TaskTypes
  <2>2. QED
    BY <1>1, <1>3, <2>1, ThenTyped
<1>5. TypeOK'
  BY <1>1, <1>2, <1>3, <1>4 DEF TypeOK, Pending
<1>6. SlotPending'
  BY <1>1, <1>3 DEF Control, SlotPending, IsPending, TypeOK
<1>7. OneAttempt'
  BY <1>1, <1>3 DEF Control, OneAttempt, HasSession, IsPending, TypeOK
<1>8. OpenIsSettled' /\ InfoMatchesSessions'
  BY <1>1, <1>3
  DEF Control, OpenIsSettled, InfoMatchesSessions, HasSession, IsPending, TypeOK
<1>9. QED
  BY <1>5, <1>6, <1>7, <1>8 DEF Control

\* disconnect keeps Control.
LEMMA DisconnectControl ==
    ASSUME Control, NEW a \in Addr, Disconnect(a)
    PROVE  Control'
<1>1. TypeOK /\ GoodCtx(FromCaller)
  BY Contexts DEF Control
<1>2. OthersTyped
  BY <1>1, SpendTyped DEF Disconnect, OthersTyped, TypeOK
<1>3. QED
  BY <1>1, <1>2, FailConnectionControl DEF Disconnect

\* disconnect_all keeps Control: it ends everything at once.
LEMMA DisconnectAllControl ==
    ASSUME Control, DisconnectAll
    PROVE  Control'
<1>1. TypeOK
  BY DEF Control
<1>2. budget' \in [{"connect", "send", "end"} -> Nat]
  BY <1>1, SpendTyped DEF DisconnectAll
<1>3. /\ sessions' = [a \in Addr |-> NoSession]
      /\ connections' = [a \in Addr |-> NoPending]
      /\ connecting' = NoAddr /\ info' = {} /\ guarded' = {}
      /\ UNCHANGED <<nextId, mainQ, timers, sdpActive, cached>>
  BY DEF DisconnectAll, loopVars
<1>4. /\ retiring' \subseteq Handle /\ opening' \subseteq Handle
      /\ alive' \subseteq Handle /\ writes' \subseteq Handle
  <2>1. \A a \in Addr : HandleOf(a) \in Handle
    BY <1>1, HandleTypes
  <2>2. QED
    BY <1>1, <2>1 DEF DisconnectAll, TypeOK
<1>5. TypeOK'
  BY <1>1, <1>2, <1>3, <1>4, SessionTypes DEF TypeOK
<1>6. QED
  BY <1>3, <1>5
  DEF Control, SlotPending, OneAttempt, OpenIsSettled, InfoMatchesSessions, HasSession,
      IsPending, NoSession, NewSession, NoPending

-----------------------------------------------------------------------------
\* A callback posts one block.
LEMMA PostTyped ==
    ASSUME TypeOK, NEW t \in Task, Post(t)
    PROVE  mainQ' \in Seq(Task)
  BY DEF TypeOK, Post

\* A session that is marked changes neither its generation nor whether it is open.
LEMMA FailLaterEffect ==
    ASSUME TypeOK, NEW a \in Addr, FailLater(a)
    PROVE  /\ sessions' \in [Addr -> Session] /\ mainQ' \in Seq(Task)
           /\ \A b \in Addr : /\ sessions'[b].gen = sessions[b].gen
                               /\ sessions'[b].opened = sessions[b].opened
<1>1. T("fail", a, sessions[a].gen) \in Task
  BY TaskTypes DEF TypeOK, Session, Kind
<1>2. mainQ' \in Seq(Task)
  BY <1>1, PostTyped DEF FailLater
<1>3. Failed(a) \in Session
  BY DEF Failed, TypeOK, Session
<1>4. sessions' \in [Addr -> Session]
  BY <1>3 DEF FailLater, TypeOK
<1>5. \A b \in Addr : /\ sessions'[b].gen = sessions[b].gen
                      /\ sessions'[b].opened = sessions[b].opened
  BY DEF FailLater, Failed, TypeOK
<1>6. QED
  BY <1>2, <1>4, <1>5

\* The delivery of openComplete keeps Control: it only posts a block.
LEMMA OpenCompleteControl ==
    ASSUME Control, NEW h \in opening, NEW status \in {"opened", "openFailed"},
           OpenComplete(h, status)
    PROVE  Control'
<1>1. TypeOK /\ h.addr \in Addr /\ h.gen \in Nat
  BY DEF Control, TypeOK, Handle
<1>2. T(status, h.addr, h.gen) \in Task
  BY <1>1, TaskTypes DEF Kind
<1>3. mainQ' \in Seq(Task)
  BY <1>1, <1>2, PostTyped DEF OpenComplete
<1>4. TypeOK'
  BY <1>1, <1>3 DEF TypeOK, OpenComplete, mainVars, sharedVars
<1>5. QED
  BY <1>4, ControlUntouched DEF OpenComplete, mainVars, sharedVars

\* The delivery of rfcommChannelClosed keeps Control: it only posts a block.
LEMMA ChannelClosedControl ==
    ASSUME Control, NEW h \in alive, ChannelClosed(h)
    PROVE  Control'
<1>1. TypeOK /\ h.addr \in Addr /\ h.gen \in Nat
  BY DEF Control, TypeOK, Handle
<1>2. T("closed", h.addr, h.gen) \in Task
  BY <1>1, TaskTypes DEF Kind
<1>3. mainQ' \in Seq(Task)
  BY <1>1, <1>2, PostTyped DEF ChannelClosed
<1>4. budget' \in [{"connect", "send", "end"} -> Nat]
  BY <1>1, SpendTyped DEF ChannelClosed
<1>5. TypeOK'
  BY <1>1, <1>3, <1>4 DEF TypeOK, ChannelClosed, mainVars, sharedVars
<1>6. QED
  BY <1>5, ControlUntouched DEF ChannelClosed, mainVars, sharedVars

\* The end of an SDP query keeps Control.
LEMMA SdpCompleteControl ==
    ASSUME Control, NEW a \in sdpActive, NEW found \in BOOLEAN, SdpComplete(a, found)
    PROVE  Control'
<1>1. TypeOK'
  BY DEF Control, TypeOK, SdpComplete, mainVars, sharedVars, loopVars
<1>2. QED
  BY <1>1, ControlUntouched DEF SdpComplete, mainVars, sharedVars

\* A send that starts keeps Control: the session stays what it was otherwise.
LEMMA StartSendControl ==
    ASSUME Control, NEW a \in Addr, StartSend(a)
    PROVE  Control'
<1>1. TypeOK /\ HandleOf(a) \in Handle
  BY HandleTypes DEF Control
<1>2. budget' \in [{"connect", "send", "end"} -> Nat]
  BY <1>1, SpendTyped DEF StartSend
<1>3. /\ sessions' \in [Addr -> Session]
      /\ \A b \in Addr : /\ sessions'[b].gen = sessions[b].gen
                          /\ sessions'[b].opened = sessions[b].opened
  <2>1. sessions \in [Addr -> Session]
    BY <1>1 DEF TypeOK
  <2>2. QED
    BY <2>1 DEF StartSend, Session
<1>4. TypeOK'
  BY <1>1, <1>2, <1>3 DEF TypeOK, StartSend, sharedVars, loopVars
<1>5. QED
  BY <1>3, <1>4, ControlUntouched DEF StartSend, sharedVars

\* A refused write keeps Control: it marks the session and posts its teardown.
LEMMA RejectWriteControl ==
    ASSUME Control, NEW a \in Addr, RejectWrite(a)
    PROVE  Control'
<1>1. TypeOK
  BY DEF Control
<1>2. /\ sessions' \in [Addr -> Session] /\ mainQ' \in Seq(Task)
      /\ \A b \in Addr : /\ sessions'[b].gen = sessions[b].gen
                          /\ sessions'[b].opened = sessions[b].opened
  BY <1>1, FailLaterEffect DEF RejectWrite
<1>3. TypeOK'
  BY <1>1, <1>2 DEF TypeOK, RejectWrite, sharedVars
<1>4. QED
  BY <1>2, <1>3, ControlUntouched DEF RejectWrite, sharedVars

\* A write completion keeps Control: it neither opens nor ends a session.
LEMMA WriteCompleteControl ==
    ASSUME Control, NEW h \in writes, NEW ok \in BOOLEAN, WriteComplete(h, ok)
    PROVE  Control'
<1>1. TypeOK /\ h.addr \in Addr /\ h.gen \in Nat
  BY DEF Control, TypeOK, Handle
<1>2. /\ sessions' \in [Addr -> Session] /\ mainQ' \in Seq(Task)
      /\ \A b \in Addr : /\ sessions'[b].gen = sessions[b].gen
                          /\ sessions'[b].opened = sessions[b].opened
  <2>1. CASE Post(T("release", h.addr, h.gen)) /\ UNCHANGED sessions
    <3>1. T("release", h.addr, h.gen) \in Task
      BY <1>1, TaskTypes DEF Kind
    <3>2. QED
      BY <1>1, <2>1, <3>1, PostTyped DEF TypeOK
  <2>2. CASE FailLater(h.addr)
    BY <1>1, <2>2, FailLaterEffect
  <2>3. CASE /\ sessions' = [sessions EXCEPT ![h.addr].inFlight = FALSE]
             /\ UNCHANGED mainQ
    <3>1. sessions \in [Addr -> Session] /\ mainQ \in Seq(Task)
      BY <1>1 DEF TypeOK
    <3>2. QED
      BY <1>1, <2>3, <3>1 DEF Session
  <2>4. CASE UNCHANGED <<sessions, mainQ>>
    BY <1>1, <2>4 DEF TypeOK
  <2>5. QED
    BY <2>1, <2>2, <2>3, <2>4 DEF WriteComplete
<1>3. TypeOK'
  BY <1>1, <1>2 DEF TypeOK, WriteComplete, sharedVars
<1>4. QED
  BY <1>2, <1>3, ControlUntouched DEF WriteComplete, sharedVars

-----------------------------------------------------------------------------
\* Control holds initially: nothing is connected and nothing is pending.
LEMMA InitControl == Init => Control
<1> SUFFICES ASSUME Init PROVE Control
  OBVIOUS
<1>1. TypeOK
  BY PairedAssumption, SessionTypes DEF Init, TypeOK
<1>2. QED
  BY <1>1
  DEF Init, Control, SlotPending, OneAttempt, OpenIsSettled, InfoMatchesSessions,
      HasSession, NoSession, NewSession

\* Control is inductive: every block, timer, callback and call keeps it.
LEMMA NextControl == Control /\ [Next]_vars => Control'
<1> SUFFICES ASSUME Control, [Next]_vars PROVE Control'
  OBVIOUS
<1>1. CASE RunBlock
  BY <1>1, RunStartNextControl, RunRetryControl, RunOpenFailedControl, RunOpenedControl,
     RunClosedControl, RunReleaseControl, RunFailControl DEF RunBlock
<1>2. CASE RunTimer
  BY <1>2, RunPollControl, RunOpenTimeoutControl DEF RunTimer
<1>3. CASE Native
  BY <1>3, OpenCompleteControl, ChannelClosedControl, SdpCompleteControl,
     WriteCompleteControl DEF Native
<1>4. CASE Callers
  BY <1>4, ConnectControl, DisconnectControl, DisconnectAllControl, StartSendControl,
     RejectWriteControl DEF Callers
<1>5. CASE UNCHANGED vars
  <2>1. TypeOK'
    BY <1>5 DEF Control, TypeOK, vars, mainVars, sharedVars, loopVars, nativeVars
  <2>2. QED
    BY <1>5, <2>1, ControlUntouched DEF vars, mainVars, sharedVars
<1>6. QED
  BY <1>1, <1>2, <1>3, <1>4, <1>5 DEF Next

\* Sessions, pending connections, the slot and the published device info belong
\* together in every reachable state (the inductive invariant of this module).
THEOREM ControlInvariant == Spec => []Control
  BY InitControl, NextControl, PTL DEF Spec

\* The types of MacConnection's state (MainThreadState, the shared maps, the posted
\* blocks) hold in every reachable state, whatever the bounds.
THEOREM TypeCorrect == Spec => []TypeOK
  BY ControlInvariant, PTL DEF Control

\* Connection establishment is serialized: at most one session is being opened, and
\* it belongs to the device that holds the slot, for any number of devices.
THEOREM OneAttemptHolds == Spec => []OneAttempt
  BY ControlInvariant, PTL DEF Control

\* get_connected_device_info answers for a device exactly while it has an open
\* session, however openings, failures, closures and disconnects interleave.
THEOREM InfoMatchesSessionsHolds == Spec => []InfoMatchesSessions
  BY ControlInvariant, PTL DEF Control

-----------------------------------------------------------------------------
(***************************************************************************)
(* The backend implements ConnectionSlot: each step is a step of the slot, *)
(* or leaves it alone.                                                     *)
(***************************************************************************)
\* The status the refinement mapping gives every device.
Status == [a \in Addr |-> IF sessions[a].opened THEN "connected"
                          ELSE IF IsPending(a) THEN "connecting" ELSE "idle"]

SlotStep == [Slot!SlotNext]_(Slot!slotVars)

\* What a step does to the mapped state decides which step of the slot it is.
LEMMA MappedStep ==
    ASSUME NEW a \in Addr,
           \/ Status' = Status /\ connecting' = connecting
           \/ Status' = Status /\ connecting # NoAddr /\ connecting' = NoAddr
           \/ /\ Status[a] = "idle" /\ Status' = [Status EXCEPT ![a] = "connecting"]
              /\ connecting' = connecting
           \/ /\ Status[a] = "connecting" /\ Status' = Status
              /\ connecting = NoAddr /\ connecting' = a
           \/ /\ Status[a] = "connecting" /\ Status' = [Status EXCEPT ![a] = "connected"]
              /\ connecting \in {a, NoAddr} /\ connecting' = NoAddr
           \/ /\ Status[a] # "idle" /\ Status' = [Status EXCEPT ![a] = "idle"]
              /\ connecting' = IF connecting = a THEN NoAddr ELSE connecting
    PROVE  SlotStep
  BY DEF SlotStep, Status, Slot!SlotNext, Slot!slotVars, Slot!Request, Slot!Begin,
         Slot!Establish, Slot!End, Slot!Yield

\* Devices whose session and pending connection keep what the mapping looks at keep
\* their status.
LEMMA StatusOf ==
    ASSUME NEW a \in Addr,
           \A b \in Addr \ {a} : /\ sessions'[b].opened = sessions[b].opened
                                 /\ connections'[b].gen = connections[b].gen
    PROVE  Status' = [Status EXCEPT ![a] = Status'[a]]
<1>1. \A b \in Addr \ {a} : Status'[b] = Status[b]
  BY DEF Status, IsPending
<1>2. /\ Status = [b \in Addr |-> Status[b]]
      /\ Status' = [b \in Addr |-> Status'[b]]
  BY DEF Status
<1>3. QED
  BY <1>1, <1>2

\* fail_connection ends a device's connection or attempt, or finds nothing to end.
LEMMA FailConnectionSlot ==
    ASSUME Control, NEW a \in Addr, NEW already \in BOOLEAN, NEW c,
           FailConnection(a, already, c)
    PROVE  SlotStep
<1>1. TypeOK
  BY DEF Control
<1>2. sessions' = [sessions EXCEPT ![a] = NoSession]
  BY DEF FailConnection, Close
<1>3. /\ connections' = [connections EXCEPT ![a] = NoPending]
      /\ connecting' = IF connecting = a THEN NoAddr ELSE connecting
  BY <1>1, ReleaseEffect DEF FailConnection
<1>4. Status' = [Status EXCEPT ![a] = Status'[a]]
  BY <1>1, <1>2, <1>3, StatusOf DEF TypeOK
<1>5. Status'[a] = "idle"
  BY <1>1, <1>2, <1>3
  DEF TypeOK, Status, IsPending, NoSession, NewSession, NoPending
<1>6. CASE Status[a] # "idle"
  BY <1>3, <1>4, <1>5, <1>6, MappedStep
<1>7. CASE Status[a] = "idle"
  <2>1. Status' = Status
    BY <1>4, <1>5, <1>7 DEF Status
  <2>2. connecting' = connecting
    BY <1>3, <1>7 DEF Control, SlotPending, Status
  <2>3. QED
    BY <2>1, <2>2, MappedStep
<1>8. QED
  BY <1>6, <1>7

\* retry_connection ends the attempt, or yields the slot, or only drops a session that
\* was not open.
LEMMA RetryConnectionSlot ==
    ASSUME Control, NEW a \in Addr, NEW already \in BOOLEAN, NEW c,
           ~sessions[a].opened, RetryConnection(a, already, c)
    PROVE  SlotStep
<1>1. CASE FailConnection(a, already, c)
  BY <1>1, FailConnectionSlot
<1>2. CASE /\ Close(a, NoSession, already)
           /\ connections' = connections
           /\ \/ connecting' = connecting
              \/ connecting' = IF connecting = a THEN NoAddr ELSE connecting
  <2>1. sessions' = [sessions EXCEPT ![a] = NoSession]
    BY <1>2 DEF Close
  <2>2. Status' = Status
    BY <1>2, <2>1 DEF Control, TypeOK, Status, IsPending, NoSession, NewSession
  <2>3. QED
    BY <1>2, <2>2, MappedStep, AddrAssumption
<1>3. QED
  BY <1>1, <1>2 DEF RetryConnection

\* try_next_channel gives the slot to a device that waits for it, or keeps it, or
\* establishes the connection, or ends it.
LEMMA TryNextChannelSlot ==
    ASSUME Control, NEW a \in Addr, NEW chs, NEW c,
           IsPending(a), connecting \in {a, NoAddr}, TryNextChannel(a, chs, c)
    PROVE  SlotStep
<1>1. TypeOK /\ ~sessions[a].opened /\ Status[a] = "connecting"
  BY DEF Control, OpenIsSettled, Status
<1>2. CASE FailConnection(a, FALSE, c)
  BY <1>2, FailConnectionSlot
<1>3. ASSUME HoldSlot(a, chs, c), NEW new \in {NoSession, NewSession(nextId + 1, FALSE)},
             Close(a, new, FALSE)
      PROVE  SlotStep
  <2>1. /\ sessions' = [sessions EXCEPT ![a] = new] /\ ~new.opened
        /\ connections' = [connections EXCEPT ![a].resolved = TRUE]
        /\ connecting' = a
    BY <1>3 DEF Close, HoldSlot, NoSession, NewSession
  <2>2. Status' = Status
    BY <1>1, <2>1 DEF TypeOK, Status, IsPending, Pending
  <2>3. QED
    BY <1>1, <2>1, <2>2, MappedStep
<1>4. CASE Close(a, NewSession(nextId + 1, TRUE), FALSE) /\ ReleaseSlot(a, c)
  <2>1. sessions' = [sessions EXCEPT ![a] = NewSession(nextId + 1, TRUE)]
    BY <1>4 DEF Close
  <2>2. /\ connections' = [connections EXCEPT ![a] = NoPending]
        /\ connecting' = NoAddr
    BY <1>1, <1>4, ReleaseEffect
  <2>3. Status' = [Status EXCEPT ![a] = Status'[a]]
    BY <1>1, <2>1, <2>2, StatusOf DEF TypeOK
  <2>4. Status'[a] = "connected"
    BY <1>1, <2>1 DEF TypeOK, Status, NewSession
  <2>5. QED
    BY <1>1, <2>2, <2>3, <2>4, MappedStep
<1>5. QED
  BY <1>2, <1>3, <1>4 DEF TryNextChannel

\* start_next_connection gives the free slot to a device that waits for it, and may go
\* on to try its first channel.
LEMMA StartConnectionSlot ==
    ASSUME Control, NEW a \in Addr, IsPending(a), connecting = NoAddr, NEW c,
           StartConnection(a, c)
    PROVE  SlotStep
<1>1. ASSUME NEW chs, NEW d, TryNextChannel(a, chs, d)
      PROVE  SlotStep
  BY <1>1, TryNextChannelSlot
<1>2. ASSUME NEW d, BeginSdp(a, d)
      PROVE  SlotStep
  <2>1. UNCHANGED <<sessions, connections>> /\ connecting' = a
    BY <1>2 DEF BeginSdp
  <2>2. Status' = Status /\ Status[a] = "connecting"
    BY <2>1 DEF Control, OpenIsSettled, Status, IsPending
  <2>3. QED
    BY <2>1, <2>2, MappedStep
<1>3. QED
  BY <1>1, <1>2 DEF StartConnection, FinishSdp

\* A step that neither opens nor ends a session and changes no pending connection is
\* none of the slot.
LEMMA SlotUntouched ==
    ASSUME UNCHANGED <<connections, connecting>>, Control,
           \A b \in Addr : sessions'[b].opened = sessions[b].opened
    PROVE  SlotStep
<1>1. Status' = Status
  BY DEF Status, IsPending
<1>2. QED
  BY <1>1 DEF SlotStep, Status, Slot!slotVars

-----------------------------------------------------------------------------
\* Every block of the main queue is a step of the slot, or leaves it alone.
LEMMA RunBlockSlot ==
    ASSUME Control, RunBlock
    PROVE  SlotStep
<1> DEFINE t == Head(mainQ)
           a == t.addr
<1>1. TypeOK /\ mainQ # <<>> /\ t \in Task
  BY Contexts
  DEF Control, RunBlock, RunStartNext, RunRetry, RunOpenFailed, RunOpened, RunClosed,
      RunRelease, RunFail, Runs
<1>2. t.kind # "startNext" => a \in Addr
  BY <1>1 DEF Task
<1>3. \A b \in Addr : IsPending(b) => ~sessions[b].opened
  BY DEF Control, OpenIsSettled
<1>4. CASE RunStartNext
  <2>1. CASE \E b \in Addr, i \in DOMAIN connectQueue :
                /\ connecting = NoAddr /\ IsPending(b) /\ StartConnection(b, Popped(i))
    BY <2>1, StartConnectionSlot
  <2>2. CASE UNCHANGED <<sessions, connections, connecting>>
    BY <2>2, SlotUntouched
  <2>3. QED
    BY <1>4, <2>1, <2>2 DEF RunStartNext, IsNext, mainVars
<1>5. ASSUME NEW current, current => a \in Addr /\ ~sessions[a].opened,
             RetryIf(current, a, FromQueue)
      PROVE  SlotStep
  <2>1. CASE current /\ RetryConnection(a, FALSE, FromQueue)
    BY <1>5, <2>1, RetryConnectionSlot
  <2>2. CASE UNCHANGED mainVars
    BY <2>2, SlotUntouched DEF mainVars
  <2>3. QED
    BY <1>5, <2>1, <2>2 DEF RetryIf
<1>6. CASE RunRetry
  <2>1. RetryIsCurrent(t) => a \in Addr /\ ~sessions[a].opened
    BY <1>2, <1>3, <1>6 DEF RetryIsCurrent, RunRetry, Runs
  <2>2. QED
    BY <1>5, <1>6, <2>1 DEF RunRetry
<1>7. CASE RunOpenFailed
  <2>1. IsOpeningSession(t) => a \in Addr /\ ~sessions[a].opened
    BY <1>2, <1>7 DEF IsOpeningSession, RunOpenFailed, Runs
  <2>2. QED
    BY <1>5, <1>7, <2>1 DEF RunOpenFailed
<1>8. CASE RunOpened
  <2>1. a \in Addr
    BY <1>2, <1>8 DEF RunOpened, Runs
  <2>2. CASE UNCHANGED <<sessions, connections, connecting>>
    BY <2>2, SlotUntouched
  <2>3. CASE /\ IsOpeningSession(t)
             /\ sessions' = [sessions EXCEPT ![a].opened = TRUE]
    <3>1. IsPending(a) /\ connecting = a /\ Status[a] = "connecting"
      BY <2>1, <2>3 DEF IsOpeningSession, Matches, Control, OneAttempt, Status
    <3>2. ReleaseSlot(a, FromQueue)
      BY <1>8, <2>3, <3>1 DEF RunOpened
    <3>3. /\ connections' = [connections EXCEPT ![a] = NoPending]
          /\ connecting' = NoAddr
      BY <1>1, <2>1, <3>1, <3>2, ReleaseEffect
    <3>4. Status'[a] = "connected"
      BY <1>1, <2>1, <2>3 DEF TypeOK, Session, Status
    <3>5. Status' = [Status EXCEPT ![a] = Status'[a]]
      BY <1>1, <2>1, <2>3, <3>3, StatusOf DEF TypeOK
    <3>6. QED
      BY <2>1, <3>1, <3>3, <3>4, <3>5, MappedStep
  <2>4. QED
    BY <1>8, <2>2, <2>3 DEF RunOpened
<1>9. CASE RunClosed
  <2>1. a \in Addr
    BY <1>2, <1>9 DEF RunClosed, Runs
  <2>2. CASE UNCHANGED <<sessions, connections, connecting>>
    BY <2>2, SlotUntouched
  <2>3. CASE IsPending(a) /\ RetryConnection(a, TRUE, FromQueue)
    BY <1>3, <2>1, <2>3, RetryConnectionSlot
  <2>4. CASE /\ Matches(a, t.gen) /\ ~IsPending(a)
             /\ Close(a, NoSession, TRUE)
             /\ UNCHANGED <<connections, connecting>>
    <3>1. sessions' = [sessions EXCEPT ![a] = NoSession]
      BY <2>4 DEF Close
    <3>2. Status[a] = "connected" /\ connecting # a
      BY <2>1, <2>4, AddrAssumption DEF Control, OneAttempt, SlotPending, Matches, Status
    <3>3. Status'[a] = "idle"
      BY <1>1, <2>1, <2>4, <3>1
      DEF TypeOK, Status, IsPending, NoSession, NewSession
    <3>4. Status' = [Status EXCEPT ![a] = Status'[a]]
      BY <1>1, <2>1, <2>4, <3>1, StatusOf DEF TypeOK
    <3>5. QED
      BY <2>1, <2>4, <3>2, <3>3, <3>4, MappedStep
  <2>5. QED
    BY <1>9, <2>2, <2>3, <2>4 DEF RunClosed
<1>10. CASE RunRelease
  BY <1>10, SlotUntouched DEF RunRelease
<1>11. CASE RunFail
  <2>1. CASE UNCHANGED mainVars
    BY <2>1, SlotUntouched DEF mainVars
  <2>2. CASE FailConnection(a, FALSE, FromQueue)
    BY <1>2, <1>11, <2>2, FailConnectionSlot DEF RunFail, Runs
  <2>3. QED
    BY <1>11, <2>1, <2>2 DEF RunFail
<1>12. QED
  BY <1>4, <1>6, <1>7, <1>8, <1>9, <1>10, <1>11 DEF RunBlock

\* So is every timer.
LEMMA RunTimerSlot ==
    ASSUME Control, NEW t \in timers, RunPoll(t) \/ RunOpenTimeout(t)
    PROVE  SlotStep
<1> DEFINE a == t.addr
<1>1. t \in Task /\ (t.kind # "startNext" => a \in Addr)
  BY Contexts DEF Control, TypeOK, Task
<1>2. CASE RunPoll(t)
  <2>1. a \in Addr
    BY <1>1, <1>2 DEF RunPoll
  <2>2. CASE UNCHANGED mainVars
    BY <2>2, SlotUntouched DEF mainVars
  <2>3. CASE PollIsCurrent(t) /\ \E chs, c : TryNextChannel(a, chs, c)
    <3>1. IsPending(a) /\ connecting = a
      BY <2>1, <2>3, AddrAssumption DEF PollIsCurrent, Control, SlotPending
    <3>2. QED
      BY <2>1, <2>3, <3>1, TryNextChannelSlot
  <2>4. QED
    BY <1>2, <2>2, <2>3 DEF RunPoll, FinishSdp
<1>3. CASE RunOpenTimeout(t)
  <2>1. CASE UNCHANGED mainVars
    BY <2>1, SlotUntouched DEF mainVars
  <2>2. CASE IsOpeningSession(t) /\ RetryConnection(a, FALSE, FromTimer(t))
    BY <1>1, <1>3, <2>2, RetryConnectionSlot DEF RunOpenTimeout, IsOpeningSession
  <2>3. QED
    BY <1>3, <2>1, <2>2 DEF RunOpenTimeout, RetryIf
<1>4. QED
  BY <1>2, <1>3

\* IOBluetooth's callbacks leave the slot alone: they only post blocks.
LEMMA NativeSlot ==
    ASSUME Control, Native
    PROVE  SlotStep
<1>1. TypeOK
  BY DEF Control
<1>2. CASE UNCHANGED mainVars
  BY <1>2, SlotUntouched DEF mainVars
<1>3. ASSUME NEW h \in writes, NEW ok \in BOOLEAN, WriteComplete(h, ok)
      PROVE  SlotStep
  <2>1. h.addr \in Addr
    BY <1>1 DEF TypeOK, Handle
  <2>2. \A b \in Addr : sessions'[b].opened = sessions[b].opened
    <3>1. CASE FailLater(h.addr)
      BY <1>1, <2>1, <3>1, FailLaterEffect
    <3>2. sessions \in [Addr -> Session]
      BY <1>1 DEF TypeOK
    <3>3. CASE sessions' = [sessions EXCEPT ![h.addr].inFlight = FALSE]
      BY <2>1, <3>2, <3>3 DEF Session
    <3>4. QED
      BY <1>3, <3>1, <3>3 DEF WriteComplete
  <2>3. QED
    BY <1>3, <2>2, SlotUntouched DEF WriteComplete
<1>4. QED
  BY <1>2, <1>3 DEF Native, OpenComplete, ChannelClosed, SdpComplete

\* connect requests, disconnect ends, disconnect_all shuts down; sends leave the slot
\* alone.
LEMMA CallersSlot ==
    ASSUME Control, Callers
    PROVE  SlotStep
<1>1. TypeOK
  BY DEF Control
<1>2. ASSUME NEW a \in Addr, Connect(a)
      PROVE  SlotStep
  <2>1. /\ ~IsPending(a) /\ ~HasSession(a) /\ UNCHANGED <<sessions, connecting>>
        /\ connections' = [connections EXCEPT ![a] = [gen |-> nextId + 1, resolved |-> FALSE]]
    BY <1>2 DEF Connect
  <2>2. Status[a] = "idle"
    BY <2>1 DEF Control, OpenIsSettled, Status
  <2>3. ~sessions[a].opened /\ nextId + 1 # 0
    BY <1>1, <2>1 DEF Control, OpenIsSettled, TypeOK
  <2>4. Status'[a] = "connecting"
    BY <1>1, <2>1, <2>3 DEF TypeOK, Status, IsPending
  <2>5. Status' = [Status EXCEPT ![a] = Status'[a]]
    BY <1>1, <2>1, StatusOf DEF TypeOK
  <2>6. QED
    BY <2>1, <2>2, <2>4, <2>5, MappedStep
<1>3. ASSUME NEW a \in Addr, Disconnect(a)
      PROVE  SlotStep
  BY <1>3, FailConnectionSlot DEF Disconnect
<1>4. CASE DisconnectAll
  <2>1. /\ sessions' = [a \in Addr |-> NoSession] /\ connecting' = NoAddr
        /\ connections' = [a \in Addr |-> NoPending]
    BY <1>4 DEF DisconnectAll
  <2>2. Status' = [a \in Addr |-> "idle"]
    BY <2>1 DEF Status, IsPending, NoSession, NewSession, NoPending
  <2>3. QED
    BY <2>1, <2>2 DEF SlotStep, Status, Slot!SlotNext, Slot!Shutdown
<1>5. ASSUME NEW a \in Addr, StartSend(a) \/ RejectWrite(a)
      PROVE  SlotStep
  <2>1. UNCHANGED <<connections, connecting>>
    BY <1>5 DEF StartSend, RejectWrite
  <2>2. \A b \in Addr : sessions'[b].opened = sessions[b].opened
    <3>1. CASE FailLater(a)
      BY <1>1, <3>1, FailLaterEffect
    <3>2. CASE sessions' = [sessions EXCEPT ![a].inFlight = TRUE]
      BY <1>1, <3>2 DEF TypeOK, Session
    <3>3. QED
      BY <1>5, <3>1, <3>2 DEF StartSend, RejectWrite
  <2>3. QED
    BY <2>1, <2>2, SlotUntouched
<1>6. QED
  BY <1>2, <1>3, <1>4, <1>5 DEF Callers

\* The backend implements the abstract connection slot, for any number of devices: one
\* attempt at a time, and only the device whose attempt it is becomes connected.
THEOREM SlotIsImplemented == Spec => ImplementsSlot
<1>1. Init => Slot!SlotInit
  BY DEF Init, Slot!SlotInit, IsPending, NoSession, NewSession, NoPending
<1>2. Control /\ [Next]_vars => [Slot!SlotNext]_(Slot!slotVars)
  <2> SUFFICES ASSUME Control, [Next]_vars
               PROVE  SlotStep
    BY DEF SlotStep
  <2>1. CASE UNCHANGED vars
    BY <2>1, SlotUntouched DEF vars, mainVars
  <2>2. QED
    BY <2>1, RunBlockSlot, RunTimerSlot, NativeSlot, CallersSlot DEF Next, RunTimer
<1>3. QED
  BY <1>1, <1>2, ControlInvariant, PTL DEF Spec, ImplementsSlot, Slot!SlotSpec

-----------------------------------------------------------------------------
(***************************************************************************)
(* What a step leaves of the posted blocks and the armed timers            *)
(***************************************************************************)
\* The block posts blocks behind those its context left, and disarms no other timer.
Continues(c) == /\ \E ts \in Seq(Task) : mainQ' = c.rest \o ts
                /\ c.timers \subseteq timers'

\* The context lacks at most x of what is scheduled.
Lacks(c, x) == Scheduled \ {x} \subseteq c.timers \cup {c.rest[i] : i \in DOMAIN c.rest}

\* Nothing but the block x that runs leaves the run loop.
LEMMA StaysScheduled ==
    ASSUME NEW c, GoodCtx(c), NEW x, Lacks(c, x), Continues(c)
    PROVE  Scheduled \ {x} \subseteq Scheduled'
<1>1. PICK ts \in Seq(Task) : mainQ' = c.rest \o ts
  BY DEF Continues
<1>2. c.rest \in Seq(Task)
  BY DEF GoodCtx
<1>3. \A i \in DOMAIN c.rest : i \in DOMAIN mainQ' /\ mainQ'[i] = c.rest[i]
  BY <1>1, <1>2
<1>4. QED
  BY <1>3 DEF Lacks, Continues, Scheduled

\* A context lacks the block it was made for.
LEMMA ContextsLack ==
    ASSUME TypeOK
    PROVE  /\ mainQ # <<>> => Lacks(FromQueue, Head(mainQ))
           /\ \A t \in timers : Lacks(FromTimer(t), t)
           /\ Lacks(FromCaller, StartNext)
<1>1. ASSUME mainQ # <<>> PROVE Lacks(FromQueue, Head(mainQ))
  <2>1. mainQ \in Seq(Task)
    BY DEF TypeOK
  <2>2. \A i \in DOMAIN mainQ : \/ mainQ[i] = Head(mainQ)
                                \/ /\ i - 1 \in DOMAIN Tail(mainQ)
                                   /\ mainQ[i] = Tail(mainQ)[i - 1]
    BY <1>1, <2>1
  <2>3. QED
    BY <2>2 DEF Lacks, FromQueue, Ctx, Scheduled
<1>2. QED
  BY <1>1 DEF Lacks, FromTimer, FromCaller, Ctx, Scheduled

\* What the operators that end a session have in common: the session of a is closed,
\* at most one new one takes its place, and only blocks and timers are added.
Replaces(a, already, c) ==
    /\ Continues(c)
    /\ \/ nextId' = nextId /\ Close(a, NoSession, already)
       \/ /\ nextId' = nextId + 1
          /\ \E new \in {NoSession} \cup {NewSession(nextId + 1, o) : o \in BOOLEAN} :
                Close(a, new, already)

\* A block that posts the blocks ts, and disarms no timer, continues its context.
LEMMA ContinuesPosting ==
    ASSUME NEW c, NEW ts \in Seq(Task), Then(c, ts), c.timers \subseteq timers'
    PROVE  Continues(c)
  BY DEF Then, Continues

\* So does one that arms timers as well.
LEMMA ContinuesBy ==
    ASSUME NEW c, NEW ts \in Seq(Task), Then(c, ts), NEW us, Arm(c, us)
    PROVE  Continues(c)
  BY DEF Then, Arm, Continues

\* fail_connection replaces the session of its device.
LEMMA FailConnectionReplaces ==
    ASSUME NEW a, NEW already, NEW c, FailConnection(a, already, c)
    PROVE  Replaces(a, already, c)
<1>1. <<StartNext>> \in Seq(Task)
  BY TaskTypes
<1>2. QED
  BY <1>1, ContinuesBy DEF FailConnection, Replaces

\* retry_connection does.
LEMMA RetryConnectionReplaces ==
    ASSUME NEW a, NEW already, NEW c, RetryConnection(a, already, c)
    PROVE  Replaces(a, already, c)
<1>1. <<StartNext>> \in Seq(Task) /\ <<>> \in Seq(Task)
  BY TaskTypes
<1>2. QED
  BY <1>1, ContinuesBy, FailConnectionReplaces DEF RetryConnection, Replaces

\* try_next_channel does.
LEMMA TryNextChannelReplaces ==
    ASSUME TypeOK, NEW a \in Addr, NEW chs, NEW c, TryNextChannel(a, chs, c)
    PROVE  Replaces(a, FALSE, c)
<1>1. T("retry", a, connections[a].gen) \in Task
  BY TaskTypes DEF TypeOK, Pending, Kind
<1>2. /\ <<>> \in Seq(Task) /\ <<StartNext>> \in Seq(Task)
      /\ <<T("retry", a, connections[a].gen)>> \in Seq(Task)
  BY <1>1, TaskTypes
<1>3. CASE FailConnection(a, FALSE, c)
  BY <1>3, FailConnectionReplaces
<1>4. CASE ~FailConnection(a, FALSE, c)
  <2>1. nextId' = nextId + 1
    BY <1>4 DEF TryNextChannel
  <2>2. \E new \in {NoSession} \cup {NewSession(nextId + 1, o) : o \in BOOLEAN} :
           Close(a, new, FALSE)
    BY <1>4 DEF TryNextChannel
  <2>3. \E ts \in Seq(Task) : \E us : Then(c, ts) /\ Arm(c, us)
    BY <1>2, <1>4 DEF TryNextChannel
  <2>4. QED
    BY <2>1, <2>2, <2>3, ContinuesBy DEF Replaces
<1>5. QED
  BY <1>3, <1>4

\* start_next_connection, for the device that takes the slot.
LEMMA StartConnectionReplaces ==
    ASSUME TypeOK, NEW a \in Addr, NEW c, StartConnection(a, c)
    PROVE  \/ Replaces(a, FALSE, c)
           \/ Continues(c) /\ UNCHANGED <<sessions, retiring, nextId, writes>>
<1>1. ASSUME NEW d \in Guardings(c, a) PROVE d.rest = c.rest /\ d.timers = c.timers
  BY <1>1 DEF Guardings, Guarding, Ctx
<1>2. ASSUME NEW d \in Guardings(c, a), Continues(d) PROVE Continues(c)
  BY <1>1, <1>2 DEF Continues
<1>3. CASE TryNextChannel(a, channelsLeft[a], c)
  BY <1>3, TryNextChannelReplaces
<1>4. ASSUME NEW d \in Guardings(c, a), NEW found \in BOOLEAN, FinishSdp(a, found, d)
      PROVE  Replaces(a, FALSE, c)
  <2>1. Replaces(a, FALSE, d)
    BY <1>4, TryNextChannelReplaces DEF FinishSdp
  <2>2. QED
    BY <1>2, <1>4, <2>1 DEF Replaces
<1>5. ASSUME NEW d \in Guardings(c, a), BeginSdp(a, d)
      PROVE  Continues(c) /\ UNCHANGED <<sessions, retiring, nextId, writes>>
  <2>1. <<>> \in Seq(Task)
    BY TaskTypes
  <2>2. Continues(d)
    BY <1>5, <2>1, ContinuesBy DEF BeginSdp
  <2>3. QED
    BY <1>2, <1>5, <2>2 DEF BeginSdp
<1>6. QED
  BY <1>3, <1>4, <1>5 DEF StartConnection

-----------------------------------------------------------------------------
(***************************************************************************)
(* Who still releases a retiring session                                   *)
(***************************************************************************)
\* The stack will complete a write of h, or its closed callback is posted.
Owed(h) == h \in writes \/ T("closed", h.addr, h.gen) \in Scheduled
Awaited(h) == Owed(h) \/ T("release", h.addr, h.gen) \in Scheduled

\* A retiring session has a number of its own and is waited for; a session with a
\* write outstanding will be told how it ends.
Retired ==
    /\ \A h \in retiring : /\ Awaited(h)
                           /\ h.gen # 0 /\ h.gen <= nextId
                           /\ sessions[h.addr].gen # h.gen
    /\ \A a \in Addr : sessions[a].gen <= nextId
    /\ \A h \in Handle : sessions[h.addr].gen = h.gen /\ sessions[h.addr].inFlight
                         => h.gen # 0 /\ Owed(h)

\* A step that ends no session keeps Retired when nobody who is waited for is lost.
LEMMA RetiredKept ==
    ASSUME TypeOK, Retired, nextId' \in {nextId, nextId + 1}, retiring' \subseteq retiring,
           \A a \in Addr : sessions'[a].gen = sessions[a].gen,
           \A h \in retiring' : Awaited(h)',
           \A h \in Handle : sessions[h.addr].gen = h.gen /\ sessions'[h.addr].inFlight
                             => h.gen # 0 /\ Owed(h)'
    PROVE  Retired'
<1>1. nextId \in Nat /\ retiring \subseteq Handle /\ sessions \in [Addr -> Session]
  BY DEF TypeOK
<1>2. ASSUME NEW h \in retiring'
      PROVE  Awaited(h)' /\ h.gen # 0 /\ h.gen <= nextId' /\ sessions'[h.addr].gen # h.gen
  <2>1. h \in retiring /\ h.addr \in Addr /\ h.gen \in Nat
    BY <1>1, <1>2 DEF Handle
  <2>2. h.gen # 0 /\ h.gen <= nextId /\ sessions[h.addr].gen # h.gen
    BY <2>1 DEF Retired
  <2>3. QED
    BY <1>1, <1>2, <2>1, <2>2
<1>3. ASSUME NEW a \in Addr PROVE sessions'[a].gen <= nextId'
  <2>1. sessions[a].gen \in Nat /\ sessions[a].gen <= nextId
    BY <1>1 DEF Session, Retired
  <2>2. QED
    BY <1>1, <2>1
<1>4. ASSUME NEW h \in Handle, sessions'[h.addr].gen = h.gen, sessions'[h.addr].inFlight
      PROVE  h.gen # 0 /\ Owed(h)'
  BY <1>4 DEF Handle
<1>5. QED
  BY <1>2, <1>3, <1>4 DEF Retired

\* Nobody who is waited for is lost when the blocks that would tell of h, and its
\* write, are still there.
LEMMA StillOwed ==
    ASSUME NEW h, NEW x, Scheduled \ {x} \subseteq Scheduled', h \in writes => h \in writes'
    PROVE  /\ x # T("closed", h.addr, h.gen) /\ Owed(h) => Owed(h)'
           /\ /\ x # T("closed", h.addr, h.gen) /\ x # T("release", h.addr, h.gen)
              /\ Awaited(h)
              => Awaited(h)'
  BY DEF Owed, Awaited

\* So does a step that changes no session and of the run loop at most the block x.
LEMMA RetiredUntouched ==
    ASSUME TypeOK, Retired, nextId' \in {nextId, nextId + 1}, retiring' = retiring,
           \A a \in Addr : sessions'[a].gen = sessions[a].gen
                           /\ sessions'[a].inFlight = sessions[a].inFlight,
           writes' = writes,
           NEW x, x.kind \notin {"closed", "release"}, Scheduled \ {x} \subseteq Scheduled'
    PROVE  Retired'
<1>1. \A h : /\ x # T("closed", h.addr, h.gen)
             /\ x # T("release", h.addr, h.gen)
  BY DEF T
<1>2. \A h : (Owed(h) => Owed(h)') /\ (Awaited(h) => Awaited(h)')
  BY <1>1, StillOwed
<1>3. \A h \in retiring' : Awaited(h)'
  BY <1>2 DEF Retired
<1>4. ASSUME NEW h \in Handle, sessions[h.addr].gen = h.gen, sessions'[h.addr].inFlight
      PROVE  h.gen # 0 /\ Owed(h)'
  BY <1>2, <1>4 DEF Retired, Handle
<1>5. QED
  BY <1>3, <1>4, RetiredKept

\* Ending the session of a keeps Retired: the session retires only if it is waited for.
LEMMA ReplacesRetired ==
    ASSUME TypeOK, Retired, NEW a \in Addr, NEW already \in BOOLEAN,
           NEW c, GoodCtx(c), NEW x, Lacks(c, x),
           \/ x.kind \notin {"closed", "release"}
           \/ /\ already /\ x.kind # "release"
              /\ \A h \in Handle : x = T("closed", h.addr, h.gen) => h = HandleOf(a),
           Replaces(a, already, c)
    PROVE  Retired'
<1> PICK g \in Handle : g = HandleOf(a)
  BY HandleTypes
<1>1. PICK new \in {NoSession} \cup {NewSession(nextId + 1, o) : o \in BOOLEAN} :
         /\ Close(a, new, already)
         /\ new.gen = 0 \/ (new.gen = nextId + 1 /\ nextId' = nextId + 1)
         /\ nextId' \in {nextId, nextId + 1}
  BY DEF Replaces, NoSession, NewSession
<1>2. /\ nextId \in Nat /\ retiring \subseteq Handle /\ sessions \in [Addr -> Session]
      /\ g.addr = a /\ g.gen = sessions[a].gen /\ g.gen \in Nat
  BY DEF TypeOK, HandleOf, Session
<1>3. ~new.inFlight /\ sessions' = [sessions EXCEPT ![a] = new]
  BY <1>1 DEF Close, NoSession, NewSession
<1>4. PICK closed \in BOOLEAN :
         /\ already => closed
         /\ retiring' = retiring \cup (IF Kept(a, closed) THEN {g} ELSE {})
         /\ writes' = IF closed THEN writes \ {g} ELSE writes
  BY <1>1 DEF Close
<1>5. Scheduled \ {x} \subseteq Scheduled'
  BY StaysScheduled DEF Replaces
<1>6. \A h \in Handle : h # g => /\ x # T("closed", h.addr, h.gen)
                                 /\ x # T("release", h.addr, h.gen)
  BY DEF T
<1>7. \A h \in Handle : h # g => (Owed(h) => Owed(h)') /\ (Awaited(h) => Awaited(h)')
  BY <1>4, <1>5, <1>6, StillOwed
<1>8. ASSUME NEW h \in retiring'
      PROVE  Awaited(h)' /\ h.gen # 0 /\ h.gen <= nextId' /\ sessions'[h.addr].gen # h.gen
  <2>1. CASE h \in retiring
    <3>1. /\ h \in Handle /\ h.addr \in Addr /\ h.gen \in Nat /\ Awaited(h)
          /\ h.gen # 0 /\ h.gen <= nextId /\ sessions[h.addr].gen # h.gen
      BY <1>2, <2>1 DEF Retired, Handle
    <3>2. h # g
      BY <1>2, <3>1
    <3>3. sessions'[h.addr].gen # h.gen
      BY <1>1, <1>2, <1>3, <3>1
    <3>4. QED
      BY <1>1, <1>2, <1>7, <3>1, <3>2, <3>3
  <2>2. CASE h \notin retiring
    <3>1. h = g /\ Kept(a, closed) /\ ~closed
      BY <1>4, <1>8, <2>2 DEF Kept
    <3>2. g.gen # 0 /\ Owed(g) /\ g.gen <= nextId
      BY <1>2, <3>1 DEF Kept, Retired
    <3>3. x # T("closed", g.addr, g.gen)
      BY <1>4, <3>1 DEF T
    <3>4. Owed(g)'
      BY <1>4, <1>5, <3>1, <3>2, <3>3, StillOwed
    <3>5. sessions'[a].gen # g.gen
      BY <1>1, <1>2, <1>3, <3>2
    <3>6. QED
      BY <1>1, <1>2, <3>1, <3>2, <3>4, <3>5 DEF Awaited
  <2>3. QED
    BY <2>1, <2>2
<1>9. ASSUME NEW b \in Addr PROVE sessions'[b].gen <= nextId'
  <2>1. sessions[b].gen \in Nat /\ sessions[b].gen <= nextId
    BY <1>2 DEF Session, Retired
  <2>2. QED
    BY <1>1, <1>2, <1>3, <2>1
<1>10. ASSUME NEW h \in Handle, sessions'[h.addr].gen = h.gen, sessions'[h.addr].inFlight
       PROVE  h.gen # 0 /\ Owed(h)'
  <2>1. h.addr \in Addr /\ h.addr # a
    BY <1>2, <1>3, <1>10 DEF Handle
  <2>2. sessions'[h.addr] = sessions[h.addr] /\ h # g
    BY <1>2, <1>3, <2>1
  <2>3. h.gen # 0 /\ Owed(h)
    BY <1>10, <2>2 DEF Retired
  <2>4. QED
    BY <1>7, <2>2, <2>3
<1>11. QED
  BY <1>8, <1>9, <1>10 DEF Retired

-----------------------------------------------------------------------------
\* Every block of the main queue keeps Retired.
LEMMA RunBlockRetired ==
    ASSUME Control, Retired, RunBlock
    PROVE  Retired'
<1>1. TypeOK /\ mainQ # <<>> /\ Head(mainQ) \in Task /\ GoodCtx(FromQueue)
  BY Contexts
  DEF Control, RunBlock, RunStartNext, RunRetry, RunOpenFailed, RunOpened, RunClosed,
      RunRelease, RunFail, Runs
<1> PICK t \in Task : t = Head(mainQ)
  BY <1>1
<1> DEFINE a == t.addr
<1>2. /\ t.kind # "startNext" => a \in Addr
      /\ Lacks(FromQueue, t) /\ FromQueue.timers = timers
      /\ <<>> \in Seq(Task) /\ <<StartNext>> \in Seq(Task)
  <2>1. t.kind # "startNext" => a \in Addr
    BY DEF Task
  <2>2. Lacks(FromQueue, t) /\ FromQueue.timers = timers
    BY <1>1, ContextsLack DEF FromQueue, Ctx
  <2>3. <<>> \in Seq(Task) /\ <<StartNext>> \in Seq(Task)
    BY TaskTypes
  <2>4. QED
    BY <2>1, <2>2, <2>3
<1>3. \A b \in Addr : /\ IsPending(b) => ~sessions[b].opened
  BY DEF Control, OpenIsSettled
<1>4. ASSUME Continues(FromQueue), UNCHANGED <<sessions, retiring, nextId, writes>>,
             t.kind \notin {"closed", "release"}
      PROVE  Retired'
  <2>1. Scheduled \ {t} \subseteq Scheduled'
    BY <1>1, <1>2, <1>4, StaysScheduled
  <2>2. QED
    BY <1>1, <1>4, <2>1, RetiredUntouched
<1>5. ASSUME Then(FromQueue, <<>>), timers' = timers
      PROVE  Continues(FromQueue) /\ Scheduled \ {t} \subseteq Scheduled'
  <2>1. Continues(FromQueue)
    BY <1>2, <1>5, ContinuesPosting
  <2>2. QED
    BY <1>1, <1>2, <2>1, StaysScheduled
<1>6. CASE RunStartNext
  <2>1. t.kind = "startNext"
    BY <1>6 DEF RunStartNext, Runs
  <2>2. ASSUME NEW b \in Addr, NEW i \in DOMAIN connectQueue, StartConnection(b, Popped(i))
        PROVE  Retired'
    <3>1. /\ Popped(i).rest = FromQueue.rest /\ Popped(i).timers = FromQueue.timers
          /\ Popped(i).guarded = FromQueue.guarded
      BY DEF Popped, FromQueue, Ctx
    <3>2. GoodCtx(Popped(i)) /\ Lacks(Popped(i), t)
      BY <1>1, <1>2, <3>1 DEF GoodCtx, Lacks
    <3>3. CASE Replaces(b, FALSE, Popped(i))
      BY <1>1, <2>1, <3>2, <3>3, ReplacesRetired
    <3>4. CASE Continues(Popped(i)) /\ UNCHANGED <<sessions, retiring, nextId, writes>>
      <4>1. Continues(FromQueue)
        BY <3>1, <3>4 DEF Continues
      <4>2. QED
        BY <1>4, <2>1, <3>4, <4>1
    <3>5. QED
      BY <1>1, <2>2, <3>3, <3>4, StartConnectionReplaces
  <2>3. CASE Then(FromQueue, <<>>) /\ UNCHANGED <<sessions, retiring, nextId, timers, writes>>
    BY <1>4, <1>5, <2>1, <2>3
  <2>4. QED
    BY <1>6, <2>2, <2>3 DEF RunStartNext, mainVars, nativeVars
<1>7. ASSUME NEW current, RetryIf(current, a, FromQueue), a \in Addr,
             t.kind \notin {"closed", "release"}
      PROVE  Retired'
  <2>1. CASE RetryConnection(a, FALSE, FromQueue)
    BY <1>1, <1>2, <1>7, <2>1, RetryConnectionReplaces, ReplacesRetired
  <2>2. CASE Then(FromQueue, <<>>) /\ Arm(FromQueue, {}) /\ UNCHANGED <<mainVars, writes>>
    BY <1>2, <1>4, <1>7, <2>2, ContinuesBy DEF mainVars
  <2>3. QED
    BY <1>7, <2>1, <2>2 DEF RetryIf
<1>8. CASE RunRetry \/ RunOpenFailed
  <2>1. t.kind \in {"retry", "openFailed"} /\ \E current : RetryIf(current, a, FromQueue)
    BY <1>8 DEF RunRetry, RunOpenFailed, Runs
  <2>2. QED
    BY <1>2, <1>7, <2>1
<1>9. CASE RunOpened
  <2>1. t.kind = "opened" /\ a \in Addr /\ UNCHANGED <<retiring, nextId, timers, writes>>
    BY <1>2, <1>9 DEF RunOpened, Runs, nativeVars
  <2>2. Continues(FromQueue)
    <3>1. \E ts \in Seq(Task) : Then(FromQueue, ts)
      BY <1>2, <1>9 DEF RunOpened
    <3>2. QED
      BY <1>2, <2>1, <3>1, ContinuesPosting
  <2>3. Scheduled \ {t} \subseteq Scheduled'
    BY <1>1, <1>2, <2>2, StaysScheduled
  <2>4. \A b \in Addr : /\ sessions'[b].gen = sessions[b].gen
                        /\ sessions'[b].inFlight = sessions[b].inFlight
    <3>1. \/ sessions' = sessions
          \/ sessions' = [sessions EXCEPT ![a].opened = TRUE]
      BY <1>9 DEF RunOpened
    <3>2. sessions \in [Addr -> Session]
      BY <1>1 DEF TypeOK
    <3>3. QED
      BY <2>1, <3>1, <3>2 DEF Session
  <2>5. QED
    BY <1>1, <2>1, <2>3, <2>4, RetiredUntouched
<1>10. CASE RunClosed
  <2> DEFINE h == [addr |-> a, gen |-> t.gen]
  <2>1. t.kind = "closed" /\ a \in Addr /\ h \in Handle
    BY <1>2, <1>10 DEF RunClosed, Runs, Handle, Task
  <2>2. \A k \in Handle : t = T("closed", k.addr, k.gen) => k = h
    BY DEF T, Handle
  <2>3. CASE /\ ~(h \notin retiring /\ Matches(a, t.gen))
             /\ Release(h)
             /\ Then(FromQueue, <<>>)
             /\ UNCHANGED <<sessions, nextId, timers, writes>>
    <3>1. Scheduled \ {t} \subseteq Scheduled' /\ retiring' = retiring \ {h}
      BY <1>5, <2>3 DEF Release
    <3>2. \A k \in Handle : k # h => (Owed(k) => Owed(k)') /\ (Awaited(k) => Awaited(k)')
      <4>1. \A k \in Handle : t # T("release", k.addr, k.gen)
        BY <2>1 DEF T
      <4>2. QED
        BY <2>2, <2>3, <3>1, <4>1, StillOwed
    <3>3. \A k \in retiring' : Awaited(k)'
      BY <1>1, <3>1, <3>2 DEF TypeOK, Retired
    <3>4. ASSUME NEW k \in Handle, sessions[k.addr].gen = k.gen, sessions'[k.addr].inFlight
          PROVE  k.gen # 0 /\ Owed(k)'
      <4>1. k.gen # 0 /\ Owed(k) /\ k \notin retiring
        BY <2>3, <3>4 DEF Retired
      <4>2. k # h
        BY <2>3, <3>4, <4>1 DEF Matches, HasSession
      <4>3. QED
        BY <3>2, <4>1, <4>2
    <3>5. QED
      BY <1>1, <2>3, <3>1, <3>3, <3>4, RetiredKept
  <2>4. CASE /\ Matches(a, t.gen)
             /\ Replaces(a, TRUE, FromQueue)
    <3>1. h = HandleOf(a)
      BY <2>4 DEF Matches, HandleOf
    <3>2. QED
      BY <1>1, <1>2, <2>1, <2>2, <2>4, <3>1, ReplacesRetired
  <2>5. RetryConnection(a, TRUE, FromQueue) => Replaces(a, TRUE, FromQueue)
    BY RetryConnectionReplaces
  <2>6. ASSUME Close(a, NoSession, TRUE), Then(FromQueue, <<>>), UNCHANGED <<nextId, timers>>
        PROVE  Replaces(a, TRUE, FromQueue)
    BY <1>5, <2>6 DEF Replaces
  <2>7. QED
    BY <1>10, <2>3, <2>4, <2>5, <2>6 DEF RunClosed
<1>11. CASE RunRelease
  <2> DEFINE h == [addr |-> a, gen |-> t.gen]
  <2>1. /\ t.kind = "release" /\ Release(h) /\ Then(FromQueue, <<>>)
        /\ UNCHANGED <<sessions, nextId, timers, writes>>
    BY <1>11 DEF RunRelease, Runs
  <2>2. Scheduled \ {t} \subseteq Scheduled' /\ retiring' = retiring \ {h}
    BY <1>5, <2>1 DEF Release
  <2>3. \A k \in Handle : /\ Owed(k) => Owed(k)'
                          /\ k # h /\ Awaited(k) => Awaited(k)'
    <3>1. \A k \in Handle : /\ t # T("closed", k.addr, k.gen)
                            /\ k # h => t # T("release", k.addr, k.gen)
      BY <2>1 DEF T, Handle
    <3>2. QED
      BY <2>1, <2>2, <3>1, StillOwed
  <2>4. \A k \in retiring' : Awaited(k)'
    BY <1>1, <2>2, <2>3 DEF TypeOK, Retired
  <2>5. \A k \in Handle : sessions[k.addr].gen = k.gen /\ sessions'[k.addr].inFlight
                          => k.gen # 0 /\ Owed(k)'
    BY <2>1, <2>3 DEF Retired
  <2>6. QED
    BY <1>1, <2>1, <2>2, <2>4, <2>5, RetiredKept
<1>12. CASE RunFail
  <2>1. t.kind = "fail" /\ a \in Addr
    BY <1>2, <1>12 DEF RunFail, Runs
  <2>2. CASE FailConnection(a, FALSE, FromQueue)
    BY <1>1, <1>2, <2>1, <2>2, FailConnectionReplaces, ReplacesRetired
  <2>3. CASE Then(FromQueue, <<>>) /\ UNCHANGED <<mainVars, timers, writes>>
    BY <1>4, <1>5, <2>1, <2>3 DEF mainVars
  <2>4. QED
    BY <1>12, <2>2, <2>3 DEF RunFail
<1>13. QED
  BY <1>6, <1>8, <1>9, <1>10, <1>11, <1>12 DEF RunBlock

\* Every timer keeps Retired.
LEMMA RunTimerRetired ==
    ASSUME Control, Retired, NEW t \in timers, RunPoll(t) \/ RunOpenTimeout(t)
    PROVE  Retired'
<1> DEFINE a == t.addr
<1>1. /\ TypeOK /\ t \in Task /\ GoodCtx(FromTimer(t)) /\ Lacks(FromTimer(t), t)
      /\ t.kind \in {"poll", "openTimeout"} /\ <<>> \in Seq(Task)
  BY Contexts, ContextsLack, TaskTypes DEF Control, RunPoll, RunOpenTimeout
<1>2. a \in Addr
  BY <1>1 DEF Task
<1>3. ASSUME Scheduled \ {t} \subseteq Scheduled', UNCHANGED <<sessions, retiring, nextId, writes>>
      PROVE  Retired'
  BY <1>1, <1>3, RetiredUntouched
<1>4. ASSUME Replaces(a, FALSE, FromTimer(t))
      PROVE  Retired'
  BY <1>1, <1>2, <1>4, ReplacesRetired
<1>5. CASE RunPoll(t)
  <2>1. CASE \E chs : TryNextChannel(a, chs, FromTimer(t))
    BY <1>1, <1>2, <1>4, <2>1, TryNextChannelReplaces
  <2>2. CASE /\ UNCHANGED <<mainVars, mainQ, nativeVars>>
             /\ timers \ {t} \subseteq timers'
    <3>1. Scheduled \ {t} \subseteq Scheduled'
      BY <2>2 DEF Scheduled
    <3>2. QED
      BY <1>3, <2>2, <3>1 DEF mainVars, nativeVars
  <2>3. QED
    BY <1>5, <2>1, <2>2 DEF RunPoll, FinishSdp, Arm, FromTimer, Ctx
<1>6. CASE RunOpenTimeout(t)
  <2>1. CASE RetryConnection(a, FALSE, FromTimer(t))
    BY <1>4, <2>1, RetryConnectionReplaces
  <2>2. CASE Then(FromTimer(t), <<>>) /\ Arm(FromTimer(t), {}) /\ UNCHANGED <<mainVars, writes>>
    <3>1. Scheduled \ {t} \subseteq Scheduled'
      BY <1>1, <2>2, ContinuesBy, StaysScheduled
    <3>2. QED
      BY <1>3, <2>2, <3>1 DEF mainVars
  <2>3. QED
    BY <1>6, <2>1, <2>2 DEF RunOpenTimeout, RetryIf
<1>7. QED
  BY <1>5, <1>6

\* A callback posts its block behind the others.
LEMMA PostStays ==
    ASSUME TypeOK, NEW t \in Task, Post(t), timers' = timers
    PROVE  Scheduled \subseteq Scheduled' /\ t \in Scheduled'
<1>1. mainQ \in Seq(Task) /\ mainQ' = Append(mainQ, t)
  BY DEF TypeOK, Post
<1>2. \A i \in DOMAIN mainQ : i \in DOMAIN mainQ' /\ mainQ'[i] = mainQ[i]
  BY <1>1
<1>3. Len(mainQ) + 1 \in DOMAIN mainQ' /\ mainQ'[Len(mainQ) + 1] = t
  BY <1>1
<1>4. QED
  BY <1>2, <1>3 DEF Scheduled

\* IOBluetooth's callbacks keep Retired: what ends a write posts what releases it.
LEMMA NativeRetired ==
    ASSUME Control, Retired, Native
    PROVE  Retired'
<1>1. /\ TypeOK /\ StartNext \in Task /\ StartNext.kind = "startNext"
      /\ opening \subseteq Handle /\ alive \subseteq Handle /\ writes \subseteq Handle
  BY TaskTypes DEF Control, TypeOK, StartNext, T
<1>2. ASSUME Scheduled \subseteq Scheduled', UNCHANGED <<sessions, retiring, nextId, writes>>
      PROVE  Retired'
  BY <1>1, <1>2, RetiredUntouched
<1>3. ASSUME NEW h \in opening, NEW status \in {"opened", "openFailed"},
             OpenComplete(h, status)
      PROVE  Retired'
  <2>1. T(status, h.addr, h.gen) \in Task
    BY <1>1, TaskTypes DEF Handle, Kind
  <2>2. QED
    BY <1>1, <1>2, <1>3, <2>1, PostStays DEF OpenComplete, mainVars
<1>4. ASSUME NEW h \in alive, ChannelClosed(h)
      PROVE  Retired'
  <2>1. /\ writes' = writes \ {h} /\ UNCHANGED <<sessions, retiring, nextId, timers>>
        /\ Post(T("closed", h.addr, h.gen))
    BY <1>4 DEF ChannelClosed, mainVars
  <2>2. T("closed", h.addr, h.gen) \in Task
    BY <1>1, TaskTypes DEF Handle, Kind
  <2>3. Scheduled \subseteq Scheduled' /\ T("closed", h.addr, h.gen) \in Scheduled'
    BY <1>1, <2>1, <2>2, PostStays
  <2>4. \A k : (Owed(k) => Owed(k)') /\ (Awaited(k) => Awaited(k)')
    BY <2>1, <2>3 DEF Owed, Awaited
  <2>5. \A k \in retiring' : Awaited(k)'
    BY <2>1, <2>4 DEF Retired
  <2>6. \A k \in Handle : sessions[k.addr].gen = k.gen /\ sessions'[k.addr].inFlight
                          => k.gen # 0 /\ Owed(k)'
    BY <2>1, <2>4 DEF Retired
  <2>7. QED
    BY <1>1, <2>1, <2>5, <2>6, RetiredKept
<1>5. ASSUME NEW a \in sdpActive, NEW found \in BOOLEAN, SdpComplete(a, found)
      PROVE  Retired'
  BY <1>2, <1>5 DEF SdpComplete, mainVars, loopVars, Scheduled
<1>6. ASSUME NEW h \in writes, NEW ok \in BOOLEAN, WriteComplete(h, ok)
      PROVE  Retired'
  <2>1. h \in Handle /\ h.addr \in Addr /\ h.gen \in Nat /\ h = [addr |-> h.addr, gen |-> h.gen]
    BY <1>1 DEF Handle
  <2>2. /\ writes' = writes \ {h} /\ UNCHANGED <<retiring, nextId, timers>>
    BY <1>6 DEF WriteComplete
  <2>3. \A k \in Handle : k # h /\ Scheduled \subseteq Scheduled'
                          => (Owed(k) => Owed(k)') /\ (Awaited(k) => Awaited(k)')
    BY <2>2 DEF Owed, Awaited
  <2>4. CASE h \in retiring /\ Post(T("release", h.addr, h.gen)) /\ UNCHANGED sessions
    <3>1. T("release", h.addr, h.gen) \in Task
      BY <2>1, TaskTypes DEF Kind
    <3>2. Scheduled \subseteq Scheduled' /\ T("release", h.addr, h.gen) \in Scheduled'
      BY <1>1, <2>2, <2>4, <3>1, PostStays
    <3>3. Awaited(h)'
      BY <3>2 DEF Awaited
    <3>4. \A k \in retiring' : Awaited(k)'
      BY <1>1, <2>2, <2>3, <3>2, <3>3 DEF TypeOK, Retired
    <3>5. \A k \in Handle : sessions[k.addr].gen = k.gen /\ sessions'[k.addr].inFlight
                            => k.gen # 0 /\ Owed(k)'
      BY <2>3, <2>4, <3>2 DEF Retired
    <3>6. QED
      BY <1>1, <2>2, <2>4, <3>4, <3>5, RetiredKept
  <2>5. CASE /\ h \notin retiring /\ Scheduled \subseteq Scheduled'
             /\ \A b \in Addr : sessions'[b].gen = sessions[b].gen
             /\ \A k \in Handle : /\ sessions[k.addr].gen = k.gen
                                  /\ sessions'[k.addr].inFlight
                                  => k # h /\ sessions[k.addr].inFlight
    <3>1. \A k \in retiring' : Awaited(k)'
      BY <1>1, <2>2, <2>3, <2>5 DEF TypeOK, Retired
    <3>2. \A k \in Handle : sessions[k.addr].gen = k.gen /\ sessions'[k.addr].inFlight
                            => k.gen # 0 /\ Owed(k)'
      BY <2>3, <2>5 DEF Retired
    <3>3. QED
      BY <1>1, <2>2, <2>5, <3>1, <3>2, RetiredKept
  <2>6. CASE h \notin retiring /\ Matches(h.addr, h.gen) /\ FailLater(h.addr)
    <3>1. HandleOf(h.addr) = h /\ sessions[h.addr].gen = h.gen
      BY <2>1, <2>6 DEF Matches, HandleOf
    <3>2. sessions' = [sessions EXCEPT ![h.addr] = Failed(h.addr)]
          /\ Post(T("fail", h.addr, h.gen))
      BY <2>6, <3>1 DEF FailLater
    <3>3. /\ \A b \in Addr : sessions'[b].gen = sessions[b].gen
          /\ \A b \in Addr \ {h.addr} : sessions'[b] = sessions[b]
          /\ ~sessions'[h.addr].inFlight
      BY <1>1, <2>1, <2>2, <3>1, <3>2 DEF Failed, TypeOK
    <3>4. T("fail", h.addr, h.gen) \in Task
      BY <2>1, TaskTypes DEF Kind
    <3>5. Scheduled \subseteq Scheduled'
      BY <1>1, <2>2, <3>2, <3>4, PostStays
    <3>6. \A k \in Handle : sessions'[k.addr].inFlight => k.addr # h.addr
                               /\ sessions'[k.addr] = sessions[k.addr]
      BY <3>3 DEF Handle
    <3>7. QED
      BY <2>5, <2>6, <3>3, <3>5, <3>6
  <2>7. CASE /\ h \notin retiring /\ Matches(h.addr, h.gen)
             /\ sessions' = [sessions EXCEPT ![h.addr].inFlight = FALSE]
             /\ UNCHANGED mainQ
    <3>1. /\ \A b \in Addr : sessions'[b].gen = sessions[b].gen
          /\ \A k \in Handle : sessions'[k.addr].inFlight => k.addr # h.addr
                               /\ sessions'[k.addr] = sessions[k.addr]
      BY <1>1, <2>1, <2>7 DEF TypeOK, Session, Handle
    <3>2. Scheduled \subseteq Scheduled'
      BY <2>2, <2>7 DEF Scheduled
    <3>3. QED
      BY <2>5, <2>7, <3>1, <3>2
  <2>8. CASE /\ h \notin retiring /\ ~Matches(h.addr, h.gen) /\ UNCHANGED <<sessions, mainQ>>
    <3>1. Scheduled \subseteq Scheduled'
      BY <2>2, <2>8 DEF Scheduled
    <3>2. ASSUME NEW k \in Handle, sessions[k.addr].gen = k.gen, sessions'[k.addr].inFlight
          PROVE  k # h /\ sessions[k.addr].inFlight
      <4>1. k.gen # 0 /\ sessions[k.addr].inFlight
        BY <2>8, <3>2 DEF Retired
      <4>2. QED
        BY <2>8, <3>2, <4>1 DEF Matches, HasSession
    <3>3. QED
      BY <2>5, <2>8, <3>1, <3>2
  <2>9. QED
    BY <1>6, <2>4, <2>6, <2>7, <2>8 DEF WriteComplete
<1>7. QED
  BY <1>3, <1>4, <1>5, <1>6 DEF Native

\* The calls keep Retired; disconnect_all retires the sessions the stack still owns
\* buffers of.
LEMMA CallersRetired ==
    ASSUME Control, Retired, Callers
    PROVE  Retired'
<1>1. /\ TypeOK /\ GoodCtx(FromCaller) /\ Lacks(FromCaller, StartNext)
      /\ StartNext \in Task /\ StartNext.kind = "startNext"
      /\ sessions \in [Addr -> Session] /\ <<StartNext>> \in Seq(Task)
  BY Contexts, ContextsLack, TaskTypes DEF Control, TypeOK, StartNext, T
<1>2. ASSUME NEW a \in Addr, Connect(a)
      PROVE  Retired'
  <2>1. /\ nextId' = nextId + 1 /\ Then(FromCaller, <<StartNext>>)
        /\ UNCHANGED <<sessions, retiring, timers, writes>>
    BY <1>2 DEF Connect, nativeVars
  <2>2. Continues(FromCaller)
    BY <1>1, <2>1, ContinuesPosting DEF FromCaller, Ctx
  <2>3. Scheduled \ {StartNext} \subseteq Scheduled'
    BY <1>1, <2>2, StaysScheduled
  <2>4. QED
    BY <1>1, <2>1, <2>3, RetiredUntouched
<1>3. ASSUME NEW a \in Addr, Disconnect(a)
      PROVE  Retired'
  <2>1. Replaces(a, FALSE, FromCaller)
    BY <1>3, FailConnectionReplaces DEF Disconnect
  <2>2. QED
    BY <1>1, <2>1, ReplacesRetired
<1>4. CASE DisconnectAll
  <2>1. /\ sessions' = [a \in Addr |-> NoSession]
        /\ UNCHANGED <<nextId, mainQ, timers>>
    BY <1>4 DEF DisconnectAll, loopVars
  <2>2. PICK refused \in SUBSET {a \in Addr : HasSession(a)} :
           /\ retiring' = retiring \cup {HandleOf(a) : a \in {b \in refused : sessions[b].inFlight}}
           /\ writes' = writes \ {HandleOf(a) : a \in {b \in Addr : HasSession(b)} \ refused}
    BY <1>4 DEF DisconnectAll
  <2>3. ASSUME NEW h \in retiring'
        PROVE  Awaited(h)' /\ h.gen # 0 /\ h.gen <= nextId /\ h.addr \in Addr
    <3>1. CASE h \in retiring
      <4>1. h.addr \in Addr /\ Awaited(h) /\ h.gen # 0 /\ h.gen <= nextId
            /\ sessions[h.addr].gen # h.gen
        BY <1>1, <3>1 DEF Retired, TypeOK, Handle
      <4>2. h \in writes => h \in writes'
        BY <2>2, <4>1 DEF HandleOf
      <4>3. QED
        BY <2>1, <4>1, <4>2 DEF Awaited, Owed, Scheduled
    <3>2. CASE h \notin retiring
      <4>1. PICK b \in refused : h = HandleOf(b) /\ sessions[b].inFlight
        BY <2>2, <2>3, <3>2
      <4>2. h \in Handle /\ h.addr = b /\ h.gen = sessions[b].gen /\ b \in Addr
        BY <1>1, <4>1, HandleTypes DEF HandleOf
      <4>3. h.gen # 0 /\ Owed(h) /\ h.gen <= nextId
        BY <4>1, <4>2 DEF Retired
      <4>4. h \in writes => h \in writes'
        BY <2>2, <4>1, <4>2 DEF HandleOf
      <4>5. QED
        BY <2>1, <4>2, <4>3, <4>4 DEF Awaited, Owed, Scheduled
    <3>3. QED
      BY <3>1, <3>2
  <2>4. nextId \in Nat
    BY <1>1 DEF TypeOK
  <2>5. QED
    BY <2>1, <2>3, <2>4 DEF Retired, NoSession, NewSession, Handle
<1>5. ASSUME NEW a \in Addr, StartSend(a)
      PROVE  Retired'
  <2>1. /\ sessions' = [sessions EXCEPT ![a].inFlight = TRUE]
        /\ writes' = writes \cup {HandleOf(a)} /\ nextId' = nextId + 1
        /\ UNCHANGED <<retiring, mainQ, timers>>
    BY <1>5 DEF StartSend, loopVars
  <2>2. HasSession(a)
    BY <1>5 DEF StartSend, Sendable, Control, OpenIsSettled
  <2>3. \A k : (Owed(k) => Owed(k)') /\ (Awaited(k) => Awaited(k)')
    BY <2>1 DEF Owed, Awaited, Scheduled
  <2>4. /\ \A b \in Addr : sessions'[b].gen = sessions[b].gen
        /\ \A b \in Addr \ {a} : sessions'[b] = sessions[b]
    BY <1>1, <2>1 DEF Session
  <2>5. \A k \in retiring' : Awaited(k)'
    BY <2>1, <2>3 DEF Retired
  <2>6. ASSUME NEW k \in Handle, sessions[k.addr].gen = k.gen, sessions'[k.addr].inFlight
        PROVE  k.gen # 0 /\ Owed(k)'
    <3>1. CASE k.addr = a
      <4>1. k = HandleOf(a) /\ k.gen # 0
        BY <2>2, <2>6, <3>1 DEF HandleOf, Handle, HasSession
      <4>2. QED
        BY <2>1, <4>1 DEF Owed
    <3>2. CASE k.addr # a
      <4>1. k.gen # 0 /\ Owed(k)
        BY <2>4, <2>6, <3>2 DEF Retired, Handle
      <4>2. QED
        BY <2>3, <4>1
    <3>3. QED
      BY <3>1, <3>2
  <2>7. QED
    BY <1>1, <2>1, <2>4, <2>5, <2>6, RetiredKept
<1>6. ASSUME NEW a \in Addr, RejectWrite(a)
      PROVE  Retired'
  <2>1. /\ sessions[a].inFlight /\ FailLater(a)
        /\ UNCHANGED <<retiring, nextId, timers, writes>>
    BY <1>6 DEF RejectWrite
  <2>2. T("fail", a, sessions[a].gen) \in Task
    BY <1>1, TaskTypes DEF Session, Kind
  <2>3. Scheduled \subseteq Scheduled'
    BY <1>1, <2>1, <2>2, PostStays DEF FailLater
  <2>4. /\ \A b \in Addr : sessions'[b].gen = sessions[b].gen
        /\ \A b \in Addr : sessions'[b].inFlight => sessions[b].inFlight
    BY <1>1, <2>1 DEF FailLater, Failed
  <2>5. \A k : (Owed(k) => Owed(k)') /\ (Awaited(k) => Awaited(k)')
    BY <2>1, <2>3 DEF Owed, Awaited
  <2>6. \A k \in retiring' : Awaited(k)'
    BY <2>1, <2>5 DEF Retired
  <2>7. \A k \in Handle : sessions[k.addr].gen = k.gen /\ sessions'[k.addr].inFlight
                          => k.gen # 0 /\ Owed(k)'
    BY <2>4, <2>5 DEF Retired, Handle
  <2>8. QED
    BY <1>1, <2>1, <2>4, <2>6, <2>7, RetiredKept
<1>7. QED
  BY <1>2, <1>3, <1>4, <1>5, <1>6 DEF Callers

\* Retired is inductive on top of Control.
LEMMA NextRetired == Control /\ Retired /\ [Next]_vars => Retired'
<1> SUFFICES ASSUME Control, Retired, [Next]_vars
             PROVE  Retired'
  OBVIOUS
<1>1. CASE UNCHANGED vars
  <2>1. /\ TypeOK /\ StartNext.kind = "startNext" /\ Scheduled' = Scheduled
        /\ UNCHANGED <<sessions, retiring, nextId, writes>>
    BY <1>1 DEF Control, StartNext, T, Scheduled, vars, mainVars, loopVars, nativeVars
  <2>2. QED
    BY <2>1, RetiredUntouched
<1>2. QED
  BY <1>1, RunBlockRetired, RunTimerRetired, NativeRetired, CallersRetired
  DEF Next, RunTimer

\* A retiring session, which makes connect refuse its device, always has what releases
\* it: a write that is still to complete, or the posted release or closure.
THEOREM RetiringIsReleased == Spec => []RetiringEnds
<1>1. Init => Retired
  BY DEF Init, Retired, NoSession, NewSession, Handle
<1>2. Retired => RetiringEnds
  BY DEF Retired, RetiringEnds, Awaited, Owed
<1>3. QED
  BY <1>1, <1>2, NextRetired, ControlInvariant, PTL DEF Spec

-----------------------------------------------------------------------------
(***************************************************************************)
(* The audio guard's targets follow the connections                        *)
(***************************************************************************)
\* What the guard has to protect: a device with a session, the one that holds the
\* slot, and one that waits for the slot again after its SDP query.
Needed(a) == HasSession(a) \/ connecting = a \/ (IsPending(a) /\ connections[a].resolved)

Guard == /\ \A a \in guarded : HasSession(a) \/ IsPending(a)
         /\ ~ListenerFails => \A a \in Addr : Needed(a) => a \in guarded

\* The context c guards what is guarded, but perhaps for a.
Guards(c, a) == c.guarded \ {a} = guarded \ {a}

\* A step that concerns device a alone keeps Guard when it keeps it for a.
LEMMA GuardOf ==
    ASSUME TypeOK, Guard, NEW a \in Addr, guarded' \ {a} = guarded \ {a},
           \A b \in Addr \ {a} : /\ sessions'[b].gen = sessions[b].gen
                                 /\ connections'[b] = connections[b]
                                 /\ connecting' = b => connecting = b,
           a \in guarded' => HasSession(a)' \/ IsPending(a)',
           ~ListenerFails /\ Needed(a)' => a \in guarded'
    PROVE  Guard'
<1>1. ASSUME NEW b \in guarded' PROVE HasSession(b)' \/ IsPending(b)'
  <2>1. CASE b = a
    BY <1>1, <2>1
  <2>2. CASE b # a
    <3>1. b \in guarded /\ b \in Addr
      BY <1>1, <2>2 DEF TypeOK
    <3>2. QED
      BY <2>2, <3>1 DEF Guard, HasSession, IsPending
  <2>3. QED
    BY <2>1, <2>2
<1>2. ASSUME ~ListenerFails, NEW b \in Addr, Needed(b)' PROVE b \in guarded'
  <2>1. CASE b = a
    BY <1>2, <2>1
  <2>2. CASE b # a
    <3>1. Needed(b)
      BY <1>2, <2>2 DEF Needed, HasSession, IsPending
    <3>2. QED
      BY <1>2, <2>2, <3>1 DEF Guard
  <2>3. QED
    BY <2>1, <2>2
<1>3. QED
  BY <1>1, <1>2 DEF Guard

\* A step that changes none of what Guard is about keeps it.
LEMMA GuardUntouched ==
    ASSUME Guard, UNCHANGED <<connections, connecting, guarded>>,
           \A a \in Addr : sessions'[a].gen = sessions[a].gen, guarded \subseteq Addr
    PROVE  Guard'
  BY DEF Guard, Needed, HasSession, IsPending

\* fail_connection ends the protection of the device with its connection.
LEMMA FailConnectionGuard ==
    ASSUME Control, Guard, NEW a \in Addr, NEW already \in BOOLEAN, NEW c, Guards(c, a),
           FailConnection(a, already, c)
    PROVE  Guard'
<1>1. TypeOK
  BY DEF Control
<1>2. sessions' = [sessions EXCEPT ![a] = NoSession] /\ guarded' = c.guarded \ {a}
  BY DEF FailConnection, Close, Forget
<1>3. /\ connections' = [connections EXCEPT ![a] = NoPending]
      /\ connecting' = IF connecting = a THEN NoAddr ELSE connecting
  BY <1>1, ReleaseEffect DEF FailConnection
<1>4. guarded' \ {a} = guarded \ {a} /\ a \notin guarded'
  BY <1>2 DEF Guards
<1>5. ~Needed(a)'
  BY <1>1, <1>2, <1>3, AddrAssumption
  DEF TypeOK, Needed, HasSession, IsPending, NoSession, NewSession, NoPending
<1>6. \A b \in Addr \ {a} : /\ sessions'[b].gen = sessions[b].gen
                            /\ connections'[b] = connections[b]
                            /\ connecting' = b => connecting = b
  BY <1>1, <1>2, <1>3, AddrAssumption DEF TypeOK
<1>7. QED
  BY <1>1, <1>4, <1>5, <1>6, GuardOf

\* retry_connection keeps the protection of a device that goes back to the queue.
LEMMA RetryConnectionGuard ==
    ASSUME Control, Guard, NEW a \in Addr, NEW already \in BOOLEAN, NEW c, Guards(c, a),
           ~sessions[a].opened, RetryConnection(a, already, c)
    PROVE  Guard'
<1>1. CASE FailConnection(a, already, c)
  BY <1>1, FailConnectionGuard
<1>2. CASE /\ Close(a, NoSession, already)
           /\ UNCHANGED <<connections, guarded>>
           /\ \/ connecting' = connecting /\ ~IsPending(a)
              \/ connecting' = (IF connecting = a THEN NoAddr ELSE connecting)
                 /\ IsPending(a)
  <2>1. TypeOK /\ sessions' = [sessions EXCEPT ![a] = NoSession]
    BY <1>2 DEF Control, Close
  <2>2. ~IsPending(a) => ~HasSession(a)
    BY DEF Control, OneAttempt
  <2>3. a \in guarded => IsPending(a)
    BY <2>2 DEF Guard
  <2>4. IsPending(a)' = IsPending(a)
    BY <1>2 DEF IsPending
  <2>5. ~ListenerFails /\ Needed(a)' => a \in guarded
    BY <1>2, <2>1 DEF TypeOK, Guard, Needed, HasSession, IsPending, NoSession, NewSession
  <2>6. \A b \in Addr \ {a} : /\ sessions'[b].gen = sessions[b].gen
                              /\ connections'[b] = connections[b]
                              /\ connecting' = b => connecting = b
    BY <1>2, <2>1, AddrAssumption DEF TypeOK
  <2>7. QED
    BY <1>2, <2>1, <2>3, <2>4, <2>5, <2>6, GuardOf
<1>3. QED
  BY <1>1, <1>2 DEF RetryConnection, sharedVars

\* try_next_channel keeps the protection start_next_connection has asked for.
LEMMA TryNextChannelGuard ==
    ASSUME Control, Guard, NEW a \in Addr, NEW chs, NEW c, Guards(c, a),
           ~ListenerFails => a \in c.guarded,
           IsPending(a), connecting \in {a, NoAddr}, TryNextChannel(a, chs, c)
    PROVE  Guard'
<1>1. TypeOK /\ nextId \in Nat
  BY DEF Control, TypeOK
<1>2. CASE FailConnection(a, FALSE, c)
  BY <1>2, FailConnectionGuard
<1>3. ASSUME guarded' = c.guarded, HoldSlot(a, chs, c),
             NEW new \in {NoSession, NewSession(nextId + 1, FALSE)}, Close(a, new, FALSE)
      PROVE  Guard'
  <2>1. /\ sessions' = [sessions EXCEPT ![a] = new]
        /\ connections' = [connections EXCEPT ![a].resolved = TRUE]
        /\ connecting' = a
    BY <1>3 DEF Close, HoldSlot
  <2>2. IsPending(a)'
    BY <1>1, <2>1 DEF TypeOK, IsPending, Pending
  <2>3. \A b \in Addr \ {a} : /\ sessions'[b].gen = sessions[b].gen
                              /\ connections'[b] = connections[b]
                              /\ connecting' = b => connecting = b
    BY <1>1, <2>1 DEF TypeOK
  <2>4. QED
    BY <1>1, <1>3, <2>2, <2>3, GuardOf DEF Guards
<1>4. CASE /\ guarded' = c.guarded
           /\ Close(a, NewSession(nextId + 1, TRUE), FALSE) /\ ReleaseSlot(a, c)
  <2>1. sessions' = [sessions EXCEPT ![a] = NewSession(nextId + 1, TRUE)]
    BY <1>4 DEF Close
  <2>2. /\ connections' = [connections EXCEPT ![a] = NoPending]
        /\ connecting' = NoAddr
    BY <1>1, <1>4, ReleaseEffect
  <2>3. HasSession(a)'
    BY <1>1, <2>1 DEF TypeOK, HasSession, NewSession
  <2>4. \A b \in Addr \ {a} : /\ sessions'[b].gen = sessions[b].gen
                              /\ connections'[b] = connections[b]
                              /\ connecting' = b => connecting = b
    BY <1>1, <2>1, <2>2, AddrAssumption DEF TypeOK
  <2>5. QED
    BY <1>1, <1>4, <2>3, <2>4, GuardOf DEF Guards
<1>5. QED
  BY <1>2, <1>3, <1>4 DEF TryNextChannel

\* start_next_connection starts the guard before the device takes the slot.
LEMMA StartConnectionGuard ==
    ASSUME Control, Guard, NEW a \in Addr, IsPending(a), connecting = NoAddr, NEW c,
           c.guarded = guarded, StartConnection(a, c)
    PROVE  Guard'
<1>1. TypeOK
  BY DEF Control
<1>2. ASSUME NEW d \in Guardings(c, a)
      PROVE  Guards(d, a) /\ (~ListenerFails => a \in d.guarded)
  BY <1>2 DEF Guardings, Guarding, Guards, Ctx
<1>3. CASE connections[a].resolved /\ TryNextChannel(a, channelsLeft[a], c)
  <2>1. Guards(c, a) /\ (~ListenerFails => a \in c.guarded)
    BY <1>3 DEF Guard, Guards, Needed
  <2>2. QED
    BY <1>3, <2>1, TryNextChannelGuard
<1>4. ASSUME NEW d \in Guardings(c, a), NEW found \in BOOLEAN, FinishSdp(a, found, d)
      PROVE  Guard'
  BY <1>2, <1>4, TryNextChannelGuard DEF FinishSdp
<1>5. ASSUME NEW d \in Guardings(c, a), BeginSdp(a, d)
      PROVE  Guard'
  <2>1. UNCHANGED <<sessions, connections>> /\ connecting' = a /\ guarded' = d.guarded
    BY <1>5 DEF BeginSdp
  <2>2. IsPending(a)'
    BY <2>1 DEF IsPending
  <2>3. QED
    BY <1>1, <1>2, <2>1, <2>2, GuardOf DEF Guards
<1>6. QED
  BY <1>3, <1>4, <1>5 DEF StartConnection

\* Every block of the main queue keeps Guard.
LEMMA RunBlockGuard ==
    ASSUME Control, Guard, RunBlock
    PROVE  Guard'
<1>1. TypeOK /\ Head(mainQ) \in Task /\ guarded \subseteq Addr
  BY Contexts
  DEF Control, RunBlock, RunStartNext, RunRetry, RunOpenFailed, RunOpened, RunClosed,
      RunRelease, RunFail, Runs, TypeOK
<1> PICK t \in Task : t = Head(mainQ)
  BY <1>1
<1> DEFINE a == t.addr
<1>2. t.kind # "startNext" => a \in Addr
  BY DEF Task
<1>3. \A b \in Addr : IsPending(b) => ~sessions[b].opened
  BY DEF Control, OpenIsSettled
<1>4. Guards(FromQueue, a)
  BY DEF Guards, FromQueue, Ctx
<1>5. CASE RunStartNext
  <2>1. ASSUME NEW b \in Addr, NEW i \in DOMAIN connectQueue,
               connecting = NoAddr, IsPending(b), StartConnection(b, Popped(i))
        PROVE  Guard'
    <3>1. Popped(i).guarded = guarded
      BY DEF Popped, Ctx
    <3>2. QED
      BY <2>1, <3>1, StartConnectionGuard
  <2>2. CASE UNCHANGED <<sessions, connections, connecting, guarded>>
    BY <1>1, <2>2, GuardUntouched
  <2>3. QED
    BY <1>5, <2>1, <2>2 DEF RunStartNext, IsNext, mainVars, sharedVars
<1>6. ASSUME NEW current, current => a \in Addr /\ ~sessions[a].opened,
             RetryIf(current, a, FromQueue)
      PROVE  Guard'
  <2>1. CASE current /\ RetryConnection(a, FALSE, FromQueue)
    BY <1>4, <1>6, <2>1, RetryConnectionGuard
  <2>2. CASE UNCHANGED <<mainVars, sharedVars>>
    BY <1>1, <2>2, GuardUntouched DEF mainVars, sharedVars
  <2>3. QED
    BY <1>6, <2>1, <2>2 DEF RetryIf
<1>7. CASE RunRetry
  <2>1. RetryIsCurrent(t) => a \in Addr /\ ~sessions[a].opened
    BY <1>2, <1>3, <1>7 DEF RetryIsCurrent, RunRetry, Runs
  <2>2. QED
    BY <1>6, <1>7, <2>1 DEF RunRetry
<1>8. CASE RunOpenFailed
  <2>1. IsOpeningSession(t) => a \in Addr /\ ~sessions[a].opened
    BY <1>2, <1>8 DEF IsOpeningSession, RunOpenFailed, Runs
  <2>2. QED
    BY <1>6, <1>8, <2>1 DEF RunOpenFailed
<1>9. CASE RunOpened
  <2>1. a \in Addr /\ guarded' = guarded
    BY <1>2, <1>9 DEF RunOpened, Runs
  <2>2. CASE UNCHANGED <<sessions, connections, connecting>>
    BY <1>1, <2>1, <2>2, GuardUntouched
  <2>3. CASE /\ IsOpeningSession(t)
             /\ sessions' = [sessions EXCEPT ![a].opened = TRUE]
    <3>1. IsPending(a) /\ connecting = a
      BY <2>1, <2>3 DEF IsOpeningSession, Matches, Control, OneAttempt
    <3>2. ReleaseSlot(a, FromQueue)
      BY <1>9, <2>3, <3>1 DEF RunOpened
    <3>3. /\ connections' = [connections EXCEPT ![a] = NoPending]
          /\ connecting' = NoAddr
      BY <1>1, <2>1, <3>1, <3>2, ReleaseEffect
    <3>4. \A b \in Addr : sessions'[b].gen = sessions[b].gen
      BY <1>1, <2>1, <2>3 DEF TypeOK, Session
    <3>5. HasSession(a)'
      BY <2>1, <2>3, <3>4 DEF IsOpeningSession, Matches, HasSession
    <3>6. ~ListenerFails => a \in guarded
      BY <2>1, <3>1 DEF Guard, Needed
    <3>7. \A b \in Addr \ {a} : /\ connections'[b] = connections[b]
                                /\ connecting' # b
      BY <1>1, <3>3, AddrAssumption DEF TypeOK
    <3>8. QED
      BY <1>1, <2>1, <3>4, <3>5, <3>6, <3>7, GuardOf
  <2>4. QED
    BY <1>9, <2>2, <2>3 DEF RunOpened
<1>10. CASE RunClosed
  <2>1. a \in Addr
    BY <1>2, <1>10 DEF RunClosed, Runs
  <2>2. CASE UNCHANGED <<sessions, connections, connecting, guarded>>
    BY <1>1, <2>2, GuardUntouched
  <2>3. CASE IsPending(a) /\ RetryConnection(a, TRUE, FromQueue)
    BY <1>3, <1>4, <2>1, <2>3, RetryConnectionGuard
  <2>4. CASE /\ ~IsPending(a)
             /\ Close(a, NoSession, TRUE) /\ Forget(a, FromQueue)
             /\ UNCHANGED <<connections, connecting>>
    <3>1. sessions' = [sessions EXCEPT ![a] = NoSession] /\ guarded' = guarded \ {a}
      BY <2>4 DEF Close, Forget, FromQueue, Ctx
    <3>2. connecting # a
      BY <2>1, <2>4, AddrAssumption DEF Control, SlotPending
    <3>3. ~Needed(a)'
      BY <1>1, <2>1, <2>4, <3>1, <3>2
      DEF TypeOK, Needed, HasSession, IsPending, NoSession, NewSession
    <3>4. QED
      BY <1>1, <2>1, <2>4, <3>1, <3>3, GuardOf DEF TypeOK
  <2>5. QED
    BY <1>10, <2>2, <2>3, <2>4 DEF RunClosed, sharedVars
<1>11. CASE RunRelease
  BY <1>1, <1>11, GuardUntouched DEF RunRelease, sharedVars
<1>12. CASE RunFail
  <2>1. CASE UNCHANGED <<mainVars, sharedVars>>
    BY <1>1, <2>1, GuardUntouched DEF mainVars, sharedVars
  <2>2. CASE FailConnection(a, FALSE, FromQueue)
    BY <1>2, <1>4, <1>12, <2>2, FailConnectionGuard DEF RunFail, Runs
  <2>3. QED
    BY <1>12, <2>1, <2>2 DEF RunFail
<1>13. QED
  BY <1>5, <1>7, <1>8, <1>9, <1>10, <1>11, <1>12 DEF RunBlock

\* Every timer keeps Guard.
LEMMA RunTimerGuard ==
    ASSUME Control, Guard, NEW t \in timers, RunPoll(t) \/ RunOpenTimeout(t)
    PROVE  Guard'
<1> DEFINE a == t.addr
<1>1. t \in Task /\ (t.kind # "startNext" => a \in Addr) /\ guarded \subseteq Addr
  BY Contexts DEF Control, TypeOK, Task
<1>2. Guards(FromTimer(t), a) /\ FromTimer(t).guarded = guarded
  BY DEF Guards, FromTimer, Ctx
<1>3. CASE UNCHANGED <<mainVars, sharedVars>>
  BY <1>1, <1>3, GuardUntouched DEF mainVars, sharedVars
<1>4. CASE RunPoll(t)
  <2>1. a \in Addr
    BY <1>1, <1>4 DEF RunPoll
  <2>2. ASSUME PollIsCurrent(t), NEW chs, TryNextChannel(a, chs, FromTimer(t))
        PROVE  Guard'
    <3>1. IsPending(a) /\ connecting = a
      BY <2>1, <2>2, AddrAssumption DEF PollIsCurrent, Control, SlotPending
    <3>2. ~ListenerFails => a \in guarded
      BY <2>1, <3>1 DEF Guard, Needed
    <3>3. QED
      BY <1>2, <2>1, <2>2, <3>1, <3>2, TryNextChannelGuard
  <2>3. QED
    BY <1>3, <1>4, <2>2 DEF RunPoll, FinishSdp
<1>5. CASE RunOpenTimeout(t)
  <2>1. CASE IsOpeningSession(t) /\ RetryConnection(a, FALSE, FromTimer(t))
    BY <1>1, <1>2, <1>5, <2>1, RetryConnectionGuard DEF RunOpenTimeout, IsOpeningSession
  <2>2. QED
    BY <1>3, <1>5, <2>1 DEF RunOpenTimeout, RetryIf
<1>6. QED
  BY <1>4, <1>5

\* IOBluetooth's callbacks keep Guard: they only post blocks.
LEMMA NativeGuard ==
    ASSUME Control, Guard, Native
    PROVE  Guard'
<1>1. TypeOK /\ guarded \subseteq Addr
  BY DEF Control, TypeOK
<1>2. CASE UNCHANGED <<mainVars, sharedVars>>
  BY <1>1, <1>2, GuardUntouched DEF mainVars, sharedVars
<1>3. ASSUME NEW h \in writes, NEW ok \in BOOLEAN, WriteComplete(h, ok)
      PROVE  Guard'
  <2>1. h.addr \in Addr
    BY <1>1 DEF TypeOK, Handle
  <2>2. \A b \in Addr : sessions'[b].gen = sessions[b].gen
    <3>1. CASE FailLater(h.addr)
      BY <1>1, <2>1, <3>1, FailLaterEffect
    <3>2. sessions \in [Addr -> Session]
      BY <1>1 DEF TypeOK
    <3>3. CASE sessions' = [sessions EXCEPT ![h.addr].inFlight = FALSE]
      BY <2>1, <3>2, <3>3 DEF Session
    <3>4. QED
      BY <1>3, <3>1, <3>3 DEF WriteComplete
  <2>3. QED
    BY <1>1, <1>3, <2>2, GuardUntouched DEF WriteComplete, sharedVars
<1>4. QED
  BY <1>2, <1>3 DEF Native, OpenComplete, ChannelClosed, SdpComplete

\* connect leaves the guard alone, disconnect and disconnect_all end it with the
\* connections.
LEMMA CallersGuard ==
    ASSUME Control, Guard, Callers
    PROVE  Guard'
<1>1. TypeOK /\ guarded \subseteq Addr
  BY DEF Control, TypeOK
<1>2. ASSUME NEW a \in Addr, Connect(a)
      PROVE  Guard'
  <2>1. /\ ~IsPending(a) /\ ~HasSession(a)
        /\ UNCHANGED <<sessions, connecting, guarded>>
        /\ connections' = [connections EXCEPT ![a] = [gen |-> nextId + 1, resolved |-> FALSE]]
    BY <1>2 DEF Connect, sharedVars
  <2>2. a \notin guarded /\ connecting # a
    BY <2>1, AddrAssumption DEF Guard, Control, SlotPending
  <2>3. ~Needed(a)'
    BY <1>1, <2>1, <2>2 DEF TypeOK, Needed, HasSession
  <2>4. QED
    BY <1>1, <2>1, <2>2, <2>3, GuardOf DEF TypeOK
<1>3. ASSUME NEW a \in Addr, Disconnect(a)
      PROVE  Guard'
  <2>1. Guards(FromCaller, a)
    BY DEF Guards, FromCaller, Ctx
  <2>2. QED
    BY <1>3, <2>1, FailConnectionGuard DEF Disconnect
<1>4. CASE DisconnectAll
  <2>1. /\ sessions' = [a \in Addr |-> NoSession] /\ connecting' = NoAddr
        /\ connections' = [a \in Addr |-> NoPending] /\ guarded' = {}
    BY <1>4 DEF DisconnectAll
  <2>2. QED
    BY <2>1, AddrAssumption
    DEF Guard, Needed, HasSession, IsPending, NoSession, NewSession, NoPending
<1>5. ASSUME NEW a \in Addr, StartSend(a) \/ RejectWrite(a)
      PROVE  Guard'
  <2>1. UNCHANGED <<connections, connecting, guarded>>
    BY <1>5 DEF StartSend, RejectWrite, sharedVars
  <2>2. \A b \in Addr : sessions'[b].gen = sessions[b].gen
    <3>1. CASE FailLater(a)
      BY <1>1, <3>1, FailLaterEffect
    <3>2. CASE sessions' = [sessions EXCEPT ![a].inFlight = TRUE]
      BY <1>1, <3>2 DEF TypeOK, Session
    <3>3. QED
      BY <1>5, <3>1, <3>2 DEF StartSend, RejectWrite
  <2>3. QED
    BY <1>1, <2>1, <2>2, GuardUntouched
<1>6. QED
  BY <1>2, <1>3, <1>4, <1>5 DEF Callers

\* Guard is inductive on top of Control.
LEMMA NextGuard == Control /\ Guard /\ [Next]_vars => Guard'
<1> SUFFICES ASSUME Control, Guard, [Next]_vars
             PROVE  Guard'
  OBVIOUS
<1>1. CASE UNCHANGED vars
  BY <1>1, GuardUntouched DEF Control, TypeOK, vars, mainVars, sharedVars
<1>2. QED
  BY <1>1, RunBlockGuard, RunTimerGuard, NativeGuard, CallersGuard DEF Next, RunTimer

\* The audio guard protects no device that is neither pending nor connected and, where
\* CoreAudio lets it listen, every device that has a session or the slot.
THEOREM GuardFollows == Spec => []GuardFollowsConnections
<1>1. Init => Guard
  BY AddrAssumption
  DEF Init, Guard, Needed, HasSession, IsPending, NoSession, NewSession, NoPending
<1>2. Guard => GuardFollowsConnections
  BY DEF Guard, GuardFollowsConnections, Needed
<1>3. QED
  BY <1>1, <1>2, NextGuard, ControlInvariant, PTL DEF Spec

-----------------------------------------------------------------------------
(***************************************************************************)
(* Late blocks are harmless                                                *)
(***************************************************************************)
\* A queue that is only added to extends what it was.
LEMMA Extended ==
    ASSUME NEW q \in Seq(Task), NEW ts \in Seq(Task)
    PROVE  Extends(q \o ts, q) /\ Extends(q, q)
  BY DEF Extends

\* A step that disarms at most u and only adds to the main queue ran at most u.
LEMMA RanAtMost ==
    ASSUME TypeOK, NEW u, timers \ {u} \subseteq timers',
           mainQ' = mainQ \/ \E ts \in Seq(Task) : mainQ' = mainQ \o ts
    PROVE  Ran \subseteq {u}
<1>1. Extends(mainQ', mainQ)
  <2>1. mainQ \in Seq(Task)
    BY DEF TypeOK
  <2>2. CASE mainQ' = mainQ
    <3>1. <<>> \in Seq(Task)
      OBVIOUS
    <3> QED BY <2>1, <2>2, <3>1, Extended
  <2>3. CASE \E ts \in Seq(Task) : mainQ' = mainQ \o ts
    BY <2>1, <2>3, Extended
  <2> QED BY <2>2, <2>3
<1>2. QED
  BY <1>1 DEF Ran, HeadRan

\* A step that disarms no timer ran at most the head of the main queue.
LEMMA RanHead ==
    ASSUME timers \subseteq timers'
    PROVE  \A t \in Ran : t = Head(mainQ)
  BY DEF Ran, HeadRan

\* The property of StaleBlocksInert, of one step.
Inert ==
    \A a \in Addr, t \in Ran :
       /\ HasSession(a)
       /\ \/ sessions'[a].gen # sessions[a].gen
          \/ sessions'[a].opened # sessions[a].opened
       /\ t.kind \in Stamped
       => t.addr = a /\ t.gen = sessions[a].gen

\* A step is harmless that changes no session, that runs no stamped block, or that
\* changes the session its block is stamped with alone.
LEMMA InertSteps ==
    ASSUME NEW b, NEW g,
           \/ \A a \in Addr : /\ sessions'[a].gen = sessions[a].gen
                              /\ sessions'[a].opened = sessions[a].opened
           \/ \A t \in Ran : t.kind \notin Stamped
           \/ /\ \A t \in Ran : t.addr = b /\ t.gen = g
              /\ sessions[b].gen = g
              /\ \A a \in Addr \ {b} : sessions'[a] = sessions[a]
    PROVE  Inert
  BY DEF Inert

\* What an operator that ends a session changes of the sessions and the timers.
LEMMA ReplacesOne ==
    ASSUME TypeOK, NEW a, NEW already, NEW c, Replaces(a, already, c)
    PROVE  /\ \A b \in Addr \ {a} : sessions'[b] = sessions[b]
           /\ c.timers \subseteq timers'
           /\ \E ts \in Seq(Task) : mainQ' = c.rest \o ts
  BY DEF Replaces, Continues, Close, TypeOK

\* A block of the main queue that meets a connection or a session of another number
\* leaves both alone.
LEMMA RunBlockInert ==
    ASSUME Control, RunBlock
    PROVE  Inert
<1>1. TypeOK /\ mainQ # <<>> /\ Head(mainQ) \in Task /\ FromQueue.timers = timers
  BY Contexts
  DEF Control, RunBlock, RunStartNext, RunRetry, RunOpenFailed, RunOpened, RunClosed,
      RunRelease, RunFail, Runs, FromQueue, Ctx
<1> PICK t \in Task : t = Head(mainQ)
  BY <1>1
<1> DEFINE a == t.addr
<1>2. t.kind # "startNext" => a \in Addr
  BY DEF Task
<1>3. CASE timers \subseteq timers' /\ t.kind \notin Stamped
  <2>1. \A u \in Ran : u.kind \notin Stamped
    BY <1>3, RanHead
  <2>2. QED
    BY <2>1, InertSteps
<1>4. CASE UNCHANGED sessions
  BY <1>4, InertSteps
<1>5. CASE /\ timers \subseteq timers' /\ Matches(a, t.gen)
           /\ \A b \in Addr \ {a} : sessions'[b] = sessions[b]
  <2>1. \A u \in Ran : u.addr = a /\ u.gen = t.gen
    BY <1>5, RanHead
  <2>2. QED
    BY <1>5, <2>1, InertSteps DEF Matches
<1>6. ASSUME Replaces(a, TRUE, FromQueue) \/ Replaces(a, FALSE, FromQueue)
      PROVE  /\ timers \subseteq timers'
             /\ \A b \in Addr \ {a} : sessions'[b] = sessions[b]
  BY <1>1, <1>6, ReplacesOne
<1>7. CASE RunStartNext
  <2>1. t.kind \notin Stamped
    BY <1>7 DEF RunStartNext, Runs, Stamped
  <2>2. ASSUME NEW b \in Addr, NEW i \in DOMAIN connectQueue, StartConnection(b, Popped(i))
        PROVE  timers \subseteq timers'
    <3>1. Popped(i).timers = timers
      BY DEF Popped, Ctx
    <3>2. Popped(i).timers \subseteq timers'
      BY <1>1, <2>2, StartConnectionReplaces DEF Replaces, Continues
    <3>3. QED
      BY <3>1, <3>2
  <2>3. timers \subseteq timers'
    BY <1>7, <2>2 DEF RunStartNext
  <2>4. QED
    BY <1>3, <2>1, <2>3
<1>8. ASSUME NEW current, RetryIf(current, a, FromQueue)
      PROVE  \/ current /\ Replaces(a, FALSE, FromQueue)
             \/ UNCHANGED sessions
  BY <1>8, RetryConnectionReplaces DEF RetryIf, mainVars
<1>9. CASE RunRetry
  <2>1. t.kind \notin Stamped
    BY <1>9 DEF RunRetry, Runs, Stamped
  <2>2. QED
    BY <1>3, <1>4, <1>6, <1>8, <1>9, <2>1 DEF RunRetry
<1>10. CASE RunOpenFailed
  BY <1>4, <1>5, <1>6, <1>8, <1>10 DEF RunOpenFailed, IsOpeningSession
<1>11. CASE RunOpened
  <2>1. timers' = timers
    BY <1>11 DEF RunOpened
  <2>2. \/ UNCHANGED sessions
        \/ IsOpeningSession(t) /\ sessions' = [sessions EXCEPT ![a].opened = TRUE]
    BY <1>11 DEF RunOpened
  <2>3. QED
    BY <1>1, <1>4, <1>5, <2>1, <2>2 DEF IsOpeningSession, TypeOK
<1>12. CASE RunClosed
  <2>1. CASE Matches(a, t.gen) /\ RetryConnection(a, TRUE, FromQueue)
    BY <1>5, <1>6, <2>1, RetryConnectionReplaces
  <2>2. CASE Matches(a, t.gen) /\ Close(a, NoSession, TRUE) /\ UNCHANGED timers
    BY <1>1, <1>5, <2>2 DEF Close, TypeOK
  <2>3. QED
    BY <1>4, <1>12, <2>1, <2>2 DEF RunClosed
<1>13. CASE RunRelease
  BY <1>4, <1>13 DEF RunRelease
<1>14. CASE RunFail
  <2>1. CASE Matches(a, t.gen) /\ FailConnection(a, FALSE, FromQueue)
    BY <1>5, <1>6, <2>1, FailConnectionReplaces
  <2>2. QED
    BY <1>4, <1>14, <2>1 DEF RunFail, mainVars
<1>15. QED
  BY <1>7, <1>9, <1>10, <1>11, <1>12, <1>13, <1>14 DEF RunBlock

\* So does a timer.
LEMMA RunTimerInert ==
    ASSUME Control, NEW t \in timers, RunPoll(t) \/ RunOpenTimeout(t)
    PROVE  Inert
<1> DEFINE a == t.addr
<1>1. /\ TypeOK /\ t \in Task /\ a \in Addr /\ <<>> \in Seq(Task)
      /\ FromTimer(t).rest = mainQ /\ FromTimer(t).timers = timers \ {t}
  BY Contexts, TaskTypes DEF Control, Task, RunPoll, RunOpenTimeout, FromTimer, Ctx
<1>2. CASE UNCHANGED sessions
  BY <1>2, InertSteps
<1>3. ASSUME Replaces(a, FALSE, FromTimer(t))
      PROVE  /\ Ran \subseteq {t}
             /\ \A b \in Addr \ {a} : sessions'[b] = sessions[b]
  <2>1. /\ timers \ {t} \subseteq timers'
        /\ \E ts \in Seq(Task) : mainQ' = mainQ \o ts
        /\ \A b \in Addr \ {a} : sessions'[b] = sessions[b]
    <3>1. TypeOK /\ Replaces(a, FALSE, FromTimer(t))
      BY <1>1, <1>3
    <3>2. Continues(FromTimer(t))
      BY <3>1 DEF Replaces
    <3>3. \A b \in Addr \ {a} : sessions'[b] = sessions[b]
      BY <3>1, ReplacesOne
    <3>4. QED
      BY <1>1, <3>2, <3>3 DEF Continues
  <2>2. QED
    BY <1>1, <2>1, RanAtMost
<1>4. CASE RunPoll(t)
  <2>1. t.kind \notin Stamped
    BY <1>4 DEF RunPoll, Stamped
  <2>2. CASE \E chs : TryNextChannel(a, chs, FromTimer(t))
    <3>1. Replaces(a, FALSE, FromTimer(t))
      BY <1>1, <2>2, TryNextChannelReplaces
    <3>2. \A u \in Ran : u.kind \notin Stamped
      BY <1>3, <2>1, <3>1
    <3>3. QED
      BY <3>2, InertSteps
  <2>3. QED
    BY <1>2, <1>4, <2>2 DEF RunPoll, FinishSdp, mainVars
<1>5. CASE RunOpenTimeout(t)
  <2>1. CASE IsOpeningSession(t) /\ RetryConnection(a, FALSE, FromTimer(t))
    <3>1. Replaces(a, FALSE, FromTimer(t))
      BY <2>1, RetryConnectionReplaces
    <3>2. QED
      BY <1>3, <2>1, <3>1, InertSteps DEF IsOpeningSession, Matches
  <2>2. QED
    BY <1>2, <1>5, <2>1 DEF RunOpenTimeout, RetryIf, mainVars
<1>6. QED
  BY <1>4, <1>5

\* A callback runs no block: it only posts one.
LEMMA NativeInert ==
    ASSUME Control, Native
    PROVE  Inert
<1>1. TypeOK
  BY DEF Control
<1>2. CASE UNCHANGED sessions
  BY <1>2, InertSteps
<1>3. ASSUME NEW h \in writes, NEW ok \in BOOLEAN, WriteComplete(h, ok)
      PROVE  Inert
  <2>1. h.addr \in Addr
    BY <1>1 DEF TypeOK, Handle
  <2>2. \A b \in Addr : /\ sessions'[b].gen = sessions[b].gen
                        /\ sessions'[b].opened = sessions[b].opened
    <3>1. CASE FailLater(h.addr)
      BY <1>1, <2>1, <3>1, FailLaterEffect
    <3>2. sessions \in [Addr -> Session]
      BY <1>1 DEF TypeOK
    <3>3. CASE sessions' = [sessions EXCEPT ![h.addr].inFlight = FALSE]
      BY <2>1, <3>2, <3>3 DEF Session
    <3>4. QED
      BY <1>3, <3>1, <3>3 DEF WriteComplete
  <2>3. QED
    BY <2>2, InertSteps
<1>4. QED
  BY <1>2, <1>3 DEF Native, OpenComplete, ChannelClosed, SdpComplete, mainVars

\* A call runs no block: its own block is between two others.
LEMMA CallersInert ==
    ASSUME Control, Callers
    PROVE  Inert
<1>1. TypeOK /\ FromCaller.rest = mainQ /\ FromCaller.timers = timers
  BY DEF Control, FromCaller, Ctx
<1>2. CASE UNCHANGED sessions
  BY <1>2, InertSteps
<1>3. CASE Ran = {}
  BY <1>3, InertSteps
<1>4. ASSUME NEW a \in Addr, Disconnect(a)
      PROVE  Inert
  <2>1. Replaces(a, FALSE, FromCaller)
    BY <1>4, FailConnectionReplaces DEF Disconnect
  <2>2. timers \subseteq timers' /\ \E ts \in Seq(Task) : mainQ' = mainQ \o ts
    BY <1>1, <2>1, ReplacesOne
  <2>3. \A u : Ran \subseteq {u}
    BY <1>1, <2>2, RanAtMost
  <2>4. QED
    <3>1. Ran \subseteq {0} /\ Ran \subseteq {1}
      BY <2>3
    <3>2. QED
      BY <1>3, <3>1
<1>5. CASE DisconnectAll
  BY <1>3, <1>5, <1>1, Extended DEF DisconnectAll, loopVars, Ran, HeadRan, TypeOK
<1>6. ASSUME NEW a \in Addr, StartSend(a) \/ RejectWrite(a)
      PROVE  Inert
  <2>1. \A b \in Addr : /\ sessions'[b].gen = sessions[b].gen
                        /\ sessions'[b].opened = sessions[b].opened
    <3>1. CASE FailLater(a)
      BY <1>1, <3>1, FailLaterEffect
    <3>2. CASE sessions' = [sessions EXCEPT ![a].inFlight = TRUE]
      BY <1>1, <3>2 DEF TypeOK, Session
    <3>3. QED
      BY <1>6, <3>1, <3>2 DEF StartSend, RejectWrite
  <2>2. QED
    BY <2>1, InertSteps
<1>7. QED
  BY <1>2, <1>4, <1>5, <1>6 DEF Callers, Connect

\* A block stamped with a session's generation, run late, neither opens nor ends a
\* session of another generation: stale callbacks cannot touch a new connection.
THEOREM StaleBlocksAreInert == Spec => StaleBlocksInert
<1>1. Control /\ [Next]_vars => [Inert]_vars
  <2> SUFFICES ASSUME Control, Next
               PROVE  Inert
    OBVIOUS
  <2>1. QED
    BY RunBlockInert, RunTimerInert, NativeInert, CallersInert DEF Next, RunTimer
<1>2. QED
  BY <1>1, ControlInvariant, PTL DEF Spec, StaleBlocksInert, Inert

-----------------------------------------------------------------------------
(***************************************************************************)
(* No connection is lost: the queue, and what the slot waits for           *)
(***************************************************************************)
\* q holds each member of S once, and nothing else.
Lists(q, S) == /\ q \in Seq(Addr)
               /\ \A i, j \in DOMAIN q : q[i] = q[j] => i = j
               /\ \A a \in Addr : (\E i \in DOMAIN q : q[i] = a) <=> a \in S

\* retain takes its device out of the queue and keeps the others.
LEMMA WithoutLists ==
    ASSUME NEW q, NEW S, Lists(q, S), NEW a
    PROVE  Lists(Without(q, a), S \ {a})
<1> DEFINE K == {i \in DOMAIN q : q[i] # a}
           Upto(i) == {k \in K : k <= i}
           N == Cardinality(K)
           place(n) == CHOOSE i \in K : Cardinality(Upto(i)) = n
           rank == [i \in K |-> Cardinality(Upto(i))]
           p == Without(q, a)
<1>1. /\ q \in Seq(Addr) /\ K \subseteq Nat
      /\ \A i, j \in DOMAIN q : q[i] = q[j] => i = j
      /\ \A i \in K : q[i] \in Addr
  BY DEF Lists
<1>2. IsFiniteSet(K) /\ N \in Nat
  <2>1. IsFiniteSet(1..Len(q))
    BY <1>1, FS_Interval
  <2>2. K \in SUBSET (1..Len(q))
    BY <1>1
  <2> QED BY <2>1, <2>2, FS_Subset, FS_CardinalityType
<1>3. p = [n \in 1..N |-> q[place(n)]]
  BY DEF Without
<1> HIDE DEF K, N, p
<1>4. \A i \in K : /\ IsFiniteSet(Upto(i)) /\ i \in Upto(i)
                   /\ Cardinality(Upto(i)) \in Nat /\ Cardinality(Upto(i)) <= N
                   /\ Cardinality(Upto(i)) # 0
  <2> SUFFICES ASSUME NEW i \in K
               PROVE  /\ IsFiniteSet(Upto(i)) /\ i \in Upto(i)
                      /\ Cardinality(Upto(i)) \in Nat /\ Cardinality(Upto(i)) <= N
                      /\ Cardinality(Upto(i)) # 0
    OBVIOUS
  <2>1. Upto(i) \in SUBSET K /\ i \in Upto(i)
    BY <1>1
  <2> HIDE DEF Upto
  <2>2. IsFiniteSet(Upto(i)) /\ Cardinality(Upto(i)) <= N
    BY <1>2, <2>1, FS_Subset DEF N
  <2> QED BY <2>1, <2>2, FS_CardinalityType, FS_EmptySet
<1>5. \A i, j \in K : i < j => Cardinality(Upto(i)) # Cardinality(Upto(j))
  <2> SUFFICES ASSUME NEW i \in K, NEW j \in K, i < j
               PROVE  Cardinality(Upto(i)) # Cardinality(Upto(j))
    OBVIOUS
  <2>0. i \in Nat /\ j \in Nat /\ \A n \in K : n \in Nat
    BY <1>1
  <2>1. Upto(i) \in SUBSET Upto(j) /\ j \in Upto(j) /\ j \notin Upto(i)
    <3>1. \A n \in K : n <= i => n <= j
      BY <2>0
    <3>2. Upto(i) \in SUBSET Upto(j)
      BY <3>1
    <3>3. j \in Upto(j)
      BY <2>0
    <3>4. j \notin Upto(i)
      BY <2>0
    <3> QED BY <3>2, <3>3, <3>4
  <2>2. IsFiniteSet(Upto(j))
    BY <1>4
  <2> HIDE DEF Upto
  <2> QED BY <2>1, <2>2, FS_Subset
<1> HIDE DEF Upto
<1>6. \A i, j \in K : rank[i] = rank[j] => i = j
  BY <1>1, <1>5
<1>7. rank \in [K -> 1..N]
  BY <1>2, <1>4
<1>8. \A n \in 1..N : \E i \in K : rank[i] = n
  <2>1. rank \in Injection(K, 1..N)
    BY <1>6, <1>7 DEF Injection, IsInjective
  <2>2. IsFiniteSet(1..N) /\ Cardinality(1..N) = N
    BY <1>2, FS_Interval
  <2>3. rank \in Surjection(K, 1..N)
    BY <2>1, <2>2, FS_Injection DEF N
  <2> QED BY <2>3 DEF Surjection
<1>9. \A n \in 1..N : place(n) \in K /\ rank[place(n)] = n
  BY <1>8
<1>10. \A i \in K : rank[i] \in 1..N /\ place(rank[i]) = i
  BY <1>6, <1>7, <1>9
<1> HIDE DEF rank, place
<1>11. /\ p \in Seq(Addr) /\ DOMAIN p = 1..N
       /\ \A n \in 1..N : p[n] = q[place(n)] /\ p[n] # a
  <2>1. \A n \in 1..N : q[place(n)] \in Addr /\ q[place(n)] # a
    BY <1>1, <1>9 DEF K
  <2> QED BY <1>2, <1>3, <2>1
<1>12. \A n, m \in 1..N : p[n] = p[m] => n = m
  BY <1>1, <1>9, <1>11 DEF K
<1>13. \A b \in Addr : (\E n \in DOMAIN p : p[n] = b) <=> b \in S \ {a}
  <2> SUFFICES ASSUME NEW b \in Addr
               PROVE  (\E n \in 1..N : p[n] = b) <=> b \in S \ {a}
    BY <1>11
  <2>1. ASSUME NEW n \in 1..N, p[n] = b PROVE b \in S \ {a}
    BY <1>9, <1>11, <2>1 DEF Lists, K
  <2>2. ASSUME b \in S \ {a} PROVE \E n \in 1..N : p[n] = b
    <3>1. PICK i \in DOMAIN q : q[i] = b
      BY <2>2 DEF Lists
    <3>2. i \in K
      BY <2>2, <3>1 DEF K
    <3> QED BY <1>10, <1>11, <3>1, <3>2
  <2> QED BY <2>1, <2>2
<1> QED BY <1>11, <1>12, <1>13 DEF Lists, p

\* push_back adds one.
LEMMA AppendLists ==
    ASSUME NEW q, NEW S, Lists(q, S), NEW a \in Addr, a \notin S
    PROVE  Lists(Append(q, a), S \cup {a})
<1> DEFINE p == Append(q, a)
<1>1. /\ q \in Seq(Addr) /\ p \in Seq(Addr) /\ DOMAIN p = DOMAIN q \cup {Len(q) + 1}
      /\ \A i \in DOMAIN q : p[i] = q[i] /\ i # Len(q) + 1
      /\ p[Len(q) + 1] = a
  BY DEF Lists
<1> HIDE DEF p
<1>2. \A i \in DOMAIN q : q[i] # a
  BY DEF Lists
<1>3. \A i, j \in DOMAIN p : p[i] = p[j] => i = j
  BY <1>1, <1>2 DEF Lists
<1>4. \A b \in Addr : (\E i \in DOMAIN p : p[i] = b) <=> b \in S \cup {a}
  BY <1>1 DEF Lists
<1> QED BY <1>1, <1>3, <1>4 DEF Lists, p

\* pop_front takes the first.
LEMMA PopLists ==
    ASSUME NEW q, NEW S, Lists(q, S), q # <<>>
    PROVE  Lists(SubSeq(q, 2, Len(q)), S \ {q[1]})
<1> DEFINE p == SubSeq(q, 2, Len(q))
<1>1. /\ q \in Seq(Addr) /\ p \in Seq(Addr) /\ 1 \in DOMAIN q
      /\ \A i \in DOMAIN p : i \in Nat /\ i + 1 \in DOMAIN q /\ p[i] = q[i + 1] /\ i + 1 # 1
      /\ \A i \in DOMAIN q : i # 1 => i \in Nat /\ i - 1 \in DOMAIN p /\ p[i - 1] = q[i]
  BY DEF Lists
<1> HIDE DEF p
<1>2. \A i, j \in DOMAIN p : p[i] = p[j] => i = j
  BY <1>1 DEF Lists
<1>3. \A b \in Addr : (\E i \in DOMAIN p : p[i] = b) <=> b \in S \ {q[1]}
  <2> SUFFICES ASSUME NEW b \in Addr
               PROVE  (\E i \in DOMAIN p : p[i] = b) <=> b \in S \ {q[1]}
    OBVIOUS
  <2>1. ASSUME NEW i \in DOMAIN p, p[i] = b PROVE b \in S /\ b # q[1]
    <3>1. i + 1 \in DOMAIN q /\ i + 1 # 1 /\ q[i + 1] = b /\ 1 \in DOMAIN q
      BY <1>1, <2>1
    <3>2. b \in S
      BY <3>1 DEF Lists
    <3>3. q[i + 1] # q[1]
      BY <3>1 DEF Lists
    <3> QED BY <3>1, <3>2, <3>3
  <2>2. ASSUME b \in S, b # q[1] PROVE \E i \in DOMAIN p : p[i] = b
    <3>1. PICK i \in DOMAIN q : q[i] = b
      BY <2>2 DEF Lists
    <3> QED BY <1>1, <2>2, <3>1
  <2> QED BY <2>1, <2>2
<1> QED BY <1>1, <1>2, <1>3 DEF Lists, p

\* The devices that wait for the slot.
Waiting == {a \in Addr : IsPending(a) /\ connecting # a}

Queue == Lists(connectQueue, Waiting)

\* A posted retry or an armed poll t is for the connection t.gen of t.addr.  While that
\* connection is pending it holds the slot: for a retry its channel was refused, for a
\* poll it has tried none yet.
TokenOf(t) ==
    /\ t.addr \in Addr /\ t.gen # 0 /\ t.gen <= nextId
    /\ connections[t.addr].gen = t.gen =>
          /\ connecting = t.addr
          /\ t.kind = "retry" => sessions[t.addr].gen = 0 /\ connections[t.addr].resolved
          /\ t.kind = "poll" => ~connections[t.addr].resolved

Same(t, u) == t.kind = u.kind /\ t.addr = u.addr /\ t.gen = u.gen

\* Retries are posted and polls are armed, each once.
Sound(q, ts) ==
    /\ \A i \in DOMAIN q : /\ q[i].kind # "poll"
                           /\ q[i].kind = "retry" => TokenOf(q[i])
    /\ \A i, j \in DOMAIN q : q[i].kind = "retry" /\ Same(q[i], q[j]) => i = j
    /\ \A t \in ts : /\ t.kind # "retry"
                     /\ t.kind = "poll" => TokenOf(t)
    /\ \A t, u \in ts : t.kind = "poll" /\ Same(t, u) => t = u

\* Identifiers are not used twice, and a pending connection has a session only after
\* its SDP query.
Numbered ==
    \A a \in Addr : /\ connections[a].gen <= nextId
                    /\ connections[a].gen # 0 /\ sessions[a].gen # 0
                       => connections[a].resolved

Order == Queue /\ Sound(mainQ, timers) /\ Numbered

-----------------------------------------------------------------------------
\* The retries among the blocks q and the polls among the timers ts stay what they are.
Stay(q, ts) ==
    /\ \A i \in DOMAIN q : q[i].kind = "retry" => TokenOf(q[i])'
    /\ \A t \in ts : t.kind = "poll" => TokenOf(t)'

\* A step that posts xs behind q and arms us beside ts leaves the retries and polls
\* sound when the old ones stay what they are and the new ones are new.
LEMMA SoundStep ==
    ASSUME NEW q \in Seq(Task), NEW ts \in SUBSET Task, Sound(q, ts), Stay(q, ts),
           NEW xs \in Seq(Task), mainQ' = q \o xs, Len(xs) <= 1,
           \A i \in DOMAIN xs :
              /\ xs[i].kind # "poll"
              /\ xs[i].kind = "retry" => /\ TokenOf(xs[i])'
                                         /\ \A j \in DOMAIN q : ~Same(q[j], xs[i]),
           NEW us \in SUBSET Task, timers' = ts \cup us,
           \A u, v \in us : u = v,
           \A u \in us :
              /\ u.kind # "retry"
              /\ u.kind = "poll" => TokenOf(u)' /\ \A t \in ts : ~Same(t, u)
    PROVE  Sound(mainQ, timers)'
<1> PICK p, vs : p = mainQ' /\ vs = timers'
  OBVIOUS
<1>1. \A i \in DOMAIN p : \/ i \in DOMAIN q /\ p[i] = q[i]
                          \/ /\ i \notin DOMAIN q /\ p[i] = xs[1] /\ 1 \in DOMAIN xs
                             /\ i = Len(q) + 1
  OBVIOUS
<1>2. ASSUME NEW i \in DOMAIN p
      PROVE  p[i].kind # "poll" /\ (p[i].kind = "retry" => TokenOf(p[i])')
  <2>1. CASE i \in DOMAIN q /\ p[i] = q[i]
    BY <2>1 DEF Sound, Stay
  <2>2. CASE p[i] = xs[1] /\ 1 \in DOMAIN xs
    BY <2>2
  <2>3. QED
    BY <1>1, <2>1, <2>2
<1>3. ASSUME NEW i \in DOMAIN p, NEW j \in DOMAIN p, p[i].kind = "retry", Same(p[i], p[j])
      PROVE  i = j
  <2>1. CASE i \in DOMAIN q /\ j \in DOMAIN q
    BY <1>1, <1>3, <2>1 DEF Sound
  <2>2. CASE i \in DOMAIN q /\ j \notin DOMAIN q
    BY <1>1, <1>3, <2>2 DEF Same
  <2>3. CASE i \notin DOMAIN q /\ j \in DOMAIN q
    <3>1. p[i] = xs[1] /\ 1 \in DOMAIN xs /\ p[j] = q[j]
      BY <1>1, <2>3
    <3>2. ~Same(q[j], xs[1])
      BY <1>3, <2>3, <3>1
    <3>3. QED
      BY <1>3, <3>1, <3>2 DEF Same
  <2>4. CASE i \notin DOMAIN q /\ j \notin DOMAIN q
    BY <1>1, <2>4
  <2>5. QED
    BY <2>1, <2>2, <2>3, <2>4
<1>4. ASSUME NEW t \in vs
      PROVE  t.kind # "retry" /\ (t.kind = "poll" => TokenOf(t)')
  BY <1>4 DEF Sound, Stay
<1>5. ASSUME NEW t \in vs, NEW u \in vs, t.kind = "poll", Same(t, u)
      PROVE  t = u
  BY <1>5 DEF Sound, Same
<1>6. Sound(p, vs)'
  BY <1>2, <1>3, <1>4, <1>5 DEF Sound
<1>7. QED
  BY <1>6 DEF Sound

\* None of the retries in q and the polls in ts is for the connection g of a.
Spent(q, ts, a, g) ==
    /\ \A i \in DOMAIN q : q[i].kind = "retry" /\ q[i].addr = a => q[i].gen # g
    /\ \A t \in ts : t.kind = "poll" /\ t.addr = a => t.gen # g

\* A step that concerns device a alone, and takes the slot from no other.
Only(a) ==
    /\ \A b \in Addr \ {a} : /\ connections'[b] = connections[b]
                             /\ sessions'[b].gen = sessions[b].gen
                             /\ connecting = b => connecting' = b
    /\ nextId' \in {nextId, nextId + 1}

\* Such a step leaves the retries and polls of the others what they are, and those of a
\* when they are not for the connection a has then.
LEMMA OthersStay ==
    ASSUME TypeOK, NEW a \in Addr, Only(a), NEW q \in Seq(Task), NEW ts \in SUBSET Task,
           Sound(q, ts), Spent(q, ts, a, connections'[a].gen)
    PROVE  Stay(q, ts)
<1>1. ASSUME NEW t \in Task, TokenOf(t), t.addr = a => t.gen # connections'[a].gen
      PROVE  TokenOf(t)'
  <2>1. t.addr \in Addr /\ t.gen \in Nat /\ t.gen # 0 /\ t.gen <= nextId /\ nextId \in Nat
    BY <1>1 DEF TokenOf, Task, TypeOK
  <2>2. t.gen <= nextId'
    BY <2>1 DEF Only
  <2>3. CASE t.addr = a
    BY <1>1, <2>1, <2>2, <2>3 DEF TokenOf
  <2>4. CASE t.addr # a
    <3>1. /\ connections'[t.addr] = connections[t.addr]
          /\ sessions'[t.addr].gen = sessions[t.addr].gen
          /\ connecting = t.addr => connecting' = t.addr
      BY <2>1, <2>4 DEF Only
    <3>2. QED
      BY <1>1, <2>1, <2>2, <3>1 DEF TokenOf
  <2>5. QED
    BY <2>3, <2>4
<1>2. \A i \in DOMAIN q : q[i] \in Task
  OBVIOUS
<1>3. QED
  BY <1>1, <1>2 DEF Sound, Spent, Stay

\* A retry or poll is of no connection that is gone, and of none that is new.
LEMMA SpentSimply ==
    ASSUME TypeOK, NEW q \in Seq(Task), NEW ts \in SUBSET Task, Sound(q, ts), NEW a \in Addr,
           NEW g, \/ g = 0 \/ g = nextId + 1
                  \/ g = connections[a].gen /\ connecting # a
    PROVE  Spent(q, ts, a, g)
<1>1. ASSUME NEW t \in Task, TokenOf(t), t.addr = a
      PROVE  t.gen # g
  <2>1. t.gen \in Nat /\ nextId \in Nat
    BY DEF Task, TypeOK
  <2>2. QED
    BY <1>1, <2>1 DEF TokenOf
<1>2. \A i \in DOMAIN q : q[i] \in Task
  OBVIOUS
<1>3. QED
  BY <1>1, <1>2 DEF Sound, Spent

\* The posted blocks stay sound without the one that runs, and the timers without the
\* one that expires.
LEMMA SoundParts ==
    ASSUME TypeOK, Order
    PROVE  /\ Sound(mainQ, timers)
           /\ mainQ # <<>> => Sound(Tail(mainQ), timers)
           /\ \A t \in timers : Sound(mainQ, timers \ {t})
<1>1. mainQ \in Seq(Task) /\ Sound(mainQ, timers)
  BY DEF TypeOK, Order
<1>2. ASSUME mainQ # <<>> PROVE Sound(Tail(mainQ), timers)
  <2>1. \A i \in DOMAIN Tail(mainQ) : i + 1 \in DOMAIN mainQ /\ Tail(mainQ)[i] = mainQ[i + 1]
    BY <1>1, <1>2
  <2>2. \A i, j \in DOMAIN Tail(mainQ) : i + 1 = j + 1 => i = j
    BY <1>1, <1>2
  <2>3. QED
    BY <1>1, <2>1, <2>2 DEF Sound
<1>3. \A t \in timers : Sound(mainQ, timers \ {t})
  BY <1>1 DEF Sound
<1>4. QED
  BY <1>1, <1>2, <1>3

\* The retry that runs was the only one of its connection, and no poll of it is armed.
LEMMA RetrySpent ==
    ASSUME TypeOK, Order, mainQ # <<>>, NEW t \in Task, t = Head(mainQ), t.kind = "retry",
           connections[t.addr].gen = t.gen
    PROVE  TokenOf(t) /\ Spent(Tail(mainQ), timers, t.addr, t.gen)
<1>1. mainQ \in Seq(Task) /\ Sound(mainQ, timers) /\ 1 \in DOMAIN mainQ /\ mainQ[1] = t
  BY DEF TypeOK, Order
<1>2. TokenOf(t)
  BY <1>1 DEF Sound
<1>3. ASSUME NEW i \in DOMAIN Tail(mainQ), Tail(mainQ)[i].kind = "retry",
             Tail(mainQ)[i].addr = t.addr
      PROVE  Tail(mainQ)[i].gen # t.gen
  <2>1. i + 1 \in DOMAIN mainQ /\ Tail(mainQ)[i] = mainQ[i + 1] /\ i + 1 # 1
    BY <1>1, <1>3
  <2>2. ~Same(mainQ[1], mainQ[i + 1])
    BY <1>1, <2>1 DEF Sound
  <2>3. QED
    BY <1>1, <1>3, <2>1, <2>2 DEF Same
<1>4. ASSUME NEW u \in timers, u.kind = "poll", u.addr = t.addr
      PROVE  u.gen # t.gen
  <2>1. TokenOf(u)
    BY <1>1, <1>4 DEF Sound
  <2>2. QED
    BY <1>2, <1>4, <2>1 DEF TokenOf
<1>5. QED
  BY <1>2, <1>3, <1>4 DEF Spent

\* The poll that runs was the only one of its connection, and no retry of it is posted.
LEMMA PollSpent ==
    ASSUME TypeOK, Order, NEW t \in timers, t.kind = "poll",
           connections[t.addr].gen = t.gen
    PROVE  TokenOf(t) /\ Spent(mainQ, timers \ {t}, t.addr, t.gen)
<1>1. Sound(mainQ, timers)
  BY DEF Order
<1>2. TokenOf(t)
  BY <1>1 DEF Sound
<1>3. ASSUME NEW i \in DOMAIN mainQ, mainQ[i].kind = "retry", mainQ[i].addr = t.addr
      PROVE  mainQ[i].gen # t.gen
  <2>1. TokenOf(mainQ[i])
    BY <1>1, <1>3 DEF Sound
  <2>2. QED
    BY <1>2, <1>3, <2>1 DEF TokenOf
<1>4. ASSUME NEW u \in timers \ {t}, u.kind = "poll", u.addr = t.addr
      PROVE  u.gen # t.gen
  BY <1>1, <1>4 DEF Sound, Same
<1>5. QED
  BY <1>2, <1>3, <1>4 DEF Spent

\* A connection that has a session being opened has neither a retry nor a poll.
LEMMA OpeningSpent ==
    ASSUME Control, Numbered, NEW q, NEW ts, Sound(q, ts),
           NEW a \in Addr, IsPending(a), HasSession(a)
    PROVE  connecting = a /\ Spent(q, ts, a, connections[a].gen)
<1>1. ~sessions[a].opened /\ sessions[a].gen # 0 /\ connections[a].gen # 0
      /\ connections[a].resolved
  BY DEF Control, OpenIsSettled, Numbered, HasSession, IsPending
<1>2. connecting = a
  BY <1>1 DEF Control, OneAttempt, HasSession
<1>3. QED
  BY <1>1, <1>2 DEF Sound, Spent, TokenOf

-----------------------------------------------------------------------------
\* A step of device a that posts xs and arms us keeps the retries and polls sound: the
\* old ones of a are spent, the new ones are for the connection a has then.
LEMMA BlockSound ==
    ASSUME TypeOK, NEW a \in Addr, Only(a),
           NEW q \in Seq(Task), NEW ts \in SUBSET Task, Sound(q, ts),
           Spent(q, ts, a, connections'[a].gen),
           NEW xs \in Seq(Task), mainQ' = q \o xs, Len(xs) <= 1,
           \A i \in DOMAIN xs :
              /\ xs[i].kind # "poll"
              /\ xs[i].kind = "retry" => /\ xs[i].addr = a /\ xs[i].gen = connections'[a].gen
                                         /\ TokenOf(xs[i])',
           NEW us \in SUBSET Task, timers' = ts \cup us,
           \A u, v \in us : u = v,
           \A u \in us :
              /\ u.kind # "retry"
              /\ u.kind = "poll" => /\ u.addr = a /\ u.gen = connections'[a].gen
                                    /\ TokenOf(u)'
    PROVE  Sound(mainQ, timers)'
<1>1. Stay(q, ts)
  BY OthersStay
<1>2. ASSUME NEW i \in DOMAIN xs, xs[i].kind = "retry", NEW j \in DOMAIN q
      PROVE  ~Same(q[j], xs[i])
  BY <1>2 DEF Spent, Same
<1>3. ASSUME NEW u \in us, u.kind = "poll", NEW t \in ts
      PROVE  ~Same(t, u)
  BY <1>3 DEF Spent, Same
<1>4. QED
  BY <1>1, <1>2, <1>3, SoundStep

\* The blocks and timers that are neither.
LEMMA PlainSound ==
    ASSUME TypeOK, NEW a \in Addr, Only(a),
           NEW q \in Seq(Task), NEW ts \in SUBSET Task, Sound(q, ts),
           Spent(q, ts, a, connections'[a].gen),
           NEW xs, xs = <<>> \/ \E x \in Task : x.kind \notin {"retry", "poll"} /\ xs = <<x>>,
           mainQ' = q \o xs,
           NEW us, us = {} \/ \E u \in Task : u.kind \notin {"retry", "poll"} /\ us = {u},
           timers' = ts \cup us
    PROVE  Sound(mainQ, timers)'
<1>1. /\ xs \in Seq(Task) /\ Len(xs) <= 1
      /\ \A i \in DOMAIN xs : xs[i].kind \notin {"retry", "poll"}
  <2>1. CASE xs = <<>>
    BY <2>1
  <2>2. ASSUME NEW x \in Task, x.kind \notin {"retry", "poll"}, xs = <<x>>
        PROVE  /\ xs \in Seq(Task) /\ Len(xs) <= 1
               /\ \A i \in DOMAIN xs : xs[i] = x
    BY <2>2
  <2>3. QED
    BY <2>1, <2>2
<1>2. /\ us \in SUBSET Task /\ \A u, v \in us : u = v
      /\ \A u \in us : u.kind \notin {"retry", "poll"}
  OBVIOUS
<1>3. \A i \in DOMAIN xs :
         /\ xs[i].kind # "poll"
         /\ xs[i].kind = "retry" => /\ xs[i].addr = a /\ xs[i].gen = connections'[a].gen
                                    /\ TokenOf(xs[i])'
  BY <1>1
<1>4. \A u \in us :
         /\ u.kind # "retry"
         /\ u.kind = "poll" => /\ u.addr = a /\ u.gen = connections'[a].gen
                               /\ TokenOf(u)'
  BY <1>2
<1>5. QED
  BY <1>1, <1>2, <1>3, <1>4, BlockSound

\* The retry of the connection a has then.
LEMMA RetrySound ==
    ASSUME TypeOK, NEW a \in Addr, Only(a),
           NEW q \in Seq(Task), NEW ts \in SUBSET Task, Sound(q, ts),
           Spent(q, ts, a, connections'[a].gen),
           NEW x \in Task, x.kind = "retry", x.addr = a, x.gen = connections'[a].gen,
           TokenOf(x)', mainQ' = q \o <<x>>, timers' = ts \cup {}
    PROVE  Sound(mainQ, timers)'
<1> PICK xs, us : xs = <<x>> /\ us = {}
  OBVIOUS
<1>1. /\ xs \in Seq(Task) /\ Len(xs) <= 1 /\ \A i \in DOMAIN xs : xs[i] = x
      /\ mainQ' = q \o xs
  OBVIOUS
<1>2. \A i \in DOMAIN xs :
         /\ xs[i].kind # "poll"
         /\ xs[i].kind = "retry" => /\ xs[i].addr = a /\ xs[i].gen = connections'[a].gen
                                    /\ TokenOf(xs[i])'
  BY <1>1
<1>3. /\ us \in SUBSET Task /\ timers' = ts \cup us
      /\ \A u, v \in us : u = v
      /\ \A u \in us : /\ u.kind # "retry"
                       /\ u.kind = "poll" => /\ u.addr = a /\ u.gen = connections'[a].gen
                                             /\ TokenOf(u)'
  OBVIOUS
<1>4. Stay(q, ts)
  BY OthersStay
<1>5. \A i \in DOMAIN xs : \A j \in DOMAIN q : ~Same(q[j], xs[i])
  BY <1>1 DEF Spent, Same
<1>6. \A i \in DOMAIN xs :
              /\ xs[i].kind # "poll"
              /\ xs[i].kind = "retry" => /\ TokenOf(xs[i])'
                                         /\ \A j \in DOMAIN q : ~Same(q[j], xs[i])
  BY <1>2, <1>5
<1>7. \A u \in us :
              /\ u.kind # "retry"
              /\ u.kind = "poll" => TokenOf(u)' /\ \A t \in ts : ~Same(t, u)
  OBVIOUS
<1>8. QED
  <2>1. /\ q \in Seq(Task) /\ ts \in SUBSET Task /\ Sound(q, ts)
        /\ xs \in Seq(Task) /\ mainQ' = q \o xs /\ Len(xs) <= 1
        /\ us \in SUBSET Task /\ timers' = ts \cup us /\ \A u, v \in us : u = v
    BY <1>1, <1>3
  <2>2. QED
    BY ONLY <1>4, <1>6, <1>7, <2>1, SoundStep

\* The tasks that are neither retry nor poll.
LEMMA PlainTasks ==
    /\ StartNext \in Task /\ StartNext.kind \notin {"retry", "poll"}
    /\ \A a \in Addr, g \in Nat : \A k \in Kind \ {"startNext", "retry", "poll"} :
          T(k, a, g) \in Task /\ T(k, a, g).kind \notin {"retry", "poll"}
<1>1. StartNext \in Task /\ \A a \in Addr, g \in Nat, k \in Kind \ {"startNext"} : T(k, a, g) \in Task
  BY TaskTypes
<1>2. QED
  BY <1>1 DEF StartNext, T

\* fail_connection takes its device off the queue and out of the slot.
LEMMA FailConnectionOrder ==
    ASSUME Control, Numbered, NEW a \in Addr, NEW already, NEW c, GoodCtx(c),
           Sound(c.rest, c.timers),
           Lists(c.queue, Waiting) \/ Lists(c.queue, Waiting \ {a}),
           FailConnection(a, already, c)
    PROVE  Order'
<1>1. TypeOK /\ c.rest \in Seq(Task) /\ c.timers \in SUBSET Task
  BY DEF Control, GoodCtx
<1>2. /\ sessions' = [sessions EXCEPT ![a] = NoSession]
      /\ connectQueue' = Without(c.queue, a) /\ nextId' = nextId
      /\ mainQ' = c.rest \o <<StartNext>> /\ timers' = c.timers \cup {}
  BY DEF FailConnection, Close, ReleaseSlot, Then, Arm
<1>3. /\ connections' = [connections EXCEPT ![a] = NoPending]
      /\ connecting' = IF connecting = a THEN NoAddr ELSE connecting
  BY <1>1, ReleaseEffect DEF FailConnection
<1>4. connections'[a].gen = 0 /\ Only(a)
  BY <1>1, <1>2, <1>3 DEF TypeOK, NoPending, Only
<1>5. Waiting' = Waiting \ {a}
  BY <1>1, <1>3, <1>4, AddrAssumption DEF TypeOK, Waiting, IsPending
<1>6. Queue'
  <2>1. Lists(connectQueue', Waiting \ {a})
    <3>1. (Waiting \ {a}) \ {a} = Waiting \ {a}
      OBVIOUS
    <3>2. QED
      BY <1>2, <3>1, WithoutLists
  <2>2. QED
    BY <1>5, <2>1 DEF Queue
<1>7. Spent(c.rest, c.timers, a, connections'[a].gen)
  BY <1>1, <1>4, SpentSimply
<1>8. Sound(mainQ, timers)'
  BY <1>1, <1>2, <1>4, <1>7, PlainTasks, PlainSound
<1>9. Numbered'
  BY <1>1, <1>2, <1>3 DEF TypeOK, Numbered, NoPending, NoSession, NewSession
<1>10. QED
  BY <1>6, <1>8, <1>9 DEF Order

\* retry_connection puts the holder of the slot behind the others, or ends it.
LEMMA RetryConnectionOrder ==
    ASSUME Control, Numbered, NEW a \in Addr, NEW already, NEW c, GoodCtx(c),
           Sound(c.rest, c.timers), c.queue = connectQueue, Queue,
           IsPending(a) => connecting = a /\ Spent(c.rest, c.timers, a, connections[a].gen),
           RetryConnection(a, already, c)
    PROVE  Order'
<1>1. TypeOK /\ c.rest \in Seq(Task) /\ c.timers \in SUBSET Task /\ Lists(connectQueue, Waiting)
  BY DEF Control, GoodCtx, Queue
<1>2. CASE FailConnection(a, already, c)
  BY <1>1, <1>2, FailConnectionOrder
<1>3. CASE /\ Close(a, NoSession, already)
           /\ Arm(c, {}) /\ UNCHANGED <<connections, nextId>>
           /\ \/ /\ ~IsPending(a) /\ UNCHANGED <<connectQueue, connecting>>
                 /\ Then(c, <<>>)
              \/ /\ IsPending(a) /\ connectQueue' = Append(c.queue, a)
                 /\ connecting' = (IF connecting = a THEN NoAddr ELSE connecting)
                 /\ Then(c, <<StartNext>>)
  <2>1. sessions' = [sessions EXCEPT ![a] = NoSession] /\ timers' = c.timers \cup {}
    BY <1>3 DEF Close, Arm
  <2>2. Only(a)
    BY <1>1, <1>3, <2>1 DEF TypeOK, Only
  <2>3. Spent(c.rest, c.timers, a, connections'[a].gen)
    <3>1. CASE IsPending(a)
      BY <1>3, <3>1
    <3>2. CASE ~IsPending(a)
      BY <1>1, <1>3, <3>2, SpentSimply DEF IsPending
    <3>3. QED
      BY <3>1, <3>2
  <2>4. Sound(mainQ, timers)'
    <3>1. \E xs \in {<<>>, <<StartNext>>} : mainQ' = c.rest \o xs
      BY <1>3 DEF Then
    <3>2. QED
      BY <1>1, <2>1, <2>2, <2>3, <3>1, PlainTasks, PlainSound
  <2>5. Numbered'
    BY <1>1, <1>3, <2>1 DEF TypeOK, Numbered, NoSession, NewSession
  <2>6. Queue'
    <3>1. CASE IsPending(a)
      <4>1. connecting = a /\ connecting' = NoAddr /\ a \notin Waiting
        BY <1>3, <3>1 DEF Waiting
      <4>2. Waiting' = Waiting \cup {a}
        BY <1>3, <3>1, <4>1, AddrAssumption DEF Waiting, IsPending
      <4>3. Lists(Append(connectQueue, a), Waiting \cup {a})
        BY <1>1, <4>1, AppendLists
      <4>4. QED
        BY <1>3, <3>1, <4>2, <4>3 DEF Queue
    <3>2. CASE ~IsPending(a)
      <4>1. Waiting' = Waiting
        BY <1>3, <3>2 DEF Waiting, IsPending
      <4>2. QED
        BY <1>1, <1>3, <3>2, <4>1 DEF Queue
    <3>3. QED
      BY <3>1, <3>2
  <2>7. QED
    BY <2>4, <2>5, <2>6 DEF Order
<1>4. QED
  BY <1>2, <1>3 DEF RetryConnection

\* try_next_channel keeps the slot for its device, off the queue, and posts at most the
\* one retry of its connection.
LEMMA TryNextChannelOrder ==
    ASSUME Control, Numbered, NEW a \in Addr, NEW chs, NEW c, GoodCtx(c),
           Sound(c.rest, c.timers), Spent(c.rest, c.timers, a, connections[a].gen),
           Lists(c.queue, Waiting \ {a}),
           IsPending(a), connecting \in {a, NoAddr}, TryNextChannel(a, chs, c)
    PROVE  Order'
<1> DEFINE g == connections[a].gen
<1>1. TypeOK /\ c.rest \in Seq(Task) /\ c.timers \in SUBSET Task
  BY DEF Control, GoodCtx
<1>2. /\ nextId \in Nat /\ g \in Nat /\ g # 0 /\ g <= nextId /\ g <= nextId + 1
  <2>1. nextId \in Nat /\ g \in Nat /\ g # 0
    BY <1>1 DEF TypeOK, Pending, IsPending
  <2>2. g <= nextId
    BY DEF Numbered
  <2>3. QED
    BY <2>1, <2>2
<1>3. CASE FailConnection(a, FALSE, c)
  BY <1>3, FailConnectionOrder
<1>4. ASSUME nextId' = nextId + 1, HoldSlot(a, chs, c),
             NEW new \in {NoSession, NewSession(nextId + 1, FALSE)}, Close(a, new, FALSE)
      PROVE  /\ Only(a) /\ Queue' /\ Numbered'
             /\ connections'[a].gen = g /\ connections'[a].resolved
             /\ connecting' = a /\ sessions'[a] = new
  <2>1. /\ sessions' = [sessions EXCEPT ![a] = new]
        /\ connections' = [connections EXCEPT ![a].resolved = TRUE]
        /\ connecting' = a /\ connectQueue' = c.queue
    BY <1>4 DEF Close, HoldSlot
  <2>2. connections'[a].gen = g /\ connections'[a].resolved /\ sessions'[a] = new
    BY <1>1, <2>1 DEF TypeOK, Pending
  <2>3. Only(a)
    BY <1>1, <1>4, <2>1, AddrAssumption DEF TypeOK, Only
  <2>4. Waiting' = Waiting \ {a}
    BY <1>1, <2>1, <2>3 DEF TypeOK, Waiting, IsPending, Only
  <2>5. Queue'
    BY <2>1, <2>4 DEF Queue
  <2>6. Numbered'
    <3>1. ASSUME NEW b \in Addr
          PROVE  /\ connections'[b].gen <= nextId'
                 /\ connections'[b].gen # 0 /\ sessions'[b].gen # 0 => connections'[b].resolved
      <4>1. CASE b = a
        BY <1>2, <1>4, <2>2, <4>1
      <4>2. CASE b # a
        <5>1. connections[b].gen \in Nat /\ connections[b].gen <= nextId
          BY <1>1 DEF TypeOK, Pending, Numbered
        <5>2. connections'[b] = connections[b] /\ sessions'[b].gen = sessions[b].gen
          BY <2>3, <4>2 DEF Only
        <5>3. QED
          BY <1>2, <1>4, <5>1, <5>2 DEF Numbered
      <4>3. QED
        BY <4>1, <4>2
    <3>2. QED
      BY <3>1 DEF Numbered
  <2>7. QED
    BY <2>1, <2>2, <2>3, <2>5, <2>6
<1>5. CASE /\ nextId' = nextId + 1
           /\ Close(a, NoSession, FALSE) /\ HoldSlot(a, chs, c)
           /\ Then(c, <<T("retry", a, g)>>) /\ Arm(c, {})
  <2> PICK x \in Task : x = T("retry", a, g)
    BY <1>2, TaskTypes DEF Kind
  <2>1. x.kind = "retry" /\ x.addr = a /\ x.gen = g
    BY DEF T
  <2>2. /\ Only(a) /\ Queue' /\ Numbered'
        /\ connections'[a].gen = g /\ connections'[a].resolved
        /\ connecting' = a /\ sessions'[a] = NoSession
    BY <1>4, <1>5
  <2>3. TokenOf(x)'
    BY <1>2, <1>5, <2>1, <2>2 DEF TokenOf, NoSession, NewSession
  <2>4. mainQ' = c.rest \o <<x>> /\ timers' = c.timers \cup {}
    BY <1>5 DEF Then, Arm
  <2>5. Sound(mainQ, timers)'
    <3>1. Spent(c.rest, c.timers, a, connections'[a].gen)
      BY <2>2
    <3>2. QED
      BY <1>1, <2>1, <2>2, <2>3, <2>4, <3>1, RetrySound
  <2>6. QED
    BY <2>2, <2>5 DEF Order
<1>6. CASE /\ nextId' = nextId + 1
           /\ Close(a, NewSession(nextId + 1, FALSE), FALSE) /\ HoldSlot(a, chs, c)
           /\ Then(c, <<>>) /\ Arm(c, {T("openTimeout", a, nextId + 1)})
  <2>1. /\ Only(a) /\ Queue' /\ Numbered' /\ connections'[a].gen = g
    BY <1>4, <1>6
  <2>2. /\ mainQ' = c.rest \o <<>> /\ timers' = c.timers \cup {T("openTimeout", a, nextId + 1)}
    BY <1>6 DEF Then, Arm
  <2>3. T("openTimeout", a, nextId + 1) \in Task
        /\ T("openTimeout", a, nextId + 1).kind \notin {"retry", "poll"}
    BY <1>2, PlainTasks DEF Kind
  <2>4. Sound(mainQ, timers)'
    BY <1>1, <2>1, <2>2, <2>3, PlainSound
  <2>5. QED
    BY <2>1, <2>4 DEF Order
<1>7. CASE /\ nextId' = nextId + 1
           /\ Close(a, NewSession(nextId + 1, TRUE), FALSE) /\ ReleaseSlot(a, c)
           /\ Then(c, <<StartNext>>) /\ Arm(c, {T("openTimeout", a, nextId + 1)})
  <2>1. /\ sessions' = [sessions EXCEPT ![a] = NewSession(nextId + 1, TRUE)]
        /\ connectQueue' = Without(c.queue, a)
        /\ mainQ' = c.rest \o <<StartNext>>
        /\ timers' = c.timers \cup {T("openTimeout", a, nextId + 1)}
    BY <1>7 DEF Close, ReleaseSlot, Then, Arm
  <2>2. /\ connections' = [connections EXCEPT ![a] = NoPending]
        /\ connecting' = NoAddr
    BY <1>1, <1>7, ReleaseEffect
  <2>3. connections'[a].gen = 0 /\ Only(a)
    BY <1>1, <1>7, <2>1, <2>2, AddrAssumption DEF TypeOK, NoPending, Only
  <2>4. Waiting' = Waiting \ {a}
    BY <1>1, <2>2, <2>3, AddrAssumption DEF TypeOK, Waiting, IsPending
  <2>5. Queue'
    <3>1. (Waiting \ {a}) \ {a} = Waiting \ {a}
      OBVIOUS
    <3>2. Lists(connectQueue', Waiting \ {a})
      BY <2>1, <3>1, WithoutLists
    <3>3. QED
      BY <2>4, <3>2 DEF Queue
  <2>6. Spent(c.rest, c.timers, a, connections'[a].gen)
    BY <1>1, <2>3, SpentSimply
  <2>7. T("openTimeout", a, nextId + 1) \in Task
        /\ T("openTimeout", a, nextId + 1).kind \notin {"retry", "poll"}
    BY <1>2, PlainTasks DEF Kind
  <2>8. Sound(mainQ, timers)'
    BY <1>1, <2>1, <2>3, <2>6, <2>7, PlainTasks, PlainSound
  <2>9. Numbered'
    <3>1. ASSUME NEW b \in Addr
          PROVE  /\ connections'[b].gen <= nextId'
                 /\ connections'[b].gen # 0 /\ sessions'[b].gen # 0 => connections'[b].resolved
      <4>1. connections[b].gen \in Nat /\ connections[b].gen <= nextId
        BY <1>1 DEF TypeOK, Pending, Numbered
      <4>2. b # a => connections'[b] = connections[b] /\ sessions'[b].gen = sessions[b].gen
        BY <2>3 DEF Only
      <4>3. QED
        BY <1>2, <1>7, <2>3, <4>1, <4>2 DEF Numbered
    <3>2. QED
      BY <3>1 DEF Numbered
  <2>10. QED
    BY <2>5, <2>8, <2>9 DEF Order
<1>8. QED
  BY <1>3, <1>5, <1>6, <1>7 DEF TryNextChannel

\* The poll of the connection a has then.
LEMMA PollSound ==
    ASSUME TypeOK, NEW a \in Addr, Only(a),
           NEW q \in Seq(Task), NEW ts \in SUBSET Task, Sound(q, ts),
           Spent(q, ts, a, connections'[a].gen),
           NEW u \in Task, u.kind = "poll", u.addr = a, u.gen = connections'[a].gen,
           TokenOf(u)', mainQ' = q \o <<>>, timers' = ts \cup {u}
    PROVE  Sound(mainQ, timers)'
<1> PICK xs, us : xs = <<>> /\ us = {u}
  OBVIOUS
<1>1. xs \in Seq(Task) /\ Len(xs) <= 1 /\ mainQ' = q \o xs
  OBVIOUS
<1>2. us \in SUBSET Task /\ timers' = ts \cup us
  OBVIOUS
<1>3. \A v, w \in us : v = w
  OBVIOUS
<1>4. Stay(q, ts)
  BY OthersStay
<1>5. \A i \in DOMAIN xs :
              /\ xs[i].kind # "poll"
              /\ xs[i].kind = "retry" => /\ TokenOf(xs[i])'
                                         /\ \A j \in DOMAIN q : ~Same(q[j], xs[i])
  OBVIOUS
<1>6. \A t \in ts : ~Same(t, u)
  BY DEF Spent, Same
<1>7. \A v \in us :
              /\ v.kind # "retry"
              /\ v.kind = "poll" => TokenOf(v)' /\ \A t \in ts : ~Same(t, v)
  BY <1>6
<1>8. QED
  BY <1>1, <1>2, <1>3, <1>4, <1>5, <1>7, SoundStep

\* start_next_connection takes its device off the queue and gives it the slot.
LEMMA StartConnectionOrder ==
    ASSUME Control, Numbered, NEW a \in Addr, IsPending(a), connecting = NoAddr,
           NEW c, GoodCtx(c), Sound(c.rest, c.timers), Lists(c.queue, Waiting \ {a}),
           StartConnection(a, c)
    PROVE  Order'
<1>1. TypeOK /\ c.rest \in Seq(Task) /\ c.timers \in SUBSET Task
  BY DEF Control, GoodCtx
<1>2. Spent(c.rest, c.timers, a, connections[a].gen)
  BY <1>1, AddrAssumption, SpentSimply
<1>3. ASSUME NEW d \in Guardings(c, a)
      PROVE  d.rest = c.rest /\ d.timers = c.timers /\ d.queue = c.queue /\ GoodCtx(d)
  BY <1>3 DEF GoodCtx, Guardings, Guarding, Ctx
<1>4. CASE TryNextChannel(a, channelsLeft[a], c)
  BY <1>2, <1>4, TryNextChannelOrder
<1>5. ASSUME NEW d \in Guardings(c, a), NEW found \in BOOLEAN, FinishSdp(a, found, d)
      PROVE  Order'
  <2>1. PICK chs : TryNextChannel(a, chs, d)
    BY <1>5 DEF FinishSdp
  <2>2. /\ GoodCtx(d) /\ Sound(d.rest, d.timers) /\ Lists(d.queue, Waiting \ {a})
        /\ Spent(d.rest, d.timers, a, connections[a].gen)
    BY <1>2, <1>3
  <2>3. QED
    BY <2>1, <2>2, TryNextChannelOrder
<1>6. ASSUME NEW d \in Guardings(c, a), BeginSdp(a, d), ~connections[a].resolved
      PROVE  Order'
  <2>1. /\ UNCHANGED <<sessions, connections, nextId>>
        /\ connecting' = a /\ connectQueue' = c.queue
        /\ Then(d, <<>>) /\ Arm(d, {Poll(a, connections[a].gen, 0)})
    BY <1>3, <1>6 DEF BeginSdp
  <2>2. mainQ' = c.rest \o <<>> /\ timers' = c.timers \cup {Poll(a, connections[a].gen, 0)}
    BY <1>3, <2>1 DEF Then, Arm
  <2>3. /\ nextId \in Nat /\ connections[a].gen \in Nat /\ connections[a].gen # 0
        /\ connections[a].gen <= nextId
    BY <1>1 DEF TypeOK, Pending, IsPending, Numbered
  <2> PICK u \in Task : u = Poll(a, connections[a].gen, 0)
    BY <2>3, TaskTypes
  <2>4. u.kind = "poll" /\ u.addr = a /\ u.gen = connections[a].gen
    BY DEF Poll
  <2>5. TokenOf(u)'
    BY <1>6, <2>1, <2>3, <2>4 DEF TokenOf
  <2>6. Only(a)
    BY <1>1, <2>1, AddrAssumption DEF Only
  <2>7. Sound(mainQ, timers)'
    BY <1>1, <1>2, <2>1, <2>2, <2>4, <2>5, <2>6, PollSound
  <2>8. Waiting' = Waiting \ {a}
    BY <2>1, AddrAssumption DEF Waiting, IsPending
  <2>9. Queue' /\ Numbered'
    BY <2>1, <2>8 DEF Queue, Numbered
  <2>10. QED
    BY <2>7, <2>9 DEF Order
<1>7. QED
  BY <1>4, <1>5, <1>6 DEF StartConnection

-----------------------------------------------------------------------------
\* A step that changes no connection, session, queue or slot, posts at most a block
\* that is no retry and arms nothing keeps Order.
LEMMA OrderUntouched ==
    ASSUME TypeOK, Order, UNCHANGED <<connections, connecting, connectQueue>>,
           nextId' \in {nextId, nextId + 1},
           \A a \in Addr : sessions'[a].gen = sessions[a].gen,
           NEW q \in Seq(Task), NEW ts \in SUBSET Task, Sound(q, ts),
           NEW xs, xs = <<>> \/ \E x \in Task : x.kind \notin {"retry", "poll"} /\ xs = <<x>>,
           mainQ' = q \o xs, timers' = ts
    PROVE  Order'
<1>1. nextId \in Nat
  BY DEF TypeOK
<1>2. ASSUME NEW t \in Task, TokenOf(t)
      PROVE  TokenOf(t)'
  <2>1. t.gen \in Nat
    BY DEF Task
  <2>2. QED
    BY <1>1, <1>2, <2>1 DEF TokenOf
<1>3. Stay(q, ts)
  <2>1. \A i \in DOMAIN q : q[i] \in Task
    OBVIOUS
  <2>2. QED
    BY <1>2, <2>1 DEF Sound, Stay
<1>4. /\ xs \in Seq(Task) /\ Len(xs) <= 1
      /\ \A i \in DOMAIN xs : xs[i].kind \notin {"retry", "poll"}
  <2>1. CASE xs = <<>>
    BY <2>1
  <2>2. ASSUME NEW x \in Task, x.kind \notin {"retry", "poll"}, xs = <<x>>
        PROVE  /\ xs \in Seq(Task) /\ Len(xs) <= 1
               /\ \A i \in DOMAIN xs : xs[i] = x
    BY <2>2
  <2>3. QED
    BY <2>1, <2>2
<1>5. \A i \in DOMAIN xs :
         /\ xs[i].kind # "poll"
         /\ xs[i].kind = "retry" => /\ TokenOf(xs[i])'
                                    /\ \A j \in DOMAIN q : ~Same(q[j], xs[i])
  BY <1>4
<1> PICK us : us = {}
  OBVIOUS
<1>6. us \in SUBSET Task /\ timers' = ts \cup us
  OBVIOUS
<1>7. \A u, v \in us : u = v
  OBVIOUS
<1>8. \A u \in us :
         /\ u.kind # "retry"
         /\ u.kind = "poll" => TokenOf(u)' /\ \A t \in ts : ~Same(t, u)
  OBVIOUS
<1>9. Sound(mainQ, timers)'
  BY <1>3, <1>4, <1>5, <1>6, <1>7, <1>8, SoundStep
<1>10. Waiting' = Waiting
  BY DEF Waiting, IsPending
<1>11. Queue'
  BY <1>10 DEF Order, Queue
<1>12. Numbered'
  <2>1. \A a \in Addr : connections[a].gen \in Nat
    BY DEF TypeOK, Pending
  <2>2. QED
    BY <1>1, <2>1 DEF Order, Numbered
<1>13. QED
  BY <1>9, <1>11, <1>12 DEF Order

\* Every block of the main queue keeps Order.
LEMMA RunBlockOrder ==
    ASSUME Control, Order, RunBlock
    PROVE  Order'
<1>1. TypeOK /\ mainQ # <<>> /\ Head(mainQ) \in Task /\ GoodCtx(FromQueue)
  BY Contexts
  DEF Control, RunBlock, RunStartNext, RunRetry, RunOpenFailed, RunOpened, RunClosed,
      RunRelease, RunFail, Runs
<1> PICK t \in Task : t = Head(mainQ)
  BY <1>1
<1> DEFINE a == t.addr
           c == FromQueue
<1>2. t.kind # "startNext" => a \in Addr
  BY DEF Task
<1>3. /\ c.rest = Tail(mainQ) /\ c.timers = timers /\ c.queue = connectQueue
      /\ c.rest \in Seq(Task) /\ c.timers \in SUBSET Task
      /\ Sound(c.rest, c.timers) /\ Queue /\ Numbered
      /\ Lists(c.queue, Waiting)
  <2>1. /\ c.rest = Tail(mainQ) /\ c.timers = timers /\ c.queue = connectQueue
    BY DEF FromQueue, Ctx
  <2>2. c.rest \in Seq(Task) /\ c.timers \in SUBSET Task
    BY <1>1 DEF GoodCtx
  <2>3. Queue /\ Numbered
    BY DEF Order
  <2>4. Sound(c.rest, c.timers)
    BY <1>1, <2>1, SoundParts
  <2>5. QED
    BY <2>1, <2>2, <2>3, <2>4 DEF Queue
<1> HIDE DEF c
<1>4. ASSUME UNCHANGED <<connections, connecting, connectQueue, nextId>>,
             \A b \in Addr : sessions'[b].gen = sessions[b].gen,
             Then(c, <<>>), timers' = timers
      PROVE  Order'
  BY <1>1, <1>3, <1>4, OrderUntouched DEF Then
<1>5. CASE RunStartNext
  <2>1. ASSUME connecting = NoAddr, \A i \in DOMAIN connectQueue : ~IsPending(connectQueue[i]),
               connectQueue' = <<>>, Then(c, <<>>),
               UNCHANGED <<sessions, connections, connecting, nextId, timers>>
        PROVE  Order'
    <3>1. connectQueue = <<>>
      <4>1. connectQueue \in Seq(Addr)
        BY <1>3 DEF Lists
      <4>2. \A i \in DOMAIN connectQueue : connectQueue[i] \in Waiting
        BY <1>3, <4>1 DEF Lists
      <4>3. DOMAIN connectQueue = {}
        BY <2>1, <4>2 DEF Waiting
      <4>4. QED
        BY <4>1, <4>3
    <3>2. QED
      BY <1>4, <2>1, <3>1
  <2>2. ASSUME NEW b \in Addr, NEW i \in DOMAIN connectQueue,
               connecting = NoAddr, b = connectQueue[i], IsNext(i),
               StartConnection(b, Popped(i))
        PROVE  Order'
    <3>1. connectQueue \in Seq(Addr) /\ \A j \in DOMAIN connectQueue : connectQueue[j] \in Waiting
      BY <1>3 DEF Lists
    <3>2. IsPending(b) /\ i = 1 /\ connectQueue # <<>>
      <4>1. IsPending(b) /\ connectQueue # <<>>
        BY <2>2, <3>1 DEF IsNext
      <4>2. ASSUME i # 1 PROVE FALSE
        <5>1. 1 \in DOMAIN connectQueue /\ 1 \in 1..(i - 1)
          BY <3>1, <4>2
        <5>2. ~IsPending(connectQueue[1])
          BY <2>2, <5>1 DEF IsNext
        <5>3. QED
          BY <3>1, <5>1, <5>2 DEF Waiting
      <4>3. QED
        BY <4>1, <4>2
    <3> DEFINE d == Popped(i)
    <3>3. /\ d.rest = c.rest /\ d.timers = c.timers /\ d.guarded = c.guarded
          /\ d.queue = SubSeq(connectQueue, 2, Len(connectQueue))
      BY <3>2 DEF Popped, FromQueue, Ctx, c
    <3>4. GoodCtx(d)
      BY <1>1, <3>3 DEF GoodCtx, c
    <3>5. Lists(d.queue, Waiting \ {b})
      <4>1. connectQueue[1] = b
        BY <2>2, <3>2
      <4>2. Lists(connectQueue, Waiting)
        BY <1>3
      <4>3. Lists(SubSeq(connectQueue, 2, Len(connectQueue)), Waiting \ {b})
        BY <3>2, <4>1, <4>2, PopLists
      <4>4. QED
        BY <3>3, <4>3
    <3>6. Sound(d.rest, d.timers)
      BY <1>3, <3>3
    <3> HIDE DEF d
    <3>7. QED
      BY <1>3, <2>2, <3>2, <3>4, <3>5, <3>6, StartConnectionOrder DEF d
  <2>3. CASE connecting # NoAddr /\ Then(c, <<>>) /\ UNCHANGED <<mainVars, timers>>
    BY <1>4, <2>3 DEF mainVars
  <2>4. QED
    BY <1>5, <2>1, <2>2, <2>3 DEF RunStartNext, nativeVars, c
<1>6. ASSUME NEW current, RetryIf(current, a, c),
             current => /\ a \in Addr
                        /\ IsPending(a) => connecting = a
                              /\ Spent(c.rest, c.timers, a, connections[a].gen)
      PROVE  Order'
  <2>1. CASE current /\ RetryConnection(a, FALSE, c)
    <3>1. GoodCtx(c)
      BY <1>1 DEF c
    <3>2. QED
      BY <1>3, <1>6, <2>1, <3>1, RetryConnectionOrder
  <2>2. CASE Then(c, <<>>) /\ Arm(c, {}) /\ UNCHANGED mainVars
    BY <1>3, <1>4, <2>2 DEF Arm, mainVars
  <2>3. QED
    BY <1>6, <2>1, <2>2 DEF RetryIf
<1>7. CASE RunRetry
  <2>1. t.kind = "retry" /\ a \in Addr /\ RetryIf(RetryIsCurrent(t), a, c)
    BY <1>2, <1>7 DEF RunRetry, Runs, c
  <2>2. ASSUME RetryIsCurrent(t)
        PROVE  connecting = a /\ Spent(c.rest, c.timers, a, connections[a].gen)
    <3>1. connections[a].gen = t.gen
      BY <2>2 DEF RetryIsCurrent
    <3>2. TokenOf(t) /\ Spent(Tail(mainQ), timers, a, t.gen)
      BY <1>1, <2>1, <3>1, RetrySpent
    <3>3. QED
      BY <1>3, <3>1, <3>2 DEF TokenOf
  <2>3. QED
    BY <1>6, <2>1, <2>2
<1>8. ASSUME a \in Addr, Matches(a, t.gen), IsPending(a)
      PROVE  connecting = a /\ Spent(c.rest, c.timers, a, connections[a].gen)
  BY <1>3, <1>8, OpeningSpent DEF Matches
<1>9. CASE RunOpenFailed
  <2>1. a \in Addr /\ RetryIf(IsOpeningSession(t), a, c)
    BY <1>2, <1>9 DEF RunOpenFailed, Runs, c
  <2>2. QED
    BY <1>6, <1>8, <2>1 DEF IsOpeningSession
<1>10. CASE RunOpened
  <2>1. a \in Addr /\ nextId' = nextId /\ timers' = timers
    BY <1>2, <1>10 DEF RunOpened, Runs
  <2>2. CASE Then(c, <<>>) /\ UNCHANGED <<sessions, connections, connecting, connectQueue>>
    BY <1>4, <2>1, <2>2
  <2>3. CASE /\ IsOpeningSession(t) /\ IsPending(a)
             /\ sessions' = [sessions EXCEPT ![a].opened = TRUE]
             /\ ReleaseSlot(a, c) /\ Then(c, <<StartNext>>)
    <3>1. /\ connections' = [connections EXCEPT ![a] = NoPending]
          /\ connecting' = IF connecting = a THEN NoAddr ELSE connecting
      BY <1>1, <2>1, <2>3, ReleaseEffect
    <3>2. connectQueue' = Without(connectQueue, a) /\ mainQ' = c.rest \o <<StartNext>>
          /\ timers' = c.timers \cup {}
      BY <1>3, <2>1, <2>3 DEF ReleaseSlot, Then
    <3>3. \A b \in Addr : sessions'[b].gen = sessions[b].gen
      BY <1>1, <2>1, <2>3 DEF TypeOK, Session
    <3>4. connections'[a].gen = 0 /\ Only(a)
      BY <1>1, <2>1, <3>1, <3>3 DEF TypeOK, NoPending, Only
    <3>5. Waiting' = Waiting \ {a}
      BY <1>1, <2>1, <3>1, <3>4, AddrAssumption DEF TypeOK, Waiting, IsPending
    <3>6. Queue'
      <4>1. Lists(connectQueue', Waiting \ {a})
        BY <1>3, <3>2, WithoutLists
      <4>2. QED
        BY <3>5, <4>1 DEF Queue
    <3>7. Spent(c.rest, c.timers, a, connections'[a].gen)
      BY <1>1, <1>3, <2>1, <3>4, SpentSimply
    <3>8. Sound(mainQ, timers)'
      BY <1>1, <1>3, <2>1, <3>2, <3>4, <3>7, PlainTasks, PlainSound
    <3>9. Numbered'
      <4>1. nextId \in Nat
        BY <1>1 DEF TypeOK
      <4>2. QED
        BY <1>1, <1>3, <2>1, <3>1, <3>3, <4>1 DEF TypeOK, Numbered, NoPending
    <3>10. QED
      BY <3>6, <3>8, <3>9 DEF Order
  <2>4. CASE /\ IsOpeningSession(t) /\ ~IsPending(a)
             /\ sessions' = [sessions EXCEPT ![a].opened = TRUE]
             /\ Then(c, <<>>)
             /\ UNCHANGED <<connections, channelsLeft, connectQueue, connecting, info>>
    <3>1. \A b \in Addr : sessions'[b].gen = sessions[b].gen
      BY <1>1, <2>1, <2>4 DEF TypeOK, Session
    <3>2. QED
      BY <1>4, <2>1, <2>4, <3>1
  <2>5. QED
    BY <1>10, <2>2, <2>3, <2>4 DEF RunOpened, c
<1>11. CASE RunClosed
  <2>1. a \in Addr
    BY <1>2, <1>11 DEF RunClosed, Runs
  <2>2. CASE Then(c, <<>>) /\ UNCHANGED <<sessions, connections, connecting, connectQueue, nextId, timers>>
    BY <1>4, <2>2
  <2>3. CASE Matches(a, t.gen) /\ IsPending(a) /\ RetryConnection(a, TRUE, c)
    <3>1. GoodCtx(c)
      BY <1>1 DEF c
    <3>2. QED
      BY <1>3, <1>8, <2>1, <2>3, <3>1, RetryConnectionOrder
  <2>4. CASE /\ ~IsPending(a)
             /\ Close(a, NoSession, TRUE) /\ Then(c, <<>>)
             /\ UNCHANGED <<connections, connectQueue, connecting, nextId, timers>>
    <3>1. sessions' = [sessions EXCEPT ![a] = NoSession] /\ mainQ' = c.rest \o <<>>
          /\ timers' = c.timers \cup {}
      BY <1>3, <2>4 DEF Close, Then
    <3>2. connections'[a].gen = 0 /\ Only(a)
      BY <1>1, <2>1, <2>4, <3>1 DEF TypeOK, IsPending, Only
    <3>3. Spent(c.rest, c.timers, a, connections'[a].gen)
      BY <1>1, <1>3, <2>1, <3>2, SpentSimply
    <3>4. Sound(mainQ, timers)'
      BY <1>1, <1>3, <2>1, <3>1, <3>2, <3>3, PlainSound
    <3>5. Waiting' = Waiting
      BY <2>4 DEF Waiting, IsPending
    <3>6. Queue'
      BY <1>3, <2>4, <3>5 DEF Queue
    <3>7. Numbered'
      BY <1>1, <1>3, <2>1, <2>4, <3>1 DEF TypeOK, Numbered, NoSession, NewSession
    <3>8. QED
      BY <3>4, <3>6, <3>7 DEF Order
  <2>5. QED
    BY <1>11, <2>2, <2>3, <2>4 DEF RunClosed, c
<1>12. CASE RunRelease
  BY <1>4, <1>12 DEF RunRelease, c
<1>13. CASE RunFail
  <2>1. a \in Addr
    BY <1>2, <1>13 DEF RunFail, Runs
  <2>2. CASE FailConnection(a, FALSE, c)
    <3>1. GoodCtx(c)
      BY <1>1 DEF c
    <3>2. QED
      BY <1>3, <2>1, <2>2, <3>1, FailConnectionOrder
  <2>3. CASE Then(c, <<>>) /\ UNCHANGED <<mainVars, timers>>
    BY <1>4, <2>3 DEF mainVars
  <2>4. QED
    BY <1>13, <2>2, <2>3 DEF RunFail, c
<1>14. QED
  BY <1>5, <1>7, <1>9, <1>10, <1>11, <1>12, <1>13 DEF RunBlock

\* Every timer keeps Order.
LEMMA RunTimerOrder ==
    ASSUME Control, Order, NEW t \in timers, RunPoll(t) \/ RunOpenTimeout(t)
    PROVE  Order'
<1> DEFINE a == t.addr
           c == FromTimer(t)
<1>1. /\ TypeOK /\ t \in Task /\ a \in Addr /\ GoodCtx(c)
      /\ mainQ \in Seq(Task) /\ timers \in SUBSET Task
      /\ connecting = a => IsPending(a)
  BY Contexts, AddrAssumption DEF Control, TypeOK, Task, RunPoll, RunOpenTimeout, SlotPending
<1>2. /\ c.rest = mainQ /\ c.timers = timers \ {t} /\ c.queue = connectQueue
  BY DEF FromTimer, Ctx
<1>3. /\ Sound(c.rest, c.timers) /\ Queue /\ Numbered
      /\ Lists(c.queue, Waiting)
  <2>1. Queue /\ Numbered
    BY DEF Order
  <2>2. Sound(mainQ, timers \ {t})
    BY <1>1, SoundParts
  <2>3. QED
    BY <1>2, <2>1, <2>2 DEF Queue
<1>4. ASSUME UNCHANGED mainVars, mainQ' = mainQ \o <<>>, timers' = timers \ {t}
      PROVE  Order'
  <2>1. Sound(mainQ, timers \ {t}) /\ timers \ {t} \in SUBSET Task
    BY <1>1, <1>2, <1>3
  <2>2. QED
    BY <1>1, <1>4, <2>1, OrderUntouched DEF mainVars
<1> HIDE DEF c
<1>5. CASE RunPoll(t)
  <2>1. ASSUME PollIsCurrent(t)
        PROVE  /\ IsPending(a) /\ connecting = a /\ Waiting \ {a} = Waiting
               /\ connections[a].gen = t.gen
               /\ TokenOf(t) /\ Spent(c.rest, c.timers, a, connections[a].gen)
    <3>1. connections[a].gen = t.gen /\ connecting = a
      BY <2>1 DEF PollIsCurrent
    <3>2. TokenOf(t) /\ Spent(mainQ, timers \ {t}, a, t.gen)
      BY <1>1, <1>5, <3>1, PollSpent DEF RunPoll
    <3>3. Waiting \ {a} = Waiting
      BY <3>1 DEF Waiting
    <3>4. QED
      BY <1>1, <1>2, <3>1, <3>2, <3>3
  <2>2. ASSUME PollIsCurrent(t), NEW chs, TryNextChannel(a, chs, c)
        PROVE  Order'
    <3>1. Lists(c.queue, Waiting \ {a}) /\ connecting \in {a, NoAddr} /\ IsPending(a)
          /\ Spent(c.rest, c.timers, a, connections[a].gen)
      BY <1>3, <2>1, <2>2
    <3>2. QED
      BY <1>1, <1>3, <2>2, <3>1, TryNextChannelOrder
  <2>3. CASE /\ PollIsCurrent(t) /\ Arm(c, {Poll(a, t.gen, t.n + 1)})
             /\ UNCHANGED <<mainVars, mainQ>>
    <3>1. /\ mainQ' = c.rest \o <<>> /\ timers' = c.timers \cup {Poll(a, t.gen, t.n + 1)}
          /\ UNCHANGED <<sessions, connections, connecting, connectQueue, nextId>>
      BY <1>1, <1>2, <2>3 DEF Arm, mainVars
    <3>0. t.gen \in Nat /\ t.n + 1 \in Nat
      BY <1>1 DEF Task
    <3> PICK u \in Task : u = Poll(a, t.gen, t.n + 1)
      BY <1>1, <3>0, TaskTypes
    <3>2. u.kind = "poll" /\ u.addr = a /\ u.gen = t.gen /\ t.kind = "poll"
      BY <1>5 DEF Poll, RunPoll
    <3>3. TokenOf(u)'
      BY <2>1, <2>3, <3>1, <3>2 DEF TokenOf
    <3>4. Only(a) /\ u.gen = connections'[a].gen
          /\ Spent(c.rest, c.timers, a, connections'[a].gen)
      BY <1>1, <2>1, <2>3, <3>1, <3>2 DEF Only
    <3>5. c.rest \in Seq(Task) /\ c.timers \in SUBSET Task
      BY <1>1 DEF GoodCtx
    <3>6. Sound(mainQ, timers)'
      BY <1>1, <1>3, <3>1, <3>2, <3>3, <3>4, <3>5, PollSound
    <3>7. Waiting' = Waiting
      BY <3>1 DEF Waiting, IsPending
    <3>8. Queue' /\ Numbered'
      BY <1>3, <3>1, <3>7 DEF Queue, Numbered
    <3>9. QED
      BY <3>6, <3>8 DEF Order
  <2>4. CASE timers' = timers \ {t} /\ UNCHANGED <<mainVars, mainQ>>
    BY <1>1, <1>4, <2>4
  <2>5. QED
    BY <1>5, <2>2, <2>3, <2>4 DEF RunPoll, FinishSdp, c
<1>6. CASE RunOpenTimeout(t)
  <2>1. RetryIf(IsOpeningSession(t), a, c)
    BY <1>6 DEF RunOpenTimeout, c
  <2>2. CASE IsOpeningSession(t) /\ RetryConnection(a, FALSE, c)
    <3>1. IsPending(a) => connecting = a /\ Spent(c.rest, c.timers, a, connections[a].gen)
      BY <1>1, <1>3, <2>2, OpeningSpent DEF IsOpeningSession, Matches
    <3>2. QED
      BY <1>1, <1>2, <1>3, <2>2, <3>1, RetryConnectionOrder
  <2>3. CASE Then(c, <<>>) /\ Arm(c, {}) /\ UNCHANGED mainVars
    BY <1>2, <1>4, <2>3 DEF Then, Arm
  <2>4. QED
    BY <2>1, <2>2, <2>3 DEF RetryIf
<1>7. QED
  BY <1>5, <1>6

\* IOBluetooth's callbacks keep Order: they post neither retries nor polls.
LEMMA NativeOrder ==
    ASSUME Control, Order, Native
    PROVE  Order'
<1>1. /\ TypeOK /\ mainQ \in Seq(Task) /\ timers \in SUBSET Task /\ Sound(mainQ, timers)
      /\ opening \subseteq Handle /\ alive \subseteq Handle /\ writes \subseteq Handle
  BY DEF Control, TypeOK, Order
<1>2. ASSUME UNCHANGED <<connections, connecting, connectQueue, nextId, timers>>,
             \A a \in Addr : sessions'[a].gen = sessions[a].gen,
             \/ mainQ' = mainQ
             \/ \E x \in Task : x.kind \notin {"retry", "poll"} /\ Post(x)
      PROVE  Order'
  <2>1. CASE mainQ' = mainQ
    <3>1. mainQ' = mainQ \o <<>>
      BY <1>1, <2>1
    <3>2. QED
      BY <1>1, <1>2, <3>1, OrderUntouched
  <2>2. ASSUME NEW x \in Task, x.kind \notin {"retry", "poll"}, Post(x)
        PROVE  Order'
    <3>1. mainQ' = mainQ \o <<x>>
      BY <1>1, <2>2 DEF Post
    <3>2. QED
      BY <1>1, <1>2, <2>2, <3>1, OrderUntouched
  <2>3. QED
    BY <1>2, <2>1, <2>2
<1>3. ASSUME NEW h \in Handle, NEW k \in Kind \ {"startNext", "retry", "poll"},
             Post(T(k, h.addr, h.gen))
      PROVE  \E x \in Task : x.kind \notin {"retry", "poll"} /\ Post(x)
  BY <1>3, PlainTasks DEF Handle
<1>4. ASSUME NEW h \in opening, NEW status \in {"opened", "openFailed"},
             OpenComplete(h, status)
      PROVE  Order'
  BY <1>1, <1>2, <1>3, <1>4 DEF OpenComplete, mainVars, Kind
<1>5. ASSUME NEW h \in alive, ChannelClosed(h)
      PROVE  Order'
  BY <1>1, <1>2, <1>3, <1>5 DEF ChannelClosed, mainVars, Kind
<1>6. ASSUME NEW a \in sdpActive, NEW found \in BOOLEAN, SdpComplete(a, found)
      PROVE  Order'
  BY <1>2, <1>6 DEF SdpComplete, mainVars, loopVars
<1>7. ASSUME NEW h \in writes, NEW ok \in BOOLEAN, WriteComplete(h, ok)
      PROVE  Order'
  <2>1. h \in Handle /\ h.addr \in Addr
        /\ UNCHANGED <<connections, connecting, connectQueue, nextId, timers>>
    BY <1>1, <1>7 DEF Handle, WriteComplete
  <2>2. CASE UNCHANGED sessions /\ (UNCHANGED mainQ \/ Post(T("release", h.addr, h.gen)))
    BY <1>2, <1>3, <2>1, <2>2 DEF Kind
  <2>3. CASE sessions' = [sessions EXCEPT ![h.addr].inFlight = FALSE] /\ UNCHANGED mainQ
    <3>1. \A a \in Addr : sessions'[a].gen = sessions[a].gen
      BY <1>1, <2>1, <2>3 DEF TypeOK, Session
    <3>2. QED
      BY <1>2, <2>1, <2>3, <3>1
  <2>4. CASE FailLater(h.addr)
    <3>1. \A a \in Addr : sessions'[a].gen = sessions[a].gen
      BY <1>1, <2>1, <2>4, FailLaterEffect
    <3>2. HandleOf(h.addr) \in Handle /\ Post(T("fail", h.addr, HandleOf(h.addr).gen))
          /\ HandleOf(h.addr).addr = h.addr
      BY <1>1, <2>1, <2>4, HandleTypes DEF FailLater, HandleOf
    <3>3. QED
      BY <1>2, <1>3, <2>1, <3>1, <3>2 DEF Kind
  <2>5. QED
    BY <1>7, <2>2, <2>3, <2>4 DEF WriteComplete
<1>8. QED
  BY <1>4, <1>5, <1>6, <1>7 DEF Native

\* The calls keep Order: connect queues its device, disconnect takes it away.
LEMMA CallersOrder ==
    ASSUME Control, Order, Callers
    PROVE  Order'
<1> DEFINE c == FromCaller
<1>1. /\ TypeOK /\ mainQ \in Seq(Task) /\ timers \in SUBSET Task /\ Sound(mainQ, timers)
      /\ Queue /\ Numbered /\ Lists(connectQueue, Waiting) /\ nextId \in Nat
      /\ \A a \in Addr : connections[a].gen \in Nat
  BY DEF Control, TypeOK, Order, Queue, Pending
<1>2. /\ GoodCtx(c) /\ c.rest = mainQ /\ c.timers = timers /\ c.queue = connectQueue
  BY <1>1, Contexts DEF FromCaller, Ctx
<1> HIDE DEF c
<1>3. ASSUME NEW a \in Addr, Connect(a)
      PROVE  Order'
  <2>1. /\ ~IsPending(a) /\ ~HasSession(a) /\ nextId' = nextId + 1
        /\ connections' = [connections EXCEPT ![a] = [gen |-> nextId + 1, resolved |-> FALSE]]
        /\ connectQueue' = Append(connectQueue, a)
        /\ mainQ' = mainQ \o <<StartNext>> /\ timers' = timers \cup {}
        /\ UNCHANGED <<sessions, connecting>>
    BY <1>2, <1>3 DEF Connect, Then, c
  <2>2. connections'[a].gen = nextId + 1 /\ Only(a)
    BY <1>1, <2>1 DEF TypeOK, Only
  <2>3. connecting # a /\ a \notin Waiting
    BY <2>1, AddrAssumption DEF Control, SlotPending, Waiting
  <2>4. Waiting' = Waiting \cup {a}
    BY <1>1, <2>1, <2>2, <2>3 DEF TypeOK, Waiting, IsPending
  <2>5. Queue'
    <3>1. Lists(connectQueue', Waiting \cup {a})
      BY <1>1, <2>1, <2>3, AppendLists
    <3>2. QED
      BY <2>4, <3>1 DEF Queue
  <2>6. Spent(mainQ, timers, a, connections'[a].gen)
    BY <1>1, <2>2, SpentSimply
  <2>7. Sound(mainQ, timers)'
    BY <1>1, <2>1, <2>2, <2>6, PlainTasks, PlainSound
  <2>8. Numbered'
    <3>1. ASSUME NEW b \in Addr
          PROVE  /\ connections'[b].gen <= nextId'
                 /\ connections'[b].gen # 0 /\ sessions'[b].gen # 0 => connections'[b].resolved
      <4>1. CASE b = a
        BY <1>1, <2>1, <2>2, <4>1 DEF HasSession
      <4>2. CASE b # a
        <5>1. connections'[b] = connections[b] /\ sessions'[b].gen = sessions[b].gen
          BY <2>2, <4>2 DEF Only
        <5>2. QED
          BY <1>1, <2>1, <5>1 DEF Numbered
      <4>3. QED
        BY <4>1, <4>2
    <3>2. QED
      BY <3>1 DEF Numbered
  <2>9. QED
    BY <2>5, <2>7, <2>8 DEF Order
<1>4. ASSUME NEW a \in Addr, Disconnect(a)
      PROVE  Order'
  BY <1>1, <1>2, <1>4, FailConnectionOrder DEF Disconnect, c
<1>5. CASE DisconnectAll
  <2>1. /\ sessions' = [a \in Addr |-> NoSession] /\ connecting' = NoAddr
        /\ connections' = [a \in Addr |-> NoPending] /\ connectQueue' = <<>>
        /\ UNCHANGED <<nextId, mainQ, timers>>
    BY <1>5 DEF DisconnectAll, loopVars
  <2>2. \A a \in Addr : connections'[a].gen = 0
    BY <2>1 DEF NoPending
  <2>3. \A t : TokenOf(t) => TokenOf(t)'
    BY <2>1, <2>2 DEF TokenOf
  <2>4. Sound(mainQ, timers)'
    BY <1>1, <2>1, <2>3 DEF Sound
  <2>5. Waiting' = {}
    BY <2>2 DEF Waiting, IsPending
  <2>6. Lists(<<>>, {})
    BY DEF Lists
  <2>7. Queue' /\ Numbered'
    BY <1>1, <2>1, <2>2, <2>5, <2>6 DEF Queue, Numbered
  <2>8. QED
    BY <2>4, <2>7 DEF Order
<1>6. ASSUME NEW a \in Addr, StartSend(a)
      PROVE  Order'
  <2>1. /\ UNCHANGED <<connections, connecting, connectQueue, timers>>
        /\ nextId' = nextId + 1 /\ sessions' = [sessions EXCEPT ![a].inFlight = TRUE]
        /\ mainQ' = mainQ \o <<>>
    BY <1>1, <1>6 DEF StartSend, loopVars
  <2>2. \A b \in Addr : sessions'[b].gen = sessions[b].gen
    BY <1>1, <2>1 DEF TypeOK, Session
  <2>3. QED
    BY <1>1, <2>1, <2>2, OrderUntouched
<1>7. ASSUME NEW a \in Addr, RejectWrite(a)
      PROVE  Order'
  <2>1. /\ UNCHANGED <<connections, connecting, connectQueue, nextId, timers>>
        /\ FailLater(a)
    BY <1>7 DEF RejectWrite
  <2>2. \A b \in Addr : sessions'[b].gen = sessions[b].gen
    BY <1>1, <2>1, FailLaterEffect
  <2> PICK x \in Task : x = T("fail", a, sessions[a].gen) /\ x.kind \notin {"retry", "poll"}
    BY <1>1, PlainTasks DEF TypeOK, Session, Kind
  <2>3. mainQ' = mainQ \o <<x>>
    <3>1. mainQ' = Append(mainQ, x)
      BY <2>1 DEF FailLater, Post
    <3>2. QED
      BY <1>1, <3>1
  <2>4. QED
    BY <1>1, <2>1, <2>2, <2>3, OrderUntouched
<1>8. QED
  BY <1>3, <1>4, <1>5, <1>6, <1>7 DEF Callers

\* Order is inductive on top of Control.
LEMMA NextOrder == Control /\ Order /\ [Next]_vars => Order'
<1> SUFFICES ASSUME Control, Order, [Next]_vars
             PROVE  Order'
  OBVIOUS
<1>1. CASE UNCHANGED vars
  <2>1. UNCHANGED <<connections, connecting, connectQueue, nextId, sessions, timers, mainQ>>
    BY <1>1 DEF vars, mainVars, loopVars
  <2>2. TypeOK /\ mainQ \in Seq(Task) /\ timers \in SUBSET Task /\ Sound(mainQ, timers)
    BY DEF Control, TypeOK, Order
  <2>3. mainQ' = mainQ \o <<>>
    BY <2>1, <2>2
  <2>4. QED
    BY <2>1, <2>2, <2>3, OrderUntouched
<1>2. QED
  BY <1>1, RunBlockOrder, RunTimerOrder, NativeOrder, CallersOrder DEF Next, RunTimer

LEMMA OrderInvariant == Spec => []Order
<1>1. Init => Order
  <2> SUFFICES ASSUME Init PROVE Order
    OBVIOUS
  <2>1. /\ connectQueue = <<>> /\ mainQ = <<>> /\ timers = {} /\ nextId = 0
        /\ \A a \in Addr : connections[a].gen = 0
    BY DEF Init, NoPending
  <2>2. Waiting = {}
    BY <2>1 DEF Waiting, IsPending
  <2>3. Queue
    BY <2>1, <2>2 DEF Queue, Lists
  <2>4. Sound(mainQ, timers) /\ Numbered
    BY <2>1 DEF Sound, Numbered
  <2>5. QED
    BY <2>3, <2>4 DEF Order
<1>2. QED
  BY <1>1, NextOrder, ControlInvariant, PTL DEF Spec

\* A connection that connect accepted is waiting in the queue, once, or holds the slot:
\* no sequence of retries, rejections, polls and disconnects drops it or queues it
\* twice.
THEOREM NoConnectionIsLost == Spec => []NoConnectionLost
<1>1. Control /\ Order => NoConnectionLost
  <2> SUFFICES ASSUME Control, Order PROVE NoConnectionLost
    OBVIOUS
  <2>1. Lists(connectQueue, Waiting)
    BY DEF Order, Queue
  <2>2. ASSUME NEW a \in Addr
        PROVE  Cardinality({i \in DOMAIN connectQueue : connectQueue[i] = a})
                  = IF IsPending(a) /\ connecting # a THEN 1 ELSE 0
    <3>1. CASE a \in Waiting
      <4>1. PICK i \in DOMAIN connectQueue : connectQueue[i] = a
        BY <2>1, <3>1 DEF Lists
      <4>2. {j \in DOMAIN connectQueue : connectQueue[j] = a} = {i}
        BY <2>1, <4>1 DEF Lists
      <4>3. QED
        BY <3>1, <4>2, FS_Singleton DEF Waiting
    <3>2. CASE a \notin Waiting
      <4>1. {j \in DOMAIN connectQueue : connectQueue[j] = a} = {}
        BY <2>1, <3>2 DEF Lists
      <4>2. QED
        BY <3>2, <4>1, FS_EmptySet DEF Waiting
    <3>3. QED
      BY <3>1, <3>2
  <2>3. QED
    BY <2>2 DEF NoConnectionLost, Control, SlotPending
<1>2. QED
  BY <1>1, OrderInvariant, ControlInvariant, PTL

-----------------------------------------------------------------------------
(***************************************************************************)
(* The slot never stalls                                                   *)
(***************************************************************************)
\* Once the slot is free and start_next_connection posted, nothing else is asked.
LEMMA FreedGoesOn ==
    ASSUME connecting' = NoAddr, StartNext \in Scheduled'
    PROVE  SlotNeverStalls'
  BY DEF SlotNeverStalls, StartNext, T

\* A holder b whose attempt a step leaves alone still goes on, unless the block x that
\* ran was the one to go on with it.
LEMMA HolderGoesOn ==
    ASSUME SlotNeverStalls, NEW b \in Addr, connecting = b, connecting' = b,
           NEW x, Scheduled \ {x} \subseteq Scheduled', x.addr # b \/ ~WillGoOn(x),
           connections'[b].gen = connections[b].gen,
           sessions'[b].gen = sessions[b].gen, sessions'[b].opened = sessions[b].opened
    PROVE  SlotNeverStalls'
<1>1. PICK t \in Scheduled : t.addr = b /\ WillGoOn(t)
  BY DEF SlotNeverStalls
<1>2. t \in Scheduled'
  BY <1>1
<1>3. WillGoOn(t)'
  BY <1>1 DEF WillGoOn, PollIsCurrent, RetryIsCurrent, IsOpeningSession, IsPending, Matches,
              HasSession
<1> QED BY <1>1, <1>2, <1>3 DEF SlotNeverStalls

\* A step that resolves no connection and leaves the attempts alone.
LEMMA NothingStalls ==
    ASSUME TypeOK, SlotNeverStalls, UNCHANGED connecting,
           NEW x, Scheduled \ {x} \subseteq Scheduled', x # StartNext,
           x.addr # connecting \/ ~WillGoOn(x),
           \A b \in Addr : connections'[b].gen = connections[b].gen,
           connecting # NoAddr => /\ sessions'[connecting].gen = sessions[connecting].gen
                                  /\ sessions'[connecting].opened = sessions[connecting].opened
    PROVE  SlotNeverStalls'
<1>1. CASE connecting = NoAddr
  BY <1>1 DEF SlotNeverStalls, IsPending
<1>2. CASE connecting # NoAddr
  <2>1. connecting \in Addr
    BY <1>2 DEF TypeOK
  <2> QED BY <1>2, <2>1, HolderGoesOn
<1> QED BY <1>1, <1>2

\* What a block posts is scheduled.
LEMMA PostedIsScheduled ==
    ASSUME NEW c, GoodCtx(c), NEW t \in Task, Then(c, <<t>>)
    PROVE  t \in Scheduled'
<1>1. mainQ' = c.rest \o <<t>> /\ c.rest \in Seq(Task)
  BY DEF Then, GoodCtx
<1>2. Len(c.rest) + 1 \in DOMAIN mainQ' /\ mainQ'[Len(c.rest) + 1] = t
  BY <1>1
<1> QED BY <1>2 DEF Scheduled

\* fail_connection posts start_next_connection, and frees the slot of its device only.
LEMMA FailConnectionGoesOn ==
    ASSUME TypeOK, SlotNeverStalls, NEW a \in Addr, NEW already, NEW c, GoodCtx(c),
           NEW x, Lacks(c, x), x.addr \in {a, NoAddr}, FailConnection(a, already, c)
    PROVE  SlotNeverStalls'
<1>1. StartNext \in Scheduled'
  BY TaskTypes, PostedIsScheduled DEF FailConnection
<1>2. /\ sessions' = [sessions EXCEPT ![a] = NoSession]
      /\ connections' = [connections EXCEPT ![a] = NoPending]
      /\ connecting' = IF connecting = a THEN NoAddr ELSE connecting
  BY DEF FailConnection, Close, ReleaseSlot
<1>3. CASE connecting \in {a, NoAddr}
  BY <1>1, <1>2, <1>3, FreedGoesOn
<1>4. CASE connecting \notin {a, NoAddr}
  <2>1. Scheduled \ {x} \subseteq Scheduled'
    BY StaysScheduled, FailConnectionReplaces DEF Replaces
  <2>2. connecting \in Addr /\ connecting # a
    BY <1>4 DEF TypeOK
  <2>3. /\ connections'[connecting].gen = connections[connecting].gen
        /\ sessions'[connecting].gen = sessions[connecting].gen
        /\ sessions'[connecting].opened = sessions[connecting].opened
    BY <1>2, <2>2 DEF TypeOK
  <2> QED BY <1>2, <1>4, <2>1, <2>2, <2>3, HolderGoesOn
<1> QED BY <1>3, <1>4

\* retry_connection gives the slot back with a posted start_next_connection.
LEMMA RetryConnectionGoesOn ==
    ASSUME TypeOK, SlotPending, SlotNeverStalls, NEW a \in Addr, NEW already, NEW c, GoodCtx(c),
           NEW x, Lacks(c, x), x.addr = a, RetryConnection(a, already, c)
    PROVE  SlotNeverStalls'
<1>1. Scheduled \ {x} \subseteq Scheduled'
  BY StaysScheduled, RetryConnectionReplaces DEF Replaces
<1>2. CASE FailConnection(a, already, c)
  BY <1>2, FailConnectionGoesOn
<1>3. CASE ~FailConnection(a, already, c)
  <2>1. /\ sessions' = [sessions EXCEPT ![a] = NoSession]
        /\ UNCHANGED connections
    BY <1>3 DEF RetryConnection, Close
  <2>2. CASE connecting \notin {a, NoAddr}
    <3>1. connecting' = connecting /\ connecting \in Addr /\ connecting # a
      BY <1>3, <2>2 DEF RetryConnection, TypeOK
    <3>2. sessions'[connecting] = sessions[connecting]
      BY <2>1, <3>1 DEF TypeOK
    <3> QED BY <1>1, <2>1, <3>1, <3>2, HolderGoesOn
  <2>3. CASE IsPending(a) /\ connecting \in {a, NoAddr}
    <3>1. connecting' = NoAddr /\ Then(c, <<StartNext>>)
      BY <1>3, <2>3 DEF RetryConnection
    <3> QED BY <3>1, TaskTypes, PostedIsScheduled, FreedGoesOn
  <2>4. CASE ~IsPending(a) /\ connecting \in {a, NoAddr}
    <3>1. connecting = NoAddr /\ connecting' = connecting
      BY <1>3, <2>4 DEF RetryConnection, SlotPending
    <3>2. x # StartNext
      BY DEF StartNext, T
    <3> QED BY <1>1, <2>1, <3>1, <3>2, NothingStalls
  <2> QED BY <2>2, <2>3, <2>4
<1> QED BY <1>2, <1>3

\* try_next_channel leaves what will go on with the device: a posted retry, an open
\* timeout of the new session, or, the slot being free, start_next_connection.
LEMMA TryNextChannelGoesOn ==
    ASSUME TypeOK, NEW a \in Addr, IsPending(a), connecting \in {a, NoAddr},
           NEW chs, NEW c, GoodCtx(c), TryNextChannel(a, chs, c)
    PROVE  SlotNeverStalls'
<1>1. CASE Then(c, <<StartNext>>) /\ ReleaseSlot(a, c)
  <2>1. connecting' = NoAddr
    BY <1>1 DEF ReleaseSlot
  <2> QED BY <1>1, <2>1, TaskTypes, PostedIsScheduled, FreedGoesOn
<1>2. CASE HoldSlot(a, chs, c) /\ Then(c, <<T("retry", a, connections[a].gen)>>)
  <2>1. PICK retry \in Task : retry = T("retry", a, connections[a].gen)
    BY TaskTypes DEF TypeOK, Pending, Kind
  <2>2. /\ retry \in Scheduled' /\ retry.addr = a /\ retry.kind = "retry"
        /\ retry.gen = connections[a].gen /\ retry.gen # 0
    BY <1>2, <2>1, PostedIsScheduled DEF T, IsPending
  <2>3. connecting' = a /\ connections'[a].gen = retry.gen
    BY <1>2, <2>2 DEF HoldSlot, TypeOK, Pending
  <2>4. WillGoOn(retry)'
    BY <2>2, <2>3
       DEF WillGoOn, PollIsCurrent, RetryIsCurrent, IsOpeningSession, IsPending, Matches,
           HasSession
  <2> QED BY <2>2, <2>3, <2>4 DEF SlotNeverStalls
<1>3. CASE /\ Close(a, NewSession(nextId + 1, FALSE), FALSE)
           /\ HoldSlot(a, chs, c) /\ Arm(c, {T("openTimeout", a, nextId + 1)})
  <2>1. PICK timeout : timeout = T("openTimeout", a, nextId + 1)
    OBVIOUS
  <2>2. /\ timeout \in Scheduled' /\ timeout.addr = a
        /\ timeout.kind = "openTimeout" /\ timeout.gen = nextId + 1
    BY <1>3, <2>1 DEF Arm, Scheduled, T
  <2>3. /\ connecting' = a
        /\ sessions'[a].gen = timeout.gen /\ sessions'[a].opened = FALSE /\ timeout.gen # 0
    BY <1>3, <2>2 DEF HoldSlot, Close, NewSession, TypeOK
  <2>4. WillGoOn(timeout)'
    BY <2>2, <2>3 DEF WillGoOn, IsOpeningSession, Matches, HasSession
  <2> QED BY <2>2, <2>3, <2>4 DEF SlotNeverStalls
<1> QED BY <1>1, <1>2, <1>3 DEF TryNextChannel, FailConnection

\* So does start_next_connection, or it arms the first poll.
LEMMA StartConnectionGoesOn ==
    ASSUME TypeOK, NEW a \in Addr, IsPending(a), connecting = NoAddr,
           NEW c, GoodCtx(c), StartConnection(a, c)
    PROVE  SlotNeverStalls'
<1>1. ASSUME NEW d \in Guardings(c, a) PROVE GoodCtx(d)
  BY <1>1 DEF Guardings, Guarding, Ctx, GoodCtx
<1>2. CASE TryNextChannel(a, channelsLeft[a], c)
  BY <1>2, TryNextChannelGoesOn
<1>3. ASSUME NEW d \in Guardings(c, a), NEW found \in BOOLEAN, FinishSdp(a, found, d)
      PROVE  SlotNeverStalls'
  BY <1>1, <1>3, TryNextChannelGoesOn DEF FinishSdp
<1>4. ASSUME NEW d \in Guardings(c, a), BeginSdp(a, d)
      PROVE  SlotNeverStalls'
  <2>1. PICK poll : poll = Poll(a, connections[a].gen, 0)
    OBVIOUS
  <2>2. /\ poll \in Scheduled' /\ poll.addr = a /\ poll.kind = "poll"
        /\ poll.gen = connections'[a].gen /\ connecting' = a
    BY <1>4, <2>1 DEF BeginSdp, Arm, Scheduled, Poll
  <2>3. WillGoOn(poll)'
    BY <2>2 DEF WillGoOn, PollIsCurrent, RetryIsCurrent, IsOpeningSession, IsPending, Matches,
                HasSession
  <2> QED BY <2>2, <2>3 DEF SlotNeverStalls
<1> QED BY <1>2, <1>3, <1>4 DEF StartConnection

\* Every block of the main queue leaves what goes on with the slot.
LEMMA RunBlockGoesOn ==
    ASSUME Control, Queue, SlotNeverStalls, RunBlock
    PROVE  SlotNeverStalls'
<1>1. /\ TypeOK /\ SlotPending /\ OneAttempt /\ mainQ # <<>>
      /\ Head(mainQ) \in Task /\ GoodCtx(FromQueue) /\ Lacks(FromQueue, Head(mainQ))
  BY Contexts, ContextsLack
  DEF Control, RunBlock, RunStartNext, RunRetry, RunOpenFailed, RunOpened, RunClosed,
      RunRelease, RunFail, Runs
<1> PICK t \in Task : t = Head(mainQ)
  BY <1>1
<1> DEFINE a == t.addr
<1>2. t.kind # "startNext" => a \in Addr /\ t # StartNext
  BY DEF Task, StartNext, T
\* A block that posts nothing and leaves the attempts alone.
<1>3. ASSUME Then(FromQueue, <<>>), timers \subseteq timers', UNCHANGED <<connections, connecting>>,
             t.kind # "startNext", a # connecting \/ ~WillGoOn(t),
             connecting # NoAddr => /\ sessions'[connecting].gen = sessions[connecting].gen
                                    /\ sessions'[connecting].opened = sessions[connecting].opened
      PROVE  SlotNeverStalls'
  <2>1. <<>> \in Seq(Task) /\ FromQueue.timers = timers
    BY DEF FromQueue, Ctx
  <2>2. Continues(FromQueue)
    BY <1>3, <2>1, ContinuesPosting
  <2>3. Scheduled \ {t} \subseteq Scheduled'
    BY <1>1, <2>2, StaysScheduled
  <2> QED BY <1>1, <1>2, <1>3, <2>3, NothingStalls
<1>4. CASE RunStartNext
  <2>1. CASE connecting # NoAddr /\ Then(FromQueue, <<>>) /\ UNCHANGED <<mainVars, timers>>
    <3>1. <<>> \in Seq(Task) /\ FromQueue.timers = timers
      BY DEF FromQueue, Ctx
    <3>2. Continues(FromQueue)
      BY <2>1, <3>1, ContinuesPosting
    <3>3. Scheduled \ {t} \subseteq Scheduled'
      BY <1>1, <3>2, StaysScheduled
    <3>4. t.addr = NoAddr
      BY <1>4 DEF RunStartNext, Runs, Task
    <3>5. connecting \in Addr
      BY <1>1, <2>1 DEF TypeOK
    <3> QED BY <2>1, <3>3, <3>4, <3>5, HolderGoesOn DEF mainVars
  <2>2. CASE /\ connecting = NoAddr /\ \A i \in DOMAIN connectQueue : ~IsPending(connectQueue[i])
             /\ UNCHANGED <<connections, connecting>>
    <3>1. \A b \in Addr : ~IsPending(b)
      BY <2>2 DEF Queue, Lists, Waiting
    <3> QED BY <2>2, <3>1 DEF SlotNeverStalls, IsPending
  <2>3. ASSUME NEW b \in Addr, NEW i \in DOMAIN connectQueue,
               connecting = NoAddr, IsPending(b), StartConnection(b, Popped(i))
        PROVE  SlotNeverStalls'
    <3>1. GoodCtx(Popped(i))
      BY <1>1 DEF GoodCtx, Popped, FromQueue, Ctx
    <3> QED BY <1>1, <2>3, <3>1, StartConnectionGoesOn
  <2> QED BY <1>4, <2>1, <2>2, <2>3 DEF RunStartNext, IsNext
<1>5. ASSUME NEW current, current => a \in Addr, RetryIf(current, a, FromQueue),
             t.kind # "startNext", ~current => ~WillGoOn(t)
      PROVE  SlotNeverStalls'
  <2>1. CASE current /\ RetryConnection(a, FALSE, FromQueue)
    BY <1>1, <1>5, <2>1, RetryConnectionGoesOn
  <2>2. CASE ~current /\ Then(FromQueue, <<>>) /\ Arm(FromQueue, {}) /\ UNCHANGED mainVars
    BY <1>3, <1>5, <2>2 DEF Arm, FromQueue, Ctx, mainVars
  <2> QED BY <1>5, <2>1, <2>2 DEF RetryIf
<1>6. CASE RunRetry
  <2>1. t.kind = "retry" /\ (~RetryIsCurrent(t) => ~WillGoOn(t))
    BY <1>6 DEF RunRetry, Runs, WillGoOn
  <2> QED BY <1>2, <1>5, <1>6, <2>1 DEF RunRetry
<1>7. CASE RunOpenFailed
  <2>1. t.kind = "openFailed" /\ ~WillGoOn(t)
    BY <1>7 DEF RunOpenFailed, Runs, WillGoOn
  <2> QED BY <1>2, <1>5, <1>7, <2>1 DEF RunOpenFailed
<1>8. CASE RunOpened
  <2>1. t.kind = "opened" /\ ~WillGoOn(t) /\ timers' = timers /\ a \in Addr
    BY <1>2, <1>8 DEF RunOpened, Runs, WillGoOn
  <2>2. CASE Then(FromQueue, <<>>) /\ UNCHANGED <<sessions, connections, connecting>>
    BY <1>3, <2>1, <2>2
  <2>3. CASE IsOpeningSession(t)
    <3>1. IsPending(a) /\ connecting = a
      BY <1>1, <2>1, <2>3 DEF IsOpeningSession, Matches, OneAttempt
    <3>2. Then(FromQueue, <<StartNext>>) /\ connecting' = NoAddr
      BY <1>8, <2>3, <3>1 DEF RunOpened, ReleaseSlot
    <3> QED BY <1>1, <3>2, TaskTypes, PostedIsScheduled, FreedGoesOn
  <2> QED BY <1>8, <2>2, <2>3 DEF RunOpened
<1>9. CASE RunClosed
  <2>1. t.kind = "closed" /\ ~WillGoOn(t) /\ a \in Addr
    BY <1>2, <1>9 DEF RunClosed, Runs, WillGoOn
  <2>2. CASE Then(FromQueue, <<>>) /\ UNCHANGED <<sessions, connections, connecting, timers>>
    BY <1>3, <2>1, <2>2
  <2>3. CASE IsPending(a) /\ RetryConnection(a, TRUE, FromQueue)
    BY <1>1, <2>1, <2>3, RetryConnectionGoesOn
  <2>4. CASE /\ ~IsPending(a) /\ Close(a, NoSession, TRUE) /\ Then(FromQueue, <<>>)
             /\ UNCHANGED <<connections, connecting, timers>>
    <3>1. sessions' = [sessions EXCEPT ![a] = NoSession]
      BY <2>4 DEF Close
    <3>2. connecting # a
      BY <1>1, <2>1, <2>4 DEF SlotPending
    <3>3. connecting # NoAddr => sessions'[connecting] = sessions[connecting]
      BY <1>1, <3>1, <3>2 DEF TypeOK
    <3> QED BY <1>3, <2>1, <2>4, <3>3
  <2> QED BY <1>9, <2>2, <2>3, <2>4 DEF RunClosed
<1>10. CASE RunRelease
  <2>1. t.kind = "release" /\ ~WillGoOn(t)
    BY <1>10 DEF RunRelease, Runs, WillGoOn
  <2> QED BY <1>3, <1>10, <2>1 DEF RunRelease
<1>11. CASE RunFail
  <2>1. t.kind = "fail" /\ ~WillGoOn(t)
    BY <1>11 DEF RunFail, Runs, WillGoOn
  <2>2. CASE FailConnection(a, FALSE, FromQueue)
    BY <1>1, <1>2, <2>1, <2>2, FailConnectionGoesOn
  <2>3. CASE Then(FromQueue, <<>>) /\ UNCHANGED <<mainVars, timers>>
    BY <1>3, <2>1, <2>3 DEF mainVars
  <2> QED BY <1>11, <2>2, <2>3 DEF RunFail
<1> QED
  BY <1>4, <1>6, <1>7, <1>8, <1>9, <1>10, <1>11 DEF RunBlock

\* Every timer does: a poll that is current arms the next one or finishes the query.
LEMMA RunTimerGoesOn ==
    ASSUME Control, SlotNeverStalls, NEW t \in timers, RunPoll(t) \/ RunOpenTimeout(t)
    PROVE  SlotNeverStalls'
<1> DEFINE a == t.addr
<1>1. /\ TypeOK /\ SlotPending /\ t \in Task /\ GoodCtx(FromTimer(t)) /\ Lacks(FromTimer(t), t)
      /\ mainQ \in Seq(Task)
  BY Contexts, ContextsLack DEF Control, TypeOK
<1>2. t.kind \in {"poll", "openTimeout"} /\ a \in Addr /\ t # StartNext
  <2>1. t.kind \in {"poll", "openTimeout"}
    BY DEF RunPoll, RunOpenTimeout
  <2> QED BY <1>1, <2>1 DEF Task, StartNext, T
\* A timer that finds itself stale.
<1>3. ASSUME UNCHANGED <<mainVars, mainQ>>, timers \ {t} \subseteq timers', ~WillGoOn(t)
      PROVE  SlotNeverStalls'
  <2>1. Scheduled \ {t} \subseteq Scheduled'
    BY <1>3 DEF Scheduled
  <2> QED BY <1>1, <1>2, <1>3, <2>1, NothingStalls DEF mainVars
<1>4. CASE RunPoll(t)
  <2>1. t.kind = "poll"
    BY <1>4 DEF RunPoll
  <2>2. CASE ~PollIsCurrent(t)
    <3>1. ~WillGoOn(t)
      BY <2>1, <2>2 DEF WillGoOn
    <3> QED BY <1>3, <1>4, <2>2, <3>1 DEF RunPoll
  <2>3. CASE PollIsCurrent(t)
    <3>1. connecting = a /\ IsPending(a) /\ connections[a].gen = t.gen
      BY <1>1, <1>2, <2>3 DEF PollIsCurrent, SlotPending
    <3>2. ASSUME NEW found, FinishSdp(a, found, FromTimer(t)) PROVE SlotNeverStalls'
      BY <1>1, <1>2, <3>1, <3>2, TryNextChannelGoesOn DEF FinishSdp
    <3>3. CASE Arm(FromTimer(t), {Poll(a, t.gen, t.n + 1)}) /\ UNCHANGED mainVars
      <4>1. PICK poll : poll = Poll(a, t.gen, t.n + 1)
        OBVIOUS
      <4>2. /\ poll \in Scheduled' /\ poll.addr = a /\ poll.kind = "poll"
            /\ poll.gen = connections'[a].gen /\ connecting' = a
        BY <3>1, <3>3, <4>1 DEF mainVars, Arm, Scheduled, Poll
      <4>3. WillGoOn(poll)'
        BY <4>2 DEF WillGoOn, PollIsCurrent
      <4> QED BY <1>2, <4>2, <4>3 DEF SlotNeverStalls
    <3> QED BY <1>4, <2>3, <3>2, <3>3 DEF RunPoll
  <2> QED BY <2>2, <2>3
<1>5. CASE RunOpenTimeout(t)
  <2>1. t.kind = "openTimeout" /\ RetryIf(IsOpeningSession(t), a, FromTimer(t))
    BY <1>5 DEF RunOpenTimeout
  <2>2. CASE RetryConnection(a, FALSE, FromTimer(t))
    BY <1>1, <1>2, <2>2, RetryConnectionGoesOn
  <2>3. CASE ~IsOpeningSession(t)
    <3>1. ~WillGoOn(t)
      BY <2>1, <2>3 DEF WillGoOn
    <3>2. Then(FromTimer(t), <<>>) /\ Arm(FromTimer(t), {}) /\ UNCHANGED mainVars
      BY <2>1, <2>3 DEF RetryIf
    <3>3. mainQ' = mainQ /\ timers' = timers \ {t}
      BY <1>1, <3>2 DEF Then, Arm, FromTimer, Ctx
    <3> QED BY <1>3, <3>1, <3>2, <3>3
  <2> QED BY <2>1, <2>2, <2>3 DEF RetryIf
<1> QED BY <1>4, <1>5

\* Steps that post at most a block, or fail a session later, leave the attempts alone.
LEMMA PostingStalls ==
    ASSUME TypeOK, SlotNeverStalls, UNCHANGED <<connections, connecting>>,
           Scheduled \subseteq Scheduled',
           \A b \in Addr : /\ sessions'[b].gen = sessions[b].gen
                           /\ sessions'[b].opened = sessions[b].opened
    PROVE  SlotNeverStalls'
<1>1. PICK x : x \notin Scheduled /\ x # StartNext /\ ~WillGoOn(x)
  <2> DEFINE x == [kind |-> "none"]
  <2>1. x.kind = "none"
    OBVIOUS
  <2>2. x \notin Task /\ x # StartNext
    BY <2>1 DEF Task, Kind, StartNext, T
  <2>3. Scheduled \subseteq Task
    BY DEF TypeOK, Scheduled
  <2>4. ~WillGoOn(x)
    BY <2>1 DEF WillGoOn
  <2> QED BY <2>2, <2>3, <2>4
<1>2. connecting # NoAddr => connecting \in Addr
  BY DEF TypeOK
<1> QED BY <1>1, <1>2, NothingStalls

LEMMA NativeGoesOn ==
    ASSUME Control, SlotNeverStalls, Native
    PROVE  SlotNeverStalls'
<1>1. TypeOK /\ opening \subseteq Handle /\ alive \subseteq Handle /\ writes \subseteq Handle
  BY DEF Control, TypeOK
<1>2. ASSUME UNCHANGED <<mainVars, timers>>, NEW t \in Task, Post(t)
      PROVE  SlotNeverStalls'
  BY <1>1, <1>2, PostStays, PostingStalls DEF mainVars
<1>3. ASSUME NEW h \in Handle, NEW kind \in Kind \ {"startNext"}
      PROVE  T(kind, h.addr, h.gen) \in Task
  BY TaskTypes DEF Handle
<1>4. ASSUME NEW h \in opening, NEW status \in {"opened", "openFailed"}, OpenComplete(h, status)
      PROVE  SlotNeverStalls'
  BY <1>1, <1>2, <1>3, <1>4 DEF OpenComplete, Kind
<1>5. ASSUME NEW h \in alive, ChannelClosed(h)
      PROVE  SlotNeverStalls'
  BY <1>1, <1>2, <1>3, <1>5 DEF ChannelClosed, Kind
<1>6. ASSUME NEW a \in sdpActive, NEW found \in BOOLEAN, SdpComplete(a, found)
      PROVE  SlotNeverStalls'
  <2>1. UNCHANGED <<mainVars, loopVars>>
    BY <1>6 DEF SdpComplete
  <2>2. Scheduled \subseteq Scheduled'
    BY <2>1 DEF loopVars, Scheduled
  <2> QED BY <1>1, <2>1, <2>2, PostingStalls DEF mainVars
<1>7. ASSUME NEW h \in writes, NEW ok \in BOOLEAN, WriteComplete(h, ok)
      PROVE  SlotNeverStalls'
  <2>1. UNCHANGED <<connections, connecting, timers>> /\ h \in Handle /\ h.addr \in Addr
    BY <1>1, <1>7 DEF WriteComplete, Handle
  <2>2. CASE Post(T("release", h.addr, h.gen)) /\ UNCHANGED sessions
    <3>1. T("release", h.addr, h.gen) \in Task
      BY <1>3, <2>1 DEF Kind
    <3> QED BY <1>1, <2>1, <2>2, <3>1, PostStays, PostingStalls
  <2>3. CASE FailLater(h.addr)
    <3>1. T("fail", h.addr, sessions[h.addr].gen) \in Task
      BY <1>1, <2>1, TaskTypes DEF TypeOK, Session, Kind
    <3>2. Scheduled \subseteq Scheduled'
      BY <1>1, <2>1, <2>3, <3>1, PostStays DEF FailLater
    <3> QED BY <1>1, <2>1, <2>3, <3>2, FailLaterEffect, PostingStalls
  <2>4. CASE mainQ' = mainQ /\ (UNCHANGED sessions
                                \/ sessions' = [sessions EXCEPT ![h.addr].inFlight = FALSE])
    <3>1. Scheduled \subseteq Scheduled'
      BY <2>1, <2>4 DEF Scheduled
    <3>2. sessions \in [Addr -> Session]
      BY <1>1 DEF TypeOK
    <3>3. \A b \in Addr : /\ sessions'[b].gen = sessions[b].gen
                          /\ sessions'[b].opened = sessions[b].opened
      BY <2>1, <2>4, <3>2 DEF Session
    <3> QED BY <1>1, <2>1, <3>1, <3>3, PostingStalls
  <2> QED BY <1>7, <2>2, <2>3, <2>4 DEF WriteComplete
<1> QED
  BY <1>4, <1>5, <1>6, <1>7 DEF Native

\* connect posts start_next_connection, disconnect does through fail_connection, and
\* disconnect_all leaves nothing pending.
LEMMA CallersGoesOn ==
    ASSUME Control, SlotNeverStalls, Callers
    PROVE  SlotNeverStalls'
<1>1. /\ TypeOK /\ SlotPending /\ GoodCtx(FromCaller) /\ Lacks(FromCaller, StartNext)
      /\ StartNext \in Task /\ FromCaller.timers = timers
  BY Contexts, ContextsLack, TaskTypes DEF Control, FromCaller, Ctx
<1>2. ASSUME NEW a \in Addr, Connect(a)
      PROVE  SlotNeverStalls'
  <2>1. /\ ~IsPending(a) /\ UNCHANGED <<sessions, connecting, timers>>
        /\ connections' = [connections EXCEPT ![a] = [gen |-> nextId + 1, resolved |-> FALSE]]
        /\ Then(FromCaller, <<StartNext>>)
    BY <1>2 DEF Connect
  <2>2. StartNext \in Scheduled'
    BY <1>1, <2>1, PostedIsScheduled
  <2>3. CASE connecting = NoAddr
    BY <2>1, <2>2, <2>3, FreedGoesOn
  <2>4. CASE connecting # NoAddr
    <3>1. connecting \in Addr /\ connecting # a
      BY <1>1, <2>1, <2>4 DEF TypeOK, SlotPending
    <3>2. connections'[connecting] = connections[connecting]
      BY <1>1, <2>1, <3>1 DEF TypeOK
    <3>3. <<StartNext>> \in Seq(Task)
      BY <1>1
    <3>4. Continues(FromCaller)
      BY <1>1, <2>1, <3>3, ContinuesPosting
    <3>5. Scheduled \ {StartNext} \subseteq Scheduled' /\ StartNext.addr # connecting
      BY <1>1, <2>4, <3>4, StaysScheduled DEF StartNext, T
    <3> QED BY <2>1, <3>1, <3>2, <3>5, HolderGoesOn
  <2> QED BY <2>3, <2>4
<1>3. ASSUME NEW a \in Addr, Disconnect(a)
      PROVE  SlotNeverStalls'
  <2>1. StartNext.addr = NoAddr
    BY DEF StartNext, T
  <2> QED BY <1>1, <1>3, <2>1, FailConnectionGoesOn DEF Disconnect
<1>4. CASE DisconnectAll
  <2>1. connecting' = NoAddr /\ \A a \in Addr : ~IsPending(a)'
    BY <1>4 DEF DisconnectAll, IsPending, NoPending
  <2> QED BY <2>1 DEF SlotNeverStalls
<1>5. ASSUME NEW a \in Addr, StartSend(a)
      PROVE  SlotNeverStalls'
  <2>1. /\ UNCHANGED <<connections, connecting, loopVars>>
        /\ sessions' = [sessions EXCEPT ![a].inFlight = TRUE]
    BY <1>5 DEF StartSend
  <2>2. Scheduled \subseteq Scheduled'
    BY <2>1 DEF loopVars, Scheduled
  <2>3. \A b \in Addr : /\ sessions'[b].gen = sessions[b].gen
                        /\ sessions'[b].opened = sessions[b].opened
    BY <1>1, <2>1 DEF TypeOK, Session
  <2> QED BY <1>1, <2>1, <2>2, <2>3, PostingStalls
<1>6. ASSUME NEW a \in Addr, RejectWrite(a)
      PROVE  SlotNeverStalls'
  <2>1. UNCHANGED <<connections, connecting, timers>> /\ FailLater(a)
    BY <1>6 DEF RejectWrite
  <2>2. T("fail", a, sessions[a].gen) \in Task
    BY <1>1, TaskTypes DEF TypeOK, Session, Kind
  <2>3. Scheduled \subseteq Scheduled'
    BY <1>1, <2>1, <2>2, PostStays DEF FailLater
  <2> QED BY <1>1, <2>1, <2>3, FailLaterEffect, PostingStalls
<1> QED
  BY <1>2, <1>3, <1>4, <1>5, <1>6 DEF Callers

\* SlotNeverStalls is inductive on top of Control and Order.
LEMMA NextGoesOn == Control /\ Order /\ SlotNeverStalls /\ [Next]_vars => SlotNeverStalls'
<1> SUFFICES ASSUME Control, Order, SlotNeverStalls, [Next]_vars
             PROVE  SlotNeverStalls'
  OBVIOUS
<1>1. CASE UNCHANGED vars
  <2>1. UNCHANGED <<mainVars, mainQ, timers>>
    BY <1>1 DEF vars, loopVars
  <2>2. Scheduled \subseteq Scheduled'
    BY <2>1 DEF Scheduled
  <2> QED BY <2>1, <2>2, PostingStalls DEF mainVars, Control
<1>2. QED
  BY <1>1, RunBlockGoesOn, RunTimerGoesOn, NativeGoesOn, CallersGoesOn DEF Next, RunTimer, Order

\* While a device is pending something is posted or armed that goes on with the slot: a
\* free slot is never left without start_next_connection, nor a holder without its
\* poll, retry or open timeout.
THEOREM SlotGoesOn == Spec => []SlotNeverStalls
<1>1. Init => SlotNeverStalls
  BY DEF Init, SlotNeverStalls, IsPending, NoPending
<1>2. QED
  BY <1>1, NextGoesOn, OrderInvariant, ControlInvariant, PTL DEF Spec

\* An accepted connection keeps its place in the queue or the slot, and what serves it
\* next is posted or armed, whatever IOBluetooth does.
THEOREM ConnectionsAreServed == Spec => []ConnectionsServed
  BY NoConnectionIsLost, SlotGoesOn, PTL DEF ConnectionsServed
=============================================================================
