--------------------------- MODULE MacSendProofs ---------------------------
(***************************************************************************)
(* Proofs about the transmission of the macOS backend: for any number of   *)
(* callers, sends and sessions, any payloads and any limits, the stream is *)
(* whole payloads, Ok means delivered, in_flight is exact, buffers outlive *)
(* the writes that use them, the pump is not lost, and the transmission    *)
(* implements PayloadStream.                                               *)
(***************************************************************************)
EXTENDS MacSend, TLAPS, FiniteSetTheorems, SequenceTheorems

-----------------------------------------------------------------------------
(***************************************************************************)
(* The inductive invariant                                                 *)
(***************************************************************************)
Sends    == [id : Nat, total : Nat, next : Nat, inFlight : Nat]
Sessions == [gen : Nat, failed : BOOLEAN, scheduled : BOOLEAN, send : Sends]
Retirees == [gen : Nat, id : Nat, inFlight : Nat]
Blocks   == [kind : {"pump", "fail", "closed", "release"}, gen : Nat \ {0}]
Writes   == [gen : Nat, id : Nat, chunk : Nat]
Chunks   == [id : Nat, chunk : Nat, total : Nat]
Turns    == [gen : Nat, left : Nat, id : Nat, offset : Nat]

TypeOK ==
    /\ session \in Sessions /\ retiring \subseteq Retirees /\ posted \subseteq Blocks
    /\ turn \in Turns
    /\ alive \subseteq Nat \ {0} /\ outstanding \subseteq Writes /\ IsFiniteSet(outstanding)
    /\ wire \in Seq(Chunks) /\ acked \subseteq [id : Nat, chunk : Nat]
    /\ pc \in [Threads -> {"idle", "waiting", "timedOut"}]
    /\ mine \in [Threads -> [gen : Nat, id : Nat, total : Nat]]
    /\ result \in [Threads -> {"none", "ok", "err"}]
    /\ sends \in Nat /\ opens \in Nat

\* Generations and ids that are in use were given out.
Given ==
    /\ session.gen <= opens /\ session.send.id <= sends
    /\ \A b \in posted : b.gen <= opens
    /\ \A g \in alive : g <= opens
    /\ \A t \in Threads : mine[t].id <= sends /\ (pc[t] # "idle" => mine[t].gen # 0)

\* A session without a send has none of its fields set; a session is opened when the
\* one before has been released.
Shape ==
    /\ ~HasSession => ~Sending
    /\ ~Sending => session.send = NoSend
    /\ Sending => session.send.next <= session.send.total /\ session.send.total > 0
    /\ HasSession => retiring = {}
    /\ \A r, s \in retiring : r = s

\* While the pump is inside writeAsync its session and its send stay, with the chunk it
\* has reserved as the last; a completion from inside the call cannot end the send.
Reservation ==
    Calling => /\ HasSession /\ session.gen = turn.gen /\ session.send.id = turn.id
               /\ session.send.next = turn.offset + 1
               /\ turn.left > 0

\* A buffer is the stack's while the channel is open, and belongs to the send that the
\* session, or the session that retired, had last.
Owned ==
    /\ \A w \in outstanding : w.gen \in alive
    /\ BuffersKept
    /\ \A w \in outstanding : w.gen = session.gen => w.chunk <= Accepted
    /\ \A b \in posted : b.kind = "closed" => b.gen \notin alive
    /\ \A b \in posted : b.kind = "release" =>
           b.gen # session.gen /\ \A w \in outstanding : w.gen # b.gen

\* The stream ends with what the pending send has written, or with a whole payload.
StreamEnd ==
    HasSession =>
        IF Accepted > 0
        THEN Len(wire) > 0 /\ wire[Len(wire)] = [id    |-> session.send.id,
                                                 chunk |-> Accepted,
                                                 total |-> session.send.total]
        ELSE Len(wire) > 0 => wire[Len(wire)].chunk = wire[Len(wire)].total

\* Of the pending send of a healthy session, each chunk written has completed or is
\* outstanding, while the channel lives; the caller of the send has its total.
Accounted ==
    /\ Sending /\ ~session.failed /\ session.gen \in alive =>
           \A k \in 1..Accepted :
               \/ [id |-> session.send.id, chunk |-> k] \in acked
               \/ [gen |-> session.gen, id |-> session.send.id, chunk |-> k] \in outstanding
    /\ \A t \in Threads : Sending /\ mine[t].id = session.send.id =>
           mine[t].total = session.send.total

\* A send that is written whole waits for a completion.
LastToCome ==
    Sending /\ ~session.failed /\ session.send.next = session.send.total =>
        session.send.inFlight > 0

IInv == /\ TypeOK /\ Given /\ Shape /\ Reservation
        /\ Owned /\ InFlightExact
        /\ StreamEnd /\ StreamIntact
        /\ Accounted /\ OkMeansDelivered
        /\ LastToCome /\ PumpNotLost

-----------------------------------------------------------------------------
(***************************************************************************)
(* The records a session is made of                                        *)
(***************************************************************************)
\* A session that opens, a send that begins, a send with a write reserved.
Fresh(g)      == [NoSession EXCEPT !.gen = g]
FreshSend(i, n) == [NoSend EXCEPT !.id = i, !.total = n]
OneNext(s)    == [s EXCEPT !.send.next = s.send.next + 1]
OneMore(s)    == [s EXCEPT !.send.inFlight = @ + 1]
WithWrite(s)  == [s EXCEPT !.send.next = s.send.next + 1, !.send.inFlight = @ + 1]
BackTo(s, k)  == [s EXCEPT !.send.next = k]
OneLess(s)    == [s EXCEPT !.send.inFlight = @ - 1]

LEMMA FreshFields ==
    ASSUME NEW g \in Nat
    PROVE  /\ Fresh(g) \in Sessions /\ Fresh(g).gen = g /\ Fresh(g).send = NoSend
           /\ ~Fresh(g).failed /\ ~Fresh(g).scheduled
<1>1. NoSession \in Sessions
  BY DEF NoSession, NoSend, Sessions, Sends
<1>2. Fresh(g) \in Sessions /\ Fresh(g).gen = g
  BY <1>1 DEF Fresh, Sessions
<1>3. Fresh(g).send = NoSend /\ ~Fresh(g).failed /\ ~Fresh(g).scheduled
  BY DEF Fresh, NoSession
<1> QED BY <1>2, <1>3

LEMMA FreshSendFields ==
    ASSUME NEW i \in Nat, NEW n \in Nat
    PROVE  /\ FreshSend(i, n) \in Sends
           /\ FreshSend(i, n).id = i /\ FreshSend(i, n).total = n
           /\ FreshSend(i, n).next = 0 /\ FreshSend(i, n).inFlight = 0
  BY DEF FreshSend, NoSend, Sends

LEMMA OneNextFields ==
    ASSUME NEW s \in Sessions
    PROVE  /\ OneNext(s) \in Sessions /\ OneNext(s).gen = s.gen
           /\ OneNext(s).failed = s.failed /\ OneNext(s).scheduled = s.scheduled
           /\ OneNext(s).send.id = s.send.id /\ OneNext(s).send.total = s.send.total
           /\ OneNext(s).send.next = s.send.next + 1
           /\ OneNext(s).send.inFlight = s.send.inFlight
  BY DEF OneNext, Sessions, Sends

LEMMA OneMoreFields ==
    ASSUME NEW s \in Sessions
    PROVE  /\ OneMore(s) \in Sessions /\ OneMore(s).gen = s.gen
           /\ OneMore(s).failed = s.failed /\ OneMore(s).scheduled = s.scheduled
           /\ OneMore(s).send.id = s.send.id /\ OneMore(s).send.total = s.send.total
           /\ OneMore(s).send.next = s.send.next
           /\ OneMore(s).send.inFlight = s.send.inFlight + 1
  BY DEF OneMore, Sessions, Sends

LEMMA WithWriteFields ==
    ASSUME NEW s \in Sessions
    PROVE  /\ WithWrite(s) \in Sessions /\ WithWrite(s).gen = s.gen
           /\ WithWrite(s).failed = s.failed /\ WithWrite(s).scheduled = s.scheduled
           /\ WithWrite(s).send.id = s.send.id /\ WithWrite(s).send.total = s.send.total
           /\ WithWrite(s).send.next = s.send.next + 1
           /\ WithWrite(s).send.inFlight = s.send.inFlight + 1
<1>1. WithWrite(s) = OneMore(OneNext(s))
  BY DEF WithWrite, OneMore, OneNext
<1> QED BY <1>1, OneNextFields, OneMoreFields

LEMMA BackToFields ==
    ASSUME NEW s \in Sessions, NEW k \in Nat
    PROVE  /\ BackTo(s, k) \in Sessions /\ BackTo(s, k).gen = s.gen
           /\ BackTo(s, k).failed = s.failed /\ BackTo(s, k).scheduled = s.scheduled
           /\ BackTo(s, k).send.id = s.send.id /\ BackTo(s, k).send.total = s.send.total
           /\ BackTo(s, k).send.next = k
           /\ BackTo(s, k).send.inFlight = s.send.inFlight
  BY DEF BackTo, Sessions, Sends

LEMMA OneLessFields ==
    ASSUME NEW s \in Sessions, s.send.inFlight # 0
    PROVE  /\ OneLess(s) \in Sessions /\ OneLess(s).gen = s.gen
           /\ OneLess(s).failed = s.failed /\ OneLess(s).scheduled = s.scheduled
           /\ OneLess(s).send.id = s.send.id /\ OneLess(s).send.total = s.send.total
           /\ OneLess(s).send.next = s.send.next
           /\ OneLess(s).send.inFlight = s.send.inFlight - 1
  BY DEF OneLess, Sessions, Sends

\* What is left of a reservation that is taken back; in_flight does not underflow.
LEMMA UndoneFields ==
    ASSUME IInv, Calling
    PROVE  /\ session \in Sessions /\ posted \subseteq Blocks /\ HasSession /\ Sending
           /\ turn.offset \in Nat /\ session.send.inFlight \in Nat \ {0}
           /\ Undone(session) \in Sessions /\ Undone(session).gen = session.gen
           /\ Undone(session).failed = session.failed
           /\ Undone(session).scheduled = session.scheduled
           /\ Undone(session).send.id = session.send.id
           /\ Undone(session).send.total = session.send.total
           /\ Undone(session).send.next = turn.offset
           /\ Undone(session).send.inFlight = session.send.inFlight - 1
<1>1. /\ session \in Sessions /\ posted \subseteq Blocks /\ HasSession /\ Sending
      /\ turn.offset \in Nat /\ session.send.inFlight \in Nat \ {0}
  BY DEF IInv, TypeOK, Turns, Sessions, Sends, Reservation, Calling, Sending, InFlightExact,
         Reserved
<1>2. Undone(session) = OneLess(BackTo(session, turn.offset))
  BY DEF IInv, Reservation, Undone, OneLess, BackTo
<1>3. /\ BackTo(session, turn.offset) \in Sessions
      /\ BackTo(session, turn.offset).send.inFlight = session.send.inFlight
  BY <1>1, BackToFields
<1> DEFINE back == BackTo(session, turn.offset)
<1>4. /\ back.gen = session.gen /\ back.failed = session.failed
      /\ back.scheduled = session.scheduled /\ back.send.id = session.send.id
      /\ back.send.total = session.send.total /\ back.send.next = turn.offset
  BY <1>1, BackToFields
<1>5. back \in Sessions /\ back.send.inFlight = session.send.inFlight
      /\ back.send.inFlight # 0 /\ Undone(session) = OneLess(back)
  BY <1>1, <1>2, <1>3
<1> HIDE DEF back
<1>6. /\ OneLess(back) \in Sessions /\ OneLess(back).gen = back.gen
      /\ OneLess(back).failed = back.failed /\ OneLess(back).scheduled = back.scheduled
      /\ OneLess(back).send.id = back.send.id /\ OneLess(back).send.total = back.send.total
      /\ OneLess(back).send.next = back.send.next
      /\ OneLess(back).send.inFlight = back.send.inFlight - 1
  BY <1>5, OneLessFields
<1> QED BY <1>1, <1>4, <1>5, <1>6

LEMMA SessionWithSend ==
    ASSUME NEW s \in Sessions, NEW e \in Sends, NEW x, x = [s EXCEPT !.send = e]
    PROVE  /\ x \in Sessions /\ x.gen = s.gen /\ x.failed = s.failed
           /\ x.scheduled = s.scheduled /\ x.send = e
  BY DEF Sessions

LEMMA OneFewerSend ==
    ASSUME session \in Sessions
    PROVE  /\ OneFewer \in Sessions /\ OneFewer.gen = session.gen
           /\ OneFewer.failed = session.failed /\ OneFewer.scheduled = session.scheduled
           /\ OneFewer.send.id = session.send.id /\ OneFewer.send.total = session.send.total
           /\ OneFewer.send.next = session.send.next
           /\ OneFewer.send.inFlight = Less(session.send.inFlight)
  BY DEF OneFewer, Sessions, Sends, Less

-----------------------------------------------------------------------------
(***************************************************************************)
(* Steps that change at most the flags of the session, the turn, what it   *)
(* has reserved and what is posted                                         *)
(***************************************************************************)
Quiet ==
    /\ session'.gen = session.gen
    /\ session'.send.id = session.send.id /\ session'.send.total = session.send.total
    /\ Accepted' = Accepted
    /\ session.failed => session'.failed
    /\ \A b \in posted' : b \in posted \/ (b.kind \in {"pump", "fail"} /\ b.gen = session.gen)
    /\ UNCHANGED <<retiring, stackVars, mine, result, sends, opens>>
    /\ \A t \in Threads : pc'[t] # "idle" => pc[t] # "idle"

\* They disturb nothing but the types, the reservation and the pump's own invariant.
LEMMA QuietKeeps ==
    ASSUME IInv, Quiet, TypeOK', Shape', Reservation', InFlightExact', LastToCome',
           PumpNotLost'
    PROVE  IInv'
<1> USE DEF IInv, Quiet, stackVars, HasSession, Sending
<1>1. Given'
  BY DEF Given, TypeOK, Blocks, threadVars
<1>2. Owned'
  BY DEF Owned, BuffersKept
<1>3. StreamEnd' /\ StreamIntact'
  BY DEF StreamEnd, StreamIntact
<1>4. Accounted' /\ OkMeansDelivered'
  BY DEF Accounted, OkMeansDelivered
<1> QED BY <1>1, <1>2, <1>3, <1>4

\* Steps outside of writeAsync, or that leave the turn alone.
LEMMA FlagsKeep ==
    ASSUME IInv, TypeOK', PumpNotLost',
           session'.gen = session.gen, session'.send = session.send,
           session.failed => session'.failed,
           \A b \in posted' : b \in posted \/ (b.kind \in {"pump", "fail"} /\ b.gen = session.gen),
           UNCHANGED <<retiring, stackVars, mine, result, sends, opens>>,
           \A t \in Threads : pc'[t] # "idle" => pc[t] # "idle",
           turn' = turn \/ (~Calling /\ ~Calling')
    PROVE  IInv'
<1> USE DEF IInv, HasSession, Sending
<1>1. Calling' = Calling /\ Accepted' = Accepted /\ Reserved' = Reserved
  BY DEF Calling, Accepted, Reserved
<1>2. Quiet
  BY <1>1 DEF Quiet
<1>3. Shape' /\ LastToCome'
  BY DEF Shape, LastToCome
<1>4. Reservation'
  BY <1>1 DEF Reservation
<1>5. InFlightExact'
  BY <1>1 DEF InFlightExact, stackVars
<1> QED BY <1>2, <1>3, <1>4, <1>5, QuietKeeps

\* writeAsync has refused the write: the send is as it was before the reservation, but
\* for what completions did to it meanwhile.
LEMMA UndoKeeps ==
    ASSUME IInv, Calling, TypeOK', PumpNotLost', turn' = NoTurn,
           session'.gen = session.gen, session'.send = Undone(session).send,
           session.failed => session'.failed,
           \A b \in posted' : b \in posted \/ (b.kind \in {"pump", "fail"} /\ b.gen = session.gen),
           UNCHANGED <<retiring, stackVars, threadVars, sends, opens>>
    PROVE  IInv'
<1>1. ~Calling' /\ Reserved' = 0 /\ Reserved = 1 /\ Accepted' = session'.send.next
      /\ Accepted = turn.offset
  BY DEF Calling, Reserved, NoTurn, Accepted
<1>2. /\ HasSession /\ Sending /\ turn.offset \in Nat /\ session.send.inFlight \in Nat \ {0}
      /\ session'.send.id = session.send.id /\ session'.send.total = session.send.total
      /\ session'.send.next = turn.offset
      /\ session'.send.inFlight = session.send.inFlight - 1
      /\ session.send.total \in Nat /\ session.send.next = turn.offset + 1
      /\ session.send.next <= session.send.total
  <2>1. session.send.total \in Nat /\ session.send.next = turn.offset + 1
    BY DEF IInv, TypeOK, Sessions, Sends, Reservation
  <2> QED BY <2>1, UndoneFields DEF IInv, Shape
<1>3. Quiet
  BY <1>1, <1>2 DEF Quiet, threadVars
<1>4. Shape'
  BY <1>2 DEF Shape, IInv, HasSession, Sending
<1>5. Reservation'
  BY <1>1 DEF Reservation
<1>6. InFlightExact'
  <2>1. MaxInFlight \in Nat /\ UNCHANGED <<retiring, alive, outstanding>>
    BY LimitsAssumption DEF stackVars
  <2>2. session.send.inFlight - 1 \in 0..MaxInFlight
    BY <1>1, <1>2, <2>1 DEF IInv, InFlightExact
  <2>3. session.gen \in alive =>
            Cardinality({w \in outstanding : w.gen = session.gen}) = session.send.inFlight - 1
    <3>1. Cardinality({w \in outstanding : w.gen = session.gen}) \in Nat
      BY FS_Subset, FS_CardinalityType DEF IInv, TypeOK
    <3> QED BY <1>1, <1>2, <3>1 DEF IInv, InFlightExact
  <2> QED BY <1>1, <1>2, <2>1, <2>2, <2>3 DEF IInv, InFlightExact
<1>7. LastToCome'
  BY <1>2 DEF LastToCome
<1> QED BY <1>3, <1>4, <1>5, <1>6, <1>7, QuietKeeps

\* schedule_pump: the flag is set exactly when a turn is posted.
LEMMA SchedulePumpEffect ==
    ASSUME NEW s \in Sessions, s.send.id # 0 => s.gen # 0,
           posted \subseteq Blocks, SchedulePump(s, {})
    PROVE  /\ session' \in Sessions /\ posted' \subseteq Blocks
           /\ session'.gen = s.gen /\ session'.send = s.send
           /\ session'.failed = s.failed
           /\ session'.scheduled <=> s.scheduled \/ MayPump(s)
           /\ posted' = posted \cup (IF MayPump(s) THEN {B("pump", s.gen)} ELSE {})
<1>1. CASE MayPump(s)
  <2>1. session' = [s EXCEPT !.scheduled = TRUE] /\ posted' = posted \cup {B("pump", s.gen)}
    BY <1>1 DEF SchedulePump, Pumping, PumpOf
  <2>2. session' \in Sessions
    BY <2>1 DEF Sessions
  <2>3. B("pump", s.gen) \in Blocks
    BY <1>1 DEF MayPump, B, Blocks, Sessions
  <2>4. /\ session'.gen = s.gen /\ session'.send = s.send
        /\ session'.failed = s.failed /\ session'.scheduled = TRUE
    BY <2>1 DEF Sessions
  <2> QED BY <1>1, <2>1, <2>2, <2>3, <2>4
<1>2. CASE ~MayPump(s)
  BY <1>2 DEF SchedulePump, Pumping, PumpOf
<1> QED BY <1>1, <1>2

\* fail_session_later: the flag is set and, once, the block posted.
LEMMA FailLaterEffect ==
    ASSUME NEW s \in Sessions, s.gen # 0, posted \subseteq Blocks, FailLater(s, {})
    PROVE  /\ session' \in Sessions /\ posted' \subseteq Blocks
           /\ session'.gen = s.gen /\ session'.send = s.send
           /\ session'.failed
           /\ session'.scheduled = s.scheduled
           /\ posted' = posted \cup (IF s.failed THEN {} ELSE {B("fail", s.gen)})
<1>1. CASE ~s.failed
  <2>1. session' = [s EXCEPT !.failed = TRUE] /\ posted' = posted \cup {B("fail", s.gen)}
    BY <1>1 DEF FailLater
  <2>2. session' \in Sessions
    BY <2>1 DEF Sessions
  <2>3. B("fail", s.gen) \in Blocks
    BY DEF B, Blocks, Sessions
  <2>4. /\ session'.gen = s.gen /\ session'.send = s.send
        /\ session'.failed = TRUE /\ session'.scheduled = s.scheduled
    BY <2>1 DEF Sessions
  <2> QED BY <1>1, <2>1, <2>2, <2>3, <2>4
<1>2. CASE s.failed
  BY <1>2 DEF FailLater
<1> QED BY <1>1, <1>2

\* After schedule_pump the pump is not lost.
LEMMA ScheduledNotLost ==
    ASSUME NEW s \in Sessions, s.send.id # 0 => s.gen # 0,
           posted \subseteq Blocks, SchedulePump(s, {}),
           s.scheduled <=> s.gen # 0 /\ B("pump", s.gen) \in posted,
           s.failed => B("fail", s.gen) \in posted
    PROVE  PumpNotLost'
<1>1. /\ session'.gen = s.gen /\ session'.send = s.send
      /\ session'.failed = s.failed
      /\ session'.scheduled <=> s.scheduled \/ MayPump(s)
      /\ posted' = posted \cup (IF MayPump(s) THEN {B("pump", s.gen)} ELSE {})
  BY SchedulePumpEffect
<1>2. B("pump", s.gen) # B("fail", s.gen)
  BY DEF B
<1> QED BY <1>1, <1>2 DEF PumpNotLost, HasSession, Sending, MayPump

LEMMA FailedNotLost ==
    ASSUME NEW s \in Sessions, s.gen # 0, posted \subseteq Blocks, FailLater(s, {}),
           s.scheduled <=> B("pump", s.gen) \in posted,
           s.failed => B("fail", s.gen) \in posted
    PROVE  PumpNotLost'
<1>1. /\ session'.gen = s.gen /\ session'.failed
      /\ session'.scheduled = s.scheduled
      /\ posted' = posted \cup (IF s.failed THEN {} ELSE {B("fail", s.gen)})
  BY FailLaterEffect
<1>2. B("pump", s.gen) # B("fail", s.gen)
  BY DEF B
<1> QED BY <1>1, <1>2 DEF PumpNotLost, HasSession, Sending

\* The steps of a turn that write nothing, the block that begins one, and the callback
\* about queue space.
LEMMA PumpReturnsIInv == IInv /\ PumpReturns => IInv'
<1> SUFFICES ASSUME IInv, PumpReturns PROVE IInv'
  OBVIOUS
<1> USE DEF IInv, PumpReturns
<1>1. TypeOK' /\ ~Calling'
  BY DEF TypeOK, Turns, NoTurn, Calling, stackVars, threadVars
<1>2. PumpNotLost'
  <2>1. Sending /\ ~session.failed /\ turn.gen = session.gen => session.send.inFlight > 0
    BY LimitsAssumption DEF PumpStops, LastToCome, TypeOK, Sessions, Sends
  <2> QED BY <2>1 DEF PumpNotLost, Sending, HasSession
<1> QED BY <1>1, <1>2, FlagsKeep DEF threadVars

LEMMA ScheduleIInv ==
    ASSUME IInv, SchedulePump(session, {}),
           turn' = turn \/ (~Calling /\ turn' = NoTurn),
           UNCHANGED <<retiring, stackVars, threadVars, sends, opens>>
    PROVE  IInv'
<1> USE DEF IInv
<1>1. /\ session \in Sessions /\ posted \subseteq Blocks
      /\ session.send.id # 0 => session.gen # 0
  BY DEF TypeOK, Shape, HasSession, Sending
<1>2. /\ session' \in Sessions /\ posted' \subseteq Blocks
      /\ session'.gen = session.gen /\ session'.send = session.send
      /\ session'.failed = session.failed
      /\ posted' = posted \cup (IF MayPump(session) THEN {B("pump", session.gen)} ELSE {})
  BY <1>1, SchedulePumpEffect
<1>3. turn' = turn \/ (~Calling /\ ~Calling')
  BY DEF Calling, NoTurn
<1>4. TypeOK'
  BY <1>2 DEF TypeOK, Turns, NoTurn, stackVars, threadVars
<1>5. PumpNotLost'
  BY <1>1, ScheduledNotLost DEF PumpNotLost, HasSession
<1>6. \A b \in posted' : b \in posted \/ (b.kind \in {"pump", "fail"} /\ b.gen = session.gen)
  BY <1>2 DEF B
<1> QED BY <1>2, <1>3, <1>4, <1>5, <1>6, FlagsKeep DEF threadVars

LEMMA PumpBusyIInv == IInv /\ PumpBusy => IInv'
<1> SUFFICES ASSUME IInv, PumpBusy PROVE IInv'
  OBVIOUS
<1> DEFINE s == Undone(session)
<1>1. /\ Calling /\ turn' = NoTurn /\ SchedulePump(s, {})
      /\ UNCHANGED <<retiring, stackVars, threadVars, sends, opens>>
  BY DEF PumpBusy
<1>2. /\ s \in Sessions /\ posted \subseteq Blocks /\ s.gen # 0
      /\ s.gen = session.gen /\ s.failed = session.failed /\ s.scheduled = session.scheduled
  BY <1>1, UndoneFields DEF HasSession
<1>3. /\ s.scheduled <=> s.gen # 0 /\ B("pump", s.gen) \in posted
      /\ s.failed => B("fail", s.gen) \in posted
  BY <1>2 DEF IInv, PumpNotLost, HasSession
<1> HIDE DEF s
<1>4. /\ session' \in Sessions /\ posted' \subseteq Blocks
      /\ session'.gen = s.gen /\ session'.send = s.send /\ session'.failed = s.failed
      /\ posted' = posted \cup (IF MayPump(s) THEN {B("pump", s.gen)} ELSE {})
  BY <1>1, <1>2, SchedulePumpEffect
<1>5. PumpNotLost'
  BY <1>1, <1>2, <1>3, ScheduledNotLost
<1>6. TypeOK'
  BY <1>1, <1>4 DEF IInv, TypeOK, Turns, NoTurn, stackVars, threadVars
<1>7. \A b \in posted' : b \in posted \/ (b.kind \in {"pump", "fail"} /\ b.gen = session.gen)
  BY <1>2, <1>4 DEF B
<1> QED BY <1>1, <1>2, <1>4, <1>5, <1>6, <1>7, UndoKeeps DEF s

LEMMA PumpFailsIInv == IInv /\ PumpFails => IInv'
<1> SUFFICES ASSUME IInv, PumpFails PROVE IInv'
  OBVIOUS
<1> DEFINE s == Undone(session)
<1>1. /\ Calling /\ turn' = NoTurn /\ FailLater(s, {})
      /\ UNCHANGED <<retiring, stackVars, threadVars, sends, opens>>
  BY DEF PumpFails
<1>2. /\ s \in Sessions /\ posted \subseteq Blocks /\ s.gen # 0
      /\ s.gen = session.gen /\ s.failed = session.failed /\ s.scheduled = session.scheduled
  BY <1>1, UndoneFields DEF HasSession
<1>3. /\ s.scheduled <=> B("pump", s.gen) \in posted
      /\ s.failed => B("fail", s.gen) \in posted
  BY <1>2 DEF IInv, PumpNotLost, HasSession
<1> HIDE DEF s
<1>4. /\ session' \in Sessions /\ posted' \subseteq Blocks
      /\ session'.gen = s.gen /\ session'.send = s.send /\ session'.failed
      /\ posted' = posted \cup (IF s.failed THEN {} ELSE {B("fail", s.gen)})
  BY <1>1, <1>2, FailLaterEffect
<1>5. PumpNotLost'
  BY <1>1, <1>2, <1>3, FailedNotLost
<1>6. TypeOK'
  BY <1>1, <1>4 DEF IInv, TypeOK, Turns, NoTurn, stackVars, threadVars
<1>7. \A b \in posted' : b \in posted \/ (b.kind \in {"pump", "fail"} /\ b.gen = session.gen)
  BY <1>2, <1>4 DEF B
<1> QED BY <1>1, <1>2, <1>4, <1>5, <1>6, <1>7, UndoKeeps DEF s

LEMMA PumpYieldsIInv == IInv /\ PumpYields => IInv'
<1> SUFFICES ASSUME IInv, PumpYields PROVE IInv'
  OBVIOUS
<1> USE DEF PumpYields
<1>1. CASE session.gen = turn.gen
  BY <1>1, ScheduleIInv
<1>2. CASE session.gen # turn.gen
  <2> USE <1>2 DEF IInv
  <2>1. TypeOK' /\ ~Calling'
    BY DEF TypeOK, Turns, NoTurn, Calling, stackVars, threadVars
  <2>2. PumpNotLost'
    BY DEF PumpNotLost, Sending, HasSession
  <2> QED BY <2>1, <2>2, FlagsKeep DEF threadVars
<1> QED BY <1>1, <1>2

LEMMA NewTurnType ==
    ASSUME NEW g \in Nat
    PROVE  /\ NewTurn(g) \in Turns /\ NewTurn(g).gen = g
           /\ NewTurn(g).id = 0 /\ NewTurn(g).left = WritesPerTurn
  BY LimitsAssumption DEF NewTurn, NoTurn, Turns

LEMMA RunPumpIInv == ASSUME NEW g, IInv, RunPump(g) PROVE IInv'
<1> USE DEF IInv, RunPump
<1>0. ~Calling
  BY DEF Idle, Calling, NoTurn
<1>1. CASE session.gen = g
  <2>0. session' = [session EXCEPT !.scheduled = FALSE] /\ session \in Sessions
    BY <1>1 DEF TypeOK
  <2>1. /\ session' \in Sessions /\ session'.gen = g /\ session'.send = session.send
        /\ session'.failed = session.failed /\ session'.scheduled = FALSE
    BY <1>1, <2>0 DEF Sessions
  <2>2. turn' \in Turns /\ turn'.gen = g /\ ~Calling'
    BY <1>1, <2>0, NewTurnType DEF Sessions, Calling
  <2>3. TypeOK'
    BY <2>1, <2>2 DEF TypeOK, stackVars, threadVars
  <2>4. B("pump", g) # B("fail", g)
    BY DEF B
  <2>5. PumpNotLost'
    BY <1>1, <2>1, <2>2, <2>4 DEF PumpNotLost, Sending, HasSession
  <2> QED BY <1>0, <1>1, <2>1, <2>2, <2>3, <2>5, FlagsKeep DEF threadVars
<1>2. CASE session.gen # g
  <2>1. TypeOK'
    BY <1>2 DEF TypeOK, stackVars, threadVars
  <2>2. B("pump", session.gen) # B("pump", g) /\ B("fail", session.gen) # B("pump", g)
    BY <1>2 DEF B
  <2>3. PumpNotLost'
    BY <1>2, <2>2 DEF PumpNotLost, Sending, HasSession
  <2> QED BY <1>2, <2>1, <2>3, FlagsKeep DEF threadVars
<1> QED BY <1>1, <1>2

-----------------------------------------------------------------------------
(***************************************************************************)
(* Closing a session                                                       *)
(***************************************************************************)
LEMMA IdleNotCalling == Idle => ~Calling
  BY DEF Idle, Calling, NoTurn

\* The writes the stack owns for a generation.
Own(g) == {w \in outstanding : w.gen = g}

LEMMA OwnFinite ==
    ASSUME NEW g, IsFiniteSet(outstanding)
    PROVE  /\ IsFiniteSet(Own(g)) /\ Cardinality(Own(g)) \in Nat
           /\ Cardinality(Own(g)) = 0 <=> Own(g) = {}
  BY FS_Subset, FS_CardinalityType, FS_EmptySet DEF Own

\* All buffers are those of the session while there is one; none, if it has nothing in
\* flight.
LEMMA SessionOwns ==
    ASSUME IInv, HasSession
    PROVE  /\ retiring = {}
           /\ \A w \in outstanding : w.gen = session.gen /\ w.id = session.send.id
           /\ session.send.inFlight = 0 => outstanding = {}
<1> USE DEF IInv
<1>1. /\ retiring = {}
      /\ \A w \in outstanding : w.gen = session.gen /\ w.id = session.send.id
  BY DEF Shape, Owned, BuffersKept
<1>2. ASSUME session.send.inFlight = 0 PROVE outstanding = {}
  <2>1. CASE session.gen \in alive
    <3>0. Cardinality(Own(session.gen)) \in Nat /\ Reserved \in {0, 1}
      BY OwnFinite DEF TypeOK, Reserved
    <3>1. Cardinality(Own(session.gen)) = 0
      <4>1. 0 = Cardinality(Own(session.gen)) + Reserved
        BY <1>2, <2>1 DEF InFlightExact, Own
      <4> HIDE DEF IInv
      <4> QED BY <3>0, <4>1
    <3>2. Own(session.gen) = {}
      BY <3>1, OwnFinite DEF TypeOK
    <3> QED BY <1>1, <3>2 DEF Own
  <2>2. CASE session.gen \notin alive
    BY <1>1, <2>2 DEF Owned
  <2> QED BY <2>1, <2>2
<1> QED BY <1>1, <1>2

\* close_session keeps the buffers with the session, or none is left.
LEMMA CloseSessionEffect ==
    ASSUME IInv, HasSession, NEW already \in BOOLEAN, CloseSession(already)
    PROVE  \/ /\ session.send.inFlight # 0
              /\ retiring' = {[gen |-> session.gen, id |-> session.send.id,
                               inFlight |-> session.send.inFlight]}
              /\ UNCHANGED <<alive, outstanding>>
           \/ /\ retiring' = {} /\ outstanding' = {}
              /\ alive' = alive \ {session.gen}
<1> USE DEF IInv
<1>1. /\ retiring = {} /\ \A w \in outstanding : w.gen = session.gen
      /\ session.send.inFlight = 0 => outstanding = {}
  BY SessionOwns
<1>2. PICK closed \in BOOLEAN :
          LET kept == Kept(closed)
          IN  /\ retiring' = IF kept
                             THEN retiring \cup {[gen |-> session.gen,
                                                  id |-> session.send.id,
                                                  inFlight |-> session.send.inFlight]}
                             ELSE retiring
              /\ alive' = IF kept THEN alive ELSE alive \ {session.gen}
              /\ outstanding' = IF closed THEN {w \in outstanding : w.gen # session.gen}
                                ELSE outstanding
  BY DEF CloseSession
<1>3. CASE Kept(closed)
  BY <1>1, <1>2, <1>3 DEF Kept
<1>4. CASE closed
  BY <1>1, <1>2, <1>4 DEF Kept
<1>5. CASE ~closed /\ session.send.inFlight = 0
  BY <1>1, <1>2, <1>5 DEF Kept
<1> QED BY <1>3, <1>4, <1>5 DEF Kept

LEMMA NotifyEffect ==
    ASSUME NEW id, NEW x \in {"ok", "err"}, TypeOK, result' = Notify(id, x)
    PROVE  /\ result' \in [Threads -> {"none", "ok", "err"}]
           /\ \A t \in Threads : result'[t] = result[t] \/ (result'[t] = x /\ mine[t].id = id)
  BY DEF TypeOK, Notify

LEMMA CloseSessionIInv ==
    ASSUME IInv, HasSession, ~Calling, NEW already \in BOOLEAN, CloseSession(already),
           posted' \subseteq posted, pc' \in [Threads -> {"idle", "waiting", "timedOut"}],
           \A t \in Threads : pc'[t] # "idle" => pc[t] # "idle",
           UNCHANGED <<turn, wire, acked, mine, sends, opens>>
    PROVE  IInv'
<1> USE DEF IInv
<1> DEFINE kept == [gen |-> session.gen, id |-> session.send.id,
                    inFlight |-> session.send.inFlight]
<1>0. ~Calling' /\ Reserved = 0 /\ Reserved' = 0
  BY DEF Calling, Reserved
<1>1. \/ /\ session.send.inFlight # 0 /\ retiring' = {kept}
         /\ UNCHANGED <<alive, outstanding>>
      \/ /\ retiring' = {} /\ outstanding' = {}
         /\ alive' = alive \ {session.gen}
  BY CloseSessionEffect
<1>2. /\ session' = NoSession /\ session' \in Sessions
      /\ session'.gen = 0 /\ session'.send = NoSend /\ session'.send.id = 0
      /\ session'.send.inFlight = 0 /\ session'.send.next = 0
      /\ ~session'.failed /\ ~session'.scheduled
  BY DEF CloseSession, NoSession, NoSend, Sessions, Sends
<1>3. /\ result' \in [Threads -> {"none", "ok", "err"}]
      /\ \A t \in Threads : result'[t] = "ok" => result[t] = "ok"
  <2>1. CASE Sending
    BY <2>1, NotifyEffect DEF CloseSession
  <2>2. CASE ~Sending
    BY <2>2 DEF CloseSession, TypeOK
  <2> QED BY <2>1, <2>2
<1>4. kept \in Retirees
  BY DEF TypeOK, Sessions, Sends, Retirees
<1>5. IsFiniteSet(outstanding')
  BY <1>1, FS_EmptySet DEF TypeOK
<1>6. TypeOK'
  BY <1>1, <1>2, <1>3, <1>4, <1>5 DEF TypeOK
<1>7. Given'
  <2>1. session'.gen <= opens /\ session'.send.id <= sends
    BY <1>2 DEF TypeOK
  <2>2. \A g \in alive' : g <= opens
    BY <1>1 DEF Given
  <2> QED BY <2>1, <2>2 DEF Given
<1>8. Shape' /\ Reservation'
  BY <1>0, <1>1, <1>2 DEF Shape, Reservation, HasSession, Sending
<1>9. \A w \in outstanding : w.gen = session.gen /\ w.id = session.send.id
  BY SessionOwns
<1>10. Owned'
  <2>1. \A w \in outstanding' : w.gen \in alive' /\ w.gen # 0
    BY <1>1 DEF Owned, TypeOK
  <2>2. BuffersKept'
    <3> HIDE DEF IInv
    <3>1. CASE retiring' = {kept} /\ UNCHANGED outstanding
      <4>1. kept \in retiring' /\ kept.gen = session.gen /\ kept.id = session.send.id
        BY <3>1
      <4>2. \A w \in outstanding' : kept.gen = w.gen /\ kept.id = w.id
        BY <1>9, <3>1, <4>1
      <4> HIDE DEF kept
      <4> QED BY <4>1, <4>2 DEF BuffersKept
    <3>2. CASE outstanding' = {}
      BY <3>2 DEF BuffersKept
    <3> QED BY <1>1, <3>1, <3>2
  <2>3. \A b \in posted' : b.gen # 0 /\ (b.kind = "closed" => b.gen \notin alive')
    BY <1>1 DEF Owned, TypeOK, Blocks
  <2>4. \A b \in posted' : b.kind = "release" => \A w \in outstanding' : w.gen # b.gen
    BY <1>1 DEF Owned
  <2> QED BY <1>2, <2>1, <2>2, <2>3, <2>4 DEF Owned
<1>11. InFlightExact'
  <2>1. 0 \notin alive' /\ session'.send.inFlight \in Reserved'..MaxInFlight
    BY <1>0, <1>1, <1>2, LimitsAssumption DEF TypeOK
  <2>2. ASSUME NEW r \in retiring', r.gen \in alive'
        PROVE  r.inFlight = Cardinality({w \in outstanding' : w.gen = r.gen})
    <3>1. r = kept /\ alive' = alive /\ outstanding' = outstanding
      BY <1>1, <2>2
    <3>2. session.send.inFlight = Cardinality(Own(session.gen)) + Reserved
      BY <2>2, <3>1 DEF InFlightExact, Own
    <3>3. Cardinality(Own(session.gen)) \in Nat
      BY OwnFinite DEF TypeOK
    <3>4. r.inFlight = session.send.inFlight /\ r.gen = session.gen
      BY <3>1
    <3> HIDE DEF IInv, kept
    <3> QED BY <1>0, <3>1, <3>2, <3>3, <3>4 DEF Own
  <2> QED BY <1>2, <2>1, <2>2 DEF InFlightExact
<1>12. StreamEnd' /\ StreamIntact'
  BY <1>2 DEF StreamEnd, StreamIntact, HasSession
<1>13. Accounted' /\ OkMeansDelivered'
  BY <1>2, <1>3 DEF Accounted, OkMeansDelivered, Sending
<1>14. LastToCome' /\ PumpNotLost'
  BY <1>2 DEF LastToCome, PumpNotLost, Sending, HasSession
<1> QED BY <1>6, <1>7, <1>8, <1>10, <1>11, <1>12, <1>13, <1>14

LEMMA DisconnectIInv == IInv /\ Disconnect => IInv'
  BY CloseSessionIInv, IdleNotCalling DEF Disconnect, IInv, TypeOK

\* A block that no longer finds its session changes nothing but the queue.
LEMMA PostedBlockGone ==
    ASSUME IInv, posted' \subseteq posted,
           \A b \in posted : b.gen = session.gen => b \in posted',
           UNCHANGED <<session, retiring, turn, stackVars, mine, result, sends, opens>>,
           pc' \in [Threads -> {"idle", "waiting", "timedOut"}],
           \A t \in Threads : pc'[t] # "idle" => pc[t] # "idle"
    PROVE  IInv'
<1> USE DEF IInv
<1>1. TypeOK'
  BY DEF TypeOK, stackVars
<1>2. PumpNotLost'
  BY DEF PumpNotLost, Sending, HasSession, B
<1> QED BY <1>1, <1>2, FlagsKeep

LEMMA RunFailIInv == ASSUME NEW g, IInv, RunFail(g) PROVE IInv'
<1> USE DEF RunFail
<1>0. pc' \in [Threads -> {"idle", "waiting", "timedOut"}]
  BY DEF IInv, TypeOK
<1>1. CASE session.gen = g
  <2>1. HasSession
    BY <1>1 DEF IInv, TypeOK, Blocks, B, HasSession
  <2> QED BY <1>0, <1>1, <2>1, CloseSessionIInv, IdleNotCalling
<1>2. CASE session.gen # g
  BY <1>0, <1>2, PostedBlockGone DEF stackVars, B
<1> QED BY <1>1, <1>2

LEMMA AbortIInv == ASSUME NEW t \in Threads, IInv, Abort(t) PROVE IInv'
<1> USE DEF Abort
<1>0. /\ pc' \in [Threads -> {"idle", "waiting", "timedOut"}]
      /\ \A u \in Threads : pc'[u] # "idle" => pc[u] # "idle"
  BY DEF IInv, TypeOK
<1>1. CASE StillPending(t)
  <2>1. HasSession
    BY <1>1 DEF StillPending, HasSession, IInv, Given
  <2> QED BY <1>0, <1>1, <2>1, CloseSessionIInv, IdleNotCalling
<1>2. CASE ~StillPending(t)
  BY <1>0, <1>2, PostedBlockGone DEF stackVars
<1> QED BY <1>1, <1>2

-----------------------------------------------------------------------------
(***************************************************************************)
(* Sessions that retired, channels that close, sessions that open          *)
(***************************************************************************)
\* release_retiring_session, when the stack owns no buffer of that session any more.
LEMMA ReleaseIInv ==
    ASSUME NEW g, IInv, ReleaseRetiring(g),
           session.gen # g, \A w \in outstanding : w.gen # g,
           posted' \subseteq posted, \A b \in posted : b.gen # g => b \in posted',
           UNCHANGED <<session, turn, outstanding, wire, acked, threadVars, sends, opens>>
    PROVE  IInv'
<1> USE DEF IInv, ReleaseRetiring, threadVars
<1>0. Calling' = Calling /\ Reserved' = Reserved /\ Accepted' = Accepted
  BY DEF Calling, Reserved, Accepted
<1>1. alive' \subseteq alive /\ \A h \in alive : h # g => h \in alive'
  OBVIOUS
<1>2. TypeOK' /\ Given' /\ Shape' /\ Reservation'
  BY <1>0, <1>1 DEF TypeOK, Given, Shape, Reservation, HasSession, Sending
<1>3. Owned'
  <2>1. \A w \in outstanding' : w.gen \in alive'
    BY <1>1 DEF Owned
  <2>2. BuffersKept'
    BY DEF Owned, BuffersKept
  <2> QED BY <1>0, <1>1, <2>1, <2>2 DEF Owned
<1>4. InFlightExact'
  BY <1>0, <1>1 DEF InFlightExact
<1>5. StreamEnd' /\ StreamIntact'
  BY <1>0 DEF StreamEnd, StreamIntact, HasSession
<1>6. Accounted' /\ OkMeansDelivered'
  BY <1>0, <1>1 DEF Accounted, OkMeansDelivered, Sending
<1>7. LastToCome'
  BY DEF LastToCome, Sending
<1>8. PumpNotLost'
  <2>1. \A k : B(k, session.gen) \in posted' <=> B(k, session.gen) \in posted
    BY DEF B
  <2> QED BY <2>1 DEF PumpNotLost, Sending, HasSession
<1> QED BY <1>2, <1>3, <1>4, <1>5, <1>6, <1>7, <1>8

LEMMA RunReleaseIInv == ASSUME NEW g, IInv, RunRelease(g) PROVE IInv'
<1>1. session.gen # g /\ \A w \in outstanding : w.gen # g
  BY DEF IInv, Owned, RunRelease, B
<1> QED BY <1>1, ReleaseIInv DEF RunRelease, B

LEMMA RunClosedIInv == ASSUME NEW g, IInv, RunClosed(g) PROVE IInv'
<1> USE DEF RunClosed
<1>1. g # 0 /\ \A w \in outstanding : w.gen # g
  BY DEF IInv, TypeOK, Blocks, Owned, B
<1>2. CASE session.gen = g
  BY <1>1, <1>2, CloseSessionIInv, IdleNotCalling DEF HasSession, IInv, TypeOK
<1>3. CASE session.gen # g
  BY <1>1, <1>3, ReleaseIInv DEF B, threadVars
<1> QED BY <1>2, <1>3

LEMMA ChannelClosedIInv == ASSUME NEW g \in alive, IInv, ChannelClosed(g) PROVE IInv'
<1> USE DEF IInv, ChannelClosed, threadVars
<1>0. Calling' = Calling /\ Reserved' = Reserved /\ Accepted' = Accepted
  BY DEF Calling, Reserved, Accepted
<1>1. g \in Nat \ {0} /\ g <= opens
  BY DEF TypeOK, Given
<1>2. B("closed", g) \in Blocks /\ B("closed", g).gen = g /\ B("closed", g).kind = "closed"
  BY <1>1 DEF B, Blocks
<1>3. TypeOK'
  BY <1>2, FS_Subset DEF TypeOK
<1>4. Given' /\ Shape' /\ Reservation'
  BY <1>0, <1>1, <1>2 DEF Given, Shape, Reservation, HasSession, Sending
<1>5. Owned'
  BY <1>0, <1>2 DEF Owned, BuffersKept
<1>6. InFlightExact'
  <2>1. ASSUME NEW h \in alive'
        PROVE  {w \in outstanding' : w.gen = h} = {w \in outstanding : w.gen = h}
    BY <2>1
  <2> QED BY <1>0, <2>1 DEF InFlightExact
<1>7. StreamEnd' /\ StreamIntact'
  BY <1>0 DEF StreamEnd, StreamIntact, HasSession
<1>8. Accounted' /\ OkMeansDelivered'
  BY <1>0 DEF Accounted, OkMeansDelivered, Sending
<1>9. LastToCome' /\ PumpNotLost'
  BY DEF LastToCome, PumpNotLost, Sending, HasSession, B
<1> QED BY <1>3, <1>4, <1>5, <1>6, <1>7, <1>8, <1>9

LEMMA OpenIInv == IInv /\ Open => IInv'
<1> SUFFICES ASSUME IInv, Open PROVE IInv'
  OBVIOUS
<1> USE DEF IInv, Open, threadVars
<1>0. ~Calling' /\ Reserved' = 0 /\ Accepted' = session'.send.next
  BY IdleNotCalling DEF Calling, Reserved, Accepted
<1>1. /\ session' \in Sessions /\ session'.gen = opens + 1 /\ session'.send = NoSend
      /\ session'.send.id = 0 /\ session'.send.next = 0 /\ session'.send.inFlight = 0
      /\ ~session'.failed /\ ~session'.scheduled
  <2>1. opens + 1 \in Nat
    BY DEF TypeOK
  <2>2. session' = Fresh(opens + 1)
    BY DEF Fresh
  <2>3. NoSend.id = 0 /\ NoSend.next = 0 /\ NoSend.inFlight = 0
    BY DEF NoSend
  <2> HIDE DEF Open, IInv
  <2> QED BY <2>1, <2>2, <2>3, FreshFields
<1>2. outstanding = {} /\ opens \in Nat /\ sends \in Nat
  BY DEF Owned, BuffersKept, TypeOK, HasSession
<1>3. \A b \in posted : b.gen # opens + 1
  BY <1>2 DEF Given, TypeOK, Blocks
<1>4. TypeOK'
  BY <1>1, <1>2, EmptySeq DEF TypeOK
<1>5. Given'
  BY <1>1, <1>2 DEF Given, TypeOK, Blocks
<1>6. Shape' /\ Reservation'
  BY <1>0, <1>1 DEF Shape, Reservation, HasSession, Sending
<1>7. Owned'
  BY <1>1, <1>2, <1>3 DEF Owned, BuffersKept
<1>8. InFlightExact'
  <2>1. {w \in outstanding' : w.gen = session'.gen} = {}
    BY <1>2
  <2>2. Cardinality({w \in outstanding' : w.gen = session'.gen}) = 0
    BY <2>1, FS_EmptySet
  <2>3. retiring' = {} /\ session'.send.inFlight \in Reserved'..MaxInFlight
    BY <1>0, <1>1, LimitsAssumption
  <2> QED BY <1>0, <1>1, <2>2, <2>3 DEF InFlightExact
<1>9. StreamEnd' /\ StreamIntact'
  BY <1>0, <1>1 DEF StreamEnd, StreamIntact
<1>10. Accounted' /\ OkMeansDelivered'
  BY <1>1 DEF Accounted, OkMeansDelivered, Sending
<1>11. LastToCome' /\ PumpNotLost'
  BY <1>1, <1>3 DEF LastToCome, PumpNotLost, Sending, B
<1> QED BY <1>4, <1>5, <1>6, <1>7, <1>8, <1>9, <1>10, <1>11

-----------------------------------------------------------------------------
(***************************************************************************)
(* A send begins; the caller's other steps                                 *)
(***************************************************************************)
LEMMA BeginIInv == ASSUME NEW t \in Threads, IInv, Begin(t) PROVE IInv'
<1> USE DEF IInv, Begin
<1>0. PICK n \in Sizes :
          /\ session' = [session EXCEPT !.send = [NoSend EXCEPT !.id = sends + 1, !.total = n]]
          /\ mine' = [mine EXCEPT ![t] = [gen |-> session.gen, id |-> sends + 1,
                                          total |-> n]]
  OBVIOUS
<1>1. n \in Nat /\ n > 0 /\ sends \in Nat /\ session \in Sessions
  BY SizesAssumption DEF TypeOK
<1> DEFINE new == FreshSend(sends + 1, n)
<1>2. /\ new \in Sends /\ session' = [session EXCEPT !.send = new]
      /\ new.id = sends + 1 /\ new.total = n /\ new.next = 0 /\ new.inFlight = 0
  <2>1. sends + 1 \in Nat
    BY <1>1
  <2>2. session' = [session EXCEPT !.send = new]
    BY <1>0 DEF FreshSend
  <2> HIDE DEF Begin, IInv
  <2> QED BY <1>1, <2>1, <2>2, FreshSendFields
<1>3. /\ session' \in Sessions /\ session'.gen = session.gen
      /\ session'.send.id = sends + 1 /\ session'.send.total = n
      /\ session'.send.next = 0 /\ session'.send.inFlight = 0
      /\ session'.failed = session.failed /\ session'.scheduled = session.scheduled
  <2> HIDE DEF new, Begin, IInv
  <2> QED BY <1>1, <1>2, SessionWithSend
<1>4. outstanding = {} /\ session.send.next = 0
  <2>1. HasSession /\ ~Sending
    OBVIOUS
  <2>2. session.send = NoSend
    BY <2>1 DEF Shape
  <2>3. session.send.inFlight = 0 /\ session.send.next = 0
    BY <2>2 DEF NoSend
  <2> HIDE DEF Begin
  <2> QED BY <2>1, <2>3, SessionOwns
<1>5. /\ mine' \in [Threads -> [gen : Nat, id : Nat, total : Nat]]
      /\ mine'[t] = [gen |-> session.gen, id |-> sends + 1, total |-> n]
      /\ \A u \in Threads : u # t => mine'[u] = mine[u] /\ pc'[u] = pc[u]
                                    /\ result'[u] = result[u]
  BY <1>0, <1>1 DEF TypeOK, Sessions
<1>6. /\ pc'[t] = "waiting" /\ result'[t] = "none"
      /\ turn' \in Turns /\ turn'.gen = session.gen
      /\ ~Calling /\ ~Calling' /\ Reserved' = 0
      /\ Accepted = session.send.next /\ Accepted' = session'.send.next
  <2>1. pc'[t] = "waiting" /\ result'[t] = "none"
    BY DEF TypeOK
  <2>2. session.gen \in Nat /\ turn' = NewTurn(session.gen) /\ Idle
    BY <1>1 DEF Sessions
  <2> HIDE DEF Begin, IInv
  <2> QED BY <2>1, <2>2, NewTurnType, IdleNotCalling DEF Calling, Reserved, Accepted
<1>7. TypeOK'
  <2>1. /\ pc' \in [Threads -> {"idle", "waiting", "timedOut"}]
        /\ result' \in [Threads -> {"none", "ok", "err"}]
    BY DEF TypeOK
  <2>2. UNCHANGED <<retiring, posted, stackVars, opens>> /\ sends' \in Nat
    BY <1>1
  <2>3. TypeOK
    OBVIOUS
  <2> HIDE DEF Begin, IInv
  <2> QED BY <1>3, <1>5, <1>6, <2>1, <2>2, <2>3 DEF TypeOK, stackVars
<1>8. Given'
  <2>1. session'.gen <= opens' /\ session'.send.id <= sends'
    BY <1>1, <1>3 DEF Given
  <2>2. UNCHANGED <<posted, alive, opens>> /\ sends' = sends + 1
    BY DEF stackVars
  <2>3. ASSUME NEW u \in Threads
        PROVE  mine'[u].id <= sends' /\ (pc'[u] # "idle" => mine'[u].gen # 0)
    <3>1. CASE u = t
      BY <1>1, <1>5, <2>2, <3>1 DEF HasSession
    <3>2. CASE u # t
      <4>1. mine[u].id <= sends /\ mine[u].id \in Nat /\ (pc[u] # "idle" => mine[u].gen # 0)
        BY DEF Given, TypeOK
      <4> HIDE DEF Begin, IInv
      <4> QED BY <1>1, <1>5, <2>2, <3>2, <4>1
    <3> QED BY <3>1, <3>2
  <2> QED BY <2>1, <2>2, <2>3 DEF Given
<1>9. Shape' /\ Reservation'
  BY <1>1, <1>3, <1>6 DEF Shape, Reservation, HasSession, Sending
<1>10. Owned'
  BY <1>3, <1>4 DEF Owned, BuffersKept, stackVars
<1>11. InFlightExact'
  <2>1. Cardinality({w \in outstanding' : w.gen = session'.gen}) = 0
    <3>1. {w \in outstanding' : w.gen = session'.gen} = {}
      BY <1>4 DEF stackVars
    <3> QED BY <3>1, FS_EmptySet
  <2>2. retiring' = {}
    BY SessionOwns
  <2>3. session'.send.inFlight = 0 /\ 0 \in Reserved'..MaxInFlight
    BY <1>3, <1>6, LimitsAssumption
  <2> QED BY <1>6, <2>1, <2>2, <2>3 DEF InFlightExact
<1>12. StreamEnd' /\ StreamIntact'
  BY <1>3, <1>4, <1>6 DEF StreamEnd, StreamIntact, stackVars, HasSession
<1>13. Accounted'
  <2>1. ASSUME NEW u \in Threads, mine'[u].id = sends + 1 PROVE mine'[u].total = n
    <3>1. CASE u = t
      BY <1>5, <3>1
    <3>2. CASE u # t
      BY <1>1, <1>5, <2>1, <3>2 DEF Given, TypeOK
    <3> QED BY <3>1, <3>2
  <2> QED BY <1>3, <1>6, <2>1 DEF Accounted
<1>14. OkMeansDelivered'
  BY <1>5, <1>6 DEF OkMeansDelivered, stackVars
<1>15. LastToCome' /\ PumpNotLost'
  BY <1>1, <1>3, <1>6 DEF LastToCome, PumpNotLost, Sending, HasSession
<1> QED BY <1>7, <1>8, <1>9, <1>10, <1>11, <1>12, <1>13, <1>14, <1>15

LEMMA WaitingIInv ==
    ASSUME NEW t \in Threads, IInv, Receive(t) \/ TimeOut(t)
    PROVE  IInv'
<1>1. /\ pc' \in [Threads -> {"idle", "waiting", "timedOut"}]
      /\ \A u \in Threads : pc'[u] # "idle" => pc[u] # "idle"
  BY DEF IInv, TypeOK, Receive, TimeOut
<1>2. UNCHANGED <<session, retiring, posted, turn, stackVars, mine, result, sends, opens>>
  BY DEF Receive, TimeOut, sessionVars
<1> QED BY <1>1, <1>2, PostedBlockGone

-----------------------------------------------------------------------------
(***************************************************************************)
(* A write is reserved, and accepted                                       *)
(***************************************************************************)
\* Reserving changes what the session says has been written, not what the stack has.
LEMMA PumpReservesIInv == IInv /\ PumpReserves => IInv'
<1> SUFFICES ASSUME IInv, PumpReserves PROVE IInv'
  OBVIOUS
<1> USE DEF IInv, PumpReserves
<1>0. /\ session \in Sessions /\ session.send \in Sends /\ session.gen = turn.gen
      /\ ~session.failed /\ Sending /\ HasSession /\ MaxInFlight \in Nat
      /\ session.send.inFlight < MaxInFlight /\ session.send.next < session.send.total
  BY LimitsAssumption DEF TypeOK, Shape, Sessions, Sends, PumpStops
<1>1. /\ session' \in Sessions /\ session'.gen = session.gen
      /\ session'.send.id = session.send.id /\ session'.send.total = session.send.total
      /\ session'.send.next = session.send.next + 1
      /\ session'.send.inFlight = session.send.inFlight + 1
      /\ session'.failed = session.failed /\ session'.scheduled = session.scheduled
  <2>1. session' = WithWrite(session)
    BY DEF WithWrite
  <2> HIDE DEF PumpReserves, IInv
  <2> QED BY <1>0, <2>1, WithWriteFields
<1>2. /\ turn' \in Turns /\ turn'.gen = turn.gen /\ turn'.left = turn.left /\ turn'.left > 0
      /\ turn'.id = session.send.id /\ turn'.offset = session.send.next
  <2>1. turn \in Turns
    BY DEF TypeOK
  <2> QED BY <1>0, <2>1 DEF Turns, Sends
<1>3. /\ Calling' /\ Reserved = 0 /\ Reserved' = 1
      /\ Accepted = session.send.next /\ Accepted' = session.send.next
  BY <1>0, <1>2 DEF Calling, Reserved, Accepted, Sending
<1>4. TypeOK'
  BY <1>1, <1>2 DEF TypeOK, stackVars, threadVars
<1>5. Quiet
  BY <1>1, <1>3 DEF Quiet, threadVars
<1>6. Shape' /\ Reservation'
  BY <1>0, <1>1, <1>2 DEF Shape, Reservation, HasSession, Sending, Sends
<1>7. InFlightExact'
  <2>1. session.send.inFlight + 1 \in 1..MaxInFlight
    BY <1>0 DEF Sends
  <2>2. UNCHANGED <<retiring, alive, outstanding>>
    BY DEF stackVars
  <2>3. Cardinality({w \in outstanding : w.gen = session.gen}) \in Nat
    BY FS_Subset, FS_CardinalityType DEF TypeOK
  <2>4. InFlightExact
    OBVIOUS
  <2> HIDE DEF IInv, PumpReserves
  <2> QED BY <1>1, <1>3, <2>1, <2>2, <2>3, <2>4 DEF InFlightExact
<1>8. LastToCome'
  BY <1>0, <1>1 DEF LastToCome, Sends
<1>9. PumpNotLost'
  BY <1>0, <1>1, <1>2 DEF PumpNotLost, Sending, HasSession
<1> QED BY <1>4, <1>5, <1>6, <1>7, <1>8, <1>9, QuietKeeps

LEMMA PumpWritesIInv == IInv /\ PumpWrites => IInv'
<1> SUFFICES ASSUME IInv, PumpWrites PROVE IInv'
  OBVIOUS
<1> USE DEF IInv, PumpWrites
<1> DEFINE id    == session.send.id
           chunk == turn.offset + 1
           total == session.send.total
           write == [gen |-> session.gen, id |-> id, chunk |-> chunk]
           last  == [id |-> id, chunk |-> chunk, total |-> total]
<1>0. /\ session \in Sessions /\ session.send \in Sends /\ session.gen = turn.gen
      /\ turn.id = id /\ Sending /\ HasSession /\ session.gen \in alive
      /\ session.send.next = chunk /\ turn.offset \in Nat /\ turn.left \in Nat \ {0}
      /\ Accepted = turn.offset /\ Reserved = 1
  BY DEF TypeOK, Turns, Sessions, Reservation, Calling, Sending, Accepted, Reserved
<1>1. /\ outstanding' = outstanding \cup {write}
      /\ wire' = Append(wire, last)
      /\ session' = session
  BY <1>0
<1>4. write \in Writes /\ last \in Chunks /\ chunk \in Nat /\ chunk > turn.offset
  BY <1>0 DEF Sessions, Sends, Writes, Chunks
<1>5. /\ turn' \in Turns /\ turn'.gen = turn.gen /\ ~Calling' /\ Reserved' = 0
      /\ Accepted' = chunk
  <2>1. turn \in Turns
    BY DEF TypeOK
  <2>2. PICK left \in {turn.left - 1, 0} :
            turn' = [turn EXCEPT !.left = left, !.id = 0, !.offset = 0]
    OBVIOUS
  <2>3. left \in Nat
    BY <1>0, <2>2
  <2>4. turn' \in Turns /\ turn'.gen = turn.gen /\ turn'.id = 0
    BY <2>1, <2>2, <2>3 DEF Turns
  <2> QED BY <1>0, <1>1, <2>4 DEF Calling, Reserved, Accepted
<1>6. TypeOK'
  <2>1. outstanding' \subseteq Writes /\ IsFiniteSet(outstanding')
    <3>1. outstanding \subseteq Writes /\ IsFiniteSet(outstanding)
      BY DEF TypeOK
    <3> HIDE DEF IInv, PumpWrites, write
    <3> QED BY <1>1, <1>4, <3>1, FS_AddElement
  <2>2. wire' \in Seq(Chunks)
    BY <1>1, <1>4, AppendProperties DEF TypeOK
  <2> QED BY <1>5, <2>1, <2>2 DEF TypeOK, threadVars
<1>7. Given' /\ Shape' /\ Reservation'
  BY <1>0, <1>5 DEF Given, Shape, Reservation, HasSession, Sending, threadVars
<1>8. write \notin outstanding /\ \A w \in outstanding : w.gen = session.gen /\ w.id = id
  <2>1. ASSUME write \in outstanding PROVE FALSE
    BY <1>0, <1>4, <2>1 DEF Owned
  <2> QED BY <1>0, <2>1, SessionOwns
<1>9. Owned'
  <2>1. \A w \in outstanding' : w.gen = session.gen /\ w.id = id /\ w.chunk <= chunk
    <3> SUFFICES ASSUME NEW w \in outstanding'
                 PROVE  w.gen = session.gen /\ w.id = id /\ w.chunk <= chunk
      OBVIOUS
    <3>1. CASE w = write
      BY <1>4, <3>1
    <3>2. CASE w \in outstanding
      <4>1. w.gen = session.gen /\ w.id = id
        BY <1>8, <3>2
      <4>2. w.chunk <= turn.offset /\ w.chunk \in Nat
        BY <1>0, <3>2, <4>1 DEF Owned, TypeOK, Writes
      <4> QED BY <1>0, <4>1, <4>2
    <3> QED BY <1>1, <3>1, <3>2
  <2>2. BuffersKept'
    BY <1>1, <2>1 DEF BuffersKept
  <2> QED BY <1>0, <1>5, <2>1, <2>2 DEF Owned
<1>10. InFlightExact'
  <2>1. /\ {w \in outstanding' : w.gen = session.gen} = outstanding'
        /\ {w \in outstanding : w.gen = session.gen} = outstanding
    BY <1>1, <1>8
  <2>2. /\ Cardinality(outstanding') = Cardinality(outstanding) + 1
        /\ Cardinality(outstanding) \in Nat
    <3>1. IsFiniteSet(outstanding)
      BY DEF TypeOK
    <3> HIDE DEF IInv, PumpWrites, write
    <3> QED BY <1>1, <1>8, <3>1, FS_AddElement, FS_CardinalityType
  <2>3. session.send.inFlight = Cardinality(outstanding) + 1
    BY <1>0, <2>1 DEF InFlightExact
  <2>4. retiring' = {}
    BY <1>0, SessionOwns
  <2>5. session.send.inFlight \in 0..MaxInFlight
    BY <1>0, LimitsAssumption DEF InFlightExact
  <2>6. session.send.inFlight = Cardinality(outstanding') + 0
    BY <2>2, <2>3
  <2> HIDE DEF IInv, PumpWrites
  <2> QED BY <1>1, <1>5, <2>1, <2>4, <2>5, <2>6 DEF InFlightExact
<1>11. /\ wire \in Seq(Chunks) /\ Len(wire') = Len(wire) + 1 /\ wire'[Len(wire')] = last
       /\ Len(wire) \in Nat /\ \A i \in 1..Len(wire) : wire'[i] = wire[i]
  BY <1>1, <1>4, AppendProperties, LenProperties DEF TypeOK
<1>12. StreamEnd'
  BY <1>0, <1>1, <1>4, <1>5, <1>11 DEF StreamEnd
<1>13. StreamIntact'
  <2> SUFFICES ASSUME NEW i \in 1..Len(wire')
               PROVE  IF wire'[i].chunk = 1
                      THEN i > 1 => wire'[i - 1].chunk = wire'[i - 1].total
                      ELSE /\ i > 1
                           /\ wire'[i - 1].id = wire'[i].id
                           /\ wire'[i].chunk = wire'[i - 1].chunk + 1
    BY DEF StreamIntact
  <2>1. CASE i <= Len(wire)
    <3>1. wire'[i] = wire[i] /\ (i > 1 => wire'[i - 1] = wire[i - 1])
      BY <1>11, <2>1
    <3> QED BY <1>11, <2>1, <3>1 DEF StreamIntact
  <2>2. CASE i = Len(wire) + 1
    <3>1. wire'[i] = last /\ (i > 1 => wire'[i - 1] = wire[Len(wire)])
      BY <1>11, <2>2
    <3>2. CASE turn.offset = 0
      BY <1>0, <1>11, <2>2, <3>1, <3>2 DEF StreamEnd
    <3>3. CASE turn.offset > 0
      BY <1>0, <1>11, <2>2, <3>1, <3>3 DEF StreamEnd
    <3> QED BY <1>0, <3>2, <3>3
  <2> QED BY <1>11, <2>1, <2>2
<1>14. Accounted' /\ OkMeansDelivered'
  <2>1. \A k \in 1..chunk : k \in 1..turn.offset \/ k = chunk
    BY <1>0
  <2> QED BY <1>0, <1>1, <1>5, <2>1 DEF Accounted, OkMeansDelivered, threadVars, Sending
<1>15. LastToCome' /\ PumpNotLost'
  BY <1>0, <1>5 DEF LastToCome, PumpNotLost, Sending, HasSession
<1> QED BY <1>6, <1>7, <1>9, <1>10, <1>12, <1>13, <1>14, <1>15

-----------------------------------------------------------------------------
(***************************************************************************)
(* A write completes                                                       *)
(***************************************************************************)
LEMMA OneFewerFields ==
    ASSUME session \in Sessions
    PROVE  /\ OneFewer \in Sessions /\ OneFewer.gen = session.gen
           /\ OneFewer.failed = session.failed /\ OneFewer.scheduled = session.scheduled
           /\ OneFewer.send.id = session.send.id /\ OneFewer.send.total = session.send.total
           /\ OneFewer.send.next = session.send.next
           /\ OneFewer.send.inFlight = Less(session.send.inFlight)
  BY DEF OneFewer, Sessions, Sends, Less

\* The write is one of the session, and in_flight is how many there are, or of the
\* session that retired.
LEMMA WriteIsKnown ==
    ASSUME IInv, NEW w \in outstanding
    PROVE  /\ w \in Writes /\ w.gen \in alive /\ w.gen # 0 /\ w.gen <= opens
           /\ IsRetired(w.gen) =>
                /\ ~HasSession
                /\ \E r \in retiring : /\ retiring = {r} /\ r.gen = w.gen /\ r.id = w.id
                                      /\ r.inFlight = Cardinality(Own(w.gen))
           /\ ~IsRetired(w.gen) =>
                /\ session.gen = w.gen /\ session.send.id = w.id /\ HasSession
                /\ session.send.inFlight = Cardinality(Own(w.gen)) + Reserved
<1> USE DEF IInv
<1>1. w \in Writes /\ w.gen \in alive /\ w.gen # 0 /\ w.gen <= opens
  BY DEF Owned, TypeOK, Given
<1>2. ASSUME IsRetired(w.gen)
      PROVE  /\ ~HasSession
             /\ \E r \in retiring : /\ retiring = {r} /\ r.gen = w.gen /\ r.id = w.id
                                   /\ r.inFlight = Cardinality(Own(w.gen))
  <2>1. PICK r \in retiring : r.gen = w.gen
    BY <1>2 DEF IsRetired
  <2>2. ~HasSession /\ retiring = {r}
    BY DEF Shape
  <2>3. r.id = w.id
    BY <1>1, <2>2 DEF Owned, BuffersKept, HasSession
  <2>4. r.inFlight = Cardinality(Own(w.gen))
    BY <1>1, <2>1 DEF InFlightExact, Own
  <2> QED BY <2>1, <2>2, <2>3, <2>4
<1>3. ASSUME ~IsRetired(w.gen)
      PROVE  /\ session.gen = w.gen /\ session.send.id = w.id /\ HasSession
             /\ session.send.inFlight = Cardinality(Own(w.gen)) + Reserved
  <2>1. session.gen = w.gen /\ session.send.id = w.id
    BY <1>3 DEF Owned, BuffersKept, IsRetired
  <2> QED BY <1>1, <2>1 DEF HasSession, InFlightExact, Own
<1> QED BY <1>1, <1>2, <1>3

\* Of the writes of its generation there is one fewer.
LEMMA OwnWithout ==
    ASSUME IInv, NEW w \in outstanding, outstanding' = outstanding \ {w}
    PROVE  /\ IsFiniteSet(outstanding')
           /\ Cardinality(Own(w.gen)) \in Nat \ {0}
           /\ Cardinality({v \in outstanding' : v.gen = w.gen}) = Less(Cardinality(Own(w.gen)))
           /\ Less(Cardinality(Own(w.gen))) = 0 => \A v \in outstanding' : v.gen # w.gen
<1>1. IsFiniteSet(outstanding)
  BY DEF IInv, TypeOK
<1>2. IsFiniteSet(outstanding')
  BY <1>1, FS_RemoveElement
<1>3. IsFiniteSet(Own(w.gen)) /\ w \in Own(w.gen) /\ Cardinality(Own(w.gen)) \in Nat \ {0}
  BY <1>1, OwnFinite DEF Own
<1>4. {v \in outstanding' : v.gen = w.gen} = Own(w.gen) \ {w}
  BY DEF Own
<1>5. Cardinality(Own(w.gen) \ {w}) = Cardinality(Own(w.gen)) - 1
  BY <1>3, FS_RemoveElement
<1>6. Less(Cardinality(Own(w.gen))) = Cardinality(Own(w.gen)) - 1
  BY <1>3 DEF Less
<1>7. IsFiniteSet(Own(w.gen) \ {w})
  BY <1>3, FS_RemoveElement
<1>8. Less(Cardinality(Own(w.gen))) = 0 => Own(w.gen) \ {w} = {}
  BY <1>5, <1>6, <1>7, FS_EmptySet
<1> QED BY <1>2, <1>3, <1>4, <1>5, <1>6, <1>8

LEMMA RetiredWriteIInv ==
    ASSUME NEW w \in outstanding, NEW ok \in BOOLEAN, IInv, WriteComplete(w, ok),
           IsRetired(w.gen)
    PROVE  IInv'
<1> USE DEF IInv
<1>1. ~HasSession /\ w.gen \in alive /\ w.gen # 0 /\ w \in Writes
  BY WriteIsKnown
<1>2. PICK r \in retiring : /\ retiring = {r} /\ r.gen = w.gen /\ r.id = w.id
                            /\ r.inFlight = Cardinality(Own(w.gen))
  BY WriteIsKnown
<1> DEFINE less == [r EXCEPT !.inFlight = Less(@)]
<1>3. /\ outstanding' = outstanding \ {w}
      /\ acked' \subseteq acked \cup {[id |-> w.id, chunk |-> w.chunk]} /\ acked \subseteq acked'
      /\ UNCHANGED <<session, threadVars, turn, alive, wire, sends, opens>>
  BY DEF WriteComplete, RetiredWriteComplete
<1>4. /\ retiring' = {less}
      /\ posted' = IF LastWrite(r) THEN posted \cup {B("release", w.gen)} ELSE posted
  BY <1>2 DEF WriteComplete, RetiredWriteComplete
<1>5. /\ IsFiniteSet(outstanding')
      /\ Cardinality(Own(w.gen)) \in Nat
      /\ Cardinality({v \in outstanding' : v.gen = w.gen}) = Less(r.inFlight)
      /\ LastWrite(r) => \A v \in outstanding' : v.gen # w.gen
  BY <1>2, <1>3, OwnWithout DEF LastWrite
<1>0. ~Calling /\ ~Calling' /\ Reserved' = Reserved /\ Accepted' = Accepted
  BY <1>1, <1>3 DEF Reservation, Calling, Reserved, Accepted
<1>6. less \in Retirees /\ less.gen = w.gen /\ less.id = w.id /\ less.inFlight = Less(r.inFlight)
  <2>1. Less(r.inFlight) \in Nat /\ r \in Retirees
    BY <1>2, <1>5 DEF TypeOK, Less
  <2>2. less = [r EXCEPT !.inFlight = Less(r.inFlight)]
    OBVIOUS
  <2> HIDE DEF less, IInv
  <2> QED BY <1>2, <2>1, <2>2 DEF Retirees
<1>7. B("release", w.gen) \in Blocks /\ B("release", w.gen).gen = w.gen
      /\ B("release", w.gen).kind = "release"
  BY <1>1 DEF B, Blocks, TypeOK
<1> HIDE DEF less
<1>8. TypeOK'
  <2>1. posted' \subseteq Blocks
    BY <1>4, <1>7 DEF TypeOK
  <2>2. acked' \subseteq [id : Nat, chunk : Nat]
    BY <1>1, <1>3 DEF TypeOK, Writes
  <2>3. retiring' \subseteq Retirees /\ outstanding' \subseteq Writes
    BY <1>3, <1>4, <1>6 DEF TypeOK
  <2> QED BY <1>3, <1>5, <2>1, <2>2, <2>3 DEF TypeOK, threadVars
<1>9. Given' /\ Shape' /\ Reservation'
  <2>1. w.gen <= opens
    BY <1>1 DEF Given
  <2>2. Given'
    BY <1>3, <1>4, <1>7, <2>1 DEF Given, threadVars
  <2>3. Shape'
    BY <1>1, <1>3, <1>4 DEF Shape, HasSession, Sending
  <2>4. Reservation'
    BY <1>0 DEF Reservation
  <2> QED BY <2>2, <2>3, <2>4
<1>10. Owned'
  <2>1. BuffersKept'
    <3> SUFFICES ASSUME NEW v \in outstanding' PROVE \E q \in retiring' : q.gen = v.gen /\ q.id = v.id
      BY DEF BuffersKept
    <3>1. v.gen # 0 /\ v \in outstanding
      BY <1>3 DEF Owned, TypeOK
    <3>2. r.gen = v.gen /\ r.id = v.id
      BY <1>1, <1>2, <3>1 DEF Owned, BuffersKept, HasSession
    <3> QED BY <1>2, <1>4, <1>6, <3>2
  <2>2. \A b \in posted' : b \in posted \/ (b = B("release", w.gen) /\ LastWrite(r))
    BY <1>4
  <2>3. \A b \in posted' : b.kind = "closed" => b.gen \notin alive'
    BY <1>3, <1>7, <2>2 DEF Owned
  <2>4. \A b \in posted' : b.kind = "release" =>
            b.gen # session'.gen /\ \A v \in outstanding' : v.gen # b.gen
    BY <1>1, <1>3, <1>5, <1>7, <2>2 DEF Owned, HasSession
  <2>5. \A v \in outstanding' : v.gen \in alive' /\ (v.gen = session'.gen => v.chunk <= Accepted')
    BY <1>0, <1>3 DEF Owned
  <2> QED BY <2>1, <2>3, <2>4, <2>5 DEF Owned
<1>11. InFlightExact'
  <2>1. session' = session /\ session.gen = 0 /\ 0 \notin alive'
    BY <1>1, <1>3 DEF HasSession, TypeOK
  <2>2. session'.send.inFlight \in Reserved'..MaxInFlight
    BY <1>0, <2>1 DEF InFlightExact
  <2>3. \A q \in retiring' :
            q.inFlight = Cardinality({v \in outstanding' : v.gen = q.gen})
    BY <1>4, <1>5, <1>6
  <2> HIDE DEF IInv
  <2> QED BY <2>1, <2>2, <2>3 DEF InFlightExact
<1>12. StreamEnd' /\ StreamIntact'
  BY <1>0, <1>3 DEF StreamEnd, StreamIntact, HasSession
<1>13. Accounted' /\ OkMeansDelivered'
  BY <1>1, <1>3 DEF Accounted, OkMeansDelivered, threadVars, Sending, Shape, HasSession
<1>14. LastToCome' /\ PumpNotLost'
  BY <1>3, <1>4 DEF LastToCome, PumpNotLost, Sending, HasSession, B
<1> QED BY <1>8, <1>9, <1>10, <1>11, <1>12, <1>13, <1>14

\* A completion that leaves the send pending.
LEMMA PendingWriteIInv ==
    ASSUME NEW w \in outstanding, NEW ok \in BOOLEAN, IInv, WriteComplete(w, ok),
           ~IsRetired(w.gen),
           session' \in Sessions, posted' \subseteq Blocks,
           session'.gen = session.gen, session'.send = OneFewer.send,
           session.failed \/ ~ok => session'.failed,
           \A b \in posted' : b \in posted \/ (b.kind \in {"pump", "fail"} /\ b.gen = session.gen),
           UNCHANGED <<retiring, threadVars>>,
           session'.failed \/ ~AllDone,
           PumpNotLost'
    PROVE  IInv'
<1> USE DEF IInv
<1>1. /\ w \in Writes /\ w.gen \in alive /\ w.gen # 0
      /\ session.gen = w.gen /\ session.send.id = w.id /\ HasSession
      /\ session.send.inFlight = Cardinality(Own(w.gen)) + Reserved
  BY WriteIsKnown
<1>2. /\ outstanding' = outstanding \ {w}
      /\ acked' = IF ok THEN acked \cup {[id |-> w.id, chunk |-> w.chunk]} ELSE acked
      /\ UNCHANGED <<turn, alive, wire, sends, opens>>
  BY DEF WriteComplete
<1>3. /\ session'.send.id = session.send.id /\ session'.send.total = session.send.total
      /\ session'.send.next = session.send.next
      /\ session'.send.inFlight = Less(session.send.inFlight)
      /\ session.send.inFlight \in Nat
  BY OneFewerFields DEF TypeOK, Sessions, Sends
<1>4. /\ IsFiniteSet(outstanding') /\ session.send.inFlight # 0
      /\ Less(session.send.inFlight) =
             Cardinality({v \in outstanding' : v.gen = w.gen}) + Reserved
      /\ Less(session.send.inFlight) \in Reserved..MaxInFlight
  <2>1. /\ IsFiniteSet(outstanding') /\ Cardinality(Own(w.gen)) \in Nat \ {0}
        /\ Cardinality({v \in outstanding' : v.gen = w.gen}) = Less(Cardinality(Own(w.gen)))
    BY <1>2, OwnWithout
  <2>2. Reserved \in {0, 1} /\ session.send.inFlight \in Reserved..MaxInFlight
    BY DEF Reserved, InFlightExact
  <2> QED BY <1>1, <2>1, <2>2, LimitsAssumption DEF Less
<1>0. Calling' = Calling /\ Reserved' = Reserved /\ Accepted' = Accepted
  BY <1>2, <1>3 DEF Calling, Reserved, Accepted
<1>5. TypeOK'
  <2>1. acked' \subseteq [id : Nat, chunk : Nat]
    BY <1>1, <1>2 DEF TypeOK, Writes
  <2> QED BY <1>2, <1>4, <2>1 DEF TypeOK, threadVars
<1>6. Given'
  BY <1>2, <1>3 DEF Given, threadVars, TypeOK, Blocks
<1>7. Shape' /\ Reservation' /\ Sending
  <2>1. Sending
    BY <1>4 DEF Shape, NoSend
  <2>2. Shape'
    BY <1>1, <1>3, <2>1 DEF Shape, HasSession, Sending
  <2>3. Reservation'
    BY <1>0, <1>2, <1>3 DEF Reservation, HasSession
  <2> QED BY <2>1, <2>2, <2>3
<1>8. Owned'
  BY <1>0, <1>1, <1>2, <1>3 DEF Owned, BuffersKept
<1>9. InFlightExact'
  <2>1. retiring' = {}
    BY <1>1 DEF Shape
  <2> QED BY <1>0, <1>1, <1>3, <1>4, <2>1 DEF InFlightExact
<1>10. StreamEnd' /\ StreamIntact'
  BY <1>0, <1>2, <1>3 DEF StreamEnd, StreamIntact, HasSession
<1>11. Accounted'
  <2>1. ASSUME ~session'.failed, NEW k \in 1..Accepted
        PROVE  \/ [id |-> session.send.id, chunk |-> k] \in acked'
               \/ [gen |-> session.gen, id |-> session.send.id, chunk |-> k] \in outstanding'
    <3>1. ok /\ ~session.failed
      BY <2>1
    <3>2. \/ [id |-> session.send.id, chunk |-> k] \in acked
          \/ [gen |-> session.gen, id |-> session.send.id, chunk |-> k] \in outstanding
      BY <1>1, <1>7, <3>1 DEF Accounted
    <3> QED BY <1>1, <1>2, <3>1, <3>2
  <2> QED BY <1>0, <1>2, <1>3, <2>1 DEF Accounted, threadVars, Sending
<1>12. OkMeansDelivered'
  BY <1>2 DEF OkMeansDelivered, threadVars
<1>13. LastToCome'
  BY <1>3, OneFewerFields DEF LastToCome, Sending, AllDone, TypeOK, Less
<1> QED BY <1>5, <1>6, <1>7, <1>8, <1>9, <1>10, <1>11, <1>12, <1>13

\* The completion that ends the send: nothing of it is outstanding any more, so each of
\* its chunks has completed.
LEMMA LastWriteIInv ==
    ASSUME NEW w \in outstanding, IInv, WriteComplete(w, TRUE),
           ~IsRetired(w.gen), ~session.failed, AllDone,
           session' = [session EXCEPT !.send = NoSend],
           result' = Notify(session.send.id, "ok"),
           UNCHANGED <<posted, retiring, pc, mine>>
    PROVE  IInv'
<1> USE DEF IInv
<1>1. /\ w \in Writes /\ w.gen \in alive
      /\ session.gen = w.gen /\ session.send.id = w.id /\ HasSession
      /\ session.send.inFlight = Cardinality(Own(w.gen)) + Reserved
  BY WriteIsKnown
<1>2. /\ outstanding' = outstanding \ {w}
      /\ acked' = acked \cup {[id |-> w.id, chunk |-> w.chunk]}
      /\ UNCHANGED <<turn, alive, wire, sends, opens>>
  BY DEF WriteComplete
<1>3. session.send.next = session.send.total /\ Less(session.send.inFlight) = 0
  BY OneFewerFields DEF AllDone, TypeOK
<1>4. /\ ~Calling /\ ~Calling' /\ Reserved' = 0
      /\ Accepted = session.send.next /\ Accepted' = session'.send.next
      /\ session.send.inFlight # 0 /\ Less(Cardinality(Own(w.gen))) = 0
  <2>1. Cardinality(Own(w.gen)) \in Nat \ {0}
    BY <1>2, OwnWithout
  <2>2. ~Calling /\ session.send.inFlight = Cardinality(Own(w.gen))
    BY <1>1, <1>3, <2>1 DEF Reserved, Less
  <2>3. turn' = turn
    BY <1>2
  <2> QED BY <1>3, <2>1, <2>2, <2>3 DEF Calling, Reserved, Accepted
<1>5. retiring = {} /\ outstanding' = {} /\ Sending
  <2>1. Sending
    BY <1>4 DEF Shape, NoSend
  <2> QED BY <1>1, <1>2, <1>4, <2>1, OwnWithout, SessionOwns
<1>6. /\ session' \in Sessions /\ session'.gen = session.gen /\ session'.send = NoSend
      /\ session'.failed = session.failed /\ session'.scheduled = session.scheduled
      /\ NoSend.id = 0 /\ NoSend.next = 0 /\ NoSend.inFlight = 0
  <2>1. NoSend \in Sends /\ NoSend.id = 0 /\ NoSend.next = 0 /\ NoSend.inFlight = 0
    BY DEF NoSend, Sends
  <2>2. session \in Sessions
    BY DEF TypeOK
  <2> QED BY <2>1, <2>2, SessionWithSend
<1>7. /\ result' \in [Threads -> {"none", "ok", "err"}]
      /\ \A t \in Threads : result'[t] = result[t] \/ mine[t].id = session.send.id
  BY NotifyEffect
<1>8. TypeOK'
  <2>1. acked' \subseteq [id : Nat, chunk : Nat]
    BY <1>1, <1>2 DEF TypeOK, Writes
  <2>2. IsFiniteSet(outstanding')
    BY <1>5, FS_EmptySet
  <2> QED BY <1>2, <1>5, <1>6, <1>7, <2>1, <2>2 DEF TypeOK
<1>9. Given'
  BY <1>2, <1>6 DEF Given, TypeOK
<1>10. Shape' /\ Reservation'
  BY <1>4, <1>5, <1>6 DEF Shape, Reservation, HasSession, Sending
<1>11. Owned'
  BY <1>2, <1>5, <1>6 DEF Owned, BuffersKept
<1>12. InFlightExact'
  <2>1. Cardinality({v \in outstanding' : v.gen = session'.gen}) = 0
    <3>1. {v \in outstanding' : v.gen = session'.gen} = {}
      BY <1>5
    <3> QED BY <3>1, FS_EmptySet
  <2>2. retiring' = {} /\ 0 \in Reserved'..MaxInFlight
    BY <1>4, <1>5, LimitsAssumption
  <2> QED BY <1>4, <1>6, <2>1, <2>2 DEF InFlightExact
<1>13. StreamEnd' /\ StreamIntact'
  BY <1>1, <1>2, <1>3, <1>4, <1>5, <1>6 DEF StreamEnd, StreamIntact, Shape
<1>14. Accounted'
  BY <1>6 DEF Accounted, Sending
<1>15. OkMeansDelivered'
  <2>1. ASSUME NEW k \in 1..session.send.total
        PROVE  [id |-> session.send.id, chunk |-> k] \in acked'
    <3>1. \/ [id |-> session.send.id, chunk |-> k] \in acked
          \/ [gen |-> session.gen, id |-> session.send.id, chunk |-> k] \in outstanding
      BY <1>1, <1>3, <1>4, <1>5 DEF Accounted
    <3>2. CASE [gen |-> session.gen, id |-> session.send.id, chunk |-> k] \in outstanding
      BY <1>2, <1>5, <3>2
    <3> QED BY <1>2, <3>1, <3>2
  <2>2. ASSUME NEW t \in Threads, result'[t] = "ok", NEW k \in 1..mine'[t].total
        PROVE  [id |-> mine'[t].id, chunk |-> k] \in acked'
    <3>1. CASE result'[t] = result[t]
      BY <1>2, <2>2, <3>1 DEF OkMeansDelivered
    <3>2. CASE mine[t].id = session.send.id
      BY <1>5, <2>1, <2>2, <3>2 DEF Accounted
    <3> QED BY <1>7, <3>1, <3>2
  <2> QED BY <2>2 DEF OkMeansDelivered
<1>16. LastToCome' /\ PumpNotLost'
  BY <1>6 DEF LastToCome, PumpNotLost, Sending, HasSession
<1> QED BY <1>8, <1>9, <1>10, <1>11, <1>12, <1>13, <1>14, <1>15, <1>16

LEMMA WriteCompleteIInv ==
    ASSUME NEW w \in outstanding, NEW ok \in BOOLEAN, IInv, WriteComplete(w, ok)
    PROVE  IInv'
<1>1. CASE IsRetired(w.gen)
  BY <1>1, RetiredWriteIInv
<1>2. CASE ~IsRetired(w.gen)
  <2>1. /\ session.gen = w.gen /\ session.send.id = w.id /\ session.gen # 0
        /\ session \in Sessions /\ posted \subseteq Blocks
    BY <1>2, WriteIsKnown DEF IInv, TypeOK
  <2>2. SessionWriteComplete(ok)
    BY <1>2, <2>1 DEF WriteComplete
  <2>3. /\ OneFewer \in Sessions /\ OneFewer.gen = session.gen
        /\ OneFewer.failed = session.failed /\ OneFewer.scheduled = session.scheduled
    BY <2>1, OneFewerFields
  <2>4. /\ OneFewer.scheduled <=> B("pump", OneFewer.gen) \in posted
        /\ OneFewer.failed => B("fail", OneFewer.gen) \in posted
    BY <2>1, <2>3 DEF IInv, PumpNotLost, HasSession
  <2>5. UNCHANGED <<retiring, pc, mine>>
    BY <2>2 DEF SessionWriteComplete
  <2>6. CASE ~session.failed /\ ok /\ AllDone
    BY <1>2, <2>2, <2>5, <2>6, LastWriteIInv DEF SessionWriteComplete
  <2>7. CASE ~session.failed /\ ok /\ ~AllDone
    <3>1. SchedulePump(OneFewer, {}) /\ UNCHANGED result
      BY <2>2, <2>7 DEF SessionWriteComplete
    <3>2. /\ session' \in Sessions /\ posted' \subseteq Blocks
          /\ session'.gen = session.gen /\ session'.send = OneFewer.send
          /\ posted' = posted \cup (IF MayPump(OneFewer) THEN {B("pump", session.gen)} ELSE {})
      BY <2>1, <2>3, <3>1, SchedulePumpEffect
    <3>3. PumpNotLost'
      BY <2>1, <2>3, <2>4, <3>1, ScheduledNotLost
    <3>4. \A b \in posted' :
             b \in posted \/ (b.kind \in {"pump", "fail"} /\ b.gen = session.gen)
      BY <3>2 DEF B
    <3>5. (session.failed \/ ~ok => session'.failed) /\ (session'.failed \/ ~AllDone)
      BY <2>7
    <3>6. UNCHANGED <<retiring, threadVars>>
      BY <2>5, <3>1 DEF threadVars
    <3> QED BY <1>2, <3>2, <3>3, <3>4, <3>5, <3>6, PendingWriteIInv
  <2>8. CASE ~session.failed /\ ~ok
    <3>1. FailLater(OneFewer, {}) /\ UNCHANGED result
      BY <2>2, <2>8 DEF SessionWriteComplete
    <3>2. /\ session' \in Sessions /\ posted' \subseteq Blocks
          /\ session'.gen = session.gen /\ session'.send = OneFewer.send
          /\ session'.failed
          /\ posted' = posted \cup (IF OneFewer.failed THEN {} ELSE {B("fail", session.gen)})
      BY <2>1, <2>3, <3>1, FailLaterEffect
    <3>3. PumpNotLost'
      BY <2>1, <2>3, <2>4, <3>1, FailedNotLost
    <3> QED BY <1>2, <2>5, <2>8, <3>1, <3>2, <3>3, PendingWriteIInv DEF B, threadVars
  <2>9. CASE session.failed
    <3>1. session' = OneFewer /\ UNCHANGED <<posted, result>>
      BY <2>2, <2>9 DEF SessionWriteComplete
    <3>2. PumpNotLost'
      BY <2>1, <2>3, <2>4, <2>9, <3>1 DEF PumpNotLost, HasSession
    <3> QED BY <1>2, <2>1, <2>3, <2>5, <2>9, <3>1, <3>2, PendingWriteIInv DEF threadVars
  <2> QED BY <2>6, <2>7, <2>8, <2>9
<1> QED BY <1>1, <1>2

-----------------------------------------------------------------------------
(***************************************************************************)
(* The theorems                                                            *)
(***************************************************************************)
LEMMA InitIInv == Init => IInv
<1> SUFFICES ASSUME Init PROVE IInv
  OBVIOUS
<1> USE DEF Init
<1>1. /\ session.gen = 0 /\ session.send = NoSend /\ session.send.id = 0
      /\ session.send.next = 0 /\ session.send.inFlight = 0
      /\ ~session.failed /\ ~session.scheduled
  BY DEF NoSession, NoSend
<1>0. ~Calling /\ Reserved = 0 /\ Accepted = session.send.next
  BY DEF Calling, Reserved, Accepted, NoTurn
<1>2. TypeOK
  <2>1. session \in Sessions
    BY DEF NoSession, NoSend, Sessions, Sends
  <2>2. turn \in Turns /\ mine \in [Threads -> [gen : Nat, id : Nat, total : Nat]]
    BY DEF Turns, NoTurn, NoWork
  <2>3. IsFiniteSet(outstanding) /\ wire \in Seq(Chunks)
    BY FS_EmptySet, EmptySeq
  <2> QED BY <2>1, <2>2, <2>3 DEF TypeOK
<1>3. Given /\ Shape /\ Reservation /\ Owned
  BY <1>0, <1>1 DEF Given, Shape, Reservation, Owned, BuffersKept, HasSession, Sending, NoWork
<1>4. InFlightExact /\ StreamEnd /\ StreamIntact
  BY <1>0, <1>1, LimitsAssumption, EmptySeq DEF InFlightExact, StreamEnd, StreamIntact, HasSession
<1>5. Accounted /\ OkMeansDelivered /\ LastToCome /\ PumpNotLost
  BY <1>1 DEF Accounted, OkMeansDelivered, LastToCome, PumpNotLost, HasSession, Sending
<1> QED BY <1>2, <1>3, <1>4, <1>5 DEF IInv

LEMMA NextIInv == IInv /\ [Next]_vars => IInv'
<1> SUFFICES ASSUME IInv, [Next]_vars PROVE IInv'
  OBVIOUS
<1>1. CASE Open
  BY <1>1, OpenIInv
<1>2. CASE PumpStep
  BY <1>2, PumpReturnsIInv, PumpReservesIInv, PumpWritesIInv, PumpBusyIInv, PumpFailsIInv,
     PumpYieldsIInv DEF PumpStep
<1>3. CASE RunBlock
  BY <1>3, RunPumpIInv, RunFailIInv, RunClosedIInv, RunReleaseIInv DEF RunBlock
<1>4. CASE Stack
  <2>1. CASE QueueSpace
    BY <2>1, ScheduleIInv DEF QueueSpace
  <2> QED BY <1>4, <2>1, WriteCompleteIInv, ChannelClosedIInv DEF Stack
<1>5. CASE Callers
  BY <1>5, DisconnectIInv, BeginIInv, WaitingIInv, AbortIInv DEF Callers
<1>6. CASE UNCHANGED vars
  <2>1. pc' \in [Threads -> {"idle", "waiting", "timedOut"}]
    BY <1>6 DEF vars, threadVars, IInv, TypeOK
  <2> QED BY <1>6, <2>1, PostedBlockGone DEF vars, sessionVars, threadVars
<1> QED BY <1>1, <1>2, <1>3, <1>4, <1>5, <1>6 DEF Next

THEOREM Invariance == Spec => []IInv
  BY InitIInv, NextIInv, PTL DEF Spec

\* The stream of a session is whole payloads, each once and in order; only the last may
\* be cut.
THEOREM StreamStaysIntact == Spec => []StreamIntact
<1>1. IInv => StreamIntact
  BY DEF IInv
<1> QED BY Invariance, <1>1, PTL

\* send() answers Ok only for a payload of which every write completed.
THEOREM OkIsDelivered == Spec => []OkMeansDelivered
<1>1. IInv => OkMeansDelivered
  BY DEF IInv
<1> QED BY Invariance, <1>1, PTL

\* in_flight is the number of writes the stack owns and of the reservation of a write
\* being made, never more than the limit, and taking the reservation back finds it there.
THEOREM InFlightIsExact == Spec => []InFlightExact
<1>1. IInv => InFlightExact
  BY DEF IInv
<1> QED BY Invariance, <1>1, PTL

\* A payload is kept as long as the stack owns a buffer in it.
THEOREM BuffersAreKept == Spec => []BuffersKept
<1>1. IInv => BuffersKept
  BY DEF IInv, Owned
<1> QED BY Invariance, <1>1, PTL

\* A pending send of a healthy session has a turn, a posted turn or a write to wait for.
THEOREM PumpIsNotLost == Spec => []PumpNotLost
<1>1. IInv => PumpNotLost
  BY DEF IInv
<1> QED BY Invariance, <1>1, PTL

-----------------------------------------------------------------------------
(***************************************************************************)
(* The abstract stream of payloads                                         *)
(***************************************************************************)
\* A chunk is acknowledged once, after it was written, while its number is known.
Acked ==
    /\ \A w \in outstanding : /\ w.id \in 1..sends /\ w.chunk # 0
                              /\ [id |-> w.id, chunk |-> w.chunk] \notin acked
    /\ \A a \in acked : /\ a.id \in 1..sends
                        /\ a.id = session.send.id => a.chunk \in 1..Accepted

\* The caller of the pending send is inside send_impl and not answered yet.
Asked ==
    \A t \in Threads : pc[t] # "idle" =>
        /\ mine[t].id # 0
        /\ mine[t].id = session.send.id => mine[t].gen = session.gen /\ result[t] = "none"

AInv == IInv /\ Acked /\ Asked

StreamStep == [Payload!StreamNext]_(Payload!streamVars)

\* What a step has to show.
Good == Acked' /\ Asked' /\ StreamStep

LEMMA NoSendNoJob ==
    /\ Reservation /\ session.send = NoSend => Job = Payload!NoJob
    /\ ~Calling' /\ session'.send = NoSend => Job' = Payload!NoJob
<1>1. Reservation /\ session.send = NoSend => Job = Payload!NoJob
  <2> SUFFICES ASSUME Reservation, session.send = NoSend PROVE Job = Payload!NoJob
    OBVIOUS
  <2>1. session.send.id = 0 /\ session.send.total = 0 /\ session.send.next = 0
    BY DEF NoSend
  <2>2. ~Calling
    BY <2>1 DEF Reservation, Calling
  <2>3. Accepted = 0 /\ Confirmed = {} /\ Reserved = 0
    BY <2>1, <2>2 DEF Accepted, Confirmed, Reserved
  <2> QED BY <2>1, <2>2, <2>3 DEF Job, Payload!NoJob
<1>2. ~Calling' /\ session'.send = NoSend => Job' = Payload!NoJob
  <2> SUFFICES ASSUME ~Calling', session'.send = NoSend PROVE Job' = Payload!NoJob
    OBVIOUS
  <2>1. session'.send.id = 0 /\ session'.send.total = 0 /\ session'.send.next = 0
    BY DEF NoSend
  <2>2. Accepted' = 0 /\ Confirmed' = {} /\ Reserved' = 0
    BY <2>1 DEF Accepted, Confirmed, Reserved
  <2> QED BY <2>1, <2>2 DEF Job, Payload!NoJob
<1> QED BY <1>1, <1>2

\* The job as a record, and one that differs in some of its fields.
LEMMA JobExcept ==
    ASSUME NEW w2, NEW o2
    PROVE  /\ [Job EXCEPT !.offered = o2] =
                  [id |-> session.send.id, size |-> session.send.total,
                   written |-> Accepted, offered |-> o2, confirmed |-> Confirmed]
           /\ [Job EXCEPT !.written = w2, !.offered = o2] =
                  [id |-> session.send.id, size |-> session.send.total,
                   written |-> w2, offered |-> o2, confirmed |-> Confirmed]
<1>1. Job = [id |-> session.send.id, size |-> session.send.total, written |-> Accepted,
             offered |-> Reserved, confirmed |-> Confirmed]
  BY DEF Job
<1>2. [Job EXCEPT !.offered = o2] =
          [id |-> session.send.id, size |-> session.send.total,
           written |-> Accepted, offered |-> o2, confirmed |-> Confirmed]
  BY <1>1
<1> DEFINE k == [Job EXCEPT !.written = w2]
<1>3. k = [id |-> session.send.id, size |-> session.send.total, written |-> w2,
           offered |-> Reserved, confirmed |-> Confirmed]
  BY <1>1
<1>4. [Job EXCEPT !.written = w2, !.offered = o2] = [k EXCEPT !.offered = o2]
  BY <1>1
<1> HIDE DEF k
<1>5. [k EXCEPT !.offered = o2] =
          [id |-> session.send.id, size |-> session.send.total,
           written |-> w2, offered |-> o2, confirmed |-> Confirmed]
  BY <1>3
<1> QED BY <1>2, <1>4, <1>5

LEMMA NewJob ==
    ASSUME NEW i, NEW n
    PROVE  [Payload!NoJob EXCEPT !.id = i, !.size = n] =
               [id |-> i, size |-> n, written |-> 0, offered |-> 0, confirmed |-> {}]
<1> DEFINE k == [Payload!NoJob EXCEPT !.id = i]
<1>1. k = [id |-> i, size |-> 0, written |-> 0, offered |-> 0, confirmed |-> {}]
  BY DEF Payload!NoJob
<1>2. [Payload!NoJob EXCEPT !.id = i, !.size = n] = [k EXCEPT !.size = n]
  BY DEF Payload!NoJob
<1> HIDE DEF k
<1>3. [k EXCEPT !.size = n] =
          [id |-> i, size |-> n, written |-> 0, offered |-> 0, confirmed |-> {}]
  BY <1>1
<1> QED BY <1>2, <1>3

LEMMA NumberedWrites == ASSUME AInv, NEW w \in outstanding PROVE w.id # 0
<1>1. w.id \in 1..sends
  BY DEF AInv, Acked
<1>2. sends \in Nat
  BY DEF AInv, IInv, TypeOK
<1> QED BY <1>1, <1>2

\* A payload is under way exactly while the session has a send.
LEMMA JobIsSend == Shape /\ Reservation => (Payload!UnderWay <=> Sending)
<1>1. Sending => Job # Payload!NoJob
  BY DEF Job, Payload!NoJob, Sending
<1> QED BY <1>1, NoSendNoJob DEF Payload!UnderWay, Shape

\* Who is told is who waits for the send.
LEMMA NotifyTells ==
    ASSUME AInv, NEW r,
           result' = IF Sending THEN Notify(session.send.id, r) ELSE result
    PROVE  Payload!Tell(r)
<1>1. Payload!UnderWay <=> Sending
  BY JobIsSend DEF AInv, IInv
<1>2. Job.id = session.send.id
  BY DEF Job
<1>3. \A t \in Threads : Sending =>
          (Work[t] = Job.id <=> pc[t] # "idle" /\ mine[t].id = session.send.id)
  BY <1>2 DEF Work, Sending
<1>4. result = [t \in Threads |-> result[t]]
  BY DEF AInv, IInv, TypeOK
<1> QED BY <1>1, <1>3, <1>4 DEF Payload!Tell, Notify

\* Steps that cannot be seen from outside, or show no more than that the session failed.
LEMMA Unseen ==
    ASSUME AInv, session'.gen = session.gen, session'.send = session.send,
           turn' = turn \/ (~Calling /\ ~Calling'),
           session.failed => session'.failed, session.gen = 0 => session'.failed = session.failed,
           outstanding' \subseteq outstanding,
           UNCHANGED <<acked, wire, mine, result, sends>>,
           \A t \in Threads : pc'[t] = "idle" <=> pc[t] = "idle"
    PROVE  Good
<1>0. Reserved' = Reserved /\ Accepted' = Accepted
  BY DEF Calling, Reserved, Accepted
<1>1. Acked' /\ Asked'
  BY <1>0 DEF AInv, Acked, Asked
<1>2. Job' = Job
  BY <1>0 DEF Job, Confirmed
<1>3. Work' = Work
  BY DEF Work
<1>4. Link' = Link \/ (Link = "open" /\ Link' = "broken")
  BY DEF Link, HasSession
<1>5. StreamStep
  BY <1>2, <1>3, <1>4 DEF StreamStep, Payload!StreamNext, Payload!Break, Payload!streamVars
<1> QED BY <1>1, <1>5 DEF Good

\* The end of a session: by the caller that gives up, or by anything else.
LEMMA Closes ==
    ASSUME AInv, HasSession, Idle, NEW already \in BOOLEAN, CloseSession(already),
           UNCHANGED <<turn, wire, acked, mine, sends>>,
           \/ pc' = pc
           \/ \E t \in Threads : pc' = [pc EXCEPT ![t] = "idle"] /\ pc[t] # "idle"
                                 /\ StillPending(t)
    PROVE  Good
<1>1. session' = NoSession /\ session'.gen = 0 /\ session'.send.id = 0 /\ session'.send = NoSend
      /\ ~HasSession'
  BY DEF CloseSession, NoSession, NoSend, HasSession
<1>2. outstanding' \subseteq outstanding
  BY CloseSessionEffect DEF AInv
<1>3. Acked'
  BY <1>1, <1>2 DEF AInv, Acked
<1>4. \A t \in Threads : pc'[t] # "idle" => pc[t] # "idle"
  BY DEF AInv, IInv, TypeOK
<1>5. Asked'
  BY <1>1, <1>4 DEF AInv, Asked
<1>6. Payload!Tell("err")
  BY NotifyTells DEF CloseSession
<1>7. Link # "closed" /\ Link' = "closed"
  BY <1>1 DEF Link
<1>8. Job' = Payload!NoJob
  <2>1. ~Calling'
    BY IdleNotCalling DEF Calling
  <2> QED BY <1>1, <2>1, NoSendNoJob
<1>9. Payload!End
  BY <1>6, <1>7, <1>8 DEF Payload!End
<1>10. CASE pc' = pc
  <2>1. UNCHANGED Work
    BY <1>10 DEF Work
  <2> QED BY <1>3, <1>5, <1>9, <2>1 DEF Good, StreamStep, Payload!StreamNext
<1>11. CASE \E t \in Threads : pc' = [pc EXCEPT ![t] = "idle"] /\ pc[t] # "idle"
                               /\ StillPending(t)
  <2>1. PICK t \in Threads : pc' = [pc EXCEPT ![t] = "idle"] /\ pc[t] # "idle" /\ StillPending(t)
    BY <1>11
  <2>2. mine[t].id = session.send.id /\ Sending
    BY <2>1 DEF AInv, Asked, StillPending, Sending
  <2>3. Payload!UnderWay /\ Work[t] = Job.id
    BY <2>1, <2>2, JobIsSend DEF Work, Job, AInv, IInv
  <2>4. Work' = [Work EXCEPT ![t] = 0]
    BY <2>1 DEF Work, AInv, IInv, TypeOK
  <2>5. Payload!GiveUp(t)
    BY <1>9, <2>3, <2>4 DEF Payload!GiveUp
  <2> QED BY <1>3, <1>5, <2>5 DEF Good, StreamStep, Payload!StreamNext
<1> QED BY <1>10, <1>11

\* A caller whose payload is not under way any more returns.
LEMMA Returns ==
    ASSUME AInv, NEW t \in Threads, pc[t] # "idle", pc' = [pc EXCEPT ![t] = "idle"],
           mine[t].id # session.send.id,
           UNCHANGED <<session, turn, outstanding, acked, wire, mine, result, sends>>
    PROVE  Good
<1>0. Reserved' = Reserved /\ Accepted' = Accepted
  BY DEF Calling, Reserved, Accepted
<1>1. \A u \in Threads : pc'[u] # "idle" => pc[u] # "idle"
  BY DEF AInv, IInv, TypeOK
<1>2. Acked' /\ Asked'
  BY <1>0, <1>1 DEF AInv, Acked, Asked
<1>3. Work[t] # 0 /\ Work[t] # Job.id
  BY DEF Work, Job, AInv, Asked
<1>4. Work' = [Work EXCEPT ![t] = 0]
  BY DEF Work, AInv, IInv, TypeOK
<1>5. UNCHANGED <<Link, Job>>
  BY <1>0 DEF Link, Job, Confirmed, HasSession
<1>6. Payload!Return(t)
  BY <1>3, <1>4, <1>5 DEF Payload!Return
<1> QED BY <1>2, <1>6 DEF Good, StreamStep, Payload!StreamNext

\* A session opens.
LEMMA OpenStream == ASSUME AInv, Open PROVE Good
<1>1. /\ session' = [NoSession EXCEPT !.gen = opens + 1] /\ opens \in Nat
      /\ UNCHANGED <<outstanding, acked, pc, mine, result, sends>>
      /\ wire' = <<>> /\ ~HasSession /\ ~Sending
  BY DEF Open, threadVars, AInv, IInv, TypeOK, Shape
<1>2. session'.gen = opens + 1 /\ session'.send = NoSend /\ ~session'.failed /\ NoSend.id = 0
  BY <1>1 DEF NoSession, NoSend
<1>3. Acked' /\ Asked'
  BY <1>1, <1>2 DEF AInv, Acked, Asked
<1>4. Link = "closed" /\ Link' = "open"
  BY <1>1, <1>2 DEF Link, HasSession
<1>5. Job' = Job
  <2>1. ~Calling'
    BY IdleNotCalling DEF Open, Calling
  <2> QED BY <1>1, <1>2, <2>1, NoSendNoJob DEF AInv, IInv, Shape
<1>6. UNCHANGED Work
  BY <1>1 DEF Work
<1>7. Payload!Connect
  BY <1>1, <1>4, <1>5, <1>6 DEF Payload!Connect
<1> QED BY <1>3, <1>7 DEF Good, StreamStep, Payload!StreamNext

\* A send begins.
LEMMA BeginStream == ASSUME NEW t \in Threads, AInv, Begin(t) PROVE Good
<1>1. PICK n \in Sizes :
          /\ session' = [session EXCEPT !.send = [NoSend EXCEPT !.id = sends + 1, !.total = n]]
          /\ mine' = [mine EXCEPT ![t] = [gen |-> session.gen, id |-> sends + 1,
                                          total |-> n]]
  BY DEF Begin
<1>2. /\ pc[t] = "idle" /\ HasSession /\ ~session.failed /\ ~Sending
      /\ sends' = sends + 1 /\ sends \in Nat /\ session \in Sessions
      /\ pc' = [pc EXCEPT ![t] = "waiting"] /\ result' = [result EXCEPT ![t] = "none"]
      /\ UNCHANGED <<outstanding, wire, acked>>
  BY DEF Begin, stackVars, AInv, IInv, TypeOK
<1>3. n \in Nat /\ n > 0
  BY SizesAssumption
<1>4. /\ session'.gen = session.gen /\ session'.failed = session.failed
      /\ session'.send = FreshSend(sends + 1, n)
  BY <1>1, <1>2 DEF Sessions, FreshSend
<1>5. /\ session'.send.id = sends + 1 /\ session'.send.total = n /\ session'.send.next = 0
  BY <1>2, <1>3, <1>4, FreshSendFields
<1>0. ~Calling' /\ Accepted' = 0
  BY <1>5, NewTurnType DEF Begin, Calling, Accepted, NewTurn, NoTurn
<1>6. Acked'
  BY <1>0, <1>2, <1>5 DEF AInv, Acked
<1>7. /\ mine'[t] = [gen |-> session.gen, id |-> sends + 1, total |-> n]
      /\ pc'[t] = "waiting" /\ result'[t] = "none"
      /\ \A u \in Threads : u # t => /\ mine'[u] = mine[u] /\ pc'[u] = pc[u]
                                    /\ result'[u] = result[u] /\ mine[u].id <= sends
  BY <1>1, <1>2 DEF AInv, IInv, TypeOK, Given
<1>8. Asked'
  <2>1. ASSUME NEW u \in Threads, pc'[u] # "idle"
        PROVE  /\ mine'[u].id # 0
               /\ mine'[u].id = session'.send.id =>
                     mine'[u].gen = session'.gen /\ result'[u] = "none"
    <3>1. CASE u = t
      BY <1>2, <1>4, <1>7, <3>1
    <3>2. CASE u # t
      <4>1. mine[u].id \in Nat
        BY DEF AInv, IInv, TypeOK
      <4> QED BY <1>2, <1>5, <1>7, <2>1, <3>2, <4>1 DEF AInv, Asked
    <3> QED BY <3>1, <3>2
  <2> QED BY <2>1 DEF Asked
<1>9. Link = "open" /\ Link' = "open"
  BY <1>2, <1>4 DEF Link, HasSession
<1>10. ~Payload!UnderWay /\ Work[t] = 0
  BY <1>2, JobIsSend DEF Work, AInv, IInv
<1>11. Job' = [Payload!NoJob EXCEPT !.id = sends', !.size = n]
  <2>1. Confirmed' = {} /\ Reserved' = 0
    BY <1>0 DEF Confirmed, Reserved
  <2>2. Job' = [id |-> sends', size |-> n, written |-> 0, offered |-> 0, confirmed |-> {}]
    BY <1>0, <1>2, <1>5, <2>1 DEF Job
  <2> QED BY <2>2, NewJob
<1>12. Work' = [Work EXCEPT ![t] = sends']
  <2>1. Work' = [u \in Threads |-> IF u = t THEN sends' ELSE Work[u]]
    <3>1. ASSUME NEW u \in Threads
          PROVE  (IF pc'[u] = "idle" THEN 0 ELSE mine'[u].id)
                     = IF u = t THEN sends' ELSE Work[u]
      BY <1>2, <1>7 DEF Work
    <3> QED BY <3>1 DEF Work
  <2> QED BY <2>1 DEF Work
<1>13. Payload!Submit(t, n)
  BY <1>2, <1>9, <1>10, <1>11, <1>12 DEF Payload!Submit
<1> QED BY <1>6, <1>8, <1>13 DEF Good, StreamStep, Payload!StreamNext

\* A write is reserved: its chunk is offered.
LEMMA PumpReservesStream == ASSUME AInv, PumpReserves PROVE Good
<1>1. /\ session \in Sessions /\ ~session.failed /\ Sending /\ HasSession
      /\ session.gen = turn.gen /\ session.send.next < session.send.total
      /\ ~Calling /\ Accepted = session.send.next
  BY LimitsAssumption DEF AInv, IInv, TypeOK, Shape, Sessions, Sends, PumpStops, PumpReserves,
                          Accepted
<1>2. /\ session' = WithWrite(session)
      /\ UNCHANGED <<outstanding, wire, acked, pc, mine, result, sends>>
  BY DEF PumpReserves, WithWrite, stackVars, threadVars
<1>3. /\ session'.gen = session.gen /\ session'.failed = session.failed
      /\ session'.send.id = session.send.id /\ session'.send.total = session.send.total
  BY <1>1, <1>2, WithWriteFields
<1>4. Calling' /\ Accepted' = Accepted
  <2>1. turn'.id = session.send.id /\ turn'.offset = session.send.next
    BY DEF PumpReserves, AInv, IInv, TypeOK, Turns
  <2> QED BY <1>1, <2>1 DEF Calling, Accepted, Sending
<1>5. Acked' /\ Asked'
  BY <1>2, <1>3, <1>4 DEF AInv, Acked, Asked
<1>6. Link = "open" /\ UNCHANGED Link
  BY <1>1, <1>3 DEF Link, HasSession
<1>7. Job' = [Job EXCEPT !.offered = 1]
  <2>1. Confirmed' = Confirmed /\ Reserved' = 1
    BY <1>2, <1>3, <1>4 DEF Confirmed, Reserved
  <2>2. Job' = [id |-> session.send.id, size |-> session.send.total, written |-> Accepted,
                offered |-> 1, confirmed |-> Confirmed]
    BY <1>1, <1>3, <1>4, <2>1 DEF Job
  <2> QED BY <2>2, JobExcept
<1>8. Payload!UnderWay /\ Job.offered = 0 /\ Job.written < Job.size
  BY <1>1, JobIsSend DEF Job, Reserved, AInv, IInv
<1>9. UNCHANGED Work
  BY <1>2 DEF Work
<1>10. Payload!Offer
  BY <1>2, <1>6, <1>7, <1>8, <1>9 DEF Payload!Offer
<1> QED BY <1>5, <1>10 DEF Good, StreamStep, Payload!StreamNext

\* The write is accepted.
LEMMA PumpWritesStream == ASSUME AInv, PumpWrites PROVE Good
<1>1. /\ Sending /\ HasSession /\ Calling
      /\ session.gen = turn.gen /\ session.send.id = turn.id
      /\ session.send.next = turn.offset + 1 /\ turn.offset \in Nat
      /\ Accepted = turn.offset /\ session.send.id \in 1..sends
  BY DEF AInv, IInv, TypeOK, Turns, Reservation, PumpWrites, Calling, Sending, Accepted,
         Given, Sessions, Sends
<1>2. /\ outstanding' = outstanding \cup {[gen |-> session.gen, id |-> session.send.id,
                                           chunk |-> Accepted + 1]}
      /\ wire' = Append(wire, [id |-> session.send.id, chunk |-> Accepted + 1,
                               total |-> session.send.total])
      /\ UNCHANGED <<session, acked, pc, mine, result, sends>>
  BY <1>1 DEF PumpWrites, threadVars
<1>3. ~Calling' /\ Accepted' = Accepted + 1
  <2>1. turn'.id = 0
    BY DEF PumpWrites, AInv, IInv, TypeOK, Turns
  <2> QED BY <1>1, <1>2, <2>1 DEF Calling, Accepted
<1>4. Acked'
  <2>1. [id |-> session.send.id, chunk |-> Accepted + 1] \notin acked
    BY <1>1 DEF AInv, Acked
  <2> QED BY <1>1, <1>2, <1>3, <2>1 DEF AInv, Acked
<1>5. Asked'
  BY <1>2 DEF AInv, Asked
<1>6. UNCHANGED Link
  BY <1>2 DEF Link, HasSession
<1>7. Confirmed' = Confirmed
  BY <1>1, <1>2, <1>3 DEF Confirmed, AInv, Acked
<1>8. Job' = [Job EXCEPT !.written = @ + 1, !.offered = 0]
  <2>1. Reserved' = 0
    BY <1>3 DEF Reserved
  <2>2. Job' = [id |-> session.send.id, size |-> session.send.total, written |-> Accepted + 1,
                offered |-> 0, confirmed |-> Confirmed]
    BY <1>2, <1>3, <1>7, <2>1 DEF Job
  <2>3. Job.written = Accepted
    BY DEF Job
  <2>4. [Job EXCEPT !.written = @ + 1, !.offered = 0] =
            [Job EXCEPT !.written = Accepted + 1, !.offered = 0]
    BY <2>3
  <2> QED BY <2>2, <2>4, JobExcept
<1>9. Payload!UnderWay /\ Job.offered = 1
  BY <1>1, JobIsSend DEF Job, Reserved, AInv, IInv
<1>10. wire' = Append(wire, [id |-> Job.id, chunk |-> Job.written + 1, total |-> Job.size])
  BY <1>2 DEF Job
<1>11. UNCHANGED Work
  BY <1>2 DEF Work
<1>12. Payload!Write
  BY <1>2, <1>6, <1>8, <1>9, <1>10, <1>11 DEF Payload!Write
<1> QED BY <1>4, <1>5, <1>12 DEF Good, StreamStep, Payload!StreamNext

\* The write is refused, for now or for good.
LEMMA RefusedStream ==
    ASSUME AInv, Calling, turn' = NoTurn,
           session'.gen = session.gen, session'.send = Undone(session).send,
           session.failed => session'.failed,
           UNCHANGED <<stackVars, threadVars, sends>>
    PROVE  Good
<1>1. /\ Sending /\ HasSession /\ turn.offset \in Nat
      /\ session'.send.id = session.send.id /\ session'.send.total = session.send.total
      /\ session'.send.next = turn.offset
  BY UndoneFields DEF AInv
<1>2. ~Calling' /\ Accepted' = Accepted
  BY <1>1 DEF Calling, NoTurn, Accepted
<1>3. UNCHANGED <<outstanding, acked, wire, pc, mine, result>>
  BY DEF stackVars, threadVars
<1>4. Acked' /\ Asked'
  BY <1>1, <1>2, <1>3 DEF AInv, Acked, Asked
<1>5. Job' = [Job EXCEPT !.offered = 0]
  <2>1. Confirmed' = Confirmed /\ Reserved' = 0
    BY <1>1, <1>2, <1>3 DEF Confirmed, Reserved
  <2>2. Job' = [id |-> session.send.id, size |-> session.send.total, written |-> Accepted,
                offered |-> 0, confirmed |-> Confirmed]
    BY <1>1, <1>2, <2>1 DEF Job
  <2> QED BY <2>2, JobExcept
<1>6. Payload!UnderWay /\ Job.offered = 1
  BY <1>1, JobIsSend DEF Job, Reserved, AInv, IInv
<1>7. Link' = Link \/ (Link = "open" /\ Link' = "broken")
  BY DEF Link, HasSession
<1>8. Work' = Work
  BY <1>3 DEF Work
<1>9. Payload!Refuse
  BY <1>3, <1>5, <1>6, <1>7, <1>8 DEF Payload!Refuse
<1> QED BY <1>4, <1>9 DEF Good, StreamStep, Payload!StreamNext

-----------------------------------------------------------------------------
(***************************************************************************)
(* A write completes: it confirms a chunk                                  *)
(***************************************************************************)
\* What every completion does to the records of writes.
LEMMA AckedOnce ==
    ASSUME AInv, NEW w \in outstanding, NEW ok \in BOOLEAN, WriteComplete(w, ok),
           session'.send.id \in {session.send.id, 0},
           session'.send.id # 0 => session'.send.next = session.send.next
    PROVE  Acked'
<1>0. Accepted \in Nat /\ (session'.send.id # 0 => Accepted' = Accepted)
  BY DEF WriteComplete, Accepted, Calling, AInv, IInv, TypeOK, Turns, Sessions, Sends
<1>1. /\ outstanding' = outstanding \ {w}
      /\ acked' = IF ok THEN acked \cup {[id |-> w.id, chunk |-> w.chunk]} ELSE acked
      /\ sends' = sends
  BY DEF WriteComplete
<1>2. w \in Writes /\ (w.id = session.send.id => w.chunk \in 1..Accepted)
  <2>1. w \in Writes /\ w.id \in 1..sends /\ w.chunk # 0
    BY DEF AInv, IInv, TypeOK, Acked
  <2>2. ASSUME w.id = session.send.id PROVE w.gen = session.gen
    <3>1. HasSession
      BY <2>1, <2>2 DEF AInv, IInv, Shape, Sending
    <3> QED BY <3>1, SessionOwns DEF AInv
  <2> QED BY <1>0, <2>1, <2>2 DEF AInv, IInv, Owned, Writes
<1>3. ASSUME NEW v \in outstanding, v # w
      PROVE  [id |-> v.id, chunk |-> v.chunk] # [id |-> w.id, chunk |-> w.chunk]
  <2>1. v \in Writes /\ w \in Writes
    BY DEF AInv, IInv, TypeOK
  <2>2. v.gen = w.gen
    <3>1. CASE HasSession
      BY <3>1, SessionOwns DEF AInv
    <3>2. CASE ~HasSession
      <4>1. v.gen # session.gen /\ w.gen # session.gen
        BY <3>2 DEF AInv, IInv, Owned, TypeOK, HasSession
      <4>2. PICK q \in retiring : q.gen = v.gen
        BY <4>1 DEF AInv, IInv, Owned, BuffersKept
      <4>3. PICK r \in retiring : r.gen = w.gen
        BY <4>1 DEF AInv, IInv, Owned, BuffersKept
      <4> QED BY <4>2, <4>3 DEF AInv, IInv, Shape
    <3> QED BY <3>1, <3>2
  <2> QED BY <1>3, <2>1, <2>2 DEF Writes
<1>4. \A v \in outstanding' : /\ v.id \in 1..sends' /\ v.chunk # 0
                              /\ [id |-> v.id, chunk |-> v.chunk] \notin acked'
  BY <1>1, <1>3 DEF AInv, Acked
<1>5. \A a \in acked' : /\ a.id \in 1..sends'
                        /\ a.id = session'.send.id => a.chunk \in 1..Accepted'
  <2>1. ASSUME NEW a \in acked'
        PROVE  /\ a.id \in 1..sends'
               /\ a.id = session.send.id => a.chunk \in 1..Accepted
    <3>1. CASE a \in acked
      BY <1>1, <3>1 DEF AInv, Acked
    <3>2. CASE a = [id |-> w.id, chunk |-> w.chunk]
      BY <1>1, <1>2, <3>2 DEF AInv, Acked
    <3> QED BY <1>1, <3>1, <3>2
  <2>2. sends \in Nat
    BY DEF AInv, IInv, TypeOK
  <2> QED BY <1>0, <1>1, <2>1, <2>2
<1> QED BY <1>4, <1>5 DEF Acked

\* A completion for a session that retired cannot be seen.
LEMMA RetiredWriteStream ==
    ASSUME AInv, NEW w \in outstanding, NEW ok \in BOOLEAN, WriteComplete(w, ok),
           IsRetired(w.gen)
    PROVE  Good
<1>1. ~HasSession /\ ~Sending /\ session.send = NoSend
  BY WriteIsKnown DEF AInv, IInv, Shape
<1>2. UNCHANGED <<session, wire, sends, pc, mine, result>>
  BY DEF WriteComplete, RetiredWriteComplete, threadVars
<1>3. Acked'
  BY <1>2, AckedOnce
<1>4. Asked'
  BY <1>2 DEF AInv, Asked
<1>5. UNCHANGED <<Link, Job, Work>>
  <2>1. ~Calling'
    BY <1>1 DEF WriteComplete, Calling, AInv, IInv, Reservation
  <2> QED BY <1>1, <1>2, <2>1, NoSendNoJob DEF Link, Work, HasSession, AInv, IInv
<1> QED BY <1>2, <1>3, <1>4, <1>5 DEF Good, StreamStep, Payload!streamVars

\* The last chunk is confirmed exactly when the send is done: all is written and
\* nothing is outstanding any more.
LEMMA ConfirmedAll ==
    ASSUME AInv, NEW w \in outstanding, ~IsRetired(w.gen), ~session.failed,
           outstanding' = outstanding \ {w},
           acked' = acked \cup {[id |-> w.id, chunk |-> w.chunk]}
    PROVE  /\ w.chunk \in (1..Accepted) \ Confirmed
           /\ Confirmed \cup {w.chunk} = 1..session.send.total <=> AllDone
<1>1. /\ w \in Writes /\ w.gen \in alive /\ session.gen = w.gen /\ session.send.id = w.id
      /\ HasSession /\ session.send.inFlight = Cardinality(Own(w.gen)) + Reserved
  BY WriteIsKnown DEF AInv
<1>2. /\ session.send.next \in Nat /\ session.send.total \in Nat /\ Accepted \in Nat
      /\ session.send.next <= session.send.total /\ session.send.total > 0 /\ Sending
      /\ ~Calling => Accepted = session.send.next /\ Reserved = 0
      /\ Calling => Accepted < session.send.total /\ Reserved = 1
  <2>1. w.id # 0
    BY NumberedWrites
  <2>2. Sending
    BY <1>1, <2>1 DEF Sending
  <2>3. /\ session.send.next \in Nat /\ session.send.total \in Nat /\ turn.offset \in Nat
        /\ Calling => session.send.next = turn.offset + 1
    BY DEF AInv, IInv, TypeOK, Turns, Sessions, Sends, Reservation
  <2> QED BY <2>2, <2>3 DEF AInv, IInv, Shape, Accepted, Reserved
<1>3. \A v \in outstanding : v.gen = session.gen => v.chunk \in 1..Accepted
  <2>1. ASSUME NEW v \in outstanding, v.gen = session.gen PROVE v.chunk \in 1..Accepted
    <3>1. v.chunk \in Nat
      BY DEF AInv, IInv, TypeOK, Writes
    <3>2. v.chunk # 0
      BY DEF AInv, Acked
    <3>3. v.chunk <= Accepted
      BY <2>1 DEF AInv, IInv, Owned
    <3> QED BY <1>2, <3>1, <3>2, <3>3
  <2> QED BY <2>1
<1>4. w.chunk \notin Confirmed
  BY <1>1 DEF AInv, Acked, Confirmed
<1>5. \A v \in outstanding : v \in Writes /\ v.gen = w.gen /\ v.id = w.id
  BY <1>1, SessionOwns DEF AInv, IInv, TypeOK
<1>6. /\ Cardinality(Own(w.gen)) \in Nat \ {0}
      /\ Less(Cardinality(Own(w.gen))) = 0 => \A v \in outstanding' : v.gen # w.gen
      /\ Cardinality({v \in outstanding' : v.gen = w.gen}) = Less(Cardinality(Own(w.gen)))
  BY OwnWithout DEF AInv
<1>7. AllDone <=> session.send.next = session.send.total /\ Less(session.send.inFlight) = 0
  BY OneFewerFields DEF AllDone, AInv, IInv, TypeOK
<1>8. AllDone <=> /\ ~Calling /\ session.send.next = session.send.total
                  /\ Less(Cardinality(Own(w.gen))) = 0
  BY <1>1, <1>2, <1>6, <1>7 DEF Less
<1>9. ASSUME AllDone PROVE Confirmed \cup {w.chunk} = 1..session.send.total
  <2>1. outstanding' = {} /\ Accepted = session.send.total
    BY <1>2, <1>5, <1>6, <1>8, <1>9
  <2>2. ASSUME NEW k \in 1..Accepted, k # w.chunk PROVE k \in Confirmed
    <3>1. \/ [id |-> session.send.id, chunk |-> k] \in acked
          \/ [gen |-> session.gen, id |-> session.send.id, chunk |-> k] \in outstanding
      BY <1>1, <1>2 DEF AInv, IInv, Accounted
    <3>2. [gen |-> session.gen, id |-> session.send.id, chunk |-> k] \notin outstanding
      BY <2>1, <2>2
    <3> QED BY <3>1, <3>2 DEF Confirmed
  <2> QED BY <1>1, <1>3, <2>1, <2>2 DEF Confirmed
<1>10. ASSUME Confirmed \cup {w.chunk} = 1..session.send.total PROVE AllDone
  <2>1. session.send.total \in Confirmed \cup {w.chunk}
    BY <1>2, <1>10
  <2>2. ~Calling /\ session.send.next = session.send.total /\ Accepted = session.send.total
    BY <1>1, <1>2, <1>3, <2>1 DEF Confirmed
  <2>3. ASSUME NEW v \in outstanding' PROVE FALSE
    <3>1. v \in outstanding /\ v # w /\ v \in Writes /\ v.gen = w.gen /\ v.id = w.id
      BY <1>5, <2>3
    <3>2. v.chunk # w.chunk
      BY <1>1, <3>1 DEF Writes
    <3>3. v.chunk \in 1..Accepted
      BY <1>1, <1>3, <3>1
    <3>4. v.chunk \in Confirmed
      BY <1>10, <2>2, <3>2, <3>3
    <3> QED BY <1>1, <3>1, <3>4 DEF AInv, Acked, Confirmed
  <2>4. {v \in outstanding' : v.gen = w.gen} = {}
    BY <2>3
  <2>5. Less(Cardinality(Own(w.gen))) = 0
    BY <1>6, <2>4, FS_EmptySet
  <2> QED BY <1>8, <2>2, <2>5
<1> QED BY <1>1, <1>3, <1>4, <1>9, <1>10

\* A completion for the session's send: it confirms the chunk, fails the session, or
\* comes after the failure.
LEMMA SessionWriteStream ==
    ASSUME AInv, NEW w \in outstanding, NEW ok \in BOOLEAN, WriteComplete(w, ok),
           ~IsRetired(w.gen)
    PROVE  Good
<1>1. /\ w \in Writes /\ session.gen = w.gen /\ session.send.id = w.id /\ HasSession
      /\ session \in Sessions /\ posted \subseteq Blocks /\ w.id # 0 /\ Sending
  BY WriteIsKnown, NumberedWrites DEF AInv, IInv, TypeOK, Sending
<1>2. /\ SessionWriteComplete(ok)
      /\ outstanding' = outstanding \ {w}
      /\ acked' = IF ok THEN acked \cup {[id |-> w.id, chunk |-> w.chunk]} ELSE acked
      /\ UNCHANGED <<turn, pc, mine, wire, sends>>
  BY <1>1 DEF WriteComplete, SessionWriteComplete
<1>3. /\ OneFewer \in Sessions /\ OneFewer.gen = session.gen
      /\ OneFewer.failed = session.failed
      /\ OneFewer.send.id = session.send.id /\ OneFewer.send.total = session.send.total
      /\ OneFewer.send.next = session.send.next
  BY <1>1, OneFewerFields
<1>4. UNCHANGED Work
  BY <1>2 DEF Work
\* The session keeps its send.
<1>5. ASSUME UNCHANGED result, session'.gen = session.gen, session'.send = OneFewer.send
      PROVE  /\ Acked' /\ Asked'
             /\ ok => Job' = [Job EXCEPT !.confirmed = Confirmed \cup {w.chunk}]
             /\ ~ok => Job' = Job
  <2>0. Reserved' = Reserved /\ Accepted' = Accepted
    BY <1>2, <1>3, <1>5 DEF Calling, Reserved, Accepted
  <2>1. Acked'
    BY <1>3, <1>5, AckedOnce
  <2>2. Asked'
    BY <1>2, <1>3, <1>5 DEF AInv, Asked
  <2>3. CASE ok
    <3>1. w.chunk \in 1..Accepted
      BY <1>1, <1>2, <1>3, <1>5, <2>0, <2>1, <2>3 DEF Acked
    <3>2. Confirmed' = Confirmed \cup {w.chunk}
      BY <1>1, <1>2, <1>3, <1>5, <2>0, <2>3, <3>1 DEF Confirmed
    <3> QED BY <1>3, <1>5, <2>0, <2>1, <2>2, <2>3, <3>2 DEF Job
  <2>4. CASE ~ok
    BY <1>2, <1>3, <1>5, <2>0, <2>1, <2>2, <2>4 DEF Job, Confirmed
  <2> QED BY <2>3, <2>4
<1>6. ASSUME ok, ~session.failed
      PROVE  /\ w.chunk \in (1..Job.written) \ Job.confirmed
             /\ Job.confirmed \cup {w.chunk} = 1..Job.size <=> AllDone
             /\ Payload!UnderWay /\ Link = "open"
  <2>1. /\ w.chunk \in (1..Accepted) \ Confirmed
        /\ Confirmed \cup {w.chunk} = 1..session.send.total <=> AllDone
    BY <1>1, <1>2, <1>6, ConfirmedAll
  <2>2. Payload!UnderWay /\ Link = "open"
    BY <1>1, <1>6, JobIsSend DEF Link, AInv, IInv
  <2> QED BY <2>1, <2>2 DEF Job
<1>7. CASE ~session.failed /\ ok /\ AllDone
  <2>1. session' = [session EXCEPT !.send = NoSend] /\ result' = Notify(session.send.id, "ok")
    BY <1>2, <1>7 DEF SessionWriteComplete
  <2>2. /\ session'.gen = session.gen /\ session'.failed = session.failed
        /\ session'.send = NoSend /\ session'.send.id = 0
    BY <1>1, <2>1 DEF Sessions, NoSend
  <2>3. Acked'
    BY <2>2, AckedOnce
  <2>4. Asked'
    BY <1>2, <2>2 DEF AInv, Asked
  <2>5. Payload!Tell("ok")
    BY <1>1, <2>1, NotifyTells
  <2>6. Job' = Payload!NoJob /\ UNCHANGED Link
    <3>1. ~Calling
      BY <1>7, WriteIsKnown, OwnWithout, OneFewerFields, <1>1, <1>2
         DEF AllDone, Reserved, Less, AInv
    <3>2. ~Calling'
      BY <1>2, <3>1 DEF Calling
    <3> QED BY <2>2, <3>2, NoSendNoJob DEF Link, HasSession
  <2>7. Payload!Confirm(w.chunk)
    BY <1>2, <1>4, <1>6, <1>7, <2>5, <2>6 DEF Payload!Confirm
  <2> QED BY <1>6, <1>7, <2>3, <2>4, <2>7 DEF Good, StreamStep, Payload!StreamNext
<1>8. CASE ~session.failed /\ ok /\ ~AllDone
  <2>1. SchedulePump(OneFewer, {}) /\ UNCHANGED result
    BY <1>2, <1>8 DEF SessionWriteComplete
  <2>2. /\ session'.gen = session.gen /\ session'.send = OneFewer.send
        /\ session'.failed = session.failed
    BY <1>1, <1>3, <2>1, SchedulePumpEffect DEF HasSession
  <2>3. UNCHANGED Link
    BY <2>2 DEF Link, HasSession
  <2>4. Job' = [Job EXCEPT !.confirmed = Job.confirmed \cup {w.chunk}]
    BY <1>5, <1>8, <2>1, <2>2 DEF Job
  <2>5. Payload!Confirm(w.chunk)
    BY <1>2, <1>4, <1>6, <1>8, <2>1, <2>3, <2>4 DEF Payload!Confirm
  <2> QED BY <1>5, <1>6, <1>8, <2>1, <2>2, <2>5 DEF Good, StreamStep, Payload!StreamNext
<1>9. CASE ~session.failed /\ ~ok
  <2>1. FailLater(OneFewer, {}) /\ UNCHANGED result
    BY <1>2, <1>9 DEF SessionWriteComplete
  <2>2. session'.gen = session.gen /\ session'.send = OneFewer.send /\ session'.failed
    BY <1>1, <1>3, <2>1, FailLaterEffect DEF HasSession
  <2>3. Link = "open" /\ Link' = "broken"
    BY <1>1, <1>9, <2>2 DEF Link, HasSession
  <2>4. Job' = Job
    BY <1>5, <1>9, <2>1, <2>2
  <2>5. Payload!Break
    BY <1>2, <1>4, <2>1, <2>3, <2>4 DEF Payload!Break
  <2> QED BY <1>5, <2>1, <2>2, <2>5 DEF Good, StreamStep, Payload!StreamNext
<1>10. CASE session.failed
  <2>1. session' = OneFewer /\ UNCHANGED result
    BY <1>2, <1>10 DEF SessionWriteComplete
  <2>2. session'.gen = session.gen /\ session'.send = OneFewer.send
    BY <2>1, <1>3
  <2>3. Link = "broken" /\ UNCHANGED Link
    BY <1>1, <1>3, <1>10, <2>1 DEF Link, HasSession
  <2>4. CASE ok
    <3>1. Job' = [Job EXCEPT !.confirmed = Job.confirmed \cup {w.chunk}]
      BY <1>5, <2>1, <2>2, <2>4 DEF Job
    <3>2. w.chunk \in (1..Job.written) \ Job.confirmed /\ Payload!UnderWay
      <4>0. Accepted' = Accepted
        BY <1>2, <1>3, <2>2 DEF Calling, Accepted
      <4>1. w.chunk \in 1..Accepted
        BY <1>1, <1>2, <1>3, <1>5, <2>1, <2>2, <2>4, <4>0 DEF Acked
      <4>2. w.chunk \notin Confirmed
        BY <1>1 DEF AInv, Acked, Confirmed
      <4> QED BY <1>1, <4>1, <4>2, JobIsSend DEF Job, AInv, IInv
    <3>3. Payload!Confirm(w.chunk)
      BY <1>2, <1>4, <2>1, <2>3, <3>1, <3>2 DEF Payload!Confirm
    <3> QED BY <1>5, <2>1, <2>2, <3>2, <3>3 DEF Good, StreamStep, Payload!StreamNext
  <2>5. CASE ~ok
    BY <1>2, <1>4, <1>5, <2>1, <2>2, <2>3, <2>5 DEF Good, StreamStep, Payload!streamVars
  <2> QED BY <2>4, <2>5
<1> QED BY <1>7, <1>8, <1>9, <1>10

-----------------------------------------------------------------------------
(***************************************************************************)
(* Every step is a step of the abstract stream, or a stutter               *)
(***************************************************************************)
LEMMA PumpStream == ASSUME AInv, PumpStep PROVE Good
<1>1. session \in Sessions /\ posted \subseteq Blocks /\ (session.send.id # 0 => session.gen # 0)
  BY DEF AInv, IInv, TypeOK, Shape, HasSession, Sending
<1>2. turn' = NoTurn => ~Calling'
  BY DEF NoTurn, Calling
<1>3. CASE PumpReturns
  BY <1>2, <1>3, Unseen DEF PumpReturns, stackVars, threadVars
<1>4. CASE PumpReserves \/ PumpWrites
  BY <1>4, PumpReservesStream, PumpWritesStream
<1>5. CASE PumpBusy
  <2>1. /\ Undone(session) \in Sessions /\ Undone(session).gen = session.gen
        /\ Undone(session).gen # 0 /\ Undone(session).failed = session.failed
    BY <1>5, UndoneFields DEF PumpBusy, AInv, HasSession
  <2>2. /\ session'.gen = session.gen /\ session'.send = Undone(session).send
        /\ session'.failed = session.failed
    BY <1>1, <1>5, <2>1, SchedulePumpEffect DEF PumpBusy
  <2> QED BY <1>5, <2>2, RefusedStream DEF PumpBusy
<1>6. CASE PumpFails
  <2>1. /\ Undone(session) \in Sessions /\ Undone(session).gen = session.gen
        /\ Undone(session).gen # 0
    BY <1>6, UndoneFields DEF PumpFails, AInv, HasSession
  <2>2. /\ session'.gen = session.gen /\ session'.send = Undone(session).send
        /\ session'.failed
    BY <1>1, <1>6, <2>1, FailLaterEffect DEF PumpFails
  <2> QED BY <1>6, <2>2, RefusedStream DEF PumpFails
<1>7. CASE PumpYields
  BY <1>1, <1>2, <1>7, SchedulePumpEffect, Unseen DEF PumpYields, stackVars, threadVars
<1> QED BY <1>3, <1>4, <1>5, <1>6, <1>7 DEF PumpStep

LEMMA BlocksStream == ASSUME AInv, RunBlock PROVE Good
<1>1. PICK b \in posted : RunPump(b.gen) \/ RunFail(b.gen) \/ RunClosed(b.gen) \/ RunRelease(b.gen)
  BY DEF RunBlock
<1>2. b.gen # 0 /\ session \in Sessions
  BY DEF AInv, IInv, TypeOK, Blocks
<1>3. CASE RunPump(b.gen)
  <2>1. /\ session'.gen = session.gen /\ session'.send = session.send
        /\ session'.failed = session.failed
    BY <1>2, <1>3 DEF RunPump, Sessions
  <2>2. turn' = turn \/ (~Calling /\ ~Calling')
    BY <1>2, <1>3, IdleNotCalling, NewTurnType DEF RunPump, Calling, Sessions
  <2> QED BY <1>3, <2>1, <2>2, Unseen DEF RunPump, stackVars, threadVars
<1>4. CASE RunFail(b.gen)
  <2>1. CASE session.gen = b.gen
    BY <1>2, <1>4, <2>1, Closes DEF RunFail, HasSession
  <2>2. CASE session.gen # b.gen
    BY <1>4, <2>2, Unseen DEF RunFail
  <2> QED BY <2>1, <2>2
<1>5. CASE RunClosed(b.gen)
  <2>1. CASE session.gen = b.gen
    BY <1>2, <1>5, <2>1, Closes DEF RunClosed, HasSession
  <2>2. CASE session.gen # b.gen
    BY <1>5, <2>2, Unseen DEF RunClosed
  <2> QED BY <2>1, <2>2
<1>6. CASE RunRelease(b.gen)
  BY <1>6, Unseen DEF RunRelease, threadVars
<1> QED BY <1>1, <1>3, <1>4, <1>5, <1>6

LEMMA StackStream == ASSUME AInv, Stack PROVE Good
<1>1. session \in Sessions /\ posted \subseteq Blocks /\ (session.send.id # 0 => session.gen # 0)
  BY DEF AInv, IInv, TypeOK, Shape, HasSession, Sending
<1>2. CASE \E w \in outstanding, ok \in BOOLEAN : WriteComplete(w, ok)
  BY <1>2, RetiredWriteStream, SessionWriteStream
<1>3. CASE \E g \in alive : ChannelClosed(g)
  BY <1>3, Unseen DEF ChannelClosed, threadVars
<1>4. CASE QueueSpace
  BY <1>1, <1>4, SchedulePumpEffect, Unseen DEF QueueSpace, stackVars, threadVars
<1> QED BY <1>2, <1>3, <1>4 DEF Stack

LEMMA CallersStream == ASSUME AInv, Callers PROVE Good
<1>1. CASE Disconnect
  BY <1>1, Closes DEF Disconnect
<1>2. ASSUME NEW t \in Threads, Begin(t) PROVE Good
  BY <1>2, BeginStream
<1>3. ASSUME NEW t \in Threads, Receive(t) PROVE Good
  <2>1. mine[t].id # session.send.id
    BY <1>3 DEF Receive, AInv, Asked
  <2> QED BY <1>3, <2>1, Returns DEF Receive, sessionVars, stackVars
<1>4. ASSUME NEW t \in Threads, TimeOut(t) PROVE Good
  <2>1. \A u \in Threads : pc'[u] = "idle" <=> pc[u] = "idle"
    BY <1>4 DEF TimeOut, AInv, IInv, TypeOK
  <2> QED BY <1>4, <2>1, Unseen DEF TimeOut, sessionVars, stackVars
<1>5. ASSUME NEW t \in Threads, Abort(t) PROVE Good
  <2>1. CASE StillPending(t)
    <3>1. HasSession
      BY <1>5, <2>1 DEF Abort, StillPending, HasSession, AInv, IInv, Given
    <3> QED BY <1>5, <2>1, <3>1, Closes DEF Abort
  <2>2. CASE ~StillPending(t)
    <3>1. mine[t].id # session.send.id
      BY <1>5, <2>2 DEF Abort, StillPending, AInv, Asked
    <3> QED BY <1>5, <2>2, <3>1, Returns DEF Abort
  <2> QED BY <2>1, <2>2
<1> QED BY <1>1, <1>2, <1>3, <1>4, <1>5 DEF Callers

LEMMA NextStream == AInv /\ [Next]_vars => Good
<1> SUFFICES ASSUME AInv, [Next]_vars PROVE Good
  OBVIOUS
<1>1. CASE UNCHANGED vars
  BY <1>1, Unseen DEF vars, sessionVars, stackVars, threadVars
<1> QED BY <1>1, OpenStream, PumpStream, BlocksStream, StackStream, CallersStream DEF Next

\* The transmission implements the abstract stream of payloads, for any callers,
\* payloads, windows and turns: answers, writes and returns happen as they should, and
\* the pump, the window and the sessions that retire are not seen.
THEOREM StreamIsImplemented == Spec => ImplementsStream
<1>1. Init => AInv
  <2> SUFFICES ASSUME Init PROVE Acked /\ Asked
    BY InitIInv DEF AInv
  <2> QED BY DEF Init, Acked, Asked
<1>2. AInv /\ [Next]_vars => AInv'
  BY NextIInv, NextStream DEF AInv, Good
<1>3. Init => Payload!StreamInit
  <2> SUFFICES ASSUME Init PROVE Payload!StreamInit
    OBVIOUS
  <2>1. session.send = NoSend /\ session.gen = 0
    BY DEF Init, NoSession
  <2>2. Link = "closed" /\ Job = Payload!NoJob
    BY <2>1, NoSendNoJob, InitIInv DEF Link, HasSession, IInv
  <2>3. Work = [t \in Threads |-> 0]
    BY DEF Work, Init
  <2> QED BY <2>2, <2>3 DEF Init, Payload!StreamInit
<1>4. AInv /\ [Next]_vars => [Payload!StreamNext]_(Payload!streamVars)
  BY NextStream DEF Good, StreamStep
<1> QED BY <1>1, <1>2, <1>3, <1>4, PTL DEF Spec, ImplementsStream, Payload!StreamSpec
=============================================================================
