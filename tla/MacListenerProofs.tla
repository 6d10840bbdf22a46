------------------------- MODULE MacListenerProofs -------------------------
(***************************************************************************)
(* Proofs about MacListener: a registered listener has a worker that will  *)
(* call it; it is called with the data of one session after another, each  *)
(* an unbroken run of the stream; an open connection that ends is told.    *)
(* Any number of sessions, data and listeners.                             *)
(*                                                                         *)
(* The order rests on the main thread's turns.  Data that arrive before    *)
(* the session is open wait in the main queue, those that arrive later go  *)
(* to the listener at once; as nothing joins the blocks of a turn, and no  *)
(* callback comes before they are called, none of the former is left when  *)
(* the first of the latter comes.                                          *)
(***************************************************************************)
EXTENDS MacListener, TLAPS

USE BoundsAssumption DEF Worker, Gen

-----------------------------------------------------------------------------
Events   == [gen : 0..MaxSessions, n : Nat]
Blocks   == [kind : {"data", "opened", "refused", "closed", "fail"},
             gen : 0..MaxSessions, n : Nat]
Sessions == [gen : 0..MaxSessions, opened : BOOLEAN, failed : BOOLEAN,
             heard : {"no", "due", "yes"}]
Channels == [gen : 0..MaxSessions, answered : BOOLEAN]

\* Data of the current session that wait in the main queue.
Waits(i) == /\ i \in DOMAIN posted
            /\ posted[i].kind = "data" /\ posted[i].gen = session.gen

\* All data that arrived after datum k of the session wait in the main queue.
WaitsFrom(k) == \A m \in (k + 1)..sent : \E i \in DOMAIN posted : Waits(i) /\ posted[i].n = m

\* What the worker was told last, or is going to be.
Latest(w) == IF inbox[w] = <<>> THEN last[w] ELSE inbox[w][Len(inbox[w])]

-----------------------------------------------------------------------------
(***************************************************************************)
(* The inductive invariant                                                 *)
(***************************************************************************)
TypeOK ==
    /\ pending \in BOOLEAN /\ session \in Sessions /\ sessions \in 0..MaxSessions
    /\ channel \in Channels /\ sent \in Nat
    /\ posted \in Seq(Blocks) /\ left \in Nat
    /\ listener \in 0..MaxListeners /\ callback \in BOOLEAN
    /\ inbox \in [Worker -> Seq(Events)] /\ last \in [Worker -> Events]
    /\ running \subseteq Worker /\ workers \in 0..MaxListeners

\* The current session is the newest one, and no channel but its own calls back.
Newest ==
    /\ session.gen \in {0, sessions}
    /\ session.gen # 0 => channel.gen \in {0, session.gen}
    /\ channel.gen <= sessions

\* Blocks and events are of sessions there have been.
Known ==
    /\ \A i \in DOMAIN posted : posted[i].gen <= sessions
    /\ \A w \in Worker : /\ last[w].gen <= sessions
                         /\ \A i \in DOMAIN inbox[w] : inbox[w][i].gen <= sessions

\* An absent session has no flags; an open one is not being connected any more, and
\* only an open one is heard of.
Settled ==
    /\ session.gen = 0 => session = NoSession
    /\ session.opened => ~pending
    /\ session.heard # "no" => session.opened

\* The main thread empties its queue before it turns to IOBluetooth: nothing joins the
\* blocks of a turn, and data that arrived before the session opened are out of the
\* queue when the next datum comes.
Turn ==
    /\ left \in {0, Len(posted)}
    /\ Callback /\ session.opened => \A i \in DOMAIN posted : ~Waits(i)

\* Everything behind the i-th block's datum waits, up to the last one that arrived.
NoGapAfter(i) == posted[i].n <= sent /\ WaitsFrom(posted[i].n)

\* The registered listener lacks what waits, and nothing else.
LacksWaiting ==
    /\ Latest(listener).n <= sent /\ WaitsFrom(Latest(listener).n)
    /\ \A i \in DOMAIN posted : Waits(i) => Latest(listener).n < posted[i].n

\* The data that wait are in order and without a gap, and continue what the listener of
\* an active session was told.
Stream ==
    session.gen # 0 =>
        /\ \A i, j \in DOMAIN posted :
              i < j /\ Waits(i) /\ Waits(j) => posted[i].n < posted[j].n
        /\ \A i \in DOMAIN posted : Waits(i) => NoGapAfter(i)
        /\ listener # 0 /\ ~session.failed /\ Latest(listener).gen = session.gen => LacksWaiting

\* Events wait in the order of the stream, the error behind them.  Those of an active
\* session follow what the worker has told its listener.
Inboxes ==
    \A w \in Worker :
        /\ \A i \in DOMAIN inbox[w] : inbox[w][i].gen = 0 => inbox[w][i] = Closed
        /\ \A i, j \in DOMAIN inbox[w] :
              j = i + 1 /\ inbox[w][j] # Closed => Follows(inbox[w][i], inbox[w][j])
        /\ inbox[w] # <<>> /\ Head(inbox[w]) # Closed =>
              /\ last[w].gen <= Head(inbox[w]).gen
              /\ Active(Head(inbox[w]).gen) => Follows(last[w], Head(inbox[w]))

\* Workers that have not started have been sent nothing.
Idle == \A w \in Worker : w > workers => inbox[w] = <<>> /\ last[w] = Nothing

\* What holds of the parts one by one, and how the order rests on it.
Basic == /\ TypeOK /\ listener <= workers /\ ListenerLives /\ Idle
         /\ Newest /\ Known /\ Settled

IInv == Basic /\ Turn /\ Stream /\ Inboxes

-----------------------------------------------------------------------------
(***************************************************************************)
(* Lemmas about the operators                                              *)
(***************************************************************************)
\* The records that take the place of others are well-typed.
LEMMA Typed ==
    /\ NoSession \in Sessions /\ NoChannel \in Channels
    /\ Nothing \in Events /\ Closed \in Events /\ Nothing.gen = 0 /\ Closed.gen = 0
    /\ \A g \in 0..MaxSessions, n \in Nat : Event(g, n) \in Events
    /\ \A g \in 0..MaxSessions : NewSession(g) \in Sessions
    /\ \A g \in 0..MaxSessions, n \in Nat, k \in {"data", "opened", "refused", "closed", "fail"} :
          B(k, g, n) \in Blocks
<1>1. 0 \in 0..MaxSessions
  OBVIOUS
<1>2. NoSession \in Sessions /\ NoChannel \in Channels
  BY <1>1 DEF NoSession, NoChannel, Sessions, Channels
<1>3. /\ Nothing \in Events /\ Closed \in Events /\ Nothing.gen = 0 /\ Closed.gen = 0
      /\ \A g \in 0..MaxSessions, n \in Nat : Event(g, n) \in Events
  BY <1>1 DEF Nothing, Closed, Event, Events
<1>4. \A g \in 0..MaxSessions : NewSession(g) \in Sessions
  BY DEF NewSession, NoSession, Sessions
<1>5. \A g \in 0..MaxSessions, n \in Nat, k \in {"data", "opened", "refused", "closed", "fail"} :
         B(k, g, n) \in Blocks
  BY DEF B, Blocks
<1>6. QED
  BY <1>2, <1>3, <1>4, <1>5

\* Taking the first block moves the others up.
LEMMA TakesEffect ==
    ASSUME TypeOK, NEW b, Takes(b)
    PROVE  /\ posted # <<>> /\ posted[1] = b /\ 1 \in DOMAIN posted
           /\ posted' \in Seq(Blocks) /\ Len(posted') = Len(posted) - 1 /\ left' \in Nat
           /\ \A i \in DOMAIN posted' : i + 1 \in DOMAIN posted /\ posted'[i] = posted[i + 1]
           /\ \A i \in DOMAIN posted : i # 1 => i - 1 \in DOMAIN posted'
                                               /\ posted'[i - 1] = posted[i]
<1>1. posted \in Seq(Blocks) /\ left \in Nat
  BY DEF TypeOK
<1>2. posted # <<>> /\ Head(posted) = b /\ posted' = Tail(posted)
      /\ left' = (IF left = 0 THEN Len(posted) ELSE left) - 1
  BY DEF Takes
<1>3. QED
  BY <1>1, <1>2

\* Posting a block leaves those before it where they are.
LEMMA PostEffect ==
    ASSUME TypeOK, NEW b \in Blocks, Post(b)
    PROVE  /\ posted' \in Seq(Blocks) /\ left' = left
           /\ Len(posted') = Len(posted) + 1 /\ Len(posted) \in Nat
           /\ DOMAIN posted' = DOMAIN posted \cup {Len(posted')}
           /\ posted'[Len(posted')] = b
           /\ \A i \in DOMAIN posted : posted'[i] = posted[i] /\ i < Len(posted')
  BY DEF TypeOK, Post

\* Sending adds an event to the inbox of one worker.
LEMMA SendEffect ==
    ASSUME TypeOK, NEW w \in 0..MaxListeners, NEW e \in Events, SendTo(w, e)
    PROVE  /\ inbox' \in [Worker -> Seq(Events)]
           /\ \A v \in Worker : v # w => inbox'[v] = inbox[v]
           /\ w # 0 => w \in Worker /\ inbox'[w] = Append(inbox[w], e)
           /\ \A v \in Worker : \A i \in DOMAIN inbox'[v] :
                 (i \in DOMAIN inbox[v] /\ inbox'[v][i] = inbox[v][i]) \/ inbox'[v][i] = e
<1>1. inbox \in [Worker -> Seq(Events)]
  BY DEF TypeOK
<1>2. CASE w = 0
  BY <1>1, <1>2 DEF SendTo
<1>3. CASE w # 0
  <2>1. w \in Worker /\ inbox' = [inbox EXCEPT ![w] = Append(@, e)] /\ inbox[w] \in Seq(Events)
    BY <1>1, <1>3 DEF SendTo
  <2>2. Append(inbox[w], e) \in Seq(Events)
    BY <2>1
  <2>3. \A i \in DOMAIN Append(inbox[w], e) :
           (i \in DOMAIN inbox[w] /\ Append(inbox[w], e)[i] = inbox[w][i])
              \/ Append(inbox[w], e)[i] = e
    BY <2>1
  <2>4. inbox'[w] = Append(inbox[w], e) /\ \A v \in Worker : v # w => inbox'[v] = inbox[v]
    BY <1>1, <2>1
  <2>5. inbox' \in [Worker -> Seq(Events)]
    BY <1>1, <2>1, <2>2
  <2>6. QED
    BY <2>1, <2>3, <2>4, <2>5
<1>4. QED
  BY <1>2, <1>3

-----------------------------------------------------------------------------
(***************************************************************************)
(* Basic is inductive                                                      *)
(***************************************************************************)
\* Blocks stay known when the queue shrinks or gets one of a known session.
Older == \A i \in DOMAIN posted' : posted'[i].gen <= sessions'

\* Events stay known when the inboxes get one of a known session.
Told == \A w \in Worker : /\ last'[w].gen <= sessions'
                          /\ \A i \in DOMAIN inbox'[w] : inbox'[w][i].gen <= sessions'

\* A step that leaves the queue, the inboxes and the workers alone.
LEMMA OldKnown ==
    ASSUME Basic, sessions' \in {sessions, sessions + 1}
    PROVE  /\ UNCHANGED posted => Older
           /\ (\E b : Takes(b)) => Older
           /\ (\E b \in Blocks : b.gen <= sessions /\ Post(b)) => Older
           /\ UNCHANGED <<inbox, last>> => Told
<1>1. /\ TypeOK /\ Known /\ sessions \in Nat /\ sessions <= sessions' /\ sessions' \in Nat
      /\ posted \in Seq(Blocks)
      /\ \A i \in DOMAIN posted : posted[i].gen \in Nat
      /\ \A w \in Worker : last[w].gen \in Nat
      /\ \A w \in Worker : \A i \in DOMAIN inbox[w] : inbox[w][i].gen \in Nat
  <2>1. /\ TypeOK /\ Known /\ sessions \in Nat /\ sessions <= sessions' /\ sessions' \in Nat
        /\ posted \in Seq(Blocks) /\ last \in [Worker -> Events]
        /\ inbox \in [Worker -> Seq(Events)]
    BY DEF Basic, TypeOK
  <2>2. /\ \A b \in Blocks : b.gen \in Nat
        /\ \A e \in Events : e.gen \in Nat
    BY DEF Blocks, Events
  <2>3. \A i \in DOMAIN posted : posted[i] \in Blocks
    BY <2>1
  <2>4. \A w \in Worker : \A i \in DOMAIN inbox[w] : inbox[w][i] \in Events
    <3> SUFFICES ASSUME NEW w \in Worker PROVE \A i \in DOMAIN inbox[w] : inbox[w][i] \in Events
      OBVIOUS
    <3>1. inbox[w] \in Seq(Events)
      BY <2>1
    <3>2. QED
      BY <3>1
  <2>5. QED
    BY <2>1, <2>2, <2>3, <2>4
<1>2. \A i \in DOMAIN posted : posted[i].gen <= sessions'
  BY <1>1 DEF Known
<1>3. UNCHANGED posted => Older
  BY <1>2 DEF Older
<1>4. ASSUME NEW b, Takes(b) PROVE Older
  BY <1>1, <1>2, <1>4, TakesEffect DEF Older
<1>5. ASSUME NEW b \in Blocks, b.gen <= sessions, Post(b) PROVE Older
  <2>1. b.gen <= sessions'
    BY <1>1, <1>5 DEF Blocks
  <2>2. DOMAIN posted' = DOMAIN posted \cup {Len(posted')} /\ posted'[Len(posted')] = b
        /\ \A i \in DOMAIN posted : posted'[i] = posted[i]
    BY <1>1, <1>5, PostEffect
  <2>3. QED
    BY <1>2, <2>1, <2>2 DEF Older
<1>6. ASSUME UNCHANGED <<inbox, last>> PROVE Told
  <2>1. \A w \in Worker : last[w].gen <= sessions'
    BY <1>1 DEF Known
  <2>2. \A w \in Worker : \A i \in DOMAIN inbox[w] : inbox[w][i].gen <= sessions'
    BY <1>1 DEF Known
  <2>3. QED
    BY <1>6, <2>1, <2>2 DEF Told
<1>7. QED
  BY <1>3, <1>4, <1>5, <1>6

\* So do events that are sent to a worker.
LEMMA SentKnown ==
    ASSUME Basic, NEW w \in 0..MaxListeners, NEW e \in Events, SendTo(w, e), e.gen <= sessions,
           sessions' = sessions, last' = last
    PROVE  Told
<1>1. \A v \in Worker : last'[v].gen <= sessions'
  BY DEF Basic, Known
<1>2. ASSUME NEW v \in Worker, NEW i \in DOMAIN inbox'[v]
      PROVE  inbox'[v][i].gen <= sessions'
  <2>1. (i \in DOMAIN inbox[v] /\ inbox'[v][i] = inbox[v][i]) \/ inbox'[v][i] = e
    BY <1>2, SendEffect DEF Basic
  <2>2. QED
    BY <2>1 DEF Basic, Known
<1>3. QED
  BY <1>1, <1>2 DEF Told

\* The listener's worker has started.
LEMMA SentIdle ==
    ASSUME Basic, NEW e \in Events, SendTo(listener, e), UNCHANGED <<workers, last>>
    PROVE  Idle'
<1>1. /\ listener \in 0..MaxListeners /\ workers \in 0..MaxListeners /\ listener <= workers
      /\ Idle
      /\ \A v \in Worker : v # listener => inbox'[v] = inbox[v]
  BY SendEffect DEF Basic, TypeOK
<1>2. QED
  BY <1>1 DEF Idle

\* clear_device_state leaves no listener, and tells the worker at most of the error.
LEMMA ClearEffect ==
    ASSUME Basic, NEW error \in BOOLEAN, Clear(error), sessions' = sessions, last' = last
    PROVE  /\ inbox' \in [Worker -> Seq(Events)] /\ listener' = 0 /\ callback' = FALSE
           /\ Told /\ (inbox' = inbox \/ SendTo(listener, Closed))
<1>1. listener' = 0 /\ callback' = FALSE /\ (inbox' = inbox \/ SendTo(listener, Closed))
      /\ inbox \in [Worker -> Seq(Events)] /\ listener \in 0..MaxListeners
  BY DEF Clear, Basic, TypeOK
<1>2. Closed.gen <= sessions
  BY Typed DEF Basic, TypeOK
<1>3. CASE inbox' = inbox
  BY <1>1, <1>3, OldKnown
<1>4. CASE SendTo(listener, Closed)
  BY <1>1, <1>2, <1>4, Typed, SentKnown, SendEffect DEF Basic
<1>5. QED
  BY <1>1, <1>3, <1>4

\* Data go to the listener of an active session, or nowhere.
LEMMA DeliverEffect ==
    ASSUME Basic, NEW g \in 1..MaxSessions, NEW n \in Nat, Deliver(g, n), g <= sessions,
           sessions' = sessions, last' = last, listener' = listener, running' = running
    PROVE  inbox' \in [Worker -> Seq(Events)] /\ Told /\ ListenerLives'
<1>1. inbox \in [Worker -> Seq(Events)] /\ listener \in 0..MaxListeners
  BY DEF Basic, TypeOK
<1>2. CASE inbox' = inbox
  BY <1>1, <1>2, OldKnown DEF Basic, ListenerLives
<1>3. CASE SendTo(listener, Event(g, n))
  <2> PICK e \in Events : e = Event(g, n)
    BY Typed
  <2>1. e.gen = g /\ e # Closed
    BY DEF Event, Closed
  <2>2. inbox' \in [Worker -> Seq(Events)] /\ Told
    BY <1>1, <1>3, <2>1, SentKnown, SendEffect DEF Basic
  <2>3. ListenerLives'
    <3> SUFFICES ASSUME listener # 0
                 PROVE  /\ listener \in running
                        /\ \A i \in 1..Len(inbox'[listener]) : inbox'[listener][i] # Closed
      BY DEF ListenerLives
    <3>1. listener \in Worker /\ inbox[listener] \in Seq(Events)
          /\ inbox'[listener] \in Seq(Events)
      BY <1>1, <2>2
    <3>2. \A i \in DOMAIN inbox'[listener] :
             (i \in DOMAIN inbox[listener] /\ inbox'[listener][i] = inbox[listener][i])
                \/ inbox'[listener][i] = e
      BY <1>1, <1>3, <3>1, SendEffect DEF Basic
    <3>3. QED
      BY <2>1, <3>1, <3>2 DEF Basic, ListenerLives
  <2>4. QED
    BY <2>2, <2>3
<1>4. QED
  BY <1>2, <1>3 DEF Deliver

\* What close_session leaves.
LEMMA CloseEffect ==
    ASSUME TypeOK, CloseSession
    PROVE  session' = NoSession /\ session' \in Sessions /\ channel' \in Channels
           /\ channel'.gen \in {0, channel.gen}
<1>1. session' = NoSession /\ channel' \in {channel, NoChannel}
  BY DEF CloseSession
<1>2. NoChannel.gen = 0 /\ channel \in Channels
  BY DEF NoChannel, TypeOK
<1>3. QED
  BY <1>1, <1>2, Typed

\* Sessions and channels: what the connections, the callbacks and the blocks do to them.
SessionsOK == /\ session' \in Sessions /\ channel' \in Channels /\ pending' \in BOOLEAN
              /\ sessions' \in 0..MaxSessions /\ sessions' \in {sessions, sessions + 1}
              /\ Newest' /\ Settled'

\* The queue stays one of blocks of known sessions.
QueueOK == posted' \in Seq(Blocks) /\ left' \in Nat /\ sent' \in Nat /\ Older

\* The listener keeps its worker, or is gone.
ListenersOK == /\ listener' \in 0..MaxListeners /\ callback' \in BOOLEAN
               /\ inbox' \in [Worker -> Seq(Events)] /\ last' \in [Worker -> Events]
               /\ running' \subseteq Worker /\ workers' \in 0..MaxListeners
               /\ listener' <= workers' /\ ListenerLives' /\ Idle' /\ Told

\* Together they make Basic.
LEMMA BasicParts ==
    ASSUME SessionsOK, QueueOK, ListenersOK
    PROVE  Basic'
<1>1. TypeOK'
  BY DEF SessionsOK, QueueOK, ListenersOK, TypeOK
<1>2. Known'
  BY DEF QueueOK, ListenersOK, Older, Told, Known
<1>3. QED
  BY <1>1, <1>2 DEF SessionsOK, ListenersOK, Basic

\* The main queue is left alone ...
LEMMA QueueLeft ==
    ASSUME Basic, UNCHANGED queueVars, sent' \in Nat, sessions' \in {sessions, sessions + 1}
    PROVE  QueueOK
  BY OldKnown DEF Basic, TypeOK, QueueOK, queueVars

\* ... its first block is called ...
LEMMA QueueTaken ==
    ASSUME Basic, NEW b, Takes(b), sent' = sent, sessions' = sessions
    PROVE  QueueOK
  BY OldKnown, TakesEffect DEF Basic, TypeOK, QueueOK

\* ... or it gets a block of a session there has been.
LEMMA QueuePosted ==
    ASSUME Basic, NEW b \in Blocks, Post(b), b.gen <= sessions, sent' \in Nat,
           sessions' = sessions
    PROVE  QueueOK
  BY OldKnown, PostEffect DEF Basic, TypeOK, QueueOK

\* The listener is left alone ...
LEMMA ListenersLeft ==
    ASSUME Basic, UNCHANGED <<listener, inbox, workerVars>>, callback' \in BOOLEAN,
           sessions' \in {sessions, sessions + 1}
    PROVE  ListenersOK
<1>1. Told
  BY OldKnown DEF workerVars
<1>2. ListenerLives'
  BY DEF Basic, ListenerLives, workerVars
<1>3. Idle'
  BY DEF Basic, Idle, workerVars
<1>4. QED
  BY <1>1, <1>2, <1>3 DEF Basic, TypeOK, ListenersOK, workerVars

\* ... taken out by clear_device_state ...
LEMMA ListenersCleared ==
    ASSUME Basic, NEW error \in BOOLEAN, Clear(error), UNCHANGED <<sessions, workerVars>>
    PROVE  ListenersOK
<1>1. /\ inbox' \in [Worker -> Seq(Events)] /\ listener' = 0 /\ callback' = FALSE /\ Told
      /\ last' = last /\ running' = running /\ workers' = workers
  BY ClearEffect DEF workerVars
<1>2. ListenerLives'
  BY <1>1 DEF ListenerLives
<1>3. listener' \in 0..MaxListeners /\ listener' <= workers'
  BY <1>1 DEF Basic, TypeOK
<1>4. Idle'
  BY <1>1, SentIdle, Typed, ClearEffect DEF Basic, Idle, workerVars
<1>5. QED
  BY <1>1, <1>2, <1>3, <1>4 DEF Basic, TypeOK, ListenersOK

\* ... or sent data.
LEMMA ListenersDelivered ==
    ASSUME Basic, NEW g \in 1..MaxSessions, NEW n \in Nat, Deliver(g, n), g <= sessions,
           UNCHANGED <<sessions, sharedVars, workerVars>>
    PROVE  ListenersOK
<1>1. inbox' \in [Worker -> Seq(Events)] /\ Told /\ ListenerLives'
  BY DeliverEffect DEF workerVars, sharedVars
<1>2. Idle'
  BY SentIdle, Typed DEF Deliver, Basic, Idle, workerVars, sharedVars
<1>3. QED
  BY <1>1, <1>2 DEF Basic, TypeOK, ListenersOK, workerVars, sharedVars

\* The session is left alone ...
LEMMA SessionsLeft ==
    ASSUME Basic, UNCHANGED <<mainVars, channel>>
    PROVE  SessionsOK
  BY DEF Basic, TypeOK, Newest, Settled, SessionsOK, mainVars

\* ... closed by close_session ...
LEMMA SessionsClosed ==
    ASSUME Basic, CloseSession, pending' \in BOOLEAN, sessions' = sessions
    PROVE  SessionsOK
<1>1. /\ TypeOK /\ Newest /\ NoSession.gen = 0 /\ ~NoSession.opened /\ NoSession.heard = "no"
      /\ session' = NoSession /\ session' \in Sessions /\ channel' \in Channels
      /\ channel'.gen \in {0, channel.gen} /\ sessions \in Nat
  BY CloseEffect DEF Basic, TypeOK, NoSession
<1>2. Newest' /\ Settled'
  BY <1>1 DEF Newest, Settled
<1>3. QED
  BY <1>1, <1>2 DEF SessionsOK, TypeOK

\* ... or opened by handle_open_complete.
LEMMA SessionsOpened ==
    ASSUME Basic, Open(session), session.gen # 0, UNCHANGED <<sessions, channel>>
    PROVE  SessionsOK
<1>1. /\ session \in Sessions /\ channel \in Channels /\ sessions \in 0..MaxSessions
      /\ session' = [session EXCEPT !.opened = TRUE,
                       !.heard = IF pending /\ callback THEN "due" ELSE session.heard]
      /\ pending' = FALSE
  BY DEF Basic, TypeOK, Open
<1>2. session' \in Sessions /\ session'.gen = session.gen /\ session'.opened
  BY <1>1 DEF Sessions
<1>3. Newest' /\ Settled'
  BY <1>1, <1>2 DEF Basic, Newest, Settled
<1>4. QED
  BY <1>1, <1>2, <1>3 DEF SessionsOK

\* connect, try_next_channel, retries, failures and disconnect keep Basic.
LEMMA ConnectionsBasic ==
    ASSUME Basic, Connections
    PROVE  Basic'
<1>1. sent \in Nat /\ callback \in BOOLEAN /\ session \in Sessions /\ channel \in Channels
      /\ sessions \in 0..MaxSessions
  BY DEF Basic, TypeOK
<1>2. CASE Connect
  <2>1. SessionsOK
    BY <1>2 DEF Connect, Basic, TypeOK, Newest, Settled, SessionsOK, nativeVars, NoSession
  <2>2. QED
    BY <1>1, <1>2, <2>1, QueueLeft, ListenersLeft, BasicParts
    DEF Connect, nativeVars, sharedVars
<1>3. CASE TryChannel
  <2>1. /\ sessions' = sessions + 1 /\ sessions' \in 1..MaxSessions
        /\ channel' = [gen |-> sessions', answered |-> FALSE] /\ channel' \in Channels
        /\ NewSession(sessions') \in Sessions
        /\ \/ session' = NewSession(sessions') /\ pending' = pending
           \/ Open(NewSession(sessions'))
    <3>1. sessions' = sessions + 1 /\ sessions' \in 1..MaxSessions
      BY <1>1, <1>3 DEF TryChannel
    <3>2. [gen |-> sessions', answered |-> FALSE] \in Channels
      BY <3>1 DEF Channels
    <3>3. NewSession(sessions') \in Sessions
      BY <3>1, Typed
    <3>4. /\ channel' = [gen |-> sessions', answered |-> FALSE]
          /\ \/ session' = NewSession(sessions') /\ pending' = pending
             \/ Open(NewSession(sessions'))
      BY <1>3 DEF TryChannel
    <3>5. QED
      BY <3>1, <3>2, <3>3, <3>4
  <2>2. NewSession(sessions').gen = sessions' /\ ~NewSession(sessions').opened
        /\ NewSession(sessions').heard = "no"
    BY DEF NewSession, NoSession
  <2>3. /\ session' \in Sessions /\ session'.gen = sessions' /\ pending' \in BOOLEAN
        /\ session'.opened => ~pending'
        /\ session'.heard # "no" => session'.opened
    <3>1. CASE session' = NewSession(sessions') /\ pending' = pending
      BY <1>3, <2>1, <2>2, <3>1 DEF TryChannel
    <3>2. CASE Open(NewSession(sessions'))
      <4> PICK s \in Sessions : s = NewSession(sessions')
        BY <2>1
      <4>1. /\ session' = [s EXCEPT !.opened = TRUE,
                             !.heard = IF pending /\ callback THEN "due" ELSE s.heard]
            /\ pending' = FALSE
        BY <3>2 DEF Open
      <4>2. session' \in Sessions /\ session'.gen = s.gen /\ session'.opened
        BY <4>1 DEF Sessions
      <4>3. QED
        BY <2>2, <4>1, <4>2
    <3>3. QED
      BY <2>1, <3>1, <3>2
  <2>4. SessionsOK
    BY <1>1, <2>1, <2>3 DEF SessionsOK, Newest, Settled
  <2>5. QED
    BY <1>1, <1>3, <2>1, <2>4, QueueLeft, ListenersLeft, BasicParts DEF TryChannel, sharedVars
<1>4. CASE Retry
  BY <1>1, <1>4, SessionsClosed, QueueLeft, ListenersLeft, BasicParts
  DEF Retry, sharedVars, Basic, TypeOK
<1>5. CASE GiveUp
  BY <1>1, <1>5, SessionsClosed, QueueLeft, ListenersCleared, BasicParts
  DEF GiveUp, FailConnection
<1>6. CASE Disconnect
  BY <1>1, <1>6, SessionsClosed, QueueLeft, ListenersCleared, BasicParts DEF Disconnect
<1>7. QED
  BY <1>2, <1>3, <1>4, <1>5, <1>6 DEF Connections

\* The callbacks of IOBluetooth keep Basic.
LEMMA NativeBasic ==
    ASSUME Basic, Native
    PROVE  Basic'
<1>1. /\ sent \in Nat /\ callback \in BOOLEAN /\ session \in Sessions /\ channel \in Channels
      /\ sessions \in 0..MaxSessions /\ channel.gen <= sessions /\ 0 \in Nat
      /\ channel.gen \in 0..MaxSessions /\ session.gen \in 0..MaxSessions
      /\ session.gen <= sessions
  BY DEF Basic, TypeOK, Newest, Channels, Sessions
<1>2. CASE DataReceived
  <2>1. sent' = sent + 1 /\ channel.gen # 0 /\ UNCHANGED <<mainVars, channel, sharedVars, workerVars>>
    BY <1>2 DEF DataReceived
  <2>2. SessionsOK
    BY <2>1, SessionsLeft
  <2>3. CASE Deliver(channel.gen, sent') /\ UNCHANGED queueVars
    BY <1>1, <2>1, <2>2, <2>3, QueueLeft, ListenersDelivered, BasicParts DEF mainVars
  <2>4. CASE Post(B("data", channel.gen, sent')) /\ UNCHANGED inbox
    <3> PICK b \in Blocks : b = B("data", channel.gen, sent')
      BY <1>1, <2>1, Typed
    <3>1. b.gen = channel.gen
      BY DEF B
    <3>2. QED
      BY <1>1, <2>1, <2>2, <2>4, <3>1, QueuePosted, ListenersLeft, BasicParts
      DEF mainVars, sharedVars
  <2>5. QED
    BY <1>2, <2>3, <2>4 DEF DataReceived
<1>3. ASSUME NEW kind \in {"opened", "refused", "closed", "fail"}, NEW g \in {channel.gen, session.gen},
             Post(B(kind, g, 0)), SessionsOK,
             UNCHANGED <<sent, sessions, sharedVars, inbox, workerVars>>
      PROVE  Basic'
  <2> PICK b \in Blocks : b = B(kind, g, 0)
    BY <1>1, <1>3, Typed
  <2>1. b.gen = g
    BY DEF B
  <2>2. QED
    BY <1>1, <1>3, <2>1, QueuePosted, ListenersLeft, BasicParts DEF sharedVars
<1>4. ASSUME NEW kind \in {"opened", "refused"}, OpenComplete(kind)
      PROVE  Basic'
  <2>1. /\ channel' = [channel EXCEPT !.answered = TRUE] /\ UNCHANGED mainVars
        /\ Post(B(kind, channel.gen, 0))
        /\ UNCHANGED <<sent, sessions, sharedVars, inbox, workerVars>>
    BY <1>4 DEF OpenComplete, mainVars
  <2>2. channel' \in Channels /\ channel'.gen = channel.gen
    BY <1>1, <2>1 DEF Channels
  <2>3. SessionsOK
    BY <2>1, <2>2 DEF Basic, TypeOK, Newest, Settled, SessionsOK, mainVars
  <2>4. QED
    BY <1>3, <2>1, <2>3
<1>5. ASSUME channel' = NoChannel, UNCHANGED mainVars
      PROVE  SessionsOK
  <2>1. NoChannel \in Channels /\ NoChannel.gen = 0
    BY Typed DEF NoChannel
  <2>2. QED
    BY <1>1, <1>5, <2>1 DEF Basic, TypeOK, Newest, Settled, SessionsOK, mainVars
<1>6. CASE ChannelClosed
  BY <1>3, <1>5, <1>6 DEF ChannelClosed, mainVars
<1>7. CASE WriteFails
  <2>1. /\ session.opened /\ session' = [session EXCEPT !.failed = TRUE]
        /\ Post(B("fail", session.gen, 0))
        /\ UNCHANGED <<pending, sessions, nativeVars, sharedVars, inbox, workerVars>>
    BY <1>7 DEF WriteFails
  <2>2. /\ session' \in Sessions /\ session'.gen = session.gen
        /\ session'.opened = session.opened /\ session'.heard = session.heard
    BY <1>1, <2>1 DEF Sessions
  <2>3. session.gen # 0
    BY <2>1 DEF Basic, Settled, NoSession
  <2>4. SessionsOK
    BY <1>1, <2>1, <2>2, <2>3 DEF Basic, TypeOK, Newest, Settled, SessionsOK, nativeVars
  <2>5. QED
    BY <1>3, <2>1, <2>4 DEF nativeVars
<1>8. CASE ReleaseRetiring
  BY <1>1, <1>5, <1>8, QueueLeft, ListenersLeft, BasicParts
  DEF ReleaseRetiring, mainVars, sharedVars
<1>9. QED
  BY <1>2, <1>4, <1>6, <1>7, <1>8 DEF Native

\* Posted blocks keep Basic.
LEMMA RunBlockBasic ==
    ASSUME Basic, RunBlock
    PROVE  Basic'
<1>1. sent \in Nat /\ callback \in BOOLEAN /\ pending \in BOOLEAN
  BY DEF Basic, TypeOK
<1>2. PICK g \in Gen : \/ RunOpened(g) \/ RunOpenFailed(g) \/ RunClosed(g) \/ RunFail(g)
                       \/ \E n \in 1..MaxData : RunData(g, n)
  BY DEF RunBlock
<1>3. ASSUME NEW b, Takes(b), SessionsOK, ListenersOK, sent' = sent, sessions' = sessions
      PROVE  Basic'
  BY <1>3, QueueTaken, BasicParts
<1>4. ASSUME NEW n \in 1..MaxData, RunData(g, n)
      PROVE  Basic'
  <2>1. /\ Takes(B("data", g, n)) /\ Deliver(g, n)
        /\ UNCHANGED <<mainVars, nativeVars, sharedVars, workerVars>>
    BY <1>4 DEF RunData
  <2>2. g <= sessions
    <3>1. posted[1] = B("data", g, n) /\ 1 \in DOMAIN posted
      BY <2>1, TakesEffect DEF Basic
    <3>2. QED
      BY <3>1 DEF Basic, Known, B
  <2>3. SessionsOK /\ ListenersOK
    BY <2>1, <2>2, SessionsLeft, ListenersDelivered DEF mainVars, nativeVars
  <2>4. QED
    BY <1>3, <2>1, <2>3 DEF mainVars, nativeVars
<1>5. CASE RunOpened(g)
  <2>1. /\ Takes(B("opened", g, 0))
        /\ UNCHANGED <<sessions, channel, sent, listener, inbox, workerVars, callback>>
    BY <1>5 DEF RunOpened, nativeVars, sharedVars
  <2>2. SessionsOK
    <3>1. CASE IsCurrent(g) /\ Open(session)
      BY <1>2, <2>1, <3>1, SessionsOpened DEF IsCurrent
    <3>2. CASE UNCHANGED <<session, pending>>
      BY <2>1, <3>2, SessionsLeft DEF mainVars
    <3>3. QED
      BY <1>5, <3>1, <3>2 DEF RunOpened
  <2>3. QED
    BY <1>1, <1>3, <2>1, <2>2, ListenersLeft
<1>6. CASE RunOpenFailed(g)
  <2>1. SessionsOK
    BY <1>1, <1>6, SessionsClosed, SessionsLeft DEF RunOpenFailed, mainVars
  <2>2. QED
    BY <1>1, <1>3, <1>6, <2>1, ListenersLeft DEF RunOpenFailed, sharedVars
<1>7. CASE RunClosed(g)
  <2>1. /\ Takes(B("closed", g, 0)) /\ session' \in {session, NoSession}
        /\ UNCHANGED <<pending, sessions, channel, sent, workerVars>>
        /\ (Clear(TRUE) \/ UNCHANGED <<sharedVars, inbox>>)
    BY <1>7 DEF RunClosed, nativeVars
  <2>2. SessionsOK
    <3>1. CASE session' = session
      BY <2>1, <3>1, SessionsLeft DEF mainVars
    <3>2. CASE session' = NoSession
      <4>1. NoSession \in Sessions /\ NoSession.gen = 0 /\ ~NoSession.opened
            /\ NoSession.heard = "no"
        BY Typed DEF NoSession
      <4>2. QED
        BY <2>1, <3>2, <4>1 DEF Basic, TypeOK, Newest, Settled, SessionsOK
    <3>3. QED
      BY <2>1, <3>1, <3>2
  <2>3. ListenersOK
    BY <1>1, <2>1, ListenersCleared, ListenersLeft DEF sharedVars
  <2>4. QED
    BY <1>3, <2>1, <2>2, <2>3
<1>8. CASE RunFail(g)
  <2>1. CASE FailConnection
    BY <1>3, <1>8, <2>1, SessionsClosed, ListenersCleared DEF RunFail, FailConnection
  <2>2. CASE UNCHANGED <<pending, session, channel, sharedVars, inbox>>
    BY <1>1, <1>3, <1>8, <2>2, SessionsLeft, ListenersLeft DEF RunFail, mainVars, sharedVars
  <2>3. QED
    BY <1>8, <2>1, <2>2 DEF RunFail
<1>9. QED
  BY <1>2, <1>4, <1>5, <1>6, <1>7, <1>8

\* The application's threads and the workers keep Basic.
LEMMA ThreadsBasic ==
    ASSUME Basic, OnConnected \/ CallConnected \/ SetDataListener
                    \/ \E w \in Worker : WorkerTurn(w)
    PROVE  Basic'
<1>1. /\ sent \in Nat /\ callback \in BOOLEAN /\ session \in Sessions /\ sessions \in 0..MaxSessions
      /\ listener \in 0..MaxListeners /\ workers \in 0..MaxListeners /\ running \subseteq Worker
      /\ inbox \in [Worker -> Seq(Events)] /\ last \in [Worker -> Events]
      /\ listener <= workers /\ ListenerLives /\ Known /\ Idle
  BY DEF Basic, TypeOK
<1>2. CASE OnConnected
  BY <1>1, <1>2, SessionsLeft, QueueLeft, ListenersLeft, BasicParts
  DEF OnConnected, mainVars, nativeVars
<1>3. CASE CallConnected
  <2>1. /\ session.heard = "due" /\ session' = [session EXCEPT !.heard = "yes"]
        /\ UNCHANGED <<pending, sessions, nativeVars, queueVars, sharedVars, inbox, workerVars>>
    BY <1>3 DEF CallConnected
  <2>2. /\ session' \in Sessions /\ session'.gen = session.gen
        /\ session'.opened = session.opened
    BY <1>1, <2>1 DEF Sessions
  <2>3. session.opened /\ session.gen # 0
    BY <2>1 DEF Basic, Settled, NoSession
  <2>4. SessionsOK
    BY <1>1, <2>1, <2>2, <2>3 DEF Basic, TypeOK, Newest, Settled, SessionsOK, nativeVars
  <2>5. QED
    BY <1>1, <2>1, <2>4, QueueLeft, ListenersLeft, BasicParts DEF nativeVars, sharedVars
<1>4. CASE SetDataListener
  <2>1. /\ workers' = workers + 1 /\ listener' = workers + 1 /\ workers < MaxListeners
        /\ running' = running \cup {workers + 1} /\ workers + 1 \in Worker
        /\ UNCHANGED <<mainVars, nativeVars, queueVars, callback, inbox, last>>
    BY <1>1, <1>4 DEF SetDataListener
  <2>2. SessionsOK /\ QueueOK /\ Told
    BY <1>1, <2>1, SessionsLeft, QueueLeft, OldKnown DEF mainVars, nativeVars
  <2>3. inbox[workers + 1] = <<>>
    BY <1>1, <2>1 DEF Idle
  <2>4. ListenerLives'
    BY <2>1, <2>3 DEF ListenerLives
  <2>5. Idle'
    BY <1>1, <2>1 DEF Idle
  <2>6. ListenersOK
    BY <1>1, <2>1, <2>2, <2>4, <2>5 DEF ListenersOK
  <2>7. QED
    BY <2>2, <2>6, BasicParts
<1>5. ASSUME NEW w \in Worker, NEW q \in Seq(Events), NEW e \in Events, e.gen <= sessions,
             inbox' = [inbox EXCEPT ![w] = q], last' = [last EXCEPT ![w] = e],
             \A i \in DOMAIN q : \E j \in DOMAIN inbox[w] : q[i] = inbox[w][j],
             inbox[w] = <<>> => q = <<>> /\ e = Nothing,
             \/ running' = running
             \/ listener # w /\ running' = running \ {w},
             UNCHANGED <<mainVars, nativeVars, queueVars, sharedVars, workers>>
      PROVE  Basic'
  <2>1. SessionsOK /\ QueueOK
    BY <1>1, <1>5, SessionsLeft, QueueLeft DEF mainVars, nativeVars
  <2>2. Told
    <3>1. \A i \in DOMAIN q : q[i].gen <= sessions
      BY <1>1, <1>5 DEF Known
    <3>2. QED
      BY <1>1, <1>5, <3>1 DEF Told, Known, mainVars
  <2>3. ListenerLives'
    <3>1. CASE listener = w
      <4>1. running' = running /\ \A i \in DOMAIN q : q[i] # Closed
        BY <1>1, <1>5, <3>1 DEF ListenerLives
      <4>2. QED
        BY <1>1, <1>5, <3>1, <4>1 DEF ListenerLives, sharedVars
    <3>2. CASE listener # w
      BY <1>1, <1>5, <3>2 DEF ListenerLives, sharedVars
    <3>3. QED
      BY <3>1, <3>2
  <2>4. Idle'
    BY <1>1, <1>5 DEF Idle
  <2>5. ListenersOK
    BY <1>1, <1>5, <2>2, <2>3, <2>4 DEF ListenersOK, sharedVars
  <2>6. QED
    BY <2>1, <2>5, BasicParts
<1>6. ASSUME NEW w \in Worker, Receive(w)
      PROVE  Basic'
  <2>1. inbox[w] \in Seq(Events) /\ inbox[w] # <<>> /\ Tail(inbox[w]) \in Seq(Events)
    BY <1>1, <1>6 DEF Receive
  <2> DEFINE e == CASE Head(inbox[w]) = Closed -> Nothing
                    [] Head(inbox[w]) # Closed /\ Active(Head(inbox[w]).gen) -> Head(inbox[w])
                    [] OTHER -> last[w]
  <2>2. /\ inbox' = [inbox EXCEPT ![w] = Tail(inbox[w])] /\ last' = [last EXCEPT ![w] = e]
        /\ running' = IF Head(inbox[w]) = Closed THEN running \ {w} ELSE running
        /\ UNCHANGED <<mainVars, nativeVars, queueVars, sharedVars, workers>>
    BY <1>6 DEF Receive
  <2>3. e \in Events /\ e.gen <= sessions
    <3>1. e \in {Nothing, last[w], inbox[w][1]} /\ 1 \in DOMAIN inbox[w]
          /\ inbox[w][1] \in Events
      BY <2>1
    <3>2. QED
      BY <1>1, <3>1, Typed DEF Known
  <2>4. running' = running \/ (listener # w /\ running' = running \ {w})
    <3>1. Head(inbox[w]) = Closed => listener # w
      BY <1>1, <2>1 DEF ListenerLives
    <3>2. QED
      BY <2>2, <3>1
  <2>5. \A i \in DOMAIN Tail(inbox[w]) : \E j \in DOMAIN inbox[w] : Tail(inbox[w])[i] = inbox[w][j]
    BY <2>1
  <2> HIDE DEF e
  <2>6. QED
    BY <1>5, <2>1, <2>2, <2>3, <2>4, <2>5
<1>7. ASSUME NEW w \in Worker, HangUp(w)
      PROVE  Basic'
  <2>1. /\ inbox' = [inbox EXCEPT ![w] = inbox[w]] /\ last' = [last EXCEPT ![w] = Nothing]
        /\ listener # w /\ running' = running \ {w} /\ inbox[w] = <<>>
        /\ UNCHANGED <<mainVars, nativeVars, queueVars, sharedVars, workers>>
    BY <1>1, <1>7 DEF HangUp
  <2>2. inbox[w] \in Seq(Events) /\ Nothing \in Events /\ Nothing.gen <= sessions
    BY <1>1, Typed
  <2>3. QED
    BY <1>5, <2>1, <2>2
<1>8. QED
  BY <1>2, <1>3, <1>4, <1>6, <1>7 DEF WorkerTurn

\* Basic is inductive.
LEMMA NextBasic == Basic /\ [Next]_vars => Basic'
<1> SUFFICES ASSUME Basic, [Next]_vars
             PROVE  Basic'
  OBVIOUS
<1>1. CASE UNCHANGED vars
  BY <1>1, SessionsLeft, QueueLeft, ListenersLeft, BasicParts
  DEF vars, mainVars, nativeVars, sharedVars, Basic, TypeOK
<1>2. QED
  BY <1>1, ConnectionsBasic, NativeBasic, RunBlockBasic, ThreadsBasic DEF Next

-----------------------------------------------------------------------------
(***************************************************************************)
(* Turns of the main queue                                                 *)
(***************************************************************************)
\* The session that is open was open before, or no data of it have arrived yet.
OpenBefore ==
    session'.opened => \/ session.opened /\ session'.gen = session.gen
                       \/ \A i \in DOMAIN posted : posted[i].gen # session'.gen

\* A step that leaves the queue alone.
LEMMA TurnLeft ==
    ASSUME Turn, UNCHANGED queueVars, OpenBefore
    PROVE  Turn'
  BY DEF Turn, queueVars, OpenBefore, Callback, Waits

\* After the last block of a turn the queue is empty.
LEMMA TurnTaken ==
    ASSUME TypeOK, Turn, NEW b, Takes(b)
    PROVE  Turn'
<1>1. /\ Len(posted') = Len(posted) - 1 /\ posted' \in Seq(Blocks)
      /\ left' = (IF left = 0 THEN Len(posted) ELSE left) - 1
  BY TakesEffect DEF Takes
<1>2. left' = Len(posted')
  BY <1>1 DEF Turn
<1>3. left' = 0 => DOMAIN posted' = {}
  BY <1>1, <1>2
<1>4. QED
  BY <1>2, <1>3 DEF Turn, Callback, Waits

\* Between two turns, only data of a session that is not open are posted.
LEMMA TurnPosted ==
    ASSUME TypeOK, Turn, Callback, NEW b \in Blocks, Post(b),
           session'.gen = session.gen, session'.opened = session.opened,
           b.kind = "data" /\ b.gen = session.gen => ~session.opened
    PROVE  Turn'
<1>1. /\ left' = 0 /\ DOMAIN posted' = DOMAIN posted \cup {Len(posted')}
      /\ posted'[Len(posted')] = b /\ \A i \in DOMAIN posted : posted'[i] = posted[i]
  BY PostEffect DEF Callback
<1>2. QED
  BY <1>1 DEF Turn, Callback, Waits

\* Turn is inductive on top of Basic.
LEMMA NextTurn == Basic /\ Turn /\ [Next]_vars => Turn'
<1> SUFFICES ASSUME Basic, Turn, [Next]_vars
             PROVE  Turn'
  OBVIOUS
<1>1. /\ TypeOK /\ channel.gen \in 0..MaxSessions /\ session.gen \in 0..MaxSessions
      /\ ~NoSession.opened /\ sent \in Nat /\ session \in Sessions /\ 0 \in Nat
  BY DEF Basic, TypeOK, Channels, Sessions, NoSession
<1>2. ASSUME UNCHANGED queueVars, UNCHANGED session \/ session' = NoSession
      PROVE  Turn'
  BY <1>1, <1>2, TurnLeft DEF OpenBefore
<1>3. CASE UNCHANGED vars
  BY <1>2, <1>3 DEF vars, mainVars
<1>4. CASE Connections
  <2>1. CASE TryChannel
    <3>1. session'.gen = sessions + 1
      BY <2>1 DEF TryChannel, Open, NewSession, NoSession
    <3>2. \A i \in DOMAIN posted : posted[i].gen # sessions + 1
      <4>1. posted \in Seq(Blocks) /\ sessions \in Nat /\ \A b \in Blocks : b.gen \in Nat
        BY <1>1 DEF TypeOK, Blocks
      <4>2. \A i \in DOMAIN posted : posted[i] \in Blocks /\ posted[i].gen <= sessions
        BY <4>1 DEF Basic, Known
      <4>3. QED
        BY <4>1, <4>2
    <3>3. QED
      BY <2>1, <3>1, <3>2, TurnLeft DEF TryChannel, OpenBefore
  <2>2. QED
    BY <1>2, <1>4, <2>1
    DEF Connections, Connect, Retry, GiveUp, Disconnect, FailConnection, CloseSession
<1>5. CASE Native
  <2>1. ASSUME NEW kind \in {"opened", "refused", "closed", "fail"},
               NEW g \in {channel.gen, session.gen},
               Callback, Post(B(kind, g, 0)), session'.gen = session.gen,
               session'.opened = session.opened
        PROVE  Turn'
    <3> PICK b \in Blocks : b = B(kind, g, 0)
      BY <1>1, Typed
    <3>1. b.kind # "data"
      BY DEF B
    <3>2. QED
      BY <1>1, <2>1, <3>1, TurnPosted
  <2>2. CASE DataReceived
    <3>1. CASE UNCHANGED <<queueVars, session>>
      BY <1>2, <3>1
    <3>2. CASE /\ ~(IsCurrent(channel.gen) /\ session.opened)
               /\ Post(B("data", channel.gen, sent + 1))
      <4> PICK b \in Blocks : b = B("data", channel.gen, sent + 1)
        BY <1>1, Typed
      <4>1. b.gen = channel.gen
        BY DEF B
      <4>2. QED
        BY <1>1, <2>2, <3>2, <4>1, TurnPosted DEF DataReceived, mainVars, IsCurrent
    <3>3. QED
      BY <2>2, <3>1, <3>2 DEF DataReceived, mainVars
  <2>3. CASE WriteFails
    <3>1. session'.gen = session.gen /\ session'.opened = session.opened
      BY <1>1, <2>3 DEF WriteFails, Sessions
    <3>2. QED
      BY <2>1, <2>3, <3>1 DEF WriteFails
  <2>4. CASE ReleaseRetiring
    BY <1>2, <2>4 DEF ReleaseRetiring, mainVars
  <2>5. QED
    BY <1>5, <2>1, <2>2, <2>3, <2>4 DEF Native, ChannelClosed, OpenComplete, mainVars
<1>6. CASE RunBlock
  BY <1>1, <1>6, TurnTaken
  DEF RunBlock, RunOpened, RunOpenFailed, RunClosed, RunFail, RunData
<1>7. CASE CallConnected
  <2>1. session'.gen = session.gen /\ session'.opened = session.opened /\ UNCHANGED queueVars
    BY <1>1, <1>7 DEF CallConnected, Sessions
  <2>2. QED
    BY <2>1, TurnLeft DEF OpenBefore
<1>8. CASE OnConnected \/ SetDataListener \/ \E w \in Worker : WorkerTurn(w)
  BY <1>2, <1>8 DEF OnConnected, SetDataListener, WorkerTurn, Receive, HangUp, mainVars
<1>9. QED
  BY <1>3, <1>4, <1>5, <1>6, <1>7, <1>8 DEF Next

-----------------------------------------------------------------------------
(***************************************************************************)
(* The order of the stream                                                 *)
(***************************************************************************)
\* A session goes on, ends, or a new one begins: none comes back.
Onward == \/ session'.gen = session.gen /\ (session.failed => session'.failed)
          \/ session'.gen = 0
          \/ session'.gen = sessions + 1 /\ TryChannel

\* Sessions never come back, and a failed one does not recover.
LEMMA SessionsOnward == Basic /\ [Next]_vars => Onward
<1> SUFFICES ASSUME Basic, [Next]_vars
             PROVE  Onward
  OBVIOUS
<1>1. session \in Sessions /\ NoSession.gen = 0
  BY DEF Basic, TypeOK, NoSession
<1>2. ASSUME session' = session \/ session' = NoSession PROVE Onward
  BY <1>1, <1>2 DEF Onward
<1>3. ASSUME session' = [session EXCEPT !.failed = TRUE] PROVE Onward
  BY <1>1, <1>3 DEF Onward, Sessions
<1>4. ASSUME session' = [session EXCEPT !.heard = "yes"] PROVE Onward
  BY <1>1, <1>4 DEF Onward, Sessions
<1>5. ASSUME Open(session) PROVE Onward
  BY <1>1, <1>5 DEF Onward, Sessions, Open
<1>6. CASE TryChannel
  BY <1>6 DEF TryChannel, Open, NewSession, NoSession, Onward
<1>7. CASE RunBlock
  BY <1>2, <1>5, <1>7 DEF RunBlock, RunOpened, RunOpenFailed, RunClosed, RunFail, RunData,
     FailConnection, CloseSession, mainVars
<1>8. QED
  BY <1>2, <1>3, <1>4, <1>6, <1>7
  DEF Next, vars, Connections, Native, Connect, Retry, GiveUp, Disconnect, FailConnection,
      CloseSession, DataReceived, ChannelClosed, WriteFails, ReleaseRetiring, OpenComplete,
      OnConnected, CallConnected, SetDataListener, WorkerTurn, Receive, HangUp, mainVars

\* What is known of the events of an inbox.
LEMMA EventFacts ==
    ASSUME Basic, NEW w \in Worker
    PROVE  /\ sessions \in Nat /\ last[w] \in Events /\ inbox[w] \in Seq(Events)
           /\ last[w].gen \in 0..sessions /\ last[w].n \in Nat
           /\ \A i \in DOMAIN inbox[w] : /\ inbox[w][i] \in Events
                                         /\ inbox[w][i].gen \in 0..sessions
                                         /\ inbox[w][i].n \in Nat
           /\ inbox[w] # <<>> => /\ Head(inbox[w]) = inbox[w][1] /\ 1 \in DOMAIN inbox[w]
                                 /\ Len(inbox[w]) \in DOMAIN inbox[w]
           /\ Latest(w) \in Events /\ Latest(w).gen \in 0..sessions
<1>1. sessions \in Nat /\ last[w] \in Events /\ inbox[w] \in Seq(Events)
      /\ \A e \in Events : e.gen \in Nat /\ e.n \in Nat
  <2>1. sessions \in Nat /\ last[w] \in Events /\ inbox[w] \in Seq(Events)
    BY DEF Basic, TypeOK
  <2>2. \A e \in Events : e.gen \in Nat /\ e.n \in Nat
    BY DEF Events
  <2>3. QED
    BY <2>1, <2>2
<1>2. \A i \in DOMAIN inbox[w] : inbox[w][i] \in Events /\ inbox[w][i].gen <= sessions
  BY <1>1 DEF Basic, Known
<1>3. last[w].gen <= sessions
  BY DEF Basic, Known
<1>4. inbox[w] # <<>> => /\ Head(inbox[w]) = inbox[w][1] /\ 1 \in DOMAIN inbox[w]
                         /\ Len(inbox[w]) \in DOMAIN inbox[w]
  BY <1>1
<1>5. \A i \in DOMAIN inbox[w] : inbox[w][i].gen \in 0..sessions /\ inbox[w][i].n \in Nat
  BY <1>1, <1>2
<1>6. last[w].gen \in 0..sessions /\ last[w].n \in Nat
  BY <1>1, <1>3
<1>7. Latest(w) \in Events /\ Latest(w).gen \in 0..sessions
  BY <1>1, <1>2, <1>4, <1>5, <1>6 DEF Latest
<1>8. QED
  BY <1>1, <1>2, <1>4, <1>5, <1>6, <1>7

\* What Inboxes says of one worker.
InboxOf(w) ==
    /\ \A i \in DOMAIN inbox[w] : inbox[w][i].gen = 0 => inbox[w][i] = Closed
    /\ \A i, j \in DOMAIN inbox[w] :
          j = i + 1 /\ inbox[w][j] # Closed => Follows(inbox[w][i], inbox[w][j])
    /\ inbox[w] # <<>> /\ Head(inbox[w]) # Closed =>
          /\ last[w].gen <= Head(inbox[w]).gen
          /\ Active(Head(inbox[w]).gen) => Follows(last[w], Head(inbox[w]))

\* An event that waits in an inbox does not become active.
LEMMA NoRevival ==
    ASSUME Basic, Onward, NEW w \in Worker, InboxOf(w),
           inbox[w] # <<>>, Head(inbox[w]) # Closed,
           session'.gen = Head(inbox[w]).gen, ~session'.failed
    PROVE  Active(Head(inbox[w]).gen)
<1>1. Head(inbox[w]).gen \in 1..sessions /\ sessions \in Nat
  BY EventFacts DEF InboxOf
<1>2. QED
  BY <1>1 DEF Onward, Active, IsCurrent

\* An inbox that a step leaves alone stays in order.
LEMMA InboxLeft ==
    ASSUME Basic, Onward, NEW w \in Worker, InboxOf(w),
           inbox'[w] = inbox[w], last'[w] = last[w]
    PROVE  InboxOf(w)'
  BY NoRevival DEF InboxOf, Active, IsCurrent

\* So does one that is sent the error, or a datum that continues the stream.
LEMMA InboxSent ==
    ASSUME Basic, Onward, NEW w \in Worker, InboxOf(w), NEW e \in Events,
           inbox'[w] = Append(inbox[w], e), last'[w] = last[w],
           e # Closed => e.gen = sessions /\ e.gen # 0 /\ Follows(Latest(w), e)
    PROVE  InboxOf(w)'
<1> DEFINE q == inbox[w]
           p == inbox'[w]
<1>1. /\ q \in Seq(Events) /\ Len(p) = Len(q) + 1 /\ Len(q) \in Nat
      /\ DOMAIN p = DOMAIN q \cup {Len(p)} /\ p[Len(p)] = e
      /\ \A i \in DOMAIN q : p[i] = q[i] /\ i \in Nat /\ i <= Len(q)
      /\ p # <<>> /\ Head(p) = IF q = <<>> THEN e ELSE Head(q)
      /\ q = <<>> => DOMAIN q = {}
  <2>1. q \in Seq(Events) /\ p = Append(q, e)
    BY EventFacts
  <2>2. QED
    BY <2>1
<1>2. \A i \in DOMAIN p : p[i].gen = 0 => p[i] = Closed
  BY <1>1 DEF InboxOf
<1>3. ASSUME NEW i \in DOMAIN p, NEW j \in DOMAIN p, j = i + 1, p[j] # Closed
      PROVE  Follows(p[i], p[j])
  <2>1. i \in DOMAIN q
    BY <1>1, <1>3
  <2>2. CASE j \in DOMAIN q
    BY <1>1, <1>3, <2>1, <2>2 DEF InboxOf
  <2>3. CASE j = Len(p)
    <3>1. i = Len(q) /\ q # <<>>
      BY <1>1, <1>3, <2>1, <2>3
    <3>2. p[i] = Latest(w) /\ p[j] = e
      BY <1>1, <2>1, <2>3, <3>1 DEF Latest
    <3>3. QED
      BY <1>3, <3>2
  <2>4. QED
    BY <1>1, <1>3, <2>2, <2>3
<1>4. ASSUME Head(p) # Closed
      PROVE  /\ last[w].gen <= Head(p).gen
             /\ session'.gen = Head(p).gen /\ ~session'.failed => Follows(last[w], Head(p))
  <2>1. CASE q = <<>>
    <3>1. Head(p) = e /\ Latest(w) = last[w]
      BY <1>1, <2>1 DEF Latest
    <3>2. last[w].gen \in 0..sessions /\ sessions \in Nat
      BY EventFacts
    <3>3. QED
      BY <1>4, <3>1, <3>2
  <2>2. CASE q # <<>>
    BY <1>1, <1>4, <2>2, NoRevival DEF InboxOf, Active, IsCurrent
  <2>3. QED
    BY <2>1, <2>2
<1> HIDE DEF p
<1>5. QED
  BY <1>2, <1>3, <1>4 DEF InboxOf, Active, IsCurrent, p

\* And one from which the worker takes an event.
LEMMA InboxReceived ==
    ASSUME Basic, UNCHANGED session, NEW w \in Worker, InboxOf(w), Receive(w)
    PROVE  /\ InboxOf(w)'
           /\ last'[w] \notin {last[w], Nothing} => Follows(last[w], last'[w])
<1> DEFINE q == inbox[w]
           e == Head(inbox[w])
<1>1. /\ q \in Seq(Events) /\ q # <<>> /\ inbox'[w] = Tail(q)
      /\ last'[w] = CASE e = Closed -> Nothing
                      [] e # Closed /\ Active(e.gen) -> e
                      [] OTHER -> last[w]
  BY DEF Receive, Basic, TypeOK
<1> DEFINE p == Tail(q)
<1>2. /\ e = q[1] /\ 1 \in DOMAIN q
      /\ \A i \in DOMAIN p : i \in Nat /\ i + 1 \in DOMAIN q /\ p[i] = q[i + 1]
      /\ p # <<>> => Head(p) = q[2] /\ 2 \in DOMAIN q
  BY <1>1
<1>3. \A i \in DOMAIN p : p[i].gen = 0 => p[i] = Closed
  BY <1>2 DEF InboxOf
<1>4. ASSUME NEW i \in DOMAIN p, NEW j \in DOMAIN p, j = i + 1, p[j] # Closed
      PROVE  Follows(p[i], p[j])
  BY <1>2, <1>4 DEF InboxOf
<1>5. last'[w] \notin {last[w], Nothing} => Follows(last[w], last'[w])
  <2>1. CASE e # Closed /\ Active(e.gen)
    <3>1. last'[w] = e /\ Follows(last[w], e)
      BY <1>1, <2>1 DEF InboxOf
    <3>2. QED
      BY <3>1
  <2>2. CASE e = Closed
    <3>1. last'[w] = Nothing
      BY <1>1, <2>2
    <3>2. QED
      BY <3>1
  <2>3. CASE e # Closed /\ ~Active(e.gen)
    <3>1. last'[w] = last[w]
      BY <1>1, <2>3
    <3>2. QED
      BY <3>1
  <2>4. QED
    BY <2>1, <2>2, <2>3
<1>6. ASSUME p # <<>>, Head(p) # Closed
      PROVE  /\ last'[w].gen <= Head(p).gen
             /\ Active(Head(p).gen) => Follows(last'[w], Head(p))
  <2> DEFINE f == q[2]
  <2>1. Head(p) = f /\ f # Closed /\ 2 \in DOMAIN q /\ f.gen \in Nat /\ e.gen \in Nat
        /\ last[w].gen \in Nat
    <3>1. Head(p) = q[2] /\ 1 \in DOMAIN q /\ 2 \in DOMAIN q /\ e = q[1]
      BY <1>2, <1>6
    <3>2. q[2].gen \in 0..sessions /\ q[1].gen \in 0..sessions /\ last[w].gen \in 0..sessions
          /\ sessions \in Nat
      BY <3>1, EventFacts
    <3> HIDE DEF p, q, e
    <3>3. QED
      BY <1>6, <3>1, <3>2
  <2>2. Follows(e, f) /\ f.gen # 0
    <3>1. Follows(q[1], q[2])
      BY <1>2, <2>1 DEF InboxOf
    <3>2. f.gen # 0
      BY <2>1 DEF InboxOf
    <3>3. QED
      BY <1>2, <3>1, <3>2
  <2>3. CASE e = Closed
    <3>1. last'[w].gen = 0
      BY <1>1, <2>3, Typed
    <3> HIDE DEF e, f
    <3>2. QED
      BY <2>1, <2>2, <3>1 DEF Follows
  <2>4. CASE e # Closed /\ Active(e.gen)
    <3>1. last'[w] = e
      BY <1>1, <2>4
    <3>2. QED
      BY <2>1, <2>2, <3>1 DEF Follows
  <2>5. CASE e # Closed /\ ~Active(e.gen)
    <3>1. last'[w] = last[w] /\ last[w].gen <= e.gen
      BY <1>1, <2>5 DEF InboxOf
    <3> HIDE DEF e, f
    <3>2. Active(f.gen) => f.gen # e.gen
      BY <2>5
    <3>3. f.gen >= e.gen
      BY <2>1, <2>2 DEF Follows
    <3>4. last'[w].gen <= f.gen
      BY <2>1, <3>1, <3>3
    <3>5. ASSUME Active(f.gen) PROVE f.gen > last'[w].gen
      <4>1. f.gen # e.gen
        BY <3>2, <3>5
      <4>2. f.gen > e.gen
        BY <2>1, <3>3, <4>1
      <4>3. QED
        BY <2>1, <3>1, <4>2
    <3>6. QED
      BY <2>1, <3>4, <3>5 DEF Follows
  <2>6. QED
    BY <2>3, <2>4, <2>5
<1> HIDE DEF p, e
<1>7. QED
  BY <1>1, <1>3, <1>4, <1>5, <1>6 DEF InboxOf, Active, IsCurrent, p

\* The datum that arrives for an open session continues what its listener was told.
LEMMA DirectFollows ==
    ASSUME Basic, Turn, Stream, Callback, session.opened, ~session.failed, listener # 0
    PROVE  /\ session.gen = sessions /\ session.gen # 0
           /\ Follows(Latest(listener), Event(session.gen, sent + 1))
<1>1. /\ session.gen = sessions /\ session.gen # 0 /\ sent \in Nat /\ listener \in Worker
  BY DEF Basic, TypeOK, Settled, Newest, NoSession
<1>2. Latest(listener).gen \in 0..sessions /\ Latest(listener).n \in Nat /\ sessions \in Nat
  BY <1>1, EventFacts DEF Events
<1>3. ASSUME Latest(listener).gen = session.gen
      PROVE  Latest(listener).n = sent
  <2>1. Latest(listener).n <= sent /\ WaitsFrom(Latest(listener).n)
    BY <1>1, <1>3 DEF Stream, LacksWaiting
  <2>2. \A i \in DOMAIN posted : ~Waits(i)
    BY DEF Turn
  <2>3. (Latest(listener).n + 1)..sent = {}
    BY <2>1, <2>2 DEF WaitsFrom
  <2>4. QED
    BY <1>1, <1>2, <2>1, <2>3
<1>4. QED
  BY <1>1, <1>2, <1>3 DEF Follows, Event

\* So does the first datum of an active session that waits in the main queue.
LEMMA PostedFollows ==
    ASSUME Basic, Stream, 1 \in DOMAIN posted, Waits(1), session.gen # 0,
           ~session.failed, listener # 0
    PROVE  /\ session.gen = sessions /\ posted[1].n \in Nat
           /\ Follows(Latest(listener), Event(session.gen, posted[1].n))
<1>1. /\ session.gen = sessions /\ sent \in Nat /\ listener \in Worker
      /\ posted \in Seq(Blocks) /\ \A b \in Blocks : b.n \in Nat
  BY DEF Basic, TypeOK, Newest, Blocks
<1>2. /\ Latest(listener).gen \in 0..sessions /\ Latest(listener).n \in Nat /\ sessions \in Nat
      /\ \A i \in DOMAIN posted : i \in Nat /\ i >= 1 /\ posted[i].n \in Nat
  <2>1. \A i \in DOMAIN posted : i \in Nat /\ i >= 1 /\ posted[i] \in Blocks
    BY <1>1
  <2>2. QED
    BY <1>1, <2>1, EventFacts DEF Events
<1>3. ASSUME Latest(listener).gen = session.gen
      PROVE  posted[1].n = Latest(listener).n + 1
  <2>1. /\ Latest(listener).n < posted[1].n /\ posted[1].n <= sent
        /\ WaitsFrom(Latest(listener).n)
    BY <1>3 DEF Stream, NoGapAfter, LacksWaiting
  <2>2. Latest(listener).n + 1 \in (Latest(listener).n + 1)..sent
    BY <1>1, <1>2, <2>1
  <2>3. PICK i \in DOMAIN posted : Waits(i) /\ posted[i].n = Latest(listener).n + 1
    BY <2>1, <2>2 DEF WaitsFrom
  <2>4. i = 1 \/ posted[1].n < posted[i].n
    BY <1>2, <2>3 DEF Stream
  <2>5. QED
    BY <1>1, <1>2, <2>1, <2>3, <2>4
<1>4. QED
  BY <1>1, <1>2, <1>3 DEF Follows, Event

\* Inboxes is inductive on top of the others: nothing but a worker and who sends to it
\* changes an inbox.
LEMMA NextInboxes == Basic /\ Turn /\ Stream /\ Inboxes /\ [Next]_vars => Inboxes'
<1> SUFFICES ASSUME Basic, Turn, Stream, Inboxes, [Next]_vars
             PROVE  Inboxes'
  OBVIOUS
<1>1. Onward /\ \A w \in Worker : InboxOf(w)
  BY SessionsOnward DEF Inboxes, InboxOf
<1>2. ASSUME \A w \in Worker : InboxOf(w)' PROVE Inboxes'
  BY <1>2 DEF Inboxes, InboxOf
<1>3. ASSUME UNCHANGED <<inbox, last>> PROVE Inboxes'
  BY <1>1, <1>2, <1>3, InboxLeft
<1>4. ASSUME NEW e \in Events, SendTo(listener, e), last' = last,
             e # Closed /\ listener # 0 =>
                e.gen = sessions /\ e.gen # 0 /\ Follows(Latest(listener), e)
      PROVE  Inboxes'
  <2>1. /\ listener \in 0..MaxListeners /\ TypeOK
        /\ \A v \in Worker : v # listener => inbox'[v] = inbox[v]
        /\ listener # 0 => inbox'[listener] = Append(inbox[listener], e)
    BY <1>4, SendEffect DEF Basic, TypeOK
  <2>2. ASSUME NEW w \in Worker PROVE InboxOf(w)'
    <3>1. CASE w = listener
      BY <1>1, <1>4, <2>1, <3>1, InboxSent
    <3>2. CASE w # listener
      BY <1>1, <1>4, <2>1, <3>2, InboxLeft
    <3>3. QED
      BY <3>1, <3>2
  <2>3. QED
    BY <1>2, <2>2
<1>5. ASSUME Clear(TRUE) \/ Clear(FALSE), last' = last PROVE Inboxes'
  BY <1>3, <1>4, <1>5, Typed DEF Clear
<1>6. CASE DataReceived
  <2>1. CASE inbox' = inbox
    BY <1>3, <1>6, <2>1 DEF DataReceived, workerVars
  <2>2. CASE inbox' # inbox
    <3>1. /\ Callback /\ session.opened /\ ~session.failed /\ session.gen = channel.gen
          /\ SendTo(listener, Event(session.gen, sent + 1)) /\ last' = last
      BY <1>6, <2>2 DEF DataReceived, Deliver, Active, IsCurrent, workerVars
    <3>2. session.gen \in 0..MaxSessions /\ sent + 1 \in Nat
      BY DEF Basic, TypeOK, Sessions
    <3> PICK e \in Events : e = Event(session.gen, sent + 1)
      BY <3>2, Typed
    <3>3. e.gen = session.gen
      BY DEF Event
    <3>4. QED
      BY <1>4, <3>1, <3>3, DirectFollows
  <2>3. QED
    BY <2>1, <2>2
<1>7. ASSUME NEW g \in Gen, NEW n \in 1..MaxData, RunData(g, n)
      PROVE  Inboxes'
  <2>1. CASE inbox' = inbox
    BY <1>3, <1>7, <2>1 DEF RunData, workerVars
  <2>2. CASE inbox' # inbox
    <3>1. /\ ~session.failed /\ session.gen = g /\ g # 0
          /\ SendTo(listener, Event(session.gen, n)) /\ last' = last
      BY <1>7, <2>2 DEF RunData, Deliver, Active, IsCurrent, workerVars
    <3>2. 1 \in DOMAIN posted /\ posted[1] = B("data", g, n)
      BY <1>7, TakesEffect DEF RunData, Basic
    <3>3. Waits(1) /\ posted[1].n = n
      BY <3>1, <3>2 DEF Waits, B
    <3> PICK e \in Events : e = Event(session.gen, n)
      BY <3>1, Typed
    <3>4. e.gen = session.gen
      BY DEF Event
    <3>5. QED
      BY <1>4, <3>1, <3>2, <3>3, <3>4, PostedFollows
  <2>3. QED
    BY <2>1, <2>2
<1>8. ASSUME NEW w \in Worker, Receive(w)
      PROVE  Inboxes'
  <2>1. /\ UNCHANGED session
        /\ \A v \in Worker : v # w => inbox'[v] = inbox[v] /\ last'[v] = last[v]
    BY <1>8 DEF Receive, mainVars, Basic, TypeOK
  <2>2. ASSUME NEW v \in Worker PROVE InboxOf(v)'
    BY <1>1, <1>8, <2>1, InboxLeft, InboxReceived
  <2>3. QED
    BY <1>2, <2>2
<1>9. ASSUME NEW w \in Worker, HangUp(w)
      PROVE  Inboxes'
  <2>1. /\ UNCHANGED <<session, inbox>> /\ inbox[w] = <<>>
        /\ \A v \in Worker : v # w => last'[v] = last[v]
    BY <1>9 DEF HangUp, mainVars, Basic, TypeOK
  <2>2. ASSUME NEW v \in Worker PROVE InboxOf(v)'
    <3>1. CASE v = w
      BY <2>1, <3>1 DEF InboxOf
    <3>2. CASE v # w
      BY <1>1, <2>1, <3>2, InboxLeft
    <3>3. QED
      BY <3>1, <3>2
  <2>3. QED
    BY <1>2, <2>2
<1>10. CASE RunBlock
  BY <1>3, <1>5, <1>7, <1>10
  DEF RunBlock, RunOpened, RunOpenFailed, RunClosed, RunFail, FailConnection, workerVars
<1>11. CASE Connections
  BY <1>3, <1>5, <1>11
  DEF Connections, Connect, TryChannel, Retry, GiveUp, Disconnect, FailConnection, workerVars
<1>12. CASE Native
  BY <1>3, <1>6, <1>12
  DEF Native, OpenComplete, ChannelClosed, WriteFails, ReleaseRetiring, workerVars
<1>13. QED
  BY <1>3, <1>8, <1>9, <1>10, <1>11, <1>12
  DEF Next, vars, workerVars, OnConnected, CallConnected, SetDataListener, WorkerTurn

\* What the listener is to be told next is not touched by a step that leaves it alone,
\* or tells what is new of a session that did not last.
SameLatest == listener' # 0 /\ session'.gen # 0 /\ ~session'.failed =>
                 \/ listener' = listener /\ Latest(listener)' = Latest(listener)
                 \/ Latest(listener)'.gen # session'.gen

\* The data that wait keep their order in a queue that lost its first block (d = 1), or
\* none (d = 0), and those that wait are still there.
Shifted(d) ==
    /\ \A i \in DOMAIN posted' : posted'[i].kind = "data" /\ posted'[i].gen = session.gen =>
          i + d \in DOMAIN posted /\ posted[i + d] = posted'[i]
    /\ \A i \in DOMAIN posted : Waits(i) => i - d \in DOMAIN posted' /\ posted'[i - d] = posted[i]

\* A step that is not about data keeps Stream.
LEMMA StreamShifted ==
    ASSUME Basic, Basic', Stream, sent' = sent, SameLatest, NEW d \in {0, 1}, Shifted(d),
           session'.gen # 0 => session'.gen = session.gen /\ (session.failed => session'.failed)
    PROVE  Stream'
<1> SUFFICES ASSUME session'.gen # 0
             PROVE  /\ \A i, j \in DOMAIN posted' :
                          i < j /\ Waits(i)' /\ Waits(j)' => posted'[i].n < posted'[j].n
                    /\ \A i \in DOMAIN posted' : Waits(i)' => NoGapAfter(i)'
                    /\ listener' # 0 /\ ~session'.failed /\ Latest(listener)'.gen = session'.gen =>
                          LacksWaiting'
  BY DEF Stream
<1>1. /\ session.gen # 0 /\ session'.gen = session.gen
      /\ \A i \in DOMAIN posted : i \in Nat
      /\ \A i \in DOMAIN posted : Waits(i) => i - d \in DOMAIN posted' /\ posted'[i - d] = posted[i]
  <2>1. posted \in Seq(Blocks)
    BY DEF Basic, TypeOK
  <2>2. QED
    BY <2>1 DEF Shifted
<1>2. ASSUME NEW i \in DOMAIN posted', Waits(i)'
      PROVE  i + d \in DOMAIN posted /\ Waits(i + d) /\ posted[i + d] = posted'[i] /\ i \in Int
  <2>1. i + d \in DOMAIN posted /\ posted[i + d] = posted'[i]
    BY <1>1, <1>2 DEF Shifted, Waits
  <2>2. i \in Int
    <3>1. posted' \in Seq(Blocks)
      BY DEF Basic, TypeOK
    <3>2. QED
      BY <1>2, <3>1
  <2>3. QED
    BY <1>1, <1>2, <2>1, <2>2 DEF Waits
<1>3. ASSUME NEW k, WaitsFrom(k)
      PROVE  WaitsFrom(k)'
  BY <1>1, <1>3 DEF WaitsFrom, Waits
<1>4. ASSUME NEW i \in DOMAIN posted', NEW j \in DOMAIN posted', i < j, Waits(i)', Waits(j)'
      PROVE  posted'[i].n < posted'[j].n
  <2>1. i + d < j + d
    BY <1>2, <1>4
  <2>2. QED
    BY <1>1, <1>2, <1>4, <2>1 DEF Stream
<1>5. ASSUME NEW i \in DOMAIN posted', Waits(i)'
      PROVE  NoGapAfter(i)'
  <2> PICK k : k = posted'[i].n
    OBVIOUS
  <2>1. k <= sent /\ WaitsFrom(k)
    BY <1>1, <1>2, <1>5 DEF Stream, NoGapAfter
  <2>2. WaitsFrom(k)'
    BY <1>3, <2>1
  <2>3. QED
    BY <2>1, <2>2 DEF NoGapAfter, WaitsFrom
<1>6. ASSUME listener' # 0, ~session'.failed, Latest(listener)'.gen = session'.gen
      PROVE  LacksWaiting'
  <2> PICK k : k = Latest(listener).n
    OBVIOUS
  <2>1. /\ Latest(listener)' = Latest(listener)
        /\ listener # 0 /\ ~session.failed /\ Latest(listener).gen = session.gen
    BY <1>1, <1>6 DEF SameLatest
  <2>2. k <= sent /\ WaitsFrom(k) /\ \A i \in DOMAIN posted : Waits(i) => k < posted[i].n
    BY <1>1, <2>1 DEF Stream, LacksWaiting
  <2>3. WaitsFrom(k)'
    BY <1>3, <2>2
  <2>4. \A i \in DOMAIN posted' : Waits(i)' => k < posted'[i].n
    BY <1>2, <2>2
  <2>5. Latest(listener)'.n = k
    BY <2>1
  <2>6. QED
    BY <2>2, <2>3, <2>4, <2>5 DEF LacksWaiting, WaitsFrom
<1>7. QED
  BY <1>4, <1>5, <1>6

\* A queue that is left alone, that loses a block that is no datum of the session, or that
\* gets one.
LEMMA QueueShifted ==
    ASSUME TypeOK
    PROVE  /\ UNCHANGED posted => Shifted(0)
           /\ \A b : Takes(b) /\ ~(b.kind = "data" /\ b.gen = session.gen) => Shifted(1)
           /\ \A b \in Blocks : b.kind # "data" /\ Post(b) => Shifted(0)
<1>1. /\ posted \in Seq(Blocks)
      /\ \A i \in DOMAIN posted : i \in Nat /\ i + 0 = i /\ i - 0 = i
  BY DEF TypeOK
<1>2. UNCHANGED posted => Shifted(0)
  BY <1>1 DEF Shifted
<1>3. ASSUME NEW b, Takes(b), ~(b.kind = "data" /\ b.gen = session.gen)
      PROVE  Shifted(1)
  BY <1>3, TakesEffect DEF Shifted, Waits
<1>4. ASSUME NEW b \in Blocks, b.kind # "data", Post(b)
      PROVE  Shifted(0)
  <2>1. /\ DOMAIN posted' = DOMAIN posted \cup {Len(posted')} /\ posted'[Len(posted')] = b
        /\ \A i \in DOMAIN posted : posted'[i] = posted[i]
    BY <1>4, PostEffect
  <2>2. QED
    BY <1>1, <1>4, <2>1 DEF Shifted
<1>5. QED
  BY <1>2, <1>3, <1>4

\* The first datum of the session leaves the queue for the listener, or is dropped.
LEMMA StreamTaken ==
    ASSUME Basic, Stream, UNCHANGED <<session, sent, listener>>, NEW b, Takes(b), Waits(1),
           listener # 0 /\ ~session.failed =>
              Latest(listener)' = Event(session.gen, b.n)
    PROVE  Stream'
<1>1. /\ posted[1] = b /\ 1 \in DOMAIN posted
      /\ \A i \in DOMAIN posted' : /\ i + 1 \in DOMAIN posted /\ posted'[i] = posted[i + 1]
                                   /\ i \in Nat /\ i >= 1
      /\ \A i \in DOMAIN posted : i \in Nat /\ i >= 1
      /\ \A i \in DOMAIN posted : i # 1 => i - 1 \in DOMAIN posted' /\ posted'[i - 1] = posted[i]
  <2>1. posted \in Seq(Blocks) /\ posted' \in Seq(Blocks)
    BY TakesEffect DEF Basic, TypeOK
  <2>2. QED
    BY <2>1, TakesEffect DEF Basic
<1>2. CASE session.gen = 0
  BY <1>2 DEF Stream
<1>3. CASE session.gen # 0
  <2>1. \A i \in DOMAIN posted' : Waits(i)' => Waits(i + 1)
    BY <1>1 DEF Waits
  <2>2. \A i \in DOMAIN posted' : Waits(i)' => posted[1].n < posted'[i].n
    BY <1>1, <1>3, <2>1 DEF Stream
  <2>3. \A i \in DOMAIN posted : Waits(i) => posted[i].n \in Nat
    <3>1. posted \in Seq(Blocks) /\ \A c \in Blocks : c.n \in Nat
      BY DEF Basic, TypeOK, Blocks
    <3>2. QED
      BY <3>1
  <2>4. ASSUME NEW k \in Nat, WaitsFrom(k), posted[1].n <= k
        PROVE  WaitsFrom(k)'
    <3>1. ASSUME NEW m \in (k + 1)..sent
          PROVE  \E i \in DOMAIN posted' : Waits(i)' /\ posted'[i].n = m
      <4>1. PICK i \in DOMAIN posted : Waits(i) /\ posted[i].n = m
        BY <2>4, <3>1 DEF WaitsFrom
      <4>2. i # 1
        BY <2>3, <2>4, <3>1, <4>1
      <4>3. QED
        BY <1>1, <4>1, <4>2 DEF Waits
    <3>2. QED
      BY <3>1 DEF WaitsFrom
  <2>5. \A i, j \in DOMAIN posted' :
           i < j /\ Waits(i)' /\ Waits(j)' => posted'[i].n < posted'[j].n
    <3> SUFFICES ASSUME NEW i \in DOMAIN posted', NEW j \in DOMAIN posted',
                        i < j, Waits(i)', Waits(j)'
                 PROVE  posted'[i].n < posted'[j].n
      OBVIOUS
    <3>1. i + 1 < j + 1
      BY <1>1
    <3>2. QED
      BY <1>1, <1>3, <2>1, <3>1 DEF Stream
  <2>6. ASSUME NEW i \in DOMAIN posted', Waits(i)'
        PROVE  NoGapAfter(i)'
    <3> PICK k : k = posted'[i].n
      OBVIOUS
    <3>1. k \in Nat /\ k <= sent /\ WaitsFrom(k) /\ posted[1].n <= k
      BY <1>1, <1>3, <2>1, <2>2, <2>3, <2>6 DEF Stream, NoGapAfter
    <3>2. WaitsFrom(k)'
      BY <2>4, <3>1
    <3>3. QED
      BY <3>1, <3>2 DEF NoGapAfter, WaitsFrom
  <2>7. ASSUME listener' # 0, ~session'.failed
        PROVE  LacksWaiting'
    <3> PICK k : k = posted[1].n
      OBVIOUS
    <3>1. k \in Nat /\ k <= sent /\ WaitsFrom(k)
      BY <1>1, <1>3, <2>3 DEF Stream, NoGapAfter
    <3>2. WaitsFrom(k)'
      BY <2>4, <3>1
    <3>3. Latest(listener)'.n = k
      BY <1>1, <2>7 DEF Event
    <3>4. QED
      BY <2>2, <3>1, <3>2, <3>3 DEF LacksWaiting, WaitsFrom
  <2>8. QED
    BY <2>5, <2>6, <2>7 DEF Stream
<1>4. QED
  BY <1>2, <1>3

\* A datum that arrives before the session opens waits behind the others.
LEMMA StreamPosted ==
    ASSUME Basic, Stream, NEW b \in Blocks, Post(b), b.kind = "data", b.gen = session.gen,
           b.n = sent + 1, sent' = sent + 1, UNCHANGED <<session, listener, inbox, last>>
    PROVE  Stream'
<1>1. posted \in Seq(Blocks) /\ posted' \in Seq(Blocks) /\ sent \in Nat
  BY PostEffect DEF Basic, TypeOK
<1> PICK top \in Nat : top = Len(posted')
  BY <1>1
<1>2. /\ DOMAIN posted' = DOMAIN posted \cup {top} /\ posted'[top] = b
      /\ \A i \in DOMAIN posted : posted'[i] = posted[i] /\ i < top /\ i \in Nat
  <2>1. /\ DOMAIN posted' = DOMAIN posted \cup {Len(posted')} /\ posted'[Len(posted')] = b
        /\ \A i \in DOMAIN posted : posted'[i] = posted[i] /\ i < Len(posted')
    BY PostEffect DEF Basic
  <2>2. \A i \in DOMAIN posted : i \in Nat
    BY <1>1
  <2>3. QED
    BY <2>1, <2>2
<1>3. CASE session.gen = 0
  BY <1>3 DEF Stream
<1>4. CASE session.gen # 0
  <2>1. \A i \in DOMAIN posted : Waits(i)' => Waits(i)
    BY <1>2 DEF Waits
  <2>2. \A i \in DOMAIN posted : Waits(i) => posted[i].n <= sent /\ posted[i].n \in Nat
    <3>1. posted \in Seq(Blocks) /\ \A c \in Blocks : c.n \in Nat
      BY DEF Basic, TypeOK, Blocks
    <3>2. QED
      BY <1>4, <3>1 DEF Stream, NoGapAfter
  <2>3. ASSUME NEW k \in Nat, WaitsFrom(k)
        PROVE  WaitsFrom(k)'
    <3>1. ASSUME NEW m \in (k + 1)..(sent + 1)
          PROVE  \E i \in DOMAIN posted' : Waits(i)' /\ posted'[i].n = m
      <4>1. CASE m = sent + 1
        BY <1>1, <1>2, <4>1 DEF Waits
      <4>2. CASE m # sent + 1
        <5>1. m \in (k + 1)..sent
          BY <1>1, <1>2, <2>3, <3>1, <4>2
        <5>2. PICK i \in DOMAIN posted : Waits(i) /\ posted[i].n = m
          BY <2>3, <5>1 DEF WaitsFrom
        <5>3. QED
          BY <1>1, <1>2, <5>2 DEF Waits
      <4>3. QED
        BY <4>1, <4>2
    <3>2. QED
      BY <3>1 DEF WaitsFrom
  <2>4. ASSUME NEW i \in DOMAIN posted', NEW j \in DOMAIN posted', i < j, Waits(i)', Waits(j)'
        PROVE  posted'[i].n < posted'[j].n
    <3>1. i \in DOMAIN posted /\ Waits(i)
      BY <1>1, <1>2, <2>1, <2>4
    <3>2. CASE j \in DOMAIN posted
      BY <1>1, <1>2, <1>4, <2>1, <2>4, <3>1, <3>2 DEF Stream
    <3>3. CASE j = top
      BY <1>1, <1>2, <2>2, <3>1, <3>3
    <3>4. QED
      BY <1>1, <1>2, <3>2, <3>3
  <2>5. ASSUME NEW i \in DOMAIN posted', Waits(i)'
        PROVE  NoGapAfter(i)'
    <3> PICK k : k = posted'[i].n
      OBVIOUS
    <3>1. k \in Nat /\ k <= sent + 1 /\ WaitsFrom(k)'
      <4>1. CASE i \in DOMAIN posted
        <5>1. k \in Nat /\ k <= sent /\ WaitsFrom(k)
          BY <1>1, <1>2, <1>4, <2>1, <2>2, <2>5, <4>1 DEF Stream, NoGapAfter
        <5>2. QED
          BY <1>1, <1>2, <2>3, <5>1
      <4>2. CASE i = top
        <5>1. k = sent + 1
          BY <1>1, <1>2, <4>2
        <5>2. QED
          BY <1>1, <1>2, <5>1 DEF WaitsFrom
      <4>3. QED
        BY <1>1, <1>2, <4>1, <4>2
    <3>2. QED
      BY <3>1 DEF NoGapAfter, WaitsFrom
  <2>6. ASSUME listener # 0, ~session.failed, Latest(listener)'.gen = session.gen
        PROVE  LacksWaiting'
    <3> PICK k : k = Latest(listener).n
      OBVIOUS
    <3>1. Latest(listener)' = Latest(listener)
      BY DEF Latest
    <3>2. k <= sent /\ WaitsFrom(k) /\ \A i \in DOMAIN posted : Waits(i) => k < posted[i].n
      BY <1>4, <2>6, <3>1 DEF Stream, LacksWaiting
    <3>3. k \in Nat
      <4>1. listener \in Worker
        BY <2>6 DEF Basic, TypeOK
      <4>2. QED
        BY <4>1, EventFacts DEF Events
    <3>4. WaitsFrom(k)'
      BY <2>3, <3>2, <3>3
    <3>5. \A i \in DOMAIN posted' : Waits(i)' => k < posted'[i].n
      BY <1>1, <1>2, <2>1, <3>2, <3>3
    <3>6. QED
      BY <1>1, <1>2, <3>1, <3>2, <3>3, <3>4, <3>5 DEF LacksWaiting, WaitsFrom
  <2>7. QED
    BY <2>4, <2>5, <2>6 DEF Stream
<1>5. QED
  BY <1>3, <1>4

\* What was sent last is what the worker will be told last.
LEMMA LatestSent ==
    ASSUME Basic, listener # 0, listener' = listener, NEW g \in 1..MaxSessions, NEW n \in Nat,
           SendTo(listener, Event(g, n))
    PROVE  Latest(listener)' = Event(g, n)
<1> PICK e \in Events : e = Event(g, n)
  BY Typed
<1>1. /\ listener \in Worker /\ inbox[listener] \in Seq(Events)
      /\ inbox'[listener] = Append(inbox[listener], e)
  BY SendEffect DEF Basic, TypeOK
<1>2. inbox'[listener] # <<>> /\ inbox'[listener][Len(inbox'[listener])] = e
  BY <1>1
<1>3. QED
  BY <1>2 DEF Latest

\* A datum that arrives when the session is open goes to the listener, or is dropped.
LEMMA StreamDirect ==
    ASSUME Basic, Turn, Stream, Callback, session.opened,
           UNCHANGED <<session, posted, listener>>, sent' = sent + 1,
           listener # 0 /\ ~session.failed =>
              Latest(listener)' = Event(session.gen, sent + 1)
    PROVE  Stream'
<1>1. sent \in Nat /\ \A i \in DOMAIN posted : ~Waits(i) /\ ~Waits(i)'
  BY DEF Basic, TypeOK, Turn, Waits
<1>2. ASSUME listener # 0, ~session.failed
      PROVE  LacksWaiting'
  <2>1. Latest(listener)'.n = sent + 1
    BY <1>2 DEF Event
  <2>2. QED
    BY <1>1, <2>1 DEF LacksWaiting, WaitsFrom
<1>3. QED
  BY <1>1, <1>2 DEF Stream

\* Nothing of a new session has arrived yet.
LEMMA StreamNew ==
    ASSUME Basic, TryChannel, session'.gen = sessions + 1
    PROVE  Stream'
<1>1. UNCHANGED <<posted, listener, inbox, last>> /\ sessions \in Nat
  BY DEF TryChannel, queueVars, sharedVars, workerVars, Basic, TypeOK
<1>2. \A i \in DOMAIN posted : posted[i].gen # sessions + 1
  <2>1. posted \in Seq(Blocks) /\ \A b \in Blocks : b.gen \in Nat
    BY DEF Basic, TypeOK, Blocks
  <2>2. \A i \in DOMAIN posted : posted[i].gen \in Nat /\ posted[i].gen <= sessions
    BY <2>1 DEF Basic, Known
  <2>3. QED
    BY <1>1, <2>2
<1>3. ASSUME listener # 0 PROVE Latest(listener)'.gen # sessions + 1
  <2>1. listener \in Worker /\ Latest(listener)' = Latest(listener)
    BY <1>1, <1>3 DEF Basic, TypeOK, Latest
  <2>2. Latest(listener).gen \in 0..sessions
    BY <2>1, EventFacts
  <2>3. QED
    BY <1>1, <2>1, <2>2
<1>4. QED
  BY <1>1, <1>2, <1>3 DEF Stream, Waits

\* What a worker takes or leaves does not change what its listener was told last.
LEMMA LatestReceived ==
    ASSUME Basic, Inboxes, UNCHANGED <<session, listener>>, NEW w \in Worker, Receive(w)
    PROVE  SameLatest
<1> DEFINE q == inbox[w]
           e == Head(inbox[w])
<1>1. /\ q \in Seq(Events) /\ q # <<>> /\ inbox'[w] = Tail(q)
      /\ last'[w] = CASE e = Closed -> Nothing
                      [] e # Closed /\ Active(e.gen) -> e
                      [] OTHER -> last[w]
      /\ \A v \in Worker : v # w => inbox'[v] = inbox[v] /\ last'[v] = last[v]
  BY DEF Receive, Basic, TypeOK
<1>2. CASE listener = 0 \/ session.gen = 0 \/ session.failed
  BY <1>2 DEF SameLatest
<1>3. CASE listener \in Worker /\ listener # w
  BY <1>1, <1>3 DEF SameLatest, Latest
<1>4. CASE listener = w /\ Tail(q) # <<>>
  <2>1. Tail(q)[Len(Tail(q))] = q[Len(q)]
    BY <1>1, <1>4
  <2>2. QED
    BY <1>1, <1>4, <2>1 DEF SameLatest, Latest
<1>5. CASE listener = w /\ Tail(q) = <<>> /\ session.gen # 0 /\ ~session.failed
  <2>1. Latest(w) = e /\ e = q[1] /\ 1 \in DOMAIN q /\ Latest(w)' = last'[w]
    <3>1. Len(q) = 1 /\ e = q[1] /\ 1 \in DOMAIN q
      <4>1. Len(Tail(q)) = Len(q) - 1 /\ Len(q) \in Nat /\ e = q[1]
        BY <1>1
      <4>2. Len(Tail(q)) = 0
        <5>1. Tail(q) = <<>> /\ Len(<<>>) = 0
          BY <1>5
        <5>2. QED
          BY <5>1
      <4>3. Len(q) = 1
        BY <4>1, <4>2
      <4>4. QED
        BY <1>1, <4>1, <4>3
    <3>2. inbox'[w] = <<>>
      BY <1>1, <1>5
    <3>3. QED
      BY <1>1, <3>1, <3>2 DEF Latest
  <2>2. e # Closed
    BY <1>1, <1>5, <2>1 DEF Basic, ListenerLives
  <2>3. CASE Active(e.gen)
    <3>1. last'[w] = e
      BY <1>1, <2>2, <2>3
    <3>2. QED
      BY <1>5, <2>1, <3>1 DEF SameLatest
  <2>4. CASE ~Active(e.gen)
    <3>1. last'[w] = last[w]
      BY <1>1, <2>2, <2>4
    <3>2. last[w].gen <= e.gen
      BY <1>1, <2>2 DEF Inboxes
    <3>3. /\ e.gen \in 0..sessions /\ last[w].gen \in 0..sessions /\ sessions \in Nat
      BY <2>1, EventFacts
    <3>4. session.gen = sessions /\ e.gen # session.gen
      BY <1>5, <2>4 DEF Basic, Newest, Active, IsCurrent
    <3> HIDE DEF e
    <3>5. last[w].gen # session.gen
      BY <3>2, <3>3, <3>4
    <3>6. QED
      BY <1>5, <2>1, <3>1, <3>5 DEF SameLatest
  <2>5. QED
    BY <2>3, <2>4
<1>6. listener = 0 \/ listener \in Worker
  BY DEF Basic, TypeOK
<1>7. QED
  BY <1>2, <1>3, <1>4, <1>5, <1>6

\* Stream is inductive on top of the others.
LEMMA NextStream == Basic /\ Turn /\ Stream /\ Inboxes /\ [Next]_vars => Stream'
<1> SUFFICES ASSUME Basic, Turn, Stream, Inboxes, [Next]_vars
             PROVE  Stream'
  OBVIOUS
<1>1. /\ TypeOK /\ Basic' /\ Onward /\ listener \in 0..MaxListeners /\ session \in Sessions
      /\ channel.gen \in 0..MaxSessions /\ session.gen \in 0..MaxSessions /\ sent \in Nat
      /\ inbox \in [Worker -> Seq(Events)]
  BY NextBasic, SessionsOnward DEF Basic, TypeOK, Channels, Sessions
<1>2. CASE TryChannel
  BY <1>2, StreamNew DEF TryChannel, Open, NewSession, NoSession
<1>3. ASSUME ~TryChannel, sent' = sent, SameLatest, Shifted(0) \/ Shifted(1)
      PROVE  Stream'
  <2>1. session'.gen # 0 => session'.gen = session.gen /\ (session.failed => session'.failed)
    BY <1>1, <1>3 DEF Onward
  <2>2. QED
    BY <1>1, <1>3, <2>1, StreamShifted
<1>4. ASSUME \/ UNCHANGED posted
             \/ \E b : Takes(b) /\ ~(b.kind = "data" /\ b.gen = session.gen)
             \/ \E b \in Blocks : b.kind # "data" /\ Post(b)
      PROVE  Shifted(0) \/ Shifted(1)
  BY <1>1, <1>4, QueueShifted
<1>5. ASSUME \/ UNCHANGED <<listener, inbox, last>>
             \/ listener' = 0
      PROVE  SameLatest
  BY <1>5 DEF SameLatest, Latest
<1>6. CASE DataReceived
  <2>1. /\ Callback /\ channel.gen # 0 /\ sent' = sent + 1
        /\ UNCHANGED <<session, listener, last>>
    BY <1>6 DEF DataReceived, mainVars, sharedVars, workerVars
  <2>2. CASE IsCurrent(channel.gen) /\ session.opened
    <3>1. Deliver(session.gen, sent + 1) /\ UNCHANGED posted
      BY <1>6, <2>1, <2>2 DEF DataReceived, IsCurrent, queueVars
    <3>2. ASSUME listener # 0, ~session.failed
          PROVE  Latest(listener)' = Event(session.gen, sent + 1)
      <4>1. SendTo(listener, Event(session.gen, sent + 1))
        BY <3>1, <3>2 DEF Deliver, Active, IsCurrent
      <4>2. session.gen \in 1..MaxSessions /\ sent + 1 \in Nat
        BY <1>1, <2>1, <2>2 DEF IsCurrent
      <4>3. QED
        BY <2>1, <3>2, <4>1, <4>2, LatestSent
    <3>3. QED
      BY <2>1, <2>2, <3>1, <3>2, StreamDirect
  <2>3. CASE ~(IsCurrent(channel.gen) /\ session.opened)
    <3> PICK b \in Blocks : b = B("data", channel.gen, sent + 1)
      BY <1>1, Typed
    <3>1. Post(b) /\ b.kind = "data" /\ b.gen = channel.gen /\ b.n = sent + 1
          /\ UNCHANGED <<session, listener, inbox, last>>
      BY <1>6, <2>1, <2>3 DEF DataReceived, B
    <3>2. CASE session.gen = 0
      BY <3>1, <3>2 DEF Stream
    <3>3. CASE session.gen # 0
      <4>1. b.gen = session.gen
        BY <2>1, <3>1, <3>3 DEF Basic, Newest
      <4>2. QED
        BY <2>1, <3>1, <4>1, StreamPosted
    <3>4. QED
      BY <3>2, <3>3
  <2>4. QED
    BY <2>2, <2>3
<1>7. ASSUME NEW g \in Gen, NEW n \in 1..MaxData, RunData(g, n)
      PROVE  Stream'
  <2> PICK b : b = B("data", g, n)
    OBVIOUS
  <2>1. /\ Takes(b) /\ b.kind = "data" /\ b.gen = g /\ b.n = n /\ Deliver(g, n)
        /\ UNCHANGED <<session, sent, listener, last>> /\ ~TryChannel
        /\ posted[1] = b /\ 1 \in DOMAIN posted
    <3>1. Takes(b) /\ Deliver(g, n) /\ UNCHANGED <<sessions, session, sent, listener, last>>
      BY <1>7 DEF RunData, mainVars, nativeVars, sharedVars, workerVars
    <3>2. ~TryChannel
      BY <1>1, <3>1 DEF TryChannel, Basic, TypeOK
    <3>3. QED
      BY <1>1, <3>1, <3>2, TakesEffect DEF B
  <2>2. CASE g # session.gen
    <3>1. UNCHANGED inbox
      BY <2>1, <2>2 DEF Deliver, Active, IsCurrent
    <3>2. QED
      BY <1>3, <1>4, <1>5, <2>1, <2>2, <3>1
  <2>3. CASE g = session.gen
    <3>1. Waits(1)
      BY <2>1, <2>3 DEF Waits
    <3>2. ASSUME listener # 0, ~session.failed
          PROVE  Latest(listener)' = Event(session.gen, b.n)
      <4>1. SendTo(listener, Event(session.gen, n))
        BY <2>1, <2>3, <3>2 DEF Deliver, Active, IsCurrent
      <4>2. session.gen \in 1..MaxSessions /\ n \in Nat
        BY <2>3
      <4>3. QED
        BY <2>1, <3>2, <4>1, <4>2, LatestSent
    <3>3. QED
      BY <2>1, <3>1, <3>2, StreamTaken
  <2>4. QED
    BY <2>2, <2>3
<1>8. CASE RunBlock /\ ~(\E g \in Gen, n \in 1..MaxData : RunData(g, n))
  <2>1. PICK g \in Gen : RunOpened(g) \/ RunOpenFailed(g) \/ RunClosed(g) \/ RunFail(g)
    BY <1>8 DEF RunBlock
  <2>2. PICK k \in {"opened", "refused", "closed", "fail"} : Takes(B(k, g, 0))
    BY <2>1 DEF RunOpened, RunOpenFailed, RunClosed, RunFail
  <2>3. B(k, g, 0).kind # "data"
    BY DEF B
  <2>4. /\ sessions' = sessions /\ sent' = sent
        /\ UNCHANGED <<listener, inbox, last>> \/ listener' = 0
    BY <2>1 DEF RunOpened, RunOpenFailed, RunClosed, RunFail, nativeVars, sharedVars,
       workerVars, FailConnection, Clear
  <2>5. ~TryChannel
    BY <1>1, <2>4 DEF TryChannel, TypeOK
  <2>6. QED
    BY <1>3, <1>4, <1>5, <2>2, <2>3, <2>4, <2>5
<1>9. CASE Connections
  <2>1. CASE ~TryChannel
    <3>1. /\ sent' = sent /\ posted' = posted
          /\ UNCHANGED <<listener, inbox, last>> \/ listener' = 0
      BY <1>9, <2>1 DEF Connections, Connect, Retry, GiveUp, Disconnect, FailConnection,
         Clear, nativeVars, queueVars, sharedVars, workerVars
    <3>2. QED
      BY <1>3, <1>4, <1>5, <2>1, <3>1
  <2>2. QED
    BY <1>2, <2>1
<1>10. CASE Native /\ ~DataReceived
  <2>1. /\ sent' = sent /\ sessions' = sessions /\ UNCHANGED <<listener, inbox, last>>
    BY <1>10 DEF Native, OpenComplete, ChannelClosed, WriteFails, ReleaseRetiring, mainVars,
       nativeVars, sharedVars, workerVars
  <2>2. \/ UNCHANGED posted
        \/ \E k \in {"opened", "refused", "closed", "fail"}, g \in {channel.gen, session.gen} :
              Post(B(k, g, 0))
    BY <1>10 DEF Native, OpenComplete, ChannelClosed, WriteFails, ReleaseRetiring, queueVars
  <2>3. UNCHANGED posted \/ \E b \in Blocks : b.kind # "data" /\ Post(b)
    <3>1. ASSUME NEW k \in {"opened", "refused", "closed", "fail"},
                 NEW g \in {channel.gen, session.gen}, Post(B(k, g, 0))
          PROVE  \E b \in Blocks : b.kind # "data" /\ Post(b)
      <4>1. B(k, g, 0) \in Blocks /\ B(k, g, 0).kind = k
        BY <1>1, Typed DEF B
      <4>2. QED
        BY <3>1, <4>1
    <3>2. QED
      BY <2>2, <3>1
  <2>4. ~TryChannel
    BY <1>1, <2>1 DEF TryChannel, TypeOK
  <2>5. QED
    BY <1>3, <1>4, <1>5, <2>1, <2>3, <2>4
<1>11. ASSUME NEW w \in Worker, WorkerTurn(w)
       PROVE  Stream'
  <2>1. /\ UNCHANGED <<sessions, session, sent, posted, listener>>
    BY <1>11 DEF WorkerTurn, Receive, HangUp, mainVars, nativeVars, queueVars, sharedVars
  <2>2. ~TryChannel
    BY <1>1, <2>1 DEF TryChannel, TypeOK
  <2>3. SameLatest
    <3>1. CASE Receive(w)
      BY <2>1, <3>1, LatestReceived
    <3>2. CASE HangUp(w)
      <4>1. listener # w /\ inbox' = inbox /\ \A v \in Worker : v # w => last'[v] = last[v]
        BY <3>2 DEF HangUp, Basic, TypeOK
      <4>2. QED
        BY <1>1, <2>1, <4>1 DEF SameLatest, Latest
    <3>3. QED
      BY <1>11, <3>1, <3>2 DEF WorkerTurn
  <2>4. QED
    BY <1>3, <1>4, <2>1, <2>2, <2>3
<1>12. CASE SetDataListener
  <2>1. /\ UNCHANGED <<sessions, session, sent, posted, inbox, last>>
        /\ listener' = workers + 1 /\ workers + 1 \in Worker
    BY <1>12 DEF SetDataListener, mainVars, nativeVars, queueVars, Basic, TypeOK
  <2>2. ~TryChannel
    BY <1>1, <2>1 DEF TryChannel, TypeOK
  <2>3. Latest(listener)'.gen = 0
    <3>1. inbox[workers + 1] = <<>> /\ last[workers + 1] = Nothing
      BY <2>1 DEF Basic, TypeOK, Idle
    <3>2. QED
      BY <2>1, <3>1, Typed DEF Latest
  <2>4. SameLatest
    BY <2>1, <2>3 DEF SameLatest
  <2>5. QED
    BY <1>3, <1>4, <2>1, <2>2, <2>4
<1>13. CASE OnConnected \/ CallConnected \/ UNCHANGED vars
  <2>1. UNCHANGED <<sessions, sent, posted, listener, inbox, last>>
    BY <1>13 DEF OnConnected, CallConnected, vars, mainVars, nativeVars, queueVars,
       sharedVars, workerVars
  <2>2. ~TryChannel
    BY <1>1, <2>1 DEF TryChannel, TypeOK
  <2>3. QED
    BY <1>3, <1>4, <1>5, <2>1, <2>2
<1>14. QED
  BY <1>2, <1>6, <1>7, <1>8, <1>9, <1>10, <1>11, <1>12, <1>13 DEF Next

-----------------------------------------------------------------------------
(***************************************************************************)
(* The theorems                                                            *)
(***************************************************************************)
\* The invariant holds in the beginning.
LEMMA InitIInv == Init => IInv
<1> SUFFICES ASSUME Init PROVE IInv
  OBVIOUS
<1>1. /\ \A w \in Worker : inbox[w] = <<>> /\ last[w] = Nothing
      /\ posted = <<>> /\ DOMAIN posted = {} /\ left = 0 /\ Len(posted) = 0
      /\ session = NoSession /\ sessions = 0 /\ listener = 0 /\ workers = 0
  BY DEF Init
<1>2. /\ NoSession.gen = 0 /\ ~NoSession.opened /\ NoSession.heard = "no"
      /\ NoChannel.gen = 0
  BY DEF NoSession, NoChannel
<1>3. TypeOK
  <2>1. inbox \in [Worker -> Seq(Events)] /\ last \in [Worker -> Events]
    BY Typed DEF Init
  <2>2. posted \in Seq(Blocks) /\ 0 \in 0..MaxSessions /\ 0 \in 0..MaxListeners
    BY <1>1
  <2>3. session \in Sessions /\ channel \in Channels /\ pending \in BOOLEAN
        /\ callback \in BOOLEAN /\ sent = 0 /\ running = {}
    BY Typed DEF Init
  <2>4. QED
    BY <1>1, <2>1, <2>2, <2>3 DEF TypeOK
<1>4. Newest /\ Settled
  BY <1>1, <1>2 DEF Init, Newest, Settled
<1>5. Known
  BY <1>1, Typed DEF Known
<1>6. listener <= workers /\ ListenerLives /\ Idle
  BY <1>1 DEF ListenerLives, Idle
<1>7. Turn /\ Stream
  BY <1>1, <1>2 DEF Turn, Stream, Waits
<1>8. Inboxes
  BY <1>1 DEF Inboxes
<1>9. QED
  BY <1>3, <1>4, <1>5, <1>6, <1>7, <1>8 DEF IInv, Basic

\* It is inductive.
LEMMA NextIInv == IInv /\ [Next]_vars => IInv'
  BY NextBasic, NextTurn, NextInboxes, NextStream DEF IInv

\* The inductive invariant: sessions, the main queue, and what each inbox holds of the
\* stream.
THEOREM Invariance == Spec => []IInv
  BY InitIInv, NextIInv, PTL DEF Spec

\* A registered listener has a worker that will call it, whatever ends meanwhile.
THEOREM ListenersLive == Spec => []ListenerLives
<1>1. IInv => ListenerLives
  BY DEF IInv, Basic
<1>2. QED
  BY <1>1, Invariance, PTL

\* A listener is called with the data of one session after another, each an unbroken run
\* of the stream, and the application hears of a session once.
THEOREM StreamInOrder == Spec => InOrder
<1>1. IInv /\ [Next]_vars => [DataInOrder /\ ConnectedOnce]_vars
  <2> SUFFICES ASSUME IInv, Next
               PROVE  DataInOrder /\ ConnectedOnce
    OBVIOUS
  <2>1. DataInOrder
    <3> SUFFICES ASSUME NEW w \in Worker, last'[w] \notin {last[w], Nothing}
                 PROVE  Follows(last[w], last'[w])
      BY DEF DataInOrder
    <3>1. last \in [Worker -> Events]
      BY DEF IInv, Basic, TypeOK
    <3>2. PICK v \in Worker : Receive(v)
      BY <3>1 DEF Next, Connections, Native, RunBlock, Connect, TryChannel, Retry, GiveUp,
         Disconnect, DataReceived, ChannelClosed, WriteFails, ReleaseRetiring, OpenComplete,
         RunOpened, RunOpenFailed, RunClosed, RunFail, RunData, OnConnected, CallConnected,
         SetDataListener, WorkerTurn, HangUp, workerVars
    <3>3. v = w /\ UNCHANGED session
      BY <3>1, <3>2 DEF Receive, mainVars
    <3>4. InboxOf(w)
      BY DEF IInv, Inboxes, InboxOf
    <3>5. QED
      BY <3>2, <3>3, <3>4, InboxReceived DEF IInv, Onward
  <2>2. ConnectedOnce
    <3> SUFFICES ASSUME session'.gen = session.gen, session.heard = "yes"
                 PROVE  session'.heard = "yes"
      BY DEF ConnectedOnce
    <3>1. session \in Sessions /\ session.opened /\ session.gen # 0 /\ NoSession.gen = 0
          /\ session.gen \in 0..sessions
      BY DEF IInv, Basic, TypeOK, Settled, Newest, NoSession, Sessions
    <3>2. ~TryChannel
      BY <3>1 DEF TryChannel
    <3>3. session' # NoSession
      BY <3>1
    <3>4. CASE session' = session
      BY <3>4
    <3>5. CASE WriteFails \/ CallConnected
      BY <3>1, <3>5 DEF WriteFails, CallConnected, Sessions
    <3>6. QED
      BY <3>1, <3>2, <3>3, <3>4, <3>5
      DEF Next, Connections, Native, RunBlock, Connect, Retry, GiveUp, Disconnect,
          FailConnection, CloseSession, DataReceived, ChannelClosed, ReleaseRetiring,
          OpenComplete, RunOpened, RunOpenFailed, RunClosed, RunFail, RunData, OnConnected,
          SetDataListener, WorkerTurn, Receive, HangUp, mainVars
  <2>3. QED
    BY <2>1, <2>2
<1>2. QED
  BY <1>1, Invariance, PTL DEF Spec, InOrder

\* An open connection that ends, unless the application disconnects, ends with an error
\* behind the data on their way to the listener.
THEOREM EndsAreTold == Spec => EndIsTold
<1> DEFINE Told1 == session.opened /\ session'.gen = 0 /\ listener # 0 /\ ~Disconnect =>
                       inbox'[listener] # <<>> /\ Last(inbox'[listener]) = Closed
<1>1. IInv /\ [Next]_vars => [Told1]_vars
  <2> SUFFICES ASSUME IInv, Next, session.opened, session'.gen = 0, listener # 0, ~Disconnect
               PROVE  inbox'[listener] # <<>> /\ Last(inbox'[listener]) = Closed
    OBVIOUS
  <2>1. /\ Basic /\ ~pending /\ session.gen # 0 /\ listener \in Worker /\ session \in Sessions
        /\ inbox[listener] \in Seq(Events)
    BY DEF IInv, Basic, TypeOK, Settled, NoSession
  <2>2. Clear(TRUE)
    <3>1. CASE GiveUp \/ \E g \in Gen : RunFail(g) \/ RunClosed(g)
      BY <2>1, <3>1 DEF GiveUp, RunFail, RunClosed, FailConnection
    <3>2. CASE session' = session
      BY <2>1, <3>2
    <3>3. CASE WriteFails \/ CallConnected
      BY <2>1, <3>3 DEF WriteFails, CallConnected, Sessions
    <3>4. QED
      BY <2>1, <3>1, <3>2, <3>3
      DEF Next, Connections, Native, RunBlock, Connect, TryChannel, Retry, DataReceived,
          ChannelClosed, ReleaseRetiring, OpenComplete, RunOpened, RunOpenFailed, RunData,
          OnConnected, SetDataListener, WorkerTurn, Receive, HangUp, mainVars
  <2>3. SendTo(listener, Closed)
    BY <2>2 DEF Clear
  <2>4. inbox'[listener] = Append(inbox[listener], Closed)
    BY <2>1, <2>3, Typed, SendEffect DEF Basic, TypeOK
  <2>5. QED
    BY <2>1, <2>4, Typed DEF Last
<1>2. QED
  BY <1>1, Invariance, PTL DEF Spec, EndIsTold

=============================================================================
