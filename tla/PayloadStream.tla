--------------------------- MODULE PayloadStream ---------------------------
(***************************************************************************)
(* What `send` of a backend promises, whatever carries the bytes: payloads *)
(* go out one at a time, chunk after chunk, on the stream of one           *)
(* connection; a caller is answered "ok" by the confirmation that          *)
(* completes its payload and "err" by the end of the connection; no chunk  *)
(* is offered after a failure; and while a payload is under way its caller *)
(* does not return, unless it ends the connection.                         *)
(***************************************************************************)
EXTENDS Naturals, Sequences

CONSTANTS Callers, Sizes

VARIABLES link,      \* "closed", "open" or "broken": it failed and is about to end
          job,       \* the payload under way, or NoJob
          stream,    \* the chunks written on the connection
          work,      \* caller -> the number of its payload, 0 outside of send
          answer,    \* caller -> what its payload was answered with
          accepted   \* the payloads accepted so far

streamVars == <<link, job, stream, work, answer, accepted>>

NoJob == [id |-> 0, size |-> 0, written |-> 0, offered |-> 0, confirmed |-> {}]
UnderWay == job # NoJob

\* Whoever waits for the payload under way is answered.
Tell(r) == answer' = [c \in Callers |-> IF UnderWay /\ work[c] = job.id THEN r ELSE answer[c]]

StreamInit ==
    /\ link = "closed" /\ job = NoJob /\ stream = <<>> /\ accepted = 0
    /\ work = [c \in Callers |-> 0] /\ answer = [c \in Callers |-> "none"]

Connect ==
    /\ link = "closed" /\ link' = "open" /\ stream' = <<>>
    /\ UNCHANGED <<job, work, answer, accepted>>

Submit(c, n) ==
    /\ link = "open" /\ ~UnderWay /\ work[c] = 0
    /\ accepted' = accepted + 1
    /\ job' = [NoJob EXCEPT !.id = accepted', !.size = n]
    /\ work' = [work EXCEPT ![c] = accepted']
    /\ answer' = [answer EXCEPT ![c] = "none"]
    /\ UNCHANGED <<link, stream>>

\* The next chunk is offered to the stack, which takes it or not; it may take the one
\* it was offered although the connection fails meanwhile.
Offer ==
    /\ link = "open" /\ UnderWay /\ job.offered = 0 /\ job.written < job.size
    /\ job' = [job EXCEPT !.offered = 1]
    /\ UNCHANGED <<link, stream, work, answer, accepted>>

Write ==
    /\ UnderWay /\ job.offered = 1
    /\ job' = [job EXCEPT !.written = @ + 1, !.offered = 0]
    /\ stream' = Append(stream, [id |-> job.id, chunk |-> job.written + 1,
                                 total |-> job.size])
    /\ UNCHANGED <<link, work, answer, accepted>>

\* A chunk that is not taken may be the failure of the connection.
Refuse ==
    /\ UnderWay /\ job.offered = 1
    /\ job' = [job EXCEPT !.offered = 0]
    /\ link' = link \/ (link = "open" /\ link' = "broken")
    /\ UNCHANGED <<stream, work, answer, accepted>>

\* The peer's stack has taken a chunk: the last one completes the payload, unless the
\* connection failed before.
Confirm(k) ==
    /\ UnderWay /\ k \in (1..job.written) \ job.confirmed
    /\ LET confirmed == job.confirmed \cup {k}
       IN  IF link = "open" /\ confirmed = 1..job.size
           THEN job' = NoJob /\ Tell("ok")
           ELSE job' = [job EXCEPT !.confirmed = confirmed] /\ UNCHANGED answer
    /\ UNCHANGED <<link, stream, work, accepted>>

Break == link = "open" /\ link' = "broken" /\ UNCHANGED <<job, stream, work, answer, accepted>>

End == /\ link # "closed" /\ link' = "closed"
       /\ job' = NoJob /\ Tell("err")
       /\ UNCHANGED <<stream, accepted>>

Return(c) == /\ work[c] # 0 /\ work[c] # job.id
             /\ work' = [work EXCEPT ![c] = 0]
             /\ UNCHANGED <<link, job, stream, answer, accepted>>

\* A caller gives its payload up: the rest of the stream is of no use to anyone.
GiveUp(c) == UnderWay /\ work[c] = job.id /\ End /\ work' = [work EXCEPT ![c] = 0]

StreamNext == \/ Connect \/ Offer \/ Write \/ Refuse \/ Break \/ (End /\ UNCHANGED work)
              \/ \E k \in 1..job.written : Confirm(k)
              \/ \E c \in Callers : Return(c) \/ GiveUp(c) \/ \E n \in Sizes : Submit(c, n)

StreamSpec == StreamInit /\ [][StreamNext]_streamVars
=============================================================================
