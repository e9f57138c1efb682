-------------------------- MODULE TunedPollProofs ---------------------------
(***************************************************************************)
(* Proofs about TunedPoll, for any components, sites and callers, and any  *)
(* number of identity tries.                                               *)
(*                                                                         *)
(* What a report says is settled by the passes before it, so IInv tells    *)
(* for each of them how the components polled are divided and how often    *)
(* each has been read: in the first pass once if it is no longer to do, in *)
(* the second twice if the first missed it and some other answered.        *)
(***************************************************************************)
EXTENDS TunedPoll, TLAPS

\* Every component polled is updated, failed or still to do.
Divided(q) ==
    /\ ToSet(q.names) = q.updated \cup Failed(q) \cup q.todo
    /\ q.updated \cap Failed(q) = {}
    /\ q.todo \cap (q.updated \cup Failed(q)) = {}

\* A component not served has not answered, and silence was not all there was.
Plausible(q) ==
    /\ q.updated \cap Unserved = {}
    /\ q.updated = {} /\ Failed(q) # {}
        => \E c \in Failed(q) : q.failed[c] # "timeout"

FirstPass(q) ==
    \A c \in Components :
        /\ q.asked[c] = IF c \in q.updated \cup Failed(q) THEN 1 ELSE 0
        /\ c \in q.silent <=> q.failed[c] = "timeout"

SecondPass(q) ==
    /\ \E other \in q.updated : q.first[other] = NoError
    /\ \A c \in Components :
        /\ q.first[c] # NoError =>
            /\ c \in ToSet(q.names)
            /\ q.asked[c] = IF c \in q.todo THEN 1 ELSE 2
        /\ q.first[c] = NoError =>
            /\ c \notin q.todo
            /\ q.failed[c] = NoError
            /\ q.asked[c] = IF c \in q.updated THEN 1 ELSE 0
        /\ c \in q.silent <=> q.first[c] = "timeout" \/ q.failed[c] = "timeout"

AllRead(q) ==
    /\ q.todo = {}
    /\ (q.first = q.failed /\ FirstPass(q)) \/ SecondPass(q)

Untouched(q) ==
    /\ q.updated = {} /\ q.silent = {}
    /\ q.failed = NoFailures /\ q.first = NoFailures
    /\ q.asked = [c \in Components |-> 0]

\* What RetryOnlyTheLiving says of one poll.
RetriesTheLiving(q) ==
    \A c \in Components :
        /\ q.asked[c] <= 2
        /\ q.asked[c] = 2 => \E other \in q.updated \ {c} : q.asked[other] = 1

PollInv(q) ==
    /\ q.pc = "setup" => Untouched(q)
    /\ q.pc \in {"reading", "retrying", "identity", "reported"} =>
            Divided(q) /\ Plausible(q)
    /\ q.pc = "reading" => FirstPass(q) /\ q.first = NoFailures
    /\ q.pc = "retrying" => SecondPass(q)
    /\ q.pc \in {"identity", "reported"} => AllRead(q)
    /\ RetriesTheLiving(q)

\* The tuner has been told of the poll exactly if it has reported.
Heard(q, t) ==
    IF q.pc = "reported"
    THEN t = Outcome(q.updated, BothAttempts(q.first, q.failed))
    ELSE t.what # "report"

Past == {"reading", "retrying", "identity", "reported"}

\* Past setup, a poll reads what setup settled on.
ReadsSettled(q) ==
    q.pc \in Past => settled /\ q.names = Names(q.kind, lists)

IInv ==
    /\ TypeOK
    /\ IdentityOwed
    /\ \A p \in Pollers :
        PollInv(poll[p]) /\ Heard(poll[p], told[p]) /\ ReadsSettled(poll[p])

-----------------------------------------------------------------------------
(***************************************************************************)
(* The records a poll goes through.                                        *)
(***************************************************************************)
LEMMA FreshPoll ==
    ASSUME NEW kind \in Kinds
    PROVE  /\ NewPoll(kind) \in Polls /\ NoPoll \in Polls
           /\ NewPoll(kind).pc = "setup" /\ NoPoll.pc = "idle"
           /\ NewPoll(kind).kind = kind
           /\ Untouched(NewPoll(kind)) /\ Untouched(NoPoll)
  <1>1. "both" \in Kinds
    BY DEF Kinds
  <1>2. NoFailures \in Outcomes
    BY DEF NoFailures, Outcomes
  <1>3. <<>> \in Seq(Components) /\ [c \in Components |-> 0] \in [Components -> 0..3]
    OBVIOUS
  <1>4. QED BY <1>1, <1>2, <1>3 DEF NewPoll, NoPoll, Polls, Running, Untouched

LEMMA SmallCounts ==
    \A n \in {0, 1, 2} : n <= 2 /\ (n < 3) /\ (n = 2 <=> n # 0 /\ n # 1)
  OBVIOUS

LEMMA UntouchedHolds ==
    ASSUME NEW q \in Polls, Untouched(q)
    PROVE  RetriesTheLiving(q)
  <1>1. \A c \in Components : q.asked[c] = 0
    BY DEF Untouched
  <1>2. 0 \in {0, 1, 2} /\ 0 # 2
    OBVIOUS
  <1>3. QED BY <1>2, <1>1, SmallCounts DEF RetriesTheLiving

\* A poll that reads another component: what that leaves of its record.
LEMMA AskedFields ==
    ASSUME NEW p \in Pollers, poll[p] \in Polls, NEW c \in Components
    PROVE  /\ Asked(p, c) \in Polls
           /\ Asked(p, c).pc = poll[p].pc /\ Asked(p, c).kind = poll[p].kind
           /\ Asked(p, c).names = poll[p].names
           /\ Asked(p, c).todo = poll[p].todo \ {c}
           /\ Asked(p, c).updated = poll[p].updated
           /\ Asked(p, c).failed = poll[p].failed
           /\ Asked(p, c).first = poll[p].first
           /\ Asked(p, c).silent = poll[p].silent
           /\ \A d \in Components : Asked(p, c).asked[d] =
                IF d = c /\ poll[p].asked[c] < 3 THEN poll[p].asked[c] + 1
                ELSE poll[p].asked[d]
  <1> DEFINE asked == [poll[p].asked EXCEPT ![c] = IF @ < 3 THEN @ + 1 ELSE 3]
  <1>1. poll[p].asked \in [Components -> 0..3]
    BY DEF Polls
  <1>2. /\ asked \in [Components -> 0..3]
        /\ \A d \in Components : asked[d] =
                IF d = c /\ poll[p].asked[c] < 3 THEN poll[p].asked[c] + 1
                ELSE poll[p].asked[d]
    BY <1>1
  <1>3. Asked(p, c) = [poll[p] EXCEPT !.todo = poll[p].todo \ {c}, !.asked = asked]
    BY DEF Asked, Polls
  <1>4. poll[p].todo \ {c} \in SUBSET Components
    BY DEF Polls
  <1> HIDE DEF asked
  <1>5. QED BY <1>2, <1>3, <1>4 DEF Polls

LEMMA AnswersFields ==
    ASSUME NEW p \in Pollers, poll[p] \in Polls, NEW c \in Components
    PROVE  /\ Answers(p, c) \in Polls
           /\ Answers(p, c).pc = poll[p].pc /\ Answers(p, c).kind = poll[p].kind
           /\ Answers(p, c).names = poll[p].names
           /\ Answers(p, c).todo = poll[p].todo \ {c}
           /\ Answers(p, c).updated = poll[p].updated \cup {c}
           /\ Answers(p, c).failed = poll[p].failed
           /\ Answers(p, c).first = poll[p].first
           /\ Answers(p, c).silent = poll[p].silent
           /\ Answers(p, c).asked = Asked(p, c).asked
  <1> DEFINE q == Asked(p, c)
  <1>1. /\ q \in Polls /\ q.pc = poll[p].pc /\ q.kind = poll[p].kind
        /\ q.names = poll[p].names /\ q.todo = poll[p].todo \ {c}
        /\ q.updated = poll[p].updated /\ q.failed = poll[p].failed
        /\ q.first = poll[p].first /\ q.silent = poll[p].silent
    BY AskedFields
  <1>2. Answers(p, c) = [q EXCEPT !.updated = q.updated \cup {c}]
    BY DEF Answers
  <1> HIDE DEF q
  <1>3. q.updated \cup {c} \in SUBSET Components
    BY <1>1 DEF Polls
  <1>4. QED BY <1>1, <1>2, <1>3 DEF Polls, q

LEMMA MissesFields ==
    ASSUME NEW p \in Pollers, poll[p] \in Polls, NEW c \in Components,
           NEW error \in Errors
    PROVE  /\ Misses(p, c, error) \in Polls
           /\ Misses(p, c, error).pc = poll[p].pc
           /\ Misses(p, c, error).kind = poll[p].kind
           /\ Misses(p, c, error).names = poll[p].names
           /\ Misses(p, c, error).todo = poll[p].todo \ {c}
           /\ Misses(p, c, error).updated = poll[p].updated
           /\ Misses(p, c, error).failed = [poll[p].failed EXCEPT ![c] = error]
           /\ Misses(p, c, error).first = poll[p].first
           /\ Misses(p, c, error).silent =
                poll[p].silent \cup (IF error = "timeout" THEN {c} ELSE {})
           /\ Misses(p, c, error).asked = Asked(p, c).asked
  <1> DEFINE q == Asked(p, c)
             failed == [q.failed EXCEPT ![c] = error]
             silent == q.silent \cup (IF error = "timeout" THEN {c} ELSE {})
  <1>1. /\ q \in Polls /\ q.pc = poll[p].pc /\ q.kind = poll[p].kind
        /\ q.names = poll[p].names /\ q.todo = poll[p].todo \ {c}
        /\ q.updated = poll[p].updated /\ q.failed = poll[p].failed
        /\ q.first = poll[p].first /\ q.silent = poll[p].silent
    BY AskedFields
  <1>2. /\ failed = [poll[p].failed EXCEPT ![c] = error]
        /\ silent = poll[p].silent \cup (IF error = "timeout" THEN {c} ELSE {})
    BY <1>1
  <1>3. Misses(p, c, error) = [q EXCEPT !.failed = failed, !.silent = silent]
    BY <1>1 DEF Misses, Polls
  <1>4. failed \in Outcomes /\ silent \in SUBSET Components
    BY <1>1 DEF Polls, Outcomes
  <1> HIDE DEF q, failed, silent
  <1>5. QED BY <1>1, <1>2, <1>3, <1>4 DEF Polls, q

LEMMA RetryingFields ==
    ASSUME NEW q \in Polls
    PROVE  /\ Retrying(q) \in Polls
           /\ Retrying(q).pc = "retrying" /\ Retrying(q).kind = q.kind
           /\ Retrying(q).names = q.names /\ Retrying(q).todo = Failed(q)
           /\ Retrying(q).updated = q.updated
           /\ Retrying(q).failed = NoFailures
           /\ Retrying(q).first = q.failed
           /\ Retrying(q).silent = q.silent
           /\ Retrying(q).asked = q.asked
  <1>1. NoFailures \in Outcomes /\ Failed(q) \in SUBSET Components
    BY DEF NoFailures, Outcomes, Failed
  <1>2. QED BY <1>1 DEF Retrying, Polls, Running

\* A poll may be anywhere, and its record is one still.
LEMMA MovedTo ==
    ASSUME NEW q \in Polls, NEW pc \in {"identity", "raised", "cancelled", "reported"}
    PROVE  LET r == [q EXCEPT !.pc = pc]
           IN  /\ r \in Polls /\ r.pc = pc /\ r.kind = q.kind
               /\ r.names = q.names /\ r.todo = q.todo
               /\ r.updated = q.updated /\ r.failed = q.failed
               /\ r.first = q.first /\ r.silent = q.silent /\ r.asked = q.asked
  BY DEF Polls, Running, Ended

-----------------------------------------------------------------------------
(***************************************************************************)
(* The reads.                                                              *)
(***************************************************************************)
LEMMA FailedOf ==
    ASSUME NEW q \in Polls
    PROVE  /\ \A c \in Components : c \in Failed(q) <=> q.failed[c] # NoError
           /\ Failed(q) \subseteq Components
           /\ Failed(q) = {} => q.failed = NoFailures
           /\ q.failed = NoFailures => Failed(q) = {}
  <1>1. q.failed \in [Components -> Errors \cup {NoError}]
    BY DEF Polls, Outcomes
  <1>2. QED BY <1>1 DEF Failed, NoFailures

LEMMA FirstPassRetries ==
    ASSUME NEW q \in Polls, FirstPass(q)
    PROVE  RetriesTheLiving(q)
  <1>1. \A c \in Components : q.asked[c] = 0 \/ q.asked[c] = 1
    BY DEF FirstPass
  <1>2. /\ 0 \in {0, 1, 2} /\ 0 # 2
        /\ 1 \in {0, 1, 2} /\ 1 # 2
    OBVIOUS
  <1>3. QED BY <1>2, <1>1, SmallCounts DEF RetriesTheLiving

LEMMA SecondPassRetries ==
    ASSUME NEW q \in Polls, SecondPass(q)
    PROVE  RetriesTheLiving(q)
  <1>1. PICK other \in q.updated : q.first[other] = NoError
    BY DEF SecondPass
  <1>2. other \in Components
    BY DEF Polls
  <1>3. q.asked[other] = 1
    BY <1>1, <1>2 DEF SecondPass
  <1>4. \A c \in Components : q.asked[c] \in {0, 1, 2}
    BY DEF SecondPass
  <1>5. \A c \in Components : q.asked[c] = 2 => other \in q.updated \ {c}
    BY <1>1, <1>3
  <1>6. QED BY <1>3, <1>4, <1>5, SmallCounts DEF RetriesTheLiving

\* r is the poll q after another read: all that reading it changes.
ReadAfter(q, r, c) ==
    /\ q \in Polls /\ r \in Polls /\ PollInv(q)
    /\ q.pc \in {"reading", "retrying"} /\ c \in q.todo
    /\ r.pc = q.pc /\ r.names = q.names /\ r.first = q.first
    /\ r.todo = q.todo \ {c}
    /\ \A d \in Components : r.asked[d] =
            IF d = c /\ q.asked[c] < 3 THEN q.asked[c] + 1 ELSE q.asked[d]

\* Whatever the component is found to be, it has been read once more.
LEMMA ReadCounts ==
    ASSUME NEW q, NEW r, NEW c, ReadAfter(q, r, c)
    PROVE  /\ c \in Components
           /\ Divided(q) /\ Plausible(q) /\ RetriesTheLiving(q)
           /\ c \notin q.updated /\ q.failed[c] = NoError
           /\ q.pc = "reading" => FirstPass(q) /\ r.asked[c] = 1
           /\ q.pc = "retrying" => SecondPass(q) /\ r.asked[c] = 2
           /\ \A d \in Components \ {c} : r.asked[d] = q.asked[d]
  <1>1. c \in Components
    BY DEF ReadAfter, Polls
  <1>2. Divided(q) /\ Plausible(q) /\ RetriesTheLiving(q)
    BY DEF ReadAfter, PollInv
  <1>3. c \notin q.updated /\ q.failed[c] = NoError
    BY <1>1, <1>2 DEF ReadAfter, Divided, Failed
  <1>4. ASSUME q.pc = "reading" PROVE FirstPass(q) /\ q.asked[c] = 0
    <2>1. FirstPass(q)
      BY <1>4 DEF ReadAfter, PollInv
    <2>2. QED BY <1>1, <1>3, <2>1 DEF FirstPass, Failed
  <1>5. ASSUME q.pc = "retrying" PROVE SecondPass(q) /\ q.asked[c] = 1
    <2>1. SecondPass(q)
      BY <1>5 DEF ReadAfter, PollInv
    <2>2. QED BY <1>1, <2>1 DEF SecondPass, ReadAfter
  <1>6. r.asked[c] = IF q.asked[c] < 3 THEN q.asked[c] + 1 ELSE q.asked[c]
    BY <1>1 DEF ReadAfter
  <1>7. \A d \in Components \ {c} : r.asked[d] = q.asked[d]
    BY DEF ReadAfter
  <1>8. q.pc = "reading" => r.asked[c] = 1
    BY <1>4, <1>6
  <1>9. q.pc = "retrying" => r.asked[c] = 2
    BY <1>5, <1>6
  <1>10. QED BY <1>1, <1>2, <1>3, <1>4, <1>5, <1>7, <1>8, <1>9

LEMMA AnswerKeeps ==
    ASSUME NEW q, NEW r, NEW c, ReadAfter(q, r, c), c \notin Unserved,
           r.updated = q.updated \cup {c}, r.failed = q.failed,
           r.silent = q.silent
    PROVE  PollInv(r)
  <1>1. Failed(r) = Failed(q) /\ c \notin Failed(q) /\ c \in Components
    BY ReadCounts DEF Failed
  <1>2. Divided(r)
    BY <1>1, ReadCounts DEF Divided, ReadAfter
  <1>3. Plausible(r)
    BY <1>1, ReadCounts DEF Plausible, ReadAfter
  <1>4. CASE q.pc = "reading"
    <2>1. FirstPass(r)
      BY <1>1, <1>4, ReadCounts DEF FirstPass
    <2>2. QED BY <1>2, <1>3, <1>4, <2>1, FirstPassRetries DEF PollInv, ReadAfter
  <1>5. CASE q.pc = "retrying"
    <2>1. SecondPass(r)
      BY <1>1, <1>5, ReadCounts DEF SecondPass, ReadAfter
    <2>2. QED BY <1>2, <1>3, <1>5, <2>1, SecondPassRetries DEF PollInv, ReadAfter
  <1>6. QED BY <1>4, <1>5 DEF ReadAfter

LEMMA MissKeeps ==
    ASSUME NEW q, NEW r, NEW c, NEW error \in Errors, ReadAfter(q, r, c),
           error = "timeout" => ~NothingYet(q),
           r.updated = q.updated, r.failed = [q.failed EXCEPT ![c] = error],
           r.silent = q.silent \cup (IF error = "timeout" THEN {c} ELSE {})
    PROVE  PollInv(r)
  <1>1. /\ c \in Components /\ error # NoError
        /\ q.failed \in [Components -> Errors \cup {NoError}]
        /\ r.failed[c] = error
        /\ \A d \in Components \ {c} : r.failed[d] = q.failed[d]
    BY ReadCounts DEF ReadAfter, Polls, Outcomes, Errors, NoError
  <1>2. Failed(r) = Failed(q) \cup {c}
    BY <1>1 DEF Failed
  <1>3. Divided(r)
    BY <1>2, ReadCounts DEF Divided, ReadAfter
  <1>4. Plausible(r)
    <2>1. r.updated \cap Unserved = {}
      BY ReadCounts DEF Plausible
    <2>2. ASSUME r.updated = {}
          PROVE  \E d \in Failed(r) : r.failed[d] # "timeout"
      <3>1. CASE error # "timeout"
        BY <1>1, <1>2, <3>1
      <3>2. CASE error = "timeout"
        <4>1. q.failed # NoFailures
          BY <2>2, <3>2 DEF NothingYet
        <4>2. Failed(q) # {}
          BY <4>1, FailedOf DEF ReadAfter
        <4>3. PICK d \in Failed(q) : q.failed[d] # "timeout"
          BY <2>2, <4>2, ReadCounts DEF Plausible
        <4>4. d \in Components \ {c}
          BY <4>3, ReadCounts DEF Failed
        <4>5. QED BY <1>1, <1>2, <4>3, <4>4
      <3>3. QED BY <3>1, <3>2
    <2>3. QED BY <2>1, <2>2 DEF Plausible
  <1>5. CASE q.pc = "reading"
    <2>1. /\ FirstPass(q) /\ r.asked[c] = 1 /\ c \notin q.silent
          /\ \A d \in Components \ {c} : r.asked[d] = q.asked[d]
      BY <1>1, <1>5, ReadCounts DEF FirstPass, NoError
    <2>2. FirstPass(r)
      <3>1. ASSUME NEW d \in Components
            PROVE  /\ r.asked[d] = IF d \in r.updated \cup Failed(r) THEN 1 ELSE 0
                   /\ d \in r.silent <=> r.failed[d] = "timeout"
        <4>1. CASE d = c
          BY <1>1, <1>2, <2>1, <4>1
        <4>2. CASE d # c
          BY <1>1, <1>2, <2>1, <4>2 DEF FirstPass
        <4>3. QED BY <4>1, <4>2
      <3>2. QED BY <3>1 DEF FirstPass
    <2>3. QED BY <1>3, <1>4, <1>5, <2>2, FirstPassRetries DEF PollInv, ReadAfter
  <1>6. CASE q.pc = "retrying"
    <2>1. /\ SecondPass(q) /\ r.asked[c] = 2 /\ q.first[c] # NoError
          /\ \A d \in Components \ {c} : r.asked[d] = q.asked[d]
          /\ c \in q.silent <=> q.first[c] = "timeout"
          /\ r.first = q.first /\ r.todo = q.todo \ {c} /\ r.names = q.names
          /\ c \in ToSet(q.names)
      BY <1>1, <1>6, ReadCounts DEF SecondPass, ReadAfter, NoError
    <2>2. SecondPass(r)
      <3>1. ASSUME NEW d \in Components
            PROVE  /\ r.first[d] # NoError =>
                        /\ d \in ToSet(r.names)
                        /\ r.asked[d] = IF d \in r.todo THEN 1 ELSE 2
                   /\ r.first[d] = NoError =>
                        /\ d \notin r.todo
                        /\ r.failed[d] = NoError
                        /\ r.asked[d] = IF d \in r.updated THEN 1 ELSE 0
                   /\ d \in r.silent
                        <=> r.first[d] = "timeout" \/ r.failed[d] = "timeout"
        <4>1. CASE d = c
          BY <1>1, <2>1, <4>1
        <4>2. CASE d # c
          BY <1>1, <2>1, <4>2 DEF SecondPass
        <4>3. QED BY <4>1, <4>2
      <3>2. \E other \in r.updated : r.first[other] = NoError
        BY <2>1 DEF SecondPass
      <3>3. QED BY <3>1, <3>2 DEF SecondPass
    <2>3. QED BY <1>3, <1>4, <1>6, <2>2, SecondPassRetries DEF PollInv, ReadAfter
  <1>7. QED BY <1>5, <1>6 DEF ReadAfter

LEMMA RetryKeeps ==
    ASSUME NEW q \in Polls, PollInv(q), q.pc = "reading", q.todo = {},
           WorthRetrying(q)
    PROVE  PollInv(Retrying(q))
  <1> DEFINE r == Retrying(q)
  <1>1. /\ r \in Polls /\ r.pc = "retrying" /\ r.names = q.names
        /\ r.todo = Failed(q) /\ r.updated = q.updated /\ r.failed = NoFailures
        /\ r.first = q.failed /\ r.silent = q.silent /\ r.asked = q.asked
    BY RetryingFields
  <1>2. Divided(q) /\ Plausible(q) /\ FirstPass(q)
    BY DEF PollInv
  <1>3. \A c \in Components : NoFailures[c] = NoError
    BY DEF NoFailures
  <1> HIDE DEF r
  <1>4. Failed(r) = {}
    BY <1>1, <1>3 DEF Failed
  <1>5. Divided(r)
    BY <1>1, <1>2, <1>4 DEF Divided
  <1>6. Plausible(r)
    BY <1>1, <1>2, <1>3, <1>4 DEF Plausible
  <1>7. SecondPass(r)
    <2>1. PICK other \in q.updated : other \notin Failed(q)
      BY <1>2 DEF WorthRetrying, Divided
    <2>2. other \in Components
      BY DEF Polls
    <2>3. q.failed[other] = NoError
      BY <2>1, <2>2 DEF Failed
    <2>4. NoError # "timeout"
      BY DEF NoError
    <2>5. QED BY <1>1, <1>2, <1>3, <2>1, <2>3, <2>4
              DEF SecondPass, FirstPass, Failed, Divided
  <1>8. PollInv(r)
    BY <1>1, <1>5, <1>6, <1>7, SecondPassRetries DEF PollInv
  <1>9. QED BY <1>8 DEF r

\* A poll with nothing left to read, on its way to its end.
Ready(q) ==
    /\ q \in Polls
    /\ Divided(q) /\ Plausible(q) /\ AllRead(q)

LEMMA ReadyRetries ==
    ASSUME NEW q, Ready(q)
    PROVE  RetriesTheLiving(q)
  BY FirstPassRetries, SecondPassRetries DEF Ready, AllRead

LEMMA ReadyMoves ==
    ASSUME NEW q, Ready(q), NEW pc \in {"identity", "reported"}
    PROVE  LET r == [q EXCEPT !.pc = pc]
           IN  /\ r \in Polls /\ r.pc = pc /\ PollInv(r)
               /\ r.names = q.names /\ r.kind = q.kind
               /\ r.updated = q.updated /\ r.failed = q.failed
               /\ r.first = q.first
  <1> DEFINE r == [q EXCEPT !.pc = pc]
  <1>0. q \in Polls /\ pc \in {"identity", "raised", "cancelled", "reported"}
    BY DEF Ready
  <1>1. /\ r \in Polls /\ r.pc = pc /\ r.kind = q.kind
        /\ r.names = q.names /\ r.todo = q.todo
        /\ r.updated = q.updated /\ r.failed = q.failed
        /\ r.first = q.first /\ r.silent = q.silent /\ r.asked = q.asked
    BY <1>0, MovedTo
  <1> HIDE DEF r
  <1>2. Failed(r) = Failed(q)
    BY <1>1 DEF Failed
  <1>3. Divided(r) /\ Plausible(r)
    BY <1>1, <1>2 DEF Ready, Divided, Plausible
  <1>4. AllRead(r)
    BY <1>1, <1>2 DEF Ready, AllRead, FirstPass, SecondPass
  <1>5. RetriesTheLiving(r)
    BY <1>1, ReadyRetries DEF RetriesTheLiving
  <1>6. PollInv(r)
    BY <1>1, <1>3, <1>4, <1>5 DEF PollInv
  <1>7. QED BY <1>1, <1>6 DEF r

\* A first pass without a retry: its failures are the poll's.
LEMMA SettlesFirst ==
    ASSUME NEW q \in Polls, PollInv(q), q.pc = "reading", q.todo = {}
    PROVE  LET r == [q EXCEPT !.first = q.failed]
           IN  Ready(r) /\ r.names = q.names /\ r.kind = q.kind
  <1> DEFINE r == [q EXCEPT !.first = q.failed]
  <1>1. /\ r \in Polls /\ r.kind = q.kind /\ r.names = q.names
        /\ r.todo = q.todo /\ r.updated = q.updated /\ r.failed = q.failed
        /\ r.first = q.failed /\ r.silent = q.silent /\ r.asked = q.asked
    BY DEF Polls
  <1>2. Divided(q) /\ Plausible(q) /\ FirstPass(q)
    BY DEF PollInv
  <1> HIDE DEF r
  <1>3. Failed(r) = Failed(q)
    BY <1>1 DEF Failed
  <1>4. Ready(r)
    BY <1>1, <1>2, <1>3 DEF Ready, Divided, Plausible, AllRead, FirstPass
  <1>5. QED BY <1>1, <1>4 DEF r

-----------------------------------------------------------------------------
(***************************************************************************)
(* What follows a read, or setup: more reads, or the end.                  *)
(***************************************************************************)

\* The poll of p is now q, and the tuner has been told t of it.
Becomes(p, q, t) ==
    /\ poll' = [poll EXCEPT ![p] = q]
    /\ told' = [told EXCEPT ![p] = t]
    /\ DOMAIN fired' = DOMAIN fired

\* Of all that a step does to a poll, what the invariant speaks of.
Sound(q, t) == q \in Polls /\ t \in Tellings /\ PollInv(q) /\ Heard(q, t)

LEMMA AdvanceCases ==
    ASSUME NEW p \in Pollers, NEW q \in Polls, PollInv(q),
           q.pc \in {"reading", "retrying"}, Advance(p, q)
    PROVE  \E r \in Polls :
            /\ r.names = q.names /\ r.kind = q.kind
            /\ \/ /\ Resume(p, r) /\ PollInv(r)
                  /\ r.pc \in {"reading", "retrying", "identity"}
               \/ Finish(p, r) /\ Ready(r)
  <1>1. ASSUME NEW r, Ready(r), AfterReads(p, r),
               r.names = q.names, r.kind = q.kind
        PROVE  \E s \in Polls :
                /\ s.names = q.names /\ s.kind = q.kind
                /\ \/ /\ Resume(p, s) /\ PollInv(s)
                      /\ s.pc \in {"reading", "retrying", "identity"}
                   \/ Finish(p, s) /\ Ready(s)
    <2>1. CASE Resume(p, [r EXCEPT !.pc = "identity"])
      BY <1>1, <2>1, ReadyMoves
    <2>2. CASE Finish(p, r)
      BY <1>1, <2>2 DEF Ready
    <2>3. QED BY <1>1, <2>1, <2>2 DEF AfterReads
  <1>2. CASE q.todo # {}
    BY <1>2 DEF Advance
  <1>3. CASE q.todo = {} /\ q.pc = "reading"
    <2>1. FirstPassDone(p, q)
      BY <1>3 DEF Advance
    <2>2. CASE WorthRetrying(q) /\ Resume(p, Retrying(q))
      BY <1>3, <2>2, RetryKeeps, RetryingFields
    <2>3. CASE AfterReads(p, [q EXCEPT !.first = q.failed])
      BY <1>1, <1>3, <2>3, SettlesFirst
    <2>4. QED BY <2>1, <2>2, <2>3 DEF FirstPassDone
  <1>4. CASE q.todo = {} /\ q.pc = "retrying"
    <2>1. AfterReads(p, q)
      BY <1>4 DEF Advance
    <2>2. Ready(q)
      BY <1>4 DEF Ready, PollInv, AllRead
    <2>3. QED BY <1>1, <2>1, <2>2
  <1>5. QED BY <1>2, <1>3, <1>4

LEMMA FinishKeeps ==
    ASSUME NEW p \in Pollers, NEW q, Ready(q), Finish(p, q)
    PROVE  \E r, t : /\ Becomes(p, r, t) /\ Sound(r, t)
                     /\ r.names = q.names /\ r.kind = q.kind
                     /\ r.pc = "reported"
  <1> DEFINE r == [q EXCEPT !.pc = "reported"]
             t == Outcome(q.updated, BothAttempts(q.first, q.failed))
  <1>1. /\ r \in Polls /\ r.pc = "reported" /\ PollInv(r)
        /\ r.names = q.names /\ r.kind = q.kind /\ r.updated = q.updated
        /\ r.failed = q.failed /\ r.first = q.first
    BY ReadyMoves
  <1>2. Becomes(p, r, t)
    BY DEF Finish, Becomes
  <1>3. BothAttempts(q.first, q.failed) \in Outcomes /\ q.updated \in SUBSET Components
    BY DEF Ready, Polls, Outcomes, BothAttempts
  <1>4. t \in Tellings
    BY <1>3 DEF Tellings, Outcome
  <1> HIDE DEF r
  <1>5. Heard(r, t)
    BY <1>1 DEF Heard
  <1>6. QED BY <1>1, <1>2, <1>4, <1>5 DEF Sound

\* The tuner has heard nothing of a poll in progress.
LEMMA Unheard ==
    ASSUME IInv, NEW p \in Pollers, poll[p].pc # "reported"
    PROVE  /\ poll[p] \in Polls /\ told[p] \in Tellings
           /\ PollInv(poll[p]) /\ told[p].what # "report"
           /\ poll[p].pc \in Past => settled /\ poll[p].names = Names(poll[p].kind, lists)
  BY DEF IInv, TypeOK, Heard, ReadsSettled

LEMMA AdvanceKeeps ==
    ASSUME IInv, NEW p \in Pollers, poll[p].pc # "reported",
           NEW q \in Polls, PollInv(q), q.pc \in {"reading", "retrying"},
           Advance(p, q)
    PROVE  \E r, t : /\ Becomes(p, r, t) /\ Sound(r, t) /\ r.pc \in Past
                     /\ r.names = q.names /\ r.kind = q.kind
  <1>1. PICK r \in Polls :
            /\ r.names = q.names /\ r.kind = q.kind
            /\ \/ /\ Resume(p, r) /\ PollInv(r)
                  /\ r.pc \in {"reading", "retrying", "identity"}
               \/ Finish(p, r) /\ Ready(r)
    BY AdvanceCases
  <1>2. CASE Resume(p, r) /\ PollInv(r) /\ r.pc \in {"reading", "retrying", "identity"}
    <2>1. told' = [told EXCEPT ![p] = told[p]]
      BY <1>2 DEF Resume, IInv, TypeOK
    <2>2. Becomes(p, r, told[p])
      BY <1>2, <2>1 DEF Becomes, Resume
    <2>3. Sound(r, told[p])
      BY <1>2, Unheard DEF Sound, Heard
    <2>4. QED BY <1>1, <1>2, <2>2, <2>3 DEF Past
  <1>3. CASE Finish(p, r) /\ Ready(r)
    BY <1>1, <1>3, FinishKeeps DEF Past
  <1>4. QED BY <1>1, <1>2, <1>3

\* A poll that raises, told of as a failure, or is cancelled, told of not
\* at all: only what it has read counts any more.
LEMMA RaiseKeeps ==
    ASSUME NEW p \in Pollers, NEW q \in Polls, RetriesTheLiving(q),
           RaiseWith(p, q)
    PROVE  \E r, t : Becomes(p, r, t) /\ Sound(r, t) /\ r.pc = "raised"
  <1> DEFINE r == [q EXCEPT !.pc = "raised"]
  <1>1. /\ r \in Polls /\ r.pc = "raised"
        /\ r.updated = q.updated /\ r.asked = q.asked
    BY MovedTo
  <1>2. Becomes(p, r, Failure)
    BY DEF RaiseWith, Becomes
  <1> HIDE DEF r
  <1>3. PollInv(r)
    BY <1>1 DEF PollInv, RetriesTheLiving
  <1>4. Failure \in Tellings /\ Failure.what # "report"
    BY DEF Failure, Tellings
  <1>5. QED BY <1>1, <1>2, <1>3, <1>4 DEF Sound, Heard

\* Having read a component once more, a poll that raises has not overdone it.
LEMMA AskedRetries ==
    ASSUME NEW p \in Pollers, NEW c \in Components, poll[p] \in Polls,
           PollInv(poll[p]), InTurn(p, c)
    PROVE  /\ Asked(p, c) \in Polls /\ RetriesTheLiving(Asked(p, c))
           /\ ReadAfter(poll[p], Asked(p, c), c)
  <1> DEFINE q == poll[p]
             r == Asked(p, c)
  <1>1. /\ r \in Polls /\ ReadAfter(q, r, c)
        /\ r.updated = q.updated /\ r.first = q.first
    BY AskedFields DEF ReadAfter, InTurn
  <1> HIDE DEF q, r
  <1>2. CASE q.pc = "reading"
    <2>1. \A d \in Components : r.asked[d] = 0 \/ r.asked[d] = 1
      BY <1>1, <1>2, ReadCounts DEF FirstPass
    <2>2. /\ 0 \in {0, 1, 2} /\ 0 # 2
          /\ 1 \in {0, 1, 2} /\ 1 # 2
      OBVIOUS
    <2>3. RetriesTheLiving(r)
      BY <2>1, <2>2, SmallCounts DEF RetriesTheLiving
    <2>4. QED BY <1>1, <2>3 DEF q, r
  <1>3. CASE q.pc = "retrying"
    <2>1. SecondPass(q) /\ r.asked[c] = 2 /\ c \in q.todo
      BY <1>1, <1>3, ReadCounts DEF ReadAfter
    <2>2. PICK other \in q.updated : q.first[other] = NoError
      BY <2>1 DEF SecondPass
    <2>3. other \in Components /\ q.asked[other] = 1 /\ other # c
      BY <1>1, <2>1, <2>2 DEF SecondPass, ReadAfter, Polls
    <2>4. r.asked[other] = 1
      BY <1>1, <2>3, ReadCounts
    <2>5. \A d \in Components : r.asked[d] \in {0, 1, 2}
      <3>1. \A d \in Components : q.asked[d] \in {0, 1, 2}
        BY <2>1 DEF SecondPass
      <3>2. /\ \A d \in Components \ {c} : r.asked[d] = q.asked[d]
            /\ 2 \in {0, 1, 2}
        BY <1>1, ReadCounts
      <3>3. QED BY <2>1, <3>1, <3>2
    <2>6. \A d \in Components : r.asked[d] = 2 => other \in r.updated \ {d}
      BY <1>1, <2>2, <2>4
    <2>7. RetriesTheLiving(r)
      BY <2>4, <2>5, <2>6, SmallCounts DEF RetriesTheLiving
    <2>8. QED BY <1>1, <2>7 DEF q, r
  <1>4. QED BY <1>1, <1>2, <1>3 DEF ReadAfter

-----------------------------------------------------------------------------
(***************************************************************************)
(* Every step keeps the invariant.                                         *)
(***************************************************************************)
Frame == UNCHANGED <<site, settled, lists, pending, identity, reader>>

\* What SiteAssumption says of the lists polled.
LEMMA ListsTyped ==
    ASSUME NEW s \in Sites, NEW l \in s.lists, NEW kind \in Kinds
    PROVE  /\ Names(kind, l) \in Seq(Components)
           /\ ToSet(Names(kind, l)) \in SUBSET Components
  <1>1. l.readings \in Seq(Components) /\ l.settings \in Seq(Components)
    BY SiteAssumption
  <1>2. <<>> \in Seq(Components)
    OBVIOUS
  <1>3. Names(kind, l) \in Seq(Components)
    BY <1>1, <1>2 DEF Names
  <1>4. QED BY <1>3 DEF ToSet

LEMMA StepKeepsIInv ==
    ASSUME IInv, NEW p \in Pollers, NEW r, NEW t,
           Becomes(p, r, t), Sound(r, t),
           site' = site, settled' \in BOOLEAN, pending' \in BOOLEAN,
           identity' \in {"unasked", "asked", "read"},
           reader' \in 0..IdentityAttempts,
           lists' \in IF settled' THEN site.lists ELSE {Unsettled},
           settled => settled' /\ lists' = lists,
           r.pc \in Past => settled' /\ r.names = Names(r.kind, lists'),
           IdentityOwed'
    PROVE  IInv'
  <1>1. /\ poll' \in [Pollers -> Polls] /\ told' \in [Pollers -> Tellings]
        /\ poll'[p] = r /\ told'[p] = t
        /\ \A o \in Pollers \ {p} : poll'[o] = poll[o] /\ told'[o] = told[o]
    BY DEF Becomes, Sound, IInv, TypeOK
  <1>2. TypeOK'
    BY <1>1 DEF Becomes, IInv, TypeOK
  <1>3. ASSUME NEW o \in Pollers
        PROVE  /\ PollInv(poll'[o]) /\ Heard(poll'[o], told'[o])
               /\ poll'[o].pc \in Past =>
                    settled' /\ poll'[o].names = Names(poll'[o].kind, lists')
    <2>1. CASE o = p
      BY <1>1, <2>1 DEF Sound
    <2>2. CASE o # p
      BY <1>1, <2>2 DEF IInv, ReadsSettled
    <2>3. QED BY <2>1, <2>2
  <1>4. ASSUME NEW o \in Pollers PROVE PollInv(poll[o])'
    BY <1>3
  <1>5. ASSUME NEW o \in Pollers PROVE Heard(poll[o], told[o])'
    BY <1>3
  <1>6. ASSUME NEW o \in Pollers PROVE ReadsSettled(poll[o])'
    BY <1>3 DEF ReadsSettled
  <1>7. QED BY <1>2, <1>4, <1>5, <1>6 DEF IInv

\* A poll's own steps touch the identity only in its late try.
LEMMA FrameKeeps ==
    ASSUME IInv, NEW p \in Pollers, NEW r, NEW t,
           Becomes(p, r, t), Sound(r, t), Frame,
           r.pc \in Past => settled /\ r.names = Names(r.kind, lists)
    PROVE  IInv'
  <1>1. /\ settled \in BOOLEAN /\ pending \in BOOLEAN
        /\ identity \in {"unasked", "asked", "read"}
        /\ reader \in 0..IdentityAttempts
        /\ lists \in IF settled THEN site.lists ELSE {Unsettled}
        /\ IdentityOwed
    BY DEF IInv, TypeOK
  <1>2. IdentityOwed'
    BY <1>1 DEF Frame, IdentityOwed
  <1>3. QED BY <1>1, <1>2, StepKeepsIInv DEF Frame

\* A step that leaves a poll reading the same, or ends it.
LEMMA ReadKeeps ==
    ASSUME IInv, NEW p \in Pollers, poll[p].pc \in {"reading", "retrying"},
           Frame,
           NEW q \in Polls, q.names = poll[p].names, q.kind = poll[p].kind,
           \/ PollInv(q) /\ q.pc = poll[p].pc /\ Advance(p, q)
           \/ RetriesTheLiving(q) /\ RaiseWith(p, q)
    PROVE  IInv'
  <1>1. poll[p].pc # "reported" /\ poll[p].pc \in Past
    BY DEF Past
  <1>2. settled /\ q.names = Names(q.kind, lists)
    BY <1>1, Unheard
  <1>3. CASE PollInv(q) /\ q.pc = poll[p].pc /\ Advance(p, q)
    <2>1. PICK r, t : /\ Becomes(p, r, t) /\ Sound(r, t)
                      /\ r.names = q.names /\ r.kind = q.kind
      BY <1>1, <1>3, AdvanceKeeps
    <2>2. QED BY <1>2, <2>1, FrameKeeps
  <1>4. CASE RetriesTheLiving(q) /\ RaiseWith(p, q)
    <2>1. PICK r, t : Becomes(p, r, t) /\ Sound(r, t) /\ r.pc = "raised"
      BY <1>4, RaiseKeeps
    <2>2. QED BY <2>1, FrameKeeps DEF Past
  <1>5. QED BY <1>3, <1>4

\* The poll as a read leaves it goes on, or raises.
LEMMA ReadStepCases ==
    ASSUME IInv, UNCHANGED site, NEW p \in Pollers, NEW c \in Components,
           \/ ReadAnswered(p, c)
           \/ \E error \in site.errors : ReadFailed(p, c, error)
           \/ ConnectionLost(p, c)
    PROVE  /\ Frame /\ poll[p].pc \in {"reading", "retrying"}
           /\ \E q \in Polls :
                /\ q.names = poll[p].names /\ q.kind = poll[p].kind
                /\ \/ PollInv(q) /\ q.pc = poll[p].pc /\ Advance(p, q)
                   \/ RetriesTheLiving(q) /\ RaiseWith(p, q)
  <1> DEFINE Goes(q) ==
                /\ q.names = poll[p].names /\ q.kind = poll[p].kind
                /\ \/ PollInv(q) /\ q.pc = poll[p].pc /\ Advance(p, q)
                   \/ RetriesTheLiving(q) /\ RaiseWith(p, q)
  <1>1. /\ InTurn(p, c) /\ Frame
        /\ poll[p].pc \in {"reading", "retrying"}
    BY DEF ReadAnswered, ReadFailed, ConnectionLost, InTurn, Frame
  <1>2. poll[p] \in Polls /\ PollInv(poll[p])
    BY DEF IInv, TypeOK
  <1>3. /\ Asked(p, c) \in Polls /\ RetriesTheLiving(Asked(p, c))
        /\ Asked(p, c).names = poll[p].names
        /\ Asked(p, c).kind = poll[p].kind
        /\ ReadAfter(poll[p], Asked(p, c), c)
    BY <1>1, <1>2, AskedRetries, AskedFields
  <1>4. CASE RaiseWith(p, Asked(p, c))
    BY <1>1, <1>3, <1>4
  <1>5. CASE ReadAnswered(p, c)
    <2> DEFINE r == Answers(p, c)
    <2>1. /\ r \in Polls /\ r.pc = poll[p].pc /\ r.names = poll[p].names
          /\ r.kind = poll[p].kind
          /\ r.updated = poll[p].updated \cup {c} /\ r.failed = poll[p].failed
          /\ r.silent = poll[p].silent /\ r.first = poll[p].first
          /\ r.todo = poll[p].todo \ {c} /\ r.asked = Asked(p, c).asked
      BY <1>2, AnswersFields
    <2>2. c \notin Unserved /\ Advance(p, r)
      BY <1>5 DEF ReadAnswered
    <2> HIDE DEF r
    <2>3. ReadAfter(poll[p], r, c)
      BY <1>3, <2>1 DEF ReadAfter
    <2>4. PollInv(r)
      BY <2>1, <2>2, <2>3, AnswerKeeps
    <2>5. Goes(r)
      BY <2>1, <2>2, <2>4
    <2>6. QED BY <1>1, <2>1, <2>5
  <1>6. ASSUME NEW error \in site.errors, ReadFailed(p, c, error),
               ~RaiseWith(p, Asked(p, c))
        PROVE  \E q \in Polls : Goes(q)
    <2> DEFINE r == Misses(p, c, error)
    <2>0. error \in Errors
      BY SiteAssumption DEF IInv, TypeOK
    <2>1. /\ r \in Polls /\ r.pc = poll[p].pc /\ r.names = poll[p].names
          /\ r.kind = poll[p].kind /\ r.updated = poll[p].updated
          /\ r.failed = [poll[p].failed EXCEPT ![c] = error]
          /\ r.silent = poll[p].silent \cup (IF error = "timeout" THEN {c} ELSE {})
          /\ r.first = poll[p].first
          /\ r.todo = poll[p].todo \ {c} /\ r.asked = Asked(p, c).asked
      BY <1>2, <2>0, MissesFields
    <2>2. /\ error = "timeout" => ~NothingYet(poll[p])
          /\ Advance(p, r)
      BY <1>6 DEF ReadFailed, SilentFromTheStart
    <2> HIDE DEF r
    <2>3. ReadAfter(poll[p], r, c)
      BY <1>3, <2>1 DEF ReadAfter
    <2>4. PollInv(r)
      BY <2>0, <2>1, <2>2, <2>3, MissKeeps
    <2>5. Goes(r)
      BY <2>1, <2>2, <2>4
    <2>6. QED BY <1>1, <2>1, <2>5
  <1>7. QED BY <1>1, <1>4, <1>5, <1>6 DEF ConnectionLost

LEMMA ReadStepKeepsIInv ==
    ASSUME IInv, UNCHANGED site, NEW p \in Pollers, NEW c \in Components,
           \/ ReadAnswered(p, c)
           \/ \E error \in site.errors : ReadFailed(p, c, error)
           \/ ConnectionLost(p, c)
    PROVE  IInv'
  <1>1. /\ Frame /\ poll[p].pc \in {"reading", "retrying"}
        /\ \E q \in Polls :
                /\ q.names = poll[p].names /\ q.kind = poll[p].kind
                /\ \/ PollInv(q) /\ q.pc = poll[p].pc /\ Advance(p, q)
                   \/ RetriesTheLiving(q) /\ RaiseWith(p, q)
    BY ReadStepCases
  <1>2. QED BY <1>1, ReadKeeps

LEMMA BeginKeepsIInv ==
    ASSUME IInv, UNCHANGED site, NEW p \in Pollers, NEW kind \in Kinds,
           Begin(p, kind)
    PROVE  IInv'
  <1> DEFINE r == NewPoll(kind)
  <1>1. r \in Polls /\ r.pc = "setup" /\ Untouched(r)
    BY FreshPoll
  <1>2. Becomes(p, r, Nothing) /\ Frame
    BY DEF Begin, Becomes, Frame
  <1> HIDE DEF r
  <1>3. PollInv(r)
    BY <1>1, UntouchedHolds DEF PollInv
  <1>4. Sound(r, Nothing)
    BY <1>1, <1>3 DEF Sound, Heard, Nothing, Tellings
  <1>5. QED BY <1>1, <1>2, <1>4, FrameKeeps DEF Past

\* Past setup, everything polled is still to do.
LEMMA SetUpCases ==
    ASSUME IInv, UNCHANGED site, NEW p \in Pollers, SetUp(p)
    PROVE  \E q \in Polls :
            /\ PollInv(q) /\ q.pc = "reading" /\ q.kind = poll[p].kind
            /\ q.names = Names(q.kind, lists')
            /\ Advance(p, q)
  <1> DEFINE q == poll[p]
             names == Names(q.kind, lists')
             r == [q EXCEPT !.pc = "reading", !.names = names,
                            !.todo = ToSet(names)]
  <1>1. /\ q \in Polls /\ q.pc = "setup" /\ PollInv(q) /\ Untouched(q)
        /\ q.kind \in Kinds
    BY DEF SetUp, IInv, TypeOK, PollInv, Polls
  <1>2. /\ lists' \in site.lists /\ settled' = TRUE
        /\ settled => lists' = lists
        /\ site \in Sites
    BY DEF SetUp, SettleLists, IInv, TypeOK
  <1>3. names \in Seq(Components) /\ ToSet(names) \in SUBSET Components
    BY <1>1, <1>2, ListsTyped
  <1>4. Advance(p, r)
    BY DEF SetUp
  <1> HIDE DEF names
  <1>5. /\ r \in Polls /\ r.pc = "reading" /\ r.kind = q.kind
        /\ r.names = names /\ r.todo = ToSet(names)
        /\ r.updated = q.updated /\ r.failed = q.failed /\ r.first = q.first
        /\ r.silent = q.silent /\ r.asked = q.asked
    BY <1>1, <1>3 DEF Polls, Running
  <1> HIDE DEF q, r
  <1>6. \A c \in Components : NoFailures[c] = NoError
    BY DEF NoFailures
  <1>7. Failed(r) = {}
    BY <1>1, <1>5, <1>6 DEF Untouched, Failed
  <1>8. Divided(r)
    BY <1>1, <1>5, <1>7 DEF Untouched, Divided
  <1>9. Plausible(r)
    BY <1>1, <1>5, <1>6, <1>7 DEF Untouched, Plausible
  <1>10. FirstPass(r)
    BY <1>1, <1>5, <1>6, <1>7 DEF Untouched, FirstPass, NoError
  <1>11. PollInv(r)
    BY <1>1, <1>5, <1>8, <1>9, <1>10, FirstPassRetries DEF PollInv, Untouched
  <1>12. r.names = Names(r.kind, lists')
    BY <1>5 DEF names
  <1>13. QED BY <1>4, <1>5, <1>11, <1>12 DEF q

LEMMA SetUpKeepsIInv ==
    ASSUME IInv, UNCHANGED site, NEW p \in Pollers, SetUp(p)
    PROVE  IInv'
  <1>1. PICK q \in Polls :
            /\ PollInv(q) /\ q.pc = "reading" /\ q.kind = poll[p].kind
            /\ q.names = Names(q.kind, lists')
            /\ Advance(p, q)
    BY SetUpCases
  <1>2. poll[p].pc # "reported"
    BY DEF SetUp
  <1>3. PICK r, t : /\ Becomes(p, r, t) /\ Sound(r, t)
                    /\ r.names = q.names /\ r.kind = q.kind
    BY <1>1, <1>2, AdvanceKeeps
  <1>4. /\ lists' \in site.lists /\ settled' = TRUE
        /\ settled => lists' = lists
        /\ UNCHANGED <<pending, identity, reader>>
    BY DEF SetUp, SettleLists, IInv, TypeOK
  <1>5. /\ pending \in BOOLEAN /\ reader \in 0..IdentityAttempts
        /\ identity \in {"unasked", "asked", "read"} /\ IdentityOwed
    BY DEF IInv, TypeOK
  <1>6. IdentityOwed'
    BY <1>4, <1>5 DEF IdentityOwed
  <1>7. QED BY <1>1, <1>3, <1>4, <1>5, <1>6, StepKeepsIInv

LEMMA SetupFailsKeepsIInv ==
    ASSUME IInv, UNCHANGED site, NEW p \in Pollers, SetupFails(p)
    PROVE  IInv'
  <1>1. poll[p] \in Polls /\ RetriesTheLiving(poll[p])
    BY DEF IInv, TypeOK, PollInv
  <1>2. Frame /\ RaiseWith(p, poll[p])
    BY DEF SetupFails, Frame
  <1>3. PICK r, t : Becomes(p, r, t) /\ Sound(r, t) /\ r.pc = "raised"
    BY <1>1, <1>2, RaiseKeeps
  <1>4. QED BY <1>2, <1>3, FrameKeeps DEF Past

LEMMA TryIdentityKeepsIInv ==
    ASSUME IInv, UNCHANGED site, NEW p \in Pollers, NEW answered \in BOOLEAN,
           TryIdentity(p, answered)
    PROVE  IInv'
  <1>1. Ready(poll[p]) /\ poll[p].pc \in Past
    BY DEF TryIdentity, IInv, TypeOK, PollInv, Ready, Past
  <1>2. PICK r, t : /\ Becomes(p, r, t) /\ Sound(r, t)
                    /\ r.names = poll[p].names /\ r.kind = poll[p].kind
    BY <1>1, FinishKeeps DEF TryIdentity
  <1>3. settled /\ r.names = Names(r.kind, lists)
    BY <1>1, <1>2 DEF IInv, ReadsSettled
  <1>4. /\ settled \in BOOLEAN /\ reader \in 0..IdentityAttempts
        /\ identity \in {"unasked", "asked", "read"}
        /\ lists \in IF settled THEN site.lists ELSE {Unsettled}
    BY DEF IInv, TypeOK
  <1>5. /\ UNCHANGED <<settled, lists, reader>> /\ pending' = ~answered
        /\ identity' = IF answered THEN "read" ELSE identity
    BY DEF TryIdentity
  <1>6. pending' \in BOOLEAN
    BY <1>5
  <1>7. IdentityOwed'
    BY <1>5 DEF IdentityOwed
  <1>8. QED BY <1>2, <1>3, <1>4, <1>5, <1>6, <1>7, StepKeepsIInv

LEMMA CancelKeepsIInv ==
    ASSUME IInv, UNCHANGED site, NEW p \in Pollers, Cancel(p)
    PROVE  IInv'
  <1> DEFINE r == [poll[p] EXCEPT !.pc = "cancelled"]
  <1>1. poll[p] \in Polls /\ poll[p].pc # "reported" /\ RetriesTheLiving(poll[p])
    BY DEF IInv, TypeOK, PollInv, Cancel, Running
  <1>2. /\ r \in Polls /\ r.pc = "cancelled"
        /\ r.updated = poll[p].updated /\ r.asked = poll[p].asked
    BY <1>1, MovedTo
  <1>3. Becomes(p, r, told[p]) /\ Frame
    BY DEF Cancel, Becomes, Frame, IInv, TypeOK
  <1> HIDE DEF r
  <1>4. PollInv(r)
    BY <1>1, <1>2 DEF PollInv, RetriesTheLiving
  <1>5. Sound(r, told[p])
    BY <1>1, <1>2, <1>4, Unheard DEF Sound, Heard
  <1>6. QED BY <1>2, <1>3, <1>5, FrameKeeps DEF Past

\* The identity's own steps leave the polls alone.
LEMMA IdentityKeepsIInv ==
    ASSUME IInv, UNCHANGED site, IdentityStep
    PROVE  IInv'
  <1>1. IdentityAttempts \in Nat \ {0} /\ reader \in 0..IdentityAttempts
    BY SiteAssumption DEF IInv, TypeOK
  <1>2. UNCHANGED <<settled, lists, poll, told, fired>>
    BY DEF IdentityStep, ReadIdentity, IdentityRead, IdentityMissed,
           IdentityCancelled
  <1>3. /\ pending \in BOOLEAN /\ identity \in {"unasked", "asked", "read"}
        /\ IdentityOwed
    BY DEF IInv, TypeOK
  <1>4. reader' \in 0..IdentityAttempts
    BY <1>1 DEF IdentityStep, ReadIdentity, IdentityRead, IdentityMissed,
                IdentityCancelled
  <1>5. pending' \in BOOLEAN /\ identity' \in {"unasked", "asked", "read"}
    BY <1>3 DEF IdentityStep, ReadIdentity, IdentityRead, IdentityMissed,
                IdentityCancelled
  <1>6. IdentityOwed'
    <2>1. CASE ReadIdentity
      BY <1>1, <2>1 DEF ReadIdentity, IdentityOwed
    <2>2. CASE IdentityRead
      BY <2>2 DEF IdentityRead, IdentityOwed
    <2>3. CASE IdentityMissed
      <3>1. /\ reader > 0 /\ reader' = reader - 1
            /\ pending' = (pending \/ reader = 1)
        BY <2>3 DEF IdentityMissed
      <3>2. reader' = 0 => reader = 1
        BY <1>1, <3>1
      <3>3. reader = 1 => pending'
        BY <3>1
      <3>4. QED BY <3>2, <3>3 DEF IdentityOwed
    <2>4. CASE IdentityCancelled
      BY <2>4 DEF IdentityCancelled, IdentityOwed
    <2>5. QED BY <2>1, <2>2, <2>3, <2>4 DEF IdentityStep
  <1>7. TypeOK'
    BY <1>2, <1>4, <1>5 DEF IInv, TypeOK
  <1>8. ASSUME NEW o \in Pollers
        PROVE  PollInv(poll[o])' /\ Heard(poll[o], told[o])' /\ ReadsSettled(poll[o])'
    BY <1>2 DEF IInv, ReadsSettled
  <1>9. QED BY <1>6, <1>7, <1>8 DEF IInv

LEMMA InitIInv == Init => IInv
  <1> SUFFICES ASSUME Init PROVE IInv
    OBVIOUS
  <1>1. "both" \in Kinds /\ NoPoll \in Polls /\ NoPoll.pc = "idle"
        /\ Untouched(NoPoll)
    BY FreshPoll DEF Kinds
  <1>2. PollInv(NoPoll)
    BY <1>1, UntouchedHolds DEF PollInv
  <1>3. Nothing \in Tellings /\ Heard(NoPoll, Nothing)
    BY <1>1 DEF Nothing, Tellings, Heard
  <1>4. 0 \in 0..IdentityAttempts
    BY SiteAssumption
  <1>5. TypeOK
    BY <1>1, <1>3, <1>4 DEF Init, TypeOK
  <1>6. IdentityOwed
    BY DEF Init, IdentityOwed
  <1>7. ASSUME NEW p \in Pollers
        PROVE  /\ PollInv(poll[p]) /\ Heard(poll[p], told[p])
               /\ ReadsSettled(poll[p])
    BY <1>1, <1>2, <1>3 DEF Init, ReadsSettled, Past
  <1>8. QED BY <1>5, <1>6, <1>7 DEF IInv

LEMMA NextKeepsIInv == IInv /\ [Next]_vars => IInv'
  <1> SUFFICES ASSUME IInv, [Next]_vars PROVE IInv'
    OBVIOUS
  <1>1. ASSUME Next PROVE IInv'
    <2>1. UNCHANGED site /\ site.pollers \subseteq Pollers
      BY <1>1, SiteAssumption DEF Next, IInv, TypeOK
    <2>2. ASSUME NEW p \in site.pollers, NEW kind \in Kinds, Begin(p, kind)
          PROVE  IInv'
      BY <2>1, <2>2, BeginKeepsIInv
    <2>3. ASSUME NEW p \in Pollers, PollStep(p) PROVE IInv'
      <3>1. CASE SetUp(p)
        BY <2>1, <3>1, SetUpKeepsIInv
      <3>2. CASE SetupFails(p)
        BY <2>1, <3>2, SetupFailsKeepsIInv
      <3>3. ASSUME NEW c \in Components,
                   \/ ReadAnswered(p, c)
                   \/ \E error \in site.errors : ReadFailed(p, c, error)
                   \/ ConnectionLost(p, c)
            PROVE  IInv'
        BY <2>1, <3>3, ReadStepKeepsIInv
      <3>4. ASSUME NEW answered \in BOOLEAN, TryIdentity(p, answered)
            PROVE  IInv'
        BY <2>1, <3>4, TryIdentityKeepsIInv
      <3>5. QED BY <2>3, <3>1, <3>2, <3>3, <3>4 DEF PollStep
    <2>4. ASSUME NEW p \in Pollers, Cancel(p) PROVE IInv'
      BY <2>1, <2>4, CancelKeepsIInv
    <2>5. CASE IdentityStep
      BY <2>1, <2>5, IdentityKeepsIInv
    <2>6. QED BY <1>1, <2>2, <2>3, <2>4, <2>5 DEF Next
  <1>2. ASSUME UNCHANGED vars PROVE IInv'
    BY <1>2 DEF vars, IInv, TypeOK, IdentityOwed, ReadsSettled
  <1>3. QED BY <1>1, <1>2

LEMMA InductiveInvariant == Spec => []IInv
  BY InitIInv, NextKeepsIInv, PTL DEF Spec

-----------------------------------------------------------------------------
(***************************************************************************)
(* The theorems.                                                           *)
(***************************************************************************)

\* A poll's records, its reports and the identity's tries keep their types.
THEOREM TypeCorrect == Spec => []TypeOK
  <1>1. IInv => TypeOK
    BY DEF IInv
  <1>2. QED BY <1>1, InductiveInvariant, PTL

\* However polls interleave and are retried, each report accounts for every
\* component polled, once.
THEOREM ReportsAccount == Spec => []ReportAccounts
  <1>1. IInv => ReportAccounts
    <2> SUFFICES ASSUME IInv, NEW p \in Pollers, poll[p].pc = "reported"
                 PROVE  /\ poll[p].updated \cup Failed(poll[p]) = ToSet(poll[p].names)
                        /\ poll[p].updated \cap Failed(poll[p]) = {}
      BY DEF ReportAccounts
    <2>1. Divided(poll[p]) /\ AllRead(poll[p])
      BY DEF IInv, PollInv
    <2>2. QED BY <2>1 DEF Divided, AllRead
  <1>2. QED BY <1>1, InductiveInvariant, PTL

\* A component is read twice at most, and only where another answered.
THEOREM RetriesOnlyTheLiving == Spec => []RetryOnlyTheLiving
  <1>1. IInv => RetryOnlyTheLiving
    BY DEF IInv, PollInv, RetriesTheLiving, RetryOnlyTheLiving
  <1>2. QED BY <1>1, InductiveInvariant, PTL

\* What the tuner is told of a report: its poll was ready to make it.
LEMMA HeardReady ==
    ASSUME IInv, NEW p \in Pollers, told[p].what = "report"
    PROVE  /\ Ready(poll[p])
           /\ told[p].updated = poll[p].updated
           /\ told[p].failed = BothAttempts(poll[p].first, poll[p].failed)
  <1>1. poll[p] \in Polls /\ PollInv(poll[p]) /\ Heard(poll[p], told[p])
    BY DEF IInv, TypeOK
  <1>2. /\ poll[p].pc = "reported"
        /\ told[p] = Outcome(poll[p].updated,
                             BothAttempts(poll[p].first, poll[p].failed))
    BY <1>1 DEF Heard
  <1>3. QED BY <1>1, <1>2 DEF PollInv, Ready, Outcome

\* The failures of both passes are those of components polled, cover the
\* report's own, and make a plausible report with what was updated.
LEMMA BothAttemptsOf ==
    ASSUME NEW q, Ready(q)
    PROVE  LET both == BothAttempts(q.first, q.failed)
               r == [updated |-> q.updated, failed |-> both]
           IN  /\ r \in Reports
               /\ q.updated # {} => \E c \in q.updated : both[c] = NoError
               /\ \A c \in Components :
                    both[c] = IF q.failed[c] = NoError \/ q.first[c] = "timeout"
                              THEN q.first[c] ELSE q.failed[c]
               /\ \A c \in Components :
                    /\ both[c] # NoError => c \in ToSet(q.names)
                    /\ q.failed[c] # NoError => both[c] # NoError
  <1> DEFINE both == BothAttempts(q.first, q.failed)
             r == [updated |-> q.updated, failed |-> both]
  <1>1. /\ q \in Polls /\ Divided(q) /\ Plausible(q) /\ AllRead(q)
    BY DEF Ready
  <1>2. /\ both \in Outcomes
        /\ \A c \in Components :
                both[c] = IF q.failed[c] = NoError \/ q.first[c] = "timeout"
                          THEN q.first[c] ELSE q.failed[c]
    BY <1>1 DEF BothAttempts, Polls, Outcomes
  <1>3. r.updated = q.updated /\ r.failed = both
    OBVIOUS
  <1>4. r \in [updated : SUBSET Components, failed : Outcomes]
    BY <1>1, <1>2 DEF Polls
  <1>5. NoError # "timeout"
    BY DEF NoError
  <1>6. ASSUME NEW c \in Components
        PROVE  /\ both[c] # NoError => c \in ToSet(q.names)
               /\ q.failed[c] # NoError => both[c] # NoError
    <2>1. q.failed[c] # NoError => c \in ToSet(q.names)
      BY <1>1 DEF Divided, Failed
    <2>2. q.first[c] # NoError => c \in ToSet(q.names)
      BY <1>1, <2>1 DEF AllRead, SecondPass
    <2>3. QED BY <1>2, <1>5, <2>1, <2>2
  <1> HIDE DEF both, r
  <1>7. r.updated \cap Unserved = {}
    BY <1>1, <1>3 DEF Plausible
  <1>8. ASSUME r.updated = {}, Failed(r) # {}
        PROVE  \E c \in Failed(r) : r.failed[c] # "timeout"
    <2>1. q.first = q.failed
      BY <1>1, <1>3, <1>8 DEF AllRead, SecondPass
    <2>2. \A c \in Components : r.failed[c] = q.failed[c]
      BY <1>2, <1>3, <2>1
    <2>3. Failed(r) = Failed(q)
      BY <2>2 DEF Failed
    <2>4. PICK c \in Failed(q) : q.failed[c] # "timeout"
      BY <1>1, <1>3, <1>8, <2>3 DEF Plausible
    <2>5. QED BY <2>2, <2>3, <2>4 DEF Failed
  <1>9. PlausibleReport(r)
    BY <1>8 DEF PlausibleReport
  <1>10. r \in Reports
    BY <1>4, <1>7, <1>9 DEF Reports, Outcomes
  <1>11. ASSUME r.updated # {}
         PROVE  \E c \in r.updated : q.first[c] = NoError /\ q.failed[c] = NoError
    <2>1. CASE q.first = q.failed
      BY <1>1, <1>3, <1>11, <2>1 DEF Divided, Failed, Polls
    <2>2. CASE SecondPass(q)
      BY <1>1, <1>3, <2>2 DEF SecondPass, Polls
    <2>3. QED BY <1>1, <2>1, <2>2 DEF AllRead
  <1>12. r.updated # {} => \E c \in r.updated : both[c] = NoError
    BY <1>1, <1>2, <1>3, <1>11 DEF Polls
  <1>13. QED BY <1>2, <1>6, <1>10, <1>12 DEF both, r

\* No failure of either attempt escapes the tuner, and no timeout is covered.
THEOREM EveryFailureHeard == Spec => []TunerHearsEveryFailure
  <1>1. IInv => TunerHearsEveryFailure
    <2> SUFFICES ASSUME IInv, NEW p \in Pollers, told[p].what = "report",
                        NEW c \in Components
                 PROVE  /\ poll[p].asked[c] = 2 => told[p].failed[c] # NoError
                        /\ told[p].failed[c] = "timeout" <=> c \in poll[p].silent
                        /\ poll[p].failed[c] # NoError => told[p].failed[c] # NoError
      BY DEF TunerHearsEveryFailure
    <2> DEFINE q == poll[p]
               t == told[p].failed[c]
    <2>1. /\ AllRead(q)
          /\ t = IF q.failed[c] = NoError \/ q.first[c] = "timeout"
                 THEN q.first[c] ELSE q.failed[c]
      BY HeardReady, BothAttemptsOf DEF Ready
    <2>2. NoError # "timeout" /\ 2 # 1 /\ 2 # 0
      BY DEF NoError
    <2> HIDE DEF q, t
    <2>3. CASE q.first = q.failed /\ FirstPass(q)
      <3>1. q.asked[c] # 2 /\ (c \in q.silent <=> q.failed[c] = "timeout")
        BY <2>2, <2>3 DEF FirstPass
      <3>2. t = q.failed[c]
        BY <2>1, <2>3
      <3>3. QED BY <3>1, <3>2 DEF q, t
    <2>4. CASE SecondPass(q)
      <3>1. /\ q.first[c] = NoError => q.asked[c] # 2 /\ q.failed[c] = NoError
            /\ c \in q.silent <=> q.first[c] = "timeout" \/ q.failed[c] = "timeout"
        BY <2>2, <2>4 DEF SecondPass
      <3>2. QED BY <2>1, <2>2, <3>1 DEF q, t
    <2>5. QED BY <2>1, <2>3, <2>4 DEF AllRead
  <1>2. QED BY <1>1, InductiveInvariant, PTL

\* What polls tell the tuner shows more than silence, and an answer of the
\* first attempt with every answer of the retry; it is what the tuner's
\* model allows for, so what is proved there holds behind these polls.
THEOREM TellingsPlausible == Spec => []TellsPlausible
  <1>1. IInv => TellsPlausible
    <2> SUFFICES ASSUME IInv, NEW p \in Pollers, told[p].what = "report"
                 PROVE  /\ [updated |-> told[p].updated,
                            failed |-> told[p].failed] \in Reports
                        /\ told[p].updated # {} =>
                            told[p].updated \ Failed(told[p]) # {}
      BY DEF TellsPlausible
    <2> DEFINE both == BothAttempts(poll[p].first, poll[p].failed)
    <2>1. /\ [updated |-> poll[p].updated, failed |-> both] \in Reports
          /\ poll[p].updated # {} =>
                \E c \in poll[p].updated : both[c] = NoError
      BY HeardReady, BothAttemptsOf
    <2>2. told[p].updated = poll[p].updated /\ told[p].failed = both
      BY HeardReady
    <2> HIDE DEF both
    <2>3. QED BY <2>1, <2>2 DEF Failed
  <1>2. QED BY <1>1, InductiveInvariant, PTL

\* An identity asked for and not read is owed, whatever failed or was
\* cancelled since.
THEOREM IdentityStaysOwed == Spec => []IdentityOwed
  <1>1. IInv => IdentityOwed
    BY DEF IInv
  <1>2. QED BY <1>1, InductiveInvariant, PTL

-----------------------------------------------------------------------------
(***************************************************************************)
(* TunedPoll implements what it is specified by: it uses setup as          *)
(* SettledOnce promises, and each poll keeps PollContract.  The initial    *)
(* states map to initial ones, and every step to a step of the             *)
(* specification or to none.                                               *)
(***************************************************************************)

(***************************************************************************)
(* The promise of setup.                                                   *)
(***************************************************************************)

Callers == [p \in Pollers |-> ToSetup(poll[p].pc)]

LEMMA CallerMoves ==
    ASSUME IInv, NEW p \in Pollers, NEW r, poll' = [poll EXCEPT ![p] = r]
    PROVE  Callers' = [Callers EXCEPT ![p] = ToSetup(r.pc)]
  <1>1. poll \in [Pollers -> Polls]
    BY DEF IInv, TypeOK
  <1>2. /\ poll'[p] = r
        /\ \A o \in Pollers \ {p} : poll'[o] = poll[o]
    BY <1>1
  <1>3. Callers' = [o \in Pollers |-> ToSetup(poll'[o].pc)]
    BY DEF Callers
  <1>4. [Callers EXCEPT ![p] = ToSetup(r.pc)] =
            [o \in Pollers |-> IF o = p THEN ToSetup(r.pc) ELSE ToSetup(poll[o].pc)]
    BY DEF Callers
  <1>5. QED BY <1>2, <1>3, <1>4

\* A poll that goes on where it was, or is over.
LEMMA CallerGoesOn ==
    ASSUME IInv, NEW p \in Pollers, NEW r, poll' = [poll EXCEPT ![p] = r],
           UNCHANGED <<settled, lists>>,
           poll[p].pc # "idle",
           \/ ToSetup(r.pc) = ToSetup(poll[p].pc)
           \/ ToSetup(r.pc) = "away" /\ ToSetup(poll[p].pc) # "away"
    PROVE  [Promise!Next]_(Promise!vars)
  <1>1. Callers' = [Callers EXCEPT ![p] = ToSetup(r.pc)]
    BY CallerMoves
  <1>2. Callers[p] = ToSetup(poll[p].pc) /\ SettledLists' = SettledLists
    BY DEF Callers, SettledLists
  <1>3. CASE ToSetup(r.pc) = ToSetup(poll[p].pc)
    <2>1. Callers' = Callers
      BY <1>1, <1>2, <1>3 DEF Callers
    <2>2. QED BY <1>2, <2>1 DEF Promise!vars, Callers, ToSetup, SettledLists
  <1>4. CASE ToSetup(r.pc) = "away" /\ ToSetup(poll[p].pc) # "away"
    <2>1. Promise!Leave(p)
      BY <1>1, <1>2, <1>4 DEF Promise!Leave, Callers, ToSetup, SettledLists
    <2>2. QED BY <2>1 DEF Promise!Next
  <1>5. QED BY <1>3, <1>4

LEMMA SetUpGetsThrough ==
    ASSUME IInv, UNCHANGED site, NEW p \in Pollers, SetUp(p)
    PROVE  Promise!GetThrough(p)
  <1>1. PICK q \in Polls :
            /\ PollInv(q) /\ q.pc = "reading" /\ q.kind = poll[p].kind
            /\ q.names = Names(q.kind, lists')
            /\ Advance(p, q)
    BY SetUpCases
  <1>2. poll[p].pc = "setup"
    BY DEF SetUp
  <1>3. PICK r, t : Becomes(p, r, t) /\ r.pc \in Past
    BY <1>1, <1>2, AdvanceKeeps
  <1>4. /\ Callers' = [Callers EXCEPT ![p] = "through"]
        /\ Callers[p] = "asking"
    BY <1>2, <1>3, CallerMoves DEF Becomes, Callers, ToSetup, Past
  <1>5. /\ lists' \in site.lists /\ settled' = TRUE
        /\ settled => lists' = lists
        /\ site \in Sites /\ settled \in BOOLEAN
    BY DEF SetUp, SettleLists, IInv, TypeOK
  <1>6. lists' \in Lists
    BY <1>5 DEF Lists
  <1>7. SettledLists' = {lists'}
    BY <1>5 DEF SettledLists
  <1>8. SettledLists = {} =>
            SettledLists' \subseteq Lists /\ \E l \in SettledLists' : SettledLists' = {l}
    BY <1>6, <1>7
  <1>9. SettledLists # {} => SettledLists' = SettledLists
    BY <1>5, <1>7 DEF SettledLists
  <1>10. QED BY <1>4, <1>8, <1>9 DEF Promise!GetThrough, Callers

LEMMA BeginAsks ==
    ASSUME IInv, NEW p \in Pollers, NEW kind \in Kinds, Begin(p, kind)
    PROVE  Promise!Ask(p)
  <1>1. /\ poll' = [poll EXCEPT ![p] = NewPoll(kind)]
        /\ UNCHANGED <<settled, lists>> /\ poll[p].pc # "setup"
    BY DEF Begin, Running
  <1>2. ToSetup(NewPoll(kind).pc) = "asking"
    BY FreshPoll DEF ToSetup
  <1>3. Callers' = [Callers EXCEPT ![p] = "asking"] /\ Callers[p] # "asking"
    BY <1>1, <1>2, CallerMoves DEF Callers, ToSetup
  <1>4. UNCHANGED SettledLists
    BY <1>1 DEF SettledLists
  <1>5. QED BY <1>3, <1>4 DEF Promise!Ask, Callers

LEMMA PollStepPromise ==
    ASSUME IInv, UNCHANGED site, NEW p \in Pollers, PollStep(p)
    PROVE  [Promise!Next]_(Promise!vars)
  <1>1. CASE SetUp(p)
    BY <1>1, SetUpGetsThrough DEF Promise!Next
  <1>2. CASE SetupFails(p)
    <2>1. /\ poll' = [poll EXCEPT ![p] = [poll[p] EXCEPT !.pc = "raised"]]
          /\ UNCHANGED <<settled, lists>> /\ poll[p].pc = "setup"
      BY <1>2 DEF SetupFails, RaiseWith
    <2>2. [poll[p] EXCEPT !.pc = "raised"].pc = "raised"
      BY MovedTo DEF IInv, TypeOK
    <2>3. QED BY <2>1, <2>2, CallerGoesOn DEF ToSetup
  <1>3. ASSUME NEW c \in Components,
               \/ ReadAnswered(p, c)
               \/ \E error \in site.errors : ReadFailed(p, c, error)
               \/ ConnectionLost(p, c)
        PROVE  [Promise!Next]_(Promise!vars)
    <2>1. Frame /\ poll[p].pc \in {"reading", "retrying"}
      BY <1>3, ReadStepCases
    <2>2. PICK q \in Polls :
                \/ PollInv(q) /\ q.pc = poll[p].pc /\ Advance(p, q)
                \/ RetriesTheLiving(q) /\ RaiseWith(p, q)
      BY <1>3, ReadStepCases
    <2>3. PICK r, t : Becomes(p, r, t) /\ (r.pc \in Past \/ r.pc = "raised")
      BY <2>1, <2>2, AdvanceKeeps, RaiseKeeps
    <2>4. QED BY <2>1, <2>3, CallerGoesOn DEF Becomes, Frame, Past, ToSetup
  <1>4. ASSUME NEW answered \in BOOLEAN, TryIdentity(p, answered)
        PROVE  [Promise!Next]_(Promise!vars)
    <2>1. /\ poll' = [poll EXCEPT ![p] = [poll[p] EXCEPT !.pc = "reported"]]
          /\ UNCHANGED <<settled, lists>> /\ poll[p].pc = "identity"
      BY <1>4 DEF TryIdentity, Finish
    <2>2. [poll[p] EXCEPT !.pc = "reported"].pc = "reported"
      BY MovedTo DEF IInv, TypeOK
    <2>3. QED BY <2>1, <2>2, CallerGoesOn DEF ToSetup
  <1>5. QED BY <1>1, <1>2, <1>3, <1>4 DEF PollStep

LEMMA NextPromise == IInv /\ [Next]_vars => [Promise!Next]_(Promise!vars)
  <1> SUFFICES ASSUME IInv, [Next]_vars PROVE [Promise!Next]_(Promise!vars)
    OBVIOUS
  <1>1. ASSUME UNCHANGED <<settled, lists, poll>>
        PROVE  [Promise!Next]_(Promise!vars)
    BY <1>1 DEF Promise!vars, SettledLists, ToSetup
  <1>2. ASSUME Next PROVE [Promise!Next]_(Promise!vars)
    <2>1. UNCHANGED site /\ site.pollers \subseteq Pollers
      BY <1>2, SiteAssumption DEF Next, IInv, TypeOK
    <2>2. ASSUME NEW p \in site.pollers, NEW kind \in Kinds, Begin(p, kind)
          PROVE  Promise!Next
      BY <2>1, <2>2, BeginAsks DEF Promise!Next
    <2>3. ASSUME NEW p \in Pollers, Cancel(p)
          PROVE  [Promise!Next]_(Promise!vars)
      <3>1. /\ poll' = [poll EXCEPT ![p] = [poll[p] EXCEPT !.pc = "cancelled"]]
            /\ UNCHANGED <<settled, lists>> /\ poll[p].pc \in Running
        BY <2>3 DEF Cancel
      <3>2. [poll[p] EXCEPT !.pc = "cancelled"].pc = "cancelled"
        BY MovedTo DEF IInv, TypeOK
      <3>3. QED BY <3>1, <3>2, CallerGoesOn DEF ToSetup, Running
    <2>4. CASE IdentityStep
      BY <1>1, <2>4 DEF IdentityStep, ReadIdentity, IdentityRead,
                        IdentityMissed, IdentityCancelled
    <2>5. QED BY <1>2, <2>1, <2>2, <2>3, <2>4, PollStepPromise DEF Next
  <1>3. QED BY <1>1, <1>2 DEF vars

LEMMA InitPromise == Init => Promise!Init
  <1> SUFFICES ASSUME Init PROVE Promise!Init
    OBVIOUS
  <1>0. "both" \in Kinds
    BY DEF Kinds
  <1>1. \A p \in Pollers : ToSetup(poll[p].pc) = "away"
    BY <1>0, FreshPoll DEF Init, ToSetup
  <1>2. SettledLists = {}
    BY DEF Init, SettledLists
  <1>3. QED BY <1>1, <1>2 DEF Promise!Init

\* To setup, the polls are callers that wait for it and take the lists they
\* find for settled: what SettledOnce promises is all they rely on.
THEOREM SetupUsedAsPromised == Spec => UsesSetupAsPromised
  <1>1. Spec => [][Promise!Next]_(Promise!vars)
    BY InductiveInvariant, NextPromise, PTL DEF Spec
  <1>2. QED BY <1>1, InitPromise, PTL DEF Spec, UsesSetupAsPromised, Promise!Spec

-----------------------------------------------------------------------------
(***************************************************************************)
(* The contract of a poll.                                                 *)
(***************************************************************************)
States == [p \in Pollers |-> ToCaller(poll[p].pc)]
KindsCalled == [p \in Pollers |-> poll[p].kind]
ReportsGot == [p \in Pollers |-> ReportOf(poll[p])]

\* The contract speaks of reports as the polls do.
LEMMA SameWords ==
    /\ Contract!Reports = Reports
    /\ \A n, chosen : Contract!InOrder(n, chosen) = InOrder(n, chosen)
    /\ \A n : Contract!ToSet(n) = ToSet(n)
    /\ \A kind, l : Contract!Polled(kind, l) = Names(kind, l)
    /\ \A r : Contract!Failed(r) = Failed(r)
    /\ Contract!Nothing = Nothing /\ Contract!Failure = Failure
    /\ Contract!Kinds = Kinds
  <1>1. Contract!Reports = Reports
    BY DEF Contract!Reports, Reports, Contract!PlausibleReport, PlausibleReport,
           Contract!Failed, Failed, Contract!Errors, Errors, Contract!NoError, NoError
  <1>2. ASSUME NEW n, NEW chosen PROVE Contract!InOrder(n, chosen) = InOrder(n, chosen)
    BY DEF Contract!InOrder, InOrder
  <1>3. ASSUME NEW n PROVE Contract!ToSet(n) = ToSet(n)
    BY DEF Contract!ToSet, ToSet
  <1>4. ASSUME NEW kind, NEW l PROVE Contract!Polled(kind, l) = Names(kind, l)
    BY DEF Contract!Polled, Names
  <1>5. ASSUME NEW r PROVE Contract!Failed(r) = Failed(r)
    BY DEF Contract!Failed, Failed, Contract!NoError, NoError
  <1>6. Contract!Nothing = Nothing /\ Contract!Failure = Failure /\ Contract!Kinds = Kinds
    BY DEF Contract!Nothing, Nothing, Contract!Failure, Failure, Contract!Kinds, Kinds
  <1>7. QED BY <1>1, <1>2, <1>3, <1>4, <1>5, <1>6

\* A step that makes the poll of p the record r.
LEMMA CallersSee ==
    ASSUME IInv, NEW p \in Pollers, NEW r, poll' = [poll EXCEPT ![p] = r]
    PROVE  /\ States' = [States EXCEPT ![p] = ToCaller(r.pc)]
           /\ KindsCalled' = [KindsCalled EXCEPT ![p] = r.kind]
           /\ ReportsGot' = [ReportsGot EXCEPT ![p] = ReportOf(r)]
  <1>1. poll \in [Pollers -> Polls]
    BY DEF IInv, TypeOK
  <1>2. /\ poll'[p] = r
        /\ \A o \in Pollers \ {p} : poll'[o] = poll[o]
    BY <1>1
  <1>3. /\ States' = [o \in Pollers |-> ToCaller(poll'[o].pc)]
        /\ KindsCalled' = [o \in Pollers |-> poll'[o].kind]
        /\ ReportsGot' = [o \in Pollers |-> ReportOf(poll'[o])]
    BY DEF States, KindsCalled, ReportsGot
  <1>4. [States EXCEPT ![p] = ToCaller(r.pc)] =
            [o \in Pollers |-> IF o = p THEN ToCaller(r.pc) ELSE ToCaller(poll[o].pc)]
    BY DEF States
  <1>5. [KindsCalled EXCEPT ![p] = r.kind] =
            [o \in Pollers |-> IF o = p THEN r.kind ELSE poll[o].kind]
    BY DEF KindsCalled
  <1>6. [ReportsGot EXCEPT ![p] = ReportOf(r)] =
            [o \in Pollers |-> IF o = p THEN ReportOf(r) ELSE ReportOf(poll[o])]
    BY DEF ReportsGot
  <1>7. QED BY <1>2, <1>3, <1>4, <1>5, <1>6

\* While it polls, a caller has no report; one that fails or is cancelled
\* gets none either.
LEMMA EmptyHanded ==
    ASSUME IInv, NEW p \in Pollers, poll[p].pc \in Running
    PROVE  /\ States[p] = "polling" /\ KindsCalled[p] = poll[p].kind
           /\ \A r : r.pc # "reported" => ReportOf(r) = ReportsGot[p]
  BY DEF States, ToCaller, KindsCalled, ReportsGot, ReportOf, Running

\* A poll that only goes on shows its caller nothing.
LEMMA SameHolds ==
    ASSUME NEW p \in Pollers
    PROVE  /\ [States EXCEPT ![p] = States[p]] = States
           /\ [KindsCalled EXCEPT ![p] = KindsCalled[p]] = KindsCalled
           /\ [ReportsGot EXCEPT ![p] = ReportsGot[p]] = ReportsGot
  BY DEF States, KindsCalled, ReportsGot

LEMMA GoingOnUnseen ==
    ASSUME IInv, NEW p \in Pollers, NEW r, Resume(p, r),
           poll[p].pc \in Running, r.pc \in {"reading", "retrying", "identity"},
           r.kind = poll[p].kind
    PROVE  UNCHANGED <<States, KindsCalled, ReportsGot, told, fired>>
  <1>1. /\ poll' = [poll EXCEPT ![p] = r] /\ UNCHANGED <<told, fired>>
    BY DEF Resume
  <1>2. /\ ToCaller(r.pc) = States[p] /\ r.kind = KindsCalled[p]
        /\ ReportOf(r) = ReportsGot[p]
    BY EmptyHanded DEF ToCaller, Running
  <1>3. /\ States' = [States EXCEPT ![p] = ToCaller(r.pc)]
        /\ KindsCalled' = [KindsCalled EXCEPT ![p] = r.kind]
        /\ ReportsGot' = [ReportsGot EXCEPT ![p] = ReportOf(r)]
    BY <1>1, CallersSee
  <1>4. States' = States /\ KindsCalled' = KindsCalled /\ ReportsGot' = ReportsGot
    BY <1>2, <1>3, SameHolds, Zenon
  <1>5. QED BY <1>1, <1>4

LEMMA RaisingSeen ==
    ASSUME IInv, NEW p \in Pollers, NEW q \in Polls, RaiseWith(p, q),
           poll[p].pc \in Running, q.kind = poll[p].kind,
           UNCHANGED <<settled, lists>>
    PROVE  Contract!Raised(p)
  <1> DEFINE r == [q EXCEPT !.pc = "raised"]
  <1>1. r.pc = "raised" /\ r.kind = poll[p].kind
    BY MovedTo
  <1>2. /\ poll' = [poll EXCEPT ![p] = r]
        /\ told' = [told EXCEPT ![p] = Failure] /\ UNCHANGED fired
    BY DEF RaiseWith
  <1> HIDE DEF r
  <1>3. /\ ToCaller(r.pc) = "raised" /\ r.kind = KindsCalled[p]
        /\ ReportOf(r) = ReportsGot[p] /\ States[p] = "polling"
    BY <1>1, EmptyHanded DEF ToCaller, Running
  <1>4. /\ States' = [States EXCEPT ![p] = ToCaller(r.pc)]
        /\ KindsCalled' = [KindsCalled EXCEPT ![p] = r.kind]
        /\ ReportsGot' = [ReportsGot EXCEPT ![p] = ReportOf(r)]
    BY <1>2, CallersSee
  <1>5. /\ States' = [States EXCEPT ![p] = "raised"]
        /\ KindsCalled' = KindsCalled /\ ReportsGot' = ReportsGot
    BY <1>3, <1>4, SameHolds, Zenon
  <1>6. UNCHANGED SettledLists
    BY DEF SettledLists
  <1>7. QED BY <1>2, <1>3, <1>4, <1>5, <1>6, SameWords
            DEF Contract!Raised, States, KindsCalled, ReportsGot

\* A poll that ends well: its report, what the tuner hears, who is told.
LEMMA FinishingSeen ==
    ASSUME IInv, NEW p \in Pollers, NEW q, Ready(q), Finish(p, q),
           poll[p].pc \in Running, q.kind = poll[p].kind,
           q.names = Names(q.kind, lists'),
           SettledLists' = {lists'}, Contract!MaySettle
    PROVE  Contract!Reported(p)
  <1> DEFINE r == [q EXCEPT !.pc = "reported"]
             both == BothAttempts(q.first, q.failed)
             names == Names(KindsCalled[p], lists')
  <1>1. /\ r.pc = "reported" /\ r.kind = q.kind
        /\ r.updated = q.updated /\ r.failed = q.failed
    BY ReadyMoves
  <1>2. /\ poll' = [poll EXCEPT ![p] = r]
        /\ told' = [told EXCEPT ![p] = Outcome(q.updated, both)]
        /\ fired' = [fired EXCEPT ![p] = InOrder(q.names, q.updated)]
    BY DEF Finish
  <1>3. States[p] = "polling" /\ KindsCalled[p] = q.kind
    BY EmptyHanded
  <1>4. /\ States' = [States EXCEPT ![p] = "reported"]
        /\ UNCHANGED KindsCalled
        /\ ReportsGot' = [ReportsGot EXCEPT ![p] = ReportOf(r)]
    <2>1. ToCaller(r.pc) = "reported" /\ r.kind = KindsCalled[p]
      BY <1>1, <1>3 DEF ToCaller, Running
    <2> HIDE DEF r
    <2>2. /\ States' = [States EXCEPT ![p] = ToCaller(r.pc)]
          /\ KindsCalled' = [KindsCalled EXCEPT ![p] = r.kind]
          /\ ReportsGot' = [ReportsGot EXCEPT ![p] = ReportOf(r)]
      BY <1>2, CallersSee
    <2>3. QED BY <2>1, <2>2, SameHolds, Zenon
  <1>5. q.names = names
    BY <1>3
  <1> HIDE DEF r, names
  <1>6. ReportOf(r) = [updated |-> q.updated, failed |-> ToSet(names) \ q.updated]
    <2>1. Failed(r) = Failed(q)
      BY <1>1 DEF Failed
    <2>2. Failed(q) = ToSet(names) \ q.updated
      BY <1>5 DEF Ready, Divided, AllRead
    <2>3. QED BY <1>1, <2>1, <2>2 DEF ReportOf
  <1>7. q.updated \in SUBSET ToSet(names)
    BY <1>5 DEF Ready, Divided
  <1>8. told'[p] = Outcome(q.updated, both)
    BY <1>2 DEF IInv, TypeOK
  <1>9. Contract!TellsAll(told'[p], ToSet(names), q.updated, ToSet(names) \ q.updated)
    <2>1. /\ told'[p].what = "report" /\ told'[p].updated = q.updated
          /\ told'[p].failed = both
      BY <1>8 DEF Outcome
    <2>2. [updated |-> q.updated, failed |-> told'[p].failed] \in Reports
      BY <2>1, BothAttemptsOf
    <2>3. Failed(told'[p]) \subseteq ToSet(names)
      BY <1>5, <2>1, BothAttemptsOf DEF Failed
    <2>4. ToSet(names) \ q.updated \subseteq Failed(told'[p])
      <3>1. ToSet(names) \ q.updated = Failed(q)
        BY <1>5 DEF Ready, Divided, AllRead
      <3>2. \A c \in Failed(q) : both[c] # NoError
        BY BothAttemptsOf DEF Failed
      <3> HIDE DEF both
      <3>3. Failed(q) \subseteq Failed(told'[p])
        BY <2>1, <3>2 DEF Failed
      <3>4. QED BY <3>1, <3>3
    <2>5. /\ Contract!Failed(told'[p]) = Failed(told'[p])
          /\ Contract!Reports = Reports
      BY SameWords
    <2> HIDE DEF both
    <2>6. QED BY <2>1, <2>2, <2>3, <2>4, <2>5 DEF Contract!TellsAll
  <1>10. /\ fired' = [fired EXCEPT ![p] = InOrder(names, q.updated)]
         /\ told' = [told EXCEPT ![p] = told'[p]]
    BY <1>2, <1>5, <1>8
  <1>11. names = Contract!Polled(KindsCalled[p], lists')
    BY SameWords DEF names
  <1>12. QED
    BY <1>3, <1>4, <1>6, <1>7, <1>9, <1>10, <1>11, SameWords
    DEF Contract!Reported, States, KindsCalled, ReportsGot

\* What follows a read, or setup, is the end of the poll or unseen: at most
\* the lists are settled.
LEMMA AdvanceSeen ==
    ASSUME IInv, NEW p \in Pollers, NEW q \in Polls, PollInv(q),
           q.pc \in {"reading", "retrying"}, Advance(p, q),
           poll[p].pc \in Running, q.kind = poll[p].kind,
           q.names = Names(q.kind, lists'),
           SettledLists' = {lists'}, Contract!MaySettle
    PROVE  Contract!Next
  <1>1. PICK r \in Polls :
            /\ r.names = q.names /\ r.kind = q.kind
            /\ \/ /\ Resume(p, r) /\ PollInv(r)
                  /\ r.pc \in {"reading", "retrying", "identity"}
               \/ Finish(p, r) /\ Ready(r)
    BY AdvanceCases
  <1>2. CASE Resume(p, r) /\ r.pc \in {"reading", "retrying", "identity"}
    <2>1. UNCHANGED <<States, KindsCalled, ReportsGot, told, fired>>
      BY <1>1, <1>2, GoingOnUnseen
    <2>2. States[p] = "polling"
      BY EmptyHanded
    <2>3. Contract!Settle
      BY <2>1, <2>2 DEF Contract!Settle, States, KindsCalled, ReportsGot
    <2>4. QED BY <2>3 DEF Contract!Next
  <1>3. CASE Finish(p, r) /\ Ready(r)
    <2>1. Contract!Reported(p)
      BY <1>1, <1>3, FinishingSeen
    <2>2. QED BY <2>1 DEF Contract!Next
  <1>4. QED BY <1>1, <1>2, <1>3

\* Past setup, the lists are settled and stay so.
LEMMA StaySettled ==
    ASSUME IInv, NEW p \in Pollers, poll[p].pc \in Past,
           UNCHANGED <<settled, lists>>
    PROVE  /\ SettledLists' = {lists'} /\ Contract!MaySettle
           /\ poll[p].names = Names(poll[p].kind, lists')
  <1>1. settled = TRUE /\ poll[p].names = Names(poll[p].kind, lists)
    BY DEF IInv, ReadsSettled, TypeOK
  <1>2. QED BY <1>1 DEF SettledLists, Contract!MaySettle

LEMMA SetUpSeen ==
    ASSUME IInv, UNCHANGED site, NEW p \in Pollers, SetUp(p)
    PROVE  Contract!Next
  <1>1. PICK q \in Polls :
            /\ PollInv(q) /\ q.pc = "reading" /\ q.kind = poll[p].kind
            /\ q.names = Names(q.kind, lists')
            /\ Advance(p, q)
    BY SetUpCases
  <1>2. poll[p].pc \in Running
    BY DEF SetUp, Running
  <1>3. /\ lists' \in site.lists /\ settled' = TRUE
        /\ settled => lists' = lists
        /\ site \in Sites /\ settled \in BOOLEAN
    BY DEF SetUp, SettleLists, IInv, TypeOK
  <1>4. lists' \in Lists
    BY <1>3 DEF Lists
  <1>5. SettledLists' = {lists'}
    BY <1>3 DEF SettledLists
  <1>6. SettledLists = {} \/ SettledLists = {lists'}
    BY <1>3 DEF SettledLists
  <1>7. Contract!MaySettle
    BY <1>4, <1>5, <1>6 DEF Contract!MaySettle
  <1>8. QED BY <1>1, <1>2, <1>5, <1>7, AdvanceSeen

LEMMA ReadSeen ==
    ASSUME IInv, UNCHANGED site, NEW p \in Pollers, NEW c \in Components,
           \/ ReadAnswered(p, c)
           \/ \E error \in site.errors : ReadFailed(p, c, error)
           \/ ConnectionLost(p, c)
    PROVE  Contract!Next
  <1>1. /\ Frame /\ poll[p].pc \in {"reading", "retrying"}
        /\ \E q \in Polls :
                /\ q.names = poll[p].names /\ q.kind = poll[p].kind
                /\ \/ PollInv(q) /\ q.pc = poll[p].pc /\ Advance(p, q)
                   \/ RetriesTheLiving(q) /\ RaiseWith(p, q)
    BY ReadStepCases
  <1>2. PICK q \in Polls :
            /\ q.names = poll[p].names /\ q.kind = poll[p].kind
            /\ \/ PollInv(q) /\ q.pc = poll[p].pc /\ Advance(p, q)
               \/ RetriesTheLiving(q) /\ RaiseWith(p, q)
    BY <1>1
  <1>3. /\ poll[p].pc \in Running /\ poll[p].pc \in Past
        /\ UNCHANGED <<settled, lists>>
    BY <1>1 DEF Running, Past, Frame
  <1>4. /\ SettledLists' = {lists'} /\ Contract!MaySettle
        /\ poll[p].names = Names(poll[p].kind, lists')
    BY <1>3, StaySettled
  <1>5. CASE PollInv(q) /\ q.pc = poll[p].pc /\ Advance(p, q)
    BY <1>1, <1>2, <1>3, <1>4, <1>5, AdvanceSeen
  <1>6. CASE RaiseWith(p, q)
    <2>1. Contract!Raised(p)
      BY <1>2, <1>3, <1>6, RaisingSeen
    <2>2. QED BY <2>1 DEF Contract!Next
  <1>7. QED BY <1>2, <1>5, <1>6

LEMMA TryIdentitySeen ==
    ASSUME IInv, NEW p \in Pollers, NEW answered \in BOOLEAN,
           TryIdentity(p, answered)
    PROVE  Contract!Reported(p)
  <1>1. /\ poll[p].pc = "identity" /\ Finish(p, poll[p])
        /\ UNCHANGED <<settled, lists>>
    BY DEF TryIdentity
  <1>2. poll[p].pc \in Past /\ poll[p].pc \in Running
    BY <1>1 DEF Past, Running
  <1>3. Ready(poll[p])
    BY <1>1 DEF IInv, TypeOK, PollInv, Ready
  <1>4. /\ SettledLists' = {lists'} /\ Contract!MaySettle
        /\ poll[p].names = Names(poll[p].kind, lists')
    BY <1>1, <1>2, StaySettled
  <1>5. QED BY <1>1, <1>2, <1>3, <1>4, FinishingSeen

LEMMA SetupFailsSeen ==
    ASSUME IInv, NEW p \in Pollers, SetupFails(p)
    PROVE  Contract!Raised(p)
  <1>1. poll[p] \in Polls
    BY DEF IInv, TypeOK
  <1>2. /\ RaiseWith(p, poll[p]) /\ poll[p].pc \in Running
        /\ UNCHANGED <<settled, lists>>
    BY DEF SetupFails, Running
  <1>3. QED BY <1>1, <1>2, RaisingSeen

LEMMA BeginSeen ==
    ASSUME IInv, NEW p \in Pollers, NEW called \in Kinds, Begin(p, called)
    PROVE  Contract!Call(p, called)
  <1> DEFINE r == NewPoll(called)
  <1>1. r.pc = "setup" /\ r.kind = called
    BY FreshPoll
  <1>2. /\ poll' = [poll EXCEPT ![p] = r]
        /\ told' = [told EXCEPT ![p] = Nothing]
        /\ fired' = [fired EXCEPT ![p] = <<>>]
        /\ UNCHANGED <<settled, lists>> /\ poll[p].pc \notin Running
    BY DEF Begin
  <1> HIDE DEF r
  <1>3. ToCaller(r.pc) = "polling" /\ ReportOf(r) = Contract!NoReport
    BY <1>1 DEF ToCaller, Running, ReportOf, Contract!NoReport
  <1>4. /\ States' = [States EXCEPT ![p] = ToCaller(r.pc)]
        /\ KindsCalled' = [KindsCalled EXCEPT ![p] = r.kind]
        /\ ReportsGot' = [ReportsGot EXCEPT ![p] = ReportOf(r)]
    BY <1>2, CallersSee
  <1>5. /\ States' = [States EXCEPT ![p] = "polling"]
        /\ KindsCalled' = [KindsCalled EXCEPT ![p] = called]
        /\ ReportsGot' = [ReportsGot EXCEPT ![p] = Contract!NoReport]
    BY <1>1, <1>3, <1>4, Zenon
  <1>6. States[p] # "polling"
    <2>1. poll[p].pc # "polling"
      BY DEF IInv, TypeOK, Polls, Running, Ended
    <2>2. QED BY <1>2, <2>1 DEF States, ToCaller
  <1>7. UNCHANGED SettledLists
    BY <1>2 DEF SettledLists
  <1>8. QED BY <1>2, <1>5, <1>6, <1>7, SameWords
            DEF Contract!Call, States, KindsCalled, ReportsGot

LEMMA CancelSeen ==
    ASSUME IInv, NEW p \in Pollers, Cancel(p)
    PROVE  Contract!Cancelled(p)
  <1> DEFINE r == [poll[p] EXCEPT !.pc = "cancelled"]
  <1>1. r.pc = "cancelled" /\ r.kind = poll[p].kind
    BY MovedTo DEF IInv, TypeOK
  <1>2. /\ poll' = [poll EXCEPT ![p] = r] /\ UNCHANGED <<settled, lists, told, fired>>
        /\ poll[p].pc \in Running
    BY DEF Cancel
  <1> HIDE DEF r
  <1>3. /\ ToCaller(r.pc) = "cancelled" /\ r.kind = KindsCalled[p]
        /\ ReportOf(r) = ReportsGot[p] /\ States[p] = "polling"
    BY <1>1, <1>2, EmptyHanded DEF ToCaller, Running
  <1>4. /\ States' = [States EXCEPT ![p] = ToCaller(r.pc)]
        /\ KindsCalled' = [KindsCalled EXCEPT ![p] = r.kind]
        /\ ReportsGot' = [ReportsGot EXCEPT ![p] = ReportOf(r)]
    BY <1>2, CallersSee
  <1>5. /\ States' = [States EXCEPT ![p] = "cancelled"]
        /\ KindsCalled' = KindsCalled /\ ReportsGot' = ReportsGot
    BY <1>3, <1>4, SameHolds, Zenon
  <1>6. UNCHANGED SettledLists
    BY <1>2 DEF SettledLists
  <1>7. QED BY <1>2, <1>3, <1>5, <1>6
            DEF Contract!Cancelled, States, KindsCalled, ReportsGot

LEMMA NextContract == IInv /\ [Next]_vars => [Contract!Next]_(Contract!vars)
  <1> SUFFICES ASSUME IInv, [Next]_vars PROVE [Contract!Next]_(Contract!vars)
    OBVIOUS
  <1>1. ASSUME UNCHANGED <<settled, lists, poll, told, fired>>
        PROVE  [Contract!Next]_(Contract!vars)
    <2>1. UNCHANGED <<SettledLists, States, KindsCalled, ReportsGot>>
      BY <1>1 DEF SettledLists, States, KindsCalled, ReportsGot, ToCaller,
                  ReportOf, Failed
    <2>2. QED BY <1>1, <2>1 DEF Contract!vars, States, KindsCalled, ReportsGot
  <1>2. ASSUME Next PROVE [Contract!Next]_(Contract!vars)
    <2>1. UNCHANGED site /\ site.pollers \subseteq Pollers
      BY <1>2, SiteAssumption DEF Next, IInv, TypeOK
    <2>2. ASSUME NEW p \in site.pollers, NEW called \in Kinds, Begin(p, called)
          PROVE  Contract!Next
      <3>1. p \in Pollers /\ Contract!Call(p, called) /\ Contract!Kinds = Kinds
        BY <2>1, <2>2, BeginSeen, SameWords
      <3>2. QED BY <3>1 DEF Contract!Next
    <2>3. ASSUME NEW p \in Pollers, PollStep(p)
          PROVE  Contract!Next
      <3>1. CASE SetUp(p)
        BY <2>1, <3>1, SetUpSeen
      <3>2. CASE SetupFails(p)
        BY <3>2, SetupFailsSeen DEF Contract!Next
      <3>3. ASSUME NEW c \in Components,
                   \/ ReadAnswered(p, c)
                   \/ \E error \in site.errors : ReadFailed(p, c, error)
                   \/ ConnectionLost(p, c)
            PROVE  Contract!Next
        BY <2>1, <3>3, ReadSeen
      <3>4. ASSUME NEW answered \in BOOLEAN, TryIdentity(p, answered)
            PROVE  Contract!Next
        BY <3>4, TryIdentitySeen DEF Contract!Next
      <3>5. QED BY <2>3, <3>1, <3>2, <3>3, <3>4 DEF PollStep
    <2>4. ASSUME NEW p \in Pollers, Cancel(p)
          PROVE  Contract!Next
      BY <2>4, CancelSeen DEF Contract!Next
    <2>5. CASE IdentityStep
      BY <1>1, <2>5 DEF IdentityStep, ReadIdentity, IdentityRead,
                        IdentityMissed, IdentityCancelled
    <2>6. QED BY <1>2, <2>2, <2>3, <2>4, <2>5 DEF Next
  <1>3. QED BY <1>1, <1>2 DEF vars

LEMMA InitContract == Init => Contract!Init
  <1> SUFFICES ASSUME Init PROVE Contract!Init
    OBVIOUS
  <1>1. "both" \in Kinds
    BY DEF Kinds
  <1>2. NoPoll.pc = "idle" /\ NoPoll.kind = "both"
    BY <1>1, FreshPoll DEF NoPoll, NewPoll
  <1>3. ToCaller(NoPoll.pc) = "idle" /\ ReportOf(NoPoll) = Contract!NoReport
    BY <1>2 DEF ToCaller, Running, ReportOf, Contract!NoReport
  <1>4. \A p \in Pollers : poll[p] = NoPoll
    BY DEF Init
  <1>5. SettledLists = {}
    BY DEF Init, SettledLists
  <1>6. QED BY <1>2, <1>3, <1>4, <1>5, SameWords DEF Contract!Init, Init

\* Behind its awaits, retries and late identity tries, each poll does what
\* its caller is promised: it reports on exactly the components its method
\* polls, fires the listeners of those it updated and tells the tuner all.
THEOREM ContractKept == Spec => KeepsContract
  <1>1. Spec => [][Contract!Next]_(Contract!vars)
    BY InductiveInvariant, NextContract, PTL DEF Spec
  <1>2. QED BY <1>1, InitContract, PTL DEF Spec, KeepsContract, Contract!Spec
=============================================================================
