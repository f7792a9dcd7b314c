--------------------------- MODULE CommandDelivery ---------------------------
(***************************************************************************)
(* The command intake of one worker process (elitea-worker-rust,           *)
(* execution/command_delivery.rs): pulling commands from a JetStream       *)
(* consumer, the ledger of owned deliveries and the gate its +WPI          *)
(* heartbeat rounds hold, the bounded workers, and the answer (nak, term)  *)
(* each delivery ends with.                                                *)
(*                                                                         *)
(* A delivery <<m, r>> is the r-th delivery of message m; its reply        *)
(* subject is identified by r.  Every await of the code is a boundary      *)
(* between two actions.  The order of the queue is left out: no property   *)
(* depends on it.                                                          *)
(***************************************************************************)
EXTENDS Naturals, FiniteSets

CONSTANTS
    Messages,        \* messages of the stream
    Undecodable,     \* the ones no command can be decoded from
    MaxConcurrency,  \* max_concurrency
    QueueCapacity,   \* queue_capacity
    FetchBatch,      \* fetch_batch
    MaxDeliveries    \* BOUND: deliveries explored per message

ASSUME MessagesAssumption == IsFiniteSet(Messages)
ASSUME UndecodableAssumption == Undecodable \subseteq Messages
ASSUME ConfigAssumption ==
    /\ MaxConcurrency \in Nat \ {0} /\ QueueCapacity \in Nat \ {0}
    /\ FetchBatch \in Nat \ {0} /\ QueueCapacity >= MaxConcurrency
ASSUME MaxDeliveriesAssumption == MaxDeliveries \in Nat

Prefetch == IF FetchBatch < QueueCapacity THEN FetchBatch ELSE QueueCapacity
OwnershipCapacity == MaxConcurrency + Prefetch

Deliveries == Messages \X (1 .. MaxDeliveries)

VARIABLES
    server,    \* per message: where the JetStream server has it
    count,     \* per message: how often it was delivered
    ledger,    \* OwnershipLedger.owned: reply of the newest delivery, 0 if unowned
    phase,     \* per delivery: how far its OwnedCommandDelivery is
    answer,    \* per delivery: the answer decided for it
    answerTo,  \* per delivery: the reply subject its answer is sent to
    gate,      \* OwnershipLedger.gate: "ROUND" while a heartbeat round holds it
    round,     \* deliveries the running round has still to send +WPI for
    beating,   \* the heartbeat task is alive
    intake,    \* "OPEN" until drive_intake returns
    stop,      \* the stop signal
    up,        \* the process is up
    recorded,  \* messages with a dead-letter record
    answered   \* history: deliveries a delayed nak or a term was sent for

serverVars  == <<server, count>>
ownerVars   == <<ledger, phase, answer, answerTo>>
beatVars    == <<gate, round, beating>>
processVars == <<intake, stop, up>>
history     == <<recorded, answered>>
vars == <<serverVars, ownerVars, beatVars, processVars, history>>

\* A delivery whose owner keeps it heartbeating.
Held   == {"BATCH", "QUEUED", "RUNNING", "DECIDED", "RETIRED"}
\* One that occupies a worker, and one whose owner holds a capacity permit.
Busy   == {"RUNNING", "DECIDED", "RETIRED", "ANSWERING"}
Owning == Held \cup {"ANSWERING", "RETURNING"}
Phases == Owning \cup {"NONE", "POISON"}

Answers == {"NONE", "NOW", "RETRY", "PARK", "TERM"}

In(phases) == {d \in Deliveries : d[1] \notin Undecodable /\ phase[d] \in phases}

\* Poison of the running batch that is still to be answered.
Poisoned(phases) == {d \in Deliveries : d[1] \in Undecodable /\ phase[d] \in phases}

\* drive_intake is at work on a batch.
IntakeBusy ==
    \/ In({"BATCH", "RETURNING"}) # {}
    \/ Poisoned({"POISON", "ANSWERING"}) # {}

Init ==
    /\ server = [m \in Messages |-> "READY"] /\ count = [m \in Messages |-> 0]
    /\ ledger = [m \in Messages |-> 0]
    /\ phase = [d \in Deliveries |-> "NONE"]
    /\ answer = [d \in Deliveries |-> "NONE"]
    /\ answerTo = [d \in Deliveries |-> 0]
    /\ gate = "FREE" /\ round = {} /\ beating = TRUE
    /\ intake = "OPEN" /\ stop = FALSE /\ up = TRUE
    /\ recorded = {} /\ answered = {}

-----------------------------------------------------------------------------
(* The server: AckWait or a nak's delay runs out, or it delivers to another   *)
(* replica (or to a pull this process abandoned).                             *)

Expire(m) ==
    /\ server[m] \in {"PENDING", "DELAYED"}
    /\ server' = [server EXCEPT ![m] = "READY"]
    /\ UNCHANGED <<count, ownerVars, beatVars, processVars, history>>

DeliverElsewhere(m) ==
    /\ server[m] = "READY" /\ count[m] < MaxDeliveries
    /\ server' = [server EXCEPT ![m] = "PENDING"]
    /\ count' = [count EXCEPT ![m] = @ + 1]
    /\ UNCHANGED <<ownerVars, beatVars, processVars, history>>

-----------------------------------------------------------------------------
(* The intake: next_batch, then its poison, then the queue. *)

\* Mutant of FreePermits: a pull always asks for a full batch.
FreePermitsUnbounded == FetchBatch

\* reserve_capacity: every owner holds one permit until it is dropped.
FreePermits == OwnershipCapacity - Cardinality(In(Owning))

\* Mutant of NewOwner: a redelivery of an owned message gets an owner too.
NewOwnerAlways(m) == m \notin Undecodable

\* A redelivery of a message that is still owned is not run twice.
NewOwner(m) == m \notin Undecodable /\ ledger[m] = 0

\* next_batch and bind_deliveries.
Fetch(B) ==
    /\ up /\ intake = "OPEN" /\ ~stop /\ beating /\ ~IntakeBusy
    /\ B # {} /\ Cardinality(B) <= FetchBatch /\ Cardinality(B) <= FreePermits
    /\ \A m \in B : server[m] = "READY" /\ count[m] < MaxDeliveries
    /\ server' = [m \in Messages |-> IF m \in B THEN "PENDING" ELSE server[m]]
    /\ count' = [m \in Messages |-> IF m \in B THEN count[m] + 1 ELSE count[m]]
    /\ ledger' = [m \in Messages |->
                    IF m \in B \ Undecodable THEN count[m] + 1 ELSE ledger[m]]
    /\ phase' = [d \in Deliveries |->
                    IF d[1] \notin B \/ d[2] # count[d[1]] + 1 THEN phase[d]
                    ELSE IF d[1] \in Undecodable THEN "POISON"
                    ELSE IF NewOwner(d[1]) THEN "BATCH" ELSE phase[d]]
    /\ UNCHANGED <<answer, answerTo, beatVars, processVars, history>>

\* Mutant of PoisonAnswer: parked or terminated whether or not it is recorded.
PoisonAnswerUnrecorded(written, terminates) == IF terminates THEN "TERM" ELSE "PARK"

\* record_poison: what a poison delivery is answered, its record written or not.
PoisonAnswer(written, terminates) ==
    IF ~written THEN "RETRY" ELSE IF terminates THEN "TERM" ELSE "PARK"

\* Never owned, so answered directly, on its own reply subject.
RecordIntakePoison(d, written) ==
    /\ up /\ phase[d] = "POISON" /\ Poisoned({"ANSWERING"}) = {}
    /\ recorded' = IF written THEN recorded \cup {d[1]} ELSE recorded
    /\ answer' = [answer EXCEPT ![d] = PoisonAnswer(written, FALSE)]
    /\ answerTo' = [answerTo EXCEPT ![d] = d[2]]
    /\ phase' = [phase EXCEPT ![d] = "ANSWERING"]
    /\ UNCHANGED <<serverVars, ledger, beatVars, processVars, answered>>

\* enqueue_batch, once the batch's poison is answered.
Enqueue(d) ==
    /\ up /\ phase[d] = "BATCH" /\ ~stop
    /\ Poisoned({"POISON", "ANSWERING"}) = {}
    /\ Cardinality(In({"QUEUED"})) < QueueCapacity
    /\ phase' = [phase EXCEPT ![d] = "QUEUED"]
    /\ UNCHANGED <<serverVars, ledger, answer, answerTo, beatVars, processVars, history>>

-----------------------------------------------------------------------------
(* The delivery workers. *)

Start(d) ==
    /\ up /\ phase[d] = "QUEUED" /\ ~stop
    /\ Cardinality(In(Busy)) < MaxConcurrency
    /\ phase' = [phase EXCEPT ![d] = "RUNNING"]
    /\ UNCHANGED <<serverVars, ledger, answer, answerTo, beatVars, processVars, history>>

\* The processor ends with a settlement receipt and its ack: confirmed, or not
\* (one that never reached the server is RetryLater).
Retire(d) ==
    /\ up /\ phase[d] = "RUNNING"
    /\ server' = [server EXCEPT ![d[1]] = "GONE"]
    /\ \E confirmed \in BOOLEAN :
          /\ phase' = [phase EXCEPT ![d] = IF confirmed THEN "RETIRED" ELSE "DECIDED"]
          /\ answer' = [answer EXCEPT ![d] = IF confirmed THEN "NONE" ELSE "RETRY"]
    /\ UNCHANGED <<count, ledger, answerTo, beatVars, processVars, history>>

\* It ends without one: retry later, a lease elsewhere, recovery, a failure.
RetryLater(d) ==
    /\ up /\ phase[d] = "RUNNING"
    /\ phase' = [phase EXCEPT ![d] = "DECIDED"]
    /\ answer' = [answer EXCEPT ![d] = "RETRY"]
    /\ UNCHANGED <<serverVars, ledger, answerTo, beatVars, processVars, history>>

\* It ends with a poison verdict, whose record is tried first.
RecordPoison(d, written, terminates) ==
    /\ up /\ phase[d] = "RUNNING"
    /\ recorded' = IF written THEN recorded \cup {d[1]} ELSE recorded
    /\ phase' = [phase EXCEPT ![d] = "DECIDED"]
    /\ answer' = [answer EXCEPT ![d] = PoisonAnswer(written, terminates)]
    /\ UNCHANGED <<serverVars, ledger, answerTo, beatVars, processVars, answered>>

\* Mutant of ReleaseForAnswer: the ledger is changed without taking the gate.
ReleaseWithoutGate(d, next) ==
    /\ answerTo' = [answerTo EXCEPT ![d] = ledger[d[1]]]
    /\ ledger' = [ledger EXCEPT ![d[1]] = 0]
    /\ phase' = [phase EXCEPT ![d] = next]

\* Mutant of ReleaseForAnswer: answers the delivery the owner was created with.
ReleaseToFirstReply(d, next) ==
    /\ gate = "FREE"
    /\ answerTo' = [answerTo EXCEPT ![d] = d[2]]
    /\ ledger' = [ledger EXCEPT ![d[1]] = 0]
    /\ phase' = [phase EXCEPT ![d] = next]

\* release_for_answer: under the gate, stop owning the message; the answer goes
\* to its newest delivery.
ReleaseForAnswer(d, next) ==
    /\ gate = "FREE"
    /\ answerTo' = [answerTo EXCEPT ![d] = IF ledger[d[1]] = 0 THEN d[2] ELSE ledger[d[1]]]
    /\ ledger' = [ledger EXCEPT ![d[1]] = 0]
    /\ phase' = [phase EXCEPT ![d] = next]

Release(d) ==
    /\ up /\ phase[d] = "DECIDED"
    /\ ReleaseForAnswer(d, "ANSWERING")
    /\ UNCHANGED <<serverVars, answer, beatVars, processVars, history>>

\* Mutant of GiveBack: a batch the intake had not queued yet is forgotten.
GiveBackQueuedOnly(d) ==
    /\ up /\ stop
    /\ phase[d] = "QUEUED" /\ Cardinality(In(Busy)) < MaxConcurrency
    /\ ReleaseForAnswer(d, "ANSWERING")
    /\ answer' = [answer EXCEPT ![d] = "NOW"]
    /\ UNCHANGED <<serverVars, beatVars, processVars, history>>

\* release_unstarted, when the process stops: by the worker that would have run
\* it, or by the intake that had not queued it yet, one after the other.
GiveBack(d) ==
    /\ up /\ stop
    /\ \/ /\ phase[d] = "QUEUED" /\ Cardinality(In(Busy)) < MaxConcurrency
          /\ ReleaseForAnswer(d, "ANSWERING")
       \/ /\ phase[d] = "BATCH" /\ In({"RETURNING"}) = {}
          /\ Poisoned({"POISON", "ANSWERING"}) = {}
          /\ ReleaseForAnswer(d, "RETURNING")
    /\ answer' = [answer EXCEPT ![d] = "NOW"]
    /\ UNCHANGED <<serverVars, beatVars, processVars, history>>

\* Drop of an owner that never released: retired, nothing left to answer.
DropRetired(d) ==
    /\ up /\ phase[d] = "RETIRED"
    /\ ledger' = [ledger EXCEPT ![d[1]] = 0]
    /\ phase' = [phase EXCEPT ![d] = "NONE"]
    /\ UNCHANGED <<serverVars, answer, answerTo, beatVars, processVars, history>>

\* What the server makes of an answer that reaches it.
Answered(s, a) ==
    IF s # "PENDING" THEN s
    ELSE CASE a = "NOW" -> "READY" [] a = "TERM" -> "GONE" [] OTHER -> "DELAYED"

\* Mutant of LedgerAfterAnswer: the drop of an owner that has released removes
\* the key again.
LedgerAfterAnswerDropped(m) == [ledger EXCEPT ![m] = 0]

\* A released owner's drop leaves the ledger alone.
LedgerAfterAnswer(m) == ledger

\* send_answer and the end of the owner; an answer may be lost.
SendAnswer(d) ==
    /\ up /\ phase[d] \in {"ANSWERING", "RETURNING"}
    /\ \E lost \in BOOLEAN :
          server' = IF lost THEN server
                    ELSE [server EXCEPT ![d[1]] = Answered(@, answer[d])]
    /\ answered' = IF answer[d] = "NOW" THEN answered
                   ELSE answered \cup {<<d[1], answerTo[d]>>}
    /\ phase' = [phase EXCEPT ![d] = "NONE"]
    /\ answer' = [answer EXCEPT ![d] = "NONE"]
    /\ answerTo' = [answerTo EXCEPT ![d] = 0]
    /\ ledger' = LedgerAfterAnswer(d[1])
    /\ UNCHANGED <<count, beatVars, processVars, recorded>>

-----------------------------------------------------------------------------
(* The heartbeat task. *)

\* Mutant of StartRound: the snapshot also takes messages that were let go of.
StartRoundReleased ==
    /\ up /\ beating /\ gate = "FREE" /\ \E m \in Messages : ledger[m] # 0
    /\ gate' = "ROUND"
    /\ round' = {<<m, ledger[m]>> : m \in Messages}
    /\ UNCHANGED <<serverVars, ownerVars, beating, processVars, history>>

\* heartbeat_owned takes the gate and a snapshot of the ledger.
StartRound ==
    /\ up /\ beating /\ gate = "FREE" /\ \E m \in Messages : ledger[m] # 0
    /\ gate' = "ROUND"
    /\ round' = {d \in Deliveries : d[2] = ledger[d[1]]}
    /\ UNCHANGED <<serverVars, ownerVars, beating, processVars, history>>

\* To the server +WPI is progress: a delay becomes AckWait again.
SendProgress(d) ==
    /\ up /\ d \in round
    /\ round' = round \ {d}
    /\ server' = [server EXCEPT ![d[1]] = IF @ = "DELAYED" THEN "PENDING" ELSE @]
    /\ UNCHANGED <<count, ownerVars, gate, beating, processVars, history>>

\* The round is flushed, or fails part way; a fatal failure ends the task.
EndRound ==
    /\ up /\ gate = "ROUND"
    /\ gate' = "FREE" /\ round' = {}
    /\ \E fatal \in BOOLEAN : beating' = ~fatal
    /\ UNCHANGED <<serverVars, ownerVars, processVars, history>>

-----------------------------------------------------------------------------
(* Stop, failure and the end of the process. *)

Stop ==
    /\ up /\ ~stop
    /\ stop' = TRUE
    /\ UNCHANGED <<serverVars, ownerVars, beatVars, intake, up, history>>

\* drive_intake returns between two batches.
CloseIntake ==
    /\ up /\ intake = "OPEN" /\ ~IntakeBusy
    /\ stop \/ ~beating
    /\ intake' = "CLOSED"
    /\ UNCHANGED <<serverVars, ownerVars, beatVars, stop, up, history>>

\* A crash, the drain timeout, or the end of a drain: what is still owned is
\* dropped and left to AckWait.
Exit ==
    /\ up
    /\ up' = FALSE /\ intake' = "CLOSED"
    /\ ledger' = [m \in Messages |-> 0]
    /\ phase' = [d \in Deliveries |-> "NONE"]
    /\ answer' = [d \in Deliveries |-> "NONE"]
    /\ answerTo' = [d \in Deliveries |-> 0]
    /\ gate' = "FREE" /\ round' = {} /\ beating' = FALSE
    /\ UNCHANGED <<serverVars, stop, history>>

Next ==
    \/ \E m \in Messages : Expire(m) \/ DeliverElsewhere(m)
    \/ \E B \in SUBSET Messages : Fetch(B)
    \/ \E d \in Deliveries :
          \/ \E written \in BOOLEAN : RecordIntakePoison(d, written)
          \/ Enqueue(d)
          \/ Start(d)
          \/ Retire(d)
          \/ RetryLater(d)
          \/ \E written, terminates \in BOOLEAN : RecordPoison(d, written, terminates)
          \/ Release(d)
          \/ GiveBack(d)
          \/ DropRetired(d)
          \/ SendAnswer(d)
          \/ SendProgress(d)
    \/ StartRound
    \/ EndRound
    \/ Stop
    \/ CloseIntake
    \/ Exit

Spec == Init /\ [][Next]_vars

\* The steps that take one delivery to its end.
Progress(d) ==
    \/ \E written \in BOOLEAN : RecordIntakePoison(d, written)
    \/ Enqueue(d)
    \/ Start(d)
    \/ RetryLater(d)
    \/ Release(d)
    \/ GiveBack(d)
    \/ DropRetired(d)
    \/ SendAnswer(d)

\* Tasks that can run do run, the processor's future ends, and a round ends (its
\* flush is bounded by the request timeout).  Fairness is strong because tokio's
\* Mutex and channel are first come first served: a release gets the gate
\* between two rounds and a queued delivery gets the next free worker.
Fairness ==
    /\ \A d \in Deliveries : SF_vars(Progress(d))
    /\ WF_vars(EndRound)

FairSpec == Spec /\ Fairness

-----------------------------------------------------------------------------
TypeOK ==
    /\ server \in [Messages -> {"READY", "PENDING", "DELAYED", "GONE"}]
    /\ count \in [Messages -> 0 .. MaxDeliveries]
    /\ ledger \in [Messages -> 0 .. MaxDeliveries]
    /\ phase \in [Deliveries -> Phases]
    /\ answer \in [Deliveries -> Answers]
    /\ answerTo \in [Deliveries -> 0 .. MaxDeliveries]
    /\ gate \in {"FREE", "ROUND"} /\ round \subseteq Deliveries
    /\ beating \in BOOLEAN
    /\ intake \in {"OPEN", "CLOSED"} /\ stop \in BOOLEAN /\ up \in BOOLEAN
    /\ recorded \subseteq Messages /\ answered \subseteq Deliveries

\* A delivery answered with a delayed nak or a term is in no heartbeat round that
\* still runs and in no later one: a +WPI would turn a 24h park or a retry delay
\* into a 60s loop (heartbeat_owned and release_for_answer share the gate).
NoHeartbeatAfterAnswer ==
    /\ round \cap answered = {}
    /\ \A m \in Messages : <<m, ledger[m]>> \notin answered

\* A redelivery that arrives while an earlier delivery of the message is still
\* queued or running is not run beside it (bind_deliveries).
NotRunTwice ==
    \A d, e \in Deliveries :
        d[1] = e[1] /\ phase[d] \in Held /\ phase[e] \in Held => d = e

\* The heartbeat covers exactly the messages that are queued or being processed:
\* none is left to AckWait while it runs, and none is kept alive after its owner
\* has gone (Drop, release_for_answer, bind_deliveries).
LedgerIsOwners ==
    \A m \in Messages :
        ledger[m] # 0 <=> \E d \in Deliveries : d[1] = m /\ phase[d] \in Held

\* One process never owns more than it can run plus one prefetched pull, answers
\* in flight included (reserve_capacity).
CapacityRespected == Cardinality(In(Owning)) <= OwnershipCapacity

\* No poison is parked or terminated without its dead-letter record
\* (record_poison).
PoisonIsRecorded ==
    \A d \in Deliveries : answer[d] \in {"PARK", "TERM"} => d[1] \in recorded

\* An answer goes to the newest delivery of the message this process received
\* (the ack subject the server tracks), not to the one its owner began with.
AnswersNewest ==
    [][\A d \in Deliveries :
         /\ phase'[d] \in {"ANSWERING", "RETURNING"} /\ phase[d] # phase'[d]
         /\ d[1] \notin Undecodable
         => answerTo'[d] = ledger[d[1]]]_vars

\* Whatever the process owns it lets go of in the end: processed and answered,
\* given back at a stop, or dropped.
OwnershipEnds == \A m \in Messages : ledger[m] # 0 ~> ledger[m] = 0

=============================================================================
