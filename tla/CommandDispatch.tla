--------------------------- MODULE CommandDispatch ---------------------------
(***************************************************************************)
(* How the command of one execution generation gets from the outbox to a   *)
(* worker and when it leaves the bus: publisher replicas of elitea-main    *)
(* that sign, store, append and mark it, the JetStream subject it lives    *)
(* on, and worker sessions that pull it, claim, run, settle and ACK.       *)
(*                                                                         *)
(* The database is RuntimeExecution, extended: each database step below is *)
(* one of its transactions, joined with what the caller does with the      *)
(* answer.  Publishers and sessions may fail between any two steps.  The   *)
(* stream is external and modelled by what the publisher and the workers   *)
(* rely on: one live message per subject, a window of remembered message   *)
(* ids, explicit acks bound to one stored message, redelivery without      *)
(* limit, and a MaxAge longer than every deadline.                         *)
(***************************************************************************)
EXTENDS RuntimeExecution

CONSTANTS
    Publishers,    \* outbox publisher replicas
    Unverifiable,  \* envelopes whose signature no worker can verify
    MaxStored      \* BOUND: messages ever stored on the subject

ASSUME UnverifiableAssumption == Unverifiable \subseteq Digests
ASSUME MaxStoredAssumption == MaxStored \in Nat

VARIABLES
    pc,        \* per publisher: where its Dispatch is
    selected,  \* per publisher: the candidate it signed, then the stored winner
    stored,    \* messages stored on the subject so far (the last sequence)
    body,      \* per stored message: its envelope
    live,      \* the last stored message is still in the stream
    window,    \* its Nats-Msg-Id is still remembered
    aged,      \* history: MaxAge has removed a message
    held,      \* per session: the message it was delivered, 0 for none
    phase      \* per session: what it does with that message

publisherVars == <<pc, selected>>
busVars       == <<stored, body, live, window, aged>>
sessionVars   == <<held, phase>>
dispatchVars  == <<vars, publisherVars, busVars, sessionVars>>

Messages == 1 .. MaxStored
Final    == Settled \cup {"QUARANTINED"}

DispatchInit ==
    /\ Init
    /\ pc = [p \in Publishers |-> "IDLE"]
    /\ selected = [p \in Publishers |-> None]
    /\ stored = 0 /\ body = [n \in Messages |-> None]
    /\ live = FALSE /\ window = FALSE /\ aged = FALSE
    /\ held = [s \in Sessions |-> 0]
    /\ phase = [s \in Sessions |-> "IDLE"]

-----------------------------------------------------------------------------
(* A publisher replica: RunOnce, then Dispatch of the listed command.        *)

Goto(p, next) == pc' = [pc EXCEPT ![p] = next]

\* Mutant of Offerable: a command that was signed once is taken for offered.
OfferableUnprepared ==
    /\ retired = "NONE" /\ ~authority /\ ~deadlinePassed
    /\ prepared = None /\ state = "PENDING"

\* New work, and published work whose visibility observation may have expired.
Offerable ==
    /\ retired = "NONE" /\ ~authority /\ ~deadlinePassed
    /\ IF published = None THEN state = "PENDING" ELSE state \in Unstarted

\* The sweep that starts every cycle.
Sweep ==
    /\ RetireNoAuthority
    /\ UNCHANGED <<publisherVars, busVars, sessionVars>>

\* A retired or expired row ends the dispatch.
NotOver == retired = "NONE" /\ (deadlinePassed => authority)

\* ListPendingValidationIDs and the reads of Dispatch up to the signer.  Nothing
\* is locked: any number of replicas may list the same command.  The reads write
\* nothing, and what they saw is tested again by the steps below, so a change in
\* the midst of them shows as one that follows them.
BeginDispatch(p, d) ==
    /\ pc[p] = "IDLE" /\ Offerable
    /\ IF prepared = None
       THEN Goto(p, "STORE") /\ selected' = [selected EXCEPT ![p] = d]
       ELSE Goto(p, "APPEND") /\ selected' = [selected EXCEPT ![p] = prepared]
    /\ UNCHANGED <<vars, busVars, sessionVars>>

\* Mutant of Winner: the loser of the race goes on with its own candidate.
WinnerIsOwnCandidate(p) == selected[p]

\* The durable envelope that StorePreparedValidation hands to a late candidate.
Winner(p) == prepared

StoreCandidate(p) ==
    /\ pc[p] = "STORE"
    /\ \/ StorePrepared(selected[p]) /\ UNCHANGED selected
       \/ /\ NotOver /\ prepared # None
          /\ selected' = [selected EXCEPT ![p] = Winner(p)]
          /\ UNCHANGED vars
    /\ Goto(p, "APPEND")
    /\ UNCHANGED <<busVars, sessionVars>>

\* JetStreamAppender.append.  A live copy refuses the publish and is compared:
\* equal bytes are success, other bytes a conflict (PublisherFails).  Without a
\* live copy a remembered id is success too, and stores nothing.
AppendPrepared(p) ==
    /\ pc[p] = "APPEND"
    /\ \/ live /\ body[stored] = selected[p] /\ UNCHANGED busVars
       \/ ~live /\ window /\ UNCHANGED busVars
       \/ /\ ~live /\ ~window /\ stored < MaxStored
          /\ stored' = stored + 1
          /\ body' = [body EXCEPT ![stored + 1] = selected[p]]
          /\ live' = TRUE /\ window' = TRUE /\ UNCHANGED aged
    /\ Goto(p, "MARK")
    /\ UNCHANGED <<vars, selected, sessionVars>>

\* MarkValidationPublished: the first mark, or a refreshed observation.
MarkAppended(p) ==
    /\ pc[p] = "MARK"
    /\ \/ MarkPublished(selected[p])
       \/ published = selected[p] /\ retired = "NONE" /\ UNCHANGED vars
    /\ Goto(p, "IDLE")
    /\ selected' = [selected EXCEPT ![p] = None]
    /\ UNCHANGED <<busVars, sessionVars>>

\* A crash, a timeout, a lost reply, a saturated stream or a refusal ends the
\* dispatch where it is.
PublisherFails(p) ==
    /\ pc[p] # "IDLE"
    /\ Goto(p, "IDLE")
    /\ selected' = [selected EXCEPT ![p] = None]
    /\ UNCHANGED <<vars, busVars, sessionVars>>

-----------------------------------------------------------------------------
(* The stream (external). *)

WindowCloses ==
    /\ window
    /\ window' = FALSE
    /\ UNCHANGED <<vars, publisherVars, stored, body, live, aged, sessionVars>>

\* MaxAge is longer than the route's longest deadline.
MaxAgeRemoves ==
    /\ live /\ deadlinePassed
    /\ live' = FALSE /\ aged' = TRUE
    /\ UNCHANGED <<vars, publisherVars, stored, body, window, sessionVars>>

\* A pull.  AckWait may have run out on every earlier delivery, so several
\* sessions may hold the same message.
Deliver(s) ==
    /\ phase[s] = "IDLE" /\ live
    /\ held' = [held EXCEPT ![s] = stored]
    /\ phase' = [phase EXCEPT ![s] = "FRESH"]
    /\ UNCHANGED <<vars, publisherVars, busVars>>

\* Mutant of LetGo: the message is still named after the session gave it up.
LetGoKeepsMessage(s) ==
    /\ phase[s] # "IDLE"
    /\ phase' = [phase EXCEPT ![s] = "IDLE"]
    /\ UNCHANGED <<vars, publisherVars, busVars, held>>

\* The session lets go of its message: a nak, a lost connection, a crash.
LetGo(s) ==
    /\ phase[s] # "IDLE"
    /\ held' = [held EXCEPT ![s] = 0]
    /\ phase' = [phase EXCEPT ![s] = "IDLE"]
    /\ UNCHANGED <<vars, publisherVars, busVars>>

\* +ACK and +TERM remove the message they were sent for and no later one.
Remove(s) ==
    /\ live' = (live /\ held[s] # stored)
    /\ held' = [held EXCEPT ![s] = 0]
    /\ phase' = [phase EXCEPT ![s] = "IDLE"]
    /\ UNCHANGED <<vars, publisherVars, stored, body, window, aged>>

-----------------------------------------------------------------------------
(* A worker session.                                                         *)

\* The signature check comes before the claim; its failure is terminated.
TermPoison(s) ==
    /\ phase[s] = "FRESH" /\ body[held[s]] \in Unverifiable
    /\ Remove(s)

\* Mutant of Route: the message is acknowledged when the work is accepted.
RouteAcksAccepted(disposition) ==
    IF disposition \in {"RECOVER_SETTLEMENT", "OBSOLETE_ACK", "RETIRED_ACK", "RESOLVING"}
    THEN "ACK" ELSE "WORKING"

\* Mutant of Route: a retired command's message is left to the next delivery.
RouteForgetsRetired(disposition) ==
    IF disposition \in {"RECOVER_SETTLEMENT", "OBSOLETE_ACK"} THEN "ACK" ELSE "WORKING"

\* ToolkitDeliveryRouter.route: which dispositions retire the bus message.
Route(disposition) ==
    IF disposition \in {"RECOVER_SETTLEMENT", "OBSOLETE_ACK", "RETIRED_ACK"}
    THEN "ACK" ELSE "WORKING"

Answered(s, disposition) ==
    /\ phase' = [phase EXCEPT ![s] = Route(disposition)]
    /\ UNCHANGED <<held, publisherVars, busVars>>

\* ClaimCommand for the delivered envelope.  An answer that changes nothing and
\* is no ACK is followed by a nak: LetGo.
SessionClaims(s) ==
    LET d == body[held[s]]
    IN  /\ phase[s] = "FRESH" /\ d \notin Unverifiable
        /\ \/ /\ ClaimRetired(d)
              /\ Answered(s, IF retired = "CANCELLED" THEN "OBSOLETE_ACK" ELSE "RETIRED_ACK")
           \/ /\ ClaimRetires(d)
              /\ Answered(s, IF desired = "CANCELLED" THEN "OBSOLETE_ACK" ELSE "RETIRED_ACK")
           \/ ClaimObsolete(d) /\ Answered(s, "OBSOLETE_ACK")
           \/ ClaimOnlyReleases(d) /\ Answered(s, "RETRY_LATER_NOACK")
           \/ ClaimRetiresAtGrant(d) /\ Answered(s, "RETIRED_ACK")
           \/ ClaimGrants(s, d) /\ Answered(s, GrantFor(attempts + 1))

\* The settlement receipt lets the session that owns the claim ACK.
SessionSettles(a, r) ==
    /\ PrepareSettlement(a, r)
    /\ phase' = [phase EXCEPT ![holder[a]] = IF @ = "WORKING" THEN "ACK" ELSE @]
    /\ UNCHANGED <<held, publisherVars, busVars>>

AckMessage(s) == phase[s] = "ACK" /\ Remove(s)

\* The transactions that neither send nor answer a bus message.
Elsewhere ==
    /\ \/ QuarantineIndexMeta \/ Cancel \/ DeadlinePasses
       \/ \E a \in Attempts :
             \/ LeaseExpires(a) \/ DeliverInputs(a)
             \/ \E next \in {"DISPATCHED", "QUARANTINED"} : AbortClaim(a, next)
             \/ BeginExecution(a) \/ AuthorizeInvocation(a)
             \/ \E p \in Payloads, o \in Settled :
                   StoreOutput(a, p, o) \/ MaterializeCancellation(a, p, o)
    /\ UNCHANGED <<publisherVars, busVars, sessionVars>>

DispatchNext ==
    \/ Sweep \/ Elsewhere \/ WindowCloses \/ MaxAgeRemoves
    \/ \E p \in Publishers :
          \/ \E d \in Digests : BeginDispatch(p, d)
          \/ StoreCandidate(p) \/ AppendPrepared(p) \/ MarkAppended(p)
          \/ PublisherFails(p)
    \/ \E s \in Sessions :
          Deliver(s) \/ LetGo(s) \/ TermPoison(s) \/ SessionClaims(s) \/ AckMessage(s)
    \/ \E a \in Attempts, r \in outputs : SessionSettles(a, r)

DispatchSpec == DispatchInit /\ [][DispatchNext]_dispatchVars

\* Replicas keep polling and dispatching, sessions keep pulling, and whatever
\* is interrupted again and again gets through in the end; leases run out, and
\* no session keeps a message for ever.  Nothing is assumed of the run itself:
\* the worker may die anywhere in it.
DispatchFairness ==
    /\ WF_dispatchVars(Sweep)
    /\ WF_dispatchVars(WindowCloses)
    /\ \A p \in Publishers :
          /\ WF_dispatchVars(\E d \in Digests : BeginDispatch(p, d))
          /\ SF_dispatchVars(StoreCandidate(p))
          /\ SF_dispatchVars(AppendPrepared(p))
          /\ SF_dispatchVars(MarkAppended(p))
    /\ \A s \in Sessions :
          /\ WF_dispatchVars(Deliver(s))
          /\ WF_dispatchVars(LetGo(s))
          /\ SF_dispatchVars(SessionClaims(s))
          /\ SF_dispatchVars(AckMessage(s))
    /\ \A a \in Attempts :
          WF_dispatchVars(LeaseExpires(a) /\ UNCHANGED <<publisherVars, busVars, sessionVars>>)

DispatchFairSpec == DispatchSpec /\ DispatchFairness

-----------------------------------------------------------------------------
DispatchTypeOK ==
    /\ TypeOK
    /\ pc \in [Publishers -> {"IDLE", "STORE", "APPEND", "MARK"}]
    /\ selected \in [Publishers -> Digests \cup {None}]
    /\ stored \in 0 .. MaxStored
    /\ body \in [Messages -> Digests \cup {None}]
    /\ live \in BOOLEAN /\ window \in BOOLEAN /\ aged \in BOOLEAN
    /\ held \in [Sessions -> 0 .. MaxStored]
    /\ phase \in [Sessions -> {"IDLE", "FRESH", "WORKING", "ACK"}]
    /\ \A s \in Sessions : held[s] <= stored /\ (held[s] = 0 <=> phase[s] = "IDLE")

\* Whatever replicas sign, lose and repeat, the subject only ever carries the
\* one envelope the outbox selected: append never meets other bytes, and the
\* claim's comparison with the stored digest never refuses a genuine delivery
\* (StorePreparedValidation, ValidationDispatcher.Dispatch).
OneEnvelope == \A n \in 1 .. stored : body[n] = prepared

\* A command a worker has had authority over is never re-offered by the outbox,
\* so its message must stay in the stream until the generation is final; only
\* MaxAge may take it (Route, the ack after the settlement receipt).
AuthorityKeepsMessage == authority /\ state \notin Final /\ ~aged => live

\* Delivery, and redelivery of work whose consumer died: an open generation
\* without a live claim is claimed, or ends, although publishers and sessions
\* may fail after any step (ListPendingValidationIDs, Dispatch, Route).  Not so
\* once MaxAge took the message, or for a cancel after authority (CancelSettles);
\* MaxClaims is the bound.
OpenIsServed ==
    (state \notin Final /\ NoLiveClaim)
    ~> (~NoLiveClaim \/ state \in Final \/ attempts = MaxClaims \/ aged
        \/ (desired = "CANCELLED" /\ authority))

\* The message of a settled generation leaves the stream, also one that a slow
\* publisher stored again after the first was acknowledged, and also when an ACK
\* is lost, so that it does not hold the route's capacity.  (The message of one
\* that a late cancel reached may stay: its redeliveries are answered RETRY_LATER.)
SettledLeavesBus ==
    (state \in Settled /\ live)
    ~> (~live \/ attempts = MaxClaims \/ desired = "CANCELLED")

\* What the comment on CancelRuntimeJob says a durable cancel leads to, while the
\* message is there for a worker to see it and claims are not used up.
CancelSettles ==
    desired = "CANCELLED" ~> (state \in Final \/ aged \/ attempts = MaxClaims)
=============================================================================
