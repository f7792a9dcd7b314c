--------------------------- MODULE RuntimeExecution ---------------------------
(***************************************************************************)
(* The PostgreSQL state of ONE execution generation of the runtime plane   *)
(* of elitea-main, and every transaction that changes it: the command      *)
(* outbox (prepare, publish, retire), the claim and its lease fence, the   *)
(* begin / authorize pair, the terminal output inbox and the settlement.   *)
(*                                                                         *)
(* Every action is one transaction: each of them first locks the job (and  *)
(* outbox) row FOR UPDATE, so two of them never overlap.  What does        *)
(* interleave is everything around them: publishers, worker sessions whose *)
(* lease ran out without their knowing, cancels, the deadline, the         *)
(* retirement sweep, and replies that are lost.  A fenced RPC is modelled  *)
(* as "whoever holds the fence of attempt a calls it, at any time": a      *)
(* caller that never learned its fence simply never calls.                 *)
(***************************************************************************)
EXTENDS Naturals, FiniteSets

CONSTANTS
    Sessions,     \* worker sessions (workload_session_id) that claim
    Digests,      \* digests of signed command envelopes, one per signing
    None,         \* SQL NULL: no digest, no session
    MaxClaims,    \* BOUND: claim attempts explored per generation
    Capability    \* capability_id of the job

NodeEventCapabilities ==
    {"index.ingest.v1", "agent.execute.application.v1", "agent.execute.adhoc.v1"}

ToolkitCapabilities ==
    {"toolkit.execute.read.v1", "toolkit.call_tool.v1", "toolkit.available_tools.v1"}

AgentCapabilities == {"agent.execute.application.v1", "agent.execute.adhoc.v1"}

SupportedCapabilities ==
    NodeEventCapabilities \cup ToolkitCapabilities \cup {"configuration.validate.v1"}

ASSUME CapabilityAssumption == Capability \in SupportedCapabilities
ASSUME MaxClaimsAssumption == MaxClaims \in Nat
ASSUME NoneAssumption == None \notin Digests \cup Sessions

Attempts == 1 .. MaxClaims

VARIABLES
    state,          \* execution_jobs.state
    desired,        \* execution_jobs.desired_state
    invocation,     \* execution_jobs.invocation_state
    terminalError,  \* execution_jobs.terminal_error_code
    prepared,       \* command_outbox.prepared_signed_envelope_digest
    published,      \* command_outbox.published_envelope_digest
    retired,        \* command_outbox.retirement_code
    authority,      \* command_outbox.authority_granted_at IS NOT NULL
    deadlinePassed, \* command_outbox.deadline <= clock_timestamp()
    attempts,       \* max(claim_attempt) of the generation
    holder,         \* per attempt: the session the claim was granted to
    lease,          \* per attempt: lease_expires_at against the database clock
    release,        \* per attempt: release_reason, "NONE" while unreleased
    grant,          \* per attempt: what the claim that created it was answered
    outputs,        \* rows of output_inbox
    settlements,    \* rows of execution_settlements
    invoked,        \* history: attempts answered AUTHORIZED_NOW
    acked           \* history: answers after which a worker ACKs the message

jobVars    == <<state, desired, invocation, terminalError>>
outboxVars == <<prepared, published, retired, authority>>
claimVars  == <<attempts, holder, lease, release, grant>>
rowVars    == <<outputs, settlements>>
history    == <<invoked, acked>>
vars == <<jobVars, outboxVars, deadlinePassed, claimVars, rowVars, history>>

Unstarted   == {"PENDING", "DISPATCHED"}
Settled     == {"SUCCEEDED", "FAILED", "CANCELLED"}
JobStates   == Unstarted \cup Settled \cup {"CLAIMED", "RUNNING", "QUARANTINED"}
Retirements == {"CANCELLED", "DEADLINE_EXCEEDED"}

\* "RESOLVING" is ACCEPTED while the control server still resolves the inputs.
Executable == {"RESOLVING", "ACCEPTED"}
Grants == Executable \cup
    {"NONE", "RECOVER_TERMINAL_ACK", "RECOVER_SETTLEMENT", "ACTIVE_LEASE_NOACK",
     "RETRY_LATER_NOACK", "RECOVER_RUNNING_NOACK",
     "RECOVER_AMBIGUOUS_INVOCATION_NOACK"}

\* "RESULT" is the capability's own result, "FAILURE" a RUNTIME_FAILURE and
\* "DEADLINE" the one RUNTIME_FAILURE whose bytes are the canonical deadline
\* failure.
Payloads == {"RESULT", "FAILURE", "DEADLINE"}
OutputRows == [attempt : Attempts, payload : Payloads, outcome : Settled]
SettlementRows == [attempt : Attempts, outcome : Settled]
Acks == {"OBSOLETE_ACK", "RETIRED_ACK", "RECOVER_SETTLEMENT", "SETTLED"}

-----------------------------------------------------------------------------
\* Admission writes the job and its outbox row in one transaction.
Init ==
    /\ state = "PENDING" /\ desired = "RUNNING"
    /\ invocation = "NOT_STARTED" /\ terminalError = "NONE"
    /\ prepared = None /\ published = None /\ retired = "NONE"
    /\ authority = FALSE /\ deadlinePassed = FALSE
    /\ attempts = 0
    /\ holder = [a \in Attempts |-> None]
    /\ lease = [a \in Attempts |-> "NONE"]
    /\ release = [a \in Attempts |-> "NONE"]
    /\ grant = [a \in Attempts |-> "NONE"]
    /\ outputs = {} /\ settlements = {}
    /\ invoked = {} /\ acked = {}

-----------------------------------------------------------------------------
(* The outbox publisher's two transactions. *)

\* Many replicas may sign the same command; the first envelope stored wins and
\* the others are handed the winner.
StorePrepared(d) ==
    /\ retired = "NONE" /\ ~deadlinePassed
    /\ prepared = None /\ published = None
    /\ ~authority /\ state = "PENDING"
    /\ prepared' = d
    /\ UNCHANGED <<jobVars, published, retired, authority, deadlinePassed,
                   claimVars, rowVars, history>>

\* After the bus accepted envelope d.  (A repeated mark only refreshes the
\* visibility observation.)
MarkPublished(d) ==
    /\ retired = "NONE" /\ prepared = d /\ published = None
    /\ ~authority /\ ~deadlinePassed /\ state = "PENDING"
    /\ published' = d
    /\ state' = "DISPATCHED"
    /\ UNCHANGED <<desired, invocation, terminalError, prepared, retired,
                   authority, deadlinePassed, claimVars, rowVars, history>>

-----------------------------------------------------------------------------
(* Retirement of a command that never gave a worker authority. *)

\* Mutant of CanRetire: trusts the job's state and forgets earlier authority.
CanRetireByStateAlone(expired) ==
    /\ retired = "NONE" /\ state \in Unstarted
    /\ desired = "CANCELLED" \/ expired

CanRetire(expired) ==
    /\ retired = "NONE" /\ ~authority /\ state \in Unstarted
    /\ desired = "CANCELLED" \/ expired
    /\ attempts = 0

\* What retireLockedNoAuthorityValidation writes; the caller fixes the rest.
RetireLocked ==
    LET cancelled == desired = "CANCELLED"
    IN  /\ retired' = IF cancelled THEN "CANCELLED" ELSE "DEADLINE_EXCEEDED"
        /\ state' = IF cancelled THEN "CANCELLED" ELSE "FAILED"
        /\ terminalError' = IF cancelled THEN "NONE" ELSE "DEADLINE_EXCEEDED"
        /\ UNCHANGED <<desired, invocation, prepared, published, authority,
                       claimVars, rowVars, invoked>>

\* The publisher's sweep.
RetireNoAuthority ==
    /\ CanRetire(deadlinePassed)
    /\ RetireLocked
    /\ UNCHANGED <<deadlinePassed, acked>>

\* An index job whose metadata row cannot be initialised never gets prepared.
QuarantineIndexMeta ==
    /\ Capability = "index.ingest.v1"
    /\ state = "PENDING" /\ desired = "RUNNING"
    /\ prepared = None /\ published = None /\ ~authority /\ retired = "NONE"
    /\ state' = "QUARANTINED" /\ desired' = "CANCELLED" /\ retired' = "CANCELLED"
    /\ UNCHANGED <<invocation, terminalError, prepared, published, authority,
                   deadlinePassed, claimVars, rowVars, history>>

-----------------------------------------------------------------------------
(* The outside world: a cancel, the deadline, a lease running out. *)

\* An agent's stop button also reaches a settled turn that still streams.
Cancel ==
    /\ desired = "RUNNING"
    /\ \/ state \in Unstarted \cup {"CLAIMED", "RUNNING"}
       \/ Capability \in AgentCapabilities /\ state \in Settled
    /\ desired' = "CANCELLED"
    /\ UNCHANGED <<state, invocation, terminalError, outboxVars, deadlinePassed,
                   claimVars, rowVars, history>>

\* By time, or moved to now by a dispatch refusal of an unprepared command.
DeadlinePasses ==
    /\ ~deadlinePassed
    /\ deadlinePassed' = TRUE
    /\ UNCHANGED <<jobVars, outboxVars, claimVars, rowVars, history>>

Active == {a \in Attempts : a <= attempts /\ release[a] = "NONE"}

\* RenewLease postpones this while the lease is live, and can never undo it.
LeaseExpires(a) ==
    /\ a \in Active /\ lease[a] = "LIVE"
    /\ lease' = [lease EXCEPT ![a] = "EXPIRED"]
    /\ UNCHANGED <<jobVars, outboxVars, deadlinePassed, attempts, holder,
                   release, grant, rowVars, history>>

-----------------------------------------------------------------------------
(* ClaimValidation, one action per way it commits.  A claim that is refused  *)
(* (ErrInvalidClaim, a rollback) or answered RETRY_LATER before it touched a *)
(* row changes nothing and is no action.  d is the digest of the delivered   *)
(* envelope, s the session that received it.                                 *)

\* A redelivery of a retired command.
ClaimRetired(d) ==
    /\ retired \in Retirements /\ ~authority
    /\ d = prepared /\ published \in {None, prepared}
    /\ \/ /\ retired = "DEADLINE_EXCEEDED"
          /\ state = "FAILED" /\ terminalError = "DEADLINE_EXCEEDED"
          /\ acked' = acked \cup {"RETIRED_ACK"}
       \/ /\ retired = "CANCELLED"
          /\ desired = "CANCELLED" /\ state = "CANCELLED" /\ terminalError = "NONE"
          /\ acked' = acked \cup {"OBSOLETE_ACK"}
    /\ UNCHANGED <<jobVars, outboxVars, deadlinePassed, claimVars, rowVars, invoked>>

\* The delivered envelope is the stored one and the command is not retired.
ExactEnvelope(d) ==
    /\ retired = "NONE" /\ prepared # None
    /\ d = prepared /\ published \in {None, prepared}

\* The claim itself retires a cancelled or expired command.
ClaimRetires(d) ==
    /\ ExactEnvelope(d)
    /\ CanRetire(deadlinePassed)
    /\ RetireLocked
    /\ acked' = acked \cup {IF desired = "CANCELLED" THEN "OBSOLETE_ACK" ELSE "RETIRED_ACK"}
    /\ UNCHANGED deadlinePassed

\* Past every check made before the active claim is looked at.
Claimable(d) ==
    /\ ExactEnvelope(d)
    /\ ~(~authority /\ state \in Unstarted /\ (desired = "CANCELLED" \/ deadlinePassed))
    /\ published # None
    /\ state # "QUARANTINED"
    /\ ~(desired = "CANCELLED" /\ state = "CANCELLED")

\* Mutant of ClaimObsolete: takes the request to cancel for its completion.
ClaimObsoleteOnDesired(d) ==
    /\ ExactEnvelope(d)
    /\ ~(~authority /\ state \in Unstarted)
    /\ published # None
    /\ desired = "CANCELLED"
    /\ acked' = acked \cup {"OBSOLETE_ACK"}
    /\ UNCHANGED <<jobVars, outboxVars, deadlinePassed, claimVars, rowVars, invoked>>

\* A redelivery after the run was cancelled durably.
ClaimObsolete(d) ==
    /\ ExactEnvelope(d)
    /\ ~(~authority /\ state \in Unstarted)
    /\ published # None
    /\ desired = "CANCELLED" /\ state = "CANCELLED"
    /\ acked' = acked \cup {"OBSOLETE_ACK"}
    /\ UNCHANGED <<jobVars, outboxVars, deadlinePassed, claimVars, rowVars, invoked>>

\* Mutant of LiveFence: an unreleased claim passes although its lease ran out.
FenceIgnoringExpiry(a) == a \in Active

LiveFence(a) == a \in Active /\ lease[a] = "LIVE"

NoLiveClaim == \A a \in Active : lease[a] # "LIVE"

\* Mutant of Reclaimed: the expired claim stays open beside its successor.
ReclaimedKeepsExpired == release

\* Release reasons once the expired active claim has been closed.
Reclaimed == [a \in Attempts |-> IF a \in Active THEN "LEASE_EXPIRED" ELSE release[a]]

\* Output row r may be settled under the fence of attempt a: its own, or left
\* behind by an earlier claim whose lease expired.
Settleable(rel, r, a) ==
    \/ r.attempt = a
    \/ r.attempt < a /\ rel[r.attempt] = "LEASE_EXPIRED"

TerminalRecoveryOnly ==
    /\ desired = "CANCELLED"
    /\ \E r \in outputs : Reclaimed[r.attempt] = "LEASE_EXPIRED"

RunningRecoveryOnly ==
    /\ desired = "CANCELLED" /\ ~TerminalRecoveryOnly
    /\ Capability \in NodeEventCapabilities /\ state = "RUNNING"
    /\ \E a \in Attempts : Reclaimed[a] = "LEASE_EXPIRED"

\* Mutant of MayGrant: a cancelled job that has started is handed on as it is.
MayGrantIgnoringCancel == desired = "RUNNING" \/ state \notin Unstarted

\* A cancelled execution is handed on for recovery only.
MayGrant ==
    \/ desired = "RUNNING"
    \/ state \notin Unstarted /\ (TerminalRecoveryOnly \/ RunningRecoveryOnly)

\* Mutant of GrantFor: no look at the invocation a predecessor may have made.
GrantForIgnoringInvocation(a) ==
    IF state \in Settled THEN "RECOVER_SETTLEMENT"
    ELSE IF \E r \in outputs : Settleable(Reclaimed, r, a) THEN "RECOVER_TERMINAL_ACK"
    ELSE IF RunningRecoveryOnly THEN "RECOVER_RUNNING_NOACK"
    ELSE "RESOLVING"

\* The disposition of a claim that creates attempt a.
GrantFor(a) ==
    IF state \in Settled
    THEN IF settlements # {} THEN "RECOVER_SETTLEMENT" ELSE "ACTIVE_LEASE_NOACK"
    ELSE IF \E r \in outputs : Settleable(Reclaimed, r, a) THEN "RECOVER_TERMINAL_ACK"
    ELSE IF RunningRecoveryOnly THEN "RECOVER_RUNNING_NOACK"
    ELSE IF outputs # {} THEN "RETRY_LATER_NOACK"
    ELSE IF /\ Capability \in NodeEventCapabilities \cup ToolkitCapabilities
            /\ state = "RUNNING" /\ invocation # "PREPARING"
         THEN "RECOVER_AMBIGUOUS_INVOCATION_NOACK"
    ELSE "RESOLVING"

\* The expired claim is closed and nobody takes over (answer RETRY_LATER).
ClaimOnlyReleases(d) ==
    /\ Claimable(d) /\ NoLiveClaim /\ ~MayGrant
    /\ Active # {}
    /\ release' = Reclaimed
    /\ UNCHANGED <<jobVars, outboxVars, deadlinePassed, attempts, holder, lease,
                   grant, rowVars, history>>

\* The deadline passes between the claim's read and its grant of authority.
ClaimRetiresAtGrant(d) ==
    /\ Claimable(d) /\ NoLiveClaim /\ MayGrant
    /\ ~authority /\ ~deadlinePassed
    /\ CanRetire(TRUE)
    /\ deadlinePassed' = TRUE
    /\ RetireLocked
    /\ acked' = acked \cup {"RETIRED_ACK"}

\* A new claim row, with the next attempt number and a fresh lease.
ClaimGrants(s, d) ==
    LET a == attempts + 1
    IN  /\ Claimable(d) /\ NoLiveClaim /\ MayGrant
        /\ authority \/ ~deadlinePassed
        /\ a \in Attempts
        /\ authority' = TRUE
        /\ attempts' = a
        /\ holder' = [holder EXCEPT ![a] = s]
        /\ lease' = [lease EXCEPT ![a] = "LIVE"]
        /\ release' = Reclaimed
        /\ grant' = [grant EXCEPT ![a] = GrantFor(a)]
        /\ state' = IF state \in Unstarted THEN "CLAIMED" ELSE state
        /\ acked' = IF GrantFor(a) = "RECOVER_SETTLEMENT"
                    THEN acked \cup {"RECOVER_SETTLEMENT"} ELSE acked
        /\ UNCHANGED <<desired, invocation, terminalError, prepared, published,
                       retired, deadlinePassed, rowVars, invoked>>

-----------------------------------------------------------------------------
(* The rest of ClaimCommand: an accepted claim is answered with its inputs.  *)

DeliverInputs(a) ==
    /\ grant[a] = "RESOLVING"
    /\ grant' = [grant EXCEPT ![a] = "ACCEPTED"]
    /\ UNCHANGED <<jobVars, outboxVars, deadlinePassed, attempts, holder, lease,
                   release, rowVars, history>>

maxInputResolutionClaimAttempts == 3

\* Mutant of AbortClaim: does not look at how far the run has come.
AbortClaimAnyState(a, next) ==
    /\ grant[a] = "RESOLVING" /\ LiveFence(a)
    /\ next \in {"DISPATCHED", "QUARANTINED"}
    /\ next = "DISPATCHED" => a < maxInputResolutionClaimAttempts
    /\ release' = [release EXCEPT ![a] = "ABORTED"]
    /\ state' = next
    /\ UNCHANGED <<desired, invocation, terminalError, outboxVars, deadlinePassed,
                   attempts, holder, lease, grant, rowVars, history>>

\* Inputs cannot be resolved: try again later (a bounded number of attempts), or
\* give up for good.
AbortClaim(a, next) ==
    /\ grant[a] = "RESOLVING" /\ LiveFence(a) /\ state = "CLAIMED"
    /\ next \in {"DISPATCHED", "QUARANTINED"}
    /\ next = "DISPATCHED" => a < maxInputResolutionClaimAttempts
    /\ release' = [release EXCEPT ![a] = "ABORTED"]
    /\ state' = next
    /\ UNCHANGED <<desired, invocation, terminalError, outboxVars, deadlinePassed,
                   attempts, holder, lease, grant, rowVars, history>>

-----------------------------------------------------------------------------
(* The fenced worker RPCs. *)

BeginExecution(a) ==
    /\ LiveFence(a) /\ desired = "RUNNING"
    /\ state = "CLAIMED" /\ invocation = "NOT_STARTED"
    /\ state' = "RUNNING" /\ invocation' = "PREPARING"
    /\ UNCHANGED <<desired, terminalError, outboxVars, deadlinePassed, claimVars,
                   rowVars, history>>

\* Mutant of AuthorizeInvocation: MAY_HAVE_STARTED is authorised again.
AuthorizeInvocationAgain(a) ==
    /\ LiveFence(a) /\ desired = "RUNNING"
    /\ state = "RUNNING"
    /\ invocation' = "MAY_HAVE_STARTED"
    /\ invoked' = invoked \cup {a}
    /\ UNCHANGED <<state, desired, terminalError, outboxVars, deadlinePassed,
                   claimVars, rowVars, acked>>

AuthorizeInvocation(a) ==
    /\ LiveFence(a) /\ desired = "RUNNING"
    /\ state = "RUNNING" /\ invocation = "PREPARING"
    /\ invocation' = "MAY_HAVE_STARTED"
    /\ invoked' = invoked \cup {a}
    /\ UNCHANGED <<state, desired, terminalError, outboxVars, deadlinePassed,
                   claimVars, rowVars, acked>>

\* outputRecord.validate: a payload type carries only its own outcomes.
ValidOutput(payload, outcome) ==
    CASE payload = "DEADLINE" -> outcome = "FAILED"
      [] payload = "FAILURE"  -> outcome \in {"FAILED", "CANCELLED"}
      [] OTHER ->
            \/ outcome = "SUCCEEDED"
            \/ outcome = "FAILED" /\ Capability \in {"toolkit.call_tool.v1", "index.ingest.v1"}
            \/ outcome = "CANCELLED" /\ Capability = "index.ingest.v1"

OutputAuthority(a) == LiveFence(a) /\ retired = "NONE" /\ authority

\* The WHERE clause of the insert.
Admitted(payload, outcome) ==
    \/ desired = "RUNNING" /\ (~deadlinePassed \/ payload = "DEADLINE")
    \/ desired = "CANCELLED" /\ payload = "FAILURE" /\ outcome = "CANCELLED"

\* A terminal under a cancel that must become the canonical cancellation.
CancellationRejected(payload, outcome) ==
    /\ desired = "CANCELLED"
    /\ ~(outcome = "CANCELLED" /\ payload \in {"FAILURE", "RESULT"})

\* A terminal output is stored and projected in the same transaction.
StoreOutput(a, payload, outcome) ==
    /\ ValidOutput(payload, outcome) /\ OutputAuthority(a)
    /\ outputs = {} /\ Admitted(payload, outcome)
    /\ outputs' = {[attempt |-> a, payload |-> payload, outcome |-> outcome]}
    /\ UNCHANGED <<jobVars, outboxVars, deadlinePassed, claimVars, settlements, history>>

\* canonicalCancellationOutput: the terminals the canonical cancellation is made
\* from.  The two inbox-only toolkit projectors never ask for one.
Replaceable(payload, outcome) ==
    \/ payload # "RESULT" /\ outcome = "FAILED"
    \/ /\ payload = "RESULT" /\ outcome = "SUCCEEDED"
       /\ Capability \notin {"toolkit.call_tool.v1", "toolkit.available_tools.v1"}

\* Such a terminal under a cancel becomes the canonical cancellation (the worker
\* is answered OUTPUT_CANCELLED); one that is neither stored nor replaceable is
\* refused and changes nothing.
MaterializeCancellation(a, payload, outcome) ==
    /\ ValidOutput(payload, outcome) /\ OutputAuthority(a)
    /\ outputs = {} /\ CancellationRejected(payload, outcome)
    /\ Replaceable(payload, outcome)
    /\ outputs' = {[attempt |-> a, payload |-> "FAILURE", outcome |-> "CANCELLED"]}
    /\ UNCHANGED <<jobVars, outboxVars, deadlinePassed, claimVars, settlements, history>>

\* Mutant of PrepareSettlement: the outcome asked for is not compared with the
\* stored output's.
PrepareSettlementUnchecked(a, r) ==
    /\ settlements = {} /\ LiveFence(a)
    /\ r \in outputs /\ Settleable(release, r, a)
    /\ \E outcome \in Settled :
          /\ settlements' = {[attempt |-> a, outcome |-> outcome]}
          /\ state' = outcome
    /\ release' = [release EXCEPT ![a] = "SETTLED"]
    /\ acked' = acked \cup {"SETTLED"}
    /\ UNCHANGED <<desired, invocation, terminalError, outboxVars, deadlinePassed,
                   attempts, holder, lease, grant, outputs, invoked>>

\* Mutant of PrepareSettlement: a successor of the settling claim settles again.
PrepareSettlementTwice(a, r) ==
    /\ LiveFence(a)
    /\ r \in outputs
    /\ settlements' = {[attempt |-> a, outcome |-> r.outcome]}
    /\ state' = r.outcome
    /\ release' = [release EXCEPT ![a] = "SETTLED"]
    /\ acked' = acked \cup {"SETTLED"}
    /\ UNCHANGED <<desired, invocation, terminalError, outboxVars, deadlinePassed,
                   attempts, holder, lease, grant, outputs, invoked>>

\* Mutant of SettlementJobState: settles into the state of an unknown outcome.
SettlementJobStateUnknown(outcome) == "SETTLING"

\* settlementJobState; no stored output can carry OUTCOME_UNKNOWN.
SettlementJobState(outcome) == outcome

\* The settlement, the job's final state and the end of the claim.
PrepareSettlement(a, r) ==
    /\ settlements = {} /\ LiveFence(a)
    /\ r \in outputs /\ Settleable(release, r, a)
    /\ settlements' = {[attempt |-> a, outcome |-> r.outcome]}
    /\ state' = SettlementJobState(r.outcome)
    /\ release' = [release EXCEPT ![a] = "SETTLED"]
    /\ acked' = acked \cup {"SETTLED"}
    /\ UNCHANGED <<desired, invocation, terminalError, outboxVars, deadlinePassed,
                   attempts, holder, lease, grant, outputs, invoked>>

-----------------------------------------------------------------------------
ClaimCommand(s, d) ==
    \/ ClaimRetired(d)
    \/ ClaimRetires(d)
    \/ ClaimObsolete(d)
    \/ ClaimOnlyReleases(d)
    \/ ClaimRetiresAtGrant(d)
    \/ ClaimGrants(s, d)

Next ==
    \/ \E d \in Digests : StorePrepared(d) \/ MarkPublished(d)
    \/ RetireNoAuthority
    \/ QuarantineIndexMeta
    \/ Cancel
    \/ DeadlinePasses
    \/ \E s \in Sessions, d \in Digests : ClaimCommand(s, d)
    \/ \E a \in Attempts :
          \/ LeaseExpires(a)
          \/ DeliverInputs(a)
          \/ \E next \in {"DISPATCHED", "QUARANTINED"} : AbortClaim(a, next)
          \/ BeginExecution(a)
          \/ AuthorizeInvocation(a)
          \/ \E p \in Payloads, o \in Settled :
                StoreOutput(a, p, o) \/ MaterializeCancellation(a, p, o)
          \/ \E r \in outputs : PrepareSettlement(a, r)

Spec == Init /\ [][Next]_vars

-----------------------------------------------------------------------------
TypeOK ==
    /\ state \in JobStates
    /\ desired \in {"RUNNING", "CANCELLED"}
    /\ invocation \in {"NOT_STARTED", "PREPARING", "MAY_HAVE_STARTED"}
    /\ terminalError \in {"NONE", "DEADLINE_EXCEEDED"}
    /\ prepared \in Digests \cup {None}
    /\ published \in Digests \cup {None}
    /\ retired \in Retirements \cup {"NONE"}
    /\ authority \in BOOLEAN
    /\ deadlinePassed \in BOOLEAN
    /\ attempts \in 0 .. MaxClaims
    /\ holder \in [Attempts -> Sessions \cup {None}]
    /\ lease \in [Attempts -> {"NONE", "LIVE", "EXPIRED"}]
    /\ release \in [Attempts -> {"NONE", "LEASE_EXPIRED", "SETTLED", "ABORTED"}]
    /\ grant \in [Attempts -> Grants]
    /\ outputs \subseteq OutputRows
    /\ settlements \subseteq SettlementRows
    /\ invoked \subseteq Attempts
    /\ acked \subseteq Acks

\* At most one claim is unreleased and it is the newest one, so the fence of a
\* superseded attempt is dead for good (claims.go 240-250 and the partial
\* unique index on unreleased claims).
SingleOwner ==
    /\ \A a \in Active : a = attempts
    /\ \A a \in Attempts : lease[a] = "NONE" <=> a > attempts

\* The SDK is handed to at most one attempt of the generation, whatever leases
\* expire and whoever re-claims (AuthorizeInvocation; BeginExecution hands a
\* PREPARING run to a successor on the strength of it).
AtMostOneInvocation ==
    /\ \A a, b \in invoked : a = b
    /\ invoked # {} <=> invocation = "MAY_HAVE_STARTED"

\* No claim is accepted for execution once an earlier attempt may have called
\* the SDK or left a terminal output.  configuration.validate.v1 never asks for
\* an invocation and is exempt from the first half, as in ClaimValidation.
NoReexecution ==
    \A a, b \in Attempts :
        a < b /\ grant[b] \in Executable =>
            /\ ~\E r \in outputs : r.attempt = a
            /\ Capability # "configuration.validate.v1" => a \notin invoked

\* A command is retired or gives authority, never both, and a retired one was
\* never claimed: the sweep and the claim race on the same row.
AuthorityExcludesRetirement ==
    /\ authority <=> attempts > 0
    /\ retired # "NONE" => /\ ~authority
                           /\ outputs = {} /\ settlements = {}
                           /\ state \in Settled \cup {"QUARANTINED"}

\* A settled job's final state is the outcome of the one terminal output that
\* was projected, settled by its own claim or by a successor of an expired one;
\* a final state without a settlement is a retirement (PrepareSettlement).
SettlementMatchesOutput ==
    /\ \A r, q \in outputs : r = q
    /\ \A t \in settlements :
          /\ state = t.outcome
          /\ release[t.attempt] = "SETTLED"
          /\ \E r \in outputs :
                /\ r.outcome = t.outcome
                /\ r.attempt = t.attempt \/ release[r.attempt] = "LEASE_EXPIRED"
    /\ state \in Settled => settlements # {} \/ retired # "NONE"

\* Every answer on which a worker acknowledges (and so destroys) the bus message
\* is given only when nothing is left to do for the generation.
AckedMeansFinal ==
    acked # {} =>
        /\ state \in Settled
        /\ "RETIRED_ACK" \in acked => retired = "DEADLINE_EXCEEDED"
        /\ acked \cap {"RECOVER_SETTLEMENT", "SETTLED"} # {} => settlements # {}

\* A final state, a stored output, a settlement and the selected envelope are
\* never changed again, although settlements do not look at the job's state.
FinalIsFinal ==
    [][/\ state \in Settled \cup {"QUARANTINED"} => state' = state
       /\ outputs \subseteq outputs'
       /\ settlements \subseteq settlements'
       /\ prepared # None => prepared' = prepared
       /\ published # None => published' = published]_vars

\* Once a cancel is durable no new attempt is accepted, no invocation is
\* authorised and the only terminal that can still be stored is a cancellation.
CancelStopsWork ==
    [][desired = "CANCELLED" =>
         /\ desired' = "CANCELLED"
         /\ invoked' = invoked
         /\ \A a \in Attempts : grant'[a] = "RESOLVING" => grant[a] = "RESOLVING"
         /\ \A r \in outputs' \ outputs : r.outcome = "CANCELLED"]_vars

\* A fence whose lease ran out, or that was superseded, writes nothing any more:
\* outputs and settlements come from the newest attempt while its lease is live.
StaleFenceWritesNothing ==
    [][/\ \A r \in outputs' \ outputs : r.attempt = attempts /\ lease[attempts] = "LIVE"
       /\ \A t \in settlements' \ settlements :
             t.attempt = attempts /\ lease[attempts] = "LIVE"
       /\ \A a \in invoked' \ invoked : a = attempts /\ lease[attempts] = "LIVE"]_vars

\* How a caller of the runtime plane sees the execution.
Contract == INSTANCE ExecutionContract WITH
    Callers <- Attempts, Outcomes <- Settled,
    Unserved <- {"CANCELLED", "FAILED", "QUARANTINED"},
    callers <- invoked,
    chosen  <- {r.outcome : r \in outputs},
    final   <- IF state \in Settled \cup {"QUARANTINED"} THEN state ELSE "OPEN"

\* Claims, leases, cancels, retirement and recovery together keep the contract:
\* one call at most and only while the execution is open, one outcome, closed
\* once with it or without a call, and nothing after that (AuthorizeInvocation,
\* insertOutputInbox, PrepareSettlement, AbortClaim, retirement).
ImplementsContract == Contract!Spec

=============================================================================
