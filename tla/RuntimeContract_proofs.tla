------------------------ MODULE RuntimeContract_proofs ------------------------
(***************************************************************************)
(* TLAPS proofs that RuntimeExecution implements ExecutionContract, and of *)
(* its action properties, from the inductive invariant of                  *)
(* RuntimeExecution_proofs.                                                *)
(***************************************************************************)
EXTENDS RuntimeExecution_proofs

\* A quarantined job has no open claim, and never gets one.
QuarantineClosesClaims ==
    state = "QUARANTINED" => \A a \in Attempts : a <= attempts => release[a] # "NONE"

LEMMA NextQuarantineClosesClaims ==
  IInv /\ QuarantineClosesClaims /\ [Next]_vars => QuarantineClosesClaims'
<1> SUFFICES ASSUME IInv, QuarantineClosesClaims, [Next]_vars, state' = "QUARANTINED"
             PROVE  \A b \in Attempts : b <= attempts' => release'[b] # "NONE"
  BY DEF QuarantineClosesClaims
<1> USE DEF jobVars, outboxVars, claimVars, rowVars, history
<1>1. CASE \E a \in Attempts, next \in {"DISPATCHED", "QUARANTINED"} : AbortClaim(a, next)
  <2>1. PICK a \in Attempts, next \in {"DISPATCHED", "QUARANTINED"} : AbortClaim(a, next)
    BY <1>1
  <2>2. a = attempts
    BY <2>1, MaxClaimsAssumption
       DEF AbortClaim, LiveFence, Active, IInv, ClaimRows, TypeOK, Attempts
  <2>3. QED
    BY <2>1, <2>2, MaxClaimsAssumption DEF AbortClaim, IInv, ClaimRows, TypeOK, Attempts
<1>2. CASE QuarantineIndexMeta
  BY <1>2, MaxClaimsAssumption
     DEF QuarantineIndexMeta, IInv, Lifecycle, TypeOK, Attempts
<1>3. CASE \E s \in Sessions, d \in Digests : ClaimCommand(s, d)
  BY <1>3 DEF ClaimCommand, ClaimRetired, ClaimRetires, RetireLocked, ClaimObsolete,
     ClaimOnlyReleases, ClaimRetiresAtGrant, ClaimGrants, Claimable, ExactEnvelope,
     CanRetire, Unstarted, Settled, QuarantineClosesClaims
<1>4. CASE \E a \in Attempts, r \in outputs : PrepareSettlement(a, r)
  BY <1>4 DEF PrepareSettlement, SettlementJobState, IInv, TypeOK, OutputRows, Settled
<1>5. CASE UNCHANGED <<state, attempts, release>>
  BY <1>5 DEF QuarantineClosesClaims
<1>6. CASE \/ \E d \in Digests : MarkPublished(d)
           \/ RetireNoAuthority
           \/ \E a \in Attempts : BeginExecution(a)
  BY <1>6 DEF MarkPublished, RetireNoAuthority, RetireLocked, BeginExecution
<1>7. QED
  BY <1>1, <1>2, <1>3, <1>4, <1>5, <1>6
     DEF Next, StorePrepared, Cancel, DeadlinePasses, LeaseExpires, DeliverInputs,
         AuthorizeInvocation, StoreOutput, MaterializeCancellation, vars

LEMMA ContractInvariance == Spec => [](IInv /\ QuarantineClosesClaims)
<1>1. Init => QuarantineClosesClaims
  BY DEF Init, QuarantineClosesClaims
<1>2. IInv /\ QuarantineClosesClaims /\ [Next]_vars => QuarantineClosesClaims'
  BY NextQuarantineClosesClaims
<1>3. QED
  BY <1>1, <1>2, Invariance, PTL DEF Spec

\* The fence that can write is the newest claim's, and its job is still open.
LEMMA FenceIsNewest ==
  ASSUME IInv, QuarantineClosesClaims, NEW a \in Attempts, LiveFence(a)
  PROVE  a = attempts /\ lease[attempts] = "LIVE" /\ state # "QUARANTINED" /\ authority
  BY MaxClaimsAssumption
     DEF LiveFence, Active, IInv, ClaimRows, Lifecycle, TypeOK, Attempts,
         QuarantineClosesClaims

\* An unsettled job without a retirement is open.
LEMMA UnsettledIsOpen ==
  ASSUME IInv, QuarantineClosesClaims, NEW a \in Attempts, LiveFence(a), settlements = {}
  PROVE  state \notin Settled \cup {"QUARANTINED"}
<1>1. authority /\ state # "QUARANTINED"
  BY FenceIsNewest
<1>2. retired = "NONE"
  BY <1>1 DEF IInv, Lifecycle
<1>3. QED
  BY <1>1, <1>2 DEF IInv, SettlementMatchesOutput

-----------------------------------------------------------------------------
(* The refinement. *)

LEMMA ContractStep ==
  IInv /\ QuarantineClosesClaims /\ [Next]_vars => [Contract!Next]_(Contract!vars)
<1> SUFFICES ASSUME IInv, QuarantineClosesClaims, [Next]_vars
             PROVE  [Contract!Next]_(Contract!vars)
  OBVIOUS
<1> USE DEF jobVars, outboxVars, claimVars, rowVars, history
<1>1. CASE UNCHANGED <<state, outputs, invoked>>
  BY <1>1 DEF Contract!vars
<1>2. CASE /\ UNCHANGED <<outputs, invoked>>
           /\ state \notin Settled \cup {"QUARANTINED"}
           /\ state' \notin Settled \cup {"QUARANTINED"}
  BY <1>2 DEF Contract!vars
<1>3. ASSUME UNCHANGED <<outputs, invoked>>, invoked = {},
             state \notin Settled \cup {"QUARANTINED"},
             state' \in {"CANCELLED", "FAILED", "QUARANTINED"}
      PROVE  Contract!Next
  <2>1. Contract!CloseUnserved(state')
    BY <1>3 DEF Contract!CloseUnserved, Settled
  <2>2. QED
    BY <1>3, <2>1 DEF Contract!Next
<1>4. CASE \E d \in Digests : MarkPublished(d)
  BY <1>2, <1>4 DEF MarkPublished, Settled
<1>5. ASSUME NEW e \in BOOLEAN, CanRetire(e), RetireLocked PROVE Contract!Next
  <2>1. invoked = {}
    BY <1>5 DEF CanRetire, Unstarted, IInv, Lifecycle, AtMostOneInvocation, Settled
  <2>2. QED
    BY <1>3, <1>5, <2>1 DEF CanRetire, RetireLocked, Unstarted, Settled
<1>6. CASE RetireNoAuthority
  BY <1>5, <1>6 DEF RetireNoAuthority, IInv, TypeOK
<1>7. CASE QuarantineIndexMeta
  <2>1. invoked = {}
    BY <1>7 DEF QuarantineIndexMeta, IInv, Lifecycle, AtMostOneInvocation, Settled
  <2>2. QED
    BY <1>3, <1>7, <2>1 DEF QuarantineIndexMeta, Settled
<1>8. CASE \E s \in Sessions, d \in Digests : ClaimCommand(s, d)
  <2>1. PICK s \in Sessions, d \in Digests : ClaimCommand(s, d)
    BY <1>8
  <2>2. CASE ClaimRetired(d) \/ ClaimObsolete(d) \/ ClaimOnlyReleases(d)
    BY <1>1, <2>2 DEF ClaimRetired, ClaimObsolete, ClaimOnlyReleases
  <2>3. CASE ClaimRetires(d)
    BY <1>5, <2>3 DEF ClaimRetires, IInv, TypeOK
  <2>4. CASE ClaimRetiresAtGrant(d)
    BY <1>5, <2>4 DEF ClaimRetiresAtGrant
  <2>5. CASE ClaimGrants(s, d)
    <3>1. UNCHANGED <<outputs, invoked>> /\ state' = IF state \in Unstarted THEN "CLAIMED" ELSE state
      BY <2>5 DEF ClaimGrants
    <3>2. QED
      BY <1>1, <1>2, <3>1 DEF Unstarted, Settled
  <2>6. QED
    BY <2>1, <2>2, <2>3, <2>4, <2>5 DEF ClaimCommand
<1>9. ASSUME NEW a \in Attempts, NEW next \in {"DISPATCHED", "QUARANTINED"}, AbortClaim(a, next)
      PROVE  [Contract!Next]_(Contract!vars)
  <2>1. invoked = {}
    BY <1>9 DEF AbortClaim, IInv, Lifecycle, AtMostOneInvocation, Settled
  <2>2. QED
    BY <1>2, <1>3, <1>9, <2>1 DEF AbortClaim, Settled
<1>10. CASE \E a \in Attempts : BeginExecution(a)
  BY <1>2, <1>10 DEF BeginExecution, Settled
<1>11. ASSUME NEW a \in Attempts, AuthorizeInvocation(a) PROVE Contract!Next
  <2>1. invoked = {} /\ invoked' = {a}
    BY <1>11 DEF AuthorizeInvocation, IInv, AtMostOneInvocation
  <2>2. Contract!Call(a)
    BY <1>11, <2>1 DEF AuthorizeInvocation, Contract!Call, Settled
  <2>3. QED
    BY <2>2 DEF Contract!Next
<1>12. ASSUME NEW a \in Attempts, NEW p \in Payloads, NEW o \in Settled,
              StoreOutput(a, p, o) \/ MaterializeCancellation(a, p, o)
       PROVE  Contract!Next
  <2>1. LiveFence(a) /\ outputs = {} /\ UNCHANGED <<state, invoked>>
    BY <1>12 DEF StoreOutput, MaterializeCancellation, OutputAuthority
  <2>2. settlements = {}
    BY <2>1 DEF IInv, SettlementMatchesOutput
  <2>3. state \notin Settled \cup {"QUARANTINED"}
    BY <2>1, <2>2, UnsettledIsOpen
  <2>4. PICK q \in Settled : {r.outcome : r \in outputs'} = {q}
    <3>1. CASE StoreOutput(a, p, o)
      BY <3>1 DEF StoreOutput
    <3>2. CASE MaterializeCancellation(a, p, o)
      <4>1. {r.outcome : r \in outputs'} = {"CANCELLED"}
        BY <3>2 DEF MaterializeCancellation
      <4>2. QED
        BY <4>1 DEF Settled
    <3>3. QED
      BY <1>12, <3>1, <3>2
  <2>5. Contract!Choose(q)
    BY <2>1, <2>3, <2>4 DEF Contract!Choose
  <2>6. QED
    BY <2>4, <2>5 DEF Contract!Next
<1>13. ASSUME NEW a \in Attempts, NEW r \in outputs, PrepareSettlement(a, r)
       PROVE  Contract!Next
  <2>1. state \notin Settled \cup {"QUARANTINED"}
    BY <1>13, UnsettledIsOpen DEF PrepareSettlement
  <2>2. r.outcome \in Settled
    BY DEF IInv, TypeOK, OutputRows
  <2>3. {q.outcome : q \in outputs} = {r.outcome}
    BY DEF IInv, SettlementMatchesOutput
  <2>4. Contract!Commit(r.outcome)
    BY <1>13, <2>1, <2>2, <2>3 DEF PrepareSettlement, SettlementJobState, Contract!Commit
  <2>5. QED
    BY <2>2, <2>4 DEF Contract!Next
<1>14. QED
  BY <1>1, <1>4, <1>6, <1>7, <1>8, <1>9, <1>10, <1>11, <1>12, <1>13
     DEF Next, StorePrepared, Cancel, DeadlinePasses, LeaseExpires, DeliverInputs, vars

\* For every number of sessions, envelopes and claims and every capability, what
\* claims, leases, cancels, retirement and recovery do together is a behaviour of
\* the contract: one call at most, one outcome, closed once and for good
\* (claims.go, command_outbox.go, output_inbox.go, settlements.go).
THEOREM ContractImplemented == Spec => ImplementsContract
<1>1. Init => Contract!Init
  BY DEF Init, Contract!Init, Settled
<1>2. IInv /\ QuarantineClosesClaims /\ [Next]_vars => [Contract!Next]_(Contract!vars)
  BY ContractStep
<1>3. QED
  BY <1>1, <1>2, ContractInvariance, PTL DEF Spec, ImplementsContract, Contract!Spec

-----------------------------------------------------------------------------
(* Action properties. *)

\* What one step may not do to what is written once.
WrittenOnce ==
    /\ state \in Settled \cup {"QUARANTINED"} => state' = state
    /\ outputs \subseteq outputs'
    /\ settlements \subseteq settlements'
    /\ prepared # None => prepared' = prepared
    /\ published # None => published' = published

LEMMA WrittenOnceStep ==
  IInv /\ QuarantineClosesClaims /\ [Next]_vars => [WrittenOnce]_vars
<1> SUFFICES ASSUME IInv, QuarantineClosesClaims, Next PROVE WrittenOnce
  OBVIOUS
<1> USE DEF jobVars, outboxVars, claimVars, rowVars, history, WrittenOnce
<1>1. CASE \E d \in Digests : StorePrepared(d) \/ MarkPublished(d)
  BY <1>1 DEF StorePrepared, MarkPublished, Settled
<1>2. CASE RetireNoAuthority \/ QuarantineIndexMeta \/ Cancel \/ DeadlinePasses
  BY <1>2 DEF RetireNoAuthority, RetireLocked, CanRetire, QuarantineIndexMeta, Cancel,
     DeadlinePasses, Unstarted, Settled
<1>3. CASE \E s \in Sessions, d \in Digests : ClaimCommand(s, d)
  BY <1>3 DEF ClaimCommand, ClaimRetired, ClaimRetires, ClaimObsolete, ClaimOnlyReleases,
     ClaimRetiresAtGrant, ClaimGrants, RetireLocked, CanRetire, Unstarted, Settled
<1>4. CASE \E a \in Attempts : LeaseExpires(a) \/ DeliverInputs(a)
  BY <1>4 DEF LeaseExpires, DeliverInputs
<1>5. CASE \E a \in Attempts, next \in {"DISPATCHED", "QUARANTINED"} : AbortClaim(a, next)
  BY <1>5 DEF AbortClaim, Settled
<1>6. CASE \E a \in Attempts : BeginExecution(a) \/ AuthorizeInvocation(a)
  BY <1>6 DEF BeginExecution, AuthorizeInvocation, Settled
<1>7. CASE \E a \in Attempts, p \in Payloads, o \in Settled :
             StoreOutput(a, p, o) \/ MaterializeCancellation(a, p, o)
  BY <1>7 DEF StoreOutput, MaterializeCancellation
<1>8. ASSUME NEW a \in Attempts, NEW r \in outputs, PrepareSettlement(a, r) PROVE WrittenOnce
  <2>1. state \notin Settled \cup {"QUARANTINED"}
    BY <1>8, UnsettledIsOpen DEF PrepareSettlement
  <2>2. QED
    BY <1>8, <2>1 DEF PrepareSettlement
<1>9. QED
  BY <1>1, <1>2, <1>3, <1>4, <1>5, <1>6, <1>7, <1>8 DEF Next

\* Final states, outputs, settlements and the selected envelope are written once:
\* the settlement does not look at the job's state, but the claim that can settle
\* proves that it is still open (PrepareSettlement, StorePreparedValidation,
\* MarkValidationPublished).
THEOREM FinalIsFinalCorrect == Spec => FinalIsFinal
<1>1. IInv /\ QuarantineClosesClaims /\ [Next]_vars => [WrittenOnce]_vars
  BY WrittenOnceStep
<1>2. QED
  BY <1>1, ContractInvariance, PTL DEF Spec, FinalIsFinal, WrittenOnce

\* A fence whose lease ran out, or that was superseded, writes nothing: the three
\* fenced writes find their claim unreleased and live, and that claim is the
\* newest (lockOutputInboxAuthority, PrepareSettlement, AuthorizeInvocation).
THEOREM StaleFenceWritesNothingCorrect == Spec => StaleFenceWritesNothing
<1> DEFINE A == /\ \A r \in outputs' \ outputs : r.attempt = attempts /\ lease[attempts] = "LIVE"
                /\ \A t \in settlements' \ settlements :
                      t.attempt = attempts /\ lease[attempts] = "LIVE"
                /\ \A a \in invoked' \ invoked : a = attempts /\ lease[attempts] = "LIVE"
<1>1. IInv /\ QuarantineClosesClaims /\ [Next]_vars => [A]_vars
  <2> SUFFICES ASSUME IInv, QuarantineClosesClaims, Next PROVE A
    OBVIOUS
  <2> USE DEF jobVars, outboxVars, claimVars, rowVars, history
  <2>1. CASE UNCHANGED <<outputs, settlements, invoked>>
    BY <2>1
  <2>2. ASSUME NEW a \in Attempts, NEW p \in Payloads, NEW o \in Settled,
               StoreOutput(a, p, o) \/ MaterializeCancellation(a, p, o)
        PROVE  A
    <3>1. a = attempts /\ lease[attempts] = "LIVE"
      BY <2>2, FenceIsNewest DEF StoreOutput, MaterializeCancellation, OutputAuthority
    <3>2. QED
      BY <2>2, <3>1 DEF StoreOutput, MaterializeCancellation
  <2>3. ASSUME NEW a \in Attempts, NEW r \in outputs, PrepareSettlement(a, r) PROVE A
    <3>1. a = attempts /\ lease[attempts] = "LIVE"
      BY <2>3, FenceIsNewest DEF PrepareSettlement
    <3>2. QED
      BY <2>3, <3>1 DEF PrepareSettlement
  <2>4. ASSUME NEW a \in Attempts, AuthorizeInvocation(a) PROVE A
    <3>1. a = attempts /\ lease[attempts] = "LIVE"
      BY <2>4, FenceIsNewest DEF AuthorizeInvocation
    <3>2. QED
      BY <2>4, <3>1 DEF AuthorizeInvocation
  <2>5. QED
    BY <2>1, <2>2, <2>3, <2>4
       DEF Next, ClaimCommand, StorePrepared, MarkPublished, RetireNoAuthority, RetireLocked,
           QuarantineIndexMeta, Cancel, DeadlinePasses, ClaimRetired, ClaimRetires,
           ClaimObsolete, ClaimOnlyReleases, ClaimRetiresAtGrant, ClaimGrants,
           LeaseExpires, DeliverInputs, AbortClaim, BeginExecution
<1>2. QED
  BY <1>1, ContractInvariance, PTL DEF Spec, StaleFenceWritesNothing

\* Once a cancel is durable a claim is granted for recovery only, nothing is
\* authorised and the only terminal that can still be stored is a cancellation
\* (ClaimValidation, AuthorizeInvocation, insertOutputInbox).
THEOREM CancelStopsWorkCorrect == Spec => CancelStopsWork
<1> DEFINE A == desired = "CANCELLED" =>
                  /\ desired' = "CANCELLED"
                  /\ invoked' = invoked
                  /\ \A a \in Attempts : grant'[a] = "RESOLVING" => grant[a] = "RESOLVING"
                  /\ \A r \in outputs' \ outputs : r.outcome = "CANCELLED"
<1>1. IInv /\ QuarantineClosesClaims /\ [Next]_vars => [A]_vars
  <2> SUFFICES ASSUME IInv, QuarantineClosesClaims, Next, desired = "CANCELLED" PROVE A
    OBVIOUS
  <2> USE DEF jobVars, outboxVars, claimVars, rowVars, history
  <2>1. CASE UNCHANGED <<desired, invoked, grant, outputs>>
    BY <2>1
  <2>2. ASSUME NEW s \in Sessions, NEW d \in Digests, ClaimGrants(s, d) PROVE A
    <3>1. TerminalRecoveryOnly \/ RunningRecoveryOnly
      BY <2>2 DEF ClaimGrants, MayGrant
    <3>2. TerminalRecoveryOnly => \E r \in outputs : Settleable(Reclaimed, r, attempts + 1)
      BY DEF TerminalRecoveryOnly, Settleable, IInv, TypeOK, Lifecycle, OutputRows, Attempts
    <3>3. GrantFor(attempts + 1) # "RESOLVING"
      BY <3>1, <3>2 DEF GrantFor
    <3>4. UNCHANGED <<desired, invoked, outputs>>
      BY <2>2 DEF ClaimGrants
    <3>5. attempts + 1 \in Attempts /\ grant' = [grant EXCEPT ![attempts + 1] = GrantFor(attempts + 1)]
      BY <2>2 DEF ClaimGrants
    <3>6. QED
      BY <3>3, <3>4, <3>5 DEF IInv, TypeOK
  <2>3. ASSUME NEW a \in Attempts, DeliverInputs(a) PROVE A
    BY <2>3 DEF DeliverInputs, IInv, TypeOK
  <2>4. ASSUME NEW a \in Attempts, NEW p \in Payloads, NEW o \in Settled, StoreOutput(a, p, o)
        PROVE  A
    BY <2>4 DEF StoreOutput, Admitted
  <2>5. ASSUME NEW a \in Attempts, NEW p \in Payloads, NEW o \in Settled,
               MaterializeCancellation(a, p, o)
        PROVE  A
    BY <2>5 DEF MaterializeCancellation
  <2>6. QED
    BY <2>1, <2>2, <2>3, <2>4, <2>5
       DEF Next, ClaimCommand, StorePrepared, MarkPublished, RetireNoAuthority, RetireLocked,
           QuarantineIndexMeta, Cancel, DeadlinePasses, ClaimRetired, ClaimRetires,
           ClaimObsolete, ClaimOnlyReleases, ClaimRetiresAtGrant, LeaseExpires, AbortClaim,
           BeginExecution, AuthorizeInvocation, PrepareSettlement
<1>2. QED
  BY <1>1, ContractInvariance, PTL DEF Spec, CancelStopsWork

=============================================================================
