----------------------- MODULE RuntimeExecution_proofs -----------------------
(***************************************************************************)
(* TLAPS proofs about RuntimeExecution, for every set of sessions and      *)
(* envelopes, every bound on claims and every capability.                  *)
(***************************************************************************)
EXTENDS RuntimeExecution, TLAPS

-----------------------------------------------------------------------------
(* Type correctness. *)

LEMMA InitTypeOK == Init => TypeOK
<1> SUFFICES ASSUME Init PROVE TypeOK
  OBVIOUS
<1>1. attempts \in 0 .. MaxClaims
  BY MaxClaimsAssumption DEF Init
<1>2. /\ holder \in [Attempts -> Sessions \cup {None}]
      /\ lease \in [Attempts -> {"NONE", "LIVE", "EXPIRED"}]
      /\ release \in [Attempts -> {"NONE", "LEASE_EXPIRED", "SETTLED", "ABORTED"}]
      /\ grant \in [Attempts -> Grants]
  BY DEF Init, Grants
<1>3. /\ outputs \subseteq OutputRows /\ settlements \subseteq SettlementRows
      /\ invoked \subseteq Attempts /\ acked \subseteq Acks
  BY DEF Init
<1>4. authority \in BOOLEAN /\ deadlinePassed \in BOOLEAN
  BY DEF Init
<1>5. QED
  BY <1>1, <1>2, <1>3, <1>4
     DEF Init, TypeOK, JobStates, Unstarted, Retirements

\* What the retirement writes is well typed.
LEMMA RetireLockedType ==
  ASSUME TypeOK, RetireLocked, deadlinePassed' \in BOOLEAN, acked' \subseteq Acks
  PROVE  TypeOK'
  BY DEF TypeOK, RetireLocked, JobStates, Unstarted, Settled, Retirements,
         claimVars, rowVars

LEMMA NextTypeOK == TypeOK /\ [Next]_vars => TypeOK'
<1> SUFFICES ASSUME TypeOK, [Next]_vars PROVE TypeOK'
  OBVIOUS
<1> USE MaxClaimsAssumption
<1>1. ASSUME NEW d \in Digests, StorePrepared(d) PROVE TypeOK'
  BY <1>1 DEF TypeOK, StorePrepared, jobVars, claimVars, rowVars, history
<1>2. ASSUME NEW d \in Digests, MarkPublished(d) PROVE TypeOK'
  BY <1>2 DEF TypeOK, MarkPublished, claimVars, rowVars, history, JobStates, Unstarted
<1>3. CASE RetireNoAuthority
  BY <1>3, RetireLockedType DEF TypeOK, RetireNoAuthority
<1>4. CASE QuarantineIndexMeta
  BY <1>4 DEF TypeOK, QuarantineIndexMeta, claimVars, rowVars, history, JobStates, Retirements
<1>5. CASE Cancel
  BY <1>5 DEF TypeOK, Cancel, outboxVars, claimVars, rowVars, history
<1>6. CASE DeadlinePasses
  BY <1>6 DEF TypeOK, DeadlinePasses, jobVars, outboxVars, claimVars, rowVars, history
<1>7. ASSUME NEW s \in Sessions, NEW d \in Digests, ClaimCommand(s, d) PROVE TypeOK'
  <2>1. CASE ClaimRetired(d)
    BY <2>1 DEF TypeOK, ClaimRetired, jobVars, outboxVars, claimVars, rowVars, Acks
  <2>2. CASE ClaimRetires(d)
    BY <2>2, RetireLockedType DEF TypeOK, ClaimRetires, Acks
  <2>3. CASE ClaimObsolete(d)
    BY <2>3 DEF TypeOK, ClaimObsolete, jobVars, outboxVars, claimVars, rowVars, Acks
  <2>4. CASE ClaimOnlyReleases(d)
    BY <2>4 DEF TypeOK, ClaimOnlyReleases, jobVars, outboxVars, rowVars, history, Reclaimed
  <2>5. CASE ClaimRetiresAtGrant(d)
    BY <2>5, RetireLockedType DEF TypeOK, ClaimRetiresAtGrant, Acks
  <2>6. CASE ClaimGrants(s, d)
    <3> DEFINE a == attempts + 1
    <3>1. GrantFor(a) \in Grants
      BY DEF GrantFor, Grants, Executable
    <3>2. state' \in JobStates
      BY <2>6 DEF ClaimGrants, TypeOK, JobStates
    <3>3. /\ holder' \in [Attempts -> Sessions \cup {None}]
          /\ lease' \in [Attempts -> {"NONE", "LIVE", "EXPIRED"}]
          /\ grant' \in [Attempts -> Grants]
          /\ attempts' \in 0 .. MaxClaims
      BY <2>6, <3>1 DEF ClaimGrants, TypeOK, Attempts
    <3>4. release' \in [Attempts -> {"NONE", "LEASE_EXPIRED", "SETTLED", "ABORTED"}]
      BY <2>6 DEF ClaimGrants, TypeOK, Reclaimed
    <3>5. acked' \subseteq Acks /\ authority' \in BOOLEAN
      BY <2>6 DEF ClaimGrants, TypeOK, Acks
    <3>6. QED
      BY <2>6, <3>2, <3>3, <3>4, <3>5 DEF ClaimGrants, TypeOK, rowVars
  <2>7. QED
    BY <1>7, <2>1, <2>2, <2>3, <2>4, <2>5, <2>6 DEF ClaimCommand
<1>8. ASSUME NEW a \in Attempts, LeaseExpires(a) PROVE TypeOK'
  BY <1>8 DEF TypeOK, LeaseExpires, jobVars, outboxVars, rowVars, history
<1>9. ASSUME NEW a \in Attempts, DeliverInputs(a) PROVE TypeOK'
  BY <1>9 DEF TypeOK, DeliverInputs, jobVars, outboxVars, rowVars, history, Grants, Executable
<1>10. ASSUME NEW a \in Attempts, NEW next \in {"DISPATCHED", "QUARANTINED"},
              AbortClaim(a, next)
       PROVE  TypeOK'
  BY <1>10 DEF TypeOK, AbortClaim, outboxVars, rowVars, history, JobStates, Unstarted
<1>11. ASSUME NEW a \in Attempts, BeginExecution(a) PROVE TypeOK'
  BY <1>11 DEF TypeOK, BeginExecution, outboxVars, claimVars, rowVars, history, JobStates
<1>12. ASSUME NEW a \in Attempts, AuthorizeInvocation(a) PROVE TypeOK'
  BY <1>12 DEF TypeOK, AuthorizeInvocation, outboxVars, claimVars, rowVars
<1>13. ASSUME NEW a \in Attempts, NEW p \in Payloads, NEW o \in Settled,
              StoreOutput(a, p, o) \/ MaterializeCancellation(a, p, o)
       PROVE  TypeOK'
  BY <1>13 DEF TypeOK, StoreOutput, MaterializeCancellation, jobVars, outboxVars,
               claimVars, history, OutputRows, Payloads, Settled
<1>14. ASSUME NEW a \in Attempts, NEW r \in outputs, PrepareSettlement(a, r)
       PROVE  TypeOK'
  BY <1>14 DEF TypeOK, PrepareSettlement, SettlementJobState, outboxVars, OutputRows,
               SettlementRows, JobStates, Acks
<1>15. CASE UNCHANGED vars
  BY <1>15 DEF TypeOK, vars, jobVars, outboxVars, claimVars, rowVars, history
<1>16. QED
  BY <1>1, <1>2, <1>3, <1>4, <1>5, <1>6, <1>7, <1>8, <1>9, <1>10, <1>11, <1>12,
     <1>13, <1>14, <1>15 DEF Next

\* Every reachable row of the job, outbox, claim, output and settlement tables
\* is one the schema and the Go types admit.
THEOREM TypeCorrect == Spec => []TypeOK
<1>1. Init => TypeOK
  BY InitTypeOK
<1>2. TypeOK /\ [Next]_vars => TypeOK'
  BY NextTypeOK
<1>3. QED
  BY <1>1, <1>2, PTL DEF Spec

-----------------------------------------------------------------------------
(* The inductive invariant. *)

\* Claim rows are numbered without gaps; a row beyond the newest is blank and a
\* row before the newest is released.
ClaimRows ==
    \A a \in Attempts :
        /\ a > attempts => lease[a] = "NONE" /\ release[a] = "NONE" /\ grant[a] = "NONE"
        /\ a <= attempts => lease[a] # "NONE"
        /\ a < attempts => release[a] # "NONE"

\* How far the job can be, given what has been granted, retired and invoked.
Lifecycle ==
    /\ authority <=> attempts > 0
    /\ state \in {"CLAIMED", "RUNNING"} => authority
    /\ ~authority => outputs = {} /\ settlements = {}
    /\ retired # "NONE" => ~authority /\ state \in Settled \cup {"QUARANTINED"}
    /\ invocation # "NOT_STARTED" => state \in Settled \cup {"RUNNING"}
    /\ \A r \in outputs : r.attempt <= attempts

IInv ==
    /\ TypeOK
    /\ ClaimRows
    /\ Lifecycle
    /\ AtMostOneInvocation
    /\ NoReexecution
    /\ SettlementMatchesOutput
    /\ AckedMeansFinal

LEMMA InitIInv == Init => IInv
<1> SUFFICES ASSUME Init PROVE IInv
  OBVIOUS
<1>1. TypeOK
  BY InitTypeOK
<1>2. ClaimRows
  BY MaxClaimsAssumption DEF Init, ClaimRows, Attempts
<1>3. Lifecycle
  BY DEF Init, Lifecycle
<1>4. AtMostOneInvocation /\ NoReexecution
  BY DEF Init, AtMostOneInvocation, NoReexecution, Executable
<1>5. SettlementMatchesOutput /\ AckedMeansFinal
  BY DEF Init, SettlementMatchesOutput, AckedMeansFinal, Settled
<1>6. QED
  BY <1>1, <1>2, <1>3, <1>4, <1>5 DEF IInv

\* Only these transactions write claim rows.
LEMMA ClaimFrame ==
  ASSUME [Next]_vars
  PROVE  \/ UNCHANGED <<attempts, lease, release, grant>>
         \/ \E d \in Digests : ClaimOnlyReleases(d)
         \/ \E s \in Sessions, d \in Digests : ClaimGrants(s, d)
         \/ \E a \in Attempts :
               \/ LeaseExpires(a)
               \/ DeliverInputs(a)
               \/ \E next \in {"DISPATCHED", "QUARANTINED"} : AbortClaim(a, next)
               \/ \E r \in outputs : PrepareSettlement(a, r)
  BY DEF Next, ClaimCommand, StorePrepared, MarkPublished, RetireNoAuthority,
         RetireLocked, QuarantineIndexMeta, Cancel, DeadlinePasses, ClaimRetired,
         ClaimRetires, ClaimObsolete, ClaimRetiresAtGrant, BeginExecution,
         AuthorizeInvocation, StoreOutput, MaterializeCancellation, vars, claimVars

LEMMA NextClaimRows == TypeOK /\ ClaimRows /\ [Next]_vars => ClaimRows'
<1> SUFFICES ASSUME TypeOK, ClaimRows, [Next]_vars PROVE ClaimRows'
  OBVIOUS
<1> USE MaxClaimsAssumption DEF Attempts
<1>1. CASE UNCHANGED <<attempts, lease, release, grant>>
  BY <1>1 DEF ClaimRows
<1>2. ASSUME NEW d \in Digests, ClaimOnlyReleases(d) PROVE ClaimRows'
  BY <1>2 DEF TypeOK, ClaimRows, ClaimOnlyReleases, Reclaimed, Active
<1>3. ASSUME NEW s \in Sessions, NEW d \in Digests, ClaimGrants(s, d) PROVE ClaimRows'
  BY <1>3 DEF TypeOK, ClaimRows, ClaimGrants, Reclaimed, Active
<1>4. ASSUME NEW a \in Attempts, LeaseExpires(a) PROVE ClaimRows'
  BY <1>4 DEF TypeOK, ClaimRows, LeaseExpires, Active
<1>5. ASSUME NEW a \in Attempts, DeliverInputs(a) PROVE ClaimRows'
  BY <1>5 DEF TypeOK, ClaimRows, DeliverInputs
<1>6. ASSUME NEW a \in Attempts, NEW next \in {"DISPATCHED", "QUARANTINED"},
             AbortClaim(a, next)
      PROVE  ClaimRows'
  BY <1>6 DEF TypeOK, ClaimRows, AbortClaim, LiveFence, Active
<1>7. ASSUME NEW a \in Attempts, NEW r \in outputs, PrepareSettlement(a, r)
      PROVE  ClaimRows'
  BY <1>7 DEF TypeOK, ClaimRows, PrepareSettlement, LiveFence, Active
<1>8. QED
  BY <1>1, <1>2, <1>3, <1>4, <1>5, <1>6, <1>7, ClaimFrame

LEMMA NextAtMostOneInvocation ==
  TypeOK /\ AtMostOneInvocation /\ [Next]_vars => AtMostOneInvocation'
<1> SUFFICES ASSUME TypeOK, AtMostOneInvocation, [Next]_vars
             PROVE  AtMostOneInvocation'
  OBVIOUS
<1>1. CASE UNCHANGED <<invocation, invoked>>
  BY <1>1 DEF AtMostOneInvocation
<1>2. ASSUME NEW a \in Attempts, BeginExecution(a) PROVE AtMostOneInvocation'
  BY <1>2 DEF AtMostOneInvocation, BeginExecution, history
<1>3. ASSUME NEW a \in Attempts, AuthorizeInvocation(a) PROVE AtMostOneInvocation'
  BY <1>3 DEF AtMostOneInvocation, AuthorizeInvocation
<1>4. QED
  BY <1>1, <1>2, <1>3
     DEF Next, ClaimCommand, StorePrepared, MarkPublished, RetireNoAuthority,
         RetireLocked, QuarantineIndexMeta, Cancel, DeadlinePasses, ClaimRetired,
         ClaimRetires, ClaimObsolete, ClaimOnlyReleases, ClaimRetiresAtGrant,
         ClaimGrants, LeaseExpires, DeliverInputs, AbortClaim, StoreOutput,
         MaterializeCancellation, PrepareSettlement, vars, jobVars, history

LEMMA NextLifecycle == TypeOK /\ ClaimRows /\ Lifecycle /\ [Next]_vars => Lifecycle'
<1> SUFFICES ASSUME TypeOK, ClaimRows, Lifecycle, [Next]_vars PROVE Lifecycle'
  OBVIOUS
<1> USE MaxClaimsAssumption
    DEF Attempts, TypeOK, ClaimRows, Lifecycle, Unstarted, Settled, Retirements
<1>1. CASE UNCHANGED <<state, invocation, retired, authority, attempts, outputs, settlements>>
  BY <1>1
<1>2. ASSUME NEW d \in Digests, MarkPublished(d) PROVE Lifecycle'
  BY <1>2 DEF MarkPublished, claimVars, rowVars
<1>3. ASSUME RetireLocked, CanRetire(TRUE) PROVE Lifecycle'
  BY <1>3 DEF RetireLocked, CanRetire, claimVars, rowVars
<1>4. CASE QuarantineIndexMeta
  BY <1>4 DEF QuarantineIndexMeta, claimVars, rowVars
<1>5. ASSUME NEW s \in Sessions, NEW d \in Digests, ClaimGrants(s, d) PROVE Lifecycle'
  BY <1>5 DEF ClaimGrants, Claimable, ExactEnvelope, rowVars, OutputRows
<1>6. ASSUME NEW a \in Attempts, NEW next \in {"DISPATCHED", "QUARANTINED"},
             AbortClaim(a, next)
      PROVE  Lifecycle'
  BY <1>6 DEF AbortClaim, LiveFence, Active, outboxVars, rowVars
<1>7. ASSUME NEW a \in Attempts, BeginExecution(a) PROVE Lifecycle'
  BY <1>7 DEF BeginExecution, outboxVars, claimVars, rowVars
<1>8. ASSUME NEW a \in Attempts, AuthorizeInvocation(a) PROVE Lifecycle'
  BY <1>8 DEF AuthorizeInvocation, outboxVars, claimVars, rowVars
<1>9. ASSUME NEW a \in Attempts, NEW p \in Payloads, NEW o \in Settled,
             StoreOutput(a, p, o) \/ MaterializeCancellation(a, p, o)
      PROVE  Lifecycle'
  BY <1>9 DEF StoreOutput, MaterializeCancellation, OutputAuthority, LiveFence,
              Active, jobVars, outboxVars, claimVars
<1>10. ASSUME NEW a \in Attempts, NEW r \in outputs, PrepareSettlement(a, r)
       PROVE  Lifecycle'
  BY <1>10 DEF PrepareSettlement, SettlementJobState, LiveFence, Active, outboxVars,
               OutputRows
<1>11. CASE RetireNoAuthority
  BY <1>3, <1>11 DEF RetireNoAuthority, CanRetire
<1>12. ASSUME NEW s \in Sessions, NEW d \in Digests, ClaimCommand(s, d) PROVE Lifecycle'
  <2>1. CASE ClaimRetires(d) \/ ClaimRetiresAtGrant(d)
    BY <1>3, <2>1 DEF ClaimRetires, ClaimRetiresAtGrant, CanRetire
  <2>2. CASE ClaimRetired(d) \/ ClaimObsolete(d) \/ ClaimOnlyReleases(d)
    BY <1>1, <2>2 DEF ClaimRetired, ClaimObsolete, ClaimOnlyReleases, jobVars,
                      outboxVars, claimVars, rowVars
  <2>3. QED
    BY <1>5, <1>12, <2>1, <2>2 DEF ClaimCommand
<1>13. QED
  BY <1>1, <1>2, <1>4, <1>6, <1>7, <1>8, <1>9, <1>10, <1>11, <1>12
     DEF Next, StorePrepared, Cancel, DeadlinePasses, LeaseExpires, DeliverInputs,
         vars, jobVars, outboxVars, claimVars, rowVars

LEMMA NextNoReexecution ==
  /\ TypeOK /\ ClaimRows /\ Lifecycle /\ AtMostOneInvocation /\ NoReexecution
  /\ [Next]_vars
  => NoReexecution'
<1> SUFFICES ASSUME TypeOK, ClaimRows, Lifecycle, AtMostOneInvocation,
                    NoReexecution, [Next]_vars
             PROVE  NoReexecution'
  OBVIOUS
<1> USE MaxClaimsAssumption DEF Attempts
<1>1. CASE UNCHANGED <<grant, outputs, invoked>>
  BY <1>1 DEF NoReexecution
<1>2. ASSUME NEW s \in Sessions, NEW d \in Digests, ClaimGrants(s, d)
      PROVE  NoReexecution'
  <2> DEFINE new == attempts + 1
  <2>1. grant' = [grant EXCEPT ![new] = GrantFor(new)] /\ new \in Attempts
    BY <1>2 DEF ClaimGrants
  <2>2. outputs' = outputs /\ invoked' = invoked
    BY <1>2 DEF ClaimGrants, rowVars
  <2>3. GrantFor(new) \in Executable => outputs = {}
    BY DEF GrantFor, Executable
  <2>4. GrantFor(new) \in Executable /\ Capability # "configuration.validate.v1"
        => invoked = {}
    BY CapabilityAssumption
       DEF GrantFor, Executable, SupportedCapabilities, Lifecycle, AtMostOneInvocation
  <2>5. QED
    BY <2>1, <2>2, <2>3, <2>4 DEF NoReexecution, TypeOK
<1>3. ASSUME NEW a \in Attempts, DeliverInputs(a) PROVE NoReexecution'
  BY <1>3 DEF NoReexecution, DeliverInputs, Executable, TypeOK, rowVars, history
<1>4. ASSUME NEW a \in Attempts, AuthorizeInvocation(a) PROVE NoReexecution'
  BY <1>4 DEF NoReexecution, AuthorizeInvocation, LiveFence, Active, ClaimRows,
              Executable, TypeOK, claimVars, rowVars
<1>5. ASSUME NEW a \in Attempts, NEW p \in Payloads, NEW o \in Settled,
             StoreOutput(a, p, o) \/ MaterializeCancellation(a, p, o)
      PROVE  NoReexecution'
  BY <1>5 DEF NoReexecution, StoreOutput, MaterializeCancellation, OutputAuthority,
              LiveFence, Active, ClaimRows, Executable, TypeOK, claimVars, history
<1>6. QED
  BY <1>1, <1>2, <1>3, <1>4, <1>5
     DEF Next, ClaimCommand, StorePrepared, MarkPublished, RetireNoAuthority,
         RetireLocked, QuarantineIndexMeta, Cancel, DeadlinePasses, ClaimRetired,
         ClaimRetires, ClaimObsolete, ClaimOnlyReleases, ClaimRetiresAtGrant,
         LeaseExpires, AbortClaim, BeginExecution, PrepareSettlement, vars,
         claimVars, rowVars, history

LEMMA NextSettlementMatchesOutput ==
  /\ TypeOK /\ ClaimRows /\ Lifecycle /\ SettlementMatchesOutput
  /\ [Next]_vars
  => SettlementMatchesOutput'
<1> SUFFICES ASSUME TypeOK, ClaimRows, Lifecycle, SettlementMatchesOutput, [Next]_vars
             PROVE  SettlementMatchesOutput'
  OBVIOUS
<1> USE MaxClaimsAssumption DEF Attempts
<1>1. CASE UNCHANGED <<state, retired, release, outputs, settlements>>
  BY <1>1 DEF SettlementMatchesOutput
<1>2. ASSUME NEW d \in Digests, MarkPublished(d) PROVE SettlementMatchesOutput'
  BY <1>2 DEF SettlementMatchesOutput, MarkPublished, TypeOK, SettlementRows, Settled,
              claimVars, rowVars
<1>3. ASSUME RetireLocked, CanRetire(TRUE) PROVE SettlementMatchesOutput'
  BY <1>3 DEF SettlementMatchesOutput, RetireLocked, CanRetire, Lifecycle, Settled,
              Retirements, claimVars, rowVars
<1>4. CASE QuarantineIndexMeta
  BY <1>4 DEF SettlementMatchesOutput, QuarantineIndexMeta, Lifecycle, Settled, rowVars
<1>5. ASSUME NEW rel \in [Attempts -> {"NONE", "LEASE_EXPIRED", "SETTLED", "ABORTED"}],
             \A a \in Attempts : release[a] # "NONE" => rel[a] = release[a],
             release' = rel,
             state' \in Settled <=> state \in Settled,
             state \in Settled => state' = state,
             UNCHANGED <<retired, outputs, settlements>>
      PROVE  SettlementMatchesOutput'
  <2>1. ASSUME NEW t \in settlements
        PROVE  /\ state' = t.outcome
               /\ release'[t.attempt] = "SETTLED"
               /\ \E r \in outputs :
                     /\ r.outcome = t.outcome
                     /\ r.attempt = t.attempt \/ release'[r.attempt] = "LEASE_EXPIRED"
    BY <1>5 DEF SettlementMatchesOutput, TypeOK, SettlementRows, OutputRows
  <2>2. QED
    BY <1>5, <2>1 DEF SettlementMatchesOutput
<1>6. \A a \in Attempts : release[a] # "NONE" => Reclaimed[a] = release[a]
  BY DEF Reclaimed, Active
<1>7. Reclaimed \in [Attempts -> {"NONE", "LEASE_EXPIRED", "SETTLED", "ABORTED"}]
  BY DEF Reclaimed, TypeOK
<1>8. ASSUME NEW d \in Digests, ClaimOnlyReleases(d) PROVE SettlementMatchesOutput'
  BY <1>5, <1>6, <1>7, <1>8 DEF ClaimOnlyReleases, jobVars, outboxVars, rowVars
<1>9. ASSUME NEW s \in Sessions, NEW d \in Digests, ClaimGrants(s, d)
      PROVE  SettlementMatchesOutput'
  BY <1>5, <1>6, <1>7, <1>9 DEF ClaimGrants, Unstarted, Settled, rowVars
<1>10. ASSUME NEW a \in Attempts, NEW next \in {"DISPATCHED", "QUARANTINED"},
              AbortClaim(a, next)
       PROVE  SettlementMatchesOutput'
  <2>1. release' \in [Attempts -> {"NONE", "LEASE_EXPIRED", "SETTLED", "ABORTED"}]
    BY <1>10 DEF AbortClaim, TypeOK
  <2>2. \A b \in Attempts : release[b] # "NONE" => release'[b] = release[b]
    BY <1>10 DEF AbortClaim, LiveFence, Active, TypeOK
  <2>3. QED
    BY <1>5, <1>10, <2>1, <2>2 DEF AbortClaim, Settled, outboxVars, rowVars
<1>11. ASSUME NEW a \in Attempts, BeginExecution(a) PROVE SettlementMatchesOutput'
  BY <1>11 DEF SettlementMatchesOutput, BeginExecution, TypeOK, SettlementRows, Settled,
               outboxVars, claimVars, rowVars
<1>12. ASSUME NEW a \in Attempts, NEW p \in Payloads, NEW o \in Settled,
              StoreOutput(a, p, o) \/ MaterializeCancellation(a, p, o)
       PROVE  SettlementMatchesOutput'
  BY <1>12 DEF SettlementMatchesOutput, StoreOutput, MaterializeCancellation, jobVars,
               outboxVars, claimVars
<1>13. ASSUME NEW a \in Attempts, NEW r \in outputs, PrepareSettlement(a, r)
       PROVE  SettlementMatchesOutput'
  <2>1. /\ settlements' = {[attempt |-> a, outcome |-> r.outcome]}
        /\ state' = r.outcome /\ outputs' = outputs
        /\ release' = [release EXCEPT ![a] = "SETTLED"]
    BY <1>13 DEF PrepareSettlement, SettlementJobState
  <2>2. r.attempt \in Attempts /\ a = attempts
    BY <1>13 DEF PrepareSettlement, LiveFence, Active, ClaimRows, TypeOK, OutputRows
  <2>3. r.attempt = a \/ release'[r.attempt] = "LEASE_EXPIRED"
    BY <1>13, <2>1, <2>2 DEF PrepareSettlement, Settleable, TypeOK
  <2>4. QED
    BY <2>1, <2>2, <2>3 DEF SettlementMatchesOutput, TypeOK
<1>14. CASE RetireNoAuthority
  BY <1>3, <1>14 DEF RetireNoAuthority, CanRetire
<1>15. ASSUME NEW s \in Sessions, NEW d \in Digests, ClaimCommand(s, d)
       PROVE  SettlementMatchesOutput'
  <2>1. CASE ClaimRetires(d) \/ ClaimRetiresAtGrant(d)
    BY <1>3, <2>1 DEF ClaimRetires, ClaimRetiresAtGrant, CanRetire
  <2>2. CASE ClaimRetired(d) \/ ClaimObsolete(d)
    BY <1>1, <2>2 DEF ClaimRetired, ClaimObsolete, jobVars, outboxVars, claimVars, rowVars
  <2>3. QED
    BY <1>8, <1>9, <1>15, <2>1, <2>2 DEF ClaimCommand
<1>16. QED
  BY <1>1, <1>2, <1>4, <1>10, <1>11, <1>12, <1>13, <1>14, <1>15
     DEF Next, StorePrepared, Cancel, DeadlinePasses, LeaseExpires, DeliverInputs,
         AuthorizeInvocation, vars, jobVars, outboxVars, claimVars, rowVars

LEMMA NextAckedMeansFinal ==
  /\ TypeOK /\ Lifecycle /\ SettlementMatchesOutput /\ AckedMeansFinal
  /\ [Next]_vars
  => AckedMeansFinal'
<1> SUFFICES ASSUME TypeOK, Lifecycle, SettlementMatchesOutput, AckedMeansFinal, [Next]_vars
             PROVE  AckedMeansFinal'
  OBVIOUS
<1> USE DEF AckedMeansFinal, Settled
<1>1. CASE UNCHANGED <<state, retired, settlements, acked>>
  BY <1>1
<1>2. ASSUME state \notin Settled, UNCHANGED acked PROVE AckedMeansFinal'
  BY <1>2
<1>3. CASE RetireNoAuthority
  BY <1>2, <1>3 DEF RetireNoAuthority, CanRetire, Unstarted
<1>4. ASSUME NEW s \in Sessions, NEW d \in Digests, ClaimCommand(s, d)
      PROVE  AckedMeansFinal'
  <2>1. CASE ClaimRetired(d)
    BY <2>1 DEF ClaimRetired, jobVars, outboxVars, rowVars
  <2>2. CASE ClaimRetires(d)
    BY <2>2 DEF ClaimRetires, CanRetire, RetireLocked, Unstarted, TypeOK, rowVars
  <2>3. CASE ClaimObsolete(d)
    BY <2>3 DEF ClaimObsolete, jobVars, outboxVars, rowVars
  <2>4. CASE ClaimOnlyReleases(d)
    BY <1>1, <2>4 DEF ClaimOnlyReleases, jobVars, outboxVars, rowVars, history
  <2>5. CASE ClaimRetiresAtGrant(d)
    BY <2>5 DEF ClaimRetiresAtGrant, CanRetire, RetireLocked, MayGrant, Unstarted, TypeOK,
                rowVars
  <2>6. CASE ClaimGrants(s, d)
    <3>1. GrantFor(attempts + 1) = "RECOVER_SETTLEMENT" => state \in Settled /\ settlements # {}
      BY DEF GrantFor
    <3>2. UNCHANGED <<retired, settlements>>
      BY <2>6 DEF ClaimGrants, rowVars
    <3>3. state \in Settled => state' = state
      BY <2>6 DEF ClaimGrants, Unstarted
    <3>4. QED
      BY <2>6, <3>1, <3>2, <3>3 DEF ClaimGrants
  <2>7. QED
    BY <1>4, <2>1, <2>2, <2>3, <2>4, <2>5, <2>6 DEF ClaimCommand
<1>5. ASSUME NEW a \in Attempts, NEW r \in outputs, PrepareSettlement(a, r)
      PROVE  AckedMeansFinal'
  <2>1. settlements = {} /\ LiveFence(a) /\ UNCHANGED retired
    BY <1>5 DEF PrepareSettlement, outboxVars
  <2>2. authority
    BY <2>1, <1>5 DEF Lifecycle
  <2>3. acked \cap {"RETIRED_ACK"} = {}
    BY <2>2 DEF Lifecycle, TypeOK, Retirements
  <2>4. QED
    BY <1>5, <2>3 DEF PrepareSettlement, SettlementJobState, TypeOK, OutputRows
<1>6. QED
  BY <1>1, <1>2, <1>3, <1>4, <1>5
     DEF Next, StorePrepared, MarkPublished, QuarantineIndexMeta, Cancel,
         DeadlinePasses, LeaseExpires, DeliverInputs, AbortClaim, BeginExecution,
         AuthorizeInvocation, StoreOutput, MaterializeCancellation, vars, jobVars,
         outboxVars, claimVars, rowVars, history

LEMMA NextIInv == IInv /\ [Next]_vars => IInv'
  BY NextTypeOK, NextClaimRows, NextLifecycle, NextAtMostOneInvocation,
     NextNoReexecution, NextSettlementMatchesOutput, NextAckedMeansFinal
     DEF IInv

LEMMA Invariance == Spec => []IInv
  BY InitIInv, NextIInv, PTL DEF Spec

-----------------------------------------------------------------------------
(* The safety theorems. *)

\* At most one unreleased claim, always the newest attempt (ClaimValidation
\* closes an expired claim in the transaction that replaces it).
THEOREM SingleOwnerCorrect == Spec => []SingleOwner
<1>1. IInv => SingleOwner
  BY MaxClaimsAssumption DEF IInv, TypeOK, ClaimRows, SingleOwner, Active, Attempts
<1>2. QED
  BY <1>1, Invariance, PTL

\* At most one attempt of a generation is ever told AUTHORIZED_NOW.
THEOREM AtMostOneInvocationCorrect == Spec => []AtMostOneInvocation
<1>1. IInv => AtMostOneInvocation
  BY DEF IInv
<1>2. QED
  BY <1>1, Invariance, PTL

\* No claim is accepted for execution after an earlier attempt may have called
\* the SDK or stored a terminal output.
THEOREM NoReexecutionCorrect == Spec => []NoReexecution
<1>1. IInv => NoReexecution
  BY DEF IInv
<1>2. QED
  BY <1>1, Invariance, PTL

\* The retirement sweep and the grant of authority exclude each other.
THEOREM AuthorityExcludesRetirementCorrect == Spec => []AuthorityExcludesRetirement
<1>1. IInv => AuthorityExcludesRetirement
  BY DEF IInv, Lifecycle, AuthorityExcludesRetirement
<1>2. QED
  BY <1>1, Invariance, PTL

\* A job settles once, with the outcome of its one stored terminal output.
THEOREM SettlementMatchesOutputCorrect == Spec => []SettlementMatchesOutput
<1>1. IInv => SettlementMatchesOutput
  BY DEF IInv
<1>2. QED
  BY <1>1, Invariance, PTL

\* The bus message is acknowledged only for a generation with nothing left to do.
THEOREM AckedMeansFinalCorrect == Spec => []AckedMeansFinal
<1>1. IInv => AckedMeansFinal
  BY DEF IInv
<1>2. QED
  BY <1>1, Invariance, PTL
=============================================================================
