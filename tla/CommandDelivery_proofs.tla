------------------------ MODULE CommandDelivery_proofs ------------------------
(***************************************************************************)
(* TLAPS proofs about CommandDelivery, for every set of messages, every    *)
(* configuration and every number of deliveries.                           *)
(***************************************************************************)
EXTENDS CommandDelivery, TLAPS, FiniteSetTheorems

\* Only deliveries that were made are owned, heartbeated or answered, and an
\* undecodable message is never owned.
Bounded ==
    /\ \A d \in Deliveries : phase[d] # "NONE" => d[2] <= count[d[1]]
    /\ \A d \in Deliveries :
          d[1] \in Undecodable => phase[d] \notin Held \cup {"RETURNING"}
    /\ \A d \in Deliveries : phase[d] = "POISON" => d[1] \in Undecodable
    /\ \A m \in Messages : ledger[m] <= count[m]
    /\ \A m \in Undecodable : ledger[m] = 0
    /\ \A d \in answered : d[2] <= count[d[1]]
    /\ \A d \in round : d[1] \notin Undecodable

\* The gate is held while a round has something left to send, and what is about
\* to be answered has left the ledger and every round.
Gated ==
    /\ gate = "FREE" => round = {}
    /\ \A d \in Deliveries : phase[d] \in {"ANSWERING", "RETURNING"} =>
          /\ answerTo[d] \in 1 .. count[d[1]]
          /\ answerTo[d] # ledger[d[1]]
          /\ <<d[1], answerTo[d]>> \notin round

\* The inductive invariant.
IInv == TypeOK /\ Bounded /\ Gated /\ NotRunTwice /\ LedgerIsOwners /\ NoHeartbeatAfterAnswer

-----------------------------------------------------------------------------
(* Type correctness. *)

LEMMA DeliveryParts ==
  ASSUME NEW d \in Deliveries
  PROVE  d[1] \in Messages /\ d[2] \in 1 .. MaxDeliveries /\ d = <<d[1], d[2]>>
  BY DEF Deliveries

LEMMA PhaseNames ==
  /\ Held \subseteq Phases
  /\ {"NONE", "POISON", "ANSWERING", "RETURNING"} \subseteq Phases
  /\ {"NONE", "POISON", "ANSWERING", "RETURNING"} \cap Held = {}
  /\ {"BATCH", "QUEUED", "RUNNING", "DECIDED", "RETIRED"} = Held
  BY DEF Phases, Owning, Held

LEMMA InitIInv == Init => IInv
<1> SUFFICES ASSUME Init PROVE IInv
  OBVIOUS
<1>1. TypeOK
  <2>1. /\ beating \in BOOLEAN /\ stop \in BOOLEAN /\ up \in BOOLEAN
    BY Zenon DEF Init
  <2>2. /\ gate \in {"FREE", "ROUND"} /\ round \subseteq Deliveries
        /\ intake \in {"OPEN", "CLOSED"}
        /\ recorded \subseteq Messages /\ answered \subseteq Deliveries
    BY DEF Init
  <2>3. /\ server \in [Messages -> {"READY", "PENDING", "DELAYED", "GONE"}]
        /\ count \in [Messages -> 0 .. MaxDeliveries]
        /\ ledger \in [Messages -> 0 .. MaxDeliveries]
    BY MaxDeliveriesAssumption DEF Init
  <2>4. phase \in [Deliveries -> Phases]
    BY PhaseNames DEF Init
  <2>5. /\ answer \in [Deliveries -> Answers]
        /\ answerTo \in [Deliveries -> 0 .. MaxDeliveries]
    BY MaxDeliveriesAssumption DEF Init, Answers
  <2>6. QED
    BY <2>1, <2>2, <2>3, <2>4, <2>5 DEF TypeOK
<1>2. Bounded
  BY PhaseNames, UndecodableAssumption DEF Init, Bounded
<1>3. Gated
  BY DEF Init, Gated
<1>4. NotRunTwice /\ LedgerIsOwners /\ NoHeartbeatAfterAnswer
  BY PhaseNames DEF Init, NotRunTwice, LedgerIsOwners, NoHeartbeatAfterAnswer
<1>5. QED
  BY <1>1, <1>2, <1>3, <1>4 DEF IInv

\* What release_for_answer writes is well typed.
LEMMA ReleaseType ==
  ASSUME TypeOK, NEW d \in Deliveries, NEW next \in Phases, ReleaseForAnswer(d, next)
  PROVE  /\ ledger' \in [Messages -> 0 .. MaxDeliveries]
         /\ phase' \in [Deliveries -> Phases]
         /\ answerTo' \in [Deliveries -> 0 .. MaxDeliveries]
  BY DeliveryParts, MaxDeliveriesAssumption DEF ReleaseForAnswer, TypeOK

\* What a poison verdict writes is well typed.
LEMMA PoisonAnswerType ==
  ASSUME NEW w \in BOOLEAN, NEW t \in BOOLEAN
  PROVE  PoisonAnswer(w, t) \in Answers
  BY DEF PoisonAnswer, Answers

LEMMA NextTypeOK == TypeOK /\ Gated /\ [Next]_vars => TypeOK'
<1> SUFFICES ASSUME TypeOK, Gated, [Next]_vars PROVE TypeOK'
  OBVIOUS
<1> USE MaxDeliveriesAssumption, PhaseNames
<1> USE DEF serverVars, ownerVars, beatVars, processVars, history
<1>1. ASSUME NEW m \in Messages, Expire(m) PROVE TypeOK'
  BY <1>1 DEF TypeOK, Expire
<1>2. ASSUME NEW m \in Messages, DeliverElsewhere(m) PROVE TypeOK'
  BY <1>2 DEF TypeOK, DeliverElsewhere
<1>3. ASSUME NEW B \in SUBSET Messages, Fetch(B) PROVE TypeOK'
  <2>1. phase' \in [Deliveries -> Phases]
    BY <1>3 DEF TypeOK, Fetch
  <2>2. /\ server' \in [Messages -> {"READY", "PENDING", "DELAYED", "GONE"}]
        /\ count' \in [Messages -> 0 .. MaxDeliveries]
        /\ ledger' \in [Messages -> 0 .. MaxDeliveries]
    BY <1>3 DEF TypeOK, Fetch
  <2>3. QED
    BY <1>3, <2>1, <2>2 DEF TypeOK, Fetch
<1>4. ASSUME NEW d \in Deliveries, NEW w \in BOOLEAN, RecordIntakePoison(d, w) PROVE TypeOK'
  <2>1. PoisonAnswer(w, FALSE) \in Answers
    BY PoisonAnswerType
  <2>2. answer' \in [Deliveries -> Answers]
    BY <1>4, <2>1 DEF TypeOK, RecordIntakePoison
  <2>3. phase' \in [Deliveries -> Phases] /\ answerTo' \in [Deliveries -> 0 .. MaxDeliveries]
    BY <1>4, DeliveryParts DEF TypeOK, RecordIntakePoison
  <2>4. recorded' \subseteq Messages
    BY <1>4, DeliveryParts DEF TypeOK, RecordIntakePoison
  <2>5. QED
    BY <1>4, <2>2, <2>3, <2>4 DEF TypeOK, RecordIntakePoison
<1>5. ASSUME NEW d \in Deliveries, Enqueue(d) PROVE TypeOK'
  BY <1>5 DEF TypeOK, Enqueue
<1>6. ASSUME NEW d \in Deliveries, Start(d) PROVE TypeOK'
  BY <1>6 DEF TypeOK, Start
<1>7. ASSUME NEW d \in Deliveries, Retire(d) PROVE TypeOK'
  BY <1>7 DEF TypeOK, Retire, Answers
<1>8. ASSUME NEW d \in Deliveries, RetryLater(d) PROVE TypeOK'
  BY <1>8 DEF TypeOK, RetryLater, Answers
<1>9. ASSUME NEW d \in Deliveries, NEW w \in BOOLEAN, NEW t \in BOOLEAN, RecordPoison(d, w, t)
      PROVE  TypeOK'
  <2>1. PoisonAnswer(w, t) \in Answers
    BY PoisonAnswerType
  <2>2. QED
    BY <1>9, <2>1, DeliveryParts DEF TypeOK, RecordPoison
<1>10. ASSUME NEW d \in Deliveries, Release(d) PROVE TypeOK'
  BY <1>10, ReleaseType DEF TypeOK, Release
<1>11. ASSUME NEW d \in Deliveries, GiveBack(d) PROVE TypeOK'
  <2>1. answer' \in [Deliveries -> Answers]
    BY <1>11 DEF TypeOK, GiveBack, Answers
  <2>2. /\ ledger' \in [Messages -> 0 .. MaxDeliveries]
        /\ phase' \in [Deliveries -> Phases]
        /\ answerTo' \in [Deliveries -> 0 .. MaxDeliveries]
    BY <1>11, ReleaseType DEF GiveBack
  <2>3. QED
    BY <1>11, <2>1, <2>2 DEF TypeOK, GiveBack
<1>12. ASSUME NEW d \in Deliveries, DropRetired(d) PROVE TypeOK'
  <2>1. ledger' \in [Messages -> 0 .. MaxDeliveries]
    BY <1>12, DeliveryParts DEF TypeOK, DropRetired
  <2>2. phase' \in [Deliveries -> Phases]
    BY <1>12 DEF TypeOK, DropRetired
  <2>3. QED
    BY <1>12, <2>1, <2>2 DEF TypeOK, DropRetired
<1>13. ASSUME NEW d \in Deliveries, SendAnswer(d) PROVE TypeOK'
  <2>1. server' \in [Messages -> {"READY", "PENDING", "DELAYED", "GONE"}]
    BY <1>13 DEF TypeOK, SendAnswer, Answered
  <2>2. <<d[1], answerTo[d]>> \in Deliveries
    BY <1>13, DeliveryParts DEF TypeOK, Gated, SendAnswer, Deliveries
  <2>3. answered' \subseteq Deliveries
    BY <1>13, <2>2 DEF TypeOK, SendAnswer
  <2>4. QED
    BY <1>13, <2>1, <2>3 DEF TypeOK, SendAnswer, LedgerAfterAnswer, Answers
<1>14. CASE StartRound
  BY <1>14 DEF TypeOK, StartRound
<1>15. ASSUME NEW d \in Deliveries, SendProgress(d) PROVE TypeOK'
  BY <1>15 DEF TypeOK, SendProgress
<1>16. CASE EndRound
  BY <1>16 DEF TypeOK, EndRound
<1>17. CASE Stop
  BY <1>17 DEF TypeOK, Stop
<1>18. CASE CloseIntake
  BY <1>18 DEF TypeOK, CloseIntake
<1>19. CASE Exit
  <2>1. beating' \in BOOLEAN /\ up' \in BOOLEAN
    BY <1>19, Zenon DEF Exit
  <2>2. QED
    BY <1>19, <2>1 DEF TypeOK, Exit, Answers
<1>20. CASE UNCHANGED vars
  BY <1>20 DEF TypeOK, vars
<1>21. QED
  BY <1>1, <1>2, <1>3, <1>4, <1>5, <1>6, <1>7, <1>8, <1>9, <1>10, <1>11, <1>12, <1>13,
     <1>14, <1>15, <1>16, <1>17, <1>18, <1>19, <1>20 DEF Next

-----------------------------------------------------------------------------
(* Every other conjunct, action by action. *)

LEMMA NextBounded == TypeOK /\ Bounded /\ Gated /\ [Next]_vars => Bounded'
<1> SUFFICES ASSUME TypeOK, Bounded, Gated, [Next]_vars PROVE Bounded'
  OBVIOUS
<1> USE MaxDeliveriesAssumption, UndecodableAssumption, PhaseNames, DeliveryParts
<1> USE DEF serverVars, ownerVars, beatVars, processVars, history
<1>1. ASSUME NEW m \in Messages, Expire(m) PROVE Bounded'
  BY <1>1 DEF TypeOK, Bounded, Expire
<1>2. ASSUME NEW m \in Messages, DeliverElsewhere(m) PROVE Bounded'
  BY <1>2 DEF TypeOK, Bounded, DeliverElsewhere
<1>3. ASSUME NEW B \in SUBSET Messages, Fetch(B) PROVE Bounded'
  BY <1>3 DEF TypeOK, Bounded, Fetch, NewOwner
<1>4. ASSUME NEW d \in Deliveries, NEW w \in BOOLEAN, RecordIntakePoison(d, w) PROVE Bounded'
  BY <1>4 DEF TypeOK, Bounded, RecordIntakePoison
<1>5. ASSUME NEW d \in Deliveries, Enqueue(d) PROVE Bounded'
  BY <1>5 DEF TypeOK, Bounded, Enqueue
<1>6. ASSUME NEW d \in Deliveries, Start(d) PROVE Bounded'
  BY <1>6 DEF TypeOK, Bounded, Start
<1>7. ASSUME NEW d \in Deliveries, Retire(d) PROVE Bounded'
  BY <1>7 DEF TypeOK, Bounded, Retire
<1>8. ASSUME NEW d \in Deliveries, RetryLater(d) PROVE Bounded'
  BY <1>8 DEF TypeOK, Bounded, RetryLater
<1>9. ASSUME NEW d \in Deliveries, NEW w \in BOOLEAN, NEW t \in BOOLEAN, RecordPoison(d, w, t)
      PROVE  Bounded'
  BY <1>9 DEF TypeOK, Bounded, RecordPoison
<1>10. ASSUME NEW d \in Deliveries, Release(d) PROVE Bounded'
  BY <1>10 DEF TypeOK, Bounded, Release, ReleaseForAnswer
<1>11. ASSUME NEW d \in Deliveries, GiveBack(d) PROVE Bounded'
  <2>1. CASE ReleaseForAnswer(d, "ANSWERING")
    BY <1>11, <2>1 DEF TypeOK, Bounded, GiveBack, ReleaseForAnswer
  <2>2. CASE ReleaseForAnswer(d, "RETURNING")
    BY <1>11, <2>2 DEF TypeOK, Bounded, GiveBack, ReleaseForAnswer
  <2>3. QED
    BY <1>11, <2>1, <2>2 DEF GiveBack
<1>12. ASSUME NEW d \in Deliveries, DropRetired(d) PROVE Bounded'
  BY <1>12 DEF TypeOK, Bounded, DropRetired
<1>13. ASSUME NEW d \in Deliveries, SendAnswer(d) PROVE Bounded'
  BY <1>13 DEF TypeOK, Bounded, Gated, SendAnswer, LedgerAfterAnswer
<1>14. CASE StartRound
  BY <1>14 DEF TypeOK, Bounded, StartRound
<1>15. ASSUME NEW d \in Deliveries, SendProgress(d) PROVE Bounded'
  BY <1>15 DEF TypeOK, Bounded, SendProgress
<1>16. CASE EndRound
  BY <1>16 DEF TypeOK, Bounded, EndRound
<1>17. CASE Stop
  BY <1>17 DEF TypeOK, Bounded, Stop
<1>18. CASE CloseIntake
  BY <1>18 DEF TypeOK, Bounded, CloseIntake
<1>19. CASE Exit
  BY <1>19 DEF TypeOK, Bounded, Exit
<1>20. CASE UNCHANGED vars
  BY <1>20 DEF TypeOK, Bounded, vars
<1>21. QED
  BY <1>1, <1>2, <1>3, <1>4, <1>5, <1>6, <1>7, <1>8, <1>9, <1>10, <1>11, <1>12, <1>13,
     <1>14, <1>15, <1>16, <1>17, <1>18, <1>19, <1>20 DEF Next

LEMMA NextGated ==
  TypeOK /\ Bounded /\ Gated /\ LedgerIsOwners /\ [Next]_vars => Gated'
<1> SUFFICES ASSUME TypeOK, Bounded, Gated, LedgerIsOwners, [Next]_vars PROVE Gated'
  OBVIOUS
<1> USE MaxDeliveriesAssumption, UndecodableAssumption, PhaseNames, DeliveryParts
<1> USE DEF serverVars, ownerVars, beatVars, processVars, history
<1>1. ASSUME NEW m \in Messages, Expire(m) PROVE Gated'
  BY <1>1 DEF TypeOK, Gated, Expire
<1>2. ASSUME NEW m \in Messages, DeliverElsewhere(m) PROVE Gated'
  BY <1>2 DEF TypeOK, Gated, DeliverElsewhere
<1>3. ASSUME NEW B \in SUBSET Messages, Fetch(B) PROVE Gated'
  BY <1>3 DEF TypeOK, Gated, Bounded, Fetch, NewOwner
<1>4. ASSUME NEW d \in Deliveries, NEW w \in BOOLEAN, RecordIntakePoison(d, w) PROVE Gated'
  BY <1>4 DEF TypeOK, Gated, Bounded, RecordIntakePoison
<1>5. ASSUME NEW d \in Deliveries, Enqueue(d) PROVE Gated'
  BY <1>5 DEF TypeOK, Gated, Enqueue
<1>6. ASSUME NEW d \in Deliveries, Start(d) PROVE Gated'
  BY <1>6 DEF TypeOK, Gated, Start
<1>7. ASSUME NEW d \in Deliveries, Retire(d) PROVE Gated'
  BY <1>7 DEF TypeOK, Gated, Retire
<1>8. ASSUME NEW d \in Deliveries, RetryLater(d) PROVE Gated'
  BY <1>8 DEF TypeOK, Gated, RetryLater
<1>9. ASSUME NEW d \in Deliveries, NEW w \in BOOLEAN, NEW t \in BOOLEAN, RecordPoison(d, w, t)
      PROVE  Gated'
  BY <1>9 DEF TypeOK, Gated, RecordPoison
<1>10. ASSUME NEW d \in Deliveries, Release(d) PROVE Gated'
  BY <1>10 DEF TypeOK, Gated, Bounded, LedgerIsOwners, Release, ReleaseForAnswer
<1>11. ASSUME NEW d \in Deliveries, GiveBack(d) PROVE Gated'
  BY <1>11 DEF TypeOK, Gated, Bounded, LedgerIsOwners, GiveBack, ReleaseForAnswer
<1>12. ASSUME NEW d \in Deliveries, DropRetired(d) PROVE Gated'
  BY <1>12 DEF TypeOK, Gated, DropRetired
<1>13. ASSUME NEW d \in Deliveries, SendAnswer(d) PROVE Gated'
  BY <1>13 DEF TypeOK, Gated, SendAnswer, LedgerAfterAnswer
<1>14. CASE StartRound
  BY <1>14 DEF TypeOK, Gated, StartRound
<1>15. ASSUME NEW d \in Deliveries, SendProgress(d) PROVE Gated'
  BY <1>15 DEF TypeOK, Gated, SendProgress
<1>16. CASE EndRound
  BY <1>16 DEF TypeOK, Gated, EndRound
<1>17. CASE Stop
  BY <1>17 DEF TypeOK, Gated, Stop
<1>18. CASE CloseIntake
  BY <1>18 DEF TypeOK, Gated, CloseIntake
<1>19. CASE Exit
  BY <1>19 DEF TypeOK, Gated, Exit
<1>20. CASE UNCHANGED vars
  BY <1>20 DEF TypeOK, Gated, vars
<1>21. QED
  BY <1>1, <1>2, <1>3, <1>4, <1>5, <1>6, <1>7, <1>8, <1>9, <1>10, <1>11, <1>12, <1>13,
     <1>14, <1>15, <1>16, <1>17, <1>18, <1>19, <1>20 DEF Next

LEMMA NextNotRunTwice ==
  TypeOK /\ Bounded /\ LedgerIsOwners /\ NotRunTwice /\ [Next]_vars => NotRunTwice'
<1> SUFFICES ASSUME TypeOK, Bounded, LedgerIsOwners, NotRunTwice, [Next]_vars PROVE NotRunTwice'
  OBVIOUS
<1> USE MaxDeliveriesAssumption, UndecodableAssumption, PhaseNames, DeliveryParts
<1> USE DEF serverVars, ownerVars, beatVars, processVars, history
<1>1. ASSUME NEW m \in Messages, Expire(m) PROVE NotRunTwice'
  BY <1>1 DEF TypeOK, NotRunTwice, Expire
<1>2. ASSUME NEW m \in Messages, DeliverElsewhere(m) PROVE NotRunTwice'
  BY <1>2 DEF TypeOK, NotRunTwice, DeliverElsewhere
<1>3. ASSUME NEW B \in SUBSET Messages, Fetch(B) PROVE NotRunTwice'
  BY <1>3 DEF TypeOK, NotRunTwice, Bounded, LedgerIsOwners, Fetch, NewOwner
<1>4. ASSUME NEW d \in Deliveries, NEW w \in BOOLEAN, RecordIntakePoison(d, w)
      PROVE  NotRunTwice'
  BY <1>4 DEF TypeOK, NotRunTwice, RecordIntakePoison
<1>5. ASSUME NEW d \in Deliveries, Enqueue(d) PROVE NotRunTwice'
  BY <1>5 DEF TypeOK, NotRunTwice, Enqueue
<1>6. ASSUME NEW d \in Deliveries, Start(d) PROVE NotRunTwice'
  BY <1>6 DEF TypeOK, NotRunTwice, Start
<1>7. ASSUME NEW d \in Deliveries, Retire(d) PROVE NotRunTwice'
  BY <1>7 DEF TypeOK, NotRunTwice, Retire
<1>8. ASSUME NEW d \in Deliveries, RetryLater(d) PROVE NotRunTwice'
  BY <1>8 DEF TypeOK, NotRunTwice, RetryLater
<1>9. ASSUME NEW d \in Deliveries, NEW w \in BOOLEAN, NEW t \in BOOLEAN, RecordPoison(d, w, t)
      PROVE  NotRunTwice'
  BY <1>9 DEF TypeOK, NotRunTwice, RecordPoison
<1>10. ASSUME NEW d \in Deliveries, Release(d) PROVE NotRunTwice'
  BY <1>10 DEF TypeOK, NotRunTwice, Release, ReleaseForAnswer
<1>11. ASSUME NEW d \in Deliveries, GiveBack(d) PROVE NotRunTwice'
  BY <1>11 DEF TypeOK, NotRunTwice, GiveBack, ReleaseForAnswer
<1>12. ASSUME NEW d \in Deliveries, DropRetired(d) PROVE NotRunTwice'
  BY <1>12 DEF TypeOK, NotRunTwice, DropRetired
<1>13. ASSUME NEW d \in Deliveries, SendAnswer(d) PROVE NotRunTwice'
  BY <1>13 DEF TypeOK, NotRunTwice, SendAnswer, LedgerAfterAnswer
<1>14. CASE StartRound
  BY <1>14 DEF TypeOK, NotRunTwice, StartRound
<1>15. ASSUME NEW d \in Deliveries, SendProgress(d) PROVE NotRunTwice'
  BY <1>15 DEF TypeOK, NotRunTwice, SendProgress
<1>16. CASE EndRound
  BY <1>16 DEF TypeOK, NotRunTwice, EndRound
<1>17. CASE Stop
  BY <1>17 DEF TypeOK, NotRunTwice, Stop
<1>18. CASE CloseIntake
  BY <1>18 DEF TypeOK, NotRunTwice, CloseIntake
<1>19. CASE Exit
  BY <1>19 DEF TypeOK, NotRunTwice, Exit
<1>20. CASE UNCHANGED vars
  BY <1>20 DEF TypeOK, NotRunTwice, vars
<1>21. QED
  BY <1>1, <1>2, <1>3, <1>4, <1>5, <1>6, <1>7, <1>8, <1>9, <1>10, <1>11, <1>12, <1>13,
     <1>14, <1>15, <1>16, <1>17, <1>18, <1>19, <1>20 DEF Next

LEMMA NextLedgerIsOwners ==
  TypeOK /\ Bounded /\ NotRunTwice /\ LedgerIsOwners /\ [Next]_vars => LedgerIsOwners'
<1> SUFFICES ASSUME TypeOK, Bounded, NotRunTwice, LedgerIsOwners, [Next]_vars PROVE LedgerIsOwners'
  OBVIOUS
<1> USE MaxDeliveriesAssumption, UndecodableAssumption, PhaseNames, DeliveryParts
<1> USE DEF serverVars, ownerVars, beatVars, processVars, history
<1>1. ASSUME NEW m \in Messages, Expire(m) PROVE LedgerIsOwners'
  BY <1>1 DEF TypeOK, LedgerIsOwners, Expire
<1>2. ASSUME NEW m \in Messages, DeliverElsewhere(m) PROVE LedgerIsOwners'
  BY <1>2 DEF TypeOK, LedgerIsOwners, DeliverElsewhere
<1>3. ASSUME NEW B \in SUBSET Messages, Fetch(B) PROVE LedgerIsOwners'
  <2> SUFFICES ASSUME NEW m \in Messages
               PROVE  ledger'[m] # 0 <=> \E d \in Deliveries : d[1] = m /\ phase'[d] \in Held
    BY DEF LedgerIsOwners
  <2>1. \A d \in Deliveries : phase[d] \in Held => phase'[d] = phase[d]
    BY <1>3 DEF TypeOK, Bounded, Fetch, NewOwner
  <2>2. CASE m \in B \ Undecodable
    <3>1. ledger'[m] = count[m] + 1 /\ ledger'[m] # 0
      BY <1>3, <2>2 DEF TypeOK, Fetch
    <3>2. CASE ledger[m] # 0
      BY <2>1, <3>1, <3>2 DEF LedgerIsOwners
    <3>3. CASE ledger[m] = 0
      <4>1. <<m, count[m] + 1>> \in Deliveries
        BY <1>3, <2>2 DEF TypeOK, Fetch, Deliveries
      <4>2. phase'[<<m, count[m] + 1>>] = "BATCH"
        BY <1>3, <2>2, <3>3, <4>1 DEF TypeOK, Fetch, NewOwner
      <4>3. QED
        BY <3>1, <4>1, <4>2
    <3>4. QED
      BY <3>2, <3>3
  <2>3. CASE m \notin B \ Undecodable
    <3>1. ledger'[m] = ledger[m]
      BY <1>3, <2>3 DEF TypeOK, Fetch
    <3>2. \A d \in Deliveries : d[1] = m /\ phase'[d] \in Held => phase[d] \in Held
      BY <1>3, <2>3 DEF TypeOK, Fetch
    <3>3. QED
      BY <2>1, <3>1, <3>2 DEF LedgerIsOwners
  <2>4. QED
    BY <2>2, <2>3
<1>4. ASSUME NEW d \in Deliveries, NEW w \in BOOLEAN, RecordIntakePoison(d, w)
      PROVE  LedgerIsOwners'
  BY <1>4 DEF TypeOK, LedgerIsOwners, RecordIntakePoison
<1>5. ASSUME NEW d \in Deliveries, Enqueue(d) PROVE LedgerIsOwners'
  BY <1>5 DEF TypeOK, LedgerIsOwners, Enqueue
<1>6. ASSUME NEW d \in Deliveries, Start(d) PROVE LedgerIsOwners'
  BY <1>6 DEF TypeOK, LedgerIsOwners, Start
<1>7. ASSUME NEW d \in Deliveries, Retire(d) PROVE LedgerIsOwners'
  BY <1>7 DEF TypeOK, LedgerIsOwners, Retire
<1>8. ASSUME NEW d \in Deliveries, RetryLater(d) PROVE LedgerIsOwners'
  BY <1>8 DEF TypeOK, LedgerIsOwners, RetryLater
<1>9. ASSUME NEW d \in Deliveries, NEW w \in BOOLEAN, NEW t \in BOOLEAN, RecordPoison(d, w, t)
      PROVE  LedgerIsOwners'
  BY <1>9 DEF TypeOK, LedgerIsOwners, RecordPoison
<1>10. ASSUME NEW d \in Deliveries, Release(d) PROVE LedgerIsOwners'
  BY <1>10 DEF TypeOK, LedgerIsOwners, NotRunTwice, Release, ReleaseForAnswer
<1>11. ASSUME NEW d \in Deliveries, GiveBack(d) PROVE LedgerIsOwners'
  <2>1. CASE ReleaseForAnswer(d, "ANSWERING")
    BY <1>11, <2>1 DEF TypeOK, LedgerIsOwners, NotRunTwice, GiveBack, ReleaseForAnswer
  <2>2. CASE ReleaseForAnswer(d, "RETURNING")
    BY <1>11, <2>2 DEF TypeOK, LedgerIsOwners, NotRunTwice, GiveBack, ReleaseForAnswer
  <2>3. QED
    BY <1>11, <2>1, <2>2 DEF GiveBack
<1>12. ASSUME NEW d \in Deliveries, DropRetired(d) PROVE LedgerIsOwners'
  BY <1>12 DEF TypeOK, LedgerIsOwners, NotRunTwice, DropRetired
<1>13. ASSUME NEW d \in Deliveries, SendAnswer(d) PROVE LedgerIsOwners'
  BY <1>13 DEF TypeOK, LedgerIsOwners, SendAnswer, LedgerAfterAnswer
<1>14. CASE StartRound
  BY <1>14 DEF TypeOK, LedgerIsOwners, StartRound
<1>15. ASSUME NEW d \in Deliveries, SendProgress(d) PROVE LedgerIsOwners'
  BY <1>15 DEF TypeOK, LedgerIsOwners, SendProgress
<1>16. CASE EndRound
  BY <1>16 DEF TypeOK, LedgerIsOwners, EndRound
<1>17. CASE Stop
  BY <1>17 DEF TypeOK, LedgerIsOwners, Stop
<1>18. CASE CloseIntake
  BY <1>18 DEF TypeOK, LedgerIsOwners, CloseIntake
<1>19. CASE Exit
  BY <1>19 DEF TypeOK, LedgerIsOwners, Exit
<1>20. CASE UNCHANGED vars
  BY <1>20 DEF TypeOK, LedgerIsOwners, vars
<1>21. QED
  BY <1>1, <1>2, <1>3, <1>4, <1>5, <1>6, <1>7, <1>8, <1>9, <1>10, <1>11, <1>12, <1>13,
     <1>14, <1>15, <1>16, <1>17, <1>18, <1>19, <1>20 DEF Next

LEMMA NextNoHeartbeatAfterAnswer ==
  TypeOK /\ Bounded /\ Gated /\ NoHeartbeatAfterAnswer /\ [Next]_vars => NoHeartbeatAfterAnswer'
<1> SUFFICES ASSUME TypeOK, Bounded, Gated, NoHeartbeatAfterAnswer, [Next]_vars PROVE NoHeartbeatAfterAnswer'
  OBVIOUS
<1> USE MaxDeliveriesAssumption, UndecodableAssumption, PhaseNames, DeliveryParts
<1> USE DEF serverVars, ownerVars, beatVars, processVars, history
<1>1. ASSUME NEW m \in Messages, Expire(m) PROVE NoHeartbeatAfterAnswer'
  BY <1>1 DEF TypeOK, NoHeartbeatAfterAnswer, Expire
<1>2. ASSUME NEW m \in Messages, DeliverElsewhere(m) PROVE NoHeartbeatAfterAnswer'
  BY <1>2 DEF TypeOK, NoHeartbeatAfterAnswer, DeliverElsewhere
<1>3. ASSUME NEW B \in SUBSET Messages, Fetch(B) PROVE NoHeartbeatAfterAnswer'
  BY <1>3 DEF TypeOK, NoHeartbeatAfterAnswer, Bounded, Fetch, NewOwner
<1>4. ASSUME NEW d \in Deliveries, NEW w \in BOOLEAN, RecordIntakePoison(d, w)
      PROVE  NoHeartbeatAfterAnswer'
  BY <1>4 DEF TypeOK, NoHeartbeatAfterAnswer, RecordIntakePoison
<1>5. ASSUME NEW d \in Deliveries, Enqueue(d) PROVE NoHeartbeatAfterAnswer'
  BY <1>5 DEF TypeOK, NoHeartbeatAfterAnswer, Enqueue
<1>6. ASSUME NEW d \in Deliveries, Start(d) PROVE NoHeartbeatAfterAnswer'
  BY <1>6 DEF TypeOK, NoHeartbeatAfterAnswer, Start
<1>7. ASSUME NEW d \in Deliveries, Retire(d) PROVE NoHeartbeatAfterAnswer'
  BY <1>7 DEF TypeOK, NoHeartbeatAfterAnswer, Retire
<1>8. ASSUME NEW d \in Deliveries, RetryLater(d) PROVE NoHeartbeatAfterAnswer'
  BY <1>8 DEF TypeOK, NoHeartbeatAfterAnswer, RetryLater
<1>9. ASSUME NEW d \in Deliveries, NEW w \in BOOLEAN, NEW t \in BOOLEAN, RecordPoison(d, w, t)
      PROVE  NoHeartbeatAfterAnswer'
  BY <1>9 DEF TypeOK, NoHeartbeatAfterAnswer, RecordPoison
<1>10. ASSUME NEW d \in Deliveries, Release(d) PROVE NoHeartbeatAfterAnswer'
  BY <1>10 DEF TypeOK, NoHeartbeatAfterAnswer, Deliveries, Release, ReleaseForAnswer
<1>11. ASSUME NEW d \in Deliveries, GiveBack(d) PROVE NoHeartbeatAfterAnswer'
  BY <1>11 DEF TypeOK, NoHeartbeatAfterAnswer, Deliveries, GiveBack, ReleaseForAnswer
<1>12. ASSUME NEW d \in Deliveries, DropRetired(d) PROVE NoHeartbeatAfterAnswer'
  BY <1>12 DEF TypeOK, NoHeartbeatAfterAnswer, Deliveries, DropRetired
<1>13. ASSUME NEW d \in Deliveries, SendAnswer(d) PROVE NoHeartbeatAfterAnswer'
  BY <1>13 DEF TypeOK, NoHeartbeatAfterAnswer, Gated, SendAnswer, LedgerAfterAnswer
<1>14. CASE StartRound
  BY <1>14 DEF TypeOK, NoHeartbeatAfterAnswer, StartRound
<1>15. ASSUME NEW d \in Deliveries, SendProgress(d) PROVE NoHeartbeatAfterAnswer'
  BY <1>15 DEF TypeOK, NoHeartbeatAfterAnswer, SendProgress
<1>16. CASE EndRound
  BY <1>16 DEF TypeOK, NoHeartbeatAfterAnswer, EndRound
<1>17. CASE Stop
  BY <1>17 DEF TypeOK, NoHeartbeatAfterAnswer, Stop
<1>18. CASE CloseIntake
  BY <1>18 DEF TypeOK, NoHeartbeatAfterAnswer, CloseIntake
<1>19. CASE Exit
  BY <1>19 DEF TypeOK, NoHeartbeatAfterAnswer, Deliveries, Exit
<1>20. CASE UNCHANGED vars
  BY <1>20 DEF TypeOK, NoHeartbeatAfterAnswer, vars
<1>21. QED
  BY <1>1, <1>2, <1>3, <1>4, <1>5, <1>6, <1>7, <1>8, <1>9, <1>10, <1>11, <1>12, <1>13,
     <1>14, <1>15, <1>16, <1>17, <1>18, <1>19, <1>20 DEF Next

LEMMA NextPoisonIsRecorded ==
  TypeOK /\ PoisonIsRecorded /\ [Next]_vars => PoisonIsRecorded'
<1> SUFFICES ASSUME TypeOK, PoisonIsRecorded, [Next]_vars PROVE PoisonIsRecorded'
  OBVIOUS
<1> USE MaxDeliveriesAssumption, UndecodableAssumption, PhaseNames, DeliveryParts
<1> USE DEF serverVars, ownerVars, beatVars, processVars, history
<1>1. ASSUME NEW m \in Messages, Expire(m) PROVE PoisonIsRecorded'
  BY <1>1 DEF TypeOK, PoisonIsRecorded, Expire
<1>2. ASSUME NEW m \in Messages, DeliverElsewhere(m) PROVE PoisonIsRecorded'
  BY <1>2 DEF TypeOK, PoisonIsRecorded, DeliverElsewhere
<1>3. ASSUME NEW B \in SUBSET Messages, Fetch(B) PROVE PoisonIsRecorded'
  BY <1>3 DEF TypeOK, PoisonIsRecorded, Fetch, NewOwner
<1>4. ASSUME NEW d \in Deliveries, NEW w \in BOOLEAN, RecordIntakePoison(d, w)
      PROVE  PoisonIsRecorded'
  BY <1>4 DEF TypeOK, PoisonIsRecorded, PoisonAnswer, RecordIntakePoison
<1>5. ASSUME NEW d \in Deliveries, Enqueue(d) PROVE PoisonIsRecorded'
  BY <1>5 DEF TypeOK, PoisonIsRecorded, Enqueue
<1>6. ASSUME NEW d \in Deliveries, Start(d) PROVE PoisonIsRecorded'
  BY <1>6 DEF TypeOK, PoisonIsRecorded, Start
<1>7. ASSUME NEW d \in Deliveries, Retire(d) PROVE PoisonIsRecorded'
  BY <1>7 DEF TypeOK, PoisonIsRecorded, Retire
<1>8. ASSUME NEW d \in Deliveries, RetryLater(d) PROVE PoisonIsRecorded'
  BY <1>8 DEF TypeOK, PoisonIsRecorded, RetryLater
<1>9. ASSUME NEW d \in Deliveries, NEW w \in BOOLEAN, NEW t \in BOOLEAN, RecordPoison(d, w, t)
      PROVE  PoisonIsRecorded'
  BY <1>9 DEF TypeOK, PoisonIsRecorded, PoisonAnswer, RecordPoison
<1>10. ASSUME NEW d \in Deliveries, Release(d) PROVE PoisonIsRecorded'
  BY <1>10 DEF TypeOK, PoisonIsRecorded, Release, ReleaseForAnswer
<1>11. ASSUME NEW d \in Deliveries, GiveBack(d) PROVE PoisonIsRecorded'
  BY <1>11 DEF TypeOK, PoisonIsRecorded, GiveBack, ReleaseForAnswer
<1>12. ASSUME NEW d \in Deliveries, DropRetired(d) PROVE PoisonIsRecorded'
  BY <1>12 DEF TypeOK, PoisonIsRecorded, DropRetired
<1>13. ASSUME NEW d \in Deliveries, SendAnswer(d) PROVE PoisonIsRecorded'
  BY <1>13 DEF TypeOK, PoisonIsRecorded, SendAnswer, LedgerAfterAnswer
<1>14. CASE StartRound
  BY <1>14 DEF TypeOK, PoisonIsRecorded, StartRound
<1>15. ASSUME NEW d \in Deliveries, SendProgress(d) PROVE PoisonIsRecorded'
  BY <1>15 DEF TypeOK, PoisonIsRecorded, SendProgress
<1>16. CASE EndRound
  BY <1>16 DEF TypeOK, PoisonIsRecorded, EndRound
<1>17. CASE Stop
  BY <1>17 DEF TypeOK, PoisonIsRecorded, Stop
<1>18. CASE CloseIntake
  BY <1>18 DEF TypeOK, PoisonIsRecorded, CloseIntake
<1>19. CASE Exit
  BY <1>19 DEF TypeOK, PoisonIsRecorded, Exit
<1>20. CASE UNCHANGED vars
  BY <1>20 DEF TypeOK, PoisonIsRecorded, vars
<1>21. QED
  BY <1>1, <1>2, <1>3, <1>4, <1>5, <1>6, <1>7, <1>8, <1>9, <1>10, <1>11, <1>12, <1>13,
     <1>14, <1>15, <1>16, <1>17, <1>18, <1>19, <1>20 DEF Next

-----------------------------------------------------------------------------
(* Capacity: only a fetch makes owners, and no more than there are permits. *)

\* The owners of a process, and their number.
Owned == IsFiniteSet(In(Owning)) /\ CapacityRespected

\* Owners that are let go of, or go on, stay within the capacity.
LEMMA FewerOwners ==
  ASSUME Owned, In(Owning)' \subseteq In(Owning)
  PROVE  Owned'
<1>1. /\ IsFiniteSet(In(Owning)') /\ IsFiniteSet(In(Owning))
      /\ Cardinality(In(Owning)') <= Cardinality(In(Owning))
  BY FS_Subset DEF Owned
<1>2. Cardinality(In(Owning)') \in Nat /\ Cardinality(In(Owning)) \in Nat /\ OwnershipCapacity \in Nat
  BY <1>1, FS_CardinalityType, ConfigAssumption DEF OwnershipCapacity, Prefetch
<1>3. Cardinality(In(Owning)') <= OwnershipCapacity
  BY <1>1, <1>2 DEF Owned, CapacityRespected
<1> QED
  BY <1>1, <1>3 DEF Owned, CapacityRespected, OwnershipCapacity, Prefetch

\* A fetch takes permits for its batch before it makes the owners.
LEMMA FetchWithinCapacity ==
  ASSUME TypeOK, Owned, NEW B \in SUBSET Messages, Fetch(B)
  PROVE  Owned'
<1> DEFINE old == In(Owning)
           new == {d \in Deliveries : d[1] \in B /\ d[2] = count[d[1]] + 1}
           f == [d \in new |-> d[1]]
<1>1. IsFiniteSet(old) /\ Cardinality(old) \in Nat /\ Cardinality(old) <= OwnershipCapacity
  BY FS_CardinalityType DEF Owned, CapacityRespected
<1>2. IsFiniteSet(B) /\ Cardinality(B) \in Nat
  BY MessagesAssumption, FS_Subset, FS_CardinalityType
<1>3. IsFiniteSet(new) /\ Cardinality(new) \in Nat /\ Cardinality(new) <= Cardinality(B)
  <2>1. f \in Injection(new, B)
    <3>1. f \in [new -> B]
      OBVIOUS
    <3>2. ASSUME NEW d \in new, NEW e \in new, f[d] = f[e]
          PROVE  d = e
      BY <3>2, DeliveryParts
    <3> QED
      BY <3>1, <3>2 DEF Injection, IsInjective
  <2> HIDE DEF f, new
  <2> QED
    BY <1>2, <2>1, FS_Injection, FS_CardinalityType
<1>4. In(Owning)' \subseteq old \cup new
  <2>1. SUFFICES ASSUME NEW d \in Deliveries, d[1] \notin Undecodable, phase'[d] \in Owning
                 PROVE  d \in old \cup new
    BY DEF In
  <2>2. CASE d[1] \notin B \/ d[2] # count[d[1]] + 1
    BY <2>1, <2>2 DEF Fetch, In
  <2>3. CASE d[1] \in B /\ d[2] = count[d[1]] + 1
    BY <2>1, <2>3
  <2> QED
    BY <2>2, <2>3
<1> HIDE DEF old, new
<1>5. IsFiniteSet(old \cup new) /\ Cardinality(old \cup new) <= Cardinality(old) + Cardinality(new)
  <2>1. IsFiniteSet(old \cap new)
    BY <1>1, FS_Subset
  <2>2. Cardinality(old \cap new) \in Nat
    BY <2>1, FS_CardinalityType
  <2>3. /\ IsFiniteSet(old \cup new)
        /\ Cardinality(old \cup new) = Cardinality(old) + Cardinality(new) - Cardinality(old \cap new)
    BY <1>1, <1>3, FS_Union
  <2> QED
    BY <1>1, <1>3, <2>2, <2>3
<1>6. Cardinality(B) <= OwnershipCapacity - Cardinality(old)
  BY DEF Fetch, FreePermits, old
<1>7. /\ IsFiniteSet(In(Owning)') /\ Cardinality(In(Owning)') \in Nat
      /\ Cardinality(In(Owning)') <= Cardinality(old \cup new) /\ Cardinality(old \cup new) \in Nat
  BY <1>4, <1>5, FS_Subset, FS_CardinalityType
<1>8. OwnershipCapacity \in Nat
  BY ConfigAssumption DEF OwnershipCapacity, Prefetch
<1>9. Cardinality(In(Owning)') <= OwnershipCapacity
  BY <1>1, <1>2, <1>3, <1>5, <1>6, <1>7, <1>8
<1> QED
  BY <1>7, <1>9 DEF Owned, CapacityRespected, OwnershipCapacity, Prefetch

\* A step of one delivery that is owned already, or of poison.
LEMMA OneDelivery ==
  ASSUME TypeOK, Owned, NEW d \in Deliveries, phase[d] \in Owning \/ d[1] \in Undecodable,
         NEW p, phase' = [phase EXCEPT ![d] = p]
  PROVE  Owned'
<1>1. In(Owning)' \subseteq In(Owning)
  BY DEF In, TypeOK
<1> QED
  BY <1>1, FewerOwners

LEMMA NextOwned == IInv /\ Owned /\ [Next]_vars => Owned'
<1> SUFFICES ASSUME IInv, Owned, [Next]_vars PROVE Owned'
  OBVIOUS
<1>1. TypeOK /\ {"BATCH", "QUEUED", "RUNNING", "DECIDED", "RETIRED", "ANSWERING", "RETURNING"} = Owning
  BY DEF IInv, Owning, Held
<1>2. ASSUME UNCHANGED phase
      PROVE  Owned'
  BY <1>2, FewerOwners DEF In
<1>3. ASSUME NEW B \in SUBSET Messages, Fetch(B)
      PROVE  Owned'
  BY <1>1, <1>3, FetchWithinCapacity
<1>4. ASSUME NEW d \in Deliveries, NEW written \in BOOLEAN, RecordIntakePoison(d, written)
      PROVE  Owned'
  BY <1>1, <1>4, OneDelivery DEF RecordIntakePoison, IInv, Bounded
<1>5. ASSUME NEW d \in Deliveries, Enqueue(d) \/ Start(d) \/ RetryLater(d) \/ DropRetired(d) \/ SendAnswer(d)
      PROVE  Owned'
  BY <1>1, <1>5, OneDelivery DEF Enqueue, Start, RetryLater, DropRetired, SendAnswer
<1>6. ASSUME NEW d \in Deliveries, Retire(d)
      PROVE  Owned'
  BY <1>1, <1>6, OneDelivery DEF Retire
<1>7. ASSUME NEW d \in Deliveries, NEW written \in BOOLEAN, NEW terminates \in BOOLEAN,
             RecordPoison(d, written, terminates)
      PROVE  Owned'
  BY <1>1, <1>7, OneDelivery DEF RecordPoison
<1>8. ASSUME NEW d \in Deliveries, Release(d) \/ GiveBack(d)
      PROVE  Owned'
  BY <1>1, <1>8, OneDelivery DEF Release, GiveBack, ReleaseForAnswer
<1>9. CASE Exit
  <2>1. In(Owning)' = {}
    BY <1>9 DEF Exit, In, Owning, Held
  <2> QED
    BY <2>1, FewerOwners
<1>10. ASSUME NEW m \in Messages, Expire(m) \/ DeliverElsewhere(m)
       PROVE  Owned'
  BY <1>2, <1>10 DEF Expire, DeliverElsewhere, ownerVars
<1>11. ASSUME NEW d \in Deliveries, SendProgress(d)
       PROVE  Owned'
  BY <1>2, <1>11 DEF SendProgress, ownerVars
<1>12. CASE StartRound \/ EndRound \/ Stop \/ CloseIntake \/ UNCHANGED vars
  BY <1>2, <1>12 DEF StartRound, EndRound, Stop, CloseIntake, vars, ownerVars
<1> QED
  BY <1>3, <1>4, <1>5, <1>6, <1>7, <1>8, <1>9, <1>10, <1>11, <1>12 DEF Next

-----------------------------------------------------------------------------
(* The invariants of the specification. *)

LEMMA NextIInv == IInv /\ [Next]_vars => IInv'
  BY NextTypeOK, NextBounded, NextGated, NextNotRunTwice, NextLedgerIsOwners,
     NextNoHeartbeatAfterAnswer
  DEF IInv

LEMMA DeliveryInvariance == Spec => []IInv
<1>1. Init => IInv
  BY InitIInv
<1>2. IInv /\ [Next]_vars => IInv'
  BY NextIInv
<1>3. QED
  BY <1>1, <1>2, PTL DEF Spec

\* The intake's state keeps its types; that a finished owner has a reply subject
\* to answer (answered holds real deliveries) needs the gate's invariant.
THEOREM DeliveryTypeCorrect == Spec => []TypeOK
<1>1. IInv => TypeOK
  BY DEF IInv
<1>2. QED
  BY <1>1, DeliveryInvariance, PTL

\* A redelivered message is never run beside its first delivery, whatever the
\* batch and queue sizes and however often it is redelivered (bind_deliveries).
THEOREM NotRunTwiceCorrect == Spec => []NotRunTwice
<1>1. IInv => NotRunTwice
  BY DEF IInv
<1>2. QED
  BY <1>1, DeliveryInvariance, PTL

\* The ledger the heartbeat reads holds exactly the messages that are queued or
\* running (bind_deliveries, release_for_answer, Drop).
THEOREM LedgerIsOwnersCorrect == Spec => []LedgerIsOwners
<1>1. IInv => LedgerIsOwners
  BY DEF IInv
<1>2. QED
  BY <1>1, DeliveryInvariance, PTL

\* No +WPI follows a delayed nak or a term on the same reply subject
\* (heartbeat_owned and release_for_answer share the gate).
THEOREM NoHeartbeatAfterAnswerCorrect == Spec => []NoHeartbeatAfterAnswer
<1>1. IInv => NoHeartbeatAfterAnswer
  BY DEF IInv
<1>2. QED
  BY <1>1, DeliveryInvariance, PTL

\* Poison is parked or terminated only once its dead-letter record is written
\* (record_poison).
THEOREM PoisonIsRecordedCorrect == Spec => []PoisonIsRecorded
<1>1. Init => PoisonIsRecorded
  BY DEF Init, PoisonIsRecorded
<1>2. TypeOK /\ PoisonIsRecorded /\ [Next]_vars => PoisonIsRecorded'
  BY NextPoisonIsRecorded
<1>3. QED
  BY <1>1, <1>2, DeliveryTypeCorrect, PTL DEF Spec

\* Every answer goes to the newest delivery this process received: only a release
\* decides where, and an owner that is released is in the ledger
\* (release_for_answer).
THEOREM AnswersNewestCorrect == Spec => AnswersNewest
<1> DEFINE A == \A d \in Deliveries :
                  /\ phase'[d] \in {"ANSWERING", "RETURNING"} /\ phase[d] # phase'[d]
                  /\ d[1] \notin Undecodable
                  => answerTo'[d] = ledger[d[1]]
<1>1. IInv /\ [Next]_vars => [A]_vars
  <2> SUFFICES ASSUME IInv, Next, NEW d \in Deliveries,
                      phase'[d] \in {"ANSWERING", "RETURNING"}, phase[d] # phase'[d],
                      d[1] \notin Undecodable
               PROVE  answerTo'[d] = ledger[d[1]]
    OBVIOUS
  <2> USE PhaseNames, DeliveryParts
  <2> USE DEF serverVars, ownerVars, beatVars, processVars, history
  <2>1. ledger[d[1]] # 0 <=> \E e \in Deliveries : e[1] = d[1] /\ phase[e] \in Held
    BY DEF IInv, LedgerIsOwners
  <2>2. CASE \E e \in Deliveries : Release(e) \/ GiveBack(e)
    BY <2>1, <2>2 DEF IInv, TypeOK, Release, GiveBack, ReleaseForAnswer
  <2>3. CASE \E e \in Deliveries, w \in BOOLEAN : RecordIntakePoison(e, w)
    BY <2>3 DEF IInv, TypeOK, Bounded, RecordIntakePoison
  <2>4. CASE \E m \in Messages : Expire(m) \/ DeliverElsewhere(m)
    BY <2>4 DEF Expire, DeliverElsewhere
  <2>5. CASE \E B \in SUBSET Messages : Fetch(B)
    BY <2>5 DEF IInv, TypeOK, Fetch
  <2>6. CASE \E e \in Deliveries : Enqueue(e) \/ Start(e) \/ DropRetired(e)
    BY <2>6 DEF IInv, TypeOK, Enqueue, Start, DropRetired
  <2>7. CASE \E e \in Deliveries : Retire(e) \/ RetryLater(e) \/ SendAnswer(e)
    BY <2>7 DEF IInv, TypeOK, Retire, RetryLater, SendAnswer
  <2>8. CASE \E e \in Deliveries, w, u \in BOOLEAN : RecordPoison(e, w, u)
    BY <2>8 DEF IInv, TypeOK, RecordPoison
  <2>9. CASE \E e \in Deliveries : SendProgress(e)
    BY <2>9 DEF SendProgress
  <2>10. CASE StartRound \/ EndRound \/ Stop \/ CloseIntake
    BY <2>10 DEF StartRound, EndRound, Stop, CloseIntake
  <2>11. CASE Exit
    BY <2>11 DEF Exit
  <2>12. QED
    BY <2>2, <2>3, <2>4, <2>5, <2>6, <2>7, <2>8, <2>9, <2>10, <2>11 DEF Next
<1>2. QED
  BY <1>1, DeliveryInvariance, PTL DEF Spec, AnswersNewest

\* One process never owns more than it can run plus one prefetched pull, whatever
\* the configuration and however many messages there are (reserve_capacity).
THEOREM CapacityRespectedCorrect == Spec => []CapacityRespected
<1>1. Init => Owned
  <2> SUFFICES ASSUME Init PROVE Owned
    OBVIOUS
  <2>1. In(Owning) = {}
    BY DEF Init, In, Owning, Held
  <2>2. IsFiniteSet(In(Owning)) /\ Cardinality(In(Owning)) = 0
    BY <2>1, FS_EmptySet
  <2>3. OwnershipCapacity \in Nat
    BY ConfigAssumption DEF OwnershipCapacity, Prefetch
  <2>4. Cardinality(In(Owning)) <= OwnershipCapacity
    BY <2>2, <2>3
  <2> QED
    BY <2>2, <2>4 DEF Owned, CapacityRespected
<1>2. IInv /\ Owned /\ [Next]_vars => Owned'
  BY NextOwned
<1>3. Owned => CapacityRespected
  BY DEF Owned
<1>4. QED
  BY <1>1, <1>2, <1>3, DeliveryInvariance, PTL DEF Spec

=============================================================================
