------------------------ MODULE RequestPublisher_proofs ------------------------
(***************************************************************************)
(* What holds of RequestPublisher for every number of attempts, every pair *)
(* of delays, every window and every number of messages.                   *)
(***************************************************************************)
EXTENDS RequestPublisher, DataLemmas

\* How far an attempt has got is what it holds; the three pointers go in the
\* opposite order of their creation.
Held ==
    CASE pc = "context"  -> resources = {}
      [] pc = "vhost"    -> resources = {"context"}
      [] pc = "producer" -> resources = {"context", "vhost"}
      [] pc = "cleanup"  -> resources \in {{}, {"context"}, {"context", "vhost"}}
      [] pc = "release"  -> resources \in {{}, {"context"}, {"context", "vhost"}, Resources}
      [] pc \in {"retry", "threw", "destroyed"} -> resources = {}
      [] OTHER           -> resources = Resources

\* Only an attempt that is not the last is followed by another.
MayRetry == pc = "retry" => attempt < MaxAttempts

TypeInv == TypeOK /\ Held /\ MayRetry

\* Every message is in one place.
Accounted ==
    tally.handed = tally.unconfirmed + tally.acked + tally.nacked + tally.refused
                   + tally.abandoned + (IF pc = "send" THEN 1 ELSE 0)

\* Only a flush that failed leaves something to abandon.
AbandonedOnlyAfterFailure ==
    /\ ~flushFailed => tally.abandoned = 0
    /\ pc = "release" /\ ~flushFailed => tally.unconfirmed = 0
    /\ "producer" \notin resources => tally.unconfirmed = 0

IInv == TypeInv /\ Accounted /\ AbandonedOnlyAfterFailure

-----------------------------------------------------------------------------
LEMMA NextDelayBounded ==
    ASSUME delay \in 0..MaxDelay
    PROVE  NextDelay \in 0..MaxDelay
BY PublisherAssumption DEF PublisherAssumption, NextDelay

\* A confirm moves one message from unconfirmed to acked or nacked.
LEMMA ConfirmCounts ==
    ASSUME tally \in Tallies, NEW status \in {"acked", "nacked"}, Confirm(status)
    PROVE  /\ tally' \in Tallies
           /\ tally'.handed = tally.handed
           /\ tally'.unconfirmed = tally.unconfirmed - 1
           /\ tally'.acked + tally'.nacked = tally.acked + tally.nacked + 1
           /\ tally'.refused = tally.refused
           /\ tally'.abandoned = tally.abandoned
<1> DEFINE taken == [tally EXCEPT !.unconfirmed = @ - 1]
<1>1. taken \in Tallies
  BY DEF Confirm, Tallies
<1>2. /\ taken.handed = tally.handed /\ taken.unconfirmed = tally.unconfirmed - 1
      /\ taken.acked = tally.acked /\ taken.nacked = tally.nacked
      /\ taken.refused = tally.refused /\ taken.abandoned = tally.abandoned
  BY DEF Tallies
<1>3. tally' = [taken EXCEPT ![status] = @ + 1]
  BY DEF Confirm
<1> HIDE DEF taken
<1>4. CASE status = "acked"
  BY <1>1, <1>2, <1>3, <1>4 DEF Tallies
<1>5. CASE status = "nacked"
  BY <1>1, <1>2, <1>3, <1>5 DEF Tallies
<1> QED
  BY <1>4, <1>5

\* Releasing the producer turns what is unconfirmed into what is abandoned.
LEMMA ReleaseCounts ==
    ASSUME tally \in Tallies, ReleaseProducer
    PROVE  /\ tally' \in Tallies
           /\ tally'.unconfirmed = 0
           /\ tally'.abandoned = tally.abandoned + tally.unconfirmed
           /\ tally'.handed = tally.handed
           /\ tally'.acked = tally.acked
           /\ tally'.nacked = tally.nacked
           /\ tally'.refused = tally.refused
<1> DEFINE emptied == [tally EXCEPT !.unconfirmed = 0]
<1>1. emptied \in Tallies /\ tally.unconfirmed \in Nat
  BY DEF Tallies
<1>2. /\ emptied.handed = tally.handed /\ emptied.unconfirmed = 0
      /\ emptied.acked = tally.acked /\ emptied.nacked = tally.nacked
      /\ emptied.refused = tally.refused /\ emptied.abandoned = tally.abandoned
  BY DEF Tallies
<1>3. tally' = [emptied EXCEPT !.abandoned = @ + tally.unconfirmed]
  BY DEF ReleaseProducer
<1> HIDE DEF emptied
<1> QED
  BY <1>1, <1>2, <1>3 DEF Tallies

\* Each step of the program, with what it does to the types and the resources.
LEMMA TypeStep ==
    ASSUME TypeInv, [Next]_vars
    PROVE  TypeInv'
<1> USE PublisherAssumption DEF PublisherAssumption, TypeInv, TypeOK, Tallies, Held,
        MayRetry, Constructing, Closing, Resources
<1>1. CASE CreateContext
  BY <1>1 DEF CreateContext, Obtain
<1>2. CASE CreateVHost
  BY <1>2 DEF CreateVHost, Obtain
<1>3. CASE CreateProducer
  BY <1>3 DEF CreateProducer, Obtain
<1>4. CASE AttemptFails
  BY <1>4 DEF AttemptFails
<1>5. CASE Cleanup
  <2>1. CASE ReleaseVHost("cleanup")
    <3>1. resources = {"context", "vhost"} /\ resources' = {"context"}
      BY <2>1 DEF ReleaseVHost
    <3> QED
      BY <2>1, <3>1 DEF ReleaseVHost
  <2>2. CASE ReleaseContext("cleanup", IF attempt = MaxAttempts THEN "threw" ELSE "retry")
    <3>1. resources \in {{}, {"context"}} /\ resources' = {}
      BY <2>2 DEF ReleaseContext
    <3> QED
      BY <2>2, <3>1 DEF ReleaseContext
  <2> QED
    BY <1>5, <2>1, <2>2 DEF Cleanup
<1>6. CASE Retry
  <2>1. attempt' \in 1..MaxAttempts
    BY <1>6 DEF Retry
  <2>2. delay' \in 0..MaxDelay
    BY <1>6, NextDelayBounded DEF Retry
  <2> QED
    BY <1>6, <2>1, <2>2 DEF Retry
<1>7. CASE Publish
  BY <1>7 DEF Publish
<1>8. CASE Sent
  BY <1>8 DEF Sent
<1>9. CASE SendRefused
  BY <1>9 DEF SendRefused
<1>10. CASE Broker
  <2> PICK status \in {"acked", "nacked"} : Confirm(status)
    BY <1>10 DEF Broker
  <2>1. tally' \in Tallies
    BY ConfirmCounts
  <2> QED
    BY <2>1 DEF Confirm
<1>11. CASE Close
  BY <1>11 DEF Close
<1>12. CASE WaitForConfirms
  BY <1>12 DEF WaitForConfirms
<1>13. CASE WaitForConfirmsFails
  BY <1>13 DEF WaitForConfirmsFails
<1>14. CASE ReleaseProducer
  <2>1. resources = {"context", "vhost", "producer"}
    BY <1>14 DEF ReleaseProducer
  <2>2. resources' = {"context", "vhost"}
    BY <1>14, <2>1 DEF ReleaseProducer
  <2>3. tally' \in Tallies
    BY <1>14, ReleaseCounts
  <2> QED
    BY <1>14, <2>2, <2>3 DEF ReleaseProducer
<1>15. CASE ReleaseVHost("release")
  <2>1. resources = {"context", "vhost"} /\ resources' = {"context"}
    BY <1>15 DEF ReleaseVHost
  <2> QED
    BY <1>15, <2>1 DEF ReleaseVHost
<1>16. CASE ReleaseContext("release", "destroyed")
  <2>1. resources \in {{}, {"context"}} /\ resources' = {}
    BY <1>16 DEF ReleaseContext
  <2> QED
    BY <1>16, <2>1 DEF ReleaseContext
<1>17. CASE UNCHANGED vars
  BY <1>17 DEF vars
<1> QED
  BY <1>1, <1>2, <1>3, <1>4, <1>5, <1>6, <1>7, <1>8, <1>9, <1>10, <1>11, <1>12,
     <1>13, <1>14, <1>15, <1>16, <1>17
     DEF Next, Constructor, Destructor, Finished

LEMMA InvStep ==
    ASSUME IInv, [Next]_vars
    PROVE  IInv'
<1>0. TypeInv'
  BY TypeStep DEF IInv
<1> USE DEF IInv, TypeInv, TypeOK, Tallies, Accounted, AbandonedOnlyAfterFailure, Resources
<1>1. CASE CreateContext \/ CreateVHost \/ CreateProducer
  BY <1>0, <1>1 DEF CreateContext, CreateVHost, CreateProducer, Obtain
<1>2. CASE AttemptFails
  BY <1>0, <1>2 DEF AttemptFails
<1>3. CASE Cleanup
  <2>1. "producer" \notin resources
    BY <1>3 DEF Cleanup, ReleaseVHost, ReleaseContext
  <2> QED
    BY <1>0, <1>3, <2>1 DEF Cleanup, ReleaseVHost, ReleaseContext
<1>4. CASE Retry
  BY <1>0, <1>4 DEF Retry
<1>5. CASE Publish
  BY <1>0, <1>5 DEF Publish
<1>6. CASE Sent
  <2>1. "producer" \in resources
    BY <1>6 DEF Sent, Held
  <2> QED
    BY <1>0, <1>6, <2>1 DEF Sent
<1>7. CASE SendRefused
  BY <1>0, <1>7 DEF SendRefused
<1>8. CASE Broker
  <2> PICK status \in {"acked", "nacked"} : Confirm(status)
    BY <1>8 DEF Broker
  <2> QED
    BY <1>0, ConfirmCounts DEF Confirm
<1>9. CASE Close
  BY <1>0, <1>9 DEF Close
<1>10. CASE WaitForConfirms \/ WaitForConfirmsFails
  BY <1>0, <1>10 DEF WaitForConfirms, WaitForConfirmsFails
<1>11. CASE ReleaseProducer
  BY <1>0, <1>11, ReleaseCounts DEF ReleaseProducer
<1>12. CASE ReleaseVHost("release")
  BY <1>0, <1>12 DEF ReleaseVHost
<1>13. CASE ReleaseContext("release", "destroyed")
  BY <1>0, <1>13 DEF ReleaseContext
<1>14. CASE UNCHANGED vars
  BY <1>0, <1>14 DEF vars, Held
<1> QED
  BY <1>1, <1>2, <1>3, <1>4, <1>5, <1>6, <1>7, <1>8, <1>9, <1>10, <1>11, <1>12,
     <1>13, <1>14
     DEF Next, Constructor, Destructor, Finished

LEMMA Invariant == Spec => []IInv
<1>1. Init => IInv
  <2> SUFFICES ASSUME Init PROVE IInv
    OBVIOUS
  <2>1. tally \in Tallies
    BY PublisherAssumption DEF PublisherAssumption, Init, Tallies
  <2>2. attempt \in 1..MaxAttempts /\ delay \in 0..MaxDelay
    BY PublisherAssumption DEF PublisherAssumption, Init
  <2>3. TypeInv
    BY <2>1, <2>2 DEF Init, TypeInv, TypeOK, Held, MayRetry, Constructing, Resources
  <2>4. Accounted /\ AbandonedOnlyAfterFailure
    BY DEF Init, Accounted, AbandonedOnlyAfterFailure
  <2> QED
    BY <2>3, <2>4 DEF IInv
<1>2. IInv /\ [Next]_vars => IInv'
  BY InvStep
<1> QED
  BY <1>1, <1>2, PTL DEF Spec

-----------------------------------------------------------------------------
\* Every variable of the publisher keeps its type: the attempts stay within
\* MAX_RECONNECTION_ATTEMPTS and the delay within its cap.
THEOREM PublisherTypeCorrect == Spec => []TypeOK
<1>1. IInv => TypeOK
  BY DEF IInv, TypeInv
<1> QED
  BY <1>1, Invariant, PTL

\* ResetRabbitResources frees everything the constructor opened, in the
\* opposite order, however many attempts it takes and wherever one fails.
THEOREM ResourcesHeldInOrder == Spec => []HeldInOrder
<1>1. IInv => HeldInOrder
  BY DEF IInv, TypeInv, TypeOK, Held, HeldInOrder, Constructing, Closing, Resources
<1> QED
  BY <1>1, Invariant, PTL

\* A message is lost at the shutdown only with a warning from waitForConfirms,
\* whenever the confirms arrive.
THEOREM ShutdownLossIsReported == Spec => []LossIsReported
<1>1. IInv => LossIsReported
  <2> SUFFICES ASSUME IInv, pc = "destroyed", ~flushFailed
               PROVE  tally.handed = tally.acked + tally.nacked + tally.refused
    BY DEF LossIsReported
  <2>1. "producer" \notin resources
    BY DEF IInv, TypeInv, Held
  <2> QED
    BY <2>1 DEF IInv, TypeInv, TypeOK, Tallies, Accounted, AbandonedOnlyAfterFailure
<1> QED
  BY <1>1, Invariant, PTL

-----------------------------------------------------------------------------
(* The backoff.                                                            *)

LEMMA DoubledUnfolds ==
    /\ Doubled[0] = FirstDelay
    /\ \A n \in Nat : Doubled[n] \in Nat /\ Doubled[n + 1] = 2 * Doubled[n]
<1> DEFINE Doubles(f) == f = [n \in Nat |-> IF n = 0 THEN FirstDelay ELSE 2 * f[n - 1]]
<1>1. \E f : Doubles(f)
  <2> DEFINE step == [n \in Nat |-> [x \in Nat |-> 2 * x]]
  <2>1. step \in [Nat -> [Nat -> Nat]] /\ FirstDelay \in Nat
    BY PublisherAssumption DEF PublisherAssumption
  <2>2. \A n \in Nat, x \in Nat : step[n][x] = 2 * x
    OBVIOUS
  <2> HIDE DEF step
  <2>3. PICK f \in [Nat -> Nat] : Recursion(f, FirstDelay, step)
    BY <2>1, RecursionExists
  <2>4. ASSUME NEW n \in Nat
        PROVE  f[n] = IF n = 0 THEN FirstDelay ELSE 2 * f[n - 1]
    <3>1. CASE n = 0
      BY <2>3, <3>1 DEF Recursion
    <3>2. CASE n # 0
      <4> DEFINE m == n - 1
      <4>1. m \in Nat /\ n = m + 1
        BY <3>2
      <4> HIDE DEF m
      <4>2. f[n] = 2 * f[m]
        BY <2>2, <2>3, <4>1 DEF Recursion
      <4> QED
        BY <3>2, <4>2 DEF m
    <3> QED
      BY <3>1, <3>2
  <2>5. Doubles(f)
    BY <2>3, <2>4
  <2> QED
    BY <2>5
<1>2. Doubles(Doubled)
  <2>1. Doubled = CHOOSE f : Doubles(f)
    BY DEF Doubled
  <2> HIDE DEF Doubles
  <2> QED
    BY <1>1, <2>1
<1>3. Doubled[0] = FirstDelay /\ \A n \in Nat : Doubled[n + 1] = 2 * Doubled[n]
  <2>1. \A n \in Nat : Doubled[n] = IF n = 0 THEN FirstDelay ELSE 2 * Doubled[n - 1]
    BY <1>2
  <2>2. \A n \in Nat : n + 1 \in Nat /\ n + 1 # 0 /\ (n + 1) - 1 = n
    OBVIOUS
  <2> QED
    BY <2>1, <2>2
<1>4. Nat \subseteq {n \in Nat : Doubled[n] \in Nat}
  <2> DEFINE T == {n \in Nat : Doubled[n] \in Nat}
  <2>1. 0 \in T /\ \A n \in Nat : n \in T => n + 1 \in T
    BY <1>3, PublisherAssumption DEF PublisherAssumption
  <2> HIDE DEF T
  <2>2. Nat \subseteq T
    BY <2>1, Induction
  <2> QED
    BY <2>2 DEF T
<1> QED
  BY <1>3, <1>4

\* RequestPublisher.cpp:94-156: however many attempts are allowed, attempt n is
\* followed by the first delay doubled n - 1 times, or by the cap.
THEOREM BackoffAlwaysDoubles == Spec => []BackoffDoubles
<1>1. Init => BackoffDoubles
  BY PublisherAssumption, DoubledUnfolds DEF PublisherAssumption, Init, BackoffDoubles
<1>2. IInv /\ BackoffDoubles /\ [Next]_vars => BackoffDoubles'
  <2> SUFFICES ASSUME IInv, BackoffDoubles, [Next]_vars PROVE BackoffDoubles'
    OBVIOUS
  <2>1. CASE Retry
    <3> DEFINE n == attempt - 1
               d == Doubled[n]
    <3>1. n \in Nat /\ attempt' - 1 = n + 1
      BY <2>1, PublisherAssumption DEF PublisherAssumption, IInv, TypeInv, TypeOK, Retry
    <3>2. d \in Nat /\ Doubled[attempt' - 1] = 2 * d
      BY <3>1, DoubledUnfolds
    <3>3. delay = IF d < MaxDelay THEN d ELSE MaxDelay
      BY DEF BackoffDoubles
    <3>4. delay' = IF 2 * delay < MaxDelay THEN 2 * delay ELSE MaxDelay
      BY <2>1 DEF Retry, NextDelay
    <3> HIDE DEF d
    <3>5. delay' = IF 2 * d < MaxDelay THEN 2 * d ELSE MaxDelay
      BY <3>2, <3>3, <3>4, PublisherAssumption DEF PublisherAssumption
    <3> QED
      BY <3>2, <3>5 DEF BackoffDoubles
  <2>2. CASE UNCHANGED <<attempt, delay>>
    BY <2>2 DEF BackoffDoubles
  <2> QED
    BY <2>1, <2>2
       DEF Next, Constructor, CreateContext, CreateVHost, CreateProducer, Obtain,
           AttemptFails, Cleanup, Publish, Sent, SendRefused, Broker, Confirm, Close,
           Destructor, WaitForConfirms, WaitForConfirmsFails, ReleaseProducer,
           ReleaseVHost, ReleaseContext, Finished, vars
<1> QED
  BY <1>1, <1>2, Invariant, PTL DEF Spec

=============================================================================
