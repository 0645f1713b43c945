------------------------- MODULE EmailOutboxProofs -------------------------
(***************************************************************************)
(* The safety of the email outbox, for any number of jobs and workers and  *)
(* every MaxAttempts, LeaseTicks, Retries and Skew that satisfy            *)
(* OutboxAssumption.                                                       *)
(***************************************************************************)
EXTENDS EmailOutbox, TLAPS

-----------------------------------------------------------------------------
(* Facts about the definitions the steps are built from.                   *)

(* Every instant the outbox computes from a host clock is an integer. *)
LEMMA ClockArithmetic ==
  /\ Past \in Int
  /\ Clocks \subseteq Int
  /\ \A now \in Clocks : now + LeaseTicks \in Int
  /\ \A now \in Clocks, n \in Nat \ {0} : now + Backoff(n) \in Int
  /\ \A t \in Int : Sooner(t) \in Int
<1>1. \A n \in Nat \ {0} : Backoff(n) \in Nat
  BY OutboxAssumption DEF Backoff
<1>2. QED
  BY <1>1, OutboxAssumption DEF Past, Clocks, Sooner

(* Rows that the helpers build are rows, and say what they are built to say. *)
LEMMA RowHelpers ==
  /\ NoRow \in Row /\ NewRow \in Row
  /\ \A r \in Row, s \in Statuses :
       [r EXCEPT !.status = s, !.lease = 0, !.until = Past] \in Row
<1>1. NoRow \in Row /\ NewRow \in Row
  BY ClockArithmetic DEF NoRow, NewRow, Row, Statuses
<1>2. QED
  BY <1>1, ClockArithmetic DEF Row

(* A delivery that is under way is a delivery record, never the idle one. *)
LEMMA BusyIsDelivery ==
  ASSUME TypeOK, NEW w \in Workers, Busy(w)
  PROVE  worker[w] \in Delivery
BY DEF TypeOK, Busy

-----------------------------------------------------------------------------
(* Initially.                                                              *)

(* Empty tables and idle workers satisfy the invariant. *)
LEMMA InitIInv == Init => IInv
<1> SUFFICES ASSUME Init PROVE IInv
  OBVIOUS
<1> USE DEF Init
<1>1. TypeOK
  BY RowHelpers DEF TypeOK, Outcomes
<1>2. AttemptBudget /\ LeaseNamesAttempt
  BY OutboxAssumption DEF AttemptBudget, LeaseNamesAttempt, NoRow
<1>3. OneWorkerPerAttempt /\ DeliveryMatchesRow
  BY DEF OneWorkerPerAttempt, DeliveryMatchesRow, Busy
<1>4. OutcomeAgrees /\ SentWasAccepted
  BY DEF OutcomeAgrees, SentWasAccepted, NoRow, Settled
<1>5. QED
  BY <1>1, <1>2, <1>3, <1>4 DEF IInv

-----------------------------------------------------------------------------
(* Steps that create and remove rows, and time.                            *)

(* Creating a notification with an email job preserves the invariant: no
   worker can hold a job that does not exist yet. *)
LEMMA EnqueueIInv ==
  ASSUME IInv, NEW j \in Jobs, Enqueue(j)
  PROVE  IInv'
<1> USE DEF IInv, Enqueue
<1>1. row[j].status = "NONE" /\ row[j].attempts = 0
  BY DEF OutcomeAgrees, LeaseNamesAttempt, TypeOK, Row, Statuses, Settled
<1>2. accepted[j] = {}
  BY <1>1 DEF AttemptBudget, TypeOK
<1>3. \A w \in Workers : Busy(w) => worker[w].job # j
  BY <1>1 DEF DeliveryMatchesRow
<1>4. TypeOK'
  BY RowHelpers DEF TypeOK, Outcomes
<1>5. AttemptBudget' /\ LeaseNamesAttempt'
  BY <1>1, <1>2, OutboxAssumption DEF TypeOK, AttemptBudget, LeaseNamesAttempt, NewRow
<1>6. OneWorkerPerAttempt'
  BY DEF OneWorkerPerAttempt, Busy
<1>7. DeliveryMatchesRow'
  BY <1>3, BusyIsDelivery DEF DeliveryMatchesRow, Busy, TypeOK, Delivery
<1>8. OutcomeAgrees' /\ SentWasAccepted'
  BY DEF OutcomeAgrees, SentWasAccepted, TypeOK, NewRow, Settled
<1>9. QED
  BY <1>4, <1>5, <1>6, <1>7, <1>8

(* A notification without an email job leaves the job table alone. *)
LEMMA CreateWithoutEmailIInv ==
  ASSUME IInv, NEW j \in Jobs, CreateWithoutEmail(j)
  PROVE  IInv'
<1> USE DEF IInv, CreateWithoutEmail
<1>1. row[j].status = "NONE"
  BY DEF OutcomeAgrees, TypeOK, Row, Statuses, Settled
<1>2. TypeOK'
  BY DEF TypeOK, Outcomes
<1>3. OutcomeAgrees' /\ SentWasAccepted'
  BY <1>1 DEF OutcomeAgrees, SentWasAccepted, TypeOK, Settled
<1>4. QED
  BY <1>2, <1>3 DEF AttemptBudget, LeaseNamesAttempt, OneWorkerPerAttempt,
                    DeliveryMatchesRow, Busy

(* Deleting a settled row keeps the outcome the recipient was shown. *)
LEMMA PurgeIInv ==
  ASSUME IInv, NEW j \in Jobs, Purge(j)
  PROVE  IInv'
<1> USE DEF IInv, Purge, Retired
<1>1. TypeOK'
  BY DEF TypeOK, Row, Statuses
<1>2. AttemptBudget' /\ LeaseNamesAttempt'
  BY DEF TypeOK, Row, AttemptBudget, LeaseNamesAttempt
<1>3. OneWorkerPerAttempt'
  BY DEF OneWorkerPerAttempt, Busy
<1>4. DeliveryMatchesRow'
  BY BusyIsDelivery DEF DeliveryMatchesRow, Busy, TypeOK, Row, Delivery
<1>5. OutcomeAgrees' /\ SentWasAccepted'
  BY DEF OutcomeAgrees, SentWasAccepted, TypeOK, Row, Settled
<1>6. QED
  BY <1>1, <1>2, <1>3, <1>4, <1>5

(* A tick only brings instants closer. *)
LEMMA TickIInv ==
  ASSUME IInv, Tick
  PROVE  IInv'
<1> USE DEF IInv, Tick
<1>1. \A k \in Jobs : /\ row'[k].status = row[k].status
                      /\ row'[k].attempts = row[k].attempts
                      /\ row'[k].lease = row[k].lease
  BY DEF TypeOK, Row
<1>2. TypeOK'
  BY ClockArithmetic DEF TypeOK, Row
<1>3. AttemptBudget' /\ LeaseNamesAttempt'
  BY <1>1 DEF AttemptBudget, LeaseNamesAttempt
<1>4. OneWorkerPerAttempt'
  BY DEF OneWorkerPerAttempt, Busy
<1>5. DeliveryMatchesRow'
  <2>1. ASSUME NEW w \in Workers, Busy(w)
        PROVE  worker[w].job \in Jobs
    BY <2>1, BusyIsDelivery DEF Delivery
  <2>2. QED
    BY <1>1, <2>1 DEF DeliveryMatchesRow, Busy
<1>6. OutcomeAgrees' /\ SentWasAccepted'
  BY <1>1 DEF OutcomeAgrees, SentWasAccepted
<1>7. QED
  BY <1>2, <1>3, <1>4, <1>5, <1>6

-----------------------------------------------------------------------------
(* Steps of a worker that claims.                                          *)

(* A claim starts the next attempt: the deliveries that are still in memory
   hold earlier ones, and SMTP has taken nothing of the new one. *)
LEMMA ClaimIInv ==
  ASSUME IInv, NEW w \in Workers, NEW j \in Jobs, Claim(w, j)
  PROVE  IInv'
<1> DEFINE n == row[j].attempts + 1
<1> USE DEF IInv
<1>1. PICK now \in Clocks :
        /\ Claimable(j, now)
        /\ row[j].attempts < MaxAttempts
        /\ row' = [row EXCEPT ![j] = ClaimedRow(j, now)]
  BY DEF Claim
<1>2. /\ worker[w] = Idle
      /\ \E next \in {Idle, DeliveryOf(j, row'[j].attempts)} :
           worker' = [worker EXCEPT ![w] = next]
      /\ UNCHANGED <<mail, accepted>>
  BY DEF Claim
<1>3. /\ row[j] \in Row /\ row[j].attempts \in Nat /\ n \in Nat \ {0}
      /\ n > row[j].attempts
      /\ 1..row[j].attempts \subseteq 1..n /\ n \in 1..n /\ n \notin 1..row[j].attempts
  <2>1. row[j] \in Row
    BY DEF TypeOK
  <2>2. row[j].attempts \in Nat
    BY <2>1 DEF Row
  <2>3. QED
    BY <2>1, <2>2
<1>4. /\ ClaimedRow(j, now) \in Row
      /\ ClaimedRow(j, now).status = "PROCESSING"
      /\ ClaimedRow(j, now).attempts = n
      /\ ClaimedRow(j, now).lease = n
  BY <1>3, ClockArithmetic DEF ClaimedRow, Row, Statuses
<1>5. row'[j] = ClaimedRow(j, now) /\ \A k \in Jobs : k # j => row'[k] = row[k]
  BY <1>1 DEF TypeOK
<1>6. \/ worker' = [worker EXCEPT ![w] = Idle]
      \/ worker' = [worker EXCEPT ![w] = DeliveryOf(j, n)]
  BY <1>2, <1>4, <1>5
<1>7. DeliveryOf(j, n) \in Delivery /\ DeliveryOf(j, n) # Idle
  BY <1>3 DEF DeliveryOf, Delivery, Idle
<1>8. row[j].status \in {"PENDING", "PROCESSING"}
  BY <1>1 DEF Claimable
<1>9. \A v \in Workers : Busy(v) => worker[v].attempt \in Nat /\ worker[v].job \in Jobs
  BY BusyIsDelivery DEF Delivery
<1>10. \A v \in Workers : Busy(v) /\ worker[v].job = j => worker[v].attempt # n
  BY <1>3, <1>9 DEF DeliveryMatchesRow
<1>11. TypeOK'
  BY <1>1, <1>2, <1>4, <1>6, <1>7 DEF TypeOK
<1>12. AttemptBudget' /\ LeaseNamesAttempt'
  <2>1. n <= MaxAttempts /\ n > 0
    BY <1>1, <1>3, OutboxAssumption
  <2>2. QED
    BY <1>2, <1>3, <1>4, <1>5, <2>1 DEF AttemptBudget, LeaseNamesAttempt
<1>13. OneWorkerPerAttempt'
  BY <1>2, <1>6, <1>7, <1>10 DEF OneWorkerPerAttempt, Busy, TypeOK, DeliveryOf
<1>14. DeliveryMatchesRow'
  <2>1. ASSUME NEW v \in Workers, v # w, Busy(v)
        PROVE  worker[v].attempt \in 1..row'[worker[v].job].attempts
    <3>1. worker[v].attempt \in 1..row[worker[v].job].attempts /\ worker[v].job \in Jobs
      BY <1>9, <2>1 DEF DeliveryMatchesRow
    <3>2. CASE worker[v].job = j
      BY <1>3, <1>4, <1>5, <3>1, <3>2
    <3>3. CASE worker[v].job # j
      BY <1>5, <3>1, <3>3
    <3>4. QED
      BY <3>2, <3>3
  <2>2. n \in 1..n /\ n \notin accepted[j]
    BY <1>3 DEF AttemptBudget
  <2>3. \A v \in Workers : v # w => worker'[v] = worker[v]
    BY <1>6 DEF TypeOK
  <2>4. worker'[w] = Idle \/ worker'[w] = DeliveryOf(j, n)
    BY <1>6 DEF TypeOK
  <2>5. QED
    BY <1>2, <1>4, <1>5, <2>1, <2>2, <2>3, <2>4 DEF DeliveryMatchesRow, Busy, DeliveryOf
<1>15. OutcomeAgrees' /\ SentWasAccepted'
  BY <1>2, <1>4, <1>5, <1>8 DEF OutcomeAgrees, SentWasAccepted, Settled
<1>16. QED
  BY <1>11, <1>12, <1>13, <1>14, <1>15

(* Settling a row, by whatever worker, touches neither attempts nor memory. *)
LEMMA SettleRowIInv ==
  ASSUME IInv, NEW j \in Jobs, NEW s \in {"SENT", "FAILED"},
         row[j].status = "PROCESSING" \/ row[j].status = "PENDING",
         row' = [row EXCEPT ![j] = SettledRow(j, s)],
         mail' = [mail EXCEPT ![j] = s],
         accepted' = accepted,
         s = "SENT" => accepted[j] # {}
  PROVE  /\ row' \in [Jobs -> Row] /\ mail' \in [Jobs -> Outcomes]
         /\ \A k \in Jobs : row'[k].attempts = row[k].attempts
         /\ AttemptBudget' /\ LeaseNamesAttempt'
         /\ OutcomeAgrees' /\ SentWasAccepted'
<1> USE DEF IInv
<1>1. /\ SettledRow(j, s) \in Row
      /\ SettledRow(j, s).status = s
      /\ SettledRow(j, s).attempts = row[j].attempts
  <2>1. row[j] \in Row /\ s \in Statuses
    BY DEF TypeOK, Statuses
  <2>2. SettledRow(j, s) \in Row
    BY <2>1, RowHelpers DEF SettledRow
  <2>3. QED
    BY <2>1, <2>2 DEF SettledRow, Row
<1>2. row'[j] = SettledRow(j, s) /\ \A k \in Jobs : k # j => row'[k] = row[k]
  BY DEF TypeOK
<1>3. row' \in [Jobs -> Row] /\ mail' \in [Jobs -> Outcomes]
  BY <1>1 DEF TypeOK, Outcomes
<1>4. \A k \in Jobs : row'[k].attempts = row[k].attempts
  BY <1>1, <1>2
<1>5. AttemptBudget' /\ LeaseNamesAttempt'
  BY <1>1, <1>2, <1>4 DEF AttemptBudget, LeaseNamesAttempt
<1>6. OutcomeAgrees' /\ SentWasAccepted'
  BY <1>1, <1>2 DEF OutcomeAgrees, SentWasAccepted, Settled, TypeOK
<1>7. QED
  BY <1>3, <1>4, <1>5, <1>6

(* A job whose budget is spent is failed by the worker that finds it. *)
LEMMA ClaimExhaustedIInv ==
  ASSUME IInv, NEW w \in Workers, NEW j \in Jobs, ClaimExhausted(w, j)
  PROVE  IInv'
<1> USE DEF IInv, ClaimExhausted, Told
<1>1. row[j].status = "PROCESSING" \/ row[j].status = "PENDING"
  BY DEF Claimable
<1>2. /\ row' \in [Jobs -> Row] /\ mail' \in [Jobs -> Outcomes]
      /\ \A k \in Jobs : row'[k].attempts = row[k].attempts
      /\ AttemptBudget' /\ LeaseNamesAttempt'
      /\ OutcomeAgrees' /\ SentWasAccepted'
  BY <1>1, SettleRowIInv
<1>3. \A v \in Workers : Busy(v) => worker[v].job \in Jobs
  BY BusyIsDelivery DEF Delivery
<1>4. OneWorkerPerAttempt' /\ DeliveryMatchesRow'
  BY <1>2, <1>3 DEF OneWorkerPerAttempt, DeliveryMatchesRow, Busy
<1>5. QED
  BY <1>2, <1>4 DEF TypeOK

-----------------------------------------------------------------------------
(* Steps of a worker that delivers.                                        *)

(* A worker that forgets its delivery, and nothing else, takes no fact with
   it. *)
LEMMA ForgetIInv ==
  ASSUME IInv, NEW w \in Workers,
         worker' = [worker EXCEPT ![w] = Idle],
         UNCHANGED <<row, mail, accepted>>
  PROVE  IInv'
<1> USE DEF IInv
<1>1. TypeOK'
  BY DEF TypeOK
<1>2. \A v \in Workers : v # w => worker'[v] = worker[v]
  BY DEF TypeOK
<1>3. worker'[w] = Idle
  BY DEF TypeOK
<1>4. OneWorkerPerAttempt' /\ DeliveryMatchesRow'
  BY <1>2, <1>3 DEF OneWorkerPerAttempt, DeliveryMatchesRow, Busy
<1>5. QED
  BY <1>1, <1>4 DEF AttemptBudget, LeaseNamesAttempt, OutcomeAgrees, SentWasAccepted

(* A delivery that moves on to another phase, or loses its lease, is still
   the delivery of the same attempt. *)
LEMMA AdvanceIInv ==
  ASSUME IInv, NEW w \in Workers, Busy(w), NEW d \in Delivery,
         worker' = [worker EXCEPT ![w] = d],
         d.job = worker[w].job, d.attempt = worker[w].attempt,
         d.taken = worker[w].taken, d.success => d.taken
  PROVE  /\ worker' \in [Workers -> {Idle} \union Delivery]
         /\ OneWorkerPerAttempt'
         /\ UNCHANGED <<row, accepted>> => DeliveryMatchesRow'
<1> USE DEF IInv
<1>1. worker' \in [Workers -> {Idle} \union Delivery]
  BY DEF TypeOK
<1>2. worker'[w] = d /\ \A v \in Workers : v # w => worker'[v] = worker[v]
  BY DEF TypeOK
<1>3. OneWorkerPerAttempt'
  BY <1>2 DEF OneWorkerPerAttempt, Busy
<1>4. ASSUME UNCHANGED <<row, accepted>>
      PROVE  DeliveryMatchesRow'
  BY <1>2, <1>4 DEF DeliveryMatchesRow, Busy
<1>5. QED
  BY <1>1, <1>3, <1>4

(* The answer of SMTP is learned: a success only of a message that was taken. *)
LEMMA SendReturnsIInv ==
  ASSUME IInv, NEW w \in Workers, SendReturns(w)
  PROVE  IInv'
<1> USE DEF IInv, SendReturns
<1>1. PICK ok \in BOOLEAN :
        /\ ok => worker[w].taken
        /\ worker' = [worker EXCEPT ![w].phase = "stopping", ![w].success = ok]
  OBVIOUS
<1> DEFINE d == [worker[w] EXCEPT !.phase = "stopping", !.success = ok]
<1>2. Busy(w) /\ worker[w] \in Delivery
  BY BusyIsDelivery DEF Busy
<1>3. /\ d \in Delivery /\ d.job = worker[w].job /\ d.attempt = worker[w].attempt
      /\ d.taken = worker[w].taken /\ d.success = ok
  BY <1>2 DEF Delivery
<1>4. worker' = [worker EXCEPT ![w] = d]
  BY <1>1 DEF TypeOK
<1> HIDE DEF d
<1>5. TypeOK' /\ OneWorkerPerAttempt' /\ DeliveryMatchesRow'
  BY <1>1, <1>2, <1>3, <1>4, AdvanceIInv DEF TypeOK
<1>6. QED
  BY <1>5 DEF AttemptBudget, LeaseNamesAttempt, OutcomeAgrees, SentWasAccepted

(* A failed renewal only makes the worker give up at the end. *)
LEMMA RenewFailsIInv ==
  ASSUME IInv, NEW w \in Workers, RenewFails(w)
  PROVE  IInv'
<1> USE DEF IInv, RenewFails
<1> DEFINE d == [worker[w] EXCEPT !.renewed = FALSE]
<1>1. Busy(w) /\ worker[w] \in Delivery
  BY BusyIsDelivery DEF Busy, Renewing
<1>2. /\ d \in Delivery /\ d.job = worker[w].job /\ d.attempt = worker[w].attempt
      /\ d.taken = worker[w].taken /\ d.success = worker[w].success
  BY <1>1 DEF Delivery
<1>3. worker' = [worker EXCEPT ![w] = d]
  BY DEF TypeOK
<1>4. d.success => d.taken
  BY <1>1, <1>2 DEF DeliveryMatchesRow
<1> HIDE DEF d
<1>5. TypeOK' /\ OneWorkerPerAttempt' /\ DeliveryMatchesRow'
  BY <1>1, <1>2, <1>3, <1>4, AdvanceIInv DEF TypeOK
<1>6. QED
  BY <1>5 DEF AttemptBudget, LeaseNamesAttempt, OutcomeAgrees, SentWasAccepted

(* The delivery goes on to the finishing transaction, or is forgotten. *)
LEMMA StopRenewIInv ==
  ASSUME IInv, NEW w \in Workers, StopRenew(w)
  PROVE  IInv'
<1> USE DEF IInv, StopRenew
<1>1. CASE ~worker[w].renewed
  BY <1>1, ForgetIInv
<1>2. CASE worker[w].renewed
  <2> DEFINE d == [worker[w] EXCEPT !.phase = "finishing"]
  <2>1. Busy(w) /\ worker[w] \in Delivery
    BY BusyIsDelivery DEF Busy
  <2>2. /\ d \in Delivery /\ d.job = worker[w].job /\ d.attempt = worker[w].attempt
        /\ d.taken = worker[w].taken /\ d.success = worker[w].success
    BY <2>1 DEF Delivery
  <2>3. worker' = [worker EXCEPT ![w] = d]
    BY <1>2 DEF TypeOK
  <2>4. d.success => d.taken
    BY <2>1, <2>2 DEF DeliveryMatchesRow
  <2> HIDE DEF d
  <2>5. TypeOK' /\ OneWorkerPerAttempt' /\ DeliveryMatchesRow'
    BY <2>1, <2>2, <2>3, <2>4, AdvanceIInv DEF TypeOK
  <2>6. QED
    BY <2>5 DEF AttemptBudget, LeaseNamesAttempt, OutcomeAgrees, SentWasAccepted
<1>3. QED
  BY <1>1, <1>2

(* SMTP takes the message: the attempt is recorded, once. *)
LEMMA SmtpAcceptsIInv ==
  ASSUME IInv, NEW w \in Workers, SmtpAccepts(w)
  PROVE  IInv'
<1> USE DEF IInv, SmtpAccepts
<1> DEFINE d == [worker[w] EXCEPT !.taken = TRUE]
           j == worker[w].job
           n == worker[w].attempt
<1>1. Busy(w) /\ worker[w] \in Delivery
  BY BusyIsDelivery DEF Busy
<1>2. /\ d \in Delivery /\ d.job = j /\ d.attempt = n
      /\ d.taken = TRUE /\ d # Idle
  BY <1>1 DEF Delivery, Idle
<1>3. worker' = [worker EXCEPT ![w] = d]
  BY DEF TypeOK
<1>4. worker'[w] = d /\ \A v \in Workers : v # w => worker'[v] = worker[v]
  BY <1>3 DEF TypeOK
<1>5. j \in Jobs /\ n \in Nat /\ n \in 1..row[j].attempts
  BY <1>1 DEF Delivery, DeliveryMatchesRow
<1>6. /\ accepted'[j] = accepted[j] \union {n}
      /\ \A k \in Jobs : k # j => accepted'[k] = accepted[k]
  BY <1>5 DEF TypeOK
<1> HIDE DEF d
<1>7. TypeOK'
  BY <1>2, <1>3, <1>5 DEF TypeOK
<1>8. AttemptBudget' /\ LeaseNamesAttempt' /\ OutcomeAgrees'
  BY <1>5, <1>6 DEF AttemptBudget, LeaseNamesAttempt, OutcomeAgrees
<1>9. SentWasAccepted'
  BY <1>6 DEF SentWasAccepted
<1>10. OneWorkerPerAttempt'
  BY <1>1, <1>2, <1>4 DEF OneWorkerPerAttempt, Busy
<1>11. DeliveryMatchesRow'
  <2>1. ASSUME NEW v \in Workers, v # w, Busy(v), worker[v].job = j
        PROVE  worker[v].attempt # n
    BY <1>1, <2>1 DEF OneWorkerPerAttempt
  <2>2. ASSUME NEW v \in Workers, v # w, Busy(v)
        PROVE  /\ worker[v].job \in Jobs
               /\ worker[v].taken <=> worker[v].attempt \in accepted'[worker[v].job]
    <3>1. worker[v].job \in Jobs
      BY <2>2, BusyIsDelivery DEF Delivery
    <3>2. CASE worker[v].job = j
      BY <1>6, <2>1, <2>2, <3>1, <3>2 DEF DeliveryMatchesRow
    <3>3. CASE worker[v].job # j
      BY <1>6, <2>2, <3>1, <3>3 DEF DeliveryMatchesRow
    <3>4. QED
      BY <3>2, <3>3, Zenon
  <2>3. QED
    BY <1>2, <1>4, <1>5, <1>6, <2>2 DEF DeliveryMatchesRow, Busy
<1>12. QED
  BY <1>7, <1>8, <1>9, <1>10, <1>11

(* A renewal moves the end of a lease and nothing else of a row. *)
LEMMA RenewIInv ==
  ASSUME IInv, NEW w \in Workers, Renew(w)
  PROVE  IInv'
<1> USE DEF IInv, Renew
<1> DEFINE d == [worker[w] EXCEPT !.renewed = FALSE]
<1>1. Busy(w) /\ worker[w] \in Delivery
  BY BusyIsDelivery DEF Busy, Renewing
<1>2. PICK now \in Clocks :
        row' = [row EXCEPT ![worker[w].job].until = now + LeaseTicks]
  OBVIOUS
<1>3. worker[w].job \in Jobs /\ now + LeaseTicks \in Int
  BY <1>1, ClockArithmetic DEF Delivery
<1>4. /\ row' \in [Jobs -> Row]
      /\ \A k \in Jobs : /\ row'[k].status = row[k].status
                         /\ row'[k].attempts = row[k].attempts
                         /\ row'[k].lease = row[k].lease
  BY <1>2, <1>3 DEF TypeOK, Row
<1>5. AttemptBudget' /\ LeaseNamesAttempt' /\ OutcomeAgrees' /\ SentWasAccepted'
  BY <1>4 DEF AttemptBudget, LeaseNamesAttempt, OutcomeAgrees, SentWasAccepted
<1>6. /\ worker' \in [Workers -> {Idle} \union Delivery]
      /\ \A v \in Workers :
           /\ Busy(v)' <=> Busy(v)
           /\ Busy(v) => /\ worker'[v].job = worker[v].job
                         /\ worker'[v].attempt = worker[v].attempt
                         /\ worker'[v].taken = worker[v].taken
                         /\ worker'[v].success = worker[v].success
  <2>1. CASE UNCHANGED worker
    BY <2>1 DEF TypeOK, Busy
  <2>2. CASE worker' = [worker EXCEPT ![w].renewed = FALSE]
    <3>1. /\ d \in Delivery /\ d # Idle /\ d.job = worker[w].job
          /\ d.attempt = worker[w].attempt
          /\ d.taken = worker[w].taken /\ d.success = worker[w].success
      BY <1>1 DEF Delivery, Idle
    <3>2. worker' = [worker EXCEPT ![w] = d]
      BY <2>2 DEF TypeOK
    <3> HIDE DEF d
    <3>3. QED
      BY <1>1, <3>1, <3>2 DEF TypeOK, Busy
  <2>3. QED
    BY <2>1, <2>2
<1>7. \A v \in Workers : Busy(v) => worker[v].job \in Jobs
  BY BusyIsDelivery DEF Delivery
<1>8. OneWorkerPerAttempt' /\ DeliveryMatchesRow'
  BY <1>4, <1>6, <1>7 DEF OneWorkerPerAttempt, DeliveryMatchesRow
<1>9. QED
  BY <1>4, <1>5, <1>6, <1>8 DEF TypeOK

(* The finishing transaction: only the latest attempt reaches it with the
   lease in hand, and a job is put back only with an attempt left. *)
LEMMA CompleteIInv ==
  ASSUME IInv, NEW w \in Workers, Complete(w)
  PROVE  IInv'
<1> USE DEF IInv
<1> DEFINE j == worker[w].job
           n == worker[w].attempt
<1>1. Busy(w) /\ worker[w] \in Delivery
  BY BusyIsDelivery DEF Busy, Complete, Told
<1>2. PICK now \in Clocks :
        /\ StillOwned(w, now)
        /\ IF Terminal(w)
           THEN /\ row' = [row EXCEPT ![j] = SettledRow(j, FinalStatus(w))]
                /\ mail' = [mail EXCEPT ![j] = FinalStatus(w)]
           ELSE /\ row' = [row EXCEPT ![j] =
                             [SettledRow(j, "PENDING") EXCEPT !.delay = now + Backoff(n)]]
                /\ UNCHANGED mail
  BY DEF Complete, Told
<1>3. worker' = [worker EXCEPT ![w] = Idle] /\ accepted' = accepted
  BY DEF Complete, Told
<1>4. /\ j \in Jobs /\ row[j] \in Row /\ n \in Nat \ {0} /\ row[j].attempts = n
      /\ row[j].status = "PROCESSING"
  BY <1>1, <1>2 DEF StillOwned, LockedRow, LeaseNamesAttempt, Delivery, TypeOK
<1>5. \A v \in Workers : Busy(v) => worker[v].job \in Jobs
  BY BusyIsDelivery DEF Delivery
<1>6. CASE Terminal(w)
  <2>1. /\ FinalStatus(w) \in {"SENT", "FAILED"}
        /\ FinalStatus(w) = "SENT" => accepted[j] # {}
    BY <1>1 DEF FinalStatus, DeliveryMatchesRow
  <2>2. /\ row' = [row EXCEPT ![j] = SettledRow(j, FinalStatus(w))]
        /\ mail' = [mail EXCEPT ![j] = FinalStatus(w)]
    BY <1>2, <1>6
  <2>3. /\ row' \in [Jobs -> Row] /\ mail' \in [Jobs -> Outcomes]
        /\ \A k \in Jobs : row'[k].attempts = row[k].attempts
        /\ AttemptBudget' /\ LeaseNamesAttempt'
        /\ OutcomeAgrees' /\ SentWasAccepted'
    BY <1>3, <1>4, <2>1, <2>2, SettleRowIInv
  <2>4. /\ worker'[w] = Idle /\ \A v \in Workers : v # w => worker'[v] = worker[v]
        /\ worker' \in [Workers -> {Idle} \union Delivery]
    BY <1>3 DEF TypeOK
  <2>5. OneWorkerPerAttempt' /\ DeliveryMatchesRow'
    BY <1>3, <1>5, <2>3, <2>4 DEF OneWorkerPerAttempt, DeliveryMatchesRow, Busy
  <2>6. QED
    BY <1>3, <2>3, <2>4, <2>5 DEF TypeOK
<1>7. CASE ~Terminal(w)
  <2> DEFINE r == [SettledRow(j, "PENDING") EXCEPT !.delay = now + Backoff(n)]
  <2>1. /\ r \in Row /\ r.status = "PENDING" /\ r.attempts = n
    BY <1>4, ClockArithmetic DEF SettledRow, Row, Statuses
  <2>2. row' = [row EXCEPT ![j] = r] /\ mail' = mail
    BY <1>2, <1>7
  <2> HIDE DEF r
  <2>3. row'[j] = r /\ \A k \in Jobs : k # j => row'[k] = row[k]
    BY <1>4, <2>2 DEF TypeOK
  <2>4. n < MaxAttempts
    BY <1>4, <1>7, OutboxAssumption DEF Terminal
  <2>5. \A k \in Jobs : row'[k].attempts = row[k].attempts
    BY <1>4, <2>1, <2>3
  <2>6. row' \in [Jobs -> Row] /\ AttemptBudget' /\ LeaseNamesAttempt'
    BY <1>3, <2>1, <2>2, <2>3, <2>4, <2>5 DEF AttemptBudget, LeaseNamesAttempt, TypeOK
  <2>7. OutcomeAgrees' /\ SentWasAccepted'
    BY <1>3, <1>4, <2>1, <2>2, <2>3 DEF OutcomeAgrees, SentWasAccepted, Settled
  <2>8. /\ worker'[w] = Idle /\ \A v \in Workers : v # w => worker'[v] = worker[v]
        /\ worker' \in [Workers -> {Idle} \union Delivery]
    BY <1>3 DEF TypeOK
  <2>9. OneWorkerPerAttempt' /\ DeliveryMatchesRow'
    BY <1>3, <1>5, <2>5, <2>8 DEF OneWorkerPerAttempt, DeliveryMatchesRow, Busy
  <2>10. QED
    BY <1>3, <2>2, <2>6, <2>7, <2>8, <2>9 DEF TypeOK
<1>8. QED
  BY <1>6, <1>7

-----------------------------------------------------------------------------
(* Every step.                                                             *)

(* Every step of the outbox preserves the invariant. *)
LEMMA NextIInv == IInv /\ [Next]_vars => IInv'
<1> SUFFICES ASSUME IInv, [Next]_vars PROVE IInv'
  OBVIOUS
<1>1. CASE Tick
  BY <1>1, TickIInv
<1>2. ASSUME NEW j \in Jobs, Enqueue(j) \/ CreateWithoutEmail(j) \/ Purge(j)
      PROVE  IInv'
  BY <1>2, EnqueueIInv, CreateWithoutEmailIInv, PurgeIInv
<1>3. ASSUME NEW w \in Workers, NEW j \in Jobs, Claim(w, j) \/ ClaimExhausted(w, j)
      PROVE  IInv'
  BY <1>3, ClaimIInv, ClaimExhaustedIInv
<1>4. ASSUME NEW w \in Workers, Deliver(w)
      PROVE  IInv'
  <2>1. CASE Superseded(w) \/ Lose(w)
    BY <2>1, ForgetIInv DEF Superseded, Lose
  <2>2. QED
    BY <1>4, <2>1, SmtpAcceptsIInv, SendReturnsIInv, RenewIInv, RenewFailsIInv,
       StopRenewIInv, CompleteIInv DEF Deliver
<1>5. CASE UNCHANGED vars
  BY <1>5 DEF vars, IInv, TypeOK, AttemptBudget, OneWorkerPerAttempt, OutcomeAgrees,
              SentWasAccepted, LeaseNamesAttempt, DeliveryMatchesRow, Busy
<1>6. QED
  BY <1>1, <1>2, <1>3, <1>4, <1>5 DEF Next

(* The inductive invariant holds in every reachable state. *)
THEOREM Inductive == Spec => []IInv
BY InitIInv, NextIInv, PTL DEF Spec

(* The variables stay within their types. *)
THEOREM TypeCorrect == Spec => []TypeOK
BY Inductive, PTL DEF IInv

(* No job is tried more than MaxAttempts times, a job waiting for a retry has
   an attempt left, and SMTP took only attempts that were started. *)
THEOREM Budget == Spec => []AttemptBudget
BY Inductive, PTL DEF IInv

(* No two workers ever deliver the same attempt of a job. *)
THEOREM Fencing == Spec => []OneWorkerPerAttempt
BY Inductive, PTL DEF IInv

(* The notification always shows what became of its job, and shows SENT only
   if SMTP took a copy. *)
THEOREM OutcomeIsTrue == Spec => [](OutcomeAgrees /\ SentWasAccepted)
BY Inductive, PTL DEF IInv

-----------------------------------------------------------------------------
(* Action properties.                                                      *)

(* A worker whose lease was taken over never settles or reschedules a job. *)
THEOREM OnlyLatestAttemptSettles == Spec => LatestAttemptSettles
<1> DEFINE Step ==
      \A j \in Jobs :
        row[j].status = "PROCESSING" /\ row'[j].status # "PROCESSING" =>
          \/ \E w \in Workers :
               /\ Busy(w) /\ worker[w].phase = "finishing" /\ worker'[w] = Idle
               /\ worker[w].job = j
               /\ worker[w].attempt = row[j].attempts
          \/ /\ row[j].attempts = MaxAttempts /\ row[j].until <= Skew
             /\ row'[j].status = "FAILED"
<1>1. IInv /\ [Next]_vars => [Step]_vars
  <2> SUFFICES ASSUME IInv, Next, NEW j \in Jobs,
                      row[j].status = "PROCESSING", row'[j].status # "PROCESSING"
               PROVE  \/ \E w \in Workers :
                           /\ Busy(w) /\ worker[w].phase = "finishing"
                           /\ worker'[w] = Idle
                           /\ worker[w].job = j
                           /\ worker[w].attempt = row[j].attempts
                      \/ /\ row[j].attempts = MaxAttempts /\ row[j].until <= Skew
                         /\ row'[j].status = "FAILED"
    BY DEF vars
  <2> USE DEF IInv
  <2>1. row[j] \in Row
    BY DEF TypeOK
  <2>2. CASE Tick
    BY <2>1, <2>2 DEF Tick, TypeOK, Row
  <2>3. ASSUME NEW k \in Jobs, Enqueue(k) \/ CreateWithoutEmail(k) \/ Purge(k)
        PROVE  FALSE
    BY <2>3 DEF Enqueue, CreateWithoutEmail, Purge, Retired, TypeOK, OutcomeAgrees
  <2>4. ASSUME NEW w \in Workers, NEW k \in Jobs, Claim(w, k)
        PROVE  FALSE
    BY <2>4 DEF Claim, ClaimedRow, TypeOK, Row
  <2>5. ASSUME NEW w \in Workers, NEW k \in Jobs, ClaimExhausted(w, k)
        PROVE  /\ row[j].attempts = MaxAttempts /\ row[j].until <= Skew
               /\ row'[j].status = "FAILED"
    <3>1. k = j
      BY <2>5 DEF ClaimExhausted, Told, TypeOK
    <3>2. row[j].attempts = MaxAttempts
      BY <2>1, <2>5, <3>1, OutboxAssumption DEF ClaimExhausted, Told, AttemptBudget, Row
    <3>3. row[j].until <= Skew
      BY <2>1, <2>5, <3>1, OutboxAssumption DEF ClaimExhausted, Told, Claimable, Clocks, Row
    <3>4. row'[j].status = "FAILED"
      BY <2>1, <2>5, <3>1 DEF ClaimExhausted, Told, SettledRow, TypeOK, Row
    <3>5. QED
      BY <3>2, <3>3, <3>4
  <2>6. ASSUME NEW w \in Workers, Complete(w)
        PROVE  /\ Busy(w) /\ worker[w].phase = "finishing" /\ worker'[w] = Idle
               /\ worker[w].job = j
               /\ worker[w].attempt = row[j].attempts
    <3>1. Busy(w) /\ worker[w].phase = "finishing" /\ worker'[w] = Idle
      BY <2>6 DEF Complete, Told, Busy, TypeOK
    <3>2. \A k \in Jobs : k # worker[w].job => row'[k] = row[k]
      BY <2>6 DEF Complete, Told, TypeOK
    <3>3. worker[w].job = j
      BY <3>2
    <3>4. worker[w].attempt = row[j].attempts
      BY <2>6, <3>3 DEF Complete, Told, StillOwned, LockedRow, LeaseNamesAttempt
    <3>5. QED
      BY <3>1, <3>3, <3>4
  <2>7. ASSUME NEW w \in Workers, Deliver(w), ~Complete(w)
        PROVE  FALSE
    <3>1. CASE Renew(w)
      BY <3>1 DEF Renew, TypeOK
    <3>2. CASE UNCHANGED row
      BY <3>2
    <3>3. QED
      BY <2>7, <3>1, <3>2 DEF Deliver, SmtpAccepts, SendReturns, RenewFails,
                              StopRenew, Superseded, Lose
  <2>8. QED
    BY <2>2, <2>3, <2>4, <2>5, <2>6, <2>7 DEF Next
<1>2. QED
  BY <1>1, Inductive, PTL DEF Spec, LatestAttemptSettles

(* What the recipient was told is never taken back, and no attempt is started
   for it again. *)
THEOREM OutcomeIsFinal == Spec => OutcomeFinal
<1> DEFINE Step ==
      \A j \in Jobs : mail[j] \in Settled =>
        /\ mail'[j] = mail[j]
        /\ row'[j].attempts = row[j].attempts
<1>1. IInv /\ [Next]_vars => [Step]_vars
  <2> SUFFICES ASSUME IInv, Next, NEW j \in Jobs, mail[j] \in Settled
               PROVE  mail'[j] = mail[j] /\ row'[j].attempts = row[j].attempts
    BY DEF vars
  <2> USE DEF IInv, Settled
  <2>1. /\ row[j] \in Row /\ mail[j] # "ABSENT"
        /\ row[j].status \notin {"PENDING", "PROCESSING"}
    BY DEF TypeOK, OutcomeAgrees
  <2>2. CASE Tick
    BY <2>1, <2>2 DEF Tick, TypeOK, Row
  <2>3. ASSUME NEW k \in Jobs, Enqueue(k) \/ CreateWithoutEmail(k) \/ Purge(k)
        PROVE  mail'[j] = mail[j] /\ row'[j].attempts = row[j].attempts
    BY <2>1, <2>3 DEF Enqueue, CreateWithoutEmail, Purge, Retired, TypeOK, Row
  <2>4. ASSUME NEW w \in Workers, NEW k \in Jobs, Claim(w, k) \/ ClaimExhausted(w, k)
        PROVE  mail'[j] = mail[j] /\ row'[j].attempts = row[j].attempts
    <3>1. k # j
      BY <2>1, <2>4 DEF Claim, ClaimExhausted, Told, Claimable
    <3>2. QED
      BY <2>4, <3>1 DEF Claim, ClaimExhausted, Told, TypeOK
  <2>5. ASSUME NEW w \in Workers, Complete(w)
        PROVE  mail'[j] = mail[j] /\ row'[j].attempts = row[j].attempts
    <3>1. worker[w].job # j
      BY <2>1, <2>5 DEF Complete, Told, StillOwned, LockedRow
    <3>2. QED
      BY <2>5, <3>1 DEF Complete, Told, TypeOK
  <2>6. ASSUME NEW w \in Workers, Deliver(w), ~Complete(w)
        PROVE  mail'[j] = mail[j] /\ row'[j].attempts = row[j].attempts
    <3>1. CASE Renew(w)
      BY <2>1, <3>1 DEF Renew, TypeOK, Row
    <3>2. CASE UNCHANGED <<row, mail>>
      BY <3>2
    <3>3. QED
      BY <2>6, <3>1, <3>2 DEF Deliver, SmtpAccepts, SendReturns, RenewFails,
                              StopRenew, Superseded, Lose
  <2>7. QED
    BY <2>2, <2>3, <2>4, <2>5, <2>6 DEF Next
<1>2. QED
  BY <1>1, Inductive, PTL DEF Spec, OutcomeFinal

-----------------------------------------------------------------------------
(* The outbox implements its contract.                                     *)

(* A step that keeps every attempt count keeps the contract's tries. *)
LEMMA TriesKept ==
  ASSUME \A k \in Jobs : row'[k].attempts = row[k].attempts
  PROVE  [k \in Jobs |-> row'[k].attempts] = [k \in Jobs |-> row[k].attempts]
OBVIOUS

(* Empty tables are the initial state of the contract. *)
LEMMA InitContract == Init => Contract!Init
BY DEF Init, Contract!Init, NoRow

(* A claim is the next try of the contract. *)
LEMMA ClaimContract ==
  ASSUME IInv, NEW w \in Workers, NEW j \in Jobs, Claim(w, j)
  PROVE  Contract!Try(j)
<1> USE DEF IInv
<1>1. mail[j] = "PENDING"
  BY DEF Claim, Claimable, OutcomeAgrees
<1>2. row'[j].attempts = row[j].attempts + 1
  BY DEF Claim, ClaimedRow, TypeOK, Row
<1>3. \A k \in Jobs : k # j => row'[k] = row[k]
  BY DEF Claim, TypeOK
<1>4. [k \in Jobs |-> row'[k].attempts]
        = [[k \in Jobs |-> row[k].attempts] EXCEPT ![j] = row[j].attempts + 1]
  BY <1>2, <1>3
<1>5. QED
  BY <1>1, <1>4 DEF Contract!Try, Claim

(* Writing a final status to row and notification settles the request. *)
LEMMA SettleContract ==
  ASSUME IInv, NEW j \in Jobs, NEW s \in {"SENT", "FAILED"},
         row[j].status \in {"PENDING", "PROCESSING"},
         row' = [row EXCEPT ![j] = SettledRow(j, s)],
         mail' = [mail EXCEPT ![j] = s],
         accepted' = accepted,
         s = "SENT" => accepted[j] # {},
         s = "FAILED" => row[j].attempts = MaxAttempts
  PROVE  Contract!Settle(j)
<1>1. mail[j] = "PENDING"
  BY DEF IInv, OutcomeAgrees
<1>2. \A k \in Jobs : row'[k].attempts = row[k].attempts
  BY SettleRowIInv
<1>3. QED
  BY <1>1, <1>2, TriesKept DEF Contract!Settle

(* The finishing transaction settles the request or is invisible. *)
LEMMA CompleteContract ==
  ASSUME IInv, NEW w \in Workers, Complete(w)
  PROVE  \/ \E j \in Jobs : Contract!Settle(j)
         \/ UNCHANGED Contract!vars
<1> USE DEF IInv
<1> DEFINE j == worker[w].job
<1>1. Busy(w) /\ worker[w] \in Delivery
  BY BusyIsDelivery DEF Busy, Complete, Told
<1>2. /\ j \in Jobs /\ row[j] \in Row /\ row[j].status = "PROCESSING"
      /\ row[j].attempts = worker[w].attempt
  BY <1>1 DEF Complete, Told, StillOwned, LockedRow, LeaseNamesAttempt, Delivery, TypeOK
<1>3. CASE Terminal(w)
  <2>1. /\ row' = [row EXCEPT ![j] = SettledRow(j, FinalStatus(w))]
        /\ mail' = [mail EXCEPT ![j] = FinalStatus(w)]
        /\ accepted' = accepted
    BY <1>3 DEF Complete, Told
  <2>2. /\ FinalStatus(w) \in {"SENT", "FAILED"}
        /\ FinalStatus(w) = "SENT" => accepted[j] # {}
    BY <1>1 DEF FinalStatus, DeliveryMatchesRow
  <2>3. FinalStatus(w) = "FAILED" => row[j].attempts = MaxAttempts
    BY <1>2, <1>3, OutboxAssumption DEF Terminal, FinalStatus, AttemptBudget, Row
  <2>4. Contract!Settle(j)
    BY <1>2, <2>1, <2>2, <2>3, SettleContract
  <2>5. QED
    BY <1>2, <2>4
<1>4. CASE ~Terminal(w)
  <2>1. PICK now \in Clocks :
          row' = [row EXCEPT ![j] =
                   [SettledRow(j, "PENDING") EXCEPT
                      !.delay = now + Backoff(worker[w].attempt)]]
    BY <1>4 DEF Complete, Told
  <2>2. \A k \in Jobs : row'[k].attempts = row[k].attempts
    BY <1>2, <2>1 DEF SettledRow, TypeOK, Row
  <2>3. UNCHANGED <<mail, accepted>>
    BY <1>4 DEF Complete, Told
  <2>4. QED
    BY <2>2, <2>3, TriesKept DEF Contract!vars
<1>5. QED
  BY <1>3, <1>4

(* A message taken by SMTP is the copy of a try that had none. *)
LEMMA SmtpAcceptsContract ==
  ASSUME IInv, NEW w \in Workers, SmtpAccepts(w)
  PROVE  \E j \in Jobs : Contract!Deliver(j)
<1> USE DEF IInv
<1> DEFINE j == worker[w].job
           n == worker[w].attempt
<1>1. Busy(w) /\ worker[w] \in Delivery
  BY BusyIsDelivery DEF Busy, SmtpAccepts
<1>2. j \in Jobs /\ n \in 1..row[j].attempts /\ n \notin accepted[j]
  BY <1>1 DEF SmtpAccepts, DeliveryMatchesRow, Delivery
<1>3. UNCHANGED <<row, mail>> /\ accepted' = [accepted EXCEPT ![j] = @ \union {n}]
  BY DEF SmtpAccepts
<1>4. Contract!Deliver(j)
  BY <1>2, <1>3 DEF Contract!Deliver
<1>5. QED
  BY <1>2, <1>4

(* Every step of the outbox is a step of the contract or invisible to it. *)
LEMMA NextContract == IInv /\ [Next]_vars => [Contract!Next]_(Contract!vars)
<1> SUFFICES ASSUME IInv, [Next]_vars PROVE Contract!Next \/ UNCHANGED Contract!vars
  OBVIOUS
<1> USE DEF IInv
<1>1. CASE Tick
  <2>1. \A k \in Jobs : row'[k].attempts = row[k].attempts
    BY <1>1 DEF Tick, TypeOK, Row
  <2>2. QED
    BY <1>1, <2>1, TriesKept DEF Contract!vars, Tick
<1>2. ASSUME NEW j \in Jobs, Enqueue(j)
      PROVE  Contract!Request(j)
  <2>1. \A k \in Jobs : row'[k].attempts = row[k].attempts
    BY <1>2 DEF Enqueue, NewRow, TypeOK, Row, Statuses, OutcomeAgrees, LeaseNamesAttempt,
                Settled
  <2>2. QED
    BY <1>2, <2>1, TriesKept DEF Contract!Request, Enqueue
<1>3. ASSUME NEW j \in Jobs, CreateWithoutEmail(j)
      PROVE  Contract!Decline(j)
  BY <1>3 DEF Contract!Decline, CreateWithoutEmail
<1>4. ASSUME NEW j \in Jobs, Purge(j)
      PROVE  UNCHANGED Contract!vars
  <2>1. \A k \in Jobs : row'[k].attempts = row[k].attempts
    BY <1>4 DEF Purge, Retired, TypeOK, Row
  <2>2. QED
    BY <1>4, <2>1, TriesKept DEF Contract!vars, Purge, Retired
<1>5. ASSUME NEW w \in Workers, NEW j \in Jobs, ClaimExhausted(w, j)
      PROVE  Contract!Settle(j)
  <2>1. /\ row[j].status \in {"PENDING", "PROCESSING"}
        /\ row[j].attempts = MaxAttempts
    BY <1>5, OutboxAssumption DEF ClaimExhausted, Told, Claimable, AttemptBudget, TypeOK, Row
  <2>2. QED
    BY <1>5, <2>1, SettleContract DEF ClaimExhausted, Told
<1>6. ASSUME NEW w \in Workers, Renew(w)
      PROVE  UNCHANGED Contract!vars
  <2>1. \A k \in Jobs : row'[k].attempts = row[k].attempts
    BY <1>6 DEF Renew, TypeOK, Row
  <2>2. QED
    BY <1>6, <2>1, TriesKept DEF Contract!vars, Renew
<1>7. ASSUME NEW w \in Workers, UNCHANGED <<row, mail, accepted>>
      PROVE  UNCHANGED Contract!vars
  BY <1>7 DEF Contract!vars
<1>8. ASSUME NEW w \in Workers, Deliver(w)
      PROVE  Contract!Next \/ UNCHANGED Contract!vars
  <2>1. CASE Complete(w)
    BY <2>1, CompleteContract DEF Contract!Next
  <2>2. CASE SmtpAccepts(w)
    BY <2>2, SmtpAcceptsContract DEF Contract!Next
  <2>3. CASE Renew(w)
    BY <2>3, <1>6
  <2>4. CASE UNCHANGED <<row, mail, accepted>>
    BY <2>4, <1>7
  <2>5. QED
    BY <1>8, <2>1, <2>2, <2>3, <2>4 DEF Deliver, SendReturns, RenewFails, StopRenew,
                                        Superseded, Lose
<1>9. CASE UNCHANGED vars
  BY <1>9 DEF vars, Contract!vars
<1>10. QED
  BY <1>1, <1>2, <1>3, <1>4, <1>5, <1>8, <1>9, ClaimContract DEF Next, Contract!Next

(* Leases, renewals, crashes, lost answers and clock skew are invisible in the
   contract: bounded tries, at most one copy per try, SENT only with a copy,
   FAILED only with the budget spent, and no outcome ever revised. *)
THEOREM Implementation == Spec => ImplementsContract
BY InitContract, NextContract, Inductive, PTL
DEF Spec, ImplementsContract, Contract!Spec
=============================================================================
