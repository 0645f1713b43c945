---------------------------- MODULE EmailOutbox ----------------------------
(***************************************************************************)
(* The email outbox: notification creation writes one job row, and the     *)
(* worker loops of any number of hosts claim jobs under a lease, send by   *)
(* SMTP outside any transaction, and settle the job if the lease still     *)
(* stands.  Instants are kept as the ticks that are left until them on the *)
(* database clock, so time needs no horizon; a host clock may read up to   *)
(* Skew ticks more or less than the database's.                            *)
(***************************************************************************)
EXTENDS Integers, Sequences

CONSTANTS
  Jobs,         \* notifications, each with at most one job
  Workers,      \* worker goroutines, of one or several processes
  MaxAttempts,  \* WORKER_MAX_ATTEMPTS
  LeaseTicks,   \* WORKER_LEASE_SECONDS
  Retries,      \* the back-off after the first, second... attempt
  Skew          \* how far a host clock is from the database clock

ASSUME OutboxAssumption ==
  /\ MaxAttempts \in Nat \ {0}
  /\ LeaseTicks \in Nat \ {0}
  /\ Retries \in Seq(Nat) /\ Len(Retries) > 0
  /\ Skew \in Nat

VARIABLES
  row,       \* the email_jobs table
  mail,      \* notifications.email_status
  worker,    \* what each worker goroutine is doing
  accepted   \* history: the attempts of a job whose message SMTP took

vars == <<row, mail, worker, accepted>>

-----------------------------------------------------------------------------

Past == -Skew                  \* an instant every clock has passed
Clocks == -Skew .. Skew        \* a host clock, relative to the database's

Statuses == {"NONE", "PENDING", "PROCESSING", "SENT", "FAILED", "DELETED"}
Outcomes == {"ABSENT", "NOT_REQUESTED", "PENDING", "SENT", "FAILED"}

\* lease 0 stands for NULL; a lease id is fresh at every claim, as is the
\* number of attempts, which names it.
Row == [status : Statuses, attempts : Nat, lease : Nat, until : Int, delay : Int]
NoRow == [status |-> "NONE", attempts |-> 0, lease |-> 0,
          until |-> Past, delay |-> Past]
NewRow == [status |-> "PENDING", attempts |-> 0, lease |-> 0,
           until |-> Past, delay |-> 0]

Idle == [phase |-> "idle"]
Delivery ==
  [phase : {"sending", "stopping", "finishing"}, job : Jobs, attempt : Nat,
   renewed : BOOLEAN, taken : BOOLEAN, success : BOOLEAN]

TypeOK ==
  /\ row \in [Jobs -> Row]
  /\ mail \in [Jobs -> Outcomes]
  /\ worker \in [Workers -> {Idle} \union Delivery]
  /\ accepted \in [Jobs -> SUBSET Nat]

Init ==
  /\ row = [j \in Jobs |-> NoRow]
  /\ mail = [j \in Jobs |-> "ABSENT"]
  /\ worker = [w \in Workers |-> Idle]
  /\ accepted = [j \in Jobs |-> {}]

-----------------------------------------------------------------------------
(* Creating a notification.                                                *)

\* The row and the notification commit in one transaction.
Enqueue(j) ==
  /\ mail[j] = "ABSENT"
  /\ mail' = [mail EXCEPT ![j] = "PENDING"]
  /\ row' = [row EXCEPT ![j] = NewRow]
  /\ UNCHANGED <<worker, accepted>>

\* No email is asked for, or one is while SMTP is disabled.
CreateWithoutEmail(j) ==
  /\ mail[j] = "ABSENT"
  /\ \E s \in {"NOT_REQUESTED", "FAILED"} : mail' = [mail EXCEPT ![j] = s]
  /\ UNCHANGED <<row, worker, accepted>>

-----------------------------------------------------------------------------
(* Claiming.  The claim transaction locks the row it picks and skips rows  *)
(* that are locked, so it is one step.  Rows are taken in any order, which *)
(* includes the order by available_at.                                     *)

\* Mutant: jobs whose worker died are not recovered.
ClaimablePendingOnly(j, now) == row[j].status = "PENDING" /\ row[j].delay <= now

Claimable(j, now) ==
  \/ row[j].status = "PENDING" /\ row[j].delay <= now
  \/ row[j].status = "PROCESSING" /\ row[j].until <= now

\* Mutant: an attempt is counted when it ends, not when it is claimed.
ClaimedRowUncounted(j, now) ==
  [row[j] EXCEPT !.status = "PROCESSING", !.lease = row[j].attempts + 1,
                 !.until = now + LeaseTicks]

ClaimedRow(j, now) ==
  [row[j] EXCEPT !.status = "PROCESSING", !.attempts = @ + 1,
                 !.lease = row[j].attempts + 1, !.until = now + LeaseTicks]

DeliveryOf(j, attempt) ==
  [phase |-> "sending", job |-> j, attempt |-> attempt,
   renewed |-> TRUE, taken |-> FALSE, success |-> FALSE]

\* The worker may fail to learn that its claim committed; the job then waits
\* for the lease to run out.
Claim(w, j) ==
  /\ worker[w] = Idle
  /\ \E now \in Clocks :
       /\ Claimable(j, now)
       /\ row[j].attempts < MaxAttempts
       /\ row' = [row EXCEPT ![j] = ClaimedRow(j, now)]
  /\ \E next \in {Idle, DeliveryOf(j, row'[j].attempts)} :
       worker' = [worker EXCEPT ![w] = next]
  /\ UNCHANGED <<mail, accepted>>

\* What the recipient reads on the notification.
Told(j, s) == [mail EXCEPT ![j] = s]

SettledRow(j, s) == [row[j] EXCEPT !.status = s, !.lease = 0, !.until = Past]

\* Mutant: the notification is not told.
ClaimExhaustedSilently(w, j) ==
  /\ worker[w] = Idle
  /\ \E now \in Clocks : Claimable(j, now)
  /\ row[j].attempts >= MaxAttempts
  /\ row' = [row EXCEPT ![j] = SettledRow(j, "FAILED")]
  /\ UNCHANGED <<mail, worker, accepted>>

\* A job recovered after its last attempt is failed without another send.
ClaimExhausted(w, j) ==
  /\ worker[w] = Idle
  /\ \E now \in Clocks : Claimable(j, now)
  /\ row[j].attempts >= MaxAttempts
  /\ row' = [row EXCEPT ![j] = SettledRow(j, "FAILED")]
  /\ mail' = Told(j, "FAILED")
  /\ UNCHANGED <<worker, accepted>>

-----------------------------------------------------------------------------
(* Delivering: the send and the renewal goroutine run side by side.        *)

SmtpAccepts(w) ==
  /\ worker[w] # Idle /\ worker[w].phase = "sending" /\ ~worker[w].taken
  /\ worker' = [worker EXCEPT ![w].taken = TRUE]
  /\ accepted' = [accepted EXCEPT ![worker[w].job] = @ \union {worker[w].attempt}]
  /\ UNCHANGED <<row, mail>>

\* Send returns nil only if SMTP took the message; an error, or the 25 second
\* timeout, says nothing about it.
SendReturns(w) ==
  /\ worker[w] # Idle /\ worker[w].phase = "sending"
  /\ \E ok \in BOOLEAN :
       /\ ok => worker[w].taken
       /\ worker' = [worker EXCEPT ![w].phase = "stopping", ![w].success = ok]
  /\ UNCHANGED <<row, mail, accepted>>

Renewing(w) ==
  /\ worker[w] # Idle
  /\ worker[w].phase \in {"sending", "stopping"}
  /\ worker[w].renewed

\* RenewEmail compares the lease with the database clock.
Renewable(w) ==
  LET r == row[worker[w].job] IN
  r.status = "PROCESSING" /\ r.lease = worker[w].attempt /\ r.until > 0

\* The update reached the row; while sending, its answer may still be lost.
Renew(w) ==
  /\ Renewing(w) /\ Renewable(w)
  /\ \E now \in Clocks :
       row' = [row EXCEPT ![worker[w].job].until = now + LeaseTicks]
  /\ \/ UNCHANGED worker
     \/ /\ worker[w].phase = "sending"
        /\ worker' = [worker EXCEPT ![w].renewed = FALSE]
  /\ UNCHANGED <<mail, accepted>>

\* No row matched, or the query failed before the send was over.
RenewFails(w) ==
  /\ Renewing(w)
  /\ worker[w].phase = "sending" \/ ~Renewable(w)
  /\ worker' = [worker EXCEPT ![w].renewed = FALSE]
  /\ UNCHANGED <<row, mail, accepted>>

\* stopRenew(), and the answer of the renewal goroutine.
StopRenew(w) ==
  /\ worker[w] # Idle /\ worker[w].phase = "stopping"
  /\ worker' = IF worker[w].renewed
               THEN [worker EXCEPT ![w].phase = "finishing"]
               ELSE [worker EXCEPT ![w] = Idle]
  /\ UNCHANGED <<row, mail, accepted>>

-----------------------------------------------------------------------------
(* Finishing: one transaction that locks the row before it looks at it.    *)

\* The row as the finishing transaction reads it, under its lock.
LockedRow(w) == row[worker[w].job]

\* Mutant: any running lease will do.
StillOwnedByAnyone(w, now) ==
  LET r == LockedRow(w) IN
  r.status = "PROCESSING" /\ r.until > now

StillOwned(w, now) ==
  LET r == LockedRow(w) IN
  r.status = "PROCESSING" /\ r.lease = worker[w].attempt /\ r.until > now

Backoff(n) == Retries[IF n <= Len(Retries) THEN n ELSE Len(Retries)]

\* The delivery is over for good: it succeeded or was the last one allowed.
Terminal(w) == worker[w].success \/ worker[w].attempt >= MaxAttempts

\* Mutant: the last failure is reported as sent.
FinalStatusSent(w) == "SENT"

\* Mutant: a status of notifications written to the job row.
FinalStatusOfNotification(w) == IF worker[w].success THEN "SENT" ELSE "NOT_REQUESTED"

FinalStatus(w) == IF worker[w].success THEN "SENT" ELSE "FAILED"

Complete(w) ==
  LET j == worker[w].job IN
  /\ worker[w] # Idle /\ worker[w].phase = "finishing"
  /\ \E now \in Clocks :
       /\ StillOwned(w, now)
       /\ IF Terminal(w)
          THEN /\ row' = [row EXCEPT ![j] = SettledRow(j, FinalStatus(w))]
               /\ mail' = Told(j, FinalStatus(w))
          ELSE /\ row' = [row EXCEPT ![j] =
                            [SettledRow(j, "PENDING") EXCEPT
                               !.delay = now + Backoff(worker[w].attempt)]]
               /\ UNCHANGED mail
  /\ worker' = [worker EXCEPT ![w] = Idle]
  /\ UNCHANGED accepted

\* The lease is gone or has run out: the result is dropped.
Superseded(w) ==
  /\ worker[w] # Idle /\ worker[w].phase = "finishing"
  /\ \E now \in Clocks : ~StillOwned(w, now)
  /\ worker' = [worker EXCEPT ![w] = Idle]
  /\ UNCHANGED <<row, mail, accepted>>

\* The process dies, or the finishing transaction fails and rolls back.  The
\* goroutine that restarts knows nothing of the delivery.
Lose(w) ==
  /\ worker[w] # Idle
  /\ worker' = [worker EXCEPT ![w] = Idle]
  /\ UNCHANGED <<row, mail, accepted>>

-----------------------------------------------------------------------------

\* Settled before the cutoff, which may be any time ago.
Retired(j) == row[j].status \in {"SENT", "FAILED"}

\* The retention job deletes a settled row; its other fields are kept here
\* as history.
Purge(j) ==
  /\ Retired(j)
  /\ row' = [row EXCEPT ![j].status = "DELETED"]
  /\ UNCHANGED <<mail, worker, accepted>>

Sooner(t) == IF t > Past THEN t - 1 ELSE Past

Tick ==
  /\ \E j \in Jobs : row[j].until > Past \/ row[j].delay > Past
  /\ row' = [j \in Jobs |-> [row[j] EXCEPT !.until = Sooner(@), !.delay = Sooner(@)]]
  /\ UNCHANGED <<mail, worker, accepted>>

Deliver(w) ==
  \/ SmtpAccepts(w) \/ SendReturns(w) \/ Renew(w) \/ RenewFails(w) \/ StopRenew(w)
  \/ Complete(w) \/ Superseded(w) \/ Lose(w)

Next ==
  \/ Tick
  \/ \E j \in Jobs : Enqueue(j) \/ CreateWithoutEmail(j) \/ Purge(j)
  \/ \E w \in Workers, j \in Jobs : Claim(w, j) \/ ClaimExhausted(w, j)
  \/ \E w \in Workers : Deliver(w)

Spec == Init /\ [][Next]_vars

\* Time passes, and every worker loop keeps taking its next step: it polls
\* for claimable jobs, Send is bounded by its timeout, and the finishing
\* transaction ends.  SMTP owes nothing, and faults may strike at any time.
Fairness ==
  /\ WF_vars(Tick)
  /\ \A w \in Workers :
       /\ WF_vars(\E j \in Jobs : Claim(w, j) \/ ClaimExhausted(w, j))
       /\ WF_vars(SendReturns(w))
       /\ WF_vars(StopRenew(w))
       /\ WF_vars(Complete(w) \/ Superseded(w))

FairSpec == Spec /\ Fairness

-----------------------------------------------------------------------------
(* Properties.                                                             *)

Settled == {"SENT", "FAILED"}
Busy(w) == worker[w] # Idle

(* Every job keeps within its budget (worker.go claim): no attempt beyond
   MaxAttempts is started, a job put back for a retry always has an attempt
   left, and SMTP took messages only of attempts that were started. *)
AttemptBudget ==
  \A j \in Jobs :
    /\ row[j].attempts <= MaxAttempts
    /\ row[j].status = "PENDING" => row[j].attempts < MaxAttempts
    /\ accepted[j] \subseteq 1..row[j].attempts

(* Two goroutines may be sending the same job once a lease ran out, but never
   on behalf of the same attempt, so one attempt hands SMTP at most one copy
   and only one of the two can still settle the job (worker.go claim re-reads
   the row it claimed). *)
OneWorkerPerAttempt ==
  \A v, w \in Workers :
    v # w /\ Busy(v) /\ Busy(w) /\ worker[v].job = worker[w].job
      => worker[v].attempt # worker[w].attempt

(* What the recipient reads on the notification is what the job row says,
   through every claim, retry, recovery and purge (worker.go, the two calls of
   SetNotificationEmailStatus; service.go Create). *)
OutcomeAgrees ==
  \A j \in Jobs :
    /\ row[j].status \in {"PENDING", "PROCESSING"} <=> mail[j] = "PENDING"
    /\ row[j].status \in Settled => mail[j] = row[j].status
    /\ row[j].status = "DELETED" => mail[j] \in Settled

(* A notification is shown as SENT only if SMTP took a copy of it. *)
SentWasAccepted == \A j \in Jobs : mail[j] = "SENT" => accepted[j] # {}

(* A job leaves PROCESSING only on the word of its latest attempt, or, with
   its budget spent, because its lease had run out: a worker whose lease was
   taken over never settles or reschedules the job (worker.go deliver, the
   comparison under LockEmail). *)
LatestAttemptSettles ==
  [][\A j \in Jobs :
       row[j].status = "PROCESSING" /\ row'[j].status # "PROCESSING" =>
         \/ \E w \in Workers :
              /\ Busy(w) /\ worker[w].phase = "finishing" /\ worker'[w] = Idle
              /\ worker[w].job = j
              /\ worker[w].attempt = row[j].attempts
         \/ /\ row[j].attempts = MaxAttempts /\ row[j].until <= Skew
            /\ row'[j].status = "FAILED"]_vars

(* Once the recipient has been told SENT or FAILED, no late worker changes
   the answer, and no attempt is started again. *)
OutcomeFinal ==
  [][\A j \in Jobs : mail[j] \in Settled =>
       /\ mail'[j] = mail[j]
       /\ row'[j].attempts = row[j].attempts]_vars

(* Every requested email is eventually reported SENT or FAILED, whatever
   crashes, lost claims and failed transactions happen on the way. *)
EveryJobSettles ==
  \A j \in Jobs : mail[j] = "PENDING" ~> mail[j] \in Settled

(* What a row says of its lease, and what a delivery in memory still has in
   common with the row it came from: the lease names the row's latest attempt,
   a delivery's attempt is one the row has counted, and SMTP's answer to it is
   recorded once.  With the invariants above it is preserved by every step
   (proved in EmailOutboxProofs). *)
LeaseNamesAttempt ==
  \A j \in Jobs :
    /\ row[j].status = "PROCESSING" =>
         row[j].lease = row[j].attempts /\ row[j].attempts > 0
    /\ row[j].status = "NONE" => row[j].attempts = 0

DeliveryMatchesRow ==
  \A w \in Workers : Busy(w) =>
    /\ worker[w].attempt \in 1..row[worker[w].job].attempts
    /\ worker[w].success => worker[w].taken
    /\ worker[w].taken <=> worker[w].attempt \in accepted[worker[w].job]

IInv ==
  /\ TypeOK
  /\ AttemptBudget
  /\ OneWorkerPerAttempt
  /\ OutcomeAgrees
  /\ SentWasAccepted
  /\ LeaseNamesAttempt
  /\ DeliveryMatchesRow

Contract == INSTANCE OutboxContract WITH
  outcome <- mail,
  tries <- [j \in Jobs |-> row[j].attempts],
  copies <- accepted

(* The outbox implements its contract (OutboxContract): bounded tries, at most
   one copy per try, outcome settled once and for a reason. *)
ImplementsContract == Contract!Spec
=============================================================================
