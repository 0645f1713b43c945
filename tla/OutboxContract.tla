--------------------------- MODULE OutboxContract ---------------------------
(***************************************************************************)
(* What the email outbox promises for one notification, without workers,   *)
(* leases or clocks.  A request is opened once, may be tried at most       *)
(* MaxAttempts times, each try hands SMTP at most one copy, and the        *)
(* outcome shown on the notification is settled once: SENT only after      *)
(* SMTP took a copy, FAILED only when every try has been used.             *)
(***************************************************************************)
EXTENDS Naturals

CONSTANTS Jobs, MaxAttempts

VARIABLES
  outcome,  \* the email status the recipient of a notification sees
  tries,    \* how many delivery attempts have been started
  copies    \* the attempts whose message SMTP took

vars == <<outcome, tries, copies>>

Init ==
  /\ outcome = [j \in Jobs |-> "ABSENT"]
  /\ tries = [j \in Jobs |-> 0]
  /\ copies = [j \in Jobs |-> {}]

\* A notification that asks for no email, or cannot have one, is final.
Decline(j) ==
  /\ outcome[j] = "ABSENT"
  /\ \E s \in {"NOT_REQUESTED", "FAILED"} : outcome' = [outcome EXCEPT ![j] = s]
  /\ UNCHANGED <<tries, copies>>

Request(j) ==
  /\ outcome[j] = "ABSENT"
  /\ outcome' = [outcome EXCEPT ![j] = "PENDING"]
  /\ UNCHANGED <<tries, copies>>

Try(j) ==
  /\ outcome[j] = "PENDING"
  /\ tries[j] < MaxAttempts
  /\ tries' = [tries EXCEPT ![j] = @ + 1]
  /\ UNCHANGED <<outcome, copies>>

\* SMTP may take the message of a try that was given up or overtaken, even
\* after the outcome is settled: delivery is at least once.
Deliver(j) ==
  /\ \E n \in 1..tries[j] :
       /\ n \notin copies[j]
       /\ copies' = [copies EXCEPT ![j] = @ \union {n}]
  /\ UNCHANGED <<outcome, tries>>

Settle(j) ==
  /\ outcome[j] = "PENDING"
  /\ \/ /\ copies[j] # {}
        /\ outcome' = [outcome EXCEPT ![j] = "SENT"]
     \/ /\ tries[j] = MaxAttempts
        /\ outcome' = [outcome EXCEPT ![j] = "FAILED"]
  /\ UNCHANGED <<tries, copies>>

Next ==
  \E j \in Jobs :
    Decline(j) \/ Request(j) \/ Try(j) \/ Deliver(j) \/ Settle(j)

Spec == Init /\ [][Next]_vars
=============================================================================
