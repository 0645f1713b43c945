------------------------- MODULE NotificationStream -------------------------
(***************************************************************************)
(* The notifications of one recipient: how they are numbered, streamed and *)
(* paged.  A stream polls for what lies after its cursor and never looks   *)
(* back, so a number must not become visible after a higher one.           *)
(*                                                                         *)
(* A client follows the stream over connections that break at any point,   *)
(* with events that were flushed and did not arrive; it comes back with    *)
(* the id of the last event it received, or anew without one.              *)
(***************************************************************************)
EXTENDS Naturals, Sequences, FiniteSets

CONSTANTS
  Creators,   \* requests that create a notification
  MaxRows,    \* bound: notifications in a behaviour
  BatchSize,  \* the LIMIT of NotificationBacklog, 50
  PageSize,   \* the rows of a page, 50
  MaxDrops    \* bound: connections that end

ASSUME StreamAssumption ==
  /\ MaxRows \in Nat /\ MaxDrops \in Nat
  /\ BatchSize \in Nat \ {0} /\ PageSize \in Nat \ {0}

VARIABLES
  active,   \* the recipient's account is not deleted
  counter,  \* notification_counters.sequence
  row,      \* notifications, by sequence number
  creating, \* the number a transaction has allocated, 0 for none
  stream,   \* the handler of the open connection
  wire,     \* events flushed and not received yet
  client,   \* what the client knows
  pager,    \* a client that follows X-Next-Cursor
  drops     \* bound: connections ended so far

vars == <<active, counter, row, creating, stream, wire, client, pager, drops>>

-----------------------------------------------------------------------------

Numbers == 1..MaxRows
Closed == [open |-> FALSE]
Streams == [open : {TRUE}, sequence : 0..MaxRows, has : BOOLEAN, unreadOnly : BOOLEAN,
            batch : Seq(Numbers)]

Visible == {n \in Numbers : row[n] # "none"}

\* Every value is of its type, and the numbers given out have no holes.
TypeOK ==
  /\ active \in BOOLEAN
  /\ counter \in 0..MaxRows
  /\ row \in [Numbers -> {"none", "unread", "read"}]
  /\ creating \in [Creators -> 0..MaxRows]
  /\ stream \in {Closed} \union Streams
  /\ wire \in Seq(Numbers)
  /\ client \in [last : 0..MaxRows, received : SUBSET Numbers]
  /\ pager \in [phase : {"idle", "paging", "done"}, cursor : 0..MaxRows,
                from : SUBSET Numbers, seen : Seq(Numbers)]
  /\ drops \in 0..MaxDrops
  /\ Visible \union ({creating[c] : c \in Creators} \ {0}) = 1..counter

Init ==
  /\ active = TRUE
  /\ counter = 0
  /\ row = [n \in Numbers |-> "none"]
  /\ creating = [c \in Creators |-> 0]
  /\ stream = Closed
  /\ wire = <<>>
  /\ client = [last |-> 0, received |-> {}]
  /\ pager = [phase |-> "idle", cursor |-> 0, from |-> {}, seen |-> <<>>]
  /\ drops = 0

-----------------------------------------------------------------------------
(* Creating.  The transaction locks the recipient and the counter until it *)
(* commits; what it wrote is seen by nobody before.                        *)

\* Mutant: numbers are handed out without a lock.
UnlockedAlways == TRUE

Unlocked == \A c \in Creators : creating[c] = 0

NextSequence == counter + 1

Allocate(c) ==
  /\ creating[c] = 0 /\ Unlocked /\ active
  /\ counter < MaxRows
  /\ counter' = NextSequence
  /\ creating' = [creating EXCEPT ![c] = NextSequence]
  /\ UNCHANGED <<active, row, stream, wire, client, pager, drops>>

Created(n) == [row EXCEPT ![n] = "unread"]

CommitCreate(c) ==
  /\ creating[c] # 0
  /\ row' = Created(creating[c])
  /\ creating' = [creating EXCEPT ![c] = 0]
  /\ UNCHANGED <<active, counter, stream, wire, client, pager, drops>>

\* Mutant: the counter keeps its value.
AbortCreateCounted(c) ==
  /\ creating[c] # 0
  /\ creating' = [creating EXCEPT ![c] = 0]
  /\ UNCHANGED <<active, counter, row, stream, wire, client, pager, drops>>

\* The counter rolls back with the rest.
AbortCreate(c) ==
  /\ creating[c] # 0
  /\ counter' = creating[c] - 1
  /\ creating' = [creating EXCEPT ![c] = 0]
  /\ UNCHANGED <<active, row, stream, wire, client, pager, drops>>

\* What is read already stays as it is.
Unread(n) == row[n] = "unread"

MarkRead(n) ==
  /\ Unread(n)
  /\ row' = [row EXCEPT ![n] = "read"]
  /\ UNCHANGED <<active, counter, creating, stream, wire, client, pager, drops>>

\* The recipient is deleted; the deletion waits for the lock too.
Deactivate ==
  /\ active /\ Unlocked
  /\ active' = FALSE
  /\ UNCHANGED <<counter, row, creating, stream, wire, client, pager, drops>>

-----------------------------------------------------------------------------
(* The stream.                                                             *)

\* The cursor must name a notification of the recipient.
ValidCursor(n) == n \in Visible

\* A client without a cursor starts afresh, with what is unread.
Connect ==
  /\ ~stream.open /\ active
  /\ \/ /\ ValidCursor(client.last)
        /\ stream' = [open |-> TRUE, sequence |-> client.last, has |-> TRUE,
                      unreadOnly |-> FALSE, batch |-> <<>>]
        /\ UNCHANGED client
     \/ /\ stream' = [open |-> TRUE, sequence |-> 0, has |-> FALSE,
                      unreadOnly |-> TRUE, batch |-> <<>>]
        /\ client' = [last |-> 0, received |-> {}]
  /\ wire' = <<>>
  /\ UNCHANGED <<active, counter, row, creating, pager, drops>>

\* Mutant: the cursor's own row is sent again.
BacklogFromCursor ==
  {n \in Visible : /\ IF stream.has THEN n >= stream.sequence ELSE row[n] = "unread"
                   /\ stream.unreadOnly => row[n] = "unread"}

Backlog ==
  {n \in Visible : /\ IF stream.has THEN n > stream.sequence ELSE row[n] = "unread"
                   /\ stream.unreadOnly => row[n] = "unread"}

\* The numbers of a set in ascending order, and how many a LIMIT leaves.
Ascending(S) ==
  CHOOSE s \in [1..Cardinality(S) -> S] :
    \A i, j \in 1..Cardinality(S) : i < j => s[i] < s[j]
Limit(k, S) == IF Cardinality(S) < k THEN Cardinality(S) ELSE k

\* Mutant: a long backlog is cut to its newest rows.
LowestOfNewest(k, S) ==
  [i \in 1..Limit(k, S) |-> Ascending(S)[Cardinality(S) - Limit(k, S) + i]]

\* The k lowest numbers of a set, in ascending order.
Lowest(k, S) == [i \in 1..Limit(k, S) |-> Ascending(S)[i]]

\* By the ticker, or at once after a full batch.
Poll ==
  /\ stream.open /\ stream.batch = <<>>
  /\ active
  /\ Backlog # {}
  /\ stream' = [stream EXCEPT !.batch = Lowest(BatchSize, Backlog)]
  /\ UNCHANGED <<active, counter, row, creating, wire, client, pager, drops>>

\* One event is written and flushed, with no transaction open.
WriteEvent ==
  /\ stream.open /\ stream.batch # <<>>
  /\ wire' = Append(wire, Head(stream.batch))
  /\ stream' = [stream EXCEPT !.sequence = Head(stream.batch), !.has = TRUE,
                              !.batch = Tail(stream.batch)]
  /\ UNCHANGED <<active, counter, row, creating, client, pager, drops>>

\* The deadline, a failed write or query, a client that goes away.
Close ==
  /\ stream.open
  /\ drops < MaxDrops /\ drops' = drops + 1
  /\ stream' = Closed /\ wire' = <<>>
  /\ UNCHANGED <<active, counter, row, creating, client, pager>>

\* A poll finds the account deleted.
CloseInactive ==
  /\ stream.open /\ stream.batch = <<>> /\ ~active
  /\ stream' = Closed
  /\ UNCHANGED <<active, counter, row, creating, wire, client, pager, drops>>

Receive ==
  /\ wire # <<>>
  /\ client' = [last |-> Head(wire), received |-> client.received \union {Head(wire)}]
  /\ wire' = Tail(wire)
  /\ UNCHANGED <<active, counter, row, creating, stream, pager, drops>>

-----------------------------------------------------------------------------
(* Paging downwards, while notifications are created.                      *)

Below == {n \in Visible : pager.cursor = 0 \/ n < pager.cursor}

\* The k highest numbers of a set, in descending order.
Highest(k, S) == [i \in 1..Limit(k, S) |-> Ascending(S)[Cardinality(S) + 1 - i]]

\* Mutant: the cursor is the row that showed there is a next page.
NextCursorPastPage(S) == IF Cardinality(S) > PageSize THEN Highest(PageSize + 1, S)[PageSize + 1] ELSE 0

\* The id of the last row of a page with a next one.
NextCursor(S) == IF Cardinality(S) > PageSize THEN Highest(PageSize, S)[PageSize] ELSE 0

GetPage ==
  /\ pager.phase # "done"
  /\ pager' =
       [phase  |-> IF NextCursor(Below) = 0 THEN "done" ELSE "paging",
        cursor |-> NextCursor(Below),
        from   |-> IF pager.phase = "idle" THEN Visible ELSE pager.from,
        seen   |-> pager.seen \o Highest(PageSize, Below)]
  /\ UNCHANGED <<active, counter, row, creating, stream, wire, client, drops>>

-----------------------------------------------------------------------------

Next ==
  \/ \E c \in Creators : Allocate(c) \/ CommitCreate(c) \/ AbortCreate(c)
  \/ \E n \in Numbers : MarkRead(n)
  \/ Deactivate
  \/ Connect \/ Poll \/ WriteEvent \/ Close \/ CloseInactive \/ Receive
  \/ GetPage

Spec == Init /\ [][Next]_vars

\* The handler's loop runs, what was flushed arrives while the connection
\* stands, and the client reconnects.
Fairness ==
  WF_vars(Connect) /\ WF_vars(Poll) /\ WF_vars(WriteEvent) /\ WF_vars(Receive)

FairSpec == Spec /\ Fairness

-----------------------------------------------------------------------------
(* Properties.                                                             *)

(* A client that follows its cursor over any number of broken connections has
   every notification up to the last one it received, except those that were
   read elsewhere: no number turns up below a cursor that has passed it
   (notification/service.go Create, the locks under which the number is drawn;
   httpapi/notifications.go poll). *)
NothingSkipped ==
  \A n \in Visible : n <= client.last /\ n \notin client.received => row[n] = "read"

(* ... and it gets them in order and none twice, until it starts afresh: what
   the handler has read and what is on its way lies after what was received. *)
InOrderOnce ==
  LET coming == <<client.last>> \o wire \o (IF stream.open THEN stream.batch ELSE <<>>) IN
  \A i, j \in 1..Len(coming) : i < j => coming[i] < coming[j]

(* Following X-Next-Cursor shows every notification that was there when the
   first page was read, newest first and none twice, whatever is created in
   between (notification/service.go Page). *)
PagesComplete ==
  pager.phase = "done" =>
    /\ {pager.seen[i] : i \in 1..Len(pager.seen)} = pager.from
    /\ \A i, j \in 1..Len(pager.seen) : i < j => pager.seen[i] > pager.seen[j]

(* An unread notification reaches the client, unless it is read elsewhere or
   the account is deleted, given that connections stop breaking. *)
UnreadArrives ==
  \A n \in Numbers :
    row[n] = "unread" ~> n \in client.received \/ row[n] = "read" \/ ~active
=============================================================================
