------------------------- MODULE UploadStoreProofs -------------------------
(***************************************************************************)
(* Proofs about UploadStore for any number of uploads and cleanup runs, any *)
(* batch, and any grace that is at least as long as a request.             *)
(***************************************************************************)
EXTENDS UploadStore, WellFoundedInduction, TLAPS

-----------------------------------------------------------------------------
(* The inductive invariant.                                                *)

\* Nothing is known of an upload that has not begun.
NewIsFresh ==
  \A k \in Keys : upload[k] = "new" =>
    object[k] = "none" /\ age[k] = 0 /\ elapsed[k] = 0 /\ told[k] = "nothing"

\* An object is no older than the request that is storing it.
ObjectsAreYoung == \A k \in Keys : InFlight(k) => age[k] <= elapsed[k]

\* A request inserts the row of an object it has stored.
StoredFirst == \A k \in Keys : upload[k] = "stored" => object[k] = "stored"

\* A file that was acknowledged is complete, and no request works on it.
AcknowledgedIsComplete ==
  \A k \in Keys : told[k] = "created" => upload[k] = "over" /\ row[k] /\ object[k] = "stored"

\* A cleanup run has listed objects of requests that have ended.
RunsSeeEnded ==
  \A c \in Cleaners : cleaner[c] # Resting => \A k \in cleaner[c].keys : upload[k] = "over"

\* What it looks at or deletes is the next object of its listing, and what it
\* deletes has no row.
RunsDeleteOrphans ==
  \A c \in Cleaners :
    /\ cleaner[c].phase \in {"checked", "deleting"} => cleaner[c].keys # {}
    /\ cleaner[c].phase = "deleting" => ~row[First(c)]

IInv ==
  /\ TypeOK
  /\ NewIsFresh /\ ObjectsAreYoung /\ StoredFirst
  /\ AcknowledgedIsComplete
  /\ RunsSeeEnded /\ RunsDeleteOrphans

-----------------------------------------------------------------------------
(* Every set of keys has a first one in the order of a listing. *)
LEMMA LeastKey ==
  ASSUME NEW S, S \subseteq Nat, S # {}
  PROVE  \E x \in S : \A y \in S : x <= y
<1>1. \A x, y \in Nat : x < y => <<x, y>> \in OpToRel(<, Nat)
  BY Zenon DEF OpToRel
<1>2. PICK x \in S : \A y \in S : <<y, x>> \notin OpToRel(<, Nat)
  BY NatLessThanWellFounded, WFMin, Zenon
<1>3. \A y \in S : ~(y < x)
  BY <1>1, <1>2, Zenon
<1> QED
  BY <1>3

LEMMA RunTypes ==
  ASSUME TypeOK, NEW c \in Cleaners, cleaner[c] # Resting
  PROVE  cleaner[c] \in Runs
BY DEF TypeOK

LEMMA PhaseIsRun ==
  ASSUME TypeOK, NEW c \in Cleaners, cleaner[c].phase \in {"scanning", "checked", "deleting"}
  PROVE  cleaner[c] # Resting /\ cleaner[c] \in Runs
BY DEF TypeOK, Resting

(* The object a run works on is one of its listing. *)
LEMMA FirstIsListed ==
  ASSUME TypeOK, NEW c \in Cleaners, cleaner[c] # Resting, cleaner[c].keys # {}
  PROVE  First(c) \in cleaner[c].keys /\ First(c) \in Keys
<1>1. cleaner[c].keys \in SUBSET Keys
  BY RunTypes DEF Runs
<1>2. \E k \in cleaner[c].keys : \A j \in cleaner[c].keys : k <= j
  BY <1>1, LeastKey, UploadAssumption
<1> QED
  BY <1>1, <1>2 DEF First

LEMMA InitEstablishes == Init => IInv
<1> SUFFICES ASSUME Init PROVE IInv
  OBVIOUS
<1>1. TypeOK
  BY UploadAssumption DEF Init, TypeOK
<1>2. NewIsFresh /\ ObjectsAreYoung /\ StoredFirst /\ AcknowledgedIsComplete
  BY DEF Init, NewIsFresh, ObjectsAreYoung, StoredFirst, AcknowledgedIsComplete, InFlight
<1>3. RunsSeeEnded /\ RunsDeleteOrphans
  BY DEF Init, RunsSeeEnded, RunsDeleteOrphans, Resting
<1> QED
  BY <1>1, <1>2, <1>3 DEF IInv

-----------------------------------------------------------------------------
(* Uploads. *)

(* Runs work on what has ended, and a row of that does not come back. *)
LEMMA RunsUndisturbed ==
  ASSUME IInv, UNCHANGED cleaner,
         \A k \in Keys : upload[k] = "over" => upload'[k] = "over" /\ (row'[k] => row[k])
  PROVE  RunsSeeEnded' /\ RunsDeleteOrphans'
<1>1. RunsSeeEnded'
  BY RunTypes DEF IInv, RunsSeeEnded, Runs
<1>2. ASSUME NEW c \in Cleaners, cleaner[c].phase = "deleting"
      PROVE  ~row'[First(c)]
  <2>1. cleaner[c] # Resting /\ cleaner[c].keys # {}
    BY <1>2, PhaseIsRun DEF IInv, RunsDeleteOrphans
  <2>2. First(c) \in Keys /\ upload[First(c)] = "over" /\ ~row[First(c)]
    BY <1>2, <2>1, FirstIsListed DEF IInv, RunsSeeEnded, RunsDeleteOrphans
  <2> QED
    BY <2>2
<1>3. \A c \in Cleaners : First(c)' = First(c)
  BY DEF First
<1>4. RunsDeleteOrphans'
  BY <1>2, <1>3 DEF IInv, RunsDeleteOrphans
<1> QED
  BY <1>1, <1>4

LEMMA BeginPutPreserves ==
  ASSUME IInv, NEW k \in Keys, BeginPut(k)
  PROVE  IInv'
<1>1. TypeOK'
  BY UploadAssumption DEF IInv, TypeOK, BeginPut, Store, storage
<1>2. NewIsFresh' /\ StoredFirst' /\ AcknowledgedIsComplete'
  BY DEF IInv, TypeOK, NewIsFresh, StoredFirst, AcknowledgedIsComplete, BeginPut, Store, storage
<1>3. ObjectsAreYoung'
  BY UploadAssumption DEF IInv, TypeOK, NewIsFresh, ObjectsAreYoung, InFlight, BeginPut, Store, storage
<1>4. RunsSeeEnded' /\ RunsDeleteOrphans'
  BY RunsUndisturbed DEF IInv, TypeOK, BeginPut
<1> QED
  BY <1>1, <1>2, <1>3, <1>4 DEF IInv

LEMMA PutPreserves ==
  ASSUME IInv, NEW k \in Keys, PutSucceeds(k) \/ PutFails(k)
  PROVE  IInv'
<1>1. TypeOK'
  BY UploadAssumption DEF IInv, TypeOK, PutSucceeds, PutFails, Store, Finish, storage
<1>2. NewIsFresh' /\ StoredFirst' /\ AcknowledgedIsComplete'
  BY DEF IInv, TypeOK, NewIsFresh, StoredFirst, AcknowledgedIsComplete, PutSucceeds, PutFails,
         Store, Finish, storage
<1>3. ObjectsAreYoung'
  BY UploadAssumption
  DEF IInv, TypeOK, ObjectsAreYoung, InFlight, PutSucceeds, PutFails, Store, Finish, storage
<1>4. RunsSeeEnded' /\ RunsDeleteOrphans'
  BY RunsUndisturbed DEF IInv, TypeOK, PutSucceeds, PutFails, Finish
<1> QED
  BY <1>1, <1>2, <1>3, <1>4 DEF IInv

LEMMA CommitPreserves ==
  ASSUME IInv, NEW k \in Keys, CommitRow(k) \/ CommitFails(k)
  PROVE  IInv'
<1>1. TypeOK'
  BY DEF IInv, TypeOK, CommitRow, CommitFails, WithRow, Finish, storage
<1>2. NewIsFresh' /\ StoredFirst' /\ AcknowledgedIsComplete'
  BY DEF IInv, TypeOK, NewIsFresh, StoredFirst, AcknowledgedIsComplete, CommitRow, CommitFails,
         WithRow, Finish, storage
<1>3. ObjectsAreYoung'
  BY DEF IInv, TypeOK, ObjectsAreYoung, InFlight, CommitRow, CommitFails, Finish, storage
<1>4. RunsSeeEnded' /\ RunsDeleteOrphans'
  BY RunsUndisturbed DEF IInv, TypeOK, CommitRow, CommitFails, WithRow, Finish
<1> QED
  BY <1>1, <1>2, <1>3, <1>4 DEF IInv

LEMMA EndPreserves ==
  ASSUME IInv, NEW k \in Keys, Compensate(k) \/ Crash(k)
  PROVE  IInv'
<1>1. TypeOK'
  BY DEF IInv, TypeOK, Compensate, Crash, Finish, storage
<1>2. NewIsFresh' /\ StoredFirst' /\ AcknowledgedIsComplete'
  BY DEF IInv, TypeOK, NewIsFresh, StoredFirst, AcknowledgedIsComplete, Compensate, Crash,
         InFlight, Finish, storage
<1>3. ObjectsAreYoung'
  BY DEF IInv, TypeOK, ObjectsAreYoung, InFlight, Compensate, Crash, Finish, storage
<1>4. RunsSeeEnded' /\ RunsDeleteOrphans'
  BY RunsUndisturbed DEF IInv, TypeOK, Compensate, Crash, InFlight, Finish
<1> QED
  BY <1>1, <1>2, <1>3, <1>4 DEF IInv

(* A request in flight still has time; an object ages with the request that is
   storing it. *)
LEMMA TickPreserves ==
  ASSUME IInv, Tick
  PROVE  IInv'
<1>1. TypeOK'
  BY UploadAssumption DEF IInv, TypeOK, Tick
<1>2. NewIsFresh' /\ StoredFirst' /\ AcknowledgedIsComplete'
  BY DEF IInv, TypeOK, NewIsFresh, StoredFirst, AcknowledgedIsComplete, Tick, InFlight
<1>3. ObjectsAreYoung'
  BY UploadAssumption DEF IInv, TypeOK, ObjectsAreYoung, Tick, InFlight
<1>4. RunsSeeEnded' /\ RunsDeleteOrphans'
  BY RunsUndisturbed DEF Tick
<1> QED
  BY <1>1, <1>2, <1>3, <1>4 DEF IInv

-----------------------------------------------------------------------------
(* Cleanup runs. *)

(* What a run may become, when uploads and rows stay as they are. *)
LEMMA RunGoesOn ==
  ASSUME IInv, NEW c \in Cleaners, UNCHANGED <<row, upload>>,
         \A d \in Cleaners : d # c => cleaner'[d] = cleaner[d],
         cleaner'[c] # Resting => \A k \in cleaner'[c].keys : upload[k] = "over",
         cleaner'[c].phase \in {"checked", "deleting"} => cleaner'[c].keys # {},
         cleaner'[c].phase = "deleting" => ~row[First(c)']
  PROVE  RunsSeeEnded' /\ RunsDeleteOrphans'
<1>1. RunsSeeEnded'
  BY DEF IInv, RunsSeeEnded
<1>2. \A d \in Cleaners : d # c => First(d)' = First(d)
  BY DEF First
<1>3. RunsDeleteOrphans'
  BY <1>2 DEF IInv, RunsDeleteOrphans
<1> QED
  BY <1>1, <1>3

(* Uploads do not notice a run that deletes nothing. *)
LEMMA UploadsUndisturbed ==
  ASSUME IInv, UNCHANGED <<object, age, row, upload, elapsed, told>>
  PROVE  NewIsFresh' /\ ObjectsAreYoung' /\ StoredFirst' /\ AcknowledgedIsComplete'
BY DEF IInv, NewIsFresh, ObjectsAreYoung, InFlight, StoredFirst, AcknowledgedIsComplete

LEMMA ListPreserves ==
  ASSUME IInv, NEW c \in Cleaners, List(c)
  PROVE  IInv'
<1>1. /\ UNCHANGED <<object, age, row, upload, elapsed, told>>
      /\ cleaner' = [cleaner EXCEPT ![c] = [phase |-> "scanning", keys |-> Older, candidates |-> 0]]
  BY DEF List, storage
<1>2. Older \subseteq Keys
  BY DEF Older
<1>3. \A k \in Older : upload[k] = "over"
  <2> SUFFICES ASSUME NEW k \in Keys, object[k] # "none", age[k] > Grace
               PROVE  upload[k] = "over"
    BY DEF Older
  <2>1. upload[k] # "new"
    BY DEF IInv, NewIsFresh
  <2>2. ~InFlight(k)
    BY UploadAssumption DEF IInv, TypeOK, ObjectsAreYoung
  <2> QED
    BY <2>1, <2>2 DEF IInv, TypeOK, InFlight
<1>4. [phase |-> "scanning", keys |-> Older, candidates |-> 0] \in Runs
  BY <1>2, UploadAssumption DEF Runs
<1>5. TypeOK'
  BY <1>1, <1>4 DEF IInv, TypeOK
<1>6. /\ cleaner'[c] = [phase |-> "scanning", keys |-> Older, candidates |-> 0]
      /\ \A d \in Cleaners : d # c => cleaner'[d] = cleaner[d]
  BY <1>1 DEF IInv, TypeOK
<1>7. RunsSeeEnded' /\ RunsDeleteOrphans'
  BY <1>1, <1>3, <1>6, RunGoesOn
<1> QED
  BY <1>1, <1>5, <1>7, UploadsUndisturbed DEF IInv

(* The run ends. *)
LEMMA RestPreserves ==
  ASSUME IInv, NEW c \in Cleaners, FinishRun(c) \/ FailRun(c)
  PROVE  IInv'
<1>1. /\ UNCHANGED <<object, age, row, upload, elapsed, told>>
      /\ cleaner' = [cleaner EXCEPT ![c] = Resting]
  BY DEF FinishRun, FailRun, storage
<1>2. TypeOK'
  BY <1>1 DEF IInv, TypeOK
<1>3. cleaner'[c] = Resting /\ \A d \in Cleaners : d # c => cleaner'[d] = cleaner[d]
  BY <1>1 DEF IInv, TypeOK
<1>4. RunsSeeEnded' /\ RunsDeleteOrphans'
  BY <1>1, <1>3, RunGoesOn DEF Resting
<1> QED
  BY <1>1, <1>2, <1>4, UploadsUndisturbed DEF IInv

LEMMA CheckPreserves ==
  ASSUME IInv, NEW c \in Cleaners, Check(c) \/ CheckAgain(c)
  PROVE  IInv'
<1>1. PICK run : run = cleaner[c]
  OBVIOUS
<1>2. PICK first : first = First(c)
  OBVIOUS
<1>3. PICK next :
        next = IF row[first]
               THEN [run EXCEPT !.phase = "scanning", !.keys = @ \ {first}]
               ELSE IF run.phase = "scanning"
               THEN [run EXCEPT !.phase = "checked", !.candidates = run.candidates + 1]
               ELSE [run EXCEPT !.phase = "deleting"]
  OBVIOUS
<1>4. /\ UNCHANGED <<object, age, row, upload, elapsed, told>>
      /\ run.phase \in {"scanning", "checked"}
      /\ run.phase = "scanning" => run.keys # {} /\ ~(run.candidates >= BatchSize)
  BY <1>1 DEF Check, CheckAgain, EndOfRun, storage
<1>5. run \in Runs /\ run # Resting /\ run.keys # {}
  BY <1>1, <1>4, PhaseIsRun DEF IInv, RunsDeleteOrphans
<1>6. cleaner' = [cleaner EXCEPT ![c] = next]
  <2>1. CASE Check(c)
    <3>1. run.phase = "scanning"
      BY <1>1, <2>1 DEF Check
    <3>2. [run EXCEPT !.phase = "scanning", !.keys = @ \ {first}] = [run EXCEPT !.keys = @ \ {first}]
      BY <1>5, <3>1 DEF Runs
    <3>3. CASE row[first]
      <4>1. cleaner' = [cleaner EXCEPT ![c] = [run EXCEPT !.keys = run.keys \ {first}]]
        BY <1>1, <1>2, <2>1, <3>3 DEF Check, Referenced, Rest
      <4> QED
        BY <1>3, <3>2, <3>3, <4>1
    <3>4. CASE ~row[first]
      <4>1. cleaner' = [cleaner EXCEPT ![c] =
              [run EXCEPT !.phase = "checked", !.candidates = run.candidates + 1]]
        BY <1>1, <1>2, <2>1, <3>4, SMTT(60) DEF Check, Referenced
      <4> QED
        BY <1>3, <3>1, <3>4, <4>1
    <3> QED
      BY <3>3, <3>4
  <2>2. CASE CheckAgain(c)
    BY <1>1, <1>2, <1>3, <2>2 DEF CheckAgain, Referenced, Rest
  <2> QED
    BY <2>1, <2>2
<1>7. first \in run.keys /\ first \in Keys
  BY <1>1, <1>2, <1>5, FirstIsListed DEF IInv
<1>8. /\ next \in Runs /\ next.keys \subseteq run.keys
      /\ next.phase \in {"checked", "deleting"} => next.keys = run.keys /\ ~row[first]
  <2>1. run.keys \in SUBSET Keys /\ run.candidates \in 0..BatchSize
    BY <1>5 DEF Runs
  <2>2. CASE row[first]
    <3>1. next = [run EXCEPT !.phase = "scanning", !.keys = run.keys \ {first}]
      BY <1>3, <2>2
    <3> QED
      BY <1>5, <2>1, <3>1 DEF Runs
  <2>3. CASE ~row[first] /\ run.phase = "scanning"
    <3>1. next = [run EXCEPT !.phase = "checked", !.candidates = run.candidates + 1]
      BY <1>3, <2>3
    <3>2. run.candidates + 1 \in 0..BatchSize
      BY <1>4, <2>1, <2>3, UploadAssumption
    <3> QED
      BY <1>5, <2>3, <3>1, <3>2 DEF Runs
  <2>4. CASE ~row[first] /\ run.phase = "checked"
    <3>1. next = [run EXCEPT !.phase = "deleting"]
      BY <1>3, <2>4
    <3> QED
      BY <1>5, <2>4, <3>1 DEF Runs
  <2> QED
    BY <1>4, <2>2, <2>3, <2>4
<1>9. TypeOK'
  BY <1>4, <1>6, <1>8 DEF IInv, TypeOK
<1>10. cleaner'[c] = next /\ \A d \in Cleaners : d # c => cleaner'[d] = cleaner[d]
  BY <1>6 DEF IInv, TypeOK
<1>11. next.keys = run.keys => First(c)' = first
  BY <1>1, <1>2, <1>10 DEF First
<1>12. \A k \in run.keys : upload[k] = "over"
  BY <1>1, <1>5 DEF IInv, RunsSeeEnded
<1>13. RunsSeeEnded' /\ RunsDeleteOrphans'
  BY <1>4, <1>5, <1>8, <1>10, <1>11, <1>12, RunGoesOn
<1> QED
  BY <1>4, <1>9, <1>13, UploadsUndisturbed DEF IInv

(* What a run deletes. *)
LEMMA DeletedIsOrphan ==
  ASSUME IInv, NEW c \in Cleaners, Delete(c)
  PROVE  /\ First(c) \in cleaner[c].keys /\ First(c) \in Keys
         /\ upload[First(c)] = "over" /\ ~row[First(c)] /\ told[First(c)] # "created"
         /\ \A k \in Keys : k # First(c) => object'[k] = object[k]
         /\ object'[First(c)] = "none"
<1>1. cleaner[c] # Resting /\ cleaner[c].keys # {} /\ ~row[First(c)]
  BY PhaseIsRun DEF Delete, IInv, RunsDeleteOrphans
<1>2. First(c) \in cleaner[c].keys /\ First(c) \in Keys
  BY <1>1, FirstIsListed DEF IInv
<1>3. upload[First(c)] = "over" /\ told[First(c)] # "created"
  BY <1>1, <1>2 DEF IInv, RunsSeeEnded, AcknowledgedIsComplete
<1> QED
  BY <1>1, <1>2, <1>3 DEF Delete, IInv, TypeOK

LEMMA DeletePreserves ==
  ASSUME IInv, NEW c \in Cleaners, Delete(c)
  PROVE  IInv'
<1>1. PICK run : run = cleaner[c]
  OBVIOUS
<1>2. PICK first : first = First(c)
  OBVIOUS
<1>3. PICK next : next = [run EXCEPT !.phase = "scanning", !.keys = @ \ {first}]
  OBVIOUS
<1>4. /\ UNCHANGED <<age, row, upload, elapsed, told>>
      /\ object' = [object EXCEPT ![first] = "none"]
      /\ cleaner' = [cleaner EXCEPT ![c] = next]
  BY <1>1, <1>2, <1>3 DEF Delete, Rest
<1>5. /\ first \in Keys /\ upload[first] = "over" /\ told[first] # "created"
      /\ \A k \in Keys : k # first => object'[k] = object[k]
      /\ object'[first] = "none"
  BY <1>2, DeletedIsOrphan
<1>6. run \in Runs /\ run # Resting
  BY <1>1, PhaseIsRun DEF IInv, Delete
<1>7. next \in Runs /\ next.keys \subseteq run.keys /\ next.phase = "scanning"
  BY <1>3, <1>6 DEF Runs
<1>8. TypeOK'
  BY <1>4, <1>5, <1>7 DEF IInv, TypeOK
<1>9. NewIsFresh' /\ ObjectsAreYoung' /\ StoredFirst' /\ AcknowledgedIsComplete'
  BY <1>4, <1>5 DEF IInv, NewIsFresh, ObjectsAreYoung, InFlight, StoredFirst, AcknowledgedIsComplete
<1>10. cleaner'[c] = next /\ \A d \in Cleaners : d # c => cleaner'[d] = cleaner[d]
  BY <1>4 DEF IInv, TypeOK
<1>11. \A k \in run.keys : upload[k] = "over"
  BY <1>1, <1>6 DEF IInv, RunsSeeEnded
<1>12. RunsSeeEnded' /\ RunsDeleteOrphans'
  BY <1>4, <1>7, <1>10, <1>11, RunGoesOn
<1> QED
  BY <1>8, <1>9, <1>12 DEF IInv

-----------------------------------------------------------------------------
LEMMA StepPreserves == IInv /\ [Next]_vars => IInv'
<1> SUFFICES ASSUME IInv, [Next]_vars PROVE IInv'
  OBVIOUS
<1>1. ASSUME NEW k \in Keys, BeginPut(k) \/ Respond(k) PROVE IInv'
  BY <1>1, BeginPutPreserves, PutPreserves, CommitPreserves, EndPreserves DEF Respond
<1>2. ASSUME NEW c \in Cleaners,
             \/ List(c) \/ Check(c) \/ CheckAgain(c) \/ Delete(c)
             \/ FinishRun(c) \/ FailRun(c)
      PROVE  IInv'
  BY <1>2, ListPreserves, CheckPreserves, DeletePreserves, RestPreserves
<1>3. CASE UNCHANGED vars
  <2>1. TypeOK' /\ UNCHANGED cleaner /\ UNCHANGED <<object, age, row, upload, elapsed, told>>
    BY <1>3 DEF vars, storage, IInv, TypeOK
  <2> QED
    BY <2>1, UploadsUndisturbed, RunsUndisturbed DEF IInv
<1> QED
  BY <1>1, <1>2, <1>3, TickPreserves DEF Next

LEMMA Inductive == Spec => []IInv
BY InitEstablishes, StepPreserves, PTL DEF Spec

(* Objects, requests and cleanup runs keep their shape: no run looks at more
   candidates than its batch, and no request outlasts its time. *)
THEOREM TypeCorrect == Spec => []TypeOK
<1>1. IInv => TypeOK
  BY DEF IInv
<1> QED
  BY <1>1, Inductive, PTL

(* No cleanup run, however long ago it listed or checked, takes the object of
   an upload that was answered with success. *)
THEOREM AcknowledgedStay == Spec => []AcknowledgedFileStays
<1>1. IInv => AcknowledgedFileStays
  BY DEF IInv, AcknowledgedIsComplete, AcknowledgedFileStays
<1> QED
  BY <1>1, Inductive, PTL

(* A referenced object, or one of an upload under way, is deleted only by the
   upload itself: what a run deletes has no row and its request has ended. *)
THEOREM OnlyOrphansGo == Spec => ReferencedProtected
<1> DEFINE Protected ==
      \A k \in Keys :
        object[k] # "none" /\ object'[k] = "none" /\ (row[k] \/ InFlight(k)) =>
          upload[k] \in {"putting", "compensating"} /\ upload'[k] = "over"
<1>1. IInv /\ [Next]_vars => [Protected]_vars
  <2> SUFFICES ASSUME IInv, Next, NEW k \in Keys,
                      object[k] # "none", object'[k] = "none", row[k] \/ InFlight(k)
               PROVE  upload[k] \in {"putting", "compensating"} /\ upload'[k] = "over"
    BY Zenon
  <2>1. ~UNCHANGED object
    OBVIOUS
  <2>2. ASSUME NEW j \in Keys, BeginPut(j) \/ PutSucceeds(j) \/ CommitRow(j) \/ CommitFails(j) \/ Crash(j)
        PROVE  FALSE
    BY <2>2 DEF IInv, TypeOK, BeginPut, PutSucceeds, CommitRow, CommitFails, Crash, Store, storage
  <2>3. ASSUME NEW j \in Keys, PutFails(j) \/ Compensate(j)
        PROVE  upload[k] \in {"putting", "compensating"} /\ upload'[k] = "over"
    BY <2>3 DEF IInv, TypeOK, PutFails, Compensate, Store, Finish, storage
  <2>4. ASSUME NEW c \in Cleaners, Delete(c)
        PROVE  FALSE
    BY <2>4, DeletedIsOrphan DEF InFlight
  <2>5. ASSUME NEW c \in Cleaners, List(c) \/ Check(c) \/ CheckAgain(c) \/ FinishRun(c) \/ FailRun(c)
        PROVE  FALSE
    BY <2>1, <2>5 DEF List, Check, CheckAgain, FinishRun, FailRun, storage
  <2>6. ~Tick
    BY <2>1 DEF Tick
  <2> QED
    BY <2>2, <2>3, <2>4, <2>5, <2>6 DEF Next, Respond
<1> QED
  BY <1>1, Inductive, PTL DEF Spec, ReferencedProtected
=============================================================================
