---------------------------- MODULE UploadStore ----------------------------
(***************************************************************************)
(* Uploads.  The object is stored first and its row inserted after it; when *)
(* the insert fails the object is deleted again.  What crashes and failed   *)
(* calls leave behind is deleted by the cleanup command, which may run      *)
(* several times at once: objects older than a grace period that no row     *)
(* refers to.                                                               *)
(***************************************************************************)
EXTENDS Naturals, FiniteSets

CONSTANTS
  Keys,       \* the uploads, by object key in the order of a listing
  Cleaners,   \* runs of cleanup-uploads --apply at a time
  Grace,      \* UPLOAD_ORPHAN_GRACE_HOURS, in ticks
  MaxRequest, \* ticks until a request is cancelled
  BatchSize   \* CLEANUP_BATCH_SIZE

\* A request takes 30 s and the shortest grace is an hour.
ASSUME UploadAssumption ==
  /\ Keys \subseteq Nat /\ IsFiniteSet(Keys)
  /\ MaxRequest \in Nat /\ Grace \in Nat /\ MaxRequest <= Grace
  /\ BatchSize \in Nat \ {0}

VARIABLES
  object,  \* what the storage has under a key
  age,     \* ticks since it was last written, up to Grace + 1
  row,     \* stored_files has a row for the key
  upload,  \* the request that uploads it
  elapsed, \* how long that has been running
  told,    \* what its client was told
  cleaner  \* the cleanup runs

storage == <<object, age>>
vars == <<object, age, row, upload, elapsed, told, cleaner>>

-----------------------------------------------------------------------------

Resting == [phase |-> "resting"]
Runs == [phase : {"scanning", "checked", "deleting"}, keys : SUBSET Keys, candidates : 0..BatchSize]

TypeOK ==
  /\ object \in [Keys -> {"none", "partial", "stored"}]
  /\ age \in [Keys -> 0..(Grace + 1)]
  /\ row \in [Keys -> BOOLEAN]
  /\ upload \in [Keys -> {"new", "putting", "stored", "compensating", "over"}]
  /\ elapsed \in [Keys -> 0..MaxRequest]
  /\ told \in [Keys -> {"nothing", "created", "failed"}]
  /\ cleaner \in [Cleaners -> {Resting} \union Runs]

Init ==
  /\ object = [k \in Keys |-> "none"]
  /\ age = [k \in Keys |-> 0]
  /\ row = [k \in Keys |-> FALSE]
  /\ upload = [k \in Keys |-> "new"]
  /\ elapsed = [k \in Keys |-> 0]
  /\ told = [k \in Keys |-> "nothing"]
  /\ cleaner = [c \in Cleaners |-> Resting]

InFlight(k) == upload[k] \in {"putting", "stored", "compensating"}

Store(k, content) ==
  /\ object' = [object EXCEPT ![k] = content]
  /\ age' = [age EXCEPT ![k] = 0]

\* The request ends; its client, if it is still there, is told so.
Finish(k, answer) ==
  /\ upload' = [upload EXCEPT ![k] = "over"]
  /\ told' = [told EXCEPT ![k] = answer]

-----------------------------------------------------------------------------
(* An upload.                                                              *)

\* A local file is visible while it is written, an S3 object is not.
BeginPut(k) ==
  /\ upload[k] = "new"
  /\ upload' = [upload EXCEPT ![k] = "putting"]
  /\ \/ Store(k, "partial")
     \/ UNCHANGED storage
  /\ UNCHANGED <<row, elapsed, told, cleaner>>

PutSucceeds(k) ==
  /\ upload[k] = "putting"
  /\ upload' = [upload EXCEPT ![k] = "stored"]
  /\ Store(k, "stored")
  /\ UNCHANGED <<row, elapsed, told, cleaner>>

\* The partial file is removed, or is not, or the object was stored and the
\* answer of the storage lost.
PutFails(k) ==
  /\ upload[k] = "putting"
  /\ \/ object' = [object EXCEPT ![k] = "none"] /\ UNCHANGED age
     \/ Store(k, "stored")
     \/ UNCHANGED storage
  /\ Finish(k, "failed")
  /\ UNCHANGED <<row, elapsed, cleaner>>

WithRow(k) == [row EXCEPT ![k] = TRUE]

CommitRow(k) ==
  /\ upload[k] = "stored"
  /\ row' = WithRow(k)
  /\ Finish(k, "created")
  /\ UNCHANGED <<storage, elapsed, cleaner>>

\* The transaction rolls back, or it commits and the answer is lost.
CommitFails(k) ==
  /\ upload[k] = "stored"
  /\ row' \in {row, WithRow(k)}
  /\ upload' = [upload EXCEPT ![k] = "compensating"]
  /\ UNCHANGED <<storage, elapsed, told, cleaner>>

Compensate(k) ==
  /\ upload[k] = "compensating"
  /\ object' \in {object, [object EXCEPT ![k] = "none"]}
  /\ Finish(k, "failed")
  /\ UNCHANGED <<age, row, elapsed, cleaner>>

\* The process dies.
Crash(k) ==
  /\ InFlight(k)
  /\ Finish(k, "nothing")
  /\ UNCHANGED <<storage, row, elapsed, cleaner>>

-----------------------------------------------------------------------------
(* A run of the cleanup.                                                   *)

\* Mutant: the grace period is not looked at.
AnyAge == {k \in Keys : object[k] # "none"}

Older == {k \in Keys : object[k] # "none" /\ age[k] > Grace}

\* Mutant: the rows of another storage are looked up.
ReferencedElsewhere(k) == FALSE

Referenced(k) == row[k]

\* A listing is in the order of its keys.
First(c) == CHOOSE k \in cleaner[c].keys : \A j \in cleaner[c].keys : k <= j
Rest(c) == cleaner[c].keys \ {First(c)}

List(c) ==
  /\ cleaner[c] = Resting
  /\ cleaner' = [cleaner EXCEPT ![c] = [phase |-> "scanning", keys |-> Older, candidates |-> 0]]
  /\ UNCHANGED <<storage, row, upload, elapsed, told>>

\* Mutant: one candidate more than the batch.
PastBatch(c) == cleaner[c].keys = {} \/ cleaner[c].candidates > BatchSize

EndOfRun(c) == cleaner[c].keys = {} \/ cleaner[c].candidates >= BatchSize

\* Mutant: referenced objects count as candidates too.
CheckCounted(c) ==
  /\ cleaner[c].phase = "scanning" /\ ~EndOfRun(c)
  /\ cleaner' = [cleaner EXCEPT
       ![c] = IF Referenced(First(c))
              THEN [@ EXCEPT !.keys = Rest(c), !.candidates = cleaner[c].candidates + 1]
              ELSE [@ EXCEPT !.phase = "checked", !.candidates = cleaner[c].candidates + 1]]
  /\ UNCHANGED <<storage, row, upload, elapsed, told>>

Check(c) ==
  /\ cleaner[c].phase = "scanning" /\ ~EndOfRun(c)
  /\ cleaner' = [cleaner EXCEPT
       ![c] = IF Referenced(First(c))
              THEN [@ EXCEPT !.keys = Rest(c)]
              ELSE [@ EXCEPT !.phase = "checked", !.candidates = cleaner[c].candidates + 1]]
  /\ UNCHANGED <<storage, row, upload, elapsed, told>>

CheckAgain(c) ==
  /\ cleaner[c].phase = "checked"
  /\ cleaner' = [cleaner EXCEPT
       ![c] = IF Referenced(First(c))
              THEN [@ EXCEPT !.phase = "scanning", !.keys = Rest(c)]
              ELSE [@ EXCEPT !.phase = "deleting"]]
  /\ UNCHANGED <<storage, row, upload, elapsed, told>>

\* An object that is gone counts as deleted.
Delete(c) ==
  /\ cleaner[c].phase = "deleting"
  /\ object' = [object EXCEPT ![First(c)] = "none"]
  /\ cleaner' = [cleaner EXCEPT ![c] = [@ EXCEPT !.phase = "scanning", !.keys = Rest(c)]]
  /\ UNCHANGED <<age, row, upload, elapsed, told>>

FinishRun(c) ==
  /\ cleaner[c].phase = "scanning" /\ EndOfRun(c)
  /\ cleaner' = [cleaner EXCEPT ![c] = Resting]
  /\ UNCHANGED <<storage, row, upload, elapsed, told>>

\* A query or a deletion fails, or the run is killed.
FailRun(c) ==
  /\ cleaner[c].phase \in {"checked", "deleting"} \/ (cleaner[c].phase = "scanning" /\ ~EndOfRun(c))
  /\ cleaner' = [cleaner EXCEPT ![c] = Resting]
  /\ UNCHANGED <<storage, row, upload, elapsed, told>>

-----------------------------------------------------------------------------

\* Only a request that is still within its time goes on; Compensate has five
\* seconds more, in the same tick.
Tick ==
  /\ \A k \in Keys : InFlight(k) => elapsed[k] < MaxRequest
  /\ elapsed' = [k \in Keys |-> IF InFlight(k) THEN elapsed[k] + 1 ELSE elapsed[k]]
  /\ age' = [k \in Keys |-> IF object[k] # "none" /\ age[k] <= Grace THEN age[k] + 1 ELSE age[k]]
  /\ UNCHANGED <<object, row, upload, told, cleaner>>

Respond(k) ==
  PutSucceeds(k) \/ PutFails(k) \/ CommitRow(k) \/ CommitFails(k) \/ Compensate(k) \/ Crash(k)

Next ==
  \/ \E k \in Keys : BeginPut(k) \/ Respond(k)
  \/ \E c \in Cleaners : List(c) \/ Check(c) \/ CheckAgain(c) \/ Delete(c)
                          \/ FinishRun(c) \/ FailRun(c)
  \/ Tick

Spec == Init /\ [][Next]_vars

\* One of the runs is scheduled again and again and at last stops failing;
\* requests end and time passes.
Scheduled == CHOOSE c \in Cleaners : TRUE
Run(c) == List(c) \/ Check(c) \/ CheckAgain(c) \/ Delete(c) \/ FinishRun(c)

Fairness ==
  /\ WF_vars(Run(Scheduled))
  /\ <>[][~FailRun(Scheduled)]_vars
  /\ WF_vars(\E k \in Keys : Respond(k))
  /\ WF_vars(Tick)

FairSpec == Spec /\ Fairness

-----------------------------------------------------------------------------
(* Properties.                                                             *)

(* A file whose upload was answered with success has its row and its object,
   whatever cleanup runs were under way when it was stored (upload/service.go
   Create; cmd/cleanup-uploads/main.go run). *)
AcknowledgedFileStays ==
  \A k \in Keys : told[k] = "created" => row[k] /\ object[k] = "stored"

(* "New objects and objects that are still referenced are protected"
   (docs/OPERATIONS.md:20): nothing but the compensation of a commit whose
   answer was lost deletes a referenced object, or one of an upload under way. *)
ReferencedProtected ==
  [][\A k \in Keys :
       object[k] # "none" /\ object'[k] = "none" /\ (row[k] \/ InFlight(k)) =>
         upload[k] \in {"putting", "compensating"} /\ upload'[k] = "over"]_vars

(* An object without a row does not stay, although runs are bounded by a batch
   and stop at the first error. *)
OrphansGo ==
  \A k \in Keys :
    upload[k] = "over" /\ ~row[k] /\ object[k] # "none" ~> object[k] = "none"
=============================================================================
