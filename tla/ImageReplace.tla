---------------------------- MODULE ImageReplace ----------------------------
(***************************************************************************)
(* Replacing the image of a row: the avatar (ProfileImageController), the  *)
(* cover (CoverImageController) and the pictures of a product              *)
(* (ProductImagesController).                                              *)
(*                                                                         *)
(* The row lives in Postgres and the files in the object store behind the  *)
(* image processor, and no transaction spans the two.  A replacement reads *)
(* the keys the row lists, uploads the new files, points the row at them,  *)
(* and then deletes the old files; any number of replacements of one row   *)
(* may be under way at once, and each may stop at any await.  Here the     *)
(* files of a product are its row's alone; ListingImages has the products  *)
(* that list each other's files.                                           *)
(***************************************************************************)
EXTENDS Integers, FiniteSets

CONSTANTS
    Keys,        \* the object keys the processor may hand out (bound)
    Handlers,    \* replacements in flight at one time (bound)
    MaxFiles,    \* files in one request for a product; the others take one
    Faults       \* whether awaits may fail and the process may stop

ASSUME FaultsIsBoolean == Faults \in BOOLEAN
ASSUME MaxFilesIsNat == MaxFiles \in Nat
ASSUME HandlersExist == Handlers # {}

VARIABLES
    target,  \* the row: its route, the kind of its seller, whether it exists
    row,     \* the keys the row lists
    stored,  \* the keys whose files are in the object store
    used,    \* every key handed out so far: the processor's are fresh uuids
    job,     \* the replacement each handler is doing
    orderly  \* history: no overlap and no fault so far

vars == <<target, row, stored, used, job, orderly>>

\* Every row there is: a product whose request got past assertOwnsProduct
\* exists, and a seller may have no profile row.
Target == [route : {"avatar", "cover", "product"},
           kind : {"PERSON", "BUSINESS"}, exists : BOOLEAN]

Steps == {"idle", "upload", "update", "delete"}

\* previous: the keys the row listed when the handler read it; batch: the keys
\* of the files it uploaded.
Job == [step : Steps, previous : SUBSET Keys, batch : SUBSET Keys]

Idle == [step |-> "idle", previous |-> {}, batch |-> {}]

TypeOK ==
    /\ target \in Target
    /\ row \subseteq Keys
    /\ stored \subseteq Keys
    /\ used \subseteq Keys
    /\ job \in [Handlers -> Job]
    /\ orderly \in BOOLEAN

\* The row starts with the picture it was registered with, or with none.
Init ==
    /\ target \in {t \in Target : t.route = "product" => t.exists}
    /\ row \in {S \in SUBSET Keys : Cardinality(S) <= 1 /\ (~target.exists => S = {})}
    /\ stored = row
    /\ used = row
    /\ job = [h \in Handlers |-> Idle]
    /\ orderly = TRUE

At(h, s) == job[h].step = s
Answer(h) == job' = [job EXCEPT ![h] = Idle]

On(r) == target.route = r

\* The most files one request may bring.
FilesAllowed == IF On("product") THEN MaxFiles ELSE 1

\* What happened keeps the history orderly only if b.
OrderlyIf(b) == orderly' = (orderly /\ b)

-----------------------------------------------------------------------------

(* The keys to delete later are read first.  The profile routes go on with   *)
(* none when that read fails; the product route gives up.                     *)

Start(h, K) ==
    /\ At(h, "idle")
    /\ job' = [job EXCEPT ![h] = [Idle EXCEPT !.step = "upload", !.previous = K]]
    /\ OrderlyIf(K = row /\ \A k \in Handlers : At(k, "idle"))
    /\ UNCHANGED <<target, row, stored, used>>

RowOrNone == {row} \cup IF Faults THEN {{}} ELSE {}

\* Mutant of FindExistingProfileImage: the key is kept wrapped in a list.
FindWrappedProfileImage(h) == On("avatar") /\ Start(h, {row})

FindExistingProfileImage(h) ==
    On("avatar") /\ \E K \in RowOrNone : Start(h, K)

FindExistingCoverImage(h) ==
    On("cover") /\ \E K \in RowOrNone : Start(h, K)

\* assertOwnsProduct found the product, so it is there.
FindProductImages(h) ==
    On("product") /\ Start(h, row)

\* Mutant of Upload: the old files are deleted before the row is updated.
DeleteThenUpload(h) ==
    /\ At(h, "upload")
    /\ \E B \in SUBSET (Keys \ used) :
         /\ B # {}
         /\ Cardinality(B) <= FilesAllowed
         /\ used' = used \cup B
         /\ stored' = (stored \ job[h].previous) \cup B
         /\ job' = [job EXCEPT ![h].step = "update", ![h].batch = B]
    /\ UNCHANGED <<target, row, orderly>>

\* ImageProcessorClient.upload, for all the files at once.
Upload(h) ==
    /\ At(h, "upload")
    /\ \E B \in SUBSET (Keys \ used) :
         /\ B # {}
         /\ Cardinality(B) <= FilesAllowed
         /\ used' = used \cup B
         /\ stored' = stored \cup B
         /\ job' = [job EXCEPT ![h].step = "update", ![h].batch = B]
    /\ UNCHANGED <<target, row, orderly>>

\* The processor refuses the image, or one of the uploads fails or loses its
\* answer: the request ends with an error, and the files that arrived stay.
UploadFails(h) ==
    /\ At(h, "upload")
    /\ \E B \in IF Faults THEN SUBSET (Keys \ used) ELSE {{}} :
         /\ Cardinality(B) <= FilesAllowed
         /\ used' = used \cup B
         /\ stored' = stored \cup B
         /\ OrderlyIf(B = {})
    /\ Answer(h)
    /\ UNCHANGED <<target, row>>

(* The row is pointed at the new files by one update.                         *)

Point(h) ==
    /\ target.exists
    /\ row' = job[h].batch
    /\ \/ job' = [job EXCEPT ![h].step = "delete"] /\ UNCHANGED orderly
       \/ Faults /\ Answer(h) /\ OrderlyIf(FALSE)

\* A person without a profile row is an error; a business without one is not:
\* nothing is written, and the request goes on as if it had been.
UpdateUserProfileImage(h) ==
    /\ On("avatar")
    /\ At(h, "update")
    /\ \/ Point(h)
       \/ /\ ~target.exists
          /\ IF target.kind = "BUSINESS"
             THEN job' = [job EXCEPT ![h].step = "delete"]
             ELSE Answer(h)
          /\ UNCHANGED <<row, orderly>>
    /\ UNCHANGED <<target, stored, used>>

\* An update of a row that is not there rejects.
UpdateUserCoverImage(h) ==
    /\ On("cover")
    /\ At(h, "update")
    /\ \/ Point(h)
       \/ ~target.exists /\ Answer(h) /\ UNCHANGED <<row, orderly>>
    /\ UNCHANGED <<target, stored, used>>

UpdateProduct(h) ==
    /\ On("product")
    /\ At(h, "update")
    /\ Point(h)
    /\ UNCHANGED <<target, stored, used>>

\* Mutants of Old: the list is read again once it was replaced; nothing is old.
OldReread(h) == row \ job[h].batch
OldForgotten(h) == {}

\* The old files go, but for those that are among the new ones.  A delete that
\* fails is logged and leaves its file.  The answer follows: 201, the new keys.
Old(h) == job[h].previous \ job[h].batch

DeleteQuietly(h) ==
    /\ At(h, "delete")
    /\ \E D \in IF Faults THEN SUBSET Old(h) ELSE {Old(h)} :
         /\ stored' = stored \ D
         /\ OrderlyIf(D = Old(h))
    /\ Answer(h)
    /\ UNCHANGED <<target, row, used>>

\* An await rejects, or the process stops before it, with nothing done.
AwaitFails(h) ==
    /\ Faults
    /\ At(h, "upload") \/ At(h, "update")
    /\ Answer(h)
    /\ OrderlyIf(FALSE)
    /\ UNCHANGED <<target, row, stored, used>>

\* The process stops and starts again: the replacements in flight are gone.
Crash ==
    /\ Faults
    /\ \E h \in Handlers : ~At(h, "idle")
    /\ job' = [h \in Handlers |-> Idle]
    /\ OrderlyIf(FALSE)
    /\ UNCHANGED <<target, row, stored, used>>

Step(h) ==
    \/ Upload(h) \/ UploadFails(h)
    \/ UpdateUserProfileImage(h) \/ UpdateUserCoverImage(h) \/ UpdateProduct(h)
    \/ DeleteQuietly(h) \/ AwaitFails(h)

Arrive(h) ==
    \/ FindExistingProfileImage(h)
    \/ FindExistingCoverImage(h)
    \/ FindProductImages(h)

Next == Crash \/ \E h \in Handlers : Arrive(h) \/ Step(h)

Spec == Init /\ [][Next]_vars

-----------------------------------------------------------------------------
(* Properties. *)

\* GW-3, "a failed upload never leaves the profile on a deleted file": however
\* many replacements race and wherever they stop, the row lists only files
\* that are in the store.
RowIsServable == row \subseteq stored

\* "So we don't orphan objects": as long as replacements come one at a time and
\* nothing fails, the store holds the files of the row and no others whenever
\* nothing is under way.  (An overlap, a fault or a missing row can leave some.)
NoOrphans ==
    orderly /\ target.exists /\ (\A h \in Handlers : At(h, "idle"))
        => stored \subseteq row
=============================================================================
