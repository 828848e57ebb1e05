--------------------------- MODULE ImageReplaceProofs ---------------------------
(***************************************************************************)
(* Proofs about ImageReplace, for every route, every number of files and   *)
(* any number of replacements at once, with and without faults: the row    *)
(* never lists a file that is not in the store.                            *)
(*                                                                         *)
(* RowIsServable is not inductive: a replacement points the row at files   *)
(* it uploaded a while ago, and others delete meanwhile.  What keeps the   *)
(* files is that the keys are fresh: the batch of a replacement that has   *)
(* not saved yet is known to it alone, so no list read before the save     *)
(* names it, and what a replacement deletes after its save was read before *)
(* the row came to list what it lists now.                                 *)
(***************************************************************************)
EXTENDS ImageReplace, TLAPS

Unsaved(h) == job[h].step = "update"

KeysAreUsed ==
    /\ row \subseteq used /\ stored \subseteq used
    /\ \A h \in Handlers : job[h].previous \subseteq used /\ job[h].batch \subseteq used

NoRowNoKeys == ~target.exists => row = {}

BatchesAreKept ==
    \A h \in Handlers : Unsaved(h) =>
        job[h].batch \subseteq stored /\ job[h].batch \cap row = {}

BatchesAreSecret ==
    \A h, k \in Handlers : Unsaved(h) =>
        /\ job[h].batch \cap job[k].previous = {}
        /\ h # k /\ Unsaved(k) => job[h].batch \cap job[k].batch = {}

OldIsGone ==
    \A h \in Handlers : job[h].step = "delete" => Old(h) \cap row = {}

IInv ==
    /\ TypeOK /\ RowIsServable /\ KeysAreUsed /\ NoRowNoKeys
    /\ BatchesAreKept /\ BatchesAreSecret /\ OldIsGone

-----------------------------------------------------------------------------

LEMMA IdleFacts ==
  Idle \in Job /\ Idle.step = "idle" /\ Idle.previous = {} /\ Idle.batch = {}
  BY DEF Idle, Job, Steps

LEMMA InitIInv == Init => IInv
  <1> SUFFICES ASSUME Init PROVE IInv
    OBVIOUS
  <1>1. TypeOK
    BY IdleFacts DEF Init, TypeOK
  <1>2. RowIsServable /\ KeysAreUsed /\ NoRowNoKeys
    BY IdleFacts DEF Init, RowIsServable, KeysAreUsed, NoRowNoKeys
  <1>3. BatchesAreKept /\ BatchesAreSecret /\ OldIsGone
    BY IdleFacts DEF Init, BatchesAreKept, BatchesAreSecret, OldIsGone, Unsaved
  <1> QED
    BY <1>1, <1>2, <1>3 DEF IInv

\* The history is a Boolean after every step.
LEMMA OrderlyIsBoolean ==
  ASSUME IInv, NEW h \in Handlers, Arrive(h) \/ Step(h) \/ Crash
  PROVE  orderly' \in BOOLEAN
  <1>1. ASSUME NEW b, OrderlyIf(b) PROVE orderly' \in BOOLEAN
    BY <1>1 DEF OrderlyIf
  <1>2. orderly \in BOOLEAN
    BY DEF IInv, TypeOK
  <1>3. ASSUME Arrive(h) PROVE orderly' \in BOOLEAN
    BY <1>1, <1>3 DEF Arrive, FindExistingProfileImage, FindExistingCoverImage,
                      FindProductImages, Start
  <1>4. ASSUME Upload(h) \/ UploadFails(h) \/ DeleteQuietly(h) \/ AwaitFails(h) \/ Crash
        PROVE  orderly' \in BOOLEAN
    BY <1>1, <1>2, <1>4 DEF Upload, UploadFails, DeleteQuietly, AwaitFails, Crash
  <1>5. ASSUME UpdateUserProfileImage(h) \/ UpdateUserCoverImage(h) \/ UpdateProduct(h)
        PROVE  orderly' \in BOOLEAN
    BY <1>1, <1>2, <1>5 DEF UpdateUserProfileImage, UpdateUserCoverImage,
                            UpdateProduct, Point
  <1> QED
    BY <1>3, <1>4, <1>5 DEF Step

\* A handler that answers: the row stays, and the store may lose what the
\* handler was to delete and gain files of its own.
LEMMA AnswerKeeps ==
  ASSUME IInv, NEW h \in Handlers, Answer(h), orderly' \in BOOLEAN,
         UNCHANGED <<target, row>>,
         used \subseteq used', used' \subseteq Keys, stored' \subseteq used',
         stored \subseteq stored'
           \/ (job[h].step = "delete" /\ stored \ Old(h) \subseteq stored')
  PROVE  IInv'
  <1>1. job'[h] = Idle /\ \A k \in Handlers \ {h} : job'[k] = job[k]
    BY DEF Answer, IInv, TypeOK
  <1>2. TypeOK'
    BY IdleFacts DEF Answer, IInv, TypeOK
  <1>3. RowIsServable'
    BY DEF IInv, RowIsServable, OldIsGone
  <1>4. KeysAreUsed' /\ NoRowNoKeys'
    BY <1>1, IdleFacts DEF IInv, KeysAreUsed, NoRowNoKeys
  <1>5. BatchesAreKept'
    <2> SUFFICES ASSUME NEW k \in Handlers, Unsaved(k)'
                 PROVE  job'[k].batch \subseteq stored' /\ job'[k].batch \cap row = {}
      BY DEF BatchesAreKept
    <2>1. k # h /\ job'[k] = job[k] /\ Unsaved(k)
      BY <1>1, IdleFacts DEF Unsaved
    <2>2. job[k].batch \cap Old(h) = {}
      BY <2>1 DEF IInv, BatchesAreSecret, Old
    <2> QED
      BY <2>1, <2>2 DEF IInv, BatchesAreKept
  <1>6. BatchesAreSecret' /\ OldIsGone'
    BY <1>1, IdleFacts DEF IInv, BatchesAreSecret, OldIsGone, Unsaved, Old
  <1> QED
    BY <1>2, <1>3, <1>4, <1>5, <1>6 DEF IInv

\* A replacement begins with keys the row lists now, so with no one's batch.
LEMMA StartKeeps ==
  ASSUME IInv, NEW h \in Handlers, NEW K \in SUBSET row, Start(h, K),
         orderly' \in BOOLEAN
  PROVE  IInv'
  <1> DEFINE j == [Idle EXCEPT !.step = "upload", !.previous = K]
  <1>1. j \in Job /\ j.step = "upload" /\ j.previous = K /\ j.batch = {}
    BY DEF Idle, Job, Steps, IInv, TypeOK
  <1>2. job'[h] = j /\ \A k \in Handlers \ {h} : job'[k] = job[k]
    BY DEF Start, IInv, TypeOK
  <1>3. UNCHANGED <<target, row, stored, used>>
    BY DEF Start
  <1>4. TypeOK'
    BY <1>1, <1>3 DEF Start, IInv, TypeOK
  <1>5. RowIsServable' /\ KeysAreUsed' /\ NoRowNoKeys'
    BY <1>1, <1>2, <1>3 DEF IInv, RowIsServable, KeysAreUsed, NoRowNoKeys
  <1>6. BatchesAreKept' /\ OldIsGone'
    BY <1>1, <1>2, <1>3 DEF IInv, BatchesAreKept, OldIsGone, Unsaved, Old
  <1>7. BatchesAreSecret'
    BY <1>1, <1>2 DEF IInv, BatchesAreSecret, BatchesAreKept, Unsaved
  <1> QED
    BY <1>4, <1>5, <1>6, <1>7 DEF IInv

LEMMA ArriveKeeps ==
  ASSUME IInv, NEW h \in Handlers, Arrive(h)
  PROVE  IInv'
  <1>1. RowOrNone \subseteq SUBSET row
    BY DEF RowOrNone
  <1> QED
    BY <1>1, OrderlyIsBoolean, StartKeeps
       DEF Arrive, FindExistingProfileImage, FindExistingCoverImage, FindProductImages

\* The new keys are fresh: no list and no batch has them.
LEMMA UploadKeeps ==
  ASSUME IInv, NEW h \in Handlers, Upload(h)
  PROVE  IInv'
  <1>1. PICK B \in SUBSET (Keys \ used) :
          /\ used' = used \cup B /\ stored' = stored \cup B
          /\ job' = [job EXCEPT ![h].step = "update", ![h].batch = B]
    BY DEF Upload
  <1>2. UNCHANGED <<target, row>> /\ job \in [Handlers -> Job]
    BY DEF Upload, IInv, TypeOK
  <1> DEFINE j == [job[h] EXCEPT !.step = "update", !.batch = B]
  <1>3. j \in Job
    <2>1. job[h] \in Job
      BY <1>2
    <2>2. B \in SUBSET Keys
      OBVIOUS
    <2> QED
      BY <2>1, <2>2 DEF Job, Steps
  <1>4. /\ job' = [job EXCEPT ![h] = j]
        /\ job'[h].step = "update" /\ job'[h].batch = B
        /\ job'[h].previous = job[h].previous
        /\ \A k \in Handlers \ {h} : job'[k] = job[k]
    BY <1>1, <1>2, <1>3 DEF Job
  <1>5. TypeOK'
    BY <1>1, <1>2, <1>3, <1>4, OrderlyIsBoolean DEF Step, IInv, TypeOK
  <1>6. RowIsServable' /\ KeysAreUsed' /\ NoRowNoKeys'
    BY <1>1, <1>2, <1>4 DEF IInv, RowIsServable, KeysAreUsed, NoRowNoKeys
  <1>7. BatchesAreKept'
    BY <1>1, <1>2, <1>4 DEF IInv, BatchesAreKept, KeysAreUsed, Unsaved
  <1>8. BatchesAreSecret'
    BY <1>1, <1>2, <1>4 DEF IInv, BatchesAreSecret, KeysAreUsed, Unsaved
  <1>9. OldIsGone'
    BY <1>1, <1>2, <1>4 DEF IInv, OldIsGone, Old
  <1> QED
    BY <1>5, <1>6, <1>7, <1>8, <1>9 DEF IInv

LEMMA UploadFailsKeeps ==
  ASSUME IInv, NEW h \in Handlers, UploadFails(h)
  PROVE  IInv'
  <1>1. PICK B \in SUBSET (Keys \ used) : used' = used \cup B /\ stored' = stored \cup B
    BY DEF UploadFails
  <1>2. used \subseteq used' /\ used' \subseteq Keys /\ stored' \subseteq used'
        /\ stored \subseteq stored'
    BY <1>1 DEF IInv, TypeOK, KeysAreUsed
  <1> QED
    BY <1>2, OrderlyIsBoolean, AnswerKeeps DEF UploadFails, Step

\* The row comes to list the batch, which no other list has: what the others
\* are to delete is not in it, and what this one is to delete is not either.
LEMMA SavedKeeps ==
  ASSUME IInv, NEW h \in Handlers, Unsaved(h),
         row' = job[h].batch \/ (row' = row /\ ~target.exists),
         target.exists \/ row' = {},
         job' = [job EXCEPT ![h].step = "delete"], orderly' \in BOOLEAN,
         UNCHANGED <<target, stored, used>>
  PROVE  IInv'
  <1> DEFINE j == [job[h] EXCEPT !.step = "delete"]
  <1>1. job \in [Handlers -> Job] /\ job[h] \in Job /\ row \subseteq Keys
    BY DEF IInv, TypeOK
  <1>2. j \in Job
    BY <1>1 DEF Job, Steps
  <1>3. /\ job' = [job EXCEPT ![h] = j]
        /\ job'[h].step = "delete" /\ job'[h].batch = job[h].batch
        /\ job'[h].previous = job[h].previous
        /\ \A k \in Handlers \ {h} : job'[k] = job[k]
    BY <1>1 DEF Job
  <1>4. job[h].batch \subseteq stored /\ job[h].batch \subseteq Keys
        /\ job[h].batch \subseteq used
    BY <1>1 DEF IInv, BatchesAreKept, KeysAreUsed, TypeOK
  <1>5. TypeOK'
    BY <1>1, <1>2, <1>3, <1>4 DEF IInv, TypeOK
  <1>6. RowIsServable' /\ KeysAreUsed' /\ NoRowNoKeys'
    BY <1>3, <1>4 DEF IInv, RowIsServable, KeysAreUsed, NoRowNoKeys
  <1>7. BatchesAreKept' /\ BatchesAreSecret'
    <2>1. BatchesAreKept'
      BY <1>3 DEF IInv, BatchesAreKept, BatchesAreSecret, Unsaved
    <2>2. BatchesAreSecret'
      BY <1>3 DEF IInv, BatchesAreSecret, Unsaved
    <2> QED
      BY <2>1, <2>2
  <1>8. OldIsGone'
    <2> SUFFICES ASSUME NEW k \in Handlers, job'[k].step = "delete"
                 PROVE  (job'[k].previous \ job'[k].batch) \cap row' = {}
      BY DEF OldIsGone, Old
    <2>1. CASE row' = {}
      BY <2>1
    <2>2. CASE row' = job[h].batch /\ k = h
      BY <1>3, <2>2
    <2>3. CASE row' = job[h].batch /\ k # h
      BY <1>3, <2>3 DEF IInv, BatchesAreSecret
    <2> QED
      BY <2>1, <2>2, <2>3 DEF IInv, NoRowNoKeys
  <1> QED
    BY <1>5, <1>6, <1>7, <1>8 DEF IInv

\* The update was applied, and its answer was lost.
LEMMA SavedUnansweredKeeps ==
  ASSUME IInv, NEW h \in Handlers, Unsaved(h), target.exists, row' = job[h].batch,
         Answer(h), orderly' \in BOOLEAN, UNCHANGED <<target, stored, used>>
  PROVE  IInv'
  <1>1. job'[h] = Idle /\ \A k \in Handlers \ {h} : job'[k] = job[k]
    BY DEF Answer, IInv, TypeOK
  <1>2. job[h].batch \subseteq stored /\ job[h].batch \subseteq used
    BY DEF IInv, BatchesAreKept, KeysAreUsed
  <1>3. TypeOK' /\ RowIsServable'
    BY <1>2, IdleFacts DEF Answer, IInv, TypeOK, RowIsServable
  <1>4. KeysAreUsed' /\ NoRowNoKeys'
    BY <1>1, <1>2, IdleFacts DEF IInv, KeysAreUsed, NoRowNoKeys
  <1>5. BatchesAreKept' /\ BatchesAreSecret'
    <2>1. BatchesAreKept'
      BY <1>1, IdleFacts DEF IInv, BatchesAreKept, BatchesAreSecret, Unsaved
    <2>2. BatchesAreSecret'
      BY <1>1, IdleFacts DEF IInv, BatchesAreSecret, Unsaved
    <2> QED
      BY <2>1, <2>2
  <1>6. OldIsGone'
    BY <1>1, IdleFacts DEF IInv, OldIsGone, Old, BatchesAreSecret
  <1> QED
    BY <1>3, <1>4, <1>5, <1>6 DEF IInv

LEMMA UpdateKeeps ==
  ASSUME IInv, NEW h \in Handlers,
         \/ UpdateUserProfileImage(h)
         \/ UpdateUserCoverImage(h)
         \/ UpdateProduct(h)
  PROVE  IInv'
  <1>1. Unsaved(h) /\ orderly' \in BOOLEAN /\ UNCHANGED <<target, stored, used>>
    BY OrderlyIsBoolean DEF Step, UpdateUserProfileImage, UpdateUserCoverImage, UpdateProduct, At, Unsaved
  <1>2. CASE Point(h)
    <2>1. target.exists /\ row' = job[h].batch
      BY <1>2 DEF Point
    <2>2. CASE Answer(h)
      BY <1>1, <2>1, <2>2, SavedUnansweredKeeps
    <2>3. CASE job' = [job EXCEPT ![h].step = "delete"]
      BY <1>1, <2>1, <2>3, SavedKeeps
    <2> QED
      BY <1>2, <2>2, <2>3 DEF Point
  <1>3. CASE ~target.exists /\ row' = row /\ Answer(h)
    <2>1. used' \subseteq Keys /\ stored' \subseteq used'
      BY <1>1 DEF IInv, TypeOK, KeysAreUsed
    <2> QED
      BY <1>1, <1>3, <2>1, AnswerKeeps
  <1>4. CASE ~target.exists /\ row' = row /\ job' = [job EXCEPT ![h].step = "delete"]
    <2>1. row' = {}
      BY <1>4 DEF IInv, NoRowNoKeys
    <2> QED
      BY <1>1, <1>4, <2>1, SavedKeeps
  <1> QED
    BY <1>2, <1>3, <1>4
       DEF UpdateUserProfileImage, UpdateUserCoverImage, UpdateProduct

LEMMA DeleteKeeps ==
  ASSUME IInv, NEW h \in Handlers, DeleteQuietly(h)
  PROVE  IInv'
  <1>1. PICK D \in SUBSET Old(h) : stored' = stored \ D
    BY DEF DeleteQuietly
  <1>2. job[h].step = "delete" /\ stored \ Old(h) \subseteq stored' /\ stored' \subseteq used'
        /\ used' \subseteq Keys
    BY <1>1 DEF DeleteQuietly, At, IInv, TypeOK, KeysAreUsed
  <1> QED
    BY <1>2, OrderlyIsBoolean, AnswerKeeps DEF DeleteQuietly, Step

LEMMA StepKeeps ==
  ASSUME IInv, NEW h \in Handlers, Step(h)
  PROVE  IInv'
  <1>1. ASSUME AwaitFails(h) PROVE IInv'
    <2>1. used' \subseteq Keys /\ stored' \subseteq used'
      BY <1>1 DEF AwaitFails, IInv, TypeOK, KeysAreUsed
    <2> QED
      BY <1>1, <2>1, OrderlyIsBoolean, AnswerKeeps DEF AwaitFails, Step
  <1> QED
    BY <1>1, UploadKeeps, UploadFailsKeeps, UpdateKeeps, DeleteKeeps DEF Step

LEMMA CrashKeeps ==
  ASSUME IInv, Crash
  PROVE  IInv'
  <1>1. (\A h \in Handlers : job'[h] = Idle) /\ UNCHANGED <<target, row, stored, used>>
    BY DEF Crash
  <1>2. TypeOK'
    BY IdleFacts DEF Crash, OrderlyIf, IInv, TypeOK
  <1>3. RowIsServable' /\ KeysAreUsed' /\ NoRowNoKeys'
    BY <1>1, IdleFacts DEF IInv, RowIsServable, KeysAreUsed, NoRowNoKeys
  <1>4. BatchesAreKept' /\ BatchesAreSecret' /\ OldIsGone'
    BY <1>1, IdleFacts DEF BatchesAreKept, BatchesAreSecret, OldIsGone, Unsaved
  <1> QED
    BY <1>2, <1>3, <1>4 DEF IInv

LEMMA NextKeeps ==
  ASSUME IInv, [Next]_vars
  PROVE  IInv'
  <1>1. ASSUME UNCHANGED vars PROVE IInv'
    BY <1>1 DEF vars, IInv, TypeOK, RowIsServable, KeysAreUsed, NoRowNoKeys,
                BatchesAreKept, BatchesAreSecret, OldIsGone, Unsaved, Old
  <1> QED
    BY <1>1, ArriveKeeps, StepKeeps, CrashKeeps DEF Next

-----------------------------------------------------------------------------
(* What replacements that come one at a time, without a fault, leave behind. *)

\* Where a replacement that is alone stands: what it read is what the row lists
\* until it saves, and the store holds no more than the row and its own files.
Stands(j, r, s) ==
    /\ j.step = "idle" => s \subseteq r
    /\ j.step = "upload" => j.previous = r /\ s \subseteq r
    /\ j.step = "update" => j.previous = r /\ s \subseteq r \cup j.batch
    /\ j.step = "delete" => r = j.batch /\ s \subseteq r \cup j.previous

\* At most one is under way, and stands so.
Tidy ==
    /\ \A g, h \in Handlers : ~At(g, "idle") /\ ~At(h, "idle") => g = h
    /\ \A h \in Handlers :
         (\A g \in Handlers \ {h} : At(g, "idle")) => Stands(job[h], row, stored)

OInv == orderly /\ target.exists => Tidy

\* History does not become orderly again.
LEMMA WasOrderly ==
  ASSUME NEW h \in Handlers, Arrive(h) \/ Step(h) \/ Crash, orderly'
  PROVE  orderly
  <1>1. ASSUME NEW b, OrderlyIf(b) PROVE orderly
    BY <1>1 DEF OrderlyIf
  <1>2. ASSUME Arrive(h) PROVE orderly
    BY <1>1, <1>2 DEF Arrive, FindExistingProfileImage, FindExistingCoverImage,
                      FindProductImages, Start
  <1>3. ASSUME Upload(h) \/ UploadFails(h) \/ DeleteQuietly(h) \/ AwaitFails(h) \/ Crash
        PROVE  orderly
    BY <1>1, <1>3 DEF Upload, UploadFails, DeleteQuietly, AwaitFails, Crash
  <1>4. ASSUME UpdateUserProfileImage(h) \/ UpdateUserCoverImage(h) \/ UpdateProduct(h)
        PROVE  orderly
    BY <1>1, <1>4 DEF UpdateUserProfileImage, UpdateUserCoverImage,
                      UpdateProduct, Point
  <1> QED
    BY <1>2, <1>3, <1>4 DEF Step

\* A step to j of a handler that is alone.
LEMMA OneStands ==
  ASSUME TypeOK, NEW h \in Handlers, NEW j \in Job, job' = [job EXCEPT ![h] = j],
         \A g \in Handlers \ {h} : At(g, "idle"),
         Stands(j, row', stored')
  PROVE  Tidy'
  <1>1. job'[h] = j /\ \A g \in Handlers \ {h} : job'[g] = job[g]
    BY DEF TypeOK
  <1>2. \A g, k \in Handlers : ~At(g, "idle")' /\ ~At(k, "idle")' => g = k
    BY <1>1 DEF At
  <1>3. ASSUME NEW k \in Handlers, \A g \in Handlers \ {k} : At(g, "idle")'
        PROVE  Stands(job'[k], row', stored')
    <2>1. CASE k = h
      BY <1>1, <2>1
    <2>2. CASE k # h
      BY <1>1, <1>3, <2>2 DEF At, Stands
    <2> QED
      BY <2>1, <2>2
  <1> QED
    BY <1>2, <1>3 DEF Tidy

\* A handler under way is alone, and stands as it should.
LEMMA AloneStands ==
  ASSUME Tidy, NEW h \in Handlers, ~At(h, "idle")
  PROVE  /\ \A g \in Handlers \ {h} : At(g, "idle")
         /\ Stands(job[h], row, stored)
  BY DEF Tidy

LEMMA StartTidy ==
  ASSUME IInv, Tidy, NEW h \in Handlers, NEW K \in SUBSET Keys, Start(h, K), orderly'
  PROVE  Tidy'
  <1> DEFINE j == [Idle EXCEPT !.step = "upload", !.previous = K]
  <1>1. K = row /\ \A k \in Handlers : At(k, "idle")
    <2>1. ASSUME NEW b, OrderlyIf(b) PROVE b
      BY <2>1 DEF OrderlyIf
    <2> QED
      BY <2>1 DEF Start
  <1>2. j \in Job /\ j.step = "upload" /\ j.previous = K
    BY DEF Idle, Job, Steps
  <1>3. job' = [job EXCEPT ![h] = j] /\ UNCHANGED <<row, stored>>
    BY DEF Start
  <1>4. stored \subseteq row
    BY <1>1 DEF Tidy, Stands, At
  <1>5. Stands(j, row', stored')
    BY <1>1, <1>2, <1>3, <1>4 DEF Stands
  <1> HIDE DEF j
  <1> QED
    BY <1>1, <1>2, <1>3, <1>5, OneStands DEF IInv

LEMMA ArriveTidy ==
  ASSUME IInv, Tidy, NEW h \in Handlers, Arrive(h), orderly'
  PROVE  Tidy'
  <1>1. RowOrNone \subseteq SUBSET Keys /\ row \in SUBSET Keys
    BY DEF RowOrNone, IInv, TypeOK
  <1> QED
    BY <1>1, StartTidy
       DEF Arrive, FindExistingProfileImage, FindExistingCoverImage, FindProductImages

LEMMA UploadTidy ==
  ASSUME IInv, Tidy, NEW h \in Handlers, Upload(h)
  PROVE  Tidy'
  <1>1. PICK B \in SUBSET (Keys \ used) :
          /\ stored' = stored \cup B
          /\ job' = [job EXCEPT ![h].step = "update", ![h].batch = B]
    BY DEF Upload
  <1>2. row' = row /\ job[h] \in Job /\ job[h].step = "upload"
    BY DEF Upload, At, IInv, TypeOK
  <1> DEFINE j == [job[h] EXCEPT !.step = "update", !.batch = B]
  <1>3. /\ j \in Job /\ j.step = "update" /\ j.batch = B
        /\ j.previous = job[h].previous
    BY <1>2 DEF Job, Steps
  <1>4. job' = [job EXCEPT ![h] = j]
    BY <1>1
  <1>5. /\ \A g \in Handlers \ {h} : At(g, "idle")
        /\ Stands(job[h], row, stored)
    BY <1>2, AloneStands DEF At
  <1> HIDE DEF j
  <1>6. Stands(j, row', stored')
    BY <1>1, <1>2, <1>3, <1>5 DEF Stands
  <1> QED
    BY <1>3, <1>4, <1>5, <1>6, OneStands DEF IInv

\* An answer, of a handler that leaves no more than the row lists.
LEMMA AnswerTidy ==
  ASSUME IInv, Tidy, NEW h \in Handlers, ~At(h, "idle"), Answer(h),
         stored' \subseteq row'
  PROVE  Tidy'
  <1>1. job' = [job EXCEPT ![h] = Idle] /\ Stands(Idle, row', stored')
    BY IdleFacts DEF Answer, Stands
  <1> QED
    BY <1>1, IdleFacts, AloneStands, OneStands DEF IInv

LEMMA UpdateTidy ==
  ASSUME IInv, Tidy, NEW h \in Handlers, At(h, "update"), target.exists,
         Point(h), stored' = stored, orderly'
  PROVE  Tidy'
  <1>1. row' = job[h].batch /\ job' = [job EXCEPT ![h].step = "delete"]
    <2>1. ~OrderlyIf(FALSE)
      BY DEF OrderlyIf
    <2> QED
      BY <2>1 DEF Point
  <1> DEFINE j == [job[h] EXCEPT !.step = "delete"]
  <1>2. /\ job[h] \in Job /\ job[h].step = "update"
        /\ \A g \in Handlers \ {h} : At(g, "idle")
        /\ Stands(job[h], row, stored)
    BY AloneStands DEF At, IInv, TypeOK
  <1>3. /\ j \in Job /\ j.step = "delete" /\ j.batch = job[h].batch
        /\ j.previous = job[h].previous
    BY <1>2 DEF Job, Steps
  <1>4. job' = [job EXCEPT ![h] = j]
    BY <1>1
  <1> HIDE DEF j
  <1>5. Stands(j, row', stored')
    BY <1>1, <1>2, <1>3 DEF Stands
  <1> QED
    BY <1>2, <1>3, <1>4, <1>5, OneStands DEF IInv

LEMMA StepTidy ==
  ASSUME IInv, Tidy, NEW h \in Handlers, Step(h), orderly', target.exists
  PROVE  Tidy'
  <1>0. ASSUME NEW b, OrderlyIf(b) PROVE b
    BY <1>0 DEF OrderlyIf
  <1>1. ASSUME UploadFails(h) PROVE Tidy'
    <2>1. PICK B : stored' = stored \cup B /\ B = {}
      BY <1>0, <1>1 DEF UploadFails
    <2>2. /\ job[h].step = "upload" /\ Answer(h) /\ row' = row
          /\ ~At(h, "idle")
      BY <1>1 DEF UploadFails, At
    <2>3. stored \subseteq row
      BY <2>2, AloneStands DEF Stands
    <2> QED
      BY <2>1, <2>2, <2>3, AnswerTidy
  <1>2. ASSUME DeleteQuietly(h) PROVE Tidy'
    <2>1. stored' = stored \ Old(h)
      BY <1>0, <1>2 DEF DeleteQuietly
    <2>2. /\ job[h].step = "delete" /\ Answer(h) /\ row' = row
          /\ ~At(h, "idle")
      BY <1>2 DEF DeleteQuietly, At
    <2>3. row = job[h].batch /\ stored \subseteq row \cup job[h].previous
      BY <2>2, AloneStands DEF Stands
    <2> QED
      BY <2>1, <2>2, <2>3, AnswerTidy DEF Old
  <1>3. ASSUME AwaitFails(h) PROVE FALSE
    BY <1>0, <1>3 DEF AwaitFails
  <1>4. ASSUME \/ UpdateUserProfileImage(h)
               \/ UpdateUserCoverImage(h)
               \/ UpdateProduct(h)
        PROVE  Tidy'
    BY <1>4, UpdateTidy DEF UpdateUserProfileImage, UpdateUserCoverImage, UpdateProduct
  <1> QED
    BY <1>1, <1>2, <1>3, <1>4, UploadTidy DEF Step

LEMMA TidyStays ==
  ASSUME IInv, OInv, [Next]_vars
  PROVE  OInv'
  <1> SUFFICES ASSUME orderly', target'.exists PROVE Tidy'
    BY DEF OInv
  <1>1. CASE UNCHANGED vars
    <2>1. Tidy /\ UNCHANGED <<job, row, stored>>
      BY <1>1 DEF vars, OInv
    <2> QED
      BY <2>1 DEF Tidy, At
  <1>2. CASE Crash
    BY <1>2 DEF Crash, OrderlyIf
  <1>3. ASSUME NEW h \in Handlers, Arrive(h) PROVE Tidy'
    <2>1. target' = target
      BY <1>3 DEF Arrive, FindExistingProfileImage, FindExistingCoverImage,
                  FindProductImages, Start
    <2> QED
      BY <1>3, <2>1, WasOrderly, ArriveTidy DEF OInv
  <1>4. ASSUME NEW h \in Handlers, Step(h) PROVE Tidy'
    <2>1. target' = target
      BY <1>4 DEF Step, Upload, UploadFails, UpdateUserProfileImage,
                  UpdateUserCoverImage, UpdateProduct, DeleteQuietly, AwaitFails
    <2> QED
      BY <1>4, <2>1, WasOrderly, StepTidy DEF OInv
  <1> QED
    BY <1>1, <1>2, <1>3, <1>4 DEF Next

-----------------------------------------------------------------------------
(* The theorems. *)

THEOREM Invariance == Spec => []IInv
  <1>1. Init => IInv
    BY InitIInv
  <1>2. IInv /\ [Next]_vars => IInv'
    BY NextKeeps
  <1> QED
    BY <1>1, <1>2, PTL DEF Spec

\* Every state of a replacement is well typed.
THEOREM TypeCorrect == Spec => []TypeOK
  <1>1. IInv => TypeOK
    BY DEF IInv
  <1> QED
    BY <1>1, Invariance, PTL

\* The avatar, the cover or the pictures a row lists are always in the store,
\* whatever replacements race, fail or stop half way.
THEOREM Servable == Spec => []RowIsServable
  <1>1. IInv => RowIsServable
    BY DEF IInv
  <1> QED
    BY <1>1, Invariance, PTL

LEMMA Tidiness == Spec => []OInv
  <1>1. Init => OInv
    BY IdleFacts DEF Init, OInv, Tidy, At, Stands
  <1> QED
    BY <1>1, Invariance, TidyStays, PTL DEF Spec

\* Replacements that come one at a time, without a fault, leave the files of the
\* row and no others.
THEOREM NothingOrphaned == Spec => []NoOrphans
  <1>1. IInv /\ OInv => NoOrphans
    <2> SUFFICES ASSUME IInv, OInv, orderly, target.exists,
                        \A h \in Handlers : At(h, "idle")
                 PROVE  stored \subseteq row
      BY DEF NoOrphans
    <2> QED
      BY HandlersExist DEF OInv, Tidy, Stands, At
  <1> QED
    BY <1>1, Invariance, Tidiness, PTL
=============================================================================
