---------------------------- MODULE ListingImages ----------------------------
(***************************************************************************)
(* The photos of a seller's listings: the panel adds, removes and reorders *)
(* them (PanelBusinessImagesController), the shop appends them             *)
(* (BusinessImageController), a product's are replaced as a whole          *)
(* (ProductImagesController), and files that an edit dropped are released  *)
(* (ImagesController.releaseImages).                                       *)
(*                                                                         *)
(* Each edit reads the list of a row, awaits, and writes the whole list    *)
(* back; each release counts the rows that list a key and then deletes its *)
(* file; a replacement deletes what its product listed, and asks no other  *)
(* listing.  Nothing keeps two of them apart.                              *)
(*                                                                         *)
(* Limitations: a listing that is created with photos the publishing form  *)
(* uploaded is one of the initial listings; a file that a failed upload    *)
(* leaves in the store, which no list and no client names, is not kept.    *)
(***************************************************************************)
EXTENDS Integers, SequencesExt

CONSTANTS
    Items,      \* the seller's listings
    TableOf,    \* the table each one lives in
    Keys,       \* the object keys the processor may hand out (bound)
    Handlers,   \* requests in flight at one time (bound)
    MaxImages,  \* MAX_ITEM_IMAGES
    MaxFiles,   \* files in one replacement of a product's photos
    Ops,        \* the operations in use
    Faults      \* whether awaits may fail and the process may stop

Tables == {"product", "storeProduct", "service"}
AllOps == {"add", "append", "publish", "remove", "cover", "release", "replace",
           "webDrop"}

ASSUME TablesAreKnown == TableOf \in [Items -> Tables]
ASSUME OpsAreKnown == Ops \subseteq AllOps
ASSUME MaxImagesIsNat == MaxImages \in Nat
ASSUME MaxFilesIsNat == MaxFiles \in Nat
ASSUME FaultsIsBoolean == Faults \in BOOLEAN

VARIABLES
    images,  \* the list of each row
    active,  \* isActive of each row
    stored,  \* the keys whose files are in the object store
    used,    \* every key handed out so far: the processor's are fresh uuids
    folder,  \* the keys under the seller's own product/<sellerId>/ folder
    job,     \* the request each handler is serving
    stale,   \* history: the items an edit wrote from an out-of-date list
    gone     \* history: the files each product's replacements deleted

files == <<stored, used, folder, gone>>
vars == <<images, active, files, job, stale>>

Steps == {"idle", "upload", "read", "save", "count", "delete", "drop"}
Nothing == {}

\* base: the list the handler read; list: what it is about to write; key: the
\* photos it is about, at most one but in a replacement; uncounted: the tables
\* still to be asked about it.
Job == [op : AllOps \cup {"none"}, step : Steps, item : SUBSET Items,
        base : Seq(Keys), list : Seq(Keys), key : SUBSET Keys, uncounted : SUBSET Tables]

Idle == [op |-> "none", step |-> "idle", item |-> Nothing, base |-> <<>>,
         list |-> <<>>, key |-> Nothing, uncounted |-> {}]

TypeOK ==
    /\ images \in [Items -> Seq(Keys)]
    /\ active \in [Items -> BOOLEAN]
    /\ stored \subseteq Keys /\ used \subseteq Keys /\ folder \subseteq Keys
    /\ job \in [Handlers -> Job]
    /\ stale \subseteq Items
    /\ gone \in [Items -> SUBSET Keys]

\* Photos as a form may bring them, n at most.
Batch(K, n) == {s \in SeqOf(K, n) : s # <<>> /\ IsInjective(s)}

\* A listing starts with photos of the seller's folder, uploaded by the
\* publishing form, whose limit is the panel's; two listings may share some.
Init ==
    /\ images \in [Items -> Batch(Keys, MaxImages)]
    /\ stored = UNION {ToSet(images[i]) : i \in Items}
    /\ active = [i \in Items |-> TRUE]
    /\ used = stored
    /\ folder = stored
    /\ job = [h \in Handlers |-> Idle]
    /\ stale = {}
    /\ gone = [i \in Items |-> {}]

At(h, s) == job[h].step = s
Answer(h) == job' = [job EXCEPT ![h] = Idle]
Listed(i) == ToSet(images[i])
PanelItem(i) == TableOf[i] # "product"

Begin(h, o, s, i, l, K) ==
    /\ At(h, "idle")
    /\ o \in Ops
    /\ job' = [job EXCEPT ![h] = [op |-> o, step |-> s, item |-> {i},
                                  base |-> images[i], list |-> l,
                                  key |-> K, uncounted |-> {}]]
    /\ UNCHANGED <<images, active, files, stale>>
-----------------------------------------------------------------------------
(* Arrivals: the first read of the row, after the checks of the caller. *)

\* loadItem, then the limit, on the list that was read.
AddImage(h, i) ==
    /\ PanelItem(i)
    /\ Len(images[i]) < MaxImages
    /\ Begin(h, "add", "upload", i, images[i], {})

\* uploadBusinessImage checks the owner only; the list is read after the upload.
UploadBusinessImage(h, i) ==
    /\ PanelItem(i)
    /\ Begin(h, "append", "upload", i, <<>>, {})

\* uploadProductImages, for a product its caller owns: what it lists is read
\* first, to be deleted in the end.
ReplaceImages(h, i) ==
    /\ ~PanelItem(i)
    /\ Begin(h, "replace", "upload", i, <<>>, {})

\* uploadProductImage: a photo for a listing that does not exist yet.
UploadProductImage(h) ==
    /\ At(h, "idle")
    /\ "publish" \in Ops
    /\ job' = [job EXCEPT ![h] = [Idle EXCEPT !.op = "publish", !.step = "upload"]]
    /\ UNCHANGED <<images, active, files, stale>>

\* The code keeps every photo that is not k.  No list names a photo twice (a
\* theorem of ListingImagesProofs), so that the first is the only one to go.
RemoveImage(h, i, k) ==
    /\ PanelItem(i)
    /\ k \in Listed(i)
    /\ Begin(h, "remove", "save", i, RemoveFirst(images[i], k), {k})

SetCover(h, i, k) ==
    /\ PanelItem(i)
    /\ k \in Listed(i)
    /\ Begin(h, "cover", "save", i, <<k>> \o RemoveFirst(images[i], k), {k})

\* The key of a photo that is being added is known to no client yet.
Known(k) == \A h \in Handlers : job[h].op = "add" => k \notin job[h].key

\* Mutant of ReleaseImages: only the store products are asked.
ReleaseAskingOne(h, k) ==
    /\ At(h, "idle")
    /\ "release" \in Ops
    /\ k \in folder /\ Known(k)
    /\ job' = [job EXCEPT ![h] = [Idle EXCEPT !.op = "release", !.step = "count",
                                 !.key = {k}, !.uncounted = {"storeProduct"}]]
    /\ UNCHANGED <<images, active, files, stale>>

\* releaseImages, for one of the keys it was given: those outside the
\* caller's own folder are passed over.
ReleaseImages(h, k) ==
    /\ At(h, "idle")
    /\ "release" \in Ops
    /\ k \in folder /\ Known(k)
    /\ job' = [job EXCEPT ![h] = [Idle EXCEPT !.op = "release", !.step = "count",
                                              !.key = {k}, !.uncounted = Tables]]
    /\ UNCHANGED <<images, active, files, stale>>

-----------------------------------------------------------------------------
(* Steps. *)

\* Mutant of Upload: the whole answer is listed instead of its key.
UploadListsAnswer(h) ==
    /\ At(h, "upload")
    /\ \E k \in Keys \ used :
         /\ used' = used \cup {k}
         /\ stored' = stored \cup {k}
         /\ folder' = folder \cup {k}
         /\ job' = [job EXCEPT ![h].step = "save", ![h].key = {k},
                               ![h].list = Append(@, {k})]
    /\ UNCHANGED <<images, active, stale, gone>>

\* The upload: the panel's and the publishing form's into the seller's folder,
\* the shop's into one named after the item.
Upload(h) ==
    /\ At(h, "upload")
    /\ \E k \in Keys \ used :
         /\ used' = used \cup {k}
         /\ stored' = stored \cup {k}
         /\ folder' = IF job[h].op = "append" THEN folder ELSE folder \cup {k}
         /\ \/ /\ job[h].op = "add"
               /\ job' = [job EXCEPT ![h].step = "save", ![h].key = {k},
                                     ![h].list = Append(@, k)]
            \/ /\ job[h].op = "append"
               /\ job' = [job EXCEPT ![h].step = "read", ![h].key = {k}]
            \/ /\ job[h].op = "publish"
               /\ Answer(h)
    /\ UNCHANGED <<images, active, stale, gone>>

\* A replacement uploads all its files, into a folder named after the product.
UploadBatch(h) ==
    /\ At(h, "upload")
    /\ job[h].op = "replace"
    /\ \E l \in Batch(Keys \ used, MaxFiles) :
         /\ used' = used \cup ToSet(l)
         /\ stored' = stored \cup ToSet(l)
         /\ job' = [job EXCEPT ![h].step = "save", ![h].key = ToSet(l), ![h].list = l]
    /\ UNCHANGED <<images, active, folder, stale, gone>>

\* The processor refuses the photo.
UploadFails(h) ==
    /\ At(h, "upload")
    /\ Answer(h)
    /\ UNCHANGED <<images, active, files, stale>>

\* Mutant of ReadList: the new photo replaces the list.
ReadNothing(h) ==
    /\ At(h, "read")
    /\ \E k \in job[h].key :
         job' = [job EXCEPT ![h].step = "save", ![h].list = <<k>>,
                            ![h].base = images[CHOOSE i \in job[h].item : TRUE]]
    /\ UNCHANGED <<images, active, files, stale>>

\* updateBusinessImage reads the list it appends to.
ReadList(h) ==
    /\ At(h, "read")
    /\ \E i \in job[h].item, k \in job[h].key :
         job' = [job EXCEPT ![h].step = "save", ![h].base = images[i],
                            ![h].list = Append(images[i], k)]
    /\ UNCHANGED <<images, active, files, stale>>

\* Mutant of Hides: services are hidden, and store products are not.
HidesServices(h) ==
    /\ job[h].op = "remove"
    /\ job[h].list = <<>>
    /\ \A i \in job[h].item : TableOf[i] = "service"

\* A store product left without photos is hidden by the same update.
Hides(h) ==
    /\ job[h].op = "remove"
    /\ job[h].list = <<>>
    /\ \A i \in job[h].item : TableOf[i] = "storeProduct"

\* Mutant of Save: a photo is added to the list as it is now, not as it was
\* when the limit was looked at.
SaveOntoCurrent(h) ==
    /\ At(h, "save")
    /\ job[h].op = "add"
    /\ \E i \in job[h].item, k \in job[h].key :
         images' = [images EXCEPT ![i] = Append(@, k)]
    /\ Answer(h)
    /\ UNCHANGED <<active, files, stale>>

\* The whole list is written.  A removal goes on to release the file.
Save(h) ==
    /\ At(h, "save")
    /\ job[h].op # "replace"
    /\ \E i \in job[h].item :
         /\ images' = [images EXCEPT ![i] = job[h].list]
         /\ active' = [active EXCEPT ![i] = @ /\ ~Hides(h)]
         /\ stale' = IF images[i] = job[h].base THEN stale ELSE stale \cup {i}
    /\ IF job[h].op = "remove" /\ job[h].key \subseteq folder
       THEN job' = [job EXCEPT ![h] = [Idle EXCEPT !.op = "remove",
                      !.step = "count", !.key = job[h].key, !.uncounted = Tables]]
       ELSE Answer(h)
    /\ UNCHANGED files

\* The product is pointed at its new files, whatever it lists by now; then the
\* files go that it listed when the request arrived.
SaveBatch(h) ==
    /\ At(h, "save")
    /\ job[h].op = "replace"
    /\ \E i \in job[h].item : images' = [images EXCEPT ![i] = job[h].list]
    /\ job' = [job EXCEPT ![h].step = "drop",
                          ![h].key = ToSet(job[h].base) \ job[h].key]
    /\ UNCHANGED <<active, files, stale>>

\* Mutant of DropFile: what the product lists by now is deleted.
DropCurrent(h) ==
    /\ At(h, "drop")
    /\ \E i \in job[h].item, k \in Keys :
         /\ k \in Listed(i)
         /\ stored' = stored \ {k}
         /\ gone' = [gone EXCEPT ![i] = @ \cup {k}]
    /\ Answer(h)
    /\ UNCHANGED <<images, active, used, folder, stale>>

\* deleteQuietly: one of the deletes, which are sent together.  No listing is
\* asked whether it lists the file.  A delete that fails leaves it.
DropFile(h) ==
    /\ At(h, "drop")
    /\ \E i \in job[h].item, k \in job[h].key :
         /\ \/ /\ stored' = stored \ {k}
               /\ gone' = [gone EXCEPT ![i] = @ \cup {k}]
            \/ Faults /\ UNCHANGED <<stored, gone>>
         /\ job' = [job EXCEPT ![h].key = @ \ {k}]
    /\ UNCHANGED <<images, active, used, folder, stale>>

\* None is left: the request is answered.
Dropped(h) ==
    /\ At(h, "drop")
    /\ job[h].key = {}
    /\ Answer(h)
    /\ UNCHANGED <<images, active, files, stale>>

\* One of the three counts of isListed, which run side by side; a table that
\* lists the key keeps its file.
CountTable(h, t) ==
    /\ At(h, "count")
    /\ t \in job[h].uncounted
    /\ IF \E i \in Items, k \in job[h].key : TableOf[i] = t /\ k \in Listed(i)
       THEN Answer(h)
       ELSE job' = [job EXCEPT ![h].uncounted = @ \ {t},
                               ![h].step = IF job[h].uncounted = {t}
                                           THEN "delete" ELSE @]
    /\ UNCHANGED <<images, active, files, stale>>

DeleteFile(h) ==
    /\ At(h, "delete")
    /\ stored' = stored \ job[h].key
    /\ Answer(h)
    /\ UNCHANGED <<images, active, used, folder, stale, gone>>

\* An await rejects, or the process stops before it: nothing was done.
AwaitFails(h) ==
    /\ Faults
    /\ ~At(h, "idle")
    /\ Answer(h)
    /\ UNCHANGED <<images, active, files, stale>>

\* The web saves a listing with one photo fewer, through the catalog subgraph;
\* it keeps at least one.
WebDrop(i, k) ==
    /\ "webDrop" \in Ops
    /\ k \in Listed(i)
    /\ Len(images[i]) > 1
    /\ images' = [images EXCEPT ![i] = RemoveFirst(@, k)]
    /\ UNCHANGED <<active, files, job, stale>>

Arrive(h) ==
    \/ \E i \in Items :
         AddImage(h, i) \/ UploadBusinessImage(h, i) \/ ReplaceImages(h, i)
    \/ \E i \in Items, k \in Keys : RemoveImage(h, i, k) \/ SetCover(h, i, k)
    \/ \E k \in Keys : ReleaseImages(h, k)
    \/ UploadProductImage(h)

Step(h) ==
    \/ Upload(h) \/ UploadBatch(h) \/ UploadFails(h) \/ ReadList(h)
    \/ Save(h) \/ SaveBatch(h) \/ DropFile(h) \/ Dropped(h)
    \/ \E t \in Tables : CountTable(h, t)
    \/ DeleteFile(h) \/ AwaitFails(h)

Next ==
    \/ \E h \in Handlers : Arrive(h) \/ Step(h)
    \/ \E i \in Items, k \in Keys : WebDrop(i, k)

Spec == Init /\ [][Next]_vars

-----------------------------------------------------------------------------
(* Properties. *)

\* "A stale or forged key can never break a listing": every photo a listing
\* shows has its file.
NoDanglingKey == \A i \in Items : Listed(i) \subseteq stored

\* Two things break it and no others: an edit written from an out-of-date list,
\* and the replacement of a product that lists the same photo, which deletes
\* the file for everyone.  The listings never written so keep their files
\* whatever is released, their own replacements included; a photo taken off
\* one of two listings that share it stays for the other.
FreshListsServable ==
    \A i \in Items \ stale :
        Listed(i) \subseteq stored \cup UNION {gone[p] : p \in Items \ {i}}

\* "At most 3 photos per listing": but for the shop, whose route has no limit
\* and whose photos lie outside the seller's folder, no edit takes a listing
\* past it, although edits that overlap write lists that are out of date.
OnlyTheShopExceeds ==
    \A i \in Items : Cardinality(Listed(i) \cap folder) <= MaxImages

\* "A store product left without photos is hidden": none is shown without one,
\* however removals race with the other edits.
NoneShownEmpty ==
    \A i \in Items :
        TableOf[i] = "storeProduct" /\ active[i] => images[i] # <<>>

\* The photos a request has uploaded and not listed yet, and those of a list L
\* that it takes off.
New(j) ==
    IF j.op \in {"add", "append", "replace"} /\ j.step # "drop"
    THEN j.key ELSE {}
TakenOff(j, L) ==
    CASE j.op = "remove" -> j.key
      [] j.op = "replace" -> L
      [] OTHER -> {}

Saves(h) == At(h, "save") /\ images' # images /\ ~At(h, "save")'

\* "Adds one photo", "takes a photo off", "moves a photo to the front",
\* "replaces a product's image set": as long as an item was never written from
\* an out-of-date list, a save does to its photos what one such edit does, and
\* nothing else: none that another request added is dropped, and none that was
\* removed comes back.
SaveIsOneEdit ==
    [][\A h \in Handlers : Saves(h) =>
         \A i \in Items \ stale' :
            ToSet(images'[i]) =
                IF i \in job[h].item
                THEN (Listed(i) \ TakenOff(job[h], Listed(i))) \cup New(job[h])
                ELSE Listed(i)]_vars
=============================================================================
