------------------------- MODULE ListingImagesProofs -------------------------
(***************************************************************************)
(* Proofs about ListingImages, for any listings, keys, number of requests  *)
(* in flight and limit, with and without faults.                           *)
(*                                                                         *)
(* Two facts carry the argument.  A photo that was uploaded and not yet    *)
(* listed is in the hands of one request: no list names it, and no release *)
(* can be asked for it.  And a release that has been told by a table that  *)
(* nothing there lists its key is still right about the listings that were *)
(* never written from an out-of-date list: each later list of theirs names *)
(* nothing but what it named before and the writer's own photos.           *)
(***************************************************************************)
EXTENDS ListingImages, FiniteSetTheorems, SequenceTheorems, TLAPS

\* What the request was at, and what it knows, at each of its steps.
RightStep(j) ==
    /\ j.step = "idle" => j = Idle
    /\ j.step = "upload" => j.op \in {"add", "append", "publish", "replace"} /\ j.key = {}
    /\ j.step = "read" => j.op = "append"
    /\ j.step = "save" => j.op \in {"add", "append", "remove", "cover", "replace"}
    /\ j.step \in {"count", "delete"} => j.op \in {"remove", "release"}
    /\ j.step = "delete" => j.uncounted = {}
    /\ j.step = "drop" => j.op = "replace"

RightTarget(j) ==
    /\ j.op \in {"add", "append", "replace"} \/ j.step = "save" =>
         \E i \in Items : j.item = {i} /\ (PanelItem(i) <=> j.op # "replace")
    /\ j.step \in {"read", "save"} /\ j.op # "replace" => \E k \in Keys : j.key = {k}

RightList(j) ==
    /\ IsInjective(j.base)
    /\ j.op = "add" /\ j.step = "upload" =>
         j.list = j.base /\ Len(j.list) < MaxImages
    /\ j.step = "save" =>
         /\ ToSet(j.list) = (ToSet(j.base) \ TakenOff(j, ToSet(j.base))) \cup New(j)
         /\ IsInjective(j.list)
         /\ j.list = <<>> => j.op = "remove"

RightJobs == \A h \in Handlers :
    RightStep(job[h]) /\ RightTarget(job[h]) /\ RightList(job[h])

\* Every key about was handed out by the processor.
KeysAreUsed ==
    /\ stored \subseteq used /\ folder \subseteq used
    /\ \A i \in Items : Listed(i) \subseteq used
    /\ \A h \in Handlers : job[h].key \cup ToSet(job[h].base) \subseteq used

\* A new photo is stored, listed nowhere, and known to one request.
NewIsOwn ==
    \A h \in Handlers :
        /\ New(job[h]) \subseteq stored
        /\ \A i \in Items : New(job[h]) \cap Listed(i) = {}
        /\ New(job[h]) \cap ToSet(job[h].base) = {}
        /\ job[h].op # "add" => New(job[h]) \cap folder = {}
        /\ \A g \in Handlers \ {h} :
             New(job[h]) \cap (job[g].key \cup ToSet(job[g].base)) = {}

\* A table that was asked lists the key in no listing that was never written
\* from an out-of-date list.
CountsHold ==
    \A h \in Handlers : job[h].step \in {"count", "delete"} =>
        \A i \in Items \ stale :
            TableOf[i] \notin job[h].uncounted => job[h].key \cap Listed(i) = {}

\* The files a replacement has still to delete are not of its product any more.
DropsAreOld ==
    \A h \in Handlers : job[h].step = "drop" =>
        \A i \in Items \cap job[h].item : job[h].key \cap Listed(i) = {}

\* No list shows a photo twice.
ListsHaveNoRepeats == \A i \in Items : IsInjective(images[i])

IInv ==
    /\ TypeOK /\ RightJobs /\ KeysAreUsed /\ NewIsOwn /\ CountsHold
    /\ DropsAreOld /\ ListsHaveNoRepeats /\ NoneShownEmpty /\ FreshListsServable

-----------------------------------------------------------------------------
(* Lists of keys. *)

LEMMA ToSetIs ==
    ASSUME NEW K, NEW s \in Seq(K)
    PROVE  /\ ToSet(s) = {s[i] : i \in 1..Len(s)}
           /\ ToSet(s) \subseteq K
           /\ ToSet(s) = {} <=> s = <<>>
  <1>1. Len(s) \in Nat /\ DOMAIN s = 1..Len(s) /\ \A i \in 1..Len(s) : s[i] \in K
    BY LenProperties, ElementOfSeq
  <1>2. CASE s = <<>>
    BY <1>1, <1>2 DEF ToSet
  <1>3. CASE s # <<>>
    <2>1. 1 \in 1..Len(s)
      BY <1>1, <1>3, EmptySeq
    <2> QED
      BY <1>1, <1>3, <2>1 DEF ToSet
  <1> QED
    BY <1>2, <1>3

\* A photo put at the end of a list.
LEMMA AppendFacts ==
    ASSUME NEW K, NEW s \in Seq(K), NEW k \in K
    PROVE  /\ Append(s, k) \in Seq(K) /\ Append(s, k) # <<>>
           /\ Len(Append(s, k)) = Len(s) + 1
           /\ ToSet(Append(s, k)) = ToSet(s) \cup {k}
           /\ IsInjective(s) /\ k \notin ToSet(s) => IsInjective(Append(s, k))
  <1> DEFINE t == Append(s, k)
  <1>1. /\ t \in Seq(K) /\ t # <<>> /\ Len(t) = Len(s) + 1 /\ Len(s) \in Nat
        /\ \A i \in 1..Len(s) : t[i] = s[i]
        /\ t[Len(s) + 1] = k
    BY AppendProperties, LenProperties
  <1>2. /\ DOMAIN t = 1..Len(s) + 1 /\ DOMAIN s = 1..Len(s)
    BY <1>1, LenProperties
  <1> HIDE DEF t
  <1>3. ToSet(t) = ToSet(s) \cup {k}
    BY <1>1, <1>2 DEF ToSet
  <1>4. IsInjective(s) /\ k \notin ToSet(s) => IsInjective(t)
    BY <1>1, <1>2 DEF ToSet, IsInjective
  <1> QED
    BY <1>1, <1>3, <1>4 DEF t

\* A photo put before a list.
LEMMA FrontFacts ==
    ASSUME NEW K, NEW s \in Seq(K), NEW k \in K
    PROVE  /\ <<k>> \o s \in Seq(K) /\ <<k>> \o s # <<>>
           /\ ToSet(<<k>> \o s) = ToSet(s) \cup {k}
           /\ IsInjective(s) /\ k \notin ToSet(s) => IsInjective(<<k>> \o s)
  <1> DEFINE t == <<k>> \o s
  <1>1. <<k>> \in Seq(K) /\ Len(<<k>>) = 1 /\ <<k>>[1] = k
    OBVIOUS
  <1>2. /\ t \in Seq(K) /\ Len(t) = Len(s) + 1 /\ Len(s) \in Nat
        /\ \A i \in 1..Len(s) + 1 : t[i] = IF i <= 1 THEN <<k>>[i] ELSE s[i - 1]
    BY <1>1, ConcatProperties, LenProperties
  <1> HIDE DEF t
  <1>3. t[1] = k /\ \A i \in 1..Len(s) : t[i + 1] = s[i]
    BY <1>1, <1>2
  <1>4. \A i \in 1..Len(s) + 1 : i # 1 => i - 1 \in 1..Len(s) /\ t[i] = s[i - 1]
    BY <1>2
  <1>5. DOMAIN t = 1..Len(s) + 1 /\ DOMAIN s = 1..Len(s) /\ t # <<>>
    BY <1>2, LenProperties, EmptySeq
  <1>6. ToSet(t) = ToSet(s) \cup {k}
    <2>1. ToSet(t) = {t[i] : i \in 1..Len(s) + 1} /\ ToSet(s) = {s[i] : i \in 1..Len(s)}
      BY <1>5 DEF ToSet
    <2>2. 1 \in 1..Len(s) + 1 /\ \A i \in 1..Len(s) : i + 1 \in 1..Len(s) + 1
      BY <1>2
    <2>3. k \in ToSet(t) /\ ToSet(s) \subseteq ToSet(t)
      BY <1>3, <2>1, <2>2
    <2>4. ToSet(t) \subseteq ToSet(s) \cup {k}
      BY <1>3, <1>4, <2>1
    <2> QED
      BY <2>3, <2>4
  <1>7. ASSUME IsInjective(s), k \notin ToSet(s) PROVE IsInjective(t)
    <2> SUFFICES ASSUME NEW i \in 1..Len(s) + 1, NEW j \in 1..Len(s) + 1, t[i] = t[j]
                 PROVE  i = j
      BY <1>5 DEF IsInjective
    <2>1. \A m \in 1..Len(s) : s[m] # k
      BY <1>5, <1>7 DEF ToSet
    <2>2. i = 1 <=> j = 1
      BY <1>3, <1>4, <2>1
    <2>3. CASE i # 1
      <3>1. /\ i - 1 \in DOMAIN s /\ j - 1 \in DOMAIN s
            /\ s[i - 1] = s[j - 1]
        BY <1>4, <1>5, <2>2, <2>3
      <3> QED
        BY <1>7, <3>1 DEF IsInjective
    <2> QED
      BY <2>2, <2>3
  <1> QED
    BY <1>2, <1>5, <1>6, <1>7 DEF t

\* A photo taken off a list.
LEMMA RemoveFacts ==
    ASSUME NEW K, NEW s \in Seq(K), NEW k \in ToSet(s), IsInjective(s)
    PROVE  /\ RemoveFirst(s, k) \in Seq(K)
           /\ Len(RemoveFirst(s, k)) = Len(s) - 1
           /\ ToSet(RemoveFirst(s, k)) = ToSet(s) \ {k}
           /\ IsInjective(RemoveFirst(s, k))
  <1> DEFINE n == Len(s)
             Places == {i \in 1..n : s[i] = k}
  <1>1. n \in Nat /\ DOMAIN s = 1..n /\ \A i \in 1..n : s[i] \in K
    BY LenProperties, ElementOfSeq
  <1>2. PICK p \in 1..n : s[p] = k /\ RemoveFirst(s, k) = RemoveAt(s, p)
    <2>1. PICK p \in 1..n : s[p] = k
      BY <1>1 DEF ToSet
    <2>2. Places = {p}
      BY <1>1, <2>1 DEF IsInjective
    <2>3. Min(Places) = p
      BY <1>1, <2>2 DEF Min
    <2>4. RemoveFirst(s, k) = RemoveAt(s, Min(Places))
      BY <2>2 DEF RemoveFirst, SelectInSeq
    <2> QED
      BY <2>1, <2>3, <2>4
  <1>0. n \in Nat /\ p \in Nat /\ 1 <= p /\ p <= n
    BY <1>1
  <1> DEFINE a == SubSeq(s, 1, p - 1)
             b == SubSeq(s, p + 1, n)
             t == a \o b
  <1>3. RemoveFirst(s, k) = t
    BY <1>2 DEF RemoveAt
  <1>4. /\ a \in Seq(K) /\ Len(a) = p - 1
        /\ \A i \in 1..p - 1 : a[i] = s[i]
    <2>1. 1 \in Int /\ p - 1 \in Int /\ \A i \in 1..p - 1 : s[i] \in K
      BY <1>1, <1>2
    <2>2. /\ a \in Seq(K) /\ Len(a) = IF 1 <= p - 1 THEN (p - 1) - 1 + 1 ELSE 0
          /\ \A i \in 1..(p - 1) - 1 + 1 : a[i] = s[1 + i - 1]
      BY <2>1, SubSeqProperties
    <2> QED
      BY <1>2, <2>2
  <1>5. /\ b \in Seq(K) /\ Len(b) = n - p
        /\ \A i \in 1..n - p : b[i] = s[p + i]
    <2>1. p + 1 \in Int /\ n \in Int /\ \A i \in p + 1..n : s[i] \in K
      BY <1>1, <1>2
    <2>2. /\ b \in Seq(K) /\ Len(b) = IF p + 1 <= n THEN n - (p + 1) + 1 ELSE 0
          /\ \A i \in 1..n - (p + 1) + 1 : b[i] = s[(p + 1) + i - 1]
      BY <2>1, SubSeqProperties
    <2> HIDE DEF b
    <2>3. ASSUME NEW i \in 1..n - p PROVE b[i] = s[p + i]
      <3>1. i \in 1..n - (p + 1) + 1 /\ (p + 1) + i - 1 = p + i
        BY <1>1, <1>2
      <3> QED
        BY <2>2, <3>1
    <2>4. Len(b) = n - p
      <3> HIDE DEF n
      <3>1. p + 1 <= n => n - (p + 1) + 1 = n - p
        BY <1>0
      <3>2. ~(p + 1 <= n) => n - p = 0
        BY <1>0
      <3> QED
        BY <2>2, <3>1, <3>2
    <2> QED
      BY <2>2, <2>3, <2>4
  <1> HIDE DEF a, b, n
  <1>6. /\ t \in Seq(K) /\ Len(t) = n - 1
        /\ \A i \in 1..n - 1 : t[i] = IF i < p THEN s[i] ELSE s[i + 1]
    <2>1. /\ t \in Seq(K) /\ Len(t) = Len(a) + Len(b)
          /\ \A i \in 1..Len(a) + Len(b) :
               t[i] = IF i <= Len(a) THEN a[i] ELSE b[i - Len(a)]
      BY <1>4, <1>5, ConcatProperties
    <2>2. Len(a) + Len(b) = n - 1
      BY <1>1, <1>2, <1>4, <1>5
    <2>3. ASSUME NEW i \in 1..n - 1, i < p PROVE t[i] = s[i]
      BY <1>1, <1>2, <1>4, <2>1, <2>2, <2>3
    <2>4. ASSUME NEW i \in 1..n - 1, ~(i < p) PROVE t[i] = s[i + 1]
      <3>1. i - (p - 1) \in 1..n - p /\ ~(i <= p - 1) /\ p + (i - (p - 1)) = i + 1
        BY <1>1, <1>2, <2>4
      <3>2. t[i] = b[i - (p - 1)]
        BY <1>4, <2>1, <2>2, <3>1
      <3> QED
        BY <1>5, <3>1, <3>2
    <2> HIDE DEF t
    <2> QED
      BY <2>1, <2>2, <2>3, <2>4
  <1>7. DOMAIN t = 1..n - 1
    BY <1>6, LenProperties
  <1> HIDE DEF t
  <1>8. ToSet(t) \subseteq ToSet(s)
    BY <1>1, <1>6, <1>7 DEF ToSet
  <1>9. ASSUME NEW x \in ToSet(s) \ {k} PROVE x \in ToSet(t)
    <2>1. PICK i \in 1..n : s[i] = x
      BY <1>1 DEF ToSet
    <2>2. CASE i < p
      BY <1>1, <1>2, <1>6, <1>7, <2>1, <2>2 DEF ToSet
    <2>3. CASE i > p
      <3>1. i - 1 \in 1..n - 1 /\ ~(i - 1 < p) /\ (i - 1) + 1 = i
        BY <1>1, <1>2, <2>3
      <3> QED
        BY <1>6, <1>7, <2>1, <3>1 DEF ToSet
    <2> QED
      BY <1>2, <1>9, <2>1, <2>2, <2>3
  <1>10. \A i \in 1..n - 1 : \E m \in 1..n :
           m # p /\ t[i] = s[m] /\ m = IF i < p THEN i ELSE i + 1
    BY <1>1, <1>2, <1>6
  <1>11. k \notin ToSet(t)
    BY <1>1, <1>2, <1>7, <1>10 DEF IsInjective, ToSet
  <1>12. IsInjective(t)
    <2> SUFFICES ASSUME NEW i \in 1..n - 1, NEW j \in 1..n - 1, t[i] = t[j]
                 PROVE  i = j
      BY <1>7 DEF IsInjective
    <2>1. PICK m \in 1..n : t[i] = s[m] /\ m = IF i < p THEN i ELSE i + 1
      BY <1>10
    <2>2. PICK o \in 1..n : t[j] = s[o] /\ o = IF j < p THEN j ELSE j + 1
      BY <1>10
    <2>3. m = o
      BY <1>1, <2>1, <2>2 DEF IsInjective
    <2> QED
      BY <1>2, <2>1, <2>2, <2>3
  <1> QED
    BY <1>3, <1>6, <1>8, <1>9, <1>11, <1>12 DEF n

-----------------------------------------------------------------------------
(* The invariant holds, and every step keeps it. *)

LEMMA IdleFacts ==
    /\ Idle \in Job /\ RightStep(Idle) /\ RightTarget(Idle) /\ RightList(Idle)
    /\ Idle.step = "idle" /\ Idle.op = "none" /\ Idle.key = {} /\ ToSet(Idle.base) = {}
    /\ New(Idle) = {}
  <1>1. <<>> \in Seq(Keys) /\ DOMAIN <<>> = {}
    OBVIOUS
  <1>2. ToSet(<<>>) = {} /\ IsInjective(<<>>)
    BY <1>1 DEF ToSet, IsInjective
  <1> QED
    BY <1>1, <1>2 DEF Idle, Job, AllOps, Steps, Nothing, Tables, RightStep, RightTarget,
                      RightList, New

\* What a form brings: a list of photos, none of them twice.
LEMMA BatchFacts ==
    ASSUME NEW K, NEW n \in Nat, NEW l \in Batch(K, n)
    PROVE  l \in Seq(K) /\ l # <<>> /\ IsInjective(l)
  <1>1. l \in SeqOf(K, n) /\ l # <<>> /\ IsInjective(l)
    BY DEF Batch
  <1>2. PICK m \in 0..n : l \in [1..m -> K]
    BY <1>1 DEF SeqOf
  <1> QED
    BY <1>1, <1>2

LEMMA Initially == Init => IInv
  <1> SUFFICES ASSUME Init PROVE IInv
    OBVIOUS
  <1>1. ASSUME NEW i \in Items
        PROVE  images[i] \in Seq(Keys) /\ images[i] # <<>> /\ IsInjective(images[i])
    <2>1. images[i] \in Batch(Keys, MaxImages)
      BY DEF Init
    <2> QED
      BY <2>1, BatchFacts, MaxImagesIsNat
  <1>2. \A i \in Items : Listed(i) \subseteq Keys /\ Listed(i) \subseteq stored
    BY <1>1, ToSetIs DEF Init, Listed
  <1>3. stored = UNION {Listed(i) : i \in Items} /\ used = stored /\ folder = stored
    BY DEF Init, Listed
  <1>4. stored \subseteq Keys
    BY <1>2, <1>3
  <1>5. TypeOK
    BY <1>1, <1>3, <1>4, IdleFacts DEF Init, TypeOK
  <1>6. \A h \in Handlers : job[h] = Idle
    BY DEF Init
  <1>7. RightJobs /\ NewIsOwn /\ CountsHold /\ DropsAreOld
    BY <1>6, IdleFacts DEF RightJobs, NewIsOwn, CountsHold, DropsAreOld
  <1>8. KeysAreUsed /\ FreshListsServable /\ ListsHaveNoRepeats /\ NoneShownEmpty
    BY <1>1, <1>2, <1>3, <1>6, IdleFacts
       DEF KeysAreUsed, FreshListsServable, ListsHaveNoRepeats, NoneShownEmpty
  <1> QED
    BY <1>5, <1>7, <1>8 DEF IInv

\* A request gets on, to j, and nothing else changes.
LEMMA OneJob ==
    ASSUME IInv, NEW h \in Handlers, NEW j \in Job,
           job' = [job EXCEPT ![h] = j],
           UNCHANGED <<images, active, files, stale>>,
           RightStep(j), RightTarget(j), RightList(j),
           j.key \cup ToSet(j.base) \subseteq used,
           New(j) \subseteq New(job[h]), New(j) \cap ToSet(j.base) = {},
           \A g \in Handlers \ {h} : New(job[g]) \cap (j.key \cup ToSet(j.base)) = {},
           j.op # "add" => New(j) \cap folder = {},
           j.step \in {"count", "delete"} =>
               \A i \in Items \ stale :
                   TableOf[i] \notin j.uncounted => j.key \cap Listed(i) = {},
           j.step = "drop" => \A i \in Items \cap j.item : j.key \cap Listed(i) = {}
    PROVE  IInv'
  <1>1. /\ job' \in [Handlers -> Job] /\ job'[h] = j
        /\ \A g \in Handlers \ {h} : job'[g] = job[g]
    BY DEF IInv, TypeOK
  <1>2. TypeOK'
    BY <1>1 DEF IInv, TypeOK, files
  <1>3. RightJobs'
    BY <1>1 DEF IInv, RightJobs
  <1>4. \A i \in Items : Listed(i)' = Listed(i)
    BY DEF Listed
  <1>5. KeysAreUsed'
    BY <1>1, <1>4 DEF IInv, KeysAreUsed, files
  <1>6. NewIsOwn'
    BY <1>1, <1>4 DEF IInv, NewIsOwn, files
  <1>7. CountsHold' /\ DropsAreOld'
    BY <1>1, <1>4 DEF IInv, CountsHold, DropsAreOld
  <1>8. ListsHaveNoRepeats' /\ NoneShownEmpty' /\ FreshListsServable'
    BY <1>4 DEF IInv, ListsHaveNoRepeats, NoneShownEmpty, FreshListsServable, files
  <1> QED
    BY <1>2, <1>3, <1>5, <1>6, <1>7, <1>8 DEF IInv

\* An answer that changed nothing.
LEMMA AnswerKeeps ==
    ASSUME IInv, NEW h \in Handlers, Answer(h),
           UNCHANGED <<images, active, files, stale>>
    PROVE  IInv'
  BY IdleFacts, OneJob DEF Answer

\* A request arrives at an item: what it has read is the item's list.
LEMMA BeginKeeps ==
    ASSUME IInv, NEW h \in Handlers, NEW o \in AllOps, NEW s \in {"upload", "save"},
           NEW i \in Items, NEW l \in Seq(Keys), NEW K \in SUBSET Keys,
           Begin(h, o, s, i, l, K),
           o \notin {"add", "append", "replace"} \/ K = {},
           PanelItem(i) <=> o # "replace",
           K \subseteq Listed(i),
           s = "upload" => o \in {"add", "append", "replace"} /\ K = {},
           s = "save" => /\ o \in {"remove", "cover"} /\ \E k \in Keys : K = {k}
                         /\ ToSet(l) = Listed(i) \ (IF o = "remove" THEN K ELSE {})
                         /\ IsInjective(l)
                         /\ l = <<>> => o = "remove",
           o = "add" /\ s = "upload" => l = images[i] /\ Len(l) < MaxImages
    PROVE  IInv'
  <1> DEFINE j == [op |-> o, step |-> s, item |-> {i}, base |-> images[i],
                   list |-> l, key |-> K, uncounted |-> {}]
  <1>1. /\ images[i] \in Seq(Keys) /\ IsInjective(images[i])
        /\ Listed(i) = ToSet(images[i]) /\ Listed(i) \subseteq used
    BY DEF IInv, TypeOK, ListsHaveNoRepeats, KeysAreUsed, Listed
  <1>2. j \in Job
    BY <1>1 DEF Job, Steps
  <1>3. /\ j.op = o /\ j.step = s /\ j.item = {i} /\ j.base = images[i]
        /\ j.list = l /\ j.key = K
    OBVIOUS
  <1>4. job' = [job EXCEPT ![h] = j] /\ UNCHANGED <<images, active, files, stale>>
    BY DEF Begin
  <1> HIDE DEF j
  <1>5. /\ New(j) = {}
        /\ o # "replace" => TakenOff(j, ToSet(j.base)) = IF o = "remove" THEN K ELSE {}
    BY <1>3 DEF New, TakenOff
  <1>6. RightStep(j) /\ RightTarget(j)
    BY <1>3 DEF RightStep, RightTarget
  <1>7. RightList(j)
    BY <1>1, <1>3, <1>5 DEF RightList
  <1>8. \A g \in Handlers : New(job[g]) \cap (j.key \cup ToSet(j.base)) = {}
    BY <1>1, <1>3 DEF IInv, NewIsOwn
  <1>9. j.key \cup ToSet(j.base) \subseteq used
    BY <1>1, <1>3
  <1> QED
    BY <1>2, <1>3, <1>4, <1>5, <1>6, <1>7, <1>8, <1>9, OneJob

LEMMA ArriveKeeps ==
    ASSUME IInv, NEW h \in Handlers, Arrive(h)
    PROVE  IInv'
  <1>1. \A i \in Items : images[i] \in Seq(Keys) /\ IsInjective(images[i])
    BY DEF IInv, TypeOK, ListsHaveNoRepeats
  <1>2. ASSUME NEW i \in Items, AddImage(h, i) PROVE IInv'
    BY <1>1, <1>2, BeginKeeps DEF AddImage, AllOps
  <1>3. ASSUME NEW i \in Items, UploadBusinessImage(h, i) PROVE IInv'
    <2> DEFINE l == <<>>
    <2>1. l \in Seq(Keys) /\ Begin(h, "append", "upload", i, l, {}) /\ PanelItem(i)
      BY <1>3 DEF UploadBusinessImage
    <2> HIDE DEF l
    <2> QED
      BY <2>1, BeginKeeps DEF AllOps
  <1>4. ASSUME NEW i \in Items, NEW k \in Keys, RemoveImage(h, i, k) PROVE IInv'
    <2> DEFINE l == RemoveFirst(images[i], k)
    <2>1. k \in Listed(i) /\ Begin(h, "remove", "save", i, l, {k}) /\ PanelItem(i)
      BY <1>4 DEF RemoveImage
    <2>2. l \in Seq(Keys) /\ ToSet(l) = Listed(i) \ {k} /\ IsInjective(l)
      BY <1>1, <2>1, RemoveFacts DEF Listed
    <2> HIDE DEF l
    <2> QED
      BY <2>1, <2>2, BeginKeeps DEF AllOps
  <1>5. ASSUME NEW i \in Items, NEW k \in Keys, SetCover(h, i, k) PROVE IInv'
    <2> DEFINE r == RemoveFirst(images[i], k)
               l == <<k>> \o r
    <2>1. k \in Listed(i) /\ Begin(h, "cover", "save", i, l, {k}) /\ PanelItem(i)
      BY <1>5 DEF SetCover
    <2>2. r \in Seq(Keys) /\ ToSet(r) = Listed(i) \ {k} /\ IsInjective(r)
      BY <1>1, <2>1, RemoveFacts DEF Listed
    <2>3. /\ l \in Seq(Keys) /\ l # <<>> /\ ToSet(l) = ToSet(r) \cup {k} /\ IsInjective(l)
      <3> HIDE DEF r
      <3> QED
        BY <2>2, FrontFacts
    <2>4. ToSet(l) = Listed(i)
      BY <2>1, <2>2, <2>3
    <2> HIDE DEF r, l
    <2> QED
      BY <2>1, <2>3, <2>4, BeginKeeps DEF AllOps
  <1>6. ASSUME NEW k \in Keys, ReleaseImages(h, k) PROVE IInv'
    <2> DEFINE j == [Idle EXCEPT !.op = "release", !.step = "count",
                                 !.key = {k}, !.uncounted = Tables]
    <2>1. /\ job' = [job EXCEPT ![h] = j] /\ k \in folder /\ Known(k)
          /\ UNCHANGED <<images, active, files, stale>>
      BY <1>6 DEF ReleaseImages
    <2>2. /\ j \in Job /\ j.op = "release" /\ j.step = "count" /\ j.key = {k}
          /\ j.uncounted = Tables /\ j.base = Idle.base
      BY IdleFacts DEF Idle, Job, AllOps, Steps
    <2>3. RightStep(j) /\ RightTarget(j) /\ RightList(j) /\ New(j) = {}
      <3> HIDE DEF j
      <3> QED
        BY <2>2, IdleFacts DEF RightStep, RightTarget, RightList, New
    <2>4. \A g \in Handlers : k \notin New(job[g])
      <3>1. ASSUME NEW g \in Handlers, job[g].op # "add" PROVE k \notin New(job[g])
        BY <2>1, <3>1 DEF IInv, NewIsOwn
      <3>2. ASSUME NEW g \in Handlers, job[g].op = "add" PROVE k \notin New(job[g])
        BY <2>1, <3>2 DEF Known, New
      <3> QED
        BY <3>1, <3>2
    <2>5. \A i \in Items : TableOf[i] \in Tables
      BY TablesAreKnown
    <2>6. k \in used
      BY <2>1 DEF IInv, KeysAreUsed
    <2> HIDE DEF j
    <2>7. /\ j.key \cup ToSet(j.base) \subseteq used
          /\ \A g \in Handlers : New(job[g]) \cap (j.key \cup ToSet(j.base)) = {}
          /\ \A i \in Items : TableOf[i] \in j.uncounted
      BY <2>2, <2>4, <2>5, <2>6, IdleFacts
    <2> QED
      BY <2>1, <2>2, <2>3, <2>7, OneJob
  <1>7. ASSUME UploadProductImage(h) PROVE IInv'
    <2> DEFINE j == [Idle EXCEPT !.op = "publish", !.step = "upload"]
    <2>1. /\ job' = [job EXCEPT ![h] = j]
          /\ UNCHANGED <<images, active, files, stale>>
      BY <1>7 DEF UploadProductImage
    <2>2. /\ j \in Job /\ j.op = "publish" /\ j.step = "upload" /\ j.key = {}
          /\ j.base = Idle.base
      BY IdleFacts DEF Idle, Job, AllOps, Steps
    <2> HIDE DEF j
    <2>3. RightStep(j) /\ RightTarget(j) /\ RightList(j) /\ New(j) = {}
      BY <2>2, IdleFacts DEF RightStep, RightTarget, RightList, New
    <2> QED
      BY <2>1, <2>2, <2>3, IdleFacts, OneJob
  <1>8. ASSUME NEW i \in Items, ReplaceImages(h, i) PROVE IInv'
    <2> DEFINE l == <<>>
    <2>1. l \in Seq(Keys) /\ Begin(h, "replace", "upload", i, l, {}) /\ ~PanelItem(i)
      BY <1>8 DEF ReplaceImages
    <2> HIDE DEF l
    <2> QED
      BY <2>1, BeginKeeps DEF AllOps
  <1> QED
    BY <1>2, <1>3, <1>4, <1>5, <1>6, <1>7, <1>8 DEF Arrive

\* What an upload brings was never handed out before: nothing knows it but the
\* request.
LEMMA FreshKeep ==
    ASSUME IInv, NEW h \in Handlers, NEW j \in Job, NEW B \in SUBSET (Keys \ used),
           job' = [job EXCEPT ![h] = j],
           used' = used \cup B, stored' = stored \cup B,
           folder \subseteq folder', folder' \subseteq folder \cup B,
           UNCHANGED <<images, active, stale, gone>>,
           RightStep(j), RightTarget(j), RightList(j),
           j.key \subseteq B, ToSet(j.base) \subseteq ToSet(job[h].base),
           j.op # "add" => j.key \cap folder' = {},
           j.step \notin {"count", "delete", "drop"}
    PROVE  IInv'
  <1>1. /\ job' \in [Handlers -> Job] /\ job'[h] = j
        /\ \A g \in Handlers \ {h} : job'[g] = job[g]
    BY DEF IInv, TypeOK
  <1>2. /\ \A i \in Items : Listed(i)' = Listed(i) /\ B \cap Listed(i) = {}
        /\ B \cap folder = {} /\ ToSet(job[h].base) \subseteq used
        /\ \A g \in Handlers : B \cap (job[g].key \cup ToSet(job[g].base)) = {}
    BY DEF Listed, IInv, KeysAreUsed
  <1>3. TypeOK'
    BY <1>1 DEF IInv, TypeOK
  <1>4. RightJobs'
    BY <1>1 DEF IInv, RightJobs
  <1>5. KeysAreUsed'
    <2>1. folder' \subseteq used' /\ stored' \subseteq used'
      BY DEF IInv, KeysAreUsed
    <2> QED
      BY <1>1, <1>2, <2>1 DEF IInv, KeysAreUsed
  <1>6. NewIsOwn'
    <2>1. New(j) \subseteq j.key /\ \A g \in Handlers : New(job[g]) \subseteq job[g].key
      BY DEF New
    <2>2. /\ New(j) \subseteq stored' /\ New(j) \cap ToSet(j.base) = {}
          /\ \A i \in Items : New(j) \cap Listed(i)' = {}
          /\ j.op # "add" => New(j) \cap folder' = {}
      BY <1>2, <2>1
    <2>3. ASSUME NEW g \in Handlers \ {h}
          PROVE  /\ New(j) \cap (job[g].key \cup ToSet(job[g].base)) = {}
                 /\ New(job[g]) \cap (j.key \cup ToSet(j.base)) = {}
                 /\ New(job[g]) \subseteq stored'
                 /\ \A i \in Items : New(job[g]) \cap Listed(i)' = {}
                 /\ job[g].op # "add" => New(job[g]) \cap folder' = {}
      <3>1. New(job[g]) \cap ToSet(job[h].base) = {}
        BY DEF IInv, NewIsOwn
      <3>2. job[g].op # "add" => New(job[g]) \cap folder = {}
        BY DEF IInv, NewIsOwn
      <3> QED
        BY <1>2, <2>1, <3>1, <3>2 DEF IInv, NewIsOwn
    <2>4. \A g \in Handlers \ {h} : \A f \in Handlers \ {g, h} :
            New(job[g]) \cap (job[f].key \cup ToSet(job[f].base)) = {}
      BY DEF IInv, NewIsOwn
    <2>5. \A g \in Handlers \ {h} : New(job[g]) \cap ToSet(job[g].base) = {}
      BY DEF IInv, NewIsOwn
    <2> QED
      BY <1>1, <2>2, <2>3, <2>4, <2>5 DEF NewIsOwn
  <1>7. CountsHold' /\ DropsAreOld'
    BY <1>1, <1>2 DEF IInv, CountsHold, DropsAreOld
  <1>8. ListsHaveNoRepeats' /\ NoneShownEmpty' /\ FreshListsServable'
    BY <1>2 DEF IInv, ListsHaveNoRepeats, NoneShownEmpty, FreshListsServable
  <1> QED
    BY <1>3, <1>4, <1>5, <1>6, <1>7, <1>8 DEF IInv

\* The key that comes back from the upload is fresh.
LEMMA UploadKeeps ==
    ASSUME IInv, NEW h \in Handlers, Upload(h)
    PROVE  IInv'
  <1> DEFINE old == job[h]
  <1>1. PICK k \in Keys \ used :
          /\ used' = used \cup {k} /\ stored' = stored \cup {k}
          /\ folder' = IF old.op = "append" THEN folder ELSE folder \cup {k}
          /\ \/ /\ old.op = "add"
                /\ job' = [job EXCEPT ![h].step = "save", ![h].key = {k},
                                      ![h].list = Append(@, k)]
             \/ /\ old.op = "append"
                /\ job' = [job EXCEPT ![h].step = "read", ![h].key = {k}]
             \/ /\ old.op = "publish"
                /\ Answer(h)
    BY DEF Upload
  <1>2. UNCHANGED <<images, active, stale, gone>> /\ old.step = "upload"
    BY DEF Upload, At
  <1>3. /\ old \in Job /\ RightStep(old) /\ RightTarget(old) /\ RightList(old)
        /\ old.list \in Seq(Keys) /\ k \in Keys
    BY DEF IInv, TypeOK, RightJobs, Job
  <1>4. k \notin folder /\ k \notin ToSet(old.base)
    BY <1>1 DEF IInv, KeysAreUsed
  <1>6. \E j \in Job :
          /\ job' = [job EXCEPT ![h] = j]
          /\ RightStep(j) /\ RightTarget(j) /\ RightList(j)
          /\ j.key \subseteq {k} /\ ToSet(j.base) \subseteq ToSet(old.base)
          /\ j.op # "add" => j.key \cap folder' = {}
          /\ j.step \notin {"count", "delete", "drop"}
    <2>1. CASE old.op = "add"
      <3> DEFINE j == [old EXCEPT !.step = "save", !.key = {k}, !.list = Append(@, k)]
      <3>1. /\ Append(old.list, k) \in Seq(Keys) /\ Append(old.list, k) # <<>>
            /\ ToSet(Append(old.list, k)) = ToSet(old.list) \cup {k}
            /\ IsInjective(old.list) /\ k \notin ToSet(old.list)
                  => IsInjective(Append(old.list, k))
        BY <1>3, AppendFacts
      <3>2. /\ j \in Job /\ j.op = "add" /\ j.step = "save" /\ j.key = {k}
            /\ j.item = old.item /\ j.base = old.base /\ j.list = Append(old.list, k)
        BY <1>3, <2>1, <3>1 DEF Job, Steps
      <3>3. job' = [job EXCEPT ![h] = j]
        BY <1>1, <2>1 DEF IInv, TypeOK
      <3> HIDE DEF j
      <3>4. RightStep(j) /\ RightTarget(j)
        BY <1>3, <2>1, <3>2 DEF RightStep, RightTarget
      <3>5. RightList(j)
        <4>1. old.list = old.base /\ IsInjective(old.base)
          BY <1>2, <1>3, <2>1 DEF RightList
        <4> QED
          BY <1>3, <1>4, <3>1, <3>2, <4>1 DEF RightList, New, TakenOff
      <3> QED
        BY <3>2, <3>3, <3>4, <3>5
    <2>2. CASE old.op = "append"
      <3> DEFINE j == [old EXCEPT !.step = "read", !.key = {k}]
      <3>1. /\ j \in Job /\ j.op = "append" /\ j.step = "read" /\ j.key = {k}
            /\ j.item = old.item /\ j.base = old.base
        BY <1>3, <2>2 DEF Job, Steps
      <3>2. job' = [job EXCEPT ![h] = j]
        BY <1>1, <2>2 DEF IInv, TypeOK
      <3> HIDE DEF j
      <3>3. RightStep(j) /\ RightTarget(j) /\ RightList(j)
        BY <1>3, <2>2, <3>1 DEF RightStep, RightTarget, RightList
      <3> QED
        BY <1>1, <1>4, <2>2, <3>1, <3>2, <3>3
    <2>3. CASE old.op = "publish"
      BY <1>1, <2>3, IdleFacts DEF Answer
    <2> QED
      BY <1>1, <2>1, <2>2, <2>3
  <1> QED
    BY <1>1, <1>2, <1>6, FreshKeep

\* So are those that come back from the uploads of a replacement.
LEMMA UploadBatchKeeps ==
    ASSUME IInv, NEW h \in Handlers, UploadBatch(h)
    PROVE  IInv'
  <1> DEFINE old == job[h]
  <1>1. PICK l \in Batch(Keys \ used, MaxFiles) :
          /\ used' = used \cup ToSet(l) /\ stored' = stored \cup ToSet(l)
          /\ job' = [job EXCEPT ![h].step = "save", ![h].key = ToSet(l), ![h].list = l]
    BY DEF UploadBatch
  <1>2. /\ UNCHANGED <<images, active, stale, gone, folder>>
        /\ old.step = "upload" /\ old.op = "replace"
    BY DEF UploadBatch, At
  <1>3. /\ old \in Job /\ RightStep(old) /\ RightTarget(old) /\ RightList(old)
    BY DEF IInv, TypeOK, RightJobs
  <1>4. /\ l \in Seq(Keys \ used) /\ l # <<>> /\ IsInjective(l)
    BY <1>1, BatchFacts, MaxFilesIsNat
  <1>5. /\ l \in Seq(Keys) /\ ToSet(l) \in SUBSET (Keys \ used)
        /\ ToSet(l) \cap folder = {}
    <2>1. \A m \in 1..Len(l) : l[m] \in Keys
      BY <1>4, ElementOfSeq
    <2> QED
      BY <1>4, <2>1, ToSetIs DEF IInv, KeysAreUsed
  <1> DEFINE j == [old EXCEPT !.step = "save", !.key = ToSet(l), !.list = l]
  <1>6. /\ j \in Job /\ j.op = "replace" /\ j.step = "save" /\ j.key = ToSet(l)
        /\ j.item = old.item /\ j.base = old.base /\ j.list = l
    BY <1>2, <1>3, <1>5 DEF Job, Steps
  <1>7. job' = [job EXCEPT ![h] = j]
    BY <1>1 DEF IInv, TypeOK
  <1> HIDE DEF j
  <1>8. RightStep(j) /\ RightTarget(j)
    BY <1>2, <1>3, <1>6 DEF RightStep, RightTarget
  <1>9. RightList(j)
    BY <1>3, <1>4, <1>6 DEF RightList, New, TakenOff
  <1> QED
    BY <1>1, <1>2, <1>5, <1>6, <1>7, <1>8, <1>9, FreshKeep

\* The list that is read does not name the new photo yet.
LEMMA ReadListKeeps ==
    ASSUME IInv, NEW h \in Handlers, ReadList(h)
    PROVE  IInv'
  <1> DEFINE old == job[h]
  <1>1. PICK i \in old.item, k \in old.key :
          job' = [job EXCEPT ![h].step = "save", ![h].base = images[i],
                             ![h].list = Append(images[i], k)]
    BY DEF ReadList
  <1>2. /\ old \in Job /\ RightStep(old) /\ RightTarget(old) /\ old.step = "read"
        /\ UNCHANGED <<images, active, files, stale>>
    BY DEF ReadList, At, IInv, TypeOK, RightJobs
  <1>3. /\ old.op = "append" /\ old.item = {i} /\ i \in Items /\ PanelItem(i)
        /\ old.key = {k} /\ k \in Keys /\ New(old) = {k}
    BY <1>1, <1>2 DEF RightStep, RightTarget, New
  <1>4. /\ images[i] \in Seq(Keys) /\ IsInjective(images[i])
        /\ Listed(i) \subseteq used /\ Listed(i) = ToSet(images[i])
    BY <1>3 DEF IInv, TypeOK, ListsHaveNoRepeats, KeysAreUsed, Listed
  <1>5. k \notin Listed(i) /\ k \in used /\ New(old) \cap folder = {}
    BY <1>3 DEF IInv, NewIsOwn, KeysAreUsed
  <1> DEFINE l == Append(images[i], k)
             j == [old EXCEPT !.step = "save", !.base = images[i], !.list = l]
  <1>6. /\ l \in Seq(Keys) /\ l # <<>> /\ ToSet(l) = Listed(i) \cup {k} /\ IsInjective(l)
    BY <1>3, <1>4, <1>5, AppendFacts
  <1>7. /\ j \in Job /\ j.op = "append" /\ j.step = "save" /\ j.key = {k} /\ j.item = {i}
        /\ j.base = images[i] /\ j.list = l
    <2> HIDE DEF l
    <2> QED
      BY <1>2, <1>3, <1>4, <1>6 DEF Job, Steps
  <1>8. job' = [job EXCEPT ![h] = j]
    BY <1>1 DEF IInv, TypeOK
  <1> HIDE DEF j, l
  <1>9. RightStep(j) /\ RightTarget(j) /\ New(j) = {k}
    BY <1>3, <1>7 DEF RightStep, RightTarget, New
  <1>10. RightList(j)
    BY <1>4, <1>6, <1>7, <1>9 DEF RightList, TakenOff
  <1>11. \A g \in Handlers \ {h} : New(job[g]) \cap (j.key \cup ToSet(j.base)) = {}
    <2>1. \A g \in Handlers \ {h} : New(job[g]) \cap old.key = {}
      BY DEF IInv, NewIsOwn
    <2>2. \A g \in Handlers : New(job[g]) \cap Listed(i) = {}
      BY <1>3 DEF IInv, NewIsOwn
    <2> QED
      BY <1>3, <1>4, <1>7, <2>1, <2>2
  <1>12. /\ j.key \cup ToSet(j.base) \subseteq used /\ New(j) \cap folder = {}
         /\ New(j) \subseteq New(old) /\ New(j) \cap ToSet(j.base) = {}
    BY <1>3, <1>4, <1>5, <1>7, <1>9
  <1> QED
    BY <1>2, <1>7, <1>8, <1>9, <1>10, <1>11, <1>12, OneJob

\* A table that lists the key keeps the file; one that does not is counted.
LEMMA CountTableKeeps ==
    ASSUME IInv, NEW h \in Handlers, NEW t \in Tables, CountTable(h, t)
    PROVE  IInv'
  <1> DEFINE old == job[h]
             j == [old EXCEPT !.uncounted = @ \ {t},
                              !.step = IF old.uncounted = {t} THEN "delete" ELSE @]
  <1>1. /\ UNCHANGED <<images, active, files, stale>>
        /\ old.step = "count" /\ t \in old.uncounted
    BY DEF CountTable, At
  <1>2. /\ old \in Job /\ RightStep(old) /\ RightTarget(old) /\ RightList(old)
    BY DEF IInv, TypeOK, RightJobs
  <1>3. CASE \E i \in Items, k \in old.key : TableOf[i] = t /\ k \in Listed(i)
    BY <1>1, <1>3, AnswerKeeps DEF CountTable
  <1>4. CASE ~\E i \in Items, k \in old.key : TableOf[i] = t /\ k \in Listed(i)
    <2>1. job' = [job EXCEPT ![h] = j]
      BY <1>4 DEF CountTable, IInv, TypeOK
    <2>2. /\ j \in Job /\ j.op = old.op /\ j.item = old.item /\ j.key = old.key
          /\ j.base = old.base /\ j.uncounted = old.uncounted \ {t}
          /\ j.step \in {"count", "delete"}
          /\ j.step = "delete" => old.uncounted = {t}
      BY <1>1, <1>2 DEF Job, Steps
    <2> HIDE DEF j
    <2>3. RightStep(j) /\ RightTarget(j) /\ New(j) = New(old)
      BY <1>1, <1>2, <2>2 DEF RightStep, RightTarget, New
    <2>4. RightList(j)
      BY <1>2, <2>2 DEF RightList
    <2>5. \A i \in Items \ stale :
            TableOf[i] \notin j.uncounted => j.key \cap Listed(i) = {}
      BY <1>1, <1>4, <2>2 DEF IInv, CountsHold
    <2>6. /\ j.key \cup ToSet(j.base) \subseteq used
          /\ New(j) \cap ToSet(j.base) = {}
          /\ j.op # "add" => New(j) \cap folder = {}
          /\ \A g \in Handlers \ {h} : New(job[g]) \cap (j.key \cup ToSet(j.base)) = {}
      BY <2>2, <2>3 DEF IInv, KeysAreUsed, NewIsOwn
    <2> QED
      BY <1>1, <2>1, <2>2, <2>3, <2>4, <2>5, <2>6, OneJob
  <1> QED
    BY <1>3, <1>4

\* The file that goes is listed by nothing fresh, and is nobody's new photo.
LEMMA DeleteFileKeeps ==
    ASSUME IInv, NEW h \in Handlers, DeleteFile(h)
    PROVE  IInv'
  <1>1. /\ job[h].step = "delete" /\ stored' = stored \ job[h].key
        /\ job' = [job EXCEPT ![h] = Idle]
        /\ UNCHANGED <<images, active, used, folder, stale, gone>>
    BY DEF DeleteFile, At, Answer
  <1>2. /\ job' \in [Handlers -> Job] /\ job'[h] = Idle
        /\ \A g \in Handlers \ {h} : job'[g] = job[g]
    BY <1>1, IdleFacts DEF IInv, TypeOK
  <1>3. \A i \in Items : Listed(i)' = Listed(i)
    BY <1>1 DEF Listed
  <1>4. \A i \in Items \ stale : job[h].key \cap Listed(i) = {}
    BY <1>1 DEF IInv, CountsHold, RightJobs, RightStep
  <1>5. TypeOK'
    BY <1>1, <1>2 DEF IInv, TypeOK
  <1>6. RightJobs'
    BY <1>2, IdleFacts DEF IInv, RightJobs
  <1>7. KeysAreUsed'
    BY <1>1, <1>2, <1>3, IdleFacts DEF IInv, KeysAreUsed
  <1>8. NewIsOwn'
    <2>1. \A g \in Handlers \ {h} : New(job[g]) \cap job[h].key = {}
      BY DEF IInv, NewIsOwn
    <2> QED
      BY <1>1, <1>2, <1>3, <2>1, IdleFacts DEF IInv, NewIsOwn
  <1>9. CountsHold' /\ DropsAreOld'
    BY <1>1, <1>2, <1>3, IdleFacts DEF IInv, CountsHold, DropsAreOld
  <1>10. ListsHaveNoRepeats' /\ NoneShownEmpty'
    BY <1>1 DEF IInv, ListsHaveNoRepeats, NoneShownEmpty
  <1>11. FreshListsServable'
    BY <1>1, <1>3, <1>4 DEF IInv, FreshListsServable
  <1> QED
    BY <1>5, <1>6, <1>7, <1>8, <1>9, <1>10, <1>11 DEF IInv

\* A delete of a replacement: its product lists the file no more, and those that
\* do lose it to another's replacement.
LEMMA DropFileKeeps ==
    ASSUME IInv, NEW h \in Handlers, DropFile(h)
    PROVE  IInv'
  <1> DEFINE old == job[h]
  <1>1. PICK i \in old.item, k \in old.key :
          /\ \/ /\ stored' = stored \ {k}
                /\ gone' = [gone EXCEPT ![i] = @ \cup {k}]
             \/ UNCHANGED <<stored, gone>>
          /\ job' = [job EXCEPT ![h].key = @ \ {k}]
    BY DEF DropFile
  <1>2. /\ old \in Job /\ old.step = "drop" /\ old.op = "replace"
        /\ RightStep(old) /\ RightTarget(old) /\ RightList(old)
        /\ UNCHANGED <<images, active, used, folder, stale>>
    BY DEF DropFile, At, IInv, TypeOK, RightJobs, RightStep
  <1>3. old.item = {i} /\ i \in Items /\ k \in Keys /\ k \notin Listed(i)
    <2>1. old.item = {i} /\ i \in Items
      BY <1>1, <1>2 DEF RightTarget
    <2> QED
      BY <1>1, <1>2, <2>1 DEF IInv, DropsAreOld, Job
  <1> DEFINE j == [old EXCEPT !.key = @ \ {k}]
  <1>4. /\ j \in Job /\ j.op = "replace" /\ j.step = "drop" /\ j.key = old.key \ {k}
        /\ j.item = old.item /\ j.base = old.base
    BY <1>2 DEF Job
  <1>5. job' = [job EXCEPT ![h] = j]
    BY <1>1 DEF IInv, TypeOK
  <1> HIDE DEF j
  <1>6. RightStep(j) /\ RightTarget(j) /\ RightList(j) /\ New(j) = {}
    BY <1>2, <1>4 DEF RightStep, RightTarget, RightList, New
  <1>7. /\ job' \in [Handlers -> Job] /\ job'[h] = j
        /\ \A g \in Handlers \ {h} : job'[g] = job[g]
    BY <1>4, <1>5 DEF IInv, TypeOK
  <1>8. /\ \A o \in Items : Listed(o)' = Listed(o)
        /\ stored' \subseteq stored /\ stored \subseteq stored' \cup {k}
        /\ \A g \in Handlers \ {h} : k \notin New(job[g])
    BY <1>1, <1>2 DEF Listed, IInv, NewIsOwn
  <1>9. TypeOK'
    <2>1. gone' \in [Items -> SUBSET Keys]
      <3>1. gone \in [Items -> SUBSET Keys] /\ gone[i] \cup {k} \in SUBSET Keys
        BY <1>3 DEF IInv, TypeOK
      <3> QED
        BY <1>1, <3>1
    <2> QED
      BY <1>2, <1>7, <1>8, <2>1 DEF IInv, TypeOK
  <1>10. RightJobs'
    BY <1>6, <1>7 DEF IInv, RightJobs
  <1>11. KeysAreUsed'
    BY <1>2, <1>4, <1>7, <1>8 DEF IInv, KeysAreUsed
  <1>12. NewIsOwn'
    BY <1>2, <1>4, <1>6, <1>7, <1>8 DEF IInv, NewIsOwn
  <1>13. CountsHold' /\ DropsAreOld'
    BY <1>2, <1>4, <1>7, <1>8 DEF IInv, CountsHold, DropsAreOld
  <1>14. ListsHaveNoRepeats' /\ NoneShownEmpty'
    BY <1>2 DEF IInv, ListsHaveNoRepeats, NoneShownEmpty
  <1>15. FreshListsServable'
    <2> SUFFICES ASSUME NEW o \in Items \ stale, NEW x \in Listed(o), x \notin stored'
                 PROVE  \E p \in Items \ {o} : x \in gone'[p]
      BY <1>2, <1>8 DEF FreshListsServable
    <2>1. \A p \in Items : gone[p] \subseteq gone'[p]
      BY <1>1, <1>3 DEF IInv, TypeOK
    <2>2. CASE x \in stored
      <3>1. x = k /\ o # i
        BY <1>3, <1>8, <2>2
      <3>2. k \in gone'[i]
        BY <1>1, <1>3, <2>2, <3>1 DEF IInv, TypeOK
      <3> QED
        BY <1>3, <3>1, <3>2
    <2>3. CASE x \notin stored
      <3>1. PICK p \in Items \ {o} : x \in gone[p]
        BY <2>3 DEF IInv, FreshListsServable
      <3> QED
        BY <2>1, <3>1
    <2> QED
      BY <2>2, <2>3
  <1> QED
    BY <1>9, <1>10, <1>11, <1>12, <1>13, <1>14, <1>15 DEF IInv

\* What a save writes, and where.
LEMMA SaveIs ==
    ASSUME IInv, NEW h \in Handlers, Save(h) \/ SaveBatch(h)
    PROVE  \E i \in Items :
             /\ job[h] \in Job /\ job[h].step = "save" /\ job[h].item = {i}
             /\ PanelItem(i) <=> job[h].op # "replace"
             /\ RightStep(job[h]) /\ RightTarget(job[h]) /\ RightList(job[h])
             /\ images' = [images EXCEPT ![i] = job[h].list]
             /\ Save(h) => active' = [active EXCEPT ![i] = @ /\ ~Hides(h)]
             /\ Save(h) => stale' = IF images[i] = job[h].base THEN stale
                                    ELSE stale \cup {i}
             /\ SaveBatch(h) => UNCHANGED <<active, stale>>
             /\ images'[i] = job[h].list
             /\ \A o \in Items \ {i} : images'[o] = images[o] /\ active'[o] = active[o]
  <1>1. /\ job[h] \in Job /\ job[h].step = "save"
        /\ RightStep(job[h]) /\ RightTarget(job[h]) /\ RightList(job[h])
    BY DEF IInv, TypeOK, RightJobs, Save, SaveBatch, At
  <1>2. PICK i \in Items : job[h].item = {i} /\ (PanelItem(i) <=> job[h].op # "replace")
    BY <1>1 DEF RightTarget
  <1>3. /\ images' = [images EXCEPT ![i] = job[h].list]
        /\ Save(h) => active' = [active EXCEPT ![i] = @ /\ ~Hides(h)]
        /\ Save(h) => stale' = IF images[i] = job[h].base THEN stale ELSE stale \cup {i}
        /\ SaveBatch(h) => UNCHANGED <<active, stale>>
    BY <1>2 DEF Save, SaveBatch
  <1>4. /\ images'[i] = job[h].list
        /\ \A o \in Items \ {i} : images'[o] = images[o] /\ active'[o] = active[o]
    BY <1>3 DEF IInv, TypeOK
  <1> QED
    BY <1>1, <1>2, <1>3, <1>4

\* Where the request goes from its save.
LEMMA SaveGoesOn ==
    ASSUME IInv, NEW h \in Handlers, Save(h) \/ SaveBatch(h)
    PROVE  \E j \in Job :
             /\ job' = [job EXCEPT ![h] = j]
             /\ RightStep(j) /\ RightTarget(j) /\ RightList(j) /\ New(j) = {}
             /\ j.key \subseteq job[h].key \cup ToSet(job[h].base)
             /\ ToSet(j.base) \subseteq ToSet(job[h].base)
             /\ j.step \in {"count", "delete"} => j.uncounted = Tables
             /\ j.step = "drop" => /\ j.item = job[h].item
                                   /\ j.key \cap ToSet(job[h].list) = {}
  <1> DEFINE old == job[h]
  <1>1. PICK i \in Items :
          /\ old \in Job /\ old.step = "save" /\ old.item = {i}
          /\ RightStep(old) /\ RightTarget(old) /\ RightList(old)
    BY SaveIs
  <1>2. CASE Save(h) /\ old.op = "remove" /\ old.key \subseteq folder
    <2> DEFINE j == [Idle EXCEPT !.op = "remove", !.step = "count",
                                 !.key = old.key, !.uncounted = Tables]
    <2>1. job' = [job EXCEPT ![h] = j]
      BY <1>2 DEF Save
    <2>2. /\ j \in Job /\ j.op = "remove" /\ j.step = "count" /\ j.key = old.key
          /\ j.uncounted = Tables /\ j.base = Idle.base
      BY <1>1, IdleFacts DEF Idle, Job, AllOps, Steps
    <2> HIDE DEF j
    <2>3. RightStep(j) /\ RightTarget(j) /\ RightList(j) /\ New(j) = {}
      BY <2>2, IdleFacts DEF RightStep, RightTarget, RightList, New
    <2> QED
      BY <2>1, <2>2, <2>3, IdleFacts
  <1>3. CASE Save(h) /\ ~(old.op = "remove" /\ old.key \subseteq folder)
    <2>1. job' = [job EXCEPT ![h] = Idle]
      BY <1>3 DEF Save, Answer
    <2> QED
      BY <2>1, IdleFacts
  <1>4. CASE SaveBatch(h)
    <2> DEFINE j == [old EXCEPT !.step = "drop", !.key = ToSet(old.base) \ old.key]
    <2>1. job' = [job EXCEPT ![h] = j] /\ old.op = "replace"
      BY <1>4 DEF SaveBatch, IInv, TypeOK
    <2>2. ToSet(old.base) \subseteq Keys
      BY <1>1, ToSetIs DEF Job
    <2>3. /\ j \in Job /\ j.op = "replace" /\ j.step = "drop"
          /\ j.key = ToSet(old.base) \ old.key /\ j.item = old.item /\ j.base = old.base
      BY <1>1, <2>1, <2>2 DEF Job, Steps
    <2> HIDE DEF j
    <2>4. RightStep(j) /\ RightTarget(j) /\ RightList(j) /\ New(j) = {}
      BY <1>1, <2>1, <2>3 DEF RightStep, RightTarget, RightList, New
    <2>5. ToSet(old.list) = old.key
      BY <1>1, <2>1 DEF RightList, New, TakenOff
    <2> QED
      BY <2>1, <2>3, <2>4, <2>5
  <1> QED
    BY <1>2, <1>3, <1>4

LEMMA SaveKeeps ==
    ASSUME IInv, NEW h \in Handlers, Save(h) \/ SaveBatch(h)
    PROVE  IInv'
  <1> DEFINE old == job[h]
             l == old.list
  <1>1. PICK i \in Items :
          /\ old \in Job /\ old.step = "save" /\ old.item = {i}
          /\ PanelItem(i) <=> old.op # "replace"
          /\ RightStep(old) /\ RightTarget(old) /\ RightList(old)
          /\ images' = [images EXCEPT ![i] = l]
          /\ Save(h) => active' = [active EXCEPT ![i] = @ /\ ~Hides(h)]
          /\ Save(h) => stale' = IF images[i] = old.base THEN stale ELSE stale \cup {i}
          /\ SaveBatch(h) => UNCHANGED <<active, stale>>
          /\ images'[i] = l
          /\ \A o \in Items \ {i} : images'[o] = images[o] /\ active'[o] = active[o]
    BY SaveIs
  <1>2. /\ UNCHANGED <<stored, used, folder, gone>>
        /\ Save(h) => old.op # "replace"
        /\ SaveBatch(h) => old.op = "replace"
    BY DEF Save, SaveBatch, files
  <1>3. PICK j \in Job :
          /\ job' = [job EXCEPT ![h] = j]
          /\ RightStep(j) /\ RightTarget(j) /\ RightList(j) /\ New(j) = {}
          /\ j.key \subseteq old.key \cup ToSet(old.base)
          /\ ToSet(j.base) \subseteq ToSet(old.base)
          /\ j.step \in {"count", "delete"} => j.uncounted = Tables
          /\ j.step = "drop" => j.item = old.item /\ j.key \cap ToSet(l) = {}
    BY SaveGoesOn
  <1>4. /\ l \in Seq(Keys) /\ IsInjective(l)
        /\ ToSet(l) = (ToSet(old.base) \ TakenOff(old, ToSet(old.base))) \cup New(old)
        /\ old.op = "replace" => ToSet(l) = New(old)
        /\ New(old) \subseteq old.key
        /\ l = <<>> => old.op = "remove"
    BY <1>1 DEF Job, RightList, New, TakenOff
  <1>5. /\ Listed(i)' = ToSet(l)
        /\ \A o \in Items \ {i} : Listed(o)' = Listed(o)
        /\ stale \subseteq stale' /\ stale' \subseteq Items
    BY <1>1 DEF Listed, IInv, TypeOK
  <1>6. i \notin stale' => ToSet(l) \subseteq Listed(i) \cup New(old)
    <2>1. CASE Save(h)
      BY <1>1, <1>4, <2>1 DEF Listed
    <2>2. CASE SaveBatch(h)
      BY <1>2, <1>4, <2>2
    <2> QED
      BY <2>1, <2>2
  <1>7. /\ job' \in [Handlers -> Job] /\ job'[h] = j
        /\ \A g \in Handlers \ {h} : job'[g] = job[g]
    BY <1>3 DEF IInv, TypeOK
  <1>8. ToSet(old.base) \cup old.key \subseteq used /\ New(old) \subseteq stored
    BY DEF IInv, KeysAreUsed, NewIsOwn
  <1>9. ASSUME NEW g \in Handlers \ {h}
        PROVE  /\ New(job[g]) \cap (old.key \cup ToSet(old.base)) = {}
               /\ New(old) \cap (job[g].key \cup ToSet(job[g].base)) = {}
    BY DEF IInv, NewIsOwn
  <1>10. TypeOK'
    <2>1. images' \in [Items -> Seq(Keys)]
      BY <1>1, <1>4 DEF IInv, TypeOK
    <2>2. active' \in [Items -> BOOLEAN]
      <3>1. (active[i] /\ ~Hides(h)) \in BOOLEAN
        OBVIOUS
      <3> QED
        BY <1>1, <3>1 DEF IInv, TypeOK
    <2> QED
      BY <1>2, <1>5, <1>7, <2>1, <2>2 DEF IInv, TypeOK
  <1>11. NoneShownEmpty'
    <2>1. ASSUME TableOf[i] = "storeProduct", active'[i] PROVE l # <<>>
      <3>1. Save(h)
        BY <1>1, <1>2, <2>1 DEF PanelItem
      <3>2. ~Hides(h)
        BY <1>1, <2>1, <3>1 DEF IInv, TypeOK
      <3> QED
        BY <1>1, <1>4, <2>1, <3>2 DEF Hides
    <2> QED
      BY <1>1, <2>1 DEF IInv, NoneShownEmpty
  <1> HIDE DEF old, l
  <1>12. RightJobs'
    BY <1>3, <1>7 DEF IInv, RightJobs
  <1>13. KeysAreUsed'
    <2>1. \A o \in Items : Listed(o)' \subseteq used'
      BY <1>2, <1>4, <1>5, <1>8 DEF IInv, KeysAreUsed
    <2> QED
      BY <1>2, <1>3, <1>7, <1>8, <2>1 DEF IInv, KeysAreUsed
  <1>14. NewIsOwn'
    <2>1. ASSUME NEW g \in Handlers \ {h}, NEW o \in Items
          PROVE  New(job[g]) \cap Listed(o)' = {}
      BY <1>4, <1>5, <1>9 DEF IInv, NewIsOwn
    <2>2. \A g \in Handlers \ {h} : New(job[g]) \cap (j.key \cup ToSet(j.base)) = {}
      BY <1>3, <1>9
    <2> QED
      BY <1>2, <1>3, <1>7, <2>1, <2>2 DEF IInv, NewIsOwn
  <1>15. CountsHold'
    <2>1. ASSUME NEW g \in Handlers \ {h}, job[g].step \in {"count", "delete"},
                 NEW o \in Items \ stale', TableOf[o] \notin job[g].uncounted
          PROVE  job[g].key \cap Listed(o)' = {}
      <3>1. job[g].key \cap Listed(o) = {}
        BY <1>5, <2>1 DEF IInv, CountsHold
      <3>2. CASE o = i
        BY <1>5, <1>6, <1>9, <2>1, <3>1, <3>2
      <3> QED
        BY <1>5, <3>1, <3>2
    <2>2. j.step \in {"count", "delete"} => \A o \in Items : TableOf[o] \in j.uncounted
      BY <1>3, TablesAreKnown
    <2> QED
      BY <1>7, <2>1, <2>2 DEF CountsHold
  <1>16. DropsAreOld'
    <2>1. ASSUME NEW g \in Handlers \ {h}, job[g].step = "drop", NEW o \in Items \cap job[g].item
          PROVE  job[g].key \cap Listed(o)' = {}
      <3>1. o \in Items /\ ~PanelItem(o) /\ job[g].key \cap Listed(o) = {}
        <4>1. RightStep(job[g]) /\ RightTarget(job[g])
          BY DEF IInv, RightJobs
        <4>2. job[g].op = "replace"
          BY <2>1, <4>1 DEF RightStep
        <4>3. o \in Items /\ ~PanelItem(o)
          BY <2>1, <4>1, <4>2 DEF RightTarget
        <4> QED
          BY <2>1, <4>3 DEF IInv, DropsAreOld
      <3>2. CASE o = i
        BY <1>1, <1>4, <1>5, <1>9, <3>1, <3>2
      <3> QED
        BY <1>5, <3>1, <3>2
    <2>2. j.step = "drop" => \A o \in Items \cap j.item : j.key \cap Listed(o)' = {}
      BY <1>1, <1>3, <1>5
    <2> QED
      BY <1>7, <2>1, <2>2 DEF DropsAreOld
  <1>17. ListsHaveNoRepeats'
    BY <1>1, <1>4 DEF IInv, ListsHaveNoRepeats
  <1>18. FreshListsServable'
    BY <1>2, <1>5, <1>6, <1>8 DEF IInv, FreshListsServable
  <1> QED
    BY <1>10, <1>11, <1>12, <1>13, <1>14, <1>15, <1>16, <1>17, <1>18 DEF IInv

\* A list the web made shorter.
LEMMA WebDropKeeps ==
    ASSUME IInv, NEW i \in Items, NEW k \in Keys, WebDrop(i, k)
    PROVE  IInv'
  <1> DEFINE l == RemoveFirst(images[i], k)
  <1>1. /\ images[i] \in Seq(Keys) /\ IsInjective(images[i]) /\ k \in ToSet(images[i])
        /\ Len(images[i]) > 1
        /\ images' = [images EXCEPT ![i] = l]
        /\ UNCHANGED <<active, stored, used, folder, gone, job, stale>>
    BY DEF WebDrop, files, Listed, IInv, TypeOK, ListsHaveNoRepeats
  <1>2. /\ l \in Seq(Keys) /\ IsInjective(l) /\ Len(l) = Len(images[i]) - 1
        /\ ToSet(l) \subseteq ToSet(images[i])
    BY <1>1, RemoveFacts
  <1>3. l # <<>>
    BY <1>1, <1>2, LenProperties, EmptySeq
  <1> HIDE DEF l
  <1>4. /\ images' \in [Items -> Seq(Keys)] /\ images'[i] = l
        /\ \A o \in Items \ {i} : images'[o] = images[o]
    BY <1>1, <1>2 DEF IInv, TypeOK
  <1>5. \A o \in Items : Listed(o)' \subseteq Listed(o)
    BY <1>2, <1>4 DEF Listed
  <1>6. TypeOK' /\ RightJobs'
    BY <1>1, <1>4 DEF IInv, TypeOK, RightJobs
  <1>7. KeysAreUsed' /\ FreshListsServable'
    BY <1>1, <1>5 DEF IInv, KeysAreUsed, FreshListsServable
  <1>8. NewIsOwn' /\ CountsHold' /\ DropsAreOld'
    BY <1>1, <1>5 DEF IInv, NewIsOwn, CountsHold, DropsAreOld
  <1>9. ListsHaveNoRepeats' /\ NoneShownEmpty'
    BY <1>1, <1>2, <1>3, <1>4 DEF IInv, ListsHaveNoRepeats, NoneShownEmpty
  <1> QED
    BY <1>6, <1>7, <1>8, <1>9 DEF IInv

LEMMA NextKeeps == IInv /\ [Next]_vars => IInv'
  <1> SUFFICES ASSUME IInv, [Next]_vars PROVE IInv'
    OBVIOUS
  <1>1. ASSUME NEW h \in Handlers, Arrive(h) PROVE IInv'
    BY <1>1, ArriveKeeps
  <1>2. ASSUME NEW h \in Handlers, Step(h) PROVE IInv'
    <2>1. CASE UploadFails(h) \/ AwaitFails(h) \/ Dropped(h)
      BY <2>1, AnswerKeeps DEF UploadFails, AwaitFails, Dropped
    <2>2. CASE \E t \in Tables : CountTable(h, t)
      BY <2>2, CountTableKeeps
    <2> QED
      BY <1>2, <2>1, <2>2, UploadKeeps, UploadBatchKeeps, ReadListKeeps, SaveKeeps,
         DropFileKeeps, DeleteFileKeeps DEF Step
  <1>3. ASSUME NEW i \in Items, NEW k \in Keys, WebDrop(i, k) PROVE IInv'
    BY <1>3, WebDropKeeps
  <1>4. CASE UNCHANGED vars
    BY <1>4 DEF vars, files, IInv, TypeOK, RightJobs, KeysAreUsed, NewIsOwn, CountsHold,
               DropsAreOld, ListsHaveNoRepeats, NoneShownEmpty, FreshListsServable, Listed
  <1> QED
    BY <1>1, <1>2, <1>3, <1>4 DEF Next

LEMMA Invariance == Spec => []IInv
  BY Initially, NextKeeps, PTL DEF Spec

\* A step that ends a request's save and changes a list is that save.
LEMMA SavesIsSave ==
    ASSUME IInv, [Next]_vars, NEW h \in Handlers, Saves(h)
    PROVE  Save(h) \/ SaveBatch(h)
  <1>1. images' # images /\ job'[h] # job[h]
    BY DEF Saves, At
  <1>2. ASSUME NEW g \in Handlers, Arrive(g) PROVE FALSE
    BY <1>1, <1>2 DEF Arrive, AddImage, UploadBusinessImage, UploadProductImage,
                      RemoveImage, SetCover, ReplaceImages, ReleaseImages, Begin
  <1>3. ASSUME NEW g \in Handlers, Step(g) PROVE Save(g) \/ SaveBatch(g)
    BY <1>1, <1>3 DEF Step, Upload, UploadBatch, UploadFails, ReadList, CountTable,
                      DropFile, Dropped, DeleteFile, AwaitFails
  <1>4. ASSUME NEW g \in Handlers \ {h}, Save(g) \/ SaveBatch(g) PROVE job'[h] = job[h]
    BY <1>4 DEF Save, SaveBatch, Answer, IInv, TypeOK
  <1>5. \A i \in Items, k \in Keys : ~WebDrop(i, k)
    BY <1>1 DEF WebDrop
  <1>6. ~UNCHANGED vars
    BY <1>1 DEF vars
  <1> QED
    BY <1>1, <1>2, <1>3, <1>4, <1>5, <1>6 DEF Next

-----------------------------------------------------------------------------
(* The limit of a listing: what the rows list, and what is about to be         *)
(* written, names no more than MaxImages photos of the seller's folder.        *)

Within(S, F) == Cardinality(S \cap F) <= MaxImages

ListsAreWithin ==
    \A h \in Handlers : job[h].step = "save" => Within(ToSet(job[h].list), folder)

LimitInv == OnlyTheShopExceeds /\ ListsAreWithin

LEMMA FewPhotos ==
    ASSUME NEW K, NEW s \in Seq(K), NEW F
    PROVE  /\ IsFiniteSet(ToSet(s)) /\ IsFiniteSet(ToSet(s) \cap F)
           /\ Cardinality(ToSet(s) \cap F) <= Len(s)
  <1> DEFINE n == Len(s)
  <1>1. n \in Nat /\ IsFiniteSet(1..n) /\ Cardinality(1..n) = n
    <2>1. n \in Nat
      BY LenProperties
    <2> HIDE DEF n
    <2>2. IsFiniteSet(1..n) /\ Cardinality(1..n) = IF 1 > n THEN 0 ELSE n - 1 + 1
      BY <2>1, FS_Interval
    <2> QED
      BY <2>1, <2>2
  <1>2. s \in Surjection(1..n, ToSet(s))
    BY LenProperties, ToSetIs DEF Surjection
  <1>3. IsFiniteSet(ToSet(s)) /\ Cardinality(ToSet(s)) <= n
    BY <1>1, <1>2, FS_Surjection
  <1>4. /\ IsFiniteSet(ToSet(s) \cap F)
        /\ Cardinality(ToSet(s) \cap F) <= Cardinality(ToSet(s))
    BY <1>3, FS_Subset
  <1> QED
    BY <1>1, <1>3, <1>4, FS_CardinalityType

\* A part of a set within the limit is within it.
LEMMA PartIsWithin ==
    ASSUME NEW S, NEW T, NEW F, IsFiniteSet(S), T \cap F \subseteq S \cap F, Within(S, F)
    PROVE  Within(T, F)
  <1>1. IsFiniteSet(S \cap F)
    BY FS_Subset
  <1>2. /\ IsFiniteSet(T \cap F)
        /\ Cardinality(T \cap F) <= Cardinality(S \cap F)
    BY <1>1, FS_Subset
  <1> QED
    BY <1>1, <1>2, FS_CardinalityType, MaxImagesIsNat DEF Within

\* The folder grows by photos that were never handed out before.
LEMMA FolderGrows ==
    ASSUME IInv, [Next]_vars
    PROVE  folder' \cap used = folder
  <1>1. folder \subseteq used
    BY DEF IInv, KeysAreUsed
  <1>2. CASE UNCHANGED folder
    BY <1>1, <1>2
  <1>3. ASSUME NEW h \in Handlers, Upload(h) PROVE folder' \cap used = folder
    BY <1>1, <1>3 DEF Upload
  <1>4. ASSUME NEW h \in Handlers, Arrive(h) PROVE UNCHANGED folder
    BY <1>4 DEF Arrive, AddImage, UploadBusinessImage, UploadProductImage, RemoveImage,
                SetCover, ReplaceImages, ReleaseImages, Begin, files
  <1>5. ASSUME NEW h \in Handlers, Step(h), ~Upload(h) PROVE UNCHANGED folder
    BY <1>5 DEF Step, UploadBatch, UploadFails, ReadList, Save, SaveBatch, CountTable,
                DropFile, Dropped, DeleteFile, AwaitFails, files
  <1>6. ASSUME NEW i \in Items, NEW k \in Keys, WebDrop(i, k) PROVE UNCHANGED folder
    BY <1>6 DEF WebDrop, files
  <1> QED
    BY <1>2, <1>3, <1>4, <1>5, <1>6 DEF Next, vars, files

\* It is enough that a row lists part of what it listed or of what a request
\* had at hand, and that what comes to hand is within the limit.
LEMMA LimitStands ==
    ASSUME IInv, LimitInv, folder' \cap used = folder,
           \A i \in Items :
              \/ Listed(i)' \subseteq Listed(i)
              \/ \E h \in Handlers :
                    job[h].step = "save" /\ Listed(i)' = ToSet(job[h].list),
           \A h \in Handlers : job'[h].step = "save" =>
              \/ job'[h] = job[h]
              \/ Within(ToSet(job'[h].list), folder')
    PROVE  LimitInv'
  <1>1. ASSUME NEW h \in Handlers, job[h].step = "save"
        PROVE  /\ IsFiniteSet(ToSet(job[h].list)) /\ ToSet(job[h].list) \subseteq used
               /\ Within(ToSet(job[h].list), folder')
    <2>1. RightList(job[h]) /\ job[h].list \in Seq(Keys)
      BY DEF IInv, TypeOK, Job, RightJobs
    <2>2. /\ New(job[h]) \subseteq job[h].key
          /\ job[h].key \cup ToSet(job[h].base) \subseteq used
      BY DEF New, IInv, KeysAreUsed
    <2>3. ToSet(job[h].list) \subseteq used
      BY <1>1, <2>1, <2>2 DEF RightList
    <2>4. ToSet(job[h].list) \cap folder' = ToSet(job[h].list) \cap folder
      BY <2>3
    <2> QED
      BY <1>1, <2>1, <2>3, <2>4, FewPhotos DEF LimitInv, ListsAreWithin, Within
  <1>2. ASSUME NEW i \in Items
        PROVE  Within(Listed(i)', folder')
    <2>1. /\ images[i] \in Seq(Keys) /\ Listed(i) = ToSet(images[i])
          /\ Listed(i) \subseteq used
      BY DEF IInv, TypeOK, KeysAreUsed, Listed
    <2>2. CASE Listed(i)' \subseteq Listed(i)
      <3>1. Listed(i) \cap folder' = Listed(i) \cap folder
        BY <2>1
      <3>2. IsFiniteSet(Listed(i)) /\ Within(Listed(i), folder')
        BY <2>1, <3>1, FewPhotos DEF LimitInv, OnlyTheShopExceeds, Within
      <3>3. Listed(i)' \cap folder' \subseteq Listed(i) \cap folder'
        BY <2>2
      <3> QED
        BY <3>2, <3>3, PartIsWithin
    <2> QED
      BY <1>1, <2>2
  <1> QED
    BY <1>1, <1>2 DEF LimitInv, OnlyTheShopExceeds, ListsAreWithin, Within

\* What comes to the save of a request is within the limit.
LEMMA ComesWithin ==
    ASSUME IInv, LimitInv, IInv', folder' \cap used = folder,
           NEW h \in Handlers, Arrive(h) \/ Step(h), job'[h].step = "save"
    PROVE  Within(ToSet(job'[h].list), folder')
  <1> DEFINE j == job'[h]
  <1>1. /\ RightList(j) /\ j.list \in Seq(Keys) /\ job[h] \in Job
        /\ j.op # "add" => New(j) \cap folder' = {}
        /\ ToSet(j.list) = (ToSet(j.base) \ TakenOff(j, ToSet(j.base))) \cup New(j)
        /\ job \in [Handlers -> Job]
    BY DEF IInv, TypeOK, Job, RightJobs, NewIsOwn, RightList
  <1>2. ASSUME NEW i \in Items, j.op # "add", j.base = images[i]
        PROVE  Within(ToSet(j.list), folder')
    <2>1. /\ images[i] \in Seq(Keys) /\ Listed(i) = ToSet(images[i])
          /\ Listed(i) \subseteq used
      BY DEF IInv, TypeOK, KeysAreUsed, Listed
    <2>2. IsFiniteSet(Listed(i)) /\ Within(Listed(i), folder')
      <3>1. Listed(i) \cap folder' = Listed(i) \cap folder
        BY <2>1
      <3> QED
        BY <2>1, <3>1, FewPhotos DEF LimitInv, OnlyTheShopExceeds, Within
    <2>3. ToSet(j.list) \cap folder' \subseteq Listed(i) \cap folder'
      BY <1>1, <1>2, <2>1
    <2> HIDE DEF j
    <2> QED
      BY <2>2, <2>3, PartIsWithin
  <1>3. ASSUME NEW i \in Items, NEW o, NEW l, NEW K, Begin(h, o, "save", i, l, K),
               o # "add"
        PROVE  Within(ToSet(j.list), folder')
    <2>1. j.base = images[i] /\ j.op = o
      BY <1>1, <1>3 DEF Begin
    <2> QED
      BY <1>2, <1>3, <2>1
  <1>4. CASE Arrive(h)
    <2>1. ASSUME NEW i \in Items, NEW o, NEW l, NEW K, Begin(h, o, "upload", i, l, K)
          PROVE  FALSE
      BY <1>1, <2>1 DEF Begin
    <2>2. ~UploadProductImage(h) /\ \A k \in Keys : ~ReleaseImages(h, k)
      <3>1. UploadProductImage(h) => j.step = "upload"
        BY <1>1 DEF UploadProductImage, Idle
      <3>2. \A k \in Keys : ReleaseImages(h, k) => j.step = "count"
        BY <1>1 DEF ReleaseImages, Idle
      <3> QED
        BY <3>1, <3>2
    <2>3. ASSUME NEW i \in Items, NEW k \in Keys, RemoveImage(h, i, k)
          PROVE  Within(ToSet(j.list), folder')
      <3>1. Begin(h, "remove", "save", i, RemoveFirst(images[i], k), {k})
        BY <2>3 DEF RemoveImage
      <3> HIDE DEF j
      <3> QED
        BY <1>3, <3>1
    <2>4. ASSUME NEW i \in Items, NEW k \in Keys, SetCover(h, i, k)
          PROVE  Within(ToSet(j.list), folder')
      <3>1. Begin(h, "cover", "save", i, <<k>> \o RemoveFirst(images[i], k), {k})
        BY <2>4 DEF SetCover
      <3> HIDE DEF j
      <3> QED
        BY <1>3, <3>1
    <2> QED
      BY <1>4, <2>1, <2>2, <2>3, <2>4
         DEF Arrive, AddImage, UploadBusinessImage, ReplaceImages
  <1>5. CASE Upload(h)
    <2>1. PICK k \in Keys : /\ job[h].op = "add" /\ job[h].step = "upload"
                            /\ j.list = Append(job[h].list, k)
      <3>1. job[h].step = "upload"
        BY <1>5 DEF Upload, At
      <3>2. CASE job[h].op = "add"
        BY <1>1, <1>5, <3>1, <3>2 DEF Upload, Job
      <3>3. CASE job[h].op = "append"
        <4>1. j.step = "read"
          BY <1>1, <1>5, <3>3 DEF Upload, Job
        <4> QED
          BY <4>1
      <3>4. CASE job[h].op = "publish"
        <4>1. j.step = "idle"
          BY <1>1, <1>5, <3>4, IdleFacts DEF Upload, Answer
        <4> QED
          BY <4>1
      <3> QED
        BY <1>5, <3>2, <3>3, <3>4 DEF Upload
    <2>2. job[h].list \in Seq(Keys) /\ Len(job[h].list) < MaxImages
      BY <2>1 DEF IInv, TypeOK, Job, RightJobs, RightList
    <2>3. Len(j.list) <= MaxImages
      BY <2>1, <2>2, AppendFacts, LenProperties, MaxImagesIsNat
    <2>4. /\ IsFiniteSet(ToSet(j.list) \cap folder')
          /\ Cardinality(ToSet(j.list) \cap folder') <= Len(j.list) /\ Len(j.list) \in Nat
      <3> HIDE DEF j
      <3> QED
        BY <1>1, FewPhotos, LenProperties
    <2>5. Cardinality(ToSet(j.list) \cap folder') \in Nat
      BY <2>4, FS_CardinalityType
    <2>6. Cardinality(ToSet(j.list) \cap folder') <= MaxImages
      <3> HIDE DEF j
      <3> QED
        BY <2>3, <2>4, <2>5, MaxImagesIsNat
    <2> QED
      BY <2>6 DEF Within
  <1>6. CASE UploadBatch(h)
    <2>1. j.op = "replace"
      BY <1>1, <1>6 DEF UploadBatch, Job
    <2>2. ToSet(j.list) \cap folder' = {}
      BY <1>1, <2>1 DEF TakenOff
    <2> QED
      BY <2>2, FS_EmptySet, MaxImagesIsNat DEF Within
  <1>7. CASE ReadList(h)
    <2>1. PICK i \in job[h].item : j.base = images[i] /\ j.op = job[h].op
      BY <1>1, <1>7 DEF ReadList, Job
    <2>2. i \in Items /\ job[h].op = "append"
      BY <1>1, <1>7, <2>1 DEF ReadList, At, Job, IInv, RightJobs, RightStep
    <2> QED
      BY <1>2, <2>1, <2>2
  <1>8. CASE CountTable(h, "product") \/ CountTable(h, "storeProduct")
             \/ CountTable(h, "service")
    BY <1>1, <1>8, IdleFacts DEF CountTable, Answer, At, Job
  <1>9. CASE \/ UploadFails(h) \/ Save(h) \/ SaveBatch(h) \/ DropFile(h) \/ Dropped(h)
             \/ DeleteFile(h) \/ AwaitFails(h)
    <2>1. ASSUME Answer(h) PROVE FALSE
      BY <1>1, <2>1, IdleFacts DEF Answer
    <2>2. ASSUME Save(h) PROVE FALSE
      <3>1. CASE job[h].op = "remove" /\ job[h].key \subseteq folder
        <4>1. job'[h] = [Idle EXCEPT !.op = "remove", !.step = "count",
                                     !.key = job[h].key, !.uncounted = Tables]
          BY <1>1, <2>2, <3>1 DEF Save
        <4> QED
          BY <4>1 DEF Idle
      <3> QED
        BY <2>1, <2>2, <3>1 DEF Save
    <2>3. ASSUME SaveBatch(h) PROVE FALSE
      BY <1>1, <2>3 DEF SaveBatch, Job
    <2>4. ASSUME DropFile(h) PROVE FALSE
      BY <1>1, <2>4 DEF DropFile, At, Job
    <2> QED
      BY <1>9, <2>1, <2>2, <2>3, <2>4 DEF UploadFails, Dropped, DeleteFile, AwaitFails
  <1> QED
    BY <1>4, <1>5, <1>6, <1>7, <1>8, <1>9 DEF Step, Tables

\* A step of one request leaves the others as they were, and writes at most the
\* list that it had at hand.
LEMMA OneMoves ==
    ASSUME IInv, NEW h \in Handlers, Arrive(h) \/ Step(h)
    PROVE  /\ \A g \in Handlers \ {h} : job'[g] = job[g]
           /\ \A i \in Items :
                 \/ Listed(i)' = Listed(i)
                 \/ job[h].step = "save" /\ Listed(i)' = ToSet(job[h].list)
  <1>1. CASE Arrive(h)
    BY <1>1 DEF Arrive, AddImage, UploadBusinessImage, UploadProductImage, RemoveImage,
                SetCover, ReplaceImages, ReleaseImages, Begin, Listed, IInv, TypeOK
  <1>2. CASE Step(h) /\ ~Save(h) /\ ~SaveBatch(h)
    BY <1>2 DEF Step, Upload, UploadBatch, UploadFails, ReadList, CountTable, DropFile,
                Dropped, DeleteFile, AwaitFails, Answer, Listed, IInv, TypeOK
  <1>3. CASE Save(h) \/ SaveBatch(h)
    <2>1. PICK i \in Items :
            /\ job[h].step = "save" /\ images'[i] = job[h].list
            /\ \A o \in Items \ {i} : images'[o] = images[o]
      BY <1>3, SaveIs
    <2>2. \A g \in Handlers \ {h} : job'[g] = job[g]
      BY <1>3, SaveGoesOn DEF IInv, TypeOK
    <2> QED
      BY <2>1, <2>2 DEF Listed
  <1> QED
    BY <1>1, <1>2, <1>3

LEMMA LimitKeeps ==
    ASSUME IInv, LimitInv, [Next]_vars
    PROVE  LimitInv'
  <1>0. IInv' /\ folder' \cap used = folder
    BY NextKeeps, FolderGrows
  <1>1. ASSUME NEW h \in Handlers, Arrive(h) \/ Step(h) PROVE LimitInv'
    <2>1. job'[h].step = "save" => Within(ToSet(job'[h].list), folder')
      BY <1>0, <1>1, ComesWithin
    <2> QED
      BY <1>0, <1>1, <2>1, OneMoves, LimitStands
  <1>2. ASSUME NEW i \in Items, NEW k \in Keys, WebDrop(i, k) PROVE LimitInv'
    <2>1. /\ images[i] \in Seq(Keys) /\ IsInjective(images[i]) /\ k \in ToSet(images[i])
          /\ images' = [images EXCEPT ![i] = RemoveFirst(images[i], k)] /\ UNCHANGED job
      BY <1>2 DEF WebDrop, Listed, IInv, TypeOK, ListsHaveNoRepeats
    <2>2. \A o \in Items : Listed(o)' \subseteq Listed(o)
      BY <2>1, RemoveFacts DEF Listed, IInv, TypeOK
    <2> QED
      BY <1>0, <2>1, <2>2, LimitStands
  <1>3. CASE UNCHANGED vars
    BY <1>0, <1>3, LimitStands DEF vars, Listed
  <1> QED
    BY <1>1, <1>2, <1>3 DEF Next

LEMMA LimitAtFirst == Init => LimitInv
  <1> SUFFICES ASSUME Init PROVE LimitInv
    OBVIOUS
  <1>1. ASSUME NEW i \in Items PROVE Within(Listed(i), folder)
    <2>1. images[i] \in SeqOf(Keys, MaxImages)
      BY DEF Init, Batch
    <2>2. PICK m \in 0..MaxImages : images[i] \in [1..m -> Keys]
      BY <2>1 DEF SeqOf
    <2>3. images[i] \in Seq(Keys) /\ Len(images[i]) = m
      BY <2>2, MaxImagesIsNat
    <2>4. /\ Cardinality(Listed(i) \cap folder) <= m
          /\ IsFiniteSet(Listed(i) \cap folder)
      BY <2>3, FewPhotos DEF Listed
    <2> QED
      BY <2>4, FS_CardinalityType, MaxImagesIsNat DEF Within
  <1>2. \A h \in Handlers : job[h].step = "idle"
    BY IdleFacts DEF Init
  <1> QED
    BY <1>1, <1>2 DEF LimitInv, OnlyTheShopExceeds, ListsAreWithin, Within

-----------------------------------------------------------------------------
(* The theorems. *)

\* Rows, keys and requests stay well formed.
THEOREM TypeCorrect == Spec => []TypeOK
  <1>1. IInv => TypeOK
    BY DEF IInv
  <1> QED
    BY <1>1, Invariance, PTL

\* No list ever names a photo twice.
THEOREM NoRepeats == Spec => []ListsHaveNoRepeats
  <1>1. IInv => ListsHaveNoRepeats
    BY DEF IInv
  <1> QED
    BY <1>1, Invariance, PTL

\* No store product is shown without a photo, however the edits interleave.
THEOREM ShownHavePhotos == Spec => []NoneShownEmpty
  <1>1. IInv => NoneShownEmpty
    BY DEF IInv
  <1> QED
    BY <1>1, Invariance, PTL

\* A listing that was never written from an out-of-date list has every file it
\* shows, whatever is added, removed, replaced and released around it, but for
\* those another product's replacement deleted.
THEOREM FreshAreServable == Spec => []FreshListsServable
  <1>1. IInv => FreshListsServable
    BY DEF IInv
  <1> QED
    BY <1>1, Invariance, PTL

\* But for the shop's photos, no listing exceeds its limit, for any limit and
\* however many edits write lists that are out of date.
THEOREM LimitKept == Spec => []OnlyTheShopExceeds
  <1>1. LimitInv => OnlyTheShopExceeds
    BY DEF LimitInv
  <1> QED
    BY <1>1, LimitAtFirst, Invariance, LimitKeeps, PTL DEF Spec

\* A save does to the photos of a listing what its one edit does, and nothing
\* else, as long as the listing was never written from an out-of-date list.
THEOREM OneEdit == Spec => SaveIsOneEdit
  <1>1. ASSUME IInv, [Next]_vars, NEW h \in Handlers, Saves(h),
               NEW i \in Items \ stale'
        PROVE  ToSet(images'[i]) =
                 IF i \in job[h].item
                 THEN (Listed(i) \ TakenOff(job[h], Listed(i))) \cup New(job[h])
                 ELSE Listed(i)
    <2>1. Save(h) \/ SaveBatch(h)
      BY <1>1, SavesIsSave
    <2>2. PICK o \in Items :
            /\ job[h].step = "save" /\ job[h].item = {o} /\ RightList(job[h])
            /\ Save(h) => stale' = IF images[o] = job[h].base THEN stale
                                   ELSE stale \cup {o}
            /\ images'[o] = job[h].list
            /\ \A p \in Items \ {o} : images'[p] = images[p]
      BY <1>1, <2>1, SaveIs
    <2>3. CASE i = o
      <3>1. CASE Save(h)
        <4>1. images[i] = job[h].base
          BY <1>1, <2>2, <2>3, <3>1
        <4> QED
          BY <2>2, <2>3, <4>1 DEF RightList, Listed
      <3>2. CASE SaveBatch(h)
        <4>1. job[h].op = "replace"
          BY <3>2 DEF SaveBatch
        <4> QED
          BY <2>2, <2>3, <4>1 DEF RightList, TakenOff, Listed
      <3> QED
        BY <2>1, <3>1, <3>2
    <2>4. CASE i # o
      BY <1>1, <2>2, <2>4 DEF Listed
    <2> QED
      BY <2>3, <2>4
  <1>2. IInv /\ [Next]_vars =>
          [\A h \in Handlers : Saves(h) =>
             \A i \in Items \ stale' :
                ToSet(images'[i]) =
                    IF i \in job[h].item
                    THEN (Listed(i) \ TakenOff(job[h], Listed(i))) \cup New(job[h])
                    ELSE Listed(i)]_vars
    BY <1>1
  <1> QED
    BY <1>2, Invariance, PTL DEF Spec, SaveIsOneEdit
=============================================================================
