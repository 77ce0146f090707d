---------------------------- MODULE StudioProofs ----------------------------
(***************************************************************************)
(* Proofs about the files of the studio: the photos of pets, the paintings *)
(* by numbers, the images that are printed and their sizes.                *)
(*                                                                         *)
(* Any number of handlers meet at every await, over rows and files that    *)
(* they read at one step and write several steps later.  What makes each   *)
(* invariant inductive is what a handler under way carries: the keys of    *)
(* the files that it stored and has not written to a row, those that it is *)
(* about to delete, the row that it read, and what can have become of them *)
(* since.                                                                  *)
(***************************************************************************)
EXTENDS Pets, Paintings, PrintImages, PrintGeometry, SetLemmas

-----------------------------------------------------------------------------
(* The photos of a pet.                                                    *)

\* The handlers that have a new photo's file, and those that deleted a row.
Adders == {p \in Proc : job[p] # Idle /\ job[p].op = "addPhoto"}
Storing(p) == job[p] # Idle /\ job[p].op = "addPhoto" /\ job[p].at # "upload"
Unlinking(p) == job[p] # Idle /\ job[p].op = "deletePhoto" /\ job[p].at = "file"

PetTypeOK ==
    /\ photos \subseteq Photo /\ IsFiniteSet(photos)
    /\ uploads \in 0..MaxUploads /\ primaryRaced \in BOOLEAN /\ faultless \in BOOLEAN
    /\ job \in [Proc -> PetJob \cup {Idle}]
    /\ \A p \in Proc : job[p] # Idle =>
          /\ job[p].op = "addPhoto" => job[p].at \in {"upload", "order", "unset", "write"}
          /\ job[p].op = "updatePhoto" => job[p].at \in {"unset", "write"}
          /\ job[p].op = "deletePhoto" => job[p].at \in {"row", "file"}

\* A key is of one photo, and of one handler until it is.
KeysApart ==
    /\ \A ph, ph2 \in photos : ph.key = ph2.key => ph = ph2
    /\ \A p \in Proc : Storing(p) \/ Unlinking(p) => job[p].key \notin Shown
    /\ \A p, q \in Proc : Storing(p) /\ (Storing(q) \/ Unlinking(q)) /\ p # q =>
            job[p].key # job[q].key

\* What is in the storage, and why.
FilesKept ==
    /\ petFiles \subseteq 1..uploads
    /\ Shown \subseteq petFiles
    /\ \A p \in Proc : Storing(p) => job[p].key \in petFiles
    /\ \A p \in Proc : Unlinking(p) => job[p].key \in 1..uploads
    /\ faultless => \A k \in petFiles \ Shown :
            \E p \in Proc : (Storing(p) \/ Unlinking(p)) /\ job[p].key = k

\* The photos that are there or will be.
WithinReach == Cardinality(photos) + Cardinality(Adders) <= MaxPetPhotos + Cardinality(Proc) - 1

\* Of the handlers that make a photo primary, the one that cleared the others
\* finds them so when it writes.
ClearedFirst ==
    ~primaryRaced =>
        /\ \A ph, ph2 \in photos : ph.isPrimary /\ ph2.isPrimary => ph = ph2
        /\ \A p, q \in Proc : MakesPrimary(job[p]) /\ MakesPrimary(job[q]) => p = q
        /\ \A p \in Proc : MakesPrimary(job[p]) /\ job[p].at = "write" =>
                \A ph \in photos : ~ph.isPrimary

PetInv == PetTypeOK /\ KeysApart /\ FilesKept /\ WithinReach /\ ClearedFirst

LEMMA PetKeysAreNumbers == MaxUploads \in Nat \ {0} /\ 0 \notin PhotoKey /\ PhotoKey \subseteq Nat
  BY PetConstants DEF PhotoKey

\* A handler that starts or goes on, and writes nothing meanwhile.
LEMMA PetQuiet ==
    ASSUME PetInv, NEW p \in Proc, NEW j \in PetJob \cup {Idle},
           job' = [job EXCEPT ![p] = j],
           UNCHANGED <<photos, petFiles, uploads>>,
           faultless' \in BOOLEAN, faultless' => faultless,
           primaryRaced' \in BOOLEAN, primaryRaced => primaryRaced',
           j # Idle => /\ j.op = "addPhoto" => j.at \in {"upload", "order", "unset", "write"}
                       /\ j.op = "updatePhoto" => j.at \in {"unset", "write"}
                       /\ j.op = "deletePhoto" => j.at \in {"row", "file"},
           Storing(p)' <=> Storing(p), Unlinking(p)' <=> Unlinking(p),
           Storing(p) \/ Unlinking(p) => j.key = job[p].key,
           \/ p \in Adders' => p \in Adders
           \/ Cardinality(photos) < MaxPetPhotos,
           MakesPrimary(j) /\ ~primaryRaced' =>
                /\ MakesPrimary(job[p]) \/ \A q \in Proc : ~MakesPrimary(job[q])
                /\ j.at = "write" => MakesPrimary(job[p]) /\ job[p].at = "write"
    PROVE  PetInv'
  <1>1. job'[p] = j /\ \A q \in Proc \ {p} : job'[q] = job[q]
    BY DEF PetInv, PetTypeOK
  <1>2. PetTypeOK'
    BY <1>1 DEF PetInv, PetTypeOK
  <1>3. \A q \in Proc : /\ Storing(q)' <=> Storing(q)
                        /\ Unlinking(q)' <=> Unlinking(q)
                        /\ Storing(q) \/ Unlinking(q) => job'[q].key = job[q].key
    BY <1>1 DEF Storing, Unlinking
  <1>4. KeysApart'
    BY <1>3 DEF PetInv, KeysApart, Shown
  <1>5. FilesKept'
    <2>1. \A k \in petFiles : \A q \in Proc :
              (Storing(q) \/ Unlinking(q)) /\ job[q].key = k =>
              (Storing(q) \/ Unlinking(q))' /\ job'[q].key = k
      BY <1>3
    <2> QED  BY <1>3, <2>1 DEF PetInv, FilesKept, Shown
  <1>6. WithinReach'
    <2>1. Cardinality(photos) \in Nat /\ MaxPetPhotos \in Nat /\ Cardinality(Proc) \in Nat
      BY PetConstants, SomeProcesses, FS_CardinalityType DEF PetInv, PetTypeOK
    <2>2. Adders \subseteq Proc /\ Adders' \subseteq Proc
      BY DEF Adders
    <2>3. CASE p \in Adders' => p \in Adders
      <3>1. Adders' \subseteq Adders
        BY <1>1, <2>3 DEF Adders
      <3>2. IsFiniteSet(Adders)
        BY <2>2, SomeProcesses, NoMore
      <3> QED  BY <2>1, <3>1, <3>2, NoMore DEF PetInv, WithinReach
    <2>4. CASE Cardinality(photos) < MaxPetPhotos
      BY <2>1, <2>2, <2>4, NoMore, SomeProcesses DEF WithinReach
    <2> QED  BY <2>3, <2>4
  <1>7. ClearedFirst'
    <2>1. \A q \in Proc \ {p} : MakesPrimary(job'[q]) <=> MakesPrimary(job[q])
      BY <1>1
    <2> QED  BY <1>1, <2>1 DEF PetInv, ClearedFirst
  <1> QED  BY <1>2, <1>4, <1>5, <1>6, <1>7 DEF PetInv

LEMMA PetInitInv == PetInit => PetInv
  <1> SUFFICES ASSUME PetInit PROVE PetInv
    OBVIOUS
  <1>1. PICK n \in 0..1 :
            /\ photos = {[key |-> k, isPrimary |-> TRUE, orderIndex |-> 0] : k \in 1..n}
            /\ petFiles = 1..n /\ uploads = n
    BY DEF PetInit
  <1>2. job = [p \in Proc |-> Idle] /\ primaryRaced = FALSE /\ faultless = TRUE
    BY DEF PetInit, RequestsInit
  <1>3. photos \subseteq {[key |-> 1, isPrimary |-> TRUE, orderIndex |-> 0]}
    BY <1>1
  <1>4. IsFiniteSet(photos) /\ Cardinality(photos) <= 1 /\ Cardinality(photos) \in Nat
    <2>1. IsFiniteSet({[key |-> 1, isPrimary |-> TRUE, orderIndex |-> 0]})
          /\ Cardinality({[key |-> 1, isPrimary |-> TRUE, orderIndex |-> 0]}) = 1
      BY FS_Singleton
    <2> QED  BY <1>3, <2>1, NoMore
  <1>5. PetTypeOK
    <2>1. 1 \in PhotoKey /\ n \in 0..MaxUploads
      BY PetKeysAreNumbers DEF PhotoKey
    <2>2. [key |-> 1, isPrimary |-> TRUE, orderIndex |-> 0] \in Photo
      BY <2>1 DEF Photo
    <2>3. job \in [Proc -> PetJob \cup {Idle}] /\ \A p \in Proc : job[p] = Idle
      BY <1>2
    <2> QED  BY <1>1, <1>2, <1>3, <1>4, <2>1, <2>2, <2>3 DEF PetTypeOK
  <1>6. Shown = 1..n
    <2>1. \A k \in 1..n : [key |-> k, isPrimary |-> TRUE, orderIndex |-> 0] \in photos
      BY <1>1
    <2>2. \A k \in 1..n : k \in Shown
      <3> SUFFICES ASSUME NEW k \in 1..n PROVE k \in Shown
        OBVIOUS
      <3>1. [key |-> k, isPrimary |-> TRUE, orderIndex |-> 0].key = k
        OBVIOUS
      <3> QED  BY <2>1, <3>1 DEF Shown
    <2>3. \A ph \in photos : ph.key \in 1..n
      BY <1>1
    <2> QED  BY <2>2, <2>3 DEF Shown
  <1>7. KeysApart /\ ClearedFirst
    BY <1>2, <1>3 DEF KeysApart, ClearedFirst, Storing, Unlinking, MakesPrimary, Idle
  <1>8. FilesKept
    BY <1>1, <1>2, <1>6 DEF FilesKept, Storing, Unlinking
  <1>9. WithinReach
    <2>1. Adders = {} /\ Cardinality({}) = 0
      BY <1>2, FS_EmptySet DEF Adders
    <2>2. Cardinality(Proc) \in Nat /\ Cardinality(Proc) # 0
      BY SomeProcesses, FS_CardinalityType, FS_EmptySet
    <2> QED  BY <1>4, <2>1, <2>2, PetConstants DEF WithinReach
  <1> QED  BY <1>5, <1>7, <1>8, <1>9 DEF PetInv

LEMMA PetStartsKeepInv ==
    ASSUME PetInv, NEW p \in Proc,
           \/ \E isPrimary \in BOOLEAN :
                AddPhoto(p, isPrimary) \/ \E ph \in photos : UpdatePhoto(p, ph, isPrimary)
           \/ \E ph \in photos : DeletePhoto(p, ph)
    PROVE  PetInv'
  <1> USE PetKeysAreNumbers DEF Call, Dispatch
  <1>0. PetTypeOK /\ \A ph \in photos : ph.key \in PhotoKey /\ ph.orderIndex \in Nat
    BY DEF PetInv, PetTypeOK, Photo
  <1>1. ASSUME NEW isPrimary \in BOOLEAN, AddPhoto(p, isPrimary) PROVE PetInv'
    <2> DEFINE j == [op |-> "addPhoto", at |-> "upload", key |-> 0,
                     isPrimary |-> isPrimary, orderIndex |-> 0]
    <2>1. j \in PetJob /\ j # Idle
      BY DEF PetJob, Idle
    <2>2. job' = [job EXCEPT ![p] = j] /\ job[p] = Idle /\ job'[p] = j
      BY <1>0, <1>1 DEF AddPhoto, PetTypeOK
    <2>3. ~Storing(p) /\ ~Storing(p)' /\ ~Unlinking(p) /\ ~Unlinking(p)'
      BY <2>2 DEF Storing, Unlinking
    <2> QED  BY <1>0, <1>1, <2>1, <2>2, <2>3, PetQuiet
                DEF AddPhoto, AssertCanAddPhoto, PetTypeOK
  <1>2. ASSUME NEW isPrimary \in BOOLEAN, NEW ph \in photos, UpdatePhoto(p, ph, isPrimary)
        PROVE  PetInv'
    <2> DEFINE j == [op |-> "updatePhoto", at |-> IF isPrimary THEN "unset" ELSE "write",
                     key |-> ph.key, isPrimary |-> isPrimary, orderIndex |-> ph.orderIndex]
    <2>1. j \in PetJob /\ j # Idle
      BY <1>0 DEF PetJob, Idle
    <2>2. job' = [job EXCEPT ![p] = j] /\ job[p] = Idle /\ job'[p] = j
      BY <1>0, <1>2 DEF UpdatePhoto, PetTypeOK
    <2>3. ~Storing(p) /\ ~Storing(p)' /\ ~Unlinking(p) /\ ~Unlinking(p)' /\ p \notin Adders'
      BY <2>2 DEF Storing, Unlinking, Adders
    <2>4. MakesPrimary(j) => j.at = "unset"
      BY DEF MakesPrimary
    <2> QED  BY <1>0, <1>2, <2>1, <2>2, <2>3, <2>4, PetQuiet DEF UpdatePhoto, PetTypeOK
  <1>3. ASSUME NEW ph \in photos, DeletePhoto(p, ph) PROVE PetInv'
    <2> DEFINE j == [op |-> "deletePhoto", at |-> "row", key |-> ph.key,
                     isPrimary |-> FALSE, orderIndex |-> 0]
    <2>1. j \in PetJob /\ j # Idle
      BY <1>0 DEF PetJob, Idle
    <2>2. job' = [job EXCEPT ![p] = j] /\ job[p] = Idle /\ job'[p] = j
      BY <1>0, <1>3 DEF DeletePhoto, PetTypeOK
    <2>3. ~Storing(p) /\ ~Storing(p)' /\ ~Unlinking(p) /\ ~Unlinking(p)' /\ p \notin Adders'
      BY <2>2 DEF Storing, Unlinking, Adders
    <2>4. ~MakesPrimary(j)
      BY DEF MakesPrimary
    <2> QED  BY <1>0, <1>3, <2>1, <2>2, <2>3, <2>4, PetQuiet DEF DeletePhoto, PetTypeOK
  <1> QED  BY <1>1, <1>2, <1>3

\* The handlers of new photos, of which one ends.
LEMMA AdderEnds ==
    ASSUME PetTypeOK, NEW p \in Adders, job' = [job EXCEPT ![p] = Idle]
    PROVE  Cardinality(Adders') + 1 <= Cardinality(Adders) /\ Cardinality(Adders') \in Nat
           /\ Cardinality(Adders) \in Nat
  <1>1. Adders' \subseteq Adders \ {p}
    BY DEF Adders, PetTypeOK
  <1>2. IsFiniteSet(Adders)
    BY SomeProcesses, NoMore DEF Adders
  <1> QED  BY <1>1, <1>2, OneFewer

LEMMA UploadPhotoKeepsInv ==
    ASSUME PetInv, NEW p \in Proc, UploadPhoto(p)
    PROVE  PetInv'
  <1> USE PetKeysAreNumbers
  <1>1. /\ PetTypeOK /\ job[p] \in PetJob /\ job[p].op = "addPhoto" /\ job[p].at = "upload"
        /\ job[p] # Idle
    BY DEF PetInv, PetTypeOK, UploadPhoto, At, Idle
  <1>2. PICK k \in PhotoKey : k = uploads + 1 /\ uploads' = k
    BY <1>1 DEF UploadPhoto, PetTypeOK, PhotoKey
  <1>3. PICK j \in PetJob : j = [job[p] EXCEPT !.at = "order", !.key = k]
    BY <1>1, <1>2 DEF PetJob
  <1>4. /\ j.op = "addPhoto" /\ j.at = "order" /\ j.key = k /\ j.isPrimary = job[p].isPrimary
        /\ j # Idle
    BY <1>1, <1>3 DEF PetJob, Idle
  <1>5. job' = [job EXCEPT ![p] = j] /\ petFiles' = petFiles \cup {k}
    BY <1>2, <1>3 DEF UploadPhoto, Become
  <1>6. job'[p] = j /\ \A q \in Proc \ {p} : job'[q] = job[q]
    BY <1>1, <1>5 DEF PetTypeOK
  <1>7. UNCHANGED <<photos, primaryRaced, faultless>>
    BY DEF UploadPhoto
  <1>8. PetTypeOK'
    BY <1>1, <1>2, <1>4, <1>5, <1>6, <1>7 DEF PetTypeOK, PhotoKey
  <1>9. Storing(p)' /\ ~Unlinking(p)' /\ ~Storing(p) /\ ~Unlinking(p)
    BY <1>1, <1>4, <1>6 DEF Storing, Unlinking
  <1>10. \A q \in Proc \ {p} : (Storing(q)' <=> Storing(q)) /\ (Unlinking(q)' <=> Unlinking(q))
    BY <1>6 DEF Storing, Unlinking
  <1>11. \A q \in Proc : Storing(q) \/ Unlinking(q) => job[q].key \in 1..uploads
    BY DEF PetInv, FilesKept
  <1>12. k \notin Shown /\ k \notin 1..uploads /\ 1..uploads \subseteq 1..k /\ k \in 1..k
    BY <1>1, <1>2 DEF PetInv, FilesKept, PetTypeOK
  <1>13. KeysApart'
    BY <1>4, <1>6, <1>7, <1>9, <1>10, <1>11, <1>12 DEF PetInv, KeysApart, Shown
  <1>14. FilesKept'
    <2>1. petFiles' \subseteq 1..uploads' /\ Shown' \subseteq petFiles'
      BY <1>2, <1>5, <1>7, <1>12 DEF PetInv, FilesKept, Shown
    <2>2. \A q \in Proc : /\ Storing(q)' => job'[q].key \in petFiles'
                          /\ Unlinking(q)' => job'[q].key \in 1..uploads'
      BY <1>2, <1>4, <1>5, <1>6, <1>9, <1>10, <1>12 DEF PetInv, FilesKept
    <2>3. ASSUME faultless', NEW m \in petFiles' \ Shown'
          PROVE  \E q \in Proc : (Storing(q) \/ Unlinking(q))' /\ job'[q].key = m
      <3>1. CASE m = k
        BY <1>4, <1>6, <1>9, <3>1
      <3>2. CASE m # k
        <4>1. PICK q \in Proc : (Storing(q) \/ Unlinking(q)) /\ job[q].key = m
          BY <1>5, <1>7, <2>3, <3>2 DEF PetInv, FilesKept, Shown
        <4>2. q # p
          BY <1>9, <4>1
        <4> QED  BY <1>6, <1>10, <4>1, <4>2
      <3> QED  BY <3>1, <3>2
    <2> QED  BY <2>1, <2>2, <2>3 DEF FilesKept
  <1>15. WithinReach'
    <2>1. Adders' = Adders
      BY <1>1, <1>4, <1>6 DEF Adders
    <2> QED  BY <1>7, <2>1 DEF PetInv, WithinReach
  <1>16. ClearedFirst'
    <2>1. MakesPrimary(j) <=> MakesPrimary(job[p])
      BY <1>1, <1>4 DEF MakesPrimary
    <2> QED  BY <1>4, <1>6, <1>7, <2>1 DEF PetInv, ClearedFirst
  <1> QED  BY <1>8, <1>13, <1>14, <1>15, <1>16 DEF PetInv

LEMMA ReadOrderIndexKeepsInv ==
    ASSUME PetInv, NEW p \in Proc, ReadOrderIndex(p)
    PROVE  PetInv'
  <1>1. /\ PetTypeOK /\ job[p] \in PetJob /\ job[p].op = "addPhoto" /\ job[p].at = "order"
        /\ job[p] # Idle
    BY DEF PetInv, PetTypeOK, ReadOrderIndex, At, Idle
  <1> DEFINE indices == {ph.orderIndex : ph \in photos}
  <1>2. photos = {} \/ Max(indices) \in Nat
    <2>1. indices \subseteq Nat
      BY <1>1 DEF PetTypeOK, Photo
    <2>2. IsFiniteSet(indices)
      <3>1. [ph \in photos |-> ph.orderIndex] \in Surjection(photos, indices)
        BY DEF Surjection
      <3> QED  BY <1>1, <3>1, FS_Surjection DEF PetTypeOK
    <2>3. photos # {} => indices # {}
      OBVIOUS
    <2> QED  BY <2>1, <2>2, <2>3, MaxIsMember
  <1>3. PICK n \in Nat : n = IF photos = {} THEN 0 ELSE Max(indices) + 1
    <2> HIDE DEF indices
    <2>1. (IF photos = {} THEN 0 ELSE Max(indices) + 1) \in Nat
      BY <1>2
    <2> QED  BY <2>1
  <1>4. PICK j \in PetJob : j = [job[p] EXCEPT !.at = IF job[p].isPrimary THEN "unset" ELSE "write",
                                               !.orderIndex = n]
    BY <1>1 DEF PetJob
  <1>5. /\ j.op = "addPhoto" /\ j.at \in {"unset", "write"} /\ j.key = job[p].key
        /\ j.isPrimary = job[p].isPrimary /\ (j.at = "write" => ~j.isPrimary) /\ j # Idle
    BY <1>1, <1>4 DEF PetJob, Idle
  <1>6. job' = [job EXCEPT ![p] = j] /\ job'[p] = j
    BY <1>1, <1>3, <1>4 DEF ReadOrderIndex, Become, PetTypeOK
  <1>7. Storing(p)' /\ ~Unlinking(p)' /\ Storing(p) /\ ~Unlinking(p) /\ p \in Adders
    BY <1>1, <1>5, <1>6 DEF Storing, Unlinking, Adders
  <1>8. MakesPrimary(j) => MakesPrimary(job[p]) /\ j.at # "write"
    BY <1>1, <1>5 DEF MakesPrimary
  <1> QED  BY <1>1, <1>5, <1>6, <1>7, <1>8, PetQuiet DEF ReadOrderIndex, PetTypeOK

LEMMA UnsetPrimaryKeepsInv ==
    ASSUME PetInv, NEW p \in Proc, UnsetPrimary(p)
    PROVE  PetInv'
  <1>1. /\ PetTypeOK /\ job[p] # Idle /\ job[p] \in PetJob /\ job[p].at = "unset"
        /\ job[p].op \in {"addPhoto", "updatePhoto"}
    BY DEF PetInv, PetTypeOK, UnsetPrimary, Idle, PetJob
  <1>2. PICK j \in PetJob : j = [job[p] EXCEPT !.at = "write"]
    BY <1>1 DEF PetJob
  <1>3. /\ j.op = job[p].op /\ j.at = "write" /\ j.key = job[p].key
        /\ j.isPrimary = job[p].isPrimary /\ j # Idle
    BY <1>1, <1>2 DEF PetJob, Idle
  <1>4. job' = [job EXCEPT ![p] = j] /\ job'[p] = j /\ \A q \in Proc \ {p} : job'[q] = job[q]
    BY <1>1, <1>2 DEF UnsetPrimary, Become, PetTypeOK
  <1>5. UNCHANGED <<petFiles, uploads, primaryRaced, faultless>> /\ photos' = Unset
    BY DEF UnsetPrimary
  <1> DEFINE Plain(ph) == [ph EXCEPT !.isPrimary = FALSE]
  <1>6. \A ph \in photos : /\ Plain(ph) \in Photo /\ Plain(ph).key = ph.key /\ ~Plain(ph).isPrimary
                           /\ Plain(ph) \in photos'
    BY <1>1, <1>5 DEF PetTypeOK, Photo, Unset
  <1>7. \A ph2 \in photos' : \E ph \in photos : ph2 = Plain(ph)
    BY <1>5 DEF Unset
  <1>8. IsFiniteSet(photos') /\ Cardinality(photos') <= Cardinality(photos)
    <2>1. [ph \in photos |-> Plain(ph)] \in Surjection(photos, photos')
      BY <1>6, <1>7 DEF Surjection
    <2> QED  BY <1>1, <2>1, FS_Surjection DEF PetTypeOK
  <1>9. Shown' = Shown
    <2>1. \A k \in Shown : k \in Shown'
      BY <1>6 DEF Shown
    <2>2. ASSUME NEW k \in Shown' PROVE k \in Shown
      <3>1. PICK a \in photos' : a.key = k
        BY DEF Shown
      <3>2. PICK ph \in photos : a = Plain(ph)
        BY <1>7
      <3>3. ph.key = k
        BY <1>6, <3>1, <3>2
      <3> QED  BY <3>3 DEF Shown
    <2> QED  BY <2>1, <2>2
  <1>10. \A q \in Proc : /\ Storing(q)' <=> Storing(q)
                         /\ Unlinking(q)' <=> Unlinking(q)
                         /\ job'[q] # Idle => job'[q].key = job[q].key
                         /\ MakesPrimary(job'[q]) <=> MakesPrimary(job[q])
    BY <1>1, <1>3, <1>4 DEF Storing, Unlinking, MakesPrimary
  <1>11. PetTypeOK'
    BY <1>1, <1>3, <1>4, <1>5, <1>6, <1>7, <1>8 DEF PetTypeOK
  <1>12. KeysApart'
    <2>1. \A ph, ph2 \in photos' : ph.key = ph2.key => ph = ph2
      <3> SUFFICES ASSUME NEW a \in photos', NEW b \in photos', a.key = b.key PROVE a = b
        OBVIOUS
      <3>1. PICK c \in photos : a = Plain(c)
        BY <1>7
      <3>2. PICK d \in photos : b = Plain(d)
        BY <1>7
      <3>3. c.key = d.key
        BY <1>6, <3>1, <3>2
      <3> QED  BY <3>1, <3>2, <3>3 DEF PetInv, KeysApart
    <2>2. \A q \in Proc : Storing(q) \/ Unlinking(q) => job'[q] # Idle
      BY <1>10 DEF Storing, Unlinking
    <2> QED  BY <1>9, <1>10, <2>1, <2>2 DEF PetInv, KeysApart
  <1>13. FilesKept'
    <2>1. \A q \in Proc : Storing(q) \/ Unlinking(q) =>
              (Storing(q) \/ Unlinking(q))' /\ job'[q].key = job[q].key
      BY <1>10 DEF Storing, Unlinking
    <2>2. \A q \in Proc : (Storing(q) \/ Unlinking(q))' => job'[q].key = job[q].key
      BY <1>10 DEF Storing, Unlinking
    <2> QED  BY <1>5, <1>9, <1>10, <2>1, <2>2 DEF PetInv, FilesKept
  <1>14. WithinReach'
    <2>1. Adders' = Adders
      BY <1>1, <1>3, <1>4 DEF Adders
    <2>2. Cardinality(photos) \in Nat /\ Cardinality(photos') \in Nat /\ Cardinality(Adders) \in Nat
      BY <1>1, <1>8, SomeProcesses, FS_CardinalityType, NoMore DEF PetTypeOK, Adders
    <2>3. Cardinality(Proc) \in Nat /\ MaxPetPhotos \in Nat
      BY SomeProcesses, PetConstants, FS_CardinalityType
    <2> QED  BY <1>8, <2>1, <2>2, <2>3 DEF PetInv, WithinReach
  <1>15. ClearedFirst'
    <2>1. \A ph \in photos' : ~ph.isPrimary
      BY <1>6, <1>7
    <2> QED  BY <1>5, <1>10, <2>1 DEF PetInv, ClearedFirst
  <1> QED  BY <1>11, <1>12, <1>13, <1>14, <1>15 DEF PetInv

LEMMA WritePhotoKeepsInv ==
    ASSUME PetInv, NEW p \in Proc, WritePhoto(p)
    PROVE  PetInv'
  <1>1. /\ PetTypeOK /\ job[p] # Idle /\ job[p] \in PetJob /\ job[p].at = "write"
        /\ job[p].op \in {"addPhoto", "updatePhoto"}
    BY DEF PetInv, PetTypeOK, WritePhoto, Idle, PetJob
  <1>2. job' = [job EXCEPT ![p] = Idle] /\ job'[p] = Idle /\ \A q \in Proc \ {p} : job'[q] = job[q]
    BY <1>1 DEF WritePhoto, Become, PetTypeOK
  <1>3. UNCHANGED <<petFiles, uploads, primaryRaced, faultless>>
    BY DEF WritePhoto
  <1>4. /\ job[p].op = "addPhoto" => Storing(p) /\ p \in Adders
        /\ job[p].op = "updatePhoto" => ~Storing(p) /\ p \notin Adders /\ job[p].key \in Shown
        /\ ~Unlinking(p)
    BY <1>1 DEF Storing, Unlinking, Adders, WritePhoto
  <1>5. job[p].key \in petFiles /\ job[p].key \in PhotoKey
    <2>1. uploads \in Nat /\ MaxUploads \in Nat /\ uploads <= MaxUploads /\ petFiles \subseteq 1..uploads
      BY <1>1, PetKeysAreNumbers DEF PetTypeOK, PetInv, FilesKept
    <2>2. job[p].key \in petFiles
      <3>1. Shown \subseteq petFiles /\ (Storing(p) => job[p].key \in petFiles)
        BY DEF PetInv, FilesKept
      <3> QED  BY <1>1, <1>4, <3>1
    <2>3. job[p].key \in 1..uploads
      BY <2>1, <2>2
    <2> QED  BY <2>1, <2>2, <2>3 DEF PhotoKey
  <1>6. PICK row \in Photo : row = [key |-> job[p].key, isPrimary |-> job[p].isPrimary,
                                    orderIndex |-> job[p].orderIndex]
    BY <1>1, <1>5 DEF Photo, PetJob
  <1>7. row.key = job[p].key /\ row.isPrimary = job[p].isPrimary
    BY <1>6
  <1>8. PICK others \in SUBSET photos :
            /\ others = {ph \in photos : ph.key # job[p].key}
            /\ photos' = others \cup {row}
    BY <1>6 DEF WritePhoto
  <1>9. Shown' = Shown \cup {job[p].key}
    <2>1. \A k \in Shown \cup {job[p].key} : k \in Shown'
      BY <1>7, <1>8 DEF Shown
    <2>2. \A k \in Shown' : k \in Shown \cup {job[p].key}
      BY <1>7, <1>8 DEF Shown
    <2> QED  BY <2>1, <2>2
  <1>10. /\ ~Storing(p)' /\ ~Unlinking(p)'
         /\ \A q \in Proc \ {p} : (Storing(q)' <=> Storing(q)) /\ (Unlinking(q)' <=> Unlinking(q))
    BY <1>2 DEF Storing, Unlinking
  <1>11. /\ IsFiniteSet(photos') /\ Cardinality(photos') \in Nat /\ Cardinality(photos) \in Nat
         /\ Cardinality(photos') <= Cardinality(photos) + 1
         /\ job[p].op = "updatePhoto" => Cardinality(photos') <= Cardinality(photos)
    <2>1. IsFiniteSet(photos)
      BY <1>1 DEF PetTypeOK
    <2>2. IsFiniteSet(photos') /\ Cardinality(photos') \in Nat /\ Cardinality(photos) \in Nat
          /\ Cardinality(photos') <= Cardinality(photos) + 1
      BY <1>8, <2>1, OneMore
    <2>3. ASSUME job[p].op = "updatePhoto" PROVE Cardinality(photos') <= Cardinality(photos)
      <3>1. PICK ph \in photos : ph.key = job[p].key
        BY <1>4, <2>3 DEF Shown
      <3>2. others \subseteq photos \ {ph}
        BY <1>8, <3>1
      <3>3. Cardinality(others) + 1 <= Cardinality(photos) /\ IsFiniteSet(others)
        BY <2>1, <3>2, OneFewer
      <3>4. Cardinality(photos') <= Cardinality(others) + 1 /\ Cardinality(others) \in Nat
        BY <1>8, <3>3, OneMore
      <3> QED  BY <2>2, <3>3, <3>4
    <2> QED  BY <2>2, <2>3
  <1>12. PetTypeOK'
    BY <1>1, <1>2, <1>3, <1>8, <1>11 DEF PetTypeOK
  <1>13. KeysApart'
    <2>1. \A ph, ph2 \in photos' : ph.key = ph2.key => ph = ph2
      BY <1>7, <1>8 DEF PetInv, KeysApart
    <2>2. \A q \in Proc : (Storing(q) \/ Unlinking(q))' => job'[q].key # job[p].key
      BY <1>2, <1>4, <1>10, <1>1 DEF PetInv, KeysApart
    <2> QED  BY <1>2, <1>9, <1>10, <2>1, <2>2 DEF PetInv, KeysApart
  <1>14. FilesKept'
    <2>1. ASSUME faultless', NEW k \in petFiles' \ Shown'
          PROVE  \E q \in Proc : (Storing(q) \/ Unlinking(q))' /\ job'[q].key = k
      <3>1. PICK q \in Proc : (Storing(q) \/ Unlinking(q)) /\ job[q].key = k
        BY <1>3, <1>9, <2>1 DEF PetInv, FilesKept
      <3>2. q # p
        BY <1>9, <2>1, <3>1
      <3> QED  BY <1>2, <1>10, <3>1, <3>2
    <2>2. petFiles' \subseteq 1..uploads' /\ Shown' \subseteq petFiles'
      BY <1>3, <1>5, <1>9 DEF PetInv, FilesKept
    <2>3. \A q \in Proc : /\ Storing(q)' => job'[q].key \in petFiles'
                          /\ Unlinking(q)' => job'[q].key \in 1..uploads'
      BY <1>2, <1>3, <1>10 DEF PetInv, FilesKept
    <2> QED  BY <2>1, <2>2, <2>3 DEF FilesKept
  <1>15. WithinReach'
    <2>1. Cardinality(Proc) \in Nat /\ MaxPetPhotos \in Nat
      BY SomeProcesses, PetConstants, FS_CardinalityType
    <2>2. CASE job[p].op = "addPhoto"
      <3>1. Cardinality(Adders') + 1 <= Cardinality(Adders) /\ Cardinality(Adders') \in Nat
            /\ Cardinality(Adders) \in Nat
        BY <1>1, <1>2, <1>4, <2>2, AdderEnds
      <3> QED  BY <1>11, <2>1, <3>1 DEF PetInv, WithinReach
    <2>3. CASE job[p].op = "updatePhoto"
      <3>1. Adders' = Adders
        BY <1>2, <1>4, <2>3 DEF Adders
      <3>2. Cardinality(Adders) \in Nat
        BY SomeProcesses, NoMore DEF Adders
      <3> QED  BY <1>11, <2>1, <2>3, <3>1, <3>2 DEF PetInv, WithinReach
    <2> QED  BY <1>1, <2>2, <2>3
  <1>16. ClearedFirst'
    <2> SUFFICES ASSUME ~primaryRaced PROVE ClearedFirst'
      BY <1>3 DEF ClearedFirst
    <2>1. \A q \in Proc : MakesPrimary(job'[q]) => q # p /\ MakesPrimary(job[q])
      BY <1>2 DEF MakesPrimary
    <2>2. CASE job[p].isPrimary
      <3>1. MakesPrimary(job[p]) /\ \A ph \in photos : ~ph.isPrimary
        BY <1>1, <2>2 DEF MakesPrimary, PetInv, ClearedFirst
      <3>2. \A q \in Proc : ~MakesPrimary(job'[q])
        BY <2>1, <3>1 DEF PetInv, ClearedFirst
      <3> QED  BY <1>8, <3>1, <3>2 DEF ClearedFirst
    <2>3. CASE ~job[p].isPrimary
      BY <1>2, <1>7, <1>8, <2>1, <2>3 DEF PetInv, ClearedFirst
    <2> QED  BY <2>2, <2>3
  <1> QED  BY <1>12, <1>13, <1>14, <1>15, <1>16 DEF PetInv

LEMMA DeleteRowKeepsInv ==
    ASSUME PetInv, NEW p \in Proc, DeleteRow(p)
    PROVE  PetInv'
  <1>1. /\ PetTypeOK /\ job[p] # Idle /\ job[p] \in PetJob /\ job[p].op = "deletePhoto"
        /\ job[p].at = "row" /\ job[p].key \in Shown
    BY DEF PetInv, PetTypeOK, DeleteRow, At, Idle
  <1>2. PICK j \in PetJob : j = [job[p] EXCEPT !.at = "file"]
    BY <1>1 DEF PetJob
  <1>3. j.op = "deletePhoto" /\ j.at = "file" /\ j.key = job[p].key /\ j # Idle
    BY <1>1, <1>2 DEF PetJob, Idle
  <1>4. job' = [job EXCEPT ![p] = j] /\ job'[p] = j /\ \A q \in Proc \ {p} : job'[q] = job[q]
    BY <1>1, <1>2 DEF DeleteRow, Become, PetTypeOK
  <1>5. UNCHANGED <<petFiles, uploads, primaryRaced, faultless>>
    BY DEF DeleteRow
  <1>6. photos' \subseteq photos /\ photos' = {ph \in photos : ph.key # job[p].key}
    BY DEF DeleteRow
  <1>7. Shown' = Shown \ {job[p].key}
    <2>1. \A k \in Shown \ {job[p].key} : k \in Shown'
      BY <1>6 DEF Shown
    <2>2. \A k \in Shown' : k \in Shown \ {job[p].key}
      BY <1>6 DEF Shown
    <2> QED  BY <2>1, <2>2
  <1>8. /\ ~Storing(p) /\ ~Storing(p)' /\ ~Unlinking(p) /\ Unlinking(p)'
        /\ \A q \in Proc \ {p} : (Storing(q)' <=> Storing(q)) /\ (Unlinking(q)' <=> Unlinking(q))
    BY <1>1, <1>3, <1>4 DEF Storing, Unlinking
  <1>9. IsFiniteSet(photos') /\ Cardinality(photos') <= Cardinality(photos)
        /\ Cardinality(photos') \in Nat /\ Cardinality(photos) \in Nat
    BY <1>1, <1>6, NoMore DEF PetTypeOK
  <1>10. PetTypeOK'
    BY <1>1, <1>3, <1>4, <1>5, <1>6, <1>9 DEF PetTypeOK
  <1>11. KeysApart'
    <2>1. \A q \in Proc : Storing(q) \/ Unlinking(q) => job[q].key # job[p].key
      BY <1>1 DEF PetInv, KeysApart
    <2>2. \A q \in Proc : (Storing(q) \/ Unlinking(q))' => job'[q].key \notin Shown'
      BY <1>3, <1>4, <1>7, <1>8 DEF PetInv, KeysApart
    <2> QED  BY <1>3, <1>4, <1>6, <1>8, <2>1, <2>2 DEF PetInv, KeysApart
  <1>12. FilesKept'
    <2>1. ASSUME faultless', NEW k \in petFiles' \ Shown'
          PROVE  \E q \in Proc : (Storing(q) \/ Unlinking(q))' /\ job'[q].key = k
      <3>1. CASE k = job[p].key
        BY <1>3, <1>4, <1>8, <3>1
      <3>2. CASE k # job[p].key
        <4>1. PICK q \in Proc : (Storing(q) \/ Unlinking(q)) /\ job[q].key = k
          BY <1>5, <1>7, <2>1, <3>2 DEF PetInv, FilesKept
        <4> QED  BY <1>4, <1>8, <4>1, <3>2
      <3> QED  BY <3>1, <3>2
    <2>2. petFiles' \subseteq 1..uploads' /\ Shown' \subseteq petFiles'
      BY <1>5, <1>7 DEF PetInv, FilesKept
    <2>3. job[p].key \in 1..uploads
      BY <1>1 DEF PetInv, FilesKept
    <2>4. \A q \in Proc : /\ Storing(q)' => job'[q].key \in petFiles'
                          /\ Unlinking(q)' => job'[q].key \in 1..uploads'
      BY <1>3, <1>4, <1>5, <1>8, <2>3 DEF PetInv, FilesKept
    <2> QED  BY <2>1, <2>2, <2>4 DEF FilesKept
  <1>13. WithinReach'
    <2>1. Adders' = Adders
      BY <1>1, <1>3, <1>4 DEF Adders
    <2>2. Cardinality(Proc) \in Nat /\ MaxPetPhotos \in Nat /\ Cardinality(Adders) \in Nat
      BY SomeProcesses, PetConstants, FS_CardinalityType, NoMore DEF Adders
    <2> QED  BY <1>9, <2>1, <2>2 DEF PetInv, WithinReach
  <1>14. ClearedFirst'
    <2>1. \A q \in Proc : MakesPrimary(job'[q]) => MakesPrimary(job[q]) /\ job'[q] = job[q]
      BY <1>3, <1>4 DEF MakesPrimary
    <2> QED  BY <1>5, <1>6, <2>1 DEF PetInv, ClearedFirst
  <1> QED  BY <1>10, <1>11, <1>12, <1>13, <1>14 DEF PetInv

\* A handler ends with its file deleted, or fails.
LEMMA PetEndKeepsInv ==
    ASSUME PetInv, NEW p \in Proc, job[p] # Idle,
           job' = [job EXCEPT ![p] = Idle],
           UNCHANGED <<photos, uploads, primaryRaced>>,
           \/ /\ Unlinking(p) /\ petFiles' = petFiles \ {job[p].key} /\ UNCHANGED faultless
           \/ /\ UNCHANGED petFiles /\ faultless' = FALSE
    PROVE  PetInv'
  <1>1. PetTypeOK /\ job'[p] = Idle /\ \A q \in Proc \ {p} : job'[q] = job[q]
    BY DEF PetInv, PetTypeOK
  <1>2. /\ ~Storing(p)' /\ ~Unlinking(p)'
        /\ \A q \in Proc \ {p} : (Storing(q)' <=> Storing(q)) /\ (Unlinking(q)' <=> Unlinking(q))
    BY <1>1 DEF Storing, Unlinking
  <1>3. PetTypeOK'
    BY <1>1 DEF PetTypeOK
  <1>4. KeysApart'
    BY <1>1, <1>2 DEF PetInv, KeysApart, Shown
  <1>5. FilesKept'
    <2>1. Unlinking(p) => /\ job[p].key \notin Shown
                          /\ \A q \in Proc \ {p} : Storing(q) => job[q].key # job[p].key
      BY DEF PetInv, KeysApart
    <2>2. petFiles' \subseteq 1..uploads' /\ Shown' \subseteq petFiles'
      BY <2>1 DEF PetInv, FilesKept, Shown
    <2>3. \A q \in Proc : /\ Storing(q)' => job'[q].key \in petFiles'
                          /\ Unlinking(q)' => job'[q].key \in 1..uploads'
      BY <1>1, <1>2, <2>1 DEF PetInv, FilesKept
    <2>4. ASSUME faultless', NEW k \in petFiles' \ Shown'
          PROVE  \E q \in Proc : (Storing(q) \/ Unlinking(q))' /\ job'[q].key = k
      <3>1. k \in petFiles \ Shown /\ k # job[p].key /\ faultless
        BY <2>4 DEF Shown
      <3>2. PICK q \in Proc : (Storing(q) \/ Unlinking(q)) /\ job[q].key = k
        BY <3>1 DEF PetInv, FilesKept
      <3> QED  BY <1>1, <1>2, <3>1, <3>2
    <2> QED  BY <2>2, <2>3, <2>4 DEF FilesKept
  <1>6. WithinReach'
    <2>1. Adders' \subseteq Adders /\ IsFiniteSet(Adders)
      BY <1>1, SomeProcesses, NoMore DEF Adders
    <2>2. Cardinality(Adders') <= Cardinality(Adders) /\ Cardinality(Adders') \in Nat
          /\ Cardinality(Adders) \in Nat
      BY <2>1, NoMore
    <2>3. Cardinality(Proc) \in Nat /\ MaxPetPhotos \in Nat /\ Cardinality(photos) \in Nat
      BY <1>1, SomeProcesses, PetConstants, FS_CardinalityType DEF PetTypeOK
    <2> QED  BY <2>2, <2>3 DEF PetInv, WithinReach
  <1>7. ClearedFirst'
    <2>1. \A q \in Proc : MakesPrimary(job'[q]) => MakesPrimary(job[q]) /\ job'[q] = job[q]
      BY <1>1 DEF MakesPrimary
    <2> QED  BY <2>1 DEF PetInv, ClearedFirst
  <1> QED  BY <1>3, <1>4, <1>5, <1>6, <1>7 DEF PetInv

LEMMA PetStepKeepsInv == PetInv /\ [PetNext]_petVars => PetInv'
  <1> SUFFICES ASSUME PetInv, [PetNext]_petVars PROVE PetInv'
    OBVIOUS
  <1>1. ASSUME NEW p \in Proc, DeleteFile(p) \/ PhotoFails(p) PROVE PetInv'
    <2>1. job[p] # Idle /\ (DeleteFile(p) => Unlinking(p))
      BY <1>1 DEF DeleteFile, PhotoFails, Unlinking, At, Idle
    <2> QED  BY <1>1, <2>1, PetEndKeepsInv DEF DeleteFile, PhotoFails, Become
  <1>2. CASE UNCHANGED petVars
    BY <1>2 DEF petVars, PetInv, PetTypeOK, KeysApart, FilesKept, WithinReach, ClearedFirst,
                Shown, Storing, Unlinking, Adders
  <1> QED  BY <1>1, <1>2, PetStartsKeepInv, UploadPhotoKeepsInv, ReadOrderIndexKeepsInv,
              UnsetPrimaryKeepsInv, WritePhotoKeepsInv, DeleteRowKeepsInv DEF PetNext

LEMMA PetInvariant == PetSpec => []PetInv
  BY PetInitInv, PetStepKeepsInv, PTL DEF PetSpec

\* However uploads, updates, deletions and failures meet, a photo has its
\* file, and a file without its photo is what a failed handler left.
THEOREM PetPhotosHaveFiles == PetSpec => []PhotosHaveFiles
  <1>1. PetInv => PhotosHaveFiles
    <2> SUFFICES ASSUME PetInv PROVE PhotosHaveFiles
      OBVIOUS
    <2>1. ASSUME faultless, AllIdle PROVE petFiles = Shown
      <3>1. \A p \in Proc : ~Storing(p) /\ ~Unlinking(p)
        BY <2>1 DEF AllIdle, Storing, Unlinking
      <3> QED  BY <2>1, <3>1 DEF PetInv, FilesKept
    <2> QED  BY <2>1 DEF PhotosHaveFiles, PetInv, FilesKept
  <1> QED  BY <1>1, PetInvariant, PTL

\* A pet exceeds the limit of its photos by the requests that raced at most,
\* and has two primary photos only after two requests to make one met.
THEOREM PetPhotosStayBounded == PetSpec => []PhotosBounded
  <1>1. PetInv => PhotosBounded
    <2> SUFFICES ASSUME PetInv PROVE PhotosBounded
      OBVIOUS
    <2>1. PhotosWithinLimit
      <3>1. Cardinality(Adders) \in Nat /\ Cardinality(photos) \in Nat /\ Cardinality(Proc) \in Nat
            /\ MaxPetPhotos \in Nat
        BY SomeProcesses, PetConstants, FS_CardinalityType, NoMore DEF Adders, PetInv, PetTypeOK
      <3> QED  BY <3>1 DEF PetInv, WithinReach, PhotosWithinLimit
    <2>2. OnePrimaryPhoto
      <3> SUFFICES ASSUME ~primaryRaced
                   PROVE  Cardinality({ph \in photos : ph.isPrimary}) <= 1
        BY DEF OnePrimaryPhoto
      <3>1. CASE {ph \in photos : ph.isPrimary} = {}
        BY <3>1, FS_EmptySet
      <3>2. ASSUME NEW ph \in photos, ph.isPrimary
            PROVE  Cardinality({x \in photos : x.isPrimary}) <= 1
        <4>1. {x \in photos : x.isPrimary} = {ph}
          BY <3>2 DEF PetInv, ClearedFirst
        <4>2. Cardinality({ph}) = 1
          BY FS_Singleton
        <4> QED  BY <4>1, <4>2
      <3> QED  BY <3>1, <3>2
    <2> QED  BY <2>1, <2>2 DEF PhotosBounded
  <1> QED  BY <1>1, PetInvariant, PTL

-----------------------------------------------------------------------------
(* The paintings of a customer.                                            *)

\* Which handler is at which of its steps.
PbnSteps ==
    [save |-> {"count", "upload", "insert"}, attach |-> {"count", "upload", "insert", "link"},
     replace |-> {"upload", "overwrite", "discard"}, delete |-> {"discard", "erase"},
     order |-> {"link", "mark"}]

\* The artifacts that a handler stored and has not written to a row yet.
Storage(j) == j # Idle /\ j.at \in {"upload", "insert", "overwrite"}
Held(j) == IF Storage(j) THEN {j.svgKey, j.previewKey} \ {NoFile} ELSE {}
Replacing(j) == j # Idle /\ j.op = "replace" /\ j.at \in {"upload", "overwrite"}
Deleting(j) == j # Idle /\ j.op = "delete"
Dropped(j) == IF j = Idle THEN {} ELSE j.drop

PbnJobOK(j) ==
    /\ j.at \in PbnSteps[j.op]
    /\ j.op \in {"replace", "delete", "order"} \/ j.at = "link" => j.id \in 1..ids
    /\ j.role = IF j.op = "attach" THEN "admin" ELSE "customer"
    /\ j.at = "count" => j.svgKey = NoFile /\ j.previewKey = NoFile
    /\ j.at \in {"insert", "overwrite"} =>
          j.svgKey # NoFile /\ (j.preview => j.previewKey # NoFile)
    /\ j.at \in {"upload", "insert", "overwrite"} =>
          (~j.preview => j.previewKey = NoFile) /\ (j.svgKey = NoFile => j.previewKey = NoFile)
    /\ j.op = "replace" => j.seen \in Painting /\ j.seen.status = "saved"
    /\ j.at # "discard" => j.drop = {}

PaintingTypeOK ==
    /\ paintings \in [PaintingId -> Painting \cup {NoPainting}]
    /\ linked \subseteq PaintingId /\ spoilt \subseteq PaintingId
    /\ artifacts \subseteq 1..files
    /\ ids \in 0..MaxPaintings /\ files \in 0..MaxArtifacts
    /\ orderly \in BOOLEAN
    /\ job \in [Proc -> PbnJob \cup {Idle}]
    /\ \A p \in Proc : job[p] # Idle => PbnJobOK(job[p])

\* What is stored is of one row, or of one handler until it is.
ArtifactsApart ==
    /\ \A i \in Live : /\ i <= ids /\ Keys(paintings[i]) \subseteq 1..files
                       /\ paintings[i].svg # paintings[i].preview
                       /\ \A k \in Live : i # k => Keys(paintings[i]) \cap Keys(paintings[k]) = {}
    /\ \A p \in Proc :
        /\ Held(job[p]) \subseteq artifacts
        /\ Storage(job[p]) /\ job[p].svgKey # NoFile => job[p].svgKey # job[p].previewKey
        /\ \A i \in Live : Held(job[p]) \cap Keys(paintings[i]) = {}
        /\ \A q \in Proc : p # q => Held(job[p]) \cap Held(job[q]) = {}

\* What a replacement read of its painting is of no other.
SeenOK(j) ==
    /\ j.seen.svg # j.seen.preview
    /\ Keys(j.seen) \subseteq 1..files
    /\ \A q \in Proc : Held(job[q]) \cap Keys(j.seen) = {}
    /\ \A i \in Live : IF i = j.id THEN /\ paintings[i].preview # j.seen.svg
                                        /\ paintings[i].svg # j.seen.preview
                       ELSE Keys(paintings[i]) \cap Keys(j.seen) = {}
SeenApart == \A p \in Proc : Replacing(job[p]) => SeenOK(job[p])

\* What is being discarded is of no row, but for one that is being deleted.
DropOK(j) ==
    /\ Dropped(j) \subseteq 1..files
    /\ \A q \in Proc : Held(job[q]) \cap Dropped(j) = {}
    /\ \A i \in Live : \/ Deleting(j) /\ i = j.id
                       \/ Keys(paintings[i]) \cap Dropped(j) = {}
DropsApart == \A p \in Proc : DropOK(job[p])

\* The paintings that count, and those that will.
Saved == {i \in Live : paintings[i].status = "saved" /\ paintings[i].origin = "customer"}
Savers == {p \in Proc : job[p] # Idle /\ job[p].op = "save" /\ job[p].at \in {"upload", "insert"}}
SavedWithinReach == Cardinality(Saved) + Cardinality(Savers) <= MaxPbnPerUser + Cardinality(Proc) - 1

\* What is stored while handlers come one by one and do not fail.
UsedBut(i) == {k \in Artifact : \E m \in Live \ {i} : k \in Keys(paintings[m])}
Expected(j) ==
    CASE j = Idle -> UsedBut(0)
      [] Deleting(j) -> UsedBut(j.id) \cup j.drop
      [] j # Idle /\ ~Deleting(j) -> UsedBut(0) \cup Held(j) \cup j.drop
OneByOne ==
    orderly =>
        /\ \A p, q \in Proc : job[p] # Idle /\ job[q] # Idle => p = q
        /\ \A p \in Proc : job[p] # Idle \/ AllIdle => artifacts = Expected(job[p])
        /\ \A p \in Proc : Replacing(job[p]) => paintings[job[p].id] = job[p].seen

PbnInv ==
    /\ PaintingTypeOK /\ ArtifactsApart /\ SeenApart /\ DropsApart
    /\ ArtifactsAreThere /\ SavedWithinReach /\ OneByOne

LEMMA PaintingNumbers ==
    /\ MaxPaintings \in Nat /\ MaxArtifacts \in Nat /\ MaxPbnPerUser \in Nat /\ MaxPbnPerUser # 0
    /\ 1 \in PaintingId /\ 1 \in Artifact /\ 2 \in Artifact
    /\ 0 \notin PaintingId /\ PaintingId \subseteq Nat /\ 0 \notin Artifact /\ Artifact \subseteq Nat
    /\ Cardinality(Proc) \in Nat /\ Cardinality(Proc) # 0
  BY PaintingConstants, SomeProcesses, FS_CardinalityType, FS_EmptySet DEF PaintingId, Artifact

LEMMA SaversAreFew ==
    /\ IsFiniteSet(Savers) /\ Cardinality(Savers) \in Nat /\ Cardinality(Savers) <= Cardinality(Proc)
    /\ IsFiniteSet(Saved) /\ Cardinality(Saved) \in Nat
  <1>1. Savers \subseteq Proc /\ Saved \subseteq 1..MaxPaintings
    BY DEF Savers, Saved, Live, PaintingId
  <1>2. IsFiniteSet(1..MaxPaintings)
    BY PaintingNumbers, FS_Interval
  <1> QED  BY <1>1, <1>2, SomeProcesses, NoMore

\* A handler that starts or goes on, and leaves the rows and the files alone.
LEMMA PbnQuiet ==
    ASSUME PbnInv, NEW p \in Proc, NEW j \in PbnJob \cup {Idle},
           job' = [job EXCEPT ![p] = j],
           UNCHANGED <<paintings, ids, artifacts, files>>, linked' \subseteq PaintingId,
           spoilt \subseteq spoilt', spoilt' \subseteq PaintingId,
           j # Idle => PbnJobOK(j),
           Held(j) \subseteq Held(job[p]),
           Storage(j) /\ j.svgKey # NoFile => j.svgKey # j.previewKey,
           Replacing(j) => SeenOK(j), DropOK(j),
           Deleting(job[p]) => (Deleting(j) /\ j.id = job[p].id) \/ job[p].id \in spoilt',
           p \in Savers' => p \in Savers \/ Cardinality(Saved) < MaxPbnPerUser,
           orderly' \in BOOLEAN, orderly' => orderly,
           orderly' /\ job[p] = Idle => AllIdle,
           orderly' => artifacts = Expected(j),
           orderly' /\ Replacing(j) => paintings[j.id] = j.seen
    PROVE  PbnInv'
  <1>1. PaintingTypeOK /\ job'[p] = j /\ \A q \in Proc \ {p} : job'[q] = job[q]
    BY DEF PbnInv, PaintingTypeOK
  <1>2. PaintingTypeOK'
    BY <1>1 DEF PaintingTypeOK, PbnJobOK
  <1>3. Live' = Live /\ Saved' = Saved
    BY DEF Live, Saved
  <1>4. \A q \in Proc : Held(job'[q]) \subseteq Held(job[q])
    BY <1>1
  <1>5. ArtifactsApart'
    BY <1>1, <1>3, <1>4 DEF PbnInv, ArtifactsApart
  <1>6. \A q \in Proc : Replacing(job'[q]) => SeenOK(job'[q])
    BY <1>1 DEF PbnInv, SeenApart
  <1>7. SeenApart'
    BY <1>3, <1>4, <1>6 DEF SeenApart, SeenOK
  <1>8. \A q \in Proc : DropOK(job'[q])
    BY <1>1 DEF PbnInv, DropsApart
  <1>9. DropsApart'
    BY <1>3, <1>4, <1>8 DEF DropsApart, DropOK
  <1>10. ArtifactsAreThere'
    <2> SUFFICES ASSUME NEW i \in Live \ spoilt', ~(Keys(paintings[i]) \subseteq artifacts)
                 PROVE  \E q \in Proc : job'[q] # Idle /\ job'[q].op = "delete" /\ job'[q].id = i
      BY <1>3 DEF ArtifactsAreThere, Keys
    <2>1. PICK q \in Proc : job[q] # Idle /\ job[q].op = "delete" /\ job[q].id = i
      BY DEF PbnInv, ArtifactsAreThere
    <2> QED  BY <1>1, <2>1 DEF Deleting
  <1>11. SavedWithinReach'
    <2>1. Savers' \subseteq Proc
      BY DEF Savers
    <2>2. CASE p \in Savers' => p \in Savers
      <3>1. Savers' \subseteq Savers
        BY <1>1, <2>2 DEF Savers
      <3> QED  BY <1>3, <3>1, SaversAreFew, PaintingNumbers, NoMore DEF PbnInv, SavedWithinReach
    <2>3. CASE Cardinality(Saved) < MaxPbnPerUser
      BY <1>3, <2>1, <2>3, SaversAreFew, PaintingNumbers, SomeProcesses, NoMore DEF SavedWithinReach
    <2> QED  BY <2>2, <2>3
  <1>12. OneByOne'
    <2> SUFFICES ASSUME orderly' PROVE OneByOne'
      BY DEF OneByOne
    <2>1. \A q \in Proc \ {p} : job[q] = Idle
      BY DEF PbnInv, OneByOne, AllIdle
    <2>2. \A i : UsedBut(i)' = UsedBut(i)
      BY <1>3 DEF UsedBut
    <2>3. \A x : Expected(x)' = Expected(x)
      BY <2>2 DEF Expected, Deleting, Held, Storage
    <2>4. Expected(Idle) = Expected(j) \/ j # Idle
      OBVIOUS
    <2>5. \A q \in Proc : job'[q] # Idle \/ AllIdle' => artifacts = Expected(job'[q])
      BY <1>1, <2>1 DEF AllIdle
    <2> QED  BY <1>1, <2>1, <2>3, <2>5 DEF OneByOne, Replacing
  <1> QED  BY <1>2, <1>5, <1>7, <1>9, <1>10, <1>11, <1>12 DEF PbnInv

\* What a handler starts with.
Begins(j, op, at, i) ==
    /\ j \in PbnJob /\ j # Idle /\ PbnJobOK(j) /\ ~Deleting(j)
    /\ j.op = op /\ j.at = at /\ j.id = i /\ j.drop = {}
    /\ j.svgKey = NoFile /\ j.previewKey = NoFile /\ Held(j) = {} /\ Dropped(j) = {}
    /\ op = "replace" => j.seen = paintings[i]

LEMMA PbnStartIsSound ==
    ASSUME PbnInv, NEW op, NEW at, NEW i \in 0..ids,
           \/ op = "save" /\ at = "count"
           \/ op = "order" /\ at = "link" /\ i \in Live
           \/ op = "replace" /\ at = "upload" /\ i \in Live /\ paintings[i].status = "saved",
           NEW preview \in BOOLEAN
    PROVE  \E j : j = [PbnStart(op, at, i) EXCEPT !.preview = preview] /\ Begins(j, op, at, i)
  <1>0. PICK j : j = [PbnStart(op, at, i) EXCEPT !.preview = preview]
    OBVIOUS
  <1>1. PaintingTypeOK /\ \A k \in Live : k \in PaintingId /\ k \in 1..ids
    BY PaintingNumbers DEF PbnInv, PaintingTypeOK, ArtifactsApart, Live, PaintingId
  <1>2. i \in PaintingId \cup {0} /\ (op = "replace" => i # 0)
    BY <1>1, PaintingNumbers DEF PaintingTypeOK, PaintingId
  <1>3. (IF i = 0 THEN NoPainting ELSE paintings[i]) \in Painting \cup {NoPainting}
    BY <1>1, <1>2 DEF PaintingTypeOK
  <1>4. op = "replace" => paintings[i] \in Painting
    BY <1>1 DEF PaintingTypeOK, Live
  <1>5. at \in {"count", "upload", "link"} /\ op \in {"save", "order", "replace"}
    OBVIOUS
  <1>6. /\ j \in PbnJob /\ j # Idle
        /\ j.op = op /\ j.at = at /\ j.id = i /\ j.drop = {} /\ j.role = "customer"
        /\ j.svgKey = NoFile /\ j.previewKey = NoFile
        /\ j.seen = IF i = 0 THEN NoPainting ELSE paintings[i]
    BY <1>0, <1>2, <1>3, <1>5 DEF PbnStart, PbnJob, Idle
  <1>7. PbnJobOK(j)
    BY <1>1, <1>2, <1>4, <1>5, <1>6 DEF PbnJobOK, PbnSteps
  <1>8. Begins(j, op, at, i)
    BY <1>2, <1>6, <1>7 DEF Begins, Held, Storage, Dropped, Deleting
  <1> QED  BY <1>0, <1>8

\* Nobody else is at work, if the handlers come one by one.
LEMMA AloneThen ==
    ASSUME PbnInv, NEW p \in Proc, NEW j, TakeUp(p, j)
    PROVE  /\ job[p] = Idle /\ job' = [job EXCEPT ![p] = j]
           /\ orderly' \in BOOLEAN /\ (orderly' => orderly /\ AllIdle /\ artifacts = UsedBut(0))
           /\ Held(job[p]) = {} /\ ~Deleting(job[p])
  BY DEF TakeUp, Dispatch, PbnInv, PaintingTypeOK, OneByOne, Expected, Held, Storage, Deleting

LEMMA PbnStartsKeepInv ==
    ASSUME PbnInv, NEW p \in Proc, NEW preview \in BOOLEAN,
           \/ Create(p, preview) \/ AttachPbnToItem(p, preview)
           \/ \E i \in PaintingId : ReplaceArtifacts(p, i, preview) \/ OrderPainting(p, i)
    PROVE  PbnInv'
  <1>1. /\ PaintingTypeOK /\ \A k \in Live : k \in 1..ids /\ k # 0 /\ k \in 0..ids
        /\ 0 \in 0..ids /\ ids \in Nat
    <2>1. PaintingTypeOK /\ \A k \in Live : k \in PaintingId /\ k <= ids
      BY DEF PbnInv, ArtifactsApart, Live
    <2>2. ids \in Nat
      BY <2>1, PaintingNumbers DEF PaintingTypeOK
    <2> QED  BY <2>1, <2>2 DEF PaintingId
  <1>2. ASSUME NEW j, TakeUp(p, j), UNCHANGED <<Rows, Files>>,
               j \in PbnJob, j # Idle, PbnJobOK(j), ~Deleting(j), Held(j) = {}, j.drop = {},
               j.svgKey = NoFile, j.at \notin {"insert"}, j.op = "save" => j.at = "count",
               Replacing(j) => j.id \in Live /\ j.seen = paintings[j.id]
        PROVE  PbnInv'
    <2>1. DropOK(j) /\ Dropped(j) = {}
      BY <1>2 DEF DropOK, Dropped
    <2>2. Replacing(j) => SeenOK(j)
      <3> SUFFICES ASSUME Replacing(j) PROVE SeenOK(j)
        OBVIOUS
      <3>1. j.id \in Live /\ j.seen = paintings[j.id]
        BY <1>2
      <3>2. \A q \in Proc : Held(job[q]) \cap Keys(j.seen) = {}
        BY <3>1 DEF PbnInv, ArtifactsApart
      <3>3. \A i \in Live \ {j.id} : Keys(paintings[i]) \cap Keys(j.seen) = {}
        BY <3>1 DEF PbnInv, ArtifactsApart
      <3> QED  BY <3>1, <3>2, <3>3 DEF PbnInv, ArtifactsApart, SeenOK
    <2>3. p \notin Savers'
      BY <1>1, <1>2, AloneThen DEF Savers, PaintingTypeOK
    <2>4. Expected(j) = UsedBut(0)
      BY <1>2 DEF Expected
    <2> QED  BY <1>1, <1>2, <2>1, <2>2, <2>3, <2>4, AloneThen, PbnQuiet
                DEF Rows, Files, PaintingTypeOK, PbnInv
  <1>3. ASSUME Create(p, preview) PROVE PbnInv'
    <2>1. PICK j : /\ j = [PbnStart("save", "count", 0) EXCEPT !.preview = preview]
                   /\ Begins(j, "save", "count", 0)
      BY <1>1, PbnStartIsSound
    <2>2. /\ j \in PbnJob /\ j # Idle /\ PbnJobOK(j) /\ ~Deleting(j)
          /\ j.op = "save" /\ j.at = "count" /\ j.drop = {} /\ j.svgKey = NoFile /\ Held(j) = {}
      BY <2>1 DEF Begins
    <2> QED  BY <1>2, <1>3, <2>1, <2>2 DEF Create, Replacing
  <1>4. ASSUME AttachPbnToItem(p, preview) PROVE PbnInv'
    <2>1. PICK j : j = [PbnStart("attach", "count", 0) EXCEPT !.role = "admin", !.preview = preview]
      OBVIOUS
    <2>2. /\ j \in PbnJob /\ j # Idle /\ j.role = "admin" /\ j.previewKey = NoFile
          /\ j.op = "attach" /\ j.at = "count" /\ j.drop = {} /\ j.svgKey = NoFile
      BY <1>1, <2>1 DEF PbnStart, PbnJob, Idle
    <2>3. PbnJobOK(j) /\ ~Deleting(j) /\ Held(j) = {}
      BY <2>2 DEF PbnJobOK, PbnSteps, Deleting, Held, Storage
    <2> QED  BY <1>2, <1>4, <2>1, <2>2, <2>3 DEF AttachPbnToItem, Replacing
  <1>5. ASSUME NEW i \in PaintingId, ReplaceArtifacts(p, i, preview) PROVE PbnInv'
    <2>1. i \in Live /\ paintings[i] \in Painting
      BY <1>1, <1>5 DEF ReplaceArtifacts, Live, PaintingTypeOK
    <2>2. CASE paintings[i].status = "ordered"
      <3>1. PICK j : /\ j = [PbnStart("save", "count", 0) EXCEPT !.preview = preview]
                     /\ Begins(j, "save", "count", 0)
        BY <1>1, PbnStartIsSound
      <3>2. /\ j \in PbnJob /\ j # Idle /\ PbnJobOK(j) /\ ~Deleting(j)
            /\ j.op = "save" /\ j.at = "count" /\ j.drop = {} /\ j.svgKey = NoFile /\ Held(j) = {}
        BY <3>1 DEF Begins
      <3> QED  BY <1>2, <1>5, <2>2, <3>1, <3>2 DEF ReplaceArtifacts, Replacement, Replacing
    <2>3. CASE paintings[i].status # "ordered"
      <3>1. paintings[i].status = "saved"
        BY <2>1, <2>3 DEF Painting
      <3>2. PICK j : /\ j = [PbnStart("replace", "upload", i) EXCEPT !.preview = preview]
                     /\ Begins(j, "replace", "upload", i)
        BY <1>1, <2>1, <3>1, PbnStartIsSound
      <3>3. /\ j \in PbnJob /\ j # Idle /\ PbnJobOK(j) /\ ~Deleting(j)
            /\ j.op = "replace" /\ j.at = "upload" /\ j.drop = {} /\ j.svgKey = NoFile /\ Held(j) = {}
            /\ j.id = i /\ j.seen = paintings[i]
        BY <3>2 DEF Begins
      <3> QED  BY <1>2, <1>5, <2>1, <2>3, <3>2, <3>3 DEF ReplaceArtifacts, Replacement
    <2> QED  BY <2>2, <2>3
  <1>6. ASSUME NEW i \in PaintingId, OrderPainting(p, i) PROVE PbnInv'
    <2>1. i \in Live
      BY <1>6 DEF OrderPainting
    <2>2. PICK j : /\ j = [PbnStart("order", "link", i) EXCEPT !.preview = FALSE]
                   /\ Begins(j, "order", "link", i)
      BY <1>1, <2>1, PbnStartIsSound
    <2>3. j = PbnStart("order", "link", i)
      BY <2>2 DEF PbnStart
    <2>4. /\ j \in PbnJob /\ j # Idle /\ PbnJobOK(j) /\ ~Deleting(j)
          /\ j.op = "order" /\ j.at = "link" /\ j.drop = {} /\ j.svgKey = NoFile /\ Held(j) = {}
      BY <2>2 DEF Begins
    <2> QED  BY <1>2, <1>6, <2>3, <2>4 DEF OrderPainting, Replacing
  <1> QED  BY <1>3, <1>4, <1>5, <1>6

LEMMA PbnDeletionKeepsInv ==
    ASSUME PbnInv, NEW p \in Proc, NEW i \in PaintingId, DeletePainting(p, i)
    PROVE  PbnInv'
  <1>1. PICK j : j = [PbnStart("delete", "discard", i) EXCEPT !.drop = Keys(paintings[i])]
    OBVIOUS
  <1>2. /\ PaintingTypeOK /\ i \in Live /\ TakeUp(p, j) /\ i \in 1..ids /\ i # 0
        /\ UNCHANGED <<paintings, linked, ids, spoilt, artifacts, files>>
        /\ paintings[i] \in Painting
    BY <1>1, PaintingNumbers
       DEF DeletePainting, PbnInv, PaintingTypeOK, ArtifactsApart, Live, Rows, Files
  <1>3. Keys(paintings[i]) \subseteq Artifact
    BY <1>2 DEF Keys, Painting
  <1>4. /\ j \in PbnJob /\ j # Idle /\ j.op = "delete" /\ j.at = "discard" /\ j.id = i
        /\ j.role = "customer" /\ j.drop = Keys(paintings[i])
    BY <1>1, <1>2, <1>3 DEF PbnStart, PbnJob, Idle
  <1>5. PbnJobOK(j)
    BY <1>2, <1>4 DEF PbnJobOK, PbnSteps
  <1>6. Held(j) = {} /\ ~Storage(j) /\ ~Replacing(j) /\ Deleting(j) /\ Dropped(j) = Keys(paintings[i])
    BY <1>4 DEF Held, Storage, Replacing, Deleting, Dropped
  <1>7. DropOK(j)
    BY <1>2, <1>4, <1>6 DEF DropOK, PbnInv, ArtifactsApart
  <1>8. Expected(j) = UsedBut(0)
    <2>1. Expected(j) = UsedBut(i) \cup Keys(paintings[i])
      BY <1>4, <1>6 DEF Expected
    <2>2. \A m : m \in Live \ {0} <=> m \in Live \ {i} \/ m = i
      BY <1>2, PaintingNumbers DEF Live
    <2>3. UsedBut(i) \cup Keys(paintings[i]) = UsedBut(0)
      BY <1>3, <2>2 DEF UsedBut
    <2> QED  BY <2>1, <2>3
  <1>9. p \notin Savers'
    BY <1>2, <1>4, AloneThen DEF Savers, PaintingTypeOK
  <1> QED  BY <1>2, <1>4, <1>5, <1>6, <1>7, <1>8, <1>9, AloneThen, PbnQuiet DEF PaintingTypeOK

\* A handler that goes on is one that was taken up, and it is as it was left.
LEMMA PbnAtWork ==
    ASSUME PbnInv, NEW p \in Proc, job[p].at # "idle"
    PROVE  /\ PaintingTypeOK /\ job[p] # Idle /\ job[p] \in PbnJob /\ PbnJobOK(job[p])
           /\ Dropped(job[p]) = job[p].drop /\ job[p].op \in {"save", "attach", "replace", "delete", "order"}
           /\ (orderly => artifacts = Expected(job[p]))
           /\ (orderly => \A q \in Proc \ {p} : job[q] = Idle)
  BY DEF PbnInv, PaintingTypeOK, OneByOne, Dropped, PbnJob, Idle

LEMMA AssertCanSaveKeepsInv ==
    ASSUME PbnInv, NEW p \in Proc, AssertCanSave(p)
    PROVE  PbnInv'
  <1>1. PICK j : j = IF MaySave(job[p].role) THEN [job[p] EXCEPT !.at = "upload"] ELSE Idle
    OBVIOUS
  <1>2. /\ job[p].at = "count" /\ job' = [job EXCEPT ![p] = j]
        /\ UNCHANGED <<orderly, paintings, linked, ids, spoilt, artifacts, files>>
    BY <1>1 DEF AssertCanSave, Step, Become, Rows, Files
  <1>3. /\ PaintingTypeOK /\ job[p] # Idle /\ job[p] \in PbnJob /\ PbnJobOK(job[p])
        /\ (orderly => artifacts = Expected(job[p]))
    BY <1>2, PbnAtWork
  <1>4. /\ job[p].op \in {"save", "attach"} /\ job[p].svgKey = NoFile /\ job[p].previewKey = NoFile
        /\ job[p].drop = {} /\ job[p].role = IF job[p].op = "attach" THEN "admin" ELSE "customer"
    BY <1>2, <1>3 DEF PbnJobOK, PbnSteps, PbnJob
  <1>5. /\ j \in PbnJob \cup {Idle}
        /\ j # Idle => /\ j.op = job[p].op /\ j.at = "upload" /\ j.id = job[p].id /\ j.role = job[p].role
                       /\ j.svgKey = NoFile /\ j.previewKey = NoFile /\ j.drop = {}
                       /\ MaySave(job[p].role)
    BY <1>1, <1>3, <1>4 DEF PbnJob, Idle
  <1>6. j # Idle => PbnJobOK(j)
    BY <1>3, <1>4, <1>5 DEF PbnJobOK, PbnSteps
  <1>7. Held(j) = {} /\ (Storage(j) => j.svgKey = NoFile) /\ ~Replacing(j) /\ Dropped(j) = {}
        /\ ~Deleting(job[p]) /\ ~Deleting(j) /\ Held(job[p]) = {}
    BY <1>4, <1>5 DEF Held, Storage, Replacing, Dropped, Deleting
  <1>8. DropOK(j)
    BY <1>7 DEF DropOK
  <1>9. Expected(j) = UsedBut(0) /\ Expected(job[p]) = UsedBut(0)
    BY <1>3, <1>4, <1>5, <1>7 DEF Expected
  <1>10. ASSUME p \in Savers' PROVE Cardinality(Saved) < MaxPbnPerUser
    <2>1. j # Idle /\ j.op = "save"
      BY <1>2, <1>3, <1>10 DEF Savers, PaintingTypeOK
    <2>2. MaySave("customer")
      BY <1>4, <1>5, <2>1
    <2>3. Saved \subseteq {i \in Live : paintings[i].status # "ordered"}
      BY DEF Saved
    <2>4. IsFiniteSet({i \in Live : paintings[i].status # "ordered"})
      <3>1. {i \in Live : paintings[i].status # "ordered"} \subseteq 1..MaxPaintings
        BY DEF Live, PaintingId
      <3>2. IsFiniteSet(1..MaxPaintings)
        BY PaintingNumbers, FS_Interval
      <3> QED  BY <3>1, <3>2, NoMore
    <2> QED  BY <2>2, <2>3, <2>4, NoMore, PaintingNumbers DEF MaySave
  <1> QED  BY <1>2, <1>3, <1>5, <1>6, <1>7, <1>8, <1>9, <1>10, PbnQuiet DEF PaintingTypeOK

\* One more artifact is stored, under a key that nothing has.
LEMMA PbnStoreKeepsInv ==
    ASSUME PbnInv, NEW p \in Proc, NEW j,
           job[p].at = "upload", job' = [job EXCEPT ![p] = j],
           UNCHANGED <<orderly, paintings, linked, ids, spoilt>>,
           files < MaxArtifacts, files' = files + 1, artifacts' = artifacts \cup {files'},
           \/ /\ job[p].svgKey = NoFile
              /\ j = [job[p] EXCEPT !.svgKey = files']
           \/ /\ job[p].svgKey # NoFile /\ job[p].preview /\ job[p].previewKey = NoFile
              /\ j = [job[p] EXCEPT !.previewKey = files']
    PROVE  PbnInv'
  <1>1. /\ PaintingTypeOK /\ job[p] # Idle /\ job[p] \in PbnJob /\ PbnJobOK(job[p])
        /\ (orderly => artifacts = Expected(job[p]))
        /\ (orderly => \A q \in Proc \ {p} : job[q] = Idle)
    BY PbnAtWork
  <1>2. /\ files' \in Artifact /\ files' # 0 /\ files' \notin 1..files
        /\ 1..files \subseteq 1..files' /\ files' \in 1..files'
    BY <1>1, PaintingNumbers DEF PaintingTypeOK, Artifact
  <1>3. /\ j \in PbnJob /\ j # Idle /\ j.at = "upload" /\ j.op = job[p].op /\ j.id = job[p].id
        /\ j.seen = job[p].seen /\ j.drop = job[p].drop /\ j.role = job[p].role
        /\ j.preview = job[p].preview
    BY <1>1, <1>2 DEF PbnJob, Idle
  <1>4. /\ job[p].op \in {"save", "attach", "replace"} /\ job[p].drop = {}
        /\ (job[p].svgKey = NoFile => job[p].previewKey = NoFile)
        /\ (~job[p].preview => job[p].previewKey = NoFile)
    BY <1>1 DEF PbnJobOK, PbnSteps, PbnJob
  <1>5. \/ job[p].svgKey = NoFile /\ j.svgKey = files' /\ j.previewKey = NoFile
        \/ job[p].svgKey # NoFile /\ j.svgKey = job[p].svgKey /\ j.previewKey = files' /\ j.preview
           /\ job[p].previewKey = NoFile
    BY <1>1, <1>4 DEF PbnJob
  <1>6. PbnJobOK(j)
    BY <1>1, <1>2, <1>3, <1>4, <1>5 DEF PbnJobOK, PbnSteps, NoFile
  <1>7. Storage(j) /\ Storage(job[p]) /\ Held(j) = Held(job[p]) \cup {files'}
    BY <1>1, <1>2, <1>3, <1>4, <1>5 DEF Held, Storage, NoFile
  <1>8. job'[p] = j /\ (\A q \in Proc \ {p} : job'[q] = job[q]) /\ Live' = Live
    BY <1>1 DEF PaintingTypeOK, Live
  <1>9. PaintingTypeOK'
    BY <1>1, <1>2, <1>3, <1>6, <1>8, PaintingNumbers DEF PaintingTypeOK, PbnJobOK
  <1>10. \A q \in Proc : Held(job[q]) \subseteq artifacts /\ Held(job[q]) \subseteq 1..files
    BY <1>1 DEF PbnInv, ArtifactsApart, PaintingTypeOK
  <1>11. \A i \in Live : Keys(paintings[i]) \subseteq 1..files
    BY DEF PbnInv, ArtifactsApart
  <1>12. ArtifactsApart'
    <2>1. ASSUME NEW q \in Proc PROVE Held(job'[q]) \subseteq artifacts'
      BY <1>7, <1>8, <1>10
    <2>2. ASSUME NEW q \in Proc, NEW i \in Live PROVE Held(job'[q]) \cap Keys(paintings[i]) = {}
      BY <1>2, <1>7, <1>8, <1>11 DEF PbnInv, ArtifactsApart
    <2>3. ASSUME NEW q \in Proc, NEW r \in Proc, q # r PROVE Held(job'[q]) \cap Held(job'[r]) = {}
      BY <1>2, <1>7, <1>8, <1>10, <2>3 DEF PbnInv, ArtifactsApart
    <2>4. \A q \in Proc : Storage(job'[q]) /\ job'[q].svgKey # NoFile => job'[q].svgKey # job'[q].previewKey
      <3>1. j.svgKey # j.previewKey
        <4>1. CASE j.previewKey = NoFile
          BY <1>2, <1>5, <4>1 DEF NoFile
        <4>2. CASE j.previewKey # NoFile
          <5>1. j.svgKey = job[p].svgKey /\ j.previewKey = files' /\ job[p].svgKey # NoFile
            BY <1>5, <4>2
          <5>2. job[p].svgKey \in Held(job[p])
            BY <1>7, <5>1 DEF Held
          <5> QED  BY <1>2, <1>10, <5>1, <5>2
        <4> QED  BY <4>1, <4>2
      <3> QED  BY <1>8, <3>1 DEF PbnInv, ArtifactsApart
    <2>5. \A i \in Live : Keys(paintings[i]) \subseteq 1..files'
      BY <1>2, <1>11
    <2>6. \A i \in Live : /\ i <= ids /\ paintings[i].svg # paintings[i].preview
                          /\ \A k \in Live : i # k => Keys(paintings[i]) \cap Keys(paintings[k]) = {}
      BY DEF PbnInv, ArtifactsApart
    <2>7. \A i \in Live' : /\ i <= ids' /\ Keys(paintings'[i]) \subseteq 1..files'
                           /\ paintings'[i].svg # paintings'[i].preview
      BY <1>8, <2>5, <2>6
    <2>8. \A i \in Live', k \in Live' : i # k => Keys(paintings'[i]) \cap Keys(paintings'[k]) = {}
      BY <1>8, <2>6
    <2>9. \A q \in Proc, i \in Live' : Held(job'[q]) \cap Keys(paintings'[i]) = {}
      BY <1>8, <2>2
    <2>10. \A q \in Proc, r \in Proc : q # r => Held(job'[q]) \cap Held(job'[r]) = {}
      BY <2>3
    <2>11. \A q \in Proc : Held(job'[q]) \subseteq artifacts'
      BY <2>1
    <2> QED  BY <2>4, <2>7, <2>8, <2>9, <2>10, <2>11 DEF ArtifactsApart
  <1>13. SeenApart'
    <2> SUFFICES ASSUME NEW q \in Proc, Replacing(job'[q]) PROVE SeenOK(job[q])'
      BY DEF SeenApart
    <2>1. Replacing(job[q]) /\ job'[q].seen = job[q].seen /\ job'[q].id = job[q].id
      BY <1>1, <1>3, <1>8, PbnAtWork DEF Replacing
    <2>2. SeenOK(job[q])
      BY <2>1 DEF PbnInv, SeenApart
    <2>3. Keys(job'[q].seen) \subseteq 1..files
      BY <2>1, <2>2 DEF SeenOK
    <2>4. \A r \in Proc : Held(job'[r]) \cap Keys(job'[q].seen) = {}
      BY <1>2, <1>7, <1>8, <2>1, <2>2, <2>3 DEF SeenOK
    <2> QED  BY <1>2, <1>8, <2>1, <2>2, <2>3, <2>4 DEF SeenOK
  <1>14. DropsApart'
    <2> SUFFICES ASSUME NEW q \in Proc PROVE DropOK(job[q])'
      BY DEF DropsApart
    <2>1. DropOK(job[q]) /\ Dropped(job'[q]) = Dropped(job[q]) /\ Dropped(job[q]) \subseteq 1..files
      BY <1>1, <1>3, <1>8 DEF PbnInv, DropsApart, Dropped, DropOK
    <2>2. \A r \in Proc : Held(job'[r]) \cap Dropped(job'[q]) = {}
      BY <1>2, <1>7, <1>8, <2>1 DEF DropOK
    <2>3. Dropped(job'[q]) \subseteq 1..files'
      BY <1>2, <2>1
    <2>4. Deleting(job'[q]) <=> Deleting(job[q])
      BY <1>1, <1>3, <1>8 DEF Deleting
    <2>5. Deleting(job[q]) => job'[q].id = job[q].id
      BY <1>3, <1>8
    <2> QED  BY <1>8, <2>1, <2>2, <2>3, <2>4, <2>5 DEF DropOK
  <1>15. ArtifactsAreThere'
    <2> SUFFICES ASSUME NEW i \in Live \ spoilt, ~(Keys(paintings[i]) \subseteq artifacts')
                 PROVE  \E q \in Proc : job'[q] # Idle /\ job'[q].op = "delete" /\ job'[q].id = i
      BY <1>8 DEF ArtifactsAreThere, Keys
    <2>1. PICK q \in Proc : job[q] # Idle /\ job[q].op = "delete" /\ job[q].id = i
      BY DEF PbnInv, ArtifactsAreThere
    <2> QED  BY <1>3, <1>8, <2>1
  <1>16. SavedWithinReach'
    <2>1. Savers' = Savers /\ Saved' = Saved
      BY <1>1, <1>3, <1>8 DEF Savers, Saved
    <2> QED  BY <2>1 DEF PbnInv, SavedWithinReach
  <1>17. OneByOne'
    <2> SUFFICES ASSUME orderly PROVE OneByOne'
      BY DEF OneByOne
    <2>1. \A q \in Proc \ {p} : job'[q] = Idle
      BY <1>1, <1>8
    <2>2. \A i : UsedBut(i)' = UsedBut(i)
      BY <1>8 DEF UsedBut
    <2>3. \A x : Expected(x)' = Expected(x)
      BY <2>2 DEF Expected, Deleting, Held, Storage
    <2>4. ~Deleting(j) /\ ~Deleting(job[p])
      BY <1>3, <1>4 DEF Deleting
    <2>5. Expected(j) = UsedBut(0) \cup Held(j) \cup j.drop
      BY <1>3, <2>4 DEF Expected
    <2>6. Expected(job[p]) = UsedBut(0) \cup Held(job[p]) \cup job[p].drop
      BY <1>1, <2>4 DEF Expected
    <2>7. artifacts' = Expected(j)
      BY <1>1, <1>3, <1>7, <2>5, <2>6
    <2>8. Replacing(j) => paintings[j.id] = j.seen
      BY <1>1, <1>3, PbnAtWork DEF PbnInv, OneByOne, Replacing
    <2>9. \A q \in Proc : job'[q] # Idle \/ AllIdle' => q = p
      BY <1>3, <1>8, <2>1 DEF AllIdle
    <2> QED  BY <1>8, <2>1, <2>3, <2>7, <2>8, <2>9 DEF OneByOne, Replacing
  <1> QED  BY <1>9, <1>12, <1>13, <1>14, <1>15, <1>16, <1>17 DEF PbnInv

LEMMA UploadArtifactKeepsInv ==
    ASSUME PbnInv, NEW p \in Proc, UploadArtifact(p)
    PROVE  PbnInv'
  <1>1. /\ job[p].at = "upload" /\ UNCHANGED <<orderly, paintings, linked, ids, spoilt>>
    BY DEF UploadArtifact, Step, Rows
  <1>2. /\ PaintingTypeOK /\ job[p] # Idle /\ job[p] \in PbnJob /\ PbnJobOK(job[p])
        /\ (orderly => artifacts = Expected(job[p]))
        /\ job[p].op \in {"save", "attach", "replace", "delete", "order"}
    BY <1>1, PbnAtWork
  <1>3. CASE job[p].svgKey # NoFile /\ ~(job[p].preview /\ job[p].previewKey = NoFile)
    <2>1. PICK j : j = [job[p] EXCEPT !.at = IF job[p].op = "replace" THEN "overwrite" ELSE "insert"]
      OBVIOUS
    <2>2. job' = [job EXCEPT ![p] = j] /\ UNCHANGED <<artifacts, files>>
      BY <1>3, <2>1 DEF UploadArtifact, Step, Become, Files
    <2>3. /\ j \in PbnJob /\ j # Idle /\ j.op = job[p].op /\ j.id = job[p].id /\ j.seen = job[p].seen
          /\ j.at = (IF job[p].op = "replace" THEN "overwrite" ELSE "insert")
          /\ j.svgKey = job[p].svgKey /\ j.previewKey = job[p].previewKey /\ j.drop = job[p].drop
          /\ j.role = job[p].role /\ j.preview = job[p].preview
      BY <1>2, <2>1 DEF PbnJob, Idle
    <2>4. job[p].op \in {"save", "attach", "replace"} /\ job[p].drop = {}
      BY <1>1, <1>2 DEF PbnJobOK, PbnSteps
    <2>5. PbnJobOK(j)
      BY <1>1, <1>2, <1>3, <2>3, <2>4 DEF PbnJobOK, PbnSteps
    <2>6. Storage(j) /\ Storage(job[p]) /\ Held(j) = Held(job[p]) /\ Dropped(j) = {} /\ ~Deleting(job[p])
          /\ ~Deleting(j)
      BY <1>1, <1>2, <2>3, <2>4 DEF Storage, Held, Dropped, Deleting
    <2>7. (Replacing(j) => Replacing(job[p])) /\ DropOK(j)
      BY <1>1, <1>2, <2>3, <2>4, <2>6 DEF Replacing, DropOK
    <2>8. Replacing(j) => SeenOK(j)
      BY <2>3, <2>7 DEF PbnInv, SeenApart, SeenOK
    <2>9. Expected(j) = Expected(job[p])
      BY <1>2, <2>3, <2>6 DEF Expected
    <2>10. orderly => (Replacing(j) => paintings[j.id] = j.seen)
      BY <2>3, <2>7 DEF PbnInv, OneByOne
    <2>11. p \in Savers' => p \in Savers
      BY <1>1, <1>2, <2>2, <2>3, <2>4 DEF Savers, PaintingTypeOK
    <2>12. Storage(j) /\ j.svgKey # NoFile => j.svgKey # j.previewKey
      BY <2>3, <2>6 DEF PbnInv, ArtifactsApart
    <2> QED  BY <1>1, <1>2, <2>2, <2>3, <2>5, <2>6, <2>7, <2>8, <2>9, <2>10, <2>11, <2>12, PbnQuiet
                DEF PaintingTypeOK
  <1>4. CASE job[p].svgKey = NoFile \/ (job[p].preview /\ job[p].previewKey = NoFile)
    <2>1. files < MaxArtifacts /\ files' = files + 1 /\ artifacts' = artifacts \cup {files'}
      BY <1>4 DEF UploadArtifact
    <2>2. CASE job[p].svgKey = NoFile
      <3>1. PICK j : j = [job[p] EXCEPT !.svgKey = files']
        OBVIOUS
      <3>2. job' = [job EXCEPT ![p] = j]
        BY <1>4, <2>2, <3>1 DEF UploadArtifact, Step, Become
      <3> QED  BY <1>1, <2>1, <2>2, <3>1, <3>2, PbnStoreKeepsInv
    <2>3. CASE job[p].svgKey # NoFile /\ job[p].preview /\ job[p].previewKey = NoFile
      <3>1. PICK j : j = [job[p] EXCEPT !.previewKey = files']
        OBVIOUS
      <3>2. job' = [job EXCEPT ![p] = j]
        BY <1>4, <2>3, <3>1 DEF UploadArtifact, Step, Become
      <3> QED  BY <1>1, <2>1, <2>3, <3>1, <3>2, PbnStoreKeepsInv
    <2> QED  BY <1>4, <2>2, <2>3
  <1> QED  BY <1>3, <1>4

LEMMA InsertPaintingKeepsInv ==
    ASSUME PbnInv, NEW p \in Proc, InsertPainting(p)
    PROVE  PbnInv'
  <1>1. PICK row : row = [status |-> "saved", origin |-> job[p].role,
                          svg |-> job[p].svgKey, preview |-> job[p].previewKey]
    OBVIOUS
  <1>2. PICK j : j = IF job[p].op = "attach"
                     THEN [job[p] EXCEPT !.at = "link", !.id = ids'] ELSE Idle
    OBVIOUS
  <1>3. /\ job[p].at = "insert" /\ ids < MaxPaintings /\ ids' = ids + 1
        /\ job' = [job EXCEPT ![p] = j] /\ paintings' = [paintings EXCEPT ![ids'] = row]
        /\ UNCHANGED <<orderly, linked, spoilt, artifacts, files>>
    BY <1>1, <1>2 DEF InsertPainting, Step, Become, Files
  <1>4. /\ PaintingTypeOK /\ job[p] # Idle /\ job[p] \in PbnJob /\ PbnJobOK(job[p])
        /\ (orderly => artifacts = Expected(job[p]))
        /\ (orderly => \A q \in Proc \ {p} : job[q] = Idle)
    BY <1>3, PbnAtWork
  <1>5. /\ job[p].op \in {"save", "attach"} /\ job[p].svgKey \in Artifact /\ job[p].drop = {}
        /\ job[p].role = (IF job[p].op = "attach" THEN "admin" ELSE "customer")
    BY <1>3, <1>4 DEF PbnJobOK, PbnSteps, PbnJob, NoFile
  <1>6. /\ row \in Painting /\ row # NoPainting /\ Keys(row) = Held(job[p]) /\ row.svg # row.preview
        /\ row.status = "saved" /\ row.origin = job[p].role
    <2>1. Storage(job[p]) /\ job[p].svgKey # NoFile
      BY <1>3, <1>4, <1>5, PaintingNumbers DEF Storage, NoFile
    <2>2. job[p].svgKey # job[p].previewKey
      BY <2>1 DEF PbnInv, ArtifactsApart
    <2> QED  BY <1>1, <1>4, <1>5, <2>1, <2>2 DEF Painting, NoPainting, Keys, Held, PbnJob
  <1>7. /\ ids' \in PaintingId /\ ids' \notin Live /\ Live' = Live \cup {ids'} /\ ids \in Nat
        /\ paintings'[ids'] = row /\ \A i \in Live : paintings'[i] = paintings[i] /\ i # ids' /\ i <= ids
    <2>1. ids' \in PaintingId /\ ids \in Nat
      BY <1>3, <1>4, PaintingNumbers DEF PaintingTypeOK, PaintingId
    <2>2. \A i \in Live : i <= ids /\ i \in PaintingId /\ i \in Nat
      BY PaintingNumbers DEF PbnInv, ArtifactsApart, Live
    <2>3. ids' \notin Live
      BY <1>3, <2>1, <2>2
    <2>4. \A i \in PaintingId : paintings'[i] = IF i = ids' THEN row ELSE paintings[i]
      BY <1>3, <1>4 DEF PaintingTypeOK
    <2> QED  BY <1>6, <2>1, <2>2, <2>3, <2>4 DEF Live
  <1>8. /\ j \in PbnJob \cup {Idle}
        /\ j # Idle => /\ j.op = "attach" /\ j.at = "link" /\ j.id = ids' /\ j.role = "admin"
                       /\ j.drop = {}
    BY <1>2, <1>4, <1>5, <1>7 DEF PbnJob, Idle
  <1>9. /\ j # Idle => PbnJobOK(j)'
        /\ Held(j) = {} /\ ~Storage(j) /\ ~Replacing(j) /\ Dropped(j) = {} /\ ~Deleting(j)
        /\ ~Deleting(job[p])
    BY <1>3, <1>5, <1>7, <1>8 DEF PbnJobOK, PbnSteps, Held, Storage, Replacing, Dropped, Deleting
  <1>10. job'[p] = j /\ \A q \in Proc \ {p} : job'[q] = job[q]
    BY <1>3, <1>4 DEF PaintingTypeOK
  <1>11. PaintingTypeOK'
    <2>1. paintings' \in [PaintingId -> Painting \cup {NoPainting}]
      BY <1>3, <1>4, <1>6 DEF PaintingTypeOK
    <2>2. job' \in [Proc -> PbnJob \cup {Idle}]
      BY <1>3, <1>4, <1>8 DEF PaintingTypeOK
    <2>3. \A q \in Proc \ {p} : job[q] # Idle => PbnJobOK(job[q])'
      BY <1>3, <1>4, <1>7 DEF PaintingTypeOK, PbnJobOK
    <2>4. \A q \in Proc : job'[q] # Idle => PbnJobOK(job[q])'
      BY <1>9, <1>10, <2>3
    <2> QED  BY <1>3, <1>4, <1>7, <2>1, <2>2, <2>4, PaintingNumbers DEF PaintingTypeOK
  <1>12. \A q \in Proc : Held(job'[q]) \subseteq Held(job[q])
    BY <1>9, <1>10
  <1>13. Keys(row) \subseteq artifacts /\ artifacts \subseteq 1..files
    BY <1>4, <1>6 DEF PbnInv, ArtifactsApart, PaintingTypeOK
  <1>14. \A i \in Live : Keys(row) \cap Keys(paintings[i]) = {}
    BY <1>6 DEF PbnInv, ArtifactsApart
  <1>15. \A q \in Proc \ {p} : Held(job[q]) \cap Keys(row) = {}
    BY <1>6 DEF PbnInv, ArtifactsApart
  <1>16. ArtifactsApart'
    <2>0. \A i \in Live : /\ i \in Nat /\ Keys(paintings[i]) \subseteq 1..files
                          /\ paintings[i].svg # paintings[i].preview
      BY PaintingNumbers DEF PbnInv, ArtifactsApart, Live
    <2>1. \A i \in Live' : /\ i <= ids' /\ Keys(paintings'[i]) \subseteq 1..files
                           /\ paintings'[i].svg # paintings'[i].preview
      <3>1. \A i \in Live : i <= ids'
        BY <1>3, <1>7, <2>0
      <3>2. Keys(row) \subseteq 1..files
        BY <1>13
      <3>3. ids' <= ids'
        BY <1>3, <1>7
      <3> QED  BY <1>6, <1>7, <2>0, <3>1, <3>2, <3>3
    <2>2. \A i \in Live', k \in Live' : i # k => Keys(paintings'[i]) \cap Keys(paintings'[k]) = {}
      BY <1>7, <1>14 DEF PbnInv, ArtifactsApart
    <2>3. \A q \in Proc : Held(job'[q]) \subseteq artifacts
      BY <1>12 DEF PbnInv, ArtifactsApart
    <2>4. \A q \in Proc, i \in Live' : Held(job'[q]) \cap Keys(paintings'[i]) = {}
      BY <1>7, <1>9, <1>10, <1>15 DEF PbnInv, ArtifactsApart
    <2>5. \A q \in Proc, r \in Proc : q # r => Held(job'[q]) \cap Held(job'[r]) = {}
      BY <1>12 DEF PbnInv, ArtifactsApart
    <2>6. \A q \in Proc : Storage(job'[q]) /\ job'[q].svgKey # NoFile => job'[q].svgKey # job'[q].previewKey
      BY <1>9, <1>10 DEF PbnInv, ArtifactsApart
    <2> QED  BY <1>3, <2>1, <2>2, <2>3, <2>4, <2>5, <2>6 DEF ArtifactsApart
  <1>17. SeenApart'
    <2> SUFFICES ASSUME NEW q \in Proc, Replacing(job'[q]) PROVE SeenOK(job[q])'
      BY DEF SeenApart
    <2>1. q # p /\ job'[q] = job[q] /\ Replacing(job[q]) /\ SeenOK(job[q])
      BY <1>9, <1>10 DEF PbnInv, SeenApart
    <2>2. job[q].id # ids'
      BY <1>3, <1>4, <1>7, <2>1 DEF PaintingTypeOK, PbnJobOK, Replacing
    <2>3. Keys(row) \cap Keys(job[q].seen) = {}
      BY <1>6, <2>1 DEF SeenOK
    <2>4. \A r \in Proc : Held(job'[r]) \cap Keys(job[q].seen) = {}
      BY <1>12, <2>1 DEF SeenOK
    <2> QED  BY <1>3, <1>7, <2>1, <2>2, <2>3, <2>4 DEF SeenOK
  <1>18. DropsApart'
    <2> SUFFICES ASSUME NEW q \in Proc PROVE DropOK(job[q])'
      BY DEF DropsApart
    <2>1. CASE q = p
      BY <1>9, <1>10, <2>1 DEF DropOK
    <2>2. CASE q # p
      <3>1. job'[q] = job[q] /\ DropOK(job[q])
        BY <1>10, <2>2 DEF PbnInv, DropsApart
      <3>2. Keys(row) \cap Dropped(job[q]) = {}
        BY <1>6, <3>1 DEF DropOK
      <3>3. \A r \in Proc : Held(job'[r]) \cap Dropped(job[q]) = {}
        BY <1>12, <3>1 DEF DropOK
      <3> QED  BY <1>3, <1>7, <3>1, <3>2, <3>3 DEF DropOK
    <2> QED  BY <2>1, <2>2
  <1>19. ArtifactsAreThere'
    <2> SUFFICES ASSUME NEW i \in Live' \ spoilt, ~(Keys(paintings'[i]) \subseteq artifacts)
                 PROVE  \E q \in Proc : job'[q] # Idle /\ job'[q].op = "delete" /\ job'[q].id = i
      BY <1>3 DEF ArtifactsAreThere
    <2>1. i \in Live /\ paintings'[i] = paintings[i]
      BY <1>7, <1>13
    <2>2. PICK q \in Proc : job[q] # Idle /\ job[q].op = "delete" /\ job[q].id = i
      BY <2>1 DEF PbnInv, ArtifactsAreThere
    <2> QED  BY <1>5, <1>10, <2>2
  <1>20. SavedWithinReach'
    <2>1. CASE job[p].op = "save"
      <3>1. Saved' \subseteq Saved \cup {ids'}
        BY <1>7 DEF Saved
      <3>2. Savers' \subseteq Savers \ {p} /\ p \in Savers
        BY <1>3, <1>4, <1>9, <1>10, <1>2, <2>1 DEF Savers, Idle
      <3>3. Cardinality(Saved') <= Cardinality(Saved) + 1 /\ Cardinality(Saved') \in Nat
        BY <3>1, SaversAreFew, OneMore
      <3>4. Cardinality(Savers') + 1 <= Cardinality(Savers) /\ Cardinality(Savers') \in Nat
        BY <3>2, SaversAreFew, OneFewer
      <3> QED  BY <3>3, <3>4, SaversAreFew, PaintingNumbers DEF PbnInv, SavedWithinReach
    <2>2. CASE job[p].op # "save"
      <3>1. Saved' \subseteq Saved
        BY <1>5, <1>6, <1>7, <2>2 DEF Saved
      <3>2. Savers' \subseteq Savers
        BY <1>5, <1>8, <1>10, <2>2 DEF Savers
      <3>3. Cardinality(Saved') <= Cardinality(Saved) /\ Cardinality(Saved') \in Nat
        BY <3>1, SaversAreFew, NoMore
      <3>4. Cardinality(Savers') <= Cardinality(Savers) /\ Cardinality(Savers') \in Nat
        BY <3>2, SaversAreFew, NoMore
      <3> QED  BY <3>3, <3>4, SaversAreFew, PaintingNumbers DEF PbnInv, SavedWithinReach
    <2> QED  BY <2>1, <2>2
  <1>21. OneByOne'
    <2> SUFFICES ASSUME orderly PROVE OneByOne'
      BY <1>3 DEF OneByOne
    <2>1. \A q \in Proc \ {p} : job'[q] = Idle
      BY <1>4, <1>10
    <2>2. UsedBut(0)' = UsedBut(0) \cup Keys(row)
      <3>1. Keys(row) \subseteq Artifact
        BY <1>6, PaintingNumbers DEF Keys, Painting
      <3>2. \A m : m \in Live' \ {0} <=> m \in Live \ {0} \/ m = ids'
        BY <1>7, PaintingNumbers
      <3> QED  BY <1>7, <3>1, <3>2 DEF UsedBut
    <2>3. artifacts = UsedBut(0) \cup Held(job[p]) \cup {}
      BY <1>4, <1>5, <1>9 DEF Expected
    <2>4. Expected(j)' = UsedBut(0)'
      <3>1. CASE j = Idle
        BY <3>1 DEF Expected, Deleting
      <3>2. CASE j # Idle
        BY <1>8, <1>9, <3>2 DEF Expected
      <3> QED  BY <3>1, <3>2
    <2>5. Expected(Idle)' = UsedBut(0)'
      BY DEF Expected, Deleting
    <2>6. artifacts' = Expected(j)' /\ artifacts' = Expected(Idle)'
      BY <1>3, <1>6, <2>2, <2>3, <2>4, <2>5
    <2>7. \A q \in Proc : job'[q] = j \/ job'[q] = Idle
      BY <1>10, <2>1
    <2>8. \A q \in Proc : ~Replacing(job'[q])
      BY <1>9, <2>7 DEF Replacing
    <2> QED  BY <2>1, <2>6, <2>7, <2>8 DEF OneByOne
  <1> QED  BY <1>11, <1>16, <1>17, <1>18, <1>19, <1>20, <1>21 DEF PbnInv

LEMMA OverwritePaintingKeepsInv ==
    ASSUME PbnInv, NEW p \in Proc, OverwritePainting(p)
    PROVE  PbnInv'
  <1>0. PICK i : i = job[p].id
    OBVIOUS
  <1>1. PICK row : row = [paintings[i] EXCEPT !.svg = job[p].svgKey,
                              !.preview = IF job[p].preview THEN job[p].previewKey ELSE @]
    OBVIOUS
  <1>2. PICK j : j = [job[p] EXCEPT !.at = "discard", !.drop = Superseded(job[p])]
    OBVIOUS
  <1>3. /\ job[p].at = "overwrite" /\ i \in Live /\ job' = [job EXCEPT ![p] = j]
        /\ UNCHANGED <<orderly, linked, ids, spoilt, artifacts, files>>
    BY <1>0, <1>2 DEF OverwritePainting, Step, Become, Files
  <1>4. /\ PaintingTypeOK /\ job[p] # Idle /\ job[p] \in PbnJob /\ PbnJobOK(job[p])
        /\ (orderly => artifacts = Expected(job[p]))
        /\ (orderly => \A q \in Proc \ {p} : job[q] = Idle)
    BY <1>3, PbnAtWork
  <1>5. /\ job[p].op = "replace" /\ job[p].drop = {} /\ job[p].svgKey \in Artifact
        /\ job[p].preview => job[p].previewKey \in Artifact
        /\ ~job[p].preview => job[p].previewKey = NoFile
        /\ job[p].seen \in Painting
    BY <1>3, <1>4 DEF PbnJobOK, PbnSteps, PbnJob, NoFile
  <1>6. i \in PaintingId /\ paintings[i] \in Painting
    BY <1>3, <1>4 DEF Live, PaintingTypeOK
  <1>7. /\ row \in Painting /\ row # NoPainting /\ row.svg = job[p].svgKey
        /\ row.preview = IF job[p].preview THEN job[p].previewKey ELSE paintings[i].preview
        /\ row.status = paintings[i].status /\ row.origin = paintings[i].origin
    BY <1>1, <1>4, <1>5, <1>6 DEF Painting, NoPainting, PbnJob
  <1>8. paintings' = [paintings EXCEPT ![i] = row]
    BY <1>0, <1>1, <1>4, <1>5, <1>6 DEF OverwritePainting, PaintingTypeOK, Painting, PbnJob
  <1>9. /\ Live' = Live /\ paintings'[i] = row /\ \A k \in Live \ {i} : paintings'[k] = paintings[k]
    BY <1>3, <1>4, <1>6, <1>7, <1>8 DEF Live, PaintingTypeOK
  <1>10. /\ Storage(job[p]) /\ Replacing(job[p]) /\ Held(job[p]) = {job[p].svgKey, job[p].previewKey} \ {NoFile}
         /\ SeenOK(job[p])
    BY <1>3, <1>4, <1>5 DEF Storage, Replacing, Held, PbnInv, SeenApart
  <1>11. /\ job[p].svgKey \in Held(job[p]) /\ (job[p].preview => job[p].previewKey \in Held(job[p]))
         /\ Keys(row) \subseteq Held(job[p]) \cup Keys(paintings[i])
         /\ (job[p].preview => Keys(row) = Held(job[p]))
    BY <1>5, <1>7, <1>10, PaintingNumbers DEF Keys, NoFile
  <1>12. /\ j \in PbnJob /\ j # Idle /\ j.op = "replace" /\ j.at = "discard" /\ j.id = i
         /\ j.drop = Superseded(job[p]) /\ j.seen = job[p].seen /\ j.role = job[p].role
         /\ Superseded(job[p]) \subseteq Keys(job[p].seen)
    <2>1. Superseded(job[p]) \subseteq Keys(job[p].seen) /\ Keys(job[p].seen) \subseteq Artifact
      BY <1>5, PaintingNumbers DEF Superseded, Keys, Painting, NoFile
    <2> QED  BY <1>0, <1>2, <1>4, <1>5, <2>1 DEF PbnJob, Idle
  <1>13. PbnJobOK(j)
    BY <1>0, <1>4, <1>5, <1>12 DEF PbnJobOK, PbnSteps
  <1>14. /\ Held(j) = {} /\ ~Storage(j) /\ ~Replacing(j) /\ Dropped(j) = Superseded(job[p])
         /\ ~Deleting(j) /\ ~Deleting(job[p])
    BY <1>5, <1>12 DEF Held, Storage, Replacing, Dropped, Deleting
  <1>15. job'[p] = j /\ \A q \in Proc \ {p} : job'[q] = job[q]
    BY <1>3, <1>4 DEF PaintingTypeOK
  <1>16. PaintingTypeOK'
    <2>1. paintings' \in [PaintingId -> Painting \cup {NoPainting}]
      BY <1>4, <1>7, <1>8 DEF PaintingTypeOK
    <2>2. job' \in [Proc -> PbnJob \cup {Idle}]
      BY <1>3, <1>4, <1>12 DEF PaintingTypeOK
    <2>3. \A q \in Proc : job'[q] # Idle => PbnJobOK(job'[q])
      BY <1>4, <1>13, <1>15 DEF PaintingTypeOK
    <2> QED  BY <1>3, <1>4, <2>1, <2>2, <2>3 DEF PaintingTypeOK, PbnJobOK
  <1>17. \A q \in Proc : Held(job'[q]) \subseteq Held(job[q])
    BY <1>14, <1>15
  <1>18. /\ \A k \in Live : Held(job[p]) \cap Keys(paintings[k]) = {}
         /\ \A k \in Live \ {i} : Keys(paintings[i]) \cap Keys(paintings[k]) = {}
         /\ \A q \in Proc \ {p} : Held(job[p]) \cap Held(job[q]) = {}
         /\ \A q \in Proc : Keys(paintings[i]) \cap Held(job[q]) = {}
         /\ Held(job[p]) \subseteq artifacts /\ artifacts \subseteq 1..files /\ Keys(paintings[i]) \subseteq 1..files
    BY <1>3, <1>4 DEF PbnInv, ArtifactsApart, PaintingTypeOK
  <1>19. row.svg # row.preview
    <2>1. CASE job[p].preview
      <3>1. job[p].svgKey # job[p].previewKey
        BY <1>5, <1>10, PaintingNumbers DEF PbnInv, ArtifactsApart, NoFile
      <3> QED  BY <1>7, <2>1, <3>1
    <2>2. CASE ~job[p].preview
      <3>1. paintings[i].preview \in Keys(paintings[i]) \/ paintings[i].preview = NoFile
        BY DEF Keys
      <3>2. paintings[i].preview # job[p].svgKey
        BY <1>3, <1>5, <1>11, <1>18, <3>1, PaintingNumbers DEF NoFile
      <3> QED  BY <1>7, <2>2, <3>2
    <2> QED  BY <1>4, <2>1, <2>2 DEF PbnJob
  <1>20. ArtifactsApart'
    <2>1. \A k \in Live' : /\ k <= ids /\ Keys(paintings'[k]) \subseteq 1..files
                           /\ paintings'[k].svg # paintings'[k].preview
      <3>1. Keys(row) \subseteq 1..files
        BY <1>11, <1>18
      <3> QED  BY <1>9, <1>19, <3>1 DEF PbnInv, ArtifactsApart
    <2>2. \A k \in Live', m \in Live' : k # m => Keys(paintings'[k]) \cap Keys(paintings'[m]) = {}
      <3>1. \A k \in Live \ {i} : Keys(row) \cap Keys(paintings[k]) = {}
        BY <1>11, <1>18
      <3> QED  BY <1>9, <3>1 DEF PbnInv, ArtifactsApart
    <2>3. \A q \in Proc : Held(job'[q]) \subseteq artifacts
      BY <1>17 DEF PbnInv, ArtifactsApart
    <2>4. \A q \in Proc, k \in Live' : Held(job'[q]) \cap Keys(paintings'[k]) = {}
      <3>1. \A q \in Proc \ {p} : Held(job[q]) \cap Keys(row) = {}
        BY <1>11, <1>18
      <3> QED  BY <1>9, <1>14, <1>15, <3>1 DEF PbnInv, ArtifactsApart
    <2>5. \A q \in Proc, r \in Proc : q # r => Held(job'[q]) \cap Held(job'[r]) = {}
      BY <1>17 DEF PbnInv, ArtifactsApart
    <2>6. \A q \in Proc : Storage(job'[q]) /\ job'[q].svgKey # NoFile => job'[q].svgKey # job'[q].previewKey
      BY <1>14, <1>15 DEF PbnInv, ArtifactsApart
    <2> QED  BY <1>3, <2>1, <2>2, <2>3, <2>4, <2>5, <2>6 DEF ArtifactsApart
  <1>21. SeenApart'
    <2> SUFFICES ASSUME NEW q \in Proc, Replacing(job'[q]) PROVE SeenOK(job[q])'
      BY DEF SeenApart
    <2>1. q # p /\ job'[q] = job[q] /\ Replacing(job[q]) /\ SeenOK(job[q])
      BY <1>14, <1>15 DEF PbnInv, SeenApart
    <2>2. \A r \in Proc : Held(job'[r]) \cap Keys(job[q].seen) = {}
      BY <1>17, <2>1 DEF SeenOK
    <2>3. Held(job[p]) \cap Keys(job[q].seen) = {}
      BY <2>1 DEF SeenOK
    <2>4. job[q].seen \in Painting
      BY <1>4, <2>1 DEF PaintingTypeOK, PbnJobOK, Replacing
    <2>5. i = job[q].id => row.preview # job[q].seen.svg /\ row.svg # job[q].seen.preview
      <3> SUFFICES ASSUME i = job[q].id PROVE row.preview # job[q].seen.svg /\ row.svg # job[q].seen.preview
        OBVIOUS
      <3>1. paintings[i].preview # job[q].seen.svg
        BY <1>3, <2>1 DEF SeenOK
      <3>2. job[q].seen.svg \in Keys(job[q].seen)
        BY <2>4, PaintingNumbers DEF Painting, Keys, NoFile
      <3>3. row.preview # job[q].seen.svg
        BY <1>7, <1>11, <2>3, <3>1, <3>2
      <3>4. job[q].seen.preview \in Keys(job[q].seen) \/ job[q].seen.preview = NoFile
        BY DEF Keys
      <3>5. row.svg # job[q].seen.preview
        BY <1>5, <1>7, <1>11, <2>3, <3>4, PaintingNumbers DEF NoFile
      <3> QED  BY <3>3, <3>5
    <2>6. i # job[q].id => Keys(row) \cap Keys(job[q].seen) = {}
      BY <1>3, <1>11, <2>1, <2>3 DEF SeenOK
    <2> QED  BY <1>3, <1>9, <2>1, <2>2, <2>5, <2>6 DEF SeenOK
  <1>22. DropsApart'
    <2> SUFFICES ASSUME NEW q \in Proc PROVE DropOK(job[q])'
      BY DEF DropsApart
    <2>1. CASE q = p
      <3>1. Superseded(job[p]) \subseteq 1..files
        BY <1>10, <1>12 DEF SeenOK
      <3>2. \A r \in Proc : Held(job'[r]) \cap Superseded(job[p]) = {}
        BY <1>10, <1>12, <1>17 DEF SeenOK
      <3>3. \A k \in Live \ {i} : Keys(paintings[k]) \cap Superseded(job[p]) = {}
        BY <1>0, <1>10, <1>12 DEF SeenOK
      <3>4. Keys(row) \cap Superseded(job[p]) = {}
        <4>1. CASE job[p].preview
          BY <1>10, <1>11, <1>12, <4>1 DEF SeenOK
        <4>2. CASE ~job[p].preview
          <5>1. Superseded(job[p]) = {job[p].seen.svg}
            BY <4>2 DEF Superseded
          <5>2. row.preview # job[p].seen.svg
            BY <1>0, <1>3, <1>7, <1>10, <4>2 DEF SeenOK
          <5>3. row.svg # job[p].seen.svg
            BY <1>7, <1>10, <1>11, <1>12, <5>1 DEF SeenOK
          <5> QED  BY <5>1, <5>2, <5>3 DEF Keys
        <4> QED  BY <1>4, <4>1, <4>2 DEF PbnJob
      <3> QED  BY <1>3, <1>9, <1>14, <1>15, <2>1, <3>1, <3>2, <3>3, <3>4 DEF DropOK
    <2>2. CASE q # p
      <3>1. job'[q] = job[q] /\ DropOK(job[q])
        BY <1>15, <2>2 DEF PbnInv, DropsApart
      <3>2. (Deleting(job[q]) /\ i = job[q].id) \/ Keys(row) \cap Dropped(job[q]) = {}
        BY <1>3, <1>11, <3>1 DEF DropOK
      <3>3. \A r \in Proc : Held(job'[r]) \cap Dropped(job[q]) = {}
        BY <1>17, <3>1 DEF DropOK
      <3> QED  BY <1>3, <1>9, <3>1, <3>2, <3>3 DEF DropOK
    <2> QED  BY <2>1, <2>2
  <1>23. ArtifactsAreThere'
    <2> SUFFICES ASSUME NEW k \in Live \ spoilt, ~(Keys(paintings'[k]) \subseteq artifacts)
                 PROVE  \E q \in Proc : job'[q] # Idle /\ job'[q].op = "delete" /\ job'[q].id = k
      BY <1>3, <1>9 DEF ArtifactsAreThere
    <2>1. ~(Keys(paintings[k]) \subseteq artifacts)
      BY <1>9, <1>11, <1>18
    <2>2. PICK q \in Proc : job[q] # Idle /\ job[q].op = "delete" /\ job[q].id = k
      BY <2>1 DEF PbnInv, ArtifactsAreThere
    <2> QED  BY <1>5, <1>15, <2>2
  <1>24. SavedWithinReach'
    <2>1. Saved' = Saved
      BY <1>3, <1>7, <1>9 DEF Saved
    <2>2. Savers' = Savers
      BY <1>5, <1>12, <1>15 DEF Savers
    <2> QED  BY <2>1, <2>2 DEF PbnInv, SavedWithinReach
  <1>25. OneByOne'
    <2> SUFFICES ASSUME orderly PROVE OneByOne'
      BY <1>3 DEF OneByOne
    <2>1. \A q \in Proc \ {p} : job'[q] = Idle
      BY <1>4, <1>15
    <2>2. paintings[i] = job[p].seen
      BY <1>0, <1>10 DEF PbnInv, OneByOne
    <2>3. artifacts = UsedBut(0) \cup Held(job[p])
      BY <1>4, <1>5, <1>14 DEF Expected
    <2>4. UsedBut(0) = UsedBut(i) \cup Keys(job[p].seen)
      <3>1. Keys(job[p].seen) \subseteq Artifact
        BY <1>5, PaintingNumbers DEF Keys, Painting
      <3>2. \A m : m \in Live \ {0} <=> m \in Live \ {i} \/ m = i
        BY <1>3, <1>6, PaintingNumbers DEF Live
      <3> QED  BY <2>2, <3>1, <3>2 DEF UsedBut
    <2>5. UsedBut(0)' = UsedBut(i) \cup Keys(row)
      <3>1. Keys(row) \subseteq Artifact
        BY <1>7, PaintingNumbers DEF Keys, Painting
      <3>2. \A m : m \in Live' \ {0} <=> m \in Live \ {i} \/ m = i
        BY <1>3, <1>6, <1>9, PaintingNumbers DEF Live
      <3> QED  BY <1>9, <3>1, <3>2 DEF UsedBut
    <2>6. Expected(j)' = UsedBut(0)' \cup Superseded(job[p])
      BY <1>12, <1>14 DEF Expected
    <2>7. Keys(job[p].seen) \cup Held(job[p]) = Keys(row) \cup Superseded(job[p])
      <3>1. CASE job[p].preview
        BY <1>5, <1>11, <3>1 DEF Superseded, Keys, Painting, Artifact, NoFile
      <3>2. CASE ~job[p].preview
        BY <1>5, <1>7, <1>10, <2>2, <3>2 DEF Superseded, Keys, Painting, Artifact, NoFile
      <3> QED  BY <1>4, <3>1, <3>2 DEF PbnJob
    <2>8. artifacts' = Expected(j)'
      BY <1>3, <2>3, <2>4, <2>5, <2>6, <2>7
    <2>9. \A q \in Proc : job'[q] # Idle \/ AllIdle' => q = p
      BY <1>12, <1>15, <2>1 DEF AllIdle
    <2>10. \A q \in Proc : ~Replacing(job'[q])
      BY <1>14, <1>15, <2>1 DEF Replacing
    <2>11. \A q \in Proc, r \in Proc : job'[q] # Idle /\ job'[r] # Idle => q = r
      BY <2>1
    <2>12. \A q \in Proc : job'[q] # Idle \/ AllIdle' => artifacts' = Expected(job[q])'
      BY <1>15, <2>8, <2>9
    <2> QED  BY <2>10, <2>11, <2>12 DEF OneByOne
  <1> QED  BY <1>16, <1>20, <1>21, <1>22, <1>23, <1>24, <1>25 DEF PbnInv

LEMMA DeleteArtifactKeepsInv ==
    ASSUME PbnInv, NEW p \in Proc, DeleteArtifact(p)
    PROVE  PbnInv'
  <1>1. PICK k \in job[p].drop :
            /\ Become(p, [job[p] EXCEPT !.drop = @ \ {k}])
            /\ \/ artifacts' = artifacts \ {k} /\ UNCHANGED orderly
               \/ UNCHANGED artifacts /\ orderly' = FALSE
    BY DEF DeleteArtifact
  <1>2. PICK j : j = [job[p] EXCEPT !.drop = @ \ {k}]
    OBVIOUS
  <1>3. /\ job[p].at = "discard" /\ job' = [job EXCEPT ![p] = j]
        /\ UNCHANGED <<files, paintings, linked, ids, spoilt>>
    BY <1>1, <1>2 DEF DeleteArtifact, Become, Rows
  <1>4. /\ PaintingTypeOK /\ job[p] # Idle /\ job[p] \in PbnJob /\ PbnJobOK(job[p])
        /\ Dropped(job[p]) = job[p].drop
        /\ (orderly => artifacts = Expected(job[p]))
        /\ (orderly => \A q \in Proc \ {p} : job[q] = Idle)
    BY <1>3, PbnAtWork
  <1>5. /\ j \in PbnJob /\ j # Idle /\ j.op = job[p].op /\ j.at = "discard" /\ j.id = job[p].id
        /\ j.role = job[p].role /\ j.preview = job[p].preview /\ j.seen = job[p].seen
        /\ j.drop = job[p].drop \ {k} /\ Dropped(j) = job[p].drop \ {k}
    BY <1>2, <1>3, <1>4 DEF PbnJob, Idle, Dropped
  <1>6. PbnJobOK(j)
    BY <1>3, <1>4, <1>5 DEF PbnJobOK
  <1>7. /\ Held(j) = {} /\ Held(job[p]) = {} /\ ~Storage(j) /\ ~Replacing(j)
        /\ (Deleting(j) <=> Deleting(job[p]))
    BY <1>3, <1>4, <1>5 DEF Held, Storage, Replacing, Deleting
  <1>8. job'[p] = j /\ (\A q \in Proc \ {p} : job'[q] = job[q]) /\ Live' = Live
    BY <1>3, <1>4 DEF PaintingTypeOK, Live
  <1>9. DropOK(job[p])
    BY DEF PbnInv, DropsApart
  <1>10. artifacts' \subseteq artifacts /\ artifacts \ {k} \subseteq artifacts' /\ orderly' \in BOOLEAN
         /\ (orderly' => orderly /\ artifacts' = artifacts \ {k})
    <2>1. artifacts' = artifacts \ {k} \/ artifacts' = artifacts
      BY <1>1
    <2>2. orderly' \in BOOLEAN
      BY <1>1, <1>4 DEF PaintingTypeOK
    <2>3. orderly' => orderly /\ artifacts' = artifacts \ {k}
      BY <1>1
    <2> QED  BY <2>1, <2>2, <2>3
  <1>11. \A q \in Proc : Held(job'[q]) = Held(job[q])
    BY <1>7, <1>8
  <1>12. PaintingTypeOK'
    BY <1>3, <1>4, <1>5, <1>6, <1>8, <1>10 DEF PaintingTypeOK, PbnJobOK
  <1>13. \A q \in Proc : Held(job'[q]) \subseteq artifacts'
    <2>1. \A q \in Proc : k \notin Held(job[q]) /\ Held(job[q]) \subseteq artifacts
      BY <1>4, <1>9 DEF DropOK, PbnInv, ArtifactsApart
    <2> QED  BY <1>10, <1>11, <2>1
  <1>14. ArtifactsApart'
    <2>1. \A q \in Proc : Storage(job'[q]) /\ job'[q].svgKey # NoFile => job'[q].svgKey # job'[q].previewKey
      BY <1>7, <1>8 DEF PbnInv, ArtifactsApart
    <2> QED  BY <1>3, <1>8, <1>11, <1>13, <2>1 DEF PbnInv, ArtifactsApart
  <1>15. SeenApart'
    <2>1. \A q \in Proc : Replacing(job'[q]) => job'[q] = job[q] /\ SeenOK(job[q])
      BY <1>7, <1>8 DEF PbnInv, SeenApart
    <2> QED  BY <1>3, <1>8, <1>11, <2>1 DEF SeenApart, SeenOK
  <1>16. DropsApart'
    <2>1. \A q \in Proc : /\ Dropped(job'[q]) \subseteq Dropped(job[q]) /\ DropOK(job[q])
                          /\ (Deleting(job'[q]) <=> Deleting(job[q])) /\ job'[q].id = job[q].id
      BY <1>4, <1>5, <1>7, <1>8 DEF PbnInv, DropsApart
    <2> QED  BY <1>3, <1>8, <1>11, <2>1 DEF DropsApart, DropOK
  <1>17. ArtifactsAreThere'
    <2> SUFFICES ASSUME NEW i \in Live \ spoilt, ~(Keys(paintings[i]) \subseteq artifacts')
                 PROVE  \E q \in Proc : job'[q] # Idle /\ job'[q].op = "delete" /\ job'[q].id = i
      BY <1>3, <1>8 DEF ArtifactsAreThere, Keys
    <2>1. CASE Keys(paintings[i]) \subseteq artifacts
      <3>1. k \in Keys(paintings[i])
        BY <1>10, <2>1
      <3>2. Deleting(job[p]) /\ i = job[p].id
        BY <1>4, <1>9, <3>1 DEF DropOK
      <3> QED  BY <1>5, <1>8, <3>2 DEF Deleting
    <2>2. CASE ~(Keys(paintings[i]) \subseteq artifacts)
      <3>1. PICK q \in Proc : job[q] # Idle /\ job[q].op = "delete" /\ job[q].id = i
        BY <2>2 DEF PbnInv, ArtifactsAreThere
      <3> QED  BY <1>5, <1>8, <3>1
    <2> QED  BY <2>1, <2>2
  <1>18. SavedWithinReach'
    <2>1. Saved' = Saved /\ Savers' = Savers
      BY <1>3, <1>4, <1>5, <1>8 DEF Saved, Savers
    <2> QED  BY <2>1 DEF PbnInv, SavedWithinReach
  <1>19. OneByOne'
    <2> SUFFICES ASSUME orderly' PROVE OneByOne'
      BY DEF OneByOne
    <2>1. orderly /\ artifacts' = artifacts \ {k} /\ artifacts = Expected(job[p])
      BY <1>4, <1>10
    <2>2. \A q \in Proc \ {p} : job'[q] = Idle
      BY <1>4, <1>8, <2>1
    <2>3. \A i : UsedBut(i)' = UsedBut(i)
      BY <1>3, <1>8 DEF UsedBut
    <2>4. Expected(j)' = artifacts'
      <3>1. CASE Deleting(job[p])
        <4>1. Expected(j)' = UsedBut(job[p].id) \cup (job[p].drop \ {k})
          BY <1>5, <1>7, <2>3, <3>1 DEF Expected
        <4>2. Expected(job[p]) = UsedBut(job[p].id) \cup job[p].drop
          BY <1>4, <3>1 DEF Expected
        <4>3. k \notin UsedBut(job[p].id)
          BY <1>4, <1>9 DEF UsedBut, DropOK
        <4> QED  BY <2>1, <4>1, <4>2, <4>3
      <3>2. CASE ~Deleting(job[p])
        <4>1. Expected(j)' = UsedBut(0) \cup (job[p].drop \ {k})
          BY <1>5, <1>7, <2>3, <3>2 DEF Expected
        <4>2. Expected(job[p]) = UsedBut(0) \cup job[p].drop
          BY <1>4, <1>7, <3>2 DEF Expected
        <4>3. k \notin UsedBut(0)
          BY <1>4, <1>9, <3>2 DEF UsedBut, DropOK
        <4> QED  BY <2>1, <4>1, <4>2, <4>3
      <3> QED  BY <3>1, <3>2
    <2>5. \A q \in Proc : job'[q] # Idle \/ AllIdle' => q = p
      BY <1>5, <1>8, <2>2 DEF AllIdle
    <2>6. \A q \in Proc : ~Replacing(job'[q])
      BY <1>7, <1>8, <2>2 DEF Replacing
    <2>7. \A q \in Proc, r \in Proc : job'[q] # Idle /\ job'[r] # Idle => q = r
      BY <2>2
    <2>8. \A q \in Proc : job'[q] # Idle \/ AllIdle' => artifacts' = Expected(job[q])'
      BY <1>8, <2>4, <2>5
    <2> QED  BY <2>6, <2>7, <2>8 DEF OneByOne
  <1> QED  BY <1>12, <1>14, <1>15, <1>16, <1>17, <1>18, <1>19 DEF PbnInv

LEMMA EndDiscardKeepsInv ==
    ASSUME PbnInv, NEW p \in Proc, EndDiscard(p)
    PROVE  PbnInv'
  <1>1. PICK j : j = IF job[p].op = "delete" THEN [job[p] EXCEPT !.at = "erase"] ELSE Idle
    OBVIOUS
  <1>2. /\ job[p].at = "discard" /\ job[p].drop = {} /\ job' = [job EXCEPT ![p] = j]
        /\ UNCHANGED <<orderly, paintings, linked, ids, spoilt, artifacts, files>>
    BY <1>1 DEF EndDiscard, Step, Become, Rows, Files
  <1>3. /\ PaintingTypeOK /\ job[p] # Idle /\ job[p] \in PbnJob /\ PbnJobOK(job[p])
        /\ (orderly => artifacts = Expected(job[p]))
    BY <1>2, PbnAtWork
  <1>4. /\ j \in PbnJob \cup {Idle}
        /\ j # Idle => /\ j.op = "delete" /\ j.at = "erase" /\ j.id = job[p].id /\ j.drop = {}
                       /\ j.role = job[p].role
        /\ j = Idle => job[p].op # "delete"
    BY <1>1, <1>2, <1>3 DEF PbnJob, Idle
  <1>5. j # Idle => PbnJobOK(j) /\ job[p].op = "delete"
    BY <1>1, <1>3, <1>4 DEF PbnJobOK, PbnSteps
  <1>6. /\ Held(j) = {} /\ Held(job[p]) = {} /\ ~Storage(j) /\ ~Replacing(j) /\ Dropped(j) = {}
        /\ (Deleting(job[p]) => Deleting(j) /\ j.id = job[p].id)
        /\ (j = Idle => ~Deleting(job[p])) /\ (j # Idle => Deleting(job[p]))
    BY <1>2, <1>3, <1>4, <1>5 DEF Held, Storage, Replacing, Dropped, Deleting
  <1>7. DropOK(j)
    BY <1>6 DEF DropOK
  <1>8. Expected(j) = Expected(job[p])
    <2>1. CASE j = Idle
      <3>1. Expected(Idle) = UsedBut(0)
        BY DEF Expected, Deleting
      <3>2. Expected(job[p]) = UsedBut(0) \cup {} \cup {}
        BY <1>2, <1>3, <1>6, <2>1 DEF Expected
      <3> QED  BY <2>1, <3>1, <3>2
    <2>2. CASE j # Idle
      BY <1>2, <1>4, <1>6, <2>2 DEF Expected
    <2> QED  BY <2>1, <2>2
  <1>9. p \notin Savers'
    BY <1>2, <1>3, <1>4 DEF Savers, PaintingTypeOK
  <1> QED  BY <1>2, <1>3, <1>4, <1>5, <1>6, <1>7, <1>8, <1>9, PbnQuiet DEF PaintingTypeOK

LEMMA ErasePaintingKeepsInv ==
    ASSUME PbnInv, NEW p \in Proc, ErasePainting(p)
    PROVE  PbnInv'
  <1>0. PICK i : i = job[p].id
    OBVIOUS
  <1>1. /\ job[p].at = "erase" /\ i \in Live /\ job' = [job EXCEPT ![p] = Idle]
        /\ paintings' = [paintings EXCEPT ![i] = NoPainting] /\ linked' = linked \ {i}
        /\ UNCHANGED <<orderly, ids, spoilt, artifacts, files>>
    BY <1>0 DEF ErasePainting, Step, Become, Files
  <1>2. /\ PaintingTypeOK /\ job[p] # Idle /\ job[p] \in PbnJob /\ PbnJobOK(job[p])
        /\ (orderly => artifacts = Expected(job[p]))
        /\ (orderly => \A q \in Proc \ {p} : job[q] = Idle)
        /\ job[p].op \in {"save", "attach", "replace", "delete", "order"}
    BY <1>1, PbnAtWork
  <1>3. job[p].op = "delete" /\ job[p].drop = {} /\ Deleting(job[p])
    BY <1>1, <1>2 DEF PbnJobOK, PbnSteps, Deleting
  <1>4. /\ job'[p] = Idle /\ \A q \in Proc \ {p} : job'[q] = job[q]
        /\ Live' = Live \ {i} /\ \A k \in Live' : paintings'[k] = paintings[k]
    BY <1>1, <1>2 DEF PaintingTypeOK, Live
  <1>5. Held(Idle) = {} /\ ~Storage(Idle) /\ ~Replacing(Idle) /\ Dropped(Idle) = {} /\ ~Deleting(Idle)
    BY DEF Held, Storage, Replacing, Dropped, Deleting
  <1>6. \A q \in Proc : Held(job'[q]) \subseteq Held(job[q])
    BY <1>4, <1>5
  <1>7. PaintingTypeOK'
    <2>1. /\ job' \in [Proc -> PbnJob \cup {Idle}]
          /\ \A q \in Proc : job'[q] # Idle => job[q] # Idle /\ job'[q] = job[q]
      BY <1>1, <1>2, <1>4 DEF PaintingTypeOK
    <2>2. \A q \in Proc : job'[q] # Idle => PbnJobOK(job[q])'
      BY <1>1, <1>2, <2>1 DEF PaintingTypeOK, PbnJobOK
    <2>3. paintings' \in [PaintingId -> Painting \cup {NoPainting}] /\ linked' \subseteq PaintingId
      BY <1>1, <1>2 DEF PaintingTypeOK, Live
    <2> QED  BY <1>1, <1>2, <2>1, <2>2, <2>3 DEF PaintingTypeOK
  <1>8. ArtifactsApart'
    <2>1. \A q \in Proc : Storage(job'[q]) /\ job'[q].svgKey # NoFile => job'[q].svgKey # job'[q].previewKey
      BY <1>4, <1>5 DEF PbnInv, ArtifactsApart
    <2>2. \A k \in Live' : /\ k <= ids /\ Keys(paintings'[k]) \subseteq 1..files
                           /\ paintings'[k].svg # paintings'[k].preview
      BY <1>4 DEF PbnInv, ArtifactsApart
    <2>3. \A k \in Live', m \in Live' : k # m => Keys(paintings'[k]) \cap Keys(paintings'[m]) = {}
      BY <1>4 DEF PbnInv, ArtifactsApart
    <2>4. \A q \in Proc : Held(job'[q]) \subseteq artifacts
      BY <1>6 DEF PbnInv, ArtifactsApart
    <2>5. \A q \in Proc, k \in Live' : Held(job'[q]) \cap Keys(paintings'[k]) = {}
      BY <1>4, <1>6 DEF PbnInv, ArtifactsApart
    <2>6. \A q \in Proc, r \in Proc : q # r => Held(job'[q]) \cap Held(job'[r]) = {}
      BY <1>6 DEF PbnInv, ArtifactsApart
    <2> QED  BY <1>1, <2>1, <2>2, <2>3, <2>4, <2>5, <2>6 DEF ArtifactsApart
  <1>9. SeenApart'
    <2> SUFFICES ASSUME NEW q \in Proc, Replacing(job'[q]) PROVE SeenOK(job[q])'
      BY DEF SeenApart
    <2>1. job'[q] = job[q] /\ SeenOK(job[q])
      BY <1>4, <1>5 DEF PbnInv, SeenApart
    <2>2. \A r \in Proc : Held(job'[r]) \cap Keys(job[q].seen) = {}
      BY <1>6, <2>1 DEF SeenOK
    <2> QED  BY <1>1, <1>4, <2>1, <2>2 DEF SeenOK
  <1>10. DropsApart'
    <2> SUFFICES ASSUME NEW q \in Proc PROVE DropOK(job[q])'
      BY DEF DropsApart
    <2>1. CASE q = p
      BY <1>4, <1>5, <2>1 DEF DropOK
    <2>2. CASE q # p
      BY <1>1, <1>4, <1>6, <2>2 DEF PbnInv, DropsApart, DropOK
    <2> QED  BY <2>1, <2>2
  <1>11. ArtifactsAreThere'
    <2> SUFFICES ASSUME NEW k \in Live' \ spoilt, ~(Keys(paintings'[k]) \subseteq artifacts)
                 PROVE  \E q \in Proc : job'[q] # Idle /\ job'[q].op = "delete" /\ job'[q].id = k
      BY <1>1 DEF ArtifactsAreThere
    <2>1. PICK q \in Proc : job[q] # Idle /\ job[q].op = "delete" /\ job[q].id = k
      BY <1>4 DEF PbnInv, ArtifactsAreThere
    <2> QED  BY <1>0, <1>4, <2>1
  <1>12. SavedWithinReach'
    <2>1. Saved' \subseteq Saved /\ Savers' \subseteq Savers
      BY <1>1, <1>4 DEF Saved, Savers
    <2>2. Cardinality(Saved') <= Cardinality(Saved) /\ Cardinality(Saved') \in Nat
      BY <2>1, SaversAreFew, NoMore
    <2>3. Cardinality(Savers') <= Cardinality(Savers) /\ Cardinality(Savers') \in Nat
      BY <2>1, SaversAreFew, NoMore
    <2> QED  BY <2>2, <2>3, SaversAreFew, PaintingNumbers DEF PbnInv, SavedWithinReach
  <1>13. OneByOne'
    <2> SUFFICES ASSUME orderly PROVE OneByOne'
      BY <1>1 DEF OneByOne
    <2>1. \A q \in Proc : job'[q] = Idle
      BY <1>2, <1>4
    <2>2. artifacts = UsedBut(i)
      BY <1>0, <1>2, <1>3 DEF Expected
    <2>3. UsedBut(0)' = UsedBut(i)
      <3>1. Live' \ {0} = Live \ {i}
        BY <1>4, PaintingNumbers DEF Live
      <3>2. \A m \in Live \ {i} : paintings'[m] = paintings[m]
        BY <1>4
      <3> QED  BY <3>1, <3>2 DEF UsedBut
    <2>4. Expected(Idle)' = UsedBut(0)'
      BY DEF Expected, Deleting
    <2>5. \A q \in Proc : artifacts' = Expected(job[q])' /\ ~Replacing(job'[q])
      BY <1>1, <1>5, <2>1, <2>2, <2>3, <2>4
    <2> QED  BY <2>1, <2>5 DEF OneByOne
  <1> QED  BY <1>7, <1>8, <1>9, <1>10, <1>11, <1>12, <1>13 DEF PbnInv

LEMMA LinkPaintingKeepsInv ==
    ASSUME PbnInv, NEW p \in Proc, LinkPainting(p)
    PROVE  PbnInv'
  <1>1. PICK j : j = IF job[p].op = "order" THEN [job[p] EXCEPT !.at = "mark"] ELSE Idle
    OBVIOUS
  <1>2. /\ job[p].at = "link" /\ job[p].id \in Live /\ linked' = linked \cup {job[p].id}
        /\ job' = [job EXCEPT ![p] = j]
        /\ UNCHANGED <<orderly, paintings, ids, spoilt, artifacts, files>>
    BY <1>1 DEF LinkPainting, Step, Become, Files
  <1>3. /\ PaintingTypeOK /\ job[p] # Idle /\ job[p] \in PbnJob /\ PbnJobOK(job[p])
        /\ (orderly => artifacts = Expected(job[p]))
    BY <1>2, PbnAtWork
  <1>4. job[p].op \in {"attach", "order"} /\ job[p].drop = {}
    BY <1>2, <1>3 DEF PbnJobOK, PbnSteps, PbnJob
  <1>5. /\ j \in PbnJob \cup {Idle}
        /\ j # Idle => /\ j.op = "order" /\ j.at = "mark" /\ j.id = job[p].id /\ j.drop = {}
                       /\ j.role = job[p].role /\ job[p].op = "order"
    BY <1>1, <1>2, <1>3, <1>4 DEF PbnJob, Idle
  <1>6. j # Idle => PbnJobOK(j)
    BY <1>3, <1>5 DEF PbnJobOK, PbnSteps
  <1>7. /\ Held(j) = {} /\ Held(job[p]) = {} /\ ~Storage(j) /\ ~Replacing(j) /\ Dropped(j) = {}
        /\ ~Deleting(job[p]) /\ ~Deleting(j)
    BY <1>2, <1>3, <1>4, <1>5 DEF Held, Storage, Replacing, Dropped, Deleting
  <1>8. DropOK(j)
    BY <1>7 DEF DropOK
  <1>9. Expected(j) = UsedBut(0) /\ Expected(job[p]) = UsedBut(0)
    BY <1>3, <1>4, <1>5, <1>7 DEF Expected
  <1>10. p \notin Savers'
    BY <1>2, <1>3, <1>5 DEF Savers, PaintingTypeOK
  <1>11. linked' \subseteq PaintingId
    BY <1>2, <1>3 DEF PaintingTypeOK, Live
  <1> QED  BY <1>2, <1>3, <1>5, <1>6, <1>7, <1>8, <1>9, <1>10, <1>11, PbnQuiet DEF PaintingTypeOK

LEMMA PaintingFailsKeepsInv ==
    ASSUME PbnInv, NEW p \in Proc, PaintingFails(p)
    PROVE  PbnInv'
  <1>1. /\ job[p] # Idle /\ job' = [job EXCEPT ![p] = Idle] /\ orderly' = FALSE
        /\ spoilt' = spoilt \cup (IF job[p].op = "delete" THEN {job[p].id} ELSE {})
        /\ UNCHANGED <<paintings, linked, ids, artifacts, files>>
    BY DEF PaintingFails, Become, Files
  <1>2. PaintingTypeOK /\ job[p] \in PbnJob /\ PbnJobOK(job[p])
    BY <1>1 DEF PbnInv, PaintingTypeOK
  <1>3. job[p].op = "delete" => job[p].id \in PaintingId
    BY <1>2, PaintingNumbers DEF PaintingTypeOK, PbnJobOK, PaintingId
  <1>4. /\ Held(Idle) = {} /\ ~Storage(Idle) /\ ~Replacing(Idle) /\ Dropped(Idle) = {}
        /\ ~Deleting(Idle)
    BY DEF Held, Storage, Replacing, Dropped, Deleting
  <1>5. DropOK(Idle)
    BY <1>4 DEF DropOK
  <1>6. p \notin Savers'
    BY <1>1, <1>2 DEF Savers, PaintingTypeOK
  <1>7. spoilt' \subseteq PaintingId /\ (Deleting(job[p]) => job[p].id \in spoilt')
    BY <1>1, <1>2, <1>3 DEF Deleting, PaintingTypeOK
  <1> QED  BY <1>1, <1>2, <1>4, <1>5, <1>6, <1>7, PbnQuiet DEF PaintingTypeOK

LEMMA MarkOrderedKeepsInv ==
    ASSUME PbnInv, NEW p \in Proc, MarkOrdered(p)
    PROVE  PbnInv'
  <1>0. PICK i : i = job[p].id
    OBVIOUS
  <1>1. /\ job[p].at = "mark" /\ i \in Live /\ job' = [job EXCEPT ![p] = Idle]
        /\ paintings' = [paintings EXCEPT ![i].status = "ordered"]
        /\ UNCHANGED <<orderly, linked, ids, spoilt, artifacts, files>>
    BY <1>0 DEF MarkOrdered, Step, Become, Files
  <1>2. /\ PaintingTypeOK /\ job[p] # Idle /\ job[p] \in PbnJob /\ PbnJobOK(job[p])
        /\ (orderly => artifacts = Expected(job[p]))
        /\ (orderly => \A q \in Proc \ {p} : job[q] = Idle)
    BY <1>1, PbnAtWork
  <1>3. job[p].op = "order" /\ job[p].drop = {}
    BY <1>1, <1>2 DEF PbnJobOK, PbnSteps, PbnJob
  <1>4. /\ job'[p] = Idle /\ (\A q \in Proc \ {p} : job'[q] = job[q])
        /\ Held(Idle) = {} /\ ~Storage(Idle) /\ ~Replacing(Idle) /\ Dropped(Idle) = {} /\ ~Deleting(Idle)
        /\ Held(job[p]) = {} /\ ~Deleting(job[p])
    BY <1>1, <1>2, <1>3 DEF PaintingTypeOK, Held, Storage, Replacing, Dropped, Deleting
  <1>5. i \in PaintingId /\ paintings[i] \in Painting
    BY <1>1, <1>2 DEF PaintingTypeOK, Live
  <1>6. PICK row : row = [paintings[i] EXCEPT !.status = "ordered"]
    OBVIOUS
  <1>7. /\ row \in Painting /\ row # NoPainting /\ row.svg = paintings[i].svg
        /\ row.preview = paintings[i].preview /\ row.status = "ordered"
    BY <1>5, <1>6 DEF Painting, NoPainting
  <1>8. paintings' = [paintings EXCEPT ![i] = row]
    BY <1>1, <1>2, <1>5, <1>6 DEF PaintingTypeOK
  <1>9. /\ Live' = Live
        /\ \A k \in Live : /\ paintings'[k].svg = paintings[k].svg
                           /\ paintings'[k].preview = paintings[k].preview
                           /\ paintings'[k] = IF k = i THEN row ELSE paintings[k]
    BY <1>1, <1>2, <1>5, <1>7, <1>8 DEF Live, PaintingTypeOK
  <1>10. \A k \in Live : Keys(paintings'[k]) = Keys(paintings[k])
    BY <1>9 DEF Keys
  <1>11. \A q \in Proc : Held(job'[q]) = Held(job[q])
    BY <1>4
  <1>12. PaintingTypeOK'
    <2>1. paintings' \in [PaintingId -> Painting \cup {NoPainting}]
      BY <1>2, <1>7, <1>8 DEF PaintingTypeOK
    <2> QED  BY <1>1, <1>2, <1>4, <2>1 DEF PaintingTypeOK, PbnJobOK
  <1>13. ArtifactsApart'
    <2>1. \A q \in Proc : Storage(job'[q]) /\ job'[q].svgKey # NoFile => job'[q].svgKey # job'[q].previewKey
      BY <1>4 DEF PbnInv, ArtifactsApart
    <2>2. \A k \in Live' : /\ k <= ids /\ Keys(paintings'[k]) \subseteq 1..files
                           /\ paintings'[k].svg # paintings'[k].preview
      BY <1>9, <1>10 DEF PbnInv, ArtifactsApart
    <2>3. \A k \in Live', m \in Live' : k # m => Keys(paintings'[k]) \cap Keys(paintings'[m]) = {}
      BY <1>9, <1>10 DEF PbnInv, ArtifactsApart
    <2>4. \A q \in Proc : Held(job'[q]) \subseteq artifacts
      BY <1>11 DEF PbnInv, ArtifactsApart
    <2>5. \A q \in Proc, k \in Live' : Held(job'[q]) \cap Keys(paintings'[k]) = {}
      BY <1>9, <1>10, <1>11 DEF PbnInv, ArtifactsApart
    <2>6. \A q \in Proc, r \in Proc : q # r => Held(job'[q]) \cap Held(job'[r]) = {}
      BY <1>11 DEF PbnInv, ArtifactsApart
    <2> QED  BY <1>1, <2>1, <2>2, <2>3, <2>4, <2>5, <2>6 DEF ArtifactsApart
  <1>14. SeenApart'
    <2> SUFFICES ASSUME NEW q \in Proc, Replacing(job'[q]) PROVE SeenOK(job[q])'
      BY DEF SeenApart
    <2>1. job'[q] = job[q] /\ SeenOK(job[q])
      BY <1>4 DEF PbnInv, SeenApart
    <2> QED  BY <1>1, <1>9, <1>10, <1>11, <2>1 DEF SeenOK
  <1>15. DropsApart'
    <2> SUFFICES ASSUME NEW q \in Proc PROVE DropOK(job[q])'
      BY DEF DropsApart
    <2>1. CASE q = p
      BY <1>4, <2>1 DEF DropOK
    <2>2. CASE q # p
      BY <1>1, <1>4, <1>9, <1>10, <1>11, <2>2 DEF PbnInv, DropsApart, DropOK
    <2> QED  BY <2>1, <2>2
  <1>16. ArtifactsAreThere'
    <2> SUFFICES ASSUME NEW k \in Live \ spoilt, ~(Keys(paintings'[k]) \subseteq artifacts)
                 PROVE  \E q \in Proc : job'[q] # Idle /\ job'[q].op = "delete" /\ job'[q].id = k
      BY <1>1, <1>9 DEF ArtifactsAreThere
    <2>1. PICK q \in Proc : job[q] # Idle /\ job[q].op = "delete" /\ job[q].id = k
      BY <1>10 DEF PbnInv, ArtifactsAreThere
    <2> QED  BY <1>3, <1>4, <2>1
  <1>17. SavedWithinReach'
    <2>1. Saved' \subseteq Saved /\ Savers' \subseteq Savers
      BY <1>4, <1>7, <1>9 DEF Saved, Savers
    <2>2. Cardinality(Saved') <= Cardinality(Saved) /\ Cardinality(Saved') \in Nat
      BY <2>1, SaversAreFew, NoMore
    <2>3. Cardinality(Savers') <= Cardinality(Savers) /\ Cardinality(Savers') \in Nat
      BY <2>1, SaversAreFew, NoMore
    <2> QED  BY <2>2, <2>3, SaversAreFew, PaintingNumbers DEF PbnInv, SavedWithinReach
  <1>18. OneByOne'
    <2> SUFFICES ASSUME orderly PROVE OneByOne'
      BY <1>1 DEF OneByOne
    <2>1. \A q \in Proc : job'[q] = Idle
      BY <1>2, <1>4
    <2>2. artifacts = UsedBut(0)
      BY <1>2, <1>3, <1>4 DEF Expected
    <2>3. UsedBut(0)' = UsedBut(0)
      BY <1>9, <1>10 DEF UsedBut
    <2>4. Expected(Idle)' = UsedBut(0)'
      BY DEF Expected, Deleting
    <2>5. \A q \in Proc : artifacts' = Expected(job[q])' /\ ~Replacing(job'[q])
      BY <1>1, <1>4, <2>1, <2>2, <2>3, <2>4
    <2> QED  BY <2>1, <2>5 DEF OneByOne
  <1> QED  BY <1>12, <1>13, <1>14, <1>15, <1>16, <1>17, <1>18 DEF PbnInv

LEMMA PbnStartsWithInv ==
    ASSUME PaintingInit
    PROVE  PbnInv
  <1>0. PICK row : row = [status |-> "saved", origin |-> "customer", svg |-> 1, preview |-> 2]
    OBVIOUS
  <1>1. /\ paintings = [i \in PaintingId |-> IF i = 1 THEN row ELSE NoPainting]
        /\ linked = {} /\ artifacts = {1, 2} /\ ids = 1 /\ files = 2 /\ spoilt = {} /\ orderly = TRUE
        /\ job = [p \in Proc |-> Idle]
    BY <1>0 DEF PaintingInit, RequestsInit
  <1>2. {1, 2} \subseteq 1..2 /\ 2 \in 0..MaxArtifacts /\ 1 \in 0..MaxPaintings
    BY PaintingConstants
  <1>3. row \in Painting /\ row # NoPainting /\ Keys(row) = {1, 2} /\ row.svg # row.preview
        /\ row.status = "saved" /\ row.origin = "customer"
    BY <1>0, PaintingNumbers DEF Painting, NoPainting, Keys, NoFile
  <1>4. paintings[1] = row /\ Live = {1} /\ Live \ {0} = {1}
    BY <1>1, <1>3, PaintingNumbers DEF Live
  <1>5. \A p \in Proc : /\ job[p] = Idle /\ Held(job[p]) = {} /\ ~Storage(job[p])
                        /\ ~Replacing(job[p]) /\ Dropped(job[p]) = {}
    BY <1>1 DEF Held, Storage, Replacing, Dropped
  <1>6. PaintingTypeOK
    BY <1>1, <1>2, <1>3, <1>5 DEF PaintingTypeOK
  <1>7. ArtifactsApart
    BY <1>1, <1>2, <1>3, <1>4, <1>5 DEF ArtifactsApart
  <1>8. SeenApart /\ DropsApart
    BY <1>5 DEF SeenApart, DropsApart, DropOK
  <1>9. ArtifactsAreThere
    BY <1>1, <1>3, <1>4 DEF ArtifactsAreThere
  <1>10. SavedWithinReach
    <2>1. Savers = {} /\ Saved \subseteq {} \cup {1}
      BY <1>4, <1>5 DEF Savers, Saved
    <2>2. Cardinality(Savers) = 0 /\ Cardinality(Saved) <= 0 + 1 /\ Cardinality(Saved) \in Nat
      BY <2>1, FS_EmptySet, OneMore
    <2> QED  BY <2>2, PaintingNumbers DEF SavedWithinReach
  <1>11. OneByOne
    <2>1. UsedBut(0) = {1, 2}
      BY <1>3, <1>4, PaintingNumbers DEF UsedBut
    <2>2. Expected(Idle) = UsedBut(0)
      BY DEF Expected, Deleting
    <2> QED  BY <1>1, <1>5, <2>1, <2>2 DEF OneByOne
  <1> QED  BY <1>6, <1>7, <1>8, <1>9, <1>10, <1>11 DEF PbnInv

LEMMA PbnStepsKeepInv ==
    ASSUME PbnInv, [PaintingNext]_pbnVars
    PROVE  PbnInv'
  <1>1. ASSUME UNCHANGED pbnVars
        PROVE  PbnInv'
    <2>1. UNCHANGED <<paintings, linked, artifacts, ids, files, spoilt, orderly, job>>
      BY <1>1 DEF pbnVars
    <2>2. Live' = Live /\ Saved' = Saved /\ Savers' = Savers
      BY <2>1 DEF Live, Saved, Savers
    <2>3. PaintingTypeOK' /\ ArtifactsApart' /\ ArtifactsAreThere' /\ SavedWithinReach'
      BY <2>1, <2>2 DEF PbnInv, PaintingTypeOK, PbnJobOK, ArtifactsApart, ArtifactsAreThere, SavedWithinReach
    <2>4. SeenApart' /\ DropsApart'
      BY <2>1, <2>2 DEF PbnInv, SeenApart, SeenOK, DropsApart, DropOK
    <2>5. (\A i : UsedBut(i)' = UsedBut(i)) /\ AllIdle' = AllIdle
      BY <2>1, <2>2 DEF UsedBut, AllIdle
    <2>6. \A j : Expected(j)' = Expected(j)
      BY <2>5 DEF Expected
    <2>7. OneByOne'
      BY <2>1, <2>5, <2>6 DEF PbnInv, OneByOne
    <2> QED  BY <2>3, <2>4, <2>7 DEF PbnInv
  <1>2. ASSUME NEW p \in Proc,
               \E preview \in BOOLEAN :
                 \/ Create(p, preview) \/ AttachPbnToItem(p, preview)
                 \/ \E i \in PaintingId : ReplaceArtifacts(p, i, preview)
        PROVE  PbnInv'
    BY <1>2, PbnStartsKeepInv
  <1>3. ASSUME NEW p \in Proc, NEW i \in PaintingId, DeletePainting(p, i) \/ OrderPainting(p, i)
        PROVE  PbnInv'
    <2>1. CASE OrderPainting(p, i)
      <3>1. FALSE \in BOOLEAN /\ \E k \in PaintingId : ReplaceArtifacts(p, k, FALSE) \/ OrderPainting(p, k)
        BY <2>1
      <3> QED  BY <3>1, PbnStartsKeepInv
    <2> QED  BY <1>3, <2>1, PbnDeletionKeepsInv
  <1>4. ASSUME NEW p \in Proc,
               \/ AssertCanSave(p) \/ UploadArtifact(p) \/ InsertPainting(p)
               \/ OverwritePainting(p) \/ DeleteArtifact(p) \/ EndDiscard(p)
               \/ ErasePainting(p) \/ LinkPainting(p) \/ MarkOrdered(p) \/ PaintingFails(p)
        PROVE  PbnInv'
    BY <1>4, AssertCanSaveKeepsInv, UploadArtifactKeepsInv, InsertPaintingKeepsInv,
       OverwritePaintingKeepsInv, DeleteArtifactKeepsInv, EndDiscardKeepsInv,
       ErasePaintingKeepsInv, LinkPaintingKeepsInv, MarkOrderedKeepsInv, PaintingFailsKeepsInv
  <1> QED  BY <1>1, <1>2, <1>3, <1>4 DEF PaintingNext

\* Every painting has the files of its artifacts, handlers that come one by
\* one leave none behind, and a customer exceeds the limit by no more than the
\* requests under way besides one (paint-by-numbers.service.ts:190-249).
THEOREM PaintingsStayInOrder == PaintingSpec => []PaintingsInOrder
  <1>1. PbnInv => PaintingsInOrder
    <2> SUFFICES ASSUME PbnInv PROVE PaintingsInOrder
      OBVIOUS
    <2>1. WithinLimit
      <3>1. Saved = {i \in Live : paintings[i].status = "saved" /\ paintings[i].origin = "customer"}
        BY DEF Saved
      <3>2. Cardinality(Saved) + Cardinality(Savers) <= MaxPbnPerUser + Cardinality(Proc) - 1
        BY DEF PbnInv, SavedWithinReach
      <3>3. Cardinality(Saved) <= MaxPbnPerUser + Cardinality(Proc) - 1
        BY <3>2, SaversAreFew, PaintingNumbers
      <3> QED  BY <3>1, <3>3 DEF WithinLimit
    <2>2. ArtifactsAreUsed
      <3> SUFFICES ASSUME orderly, AllIdle PROVE artifacts = UNION {Keys(paintings[i]) : i \in Live}
        BY DEF ArtifactsAreUsed
      <3>1. PICK p \in Proc : job[p] = Idle
        BY SomeProcesses DEF AllIdle
      <3>2. artifacts = Expected(Idle)
        BY <3>1 DEF PbnInv, OneByOne
      <3>3. artifacts = UsedBut(0)
        BY <3>2 DEF Expected, Deleting
      <3>4. \A i \in Live : i # 0 /\ Keys(paintings[i]) \subseteq Artifact
        BY PaintingNumbers DEF PbnInv, PaintingTypeOK, Live, Painting, Keys
      <3>5. \A k : k \in UsedBut(0) <=> \E i \in Live : k \in Keys(paintings[i])
        BY <3>4 DEF UsedBut
      <3> QED  BY <3>3, <3>5
    <2> QED  BY <2>1, <2>2 DEF PaintingsInOrder, PbnInv
  <1> QED  BY <1>1, PbnStartsWithInv, PbnStepsKeepInv, PTL DEF PaintingSpec

\* The design of a painting that was bought changes only by a replacement that
\* read it before it was marked (paint-by-numbers.service.ts:216-219).
THEOREM BoughtDesignIsKept == PaintingSpec => OrderedDesignKept
  <1> DEFINE Kept == \A i \in Live : paintings[i].status = "ordered" /\ paintings'[i] # NoPainting
                        /\ Keys(paintings'[i]) # Keys(paintings[i]) =>
                    \E p \in Proc : job[p] # Idle /\ job[p].id = i /\ job[p].seen.status = "saved"
  <1>1. ASSUME PbnInv, [PaintingNext]_pbnVars
        PROVE  Kept \/ UNCHANGED pbnVars
    <2> SUFFICES ASSUME NEW i \in Live, paintings'[i] # NoPainting, PaintingNext,
                        Keys(paintings'[i]) # Keys(paintings[i])
                 PROVE  \E p \in Proc : job[p] # Idle /\ job[p].id = i /\ job[p].seen.status = "saved"
      BY <1>1
    <2>1. PaintingTypeOK /\ i \in PaintingId /\ paintings' # paintings
      BY <1>1 DEF PbnInv, Live
    <2>2. PICK p \in Proc : InsertPainting(p) \/ OverwritePainting(p) \/ ErasePainting(p) \/ MarkOrdered(p)
      BY <2>1 DEF PaintingNext, Create, AttachPbnToItem, ReplaceArtifacts, DeletePainting, OrderPainting,
         AssertCanSave, UploadArtifact, DeleteArtifact, EndDiscard, LinkPainting, PaintingFails, Rows
    <2>3. CASE InsertPainting(p)
      <3>1. i # ids + 1
        <4>1. i <= ids /\ i \in Nat /\ ids \in Nat
          BY <1>1, <2>1, PaintingNumbers DEF PbnInv, ArtifactsApart, PaintingTypeOK
        <4> QED  BY <4>1
      <3>2. paintings'[i] = paintings[i]
        BY <2>1, <2>3, <3>1 DEF InsertPainting, PaintingTypeOK
      <3> QED  BY <3>2
    <2>4. CASE OverwritePainting(p)
      <3>1. job[p].at = "overwrite" /\ job[p].id = i
        BY <2>1, <2>4 DEF OverwritePainting, PaintingTypeOK
      <3>2. job[p] # Idle /\ PbnJobOK(job[p]) /\ job[p].op \in {"save", "attach", "replace", "delete", "order"}
        BY <1>1, <3>1, PbnAtWork
      <3>3. job[p].op = "replace"
        BY <3>1, <3>2 DEF PbnJobOK, PbnSteps
      <3> QED  BY <3>1, <3>2, <3>3 DEF PbnJobOK
    <2>5. CASE ErasePainting(p)
      BY <2>1, <2>5 DEF ErasePainting, PaintingTypeOK
    <2>6. CASE MarkOrdered(p)
      <3>1. Keys(paintings'[i]) = Keys(paintings[i])
        BY <2>1, <2>6 DEF MarkOrdered, PaintingTypeOK, Keys, Live, Painting
      <3> QED  BY <3>1
    <2> QED  BY <2>2, <2>3, <2>4, <2>5, <2>6
  <1>2. PbnInv /\ [PaintingNext]_pbnVars => [Kept]_pbnVars
    BY <1>1
  <1>3. PaintingSpec => [][Kept]_pbnVars
    BY <1>2, PbnStartsWithInv, PbnStepsKeepInv, PTL DEF PaintingSpec
  <1> QED  BY <1>3 DEF OrderedDesignKept

-----------------------------------------------------------------------------
(* The images that are printed.                                            *)

Columns(it) == {it.image, it.source, it.upscaled}

\* The keys that a handler read, that it stored for the item, and of these
\* what will be a source, and that it stored for the generation.
ReadKeys(j) == IF j = Idle THEN {} ELSE Columns(j.seen)
StoredKeys(j) == IF j # Idle /\ j.op \in {"enhance", "upload"} THEN {j.key, j.base} \ {NoKey} ELSE {}
SourceToBe(j) == IF j # Idle /\ j.op = "upload" THEN {j.key} \ {NoKey} ELSE {}
ArtToBe(j) == IF j # Idle /\ j.op = "replace" THEN {j.key} \ {NoKey} ELSE {}

\* What an enhancement or a revert may delete.
Disposable(it) == {it.image, it.upscaled} \ {NoKey, it.source}

PrintJobOK(j) ==
    /\ j.op = "enhance" =>
          /\ j.from \in Key \cup {Shopify}
          /\ j.at = "fetch" => j.base = NoKey
          /\ j.at # "drop" => j.key = NoKey /\ j.drop = {}
          /\ j.at = "drop" => j.key # NoKey /\ (j.upscale => j.base # NoKey)
          /\ ~j.upscale => j.base = NoKey
    /\ j.op = "revert" => j.at = "drop" /\ j.key = NoKey /\ j.base = NoKey
    /\ j.op \in {"upload", "replace"} =>
          /\ j.at \in {"put", "drop"} /\ j.base = NoKey
          /\ j.at = "put" <=> j.key = NoKey
    /\ j.op \in {"enhance", "revert"} => j.drop \subseteq Disposable(j.seen)

PrintTypeOK ==
    /\ item \in Item /\ art \in KeyOrNone
    /\ keys \in 0..MaxKeys /\ stored \subseteq 1..keys
    /\ original \in [Key -> Key \cup {Shopify, Nothing}]
    /\ \A k \in 1..keys : original[k] # Nothing
    /\ clean \in BOOLEAN
    /\ job \in [Proc -> Job \cup {Idle}]
    /\ \A p \in Proc : job[p] # Idle => PrintJobOK(job[p])

\* A key is of the item or of its generation; that of an upload under way is
\* in no row; and what was a source once is none again.
PrintKeysApart ==
    /\ Columns(item) \subseteq 0..keys /\ art \in 0..keys
    /\ art # NoKey => art \notin Columns(item)
    /\ \A p \in Proc :
          /\ ReadKeys(job[p]) \cup StoredKeys(job[p]) \cup ArtToBe(job[p]) \subseteq 0..keys
          /\ art # NoKey => art \notin ReadKeys(job[p]) \cup StoredKeys(job[p])
          /\ (ArtToBe(job[p]) \cup SourceToBe(job[p])) \cap Columns(item) = {}
          /\ job[p] # Idle => item.source \notin Disposable(job[p].seen)
    /\ \A p, q \in Proc :
          /\ ArtToBe(job[p]) \cap (ReadKeys(job[q]) \cup StoredKeys(job[q])) = {}
          /\ SourceToBe(job[p]) \cap ReadKeys(job[q]) = {}
          /\ p # q => SourceToBe(job[p]) \cap StoredKeys(job[q]) = {}

\* What the rows will have when a handler has written.
RowsAfter(j) ==
    (CASE j.op = "enhance" -> {j.key, item.source, IF j.base = NoKey THEN item.upscaled ELSE j.base}
       [] j.op = "revert" -> {item.source}
       [] j.op = "upload" -> {j.key, item.upscaled}
       [] j.op = "replace" -> Columns(item))
      \cup {IF j.op = "replace" THEN j.key ELSE art}

\* What an item with a source is printed from.
FromSource(from, upscale) ==
    from = item.source \/ (~upscale /\ item.upscaled # NoKey /\ from = original[item.upscaled])

\* What the rows say, and a handler that is the only one there is.
RowsOK ==
    /\ item.upscaled # NoKey => item.upscaled \notin {item.image, item.source}
    /\ item.source # NoKey =>
          /\ original[item.source] = item.source /\ item.image # NoKey
          /\ \/ original[item.image] = item.source
             \/ item.upscaled # NoKey /\ original[item.image] = original[item.upscaled]

LoneJob(j) ==
    /\ j.seen = item
    /\ j.at = "drop" =>
          /\ RowsAfter(j) \ {NoKey} \subseteq stored
          /\ RowsAfter(j) \cap j.drop = {}
    /\ j.op = "upload" =>
          /\ j.drop \subseteq {item.image, item.source} \ {NoKey}
          /\ j.key # NoKey => original[j.key] = j.key
    /\ j.op = "replace" => j.drop \subseteq {art} \ {NoKey}
    /\ j.op = "enhance" =>
          /\ {j.key, j.base} \ {NoKey} \subseteq stored \ Columns(item)
          /\ j.key # NoKey => j.key # j.base
    /\ j.op = "enhance" /\ item.source # NoKey =>
          /\ j.at = "fetch" =>
                \/ j.from = item.source
                \/ ~j.upscale /\ item.upscaled # NoKey /\ j.from = item.upscaled
          /\ j.at # "fetch" => FromSource(j.from, j.upscale)
          /\ \A k \in {j.key, j.base} \ {NoKey} : original[k] = j.from

\* Handlers that came one by one: the one under way read the rows as they are.
RowsInOrder ==
    clean =>
        /\ RowsOK
        /\ \A p, q \in Proc : job[p] # Idle /\ job[q] # Idle => p = q
        /\ (\A p \in Proc : job[p] = Idle \/ job[p].at # "drop") =>
              (Columns(item) \cup {art}) \ {NoKey} \subseteq stored
        /\ \A p \in Proc : job[p] # Idle => LoneJob(job[p])

PrintInv == PrintTypeOK /\ PrintKeysApart /\ RowsInOrder

LEMMA PrintAtWork ==
    ASSUME PrintTypeOK, NEW p \in Proc, job[p] # Idle
    PROVE  job[p] \in Job /\ PrintJobOK(job[p])
  BY DEF PrintTypeOK

LEMMA PrintNumbers ==
    /\ MaxKeys \in Nat \ {0} /\ Shopify \notin Nat /\ Nothing \notin Nat /\ Shopify # Nothing
    /\ KeyOrNone \subseteq Nat /\ Key \subseteq Nat /\ NoKey = 0 /\ NoKey \notin Key
  BY PrintConstants DEF KeyOrNone, Key, NoKey

\* A handler starts, goes on or ends, and writes nothing.
LEMMA PrintKeysQuiet ==
    ASSUME PrintKeysApart, PrintTypeOK, NEW p \in Proc, NEW j, job' = [job EXCEPT ![p] = j],
           UNCHANGED <<item, art, keys>>,
           ReadKeys(j) \subseteq ReadKeys(job[p]) \cup Columns(item),
           StoredKeys(j) \subseteq StoredKeys(job[p]),
           ArtToBe(j) \subseteq ArtToBe(job[p]), SourceToBe(j) \subseteq SourceToBe(job[p]),
           SourceToBe(j) \cap ReadKeys(j) = {}, ArtToBe(j) \cap ReadKeys(j) = {},
           j # Idle => item.source \notin Disposable(j.seen)
    PROVE  PrintKeysApart'
  <1>1. job'[p] = j /\ \A q \in Proc \ {p} : job'[q] = job[q]
    BY DEF PrintTypeOK
  <1>2. /\ Columns(item)' = Columns(item)
        /\ \A q \in Proc : /\ ReadKeys(job'[q]) \subseteq ReadKeys(job[q]) \cup Columns(item)
                           /\ StoredKeys(job'[q]) \subseteq StoredKeys(job[q])
                           /\ ArtToBe(job'[q]) \subseteq ArtToBe(job[q])
                           /\ SourceToBe(job'[q]) \subseteq SourceToBe(job[q])
                           /\ job'[q] # Idle => item'.source \notin Disposable(job'[q].seen)
    BY <1>1 DEF PrintKeysApart, Columns
  <1>3. /\ Columns(item)' \subseteq 0..keys' /\ art' \in 0..keys'
        /\ art' # NoKey => art' \notin Columns(item)'
    BY <1>2 DEF PrintKeysApart
  <1>4. ASSUME NEW q \in Proc
        PROVE  /\ ReadKeys(job'[q]) \cup StoredKeys(job'[q]) \cup ArtToBe(job'[q]) \subseteq 0..keys'
               /\ art' # NoKey => art' \notin ReadKeys(job'[q]) \cup StoredKeys(job'[q])
               /\ (ArtToBe(job'[q]) \cup SourceToBe(job'[q])) \cap Columns(item)' = {}
    BY <1>2 DEF PrintKeysApart
  <1>5. ASSUME NEW q \in Proc, NEW r \in Proc
        PROVE  /\ ArtToBe(job'[q]) \cap (ReadKeys(job'[r]) \cup StoredKeys(job'[r])) = {}
               /\ SourceToBe(job'[q]) \cap ReadKeys(job'[r]) = {}
               /\ q # r => SourceToBe(job'[q]) \cap StoredKeys(job'[r]) = {}
    BY <1>2 DEF PrintKeysApart
  <1> QED  BY <1>2, <1>3, <1>4, <1>5
           DEF PrintKeysApart, Columns, ReadKeys, StoredKeys, ArtToBe, SourceToBe, Disposable

\* A file is stored under the next key.
LEMMA PrintKeysPut ==
    ASSUME PrintKeysApart, PrintTypeOK, NEW p \in Proc, NEW j, job' = [job EXCEPT ![p] = j],
           UNCHANGED <<item, art>>, keys' = keys + 1,
           ReadKeys(j) \subseteq ReadKeys(job[p]),
           StoredKeys(j) \subseteq StoredKeys(job[p]) \cup {keys'},
           ArtToBe(j) \subseteq ArtToBe(job[p]) \cup {keys'},
           SourceToBe(j) \subseteq SourceToBe(job[p]) \cup {keys'},
           ArtToBe(j) = {} \/ StoredKeys(j) = {},
           j # Idle => job[p] # Idle /\ j.seen = job[p].seen
    PROVE  PrintKeysApart'
  <1>1. job'[p] = j /\ \A q \in Proc \ {p} : job'[q] = job[q]
    BY DEF PrintTypeOK
  <1>2. keys \in Nat /\ keys' \notin 0..keys /\ 0..keys \subseteq 0..keys' /\ keys' \in 0..keys'
    BY PrintNumbers DEF PrintTypeOK
  <1>3. /\ Columns(item)' = Columns(item)
        /\ \A q \in Proc : /\ ReadKeys(job'[q]) \subseteq ReadKeys(job[q])
                           /\ StoredKeys(job'[q]) \subseteq StoredKeys(job[q]) \cup {keys'}
                           /\ ArtToBe(job'[q]) \subseteq ArtToBe(job[q]) \cup {keys'}
                           /\ SourceToBe(job'[q]) \subseteq SourceToBe(job[q]) \cup {keys'}
                           /\ (ArtToBe(job'[q]) = {} \/ StoredKeys(job'[q]) = {} \/ q # p)
                           /\ job'[q] # Idle => item'.source \notin Disposable(job'[q].seen)
    BY <1>1 DEF PrintKeysApart, Columns
  <1>4. /\ Columns(item)' \subseteq 0..keys' /\ art' \in 0..keys'
        /\ art' # NoKey => art' \notin Columns(item)'
    BY <1>2, <1>3 DEF PrintKeysApart
  <1>5. /\ Columns(item) \subseteq 0..keys /\ art \in 0..keys
        /\ \A q \in Proc : ReadKeys(job[q]) \cup StoredKeys(job[q]) \cup ArtToBe(job[q]) \subseteq 0..keys
        /\ \A q \in Proc : SourceToBe(job[q]) \subseteq StoredKeys(job[q])
    BY DEF PrintKeysApart, SourceToBe, StoredKeys
  <1>6. ASSUME NEW q \in Proc
        PROVE  /\ ReadKeys(job'[q]) \cup StoredKeys(job'[q]) \cup ArtToBe(job'[q]) \subseteq 0..keys'
               /\ art' # NoKey => art' \notin ReadKeys(job'[q]) \cup StoredKeys(job'[q])
               /\ (ArtToBe(job'[q]) \cup SourceToBe(job'[q])) \cap Columns(item)' = {}
    <2>1. ReadKeys(job'[q]) \cup StoredKeys(job'[q]) \cup ArtToBe(job'[q]) \subseteq 0..keys'
      BY <1>2, <1>3, <1>5
    <2>2. art' # NoKey => art' \notin ReadKeys(job'[q]) \cup StoredKeys(job'[q])
      BY <1>2, <1>3, <1>5 DEF PrintKeysApart
    <2>3. (ArtToBe(job'[q]) \cup SourceToBe(job'[q])) \cap Columns(item)' = {}
      BY <1>2, <1>3, <1>5 DEF PrintKeysApart
    <2> QED  BY <2>1, <2>2, <2>3
  <1>7. ASSUME NEW q \in Proc, NEW r \in Proc
        PROVE  /\ ArtToBe(job'[q]) \cap (ReadKeys(job'[r]) \cup StoredKeys(job'[r])) = {}
               /\ SourceToBe(job'[q]) \cap ReadKeys(job'[r]) = {}
               /\ q # r => SourceToBe(job'[q]) \cap StoredKeys(job'[r]) = {}
    <2>1. SourceToBe(job'[q]) \cap ReadKeys(job'[r]) = {}
      <3>1. keys' \notin ReadKeys(job'[r])
        BY <1>2, <1>3, <1>5
      <3>2. SourceToBe(job[q]) \cap ReadKeys(job[r]) = {}
        BY DEF PrintKeysApart
      <3> QED  BY <1>3, <3>1, <3>2
    <2>2. ArtToBe(job'[q]) \cap ReadKeys(job'[r]) = {}
      BY <1>2, <1>3, <1>5 DEF PrintKeysApart
    <2>3. ArtToBe(job'[q]) \cap StoredKeys(job'[r]) = {}
      <3>1. keys' \in ArtToBe(job'[q]) => q = p
        BY <1>1, <1>2, <1>5
      <3>2. keys' \in StoredKeys(job'[r]) => r = p
        BY <1>1, <1>2, <1>5
      <3> QED  BY <1>2, <1>3, <1>5, <3>1, <3>2 DEF PrintKeysApart
    <2>4. q # r => SourceToBe(job'[q]) \cap StoredKeys(job'[r]) = {}
      <3>1. keys' \in SourceToBe(job'[q]) => q = p
        BY <1>1, <1>2, <1>5
      <3>2. keys' \in StoredKeys(job'[r]) => r = p
        BY <1>1, <1>2, <1>5
      <3> QED  BY <1>2, <1>3, <1>5, <3>1, <3>2 DEF PrintKeysApart
    <2> QED  BY <2>1, <2>2, <2>3, <2>4
  <1>8. /\ Columns(item)' = Columns(item')
        /\ \A q \in Proc : /\ ReadKeys(job[q])' = ReadKeys(job'[q])
                           /\ StoredKeys(job[q])' = StoredKeys(job'[q])
                           /\ ArtToBe(job[q])' = ArtToBe(job'[q])
                           /\ SourceToBe(job[q])' = SourceToBe(job'[q])
                           /\ Disposable(job[q].seen)' = Disposable(job'[q].seen)
    BY DEF Columns, ReadKeys, StoredKeys, ArtToBe, SourceToBe, Disposable
  <1>9. \A q \in Proc :
            /\ ReadKeys(job'[q]) \cup StoredKeys(job'[q]) \cup ArtToBe(job'[q]) \subseteq 0..keys'
            /\ art' # NoKey => art' \notin ReadKeys(job'[q]) \cup StoredKeys(job'[q])
            /\ (ArtToBe(job'[q]) \cup SourceToBe(job'[q])) \cap Columns(item)' = {}
    BY <1>6
  <1>11. \A q \in Proc : job'[q] # Idle => item'.source \notin Disposable(job'[q].seen)
    BY <1>3
  <1>10. \A q, r \in Proc :
            /\ ArtToBe(job'[q]) \cap (ReadKeys(job'[r]) \cup StoredKeys(job'[r])) = {}
            /\ SourceToBe(job'[q]) \cap ReadKeys(job'[r]) = {}
            /\ q # r => SourceToBe(job'[q]) \cap StoredKeys(job'[r]) = {}
    BY <1>7
  <1> QED  BY <1>4, <1>8, <1>9, <1>10, <1>11 DEF PrintKeysApart

LEMMA PrintInitInv == PrintInit => PrintInv
  <1> SUFFICES ASSUME PrintInit PROVE PrintInv
    OBVIOUS
  <1>1. /\ job = [p \in Proc |-> Idle] /\ clean = TRUE
        /\ item = [image |-> NoKey, source |-> NoKey, upscaled |-> NoKey]
        /\ (art = NoKey /\ keys = 0) \/ (art = 1 /\ keys = 1)
        /\ stored = {art} \ {NoKey}
        /\ original = [k \in Key |-> IF k = art THEN k ELSE Nothing]
    BY DEF PrintInit, RequestsInit
  <1>2. \A p \in Proc : job[p] = Idle
    BY <1>1
  <1>3. PrintTypeOK
    <2>1. item \in Item
      BY <1>1 DEF Item, KeyOrNone
    <2>2. art \in KeyOrNone /\ keys \in 0..MaxKeys /\ stored \subseteq 1..keys /\ 1..keys \subseteq {art} \cap Key
      BY <1>1, PrintNumbers DEF KeyOrNone, Key, NoKey
    <2>3. original \in [Key -> Key \cup {Shopify, Nothing}] /\ \A k \in 1..keys : original[k] # Nothing
      BY <1>1, <2>2, PrintNumbers
    <2> QED  BY <1>1, <1>2, <2>1, <2>2, <2>3 DEF PrintTypeOK
  <1>4. Columns(item) = {NoKey} /\ \A p \in Proc : /\ ReadKeys(job[p]) = {} /\ StoredKeys(job[p]) = {}
                                                   /\ ArtToBe(job[p]) = {} /\ SourceToBe(job[p]) = {}
    BY <1>1, <1>2 DEF Columns, ReadKeys, StoredKeys, ArtToBe, SourceToBe
  <1>5. PrintKeysApart
    BY <1>1, <1>2, <1>4 DEF PrintKeysApart, NoKey
  <1>6. RowsInOrder
    BY <1>1, <1>2, <1>4 DEF RowsInOrder, RowsOK
  <1> QED  BY <1>3, <1>5, <1>6 DEF PrintInv

LEMMA PrintRowsInOrder ==
    ASSUME PrintInv, NEW p \in Proc, NEW j, job' = [job EXCEPT ![p] = j],
           clean' => clean /\ (job[p] # Idle \/ AllIdle),
           clean' => RowsOK',
           clean' /\ j # Idle => LoneJob(j)',
           clean' /\ (j = Idle \/ j.at # "drop") =>
                (Columns(item)' \cup {art'}) \ {NoKey} \subseteq stored'
    PROVE  RowsInOrder'
  <1> SUFFICES ASSUME clean'
               PROVE  /\ RowsOK'
                      /\ \A q, r \in Proc : job'[q] # Idle /\ job'[r] # Idle => q = r
                      /\ (\A q \in Proc : job'[q] = Idle \/ job'[q].at # "drop") =>
                            (Columns(item)' \cup {art'}) \ {NoKey} \subseteq stored'
                      /\ \A q \in Proc : job'[q] # Idle => LoneJob(job[q])'
    BY DEF RowsInOrder
  <1>1. job'[p] = j /\ \A q \in Proc \ {p} : job'[q] = job[q]
    BY DEF PrintInv, PrintTypeOK
  <1>2. \A q \in Proc \ {p} : job'[q] = Idle
    BY <1>1 DEF PrintInv, RowsInOrder, AllIdle
  <1>3. j # Idle => LoneJob(job[p])'
    <2>1. j # Idle => LoneJob(j)'
      OBVIOUS
    <2> QED  BY <1>1, <2>1 DEF LoneJob, RowsAfter, FromSource
  <1> QED  BY <1>1, <1>2, <1>3

LEMMA PrintTypes ==
    ASSUME PrintTypeOK, NEW p \in Proc, NEW j \in Job \cup {Idle},
           job' = [job EXCEPT ![p] = j], j # Idle => PrintJobOK(j)
    PROVE  /\ job' \in [Proc -> Job \cup {Idle}]
           /\ (\A q \in Proc : job[q] # Idle => PrintJobOK(job[q]))'
  <1>1. job' \in [Proc -> Job \cup {Idle}]
    BY DEF PrintTypeOK
  <1>2. \A q \in Proc : job'[q] # Idle => PrintJobOK(job'[q])
    BY DEF PrintTypeOK
  <1>3. \A q \in Proc : PrintJobOK(job[q])' <=> PrintJobOK(job'[q])
    BY DEF PrintJobOK
  <1> QED  BY <1>1, <1>2, <1>3

\* A handler starts, with the rows as it reads them.
LEMMA PrintTakeKeepsInv ==
    ASSUME PrintInv, NEW p \in Proc, NEW j \in Job, Take(p, j), PrintJobOK(j),
           UNCHANGED <<item, art, fileVars>>,
           j.seen = item, j.key = NoKey, j.base = NoKey,
           j.at = "drop" => j.op = "revert" /\ j.drop = Disposable(item),
           j.op = "upload" => j.drop \subseteq {item.image, item.source} \ {NoKey},
           j.op = "replace" => j.drop \subseteq {art} \ {NoKey},
           j.op = "enhance" => j.at = "fetch" /\ j.from = Input(item, j.upscale)
    PROVE  PrintInv'
  <1>1. /\ PrintTypeOK /\ job[p] = Idle /\ job' = [job EXCEPT ![p] = j]
        /\ clean' = (clean /\ AllIdle)
        /\ UNCHANGED <<item, art, stored, original, keys>>
    BY DEF PrintInv, Take, Dispatch, Alone, fileVars
  <1>2. PrintTypeOK'
    <2>1. clean' \in BOOLEAN
      BY <1>1 DEF PrintTypeOK
    <2>2. /\ job' \in [Proc -> Job \cup {Idle}]
          /\ (\A q \in Proc : job[q] # Idle => PrintJobOK(job[q]))'
      BY <1>1, PrintTypes
    <2> QED  BY <1>1, <2>1, <2>2 DEF PrintTypeOK
  <1>3. PrintKeysApart'
    <2>1. /\ ReadKeys(j) \subseteq Columns(item) /\ StoredKeys(j) = {} /\ ArtToBe(j) = {} /\ SourceToBe(j) = {}
          /\ item.source \notin Disposable(j.seen)
      BY DEF ReadKeys, StoredKeys, ArtToBe, SourceToBe, Disposable
    <2> QED  BY <1>1, <2>1, PrintKeysQuiet DEF PrintInv
  <1>4. RowsInOrder'
    <2>1. clean' => clean /\ AllIdle
      BY <1>1
    <2>2. clean' => RowsOK' /\ (Columns(item)' \cup {art'}) \ {NoKey} \subseteq stored'
      <3>1. clean /\ AllIdle => RowsOK /\ (Columns(item) \cup {art}) \ {NoKey} \subseteq stored
        BY DEF PrintInv, RowsInOrder, AllIdle
      <3> QED  BY <1>1, <2>1, <3>1 DEF RowsOK, Columns
    <2>3. ASSUME clean'
          PROVE  LoneJob(j)
      <3>1. (Columns(item) \cup {art}) \ {NoKey} \subseteq stored
        BY <2>1, <2>3 DEF PrintInv, RowsInOrder, AllIdle
      <3>2. j.at = "drop" => /\ RowsAfter(j) \ {NoKey} \subseteq stored
                             /\ RowsAfter(j) \cap j.drop = {}
        <4>1. art # NoKey => art \notin Columns(item)
          BY DEF PrintInv, PrintKeysApart
        <4>2. j.op = "revert" => RowsAfter(j) = {item.source, art}
          BY DEF RowsAfter
        <4> QED  BY <3>1, <4>1, <4>2 DEF Disposable, Columns
      <3>3. j.op = "enhance" /\ item.source # NoKey =>
                  \/ j.from = item.source
                  \/ ~j.upscale /\ item.upscaled # NoKey /\ j.from = item.upscaled
        <4>1. item.source # NoKey => ResolveOriginal(item, art) = item.source
          BY DEF ResolveOriginal
        <4>2. j.upscale \in BOOLEAN
          BY DEF Job
        <4> QED  BY <4>1, <4>2 DEF Input
      <3> QED  BY <3>2, <3>3 DEF LoneJob
    <2>4. clean' => LoneJob(j)'
      BY <1>1, <2>3 DEF LoneJob, RowsAfter, FromSource, Columns
    <2> QED  BY <1>1, <2>1, <2>2, <2>4, PrintRowsInOrder
  <1> QED  BY <1>2, <1>3, <1>4 DEF PrintInv

LEMMA PrintStartsKeepInv ==
    ASSUME PrintInv, NEW p \in Proc,
           \/ \E upscale \in BOOLEAN : ApplyEnhance(p, upscale)
           \/ RevertEnhance(p) \/ UpdateItemPrintImage(p) \/ ReplaceItemGenerationImage(p)
    PROVE  PrintInv'
  <1>1. PrintTypeOK /\ item \in Item /\ art \in KeyOrNone
    BY DEF PrintInv, PrintTypeOK
  <1>2. {item.image, item.source, item.upscaled} \subseteq KeyOrNone /\ KeyOrNone \ {NoKey} = Key
    BY <1>1, PrintNumbers DEF Item, KeyOrNone
  <1>3. ASSUME NEW upscale \in BOOLEAN, ApplyEnhance(p, upscale)
        PROVE  PrintInv'
    <2>1. PICK from : from = Input(item, upscale)
      OBVIOUS
    <2>2. from \in Key \cup {Shopify}
      <3>1. Input(item, upscale) # Nothing
        BY <1>3 DEF ApplyEnhance
      <3>2. HasShopify \in BOOLEAN
        BY PrintConstants
      <3>3. ResolveOriginal(item, art) \in Key \cup {Shopify, Nothing}
        BY <1>1, <1>2, <3>2 DEF ResolveOriginal
      <3> QED  BY <1>2, <2>1, <3>1, <3>3 DEF Input
    <2>3. PICK j : j = [Start("enhance", "fetch") EXCEPT !.upscale = upscale, !.from = from]
      OBVIOUS
    <2>4. /\ j \in Job /\ j.op = "enhance" /\ j.at = "fetch" /\ j.seen = item /\ j.upscale = upscale
          /\ j.from = from /\ j.key = NoKey /\ j.base = NoKey /\ j.drop = {}
      BY <1>1, <2>2, <2>3, PrintNumbers DEF Start, Job, KeyOrNone
    <2>5. PrintJobOK(j)
      BY <2>2, <2>4 DEF PrintJobOK
    <2> QED  BY <1>3, <2>1, <2>3, <2>4, <2>5, PrintTakeKeepsInv DEF ApplyEnhance
  <1>4. CASE RevertEnhance(p)
    <2>1. PICK drop : drop = {item.image, item.upscaled} \ {NoKey, item.source}
      OBVIOUS
    <2>2. drop \subseteq Key /\ drop = Disposable(item)
      BY <1>2, <2>1 DEF Disposable
    <2>3. PICK j : j = [Start("revert", "drop") EXCEPT !.drop = drop]
      OBVIOUS
    <2>4. /\ j \in Job /\ j.op = "revert" /\ j.at = "drop" /\ j.seen = item
          /\ j.key = NoKey /\ j.base = NoKey /\ j.drop = drop
      BY <1>1, <2>2, <2>3 DEF Start, Job, KeyOrNone
    <2>5. PrintJobOK(j)
      BY <2>2, <2>4 DEF PrintJobOK
    <2> QED  BY <1>4, <2>1, <2>2, <2>3, <2>4, <2>5, PrintTakeKeepsInv DEF RevertEnhance
  <1>5. CASE UpdateItemPrintImage(p)
    <2>1. PICK drop : drop = {item.image, item.source} \ {NoKey}
      OBVIOUS
    <2>2. drop \subseteq Key
      BY <1>2, <2>1
    <2>3. PICK j : j = [Start("upload", "put") EXCEPT !.drop = drop]
      OBVIOUS
    <2>4. /\ j \in Job /\ j.op = "upload" /\ j.at = "put" /\ j.seen = item
          /\ j.key = NoKey /\ j.base = NoKey /\ j.drop = drop
      BY <1>1, <2>2, <2>3 DEF Start, Job, KeyOrNone
    <2>5. PrintJobOK(j)
      BY <2>4 DEF PrintJobOK
    <2> QED  BY <1>5, <2>1, <2>3, <2>4, <2>5, PrintTakeKeepsInv DEF UpdateItemPrintImage
  <1>6. CASE ReplaceItemGenerationImage(p)
    <2>1. PICK drop : drop = {art}
      OBVIOUS
    <2>2. drop \subseteq Key /\ art # NoKey
      BY <1>1, <1>6, <2>1 DEF ReplaceItemGenerationImage, KeyOrNone
    <2>3. PICK j : j = [Start("replace", "put") EXCEPT !.drop = drop]
      OBVIOUS
    <2>4. /\ j \in Job /\ j.op = "replace" /\ j.at = "put" /\ j.seen = item
          /\ j.key = NoKey /\ j.base = NoKey /\ j.drop = drop
      BY <1>1, <2>2, <2>3 DEF Start, Job, KeyOrNone
    <2>5. PrintJobOK(j)
      BY <2>4 DEF PrintJobOK
    <2> QED  BY <1>6, <2>1, <2>2, <2>3, <2>4, <2>5, PrintTakeKeepsInv DEF ReplaceItemGenerationImage
  <1> QED  BY <1>3, <1>4, <1>5, <1>6

LEMMA FetchKeepsInv ==
    ASSUME PrintInv, NEW p \in Proc, Fetch(p)
    PROVE  PrintInv'
  <1>1. /\ PrintTypeOK /\ job[p].op = "enhance" /\ job[p].at = "fetch" /\ job[p] # Idle
        /\ UNCHANGED <<item, art, stored, original, keys, clean>>
    BY DEF PrintInv, Fetch, At, fileVars, Idle
  <1>2. job[p] \in Job /\ PrintJobOK(job[p])
    BY <1>1, PrintAtWork
  <1>3. PICK from : from = IF job[p].from = Shopify THEN Shopify ELSE original[job[p].from]
    OBVIOUS
  <1>4. from \in Key \cup {Shopify}
    <2>1. job[p].from \in stored \cup {Shopify} /\ stored \subseteq 1..keys /\ 1..keys \subseteq Key
      BY <1>1, PrintNumbers DEF Fetch, PrintTypeOK, Key
    <2>2. \A k \in 1..keys : original[k] \in Key \cup {Shopify}
      BY <1>1, <2>1 DEF PrintTypeOK
    <2> QED  BY <1>3, <2>1, <2>2
  <1>5. PICK j : j = [job[p] EXCEPT !.at = "put", !.from = from]
    OBVIOUS
  <1>6. /\ j \in Job /\ j.op = "enhance" /\ j.at = "put" /\ j.from = from /\ j.seen = job[p].seen
        /\ j.upscale = job[p].upscale /\ j.key = job[p].key /\ j.base = job[p].base
        /\ j.drop = job[p].drop
    BY <1>1, <1>2, <1>4, <1>5 DEF Job, KeyOrNone
  <1>7. job' = [job EXCEPT ![p] = j]
    BY <1>3, <1>5 DEF Fetch, Become
  <1>8. PrintJobOK(j) /\ j # Idle /\ j.key = NoKey /\ j.base = NoKey
    BY <1>1, <1>2, <1>4, <1>6 DEF PrintJobOK, Idle
  <1>9. PrintTypeOK'
    <2>1. /\ job' \in [Proc -> Job \cup {Idle}]
          /\ (\A q \in Proc : job[q] # Idle => PrintJobOK(job[q]))'
      BY <1>1, <1>6, <1>7, <1>8, PrintTypes
    <2> QED  BY <1>1, <2>1 DEF PrintTypeOK
  <1>10. PrintKeysApart'
    <2>1. /\ ReadKeys(j) = ReadKeys(job[p]) /\ StoredKeys(j) = {} /\ ArtToBe(j) = {} /\ SourceToBe(j) = {}
          /\ item.source \notin Disposable(j.seen)
      BY <1>1, <1>6, <1>8 DEF ReadKeys, StoredKeys, ArtToBe, SourceToBe, PrintInv, PrintKeysApart
    <2> QED  BY <1>1, <1>7, <2>1, PrintKeysQuiet DEF PrintInv
  <1>11. RowsInOrder'
    <2>1. ASSUME clean
          PROVE  RowsOK /\ LoneJob(job[p]) /\ (Columns(item) \cup {art}) \ {NoKey} \subseteq stored
      BY <1>1, <2>1 DEF PrintInv, RowsInOrder
    <2>2. ASSUME clean
          PROVE  LoneJob(j)
      <3>1. item.source # NoKey => FromSource(from, j.upscale)
        <4>1. item.source # NoKey => item.source # Shopify /\ item.upscaled # Shopify
          BY <1>1, PrintNumbers DEF PrintTypeOK, Item
        <4>2. item.source # NoKey => original[item.source] = item.source
          BY <2>1, <2>2 DEF RowsOK
        <4> QED  BY <1>1, <1>3, <1>6, <2>1, <2>2, <4>1, <4>2 DEF LoneJob, FromSource
      <3> QED  BY <1>1, <1>6, <1>8, <2>1, <2>2, <3>1 DEF LoneJob
    <2>3. clean' => RowsOK' /\ LoneJob(j)' /\ (Columns(item)' \cup {art'}) \ {NoKey} \subseteq stored'
      BY <1>1, <2>1, <2>2 DEF RowsOK, LoneJob, RowsAfter, FromSource, Columns
    <2> QED  BY <1>1, <1>7, <2>3, PrintRowsInOrder
  <1> QED  BY <1>9, <1>10, <1>11 DEF PrintInv

LEMMA PutIs ==
    ASSUME PrintTypeOK, NEW from \in Key \cup {Shopify, Nothing}, Put(from)
    PROVE  /\ keys' = keys + 1 /\ keys' \in Key /\ keys' \notin 0..keys /\ keys' \in 1..MaxKeys
           /\ stored' = stored \cup {keys'} /\ stored \subseteq 1..keys
           /\ original' \in [Key -> Key \cup {Shopify, Nothing}]
           /\ \A k \in 1..keys : original'[k] = original[k] /\ original[k] # Nothing
           /\ original'[keys'] = IF from = Nothing THEN keys' ELSE from
           /\ original'[keys'] # Nothing /\ 1..keys' = 1..keys \cup {keys'}
  <1>1. /\ keys \in 0..MaxKeys /\ keys < MaxKeys /\ keys' = keys + 1
        /\ stored' = stored \cup {keys'} /\ stored \subseteq 1..keys
        /\ original' = [original EXCEPT ![keys'] = IF from = Nothing THEN keys' ELSE from]
    BY DEF Put, PrintTypeOK
  <1>2. keys' \in Key /\ keys' \notin 0..keys /\ keys' \in 1..MaxKeys /\ 1..keys' = 1..keys \cup {keys'}
        /\ 1..keys \subseteq Key
    BY <1>1, PrintNumbers DEF Key
  <1>3. keys' # Nothing
    BY <1>2, PrintNumbers
  <1>4. /\ original' \in [Key -> Key \cup {Shopify, Nothing}]
        /\ \A k \in Key \ {keys'} : original'[k] = original[k]
        /\ original'[keys'] = IF from = Nothing THEN keys' ELSE from
    BY <1>1, <1>2 DEF PrintTypeOK
  <1>5. \A k \in 1..keys : k \in Key \ {keys'} /\ original[k] # Nothing
    BY <1>1, <1>2 DEF PrintTypeOK
  <1> QED  BY <1>1, <1>2, <1>3, <1>4, <1>5

LEMMA PrintPutKeepsInv ==
    ASSUME PrintInv, NEW p \in Proc, job[p] # Idle, job[p].at # "drop",
           NEW from \in Key \cup {Shopify, Nothing}, Put(from),
           NEW j \in Job, PrintJobOK(j), job' = [job EXCEPT ![p] = j],
           j.op = job[p].op, j.seen = job[p].seen,
           j.key \in {job[p].key, keys'}, j.base \in {job[p].base, keys'},
           UNCHANGED <<item, art, clean>>,
           clean => LoneJob(j)'
    PROVE  PrintInv'
  <1>1. PrintTypeOK /\ j # Idle
    BY DEF PrintInv, PrintJobOK, Idle, Job
  <1>2. /\ keys' = keys + 1 /\ keys' \in Key /\ keys' \notin 0..keys /\ keys' \in 1..MaxKeys
        /\ stored' = stored \cup {keys'} /\ stored \subseteq 1..keys
        /\ original' \in [Key -> Key \cup {Shopify, Nothing}]
        /\ \A k \in 1..keys : original'[k] = original[k] /\ original[k] # Nothing
        /\ original'[keys'] # Nothing /\ 1..keys' = 1..keys \cup {keys'}
    BY <1>1, PutIs
  <1>3. PrintTypeOK'
    <2>1. /\ job' \in [Proc -> Job \cup {Idle}]
          /\ (\A q \in Proc : job[q] # Idle => PrintJobOK(job[q]))'
      BY <1>1, PrintTypes
    <2>2. \A k \in 1..keys' : original'[k] # Nothing
      BY <1>2
    <2>3. keys' \in 0..MaxKeys
      BY <1>2, PrintNumbers
    <2>4. stored' \subseteq 1..keys'
      BY <1>2
    <2> QED  BY <1>1, <1>2, <2>1, <2>2, <2>3, <2>4 DEF PrintTypeOK
  <1>4. PrintKeysApart'
    <2>1. /\ ReadKeys(j) = ReadKeys(job[p])
          /\ StoredKeys(j) \subseteq StoredKeys(job[p]) \cup {keys'}
          /\ ArtToBe(j) \subseteq ArtToBe(job[p]) \cup {keys'}
          /\ SourceToBe(j) \subseteq SourceToBe(job[p]) \cup {keys'}
          /\ ArtToBe(j) = {} \/ StoredKeys(j) = {}
      BY <1>1 DEF ReadKeys, StoredKeys, ArtToBe, SourceToBe
    <2> QED  BY <1>1, <1>2, <2>1, PrintKeysPut DEF PrintInv
  <1>5. RowsInOrder'
    <2>1. ASSUME clean
          PROVE  /\ RowsOK /\ (Columns(item) \cup {art}) \ {NoKey} \subseteq stored
      BY <1>1, <2>1 DEF PrintInv, RowsInOrder
    <2>2. ASSUME clean
          PROVE  RowsOK'
      <3>1. Columns(item) \ {NoKey} \subseteq 1..keys
        BY <1>2, <2>1, <2>2
      <3>2. \A k \in Columns(item) \ {NoKey} : original'[k] = original[k]
        BY <1>2, <3>1
      <3> QED  BY <2>1, <2>2, <3>2 DEF RowsOK, Columns
    <2>3. clean' => (Columns(item)' \cup {art'}) \ {NoKey} \subseteq stored'
      BY <1>2, <2>1 DEF Columns
    <2> QED  BY <2>2, <2>3, PrintRowsInOrder
  <1> QED  BY <1>3, <1>4, <1>5 DEF PrintInv

\* What the rows and the files say to the handler that stores one.
LEMMA PrintPutFacts ==
    ASSUME PrintInv, NEW p \in Proc, job[p] # Idle, job[p].at # "drop", clean,
           NEW from \in Key \cup {Shopify, Nothing}, Put(from), UNCHANGED <<item, art>>
    PROVE  /\ job[p].seen = item /\ LoneJob(job[p]) /\ RowsOK
           /\ (Columns(item) \cup {art}) \ {NoKey} \subseteq stored
           /\ art # NoKey => art \notin Columns(item)
           /\ keys' \notin Columns(item) /\ keys' # art /\ keys' # NoKey
           /\ stored' = stored \cup {keys'} /\ keys' \notin stored
           /\ \A k \in stored : original'[k] = original[k]
           /\ original'[keys'] = IF from = Nothing THEN keys' ELSE from
  <1>1. PrintTypeOK /\ PrintKeysApart
    BY DEF PrintInv
  <1>2. /\ keys' \notin 0..keys /\ keys' \in 1..MaxKeys
        /\ stored' = stored \cup {keys'} /\ stored \subseteq 1..keys
        /\ \A k \in 1..keys : original'[k] = original[k]
        /\ original'[keys'] = IF from = Nothing THEN keys' ELSE from
    BY <1>1, PutIs
  <1>3. LoneJob(job[p]) /\ RowsOK /\ (Columns(item) \cup {art}) \ {NoKey} \subseteq stored
    BY DEF PrintInv, RowsInOrder
  <1>4. job[p].seen = item
    BY <1>3 DEF LoneJob
  <1>5. /\ Columns(item) \subseteq 0..keys /\ art \in 0..keys
        /\ art # NoKey => art \notin Columns(item)
    BY <1>1 DEF PrintKeysApart
  <1>6. keys \in Nat /\ keys' # NoKey /\ 1..keys \subseteq 0..keys
    BY <1>1, <1>2, PrintNumbers DEF PrintTypeOK
  <1>7. keys' \notin Columns(item) /\ keys' # art /\ keys' \notin stored
    BY <1>2, <1>5, <1>6
  <1> QED  BY <1>2, <1>3, <1>4, <1>5, <1>6, <1>7

LEMMA PutBaseKeepsInv ==
    ASSUME PrintInv, NEW p \in Proc, PutBase(p)
    PROVE  PrintInv'
  <1>1. /\ PrintTypeOK /\ job[p].op = "enhance" /\ job[p].at = "put" /\ job[p] # Idle
        /\ job[p].upscale /\ job[p].base = NoKey /\ Put(job[p].from)
        /\ UNCHANGED <<item, art, clean>>
    BY DEF PrintInv, PutBase, At, Idle
  <1>2. job[p] \in Job /\ PrintJobOK(job[p])
    BY <1>1, PrintAtWork
  <1>3. PICK from : from = job[p].from
    OBVIOUS
  <1>4. /\ from \in Key \cup {Shopify} /\ from # Nothing /\ Put(from)
        /\ job[p].key = NoKey /\ job[p].drop = {}
    BY <1>1, <1>2, <1>3, PrintNumbers DEF PrintJobOK
  <1>5. PICK k : k = keys'
    OBVIOUS
  <1>6. k \in Key /\ k # NoKey
    BY <1>1, <1>4, <1>5, PutIs, PrintNumbers
  <1>7. PICK j : j = [job[p] EXCEPT !.base = k]
    OBVIOUS
  <1>8. /\ j \in Job /\ j.op = "enhance" /\ j.at = "put" /\ j.from = from /\ j.seen = job[p].seen
        /\ j.upscale = job[p].upscale /\ j.key = NoKey /\ j.base = k /\ j.drop = {}
    BY <1>1, <1>2, <1>3, <1>4, <1>6, <1>7 DEF Job, KeyOrNone
  <1>9. PrintJobOK(j)
    BY <1>1, <1>4, <1>8 DEF PrintJobOK
  <1>10. job' = [job EXCEPT ![p] = j]
    BY <1>5, <1>7 DEF PutBase, Become
  <1>11. ASSUME clean
         PROVE  LoneJob(j)'
    <2>1. /\ job[p].seen = item /\ LoneJob(job[p])
          /\ (Columns(item) \cup {art}) \ {NoKey} \subseteq stored
          /\ k \notin Columns(item) /\ stored' = stored \cup {k}
          /\ \A n \in stored : original'[n] = original[n]
          /\ original'[k] = from
      BY <1>1, <1>4, <1>5, <1>11, PrintPutFacts
    <2>2. {NoKey, k} \ {NoKey} \subseteq stored' \ Columns(item)
      BY <2>1
    <2>3. item.source # NoKey => FromSource(from, j.upscale)
      BY <1>1, <1>3, <1>8, <2>1 DEF LoneJob
    <2>4. item.source # NoKey => FromSource(from, j.upscale)'
      BY <1>1, <2>1, <2>3 DEF FromSource, Columns
    <2>5. \A n \in {NoKey, k} \ {NoKey} : original'[n] = from
      BY <2>1
    <2> QED  BY <1>1, <1>8, <2>1, <2>2, <2>4, <2>5 DEF LoneJob, Columns
  <1> QED  BY <1>1, <1>4, <1>5, <1>8, <1>9, <1>10, <1>11, PrintPutKeepsInv

LEMMA PutMasterKeepsInv ==
    ASSUME PrintInv, NEW p \in Proc, PutMaster(p)
    PROVE  PrintInv'
  <1>1. /\ PrintTypeOK /\ job[p].op = "enhance" /\ job[p].at = "put" /\ job[p] # Idle
        /\ (job[p].upscale => job[p].base # NoKey) /\ Put(job[p].from)
        /\ UNCHANGED <<item, art, clean>>
    BY DEF PrintInv, PutMaster, At, Idle
  <1>2. job[p] \in Job /\ PrintJobOK(job[p])
    BY <1>1, PrintAtWork
  <1>3. PICK from, drop : from = job[p].from /\ drop = OldEnhanced(job[p])
    OBVIOUS
  <1>4. /\ from \in Key \cup {Shopify} /\ from # Nothing /\ Put(from)
        /\ job[p].key = NoKey /\ (~job[p].upscale => job[p].base = NoKey)
    BY <1>1, <1>2, <1>3, PrintNumbers DEF PrintJobOK
  <1>5. PICK k : k = keys'
    OBVIOUS
  <1>6. k \in Key /\ k # NoKey
    BY <1>1, <1>4, <1>5, PutIs, PrintNumbers
  <1>7. /\ drop \subseteq Key /\ drop \subseteq Disposable(job[p].seen)
        /\ ~job[p].upscale => drop \subseteq {job[p].seen.image}
    <2>1. job[p].seen.image \in KeyOrNone /\ job[p].seen.upscaled \in KeyOrNone
      BY <1>2 DEF Job, Item
    <2> QED  BY <1>3, <2>1 DEF OldEnhanced, Disposable, KeyOrNone
  <1>8. PICK j : j = [job[p] EXCEPT !.at = "drop", !.key = k, !.drop = drop]
    OBVIOUS
  <1>9. /\ j \in Job /\ j.op = "enhance" /\ j.at = "drop" /\ j.from = from /\ j.seen = job[p].seen
        /\ j.upscale = job[p].upscale /\ j.key = k /\ j.base = job[p].base /\ j.drop = drop
    BY <1>1, <1>2, <1>3, <1>6, <1>7, <1>8 DEF Job, KeyOrNone
  <1>10. PrintJobOK(j)
    BY <1>1, <1>4, <1>6, <1>7, <1>9 DEF PrintJobOK
  <1>11. job' = [job EXCEPT ![p] = j]
    BY <1>3, <1>5, <1>8 DEF PutMaster, Become
  <1>12. ASSUME clean
         PROVE  LoneJob(j)'
    <2>1. /\ job[p].seen = item /\ LoneJob(job[p]) /\ RowsOK
          /\ (Columns(item) \cup {art}) \ {NoKey} \subseteq stored
          /\ art # NoKey => art \notin Columns(item)
          /\ k \notin Columns(item) /\ k # art /\ k \notin stored /\ stored' = stored \cup {k}
          /\ \A n \in stored : original'[n] = original[n]
          /\ original'[k] = from
      BY <1>1, <1>4, <1>5, <1>12, PrintPutFacts
    <2>2. /\ {j.base} \ {NoKey} \subseteq stored \ Columns(item)
          /\ item.source # NoKey => FromSource(from, j.upscale)
          /\ item.source # NoKey => \A n \in {j.base} \ {NoKey} : original[n] = from
      BY <1>1, <1>3, <1>4, <1>9, <2>1 DEF LoneJob
    <2>3. {k, j.base} \ {NoKey} \subseteq stored' \ Columns(item) /\ k # j.base
      BY <1>6, <2>1, <2>2
    <2>4. item.source # NoKey => FromSource(from, j.upscale)'
      BY <1>1, <2>1, <2>2 DEF FromSource, Columns
    <2>5. item.source # NoKey => \A n \in {k, j.base} \ {NoKey} : original'[n] = from
      BY <2>1, <2>2
    <2>6. RowsAfter(j) = {k, item.source, IF j.base = NoKey THEN item.upscaled ELSE j.base, art}
      BY <1>9 DEF RowsAfter
    <2>7. RowsAfter(j) \ {NoKey} \subseteq stored'
      BY <2>1, <2>2, <2>6 DEF Columns
    <2>8. RowsAfter(j) \cap j.drop = {}
      <3>1. /\ drop \subseteq {item.image, item.upscaled} \ {NoKey, item.source}
            /\ j.base = NoKey => drop \subseteq {item.image}
        BY <1>1, <1>7, <1>9, <2>1 DEF Disposable
      <3>2. item.upscaled # NoKey => item.upscaled # item.image
        BY <2>1 DEF RowsOK
      <3> QED  BY <1>9, <2>1, <2>2, <2>6, <3>1, <3>2 DEF Columns
    <2>9. RowsAfter(j)' = RowsAfter(j)
      BY <1>1, <1>9 DEF RowsAfter
    <2> QED  BY <1>1, <1>9, <2>1, <2>3, <2>4, <2>5, <2>7, <2>8, <2>9 DEF LoneJob, Columns
  <1> QED  BY <1>1, <1>4, <1>5, <1>9, <1>10, <1>11, <1>12, PrintPutKeepsInv

LEMMA PutUploadKeepsInv ==
    ASSUME PrintInv, NEW p \in Proc, PutUpload(p)
    PROVE  PrintInv'
  <1>1. /\ PrintTypeOK /\ job[p].op \in {"upload", "replace"} /\ job[p].at = "put" /\ job[p] # Idle
        /\ Put(Nothing) /\ UNCHANGED <<item, art, clean>>
    BY DEF PrintInv, PutUpload, Idle
  <1>2. job[p] \in Job /\ PrintJobOK(job[p])
    BY <1>1, PrintAtWork
  <1>3. PICK k : k = keys'
    OBVIOUS
  <1>4. k \in Key /\ k # NoKey /\ original'[k] = k
    BY <1>1, <1>3, PutIs, PrintNumbers
  <1>5. PICK j : j = [job[p] EXCEPT !.at = "drop", !.key = k]
    OBVIOUS
  <1>6. /\ j \in Job /\ j.op = job[p].op /\ j.at = "drop" /\ j.seen = job[p].seen
        /\ j.key = k /\ j.base = job[p].base /\ j.drop = job[p].drop
    BY <1>1, <1>2, <1>4, <1>5 DEF Job, KeyOrNone
  <1>7. PrintJobOK(j)
    BY <1>1, <1>2, <1>4, <1>6 DEF PrintJobOK
  <1>8. job' = [job EXCEPT ![p] = j]
    BY <1>3, <1>5 DEF PutUpload, Become
  <1>9. ASSUME clean
        PROVE  LoneJob(j)'
    <2>1. /\ job[p].seen = item /\ LoneJob(job[p]) /\ RowsOK
          /\ (Columns(item) \cup {art}) \ {NoKey} \subseteq stored
          /\ art # NoKey => art \notin Columns(item)
          /\ k \notin Columns(item) /\ k # art /\ k \notin stored /\ stored' = stored \cup {k}
      BY <1>1, <1>3, <1>9, PrintPutFacts
    <2>2. j.op = "upload" => /\ RowsAfter(j) = {k, item.upscaled, art}
                             /\ j.drop \subseteq {item.image, item.source} \ {NoKey}
      BY <1>6, <2>1 DEF RowsAfter, LoneJob
    <2>3. j.op = "replace" => /\ RowsAfter(j) = Columns(item) \cup {k}
                              /\ j.drop \subseteq {art} \ {NoKey}
      BY <1>6, <2>1 DEF RowsAfter, LoneJob
    <2>4. RowsAfter(j) \ {NoKey} \subseteq stored'
      BY <1>1, <1>6, <2>1, <2>2, <2>3 DEF Columns
    <2>5. RowsAfter(j) \cap j.drop = {}
      <3>1. CASE j.op = "upload"
        <4>1. item.upscaled # NoKey => item.upscaled \notin {item.image, item.source}
          BY <2>1 DEF RowsOK
        <4> QED  BY <2>1, <2>2, <3>1, <4>1 DEF Columns
      <3>2. CASE j.op = "replace"
        BY <2>1, <2>3, <3>2
      <3> QED  BY <1>1, <1>6, <3>1, <3>2
    <2>6. RowsAfter(j)' = RowsAfter(j)
      BY <1>1 DEF RowsAfter, Columns
    <2> QED  BY <1>1, <1>4, <1>6, <2>1, <2>2, <2>3, <2>4, <2>5, <2>6 DEF LoneJob
  <1> QED  BY <1>1, <1>3, <1>6, <1>7, <1>8, <1>9, PrintPutKeepsInv

\* A file is deleted, or stays: never one that the rows will have.
LEMMA DropKeepsInv ==
    ASSUME PrintInv, NEW p \in Proc, Drop(p)
    PROVE  PrintInv'
  <1>1. /\ PrintTypeOK /\ PrintKeysApart /\ job[p].at = "drop" /\ job[p] # Idle
        /\ UNCHANGED <<item, art, original, keys, clean>>
    BY DEF PrintInv, Drop, Idle
  <1>2. job[p] \in Job /\ PrintJobOK(job[p])
    BY <1>1, PrintAtWork
  <1>3. PICK k \in job[p].drop : /\ stored' = stored \ {k} \/ stored' = stored
                                 /\ Become(p, [job[p] EXCEPT !.drop = @ \ {k}])
    BY DEF Drop
  <1>4. PICK j : j = [job[p] EXCEPT !.drop = @ \ {k}]
    OBVIOUS
  <1>5. /\ j \in Job /\ j.op = job[p].op /\ j.at = "drop" /\ j.seen = job[p].seen
        /\ j.upscale = job[p].upscale /\ j.from = job[p].from
        /\ j.key = job[p].key /\ j.base = job[p].base /\ j.drop = job[p].drop \ {k}
    BY <1>1, <1>2, <1>4 DEF Job
  <1>6. PrintJobOK(j) /\ j # Idle
    BY <1>1, <1>2, <1>5 DEF PrintJobOK, Idle
  <1>7. job' = [job EXCEPT ![p] = j]
    BY <1>3, <1>4 DEF Become
  <1>8. PrintTypeOK'
    <2>1. /\ job' \in [Proc -> Job \cup {Idle}]
          /\ (\A q \in Proc : job[q] # Idle => PrintJobOK(job[q]))'
      BY <1>1, <1>5, <1>6, <1>7, PrintTypes
    <2>2. stored' \subseteq 1..keys
      BY <1>1, <1>3 DEF PrintTypeOK
    <2> QED  BY <1>1, <2>1, <2>2 DEF PrintTypeOK
  <1>9. PrintKeysApart'
    <2>1. /\ ReadKeys(j) = ReadKeys(job[p]) /\ StoredKeys(j) = StoredKeys(job[p])
          /\ ArtToBe(j) = ArtToBe(job[p]) /\ SourceToBe(j) = SourceToBe(job[p])
      BY <1>1, <1>5, <1>6 DEF ReadKeys, StoredKeys, ArtToBe, SourceToBe
    <2>2. /\ SourceToBe(j) \cap ReadKeys(j) = {} /\ ArtToBe(j) \cap ReadKeys(j) = {}
          /\ item.source \notin Disposable(j.seen)
      BY <1>1, <1>5, <2>1 DEF PrintKeysApart
    <2> QED  BY <1>1, <1>7, <2>1, <2>2, PrintKeysQuiet
  <1>10. RowsInOrder'
    <2>1. ASSUME clean
          PROVE  RowsOK /\ LoneJob(job[p])
      BY <1>1, <2>1 DEF PrintInv, RowsInOrder
    <2>2. ASSUME clean
          PROVE  LoneJob(j)'
      <3>1. RowsAfter(j) = RowsAfter(job[p]) /\ RowsAfter(j)' = RowsAfter(j)
        BY <1>1, <1>5 DEF RowsAfter, Columns
      <3>2. RowsAfter(j) \ {NoKey} \subseteq stored' /\ RowsAfter(j) \cap j.drop = {}
        BY <1>1, <1>3, <1>5, <2>1, <2>2, <3>1 DEF LoneJob
      <3>3. j.op = "enhance" => {j.key, j.base} \ {NoKey} \subseteq stored' \ Columns(item)
        <4>1. j.op = "enhance" => {j.key, j.base} \ {NoKey} \subseteq RowsAfter(j)
          BY DEF RowsAfter
        <4> QED  BY <1>5, <2>1, <2>2, <3>2, <4>1 DEF LoneJob
      <3>4. FromSource(j.from, j.upscale)' <=> FromSource(j.from, j.upscale)
        BY <1>1 DEF FromSource
      <3> QED  BY <1>1, <1>5, <2>1, <2>2, <3>2, <3>1, <3>3, <3>4 DEF LoneJob, Columns
    <2>3. clean' => RowsOK'
      BY <1>1, <2>1 DEF RowsOK
    <2> QED  BY <1>1, <1>5, <1>6, <1>7, <2>2, <2>3, PrintRowsInOrder
  <1> QED  BY <1>8, <1>9, <1>10 DEF PrintInv

\* The row is written: its new keys were in no other handler's hands.
LEMMA WrittenKeys ==
    ASSUME PrintInv, NEW p \in Proc, WriteRow(p)
    PROVE  /\ item' \in Item /\ art' \in KeyOrNone
           /\ Columns(item') \subseteq Columns(item) \cup StoredKeys(job[p]) \cup ReadKeys(job[p]) \cup {NoKey}
           /\ item'.source \in {item.source} \cup SourceToBe(job[p])
           /\ job[p].op = "replace" => item' = item /\ art' \in ArtToBe(job[p])
           /\ job[p].op # "replace" => art' = art
  <1>1. /\ PrintTypeOK /\ job[p].at = "drop" /\ job[p] # Idle /\ item \in Item /\ art \in KeyOrNone
        /\ item' = Written(job[p]) /\ art' = IF job[p].op = "replace" THEN job[p].key ELSE art
    BY DEF PrintInv, PrintTypeOK, WriteRow, Idle
  <1>2. job[p] \in Job /\ PrintJobOK(job[p])
    BY <1>1, PrintAtWork
  <1>3. /\ job[p].key \in KeyOrNone /\ job[p].base \in KeyOrNone /\ job[p].seen \in Item
        /\ job[p].op \in {"enhance", "revert", "upload", "replace"}
    BY <1>2 DEF Job
  <1>4. CASE job[p].op = "enhance"
    <2>1. /\ item' \in Item /\ art' = art /\ item'.source = item.source
          /\ item'.image = job[p].key
          /\ item'.upscaled = IF job[p].base = NoKey THEN item.upscaled ELSE job[p].base
      BY <1>1, <1>3, <1>4 DEF Written, Item
    <2>2. {job[p].key, job[p].base} \ {NoKey} = StoredKeys(job[p])
      BY <1>1, <1>4 DEF StoredKeys
    <2> QED  BY <1>1, <1>4, <2>1, <2>2 DEF Columns
  <1>5. CASE job[p].op = "revert"
    <2>1. /\ item' \in Item /\ art' = art /\ item'.source = item.source
          /\ item'.image = job[p].seen.source /\ item'.upscaled = NoKey
      BY <1>1, <1>3, <1>5 DEF Written, Item, KeyOrNone
    <2>2. job[p].seen.source \in ReadKeys(job[p])
      BY <1>1 DEF ReadKeys, Columns
    <2> QED  BY <1>1, <1>5, <2>1, <2>2 DEF Columns
  <1>6. CASE job[p].op = "upload"
    <2>1. /\ item' \in Item /\ art' = art /\ item'.source = job[p].key
          /\ item'.image = job[p].key /\ item'.upscaled = item.upscaled
      BY <1>1, <1>3, <1>6 DEF Written, Item
    <2>2. job[p].key # NoKey /\ job[p].key \in StoredKeys(job[p]) /\ job[p].key \in SourceToBe(job[p])
      BY <1>1, <1>2, <1>6 DEF PrintJobOK, StoredKeys, SourceToBe
    <2> QED  BY <1>1, <1>6, <2>1, <2>2 DEF Columns
  <1>7. CASE job[p].op = "replace"
    <2>1. item' = item /\ art' = job[p].key
      BY <1>1, <1>7 DEF Written
    <2>2. job[p].key # NoKey /\ job[p].key \in ArtToBe(job[p])
      BY <1>1, <1>2, <1>7 DEF PrintJobOK, ArtToBe
    <2> QED  BY <1>1, <1>3, <1>7, <2>1, <2>2
  <1> QED  BY <1>3, <1>4, <1>5, <1>6, <1>7

LEMMA WriteKeepsKeysApart ==
    ASSUME PrintInv, NEW p \in Proc, WriteRow(p)
    PROVE  PrintKeysApart'
  <1>1. /\ PrintTypeOK /\ PrintKeysApart /\ job[p] # Idle /\ job' = [job EXCEPT ![p] = Idle]
        /\ UNCHANGED <<stored, original, keys, clean>>
    BY DEF PrintInv, WriteRow, Become, fileVars, Idle
  <1>2. job'[p] = Idle /\ \A q \in Proc \ {p} : job'[q] = job[q]
    BY <1>1 DEF PrintTypeOK
  <1>3. /\ Columns(item') \subseteq Columns(item) \cup StoredKeys(job[p]) \cup ReadKeys(job[p]) \cup {NoKey}
        /\ item'.source \in {item.source} \cup SourceToBe(job[p])
        /\ job[p].op = "replace" => item' = item /\ art' \in ArtToBe(job[p])
        /\ job[p].op # "replace" => art' = art
    BY WrittenKeys
  <1>4. /\ ReadKeys(Idle) = {} /\ StoredKeys(Idle) = {} /\ ArtToBe(Idle) = {} /\ SourceToBe(Idle) = {}
        /\ \A j : NoKey \notin ArtToBe(j) \cup SourceToBe(j)
        /\ \A j : j # Idle => Disposable(j.seen) \subseteq ReadKeys(j)
    BY DEF ReadKeys, StoredKeys, ArtToBe, SourceToBe, Disposable, Columns
  <1>5. Columns(item') \subseteq 0..keys /\ art' \in 0..keys
    <2>1. NoKey \in 0..keys
      BY <1>1, PrintNumbers DEF PrintTypeOK
    <2> QED  BY <1>1, <1>3, <2>1 DEF PrintKeysApart
  <1>6. art' # NoKey => art' \notin Columns(item')
    BY <1>1, <1>3 DEF PrintKeysApart
  <1>7. ASSUME NEW q \in Proc
        PROVE  /\ ReadKeys(job'[q]) \cup StoredKeys(job'[q]) \cup ArtToBe(job'[q]) \subseteq 0..keys
               /\ art' # NoKey => art' \notin ReadKeys(job'[q]) \cup StoredKeys(job'[q])
               /\ (ArtToBe(job'[q]) \cup SourceToBe(job'[q])) \cap Columns(item') = {}
               /\ job'[q] # Idle => item'.source \notin Disposable(job'[q].seen)
    <2>1. CASE q = p
      BY <1>2, <1>4, <2>1
    <2>2. CASE q # p
      <3>1. job'[q] = job[q]
        BY <1>2, <2>2
      <3>2. ReadKeys(job[q]) \cup StoredKeys(job[q]) \cup ArtToBe(job[q]) \subseteq 0..keys
        BY <1>1 DEF PrintKeysApart
      <3>3. art' # NoKey => art' \notin ReadKeys(job[q]) \cup StoredKeys(job[q])
        BY <1>1, <1>3 DEF PrintKeysApart
      <3>4. ArtToBe(job[q]) \cap Columns(item') = {}
        BY <1>1, <1>3, <1>4 DEF PrintKeysApart
      <3>5. SourceToBe(job[q]) \cap Columns(item') = {}
        BY <1>1, <1>3, <1>4, <2>2 DEF PrintKeysApart
      <3>6. job[q] # Idle => item'.source \notin Disposable(job[q].seen)
        BY <1>1, <1>3, <1>4 DEF PrintKeysApart
      <3> QED  BY <3>1, <3>2, <3>3, <3>4, <3>5, <3>6
    <2> QED  BY <2>1, <2>2
  <1>8. ASSUME NEW q \in Proc, NEW r \in Proc
        PROVE  /\ ArtToBe(job'[q]) \cap (ReadKeys(job'[r]) \cup StoredKeys(job'[r])) = {}
               /\ SourceToBe(job'[q]) \cap ReadKeys(job'[r]) = {}
               /\ q # r => SourceToBe(job'[q]) \cap StoredKeys(job'[r]) = {}
    <2>1. CASE q = p \/ r = p
      BY <1>2, <1>4, <2>1
    <2>2. CASE q # p /\ r # p
      BY <1>1, <1>2, <2>2 DEF PrintKeysApart
    <2> QED  BY <2>1, <2>2
  <1>9. /\ Columns(item)' = Columns(item')
        /\ \A q \in Proc : /\ ReadKeys(job[q])' = ReadKeys(job'[q])
                           /\ StoredKeys(job[q])' = StoredKeys(job'[q])
                           /\ ArtToBe(job[q])' = ArtToBe(job'[q])
                           /\ SourceToBe(job[q])' = SourceToBe(job'[q])
                           /\ Disposable(job[q].seen)' = Disposable(job'[q].seen)
    BY DEF Columns, ReadKeys, StoredKeys, ArtToBe, SourceToBe, Disposable
  <1>10. \A q \in Proc :
            /\ ReadKeys(job'[q]) \cup StoredKeys(job'[q]) \cup ArtToBe(job'[q]) \subseteq 0..keys
            /\ art' # NoKey => art' \notin ReadKeys(job'[q]) \cup StoredKeys(job'[q])
            /\ (ArtToBe(job'[q]) \cup SourceToBe(job'[q])) \cap Columns(item') = {}
            /\ job'[q] # Idle => item'.source \notin Disposable(job'[q].seen)
    BY <1>7
  <1>11. \A q, r \in Proc :
            /\ ArtToBe(job'[q]) \cap (ReadKeys(job'[r]) \cup StoredKeys(job'[r])) = {}
            /\ SourceToBe(job'[q]) \cap ReadKeys(job'[r]) = {}
            /\ q # r => SourceToBe(job'[q]) \cap StoredKeys(job'[r]) = {}
    BY <1>8
  <1>12. keys' = keys
    BY <1>1
  <1> QED  BY <1>5, <1>6, <1>9, <1>10, <1>11, <1>12 DEF PrintKeysApart

\* The only handler writes: the rows have what it said they would.
LEMMA WriteKeepsRows ==
    ASSUME PrintInv, NEW p \in Proc, WriteRow(p), clean
    PROVE  RowsOK' /\ (Columns(item)' \cup {art'}) \ {NoKey} \subseteq stored
  <1>1. /\ PrintTypeOK /\ PrintKeysApart /\ job[p].at = "drop" /\ job[p] # Idle /\ item \in Item
        /\ item' = Written(job[p]) /\ art' = IF job[p].op = "replace" THEN job[p].key ELSE art
        /\ UNCHANGED <<stored, original>>
    BY DEF PrintInv, PrintTypeOK, WriteRow, fileVars, Idle
  <1>2. /\ job[p] \in Job /\ PrintJobOK(job[p])
        /\ job[p].op \in {"enhance", "revert", "upload", "replace"}
    BY <1>1, PrintAtWork DEF Job
  <1>3. RowsOK /\ LoneJob(job[p])
    BY <1>1 DEF PrintInv, RowsInOrder
  <1>4. job[p].seen = item /\ RowsAfter(job[p]) \ {NoKey} \subseteq stored
    BY <1>1, <1>3 DEF LoneJob
  <1>5. Columns(item)' = Columns(item')
    BY DEF Columns
  <1>6. RowsOK' <=>
          /\ item'.upscaled # NoKey => item'.upscaled \notin {item'.image, item'.source}
          /\ item'.source # NoKey =>
                /\ original[item'.source] = item'.source /\ item'.image # NoKey
                /\ \/ original[item'.image] = item'.source
                   \/ item'.upscaled # NoKey /\ original[item'.image] = original[item'.upscaled]
    BY <1>1 DEF RowsOK
  <1>7. CASE job[p].op = "enhance"
    <2>1. /\ item'.source = item.source /\ item'.image = job[p].key /\ art' = art
          /\ item'.upscaled = IF job[p].base = NoKey THEN item.upscaled ELSE job[p].base
      BY <1>1, <1>7 DEF Written, Item
    <2>2. Columns(item') \cup {art'} \subseteq RowsAfter(job[p])
      BY <1>7, <2>1 DEF RowsAfter, Columns
    <2>3. /\ job[p].key # NoKey /\ (~job[p].upscale => job[p].base = NoKey)
          /\ job[p].key \notin Columns(item) /\ job[p].key # job[p].base
          /\ job[p].base # NoKey => job[p].base \notin Columns(item)
      BY <1>1, <1>2, <1>3, <1>7 DEF PrintJobOK, LoneJob
    <2>4. item'.upscaled # NoKey => item'.upscaled \notin {item'.image, item'.source}
      BY <1>3, <2>1, <2>3 DEF RowsOK, Columns
    <2>5. item.source # NoKey => /\ FromSource(job[p].from, job[p].upscale)
                                 /\ original[job[p].key] = job[p].from
      BY <1>1, <1>3, <1>7, <2>3 DEF LoneJob
    <2>6. item.source # NoKey => \/ original[job[p].key] = item.source
                                 \/ item'.upscaled # NoKey /\ original[job[p].key] = original[item'.upscaled]
      BY <2>1, <2>3, <2>5 DEF FromSource
    <2>7. item.source # NoKey => original[item.source] = item.source
      BY <1>3 DEF RowsOK
    <2> QED  BY <1>4, <1>5, <1>6, <2>1, <2>2, <2>3, <2>4, <2>6, <2>7
  <1>8. CASE job[p].op = "revert"
    <2>1. /\ item'.source = item.source /\ item'.image = item.source /\ art' = art
          /\ item'.upscaled = NoKey
      BY <1>1, <1>4, <1>8 DEF Written, Item
    <2>2. Columns(item') \cup {art'} \subseteq RowsAfter(job[p]) \cup {NoKey}
      BY <1>8, <2>1 DEF RowsAfter, Columns
    <2>3. item.source # NoKey => original[item.source] = item.source
      BY <1>3 DEF RowsOK
    <2> QED  BY <1>4, <1>5, <1>6, <2>1, <2>2, <2>3
  <1>9. CASE job[p].op = "upload"
    <2>1. /\ item'.source = job[p].key /\ item'.image = job[p].key /\ art' = art
          /\ item'.upscaled = item.upscaled
      BY <1>1, <1>9 DEF Written, Item
    <2>2. Columns(item') \cup {art'} \subseteq RowsAfter(job[p])
      BY <1>9, <2>1 DEF RowsAfter, Columns
    <2>3. job[p].key # NoKey /\ original[job[p].key] = job[p].key
      BY <1>1, <1>2, <1>3, <1>9 DEF PrintJobOK, LoneJob
    <2>4. job[p].key \notin Columns(item)
      <3>1. job[p].key \in SourceToBe(job[p])
        BY <1>1, <1>9, <2>3 DEF SourceToBe
      <3> QED  BY <1>1, <3>1 DEF PrintKeysApart
    <2> QED  BY <1>4, <1>5, <1>6, <2>1, <2>2, <2>3, <2>4 DEF Columns
  <1>10. CASE job[p].op = "replace"
    <2>1. item' = item /\ art' = job[p].key
      BY <1>1, <1>10 DEF Written
    <2>2. Columns(item') \cup {art'} = RowsAfter(job[p])
      BY <1>10, <2>1 DEF RowsAfter
    <2> QED  BY <1>3, <1>4, <1>5, <1>6, <2>1, <2>2 DEF RowsOK
  <1> QED  BY <1>2, <1>7, <1>8, <1>9, <1>10

LEMMA WriteRowKeepsInv ==
    ASSUME PrintInv, NEW p \in Proc, WriteRow(p)
    PROVE  PrintInv'
  <1>1. /\ PrintTypeOK /\ job[p] # Idle /\ job' = [job EXCEPT ![p] = Idle]
        /\ UNCHANGED <<stored, original, keys, clean>>
    BY DEF PrintInv, WriteRow, Become, fileVars, Idle
  <1>2. PrintTypeOK'
    <2>1. /\ job' \in [Proc -> Job \cup {Idle}]
          /\ (\A q \in Proc : job[q] # Idle => PrintJobOK(job[q]))'
      BY <1>1, PrintTypes
    <2>2. item' \in Item /\ art' \in KeyOrNone
      BY WrittenKeys
    <2> QED  BY <1>1, <2>1, <2>2 DEF PrintTypeOK
  <1>3. PrintKeysApart'
    BY WriteKeepsKeysApart
  <1>4. RowsInOrder'
    <2>1. clean' => RowsOK' /\ (Columns(item)' \cup {art'}) \ {NoKey} \subseteq stored'
      BY <1>1, WriteKeepsRows
    <2> QED  BY <1>1, <2>1, PrintRowsInOrder
  <1> QED  BY <1>2, <1>3, <1>4 DEF PrintInv

LEMMA PrintFailKeepsInv ==
    ASSUME PrintInv, NEW p \in Proc, Fail(p)
    PROVE  PrintInv'
  <1>1. /\ PrintTypeOK /\ job' = [job EXCEPT ![p] = Idle] /\ clean' = FALSE
        /\ UNCHANGED <<item, art, stored, original, keys>>
    BY DEF PrintInv, Fail, Become, fileVars
  <1>2. PrintTypeOK'
    <2>1. /\ job' \in [Proc -> Job \cup {Idle}]
          /\ (\A q \in Proc : job[q] # Idle => PrintJobOK(job[q]))'
      BY <1>1, PrintTypes
    <2> QED  BY <1>1, <2>1 DEF PrintTypeOK
  <1>3. PrintKeysApart'
    <2>1. ReadKeys(Idle) = {} /\ StoredKeys(Idle) = {} /\ ArtToBe(Idle) = {} /\ SourceToBe(Idle) = {}
      BY DEF ReadKeys, StoredKeys, ArtToBe, SourceToBe
    <2> QED  BY <1>1, <2>1, PrintKeysQuiet DEF PrintInv
  <1>4. RowsInOrder'
    BY <1>1 DEF RowsInOrder
  <1> QED  BY <1>2, <1>3, <1>4 DEF PrintInv

LEMMA PrintNextKeepsInv == PrintInv /\ [PrintNext]_printVars => PrintInv'
  <1> SUFFICES ASSUME PrintInv, [PrintNext]_printVars PROVE PrintInv'
    OBVIOUS
  <1>1. CASE UNCHANGED printVars
    <2>1. UNCHANGED <<item, art, stored, original, keys, clean, job>>
      BY <1>1 DEF printVars
    <2>2. PrintTypeOK'
      BY <2>1 DEF PrintInv, PrintTypeOK, PrintJobOK, Disposable
    <2>3. PrintKeysApart'
      BY <2>1 DEF PrintInv, PrintKeysApart, Columns, ReadKeys, StoredKeys, SourceToBe, ArtToBe, Disposable
    <2>4. RowsOK' <=> RowsOK
      BY <2>1 DEF RowsOK
    <2>5. \A p \in Proc : LoneJob(job[p])' <=> LoneJob(job[p])
      BY <2>1 DEF LoneJob, RowsAfter, FromSource, Columns
    <2>6. RowsInOrder'
      BY <2>1, <2>4, <2>5 DEF PrintInv, RowsInOrder, Columns
    <2> QED  BY <2>2, <2>3, <2>6 DEF PrintInv
  <1>2. ASSUME NEW p \in Proc,
               \/ \E upscale \in BOOLEAN : ApplyEnhance(p, upscale)
               \/ RevertEnhance(p) \/ UpdateItemPrintImage(p) \/ ReplaceItemGenerationImage(p)
        PROVE  PrintInv'
    BY <1>2, PrintStartsKeepInv
  <1>3. ASSUME NEW p \in Proc, Fetch(p) \/ PutBase(p) \/ PutMaster(p) \/ PutUpload(p)
        PROVE  PrintInv'
    BY <1>3, FetchKeepsInv, PutBaseKeepsInv, PutMasterKeepsInv, PutUploadKeepsInv
  <1>4. ASSUME NEW p \in Proc, Drop(p) \/ WriteRow(p) \/ Fail(p)
        PROVE  PrintInv'
    BY <1>4, DropKeepsInv, WriteRowKeepsInv, PrintFailKeepsInv
  <1> QED  BY <1>1, <1>2, <1>3, <1>4 DEF PrintNext

LEMMA PrintInvHolds == PrintSpec => []PrintInv
  BY PrintInitInv, PrintNextKeepsInv, PTL DEF PrintSpec

\* An enhancement or a revert deletes neither the source in use nor the
\* result of the generation (ImageEnhancementService.applyEnhance,
\* revertEnhance), whatever handlers run beside it.
THEOREM SourcesSurviveEnhancement == PrintSpec => OriginalsSurvive
  <1>1. ASSUME PrintInv, PrintNext, NEW k \in stored \ stored', k \in {item.source, art}
        PROVE  \E p \in Proc : job[p].op \in {"upload", "replace"} /\ k \in job[p].drop
    <2>1. PICK p \in Proc : Drop(p)
      BY <1>1 DEF PrintNext, ApplyEnhance, Take, Fetch, PutBase, PutMaster, RevertEnhance, PutUpload, Put,
                  UpdateItemPrintImage, ReplaceItemGenerationImage, WriteRow, Fail, fileVars
    <2>2. k \in job[p].drop /\ job[p] # Idle
      BY <1>1, <2>1 DEF Drop, Idle
    <2>3. PrintTypeOK /\ PrintKeysApart /\ stored \subseteq 1..keys
      BY <1>1 DEF PrintInv, PrintTypeOK
    <2>4. job[p] \in Job /\ PrintJobOK(job[p]) /\ k # NoKey
      BY <1>1, <2>2, <2>3, PrintAtWork DEF NoKey
    <2>5. job[p].op \in {"enhance", "revert"} => k \in Disposable(job[p].seen) /\ k \in ReadKeys(job[p])
      BY <2>2, <2>4 DEF PrintJobOK, Disposable, ReadKeys, Columns
    <2>6. job[p].op \notin {"enhance", "revert"}
      BY <1>1, <2>2, <2>3, <2>4, <2>5 DEF PrintKeysApart
    <2>7. job[p].op \in {"upload", "replace"}
      BY <2>4, <2>6 DEF Job
    <2> QED  BY <2>2, <2>7
  <1>2. PrintInv /\ [PrintNext]_printVars =>
          [\A k \in stored \ stored' : k \in {item.source, art} =>
              \E p \in Proc : job[p].op \in {"upload", "replace"} /\ k \in job[p].drop]_printVars
    BY <1>1
  <1> QED  BY <1>2, PrintInvHolds, PTL DEF PrintSpec, OriginalsSurvive

\* As long as handlers come one by one and end well, the rows point to files
\* that are there.
THEOREM PrintedFilesAreThere == PrintSpec => []RowsPointToFiles
  <1>1. PrintInv => RowsPointToFiles
    BY DEF PrintInv, RowsInOrder, RowsPointToFiles, Quiet, AllIdle, Columns
  <1> QED  BY <1>1, PrintInvHolds, PTL

\* And what is printed of an item with an uploaded source comes from it or
\* from its upscaled base.
THEOREM PrintsComeFromSource == PrintSpec => []PrintsSourceOrBase
  <1>1. PrintInv => PrintsSourceOrBase
    BY DEF PrintInv, RowsInOrder, RowsOK, PrintsSourceOrBase, Quiet, AllIdle
  <1> QED  BY <1>1, PrintInvHolds, PTL

-----------------------------------------------------------------------------
(* The factor of an upscale. *)

LEMMA Quotients ==
    ASSUME NEW n \in Nat, NEW a \in Nat \ {0}, NEW q \in Nat
    PROVE  n \div a \in Nat /\ (q <= n \div a <=> a * q <= n)
  OBVIOUS

LEMMA CeilingIsNumber == Ceiling \in Nat /\ 10000 * Ceiling \in Nat /\ 40000 * Ceiling \in Nat
  BY DEF Ceiling

LEMMA AreasArePositive ==
    ASSUME NEW px \in Sizes
    PROVE  Area(px) \in Nat \ {0}
  <1>1. PICK w \in Nat, h \in Nat : /\ px[1] = w /\ px[2] = h /\ w # 0 /\ h # 0
                                    /\ w % 100 = 0 /\ h % 100 = 0
    BY GeometryConstants
  <1>2. PICK a \in Nat \ {0}, b \in Nat \ {0} : a = w \div 100 /\ b = h \div 100
    BY <1>1
  <1>3. a * b \in Nat \ {0}
    OBVIOUS
  <1> QED  BY <1>1, <1>2, <1>3 DEF Area

\* A factor that keeps within the ceiling does so rounded.
LEMMA WithinIsRounded ==
    ASSUME NEW px \in Sizes, NEW f \in Nat, f >= 1, Within(f, px)
    PROVE  RoundsWithin(f, px)
  <1>1. PICK a \in Nat \ {0} : a = Area(px)
    BY AreasArePositive
  <1>2. PICK c \in Nat : c = Ceiling
    BY CeilingIsNumber
  <1>3. PICK s \in Nat : s = f * f
    OBVIOUS
  <1>4. a * s <= 10000 * c
    BY <1>1, <1>2, <1>3, Quotients DEF Within
  <1>5. PICK r \in Nat : r = (2 * f - 1) * (2 * f - 1)
    OBVIOUS
  <1>6. r <= 4 * s
    <2>1. (2 * f - 1) * (2 * f - 1) = 4 * (f * f) - 4 * f + 1
      OBVIOUS
    <2> QED  BY <1>3, <1>5, <2>1
  <1>7. a * r <= a * (4 * s)
    <2>1. PICK d \in Nat : 4 * s = r + d
      <3>1. 4 * s - r \in Nat /\ 4 * s = r + (4 * s - r)
        BY <1>6
      <3> QED  BY <3>1
    <2>2. a * (r + d) = a * r + a * d /\ a * d \in Nat /\ a * r \in Nat
      OBVIOUS
    <2> QED  BY <2>1, <2>2
  <1>8. a * (4 * s) = 4 * (a * s) /\ a * r \in Nat /\ a * s \in Nat
    OBVIOUS
  <1>9. a * r <= 40000 * c
    BY <1>4, <1>7, <1>8
  <1>10. 40000 * c \in Nat
    OBVIOUS
  <1> QED  BY <1>1, <1>2, <1>5, <1>9, <1>10, Quotients DEF RoundsWithin

\* Without room for the factor there is room for the size as it is.
LEMMA OneFits ==
    ASSUME NEW px \in Sizes, ~(100 * Ceiling < 121 * Area(px))
    PROVE  RoundsWithin(100, px)
  <1>1. PICK a \in Nat \ {0} : a = Area(px)
    BY AreasArePositive
  <1>2. PICK c \in Nat : c = Ceiling
    BY CeilingIsNumber
  <1>3. a * 39601 <= 40000 * c /\ 40000 * c \in Nat
    BY <1>1, <1>2
  <1>4. (2 * 100 - 1) * (2 * 100 - 1) = 39601
    OBVIOUS
  <1> QED  BY <1>1, <1>2, <1>3, <1>4, Quotients DEF RoundsWithin

LEMMA ResolutionIsNumber ==
    ASSUME NEW px \in Sizes, NEW inches \in Formats, px # Unknown, inches # Unknown
    PROVE  DpiFor(px, inches) \in Nat
  <1>1. PICK w \in Nat, h \in Nat : px[1] = w /\ px[2] = h
    BY GeometryConstants
  <1>2. PICK i \in Nat \ {0}, k \in Nat \ {0} : inches[1] = i /\ inches[2] = k
    BY GeometryConstants
  <1>3. w \div i \in Nat /\ h \div k \in Nat
    BY Quotients
  <1> QED  BY <1>1, <1>2, <1>3 DEF DpiFor, Smaller

\* What is wished for, and that it reaches the target where there is one.
LEMMA WhatIsDesired ==
    ASSUME NEW options \in Options, NEW px \in Sizes, px # Unknown,
           NEW inches \in Formats \cup {Unknown}
    PROVE  /\ Desired(options, px, inches) \in Nat
           /\ options.factor = 0 /\ options.target # 0 /\ DpiFor(px, inches) \notin {Unknown, 0} =>
                (DpiFor(px, inches) * Desired(options, px, inches)) \div 100 >= options.target
  <1>1. PICK dpi, want : dpi = DpiFor(px, inches) /\ want = Desired(options, px, inches)
    OBVIOUS
  <1>2. options.factor \in Nat /\ options.target \in Nat /\ options.upscale \in {0, 2, 4}
    <2>1. options.factor \in Factors /\ options.target \in Targets /\ options.upscale \in {0, 2, 4}
      BY DEF Options
    <2>2. Factors \subseteq Nat /\ Targets \subseteq Nat
      BY GeometryConstants
    <2> QED  BY <2>1, <2>2
  <1>3. dpi = Unknown \/ dpi \in Nat
    <2>1. CASE inches = Unknown
      BY <1>1, <2>1 DEF DpiFor
    <2>2. CASE inches # Unknown
      BY <1>1, <2>2, ResolutionIsNumber
    <2> QED  BY <2>1, <2>2
  <1>4. CASE options.factor # 0
    BY <1>1, <1>2, <1>4 DEF Desired
  <1>5. CASE options.factor = 0 /\ options.target = 0
    BY <1>1, <1>2, <1>5 DEF Desired
  <1>6. CASE options.factor = 0 /\ options.target # 0
    <2>1. want = IF dpi = Unknown \/ dpi = 0 THEN 200 ELSE 100 * CeilDiv(options.target, dpi)
      BY <1>1, <1>6 DEF Desired
    <2>2. CASE dpi = Unknown \/ dpi = 0
      BY <1>1, <2>1, <2>2
    <2>3. CASE dpi # Unknown /\ dpi # 0
      <3>1. PICK d \in Nat \ {0}, target \in Nat : d = dpi /\ target = options.target
        BY <1>2, <1>3, <2>3
      <3>2. PICK c \in Nat : c = CeilDiv(target, d) /\ d * c >= target
        <4>1. PICK n \in Nat : n = target + d - 1
          OBVIOUS
        <4>2. PICK c \in Nat : c = n \div d
          BY Quotients
        <4>3. ~(d * (c + 1) <= n)
          <5>1. c + 1 \in Nat /\ ~(c + 1 <= c)
            OBVIOUS
          <5> QED  BY <4>2, <5>1, Quotients
        <4>4. d * (c + 1) = d * c + d /\ d * c \in Nat
          OBVIOUS
        <4>5. d * c >= target
          BY <4>1, <4>3, <4>4
        <4> QED  BY <4>1, <4>2, <4>5 DEF CeilDiv
      <3>3. want = 100 * c
        BY <2>1, <2>3, <3>1, <3>2
      <3>4. d * (100 * c) = 100 * (d * c) /\ d * c \in Nat /\ (100 * (d * c)) \div 100 = d * c
        <4>1. PICK e \in Nat : e = d * c
          OBVIOUS
        <4>2. (100 * e) \div 100 = e
          OBVIOUS
        <4>3. d * (100 * c) = 100 * (d * c)
          OBVIOUS
        <4> QED  BY <4>1, <4>2, <4>3
      <3> QED  BY <1>1, <3>1, <3>2, <3>3, <3>4
    <2> QED  BY <2>2, <2>3
  <1> QED  BY <1>4, <1>5, <1>6

LEMMA FactorFits ==
    ASSUME NEW options \in Options, NEW px \in Sizes, px # Unknown,
           NEW inches \in Formats \cup {Unknown},
           NEW factor, factor = ResolveUpscaleFactor(options, px, inches), factor # 0,
           NEW dpi, dpi = DpiFor(px, inches)
    PROVE  /\ factor \in 100..MaxUpscaleFactor /\ RoundsWithin(factor, px)
           /\ options.factor = 0 /\ options.target # 0 /\ dpi \notin {Unknown, 0} =>
                \/ (dpi * factor) \div 100 >= options.target
                \/ factor = MaxUpscaleFactor \/ ~Within(factor + 1, px)
  <1>1. PICK want \in Nat : want = Desired(options, px, inches)
    BY WhatIsDesired
  <1>2. PICK d \in 0..800 : d = Smaller(want, 800) /\ (d = want \/ d = 800)
    BY DEF Smaller
  <1>3. /\ d > 100
        /\ ~(100 * Ceiling < 121 * Area(px))
        /\ factor = IF Within(d, px) THEN d ELSE Max({f \in 100..800 : RoundsWithin(f, px)})
    BY <1>1, <1>2 DEF ResolveUpscaleFactor, MaxUpscaleFactor
  <1>4. CASE Within(d, px)
    <2>1. factor = d /\ RoundsWithin(d, px)
      BY <1>2, <1>3, <1>4, WithinIsRounded
    <2>2. d = want =>
            (options.factor = 0 /\ options.target # 0 /\ dpi \notin {Unknown, 0} =>
                (dpi * factor) \div 100 >= options.target)
      BY <1>1, <2>1, WhatIsDesired
    <2>3. factor \in 100..800 /\ (factor = want \/ factor = 800)
      <3>1. d > 100
        BY <1>3
      <3> QED  BY <1>2, <2>1, <3>1
    <2>4. CASE factor = 800
      BY <2>1, <2>3, <2>4 DEF MaxUpscaleFactor
    <2>5. CASE factor = want
      BY <2>1, <2>2, <2>3, <2>5 DEF MaxUpscaleFactor
    <2> QED  BY <2>3, <2>4, <2>5
  <1>5. CASE ~Within(d, px)
    <2>1. PICK S : S = {f \in 100..800 : RoundsWithin(f, px)}
      OBVIOUS
    <2>2. S \subseteq Int /\ IsFiniteSet(S) /\ S # {}
      <3>1. 100 \in S
        BY <1>3, <2>1, OneFits
      <3>2. PICK low \in Int, high \in Int : low = 100 /\ high = 800
        OBVIOUS
      <3>3. IsFiniteSet(low..high)
        BY FS_Interval
      <3>4. S \subseteq low..high
        BY <2>1, <3>2
      <3>5. IsFiniteSet(S)
        BY <3>3, <3>4, FS_Subset
      <3> QED  BY <3>1, <3>4, <3>5
    <2>3. factor = Max(S)
      BY <1>3, <1>5, <2>1
    <2>4. factor \in S /\ \A f \in S : factor >= f
      BY <2>2, <2>3, MaxIsMember
    <2>5. factor \in 100..800 /\ RoundsWithin(factor, px)
      BY <2>1, <2>4
    <2>6. CASE factor # 800
      <3>1. factor + 1 \in 100..800 /\ factor + 1 \in Nat /\ factor + 1 >= 1 /\ ~(factor >= factor + 1)
        BY <2>5, <2>6
      <3>2. factor + 1 \notin S
        BY <2>4, <3>1
      <3>3. ~Within(factor + 1, px)
        BY <2>1, <3>1, <3>2, WithinIsRounded
      <3> QED  BY <2>5, <3>3 DEF MaxUpscaleFactor
    <2>7. CASE factor = 800
      BY <2>5, <2>7 DEF MaxUpscaleFactor
    <2> QED  BY <2>6, <2>7
  <1> QED  BY <1>4, <1>5

\* Whatever is asked for, an upscale is between one and eight, its output stays
\* below the ceiling, and it reaches the resolution asked for unless one of the
\* two caps it or the source has no dot per inch (resolveUpscaleFactor).
THEOREM UpscalesFit == GeometryInit /\ [][Ask]_asked => []UpscaleFits
  <1> DEFINE Asked == asked = NotAsked \/ asked \in [options : Options, px : Sizes \cup {Unknown},
                                                     inches : Formats \cup {Unknown}]
  <1>1. GeometryInit => Asked
    BY DEF GeometryInit
  <1>2. Asked /\ [Ask]_asked => Asked'
    BY DEF Ask
  <1>3. Asked => UpscaleFits
    <2> SUFFICES ASSUME Asked, ResolveUpscaleFactor(asked.options, asked.px, asked.inches) # 0,
                        asked.px # Unknown
                 PROVE  UpscaleFits
      BY DEF UpscaleFits
    <2>1. asked # NotAsked
      BY DEF NotAsked
    <2>2. /\ asked.options \in Options /\ asked.px \in Sizes
          /\ asked.inches \in Formats \cup {Unknown}
      BY <2>1
    <2> QED  BY <2>2, FactorFits DEF UpscaleFits
  <1> QED  BY <1>1, <1>2, <1>3, PTL

-----------------------------------------------------------------------------
(* The size of the file that is built. *)

IsRounded(r, n, d) == 2 * (d * r) <= 2 * n + d /\ 2 * n + d < 2 * (d * r) + 2 * d

LEMMA Rounds ==
    ASSUME NEW n \in Nat, NEW d \in Nat \ {0}
    PROVE  Round(n, d) \in Nat /\ IsRounded(Round(n, d), n, d)
  <1>1. PICK m \in Nat, e \in Nat \ {0} : m = 2 * n + d /\ e = 2 * d
    OBVIOUS
  <1>2. PICK q \in Nat : q = m \div e
    BY Quotients
  <1>3. e * q <= m /\ ~(e * (q + 1) <= m)
    <2>1. q + 1 \in Nat /\ ~(q + 1 <= q) /\ q <= q
      OBVIOUS
    <2> QED  BY <1>2, <2>1, Quotients
  <1>4. e * (q + 1) = e * q + e /\ e * q = 2 * (d * q) /\ d * q \in Nat
    BY <1>1
  <1>5. Round(n, d) = q
    BY <1>1, <1>2 DEF Round
  <1> QED  BY <1>1, <1>3, <1>4, <1>5 DEF IsRounded

\* The other side of a size that is reduced to a side of its box is in the box.
LEMMA RoundInside ==
    ASSUME NEW w \in Nat \ {0}, NEW m \in Nat, NEW c \in Nat \ {0}, m <= w * c
    PROVE  AtLeastOne(Round(m, w)) \in 1..c
  <1>1. PICK r \in Nat : r = Round(m, w) /\ 2 * (w * r) <= 2 * m + w
    BY Rounds DEF IsRounded
  <1>2. r <= c
    <2> SUFFICES ASSUME r >= c + 1 PROVE FALSE
      OBVIOUS
    <2>1. PICK e \in Nat : r = c + 1 + e
      <3>1. r - (c + 1) \in Nat /\ r = c + 1 + (r - (c + 1))
        OBVIOUS
      <3> QED  BY <3>1
    <2>2. w * (c + 1 + e) = w * c + w + w * e /\ w * e \in Nat /\ w * c \in Nat
      OBVIOUS
    <2> QED  BY <1>1, <2>1, <2>2
  <1> QED  BY <1>1, <1>2 DEF AtLeastOne

Size == (Nat \ {0}) \X (Nat \ {0})

LEMMA FitsTheBox ==
    ASSUME NEW px \in Size, NEW box \in Size
    PROVE  /\ FitInside(px, box) \in Size
           /\ FitInside(px, box)[1] <= box[1] /\ FitInside(px, box)[2] <= box[2]
  <1>1. PICK w \in Nat \ {0}, h \in Nat \ {0}, b \in Nat \ {0}, c \in Nat \ {0} :
            px = <<w, h>> /\ box = <<b, c>>
    BY DEF Size
  <1>2. CASE w <= b /\ h <= c
    BY <1>1, <1>2 DEF FitInside, Size
  <1>3. CASE ~(w <= b /\ h <= c) /\ w * c >= h * b
    <2>1. AtLeastOne(Round(h * b, w)) \in 1..c
      BY <1>3, RoundInside
    <2>2. FitInside(px, box) = <<b, AtLeastOne(Round(h * b, w))>>
      BY <1>1, <1>3 DEF FitInside
    <2> QED  BY <1>1, <2>1, <2>2 DEF Size
  <1>4. CASE ~(w <= b /\ h <= c) /\ ~(w * c >= h * b)
    <2>1. w * c <= h * b
      <3>1. w * c \in Nat /\ h * b \in Nat
        OBVIOUS
      <3> QED  BY <1>4, <3>1
    <2>2. AtLeastOne(Round(w * c, h)) \in 1..b
      BY <2>1, RoundInside
    <2>3. FitInside(px, box) = <<AtLeastOne(Round(w * c, h)), c>>
      BY <1>1, <1>4 DEF FitInside
    <2> QED  BY <1>1, <2>2, <2>3 DEF Size
  <1> QED  BY <1>2, <1>3, <1>4

\* What fits stays as it is.
LEMMA FitsTwice ==
    ASSUME NEW px \in Size, NEW box \in Size
    PROVE  FitInside(FitInside(px, box), box) = FitInside(px, box)
  <1>1. PICK size : size = FitInside(px, box)
    OBVIOUS
  <1>2. size[1] <= box[1] /\ size[2] <= box[2]
    BY <1>1, FitsTheBox
  <1> QED  BY <1>1, <1>2 DEF FitInside

LEMMA NearAtLeastOne ==
    ASSUME NEW a \in Nat, NEW b \in Nat, a <= b + 1, b <= a + 1
    PROVE  Near(AtLeastOne(a), AtLeastOne(b))
  BY DEF Near, AtLeastOne

\* At most half as much again apart, multiplied, is at most one apart.
LEMMA OneApart ==
    ASSUME NEW w \in Nat \ {0}, NEW a \in Nat, NEW b \in Nat, 2 * (w * a) < 2 * (w * b) + 3 * w
    PROVE  a <= b + 1
  <1> SUFFICES ASSUME a >= b + 2 PROVE FALSE
    OBVIOUS
  <1>1. PICK e \in Nat : a = b + 2 + e
    <2>1. a - (b + 2) \in Nat /\ a = b + 2 + (a - (b + 2))
      OBVIOUS
    <2> QED  BY <2>1
  <1>2. w * (b + 2 + e) = w * b + 2 * w + w * e /\ w * e \in Nat /\ w * b \in Nat
    OBVIOUS
  <1> QED  BY <1>1, <1>2

\* A side that was rounded at full resolution and is rounded again at a lower
\* one differs by one pixel at most from the side that is rounded once.
LEMMA RoundedTwice ==
    ASSUME NEW w \in Nat \ {0}, NEW y \in Nat \ {0}, NEW d \in 1..300,
           NEW m \in Nat, IsRounded(m, 300 * y, w),
           NEW once \in Nat, IsRounded(once, d * y, w),
           NEW twice \in Nat, IsRounded(twice, AtLeastOne(m) * d, 300)
    PROVE  Near(AtLeastOne(once), AtLeastOne(twice))
  <1>1. 2 * (w * m) <= 600 * y + w /\ 600 * y + w < 2 * (w * m) + 2 * w
    BY DEF IsRounded
  <1>2. 2 * (w * once) <= 2 * (d * y) + w /\ 2 * (d * y) + w < 2 * (w * once) + 2 * w
    BY DEF IsRounded
  <1>3. /\ 600 * twice <= 2 * (AtLeastOne(m) * d) + 300
        /\ 2 * (AtLeastOne(m) * d) + 300 < 600 * twice + 600
    BY DEF IsRounded
  <1>4. PICK P \in Nat, Q \in Nat : P = w * m /\ Q = d * y
    OBVIOUS
  <1>5. CASE m = 0
    <2>1. 600 * y < w
      BY <1>5, <1>1
    <2>2. Q <= 300 * y
      BY <1>4
    <2>3. once < 1
      <3> SUFFICES ASSUME once >= 1 PROVE FALSE
        OBVIOUS
      <3>1. w * once >= w
        OBVIOUS
      <3>2. PICK R \in Nat : R = w * once
        OBVIOUS
      <3> QED  BY <1>4, <1>2, <2>1, <2>2, <3>1, <3>2
    <2>4. twice <= 1
      BY <1>5, <1>3 DEF AtLeastOne
    <2> QED  BY <2>3, <2>4 DEF Near, AtLeastOne
  <1>6. CASE m # 0
    <2>1. AtLeastOne(m) = m
      BY <1>6 DEF AtLeastOne
    <2>2. PICK R \in Nat, S \in Nat : R = w * once /\ S = w * twice
      OBVIOUS
    <2>3. PICK M \in Nat : M = m * d
      OBVIOUS
    <2>4. PICK N \in Nat : N = w * M /\ N = d * P
      BY <1>4, <2>3
    <2>5. 600 * S <= 2 * N + 300 * w /\ 2 * N + 300 * w < 600 * S + 600 * w
      <3>1. 600 * twice <= 2 * M + 300 /\ 2 * M + 300 < 600 * twice + 600
        BY <1>3, <2>1, <2>3
      <3>2. PICK u \in Nat : 2 * M + 300 = 600 * twice + u /\ u < 600
        <4>1. PICK u \in Int : u = 2 * M + 300 - 600 * twice
          OBVIOUS
        <4>2. u \in Nat /\ 2 * M + 300 = 600 * twice + u /\ u < 600
          BY <3>1, <4>1
        <4> QED  BY <4>2
      <3>3. w * (2 * M + 300) = 2 * N + 300 * w
        BY <2>4
      <3>4. w * (600 * twice + u) = 600 * S + w * u
        BY <2>2
      <3>5. w * u \in Nat /\ w * u < 600 * w
        BY <3>2
      <3>6. PICK v \in Nat : v = w * u
        OBVIOUS
      <3> QED  BY <3>2, <3>3, <3>4, <3>5, <3>6
    <2>6. 2 * N <= 600 * Q + 300 * w /\ 600 * Q <= 2 * N + 300 * w
      <3>1. 2 * P <= 600 * y + w /\ 600 * y <= 2 * P + w
        BY <1>4, <1>1
      <3>2. d * (2 * P) = 2 * N /\ d * (600 * y) = 600 * Q
        BY <1>4, <2>4
      <3>3. PICK a \in Nat : 2 * P + a = 600 * y + w
        <4>1. 600 * y + w - 2 * P \in Nat
          BY <3>1
        <4> QED  BY <4>1
      <3>4. PICK b \in Nat : 600 * y + b = 2 * P + w
        <4>1. 2 * P + w - 600 * y \in Nat
          BY <3>1
        <4> QED  BY <4>1
      <3>5. d * (2 * P + a) = d * (2 * P) + d * a /\ d * (600 * y + w) = d * (600 * y) + d * w
        OBVIOUS
      <3>6. d * (600 * y + b) = d * (600 * y) + d * b /\ d * (2 * P + w) = d * (2 * P) + d * w
        OBVIOUS
      <3>7. PICK e \in Nat, f \in Nat, g \in Nat : e = d * a /\ f = d * b /\ g = d * w
        OBVIOUS
      <3>8. g <= 300 * w
        BY <3>7
      <3>9. 2 * N + e = 600 * Q + g
        BY <3>2, <3>3, <3>5, <3>7
      <3>10. 600 * Q + f = 2 * N + g
        BY <3>2, <3>4, <3>6, <3>7
      <3> QED  BY <3>8, <3>9, <3>10
    <2>7. 2 * R <= 2 * Q + w /\ 2 * Q + w < 2 * R + 2 * w
      BY <1>4, <1>2, <2>2
    <2>8. 2 * S < 2 * R + 3 * w
      BY <2>5, <2>6, <2>7
    <2>9. 2 * R < 2 * S + 3 * w
      BY <2>5, <2>6, <2>7
    <2>10. twice <= once + 1
      BY <2>2, <2>8, OneApart
    <2>11. once <= twice + 1
      BY <2>2, <2>9, OneApart
    <2> QED  BY <2>10, <2>11, NearAtLeastOne
  <1> QED  BY <1>5, <1>6

LEMMA RoundOfAMultiple ==
    ASSUME NEW n \in Nat, NEW d \in Nat \ {0}, NEW q \in Nat, n = d * q
    PROVE  Round(n, d) = q
  <1>1. PICK r \in Nat : /\ r = Round(n, d)
                         /\ 2 * (d * r) <= 2 * n + d /\ 2 * n + d < 2 * (d * r) + 2 * d
    BY Rounds DEF IsRounded
  <1>2. r <= q + 1 /\ q <= r + 1
    <2>1. 2 * (d * r) < 2 * (d * q) + 3 * d
      BY <1>1
    <2>2. 2 * (d * q) < 2 * (d * r) + 3 * d
      BY <1>1
    <2> QED  BY <2>1, <2>2, OneApart
  <1>3. r # q + 1
    <2> SUFFICES ASSUME r = q + 1 PROVE FALSE
      OBVIOUS
    <2>1. d * (q + 1) = d * q + d /\ d * q \in Nat
      OBVIOUS
    <2> QED  BY <1>1, <2>1
  <1>4. q # r + 1
    <2> SUFFICES ASSUME q = r + 1 PROVE FALSE
      OBVIOUS
    <2>1. d * (r + 1) = d * r + d /\ d * r \in Nat
      OBVIOUS
    <2> QED  BY <1>1, <2>1
  <1> QED  BY <1>1, <1>2, <1>3, <1>4

\* The other side of an image that the format holds by one side of i inches:
\* reduced to d dots per inch at once, or to PrintDpi and then to d.
SideAgrees(h, w, i, d) ==
    Near(AtLeastOne(Round(h * (i * d), w)),
         AtLeastOne(Round(AtLeastOne(Round(h * (i * 300), w)) * (i * d), i * 300)))

LEMMA ReducedTwice ==
    ASSUME NEW h \in Nat \ {0}, NEW w \in Nat \ {0}, NEW i \in Nat \ {0}, NEW d \in 1..300
    PROVE  SideAgrees(h, w, i, d)
  <1> DEFINE base == AtLeastOne(Round(h * (i * 300), w))
  <1>1. PICK y \in Nat \ {0} : y = h * i
    OBVIOUS
  <1>2. h * (i * 300) = 300 * y /\ h * (i * d) = d * y /\ 300 * y \in Nat /\ d * y \in Nat
    BY <1>1
  <1>3. PICK m \in Nat : m = Round(300 * y, w) /\ IsRounded(m, 300 * y, w)
    BY <1>2, Rounds
  <1>4. base = AtLeastOne(m) /\ base \in Nat \ {0}
    BY <1>2, <1>3 DEF AtLeastOne
  <1>5. PICK once \in Nat : once = Round(d * y, w) /\ IsRounded(once, d * y, w)
    BY <1>2, Rounds
  <1>6. PICK B \in Nat : B = base * d
    BY <1>4
  <1>7. base * (i * d) = i * B /\ i * B \in Nat /\ i * 300 \in Nat \ {0}
    BY <1>4, <1>6
  <1>8. PICK twice \in Nat : twice = Round(i * B, i * 300) /\ IsRounded(twice, i * B, i * 300)
    BY <1>7, Rounds
  <1>9. IsRounded(twice, B, 300)
    <2>1. PICK s \in Nat, t \in Nat : s = 600 * twice /\ t = 2 * B + 300
      OBVIOUS
    <2>2. i * s = 2 * ((i * 300) * twice) /\ i * t = 2 * (i * B) + i * 300
      BY <2>1
    <2>3. i * (s + 600) = 2 * ((i * 300) * twice) + 2 * (i * 300)
      BY <2>1
    <2>4. i * s <= i * t /\ i * t < i * (s + 600)
      BY <1>8, <2>2, <2>3 DEF IsRounded
    <2>5. s <= t
      BY <2>4
    <2>6. t < s + 600
      BY <2>4
    <2> QED  BY <2>1, <2>5, <2>6 DEF IsRounded
  <1>10. Near(AtLeastOne(once), AtLeastOne(twice))
    <2>1. IsRounded(m, 300 * y, w) /\ IsRounded(once, d * y, w)
      BY <1>3, <1>5
    <2>2. IsRounded(twice, AtLeastOne(m) * d, 300)
      BY <1>4, <1>6, <1>9
    <2> QED  BY <2>1, <2>2, RoundedTwice, Zenon
  <1> QED  BY <1>2, <1>5, <1>7, <1>8, <1>10 DEF SideAgrees

\* A box that the image does not fit has the same shape at any resolution: the
\* same side of it is the one that holds the image.
LEMMA SameSide ==
    ASSUME NEW w \in Nat, NEW h \in Nat, NEW i \in Nat, NEW k \in Nat, NEW d \in Nat \ {0}
    PROVE  w * (k * d) >= h * (i * d) <=> w * k >= h * i
  <1>1. PICK a \in Nat, b \in Nat : a = w * k /\ b = h * i
    OBVIOUS
  <1>2. w * (k * d) = d * a /\ h * (i * d) = d * b
    BY <1>1
  <1>3. d * a >= d * b <=> a >= b
    OBVIOUS
  <1> QED  BY <1>1, <1>2, <1>3

AgreesLater(px, i, k, d) ==
    SameSize(FitInside(px, <<i * d, k * d>>),
             FitInside(FitInside(px, <<i * 300, k * 300>>), <<i * d, k * d>>))

LEMMA FitsLater ==
    ASSUME NEW px \in Size, NEW i \in Nat \ {0}, NEW k \in Nat \ {0}, NEW d \in 1..300
    PROVE  AgreesLater(px, i, k, d)
  <1> USE DEF AgreesLater
  <1>1. PICK w \in Nat \ {0}, h \in Nat \ {0} : px = <<w, h>>
    BY DEF Size
  <1>2. PICK b \in Nat \ {0}, c \in Nat \ {0}, B \in Nat \ {0}, C \in Nat \ {0} :
            b = i * d /\ c = k * d /\ B = i * 300 /\ C = k * 300
    OBVIOUS
  <1>3. b <= B /\ c <= C /\ <<b, c>> \in Size /\ <<B, C>> \in Size
    <2>1. i * d <= i * 300 /\ k * d <= k * 300
      OBVIOUS
    <2> QED  BY <1>2, <2>1 DEF Size
  <1>4. PICK base : base = FitInside(px, <<B, C>>)
    OBVIOUS
  <1>5. PICK atOnce, later : atOnce = FitInside(px, <<b, c>>) /\ later = FitInside(base, <<b, c>>)
    OBVIOUS
  <1>6. atOnce = later => SameSize(atOnce, later)
    <2>1. atOnce \in Size
      BY <1>3, <1>5, FitsTheBox
    <2> QED  BY <2>1 DEF Size, SameSize, Near
  <1>7. CASE w <= B /\ h <= C
    <2>1. base = px
      BY <1>1, <1>4, <1>7 DEF FitInside
    <2> QED  BY <1>2, <1>4, <1>5, <1>6, <2>1
  <1>8. CASE d = 300
    <2>1. b = B /\ c = C
      BY <1>2, <1>8
    <2>2. FitInside(base, <<B, C>>) = base
      BY <1>3, <1>4, FitsTwice
    <2> QED  BY <1>2, <1>4, <1>5, <1>6, <2>1, <2>2
  <1>9. CASE d # 300 /\ ~(w <= B /\ h <= C)
    <2>1. b < B /\ c < C
      <3>1. i * d < i * 300 /\ k * d < k * 300
        BY <1>9
      <3> QED  BY <1>2, <3>1
    <2>2. ~(w <= b /\ h <= c)
      BY <1>9, <2>1
    <2>3. CASE w * k >= h * i
      <3>1. w * C >= h * B /\ w * c >= h * b
        BY <1>2, <2>3, SameSide
      <3>2. PICK side : side = AtLeastOne(Round(h * B, w)) /\ side \in 1..C
        BY <3>1, RoundInside
      <3>3. base = <<B, side>>
        BY <1>1, <1>4, <1>9, <3>1, <3>2 DEF FitInside
      <3>4. B * c >= side * b
        <4>1. B * c = C * b
          BY <1>2
        <4>2. side * b <= C * b
          BY <3>2
        <4>3. side * b \in Nat /\ C * b \in Nat
          BY <3>2
        <4> QED  BY <4>1, <4>2, <4>3
      <3>5. later = <<b, AtLeastOne(Round(side * b, B))>>
        BY <1>5, <2>1, <3>3, <3>4 DEF FitInside
      <3>6. atOnce = <<b, AtLeastOne(Round(h * b, w))>>
        BY <1>1, <1>5, <2>2, <3>1 DEF FitInside
      <3>7. Near(AtLeastOne(Round(h * b, w)), AtLeastOne(Round(side * b, B)))
        <4>1. side = AtLeastOne(Round(h * (i * 300), w))
          BY <1>2, <3>2
        <4>2. SideAgrees(h, w, i, d)
          BY ReducedTwice
        <4> QED  BY <1>2, <4>1, <4>2 DEF SideAgrees
      <3>8. Near(b, b)
        BY DEF Near
      <3>9. SameSize(atOnce, later)
        BY <3>5, <3>6, <3>7, <3>8 DEF SameSize
      <3> QED  BY <1>2, <1>4, <1>5, <3>9
    <2>4. CASE ~(w * k >= h * i)
      <3>1. ~(w * C >= h * B) /\ ~(w * c >= h * b)
        BY <1>2, <2>4, SameSide
      <3>2. PICK side : side = AtLeastOne(Round(w * C, h)) /\ side \in 1..B
        <4>1. w * C <= h * B
          <5>1. w * C \in Nat /\ h * B \in Nat
            OBVIOUS
          <5> QED  BY <3>1, <5>1
        <4> QED  BY <4>1, RoundInside
      <3>3. base = <<side, C>>
        BY <1>1, <1>4, <1>9, <3>1, <3>2 DEF FitInside
      <3>4. later = <<AtLeastOne(Round(side * c, C)), c>>
        <4>1. CASE side = B
          <5>1. B * c = C * b /\ side * c = C * b
            BY <1>2, <4>1
          <5>2. later = <<b, AtLeastOne(Round(C * b, B))>>
            BY <1>5, <2>1, <3>3, <4>1, <5>1 DEF FitInside
          <5>3. Round(C * b, B) = c
            BY <5>1, RoundOfAMultiple
          <5>4. Round(side * c, C) = b
            BY <5>1, RoundOfAMultiple
          <5> QED  BY <5>2, <5>3, <5>4 DEF AtLeastOne
        <4>2. CASE side # B
          <5>1. ~(side * c >= C * b)
            <6>1. C * b = B * c
              BY <1>2
            <6>2. side * c < B * c
              BY <3>2, <4>2
            <6>3. side * c \in Nat /\ B * c \in Nat
              BY <3>2
            <6> QED  BY <6>1, <6>2, <6>3
          <5> QED  BY <1>5, <2>1, <3>3, <5>1 DEF FitInside
        <4> QED  BY <4>1, <4>2
      <3>5. atOnce = <<AtLeastOne(Round(w * c, h)), c>>
        BY <1>1, <1>5, <2>2, <3>1 DEF FitInside
      <3>6. Near(AtLeastOne(Round(w * c, h)), AtLeastOne(Round(side * c, C)))
        <4>1. side = AtLeastOne(Round(w * (k * 300), h))
          BY <1>2, <3>2
        <4>2. SideAgrees(w, h, k, d)
          BY ReducedTwice
        <4> QED  BY <1>2, <4>1, <4>2 DEF SideAgrees
      <3>7. Near(c, c)
        BY DEF Near
      <3>8. SameSize(atOnce, later)
        BY <3>4, <3>5, <3>6, <3>7 DEF SameSize
      <3> QED  BY <1>2, <1>4, <1>5, <3>8
    <2> QED  BY <2>3, <2>4
  <1> QED  BY <1>7, <1>8, <1>9

\* What is built is the image in its box, with a border that its size does not
\* change.
BorderOf(inches, options) ==
    IF options.bleed /\ inches # Unknown THEN BleedPx(Dpi(options)) ELSE 0

LEMMA BuiltInItsBox ==
    ASSUME NEW options, ~options.fit, NEW px, NEW inches, Dpi(options) \in 72..600
    PROVE  /\ BuildPrintImage(px, inches, options) =
                <<FitInside(px, Box(inches, Dpi(options)))[1] + 2 * BorderOf(inches, options),
                  FitInside(px, Box(inches, Dpi(options)))[2] + 2 * BorderOf(inches, options)>>
           /\ BorderOf(inches, options) \in Nat
  <1>1. BleedPx(Dpi(options)) \in Nat
    <2>1. PICK n \in Nat, e \in Nat \ {0} : n = 30 * Dpi(options) /\ e = 254
      OBVIOUS
    <2>2. Round(n, e) \in Nat
      BY Rounds
    <2> QED  BY <2>1, <2>2 DEF BleedPx
  <1> QED  BY <1>1 DEF BuildPrintImage, BorderOf

LEMMA BoxIsSize ==
    ASSUME NEW inches \in Formats \cup {Unknown}, NEW d \in Nat \ {0}
    PROVE  Box(inches, d) \in Size
  <1>1. CASE inches = Unknown
    BY <1>1 DEF Box, MaxEdge, Size
  <1>2. CASE inches # Unknown
    <2>1. PICK i \in Nat \ {0}, k \in Nat \ {0} : inches = <<i, k>>
      <3>1. inches \in (Nat \ {0}) \X (Nat \ {0})
        BY <1>2, GeometryConstants
      <3> QED  BY <3>1
    <2>2. i * d \in Nat \ {0} /\ k * d \in Nat \ {0}
      OBVIOUS
    <2> QED  BY <1>2, <2>1, <2>2 DEF Box, Size
  <1> QED  BY <1>1, <1>2

LEMMA BasesTakeNoOptions ==
    ASSUME NEW px \in Size, NEW inches \in Formats \cup {Unknown}, NEW options
    PROVE  BuildBase(px, inches, options) = FitInside(px, Box(inches, 300))
  <1>1. Dpi(NoOptions) = 300 /\ ~NoOptions.fit /\ BorderOf(inches, NoOptions) = 0
    BY DEF NoOptions, Dpi, PrintDpi, BorderOf
  <1>2. BuildBase(px, inches, options) = <<FitInside(px, Box(inches, 300))[1] + 2 * 0,
                                           FitInside(px, Box(inches, 300))[2] + 2 * 0>>
    BY <1>1, BuiltInItsBox DEF BuildBase
  <1>3. Box(inches, 300) \in Size
    BY BoxIsSize
  <1>4. FitInside(px, Box(inches, 300)) \in Size
    BY <1>3, FitsTheBox
  <1> QED  BY <1>2, <1>4 DEF Size

\* Whatever the source, the format and the adjustments are, saving adjustments
\* that do not cut the image from the base that was kept gives the size that
\* they would have had at once, but for one pixel on a side: "Re-apply
\* adjustments without resolution loss" (schema.prisma:606-607).
THEOREM AdjustmentsKeepResolution == GeometryInit /\ [][Ask]_asked => []AdjustKeepsResolution
  <1> DEFINE Asked == asked = NotAsked \/ asked \in [options : Options, px : Sizes \cup {Unknown},
                                                     inches : Formats \cup {Unknown}]
  <1>1. GeometryInit => Asked
    BY DEF GeometryInit
  <1>2. Asked /\ [Ask]_asked => Asked'
    BY DEF Ask
  <1>3. Asked => AdjustKeepsResolution
    <2> SUFFICES ASSUME Asked, asked.px # Unknown, ~asked.options.fit,
                        Dpi(asked.options) <= PrintDpi
                 PROVE  SameSize(AtOnce, Later)
      BY DEF AdjustKeepsResolution
    <2>1. PICK options, px, inches :
              options = asked.options /\ px = asked.px /\ inches = asked.inches
      OBVIOUS
    <2>2. options \in Options /\ px \in Sizes /\ inches \in Formats \cup {Unknown}
      <3>1. asked # NotAsked
        BY DEF NotAsked
      <3> QED  BY <2>1, <3>1
    <2>3. px \in Size /\ ~options.fit
      BY <2>1, <2>2, GeometryConstants DEF Size
    <2>4. PICK d \in 72..300 : d = Dpi(options)
      <3>1. options.target \in {0} \cup 72..600
        <4>1. options.target \in Targets
          BY <2>2 DEF Options
        <4>2. Targets \subseteq {0} \cup 72..600
          BY GeometryConstants
        <4> QED  BY <4>1, <4>2
      <3> QED  BY <2>1, <3>1 DEF Dpi, PrintDpi
    <2>5. PICK base : base = BuildBase(px, inches, options) /\ base = FitInside(px, Box(inches, 300))
      BY <2>2, <2>3, BasesTakeNoOptions
    <2>6. PICK atOnce, later : /\ atOnce = FitInside(px, Box(inches, d))
                               /\ later = FitInside(base, Box(inches, d))
      OBVIOUS
    <2>7. SameSize(atOnce, later)
      <3>1. CASE inches = Unknown
        <4>1. Box(inches, d) = Box(inches, 300) /\ Box(inches, d) \in Size
          BY <3>1 DEF Box, MaxEdge, Size
        <4>2. atOnce = later /\ atOnce \in Size
          BY <2>3, <2>5, <2>6, <4>1, FitsTwice, FitsTheBox
        <4> QED  BY <4>2 DEF Size, SameSize, Near
      <3>2. CASE inches # Unknown
        <4>1. PICK i \in Nat \ {0}, k \in Nat \ {0} : inches = <<i, k>>
          <5>1. inches \in (Nat \ {0}) \X (Nat \ {0})
            BY <2>2, <3>2, GeometryConstants
          <5> QED  BY <5>1
        <4>2. Box(inches, d) = <<i * d, k * d>> /\ Box(inches, 300) = <<i * 300, k * 300>>
          BY <3>2, <4>1 DEF Box
        <4>3. i \in Nat \ {0} /\ k \in Nat \ {0} /\ d \in 1..300
          OBVIOUS
        <4>4. AgreesLater(px, i, k, d)
          BY <2>3, <4>3, FitsLater
        <4> QED  BY <2>5, <2>6, <4>2, <4>4 DEF AgreesLater
      <3> QED  BY <3>1, <3>2
    <2>8. PICK border \in Nat :
              /\ AtOnce = <<atOnce[1] + 2 * border, atOnce[2] + 2 * border>>
              /\ Later = <<later[1] + 2 * border, later[2] + 2 * border>>
      BY <2>1, <2>3, <2>4, <2>5, <2>6, BuiltInItsBox DEF AtOnce, Later
    <2>9. atOnce \in Size /\ later \in Size
      <3>1. Box(inches, d) \in Size /\ Box(inches, 300) \in Size
        BY <2>2, BoxIsSize
      <3> QED  BY <2>3, <2>5, <2>6, <3>1, FitsTheBox
    <2> QED  BY <2>7, <2>8, <2>9 DEF SameSize, Near, Size
  <1> QED  BY <1>1, <1>2, <1>3, PTL

=============================================================================
