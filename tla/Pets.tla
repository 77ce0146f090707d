-------------------------------- MODULE Pets --------------------------------
(***************************************************************************)
(* PetsService and PetsController: the photos of one pet and their files   *)
(* in the storage (external).  Its owner, the only one who may, sends the  *)
(* requests from several tabs.  A pet that was removed (isActive) keeps    *)
(* taking photos: no handler here reads the flag.                          *)
(***************************************************************************)
EXTENDS Requests, FiniteSets, FiniteSetsExt

CONSTANTS
    MaxPetPhotos,   \* MAX_PET_PHOTOS
    MaxUploads      \* bound: photos ever uploaded

ASSUME PetConstants == MaxPetPhotos \in Nat \ {0} /\ MaxUploads \in Nat \ {0}

VARIABLES
    photos,         \* the PetPhoto rows; one is known by its storage key
    petFiles,       \* the files in the storage
    uploads,        \* how many there were
    primaryRaced,   \* history: two handlers that make a photo primary met
    faultless       \* history: no handler failed half way

petVars == <<photos, petFiles, uploads, primaryRaced, faultless, job, started>>

-----------------------------------------------------------------------------
PhotoKey == 1..MaxUploads
Photo == [key : PhotoKey, isPrimary : BOOLEAN, orderIndex : Nat]
Shown == {ph.key : ph \in photos}

\* A handler: the photo it is about and, of a new one, the order it read.
PetJob ==
    [op : {"addPhoto", "updatePhoto", "deletePhoto"},
     at : {"upload", "order", "unset", "write", "row", "file"},
     key : PhotoKey \cup {0}, isPrimary : BOOLEAN, orderIndex : Nat]

MakesPrimary(j) == j # Idle /\ j.op # "deletePhoto" /\ j.isPrimary

PetInit ==
    /\ RequestsInit
    /\ \E n \in 0..1 :
        /\ photos = {[key |-> k, isPrimary |-> TRUE, orderIndex |-> 0] : k \in 1..n}
        /\ petFiles = 1..n /\ uploads = n
    /\ primaryRaced = FALSE /\ faultless = TRUE

Call(p, j) ==
    /\ Dispatch(p, j)
    /\ primaryRaced' = (primaryRaced \/
          (MakesPrimary(j) /\ \E q \in Proc : MakesPrimary(job[q])))

-----------------------------------------------------------------------------

AssertCanAddPhoto == Cardinality(photos) < MaxPetPhotos

\* addPhoto counts, uploads, reads the last index, clears and inserts.
AddPhoto(p, isPrimary) ==
    /\ AssertCanAddPhoto
    /\ Call(p, [op |-> "addPhoto", at |-> "upload", key |-> 0,
                isPrimary |-> isPrimary, orderIndex |-> 0])
    /\ UNCHANGED <<photos, petFiles, uploads, faultless>>

UploadPhoto(p) ==
    /\ At(p, "addPhoto", "upload") /\ uploads < MaxUploads
    /\ uploads' = uploads + 1
    /\ petFiles' = petFiles \cup {uploads'}
    /\ Become(p, [job[p] EXCEPT !.at = "order", !.key = uploads'])
    /\ UNCHANGED <<photos, primaryRaced, faultless>>

ReadOrderIndex(p) ==
    /\ At(p, "addPhoto", "order")
    /\ Become(p, [job[p] EXCEPT !.at = IF job[p].isPrimary THEN "unset" ELSE "write",
                   !.orderIndex = IF photos = {} THEN 0
                                  ELSE Max({ph.orderIndex : ph \in photos}) + 1])
    /\ UNCHANGED <<photos, petFiles, uploads, primaryRaced, faultless>>

UpdatePhoto(p, ph, isPrimary) ==
    /\ Call(p, [op |-> "updatePhoto", at |-> IF isPrimary THEN "unset" ELSE "write",
                key |-> ph.key, isPrimary |-> isPrimary, orderIndex |-> ph.orderIndex])
    /\ UNCHANGED <<photos, petFiles, uploads, faultless>>

\* Mutant of Unset: it leaves the primary photo as it is.
UnsetNone == photos

\* updateMany over every photo of the pet.
Unset == {[ph EXCEPT !.isPrimary = FALSE] : ph \in photos}

UnsetPrimary(p) ==
    /\ job[p].at = "unset"
    /\ photos' = Unset
    /\ Become(p, [job[p] EXCEPT !.at = "write"])
    /\ UNCHANGED <<petFiles, uploads, primaryRaced, faultless>>

\* The row is inserted, or updated by its id if it is still there.
WritePhoto(p) ==
    LET others == {ph \in photos : ph.key # job[p].key}
        row == [key |-> job[p].key, isPrimary |-> job[p].isPrimary,
                orderIndex |-> job[p].orderIndex] IN
    /\ job[p].at = "write"
    /\ job[p].op = "updatePhoto" => job[p].key \in Shown
    /\ photos' = others \cup {row}
    /\ Become(p, Idle)
    /\ UNCHANGED <<petFiles, uploads, primaryRaced, faultless>>

\* deletePhoto deletes the row, and the controller then the file.
DeletePhoto(p, ph) ==
    /\ Call(p, [op |-> "deletePhoto", at |-> "row", key |-> ph.key,
                isPrimary |-> FALSE, orderIndex |-> 0])
    /\ UNCHANGED <<photos, petFiles, uploads, faultless>>

\* Mutant of DeleteRow: that the row is not deleted does not stop it.
DeleteRowOrNot(p) ==
    /\ At(p, "deletePhoto", "row")
    /\ \/ photos' = {ph \in photos : ph.key # job[p].key}
       \/ UNCHANGED photos
    /\ Become(p, [job[p] EXCEPT !.at = "file"])
    /\ UNCHANGED <<petFiles, uploads, primaryRaced, faultless>>

DeleteRow(p) ==
    /\ At(p, "deletePhoto", "row") /\ job[p].key \in Shown
    /\ photos' = {ph \in photos : ph.key # job[p].key}
    /\ Become(p, [job[p] EXCEPT !.at = "file"])
    /\ UNCHANGED <<petFiles, uploads, primaryRaced, faultless>>

DeleteFile(p) ==
    /\ At(p, "deletePhoto", "file")
    /\ petFiles' = petFiles \ {job[p].key}
    /\ Become(p, Idle)
    /\ UNCHANGED <<photos, uploads, primaryRaced, faultless>>

\* An await throws, as it does when the row to write or delete is gone.
PhotoFails(p) ==
    /\ job[p] # Idle
    /\ Become(p, Idle)
    /\ faultless' = FALSE
    /\ UNCHANGED <<photos, petFiles, uploads, primaryRaced>>

PetNext ==
    \E p \in Proc :
        \/ \E isPrimary \in BOOLEAN :
            AddPhoto(p, isPrimary) \/ \E ph \in photos : UpdatePhoto(p, ph, isPrimary)
        \/ \E ph \in photos : DeletePhoto(p, ph)
        \/ UploadPhoto(p) \/ ReadOrderIndex(p) \/ UnsetPrimary(p) \/ WritePhoto(p)
        \/ DeleteRow(p) \/ DeleteFile(p) \/ PhotoFails(p)

PetSpec == PetInit /\ [][PetNext]_petVars

-----------------------------------------------------------------------------
\* A photo always has its file, whatever deletions and failures meet, and
\* only a handler that failed leaves a file without its photo.
PhotosHaveFiles ==
    /\ Shown \subseteq petFiles
    /\ faultless /\ AllIdle => petFiles = Shown

PhotosWithinLimit == Cardinality(photos) <= MaxPetPhotos + Cardinality(Proc) - 1
OnePrimaryPhoto == primaryRaced \/ Cardinality({ph \in photos : ph.isPrimary}) <= 1

\* The limit is checked before the upload, "to leave no orphan objects"
\* (pets.service.ts:155-156), and not again at the insert: the requests under
\* way besides one are what exceeds it, at most.  And a pet has two primary
\* photos only after two requests to make one met: each cleared before the
\* other wrote.
PhotosBounded == PhotosWithinLimit /\ OnePrimaryPhoto
=============================================================================
