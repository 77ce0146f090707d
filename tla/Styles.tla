------------------------------- MODULE Styles -------------------------------
(***************************************************************************)
(* StylesService, VisionConfigsService and ImageGenConfigsService: one     *)
(* style with its catalogue images, its reference image, the configurations *)
(* of its pipeline and the generations made with it.  Administrators send  *)
(* the requests; customers and the pipeline work on the same rows.         *)
(*                                                                         *)
(* The image of a test generation is shown in the catalogue under the      *)
(* storage key of the generation's result: two rows, one file.             *)
(***************************************************************************)
EXTENDS Requests, FiniteSets

CONSTANTS
    Config,         \* the configurations: one per kind
    MaxFiles,       \* bound: files ever uploaded
    MaxGenerations  \* bound: generations ever made

ASSUME StyleConstants == MaxFiles \in Nat /\ MaxGenerations \in Nat

VARIABLES
    style,          \* the Style row: active, inactive or gone
    pipeline,         \* the configurations it refers to
    configs,        \* the configurations there are
    images,         \* its StyleImage rows; one is known by its storage key
    reference,      \* its styleReferenceStorageKey, 0 for none
    generations,    \* the Generation rows of the style
    styleFiles,     \* the files in the storage
    made,           \* how many files there were
    unharmed        \* history: no handler failed

styleVars == <<style, pipeline, configs, images, reference, generations,
               styleFiles, made, unharmed, job, started>>

-----------------------------------------------------------------------------
FileKey == 1..MaxFiles
Image == [key : FileKey, isPrimary : BOOLEAN]
GenerationRow == [id : 1..MaxGenerations, isAdminTest : BOOLEAN, result : FileKey \cup {0}]
Exists == style # "gone"

\* A handler: the file it is about, those it is deleting, and what it was
\* asked for and read.
NoTask == [op |-> "none", at |-> "none", key |-> 0, doomed |-> {}, isPrimary |-> FALSE,
           force |-> FALSE, used |-> FALSE, config |-> {}]
StyleTask(op, at) == [NoTask EXCEPT !.op = op, !.at = at]

StyleInit ==
    /\ RequestsInit
    /\ style = "active" /\ pipeline = Config /\ configs = Config
    /\ images = {} /\ reference = 0 /\ generations = {}
    /\ styleFiles = {} /\ made = 0 /\ unharmed = TRUE

StyleRows == <<style, pipeline, configs, images, reference, generations>>
StyleStorage == <<styleFiles, made>>

Upload(p, at) ==
    /\ made < MaxFiles
    /\ made' = made + 1
    /\ styleFiles' = styleFiles \cup {made'}
    /\ Become(p, [job[p] EXCEPT !.at = at, !.key = made'])
    /\ UNCHANGED <<StyleRows, unharmed>>

-----------------------------------------------------------------------------
(***************************************************************************)
(* The style row.  A foreign key holds it to configurations that exist.    *)
(***************************************************************************)
\* A style that is gone makes room for the next.
CreateStyle ==
    /\ style = "gone" /\ generations = {} /\ AllIdle
    /\ Once
    /\ style' = "active"
    /\ pipeline' \in SUBSET configs
    /\ images' = {} /\ reference' = 0
    /\ UNCHANGED <<configs, generations, StyleStorage, unharmed>>

UpdateStyle(p) ==
    /\ Exists
    /\ \E link \in SUBSET Config : Dispatch(p, [StyleTask("update", "write") EXCEPT !.config = link])
    /\ UNCHANGED <<StyleRows, StyleStorage, unharmed>>

WriteUpdate(p) ==
    /\ At(p, "update", "write")
    /\ Exists /\ job[p].config \subseteq configs
    /\ pipeline' = job[p].config
    /\ style' \in {"active", "inactive"}
    /\ Become(p, Idle)
    /\ UNCHANGED <<configs, images, reference, generations, StyleStorage, unharmed>>

DeactivateStyle ==
    /\ Exists /\ Once
    /\ style' = "inactive"
    /\ UNCHANGED <<pipeline, configs, images, reference, generations, StyleStorage, unharmed>>

\* hardDelete reads the images and generations, deletes their files, and then
\* the rows in a transaction.  The reference image is left in the storage.
HardDeleteStyle(p, force) ==
    /\ Exists
    /\ generations # {} => force
    /\ Dispatch(p, [StyleTask("hardDelete", "files") EXCEPT
            !.force = force, !.used = generations # {},
            !.doomed = ({i.key : i \in images} \cup {g.result : g \in generations}) \ {0}])
    /\ UNCHANGED <<StyleRows, StyleStorage, unharmed>>

\* A file that cannot be deleted is let be.
DeleteFiles(p) ==
    /\ At(p, "hardDelete", "files")
    /\ \E kept \in SUBSET job[p].doomed : styleFiles' = styleFiles \ (job[p].doomed \ kept)
    /\ Become(p, [job[p] EXCEPT !.at = "rows"])
    /\ UNCHANGED <<StyleRows, made, unharmed>>

\* Mutant of Emptied: the generations are deleted whatever was read of them.
EmptiedAlways(p) == TRUE

\* Whether the transaction deletes the generations that there are by now.
Emptied(p) == job[p].used

DeleteRows(p) ==
    /\ At(p, "hardDelete", "rows")
    /\ Exists
    /\ Emptied(p) \/ generations = {}
    /\ style' = "gone" /\ generations' = {} /\ images' = {} /\ pipeline' = {} /\ reference' = 0
    /\ Become(p, Idle)
    /\ UNCHANGED <<configs, StyleStorage, unharmed>>

-----------------------------------------------------------------------------
(***************************************************************************)
(* Its images.                                                             *)
(***************************************************************************)
AddImage(p) ==
    /\ Exists
    /\ Dispatch(p, StyleTask("addImage", "upload"))
    /\ UNCHANGED <<StyleRows, StyleStorage, unharmed>>

UploadImage(p) == At(p, "addImage", "upload") /\ Upload(p, "insert")

InsertImage(p) ==
    /\ At(p, "addImage", "insert") \/ At(p, "publish", "insert")
    /\ Exists
    /\ images' = images \cup {[key |-> job[p].key, isPrimary |-> FALSE]}
    /\ Become(p, Idle)
    /\ UNCHANGED <<style, pipeline, configs, reference, generations, StyleStorage, unharmed>>

UpdateImage(p, i, isPrimary) ==
    /\ Dispatch(p, [StyleTask("updateImage", IF isPrimary THEN "unset" ELSE "write")
                        EXCEPT !.key = i.key, !.isPrimary = isPrimary])
    /\ UNCHANGED <<StyleRows, StyleStorage, unharmed>>

UnsetPrimaryImage(p) ==
    /\ At(p, "updateImage", "unset")
    /\ images' = {[i EXCEPT !.isPrimary = FALSE] : i \in images}
    /\ Become(p, [job[p] EXCEPT !.at = "write"])
    /\ UNCHANGED <<style, pipeline, configs, reference, generations, StyleStorage, unharmed>>

WriteImage(p) ==
    /\ At(p, "updateImage", "write")
    /\ \E i \in images :
        /\ i.key = job[p].key
        /\ images' = (images \ {i}) \cup {[i EXCEPT !.isPrimary = job[p].isPrimary]}
    /\ Become(p, Idle)
    /\ UNCHANGED <<style, pipeline, configs, reference, generations, StyleStorage, unharmed>>

\* The file first, and then the row, which a deletion that fails leaves.
RemoveImage(p, i) ==
    /\ Dispatch(p, [StyleTask("removeImage", "file") EXCEPT !.key = i.key])
    /\ UNCHANGED <<StyleRows, StyleStorage, unharmed>>

RemoveFile(p) ==
    /\ At(p, "removeImage", "file")
    /\ styleFiles' = styleFiles \ {job[p].key}
    /\ Become(p, [job[p] EXCEPT !.at = "row"])
    /\ UNCHANGED <<StyleRows, made, unharmed>>

RemoveRow(p) ==
    /\ At(p, "removeImage", "row")
    /\ \E i \in images : i.key = job[p].key /\ images' = images \ {i}
    /\ Become(p, Idle)
    /\ UNCHANGED <<style, pipeline, configs, reference, generations, StyleStorage, unharmed>>

(***************************************************************************)
(* The reference image: the old file goes, the new one comes, then the row *)
(* is written; a removal uploads none.                                     *)
(***************************************************************************)
FindReferenceStorageKey(p, op) ==
    /\ Exists
    /\ Dispatch(p, [StyleTask(op, "old") EXCEPT !.doomed = {reference} \ {0}])
    /\ UNCHANGED <<StyleRows, StyleStorage, unharmed>>

DropReference(p) ==
    /\ At(p, "uploadReference", "old") \/ At(p, "removeReference", "old")
    /\ styleFiles' \in {styleFiles, styleFiles \ job[p].doomed}
    /\ Become(p, [job[p] EXCEPT !.at = IF job[p].op = "uploadReference" THEN "upload" ELSE "write"])
    /\ UNCHANGED <<StyleRows, made, unharmed>>

UploadReferenceImage(p) == At(p, "uploadReference", "upload") /\ Upload(p, "write")

\* Mutant of RemoveReferenceImage: the row keeps the key.
RemoveReferenceFile(p) ==
    /\ At(p, "removeReference", "write") /\ Exists
    /\ Become(p, Idle)
    /\ UNCHANGED <<StyleRows, StyleStorage, unharmed>>

RemoveReferenceImage(p) ==
    /\ At(p, "removeReference", "write") /\ Exists
    /\ reference' = 0
    /\ Become(p, Idle)
    /\ UNCHANGED <<style, pipeline, configs, images, generations, StyleStorage, unharmed>>

WriteReference(p) ==
    /\ At(p, "uploadReference", "write") /\ Exists
    /\ reference' = job[p].key
    /\ Become(p, Idle)
    /\ UNCHANGED <<style, pipeline, configs, images, generations, StyleStorage, unharmed>>

-----------------------------------------------------------------------------
(***************************************************************************)
(* The configurations: a deletion is refused while styles use it, unless   *)
(* forced, and unlinks those that use it by then.                          *)
(***************************************************************************)
CreateConfig(c) ==
    /\ c \notin configs /\ Once
    /\ configs' = configs \cup {c}
    /\ UNCHANGED <<style, pipeline, images, reference, generations, StyleStorage, unharmed>>

FindUsages(c) == c \in pipeline

RemoveConfig(p, c, force) ==
    /\ c \in configs
    /\ FindUsages(c) => force
    /\ Dispatch(p, [StyleTask("removeConfig", "delete") EXCEPT
            !.config = {c}, !.force = force, !.used = c \in pipeline])
    /\ UNCHANGED <<StyleRows, StyleStorage, unharmed>>

DeleteConfig(p) ==
    /\ At(p, "removeConfig", "delete")
    /\ job[p].config \subseteq configs
    /\ configs' = configs \ job[p].config
    /\ pipeline' = pipeline \ job[p].config
    /\ Become(p, Idle)
    /\ UNCHANGED <<style, images, reference, generations, StyleStorage, unharmed>>

-----------------------------------------------------------------------------
(***************************************************************************)
(* The generations: a customer's, by a product of the style, for which its *)
(* row is enough; a test, which asks for both configurations first (the    *)
(* photo it is made of and its job are left out).                          *)
(***************************************************************************)
InsertGeneration(isAdminTest) ==
    /\ Exists
    /\ \E id \in 1..MaxGenerations :
        /\ \A g \in generations : g.id < id
        /\ generations' = generations \cup
                {[id |-> id, isAdminTest |-> isAdminTest, result |-> 0]}
    /\ UNCHANGED <<style, pipeline, configs, images, reference, StyleStorage, unharmed>>

CreateGeneration == Once /\ InsertGeneration(FALSE)

StartTest(p) ==
    /\ Exists /\ pipeline = Config
    /\ Dispatch(p, StyleTask("test", "insert"))
    /\ UNCHANGED <<StyleRows, StyleStorage, unharmed>>

InsertTest(p) ==
    /\ At(p, "test", "insert")
    /\ InsertGeneration(TRUE)
    /\ Become(p, Idle)

\* The worker stores the result; of a test it goes on to show it.
CompleteGeneration(p, g) ==
    /\ g.result = 0 /\ made < MaxFiles
    /\ made' = made + 1
    /\ styleFiles' = styleFiles \cup {made'}
    /\ generations' = (generations \ {g}) \cup {[g EXCEPT !.result = made']}
    /\ IF g.isAdminTest THEN Dispatch(p, [StyleTask("publish", "insert") EXCEPT !.key = made'])
                        ELSE Once
    /\ UNCHANGED <<style, pipeline, configs, images, reference, unharmed>>

\* The generation that an image shows.
ImageGeneration(i) == {g \in generations : g.isAdminTest /\ g.result = i.key}

\* An await throws, as it does when the row to write or to refer to is gone
\* or what is to be deleted is in use.
StyleFails(p) ==
    /\ job[p] # Idle
    /\ Become(p, Idle)
    /\ unharmed' = FALSE
    /\ UNCHANGED <<StyleRows, StyleStorage>>

StyleNext ==
    \/ CreateStyle \/ DeactivateStyle \/ CreateGeneration
    \/ \E c \in Config : CreateConfig(c)
    \/ \E p \in Proc :
        \/ UpdateStyle(p) \/ WriteUpdate(p)
        \/ \E force \in BOOLEAN :
            HardDeleteStyle(p, force) \/ \E c \in Config : RemoveConfig(p, c, force)
        \/ DeleteFiles(p) \/ DeleteRows(p) \/ DeleteConfig(p)
        \/ AddImage(p) \/ UploadImage(p) \/ InsertImage(p)
        \/ \E i \in images :
            RemoveImage(p, i) \/ \E isPrimary \in BOOLEAN : UpdateImage(p, i, isPrimary)
        \/ UnsetPrimaryImage(p) \/ WriteImage(p) \/ RemoveFile(p) \/ RemoveRow(p)
        \/ \E op \in {"uploadReference", "removeReference"} : FindReferenceStorageKey(p, op)
        \/ DropReference(p) \/ UploadReferenceImage(p)
        \/ RemoveReferenceImage(p) \/ WriteReference(p)
        \/ StartTest(p) \/ InsertTest(p)
        \/ \E g \in generations : CompleteGeneration(p, g)
        \/ StyleFails(p)

StyleSpec == StyleInit /\ [][StyleNext]_styleVars

-----------------------------------------------------------------------------
\* Requests that no failure cut short leave the style complete, however they
\* met: its images and its reference have their files, and so has the result
\* of every customer's generation; that of a test may have gone with the image
\* that showed it (removeImage, getImageGeneration).
StyleHasItsFiles ==
    unharmed /\ AllIdle =>
        /\ {i.key : i \in images} \cup ({reference} \ {0}) \subseteq styleFiles
        /\ \A g \in generations :
            g.result # 0 /\ ~g.isAdminTest => g.result \in styleFiles

Forced(p, op) == At(p, op, "rows") /\ job[p].force
Unlinks(p, c) == At(p, "removeConfig", "delete") /\ c \in job[p].config

\* No generation goes with its style, and no configuration that the style had
\* when that was checked goes from it, unless it was forced: a generation that
\* is paid for after the check stops the deletion, which by then took the
\* files; a style linked to it after the check is unlinked
\* (hardDelete, and remove of the two configuration services).
UsesOutliveUnforced ==
    [][ /\ generations' = {} /\ generations # {} => \E p \in Proc : Forced(p, "hardDelete")
        /\ \A p \in Proc, c \in pipeline :
            Unlinks(p, c) /\ c \notin pipeline' /\ c \notin configs' =>
                job[p].force \/ ~job[p].used ]_styleVars
=============================================================================
