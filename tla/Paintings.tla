----------------------------- MODULE Paintings -----------------------------
(***************************************************************************)
(* PaintByNumbersService: the paintings that one customer saved, the files *)
(* of their artifacts in the storage (external), and the orders that buy   *)
(* them.  The canvas is always sent, the preview (which stands for the     *)
(* three optional artifacts) may be missing.  Whether a painting is public *)
(* (updateFlags) is left out.                                              *)
(***************************************************************************)
EXTENDS Requests, FiniteSets

CONSTANTS
    MaxPbnPerUser,  \* MAX_PBN_PER_USER
    MaxPaintings,   \* bound: paintings ever saved
    MaxArtifacts    \* bound: files ever stored

ASSUME PaintingConstants ==
    /\ MaxPbnPerUser \in Nat \ {0}
    /\ MaxPaintings \in Nat \ {0} /\ MaxArtifacts \in Nat \ {0, 1}

VARIABLES
    paintings,  \* the rows by id: NoPainting, or what they hold
    linked,     \* the paintings that an order item refers to
    artifacts,  \* the files in the storage
    ids, files, \* how many rows and files there ever were
    spoilt,     \* history: paintings whose deletion broke off
    orderly     \* history: no two handlers met, and nothing failed

pbnVars == <<paintings, linked, artifacts, ids, files, spoilt, orderly, job, started>>

-----------------------------------------------------------------------------
PaintingId == 1..MaxPaintings
Artifact == 1..MaxArtifacts
NoFile == 0
NoPainting == [status |-> "none"]
Painting ==
    [status : {"saved", "ordered"}, origin : {"customer", "admin"},
     svg : Artifact, preview : Artifact \cup {NoFile}]

Live == {i \in PaintingId : paintings[i] # NoPainting}
Keys(row) == {row.svg, row.preview} \ {NoFile}

\* A handler: who calls it, the painting it is about and what it read of it,
\* the artifacts it was sent and those it stored, the files it discards.
PbnJob ==
    [op : {"save", "attach", "replace", "delete", "order"},
     at : {"count", "upload", "insert", "link", "mark", "overwrite", "discard", "erase"},
     role : {"customer", "admin"}, id : PaintingId \cup {0},
     seen : Painting \cup {NoPainting}, preview : BOOLEAN,
     svgKey : Artifact \cup {NoFile}, previewKey : Artifact \cup {NoFile},
     drop : SUBSET Artifact]
PbnStart(op, at, i) ==
    [op |-> op, at |-> at, role |-> "customer", id |-> i,
     seen |-> IF i = 0 THEN NoPainting ELSE paintings[i], preview |-> FALSE,
     svgKey |-> NoFile, previewKey |-> NoFile, drop |-> {}]

PaintingInit ==
    /\ RequestsInit
    /\ paintings = [i \in PaintingId |->
                      IF i = 1 THEN [status |-> "saved", origin |-> "customer",
                                     svg |-> 1, preview |-> 2]
                      ELSE NoPainting]
    /\ linked = {} /\ artifacts = {1, 2} /\ ids = 1 /\ files = 2
    /\ spoilt = {} /\ orderly = TRUE

TakeUp(p, j) == Dispatch(p, j) /\ orderly' = (orderly /\ AllIdle)
Step(p, changes) == Become(p, changes) /\ UNCHANGED orderly
Rows == <<paintings, linked, ids, spoilt>>
Files == <<artifacts, files>>

-----------------------------------------------------------------------------
(***************************************************************************)
(* create, by the customer from the studio, or attachPbnToItem, by an      *)
(* administrator for the customer of an order.                             *)
(***************************************************************************)
Create(p, preview) ==
    /\ TakeUp(p, [PbnStart("save", "count", 0) EXCEPT !.preview = preview])
    /\ UNCHANGED <<Rows, Files>>

AttachPbnToItem(p, preview) ==
    /\ TakeUp(p, [PbnStart("attach", "count", 0)
                    EXCEPT !.role = "admin", !.preview = preview])
    /\ UNCHANGED <<Rows, Files>>

\* Mutant of Replacement: it does not ask whether the painting was bought.
ReplacementOfAny(i) == PbnStart("replace", "upload", i)

\* replaceArtifacts: a painting that was bought is left and a copy saved.
Replacement(i) ==
    IF paintings[i].status = "ordered" THEN PbnStart("save", "count", 0)
    ELSE PbnStart("replace", "upload", i)

ReplaceArtifacts(p, i, preview) ==
    /\ i \in Live
    /\ TakeUp(p, [Replacement(i) EXCEPT !.preview = preview])
    /\ UNCHANGED <<Rows, Files>>

MaySave(role) ==
    role = "admin" \/
    Cardinality({i \in Live : paintings[i].status # "ordered"}) < MaxPbnPerUser

\* assertCanSave.
AssertCanSave(p) ==
    /\ job[p].at = "count"
    /\ Step(p, IF MaySave(job[p].role) THEN [job[p] EXCEPT !.at = "upload"] ELSE Idle)
    /\ UNCHANGED <<Rows, Files>>

\* uploadArtifacts, one file at a time.
UploadArtifact(p) ==
    LET lacksSvg == job[p].svgKey = NoFile
        lacksPreview == job[p].preview /\ job[p].previewKey = NoFile
        done == [job[p] EXCEPT
                    !.at = IF job[p].op = "replace" THEN "overwrite" ELSE "insert"] IN
    /\ job[p].at = "upload"
    /\ IF ~lacksSvg /\ ~lacksPreview
       THEN Step(p, done) /\ UNCHANGED Files
       ELSE /\ files < MaxArtifacts
            /\ files' = files + 1
            /\ artifacts' = artifacts \cup {files'}
            /\ \/ lacksSvg /\ Step(p, [job[p] EXCEPT !.svgKey = files'])
               \/ ~lacksSvg /\ Step(p, [job[p] EXCEPT !.previewKey = files'])
    /\ UNCHANGED Rows

InsertPainting(p) ==
    /\ job[p].at = "insert" /\ ids < MaxPaintings
    /\ ids' = ids + 1
    /\ paintings' = [paintings EXCEPT ![ids'] =
          [status |-> "saved", origin |-> job[p].role,
           svg |-> job[p].svgKey, preview |-> job[p].previewKey]]
    /\ Step(p, IF job[p].op = "attach"
               THEN [job[p] EXCEPT !.at = "link", !.id = ids'] ELSE Idle)
    /\ UNCHANGED <<linked, spoilt, Files>>

\* Mutant of Superseded: it discards the artifacts that were not replaced too.
AllSuperseded(j) == Keys(j.seen)

\* The artifacts that an overwritten painting no longer shows.
Superseded(j) ==
    {j.seen.svg} \cup (IF j.preview THEN {j.seen.preview} \ {NoFile} ELSE {})

\* The row is updated by its id, whatever became of it since it was read.
OverwritePainting(p) ==
    LET j == job[p] IN
    /\ j.at = "overwrite" /\ j.id \in Live
    /\ paintings' = [paintings EXCEPT ![j.id].svg = j.svgKey,
                                      ![j.id].preview = IF j.preview THEN j.previewKey ELSE @]
    /\ Step(p, [j EXCEPT !.at = "discard", !.drop = Superseded(j)])
    /\ UNCHANGED <<linked, ids, spoilt, Files>>

-----------------------------------------------------------------------------
\* delete: the files go before the row, bought or not.
DeletePainting(p, i) ==
    /\ i \in Live
    /\ TakeUp(p, [PbnStart("delete", "discard", i) EXCEPT !.drop = Keys(paintings[i])])
    /\ UNCHANGED <<Rows, Files>>

\* deleteArtifacts swallows the failure of a deletion.
DeleteArtifact(p) ==
    /\ job[p].at = "discard"
    /\ \E k \in job[p].drop :
        /\ Become(p, [job[p] EXCEPT !.drop = @ \ {k}])
        /\ \/ artifacts' = artifacts \ {k} /\ UNCHANGED orderly
           \/ UNCHANGED artifacts /\ orderly' = FALSE
    /\ UNCHANGED <<files, Rows>>

EndDiscard(p) ==
    /\ job[p].at = "discard" /\ job[p].drop = {}
    /\ Step(p, IF job[p].op = "delete" THEN [job[p] EXCEPT !.at = "erase"] ELSE Idle)
    /\ UNCHANGED <<Rows, Files>>

\* Order items and cart lines lose their reference.
ErasePainting(p) ==
    /\ job[p].at = "erase" /\ job[p].id \in Live
    /\ paintings' = [paintings EXCEPT ![job[p].id] = NoPainting]
    /\ linked' = linked \ {job[p].id}
    /\ Step(p, Idle)
    /\ UNCHANGED <<ids, spoilt, Files>>

-----------------------------------------------------------------------------
(***************************************************************************)
(* ingestLineItem: the painting that a line names is linked, then marked   *)
(* as bought; that it could not be marked is only logged.  A painting that *)
(* an administrator attached is linked and never marked.                   *)
(***************************************************************************)
OrderPainting(p, i) ==
    /\ i \in Live
    /\ TakeUp(p, PbnStart("order", "link", i))
    /\ UNCHANGED <<Rows, Files>>

LinkPainting(p) ==
    /\ job[p].at = "link" /\ job[p].id \in Live
    /\ linked' = linked \cup {job[p].id}
    /\ Step(p, IF job[p].op = "order" THEN [job[p] EXCEPT !.at = "mark"] ELSE Idle)
    /\ UNCHANGED <<paintings, ids, spoilt, Files>>

MarkOrdered(p) ==
    /\ job[p].at = "mark" /\ job[p].id \in Live
    /\ paintings' = [paintings EXCEPT ![job[p].id].status = "ordered"]
    /\ Step(p, Idle)
    /\ UNCHANGED <<linked, ids, spoilt, Files>>

\* An await throws, as it does when the row to write is gone.
PaintingFails(p) ==
    /\ job[p] # Idle
    /\ Become(p, Idle)
    /\ orderly' = FALSE
    /\ spoilt' = spoilt \cup (IF job[p].op = "delete" THEN {job[p].id} ELSE {})
    /\ UNCHANGED <<paintings, linked, ids, Files>>

PaintingNext ==
    \E p \in Proc :
        \/ \E preview \in BOOLEAN :
            \/ Create(p, preview) \/ AttachPbnToItem(p, preview)
            \/ \E i \in PaintingId : ReplaceArtifacts(p, i, preview)
        \/ \E i \in PaintingId : DeletePainting(p, i) \/ OrderPainting(p, i)
        \/ AssertCanSave(p) \/ UploadArtifact(p) \/ InsertPainting(p)
        \/ OverwritePainting(p) \/ DeleteArtifact(p) \/ EndDiscard(p)
        \/ ErasePainting(p) \/ LinkPainting(p) \/ MarkOrdered(p) \/ PaintingFails(p)

PaintingSpec == PaintingInit /\ [][PaintingNext]_pbnVars

-----------------------------------------------------------------------------
ArtifactsAreThere ==
    \A i \in Live \ spoilt :
        \/ Keys(paintings[i]) \subseteq artifacts
        \/ \E p \in Proc : job[p] # Idle /\ job[p].op = "delete" /\ job[p].id = i

ArtifactsAreUsed ==
    orderly /\ AllIdle => artifacts = UNION {Keys(paintings[i]) : i \in Live}

WithinLimit ==
    Cardinality({i \in Live : paintings[i].status = "saved" /\ paintings[i].origin = "customer"})
        <= MaxPbnPerUser + Cardinality(Proc) - 1

\* Every painting has the files of its artifacts, however replacements,
\* deletions and failures meet, but for one whose deletion is under way or
\* broke off: replacing stores first, overwrites, and discards last.  Handlers
\* that come one by one and do not fail leave no file without a row.  And as
\* the limit counts before four uploads and the insert does not count again,
\* a customer exceeds it by the requests under way besides one, never more
\* (paint-by-numbers.service.ts:190-249).
PaintingsInOrder == ArtifactsAreThere /\ ArtifactsAreUsed /\ WithinLimit

\* "If the painting was bought it is not touched": its design changes only
\* by a replacement that read it before it was marked
\* (paint-by-numbers.service.ts:216-219).
OrderedDesignKept ==
    [][\A i \in Live : paintings[i].status = "ordered" /\ paintings'[i] # NoPainting
            /\ Keys(paintings'[i]) # Keys(paintings[i]) =>
        \E p \in Proc : job[p] # Idle /\ job[p].id = i /\ job[p].seen.status = "saved"]_pbnVars
=============================================================================
