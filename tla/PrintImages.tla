---------------------------- MODULE PrintImages ----------------------------
(***************************************************************************)
(* The images of one order item: what is printed, the source that an       *)
(* administrator uploaded for it, the upscaled base kept for later         *)
(* adjustments, and the result of its generation.  ImageEnhancementService *)
(* and OrdersService change them, and the files behind them in the storage *)
(* (external), with every await in between.                                *)
(*                                                                         *)
(* A file is its key, never used twice.  What matters of an image is which *)
(* original it was made from: the key of an original, or the image that    *)
(* the order came with from Shopify, which is not in this storage.         *)
(***************************************************************************)
EXTENDS Requests, FiniteSets

CONSTANTS
    MaxKeys,    \* bound: files ever stored
    HasShopify, \* whether OrderItem.imageUrl is set
    Shopify,    \* that image, as an original
    Nothing     \* no original

ASSUME PrintConstants ==
    /\ MaxKeys \in Nat \ {0} /\ HasShopify \in BOOLEAN
    /\ {Shopify, Nothing} \cap Nat = {} /\ Shopify # Nothing

VARIABLES
    item,       \* the OrderItem row: its three storage keys, 0 for null
    art,        \* Generation.resultStorageKey of its generation, 0 if none
    stored,     \* the files in the storage
    original,   \* the original that each file was made from
    keys,       \* how many keys were used
    clean       \* history: no two handlers met, and none failed half way

fileVars == <<stored, original, keys>>
printVars == <<item, art, stored, original, keys, clean, job, started>>

-----------------------------------------------------------------------------
NoKey == 0
Key == 1..MaxKeys
KeyOrNone == Key \cup {NoKey}
Item == [image : KeyOrNone, source : KeyOrNone, upscaled : KeyOrNone]

\* Mutant of ResolveOriginal: the generation's result comes first.
ResolveResultFirst(it, result) ==
    CASE result # NoKey -> result
      [] result = NoKey /\ it.source # NoKey -> it.source
      [] it.source = NoKey /\ result = NoKey -> IF HasShopify THEN Shopify ELSE Nothing

\* resolveOriginal: the uploaded source, the generation's result or the
\* image of the order.
ResolveOriginal(it, result) ==
    CASE it.source # NoKey -> it.source
      [] it.source = NoKey /\ result # NoKey -> result
      [] it.source = NoKey /\ result = NoKey -> IF HasShopify THEN Shopify ELSE Nothing

\* A handler: what it read, the image it holds in memory, the files it put
\* and those it is to delete.
Job == [op : {"enhance", "revert", "upload", "replace"},
        at : {"fetch", "put", "drop", "write"},
        seen : Item, upscale : BOOLEAN, from : KeyOrNone \cup {Shopify, Nothing},
        base : KeyOrNone, key : KeyOrNone, drop : SUBSET Key]
Start(op, at) ==
    [op |-> op, at |-> at, seen |-> item, upscale |-> FALSE, from |-> Nothing,
     base |-> NoKey, key |-> NoKey, drop |-> {}]

Alone == AllIdle
Take(p, j) == Dispatch(p, j) /\ clean' = (clean /\ Alone)

PrintInit ==
    /\ RequestsInit
    /\ item = [image |-> NoKey, source |-> NoKey, upscaled |-> NoKey]
    /\ \/ art = NoKey /\ keys = 0
       \/ art = 1 /\ keys = 1
    /\ stored = {art} \ {NoKey}
    /\ original = [k \in Key |-> IF k = art THEN k ELSE Nothing]
    /\ clean = TRUE

\* A file is stored under a new key.
Put(from) ==
    /\ keys < MaxKeys
    /\ keys' = keys + 1
    /\ stored' = stored \cup {keys + 1}
    /\ original' = [original EXCEPT ![keys + 1] = IF from = Nothing THEN keys + 1 ELSE from]

-----------------------------------------------------------------------------
(***************************************************************************)
(* applyEnhance.  With an upscale it starts from the original and keeps    *)
(* the upscaled base; without one it starts from the base there is, or     *)
(* from the original.                                                      *)
(***************************************************************************)
Input(it, upscale) ==
    IF ~upscale /\ it.upscaled # NoKey THEN it.upscaled ELSE ResolveOriginal(it, art)

ApplyEnhance(p, upscale) ==
    /\ Input(item, upscale) # Nothing
    /\ Take(p, [Start("enhance", "fetch")
                  EXCEPT !.upscale = upscale, !.from = Input(item, upscale)])
    /\ UNCHANGED <<item, art, fileVars>>

\* The download, or fal.ai's: it throws if the file is not there (Fail).
Fetch(p) ==
    /\ At(p, "enhance", "fetch")
    /\ job[p].from \in stored \cup {Shopify}
    /\ Become(p, [job[p] EXCEPT !.at = "put",
                                !.from = IF @ = Shopify THEN Shopify ELSE original[@]])
    /\ UNCHANGED <<item, art, fileVars, clean>>

PutBase(p) ==
    /\ At(p, "enhance", "put") /\ job[p].upscale /\ job[p].base = NoKey
    /\ Put(job[p].from)
    /\ Become(p, [job[p] EXCEPT !.base = keys'])
    /\ UNCHANGED <<item, art, clean>>

\* Mutant of OldEnhanced: it deletes what was printed, whatever it was.
OldEnhancedAndSource(j) ==
    ({j.seen.image} \cup (IF j.upscale THEN {j.seen.upscaled} ELSE {})) \ {NoKey}

\* The old image and, with a new base, the old base; never the source.
OldEnhanced(j) ==
    ({j.seen.image} \cup (IF j.upscale THEN {j.seen.upscaled} ELSE {}))
        \ {NoKey, j.seen.source}

PutMaster(p) ==
    /\ At(p, "enhance", "put") /\ (job[p].upscale => job[p].base # NoKey)
    /\ Put(job[p].from)
    /\ Become(p, [job[p] EXCEPT !.at = "drop", !.key = keys', !.drop = OldEnhanced(job[p])])
    /\ UNCHANGED <<item, art, clean>>

\* revertEnhance deletes the image and the base, unless they are the source.
RevertEnhance(p) ==
    /\ Take(p, [Start("revert", "drop")
                  EXCEPT !.drop = {item.image, item.upscaled} \ {NoKey, item.source}])
    /\ UNCHANGED <<item, art, fileVars>>

-----------------------------------------------------------------------------
(***************************************************************************)
(* updateItemPrintImage and replaceItemGenerationImage: the new file is    *)
(* stored first, and the old ones go before the row is written.            *)
(***************************************************************************)
UpdateItemPrintImage(p) ==
    /\ Take(p, [Start("upload", "put") EXCEPT !.drop = {item.image, item.source} \ {NoKey}])
    /\ UNCHANGED <<item, art, fileVars>>

ReplaceItemGenerationImage(p) ==
    /\ art # NoKey
    /\ Take(p, [Start("replace", "put") EXCEPT !.drop = {art}])
    /\ UNCHANGED <<item, art, fileVars>>

PutUpload(p) ==
    /\ job[p].op \in {"upload", "replace"} /\ job[p].at = "put"
    /\ Put(Nothing)
    /\ Become(p, [job[p] EXCEPT !.at = "drop", !.key = keys'])
    /\ UNCHANGED <<item, art, clean>>

-----------------------------------------------------------------------------
\* An old file is deleted, or is not and the error is swallowed.
Drop(p) ==
    /\ job[p].at = "drop"
    /\ \E k \in job[p].drop :
        /\ \/ stored' = stored \ {k}
           \/ UNCHANGED stored
        /\ Become(p, [job[p] EXCEPT !.drop = @ \ {k}])
    /\ UNCHANGED <<item, art, original, keys, clean>>

\* Mutant of Written: a reverted item keeps its base.
WrittenBaseKept(j) ==
    CASE j.op = "enhance" ->
            [item EXCEPT !.image = j.key, !.upscaled = IF j.base = NoKey THEN @ ELSE j.base]
      [] j.op = "revert" -> [item EXCEPT !.image = j.seen.source]
      [] j.op = "upload" -> [item EXCEPT !.image = j.key, !.source = j.key]
      [] j.op = "replace" -> item

\* What each handler writes to the row: only its own columns.
Written(j) ==
    CASE j.op = "enhance" ->
            [item EXCEPT !.image = j.key, !.upscaled = IF j.base = NoKey THEN @ ELSE j.base]
      [] j.op = "revert" -> [item EXCEPT !.image = j.seen.source, !.upscaled = NoKey]
      [] j.op = "upload" -> [item EXCEPT !.image = j.key, !.source = j.key]
      [] j.op = "replace" -> item

WriteRow(p) ==
    /\ job[p].at = "drop" /\ job[p].drop = {}
    /\ item' = Written(job[p])
    /\ art' = IF job[p].op = "replace" THEN job[p].key ELSE art
    /\ Become(p, Idle)
    /\ UNCHANGED <<fileVars, clean>>

\* An await throws: the rest of the handler does not happen.
Fail(p) ==
    /\ job[p] # Idle
    /\ Become(p, Idle)
    /\ clean' = FALSE
    /\ UNCHANGED <<item, art, fileVars>>

PrintNext ==
    \E p \in Proc :
        \/ \E upscale \in BOOLEAN : ApplyEnhance(p, upscale)
        \/ Fetch(p) \/ PutBase(p) \/ PutMaster(p) \/ RevertEnhance(p)
        \/ UpdateItemPrintImage(p) \/ ReplaceItemGenerationImage(p) \/ PutUpload(p)
        \/ Drop(p) \/ WriteRow(p) \/ Fail(p)

PrintSpec == PrintInit /\ [][PrintNext]_printVars

-----------------------------------------------------------------------------
\* "The original source art is NEVER deleted" by an enhancement or a revert,
\* whatever other handler runs beside it: a source or a generation's result
\* in use goes only when an upload or a replacement deletes it
\* (image-enhancement.service.ts:177).
OriginalsSurvive ==
    [][\A k \in stored \ stored' : k \in {item.source, art} =>
            \E p \in Proc : job[p].op \in {"upload", "replace"} /\ k \in job[p].drop]_printVars

Quiet == clean /\ AllIdle

\* As long as handlers come one by one and end well, no row points to a file
\* that was deleted: all delete before they write, so each must delete only
\* what its own write, or an earlier one, takes out of the row.
RowsPointToFiles ==
    Quiet => {item.image, item.source, item.upscaled, art} \ {NoKey} \subseteq stored

\* And what is printed of an item with an uploaded source was made from that
\* source, or from what the upscaled base was made from.
PrintsSourceOrBase ==
    Quiet /\ item.source # NoKey =>
        original[item.image] \in
            {item.source} \cup {original[k] : k \in {item.upscaled} \ {NoKey}}

\* "A manual upload is BOTH the print image and the source art (the
\* enhancement input)": what is printed of an item with an uploaded source
\* was made from it (orders.service.ts:1305-1307).
PrintsSource ==
    Quiet /\ item.source # NoKey => original[item.image] = item.source
=============================================================================
