---------------------------- MODULE ProductMedia ----------------------------
(***************************************************************************)
(* Images, videos and content blocks of products, the media gallery they   *)
(* share, and the objects behind them in Cloudflare R2 (ProductModels,     *)
(* MediaModels, services/object-storage, scripts/r2-cleanup-orphans).      *)
(*                                                                         *)
(* An object's key names it: ImageKeys are uploads for the product's own   *)
(* images, AssetKeys those of the gallery, whose rows are found by key.    *)
(* A request reads first and writes later, as in Catalogue; the object is  *)
(* deleted in a third step, after the row, and that call may fail.         *)
(*                                                                         *)
(* A request is assumed to end within the grace period of the cleanup      *)
(* script (an hour at least).  Texts, sizes and the order of images are    *)
(* not modelled: any image may be the next one.                            *)
(***************************************************************************)
EXTENDS Naturals, FiniteSets, FiniteSetsExt

CONSTANTS ImageKeys, AssetKeys, VideoKeys, \* VideoKeys are the AssetKeys of videos
          ImageIds, RowIds,                \* initial segments of Nat \ {0}
          Admins

VARIABLES uploads,  \* age of the authorization, and so of the object, of each key
          objects,  \* keys stored in R2
          images, assets,
          rows,     \* content blocks and video assignments
          requests,
          cleanup,  \* what the running cleanup script has read
          drift     \* history: did requests overlap, was a primary image chosen again

vars == <<uploads, objects, images, assets, rows, requests, cleanup, drift>>

None == [missing |-> TRUE]
Idle == [op |-> "idle"]

Keys == ImageKeys \cup AssetKeys
ImageRow == [key : ImageKeys \cup {None}, asset : AssetKeys \cup {None}, is_primary : BOOLEAN, deleted : BOOLEAN]
AssetStatus == {"missing", "live", "deleted"}
BlockRow == [kind : {"block"}, asset : AssetKeys \cup {None}, text : BOOLEAN]
AssignmentRow == [kind : {"video"}, asset : VideoKeys, text : BOOLEAN]

LiveImages == {i \in ImageIds : images[i] # None /\ ~images[i].deleted}
Primaries(im) == {i \in ImageIds : im[i] # None /\ im[i].is_primary}
Rows == {r \in RowIds : rows[r] # None}
OwnKeys == {images[i].key : i \in LiveImages} \ {None}

-----------------------------------------------------------------------------
(* Requests                                                                *)

Crossing(others) == drift' = IF \E a \in others : requests[a] # Idle THEN drift \cup {"overlap"} ELSE drift

Begin(a, request) ==
    /\ requests[a] = Idle
    /\ requests' = [requests EXCEPT ![a] = request]
    /\ Crossing(Admins)
    /\ UNCHANGED <<uploads, objects, images, assets, rows, cleanup>>

Respond(a) == requests' = [requests EXCEPT ![a] = Idle] /\ Crossing(Admins \ {a})
Continue(a, request) == requests' = [requests EXCEPT ![a] = request] /\ Crossing(Admins \ {a})

-----------------------------------------------------------------------------
(* Uploads                                                                 *)

AuthorizeUpload ==
    \E k \in Keys :
        /\ uploads[k] = "none"
        /\ uploads' = [uploads EXCEPT ![k] = "fresh"]
        /\ UNCHANGED <<objects, images, assets, rows, requests, cleanup, drift>>

\* The browser's PUT; the presigned URL and the upload token expire together.
BrowserUploads ==
    \E k \in Keys \ objects :
        /\ uploads[k] = "fresh"
        /\ objects' = objects \cup {k}
        /\ UNCHANGED <<uploads, images, assets, rows, requests, cleanup, drift>>

\* Time passes: the token expires, later the grace period of the cleanup is over.
KeyAges ==
    \E k \in Keys :
        /\ \/ uploads[k] = "fresh" /\ uploads' = [uploads EXCEPT ![k] = "expired"]
           \/ /\ uploads[k] = "expired"
              /\ ~\E a \in Admins : requests[a].op \in {"attach", "register"} /\ requests[a].key = k
              /\ uploads' = [uploads EXCEPT ![k] = "old"]
        /\ UNCHANGED <<objects, images, assets, rows, requests, cleanup, drift>>

\* verifyProductImageUpload and verifyMediaAssetUpload
Verified(k) == uploads[k] = "fresh" /\ k \in objects

-----------------------------------------------------------------------------
(* Images                                                                  *)

BeginCompleteUpload(a) ==
    \E k \in ImageKeys, primary \in BOOLEAN :
        /\ Verified(k)
        /\ k \notin OwnKeys
        /\ Begin(a, [op |-> "attach", key |-> k, asset |-> None, primary |-> primary])

BeginAttachFromMediaAsset(a) ==
    \E k \in AssetKeys \ VideoKeys, primary \in BOOLEAN :
        /\ assets[k] = "live"
        /\ Begin(a, [op |-> "attach", key |-> None, asset |-> k, primary |-> primary])

\* The bulk update on a paranoid model leaves deleted rows alone.
WithoutPrimary(im) == [i \in ImageIds |-> IF i \in LiveImages THEN [im[i] EXCEPT !.is_primary = FALSE] ELSE im[i]]

\* Unique keys of product_images; deleted rows keep theirs.
Allowed(im) ==
    /\ Cardinality(Primaries(im)) <= 1
    /\ \A i, j \in ImageIds : im[i] # None /\ im[j] # None /\ i # j /\ im[i].key # None => im[i].key # im[j].key

\* The transaction behind attachImage and attachFromMediaAsset
AttachImage(a) ==
    LET r == requests[a]
        i == Min({j \in ImageIds : images[j] = None})
        primary == LiveImages = {} \/ r.primary
        im == [(IF primary THEN WithoutPrimary(images) ELSE images) EXCEPT
                  ![i] = [key |-> r.key, asset |-> r.asset, is_primary |-> primary, deleted |-> FALSE]]
    IN  /\ r.op = "attach"
        /\ \E j \in ImageIds : images[j] = None
        /\ images' = IF Allowed(im) THEN im ELSE images
        /\ Respond(a)
        /\ UNCHANGED <<uploads, objects, assets, rows, cleanup>>

\* updateImage with isPrimary
BeginUpdateImage(a) ==
    \E i \in LiveImages : Begin(a, [op |-> "choose", image |-> i, was |-> images[i].is_primary])

\* Every image is unset first; the chosen one is then written only if it was not primary
\* when the request read it, for Sequelize writes what differs from the loaded row.
UpdateImage(a) ==
    LET r == requests[a]
        cleared == WithoutPrimary(images)
        im == IF r.was THEN cleared ELSE [cleared EXCEPT ![r.image].is_primary = TRUE]
    IN  /\ r.op = "choose"
        /\ images' = IF Allowed(im) THEN im ELSE images
        /\ requests' = [requests EXCEPT ![a] = Idle]
        /\ drift' = drift \cup (IF r.was THEN {"rechosen"} ELSE {})
                          \cup (IF \E b \in Admins \ {a} : requests[b] # Idle THEN {"overlap"} ELSE {})
        /\ UNCHANGED <<uploads, objects, assets, rows, cleanup>>

BeginDeleteImage(a) ==
    \E i \in LiveImages :
        Begin(a, [op |-> "delete", image |-> i, was |-> images[i].is_primary, key |-> images[i].key])

Promoted(im, live) ==
    IF live = {} THEN {im} ELSE {[im EXCEPT ![i].is_primary = TRUE] : i \in live}

\* The transaction of deleteImage: another image becomes primary if the deleted one was
\* when the request read it.
DeleteImage(a) ==
    LET r == requests[a]
        gone == [images EXCEPT ![r.image].deleted = TRUE, ![r.image].is_primary = IF r.was THEN FALSE ELSE @]
    IN  /\ r.op = "delete"
        /\ \E im \in IF r.was THEN Promoted(gone, LiveImages \ {r.image}) ELSE {gone} :
               IF Allowed(im)
               THEN /\ images' = im
                    /\ IF r.key = None THEN Respond(a) ELSE Continue(a, [op |-> "remove", key |-> r.key])
               ELSE /\ UNCHANGED images
                    /\ Respond(a)
        /\ UNCHANGED <<uploads, objects, assets, rows, cleanup>>

\* deleteProductImageObject and deleteMediaAssetObject, after the row is gone; R2 may fail.
RemoveObject(a) ==
    /\ requests[a].op = "remove"
    /\ objects' \in {objects, objects \ {requests[a].key}}
    /\ Respond(a)
    /\ UNCHANGED <<uploads, images, assets, rows, cleanup>>

-----------------------------------------------------------------------------
(* The media gallery                                                       *)

BeginRegisterAsset(a) ==
    \E k \in AssetKeys :
        /\ Verified(k)
        /\ assets[k] # "live"
        /\ Begin(a, [op |-> "register", key |-> k])

\* MediaAssetService.completeUpload; the storage key of a deleted asset stays taken.
RegisterAsset(a) ==
    LET k == requests[a].key IN
    /\ requests[a].op = "register"
    /\ assets' = IF assets[k] = "missing" THEN [assets EXCEPT ![k] = "live"] ELSE assets
    /\ Respond(a)
    /\ UNCHANGED <<uploads, objects, images, rows, cleanup>>

InUseByImage(k) == \E i \in LiveImages : images[i].asset = k \* mutant: forgets blocks and videos
InUse(k) == InUseByImage(k) \/ \E r \in Rows : rows[r].asset = k

BeginDeleteAsset(a) ==
    \E k \in AssetKeys : assets[k] = "live" /\ ~InUse(k) /\ Begin(a, [op |-> "deleteAsset", key |-> k])

DeleteAsset(a) ==
    LET k == requests[a].key IN
    /\ requests[a].op = "deleteAsset"
    /\ assets' = [assets EXCEPT ![k] = "deleted"]
    /\ Continue(a, [op |-> "remove", key |-> k])
    /\ UNCHANGED <<uploads, objects, images, rows, cleanup>>

-----------------------------------------------------------------------------
(* Content blocks and video assignments                                    *)

BeginCreateBlock(a) ==
    \E k \in AssetKeys \cup {None}, text \in BOOLEAN :
        /\ k # None => assets[k] = "live"
        /\ k # None \/ text
        /\ Begin(a, [op |-> "create", made |-> {[kind |-> "block", asset |-> k, text |-> text]}])

BeginCreateAssignment(a) ==
    \E k \in VideoKeys :
        /\ assets[k] = "live"
        /\ Begin(a, [op |-> "create", made |-> {[kind |-> "video", asset |-> k, text |-> TRUE]}])

\* duplicateProduct reads the blocks and assignments of its source first.
BeginDuplicate(a) ==
    \E r \in Rows : Begin(a, [op |-> "create", made |-> {rows[r]}])

\* Ids are never used again: the row of an edit under way stays gone.
FreeRows == {s \in RowIds : rows[s] = None /\ ~\E a \in Admins : requests[a].op = "update" /\ requests[a].row = s}

CreateRow(a) ==
    LET r == Min(FreeRows) IN
    /\ requests[a].op = "create"
    /\ FreeRows # {}
    /\ \E row \in requests[a].made : rows' = [rows EXCEPT ![r] = row]
    /\ Respond(a)
    /\ UNCHANGED <<uploads, objects, images, assets, cleanup>>

Empty(row) == row.asset = None /\ ~row.text

BeginUpdateBlock(a) ==
    \E r \in Rows, edit \in {"text"} \X BOOLEAN \cup {"asset"} \X (AssetKeys \cup {None}) :
        /\ rows[r].kind = "block"
        /\ edit[1] = "asset" /\ edit[2] # None => assets[edit[2]] = "live"
        /\ LET row == [rows[r] EXCEPT ![edit[1]] = edit[2]]
           IN  row # rows[r] /\ ~Empty(row) /\ Begin(a, [op |-> "update", row |-> r, edit |-> edit])

\* The block was checked as it was read; only the edited column is written.
UpdateBlock(a) ==
    LET r == requests[a] IN
    /\ r.op = "update"
    /\ rows' = IF rows[r.row] = None THEN rows ELSE [rows EXCEPT ![r.row][r.edit[1]] = r.edit[2]]
    /\ Respond(a)
    /\ UNCHANGED <<uploads, objects, images, assets, cleanup>>

DeleteRow ==
    \E r \in Rows :
        /\ rows' = [rows EXCEPT ![r] = None]
        /\ Crossing(Admins)
        /\ UNCHANGED <<uploads, objects, images, assets, requests, cleanup>>

-----------------------------------------------------------------------------
(* The cleanup script                                                      *)

\* It reads the keys of all images, then the time...
BeginCleanupAnyAge == \* mutant: without the grace period
    /\ cleanup = None
    /\ cleanup' = [referenced |-> OwnKeys, past |-> ImageKeys]
    /\ UNCHANGED <<uploads, objects, images, assets, rows, requests, drift>>
BeginCleanup ==
    /\ cleanup = None
    /\ cleanup' = [referenced |-> OwnKeys, past |-> {k \in ImageKeys : uploads[k] = "old"}]
    /\ UNCHANGED <<uploads, objects, images, assets, rows, requests, drift>>

\* ...then lists the bucket and deletes what was too old and not referenced then.
Cleanup ==
    /\ cleanup # None
    /\ objects' = objects \ (cleanup.past \ cleanup.referenced)
    /\ cleanup' = None
    /\ UNCHANGED <<uploads, images, assets, rows, requests, drift>>

-----------------------------------------------------------------------------
Init ==
    /\ uploads = [k \in Keys |-> "none"]
    /\ objects = {}
    /\ images = [i \in ImageIds |-> None]
    /\ assets = [k \in AssetKeys |-> "missing"]
    /\ rows = [r \in RowIds |-> None]
    /\ requests = [a \in Admins |-> Idle]
    /\ cleanup = None
    /\ drift = {}

Next ==
    \/ AuthorizeUpload \/ BrowserUploads \/ KeyAges
    \/ \E a \in Admins :
           \/ BeginCompleteUpload(a) \/ BeginAttachFromMediaAsset(a) \/ AttachImage(a)
           \/ BeginUpdateImage(a) \/ UpdateImage(a)
           \/ BeginDeleteImage(a) \/ DeleteImage(a) \/ RemoveObject(a)
           \/ BeginRegisterAsset(a) \/ RegisterAsset(a)
           \/ BeginDeleteAsset(a) \/ DeleteAsset(a)
           \/ BeginCreateBlock(a) \/ BeginCreateAssignment(a) \/ BeginDuplicate(a) \/ CreateRow(a)
           \/ BeginUpdateBlock(a) \/ UpdateBlock(a)
    \/ DeleteRow \/ BeginCleanup \/ Cleanup

Spec == Init /\ [][Next]_vars

-----------------------------------------------------------------------------
TypeOK ==
    /\ uploads \in [Keys -> {"none", "fresh", "expired", "old"}]
    /\ objects \subseteq Keys
    /\ images \in [ImageIds -> ImageRow \cup {None}]
    /\ assets \in [AssetKeys -> AssetStatus]
    /\ rows \in [RowIds -> BlockRow \cup AssignmentRow \cup {None}]
    /\ DOMAIN requests = Admins
    /\ drift \subseteq {"overlap", "rechosen"}

\* Whatever the cleanup script and other requests do meanwhile, an image that was uploaded
\* for a product keeps its object as long as it is attached.
OwnObjectStored == OwnKeys \subseteq objects

\* As long as no two requests overlapped and the primary image was not chosen again, a product
\* with images shows exactly one of them, everything that uses a gallery asset can show
\* it, and no content block is empty.
GalleryIntact ==
    drift = {} =>
        /\ LiveImages # {} => Cardinality(Primaries(images) \cap LiveImages) = 1
        /\ \A k \in {images[i].asset : i \in LiveImages} \cup {rows[r].asset : r \in Rows} :
               k # None => assets[k] = "live" /\ k \in objects
        /\ \A r \in Rows : ~Empty(rows[r])
=============================================================================
