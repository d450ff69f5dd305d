----------------------------- MODULE ImageStore -----------------------------
(***************************************************************************)
(* smelly/graphics.c: the images of a screen.  Programs transmit images,   *)
(* whole or in chunks, add and edit frames, place images on the screen and *)
(* delete them, by id, by number or by place; text that scrolls takes      *)
(* placements away; pixel data is in the disk cache, one entry a frame,    *)
(* and the size of all images is kept below a quota.                       *)
(*                                                                         *)
(* An image is known by its internal id.  Its frames are the root frame    *)
(* and the others in the order of their ids, which is the order of the     *)
(* array.  A placement is its placement id, 0 for any number of unnamed    *)
(* ones: where it is on the screen decides only whether a delete or a      *)
(* scroll takes it, which is a choice here.                                *)
(***************************************************************************)
EXTENDS Integers, FiniteSetsExt

CONSTANTS
    ClientIds,    \* the ids programs give to their images
    Numbers,      \* the image numbers they use instead
    PlacementIds, \* the ids they give to placements
    Media,        \* how data is sent: "direct" in the command, or in a "file"
    ImageSizes,   \* sizes of an image or of a frame
    StorageLimit, \* storage_limit
    FrameFactor,  \* 5 in the code: the quota of the cache in storage_limits
    MaxImages,    \* bound on the images created
    MaxFrameIds,  \* bound on the frames of an image, old ones included
    MaxTouched    \* bound on transmissions and placements

ASSUME ImageStoreAssumption ==
    /\ ClientIds \subseteq Nat \ {0}
    /\ Numbers \subseteq Nat \ {0}
    /\ PlacementIds \subseteq Nat \ {0}
    /\ Media \subseteq {"direct", "file"}
    /\ ImageSizes \subseteq Nat \ {0}
    /\ {StorageLimit, FrameFactor, MaxImages, MaxFrameIds, MaxTouched} \subseteq Nat
    /\ MaxFrameIds > 0

VARIABLES
    images,  \* the array of images, by internal id
    cache,   \* the entries of the disk cache
    total,   \* total_size of the disk cache, as it counts it
    used,    \* used_storage
    loading, \* currently_loading
    made,    \* internal_id_counter
    clock    \* counts what sets an atime

isvars == <<images, cache, total, used, loading, made, clock>>
-----------------------------------------------------------------------------
Internal == 1..MaxImages

NoImage == [id |-> 0, num |-> 0, loaded |-> FALSE, area |-> 0, root |-> 0,
            extra |-> {}, last |-> 0, used |-> 0, refs |-> {}, atime |-> 0, at |-> 0]

(* at orders the array: remove_images(), filter_refs() and the search for  *)
(* a number go from the last to the first.                                 *)
Image == [id : Nat, num : Nat, loaded : BOOLEAN, area : Nat, root : Nat,
          extra : SUBSET (1..MaxFrameIds), last : 0..MaxFrameIds, used : Nat,
          refs : SUBSET (PlacementIds \cup {0}), atime : 0..MaxTouched, at : Int]

NoLoad == [for |-> 0, verb |-> "t", size |-> 0, place |-> 0]

Load == [for : Internal, verb : {"t", "T", "q", "f"}, size : ImageSizes,
         place : PlacementIds \cup {0}]

FrameEntry == [image : Internal, frame : Nat, size : Nat]

IsInit ==
    /\ images = [i \in Internal |-> NoImage]
    /\ cache = {}
    /\ total = 0
    /\ used = 0
    /\ loading = NoLoad
    /\ made = 0
    /\ clock = 0

Store == [images |-> images, cache |-> cache, total |-> total, used |-> used]

Become(s) ==
    images' = s.images /\ cache' = s.cache /\ total' = s.total /\ used' = s.used

(* An image in the array has been touched.                                 *)
LiveIn(s) == {i \in Internal : s.images[i].atime > 0}

Frames(im) == im.extra \cup ({im.root} \ {0})
-----------------------------------------------------------------------------
(* Freeing.                                                                *)

(* remove_from_disk_cache() *)
Uncached(s, E) ==
    [s EXCEPT !.cache = @ \ E,
              !.total = Max({0, @ - MapThenSumSet(LAMBDA e : e.size, E)})]

EntriesOf(s, i, F) == {e \in s.cache : e.image = i /\ e.frame \in F}

SumUsed(s, D) == MapThenSumSet(LAMBDA i : s.images[i].used, D)

\* Mutant: only the root frame leaves the cache with the image.
WithoutRoot(s, D) ==
    [Uncached(s, UNION {EntriesOf(s, i, {s.images[i].root}) : i \in D}) EXCEPT
        !.images = [i \in Internal |-> IF i \in D THEN NoImage ELSE @[i]],
        !.used = @ - SumUsed(s, D)]

Without(s, D) ==
    [Uncached(s, UNION {EntriesOf(s, i, Frames(s.images[i])) : i \in D}) EXCEPT
        !.images = [i \in Internal |-> IF i \in D THEN NoImage ELSE @[i]],
        !.used = @ - SumUsed(s, D)]

(* add_trim_predicate and trim_predicate.                                  *)
Unreachable(s) == {i \in LiveIn(s) :
    ~s.images[i].loaded \/ (s.images[i].id = 0 /\ s.images[i].refs = {})}

Unplaced(s) == {i \in LiveIn(s) : ~s.images[i].loaded \/ s.images[i].refs = {}}

Trimmed(s) == Without(s, Unreachable(s))

(* What goes, oldest first, until the rest is within the limit.            *)
\* Mutant: the newest go first.
EvictedNewest(s) == {i \in LiveIn(s) :
    s.used - SumUsed(s, {j \in LiveIn(s) : s.images[j].atime > s.images[i].atime})
        > StorageLimit}

Evicted(s) == {i \in LiveIn(s) :
    s.used - SumUsed(s, {j \in LiveIn(s) : s.images[j].atime < s.images[i].atime})
        > StorageLimit}

(* QSORT(oldest_last): the array is in the order of atime ever after.      *)
NewestFirst(s) == [s EXCEPT !.images = [i \in Internal |->
    [s.images[i] EXCEPT !.at = -s.images[i].atime]]]

AfterEviction(s) ==
    LET t == Without(NewestFirst(s), Evicted(s))
    IN  IF LiveIn(t) = {} THEN [t EXCEPT !.used = 0] ELSE t

WithinQuota(s, added) ==
    LET t == Without(s, Unplaced(s) \ {added})
    IN  IF s.used <= StorageLimit THEN s
        ELSE IF t.used < StorageLimit THEN t ELSE AfterEviction(t)
-----------------------------------------------------------------------------
(* Transmitting an image: a first command that has all the data ("ok"),    *)
(* a part of it ("more") or is wrong ("bad"); later chunks continue        *)
(* whatever load is under way, whoever sends them.                         *)

Named(s, id) == {i \in LiveIn(s) : s.images[i].id = id}

(* get_free_client_id() *)
FreeId(s) == CHOOSE n \in 1..(MaxImages + 1) :
    /\ Named(s, n) = {}
    /\ \A m \in 1..(n - 1) : Named(s, m) # {}

SetImage(s, i, im) == [s EXCEPT !.images[i] = im]

(* The image that was there keeps its frames until new data has come; its  *)
(* storage is forgotten, but not taken from used_storage.                  *)
Restarted(im) ==
    [im EXCEPT !.loaded = FALSE, !.refs = {}, !.used = 0, !.atime = clock + 1]

NewImage(id, num) == [NoImage EXCEPT !.id = id, !.num = num,
                                     !.atime = clock + 1, !.at = clock + 1]

(* add_to_disk_cache(): the size that is taken from the total for an entry *)
(* that was there is the new one.                                          *)
WithEntry(s, i, f, size) ==
    [s EXCEPT !.cache = (@ \ EntriesOf(s, i, {f})) \cup {[image |-> i, frame |-> f, size |-> size]},
              !.total = IF EntriesOf(s, i, {f}) = {} THEN @ + size ELSE Max({@, size})]

Loaded(s, i, size) ==
    LET new == s.images[i].last + 1
    IN  [WithEntry(Uncached(s, EntriesOf(s, i, {s.images[i].root})), i, new, size) EXCEPT
            !.images[i].loaded = TRUE, !.images[i].area = size, !.images[i].root = new,
            !.images[i].last = new, !.images[i].used = size,
            !.used = @ + size]

(* handle_put_command(): a placement has an id only if its image has one.  *)
PutOn(s, i, p) ==
    LET im == s.images[i]
    IN  SetImage(s, i, [im EXCEPT !.atime = clock + 1,
            !.refs = @ \cup {IF im.id = 0 THEN 0 ELSE p}])

Complete(s, i, verb, size, p) ==
    LET t == Loaded(s, i, size) IN IF verb = "T" THEN PutOn(t, i, p) ELSE t

(* A query leaves nothing behind, not even the image of its own chunks.    *)
AfterCommand(s, verb, i) == WithinQuota(IF verb = "q" THEN Trimmed(s) ELSE s, i)

(* Both the frame counter and the clock stay within their bounds.          *)
CanTouch == clock < MaxTouched

CanAddFrame(i) == images[i].last < MaxFrameIds

(* A command of its own: data in a file never continues a load.  A file    *)
(* that opens but cannot be mapped leaves its load under way, like "more". *)
Starts(medium) == medium = "direct" => loading.for = 0

Begin(s, i, verb, size, p, outcome) ==
    /\ loading' = IF outcome = "more"
                  THEN [for |-> i, verb |-> verb, size |-> size, place |-> p]
                  ELSE NoLoad
    /\ Become(IF outcome = "ok" THEN AfterCommand(Complete(s, i, verb, size, p), verb, i)
                                ELSE AfterCommand(s, verb, 0))
    /\ clock' = clock + 1

(* find_or_create_image() finds the id.                                    *)
TransmitAgain(verb, id, size, p, medium, outcome) ==
    /\ CanTouch /\ Starts(medium)
    /\ LET s == Trimmed(Store) IN \E i \in Named(s, id) :
        /\ outcome = "ok" => CanAddFrame(i)
        /\ Begin(SetImage(s, i, Restarted(s.images[i])), i, verb, size, p, outcome)
    /\ UNCHANGED made

Transmit(verb, id, num, size, p, medium, outcome) ==
    LET s == Trimmed(Store) IN
    /\ CanTouch /\ Starts(medium)
    /\ made < MaxImages
    /\ id # 0 => num = 0 /\ Named(s, id) = {}
    /\ made' = made + 1
    /\ Begin(SetImage(s, made + 1, NewImage(IF num # 0 THEN FreeId(s) ELSE id, num)),
             made + 1, verb, size, p, outcome)

(* The last chunk.  Those in between only fill the buffer.                 *)
Chunk(ok) ==
    LET i == loading.for IN
    /\ i # 0
    /\ IF i \in LiveIn(Store) /\ ok
       THEN /\ CanAddFrame(i)
            /\ loading.verb = "T" => CanTouch
            /\ Become(AfterCommand(
                    Complete(Store, i, loading.verb, loading.size, loading.place), "t", i))
            /\ clock' = IF loading.verb = "T" THEN clock + 1 ELSE clock
       ELSE UNCHANGED <<images, cache, total, used, clock>>
    /\ loading' = NoLoad
    /\ UNCHANGED made
-----------------------------------------------------------------------------
(* Frames.                                                                 *)

FitsCache(s, size) == s.total + size <= FrameFactor * StorageLimit

(* An edited or composed frame is stored as a whole.                       *)
Rewritten(s, i, f) == WithEntry(s, i, f, s.images[i].area)

Appended(s, i, size) ==
    LET new == s.images[i].last + 1
    IN  [WithEntry(s, i, new, size) EXCEPT !.images[i].extra = @ \cup {new},
                                           !.images[i].last = new]

(* New frames have a quota of their own; what has no placements makes room *)
(* for them, even if there is not enough of it.                            *)
AddedFrame(s, i, size) ==
    LET t == IF FitsCache(s, size) THEN s ELSE Without(s, Unplaced(s) \ {i})
    IN  IF FitsCache(t, size) THEN Appended(t, i, size) ELSE t

(* handle_animation_frame_load_command() when all data is there; edit is   *)
(* the frame named by this command, 0 for a new one.                       *)
FrameDone(s, i, edit, size) ==
    IF size > s.images[i].area THEN s
    ELSE IF edit \in Frames(s.images[i]) THEN Rewritten(s, i, edit)
    ELSE AddedFrame(s, i, size)

(* The command goes to the image being loaded, whatever it names.          *)
FrameTarget(i) == IF loading.for = 0 THEN i \in LiveIn(Store) /\ images[i].id # 0
                                     ELSE i = loading.for /\ i \in LiveIn(Store)

StartFrame(i, edit, size, medium, outcome) ==
    /\ FrameTarget(i) /\ Starts(medium)
    /\ edit \in Frames(images[i]) \cup {0}
    /\ edit = 0 => CanAddFrame(i)
    /\ loading' = IF outcome = "more"
                  THEN [for |-> i, verb |-> "f", size |-> size, place |-> 0]
                  ELSE NoLoad
    /\ IF outcome = "ok" THEN Become(FrameDone(Store, i, edit, size))
                         ELSE UNCHANGED <<images, cache, total, used>>
    /\ UNCHANGED <<made, clock>>

(* The frame that is edited is the one this last chunk names; chunks after *)
(* the first are to name none.                                             *)
FrameChunk(i, edit, ok) ==
    /\ loading.for # 0 /\ FrameTarget(i)
    /\ edit \in Frames(images[i]) \cup {0}
    /\ edit = 0 => CanAddFrame(i)
    /\ IF ok THEN Become(FrameDone(Store, i, edit, loading.size))
             ELSE UNCHANGED <<images, cache, total, used>>
    /\ loading' = NoLoad
    /\ UNCHANGED <<made, clock>>

(* handle_compose_command() writes one frame on another.                   *)
Compose(i, dest) ==
    /\ i \in LiveIn(Store) /\ images[i].id # 0
    /\ dest \in Frames(images[i])
    /\ Become(Rewritten(Store, i, dest))
    /\ UNCHANGED <<loading, made, clock>>
-----------------------------------------------------------------------------
(* Placing and deleting.                                                   *)

Put(i, p) ==
    /\ CanTouch
    /\ images[i].loaded /\ images[i].id # 0
    /\ Become(PutOn(Store, i, p))
    /\ clock' = clock + 1
    /\ UNCHANGED <<loading, made>>

(* The placements there are, each with its image.                          *)
Refs == UNION {{i} \X images[i].refs : i \in Internal}

RefsLeft(i, M) == {p \in images[i].refs : <<i, p>> \notin M}

(* filter_refs(): the matching placements go, and of the images it goes    *)
(* past those without any left, if that is asked for or they have no id;   *)
(* also images that had none to begin with.                                *)
Filtered(M, free, past) ==
    LET s == [Store EXCEPT !.images = [i \in Internal |->
                [images[i] EXCEPT !.refs = IF i \in past THEN RefsLeft(i, M) ELSE @]]]
    IN  Without(s, {i \in LiveIn(Store) \cap past :
            s.images[i].refs = {} /\ (free \/ images[i].id = 0)})

(* With only_first_image the loop ends at the first image with a match.    *)
PastFirst(M) == {i \in Internal :
    \A m \in M : images[i].at >= images[m[1]].at}

Matching(S, p) == {m \in Refs : m[1] \in S /\ (p = 0 \/ m[2] = p)}

(* By position, z-index, cursor, or all on the screen; a reset of the      *)
(* screen and the erasing of all of it do the same.                        *)
DeletePlacements(M, free) ==
    /\ Become(Filtered(M, free, Internal))
    /\ UNCHANGED <<loading, made, clock>>

DeleteById(id, p, free) ==
    /\ Become(Filtered(Matching(Named(Store, id), p), free, Internal))
    /\ UNCHANGED <<loading, made, clock>>

DeleteByNumber(num, p, free) ==
    LET M == Matching({i \in Internal : images[i].num = num}, p) IN
    /\ Become(Filtered(M, free, PastFirst(M)))
    /\ UNCHANGED <<loading, made, clock>>

WithoutFrame(s, i, f) ==
    LET im == s.images[i]
        first == Min(im.extra)
    IN  SetImage(Uncached(s, EntriesOf(s, i, {f})), i,
                 IF f = im.root THEN [im EXCEPT !.root = first, !.extra = @ \ {first}]
                                ELSE [im EXCEPT !.extra = @ \ {f}])

(* handle_delete_frame_command(); the last frame of an image goes with     *)
(* the image, if it is named by its id.                                    *)
DeleteFrame(i, f, byid, free) ==
    /\ i \in LiveIn(Store) /\ images[i].id # 0
    /\ IF images[i].extra # {} THEN f \in Frames(images[i]) /\ Become(WithoutFrame(Store, i, f))
       ELSE LET M == IF byid THEN Matching({i}, 0) ELSE {} IN
            f = images[i].root /\ free /\ Become(Filtered(M, TRUE, PastFirst(M)))
    /\ UNCHANGED <<loading, made, clock>>

(* modify_refs(): the placements in M leave the history or the margins.    *)
Scroll(M) ==
    LET s == [Store EXCEPT !.images = [i \in Internal |->
                [images[i] EXCEPT !.refs = RefsLeft(i, M)]]] IN
    /\ Become(Without(s, {i \in LiveIn(Store) :
            s.images[i].refs = {} /\ images[i].id = 0 /\ images[i].num = 0}))
    /\ UNCHANGED <<loading, made, clock>>
-----------------------------------------------------------------------------
Outcomes == {"more", "ok", "bad"}

IsNext ==
    \/ \E verb \in {"t", "T"}, id \in ClientIds, size \in ImageSizes,
          p \in PlacementIds \cup {0}, medium \in Media, outcome \in Outcomes :
            TransmitAgain(verb, id, size, p, medium, outcome)
    \/ \E verb \in {"t", "T"}, id \in ClientIds \cup {0}, num \in Numbers \cup {0},
          size \in ImageSizes, p \in PlacementIds \cup {0}, medium \in Media,
          outcome \in Outcomes :
            Transmit(verb, id, num, size, p, medium, outcome)
    \/ \E size \in ImageSizes, medium \in Media, outcome \in Outcomes :
            Transmit("q", 0, 0, size, 0, medium, outcome)
    \/ \E ok \in BOOLEAN : Chunk(ok)
    \/ \E i \in Internal :
        \/ \E edit \in 0..MaxFrameIds, size \in ImageSizes, medium \in Media,
              outcome \in Outcomes : StartFrame(i, edit, size, medium, outcome)
        \/ \E edit \in 0..MaxFrameIds, ok \in BOOLEAN : FrameChunk(i, edit, ok)
        \/ \E dest \in 1..MaxFrameIds : Compose(i, dest)
        \/ \E p \in PlacementIds \cup {0} : Put(i, p)
        \/ \E f \in 0..MaxFrameIds, byid, free \in BOOLEAN : DeleteFrame(i, f, byid, free)
    \/ \E M \in SUBSET Refs :
        \/ \E free \in BOOLEAN : DeletePlacements(M, free)
        \/ Scroll(M)
    \/ \E p \in PlacementIds \cup {0}, free \in BOOLEAN :
        \/ \E id \in ClientIds : DeleteById(id, p, free)
        \/ \E num \in Numbers : DeleteByNumber(num, p, free)

IsSpec == IsInit /\ [][IsNext]_isvars
-----------------------------------------------------------------------------
IsTypeOK ==
    /\ images \in [Internal -> Image]
    /\ cache \subseteq FrameEntry
    /\ total \in Nat
    /\ used \in Nat
    /\ loading \in Load \cup {NoLoad}
    /\ made \in 0..MaxImages
    /\ clock \in 0..MaxTouched

(* Look-ups by id find one image; the terminal hands out ids nobody uses.  *)
IdsAreUnique ==
    \A i, j \in LiveIn(Store) :
        images[i].id # 0 /\ images[i].id = images[j].id => i = j

(* What is placed can be drawn: its root frame is there.                   *)
PlacedAreLoaded ==
    \A i \in LiveIn(Store) :
        /\ images[i].refs # {} => images[i].loaded
        /\ images[i].loaded => images[i].root # 0

(* The cache holds the frames of the images and nothing else.              *)
FramesCached ==
    /\ {<<e.image, e.frame>> : e \in cache}
        = UNION {{i} \X Frames(images[i]) : i \in LiveIn(Store)}
    /\ \A d, e \in cache : d.image = e.image /\ d.frame = e.frame => d = e

(* used_storage never wraps below zero and is within the limit after each  *)
(* command.                                                                *)
StorageCounted ==
    SumUsed(Store, LiveIn(Store)) <= used /\ used <= StorageLimit

(* Whatever the sequence of commands, chunks, quotas and scrolling, the    *)
(* images, the cache and the count of the storage agree.                   *)
ImagesSound == IsTypeOK /\ IdsAreUnique /\ PlacedAreLoaded /\ FramesCached /\ StorageCounted

(* What goes in a step.                                                    *)
Gone == {i \in LiveIn(Store) : images'[i] = NoImage}

Kept == LiveIn(Store) \ Gone

PlacedGone == {i \in Gone : images[i].refs # {}}

ForSpace ==
    LET came == IF loading.for \in Gone THEN loading.size ELSE 0
    IN  \/ used' + SumUsed(Store, Gone) + came > StorageLimit
        \/ LiveIn(Store)' = {}
        \/ clock' = clock /\ \E size \in ImageSizes : ~FitsCache(Store, size)

UnplacedFirst ==
    PlacedGone # {} => \A j \in Kept \ {loading.for} :
        images'[j].refs # {} \/ images'[j].atime = clock'

OldestFirst == \A i \in PlacedGone, j \in Kept : images[i].atime < images'[j].atime

(* A transmission makes an image go only to stay within the quota, or a    *)
(* frame to stay within its own, if the image can still be used; those     *)
(* without placements go first and then, for an image, the oldest          *)
(* (docs/graphics-protocol.rst, apply_storage_quota).                      *)
GoesOnlyForSpace ==
    [][clock' # clock \/ loading' # loading =>
        /\ Gone \ Unreachable(Store) # {} => ForSpace
        /\ UnplacedFirst
        /\ OldestFirst]_isvars
=============================================================================
