----------------------------- MODULE GalleryBuild -----------------------------
(***************************************************************************)
(* The enrolment of the employees: core/face_processing/photos.py lists    *)
(* their photos, gallery.py embeds the new ones, embedding_cache.py keeps  *)
(* the vectors on disk, and the handle swaps the result in.                *)
(*                                                                         *)
(* Two threads build galleries: the one started at boot, and the one of    *)
(* POST /gallery/reload, of which there is one at a time.  Both use the    *)
(* same two cache files, and the same temporary names for them, and a save *)
(* gives up at the first OSError.  Photos change, appear and disappear at  *)
(* any time; so do the model files, which the process reads once while the *)
(* fingerprint of the cache is taken from them at every build.  The        *)
(* process may be killed and started again.                                *)
(*                                                                         *)
(* A photo is the number of its edition, 0 when there is none; a vector    *)
(* tells whose face it is of, from which edition, through which models.    *)
(* A cache file also tells which save wrote it, which no step reads.       *)
(***************************************************************************)
EXTENDS Integers, Sequences, FiniteSets, SequencesExt

CONSTANTS Listing,     \* the employees, in the order the sources list them
          Untagged,    \* those whose server offers no ETag or Last-Modified
          RollsBack,   \* whether the model files of before may be put back
          MayLeave,    \* those whose photo may be removed
          Overlapping, \* whether a reload may run beside the build at boot
          MaxEdits,    \* bound: photos added, changed or removed
          MaxReloads,  \* bound: calls of reload
          MaxOutages,  \* bound: photos or models that cannot be listed or read
          MaxFaults,   \* bound: kills of the process, cache files that cannot be written
          MaxModels    \* bound: editions of the model files

Employees == Range(Listing)
Builders == {"boot", "reload"}
NoPhoto == 0
NotLoaded == 0

ASSUME BuildAssumption ==
    /\ Listing \in Seq(Range(Listing))
    /\ MaxEdits \in Nat
    /\ MaxModels \in Nat \ {0}
    /\ Untagged \subseteq Employees
    /\ MayLeave \subseteq Employees
    /\ Overlapping \in BOOLEAN
    /\ RollsBack \in BOOLEAN

VARIABLES photo,     \* the edition of each employee's photo
          files,     \* the edition of the model files on disk
          models,    \* the edition the process has loaded
          vectors,   \* embeddings.npy
          manifest,  \* manifest.json: fingerprint and keys, row by row
          tmp,       \* the files under the two temporary names, if any
          gallery,   \* what is served: code and vector of each entry
          build,     \* the two builds
          shown,     \* history: the listing the served gallery was built from
          listings,  \* history: listings made
          misnamed,  \* history: fingerprints taken of files the process had not loaded
          mixed,     \* history: a build took the files of two saves for one cache
          spent      \* budgets used

disk    == <<vectors, manifest, tmp>>
loaded  == <<files, models, misnamed>>
history == <<listings, mixed>>
vars    == <<photo, loaded, disk, gallery, build, shown, history, spent>>

Idle == [pc |-> "idle", fingerprint |-> 0, refs |-> <<>>, cached |-> <<>>, entries |-> <<>>,
         listing |-> 0, reached |-> {}]

Started == [Idle EXCEPT !.pc = "start"]

NothingShown == [refs |-> <<>>, reached |-> {}]

Init ==
    /\ photo \in [Employees -> {NoPhoto, 1}]
    /\ files = 1
    /\ models = NotLoaded
    /\ vectors = [save |-> 0, rows |-> <<>>]
    /\ manifest = [save |-> 0, model |-> 0, keys |-> <<>>]
    /\ tmp = [vectors |-> {}, manifest |-> {}]
    /\ gallery = <<>>
    /\ build = [b \in Builders |-> IF b = "boot" THEN Started ELSE Idle]
    /\ shown = NothingShown
    /\ listings = 0
    /\ misnamed = {}
    /\ mixed = FALSE
    /\ spent = [edits |-> 0, reloads |-> 0, outages |-> 0, faults |-> 0]

-------------------------------------------------------------------------------
(* The world *)

\* Somebody adds, replaces or removes a photo.
Edit(e) ==
    /\ spent.edits < MaxEdits
    /\ spent' = [spent EXCEPT !.edits = @ + 1]
    /\ \/ photo' = [photo EXCEPT ![e] = spent.edits + 2]
       \/ e \in MayLeave /\ photo[e] # NoPhoto /\ photo' = [photo EXCEPT ![e] = NoPhoto]
    /\ UNCHANGED <<loaded, disk, gallery, build, shown, history>>

\* Somebody puts other model files in place; the process keeps those it has loaded.
Deploy ==
    /\ files' \in (IF RollsBack THEN 1 .. MaxModels ELSE files + 1 .. MaxModels) \ {files}
    /\ UNCHANGED <<photo, models, misnamed, disk, gallery, build, shown, history, spent>>

\* Whoever needs the models first, a build or the camera, loads the files there are.
LoadModels ==
    /\ models = NotLoaded
    /\ models' = files
    /\ UNCHANGED <<photo, files, misnamed, disk, gallery, build, shown, history, spent>>

\* The process is killed and started again: the files are what is left, and the build
\* at boot begins.
Restart ==
    /\ spent.faults < MaxFaults
    /\ spent' = [spent EXCEPT !.faults = @ + 1]
    /\ models' = NotLoaded
    /\ gallery' = <<>>
    /\ shown' = NothingShown
    /\ build' = [b \in Builders |-> IF b = "boot" THEN Started ELSE Idle]
    /\ UNCHANGED <<photo, files, misnamed, disk, history>>

\* POST /gallery/reload: refused while a reload is running, not while the build at
\* boot is.
Reload ==
    /\ build["reload"].pc = "idle"
    /\ spent.reloads < MaxReloads
    /\ Overlapping \/ build["boot"].pc = "idle"
    /\ spent' = [spent EXCEPT !.reloads = @ + 1]
    /\ build' = [build EXCEPT !["reload"] = Started]
    /\ UNCHANGED <<photo, loaded, disk, gallery, shown, history>>

-------------------------------------------------------------------------------
(* One build *)

\* build_cache: the models are loaded by now, and the fingerprint is of the files as
\* they are now.
TakeFingerprint(b) ==
    /\ build[b].pc = "start"
    /\ models # NotLoaded
    /\ build' = [build EXCEPT ![b].pc = "list", ![b].fingerprint = files]
    /\ misnamed' = misnamed \cup ({files} \ {models})
    /\ UNCHANGED <<photo, files, models, disk, gallery, shown, history, spent>>

\* A key that does not tell one version of a photo from another.
KeyOfPlace(e, told) == [of |-> e, version |-> 0]

\* PhotoRef.key: the photo's place and its version, left empty when it was not told.
Key(e, told) == [of |-> e, version |-> IF told THEN photo[e] ELSE 0]

Swap(b, entries, refs, reached) ==
    /\ gallery' = entries
    /\ shown' = [refs |-> refs, reached |-> reached]
    /\ build' = [build EXCEPT ![b] = Idle]

Outages(reached) == Cardinality(Employees \ reached)

\* The elements of s that are wanted, in the order of s: SelectSeq, written as the
\* function of how much of s has been read.
Selected(s, wanted) ==
    LET f[i \in 0 .. Len(s)] ==
            IF i = 0 THEN <<>>
            ELSE IF s[i] \in wanted THEN Append(f[i - 1], s[i]) ELSE f[i - 1]
    IN  f[Len(s)]

\* What the sources list, a manifest or a directory page that does not answer, or an
\* entry that cannot be used, being not reached.
There(reached) == Selected(Listing, {e \in reached : photo[e] # NoPhoto})

\* A listed photo; a server without tags, or a HEAD that fails, tells no version
\* (_probe_version).
Ref(e, answered) ==
    LET told == e \in answered \ Untagged
    IN  [code |-> e, key |-> Key(e, told), told |-> told, edition |-> photo[e]]

\* collect: the photos of the sources that answer, in order.
List(b) ==
    /\ build[b].pc = "list"
    /\ \E reached, answered \in SUBSET Employees :
          /\ LET missed == Outages(reached) + Outages(answered \cup Untagged)
                 there  == There(reached)
             IN  /\ spent.outages + missed <= MaxOutages
                 /\ spent' = [spent EXCEPT !.outages = @ + missed]
                 /\ build' = [build EXCEPT
                       ![b].pc = "listed", ![b].listing = listings + 1, ![b].reached = reached,
                       ![b].refs = [i \in DOMAIN there |-> Ref(there[i], answered)]]
    /\ listings' = listings + 1
    /\ UNCHANGED <<photo, loaded, disk, gallery, shown, mixed>>

\* The models do not load, or a local photo or directory vanishes between its name and
\* its stat: the build ends by an exception, and the gallery of before is served on.
BuildFails(b) ==
    /\ build[b].pc = "list" \/ (build[b].pc = "start" /\ models = NotLoaded)
    /\ spent.outages < MaxOutages
    /\ spent' = [spent EXCEPT !.outages = @ + 1]
    /\ build' = [build EXCEPT ![b] = Idle]
    /\ UNCHANGED <<photo, loaded, disk, gallery, shown, history>>

\* No photo was listed: an empty gallery is served, and the cache left alone.
ServeNobody(b) ==
    /\ build[b].pc = "listed"
    /\ build[b].refs = <<>>
    /\ Swap(b, <<>>, <<>>, build[b].reached)
    /\ UNCHANGED <<photo, loaded, disk, history, spent>>

\* load, first the manifest ...
LoadManifest(b) ==
    /\ build[b].pc = "listed"
    /\ build[b].refs # <<>>
    /\ build' = [build EXCEPT ![b].pc = "loading", ![b].cached = manifest]
    /\ UNCHANGED <<photo, loaded, disk, gallery, shown, history, spent>>

UsableAnyModel(m, rows, fingerprint) == Len(rows) = Len(m.keys)

\* A cache with another fingerprint, or with another number of rows, is discarded.
Usable(m, rows, fingerprint) == m.model = fingerprint /\ Len(rows) = Len(m.keys)

\* ... then the vectors, matched row by row.
LoadVectors(b) ==
    /\ build[b].pc = "loading"
    /\ LET m      == build[b].cached
           usable == Usable(m, vectors.rows, build[b].fingerprint)
           keys   == IF usable THEN Range(m.keys) ELSE {}
       IN  /\ build' = [build EXCEPT ![b].pc = "embedding",
                 ![b].cached = [k \in keys |->
                     vectors.rows[CHOOSE i \in DOMAIN m.keys :
                                    m.keys[i] = k /\ \A j \in DOMAIN m.keys :
                                                        m.keys[j] = k => j <= i]]]
           /\ mixed' = (mixed \/ (usable /\ m.save # vectors.save))
    /\ UNCHANGED <<photo, loaded, disk, gallery, shown, listings, spent>>

Embedding(e) == [of |-> e, edition |-> photo[e], model |-> models]

EntriesUntilFailure(b, reached) ==
    LET refs    == build[b].refs
        cached  == build[b].cached
        Hit(r)  == r.key \in DOMAIN cached
        Good(r) == Hit(r) \/ (photo[r.code] # NoPhoto /\ r.code \in reached)
        kept    == {i \in DOMAIN refs : \A j \in 1 .. i : Good(refs[j])}
    IN  [i \in kept |->
            [code |-> refs[i].code, key |-> refs[i].key,
             vector |-> IF Hit(refs[i]) THEN cached[refs[i].key] ELSE Embedding(refs[i].code)]]

\* The vectors of those kept, beside the codes of all that were listed.
EntriesMispaired(b, reached) ==
    LET cached  == build[b].cached
        Hit(r)  == r.key \in DOMAIN cached
        Good(r) == Hit(r) \/ (photo[r.code] # NoPhoto /\ r.code \in reached)
        kept    == SelectSeq(build[b].refs, Good)
    IN  [i \in DOMAIN kept |->
            [code |-> build[b].refs[i].code, key |-> kept[i].key,
             vector |-> IF Hit(kept[i]) THEN cached[kept[i].key]
                                        ELSE Embedding(kept[i].code)]]

\* A photo that cannot be read is kept, with the vector of nothing.
EntriesWithUnread(b, reached) ==
    LET cached == build[b].cached
        refs   == build[b].refs
    IN  [i \in DOMAIN refs |->
            [code |-> refs[i].code, key |-> refs[i].key,
             vector |-> IF refs[i].key \in DOMAIN cached THEN cached[refs[i].key]
                                                         ELSE Embedding(refs[i].code)]]

\* Each listed photo has a hit, or is read and embedded as it is by now; one that
\* is gone or cannot be fetched is left out.
EntriesOf(b, reached) ==
    LET cached  == build[b].cached
        Hit(r)  == r.key \in DOMAIN cached
        Good(r) == Hit(r) \/ (photo[r.code] # NoPhoto /\ r.code \in reached)
        kept    == Selected(build[b].refs, {r \in Range(build[b].refs) : Good(r)})
    IN  [i \in DOMAIN kept |->
            [code |-> kept[i].code, key |-> kept[i].key,
             vector |-> IF Hit(kept[i]) THEN cached[kept[i].key]
                                        ELSE Embedding(kept[i].code)]]

Embed(b) ==
    /\ build[b].pc = "embedding"
    /\ \E reached \in SUBSET Employees :
          /\ spent.outages + Outages(reached) <= MaxOutages
          /\ spent' = [spent EXCEPT !.outages = @ + Outages(reached)]
          /\ build' = [build EXCEPT ![b].pc = "tmp vectors", ![b].entries = EntriesOf(b, reached),
                                    ![b].cached = <<>>, ![b].reached = @ \cap reached]
    /\ UNCHANGED <<photo, loaded, disk, gallery, shown, history>>

(* save: each file is written under its temporary name, then put in place.     *)

RowsOf(entries) == [i \in DOMAIN entries |-> entries[i].vector]

KeysOf(entries) == [i \in DOMAIN entries |-> entries[i].key]

WriteVectors(b) ==
    /\ build[b].pc = "tmp vectors"
    /\ tmp' = [tmp EXCEPT !.vectors =
                  {[save |-> build[b].listing, rows |-> RowsOf(build[b].entries)]}]
    /\ build' = [build EXCEPT ![b].pc = "vectors"]
    /\ UNCHANGED <<photo, loaded, vectors, manifest, gallery, shown, history, spent>>

ReplaceVectors(b) ==
    /\ build[b].pc = "vectors"
    /\ vectors' \in tmp.vectors
    /\ tmp' = [tmp EXCEPT !.vectors = {}]
    /\ build' = [build EXCEPT ![b].pc = "tmp manifest"]
    /\ UNCHANGED <<photo, loaded, manifest, gallery, shown, history, spent>>

WriteManifest(b) ==
    /\ build[b].pc = "tmp manifest"
    /\ tmp' = [tmp EXCEPT !.manifest =
                  {[save |-> build[b].listing, model |-> build[b].fingerprint,
                    keys |-> KeysOf(build[b].entries)]}]
    /\ build' = [build EXCEPT ![b].pc = "manifest"]
    /\ UNCHANGED <<photo, loaded, vectors, manifest, gallery, shown, history, spent>>

ReplaceManifest(b) ==
    /\ build[b].pc = "manifest"
    /\ manifest' \in tmp.manifest
    /\ tmp' = [tmp EXCEPT !.manifest = {}]
    /\ build' = [build EXCEPT ![b].pc = "saved"]
    /\ UNCHANGED <<photo, loaded, vectors, gallery, shown, history, spent>>

\* The other build has taken the temporary file away: os.replace raises.
TakenAway(b) ==
    /\ \/ build[b].pc = "vectors" /\ tmp.vectors = {}
       \/ build[b].pc = "manifest" /\ tmp.manifest = {}
    /\ build' = [build EXCEPT ![b].pc = "saved"]
    /\ UNCHANGED <<photo, loaded, disk, gallery, shown, history, spent>>

\* A temporary file that a full disk cuts short: no vectors, or no manifest, to load.
CutShort(b) ==
    CASE build[b].pc = "tmp vectors" ->
             {[tmp EXCEPT !.vectors = {[save |-> build[b].listing, rows |-> <<>>]}]}
      [] build[b].pc = "tmp manifest" ->
             {[tmp EXCEPT !.manifest = {[save |-> build[b].listing, model |-> 0, keys |-> <<>>]}]}
      [] OTHER -> {}

\* Any other OSError, wherever the save is: it gives up, and the gallery is served all
\* the same.
SaveFails(b) ==
    /\ build[b].pc \in {"tmp vectors", "vectors", "tmp manifest", "manifest"}
    /\ spent.faults < MaxFaults
    /\ spent' = [spent EXCEPT !.faults = @ + 1]
    /\ tmp' \in {tmp} \cup CutShort(b)
    /\ build' = [build EXCEPT ![b].pc = "saved"]
    /\ UNCHANGED <<photo, loaded, vectors, manifest, gallery, shown, history>>

Serve(b) ==
    /\ build[b].pc = "saved"
    /\ Swap(b, build[b].entries, build[b].refs, build[b].reached)
    /\ UNCHANGED <<photo, loaded, disk, history, spent>>

BuildStep(b) ==
    \/ TakeFingerprint(b) \/ List(b) \/ BuildFails(b) \/ ServeNobody(b) \/ LoadManifest(b)
    \/ LoadVectors(b) \/ Embed(b) \/ WriteVectors(b) \/ ReplaceVectors(b) \/ WriteManifest(b)
    \/ ReplaceManifest(b) \/ TakenAway(b) \/ SaveFails(b) \/ Serve(b)

Next ==
    \/ \E e \in Employees : Edit(e)
    \/ Deploy \/ LoadModels \/ Restart \/ Reload
    \/ \E b \in Builders : BuildStep(b)

Spec == Init /\ [][Next]_vars

-------------------------------------------------------------------------------
(* What has to hold *)

Served == Range(gallery)

Editions == 1 .. MaxEdits + 1
Models   == 1 .. MaxModels
Vectors  == [of : Employees, edition : Editions, model : Models]
Keys     == [of : Employees, version : 0 .. MaxEdits + 1]
Refs     == [code : Employees, key : Keys, told : BOOLEAN, edition : Editions]
Entries  == [code : Employees, key : Keys, vector : Vectors]

VectorFiles == [save : Nat, rows : Seq(Vectors)]
Manifests   == [save : Nat, model : 0 .. MaxModels, keys : Seq(Keys)]

Steps == {"idle", "start", "list", "listed", "loading", "embedding", "tmp vectors", "vectors",
          "tmp manifest", "manifest", "saved"}

\* What a build is working with: what it has read of the cache is a manifest, and then
\* vectors by key.
BuildTyped(x) ==
    /\ DOMAIN x = DOMAIN Idle
    /\ x.pc \in Steps
    /\ x.pc = "idle" => x = Idle
    /\ x.fingerprint \in (IF x.pc \in {"idle", "start"} THEN {0} ELSE Models)
    /\ x.refs \in Seq(Refs)
    /\ x.entries \in Seq(Entries)
    /\ x.listing \in Nat /\ x.reached \subseteq Employees
    /\ x.pc = "loading" => x.cached \in Manifests
    /\ x.pc = "embedding" =>
          \A k \in DOMAIN x.cached : k \in Keys /\ x.cached[k] \in Vectors

\* The types: every vector is of a photo that was read, through models that were loaded.
TypeOK ==
    /\ photo \in [Employees -> 0 .. MaxEdits + 1]
    /\ files \in Models /\ models \in Models \cup {NotLoaded} /\ misnamed \subseteq Models
    /\ vectors \in VectorFiles /\ manifest \in Manifests
    /\ DOMAIN tmp = {"vectors", "manifest"}
    /\ \A f \in tmp.vectors : f \in VectorFiles
    /\ \A f \in tmp.manifest : f \in Manifests
    /\ gallery \in Seq(Entries) /\ shown.refs \in Seq(Refs) /\ shown.reached \subseteq Employees
    /\ listings \in Nat /\ mixed \in BOOLEAN
    /\ DOMAIN build = Builders /\ \A b \in Builders : BuildTyped(build[b])

\* Nobody is recognised as somebody else: every vector served under a code is of
\* that employee's photo (test_gallery_cache.py:74: a mismatch "would mis-attribute
\* embeddings").
GalleryIsRight == \A g \in Served : g.vector.of = g.code

\* The same, until a build takes the vectors of one save and the manifest of another for
\* one cache: whatever was edited, removed or not reached, whichever builds overlapped or
\* were killed and whichever writes failed, nothing else mixes up two employees.
UntornGalleryIsRight == ~mixed => GalleryIsRight

\* No vector of other models is served: "mixing them would silently wreck every
\* score" (embedding_cache.py load), unless a cache was named after the model files of
\* now by a process that had older ones loaded.
GalleryIsOneModel == models \in misnamed \/ \A g \in Served : g.vector.model = models

\* An edited photo misses the cache when its version was told: what is served is from the
\* edition that was listed, or a later one (photos.py:9-12), whatever overlapped or failed
\* short of a cache of two saves.
GalleryIsFresh ==
    ~mixed => \A g \in Served, r \in Range(shown.refs) :
                  r.told /\ r.code = g.code => g.vector.edition >= r.edition

\* One photo that cannot be read costs one employee and no other: whoever was listed
\* and could be reached is served (gallery.py build_gallery).
ReachableAreEnrolled ==
    \A r \in Range(shown.refs) :
        r.code \in shown.reached => r.code \in {g.code : g \in Served} \/ photo[r.code] # r.edition
=============================================================================
