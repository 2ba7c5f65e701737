------------------------------- MODULE Photos -------------------------------
(***************************************************************************)
(* One product's photo on the native host: src/images/native.rs and the    *)
(* upload of src/app/admin.rs.  The directory outlives the process; the    *)
(* three maps of the process (RESIZED, FINGERPRINTS, COLORS) do not, and   *)
(* each is locked for one look or one insert at a time.  Readers, uploads  *)
(* and the prewarm run on the blocking pool and interleave between locks   *)
(* and file operations.                                                    *)
(*                                                                         *)
(* Every upload brings a photo of its own, so a photo is named after its   *)
(* upload, and so is the file an upload creates.  What a size, a colour or *)
(* a fingerprint was computed from stands for it.                          *)
(***************************************************************************)
EXTENDS Naturals, Sequences

CONSTANTS Upload, Reader,
          WIDTHS,        \* the widths served
          Largest,       \* the one served as it is stored
          Baked,         \* the ones baked ahead, in order
          Dropped,       \* the photo dropped in by hand before the first start
          MaxRestarts    \* bound

ASSUME PhotosAssumption ==
  /\ Largest \in WIDTHS /\ Baked \in Seq(WIDTHS \ {Largest}) \ {<<>>}
  /\ Dropped \notin Upload /\ Upload \cap Reader = {} /\ MaxRestarts \in Nat
  /\ {"none", "broken", "prewarm"} \cap (Upload \cup Reader \cup {Dropped}) = {}

None == "none"
Broken == "broken"       \* bytes that are no photo: cut short, or of two writers
Prewarm == "prewarm"

File == Upload \cup {Dropped}
Bytes == File \cup {Broken}
Task == Upload \cup Reader \cup {Prewarm}

VARIABLES
  path, pending,                \* the file under each of the two names, or None
  bytes,                        \* what each file holds
  resized, fingerprint, color,  \* the maps of the process
  task,                         \* where each reader, upload and prewarm is
  restarts,
  crowded,      \* history: an upload began while another was writing
  straddled     \* history, of this process: a photo was replaced while somebody
                \* who had read it was still to put something in a map

files == <<path, pending, bytes>>
maps == <<resized, fingerprint, color>>
history == <<crowded, straddled>>
vars == <<files, maps, task, restarts, history>>

At(x, stages) == task[x].at \in stages

Go(x, r) == task' = [task EXCEPT ![x] = r]

Done == [at |-> "done"]
Idle == [at |-> "idle"]

Init ==
  /\ path \in {None, Dropped} /\ pending = None
  /\ bytes = [f \in File |-> IF f = Dropped THEN Dropped ELSE Broken]
  /\ resized = [w \in WIDTHS |-> None] /\ fingerprint = None /\ color = None
  /\ task = [x \in Task |-> [at |-> IF x = Prewarm THEN "starting" ELSE "idle"]]
  /\ restarts = 0 /\ crowded = FALSE /\ straddled = FALSE

\* Who has read or brought a photo and will still put something in a map.
Holding == {x \in Task : At(x, {"purging", "stamping", "coloring", "sizing", "cooking", "inserting"})}

Writing == {u \in Upload : At(u, {"writing", "renaming"})}

Replacing == {u \in Upload : At(u, {"purging"})}

----------------------------------------------------------------------------
(* bake: fingerprint, colour, the first widths.                            *)

\* The decoder takes every photo; what is broken it may take or refuse.
Decodes(b) == IF b = Broken THEN {TRUE, FALSE} ELSE {TRUE}

Stamp(x) ==
  /\ At(x, {"stamping"})
  /\ fingerprint' = task[x].bytes
  /\ \E ok \in Decodes(task[x].bytes) :
       Go(x, IF ok THEN [at |-> "coloring", bytes |-> task[x].bytes] ELSE Done)
  /\ UNCHANGED <<files, resized, color, restarts, history>>

Color(x) ==
  /\ At(x, {"coloring"})
  /\ color' = task[x].bytes
  /\ Go(x, [at |-> "sizing", bytes |-> task[x].bytes, left |-> Baked])
  /\ UNCHANGED <<files, resized, fingerprint, restarts, history>>

Size(x) ==
  /\ At(x, {"sizing"})
  /\ resized' = [resized EXCEPT ![Head(task[x].left)] = task[x].bytes]
  /\ Go(x, IF Len(task[x].left) = 1 THEN Done
           ELSE [at |-> "sizing", bytes |-> task[x].bytes, left |-> Tail(task[x].left)])
  /\ UNCHANGED <<files, fingerprint, color, restarts, history>>

Bake(x) == Stamp(x) \/ Color(x) \/ Size(x)

----------------------------------------------------------------------------
(* store and adopt: written beside its target, then renamed.               *)

\* upload_photo: an upload for no product, without a file or of no picture
\* ends before it touches the directory.
Arrives(u) == task[u] = Idle

\* Mutation: written where it is read.
OpenTarget(u) ==
  /\ Arrives(u)
  /\ LET f == IF path = None THEN u ELSE path
     IN  /\ path' = f
         /\ bytes' = [bytes EXCEPT ![f] = Broken]
         /\ Go(u, [at |-> "writing", file |-> f])
  /\ crowded' = (crowded \/ Writing # {})
  /\ UNCHANGED <<pending, maps, restarts, straddled>>

\* The pending name is created, or the file that has it is cut to nothing:
\* one that a crash left, or one that another upload is writing.
Open(u) ==
  /\ Arrives(u)
  /\ LET f == IF pending = None THEN u ELSE pending
     IN  /\ pending' = f
         /\ bytes' = [bytes EXCEPT ![f] = Broken]
         /\ Go(u, [at |-> "writing", file |-> f])
  /\ crowded' = (crowded \/ Writing # {})
  /\ UNCHANGED <<path, maps, restarts, straddled>>

\* Into the file that was opened, whatever name it has by now; two writers of
\* one file may leave a mixture.
Write(u) ==
  /\ At(u, {"writing"})
  /\ \E b \in IF \E v \in Writing \ {u} : task[v].file = task[u].file
              THEN {u, Broken} ELSE {u} :
       bytes' = [bytes EXCEPT ![task[u].file] = b]
  /\ Go(u, [task[u] EXCEPT !.at = "renaming"])
  /\ UNCHANGED <<path, pending, maps, restarts, history>>

\* Whatever file is pending takes the name; when there is none the upload
\* ends in an error.
Rename(u) ==
  /\ At(u, {"renaming"})
  /\ \/ /\ pending # None
        /\ path' = pending /\ pending' = None
        /\ Go(u, [at |-> "purging", bytes |-> u])
        /\ straddled' = (straddled \/ Holding # {})
     \/ /\ pending = None
        /\ Go(u, Done)
        /\ UNCHANGED <<path, pending, straddled>>
  /\ UNCHANGED <<bytes, maps, restarts, crowded>>

\* Mutation: the stale sizes stay.
Forgets(u) ==
  /\ At(u, {"purging"})
  /\ Go(u, [task[u] EXCEPT !.at = "stamping"])
  /\ UNCHANGED <<files, maps, restarts, history>>

Purge(u) ==
  /\ At(u, {"purging"})
  /\ resized' = [w \in WIDTHS |-> None]
  /\ Go(u, [task[u] EXCEPT !.at = "stamping"])
  /\ UNCHANGED <<files, fingerprint, color, restarts, history>>

Adopt(u) == Write(u) \/ Rename(u) \/ Purge(u)

----------------------------------------------------------------------------
(* prewarm, and the route of the photos.                                   *)

\* Without a file there is nothing to do, and the reader gets the blank card.
ReadOriginal == UNCHANGED <<files, maps, restarts, history>>

\* Mutation: only photos that came by upload are baked.
NothingToPrewarm ==
  /\ At(Prewarm, {"starting"})
  /\ Go(Prewarm, IF path \in Upload THEN [at |-> "stamping", bytes |-> bytes[path]] ELSE Done)
  /\ ReadOriginal

PrewarmReads ==
  /\ At(Prewarm, {"starting"})
  /\ Go(Prewarm, IF path = None THEN Done ELSE [at |-> "stamping", bytes |-> bytes[path]])
  /\ ReadOriginal

\* A width in the map is answered from it and changes nothing; one that is
\* missing sends the reader to cook it, whatever happens to the map meanwhile.
Miss(r, w) ==
  /\ task[r] = Idle
  /\ resized[w] = None
  /\ Go(r, [at |-> "reading", width |-> w])
  /\ UNCHANGED <<files, maps, restarts, history>>

\* Mutation: a missing file reads as no bytes.
ReadsNothing(r) ==
  /\ At(r, {"reading"})
  /\ Go(r, [at |-> "cooking", width |-> task[r].width,
            bytes |-> IF path = None THEN None ELSE bytes[path]])
  /\ ReadOriginal

CookReads(r) ==
  /\ At(r, {"reading"})
  /\ Go(r, IF path = None THEN Idle
           ELSE [at |-> "cooking", width |-> task[r].width, bytes |-> bytes[path]])
  /\ ReadOriginal

CookStamps(r) ==
  /\ At(r, {"cooking"})
  /\ fingerprint' = task[r].bytes
  /\ Go(r, [task[r] EXCEPT !.at = "inserting"])
  /\ UNCHANGED <<files, resized, color, restarts, history>>

\* The largest width is the original, never decoded.
Insert(r) ==
  /\ At(r, {"inserting"})
  /\ \E ok \in (IF task[r].width = Largest THEN {TRUE} ELSE Decodes(task[r].bytes)) :
       resized' = IF ok THEN [resized EXCEPT ![task[r].width] = task[r].bytes] ELSE resized
  /\ Go(r, Idle)
  /\ UNCHANGED <<files, fingerprint, color, restarts, history>>

\* A reader who leaves drops the request: the cooking ends on its own, and
\* what it produced is inserted nowhere.
Leave(r) ==
  /\ At(r, {"inserting"})
  /\ Go(r, Idle)
  /\ UNCHANGED <<files, maps, restarts, history>>

Cook(r) == CookReads(r) \/ CookStamps(r) \/ Insert(r)

\* The process stops anywhere and starts again: the directory stays as it
\* was, a half-written pending file included.
Restart ==
  /\ restarts < MaxRestarts
  /\ restarts' = restarts + 1
  /\ resized' = [w \in WIDTHS |-> None] /\ fingerprint' = None /\ color' = None
  /\ task' = [x \in Task |-> IF x = Prewarm THEN [at |-> "starting"]
                             ELSE IF x \in Upload /\ task[x] # Idle THEN Done ELSE Idle]
  /\ straddled' = FALSE
  /\ UNCHANGED <<files, crowded>>

----------------------------------------------------------------------------
Work(x) ==
  \/ x \in Upload /\ Adopt(x)
  \/ x \in Reader /\ Cook(x)
  \/ x = Prewarm /\ PrewarmReads
  \/ Bake(x)

Next ==
  \/ \E u \in Upload : Open(u)
  \/ \E r \in Reader : (\E w \in WIDTHS : Miss(r, w)) \/ Leave(r)
  \/ \E x \in Task : Work(x)
  \/ Restart

Spec == Init /\ [][Next]_vars

\* The blocking pool gets to every task it was given.
Fairness == \A x \in Task : WF_vars(Work(x))

FairSpec == Spec /\ Fairness

----------------------------------------------------------------------------
IsTask(s) ==
  \/ s \in [at : {"idle", "starting", "done"}]
  \/ s \in [at : {"writing", "renaming"}, file : File]
  \/ s \in [at : {"purging", "stamping", "coloring"}, bytes : Bytes]
  \/ s \in [at : {"sizing"}, bytes : Bytes, left : Seq(WIDTHS) \ {<<>>}]
  \/ s \in [at : {"reading"}, width : WIDTHS]
  \/ s \in [at : {"cooking", "inserting"}, width : WIDTHS, bytes : Bytes]

\* The directory, the maps and the tasks keep their shape: what is in a map
\* was computed from bytes that were read.
TypeOK ==
  /\ path \in File \cup {None} /\ pending \in File \cup {None}
  /\ bytes \in [File -> Bytes]
  /\ resized \in [WIDTHS -> Bytes \cup {None}]
  /\ fingerprint \in Bytes \cup {None} /\ color \in Bytes \cup {None}
  /\ task = [x \in Task |-> task[x]] /\ \A x \in Task : IsTask(task[x])
  /\ restarts \in 0 .. MaxRestarts /\ crowded \in BOOLEAN /\ straddled \in BOOLEAN

AllWhole ==
  /\ fingerprint # Broken /\ color # Broken
  /\ \A w \in WIDTHS : resized[w] # Broken

\* "A reader never meets half a JPEG": with one upload at a time, and a
\* process that may die anywhere in it, nothing a reader is answered or a page
\* is drawn with ever came from bytes that are no photo.
WholePhotos == crowded \/ AllWhole

Current(x) == x = IF path = None THEN None ELSE bytes[path]

SizesMatch == \A w \in WIDTHS : resized[w] \in {None, fingerprint}

\* Every size is of the photo the URLs name, but for two cases.  One lasts: a
\* reader of the old photo kept it across the replacement (straddled).  The
\* other is over with the purge: an upload has renamed its file and not yet
\* removed the old sizes, and a reader of the new file has stamped it already.
\* Uploads that write at once are left out (crowded).
FreshUrls ==
  \/ crowded \/ straddled
  \/ SizesMatch
  \/ Replacing # {} /\ Current(fingerprint)

\* Once the uploads are over and the process stays up, every page names and
\* tints the photo in the directory and every size is its own: after a crash
\* at any point too, which the prewarm repairs.
Settles ==
  <>[](\/ crowded \/ straddled
       \/ /\ Current(fingerprint) /\ Current(color)
          /\ \A w \in WIDTHS : resized[w] = None \/ Current(resized[w]))

----------------------------------------------------------------------------
(* What the comments claim, and the interleavings break.                   *)

\* "The stale sizes go before the new fingerprint appears, or a fresh URL could
\* still be answered with the old bytes": they go before the upload stamps, but
\* a reader that comes between the rename and the purge stamps first.
StaleSizesGoFirst == crowded \/ straddled \/ SizesMatch

\* "Fingerprinted URLs: the bytes behind a given v= never change": once an
\* upload has purged and stamped, a size of its photo alone answers its URL.
BytesNeverChange == crowded \/ Replacing # {} \/ SizesMatch

\* "Written beside its target and renamed, so a reader never meets half a
\* JPEG": not when a second upload writes the same pending file.
NeverHalfAJpeg == AllWhole
=============================================================================
