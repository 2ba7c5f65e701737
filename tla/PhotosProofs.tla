---------------------------- MODULE PhotosProofs ----------------------------
(***************************************************************************)
(* Proofs about Photos, for any number of uploads, readers and restarts,   *)
(* and any widths.                                                         *)
(***************************************************************************)
EXTENDS Photos, SequenceTheorems, TLAPS

----------------------------------------------------------------------------
(* Types.                                                                  *)

Tasks == task = [x \in Task |-> task[x]] /\ \A x \in Task : IsTask(task[x])

Places ==
  /\ path \in File \cup {None} /\ pending \in File \cup {None}
  /\ bytes \in [File -> Bytes]
  /\ resized \in [WIDTHS -> Bytes \cup {None}]
  /\ fingerprint \in Bytes \cup {None} /\ color \in Bytes \cup {None}
  /\ restarts \in 0 .. MaxRestarts /\ crowded \in BOOLEAN /\ straddled \in BOOLEAN

\* The type invariant, as the two parts steps are shown to keep.
LEMMA TypeParts == TypeOK <=> Places /\ Tasks
BY DEF TypeOK, Places, Tasks

\* One task moves, the others stay.
LEMMA Moved ==
  ASSUME Tasks, NEW x \in Task, NEW r, Go(x, r)
  PROVE  /\ task'[x] = r /\ \A y \in Task \ {x} : task'[y] = task[y]
         /\ IsTask(r) => Tasks'
BY DEF Tasks, Go

\* What a task carries, by where it is.
LEMMA Carries ==
  ASSUME Tasks, NEW x \in Task
  PROVE  /\ x \in Upload /\ At(x, {"writing", "renaming"}) => task[x].file \in File
         /\ x \in Holding => task[x].bytes \in Bytes
         /\ At(x, {"sizing"}) => task[x].left \in Seq(WIDTHS) \ {<<>>}
         /\ At(x, {"reading", "cooking", "inserting"}) => task[x].width \in WIDTHS
BY DEF Tasks, IsTask, At, Holding

\* What is left of the widths after one of several.
LEMMA StillLeft ==
  ASSUME NEW S, NEW q \in Seq(S) \ {<<>>}, Len(q) # 1
  PROVE  Tail(q) \in Seq(S) \ {<<>>}
<1>1. Len(q) \in Nat /\ Len(q) # 0
  BY EmptySeq, LenProperties
<1>2. Tail(q) \in Seq(S) /\ Len(Tail(q)) = Len(q) - 1
  BY HeadTailProperties, Zenon
<1>3. ASSUME NEW n \in Nat, n # 0, n # 1
      PROVE  n - 1 # 0
  BY <1>3
<1>4. Len(Tail(q)) # 0
  BY <1>1, <1>2, <1>3, Zenon
<1> QED
  BY <1>2, <1>4, EmptySeq, Zenon

\* The steps of baking keep the types.
LEMMA BakeType ==
  ASSUME Places, Tasks, NEW x \in Task, Bake(x)
  PROVE  Places' /\ Tasks'
<1>1. CASE Stamp(x)
  <2>1. task[x] \in [at : {"stamping"}, bytes : Bytes]
    BY <1>1 DEF Stamp, At, Tasks, IsTask
  <2>2. PICK r : Go(x, r) /\ (r = Done \/ r = [at |-> "coloring", bytes |-> task[x].bytes])
    BY <1>1 DEF Stamp
  <2>3. IsTask(r)
    BY <2>1, <2>2 DEF IsTask, Done
  <2>4. Places'
    BY <1>1, <2>1 DEF Stamp, Places, files, history
  <2> QED
    BY <2>2, <2>3, <2>4, Moved
<1>2. CASE Color(x)
  <2>1. task[x] \in [at : {"coloring"}, bytes : Bytes]
    BY <1>2 DEF Color, At, Tasks, IsTask
  <2>2. Baked \in Seq(WIDTHS) \ {<<>>}
    BY PhotosAssumption
  <2>3. IsTask([at |-> "sizing", bytes |-> task[x].bytes, left |-> Baked])
    BY <2>1, <2>2 DEF IsTask
  <2>4. Places'
    BY <1>2, <2>1 DEF Color, Places, files, history
  <2> QED
    BY <1>2, <2>3, <2>4, Moved DEF Color
<1>3. CASE Size(x)
  <2>1. task[x] \in [at : {"sizing"}, bytes : Bytes, left : Seq(WIDTHS) \ {<<>>}]
    BY <1>3 DEF Size, At, Tasks, IsTask
  <2>2. Places'
    BY <1>3, <2>1 DEF Size, Places, files, history
  <2>3. CASE Len(task[x].left) = 1
    <3>1. Go(x, Done) /\ IsTask(Done)
      BY <1>3, <2>3 DEF Size, IsTask, Done
    <3> QED
      BY <2>2, <3>1, Moved
  <2>4. CASE Len(task[x].left) # 1
    <3>1. PICK l : l = Tail(task[x].left)
      OBVIOUS
    <3>2. l \in Seq(WIDTHS) /\ l # <<>>
      <4>1. PICK q \in Seq(WIDTHS) \ {<<>>} : q = task[x].left
        BY <2>1
      <4>2. Len(q) # 1 /\ l = Tail(q)
        BY <2>4, <3>1, <4>1, Zenon
      <4>3. l \in Seq(WIDTHS) \ {<<>>}
        BY <4>1, <4>2, StillLeft, Zenon
      <4> QED
        BY <4>3
    <3>3. IsTask([at |-> "sizing", bytes |-> task[x].bytes, left |-> l])
      BY <2>1, <3>2 DEF IsTask
    <3>4. Go(x, [at |-> "sizing", bytes |-> task[x].bytes, left |-> l])
      BY <1>3, <2>4, <3>1 DEF Size
    <3> QED
      BY <2>2, <3>3, <3>4, Moved
  <2> QED
    BY <2>3, <2>4
<1> QED
  BY <1>1, <1>2, <1>3 DEF Bake

\* The steps of an upload keep the types.
LEMMA UploadType ==
  ASSUME Places, Tasks, NEW u \in Upload, Open(u) \/ Adopt(u)
  PROVE  Places' /\ Tasks'
<1>1. u \in Task /\ u \in File /\ u \in Bytes /\ Broken \in Bytes
  BY DEF Task, File, Bytes
<1>2. CASE Open(u)
  <2> DEFINE f == IF pending = None THEN u ELSE pending
  <2>1. f \in File
    BY <1>1 DEF Places
  <2>2. Places'
    BY <1>1, <1>2, <2>1 DEF Open, Places, maps
  <2>3. Go(u, [at |-> "writing", file |-> f]) /\ IsTask([at |-> "writing", file |-> f])
    BY <1>2, <2>1 DEF Open, IsTask
  <2> QED
    BY <1>1, <2>2, <2>3, Moved
<1>3. CASE Write(u)
  <2>1. task[u] \in [at : {"writing"}, file : File]
    BY <1>1, <1>3 DEF Write, At, Tasks, IsTask
  <2>2. PICK b \in {u, Broken} : bytes' = [bytes EXCEPT ![task[u].file] = b]
    BY <1>3 DEF Write
  <2>3. Places'
    BY <1>1, <1>3, <2>1, <2>2 DEF Write, Places, maps, history
  <2>4. Go(u, [at |-> "renaming", file |-> task[u].file])
    BY <1>3, <2>1 DEF Write
  <2>5. IsTask([at |-> "renaming", file |-> task[u].file])
    BY <2>1 DEF IsTask
  <2> QED
    BY <1>1, <2>3, <2>4, <2>5, Moved
<1>4. CASE Rename(u)
  <2>1. PICK r : Go(u, r) /\ (r = Done \/ r = [at |-> "purging", bytes |-> u])
    BY <1>4 DEF Rename
  <2>2. IsTask(r)
    BY <1>1, <2>1 DEF IsTask, Done
  <2>3. Places'
    BY <1>4 DEF Rename, Places, maps
  <2> QED
    BY <1>1, <2>1, <2>2, <2>3, Moved
<1>5. CASE Purge(u)
  <2>1. task[u] \in [at : {"purging"}, bytes : Bytes]
    BY <1>1, <1>5 DEF Purge, At, Tasks, IsTask
  <2>2. Go(u, [at |-> "stamping", bytes |-> task[u].bytes])
    BY <1>5, <2>1 DEF Purge
  <2>3. IsTask([at |-> "stamping", bytes |-> task[u].bytes])
    BY <2>1 DEF IsTask
  <2>4. Places'
    BY <1>5 DEF Purge, Places, files, history
  <2> QED
    BY <1>1, <2>2, <2>3, <2>4, Moved
<1> QED
  BY <1>2, <1>3, <1>4, <1>5 DEF Adopt

\* The steps of readers, of the prewarm and of a restart keep the types.
LEMMA ReadType ==
  ASSUME Places, Tasks,
         \/ \E r \in Reader : (\E w \in WIDTHS : Miss(r, w)) \/ Cook(r) \/ Leave(r)
         \/ PrewarmReads \/ Restart
  PROVE  Places' /\ Tasks'
<1>1. path # None => bytes[path] \in Bytes
  BY DEF Places
<1>2. ASSUME ReadOriginal
      PROVE  Places'
  BY <1>2 DEF ReadOriginal, Places, files, maps, history
<1>3. CASE PrewarmReads
  <2>1. PICK r : Go(Prewarm, r) /\ (r = Done \/ (path # None /\ r = [at |-> "stamping", bytes |-> bytes[path]]))
    BY <1>3 DEF PrewarmReads
  <2>2. IsTask(r)
    BY <1>1, <2>1 DEF IsTask, Done
  <2> QED
    BY <1>2, <1>3, <2>1, <2>2, Moved DEF PrewarmReads, Task
<1>4. CASE Restart
  <2>1. restarts' \in 0 .. MaxRestarts
    BY <1>4, PhotosAssumption DEF Restart, Places
  <2>2. Places'
    BY <1>4, <2>1 DEF Restart, Places, files
  <2>3. \A x \in Task : task'[x] \in {[at |-> "starting"], Done, Idle}
    BY <1>4 DEF Restart
  <2>4. task' = [x \in Task |-> task'[x]]
    BY <1>4 DEF Restart
  <2> QED
    BY <2>2, <2>3, <2>4 DEF Tasks, IsTask, Idle, Done
<1>5. ASSUME NEW r \in Reader, NEW w \in WIDTHS, Miss(r, w)
      PROVE  Places' /\ Tasks'
  <2>1. Go(r, [at |-> "reading", width |-> w]) /\ IsTask([at |-> "reading", width |-> w])
    BY <1>5 DEF Miss, IsTask
  <2>2. Places'
    BY <1>5 DEF Miss, Places, files, maps, history
  <2> QED
    BY <2>1, <2>2, Moved DEF Task
<1>6. ASSUME NEW r \in Reader, CookReads(r)
      PROVE  Places' /\ Tasks'
  <2>1. task[r] \in [at : {"reading"}, width : WIDTHS]
    BY <1>6 DEF CookReads, At, Tasks, IsTask, Task
  <2>2. PICK s : /\ Go(r, s)
                 /\ \/ s = Idle
                    \/ path # None /\ s = [at |-> "cooking", width |-> task[r].width, bytes |-> bytes[path]]
    BY <1>6 DEF CookReads
  <2>3. IsTask(s)
    BY <1>1, <2>1, <2>2 DEF IsTask, Idle
  <2> QED
    BY <1>2, <1>6, <2>2, <2>3, Moved DEF CookReads, Task
<1>7. ASSUME NEW r \in Reader, CookStamps(r)
      PROVE  Places' /\ Tasks'
  <2>1. task[r] \in [at : {"cooking"}, width : WIDTHS, bytes : Bytes]
    BY <1>7 DEF CookStamps, At, Tasks, IsTask, Task
  <2> DEFINE s == [at |-> "inserting", width |-> task[r].width, bytes |-> task[r].bytes]
  <2>2. Go(r, s)
    BY <1>7, <2>1 DEF CookStamps
  <2>3. IsTask(s)
    BY <2>1 DEF IsTask
  <2>4. Places'
    BY <1>7, <2>1 DEF CookStamps, Places, files, history
  <2> QED
    BY <2>2, <2>3, <2>4, Moved DEF Task
<1>8. ASSUME NEW r \in Reader, Insert(r) \/ Leave(r)
      PROVE  Places' /\ Tasks'
  <2>1. task[r] \in [at : {"inserting"}, width : WIDTHS, bytes : Bytes]
    BY <1>8 DEF Insert, Leave, At, Tasks, IsTask, Task
  <2>2. Go(r, Idle) /\ IsTask(Idle)
    BY <1>8 DEF Insert, Leave, IsTask, Idle
  <2>3. resized' = resized \/ resized' = [resized EXCEPT ![task[r].width] = task[r].bytes]
    BY <1>8 DEF Insert, Leave, maps
  <2>4. UNCHANGED <<files, fingerprint, color, restarts, history>>
    BY <1>8 DEF Insert, Leave, maps
  <2>5. Places'
    BY <2>1, <2>3, <2>4 DEF Places, files, history
  <2> QED
    BY <2>2, <2>5, Moved DEF Task
<1> QED
  BY <1>3, <1>4, <1>5, <1>6, <1>7, <1>8 DEF Cook

\* Every file or map operation, and a restart between any two, keeps the
\* types.
LEMMA TypeStep ==
  ASSUME Places, Tasks, [Next]_vars
  PROVE  Places' /\ Tasks'
<1>1. CASE UNCHANGED vars
  BY <1>1 DEF Places, Tasks, vars, files, maps, history
<1>2. CASE Next
  BY <1>2, BakeType, UploadType, ReadType DEF Next, Work
<1> QED
  BY <1>1, <1>2

\* Directory, maps and tasks keep their shape.
THEOREM TypeCorrect == Spec => []TypeOK
<1>1. ASSUME Init
      PROVE  Places /\ Tasks
  <2>1. restarts \in 0 .. MaxRestarts
    BY <1>1, PhotosAssumption DEF Init
  <2>2. bytes \in [File -> Bytes]
    BY <1>1 DEF Init, File, Bytes
  <2>3. Places
    BY <1>1, <2>1, <2>2 DEF Init, Places, File
  <2>4. \A x \in Task : task[x] \in [at : {"idle", "starting", "done"}]
    BY <1>1 DEF Init
  <2>5. task = [x \in Task |-> task[x]]
    BY <1>1 DEF Init
  <2> QED
    BY <2>3, <2>4, <2>5 DEF Tasks, IsTask
<1>2. (Places /\ Tasks) /\ [Next]_vars => (Places /\ Tasks)'
  BY TypeStep
<1> QED
  BY <1>1, <1>2, TypeParts, PTL DEF Spec

----------------------------------------------------------------------------
(* Whole photos.  An upload that is alone writes the pending file, which is *)
(* never the one that is read; the file that takes the name is complete; so *)
(* whatever was read is a photo, and so is whatever was made of it.         *)

Carrying == {"purging", "stamping", "coloring", "sizing", "cooking", "inserting"}

OneWriter == \A u, v \in Writing : u = v

Beside ==
  \A u \in Writing :
    /\ pending # None /\ task[u].file = pending
    /\ At(u, {"renaming"}) => bytes[pending] = u

Kept == path # None => path # pending /\ bytes[path] # Broken

FreshFiles == \A u \in Upload : At(u, {"idle"}) => u # path /\ u # pending

Directory == OneWriter /\ Beside /\ Kept /\ FreshFiles

Carried == \A x \in Holding : task[x].bytes # Broken

MapsWhole == fingerprint # Broken /\ color # Broken /\ \A w \in WIDTHS : resized[w] # Broken

Whole == crowded \/ (Directory /\ Carried /\ MapsWhole)

\* A task that is no writer moves on, and the directory stays.
LEMMA AsideStep ==
  ASSUME Tasks, Directory, UNCHANGED files, NEW x \in Task, NEW r, Go(x, r),
         r.at \notin {"writing", "renaming"}, x \notin Upload \/ r.at # "idle"
  PROVE  Directory'
<1>1. task'[x] = r /\ \A y \in Task \ {x} : task'[y] = task[y]
  BY Moved
<1>2. Writing' = Writing \ {x}
  BY <1>1 DEF Writing, At, Task
<1>3. OneWriter' /\ Beside'
  BY <1>1, <1>2 DEF Directory, OneWriter, Beside, Writing, At, files, Task
<1>4. Kept' /\ FreshFiles'
  BY <1>1 DEF Directory, Kept, FreshFiles, At, files, Task
<1> QED
  BY <1>3, <1>4 DEF Directory

\* A task takes a photo with it, or none.
LEMMA CarriedStep ==
  ASSUME Tasks, Carried, NEW x \in Task, NEW r, Go(x, r),
         r.at \in Carrying => r.bytes # Broken
  PROVE  Carried'
<1>1. task'[x] = r /\ \A y \in Task \ {x} : task'[y] = task[y]
  BY Moved
<1> QED
  BY <1>1 DEF Carried, Holding, At, Carrying

\* What is carried into the maps is whole.
LEMMA BakeWhole ==
  ASSUME Places, Tasks, Directory, Carried, MapsWhole, NEW x \in Task, Bake(x)
  PROVE  Directory' /\ Carried' /\ MapsWhole'
<1> DEFINE b == task[x].bytes
<1>1. b # Broken
  BY DEF Carried, Holding, Bake, Stamp, Color, Size, At
<1>2. CASE Stamp(x)
  <2>1. PICK r : Go(x, r) /\ (r = Done \/ r = [at |-> "coloring", bytes |-> b])
    BY <1>2 DEF Stamp
  <2>2. Directory'
    BY <1>2, <2>1, AsideStep DEF Stamp, Done
  <2>3. Carried'
    BY <1>1, <2>1, CarriedStep DEF Done, Carrying
  <2>4. MapsWhole'
    BY <1>1, <1>2 DEF Stamp, MapsWhole
  <2> QED
    BY <2>2, <2>3, <2>4
<1>3. CASE Color(x)
  <2> DEFINE r == [at |-> "sizing", bytes |-> b, left |-> Baked]
  <2>1. Go(x, r)
    BY <1>3 DEF Color
  <2>2. Directory'
    BY <1>3, <2>1, AsideStep DEF Color
  <2>3. Carried'
    BY <1>1, <2>1, CarriedStep
  <2>4. MapsWhole'
    BY <1>1, <1>3 DEF Color, MapsWhole
  <2> QED
    BY <2>2, <2>3, <2>4
<1>4. CASE Size(x)
  <2>1. PICK r : Go(x, r) /\ (r = Done \/ r = [at |-> "sizing", bytes |-> b, left |-> Tail(task[x].left)])
    BY <1>4 DEF Size
  <2>2. Directory'
    BY <1>4, <2>1, AsideStep DEF Size, Done
  <2>3. Carried'
    BY <1>1, <2>1, CarriedStep DEF Done, Carrying
  <2>4. PICK h : resized' = [resized EXCEPT ![h] = b]
    BY <1>4 DEF Size
  <2>5. MapsWhole'
    BY <1>1, <1>4, <2>4 DEF Size, MapsWhole, Places
  <2> QED
    BY <2>2, <2>3, <2>5
<1> QED
  BY <1>2, <1>3, <1>4 DEF Bake

\* An upload that has the directory to itself.
LEMMA UploadWhole ==
  ASSUME Places, Tasks, Directory, Carried, MapsWhole,
         NEW u \in Upload, Open(u) \/ Adopt(u), ~crowded'
  PROVE  Directory' /\ Carried' /\ MapsWhole'
<1>1. u \in Task /\ u \in File /\ u # None /\ u # Broken
  BY PhotosAssumption DEF Task, File, None, Broken
<1>2. CASE Open(u)
  <2> DEFINE f == IF pending = None THEN u ELSE pending
  <2>1. Writing = {}
    BY <1>2 DEF Open
  <2>2. At(u, {"idle"})
    BY <1>2 DEF Open, Arrives, Idle, At
  <2>3. f # None /\ f \in File /\ f # path
    BY <1>1, <2>2 DEF Places, Directory, FreshFiles, Kept
  <2>4. Go(u, [at |-> "writing", file |-> f]) /\ pending' = f /\ UNCHANGED <<path, maps>>
    BY <1>2 DEF Open
  <2>5. /\ task'[u] = [at |-> "writing", file |-> f]
        /\ \A y \in Task \ {u} : task'[y] = task[y]
    BY <1>1, <2>4, Moved
  <2>6. Writing' = {u}
    BY <2>1, <2>5 DEF Writing, At, Task
  <2>7. OneWriter' /\ Beside'
    BY <2>3, <2>4, <2>5, <2>6 DEF OneWriter, Beside, At
  <2>8. bytes' = [bytes EXCEPT ![f] = Broken]
    BY <1>2 DEF Open
  <2>9. Kept'
    BY <2>3, <2>4, <2>8 DEF Kept, Directory, Places
  <2>10. FreshFiles'
    BY <2>4, <2>5 DEF FreshFiles, Directory, At, Task
  <2>11. Carried'
    BY <1>1, <2>4, CarriedStep DEF Carrying
  <2>12. MapsWhole'
    BY <2>4 DEF MapsWhole, maps
  <2> QED
    BY <2>7, <2>9, <2>10, <2>11, <2>12 DEF Directory
<1>3. CASE Write(u)
  <2>1. task[u] \in [at : {"writing"}, file : File] /\ u \in Writing
    BY <1>1, <1>3 DEF Write, At, Tasks, IsTask, Writing
  <2>2. Writing = {u} /\ pending # None /\ task[u].file = pending
    BY <2>1 DEF Directory, OneWriter, Beside
  <2>3. bytes' = [bytes EXCEPT ![pending] = u]
    BY <1>3, <2>2 DEF Write
  <2> DEFINE r == [at |-> "renaming", file |-> pending]
  <2>4. Go(u, r)
    BY <1>3, <2>1, <2>2 DEF Write
  <2>5. UNCHANGED <<path, pending, maps>>
    BY <1>3 DEF Write
  <2>6. task'[u] = r /\ \A y \in Task \ {u} : task'[y] = task[y]
    BY <1>1, <2>4, Moved
  <2>7. Writing' = {u}
    BY <2>2, <2>6 DEF Writing, At, Task
  <2>8. bytes'[pending] = u
    BY <2>2, <2>3 DEF Places
  <2>9. OneWriter' /\ Beside'
    BY <2>2, <2>5, <2>6, <2>7, <2>8 DEF OneWriter, Beside, At
  <2>10. Kept' /\ FreshFiles'
    BY <2>3, <2>5, <2>6 DEF Kept, FreshFiles, Directory, Places, At, Task
  <2>11. Carried' /\ MapsWhole'
    BY <1>1, <2>4, <2>5, CarriedStep DEF Carrying, MapsWhole, maps
  <2> QED
    BY <2>9, <2>10, <2>11 DEF Directory
<1>4. CASE Rename(u)
  <2>1. At(u, {"renaming"}) /\ u \in Writing
    BY <1>4 DEF Rename, Writing, At
  <2>2. Writing = {u} /\ pending # None /\ bytes[pending] = u
    BY <2>1 DEF Directory, OneWriter, Beside
  <2>3. path' = pending /\ pending' = None /\ Go(u, [at |-> "purging", bytes |-> u]) /\ UNCHANGED <<bytes, maps>>
    BY <1>4, <2>2 DEF Rename
  <2>4. task'[u] = [at |-> "purging", bytes |-> u] /\ \A y \in Task \ {u} : task'[y] = task[y]
    BY <1>1, <2>3, Moved
  <2>5. Writing' = {}
    BY <2>2, <2>4 DEF Writing, At, Task
  <2>6. Kept'
    BY <1>1, <2>2, <2>3 DEF Kept
  <2>7. FreshFiles'
    BY <1>1, <2>3, <2>4, PhotosAssumption DEF FreshFiles, Directory, At, Task, None
  <2>8. Carried' /\ MapsWhole'
    BY <1>1, <2>3, CarriedStep DEF MapsWhole, maps
  <2> QED
    BY <2>5, <2>6, <2>7, <2>8 DEF Directory, OneWriter, Beside
<1>5. CASE Purge(u)
  <2>1. task[u] \in [at : {"purging"}, bytes : Bytes] /\ u \in Holding
    BY <1>1, <1>5 DEF Purge, At, Tasks, IsTask, Holding
  <2> DEFINE r == [at |-> "stamping", bytes |-> task[u].bytes]
  <2>2. Go(u, r)
    BY <1>5, <2>1 DEF Purge
  <2>3. Directory'
    BY <1>1, <1>5, <2>2, AsideStep DEF Purge
  <2>4. Carried'
    BY <1>1, <2>1, <2>2, CarriedStep DEF Carried
  <2>5. MapsWhole'
    BY <1>5 DEF Purge, MapsWhole, None, Broken
  <2> QED
    BY <2>3, <2>4, <2>5
<1> QED
  BY <1>2, <1>3, <1>4, <1>5 DEF Adopt

\* Whoever reads the original reads a whole photo.
LEMMA ReadWhole ==
  ASSUME Places, Tasks, Directory, Carried, MapsWhole,
         \/ \E r \in Reader : (\E w \in WIDTHS : Miss(r, w)) \/ Cook(r) \/ Leave(r)
         \/ PrewarmReads \/ Restart
  PROVE  Directory' /\ Carried' /\ MapsWhole'
<1>1. path # None => bytes[path] # Broken
  BY DEF Directory, Kept
<1>2. ASSUME NEW x \in Reader \cup {Prewarm}
      PROVE  x \in Task /\ x \notin Upload
  BY PhotosAssumption DEF Task, Prewarm
<1>3. ASSUME NEW x \in Reader \cup {Prewarm}, NEW r, Go(x, r), UNCHANGED files,
             r.at \notin {"writing", "renaming"},
             r.at \in Carrying => r.bytes # Broken
      PROVE  Directory' /\ Carried'
  BY <1>2, <1>3, AsideStep, CarriedStep
<1>4. CASE PrewarmReads
  <2>1. PICK r : /\ Go(Prewarm, r)
                 /\ r = Done \/ (path # None /\ r = [at |-> "stamping", bytes |-> bytes[path]])
    BY <1>4 DEF PrewarmReads
  <2>2. UNCHANGED files /\ MapsWhole'
    BY <1>4 DEF PrewarmReads, ReadOriginal, MapsWhole, maps
  <2> QED
    BY <1>1, <1>3, <2>1, <2>2 DEF Done, Carrying
<1>5. ASSUME NEW r \in Reader, NEW w \in WIDTHS, Miss(r, w)
      PROVE  Directory' /\ Carried' /\ MapsWhole'
  <2>1. Go(r, [at |-> "reading", width |-> w]) /\ UNCHANGED files /\ MapsWhole'
    BY <1>5 DEF Miss, MapsWhole, maps
  <2> QED
    BY <1>3, <2>1 DEF Carrying
<1>6. ASSUME NEW r \in Reader, CookReads(r)
      PROVE  Directory' /\ Carried' /\ MapsWhole'
  <2>1. PICK s : /\ Go(r, s)
                 /\ \/ s = Idle
                    \/ path # None /\ s = [at |-> "cooking", width |-> task[r].width, bytes |-> bytes[path]]
    BY <1>6 DEF CookReads
  <2>2. UNCHANGED files /\ MapsWhole'
    BY <1>6 DEF CookReads, ReadOriginal, MapsWhole, maps
  <2> QED
    BY <1>1, <1>3, <2>1, <2>2 DEF Idle, Carrying
<1>7. ASSUME NEW r \in Reader, CookStamps(r)
      PROVE  Directory' /\ Carried' /\ MapsWhole'
  <2>1. task[r] \in [at : {"cooking"}, width : WIDTHS, bytes : Bytes] /\ task[r].bytes # Broken
    BY <1>2, <1>7 DEF CookStamps, At, Tasks, IsTask, Carried, Holding
  <2>2. Go(r, [at |-> "inserting", width |-> task[r].width, bytes |-> task[r].bytes])
    BY <1>7, <2>1 DEF CookStamps
  <2>3. UNCHANGED files /\ MapsWhole'
    BY <1>7, <2>1 DEF CookStamps, MapsWhole
  <2> QED
    BY <1>3, <2>1, <2>2, <2>3
<1>8. ASSUME NEW r \in Reader, Insert(r) \/ Leave(r)
      PROVE  Directory' /\ Carried' /\ MapsWhole'
  <2>1. task[r].bytes # Broken
    BY <1>2, <1>8 DEF Insert, Leave, At, Carried, Holding
  <2>2. Go(r, Idle) /\ UNCHANGED files /\ UNCHANGED <<fingerprint, color>>
    BY <1>8 DEF Insert, Leave, maps
  <2>3. resized' = resized \/ resized' = [resized EXCEPT ![task[r].width] = task[r].bytes]
    BY <1>8 DEF Insert, Leave, maps
  <2>4. \A w \in WIDTHS : resized'[w] # Broken
    <3>1. CASE resized' = resized
      BY <3>1 DEF MapsWhole
    <3>2. CASE resized' = [resized EXCEPT ![task[r].width] = task[r].bytes]
      BY <2>1, <3>2 DEF MapsWhole, Places
    <3> QED
      BY <2>3, <3>1, <3>2
  <2>5. MapsWhole'
    BY <2>2, <2>4 DEF MapsWhole
  <2> QED
    BY <1>3, <2>2, <2>5 DEF Idle, Carrying
<1>9. CASE Restart
  <2>1. /\ \A x \in Task : task'[x] \in {[at |-> "starting"], Done, Idle}
        /\ \A u \in Upload : task'[u] = Idle => task[u] = Idle
    BY <1>9, <1>2 DEF Restart, Task, Done, Idle
  <2>2. Writing' = {} /\ Holding' = {}
    BY <2>1 DEF Writing, Holding, At, Task, Idle, Done
  <2>3. UNCHANGED files
    BY <1>9 DEF Restart
  <2>4. \A u \in Upload : At(u, {"idle"})' => At(u, {"idle"})
    <3>1. ASSUME NEW u \in Upload, At(u, {"idle"})'
          PROVE  At(u, {"idle"})
      <4>1. task'[u] = Idle
        BY <2>1, <3>1 DEF At, Task, Idle, Done
      <4> QED
        BY <2>1, <4>1 DEF At, Idle
    <3> QED
      BY <3>1
  <2>5. Directory'
    BY <2>2, <2>3, <2>4 DEF Directory, OneWriter, Beside, Kept, FreshFiles, files
  <2>6. Carried' /\ MapsWhole'
    BY <1>9, <2>2 DEF Restart, Carried, MapsWhole, None, Broken
  <2> QED
    BY <2>5, <2>6
<1> QED
  BY <1>4, <1>5, <1>6, <1>7, <1>8, <1>9 DEF Cook

\* Who crowded the directory has done so for good.
LEMMA CrowdedStays ==
  ASSUME Next, crowded
  PROVE  crowded'
<1>1. ASSUME NEW x, Bake(x) \/ Adopt(x) \/ Cook(x) \/ Leave(x)
      PROVE  crowded'
  BY <1>1 DEF Bake, Stamp, Color, Size, Adopt, Write, Rename, Purge, Cook, CookReads, ReadOriginal,
              CookStamps, Insert, Leave, history
<1>2. ASSUME NEW u, Open(u)
      PROVE  crowded'
  <2>1. crowded' = (crowded \/ Writing # {})
    BY <1>2 DEF Open
  <2> QED
    BY <2>1, Zenon
<1>3. ASSUME NEW r, NEW w, Miss(r, w)
      PROVE  crowded'
  BY <1>3 DEF Miss, history
<1>4. CASE PrewarmReads \/ Restart
  BY <1>4 DEF PrewarmReads, ReadOriginal, Restart, history
<1> QED
  BY <1>1, <1>2, <1>3, <1>4 DEF Next, Work

\* Every step keeps what is served whole, as long as uploads do not overlap.
LEMMA WholeStep ==
  ASSUME Places, Tasks, Whole, [Next]_vars
  PROVE  Whole'
<1>1. CASE UNCHANGED vars
  BY <1>1 DEF Whole, Directory, OneWriter, Beside, Kept, FreshFiles, Carried, MapsWhole, Writing, Holding,
              At, vars, files, maps, history
<1>2. CASE Next /\ crowded
  BY <1>2, CrowdedStays DEF Whole
<1>3. CASE Next /\ ~crowded /\ ~crowded'
  BY <1>3, BakeWhole, UploadWhole, ReadWhole DEF Whole, Next, Work
<1> QED
  BY <1>1, <1>2, <1>3 DEF Whole

\* At first the only photo is the one on disk, if any, and nobody carries
\* bytes.
LEMMA InitWhole ==
  ASSUME Init
  PROVE  Whole
<1>1. Writing = {} /\ Holding = {}
  BY DEF Init, Writing, Holding, At, Task
<1>2. path # None => bytes[path] = Dropped
  BY DEF Init, File
<1>3. Dropped # None /\ Dropped # Broken /\ Dropped \notin Upload /\ None \notin Upload
  BY PhotosAssumption DEF None, Broken
<1> QED
  BY <1>1, <1>2, <1>3 DEF Init, Whole, Directory, OneWriter, Beside, Kept, FreshFiles, Carried,
                         MapsWhole, None, Broken

\* A reader never meets half a photo: with one upload at a time, and a process
\* that may die anywhere in it, nothing that is served came from bytes that are
\* no photo.
THEOREM OnlyWholePhotos == Spec => []WholePhotos
<1>1. Init => Whole
  BY InitWhole
<1>2. Whole => WholePhotos
  BY DEF Whole, MapsWhole, AllWhole, WholePhotos
<1>3. (Places /\ Tasks) /\ Whole /\ [Next]_vars => Whole'
  BY WholeStep
<1>4. Spec => [](Places /\ Tasks)
  BY TypeCorrect, TypeParts, PTL
<1> QED
  BY <1>1, <1>2, <1>3, <1>4, PTL DEF Spec

----------------------------------------------------------------------------
(* Fresh URLs.  Unless the photo was replaced while somebody held it,       *)
(* whoever holds a photo holds the one in the directory.  Between the       *)
(* replacement and the purge the old sizes are still there: the fingerprint *)
(* is then the old one, or a reader has stamped the new one early.          *)

HoldersRead == \A x \in Holding : path # None /\ task[x].bytes = bytes[path]

SizesNamed == SizesMatch \/ (Replacing # {} /\ path # None /\ fingerprint = bytes[path])

SizesCurrent ==
  Replacing = {} => \A w \in WIDTHS : (resized[w] # None => path # None /\ resized[w] = bytes[path])

Stamped(x) == At(x, {"coloring", "sizing", "inserting"})

Named == \A x \in Task : Stamped(x) => fingerprint = task[x].bytes

InStep == HoldersRead /\ SizesNamed /\ SizesCurrent /\ Named

Fresh == crowded \/ straddled \/ InStep

\* A task that moves holds what the others hold.
LEMMA HoldersStep ==
  ASSUME Tasks, HoldersRead, NEW x \in Task, NEW r, Go(x, r),
         path' = path, path # None => bytes'[path] = bytes[path],
         r.at \in Carrying => path # None /\ r.bytes = bytes[path]
  PROVE  HoldersRead'
<1>1. task'[x] = r /\ \A y \in Task \ {x} : task'[y] = task[y]
  BY Moved
<1>2. ASSUME NEW y \in Holding'
      PROVE  path' # None /\ task'[y].bytes = bytes'[path']
  <2>1. CASE y = x
    BY <1>1, <1>2, <2>1 DEF Holding, At, Carrying
  <2>2. CASE y # x
    <3>1. y \in Holding /\ task'[y] = task[y]
      BY <1>1, <1>2, <2>2 DEF Holding, At
    <3> QED
      BY <3>1 DEF HoldersRead
  <2> QED
    BY <2>1, <2>2
<1> QED
  BY <1>2 DEF HoldersRead

\* A task that does not come to purge leaves alone who is replacing.
LEMMA ReplacingStep ==
  ASSUME Tasks, NEW x \in Task, NEW r, Go(x, r), r.at # "purging", ~At(x, {"purging"})
  PROVE  Replacing' = Replacing
<1>1. task'[x] = r /\ \A y \in Task \ {x} : task'[y] = task[y]
  BY Moved
<1> QED
  BY <1>1 DEF Replacing, At, Task

\* A task that moves keeps the names right when what it names is the current
\* photo.
LEMMA NamedStep ==
  ASSUME Tasks, Named, NEW x \in Task, NEW r, Go(x, r), fingerprint' = fingerprint,
         r.at \in {"coloring", "sizing", "inserting"} => fingerprint = r.bytes
  PROVE  Named'
<1>1. task'[x] = r /\ \A y \in Task \ {x} : task'[y] = task[y]
  BY Moved
<1> QED
  BY <1>1 DEF Named, Stamped, At

\* A fingerprint that is put in its map names what everybody holds.
LEMMA StampStep ==
  ASSUME Tasks, InStep, NEW x \in Holding, ~At(x, {"purging"}), NEW r, Go(x, r),
         fingerprint' = task[x].bytes, UNCHANGED <<files, resized>>,
         r.at # "purging", r.at \in Carrying => r.bytes = task[x].bytes
  PROVE  InStep'
<1>1. x \in Task /\ path # None /\ task[x].bytes = bytes[path]
  BY DEF InStep, HoldersRead, Holding
<1>2. HoldersRead'
  BY <1>1, HoldersStep DEF InStep, files
<1>3. Replacing' = Replacing
  BY <1>1, ReplacingStep
<1>4. SizesCurrent'
  BY <1>3 DEF InStep, SizesCurrent, files
<1>5. SizesNamed'
  <2>1. CASE Replacing = {}
    BY <1>1, <2>1 DEF InStep, SizesNamed, SizesMatch, SizesCurrent
  <2>2. CASE Replacing # {}
    BY <1>1, <1>3, <2>2 DEF SizesNamed, files
  <2> QED
    BY <2>1, <2>2
<1>6. Named'
  <2>1. \A y \in Task : Stamped(y)' => y \in Holding'
    BY DEF Stamped, Holding, At
  <2> QED
    BY <1>1, <1>2, <2>1 DEF HoldersRead, Named, files
<1> QED
  BY <1>2, <1>4, <1>5, <1>6 DEF InStep

\* A size that is put in its map is of the photo that is named.
LEMMA InsertStep ==
  ASSUME Places, Tasks, InStep, NEW x \in Task, Stamped(x), NEW r, Go(x, r),
         NEW h, resized' = resized \/ resized' = [resized EXCEPT ![h] = task[x].bytes],
         UNCHANGED <<files, fingerprint>>,
         r.at # "purging", r.at \in Carrying => r.bytes = task[x].bytes
  PROVE  InStep'
<1>1. x \in Holding /\ ~At(x, {"purging"})
  BY DEF Stamped, Holding, At
<1>2. path # None /\ task[x].bytes = bytes[path] /\ fingerprint = task[x].bytes
  BY <1>1 DEF InStep, HoldersRead, Named
<1>3. HoldersRead'
  BY <1>2, HoldersStep DEF InStep, files
<1>4. Replacing' = Replacing
  BY <1>1, ReplacingStep
<1>5. Named'
  BY <1>2, NamedStep DEF InStep, Carrying
<1>6. \A w \in WIDTHS : resized'[w] = resized[w] \/ resized'[w] = task[x].bytes
  BY DEF Places
<1>7. SizesCurrent'
  BY <1>2, <1>4, <1>6 DEF InStep, SizesCurrent, files
<1>8. SizesNamed'
  BY <1>2, <1>4, <1>6 DEF InStep, SizesNamed, SizesMatch, files
<1> QED
  BY <1>3, <1>5, <1>7, <1>8 DEF InStep

\* A task that brings nothing new and changes no map.
LEMMA PlainStep ==
  ASSUME Tasks, InStep, NEW x \in Task, NEW r, Go(x, r), UNCHANGED maps,
         path' = path, path # None => bytes'[path] = bytes[path],
         r.at # "purging", ~At(x, {"purging"}),
         r.at \in Carrying => path # None /\ r.bytes = bytes[path],
         r.at \notin {"coloring", "sizing", "inserting"}
  PROVE  InStep'
<1>1. HoldersRead'
  BY HoldersStep DEF InStep
<1>2. Replacing' = Replacing
  BY ReplacingStep
<1>3. Named'
  BY NamedStep DEF InStep, maps
<1>4. SizesNamed' /\ SizesCurrent'
  BY <1>2 DEF InStep, SizesNamed, SizesMatch, SizesCurrent, maps
<1> QED
  BY <1>1, <1>2, <1>3, <1>4 DEF InStep

\* Baking keeps the sizes of the photo that is named.
LEMMA BakeFresh ==
  ASSUME Places, Tasks, InStep, NEW x \in Task, Bake(x)
  PROVE  InStep'
<1> DEFINE b == task[x].bytes
<1>1. CASE Stamp(x)
  <2>1. PICK r : Go(x, r) /\ (r = Done \/ r = [at |-> "coloring", bytes |-> b])
    BY <1>1 DEF Stamp
  <2>2. x \in Holding /\ ~At(x, {"purging"})
    BY <1>1 DEF Stamp, Holding, At
  <2>3. fingerprint' = b /\ UNCHANGED <<files, resized>>
    BY <1>1 DEF Stamp
  <2>4. r.at # "purging" /\ (r.at \in Carrying => r.bytes = b)
    BY <2>1 DEF Done, Carrying
  <2> QED
    BY <2>1, <2>2, <2>3, <2>4, StampStep
<1>2. CASE Color(x)
  <2>1. Go(x, [at |-> "sizing", bytes |-> b, left |-> Baked]) /\ UNCHANGED <<files, resized, fingerprint>>
    BY <1>2 DEF Color
  <2>2. Stamped(x)
    BY <1>2 DEF Color, Stamped, At
  <2> QED
    BY <2>1, <2>2, InsertStep
<1>3. CASE Size(x)
  <2>1. PICK r : Go(x, r) /\ (r = Done \/ r = [at |-> "sizing", bytes |-> b, left |-> Tail(task[x].left)])
    BY <1>3 DEF Size
  <2>2. PICK h : resized' = [resized EXCEPT ![h] = b]
    BY <1>3 DEF Size
  <2>3. Stamped(x) /\ UNCHANGED <<files, fingerprint>>
    BY <1>3 DEF Size, Stamped, At
  <2>4. r.at # "purging" /\ (r.at \in Carrying => r.bytes = b)
    BY <2>1 DEF Done, Carrying
  <2> QED
    BY <2>1, <2>2, <2>3, <2>4, InsertStep
<1> QED
  BY <1>1, <1>2, <1>3 DEF Bake

\* An upload replaces the photo when nobody holds one, and forgets the sizes of
\* the old one before anything is named after the new one.
LEMMA UploadFresh ==
  ASSUME Places, Tasks, Directory, InStep, NEW u \in Upload, Open(u) \/ Adopt(u),
         ~crowded', ~straddled'
  PROVE  InStep'
<1>1. u \in Task /\ u \in File /\ u # None
  BY PhotosAssumption DEF Task, File, None
<1>2. CASE Open(u)
  <2> DEFINE f == IF pending = None THEN u ELSE pending
  <2>1. At(u, {"idle"}) /\ ~At(u, {"purging"})
    BY <1>2 DEF Open, Arrives, Idle, At
  <2>2. f # path /\ f \in File
    BY <1>1, <2>1 DEF Places, Directory, FreshFiles, Kept
  <2>3. path' = path /\ UNCHANGED maps /\ Go(u, [at |-> "writing", file |-> f]) /\ bytes' = [bytes EXCEPT ![f] = Broken]
    BY <1>2 DEF Open
  <2>4. path # None => bytes'[path] = bytes[path]
    BY <2>2, <2>3 DEF Places
  <2> QED
    BY <1>1, <2>1, <2>3, <2>4, PlainStep DEF Carrying
<1>3. CASE Write(u)
  <2>1. task[u] \in [at : {"writing"}, file : File] /\ u \in Writing
    BY <1>1, <1>3 DEF Write, At, Tasks, IsTask, Writing
  <2>2. pending # None /\ task[u].file = pending
    BY <2>1 DEF Directory, Beside
  <2>3. PICK b : bytes' = [bytes EXCEPT ![pending] = b]
    BY <1>3, <2>2 DEF Write
  <2>4. path' = path /\ UNCHANGED maps
    BY <1>3 DEF Write
  <2>5. Go(u, [at |-> "renaming", file |-> pending])
    BY <1>3, <2>1, <2>2 DEF Write
  <2>6. path # None => bytes'[path] = bytes[path]
    BY <2>2, <2>3 DEF Places, Directory, Kept
  <2>7. ~At(u, {"purging"})
    BY <2>1 DEF At
  <2> QED
    BY <1>1, <2>4, <2>5, <2>6, <2>7, PlainStep DEF Carrying
<1>4. CASE Rename(u)
  <2>1. At(u, {"renaming"}) /\ u \in Writing
    BY <1>4 DEF Rename, Writing, At
  <2>2. pending # None /\ bytes[pending] = u
    BY <2>1 DEF Directory, Beside
  <2>3. path' = pending /\ Go(u, [at |-> "purging", bytes |-> u]) /\ UNCHANGED <<bytes, maps>> /\ Holding = {}
    <3>1. straddled' = (straddled \/ Holding # {})
      BY <1>4, <2>2 DEF Rename
    <3>2. Holding = {}
      BY <3>1, Zenon
    <3> QED
      BY <1>4, <2>2, <3>2 DEF Rename
  <2>4. task'[u] = [at |-> "purging", bytes |-> u] /\ \A y \in Task \ {u} : task'[y] = task[y]
    BY <1>1, <2>3, Moved
  <2>5. Holding' = {u} /\ Replacing = {} /\ Replacing' = {u}
    <3>1. Replacing = {}
      BY <2>3 DEF Replacing, Holding, At, Task
    <3> QED
      BY <1>1, <2>3, <2>4, <3>1 DEF Holding, Replacing, At, Task
  <2>6. HoldersRead' /\ SizesCurrent'
    BY <2>2, <2>3, <2>4, <2>5 DEF HoldersRead, SizesCurrent
  <2>7. Named'
    BY <2>4, <2>5 DEF Named, Stamped, Holding, At
  <2>8. SizesNamed'
    BY <2>3, <2>5 DEF InStep, SizesNamed, SizesMatch, maps
  <2> QED
    BY <2>6, <2>7, <2>8 DEF InStep
<1>5. CASE Purge(u)
  <2>1. task[u] \in [at : {"purging"}, bytes : Bytes]
    BY <1>1, <1>5 DEF Purge, At, Tasks, IsTask
  <2> DEFINE r == [at |-> "stamping", bytes |-> task[u].bytes]
  <2>2. u \in Holding /\ path # None /\ task[u].bytes = bytes[path]
    BY <1>1, <1>5 DEF Purge, At, Holding, InStep, HoldersRead
  <2>3. Go(u, r) /\ UNCHANGED <<files, fingerprint>>
    BY <1>5, <2>1 DEF Purge
  <2>4. HoldersRead'
    BY <1>1, <2>2, <2>3, HoldersStep DEF InStep, files
  <2>5. Named'
    BY <1>1, <2>3, NamedStep DEF InStep
  <2>6. \A w \in WIDTHS : resized'[w] = None
    BY <1>5 DEF Purge
  <2> QED
    BY <2>4, <2>5, <2>6 DEF InStep, SizesNamed, SizesMatch, SizesCurrent
<1> QED
  BY <1>2, <1>3, <1>4, <1>5 DEF Adopt

\* Who reads the photo reads the one in the directory, purged or not.
LEMMA ReadFresh ==
  ASSUME Places, Tasks, InStep,
         \/ \E r \in Reader : (\E w \in WIDTHS : Miss(r, w)) \/ Cook(r) \/ Leave(r)
         \/ PrewarmReads
  PROVE  InStep'
<1>1. ASSUME ReadOriginal
      PROVE  UNCHANGED <<files, maps>>
  BY <1>1 DEF ReadOriginal
<1>2. CASE PrewarmReads
  <2>1. PICK r : /\ Go(Prewarm, r)
                 /\ r = Done \/ (path # None /\ r = [at |-> "stamping", bytes |-> bytes[path]])
    BY <1>2 DEF PrewarmReads
  <2>2. Prewarm \in Task /\ ~At(Prewarm, {"purging"}) /\ ReadOriginal
    BY <1>2 DEF PrewarmReads, At, Task
  <2>3. /\ r.at \notin {"purging", "coloring", "sizing", "inserting"}
        /\ r.at \in Carrying => path # None /\ r.bytes = bytes[path]
    BY <2>1 DEF Done, Carrying
  <2> QED
    BY <1>1, <2>1, <2>2, <2>3, PlainStep DEF files
<1>3. ASSUME NEW r \in Reader, NEW w \in WIDTHS, Miss(r, w)
      PROVE  InStep'
  <2>1. Go(r, [at |-> "reading", width |-> w]) /\ UNCHANGED <<files, maps>>
    BY <1>3 DEF Miss
  <2>2. r \in Task /\ ~At(r, {"purging"})
    BY <1>3 DEF Miss, At, Idle, Task
  <2> QED
    BY <2>1, <2>2, PlainStep DEF files, Carrying
<1>4. ASSUME NEW r \in Reader, CookReads(r)
      PROVE  InStep'
  <2>1. PICK s : /\ Go(r, s)
                 /\ \/ s = Idle
                    \/ path # None /\ s = [at |-> "cooking", width |-> task[r].width, bytes |-> bytes[path]]
    BY <1>4 DEF CookReads
  <2>2. r \in Task /\ ~At(r, {"purging"}) /\ ReadOriginal
    BY <1>4 DEF CookReads, At, Task
  <2>3. /\ s.at \notin {"purging", "coloring", "sizing", "inserting"}
        /\ s.at \in Carrying => path # None /\ s.bytes = bytes[path]
    BY <2>1 DEF Idle, Carrying
  <2> QED
    BY <1>1, <2>1, <2>2, <2>3, PlainStep DEF files
<1>5. ASSUME NEW r \in Reader, CookStamps(r)
      PROVE  InStep'
  <2>1. task[r] \in [at : {"cooking"}, width : WIDTHS, bytes : Bytes] /\ r \in Holding /\ ~At(r, {"purging"})
    BY <1>5 DEF CookStamps, At, Tasks, IsTask, Holding, Task
  <2>2. Go(r, [at |-> "inserting", width |-> task[r].width, bytes |-> task[r].bytes])
    BY <1>5, <2>1 DEF CookStamps
  <2>3. fingerprint' = task[r].bytes /\ UNCHANGED <<files, resized>>
    BY <1>5 DEF CookStamps
  <2> QED
    BY <2>1, <2>2, <2>3, StampStep
<1>6. ASSUME NEW r \in Reader, Insert(r) \/ Leave(r)
      PROVE  InStep'
  <2>1. r \in Task /\ Stamped(r)
    BY <1>6 DEF Insert, Leave, At, Stamped, Task
  <2>2. Go(r, Idle) /\ UNCHANGED <<files, fingerprint>>
    BY <1>6 DEF Insert, Leave, maps
  <2>3. PICK h : resized' = resized \/ resized' = [resized EXCEPT ![h] = task[r].bytes]
    BY <1>6 DEF Insert, Leave, maps
  <2> QED
    BY <2>1, <2>2, <2>3, InsertStep DEF Idle, Carrying
<1> QED
  BY <1>2, <1>3, <1>4, <1>5, <1>6 DEF Cook

\* A new process knows nothing, and so nothing stale.
LEMMA RestartFresh ==
  ASSUME Restart
  PROVE  InStep'
<1>1. \A x \in Task : task'[x].at \in {"starting", "done", "idle"}
  BY DEF Restart, Done, Idle
<1>2. Holding' = {} /\ Replacing' = {}
  BY <1>1 DEF Holding, Replacing, At, Task
<1>3. \A w \in WIDTHS : resized'[w] = None
  BY DEF Restart
<1>4. Named'
  BY <1>1 DEF Named, Stamped, At
<1> QED
  BY <1>2, <1>3, <1>4 DEF InStep, HoldersRead, SizesNamed, SizesMatch, SizesCurrent

\* Within one process, what straddled a replacement has done so for good.
LEMMA StraddledStays ==
  ASSUME Next, ~Restart, straddled
  PROVE  straddled'
<1>1. ASSUME NEW x, Rename(x)
      PROVE  straddled'
  <2>1. straddled' = (straddled \/ Holding # {}) \/ straddled' = straddled
    BY <1>1 DEF Rename
  <2> QED
    BY <2>1, Zenon
<1>2. ASSUME NEW x, Bake(x) \/ Adopt(x) \/ Cook(x) \/ Leave(x)
      PROVE  straddled'
  BY <1>1, <1>2 DEF Bake, Stamp, Color, Size, Adopt, Write, Purge, Cook, CookReads, ReadOriginal,
                    CookStamps, Insert, Leave, history
<1>3. ASSUME NEW u, Open(u)
      PROVE  straddled'
  BY <1>3 DEF Open
<1>4. ASSUME NEW r, NEW w, Miss(r, w)
      PROVE  straddled'
  BY <1>4 DEF Miss, history
<1>5. CASE PrewarmReads
  BY <1>5 DEF PrewarmReads, ReadOriginal, history
<1> QED
  BY <1>2, <1>3, <1>4, <1>5 DEF Next, Work

\* Every step keeps the URLs fresh, as long as no upload overlapped or was
\* straddled.
LEMMA FreshStep ==
  ASSUME Places, Tasks, Whole, Fresh, [Next]_vars
  PROVE  Fresh'
<1>1. CASE UNCHANGED vars
  BY <1>1 DEF Fresh, InStep, HoldersRead, SizesNamed, SizesMatch, SizesCurrent, Named, Stamped, Holding,
              Replacing, At, vars, files, maps, history
<1>2. CASE Restart
  BY <1>2, RestartFresh DEF Fresh
<1>3. CASE Next /\ ~Restart /\ ~crowded' /\ ~straddled'
  <2>1. Directory /\ InStep
    BY <1>3, CrowdedStays, StraddledStays DEF Whole, Fresh
  <2> QED
    BY <1>3, <2>1, BakeFresh, UploadFresh, ReadFresh DEF Fresh, Next, Work
<1> QED
  BY <1>1, <1>2, <1>3 DEF Fresh

\* Every size is of the photo the URLs name, unless an upload overlapped
\* another (crowded) or the photo was replaced while somebody who had read the
\* old one was still to put something in a map (straddled), and except while an
\* upload has renamed its file and not yet purged: then a reader of the new
\* file may have stamped it, so that its URL can still be answered with the old
\* sizes, until the purge (which breaks StaleSizesGoFirst).
THEOREM OnlyFreshUrls == Spec => []FreshUrls
<1>1. ASSUME Init
      PROVE  Whole /\ Fresh
  <2>1. Holding = {} /\ Replacing = {}
    BY <1>1 DEF Init, Holding, Replacing, At, Task
  <2>2. Named
    BY <1>1 DEF Init, Named, Stamped, At
  <2>3. Fresh
    BY <1>1, <2>1, <2>2 DEF Init, Fresh, InStep, HoldersRead, SizesNamed, SizesMatch, SizesCurrent
  <2> QED
    BY <1>1, <2>3, InitWhole
<1>2. Fresh => FreshUrls
  BY DEF Fresh, InStep, SizesNamed, FreshUrls, Current
<1>3. (Places /\ Tasks) /\ (Whole /\ Fresh) /\ [Next]_vars => (Whole /\ Fresh)'
  BY WholeStep, FreshStep
<1>4. Spec => [](Places /\ Tasks)
  BY TypeCorrect, TypeParts, PTL
<1> QED
  BY <1>1, <1>2, <1>3, <1>4, PTL DEF Spec
=============================================================================
