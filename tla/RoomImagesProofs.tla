-------------------------- MODULE RoomImagesProofs --------------------------
(***************************************************************************)
(* Proofs about RoomImages, for any rooms, images and handlers.            *)
(***************************************************************************)
EXTENDS RoomImages, FiniteSetTheorems, TLAPS

LEMMA InitFiles == Init => FilesInvariant
  <1> SUFFICES ASSUME Init PROVE FilesInvariant
    OBVIOUS
  <1>1. TypeOK
    BY DEF Init, TypeOK
  <1> QED
    BY <1>1 DEF Init, FilesInvariant, NoBrokenImage, NoOrphanFile, RequestIsSound,
                UploadsApart, Uploads, Exists, ReadLocalFile

\* What holds of a request whose handler takes no step, when another one adds
\* rows for its uploads only and deletes its own file only.
LEMMA OthersSound ==
  ASSUME FilesInvariant, NEW h \in Handlers, NEW g \in Handlers, g # h,
         call'[g] = call[g], pc'[g] = pc[g],
         \A i \in Images : Exists(i)' => Exists(i) \/ i \in Uploads(h),
         \A i \in Images : i \in stored =>
           i \in stored' \/ (call[h] # NoCall /\ i = call[h].image)
  PROVE  RequestIsSound(g)' /\ InHand(g)' = InHand(g) /\ Uploads(g)' = Uploads(g)
  <1>1. Uploads(g)' = Uploads(g)
    BY DEF Uploads
  <1>2. InHand(g)' = InHand(g)
    BY DEF InHand
  <1>3. CASE call[g] = NoCall
    BY <1>1, <1>2, <1>3 DEF RequestIsSound
  <1>4. CASE call[g] # NoCall
    <2>1. call[g] \in Call
      BY <1>4 DEF FilesInvariant, TypeOK
    <2>2. Uploads(g) \subseteq Images
      BY <2>1 DEF Uploads, NamesIn, Call
    <2>3. RequestIsSound(g) /\ UploadsApart(g, h) /\ UploadsApart(h, g)
      BY DEF FilesInvariant
    <2>4. Uploads(g) \ call[g].todo \subseteq stored'
      BY <1>4, <2>2, <2>3 DEF RequestIsSound, UploadsApart
    <2>5. \A i \in Uploads(g) : ~Exists(i)'
      BY <1>4, <2>2, <2>3 DEF RequestIsSound, UploadsApart
    <2>6. pc[g] = "file" => ~Exists(call[g].image)'
      <3> SUFFICES ASSUME pc[g] = "file" PROVE ~Exists(call[g].image)'
        OBVIOUS
      <3>1. call[g].op # "add"
        BY <1>4, <2>3, <2>1 DEF RequestIsSound, StatementsOf, Call
      <3>2. PICK i \in Images : i = call[g].image
        BY <1>4, <2>3, <3>1 DEF RequestIsSound
      <3>3. ~Exists(i) /\ i \notin Uploads(h)
        BY <1>4, <2>3, <3>2 DEF RequestIsSound, UploadsApart
      <3>4. ~Exists(i)'
        BY <3>3
      <3> QED
        BY <3>2, <3>4 DEF Exists
    <2>7. \A i \in Uploads(g)' : ~Exists(i)'
      BY <1>1, <2>5
    <2> QED
      BY <1>1, <1>2, <1>4, <2>3, <2>4, <2>6, <2>7 DEF RequestIsSound
  <1> QED
    BY <1>3, <1>4

\* A step of one handler, or of none, that starts no upload.
LEMMA StepKeepsFiles ==
  ASSUME FilesInvariant, TypeOK', NEW h \in Handlers,
         \A g \in Handlers : g # h => call'[g] = call[g] /\ pc'[g] = pc[g],
         \A i \in Images : Exists(i)' => Exists(i) \/ i \in Uploads(h),
         \A i \in Images : i \in stored =>
           i \in stored' \/ (call[h] # NoCall /\ i = call[h].image),
         Uploads(h)' \subseteq Uploads(h),
         call'[h] = NoCall
           \/ (call[h] # NoCall /\ call'[h].image = call[h].image)
           \/ (call'[h].image \in Images /\ Exists(call'[h].image)),
         RequestIsSound(h)', NoBrokenImage',
         mishap' \/ (~mishap /\ \A i \in stored' :
           \/ Exists(i)' \/ i \in InHand(h)'
           \/ i \in stored /\ ~Exists(i) /\ i \notin InHand(h))
  PROVE  FilesInvariant'
  <1>1. \A g \in Handlers : g # h =>
          RequestIsSound(g)' /\ InHand(g)' = InHand(g) /\ Uploads(g)' = Uploads(g)
    BY OthersSound
  <1>2. \A g \in Handlers : RequestIsSound(g)'
    BY <1>1
  <1>3. NoOrphanFile'
    <2> SUFFICES ASSUME ~mishap', NEW i \in stored', ~Exists(i)'
                 PROVE  \E g \in Handlers : i \in InHand(g)'
      BY DEF NoOrphanFile
    <2>1. CASE i \in InHand(h)'
      BY <2>1
    <2>2. CASE i \in stored /\ ~Exists(i) /\ i \notin InHand(h)
      <3>1. PICK g \in Handlers : i \in InHand(g)
        BY <2>2 DEF FilesInvariant, NoOrphanFile
      <3> QED
        BY <3>1, <2>2, <1>1
    <2> QED
      BY <2>1, <2>2
  <1>4. ASSUME NEW g \in Handlers, g # h
        PROVE  UploadsApart(g, h)' /\ UploadsApart(h, g)'
    <2>1. UploadsApart(g, h) /\ UploadsApart(h, g) /\ RequestIsSound(g)
      BY <1>4 DEF FilesInvariant
    <2>2. Uploads(g)' \cap Uploads(h)' = {}
      BY <1>1, <1>4, <2>1 DEF UploadsApart
    <2>3. call'[g] # NoCall => call'[g].image \notin Uploads(h)'
      BY <1>4, <2>1 DEF UploadsApart
    <2>4. call'[h] # NoCall => call'[h].image \notin Uploads(g)'
      <3> SUFFICES ASSUME call'[h] # NoCall PROVE call'[h].image \notin Uploads(g)
        BY <1>1, <1>4
      <3>1. CASE call[h] # NoCall /\ call'[h].image = call[h].image
        BY <3>1, <2>1 DEF UploadsApart
      <3>2. CASE call'[h].image \in Images /\ Exists(call'[h].image)
        BY <3>2, <2>1 DEF RequestIsSound, Uploads
      <3> QED
        BY <3>1, <3>2
    <2> QED
      BY <2>2, <2>3, <2>4 DEF UploadsApart
  <1>5. \A f, g \in Handlers : f # g => UploadsApart(f, g)'
    <2> SUFFICES ASSUME NEW f \in Handlers, NEW g \in Handlers, f # g, f # h, g # h
                 PROVE  UploadsApart(f, g)'
      BY <1>4
    <2> QED
      BY <1>1 DEF FilesInvariant, UploadsApart
  <1> QED
    BY <1>2, <1>3, <1>5 DEF FilesInvariant

-----------------------------------------------------------------------------
\* The tables keep their types when one handler moves to a statement, or ends.
LEMMA TypeStep ==
  ASSUME TypeOK, NEW h \in Handlers, NEW c \in Call \cup {NoCall},
         NEW p \in {"idle", "upload", "primary", "insert", "delete", "file",
                    "next", "promote", "swap"},
         p = "idle" <=> c = NoCall,
         call' = [call EXCEPT ![h] = c], pc' = [pc EXCEPT ![h] = p],
         row' \in [Images -> ImageRow \cup {NoRow}], stored' \subseteq Images,
         raced' \subseteq Rooms, mishap' \in BOOLEAN
  PROVE  /\ TypeOK' /\ call'[h] = c /\ pc'[h] = p
         /\ \A g \in Handlers : g # h => call'[g] = call[g] /\ pc'[g] = pc[g]
  BY DEF TypeOK

\* A step that ends the request of its handler.
LEMMA EndStep ==
  ASSUME FilesInvariant, NEW h \in Handlers, End(h),
         row' \in [Images -> ImageRow \cup {NoRow}], stored' \subseteq Images,
         raced' \subseteq Rooms, mishap' \in BOOLEAN,
         \A i \in Images : Exists(i)' => Exists(i) \/ i \in Uploads(h),
         \A i \in Images : i \in stored =>
           i \in stored' \/ (call[h] # NoCall /\ i = call[h].image),
         NoBrokenImage',
         mishap' \/ (~mishap /\ \A i \in stored' :
           Exists(i)' \/ (i \in stored /\ ~Exists(i) /\ i \notin InHand(h)))
  PROVE  FilesInvariant'
  <1>1. /\ TypeOK' /\ call'[h] = NoCall
        /\ \A g \in Handlers : g # h => call'[g] = call[g] /\ pc'[g] = pc[g]
    BY TypeStep DEF End, FilesInvariant
  <1>2. Uploads(h)' = {} /\ RequestIsSound(h)'
    BY <1>1 DEF Uploads, RequestIsSound
  <1> QED
    BY <1>1, <1>2, StepKeepsFiles

\* A step that ends a request, and leaves every file and every name alone.
LEMMA QuietEnd ==
  ASSUME FilesInvariant, NEW h \in Handlers, End(h), stored' = stored,
         row' \in [Images -> ImageRow \cup {NoRow}],
         \A i \in Images : Exists(i)' <=> Exists(i),
         raced' \subseteq Rooms, mishap' \in BOOLEAN, mishap => mishap',
         mishap' \/ InHand(h) = {}
  PROVE  FilesInvariant'
  <1>1. stored \subseteq Images /\ mishap \in BOOLEAN
    BY DEF FilesInvariant, TypeOK
  <1>2. NoBrokenImage'
    BY DEF FilesInvariant, NoBrokenImage, ReadLocalFile
  <1>3. mishap' \/ (~mishap /\ \A i \in stored' :
          Exists(i)' \/ (i \in stored /\ ~Exists(i) /\ i \notin InHand(h)))
    BY <1>1
  <1> QED
    BY <1>1, <1>2, <1>3, EndStep

\* What the invariant says of a handler at work.
LEMMA AtWork ==
  ASSUME FilesInvariant, NEW h \in Handlers, pc[h] # "idle"
  PROVE  /\ call[h] \in Call /\ call[h] # NoCall
         /\ pc[h] \in StatementsOf[call[h].op]
         /\ Uploads(h) = NamesIn(call[h].files) /\ Uploads(h) \subseteq Images
         /\ call[h].op = "add" <=> pc[h] \in {"upload", "primary", "insert"}
         /\ call[h].op # "add" => Uploads(h) = {} /\ call[h].image \in Images
         /\ call[h].op # "add" /\ pc[h] # "file" => InHand(h) = {}
         /\ call[h].op = "add" => InHand(h) = Uploads(h)
         /\ pc[h] = "file" => InHand(h) = {call[h].image}
  <1>1. call[h] \in Call /\ call[h] # NoCall
    BY DEF FilesInvariant, TypeOK
  <1>2. RequestIsSound(h) /\ call[h].op \in {"add", "remove", "setPrimary"}
    BY <1>1 DEF FilesInvariant, Call
  <1>3. Uploads(h) = NamesIn(call[h].files) /\ Uploads(h) \subseteq Images
    BY <1>1 DEF Uploads, NamesIn, Call
  <1>4. call[h].op = "add" <=> pc[h] \in {"upload", "primary", "insert"}
    BY <1>1, <1>2 DEF RequestIsSound, StatementsOf
  <1> QED
    BY <1>1, <1>2, <1>3, <1>4 DEF RequestIsSound, InHand
-----------------------------------------------------------------------------
\* The requests that end.
LEMMA ImageGoneStep ==
  ASSUME FilesInvariant, NEW h \in Handlers, ImageGone(h)
  PROVE  FilesInvariant'
  <1>1. InHand(h) = {}
    BY AtWork DEF ImageGone
  <1> QED
    BY <1>1, QuietEnd DEF ImageGone, FilesInvariant, TypeOK, Exists

LEMMA FindNoneStep ==
  ASSUME FilesInvariant, NEW h \in Handlers, FindNone(h)
  PROVE  FilesInvariant'
  <1>1. InHand(h) = {}
    BY AtWork DEF FindNone
  <1> QED
    BY <1>1, QuietEnd DEF FindNone, FilesInvariant, TypeOK, Exists

LEMMA FailStep ==
  ASSUME FilesInvariant, NEW h \in Handlers, Fail(h)
  PROVE  FilesInvariant'
  <1>1. raced' \subseteq Rooms
    <2>1. call[h].room \in Rooms /\ raced \subseteq Rooms
      BY AtWork DEF Fail, Call, FilesInvariant, TypeOK
    <2> QED
      BY <2>1 DEF Fail
  <1> QED
    BY <1>1, QuietEnd DEF Fail, FilesInvariant, TypeOK, Exists

\* A row whose field isPrimary or sortOrder changes is still a row.
LEMMA RowChanged ==
  ASSUME TypeOK, NEW i \in Images, Exists(i), NEW b \in BOOLEAN, NEW n \in Nat
  PROVE  /\ row[i] \in ImageRow
         /\ [row[i] EXCEPT !.isPrimary = b] \in ImageRow
         /\ [row[i] EXCEPT !.sortOrder = n] \in ImageRow
  <1>1. row[i] \in ImageRow
    BY DEF TypeOK, Exists
  <1>2. [row[i] EXCEPT !.sortOrder = n] \in ImageRow
    BY <1>1, SMT DEF ImageRow
  <1>3. [row[i] EXCEPT !.isPrimary = b] \in ImageRow
    BY <1>1, Zenon DEF ImageRow
  <1> QED
    BY <1>1, <1>2, <1>3

LEMMA PromoteStep ==
  ASSUME FilesInvariant, NEW h \in Handlers, Promote(h)
  PROVE  FilesInvariant'
  <1>1. InHand(h) = {} /\ call[h].op # "add" /\ call[h].image \in Images
    BY AtWork DEF Promote
  <1>2. PICK i \in Images : i = call[h].image
    BY <1>1
  <1>3. Exists(i) /\ row' = [row EXCEPT ![i].isPrimary = TRUE]
    BY <1>2, Zenon DEF Promote
  <1>4. [row[i] EXCEPT !.isPrimary = TRUE] \in ImageRow
    BY <1>3, RowChanged DEF FilesInvariant
  <1> DEFINE changed == [row[i] EXCEPT !.isPrimary = TRUE]
  <1>5. row' = [row EXCEPT ![i] = changed]
    BY <1>3
  <1> HIDE DEF changed
  <1>6. /\ row' \in [Images -> ImageRow \cup {NoRow}]
        /\ \A j \in Images : Exists(j)' <=> Exists(j)
    BY <1>3, <1>4, <1>5, ImageAssumption DEF FilesInvariant, TypeOK, Exists, changed
  <1> QED
    BY <1>1, <1>6, QuietEnd DEF Promote, FilesInvariant, TypeOK

LEMMA SwapPrimaryStep ==
  ASSUME FilesInvariant, NEW h \in Handlers, SwapPrimary(h)
  PROVE  FilesInvariant'
  <1>1. InHand(h) = {}
    BY AtWork DEF SwapPrimary
  <1>2. ASSUME NEW i \in Images
        PROVE  row'[i] \in ImageRow \cup {NoRow} /\ (row'[i] # NoRow <=> Exists(i))
    <2>1. CASE i \in ImagesOf(call[h].room)
      <3>1. Exists(i)
        BY <2>1 DEF ImagesOf
      <3> DEFINE b == i = call[h].image
      <3>2. row'[i] = [row[i] EXCEPT !.isPrimary = b]
        BY <2>1 DEF SwapPrimary
      <3>3. b \in BOOLEAN
        OBVIOUS
      <3> HIDE DEF b
      <3>4. row'[i] \in ImageRow
        BY <3>1, <3>2, <3>3, RowChanged DEF FilesInvariant
      <3> QED
        BY <3>1, <3>4, ImageAssumption
    <2>2. CASE i \notin ImagesOf(call[h].room)
      BY <2>2 DEF SwapPrimary, FilesInvariant, TypeOK, Exists
    <2> QED
      BY <2>1, <2>2
  <1>3. /\ row' \in [Images -> ImageRow \cup {NoRow}]
        /\ \A i \in Images : Exists(i)' <=> Exists(i)
    <2>1. row' = [i \in Images |-> row'[i]]
      BY DEF SwapPrimary
    <2> QED
      BY <1>2, <2>1 DEF Exists
  <1> QED
    BY <1>1, <1>3, QuietEnd DEF SwapPrimary, FilesInvariant, TypeOK
LEMMA InsertRowsStep ==
  ASSUME FilesInvariant, NEW h \in Handlers, InsertRows(h)
  PROVE  FilesInvariant'
  <1> DEFINE c == call[h]
             place(i) == CHOOSE k \in DOMAIN c.files : c.files[k] = i
  <1>1. /\ c \in Call /\ c # NoCall /\ c.op = "add"
        /\ InHand(h) = Uploads(h) /\ Uploads(h) = NamesIn(c.files)
        /\ Uploads(h) \subseteq stored
    BY AtWork DEF InsertRows, FilesInvariant, RequestIsSound
  <1>2. ASSUME NEW k \in DOMAIN c.files
        PROVE  NewRow(c, k) \in ImageRow
    <2>1. c.count \in Nat /\ c.room \in Rooms /\ k \in Nat \ {0}
      BY <1>1 DEF Call
    <2>2. c.count + k - 1 \in Nat
      BY <2>1
    <2> DEFINE b == ~c.primary /\ k = 1
               n == c.count + k - 1
    <2>3. b \in BOOLEAN
      OBVIOUS
    <2>4. NewRow(c, k) = [room |-> c.room, isPrimary |-> b, sortOrder |-> n]
      BY DEF NewRow
    <2> HIDE DEF b, n
    <2>5. n \in Nat
      BY <2>2 DEF n
    <2> QED
      BY <2>1, <2>3, <2>4, <2>5 DEF ImageRow
  <1>3. ASSUME NEW i \in Images
        PROVE  /\ row'[i] \in ImageRow \cup {NoRow}
               /\ i \in Uploads(h) => row'[i] # NoRow
               /\ i \notin Uploads(h) => row'[i] = row[i]
    <2>1. CASE i \in Uploads(h)
      <3>1. place(i) \in DOMAIN c.files
        BY <1>1, <2>1 DEF NamesIn
      <3>2. row'[i] = NewRow(c, place(i))
        BY <1>1, <2>1 DEF InsertRows
      <3> QED
        BY <1>2, <2>1, <3>1, <3>2, ImageAssumption
    <2>2. CASE i \notin Uploads(h)
      BY <1>1, <2>2 DEF InsertRows, FilesInvariant, TypeOK
    <2> QED
      BY <2>1, <2>2
  <1>4. row' \in [Images -> ImageRow \cup {NoRow}]
    <2>1. row' = [i \in Images |-> row'[i]]
      BY DEF InsertRows
    <2> QED
      BY <1>3, <2>1
  <1>5. /\ stored' = stored /\ raced' = raced /\ mishap' = mishap /\ End(h)
        /\ stored \subseteq Images /\ raced \subseteq Rooms /\ mishap \in BOOLEAN
    BY DEF InsertRows, FilesInvariant, TypeOK
  <1>6. NoBrokenImage'
    BY <1>1, <1>3, <1>5 DEF FilesInvariant, NoBrokenImage, ReadLocalFile, Exists
  <1>7. \A i \in Images : Exists(i)' => Exists(i) \/ i \in Uploads(h)
    BY <1>3 DEF Exists
  <1>8. \A i \in stored' :
          Exists(i)' \/ (i \in stored /\ ~Exists(i) /\ i \notin InHand(h))
    BY <1>1, <1>3, <1>5 DEF Exists
  <1> QED
    BY <1>4, <1>5, <1>6, <1>7, <1>8, EndStep

LEMMA UploadFailsStep ==
  ASSUME FilesInvariant, NEW h \in Handlers, NEW i \in Images,
         NEW others \in SUBSET Images, UploadFails(h, i, others)
  PROVE  FilesInvariant'
  <1>1. NoBrokenImage'
    BY DEF UploadFails, FilesInvariant, NoBrokenImage, ReadLocalFile, Exists
  <1> QED
    BY <1>1, EndStep DEF UploadFails, FilesInvariant, TypeOK, Exists

\* After the file, deleted or not, the request ends or goes on to the next image.
LEMMA FileStep ==
  ASSUME FilesInvariant, NEW h \in Handlers,
         DeleteFile(h) \/ DeleteFileFails(h)
  PROVE  FilesInvariant'
  <1> DEFINE c == call[h]
  <1>1. /\ c \in Call /\ c # NoCall /\ c.op = "remove" /\ Uploads(h) = {}
        /\ c.image \in Images /\ InHand(h) = {c.image}
        /\ ~Exists(c.image) /\ c.todo = {} /\ pc[h] = "file"
    <2>1. pc[h] = "file"
      BY DEF DeleteFile, DeleteFileFails
    <2>2. c.op \in {"remove", "setPrimary"}
      BY <2>1, AtWork DEF Call
    <2>3. c.op = "remove"
      BY <2>1, <2>2, AtWork DEF StatementsOf
    <2> QED
      BY <2>1, <2>3, AtWork DEF FilesInvariant, RequestIsSound
  <1>2. /\ row' = row /\ raced' = raced /\ stored' \subseteq Images
        /\ mishap' \in BOOLEAN /\ raced \subseteq Rooms
        /\ row \in [Images -> ImageRow \cup {NoRow}]
        /\ \A i \in Images : i \in stored => i \in stored' \/ i = c.image
        /\ stored' \subseteq stored
        /\ mishap' \/ (mishap' = mishap /\ c.image \notin stored')
    BY DEF DeleteFile, DeleteFileFails, FilesInvariant, TypeOK
  <1>3. NoBrokenImage' /\ \A i \in Images : Exists(i)' <=> Exists(i)
    <2>1. \A i \in Images : Exists(i) => i # c.image
      BY <1>1
    <2> QED
      BY <1>2, <2>1 DEF FilesInvariant, NoBrokenImage, ReadLocalFile, Exists
  <1>4. mishap' \/ (~mishap /\ \A i \in stored' :
          Exists(i)' \/ (i \in stored /\ ~Exists(i) /\ i \notin InHand(h)))
    <2>1. stored \subseteq Images /\ mishap \in BOOLEAN
      BY DEF FilesInvariant, TypeOK
    <2> QED
      BY <1>1, <1>2, <1>3, <2>1
  <1>5. CASE End(h)
    BY <1>1, <1>2, <1>3, <1>4, <1>5, EndStep
  <1>6. CASE pc' = [pc EXCEPT ![h] = "next"] /\ UNCHANGED call
    <2>1. call' = [call EXCEPT ![h] = c]
      BY <1>6 DEF FilesInvariant, TypeOK
    <2>2. /\ TypeOK' /\ call'[h] = c /\ pc'[h] = "next"
          /\ \A g \in Handlers : g # h => call'[g] = call[g] /\ pc'[g] = pc[g]
      BY <1>1, <1>2, <1>6, <2>1, TypeStep DEF FilesInvariant
    <2>3. Uploads(h)' = {}
      BY <1>1, <2>2 DEF Uploads
    <2>4. RequestIsSound(h)'
      BY <1>1, <2>2, <2>3 DEF RequestIsSound, StatementsOf
    <2> QED
      BY <1>1, <1>2, <1>3, <1>4, <2>2, <2>3, <2>4, StepKeepsFiles
  <1> QED
    BY <1>5, <1>6 DEF DeleteFile, DeleteFileFails, AfterFile
-----------------------------------------------------------------------------
\* The requests that go on.
LEMMA StoreFileStep ==
  ASSUME FilesInvariant, NEW h \in Handlers, NEW i \in Images, StoreFile(h, i)
  PROVE  FilesInvariant'
  <1> DEFINE c == [call[h] EXCEPT !.todo = @ \ {i}]
  <1>1. /\ call[h] \in Call /\ call[h] # NoCall /\ call[h].op = "add"
        /\ i \in call[h].todo /\ i \in Uploads(h) /\ pc[h] = "upload"
        /\ InHand(h) = Uploads(h) /\ Uploads(h) = NamesIn(call[h].files)
    BY AtWork DEF StoreFile, FilesInvariant, RequestIsSound
  <1>2. /\ c \in Call /\ c.op = "add" /\ c.files = call[h].files
        /\ c.image = call[h].image /\ c.todo = call[h].todo \ {i}
    BY <1>1 DEF Call
  <1>3. call' = [call EXCEPT ![h] = c]
    BY DEF StoreFile
  <1> HIDE DEF c
  <1>4. /\ TypeOK' /\ call'[h] = c /\ pc'[h] = "upload"
        /\ \A g \in Handlers : g # h => call'[g] = call[g] /\ pc'[g] = pc[g]
    <2>1. pc' = [pc EXCEPT ![h] = "upload"]
      BY <1>1 DEF StoreFile, FilesInvariant, TypeOK
    <2>2. /\ row' \in [Images -> ImageRow \cup {NoRow}] /\ stored' \subseteq Images
          /\ raced' \subseteq Rooms /\ mishap' \in BOOLEAN
      BY DEF StoreFile, FilesInvariant, TypeOK
    <2>3. c # NoCall
      BY <1>2, ImageAssumption
    <2> QED
      BY <1>2, <1>3, <2>1, <2>2, <2>3, TypeStep DEF FilesInvariant
  <1>5. /\ row' = row /\ stored' = stored \cup {i} /\ mishap' = mishap
        /\ c # NoCall /\ mishap \in BOOLEAN /\ stored \subseteq Images
    BY <1>2, ImageAssumption DEF StoreFile, FilesInvariant, TypeOK
  <1>6. Uploads(h)' = Uploads(h) /\ InHand(h)' = Uploads(h)
    BY <1>1, <1>2, <1>4, <1>5 DEF Uploads, InHand
  <1>7. RequestIsSound(h)'
    <2>1. /\ pc'[h] \in StatementsOf["add"]
          /\ c.todo \subseteq Uploads(h)' /\ Uploads(h)' \ c.todo \subseteq stored'
          /\ \A j \in Uploads(h)' : ~Exists(j)'
      BY <1>1, <1>2, <1>4, <1>5, <1>6
         DEF FilesInvariant, RequestIsSound, Exists, StatementsOf
    <2> QED
      BY <2>1, <1>2, <1>4 DEF RequestIsSound
  <1>8. NoBrokenImage'
    BY <1>5 DEF FilesInvariant, NoBrokenImage, ReadLocalFile, Exists
  <1>9. mishap' \/ (~mishap /\ \A j \in stored' :
          \/ Exists(j)' \/ j \in InHand(h)'
          \/ j \in stored /\ ~Exists(j) /\ j \notin InHand(h))
    BY <1>1, <1>5, <1>6 DEF Exists
  <1>10. /\ \A j \in Images : Exists(j)' => Exists(j)
         /\ \A j \in Images : j \in stored => j \in stored'
    BY <1>5 DEF Exists
  <1> QED
    BY <1>1, <1>2, <1>4, <1>6, <1>7, <1>8, <1>9, <1>10, StepKeepsFiles

\* A step that only notes what it has read, in its request.
LEMMA QuietMove ==
  ASSUME FilesInvariant, NEW h \in Handlers, NEW c \in Call,
         NEW p \in {"upload", "primary", "insert", "next", "promote", "swap"},
         call[h] # NoCall, UNCHANGED <<row, stored, raced, mishap>>,
         call' = [call EXCEPT ![h] = c], pc' = [pc EXCEPT ![h] = p],
         c.op = call[h].op, c.files = call[h].files, c.todo = call[h].todo,
         c.image = call[h].image \/ (c.image \in Images /\ Exists(c.image)),
         p \in StatementsOf[c.op], p # "upload" => c.todo = {},
         pc[h] # "file"
  PROVE  FilesInvariant'
  <1>1. /\ row \in [Images -> ImageRow \cup {NoRow}] /\ stored \subseteq Images
        /\ raced \subseteq Rooms /\ mishap \in BOOLEAN /\ c # NoCall
    BY ImageAssumption DEF FilesInvariant, TypeOK
  <1>2. /\ TypeOK' /\ call'[h] = c /\ pc'[h] = p
        /\ \A g \in Handlers : g # h => call'[g] = call[g] /\ pc'[g] = pc[g]
    BY <1>1, TypeStep DEF FilesInvariant
  <1>3. Uploads(h)' = Uploads(h) /\ InHand(h)' = InHand(h)
    BY <1>1, <1>2 DEF Uploads, InHand
  <1>4. RequestIsSound(h)'
    <2>1. RequestIsSound(h)
      BY DEF FilesInvariant
    <2>2. \A i \in Uploads(h)' : ~Exists(i)'
      BY <2>1, <1>3 DEF RequestIsSound, Exists
    <2> QED
      BY <1>2, <1>3, <2>1, <2>2 DEF RequestIsSound
  <1>5. /\ NoBrokenImage' /\ \A i \in Images : Exists(i)' <=> Exists(i)
    BY DEF FilesInvariant, NoBrokenImage, ReadLocalFile, Exists
  <1>6. mishap' \/ (~mishap /\ \A i \in stored' :
          \/ Exists(i)' \/ i \in InHand(h)'
          \/ i \in stored /\ ~Exists(i) /\ i \notin InHand(h))
    BY <1>1, <1>3, <1>5
  <1> QED
    BY <1>2, <1>3, <1>4, <1>5, <1>6, StepKeepsFiles

LEMMA CountImagesStep ==
  ASSUME FilesInvariant, NEW h \in Handlers, CountImages(h)
  PROVE  FilesInvariant'
  <1> DEFINE n == Cardinality(ImagesOf(call[h].room))
             c == [call[h] EXCEPT !.count = n]
  <1>1. /\ call[h] \in Call /\ call[h] # NoCall /\ call[h].op = "add"
        /\ pc[h] = "upload" /\ call[h].todo = {}
    BY AtWork DEF CountImages, Step
  <1>2. n \in Nat
    <2>1. ImagesOf(call[h].room) \subseteq Images
      BY DEF ImagesOf
    <2> QED
      BY <2>1, FiniteImages, FS_Subset, FS_CardinalityType
  <1>3. call' = [call EXCEPT ![h] = c] /\ pc' = [pc EXCEPT ![h] = "primary"]
    BY DEF CountImages, Step
  <1> HIDE DEF n
  <1>4. /\ c \in Call /\ c.op = "add" /\ c.files = call[h].files
        /\ c.image = call[h].image /\ c.todo = {}
    BY <1>1, <1>2 DEF Call
  <1>5. UNCHANGED <<row, stored, raced, mishap>> /\ "primary" \in StatementsOf["add"]
    BY DEF CountImages, StatementsOf
  <1> HIDE DEF c
  <1> QED
    BY <1>1, <1>3, <1>4, <1>5, QuietMove

LEMMA CountPrimariesStep ==
  ASSUME FilesInvariant, NEW h \in Handlers, CountPrimaries(h)
  PROVE  FilesInvariant'
  <1> DEFINE b == Primaries(call[h].room) # {}
             c == [call[h] EXCEPT !.primary = b]
  <1>1. /\ call[h] \in Call /\ call[h] # NoCall /\ call[h].op = "add"
        /\ pc[h] = "primary" /\ call[h].todo = {}
    BY AtWork DEF CountPrimaries, Step, FilesInvariant, RequestIsSound
  <1>2. b \in BOOLEAN
    OBVIOUS
  <1>3. call' = [call EXCEPT ![h] = c] /\ pc' = [pc EXCEPT ![h] = "insert"]
    BY DEF CountPrimaries, Step
  <1> HIDE DEF b
  <1>4. /\ c \in Call /\ c.op = "add" /\ c.files = call[h].files
        /\ c.image = call[h].image /\ c.todo = {}
    BY <1>1, <1>2 DEF Call
  <1>5. UNCHANGED <<row, stored, raced, mishap>> /\ "insert" \in StatementsOf["add"]
    BY DEF CountPrimaries, StatementsOf
  <1> HIDE DEF c
  <1> QED
    BY <1>1, <1>3, <1>4, <1>5, QuietMove

LEMMA FindNextStep ==
  ASSUME FilesInvariant, NEW h \in Handlers, NEW i \in Images, FindNext(h, i)
  PROVE  FilesInvariant'
  <1> DEFINE c == [call[h] EXCEPT !.image = i]
  <1>1. /\ call[h] \in Call /\ call[h] # NoCall /\ call[h].op = "remove"
        /\ pc[h] = "next" /\ call[h].todo = {}
    <2>1. pc[h] = "next"
      BY DEF FindNext, Step
    <2>2. call[h].op \in {"remove", "setPrimary"}
      BY <2>1, AtWork DEF Call
    <2> QED
      BY <2>1, <2>2, AtWork DEF StatementsOf, FilesInvariant, RequestIsSound
  <1>2. call' = [call EXCEPT ![h] = c] /\ pc' = [pc EXCEPT ![h] = "promote"]
    BY DEF FindNext, Step
  <1>3. /\ c \in Call /\ c.op = "remove" /\ c.files = call[h].files
        /\ c.image = i /\ c.todo = {}
    BY <1>1 DEF Call
  <1>4. Exists(i)
    BY DEF FindNext, ImagesOf
  <1>5. UNCHANGED <<row, stored, raced, mishap>> /\ "promote" \in StatementsOf["remove"]
    BY DEF FindNext, StatementsOf
  <1> HIDE DEF c
  <1> QED
    BY <1>1, <1>2, <1>3, <1>4, <1>5, QuietMove
LEMMA DeleteRowStep ==
  ASSUME FilesInvariant, NEW h \in Handlers, DeleteRow(h)
  PROVE  FilesInvariant'
  <1> DEFINE c == call[h]
  <1>1. /\ c \in Call /\ c # NoCall /\ c.op = "remove" /\ Uploads(h) = {}
        /\ c.image \in Images /\ InHand(h) = {} /\ c.todo = {}
    <2>1. pc[h] = "delete"
      BY DEF DeleteRow, Step
    <2>2. c.op \in {"remove", "setPrimary"}
      BY <2>1, AtWork DEF Call
    <2>3. c.op = "remove"
      BY <2>1, <2>2, AtWork DEF StatementsOf
    <2> QED
      BY <2>1, <2>3, AtWork DEF FilesInvariant, RequestIsSound
  <1>2. PICK d \in Images : d = c.image
    BY <1>1
  <1>3. /\ row' = [row EXCEPT ![d] = NoRow] /\ stored' = stored /\ mishap' = mishap
        /\ call' = call /\ pc' = [pc EXCEPT ![h] = "file"] /\ raced' = raced
    BY <1>2 DEF DeleteRow, Step
  <1>4. /\ row' \in [Images -> ImageRow \cup {NoRow}] /\ stored' \subseteq Images
        /\ raced' \subseteq Rooms /\ mishap' \in BOOLEAN
    BY <1>3 DEF FilesInvariant, TypeOK
  <1>5. call' = [call EXCEPT ![h] = c]
    BY <1>3 DEF FilesInvariant, TypeOK
  <1>6. /\ TypeOK' /\ call'[h] = c /\ pc'[h] = "file"
        /\ \A g \in Handlers : g # h => call'[g] = call[g] /\ pc'[g] = pc[g]
    BY <1>1, <1>3, <1>4, <1>5, TypeStep DEF FilesInvariant
  <1>7. ~Exists(d)' /\ \A i \in Images : i # d => (Exists(i)' <=> Exists(i))
    BY <1>3 DEF Exists, FilesInvariant, TypeOK
  <1>8. Uploads(h)' = {} /\ InHand(h)' = {d}
    BY <1>1, <1>2, <1>6 DEF Uploads, InHand
  <1>9. RequestIsSound(h)'
    <2>1. ~Exists(c.image)'
      BY <1>2, <1>3, <1>7 DEF Exists
    <2> QED
      BY <1>1, <1>3, <1>6, <1>8, <2>1 DEF RequestIsSound, StatementsOf
  <1>10. NoBrokenImage'
    BY <1>3, <1>7 DEF FilesInvariant, NoBrokenImage, ReadLocalFile
  <1>11. mishap' \/ (~mishap /\ \A i \in stored' :
          \/ Exists(i)' \/ i \in InHand(h)'
          \/ i \in stored /\ ~Exists(i) /\ i \notin InHand(h))
    BY <1>1, <1>3, <1>4, <1>7, <1>8
  <1>12. \A i \in Images : Exists(i)' => Exists(i)
    BY <1>7
  <1> QED
    BY <1>1, <1>3, <1>6, <1>8, <1>9, <1>10, <1>11, <1>12, StepKeepsFiles

-----------------------------------------------------------------------------
\* The requests that begin.
LEMMA StartOnStep ==
  ASSUME FilesInvariant, NEW h \in Handlers, NEW r \in Rooms, NEW i \in Images,
         StartRemove(h, i, r) \/ StartSetPrimary(h, i, r)
  PROVE  FilesInvariant'
  <1>1. PICK op \in {"remove", "setPrimary"}, p \in {"delete", "swap"} :
          StartOn(h, i, r, op, p) /\ p \in StatementsOf[op]
    BY DEF StartRemove, StartSetPrimary, StatementsOf
  <1> DEFINE b == row[i].isPrimary
             c == [op |-> op, room |-> r, files |-> <<>>, todo |-> {}, count |-> 0,
                   primary |-> b, image |-> i]
  <1>2. Exists(i) /\ row[i] \in ImageRow
    BY <1>1, RowChanged DEF StartOn, ImagesOf, FilesInvariant
  <1>3. b \in BOOLEAN
    BY <1>2 DEF ImageRow
  <1>4. /\ pc[h] = "idle" /\ call' = [call EXCEPT ![h] = c]
        /\ pc' = [pc EXCEPT ![h] = p] /\ row' = row /\ stored' = stored
        /\ mishap' = mishap /\ raced' \in {raced, raced \cup {r}}
    BY <1>1 DEF StartOn, Start
  <1> HIDE DEF b
  <1>5. /\ c \in Call /\ c.op \in {"remove", "setPrimary"} /\ c.op = op
        /\ NamesIn(c.files) = {} /\ c.todo = {} /\ c.image = i
    BY <1>3 DEF Call, NamesIn
  <1> HIDE DEF c
  <1>6. /\ row' \in [Images -> ImageRow \cup {NoRow}] /\ stored' \subseteq Images
        /\ raced' \subseteq Rooms /\ mishap' \in BOOLEAN /\ c # NoCall
        /\ call[h] = NoCall
    BY <1>4, <1>5, ImageAssumption DEF FilesInvariant, TypeOK
  <1>7. /\ TypeOK' /\ call'[h] = c /\ pc'[h] = p
        /\ \A g \in Handlers : g # h => call'[g] = call[g] /\ pc'[g] = pc[g]
    BY <1>4, <1>5, <1>6, TypeStep DEF FilesInvariant
  <1>8. /\ Uploads(h)' = {} /\ InHand(h) = {}
        /\ NoBrokenImage' /\ \A j \in Images : Exists(j)' <=> Exists(j)
    BY <1>4, <1>5, <1>6, <1>7
       DEF Uploads, InHand, FilesInvariant, NoBrokenImage, ReadLocalFile, Exists
  <1>9. RequestIsSound(h)'
    BY <1>1, <1>5, <1>7, <1>8 DEF RequestIsSound
  <1>10. mishap' \/ (~mishap /\ \A j \in stored' :
          \/ Exists(j)' \/ j \in InHand(h)'
          \/ j \in stored /\ ~Exists(j) /\ j \notin InHand(h))
    BY <1>4, <1>6, <1>8
  <1> QED
    BY <1>2, <1>4, <1>5, <1>7, <1>8, <1>9, <1>10, StepKeepsFiles

LEMMA StartAddStep ==
  ASSUME FilesInvariant, NEW h \in Handlers, NEW r \in Rooms,
         NEW n \in 1 .. MaxFiles, NEW files \in [1 .. n -> Images],
         StartAdd(h, r, files)
  PROVE  FilesInvariant'
  <1> DEFINE new == NamesIn(files)
             c == [op |-> "add", room |-> r, files |-> files, todo |-> new,
                   count |-> 0, primary |-> FALSE, image |-> NoImage]
  <1>1. /\ pc[h] = "idle" /\ call' = [call EXCEPT ![h] = c]
        /\ pc' = [pc EXCEPT ![h] = "upload"] /\ row' = row /\ stored' = stored
        /\ mishap' = mishap /\ raced' \in {raced, raced \cup {r}}
    BY DEF StartAdd, Start
  <1>2. files \in Seq(Images) /\ new \subseteq Images
    <2>1. n \in Nat
      BY ImageAssumption
    <2> QED
      BY <2>1 DEF NamesIn
  <1>3. \A i \in new : Fresh(i)
    BY DEF StartAdd, NamesIn
  <1>4. new = NamesIn(c.files)
    OBVIOUS
  <1> HIDE DEF new
  <1>5. /\ c \in Call /\ c.op = "add" /\ c.todo = new /\ c.image = NoImage
    BY <1>2 DEF Call
  <1> HIDE DEF c
  <1>6. /\ row' \in [Images -> ImageRow \cup {NoRow}] /\ stored' \subseteq Images
        /\ raced' \subseteq Rooms /\ mishap' \in BOOLEAN /\ c # NoCall
        /\ call[h] = NoCall
    BY <1>1, <1>5, ImageAssumption DEF FilesInvariant, TypeOK
  <1>7. /\ TypeOK' /\ call'[h] = c /\ pc'[h] = "upload"
        /\ \A g \in Handlers : g # h => call'[g] = call[g] /\ pc'[g] = pc[g]
    BY <1>1, <1>5, <1>6, TypeStep DEF FilesInvariant
  <1>8. Uploads(h)' = new /\ InHand(h) = {} /\ \A i \in Images : Exists(i)' <=> Exists(i)
    BY <1>1, <1>4, <1>6, <1>7 DEF Uploads, InHand, Exists
  <1>9. RequestIsSound(h)'
    <2>1. \A i \in new : ~Exists(i)'
      BY <1>2, <1>3, <1>8 DEF Fresh
    <2> QED
      BY <1>5, <1>7, <1>8, <2>1 DEF RequestIsSound, StatementsOf
  <1>10. ASSUME NEW g \in Handlers, g # h
         PROVE  /\ RequestIsSound(g)' /\ InHand(g)' = InHand(g)
                /\ Uploads(g)' = Uploads(g)
    BY <1>1, <1>7, <1>8, <1>10, OthersSound
  <1>11. NoBrokenImage'
    BY <1>1, <1>8 DEF FilesInvariant, NoBrokenImage, ReadLocalFile
  <1>12. NoOrphanFile'
    <2> SUFFICES ASSUME ~mishap', NEW i \in stored', ~Exists(i)'
                 PROVE  \E g \in Handlers : i \in InHand(g)'
      BY DEF NoOrphanFile
    <2>1. PICK g \in Handlers : i \in InHand(g)
      BY <1>1, <1>6, <1>8 DEF FilesInvariant, NoOrphanFile
    <2> QED
      BY <2>1, <1>8, <1>10
  <1>13. ASSUME NEW g \in Handlers, g # h
         PROVE  UploadsApart(g, h)' /\ UploadsApart(h, g)'
    <2>1. call[g] # NoCall =>
            /\ call[g].image \notin new /\ NamesIn(call[g].files) \cap new = {}
      BY <1>3 DEF Fresh
    <2>2. NoImage \notin Uploads(g)
      BY ImageAssumption DEF Uploads, NamesIn, FilesInvariant, TypeOK, Call
    <2>3. Uploads(g) \cap new = {}
      BY <2>1 DEF Uploads
    <2> QED
      BY <1>5, <1>7, <1>8, <1>10, <1>13, <2>1, <2>2, <2>3 DEF UploadsApart
  <1>14. \A f, g \in Handlers : f # g => UploadsApart(f, g)'
    <2> SUFFICES ASSUME NEW f \in Handlers, NEW g \in Handlers, f # g, f # h, g # h
                 PROVE  UploadsApart(f, g)'
      BY <1>13
    <2> QED
      BY <1>7, <1>10 DEF FilesInvariant, UploadsApart
  <1> QED
    BY <1>7, <1>9, <1>10, <1>11, <1>12, <1>14 DEF FilesInvariant
-----------------------------------------------------------------------------
\* A step that gives no row a file or takes it away, and moves no request.
LEMMA RowsKept ==
  ASSUME FilesInvariant, UNCHANGED <<stored, pc, call, raced, mishap>>,
         row' \in [Images -> ImageRow \cup {NoRow}],
         \A i \in Images : Exists(i)' <=> Exists(i)
  PROVE  FilesInvariant'
  <1>1. TypeOK'
    BY DEF FilesInvariant, TypeOK
  <1>2. NoBrokenImage' /\ stored \subseteq Images
    BY DEF FilesInvariant, NoBrokenImage, ReadLocalFile, TypeOK
  <1>3. ASSUME NEW h \in Handlers
        PROVE  /\ RequestIsSound(h)' /\ InHand(h)' = InHand(h)
               /\ Uploads(h)' = Uploads(h)
    <2>1. RequestIsSound(h) /\ InHand(h)' = InHand(h) /\ Uploads(h)' = Uploads(h)
      BY DEF FilesInvariant, InHand, Uploads
    <2>2. CASE call[h] = NoCall
      BY <2>1, <2>2 DEF RequestIsSound
    <2>3. CASE call[h] # NoCall
      <3>1. Uploads(h) \subseteq Images
        BY <2>3 DEF Uploads, NamesIn, FilesInvariant, TypeOK, Call
      <3>2. \A i \in Uploads(h)' : ~Exists(i)'
        BY <2>1, <2>3, <3>1 DEF RequestIsSound
      <3>3. pc[h] = "file" => ~Exists(call[h].image)'
        <4> SUFFICES ASSUME pc[h] = "file" PROVE ~Exists(call[h].image)'
          OBVIOUS
        <4>1. PICK i \in Images : i = call[h].image
          BY AtWork
        <4>2. ~Exists(i)'
          BY <2>1, <2>3, <4>1 DEF RequestIsSound
        <4> QED
          BY <4>1, <4>2 DEF Exists
      <3> QED
        BY <2>1, <2>3, <3>2, <3>3 DEF RequestIsSound
    <2> QED
      BY <2>1, <2>2, <2>3
  <1>4. NoOrphanFile'
    BY <1>2, <1>3 DEF FilesInvariant, NoOrphanFile
  <1>5. \A g, h \in Handlers : g # h => UploadsApart(g, h)'
    BY <1>3 DEF FilesInvariant, UploadsApart
  <1> QED
    BY <1>1, <1>2, <1>3, <1>4, <1>5 DEF FilesInvariant

LEMMA ReorderStep ==
  ASSUME FilesInvariant, NEW r \in Rooms, NEW some \in SUBSET Images,
         NEW order \in [some -> Orders], Reorder(r, order)
  PROVE  FilesInvariant'
  <1>1. ASSUME NEW i \in Images
        PROVE  row'[i] \in ImageRow \cup {NoRow} /\ (row'[i] # NoRow <=> Exists(i))
    <2>1. CASE i \in ImagesOf(r) \cap DOMAIN order
      <3>1. Exists(i) /\ order[i] \in Nat
        BY <2>1, ImageAssumption DEF ImagesOf
      <3>2. row'[i] = [row[i] EXCEPT !.sortOrder = order[i]]
        BY <2>1 DEF Reorder
      <3>3. row'[i] \in ImageRow
        BY <3>1, <3>2, RowChanged DEF FilesInvariant
      <3> QED
        BY <3>1, <3>3, ImageAssumption
    <2>2. CASE i \notin ImagesOf(r) \cap DOMAIN order
      BY <2>2 DEF Reorder, FilesInvariant, TypeOK, Exists
    <2> QED
      BY <2>1, <2>2
  <1>2. /\ row' \in [Images -> ImageRow \cup {NoRow}]
        /\ \A i \in Images : Exists(i)' <=> Exists(i)
    <2>1. row' = [i \in Images |-> row'[i]]
      BY DEF Reorder
    <2> QED
      BY <1>1, <2>1 DEF Exists
  <1>3. UNCHANGED <<stored, pc, call, raced, mishap>>
    BY DEF Reorder
  <1> QED
    BY <1>2, <1>3, RowsKept

LEMMA NextKeepsFiles == FilesInvariant /\ [Next]_vars => FilesInvariant'
  <1> SUFFICES ASSUME FilesInvariant, [Next]_vars PROVE FilesInvariant'
    OBVIOUS
  <1>1. ASSUME NEW h \in Handlers, Begin(h) PROVE FilesInvariant'
    BY <1>1, StartAddStep, StartOnStep DEF Begin
  <1>2. ASSUME NEW h \in Handlers, Proceed(h) PROVE FilesInvariant'
    <2>1. ASSUME NEW i \in Images, StoreFile(h, i) \/ FindNext(h, i)
          PROVE  FilesInvariant'
      BY <2>1, StoreFileStep, FindNextStep
    <2>2. ASSUME NEW i \in Images, NEW others \in SUBSET Images,
                 UploadFails(h, i, others)
          PROVE  FilesInvariant'
      BY <2>2, UploadFailsStep
    <2> QED
      BY <1>2, <2>1, <2>2, CountImagesStep, CountPrimariesStep, InsertRowsStep,
         DeleteRowStep, ImageGoneStep, FileStep, FindNoneStep, PromoteStep,
         SwapPrimaryStep DEF Proceed
  <1>3. ASSUME NEW h \in Handlers, Fail(h) PROVE FilesInvariant'
    BY <1>3, FailStep
  <1>4. ASSUME NEW r \in Rooms, NEW some \in SUBSET Images,
               NEW order \in [some -> Orders], Reorder(r, order)
        PROVE  FilesInvariant'
    BY <1>4, ReorderStep
  <1>5. CASE UNCHANGED vars
    <2>1. row' = row /\ UNCHANGED <<stored, pc, call, raced, mishap>>
      BY <1>5 DEF vars
    <2>2. row' \in [Images -> ImageRow \cup {NoRow}]
      BY <2>1 DEF FilesInvariant, TypeOK
    <2>3. \A i \in Images : Exists(i)' <=> Exists(i)
      BY <2>1 DEF Exists
    <2> QED
      BY <2>1, <2>2, <2>3, RowsKept
  <1> QED
    BY <1>1, <1>2, <1>3, <1>4, <1>5 DEF Next

-----------------------------------------------------------------------------
\* The inductive invariant holds in every state that can be reached.
THEOREM FilesInvariance == Spec => []FilesInvariant
  BY InitFiles, NextKeepsFiles, PTL DEF Spec

\* The tables, the storage and the requests of the images keep their types.
THEOREM ImagesTyped == Spec => []TypeOK
  <1>1. FilesInvariant => TypeOK
    BY DEF FilesInvariant
  <1> QED
    BY <1>1, FilesInvariance, PTL

\* The file of every image that a room shows is in the storage, whatever uploads
\* and removals overlap and wherever one of them fails.
THEOREM NoneBroken == Spec => []NoBrokenImage
  <1>1. FilesInvariant => NoBrokenImage
    BY DEF FilesInvariant
  <1> QED
    BY <1>1, FilesInvariance, PTL

\* As long as no storage call and no request fails, every stored file has a row
\* or a request that will name or delete it.
THEOREM NoneForgotten == Spec => []NoOrphanFile
  <1>1. FilesInvariant => NoOrphanFile
    BY DEF FilesInvariant
  <1> QED
    BY <1>1, FilesInvariance, PTL
=============================================================================
