--------------------------- MODULE PrimaryProofs ---------------------------
(***************************************************************************)
(* Proofs about the primary images of RoomImages, for any rooms, images    *)
(* and handlers: whatever a request finds when nobody overlaps it, it      *)
(* leaves its room with one primary image.                                 *)
(***************************************************************************)
EXTENDS RoomImagesProofs

LEMMA InitPrimary == Init => PrimaryInvariant
  BY DEF Init, PrimaryInvariant, RequestFitsRoom, RoomIsSound, HasItsPrimary,
         ImagesOf, Serving, Exists

\* A room none of whose rows is written, added or deleted.
LEMMA SameRoom ==
  ASSUME NEW r \in Rooms,
         \A i \in Images :
           \/ row'[i] = row[i]
           \/ i \notin ImagesOf(r) /\ i \notin ImagesOf(r)'
  PROVE  /\ ImagesOf(r)' = ImagesOf(r) /\ Primaries(r)' = Primaries(r)
         /\ HasItsPrimary(r)' <=> HasItsPrimary(r)
         /\ \A i \in ImagesOf(r) : row'[i] = row[i]
  <1>1. ImagesOf(r)' = ImagesOf(r) /\ \A i \in ImagesOf(r) : row'[i] = row[i]
    BY DEF ImagesOf, Exists
  <1>2. Primaries(r)' = Primaries(r)
    BY <1>1 DEF Primaries
  <1> QED
    BY <1>1, <1>2 DEF HasItsPrimary

\* A request that takes no step, in such a room, finds what it found before.
LEMMA SameFinding ==
  ASSUME NEW g \in Handlers, call'[g] = call[g], pc'[g] = pc[g],
         call[g].room \in Rooms, FindsRoomInOrder(g),
         \A i \in Images :
           \/ row'[i] = row[i]
           \/ i \notin ImagesOf(call[g].room) /\ i \notin ImagesOf(call[g].room)'
  PROVE  FindsRoomInOrder(g)'
  <1>a. PICK r \in Rooms : r = call[g].room
    OBVIOUS
  <1>b. PICK i : i = call[g].image
    OBVIOUS
  <1>1. r = call'[g].room /\ i = call'[g].image
    BY <1>a, <1>b
  <1>2. \A j \in Images : \/ row'[j] = row[j]
                          \/ j \notin ImagesOf(r) /\ j \notin ImagesOf(r)'
    BY <1>a, <1>1 DEF ImagesOf, Exists
  <1>3. /\ ImagesOf(r)' = ImagesOf(r) /\ Primaries(r)' = Primaries(r)
        /\ HasItsPrimary(r)' <=> HasItsPrimary(r)
        /\ \A j \in ImagesOf(r) : row'[j] = row[j]
    BY <1>2, SameRoom
  <1>4. /\ IF pc'[g] \in {"file", "next", "promote"} /\ call'[g].primary
           THEN Primaries(r)' = {} ELSE HasItsPrimary(r)'
        /\ pc'[g] = "insert" => (call'[g].primary <=> Primaries(r)' # {})
        /\ pc'[g] \in {"delete", "promote", "swap"} => i \in ImagesOf(r)'
        /\ pc'[g] = "delete" => (call'[g].primary <=> row'[i].isPrimary)
    BY <1>a, <1>b, <1>3 DEF FindsRoomInOrder
  <1> QED
    BY <1>1, <1>4 DEF FindsRoomInOrder, HasItsPrimary, Primaries, ImagesOf, Exists

\* A step of handler h, whose request is about room r before and after it, that
\* writes rows of r only and adds none but those of its uploads.
LEMMA PrimaryStep ==
  ASSUME FilesInvariant, PrimaryInvariant, NEW h \in Handlers, NEW r \in Rooms,
         call[h] # NoCall => call[h].room = r,
         call'[h] # NoCall => call'[h].room = r,
         \A g \in Handlers : g # h => call'[g] = call[g] /\ pc'[g] = pc[g],
         \A i \in Images :
           \/ row'[i] = row[i]
           \/ /\ Exists(i) => row[i].room = r
              /\ Exists(i)' => row'[i].room = r /\ (Exists(i) \/ i \in Uploads(h)),
         raced \subseteq raced' \cup {r},
         RequestFitsRoom(h)', r \notin raced' => RoomIsSound(r)'
  PROVE  PrimaryInvariant'
  <1>1. ASSUME NEW g \in Handlers, g # h PROVE RequestFitsRoom(g)'
    <2>1. RequestFitsRoom(g) /\ call'[g] = call[g] /\ pc'[g] = pc[g]
      BY <1>1 DEF PrimaryInvariant
    <2> SUFFICES ASSUME call[g] # NoCall, call[g].op # "add", Exists(call[g].image)'
                 PROVE  row'[call[g].image].room = call[g].room
      BY <2>1 DEF RequestFitsRoom, Exists
    <2>2. PICK i \in Images : i = call[g].image
      BY DEF FilesInvariant, RequestIsSound
    <2>3. i \notin Uploads(h)
      BY <1>1, <2>2 DEF FilesInvariant, UploadsApart
    <2>4. Exists(i)'
      BY <2>1, <2>2 DEF Exists
    <2>5. Exists(i) => row[i].room = call[g].room
      BY <2>1, <2>2 DEF RequestFitsRoom
    <2> QED
      BY <2>2, <2>3, <2>4, <2>5 DEF Exists
  <1>2. ASSUME NEW q \in Rooms \ raced', q # r PROVE RoomIsSound(q)'
    <2>1. RoomIsSound(q)
      BY <1>2 DEF PrimaryInvariant
    <2>2. \A i \in Images : \/ row'[i] = row[i]
                            \/ i \notin ImagesOf(q) /\ i \notin ImagesOf(q)'
      BY <1>2 DEF ImagesOf, Exists
    <2>3. Serving(q)' = Serving(q)
      BY <1>2 DEF Serving
    <2>4. HasItsPrimary(q)' <=> HasItsPrimary(q)
      BY <2>2, SameRoom
    <2>5. ASSUME NEW g \in Serving(q) PROVE FindsRoomInOrder(g)'
      <3>1. /\ g \in Handlers /\ call'[g] = call[g] /\ pc'[g] = pc[g]
            /\ call[g].room = q /\ FindsRoomInOrder(g)
        BY <1>2, <2>1 DEF Serving, RoomIsSound
      <3>2. \A i \in Images :
              \/ row'[i] = row[i]
              \/ i \notin ImagesOf(call[g].room) /\ i \notin ImagesOf(call[g].room)'
        BY <2>2, <3>1 DEF ImagesOf, Exists
      <3> QED
        BY <3>1, <3>2, SameFinding
    <2> QED
      BY <2>1, <2>3, <2>4, <2>5 DEF RoomIsSound
  <1> QED
    BY <1>1, <1>2 DEF PrimaryInvariant

\* A step that ends a request which, if nobody overlapped it, leaves its room
\* with a primary image or gives the room up.
LEMMA PrimaryEnd ==
  ASSUME FilesInvariant, PrimaryInvariant, NEW h \in Handlers, pc[h] # "idle", End(h),
         NEW r, r = call[h].room,
         \A i \in Images :
           \/ row'[i] = row[i]
           \/ /\ Exists(i) => row[i].room = r
              /\ Exists(i)' => row'[i].room = r /\ (Exists(i) \/ i \in Uploads(h)),
         raced \subseteq raced',
         r \notin raced' /\ Serving(r) = {h} /\ FindsRoomInOrder(h) => HasItsPrimary(r)'
  PROVE  PrimaryInvariant'
  <1>1. /\ call[h] # NoCall /\ call'[h] = NoCall /\ r \in Rooms
        /\ \A g \in Handlers : g # h => call'[g] = call[g] /\ pc'[g] = pc[g]
    BY DEF End, FilesInvariant, TypeOK, Call
  <1>2. RequestFitsRoom(h)'
    BY <1>1 DEF RequestFitsRoom
  <1>3. ASSUME r \notin raced' PROVE RoomIsSound(r)'
    <2>1. RoomIsSound(r) /\ h \in Serving(r)
      BY <1>1, <1>3 DEF PrimaryInvariant, Serving
    <2>2. Serving(r) = {h} /\ FindsRoomInOrder(h)
      BY <2>1 DEF RoomIsSound
    <2>3. Serving(r)' = {}
      BY <1>1, <2>2 DEF Serving
    <2> QED
      BY <1>3, <2>2, <2>3 DEF RoomIsSound
  <1> QED
    BY <1>1, <1>2, <1>3, PrimaryStep

\* A step to another statement of a request.
LEMMA PrimaryMove ==
  ASSUME FilesInvariant, PrimaryInvariant, NEW h \in Handlers, pc[h] # "idle",
         NEW r, r = call[h].room, call'[h] # NoCall, call'[h].room = r,
         \A g \in Handlers : g # h => call'[g] = call[g] /\ pc'[g] = pc[g],
         \A i \in Images :
           row'[i] = row[i] \/ (row[i].room = r /\ ~Exists(i)'),
         raced' = raced, RequestFitsRoom(h)',
         r \notin raced /\ FindsRoomInOrder(h) => FindsRoomInOrder(h)'
  PROVE  PrimaryInvariant'
  <1>1. call[h] # NoCall /\ r \in Rooms
    BY DEF FilesInvariant, TypeOK, Call
  <1>2. ASSUME r \notin raced' PROVE RoomIsSound(r)'
    <2>1. RoomIsSound(r) /\ h \in Serving(r)
      BY <1>1, <1>2 DEF PrimaryInvariant, Serving
    <2>2. Serving(r)' = Serving(r)
      BY <1>1 DEF Serving
    <2>3. Serving(r) = {h} /\ FindsRoomInOrder(h)'
      BY <1>2, <2>1 DEF RoomIsSound
    <2> QED
      BY <2>2, <2>3 DEF RoomIsSound
  <1> QED
    BY <1>1, <1>2, PrimaryStep

\* Such a step that writes no row, and changes nothing that the request has
\* read or is about.
LEMMA PrimaryQuietMove ==
  ASSUME FilesInvariant, PrimaryInvariant, NEW h \in Handlers, pc[h] # "idle",
         call[h] \in Call, NEW c \in Call, c # NoCall,
         c.op = call[h].op, c.room = call[h].room, c.files = call[h].files,
         NEW p, call' = [call EXCEPT ![h] = c], pc' = [pc EXCEPT ![h] = p],
         row' = row, raced' = raced,
         c.op # "add" /\ c.image # call[h].image => c.image \in ImagesOf(c.room),
         p \in {"next", "promote"} => c.primary,
         c.room \notin raced /\ FindsRoomInOrder(h) =>
           /\ IF p \in {"file", "next", "promote"} /\ c.primary
              THEN Primaries(c.room) = {} ELSE HasItsPrimary(c.room)
           /\ p = "insert" => (c.primary <=> Primaries(c.room) # {})
           /\ p \in {"delete", "promote", "swap"} => c.image \in ImagesOf(c.room)
           /\ p # "delete"
  PROVE  PrimaryInvariant'
  <1>1. /\ call'[h] = c /\ pc'[h] = p /\ call[h] # NoCall /\ c.room \in Rooms
        /\ \A g \in Handlers : g # h => call'[g] = call[g] /\ pc'[g] = pc[g]
    BY DEF FilesInvariant, TypeOK, Call
  <1>2. \A r \in Rooms : /\ ImagesOf(r)' = ImagesOf(r) /\ Primaries(r)' = Primaries(r)
                         /\ HasItsPrimary(r)' <=> HasItsPrimary(r)
    BY SameRoom
  <1>3. RequestFitsRoom(h)'
    <2>1. RequestFitsRoom(h)
      BY DEF PrimaryInvariant
    <2>2. c.op # "add" /\ Exists(c.image) => row[c.image].room = c.room
      BY <1>1, <2>1 DEF RequestFitsRoom, ImagesOf
    <2>3. c.op # "add" /\ Exists(c.image)' => row'[c.image].room = c.room
      BY <2>2 DEF Exists
    <2> QED
      BY <1>1, <2>1, <2>3 DEF RequestFitsRoom, Exists
  <1>4. ASSUME c.room \notin raced, FindsRoomInOrder(h) PROVE FindsRoomInOrder(h)'
    <2>a. PICK r \in Rooms : r = c.room
      BY <1>1
    <2>1. /\ IF p \in {"file", "next", "promote"} /\ c.primary
             THEN Primaries(r)' = {} ELSE HasItsPrimary(r)'
          /\ p = "insert" => (c.primary <=> Primaries(r)' # {})
          /\ p \in {"delete", "promote", "swap"} => c.image \in ImagesOf(r)'
          /\ p # "delete"
      BY <1>2, <1>4, <2>a
    <2> QED
      BY <1>1, <2>a, <2>1
      DEF FindsRoomInOrder, HasItsPrimary, Primaries, ImagesOf, Exists
  <1> QED
    BY <1>1, <1>3, <1>4, PrimaryMove

-----------------------------------------------------------------------------
\* The requests that go on.
LEMMA StoreFilePrimary ==
  ASSUME FilesInvariant, PrimaryInvariant, NEW h \in Handlers, NEW i \in Images,
         StoreFile(h, i)
  PROVE  PrimaryInvariant'
  <1> DEFINE c == [call[h] EXCEPT !.todo = @ \ {i}]
  <1>1. call[h] \in Call /\ call[h] # NoCall /\ pc[h] = "upload"
    BY AtWork DEF StoreFile
  <1>2. /\ c \in Call /\ c.op = call[h].op /\ c.room = call[h].room
        /\ c.files = call[h].files /\ c.image = call[h].image
    BY <1>1 DEF Call
  <1>3. call' = [call EXCEPT ![h] = c] /\ row' = row /\ raced' = raced
    BY DEF StoreFile
  <1> HIDE DEF c
  <1>4. pc' = [pc EXCEPT ![h] = "upload"] /\ c # NoCall
    BY <1>1, <1>2, ImageAssumption DEF StoreFile, FilesInvariant, TypeOK
  <1>5. FindsRoomInOrder(h) => HasItsPrimary(c.room)
    BY <1>1, <1>2 DEF FindsRoomInOrder
  <1> QED
    BY <1>1, <1>2, <1>3, <1>4, <1>5, PrimaryQuietMove

LEMMA CountImagesPrimary ==
  ASSUME FilesInvariant, PrimaryInvariant, NEW h \in Handlers, CountImages(h)
  PROVE  PrimaryInvariant'
  <1> DEFINE n == Cardinality(ImagesOf(call[h].room))
             c == [call[h] EXCEPT !.count = n]
  <1>1. call[h] \in Call /\ call[h] # NoCall /\ pc[h] = "upload"
    BY AtWork DEF CountImages, Step
  <1>2. n \in Nat
    <2>1. ImagesOf(call[h].room) \subseteq Images
      BY DEF ImagesOf
    <2> QED
      BY <2>1, FiniteImages, FS_Subset, FS_CardinalityType
  <1>3. /\ call' = [call EXCEPT ![h] = c] /\ pc' = [pc EXCEPT ![h] = "primary"]
        /\ row' = row /\ raced' = raced
    BY DEF CountImages, Step
  <1> HIDE DEF n
  <1>4. /\ c \in Call /\ c.op = call[h].op /\ c.room = call[h].room
        /\ c.files = call[h].files /\ c.image = call[h].image
    BY <1>1, <1>2 DEF Call
  <1> HIDE DEF c
  <1>5. FindsRoomInOrder(h) => HasItsPrimary(c.room)
    BY <1>1, <1>4 DEF FindsRoomInOrder
  <1>6. c # NoCall
    BY <1>4, ImageAssumption
  <1> QED
    BY <1>1, <1>3, <1>4, <1>5, <1>6, PrimaryQuietMove

LEMMA CountPrimariesPrimary ==
  ASSUME FilesInvariant, PrimaryInvariant, NEW h \in Handlers, CountPrimaries(h)
  PROVE  PrimaryInvariant'
  <1> DEFINE b == Primaries(call[h].room) # {}
             c == [call[h] EXCEPT !.primary = b]
  <1>1. call[h] \in Call /\ call[h] # NoCall /\ pc[h] = "primary"
    BY AtWork DEF CountPrimaries, Step
  <1>2. b \in BOOLEAN /\ (b <=> Primaries(call[h].room) # {})
    OBVIOUS
  <1>3. /\ call' = [call EXCEPT ![h] = c] /\ pc' = [pc EXCEPT ![h] = "insert"]
        /\ row' = row /\ raced' = raced
    BY DEF CountPrimaries, Step
  <1> HIDE DEF b
  <1>4. /\ c \in Call /\ c.op = call[h].op /\ c.room = call[h].room
        /\ c.files = call[h].files /\ c.image = call[h].image /\ c.primary = b
    BY <1>1, <1>2 DEF Call
  <1> HIDE DEF c
  <1>5. FindsRoomInOrder(h) => HasItsPrimary(c.room)
    BY <1>1, <1>4 DEF FindsRoomInOrder
  <1>6. c # NoCall
    BY <1>4, ImageAssumption
  <1>7. c.primary <=> Primaries(c.room) # {}
    BY <1>2, <1>4
  <1> QED
    BY <1>1, <1>3, <1>4, <1>5, <1>6, <1>7, PrimaryQuietMove

LEMMA FindNextPrimary ==
  ASSUME FilesInvariant, PrimaryInvariant, NEW h \in Handlers, NEW i \in Images,
         FindNext(h, i)
  PROVE  PrimaryInvariant'
  <1> DEFINE c == [call[h] EXCEPT !.image = i]
  <1>1. call[h] \in Call /\ call[h] # NoCall /\ pc[h] = "next"
    BY AtWork DEF FindNext, Step
  <1>2. /\ call' = [call EXCEPT ![h] = c] /\ pc' = [pc EXCEPT ![h] = "promote"]
        /\ row' = row /\ raced' = raced /\ i \in ImagesOf(call[h].room)
    BY DEF FindNext, Step
  <1>3. /\ c \in Call /\ c.op = call[h].op /\ c.room = call[h].room
        /\ c.files = call[h].files /\ c.primary = call[h].primary /\ c.image = i
    BY <1>1 DEF Call
  <1> HIDE DEF c
  <1>4. call[h].primary
    BY <1>1 DEF PrimaryInvariant, RequestFitsRoom
  <1>5. FindsRoomInOrder(h) => Primaries(c.room) = {}
    BY <1>1, <1>3, <1>4 DEF FindsRoomInOrder
  <1>6. c # NoCall
    BY <1>3, ImageAssumption
  <1> QED
    BY <1>1, <1>2, <1>3, <1>4, <1>5, <1>6, PrimaryQuietMove

LEMMA FilePrimary ==
  ASSUME FilesInvariant, PrimaryInvariant, NEW h \in Handlers,
         DeleteFile(h) \/ DeleteFileFails(h)
  PROVE  PrimaryInvariant'
  <1> DEFINE c == call[h]
  <1>1. c \in Call /\ c # NoCall /\ pc[h] = "file"
    BY AtWork DEF DeleteFile, DeleteFileFails
  <1>2. row' = row /\ raced' = raced
    BY DEF DeleteFile, DeleteFileFails
  <1>3. CASE c.primary
    <2>1. /\ pc' = [pc EXCEPT ![h] = "next"] /\ call' = [call EXCEPT ![h] = c]
      BY <1>3 DEF DeleteFile, DeleteFileFails, AfterFile, FilesInvariant, TypeOK
    <2>2. FindsRoomInOrder(h) => Primaries(c.room) = {}
      BY <1>1, <1>3 DEF FindsRoomInOrder
    <2> HIDE DEF c
    <2>3. c = call[h]
      BY DEF c
    <2> QED
      BY <1>1, <1>2, <1>3, <2>1, <2>2, <2>3, PrimaryQuietMove
  <1>4. CASE ~c.primary
    <2>1. End(h)
      BY <1>4 DEF DeleteFile, DeleteFileFails, AfterFile
    <2>a. PICK r : r = c.room
      OBVIOUS
    <2>2. FindsRoomInOrder(h) => HasItsPrimary(r)
      BY <1>1, <1>4, <2>a DEF FindsRoomInOrder
    <2>3. HasItsPrimary(r) => HasItsPrimary(r)'
      BY <1>2 DEF HasItsPrimary, Primaries, ImagesOf, Exists
    <2> QED
      BY <1>1, <1>2, <2>1, <2>2, <2>3, <2>a, PrimaryEnd
  <1> QED
    BY <1>3, <1>4

LEMMA DeleteRowPrimary ==
  ASSUME FilesInvariant, PrimaryInvariant, NEW h \in Handlers, DeleteRow(h)
  PROVE  PrimaryInvariant'
  <1>1. /\ call[h] \in Call /\ call[h] # NoCall /\ pc[h] = "delete"
        /\ call[h].image \in Images /\ call[h].op # "add"
    BY AtWork DEF DeleteRow, Step
  <1>a. PICK i \in Images : i = call[h].image
    BY <1>1
  <1>b. PICK r \in Rooms : r = call[h].room
    BY <1>1 DEF Call
  <1>2. /\ row' = [row EXCEPT ![i] = NoRow] /\ call' = call /\ raced' = raced
        /\ Exists(i)
    BY <1>a DEF DeleteRow
  <1>3. /\ pc'[h] = "file" /\ \A g \in Handlers : g # h => pc'[g] = pc[g]
        /\ row'[i] = NoRow /\ \A j \in Images : j # i => row'[j] = row[j]
    BY <1>2 DEF DeleteRow, Step, FilesInvariant, TypeOK
  <1>4. row[i].room = r
    BY <1>1, <1>2, <1>a, <1>b DEF PrimaryInvariant, RequestFitsRoom
  <1>5. RequestFitsRoom(h)'
    <2>1. row'[call'[h].image] = NoRow
      BY <1>2, <1>3, <1>a
    <2> QED
      BY <1>2, <1>3, <2>1 DEF PrimaryInvariant, RequestFitsRoom, Exists
  <1>6. ASSUME FindsRoomInOrder(h) PROVE FindsRoomInOrder(h)'
    <2>1. /\ HasItsPrimary(r) /\ i \in ImagesOf(r)
          /\ call[h].primary <=> row[i].isPrimary
      BY <1>1, <1>6, <1>a, <1>b DEF FindsRoomInOrder
    <2>2. ImagesOf(r)' = ImagesOf(r) \ {i}
      BY <1>3 DEF ImagesOf, Exists
    <2>3. Primaries(r)' = Primaries(r) \ {i}
      <3>1. ImagesOf(r) \subseteq Images /\ \A j \in ImagesOf(r)' : row'[j] = row[j]
        BY <1>3, <2>2 DEF ImagesOf
      <3>2. Primaries(r)' = {j \in ImagesOf(r)' : row'[j].isPrimary}
        BY DEF Primaries
      <3> QED
        BY <2>2, <3>1, <3>2 DEF Primaries
    <2>4. PICK j \in Images : Primaries(r) = {j}
      BY <2>1 DEF HasItsPrimary
    <2>5. IF call[h].primary THEN Primaries(r)' = {} ELSE HasItsPrimary(r)'
      <3>1. CASE call[h].primary
        <4>1. i \in Primaries(r)
          BY <2>1, <3>1 DEF Primaries
        <4> QED
          BY <2>3, <2>4, <3>1, <4>1
      <3>2. CASE ~call[h].primary
        <4>1. i \notin Primaries(r)
          BY <2>1, <3>2 DEF Primaries
        <4>2. Primaries(r)' = {j}
          BY <2>3, <2>4, <4>1
        <4> QED
          BY <3>2, <4>2 DEF HasItsPrimary
      <3> QED
        BY <3>1, <3>2
    <2> QED
      BY <1>2, <1>3, <1>b, <2>5
      DEF FindsRoomInOrder, HasItsPrimary, Primaries, ImagesOf, Exists
  <1>7. \A j \in Images : row'[j] = row[j] \/ (row[j].room = r /\ ~Exists(j)')
    BY <1>3, <1>4 DEF Exists
  <1> QED
    BY <1>1, <1>2, <1>3, <1>5, <1>6, <1>7, <1>b, PrimaryMove

-----------------------------------------------------------------------------
\* The requests that end.
LEMMA QuietEndPrimary ==
  ASSUME FilesInvariant, PrimaryInvariant, NEW h \in Handlers,
         \/ ImageGone(h) \/ FindNone(h) \/ Fail(h)
         \/ \E i \in Images, others \in SUBSET Images : UploadFails(h, i, others)
  PROVE  PrimaryInvariant'
  <1>1. pc[h] # "idle" /\ End(h) /\ row' = row /\ raced \subseteq raced'
    BY DEF ImageGone, FindNone, Fail, UploadFails
  <1>2. call[h] \in Call /\ call[h] # NoCall
    BY <1>1, AtWork
  <1>a. PICK r \in Rooms : r = call[h].room
    BY <1>2 DEF Call
  <1>3. r \notin raced' /\ FindsRoomInOrder(h) => HasItsPrimary(r)
    <2>1. CASE ImageGone(h)
      BY <2>1, <1>a DEF ImageGone, FindsRoomInOrder, ImagesOf
    <2>2. CASE FindNone(h)
      BY <2>2, <1>a DEF FindNone, HasItsPrimary
    <2>3. CASE Fail(h)
      BY <2>3, <1>a DEF Fail, FindsRoomInOrder
    <2>4. CASE \E i \in Images, others \in SUBSET Images : UploadFails(h, i, others)
      BY <2>4, <1>a DEF UploadFails, FindsRoomInOrder
    <2> QED
      BY <2>1, <2>2, <2>3, <2>4
  <1>4. HasItsPrimary(r) => HasItsPrimary(r)'
    BY <1>1 DEF HasItsPrimary, Primaries, ImagesOf, Exists
  <1> QED
    BY <1>1, <1>3, <1>4, <1>a, PrimaryEnd

\* A field isPrimary that is written, of a row that exists.
LEMMA RowPromoted ==
  ASSUME TypeOK, NEW i \in Images, Exists(i), NEW b \in BOOLEAN,
         NEW new, new = [row[i] EXCEPT !.isPrimary = b]
  PROVE  /\ new # NoRow /\ new.room = row[i].room
         /\ new.isPrimary <=> b
  <1>1. row[i] \in ImageRow /\ new \in ImageRow
    BY RowChanged
  <1>2. new.room = row[i].room
    BY <1>1, Zenon DEF ImageRow
  <1>3. new.isPrimary = b
    BY <1>1, Zenon DEF ImageRow
  <1> QED
    BY <1>1, <1>2, <1>3, ImageAssumption

LEMMA PromotePrimary ==
  ASSUME FilesInvariant, PrimaryInvariant, NEW h \in Handlers, Promote(h)
  PROVE  PrimaryInvariant'
  <1>1. /\ call[h] \in Call /\ call[h] # NoCall /\ pc[h] = "promote"
        /\ call[h].image \in Images /\ call[h].op # "add"
    BY AtWork DEF Promote
  <1>a. PICK i \in Images : i = call[h].image
    BY <1>1
  <1>b. PICK r \in Rooms : r = call[h].room
    BY <1>1 DEF Call
  <1>2. Exists(i) /\ row' = [row EXCEPT ![i].isPrimary = TRUE]
    BY <1>a, Zenon DEF Promote
  <1>c. PICK new : new = [row[i] EXCEPT !.isPrimary = TRUE]
    OBVIOUS
  <1>3. row' = [row EXCEPT ![i] = new]
    BY <1>2, <1>c
  <1>4. new # NoRow /\ new.room = row[i].room /\ new.isPrimary
    BY <1>2, <1>c, RowPromoted DEF FilesInvariant
  <1>5. row'[i] = new /\ \A j \in Images : j # i => row'[j] = row[j]
    BY <1>3 DEF FilesInvariant, TypeOK
  <1>6. row[i].room = r /\ call[h].primary
    BY <1>1, <1>2, <1>a, <1>b DEF PrimaryInvariant, RequestFitsRoom
  <1>7. FindsRoomInOrder(h) => HasItsPrimary(r)'
    <2> SUFFICES ASSUME FindsRoomInOrder(h) PROVE HasItsPrimary(r)'
      OBVIOUS
    <2>1. Primaries(r) = {}
      BY <1>1, <1>6, <1>b DEF FindsRoomInOrder
    <2>2. i \in Primaries(r)'
      BY <1>4, <1>5, <1>6 DEF Primaries, ImagesOf, Exists
    <2>3. \A j \in Primaries(r)' : j = i
      BY <1>5, <2>1 DEF Primaries, ImagesOf, Exists
    <2>4. Primaries(r)' = {i}
      BY <2>2, <2>3
    <2> QED
      BY <2>4 DEF HasItsPrimary
  <1>8. \A j \in Images :
          \/ row'[j] = row[j]
          \/ /\ Exists(j) => row[j].room = r
             /\ Exists(j)' => row'[j].room = r /\ (Exists(j) \/ j \in Uploads(h))
    BY <1>2, <1>4, <1>5, <1>6
  <1>9. End(h) /\ raced' = raced
    BY DEF Promote
  <1> QED
    BY <1>1, <1>7, <1>8, <1>9, <1>b, PrimaryEnd

\* What createMany writes: rows of the request's room, the first of which is
\* primary if the room had no primary image.
LEMMA InsertedRows ==
  ASSUME FilesInvariant, PrimaryInvariant, NEW h \in Handlers, InsertRows(h),
         NEW c, c = call[h]
  PROVE  /\ c \in Call /\ c # NoCall /\ Uploads(h) \subseteq Images
         /\ \A i \in Uploads(h) :
              /\ ~Exists(i) /\ row'[i] # NoRow /\ row'[i].room = c.room
              /\ row'[i].isPrimary <=> ~c.primary /\ i = c.files[1]
         /\ \A i \in Images \ Uploads(h) : row'[i] = row[i]
         /\ c.files[1] \in Uploads(h)
  <1>1. /\ c \in Call /\ c # NoCall /\ c.op = "add"
        /\ Uploads(h) = NamesIn(c.files) /\ Uploads(h) \subseteq Images
        /\ \A i \in Uploads(h) : ~Exists(i)
    BY AtWork DEF InsertRows, FilesInvariant, RequestIsSound
  <1>2. /\ 1 \in DOMAIN c.files
        /\ \A k, l \in DOMAIN c.files : k # l => c.files[k] # c.files[l]
    BY <1>1 DEF PrimaryInvariant, RequestFitsRoom
  <1> DEFINE place(i) == CHOOSE k \in DOMAIN c.files : c.files[k] = i
  <1>3. ASSUME NEW i \in Images \ Uploads(h) PROVE row'[i] = row[i]
    BY <1>1 DEF InsertRows
  <1>4. ASSUME NEW i \in Uploads(h)
        PROVE  /\ row'[i] # NoRow /\ row'[i].room = c.room
               /\ row'[i].isPrimary <=> ~c.primary /\ i = c.files[1]
    <2>1. place(i) \in DOMAIN c.files /\ c.files[place(i)] = i
      BY <1>1 DEF NamesIn
    <2>2. place(i) = 1 <=> i = c.files[1]
      BY <1>2, <2>1
    <2>3. row'[i] = NewRow(c, place(i))
      BY <1>1 DEF InsertRows
    <2> HIDE DEF place
    <2> DEFINE b == ~c.primary /\ place(i) = 1
               n == c.count + place(i) - 1
    <2>4. b \in BOOLEAN /\ (b <=> ~c.primary /\ i = c.files[1])
      BY <2>2
    <2>5. row'[i] = [room |-> c.room, isPrimary |-> b, sortOrder |-> n]
      BY <2>3 DEF NewRow
    <2>6. n \in Nat
      <3>1. c.count \in Nat /\ place(i) \in Nat \ {0}
        BY <1>1, <2>1 DEF Call
      <3> QED
        BY <3>1
    <2> HIDE DEF b, n
    <2>7. row'[i] \in ImageRow /\ row'[i].room = c.room /\ (row'[i].isPrimary <=> b)
      BY <1>1, <2>4, <2>5, <2>6 DEF ImageRow, Call
    <2> QED
      BY <2>4, <2>7, ImageAssumption
  <1>5. c.files[1] \in Uploads(h)
    BY <1>1, <1>2 DEF NamesIn
  <1> QED
    BY <1>1, <1>3, <1>4, <1>5

LEMMA InsertRowsPrimary ==
  ASSUME FilesInvariant, PrimaryInvariant, NEW h \in Handlers, InsertRows(h)
  PROVE  PrimaryInvariant'
  <1>a. PICK c : c = call[h]
    OBVIOUS
  <1>1. /\ c \in Call /\ c # NoCall /\ Uploads(h) \subseteq Images
        /\ \A i \in Uploads(h) :
             /\ ~Exists(i) /\ row'[i] # NoRow /\ row'[i].room = c.room
             /\ row'[i].isPrimary <=> ~c.primary /\ i = c.files[1]
        /\ \A i \in Images \ Uploads(h) : row'[i] = row[i]
        /\ c.files[1] \in Uploads(h)
    BY <1>a, InsertedRows
  <1>b. PICK r \in Rooms : r = c.room
    BY <1>1 DEF Call
  <1>2. ImagesOf(r)' = ImagesOf(r) \cup Uploads(h)
    BY <1>1, <1>b DEF ImagesOf, Exists
  <1>3. FindsRoomInOrder(h) => HasItsPrimary(r)'
    <2> SUFFICES ASSUME FindsRoomInOrder(h) PROVE HasItsPrimary(r)'
      OBVIOUS
    <2>1. HasItsPrimary(r) /\ (c.primary <=> Primaries(r) # {})
      BY <1>a, <1>b DEF InsertRows, FindsRoomInOrder
    <2>2. \A j \in ImagesOf(r) : row'[j] = row[j] /\ j \in Images
      BY <1>1 DEF ImagesOf
    <2>3. CASE c.primary
      <3>1. PICK j \in Images : Primaries(r) = {j}
        BY <2>1, <2>3 DEF HasItsPrimary, Primaries
      <3>2. \A i \in Uploads(h) : ~row'[i].isPrimary
        BY <1>1, <2>3
      <3>3. Primaries(r)' = {i \in ImagesOf(r)' : row'[i].isPrimary}
        BY DEF Primaries
      <3>4. Primaries(r)' = {j}
        BY <1>2, <2>2, <3>1, <3>2, <3>3 DEF Primaries
      <3> QED
        BY <3>1, <3>4 DEF HasItsPrimary
    <2>4. CASE ~c.primary
      <3>1. ImagesOf(r) = {}
        BY <2>1, <2>4 DEF HasItsPrimary
      <3>2. Primaries(r)' = {c.files[1]}
        <4>1. Primaries(r)' = {i \in Uploads(h) : row'[i].isPrimary}
          BY <1>2, <3>1 DEF Primaries
        <4> QED
          BY <1>1, <2>4, <4>1
      <3> QED
        BY <1>1, <3>2 DEF HasItsPrimary
    <2> QED
      BY <2>3, <2>4
  <1>4. \A i \in Images :
          \/ row'[i] = row[i]
          \/ /\ Exists(i) => row[i].room = r
             /\ Exists(i)' => row'[i].room = r /\ (Exists(i) \/ i \in Uploads(h))
    BY <1>1, <1>b
  <1>5. pc[h] # "idle" /\ End(h) /\ raced' = raced
    BY DEF InsertRows
  <1> QED
    BY <1>3, <1>4, <1>5, <1>a, <1>b, PrimaryEnd

\* setPrimaryImage leaves one primary image whatever it finds.
LEMMA SwapRestoresPrimary ==
  ASSUME FilesInvariant, PrimaryInvariant, NEW h \in Handlers, SwapPrimary(h)
  PROVE  PrimaryInvariant'
  <1>1. /\ call[h] \in Call /\ call[h] # NoCall /\ pc[h] = "swap"
        /\ call[h].image \in Images /\ call[h].op # "add"
    BY AtWork DEF SwapPrimary
  <1>a. PICK i \in Images : i = call[h].image
    BY <1>1
  <1>b. PICK r \in Rooms : r = call[h].room
    BY <1>1 DEF Call
  <1>2. /\ call'[h] = NoCall
        /\ \A g \in Handlers : g # h => call'[g] = call[g] /\ pc'[g] = pc[g]
        /\ raced' = IF Serving(r) = {h} THEN raced \ {r} ELSE raced
    BY <1>b DEF SwapPrimary, End, FilesInvariant, TypeOK
  <1>3. i \in ImagesOf(r)
    BY <1>1, <1>a, <1>b DEF SwapPrimary, PrimaryInvariant, RequestFitsRoom, ImagesOf
  <1>4. ASSUME NEW j \in ImagesOf(r)
        PROVE  /\ row'[j] # NoRow /\ row'[j].room = r
               /\ row'[j].isPrimary <=> j = i
    <2> DEFINE b == j = i
    <2>1. row'[j] = [row[j] EXCEPT !.isPrimary = b]
      BY <1>a, <1>b DEF SwapPrimary, ImagesOf
    <2>2. j \in Images /\ Exists(j) /\ row[j].room = r /\ b \in BOOLEAN
      BY DEF ImagesOf
    <2>3. b <=> j = i
      OBVIOUS
    <2> HIDE DEF b
    <2> QED
      BY <2>1, <2>2, <2>3, RowPromoted DEF FilesInvariant
  <1>5. \A j \in Images \ ImagesOf(r) : row'[j] = row[j]
    BY <1>b DEF SwapPrimary
  <1>6. ImagesOf(r)' = ImagesOf(r)
    BY <1>4, <1>5 DEF ImagesOf, Exists
  <1>7. HasItsPrimary(r)'
    <2>1. Primaries(r)' = {j \in ImagesOf(r) : row'[j].isPrimary}
      BY <1>6 DEF Primaries
    <2>2. Primaries(r)' = {i}
      BY <1>3, <1>4, <2>1
    <2> QED
      BY <2>2 DEF HasItsPrimary
  <1>8. ASSUME r \notin raced' PROVE RoomIsSound(r)'
    <2>1. Serving(r) = {h}
      <3>1. CASE r \in raced
        BY <1>2, <1>8, <3>1
      <3>2. CASE r \notin raced
        BY <1>1, <1>b, <3>2 DEF PrimaryInvariant, RoomIsSound, Serving
      <3> QED
        BY <3>1, <3>2
    <2>2. Serving(r)' = {}
      BY <1>2, <2>1 DEF Serving
    <2> QED
      BY <1>7, <2>2 DEF RoomIsSound
  <1>9. RequestFitsRoom(h)'
    BY <1>2 DEF RequestFitsRoom
  <1>10. \A j \in Images :
           \/ row'[j] = row[j]
           \/ /\ Exists(j) => row[j].room = r
              /\ Exists(j)' => row'[j].room = r /\ (Exists(j) \/ j \in Uploads(h))
    BY <1>4, <1>5 DEF ImagesOf
  <1> QED
    BY <1>1, <1>2, <1>8, <1>9, <1>10, <1>b, PrimaryStep

-----------------------------------------------------------------------------
\* A request that begins: in a room that is not given up it is alone, and finds
\* what the requests before it have left.
LEMMA StartPrimary ==
  ASSUME FilesInvariant, PrimaryInvariant, NEW h \in Handlers, pc[h] = "idle",
         NEW c, c # NoCall, NEW r \in Rooms, c.room = r,
         NEW p \in {"upload", "delete", "swap"},
         call' = [call EXCEPT ![h] = c], pc' = [pc EXCEPT ![h] = p],
         raced' = IF Serving(r) = {} THEN raced ELSE raced \cup {r},
         row' = row,
         c.op = "add" =>
           /\ 1 \in DOMAIN c.files
           /\ \A k, l \in DOMAIN c.files : k # l => c.files[k] # c.files[l],
         p # "upload" =>
           c.image \in ImagesOf(r) /\ (c.primary <=> row[c.image].isPrimary),
         c.op = "add" <=> p = "upload"
  PROVE  PrimaryInvariant'
  <1>1. /\ call[h] = NoCall /\ call'[h] = c /\ pc'[h] = p
        /\ \A g \in Handlers : g # h => call'[g] = call[g] /\ pc'[g] = pc[g]
    BY DEF FilesInvariant, TypeOK
  <1>2. RequestFitsRoom(h)'
    <2>1. c.op # "add" => row[c.image].room = c.room
      BY DEF ImagesOf
    <2>2. c.op # "add" => row'[call'[h].image].room = call'[h].room
      BY <1>1, <2>1
    <2> QED
      BY <1>1, <2>2 DEF RequestFitsRoom
  <1>3. ASSUME r \notin raced' PROVE RoomIsSound(r)'
    <2>1. Serving(r) = {} /\ HasItsPrimary(r)
      BY <1>3 DEF PrimaryInvariant, RoomIsSound
    <2>2. Serving(r)' = {h}
      BY <1>1, <2>1 DEF Serving
    <2>3. FindsRoomInOrder(h)'
      <3>a. PICK i : i = c.image
        OBVIOUS
      <3>1. /\ HasItsPrimary(r)'
            /\ p # "upload" => i \in ImagesOf(r)' /\ (c.primary <=> row'[i].isPrimary)
        BY <2>1, <3>a DEF HasItsPrimary, Primaries, ImagesOf, Exists
      <3> QED
        BY <1>1, <3>a, <3>1
        DEF FindsRoomInOrder, HasItsPrimary, Primaries, ImagesOf, Exists
    <2> QED
      BY <2>2, <2>3 DEF RoomIsSound
  <1> QED
    BY <1>1, <1>2, <1>3, PrimaryStep

LEMMA BeginPrimary ==
  ASSUME FilesInvariant, PrimaryInvariant, NEW h \in Handlers, Begin(h)
  PROVE  PrimaryInvariant'
  <1>1. ASSUME NEW r \in Rooms, NEW n \in 1 .. MaxFiles,
               NEW files \in [1 .. n -> Images], StartAdd(h, r, files)
        PROVE  PrimaryInvariant'
    <2> DEFINE todo == NamesIn(files)
               c == [op |-> "add", room |-> r, files |-> files, todo |-> todo,
                     count |-> 0, primary |-> FALSE, image |-> NoImage]
    <2>1. /\ pc[h] = "idle" /\ call' = [call EXCEPT ![h] = c]
          /\ pc' = [pc EXCEPT ![h] = "upload"] /\ row' = row
          /\ raced' = IF Serving(r) = {} THEN raced ELSE raced \cup {r}
          /\ \A k, l \in DOMAIN files : k # l => files[k] # files[l]
      BY <1>1 DEF StartAdd, Start
    <2>2. files \in Seq(Images) /\ todo \subseteq Images /\ 1 \in DOMAIN files
      <3>1. n \in Nat /\ 1 <= n
        BY ImageAssumption
      <3> QED
        BY <3>1 DEF NamesIn
    <2> HIDE DEF todo
    <2>3. c \in Call /\ c.op = "add" /\ c.room = r /\ c.files = files
      BY <2>2 DEF Call
    <2> HIDE DEF c
    <2> QED
      BY <2>1, <2>2, <2>3, StartPrimary, ImageAssumption
  <1>2. ASSUME NEW r \in Rooms, NEW i \in Images,
               StartRemove(h, i, r) \/ StartSetPrimary(h, i, r)
        PROVE  PrimaryInvariant'
    <2>1. PICK op \in {"remove", "setPrimary"}, p \in {"delete", "swap"} :
            StartOn(h, i, r, op, p)
      BY <1>2 DEF StartRemove, StartSetPrimary
    <2> DEFINE b == row[i].isPrimary
               c == [op |-> op, room |-> r, files |-> <<>>, todo |-> {}, count |-> 0,
                     primary |-> b, image |-> i]
    <2>2. i \in ImagesOf(r) /\ row[i] \in ImageRow
      BY <2>1, RowChanged DEF StartOn, ImagesOf, FilesInvariant
    <2>3. b \in BOOLEAN /\ (b <=> row[i].isPrimary)
      BY <2>2 DEF ImageRow
    <2>4. /\ pc[h] = "idle" /\ call' = [call EXCEPT ![h] = c]
          /\ pc' = [pc EXCEPT ![h] = p] /\ row' = row
          /\ raced' = IF Serving(r) = {} THEN raced ELSE raced \cup {r}
      BY <2>1 DEF StartOn, Start
    <2> HIDE DEF b
    <2>5. /\ c \in Call /\ c.op # "add" /\ c.room = r
          /\ c.image = i /\ c.primary = b
      BY <2>3 DEF Call
    <2> HIDE DEF c
    <2> QED
      BY <2>2, <2>3, <2>4, <2>5, StartPrimary, ImageAssumption
  <1> QED
    BY <1>1, <1>2 DEF Begin

-----------------------------------------------------------------------------
\* A new order of the images is none of the invariant's business.
LEMMA ReorderPrimary ==
  ASSUME FilesInvariant, PrimaryInvariant, NEW r \in Rooms, NEW some \in SUBSET Images,
         NEW order \in [some -> Orders], Reorder(r, order)
  PROVE  PrimaryInvariant'
  <1>1. ASSUME NEW i \in Images
        PROVE  /\ Exists(i)' <=> Exists(i)
               /\ Exists(i) => /\ row'[i].room = row[i].room
                               /\ row'[i].isPrimary <=> row[i].isPrimary
    <2>1. CASE i \in ImagesOf(r) \cap DOMAIN order
      <3>1. Exists(i) /\ order[i] \in Nat
        BY <2>1, ImageAssumption DEF ImagesOf
      <3>2. row'[i] = [row[i] EXCEPT !.sortOrder = order[i]]
        BY <2>1 DEF Reorder
      <3>3. row[i] \in ImageRow /\ row'[i] \in ImageRow
        BY <3>1, <3>2, RowChanged DEF FilesInvariant
      <3>4. row'[i].room = row[i].room
        BY <3>2, <3>3, Zenon DEF ImageRow
      <3>5. row'[i].isPrimary <=> row[i].isPrimary
        BY <3>2, <3>3, Zenon DEF ImageRow
      <3> QED
        BY <3>1, <3>3, <3>4, <3>5, ImageAssumption DEF Exists
    <2>2. CASE i \notin ImagesOf(r) \cap DOMAIN order
      BY <2>2 DEF Reorder, Exists
    <2> QED
      BY <2>1, <2>2
  <1>2. UNCHANGED <<pc, call, raced>>
    BY DEF Reorder
  <1>3. \A q \in Rooms : /\ ImagesOf(q)' = ImagesOf(q) /\ Primaries(q)' = Primaries(q)
                         /\ HasItsPrimary(q)' <=> HasItsPrimary(q)
                         /\ Serving(q)' = Serving(q)
    <2> TAKE q \in Rooms
    <2>1. ImagesOf(q)' = ImagesOf(q)
      BY <1>1 DEF ImagesOf
    <2>2. Primaries(q)' = Primaries(q)
      BY <1>1, <2>1 DEF Primaries, ImagesOf
    <2> QED
      BY <1>2, <2>1, <2>2 DEF HasItsPrimary, Serving
  <1>4. ASSUME NEW h \in Handlers, call[h] # NoCall
        PROVE  RequestFitsRoom(h)' /\ (FindsRoomInOrder(h) => FindsRoomInOrder(h)')
    <2>1. call[h] \in Call /\ RequestFitsRoom(h)
      BY <1>4 DEF FilesInvariant, TypeOK, PrimaryInvariant
    <2>a. PICK q \in Rooms : q = call[h].room
      BY <2>1 DEF Call
    <2>b. PICK i : i = call[h].image
      OBVIOUS
    <2>2. RequestFitsRoom(h)'
      <3>1. ASSUME call[h].op # "add", Exists(i)' PROVE row'[i].room = q
        <4>1. i \in Images
          BY <1>4, <2>b, <3>1 DEF FilesInvariant, RequestIsSound
        <4> QED
          BY <1>1, <1>4, <2>1, <2>a, <2>b, <3>1, <4>1 DEF RequestFitsRoom
      <3>2. Exists(call[h].image)' <=> Exists(i)'
        BY <1>2, <2>b DEF Exists
      <3> QED
        BY <1>2, <1>4, <2>1, <2>a, <2>b, <3>1, <3>2 DEF RequestFitsRoom
    <2>3. ASSUME FindsRoomInOrder(h) PROVE FindsRoomInOrder(h)'
      <3>1. /\ IF pc[h] \in {"file", "next", "promote"} /\ call[h].primary
               THEN Primaries(q) = {} ELSE HasItsPrimary(q)
            /\ pc[h] = "insert" => (call[h].primary <=> Primaries(q) # {})
            /\ pc[h] \in {"delete", "promote", "swap"} => i \in ImagesOf(q)
            /\ pc[h] = "delete" => (call[h].primary <=> row[i].isPrimary)
        BY <2>3, <2>a, <2>b DEF FindsRoomInOrder
      <3>2. i \in ImagesOf(q) => (row'[i].isPrimary <=> row[i].isPrimary)
        BY <1>1 DEF ImagesOf
      <3>3. /\ IF pc[h] \in {"file", "next", "promote"} /\ call[h].primary
               THEN Primaries(q)' = {} ELSE HasItsPrimary(q)'
            /\ pc[h] = "insert" => (call[h].primary <=> Primaries(q)' # {})
            /\ pc[h] \in {"delete", "promote", "swap"} => i \in ImagesOf(q)'
            /\ pc[h] = "delete" => (call[h].primary <=> row'[i].isPrimary)
        BY <1>3, <3>1, <3>2
      <3>4. call'[h] = call[h] /\ pc'[h] = pc[h]
        BY <1>2
      <3> QED
        BY <2>a, <2>b, <3>3, <3>4
        DEF FindsRoomInOrder, HasItsPrimary, Primaries, ImagesOf, Exists
    <2> QED
      BY <2>2, <2>3
  <1>5. \A h \in Handlers : RequestFitsRoom(h)'
    BY <1>2, <1>4 DEF RequestFitsRoom
  <1>6. ASSUME NEW q \in Rooms \ raced PROVE RoomIsSound(q)'
    <2>1. RoomIsSound(q)
      BY <1>6 DEF PrimaryInvariant
    <2>2. \A h \in Serving(q) : h \in Handlers /\ call[h] # NoCall
      BY DEF Serving
    <2> QED
      BY <1>3, <1>4, <2>1, <2>2 DEF RoomIsSound
  <1> QED
    BY <1>2, <1>5, <1>6 DEF PrimaryInvariant

LEMMA NextKeepsPrimary ==
  FilesInvariant /\ PrimaryInvariant /\ [Next]_vars => PrimaryInvariant'
  <1> SUFFICES ASSUME FilesInvariant, PrimaryInvariant, [Next]_vars
               PROVE  PrimaryInvariant'
    OBVIOUS
  <1>1. ASSUME NEW h \in Handlers, Proceed(h) PROVE PrimaryInvariant'
    <2>1. ASSUME NEW i \in Images, StoreFile(h, i) \/ FindNext(h, i)
          PROVE  PrimaryInvariant'
      BY <2>1, StoreFilePrimary, FindNextPrimary
    <2>2. ASSUME NEW i \in Images, NEW others \in SUBSET Images, UploadFails(h, i, others)
          PROVE  PrimaryInvariant'
      BY <2>2, QuietEndPrimary
    <2> QED
      BY <1>1, <2>1, <2>2, CountImagesPrimary, CountPrimariesPrimary,
         InsertRowsPrimary, DeleteRowPrimary, QuietEndPrimary, FilePrimary,
         PromotePrimary, SwapRestoresPrimary DEF Proceed
  <1>2. ASSUME NEW h \in Handlers, Begin(h) \/ Fail(h) PROVE PrimaryInvariant'
    BY <1>2, BeginPrimary, QuietEndPrimary
  <1>3. ASSUME NEW r \in Rooms, NEW some \in SUBSET Images,
               NEW order \in [some -> Orders], Reorder(r, order)
        PROVE  PrimaryInvariant'
    BY <1>3, ReorderPrimary
  <1>4. CASE UNCHANGED vars
    <2>1. UNCHANGED <<row, pc, call, raced>>
      BY <1>4 DEF vars
    <2> QED
      BY <2>1 DEF PrimaryInvariant, RequestFitsRoom, RoomIsSound, FindsRoomInOrder,
                  HasItsPrimary, Primaries, ImagesOf, Serving, Exists
  <1> QED
    BY <1>1, <1>2, <1>3, <1>4 DEF Next

\* In every reachable state each room that no race has touched serves one request
\* at most, and has the primary image that the request has to find there.
THEOREM PrimaryInvariance == Spec => []PrimaryInvariant
  <1>1. Init /\ [][Next]_vars /\ []FilesInvariant => []PrimaryInvariant
    BY InitPrimary, NextKeepsPrimary, PTL
  <1> QED
    BY <1>1, FilesInvariance, PTL DEF Spec

\* A room with images has one primary image whenever no request is working on it,
\* unless two requests have overlapped or one stopped half-way since the last
\* undisturbed setPrimaryImage.
THEOREM OnePrimaryEach == Spec => []OnePrimary
  <1>1. PrimaryInvariant => OnePrimary
    BY DEF PrimaryInvariant, RoomIsSound, HasItsPrimary, OnePrimary
  <1> QED
    BY <1>1, PrimaryInvariance, PTL
=============================================================================
