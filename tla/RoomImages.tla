---------------------------- MODULE RoomImages ----------------------------
(***************************************************************************)
(* The images of rooms: RoomsService (src/src/rooms/rooms.service.ts, from *)
(* addImages on) over the table room_images and over the file storage of   *)
(* UploadsService (src/src/uploads/uploads.service.ts).                    *)
(*                                                                         *)
(* Only setPrimaryImage and reorderImages write in a transaction.  A       *)
(* handler serves one request and takes one step per statement or storage  *)
(* call; what a step has done stays when the request fails after it.       *)
(*                                                                         *)
(* An upload gives its file a name of its own (publicId), and one row is   *)
(* written for it: Images are the names, row[i] the row that names i, and  *)
(* i \in stored says that the file itself is there.                        *)
(***************************************************************************)
EXTENDS Integers, Sequences, FiniteSets

CONSTANTS
  Rooms,    \* ids of the rooms; a room is never deleted
  Images,   \* names an uploaded file may be given
  Handlers, \* requests that may be in progress at the same time
  MaxFiles, \* bound: the files of one upload (multer.config.ts allows 10)
  Orders,   \* bound: positions a reordering may give
  NoRow,    \* no row names this image
  NoImage,  \* the request is about no image (yet)
  NoCall    \* the handler serves no request

ImageRow == [room: Rooms, isPrimary: BOOLEAN, sortOrder: Nat]

\* files: the names its uploads get; todo: those not stored yet; count: the
\* images counted; primary: whether the room had a primary image (add) or the
\* image removed was it (remove); image: the one to remove or to promote next.
Call == [op: {"add", "remove", "setPrimary"}, room: Rooms, files: Seq(Images),
         todo: SUBSET Images, count: Nat, primary: BOOLEAN,
         image: Images \cup {NoImage}]

ASSUME ImageAssumption ==
  /\ MaxFiles \in Nat /\ Orders \subseteq Nat
  /\ NoRow \notin ImageRow /\ NoImage \notin Images /\ NoCall \notin Call
ASSUME FiniteImages == IsFiniteSet(Images)

VARIABLES
  row,     \* table room_images: the row that names each image, or NoRow
  stored,  \* the images whose file is in the storage
  pc,      \* the statement each handler runs next
  call,    \* the request each handler serves
  raced,   \* history: rooms whose primary image may be lost or doubled, because
           \* two requests overlapped or one stopped half-way
  mishap   \* history: a storage call or a request has failed

vars == <<row, stored, pc, call, raced, mishap>>

Init ==
  /\ row = [i \in Images |-> NoRow]
  /\ stored = {}
  /\ pc = [h \in Handlers |-> "idle"]
  /\ call = [h \in Handlers |-> NoCall]
  /\ raced = {}
  /\ mishap = FALSE

-----------------------------------------------------------------------------
Exists(i) == row[i] # NoRow
ImagesOf(r) == {i \in Images : Exists(i) /\ row[i].room = r}
Primaries(r) == {i \in ImagesOf(r) : row[i].isPrimary}
Serving(r) == {h \in Handlers : call[h] # NoCall /\ call[h].room = r}

NamesIn(files) == {files[k] : k \in DOMAIN files}

\* Mutant: without its random part, a name is new if no file and no row has it.
Fresh_NotStored(i) == ~Exists(i) /\ i \notin stored

\* The name of a new file is nobody else's.
Fresh(i) ==
  /\ ~Exists(i) /\ i \notin stored
  /\ \A h \in Handlers : call[h] # NoCall
       => i # call[h].image /\ i \notin NamesIn(call[h].files)

Start(h, request, statement) ==
  /\ pc[h] = "idle"
  /\ call' = [call EXCEPT ![h] = request]
  /\ pc' = [pc EXCEPT ![h] = statement]
  /\ raced' = IF Serving(request.room) = {} THEN raced
              ELSE raced \cup {request.room}
  /\ UNCHANGED <<row, stored, mishap>>

Step(h, from, to) == pc[h] = from /\ pc' = [pc EXCEPT ![h] = to]

End(h) ==
  /\ pc' = [pc EXCEPT ![h] = "idle"]
  /\ call' = [call EXCEPT ![h] = NoCall]

-----------------------------------------------------------------------------
\* Mutant: the rows are written without waiting for the uploads.
StartAdd_NotAwaited(h, r, files) ==
  /\ \A k \in DOMAIN files : Fresh(files[k])
  /\ \A k, l \in DOMAIN files : k # l => files[k] # files[l]
  /\ Start(h, [op |-> "add", room |-> r, files |-> files, todo |-> {},
               count |-> 0, primary |-> FALSE, image |-> NoImage], "upload")

\* addImages: one to MaxFiles files, uploaded at the same time, so stored in
\* any order.
StartAdd(h, r, files) ==
  /\ \A k \in DOMAIN files : Fresh(files[k])
  /\ \A k, l \in DOMAIN files : k # l => files[k] # files[l]
  /\ Start(h, [op |-> "add", room |-> r, files |-> files,
               todo |-> NamesIn(files), count |-> 0, primary |-> FALSE,
               image |-> NoImage], "upload")

StoreFile(h, i) ==
  /\ pc[h] = "upload"
  /\ i \in call[h].todo
  /\ stored' = stored \cup {i}
  /\ call' = [call EXCEPT ![h].todo = @ \ {i}]
  /\ UNCHANGED <<row, pc, raced, mishap>>

\* One upload fails and so the request; the others are not called back.
UploadFails(h, i, others) ==
  /\ pc[h] = "upload"
  /\ i \in call[h].todo
  /\ others \subseteq call[h].todo \ {i}
  /\ stored' = stored \cup others
  /\ mishap' = TRUE
  /\ End(h)
  /\ UNCHANGED <<row, raced>>

CountImages(h) ==
  /\ Step(h, "upload", "primary")
  /\ call[h].todo = {}
  /\ call' = [call EXCEPT ![h].count = Cardinality(ImagesOf(call[h].room))]
  /\ UNCHANGED <<row, stored, raced, mishap>>

CountPrimaries(h) ==
  /\ Step(h, "primary", "insert")
  /\ call' = [call EXCEPT ![h].primary = Primaries(call[h].room) # {}]
  /\ UNCHANGED <<row, stored, raced, mishap>>

\* Mutant: the first image of every upload is primary.
NewRow_Primary(c, k) ==
  [room |-> c.room, isPrimary |-> k = 1, sortOrder |-> c.count + k - 1]

\* The row of the k-th file of request c.
NewRow(c, k) ==
  [room |-> c.room, isPrimary |-> ~c.primary /\ k = 1,
   sortOrder |-> c.count + k - 1]

\* createMany, and the end of the request.
InsertRows(h) ==
  /\ pc[h] = "insert"
  /\ LET c == call[h]
     IN  row' = [i \in Images |->
                   IF i \in NamesIn(c.files)
                   THEN NewRow(c, CHOOSE k \in DOMAIN c.files : c.files[k] = i)
                   ELSE row[i]]
  /\ End(h)
  /\ UNCHANGED <<stored, raced, mishap>>

-----------------------------------------------------------------------------
\* Mutant: any image may be named in the path of any room.
StartOn_AnyRoom(h, i, r, op, statement) ==
  /\ Exists(i)
  /\ Start(h, [op |-> op, room |-> r, files |-> <<>>, todo |-> {}, count |-> 0,
               primary |-> row[i].isPrimary, image |-> i], statement)

\* removeImage and setPrimaryImage first read the image, which must be of the
\* room named in the path.
StartOn(h, i, r, op, statement) ==
  /\ i \in ImagesOf(r)
  /\ Start(h, [op |-> op, room |-> r, files |-> <<>>, todo |-> {}, count |-> 0,
               primary |-> row[i].isPrimary, image |-> i], statement)

StartRemove(h, i, r) == StartOn(h, i, r, "remove", "delete")
StartSetPrimary(h, i, r) == StartOn(h, i, r, "setPrimary", "swap")

\* The row the request is about, or is to promote, is gone (P2025).
ImageGone(h) ==
  /\ pc[h] \in {"delete", "swap", "promote"}
  /\ ~Exists(call[h].image)
  /\ End(h)
  /\ UNCHANGED <<row, stored, raced, mishap>>

DeleteRow(h) ==
  /\ Step(h, "delete", "file")
  /\ Exists(call[h].image)
  /\ row' = [row EXCEPT ![call[h].image] = NoRow]
  /\ UNCHANGED <<stored, call, raced, mishap>>

\* The end of removeImage, but for a primary image.
AfterFile(h) ==
  IF call[h].primary
  THEN pc' = [pc EXCEPT ![h] = "next"] /\ UNCHANGED call
  ELSE End(h)

\* Mutant: the file of the primary image alone is deleted.
DeleteFile_OfPrimary(h) ==
  /\ pc[h] = "file"
  /\ stored' = IF call[h].primary THEN stored \ {call[h].image} ELSE stored
  /\ AfterFile(h)
  /\ UNCHANGED <<row, raced, mishap>>

DeleteFile(h) ==
  /\ pc[h] = "file"
  /\ stored' = stored \ {call[h].image}
  /\ AfterFile(h)
  /\ UNCHANGED <<row, raced, mishap>>

\* The storage refuses: logged, and nothing else.
DeleteFileFails(h) ==
  /\ pc[h] = "file"
  /\ mishap' = TRUE
  /\ AfterFile(h)
  /\ UNCHANGED <<row, stored, raced>>

\* The first of the images that are left; PostgreSQL chooses among equals.
FindNext(h, i) ==
  /\ Step(h, "next", "promote")
  /\ i \in ImagesOf(call[h].room)
  /\ \A j \in ImagesOf(call[h].room) : row[i].sortOrder <= row[j].sortOrder
  /\ call' = [call EXCEPT ![h].image = i]
  /\ UNCHANGED <<row, stored, raced, mishap>>

FindNone(h) ==
  /\ pc[h] = "next"
  /\ ImagesOf(call[h].room) = {}
  /\ End(h)
  /\ UNCHANGED <<row, stored, raced, mishap>>

Promote(h) ==
  /\ pc[h] = "promote"
  /\ Exists(call[h].image)
  /\ row' = [row EXCEPT ![call[h].image].isPrimary = TRUE]
  /\ End(h)
  /\ UNCHANGED <<stored, raced, mishap>>

\* Mutant: the old primary image stays primary.
SwapPrimary_KeepsOld(h) ==
  /\ pc[h] = "swap"
  /\ Exists(call[h].image)
  /\ LET c == call[h]
     IN  /\ row' = [row EXCEPT ![c.image].isPrimary = TRUE]
         /\ raced' = IF Serving(c.room) = {h} THEN raced \ {c.room} ELSE raced
  /\ End(h)
  /\ UNCHANGED <<stored, mishap>>

\* The two updates of setPrimaryImage, in one transaction.  Alone, it makes
\* good whatever was wrong.
SwapPrimary(h) ==
  /\ pc[h] = "swap"
  /\ Exists(call[h].image)
  /\ LET c == call[h]
     IN  /\ row' = [i \in Images |->
                      IF i \in ImagesOf(c.room)
                      THEN [row[i] EXCEPT !.isPrimary = (i = c.image)]
                      ELSE row[i]]
         /\ raced' = IF Serving(c.room) = {h} THEN raced \ {c.room} ELSE raced
  /\ End(h)
  /\ UNCHANGED <<stored, mishap>>

\* reorderImages: items of other rooms, or gone, are passed over.
Reorder(r, order) ==
  /\ row' = [i \in Images |->
               IF i \in ImagesOf(r) \cap DOMAIN order
               THEN [row[i] EXCEPT !.sortOrder = order[i]] ELSE row[i]]
  /\ UNCHANGED <<stored, pc, call, raced, mishap>>

\* Mutant: the handler does not forget the request.
Fail_KeepsCall(h) ==
  /\ pc[h] # "idle"
  /\ mishap' = TRUE
  /\ pc' = [pc EXCEPT ![h] = "idle"]
  /\ UNCHANGED <<row, stored, call, raced>>

\* A statement fails or the process dies.  What was done remains; between the
\* deletion of a primary image and the promotion of the next there is none.
Fail(h) ==
  /\ pc[h] # "idle"
  /\ mishap' = TRUE
  /\ raced' = IF pc[h] \in {"file", "next", "promote"} /\ call[h].primary
              THEN raced \cup {call[h].room} ELSE raced
  /\ End(h)
  /\ UNCHANGED <<row, stored>>

-----------------------------------------------------------------------------
Begin(h) ==
  \E r \in Rooms :
    \/ \E n \in 1 .. MaxFiles : \E files \in [1 .. n -> Images] :
         StartAdd(h, r, files)
    \/ \E i \in Images : StartRemove(h, i, r) \/ StartSetPrimary(h, i, r)

Proceed(h) ==
  \/ \E i \in Images :
       \/ StoreFile(h, i)
       \/ \E others \in SUBSET Images : UploadFails(h, i, others)
       \/ FindNext(h, i)
  \/ CountImages(h) \/ CountPrimaries(h) \/ InsertRows(h)
  \/ DeleteRow(h) \/ ImageGone(h)
  \/ DeleteFile(h) \/ DeleteFileFails(h)
  \/ FindNone(h) \/ Promote(h) \/ SwapPrimary(h)

Next ==
  \/ \E h \in Handlers : Begin(h) \/ Proceed(h) \/ Fail(h)
  \/ \E r \in Rooms, some \in SUBSET Images :
       \E order \in [some -> Orders] : Reorder(r, order)

Spec == Init /\ [][Next]_vars
-----------------------------------------------------------------------------
\* The table, the storage and the requests hold what they can hold, and a
\* handler is idle exactly when it serves no request.
TypeOK ==
  /\ row \in [Images -> ImageRow \cup {NoRow}]
  /\ stored \subseteq Images
  /\ pc \in [Handlers -> {"idle", "upload", "primary", "insert", "delete", "file",
                          "next", "promote", "swap"}]
  /\ call \in [Handlers -> Call \cup {NoCall}]
  /\ \A h \in Handlers : pc[h] = "idle" <=> call[h] = NoCall
  /\ raced \subseteq Rooms /\ mishap \in BOOLEAN

\* readLocalFile, once it is asked for a file by the path in its row (which
\* requests the route's pattern lets through is left out).
ReadLocalFile(i) == i \in stored

\* The storage has the file of every image that a room's row names, whatever
\* overlaps or fails: files are stored before the rows that name them and
\* deleted after, and no two rows share a file.
NoBrokenImage == \A i \in Images : Exists(i) => ReadLocalFile(i)

\* The files request h is answerable for: those it has stored, or is about to
\* delete.
InHand(h) ==
  IF call[h] = NoCall THEN {}
  ELSE IF call[h].op = "add" THEN NamesIn(call[h].files)
  ELSE IF pc[h] = "file" THEN {call[h].image} ELSE {}

\* While nothing fails, no file is left behind that no row names and that no
\* request will name or delete: not even when removals of one image overlap.
NoOrphanFile ==
  mishap \/ \A i \in stored : Exists(i) \/ \E h \in Handlers : i \in InHand(h)

\* A room with images has one primary image, when no request is working on it
\* and none overlapped another or stopped between a deletion and a promotion;
\* and setPrimaryImage alone restores that after any such race.
OnePrimary ==
  \A r \in Rooms \ raced :
    Serving(r) = {} /\ ImagesOf(r) # {} => \E i \in Images : Primaries(r) = {i}

-----------------------------------------------------------------------------
StatementsOf == [add |-> {"upload", "primary", "insert"},
                 remove |-> {"delete", "file", "next", "promote"},
                 setPrimary |-> {"swap"}]

Uploads(h) == IF call[h] = NoCall THEN {} ELSE NamesIn(call[h].files)

\* What an upload has stored is there, and no row names it yet; the row of a
\* file that is to be deleted is gone.
RequestIsSound(h) ==
  call[h] # NoCall =>
    /\ pc[h] \in StatementsOf[call[h].op]
    /\ call[h].op # "add" => Uploads(h) = {} /\ call[h].image \in Images
    /\ call[h].todo \subseteq Uploads(h)
    /\ pc[h] # "upload" => call[h].todo = {}
    /\ Uploads(h) \ call[h].todo \subseteq stored
    /\ \A i \in Uploads(h) : ~Exists(i)
    /\ pc[h] = "file" => ~Exists(call[h].image)

\* The names that request g uploads are not those of request h.
UploadsApart(g, h) ==
  /\ Uploads(g) \cap Uploads(h) = {}
  /\ call[h] # NoCall => call[h].image \notin Uploads(g)

\* Why no image is broken and no file forgotten, as an invariant that every step
\* preserves.
FilesInvariant ==
  /\ TypeOK
  /\ NoBrokenImage
  /\ NoOrphanFile
  /\ \A h \in Handlers : RequestIsSound(h)
  /\ \A g, h \in Handlers : g # h => UploadsApart(g, h)

-----------------------------------------------------------------------------
HasItsPrimary(r) == ImagesOf(r) = {} \/ \E i \in Images : Primaries(r) = {i}

\* The files of an upload are one or more, all different; a request is about an
\* image of its room as long as there is one; and only the removal of a primary
\* image looks for another.
RequestFitsRoom(h) ==
  call[h] # NoCall =>
    LET c == call[h]
    IN  /\ c.op = "add" =>
             /\ 1 \in DOMAIN c.files
             /\ \A k, l \in DOMAIN c.files : k # l => c.files[k] # c.files[l]
        /\ c.op # "add" /\ Exists(c.image) => row[c.image].room = c.room
        /\ pc[h] \in {"next", "promote"} => c.primary

\* What a request that nobody overlaps finds: its room has its primary image,
\* or none after the request has deleted that row; and what it read is so still.
FindsRoomInOrder(h) ==
  LET c == call[h]
      left == ImagesOf(c.room)
  IN  /\ IF pc[h] \in {"file", "next", "promote"} /\ c.primary
         THEN Primaries(c.room) = {} ELSE HasItsPrimary(c.room)
      /\ pc[h] = "insert" => (c.primary <=> Primaries(c.room) # {})
      /\ pc[h] \in {"delete", "promote", "swap"} => c.image \in left
      /\ pc[h] = "delete" => (c.primary <=> row[c.image].isPrimary)

RoomIsSound(r) ==
  /\ \A g, h \in Serving(r) : g = h
  /\ Serving(r) = {} => HasItsPrimary(r)
  /\ \A h \in Serving(r) : FindsRoomInOrder(h)

\* Why a room has one primary image, as an invariant that every step preserves,
\* given FilesInvariant.
PrimaryInvariant ==
  /\ \A h \in Handlers : RequestFitsRoom(h)
  /\ \A r \in Rooms \ raced : RoomIsSound(r)
=============================================================================
