-------------------------------- MODULE Media --------------------------------
(***************************************************************************)
(* Uploaded images (api/media.py): two files for each image, its data and  *)
(* its metadata, and no row in the database.  An upload writes the one and *)
(* then the other; a DELETE removes them in the same order; a GET looks    *)
(* for both, reads the metadata and streams the data after the handler has *)
(* returned.  A process may be killed between any two of these steps.      *)
(*                                                                         *)
(* An id is a UUID: no client can name an image whose upload has not       *)
(* answered.                                                               *)
(***************************************************************************)
EXTENDS Naturals

CONSTANTS
  Handlers,        \* threads of the pool that may serve a request
  Images,          \* bound: so many images are uploaded
  NoImage,
  MaxMediaFaults   \* bound: so many write errors and killed processes

ASSUME MediaConstants == NoImage \notin Images /\ MaxMediaFaults \in Nat

VARIABLES
  data, meta,      \* the images whose .bin, whose .json exists
  known,           \* the images whose upload has answered
  handlers,        \* what each thread is doing
  gone,            \* history: the images some DELETE has called deleted or not found
  mediaFaults

mediaVars == <<data, meta, known, handlers, gone, mediaFaults>>

Handler == [pc : {"idle", "uploadData", "uploadMeta",
                  "lookMeta", "deleteData", "deleteMeta", "readMeta", "open", "stream"},
            image : Images \cup {NoImage}]
Idle == [pc |-> "idle", image |-> NoImage]

MediaTypeOK == /\ {data, meta, known, gone} \subseteq SUBSET Images
               /\ handlers \in [Handlers -> Handler]
               /\ mediaFaults \in Nat

MediaInit == /\ data = {} /\ meta = {} /\ known = {} /\ gone = {}
             /\ handlers = [h \in Handlers |-> Idle]
             /\ mediaFaults = 0

At(h, pc) == handlers[h].pc = pc
Goes(h, pc, i) == handlers' = [handlers EXCEPT ![h] = [pc |-> pc, image |-> i]]
Answers(h) == handlers' = [handlers EXCEPT ![h] = Idle]

-----------------------------------------------------------------------------
\* uuid4 draws an id that nobody has; write_bytes creates the file.
StartUpload(h) == /\ At(h, "idle")
                  /\ \E i \in Images \ (data \cup known) :
                       /\ \A g \in Handlers : handlers[g].image # i
                       /\ Goes(h, "uploadData", i) /\ data' = data \cup {i}
                  /\ UNCHANGED <<meta, known, gone, mediaFaults>>

WriteMeta(h) == /\ At(h, "uploadData")
                /\ Goes(h, "uploadMeta", handlers[h].image)
                /\ meta' = meta \cup {handlers[h].image}
                /\ UNCHANGED <<data, known, gone, mediaFaults>>

FinishUpload(h) == /\ At(h, "uploadMeta")
                   /\ known' = known \cup {handlers[h].image}
                   /\ Answers(h)
                   /\ UNCHANGED <<data, meta, gone, mediaFaults>>

MediaFault == mediaFaults < MaxMediaFaults /\ mediaFaults' = mediaFaults + 1

\* What was written so far stays, under an id no client ever learns.
UploadFails(h) == /\ handlers[h].pc \in {"uploadData", "uploadMeta"}
                  /\ MediaFault
                  /\ Answers(h)
                  /\ UNCHANGED <<data, meta, known, gone>>

-----------------------------------------------------------------------------
\* delete_image looks for the metadata only if there is no data, and answers 404 when
\* neither is there.
StartDeleteImage(h) == /\ At(h, "idle")
                       /\ \E i \in known :
                            Goes(h, IF i \in data THEN "deleteData" ELSE "lookMeta", i)
                       /\ UNCHANGED <<data, meta, known, gone, mediaFaults>>

NotFound_DataOnly(i) == i \notin data
NotFound(i) == i \notin meta

LooksForMeta(h) ==
  LET i == handlers[h].image
  IN  /\ At(h, "lookMeta")
      /\ IF NotFound(i) THEN gone' = gone \cup {i} /\ Answers(h)
                        ELSE Goes(h, "deleteData", i) /\ UNCHANGED gone
      /\ UNCHANGED <<data, meta, known, mediaFaults>>

Streamed(i) == \E h \in Handlers : At(h, "stream") /\ handlers[h].image = i

\* unlink(missing_ok).  Windows refuses to remove a file that is being sent:
\* the request answers 500 and both files stay.
UnlinkData(h) ==
  LET i == handlers[h].image
  IN  /\ At(h, "deleteData")
      /\ \/ data' = data \ {i} /\ Goes(h, "deleteMeta", i)
         \/ Streamed(i) /\ Answers(h) /\ UNCHANGED data
      /\ UNCHANGED <<meta, known, gone, mediaFaults>>

UnlinkMeta(h) == /\ At(h, "deleteMeta")
                 /\ meta' = meta \ {handlers[h].image}
                 /\ gone' = gone \cup {handlers[h].image}
                 /\ Answers(h)
                 /\ UNCHANGED <<data, known, mediaFaults>>

-----------------------------------------------------------------------------
\* _read_meta looks for the data, then for the metadata, and reads it; what a DELETE
\* has removed makes the request answer 404, or 500 if it comes in between.
StartGet(h) == /\ At(h, "idle")
               /\ \E i \in known : i \in data /\ Goes(h, "readMeta", i)
               /\ UNCHANGED <<data, meta, known, gone, mediaFaults>>

Then(h, pc, exists) == IF exists THEN Goes(h, pc, handlers[h].image) ELSE Answers(h)

ReadMeta(h) == /\ At(h, "readMeta")
               /\ Then(h, "open", handlers[h].image \in meta)
               /\ UNCHANGED <<data, meta, known, gone, mediaFaults>>

\* FileResponse opens the data when the response is sent.
OpenData(h) == /\ At(h, "open")
               /\ Then(h, "stream", handlers[h].image \in data)
               /\ UNCHANGED <<data, meta, known, gone, mediaFaults>>

FinishGet(h) == /\ At(h, "stream") /\ Answers(h)
                /\ UNCHANGED <<data, meta, known, gone, mediaFaults>>

ServerKilled == /\ MediaFault
                /\ handlers' = [h \in Handlers |-> Idle]
                /\ UNCHANGED <<data, meta, known, gone>>

MediaNext == \/ \E h \in Handlers :
                  \/ StartUpload(h) \/ WriteMeta(h) \/ FinishUpload(h) \/ UploadFails(h)
                  \/ StartDeleteImage(h) \/ LooksForMeta(h) \/ UnlinkData(h) \/ UnlinkMeta(h)
                  \/ StartGet(h) \/ ReadMeta(h) \/ OpenData(h) \/ FinishGet(h)
             \/ ServerKilled

-----------------------------------------------------------------------------
\* media.py, delete_image: once any DELETE has answered 204 or 404 for an image,
\* neither of its files is left, also when an earlier DELETE was killed between
\* the two or two of them ran at once.
DeletedLeavesNothing == gone \cap (data \cup meta) = {}
=============================================================================
