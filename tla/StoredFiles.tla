---------------------------- MODULE StoredFiles ----------------------------
(***************************************************************************)
(* Uploaded files and the rows that list them: attachments of a work order *)
(* (backend/src/controllers/workOrdersController.ts) and documents of a    *)
(* site or device (documentsController.ts).  An upload lies in one shared  *)
(* temporary folder until the scanner has passed it, then moves to the     *)
(* path it is listed under; both names are made of the time and the file's *)
(* name.  The disk and the tables know nothing of each other: what keeps   *)
(* them in step is the order of the calls and what the handlers clean up.  *)
(***************************************************************************)
EXTENDS Naturals

CONSTANTS
    Uploads,        \* uploads of files of one name, each made once
    MaxMillis,      \* bound: the milliseconds in which they happen
    Nothing         \* no file, no path

Millis == 0..MaxMillis
Kinds == {"attachment", "document"}     \* one work order, one site or device
Paths == Kinds \X Millis

ASSUME StoredFilesAssumption ==
    /\ MaxMillis \in Nat
    /\ Nothing \notin Uploads
    /\ Nothing \notin Paths

VARIABLES
    millis,         \* Date.now()
    temp,           \* millisecond -> the upload whose bytes lie in the temporary folder
    disk,           \* path -> the upload whose bytes are there
    rows,           \* the rows, all with file_status clean: <<upload, path>>
    uploads,        \* upload -> its handler
    removals,       \* paths that a delete handler is about to unlink
    passed,         \* uploads whose bytes the scanner has called clean
    left,           \* history: uploads answered before the handler took hold of them
    mishaps         \* history: see Mishaps

fileVars == <<millis, temp, disk, rows, uploads, removals, passed, left, mishaps>>

\* Two uploads under one name, an insert that took place and was reported as
\* failed, a process killed, a file that could not be unlinked.
Mishaps == {"sameName", "rowUnknown", "killed", "kept"}

Upload == [kind : Kinds, at : Millis, dest : Paths \cup {Nothing},
           pc : {"new", "find", "scan", "move", "insert", "undo", "undoDisk", "done"}]
NewUpload == [kind |-> "document", at |-> 0, dest |-> Nothing, pc |-> "new"]

StoredFilesTypeOK ==
    /\ millis \in Millis
    /\ temp \in [Millis -> Uploads \cup {Nothing}]
    /\ disk \in [Paths -> Uploads \cup {Nothing}]
    /\ rows \in SUBSET (Uploads \X Paths)
    /\ uploads \in [Uploads -> Upload]
    /\ removals \in SUBSET Paths
    /\ passed \in SUBSET Uploads
    /\ left \in SUBSET Uploads
    /\ mishaps \in SUBSET Mishaps

StoredFilesInit ==
    /\ millis = 0
    /\ temp = [t \in Millis |-> Nothing]
    /\ disk = [p \in Paths |-> Nothing]
    /\ rows = {}
    /\ uploads = [u \in Uploads |-> NewUpload]
    /\ removals = {}
    /\ passed = {}
    /\ left = {}
    /\ mishaps = {}

-----------------------------------------------------------------------------
Live(u) == uploads[u].pc \notin {"new", "done"}
UploadAt(u, pc) == uploads[u].pc = pc
UploadTo(u, pc) == uploads' = [uploads EXCEPT ![u].pc = pc]
Suffer(m) == mishaps' = mishaps \cup {m}
SufferIf(m, cond) == IF cond THEN Suffer(m) ELSE UNCHANGED mishaps

\* multer writes the file before any handler sees the request.
Arrive(u) ==
    /\ UploadAt(u, "new")
    /\ \E k \in Kinds :
          uploads' = [uploads EXCEPT ![u] =
              [NewUpload EXCEPT !.kind = k, !.at = millis, !.pc = "find"]]
    /\ temp' = [temp EXCEPT ![millis] = u]
    /\ SufferIf("sameName", \/ temp[millis] # Nothing
                            \/ \E v \in Uploads : Live(v) /\ uploads[v].at = millis)
    /\ UNCHANGED <<millis, disk, rows, removals, passed, left>>

Found(u) ==
    /\ UploadAt(u, "find")
    /\ UploadTo(u, "scan")
    /\ UNCHANGED <<millis, temp, disk, rows, removals, passed, left, mishaps>>

\* The user may not upload, has no organisation, or names no work order: the
\* handler answers and the temporary file stays.
LeaveEarly(u) ==
    /\ UploadAt(u, "find")
    /\ UploadTo(u, "done")
    /\ left' = left \cup {u}
    /\ UNCHANGED <<millis, temp, disk, rows, removals, passed, mishaps>>

\* The site or device of a document does not exist, or a query throws.
NotFound(u) ==
    /\ UploadAt(u, "find")
    /\ UploadTo(u, "undo")
    /\ UNCHANGED <<millis, temp, disk, rows, removals, passed, left, mishaps>>

\* scanFile reads what lies under the temporary name.
ScannedClean(u) ==
    /\ UploadAt(u, "scan")
    /\ passed' = passed \cup ({temp[uploads[u].at]} \ {Nothing})
    /\ UploadTo(u, "move")
    /\ UNCHANGED <<millis, temp, disk, rows, removals, left, mishaps>>

\* Infected, or no result in time.
ScanRejects(u) ==
    /\ UploadAt(u, "scan")
    /\ UploadTo(u, "undo")
    /\ UNCHANGED <<millis, temp, disk, rows, removals, passed, left, mishaps>>

Destination(u) == <<uploads[u].kind, millis>>

\* The stored name is made of the time of the move.
Move(u) ==
    LET at == uploads[u].at
        dest == Destination(u) IN
    /\ UploadAt(u, "move")
    /\ temp[at] # Nothing
    /\ disk' = [disk EXCEPT ![dest] = temp[at]]
    /\ temp' = [temp EXCEPT ![at] = Nothing]
    /\ uploads' = [uploads EXCEPT ![u].pc = "insert", ![u].dest = dest]
    /\ SufferIf("sameName", \/ disk[dest] # Nothing
                            \/ dest \in removals
                            \/ \E v \in Uploads : Live(v) /\ uploads[v].dest = dest)
    /\ UNCHANGED <<millis, rows, removals, passed, left>>

\* mkdir or rename throws.  An attachment has its destination set by then, and
\* will unlink what lies there.
MoveFails(u) ==
    LET dest == IF uploads[u].kind = "attachment" THEN Destination(u) ELSE Nothing IN
    /\ UploadAt(u, "move")
    /\ uploads' = [uploads EXCEPT ![u].pc = "undo", ![u].dest = dest]
    /\ SufferIf("sameName", /\ dest # Nothing
                            /\ \/ disk[dest] # Nothing
                               \/ \E v \in Uploads : Live(v) /\ uploads[v].dest = dest)
    /\ UNCHANGED <<millis, temp, disk, rows, removals, passed, left>>

\* createWorkOrderAttachment or createDocument; the audit that follows never throws.
Insert(u) ==
    /\ UploadAt(u, "insert")
    /\ rows' = rows \cup {<<u, uploads[u].dest>>}
    /\ UploadTo(u, "done")
    /\ UNCHANGED <<millis, temp, disk, removals, passed, left, mishaps>>

\* The insert throws, and may have taken place all the same.
InsertFails(u) ==
    /\ UploadAt(u, "insert")
    /\ \/ UNCHANGED <<rows, mishaps>>
       \/ /\ rows' = rows \cup {<<u, uploads[u].dest>>}
          /\ Suffer("rowUnknown")
    /\ UploadTo(u, "undo")
    /\ UNCHANGED <<millis, temp, disk, removals, passed, left>>

\* mutant: the catch block forgets the destination.
UndoTempOnly(u) ==
    /\ UploadAt(u, "undo")
    /\ temp' = [temp EXCEPT ![uploads[u].at] = Nothing]
    /\ UploadTo(u, "done")
    /\ UNCHANGED <<millis, disk, rows, removals, passed, left, mishaps>>

\* The catch block unlinks the temporary file, then the destination if it is set;
\* that a file cannot be unlinked is passed over.
Undo(u) ==
    /\ UploadAt(u, "undo")
    /\ \/ temp' = [temp EXCEPT ![uploads[u].at] = Nothing] /\ UNCHANGED mishaps
       \/ UNCHANGED temp /\ Suffer("kept")
    /\ UploadTo(u, IF uploads[u].dest = Nothing THEN "done" ELSE "undoDisk")
    /\ UNCHANGED <<millis, disk, rows, removals, passed, left>>

UndoDisk(u) ==
    /\ UploadAt(u, "undoDisk")
    /\ \/ disk' = [disk EXCEPT ![uploads[u].dest] = Nothing] /\ UNCHANGED mishaps
       \/ UNCHANGED disk /\ Suffer("kept")
    /\ UploadTo(u, "done")
    /\ UNCHANGED <<millis, temp, rows, removals, passed, left>>

-----------------------------------------------------------------------------
\* DELETE of an attachment takes the row away first; documents are never deleted.
DeleteRow(u) ==
    /\ \E p \in Paths :
          /\ p[1] = "attachment"
          /\ <<u, p>> \in rows
          /\ rows' = rows \ {<<u, p>>}
          /\ removals' = removals \cup {p}
    /\ UNCHANGED <<millis, temp, disk, uploads, passed, left, mishaps>>

Unlink(p) ==
    /\ p \in removals
    /\ removals' = removals \ {p}
    /\ \/ disk' = [disk EXCEPT ![p] = Nothing] /\ UNCHANGED mishaps
       \/ UNCHANGED disk /\ Suffer("kept")
    /\ UNCHANGED <<millis, temp, rows, uploads, passed, left>>

\* The process dies: no handler goes on, and nothing looks for what it left.
Kill ==
    /\ \/ \E u \in Uploads : Live(u)
       \/ removals # {}
    /\ uploads' = [u \in Uploads |->
           IF Live(u) THEN [NewUpload EXCEPT !.pc = "done"] ELSE uploads[u]]
    /\ removals' = {}
    /\ Suffer("killed")
    /\ UNCHANGED <<millis, temp, disk, rows, passed, left>>

NextMilli ==
    /\ millis < MaxMillis
    /\ millis' = millis + 1
    /\ UNCHANGED <<temp, disk, rows, uploads, removals, passed, left, mishaps>>

StoredFilesNext ==
    \/ \E u \in Uploads :
          \/ Arrive(u)
          \/ Found(u) \/ LeaveEarly(u) \/ NotFound(u)
          \/ ScannedClean(u) \/ ScanRejects(u)
          \/ Move(u) \/ MoveFails(u)
          \/ Insert(u) \/ InsertFails(u)
          \/ Undo(u) \/ UndoDisk(u)
          \/ DeleteRow(u)
    \/ \E p \in Paths : Unlink(p)
    \/ Kill
    \/ NextMilli

StoredFilesSpec == StoredFilesInit /\ [][StoredFilesNext]_fileVars

-----------------------------------------------------------------------------
\* What is listed can be opened, and was scanned: a row has the very bytes of its
\* upload at its path, whatever fails or is killed half way.  Unless two uploads
\* had one name, or an insert took place and was reported as failed.
ListedAreThere ==
    mishaps \cap {"sameName", "rowUnknown"} = {} =>
        \A row \in rows : disk[row[2]] = row[1] /\ row[1] \in passed

\* What lies on the disk is listed, or some handler is about to list or unlink it;
\* and a temporary file has a handler, or was left by an early answer.  Unless the
\* process was killed or a file could not be unlinked.
NothingIsForgotten ==
    mishaps \cap {"killed", "kept"} = {} =>
        /\ \A p \in Paths : disk[p] # Nothing =>
              \/ <<disk[p], p>> \in rows
              \/ p \in removals
              \/ \E u \in Uploads : Live(u) /\ uploads[u].dest = p
              \/ "sameName" \in mishaps
        /\ \A t \in Millis : temp[t] # Nothing =>
              Live(temp[t]) \/ temp[t] \in left

\* Both together: the disk and the tables tell the same.
DiskMatchesRows == ListedAreThere /\ NothingIsForgotten
=============================================================================
