--------------------------- MODULE Records_proofs ---------------------------
(***************************************************************************)
(* Proofs about Records, for any number of requests, connections, tasks,   *)
(* uploads, milliseconds and secrets.  Each part has an inductive          *)
(* invariant of its own; the parts share no variable.                      *)
(***************************************************************************)
EXTENDS Records, SequenceTheorems, TLAPS

-----------------------------------------------------------------------------
(* The second factor *)

\* While no write meets a confirmation, the secret it will activate is the one
\* whose code it has checked.
FactorInv ==
    /\ SecondFactorTypeOK
    /\ FactorIsProved
    /\ ~overtaken =>
         /\ ~Overlap
         /\ \A h \in Handlers : HandlerAt(h, "activate") =>
               handlers[h].code = factor.temp /\ handlers[h].code \in proved

LEMMA FactorStarts == SecondFactorInit => FactorInv
<1> SUFFICES ASSUME SecondFactorInit PROVE FactorInv OBVIOUS
<1> USE DEF SecondFactorInit
<1>1. SecondFactorTypeOK BY DEF SecondFactorTypeOK, Handler, Secret
<1>2. FactorIsProved BY DEF FactorIsProved, HandlerAt
<1>3. ~Overlap /\ \A h \in Handlers : ~HandlerAt(h, "activate") BY DEF Overlap, HandlerAt
<1> QED BY <1>1, <1>2, <1>3 DEF FactorInv

LEMMA FactorTyped ==
  ASSUME SecondFactorTypeOK, SecondFactorNext
  PROVE  SecondFactorTypeOK'
<1> USE DEF SecondFactorTypeOK
<1>1. handlers \in [Handlers -> Handler] /\ factor \in [enabled : BOOLEAN, secret : Secret, temp : Secret]
  OBVIOUS
<1>2. PICK h \in Handlers :
        \/ Receive(h) \/ Setup(h) \/ ConfirmCode(h) \/ Activate(h) \/ ReadForDisable(h)
        \/ Disable(h) \/ PasswordAccepted(h) \/ ChallengePassed(h) \/ RefuseOrFail(h)
  BY DEF SecondFactorNext
<1>3. overtaken' \in BOOLEAN BY Zenon DEF SecondFactorNext
<1>4. \A pc \in {"setup", "confirm", "activate", "disable", "clear", "password",
                 "challenge", "plainLogin", "provedLogin", "done"} :
        HandlerTo(h, pc) => handlers' \in [Handlers -> Handler]
  BY <1>1 DEF HandlerTo, Handler
<1>5. CASE Receive(h)
  <2>1. handlers' \in [Handlers -> Handler]
    <3>1. ASSUME NEW pc \in {"confirm", "password"}, NEW s \in scanned \cup {NoSecret},
                 handlers' = [handlers EXCEPT ![h] = [pc |-> pc, code |-> s]]
          PROVE  handlers' \in [Handlers -> Handler]
      BY <1>1, <3>1 DEF Handler, Secret
    <3> QED BY <1>4, <1>5, <3>1 DEF Receive
  <2> QED BY <1>3, <1>5, <2>1 DEF Receive
<1>6. CASE Setup(h)
  <2>1. PICK s \in Secrets : /\ factor' = [factor EXCEPT !.temp = s]
                             /\ used' = used \cup {s}
                             /\ scanned' \in {scanned, scanned \cup {s}}
    BY <1>6 DEF Setup
  <2>2. factor' \in [enabled : BOOLEAN, secret : Secret, temp : Secret] BY <1>1, <2>1 DEF Secret
  <2>3. handlers' \in [Handlers -> Handler] BY <1>4, <1>6 DEF Setup
  <2> QED BY <1>3, <1>6, <2>1, <2>2, <2>3 DEF Setup
<1>7. CASE ConfirmCode(h)
  <2>1. handlers[h].code \in Secrets
    BY <1>1, <1>7 DEF ConfirmCode, Valid, Handler, Secret
  <2>2. handlers' \in [Handlers -> Handler] BY <1>4, <1>7 DEF ConfirmCode
  <2> QED BY <1>3, <1>7, <2>1, <2>2 DEF ConfirmCode
<1>8. CASE Activate(h) \/ Disable(h)
  <2>1. factor' \in [enabled : BOOLEAN, secret : Secret, temp : Secret]
    <3>1. factor.temp \in Secret /\ NoSecret \in Secret BY <1>1 DEF Secret
    <3>2. CASE Activate(h)
      <4>1. factor' = [enabled |-> TRUE, secret |-> factor.temp, temp |-> NoSecret]
        BY <3>2 DEF Activate
      <4> QED BY <3>1, <4>1
    <3>3. CASE Disable(h)
      <4>1. factor' = [enabled |-> FALSE, secret |-> NoSecret, temp |-> NoSecret]
        BY <3>3 DEF Disable
      <4> QED BY <3>1, <4>1
    <3> QED BY <1>8, <3>2, <3>3
  <2>2. handlers' \in [Handlers -> Handler] BY <1>4, <1>8 DEF Activate, Disable
  <2> QED BY <1>3, <1>8, <2>1, <2>2 DEF Activate, Disable
<1>9. CASE ReadForDisable(h) \/ PasswordAccepted(h) \/ ChallengePassed(h) \/ RefuseOrFail(h)
  <2>1. handlers' \in [Handlers -> Handler]
    BY <1>4, <1>9 DEF ReadForDisable, PasswordAccepted, ChallengePassed, RefuseOrFail
  <2> QED BY <1>3, <1>9, <2>1 DEF ReadForDisable, PasswordAccepted, ChallengePassed, RefuseOrFail
<1> QED BY <1>2, <1>5, <1>6, <1>7, <1>8, <1>9

LEMMA FactorKeeps ==
  ASSUME FactorInv, SecondFactorNext
  PROVE  FactorInv'
<1>1. SecondFactorTypeOK' BY FactorTyped DEF FactorInv
<1> SUFFICES ASSUME ~overtaken'
             PROVE  /\ factor'.enabled => factor'.secret \in proved'
                    /\ \A g \in Handlers :
                          handlers'[g].pc = "provedLogin" => handlers'[g].code \in proved'
                    /\ \A g \in Handlers : handlers'[g].pc = "activate" =>
                          handlers'[g].code = factor'.temp /\ handlers'[g].code \in proved'
  <2>1. ~overtaken' => ~Overlap' BY DEF SecondFactorNext
  <2> QED BY <1>1, <2>1 DEF FactorInv, FactorIsProved, HandlerAt
<1>2. handlers \in [Handlers -> Handler] /\ factor \in [enabled : BOOLEAN, secret : Secret, temp : Secret]
  BY DEF FactorInv, SecondFactorTypeOK
<1>3. /\ ~Overlap
      /\ factor.enabled => factor.secret \in proved
      /\ \A g \in Handlers : handlers[g].pc = "provedLogin" => handlers[g].code \in proved
      /\ \A g \in Handlers : handlers[g].pc = "activate" =>
            handlers[g].code = factor.temp /\ handlers[g].code \in proved
  BY DEF SecondFactorNext, FactorInv, FactorIsProved, HandlerAt
<1>4. PICK h \in Handlers :
        \/ Receive(h) \/ Setup(h) \/ ConfirmCode(h) \/ Activate(h) \/ ReadForDisable(h)
        \/ Disable(h) \/ PasswordAccepted(h) \/ ChallengePassed(h) \/ RefuseOrFail(h)
  BY DEF SecondFactorNext
<1>5. \A g \in Handlers : g # h => handlers'[g] = handlers[g]
  BY <1>2, <1>4 DEF Receive, Setup, ConfirmCode, Activate, ReadForDisable, Disable,
     PasswordAccepted, ChallengePassed, RefuseOrFail, HandlerTo
<1>6. handlers'[h].pc = "activate" => ConfirmCode(h)
  BY <1>2, <1>4 DEF Receive, Setup, ConfirmCode, Activate, ReadForDisable, Disable,
     PasswordAccepted, ChallengePassed, RefuseOrFail, HandlerTo, Handler
<1>7. handlers'[h].pc = "provedLogin" => ChallengePassed(h)
  BY <1>2, <1>4 DEF Receive, Setup, ConfirmCode, Activate, ReadForDisable, Disable,
     PasswordAccepted, ChallengePassed, RefuseOrFail, HandlerTo, Handler
<1>8. proved \subseteq proved'
  BY <1>4 DEF Receive, Setup, ConfirmCode, Activate, ReadForDisable, Disable,
     PasswordAccepted, ChallengePassed, RefuseOrFail
<1>9. \A g \in Handlers : handlers'[g].pc = "provedLogin" => handlers'[g].code \in proved'
  <2>1. CASE ChallengePassed(h)
    <3>1. handlers'[h].code = handlers[h].code BY <1>2, <2>1 DEF ChallengePassed, HandlerTo, Handler
    <3>2. handlers[h].code \in proved BY <1>3, <2>1 DEF ChallengePassed, Valid
    <3> QED BY <1>3, <1>5, <1>8, <3>1, <3>2
  <2>2. CASE ~ChallengePassed(h) BY <1>3, <1>5, <1>7, <1>8, <2>2
  <2> QED BY <2>1, <2>2
<1>10. CASE ConfirmCode(h)
  <2>1. UNCHANGED factor /\ proved' = proved \cup {handlers[h].code}
        /\ handlers[h].code = factor.temp
    BY <1>10 DEF ConfirmCode, Valid
  <2>2. handlers'[h].code = handlers[h].code BY <1>2, <1>10 DEF ConfirmCode, HandlerTo, Handler
  <2> QED BY <1>3, <1>5, <1>9, <2>1, <2>2
<1>11. CASE Activate(h)
  <2>1. factor'.enabled = TRUE /\ factor'.secret = factor.temp BY <1>11 DEF Activate
  <2>2. factor.temp \in proved BY <1>3, <1>11 DEF Activate, HandlerAt
  <2>3. \A g \in Handlers : g # h => handlers[g].pc # "activate"
    BY <1>3, <1>11 DEF Activate, HandlerAt, Overlap
  <2>4. ~ConfirmCode(h) BY <1>11 DEF Activate, ConfirmCode, HandlerAt
  <2> QED BY <1>5, <1>6, <1>8, <1>9, <2>1, <2>2, <2>3, <2>4
<1>12. CASE Setup(h) \/ Disable(h)
  <2>1. \A g \in Handlers : g # h => handlers[g].pc # "activate"
    BY <1>3, <1>12 DEF Setup, Disable, HandlerAt, Overlap
  <2>2. factor'.enabled => factor.enabled /\ factor'.secret = factor.secret
    BY <1>2, <1>12 DEF Setup, Disable
  <2>3. ~ConfirmCode(h) BY <1>12 DEF Setup, Disable, ConfirmCode, HandlerAt
  <2> QED BY <1>3, <1>5, <1>6, <1>8, <1>9, <2>1, <2>2, <2>3
<1>13. CASE UNCHANGED factor /\ ~ConfirmCode(h)
  BY <1>3, <1>5, <1>6, <1>8, <1>9, <1>13
<1>14. \/ ConfirmCode(h) \/ Activate(h) \/ Setup(h) \/ Disable(h)
       \/ UNCHANGED factor
  BY <1>4 DEF Receive, ReadForDisable, PasswordAccepted, ChallengePassed, RefuseOrFail
<1> QED BY <1>10, <1>11, <1>12, <1>13, <1>14

-----------------------------------------------------------------------------
(* Files *)

\* An upload knows its destination only from the move on; early answers are final.
DestKnown ==
    \A u \in Uploads :
        /\ u \in left => uploads[u].pc = "done"
        /\ uploads[u].pc \in {"new", "find", "scan", "move"} => uploads[u].dest = Nothing
        /\ uploads[u].pc \in {"insert", "undoDisk"} => uploads[u].dest # Nothing

\* A temporary file is that of a handler which has not moved it, or was left.
TempIsOwn ==
    mishaps \cap {"killed", "kept"} = {} =>
        \A t \in Millis : temp[t] # Nothing =>
            /\ uploads[temp[t]].at = t
            /\ \/ uploads[temp[t]].pc \in {"find", "scan", "move", "undo"}
               \/ temp[t] \in left

\* With names apart, every handler finds its own bytes under its own names.
OwnFiles ==
    "sameName" \notin mishaps =>
        /\ \A u \in Uploads : Live(u) =>
              /\ temp[uploads[u].at] \in {u, Nothing}
              /\ uploads[u].pc \in {"find", "scan", "move"} => temp[uploads[u].at] = u
              /\ uploads[u].pc \in {"move", "insert"} => u \in passed
              /\ uploads[u].dest # Nothing => disk[uploads[u].dest] \in {u, Nothing}
        /\ \A u, v \in Uploads : Live(u) /\ Live(v) /\ u # v =>
              /\ uploads[u].at # uploads[v].at
              /\ uploads[u].dest # Nothing => uploads[u].dest # uploads[v].dest

\* What is listed has its bytes, and neither an upload nor a removal may still
\* take them away; what is about to be listed has them too.
ListedAreSafe ==
    mishaps \cap {"sameName", "rowUnknown"} = {} =>
        /\ \A row \in rows :
              /\ disk[row[2]] = row[1] /\ row[1] \in passed
              /\ uploads[row[1]].pc = "done"
        /\ \A u \in Uploads : uploads[u].pc = "insert" => disk[uploads[u].dest] = u
        /\ \A p \in removals :
              /\ disk[p] # Nothing
              /\ \A row \in rows : row[2] # p
              /\ \A u \in Uploads : Live(u) => uploads[u].dest # p

FilesInv ==
    /\ StoredFilesTypeOK
    /\ DestKnown
    /\ TempIsOwn
    /\ OwnFiles
    /\ ListedAreSafe
    /\ NothingIsForgotten

LEMMA FilesStart == StoredFilesInit => FilesInv
<1> SUFFICES ASSUME StoredFilesInit PROVE FilesInv OBVIOUS
<1> USE DEF StoredFilesInit, NewUpload
<1>1. StoredFilesTypeOK
  <2>1. 0 \in Millis BY StoredFilesAssumption DEF Millis
  <2> QED BY <2>1 DEF StoredFilesTypeOK, Upload, Kinds
<1>2. DestKnown BY DEF DestKnown
<1>3. TempIsOwn BY DEF TempIsOwn
<1>4. OwnFiles BY DEF OwnFiles, Live
<1>5. ListedAreSafe BY DEF ListedAreSafe
<1>6. NothingIsForgotten BY DEF NothingIsForgotten
<1> QED BY <1>1, <1>2, <1>3, <1>4, <1>5, <1>6 DEF FilesInv

\* The step of upload u, whatever it is: no other handler moves.
UploadStep(u) ==
    \/ Arrive(u) \/ Found(u) \/ LeaveEarly(u) \/ NotFound(u)
    \/ ScannedClean(u) \/ ScanRejects(u) \/ Move(u) \/ MoveFails(u)
    \/ Insert(u) \/ InsertFails(u) \/ Undo(u) \/ UndoDisk(u)

LEMMA UploadTyped ==
  ASSUME StoredFilesTypeOK, DestKnown, NEW u \in Uploads, UploadStep(u)
  PROVE  StoredFilesTypeOK'
<1> USE DEF StoredFilesTypeOK
<1>1. /\ uploads \in [Uploads -> Upload] /\ millis \in Millis
      /\ temp \in [Millis -> Uploads \cup {Nothing}]
      /\ disk \in [Paths -> Uploads \cup {Nothing}]
  OBVIOUS
<1>2. /\ uploads[u].kind \in Kinds /\ uploads[u].at \in Millis
      /\ uploads[u].dest \in Paths \cup {Nothing}
  BY <1>1 DEF Upload
<1>3. Destination(u) \in Paths BY <1>1, <1>2 DEF Destination, Paths
<1>4. \A pc \in {"new", "find", "scan", "move", "insert", "undo", "undoDisk", "done"} :
        UploadTo(u, pc) => uploads' \in [Uploads -> Upload]
  BY <1>1 DEF UploadTo, Upload
<1>5. \A m \in Mishaps : Suffer(m) => mishaps' \in SUBSET Mishaps BY DEF Suffer
<1>6. {"sameName", "rowUnknown", "killed", "kept"} = Mishaps BY DEF Mishaps
<1>7. CASE Arrive(u)
  <2>1. uploads' \in [Uploads -> Upload]
    <3>1. PICK k \in Kinds : uploads' = [uploads EXCEPT ![u] =
              [NewUpload EXCEPT !.kind = k, !.at = millis, !.pc = "find"]]
      BY <1>7 DEF Arrive
    <3>2. [NewUpload EXCEPT !.kind = k, !.at = millis, !.pc = "find"] \in Upload
      BY <1>1 DEF NewUpload, Upload
    <3> QED BY <1>1, <3>1, <3>2
  <2>2. temp' \in [Millis -> Uploads \cup {Nothing}] BY <1>1, <1>7 DEF Arrive
  <2> QED BY <1>5, <1>6, <1>7, <2>1, <2>2 DEF Arrive, SufferIf
<1>8. CASE Found(u) \/ LeaveEarly(u) \/ NotFound(u) \/ ScanRejects(u)
  BY <1>4, <1>8 DEF Found, LeaveEarly, NotFound, ScanRejects
<1>9. CASE ScannedClean(u)
  <2>1. temp[uploads[u].at] \in Uploads \cup {Nothing} BY <1>1, <1>2
  <2> QED BY <1>4, <1>9, <2>1 DEF ScannedClean
<1>10. CASE Move(u)
  <2>1. disk' \in [Paths -> Uploads \cup {Nothing}] /\ temp' \in [Millis -> Uploads \cup {Nothing}]
    BY <1>1, <1>2, <1>3, <1>10 DEF Move
  <2>2. uploads' \in [Uploads -> Upload] BY <1>1, <1>3, <1>10 DEF Move, Upload
  <2> QED BY <1>5, <1>6, <1>10, <2>1, <2>2 DEF Move, SufferIf
<1>11. CASE MoveFails(u)
  <2>1. uploads' \in [Uploads -> Upload] BY <1>1, <1>3, <1>11 DEF MoveFails, Upload
  <2> QED BY <1>5, <1>6, <1>11, <2>1 DEF MoveFails, SufferIf
<1>12. CASE Insert(u) \/ InsertFails(u)
  <2>1. uploads' \in [Uploads -> Upload] BY <1>4, <1>12 DEF Insert, InsertFails
  <2>2. rows' \in SUBSET (Uploads \X Paths)
    <3>1. uploads[u].dest \in Paths BY <1>2, <1>12 DEF Insert, InsertFails, UploadAt, DestKnown
    <3> QED BY <1>12, <3>1 DEF Insert, InsertFails
  <2> QED BY <1>5, <1>6, <1>12, <2>1, <2>2 DEF Insert, InsertFails
<1>13. CASE Undo(u) \/ UndoDisk(u)
  <2>1. uploads' \in [Uploads -> Upload] BY <1>4, <1>13 DEF Undo, UndoDisk
  <2>2. temp' \in [Millis -> Uploads \cup {Nothing}] /\ disk' \in [Paths -> Uploads \cup {Nothing}]
    BY <1>1, <1>13 DEF Undo, UndoDisk
  <2> QED BY <1>5, <1>6, <1>13, <2>1, <2>2 DEF Undo, UndoDisk
<1> QED BY <1>7, <1>8, <1>9, <1>10, <1>11, <1>12, <1>13 DEF UploadStep

\* How an upload's step changes its own handler.
LEMMA UploadMoves ==
  ASSUME StoredFilesTypeOK, NEW u \in Uploads, UploadStep(u)
  PROVE  /\ \A v \in Uploads : v # u => uploads'[v] = uploads[v]
         /\ Arrive(u) => /\ uploads'[u].pc = "find" /\ uploads'[u].at = millis
                         /\ uploads'[u].dest = Nothing
         /\ Move(u) => /\ uploads'[u].pc = "insert" /\ uploads'[u].at = uploads[u].at
                       /\ uploads'[u].dest = Destination(u)
         /\ MoveFails(u) => /\ uploads'[u].pc = "undo" /\ uploads'[u].at = uploads[u].at
                            /\ uploads'[u].dest \in {Destination(u), Nothing}
         /\ ~Arrive(u) /\ ~Move(u) /\ ~MoveFails(u) =>
              /\ uploads'[u].at = uploads[u].at /\ uploads'[u].dest = uploads[u].dest
              /\ Found(u) => uploads'[u].pc = "scan"
              /\ NotFound(u) \/ ScanRejects(u) \/ InsertFails(u) => uploads'[u].pc = "undo"
              /\ LeaveEarly(u) \/ Insert(u) \/ UndoDisk(u) => uploads'[u].pc = "done"
              /\ ScannedClean(u) => uploads'[u].pc = "move"
              /\ Undo(u) => uploads'[u].pc =
                              IF uploads[u].dest = Nothing THEN "done" ELSE "undoDisk"
<1>1. uploads \in [Uploads -> Upload] BY DEF StoredFilesTypeOK
<1>2. CASE Arrive(u)
  <2>1. PICK k \in Kinds : uploads' = [uploads EXCEPT ![u] =
              [NewUpload EXCEPT !.kind = k, !.at = millis, !.pc = "find"]]
    BY <1>2 DEF Arrive
  <2>2. /\ [NewUpload EXCEPT !.kind = k, !.at = millis, !.pc = "find"].pc = "find"
        /\ [NewUpload EXCEPT !.kind = k, !.at = millis, !.pc = "find"].at = millis
        /\ [NewUpload EXCEPT !.kind = k, !.at = millis, !.pc = "find"].dest = Nothing
    BY DEF NewUpload
  <2>3. ~Move(u) /\ ~MoveFails(u) BY <1>2 DEF Arrive, Move, MoveFails, UploadAt
  <2> QED BY <1>1, <1>2, <2>1, <2>2, <2>3
<1>3. CASE Move(u)
  <2>1. ~Arrive(u) BY <1>3 DEF Move, Arrive, UploadAt
  <2>2. uploads'[u].pc = "insert" BY <1>1, <1>3 DEF Move, Upload
  <2>3. ~MoveFails(u) BY <1>1, <2>2 DEF MoveFails, Upload
  <2> QED BY <1>1, <1>3, <2>1, <2>2, <2>3 DEF Move, Upload
<1>4. CASE MoveFails(u)
  <2>1. ~Arrive(u) BY <1>4 DEF MoveFails, Arrive, UploadAt
  <2>2. uploads'[u].pc = "undo" BY <1>1, <1>4 DEF MoveFails, Upload
  <2>3. ~Move(u) BY <1>1, <2>2 DEF Move, Upload
  <2> QED BY <1>1, <1>4, <2>1, <2>2, <2>3 DEF MoveFails, Upload
<1>5. CASE ~Arrive(u) /\ ~Move(u) /\ ~MoveFails(u)
  <2>1. PICK pc : uploads' = [uploads EXCEPT ![u].pc = pc]
    BY <1>5 DEF UploadStep, Found, LeaveEarly, NotFound, ScannedClean, ScanRejects,
       Insert, InsertFails, Undo, UndoDisk, UploadTo
  <2>2. /\ \A v \in Uploads : v # u => uploads'[v] = uploads[v]
        /\ uploads'[u].at = uploads[u].at /\ uploads'[u].dest = uploads[u].dest
        /\ uploads'[u].pc = pc
    BY <1>1, <2>1 DEF Upload
  <2>3. \A x : UploadTo(u, x) => uploads'[u].pc = x
    BY <1>1 DEF UploadTo, Upload
  <2> QED BY <1>5, <2>2, <2>3 DEF Found, LeaveEarly, NotFound, ScannedClean, ScanRejects,
         Insert, InsertFails, Undo, UndoDisk
<1> QED BY <1>2, <1>3, <1>4, <1>5

LEMMA UploadKnowsDest ==
  ASSUME FilesInv, NEW u \in Uploads, UploadStep(u)
  PROVE  DestKnown'
<1>1. StoredFilesTypeOK /\ DestKnown BY DEF FilesInv
<1>2. Destination(u) # Nothing
  <2>1. Destination(u) \in Paths
    BY <1>1 DEF StoredFilesTypeOK, Upload, Destination, Paths
  <2> QED BY <2>1, StoredFilesAssumption
<1>3. uploads[u].pc # "done" /\ (left' = left \/ (left' = left \cup {u} /\ LeaveEarly(u)))
  BY DEF UploadStep, Arrive, Found, LeaveEarly, NotFound, ScannedClean, ScanRejects, Move,
     MoveFails, Insert, InsertFails, Undo, UndoDisk, UploadAt
<1>4. u \in left' => uploads'[u].pc = "done"
  <2>1. u \in left' => LeaveEarly(u) BY <1>1, <1>3 DEF DestKnown
  <2>2. LeaveEarly(u) => ~Arrive(u) /\ ~Move(u) /\ ~MoveFails(u)
    BY DEF LeaveEarly, Arrive, Move, MoveFails, UploadAt
  <2> QED BY <1>1, <2>1, <2>2, UploadMoves
<1>5. /\ uploads'[u].pc \in {"new", "find", "scan", "move"} => uploads'[u].dest = Nothing
      /\ uploads'[u].pc \in {"insert", "undoDisk"} => uploads'[u].dest # Nothing
  <2>1. CASE Arrive(u) \/ Move(u) \/ MoveFails(u) BY <1>1, <1>2, <2>1, UploadMoves
  <2>2. CASE ~Arrive(u) /\ ~Move(u) /\ ~MoveFails(u)
    <3>1. Found(u) \/ ScannedClean(u) => uploads[u].dest = Nothing
      BY <1>1 DEF DestKnown, Found, ScannedClean, UploadAt
    <3> QED BY <1>1, <2>2, <3>1, UploadMoves DEF UploadStep
  <2> QED BY <2>1, <2>2
<1>6. \A v \in Uploads : v # u => uploads'[v] = uploads[v] /\ (v \in left' => v \in left)
  BY <1>1, <1>3, UploadMoves
<1> QED BY <1>1, <1>4, <1>5, <1>6 DEF DestKnown

LEMMA UploadOwnsTemp ==
  ASSUME FilesInv, NEW u \in Uploads, UploadStep(u)
  PROVE  TempIsOwn'
<1> SUFFICES ASSUME mishaps' \cap {"killed", "kept"} = {},
                    NEW t \in Millis, temp'[t] # Nothing
             PROVE  /\ uploads'[temp'[t]].at = t
                    /\ \/ uploads'[temp'[t]].pc \in {"find", "scan", "move", "undo"}
                       \/ temp'[t] \in left'
  BY DEF TempIsOwn
<1>1. /\ StoredFilesTypeOK
      /\ temp \in [Millis -> Uploads \cup {Nothing}] /\ millis \in Millis
      /\ uploads[u].at \in Millis
      /\ Nothing \notin Uploads
  BY StoredFilesAssumption DEF FilesInv, StoredFilesTypeOK, Upload
<1>2. mishaps \subseteq mishaps' /\ left \subseteq left' /\ u \notin left
  BY DEF UploadStep, Arrive, Found, LeaveEarly, NotFound, ScannedClean, ScanRejects, Move,
     MoveFails, Insert, InsertFails, Undo, UndoDisk, Suffer, SufferIf,
     FilesInv, DestKnown, UploadAt
<1>3. temp[t] # Nothing =>
        /\ uploads[temp[t]].at = t
        /\ uploads[temp[t]].pc \in {"find", "scan", "move", "undo"} \/ temp[t] \in left
  BY <1>2 DEF FilesInv, TempIsOwn
<1>4. temp[t] = u => uploads[u].pc \in {"find", "scan", "move", "undo"}
  BY <1>1, <1>2, <1>3
<1>5. CASE temp'[t] = temp[t] /\ temp[t] # u
  <2>1. uploads'[temp[t]] = uploads[temp[t]] BY <1>1, <1>5, UploadMoves
  <2> QED BY <1>2, <1>3, <1>5, <2>1
<1>6. CASE Arrive(u) /\ temp'[t] = u /\ t = millis
  BY <1>1, <1>6, UploadMoves
<1>7. CASE temp'[t] = temp[t] /\ temp[t] = u
  <2>1. uploads[u].at = t BY <1>1, <1>3, <1>7
  <2>2. ~Arrive(u) /\ ~Insert(u) /\ ~InsertFails(u) /\ ~UndoDisk(u)
    BY <1>4, <1>7 DEF Arrive, Insert, InsertFails, UndoDisk, UploadAt
  <2>3. ~Move(u) BY <1>1, <1>7, <2>1 DEF Move
  <2>4. ~Undo(u) BY <1>1, <1>7, <2>1 DEF Undo, Suffer
  <2>5. CASE LeaveEarly(u)
    <3>1. u \in left' BY <2>5 DEF LeaveEarly
    <3>2. ~MoveFails(u) BY <2>5 DEF LeaveEarly, MoveFails, UploadAt
    <3> QED BY <1>1, <1>7, <2>1, <2>2, <2>3, <3>1, <3>2, UploadMoves
  <2>6. CASE Found(u) \/ NotFound(u) \/ ScannedClean(u) \/ ScanRejects(u) \/ MoveFails(u)
    <3>1. uploads'[u].at = uploads[u].at BY <1>1, <2>2, <2>3, UploadMoves
    <3>2. MoveFails(u) => uploads'[u].pc = "undo" BY <1>1, UploadMoves
    <3>3. ~MoveFails(u) => uploads'[u].pc \in {"scan", "undo", "move"}
      BY <1>1, <2>2, <2>3, <2>6, UploadMoves
    <3> QED BY <1>7, <2>1, <3>1, <3>2, <3>3
  <2> QED BY <2>2, <2>3, <2>4, <2>5, <2>6 DEF UploadStep
<1>8. \/ temp'[t] = temp[t]
      \/ Arrive(u) /\ temp'[t] = u /\ t = millis
  BY <1>1 DEF UploadStep, Arrive, Found, LeaveEarly, NotFound, ScannedClean, ScanRejects, Move,
     MoveFails, Insert, InsertFails, Undo, UndoDisk
<1> QED BY <1>5, <1>6, <1>7, <1>8

LEMMA UploadOwnsFiles ==
  ASSUME FilesInv, NEW u \in Uploads, UploadStep(u)
  PROVE  OwnFiles'
<1> DEFINE Own(v) ==
      /\ temp[uploads[v].at] \in {v, Nothing}
      /\ uploads[v].pc \in {"find", "scan", "move"} => temp[uploads[v].at] = v
      /\ uploads[v].pc \in {"move", "insert"} => v \in passed
      /\ uploads[v].dest # Nothing => disk[uploads[v].dest] \in {v, Nothing}
           Apart(v, w) ==
      /\ uploads[v].at # uploads[w].at
      /\ uploads[v].dest # Nothing => uploads[v].dest # uploads[w].dest
<1> SUFFICES ASSUME "sameName" \notin mishaps'
             PROVE  /\ \A v \in Uploads : Live(v)' => Own(v)'
                    /\ \A v, w \in Uploads : Live(v)' /\ Live(w)' /\ v # w => Apart(v, w)'
  BY DEF OwnFiles
<1>1. /\ StoredFilesTypeOK /\ uploads \in [Uploads -> Upload]
      /\ temp \in [Millis -> Uploads \cup {Nothing}] /\ millis \in Millis
      /\ disk \in [Paths -> Uploads \cup {Nothing}]
      /\ Nothing \notin Uploads /\ Nothing \notin Paths
  BY StoredFilesAssumption DEF FilesInv, StoredFilesTypeOK
<1>2. \A v \in Uploads : uploads[v].at \in Millis /\ uploads[v].dest \in Paths \cup {Nothing}
  BY <1>1 DEF Upload
<1>3. "sameName" \notin mishaps /\ passed \subseteq passed'
  BY DEF UploadStep, Arrive, Found, LeaveEarly, NotFound, ScannedClean, ScanRejects, Move,
     MoveFails, Insert, InsertFails, Undo, UndoDisk, Suffer, SufferIf
<1>4. /\ \A v \in Uploads : Live(v) => Own(v)
      /\ \A v, w \in Uploads : Live(v) /\ Live(w) /\ v # w => Apart(v, w)
  BY <1>3 DEF FilesInv, OwnFiles
<1>5. \A v \in Uploads : v # u => uploads'[v] = uploads[v] /\ (Live(v)' <=> Live(v))
  BY <1>1, UploadMoves DEF Live
<1>6. Destination(u) \in Paths BY <1>1 DEF Destination, Paths, Upload
<1>7. SUFFICES /\ Live(u)' => Own(u)'
               /\ \A v \in Uploads : v # u /\ Live(v) =>
                     Own(v)' /\ (Live(u)' => Apart(u, v)' /\ Apart(v, u)')
  <2>1. ASSUME NEW v \in Uploads, NEW w \in Uploads, v # u, w # u, v # w, Live(v), Live(w)
        PROVE  Apart(v, w)'
    BY <1>4, <1>5, <2>1
  <2> QED BY <1>5, <2>1
<1>8. CASE Arrive(u)
  <2>1. /\ temp' = [temp EXCEPT ![millis] = u] /\ temp[millis] = Nothing
        /\ \A v \in Uploads : Live(v) => uploads[v].at # millis
        /\ UNCHANGED <<disk, passed>>
    BY <1>8 DEF Arrive, SufferIf, Suffer
  <2>2. uploads'[u].pc = "find" /\ uploads'[u].at = millis /\ uploads'[u].dest = Nothing
    BY <1>1, <1>8, UploadMoves
  <2> QED BY <1>1, <1>2, <1>4, <1>5, <2>1, <2>2
<1>9. CASE Move(u)
  <2>1. /\ uploads[u].pc = "move" /\ Live(u)
        /\ disk' = [disk EXCEPT ![Destination(u)] = temp[uploads[u].at]]
        /\ temp' = [temp EXCEPT ![uploads[u].at] = Nothing]
        /\ disk[Destination(u)] = Nothing
        /\ \A v \in Uploads : Live(v) => uploads[v].dest # Destination(u)
        /\ UNCHANGED passed
    BY <1>9 DEF Move, SufferIf, Suffer, UploadAt, Live
  <2>2. /\ uploads'[u].pc = "insert" /\ uploads'[u].at = uploads[u].at
        /\ uploads'[u].dest = Destination(u)
    BY <1>1, <1>9, UploadMoves
  <2>3. temp[uploads[u].at] = u /\ u \in passed BY <1>4, <2>1
  <2>4. Own(u)' BY <1>1, <1>2, <1>6, <2>1, <2>2, <2>3
  <2>5. ASSUME NEW v \in Uploads, v # u, Live(v)
        PROVE  Own(v)' /\ Apart(u, v)' /\ Apart(v, u)'
    <3>1. Own(v) /\ uploads[v].at # uploads[u].at /\ uploads[v].dest # Destination(u)
          /\ uploads'[v] = uploads[v]
      BY <1>4, <1>5, <2>1, <2>5
    <3>2. temp'[uploads[v].at] = temp[uploads[v].at] BY <1>1, <1>2, <2>1, <3>1
    <3>3. uploads[v].dest # Nothing => disk'[uploads[v].dest] = disk[uploads[v].dest]
      BY <1>1, <1>2, <2>1, <3>1
    <3> QED BY <2>1, <2>2, <3>1, <3>2, <3>3
  <2> QED BY <2>4, <2>5
<1>10. CASE MoveFails(u)
  <2>1. /\ uploads[u].pc = "move" /\ Live(u)
        /\ uploads'[u].dest # Nothing =>
             /\ disk[Destination(u)] = Nothing
             /\ \A v \in Uploads : Live(v) => uploads[v].dest # Destination(u)
        /\ UNCHANGED <<temp, disk, passed>>
    BY <1>1, <1>6, <1>10 DEF MoveFails, SufferIf, Suffer, UploadAt, Live, Upload
  <2>2. /\ uploads'[u].pc = "undo" /\ uploads'[u].at = uploads[u].at
        /\ uploads'[u].dest \in {Destination(u), Nothing}
    BY <1>1, <1>10, UploadMoves
  <2>3. Own(u)' BY <1>4, <2>1, <2>2
  <2>4. ASSUME NEW v \in Uploads, v # u, Live(v)
        PROVE  Own(v)' /\ Apart(u, v)' /\ Apart(v, u)'
    <3>1. Own(v) /\ uploads[v].at # uploads[u].at /\ uploads'[v] = uploads[v]
      BY <1>4, <1>5, <2>1, <2>4
    <3> QED BY <2>1, <2>2, <2>4, <3>1
  <2> QED BY <2>3, <2>4
<1>11. CASE ~Arrive(u) /\ ~Move(u) /\ ~MoveFails(u)
  <2>1. Live(u)
    BY <1>11 DEF UploadStep, Found, LeaveEarly, NotFound, ScannedClean, ScanRejects, Insert,
       InsertFails, Undo, UndoDisk, UploadAt, Live
  <2>2. uploads'[u].at = uploads[u].at /\ uploads'[u].dest = uploads[u].dest
    BY <1>1, <1>11, UploadMoves
  <2>3. /\ \A t \in Millis : temp'[t] = temp[t] \/ (temp'[t] = Nothing /\ t = uploads[u].at)
        /\ \A p \in Paths : disk'[p] = disk[p] \/ (disk'[p] = Nothing /\ p = uploads[u].dest)
    BY <1>1, <1>11 DEF UploadStep, Found, LeaveEarly, NotFound, ScannedClean, ScanRejects,
       Insert, InsertFails, Undo, UndoDisk
  <2>4. ASSUME NEW v \in Uploads, v # u, Live(v)
        PROVE  Own(v)' /\ Apart(u, v)' /\ Apart(v, u)'
    <3>1. Own(v) /\ Apart(v, u) /\ Apart(u, v) /\ uploads'[v] = uploads[v]
      BY <1>4, <1>5, <2>1, <2>4
    <3>2. temp'[uploads[v].at] = temp[uploads[v].at] BY <1>2, <2>3, <3>1
    <3>3. uploads[v].dest # Nothing => disk'[uploads[v].dest] \in {disk[uploads[v].dest], Nothing}
      BY <1>2, <2>3
    <3>4. Apart(u, v)' /\ Apart(v, u)' BY <2>2, <3>1
    <3> QED BY <1>3, <3>1, <3>2, <3>3, <3>4
  <2>5. Live(u)' => Own(u)'
    <3>1. CASE Found(u) \/ ScannedClean(u)
      <4>1. /\ UNCHANGED <<temp, disk>> /\ uploads[u].pc \in {"find", "scan"}
            /\ uploads'[u].pc \in {"scan", "move"}
            /\ temp[uploads[u].at] = u
            /\ ScannedClean(u) => u \in passed'
        BY <1>1, <1>4, <1>11, <2>1, <3>1, UploadMoves DEF Found, ScannedClean, UploadAt
      <4>2. Found(u) => uploads'[u].pc = "scan" BY <1>1, <1>11, UploadMoves
      <4> QED BY <1>4, <2>1, <2>2, <3>1, <4>1, <4>2
    <3>2. CASE ~Found(u) /\ ~ScannedClean(u)
      <4>1. uploads'[u].pc \in {"undo", "done", "undoDisk"}
        BY <1>1, <1>11, <3>2, UploadMoves DEF UploadStep
      <4>2. temp'[uploads[u].at] \in {u, Nothing} BY <1>2, <1>4, <2>1, <2>3
      <4>3. uploads[u].dest # Nothing => disk'[uploads[u].dest] \in {u, Nothing}
        BY <1>2, <1>4, <2>1, <2>3
      <4> QED BY <2>2, <4>1, <4>2, <4>3
    <3> QED BY <3>1, <3>2
  <2> QED BY <2>4, <2>5
<1> QED BY <1>8, <1>9, <1>10, <1>11

LEMMA UploadKeepsListed ==
  ASSUME FilesInv, NEW u \in Uploads, UploadStep(u)
  PROVE  ListedAreSafe'
<1> SUFFICES ASSUME mishaps' \cap {"sameName", "rowUnknown"} = {}
             PROVE  /\ \A row \in rows' :
                          /\ disk'[row[2]] = row[1] /\ row[1] \in passed'
                          /\ uploads'[row[1]].pc = "done"
                    /\ \A v \in Uploads : uploads'[v].pc = "insert" => disk'[uploads'[v].dest] = v
                    /\ \A p \in removals' :
                          /\ disk'[p] # Nothing
                          /\ \A row \in rows' : row[2] # p
                          /\ \A v \in Uploads : Live(v)' => uploads'[v].dest # p
  BY DEF ListedAreSafe
<1>1. /\ StoredFilesTypeOK /\ uploads \in [Uploads -> Upload]
      /\ disk \in [Paths -> Uploads \cup {Nothing}]
      /\ rows \in SUBSET (Uploads \X Paths) /\ removals \in SUBSET Paths
      /\ Nothing \notin Uploads /\ Nothing \notin Paths
  BY StoredFilesAssumption DEF FilesInv, StoredFilesTypeOK
<1>2. \A v \in Uploads : uploads[v].dest \in Paths \cup {Nothing}
  BY <1>1 DEF Upload
<1>3. "sameName" \notin mishaps /\ "rowUnknown" \notin mishaps /\ passed \subseteq passed'
      /\ uploads[u].pc # "done" /\ UNCHANGED removals
  BY DEF UploadStep, Arrive, Found, LeaveEarly, NotFound, ScannedClean, ScanRejects, Move,
     MoveFails, Insert, InsertFails, Undo, UndoDisk, Suffer, SufferIf, UploadAt
<1>4. /\ \A row \in rows : /\ disk[row[2]] = row[1] /\ row[1] \in passed
                           /\ uploads[row[1]].pc = "done" /\ row[1] # u
                           /\ row[1] \in Uploads /\ row[2] \in Paths
      /\ \A v \in Uploads : uploads[v].pc = "insert" => disk[uploads[v].dest] = v
      /\ \A p \in removals :
            /\ disk[p] # Nothing
            /\ \A row \in rows : row[2] # p
            /\ \A v \in Uploads : Live(v) => uploads[v].dest # p
  BY <1>1, <1>3 DEF FilesInv, ListedAreSafe
<1>5. /\ \A v \in Uploads : Live(v) /\ uploads[v].dest # Nothing =>
            disk[uploads[v].dest] \in {v, Nothing}
      /\ \A v \in Uploads : uploads[v].pc \in {"move", "insert"} => v \in passed
      /\ \A v, w \in Uploads : Live(v) /\ Live(w) /\ v # w /\ uploads[v].dest # Nothing =>
            uploads[v].dest # uploads[w].dest
  BY <1>3 DEF FilesInv, OwnFiles, Live
<1>6. \A v \in Uploads : v # u => uploads'[v] = uploads[v] /\ (Live(v)' <=> Live(v))
  BY <1>1, UploadMoves DEF Live
<1>7. \A v \in Uploads : uploads[v].pc = "insert" => uploads[v].dest \in Paths
  BY <1>2 DEF FilesInv, DestKnown
<1>8. Destination(u) \in Paths
  BY <1>1 DEF StoredFilesTypeOK, Destination, Paths, Upload
<1>9. CASE Move(u)
  <2>1. /\ uploads[u].pc = "move" /\ Live(u)
        /\ disk' = [disk EXCEPT ![Destination(u)] = temp[uploads[u].at]]
        /\ disk[Destination(u)] = Nothing /\ Destination(u) \notin removals
        /\ \A v \in Uploads : Live(v) => uploads[v].dest # Destination(u)
        /\ UNCHANGED rows
    BY <1>9 DEF Move, SufferIf, Suffer, UploadAt, Live
  <2>2. uploads'[u].pc = "insert" /\ uploads'[u].dest = Destination(u)
    BY <1>1, <1>9, UploadMoves
  <2>3. temp[uploads[u].at] = u BY <1>3, <2>1 DEF FilesInv, OwnFiles
  <2>4. \A p \in Paths : p # Destination(u) => disk'[p] = disk[p] BY <1>1, <2>1
  <2>5. \A row \in rows : row[2] # Destination(u) BY <1>1, <1>4, <2>1
  <2>6. disk'[Destination(u)] = u BY <1>1, <1>8, <2>1, <2>3
  <2>7. ASSUME NEW v \in Uploads, v # u, uploads[v].pc = "insert"
        PROVE  disk'[uploads[v].dest] = v
    <3>1. uploads[v].dest # Destination(u) BY <2>1, <2>7 DEF Live
    <3> QED BY <1>4, <1>7, <2>4, <2>7, <3>1
  <2> QED BY <1>1, <1>3, <1>4, <1>6, <2>1, <2>2, <2>4, <2>5, <2>6, <2>7
<1>10. CASE MoveFails(u)
  <2>1. /\ uploads'[u].dest # Nothing => disk[Destination(u)] = Nothing
        /\ UNCHANGED <<disk, rows>>
    BY <1>1, <1>8, <1>10 DEF MoveFails, SufferIf, Suffer, UploadAt, Upload
  <2>2. uploads'[u].pc = "undo" /\ uploads'[u].dest \in {Destination(u), Nothing}
    BY <1>1, <1>10, UploadMoves
  <2>3. \A p \in removals : uploads'[u].dest # p BY <1>1, <1>4, <2>1, <2>2
  <2> QED BY <1>3, <1>4, <1>6, <2>1, <2>2, <2>3
<1>11. CASE Arrive(u)
  <2>1. UNCHANGED <<disk, rows>> BY <1>11 DEF Arrive
  <2>2. uploads'[u].pc = "find" /\ uploads'[u].dest = Nothing
    BY <1>1, <1>11, UploadMoves
  <2> QED BY <1>1, <1>3, <1>4, <1>6, <2>1, <2>2
<1>12. CASE ~Arrive(u) /\ ~Move(u) /\ ~MoveFails(u)
  <2>1. Live(u)
    BY <1>12 DEF UploadStep, Found, LeaveEarly, NotFound, ScannedClean, ScanRejects, Insert,
       InsertFails, Undo, UndoDisk, UploadAt, Live
  <2>2. uploads'[u].dest = uploads[u].dest /\ uploads'[u].pc # "insert"
    BY <1>1, <1>12, UploadMoves DEF UploadStep
  <2>3. \A p \in removals : uploads'[u].dest # p BY <1>4, <2>1, <2>2
  <2>4. CASE Insert(u)
    <3>1. rows' = rows \cup {<<u, uploads[u].dest>>} /\ UNCHANGED <<disk, passed>>
          /\ uploads[u].pc = "insert"
      BY <2>4 DEF Insert, UploadAt
    <3>2. uploads'[u].pc = "done" BY <1>1, <1>12, <2>4, UploadMoves
    <3>3. disk[uploads[u].dest] = u /\ u \in passed BY <1>4, <1>5, <3>1
    <3>4. ASSUME NEW row \in rows'
          PROVE  /\ disk'[row[2]] = row[1] /\ row[1] \in passed' /\ uploads'[row[1]].pc = "done"
                 /\ \A p \in removals : row[2] # p
      <4>1. CASE row \in rows BY <1>4, <1>6, <3>1, <4>1
      <4>2. CASE row = <<u, uploads[u].dest>> BY <1>4, <2>1, <3>1, <3>2, <3>3, <4>2
      <4> QED BY <3>1, <4>1, <4>2
    <3> QED BY <1>3, <1>4, <1>6, <2>2, <2>3, <3>1, <3>4
  <2>5. CASE UndoDisk(u)
    <3>1. UNCHANGED rows /\ \/ disk' = [disk EXCEPT ![uploads[u].dest] = Nothing]
                            \/ UNCHANGED disk
      BY <2>5 DEF UndoDisk
    <3>2. \A p \in Paths : p # uploads[u].dest => disk'[p] = disk[p] BY <1>1, <3>1
    <3>3. ASSUME NEW row \in rows PROVE row[2] # uploads[u].dest
      BY <1>1, <1>4, <1>5, <2>1
    <3>4. ASSUME NEW v \in Uploads, v # u, uploads[v].pc = "insert"
          PROVE  uploads[v].dest # uploads[u].dest
      BY <1>1, <1>5, <1>7, <2>1, <3>4 DEF Live
    <3> QED BY <1>1, <1>3, <1>4, <1>6, <1>7, <2>2, <2>3, <3>1, <3>2, <3>3, <3>4
  <2>6. CASE ~Insert(u) /\ ~UndoDisk(u)
    <3>1. UNCHANGED <<disk, rows>>
      BY <1>12, <2>6 DEF UploadStep, Found, LeaveEarly, NotFound, ScannedClean, ScanRejects,
         InsertFails, Undo, Suffer
    <3> QED BY <1>3, <1>4, <1>6, <2>2, <2>3, <3>1
  <2> QED BY <2>4, <2>5, <2>6
<1> QED BY <1>9, <1>10, <1>11, <1>12

LEMMA UploadForgetsNothing ==
  ASSUME FilesInv, NEW u \in Uploads, UploadStep(u), TempIsOwn', StoredFilesTypeOK'
  PROVE  NothingIsForgotten'
<1> SUFFICES ASSUME mishaps' \cap {"killed", "kept"} = {}
             PROVE  /\ "sameName" \notin mishaps' =>
                         \A p \in Paths : disk'[p] # Nothing =>
                            \/ <<disk'[p], p>> \in rows'
                            \/ p \in removals'
                            \/ \E v \in Uploads : Live(v)' /\ uploads'[v].dest = p
                    /\ \A t \in Millis : temp'[t] # Nothing =>
                          uploads'[temp'[t]].pc \notin {"new", "done"} \/ temp'[t] \in left'
  BY DEF NothingIsForgotten, Live
<1>1. /\ StoredFilesTypeOK /\ uploads \in [Uploads -> Upload]
      /\ disk \in [Paths -> Uploads \cup {Nothing}]
      /\ Nothing \notin Uploads /\ Nothing \notin Paths
  BY StoredFilesAssumption DEF FilesInv, StoredFilesTypeOK
<1>2. \A t \in Millis : temp'[t] # Nothing => 
        uploads'[temp'[t]].pc \notin {"new", "done"} \/ temp'[t] \in left'
  BY DEF TempIsOwn
<1>3. ASSUME "sameName" \notin mishaps', NEW p \in Paths, disk'[p] # Nothing
      PROVE  \/ <<disk'[p], p>> \in rows'
             \/ p \in removals'
             \/ \E v \in Uploads : Live(v)' /\ uploads'[v].dest = p
  <2>1. mishaps \cap {"killed", "kept", "sameName"} = {} /\ rows \subseteq rows'
        /\ UNCHANGED removals
    BY <1>3 DEF UploadStep, Arrive, Found, LeaveEarly, NotFound, ScannedClean, ScanRejects,
       Move, MoveFails, Insert, InsertFails, Undo, UndoDisk, Suffer, SufferIf
  <2>2. disk[p] # Nothing =>
          \/ <<disk[p], p>> \in rows \/ p \in removals
          \/ \E v \in Uploads : Live(v) /\ uploads[v].dest = p
    BY <2>1 DEF FilesInv, NothingIsForgotten
  <2>3. \A v \in Uploads : v # u => uploads'[v] = uploads[v] /\ (Live(v)' <=> Live(v))
    BY <1>1, UploadMoves DEF Live
  <2>4. CASE Move(u) /\ p = Destination(u)
    BY <1>1, <2>4, UploadMoves DEF Live
  <2>5. CASE disk'[p] = disk[p]
    <3>1. CASE Live(u) /\ uploads[u].dest = p
      <4>1. ~Arrive(u) /\ ~Move(u) /\ ~MoveFails(u)
        BY <1>1, <3>1 DEF Arrive, Move, MoveFails, UploadAt, Live, FilesInv, DestKnown
      <4>2. uploads'[u].dest = p BY <1>1, <3>1, <4>1, UploadMoves
      <4>3. CASE Insert(u)
        <5>1. disk[p] = u
          BY <1>3, <2>1, <2>5, <3>1, <1>1 DEF FilesInv, OwnFiles
        <5> QED BY <2>5, <3>1, <4>3, <5>1 DEF Insert
      <4>4. CASE UndoDisk(u)
        <5>1. disk' = [disk EXCEPT ![p] = Nothing] BY <1>3, <3>1, <4>4 DEF UndoDisk, Suffer
        <5> QED BY <1>1, <1>3, <5>1
      <4>5. CASE ~Insert(u) /\ ~UndoDisk(u)
        <5>1. uploads[u].pc # "find"
          BY <1>1, <3>1 DEF FilesInv, DestKnown
        <5>2. uploads'[u].pc \in {"undo", "undoDisk", "scan", "move"}
          BY <1>1, <3>1, <4>1, <4>5, <5>1, UploadMoves DEF UploadStep, LeaveEarly, UploadAt
        <5> QED BY <4>2, <5>2 DEF Live
      <4> QED BY <4>3, <4>4, <4>5
    <3>2. CASE ~(Live(u) /\ uploads[u].dest = p)
      BY <1>3, <2>1, <2>2, <2>3, <2>5, <3>2
    <3> QED BY <3>1, <3>2
  <2>6. \/ disk'[p] \in {disk[p], Nothing}
        \/ Move(u) /\ p = Destination(u)
    BY <1>1 DEF UploadStep, Arrive, Found, LeaveEarly, NotFound, ScannedClean, ScanRejects,
       Move, MoveFails, Insert, InsertFails, Undo, UndoDisk
  <2> QED BY <1>3, <2>4, <2>5, <2>6
<1> QED BY <1>2, <1>3

LEMMA FilesKeep ==
  ASSUME FilesInv, StoredFilesNext
  PROVE  FilesInv'
<1>1. /\ StoredFilesTypeOK /\ DestKnown /\ uploads \in [Uploads -> Upload]
      /\ temp \in [Millis -> Uploads \cup {Nothing}]
      /\ disk \in [Paths -> Uploads \cup {Nothing}]
      /\ rows \in SUBSET (Uploads \X Paths) /\ removals \in SUBSET Paths
      /\ mishaps \in SUBSET Mishaps
      /\ Nothing \notin Uploads /\ Nothing \notin Paths
  BY StoredFilesAssumption DEF FilesInv, StoredFilesTypeOK
<1>2. ASSUME NEW u \in Uploads, UploadStep(u) PROVE FilesInv'
  <2>1. StoredFilesTypeOK' BY <1>1, <1>2, UploadTyped
  <2>2. TempIsOwn' BY <1>2, UploadOwnsTemp
  <2>3. NothingIsForgotten' BY <1>2, <2>1, <2>2, UploadForgetsNothing
  <2> QED BY <1>2, <2>1, <2>2, <2>3, UploadKnowsDest, UploadOwnsFiles, UploadKeepsListed
          DEF FilesInv
<1>3. ASSUME NEW u \in Uploads, DeleteRow(u) PROVE FilesInv'
  <2>1. PICK p \in Paths : /\ <<u, p>> \in rows
                           /\ rows' = rows \ {<<u, p>>}
                           /\ removals' = removals \cup {p}
    BY <1>3 DEF DeleteRow
  <2>2. UNCHANGED <<millis, temp, disk, uploads, passed, left, mishaps>>
    BY <1>3 DEF DeleteRow
  <2>3. StoredFilesTypeOK' BY <1>1, <2>1, <2>2 DEF StoredFilesTypeOK
  <2>4. DestKnown' /\ TempIsOwn' /\ OwnFiles'
    BY <2>2 DEF FilesInv, DestKnown, TempIsOwn, OwnFiles, Live
  <2>5. ListedAreSafe'
    <3> SUFFICES ASSUME mishaps \cap {"sameName", "rowUnknown"} = {}
                 PROVE  /\ \A row \in rows' : row[2] # p
                        /\ disk[p] # Nothing
                        /\ \A v \in Uploads : Live(v) => uploads[v].dest # p
      BY <2>1, <2>2 DEF ListedAreSafe, FilesInv, Live
    <3>1. /\ \A row \in rows : disk[row[2]] = row[1] /\ uploads[row[1]].pc = "done"
          /\ disk[p] = u /\ uploads[u].pc = "done"
      BY <2>1 DEF FilesInv, ListedAreSafe
    <3>2. ASSUME NEW row \in rows, row[2] = p PROVE row = <<u, p>>
      <4>1. row[1] = u BY <3>1, <3>2
      <4> QED BY <1>1, <3>2, <4>1
    <3>3. ASSUME NEW v \in Uploads, Live(v), uploads[v].dest = p PROVE FALSE
      BY <1>1, <3>1, <3>3 DEF FilesInv, OwnFiles, Live
    <3> QED BY <1>1, <2>1, <3>1, <3>2, <3>3
  <2>6. NothingIsForgotten'
    BY <1>1, <2>1, <2>2 DEF FilesInv, NothingIsForgotten, Live
  <2> QED BY <2>3, <2>4, <2>5, <2>6 DEF FilesInv
<1>4. ASSUME NEW p \in Paths, Unlink(p) PROVE FilesInv'
  <2>1. /\ p \in removals /\ removals' = removals \ {p}
        /\ \/ disk' = [disk EXCEPT ![p] = Nothing] /\ UNCHANGED mishaps
           \/ UNCHANGED disk /\ mishaps' = mishaps \cup {"kept"}
        /\ UNCHANGED <<millis, temp, rows, uploads, passed, left>>
    BY <1>4 DEF Unlink, Suffer
  <2>2. StoredFilesTypeOK' BY <1>1, <2>1 DEF StoredFilesTypeOK, Mishaps
  <2>3. DestKnown' /\ TempIsOwn' BY <2>1 DEF FilesInv, DestKnown, TempIsOwn
  <2>4. /\ disk'[p] \in {disk[p], Nothing}
        /\ \A q \in Paths : q # p => disk'[q] = disk[q]
        /\ disk'[p] # Nothing => "kept" \in mishaps'
    BY <1>1, <2>1
  <2>5. \A v \in Uploads : uploads[v].dest \in Paths \cup {Nothing} BY <1>1 DEF Upload
  <2>6. OwnFiles'
    <3>1. \A v \in Uploads : uploads[v].dest # Nothing =>
            disk'[uploads[v].dest] \in {disk[uploads[v].dest], Nothing}
      BY <2>4, <2>5
    <3> QED BY <2>1, <3>1 DEF FilesInv, OwnFiles, Live
  <2>7. ListedAreSafe'
    <3> SUFFICES ASSUME mishaps \cap {"sameName", "rowUnknown"} = {}
                 PROVE  /\ \A row \in rows : row[2] # p
                        /\ \A v \in Uploads : uploads[v].pc = "insert" =>
                              uploads[v].dest # p /\ uploads[v].dest \in Paths
      BY <1>1, <2>1, <2>4 DEF ListedAreSafe, FilesInv, Live
    <3> QED BY <1>1, <2>1, <2>5 DEF FilesInv, ListedAreSafe, DestKnown, Live
  <2>8. NothingIsForgotten'
    BY <1>1, <2>1, <2>4 DEF FilesInv, NothingIsForgotten, Live
  <2> QED BY <2>2, <2>3, <2>6, <2>7, <2>8 DEF FilesInv
<1>5. CASE Kill
  <2>1. /\ uploads' = [u \in Uploads |->
              IF Live(u) THEN [NewUpload EXCEPT !.pc = "done"] ELSE uploads[u]]
        /\ removals' = {} /\ mishaps' = mishaps \cup {"killed"}
        /\ UNCHANGED <<millis, temp, disk, rows, passed, left>>
    BY <1>5 DEF Kill, Suffer
  <2> DEFINE dead == [NewUpload EXCEPT !.pc = "done"]
  <2>2. dead \in Upload /\ dead.pc = "done" /\ dead.dest = Nothing
    <3>1. 0 \in Millis BY StoredFilesAssumption DEF Millis
    <3> QED BY <3>1 DEF NewUpload, Upload, Kinds
  <2> HIDE DEF dead
  <2>3. \A u \in Uploads : uploads'[u] = IF Live(u) THEN dead ELSE uploads[u]
    BY <2>1 DEF dead
  <2>4. StoredFilesTypeOK'
    <3>1. uploads' \in [Uploads -> Upload] BY <1>1, <2>1, <2>2, <2>3 DEF dead
    <3> QED BY <1>1, <2>1, <3>1 DEF StoredFilesTypeOK, Mishaps
  <2>5. \A u \in Uploads : uploads'[u].pc \in {"new", "done"} BY <2>2, <2>3 DEF Live
  <2>6. DestKnown' BY <1>1, <2>1, <2>2, <2>3 DEF DestKnown
  <2>7. TempIsOwn' /\ NothingIsForgotten' BY <2>1 DEF TempIsOwn, NothingIsForgotten
  <2>8. OwnFiles' BY <2>5 DEF OwnFiles, Live
  <2>9. ListedAreSafe'
    <3>1. \A row \in rows : uploads[row[1]].pc = "done" => uploads'[row[1]].pc = "done"
      BY <1>1, <2>2, <2>3
    <3> QED BY <2>1, <2>5, <3>1 DEF FilesInv, ListedAreSafe
  <2> QED BY <2>4, <2>6, <2>7, <2>8, <2>9 DEF FilesInv
<1>6. CASE NextMilli
  <2>1. /\ millis' \in Millis
        /\ UNCHANGED <<temp, disk, rows, uploads, removals, passed, left, mishaps>>
    <3>1. millis \in 0..MaxMillis BY <1>1 DEF StoredFilesTypeOK, Millis
    <3> QED BY <1>6, <3>1, StoredFilesAssumption DEF NextMilli, Millis
  <2> QED BY <2>1 DEF FilesInv, StoredFilesTypeOK, DestKnown, TempIsOwn, OwnFiles,
          ListedAreSafe, NothingIsForgotten, Live
<1> QED BY <1>2, <1>3, <1>4, <1>5, <1>6 DEF StoredFilesNext, UploadStep

LEMMA FilesFrame ==
  ASSUME FilesInv, UNCHANGED fileVars
  PROVE  FilesInv'
BY DEF fileVars, FilesInv, StoredFilesTypeOK, DestKnown, TempIsOwn, OwnFiles,
       ListedAreSafe, NothingIsForgotten, Live

LEMMA FactorFrame ==
  ASSUME FactorInv, UNCHANGED factorVars
  PROVE  FactorInv'
BY DEF factorVars, FactorInv, SecondFactorTypeOK, FactorIsProved, Overlap, HandlerAt

-----------------------------------------------------------------------------
(* Work orders: the pool *)

\* All of a request but the connection it has.
Alike(p, q) ==
    /\ p.op = q.op /\ p.want = q.want /\ p.n = q.n /\ p.pc = q.pc
    /\ p.read = q.read /\ p.seen = q.seen /\ p.added = q.added

OneConn ==
    \A r, q \in Requests :
        r # q /\ reqs[r].conn # None => reqs[r].conn # reqs[q].conn

\* What a step of the pool for r does to the requests, where req is what r becomes.
PoolStep(r, req) ==
    /\ reqs' \in [Requests -> Request]
    /\ queue' \in Seq(Requests)
    /\ OneConn => OneConn'
    /\ Alike(reqs'[r], req)
    /\ \A q \in Requests \ {r} : Alike(reqs'[q], reqs[q])
    /\ queue = <<>> => \A q \in Requests \ {r} : reqs'[q] = reqs[q]

LEMMA AskMoves ==
  ASSUME WorkOrdersTypeOK, NEW r \in Requests, NEW req \in Request, req.conn = None,
         Ask(r, req)
  PROVE  PoolStep(r, req)
<1>1. reqs \in [Requests -> Request] /\ queue \in Seq(Requests) BY DEF WorkOrdersTypeOK
<1>2. ASSUME NEW c \in Conns \ Busy, reqs' = [reqs EXCEPT ![r] = [req EXCEPT !.conn = c]],
             UNCHANGED queue
      PROVE  PoolStep(r, req)
  <2> DEFINE new == [req EXCEPT !.conn = c]
  <2>1. new \in Request /\ Alike(new, req) /\ new.conn = c BY DEF Request, Alike
  <2>2. reqs' = [reqs EXCEPT ![r] = new] BY <1>2
  <2> HIDE DEF new
  <2>3. /\ reqs' \in [Requests -> Request] /\ reqs'[r] = new
        /\ \A q \in Requests \ {r} : reqs'[q] = reqs[q]
    BY <1>1, <2>1, <2>2
  <2>4. \A q \in Requests : reqs[q].conn # c BY <1>2, WorkOrdersAssumption DEF Busy
  <2>5. OneConn => OneConn' BY <2>1, <2>3, <2>4 DEF OneConn
  <2> QED BY <1>1, <1>2, <2>1, <2>3, <2>5 DEF PoolStep, Alike
<1>3. CASE /\ reqs' = [reqs EXCEPT ![r] = req]
           /\ queue' = Append(queue, r)
  <2>1. /\ reqs' \in [Requests -> Request] /\ reqs'[r] = req
        /\ \A q \in Requests \ {r} : reqs'[q] = reqs[q]
    BY <1>1, <1>3
  <2>2. OneConn => OneConn' BY <2>1 DEF OneConn
  <2>3. queue' \in Seq(Requests) BY <1>1, <1>3
  <2> QED BY <2>1, <2>2, <2>3 DEF PoolStep, Alike
<1> QED BY <1>2, <1>3 DEF Ask

\* r gives its connection to the first that waits; `none` is r without it.
LEMMA HandsOver ==
  ASSUME WorkOrdersTypeOK, NEW r \in Requests, NEW none \in Request, none.conn = None,
         queue # <<>>,
         reqs' = [reqs EXCEPT ![r] = none, ![Head(queue)].conn = reqs[r].conn]
  PROVE  /\ reqs' \in [Requests -> Request]
         /\ OneConn => OneConn'
         /\ Alike(reqs'[r], none)
         /\ \A q \in Requests \ {r} : Alike(reqs'[q], reqs[q])
<1> DEFINE h == Head(queue)
           c == reqs[r].conn
<1>1. reqs \in [Requests -> Request] /\ h \in Requests /\ c \in Conns \cup {None}
  BY DEF WorkOrdersTypeOK, Request
<1> HIDE DEF h, c
<1>2. CASE h = r
  <2> DEFINE new == [none EXCEPT !.conn = c]
  <2>1. new \in Request /\ Alike(new, none) /\ new.conn = c BY <1>1 DEF Request, Alike
  <2>2. reqs' = [reqs EXCEPT ![r] = new] BY <1>1, <1>2 DEF h, c
  <2> HIDE DEF new
  <2>3. /\ reqs' \in [Requests -> Request] /\ reqs'[r] = new
        /\ \A q \in Requests \ {r} : reqs'[q] = reqs[q]
    BY <1>1, <2>1, <2>2
  <2>4. OneConn => OneConn' BY <2>1, <2>3 DEF OneConn, c
  <2> QED BY <2>1, <2>3, <2>4 DEF Alike
<1>3. CASE h # r
  <2> DEFINE new == [reqs[h] EXCEPT !.conn = c]
  <2>1. new \in Request /\ Alike(new, reqs[h]) /\ new.conn = c BY <1>1 DEF Request, Alike
  <2>2. reqs' = [reqs EXCEPT ![r] = none, ![h] = new] BY <1>1, <1>3 DEF h, c
  <2> HIDE DEF new
  <2>3. /\ reqs' \in [Requests -> Request] /\ reqs'[r] = none /\ reqs'[h] = new
        /\ \A q \in Requests \ {r, h} : reqs'[q] = reqs[q]
    BY <1>1, <1>3, <2>1, <2>2
  <2>4. OneConn => OneConn' BY <1>1, <1>3, <2>1, <2>3 DEF OneConn, c
  <2> QED BY <1>1, <1>3, <2>1, <2>3, <2>4 DEF Alike
<1> QED BY <1>2, <1>3

LEMMA ContinueMoves ==
  ASSUME WorkOrdersTypeOK, NEW r \in Requests, NEW req \in Request,
         req.conn = reqs[r].conn, Continue(r, req)
  PROVE  PoolStep(r, req) /\ (queue = <<>> => reqs'[r] = req /\ queue' = <<>>)
                          /\ (queue # <<>> => queue' # <<>>)
<1>1. reqs \in [Requests -> Request] /\ queue \in Seq(Requests) BY DEF WorkOrdersTypeOK
<1>2. CASE queue = <<>>
  <2>1. reqs' = [reqs EXCEPT ![r] = req] /\ UNCHANGED queue BY <1>2 DEF Continue
  <2>2. /\ reqs' \in [Requests -> Request] /\ reqs'[r] = req
        /\ \A q \in Requests \ {r} : reqs'[q] = reqs[q]
    BY <1>1, <2>1
  <2>3. OneConn => OneConn' BY <2>2 DEF OneConn
  <2> QED BY <1>1, <1>2, <2>1, <2>2, <2>3 DEF PoolStep, Alike
<1>3. CASE queue # <<>>
  <2> DEFINE new == [req EXCEPT !.conn = None]
  <2>1. new \in Request /\ Alike(new, req) /\ new.conn = None BY DEF Request, Alike
  <2>2. /\ reqs' = [reqs EXCEPT ![r] = new, ![Head(queue)].conn = reqs[r].conn]
        /\ queue' = Append(Tail(queue), r)
    BY <1>3 DEF Continue
  <2> HIDE DEF new
  <2>3. queue' \in Seq(Requests) /\ queue' # <<>> BY <1>1, <1>3, <2>2
  <2>4. /\ reqs' \in [Requests -> Request]
        /\ OneConn => OneConn'
        /\ Alike(reqs'[r], new)
        /\ \A q \in Requests \ {r} : Alike(reqs'[q], reqs[q])
    BY <1>3, <2>1, <2>2, HandsOver
  <2> QED BY <1>3, <2>1, <2>3, <2>4 DEF PoolStep, Alike
<1> QED BY <1>2, <1>3

LEMMA FinishMoves ==
  ASSUME WorkOrdersTypeOK, NEW r \in Requests, Finish(r)
  PROVE  \E req \in Request : /\ PoolStep(r, req)
                              /\ req.op = reqs[r].op /\ req.pc = "done"
<1> DEFINE over == [NewRequest EXCEPT !.op = reqs[r].op, !.n = reqs[r].n, !.pc = "done"]
<1>1. reqs \in [Requests -> Request] /\ queue \in Seq(Requests) BY DEF WorkOrdersTypeOK
<1>2. over \in Request /\ over.conn = None /\ over.op = reqs[r].op /\ over.pc = "done"
  <2>1. reqs[r].op \in {"create", "edit", "tasks"} /\ reqs[r].n \in 0..MaxTasks
    BY <1>1 DEF Request
  <2>2. 0 \in 0..MaxTasks BY WorkOrdersAssumption
  <2>3. NewRequest \in Request BY <2>2 DEF NewRequest, Request
  <2> QED BY <2>1, <2>3 DEF Request, NewRequest
<1>3. CASE queue = <<>>
  <2>1. reqs' = [reqs EXCEPT ![r] = over] /\ UNCHANGED queue BY <1>3 DEF Finish
  <2> HIDE DEF over
  <2>2. /\ reqs' \in [Requests -> Request] /\ reqs'[r] = over
        /\ \A q \in Requests \ {r} : reqs'[q] = reqs[q]
    BY <1>1, <1>2, <2>1
  <2>3. OneConn => OneConn' BY <1>2, <2>2 DEF OneConn
  <2> QED BY <1>1, <1>2, <2>1, <2>2, <2>3 DEF PoolStep, Alike
<1>4. CASE queue # <<>>
  <2>1. /\ reqs' = [reqs EXCEPT ![r] = over, ![Head(queue)].conn = reqs[r].conn]
        /\ queue' = Tail(queue)
    BY <1>4 DEF Finish
  <2> HIDE DEF over
  <2>2. queue' \in Seq(Requests) BY <1>1, <1>4, <2>1
  <2>3. /\ reqs' \in [Requests -> Request]
        /\ OneConn => OneConn'
        /\ Alike(reqs'[r], over)
        /\ \A q \in Requests \ {r} : Alike(reqs'[q], reqs[q])
    BY <1>2, <1>4, <2>1, HandsOver
  <2> QED BY <1>2, <1>4, <2>2, <2>3 DEF PoolStep
<1> QED BY <1>3, <1>4

-----------------------------------------------------------------------------
(* Work orders: types *)

\* What setTasks has inserted so far.
Counted(q) ==
    /\ q.pc \in {"new", "check", "insert", "update", "begin", "delete", "deleting"} =>
          q.added = 0
    /\ q.pc = "add" => q.added < q.n
    /\ q.pc = "commit" => q.added = q.n

Counts == \A r \in Requests : Counted(reqs[r])

\* The step of request r, whatever it is.
RequestStep(r) ==
    \/ StartRequest(r) \/ Check(r) \/ Refuse(r) \/ InsertOrder(r) \/ UpdateOrder(r)
    \/ Begin(r) \/ StartDelete(r) \/ DeleteTasks(r) \/ AddTask(r)
    \/ Commit(r) \/ Rollback(r) \/ StatementFails(r) \/ ConnectionBreaks(r)

LEMMA WriteTyped ==
  ASSUME WorkOrdersTypeOK, NEW c \in Conns, NEW row \in Row \cup {None},
         NEW gone \in SUBSET Tasks, NEW new \in SUBSET Tasks, Write(c, row, gone, new)
  PROVE  /\ tx' \in [Conns -> Transaction]
         /\ order' \in Row \cup {None} /\ tasks' \in SUBSET Tasks
<1>1. /\ tx \in [Conns -> Transaction]
      /\ order \in Row \cup {None} /\ tasks \in SUBSET Tasks
  BY DEF WorkOrdersTypeOK
<1>2. CASE ~tx[c].open BY <1>1, <1>2 DEF Write
<1>3. CASE tx[c].open
  <2> DEFINE written == [tx[c] EXCEPT !.row = IF row # None THEN row ELSE @,
                                      !.gone = @ \cup (gone \cap tasks),
                                      !.new = (@ \ gone) \cup new]
  <2>1. /\ tx' = [tx EXCEPT ![c].row = IF row # None THEN row ELSE @,
                            ![c].gone = @ \cup (gone \cap tasks),
                            ![c].new = (@ \ gone) \cup new]
        /\ UNCHANGED <<order, tasks>>
    BY <1>3 DEF Write
  <2>2. tx' = [tx EXCEPT ![c] = written] BY <1>1, <2>1
  <2>3. /\ tx[c] \in Transaction
        /\ tx[c].row \in Row \cup {None} /\ tx[c].gone \in SUBSET Tasks
        /\ tx[c].new \in SUBSET Tasks
    BY <1>1 DEF Transaction
  <2>4. written \in Transaction BY <1>1, <2>3 DEF Transaction
  <2> HIDE DEF written
  <2> QED BY <1>1, <2>1, <2>2, <2>4
<1> QED BY <1>2, <1>3

LEMMA CommittedTyped ==
  ASSUME WorkOrdersTypeOK, NEW c \in Conns, Committed(c)
  PROVE  order' \in Row \cup {None} /\ tasks' \in SUBSET Tasks
<1>1. /\ tx \in [Conns -> Transaction]
      /\ order \in Row \cup {None} /\ tasks \in SUBSET Tasks
  BY DEF WorkOrdersTypeOK
<1>2. tx[c].row \in Row \cup {None} /\ tx[c].new \in SUBSET Tasks
  BY <1>1 DEF Transaction
<1> QED BY <1>1, <1>2 DEF Committed, RowOn, TasksOn

LEMMA GiveUpPools ==
  ASSUME WorkOrdersTypeOK, NEW r \in Requests, GiveUp(r)
  PROVE  \E req \in Request : PoolStep(r, req) /\ Counted(req)
<1>1. CASE Finish(r)
  BY <1>1, FinishMoves DEF Counted
<1>2. CASE Continue(r, [reqs[r] EXCEPT !.pc = "rollback", !.seen = {}])
  <2> DEFINE req == [reqs[r] EXCEPT !.pc = "rollback", !.seen = {}]
  <2>1. reqs[r] \in Request BY DEF WorkOrdersTypeOK
  <2>2. req \in Request /\ req.conn = reqs[r].conn /\ req.pc = "rollback"
    BY <2>1 DEF Request, Replacing
  <2> HIDE DEF req
  <2>3. Continue(r, req) BY <1>2 DEF req
  <2>4. PoolStep(r, req) BY <2>2, <2>3, ContinueMoves
  <2>5. Counted(req) BY <2>2 DEF Counted
  <2> QED BY <2>2, <2>4, <2>5
<1> QED BY <1>1, <1>2 DEF GiveUp

LEMMA StepPools ==
  ASSUME WorkOrdersTypeOK, Counts, NEW r \in Requests, RequestStep(r)
  PROVE  \E req \in Request : PoolStep(r, req) /\ Counted(req)
<1> DEFINE me == reqs[r]
<1>1. /\ me \in Request /\ Counted(me)
      /\ me.n \in 0..MaxTasks /\ me.added \in 0..MaxTasks /\ MaxTasks \in Nat \ {0}
      /\ 0 \in 0..MaxTasks
      /\ order \in Row \cup {None} /\ tasks \in SUBSET Tasks
      /\ tx \in [Conns -> Transaction] /\ me.conn \in Conns \cup {None}
  BY WorkOrdersAssumption DEF WorkOrdersTypeOK, Counts, Request
<1> HIDE DEF me
<1>2. ASSUME NEW pc \in {"insert", "begin", "delete"}, me.added = 0, GoOn(r, pc)
      PROVE  \E req \in Request : PoolStep(r, req) /\ Counted(req)
  <2> DEFINE req == [me EXCEPT !.pc = pc]
  <2>1. /\ req \in Request /\ req.conn = reqs[r].conn /\ Counted(req)
    BY <1>1, <1>2 DEF Request, Replacing, Counted, me
  <2>2. Continue(r, req) BY <1>2 DEF GoOn, me
  <2> HIDE DEF req
  <2> QED BY <2>1, <2>2, ContinueMoves
<1>3. ASSUME Finish(r) PROVE \E req \in Request : PoolStep(r, req) /\ Counted(req)
  BY <1>3, FinishMoves DEF Counted
<1>4. CASE StartRequest(r)
  <2>1. ASSUME NEW n \in 0..MaxTasks,
               Ask(r, [NewRequest EXCEPT !.op = "create", !.n = n, !.pc = "check"])
        PROVE  \E req \in Request : PoolStep(r, req) /\ Counted(req)
    <3> DEFINE req == [NewRequest EXCEPT !.op = "create", !.n = n, !.pc = "check"]
    <3>1. req \in Request /\ req.conn = None /\ Counted(req)
      BY <1>1 DEF NewRequest, Request, Counted
    <3>2. Ask(r, req) BY <2>1
    <3> HIDE DEF req
    <3> QED BY <3>1, <3>2, AskMoves
  <2>2. ASSUME NEW w \in Statuses \cup {None},
               Ask(r, [NewRequest EXCEPT !.want = w, !.pc = "check"])
        PROVE  \E req \in Request : PoolStep(r, req) /\ Counted(req)
    <3> DEFINE req == [NewRequest EXCEPT !.want = w, !.pc = "check"]
    <3>1. req \in Request /\ req.conn = None /\ Counted(req)
      BY <1>1 DEF NewRequest, Request, Counted
    <3>2. Ask(r, req) BY <2>2
    <3> HIDE DEF req
    <3> QED BY <3>1, <3>2, AskMoves
  <2>3. ASSUME NEW n \in 0..MaxTasks,
               Ask(r, [NewRequest EXCEPT !.op = "tasks", !.n = n, !.pc = "check"])
        PROVE  \E req \in Request : PoolStep(r, req) /\ Counted(req)
    <3> DEFINE req == [NewRequest EXCEPT !.op = "tasks", !.n = n, !.pc = "check"]
    <3>1. req \in Request /\ req.conn = None /\ Counted(req)
      BY <1>1 DEF NewRequest, Request, Counted
    <3>2. Ask(r, req) BY <2>3
    <3> HIDE DEF req
    <3> QED BY <3>1, <3>2, AskMoves
  <2>4. MaxTasks \in 0..MaxTasks BY <1>1
  <2> QED BY <1>1, <1>4, <2>1, <2>2, <2>3, <2>4 DEF StartRequest
<1>5. CASE Check(r)
  <2>1. me.pc = "check" /\ me.conn \in Conns /\ me.added = 0
    BY <1>1, <1>5 DEF Check, At, Counted, me
  <2>2. ASSUME RowOn(me.conn) # None,
               Continue(r, [me EXCEPT !.pc = "update", !.read = RowOn(me.conn)])
        PROVE  \E req \in Request : PoolStep(r, req) /\ Counted(req)
    <3> DEFINE req == [me EXCEPT !.pc = "update", !.read = RowOn(me.conn)]
    <3>1. RowOn(me.conn) \in Row BY <1>1, <2>1, <2>2 DEF RowOn, Transaction
    <3>2. req \in Request /\ req.conn = reqs[r].conn /\ Counted(req)
      BY <1>1, <2>1, <3>1 DEF Request, Counted, me
    <3>3. Continue(r, req) BY <2>2
    <3> HIDE DEF req
    <3> QED BY <3>2, <3>3, ContinueMoves
  <2> QED BY <1>2, <1>5, <2>1, <2>2 DEF Check, me
<1>6. CASE Refuse(r) \/ UpdateOrder(r) \/ Commit(r) \/ Rollback(r)
  BY <1>3, <1>6 DEF Refuse, UpdateOrder, Commit, Rollback
<1>7. CASE InsertOrder(r)
  <2>1. me.added = 0 BY <1>1, <1>7 DEF InsertOrder, At, Counted, me
  <2> QED BY <1>2, <1>3, <1>7, <2>1 DEF InsertOrder
<1>8. CASE Begin(r)
  <2>1. me.added = 0 BY <1>1, <1>8 DEF Begin, At, Counted, me
  <2> QED BY <1>2, <1>8, <2>1 DEF Begin
<1>9. CASE StartDelete(r)
  <2> DEFINE req == [me EXCEPT !.pc = "deleting", !.seen = TasksOn(me.conn)]
  <2>1. me.pc = "delete" /\ me.conn \in Conns /\ me.added = 0
    BY <1>1, <1>9 DEF StartDelete, At, Counted, me
  <2>2. TasksOn(me.conn) \in SUBSET Tasks BY <1>1, <2>1 DEF TasksOn, Transaction
  <2>3. req \in Request /\ req.conn = reqs[r].conn /\ Counted(req)
    BY <1>1, <2>1, <2>2 DEF Request, Replacing, Counted, me
  <2>4. reqs' = [reqs EXCEPT ![r] = req] /\ UNCHANGED queue
    BY <1>1, <1>9 DEF StartDelete, me
  <2> HIDE DEF req
  <2>5. reqs \in [Requests -> Request] /\ queue \in Seq(Requests) BY DEF WorkOrdersTypeOK
  <2>6. /\ reqs' \in [Requests -> Request] /\ reqs'[r] = req
        /\ \A q \in Requests \ {r} : reqs'[q] = reqs[q]
    BY <2>3, <2>4, <2>5
  <2>7. OneConn => OneConn' BY <2>3, <2>6 DEF OneConn
  <2> QED BY <2>3, <2>4, <2>5, <2>6, <2>7 DEF PoolStep, Alike
<1>10. CASE DeleteTasks(r)
  <2> DEFINE req == [me EXCEPT !.pc = IF me.n = 0 THEN "commit" ELSE "add", !.seen = {}]
  <2>1. me.added = 0 BY <1>1, <1>10 DEF DeleteTasks, At, Counted, me
  <2>2. req \in Request /\ req.conn = reqs[r].conn BY <1>1 DEF Request, Replacing, me
  <2>3. Counted(req)
    <3>1. /\ req.pc = IF me.n = 0 THEN "commit" ELSE "add"
          /\ req.n = me.n /\ req.added = me.added
      BY <1>1 DEF Request
    <3> HIDE DEF req
    <3> QED BY <1>1, <2>1, <3>1 DEF Counted
  <2>4. Continue(r, req) BY <1>10 DEF DeleteTasks, me
  <2> HIDE DEF req
  <2> QED BY <2>2, <2>3, <2>4, ContinueMoves
<1>11. CASE AddTask(r)
  <2> DEFINE i == me.added + 1
             req == [me EXCEPT !.pc = IF i = me.n THEN "commit" ELSE "add", !.added = i]
  <2>1. me.added < me.n BY <1>1, <1>11 DEF AddTask, At, Counted, me
  <2>2. i \in 0..MaxTasks /\ i <= me.n BY <1>1, <2>1
  <2>3. Continue(r, req) BY <1>11 DEF AddTask, me
  <2> HIDE DEF i
  <2>4. req \in Request /\ req.conn = reqs[r].conn BY <1>1, <2>2 DEF Request, Replacing, me
  <2>5. Counted(req)
    <3>1. /\ req.pc = IF i = me.n THEN "commit" ELSE "add"
          /\ req.n = me.n /\ req.added = i
      BY <1>1 DEF Request
    <3> HIDE DEF req
    <3> QED BY <1>1, <2>2, <3>1 DEF Counted
  <2> HIDE DEF req
  <2> QED BY <2>3, <2>4, <2>5, ContinueMoves
<1>12. CASE StatementFails(r) \/ ConnectionBreaks(r)
  BY <1>12, GiveUpPools DEF StatementFails, ConnectionBreaks
<1> QED BY <1>4, <1>5, <1>6, <1>7, <1>8, <1>9, <1>10, <1>11, <1>12 DEF RequestStep

LEMMA StepTyped ==
  ASSUME WorkOrdersTypeOK, Counts, NEW r \in Requests, RequestStep(r)
  PROVE  /\ tx' \in [Conns -> Transaction]
         /\ order' \in Row \cup {None} /\ tasks' \in SUBSET Tasks
         /\ stale' \in BOOLEAN
<1> DEFINE c == reqs[r].conn
<1>1. /\ order \in Row \cup {None} /\ tasks \in SUBSET Tasks
      /\ tx \in [Conns -> Transaction] /\ c \in Conns \cup {None}
      /\ reqs[r] \in Request
  BY DEF WorkOrdersTypeOK, Request
<1>2. stale' \in BOOLEAN
  BY Zenon DEF WorkOrdersTypeOK, RequestStep, StartRequest, Check, Refuse, InsertOrder, UpdateOrder,
     Begin, StartDelete, DeleteTasks, AddTask, Commit, Rollback, StatementFails, ConnectionBreaks
<1>3. NoTx \in Transaction BY DEF NoTx, Transaction
<1>4. CASE c = None
  <2>1. StartRequest(r)
    BY <1>4 DEF RequestStep, Check, Refuse, InsertOrder, UpdateOrder, Begin, StartDelete,
       DeleteTasks, AddTask, Commit, Rollback, StatementFails, ConnectionBreaks, At
  <2> QED BY <1>1, <1>2, <2>1 DEF StartRequest
<1>5. CASE c \in Conns
  <2>1. CASE StartRequest(r) \/ Check(r) \/ Refuse(r) \/ StartDelete(r)
    BY <1>1, <1>2, <2>1 DEF StartRequest, Check, Refuse, StartDelete
  <2>2. CASE InsertOrder(r)
    <3>1. [status |-> "open", dated |-> FALSE] \in Row \cup {None} BY DEF Row, Statuses
    <3>2. {} \in SUBSET Tasks OBVIOUS
    <3>3. Write(c, [status |-> "open", dated |-> FALSE], {}, {}) BY <2>2 DEF InsertOrder
    <3> HIDE DEF c
    <3> QED BY <1>2, <1>5, <3>1, <3>2, <3>3, WriteTyped
  <2>3. CASE UpdateOrder(r)
    <3>1. CASE RowOn(c) = None BY <1>1, <1>2, <2>3, <3>1 DEF UpdateOrder
    <3>2. CASE RowOn(c) # None
      <4> DEFINE status == IF reqs[r].want # None THEN reqs[r].want ELSE RowOn(c).status
                 dated == RowOn(c).dated \/ Dates(r)
      <4>1. Write(c, [status |-> status, dated |-> dated], {}, {})
        BY <2>3, <3>2 DEF UpdateOrder
      <4>2. status \in Statuses
        BY <1>1, <1>5, <3>2 DEF RowOn, Transaction, Row, Request
      <4>3. dated \in BOOLEAN BY Zenon
      <4> HIDE DEF status, dated
      <4>4. [status |-> status, dated |-> dated] \in Row \cup {None} BY <4>2, <4>3 DEF Row
      <4>5. {} \in SUBSET Tasks OBVIOUS
      <4> HIDE DEF c
      <4> QED BY <1>2, <1>5, <4>1, <4>4, <4>5, WriteTyped
    <3> QED BY <3>1, <3>2
  <2>4. CASE Begin(r)
    <3> DEFINE opened == [tx[c] EXCEPT !.open = TRUE]
    <3>1. opened \in Transaction BY <1>1, <1>5 DEF Transaction
    <3>2. tx' = [tx EXCEPT ![c] = opened] BY <1>1, <2>4 DEF Begin
    <3> HIDE DEF opened
    <3> QED BY <1>1, <1>2, <2>4, <3>1, <3>2 DEF Begin
  <2>5. CASE DeleteTasks(r)
    <3>1. reqs[r].seen \in SUBSET Tasks BY <1>1 DEF Request
    <3>2. None \in Row \cup {None} /\ {} \in SUBSET Tasks OBVIOUS
    <3>3. Write(c, None, reqs[r].seen, {}) /\ UNCHANGED stale BY <2>5 DEF DeleteTasks
    <3> HIDE DEF c
    <3> QED BY <1>2, <1>5, <3>1, <3>2, <3>3, WriteTyped
  <2>6. ASSUME AddTask(r)
        PROVE  /\ tx' \in [Conns -> Transaction]
               /\ order' \in Row \cup {None} /\ tasks' \in SUBSET Tasks
    <3>1. reqs[r].added + 1 \in 1..MaxTasks
      BY <1>1, <2>6, WorkOrdersAssumption DEF AddTask, At, Counts, Counted, Request
    <3>2. {<<r, reqs[r].added + 1>>} \in SUBSET Tasks BY <3>1 DEF Tasks
    <3> QED BY <1>5, <2>6, <3>2, WriteTyped DEF AddTask
  <2>7. CASE Commit(r)
    BY <1>1, <1>2, <1>3, <1>5, <2>7, CommittedTyped DEF Commit
  <2>8. CASE Rollback(r) BY <1>1, <1>2, <1>3, <1>5, <2>8 DEF Rollback
  <2>9. CASE StatementFails(r)
    <3> DEFINE sound == ~tx[c].open
               lost == [tx[c] EXCEPT !.sound = sound]
    <3>2. sound \in BOOLEAN BY Zenon
    <3> HIDE DEF sound
    <3>3. lost \in Transaction BY <1>1, <1>5, <3>2 DEF Transaction
    <3> USE DEF sound
    <3>4. tx' = [tx EXCEPT ![c] = lost] BY <1>1, <2>9 DEF StatementFails
    <3> HIDE DEF lost
    <3> QED BY <1>1, <1>2, <2>9, <3>3, <3>4 DEF StatementFails
  <2>10. CASE ConnectionBreaks(r)
    BY <1>1, <1>2, <1>3, <1>5, <2>10, CommittedTyped DEF ConnectionBreaks
  <2> QED BY <1>2, <2>1, <2>2, <2>3, <2>4, <2>5, <2>6, <2>7, <2>8, <2>9, <2>10 DEF RequestStep
<1> QED BY <1>1, <1>4, <1>5

LEMMA OrdersTyped ==
  ASSUME WorkOrdersTypeOK, Counts, OneConn, WorkOrdersNext
  PROVE  WorkOrdersTypeOK' /\ Counts' /\ OneConn'
<1>1. raced' \in BOOLEAN BY Zenon DEF WorkOrdersNext
<1>2. ASSUME NEW r \in Requests, RequestStep(r)
      PROVE  WorkOrdersTypeOK' /\ Counts' /\ OneConn'
  <2>1. PICK req \in Request : PoolStep(r, req) /\ Counted(req) BY <1>2, StepPools
  <2>2. reqs' \in [Requests -> Request] /\ queue' \in Seq(Requests) BY <2>1 DEF PoolStep
  <2>3. WorkOrdersTypeOK' BY <1>1, <1>2, <2>2, StepTyped DEF WorkOrdersTypeOK
  <2>4. Counts'
    <3>1. \A q \in Requests : Counted(reqs'[q])
      BY <2>1 DEF Counts, PoolStep, Alike, Counted
    <3> QED BY <3>1 DEF Counts, Counted
  <2> QED BY <2>1, <2>3, <2>4 DEF PoolStep
<1>3. ASSUME NEW c \in Conns, CloseIdle(c)
      PROVE  WorkOrdersTypeOK' /\ Counts' /\ OneConn'
  <2>1. NoTx \in Transaction BY DEF NoTx, Transaction
  <2>2. /\ tx' = [tx EXCEPT ![c] = NoTx]
        /\ UNCHANGED <<order, tasks, queue, reqs, stale>>
    BY <1>3 DEF CloseIdle
  <2> QED BY <1>1, <2>1, <2>2 DEF WorkOrdersTypeOK, Counts, Counted, OneConn
<1> QED BY <1>2, <1>3 DEF WorkOrdersNext, RequestStep

-----------------------------------------------------------------------------
(* Work orders: what is on the rows *)

\* Inside setTasks' transaction.
InTx == {"delete", "deleting", "add", "commit"}

\* What a step does to the request that makes it.
LEMMA RequestMoves ==
  ASSUME WorkOrdersTypeOK, Counts, NEW r \in Requests, RequestStep(r)
  PROVE  /\ StartRequest(r) \/ reqs'[r].op = reqs[r].op
         /\ StartRequest(r) =>
              /\ reqs'[r].pc = "check"
              /\ reqs'[r].op = "create" =>
                    order = None /\ \A q \in Requests : reqs[q].op # "create"
         /\ Check(r) =>
              \/ reqs'[r].pc = "insert" /\ reqs[r].op = "create"
              \/ reqs'[r].pc = "begin"
              \/ LET row == RowOn(reqs[r].conn) IN
                 /\ reqs'[r].pc = "update" /\ row # None
                 /\ reqs'[r].read = row /\ reqs'[r].want = reqs[r].want
                 /\ reqs[r].want # None => MayBecome(row.status, reqs[r].want)
         /\ InsertOrder(r) => reqs'[r].pc \in {"begin", "done"}
         /\ Refuse(r) \/ UpdateOrder(r) \/ Commit(r) \/ Rollback(r) => reqs'[r].pc = "done"
<1>1. reqs \in [Requests -> Request] /\ reqs[r] \in Request /\ 0 \in 0..MaxTasks
      /\ MaxTasks \in 0..MaxTasks
      /\ NewRequest \in Request /\ NewRequest.conn = None
  <2>1. 0 \in 0..MaxTasks /\ MaxTasks \in 0..MaxTasks BY WorkOrdersAssumption
  <2> QED BY <2>1 DEF WorkOrdersTypeOK, NewRequest, Request
<1>2. ASSUME NEW pc \in {"insert", "begin", "delete"}, GoOn(r, pc)
      PROVE  reqs'[r].op = reqs[r].op /\ reqs'[r].pc = pc
  <2> DEFINE req == [reqs[r] EXCEPT !.pc = pc]
  <2>1. req \in Request /\ req.conn = reqs[r].conn /\ req.op = reqs[r].op /\ req.pc = pc
    BY <1>1 DEF Request, Replacing
  <2>2. Continue(r, req) BY <1>2 DEF GoOn
  <2> HIDE DEF req
  <2> QED BY <2>1, <2>2, ContinueMoves DEF PoolStep, Alike
<1>3. Finish(r) => reqs'[r].op = reqs[r].op /\ reqs'[r].pc = "done"
  BY FinishMoves DEF PoolStep, Alike
<1>4. ASSUME StartRequest(r)
      PROVE  /\ reqs'[r].pc = "check"
             /\ reqs'[r].op = "create" =>
                   order = None /\ \A q \in Requests : reqs[q].op # "create"
  <2>1. ASSUME NEW n \in 0..MaxTasks,
               Ask(r, [NewRequest EXCEPT !.op = "create", !.n = n, !.pc = "check"])
        PROVE  reqs'[r].pc = "check"
    <3> DEFINE req == [NewRequest EXCEPT !.op = "create", !.n = n, !.pc = "check"]
    <3>1. req \in Request /\ req.conn = None /\ req.pc = "check" BY <1>1 DEF Request
    <3>2. Ask(r, req) BY <2>1
    <3> HIDE DEF req
    <3> QED BY <3>1, <3>2, AskMoves DEF PoolStep, Alike
  <2>2. ASSUME NEW w \in Statuses \cup {None},
               Ask(r, [NewRequest EXCEPT !.want = w, !.pc = "check"])
        PROVE  reqs'[r].pc = "check" /\ reqs'[r].op = "edit"
    <3> DEFINE req == [NewRequest EXCEPT !.want = w, !.pc = "check"]
    <3>1. req \in Request /\ req.conn = None /\ req.pc = "check" /\ req.op = "edit"
      BY <1>1 DEF Request, NewRequest
    <3>2. Ask(r, req) BY <2>2
    <3> HIDE DEF req
    <3> QED BY <3>1, <3>2, AskMoves DEF PoolStep, Alike
  <2>3. ASSUME NEW n \in 0..MaxTasks,
               Ask(r, [NewRequest EXCEPT !.op = "tasks", !.n = n, !.pc = "check"])
        PROVE  reqs'[r].pc = "check" /\ reqs'[r].op = "tasks"
    <3> DEFINE req == [NewRequest EXCEPT !.op = "tasks", !.n = n, !.pc = "check"]
    <3>1. req \in Request /\ req.conn = None /\ req.pc = "check" /\ req.op = "tasks"
      BY <1>1 DEF Request
    <3>2. Ask(r, req) BY <2>3
    <3> HIDE DEF req
    <3> QED BY <3>1, <3>2, AskMoves DEF PoolStep, Alike
  <2> QED BY <1>1, <1>4, <2>1, <2>2, <2>3 DEF StartRequest
<1>5. ASSUME RowOn(reqs[r].conn) \in Row,
             Continue(r, [reqs[r] EXCEPT !.pc = "update", !.read = RowOn(reqs[r].conn)])
      PROVE  /\ reqs'[r].op = reqs[r].op /\ reqs'[r].pc = "update"
             /\ reqs'[r].read = RowOn(reqs[r].conn) /\ reqs'[r].want = reqs[r].want
  <2> DEFINE req == [reqs[r] EXCEPT !.pc = "update", !.read = RowOn(reqs[r].conn)]
  <2>1. /\ req \in Request /\ req.conn = reqs[r].conn /\ req.op = reqs[r].op
        /\ req.pc = "update" /\ req.read = RowOn(reqs[r].conn) /\ req.want = reqs[r].want
    BY <1>1, <1>5 DEF Request
  <2>2. Continue(r, req) BY <1>5
  <2> HIDE DEF req
  <2> QED BY <2>1, <2>2, ContinueMoves DEF PoolStep, Alike
<1>6. Refuse(r) \/ UpdateOrder(r) \/ Commit(r) \/ Rollback(r) => reqs'[r].pc = "done"
  BY <1>3 DEF Refuse, UpdateOrder, Commit, Rollback
<1>7. /\ StartRequest(r) => reqs[r].pc = "new"
      /\ Check(r) => reqs[r].pc = "check"
      /\ InsertOrder(r) => reqs[r].pc = "insert"
  BY DEF StartRequest, Check, InsertOrder, At
<1>8. CASE StartRequest(r)
  <2>1. ~Check(r) /\ ~InsertOrder(r) BY <1>7, <1>8
  <2>2. /\ reqs'[r].pc = "check"
        /\ reqs'[r].op = "create" =>
              order = None /\ \A q \in Requests : reqs[q].op # "create"
    BY <1>4, <1>8
  <2> QED BY <1>6, <1>8, <2>1, <2>2
<1>9. CASE Check(r)
  <2>1. reqs[r].pc = "check" /\ reqs[r].conn \in Conns
    BY <1>1, <1>9 DEF Check, At, Request
  <2>2. RowOn(reqs[r].conn) \in Row \cup {None}
    BY <2>1 DEF RowOn, WorkOrdersTypeOK, Transaction
  <2>3. reqs'[r].op = reqs[r].op
    BY <1>2, <1>5, <1>9, <2>2 DEF Check
  <2>4. \/ reqs'[r].pc = "insert" /\ reqs[r].op = "create"
        \/ reqs'[r].pc = "begin"
        \/ /\ reqs'[r].pc = "update" /\ RowOn(reqs[r].conn) # None
           /\ reqs'[r].read = RowOn(reqs[r].conn) /\ reqs'[r].want = reqs[r].want
           /\ reqs[r].want # None => MayBecome(RowOn(reqs[r].conn).status, reqs[r].want)
    BY <1>2, <1>5, <1>9, <2>2 DEF Check
  <2>5. ~StartRequest(r) /\ ~InsertOrder(r) BY <2>1, <1>7
  <2> QED BY <1>6, <1>9, <2>3, <2>4, <2>5
<1>10. CASE InsertOrder(r)
  <2>1. reqs'[r].op = reqs[r].op /\ reqs'[r].pc \in {"begin", "done"}
    BY <1>2, <1>3, <1>10 DEF InsertOrder
  <2>2. ~StartRequest(r) /\ ~Check(r) BY <1>7, <1>10
  <2> QED BY <1>6, <1>10, <2>1, <2>2
<1>11. CASE ~StartRequest(r) /\ ~Check(r) /\ ~InsertOrder(r)
  <2>1. ASSUME NEW req \in Request, req.op = reqs[r].op, PoolStep(r, req)
        PROVE  reqs'[r].op = reqs[r].op
    BY <2>1 DEF PoolStep, Alike
  <2>2. ASSUME NEW req \in Request, req.op = reqs[r].op, req.conn = reqs[r].conn,
               Continue(r, req)
        PROVE  reqs'[r].op = reqs[r].op
    BY <2>1, <2>2, ContinueMoves
  <2>3. ASSUME StartDelete(r) PROVE reqs'[r].op = reqs[r].op
    BY <1>1, <2>3 DEF StartDelete, WorkOrdersTypeOK, Request
  <2>4. ASSUME DeleteTasks(r) PROVE reqs'[r].op = reqs[r].op
    <3> DEFINE req == [reqs[r] EXCEPT !.pc = IF reqs[r].n = 0 THEN "commit" ELSE "add",
                                      !.seen = {}]
    <3>1. req \in Request /\ req.conn = reqs[r].conn /\ req.op = reqs[r].op
      BY <1>1 DEF Request, Replacing
    <3>2. Continue(r, req) BY <2>4 DEF DeleteTasks
    <3> HIDE DEF req
    <3> QED BY <2>2, <3>1, <3>2
  <2>5. ASSUME AddTask(r) PROVE reqs'[r].op = reqs[r].op
    <3> DEFINE i == reqs[r].added + 1
               req == [reqs[r] EXCEPT !.pc = IF i = reqs[r].n THEN "commit" ELSE "add",
                                      !.added = i]
    <3>1. i \in 0..MaxTasks
      BY <1>1, <2>5, WorkOrdersAssumption DEF AddTask, At, Counts, Counted, Request
    <3>2. Continue(r, req) BY <2>5 DEF AddTask
    <3> HIDE DEF i
    <3>3. req \in Request /\ req.conn = reqs[r].conn /\ req.op = reqs[r].op
      BY <1>1, <3>1 DEF Request, Replacing
    <3> HIDE DEF req
    <3> QED BY <2>2, <3>2, <3>3
  <2>6. GiveUp(r) => reqs'[r].op = reqs[r].op
    <3> DEFINE req == [reqs[r] EXCEPT !.pc = "rollback", !.seen = {}]
    <3>1. req \in Request /\ req.conn = reqs[r].conn /\ req.op = reqs[r].op
      BY <1>1 DEF Request, Replacing
    <3>2. GiveUp(r) => Finish(r) \/ Continue(r, req) BY DEF GiveUp
    <3> HIDE DEF req
    <3> QED BY <1>3, <2>2, <3>1, <3>2
  <2>7. Refuse(r) \/ UpdateOrder(r) \/ Commit(r) \/ Rollback(r) => Finish(r)
    BY DEF Refuse, UpdateOrder, Commit, Rollback
  <2>8. reqs'[r].op = reqs[r].op
    BY <1>2, <1>3, <1>11, <2>3, <2>4, <2>5, <2>6, <2>7
       DEF RequestStep, Begin, StatementFails, ConnectionBreaks
  <2> QED BY <1>3, <1>11, <2>7, <2>8
<1> QED BY <1>8, <1>9, <1>10, <1>11

\* A transaction is open only on the connection of the setTasks that began it.
Owned ==
    \A c \in Conns : tx[c] # NoTx =>
        /\ tx[c].open
        /\ \E r \in Requests : reqs[r].pc \in InTx \cup {"rollback"} /\ reqs[r].conn = c

\* What a setTasks has done in its transaction: nothing, then the removal of the
\* whole list, then that and the first of its own tasks.
WholeTx(r, q, txs, list) ==
    /\ q.pc \in InTx =>
         /\ q.conn \in Conns /\ txs[q.conn].open /\ txs[q.conn].sound
         /\ txs[q.conn].row = None
    /\ q.pc \in {"delete", "deleting"} =>
         txs[q.conn].gone = {} /\ txs[q.conn].new = {}
    /\ q.pc = "deleting" => q.seen = list
    /\ q.pc \in {"add", "commit"} =>
         txs[q.conn].gone = list /\ txs[q.conn].new = {r} \X (1..q.added)

\* What an edit has read: a row that its new status may follow, and whose date is
\* still on the row.
ReadRow(q, row) ==
    q.pc = "update" =>
        /\ row # None /\ q.read \in Row
        /\ q.want # None => MayBecome(q.read.status, q.want)
        /\ q.read.status = "done" => q.read.dated
        /\ q.read.dated => row.dated

\* The order is created by one request, before all others.
OneCreate ==
    /\ \A r \in Requests :
          /\ reqs[r].op = "create" /\ reqs[r].pc \in {"check", "insert"} => order = None
          /\ reqs[r].pc = "insert" => reqs[r].op = "create"
    /\ \A r, q \in Requests : reqs[r].op = "create" /\ reqs[q].op = "create" => r = q

OrdersInv ==
    /\ WorkOrdersTypeOK
    /\ Counts
    /\ OneConn
    /\ DoneIsDated
    /\ ~raced => /\ ~Contended
                 /\ Owned
                 /\ OneCreate
                 /\ \A r \in Requests : /\ WholeTx(r, reqs[r], tx, tasks)
                                        /\ ReadRow(reqs[r], order)

LEMMA OrdersStart == WorkOrdersInit => OrdersInv
<1> SUFFICES ASSUME WorkOrdersInit PROVE OrdersInv OBVIOUS
<1> USE DEF WorkOrdersInit, NewRequest
<1>1. WorkOrdersTypeOK
  <2>1. order \in Row \cup {None}
    <3>1. [status : {"open", "in_progress"}, dated : {FALSE}] \subseteq Row
      BY DEF Row, Statuses
    <3> QED BY <3>1
  <2>4. tasks \in SUBSET Tasks
    <3>1. 1 \in 1..MaxTasks BY WorkOrdersAssumption
    <3>2. <<None, 1>> \in Tasks BY <3>1 DEF Tasks
    <3> QED BY <3>2
  <2>2. tx \in [Conns -> Transaction] BY DEF NoTx, Transaction
  <2>3. reqs \in [Requests -> Request]
    <3>1. 0 \in 0..MaxTasks BY WorkOrdersAssumption
    <3>2. NewRequest \in Request BY <3>1 DEF NewRequest, Request
    <3> QED BY <3>2
  <2>5. queue \in Seq(Requests)
    <3>1. <<>> \in Seq(Requests) BY EmptySeq
    <3> QED BY <3>1
  <2>6. stale \in BOOLEAN /\ raced \in BOOLEAN OBVIOUS
  <2> HIDE DEF WorkOrdersInit
  <2> QED BY <2>1, <2>2, <2>3, <2>4, <2>5, <2>6 DEF WorkOrdersTypeOK
<1>2. Counts /\ OneConn BY DEF Counts, Counted, OneConn
<1>3. DoneIsDated BY WorkOrdersAssumption DEF DoneIsDated, Row
<1>4. ~Contended /\ Owned BY DEF Contended, Replacing, Owned
<1>5. OneCreate BY DEF OneCreate
<1>6. \A r \in Requests : WholeTx(r, reqs[r], tx, tasks) /\ ReadRow(reqs[r], order)
  BY DEF WholeTx, ReadRow, InTx
<1> QED BY <1>1, <1>2, <1>3, <1>4, <1>5, <1>6 DEF OrdersInv

\* Outside its transaction, a request's connection has none.
LEMMA NoTransaction ==
  ASSUME OrdersInv, ~raced, NEW r \in Requests, reqs[r].conn \in Conns,
         reqs[r].pc \notin InTx \cup {"rollback"}
  PROVE  /\ tx[reqs[r].conn] = NoTx
         /\ RowOn(reqs[r].conn) = order /\ TasksOn(reqs[r].conn) = tasks
<1>1. tx[reqs[r].conn] = NoTx
  BY WorkOrdersAssumption DEF OrdersInv, Owned, OneConn
<1> QED BY <1>1 DEF RowOn, TasksOn, NoTx

\* Inside it, the row is as it was, and no query waits.
LEMMA InTransaction ==
  ASSUME OrdersInv, ~raced, NEW r \in Requests, reqs[r].pc \in InTx \cup {"rollback", "begin"}
  PROVE  /\ queue = <<>>
         /\ reqs[r].pc \in InTx => RowOn(reqs[r].conn) = order
         /\ \A q \in Requests \ {r} : reqs[q].pc \notin Replacing
BY DEF OrdersInv, Contended, Replacing, InTx, WholeTx, RowOn

\* Who acts on the rows, and how: the row keeps its date, it is created once, and
\* the list changes only in a commit.
LEMMA RowsMove ==
  ASSUME OrdersInv, ~raced, NEW r \in Requests, RequestStep(r)
  PROVE  /\ order # None => order' # None /\ (order.dated => order'.dated)
         /\ order = None /\ order' # None =>
              InsertOrder(r) /\ reqs[r].op = "create"
         /\ tasks' # tasks => reqs[r].pc = "commit" /\ tasks' = ListOf(r)
<1>1. /\ order \in Row \cup {None} /\ tasks \in SUBSET Tasks /\ None \notin Row
      /\ reqs[r].conn \in Conns \cup {None} /\ tx \in [Conns -> Transaction]
  BY WorkOrdersAssumption DEF OrdersInv, WorkOrdersTypeOK, Request
<1> DEFINE c == reqs[r].conn
<1>2. CASE StartRequest(r) \/ Check(r) \/ Refuse(r) \/ Begin(r) \/ StartDelete(r)
           \/ Rollback(r) \/ StatementFails(r)
  BY <1>2 DEF StartRequest, Check, Refuse, Begin, StartDelete, Rollback, StatementFails
<1>3. CASE InsertOrder(r)
  <2>1. /\ reqs[r].pc = "insert" /\ c \in Conns
        /\ Write(c, [status |-> "open", dated |-> FALSE], {}, {})
    BY <1>1, <1>3 DEF InsertOrder, At
  <2>2. reqs[r].op = "create" /\ order = None BY <2>1 DEF OrdersInv, OneCreate
  <2>3. tx[c] = NoTx BY <2>1, NoTransaction DEF InTx
  <2>4. UNCHANGED tasks BY <2>1, <2>3 DEF Write, NoTx
  <2> QED BY <1>3, <2>2, <2>4
<1>4. CASE UpdateOrder(r)
  <2> DEFINE status == IF reqs[r].want # None THEN reqs[r].want ELSE order.status
             dated == order.dated \/ Dates(r)
  <2>1. reqs[r].pc = "update" /\ c \in Conns BY <1>1, <1>4 DEF UpdateOrder, At
  <2>2. tx[c] = NoTx /\ RowOn(c) = order BY <2>1, NoTransaction DEF InTx
  <2>3. order # None BY <2>1 DEF OrdersInv, ReadRow
  <2>4. Write(c, [status |-> status, dated |-> dated], {}, {})
    BY <1>4, <2>2, <2>3 DEF UpdateOrder
  <2> HIDE DEF status, dated
  <2>5. [status |-> status, dated |-> dated] # None => order' = [status |-> status, dated |-> dated]
    BY <2>2, <2>4 DEF Write, NoTx
  <2>6. UNCHANGED tasks BY <2>2, <2>4 DEF Write, NoTx
  <2>7. order' \in {order, [status |-> status, dated |-> dated]}
    BY <2>2, <2>4 DEF Write, NoTx
  <2>8. order' # None /\ (order.dated => order'.dated)
    <3>1. [status |-> status, dated |-> dated] # None => order'.dated = dated BY <2>5
    <3>2. status \in Statuses
      BY <1>1, <2>3 DEF status, Row, OrdersInv, WorkOrdersTypeOK, Request
    <3>3. dated \in BOOLEAN BY Zenon DEF dated
    <3>4. [status |-> status, dated |-> dated] \in Row BY <3>2, <3>3 DEF Row
    <3>5. order.dated => dated BY Zenon DEF dated
    <3> QED BY <1>1, <2>5, <3>1, <3>4, <3>5
  <2> QED BY <2>3, <2>6, <2>8
<1>5. CASE DeleteTasks(r) \/ AddTask(r)
  <2>1. c \in Conns /\ reqs[r].pc \in InTx BY <1>1, <1>5 DEF DeleteTasks, AddTask, At, InTx
  <2>2. tx[c].open BY <2>1 DEF OrdersInv, WholeTx
  <2> QED BY <1>5, <2>2 DEF DeleteTasks, AddTask, Write
<1>6. ASSUME reqs[r].pc = "commit", c \in Conns, Committed(c)
      PROVE  UNCHANGED order /\ tasks' = ListOf(r)
  <2>1. /\ tx[c].open /\ tx[c].sound /\ tx[c].row = None
        /\ tx[c].gone = tasks /\ tx[c].new = {r} \X (1..reqs[r].added)
    BY <1>6 DEF OrdersInv, WholeTx, InTx
  <2>2. reqs[r].added = reqs[r].n BY <1>6 DEF OrdersInv, Counts, Counted
  <2> QED BY <1>6, <2>1, <2>2 DEF Committed, RowOn, TasksOn, ListOf
<1>7. CASE Commit(r)
  BY <1>1, <1>6, <1>7 DEF Commit, At
<1>8. CASE ConnectionBreaks(r)
  BY <1>1, <1>6, <1>8 DEF ConnectionBreaks
<1> QED BY <1>2, <1>3, <1>4, <1>5, <1>7, <1>8 DEF RequestStep

\* What a request does to its own transaction, and to no other.
OwnStep(r) ==
    /\ \A c \in Conns : c # reqs[r].conn => tx'[c] = tx[c]
    /\ WholeTx(r, reqs'[r], tx', tasks')
    /\ reqs[r].conn \in Conns /\ tx'[reqs[r].conn] # NoTx =>
         /\ tx'[reqs[r].conn].open
         /\ reqs'[r].pc \in InTx \cup {"rollback"} /\ reqs'[r].conn = reqs[r].conn
    /\ reqs[r].pc \notin {"new", "check"} =>
         reqs'[r].pc \notin {"check", "insert", "update"}

LEMMA OwnMoves ==
  ASSUME OrdersInv, ~raced, NEW r \in Requests, RequestStep(r)
  PROVE  OwnStep(r)
<1> DEFINE me == reqs[r]
           c == me.conn
<1>1. /\ WorkOrdersTypeOK /\ Counts /\ Counted(me)
      /\ reqs \in [Requests -> Request] /\ me \in Request
      /\ tx \in [Conns -> Transaction]
      /\ c \in Conns \cup {None} /\ None \notin Conns
      /\ tasks \in SUBSET Tasks
      /\ me.n \in 0..MaxTasks /\ me.added \in 0..MaxTasks
      /\ MaxTasks \in Nat
  BY WorkOrdersAssumption DEF OrdersInv, WorkOrdersTypeOK, Request, Counts
<1>2. ASSUME UNCHANGED tx, reqs'[r].pc \notin InTx \cup {"rollback"},
             me.pc \notin InTx \cup {"rollback"},
             me.pc \notin {"new", "check"} =>
                 reqs'[r].pc \notin {"check", "insert", "update"}
      PROVE  OwnStep(r)
  BY <1>2, NoTransaction DEF OwnStep, WholeTx, InTx
<1>3. CASE StartRequest(r)
  <2>1. reqs'[r].pc = "check" /\ UNCHANGED tx /\ me.pc = "new"
    BY <1>1, <1>3, RequestMoves DEF StartRequest
  <2> QED BY <1>2, <2>1 DEF InTx
<1>4. CASE Check(r)
  <2>1. reqs'[r].pc \in {"insert", "begin", "update"} /\ UNCHANGED tx /\ me.pc = "check"
    BY <1>1, <1>4, RequestMoves DEF Check, At
  <2> QED BY <1>2, <2>1 DEF InTx
<1>5. CASE Refuse(r)
  <2>1. reqs'[r].pc = "done" /\ UNCHANGED tx /\ me.pc = "check"
    BY <1>1, <1>5, RequestMoves DEF Refuse, At
  <2> QED BY <1>2, <2>1 DEF InTx
<1>6. CASE InsertOrder(r)
  <2>1. /\ reqs'[r].pc \in {"begin", "done"} /\ me.pc = "insert" /\ c \in Conns
        /\ Write(c, [status |-> "open", dated |-> FALSE], {}, {})
    BY <1>1, <1>6, RequestMoves DEF InsertOrder, At
  <2>2. tx[c] = NoTx BY <2>1, NoTransaction DEF InTx
  <2>3. UNCHANGED tx BY <2>1, <2>2 DEF Write, NoTx
  <2> QED BY <1>2, <2>1, <2>3 DEF InTx
<1>7. CASE UpdateOrder(r)
  <2>1. reqs'[r].pc = "done" /\ me.pc = "update" /\ c \in Conns
    BY <1>1, <1>7, RequestMoves DEF UpdateOrder, At
  <2>2. tx[c] = NoTx BY <2>1, NoTransaction DEF InTx
  <2>3. UNCHANGED tx BY <1>7, <2>2 DEF UpdateOrder, Write, NoTx
  <2> QED BY <1>2, <2>1, <2>3 DEF InTx
<1>8. ASSUME NEW req \in Request, req.conn = c, me.pc \in InTx \cup {"begin"}, Continue(r, req)
      PROVE  reqs'[r] = req
  <2>1. queue = <<>> BY <1>8, InTransaction DEF InTx
  <2> HIDE DEF c
  <2> QED BY <1>1, <1>8, <2>1, ContinueMoves DEF c
<1>9. ASSUME tx' = [tx EXCEPT ![c] = NoTx], c \in Conns,
             reqs'[r].pc \in {"rollback", "done"}
      PROVE  OwnStep(r)
  BY <1>1, <1>9 DEF OwnStep, WholeTx, InTx
<1>10. CASE Begin(r)
  <2> DEFINE req == [me EXCEPT !.pc = "delete"]
  <2>1. /\ me.pc = "begin" /\ c \in Conns /\ tx[c].sound
        /\ tx' = [tx EXCEPT ![c].open = TRUE] /\ UNCHANGED tasks
        /\ Continue(r, req)
    BY <1>1, <1>10 DEF Begin, At, GoOn
  <2>2. req \in Request /\ req.conn = c /\ req.pc = "delete" BY <1>1 DEF Request, Replacing
  <2> HIDE DEF req
  <2>3. reqs'[r] = req BY <1>8, <2>1, <2>2
  <2>4. tx[c] = NoTx BY <2>1, NoTransaction DEF InTx
  <2>5. /\ \A d \in Conns \ {c} : tx'[d] = tx[d]
        /\ tx'[c].open /\ tx'[c].sound /\ tx'[c].row = None
        /\ tx'[c].gone = {} /\ tx'[c].new = {}
    BY <1>1, <2>1, <2>4 DEF NoTx
  <2> QED BY <2>1, <2>2, <2>3, <2>5 DEF OwnStep, WholeTx, InTx
<1>11. ASSUME me.pc \in InTx, c \in Conns
       PROVE  /\ tx[c].open /\ tx[c].sound /\ tx[c].row = None
              /\ me.pc \in {"delete", "deleting"} => tx[c].gone = {} /\ tx[c].new = {}
              /\ me.pc = "deleting" => me.seen = tasks
              /\ me.pc \in {"add", "commit"} =>
                    tx[c].gone = tasks /\ tx[c].new = {r} \X (1..me.added)
              /\ tx[c] \in Transaction
  BY <1>1, <1>11 DEF OrdersInv, WholeTx
<1>12. CASE StartDelete(r)
  <2> DEFINE req == [me EXCEPT !.pc = "deleting", !.seen = TasksOn(c)]
  <2>1. /\ me.pc = "delete" /\ c \in Conns /\ UNCHANGED <<tx, tasks>>
        /\ reqs' = [reqs EXCEPT ![r] = req]
    BY <1>1, <1>12 DEF StartDelete, At
  <2>2. TasksOn(c) = tasks BY <1>11, <2>1 DEF TasksOn, InTx
  <2>3. req.pc = "deleting" /\ req.seen = tasks /\ req.conn = c BY <1>1, <2>2 DEF Request
  <2> HIDE DEF req
  <2>4. reqs'[r] = req BY <1>1, <2>1
  <2> QED BY <1>11, <2>1, <2>3, <2>4 DEF OwnStep, WholeTx, InTx
<1>13. CASE DeleteTasks(r)
  <2> DEFINE pc == IF me.n = 0 THEN "commit" ELSE "add"
             req == [me EXCEPT !.pc = pc, !.seen = {}]
  <2>1. /\ me.pc = "deleting" /\ c \in Conns
        /\ Write(c, None, me.seen, {}) /\ Continue(r, req)
    BY <1>1, <1>13 DEF DeleteTasks, At
  <2>2. me.added = 0 BY <1>1, <2>1 DEF Counted
  <2>3. pc \in {"commit", "add"} OBVIOUS
  <2> HIDE DEF pc
  <2>4. /\ req \in Request /\ req.conn = c /\ req.pc = pc /\ req.added = me.added
    BY <1>1, <2>3 DEF Request, Replacing
  <2> HIDE DEF req
  <2>5. reqs'[r] = req BY <1>8, <2>1, <2>4 DEF InTx
  <2>6. /\ tx' = [tx EXCEPT ![c].row = IF None # None THEN None ELSE @,
                            ![c].gone = @ \cup (me.seen \cap tasks),
                            ![c].new = (@ \ me.seen) \cup {}]
        /\ UNCHANGED tasks
    BY <1>11, <2>1 DEF Write, InTx
  <2>7. /\ \A d \in Conns \ {c} : tx'[d] = tx[d]
        /\ tx'[c].open /\ tx'[c].sound /\ tx'[c].row = None
        /\ tx'[c].gone = tx[c].gone \cup (me.seen \cap tasks)
        /\ tx'[c].new = (tx[c].new \ me.seen) \cup {}
    BY <1>1, <1>11, <2>1, <2>6 DEF InTx, Transaction
  <2>8. tx'[c].gone = tasks /\ tx'[c].new = {} BY <1>11, <2>1, <2>7 DEF InTx
  <2>9. {r} \X (1..0) = {} OBVIOUS
  <2> QED BY <2>1, <2>2, <2>3, <2>4, <2>5, <2>6, <2>7, <2>8, <2>9 DEF OwnStep, WholeTx, InTx
<1>14. CASE AddTask(r)
  <2> DEFINE i == me.added + 1
             pc == IF i = me.n THEN "commit" ELSE "add"
             req == [me EXCEPT !.pc = pc, !.added = i]
  <2>1. /\ me.pc = "add" /\ c \in Conns
        /\ Write(c, None, {}, {<<r, i>>}) /\ Continue(r, req)
    BY <1>1, <1>14 DEF AddTask, At
  <2>2. i \in 0..MaxTasks /\ i = me.added + 1 BY <1>1, <2>1 DEF Counted
  <2>3. pc \in {"commit", "add"} OBVIOUS
  <2> HIDE DEF i, pc
  <2>4. /\ req \in Request /\ req.conn = c /\ req.pc = pc /\ req.added = i
    BY <1>1, <2>2, <2>3 DEF Request, Replacing
  <2> HIDE DEF req
  <2>5. reqs'[r] = req BY <1>8, <2>1, <2>4 DEF InTx
  <2>6. /\ tx' = [tx EXCEPT ![c].row = IF None # None THEN None ELSE @,
                            ![c].gone = @ \cup ({} \cap tasks),
                            ![c].new = (@ \ {}) \cup {<<r, i>>}]
        /\ UNCHANGED tasks
    BY <1>11, <2>1 DEF Write, InTx
  <2>7. /\ \A d \in Conns \ {c} : tx'[d] = tx[d]
        /\ tx'[c].open /\ tx'[c].sound /\ tx'[c].row = None
        /\ tx'[c].gone = tx[c].gone \cup ({} \cap tasks)
        /\ tx'[c].new = (tx[c].new \ {}) \cup {<<r, i>>}
    BY <1>1, <1>11, <2>1, <2>6 DEF InTx, Transaction
  <2>8. tx'[c].gone = tasks BY <1>11, <2>1, <2>7 DEF InTx
  <2>9. tx'[c].new = {r} \X (1..i)
    <3>1. tx'[c].new = ({r} \X (1..me.added)) \cup {<<r, i>>} BY <1>11, <2>1, <2>7 DEF InTx
    <3>2. 1..i = (1..me.added) \cup {i} BY <1>1, <2>2
    <3> QED BY <3>1, <3>2
  <2> QED BY <2>1, <2>3, <2>4, <2>5, <2>6, <2>7, <2>8, <2>9 DEF OwnStep, WholeTx, InTx
<1>15. CASE Commit(r) \/ Rollback(r)
  <2>1. tx' = [tx EXCEPT ![c] = NoTx] /\ c \in Conns /\ reqs'[r].pc = "done"
    BY <1>1, <1>15, RequestMoves DEF Commit, Rollback, At
  <2> QED BY <1>9, <2>1
<1>16. ASSUME GiveUp(r)
       PROVE  /\ me.pc \in InTx => reqs'[r].pc = "rollback" /\ reqs'[r].conn = c
              /\ me.pc \notin InTx => reqs'[r].pc = "done"
  <2> DEFINE req == [me EXCEPT !.pc = "rollback", !.seen = {}]
  <2>1. req \in Request /\ req.conn = c /\ req.pc = "rollback" BY <1>1 DEF Request, Replacing
  <2>2. IF me.pc \in InTx THEN Continue(r, req) ELSE Finish(r) BY <1>16 DEF GiveUp, InTx
  <2> HIDE DEF req
  <2>3. me.pc \in InTx => reqs'[r] = req BY <1>8, <2>1, <2>2
  <2>4. Finish(r) => reqs'[r].pc = "done" BY <1>1, FinishMoves DEF PoolStep, Alike
  <2> QED BY <2>1, <2>2, <2>3, <2>4
<1>17. CASE StatementFails(r)
  <2>1. /\ c \in Conns /\ me.pc \notin {"commit", "rollback"} /\ GiveUp(r)
        /\ tx' = [tx EXCEPT ![c].sound = ~tx[c].open]
    BY <1>1, <1>17 DEF StatementFails
  <2>2. \A d \in Conns \ {c} : tx'[d] = tx[d] BY <1>1, <2>1
  <2>3. CASE me.pc \in InTx
    <3>1. tx'[c].open BY <1>1, <1>11, <2>1, <2>3 DEF Transaction
    <3>2. reqs'[r].pc = "rollback" /\ reqs'[r].conn = c BY <1>16, <2>1, <2>3
    <3> QED BY <2>2, <3>1, <3>2 DEF OwnStep, WholeTx, InTx
  <2>4. CASE me.pc \notin InTx
    <3>1. tx[c] = NoTx BY <2>1, <2>4, NoTransaction
    <3>2. tx'[c] = NoTx
      <4> DEFINE sound == ~tx[c].open
      <4>1. tx' = [tx EXCEPT ![c].sound = sound] BY <2>1
      <4>2. tx[c].open = FALSE BY <3>1 DEF NoTx
      <4>3. sound = TRUE BY Zenon, <4>2
      <4> HIDE DEF sound
      <4>4. tx'[c] = [NoTx EXCEPT !.sound = TRUE] BY <1>1, <2>1, <3>1, <4>1, <4>3
      <4>5. [NoTx EXCEPT !.sound = TRUE] = NoTx
        <5>1. NoTx \in Transaction BY DEF NoTx, Transaction
        <5>2. NoTx.sound = TRUE BY DEF NoTx
        <5> QED BY <5>1, <5>2 DEF Transaction
      <4> QED BY <4>4, <4>5
    <3>3. reqs'[r].pc = "done" BY <1>16, <2>1, <2>4
    <3> QED BY <2>2, <3>2, <3>3 DEF OwnStep, WholeTx, InTx
  <2> QED BY <2>3, <2>4
<1>18. CASE ConnectionBreaks(r)
  <2>1. c \in Conns /\ GiveUp(r) /\ tx' = [tx EXCEPT ![c] = NoTx]
    BY <1>1, <1>18 DEF ConnectionBreaks
  <2> QED BY <1>9, <1>16, <2>1
<1> QED BY <1>3, <1>4, <1>5, <1>6, <1>7, <1>10, <1>12, <1>13, <1>14, <1>15, <1>17, <1>18
        DEF RequestStep

\* What a step of r leaves to the other requests.
LEMMA OthersKeep ==
  ASSUME OrdersInv, ~raced, NEW r \in Requests, RequestStep(r),
         NEW q \in Requests \ {r}
  PROVE  /\ Alike(reqs'[q], reqs[q])
         /\ reqs[q].pc \in Replacing => reqs'[q] = reqs[q] /\ UNCHANGED tasks
         /\ WholeTx(q, reqs'[q], tx', tasks')
         /\ ReadRow(reqs'[q], order')
<1>1. WorkOrdersTypeOK /\ Counts /\ WholeTx(q, reqs[q], tx, tasks) /\ ReadRow(reqs[q], order)
  BY DEF OrdersInv
<1>2. PICK req \in Request : PoolStep(r, req) BY <1>1, StepPools
<1>3. Alike(reqs'[q], reqs[q]) BY <1>2 DEF PoolStep
<1>4. ASSUME reqs[q].pc \in Replacing PROVE reqs'[q] = reqs[q] /\ UNCHANGED tasks
  <2>1. queue = <<>> /\ reqs[r].pc \notin Replacing
    BY <1>4 DEF OrdersInv, Contended
  <2>2. reqs'[q] = reqs[q] BY <1>2, <2>1 DEF PoolStep
  <2>3. UNCHANGED tasks BY <2>1, RowsMove DEF Replacing
  <2> QED BY <2>2, <2>3
<1>5. WholeTx(q, reqs'[q], tx', tasks')
  <2>1. CASE reqs[q].pc \in InTx
    <3>1. reqs'[q] = reqs[q] /\ UNCHANGED tasks BY <1>4, <2>1 DEF InTx, Replacing
    <3>2. reqs[q].conn \in Conns BY <1>1, <2>1 DEF WholeTx
    <3>3. reqs[q].conn # reqs[r].conn
      BY <3>2, WorkOrdersAssumption DEF OrdersInv, OneConn
    <3>4. tx'[reqs[q].conn] = tx[reqs[q].conn] BY <3>2, <3>3, OwnMoves DEF OwnStep
    <3> QED BY <1>1, <3>1, <3>4 DEF WholeTx
  <2>2. CASE reqs[q].pc \notin InTx
    BY <1>3, <2>2 DEF WholeTx, InTx, Alike
  <2> QED BY <2>1, <2>2
<1>6. ReadRow(reqs'[q], order')
  BY <1>1, <1>3, RowsMove DEF ReadRow, Alike
<1> QED BY <1>3, <1>4, <1>5, <1>6

\* An order that is done is dated, whatever the step.
LEMMA DatesMove ==
  ASSUME OrdersInv, NEW r \in Requests, RequestStep(r), ~raced, ~raced'
  PROVE  DoneIsDated'
<1>1. /\ order \in Row \cup {None} /\ None \notin Row
      /\ reqs[r].conn \in Conns \cup {None} /\ tx \in [Conns -> Transaction]
      /\ DoneIsDated
      /\ reqs[r] \in Request /\ None \notin Statuses
  BY WorkOrdersAssumption DEF OrdersInv, WorkOrdersTypeOK, Request
<1> DEFINE c == reqs[r].conn
<1>2. CASE UNCHANGED order /\ (stale => stale')
  BY <1>1, <1>2 DEF DoneIsDated
<1>3. CASE InsertOrder(r)
  <2> DEFINE opened == [status |-> "open", dated |-> FALSE]
  <2>1. reqs[r].pc = "insert" /\ c \in Conns /\ Write(c, opened, {}, {})
    BY <1>1, <1>3 DEF InsertOrder, At
  <2>2. tx[c] = NoTx BY <2>1, NoTransaction DEF InTx
  <2>3. opened \in Row /\ opened.status = "open" /\ ~opened.dated BY DEF Row, Statuses
  <2> HIDE DEF opened
  <2>4. order' = opened BY <1>1, <2>1, <2>2, <2>3 DEF Write, NoTx
  <2> QED BY <2>3, <2>4 DEF DoneIsDated
<1>4. CASE UpdateOrder(r)
  <2> DEFINE want == reqs[r].want
             read == reqs[r].read
             status == IF want # None THEN want ELSE order.status
             dated == order.dated \/ Dates(r)
             new == [status |-> status, dated |-> dated]
  <2>1. reqs[r].pc = "update" /\ c \in Conns BY <1>1, <1>4 DEF UpdateOrder, At
  <2>2. tx[c] = NoTx /\ RowOn(c) = order BY <2>1, NoTransaction DEF InTx
  <2>3. /\ order # None /\ read \in Row /\ order \in Row
        /\ want # None => MayBecome(read.status, want)
        /\ read.status = "done" => read.dated
        /\ read.dated => order.dated
    BY <1>1, <2>1 DEF OrdersInv, ReadRow
  <2>4. Write(c, new, {}, {}) BY <1>4, <2>2, <2>3 DEF UpdateOrder
  <2>5. ~stale' => ~stale /\ order = read
    <3>1. stale' = (stale \/ order # read) BY <1>4, <2>2 DEF UpdateOrder
    <3> QED BY Zenon, <3>1
  <2>6. Dates(r) <=> (IF want # None THEN want ELSE read.status) = "done" /\ ~read.dated
    BY DEF Dates
  <2>7. /\ status \in Statuses /\ dated \in BOOLEAN
        /\ dated <=> order.dated \/ Dates(r)
    <3>1. status \in Statuses BY <1>1, <2>3 DEF Row, Request
    <3>2. dated \in BOOLEAN BY Zenon
    <3> QED BY Zenon, <3>1, <3>2
  <2>8. status = IF want # None THEN want ELSE order.status OBVIOUS
  <2>9. new.status = status /\ new.dated = dated /\ new \in Row
    <3> HIDE DEF status, dated
    <3> QED BY <2>7 DEF Row
  <2> HIDE DEF new, status, dated, want, read
  <2>10. order' = new BY <1>1, <2>2, <2>4, <2>9 DEF Write, NoTx
  <2>11. /\ order.status = "done" => order.dated
         /\ order.dated => order.status = "done" \/ stale
    BY <1>1, <2>3 DEF DoneIsDated
  <2>12. status = "done" => dated
    BY <2>3, <2>6, <2>7, <2>8, <2>11
  <2>13. dated /\ ~stale' => status = "done"
    BY <2>3, <2>5, <2>6, <2>7, <2>8, <2>11 DEF MayBecome
  <2> QED BY <2>9, <2>10, <2>12, <2>13 DEF DoneIsDated
<1>5. ASSUME c \in Conns, Committed(c), reqs[r].pc \in {"commit"}
      PROVE  UNCHANGED order
  BY <1>5, InTransaction DEF Committed, InTx
<1>6. (UNCHANGED order /\ (stale => stale')) \/ InsertOrder(r) \/ UpdateOrder(r)
  <2>1. CASE Commit(r)
    BY <1>1, <1>5, <2>1 DEF Commit, At
  <2>2. CASE ConnectionBreaks(r)
    BY <1>1, <1>5, <2>2 DEF ConnectionBreaks
  <2>3. CASE DeleteTasks(r) \/ AddTask(r)
    <3>1. c \in Conns /\ reqs[r].pc \in InTx
      BY <1>1, <2>3 DEF DeleteTasks, AddTask, At, InTx
    <3>2. tx[c].open BY <3>1 DEF OrdersInv, WholeTx
    <3> QED BY <2>3, <3>2 DEF DeleteTasks, AddTask, Write
  <2>4. CASE StartRequest(r) \/ Check(r) \/ Refuse(r) \/ Begin(r) \/ StartDelete(r)
             \/ Rollback(r) \/ StatementFails(r)
    BY <2>4 DEF StartRequest, Check, Refuse, Begin, StartDelete, Rollback, StatementFails
  <2> QED BY <2>1, <2>2, <2>3, <2>4 DEF RequestStep
<1> QED BY <1>2, <1>3, <1>4, <1>6

LEMMA OrdersKeep ==
  ASSUME OrdersInv, WorkOrdersNext
  PROVE  OrdersInv'
<1>1. WorkOrdersTypeOK' /\ Counts' /\ OneConn' BY OrdersTyped DEF OrdersInv
<1>2. CASE raced'
  <2>1. DoneIsDated' BY <1>2 DEF DoneIsDated
  <2> QED BY <1>1, <1>2, <2>1 DEF OrdersInv
<1>3. CASE ~raced'
  <2>1. ~raced /\ ~Contended' BY <1>3 DEF WorkOrdersNext
  <2>2. ASSUME NEW c \in Conns, CloseIdle(c) PROVE FALSE
    BY <2>1, <2>2, WorkOrdersAssumption DEF OrdersInv, Owned, CloseIdle, Busy
  <2>3. PICK r \in Requests : RequestStep(r) BY <2>2 DEF WorkOrdersNext, RequestStep
  <2>4. DoneIsDated' BY <1>3, <2>1, <2>3, DatesMove
  <2>5. reqs' \in [Requests -> Request] BY <1>1 DEF WorkOrdersTypeOK
  <2>6. \A q \in Requests \ {r} :
          /\ Alike(reqs'[q], reqs[q])
          /\ reqs[q].pc \in Replacing => reqs'[q] = reqs[q]
          /\ WholeTx(q, reqs'[q], tx', tasks') /\ ReadRow(reqs'[q], order')
    BY <2>1, <2>3, OthersKeep
  <2>7. OwnStep(r) BY <2>1, <2>3, OwnMoves
  <2>8. Owned'
    <3> SUFFICES ASSUME NEW c \in Conns, tx'[c] # NoTx
                 PROVE  /\ tx'[c].open
                        /\ \E q \in Requests :
                              reqs'[q].pc \in InTx \cup {"rollback"} /\ reqs'[q].conn = c
      BY DEF Owned
    <3>1. CASE c = reqs[r].conn BY <2>7, <3>1 DEF OwnStep
    <3>2. CASE c # reqs[r].conn
      <4>1. tx'[c] = tx[c] BY <2>7, <3>2 DEF OwnStep
      <4>2. PICK q \in Requests : reqs[q].pc \in InTx \cup {"rollback"} /\ reqs[q].conn = c
        BY <2>1, <4>1 DEF OrdersInv, Owned
      <4>3. tx[c].open BY <2>1, <4>1 DEF OrdersInv, Owned
      <4>4. reqs'[q] = reqs[q] BY <2>6, <3>2, <4>2 DEF InTx, Replacing
      <4> QED BY <4>1, <4>2, <4>3, <4>4
    <3> QED BY <3>1, <3>2
  <2>9. WorkOrdersTypeOK /\ Counts /\ OneCreate BY <2>1 DEF OrdersInv
  <2>10. /\ StartRequest(r) \/ reqs'[r].op = reqs[r].op
         /\ StartRequest(r) =>
              /\ reqs'[r].pc = "check"
              /\ reqs'[r].op = "create" =>
                    order = None /\ \A q \in Requests : reqs[q].op # "create"
         /\ Check(r) =>
              \/ reqs'[r].pc = "insert" /\ reqs[r].op = "create"
              \/ reqs'[r].pc = "begin"
              \/ /\ reqs'[r].pc = "update" /\ RowOn(reqs[r].conn) # None
                 /\ reqs'[r].read = RowOn(reqs[r].conn) /\ reqs'[r].want = reqs[r].want
                 /\ reqs[r].want # None =>
                       MayBecome(RowOn(reqs[r].conn).status, reqs[r].want)
         /\ InsertOrder(r) => reqs'[r].pc \in {"begin", "done"}
    BY <2>3, <2>9, RequestMoves
  <2>11. /\ order # None => order' # None /\ (order.dated => order'.dated)
         /\ order = None /\ order' # None => InsertOrder(r) /\ reqs[r].op = "create"
    BY <2>1, <2>3, RowsMove
  <2>12. /\ reqs'[r].pc = "check" => StartRequest(r)
         /\ reqs'[r].pc \in {"insert", "update"} => Check(r)
    <3>1. CASE reqs[r].pc \notin {"new", "check"} BY <2>7, <3>1 DEF OwnStep
    <3>2. CASE reqs[r].pc \in {"new", "check"}
      <4>1. StartRequest(r) \/ Check(r) \/ Finish(r)
        BY <2>3, <3>2 DEF RequestStep, StartRequest, Check, Refuse, InsertOrder, UpdateOrder,
           Begin, StartDelete, DeleteTasks, AddTask, Commit, Rollback, StatementFails,
           ConnectionBreaks, GiveUp, At
      <4>2. Finish(r) => reqs'[r].pc = "done" BY <2>9, FinishMoves DEF PoolStep, Alike
      <4> QED BY <2>10, <4>1, <4>2
    <3> QED BY <3>1, <3>2
  <2>13. StartRequest(r) \/ Check(r) => UNCHANGED order BY DEF StartRequest, Check
  <2>14. OneCreate'
    <3>1. \A q \in Requests : reqs'[q].pc = "insert" => reqs'[q].op = "create"
      <4>1. reqs'[r].pc = "insert" => reqs[r].op = "create" /\ ~StartRequest(r)
        BY <2>10, <2>12
      <4>2. reqs'[r].pc = "insert" => reqs'[r].op = "create" BY <2>10, <4>1
      <4> QED BY <2>6, <2>9, <4>2 DEF OneCreate, Alike
    <3>2. \A p, q \in Requests : reqs'[p].op = "create" /\ reqs'[q].op = "create" => p = q
      <4>1. \A q \in Requests \ {r} : reqs'[q].op = reqs[q].op BY <2>6 DEF Alike
      <4> QED BY <2>9, <2>10, <4>1 DEF OneCreate
    <3>3. ASSUME NEW q \in Requests, reqs'[q].op = "create", reqs'[q].pc \in {"check", "insert"}
          PROVE  order' = None
      <4>1. CASE q = r
        <5>1. StartRequest(r) \/ Check(r) BY <2>12, <3>3, <4>1
        <5>2. order = None
          <6>1. CASE StartRequest(r) BY <2>10, <3>3, <4>1, <6>1
          <6>2. CASE ~StartRequest(r)
            <7>1. reqs[r].op = "create" /\ reqs[r].pc = "check"
              BY <2>10, <3>3, <4>1, <5>1, <6>2 DEF Check, At
            <7> QED BY <2>9, <7>1 DEF OneCreate
          <6> QED BY <6>1, <6>2
        <5> QED BY <2>13, <5>1, <5>2
      <4>2. CASE q # r
        <5>1. reqs[q].op = "create" /\ reqs[q].pc \in {"check", "insert"}
          BY <2>6, <3>3, <4>2 DEF Alike
        <5>2. order = None BY <2>9, <5>1 DEF OneCreate
        <5>3. reqs[r].op # "create" BY <2>9, <4>2, <5>1 DEF OneCreate
        <5> QED BY <2>11, <5>2, <5>3
      <4> QED BY <4>1, <4>2
    <3> QED BY <3>1, <3>2, <3>3 DEF OneCreate
  <2>15. ReadRow(reqs'[r], order')
    <3> SUFFICES ASSUME reqs'[r].pc = "update" PROVE ReadRow(reqs'[r], order')
      BY DEF ReadRow
    <3>1. Check(r) BY <2>12
    <3>2. /\ reqs[r].pc = "check" /\ reqs[r].conn \in Conns /\ UNCHANGED order
          /\ order \in Row \cup {None}
      BY <2>9, <3>1 DEF Check, At, WorkOrdersTypeOK, Request
    <3>3. RowOn(reqs[r].conn) = order BY <2>1, <3>2, NoTransaction DEF InTx
    <3>4. DoneIsDated BY DEF OrdersInv
    <3> QED BY <2>1, <2>10, <3>1, <3>2, <3>3, <3>4 DEF ReadRow, DoneIsDated
  <2>16. \A q \in Requests : WholeTx(q, reqs'[q], tx', tasks') /\ ReadRow(reqs'[q], order')
    BY <2>6, <2>7, <2>15 DEF OwnStep
  <2>17. \A q \in Requests : WholeTx(q, reqs[q], tx, tasks)' /\ ReadRow(reqs[q], order)'
    BY <2>16 DEF WholeTx, ReadRow
  <2> QED BY <1>1, <2>1, <2>4, <2>8, <2>14, <2>17 DEF OrdersInv
<1> QED BY <1>2, <1>3

\* The invariant needs nothing of the others' variables.
LEMMA OrdersFrame ==
  ASSUME OrdersInv, UNCHANGED orderVars
  PROVE  OrdersInv'
<1>1. UNCHANGED order /\ UNCHANGED tasks /\ UNCHANGED tx /\ UNCHANGED queue
      /\ UNCHANGED reqs /\ UNCHANGED stale /\ UNCHANGED raced
  BY DEF orderVars
<1>2. WorkOrdersTypeOK' /\ Counts' /\ OneConn' /\ DoneIsDated'
  BY <1>1 DEF OrdersInv, WorkOrdersTypeOK, Counts, Counted, OneConn, DoneIsDated
<1>3. /\ Contended' <=> Contended
      /\ Owned' <=> Owned
      /\ OneCreate' <=> OneCreate
  BY <1>1 DEF Contended, Owned, OneCreate
<1>4. ASSUME NEW r \in Requests
      PROVE  /\ WholeTx(r, reqs[r], tx, tasks)' <=> WholeTx(r, reqs[r], tx, tasks)
             /\ ReadRow(reqs[r], order)' <=> ReadRow(reqs[r], order)
  BY <1>1 DEF WholeTx, ReadRow
<1> QED BY <1>1, <1>2, <1>3, <1>4 DEF OrdersInv

-----------------------------------------------------------------------------
(* The three together *)

RecordsInv ==
    /\ part \in {"orders", "files", "factor"}
    /\ OrdersInv
    /\ FilesInv
    /\ FactorInv

LEMMA RecordsStart == Init => RecordsInv
BY OrdersStart, FilesStart, FactorStarts DEF Init, RecordsInv

LEMMA RecordsKeep ==
  ASSUME RecordsInv, [Next]_vars
  PROVE  RecordsInv'
<1> USE DEF RecordsInv
<1>1. CASE OrdersMove
  BY <1>1, OrdersKeep, FilesFrame, FactorFrame DEF OrdersMove
<1>2. CASE FilesMove
  BY <1>2, OrdersFrame, FilesKeep, FactorFrame DEF FilesMove
<1>3. CASE FactorMoves
  BY <1>3, OrdersFrame, FilesFrame, FactorKeeps DEF FactorMoves
<1>4. CASE UNCHANGED vars
  BY <1>4, OrdersFrame, FilesFrame, FactorFrame DEF vars
<1> QED BY <1>1, <1>2, <1>3, <1>4 DEF Next

LEMMA RecordsAlways == Spec => []RecordsInv
<1>1. RecordsInv /\ [Next]_vars => RecordsInv' BY RecordsKeep
<1> QED BY RecordsStart, <1>1, PTL DEF Spec

\* Every variable keeps its type: the rows and transactions of a work order, the
\* files of every upload, the second factor and the handlers that change it.
THEOREM Typed == Spec => []TypeOK
<1>1. RecordsInv => TypeOK
  BY DEF RecordsInv, OrdersInv, FilesInv, FactorInv, TypeOK
<1> QED BY RecordsAlways, <1>1, PTL

\* An order that is done has resolved_at, whatever edits overwrite each other, and
\* one that has it is done unless an edit wrote over a row it had not read - until
\* setTasks has had to share its connections, when an edit may be rolled back with it
\* (updateWorkOrder, updateWorkOrderDetails).
THEOREM DoneHasItsDate == Spec => []DoneIsDated
<1>1. RecordsInv => DoneIsDated BY DEF RecordsInv, OrdersInv
<1> QED BY RecordsAlways, <1>1, PTL

\* setTasks replaces a list at once or not at all: the only step that changes the
\* list is the commit of one request, to that request's whole list, as long as no query
\* has waited beside an open transaction and no two replacements have run at once.
THEOREM ListsAreReplacedAtOnce == Spec => ReplacedAtOnce
<1> DEFINE step ==
      tasks' # tasks /\ ~raced' =>
         \E r \in Requests : reqs[r].pc = "commit" /\ tasks' = ListOf(r)
<1>1. ASSUME RecordsInv, [Next]_vars PROVE [step]_orderVars
  <2>1. CASE UNCHANGED orderVars BY <2>1
  <2>2. CASE OrdersMove
    <3> SUFFICES ASSUME tasks' # tasks, ~raced' PROVE step OBVIOUS
    <3>1. OrdersInv /\ ~raced BY <1>1, <2>2 DEF OrdersMove, WorkOrdersNext, RecordsInv
    <3>2. PICK r \in Requests : RequestStep(r)
      BY <2>2 DEF OrdersMove, WorkOrdersNext, RequestStep, CloseIdle
    <3> QED BY <3>1, <3>2, RowsMove
  <2> QED BY <1>1, <2>1, <2>2 DEF Next, FilesMove, FactorMoves, vars
<1> QED BY RecordsAlways, <1>1, PTL DEF Spec, ReplacedAtOnce

\* Every listed attachment or document has its clean bytes on disk, and every byte
\* on disk is listed, being uploaded or being removed, but for the mishaps that
\* the model names (the upload middleware, addAttachment, the documents service).
THEOREM ListedFilesAreThere == Spec => []DiskMatchesRows
<1>1. RecordsInv => DiskMatchesRows
  BY DEF RecordsInv, FilesInv, ListedAreSafe, DiskMatchesRows, ListedAreThere
<1> QED BY RecordsAlways, <1>1, PTL

\* A second factor is in force only with a secret whose code its user has shown,
\* and a login passes it only with such a code, unless a set-up or a disable met a
\* confirmation.
THEOREM OnlyProvedFactors == Spec => []FactorIsProved
<1>1. RecordsInv => FactorIsProved BY DEF RecordsInv, FactorInv
<1> QED BY RecordsAlways, <1>1, PTL
=============================================================================
