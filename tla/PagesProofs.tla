---------------------------- MODULE PagesProofs -----------------------------
(***************************************************************************)
(* Results about the four signed-in pages, for every set of tutors, files, *)
(* cases and filters, and every bound on what users, servers and           *)
(* connections do.  Each page has an inductive invariant of its own        *)
(* (UpInv, RecsInv, CasesInv, BoardInv): a part for each, then the         *)
(* theorems of the whole tab.                                              *)
(***************************************************************************)
EXTENDS MCPages, FiniteSetTheorems, TLAPS

-----------------------------------------------------------------------------
(* The documents section. *)

(* A delete in progress, or none.                                           *)
Removals == [stage : {"none", "sent", "answered"}, doc : Up!Docs \union {NoFile}]

(* The type invariant of the section, and the delete in full.               *)
UpTypes == Up!UploadsTypeOK /\ removal \in Removals

(* The tab waits for the answer to r.                                       *)
Waits(r) == r.stage \in Up!Awaited

(* An upload the tab waits for is of this mount and has its line open, or   *)
(* of an earlier one; it is told exactly when the server has stored it.     *)
RequestsInv ==
  /\ \A d \in told : d.batch <= batch
  /\ \A r \in requests : Waits(r) =>
       /\ r.doc.batch <= batch
       /\ r.doc \in told <=> r.stage = "stored"
       /\ r.doc.batch = batch =>
            /\ r.doc.slot \in DOMAIN entries
            /\ entries[r.doc.slot] = [file |-> r.doc.file, status |-> "uploading"]
       /\ \A q \in requests : Waits(q) /\ q.doc = r.doc => q = r

(* On the profile page one upload at a time holds the button until it is    *)
(* answered, and a successful one until the list is there.                  *)
ProfileInv ==
  mode = "profile" =>
    /\ picked = file
    /\ busy => entries # <<>> /\ entries[1].file = picked
    /\ waiting => busy
    /\ \A r \in requests : Waits(r) =>
         /\ busy /\ ~waiting
         /\ \A q \in requests : Waits(q) => q = r

(* The server has stored more and the answer that will say so is on its     *)
(* way; on the page of a case the last answer of a selection says it for    *)
(* all.                                                                     *)
Behind ==
  \/ mode = "case" /\ \E r \in requests : Waits(r)
  \/ \E r \in requests : r.stage = "stored"

(* What was read is, but for the deleted, what is stored, or an answer will *)
(* have it read again.                                                      *)
ListInv ==
  /\ fetch.stage = "read" /\ fetch.clean => fetch.value \ gone = stored \/ Behind
  /\ list # NoList /\ fetch.stage = "none" /\ ~listFailed /\ ~listDrift =>
       list \ gone = stored \/ Behind
  /\ ~fetch.clean => listDrift

(* A request on which the server has yet to decide.                         *)
Undecided(r) == r.stage \in {"sent", "late"}

(* What was deleted is not stored, and is not going to be: each request     *)
(* sends a document of its own.                                             *)
GoneInv ==
  /\ stored \intersect gone = {}
  /\ \A d \in stored \union gone : d.batch <= batch
  /\ \A r \in requests : Undecided(r) =>
       /\ r.doc.batch <= batch /\ r.doc \notin stored \union gone
       /\ \A q \in requests : Undecided(q) /\ q.doc = r.doc => q = r

(* The inductive invariant of the documents section.                        *)
UpInv ==
  /\ UpTypes /\ RequestsInv /\ Up!UploadsReported
  /\ ProfileInv /\ ListInv /\ GoneInv

(* The section is opened. *)
LEMMA UpInitially == Up!Init => UpInv
<1> SUFFICES ASSUME Up!Init PROVE UpInv
  OBVIOUS
<1>1. Up!UploadsConstants
  BY PagesConstants
<1>2. UpTypes
  <2>1. stored \subseteq Up!Docs
    BY <1>1 DEF Up!Init, Up!Docs, Up!UploadsConstants
  <2>2. entries \in Up!SeqOf([file : Files, status : {"uploading", "done", "error"}], 2)
    BY DEF Up!Init, Up!SeqOf
  <2>3. fetch \in [stage : {"none", "sent", "read"}, value : SUBSET Up!Docs, clean : BOOLEAN]
    BY DEF Up!Init, Up!Asked, Up!Idle
  <2>4. removal \in Removals /\ removal = Up!NoRemoval
    BY DEF Up!Init, Removals, Up!NoRemoval
  <2>5. batch \in 1..MaxBatches /\ losses \in 0..MaxLosses
    BY <1>1 DEF Up!Init, Up!UploadsConstants
  <2> QED
    BY <2>1, <2>2, <2>3, <2>4, <2>5 DEF Up!Init, UpTypes, Up!UploadsTypeOK
<1>3. RequestsInv /\ Up!UploadsReported /\ ProfileInv /\ ListInv
  BY DEF Up!Init, RequestsInv, Up!UploadsReported, ProfileInv, ListInv, Up!Asked, Up!Idle
<1>4. GoneInv
  <2>1. \A d \in stored : d.batch = 1
    BY DEF Up!Init
  <2> QED
    BY <2>1 DEF Up!Init, GoneInv
<1> QED
  BY <1>2, <1>3, <1>4 DEF UpInv

(* A line of the progress list, and the list itself. *)
Lines == [file : Files, status : {"uploading", "done", "error"}]

(* A progress list has at most two lines.                                   *)
LEMMA LinesAre ==
  ASSUME NEW s
  PROVE  s \in Up!SeqOf(Lines, 2) <=> \E n \in 0..2 : s \in [1..n -> Lines]
BY DEF Up!SeqOf

(* The answer to an upload, taken apart. *)
LEMMA Finished ==
  ASSUME UpTypes, NEW r \in requests, NEW status1 \in {"done", "error"}, NEW left,
         Up!Finish(r, status1, left)
  PROVE  /\ requests' = left
         /\ DOMAIN entries' = DOMAIN entries
         /\ entries' \in Up!SeqOf(Lines, 2)
         /\ \A i \in DOMAIN entries :
              entries'[i] = IF r.doc.batch = batch /\ i = r.doc.slot
                            THEN [entries[i] EXCEPT !.status = status1] ELSE entries[i]
         /\ UNCHANGED <<mode, stored, gone, batch, picked, file, removal, list, listFailed>>
         /\ mode = "case" /\ ~(\E o \in left : o.doc.batch = r.doc.batch /\ o.stage \in Up!Awaited)
              => Up!Invalidate
         /\ mode = "profile" /\ status1 = "done" => Up!Invalidate
         /\ \/ Up!Invalidate /\ mode = "case" /\ waiting' = waiting
            \/ Up!Invalidate /\ mode = "profile" /\ status1 = "done" /\ waiting' = TRUE
            \/ waiting' = waiting /\ fetch' = fetch /\ listDrift' = listDrift
            \/ waiting' = waiting /\ listDrift' = TRUE /\ fetch' = [fetch EXCEPT !.clean = FALSE]
         /\ mode = "profile" /\ status1 # "done" /\ r.stage = "stored" =>
              listDrift' = TRUE /\ fetch' = [fetch EXCEPT !.clean = FALSE]
         /\ busy' \in BOOLEAN
         /\ mode = "profile" =>
              busy' = IF r.doc.batch # batch THEN busy ELSE status1 = "done"
<1> DEFINE Open == \E o \in left : o.doc.batch = r.doc.batch /\ o.stage \in Up!Awaited
<1>1. PICK n \in 0..2 : entries \in [1..n -> Lines]
  BY LinesAre DEF UpTypes, Up!UploadsTypeOK, Lines
<1>2. entries' = Up!Mark(r.doc, status1)
  BY DEF Up!Finish
<1>3. entries' \in [1..n -> Lines]
  BY <1>1, <1>2 DEF Up!Mark, Lines
<1>4. \A i \in DOMAIN entries :
        entries'[i] = IF r.doc.batch = batch /\ i = r.doc.slot
                      THEN [entries[i] EXCEPT !.status = status1] ELSE entries[i]
  BY <1>1, <1>2 DEF Up!Mark
<1>5. mode \in {"case", "profile"} /\ busy \in BOOLEAN /\ waiting \in BOOLEAN
  BY DEF UpTypes, Up!UploadsTypeOK
<1>6. requests' = left /\ UNCHANGED <<mode, stored, gone, batch, picked, file, removal>>
  BY DEF Up!Finish
<1>7. UNCHANGED <<list, listFailed>>
  BY DEF Up!Finish, Up!Invalidate
<1>8. mode = "case" /\ ~Open => Up!Invalidate /\ waiting' = waiting
  BY <1>5 DEF Up!Finish
<1>9. mode = "profile" /\ status1 = "done" => Up!Invalidate /\ waiting' = TRUE
  BY DEF Up!Finish
<1>10. \/ Up!Invalidate /\ mode = "case" /\ waiting' = waiting
       \/ Up!Invalidate /\ mode = "profile" /\ status1 = "done" /\ waiting' = TRUE
       \/ waiting' = waiting /\ fetch' = fetch /\ listDrift' = listDrift
       \/ waiting' = waiting /\ listDrift' = TRUE /\ fetch' = [fetch EXCEPT !.clean = FALSE]
  BY <1>5, <1>8, <1>9 DEF Up!Finish
<1>11. mode = "profile" /\ status1 # "done" /\ r.stage = "stored" =>
         listDrift' = TRUE /\ fetch' = [fetch EXCEPT !.clean = FALSE]
  BY DEF Up!Finish
<1>12. busy' = CASE r.doc.batch # batch -> busy
                 [] mode = "case"       -> Open
                 [] OTHER               -> mode = "profile" /\ status1 = "done"
  BY DEF Up!Finish
<1>13. entries' \in Up!SeqOf(Lines, 2) /\ DOMAIN entries' = DOMAIN entries
  BY <1>1, <1>3, LinesAre
<1>14. busy' \in BOOLEAN
  BY <1>5, <1>12
<1>15. mode = "profile" => busy' = IF r.doc.batch # batch THEN busy ELSE status1 = "done"
  BY <1>12
<1> QED
  BY <1>4, <1>6, <1>7, <1>8, <1>9, <1>10, <1>11, <1>13, <1>14, <1>15

(* A fetch that is asked for anew, or joined. *)
Fetches == [stage : {"none", "sent", "read"}, value : SUBSET Up!Docs, clean : BOOLEAN]

(* What asking for the list and dirtying an answer leave.                   *)
LEMMA FetchTypes ==
  /\ Up!Idle \in Fetches /\ Up!Asked \in Fetches
  /\ Up!Idle.stage = "none" /\ Up!Asked.stage = "sent" /\ Up!Idle.clean /\ Up!Asked.clean
  /\ \A f \in Fetches :
       LET g == [f EXCEPT !.clean = FALSE]
       IN  g \in Fetches /\ g.stage = f.stage /\ g.value = f.value /\ ~g.clean
BY DEF Up!Idle, Up!Asked, Fetches

(* An invalidation asks anew, or dirties the first fetch under way.         *)
LEMMA Invalidated ==
  ASSUME fetch \in Fetches, listDrift \in BOOLEAN, Up!Invalidate
  PROVE  /\ UNCHANGED <<list, listFailed>>
         /\ fetch' \in Fetches /\ listDrift' \in BOOLEAN
         /\ \/ fetch'.stage = "sent" /\ fetch'.clean /\ listDrift' = listDrift
            \/ ~fetch'.clean /\ listDrift' = TRUE /\ list = NoList /\ fetch'.stage = fetch.stage
BY FetchTypes DEF Up!Invalidate

(* Every step of the section respects the types. *)
LEMMA UpTypeStep ==
  ASSUME UpTypes, Up!Next
  PROVE  UpTypes'
<1>0. Up!UploadsConstants
  BY PagesConstants
<1>1. /\ mode \in {"case", "profile"} /\ stored \subseteq Up!Docs /\ told \subseteq Up!Docs
      /\ gone \subseteq Up!Docs
      /\ losses \in 0..MaxLosses
      /\ requests \subseteq [doc : Up!Docs, stage : Up!Awaited \union {"late", "erase"}]
      /\ batch \in 1..MaxBatches /\ entries \in Up!SeqOf(Lines, 2)
      /\ busy \in BOOLEAN /\ listFailed \in BOOLEAN /\ listDrift \in BOOLEAN
      /\ picked \in Files \union {NoFile} /\ file \in Files \union {NoFile}
      /\ list = NoList \/ list \subseteq Up!Docs
      /\ fetch \in Fetches /\ waiting \in BOOLEAN
      /\ removal = Up!NoRemoval \/ removal.doc \in Up!Docs
      /\ removal \in Removals
  BY DEF UpTypes, Up!UploadsTypeOK, Lines, Fetches
<1> DEFINE Types ==
      /\ mode \in {"case", "profile"} /\ stored \subseteq Up!Docs /\ told \subseteq Up!Docs
      /\ gone \subseteq Up!Docs
      /\ losses \in 0..MaxLosses
      /\ requests \subseteq [doc : Up!Docs, stage : Up!Awaited \union {"late", "erase"}]
      /\ batch \in 1..MaxBatches /\ entries \in Up!SeqOf(Lines, 2)
      /\ busy \in BOOLEAN /\ listFailed \in BOOLEAN /\ listDrift \in BOOLEAN
      /\ picked \in Files \union {NoFile} /\ file \in Files \union {NoFile}
      /\ list = NoList \/ list \subseteq Up!Docs
      /\ fetch \in Fetches /\ waiting \in BOOLEAN
      /\ removal = Up!NoRemoval \/ removal.doc \in Up!Docs
      /\ removal \in Removals
<1>2. SUFFICES Types'
  BY DEF UpTypes, Up!UploadsTypeOK, Lines, Fetches
<1>3. MaxBatches \in Nat /\ MaxLosses \in Nat
  BY <1>0 DEF Up!UploadsConstants
<1>4. \A d \in Up!Docs, s \in Up!Awaited \union {"late", "erase"} :
        Up!Request(d, s) \in [doc : Up!Docs, stage : Up!Awaited \union {"late", "erase"}]
  BY DEF Up!Request
<1>5. {"sent", "stored", "refused"} = Up!Awaited
  BY DEF Up!Awaited
<1>6. \A m \in Removals :
        LET n == [m EXCEPT !.stage = "answered"]
        IN  n \in Removals /\ n.doc = m.doc
  BY DEF Removals
<1>7. Up!NoRemoval \in Removals
  BY DEF Removals, Up!NoRemoval
<1> USE DEF Up!server, Up!form, Up!query
<1>8. ASSUME NEW n \in 1..2, NEW fs, DOMAIN fs = 1..n, \A i \in 1..n : fs[i] \in Files,
             Up!SelectFiles(fs)
      PROVE Types'
  <2>1. entries' \in Up!SeqOf(Lines, 2)
    <3>1. entries' \in [1..n -> Lines]
      BY <1>8 DEF Up!SelectFiles, Lines
    <3>2. n \in 0..2
      OBVIOUS
    <3> QED
      BY <3>1, <3>2, LinesAre
  <2>2. batch' \in 1..MaxBatches
    BY <1>1, <1>3, <1>8 DEF Up!SelectFiles
  <2>3. \A i \in DOMAIN fs : [batch |-> batch', slot |-> i, file |-> fs[i]] \in Up!Docs
    BY <1>8, <2>2 DEF Up!Docs
  <2>4. requests' \subseteq [doc : Up!Docs, stage : Up!Awaited \union {"late", "erase"}]
    <3>1. requests' = requests \union
            {Up!Request([batch |-> batch', slot |-> i, file |-> fs[i]], "sent") : i \in DOMAIN fs}
      BY <1>8 DEF Up!SelectFiles
    <3>2. \A i \in DOMAIN fs :
            Up!Request([batch |-> batch', slot |-> i, file |-> fs[i]], "sent")
              \in [doc : Up!Docs, stage : Up!Awaited \union {"late", "erase"}]
      BY <1>4, <1>5, <2>3
    <3> QED
      BY <1>1, <3>1, <3>2
  <2> QED
    BY <1>1, <1>8, <2>1, <2>2, <2>4 DEF Up!SelectFiles
<1>9. ASSUME NEW f \in Files, Up!PickFile(f) PROVE Types'
  BY <1>1, <1>9 DEF Up!PickFile
<1>10. CASE Up!PressUpload
  <2>1. file \in Files
    BY <1>1, <1>10 DEF Up!PressUpload
  <2>2. batch' \in 1..MaxBatches
    BY <1>1, <1>3, <1>10 DEF Up!PressUpload
  <2>3. entries' \in Up!SeqOf(Lines, 2)
    <3>1. entries' \in [1..1 -> Lines]
      BY <1>10, <2>1 DEF Up!PressUpload, Lines
    <3> QED
      BY <3>1, LinesAre
  <2>4. [batch |-> batch', slot |-> 1, file |-> file] \in Up!Docs
    BY <2>1, <2>2 DEF Up!Docs
  <2>5. requests' \subseteq [doc : Up!Docs, stage : Up!Awaited \union {"late", "erase"}]
    BY <1>1, <1>4, <1>5, <1>10, <2>4 DEF Up!PressUpload
  <2> QED
    BY <1>1, <1>10, <2>2, <2>3, <2>5 DEF Up!PressUpload
<1>11. ASSUME NEW r \in requests, Up!Store(r) PROVE Types'
  <2>1. r.doc \in Up!Docs
    BY <1>1
  <2>2. fetch' \in Fetches /\ listDrift' \in BOOLEAN
    BY <1>1, <1>11, FetchTypes DEF Up!Store
  <2>3. requests' \subseteq [doc : Up!Docs, stage : Up!Awaited \union {"late", "erase"}]
    BY <1>1, <1>4, <1>5, <1>11, <2>1 DEF Up!Store
  <2> QED
    BY <1>1, <1>11, <2>1, <2>2, <2>3 DEF Up!Store
<1>12. ASSUME NEW r \in requests, NEW s \in {"done", "error"}, NEW left, Up!Finish(r, s, left),
              left \subseteq requests \union {Up!Request(r.doc, "late")},
              told' \subseteq told, losses' \in 0..MaxLosses
       PROVE Types'
  <2>1. requests' \subseteq [doc : Up!Docs, stage : Up!Awaited \union {"late", "erase"}]
    <3>1. r.doc \in Up!Docs
      BY <1>1
    <3>2. Up!Request(r.doc, "late") \in [doc : Up!Docs, stage : Up!Awaited \union {"late", "erase"}]
      BY <1>4, <3>1
    <3>3. requests' = left
      BY <1>12 DEF Up!Finish
    <3> QED
      BY <1>1, <1>12, <3>2, <3>3
  <2>2. fetch' \in Fetches /\ listDrift' \in BOOLEAN /\ waiting' \in BOOLEAN
    <3>1. CASE Up!Invalidate /\ waiting' \in BOOLEAN
      BY <1>1, <3>1, Invalidated
    <3>2. CASE waiting' = waiting /\ fetch' = fetch /\ listDrift' = listDrift
      BY <1>1, <3>2
    <3>3. CASE waiting' = waiting /\ listDrift' = TRUE /\ fetch' = [fetch EXCEPT !.clean = FALSE]
      BY <1>1, <3>3, FetchTypes
    <3> QED
      BY <1>1, <1>12, <3>1, <3>2, <3>3, Finished
  <2> QED
    BY <1>1, <1>12, <2>1, <2>2, Finished
<1>13. ASSUME NEW r \in requests, Up!UploadAnswered(r) PROVE Types'
  BY <1>1, <1>12, <1>13 DEF Up!UploadAnswered
<1>14. ASSUME NEW r \in requests, Up!UploadLost(r) PROVE Types'
  <2>1. losses' \in 0..MaxLosses
    BY <1>1, <1>3, <1>14 DEF Up!UploadLost, Up!Fault
  <2> QED
    BY <1>1, <1>12, <1>14, <2>1 DEF Up!UploadLost
<1>15. ASSUME NEW r \in requests, Up!EraseLate(r) PROVE Types'
  BY <1>1, <1>15 DEF Up!EraseLate
<1>16. ASSUME list # NoList, NEW d \in list, Up!PressDelete(d) PROVE Types'
  <2>1. removal' \in Removals /\ removal'.doc \in Up!Docs
    BY <1>1, <1>16 DEF Up!PressDelete, Removals
  <2> QED
    BY <1>1, <1>16, <2>1 DEF Up!PressDelete
<1>17. CASE Up!Delete
  <2>1. removal # Up!NoRemoval
    BY <1>17 DEF Up!Delete, Up!NoRemoval
  <2>2. removal' \in Removals /\ removal'.doc \in Up!Docs
    BY <1>1, <1>6, <1>17, <2>1 DEF Up!Delete
  <2> QED
    BY <1>1, <1>17, <2>2 DEF Up!Delete
<1>18. CASE Up!DeleteAnswered
  BY <1>1, <1>7, <1>18 DEF Up!DeleteAnswered
<1>20. CASE Up!DeleteLost
  <2>1. removal # Up!NoRemoval
    BY <1>20 DEF Up!DeleteLost, Up!NoRemoval
  <2>2. requests' \subseteq [doc : Up!Docs, stage : Up!Awaited \union {"late", "erase"}]
    BY <1>1, <1>4, <1>20, <2>1 DEF Up!DeleteLost
  <2>3. losses' \in 0..MaxLosses
    BY <1>1, <1>3, <1>20 DEF Up!DeleteLost, Up!Fault
  <2> QED
    BY <1>1, <1>7, <1>20, <2>2, <2>3, FetchTypes DEF Up!DeleteLost
<1>21. CASE Up!ReadList
  <2>1. fetch' \in Fetches
    BY <1>1, <1>21 DEF Up!ReadList, Fetches
  <2> QED
    BY <1>1, <1>21, <2>1 DEF Up!ReadList
<1>22. ASSUME Up!Settled
       PROVE /\ busy' \in BOOLEAN /\ picked' \in Files \union {NoFile}
             /\ file' \in Files \union {NoFile} /\ waiting' \in BOOLEAN
  BY <1>1, <1>22 DEF Up!Settled
<1>23. CASE Up!ReceiveList
  <2>1. fetch.value \subseteq Up!Docs
    BY <1>1 DEF Fetches
  <2> QED
    BY <1>1, <1>7, <1>22, <1>23, <2>1, FetchTypes DEF Up!ReceiveList
<1>24. CASE Up!FetchFails
  <2>1. losses' \in 0..MaxLosses
    BY <1>1, <1>3, <1>24 DEF Up!FetchFails, Up!Fault
  <2> QED
    BY <1>1, <1>7, <1>22, <1>24, <2>1, FetchTypes DEF Up!FetchFails
<1>25. CASE Up!Refetch
  <2>1. losses' \in 0..MaxLosses
    BY <1>1, <1>3, <1>25 DEF Up!Refetch, Up!Fault
  <2> QED
    BY <1>1, <1>25, <2>1, FetchTypes DEF Up!Refetch
<1>26. CASE Up!Remount
  <2>1. losses' \in 0..MaxLosses /\ batch' \in 1..MaxBatches
    BY <1>1, <1>3, <1>26 DEF Up!Remount, Up!Fault
  <2>2. entries' \in Up!SeqOf(Lines, 2)
    <3>1. <<>> \in [1..0 -> Lines] /\ 0 \in 0..2
      OBVIOUS
    <3>2. entries' = <<>>
      BY <1>26 DEF Up!Remount
    <3>3. <<>> \in Up!SeqOf(Lines, 2)
      BY <3>1, LinesAre
    <3> QED
      BY <3>2, <3>3
  <2> QED
    BY <1>1, <1>26, <2>1, <2>2 DEF Up!Remount
<1>27. ASSUME NEW f \in Files, Up!SelectFiles(<<f>>) PROVE Types'
  BY <1>8, <1>27
<1>28. ASSUME NEW f \in Files, NEW g \in Files, Up!SelectFiles(<<f, g>>) PROVE Types'
  BY <1>8, <1>28
<1> HIDE DEF Types
<1> QED
  BY <1>9, <1>10, <1>11, <1>13, <1>14, <1>15, <1>16, <1>17, <1>18, <1>20, <1>21,
     <1>23, <1>24, <1>25, <1>26, <1>27, <1>28 DEF Up!Next

(* A request carries its document and its stage. *)
LEMMA RequestIs ==
  ASSUME NEW d, NEW s
  PROVE  Up!Request(d, s).doc = d /\ Up!Request(d, s).stage = s
BY DEF Up!Request

(* A selection that is sent begins a batch of its own. *)
LEMMA Sending ==
  ASSUME UpTypes, RequestsInv, NEW sent,
         batch' = batch + 1, told' = told, requests' = requests \union sent,
         \A q \in sent :
           /\ q.stage = "sent" /\ q.doc.batch = batch'
           /\ q.doc.slot \in DOMAIN entries'
           /\ entries'[q.doc.slot] = [file |-> q.doc.file, status |-> "uploading"]
           /\ \A o \in sent : o.doc = q.doc => o = q
  PROVE  RequestsInv'
<1>1. batch \in Nat
  <2>1. batch \in 1..MaxBatches /\ MaxBatches \in Nat
    BY PagesConstants DEF UpTypes, Up!UploadsTypeOK, Up!UploadsConstants
  <2> QED
    BY <2>1
<1>2. \A d \in told : d.batch \in Nat /\ d.batch <= batch
  BY DEF UpTypes, Up!UploadsTypeOK, Up!Docs, RequestsInv
<1>3. \A r \in requests : r.doc.batch \in Nat
  BY DEF UpTypes, Up!UploadsTypeOK, Up!Docs
<1>4. \A d \in told' : d.batch <= batch'
  BY <1>1, <1>2
<1>5. ASSUME NEW r \in requests', Waits(r)
      PROVE  /\ r.doc.batch <= batch'
             /\ r.doc \in told' <=> r.stage = "stored"
             /\ r.doc.batch = batch' =>
                  /\ r.doc.slot \in DOMAIN entries'
                  /\ entries'[r.doc.slot] = [file |-> r.doc.file, status |-> "uploading"]
             /\ \A q \in requests' : Waits(q) /\ q.doc = r.doc => q = r
  <2>1. CASE r \in requests
    <3>1. /\ r.doc.batch <= batch /\ r.doc.batch \in Nat
          /\ r.doc \in told <=> r.stage = "stored"
          /\ \A q \in requests : Waits(q) /\ q.doc = r.doc => q = r
      BY <1>3, <1>5, <2>1 DEF RequestsInv
    <3>2. r.doc.batch # batch' /\ r.doc.batch <= batch'
      BY <1>1, <3>1
    <3> QED
      BY <3>1, <3>2
  <2>2. CASE r \in sent
    <3>1. /\ r.stage = "sent" /\ r.doc.batch = batch'
          /\ r.doc.slot \in DOMAIN entries'
          /\ entries'[r.doc.slot] = [file |-> r.doc.file, status |-> "uploading"]
          /\ \A o \in sent : o.doc = r.doc => o = r
      BY <2>2
    <3>2. ~(batch' <= batch) /\ batch' <= batch'
      BY <1>1
    <3>3. r.doc \notin told
      BY <1>2, <3>1, <3>2
    <3>4. \A q \in requests : Waits(q) => q.doc # r.doc
      <4>1. \A q \in requests : Waits(q) => q.doc.batch <= batch
        BY DEF RequestsInv
      <4> QED
        BY <3>1, <3>2, <4>1
    <3> QED
      BY <3>1, <3>2, <3>3, <3>4
  <2> QED
    BY <2>1, <2>2
<1> QED
  BY <1>4, <1>5 DEF RequestsInv, Waits

(* Every step of the section keeps RequestsInv. *)
LEMMA RequestsStep ==
  ASSUME UpTypes, RequestsInv, Up!Next
  PROVE  RequestsInv'
<1> USE DEF Up!server, Up!form, Up!query
<1>1. ASSUME UNCHANGED <<told, batch, entries>>,
             \A r \in requests' : Waits(r) => r \in requests
      PROVE  RequestsInv'
  BY <1>1 DEF RequestsInv, Waits
<1>2. ASSUME NEW n \in 1..2, NEW fs, DOMAIN fs = 1..n, \A i \in 1..n : fs[i] \in Files,
             Up!SelectFiles(fs)
      PROVE RequestsInv'
  <2> DEFINE D(i) == [batch |-> batch', slot |-> i, file |-> fs[i]]
             Sent == {Up!Request(D(i), "sent") : i \in DOMAIN fs}
  <2>1. /\ batch' = batch + 1 /\ told' = told /\ requests' = requests \union Sent
        /\ entries' = [i \in DOMAIN fs |-> [file |-> fs[i], status |-> "uploading"]]
    BY <1>2 DEF Up!SelectFiles
  <2>2. ASSUME NEW q \in Sent, NEW o \in Sent
        PROVE  /\ q.stage = "sent" /\ q.doc.batch = batch'
               /\ q.doc.slot \in DOMAIN entries'
               /\ entries'[q.doc.slot] = [file |-> q.doc.file, status |-> "uploading"]
               /\ o.doc = q.doc => o = q
    <3>1. PICK i \in DOMAIN fs : q = Up!Request(D(i), "sent")
      OBVIOUS
    <3>2. PICK j \in DOMAIN fs : o = Up!Request(D(j), "sent")
      OBVIOUS
    <3>3. q.stage = "sent" /\ q.doc = D(i) /\ o.doc = D(j)
      BY <3>1, <3>2, RequestIs
    <3>4. D(i).batch = batch' /\ D(i).slot = i /\ D(i).file = fs[i] /\ D(j).slot = j
      OBVIOUS
    <3> HIDE DEF D
    <3> QED
      BY <2>1, <3>1, <3>2, <3>3, <3>4
  <2> HIDE DEF Sent
  <2> QED
    BY <2>1, <2>2, Sending
<1>3. CASE Up!PressUpload
  <2> DEFINE d == [batch |-> batch', slot |-> 1, file |-> file]
             q == Up!Request(d, "sent")
  <2>1. /\ batch' = batch + 1 /\ told' = told /\ requests' = requests \union {q}
        /\ entries' = <<[file |-> file, status |-> "uploading"]>>
    BY <1>3 DEF Up!PressUpload
  <2>2. q.stage = "sent" /\ q.doc = d /\ d.batch = batch' /\ d.slot = 1 /\ d.file = file
    BY RequestIs
  <2>3. 1 \in DOMAIN entries' /\ entries'[1] = [file |-> file, status |-> "uploading"]
    BY <2>1
  <2> DEFINE Sent == {q}
  <2>4. requests' = requests \union Sent
    BY <2>1
  <2> HIDE DEF d, q
  <2>5. \A p \in Sent :
          /\ p.stage = "sent" /\ p.doc.batch = batch'
          /\ p.doc.slot \in DOMAIN entries'
          /\ entries'[p.doc.slot] = [file |-> p.doc.file, status |-> "uploading"]
          /\ \A o \in Sent : o.doc = p.doc => o = p
    BY <2>2, <2>3
  <2> HIDE DEF Sent
  <2> QED
    BY <2>1, <2>4, <2>5, Sending
<1>4. CASE Up!Remount
  <2> DEFINE Sent == {}
  <2>1. batch' = batch + 1 /\ told' = told /\ requests' = requests \union Sent
    BY <1>4 DEF Up!Remount
  <2>2. \A q \in Sent : FALSE
    OBVIOUS
  <2> HIDE DEF Sent
  <2> QED
    BY <2>1, <2>2, Sending
<1>5. ASSUME NEW r \in requests, Up!Store(r) PROVE RequestsInv'
  <2>1. UNCHANGED <<batch, entries>>
    BY <1>5 DEF Up!Store
  <2>2. CASE r.stage = "late"
    <3>1. told' = told /\ requests' = requests \ {r}
      BY <1>5, <2>2 DEF Up!Store
    <3> QED
      BY <1>1, <2>1, <3>1
  <2>3. CASE r.stage = "sent"
    <3>1. \E s \in {"stored", "refused"} :
            /\ requests' = (requests \ {r}) \union {Up!Request(r.doc, s)}
            /\ told' = IF s = "stored" THEN told \union {r.doc} ELSE told
      BY <1>5, <2>3 DEF Up!Store
    <3>2. PICK s \in {"stored", "refused"} :
            /\ requests' = (requests \ {r}) \union {Up!Request(r.doc, s)}
            /\ told' = IF s = "stored" THEN told \union {r.doc} ELSE told
      BY <3>1
    <3> DEFINE q == Up!Request(r.doc, s)
    <3>3. q.doc = r.doc /\ q.stage = s /\ Waits(q) /\ Waits(r)
      BY <2>3, RequestIs DEF Waits, Up!Awaited
    <3> HIDE DEF q
    <3>4. /\ r.doc.batch <= batch /\ r.doc \notin told
          /\ r.doc.batch = batch =>
               /\ r.doc.slot \in DOMAIN entries
               /\ entries[r.doc.slot] = [file |-> r.doc.file, status |-> "uploading"]
          /\ \A o \in requests : Waits(o) /\ o.doc = r.doc => o = r
      BY <2>3, <3>3 DEF RequestsInv
    <3>5. requests' = (requests \ {r}) \union {q}
      BY <3>2 DEF q
    <3> QED
      BY <2>1, <3>2, <3>3, <3>4, <3>5 DEF RequestsInv, Waits
  <2> QED
    BY <1>5, <2>2, <2>3 DEF Up!Store
<1>6. ASSUME NEW r \in requests, NEW s \in {"done", "error"}, NEW left, Up!Finish(r, s, left),
             Waits(r), \A o \in left : Waits(o) => o \in requests \ {r},
             told' = told \/ told' = told \ {r.doc}
      PROVE RequestsInv'
  <2>1. /\ requests' = left /\ batch' = batch /\ DOMAIN entries' = DOMAIN entries
        /\ \A i \in DOMAIN entries :
             entries'[i] = entries[i] \/ (r.doc.batch = batch /\ i = r.doc.slot)
    BY <1>6, Finished
  <2>2. ASSUME NEW o \in left, Waits(o)
        PROVE  /\ o.doc.batch <= batch
               /\ o.doc \in told' <=> o.stage = "stored"
               /\ o.doc.batch = batch =>
                    /\ o.doc.slot \in DOMAIN entries'
                    /\ entries'[o.doc.slot] = [file |-> o.doc.file, status |-> "uploading"]
               /\ \A q \in left : Waits(q) /\ q.doc = o.doc => q = o
    <3>1. o \in requests /\ o # r /\ o.doc # r.doc
      BY <1>6, <2>2 DEF RequestsInv
    <3>2. o.doc \in told' <=> o.doc \in told
      BY <1>6, <3>1
    <3>3. o.doc.batch = batch /\ r.doc.batch = batch => o.doc.slot # r.doc.slot
      <4> SUFFICES ASSUME o.doc.batch = batch, r.doc.batch = batch, o.doc.slot = r.doc.slot
                   PROVE  FALSE
        OBVIOUS
      <4>1. /\ entries[o.doc.slot] = [file |-> o.doc.file, status |-> "uploading"]
            /\ entries[r.doc.slot] = [file |-> r.doc.file, status |-> "uploading"]
        BY <1>6, <2>2, <3>1 DEF RequestsInv
      <4>2. o.doc.file = r.doc.file
        BY <4>1
      <4>3. o.doc \in Up!Docs /\ r.doc \in Up!Docs
        BY <3>1 DEF UpTypes, Up!UploadsTypeOK
      <4>4. o.doc = r.doc
        BY <4>2, <4>3 DEF Up!Docs
      <4> QED
        BY <3>1, <4>4
    <3> QED
      BY <1>6, <2>1, <2>2, <3>1, <3>2, <3>3 DEF RequestsInv
  <2>3. \A d \in told' : d.batch <= batch
    BY <1>6 DEF RequestsInv
  <2> QED
    BY <2>1, <2>2, <2>3 DEF RequestsInv, Waits
<1>7. ASSUME NEW r \in requests, Up!UploadAnswered(r) PROVE RequestsInv'
  <2>1. Waits(r)
    BY <1>7 DEF Up!UploadAnswered, Waits, Up!Awaited
  <2> QED
    BY <1>6, <1>7, <2>1 DEF Up!UploadAnswered
<1>8. ASSUME NEW r \in requests, Up!UploadLost(r) PROVE RequestsInv'
  <2>1. ~Waits(Up!Request(r.doc, "late"))
    BY RequestIs DEF Waits, Up!Awaited
  <2>2. Waits(r)
    BY <1>8 DEF Up!UploadLost, Waits
  <2> QED
    BY <1>6, <1>8, <2>1, <2>2 DEF Up!UploadLost
<1>9. ASSUME NEW r \in requests, Up!EraseLate(r) PROVE RequestsInv'
  BY <1>1, <1>9 DEF Up!EraseLate
<1>10. CASE Up!DeleteLost
  <2>1. ~Waits(Up!Request(removal.doc, "erase"))
    BY RequestIs DEF Waits, Up!Awaited
  <2> QED
    BY <1>1, <1>10, <2>1 DEF Up!DeleteLost
<1>11. ASSUME NEW f \in Files, Up!PickFile(f) PROVE RequestsInv'
  BY <1>1, <1>11 DEF Up!PickFile
<1>12. ASSUME NEW d, Up!PressDelete(d) PROVE RequestsInv'
  BY <1>1, <1>12 DEF Up!PressDelete
<1>13. CASE Up!Delete \/ Up!DeleteAnswered
  BY <1>1, <1>13 DEF Up!Delete, Up!DeleteAnswered
<1>14. CASE Up!ReadList \/ Up!ReceiveList \/ Up!FetchFails \/ Up!Refetch
  BY <1>1, <1>14 DEF Up!ReadList, Up!ReceiveList, Up!FetchFails, Up!Refetch
<1>15. ASSUME NEW f \in Files, Up!SelectFiles(<<f>>) PROVE RequestsInv'
  BY <1>2, <1>15
<1>16. ASSUME NEW f \in Files, NEW g \in Files, Up!SelectFiles(<<f, g>>) PROVE RequestsInv'
  BY <1>2, <1>16
<1> QED
  BY <1>3, <1>4, <1>5, <1>7, <1>8, <1>9, <1>10, <1>11, <1>12, <1>13, <1>14, <1>15, <1>16
  DEF Up!Next

(* Every step of the section leaves the progress list right. *)
LEMMA ReportedStep ==
  ASSUME UpTypes, RequestsInv, Up!UploadsReported, Up!Next
  PROVE  Up!UploadsReported'
<1> USE DEF Up!server, Up!form, Up!query
<1> DEFINE D(i) == [batch |-> batch, slot |-> i, file |-> entries[i].file]
<1>1. ASSUME \A i \in DOMAIN entries' : entries'[i].status = "uploading"
      PROVE  Up!UploadsReported'
  BY <1>1 DEF Up!UploadsReported
<1>2. ASSUME UNCHANGED <<told, batch, entries>> PROVE Up!UploadsReported'
  BY <1>2 DEF Up!UploadsReported
<1>3. ASSUME NEW fs, Up!SelectFiles(fs) PROVE Up!UploadsReported'
  BY <1>1, <1>3 DEF Up!SelectFiles
<1>4. CASE Up!PressUpload
  <2>1. entries' = <<[file |-> file, status |-> "uploading"]>>
    BY <1>4 DEF Up!PressUpload
  <2>2. DOMAIN entries' = {1} /\ entries'[1].status = "uploading"
    BY <2>1
  <2> QED
    BY <1>1, <2>2
<1>5. CASE Up!Remount
  <2>1. DOMAIN entries' = {}
    BY <1>5 DEF Up!Remount
  <2> QED
    BY <1>1, <2>1
<1>6. ASSUME NEW r \in requests, Up!Store(r) PROVE Up!UploadsReported'
  <2>1. UNCHANGED <<batch, entries>>
    BY <1>6 DEF Up!Store
  <2>2. CASE told' = told
    BY <1>2, <2>1, <2>2
  <2>3. CASE told' # told
    <3>1. r.stage = "sent" /\ told' = told \union {r.doc}
      BY <1>6, <2>3 DEF Up!Store
    <3>2. Waits(r)
      BY <3>1 DEF Waits, Up!Awaited
    <3>3. \A i \in DOMAIN entries : D(i) = r.doc => entries[i].status = "uploading"
      <4> SUFFICES ASSUME NEW i \in DOMAIN entries, D(i) = r.doc
                   PROVE  entries[i].status = "uploading"
        OBVIOUS
      <4>1. r.doc.batch = batch /\ r.doc.slot = i
        <5>1. D(i).batch = batch /\ D(i).slot = i
          OBVIOUS
        <5> QED
          BY <5>1
      <4>2. entries[i] = [file |-> r.doc.file, status |-> "uploading"]
        BY <3>2, <4>1 DEF RequestsInv
      <4> QED
        BY <4>2
    <3> QED
      BY <2>1, <3>1, <3>3 DEF Up!UploadsReported
  <2> QED
    BY <2>2, <2>3
<1>7. ASSUME NEW r \in requests, NEW s \in {"done", "error"}, NEW left, Up!Finish(r, s, left),
             Waits(r), told' = told \/ told' = told \ {r.doc},
             s = "done" <=> r.doc \in told'
      PROVE Up!UploadsReported'
  <2>1. /\ batch' = batch /\ DOMAIN entries' = DOMAIN entries
        /\ \A i \in DOMAIN entries :
              entries'[i] = IF r.doc.batch = batch /\ i = r.doc.slot
                            THEN [entries[i] EXCEPT !.status = s] ELSE entries[i]
    BY <1>7, Finished
  <2>2. PICK n \in 0..2 : entries \in [1..n -> Lines]
    BY LinesAre DEF UpTypes, Up!UploadsTypeOK, Lines
  <2>3. ASSUME NEW i \in DOMAIN entries
        PROVE  /\ entries'[i].file = entries[i].file
               /\ entries'[i].status = "done"  => D(i) \in told'
               /\ entries'[i].status = "error" => D(i) \notin told'
    <3>1. /\ entries[i].status = "done"  => D(i) \in told
          /\ entries[i].status = "error" => D(i) \notin told
      BY DEF Up!UploadsReported
    <3>2. entries[i] \in Lines
      BY <2>2
    <3>3. CASE r.doc.batch = batch /\ i = r.doc.slot
      <4>1. entries'[i].file = entries[i].file /\ entries'[i].status = s
        BY <2>1, <3>2, <3>3 DEF Lines
      <4>2. D(i) = r.doc
        <5>1. entries[i] = [file |-> r.doc.file, status |-> "uploading"]
          BY <1>7, <3>3 DEF RequestsInv
        <5>2. r.doc \in Up!Docs /\ entries[i].file = r.doc.file
          BY <5>1 DEF UpTypes, Up!UploadsTypeOK
        <5> QED
          BY <3>3, <5>2 DEF Up!Docs
      <4> QED
        BY <1>7, <4>1, <4>2
    <3>4. CASE ~(r.doc.batch = batch /\ i = r.doc.slot)
      <4>1. D(i) # r.doc
        <5>1. D(i).batch = batch /\ D(i).slot = i
          OBVIOUS
        <5> QED
          BY <3>4, <5>1
      <4>2. entries'[i] = entries[i]
        BY <2>1, <3>4
      <4>3. D(i) \in told' <=> D(i) \in told
        BY <1>7, <4>1
      <4> QED
        BY <3>1, <4>2, <4>3
    <3> QED
      BY <3>3, <3>4
  <2> QED
    BY <2>1, <2>3 DEF Up!UploadsReported
<1>8. ASSUME NEW r \in requests, Up!UploadAnswered(r) PROVE Up!UploadsReported'
  <2>1. Waits(r)
    BY <1>8 DEF Up!UploadAnswered, Waits, Up!Awaited
  <2>2. r.doc \in told <=> r.stage = "stored"
    BY <2>1 DEF RequestsInv
  <2> QED
    BY <1>7, <1>8, <2>1, <2>2 DEF Up!UploadAnswered
<1>9. ASSUME NEW r \in requests, Up!UploadLost(r) PROVE Up!UploadsReported'
  BY <1>7, <1>9 DEF Up!UploadLost, Waits
<1>10. ASSUME NEW r \in requests, Up!EraseLate(r) PROVE Up!UploadsReported'
  BY <1>2, <1>10 DEF Up!EraseLate
<1>11. CASE Up!DeleteLost
  BY <1>2, <1>11 DEF Up!DeleteLost
<1>12. ASSUME NEW f \in Files, Up!PickFile(f) PROVE Up!UploadsReported'
  BY <1>2, <1>12 DEF Up!PickFile
<1>13. ASSUME NEW d, Up!PressDelete(d) PROVE Up!UploadsReported'
  BY <1>2, <1>13 DEF Up!PressDelete
<1>14. CASE Up!Delete \/ Up!DeleteAnswered
  BY <1>2, <1>14 DEF Up!Delete, Up!DeleteAnswered
<1>15. CASE Up!ReadList \/ Up!ReceiveList \/ Up!FetchFails \/ Up!Refetch
  BY <1>2, <1>15 DEF Up!ReadList, Up!ReceiveList, Up!FetchFails, Up!Refetch
<1> QED
  BY <1>3, <1>4, <1>5, <1>6, <1>8, <1>9, <1>10, <1>11, <1>12, <1>13, <1>14, <1>15
  DEF Up!Next

(* Every step of the section keeps ProfileInv. *)
LEMMA ProfileStep ==
  ASSUME UpTypes, RequestsInv, ProfileInv, Up!Next
  PROVE  ProfileInv'
<1> USE DEF Up!server, Up!form, Up!query
<1> SUFFICES ASSUME mode' = "profile" PROVE ProfileInv'
  BY DEF ProfileInv
<1>1. mode = mode'
  BY DEF Up!Next, Up!SelectFiles, Up!PickFile, Up!PressUpload, Up!Store, Up!UploadAnswered,
     Up!UploadLost, Up!Finish, Up!EraseLate, Up!PressDelete, Up!Delete, Up!DeleteAnswered,
     Up!DeleteLost, Up!ReadList, Up!ReceiveList, Up!FetchFails, Up!Refetch,
     Up!Remount
<1>2. /\ picked = file
      /\ busy => entries # <<>> /\ entries[1].file = picked
      /\ waiting => busy
      /\ \A r \in requests : Waits(r) =>
           /\ busy /\ ~waiting
           /\ \A q \in requests : Waits(q) => q = r
  BY <1>1 DEF ProfileInv
<1>3. ASSUME UNCHANGED <<picked, file, busy, entries, waiting>>,
             \A r \in requests' : Waits(r) => r \in requests
      PROVE  ProfileInv'
  BY <1>2, <1>3 DEF ProfileInv, Waits
<1>4. ASSUME NEW fs, Up!SelectFiles(fs) PROVE ProfileInv'
  BY <1>1, <1>4 DEF Up!SelectFiles
<1>5. ASSUME NEW f \in Files, Up!PickFile(f) PROVE ProfileInv'
  BY <1>2, <1>5 DEF Up!PickFile, ProfileInv, Waits
<1>6. CASE Up!PressUpload
  <2> DEFINE q == Up!Request([batch |-> batch', slot |-> 1, file |-> file], "sent")
  <2>1. /\ ~busy /\ busy' = TRUE /\ requests' = requests \union {q}
        /\ UNCHANGED <<picked, file, waiting>>
        /\ entries' = <<[file |-> file, status |-> "uploading"]>>
    BY <1>6 DEF Up!PressUpload
  <2>2. \A r \in requests' : Waits(r) => r = q
    BY <1>2, <2>1
  <2>3. entries' # <<>> /\ entries'[1].file = file
    BY <2>1
  <2> HIDE DEF q
  <2> QED
    BY <1>2, <2>1, <2>2, <2>3 DEF ProfileInv, Waits
<1>7. ASSUME NEW r \in requests, Up!Store(r) PROVE ProfileInv'
  <2>1. UNCHANGED <<picked, file, busy, entries, waiting>>
    BY <1>7 DEF Up!Store
  <2>2. CASE r.stage = "late"
    BY <1>3, <1>7, <2>1, <2>2 DEF Up!Store
  <2>3. CASE r.stage = "sent"
    <3>1. PICK q : requests' = (requests \ {r}) \union {q}
      BY <1>7, <2>3 DEF Up!Store
    <3>2. Waits(r)
      BY <2>3 DEF Waits, Up!Awaited
    <3> QED
      BY <1>2, <2>1, <3>1, <3>2 DEF ProfileInv, Waits
  <2> QED
    BY <1>7, <2>2, <2>3 DEF Up!Store
<1>8. ASSUME NEW r \in requests, NEW s \in {"done", "error"}, NEW left, Up!Finish(r, s, left),
             Waits(r), \A o \in left : Waits(o) => o \in requests \ {r}
      PROVE ProfileInv'
  <2> HIDE DEF Up!form, Up!query, Up!server
  <2>1. busy /\ ~waiting /\ \A q \in requests : Waits(q) => q = r
    BY <1>2, <1>8
  <2>2. /\ requests' = left /\ DOMAIN entries' = DOMAIN entries
        /\ \A i \in DOMAIN entries :
              entries'[i] = IF r.doc.batch = batch /\ i = r.doc.slot
                            THEN [entries[i] EXCEPT !.status = s] ELSE entries[i]
        /\ UNCHANGED <<mode, picked, file>>
        /\ mode = "profile" => busy' = IF r.doc.batch # batch THEN busy ELSE s = "done"
        /\ waiting' = waiting \/ (s = "done" /\ waiting' = TRUE)
    BY <1>8, Finished
  <2>3. \A q \in requests' : ~Waits(q)
    BY <1>8, <2>1, <2>2
  <2>5. entries' # <<>> /\ entries'[1].file = picked'
    <3>1. PICK n \in 0..2 : entries \in [1..n -> Lines]
      BY LinesAre DEF UpTypes, Up!UploadsTypeOK, Lines
    <3>2. entries # <<>> /\ entries[1].file = picked
      BY <1>2, <2>1
    <3>3. 1 \in DOMAIN entries
      <4>1. n # 0
        BY <3>1, <3>2
      <4> QED
        BY <3>1, <4>1
    <3>4. DOMAIN entries' = DOMAIN entries /\ entries'[1].file = entries[1].file
      <4>1. entries[1] \in Lines
        BY <3>1, <3>3
      <4>2. /\ DOMAIN entries' = DOMAIN entries
            /\ entries'[1] = entries[1] \/ entries'[1] = [entries[1] EXCEPT !.status = s]
        BY <2>2, <3>3
      <4> QED
        BY <4>1, <4>2 DEF Lines
    <3> QED
      BY <1>2, <2>2, <3>2, <3>3, <3>4
  <2>6. picked' = file' /\ (waiting' => busy')
    <3>1. picked' = file'
      BY <1>2, <2>2
    <3>2. CASE waiting' = waiting
      BY <2>1, <3>1, <3>2
    <3>3. CASE s = "done"
      <4>1. busy' = busy \/ busy' = TRUE
        BY <1>1, <2>2, <3>3
      <4> QED
        BY <2>1, <3>1, <4>1
    <3> QED
      BY <2>2, <3>2, <3>3
  <2> QED
    BY <2>3, <2>5, <2>6 DEF ProfileInv, Waits
<1>9. ASSUME NEW r \in requests, Up!UploadAnswered(r) PROVE ProfileInv'
  <2>1. Waits(r)
    BY <1>9 DEF Up!UploadAnswered, Waits, Up!Awaited
  <2> QED
    BY <1>8, <1>9, <2>1 DEF Up!UploadAnswered
<1>10. ASSUME NEW r \in requests, Up!UploadLost(r) PROVE ProfileInv'
  <2>1. ~Waits(Up!Request(r.doc, "late"))
    BY RequestIs DEF Waits, Up!Awaited
  <2>2. Waits(r)
    BY <1>10 DEF Up!UploadLost, Waits
  <2> QED
    BY <1>8, <1>10, <2>1, <2>2 DEF Up!UploadLost
<1>11. ASSUME NEW r \in requests, Up!EraseLate(r) PROVE ProfileInv'
  BY <1>3, <1>11 DEF Up!EraseLate
<1>12. CASE Up!DeleteLost
  <2>1. ~Waits(Up!Request(removal.doc, "erase"))
    BY RequestIs DEF Waits, Up!Awaited
  <2> QED
    BY <1>3, <1>12, <2>1 DEF Up!DeleteLost
<1>13. ASSUME NEW d, Up!PressDelete(d) PROVE ProfileInv'
  BY <1>3, <1>13 DEF Up!PressDelete
<1>14. CASE Up!Delete \/ Up!ReadList \/ Up!Refetch
  BY <1>3, <1>14 DEF Up!Delete, Up!ReadList, Up!Refetch
<1>15. CASE Up!DeleteAnswered
  BY <1>3, <1>15 DEF Up!DeleteAnswered
<1>16. CASE Up!ReceiveList \/ Up!FetchFails
  <2>1. Up!Settled /\ waiting' = FALSE /\ UNCHANGED <<requests, entries>>
    BY <1>16 DEF Up!ReceiveList, Up!FetchFails, Up!Settled
  <2>2. CASE waiting
    <3>1. busy' = FALSE /\ picked' = file' /\ \A r \in requests : ~Waits(r)
      BY <1>1, <1>2, <2>1, <2>2 DEF Up!Settled
    <3> QED
      BY <2>1, <3>1 DEF ProfileInv, Waits
  <2>3. CASE ~waiting
    <3>1. waiting \in BOOLEAN
      BY DEF UpTypes, Up!UploadsTypeOK
    <3> QED
      BY <1>3, <2>1, <2>3, <3>1 DEF Up!Settled
  <2> QED
    BY <2>2, <2>3
<1>17. CASE Up!Remount
  BY <1>1, <1>17 DEF Up!Remount
<1> QED
  BY <1>4, <1>5, <1>6, <1>7, <1>9, <1>10, <1>11, <1>12, <1>13, <1>14, <1>15, <1>16, <1>17
  DEF Up!Next

(* Every step of the section keeps ListInv. *)
LEMMA ListStep ==
  ASSUME UpTypes, RequestsInv, ProfileInv, ListInv, GoneInv, Up!Next
  PROVE  ListInv'
<1>0. fetch \in Fetches /\ listDrift \in BOOLEAN /\ mode \in {"case", "profile"}
  BY DEF UpTypes, Up!UploadsTypeOK, Fetches
<1>1. ASSUME UNCHANGED <<stored, gone, fetch, list, listFailed, listDrift>>, Behind => Behind'
      PROVE  ListInv'
  BY <1>1 DEF ListInv
<1>2. ASSUME ~fetch'.clean, listDrift' PROVE ListInv'
  BY <1>2 DEF ListInv
<1>3. ASSUME UNCHANGED <<fetch, listDrift>>, Behind' PROVE ListInv'
  BY <1>3 DEF ListInv
<1>4. ASSUME Up!Invalidate PROVE ListInv'
  <2>1. \/ fetch'.stage = "sent" /\ fetch'.clean
        \/ ~fetch'.clean /\ listDrift' = TRUE
    BY <1>0, <1>4, Invalidated
  <2> QED
    BY <2>1 DEF ListInv
<1>5. ~[fetch EXCEPT !.clean = FALSE].clean
  BY <1>0, FetchTypes
<1>25. ASSUME NEW d, UNCHANGED <<fetch, list, listFailed, listDrift>>, Behind => Behind',
              stored' = stored \ {d}, gone' = gone \union ({d} \intersect stored)
       PROVE  ListInv'
  <2>1. \A X : X \ gone = stored => X \ gone' = stored'
    BY <1>25
  <2> QED
    BY <1>25, <2>1 DEF ListInv
<1> USE DEF Up!server, Up!form, Up!query
<1>6. ASSUME UNCHANGED <<mode, stored, gone, fetch, list, listFailed, listDrift>>,
             requests \subseteq requests'
      PROVE  ListInv'
  BY <1>1, <1>6 DEF Behind, Waits
<1>7. ASSUME NEW fs, Up!SelectFiles(fs) PROVE ListInv'
  BY <1>6, <1>7 DEF Up!SelectFiles
<1>8. ASSUME NEW f \in Files, Up!PickFile(f) PROVE ListInv'
  BY <1>6, <1>8 DEF Up!PickFile
<1>9. CASE Up!PressUpload
  BY <1>6, <1>9 DEF Up!PressUpload
<1>10. CASE Up!Remount
  BY <1>6, <1>10 DEF Up!Remount
<1>11. ASSUME NEW r \in requests, Up!Store(r) PROVE ListInv'
  <2>1. CASE r.stage = "late" /\ stored' # stored
    BY <1>2, <1>5, <1>11, <2>1 DEF Up!Store
  <2>2. CASE r.stage = "late" /\ stored' = stored
    <3>1. CASE UNCHANGED <<fetch, listDrift>>
      <4>1. /\ requests' = requests \ {r} /\ ~Waits(r) /\ r.stage # "stored"
            /\ UNCHANGED <<mode, gone, list, listFailed>>
        BY <1>11, <2>2 DEF Up!Store, Waits, Up!Awaited
      <4> QED
        BY <1>1, <2>2, <3>1, <4>1 DEF Behind, Waits
    <3>2. CASE ~UNCHANGED <<fetch, listDrift>>
      BY <1>2, <1>5, <1>11, <2>2, <3>2 DEF Up!Store
    <3> QED
      BY <3>1, <3>2
  <2>3. CASE r.stage = "sent"
    <3>1. UNCHANGED <<mode, gone, fetch, list, listFailed, listDrift>>
      BY <1>11, <2>3 DEF Up!Store
    <3>2. PICK s \in {"stored", "refused"} :
            /\ requests' = (requests \ {r}) \union {Up!Request(r.doc, s)}
            /\ s = "refused" => stored' = stored
      BY <1>11, <2>3 DEF Up!Store
    <3> DEFINE q == Up!Request(r.doc, s)
    <3>3. q.stage = s /\ Waits(q) /\ q \in requests'
      BY <3>2, RequestIs DEF Waits, Up!Awaited
    <3> HIDE DEF q
    <3>4. CASE s = "stored"
      BY <1>3, <3>1, <3>3, <3>4 DEF Behind
    <3>5. CASE s = "refused"
      <4>1. Behind => Behind'
        BY <2>3, <3>1, <3>2, <3>3 DEF Behind, Waits
      <4> QED
        BY <1>1, <3>1, <3>2, <3>5, <4>1
    <3> QED
      BY <3>4, <3>5
  <2> QED
    BY <1>11, <2>1, <2>2, <2>3 DEF Up!Store
<1>12. ASSUME NEW r \in requests, NEW s \in {"done", "error"}, NEW left, Up!Finish(r, s, left),
              Waits(r), s = "error" \/ r.stage = "stored",
              \A o \in requests \ {r} : o \in left
       PROVE ListInv'
  <2> HIDE DEF Up!form, Up!query, Up!server
  <2>1. /\ requests' = left /\ UNCHANGED <<mode, stored, gone, list, listFailed>>
        /\ mode = "case" /\ ~(\E o \in left : o.doc.batch = r.doc.batch /\ o.stage \in Up!Awaited)
             => Up!Invalidate
        /\ mode = "profile" /\ s = "done" => Up!Invalidate
        /\ \/ Up!Invalidate
           \/ fetch' = fetch /\ listDrift' = listDrift
           \/ listDrift' = TRUE /\ fetch' = [fetch EXCEPT !.clean = FALSE]
        /\ mode = "profile" /\ s # "done" /\ r.stage = "stored" =>
             listDrift' = TRUE /\ fetch' = [fetch EXCEPT !.clean = FALSE]
    BY <1>12, Finished
  <2>2. CASE Up!Invalidate
    BY <1>4, <2>2
  <2>3. CASE listDrift' = TRUE /\ fetch' = [fetch EXCEPT !.clean = FALSE]
    BY <1>2, <1>5, <2>3
  <2>4. CASE /\ fetch' = fetch /\ listDrift' = listDrift
             /\ ~Up!Invalidate
             /\ ~(listDrift' = TRUE /\ fetch' = [fetch EXCEPT !.clean = FALSE])
    <3>1. CASE mode = "case"
      <4>1. \E o \in requests' : Waits(o)
        BY <2>1, <2>4, <3>1 DEF Waits
      <4>2. Behind'
        BY <2>1, <3>1, <4>1 DEF Behind, Waits
      <4> QED
        BY <1>3, <2>4, <4>2
    <3>2. CASE mode = "profile"
      <4>1. r.stage # "stored" /\ \A q \in requests : Waits(q) => q = r
        BY <1>12, <2>1, <2>4, <3>2 DEF ProfileInv
      <4>2. \A q \in requests : q.stage # "stored"
        BY <4>1 DEF Waits, Up!Awaited
      <4>3. Behind => Behind'
        BY <2>1, <3>2, <4>2 DEF Behind
      <4> QED
        BY <1>1, <2>1, <2>4, <4>3
    <3> QED
      BY <1>0, <3>1, <3>2
  <2> QED
    BY <2>1, <2>2, <2>3, <2>4
<1>13. ASSUME NEW r \in requests, Up!UploadAnswered(r) PROVE ListInv'
  <2>1. Waits(r)
    BY <1>13 DEF Up!UploadAnswered, Waits, Up!Awaited
  <2> QED
    BY <1>12, <1>13, <2>1 DEF Up!UploadAnswered
<1>14. ASSUME NEW r \in requests, Up!UploadLost(r) PROVE ListInv'
  BY <1>12, <1>14 DEF Up!UploadLost, Waits
<1>15. ASSUME NEW r \in requests, Up!EraseLate(r) PROVE ListInv'
  <2>1. /\ UNCHANGED <<mode, fetch, list, listFailed, listDrift>>
        /\ stored' = stored \ {r.doc} /\ gone' = gone \union ({r.doc} \intersect stored)
        /\ requests' = requests \ {r} /\ ~Waits(r) /\ r.stage # "stored"
    BY <1>15 DEF Up!EraseLate, Waits, Up!Awaited
  <2>2. Behind => Behind'
    BY <2>1 DEF Behind, Waits
  <2> QED
    BY <1>25, <2>1, <2>2
<1>16. CASE Up!DeleteLost
  BY <1>6, <1>16 DEF Up!DeleteLost
<1>17. ASSUME NEW d, Up!PressDelete(d) PROVE ListInv'
  BY <1>6, <1>17 DEF Up!PressDelete
<1>18. CASE Up!Delete
  <2>1. /\ UNCHANGED <<mode, fetch, list, listFailed, listDrift, requests>>
        /\ stored' = stored \ {removal.doc}
        /\ gone' = gone \union ({removal.doc} \intersect stored)
    BY <1>18 DEF Up!Delete
  <2>2. Behind => Behind'
    BY <2>1 DEF Behind, Waits
  <2> QED
    BY <1>25, <2>1, <2>2
<1>19. CASE Up!DeleteAnswered
  BY <1>6, <1>19 DEF Up!DeleteAnswered
<1>21. CASE Up!ReadList
  <2>1. /\ fetch'.stage = "read" /\ fetch'.value = stored' /\ fetch'.clean = fetch.clean
        /\ listDrift' = listDrift /\ UNCHANGED <<stored, gone>>
    BY <1>0, <1>21 DEF Up!ReadList, Fetches
  <2>2. stored \ gone = stored
    BY DEF GoneInv
  <2> QED
    BY <2>1, <2>2 DEF ListInv
<1>22. CASE Up!ReceiveList
  <2>1. /\ fetch.stage = "read" /\ list' = fetch.value /\ fetch' = Up!Idle
        /\ listDrift' = (listDrift /\ ~fetch.clean)
        /\ UNCHANGED <<mode, stored, gone, requests>>
    BY <1>22 DEF Up!ReceiveList
  <2>3. Behind => Behind'
    BY <2>1 DEF Behind, Waits
  <2>4. ~listDrift' => list' \ gone' = stored' \/ Behind'
    BY <2>1, <2>3 DEF ListInv
  <2> QED
    BY <2>1, <2>4, FetchTypes DEF ListInv
<1>23. CASE Up!FetchFails
  BY <1>23, FetchTypes DEF Up!FetchFails, ListInv
<1>24. CASE Up!Refetch
  BY <1>24, FetchTypes DEF Up!Refetch, ListInv
<1> QED
  BY <1>7, <1>8, <1>9, <1>10, <1>11, <1>13, <1>14, <1>15, <1>16, <1>17, <1>18, <1>19,
     <1>21, <1>22, <1>23, <1>24 DEF Up!Next

(* Every step of the section keeps GoneInv. *)
LEMMA GoneStep ==
  ASSUME UpTypes, GoneInv, Up!Next
  PROVE  GoneInv'
<1>0. /\ batch \in Nat /\ \A r \in requests : r.doc \in Up!Docs /\ r.doc.batch \in Nat
      /\ \A d \in stored \union gone : d \in Up!Docs /\ d.batch \in Nat
  BY DEF UpTypes, Up!UploadsTypeOK, Up!Docs
<1> USE DEF Up!server, Up!form, Up!query
<1>1. ASSUME UNCHANGED <<stored, gone, batch>>,
             \A r \in requests' : Undecided(r) => r \in requests
      PROVE  GoneInv'
  BY <1>1 DEF GoneInv, Undecided
<1>2. ASSUME NEW sent, batch' = batch + 1, UNCHANGED <<stored, gone>>,
             requests' = requests \union sent,
             \A q \in sent : q.doc.batch = batch' /\ \A o \in sent : o.doc = q.doc => o = q
      PROVE  GoneInv'
  <2>1. \A d \in stored \union gone : d.batch <= batch' /\ d.batch # batch'
    BY <1>0, <1>2 DEF GoneInv
  <2>2. \A r \in requests : Undecided(r) => r.doc.batch <= batch' /\ r.doc.batch # batch'
    BY <1>0, <1>2 DEF GoneInv
  <2>3. ASSUME NEW r \in requests', Undecided(r)
        PROVE  /\ r.doc.batch <= batch' /\ r.doc \notin stored \union gone
               /\ \A q \in requests' : Undecided(q) /\ q.doc = r.doc => q = r
    <3>1. CASE r \in requests
      BY <1>2, <2>2, <2>3, <3>1 DEF GoneInv
    <3>2. CASE r \in sent
      <4>1. r.doc.batch = batch' /\ batch' <= batch'
        BY <1>0, <1>2, <3>2
      <4> QED
        BY <1>2, <2>1, <2>2, <3>2, <4>1
    <3> QED
      BY <1>2, <2>3, <3>1, <3>2
  <2> QED
    BY <1>2, <2>1, <2>3 DEF GoneInv, Undecided
<1>3. ASSUME NEW fs, Up!SelectFiles(fs) PROVE GoneInv'
  <2> DEFINE D(i) == [batch |-> batch', slot |-> i, file |-> fs[i]]
             Sent == {Up!Request(D(i), "sent") : i \in DOMAIN fs}
  <2>1. batch' = batch + 1 /\ UNCHANGED <<stored, gone>> /\ requests' = requests \union Sent
    BY <1>3 DEF Up!SelectFiles
  <2>2. ASSUME NEW q \in Sent, NEW o \in Sent
        PROVE  q.doc.batch = batch' /\ (o.doc = q.doc => o = q)
    <3>1. PICK i \in DOMAIN fs : q = Up!Request(D(i), "sent")
      OBVIOUS
    <3>2. PICK j \in DOMAIN fs : o = Up!Request(D(j), "sent")
      OBVIOUS
    <3>3. q.doc = D(i) /\ o.doc = D(j)
      BY <3>1, <3>2, RequestIs
    <3>4. D(i).batch = batch' /\ D(i).slot = i /\ D(j).slot = j
      OBVIOUS
    <3> HIDE DEF D
    <3> QED
      BY <3>1, <3>2, <3>3, <3>4
  <2> HIDE DEF Sent
  <2> QED
    BY <1>2, <2>1, <2>2
<1>4. CASE Up!PressUpload
  <2> DEFINE d == [batch |-> batch', slot |-> 1, file |-> file]
             q == Up!Request(d, "sent")
             Sent == {q}
  <2>1. batch' = batch + 1 /\ UNCHANGED <<stored, gone>> /\ requests' = requests \union Sent
    BY <1>4 DEF Up!PressUpload
  <2>2. q.doc = d /\ d.batch = batch'
    BY RequestIs
  <2> HIDE DEF d, q
  <2>3. \A p \in Sent : p.doc.batch = batch' /\ \A o \in Sent : o.doc = p.doc => o = p
    BY <2>2
  <2> HIDE DEF Sent
  <2> QED
    BY <1>2, <2>1, <2>3
<1>5. CASE Up!Remount
  <2> DEFINE Sent == {}
  <2>1. batch' = batch + 1 /\ UNCHANGED <<stored, gone>> /\ requests' = requests \union Sent
    BY <1>5 DEF Up!Remount
  <2>2. \A q \in Sent : FALSE
    OBVIOUS
  <2> HIDE DEF Sent
  <2> QED
    BY <1>2, <2>1, <2>2
<1>6. ASSUME NEW r \in requests, Up!Store(r) PROVE GoneInv'
  <2>1. /\ batch' = batch /\ gone' = gone /\ Undecided(r)
        /\ stored' = stored \/ stored' = stored \union {r.doc}
    BY <1>6 DEF Up!Store, Undecided
  <2>2. \A q \in requests' : Undecided(q) => q \in requests \ {r}
    <3>1. \A d : ~Undecided(Up!Request(d, "stored")) /\ ~Undecided(Up!Request(d, "refused"))
      BY RequestIs DEF Undecided
    <3> QED
      BY <1>6, <3>1 DEF Up!Store
  <2>3. /\ r.doc.batch <= batch /\ r.doc \notin stored \union gone
        /\ \A q \in requests : Undecided(q) /\ q.doc = r.doc => q = r
    BY <2>1 DEF GoneInv
  <2> QED
    BY <2>1, <2>2, <2>3 DEF GoneInv, Undecided
<1>7. ASSUME NEW r \in requests, NEW s \in {"done", "error"}, NEW left, Up!Finish(r, s, left)
      PROVE  UNCHANGED <<stored, gone, batch>> /\ requests' = left
  <2> HIDE DEF Up!form, Up!query, Up!server
  <2> QED
    BY <1>7, Finished
<1>8. ASSUME NEW r \in requests, Up!UploadAnswered(r) PROVE GoneInv'
  <2>1. UNCHANGED <<stored, gone, batch>> /\ requests' = requests \ {r}
    BY <1>7, <1>8 DEF Up!UploadAnswered
  <2> QED
    BY <1>1, <2>1
<1>9. ASSUME NEW r \in requests, Up!UploadLost(r) PROVE GoneInv'
  <2> DEFINE q == Up!Request(r.doc, "late")
  <2>1. /\ UNCHANGED <<stored, gone, batch>>
        /\ requests' = (requests \ {r}) \union (IF r.stage = "sent" THEN {q} ELSE {})
    BY <1>7, <1>9 DEF Up!UploadLost
  <2>2. q.doc = r.doc /\ Undecided(q)
    BY RequestIs DEF Undecided
  <2> HIDE DEF q
  <2>3. CASE r.stage = "sent"
    <3>1. /\ r.doc.batch <= batch /\ r.doc \notin stored \union gone
          /\ \A p \in requests : Undecided(p) /\ p.doc = r.doc => p = r
      BY <2>3 DEF GoneInv, Undecided
    <3>2. requests' = (requests \ {r}) \union {q}
      BY <2>1, <2>3
    <3> QED
      BY <2>1, <2>2, <3>1, <3>2 DEF GoneInv, Undecided
  <2>4. CASE r.stage # "sent"
    BY <1>1, <2>1, <2>4
  <2> QED
    BY <2>3, <2>4
<1>10. ASSUME NEW d, UNCHANGED batch, stored' = stored \ {d},
              gone' = gone \union ({d} \intersect stored),
              \A r \in requests' : Undecided(r) => r \in requests
       PROVE  GoneInv'
  BY <1>10 DEF GoneInv, Undecided
<1>11. ASSUME NEW r \in requests, Up!EraseLate(r) PROVE GoneInv'
  BY <1>10, <1>11 DEF Up!EraseLate
<1>12. CASE Up!Delete
  BY <1>10, <1>12 DEF Up!Delete
<1>13. CASE Up!DeleteLost
  <2>1. ~Undecided(Up!Request(removal.doc, "erase"))
    BY RequestIs DEF Undecided
  <2> QED
    BY <1>1, <1>13, <2>1 DEF Up!DeleteLost
<1>14. ASSUME NEW f \in Files, Up!PickFile(f) PROVE GoneInv'
  BY <1>1, <1>14 DEF Up!PickFile
<1>15. ASSUME NEW d, Up!PressDelete(d) PROVE GoneInv'
  BY <1>1, <1>15 DEF Up!PressDelete
<1>16. CASE Up!DeleteAnswered \/ Up!ReadList \/ Up!ReceiveList \/ Up!FetchFails \/ Up!Refetch
  BY <1>1, <1>16 DEF Up!DeleteAnswered, Up!ReadList, Up!ReceiveList, Up!FetchFails, Up!Refetch
<1> QED
  BY <1>3, <1>4, <1>5, <1>6, <1>8, <1>9, <1>11, <1>12, <1>13, <1>14, <1>15, <1>16 DEF Up!Next

(* Every step of the section keeps its invariant. *)
LEMMA UpStep == UpInv /\ [Up!Next]_upVars => UpInv'
<1>1. CASE UpInv /\ Up!Next
  BY <1>1, UpTypeStep, RequestsStep, ReportedStep, ProfileStep, ListStep, GoneStep DEF UpInv
<1>2. CASE UpInv /\ UNCHANGED upVars
  BY <1>2 DEF upVars, UpInv, UpTypes, Up!UploadsTypeOK, RequestsInv, Up!UploadsReported, ProfileInv,
     ListInv, GoneInv, Behind, Waits, Undecided
<1> QED
  BY <1>1, <1>2

(* It implies what the section promises. *)
LEMMA UpPromises ==
  UpInv => /\ Up!UploadsReported /\ Up!SelectionIsSent
           /\ Up!ListIsCurrent
<1> SUFFICES ASSUME UpInv
             PROVE  Up!SelectionIsSent /\ Up!ListIsCurrent
  BY DEF UpInv
<1>1. Up!SelectionIsSent
  BY DEF UpInv, ProfileInv, Up!SelectionIsSent
<1>2. Up!ListIsCurrent
  BY DEF UpInv, ListInv, Behind, Waits, Up!ListIsCurrent, Up!Awaited
<1> QED
  BY <1>1, <1>2

-----------------------------------------------------------------------------
(* The suggestions. *)

(* A total order R on 1..n puts each index in a place of its own.           *)
Upto(R, n, i) == {j \in 1..n : <<j, i>> \in R}

(* Reflexive, total, antisymmetric and transitive.                          *)
TotalOrder(R, n) ==
  /\ \A i \in 1..n : <<i, i>> \in R
  /\ \A i, j \in 1..n : <<i, j>> \in R \/ <<j, i>> \in R
  /\ \A i, j \in 1..n : <<i, j>> \in R /\ <<j, i>> \in R => i = j
  /\ \A i, j, k \in 1..n : <<i, j>> \in R /\ <<j, k>> \in R => <<i, k>> \in R

(* The places are the numbers up to n, each taken once, in order.           *)
LEMMA PlacesInOrder ==
  ASSUME NEW n \in Nat, NEW R, TotalOrder(R, n)
  PROVE  /\ \A i \in 1..n : Cardinality(Upto(R, n, i)) \in 1..n
         /\ \A i, j \in 1..n : i # j /\ <<j, i>> \in R =>
              Cardinality(Upto(R, n, j)) < Cardinality(Upto(R, n, i))
         /\ \A k \in 1..n : \E i \in 1..n : Cardinality(Upto(R, n, i)) = k
<1> USE DEF TotalOrder
<1>1. IsFiniteSet(1..n) /\ Cardinality(1..n) = n
  BY FS_Interval
<1>2. \A i \in 1..n : IsFiniteSet(Upto(R, n, i)) /\ Cardinality(Upto(R, n, i)) \in 1..n
  <2> SUFFICES ASSUME NEW i \in 1..n
               PROVE  IsFiniteSet(Upto(R, n, i)) /\ Cardinality(Upto(R, n, i)) \in 1..n
    OBVIOUS
  <2>1. Upto(R, n, i) \in SUBSET (1..n) /\ i \in Upto(R, n, i)
    BY DEF Upto
  <2>2. IsFiniteSet(Upto(R, n, i)) /\ Cardinality(Upto(R, n, i)) <= n
    BY <1>1, <2>1, FS_Subset
  <2>3. Cardinality(Upto(R, n, i)) \in Nat
    BY <2>2, FS_CardinalityType
  <2>4. Cardinality(Upto(R, n, i)) # 0
    BY <2>1, <2>2, FS_EmptySet
  <2> QED
    BY <2>2, <2>3, <2>4
<1>3. ASSUME NEW i \in 1..n, NEW j \in 1..n, i # j, <<j, i>> \in R
      PROVE  Cardinality(Upto(R, n, j)) < Cardinality(Upto(R, n, i))
  <2>1. Upto(R, n, j) \in SUBSET Upto(R, n, i)
    BY <1>3 DEF Upto
  <2>2. i \in Upto(R, n, i) /\ i \notin Upto(R, n, j)
    BY <1>3 DEF Upto
  <2>3. /\ Cardinality(Upto(R, n, j)) <= Cardinality(Upto(R, n, i))
        /\ Cardinality(Upto(R, n, j)) # Cardinality(Upto(R, n, i))
    BY <1>2, <2>1, <2>2, FS_Subset
  <2> QED
    BY <1>2, <2>3
<1> DEFINE place == [i \in 1..n |-> Cardinality(Upto(R, n, i))]
<1>4. place \in Injection(1..n, 1..n)
  <2>1. place \in [1..n -> 1..n]
    BY <1>2
  <2>2. ASSUME NEW i \in 1..n, NEW j \in 1..n, i # j PROVE place[i] # place[j]
    <3>1. place[i] \in Nat /\ place[j] \in Nat
      BY <2>1
    <3>2. place[i] < place[j] \/ place[j] < place[i]
      BY <1>3, <2>2
    <3> QED
      BY <3>1, <3>2
  <2> QED
    BY <2>1, <2>2 DEF Injection, IsInjective
<1>5. place \in Surjection(1..n, 1..n)
  BY <1>1, <1>4, FS_Injection
<1>6. \A k \in 1..n : \E i \in 1..n : place[i] = k
  BY <1>5 DEF Surjection
<1> QED
  BY <1>2, <1>3, <1>6

-----------------------------------------------------------------------------
(* The tutors with a profile, whom recommend ranks.                         *)
Suggestible == DOMAIN profiles

(* The instance's own names for the operators of FiniteSets.                *)
LEMMA SameSizes ==
  /\ \A S : Recs!Cardinality(S) = Cardinality(S)
  /\ \A S : Recs!IsFiniteSet(S) <=> IsFiniteSet(S)
BY DEF Recs!Cardinality, Cardinality, Recs!IsFiniteSet, IsFiniteSet

(* What SuggestionsAreBest says of an answer a.                             *)
Best(a) ==
  LET seen    == {a[i].tutor : i \in DOMAIN a}
      Both(t) == Cardinality(profiles[t].tokens \intersect brief.subject) * 5
                   + Cardinality(profiles[t].tokens \intersect brief.text)
  IN
  /\ Cardinality(seen) = Len(a)
  /\ Len(a) = MaxRecommendations \/ seen = Suggestible
  /\ \A t \in seen, u \in Suggestible \ seen :
       Both(u) <= Both(t) /\ (Both(u) = Both(t) => profiles[t].name <= profiles[u].name)
  /\ \A i \in 2..Len(a) : Both(a[i].tutor) <= Both(a[i - 1].tutor)
  /\ \A i \in DOMAIN a : a[i].alreadyInvited <=> a[i].tutor \in invites

(* The inductive invariant of the suggestions.                              *)
RecsInv == Recs!RecommendationsTypeOK /\ Recs!SuggestionsAreBest

(* Scores and names are numbers.                                            *)
LEMMA ScoreTypes ==
  ASSUME Recs!RecommendationsTypeOK, NEW t \in Suggestible
  PROVE  /\ Recs!Score(t) \in Nat /\ profiles[t].name \in Nat
         /\ Recs!Score(t) = Cardinality(profiles[t].tokens \intersect brief.subject) * 5
                            + Cardinality(profiles[t].tokens \intersect brief.text)
<1>1. IsFiniteSet(Tokens) /\ Names \subseteq Nat
  BY PagesConstants, SameSizes DEF Recs!RecommendationsConstants
<1>2. profiles[t].name \in Names /\ profiles[t].tokens \in SUBSET Tokens
  BY DEF Recs!RecommendationsTypeOK, Recs!Profile, Suggestible
<1> DEFINE S == brief.subject \intersect profiles[t].tokens
           T == brief.text \intersect profiles[t].tokens
<1>3. S \in SUBSET Tokens /\ T \in SUBSET Tokens
  BY <1>2
<1>4. Cardinality(S) \in Nat /\ Cardinality(T) \in Nat
  BY <1>1, <1>3, FS_Subset, FS_CardinalityType
<1>5. Recs!Score(t) = 5 * Cardinality(S) + 1 * Cardinality(T)
  BY SameSizes DEF Recs!Score, Recs!ScoreOverlap, Recs!SubjectMatchWeight, Recs!TokenOverlapWeight
<1>6. /\ profiles[t].tokens \intersect brief.subject = S
      /\ profiles[t].tokens \intersect brief.text = T
  OBVIOUS
<1>7. profiles[t].name \in Nat
  BY <1>1, <1>2
<1>8. \A a, b \in Nat : 5 * a + 1 * b = a * 5 + b /\ a * 5 + b \in Nat
  OBVIOUS
<1>9. Recs!Score(t) = Cardinality(S) * 5 + Cardinality(T) /\ Recs!Score(t) \in Nat
  BY <1>4, <1>5, <1>8
<1> HIDE DEF S, T
<1> QED
  BY <1>6, <1>7, <1>9

(* The comparison of the sort is a strict weak order. *)
LEMMA BeforeOrders ==
  ASSUME Recs!RecommendationsTypeOK
  PROVE  /\ \A t \in Suggestible : ~Recs!Before(t, t)
         /\ \A t, u \in Suggestible : ~(Recs!Before(t, u) /\ Recs!Before(u, t))
         /\ \A t, u, v \in Suggestible :
              /\ Recs!Before(t, u) /\ Recs!Before(u, v) => Recs!Before(t, v)
              /\ Recs!Before(t, v) => Recs!Before(t, u) \/ Recs!Before(u, v)
<1>1. \A t \in Suggestible : Recs!Score(t) \in Nat /\ profiles[t].name \in Nat
  BY ScoreTypes
<1> QED
  BY <1>1 DEF Recs!Before

(* The smaller of two numbers. *)
LEMMA LesserIs ==
  ASSUME NEW a \in Nat, NEW b \in Nat
  PROVE  LET m == Recs!Min({a, b})
         IN  m \in Nat /\ m <= a /\ m <= b /\ (m = a \/ m = b)
<1>1. \E x \in {a, b} : \A y \in {a, b} : x <= y
  OBVIOUS
<1> QED
  BY <1>1 DEF Recs!Min

(* The rows of findMany are the profiles, each once.                        *)
LEMMA RowsAre ==
  ASSUME Recs!RecommendationsTypeOK, NEW rows \in Recs!SetToSeqs(Suggestible)
  PROVE  /\ IsFiniteSet(Suggestible) /\ Cardinality(Suggestible) \in Nat
         /\ rows \in [1..Cardinality(Suggestible) -> Suggestible]
         /\ Len(rows) = Cardinality(Suggestible)
         /\ \A i, j \in DOMAIN rows : i # j => rows[i] # rows[j]
         /\ \A t \in Suggestible : \E i \in DOMAIN rows : rows[i] = t
<1> DEFINE n == Cardinality(Suggestible)
<1>1. Suggestible \in SUBSET Ranked /\ IsFiniteSet(Ranked)
  BY PagesConstants, SameSizes DEF Recs!RecommendationsConstants, Recs!RecommendationsTypeOK, Suggestible
<1>2. IsFiniteSet(Suggestible) /\ n \in Nat
  BY <1>1, FS_Subset, FS_CardinalityType
<1>3. rows \in [1..n -> Suggestible] /\ \A i, j \in 1..n : i # j => rows[i] # rows[j]
  BY SameSizes DEF Recs!SetToSeqs
<1>4. rows \in Injection(1..n, Suggestible)
  BY <1>3 DEF Injection, IsInjective
<1>5. IsFiniteSet(1..n) /\ Cardinality(1..n) = n
  BY <1>2, FS_Interval
<1>6. rows \in Surjection(1..n, Suggestible)
  BY <1>2, <1>4, <1>5, FS_Injection
<1>7. \A t \in Suggestible : \E i \in 1..n : rows[i] = t
  BY <1>6 DEF Surjection
<1>8. Len(rows) = n
  BY <1>2, <1>3
<1> QED
  BY <1>2, <1>3, <1>7, <1>8

(* The sort returns every row once, and none before one that must precede   *)
(* it.                                                                      *)
LEMMA SortedSorts ==
  ASSUME Recs!RecommendationsTypeOK, NEW rows \in Recs!SetToSeqs(Suggestible)
  PROVE  LET n == Cardinality(Suggestible)
             s == Recs!Sorted(rows)
         IN  /\ s \in [1..n -> Suggestible]
             /\ \A k, l \in 1..n : k < l => s[k] # s[l] /\ ~Recs!Before(s[l], s[k])
             /\ \A t \in Suggestible : \E k \in 1..n : s[k] = t
<1> DEFINE n == Cardinality(Suggestible)
           ahead(j, i) == \/ Recs!Before(rows[j], rows[i])
                          \/ ~Recs!Before(rows[i], rows[j]) /\ j <= i
           R == {p \in (1..n) \X (1..n) : ahead(p[1], p[2])}
           at(k) == CHOOSE i \in DOMAIN rows :
                      Recs!Cardinality({j \in DOMAIN rows : ahead(j, i)}) = k
           s == Recs!Sorted(rows)
<1>1. /\ n \in Nat /\ rows \in [1..n -> Suggestible]
      /\ \A i, j \in 1..n : i # j => rows[i] # rows[j]
      /\ \A t \in Suggestible : \E i \in 1..n : rows[i] = t
  BY RowsAre
<1>2. \A i, j \in 1..n : <<j, i>> \in R <=> ahead(j, i)
  OBVIOUS
<1>3. /\ \A i \in 1..n : ahead(i, i)
      /\ \A i, j \in 1..n : ahead(i, j) \/ ahead(j, i)
      /\ \A i, j \in 1..n : ahead(i, j) /\ ahead(j, i) => i = j
  BY <1>1, BeforeOrders
<1>4. ASSUME NEW i \in 1..n, NEW j \in 1..n, NEW k \in 1..n, ahead(i, j), ahead(j, k)
      PROVE  ahead(i, k)
  BY <1>1, <1>4, BeforeOrders
<1>5. s = [k \in 1..n |-> rows[at(k)]]
  <2>1. s = [k \in DOMAIN rows |-> rows[at(k)]]
    BY DEF Recs!Sorted
  <2>2. DOMAIN rows = 1..n
    BY <1>1
  <2> QED
    BY <2>1, <2>2
<1> HIDE DEF ahead, R, s, at, n
<1>6. /\ \A i, j \in 1..n : i # j /\ <<j, i>> \in R =>
           Cardinality(Upto(R, n, j)) < Cardinality(Upto(R, n, i))
      /\ \A k \in 1..n : \E i \in 1..n : Cardinality(Upto(R, n, i)) = k
      /\ \A i \in 1..n : Cardinality(Upto(R, n, i)) \in 1..n
  <2>1. /\ \A i \in 1..n : <<i, i>> \in R
        /\ \A i, j \in 1..n : <<i, j>> \in R \/ <<j, i>> \in R
        /\ \A i, j \in 1..n : <<i, j>> \in R /\ <<j, i>> \in R => i = j
    BY <1>2, <1>3
  <2>2. \A i, j, k \in 1..n : <<i, j>> \in R /\ <<j, k>> \in R => <<i, k>> \in R
    BY <1>2, <1>4
  <2> QED
    <3>1. TotalOrder(R, n)
      BY <2>1, <2>2 DEF TotalOrder
    <3> QED
      <4>1. n \in Nat
        BY <1>1
      <4> QED
        BY <3>1, <4>1, PlacesInOrder, Zenon
<1>7. ASSUME NEW k \in 1..n
      PROVE  at(k) \in 1..n /\ Cardinality(Upto(R, n, at(k))) = k
  <2>1. DOMAIN rows = 1..n
    BY <1>1
  <2>2. \A i \in 1..n : {j \in DOMAIN rows : ahead(j, i)} = Upto(R, n, i)
    BY <1>2, <2>1 DEF Upto
  <2>3. \E i \in DOMAIN rows : Recs!Cardinality({j \in DOMAIN rows : ahead(j, i)}) = k
    BY <1>6, <2>1, <2>2, SameSizes
  <2>4. /\ at(k) \in DOMAIN rows
        /\ Recs!Cardinality({j \in DOMAIN rows : ahead(j, at(k))}) = k
    BY <2>3 DEF at
  <2> QED
    BY <2>1, <2>2, <2>4, SameSizes
<1>8. s \in [1..n -> Suggestible]
  BY <1>1, <1>5, <1>7
<1>9. ASSUME NEW k \in 1..n, NEW l \in 1..n, k < l
      PROVE  s[k] # s[l] /\ ~Recs!Before(s[l], s[k])
  <2>1. at(k) # at(l)
    BY <1>1, <1>7, <1>9
  <2>2. ahead(at(k), at(l))
    <3>1. CASE <<at(l), at(k)>> \in R
      <4>1. Cardinality(Upto(R, n, at(l))) < Cardinality(Upto(R, n, at(k)))
        BY <1>6, <1>7, <2>1, <3>1
      <4>2. l < k
        BY <1>7, <4>1
      <4> QED
        BY <1>1, <1>9, <4>2
    <3>2. CASE <<at(l), at(k)>> \notin R
      <4>1. ~ahead(at(l), at(k))
        BY <1>2, <1>7, <3>2
      <4> QED
        BY <1>3, <1>7, <4>1
    <3> QED
      BY <3>1, <3>2
  <2>3. /\ s[k] = rows[at(k)] /\ s[l] = rows[at(l)]
        /\ at(k) \in 1..n /\ at(l) \in 1..n
    BY <1>5, <1>7
  <2>4. ~Recs!Before(rows[at(l)], rows[at(k)])
    <3>1. rows[at(l)] \in Suggestible /\ rows[at(k)] \in Suggestible
      BY <1>1, <2>3
    <3> QED
      BY <2>2, <3>1, BeforeOrders DEF ahead
  <2> QED
    BY <1>1, <2>1, <2>3, <2>4
<1>10. ASSUME NEW t \in Suggestible PROVE \E k \in 1..n : s[k] = t
  <2>1. PICK i \in 1..n : rows[i] = t
    BY <1>1
  <2> DEFINE k == Cardinality(Upto(R, n, i))
  <2>2. k \in 1..n
    BY <1>6
  <2>3. at(k) = i
    <3>1. at(k) \in 1..n /\ Cardinality(Upto(R, n, at(k))) = k
      BY <1>7, <2>2
    <3>2. SUFFICES ASSUME at(k) # i PROVE FALSE
      OBVIOUS
    <3>3. <<i, at(k)>> \in R \/ <<at(k), i>> \in R
      BY <1>2, <1>3, <3>1
    <3>4. Cardinality(Upto(R, n, i)) < Cardinality(Upto(R, n, at(k)))
          \/ Cardinality(Upto(R, n, at(k))) < Cardinality(Upto(R, n, i))
      BY <1>6, <3>1, <3>2, <3>3
    <3>5. k \in Nat
      BY <1>1, <2>2
    <3> QED
      BY <3>1, <3>4, <3>5
  <2> QED
    BY <1>5, <2>1, <2>2, <2>3
<1> QED
  BY <1>8, <1>9, <1>10 DEF s, n

-----------------------------------------------------------------------------
(* Whatever the order of the rows, the answer holds what is best. *)
LEMMA AnswersAreBest ==
  ASSUME Recs!RecommendationsTypeOK, NEW rows \in Recs!SetToSeqs(Suggestible)
  PROVE  Best(Recs!Suggestions(rows)) /\ Len(Recs!Suggestions(rows)) <= MaxRecommendations
<1> DEFINE n == Cardinality(Suggestible)
           Both(t) == Cardinality(profiles[t].tokens \intersect brief.subject) * 5
                        + Cardinality(profiles[t].tokens \intersect brief.text)
           s == Recs!Sorted(rows)
           m == Recs!Min({MaxRecommendations, n})
           a == Recs!Suggestions(rows)
           seen == {a[i].tutor : i \in DOMAIN a}
<1>1. MaxRecommendations \in Nat
  BY PagesConstants DEF Recs!RecommendationsConstants
<1>3. /\ n \in Nat /\ s \in [1..n -> Suggestible]
      /\ \A k, l \in 1..n : k < l => s[k] # s[l] /\ ~Recs!Before(s[l], s[k])
      /\ \A t \in Suggestible : \E k \in 1..n : s[k] = t
      /\ Len(rows) = n
  BY SortedSorts, RowsAre
<1>4. \A t \in Suggestible :
        Both(t) = Recs!Score(t) /\ Both(t) \in Nat /\ profiles[t].name \in Nat
  BY ScoreTypes
<1> HIDE DEF n, s, Both
<1>5. m \in Nat /\ m <= n /\ m <= MaxRecommendations /\ (m = n \/ m = MaxRecommendations)
  BY <1>1, <1>3, LesserIs
<1>6. a = [i \in 1..m |-> Recs!Suggestion(s[i])]
  BY <1>3 DEF Recs!Suggestions, s
<1> HIDE DEF m, a
<1>7. /\ DOMAIN a = 1..m /\ Len(a) = m
      /\ \A i \in 1..m : /\ a[i].tutor = s[i]
                         /\ a[i].alreadyInvited = (s[i] \in invites)
  BY <1>5, <1>6 DEF Recs!Suggestion
<1>8. seen = {s[i] : i \in 1..m}
  BY <1>7
<1> HIDE DEF seen
<1>9. Cardinality(seen) = m
  <2> DEFINE f == [i \in 1..m |-> s[i]]
  <2>1. f \in [1..m -> seen]
    BY <1>8
  <2>2. \A i, j \in 1..m : f[i] = f[j] => i = j
    BY <1>3, <1>5
  <2>3. \A t \in seen : \E i \in 1..m : f[i] = t
    BY <1>8
  <2>4. f \in Bijection(1..m, seen)
    BY <2>1, <2>2, <2>3 DEF Bijection, Injection, Surjection, IsInjective
  <2>5. IsFiniteSet(1..m) /\ Cardinality(1..m) = m
    BY <1>5, FS_Interval
  <2> QED
    BY <2>4, <2>5, FS_Bijection DEF ExistsBijection
<1>10. m = MaxRecommendations \/ seen = Suggestible
  <2>1. ASSUME m = n, NEW t \in Suggestible PROVE t \in seen
    BY <1>3, <1>8, <2>1
  <2>2. seen \subseteq Suggestible
    BY <1>3, <1>5, <1>8
  <2> QED
    BY <1>5, <2>1, <2>2
<1>11. ASSUME NEW t \in seen, NEW u \in Suggestible \ seen
       PROVE  Both(u) <= Both(t) /\ (Both(u) = Both(t) => profiles[t].name <= profiles[u].name)
  <2>1. PICK i \in 1..m : t = s[i]
    BY <1>8
  <2>2. PICK k \in 1..n : u = s[k]
    BY <1>3
  <2>3. k \notin 1..m
    BY <1>8, <2>2
  <2>4. i \in 1..n /\ i < k
    BY <1>3, <1>5, <2>3
  <2>5. ~Recs!Before(u, t) /\ t \in Suggestible
    BY <1>3, <2>1, <2>2, <2>4
  <2> QED
    BY <1>4, <2>5 DEF Recs!Before
<1>12. ASSUME NEW i \in 2..m
       PROVE  Both(a[i].tutor) <= Both(a[i - 1].tutor)
  <2>1. i \in 1..m /\ i - 1 \in 1..m /\ i \in 1..n /\ i - 1 \in 1..n /\ i - 1 < i
    BY <1>3, <1>5
  <2>2. ~Recs!Before(s[i], s[i - 1]) /\ s[i] \in Suggestible /\ s[i - 1] \in Suggestible
    BY <1>3, <2>1
  <2>3. Both(s[i]) <= Both(s[i - 1])
    BY <1>4, <2>2 DEF Recs!Before
  <2> QED
    BY <1>7, <2>1, <2>3
<1>13. /\ Cardinality(seen) = Len(a)
       /\ Len(a) = MaxRecommendations \/ seen = Suggestible
       /\ \A t \in seen, u \in Suggestible \ seen :
            Both(u) <= Both(t) /\ (Both(u) = Both(t) => profiles[t].name <= profiles[u].name)
       /\ \A i \in 2..Len(a) : Both(a[i].tutor) <= Both(a[i - 1].tutor)
       /\ \A i \in DOMAIN a : a[i].alreadyInvited <=> a[i].tutor \in invites
  BY <1>7, <1>9, <1>10, <1>11, <1>12
<1>14. Len(a) <= MaxRecommendations
  BY <1>5, <1>7
<1> QED
  BY <1>13, <1>14 DEF Best, seen, Both, a

(* SuggestionsAreBest is Best of the answer shown, while no profile changed. *)
LEMMA BestIs == Recs!SuggestionsAreBest <=> (~edited => Best(answer))
BY SameSizes DEF Recs!SuggestionsAreBest, Best, Suggestible

(* The suggestions are not asked for yet. *)
LEMMA RecsInitially == Recs!Init => RecsInv
<1> SUFFICES ASSUME Recs!Init PROVE RecsInv
  OBVIOUS
<1>1. MaxRecommendations \in Nat
  BY PagesConstants DEF Recs!RecommendationsConstants
<1>2. PICK T \in SUBSET Ranked : profiles \in [T -> Recs!Profile]
  BY DEF Recs!Init
<1>3. Recs!RecommendationsTypeOK
  BY <1>1, <1>2 DEF Recs!Init, Recs!RecommendationsTypeOK
<1> QED
  BY <1>3, BestIs DEF RecsInv, Recs!Init

(* Every step of the suggestions keeps it.                                  *)
LEMMA RecsStep == RecsInv /\ [Recs!Next]_recsVars => RecsInv'
<1> SUFFICES ASSUME RecsInv, [Recs!Next]_recsVars PROVE RecsInv'
  OBVIOUS
<1>0. Recs!SuggestionsAreBest' <=> (~edited => Best(answer))'
  BY SameSizes DEF Recs!SuggestionsAreBest, Best, Suggestible
<1>1. Recs!RecommendationsTypeOK /\ MaxRecommendations \in Nat
  BY PagesConstants DEF RecsInv, Recs!RecommendationsConstants
<1>2. CASE Recs!Recommend
  <2>1. PICK rows \in Recs!SetToSeqs(Suggestible) : answer' = Recs!Suggestions(rows)
    BY <1>2 DEF Recs!Recommend, Suggestible
  <2>2. UNCHANGED <<profiles, brief, invites>> /\ edited' = FALSE
    BY <1>2 DEF Recs!Recommend, Recs!tables
  <2>3. Best(answer') /\ Len(answer') <= MaxRecommendations
    BY <1>1, <2>1, AnswersAreBest
  <2>4. Best(answer)'
    BY <2>2, <2>3 DEF Best, Suggestible
  <2>5. Recs!RecommendationsTypeOK'
    BY <1>1, <2>2, <2>3 DEF Recs!RecommendationsTypeOK
  <2> QED
    BY <1>0, <2>4, <2>5 DEF RecsInv
<1>3. ASSUME Recs!Edited, Recs!RecommendationsTypeOK' PROVE RecsInv'
  BY <1>0, <1>3 DEF RecsInv, Recs!Edited
<1>4. ASSUME NEW t \in Ranked, NEW p \in Recs!Profile, Recs!SaveProfile(t, p) PROVE RecsInv'
  <2>1. /\ DOMAIN profiles' = Suggestible \union {t} /\ UNCHANGED <<brief, invites>>
        /\ \A u \in DOMAIN profiles' : profiles'[u] = IF u = t THEN p ELSE profiles[u]
    BY <1>4 DEF Recs!SaveProfile, Suggestible
  <2>2. edited' = TRUE /\ answer' = <<>> /\ Recs!Edited
    BY <1>4 DEF Recs!SaveProfile, Recs!Edited
  <2>3. Recs!RecommendationsTypeOK'
    BY <1>1, <2>1, <2>2 DEF Recs!RecommendationsTypeOK, Suggestible
  <2> QED
    BY <1>3, <2>2, <2>3
<1>5. ASSUME NEW b \in [subject : SUBSET Tokens, text : SUBSET Tokens], Recs!EditCase(b)
      PROVE  RecsInv'
  <2>1. Recs!RecommendationsTypeOK' /\ Recs!Edited
    BY <1>1, <1>5 DEF Recs!RecommendationsTypeOK, Recs!EditCase, Recs!Edited
  <2> QED
    BY <1>3, <2>1
<1>6. ASSUME NEW t \in DOMAIN profiles, Recs!ChangeInvite(t) PROVE RecsInv'
  <2>1. Recs!RecommendationsTypeOK' /\ Recs!Edited
    BY <1>1, <1>6 DEF Recs!RecommendationsTypeOK, Recs!ChangeInvite, Recs!Edited
  <2> QED
    BY <1>3, <2>1
<1>7. CASE UNCHANGED recsVars
  <2>1. UNCHANGED <<profiles, brief, invites, answer, edited>>
    BY <1>7 DEF recsVars
  <2>2. Recs!RecommendationsTypeOK'
    BY <1>1, <2>1 DEF Recs!RecommendationsTypeOK
  <2>3. ~edited => Best(answer)
    BY BestIs DEF RecsInv
  <2>4. ~edited => Best(answer')
    BY <2>1, <2>3
  <2>5. (~edited => Best(answer))'
    BY <2>1, <2>4 DEF Best, Suggestible
  <2> QED
    BY <1>0, <2>2, <2>5 DEF RecsInv
<1> QED
  BY <1>2, <1>4, <1>5, <1>6, <1>7 DEF Recs!Next

-----------------------------------------------------------------------------
(* The list of cases. *)

(* How many cases a filter matches, and a page the list can have: the first *)
(* or one up to the last.                                                   *)
Matched(f) == Cardinality(List!Matching(f))
Within(k)  == k.page = 1 \/ k.page <= List!TotalPages(Matched(k.filter))

(* The pager of a key counts no more pages than its filter has, unless cases *)
(* have left that filter; nobody is past the last page.                     *)
PagerInv ==
  /\ \A k \in List!Keys : cache[k] # List!NotYet =>
       /\ cache[k].pages <= Cardinality(Cases)
       /\ k.filter \notin lost => cache[k].pages <= List!TotalPages(Matched(k.filter))
       /\ k.filter \notin lost \union jumped /\ cache[k].rows = {} => k.page = 1
  /\ \A r \in flights :
       /\ r.total <= Cardinality(Cases)
       /\ r.key.filter \notin lost => r.total <= Matched(r.key.filter)
       /\ r.key.filter \notin lost \union jumped => Within(r.key)
  /\ filter \notin lost \union jumped => Within(List!Key)

(* One request per key, and none for a key whose last one failed.           *)
FlightsInv ==
  /\ \A r, q \in flights : r.key = q.key => r = q
  /\ \A r \in flights : r.key \notin missing

(* The inductive invariant of the list.                                     *)
CasesInv == List!CaseListTypeOK /\ FlightsInv /\ PagerInv

(* The instance's own names for the operators of FiniteSets.                *)
LEMMA SameListSizes ==
  /\ \A S : List!Cardinality(S) = Cardinality(S)
  /\ \A S : List!IsFiniteSet(S) <=> IsFiniteSet(S)
BY DEF List!Cardinality, Cardinality, List!IsFiniteSet, IsFiniteSet

(* What is assumed of the constants of the list.                            *)
LEMMA ListConstants ==
  /\ Cases \subseteq Nat /\ IsFiniteSet(Cases) /\ Cases # {}
  /\ PageSize \in Nat \ {0} /\ MaxChanges \in Nat
  /\ "" \in Filters
<1>1. /\ Cases \subseteq Nat /\ IsFiniteSet(Cases) /\ Cases # {}
      /\ PageSize \in Nat \ {0} /\ MaxChanges \in Nat /\ "" \in Filters
  BY PagesConstants, SameListSizes DEF List!CaseListConstants
<1> QED
  BY <1>1

(* There is a case, so there is a page.                                     *)
LEMMA SomeCases == Cardinality(Cases) \in Nat /\ Cardinality(Cases) >= 1
<1>1. Cardinality(Cases) \in Nat /\ Cardinality(Cases) # 0
  BY ListConstants, FS_CardinalityType, FS_EmptySet
<1> QED
  BY <1>1

(* The number of pages: not more than there are rows, more rows no fewer,   *)
(* and a page up to the last has a first row.                               *)
LEMMA PagesOfRows ==
  ASSUME NEW n \in Nat
  PROVE  /\ List!TotalPages(n) \in Nat /\ List!TotalPages(n) <= n
         /\ \A m \in Nat : m <= n => List!TotalPages(m) <= List!TotalPages(n)
         /\ \A p \in Nat \ {0} : p <= List!TotalPages(n) => (p - 1) * PageSize + 1 <= n
<1>1. PageSize \in Nat \ {0}
  BY ListConstants
<1>2. ASSUME NEW m \in Nat
      PROVE  /\ List!TotalPages(m) \in Nat
             /\ List!TotalPages(m) * PageSize <= m + PageSize - 1
             /\ m + PageSize - 1 < List!TotalPages(m) * PageSize + PageSize
  BY <1>1 DEF List!TotalPages
<1> DEFINE q == List!TotalPages(n)
<1> HIDE DEF q
<1>3. q \in Nat /\ q * PageSize <= n + PageSize - 1
  BY <1>2 DEF q
<1>4. q <= n
  <2> SUFFICES ASSUME q >= n + 1 PROVE FALSE
    BY <1>3
  <2>1. q * PageSize >= (n + 1) * PageSize
    BY <1>1, <1>3
  <2>2. (n + 1) * PageSize = n * PageSize + PageSize /\ n * PageSize >= n
    BY <1>1
  <2>3. n * PageSize \in Nat /\ q * PageSize \in Nat
    BY <1>1, <1>3
  <2> QED
    BY <1>1, <1>3, <2>1, <2>2, <2>3
<1>5. ASSUME NEW m \in Nat, m <= n PROVE List!TotalPages(m) <= q
  <2> DEFINE p == List!TotalPages(m)
  <2>1. p \in Nat /\ p * PageSize <= m + PageSize - 1 /\ n + PageSize - 1 < q * PageSize + PageSize
    BY <1>2 DEF q
  <2> HIDE DEF p
  <2> SUFFICES ASSUME p >= q + 1 PROVE FALSE
    BY <1>3, <2>1 DEF p
  <2>2. p * PageSize >= (q + 1) * PageSize
    BY <1>1, <1>3, <2>1
  <2>3. (q + 1) * PageSize = q * PageSize + PageSize /\ q * PageSize \in Nat
    BY <1>1, <1>3
  <2>4. p * PageSize \in Nat
    BY <1>1, <2>1
  <2> QED
    BY <1>1, <1>5, <2>1, <2>2, <2>3, <2>4
<1>6. ASSUME NEW p \in Nat \ {0}, p <= q PROVE (p - 1) * PageSize + 1 <= n
  <2>1. p * PageSize <= q * PageSize
    BY <1>1, <1>3, <1>6
  <2>2. (p - 1) * PageSize = p * PageSize - PageSize /\ p * PageSize \in Nat
    BY <1>1
  <2>3. q * PageSize \in Nat
    BY <1>1, <1>3
  <2> QED
    BY <1>1, <1>3, <2>1, <2>2, <2>3
<1> QED
  BY <1>3, <1>4, <1>5, <1>6 DEF q

(* The rows of a filter have the places 1, 2, ... in its order.             *)
LEMMA EveryPlaceIsTaken ==
  ASSUME NEW S \in SUBSET Cases, NEW k \in 1..Cardinality(S)
  PROVE  \E c \in S : List!Place(c, S) = k
<1> DEFINE n == Cardinality(S)
           above(c) == {d \in S : d >= c}
           place == [c \in S |-> Cardinality(above(c))]
<1>1. IsFiniteSet(S) /\ n \in Nat /\ S \subseteq Nat
  BY ListConstants, FS_Subset, FS_CardinalityType
<1>2. ASSUME NEW c \in S
      PROVE  IsFiniteSet(above(c)) /\ Cardinality(above(c)) \in 1..n
  <2>1. above(c) \in SUBSET S /\ c \in above(c)
    BY <1>1
  <2> HIDE DEF above
  <2>2. IsFiniteSet(above(c)) /\ Cardinality(above(c)) <= n
    BY <1>1, <2>1, FS_Subset
  <2>3. Cardinality(above(c)) \in Nat /\ Cardinality(above(c)) # 0
    BY <2>1, <2>2, FS_CardinalityType, FS_EmptySet
  <2> QED
    BY <1>1, <2>2, <2>3
<1>3. ASSUME NEW c \in S, NEW d \in S, c < d PROVE place[c] # place[d]
  <2>0. c \in Nat /\ d \in Nat
    BY <1>1
  <2>1. above(d) \in SUBSET above(c) /\ c \in above(c) /\ c \notin above(d)
    <3>1. ASSUME NEW e \in above(d) PROVE e \in above(c)
      BY <1>1, <1>3, <2>0
    <3>2. c \in above(c) /\ c \notin above(d)
      BY <1>3, <2>0
    <3> QED
      BY <3>1, <3>2
  <2>2. Cardinality(above(d)) # Cardinality(above(c))
    BY <1>2, <2>1, FS_Subset
  <2> QED
    BY <2>2
<1>4. place \in Injection(S, 1..n)
  <2>1. place \in [S -> 1..n]
    BY <1>2
  <2>2. \A c, d \in S : place[c] = place[d] => c = d
    BY <1>1, <1>3
  <2> QED
    BY <2>1, <2>2 DEF Injection, IsInjective
<1>5. place \in Surjection(S, 1..n)
  BY <1>1, <1>4, FS_Injection, FS_Interval
<1>6. \A c \in S : place[c] = List!Place(c, S)
  BY SameListSizes DEF List!Place
<1> QED
  BY <1>5, <1>6 DEF Surjection

(* The filters: their sizes, and how a change moves them.                   *)
LEMMA MatchedIs ==
  ASSUME NEW f
  PROVE  /\ List!Matching(f) \in SUBSET Cases /\ Matched(f) \in Nat
         /\ Matched(f) <= Cardinality(Cases)
<1>1. List!Matching(f) \in SUBSET Cases
  BY DEF List!Matching
<1> QED
  BY <1>1, ListConstants, FS_Subset, FS_CardinalityType DEF Matched

(* The keys of the cache.                                                   *)
LEMMA KeysAre ==
  /\ List!Keys = [filter : Filters, page : 1..Cardinality(Cases)]
  /\ \A k \in List!Keys : k.page \in Nat \ {0} /\ k # List!NoKey
<1>1. List!Keys = [filter : Filters, page : 1..Cardinality(Cases)]
  BY SameListSizes DEF List!Keys
<1>2. ASSUME NEW k \in List!Keys PROVE k.page \in Nat \ {0} /\ k # List!NoKey
  <2>1. k.page \in 1..Cardinality(Cases)
    BY <1>1
  <2>2. List!NoKey.page = 0
    BY DEF List!NoKey
  <2> QED
    BY <2>1, <2>2, SomeCases
<1> QED
  BY <1>1, <1>2

(* Of the pages a filter has, only the first can be empty.                  *)
LEMMA PagesAreFull ==
  ASSUME NEW k \in List!Keys, k.page = 1 \/ k.page <= List!TotalPages(Matched(k.filter)),
         List!PageOf(k) = {}
  PROVE  k.page = 1
<1> SUFFICES ASSUME k.page # 1 PROVE FALSE
  OBVIOUS
<1> DEFINE S == List!Matching(k.filter)
           first == (k.page - 1) * PageSize + 1
<1>1. /\ k.page \in Nat \ {0} /\ PageSize \in Nat \ {0}
      /\ S \in SUBSET Cases /\ Cardinality(S) = Matched(k.filter) /\ Matched(k.filter) \in Nat
  BY ListConstants, MatchedIs, KeysAre DEF Matched
<1>2. first \in Nat \ {0} /\ first <= Matched(k.filter)
  <2>1. first <= Matched(k.filter)
    BY <1>1, PagesOfRows
  <2>2. (k.page - 1) * PageSize \in Nat
    BY <1>1
  <2> QED
    BY <2>1, <2>2
<1>3. first \in (k.page - 1) * PageSize + 1 .. k.page * PageSize
  <2>1. k.page * PageSize = (k.page - 1) * PageSize + PageSize
    BY <1>1
  <2>2. (k.page - 1) * PageSize \in Nat
    BY <1>1
  <2> QED
    BY <1>1, <2>1, <2>2
<1>4. PICK c \in S : List!Place(c, S) = first
  <2> HIDE DEF first, S
  <2> QED
    BY <1>1, <1>2, EveryPlaceIsTaken
<1>5. c \in List!PageOf(k)
  BY <1>3, <1>4 DEF List!PageOf
<1> QED
  BY <1>5

-----------------------------------------------------------------------------

(* A cached answer is a page or not there yet.                              *)
LEMMA DataAre ==
  ASSUME NEW d \in List!Data
  PROVE  d # List!NotYet <=> d \in [rows : SUBSET Cases, pages : Nat]
<1>1. List!NotYet.pages = -1
  BY DEF List!NotYet
<1> QED
  BY <1>1 DEF List!Data

(* The list is opened. *)
LEMMA CasesInitially == List!Init => CasesInv
<1> SUFFICES ASSUME List!Init PROVE CasesInv
  OBVIOUS
<1>1. List!Key \in List!Keys
  <2>1. "" \in Filters
    BY ListConstants
  <2>2. 1 \in 1..Cardinality(Cases)
    BY SomeCases
  <2> QED
    BY <2>1, <2>2, KeysAre DEF List!Init, List!Key
<1>2. flights = {List!Sent(List!Key)} /\ missing = {} /\ lost = {} /\ jumped = {}
  BY DEF List!Init
<1>3. List!CaseListTypeOK
  <2>0. MaxChanges \in Nat
    BY ListConstants
  <2>1. 0 \in 0..MaxChanges
    BY <2>0
  <2>2. flights \subseteq [key : List!Keys, total : Int]
    BY <1>1, <1>2 DEF List!Sent
  <2>3. cache \in [List!Keys -> List!Data]
    BY DEF List!Init, List!Data
  <2> QED
    BY <1>1, <1>2, <2>1, <2>2, <2>3 DEF List!Init, List!CaseListTypeOK
<1>4. FlightsInv
  BY <1>2 DEF FlightsInv
<1>5. List!Sent(List!Key).total = -1 /\ List!Sent(List!Key).key = List!Key /\ List!Key.page = 1
  BY DEF List!Init, List!Sent, List!Key
<1>6. Within(List!Key) /\ \A k \in List!Keys : cache[k] = List!NotYet
  BY <1>5 DEF Within, List!Init
<1>7. -1 <= Cardinality(Cases) /\ \A f : -1 <= Matched(f)
  BY SomeCases, MatchedIs
<1>8. PagerInv
  BY <1>2, <1>5, <1>6, <1>7 DEF PagerInv
<1> QED
  BY <1>3, <1>4, <1>8 DEF CasesInv

(* What the pager that is shown says. *)
LEMMA PagerShown ==
  ASSUME List!CaseListTypeOK, PagerInv, List!Shown.pages > 1
  PROVE  /\ List!Shown.pages \in Nat /\ List!Shown.pages <= Cardinality(Cases)
         /\ ~(cache[List!Key] = List!NotYet /\ last.filter # filter) /\ filter \notin lost =>
              List!Shown.pages <= List!TotalPages(Matched(filter))
<1> DEFINE k == IF cache[List!Key] # List!NotYet THEN List!Key ELSE last
<1>0. List!NotYet.pages = -1
  BY DEF List!NotYet
<1>1. List!Shown # List!NotYet
  BY <1>0
<1>2. /\ k \in List!Keys /\ cache[k] # List!NotYet /\ List!Shown = cache[k]
      /\ ~(cache[List!Key] = List!NotYet /\ last.filter # filter) => k.filter = filter
  <2>1. CASE cache[List!Key] # List!NotYet
    BY <2>1 DEF List!Shown, List!CaseListTypeOK, List!Key
  <2>2. CASE cache[List!Key] = List!NotYet
    <3>1. List!Shown = cache[last] /\ last # List!NoKey
      BY <1>1, <2>2 DEF List!Shown
    <3> QED
      BY <2>2, <3>1 DEF List!CaseListTypeOK
  <2> QED
    BY <2>1, <2>2
<1> HIDE DEF k
<1>3. cache[k] \in [rows : SUBSET Cases, pages : Nat]
  BY <1>2, DataAre DEF List!CaseListTypeOK
<1> QED
  BY <1>2, <1>3 DEF PagerInv

(* The observer moves to a page the list can have, or is excused. *)
LEMMA ObserveStep ==
  ASSUME CasesInv, NEW k \in List!Keys, List!Observe(k),
         jumped' \subseteq Filters, jumped \subseteq jumped',
         k.filter \notin lost \union jumped' => Within(k)
  PROVE  CasesInv'
<1>1. /\ filter' = k.filter /\ pageNumber' = k.page
      /\ last' = IF cache[k] # List!NotYet THEN k ELSE last
      /\ UNCHANGED <<listed, cache, changes, lost>>
  BY DEF List!Observe
<1>2. \/ UNCHANGED <<flights, missing>>
      \/ /\ ~List!Fetching(k) /\ flights' = flights \union {List!Sent(k)}
         /\ missing' = missing \ {k}
  BY DEF List!Observe
<1>3. List!Key' = k
  BY <1>1, KeysAre DEF List!Key
<1>4. List!Sent(k) = [key |-> k, total |-> -1]
  BY DEF List!Sent
<1>5. List!CaseListTypeOK'
  <2>1. last' \in List!Keys \union {List!NoKey} /\ (last' # List!NoKey => cache[last'] # List!NotYet)
    BY <1>1 DEF CasesInv, List!CaseListTypeOK
  <2>2. flights' \subseteq [key : List!Keys, total : Int]
    BY <1>2, <1>4 DEF CasesInv, List!CaseListTypeOK
  <2>3. missing' \subseteq {j \in List!Keys : cache[j] = List!NotYet}
    BY <1>2 DEF CasesInv, List!CaseListTypeOK
  <2> QED
    BY <1>1, <1>3, <2>1, <2>2, <2>3 DEF CasesInv, List!CaseListTypeOK
<1>6. FlightsInv'
  BY <1>2, <1>4 DEF CasesInv, FlightsInv, List!Fetching
<1>7. PagerInv'
  <2>1. \A f : Matched(f)' = Matched(f)
    BY <1>1 DEF Matched, List!Matching
  <2>2. \A j : Within(j)' <=> Within(j)
    BY <2>1 DEF Within, List!TotalPages
  <2>3. ASSUME NEW r \in flights'
        PROVE  /\ r.total <= Cardinality(Cases)
               /\ r.key.filter \notin lost => r.total <= Matched(r.key.filter)
               /\ r.key.filter \notin lost \union jumped' => Within(r.key)
    <3>1. CASE r \in flights
      BY <3>1 DEF CasesInv, PagerInv
    <3>2. CASE r = List!Sent(k)
      <4>1. r.total = -1 /\ r.key = k
        BY <1>4, <3>2
      <4>2. -1 <= Cardinality(Cases) /\ -1 <= Matched(k.filter)
        BY SomeCases, MatchedIs
      <4> QED
        BY <4>1, <4>2
    <3> QED
      BY <1>2, <3>1, <3>2
  <2>4. ASSUME NEW j \in List!Keys, cache[j] # List!NotYet
        PROVE  /\ cache[j].pages <= Cardinality(Cases)
               /\ j.filter \notin lost => cache[j].pages <= List!TotalPages(Matched(j.filter))
               /\ j.filter \notin lost \union jumped' /\ cache[j].rows = {} => j.page = 1
    BY <2>4 DEF CasesInv, PagerInv
  <2>5. \A f : List!TotalPages(Matched(f))' = List!TotalPages(Matched(f))
    BY <2>1 DEF List!TotalPages
  <2> QED
    BY <1>1, <1>3, <2>1, <2>2, <2>3, <2>4, <2>5 DEF PagerInv
<1> QED
  BY <1>5, <1>6, <1>7 DEF CasesInv

(* Every step of the list keeps its invariant. *)
LEMMA CasesStep ==
  ASSUME CasesInv, [List!Next]_listVars
  PROVE  CasesInv'
<1>0. List!CaseListTypeOK /\ FlightsInv /\ PagerInv /\ List!Key \in List!Keys
  BY DEF CasesInv, List!CaseListTypeOK
<1>a. filter \in Filters /\ pageNumber \in 1..Cardinality(Cases)
      /\ List!Key.filter = filter /\ List!Key.page = pageNumber
  BY <1>0, KeysAre DEF List!Key
<1>b. \A r \in flights : r \in [key : List!Keys, total : Int]
  BY <1>0 DEF List!CaseListTypeOK
<1>1. ASSUME NEW f \in Filters, List!SetFilter(f) PROVE CasesInv'
  <2> DEFINE k == [filter |-> f, page |-> 1]
  <2>1. List!Observe(k) /\ jumped' = jumped
    BY <1>1 DEF List!SetFilter
  <2>2. k \in List!Keys
    BY KeysAre, SomeCases
  <2>3. Within(k)
    BY DEF Within
  <2>4. jumped \subseteq Filters
    BY <1>0 DEF List!CaseListTypeOK
  <2> HIDE DEF k
  <2> QED
    BY <2>1, <2>2, <2>3, <2>4, ObserveStep
<1>2. CASE List!NextPage
  <2> DEFINE k == [filter |-> filter, page |-> pageNumber + 1]
  <2>1. /\ List!Shown.pages > 1 /\ pageNumber < List!Shown.pages
        /\ List!Observe(k)
        /\ jumped' = IF cache[List!Key] = List!NotYet /\ last.filter # filter
                     THEN jumped \union {filter} ELSE jumped
    BY <1>2 DEF List!NextPage
  <2>2. /\ List!Shown.pages \in Nat /\ List!Shown.pages <= Cardinality(Cases)
        /\ ~(cache[List!Key] = List!NotYet /\ last.filter # filter) /\ filter \notin lost =>
              List!Shown.pages <= List!TotalPages(Matched(filter))
    BY <1>0, <2>1, PagerShown
  <2>3. pageNumber \in Nat /\ pageNumber + 1 \in 1..Cardinality(Cases)
    BY <1>a, <2>1, <2>2, SomeCases
  <2>4. k \in List!Keys
    BY <1>a, <2>3, KeysAre
  <2>5. filter \notin lost \union jumped' => pageNumber + 1 <= List!TotalPages(Matched(filter))
    <3>1. List!TotalPages(Matched(filter)) \in Nat
      BY MatchedIs, PagesOfRows
    <3> QED
      BY <2>1, <2>2, <2>3, <3>1
  <2>6. k.filter \notin lost \union jumped' => Within(k)
    BY <2>5 DEF Within
  <2>7. jumped \subseteq jumped' /\ jumped' \subseteq Filters
    BY <1>0, <1>a, <2>1 DEF List!CaseListTypeOK
  <2> HIDE DEF k
  <2> QED
    BY <2>1, <2>4, <2>6, <2>7, ObserveStep
<1>3. CASE List!PreviousPage
  <2> DEFINE k == [filter |-> filter, page |-> pageNumber - 1]
  <2>1. List!Observe(k) /\ pageNumber > 1 /\ jumped' = jumped
    BY <1>3 DEF List!PreviousPage
  <2>2. pageNumber - 1 \in 1..Cardinality(Cases) /\ pageNumber \in Nat
    BY <1>a, <2>1, SomeCases
  <2>3. k \in List!Keys
    BY <1>a, <2>2, KeysAre
  <2>4. k.filter \notin lost \union jumped' => Within(k)
    <3>1. filter \notin lost \union jumped => pageNumber <= List!TotalPages(Matched(filter))
      BY <1>0, <1>a, <2>1, <2>2 DEF PagerInv, Within
    <3>2. List!TotalPages(Matched(filter)) \in Nat
      BY MatchedIs, PagesOfRows
    <3>3. filter \notin lost \union jumped => pageNumber - 1 <= List!TotalPages(Matched(filter))
      BY <2>2, <3>1, <3>2
    <3> QED
      BY <2>1, <3>3 DEF Within
  <2>5. jumped \subseteq Filters
    BY <1>0 DEF List!CaseListTypeOK
  <2> HIDE DEF k
  <2> QED
    BY <2>1, <2>3, <2>4, <2>5, ObserveStep
<1>4. CASE List!Refetch
  <2>1. /\ ~List!Fetching(List!Key) /\ flights' = flights \union {List!Sent(List!Key)}
        /\ missing' = missing \ {List!Key}
        /\ UNCHANGED <<listed, filter, pageNumber, last, cache, changes, lost, jumped>>
    BY <1>4 DEF List!Refetch, List!view
  <2>2. List!Sent(List!Key).key = List!Key /\ List!Sent(List!Key).total = -1
        /\ List!Sent(List!Key) \in [key : List!Keys, total : Int]
    BY <1>0 DEF List!Sent
  <2>3. List!CaseListTypeOK'
    BY <1>0, <2>1, <2>2 DEF List!CaseListTypeOK, List!Key
  <2>4. FlightsInv'
    BY <1>0, <2>1, <2>2 DEF FlightsInv, List!Fetching
  <2>5. PagerInv'
    <3>1. -1 <= Cardinality(Cases) /\ -1 <= Matched(filter)
      BY SomeCases, MatchedIs
    <3>2. \A r \in flights' :
             /\ r.total <= Cardinality(Cases)
             /\ r.key.filter \notin lost => r.total <= Matched(r.key.filter)
             /\ r.key.filter \notin lost \union jumped => Within(r.key)
      BY <1>0, <1>a, <2>1, <2>2, <3>1 DEF PagerInv
    <3> QED
      BY <1>0, <2>1, <3>2 DEF PagerInv, Matched, Within, List!Matching, List!Key, List!TotalPages
  <2> QED
    BY <2>3, <2>4, <2>5 DEF CasesInv
<1>5. ASSUME NEW r \in flights, List!Count(r) PROVE CasesInv'
  <2> DEFINE s == [r EXCEPT !.total = Matched(r.key.filter)]
  <2>1. /\ flights' = (flights \ {r}) \union {s}
        /\ UNCHANGED <<listed, filter, pageNumber, last, cache, missing, changes, lost, jumped>>
    BY <1>5, SameListSizes DEF List!Count, List!view, Matched
  <2>2. /\ s.key = r.key /\ s.total = Matched(r.key.filter)
        /\ s \in [key : List!Keys, total : Int]
    BY <1>b, MatchedIs
  <2> HIDE DEF s
  <2>3. List!CaseListTypeOK'
    BY <1>0, <2>1, <2>2 DEF List!CaseListTypeOK, List!Key
  <2>4. FlightsInv'
    BY <1>0, <2>1, <2>2 DEF FlightsInv
  <2>5. PagerInv'
    <3>1. Matched(r.key.filter) <= Cardinality(Cases) /\ Matched(r.key.filter) \in Nat
      BY MatchedIs
    <3>2. \A q \in flights' :
             /\ q.total <= Cardinality(Cases)
             /\ q.key.filter \notin lost => q.total <= Matched(q.key.filter)
             /\ q.key.filter \notin lost \union jumped => Within(q.key)
      BY <1>0, <2>1, <2>2, <3>1 DEF PagerInv
    <3> QED
      BY <1>0, <2>1, <3>2 DEF PagerInv, Matched, Within, List!Matching, List!Key, List!TotalPages
  <2> QED
    BY <2>3, <2>4, <2>5 DEF CasesInv
<1>6. ASSUME NEW r \in flights, List!Find(r) PROVE CasesInv'
  <2> DEFINE d == [rows |-> List!PageOf(r.key), pages |-> List!TotalPages(r.total)]
  <2>1. /\ r.total >= 0 /\ cache' = [cache EXCEPT ![r.key] = d]
        /\ last' = IF r.key = List!Key THEN List!Key ELSE last
        /\ flights' = flights \ {r}
        /\ UNCHANGED <<listed, filter, pageNumber, missing, changes, lost, jumped>>
    BY <1>6 DEF List!Find
  <2>2. /\ r.total \in Nat /\ r.key \in List!Keys /\ r.key \notin missing
        /\ r.total <= Cardinality(Cases)
        /\ r.key.filter \notin lost => r.total <= Matched(r.key.filter)
        /\ r.key.filter \notin lost \union jumped => Within(r.key)
    BY <1>0, <1>b, <2>1 DEF PagerInv, FlightsInv
  <2>3. /\ d.rows = List!PageOf(r.key) /\ d.pages = List!TotalPages(r.total)
        /\ d \in List!Data /\ d # List!NotYet
    <3>1. List!PageOf(r.key) \in SUBSET Cases
      BY DEF List!PageOf, List!Matching
    <3>2. List!TotalPages(r.total) \in Nat
      BY <2>2, PagesOfRows
    <3>3. d \in [rows : SUBSET Cases, pages : Nat]
      BY <3>1, <3>2
    <3> QED
      BY <3>3, DataAre DEF List!Data
  <2>4. /\ d.pages <= Cardinality(Cases)
        /\ r.key.filter \notin lost => d.pages <= List!TotalPages(Matched(r.key.filter))
        /\ r.key.filter \notin lost \union jumped /\ d.rows = {} => r.key.page = 1
    <3>1. List!TotalPages(r.total) \in Nat /\ List!TotalPages(r.total) <= r.total
      BY <2>2, PagesOfRows
    <3>2. Matched(r.key.filter) \in Nat
      BY MatchedIs
    <3>3. r.total <= Matched(r.key.filter) =>
            List!TotalPages(r.total) <= List!TotalPages(Matched(r.key.filter))
      BY <2>2, <3>2, PagesOfRows
    <3>4. Within(r.key) /\ List!PageOf(r.key) = {} => r.key.page = 1
      BY <2>2, PagesAreFull DEF Within
    <3> HIDE DEF d
    <3> QED
      BY <2>2, <2>3, <3>1, <3>3, <3>4, SomeCases
  <2> HIDE DEF d
  <2>5. /\ cache \in [List!Keys -> List!Data] /\ cache' \in [List!Keys -> List!Data]
        /\ \A k \in List!Keys : cache'[k] = IF k = r.key THEN d ELSE cache[k]
    BY <1>0, <2>1, <2>2, <2>3 DEF List!CaseListTypeOK
  <2>6. List!CaseListTypeOK'
    <3>1. /\ last' \in List!Keys \union {List!NoKey}
          /\ last' # List!NoKey => cache'[last'] # List!NotYet
      BY <1>0, <2>1, <2>3, <2>5 DEF List!CaseListTypeOK
    <3>2. missing' \subseteq {k \in List!Keys : cache'[k] = List!NotYet}
      BY <1>0, <2>1, <2>2, <2>5 DEF List!CaseListTypeOK
    <3>3. flights' \subseteq [key : List!Keys, total : Int]
      BY <1>b, <2>1
    <3> QED
      BY <1>0, <2>1, <2>5, <3>1, <3>2, <3>3 DEF List!CaseListTypeOK, List!Key
  <2>7. FlightsInv'
    BY <1>0, <2>1 DEF FlightsInv
  <2>8. PagerInv'
    <3>1. \A k \in List!Keys : cache'[k] # List!NotYet =>
            /\ cache'[k].pages <= Cardinality(Cases)
            /\ k.filter \notin lost => cache'[k].pages <= List!TotalPages(Matched(k.filter))
            /\ k.filter \notin lost \union jumped /\ cache'[k].rows = {} => k.page = 1
      BY <1>0, <2>4, <2>5 DEF PagerInv
    <3>2. \A q \in flights' : q \in flights
      BY <2>1
    <3> QED
      BY <1>0, <2>1, <3>1, <3>2
      DEF PagerInv, Matched, Within, List!Matching, List!Key, List!TotalPages
  <2> QED
    BY <2>6, <2>7, <2>8 DEF CasesInv
<1>7. ASSUME NEW r \in flights, List!Fail(r) PROVE CasesInv'
  <2>1. /\ flights' = flights \ {r}
        /\ missing' = IF cache[r.key] = List!NotYet THEN missing \union {r.key} ELSE missing
        /\ UNCHANGED <<listed, filter, pageNumber, last, cache, changes, lost, jumped>>
    BY <1>7 DEF List!Fail, List!view
  <2>2. r.key \in List!Keys
    BY <1>b
  <2>3. List!CaseListTypeOK'
    BY <1>0, <2>1, <2>2 DEF List!CaseListTypeOK, List!Key
  <2>4. FlightsInv'
    BY <1>0, <2>1 DEF FlightsInv
  <2>5. PagerInv'
    <3>1. \A q \in flights' : q \in flights
      BY <2>1
    <3> QED
      BY <1>0, <2>1, <3>1 DEF PagerInv, Matched, Within, List!Matching, List!Key, List!TotalPages
  <2> QED
    BY <2>3, <2>4, <2>5 DEF CasesInv
<1>8. ASSUME NEW c \in Cases, NEW s \in Statuses \union {"hidden"}, List!Change(c, s)
      PROVE  CasesInv'
  <2>1. /\ listed' = [listed EXCEPT ![c] = s] /\ changes < MaxChanges /\ changes' = changes + 1
        /\ lost' = lost \union {f \in Filters : ~List!Matching(f) \subseteq List!Matching(f)'}
        /\ UNCHANGED <<filter, pageNumber, last, cache, missing, flights, jumped>>
    BY <1>8 DEF List!Change, List!view
  <2>2. List!CaseListTypeOK'
    <3>1. listed' \in [Cases -> Statuses \union {"hidden"}] /\ lost' \subseteq Filters
      BY <1>0, <2>1 DEF List!CaseListTypeOK
    <3>2. changes' \in 0..MaxChanges
      <4>1. MaxChanges \in Nat /\ changes \in 0..MaxChanges
        BY <1>0, ListConstants DEF List!CaseListTypeOK
      <4> QED
        BY <2>1, <4>1
    <3> QED
      BY <1>0, <2>1, <3>1, <3>2 DEF List!CaseListTypeOK, List!Key
  <2>3. FlightsInv'
    BY <1>0, <2>1 DEF FlightsInv
  <2>4. ASSUME NEW f \in Filters, f \notin lost'
        PROVE  /\ f \notin lost /\ Matched(f) <= Matched(f)' /\ Matched(f) \in Nat
               /\ Matched(f)' \in Nat
    <3>1. List!Matching(f) \in SUBSET List!Matching(f)' /\ f \notin lost
      BY <2>1, <2>4
    <3>2. List!Matching(f)' \in SUBSET Cases
      BY DEF List!Matching
    <3>3. IsFiniteSet(List!Matching(f)') /\ Matched(f)' \in Nat
      BY <3>2, ListConstants, FS_Subset, FS_CardinalityType DEF Matched
    <3> QED
      BY <3>1, <3>3, MatchedIs, FS_Subset DEF Matched
  <2>5. ASSUME NEW f \in Filters, f \notin lost'
        PROVE  List!TotalPages(Matched(f)) <= List!TotalPages(Matched(f)')
               /\ List!TotalPages(Matched(f)) \in Nat /\ List!TotalPages(Matched(f)') \in Nat
    BY <2>4, <2>5, PagesOfRows
  <2>6. ASSUME NEW k \in List!Keys, k.filter \notin lost', Within(k)
        PROVE  k.page = 1 \/ k.page <= List!TotalPages(Matched(k.filter)')
    <3>1. k.filter \in Filters /\ k.page \in Nat
      BY KeysAre
    <3> QED
      BY <2>5, <2>6, <3>1 DEF Within
  <2>7. PagerInv'
    <3>1. ASSUME NEW k \in List!Keys, cache[k] # List!NotYet
          PROVE  /\ cache[k].pages <= Cardinality(Cases)
                 /\ k.filter \notin lost' =>
                      cache[k].pages <= List!TotalPages(Matched(k.filter)')
                 /\ k.filter \notin lost' \union jumped /\ cache[k].rows = {} => k.page = 1
      <4>1. cache[k].pages \in Nat /\ k.filter \in Filters
        <5>1. cache[k] \in List!Data
          BY <1>0 DEF List!CaseListTypeOK
        <5>2. cache[k] \in [rows : SUBSET Cases, pages : Nat]
          BY <3>1, <5>1, DataAre
        <5> QED
          BY <5>2, KeysAre
      <4>2. /\ cache[k].pages <= Cardinality(Cases)
            /\ k.filter \notin lost => cache[k].pages <= List!TotalPages(Matched(k.filter))
            /\ k.filter \notin lost \union jumped /\ cache[k].rows = {} => k.page = 1
        BY <1>0, <3>1 DEF PagerInv
      <4> QED
        BY <2>1, <2>5, <4>1, <4>2
    <3>2. ASSUME NEW r \in flights
          PROVE  /\ r.total <= Cardinality(Cases)
                 /\ r.key.filter \notin lost' => r.total <= Matched(r.key.filter)'
                 /\ r.key.filter \notin lost' \union jumped =>
                      r.key.page = 1 \/ r.key.page <= List!TotalPages(Matched(r.key.filter)')
      <4>1. r.key \in List!Keys /\ r.key.filter \in Filters /\ r.total \in Int
        BY <1>b, KeysAre
      <4>2. /\ r.total <= Cardinality(Cases)
            /\ r.key.filter \notin lost => r.total <= Matched(r.key.filter)
            /\ r.key.filter \notin lost \union jumped => Within(r.key)
        BY <1>0 DEF PagerInv
      <4> QED
        BY <2>1, <2>4, <2>6, <4>1, <4>2
    <3>3. filter \notin lost' \union jumped =>
            pageNumber = 1 \/ pageNumber <= List!TotalPages(Matched(filter)')
      BY <1>0, <1>a, <2>1, <2>6 DEF PagerInv
    <3>4. List!Key' = List!Key
      BY <2>1 DEF List!Key
    <3>5. \A f : List!TotalPages(Matched(f))' = List!TotalPages(Matched(f)')
      BY DEF List!TotalPages
    <3> QED
      BY <1>a, <2>1, <3>1, <3>2, <3>3, <3>4, <3>5 DEF PagerInv, Within
  <2> QED
    BY <2>2, <2>3, <2>7 DEF CasesInv
<1>9. CASE UNCHANGED listVars
  <2>1. UNCHANGED <<listed, filter, pageNumber, cache, last, missing, flights, changes, lost, jumped>>
    BY <1>9 DEF listVars
  <2>2. List!CaseListTypeOK' /\ FlightsInv'
    BY <1>0, <2>1 DEF List!CaseListTypeOK, List!Key, FlightsInv
  <2>3. PagerInv'
    BY <1>0, <2>1 DEF PagerInv, Matched, Within, List!Matching, List!Key, List!TotalPages
  <2> QED
    BY <2>2, <2>3 DEF CasesInv
<1> QED
  BY <1>1, <1>2, <1>3, <1>4, <1>5, <1>6, <1>7, <1>8, <1>9 DEF List!Next

(* It implies what the list promises. *)
LEMMA CasesPromises == CasesInv => List!CaseListTypeOK /\ List!EmptyPageIsFirst
<1> SUFFICES ASSUME CasesInv PROVE List!EmptyPageIsFirst
  BY DEF CasesInv
<1>1. List!Key \in List!Keys /\ List!Key.page = pageNumber /\ List!Key.filter = filter
  BY DEF CasesInv, List!CaseListTypeOK, List!Key
<1> QED
  BY <1>1 DEF CasesInv, PagerInv, List!EmptyPageIsFirst

-----------------------------------------------------------------------------
(* The page of a case. *)

(* What the cache can hold: a case, its status, or the tutors invited.      *)
BoardData ==
  {NoData} \union [status : {"OPEN", "MATCHED", "CLOSED"}, matched : Tutors \union {NoTutor}]
    \union {"OPEN", "MATCHED", "CLOSED"} \union SUBSET Tutors
(* A fetch of a key.                                                        *)
Queries == [stage : {"none", "sent", "read"}, value : BoardData, clean : BOOLEAN]
(* A mutation of the page.                                                  *)
Mutations ==
  [kind : Kinds, tutor : Tutors \union {NoTutor}, stage : Stages, round : Nat,
   held : BOOLEAN, sure : BOOLEAN]

(* What a mutation in progress can be. *)
Sound(m) ==
  /\ m \in Mutations /\ m.round \in 0..Len(Rounds(m.kind))
  /\ m.kind = "close" <=> m.tutor = NoTutor
  /\ m.stage = "settling" <=> m.round # 0

(* The type invariant of the page, and its queries and mutations in full.   *)
BoardTypes ==
  /\ CaseBoardTypeOK
  /\ \A m \in muts : Sound(m)
  /\ data \in [Keys -> BoardData] /\ flight \in [Keys -> Queries]
  /\ status = "OPEN" => matched = NoTutor

(* The mutation m, past the server, has changed k and is to invalidate it.  *)
Owes(m, k) ==
  /\ k \in Changes(m.kind)
  /\ m.stage \in {"ok", "settling"}
  /\ \E i \in m.round + 1..Len(Rounds(m.kind)) : k \in Rounds(m.kind)[i]
(* Some mutation has yet to invalidate k.                                   *)
Due(k) == \E m \in muts : Owes(m, k)

(* The mutation m waits for the key k to be fetched before its next round.  *)
Awaits(m, k) == m.stage = "settling" /\ k \in Rounds(m.kind)[m.round]
(* Some mutation waits for k.                                               *)
Awaited(k) == \E m \in muts : Awaits(m, k)

(* What is cached, and what a clean fetch has read, is what the server has, *)
(* or a mutation has yet to invalidate it.  A key shown is not left         *)
(* invalidated: it is on its way, and as long as it shows what it had, a    *)
(* mutation waits for it, unless it is one of those excused.                *)
QueriesInv ==
  \A k \in Keys :
    /\ ~flight[k].clean => k \in drift
    /\ flight[k].stage = "read" /\ flight[k].clean => flight[k].value = Server(k) \/ Due(k)
    /\ k \notin drift \union stale /\ data[k] # NoData => data[k] = Server(k) \/ Due(k)
    /\ k \in Active \ failed /\ flight[k].stage = "none" => k \notin stale
    /\ k \in (Active \intersect stale) \ (drift \union failed) /\ data[k] # NoData => Awaited(k)

(* A mutation pressed on sure data is alone, and the server will take it.   *)
OffersInv ==
  \A m \in muts : m.sure =>
    /\ muts = {m} /\ m.stage # "refused"
    /\ m.stage \in {"sent", "late"} => ~Refuses(m) /\ (m.kind = "revoke" => status = "OPEN")

(* The inductive invariant of the page of a case.                           *)
BoardInv == BoardTypes /\ QueriesInv /\ OffersInv /\ MatchedStaysInvited

(* What is assumed of the constants of the page.                            *)
LEMMA BoardConstants == NoTutor \notin Tutors /\ MaxPresses \in Nat /\ MaxFaults \in Nat
BY PagesConstants DEF CaseBoardConstants

(* A key that is not fetched, and one that is asked for.                    *)
LEMMA NewQueries ==
  /\ NoFetch.stage = "none" /\ NoFetch.clean = TRUE /\ NoFetch \in Queries
  /\ Asked.stage = "sent" /\ Asked.clean = TRUE /\ Asked \in Queries
BY DEF NoFetch, Asked, Queries, BoardData

(* The rounds of each mutation reach every query it changes.                *)
LEMMA RoundsReach ==
  ASSUME NEW kind \in Kinds
  PROVE  /\ Len(Rounds(kind)) \in Nat \ {0}
         /\ \A i \in 1..Len(Rounds(kind)) : Rounds(kind)[i] \subseteq Keys
         /\ \A k \in Keys : k # "cases" \/ kind \in {"accept", "close"} =>
              \E i \in 1..Len(Rounds(kind)) : k \in Rounds(kind)[i]
<1>1. CASE kind = "close"
  BY <1>1 DEF Rounds
<1>2. CASE kind = "accept"
  <2>1. Rounds(kind) = <<CaseKeys, {"invites"}, {"recommendations"}, {"cases"}, {"invites"}>>
    BY <1>2 DEF Rounds
  <2>2. Len(Rounds(kind)) = 5 /\ Rounds(kind)[1] = CaseKeys /\ Rounds(kind)[2] = {"invites"}
        /\ Rounds(kind)[3] = {"recommendations"} /\ Rounds(kind)[4] = {"cases"}
        /\ Rounds(kind)[5] = {"invites"}
    BY <2>1
  <2>3. \A i \in 1..5 : i = 1 \/ i = 2 \/ i = 3 \/ i = 4 \/ i = 5
    OBVIOUS
  <2>4. \A i \in 1..5 : Rounds(kind)[i] \subseteq Keys
    BY <2>2, <2>3 DEF CaseKeys, Keys
  <2>5. \A k \in Keys : k \in Rounds(kind)[1] \/ k \in Rounds(kind)[4]
    BY <2>2 DEF CaseKeys
  <2> QED
    BY <2>2, <2>4, <2>5
<1>3. CASE kind \notin {"close", "accept"}
  <2>1. Rounds(kind) = <<CaseKeys, {"invites"}, {"recommendations"}, {"invites"}>>
    BY <1>3 DEF Rounds
  <2>2. Len(Rounds(kind)) = 4 /\ Rounds(kind)[1] = CaseKeys /\ Rounds(kind)[2] = {"invites"}
        /\ Rounds(kind)[3] = {"recommendations"} /\ Rounds(kind)[4] = {"invites"}
    BY <2>1
  <2>3. \A i \in 1..4 : i = 1 \/ i = 2 \/ i = 3 \/ i = 4
    OBVIOUS
  <2>4. \A i \in 1..4 : Rounds(kind)[i] \subseteq Keys
    BY <2>2, <2>3 DEF CaseKeys, Keys
  <2>5. \A k \in Keys : k # "cases" => k \in Rounds(kind)[1]
    BY <2>2 DEF CaseKeys
  <2> QED
    BY <1>3, <2>2, <2>4, <2>5
<1> QED
  BY <1>1, <1>2, <1>3

(* The page of the case is opened. *)
LEMMA BoardInitially == Init => BoardInv
<1> SUFFICES ASSUME Init PROVE BoardInv
  OBVIOUS
<1>1. BoardTypes
  <2>1. data \in [Keys -> BoardData]
    BY DEF Init, BoardData
  <2>2. flight \in [Keys -> Queries]
    BY NewQueries DEF Init
  <2>3. 0 \in 0..MaxPresses /\ 0 \in 0..MaxFaults
    BY BoardConstants
  <2> QED
    BY <2>1, <2>2, <2>3 DEF Init, BoardTypes, CaseBoardTypeOK
<1>2. QueriesInv
  <2> SUFFICES ASSUME NEW k \in Keys
               PROVE  /\ flight[k].clean /\ flight[k].stage # "read"
                      /\ data[k] # NoData => data[k] = Server(k)
    BY DEF QueriesInv, Init
  <2>1. flight[k] \in {Asked, NoFetch}
    BY DEF Init
  <2>2. data[k] # NoData => k = "cases" /\ data[k] = status
    BY DEF Init
  <2> QED
    BY <2>1, <2>2, NewQueries DEF Server
<1>3. OffersInv /\ MatchedStaysInvited
  BY DEF Init, OffersInv, MatchedStaysInvited
<1> QED
  BY <1>1, <1>2, <1>3 DEF BoardInv

-----------------------------------------------------------------------------
(* The server answers with data of the cache.                               *)
LEMMA ServerTypes ==
  ASSUME BoardTypes, NEW k \in Keys
  PROVE  Server(k) \in BoardData
BY DEF BoardTypes, CaseBoardTypeOK, Server, BoardData, Keys

(* The queries keep their types.                                            *)
QueryTypes ==
  /\ page \in {"case", "list"}
  /\ data \in [Keys -> BoardData] /\ flight \in [Keys -> Queries]
  /\ stale \subseteq Keys /\ failed \subseteq Keys /\ drift \subseteq Keys

(* The part of the types that is about the queries.                         *)
LEMMA QueriesTyped == BoardTypes => QueryTypes
BY DEF BoardTypes, CaseBoardTypeOK, QueryTypes

(* Mounting asks for what is missing or stale, and for nothing else.        *)
LEMMA MountTypes ==
  ASSUME NEW p, NEW d, NEW s, NEW f, NEW fl \in [Keys -> Queries]
  PROVE  /\ Mount(p, d, s, f, fl) \in [Keys -> Queries]
         /\ \A k \in Keys : Mount(p, d, s, f, fl)[k] =
              IF k \in Mounted(p, d, f) \ Active /\ (d[k] = NoData \/ k \in s) /\ fl[k].stage = "none"
              THEN Asked ELSE fl[k]
BY NewQueries DEF Mount

(* An invalidation in parts: what it dirties, and what it asks for.         *)
LEMMA InvalidateIs ==
  ASSUME QueryTypes, NEW ks \in SUBSET Keys, Invalidate(ks)
  PROVE  /\ stale' = stale \union ks /\ UNCHANGED <<data, failed>>
         /\ drift' = drift \union Missed(ks) /\ Missed(ks) \subseteq ks
         /\ flight' \in [Keys -> Queries]
         /\ \A k \in Keys :
              /\ k \in Missed(ks) => ~flight'[k].clean /\ flight'[k].stage = flight[k].stage
                                     /\ flight[k].stage # "none"
              /\ k \notin Missed(ks) /\ k \in ks \intersect Active => flight'[k] = Asked
              /\ k \notin Missed(ks) /\ k \notin ks \intersect Active => flight'[k] = flight[k]
              /\ k \in ks \ Active /\ k \notin Missed(ks) => flight[k].stage = "none"
<1>1. \A k \in Keys : flight[k] \in Queries
  BY DEF QueryTypes
<1>2. \A k \in Keys : /\ [flight[k] EXCEPT !.clean = FALSE] \in Queries
                      /\ [flight[k] EXCEPT !.clean = FALSE].clean = FALSE
                      /\ [flight[k] EXCEPT !.clean = FALSE].stage = flight[k].stage
  BY <1>1 DEF Queries
<1>3. /\ stale' = stale \union ks /\ UNCHANGED <<data, failed>>
      /\ drift' = drift \union Missed(ks) /\ Missed(ks) \subseteq ks
      /\ flight' = [k \in Keys |->
           IF k \in Missed(ks) THEN [flight[k] EXCEPT !.clean = FALSE]
           ELSE IF k \in ks \intersect Active THEN Asked ELSE flight[k]]
  BY DEF Invalidate, Missed
<1>4. \A k \in Missed(ks) : flight[k].stage # "none"
  BY DEF Missed
<1>5. \A k \in ks \ Active : k \notin Missed(ks) => flight[k].stage = "none"
  BY DEF Missed
<1>6. flight' \in [Keys -> Queries]
  BY <1>1, <1>2, <1>3, NewQueries
<1> HIDE DEF Missed
<1> QED
  BY <1>2, <1>3, <1>4, <1>5, <1>6

(* An invalidation, when no debt but to the keys ks goes away, and ks is    *)
(* awaited now.                                                             *)
LEMMA InvalidateStep ==
  ASSUME QueryTypes, QueriesInv, NEW ks \in SUBSET Keys, Invalidate(ks), UNCHANGED <<server, page>>,
         \A k \in Keys \ ks : Due(k) => Due(k)',
         \A k \in ks : Awaited(k)',
         \A k \in Keys : Awaited(k) => Awaited(k)' \/ flight[k].stage = "none"
  PROVE  QueryTypes' /\ QueriesInv'
<1>1. /\ stale' = stale \union ks /\ UNCHANGED <<data, failed>>
      /\ drift' = drift \union Missed(ks) /\ Missed(ks) \subseteq ks
      /\ flight' \in [Keys -> Queries]
      /\ \A k \in Keys :
           /\ k \in Missed(ks) => ~flight'[k].clean /\ flight'[k].stage = flight[k].stage
                                  /\ flight[k].stage # "none"
           /\ k \notin Missed(ks) /\ k \in ks \intersect Active => flight'[k] = Asked
           /\ k \notin Missed(ks) /\ k \notin ks \intersect Active => flight'[k] = flight[k]
           /\ k \in ks \ Active /\ k \notin Missed(ks) => flight[k].stage = "none"
  BY InvalidateIs
<1>2. QueryTypes'
  BY <1>1 DEF QueryTypes
<1>3. Active' = Active /\ \A k \in Keys : Server(k)' = Server(k)
  BY <1>1 DEF Active, Mounted, Server, server
<1>4. ASSUME NEW k \in Keys
      PROVE  /\ ~flight'[k].clean => k \in drift'
             /\ flight'[k].stage = "read" /\ flight'[k].clean => flight'[k].value = Server(k) \/ Due(k)'
             /\ k \notin drift' \union stale' /\ data[k] # NoData => data[k] = Server(k) \/ Due(k)'
             /\ k \in Active \ failed /\ flight'[k].stage = "none" => k \notin stale'
             /\ k \in (Active \intersect stale') \ (drift' \union failed) /\ data[k] # NoData
                  => Awaited(k)'
  <2>1. /\ ~flight[k].clean => k \in drift
        /\ flight[k].stage = "read" /\ flight[k].clean => flight[k].value = Server(k) \/ Due(k)
        /\ k \notin drift \union stale /\ data[k] # NoData => data[k] = Server(k) \/ Due(k)
        /\ k \in Active \ failed /\ flight[k].stage = "none" => k \notin stale
        /\ k \in (Active \intersect stale) \ (drift \union failed) /\ data[k] # NoData => Awaited(k)
    BY DEF QueriesInv
  <2>2. CASE k \in Missed(ks)
    BY <1>1, <2>1, <2>2
  <2>3. CASE k \notin Missed(ks) /\ k \in ks \intersect Active
    BY <1>1, <2>1, <2>3, NewQueries
  <2>4. CASE k \notin Missed(ks) /\ k \in ks \ Active
    BY <1>1, <2>1, <2>4
  <2>5. CASE k \notin ks
    BY <1>1, <2>1, <2>5
  <2> QED
    BY <2>2, <2>3, <2>4, <2>5
<1>5. QueriesInv'
  BY <1>1, <1>3, <1>4 DEF QueriesInv
<1> QED
  BY <1>2, <1>5

(* The tab is not told of changes to the keys ks. *)
LEMMA UntoldStep ==
  ASSUME QueryTypes, QueriesInv, NEW ks \in SUBSET Keys, Untold(ks), UNCHANGED page,
         \A k \in Keys \ ks : Server(k)' = Server(k) /\ (Due(k) => Due(k)'),
         \A k \in Keys : Awaited(k) => Awaited(k)' \/ flight[k].stage = "none"
  PROVE  QueryTypes' /\ QueriesInv'
<1>1. /\ drift' = drift \union ks /\ UNCHANGED <<data, stale, failed>>
      /\ flight' = Unclean(ks, flight)
  BY DEF Untold
<1>2. \A k \in Keys : /\ flight'[k] = IF k \in ks THEN [flight[k] EXCEPT !.clean = FALSE]
                                       ELSE flight[k]
                      /\ flight[k] \in Queries
  BY <1>1 DEF Unclean, QueryTypes
<1>3. \A k \in Keys : /\ flight'[k].stage = flight[k].stage /\ flight'[k] \in Queries
                      /\ k \in ks => ~flight'[k].clean
                      /\ k \notin ks => flight'[k] = flight[k]
  BY <1>2 DEF Queries
<1>4. flight' \in [Keys -> Queries]
  BY <1>1, <1>3 DEF Unclean
<1>5. Active' = Active
  BY <1>1 DEF Active, Mounted
<1>6. QueryTypes'
  BY <1>1, <1>4 DEF QueryTypes
<1>7. ASSUME NEW k \in Keys
      PROVE  /\ ~flight'[k].clean => k \in drift'
             /\ flight'[k].stage = "read" /\ flight'[k].clean =>
                  flight'[k].value = Server(k)' \/ Due(k)'
             /\ k \notin drift' \union stale /\ data[k] # NoData => data[k] = Server(k)' \/ Due(k)'
             /\ k \in Active \ failed /\ flight'[k].stage = "none" => k \notin stale
             /\ k \in (Active \intersect stale) \ (drift' \union failed) /\ data[k] # NoData
                  => Awaited(k)'
  <2>1. /\ ~flight[k].clean => k \in drift
        /\ flight[k].stage = "read" /\ flight[k].clean => flight[k].value = Server(k) \/ Due(k)
        /\ k \notin drift \union stale /\ data[k] # NoData => data[k] = Server(k) \/ Due(k)
        /\ k \in Active \ failed /\ flight[k].stage = "none" => k \notin stale
        /\ k \in (Active \intersect stale) \ (drift \union failed) /\ data[k] # NoData => Awaited(k)
    BY DEF QueriesInv
  <2>2. CASE k \in ks
    BY <1>1, <1>3, <2>1, <2>2
  <2>3. CASE k \notin ks
    BY <1>1, <1>3, <2>1, <2>3
  <2> QED
    BY <2>2, <2>3
<1>8. QueriesInv'
  BY <1>1, <1>5, <1>7 DEF QueriesInv
<1> QED
  BY <1>6, <1>8

(* What a mount leaves: nothing that is shown, invalidated and at rest.     *)
LEMMA MountStep ==
  ASSUME QueryTypes, NEW p \in {"case", "list"}, NEW d \in [Keys -> BoardData],
         NEW s \in SUBSET Keys, NEW f \in SUBSET Keys, NEW fl \in [Keys -> Queries],
         page' = p, data' = d, stale' = s, failed' = f, drift' \in SUBSET Keys,
         flight' = Mount(p, d, s, f, fl),
         \A k \in Keys : k \in Active \ f /\ fl[k].stage = "none" => k \notin s,
         \A k \in Keys : ~fl[k].clean => k \in drift',
         \A k \in Keys : fl[k].stage = "read" /\ fl[k].clean => fl[k].value = Server(k)' \/ Due(k)',
         \A k \in Keys : k \notin drift' \union s /\ d[k] # NoData => d[k] = Server(k)' \/ Due(k)',
         \A k \in Keys : k \in (Mounted(p, d, f) \intersect s) \ (drift' \union f) /\ d[k] # NoData
                          => Awaited(k)'
  PROVE  QueryTypes' /\ QueriesInv'
<1>1. /\ flight' \in [Keys -> Queries]
      /\ \A k \in Keys : flight'[k] =
           IF k \in Mounted(p, d, f) \ Active /\ (d[k] = NoData \/ k \in s) /\ fl[k].stage = "none"
           THEN Asked ELSE fl[k]
  BY MountTypes
<1>2. Active' = Mounted(p, d, f)
  BY DEF Active
<1>3. QueryTypes'
  BY <1>1 DEF QueryTypes
<1>4. ASSUME NEW k \in Keys
      PROVE  /\ ~flight'[k].clean => k \in drift'
             /\ flight'[k].stage = "read" /\ flight'[k].clean =>
                  flight'[k].value = Server(k)' \/ Due(k)'
             /\ k \in Active' \ failed' /\ flight'[k].stage = "none" => k \notin stale'
  BY <1>1, <1>2, NewQueries
<1>a. \A k \in Keys :
        k \in (Active' \intersect stale') \ (drift' \union failed') /\ data'[k] # NoData => Awaited(k)'
  BY <1>2
<1>5. QueriesInv'
  BY <1>4, <1>a DEF QueriesInv
<1> QED
  BY <1>3, <1>5

(* What is shown was shown before, or is excused while it is outdated.      *)
LEMMA MountedBefore ==
  ASSUME NEW p, NEW d, NEW s, NEW f, NEW k \in Mounted(p, d, f) \intersect s, d[k] # NoData
  PROVE  k \in Active \/ k \in Outdated(p, d, s, f)
BY DEF Outdated

(* Nothing but what is shown, or cached, is excused.                        *)
LEMMA OutdatedAreKeys ==
  ASSUME NEW p, NEW d, NEW s \in SUBSET Keys, NEW f
  PROVE  Outdated(p, d, s, f) \subseteq Keys
BY DEF Outdated

(* An answer reaches the cache.                                             *)
LEMMA ReceiveStep ==
  ASSUME BoardTypes, QueriesInv, NEW j \in Keys, Receive(j)
  PROVE  QueryTypes' /\ QueriesInv'
<1> DEFINE d == [data EXCEPT ![j] = flight[j].value]
           fl == [flight EXCEPT ![j] = NoFetch]
<1>0. QueryTypes
  BY QueriesTyped
<1>1. /\ flight[j].stage = "read"
      /\ data' = d /\ stale' = stale \ {j} /\ failed' = failed \ {j}
      /\ flight' = Mount(page, d, stale \ {j}, failed \ {j}, fl)
      /\ UNCHANGED <<status, matched, invited, page, muts>>
      /\ drift' = (IF flight[j].clean THEN drift \ {j} ELSE drift)
                  \union Outdated(page, d, stale \ {j}, failed \ {j})
  BY DEF Receive, Ends, server
<1>2. /\ d \in [Keys -> BoardData] /\ fl \in [Keys -> Queries]
      /\ \A k \in Keys : d[k] = IF k = j THEN flight[j].value ELSE data[k]
      /\ \A k \in Keys : fl[k] = IF k = j THEN NoFetch ELSE flight[k]
  <2>1. flight[j] \in Queries
    BY <1>0 DEF QueryTypes
  <2>2. flight[j].value \in BoardData
    BY <2>1 DEF Queries
  <2> QED
    BY <1>0, <2>2, NewQueries DEF QueryTypes
<1>3. \A k \in Keys : Server(k)' = Server(k) /\ Due(k)' = Due(k) /\ Awaited(k)' = Awaited(k)
  BY <1>1 DEF Server, Due, Awaited
<1> HIDE DEF d, fl
<1>4. ASSUME NEW k \in Keys
      PROVE  /\ k \in Active \ (failed \ {j}) /\ fl[k].stage = "none" => k \notin stale \ {j}
             /\ ~fl[k].clean => k \in drift'
             /\ fl[k].stage = "read" /\ fl[k].clean => fl[k].value = Server(k) \/ Due(k)
             /\ k \notin drift' \union (stale \ {j}) /\ d[k] # NoData => d[k] = Server(k) \/ Due(k)
  <2>1. /\ ~flight[k].clean => k \in drift
        /\ flight[k].stage = "read" /\ flight[k].clean => flight[k].value = Server(k) \/ Due(k)
        /\ k \notin drift \union stale /\ data[k] # NoData => data[k] = Server(k) \/ Due(k)
        /\ k \in Active \ failed /\ flight[k].stage = "none" => k \notin stale
    BY DEF QueriesInv
  <2>2. CASE k = j
    BY <1>1, <1>2, <2>1, <2>2, NewQueries
  <2>3. CASE k # j
    BY <1>1, <1>2, <2>1, <2>3
  <2> QED
    BY <2>2, <2>3
<1>5. /\ page' = page /\ page \in {"case", "list"} /\ drift' \in SUBSET Keys
      /\ stale \ {j} \in SUBSET Keys /\ failed \ {j} \in SUBSET Keys
  BY <1>0, <1>1, OutdatedAreKeys DEF QueryTypes
<1>6. ASSUME NEW k \in Keys, d[k] # NoData,
             k \in (Mounted(page, d, failed \ {j}) \intersect (stale \ {j}))
                     \ (drift' \union (failed \ {j}))
      PROVE  Awaited(k)'
  <2>1. k # j /\ k \in stale /\ k \notin drift \union failed /\ data[k] # NoData
    BY <1>1, <1>2, <1>6
  <2>2. k \in Active
    BY <1>1, <1>6, MountedBefore
  <2> QED
    BY <1>3, <2>1, <2>2 DEF QueriesInv
<1>7. /\ \A k \in Keys : k \in Active \ (failed \ {j}) /\ fl[k].stage = "none" => k \notin stale \ {j}
      /\ \A k \in Keys : ~fl[k].clean => k \in drift'
      /\ \A k \in Keys : fl[k].stage = "read" /\ fl[k].clean => fl[k].value = Server(k)' \/ Due(k)'
      /\ \A k \in Keys : k \notin drift' \union (stale \ {j}) /\ d[k] # NoData
                          => d[k] = Server(k)' \/ Due(k)'
  BY <1>3, <1>4
<1>8. \A k \in Keys : k \in (Mounted(page, d, failed \ {j}) \intersect (stale \ {j}))
                            \ (drift' \union (failed \ {j})) /\ d[k] # NoData
                     => Awaited(k)'
  BY <1>6
<1> DEFINE s == stale \ {j}
           f == failed \ {j}
<1>9. /\ data' = d /\ stale' = s /\ failed' = f /\ flight' = Mount(page, d, s, f, fl)
      /\ s \in SUBSET Keys /\ f \in SUBSET Keys
      /\ \A k \in Keys : k \in Active \ f /\ fl[k].stage = "none" => k \notin s
      /\ \A k \in Keys : k \notin drift' \union s /\ d[k] # NoData => d[k] = Server(k)' \/ Due(k)'
      /\ \A k \in Keys : k \in (Mounted(page, d, f) \intersect s) \ (drift' \union f) /\ d[k] # NoData
                         => Awaited(k)'
  BY <1>1, <1>5, <1>7, <1>8
<1> HIDE DEF s, f
<1> QED
  BY <1>0, <1>2, <1>5, <1>7, <1>9, MountStep

(* A fetch fails.                                                           *)
LEMMA FailStep ==
  ASSUME BoardTypes, QueriesInv, NEW j \in Keys, FetchFails(j)
  PROVE  QueryTypes' /\ QueriesInv'
<1> DEFINE fl == [flight EXCEPT ![j] = NoFetch]
<1>0. QueryTypes
  BY QueriesTyped
<1>1. /\ data' = data /\ stale' = stale /\ failed' = failed \union {j}
      /\ flight' = Mount(page, data, stale, failed \union {j}, fl)
      /\ UNCHANGED <<status, matched, invited, page, muts, drift>>
  BY DEF FetchFails, Ends, server
<1>2. fl \in [Keys -> Queries]
      /\ \A k \in Keys : fl[k] = IF k = j THEN NoFetch ELSE flight[k]
  BY <1>0, NewQueries DEF QueryTypes
<1>3. \A k \in Keys : Server(k)' = Server(k) /\ Due(k)' = Due(k) /\ Awaited(k)' = Awaited(k)
  BY <1>1 DEF Server, Due, Awaited
<1> HIDE DEF fl
<1>4. ASSUME NEW k \in Keys
      PROVE  /\ k \in Active \ (failed \union {j}) /\ fl[k].stage = "none" => k \notin stale
             /\ ~fl[k].clean => k \in drift'
             /\ fl[k].stage = "read" /\ fl[k].clean => fl[k].value = Server(k) \/ Due(k)
             /\ k \notin drift' \union stale /\ data[k] # NoData => data[k] = Server(k) \/ Due(k)
  <2>1. /\ ~flight[k].clean => k \in drift
        /\ flight[k].stage = "read" /\ flight[k].clean => flight[k].value = Server(k) \/ Due(k)
        /\ k \notin drift \union stale /\ data[k] # NoData => data[k] = Server(k) \/ Due(k)
        /\ k \in Active \ failed /\ flight[k].stage = "none" => k \notin stale
    BY DEF QueriesInv
  <2> QED
    BY <1>1, <1>2, <2>1, NewQueries
<1>5. /\ page' = page /\ page \in {"case", "list"} /\ drift' \in SUBSET Keys
      /\ stale \in SUBSET Keys /\ failed \union {j} \in SUBSET Keys /\ data \in [Keys -> BoardData]
  BY <1>0, <1>1 DEF QueryTypes
<1>6. ASSUME NEW k \in Keys, data[k] # NoData,
             k \in (Mounted(page, data, failed \union {j}) \intersect stale)
                     \ (drift' \union (failed \union {j}))
      PROVE  Awaited(k)'
  <2>1. k \in Active
    BY <1>6 DEF Active, Mounted
  <2> QED
    BY <1>1, <1>3, <1>6, <2>1 DEF QueriesInv
<1>7. /\ \A k \in Keys : k \in Active \ (failed \union {j}) /\ fl[k].stage = "none" => k \notin stale
      /\ \A k \in Keys : ~fl[k].clean => k \in drift'
      /\ \A k \in Keys : fl[k].stage = "read" /\ fl[k].clean => fl[k].value = Server(k)' \/ Due(k)'
      /\ \A k \in Keys : k \notin drift' \union stale /\ data[k] # NoData
                          => data[k] = Server(k)' \/ Due(k)'
  BY <1>3, <1>4
<1>8. \A k \in Keys : k \in (Mounted(page, data, failed \union {j}) \intersect stale)
                            \ (drift' \union (failed \union {j})) /\ data[k] # NoData
                     => Awaited(k)'
  BY <1>6
<1> DEFINE f == failed \union {j}
<1>9. /\ failed' = f /\ flight' = Mount(page, data, stale, f, fl)
      /\ data' = data /\ stale' = stale
      /\ f \in SUBSET Keys /\ drift' \in SUBSET Keys
      /\ \A k \in Keys : k \in Active \ f /\ fl[k].stage = "none" => k \notin stale
      /\ \A k \in Keys : k \in (Mounted(page, data, f) \intersect stale) \ (drift' \union f)
                         /\ data[k] # NoData => Awaited(k)'
  BY <1>0, <1>1, <1>5, <1>7, <1>8 DEF QueryTypes
<1> HIDE DEF f
<1> QED
  BY <1>0, <1>2, <1>5, <1>7, <1>9, MountStep

(* Letting go of a button changes neither what a mutation owes nor what it  *)
(* waits for.                                                               *)
LEMMA LetGo ==
  ASSUME \A m \in muts : m \in Mutations, muts' = {[m EXCEPT !.held = FALSE] : m \in muts}
  PROVE  \A k \in Keys : (Due(k)' <=> Due(k)) /\ (Awaited(k)' <=> Awaited(k))
<1> SUFFICES ASSUME NEW k \in Keys PROVE (Due(k)' <=> Due(k)) /\ (Awaited(k)' <=> Awaited(k))
  OBVIOUS
<1>1. ASSUME NEW m \in muts
      PROVE  /\ Owes([m EXCEPT !.held = FALSE], k) <=> Owes(m, k)
             /\ Awaits([m EXCEPT !.held = FALSE], k) <=> Awaits(m, k)
  BY DEF Owes, Awaits, Mutations
<1>2. /\ Due(k)' <=> \E m \in muts' : Owes(m, k)
      /\ Awaited(k)' <=> \E m \in muts' : Awaits(m, k)
  BY DEF Due, Owes, Awaited, Awaits
<1>3. \A m \in muts : [m EXCEPT !.held = FALSE] \in muts'
  OBVIOUS
<1>4. ASSUME NEW n \in muts' PROVE \E m \in muts : n = [m EXCEPT !.held = FALSE]
  OBVIOUS
<1>5. (Due(k) => Due(k)') /\ (Awaited(k) => Awaited(k)')
  BY <1>1, <1>2, <1>3 DEF Due, Awaited
<1>6. (Due(k)' => Due(k)) /\ (Awaited(k)' => Awaited(k))
  BY <1>1, <1>2, <1>4 DEF Due, Awaited
<1> QED
  BY <1>5, <1>6

(* The user follows a link to the list or to the case.                      *)
LEMMA FollowStep ==
  ASSUME BoardTypes, QueriesInv, NEW p \in {"case", "list"}, Follow(p)
  PROVE  QueryTypes' /\ QueriesInv'
<1>0. QueryTypes /\ \A m \in muts : m \in Mutations
  BY QueriesTyped DEF BoardTypes, Sound
<1>1. /\ page' = p /\ muts' = {[m EXCEPT !.held = FALSE] : m \in muts}
      /\ flight' = Mount(p, data, stale, failed, flight)
      /\ UNCHANGED <<status, matched, invited, data, stale, failed>>
      /\ drift' = drift \union Outdated(p, data, stale, failed)
  BY DEF Follow, server
<1>2. \A k \in Keys : Server(k)' = Server(k)
  BY <1>1 DEF Server
<1>3. \A k \in Keys : (Due(k)' <=> Due(k)) /\ (Awaited(k)' <=> Awaited(k))
  BY <1>0, <1>1, LetGo
<1>4. ASSUME NEW k \in Keys
      PROVE  /\ k \in Active \ failed /\ flight[k].stage = "none" => k \notin stale
             /\ ~flight[k].clean => k \in drift'
             /\ flight[k].stage = "read" /\ flight[k].clean => flight[k].value = Server(k)' \/ Due(k)'
             /\ k \notin drift' \union stale /\ data[k] # NoData => data[k] = Server(k)' \/ Due(k)'
  BY <1>1, <1>2, <1>3 DEF QueriesInv
<1>5. /\ drift' \in SUBSET Keys /\ stale \in SUBSET Keys /\ failed \in SUBSET Keys
      /\ data \in [Keys -> BoardData] /\ flight \in [Keys -> Queries]
  BY <1>0, <1>1, OutdatedAreKeys DEF QueryTypes
<1>6. ASSUME NEW k \in Keys, data[k] # NoData,
             k \in (Mounted(p, data, failed) \intersect stale) \ (drift' \union failed)
      PROVE  Awaited(k)'
  <2>1. k \in Active /\ k \notin drift
    BY <1>1, <1>6, MountedBefore
  <2> QED
    BY <1>3, <1>6, <2>1 DEF QueriesInv
<1> QED
  BY <1>0, <1>1, <1>4, <1>5, <1>6, MountStep

(* A fetch is sent, or read by the server. *)
LEMMA FetchStep ==
  ASSUME BoardTypes, QueriesInv, NEW j \in Keys, Read(j) \/ Refetch(j)
  PROVE  QueryTypes' /\ QueriesInv'
<1>0. QueryTypes /\ flight[j] \in Queries /\ Server(j) \in BoardData
  BY QueriesTyped, ServerTypes DEF QueryTypes
<1>1. PICK q \in Queries : /\ flight' = [flight EXCEPT ![j] = q] /\ q.stage # "none"
                           /\ ~q.clean => ~flight[j].clean
                           /\ q.stage = "read" => q.value = Server(j)
  <2>1. CASE Read(j)
    <3> DEFINE q == [flight[j] EXCEPT !.stage = "read", !.value = Server(j)]
    <3>1. q \in Queries /\ q.stage = "read" /\ q.value = Server(j) /\ q.clean = flight[j].clean
      BY <1>0 DEF Queries
    <3>2. flight' = [flight EXCEPT ![j] = q]
      BY <1>0, <2>1 DEF Read, QueryTypes
    <3> QED
      BY <3>1, <3>2
  <2>2. CASE Refetch(j)
    BY <2>2, NewQueries DEF Refetch
  <2> QED
    BY <2>1, <2>2
<1>2. UNCHANGED <<status, matched, invited, page, data, stale, failed, muts, drift>>
  BY DEF Read, Refetch, server
<1>3. /\ \A k \in Keys : Server(k)' = Server(k) /\ Due(k)' = Due(k) /\ Awaited(k)' = Awaited(k)
      /\ Active' = Active
  BY <1>2 DEF Server, Due, Awaited, Active, Mounted
<1>4. flight' \in [Keys -> Queries] /\ \A k \in Keys : flight'[k] = IF k = j THEN q ELSE flight[k]
  BY <1>0, <1>1 DEF QueryTypes
<1>5. QueryTypes'
  BY <1>0, <1>2, <1>4 DEF QueryTypes
<1>6. ASSUME NEW k \in Keys
      PROVE  /\ ~flight'[k].clean => k \in drift
             /\ flight'[k].stage = "read" /\ flight'[k].clean => flight'[k].value = Server(k) \/ Due(k)
             /\ k \notin drift \union stale /\ data[k] # NoData => data[k] = Server(k) \/ Due(k)
             /\ k \in Active \ failed /\ flight'[k].stage = "none" => k \notin stale
             /\ k \in (Active \intersect stale) \ (drift \union failed) /\ data[k] # NoData => Awaited(k)
  BY <1>1, <1>4 DEF QueriesInv
<1>7. QueriesInv'
  BY <1>2, <1>3, <1>6 DEF QueriesInv
<1> QED
  BY <1>5, <1>7

-----------------------------------------------------------------------------
(* The types, part by part. *)
MutTypes ==
  /\ \A m \in muts : Sound(m)
  /\ \A m1, m2 \in muts : m1.held /\ m2.held /\ m1.kind = m2.kind => m1 = m2

(* The part that is about the case at the server.                           *)
CaseTypes ==
  /\ status \in {"OPEN", "MATCHED", "CLOSED"}
  /\ matched \in Tutors \union {NoTutor} /\ invited \subseteq Tutors
  /\ status = "OPEN" => matched = NoTutor

(* The part that is about the bounds.                                       *)
BoundTypes == presses \in 0..MaxPresses /\ faults \in 0..MaxFaults /\ hasty \in BOOLEAN

(* The parts are the whole.                                                 *)
LEMMA TypesInParts == BoardTypes <=> QueryTypes /\ MutTypes /\ CaseTypes /\ BoundTypes
<1>1. ASSUME QueryTypes, MutTypes, CaseTypes, BoundTypes PROVE BoardTypes
  <2>1. \A m \in muts : m.kind \in Kinds /\ m.stage \in Stages /\ m.round \in 0..Len(Rounds(m.kind))
    BY <1>1 DEF MutTypes, Sound, Mutations
  <2>2. DOMAIN data = Keys /\ DOMAIN flight = Keys /\ stale \union failed \union drift \subseteq Keys
    BY <1>1 DEF QueryTypes
  <2> QED
    BY <1>1, <2>1, <2>2
    DEF BoardTypes, CaseBoardTypeOK, QueryTypes, MutTypes, CaseTypes, BoundTypes
<1>2. ASSUME BoardTypes PROVE QueryTypes /\ MutTypes /\ CaseTypes /\ BoundTypes
  BY <1>2, QueriesTyped DEF BoardTypes, CaseBoardTypeOK, MutTypes, CaseTypes, BoundTypes
<1> QED
  BY <1>1, <1>2

(* The parts are the whole after a step too.                                *)
LEMMA PartsAgain == QueryTypes' /\ MutTypes' /\ CaseTypes' /\ BoundTypes' => BoardTypes'
<1>1. (BoardTypes <=> QueryTypes /\ MutTypes /\ CaseTypes /\ BoundTypes)'
  BY TypesInParts, PTL
<1> QED
  BY <1>1

(* Nothing happens to the queries, no debt goes away, and what is on its    *)
(* way is awaited as before.                                                *)
LEMMA QuietStep ==
  ASSUME QueryTypes, QueriesInv, UNCHANGED <<server, page, queries>>,
         \A k \in Keys : Due(k) => Due(k)',
         \A k \in Keys : Awaited(k) => Awaited(k)' \/ flight[k].stage = "none"
  PROVE  QueryTypes' /\ QueriesInv'
<1>1. UNCHANGED <<status, matched, invited, page, data, flight, stale, failed, drift>>
  BY DEF server, queries
<1>2. Active' = Active /\ \A k \in Keys : Server(k)' = Server(k)
  BY <1>1 DEF Active, Mounted, Server
<1>3. QueryTypes'
  BY <1>1 DEF QueryTypes
<1>4. QueriesInv'
  BY <1>1, <1>2 DEF QueriesInv
<1> QED
  BY <1>3, <1>4

(* A mutation goes on as n, or is over. *)
LEMMA GoesOn ==
  ASSUME MutTypes, OffersInv, NEW m \in muts, NEW n,
         muts' \subseteq (muts \ {m}) \union {n},
         n \in muts' => Sound(n) /\ n.kind = m.kind /\ (n.held => m.held) /\ (n.sure => m.sure),
         n \in muts' /\ m.sure =>
           /\ n.stage # "refused"
           /\ n.stage \in {"sent", "late"} =>
                ~Refuses(n)' /\ (n.kind = "revoke" => status' = "OPEN")
  PROVE  MutTypes' /\ OffersInv'
<1>1. \A x \in muts' : x \in muts \ {m} \/ x = n
  OBVIOUS
<1>2. MutTypes'
  <2>1. \A x \in muts' : Sound(x)
    BY <1>1 DEF MutTypes
  <2>2. ASSUME NEW x \in muts', NEW y \in muts', x.held, y.held, x.kind = y.kind PROVE x = y
    BY <1>1, <2>2 DEF MutTypes
  <2>3. \A x : Sound(x)' <=> Sound(x)
    BY DEF Sound
  <2> QED
    BY <2>1, <2>2, <2>3 DEF MutTypes
<1>3. ASSUME NEW x \in muts', x.sure
      PROVE  /\ muts' = {x} /\ x.stage # "refused"
             /\ x.stage \in {"sent", "late"} =>
                  ~Refuses(x)' /\ (x.kind = "revoke" => status' = "OPEN")
  <2>1. x = n
    <3> SUFFICES ASSUME x \in muts \ {m} PROVE FALSE
      BY <1>1
    <3> QED
      BY <1>3 DEF OffersInv
  <2>2. m.sure
    BY <1>3, <2>1
  <2>3. muts = {m}
    BY <2>2 DEF OffersInv
  <2>4. muts' = {n}
    BY <2>1, <2>3
  <2> QED
    BY <2>1, <2>2, <2>4
<1>4. OffersInv'
  BY <1>3 DEF OffersInv
<1> QED
  BY <1>2, <1>4

(* A debt outlives a step of its mutation that does not pay it.             *)
LEMMA DebtGoesOn ==
  ASSUME NEW m \in muts, NEW n, muts' = (muts \ {m}) \union {n}, NEW k,
         Owes(m, k) => Owes(n, k)
  PROVE  Due(k) => Due(k)'
<1>1. \A x : Owes(x, k)' <=> Owes(x, k)
  BY DEF Owes
<1> QED
  BY <1>1 DEF Due

(* What m waits for is awaited still if n waits for it, or it has come.     *)
LEMMA WaitGoesOn ==
  ASSUME NEW m \in muts, NEW n, muts \ {m} \subseteq muts', NEW k,
         Awaits(m, k) => (n \in muts' /\ Awaits(n, k)) \/ flight[k].stage = "none"
  PROVE  Awaited(k) => Awaited(k)' \/ flight[k].stage = "none"
<1>1. \A x : Awaits(x, k)' <=> Awaits(x, k)
  BY DEF Awaits
<1> QED
  BY <1>1 DEF Awaited

(* The server runs a request. *)
LEMMA ServeStep ==
  ASSUME BoardInv, NEW m \in muts, Serve(m)
  PROVE  BoardInv'
<1>1. /\ QueryTypes /\ MutTypes /\ CaseTypes /\ BoundTypes
      /\ QueriesInv /\ OffersInv /\ MatchedStaysInvited
  BY TypesInParts DEF BoardInv
<1>2. /\ m \in Mutations /\ Sound(m) /\ m.stage \in {"sent", "late"}
      /\ hasty' = (hasty \/ (m.kind = "revoke" /\ ~m.sure))
      /\ UNCHANGED <<page, presses, faults>>
      /\ IF Refuses(m) THEN UNCHANGED <<status, matched, invited>> ELSE Apply(m)
  BY <1>1 DEF Serve, MutTypes, Sound, server, bounds
<1>3. CaseTypes'
  <2>1. CASE Refuses(m)
    BY <1>1, <1>2, <2>1 DEF CaseTypes
  <2>2. CASE ~Refuses(m)
    <3>1. m.tutor \in Tutors \/ m.kind = "close"
      BY <1>2 DEF Sound, Mutations
    <3> QED
      BY <1>1, <1>2, <2>2, <3>1 DEF CaseTypes, Apply
  <2> QED
    BY <2>1, <2>2
<1>4. BoundTypes'
  BY <1>1, <1>2 DEF BoundTypes
<1>5. MatchedStaysInvited'
  <2> SUFFICES ASSUME ~hasty' PROVE matched' \in invited' \union {NoTutor}
    BY DEF MatchedStaysInvited
  <2>1. ~hasty /\ (m.kind = "revoke" => m.sure) /\ matched \in invited \union {NoTutor}
    BY <1>1, <1>2 DEF MatchedStaysInvited
  <2>2. CASE Refuses(m)
    BY <1>2, <2>1, <2>2
  <2>3. CASE ~Refuses(m) /\ m.kind = "revoke"
    <3>1. status = "OPEN"
      BY <1>1, <1>2, <2>1, <2>3 DEF OffersInv
    <3> QED
      BY <1>1, <1>2, <2>3, <3>1 DEF CaseTypes, Apply
  <2>4. CASE ~Refuses(m) /\ m.kind # "revoke"
    BY <1>2, <2>1, <2>4 DEF Apply, Refuses
  <2> QED
    BY <2>2, <2>3, <2>4
<1>8. ASSUME NEW k \in Keys \ Changes(m.kind) PROVE Server(k)' = Server(k)
  <2>1. CASE Refuses(m)
    BY <1>2, <2>1 DEF Server
  <2>2. CASE ~Refuses(m) /\ m.kind \in {"accept", "close"}
    <3>1. k \notin {"case", "cases"} /\ invited' = invited
      BY <1>2, <2>2 DEF Changes, Apply
    <3> QED
      BY <3>1 DEF Server
  <2>3. CASE ~Refuses(m) /\ m.kind \notin {"accept", "close"}
    <3>1. k \notin {"invites", "recommendations"} /\ status' = status /\ matched' = matched
      BY <1>2, <2>3 DEF Changes, Apply
    <3>2. k \in {"case", "cases"}
      BY <3>1 DEF Keys
    <3> QED
      BY <3>1, <3>2 DEF Server
  <2> QED
    BY <2>1, <2>2, <2>3
<1>6. CASE m.stage = "sent" /\ (Refuses(m) \/ m.kind # "revoke")
  <2>0. PICK n : n = [m EXCEPT !.stage = IF Refuses(m) THEN "refused" ELSE "ok"]
    OBVIOUS
  <2>1. /\ muts' = (muts \ {m}) \union {n}
        /\ UNCHANGED <<data, flight, stale, failed, drift>>
    BY <1>6, <2>0 DEF Serve, queries, Outcome
  <2>2. /\ n \in Mutations /\ n.kind = m.kind /\ n.tutor = m.tutor /\ n.round = m.round
        /\ n.held = m.held /\ n.sure = m.sure
        /\ n.stage = IF Refuses(m) THEN "refused" ELSE "ok"
    BY <1>2, <2>0 DEF Mutations, Stages
  <2>3. m.round = 0
    BY <1>2, <1>6 DEF Sound
  <2>4. Sound(n)
    BY <1>2, <2>2, <2>3 DEF Sound
  <2>5. MutTypes' /\ OffersInv'
    <3>1. m.sure => ~Refuses(m)
      BY <1>1, <1>6 DEF OffersInv
    <3>2. m.sure => n.stage # "refused" /\ n.stage \notin {"sent", "late"}
      BY <2>2, <3>1
    <3> QED
      BY <1>1, <2>1, <2>2, <2>4, <3>2, GoesOn
  <2>a. ASSUME NEW k \in Keys PROVE Awaited(k) => Awaited(k)' \/ flight[k].stage = "none"
    <3>1. ~Awaits(m, k)
      BY <1>6 DEF Awaits
    <3> QED
      BY <2>1, <3>1, WaitGoesOn
  <2>6. ASSUME NEW k \in Keys PROVE (Due(k) => Due(k)') /\ (Server(k)' = Server(k) \/ Due(k)')
    <3>1. Due(k) => Due(k)'
      <4>1. ~Owes(m, k)
        BY <1>6 DEF Owes
      <4> QED
        BY <2>1, <4>1, DebtGoesOn
    <3>2. Server(k)' = Server(k) \/ Due(k)'
      <4>1. CASE Refuses(m)
        BY <1>2, <4>1 DEF Server
      <4>2. CASE ~Refuses(m) /\ k \in Changes(m.kind)
        <5>1. k # "cases" \/ m.kind \in {"accept", "close"}
          BY <4>2 DEF Changes
        <5>2. Len(Rounds(m.kind)) \in Nat \ {0} /\ \E i \in 1..Len(Rounds(m.kind)) : k \in Rounds(m.kind)[i]
          BY <1>2, <5>1, RoundsReach DEF Mutations
        <5>3. Owes(n, k)
          BY <2>2, <2>3, <4>2, <5>2 DEF Owes
        <5> QED
          BY <2>1, <5>3 DEF Due, Owes
      <4>3. CASE k \notin Changes(m.kind)
        BY <1>8, <4>3
      <4> QED
        BY <4>1, <4>2, <4>3
    <3> QED
      BY <3>1, <3>2
  <2>7. QueryTypes'
    BY <1>1, <1>2, <2>1 DEF QueryTypes
  <2>8. QueriesInv'
    <3>1. Active' = Active
      BY <1>2, <2>1 DEF Active, Mounted
    <3> QED
      BY <1>1, <2>1, <2>6, <2>a, <3>1 DEF QueriesInv
  <2> QED
    BY <1>3, <1>4, <1>5, <2>5, <2>7, <2>8, PartsAgain DEF BoardInv
<1>7. ASSUME NEW n, muts' = (muts \ {m}) \union {n} \/ muts' = muts \ {m},
             n \in muts' => Sound(n) /\ n.kind = m.kind /\ n.held = m.held /\ n.sure = m.sure
                             /\ n.stage = "thrown",
             UNCHANGED <<queries, status, matched, invited>> \/ Untold(Changes(m.kind))
      PROVE  BoardInv'
  <2>1. MutTypes' /\ OffersInv'
    BY <1>1, <1>7, GoesOn
  <2>2. ASSUME NEW k \in Keys
        PROVE  /\ Due(k) => Due(k)'
               /\ Awaited(k) => Awaited(k)' \/ flight[k].stage = "none"
    <3>1. ~Owes(m, k) /\ ~Awaits(m, k)
      BY <1>2 DEF Owes, Awaits
    <3>2. muts \ {m} \subseteq muts'
      BY <1>7
    <3> QED
      BY <3>1, <3>2 DEF Due, Awaited, Owes, Awaits
  <2>3. QueryTypes' /\ QueriesInv'
    <3>1. CASE UNCHANGED <<queries, status, matched, invited>>
      <4>1. UNCHANGED <<server, page, queries>>
        BY <1>2, <3>1 DEF server
      <4> QED
        BY <1>1, <2>2, <4>1, QuietStep
    <3>2. CASE Untold(Changes(m.kind))
      <4> DEFINE ks == Changes(m.kind)
      <4>1. ks \in SUBSET Keys /\ Untold(ks) /\ \A k \in Keys \ ks : Server(k)' = Server(k)
        BY <1>8, <3>2 DEF Changes, Keys
      <4> HIDE DEF ks
      <4> QED
        BY <1>1, <1>2, <2>2, <4>1, UntoldStep
    <3> QED
      BY <1>7, <3>1, <3>2
  <2> QED
    BY <1>3, <1>4, <1>5, <2>1, <2>3, PartsAgain DEF BoardInv
<1>9. CASE m.stage = "sent" /\ ~Refuses(m) /\ m.kind = "revoke"
  <2>1. PICK n : n = [m EXCEPT !.stage = "thrown"]
    OBVIOUS
  <2>2. muts' = (muts \ {m}) \union {n} /\ Untold(Changes(m.kind))
    BY <1>9, <2>1 DEF Serve, Outcome
  <2>3. /\ n \in Mutations /\ n.kind = m.kind /\ n.tutor = m.tutor /\ n.round = m.round
        /\ n.held = m.held /\ n.sure = m.sure /\ n.stage = "thrown"
    BY <1>2, <2>1 DEF Mutations, Stages
  <2>4. Sound(n)
    BY <1>2, <1>9, <2>3 DEF Sound
  <2> QED
    BY <1>7, <2>2, <2>3, <2>4
<1>10. CASE m.stage = "late"
  <2>1. muts' = muts \ {m} /\ m \notin muts'
    BY <1>10 DEF Serve
  <2>2. UNCHANGED <<queries, status, matched, invited>> \/ Untold(Changes(m.kind))
    BY <1>2, <1>10 DEF Serve
  <2> QED
    BY <1>7, <2>1, <2>2
<1> QED
  BY <1>2, <1>6, <1>9, <1>10

(* The steps of a mutation after its answer. *)
LEMMA SettleStep ==
  ASSUME BoardInv, NEW m \in muts, Answered(m) \/ NextRound(m) \/ Rejected(m)
  PROVE  BoardInv'
<1>1. /\ QueryTypes /\ MutTypes /\ CaseTypes /\ BoundTypes
      /\ QueriesInv /\ OffersInv /\ MatchedStaysInvited
  BY TypesInParts DEF BoardInv
<1>2. /\ m \in Mutations /\ Sound(m) /\ m.kind \in Kinds
      /\ Len(Rounds(m.kind)) \in Nat \ {0} /\ m.round \in Nat
      /\ \A i \in 1..Len(Rounds(m.kind)) : Rounds(m.kind)[i] \in SUBSET Keys
  BY <1>1, RoundsReach DEF MutTypes, Sound, Mutations
<1>3. UNCHANGED <<status, matched, invited, page, presses, faults, hasty>>
  BY DEF Answered, NextRound, Rejected, server, bounds
<1>4. CaseTypes' /\ BoundTypes' /\ MatchedStaysInvited'
  BY <1>1, <1>3 DEF CaseTypes, BoundTypes, MatchedStaysInvited
<1>5. ASSUME NEW n, muts' = (muts \ {m}) \union {n}, n.stage = "settling", n.round = m.round + 1,
             n.held => m.held, n \in Mutations, n.kind = m.kind, n.tutor = m.tutor, n.sure = m.sure,
             m.round < Len(Rounds(m.kind)), m.stage \in {"ok", "settling"},
             \A k \in Keys : Awaits(m, k) => flight[k].stage = "none",
             Invalidate(Rounds(m.kind)[m.round + 1])
      PROVE  BoardInv'
  <2> DEFINE ks == Rounds(m.kind)[m.round + 1]
  <2>1. ks \in SUBSET Keys
    BY <1>2, <1>5
  <2>2. Sound(n)
    BY <1>2, <1>5 DEF Sound
  <2>3. MutTypes' /\ OffersInv'
    <3>1. n.stage # "refused" /\ n.stage \notin {"sent", "late"}
      BY <1>5
    <3> QED
      BY <1>1, <1>5, <2>2, <3>1, GoesOn
  <2>4. ASSUME NEW k \in Keys \ ks PROVE Due(k) => Due(k)'
    <3>1. ASSUME Owes(m, k) PROVE Owes(n, k)
      <4>1. PICK i \in m.round + 1..Len(Rounds(m.kind)) : k \in Rounds(m.kind)[i]
        BY <3>1 DEF Owes
      <4>2. i # m.round + 1
        BY <2>4, <4>1
      <4>3. i \in n.round + 1..Len(Rounds(n.kind))
        BY <1>2, <1>5, <4>1, <4>2
      <4>4. k \in Changes(n.kind)
        BY <1>5, <3>1 DEF Owes
      <4> QED
        BY <1>5, <4>1, <4>3, <4>4 DEF Owes
    <3> QED
      BY <1>5, <3>1, DebtGoesOn
  <2>5. QueryTypes' /\ QueriesInv'
    <3>1. UNCHANGED <<server, page>>
      BY <1>3 DEF server
    <3>3. \A k \in ks : Awaited(k)'
      BY <1>5 DEF Awaited, Awaits
    <3>4. ASSUME NEW k \in Keys PROVE Awaited(k) => Awaited(k)' \/ flight[k].stage = "none"
      BY <1>5, WaitGoesOn
    <3> HIDE DEF ks
    <3>2. Invalidate(ks)
      BY <1>5 DEF ks
    <3> QED
      BY <1>1, <2>1, <2>4, <3>1, <3>2, <3>3, <3>4, InvalidateStep
  <2> QED
    BY <1>4, <2>3, <2>5, PartsAgain DEF BoardInv
<1>6. CASE Answered(m)
  <2>1. PICK n : n = [m EXCEPT !.stage = "settling", !.round = 1, !.held = m.held /\ m.kind # "close"]
    OBVIOUS
  <2>2. /\ muts' = (muts \ {m}) \union {n} /\ m.stage = "ok"
        /\ Invalidate(Rounds(m.kind)[1])
    BY <1>6, <2>1 DEF Answered
  <2>3. m.round = 0
    BY <1>2, <2>2 DEF Sound
  <2>4. /\ n.stage = "settling" /\ n.round = 1 /\ (n.held => m.held)
        /\ n \in Mutations /\ n.kind = m.kind /\ n.tutor = m.tutor /\ n.sure = m.sure
    BY <1>2, <2>1 DEF Mutations, Stages
  <2>5. m.round + 1 = 1 /\ m.round < Len(Rounds(m.kind))
    BY <1>2, <2>3
  <2>6. \A k \in Keys : ~Awaits(m, k)
    BY <2>2 DEF Awaits
  <2> QED
    BY <1>5, <2>2, <2>3, <2>4, <2>5, <2>6
<1>7. CASE NextRound(m) /\ m.round < Len(Rounds(m.kind))
  <2>1. PICK n : n = [m EXCEPT !.round = @ + 1]
    OBVIOUS
  <2>2. /\ muts' = (muts \ {m}) \union {n} /\ m.stage = "settling"
        /\ Invalidate(Rounds(m.kind)[m.round + 1])
        /\ \A k \in Rounds(m.kind)[m.round] : flight[k].stage = "none"
    BY <1>7, <2>1 DEF NextRound
  <2>3. /\ n.stage = "settling" /\ n.round = m.round + 1 /\ n.held = m.held
        /\ n \in Mutations /\ n.kind = m.kind /\ n.tutor = m.tutor /\ n.sure = m.sure
    BY <1>2, <2>1, <2>2 DEF Mutations, Stages
  <2>4. \A k \in Keys : Awaits(m, k) => flight[k].stage = "none"
    BY <2>2 DEF Awaits
  <2> QED
    BY <1>5, <1>7, <2>2, <2>3, <2>4
<1>8. ASSUME muts' = muts \ {m}, UNCHANGED queries, \A k \in Keys : ~Owes(m, k),
             \A k \in Keys : Awaits(m, k) => flight[k].stage = "none"
      PROVE  BoardInv'
  <2>1. MutTypes' /\ OffersInv'
    <3>1. muts' \subseteq (muts \ {m}) \union {m} /\ m \notin muts'
      BY <1>8
    <3> QED
      BY <1>1, <3>1, GoesOn
  <2>2. ASSUME NEW k \in Keys PROVE Due(k) => Due(k)'
    BY <1>8 DEF Due, Owes
  <2>4. ASSUME NEW k \in Keys PROVE Awaited(k) => Awaited(k)' \/ flight[k].stage = "none"
    BY <1>8, WaitGoesOn
  <2>3. QueryTypes' /\ QueriesInv'
    <3>1. UNCHANGED <<server, page, queries>>
      BY <1>3, <1>8 DEF server
    <3> QED
      BY <1>1, <2>2, <2>4, <3>1, QuietStep
  <2> QED
    BY <1>4, <2>1, <2>3, PartsAgain DEF BoardInv
<1>9. CASE NextRound(m) /\ ~(m.round < Len(Rounds(m.kind)))
  <2>1. muts' = muts \ {m} /\ UNCHANGED queries
    BY <1>9 DEF NextRound
  <2>2. /\ \A k \in Keys : ~Owes(m, k)
        /\ \A k \in Keys : Awaits(m, k) => flight[k].stage = "none"
    BY <1>2, <1>9 DEF Owes, Awaits, NextRound
  <2> QED
    BY <1>8, <2>1, <2>2
<1>10. CASE Rejected(m)
  <2>1. muts' = muts \ {m} /\ UNCHANGED queries /\ m.stage \in {"refused", "thrown"}
    BY <1>10 DEF Rejected
  <2>2. \A k \in Keys : ~Owes(m, k) /\ ~Awaits(m, k)
    BY <2>1 DEF Owes, Awaits
  <2> QED
    BY <1>8, <2>1, <2>2
<1> QED
  BY <1>6, <1>7, <1>9, <1>10

(* The connection of a mutation is lost. *)
LEMMA LostStep ==
  ASSUME BoardInv, NEW m \in muts, Lost(m)
  PROVE  BoardInv'
<1>1. /\ QueryTypes /\ MutTypes /\ CaseTypes /\ BoundTypes
      /\ QueriesInv /\ OffersInv /\ MatchedStaysInvited
  BY TypesInParts DEF BoardInv
<1>2. /\ m \in Mutations /\ Sound(m)
      /\ UNCHANGED <<status, matched, invited, page, presses, hasty>>
      /\ faults < MaxFaults /\ faults' = faults + 1
  BY <1>1 DEF Lost, Fault, MutTypes, Sound, server
<1>3. CaseTypes' /\ MatchedStaysInvited'
  BY <1>1, <1>2 DEF CaseTypes, MatchedStaysInvited
<1>4. BoundTypes'
  BY <1>1, <1>2, BoardConstants DEF BoundTypes
<1>5. CASE m.stage = "sent"
  <2>1. PICK n : n = [m EXCEPT !.stage = "late", !.held = FALSE]
    OBVIOUS
  <2>2. muts' = (muts \ {m}) \union {n} /\ UNCHANGED queries
    BY <1>5, <2>1 DEF Lost
  <2>3. /\ n.stage = "late" /\ ~n.held /\ n.round = m.round
        /\ n \in Mutations /\ n.kind = m.kind /\ n.tutor = m.tutor /\ n.sure = m.sure
    BY <1>2, <2>1 DEF Mutations, Stages
  <2>4. Sound(n)
    BY <1>2, <1>5, <2>3 DEF Sound
  <2>5. MutTypes' /\ OffersInv'
    <3>1. m.sure => ~Refuses(m) /\ (m.kind = "revoke" => status = "OPEN")
      BY <1>1, <1>5 DEF OffersInv
    <3>2. Refuses(n)' <=> Refuses(m)
      BY <1>2, <2>3 DEF Refuses
    <3> QED
      BY <1>1, <1>2, <2>2, <2>3, <2>4, <3>1, <3>2, GoesOn
  <2>6. ASSUME NEW k \in Keys
        PROVE  /\ Due(k) => Due(k)'
               /\ Awaited(k) => Awaited(k)' \/ flight[k].stage = "none"
    <3>1. ~Owes(m, k) /\ ~Awaits(m, k)
      BY <1>5 DEF Owes, Awaits
    <3> QED
      BY <2>2, <3>1, DebtGoesOn, WaitGoesOn
  <2>7. QueryTypes' /\ QueriesInv'
    <3>1. UNCHANGED <<server, page, queries>>
      BY <1>2, <2>2 DEF server
    <3> QED
      BY <1>1, <2>6, <3>1, QuietStep
  <2> QED
    BY <1>3, <1>4, <2>5, <2>7, PartsAgain DEF BoardInv
<1>6. CASE m.stage # "sent"
  <2> DEFINE ks == Changes(m.kind)
  <2>1. muts' = muts \ {m} /\ Untold(ks) /\ m.stage = "ok" /\ ks \in SUBSET Keys
    BY <1>6 DEF Lost, Changes, Keys
  <2>4. ASSUME NEW k \in Keys
        PROVE  /\ k \notin ks => Server(k)' = Server(k) /\ (Due(k) => Due(k)')
               /\ Awaited(k) => Awaited(k)' \/ flight[k].stage = "none"
    <3>1. (k \notin ks => ~Owes(m, k)) /\ ~Awaits(m, k)
      BY <2>1 DEF Owes, Awaits
    <3>2. Server(k)' = Server(k)
      BY <1>2, <2>1 DEF Server
    <3> HIDE DEF ks
    <3> QED
      BY <2>1, <3>1, <3>2 DEF Due, Awaited, Owes, Awaits
  <2> HIDE DEF ks
  <2>2. QueryTypes' /\ QueriesInv'
    BY <1>1, <1>2, <2>1, <2>4, UntoldStep
  <2>3. MutTypes' /\ OffersInv'
    <3>1. muts' \subseteq (muts \ {m}) \union {m} /\ m \notin muts'
      BY <2>1
    <3> QED
      BY <1>1, <3>1, GoesOn
  <2> QED
    BY <1>3, <1>4, <2>2, <2>3, PartsAgain DEF BoardInv
<1> QED
  BY <1>5, <1>6

(* What a page that missed nothing offers is granted.                       *)
LEMMA SureOffers ==
  ASSUME BoardTypes, QueriesInv, NEW kind \in Kinds, NEW t \in Tutors \union {NoTutor},
         Offered(kind, t), Sure
  PROVE  /\ kind \in {"revoke", "accept"} => t \in invited /\ matched = NoTutor
         /\ kind = "revoke" => status = "OPEN"
<1> SUFFICES ASSUME kind \in {"revoke", "accept"}
             PROVE  t \in invited /\ matched = NoTutor /\ status = "OPEN"
  OBVIOUS
<1>1. Unlocked /\ data["invites"] # NoData /\ t \in data["invites"]
  BY DEF Offered
<1>2. page # "list" /\ data["case"] # NoData /\ "case" \notin failed
      /\ data["case"].status = "OPEN"
  <2>1. "recommendations" \in Active
    BY <1>1 DEF Unlocked
  <2> QED
    BY <2>1 DEF Active, Mounted
<1>3. "case" \in Active /\ "invites" \in Active
  BY <1>2 DEF Active, Mounted
<1>4. \A k \in Keys : ~Due(k) /\ ~Awaited(k) /\ k \notin drift \union failed
  BY DEF Sure, Due, Awaited
<1>5. "case" \in Keys /\ "invites" \in Keys /\ "case" \notin stale /\ "invites" \notin stale
  BY <1>1, <1>2, <1>3, <1>4 DEF Keys, QueriesInv
<1>6. data["case"] = Server("case") /\ data["invites"] = Server("invites")
  BY <1>1, <1>2, <1>4, <1>5 DEF QueriesInv
<1>7. Server("case") = [status |-> status, matched |-> matched] /\ Server("invites") = invited
  BY DEF Server
<1>8. status = "OPEN"
  BY <1>2, <1>6, <1>7
<1> QED
  BY <1>1, <1>6, <1>7, <1>8 DEF BoardTypes

(* A button is pressed. *)
LEMMA PressStep ==
  ASSUME BoardInv, NEW kind \in Kinds, NEW t \in Tutors \union {NoTutor},
         t = NoTutor <=> kind = "close", Press(kind, t)
  PROVE  BoardInv'
<1>1. /\ QueryTypes /\ MutTypes /\ CaseTypes /\ BoundTypes
      /\ QueriesInv /\ OffersInv /\ MatchedStaysInvited /\ BoardTypes
  BY TypesInParts DEF BoardInv
<1>2. PICK n : n = [kind |-> kind, tutor |-> t, stage |-> "sent", round |-> 0,
                    held |-> TRUE, sure |-> Sure]
  OBVIOUS
<1>3. /\ muts' = {[m EXCEPT !.sure = FALSE] : m \in muts} \union {n}
      /\ Offered(kind, t) /\ ~Pending(kind)
      /\ presses < MaxPresses /\ presses' = presses + 1
      /\ UNCHANGED <<status, matched, invited, page, queries, faults, hasty>>
  BY <1>2 DEF Press, server
<1>4. CaseTypes' /\ MatchedStaysInvited'
  BY <1>1, <1>3 DEF CaseTypes, MatchedStaysInvited
<1>5. BoundTypes'
  BY <1>1, <1>3, BoardConstants DEF BoundTypes
<1>6. ASSUME NEW m \in muts
      PROVE  /\ [m EXCEPT !.sure = FALSE] \in Mutations /\ ~[m EXCEPT !.sure = FALSE].sure
             /\ [m EXCEPT !.sure = FALSE].kind = m.kind /\ [m EXCEPT !.sure = FALSE].tutor = m.tutor
             /\ [m EXCEPT !.sure = FALSE].stage = m.stage
             /\ [m EXCEPT !.sure = FALSE].round = m.round
             /\ [m EXCEPT !.sure = FALSE].held = m.held
             /\ Sound(m) /\ [m EXCEPT !.sure = FALSE] \in muts'
  BY <1>1, <1>3 DEF MutTypes, Sound, Mutations
<1>7. ASSUME NEW x \in muts', x # n
      PROVE  \E m \in muts : x = [m EXCEPT !.sure = FALSE]
  BY <1>3, <1>7
<1>8. /\ n \in Mutations /\ n.kind = kind /\ n.tutor = t /\ n.stage = "sent" /\ n.round = 0
      /\ n.held /\ (n.sure <=> Sure) /\ Len(Rounds(kind)) \in Nat
  <2>1. Sure \in BOOLEAN
    BY DEF Sure
  <2> QED
    BY <1>2, <2>1, RoundsReach DEF Mutations, Stages
<1>9. MutTypes'
  <2>1. Sound(n)
    BY <1>8 DEF Sound
  <2>2. \A x \in muts' : Sound(x)
    <3> SUFFICES ASSUME NEW x \in muts', x # n PROVE Sound(x)
      BY <2>1
    <3>1. PICK m \in muts : x = [m EXCEPT !.sure = FALSE]
      BY <1>7
    <3> QED
      BY <1>6, <3>1 DEF Sound
  <2>3. ASSUME NEW x \in muts', NEW y \in muts', x.held, y.held, x.kind = y.kind PROVE x = y
    <3>1. ASSUME NEW z \in muts', z # n, z.held PROVE z.kind # kind
      <4>1. PICK m \in muts : z = [m EXCEPT !.sure = FALSE]
        BY <1>7, <3>1
      <4>2. m.held /\ m.kind = z.kind
        BY <1>6, <3>1, <4>1
      <4> QED
        BY <1>3, <4>2 DEF Pending
    <3>2. CASE x # n /\ y # n
      <4>1. PICK a \in muts : x = [a EXCEPT !.sure = FALSE]
        BY <1>7, <3>2
      <4>2. PICK b \in muts : y = [b EXCEPT !.sure = FALSE]
        BY <1>7, <3>2
      <4>3. a = b
        BY <1>1, <1>6, <2>3, <4>1, <4>2 DEF MutTypes
      <4> QED
        BY <4>1, <4>2, <4>3
    <3> QED
      BY <1>8, <2>3, <3>1, <3>2
  <2> QED
    BY <2>2, <2>3 DEF MutTypes, Sound
<1>10. OffersInv'
  <2> SUFFICES ASSUME NEW x \in muts', x.sure
               PROVE  /\ muts' = {x} /\ x.stage # "refused"
                      /\ ~Refuses(x)' /\ (x.kind = "revoke" => status' = "OPEN")
    BY DEF OffersInv
  <2>1. x = n
    BY <1>6, <1>7
  <2>2. Sure /\ muts = {}
    BY <1>8, <2>1 DEF Sure
  <2>3. muts' = {n}
    BY <1>3, <2>2
  <2>4. /\ kind \in {"revoke", "accept"} => t \in invited /\ matched = NoTutor
        /\ kind = "revoke" => status = "OPEN"
    BY <1>1, <1>3, <2>2, SureOffers
  <2>5. ~Refuses(n)'
    BY <1>3, <1>8, <2>4 DEF Refuses
  <2> QED
    BY <1>3, <1>8, <2>1, <2>3, <2>4, <2>5
<1>11. ASSUME NEW k \in Keys PROVE (Due(k) => Due(k)') /\ (Awaited(k) => Awaited(k)')
  <2>1. ASSUME NEW m \in muts
        PROVE  /\ Owes(m, k) => Owes([m EXCEPT !.sure = FALSE], k)
               /\ Awaits(m, k) => Awaits([m EXCEPT !.sure = FALSE], k)
    BY <1>6 DEF Owes, Awaits
  <2>2. /\ Due(k)' <=> \E m \in muts' : Owes(m, k)
        /\ Awaited(k)' <=> \E m \in muts' : Awaits(m, k)
    BY DEF Due, Owes, Awaited, Awaits
  <2> QED
    BY <1>6, <2>1, <2>2 DEF Due, Awaited
<1>12. QueryTypes' /\ QueriesInv'
  <2>1. UNCHANGED <<server, page, queries>>
    BY <1>3 DEF server
  <2> QED
    BY <1>1, <1>11, <2>1, QuietStep
<1> QED
  BY <1>4, <1>5, <1>9, <1>10, <1>12, PartsAgain DEF BoardInv

(* The queries change, or the page.                                         *)
LEMMA ReadingStep ==
  ASSUME BoardInv,
         \/ \E k \in Keys : Read(k) \/ Receive(k) \/ FetchFails(k) \/ Refetch(k)
         \/ \E p \in {"case", "list"} : Follow(p)
  PROVE  BoardInv'
<1>1. /\ QueryTypes /\ MutTypes /\ CaseTypes /\ BoundTypes
      /\ QueriesInv /\ OffersInv /\ MatchedStaysInvited /\ BoardTypes
  BY TypesInParts DEF BoardInv
<1>2. QueryTypes' /\ QueriesInv'
  BY <1>1, FetchStep, ReceiveStep, FailStep, FollowStep
<1>3. /\ UNCHANGED <<status, matched, invited, presses, hasty>>
      /\ faults' = faults \/ (faults < MaxFaults /\ faults' = faults + 1)
      /\ muts' = muts \/ muts' = {[m EXCEPT !.held = FALSE] : m \in muts}
  BY DEF Read, Receive, FetchFails, Refetch, Follow, Ends, Fault, server, bounds
<1>4. CaseTypes' /\ MatchedStaysInvited'
  BY <1>1, <1>3 DEF CaseTypes, MatchedStaysInvited
<1>5. BoundTypes'
  BY <1>1, <1>3, BoardConstants DEF BoundTypes
<1>6. CASE muts' = muts
  <2>1. MutTypes'
    BY <1>1, <1>6 DEF MutTypes, Sound
  <2>2. OffersInv'
    BY <1>1, <1>3, <1>6 DEF OffersInv, Refuses
  <2> QED
    BY <1>2, <1>4, <1>5, <2>1, <2>2, PartsAgain DEF BoardInv
<1>7. CASE muts' = {[m EXCEPT !.held = FALSE] : m \in muts}
  <2>1. ASSUME NEW m \in muts
        PROVE  LET n == [m EXCEPT !.held = FALSE]
               IN  /\ Sound(n) /\ ~n.held /\ n.sure = m.sure /\ n.stage = m.stage
                   /\ n.kind = m.kind /\ n.tutor = m.tutor
    BY <1>1 DEF MutTypes, Sound, Mutations
  <2>2. ASSUME NEW n \in muts' PROVE \E m \in muts : n = [m EXCEPT !.held = FALSE]
    BY <1>7
  <2>3. MutTypes'
    <3>1. \A n \in muts' : Sound(n) /\ ~n.held
      BY <2>1, <2>2
    <3> QED
      BY <3>1 DEF MutTypes, Sound
  <2>4. OffersInv'
    <3> SUFFICES ASSUME NEW n \in muts', n.sure
                 PROVE  /\ muts' = {n} /\ n.stage # "refused"
                        /\ n.stage \in {"sent", "late"} =>
                             ~Refuses(n)' /\ (n.kind = "revoke" => status' = "OPEN")
      BY DEF OffersInv
    <3>1. PICK m \in muts : n = [m EXCEPT !.held = FALSE]
      BY <2>2
    <3>2. /\ m.sure /\ n.stage = m.stage /\ n.kind = m.kind /\ n.tutor = m.tutor
      BY <2>1, <3>1
    <3>3. /\ muts = {m} /\ m.stage # "refused"
          /\ m.stage \in {"sent", "late"} => ~Refuses(m) /\ (m.kind = "revoke" => status = "OPEN")
      BY <1>1, <3>2 DEF OffersInv
    <3>4. muts' = {n}
      BY <1>7, <3>1, <3>3
    <3>5. Refuses(n)' <=> Refuses(m)
      BY <1>3, <3>2 DEF Refuses
    <3> QED
      BY <1>3, <3>2, <3>3, <3>4, <3>5
  <2> QED
    BY <1>2, <1>4, <1>5, <2>3, <2>4, PartsAgain DEF BoardInv
<1> QED
  BY <1>3, <1>6, <1>7

(* Every step of the page keeps its invariant. *)
LEMMA BoardStep == BoardInv /\ [Next]_vars => BoardInv'
<1> SUFFICES ASSUME BoardInv, [Next]_vars PROVE BoardInv'
  OBVIOUS
<1>1. CASE Next
  BY <1>1, PressStep, ServeStep, SettleStep, LostStep, ReadingStep DEF Next
<1>2. CASE UNCHANGED vars
  <2>1. /\ UNCHANGED <<status, matched, invited, page, data, flight, stale, failed, drift>>
        /\ UNCHANGED <<muts, presses, faults, hasty>>
    BY <1>2 DEF vars, server, queries, bounds
  <2>2. /\ QueryTypes /\ MutTypes /\ CaseTypes /\ BoundTypes
        /\ QueriesInv /\ OffersInv /\ MatchedStaysInvited
    BY TypesInParts DEF BoardInv
  <2>3. MutTypes' /\ CaseTypes' /\ BoundTypes' /\ OffersInv' /\ MatchedStaysInvited'
    BY <2>1, <2>2 DEF MutTypes, CaseTypes, BoundTypes, OffersInv, MatchedStaysInvited, Sound, Refuses
  <2>4. QueryTypes' /\ QueriesInv'
    <3>1. \A k \in Keys : (Due(k) => Due(k)') /\ (Awaited(k) => Awaited(k)')
      BY <2>1 DEF Due, Awaited
    <3>2. UNCHANGED <<server, page, queries>>
      BY <2>1 DEF server, queries
    <3> QED
      BY <2>2, <3>1, <3>2, QuietStep
  <2> QED
    BY <2>3, <2>4, PartsAgain DEF BoardInv
<1> QED
  BY <1>1, <1>2

(* It implies what the page promises. *)
LEMMA BoardPromises ==
  BoardInv => CaseBoardTypeOK /\ PageIsCurrent /\ OffersAreHonoured /\ MatchedStaysInvited
<1> SUFFICES ASSUME BoardInv PROVE PageIsCurrent /\ OffersAreHonoured
  BY DEF BoardInv, BoardTypes
<1>1. PageIsCurrent
  <2> SUFFICES ASSUME \A m \in muts : m.stage \notin {"ok", "settling"},
                      NEW k \in Active \ (failed \union drift),
                      flight[k].stage = "none", data[k] # NoData
               PROVE  data[k] = Server(k)
    BY DEF PageIsCurrent
  <2>1. k \in Keys
    BY DEF Active, Mounted, Keys
  <2>2. ~Due(k)
    BY DEF Due, Owes
  <2> QED
    BY <2>1, <2>2 DEF BoardInv, QueriesInv
<1>2. OffersAreHonoured
  BY DEF BoardInv, OffersInv, OffersAreHonoured
<1> QED
  BY <1>1, <1>2

-----------------------------------------------------------------------------
(* The pages together. *)

(* The page at work and the ones at rest keep their invariants.             *)
PagesInv == UpInv /\ RecsInv /\ CasesInv /\ BoardInv

(* The tab shows its first page. *)
LEMMA PagesInitially == PagesInit => PagesInv
<1> SUFFICES ASSUME PagesInit PROVE PagesInv
  OBVIOUS
<1>1. Up!Init /\ Recs!Init /\ List!Init /\ Init
  BY DEF PagesInit, ListRests, UpRests, BoardRests, RecsRest
<1> QED
  BY <1>1, UpInitially, RecsInitially, CasesInitially, BoardInitially DEF PagesInv

(* Every step of a tab keeps the invariants of all its pages.               *)
LEMMA PagesStep ==
  PagesInv /\ [PagesNext]_<<shown, listVars, upVars, vars, recsVars>> => PagesInv'
<1> SUFFICES ASSUME PagesInv, [PagesNext]_<<shown, listVars, upVars, vars, recsVars>>
             PROVE  PagesInv'
  OBVIOUS
<1>1. [List!Next]_listVars /\ [Up!Next]_upVars /\ [Next]_vars /\ [Recs!Next]_recsVars
  BY DEF PagesNext
<1> QED
  BY <1>1, UpStep, RecsStep, CasesStep, BoardStep DEF PagesInv

(* PagesInvariance: the invariant of the pages holds at every moment.       *)
THEOREM PagesInvariance == PagesSpec => []PagesInv
BY PagesInitially, PagesStep, PTL DEF PagesSpec

(* PagesTypesCorrect: the variables of the four pages keep their types,     *)
(* and a cached page of the list belongs to its key.                        *)
THEOREM PagesTypesCorrect == PagesSpec => []PagesTypeOK
<1>1. PagesInv => PagesTypeOK
  BY BoardPromises, CasesPromises
  DEF PagesInv, PagesTypeOK, UpInv, UpTypes, RecsInv
<1> QED
  BY <1>1, PagesInvariance, PTL

(* UploadsAreReported: DocumentUploadSection and the profile form tell the  *)
(* user of every file chosen what became of it at the server.               *)
THEOREM UploadsAreReported == PagesSpec => []UploadsReported
<1>1. PagesInv => UploadsReported
  BY UpPromises DEF PagesInv, UploadsReported
<1> QED
  BY <1>1, PagesInvariance, PTL

(* TheSelectionIsSent: the profile form sends the document that it shows    *)
(* as chosen.                                                               *)
THEOREM TheSelectionIsSent == PagesSpec => []SelectionIsSent
<1>1. PagesInv => SelectionIsSent
  BY UpPromises DEF PagesInv, SelectionIsSent
<1> QED
  BY <1>1, PagesInvariance, PTL

(* EmptyPagesAreFirst: the list says "No cases found" on its first page     *)
(* only, unless cases left the filter or its pager was that of another.     *)
THEOREM EmptyPagesAreFirst == PagesSpec => []EmptyPageIsFirst
<1>1. PagesInv => EmptyPageIsFirst
  BY CasesPromises DEF PagesInv, EmptyPageIsFirst
<1> QED
  BY <1>1, PagesInvariance, PTL

(* TheBestAreSuggested: recommend answers with the best tutors, in order.   *)
THEOREM TheBestAreSuggested == PagesSpec => []SuggestionsAreBest
<1>1. PagesInv => SuggestionsAreBest
  BY DEF PagesInv, RecsInv, SuggestionsAreBest
<1> QED
  BY <1>1, PagesInvariance, PTL

(* WhatIsShownIsCurrent: a section at rest shows what the server has; every *)
(* mutation that succeeds invalidates all the queries it changes.  A delete *)
(* or a revoke, which the proxy turns into an error, leaves its row behind. *)
THEOREM WhatIsShownIsCurrent == PagesSpec => []ShownIsCurrent
<1>1. PagesInv => ShownIsCurrent
  BY UpPromises, BoardPromises DEF PagesInv, ShownIsCurrent
<1> QED
  BY <1>1, PagesInvariance, PTL

(* WhatIsPressedIsHonoured: an invite, a revoke or an accept pressed on     *)
(* data that missed nothing is not refused; after a revoke none is.         *)
THEOREM WhatIsPressedIsHonoured == PagesSpec => []OffersAreHonoured
<1>1. PagesInv => OffersAreHonoured
  BY BoardPromises DEF PagesInv
<1> QED
  BY <1>1, PagesInvariance, PTL

(* TheMatchedStayInvited: the tutor of a matched case keeps the invite that *)
(* names him on the locked panel.                                           *)
THEOREM TheMatchedStayInvited == PagesSpec => []MatchedStaysInvited
<1>1. PagesInv => MatchedStaysInvited
  BY DEF PagesInv, BoardInv
<1> QED
  BY <1>1, PagesInvariance, PTL
=============================================================================
