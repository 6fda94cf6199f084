------------------------------- MODULE Uploads ------------------------------
(***************************************************************************)
(* The documents section of one tab: FileDropzone, the uploads it starts,  *)
(* the cached list of documents and its Delete buttons, on the page of a   *)
(* case (several files at once) or on the tutor's profile (one file, an    *)
(* Upload button).  The server is its file checks and the set of documents *)
(* it has stored; documents of other people only make the list older and   *)
(* are left out.                                                           *)
(***************************************************************************)
EXTENDS Naturals, Sequences, SequencesExt, FiniteSets

CONSTANTS
  Files,       \* the files at hand: extension, first bytes, size
  NoFile,      \* null
  NoList,      \* the list of documents is not loaded
  MaxBatches,  \* bound: selections sent, and times the section is mounted
  MaxFaults    \* bound: lost answers, failed and repeated fetches, remounts

Sizes == {"small", "limit", "big"}   \* "limit" is MAX_UPLOAD_BYTES exactly

UploadsConstants ==
  /\ Files \subseteq [ext : BOOLEAN, magic : BOOLEAN, size : Sizes] /\ NoFile \notin Files
  /\ MaxBatches \in Nat \ {0} /\ MaxFaults \in Nat

VARIABLES
  mode,      \* "case" or "profile"
  stored,    \* documents at the server
  told,      \* ghost: documents whose storing was, or will be, answered
  requests,  \* uploads on their way
  batch,     \* number of the selection, or of the section's mount
  entries,   \* uploads: the progress list of the case page
  busy,      \* busy of the case page, upload.isPending of the profile page
  picked,    \* selected of the dropzone
  file,      \* file of the profile page
  list,      \* data of the documents query
  failed,    \* the documents query ended in an error
  fetch,     \* the documents query on its way
  waiting,   \* the profile page's upload awaits the refetch its success started
  removal,   \* the delete on its way, or NoRemoval
  drift,     \* ghost: an upload was stored and the tab cannot know
  gone,      \* ghost: documents that were deleted
  faults     \* bounds what goes wrong

server == <<stored, told, gone>>
form   == <<batch, entries, busy, picked, file>>
query  == <<list, failed, fetch, waiting, drift>>
vars   == <<mode, server, requests, form, query, removal, faults>>

Docs      == [batch : 1..MaxBatches, slot : 1..2, file : Files]
Idle      == [stage |-> "none", value |-> {}, clean |-> TRUE]
Asked     == [Idle EXCEPT !.stage = "sent"]
NoRemoval == [stage |-> "none", doc |-> NoFile]
Awaited   == {"sent", "stored", "refused"}
Fault     == faults < MaxFaults /\ faults' = faults + 1
Request(d, stage) == [doc |-> d, stage |-> stage]

(* validateUploadFile: the extension, and a size above the limit. *)
ClientTakes(f) == f.ext /\ f.size # "big"

(* multer's limit, the size check and the magic bytes.  Whether multer      *)
(* takes a file of exactly the limit is the library's.                      *)
ServerTakes(f, exact) == f.magic /\ (f.size = "small" \/ (f.size = "limit" /\ exact))

Init ==
  /\ mode \in {"case", "profile"}
  /\ stored \in {{}} \union {{d} : d \in {x \in Docs : x.batch = 1 /\ x.slot = 1 /\ ClientTakes(x.file) /\ x.file.magic}}
  /\ told = {} /\ gone = {}
  /\ requests = {} /\ faults = 0
  /\ batch = 1 /\ entries = <<>> /\ busy = FALSE
  /\ picked = NoFile /\ file = NoFile
  /\ list = NoList /\ failed = FALSE /\ fetch = Asked
  /\ waiting = FALSE
  /\ removal = NoRemoval
  /\ drift = FALSE

-----------------------------------------------------------------------------
(* A bug the properties must notice: the dropzone keeps its key. *)
SettledKeepsDropzone ==
  /\ waiting' = FALSE
  /\ IF waiting THEN busy' = FALSE /\ file' = NoFile /\ UNCHANGED picked
                ELSE UNCHANGED <<busy, file, picked>>

(* The query has settled: an upload of the profile page that awaited it is  *)
(* over, the page forgets its file and gives the dropzone a new key.        *)
Settled ==
  /\ waiting' = FALSE
  /\ IF waiting THEN busy' = FALSE /\ file' = NoFile /\ picked' = NoFile
                ELSE UNCHANGED <<busy, file, picked>>

(* invalidateQueries: a list that is loaded is fetched anew, and who awaits *)
(* the fetch on its way awaits the new one (that giving up the new one too  *)
(* would let go of him is beyond MaxBatches = 2).  A first fetch on its way *)
(* is joined instead, and may have been answered already.                   *)
Invalidate ==
  /\ IF fetch.stage # "none" /\ list = NoList
     THEN fetch' = [fetch EXCEPT !.clean = FALSE] /\ drift' = TRUE
     ELSE fetch' = Asked /\ UNCHANGED drift
  /\ UNCHANGED <<list, failed>>

-----------------------------------------------------------------------------
(* handleFiles of the dropzone in multiple mode and of the case page: the   *)
(* files of a selection that pass the check are sent at once; the others    *)
(* leave an error behind and nothing else, as a selection without any does. *)
SelectFiles(valid) ==
  /\ mode = "case" /\ ~busy
  /\ \A i \in DOMAIN valid : ClientTakes(valid[i])
  /\ batch < MaxBatches
  /\ batch' = batch + 1 /\ busy' = TRUE
  /\ entries' = [i \in DOMAIN valid |-> [file |-> valid[i], status |-> "uploading"]]
  /\ requests' = requests \union
       {Request([batch |-> batch', slot |-> i, file |-> valid[i]], "sent") : i \in DOMAIN valid}
  /\ UNCHANGED <<mode, server, picked, file, query, removal, faults>>

(* The dropzone in single mode: a file that is refused replaces the one     *)
(* selected before by none.                                                 *)
PickFile(f) ==
  /\ mode = "profile" /\ ~busy
  /\ picked' = IF ClientTakes(f) THEN f ELSE NoFile
  /\ file' = picked'
  /\ UNCHANGED <<mode, server, requests, batch, entries, busy, query, removal, faults>>

PressUpload ==
  /\ mode = "profile" /\ file # NoFile /\ ~busy /\ batch < MaxBatches
  /\ batch' = batch + 1 /\ busy' = TRUE
  /\ entries' = <<[file |-> file, status |-> "uploading"]>>
  /\ requests' = requests \union {Request([batch |-> batch', slot |-> 1, file |-> file], "sent")}
  /\ UNCHANGED <<mode, server, picked, file, query, removal, faults>>

(* The server's answer: the document is stored, or the file is refused, or  *)
(* the store or the database fails.  One nobody waits for is still stored.  *)
Store(r) ==
  /\ r.stage \in {"sent", "late"}
  /\ \/ /\ \E exact \in BOOLEAN : ServerTakes(r.doc.file, exact)
        /\ stored' = stored \union {r.doc} /\ UNCHANGED gone
        /\ told' = IF r.stage = "sent" THEN told \union {r.doc} ELSE told
        /\ requests' = (requests \ {r}) \union
                       (IF r.stage = "sent" THEN {Request(r.doc, "stored")} ELSE {})
        /\ IF r.stage = "late"
           THEN drift' = TRUE /\ fetch' = [fetch EXCEPT !.clean = FALSE]
           ELSE UNCHANGED <<drift, fetch>>
     \/ /\ requests' = (requests \ {r}) \union
                       (IF r.stage = "sent" THEN {Request(r.doc, "refused")} ELSE {})
        /\ UNCHANGED <<server, drift, fetch>>
  /\ UNCHANGED <<mode, form, list, failed, waiting, removal, faults>>

(* A bug the properties must notice: the first open line is marked. *)
MarkFirstUploading(d, status) ==
  LET open == {i \in DOMAIN entries : entries[i].status = "uploading"} IN
  IF d.batch = batch /\ open # {}
  THEN [entries EXCEPT ![CHOOSE i \in open : \A j \in open : i <= j].status = status]
  ELSE entries

(* The closure of file i marks entry i; an unmounted section has none left. *)
Mark(d, status) ==
  IF d.batch = batch /\ d.slot \in DOMAIN entries
  THEN [entries EXCEPT ![d.slot].status = status]
  ELSE entries

(* An upload is answered, or its connection lost.  The case page ends with  *)
(* the last answer of a batch, whatever the answers were, and fetches the   *)
(* list; the profile page does so on success, and waits for it.             *)
Finish(r, status, left) ==
  LET open == \E o \in left : o.doc.batch = r.doc.batch /\ o.stage \in Awaited
      ends == mode = "case" /\ ~open
      ok   == mode = "profile" /\ status = "done"
  IN
  /\ requests' = left
  /\ entries' = Mark(r.doc, status)
  /\ IF ends \/ ok
     THEN Invalidate /\ waiting' = (waiting \/ ok)
     ELSE /\ IF mode = "profile" /\ r.stage = "stored"
             THEN drift' = TRUE /\ fetch' = [fetch EXCEPT !.clean = FALSE]
             ELSE UNCHANGED <<drift, fetch>>
          /\ UNCHANGED <<list, failed, waiting>>
  /\ busy' = CASE r.doc.batch # batch -> busy
               [] mode = "case"       -> open
               [] OTHER               -> ok
  /\ UNCHANGED <<mode, stored, gone, batch, picked, file, removal>>

UploadAnswered(r) ==
  /\ r.stage \in {"stored", "refused"}
  /\ Finish(r, IF r.stage = "stored" THEN "done" ELSE "error", requests \ {r})
  /\ UNCHANGED <<told, faults>>

UploadLost(r) ==
  /\ r.stage \in Awaited
  /\ Finish(r, "error", (requests \ {r}) \union
                        (IF r.stage = "sent" THEN {Request(r.doc, "late")} ELSE {}))
  /\ told' = told \ {r.doc}
  /\ Fault

-----------------------------------------------------------------------------
(* Delete: the whole row of buttons is disabled while one is pending. *)
PressDelete(d) ==
  /\ list # NoList /\ d \in list
  /\ removal = NoRemoval
  /\ removal' = [stage |-> "sent", doc |-> d]
  /\ UNCHANGED <<mode, server, requests, form, query, faults>>

(* The server deletes the document, or refuses to if it is not there.       *)
Delete ==
  /\ removal.stage = "sent"
  /\ stored' = stored \ {removal.doc} /\ gone' = gone \union ({removal.doc} \intersect stored)
  /\ removal' = [removal EXCEPT !.stage = "answered"]
  /\ UNCHANGED <<mode, told, requests, form, query, faults>>

(* An error in both cases: a delete that was done is answered 204, and the  *)
(* proxy throws when it rebuilds a 204 with a text.  So there is never an   *)
(* onSuccess, and the list is not fetched again.                            *)
DeleteAnswered ==
  /\ removal.stage = "answered"
  /\ removal' = NoRemoval
  /\ UNCHANGED <<mode, server, requests, form, query, faults>>

(* The connection fails before the server has run the delete; it still may. *)
DeleteLost ==
  /\ removal.stage = "sent" /\ Fault
  /\ removal' = NoRemoval
  /\ requests' = requests \union {Request(removal.doc, "erase")}
  /\ UNCHANGED <<mode, server, form, query>>

EraseLate(r) ==
  /\ r.stage = "erase"
  /\ stored' = stored \ {r.doc} /\ gone' = gone \union ({r.doc} \intersect stored)
  /\ requests' = requests \ {r}
  /\ UNCHANGED <<mode, told, form, query, removal, faults>>

-----------------------------------------------------------------------------
(* The documents query: sent, read at the server, received; it may fail,    *)
(* and is sent again when its data is stale, or by Retry.                   *)
ReadList ==
  /\ fetch.stage = "sent"
  /\ fetch' = [fetch EXCEPT !.stage = "read", !.value = stored]
  /\ UNCHANGED <<mode, server, requests, form, list, failed, waiting, drift, removal, faults>>

ReceiveList ==
  /\ fetch.stage = "read"
  /\ list' = fetch.value /\ failed' = FALSE
  /\ drift' = (drift /\ ~fetch.clean)
  /\ fetch' = Idle
  /\ Settled
  /\ UNCHANGED <<mode, server, requests, batch, entries, removal, faults>>

FetchFails ==
  /\ fetch.stage # "none" /\ Fault
  /\ failed' = TRUE /\ fetch' = Idle
  /\ Settled
  /\ UNCHANGED <<mode, server, requests, batch, entries, list, drift, removal>>

Refetch ==
  /\ fetch.stage = "none" /\ Fault
  /\ fetch' = Asked
  /\ UNCHANGED <<mode, server, requests, form, list, failed, waiting, drift, removal>>

(* The case could not be fetched and the page shows an error instead, then  *)
(* the case again: the section's state is new and its uploads go on.  With  *)
(* a delete on its way this is left out.                                    *)
Remount ==
  /\ mode = "case" /\ batch < MaxBatches /\ Fault
  /\ removal = NoRemoval
  /\ batch' = batch + 1
  /\ entries' = <<>> /\ busy' = FALSE
  /\ UNCHANGED <<mode, server, requests, picked, file, query, removal>>

Next ==
  \/ \E f \in Files : SelectFiles(<<f>>) \/ PickFile(f)
  \/ \E f, g \in Files : SelectFiles(<<f, g>>)
  \/ PressUpload
  \/ \E r \in requests : Store(r) \/ UploadAnswered(r) \/ UploadLost(r) \/ EraseLate(r)
  \/ list # NoList /\ \E d \in list : PressDelete(d)
  \/ Delete \/ DeleteAnswered \/ DeleteLost
  \/ ReadList \/ ReceiveList \/ FetchFails \/ Refetch
  \/ Remount

UploadsSpec == Init /\ [][Next]_vars

-----------------------------------------------------------------------------
UploadsTypeOK ==
  /\ mode \in {"case", "profile"}
  /\ stored \union told \union gone \subseteq Docs /\ faults \in 0..MaxFaults
  /\ requests \subseteq [doc : Docs, stage : Awaited \union {"late", "erase"}]
  /\ batch \in 1..MaxBatches
  /\ entries \in SeqOf([file : Files, status : {"uploading", "done", "error"}], 2)
  /\ busy \in BOOLEAN /\ failed \in BOOLEAN /\ drift \in BOOLEAN
  /\ {picked, file} \subseteq Files \union {NoFile}
  /\ list = NoList \/ list \subseteq Docs
  /\ fetch \in [stage : {"none", "sent", "read"}, value : SUBSET Docs, clean : BOOLEAN]
  /\ waiting \in BOOLEAN
  /\ removal = NoRemoval \/ removal.doc \in Docs

(* UploadsReported: a line of the progress list tells what became of its    *)
(* own file, whatever order the answers come in and however often the       *)
(* section was mounted: "Uploaded" is stored under that name, "Failed" is   *)
(* not unless its answer was lost.                                          *)
UploadsReported ==
  \A i \in DOMAIN entries :
    LET d == [batch |-> batch, slot |-> i, file |-> entries[i].file] IN
    /\ entries[i].status = "done"  => d \in told
    /\ entries[i].status = "error" => d \notin told

(* SelectionIsSent: the file named in the dropzone of the profile page is   *)
(* the one the page sends, and has sent while it says "Uploading".  The two *)
(* components keep it separately, across a refused file, a failed upload,   *)
(* and the success that clears one by the other's key.                      *)
SelectionIsSent ==
  mode = "profile" =>
    /\ picked = file
    /\ busy => entries # <<>> /\ entries[1].file = picked

(* ListIsCurrent: when no upload and no fetch is on its way, what the list  *)
(* shows beyond the documents that are stored is documents that were        *)
(* deleted, and it lacks none: every batch has the list fetched again in    *)
(* time.  (The deleted stay, although docs/frontend.md:104 has a document   *)
(* disappear "immediately": see DeleteAnswered.)  Excused: an upload whose  *)
(* answer was lost, and a first fetch of the list that the refetch joined.  *)
ListIsCurrent ==
  /\ list # NoList /\ fetch.stage = "none" /\ ~failed /\ ~drift
  /\ \A r \in requests : r.stage \notin Awaited
  => list \ gone = stored

=============================================================================
