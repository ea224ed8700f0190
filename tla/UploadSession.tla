---------------------------- MODULE UploadSession ----------------------------
(***************************************************************************)
(* Blob uploads on one node: the handlers of src/registry/blobs/uploads    *)
(* and upload_part, validate_hash of src/registry/utils.rs.  A session is  *)
(* nothing but the file uploads/blob-<id>; every call of tokio::fs is a    *)
(* step, and other requests run between two of them.                       *)
(*                                                                         *)
(* A path names a file and a file has a content: whoever has opened a file *)
(* goes on writing to it after a rename or a remove.  SHA-256 is taken to  *)
(* be injective, so that a digest is the content it names.                 *)
(*                                                                         *)
(* Each request passes the checks of its token.  Of an answer only its     *)
(* kind is kept, and only until the handler has its next request.          *)
(***************************************************************************)
EXTENDS Naturals, Sequences

CONSTANTS
    Upload,         \* upload ids, each drawn once (Uuid::new_v4)
    Handler,        \* the requests this node can work on at the same time
    Chunk,          \* what write_all writes at once
    Digest,         \* the digests clients name: sequences of chunks
    Body,           \* the payloads clients send: sequences of chunks
    ContentRange,   \* the Content-Range headers: <<start, stop>>
    NoRange,        \* no such header, or one that does not parse
    NoFile,         \* nothing has this path
    NoRow,
    NoDigest,
    NoUpload,
    MaxRequests,    \* bound on the number of requests
    MaxCrash        \* bound on the number of restarts

ASSUME ContentAssumption == Digest \cup Body \subseteq Seq(Chunk)
ASSUME RangeAssumption == ContentRange \subseteq Nat \X Nat
ASSUME NoneAssumption == NoFile \notin Nat /\ NoDigest \notin Digest /\ NoUpload \notin Upload
ASSUME BoundsAssumption == MaxRequests \in Nat /\ MaxCrash \in Nat

VARIABLES
    content,        \* the files there have ever been, and what is in them
    upload,         \* the paths uploads/blob-<id>
    blob,           \* the paths blobs/<digest>
    drawn,          \* the upload ids in use
    told,           \* those of them that a client has been told
    row,            \* the size in the row of a blob this node has announced
    req,            \* per handler: the request it works on
    requests,       \* how many there have been
    crashes,
    touched,        \* ghost: the handlers whose session another request for it
                    \* has written to or renamed since they last looked at it
    spoilt          \* ghost: digests with a file that was written to, or may
                    \* not be the one that was validated, after it was validated

vars == <<content, upload, blob, drawn, told, row, req, requests, crashes, touched, spoilt>>
ghosts == <<touched, spoilt>>
ids == <<drawn, told>>
counters == <<requests, crashes>>

File == DOMAIN content

\* at: the next step of the handler.  file: what it has opened.  rest: the
\* chunks still to come.  written: how many it has written.  size: what
\* metadata told it.
Step == {"range", "open", "write", "late", "size", "hash", "read", "stat", "rename",
         "submit", "remove", "status"}

Answer == {"none", "accepted", "created", "no_content", "invalid", "digest_invalid",
           "range_invalid", "upload_not_found", "aborted"}

Request ==
    [at : Step \cup Answer,
     upload : Upload \cup {NoUpload}, range : ContentRange \cup {NoRange},
     digest : Digest \cup {NoDigest}, rest : Seq(Chunk), written : Nat,
     file : Nat, size : Nat]

NoRequest ==
    [at |-> "none", upload |-> NoUpload, range |-> NoRange, digest |-> NoDigest,
     rest |-> <<>>, written |-> 0, file |-> 0, size |-> 0]

TypeOK ==
    /\ content \in Seq(Seq(Chunk))
    /\ upload \in [Upload -> File \cup {NoFile}]
    /\ blob \in [Digest -> File \cup {NoFile}]
    /\ told \subseteq drawn /\ drawn \subseteq Upload
    /\ row \in [Digest -> Nat \cup {NoRow}]
    /\ req \in [Handler -> Request]
    /\ \A r \in Handler : req[r].at \in {"write", "late", "read"} => req[r].file \in File
    /\ requests \in 0 .. MaxRequests
    /\ crashes \in 0 .. MaxCrash
    /\ touched \subseteq Handler /\ spoilt \subseteq Digest

Init ==
    /\ content = <<>>
    /\ upload = [u \in Upload |-> NoFile]
    /\ blob = [d \in Digest |-> NoFile]
    /\ drawn = {} /\ told = {}
    /\ row = [d \in Digest |-> NoRow]
    /\ req = [r \in Handler |-> NoRequest]
    /\ requests = 0
    /\ crashes = 0
    /\ touched = {} /\ spoilt = {}

-----------------------------------------------------------------------------
(***************************************************************************)
(* A request begins.                                                       *)
(***************************************************************************)
\* A handler goes on with what it knows, or answers and forgets.
Goes(r, step, known) ==
    req' = [req EXCEPT ![r] = [(IF step \in Answer THEN NoRequest ELSE known) EXCEPT !.at = step]]

GoesOn(r, step) == Goes(r, step, req[r])

\* The other requests for the session of a handler; nothing keeps them apart.
Rivals(r) == {s \in Handler \ {r} : req[s].upload = req[r].upload}

\* A handler that is free gets a request: its first step, and what it knows.
Begin(r, u, step, known) ==
    /\ req[r].at \in Answer
    /\ requests < MaxRequests
    /\ requests' = requests + 1
    /\ Goes(r, step, [known EXCEPT !.upload = u])
    /\ touched' = touched \ {r}
    /\ UNCHANGED <<blob, row, crashes, spoilt>>

\* `if !filename.is_file()`.
IfSession(u, step, error) == IF upload[u] = NoFile THEN error ELSE step

\* post.rs without a digest: the session is an empty file.
Post(r, u) ==
    /\ u \notin drawn
    /\ drawn' = drawn \cup {u}
    /\ told' = told \cup {u}
    /\ content' = Append(content, <<>>)
    /\ upload' = [upload EXCEPT ![u] = Len(content')]
    /\ Begin(r, u, "accepted", NoRequest)

\* post.rs with a digest: the whole blob at once, under an id nobody is told.
PostBlob(r, u, d, body) ==
    /\ u \notin drawn
    /\ drawn' = drawn \cup {u}
    /\ Begin(r, u, "open", [NoRequest EXCEPT !.digest = d, !.rest = body])
    /\ UNCHANGED <<content, upload, told>>

\* A request for a session that was begun: patch.rs, put.rs, delete.rs, get.rs.
ForSession(r, u, step, known) ==
    /\ u \in told
    /\ Begin(r, u, step, known)
    /\ UNCHANGED <<content, upload, ids>>

Patch(r, u, range, body) ==
    ForSession(r, u, IfSession(u, IF range = NoRange THEN "open" ELSE "range", "invalid"),
               [NoRequest EXCEPT !.range = range, !.rest = body])

Put(r, u, d, body) ==
    ForSession(r, u, IfSession(u, "open", "invalid"),
               [NoRequest EXCEPT !.digest = d, !.rest = body])

Delete(r, u) == ForSession(r, u, IfSession(u, "remove", "invalid"), NoRequest)

Get(r, u) == ForSession(r, u, IfSession(u, "status", "upload_not_found"), NoRequest)

-----------------------------------------------------------------------------
(***************************************************************************)
(* The steps of a handler.                                                 *)
(***************************************************************************)
\* The file the path of the session names now, and its length.
Path(r) == upload[req[r].upload]
SizeOf(r) == IF Path(r) = NoFile THEN 0 ELSE Len(content[Path(r)])

\* Mutant of CheckRange: the start is not compared with the size.
CheckRangeOrder(r) ==
    /\ req[r].at = "range"
    /\ LET start == req[r].range[1]
           stop == req[r].range[2]
       IN  GoesOn(r, IF stop < start THEN "range_invalid" ELSE "open")
    /\ touched' = touched \ {r}
    /\ UNCHANGED <<content, upload, blob, ids, row, counters, spoilt>>

\* patch.rs: a part must begin where the file ends.
CheckRange(r) ==
    /\ req[r].at = "range"
    /\ LET start == req[r].range[1]
           stop == req[r].range[2]
       IN  GoesOn(r, IF stop < start \/ start # SizeOf(r) THEN "range_invalid" ELSE "open")
    /\ touched' = touched \ {r}
    /\ UNCHANGED <<content, upload, blob, ids, row, counters, spoilt>>

\* upload_part: append(true) and create(true).
Open(r) ==
    /\ req[r].at = "open"
    /\ IF Path(r) = NoFile
       THEN /\ content' = Append(content, <<>>)
            /\ upload' = [upload EXCEPT ![req[r].upload] = Len(content')]
            /\ touched' = touched \cup Rivals(r)
       ELSE UNCHANGED <<content, upload, touched>>
    /\ req' = [req EXCEPT ![r].at = "write", ![r].file = upload'[req[r].upload]]
    /\ UNCHANGED <<blob, ids, row, counters, spoilt>>

\* The file may have got another path since it was opened.
WriteChunk(r) ==
    /\ content' = [content EXCEPT ![req[r].file] = Append(@, Head(req[r].rest))]
    /\ touched' = touched \cup Rivals(r)
    /\ spoilt' = spoilt \cup {d \in Digest : blob[d] = req[r].file}

Write(r) ==
    /\ req[r].at = "write"
    /\ req[r].rest # <<>>
    /\ WriteChunk(r)
    /\ req' = [req EXCEPT ![r].rest = Tail(@), ![r].written = @ + 1]
    /\ UNCHANGED <<upload, blob, ids, row, counters>>

\* The end of the payload, and sync_all.
Sync(r) ==
    /\ req[r].at = "write"
    /\ req[r].rest = <<>>
    /\ GoesOn(r, IF req[r].digest = NoDigest THEN "size" ELSE "hash")
    /\ UNCHANGED <<content, upload, blob, ids, row, counters, ghosts>>

\* The connection breaks (`item.unwrap()` panics) or a call fails.  A write of
\* tokio::fs::File that has been handed over is made all the same, later.
Abort(r, handedOver) ==
    /\ req[r].at \in {"open", "write", "size", "hash", "read", "stat", "rename", "remove", "status"}
    /\ handedOver => req[r].at = "write" /\ req[r].rest # <<>>
    /\ GoesOn(r, IF handedOver THEN "late" ELSE "aborted")
    /\ UNCHANGED <<content, upload, blob, ids, row, counters, ghosts>>

LateWrite(r) ==
    /\ req[r].at = "late"
    /\ WriteChunk(r)
    /\ GoesOn(r, "aborted")
    /\ UNCHANGED <<upload, blob, ids, row, counters>>

\* The end of patch.rs: the size goes into the answer.
Size(r) ==
    /\ req[r].at = "size"
    /\ GoesOn(r, IfSession(req[r].upload, "accepted", "invalid"))
    /\ UNCHANGED <<content, upload, blob, ids, row, counters, ghosts>>

\* validate_hash opens the file the path names.
OpenToHash(r) ==
    /\ req[r].at = "hash"
    /\ Goes(r, IfSession(req[r].upload, "read", "digest_invalid"),
            [req[r] EXCEPT !.file = IF Path(r) = NoFile THEN @ ELSE Path(r)])
    /\ touched' = touched \ {r}
    /\ UNCHANGED <<content, upload, blob, ids, row, counters, spoilt>>

\* Mutant of Hash: validate_hash compares with a prefix of the file.
HashPrefix(r) ==
    /\ req[r].at = "read"
    /\ GoesOn(r, IF /\ Len(content[req[r].file]) >= Len(req[r].digest)
                    /\ SubSeq(content[req[r].file], 1, Len(req[r].digest)) = req[r].digest
                 THEN "stat" ELSE "digest_invalid")
    /\ UNCHANGED <<content, upload, blob, ids, row, counters, ghosts>>

\* It reads that file until there is no more.
Hash(r) ==
    /\ req[r].at = "read"
    /\ GoesOn(r, IF content[req[r].file] = req[r].digest THEN "stat" ELSE "digest_invalid")
    /\ UNCHANGED <<content, upload, blob, ids, row, counters, ghosts>>

\* Mutant of Stat: the size of the payload of this request.
StatPayload(r) ==
    /\ req[r].at = "stat"
    /\ Goes(r, IfSession(req[r].upload, "rename", "invalid"), [req[r] EXCEPT !.size = req[r].written])
    /\ UNCHANGED <<content, upload, blob, ids, row, counters, ghosts>>

\* tokio::fs::metadata, for BlobStat.
Stat(r) ==
    /\ req[r].at = "stat"
    /\ Goes(r, IfSession(req[r].upload, "rename", "invalid"), [req[r] EXCEPT !.size = SizeOf(r)])
    /\ UNCHANGED <<content, upload, blob, ids, row, counters, ghosts>>

\* The session ends with the rename; an earlier file of the blob is replaced.
Rename(r) ==
    /\ req[r].at = "rename"
    /\ GoesOn(r, IfSession(req[r].upload, "submit", "invalid"))
    /\ IF Path(r) = NoFile
       THEN UNCHANGED <<upload, blob, ghosts>>
       ELSE /\ blob' = [blob EXCEPT ![req[r].digest] = Path(r)]
            /\ upload' = [upload EXCEPT ![req[r].upload] = NoFile]
            /\ touched' = touched \cup Rivals(r)
            /\ spoilt' = IF r \in touched THEN spoilt \cup {req[r].digest} ELSE spoilt
    /\ UNCHANGED <<content, ids, row, counters>>

\* consistent_write of Mounted, Stat and Stored; one that is reported to have
\* failed may have been committed.
Submit(r, committed, ok) ==
    /\ req[r].at = "submit"
    /\ ok => committed
    /\ row' = IF committed THEN [row EXCEPT ![req[r].digest] = req[r].size] ELSE row
    /\ GoesOn(r, IF ok THEN "created" ELSE "invalid")
    /\ UNCHANGED <<content, upload, blob, ids, counters, ghosts>>

Remove(r) ==
    /\ req[r].at = "remove"
    /\ GoesOn(r, IfSession(req[r].upload, "no_content", "invalid"))
    /\ upload' = [upload EXCEPT ![req[r].upload] = NoFile]
    /\ touched' = touched \cup Rivals(r)
    /\ UNCHANGED <<content, blob, ids, row, counters, spoilt>>

\* get.rs: the size of the file; what the answer does with it is `size - 1`.
Status(r) ==
    /\ req[r].at = "status"
    /\ GoesOn(r, IfSession(req[r].upload, "no_content", "invalid"))
    /\ UNCHANGED <<content, upload, blob, ids, row, counters, ghosts>>

\* The process is restarted: files and rows stay, handlers do not.
Crash ==
    /\ crashes < MaxCrash
    /\ crashes' = crashes + 1
    /\ req' = [r \in Handler |-> NoRequest]
    /\ touched' = {}
    /\ UNCHANGED <<content, upload, blob, ids, row, requests, spoilt>>

-----------------------------------------------------------------------------
Call(r) ==
    \E u \in Upload :
        \/ Post(r, u)
        \/ Delete(r, u)
        \/ Get(r, u)
        \/ \E body \in Body :
              \/ \E range \in ContentRange \cup {NoRange} : Patch(r, u, range, body)
              \/ \E d \in Digest : Put(r, u, d, body) \/ PostBlob(r, u, d, body)

HandlerStep(r) ==
    \/ CheckRange(r)
    \/ Open(r)
    \/ Write(r)
    \/ Sync(r)
    \/ \E handedOver \in BOOLEAN : Abort(r, handedOver)
    \/ LateWrite(r)
    \/ Size(r)
    \/ OpenToHash(r)
    \/ Hash(r)
    \/ Stat(r)
    \/ Rename(r)
    \/ \E committed, ok \in BOOLEAN : Submit(r, committed, ok)
    \/ Remove(r)
    \/ Status(r)

Next ==
    \/ \E r \in Handler : Call(r) \/ HandlerStep(r)
    \/ Crash

Spec == Init /\ [][Next]_vars

-----------------------------------------------------------------------------
(***************************************************************************)
(* Properties.                                                             *)
(***************************************************************************)

\* What put.rs and post.rs validate stays true unless another request for the
\* same session writes to the file or renames it after that, be it the rest of
\* one whose connection broke: broken connections before, resumed and repeated
\* parts, restarts and other sessions for the same blob do no harm.
BlobMatchesDigest ==
    \A d \in Digest \ spoilt : blob[d] # NoFile => content[blob[d]] = d

\* A row that announces this node as a location comes after its file, and has
\* the size of that file under the same condition, although the size is taken
\* after the hash, before the rename, and announced after that.
RowMatchesBlob ==
    \A d \in Digest : row[d] # NoRow =>
        blob[d] # NoFile /\ (d \notin spoilt => row[d] = Len(content[blob[d]]))

\* The bytes of a PATCH with a Content-Range land at the offset it names,
\* whatever earlier requests have left in the file, unless another request for
\* the session writes or renames after the range was compared with the size.
PartLandsAtItsOffset ==
    \A r \in Handler \ touched : req[r].at = "write" /\ req[r].range # NoRange =>
        Len(content[req[r].file]) = req[r].range[1] + req[r].written

\* put.rs says "Validate upload" where it compares the hash of the session with
\* the digest under which it then stores it: no file there has other content.
StoredIsValidated ==
    \A d \in Digest : blob[d] # NoFile => content[blob[d]] = d

=============================================================================
