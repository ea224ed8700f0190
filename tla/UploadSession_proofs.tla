------------------------- MODULE UploadSession_proofs -------------------------
(***************************************************************************)
(* Proofs of the safety properties of UploadSession, for any uploads,      *)
(* digests, payloads and number of handlers, requests and restarts.        *)
(***************************************************************************)
EXTENDS UploadSession, TLAPS

-----------------------------------------------------------------------------
(***************************************************************************)
(* The inductive invariant.                                                *)
(***************************************************************************)

\* Requests that have the same file open are requests for the same upload, and
\* if the file has the path of an upload it is that one.
Holds(r) == req[r].at \in {"write", "late", "read"}

OpenOK ==
    /\ \A r, s \in Handler :
          Holds(r) /\ Holds(s) /\ req[r].file = req[s].file => req[r].upload = req[s].upload
    /\ \A r \in Handler, u \in Upload : Holds(r) /\ upload[u] = req[r].file => req[r].upload = u

\* A file has one path: that of one upload, or one in blobs/.
PathsOK ==
    /\ \A u \in Upload : upload[u] # NoFile => u \in drawn
    /\ \A u, v \in Upload : upload[u] = upload[v] /\ upload[u] # NoFile => u = v
    /\ \A u \in Upload, d \in Digest : upload[u] # NoFile => upload[u] # blob[d]

\* What no other request can make untrue of a handler that has a step to do.
KnowsOK(r) ==
    /\ req[r].at \in Answer => req[r].upload = NoUpload
    /\ req[r].at \in Step => req[r].upload \in drawn
    /\ req[r].at = "range" => req[r].range \in ContentRange
    /\ req[r].at \in {"range", "open"} => req[r].written = 0
    /\ Holds(r) => req[r].file \in File
    /\ req[r].at = "late" => req[r].rest # <<>>
    /\ req[r].at \in {"hash", "read", "stat", "rename", "submit"} => req[r].digest \in Digest
    /\ req[r].at = "submit" =>
          blob[req[r].digest] # NoFile /\ (req[r].digest \notin spoilt => req[r].size = Len(req[r].digest))

\* What is true of one whose session nobody else has touched since it looked:
\* the file has the length the range of the part says, and from validate_hash
\* on it is the one that was validated.
Untouched(r) ==
    /\ req[r].at = "open" /\ req[r].range # NoRange => SizeOf(r) = req[r].range[1]
    /\ req[r].at = "write" /\ req[r].range # NoRange =>
           Len(content[req[r].file]) = req[r].range[1] + req[r].written
    /\ req[r].at = "read" => Path(r) = req[r].file
    /\ req[r].at \in {"stat", "rename"} => Path(r) # NoFile /\ content[Path(r)] = req[r].digest
    /\ req[r].at = "rename" => req[r].size = Len(req[r].digest)

HandlerOK(r) == KnowsOK(r) /\ (r \notin touched => Untouched(r))

IInv ==
    /\ TypeOK
    /\ OpenOK
    /\ PathsOK
    /\ \A r \in Handler : HandlerOK(r)
    /\ BlobMatchesDigest
    /\ RowMatchesBlob

-----------------------------------------------------------------------------
(***************************************************************************)
(* Files.                                                                  *)
(***************************************************************************)
LEMMA FileFacts ==
    ASSUME TypeOK
    PROVE  /\ Len(content) \in Nat /\ File = 1 .. Len(content)
           /\ \A f \in File : content[f] \in Seq(Chunk) /\ Len(content[f]) \in Nat
           /\ NoFile \notin File /\ Len(content) + 1 \notin File
<1>1. content \in Seq(Seq(Chunk))
    BY DEF TypeOK
<1>2. Len(content) \in Nat /\ File = 1 .. Len(content)
    BY <1>1 DEF File
<1>3. \A f \in File : content[f] \in Seq(Chunk)
    BY <1>1, <1>2
<1>4. \A f \in File : Len(content[f]) \in Nat
    BY <1>3
<1> QED
    BY <1>2, <1>3, <1>4, NoneAssumption

\* create(true): a new file, which no path has named.
LEMMA NewFile ==
    ASSUME TypeOK, content' = Append(content, <<>>)
    PROVE  /\ content' \in Seq(Seq(Chunk))
           /\ Len(content') \notin File /\ Len(content') \in Nat
           /\ File' = File \cup {Len(content')}
           /\ \A f \in File : content'[f] = content[f]
           /\ content'[Len(content')] = <<>>
<1>1. content \in Seq(Seq(Chunk)) /\ <<>> \in Seq(Chunk)
    BY DEF TypeOK
<1>2. /\ content' \in Seq(Seq(Chunk)) /\ Len(content') = Len(content) + 1
      /\ \A f \in 1 .. Len(content) : content'[f] = content[f]
      /\ content'[Len(content) + 1] = <<>>
    BY <1>1
<1>3. File' = 1 .. Len(content) + 1
    BY <1>2 DEF File
<1> QED
    BY <1>2, <1>3, FileFacts

LEMMA AppendFacts ==
    ASSUME NEW S, NEW s \in Seq(S), NEW c \in S
    PROVE  Append(s, c) \in Seq(S) /\ Len(Append(s, c)) = Len(s) + 1
OBVIOUS

LEMMA ExceptFacts ==
    ASSUME NEW S, NEW s \in Seq(S), NEW i \in DOMAIN s, NEW c \in S
    PROVE  /\ [s EXCEPT ![i] = c] \in Seq(S)
           /\ Len([s EXCEPT ![i] = c]) = Len(s)
           /\ DOMAIN [s EXCEPT ![i] = c] = DOMAIN s
OBVIOUS

\* write_all changes the file that is open and no other.
LEMMA WriteFacts ==
    ASSUME TypeOK, NEW r \in Handler, req[r].file \in File, req[r].rest # <<>>, WriteChunk(r)
    PROVE  /\ content' \in Seq(Seq(Chunk)) /\ File' = File
           /\ \A f \in File \ {req[r].file} : content'[f] = content[f]
           /\ Len(content'[req[r].file]) = Len(content[req[r].file]) + 1
           /\ Tail(req[r].rest) \in Seq(Chunk)
<1>1. req[r].rest \in Seq(Chunk)
    BY DEF TypeOK, Request
<1>2. Head(req[r].rest) \in Chunk /\ Tail(req[r].rest) \in Seq(Chunk)
    BY <1>1
<1> DEFINE f == req[r].file
           new == Append(content[f], Head(req[r].rest))
<1>3. content[f] \in Seq(Chunk)
    BY FileFacts
<1>4. new \in Seq(Chunk) /\ Len(new) = Len(content[f]) + 1
    BY <1>2, <1>3, AppendFacts
<1>5. content' = [content EXCEPT ![f] = new]
    BY DEF WriteChunk
<1> HIDE DEF new
<1>6. content \in Seq(Seq(Chunk)) /\ f \in DOMAIN content
    BY DEF TypeOK, File
<1>7. content' \in Seq(Seq(Chunk)) /\ File' = File
    BY <1>4, <1>5, <1>6, ExceptFacts DEF File
<1>8. content'[f] = new /\ \A g \in File \ {f} : content'[g] = content[g]
    BY <1>5, <1>6 DEF File
<1> QED
    BY <1>2, <1>4, <1>7, <1>8

-----------------------------------------------------------------------------
(***************************************************************************)
(* Handlers.                                                               *)
(***************************************************************************)
LEMMA StepOrAnswer == Step \cap Answer = {}
BY DEF Step, Answer

LEMMA RequestFacts ==
    ASSUME TypeOK, NEW r \in Handler
    PROVE  /\ req[r] \in Request
           /\ req[r].at \in Step \cup Answer
           /\ req[r].rest \in Seq(Chunk)
           /\ req[r].written \in Nat /\ req[r].file \in Nat /\ req[r].size \in Nat
           /\ req[r].upload \in Upload \cup {NoUpload}
           /\ req[r].digest \in Digest \cup {NoDigest}
           /\ req[r].range \in ContentRange \cup {NoRange}
BY DEF TypeOK, Request

LEMMA NoRequestType == NoRequest \in Request
BY DEF NoRequest, Request, Answer

\* What a handler knows after a step, and the others.
LEMMA GoesFacts ==
    ASSUME TypeOK, NEW r \in Handler, NEW step \in Step \cup Answer, NEW known \in Request,
           Goes(r, step, known)
    PROVE  /\ req' \in [Handler -> Request]
           /\ \A s \in Handler \ {r} : req'[s] = req[s]
           /\ req'[r].at = step
           /\ step \in Answer => req'[r].upload = NoUpload
           /\ step \in Step =>
                 /\ req'[r].upload = known.upload /\ req'[r].range = known.range
                 /\ req'[r].digest = known.digest /\ req'[r].rest = known.rest
                 /\ req'[r].written = known.written /\ req'[r].file = known.file
                 /\ req'[r].size = known.size
<1> DEFINE base == IF step \in Answer THEN NoRequest ELSE known
           new == [base EXCEPT !.at = step]
<1>1. base \in Request
    BY NoRequestType
<1>2. /\ new \in Request /\ new.at = step
      /\ new.upload = base.upload /\ new.range = base.range
      /\ new.digest = base.digest /\ new.rest = base.rest
      /\ new.written = base.written /\ new.file = base.file
      /\ new.size = base.size
    <2> HIDE DEF base
    <2> QED
        BY <1>1 DEF Request
<1>3. req' = [req EXCEPT ![r] = new]
    BY DEF Goes
<1>4. step \in Answer => base.upload = NoUpload
    BY DEF NoRequest
<1>5. step \in Step => base = known
    BY StepOrAnswer
<1> HIDE DEF new, base
<1>6. req \in [Handler -> Request]
    BY DEF TypeOK
<1>7. req' \in [Handler -> Request] /\ req'[r] = new /\ \A s \in Handler \ {r} : req'[s] = req[s]
    BY <1>2, <1>3, <1>6
<1> QED
    BY <1>2, <1>4, <1>5, <1>7

\* A step of handler r that leaves the files of the other uploads alone does
\* not disturb the handlers it does not mark.
LEMMA OthersOK ==
    ASSUME IInv, NEW r \in Handler, NEW u \in Upload \cup {NoUpload},
           \A s \in Handler \ {r} : req'[s] = req[s],
           touched \subseteq touched' \cup {r},
           \A s \in Handler \ {r} : req[s].at \in Step => s \in touched' \/ req[s].upload # u,
           \A v \in Upload \ {u} :
               /\ upload'[v] = upload[v]
               /\ upload[v] # NoFile => content'[upload[v]] = content[upload[v]],
           \A s \in Handler \ {r} :
               Holds(s) /\ req[s].upload # u => content'[req[s].file] = content[req[s].file],
           File \subseteq File', drawn \subseteq drawn', spoilt \subseteq spoilt',
           \A d \in Digest : blob[d] # NoFile => blob'[d] # NoFile
    PROVE  \A s \in Handler \ {r} : HandlerOK(s)'
<1> SUFFICES ASSUME NEW s \in Handler \ {r} PROVE HandlerOK(s)'
    OBVIOUS
<1>1. HandlerOK(s) /\ req'[s] = req[s] /\ TypeOK
    BY DEF IInv
<1>2. KnowsOK(s)'
    BY <1>1 DEF HandlerOK, KnowsOK, Holds
<1>3. ASSUME s \notin touched' PROVE Untouched(s)'
    <2>1. s \notin touched /\ Untouched(s)
        BY <1>1, <1>3 DEF HandlerOK
    <2>2. CASE req[s].at \in Answer
        <3>1. req[s].at \notin Step
            BY <2>2, StepOrAnswer
        <3> QED
            BY <1>1, <3>1 DEF Untouched, Step
    <2>3. CASE req[s].at \in Step
        <3>1. req[s].upload \in Upload \ {u}
            BY <1>1, <1>3, <2>3 DEF HandlerOK, KnowsOK, TypeOK
        <3>2. Path(s)' = Path(s) /\ (Path(s) # NoFile => content'[Path(s)] = content[Path(s)])
            BY <1>1, <3>1 DEF Path
        <3>3. SizeOf(s)' = SizeOf(s)
            BY <3>2 DEF SizeOf
        <3>4. req[s].at = "write" => content'[req[s].file] = content[req[s].file]
            BY <3>1 DEF Holds
        <3> HIDE DEF Path, SizeOf
        <3> QED
            BY <1>1, <2>1, <3>2, <3>3, <3>4 DEF Untouched
    <2> QED
        BY <1>1, <2>2, <2>3, RequestFacts
<1> QED
    BY <1>2, <1>3 DEF HandlerOK

\* A handler keeps the file it has open, or opens the one the path names; paths
\* are removed, or get files that are new.
LEMMA OpenOKStep ==
    ASSUME IInv, NEW r \in Handler,
           \A s \in Handler \ {r} : req'[s] = req[s],
           \A v \in Upload : upload'[v] \in {upload[v], NoFile} \/ upload'[v] \notin File,
           \A v, w \in Upload : upload'[v] = upload'[w] /\ upload'[v] # NoFile => v = w,
           Holds(r)' =>
               \/ Holds(r) /\ req'[r].file = req[r].file /\ req'[r].upload = req[r].upload
               \/ /\ req'[r].upload \in Upload /\ req'[r].file # NoFile
                  /\ req'[r].file = upload'[req'[r].upload]
    PROVE  OpenOK'
<1>1. TypeOK /\ OpenOK
    BY DEF IInv
<1>2. \A s \in Handler : Holds(s) => req[s].file \in File /\ req[s].file # NoFile
    BY <1>1, FileFacts DEF TypeOK, Holds
<1>3. \A v \in Upload : upload'[v] \in File => upload[v] = upload'[v]
    BY <1>1, FileFacts
<1>4. \A s \in Handler \ {r} : Holds(s)' <=> Holds(s)
    BY DEF Holds
<1>5. ASSUME NEW s \in Handler \ {r}, NEW v \in Upload, Holds(s), upload'[v] = req[s].file
      PROVE  req[s].upload = v
    BY <1>1, <1>2, <1>3, <1>5 DEF OpenOK
<1>6. ASSUME NEW v \in Upload, Holds(r)', upload'[v] = req'[r].file
      PROVE  req'[r].upload = v
    <2>1. CASE Holds(r) /\ req'[r].file = req[r].file /\ req'[r].upload = req[r].upload
        BY <1>1, <1>2, <1>3, <1>6, <2>1 DEF OpenOK
    <2>2. CASE /\ req'[r].upload \in Upload /\ req'[r].file # NoFile
               /\ req'[r].file = upload'[req'[r].upload]
        BY <1>6, <2>2
    <2> QED
        BY <1>6, <2>1, <2>2
<1>7. ASSUME NEW s \in Handler \ {r}, Holds(s), Holds(r)', req'[r].file = req[s].file
      PROVE  req'[r].upload = req[s].upload
    <2>1. CASE Holds(r) /\ req'[r].file = req[r].file /\ req'[r].upload = req[r].upload
        BY <1>1, <1>7, <2>1 DEF OpenOK
    <2>2. CASE /\ req'[r].upload \in Upload /\ req'[r].file = upload'[req'[r].upload]
        BY <1>5, <1>7, <2>2
    <2> QED
        BY <1>7, <2>1, <2>2
<1>8. ASSUME NEW s \in Handler \ {r}, NEW t \in Handler \ {r}, Holds(s), Holds(t),
             req[s].file = req[t].file
      PROVE  req[s].upload = req[t].upload
    BY <1>1, <1>8 DEF OpenOK
<1>9. \A s \in Handler, v \in Upload : Holds(s)' /\ upload'[v] = req'[s].file => req'[s].upload = v
    BY <1>4, <1>5, <1>6
<1>10. \A s, t \in Handler : Holds(s)' /\ Holds(t)' /\ req'[s].file = req'[t].file
                               => req'[s].upload = req'[t].upload
    <2> SUFFICES ASSUME NEW s \in Handler, NEW t \in Handler, Holds(s)', Holds(t)',
                        req'[s].file = req'[t].file
                 PROVE  req'[s].upload = req'[t].upload
        OBVIOUS
    <2>1. CASE s = r /\ t = r
        BY <2>1
    <2>2. CASE s = r /\ t # r
        BY <1>4, <1>7, <2>2
    <2>3. CASE s # r /\ t = r
        BY <1>4, <1>7, <2>3
    <2>4. CASE s # r /\ t # r
        BY <1>4, <1>8, <2>4
    <2> QED
        BY <2>1, <2>2, <2>3, <2>4
<1> QED
    BY <1>9, <1>10 DEF OpenOK

LEMMA AnswerOK ==
    ASSUME NEW r \in Handler, req'[r].at \in Answer, req'[r].upload = NoUpload
    PROVE  HandlerOK(r)' /\ ~Holds(r)'
<1>1. req'[r].at \notin Step
    BY StepOrAnswer
<1> QED
    BY <1>1 DEF HandlerOK, KnowsOK, Untouched, Holds, Step

\* The upload of a handler that has a step to do.
LEMMA OwnUpload ==
    ASSUME IInv, NEW r \in Handler, req[r].at \in Step
    PROVE  /\ HandlerOK(r) /\ KnowsOK(r) /\ req[r] \in Request
           /\ req[r].upload \in drawn /\ req[r].upload \in Upload
           /\ Path(r) \in File \cup {NoFile}
<1>1. HandlerOK(r) /\ KnowsOK(r) /\ req[r] \in Request /\ TypeOK
    BY RequestFacts DEF IInv, HandlerOK
<1>2. req[r].upload \in drawn /\ req[r].upload \in Upload
    BY <1>1 DEF KnowsOK, TypeOK
<1>3. Path(r) \in File \cup {NoFile}
    BY <1>1, <1>2 DEF TypeOK, Path
<1> QED
    BY <1>1, <1>2, <1>3

\* A handler that has marked the others that work on its upload.
LEMMA RivalsMarked ==
    ASSUME NEW r \in Handler, touched' = touched \cup Rivals(r)
    PROVE  /\ touched \subseteq touched' \cup {r}
           /\ \A s \in Handler \ {r} : req[s].at \in Step => s \in touched' \/ req[s].upload # req[r].upload
           /\ r \in touched' <=> r \in touched
           /\ touched \subseteq Handler => touched' \subseteq Handler
BY DEF Rivals

\* The type invariant has a conjunct that follows from the others.
LEMMA TypeAgain ==
    ASSUME content' \in Seq(Seq(Chunk)),
           upload' \in [Upload -> File' \cup {NoFile}], blob' \in [Digest -> File' \cup {NoFile}],
           told' \subseteq drawn', drawn' \subseteq Upload, row' \in [Digest -> Nat \cup {NoRow}],
           req' \in [Handler -> Request], \A r \in Handler : HandlerOK(r)',
           requests' \in 0 .. MaxRequests, crashes' \in 0 .. MaxCrash,
           touched' \subseteq Handler, spoilt' \subseteq Digest
    PROVE  TypeOK'
<1>1. \A r \in Handler : req'[r].at \in {"write", "late", "read"} => req'[r].file \in File'
    BY DEF HandlerOK, KnowsOK, Holds
<1> QED
    BY <1>1 DEF TypeOK

\* A step that changes nothing but what a handler knows.
LEMMA QuietStep ==
    ASSUME IInv, NEW r \in Handler, NEW step \in Step \cup Answer, NEW known \in Request,
           Goes(r, step, known),
           UNCHANGED <<content, upload, blob, row, spoilt>>, touched' \in {touched, touched \ {r}},
           drawn \subseteq drawn', drawn' \subseteq Upload, told' \subseteq drawn',
           requests' \in 0 .. MaxRequests, crashes' \in 0 .. MaxCrash,
           step \in {"write", "late", "read"} =>
               \/ Holds(r) /\ known.file = req[r].file /\ known.upload = req[r].upload
               \/ /\ known.upload \in Upload /\ known.file # NoFile
                  /\ known.file = upload[known.upload],
           step \in Step => HandlerOK(r)'
    PROVE  IInv'
<1>1. TypeOK /\ PathsOK
    BY DEF IInv
<1>2. /\ req' \in [Handler -> Request]
      /\ \A s \in Handler \ {r} : req'[s] = req[s]
      /\ req'[r].at = step
      /\ step \in Answer => req'[r].upload = NoUpload
      /\ step \in Step => req'[r].upload = known.upload /\ req'[r].file = known.file
    BY <1>1, GoesFacts
<1>3. HandlerOK(r)'
    BY <1>2, AnswerOK
<1>6. File' = File
    BY DEF File
<1>4. \A s \in Handler \ {r} : HandlerOK(s)'
    <2>1. \A s \in Handler : req[s].at \in Step => req[s].upload # NoUpload
        BY OwnUpload, NoneAssumption
    <2> QED
        BY <1>2, <1>6, <2>1, OthersOK
<1>5. \A s \in Handler : HandlerOK(s)'
    BY <1>3, <1>4
<1>7. TypeOK'
    BY <1>1, <1>2, <1>5, <1>6, TypeAgain DEF TypeOK
<1>8. OpenOK'
    <2>1. Holds(r)' => step \in {"write", "late", "read"} /\ step \in Step
        BY <1>2 DEF Holds, Step
    <2>2. \A v, w \in Upload : upload'[v] = upload'[w] /\ upload'[v] # NoFile => v = w
        BY <1>1 DEF PathsOK
    <2> QED
        BY <1>2, <2>1, <2>2, OpenOKStep
<1>9. PathsOK' /\ BlobMatchesDigest' /\ RowMatchesBlob'
    BY DEF IInv, PathsOK, BlobMatchesDigest, RowMatchesBlob
<1> QED
    BY <1>5, <1>7, <1>8, <1>9 DEF IInv

\* The same for a handler that has a step to do: the next one is an answer, or
\* the invariant holds of what it knows then.
LEMMA GoesOnStep ==
    ASSUME IInv, NEW r \in Handler, req[r].at \in Step,
           NEW step \in Step \cup Answer, NEW known \in Request,
           Goes(r, step, known), known.upload = req[r].upload,
           UNCHANGED <<content, upload, blob, ids, row, counters, spoilt>>,
           touched' \in {touched, touched \ {r}},
           step \in {"write", "late", "read"} =>
               \/ Holds(r) /\ known.file = req[r].file
               \/ known.file # NoFile /\ known.file = Path(r),
           step \in Step => HandlerOK(r)'
    PROVE  IInv'
<1>1. TypeOK
    BY DEF IInv
<1>2. /\ drawn' \subseteq Upload /\ told' \subseteq drawn' /\ drawn \subseteq drawn'
      /\ requests' \in 0 .. MaxRequests /\ crashes' \in 0 .. MaxCrash
    BY <1>1 DEF TypeOK, ids, counters
<1>3. step \in {"write", "late", "read"} =>
          \/ Holds(r) /\ known.file = req[r].file /\ known.upload = req[r].upload
          \/ /\ known.upload \in Upload /\ known.file # NoFile
             /\ known.file = upload[known.upload]
    BY OwnUpload DEF Path
<1> QED
    BY <1>2, <1>3, QuietStep

\* What a handler that goes on knows, and the file of its session.
LEMMA KeptFacts ==
    ASSUME IInv, NEW r \in Handler, req[r].at \in Step, NEW step \in Step, GoesOn(r, step),
           UNCHANGED <<content, upload>>
    PROVE  /\ req'[r].at = step /\ step \notin Answer
           /\ req'[r].upload = req[r].upload /\ req'[r].range = req[r].range
           /\ req'[r].digest = req[r].digest /\ req'[r].rest = req[r].rest
           /\ req'[r].written = req[r].written /\ req'[r].file = req[r].file
           /\ req'[r].size = req[r].size
           /\ Path(r)' = Path(r) /\ SizeOf(r)' = SizeOf(r)
<1>1. TypeOK /\ req[r] \in Request /\ Goes(r, step, req[r])
    BY RequestFacts DEF IInv, GoesOn
<1>2. /\ req'[r].at = step
      /\ req'[r].upload = req[r].upload /\ req'[r].range = req[r].range
      /\ req'[r].digest = req[r].digest /\ req'[r].rest = req[r].rest
      /\ req'[r].written = req[r].written /\ req'[r].file = req[r].file
      /\ req'[r].size = req[r].size
    BY <1>1, GoesFacts
<1>3. Path(r)' = Path(r)
    BY <1>2 DEF Path
<1>4. SizeOf(r)' = SizeOf(r)
    BY <1>3 DEF SizeOf
<1> QED
    BY <1>2, <1>3, <1>4, StepOrAnswer

-----------------------------------------------------------------------------
(***************************************************************************)
(* The steps that change no file.                                          *)
(***************************************************************************)
LEMMA CheckRangeStep ==
    ASSUME IInv, NEW r \in Handler, CheckRange(r)
    PROVE  IInv'
<1> DEFINE step == IF req[r].range[2] < req[r].range[1] \/ req[r].range[1] # SizeOf(r)
                   THEN "range_invalid" ELSE "open"
<1>1. /\ req[r].at = "range" /\ GoesOn(r, step)
      /\ UNCHANGED <<content, upload, blob, ids, row, counters, spoilt>> /\ touched' = touched \ {r}
    BY DEF CheckRange
<1>2. req[r].at \in Step /\ step \in Step \cup Answer /\ (step \in Step => step = "open")
    BY <1>1 DEF Step, Answer
<1>3. KnowsOK(r) /\ req[r] \in Request /\ req[r].upload \in drawn
    BY <1>2, OwnUpload
<1>4. ASSUME step \in Step PROVE HandlerOK(r)'
    <2>1. step = "open" /\ req[r].range[1] = SizeOf(r) /\ drawn' = drawn
        BY <1>1, <1>2, <1>4 DEF ids
    <2> HIDE DEF step
    <2> QED
        BY <1>1, <1>2, <1>3, <1>4, <2>1, KeptFacts DEF HandlerOK, KnowsOK, Untouched, Holds
<1> HIDE DEF step
<1> QED
    BY <1>1, <1>2, <1>3, <1>4, GoesOnStep DEF GoesOn, Step

LEMMA SyncStep ==
    ASSUME IInv, NEW r \in Handler, Sync(r)
    PROVE  IInv'
<1> DEFINE step == IF req[r].digest = NoDigest THEN "size" ELSE "hash"
<1>1. /\ req[r].at = "write" /\ GoesOn(r, step)
      /\ UNCHANGED <<content, upload, blob, ids, row, counters, ghosts>>
    BY DEF Sync
<1>2. req[r].at \in Step /\ step \in Step /\ step \in {"size", "hash"}
    BY <1>1 DEF Step
<1>3. KnowsOK(r) /\ req[r] \in Request /\ req[r].upload \in drawn /\ TypeOK
    BY <1>2, OwnUpload DEF IInv
<1>4. HandlerOK(r)'
    <2>1. step \in {"size", "hash"} /\ (step = "size" \/ (step = "hash" /\ req[r].digest \in Digest)) /\ drawn' = drawn
        BY <1>1, <1>3, RequestFacts DEF ids
    <2> HIDE DEF step
    <2> QED
        BY <1>1, <1>2, <1>3, <2>1, KeptFacts DEF HandlerOK, KnowsOK, Untouched, Holds
<1> HIDE DEF step
<1> QED
    BY <1>1, <1>2, <1>3, <1>4, GoesOnStep DEF GoesOn, Step, ghosts

LEMMA AbortStep ==
    ASSUME IInv, NEW r \in Handler, NEW handedOver \in BOOLEAN, Abort(r, handedOver)
    PROVE  IInv'
<1> DEFINE step == IF handedOver THEN "late" ELSE "aborted"
<1>1. /\ req[r].at \in {"open", "write", "size", "hash", "read", "stat", "rename",
                       "remove", "status"}
      /\ handedOver => req[r].at = "write" /\ req[r].rest # <<>>
      /\ GoesOn(r, step)
      /\ UNCHANGED <<content, upload, blob, ids, row, counters, ghosts>>
    BY DEF Abort
<1>2. req[r].at \in Step /\ step \in Step \cup Answer /\ (step \in Step => handedOver)
    BY <1>1 DEF Step, Answer
<1>3. KnowsOK(r) /\ req[r] \in Request /\ req[r].upload \in drawn
    BY <1>2, OwnUpload
<1>4. ASSUME step \in Step PROVE HandlerOK(r)'
    <2>1. step = "late" /\ req[r].at = "write" /\ req[r].rest # <<>> /\ drawn' = drawn
        BY <1>1, <1>2, <1>4 DEF ids
    <2> HIDE DEF step
    <2>2. File' = File
        BY <1>1 DEF File
    <2> QED
        BY <1>1, <1>2, <1>3, <1>4, <2>1, <2>2, KeptFacts DEF HandlerOK, KnowsOK, Untouched, Holds
<1> HIDE DEF step
<1> QED
    BY <1>1, <1>2, <1>3, <1>4, GoesOnStep DEF GoesOn, Step, ghosts, Holds

\* The end of patch.rs and of get.rs.
LEMMA AnswerStep ==
    ASSUME IInv, NEW r \in Handler, Size(r) \/ Status(r)
    PROVE  IInv'
<1>1. /\ req[r].at \in {"size", "status"}
      /\ UNCHANGED <<content, upload, blob, ids, row, counters, ghosts>>
      /\ \/ GoesOn(r, IfSession(req[r].upload, "accepted", "invalid"))
         \/ GoesOn(r, IfSession(req[r].upload, "no_content", "invalid"))
    BY DEF Size, Status
<1>2. PICK step \in {"accepted", "no_content", "invalid"} : GoesOn(r, step)
    BY <1>1 DEF IfSession
<1>3. req[r].at \in Step /\ step \in Answer /\ step \notin Step
    BY <1>1 DEF Step, Answer
<1>4. req[r] \in Request
    BY <1>3, OwnUpload
<1> QED
    BY <1>1, <1>2, <1>3, <1>4, GoesOnStep DEF GoesOn, Step, ghosts

\* What is read is the file the path names.
LEMMA OpenToHashStep ==
    ASSUME IInv, NEW r \in Handler, OpenToHash(r)
    PROVE  IInv'
<1> DEFINE step == IfSession(req[r].upload, "read", "digest_invalid")
           file == IF Path(r) = NoFile THEN req[r].file ELSE Path(r)
           known == [req[r] EXCEPT !.file = file]
<1>1. /\ req[r].at = "hash" /\ Goes(r, step, known) /\ touched' = touched \ {r}
      /\ UNCHANGED <<content, upload, blob, ids, row, counters, spoilt>>
    <2>1. known = [req[r] EXCEPT !.file = IF Path(r) = NoFile THEN @ ELSE Path(r)]
        OBVIOUS
    <2> QED
        BY <2>1 DEF OpenToHash
<1>2. req[r].at \in Step /\ step \in Step \cup Answer /\ (step \in Step => step = "read" /\ Path(r) # NoFile)
    BY <1>1 DEF Step, Answer, IfSession, Path
<1>3. KnowsOK(r) /\ req[r] \in Request /\ req[r].upload \in drawn /\ TypeOK /\ Path(r) \in File \cup {NoFile}
    BY <1>2, OwnUpload DEF IInv
<1>4. file \in Nat
    BY <1>3, FileFacts, RequestFacts
<1>5. /\ known \in Request /\ known.upload = req[r].upload /\ known.digest = req[r].digest
      /\ known.file = file
    <2> HIDE DEF file
    <2> QED
        BY <1>3, <1>4 DEF Request
<1> HIDE DEF known
<1>6. ASSUME step \in Step PROVE HandlerOK(r)' /\ file # NoFile /\ file = Path(r)
    <2>1. step = "read" /\ file = Path(r) /\ file \in File /\ file # NoFile
        BY <1>2, <1>3, <1>6
    <2> HIDE DEF step, file
    <2>2. /\ req'[r].at = "read" /\ req'[r].upload = req[r].upload
          /\ req'[r].digest = req[r].digest /\ req'[r].file = file
        BY <1>1, <1>2, <1>3, <1>5, <1>6, <2>1, GoesFacts
    <2>3. Path(r)' = Path(r) /\ File' = File /\ drawn' = drawn
        BY <1>1, <2>2 DEF Path, File, ids
    <2>4. "read" \notin Answer
        BY DEF Answer
    <2> QED
        BY <1>1, <1>3, <2>1, <2>2, <2>3, <2>4 DEF HandlerOK, KnowsOK, Untouched, Holds
<1>7. step \in {"write", "late", "read"} => step \in Step
    BY DEF Step
<1> HIDE DEF step, file
<1> QED
    BY <1>1, <1>2, <1>5, <1>6, <1>7, GoesOnStep

\* It has the content of the digest, and the path still names it.
LEMMA HashStep ==
    ASSUME IInv, NEW r \in Handler, Hash(r)
    PROVE  IInv'
<1> DEFINE step == IF content[req[r].file] = req[r].digest THEN "stat" ELSE "digest_invalid"
<1>1. /\ req[r].at = "read" /\ GoesOn(r, step)
      /\ UNCHANGED <<content, upload, blob, ids, row, counters, ghosts>>
    BY DEF Hash
<1>2. req[r].at \in Step /\ step \in Step \cup Answer /\ (step \in Step => step = "stat")
    BY <1>1 DEF Step, Answer
<1>3. /\ HandlerOK(r) /\ KnowsOK(r) /\ req[r] \in Request /\ req[r].upload \in drawn
      /\ req[r].file \in File /\ req[r].file # NoFile
    <2>1. /\ HandlerOK(r) /\ KnowsOK(r) /\ req[r] \in Request /\ req[r].upload \in drawn
          /\ TypeOK
        BY <1>2, OwnUpload DEF IInv
    <2> QED
        BY <1>1, <2>1, FileFacts DEF KnowsOK, Holds
<1>4. ASSUME step \in Step PROVE HandlerOK(r)'
    <2>1. /\ step = "stat" /\ content[req[r].file] = req[r].digest
          /\ drawn' = drawn /\ content' = content /\ touched' = touched
        BY <1>1, <1>2, <1>4 DEF ids, ghosts
    <2>2. r \notin touched => Path(r) = req[r].file
        BY <1>1, <1>3 DEF HandlerOK, Untouched
    <2> HIDE DEF step
    <2> QED
        BY <1>1, <1>2, <1>3, <1>4, <2>1, <2>2, KeptFacts DEF HandlerOK, KnowsOK, Untouched, Holds
<1> HIDE DEF step
<1> QED
    BY <1>1, <1>2, <1>3, <1>4, GoesOnStep DEF GoesOn, Step, ghosts

\* BlobStat gets the size of what was hashed if nobody has touched it.
LEMMA StatStep ==
    ASSUME IInv, NEW r \in Handler, Stat(r)
    PROVE  IInv'
<1> DEFINE step == IfSession(req[r].upload, "rename", "invalid")
           size == SizeOf(r)
           known == [req[r] EXCEPT !.size = size]
<1>1. /\ req[r].at = "stat" /\ Goes(r, step, known)
      /\ UNCHANGED <<content, upload, blob, ids, row, counters, ghosts>>
    BY DEF Stat
<1>2. req[r].at \in Step /\ step \in Step \cup Answer /\ (step \in Step => step = "rename")
    BY <1>1 DEF Step, Answer, IfSession
<1>3. /\ HandlerOK(r) /\ KnowsOK(r) /\ req[r] \in Request /\ req[r].upload \in drawn /\ TypeOK
      /\ Path(r) \in File \cup {NoFile}
    BY <1>2, OwnUpload DEF IInv
<1>4. size \in Nat
    BY <1>3, FileFacts DEF SizeOf
<1>5. /\ known \in Request /\ known.upload = req[r].upload /\ known.digest = req[r].digest
      /\ known.size = size
    <2> HIDE DEF size
    <2> QED
        BY <1>3, <1>4 DEF Request
<1> HIDE DEF known
<1>6. ASSUME step \in Step PROVE HandlerOK(r)'
    <2>1. /\ req'[r].at = "rename" /\ req'[r].upload = req[r].upload
          /\ req'[r].digest = req[r].digest /\ req'[r].size = size
        <3> HIDE DEF step
        <3> QED
            BY <1>1, <1>2, <1>3, <1>5, <1>6, GoesFacts
    <2>2. Path(r)' = Path(r) /\ content' = content /\ drawn' = drawn /\ touched' = touched
        BY <1>1, <2>1 DEF Path, ids, ghosts
    <2>3. r \notin touched => Path(r) # NoFile /\ content[Path(r)] = req[r].digest /\ size = Len(req[r].digest)
        BY <1>1, <1>3 DEF HandlerOK, Untouched, SizeOf
    <2>4. "rename" \notin Answer
        BY DEF Answer
    <2> HIDE DEF size
    <2> QED
        BY <1>1, <1>3, <2>1, <2>2, <2>3, <2>4 DEF HandlerOK, KnowsOK, Untouched, Holds
<1>7. step \notin {"write", "late", "read"}
    BY DEF IfSession
<1> HIDE DEF step
<1> QED
    BY <1>1, <1>2, <1>5, <1>6, <1>7, GoesOnStep DEF ghosts

-----------------------------------------------------------------------------
(***************************************************************************)
(* The steps that change a file, a path or a row.                          *)
(***************************************************************************)

\* The file that is opened is the one of this session and of no other.
LEMMA OpenStep ==
    ASSUME IInv, NEW r \in Handler, Open(r)
    PROVE  IInv'
<1> DEFINE u == req[r].upload
<1>1. req[r].at = "open" /\ req[r].at \in Step /\ UNCHANGED <<blob, ids, row, counters, spoilt>>
    BY DEF Open, Step
<1>2. /\ HandlerOK(r) /\ KnowsOK(r) /\ req[r] \in Request /\ u \in drawn /\ u \in Upload
      /\ Path(r) \in File \cup {NoFile} /\ TypeOK /\ PathsOK
    BY <1>1, OwnUpload DEF IInv
<1>3. /\ content' \in Seq(Seq(Chunk)) /\ File \subseteq File'
      /\ \A f \in File : content'[f] = content[f]
      /\ upload'[u] \in File' /\ Len(content'[upload'[u]]) = SizeOf(r)
      /\ upload' \in [Upload -> File' \cup {NoFile}]
      /\ \A v \in Upload \ {u} : upload'[v] = upload[v] /\ (upload'[v] # NoFile => upload'[v] # upload'[u])
      /\ \A d \in Digest : blob[d] # upload'[u]
      /\ upload'[u] = upload[u] \/ upload'[u] \notin File
    <2>1. CASE Path(r) = NoFile
        <3>1. /\ content' = Append(content, <<>>)
              /\ upload' = [upload EXCEPT ![u] = Len(content')]
            BY <2>1 DEF Open
        <3>2. /\ upload \in [Upload -> File \cup {NoFile}] /\ blob \in [Digest -> File \cup {NoFile}]
            BY <1>2 DEF TypeOK
        <3>3. /\ content' \in Seq(Seq(Chunk))
              /\ Len(content') \notin File /\ Len(content') \in Nat
              /\ File' = File \cup {Len(content')}
              /\ \A f \in File : content'[f] = content[f]
              /\ content'[Len(content')] = <<>>
            BY <1>2, <3>1, NewFile
        <3>4. upload'[u] = Len(content') /\ \A v \in Upload \ {u} : upload'[v] = upload[v]
            BY <1>2, <3>1, <3>2
        <3>5. upload' \in [Upload -> File' \cup {NoFile}]
            BY <1>2, <3>1, <3>2, <3>3
        <3>6. SizeOf(r) = 0 /\ Len(content'[upload'[u]]) = 0
            BY <2>1, <3>3, <3>4 DEF SizeOf
        <3> QED
            BY <3>2, <3>3, <3>4, <3>5, <3>6, NoneAssumption
    <2>2. CASE Path(r) # NoFile
        <3>1. UNCHANGED <<content, upload>>
            BY <2>2 DEF Open
        <3>2. File' = File
            BY <3>1 DEF File
        <3> QED
            BY <1>2, <2>2, <3>1, <3>2 DEF TypeOK, PathsOK, Path, SizeOf
    <2> QED
        BY <2>1, <2>2
<1>4. /\ req' \in [Handler -> Request]
      /\ \A s \in Handler \ {r} : req'[s] = req[s]
      /\ req'[r].at = "write" /\ req'[r].file = upload'[u]
      /\ req'[r].upload = u /\ req'[r].range = req[r].range /\ req'[r].written = req[r].written
    <2>1. req' = [req EXCEPT ![r].at = "write", ![r].file = upload'[u]]
        BY DEF Open
    <2>2. upload'[u] \in Nat
        <3>1. DOMAIN content' = 1 .. Len(content') /\ Len(content') \in Nat
            BY <1>3
        <3> QED
            BY <1>3, <3>1 DEF File
    <2>3. req \in [Handler -> Request]
        BY <1>2 DEF TypeOK
    <2> DEFINE f == upload'[u]
               new == [req[r] EXCEPT !.at = "write", !.file = f]
    <2>4. req' = [req EXCEPT ![r] = new]
        BY <2>1, <2>3 DEF Request
    <2>5. /\ new \in Request /\ new.at = "write" /\ new.file = f /\ new.upload = req[r].upload
          /\ new.range = req[r].range /\ new.written = req[r].written
        <3>1. new = [req[r] EXCEPT !.at = "write", !.file = f] /\ req[r] \in Request /\ f \in Nat
            BY <2>2, <2>3
        <3> HIDE DEF new, f
        <3> QED
            BY <3>1 DEF Request, Step
    <2> HIDE DEF new
    <2> QED
        BY <1>2, <2>3, <2>4, <2>5
<1>5. upload'[u] # NoFile
    <2>1. DOMAIN content' = 1 .. Len(content') /\ Len(content') \in Nat
        BY <1>3
    <2> QED
        BY <1>3, <2>1, NoneAssumption DEF File
<1>6. HandlerOK(r)'
    <2>1. "write" \notin Answer /\ u \in drawn'
        BY <1>1, <1>2 DEF Answer, ids
    <2>2. KnowsOK(r)'
        BY <1>3, <1>4, <2>1 DEF KnowsOK, Holds
    <2>3. ASSUME r \notin touched', req[r].range # NoRange
          PROVE  Len(content'[upload'[u]]) = req[r].range[1] + req[r].written
        <3>1. r \notin touched
            BY <2>3 DEF Open
        <3>2. SizeOf(r) = req[r].range[1] /\ req[r].written = 0
            BY <1>1, <1>2, <2>3, <3>1 DEF HandlerOK, KnowsOK, Untouched
        <3>3. req[r].range[1] \in Nat
            BY <1>2, <2>3, RequestFacts, RangeAssumption
        <3> QED
            BY <1>3, <3>2, <3>3
    <2>4. r \notin touched' => Untouched(r)'
        BY <1>4, <2>3 DEF Untouched
    <2> QED
        BY <2>2, <2>4 DEF HandlerOK
<1>7. touched' \subseteq Handler /\ \A s \in Handler \ {r} : HandlerOK(s)'
    <2>1. \A v \in Upload \ {u} :
              /\ upload'[v] = upload[v]
              /\ upload[v] # NoFile => content'[upload[v]] = content[upload[v]]
        BY <1>2, <1>3 DEF TypeOK
    <2>2. \A s \in Handler : Holds(s) => content'[req[s].file] = content[req[s].file]
        BY <1>2, <1>3 DEF TypeOK, Holds
    <2>3. drawn' = drawn /\ blob' = blob /\ spoilt' = spoilt /\ touched \subseteq Handler
        BY <1>1, <1>2 DEF ids, TypeOK
    <2>4. CASE Path(r) = NoFile
        <3>1. touched' = touched \cup Rivals(r)
            BY <2>4 DEF Open
        <3> QED
            BY <1>2, <1>3, <1>4, <2>1, <2>2, <2>3, <3>1, OthersOK, RivalsMarked
    <2>5. CASE Path(r) # NoFile
        <3>1. UNCHANGED <<content, upload, touched>>
            BY <2>5 DEF Open
        <3>2. \A s \in Handler : req[s].at \in Step => req[s].upload # NoUpload
            BY OwnUpload, NoneAssumption
        <3> QED
            BY <1>3, <1>4, <2>3, <3>1, <3>2, OthersOK
    <2> QED
        BY <2>4, <2>5
<1>8. \A s \in Handler : HandlerOK(s)'
    BY <1>6, <1>7
<1>9. TypeOK'
    BY <1>1, <1>2, <1>3, <1>4, <1>7, <1>8, TypeAgain DEF TypeOK, ids, counters
<1>11. PathsOK'
    <2>1. drawn' = drawn /\ blob' = blob
        BY <1>1 DEF ids
    <2> QED
        <3>1. \A v \in Upload : upload'[v] # NoFile => v \in drawn
            BY <1>2, <1>3 DEF PathsOK
        <3>2. \A v, w \in Upload : upload'[v] = upload'[w] /\ upload'[v] # NoFile => v = w
            <4> SUFFICES ASSUME NEW v \in Upload, NEW w \in Upload,
                                upload'[v] = upload'[w], upload'[v] # NoFile
                         PROVE  v = w
                OBVIOUS
            <4>1. CASE v = u \/ w = u
                BY <1>3, <1>5, <4>1
            <4>2. CASE v # u /\ w # u
                BY <1>2, <1>3, <4>2 DEF PathsOK
            <4> QED
                BY <4>1, <4>2
        <3>3. \A v \in Upload, d \in Digest : upload'[v] # NoFile => upload'[v] # blob[d]
            BY <1>2, <1>3 DEF PathsOK
        <3> QED
            BY <2>1, <3>1, <3>2, <3>3 DEF PathsOK
<1>10. OpenOK'
    <2>1. \A v, w \in Upload : upload'[v] = upload'[w] /\ upload'[v] # NoFile => v = w
        BY <1>11 DEF PathsOK
    <2>2. \A v \in Upload : upload'[v] \in {upload[v], NoFile} \/ upload'[v] \notin File
        BY <1>3
    <2> QED
        BY <1>2, <1>4, <1>5, <2>1, <2>2, OpenOKStep
<1>12. \A d \in Digest : blob[d] # NoFile => content'[blob[d]] = content[blob[d]]
    BY <1>2, <1>3 DEF TypeOK
<1>13. BlobMatchesDigest' /\ RowMatchesBlob'
    BY <1>1, <1>12 DEF IInv, BlobMatchesDigest, RowMatchesBlob
<1> QED
    BY <1>8, <1>9, <1>10, <1>11, <1>13 DEF IInv

\* A chunk goes to the file that is open: the blob that has it is marked, and so
\* are the other handlers that look at it.
LEMMA WriteOthers ==
    ASSUME IInv, NEW r \in Handler, Holds(r), req[r].rest # <<>>,
           WriteChunk(r), UNCHANGED <<upload, blob, ids, row, counters>>,
           \A s \in Handler \ {r} : req'[s] = req[s]
    PROVE  /\ content' \in Seq(Seq(Chunk)) /\ File' = File /\ req[r].file \in File
           /\ Len(content'[req[r].file]) = Len(content[req[r].file]) + 1
           /\ Tail(req[r].rest) \in Seq(Chunk)
           /\ \A s \in Handler \ {r} : HandlerOK(s)'
           /\ PathsOK' /\ BlobMatchesDigest' /\ RowMatchesBlob'
           /\ touched' \subseteq Handler /\ spoilt' \subseteq Digest /\ (r \in touched' <=> r \in touched)
<1> DEFINE f == req[r].file
           u == req[r].upload
<1>1. req[r].at \in Step
    BY DEF Step, Holds
<1>2. /\ KnowsOK(r) /\ u \in Upload /\ TypeOK /\ PathsOK /\ OpenOK
    BY <1>1, OwnUpload DEF IInv
<1>3. f \in File
    BY <1>2 DEF KnowsOK
<1>4. /\ content' \in Seq(Seq(Chunk)) /\ File' = File
      /\ \A g \in File \ {f} : content'[g] = content[g]
      /\ Len(content'[f]) = Len(content[f]) + 1
      /\ Tail(req[r].rest) \in Seq(Chunk)
    BY <1>2, <1>3, WriteFacts
<1>5. /\ touched' = touched \cup Rivals(r)
      /\ spoilt' = spoilt \cup {d \in Digest : blob[d] = f}
    BY DEF WriteChunk
<1>6. \A s \in Handler \ {r} : HandlerOK(s)'
    <2>1. \A v \in Upload \ {u} :
              /\ upload'[v] = upload[v]
              /\ upload[v] # NoFile => content'[upload[v]] = content[upload[v]]
        BY <1>2, <1>4 DEF TypeOK, OpenOK
    <2>2. \A s \in Handler \ {r} :
              Holds(s) /\ req[s].upload # u => content'[req[s].file] = content[req[s].file]
        BY <1>2, <1>4 DEF TypeOK, OpenOK, Holds
    <2>3. drawn' = drawn /\ spoilt \subseteq spoilt'
        BY <1>5 DEF ids
    <2>4. /\ touched \subseteq touched' \cup {r}
          /\ \A s \in Handler \ {r} : req[s].at \in Step => s \in touched' \/ req[s].upload # u
        BY <1>5, RivalsMarked
    <2>5. u \in Upload \cup {NoUpload} /\ blob' = blob
        BY <1>2
    <2>6. File \subseteq File' /\ drawn \subseteq drawn' /\ spoilt \subseteq spoilt'
        BY <1>4, <2>3
    <2> QED
        BY <2>1, <2>2, <2>4, <2>5, <2>6, OthersOK
<1>7. PathsOK'
    BY <1>2 DEF PathsOK, ids
<1>8. \A d \in Digest \ spoilt' : blob[d] # NoFile => content'[blob[d]] = content[blob[d]]
    BY <1>2, <1>4, <1>5 DEF TypeOK
<1>9. BlobMatchesDigest' /\ RowMatchesBlob'
    BY <1>5, <1>8 DEF IInv, BlobMatchesDigest, RowMatchesBlob
<1>10. touched' \subseteq Handler /\ spoilt' \subseteq Digest /\ (r \in touched' <=> r \in touched)
    BY <1>2, <1>5, RivalsMarked DEF TypeOK
<1> QED
    BY <1>3, <1>4, <1>6, <1>7, <1>9, <1>10

LEMMA WriteStep ==
    ASSUME IInv, NEW r \in Handler, Write(r)
    PROVE  IInv'
<1>1. /\ req[r].at = "write" /\ req[r].at \in Step /\ req[r].rest # <<>> /\ WriteChunk(r)
      /\ req' = [req EXCEPT ![r].rest = Tail(@), ![r].written = @ + 1]
      /\ UNCHANGED <<upload, blob, ids, row, counters>>
    BY DEF Write, Step
<1>2. TypeOK /\ HandlerOK(r) /\ KnowsOK(r) /\ Holds(r) /\ req[r] \in Request /\ req[r].upload \in drawn
    BY <1>1, OwnUpload DEF IInv, Holds
<1>3. \A s \in Handler \ {r} : req'[s] = req[s]
    BY <1>1, <1>2 DEF TypeOK
<1>4. /\ content' \in Seq(Seq(Chunk)) /\ File' = File /\ req[r].file \in File
      /\ Len(content'[req[r].file]) = Len(content[req[r].file]) + 1
      /\ Tail(req[r].rest) \in Seq(Chunk)
      /\ \A s \in Handler \ {r} : HandlerOK(s)'
      /\ PathsOK' /\ BlobMatchesDigest' /\ RowMatchesBlob'
      /\ touched' \subseteq Handler /\ spoilt' \subseteq Digest /\ (r \in touched' <=> r \in touched)
    BY <1>1, <1>2, <1>3, WriteOthers
<1>5. /\ req' \in [Handler -> Request] /\ req'[r].at = "write"
      /\ req'[r].upload = req[r].upload /\ req'[r].range = req[r].range
      /\ req'[r].file = req[r].file /\ req'[r].written = req[r].written + 1
    <2>1. req \in [Handler -> Request]
        BY <1>2 DEF TypeOK
    <2> DEFINE new == [req[r] EXCEPT !.rest = Tail(req[r].rest), !.written = req[r].written + 1]
    <2>2. req' = [req EXCEPT ![r] = new]
        BY <1>1, <2>1 DEF Request
    <2>3. /\ new \in Request /\ new.at = "write"
          /\ new.upload = req[r].upload /\ new.range = req[r].range
          /\ new.file = req[r].file /\ new.written = req[r].written + 1
        <3> DEFINE q == req[r]
                   rest == Tail(req[r].rest)
                   n == req[r].written + 1
        <3>1. n \in Nat
            BY <1>2, RequestFacts
        <3>2. q \in Request /\ q.at = "write" /\ rest \in Seq(Chunk)
            BY <1>1, <1>2, <1>4
        <3>3. new = [q EXCEPT !.rest = rest, !.written = n]
            OBVIOUS
        <3>4. /\ new \in Request /\ new.at = "write" /\ new.upload = q.upload
              /\ new.range = q.range /\ new.file = q.file /\ new.written = n
            <4> HIDE DEF q, rest, n, new
            <4> QED
                BY <3>1, <3>2, <3>3 DEF Request
        <3> QED
            BY <3>4
    <2> HIDE DEF new
    <2> QED
        BY <2>1, <2>2, <2>3
<1>6. HandlerOK(r)'
    <2>1. "write" \notin Answer /\ drawn' = drawn
        BY <1>1 DEF Answer, ids
    <2>2. KnowsOK(r)'
        BY <1>2, <1>4, <1>5, <2>1 DEF KnowsOK, Holds
    <2>3. ASSUME r \notin touched', req[r].range # NoRange
          PROVE  Len(content'[req[r].file]) = req[r].range[1] + (req[r].written + 1)
        <3>1. Len(content[req[r].file]) = req[r].range[1] + req[r].written
            BY <1>1, <1>2, <1>4, <2>3 DEF HandlerOK, Untouched
        <3>2. req[r].range[1] \in Nat /\ req[r].written \in Nat
            BY <1>2, <2>3, RequestFacts, RangeAssumption
        <3> DEFINE n == Len(content[req[r].file])
                   m == Len(content'[req[r].file])
                   a == req[r].range[1]
                   w == req[r].written
        <3>3. m = n + 1 /\ n = a + w /\ a \in Nat /\ w \in Nat
            BY <1>4, <3>1, <3>2
        <3>4. m = a + (w + 1)
            <4> HIDE DEF n, m, a, w
            <4> QED
                BY <3>3
        <3> QED
            BY <3>4
    <2>4. r \notin touched' => Untouched(r)'
        BY <1>5, <2>3 DEF Untouched
    <2> QED
        BY <2>2, <2>4 DEF HandlerOK
<1>7. \A s \in Handler : HandlerOK(s)'
    BY <1>4, <1>6
<1>8. TypeOK'
    BY <1>1, <1>2, <1>4, <1>5, <1>7, TypeAgain DEF TypeOK, ids, counters
<1>9. OpenOK'
    <2>1. \A v, w \in Upload : upload'[v] = upload'[w] /\ upload'[v] # NoFile => v = w
        BY <1>4 DEF PathsOK
    <2> QED
        BY <1>1, <1>2, <1>3, <1>5, <2>1, OpenOKStep
<1> QED
    BY <1>4, <1>7, <1>8, <1>9 DEF IInv

LEMMA LateWriteStep ==
    ASSUME IInv, NEW r \in Handler, LateWrite(r)
    PROVE  IInv'
<1>1. /\ req[r].at = "late" /\ req[r].at \in Step /\ WriteChunk(r) /\ Goes(r, "aborted", req[r])
      /\ UNCHANGED <<upload, blob, ids, row, counters>> /\ "aborted" \in Answer
    BY DEF LateWrite, GoesOn, Step, Answer
<1>2. TypeOK /\ KnowsOK(r) /\ Holds(r) /\ req[r] \in Request /\ req[r].rest # <<>>
    BY <1>1, OwnUpload DEF IInv, KnowsOK, Holds
<1>3. /\ req' \in [Handler -> Request] /\ \A s \in Handler \ {r} : req'[s] = req[s]
      /\ req'[r].at = "aborted" /\ req'[r].upload = NoUpload
    BY <1>1, <1>2, GoesFacts
<1>4. /\ content' \in Seq(Seq(Chunk)) /\ File' = File
      /\ \A s \in Handler \ {r} : HandlerOK(s)'
      /\ PathsOK' /\ BlobMatchesDigest' /\ RowMatchesBlob'
      /\ touched' \subseteq Handler /\ spoilt' \subseteq Digest
    BY <1>1, <1>2, <1>3, WriteOthers
<1>5. \A s \in Handler : HandlerOK(s)'
    BY <1>1, <1>3, <1>4, AnswerOK
<1>6. TypeOK'
    BY <1>1, <1>2, <1>3, <1>4, <1>5, TypeAgain DEF TypeOK, ids, counters
<1>7. OpenOK'
    <2>1. \A v, w \in Upload : upload'[v] = upload'[w] /\ upload'[v] # NoFile => v = w
        BY <1>4 DEF PathsOK
    <2> QED
        BY <1>1, <1>3, <2>1, AnswerOK, OpenOKStep
<1> QED
    BY <1>4, <1>5, <1>6, <1>7 DEF IInv

\* The file of the session becomes the file of the blob, which is marked if it
\* may not be the one that was validated.
LEMMA RenameStep ==
    ASSUME IInv, NEW r \in Handler, Rename(r)
    PROVE  IInv'
<1> DEFINE u == req[r].upload
           d == req[r].digest
           f == Path(r)
<1>1. req[r].at = "rename" /\ req[r].at \in Step /\ UNCHANGED <<content, ids, row, counters>>
    BY DEF Rename, Step
<1>2. /\ HandlerOK(r) /\ KnowsOK(r) /\ req[r] \in Request /\ u \in drawn /\ u \in Upload
      /\ f \in File \cup {NoFile} /\ TypeOK /\ PathsOK /\ d \in Digest
    BY <1>1, OwnUpload DEF IInv, KnowsOK
<1>3. CASE f = NoFile
    <2>1. Goes(r, "invalid", req[r]) /\ UNCHANGED <<upload, blob, ghosts>>
        BY <1>3 DEF Rename, GoesOn, IfSession, Path
    <2>2. "invalid" \in Answer /\ "invalid" \notin Step
        BY DEF Answer, Step
    <2> QED
        BY <1>1, <1>2, <2>1, <2>2, GoesOnStep DEF ghosts
<1>4. CASE f # NoFile
    <2>1. /\ Goes(r, "submit", req[r]) /\ "submit" \in Step
          /\ blob' = [blob EXCEPT ![d] = f] /\ upload' = [upload EXCEPT ![u] = NoFile]
          /\ touched' = touched \cup Rivals(r)
          /\ spoilt' = IF r \in touched THEN spoilt \cup {d} ELSE spoilt
        BY <1>4 DEF Rename, GoesOn, IfSession, Path, Step
    <2>2. f \in File /\ f = upload[u]
        BY <1>2, <1>4 DEF Path
    <2>3. d \notin spoilt' => content[f] = d /\ req[r].size = Len(d)
        BY <1>1, <1>2, <2>1 DEF HandlerOK, Untouched
    <2>5. /\ req' \in [Handler -> Request] /\ \A s \in Handler \ {r} : req'[s] = req[s]
          /\ req'[r].at = "submit" /\ req'[r].upload = u /\ req'[r].digest = d
          /\ req'[r].size = req[r].size
        BY <1>2, <2>1, GoesFacts
    <2>6. /\ blob' \in [Digest -> File \cup {NoFile}] /\ blob'[d] = f
          /\ \A e \in Digest \ {d} : blob'[e] = blob[e]
          /\ upload' \in [Upload -> File \cup {NoFile}] /\ upload'[u] = NoFile
          /\ \A v \in Upload \ {u} : upload'[v] = upload[v]
        <3>1. blob \in [Digest -> File \cup {NoFile}] /\ upload \in [Upload -> File \cup {NoFile}]
            BY <1>2 DEF TypeOK
        <3> QED
            BY <1>2, <2>1, <2>2, <3>1
    <2> HIDE DEF f
    <2>7. HandlerOK(r)'
        <3>1. "submit" \notin Answer /\ drawn' = drawn
            BY <1>1 DEF Answer, ids
        <3> QED
            BY <1>2, <1>4, <2>3, <2>5, <2>6, <3>1 DEF HandlerOK, KnowsOK, Untouched, Holds
    <2>8. touched' \subseteq Handler /\ spoilt' \subseteq Digest /\ spoilt \subseteq spoilt' /\ File' = File
        BY <1>1, <1>2, <2>1, RivalsMarked DEF TypeOK, File
    <2>9. \A s \in Handler \ {r} : HandlerOK(s)'
        <3>1. \A v \in Upload \ {u} :
                  /\ upload'[v] = upload[v]
                  /\ upload[v] # NoFile => content'[upload[v]] = content[upload[v]]
            BY <1>1, <2>6
        <3>2. drawn' = drawn /\ \A e \in Digest : blob[e] # NoFile => blob'[e] # NoFile
            BY <1>1, <1>4, <2>6 DEF ids
        <3> QED
            BY <1>1, <1>2, <2>1, <2>5, <2>8, <3>1, <3>2, OthersOK, RivalsMarked
    <2>10. \A s \in Handler : HandlerOK(s)'
        BY <2>7, <2>9
    <2>11. TypeOK'
        BY <1>1, <1>2, <2>5, <2>6, <2>8, <2>10, TypeAgain DEF TypeOK, ids, counters
    <2>12. PathsOK'
        <3>1. drawn' = drawn
            BY <1>1 DEF ids
        <3>2. \A v \in Upload : upload'[v] # NoFile => v # u /\ upload'[v] = upload[v]
            BY <2>6
        <3>3. \A v \in Upload, e \in Digest : upload'[v] # NoFile => upload'[v] # blob'[e]
            BY <1>2, <2>2, <2>6, <3>2 DEF PathsOK
        <3> QED
            BY <1>2, <3>1, <3>2, <3>3 DEF PathsOK
    <2>13. OpenOK'
        <3>1. \A v, w \in Upload : upload'[v] = upload'[w] /\ upload'[v] # NoFile => v = w
            BY <2>12 DEF PathsOK
        <3>2. ~Holds(r)' /\ \A v \in Upload : upload'[v] \in {upload[v], NoFile}
            BY <2>5, <2>6 DEF Holds
        <3> QED
            BY <2>5, <3>1, <3>2, OpenOKStep
    <2>14. BlobMatchesDigest'
        BY <1>1, <2>3, <2>6, <2>8 DEF IInv, BlobMatchesDigest
    <2>15. RowMatchesBlob'
        <3> SUFFICES ASSUME NEW e \in Digest, row[e] # NoRow
                     PROVE  /\ blob'[e] # NoFile
                            /\ e \notin spoilt' => row[e] = Len(content[blob'[e]])
            BY <1>1 DEF RowMatchesBlob
        <3>1. /\ blob[e] # NoFile
              /\ e \notin spoilt => row[e] = Len(content[blob[e]]) /\ content[blob[e]] = e
            BY DEF IInv, RowMatchesBlob, BlobMatchesDigest
        <3> QED
            BY <1>4, <2>3, <2>6, <2>8, <3>1
    <2> QED
        BY <2>10, <2>11, <2>12, <2>13, <2>14, <2>15 DEF IInv
<1> QED
    BY <1>3, <1>4

\* The row gets the size of the file that is there, unless it is marked.
LEMMA SubmitStep ==
    ASSUME IInv, NEW r \in Handler, NEW committed \in BOOLEAN, NEW ok \in BOOLEAN,
           Submit(r, committed, ok)
    PROVE  IInv'
<1> DEFINE d == req[r].digest
<1>1. /\ req[r].at = "submit" /\ req[r].at \in Step
      /\ UNCHANGED <<content, upload, blob, ids, counters, ghosts>>
      /\ row' = IF committed THEN [row EXCEPT ![d] = req[r].size] ELSE row
    BY DEF Submit, Step
<1>2. PICK step \in {"created", "invalid"} : Goes(r, step, req[r])
    BY DEF Submit, GoesOn
<1>3. step \in Answer /\ step \notin Step
    BY DEF Answer, Step
<1>4. /\ TypeOK /\ PathsOK /\ KnowsOK(r) /\ req[r] \in Request
    BY <1>1, OwnUpload DEF IInv
<1>5. /\ req' \in [Handler -> Request] /\ \A s \in Handler \ {r} : req'[s] = req[s]
      /\ req'[r].at = step /\ req'[r].upload = NoUpload
    BY <1>2, <1>3, <1>4, GoesFacts
<1>6. d \in Digest /\ blob[d] # NoFile /\ (d \notin spoilt => req[r].size = Len(d)) /\ req[r].size \in Nat
    BY <1>1, <1>4, RequestFacts DEF KnowsOK
<1>7. /\ row' \in [Digest -> Nat \cup {NoRow}]
      /\ \A e \in Digest : row'[e] = row[e] \/ (e = d /\ (e \notin spoilt => row'[e] = Len(d)))
    BY <1>1, <1>4, <1>6 DEF TypeOK
<1>8. \A s \in Handler \ {r} : HandlerOK(s)'
    <2>1. \A s \in Handler : req[s].at \in Step => req[s].upload # NoUpload
        BY OwnUpload, NoneAssumption
    <2> QED
        BY <1>1, <1>5, <2>1, OthersOK DEF ids, ghosts, File
<1>9. \A s \in Handler : HandlerOK(s)'
    BY <1>3, <1>5, <1>8, AnswerOK
<1>10. TypeOK'
    <2>1. File' = File
        BY <1>1 DEF File
    <2> QED
        BY <1>1, <1>4, <1>5, <1>7, <1>9, <2>1, TypeAgain DEF TypeOK, ids, counters, ghosts
<1>11. OpenOK'
    <2>1. \A v, w \in Upload : upload'[v] = upload'[w] /\ upload'[v] # NoFile => v = w
        BY <1>1, <1>4 DEF PathsOK
    <2> QED
        BY <1>1, <1>3, <1>5, <2>1, AnswerOK, OpenOKStep
<1>12. PathsOK' /\ BlobMatchesDigest'
    BY <1>1 DEF IInv, PathsOK, BlobMatchesDigest, ids, ghosts
<1>13. RowMatchesBlob'
    <2>1. d \notin spoilt => content[blob[d]] = d
        BY <1>6 DEF IInv, BlobMatchesDigest
    <2> QED
        BY <1>1, <1>6, <1>7, <2>1 DEF IInv, RowMatchesBlob, ghosts
<1> QED
    BY <1>9, <1>10, <1>11, <1>12, <1>13 DEF IInv

LEMMA RemoveStep ==
    ASSUME IInv, NEW r \in Handler, Remove(r)
    PROVE  IInv'
<1> DEFINE u == req[r].upload
<1>1. /\ req[r].at = "remove" /\ req[r].at \in Step
      /\ UNCHANGED <<content, blob, ids, row, counters, spoilt>>
      /\ touched' = touched \cup Rivals(r)
      /\ upload' = [upload EXCEPT ![u] = NoFile]
    BY DEF Remove, Step
<1>2. PICK step \in {"no_content", "invalid"} : Goes(r, step, req[r])
    BY DEF Remove, GoesOn, IfSession
<1>3. step \in Answer /\ step \notin Step
    BY DEF Answer, Step
<1>4. /\ TypeOK /\ PathsOK /\ u \in Upload /\ req[r] \in Request
    BY <1>1, OwnUpload DEF IInv
<1>5. /\ req' \in [Handler -> Request] /\ \A s \in Handler \ {r} : req'[s] = req[s]
      /\ req'[r].at = step /\ req'[r].upload = NoUpload
    BY <1>2, <1>3, <1>4, GoesFacts
<1>6. /\ upload' \in [Upload -> File \cup {NoFile}] /\ upload'[u] = NoFile
      /\ \A v \in Upload \ {u} : upload'[v] = upload[v]
    <2>1. upload \in [Upload -> File \cup {NoFile}]
        BY <1>4 DEF TypeOK
    <2> QED
        BY <1>1, <1>4, <2>1
<1>7. \A s \in Handler \ {r} : HandlerOK(s)'
    BY <1>1, <1>4, <1>5, <1>6, OthersOK, RivalsMarked DEF ids, File
<1>8. \A s \in Handler : HandlerOK(s)'
    BY <1>3, <1>5, <1>7, AnswerOK
<1>9. TypeOK'
    <2>1. File' = File
        BY <1>1 DEF File
    <2>2. touched' \subseteq Handler
        BY <1>1, <1>4, RivalsMarked DEF TypeOK
    <2> QED
        BY <1>1, <1>4, <1>5, <1>6, <1>8, <2>1, <2>2, TypeAgain DEF TypeOK, ids, counters
<1>11. PathsOK'
    <2>1. \A v \in Upload : upload'[v] # NoFile => v # u /\ upload'[v] = upload[v]
        BY <1>6
    <2> QED
        BY <1>1, <1>4, <2>1 DEF PathsOK, ids
<1>10. OpenOK'
    <2>1. \A v, w \in Upload : upload'[v] = upload'[w] /\ upload'[v] # NoFile => v = w
        BY <1>11 DEF PathsOK
    <2>2. \A v \in Upload : upload'[v] \in {upload[v], NoFile}
        BY <1>6
    <2> QED
        BY <1>3, <1>5, <2>1, <2>2, AnswerOK, OpenOKStep
<1>12. BlobMatchesDigest' /\ RowMatchesBlob'
    BY <1>1 DEF IInv, BlobMatchesDigest, RowMatchesBlob
<1> QED
    BY <1>8, <1>9, <1>10, <1>11, <1>12 DEF IInv

-----------------------------------------------------------------------------
(***************************************************************************)
(* Requests begin, and the process is restarted.                           *)
(***************************************************************************)
\* What a handler knows in the beginning.
LEMMA KnownFacts ==
    ASSUME NEW known \in Request, NEW u \in Upload, known.written = 0
    PROVE  /\ [known EXCEPT !.upload = u] \in Request
           /\ [known EXCEPT !.upload = u].upload = u
           /\ [known EXCEPT !.upload = u].range = known.range
           /\ [known EXCEPT !.upload = u].written = 0
BY DEF Request

LEMMA PayloadFacts ==
    ASSUME NEW d \in Digest, NEW body \in Seq(Chunk)
    PROVE  /\ [NoRequest EXCEPT !.digest = d, !.rest = body] \in Request
           /\ [NoRequest EXCEPT !.digest = d, !.rest = body].range = NoRange
           /\ [NoRequest EXCEPT !.digest = d, !.rest = body].written = 0
<1>1. /\ NoRequest \in Request /\ NoRequest.range = NoRange /\ NoRequest.written = 0
    BY NoRequestType DEF NoRequest
<1> QED
    BY <1>1 DEF Request

\* A request that changes no file when it begins.
LEMMA BeginStep ==
    ASSUME IInv, NEW r \in Handler, NEW u \in Upload,
           NEW step \in {"open", "range", "remove", "status", "invalid", "upload_not_found"},
           NEW known \in Request, known.written = 0, Begin(r, u, step, known),
           step = "range" => known.range \in ContentRange,
           step = "open" => known.range = NoRange,
           UNCHANGED <<content, upload>>,
           drawn \subseteq drawn', drawn' \subseteq Upload, told' \subseteq drawn', u \in drawn'
    PROVE  IInv'
<1> DEFINE knows == [known EXCEPT !.upload = u]
<1>1. /\ Goes(r, step, knows) /\ touched' = touched \ {r}
      /\ UNCHANGED <<blob, row, crashes, spoilt>> /\ requests < MaxRequests /\ requests' = requests + 1
    BY DEF Begin
<1> HIDE DEF knows
<1>3. requests' \in 0 .. MaxRequests /\ crashes' \in 0 .. MaxCrash /\ TypeOK
    BY <1>1, BoundsAssumption DEF IInv, TypeOK
<1>4. /\ knows \in Request /\ knows.upload = u /\ knows.written = 0
      /\ step = "range" => knows.range \in ContentRange
      /\ step = "open" => knows.range = NoRange
    BY KnownFacts DEF knows
<1>5. step \in Step \cup Answer /\ (step \in Step => step \in {"open", "range", "remove", "status"})
    BY DEF Step, Answer
<1>6. ASSUME step \in Step PROVE HandlerOK(r)'
    <2>1. step \notin Answer /\ step \in {"open", "range", "remove", "status"}
        BY <1>5, <1>6, StepOrAnswer
    <2>2. /\ req'[r].at = step /\ req'[r].upload = u /\ req'[r].range = knows.range
          /\ req'[r].written = 0
        BY <1>1, <1>3, <1>4, <1>5, <1>6, GoesFacts
    <2> QED
        BY <1>4, <2>1, <2>2 DEF HandlerOK, KnowsOK, Untouched, Holds
<1> QED
    BY <1>1, <1>3, <1>4, <1>5, <1>6, QuietStep

LEMMA PostStep ==
    ASSUME IInv, NEW r \in Handler, NEW u \in Upload, Post(r, u)
    PROVE  IInv'
<1> DEFINE known == [NoRequest EXCEPT !.upload = u]
<1>1. /\ Goes(r, "accepted", known) /\ touched' = touched \ {r}
      /\ UNCHANGED <<blob, row, crashes, spoilt>> /\ requests < MaxRequests /\ requests' = requests + 1
      /\ u \notin drawn /\ drawn' = drawn \cup {u} /\ told' = told \cup {u}
      /\ content' = Append(content, <<>>) /\ upload' = [upload EXCEPT ![u] = Len(content')]
    BY DEF Begin, Post
<1>2. TypeOK /\ PathsOK
    BY DEF IInv
<1>3. /\ known \in Request /\ "accepted" \in Answer /\ "accepted" \notin Step
    BY NoRequestType DEF Request, Answer, Step
<1> HIDE DEF known
<1>4. /\ req' \in [Handler -> Request] /\ \A s \in Handler \ {r} : req'[s] = req[s]
      /\ req'[r].at = "accepted" /\ req'[r].upload = NoUpload
    BY <1>1, <1>2, <1>3, GoesFacts
<1>5. /\ content' \in Seq(Seq(Chunk))
      /\ Len(content') \notin File /\ Len(content') \in Nat
      /\ File' = File \cup {Len(content')}
      /\ \A f \in File : content'[f] = content[f]
    BY <1>1, <1>2, NewFile
<1>6. /\ upload \in [Upload -> File \cup {NoFile}] /\ blob \in [Digest -> File \cup {NoFile}]
    BY <1>2 DEF TypeOK
<1>7. /\ upload'[u] = Len(content') /\ \A v \in Upload \ {u} : upload'[v] = upload[v]
      /\ upload' \in [Upload -> File' \cup {NoFile}] /\ blob' \in [Digest -> File' \cup {NoFile}]
    BY <1>1, <1>5, <1>6
<1>8. \A s \in Handler \ {r} : HandlerOK(s)'
    <2>1. \A s \in Handler : req[s].at \in Step => req[s].upload # u
        BY <1>1, OwnUpload
    <2>2. \A v \in Upload \ {u} :
              /\ upload'[v] = upload[v]
              /\ upload[v] # NoFile => content'[upload[v]] = content[upload[v]]
        BY <1>5, <1>6, <1>7
    <2>3. drawn \subseteq drawn' /\ \A d \in Digest : blob[d] # NoFile => blob'[d] # NoFile
        BY <1>1
    <2>4. \A s \in Handler : Holds(s) => content'[req[s].file] = content[req[s].file]
        BY <1>2, <1>5 DEF TypeOK, Holds
    <2> QED
        BY <1>1, <1>4, <1>5, <2>1, <2>2, <2>3, <2>4, OthersOK
<1>9. \A s \in Handler : HandlerOK(s)'
    BY <1>3, <1>4, <1>8, AnswerOK
<1>10. TypeOK'
    <2>1. /\ told' \subseteq drawn' /\ drawn' \subseteq Upload /\ row' \in [Digest -> Nat \cup {NoRow}]
          /\ requests' \in 0 .. MaxRequests /\ crashes' \in 0 .. MaxCrash
          /\ touched' \subseteq Handler /\ spoilt' \subseteq Digest
        BY <1>1, <1>2, BoundsAssumption DEF TypeOK
    <2> QED
        BY <1>4, <1>5, <1>7, <1>9, <2>1, TypeAgain
<1>12. PathsOK'
    <2>1. \A v \in Upload : upload'[v] # NoFile => v \in drawn'
        BY <1>1, <1>2, <1>7 DEF PathsOK
    <2>2. \A v, w \in Upload : upload'[v] = upload'[w] /\ upload'[v] # NoFile => v = w
        <3> SUFFICES ASSUME NEW v \in Upload, NEW w \in Upload,
                            upload'[v] = upload'[w], upload'[v] # NoFile
                     PROVE  v = w
            OBVIOUS
        <3>1. CASE v = u \/ w = u
            BY <1>5, <1>6, <1>7, <3>1
        <3>2. CASE v # u /\ w # u
            BY <1>2, <1>7, <3>2 DEF PathsOK
        <3> QED
            BY <3>1, <3>2
    <2>3. \A v \in Upload, d \in Digest : upload'[v] # NoFile => upload'[v] # blob[d]
        BY <1>2, <1>5, <1>6, <1>7, NoneAssumption DEF PathsOK
    <2> QED
        BY <1>1, <2>1, <2>2, <2>3 DEF PathsOK
<1>11. OpenOK'
    <2>1. \A v, w \in Upload : upload'[v] = upload'[w] /\ upload'[v] # NoFile => v = w
        BY <1>12 DEF PathsOK
    <2>2. \A v \in Upload : upload'[v] \in {upload[v], NoFile} \/ upload'[v] \notin File
        BY <1>5, <1>7
    <2> QED
        BY <1>3, <1>4, <2>1, <2>2, AnswerOK, OpenOKStep
<1>13. BlobMatchesDigest' /\ RowMatchesBlob'
    <2>1. \A d \in Digest : blob[d] # NoFile => content'[blob[d]] = content[blob[d]]
        BY <1>5, <1>6
    <2> QED
        BY <1>1, <2>1 DEF IInv, BlobMatchesDigest, RowMatchesBlob
<1> QED
    BY <1>9, <1>10, <1>11, <1>12, <1>13 DEF IInv

LEMMA CallStep ==
    ASSUME IInv, NEW r \in Handler, Call(r)
    PROVE  IInv'
<1>1. PICK u \in Upload :
        \/ Post(r, u)
        \/ Delete(r, u)
        \/ Get(r, u)
        \/ \E body \in Body :
              \/ \E range \in ContentRange \cup {NoRange} : Patch(r, u, range, body)
              \/ \E d \in Digest : Put(r, u, d, body) \/ PostBlob(r, u, d, body)
    BY DEF Call
<1>2. drawn \subseteq Upload /\ told \subseteq drawn
    BY DEF IInv, TypeOK
<1>3. \A body \in Body : body \in Seq(Chunk)
    BY ContentAssumption
<1>4. ASSUME NEW step \in {"open", "range", "remove", "status", "invalid", "upload_not_found"},
             NEW known \in Request, known.written = 0, ForSession(r, u, step, known),
             step = "range" => known.range \in ContentRange,
             step = "open" => known.range = NoRange
      PROVE  IInv'
    <2>1. /\ Begin(r, u, step, known) /\ UNCHANGED <<content, upload, drawn, told>>
          /\ u \in drawn
        BY <1>2, <1>4 DEF ForSession, ids
    <2> QED
        BY <1>2, <1>4, <2>1, BeginStep
<1>5. ASSUME NEW body \in Body, NEW d \in Digest, PostBlob(r, u, d, body) PROVE IInv'
    <2> DEFINE known == [NoRequest EXCEPT !.digest = d, !.rest = body]
    <2>1. /\ Begin(r, u, "open", known) /\ UNCHANGED <<content, upload, told>>
          /\ drawn' = drawn \cup {u}
        BY <1>5 DEF PostBlob
    <2>2. known \in Request /\ known.range = NoRange /\ known.written = 0
        BY <1>3, PayloadFacts
    <2> HIDE DEF known
    <2>3. drawn \subseteq drawn' /\ drawn' \subseteq Upload /\ told' \subseteq drawn' /\ u \in drawn'
        BY <1>2, <2>1
    <2> QED
        BY <2>1, <2>2, <2>3, BeginStep
<1>6. ASSUME NEW body \in Body, NEW d \in Digest, Put(r, u, d, body) PROVE IInv'
    <2> DEFINE known == [NoRequest EXCEPT !.digest = d, !.rest = body]
    <2>1. PICK step \in {"open", "invalid"} : ForSession(r, u, step, known)
        BY <1>6 DEF Put, IfSession
    <2>2. known \in Request /\ known.range = NoRange /\ known.written = 0
        BY <1>3, PayloadFacts
    <2> HIDE DEF known
    <2> QED
        BY <1>4, <2>1, <2>2
<1>7. ASSUME NEW body \in Body, NEW range \in ContentRange \cup {NoRange}, Patch(r, u, range, body)
      PROVE  IInv'
    <2> DEFINE known == [NoRequest EXCEPT !.range = range, !.rest = body]
    <2>1. PICK step \in {"open", "range", "invalid"} :
              /\ ForSession(r, u, step, known)
              /\ step = "range" => range # NoRange
              /\ step = "open" => range = NoRange
        BY <1>7 DEF Patch, IfSession
    <2>2. known \in Request /\ known.range = range /\ known.written = 0
        <3>1. [NoRequest EXCEPT !.range = range, !.rest = body] \in Request
            BY <1>3, NoRequestType DEF Request
        <3> QED
            BY <3>1 DEF NoRequest
    <2> HIDE DEF known
    <2> QED
        BY <1>4, <2>1, <2>2
<1>8. ASSUME Delete(r, u) \/ Get(r, u) PROVE IInv'
    <2>1. PICK step \in {"remove", "status", "invalid", "upload_not_found"} :
              ForSession(r, u, step, NoRequest)
        BY <1>8 DEF Delete, Get, IfSession
    <2>2. NoRequest \in Request /\ NoRequest.written = 0
        BY NoRequestType DEF NoRequest
    <2> QED
        BY <1>4, <2>1, <2>2
<1> QED
    BY <1>1, <1>5, <1>6, <1>7, <1>8, PostStep

LEMMA CrashStep ==
    ASSUME IInv, Crash
    PROVE  IInv'
<1>1. /\ req' = [r \in Handler |-> NoRequest] /\ crashes < MaxCrash /\ crashes' = crashes + 1
      /\ UNCHANGED <<content, upload, blob, ids, row, requests, spoilt>> /\ touched' = {}
    BY DEF Crash
<1>2. /\ req' \in [Handler -> Request]
      /\ \A r \in Handler : req'[r].at = "none" /\ req'[r].upload = NoUpload
    BY <1>1, NoRequestType DEF NoRequest
<1>3. "none" \in Answer /\ "none" \notin Step
    BY DEF Answer, Step
<1>4. \A r \in Handler : HandlerOK(r)'
    BY <1>2, <1>3, AnswerOK
<1>5. TypeOK'
    <2>1. File' = File /\ TypeOK
        BY <1>1 DEF File, IInv
    <2>2. crashes' \in 0 .. MaxCrash
        BY <1>1, <2>1, BoundsAssumption DEF TypeOK
    <2> QED
        BY <1>1, <1>2, <1>4, <2>1, <2>2, TypeAgain DEF TypeOK, ids
<1>6. OpenOK'
    BY <1>2 DEF OpenOK, Holds
<1>7. PathsOK' /\ BlobMatchesDigest' /\ RowMatchesBlob'
    BY <1>1 DEF IInv, PathsOK, BlobMatchesDigest, RowMatchesBlob, ids
<1> QED
    BY <1>4, <1>5, <1>6, <1>7 DEF IInv

-----------------------------------------------------------------------------
(***************************************************************************)
(* The theorems.                                                           *)
(***************************************************************************)
LEMMA InitIInv == Init => IInv
<1> SUFFICES ASSUME Init PROVE IInv
    OBVIOUS
<1>1. req = [r \in Handler |-> NoRequest] /\ req \in [Handler -> Request]
    BY NoRequestType DEF Init
<1>2. \A r \in Handler : req[r].at = "none" /\ req[r].upload = NoUpload
    BY <1>1 DEF NoRequest
<1>3. TypeOK
    <2>1. content \in Seq(Seq(Chunk))
        BY DEF Init
    <2>2. requests \in 0 .. MaxRequests /\ crashes \in 0 .. MaxCrash
        BY BoundsAssumption DEF Init
    <2> QED
        BY <1>1, <1>2, <2>1, <2>2 DEF Init, TypeOK
<1>4. OpenOK /\ \A r \in Handler : HandlerOK(r)
    BY <1>2 DEF OpenOK, Holds, HandlerOK, KnowsOK, Untouched, Step
<1>5. PathsOK /\ BlobMatchesDigest /\ RowMatchesBlob
    BY DEF Init, PathsOK, BlobMatchesDigest, RowMatchesBlob
<1> QED
    BY <1>3, <1>4, <1>5 DEF IInv

LEMMA NextIInv ==
    ASSUME IInv, [Next]_vars
    PROVE  IInv'
<1>1. ASSUME NEW r \in Handler, Call(r) PROVE IInv'
    BY <1>1, CallStep
<1>2. ASSUME NEW r \in Handler, HandlerStep(r) PROVE IInv'
    BY <1>2, CheckRangeStep, OpenStep, WriteStep, SyncStep, AbortStep, LateWriteStep, AnswerStep,
       OpenToHashStep, HashStep, StatStep, RenameStep, SubmitStep, RemoveStep DEF HandlerStep
<1>3. CASE Crash
    BY <1>3, CrashStep
<1>4. CASE UNCHANGED vars
    <2> USE <1>4 DEF vars
    <2>1. TypeOK'
        BY DEF IInv, TypeOK, File
    <2>2. OpenOK' /\ PathsOK' /\ BlobMatchesDigest' /\ RowMatchesBlob'
        BY DEF IInv, OpenOK, Holds, PathsOK, BlobMatchesDigest, RowMatchesBlob
    <2>3. \A r \in Handler : HandlerOK(r)'
        BY DEF IInv, HandlerOK, KnowsOK, Untouched, Holds, Path, SizeOf, File
    <2> QED
        BY <2>1, <2>2, <2>3 DEF IInv
<1> QED
    BY <1>1, <1>2, <1>3, <1>4 DEF Next

\* The invariant is inductive for any number of uploads, handlers, requests and
\* restarts, however many requests there are for the same upload.
THEOREM Inductive == Spec => []IInv
<1>1. IInv /\ [Next]_vars => IInv'
    BY NextIInv
<1> QED
    BY <1>1, InitIInv, PTL DEF Spec

\* The file at the path of a digest has the content it names unless another
\* request for the session it comes from has written to it, or renamed it,
\* after put.rs or post.rs opened it to validate it: there is no other way.
THEOREM BlobsAreValid == Spec => []BlobMatchesDigest
<1>1. IInv => BlobMatchesDigest
    BY DEF IInv
<1> QED
    BY <1>1, Inductive, PTL

\* A row that names this node has a file, and unless that was touched the size
\* of that file, across restarts and writes whose outcome nobody learns.
THEOREM RowsAreBlobs == Spec => []RowMatchesBlob
<1>1. IInv => RowMatchesBlob
    BY DEF IInv
<1> QED
    BY <1>1, Inductive, PTL

\* The bytes of a PATCH with a Content-Range land where the header says unless
\* another request for the session, or what is left of one, writes or renames
\* after the check of patch.rs.
THEOREM PartsLandInPlace == Spec => []PartLandsAtItsOffset
<1>1. IInv => PartLandsAtItsOffset
    BY DEF IInv, HandlerOK, Untouched, PartLandsAtItsOffset
<1> QED
    BY <1>1, Inductive, PTL

=============================================================================
