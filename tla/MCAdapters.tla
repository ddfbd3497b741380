---------------------------- MODULE MCAdapters -----------------------------
(***************************************************************************)
(* The components between a service and what it uses, on small instances:  *)
(* database, object store, mail, audit log, notifications, health checks,  *)
(* the capture of responses, HTTP calls and the middlewares.  "part" says  *)
(* which of them is at work in a behaviour; the migrations rest in their   *)
(* initial state otherwise, and the others are off.                        *)
(***************************************************************************)
EXTENDS Migrations, Sequences

VARIABLES part,
          mailCfg, mailMsg, mailPc, mailTls, mailChallenges, mailAttempts,
          mailOut, mailAccepted, mailPasswords,
          upSetup, upVersions, upPc, upTries, upReply, upRef, upLength, upGot,
          upRemaining, upFaults,
          listBucket, listPc, listPage, listAfter, listMore, listEntries,
          listWrites, listFaults, listStable, listHeld,
          logNow, logRows, logPending, logFilter, logLimit, logCursor, logListed,
          logPc, logAtStart,
          noteClosed, noteQueue, noteQueueClosed, noteBatch, noteBatches,
          noteDispatcher, noteWorker, noteSent, noteDropped, noteRecorded,
          noteCloser, noteTransport, noteRecorder, notePanicked,
          probeRegistered, probeCall, probeSnapshot, probeFn, probeBuf, probeRes,
          probeVerdict,
          redTree, redUsed, redOut,
          capIn, capResp, capMeta, capRaw,
          cliSetup, cliPc, cliSent, cliGot, cliExpired, cliOut,
          midChain, midAt, midReqId, midRec, midOut, midLogged, midOps, midSeen,
          midPanicked, midMisled

mailVars == <<mailCfg, mailMsg, mailPc, mailTls, mailChallenges, mailAttempts,
  mailOut, mailAccepted, mailPasswords>>
upVars == <<upSetup, upVersions, upPc, upTries, upReply, upRef, upLength, upGot,
  upRemaining, upFaults>>
listVars == <<listBucket, listPc, listPage, listAfter, listMore, listEntries,
  listWrites, listFaults, listStable, listHeld>>
logVars == <<logNow, logRows, logPending, logFilter, logLimit, logCursor,
  logListed, logPc, logAtStart>>
noteVars == <<noteClosed, noteQueue, noteQueueClosed, noteBatch, noteBatches,
  noteDispatcher, noteWorker, noteSent, noteDropped, noteRecorded, noteCloser,
  noteTransport, noteRecorder, notePanicked>>
probeVars == <<probeRegistered, probeCall, probeSnapshot, probeFn, probeBuf,
  probeRes, probeVerdict>>
redVars == <<redTree, redUsed, redOut>>
capVars == <<capIn, capResp, capMeta, capRaw>>
cliVars == <<cliSetup, cliPc, cliSent, cliGot, cliExpired, cliOut>>
midVars == <<midChain, midAt, midReqId, midRec, midOut, midLogged, midOps,
  midSeen, midPanicked, midMisled>>
adVars == <<part, vars, mailVars, upVars, listVars, logVars, noteVars, probeVars,
  redVars, capVars, cliVars, midVars>>

-----------------------------------------------------------------------------
(* Mail: configurations and messages with a few defects each.              *)

MailConfigs ==
  { [provider |-> p, sections |-> s, mode |-> mode, port |-> port, timeout |-> t,
     https |-> h, credentials |-> c] :
      p \in {"postbox", "selectel", "other"}, s \in SUBSET {"postbox", "selectel"},
      mode \in {"", "tls", "starttls", "none"}, port \in {0, 2525, 70000},
      t \in {0, 60, 61}, h \in BOOLEAN, c \in BOOLEAN }

Good == [clean |-> TRUE, subject |-> "fits", body |-> "fits",
         from |-> "ascii", to |-> "ascii", id |-> "absent"]

MailMessages ==
  { Good, [Good EXCEPT !.clean = FALSE], [Good EXCEPT !.subject = "blank"],
    [Good EXCEPT !.body = "none"], [Good EXCEPT !.from = "bad"],
    [Good EXCEPT !.to = "bad"], [Good EXCEPT !.to = "unicode"],
    [Good EXCEPT !.id = "bad"], [Good EXCEPT !.id = "given"] }

Mail == INSTANCE Email WITH
  cfg <- mailCfg, msg <- mailMsg, pc <- mailPc, tls <- mailTls,
  challenges <- mailChallenges, attempts <- mailAttempts, out <- mailOut,
  accepted <- mailAccepted, passwords <- mailPasswords, Configs <- MailConfigs,
  Messages <- MailMessages, MaxAttempts <- 3

-----------------------------------------------------------------------------
(* Objects: bodies within, at and beyond the reader's budget; a listing of *)
(* two pages, with an object that is too large.                            *)

UpWriters == {"w1", "w2", "w3"}
UpSize(w) == CASE w = "w1" -> 1 [] w = "w2" -> 2 [] w = "w3" -> 3
UpConditional == {UpWriters, UpWriters \ {"w2"}, UpWriters \ {"w3"}}

Stream == INSTANCE S3Stream WITH
  setup <- upSetup, versions <- upVersions, pc <- upPc, tries <- upTries,
  reply <- upReply, ref <- upRef, length <- upLength, got <- upGot,
  remaining <- upRemaining, faults <- upFaults, Writers <- UpWriters,
  Size <- UpSize, Conditional <- UpConditional, MaxStream <- 3, MaxBytes <- 2,
  MaxFaults <- 2

ASSUME UpInstance == Stream!StreamBounds

List == INSTANCE S3Listing WITH
  bucket <- listBucket, pc <- listPc, page <- listPage, after <- listAfter,
  more <- listMore, entries <- listEntries, writes <- listWrites,
  faults <- listFaults, stable <- listStable, held <- listHeld, LastKey <- 4,
  PageSize <- 2, Huge <- {4}, MaxWrites <- 2, MaxFaults <- 1

-----------------------------------------------------------------------------
(* The audit log, notifications and probes.  The channel of batches of the *)
(* one worker overflows at the sixth batch.                                *)

Log == INSTANCE AuditStore WITH
  now <- logNow, rows <- logRows, pending <- logPending, filter <- logFilter,
  limit <- logLimit, cursor <- logCursor, listed <- logListed, pc <- logPc,
  atStart <- logAtStart, Ids <- 1..4, Scopes <- {"a", "b"}, MaxTime <- 1,
  MaxLimit <- 2, DefaultLimit <- 1, Limits <- {0, 2, 3}

Note == INSTANCE NotifyClient WITH
  closed <- noteClosed, queue <- noteQueue, queueClosed <- noteQueueClosed,
  batch <- noteBatch, batches <- noteBatches, dispatcher <- noteDispatcher,
  worker <- noteWorker, sent <- noteSent, dropped <- noteDropped,
  recorded <- noteRecorded, closer <- noteCloser, transport <- noteTransport,
  recorder <- noteRecorder, panicked <- notePanicked, Workers <- {"w1"},
  BufferSize <- 1, MaxBatch <- 2, Closers <- {"k1"}, Recorders <- {"r1", "r2"},
  MaxItems <- 6

Probe == INSTANCE HealthCheck WITH
  registered <- probeRegistered, call <- probeCall, snapshot <- probeSnapshot,
  fn <- probeFn, buf <- probeBuf, res <- probeRes, verdict <- probeVerdict,
  Names <- {"n1", "n2"}, Calls <- {"k1", "k2"}

-----------------------------------------------------------------------------
(* Responses: small trees and error envelopes, every reason not to look at *)
(* one, and one envelope for the sizes of the metadata.                    *)

JSON == INSTANCE JSONRedact WITH Builtin <- {"token"}

Objects(ks, vals) == UNION {{JSON!Obj(f) : f \in [s -> vals]} : s \in SUBSET ks}
Arrays(vals) == {JSON!Arr(<<>>)} \cup {JSON!Arr(<<v, JSON!Text("w")>>) : v \in vals}

Leaves == {JSON!Text("v")}
Flat == Objects({"a", "token", "Card"}, Leaves)
Middle == Leaves \cup Flat \cup Arrays(Flat)
RedTrees == Objects({"a", "b"}, Middle) \cup Arrays(Middle)

ShortPaths == UNION {[1..n -> {"a", JSON!Star}] : n \in 1..2}
Paths == ShortPaths \cup [1..3 -> {"a", JSON!Star}]
PathLists == {<<>>} \cup {<<p>> : p \in Paths} \cup {<<p, q>> : p, q \in ShortPaths}
RedConfigs == [paths : PathLists, keys : {{}, {"Card"}}]

Red == INSTANCE RedactPasses WITH
  tree <- redTree, used <- redUsed, out <- redOut, Builtin <- {"token"},
  Trees <- RedTrees, Configs <- RedConfigs

Texts == {JSON!Text("v"), JSON!Text("credential")}
Inner == Objects({"code", "token"}, {JSON!Text("v")})
         \cup Objects({"message", "customer"}, Texts)
Nested == Inner \cup {JSON!Obj("error" :> x @@ "code" :> JSON!Text("v")) : x \in Inner}
Values == Texts \cup Nested \cup {JSON!Num, JSON!Null, JSON!Arr(<<JSON!Text("v")>>)}

Bodies ==
  { JSON!Obj("error" :> e @@ r) : e \in Values,
      r \in UNION {[s -> {JSON!Text("v"), JSON!Num, JSON!Null}] :
                     s \in SUBSET {"message", "status", "customer"}} }
  \cup Objects({"message", "token", "card"}, Texts)

Redactions == [paths : {<<>>, <<<<"error", "message">>>>, <<<<"message">>>>},
               keys : {{}, {"Card"}, {"code"}}]

CapInputs ==
  [body : Bodies, complete : {TRUE}, encoded : {FALSE}, json : {TRUE}, long : {FALSE},
   redact : Redactions]
  \cup [body : {[kind |-> "invalid"], [kind |-> "empty"], JSON!Null, JSON!Text("v"),
                JSON!Obj("message" :> JSON!Text("v"))},
        complete : BOOLEAN, encoded : BOOLEAN, json : BOOLEAN, long : BOOLEAN,
        redact : {[paths |-> <<>>, keys |-> {}]}]

CapOneInput ==
  [body : {[kind |-> "empty"], JSON!Obj("message" :> JSON!Text("v"))}, complete : {TRUE},
   encoded : {FALSE}, json : {TRUE}, long : {FALSE}, redact : {[paths |-> <<>>, keys |-> {}]}]

Fields == INSTANCE AuditCapture WITH
  in <- capIn, resp <- capResp, meta <- capMeta, raw <- capRaw,
  Builtin <- {"token"}, Inputs <- CapInputs, MaxDepth <- 1, Sizes <- {0},
  MaxMetadata <- 1

Budget == INSTANCE AuditCapture WITH
  in <- capIn, resp <- capResp, meta <- capMeta, raw <- capRaw,
  Builtin <- {"token"}, Inputs <- CapOneInput, MaxDepth <- 1,
  Sizes <- {0, 1, 3, 5, 8, 17}, MaxMetadata <- 16

-----------------------------------------------------------------------------
(* HTTP: bodies within and beyond the client's limit; two calls of a       *)
(* handler below the middlewares.                                          *)

Cli == INSTANCE ClientX WITH
  setup <- cliSetup, pc <- cliPc, sent <- cliSent, got <- cliGot,
  expired <- cliExpired, out <- cliOut, MaxResponse <- 2, LogCap <- 1,
  MaxBody <- 4

Mid == INSTANCE Middleware WITH
  chain <- midChain, at <- midAt, reqId <- midReqId, rec <- midRec, out <- midOut,
  logged <- midLogged, ops <- midOps, seen <- midSeen, panicked <- midPanicked,
  misled <- midMisled, MaxOps <- 2

-----------------------------------------------------------------------------
Parts == {"migrations", "email", "upload", "listing", "store", "notify", "probe",
          "redact", "fields", "budget", "client", "middleware"}

Off == 0

\* A component that is not at work.
mailOff ==
  /\ mailCfg = Off /\ mailMsg = Off /\ mailPc = Off /\ mailTls = Off
  /\ mailChallenges = Off /\ mailAttempts = Off /\ mailOut = Off
  /\ mailAccepted = Off /\ mailPasswords = Off
upOff ==
  /\ upSetup = Off /\ upVersions = Off /\ upPc = Off /\ upTries = Off
  /\ upReply = Off /\ upRef = Off /\ upLength = Off /\ upGot = Off
  /\ upRemaining = Off /\ upFaults = Off
listOff ==
  /\ listBucket = Off /\ listPc = Off /\ listPage = Off /\ listAfter = Off
  /\ listMore = Off /\ listEntries = Off /\ listWrites = Off /\ listFaults = Off
  /\ listStable = Off /\ listHeld = Off
logOff ==
  /\ logNow = Off /\ logRows = Off /\ logPending = Off /\ logFilter = Off
  /\ logLimit = Off /\ logCursor = Off /\ logListed = Off /\ logPc = Off
  /\ logAtStart = Off
noteOff ==
  /\ noteClosed = Off /\ noteQueue = Off /\ noteQueueClosed = Off
  /\ noteBatch = Off /\ noteBatches = Off /\ noteDispatcher = Off
  /\ noteWorker = Off /\ noteSent = Off /\ noteDropped = Off /\ noteRecorded = Off
  /\ noteCloser = Off /\ noteTransport = Off /\ noteRecorder = Off
  /\ notePanicked = Off
probeOff ==
  /\ probeRegistered = Off /\ probeCall = Off /\ probeSnapshot = Off
  /\ probeFn = Off /\ probeBuf = Off /\ probeRes = Off /\ probeVerdict = Off
redOff ==
  /\ redTree = Off /\ redUsed = Off /\ redOut = Off
capOff ==
  /\ capIn = Off /\ capResp = Off /\ capMeta = Off /\ capRaw = Off
cliOff ==
  /\ cliSetup = Off /\ cliPc = Off /\ cliSent = Off /\ cliGot = Off
  /\ cliExpired = Off /\ cliOut = Off
midOff ==
  /\ midChain = Off /\ midAt = Off /\ midReqId = Off /\ midRec = Off
  /\ midOut = Off /\ midLogged = Off /\ midOps = Off /\ midSeen = Off
  /\ midPanicked = Off /\ midMisled = Off

AdInit ==
  /\ part \in Parts
  /\ Init
  /\ IF part = "email" THEN Mail!Init ELSE mailOff
  /\ IF part = "upload" THEN Stream!Init ELSE upOff
  /\ IF part = "listing" THEN List!Init ELSE listOff
  /\ IF part = "store" THEN Log!Init ELSE logOff
  /\ IF part = "notify" THEN Note!Init ELSE noteOff
  /\ IF part = "probe" THEN Probe!Init ELSE probeOff
  /\ IF part = "redact" THEN Red!Init ELSE redOff
  /\ IF part = "fields" THEN Fields!Init ELSE IF part = "budget" THEN Budget!Init ELSE capOff
  /\ IF part = "client" THEN Cli!Init ELSE cliOff
  /\ IF part = "middleware" THEN Mid!Init ELSE midOff

\* Everything but the component at work stays as it is.
Still(p) ==
  /\ UNCHANGED part
  /\ IF p = "migrations" THEN TRUE ELSE UNCHANGED vars
  /\ IF p = "email" THEN TRUE ELSE UNCHANGED mailVars
  /\ IF p = "upload" THEN TRUE ELSE UNCHANGED upVars
  /\ IF p = "listing" THEN TRUE ELSE UNCHANGED listVars
  /\ IF p = "store" THEN TRUE ELSE UNCHANGED logVars
  /\ IF p = "notify" THEN TRUE ELSE UNCHANGED noteVars
  /\ IF p = "probe" THEN TRUE ELSE UNCHANGED probeVars
  /\ IF p = "redact" THEN TRUE ELSE UNCHANGED redVars
  /\ IF p \in {"fields", "budget"} THEN TRUE ELSE UNCHANGED capVars
  /\ IF p = "client" THEN TRUE ELSE UNCHANGED cliVars
  /\ IF p = "middleware" THEN TRUE ELSE UNCHANGED midVars

AdNext ==
  \/ part = "migrations" /\ Next /\ Still("migrations")
  \/ part = "email" /\ Mail!Next /\ Still("email")
  \/ part = "upload" /\ Stream!Next /\ Still("upload")
  \/ part = "listing" /\ List!Next /\ Still("listing")
  \/ part = "store" /\ Log!Next /\ Still("store")
  \/ part = "notify" /\ Note!Next /\ Still("notify")
  \/ part = "probe" /\ Probe!Next /\ Still("probe")
  \/ part = "redact" /\ Red!Next /\ Still("redact")
  \/ part = "fields" /\ Fields!Next /\ Still("fields")
  \/ part = "budget" /\ Budget!Next /\ Still("budget")
  \/ part = "client" /\ Cli!Next /\ Still("client")
  \/ part = "middleware" /\ Mid!Next /\ Still("middleware")

AdSpec == AdInit /\ [][AdNext]_adVars

-----------------------------------------------------------------------------
(* Properties; MigrationsSafe of the migrations is their own.              *)

\* Type invariant of the component at work.
AdTypeOK ==
  CASE part = "migrations" -> TypeOK
    [] part = "email" -> Mail!TypeOK
    [] part = "upload" -> Stream!TypeOK
    [] part = "listing" -> List!TypeOK
    [] part = "store" -> Log!TypeOK
    [] part = "probe" -> Probe!TypeOK
    [] part = "notify" -> Note!TypeOK
    [] part = "redact" -> Red!TypeOK
    [] part = "fields" -> Fields!TypeOK
    [] part = "budget" -> Budget!TypeOK
    [] part = "client" -> Cli!TypeOK
    [] part = "middleware" -> Mid!TypeOK

\* Email: a service that repeats what is retryable, and nothing else, has the
\* message taken at most once, wherever the connection breaks; a receipt is given
\* only for a message that was taken and a rejection only for one that was not;
\* a dialogue sends the password once at most, however many challenges come.
MailHonest ==
  part = "email" => Mail!NoDuplicate /\ Mail!VerdictTrue /\ Mail!PasswordOnce

\* PutStreamIfAbsent, OpenVersion and ListObjects: one version when all writers
\* are conditional, through retries; a receipt names the writer's own body; a
\* download is whole, of the pinned version and within its budget; a listing
\* holds every object that was there all along, each once, with the ETag of the
\* body beside it, however others write meanwhile.
ObjectsHonest ==
  CASE part = "upload" -> /\ Stream!OneVersion /\ Stream!ReceiptIsOwn
                          /\ Stream!PinnedAndWhole /\ Stream!WithinBudget
    [] part = "listing" -> List!Complete /\ List!EachOnce /\ List!Coherent
    [] OTHER -> TRUE

\* PostgresStore.List: a walk over all pages has every event that was visible
\* when it began, newest first, once, and within the filter, although events come
\* in between the pages and the cursor row has equals in time.  Check: a probe
\* says ready only if every function of its snapshot has really returned, and none
\* of them failed.
ReportsTrue ==
  CASE part = "store" -> Log!WalkComplete /\ Log!NewestFirst /\ Log!KeepsFilter
    [] part = "probe" -> Probe!ReadyIsTrue
    [] OTHER -> TRUE

\* notify.Client: every notification is held by its Record call, is in exactly one
\* place of the pipeline, was sent, or was handed to the fallback; and a Close
\* that is called once closes the transport after everything that was queued left
\* the pipeline.
NotesKept == part = "notify" => Note!Conserved /\ Note!TransportClosedLast

\* ParseAndRedactJSON, CaptureHTTPResponse and EncodeHTTPMetadata: exactly the
\* fields that a path or key names are masked; an event holds diagnostic texts
\* only, none that the built-in keys or the route's hide, and says when fields
\* are missing; the status survives the metadata limit, and the body is given up
\* before the caller's fields.
CaptureSafe ==
  CASE part = "redact" -> Red!RedactsExactly
    [] part = "fields" -> Fields!NoLeak /\ Fields!Declared
    [] part = "budget" -> Budget!BasicSurvives /\ Budget!DropsInOrder
    [] OTHER -> TRUE

\* clientx: a success is an allowed status with the whole body, and an error's
\* body is capped, and nil when the response was too large.  The middlewares, in
\* any order: the access log has the status and the ID that the client got, a
\* recovered panic never drops the connection, and a client that is told 503 gets
\* nothing of the handler's late output.
HTTPSound ==
  CASE part = "client" -> Cli!SuccessIsWhole /\ Cli!ErrorBody
    [] part = "middleware" -> /\ Mid!LogTruth /\ Mid!IdAgrees
                              /\ Mid!PanicsAnswered /\ Mid!Unmixed
    [] OTHER -> TRUE
=============================================================================
