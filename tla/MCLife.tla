------------------------------- MODULE MCLife -------------------------------
(***************************************************************************)
(* What must eventually happen: the components whose calls and life cycles *)
(* have to end, on instances that are small enough for the temporal        *)
(* properties.  "part" says which of them is at work in a behaviour; the   *)
(* HTTP server rests in its initial state otherwise, and the others are    *)
(* off.                                                                    *)
(***************************************************************************)
EXTENDS HTTPServer, Naturals, Sequences

CONSTANT NoCall   \* no call, no result

VARIABLES part,
          grpCalls, grpCall, grpProc, grpOutcome,
          rtNow, rtCache, rtHolder, rtReq, rtTokens, rtLast, rtSpent,
          iamNow, iamMode, iamToken, iamFlight, iamCall, iamOut,
          pubPc, pubN, pubFate, pubWire, pubReturns, pubConfirms, pubOpen,
          pubListening, pubVerdict,
          relStart, relStop, relOnce, relPc, relCancelled, relWorker,
          relTransport, relRegistered, relDatabase, relCrashed,
          migPc, migAt, migTx, migTable, migRecorded, migEffects, migFaults,
          upSetup, upVersions, upPc, upTries, upReply, upRef, upLength, upGot,
          upRemaining, upFaults,
          listBucket, listPc, listPage, listAfter, listMore, listEntries,
          listWrites, listFaults, listStable, listHeld,
          probeRegistered, probeCall, probeSnapshot, probeFn, probeBuf, probeRes,
          probeVerdict,
          cliSetup, cliPc, cliSent, cliGot, cliExpired, cliOut,
          midChain, midAt, midReqId, midRec, midOut, midLogged, midOps, midSeen,
          midPanicked, midMisled

grpVars == <<grpCalls, grpCall, grpProc, grpOutcome>>
rtVars == <<rtNow, rtCache, rtHolder, rtReq, rtTokens, rtLast, rtSpent>>
iamVars == <<iamNow, iamMode, iamToken, iamFlight, iamCall, iamOut>>
pubVars == <<pubPc, pubN, pubFate, pubWire, pubReturns, pubConfirms, pubOpen,
  pubListening, pubVerdict>>
relVars == <<relStart, relStop, relOnce, relPc, relCancelled, relWorker,
  relTransport, relRegistered, relDatabase, relCrashed>>
migVars == <<migPc, migAt, migTx, migTable, migRecorded, migEffects, migFaults>>
upVars == <<upSetup, upVersions, upPc, upTries, upReply, upRef, upLength, upGot,
  upRemaining, upFaults>>
listVars == <<listBucket, listPc, listPage, listAfter, listMore, listEntries,
  listWrites, listFaults, listStable, listHeld>>
probeVars == <<probeRegistered, probeCall, probeSnapshot, probeFn, probeBuf,
  probeRes, probeVerdict>>
cliVars == <<cliSetup, cliPc, cliSent, cliGot, cliExpired, cliOut>>
midVars == <<midChain, midAt, midReqId, midRec, midOut, midLogged, midOps,
  midSeen, midPanicked, midMisled>>
lifeVars == <<part, srvVars, grpVars, rtVars, iamVars, pubVars, relVars, migVars,
  upVars, listVars, probeVars, cliVars, midVars>>

-----------------------------------------------------------------------------
(* Two callers, writers or instances of each; three goroutines that stop   *)
(* the relay.                                                              *)

Callers == {"c1", "c2"}
RelStoppers == {"s1", "s2", "s3"}
MigInstances == {"p1", "p2"}
UpWriters == {"w1", "w3"}
UpSize(w) == CASE w = "w1" -> 1 [] w = "w3" -> 3
UpConditional == {UpWriters, {"w1"}}

IamConfigs ==
  [mode : {"iam_token", "oauth_token", "metadata", "service_account", "static"},
   has : SUBSET {"iam", "oauth", "keyfile"}, keyfile : {"parses", "broken"}]

Group == INSTANCE ReadGroup WITH
  calls <- grpCalls, call <- grpCall, proc <- grpProc, outcome <- grpOutcome,
  Callers <- Callers, Keys <- {"k1", "k2", "long"}, BadKeys <- {"long"},
  Values <- {"v"}, Tickets <- {"t1", "t2"}, None <- NoCall, MaxKeys <- 1,
  MaxFollowers <- 1

Router == INSTANCE RouterClient WITH
  now <- rtNow, cache <- rtCache, holder <- rtHolder, req <- rtReq,
  tokens <- rtTokens, last <- rtLast, spent <- rtSpent, Callers <- Callers,
  Lifetimes <- {4}, Buffer <- 2, StsTimeout <- 2, MaxRetries <- 2, BudgetCap <- 1,
  Refill <- 2, MaxTime <- 3

Iam == INSTANCE IAMToken WITH
  now <- iamNow, mode <- iamMode, token <- iamToken, flight <- iamFlight,
  call <- iamCall, out <- iamOut, Callers <- Callers, Configs <- IamConfigs,
  Life <- 5, Margin <- 2, DefaultLife <- 4, Timeout <- 2, MaxTime <- 3

Pub == INSTANCE PublishConfirm WITH
  pc <- pubPc, n <- pubN, fate <- pubFate, wire <- pubWire, returns <- pubReturns,
  confirms <- pubConfirms, open <- pubOpen, listening <- pubListening,
  verdict <- pubVerdict, MaxMessages <- 3

Rel == INSTANCE AuditRelay WITH
  start <- relStart, stop <- relStop, once <- relOnce, pc <- relPc,
  cancelled <- relCancelled, worker <- relWorker, transport <- relTransport,
  registered <- relRegistered, database <- relDatabase, crashed <- relCrashed,
  Stoppers <- RelStoppers

Mig == INSTANCE Migrations WITH
  pc <- migPc, at <- migAt, tx <- migTx, table <- migTable,
  recorded <- migRecorded, effects <- migEffects, faults <- migFaults,
  Instances <- MigInstances, Last <- 2, MaxFaults <- 2

Stream == INSTANCE S3Stream WITH
  setup <- upSetup, versions <- upVersions, pc <- upPc, tries <- upTries,
  reply <- upReply, ref <- upRef, length <- upLength, got <- upGot,
  remaining <- upRemaining, faults <- upFaults, Writers <- UpWriters,
  Size <- UpSize, Conditional <- UpConditional, MaxStream <- 3, MaxBytes <- 2,
  MaxFaults <- 2

List == INSTANCE S3Listing WITH
  bucket <- listBucket, pc <- listPc, page <- listPage, after <- listAfter,
  more <- listMore, entries <- listEntries, writes <- listWrites,
  faults <- listFaults, stable <- listStable, held <- listHeld, LastKey <- 3,
  PageSize <- 2, Huge <- {3}, MaxWrites <- 2, MaxFaults <- 1

Probe == INSTANCE HealthCheck WITH
  registered <- probeRegistered, call <- probeCall, snapshot <- probeSnapshot,
  fn <- probeFn, buf <- probeBuf, res <- probeRes, verdict <- probeVerdict,
  Names <- {"n1", "n2"}, Calls <- {"k1"}

Cli == INSTANCE ClientX WITH
  setup <- cliSetup, pc <- cliPc, sent <- cliSent, got <- cliGot,
  expired <- cliExpired, out <- cliOut, MaxResponse <- 1, LogCap <- 1,
  MaxBody <- 2

Mid == INSTANCE Middleware WITH
  chain <- midChain, at <- midAt, reqId <- midReqId, rec <- midRec, out <- midOut,
  logged <- midLogged, ops <- midOps, seen <- midSeen, panicked <- midPanicked,
  misled <- midMisled, MaxOps <- 1

ASSUME LifeInstances == Iam!IAMConstants /\ Stream!StreamBounds

-----------------------------------------------------------------------------
Parts == {"group", "router", "iam", "publish", "relay", "migrations", "upload",
          "listing", "probe", "server", "client", "middleware"}

Off == 0

\* A component that is not at work.
grpOff ==
  /\ grpCalls = Off /\ grpCall = Off /\ grpProc = Off /\ grpOutcome = Off
rtOff ==
  /\ rtNow = Off /\ rtCache = Off /\ rtHolder = Off /\ rtReq = Off
  /\ rtTokens = Off /\ rtLast = Off /\ rtSpent = Off
iamOff ==
  /\ iamNow = Off /\ iamMode = Off /\ iamToken = Off /\ iamFlight = Off
  /\ iamCall = Off /\ iamOut = Off
pubOff ==
  /\ pubPc = Off /\ pubN = Off /\ pubFate = Off /\ pubWire = Off
  /\ pubReturns = Off /\ pubConfirms = Off /\ pubOpen = Off /\ pubListening = Off
  /\ pubVerdict = Off
relOff ==
  /\ relStart = Off /\ relStop = Off /\ relOnce = Off /\ relPc = Off
  /\ relCancelled = Off /\ relWorker = Off /\ relTransport = Off
  /\ relRegistered = Off /\ relDatabase = Off /\ relCrashed = Off
migOff ==
  /\ migPc = Off /\ migAt = Off /\ migTx = Off /\ migTable = Off
  /\ migRecorded = Off /\ migEffects = Off /\ migFaults = Off
upOff ==
  /\ upSetup = Off /\ upVersions = Off /\ upPc = Off /\ upTries = Off
  /\ upReply = Off /\ upRef = Off /\ upLength = Off /\ upGot = Off
  /\ upRemaining = Off /\ upFaults = Off
listOff ==
  /\ listBucket = Off /\ listPc = Off /\ listPage = Off /\ listAfter = Off
  /\ listMore = Off /\ listEntries = Off /\ listWrites = Off /\ listFaults = Off
  /\ listStable = Off /\ listHeld = Off
probeOff ==
  /\ probeRegistered = Off /\ probeCall = Off /\ probeSnapshot = Off
  /\ probeFn = Off /\ probeBuf = Off /\ probeRes = Off /\ probeVerdict = Off

cliOff ==
  /\ cliSetup = Off /\ cliPc = Off /\ cliSent = Off /\ cliGot = Off
  /\ cliExpired = Off /\ cliOut = Off
midOff ==
  /\ midChain = Off /\ midAt = Off /\ midReqId = Off /\ midRec = Off
  /\ midOut = Off /\ midLogged = Off /\ midOps = Off /\ midSeen = Off
  /\ midPanicked = Off /\ midMisled = Off

LifeInit ==
  /\ part \in Parts
  /\ ServerInit
  /\ IF part = "group" THEN Group!GroupInit ELSE grpOff
  /\ IF part = "router" THEN Router!Init ELSE rtOff
  /\ IF part = "iam" THEN Iam!Init ELSE iamOff
  /\ IF part = "publish" THEN Pub!Init ELSE pubOff
  /\ IF part = "relay" THEN Rel!Init ELSE relOff
  /\ IF part = "migrations" THEN Mig!Init ELSE migOff
  /\ IF part = "upload" THEN Stream!Init ELSE upOff
  /\ IF part = "listing" THEN List!Init ELSE listOff
  /\ IF part = "probe" THEN Probe!Init ELSE probeOff
  /\ IF part = "client" THEN Cli!Init ELSE cliOff
  /\ IF part = "middleware" THEN Mid!Init ELSE midOff

\* Everything but the component at work stays as it is.
Still(p) ==
  /\ UNCHANGED part
  /\ IF p = "group" THEN TRUE ELSE UNCHANGED grpVars
  /\ IF p = "router" THEN TRUE ELSE UNCHANGED rtVars
  /\ IF p = "iam" THEN TRUE ELSE UNCHANGED iamVars
  /\ IF p = "publish" THEN TRUE ELSE UNCHANGED pubVars
  /\ IF p = "relay" THEN TRUE ELSE UNCHANGED relVars
  /\ IF p = "migrations" THEN TRUE ELSE UNCHANGED migVars
  /\ IF p = "upload" THEN TRUE ELSE UNCHANGED upVars
  /\ IF p = "listing" THEN TRUE ELSE UNCHANGED listVars
  /\ IF p = "probe" THEN TRUE ELSE UNCHANGED probeVars
  /\ IF p = "server" THEN TRUE ELSE UNCHANGED srvVars
  /\ IF p = "client" THEN TRUE ELSE UNCHANGED cliVars
  /\ IF p = "middleware" THEN TRUE ELSE UNCHANGED midVars

LifeNext ==
  \/ part = "group" /\ Group!GroupNext /\ Still("group")
  \/ part = "router" /\ Router!Next /\ Still("router")
  \/ part = "iam" /\ Iam!Next /\ Still("iam")
  \/ part = "publish" /\ Pub!Next /\ Still("publish")
  \/ part = "relay" /\ Rel!Next /\ Still("relay")
  \/ part = "migrations" /\ Mig!Next /\ Still("migrations")
  \/ part = "upload" /\ Stream!Next /\ Still("upload")
  \/ part = "listing" /\ List!Next /\ Still("listing")
  \/ part = "probe" /\ Probe!Next /\ Still("probe")
  \/ part = "server" /\ ServerNext /\ Still("server")
  \/ part = "client" /\ Cli!Next /\ Still("client")
  \/ part = "middleware" /\ Mid!Next /\ Still("middleware")

\* The fairness of each component, for the one at work.
LifeFairness ==
  /\ \A c \in Callers :
       /\ WF_grpVars(part = "group" /\ Group!Ends(c))
       /\ WF_grpVars(part = "group" /\ Group!Loads(c))
       /\ WF_grpVars(part = "group" /\ Group!Woken(c))
       /\ WF_rtVars(part = "router" /\ Router!Step(c))
       /\ SF_rtVars(part = "router" /\ Router!Lock(c))
       /\ WF_iamVars(part = "iam" /\ Iam!Quick(c))
       /\ WF_iamVars(part = "iam" /\ Iam!Join(c))
  /\ WF_iamVars(part = "iam" /\ Iam!Check)
  /\ WF_iamVars(part = "iam" /\ (Iam!RefreshFails \/ Iam!Refreshed))
  /\ WF_pubVars(part = "publish" /\ (Pub!BrokerAnswers \/ Pub!Close))
  /\ WF_pubVars(part = "publish" /\ Pub!Dispatch)
  /\ WF_pubVars(part = "publish" /\ Pub!Await)
  /\ WF_relVars(part = "relay" /\ Rel!Settle)
  /\ WF_relVars(part = "relay" /\ Rel!WorkerEnds)
  /\ \A s \in RelStoppers : /\ WF_relVars(part = "relay" /\ Rel!Join(s))
                            /\ WF_relVars(part = "relay" /\ Rel!Waited(s))
  /\ \A p \in MigInstances :
       WF_migVars(part = "migrations" /\ (Mig!Step(p) \/ Mig!Restart(p)))
  /\ \A w \in UpWriters : WF_upVars(part = "upload" /\ Stream!Step(w))
  /\ WF_listVars(part = "listing" /\ List!ListObjects)
  /\ WF_probeVars(part = "probe" /\ Probe!Collect("k1"))
  /\ \A n \in {"n1", "n2"} :
       /\ WF_probeVars(part = "probe" /\ (Probe!Takes("k1", n) \/ Probe!TimesOut("k1", n)))
       /\ WF_probeVars(part = "probe" /\ Probe!Sends("k1", n))
  /\ WF_srvVars(part = "server" /\ RunStep)
  /\ \A t \in Stoppers \cup {RunStop} : WF_srvVars(part = "server" /\ StopperRuns(t))
  /\ \A s \in Starters : WF_srvVars(part = "server" /\ StarterRuns(s))
  /\ WF_cliVars(part = "client" /\ Cli!Expires)
  /\ WF_cliVars(part = "client" /\ Cli!Read)
  /\ WF_cliVars(part = "client" /\ Cli!Judge)
  /\ WF_cliVars(part = "client" /\ Cli!BodyOver)
  /\ WF_cliVars(part = "client" /\ cliExpired /\ Cli!DoFails)
  /\ WF_cliVars(part = "client" /\ Cli!ReadExpired)
  /\ WF_midVars(part = "middleware" /\ Mid!Server)

LifeSpec == LifeInit /\ [][LifeNext]_lifeVars /\ LifeFairness

-----------------------------------------------------------------------------
(* Properties; ServerSafe of the server is its own.                        *)

\* Await: nil is said of this very message, whichever case the select picks,
\* whatever earlier messages left and whenever the connection breaks, and a
\* return or a nack of the message the broker said it of.  StartRouterRelay: the
\* worker never runs on a closed database or transport, whichever goroutine's
\* stop returns first, and a stop that has returned leaves nothing behind.  An
\* HTTP server that says it serves has a listener, or is about to say otherwise.
\* Their type invariants hold.
Truthful ==
  CASE part = "publish" -> Pub!TypeOK /\ Pub!SuccessIsDelivery /\ Pub!BlameIsDue
    [] part = "relay" -> Rel!TypeOK /\ Rel!WorkerHasAll /\ Rel!StoppedClean
    [] part = "server" -> ServerTypeOK /\ ServingListens
    [] OTHER -> TRUE

\* Await: it ends without the help of its context.
Concludes ==
  (part = "publish" /\ pubPc = "await") ~> (part = "publish" /\ pubPc = "idle")

\* StartRouterRelay: every stop returns.
StopReturns ==
  \A s \in RelStoppers :
    (part = "relay" /\ relPc[s] \in {"joining", "waiting"})
      ~> (part = "relay" /\ relPc[s] = "stopped")

\* Do: every call returns, also that of a follower whose leader panicked.
DoReturns ==
  \A c \in Callers :
    (part = "group" /\ grpProc[c].pc # "idle") ~> (part = "group" /\ grpProc[c].pc = "idle")

\* Client.Do of routerclient: every request is answered, although callers wait
\* for the exchange of another one, which may fail.
Answered ==
  \A c \in Callers :
    (part = "router" /\ rtReq[c].pc # "idle") ~> (part = "router" /\ rtReq[c].pc = "idle")

\* ResolveToken: every call returns, also those that joined a flight that fails.
Resolved ==
  \A c \in Callers :
    (part = "iam" /\ iamCall[c] # "idle") ~> (part = "iam" /\ iamCall[c] = "idle")

\* RunMigrations: once the faults are over every instance comes up; who loses the
\* race for a migration fails once and finds it recorded after its restart.
AllUp ==
  \A p \in MigInstances : part = "migrations" ~> (part = "migrations" /\ migPc[p] = "done")

\* PutStream: once the faults are over every writer has its receipt, has verified
\* the object that was there, or has been refused.
Settled ==
  \A w \in UpWriters :
    part = "upload"
      ~> (part = "upload" /\ upPc[w] \in {"stored", "verified", "unread", "refused"})

\* ListObjects: every listing ends.
Ends == part = "listing" ~> (part = "listing" /\ listPc \in {"done", "failed"})

\* Check: it returns although functions hang or panic.
CheckReturns ==
  (part = "probe" /\ probeCall["k1"] = "collect") ~> (part = "probe" /\ probeCall["k1"] = "done")

\* runCheck: the goroutine of a function that returns after the timeout still ends.
NoGoroutineLeft ==
  \A n \in {"n1", "n2"} :
    (part = "probe" /\ probeFn["k1"][n] \in Probe!Finished)
      ~> (part = "probe" /\ probeFn["k1"][n] = "gone")

\* DoJSON: with a deadline on the request or in the options the call returns,
\* also when the server stalls in the middle of a body that is being discarded.
Returns ==
  (part = "client" /\ (cliSetup.reqDeadline \/ cliSetup.timeout))
    ~> (part = "client" /\ cliPc = "returned")

\* Timeout: the request ends even if the handler never returns.
HardDeadline ==
  (part = "middleware" /\ Mid!Has("timeout"))
    ~> (part = "middleware" /\ midAt["srv"].pc \in {"done", "aborted"})

\* Run ends after the signal and after its server has gone, a shutdown frees the
\* port, a call with a deadline returns and a request with a Timeout ends.
HTTPEnds == RunReturns /\ PortFreed /\ Returns /\ HardDeadline

\* Every call and life cycle ends: those of the publisher, the relay, shared
\* loads, routed requests, IAM tokens, migrations, uploads, listings and probes.
AllEnd ==
  /\ Concludes /\ StopReturns /\ DoReturns /\ Answered /\ Resolved
  /\ AllUp /\ Settled /\ Ends /\ CheckReturns /\ NoGoroutineLeft
=============================================================================
