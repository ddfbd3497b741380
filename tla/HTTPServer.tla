----------------------------- MODULE HTTPServer -----------------------------
(***************************************************************************)
(* httpserver.Server: its state word, written without a lock by starters,  *)
(* by the first Accept and by Shutdown, over the listener handling of      *)
(* net/http.  One starter may be the goroutine of Run.                     *)
(***************************************************************************)
EXTENDS Naturals, FiniteSets

CONSTANTS Starters,  \* goroutines that call ListenAndServe or Serve
          Stoppers,  \* goroutines that call Shutdown
          Runner     \* the one of Starters that Run started, or none of them

VARIABLES state,     \* Server.state
          start,     \* ListenAndServe or Serve of each starter
          listener,  \* its listener: none, open or closed
          stop,      \* Shutdown of each stopper
          closing,   \* http.Server.inShutdown
          run,       \* Run
          signal,    \* its context is done
          shut,      \* ghost: some Shutdown has stored stateDraining
          late       \* ghost: a connection was accepted after a Shutdown had closed the listeners

srvVars == <<state, start, listener, stop, closing, run, signal, shut, late>>

\* Run calls Shutdown too.
RunStop == "run"

ASSUME ServerConstants == RunStop \notin Stoppers

States == {"idle", "starting", "serving", "draining", "stopped"}

ServerInit ==
  /\ state = "idle" /\ closing = FALSE /\ signal = FALSE /\ shut = FALSE /\ late = FALSE
  /\ start = [s \in Starters |-> "idle"]
  /\ listener = [s \in Starters |-> "none"]
  /\ stop = [t \in Stoppers \cup {RunStop} |-> "idle"]
  /\ run = IF Runner \in Starters THEN "start" ELSE "off"

MayStart(s) == s = Runner => run # "start"

\* CompareAndSwap of ListenAndServe or Serve; who fails gets ErrServerClosed.
Claim(s) ==
  /\ start[s] = "idle" /\ MayStart(s)
  /\ IF state = "idle"
     THEN state' = "starting" /\ start' = [start EXCEPT ![s] = "bind"]
     ELSE state' = state /\ start' = [start EXCEPT ![s] = "refused"]
  /\ UNCHANGED <<listener, stop, closing, run, signal, shut, late>>

Bind(s) ==
  /\ start[s] = "bind"
  /\ start' = [start EXCEPT ![s] = "register"]
  /\ listener' = [listener EXCEPT ![s] = "open"]
  /\ UNCHANGED <<state, stop, closing, run, signal, shut, late>>

BindFails(s) ==
  /\ start[s] = "bind"
  /\ state' = "stopped"
  /\ start' = [start EXCEPT ![s] = "failed"]
  /\ UNCHANGED <<listener, stop, closing, run, signal, shut, late>>

\* http.Server.Serve registers the listener, unless a shutdown has begun.
Register(s) ==
  /\ start[s] = "register"
  /\ IF closing
     THEN /\ start' = [start EXCEPT ![s] = "exit"]
          /\ listener' = [listener EXCEPT ![s] = "closed"]
     ELSE /\ start' = [start EXCEPT ![s] = "accept"]
          /\ UNCHANGED listener
  /\ UNCHANGED <<state, stop, closing, run, signal, shut, late>>

\* Mutated: the first Accept stores serving without a comparison.
ReadyAlways(s) ==
  /\ start[s] = "accept"
  /\ state' = "serving"
  /\ start' = [start EXCEPT ![s] = "waiting"]
  /\ UNCHANGED <<listener, stop, closing, run, signal, shut, late>>

\* servingListener.Accept, before it waits for a connection.
Ready(s) ==
  /\ start[s] = "accept"
  /\ state' = IF state = "starting" THEN "serving" ELSE state
  /\ start' = [start EXCEPT ![s] = "waiting"]
  /\ UNCHANGED <<listener, stop, closing, run, signal, shut, late>>

Accepted(s) ==
  /\ start[s] = "waiting" /\ listener[s] = "open"
  /\ start' = [start EXCEPT ![s] = "accept"]
  /\ late' = (late \/ \E t \in DOMAIN stop : stop[t] \in {"wait", "done"})
  /\ UNCHANGED <<state, listener, stop, closing, run, signal, shut>>

\* Accept fails: the listener was closed, or broke by itself.
AcceptFails(s) ==
  /\ start[s] = "waiting"
  /\ start' = [start EXCEPT ![s] = "exit"]
  /\ listener' = [listener EXCEPT ![s] = "closed"]
  /\ UNCHANGED <<state, stop, closing, run, signal, shut, late>>

\* The deferred Store of serve; the error is ErrServerClosed after a shutdown.
Exit(s) ==
  /\ start[s] = "exit"
  /\ state' = "stopped"
  /\ start' = [start EXCEPT ![s] = IF closing THEN "closed" ELSE "failed"]
  /\ UNCHANGED <<listener, stop, closing, run, signal, shut, late>>

\* Shutdown stores its state before it does anything else.
Drain(t) ==
  /\ stop[t] = IF t = RunStop THEN "called" ELSE "idle"
  /\ state' = "draining" /\ shut' = TRUE
  /\ stop' = [stop EXCEPT ![t] = "close"]
  /\ UNCHANGED <<start, listener, closing, run, signal, late>>

\* http.Server.Shutdown: the flag and the registered listeners under its mutex.
CloseListeners(t) ==
  /\ stop[t] = "close"
  /\ closing' = TRUE
  /\ listener' = [s \in Starters |-> IF start[s] \in {"accept", "waiting"} THEN "closed" ELSE listener[s]]
  /\ stop' = [stop EXCEPT ![t] = "wait"]
  /\ UNCHANGED <<state, start, run, signal, shut, late>>

\* Its connections are idle, or its context has ended.
Stopped(t) ==
  /\ stop[t] = "wait"
  /\ stop' = [stop EXCEPT ![t] = "done"]
  /\ UNCHANGED <<state, start, listener, closing, run, signal, shut, late>>

-----------------------------------------------------------------------------
\* Run starts its goroutine ...
RunStarts ==
  /\ run = "start" /\ run' = "select"
  /\ UNCHANGED <<state, start, listener, stop, closing, signal, shut, late>>

Signal ==
  /\ run \in {"start", "select"} /\ ~signal /\ signal' = TRUE
  /\ UNCHANGED <<state, start, listener, stop, closing, run, shut, late>>

\* Mutated: a closed errCh does not lead to Shutdown; once Start was refused
\* the signal does not either.
RunIgnoresClosed ==
  /\ run = "select" /\ signal /\ start[Runner] # "refused"
  /\ run' = "stopping" /\ stop' = [stop EXCEPT ![RunStop] = "called"]
  /\ UNCHANGED <<state, start, listener, closing, signal, shut, late>>

\* ... and waits for the signal, or for errCh: an error ends it, a closed
\* channel (ErrServerClosed) leads to Shutdown like the signal.
RunFails ==
  /\ run = "select" /\ start[Runner] = "failed"
  /\ run' = "failed"
  /\ UNCHANGED <<state, start, listener, stop, closing, signal, shut, late>>

RunShutsDown ==
  /\ run = "select" /\ (signal \/ start[Runner] \in {"refused", "closed"})
  /\ run' = "stopping" /\ stop' = [stop EXCEPT ![RunStop] = "called"]
  /\ UNCHANGED <<state, start, listener, closing, signal, shut, late>>

RunEnds ==
  /\ run = "stopping" /\ stop[RunStop] = "done"
  /\ run' = "ended"
  /\ UNCHANGED <<state, start, listener, stop, closing, signal, shut, late>>

StarterStep(s) ==
  \/ Claim(s) \/ Bind(s) \/ BindFails(s) \/ Register(s) \/ Ready(s)
  \/ Accepted(s) \/ AcceptFails(s) \/ Exit(s)

StopperStep(t) == Drain(t) \/ CloseListeners(t) \/ Stopped(t)

RunStep == RunStarts \/ RunFails \/ RunShutsDown \/ RunEnds

ServerNext ==
  \/ \E s \in Starters : StarterStep(s)
  \/ \E t \in Stoppers \cup {RunStop} : StopperStep(t)
  \/ RunStep \/ Signal

ServerSpec == ServerInit /\ [][ServerNext]_srvVars

StopperRuns(t) == (t = RunStop /\ Drain(t)) \/ CloseListeners(t) \/ Stopped(t)

StarterRuns(s) ==
  \/ Bind(s) \/ BindFails(s) \/ Register(s) \/ Ready(s) \/ Exit(s)
  \/ s = Runner /\ Claim(s)
  \/ listener[s] = "closed" /\ AcceptFails(s)

\* A goroutine that can run does; Accept returns once its listener is closed.
\* Nothing is assumed of connections, signals or calls that may never come.
ServerFairSpec ==
  /\ ServerSpec /\ WF_srvVars(RunStep)
  /\ \A t \in Stoppers \cup {RunStop} : WF_srvVars(StopperRuns(t))
  /\ \A s \in Starters : WF_srvVars(StarterRuns(s))

-----------------------------------------------------------------------------
ServerTypeOK ==
  /\ state \in States
  /\ \A s \in Starters : listener[s] = "open" => start[s] \in {"register", "accept", "waiting"}
  /\ closing => shut

\* "A shutdown racing with the first Accept must never make the server ready
\* again": from the moment that Shutdown is entered IsServing is false.
NeverReadyAgain == shut => state # "serving"

\* "A Server is single-use, including after a failed bind or a shutdown before
\* startup": one starter at most gets past the first test.
SingleUse ==
  \A s, t \in Starters : start[s] \notin {"idle", "refused"} /\ start[t] \notin {"idle", "refused"} => s = t

\* No connection is accepted once a shutdown has closed the listeners, also
\* when it found none because the starter had yet to register its own.
NoLateAccept == ~late

\* What no order of starts, failed binds and shutdowns may bring about.
ServerSafe == NeverReadyAgain /\ SingleUse /\ NoLateAccept

\* A server that says it serves has a listener, or is about to say otherwise.
ServingListens == state = "serving" => \E s \in Starters : start[s] \in {"waiting", "accept", "exit"}

Gone == Runner \in Starters /\ start[Runner] \in {"refused", "failed", "closed"}

\* Run ends after the signal, and after its server has gone for any reason.
RunReturns ==
  run # "off" /\ (signal \/ Gone) ~> run \in {"failed", "ended"}

\* A shutdown frees the port: whoever bound it lets go of it.
PortFreed == \A s \in Starters : shut /\ listener[s] = "open" ~> listener[s] = "closed"
=============================================================================
