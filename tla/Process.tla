------------------------------ MODULE Process ------------------------------
(***************************************************************************)
(* The life of the service's process (cmd/server/main.go): configuration   *)
(* and collections are loaded, a goroutine binds and serves, main waits    *)
(* for a signal or a serving error, drains and exits.  A supervisor starts *)
(* it again, perhaps with other settings and files.                        *)
(*                                                                         *)
(* net/http is external: a server that is shut down, even before it        *)
(* listens, accepts nothing; Shutdown waits until no request is active or  *)
(* its context ends; the write deadline of a response runs from the end of *)
(* the request's header, the deadline of its body from before that.  Time  *)
(* passes in ticks for the timeouts; main's own steps take none.           *)
(***************************************************************************)
EXTENDS Integers, FiniteSets

CONSTANTS Configs,   \* the environments the process may be started in
          FileSets,  \* the contents ./collections may have
          Slot       \* bound: requests at a time

Timeouts(c) == {c.read, c.write, c.shutdown, c.upstream}

ASSUME ProcessAssumption ==
  /\ IsFiniteSet(Slot)
  /\ \A c \in Configs : Timeouts(c) \subseteq Int
  /\ \A files \in FileSets : IsFiniteSet(files)

VARIABLES phase,     \* "off", "starting", "waiting", "draining", "returned"
          config, files, registry,
          listener,  \* "none" before it binds, "open", "closed"
          failed,    \* an error waits in serverErr
          quit,      \* a signal waits in quit
          requests,  \* each with its state, its age since the header was read, and
                     \* that of its call of the upstream
          left,      \* of the shutdown timeout
          code       \* the exit code

vars == <<phase, config, files, registry, listener, failed, quit, requests, left, code>>

-----------------------------------------------------------------------------
(* config.Validate, config.LoadCollections. *)

MaxPort == 65535

\* The settings are enough to tell the rules apart; no rule relates timeouts.
Valid(c) == /\ c.port \in 1 .. MaxPort
            /\ \A t \in Timeouts(c) : t > 0
            /\ c.backend \in {"asf", "cmr"}
            /\ c.defaultLimit >= 1
            /\ c.maxLimit >= c.defaultLimit

\* A file: whether its name ends in .json, whether it decodes and validates,
\* and the id it defines.
Json(fs) == {f \in fs : f.json}
Loads(fs) == /\ Json(fs) # {}
             /\ \A f \in Json(fs) : f.valid
             /\ \A f, g \in Json(fs) : f.id = g.id => f = g

\* main serves an empty registry when the load fails.
Loaded(fs) == IF Loads(fs) THEN {f.id : f \in Json(fs)} ELSE {}

-----------------------------------------------------------------------------
Idle == [state |-> "idle", age |-> 0, call |-> 0]
States == {"reading", "calling", "writing"}
Serving(s) == requests[s].state \in States
Active == {s \in Slot : Serving(s)}

Init == /\ phase = "off"
        /\ config \in Configs
        /\ files \in FileSets
        /\ registry = {}
        /\ listener = "none"
        /\ failed = FALSE
        /\ quit = FALSE
        /\ requests = [s \in Slot |-> Idle]
        /\ left = 0
        /\ code = 0

\* Settings or files change while the process is off.
Reconfigure == /\ phase = "off"
               /\ config' \in Configs
               /\ files' \in FileSets
               /\ registry' = {}
               /\ requests' = [s \in Slot |-> Idle]
               /\ code' = 0
               /\ UNCHANGED <<phase, listener, failed, quit, left>>

\* Mutant: nothing is validated.
StartUnvalidated == /\ phase = "off"
                    /\ phase' = "starting"
                    /\ registry' = Loaded(files)
                    /\ listener' = "none"
                    /\ failed' = FALSE
                    /\ quit' = FALSE
                    /\ requests' = [s \in Slot |-> Idle]
                    /\ left' = config.shutdown
                    /\ UNCHANGED <<config, files, code>>

\* run, until the goroutine is there.
Start == /\ phase = "off"
         /\ Valid(config)
         /\ phase' = "starting"
         /\ registry' = Loaded(files)
         /\ listener' = "none"
         /\ failed' = FALSE
         /\ quit' = FALSE
         /\ requests' = [s \in Slot |-> Idle]
         /\ left' = config.shutdown
         /\ UNCHANGED <<config, files, code>>

StartFails == /\ phase = "off"
              /\ ~Valid(config)
              /\ code' = 1
              /\ UNCHANGED <<phase, config, files, registry, listener, failed, quit, requests, left>>

\* What was being served when the process ends.
Cut == [s \in Slot |-> IF Serving(s) THEN [requests[s] EXCEPT !.state = "cut"] ELSE requests[s]]

\* signal.Notify.  Until then a signal has its default effect.
Notify == /\ phase = "starting"
          /\ phase' = "waiting"
          /\ UNCHANGED <<config, files, registry, listener, failed, quit, requests, left, code>>

Killed == /\ phase = "starting"
          /\ phase' = "off"
          /\ listener' = "closed"
          /\ requests' = Cut
          /\ code' = 2
          /\ UNCHANGED <<config, files, registry, failed, quit, left>>

\* Mutant: listening after the shutdown.
BindAnyway == /\ phase \in {"starting", "waiting", "draining"}
              /\ listener = "none"
              /\ \/ listener' = "open" /\ UNCHANGED failed
                 \/ listener' = "closed" /\ failed' = TRUE
              /\ UNCHANGED <<phase, config, files, registry, quit, requests, left, code>>

\* ListenAndServe; after Shutdown it returns ErrServerClosed, which is no error.
Bind == /\ phase \in {"starting", "waiting", "draining"}
        /\ listener = "none"
        /\ \/ phase # "draining" /\ listener' = "open" /\ UNCHANGED failed
           \/ phase # "draining" /\ listener' = "closed" /\ failed' = TRUE
           \/ phase = "draining" /\ listener' = "closed" /\ UNCHANGED failed
        /\ UNCHANGED <<phase, config, files, registry, quit, requests, left, code>>

\* Accepting fails for good; the requests go on.
AcceptFails == /\ phase \in {"starting", "waiting"}
               /\ listener = "open"
               /\ listener' = "closed"
               /\ failed' = TRUE
               /\ UNCHANGED <<phase, config, files, registry, quit, requests, left, code>>

\* The channel holds one signal; more are dropped.
Signal == /\ phase \notin {"off", "starting"}
          /\ quit' = TRUE
          /\ UNCHANGED <<phase, config, files, registry, listener, failed, requests, left, code>>

\* The two cases of the select.
ReceiveError == /\ phase = "waiting"
                /\ failed
                /\ phase' = "returned"
                /\ code' = 1
                /\ UNCHANGED <<config, files, registry, listener, failed, quit, requests, left>>

\* Mutant: the signal is looked at between requests.
ReceiveSignalIdle == /\ phase = "waiting"
                     /\ quit
                     /\ Active = {}
                     /\ phase' = "draining"
                     /\ quit' = FALSE
                     /\ listener' = IF listener = "open" THEN "closed" ELSE listener
                     /\ UNCHANGED <<config, files, registry, failed, requests, left, code>>

ReceiveSignal == /\ phase = "waiting"
                 /\ quit
                 /\ phase' = "draining"
                 /\ quit' = FALSE
                 /\ listener' = IF listener = "open" THEN "closed" ELSE listener
                 /\ UNCHANGED <<config, files, registry, failed, requests, left, code>>

\* Shutdown's two ends.  Mutant: it does not wait.
ShutdownAtOnce == /\ phase = "draining"
                  /\ phase' = "returned"
                  /\ code' = 0
                  /\ UNCHANGED <<config, files, registry, listener, failed, quit, requests, left>>

ShutdownDone == /\ phase = "draining"
                /\ Active = {}
                /\ phase' = "returned"
                /\ code' = 0
                /\ UNCHANGED <<config, files, registry, listener, failed, quit, requests, left>>

\* Mutant: the context ends when it likes.
ShutdownCancelled == /\ phase = "draining"
                     /\ phase' = "returned"
                     /\ code' = 1
                     /\ UNCHANGED <<config, files, registry, listener, failed, quit, requests, left>>

ShutdownTimesOut == /\ phase = "draining"
                    /\ left = 0
                    /\ phase' = "returned"
                    /\ code' = 1
                    /\ UNCHANGED <<config, files, registry, listener, failed, quit, requests, left>>

\* The deferred Stop, and the end of the process with what it was doing.
\* Requests may still be answered after run has returned, until here.
Exit == /\ phase = "returned"
        /\ phase' = "off"
        /\ listener' = "closed"
        /\ requests' = Cut
        /\ UNCHANGED <<config, files, registry, failed, quit, left, code>>

-----------------------------------------------------------------------------
(* Requests: a body to read, if there is one, at most one call of the upstream, *)
(* and a response to write.                                                    *)

\* The header was read.
Arrive(s) == /\ listener = "open"
             /\ ~Serving(s)
             /\ requests' = [requests EXCEPT ![s] = [Idle EXCEPT !.state = "reading"]]
             /\ UNCHANGED <<phase, config, files, registry, listener, failed, quit, left, code>>

\* The body is there and the handler calls the upstream.
Call(s) == /\ phase # "off"
           /\ requests[s].state = "reading"
           /\ requests' = [requests EXCEPT ![s].state = "calling"]
           /\ UNCHANGED <<phase, config, files, registry, listener, failed, quit, left, code>>

\* With the upstream's answer, its failure or the client's timeout; or with no
\* call: refused, a static document, a body that did not come in time.  What is
\* written after the write deadline does not arrive.
Reply(s) ==
  /\ phase # "off"
  /\ requests[s].state \in {"reading", "calling"}
  /\ requests' = [requests EXCEPT
       ![s].state = IF requests[s].age < config.write THEN "writing" ELSE "lost"]
  /\ UNCHANGED <<phase, config, files, registry, listener, failed, quit, left, code>>

\* The client has taken the whole response; or it has not when the deadline comes.
Take(s) == /\ phase # "off"
           /\ requests[s].state = "writing"
           /\ requests' = [requests EXCEPT
                ![s].state = IF requests[s].age < config.write THEN "answered" ELSE "untaken"]
           /\ UNCHANGED <<phase, config, files, registry, listener, failed, quit, left, code>>

\* A request has used up the timeout of what it is doing.
TimedOut(s) == \/ requests[s].state = "reading" /\ requests[s].age >= config.read
               \/ requests[s].state = "calling" /\ requests[s].call >= config.upstream
               \/ requests[s].state = "writing" /\ requests[s].age >= config.write

Older(r) == CASE r.state = "calling" -> [r EXCEPT !.age = @ + 1, !.call = @ + 1]
              [] r.state \in {"reading", "writing"} -> [r EXCEPT !.age = @ + 1]
              [] OTHER -> r

\* Mutant: the server has no ReadTimeout.
ElapseUnread == /\ phase \in {"waiting", "draining"}
                /\ phase = "draining" => left > 0
                /\ \A s \in Active : requests[s].state # "reading" => ~TimedOut(s)
                /\ requests' = [s \in Slot |-> Older(requests[s])]
                /\ left' = IF phase = "draining" THEN left - 1 ELSE left
                /\ UNCHANGED <<phase, config, files, registry, listener, failed, quit, code>>

\* Time: nothing outlasts its timeout, no drain the shutdown's.
Elapse == /\ phase \in {"waiting", "draining"}
          /\ phase = "draining" => left > 0
          /\ \A s \in Active : ~TimedOut(s)
          /\ requests' = [s \in Slot |-> Older(requests[s])]
          /\ left' = IF phase = "draining" THEN left - 1 ELSE left
          /\ UNCHANGED <<phase, config, files, registry, listener, failed, quit, code>>

Main == Start \/ StartFails \/ Notify \/ ReceiveError \/ ReceiveSignal \/ ShutdownDone \/ ShutdownTimesOut \/ Exit

Next == \/ Main \/ Killed \/ Reconfigure \/ Bind \/ AcceptFails \/ Signal \/ Elapse
        \/ \E s \in Slot : Arrive(s) \/ Call(s) \/ Reply(s) \/ Take(s)

\* Main goes on when it can, time passes, and what reached its timeout ends.
\* Nothing is asked of the upstream, of clients or of the supervisor.
Fairness == /\ WF_vars(ReceiveError) /\ WF_vars(ReceiveSignal)
            /\ WF_vars(ShutdownDone) /\ WF_vars(ShutdownTimesOut) /\ WF_vars(Exit)
            /\ WF_vars(Elapse)
            /\ \A s \in Slot : WF_vars(TimedOut(s) /\ (Reply(s) \/ Take(s)))

Spec == Init /\ [][Next]_vars
FairSpec == Spec /\ Fairness

-----------------------------------------------------------------------------
\* Every variable has its type; a process that waits was configured validly.
TypeOK ==
  /\ phase \in {"off", "starting", "waiting", "draining", "returned"}
  /\ config \in Configs
  /\ phase # "off" => Valid(config)
  /\ files \in FileSets
  /\ registry \subseteq {f.id : f \in files}
  /\ listener \in {"none", "open", "closed"}
  /\ failed \in BOOLEAN
  /\ quit \in BOOLEAN
  /\ requests \in [Slot -> [state : States \cup {"idle", "answered", "lost", "untaken", "cut"},
                            age : Nat, call : Nat]]
  /\ left \in Nat
  /\ code \in 0 .. 2

\* The registry that is served holds all successfully loaded collections, as the
\* comment at LoadCollections has it.
RegistryHoldsLoaded == phase # "off" => \A f \in Json(files) : f.valid => f.id \in registry

\* From the signal on, no request is accepted, whenever the goroutine binds
\* (run's goroutine against its select).
DrainAcceptsNone ==
  [][\A s \in Slot : ~Serving(s) /\ Serving(s)' => phase \in {"starting", "waiting"}]_vars

\* An accepted request is cut off only when the shutdown timeout was used up,
\* the server had failed, or a signal came before it was asked for (Shutdown,
\* the select's error case, Notify after the goroutine was started).
CutForCause ==
  [][\A s \in Slot : requests[s].state # "cut" /\ requests'[s].state = "cut"
                       => left = 0 \/ failed \/ phase = "starting"]_vars

\* Exit code 0 says that every accepted request ran to its end (run, main).
CleanExit == phase = "off" /\ code = 0 => \A s \in Slot : requests[s].state # "cut"

\* No response comes too late to be written at all where the write timeout is
\* longer than the time a body may take and that of a call together, for its
\* deadline runs from the header on; Validate rules nothing else out, and the
\* defaults (60 seconds, twice 30) are not longer.
LostToWriteTimeout ==
  (\E s \in Slot : requests[s].state = "lost") => config.write <= config.read + config.upstream

\* A signal ends the process: neither a busy server nor a silent upstream keeps
\* it, for calls and the shutdown are bounded.
SignalEnds == phase = "waiting" /\ quit ~> phase = "off"
=============================================================================
