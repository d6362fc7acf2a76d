------------------------------- MODULE Gateway -------------------------------
(***************************************************************************)
(* The life of the process: the main goroutine of runServe with its signal *)
(* channel, handleReload, the graceful shutdown, and the request           *)
(* goroutines that run through the handler they load.                      *)
(*                                                                         *)
(* A configuration is what these parts tell apart: whether LoadConfig      *)
(* accepts it and whether buildHandler does; the settings a reload cannot  *)
(* change, among them the auth providers it defines; and the reloadable    *)
(* parts, among them the auth definition, the list of providers its routes *)
(* are assigned to ("none" is the empty list).  Operators edit the file    *)
(* and send signals at any time.  The runtime delivers a signal to sigCh   *)
(* without blocking: one that finds the channel full is lost.              *)
(***************************************************************************)
EXTENDS Naturals, Sequences, FiniteSets

CONSTANTS
  Configs,   \* the contents the configuration file may have
  Requests   \* request goroutines

\* The list of the auth definition.
Assigned(c) == c.definitions.auth

\* A sequence of routes: each has a name and a body, all its other fields.
IsRoutes(routes) ==
  routes \in Seq([name : {routes[i].name : i \in DOMAIN routes},
                  body : {routes[i].body : i \in DOMAIN routes}])

\* A file that validates assigns only providers it defines ...
ASSUME ConfigsAssumption ==
  \A c \in Configs :
    /\ c.valid \in BOOLEAN /\ c.builds \in BOOLEAN
    /\ c.valid => \A i \in DOMAIN Assigned(c) : Assigned(c)[i] \in c.providers

\* ... and gives no name to two routes.
ASSUME RoutesAssumption ==
  \A c \in Configs :
    /\ IsRoutes(c.routes)
    /\ c.definitions = [n \in DOMAIN c.definitions |-> c.definitions[n]]
    /\ c.valid => \A i, j \in DOMAIN c.routes : c.routes[i].name = c.routes[j].name => i = j

VARIABLES
  file,      \* the file on disk
  boot,      \* the configuration the process was started with
  cfgPtr,    \* the atomic pointer HealthHandler and the shutdown read
  current,   \* the atomic pointer to the handler: the configuration it is for
  newCfg,    \* handleReload's local, and cfgPtr's value outside a reload
  at,        \* where the main goroutine is
  sigCh,     \* the signal channel
  server,    \* "up", "failed" (ListenAndServe returned), "closing"
  shared,    \* the shared resources still usable: limiter, authenticators
  req,       \* each request: its place, and the configuration of its handler
  asked,     \* whether a reload was asked for since the last edit
  warned,    \* the settings some reload has logged as ignored
  quiet,     \* every reload so far has logged that nothing changed
  grace      \* the timeout of shutdownCtx, Unset before the shutdown

reports == <<warned, quiet, grace>>

vars == <<file, boot, cfgPtr, current, newCfg, at, sigCh, server, shared, req, asked,
          reports>>

Unset == "unset"

SigChCap == 1

Loads(c) == c.valid
Builds(c) == c.builds
Sound(c) == Loads(c) /\ Builds(c)

NoRequest == [at |-> "idle", cfg |-> boot]

\* The process has started: the limiter and the authenticators are those of
\* the boot configuration and stay so.
Init ==
  /\ boot \in {c \in Configs : Sound(c)}
  /\ file = boot
  /\ cfgPtr = boot /\ current = boot /\ newCfg = boot
  /\ at = "select"
  /\ sigCh = <<>>
  /\ server = "up"
  /\ shared = {"limiter", "auth"}
  /\ req = [r \in Requests |-> NoRequest]
  /\ asked = FALSE
  /\ warned = {} /\ quiet = TRUE /\ grace = Unset

Running == at # "exited"

-----------------------------------------------------------------------------
(* Operators.                                                              *)

Edit ==
  /\ Running
  /\ \E c \in Configs \ {file} : file' = c
  /\ asked' = FALSE
  /\ UNCHANGED <<boot, cfgPtr, current, newCfg, at, sigCh, server, shared, req, reports>>

\* Fault: delivery does not mind the channel's capacity.
Deliver_Unbounded(sig) == sigCh' = Append(sigCh, sig)

\* signal.Notify: delivered if there is room, lost otherwise.
Deliver(sig) ==
  sigCh' = IF Len(sigCh) < SigChCap THEN Append(sigCh, sig) ELSE sigCh

Signal(sig) ==
  /\ Running
  /\ Deliver(sig)
  /\ asked' = (asked \/ sig = "HUP")
  /\ UNCHANGED <<file, boot, cfgPtr, current, newCfg, at, server, shared, req, reports>>

-----------------------------------------------------------------------------
(* What a reload reports.                                                  *)

\* The settings a reload cannot change.
Fixed == {"host", "shutdown_timeout", "backend", "providers", "level"}

NonReloadableChanges(old, new) == {f \in Fixed : old[f] # new[f]}

Names(routes) == {routes[i].name : i \in DOMAIN routes}

\* Routes are compared by name, all their fields but the name being the body.
routeChanged(old, new, name) ==
  \E i \in DOMAIN old.routes, j \in DOMAIN new.routes :
    /\ old.routes[i].name = name /\ new.routes[j].name = name
    /\ old.routes[i].body # new.routes[j].body

RouteChanges(old, new) ==
  LET before == Names(old.routes)
      after == Names(new.routes)
  IN  {<<"added", n>> : n \in after \ before}
        \cup {<<"removed", n>> : n \in before \ after}
        \cup {<<"modified", n>> : n \in {m \in before \cap after : routeChanged(old, new, m)}}

\* The order of the routes is looked at only when nothing else about them has
\* changed.
OrderChanged(old, new) ==
  /\ Len(old.routes) = Len(new.routes)
  /\ RouteChanges(old, new) = {}
  /\ \E i \in DOMAIN old.routes : old.routes[i].name # new.routes[i].name

diffMiddlewareDefinitions(old, new) ==
  LET before == DOMAIN old.definitions
      after == DOMAIN new.definitions
  IN  {<<"definition", n>> : n \in (before \ after) \cup (after \ before)}
        \cup {<<"definition", n>> :
                n \in {m \in before \cap after : old.definitions[m] # new.definitions[m]}}

\* Fault: the order of the routes is not compared.
DiffSummary_NoOrder(old, new) ==
  RouteChanges(old, new) \cup diffMiddlewareDefinitions(old, new)
    \cup (IF old.middlewares # new.middlewares THEN {<<"globals">>} ELSE {})

DiffSummary(old, new) ==
  RouteChanges(old, new) \cup diffMiddlewareDefinitions(old, new)
    \cup (IF OrderChanged(old, new) THEN {<<"order">>} ELSE {})
    \cup (IF old.middlewares # new.middlewares THEN {<<"globals">>} ELSE {})

-----------------------------------------------------------------------------
(* The main goroutine.                                                     *)

Goto(place) == at' = place

\* Fault: every signal is taken for SIGHUP.
Receive_Reloads ==
  /\ at = "select"
  /\ sigCh # <<>>
  /\ sigCh' = Tail(sigCh)
  /\ Goto("load")
  /\ UNCHANGED <<file, boot, cfgPtr, current, newCfg, server, shared, req, asked, reports>>

Receive ==
  /\ at = "select"
  /\ sigCh # <<>>
  /\ sigCh' = Tail(sigCh)
  /\ Goto(IF Head(sigCh) = "HUP" THEN "load" ELSE "shutdown")
  /\ UNCHANGED <<file, boot, cfgPtr, current, newCfg, server, shared, req, asked, reports>>

ServerFails ==
  /\ Running
  /\ server = "up"
  /\ server' = "failed"
  /\ UNCHANGED <<file, boot, cfgPtr, current, newCfg, at, sigCh, shared, req, asked, reports>>

ReceiveError ==
  /\ at = "select"
  /\ server = "failed"
  /\ Goto("shutdown")
  /\ UNCHANGED <<file, boot, cfgPtr, current, newCfg, sigCh, server, shared, req, asked, reports>>

\* Fault: the configuration is parsed and not validated.
Load_Unchecked ==
  /\ at = "load"
  /\ newCfg' = file
  /\ Goto("build")
  /\ UNCHANGED <<file, boot, cfgPtr, current, sigCh, server, shared, req, asked, reports>>

\* handleReload reads the file as it is now, and warns of what it will ignore,
\* compared with the configuration of the last reload.
Load ==
  /\ at = "load"
  /\ newCfg' = IF Loads(file) THEN file ELSE newCfg
  /\ Goto(IF Loads(file) THEN "build" ELSE "select")
  /\ warned' = warned \cup (IF Loads(file) THEN NonReloadableChanges(cfgPtr, file) ELSE {})
  /\ UNCHANGED <<file, boot, cfgPtr, current, sigCh, server, shared, req, asked,
                 quiet, grace>>

\* Fault: a handler that cannot be built is swapped in all the same.
Build_Unchecked ==
  /\ at = "build"
  /\ Goto("storeCfg")
  /\ UNCHANGED <<file, boot, cfgPtr, current, newCfg, sigCh, server, shared, req, asked, reports>>

\* BuildHandler, on the limiter and the authenticators of the boot.
Build ==
  /\ at = "build"
  /\ Goto(IF Builds(newCfg) THEN "storeCfg" ELSE "select")
  /\ newCfg' = IF Builds(newCfg) THEN newCfg ELSE cfgPtr
  /\ UNCHANGED <<file, boot, cfgPtr, current, sigCh, server, shared, req, asked, reports>>

\* What changed is worked out before the first store and logged after the
\* second.
StoreCfg ==
  /\ at = "storeCfg"
  /\ cfgPtr' = newCfg
  /\ quiet' = (quiet /\ DiffSummary(cfgPtr, newCfg) = {})
  /\ Goto("storeHandler")
  /\ UNCHANGED <<file, boot, current, newCfg, sigCh, server, shared, req, asked,
                 warned, grace>>

\* Fault: signals that came in during the reload are thrown away.
StoreHandler_DropsSignals ==
  /\ at = "storeHandler"
  /\ current' = newCfg
  /\ sigCh' = <<>>
  /\ Goto("select")
  /\ UNCHANGED <<file, boot, cfgPtr, newCfg, server, shared, req, asked, reports>>

StoreHandler ==
  /\ at = "storeHandler"
  /\ current' = newCfg
  /\ Goto("select")
  /\ UNCHANGED <<file, boot, cfgPtr, newCfg, sigCh, server, shared, req, asked, reports>>

\* The timeout is that of the configuration loaded last.
BeginShutdown ==
  /\ at = "shutdown"
  /\ server' = "closing"
  /\ grace' = cfgPtr.shutdown_timeout
  /\ Goto("drain")
  /\ UNCHANGED <<file, boot, cfgPtr, current, newCfg, sigCh, shared, req, asked,
                 warned, quiet>>

\* Fault: Shutdown does not wait for the requests in flight.
Drained_AtOnce ==
  /\ at = "drain"
  /\ Goto("stopAuth")
  /\ UNCHANGED <<file, boot, cfgPtr, current, newCfg, sigCh, server, shared, req, asked, reports>>

\* srv.Shutdown returns once no request is in flight ...
Drained ==
  /\ at = "drain"
  /\ \A r \in Requests : req[r].at = "idle"
  /\ Goto("stopAuth")
  /\ UNCHANGED <<file, boot, cfgPtr, current, newCfg, sigCh, server, shared, req, asked, reports>>

\* Fault: Shutdown is given a context without a deadline.
DrainTimeout_Never == FALSE

\* ... or the timeout is over: os.Exit, with everything still open.
DrainTimeout ==
  /\ at = "drain"
  /\ \E r \in Requests : req[r].at # "idle"
  /\ Goto("exited")
  /\ UNCHANGED <<file, boot, cfgPtr, current, newCfg, sigCh, server, shared, req, asked, reports>>

StopAuth ==
  /\ at = "stopAuth"
  /\ shared' = shared \ {"auth"}
  /\ Goto("closeLimiter")
  /\ UNCHANGED <<file, boot, cfgPtr, current, newCfg, sigCh, server, req, asked, reports>>

CloseLimiter ==
  /\ at = "closeLimiter"
  /\ shared' = shared \ {"limiter"}
  /\ Goto("exited")
  /\ UNCHANGED <<file, boot, cfgPtr, current, newCfg, sigCh, server, req, asked, reports>>

Main ==
  \/ Receive \/ ReceiveError \/ Load \/ Build \/ StoreCfg \/ StoreHandler
  \/ BeginShutdown \/ Drained \/ DrainTimeout \/ StopAuth \/ CloseLimiter

-----------------------------------------------------------------------------
(* Requests.                                                               *)

Move(r, place) == req' = [req EXCEPT ![r].at = place]

\* The mux loads the handler once and the request keeps it.  Kept-alive
\* connections bring requests even when the listener has failed.
Accept(r) ==
  /\ Running
  /\ server # "closing"
  /\ req[r].at = "idle"
  /\ req' = [req EXCEPT ![r] = [at |-> "auth", cfg |-> current]]
  /\ UNCHANGED <<file, boot, cfgPtr, current, newCfg, at, sigCh, server, shared, asked, reports>>

Known(name) == name \in boot.providers

\* The auth middleware tries the route's providers in turn, looking each up
\* among the authenticators of the boot.  The first that accepts lets the
\* request through; one that is missing ends it with 500 "misconfigured auth
\* provider"; 401 follows only when all were there and all refused.
Authenticate(r) ==
  /\ Running
  /\ req[r].at = "auth"
  /\ LET assigned == Assigned(req[r].cfg)
     IN  \/ (assigned # <<>> => Known(Head(assigned))) /\ Move(r, "limit")
         \/ (\E i \in DOMAIN assigned : ~Known(assigned[i])) /\ Move(r, "misconfigured")
         \/ assigned # <<>> /\ (\A i \in DOMAIN assigned : Known(assigned[i])) /\ Move(r, "refused")
  /\ UNCHANGED <<file, boot, cfgPtr, current, newCfg, at, sigCh, server, shared, asked, reports>>

\* GET /health loads the configuration once.
AcceptHealth(r) ==
  /\ Running
  /\ server # "closing"
  /\ req[r].at = "idle"
  /\ req' = [req EXCEPT ![r] = [at |-> "health", cfg |-> cfgPtr]]
  /\ UNCHANGED <<file, boot, cfgPtr, current, newCfg, at, sigCh, server, shared, asked, reports>>

\* Fault: a process without a Redis client says that Redis is down.
HealthHandler_NilIsDown(cfg, pinged) ==
  IF cfg.backend # "redis" THEN "up"
  ELSE IF boot.backend # "redis" THEN "redis_down"
  ELSE IF pinged THEN "redis_up" ELSE "redis_down"

\* What the handler answers: the backend is the loaded configuration's, the
\* checker is the one made at the start, nil unless the process limits with
\* Redis.  Only "redis_down" is degraded, a 503.
HealthHandler(cfg, pinged) ==
  IF cfg.backend # "redis" THEN "up"
  ELSE IF boot.backend # "redis" THEN "not_configured"
  ELSE IF pinged THEN "redis_up" ELSE "redis_down"

Probe(r) ==
  /\ Running
  /\ req[r].at = "health"
  /\ \E pinged \in BOOLEAN : Move(r, HealthHandler(req[r].cfg, pinged))
  /\ UNCHANGED <<file, boot, cfgPtr, current, newCfg, at, sigCh, server, shared, asked, reports>>

HealthAnswers == {"up", "not_configured", "redis_up", "redis_down"}

\* The rate limiter is asked, the request is proxied and answered.
Finish(r) ==
  /\ Running
  /\ req[r].at \in {"limit", "misconfigured", "refused"} \cup HealthAnswers
  /\ req' = [req EXCEPT ![r] = NoRequest]
  /\ UNCHANGED <<file, boot, cfgPtr, current, newCfg, at, sigCh, server, shared, asked, reports>>

Next ==
  \/ Main
  \/ ServerFails
  \/ Edit
  \/ \E sig \in {"HUP", "TERM"} : Signal(sig)
  \/ \E r \in Requests : \/ Accept(r) \/ Authenticate(r)
                          \/ AcceptHealth(r) \/ Probe(r) \/ Finish(r)

\* The main goroutine is scheduled; nothing is assumed of requests, operators
\* or the server: a drain that does not end is cut by the shutdown timeout.
Spec == Init /\ [][Next]_vars /\ WF_vars(Main)

-----------------------------------------------------------------------------
ReqPlaces == {"idle", "auth", "limit", "misconfigured", "refused", "health"} \cup HealthAnswers

MainPlaces == {"select", "load", "build", "storeCfg", "storeHandler", "shutdown",
               "drain", "stopAuth", "closeLimiter", "exited"}

ShuttingDown == at \in {"shutdown", "drain", "stopAuth", "closeLimiter", "exited"}

\* Every variable keeps its range.
TypeOK ==
  /\ {file, boot, cfgPtr, current, newCfg} \subseteq Configs
  /\ at \in MainPlaces
  /\ Len(sigCh) <= SigChCap /\ \A i \in DOMAIN sigCh : sigCh[i] \in {"HUP", "TERM"}
  /\ server \in {"up", "failed", "closing"}
  /\ shared \subseteq {"limiter", "auth"}
  /\ req \in [Requests -> [at : ReqPlaces, cfg : Configs]]
  /\ asked \in BOOLEAN
  /\ warned \subseteq Fixed /\ quiet \in BOOLEAN

\* "If any step fails, the old handler continues serving": what the process
\* serves and what it reports is always a configuration that loads and builds,
\* and outside the swap itself the two pointers agree.
LiveConfigSound ==
  /\ Sound(cfgPtr) /\ Sound(current)
  /\ at # "storeHandler" => cfgPtr = current

\* A request in flight never meets a closed limiter or a stopped
\* authenticator, and a process that went through the whole shutdown has left
\* none open.
NoUseAfterClose ==
  /\ (\E r \in Requests : req[r].at # "idle") => shared = {"limiter", "auth"}
  /\ at = "exited" => \/ shared = {}
                      \/ \E r \in Requests : req[r].at # "idle"

\* A SIGHUP sent after the last edit of the file is never lost to the
\* one-place channel: the file is eventually live, unless it is rejected,
\* edited again or the process stops.
ReloadNotLost ==
  asked ~> \/ ~asked
           \/ ~Sound(file)
           \/ cfgPtr = file /\ current = file
           \/ ShuttingDown

\* Once begun, the shutdown ends the process.
ShutdownEnds == ShuttingDown ~> at = "exited"

\* README: "Handles SIGINT and SIGTERM": a SIGTERM that found room in the
\* channel stops the process, whatever reloads and failures come in between.
TermHonoured == (\E i \in DOMAIN sigCh : sigCh[i] = "TERM") ~> ShuttingDown

\* "Auth provider assignment to routes" is reloadable and provider definitions
\* are not: as long as reloads define no provider the process was started
\* without, no request meets a route it cannot authenticate.
AuthResolves ==
  \A r \in Requests :
    req[r].at = "misconfigured" => ~(req[r].cfg.providers \subseteq boot.providers)

Reloadable(c) == <<c.routes, c.definitions, c.middlewares>>

\* "When non-reloadable fields change, a warning is logged for each one": over
\* any series of reloads, some of which fail to build after they have warned,
\* every setting in which the loaded configuration differs from the running
\* process has been warned of; and a process whose reloads all reported no
\* reloadable change serves what it was started with.
ReloadReported ==
  /\ NonReloadableChanges(boot, cfgPtr) \subseteq warned
  /\ quiet => Reloadable(current) = Reloadable(boot)

\* The health endpoint pairs the backend of the loaded configuration with the
\* checker of the start.  It answers 503 only in a process that limits with
\* Redis, and leaves out the check of the limiter in use, or reports one that is
\* not there, only after a reload has warned that the backend cannot change.
HealthHonest ==
  \A r \in Requests :
    /\ req[r].at \in {"redis_up", "redis_down"} => boot.backend = "redis"
    /\ req[r].at = "up" /\ boot.backend = "redis" => "backend" \in warned
    /\ req[r].at = "not_configured" => boot.backend # "redis" /\ "backend" \in warned

\* "Server host/port/timeouts" are "Non-reloadable (logged as warning,
\* ignored)": the drain gets the time the process was started with.
GraceOfTheBoot == grace \in {Unset, boot.shutdown_timeout}

==============================================================================
