---------------------------- MODULE GatewayProofs ----------------------------
(***************************************************************************)
(* Proofs about Gateway, for any set of configurations and requests: what  *)
(* is live is always sound, nothing is used after it was closed, and what  *)
(* reloads and health probes report is true.                               *)
(***************************************************************************)
EXTENDS Gateway, FiniteSetTheorems, FunctionTheorems, SequenceTheorems, TLAPS

(***************************************************************************)
(* The live configuration.  What is not inductive by itself is that the    *)
(* configuration on its way into the pointers has passed every test: a     *)
(* reload that reached the stores has loaded and built newCfg.             *)
(***************************************************************************)

ReloadInv ==
  /\ LiveConfigSound
  /\ at = "build" => Loads(newCfg)
  /\ at \in {"storeCfg", "storeHandler"} => Sound(newCfg)
  /\ at = "storeHandler" => cfgPtr = newCfg

LEMMA ReloadInvariant == Spec => []ReloadInv
<1> USE DEF ReloadInv, LiveConfigSound
<1>1. Init => ReloadInv
  BY DEF Init
<1>2. ReloadInv /\ [Next]_vars => ReloadInv'
  <2> SUFFICES ASSUME ReloadInv, [Next]_vars PROVE ReloadInv'
    OBVIOUS
  <2> USE DEF Loads, Builds, Sound, Goto
  <2>1. CASE Load
    BY <2>1 DEF Load
  <2>2. CASE Build
    BY <2>2 DEF Build
  <2>3. CASE StoreCfg
    BY <2>3 DEF StoreCfg
  <2>4. CASE StoreHandler
    BY <2>4 DEF StoreHandler
  <2>5. CASE Receive \/ ReceiveError
    BY <2>5 DEF Receive, ReceiveError
  <2>6. CASE BeginShutdown \/ Drained \/ DrainTimeout \/ StopAuth \/ CloseLimiter
    BY <2>6 DEF BeginShutdown, Drained, DrainTimeout, StopAuth, CloseLimiter
  <2>7. CASE UNCHANGED <<cfgPtr, current, newCfg, at>>
    BY <2>7
  <2>8. QED
    BY <2>1, <2>2, <2>3, <2>4, <2>5, <2>6, <2>7
    DEF Next, Main, ServerFails, Edit, Signal, Accept, Authenticate, AcceptHealth, Probe,
        Finish, vars
<1>3. QED
  BY <1>1, <1>2, PTL DEF Spec

\* "If any step fails, the old handler continues serving": no edit, signal or
\* failure makes the gateway serve or report a configuration that does not
\* load or build, and the two pointers differ only inside the swap.
THEOREM LiveConfig == Spec => []LiveConfigSound
<1>1. ReloadInv => LiveConfigSound
  BY DEF ReloadInv
<1>2. QED
  BY <1>1, ReloadInvariant, PTL

(***************************************************************************)
(* The shutdown.  Resources go only after the drain, the drain ends with   *)
(* no request in flight, and a closing server admits none.                 *)
(***************************************************************************)

Quiet == \A r \in Requests : req[r].at = "idle"

ShutdownInv ==
  /\ req \in [Requests -> [at : ReqPlaces, cfg : Configs]]
  /\ boot \in Configs /\ current \in Configs /\ cfgPtr \in Configs /\ newCfg \in Configs
  /\ file \in Configs
  /\ at \in {"drain", "stopAuth", "closeLimiter", "exited"} => server = "closing"
  /\ at \in {"stopAuth", "closeLimiter"} => Quiet
  /\ at \notin {"closeLimiter", "exited"} => shared = {"limiter", "auth"}
  /\ at = "closeLimiter" => shared = {"limiter"}
  /\ at = "exited" => \/ shared = {} /\ Quiet
                      \/ shared = {"limiter", "auth"} /\ ~Quiet

\* Redis is closed and the auth providers are stopped only when no request is
\* left that could use them, on every path out of the process.
THEOREM SafeShutdown == Spec => []NoUseAfterClose
<1> USE DEF ShutdownInv, Quiet, ReqPlaces, HealthAnswers
<1>1. Init => ShutdownInv
  BY DEF Init, NoRequest
<1>2. ShutdownInv /\ [Next]_vars => ShutdownInv'
  <2> SUFFICES ASSUME ShutdownInv, [Next]_vars PROVE ShutdownInv'
    OBVIOUS
  <2> USE DEF Goto
  <2>1. CASE Receive \/ ReceiveError \/ Load \/ Build \/ StoreCfg \/ StoreHandler
    BY <2>1 DEF Receive, ReceiveError, Load, Build, StoreCfg, StoreHandler
  <2>2. CASE BeginShutdown
    BY <2>2 DEF BeginShutdown
  <2>3. CASE Drained
    BY <2>3 DEF Drained
  <2>4. CASE DrainTimeout
    BY <2>4 DEF DrainTimeout
  <2>5. CASE StopAuth
    BY <2>5 DEF StopAuth
  <2>6. CASE CloseLimiter
    <3>1. shared' = {}
      BY <2>6 DEF CloseLimiter
    <3>2. Quiet /\ Quiet' /\ at' = "exited" /\ server' = "closing"
      BY <2>6 DEF CloseLimiter
    <3>3. QED
      BY <2>6, <3>1, <3>2 DEF CloseLimiter
  <2>7. CASE ServerFails
    BY <2>7 DEF ServerFails, Running
  <2>8. CASE Edit \/ \E sig \in {"HUP", "TERM"} : Signal(sig)
    BY <2>8 DEF Edit, Signal
  <2>9. ASSUME NEW r \in Requests, Accept(r) PROVE ShutdownInv'
    BY <2>9 DEF Accept, Running
  <2>10. ASSUME NEW r \in Requests, Authenticate(r) PROVE ShutdownInv'
    BY <2>10 DEF Authenticate, Running, Move
  <2>11. ASSUME NEW r \in Requests, Finish(r) PROVE ShutdownInv'
    BY <2>11 DEF Finish, Running, NoRequest
  <2>12. ASSUME NEW r \in Requests, AcceptHealth(r) PROVE ShutdownInv'
    BY <2>12 DEF AcceptHealth, Running
  <2>13. ASSUME NEW r \in Requests, Probe(r) PROVE ShutdownInv'
    BY <2>13 DEF Probe, Running, Move, HealthHandler
  <2>14. CASE UNCHANGED vars
    BY <2>14 DEF vars
  <2>15. QED
    BY <2>1, <2>2, <2>3, <2>4, <2>5, <2>6, <2>7, <2>8, <2>9, <2>10, <2>11, <2>12, <2>13, <2>14
    DEF Next, Main
<1>3. ShutdownInv => NoUseAfterClose
  BY DEF NoUseAfterClose
<1>4. QED
  BY <1>1, <1>2, <1>3, PTL DEF Spec

(***************************************************************************)
(* Authentication.  A request keeps the handler it was given, so the       *)
(* soundness of the live configuration has to be carried over to every     *)
(* request in flight, across later reloads.                                *)
(***************************************************************************)

AuthInv ==
  /\ req \in [Requests -> [at : ReqPlaces, cfg : Configs]]
  /\ {current, cfgPtr, boot, newCfg, file} \subseteq Configs
  /\ Loads(boot) /\ \A r \in Requests : Loads(req[r].cfg)
  /\ AuthResolves

LEMMA AuthInvariant == Spec => []AuthInv
<1> USE DEF AuthInv, AuthResolves, ReqPlaces, HealthAnswers, Loads
<1>1. Init => AuthInv
  BY DEF Init, NoRequest, Sound
<1>2. AuthInv /\ ReloadInv /\ [Next]_vars => AuthInv'
  <2> SUFFICES ASSUME AuthInv, ReloadInv, [Next]_vars PROVE AuthInv'
    OBVIOUS
  <2>1. CASE Main
    <3>1. UNCHANGED <<req, boot, file>>
      BY <2>1 DEF Main, Receive, ReceiveError, Load, Build, StoreCfg, StoreHandler,
                  BeginShutdown, Drained, DrainTimeout, StopAuth, CloseLimiter
    <3>2. {current', cfgPtr', newCfg'} \subseteq Configs
      BY <2>1 DEF Main, Receive, ReceiveError, Load, Build, StoreCfg, StoreHandler,
                  BeginShutdown, Drained, DrainTimeout, StopAuth, CloseLimiter
    <3>3. QED
      BY <3>1, <3>2
  <2>2. CASE Edit \/ ServerFails \/ \E sig \in {"HUP", "TERM"} : Signal(sig)
    BY <2>2 DEF Edit, ServerFails, Signal
  <2>3. ASSUME NEW r \in Requests, Accept(r) PROVE AuthInv'
    BY <2>3 DEF Accept, ReloadInv, LiveConfigSound, Sound
  <2>4. ASSUME NEW r \in Requests, Authenticate(r) PROVE AuthInv'
    BY <2>4, ConfigsAssumption DEF Authenticate, Move, Known, Assigned
  <2>5. ASSUME NEW r \in Requests, Finish(r) PROVE AuthInv'
    BY <2>5 DEF Finish, NoRequest
  <2>6. ASSUME NEW r \in Requests, AcceptHealth(r) PROVE AuthInv'
    BY <2>6 DEF AcceptHealth, ReloadInv, LiveConfigSound, Sound
  <2>7. ASSUME NEW r \in Requests, Probe(r) PROVE AuthInv'
    BY <2>7 DEF Probe, Move, HealthHandler
  <2>8. CASE UNCHANGED vars
    BY <2>8 DEF vars
  <2>9. QED
    BY <2>1, <2>2, <2>3, <2>4, <2>5, <2>6, <2>7, <2>8 DEF Next
<1>3. QED
  BY <1>1, <1>2, ReloadInvariant, PTL DEF Spec

\* Whatever the order of edits, reloads and requests, a request ends with
\* "misconfigured auth provider" only under a configuration that defines a
\* provider the process was not started with.
THEOREM AuthResolved == Spec => []AuthResolves
<1>1. AuthInv => AuthResolves
  BY DEF AuthInv
<1>2. QED
  BY <1>1, AuthInvariant, PTL

(***************************************************************************)
(* The health endpoint.  A warning is logged against the configuration of  *)
(* the last reload, not against the running process, so that the drift     *)
(* from the boot is covered has to be carried through every reload, also   *)
(* the ones that warn and then fail to build, and into every probe.        *)
(***************************************************************************)

BackendDrift(c) == c.backend # boot.backend => "backend" \in warned

HealthInv ==
  /\ req \in [Requests -> [at : ReqPlaces, cfg : Configs]]
  /\ BackendDrift(cfgPtr)
  /\ at \in {"build", "storeCfg"} => BackendDrift(newCfg)
  /\ \A r \in Requests : req[r].at = "health" => BackendDrift(req[r].cfg)
  /\ HealthHonest

\* The main goroutine keeps the drift of the loaded configuration covered.
LEMMA DriftStep ==
  ASSUME HealthInv, Main
  PROVE  BackendDrift(cfgPtr)' /\ (at' \in {"build", "storeCfg"} => BackendDrift(newCfg)')
<1> USE DEF HealthInv, BackendDrift, Goto
<1>1. CASE Load
  <2>1. cfgPtr.backend # file.backend => "backend" \in NonReloadableChanges(cfgPtr, file)
    BY DEF NonReloadableChanges, Fixed
  <2>2. /\ cfgPtr' = cfgPtr /\ boot' = boot
        /\ at' = IF Loads(file) THEN "build" ELSE "select"
        /\ Loads(file) => newCfg' = file /\ warned' = warned \cup NonReloadableChanges(cfgPtr, file)
        /\ warned \subseteq warned'
    BY <1>1 DEF Load
  <2> QED
    BY <2>1, <2>2
<1>2. CASE Build
  BY <1>2 DEF Build, reports
<1>3. CASE StoreCfg
  BY <1>3 DEF StoreCfg
<1>4. CASE StoreHandler \/ Receive \/ ReceiveError
  BY <1>4 DEF StoreHandler, Receive, ReceiveError, reports
<1>5. CASE BeginShutdown \/ Drained \/ DrainTimeout \/ StopAuth \/ CloseLimiter
  BY <1>5 DEF BeginShutdown, Drained, DrainTimeout, StopAuth, CloseLimiter, reports
<1> QED
  BY <1>1, <1>2, <1>3, <1>4, <1>5 DEF Main

\* The health endpoint answers 503 only in a process that limits with Redis, and
\* mistakes the limiter in use only after a reload has warned of the backend,
\* whatever the edits, reloads, failures and probes.
THEOREM HonestHealth == Spec => []HealthHonest
<1> USE DEF ReqPlaces, HealthAnswers
<1>1. Init => HealthInv
  BY DEF Init, NoRequest, HealthInv, HealthHonest, BackendDrift
<1>2. AuthInv /\ HealthInv /\ [Next]_vars => HealthInv'
  <2> SUFFICES ASSUME AuthInv, HealthInv, [Next]_vars PROVE HealthInv'
    OBVIOUS
  <2>1. CASE Main
    <3>1. UNCHANGED <<req, boot>> /\ warned \subseteq warned'
      BY <2>1 DEF Main, Receive, ReceiveError, Load, Build, StoreCfg, StoreHandler, reports,
                  BeginShutdown, Drained, DrainTimeout, StopAuth, CloseLimiter
    <3>2. QED
      BY <2>1, <3>1, DriftStep DEF HealthInv, HealthHonest, BackendDrift
  <2>2. CASE Edit \/ ServerFails \/ \E sig \in {"HUP", "TERM"} : Signal(sig)
    BY <2>2 DEF Edit, ServerFails, Signal, HealthInv, HealthHonest, BackendDrift, reports
  <2>3. ASSUME NEW r \in Requests, Accept(r) \/ AcceptHealth(r) PROVE HealthInv'
    <3>1. UNCHANGED <<boot, cfgPtr, newCfg, at, warned>>
      BY <2>3 DEF Accept, AcceptHealth, reports
    <3>2. PICK place \in {"auth", "health"}, c \in Configs :
            /\ req' = [req EXCEPT ![r] = [at |-> place, cfg |-> c]]
            /\ place = "health" => c = cfgPtr
      BY <2>3 DEF Accept, AcceptHealth, AuthInv
    <3>3. QED
      BY <3>1, <3>2 DEF HealthInv, HealthHonest, BackendDrift
  <2>4. ASSUME NEW r \in Requests, Authenticate(r) PROVE HealthInv'
    <3>1. UNCHANGED <<boot, cfgPtr, newCfg, at, warned>>
      BY <2>4 DEF Authenticate, reports
    <3>2. PICK place \in {"limit", "misconfigured", "refused"} : Move(r, place)
      BY <2>4 DEF Authenticate
    <3>3. QED
      BY <3>1, <3>2 DEF HealthInv, HealthHonest, BackendDrift, Move
  <2>5. ASSUME NEW r \in Requests, Probe(r) PROVE HealthInv'
    <3>1. UNCHANGED <<boot, cfgPtr, newCfg, at, warned>> /\ req[r].at = "health"
      BY <2>5 DEF Probe, reports
    <3>2. PICK pinged \in BOOLEAN : Move(r, HealthHandler(req[r].cfg, pinged))
      BY <2>5 DEF Probe
    <3>3. BackendDrift(req[r].cfg)
      BY <3>1 DEF HealthInv
    <3> DEFINE answer == HealthHandler(req[r].cfg, pinged)
    <3>4. /\ answer \in HealthAnswers
          /\ answer \in {"redis_up", "redis_down"} => boot.backend = "redis"
          /\ answer = "up" /\ boot.backend = "redis" => "backend" \in warned
          /\ answer = "not_configured" => boot.backend # "redis" /\ "backend" \in warned
      BY <3>3 DEF HealthHandler, BackendDrift
    <3> HIDE DEF answer
    <3>5. req' = [req EXCEPT ![r].at = answer]
      BY <3>2 DEF Move, answer
    <3>6. QED
      BY <3>1, <3>4, <3>5 DEF HealthInv, HealthHonest, BackendDrift
  <2>6. ASSUME NEW r \in Requests, Finish(r) PROVE HealthInv'
    BY <2>6 DEF Finish, NoRequest, HealthInv, HealthHonest, BackendDrift, AuthInv, reports
  <2>7. CASE UNCHANGED vars
    BY <2>7 DEF vars, HealthInv, HealthHonest, BackendDrift, reports
  <2>8. QED
    BY <2>1, <2>2, <2>3, <2>4, <2>5, <2>6, <2>7 DEF Next
<1>3. HealthInv => HealthHonest
  BY DEF HealthInv
<1>4. QED
  BY <1>1, <1>2, <1>3, AuthInvariant, PTL DEF Spec

(***************************************************************************)
(* Type correctness.  The channel is a sequence of signals of at most one  *)
(* element because delivery looks for room.                                *)
(***************************************************************************)

TypeInv ==
  /\ sigCh \in Seq({"HUP", "TERM"}) /\ Len(sigCh) <= SigChCap
  /\ TypeOK

\* Signals, reloads, failures, requests and probes keep every variable in its
\* range, and no signal ever waits for room in the channel.
THEOREM TypeCorrect == Spec => []TypeOK
<1> USE DEF MainPlaces, ReqPlaces, HealthAnswers, SigChCap
<1>1. Init => TypeInv
  <2> SUFFICES ASSUME Init PROVE TypeInv
    OBVIOUS
  <2>1. sigCh \in Seq({"HUP", "TERM"}) /\ Len(sigCh) = 0 /\ DOMAIN sigCh = {}
    BY DEF Init
  <2>2. req \in [Requests -> [at : ReqPlaces, cfg : Configs]]
    BY DEF Init, NoRequest
  <2>3. /\ {file, boot, cfgPtr, current, newCfg} \subseteq Configs
        /\ at \in MainPlaces /\ server \in {"up", "failed", "closing"}
        /\ shared \subseteq {"limiter", "auth"} /\ warned \subseteq Fixed
    BY DEF Init
  <2>4. asked \in BOOLEAN /\ quiet \in BOOLEAN
    BY Zenon DEF Init
  <2>5. QED
    BY <2>1, <2>2, <2>3, <2>4 DEF TypeInv, TypeOK
<1>2. TypeInv /\ [Next]_vars => TypeInv'
  <2> SUFFICES ASSUME TypeInv, [Next]_vars PROVE TypeInv'
    OBVIOUS
  <2> USE DEF TypeInv, TypeOK
  <2>1. CASE Receive
    <3>1. /\ sigCh' \in Seq({"HUP", "TERM"}) /\ Len(sigCh') = Len(sigCh) - 1
          /\ Len(sigCh) \in Nat
      BY <2>1, HeadTailProperties, LenProperties DEF Receive
    <3>2. \A i \in DOMAIN sigCh' : sigCh'[i] \in {"HUP", "TERM"}
      BY <3>1, ElementOfSeq, LenProperties
    <3>3. QED
      BY <2>1, <3>1, <3>2 DEF Receive, Goto, reports
  <2>2. ASSUME NEW sig \in {"HUP", "TERM"}, Signal(sig) PROVE TypeInv'
    <3>1. sigCh' \in Seq({"HUP", "TERM"}) /\ Len(sigCh') <= SigChCap
      BY <2>2, AppendProperties, LenProperties DEF Signal, Deliver
    <3>2. \A i \in DOMAIN sigCh' : sigCh'[i] \in {"HUP", "TERM"}
      BY <3>1, ElementOfSeq, LenProperties
    <3>3. asked' \in BOOLEAN
      BY <2>2, Zenon DEF Signal
    <3>4. QED
      BY <2>2, <3>1, <3>2, <3>3 DEF Signal, reports
  <2>3. CASE Load
    BY <2>3 DEF Load, Goto, NonReloadableChanges
  <2>4. CASE Build \/ StoreHandler \/ ReceiveError
    BY <2>4 DEF Build, StoreHandler, ReceiveError, Goto, reports
  <2>5. CASE StoreCfg
    <3>1. quiet' \in BOOLEAN
      BY <2>5, Zenon DEF StoreCfg
    <3>2. QED
      BY <2>5, <3>1 DEF StoreCfg, Goto
  <2>6. CASE BeginShutdown \/ Drained \/ DrainTimeout \/ StopAuth \/ CloseLimiter
    BY <2>6 DEF BeginShutdown, Drained, DrainTimeout, StopAuth, CloseLimiter, Goto, reports
  <2>7. CASE ServerFails \/ Edit
    BY <2>7 DEF ServerFails, Edit, reports
  <2>8. ASSUME NEW r \in Requests, Accept(r) \/ AcceptHealth(r) PROVE TypeInv'
    <3>1. req' \in [Requests -> [at : ReqPlaces, cfg : Configs]]
      BY <2>8 DEF Accept, AcceptHealth
    <3>2. UNCHANGED <<file, boot, cfgPtr, current, newCfg, at, sigCh, server, shared, asked, reports>>
      BY <2>8 DEF Accept, AcceptHealth
    <3>3. QED
      BY <3>1, <3>2 DEF reports
  <2>9. ASSUME NEW r \in Requests, Authenticate(r) PROVE TypeInv'
    <3>1. \E place \in {"limit", "misconfigured", "refused"} : Move(r, place)
      <4> HIDE DEF TypeInv, TypeOK
      <4>1. QED
        BY <2>9, Zenon DEF Authenticate
    <3> PICK place \in {"limit", "misconfigured", "refused"} : Move(r, place)
      BY <3>1
    <3>2. UNCHANGED <<file, boot, cfgPtr, current, newCfg, at, sigCh, server, shared, asked, reports>>
      BY <2>9 DEF Authenticate
    <3>3. QED
      BY <3>2 DEF Move, reports
  <2>10. ASSUME NEW r \in Requests, Probe(r) PROVE TypeInv'
    BY <2>10 DEF Probe, Move, HealthHandler, reports
  <2>11. ASSUME NEW r \in Requests, Finish(r) PROVE TypeInv'
    BY <2>11 DEF Finish, NoRequest, reports
  <2>12. CASE UNCHANGED vars
    BY <2>12 DEF vars, reports
  <2>13. QED
    BY <2>1, <2>2, <2>3, <2>4, <2>5, <2>6, <2>7, <2>8, <2>9, <2>10, <2>11, <2>12 DEF Next, Main
<1>3. TypeInv => TypeOK
  BY DEF TypeInv
<1>4. QED
  BY <1>1, <1>2, <1>3, PTL DEF Spec

(***************************************************************************)
(* What a reload reports.  The summary compares routes by name and their   *)
(* order only at the end; that an empty one means equal configurations     *)
(* rests on validation, which lets no name occur twice.                    *)
(***************************************************************************)

Distinct(routes) == \A i, j \in DOMAIN routes : routes[i].name = routes[j].name => i = j

\* A sequence of routes is its names and bodies.
LEMMA RoutesFacts ==
  ASSUME NEW s, IsRoutes(s)
  PROVE  /\ Len(s) \in Nat
         /\ s = [i \in 1..Len(s) |-> s[i]]
         /\ DOMAIN s = 1..Len(s)
         /\ \A i \in 1..Len(s) : s[i] = [name |-> s[i].name, body |-> s[i].body]
<1> DEFINE R == [name : {s[i].name : i \in DOMAIN s}, body : {s[i].body : i \in DOMAIN s}]
<1>1. s \in Seq(R)
  BY DEF IsRoutes
<1>2. \A x \in R : x = [name |-> x.name, body |-> x.body]
  OBVIOUS
<1> HIDE DEF R
<1>3. QED
  BY <1>1, <1>2, LenProperties, ElementOfSeq

\* Without repeated names there are as many names as routes.
LEMMA NamesCounted ==
  ASSUME NEW s, IsRoutes(s), Distinct(s)
  PROVE  Cardinality(Names(s)) = Len(s)
<1> DEFINE f == [i \in 1..Len(s) |-> s[i].name]
<1>1. Len(s) \in Nat /\ DOMAIN s = 1..Len(s)
  BY RoutesFacts
<1>2. f \in [1..Len(s) -> Names(s)]
  BY <1>1 DEF Names
<1>3. \A i, j \in 1..Len(s) : f[i] = f[j] => i = j
  BY <1>1 DEF Distinct
<1>4. \A n \in Names(s) : \E i \in 1..Len(s) : f[i] = n
  BY <1>1 DEF Names
<1> HIDE DEF f
<1>5. f \in Bijection(1..Len(s), Names(s))
  BY <1>2, <1>3, <1>4, Fun_IsBij
<1>6. ExistsBijection(1..Len(s), Names(s))
  BY <1>5 DEF ExistsBijection
<1>7. QED
  BY <1>1, <1>6, FS_CountingElements

\* An empty summary means that nothing reloadable has changed: routes compared
\* by name, then by order, are equal as lists.
LEMMA SummaryComplete ==
  ASSUME NEW old \in Configs, NEW new \in Configs, Loads(old), Loads(new),
         DiffSummary(old, new) = {}
  PROVE  Reloadable(old) = Reloadable(new)
<1> DEFINE s == old.routes
           t == new.routes
<1>1. /\ RouteChanges(old, new) = {}
      /\ diffMiddlewareDefinitions(old, new) = {}
      /\ ~OrderChanged(old, new)
      /\ old.middlewares = new.middlewares
  <2>1. /\ RouteChanges(old, new) = {}
        /\ diffMiddlewareDefinitions(old, new) = {}
        /\ (IF OrderChanged(old, new) THEN {<<"order">>} ELSE {}) = {}
        /\ (IF old.middlewares # new.middlewares THEN {<<"globals">>} ELSE {}) = {}
    BY DEF DiffSummary
  <2>2. ~OrderChanged(old, new)
    BY <2>1
  <2>3. old.middlewares = new.middlewares
    BY <2>1
  <2>4. QED
    BY <2>1, <2>2, <2>3
<1>2. old.definitions = new.definitions
  <2>1. /\ DOMAIN old.definitions = DOMAIN new.definitions
        /\ \A n \in DOMAIN old.definitions : old.definitions[n] = new.definitions[n]
    BY <1>1 DEF diffMiddlewareDefinitions
  <2>2. /\ old.definitions = [n \in DOMAIN old.definitions |-> old.definitions[n]]
        /\ new.definitions = [n \in DOMAIN new.definitions |-> new.definitions[n]]
    BY RoutesAssumption
  <2>3. QED
    BY <2>1, <2>2
<1>3. s = t
  <2>1. IsRoutes(s) /\ IsRoutes(t) /\ Distinct(s) /\ Distinct(t)
    BY RoutesAssumption DEF Loads, Distinct
  <2>2. Names(s) = Names(t) /\ \A n \in Names(s) : ~routeChanged(old, new, n)
    <3>1. /\ {<<"added", n>> : n \in Names(t) \ Names(s)} = {}
          /\ {<<"removed", n>> : n \in Names(s) \ Names(t)} = {}
          /\ {<<"modified", n>> :
                n \in {m \in Names(s) \cap Names(t) : routeChanged(old, new, m)}} = {}
      BY <1>1 DEF RouteChanges
    <3>2. QED
      BY <3>1
  <2>3. Len(s) = Len(t)
    BY <2>1, <2>2, NamesCounted
  <2>4. DOMAIN s = 1..Len(s) /\ DOMAIN t = 1..Len(s)
    BY <2>1, <2>3, RoutesFacts
  <2>5. \A i \in 1..Len(s) : s[i].name = t[i].name
    BY <1>1, <2>3, <2>4 DEF OrderChanged
  <2>6. \A i \in 1..Len(s) : s[i].body = t[i].body
    BY <2>2, <2>4, <2>5 DEF routeChanged, Names
  <2>7. \A i \in 1..Len(s) : s[i] = t[i]
    BY <2>1, <2>3, <2>5, <2>6, RoutesFacts, ZenonT(40)
  <2>8. s = [i \in 1..Len(s) |-> s[i]] /\ t = [i \in 1..Len(s) |-> t[i]]
    BY <2>1, <2>3, RoutesFacts
  <2>9. QED
    BY <2>7, <2>8
<1>4. QED
  BY <1>1, <1>2, <1>3 DEF Reloadable

\* Every drift from the boot has been warned of, that of a configuration still
\* on its way in too; and a quiet process is as it was started, in both
\* pointers.
ReportInv ==
  /\ NonReloadableChanges(boot, cfgPtr) \subseteq warned
  /\ at \in {"build", "storeCfg"} => NonReloadableChanges(boot, newCfg) \subseteq warned
  /\ quiet => /\ Reloadable(cfgPtr) = Reloadable(boot)
              /\ Reloadable(current) = Reloadable(boot)

\* Over any series of reloads, failed ones included, each non-reloadable setting
\* in which the loaded configuration differs from the running process has been
\* warned of, and a process that reported no change serves what it was started
\* with.
THEOREM ReloadsReported == Spec => []ReloadReported
<1>1. Init => ReportInv
  BY DEF Init, ReportInv, NonReloadableChanges
<1>2. AuthInv /\ ReloadInv /\ ReportInv /\ [Next]_vars => ReportInv'
  <2> SUFFICES ASSUME AuthInv, ReloadInv, ReportInv, [Next]_vars PROVE ReportInv'
    OBVIOUS
  <2> USE DEF Goto
  <2>1. CASE Load
    <3>1. NonReloadableChanges(boot, file)
            \subseteq NonReloadableChanges(boot, cfgPtr) \cup NonReloadableChanges(cfgPtr, file)
      BY DEF NonReloadableChanges
    <3>2. UNCHANGED <<boot, cfgPtr, current, quiet>>
      BY <2>1 DEF Load
    <3>3. warned \subseteq warned'
      BY <2>1 DEF Load
    <3>4. at' \in {"build", "storeCfg"} =>
            /\ newCfg' = file
            /\ warned' = warned \cup NonReloadableChanges(cfgPtr, file)
      BY <2>1 DEF Load
    <3>5. at' \in {"build", "storeCfg"} => (NonReloadableChanges(boot, newCfg) \subseteq warned)'
      BY <3>1, <3>2, <3>4 DEF ReportInv
    <3>6. QED
      BY <3>2, <3>3, <3>5 DEF ReportInv
  <2>2. CASE Build
    BY <2>2 DEF Build, ReportInv, reports
  <2>3. CASE StoreCfg
    <3>1. /\ cfgPtr' = newCfg /\ at' = "storeHandler" /\ at = "storeCfg"
          /\ UNCHANGED <<boot, current, warned, newCfg>>
      BY <2>3 DEF StoreCfg
    <3>2. quiet' => quiet /\ DiffSummary(cfgPtr, newCfg) = {}
      BY <2>3 DEF StoreCfg
    <3>3. /\ cfgPtr \in Configs /\ newCfg \in Configs
          /\ Loads(cfgPtr) /\ Loads(newCfg)
      BY <3>1 DEF AuthInv, ReloadInv, LiveConfigSound, Sound
    <3>4. quiet' => Reloadable(newCfg) = Reloadable(cfgPtr)
      BY <3>2, <3>3, SummaryComplete
    <3>5. quiet' => /\ Reloadable(cfgPtr)' = Reloadable(boot)'
                    /\ Reloadable(current)' = Reloadable(boot)'
      BY <3>1, <3>2, <3>4 DEF ReportInv
    <3>6. QED
      BY <3>1, <3>5 DEF ReportInv
  <2>4. CASE StoreHandler
    BY <2>4 DEF StoreHandler, ReportInv, ReloadInv, reports
  <2>5. CASE Receive \/ ReceiveError
    BY <2>5 DEF Receive, ReceiveError, ReportInv, reports
  <2>6. CASE BeginShutdown \/ Drained \/ DrainTimeout \/ StopAuth \/ CloseLimiter
    BY <2>6 DEF BeginShutdown, Drained, DrainTimeout, StopAuth, CloseLimiter, ReportInv, reports
  <2>7. CASE UNCHANGED <<boot, cfgPtr, current, newCfg, at, warned, quiet>>
    BY <2>7 DEF ReportInv
  <2>8. QED
    BY <2>1, <2>2, <2>3, <2>4, <2>5, <2>6, <2>7
    DEF Next, Main, ServerFails, Edit, Signal, Accept, Authenticate, AcceptHealth, Probe,
        Finish, vars, reports
<1>3. ReportInv => ReloadReported
  BY DEF ReportInv, ReloadReported
<1>4. QED
  BY <1>1, <1>2, <1>3, AuthInvariant, ReloadInvariant, PTL DEF Spec

==============================================================================
