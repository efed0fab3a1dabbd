------------------------------- MODULE Startup -------------------------------
(***************************************************************************)
(* The start and the end of a process: config.Load on the environment, then  *)
(* the run function of cmd/api or cmd/worker, or the main of cmd/seed, with   *)
(* a failure possible at every step, and the deferred calls that release      *)
(* what was opened.                                                        *)
(***************************************************************************)
EXTENDS Money

CONSTANTS
    Numbers,   \* the integers that a numeric variable may be set to
    Minute     \* time.Minute, in units of a Duration

ASSUME StartupAssumption == Numbers \subseteq Int /\ Minute \in Nat \ {0}

VARIABLES
    binary,    \* "api", "worker" or "seed"
    env,       \* what the environment holds
    at,        \* the next step of the process
    cfg,       \* the configuration that Load returned
    expiry,    \* the expiry of the TokenManager
    opened,    \* the connections that are open
    deferred   \* the connections that a return closes

bootVars == <<binary, env, at, cfg, expiry, opened, deferred>>

-----------------------------------------------------------------------------
(* A numeric variable is unset, does not parse, or is a number.             *)
Unset == [form |-> "unset", value |-> 0]
Junk == [form |-> "junk", value |-> 0]
Number(n) == [form |-> "number", value |-> n]

Numerics == {Unset, Junk} \cup {Number(n) : n \in Numbers}

Required == {"DATABASE_URL", "REDIS_ADDR", "JWT_SECRET"}

\* "present" are the required variables that are not empty, "level" is LOG_LEVEL
\* and "sentinel" is ORDER_TRANSIENT_FAILURE_TOTAL: unset, an amount, or not one.
Environments ==
    [present : SUBSET Required, jwtExp : Numerics, workers : Numerics, maxRetries : Numerics,
     level : {"", "info", "other"}, sentinel : {"unset", "amount", "junk"}]

\* intOr: the number read, with the zero that accompanies an error.
intOr(v, fallback) == IF v.form = "unset" THEN fallback ELSE v.value

Malformed(v) == v.form = "junk"

validLogLevel(l) == l \in {"", "debug", "info", "warn", "error"}

\* Mutant: the error of ORDER_WORKER_COUNT is dropped.
LoadsWithoutWorkers(e) ==
    /\ e.present = Required
    /\ ~Malformed(e.jwtExp) /\ ~Malformed(e.maxRetries)
    /\ intOr(e.maxRetries, 3) >= 0
    /\ validLogLevel(e.level)

\* Whether Load returns no error.
Loads(e) ==
    /\ e.present = Required
    /\ ~Malformed(e.jwtExp) /\ ~Malformed(e.workers) /\ ~Malformed(e.maxRetries)
    /\ intOr(e.maxRetries, 3) >= 0
    /\ validLogLevel(e.level)

Config(e) ==
    [jwtExp |-> intOr(e.jwtExp, 120), workers |-> intOr(e.workers, 3),
     maxRetries |-> intOr(e.maxRetries, 3)]

NoConfig == [jwtExp |-> 0, workers |-> 0, maxRetries |-> 0]

-----------------------------------------------------------------------------
BootInit ==
    /\ binary \in {"api", "worker", "seed"}
    /\ env \in Environments
    /\ at = "load"
    /\ cfg = NoConfig
    /\ expiry = 0
    /\ opened = {}
    /\ deferred = {}

\* run returns: its deferred calls are made.
Return == at' = "returned" /\ opened' = opened \ deferred /\ deferred' = {}

Goto(step) == at' = step /\ UNCHANGED <<opened, deferred>>

Load ==
    /\ at = "load"
    /\ IF binary = "seed"
       THEN \/ "DATABASE_URL" \in env.present /\ Goto("pool") /\ UNCHANGED cfg
            \/ "DATABASE_URL" \notin env.present /\ Goto("exited") /\ UNCHANGED cfg
       ELSE \/ Loads(env) /\ cfg' = Config(env) /\ Goto("pool")
            \/ ~Loads(env) /\ Return /\ UNCHANGED cfg
    /\ UNCHANGED <<binary, env, expiry>>

\* Mutant: a pool whose ping fails is not closed.
NewPostgresPoolLeaking ==
    /\ at = "pool"
    /\ \/ /\ at' = IF binary = "api" THEN "tokens" ELSE IF binary = "seed" THEN "seed" ELSE "redis"
          /\ opened' = opened \cup {"pool"}
          /\ deferred' = deferred \cup {"pool"}
       \/ /\ at' = "returned"
          /\ opened' = (opened \cup {"pool"}) \ deferred
          /\ deferred' = {}
    /\ UNCHANGED <<binary, env, cfg, expiry>>

\* The pool is created and pinged; one that does not answer is closed at once.
NewPostgresPool ==
    /\ at = "pool"
    /\ \/ /\ at' = IF binary = "api" THEN "tokens" ELSE IF binary = "seed" THEN "seed" ELSE "redis"
          /\ opened' = opened \cup {"pool"}
          /\ deferred' = deferred \cup {"pool"}
       \/ IF binary = "seed" THEN Goto("exited") ELSE Return
    /\ UNCHANGED <<binary, env, cfg, expiry>>

\* time.Duration(minutes) * time.Minute in a machine word; it must be positive.
NewTokenManager ==
    /\ binary = "api" /\ at = "tokens"
    /\ LET d == Multiply(cfg.jwtExp, Minute)
       IN  \/ d > 0 /\ expiry' = d /\ Goto("seed")
           \/ d <= 0 /\ Return /\ UNCHANGED expiry
    /\ UNCHANGED <<binary, env, cfg>>

\* SeedDefaultAdmin, after which cmd/seed is through.  Its failure ends cmd/seed by
\* os.Exit, which makes no deferred call.
SeedDefaultAdmin ==
    /\ binary \in {"api", "seed"} /\ at = "seed"
    /\ \/ IF binary = "api" THEN Goto("redis") ELSE Return
       \/ IF binary = "api" THEN Return ELSE Goto("exited")
    /\ UNCHANGED <<binary, env, cfg, expiry>>

\* redis.NewClient connects lazily and does not fail.
NewRedisClient ==
    /\ at = "redis"
    /\ at' = IF binary = "api" THEN "serving" ELSE "sentinel"
    /\ opened' = opened \cup {"redis"}
    /\ deferred' = deferred \cup {"redis"}
    /\ UNCHANGED <<binary, env, cfg, expiry>>

\* cmd/worker reads the amount that its failure hook watches for.
ParseSentinel ==
    /\ binary = "worker" /\ at = "sentinel"
    /\ IF env.sentinel = "junk" THEN Return ELSE Goto("serving")
    /\ UNCHANGED <<binary, env, cfg, expiry>>

\* The HTTP server cannot listen, or a signal asks for the end.
Stop ==
    /\ at = "serving"
    /\ Return
    /\ UNCHANGED <<binary, env, cfg, expiry>>

BootNext ==
    \/ Load
    \/ NewPostgresPool
    \/ NewTokenManager
    \/ SeedDefaultAdmin
    \/ NewRedisClient
    \/ ParseSentinel
    \/ Stop

BootSpec == BootInit /\ [][BootNext]_bootVars

-----------------------------------------------------------------------------
BootTypeOK ==
    /\ binary \in {"api", "worker", "seed"}
    /\ env \in Environments
    /\ at \in {"load", "pool", "tokens", "seed", "redis", "sentinel", "serving", "returned", "exited"}
    /\ cfg \in [jwtExp : Int, workers : Int, maxRetries : Int]
    /\ expiry \in Cents
    /\ opened \subseteq {"pool", "redis"}
    /\ deferred \subseteq opened

(* A process that ends by returning from run or main has closed every          *)
(* connection that it had opened, at whichever step it gave up (cmd/api/main.go, *)
(* cmd/worker/main.go, database/postgres.go).                                 *)
ReturnReleases == at = "returned" => opened = {}

\* The number that the environment asks for.
Asks(v, fallback, n) == n = IF v.form = "number" THEN v.value ELSE fallback

(* A process that serves does so with the numbers of its environment, or with   *)
(* the defaults for those that are not set, never with the zero of a number     *)
(* that did not parse: no worker pool is empty unless it was asked to be        *)
(* (config.go).                                                              *)
ServesAsAsked ==
    at = "serving" =>
        /\ env.present = Required
        /\ Asks(env.jwtExp, 120, cfg.jwtExp)
        /\ Asks(env.workers, 3, cfg.workers)
        /\ Asks(env.maxRetries, 3, cfg.maxRetries) /\ cfg.maxRetries >= 0

(* The tokens of an API that serves expire after they are issued, and exactly   *)
(* when the environment says so as long as that span fits a Duration (jwt.go). *)
ServesLiveTokens ==
    at = "serving" /\ binary = "api" =>
        /\ expiry > 0
        /\ Asks(env.jwtExp, 120, cfg.jwtExp)
        /\ cfg.jwtExp * Minute \in Cents => expiry = cfg.jwtExp * Minute

==============================================================================
