----------------------------- MODULE Lifecycle -----------------------------
(***************************************************************************)
(* The resources of the process: lifespan() builds a container, starts it, *)
(* shows its resources on app.state, and shuts it down when the server     *)
(* stops.  Every await of startup() and shutdown() may raise.  The         *)
(* providers of factories.py build adapters over what app.state holds when *)
(* a request first needs them, and keep them there; the readiness probe    *)
(* looks at the same places.                                               *)
(*                                                                         *)
(* The server takes requests while it serves; transports that skip the     *)
(* lifespan send some outside it.  An application object may be given one  *)
(* lifespan after another.                                                 *)
(***************************************************************************)
EXTENDS Integers, Sequences

CONSTANTS
  MaxLives,  \* bound: the lifespans of one application object
  Lazy,      \* marks an authorization service built by a request
  Null

ASSUME LifecycleAssumption ==
  /\ MaxLives \in Nat
  /\ Lazy \notin Nat /\ Null \notin Nat /\ Lazy # Null

\* What startup() acquires, in its order.
StartupSteps == <<"database", "gotrue", "jwks", "redis", "casbin", "celery">>

\* Mutant: one resource is forgotten.
ShutdownForgets == <<"gotrue", "database">>

\* What shutdown() closes, in its order; the rest it only drops.
ShutdownSteps == <<"gotrue", "redis", "database">>

Resources == {"database", "gotrue", "redis"}

Exposed == {"database", "gotrue", "jwks", "redis", "casbin"}

\* The settings that decide about all this: the STARTUP_* flags, and whether
\* the clients that need none and the adapters' keys are configured.
Flags == Exposed \cup {"celery", "preload", "cipher", "issuer"}

Adapters == {"session_repository", "identity_mapper", "jwt_verifier"}

\* What an adapter is built over, and the other setting it needs.
Over == [session_repository |-> "database", identity_mapper |-> "database",
         jwt_verifier |-> "jwks"]

Needs == [session_repository |-> {"cipher"}, identity_mapper |-> {},
          jwt_verifier |-> {"issuer"}]

VARIABLES
  enabled,    \* the flags that are set: get_settings() reads them once
  stage,      \* of the lifespan
  at,         \* the next step of startup() or shutdown()
  life,       \* how many lifespans have begun
  container,  \* what the container of the lifespan holds
  open,       \* pairs of a resource and the lifespan that opened it
  state,      \* on app.state, the lifespan a resource is of, Null if None
  cached,     \* per adapter on app.state, the lifespan of what it is over
  broken      \* the lifespans that ended with an exception

vars == <<enabled, stage, at, life, container, open, state, cached, broken>>

Lives == 1..MaxLives

TypeOK ==
  /\ enabled \subseteq Flags
  /\ stage \in {"down", "starting", "serving", "stopping"}
  /\ at \in 1..7
  /\ life \in 0..MaxLives
  /\ container \subseteq Exposed
  /\ open \subseteq Resources \X Lives
  /\ state \in [Exposed -> Lives \cup {Null, Lazy}]
  /\ \A s \in Exposed \ {"casbin"} : state[s] # Lazy
  /\ cached \in [Adapters -> Lives \cup {Null}]
  /\ broken \subseteq Lives

Init ==
  /\ enabled \in SUBSET Flags
  /\ stage = "down"
  /\ at = 1
  /\ life = 0
  /\ container = {}
  /\ open = {}
  /\ state = [s \in Exposed |-> Null]
  /\ cached = [a \in Adapters |-> Null]
  /\ broken = {}

-----------------------------------------------------------------------------
(* The lifespan                                                            *)

Begin ==
  /\ stage = "down"
  /\ life < MaxLives
  /\ stage' = "starting"
  /\ life' = life + 1
  /\ at' = 1
  /\ container' = {}
  /\ UNCHANGED <<enabled, open, state, cached, broken>>

Starting(x) ==
  /\ stage = "starting"
  /\ at <= Len(StartupSteps)
  /\ x = StartupSteps[at]

Skip(x) ==
  /\ Starting(x)
  /\ x \notin enabled
  /\ at' = at + 1
  /\ UNCHANGED <<enabled, stage, life, container, open, state, cached, broken>>

\* A client or a pool is kept once it is connected.
Acquire(x) ==
  /\ Starting(x)
  /\ x \in enabled \ {"celery"}
  /\ container' = container \cup {x}
  /\ open' = open \cup (({x} \cap Resources) \X {life})
  /\ at' = at + 1
  /\ UNCHANGED <<enabled, stage, life, state, cached, broken>>

\* Constructing the GoTrue client or the JWKS client does no I/O.
MayFail(x) == x \notin {"gotrue", "jwks"} \/ (x = "jwks" /\ "preload" \in enabled)

\* The end of a lifespan by an exception: what follows it is not run.
Raise ==
  /\ stage' = "down"
  /\ broken' = broken \cup {life}
  /\ UNCHANGED <<enabled, at, life, container, state, cached>>

\* A setting is missing, a backend cannot be reached, the policy is broken; the
\* Celery app has not shipped.  startup() is not inside the try.
AcquireFails(x) ==
  /\ Starting(x)
  /\ x \in enabled
  /\ MayFail(x)
  /\ Raise
  /\ UNCHANGED open

\* Mutant: the Redis client is not shown.
ServeForgets ==
  /\ stage = "starting"
  /\ at > Len(StartupSteps)
  /\ stage' = "serving"
  /\ state' = [s \in Exposed |-> IF s \in container \ {"redis"} THEN life ELSE Null]
  /\ UNCHANGED <<enabled, at, life, container, open, cached, broken>>

\* What the container holds is shown on app.state, what it has not as None.
Serve ==
  /\ stage = "starting"
  /\ at > Len(StartupSteps)
  /\ stage' = "serving"
  /\ state' = [s \in Exposed |-> IF s \in container THEN life ELSE Null]
  /\ UNCHANGED <<enabled, at, life, container, open, cached, broken>>

Stop ==
  /\ stage = "serving"
  /\ stage' = "stopping"
  /\ at' = 1
  /\ UNCHANGED <<enabled, life, container, open, state, cached, broken>>

Stopping(x) ==
  /\ stage = "stopping"
  /\ at <= Len(ShutdownSteps)
  /\ x = ShutdownSteps[at]

Release(x) ==
  /\ Stopping(x)
  /\ open' = open \ {<<x, life>>}
  /\ container' = container \ {x}
  /\ at' = at + 1
  /\ UNCHANGED <<enabled, stage, life, state, cached, broken>>

\* Closing raises, with the resource closed or not.
ReleaseFails(x) ==
  /\ Stopping(x)
  /\ x \in container
  /\ Raise
  /\ open' \in {open, open \ {<<x, life>>}}

\* Mutant: the resources stay on app.state.
ClearNothing ==
  /\ stage = "stopping"
  /\ at > Len(ShutdownSteps)
  /\ stage' = "down"
  /\ container' = {}
  /\ UNCHANGED <<enabled, at, life, open, state, cached, broken>>

\* The adapters are not cleared.
Clear ==
  /\ stage = "stopping"
  /\ at > Len(ShutdownSteps)
  /\ stage' = "down"
  /\ container' = {}
  /\ state' = [s \in Exposed |-> Null]
  /\ UNCHANGED <<enabled, at, life, open, cached, broken>>

-----------------------------------------------------------------------------
(* Requests                                                                *)

Reached == stage \in {"serving", "down"}

\* The first request that needs an adapter has it built and kept; it fails if
\* there is nothing to build it over.
Provide(a) ==
  /\ Reached
  /\ cached[a] = Null
  /\ state[Over[a]] # Null
  /\ Needs[a] \subseteq enabled
  /\ cached' = [cached EXCEPT ![a] = state[Over[a]]]
  /\ UNCHANGED <<enabled, stage, at, life, container, open, state, broken>>

\* An authorization service is built if there is none.
BuildService ==
  /\ Reached
  /\ state["casbin"] = Null
  /\ state' = [state EXCEPT !["casbin"] = Lazy]
  /\ UNCHANGED <<enabled, stage, at, life, container, open, cached, broken>>

\* A ping is answered if the pool or client is there and open.
Pinged(x) == state[x] # Null /\ <<x, state[x]>> \in open

\* The readiness of a component, if what can answer its ping does.
Component(x) ==
  IF x \notin enabled THEN "disabled"
  ELSE IF x = "jwks" THEN "unknown"
  ELSE IF (x = "casbin" /\ state[x] # Null) \/ (x # "casbin" /\ Pinged(x)) THEN "ok"
  ELSE "error"

Readiness ==
  LET components == {Component(x) : x \in {"database", "redis", "casbin", "jwks"}} IN
  IF "error" \in components THEN "error"
  ELSE IF "ok" \in components /\ "unknown" \notin components THEN "ok"
  ELSE "degraded"

Next ==
  \/ Begin
  \/ \E x \in Flags : Skip(x) \/ Acquire(x) \/ AcquireFails(x)
  \/ Serve
  \/ Stop
  \/ \E x \in Resources : Release(x) \/ ReleaseFails(x)
  \/ Clear
  \/ \E a \in Adapters : Provide(a)
  \/ BuildService

Spec == Init /\ [][Next]_vars

-----------------------------------------------------------------------------
(* Properties                                                              *)

\* What is open is held by the container of the lifespan that runs, or was left
\* behind by one that broke.
OpenAccounted ==
  \A x \in Resources, n \in Lives : <<x, n>> \in open =>
    /\ n <= life
    /\ n \in broken \/ (n = life /\ stage # "down" /\ x \in container)

\* What shutdown() has closed, the container holds no more.
ReleasedDropped ==
  stage = "stopping" =>
    \A i \in 1..Len(ShutdownSteps) : i < at => ShutdownSteps[i] \notin container

\* What is on app.state is of the lifespan that runs, or of a broken one.
StateAccounted ==
  \A s \in Exposed : state[s] \in Lives =>
    /\ state[s] <= life
    /\ state[s] \in broken \/ (state[s] = life /\ stage \in {"serving", "stopping"})

BrokenAccounted ==
  /\ broken \subseteq 1..life
  /\ life \in broken \cup {0} => stage = "down"

\* What the container holds is open, and what a serving application shows is
\* what its container holds.
HeldOpen ==
  /\ stage # "down" => \A x \in container \cap Resources : <<x, life>> \in open
  /\ stage = "serving" => \A s \in Exposed : state[s] = life => s \in container

CachedAccounted == \A a \in Adapters : cached[a] \in Lives => cached[a] <= life

Accounted ==
  /\ TypeOK
  /\ OpenAccounted
  /\ ReleasedDropped
  /\ StateAccounted
  /\ BrokenAccounted
  /\ HeldOpen
  /\ CachedAccounted

\* What is enabled is held as soon as startup() is past it and shown when it is
\* done; a lifespan that ended normally shows nothing but what a request built.
EnabledShown ==
  /\ stage = "starting" => \A i \in 1..Len(StartupSteps) :
       i < at /\ StartupSteps[i] \in enabled => StartupSteps[i] \in container
  /\ stage = "serving" => \A s \in enabled \cap Exposed : state[s] = life
  /\ stage = "down" /\ life \notin broken => \A s \in Exposed \ {"casbin"} : state[s] = Null

\* The inductive invariant of LifecycleProofs: whatever is open, on app.state or
\* cached can be accounted for by a lifespan, however lifespans end, and
\* app.state shows what the flags say it should.
LifecycleInvariant == Accounted /\ EnabledShown

\* Outside a lifespan nothing is left open but by one that an exception ended.
LeftOpenOnlyByFailure ==
  stage = "down" => \A x \in Resources, n \in Lives : <<x, n>> \in open => n \in broken

\* A request is never given a new adapter over a closed pool, unless closing the
\* pool raised.
NewAdapterOpen ==
  [][\A a \in Adapters : cached'[a] # cached[a] /\ Over[a] = "database"
       => <<"database", cached'[a]>> \in open \/ cached'[a] \in broken]_vars

\* The probe tells a process that serves from one that has stopped, under every
\* setting of the flags: while a lifespan serves, whichever it is, readiness is
\* not "error" as long as the backends answer, so that no working instance is
\* taken out of rotation; after one that ended normally it is, if a backend is
\* enabled.
ReadyWhileServing ==
  /\ stage = "serving" => Readiness # "error"
  /\ stage = "down" /\ life \notin broken /\ enabled \cap {"database", "redis"} # {}
       => Readiness = "error"

=============================================================================
