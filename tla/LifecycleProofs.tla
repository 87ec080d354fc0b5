-------------------------- MODULE LifecycleProofs --------------------------
(***************************************************************************)
(* The invariant of Lifecycle, for any number of lifespans of one          *)
(* application, and the properties that follow from it.                    *)
(***************************************************************************)
EXTENDS Lifecycle, TLAPS

LEMMA StepFacts ==
  /\ Len(StartupSteps) = 6 /\ Len(ShutdownSteps) = 3
  /\ ShutdownSteps[1] = "gotrue" /\ ShutdownSteps[2] = "redis"
  /\ ShutdownSteps[3] = "database"
  /\ StartupSteps[1] = "database" /\ StartupSteps[2] = "gotrue" /\ StartupSteps[3] = "jwks"
  /\ StartupSteps[4] = "redis" /\ StartupSteps[5] = "casbin" /\ StartupSteps[6] = "celery"
BY DEF StartupSteps, ShutdownSteps

LEMMA LifeFacts ==
  ASSUME TypeOK
  PROVE  /\ life \in Nat /\ MaxLives \in Nat /\ Lives \subseteq Nat
         /\ Null \notin Lives /\ Lazy \notin Lives /\ Null # Lazy
         /\ \A n : n \in Lives <=> n \in Nat /\ 1 <= n /\ n <= MaxLives
<1>1. MaxLives \in Nat /\ Lazy \notin Nat /\ Null \notin Nat /\ Lazy # Null
  BY LifecycleAssumption
<1> QED BY <1>1 DEF TypeOK, Lives

LEMMA InitAccounted == Init => Accounted
<1> SUFFICES ASSUME Init PROVE Accounted
  OBVIOUS
<1>1. MaxLives \in Nat /\ Lazy \notin Nat /\ Null \notin Nat /\ Lazy # Null
  BY LifecycleAssumption
<1>2. TypeOK
  BY <1>1 DEF Init, TypeOK
<1>3. Null \notin Lives
  BY <1>2, LifeFacts
<1>4. OpenAccounted /\ ReleasedDropped /\ BrokenAccounted /\ HeldOpen
  BY DEF Init, OpenAccounted, ReleasedDropped, BrokenAccounted, HeldOpen
<1>5. StateAccounted /\ CachedAccounted
  BY <1>3 DEF Init, StateAccounted, CachedAccounted
<1> QED BY <1>2, <1>4, <1>5 DEF Accounted

LEMMA BeginKeeps ==
  ASSUME Accounted, Begin
  PROVE  Accounted'
<1>1. /\ TypeOK /\ OpenAccounted /\ StateAccounted /\ BrokenAccounted /\ CachedAccounted
      /\ stage = "down" /\ stage' = "starting" /\ life' = life + 1 /\ life < MaxLives
      /\ at' = 1 /\ container' = {}
      /\ UNCHANGED <<enabled, open, state, cached, broken>>
  BY DEF Begin, Accounted
<1>2. /\ life \in Nat /\ MaxLives \in Nat /\ Lives \subseteq Nat
  BY <1>1, LifeFacts
<1>3. TypeOK'
  BY <1>1, <1>2 DEF TypeOK
<1>4. OpenAccounted'
  BY <1>1, <1>2 DEF OpenAccounted
<1>5. ReleasedDropped' /\ HeldOpen'
  BY <1>1 DEF ReleasedDropped, HeldOpen
<1>6. \A n \in Lives : n <= life => n <= life'
  BY <1>1, <1>2
<1>7. StateAccounted'
  BY <1>1, <1>6 DEF StateAccounted
<1>8. BrokenAccounted'
  BY <1>1, <1>2 DEF BrokenAccounted
<1>9. CachedAccounted'
  BY <1>1, <1>6 DEF CachedAccounted
<1> QED BY <1>3, <1>4, <1>5, <1>7, <1>8, <1>9 DEF Accounted

LEMMA SkipKeeps ==
  ASSUME Accounted, NEW x, Skip(x)
  PROVE  Accounted'
<1>1. /\ stage = "starting" /\ at <= 6 /\ at' = at + 1
      /\ UNCHANGED <<enabled, stage, life, container, open, state, cached, broken>>
  BY StepFacts DEF Skip, Starting
<1>2. TypeOK'
  BY <1>1 DEF Accounted, TypeOK
<1>3. OpenAccounted' /\ StateAccounted' /\ BrokenAccounted' /\ CachedAccounted'
  BY <1>1 DEF Accounted, OpenAccounted, StateAccounted, BrokenAccounted,
              CachedAccounted
<1>4. ReleasedDropped' /\ HeldOpen'
  BY <1>1 DEF Accounted, ReleasedDropped, HeldOpen
<1> QED BY <1>2, <1>3, <1>4 DEF Accounted

LEMMA AcquireKeeps ==
  ASSUME Accounted, NEW x, Acquire(x)
  PROVE  Accounted'
<1>1. /\ TypeOK /\ OpenAccounted /\ StateAccounted /\ BrokenAccounted /\ CachedAccounted
      /\ stage = "starting" /\ at <= 6 /\ at' = at + 1 /\ x = StartupSteps[at]
      /\ x # "celery"
      /\ container' = container \cup {x}
      /\ open' = open \cup (({x} \cap Resources) \X {life})
      /\ UNCHANGED <<enabled, stage, life, state, cached, broken>>
  BY StepFacts DEF Acquire, Starting, Accounted
<1>2. x \in Exposed
  BY <1>1, StepFacts DEF TypeOK, Exposed
<1>3. life \in Lives
  <2>1. life # 0
    BY <1>1 DEF BrokenAccounted
  <2> QED BY <1>1, <2>1, LifeFacts DEF TypeOK
<1>4. TypeOK'
  BY <1>1, <1>2, <1>3 DEF TypeOK
<1>5. OpenAccounted'
  <2>1. life \in Nat
    BY <1>1, LifeFacts
  <2> QED BY <1>1, <2>1 DEF OpenAccounted
<1>6. StateAccounted' /\ BrokenAccounted' /\ CachedAccounted'
  BY <1>1 DEF StateAccounted, BrokenAccounted, CachedAccounted
<1>7. ReleasedDropped' /\ HeldOpen'
  BY <1>1 DEF Accounted, ReleasedDropped, HeldOpen
<1> QED BY <1>4, <1>5, <1>6, <1>7 DEF Accounted

\* The end of a lifespan by an exception.
LEMMA RaiseKeeps ==
  ASSUME Accounted, stage # "down", Raise,
         open' = open \/ \E x \in Resources : open' = open \ {<<x, life>>}
  PROVE  Accounted'
<1>1. /\ TypeOK /\ OpenAccounted /\ StateAccounted /\ BrokenAccounted /\ CachedAccounted
      /\ stage' = "down" /\ broken' = broken \cup {life} /\ open' \subseteq open
      /\ UNCHANGED <<enabled, at, life, container, state, cached>>
  BY DEF Raise, Accounted
<1>2. life \in Lives /\ life \in Nat
  <2>1. life # 0
    BY <1>1 DEF BrokenAccounted
  <2> QED BY <1>1, <2>1, LifeFacts DEF TypeOK
<1>3. TypeOK'
  BY <1>1, <1>2 DEF TypeOK
<1>4. OpenAccounted'
  BY <1>1, <1>2 DEF OpenAccounted
<1>5. ReleasedDropped' /\ HeldOpen'
  BY <1>1 DEF ReleasedDropped, HeldOpen
<1>6. StateAccounted' /\ CachedAccounted'
  BY <1>1, <1>2 DEF StateAccounted, CachedAccounted
<1>7. BrokenAccounted'
  <2>1. life \in 1..life
    BY <1>1, <1>2, LifeFacts
  <2> QED BY <1>1, <2>1 DEF BrokenAccounted
<1> QED BY <1>3, <1>4, <1>5, <1>6, <1>7 DEF Accounted

LEMMA FailuresKeep ==
  ASSUME Accounted, NEW x, AcquireFails(x) \/ (x \in Resources /\ ReleaseFails(x))
  PROVE  Accounted'
BY RaiseKeeps DEF AcquireFails, ReleaseFails, Starting, Stopping

LEMMA ServeKeeps ==
  ASSUME Accounted, Serve
  PROVE  Accounted'
<1>1. /\ TypeOK /\ OpenAccounted /\ BrokenAccounted /\ CachedAccounted /\ HeldOpen
      /\ stage = "starting" /\ stage' = "serving"
      /\ state' = [s \in Exposed |-> IF s \in container THEN life ELSE Null]
      /\ UNCHANGED <<enabled, at, life, container, open, cached, broken>>
  BY DEF Serve, Accounted
<1>2. /\ life \in Lives /\ life \in Nat /\ Null # Lazy /\ Null \notin Lives /\ Lazy \notin Lives
  <2>1. life # 0
    BY <1>1 DEF BrokenAccounted
  <2> QED BY <1>1, <2>1, LifeFacts DEF TypeOK
<1>3. TypeOK'
  BY <1>1, <1>2 DEF TypeOK
<1>4. OpenAccounted' /\ BrokenAccounted' /\ CachedAccounted'
  BY <1>1 DEF OpenAccounted, BrokenAccounted, CachedAccounted
<1>5. ReleasedDropped'
  BY <1>1 DEF ReleasedDropped
<1>6. StateAccounted'
  BY <1>1, <1>2 DEF StateAccounted
<1>7. HeldOpen'
  BY <1>1, <1>2 DEF HeldOpen
<1> QED BY <1>3, <1>4, <1>5, <1>6, <1>7 DEF Accounted

LEMMA StopKeeps ==
  ASSUME Accounted, Stop
  PROVE  Accounted'
<1>1. /\ TypeOK /\ OpenAccounted /\ StateAccounted /\ BrokenAccounted /\ CachedAccounted
      /\ HeldOpen /\ stage = "serving" /\ stage' = "stopping" /\ at' = 1
      /\ UNCHANGED <<enabled, life, container, open, state, cached, broken>>
  BY DEF Stop, Accounted
<1>2. TypeOK'
  BY <1>1 DEF TypeOK
<1>3. OpenAccounted' /\ BrokenAccounted' /\ CachedAccounted' /\ StateAccounted'
  BY <1>1 DEF OpenAccounted, BrokenAccounted, CachedAccounted, StateAccounted
<1>4. ReleasedDropped'
  BY <1>1, StepFacts DEF ReleasedDropped
<1>5. HeldOpen'
  BY <1>1 DEF HeldOpen
<1> QED BY <1>2, <1>3, <1>4, <1>5 DEF Accounted

LEMMA ReleaseKeeps ==
  ASSUME Accounted, NEW x \in Resources, Release(x)
  PROVE  Accounted'
<1>1. /\ TypeOK /\ OpenAccounted /\ StateAccounted /\ BrokenAccounted /\ CachedAccounted
      /\ HeldOpen /\ ReleasedDropped /\ stage = "stopping" /\ at <= 3 /\ at' = at + 1
      /\ x = ShutdownSteps[at]
      /\ open' = open \ {<<x, life>>} /\ container' = container \ {x}
      /\ UNCHANGED <<enabled, stage, life, state, cached, broken>>
  BY StepFacts DEF Release, Stopping, Accounted
<1>2. at \in 1..3
  BY <1>1 DEF TypeOK
<1>3. TypeOK'
  BY <1>1, <1>2 DEF TypeOK
<1>4. OpenAccounted'
  BY <1>1 DEF OpenAccounted
<1>5. BrokenAccounted' /\ CachedAccounted' /\ StateAccounted'
  BY <1>1 DEF BrokenAccounted, CachedAccounted, StateAccounted
<1>6. ReleasedDropped'
  <2>1. ASSUME NEW i \in 1..3, i < at + 1 PROVE ShutdownSteps[i] \notin container'
    <3>1. i < at \/ i = at
      BY <1>2, <2>1
    <3> QED BY <1>1, <3>1, StepFacts DEF ReleasedDropped
  <2> QED BY <1>1, <2>1, StepFacts DEF ReleasedDropped
<1>7. HeldOpen'
  BY <1>1 DEF HeldOpen
<1> QED BY <1>3, <1>4, <1>5, <1>6, <1>7 DEF Accounted

LEMMA ClearKeeps ==
  ASSUME Accounted, Clear
  PROVE  Accounted'
<1>1. /\ TypeOK /\ OpenAccounted /\ BrokenAccounted /\ CachedAccounted /\ ReleasedDropped
      /\ stage = "stopping" /\ at > 3 /\ stage' = "down" /\ container' = {}
      /\ state' = [s \in Exposed |-> Null]
      /\ UNCHANGED <<enabled, at, life, open, cached, broken>>
  BY StepFacts DEF Clear, Accounted
<1>2. Null \notin Lives /\ Null # Lazy
  BY <1>1, LifeFacts
<1>3. container \cap Resources = {}
  <2>1. at \in Int
    BY <1>1 DEF TypeOK
  <2>2. \A i \in 1..3 : ShutdownSteps[i] \notin container
    BY <1>1, <2>1, StepFacts DEF ReleasedDropped
  <2>3. "gotrue" \notin container /\ "redis" \notin container /\ "database" \notin container
    BY <2>2, StepFacts
  <2> QED BY <2>3 DEF Resources
<1>4. TypeOK'
  BY <1>1, <1>2 DEF TypeOK
<1>5. OpenAccounted'
  BY <1>1, <1>3 DEF OpenAccounted
<1>6. BrokenAccounted' /\ CachedAccounted'
  BY <1>1 DEF BrokenAccounted, CachedAccounted
<1>7. StateAccounted'
  BY <1>1, <1>2 DEF StateAccounted
<1>8. ReleasedDropped' /\ HeldOpen'
  BY <1>1 DEF ReleasedDropped, HeldOpen
<1> QED BY <1>4, <1>5, <1>6, <1>7, <1>8 DEF Accounted

LEMMA ProvideKeeps ==
  ASSUME Accounted, NEW a \in Adapters, Provide(a)
  PROVE  /\ Accounted'
         /\ state[Over[a]] \in Lives
<1>1. /\ TypeOK /\ OpenAccounted /\ StateAccounted /\ BrokenAccounted /\ CachedAccounted
      /\ HeldOpen /\ ReleasedDropped /\ state[Over[a]] # Null
      /\ cached' = [cached EXCEPT ![a] = state[Over[a]]]
      /\ UNCHANGED <<enabled, stage, at, life, container, open, state, broken>>
  BY DEF Provide, Accounted
<1>2. Over[a] \in Exposed \ {"casbin"}
  BY DEF Over, Adapters, Exposed
<1>3. state[Over[a]] \in Lives
  BY <1>1, <1>2 DEF TypeOK
<1>4. TypeOK'
  BY <1>1, <1>3 DEF TypeOK
<1>5. /\ OpenAccounted' /\ BrokenAccounted' /\ StateAccounted' /\ ReleasedDropped'
      /\ HeldOpen'
  BY <1>1 DEF OpenAccounted, BrokenAccounted, StateAccounted, ReleasedDropped, HeldOpen
<1>6. state[Over[a]] <= life
  BY <1>1, <1>2, <1>3 DEF StateAccounted
<1>7. CachedAccounted'
  BY <1>1, <1>6 DEF CachedAccounted, TypeOK
<1> QED BY <1>3, <1>4, <1>5, <1>7 DEF Accounted

LEMMA BuildServiceKeeps ==
  ASSUME Accounted, BuildService
  PROVE  Accounted'
<1>1. /\ TypeOK /\ OpenAccounted /\ StateAccounted /\ BrokenAccounted /\ CachedAccounted
      /\ HeldOpen /\ ReleasedDropped
      /\ state' = [state EXCEPT !["casbin"] = Lazy]
      /\ UNCHANGED <<enabled, stage, at, life, container, open, cached, broken>>
  BY DEF BuildService, Accounted
<1>2. "casbin" \in Exposed /\ Lazy \notin Lives /\ Lazy # life
  BY <1>1, LifeFacts, LifecycleAssumption DEF Exposed
<1>3. state' \in [Exposed -> Lives \cup {Null, Lazy}]
  BY <1>1 DEF TypeOK
<1>4. state'["casbin"] = Lazy /\ \A s \in Exposed \ {"casbin"} : state'[s] = state[s]
  BY <1>1, <1>2 DEF TypeOK
<1>5. TypeOK'
  BY <1>1, <1>3, <1>4 DEF TypeOK
<1>6. /\ OpenAccounted' /\ BrokenAccounted' /\ CachedAccounted' /\ ReleasedDropped'
  BY <1>1 DEF OpenAccounted, BrokenAccounted, CachedAccounted, ReleasedDropped
<1>7. StateAccounted'
  BY <1>1, <1>2, <1>4 DEF StateAccounted
<1>8. HeldOpen'
  BY <1>1, <1>2, <1>4 DEF HeldOpen
<1> QED BY <1>5, <1>6, <1>7, <1>8 DEF Accounted

LEMMA NextKeeps == Accounted /\ [Next]_vars => Accounted'
<1> SUFFICES ASSUME Accounted, [Next]_vars PROVE Accounted'
  OBVIOUS
<1>1. CASE Begin
  BY <1>1, BeginKeeps
<1>2. ASSUME NEW x \in Flags, Skip(x) \/ Acquire(x) \/ AcquireFails(x)
      PROVE  Accounted'
  BY <1>2, SkipKeeps, AcquireKeeps, FailuresKeep
<1>3. CASE Serve
  BY <1>3, ServeKeeps
<1>4. CASE Stop
  BY <1>4, StopKeeps
<1>5. ASSUME NEW x \in Resources, Release(x) \/ ReleaseFails(x)
      PROVE  Accounted'
  BY <1>5, ReleaseKeeps, FailuresKeep
<1>6. CASE Clear
  BY <1>6, ClearKeeps
<1>7. ASSUME NEW a \in Adapters, Provide(a) PROVE Accounted'
  BY <1>7, ProvideKeeps
<1>8. CASE BuildService
  BY <1>8, BuildServiceKeeps
<1>9. CASE UNCHANGED vars
  BY <1>9 DEF vars, Accounted, TypeOK, OpenAccounted, ReleasedDropped,
              StateAccounted, BrokenAccounted, HeldOpen, CachedAccounted
<1> QED BY <1>1, <1>2, <1>3, <1>4, <1>5, <1>6, <1>7, <1>8, <1>9 DEF Next

-----------------------------------------------------------------------------
(* What app.state shows                                                    *)

LEMMA InitShown == Init => EnabledShown
BY DEF Init, EnabledShown

\* startup() goes past an enabled resource only when the container holds it.
LEMMA StartupShown ==
  ASSUME Accounted, EnabledShown, NEW x, Skip(x) \/ Acquire(x)
  PROVE  EnabledShown'
<1>1. /\ stage = "starting" /\ stage' = stage /\ at' = at + 1 /\ x = StartupSteps[at]
      /\ enabled' = enabled /\ container \subseteq container'
      /\ x \in enabled => x \in container'
  BY DEF Skip, Acquire, Starting
<1>2. at \in Nat
  BY DEF Accounted, TypeOK
<1>3. ASSUME NEW i \in 1..6, i < at + 1, StartupSteps[i] \in enabled
      PROVE  StartupSteps[i] \in container'
  <2>1. CASE i < at
    BY <1>1, <1>3, <2>1, StepFacts DEF EnabledShown
  <2>2. CASE i = at
    BY <1>1, <1>3, <2>2
  <2> QED BY <1>2, <1>3, <2>1, <2>2
<1> QED BY <1>1, <1>3, StepFacts DEF EnabledShown

LEMMA ServeShown ==
  ASSUME Accounted, EnabledShown, Serve
  PROVE  EnabledShown'
<1>1. /\ stage = "starting" /\ at > 6 /\ stage' = "serving" /\ at \in Nat
      /\ state' = [s \in Exposed |-> IF s \in container THEN life ELSE Null]
      /\ enabled' = enabled /\ life' = life
  BY StepFacts DEF Serve, Accounted, TypeOK
<1>2. \A i \in 1..6 : StartupSteps[i] \in enabled => StartupSteps[i] \in container
  BY <1>1, StepFacts DEF EnabledShown
<1>3. \A s \in Exposed : \E i \in 1..6 : s = StartupSteps[i]
  <2>1. 1 \in 1..6 /\ 2 \in 1..6 /\ 3 \in 1..6 /\ 4 \in 1..6 /\ 5 \in 1..6
    OBVIOUS
  <2> QED BY <2>1, StepFacts DEF Exposed
<1>4. \A s \in enabled \cap Exposed : s \in container
  BY <1>2, <1>3
<1> QED BY <1>1, <1>4 DEF EnabledShown

\* A service that a request builds takes the place of none.
LEMMA BuildServiceShown ==
  ASSUME Accounted, EnabledShown, BuildService
  PROVE  EnabledShown'
<1>1. /\ state["casbin"] = Null /\ state' = [state EXCEPT !["casbin"] = Lazy]
      /\ UNCHANGED <<enabled, stage, at, life, container, broken>>
      /\ stage \in {"serving", "down"}
  BY DEF BuildService, Reached
<1>2. \A s \in Exposed \ {"casbin"} : state'[s] = state[s]
  BY <1>1 DEF Accounted, TypeOK
<1>3. life # Null
  BY LifeFacts, LifecycleAssumption DEF Accounted
<1>4. stage = "serving" => "casbin" \notin enabled
  BY <1>1, <1>3 DEF EnabledShown, Exposed
<1> QED BY <1>1, <1>2, <1>4 DEF EnabledShown

LEMMA NextShown == Accounted /\ EnabledShown /\ [Next]_vars => EnabledShown'
<1> SUFFICES ASSUME Accounted, EnabledShown, [Next]_vars PROVE EnabledShown'
  OBVIOUS
<1>1. ASSUME NEW x, AcquireFails(x) \/ ReleaseFails(x)
      PROVE  EnabledShown'
  BY <1>1 DEF AcquireFails, ReleaseFails, Raise, EnabledShown
<1>2. Begin \/ Stop \/ Clear => EnabledShown'
  <2>1. Begin => EnabledShown'
    <3>1. \A i \in 1..Len(StartupSteps) : ~(i < 1)
      BY StepFacts
    <3> QED BY <3>1 DEF Begin, EnabledShown
  <2>2. Stop \/ Clear => EnabledShown'
    BY DEF Stop, Clear, EnabledShown
  <2> QED BY <2>1, <2>2
<1>3. ASSUME NEW x, Release(x)
      PROVE  EnabledShown'
  BY <1>3 DEF Release, Stopping, EnabledShown
<1>4. ASSUME NEW a, Provide(a)
      PROVE  EnabledShown'
  BY <1>4 DEF Provide, EnabledShown
<1>5. UNCHANGED vars => EnabledShown'
  BY DEF vars, EnabledShown
<1> QED BY <1>1, <1>2, <1>3, <1>4, <1>5, StartupShown, ServeShown, BuildServiceShown
        DEF Next

\* Whatever is open, on app.state or cached is some lifespan's, for any number
\* of lifespans (container.py:56-138, lifespan.py:19-40).
THEOREM LifecycleInvariance == Spec => []LifecycleInvariant
<1>1. Init => LifecycleInvariant
  BY InitAccounted, InitShown DEF LifecycleInvariant
<1>2. LifecycleInvariant /\ [Next]_vars => LifecycleInvariant'
  BY NextKeeps, NextShown DEF LifecycleInvariant
<1> QED BY <1>1, <1>2, PTL DEF Spec

\* A lifespan that no exception ends leaves nothing open (container.py:118-137).
THEOREM NothingLeftOpen == Spec => []LeftOpenOnlyByFailure
<1>1. LifecycleInvariant => LeftOpenOnlyByFailure
  BY DEF LifecycleInvariant, Accounted, OpenAccounted, LeftOpenOnlyByFailure
<1> QED BY <1>1, LifecycleInvariance, PTL

\* A new adapter is over an open pool, or one whose closing raised
\* (factories.py:52-91, lifespan.py:31-40).
THEOREM AdaptersStartOpen == Spec => NewAdapterOpen
<1> DEFINE A == \A a \in Adapters : cached'[a] # cached[a] /\ Over[a] = "database"
                  => <<"database", cached'[a]>> \in open \/ cached'[a] \in broken
<1>1. ASSUME LifecycleInvariant, [Next]_vars PROVE A \/ UNCHANGED vars
  <2> SUFFICES ASSUME NEW a \in Adapters, cached'[a] # cached[a], Over[a] = "database"
               PROVE  <<"database", cached'[a]>> \in open \/ cached'[a] \in broken
    OBVIOUS
  <2>1. PICK b \in Adapters : Provide(b)
    BY <1>1 DEF Next, vars, Begin, Skip, Acquire, AcquireFails, Raise, Serve, Stop, Release,
                ReleaseFails, Clear, BuildService
  <2>2. /\ b = a /\ cached'[a] = state["database"] /\ Reached
    BY <1>1, <2>1 DEF Provide, LifecycleInvariant, Accounted, TypeOK
  <2>3. state["database"] \in Lives
    BY <1>1, <2>1, <2>2, ProvideKeeps DEF LifecycleInvariant
  <2>4. state["database"] \in broken \/ (state["database"] = life /\ stage = "serving")
    BY <1>1, <2>2, <2>3 DEF LifecycleInvariant, Accounted, StateAccounted, Reached, Exposed
  <2>5. ASSUME state["database"] = life, stage = "serving"
        PROVE  <<"database", life>> \in open
    BY <1>1, <2>5 DEF LifecycleInvariant, Accounted, HeldOpen, Exposed, Resources
  <2> QED BY <2>2, <2>4, <2>5
<1> QED BY <1>1, LifecycleInvariance, PTL DEF Spec, NewAdapterOpen

\* While a lifespan serves, and only then, the readiness probe finds what the
\* flags enable, for any number of lifespans, however those before it ended
\* (health/routes.py:33-85, lifespan.py:19-40, container.py:56-103).
THEOREM ReadinessTellsServing == Spec => []ReadyWhileServing
<1>1. LifecycleInvariant => ReadyWhileServing
  <2> SUFFICES ASSUME LifecycleInvariant PROVE ReadyWhileServing
    OBVIOUS
  <2>1. ASSUME stage = "serving", NEW x \in {"database", "redis", "casbin", "jwks"}
        PROVE  Component(x) # "error"
    <3>1. x \in Exposed /\ life # Null
      BY LifeFacts, LifecycleAssumption DEF LifecycleInvariant, Accounted, Exposed
    <3>2. x \in enabled => state[x] = life
      BY <2>1, <3>1 DEF LifecycleInvariant, EnabledShown
    <3>3. x \in enabled /\ x \in Resources => <<x, life>> \in open
      BY <2>1, <3>1, <3>2 DEF LifecycleInvariant, Accounted, HeldOpen
    <3>4. x \in {"database", "redis"} => x \in Resources
      BY DEF Resources
    <3> QED BY <3>1, <3>2, <3>3, <3>4 DEF Component, Pinged
  <2>2. ASSUME stage = "down", life \notin broken, enabled \cap {"database", "redis"} # {}
        PROVE  Readiness = "error"
    <3>1. PICK x \in {"database", "redis"} : x \in enabled
      BY <2>2
    <3>2. state[x] = Null
      BY <2>2, <3>1 DEF LifecycleInvariant, EnabledShown, Exposed
    <3>3. Component(x) = "error"
      BY <3>1, <3>2 DEF Component, Pinged
    <3> QED BY <3>1, <3>3 DEF Readiness
  <2>3. stage = "serving" => Readiness # "error"
    BY <2>1 DEF Readiness
  <2> QED BY <2>2, <2>3 DEF ReadyWhileServing
<1> QED BY <1>1, LifecycleInvariance, PTL

=============================================================================
