----------------------------- MODULE WeatherCache -----------------------------
(***************************************************************************)
(* WeatherService: callers share one cached answer and one fetch at a time. *)
(* Every block under _fetch_condition is one step; wait() gives the lock up *)
(* until a notify_all, and _fetch runs without it.                          *)
(***************************************************************************)
EXTENDS Integers

CONSTANTS
    Thread,   \* the event loop and the threads that send presence pushes
    Weather,  \* what a fetch may find
    NoWeather, Never,
    TTL,      \* cfg.WEATHER_CACHE_TTL_SECONDS
    MaxNow    \* bound: how far the clock runs

ASSUME WeatherCacheAssumption ==
    /\ Never \notin Nat
    /\ TTL \in Int
    /\ MaxNow \in Nat

VARIABLES
    cached,      \* self._cached_weather
    stamp,       \* self._cache_timestamp
    inProgress,  \* self._fetch_in_progress
    pc,          \* "idle", "fetch", "wait" or, once notified, "woken"
    now,         \* the clock
    latest,      \* history: the outcome of the fetch that ended last and when
                 \* it ended; Never when none did, or after an invalidation
    answer       \* history: what each thread's last call returned

vars == <<cached, stamp, inProgress, pc, now, latest, answer>>

NoFetch == [weather |-> NoWeather, at |-> Never]

Init ==
    /\ cached = NoWeather
    /\ stamp = Never
    /\ inProgress = FALSE
    /\ pc = [t \in Thread |-> "idle"]
    /\ now = 0
    /\ latest = NoFetch
    /\ answer = [t \in Thread |-> NoFetch]

IsCacheValid == stamp # Never /\ now - stamp < TTL

\* notify_all: f with every thread that waits woken.
Wake(f) == [t \in Thread |-> IF f[t] = "wait" THEN "woken" ELSE f[t]]

Return(t, w) == answer' = [answer EXCEPT ![t] = [weather |-> w, at |-> now]]

\* Mutant: a woken caller does not look at _fetch_in_progress again.
MustWaitOnce(t) == inProgress /\ pc[t] = "idle"

\* Another caller fetches.
MustWait(t) == inProgress

\* Under the lock: answer from the cache, wait for a fetch in progress, or
\* start one.
Look(t) ==
    /\ \/ /\ IsCacheValid
          /\ pc' = [pc EXCEPT ![t] = "idle"]
          /\ Return(t, cached)
          /\ UNCHANGED inProgress
       \/ /\ ~IsCacheValid
          /\ MustWait(t)
          /\ pc' = [pc EXCEPT ![t] = "wait"]
          /\ UNCHANGED <<inProgress, answer>>
       \/ /\ ~IsCacheValid
          /\ ~MustWait(t)
          /\ pc' = [pc EXCEPT ![t] = "fetch"]
          /\ inProgress' = TRUE
          /\ UNCHANGED answer
    /\ UNCHANGED <<cached, stamp, now, latest>>

GetCondition(t) == pc[t] = "idle" /\ Look(t)

WakeUp(t) == pc[t] = "woken" /\ Look(t)

\* Mutant: nobody is notified.
EndFetchSilently(t) ==
    /\ pc[t] = "fetch"
    /\ inProgress' = FALSE
    /\ pc' = [pc EXCEPT ![t] = "idle"]

\* The fetch of t is over, and everybody who waits is told.
EndFetch(t) ==
    /\ pc[t] = "fetch"
    /\ inProgress' = FALSE
    /\ pc' = Wake([pc EXCEPT ![t] = "idle"])

\* Mutant: a failed fetch leaves no timestamp.
FillUnstamped(w) == cached' = w /\ stamp' = IF w = NoWeather THEN stamp ELSE now

Fill(w) == cached' = w /\ stamp' = now

\* A fetch that failed gives NoWeather, which is cached too.
Fetched(t, w) ==
    /\ EndFetch(t)
    /\ Fill(w)
    /\ latest' = [weather |-> w, at |-> now]
    /\ Return(t, w)
    /\ UNCHANGED now

\* An exception that _fetch does not turn into NoWeather.
FetchRaises(t) ==
    /\ EndFetch(t)
    /\ UNCHANGED <<cached, stamp, now, latest, answer>>

\* Mutant: the timestamp outlives the weather.
InvalidateWeather ==
    /\ cached' = NoWeather
    /\ pc' = Wake(pc)
    /\ latest' = NoFetch
    /\ UNCHANGED <<stamp, inProgress, now, answer>>

\* A fetch in progress goes on, and will fill the cache when it ends.
InvalidateCache ==
    /\ stamp' = Never
    /\ cached' = NoWeather
    /\ pc' = Wake(pc)
    /\ latest' = NoFetch
    /\ UNCHANGED <<inProgress, now, answer>>

Tick ==
    /\ now < MaxNow
    /\ now' = now + 1
    /\ UNCHANGED <<cached, stamp, inProgress, pc, latest, answer>>

FetchEnds(t) == FetchRaises(t) \/ \E w \in Weather \cup {NoWeather} : Fetched(t, w)

Next ==
    \/ \E t \in Thread : GetCondition(t) \/ WakeUp(t) \/ FetchEnds(t)
    \/ InvalidateCache
    \/ Tick

Spec == Init /\ [][Next]_vars

\* urlopen has a timeout, and a notified thread gets the lock back.
FairSpec == Spec /\ \A t \in Thread : WF_vars(FetchEnds(t)) /\ WF_vars(WakeUp(t))

-------------------------------------------------------------------------------
(* Properties                                                              *)

\* Type invariant.
TypeOK ==
    /\ cached \in Weather \cup {NoWeather}
    /\ stamp \in 0..MaxNow \cup {Never}
    /\ inProgress \in BOOLEAN
    /\ pc \in [Thread -> {"idle", "fetch", "wait", "woken"}]
    /\ now \in 0..MaxNow
    /\ latest \in [weather : Weather \cup {NoWeather}, at : 0..MaxNow \cup {Never}]
    /\ answer \in [Thread -> [weather : Weather \cup {NoWeather}, at : 0..MaxNow \cup {Never}]]

\* Requests are coalesced: at most one thread fetches, and it is the one the
\* flag stands for.
SingleFlight ==
    /\ \A t, u \in Thread : pc[t] = "fetch" /\ pc[u] = "fetch" => t = u
    /\ inProgress <=> \E t \in Thread : pc[t] = "fetch"

\* No wake-up is lost: whoever waits, waits for a fetch that will notify it.
WaitersAreServed == (\E t \in Thread : pc[t] = "wait") => inProgress

\* The cache is the outcome of the fetch that ended last.
CacheIsLatest == stamp = latest.at /\ cached = latest.weather

\* The invariant of the coalescing cache.
CacheInv == TypeOK /\ SingleFlight /\ WaitersAreServed /\ CacheIsLatest

\* What a call returns is the outcome of the fetch that ended last, less than
\* the TTL ago or just now, and never one from before an invalidation.
AnswersAreRecent ==
    [][\A t \in Thread : answer'[t] # answer[t] =>
            /\ latest'.at # Never
            /\ answer'[t].weather = latest'.weather
            /\ now - latest'.at < TTL \/ latest'.at = now]_vars

\* The weather service is asked at most once per TTL, failures included, unless
\* the cache is invalidated (or the fetch ended with an exception).
NoHammering ==
    [][\A t \in Thread : pc[t] # "fetch" /\ pc'[t] = "fetch" =>
            latest.at = Never \/ now - latest.at >= TTL]_vars

\* Every call returns, unless invalidations or exceptions never stop coming.
EveryCallReturns ==
    \/ []<><<InvalidateCache>>_vars
    \/ []<><<\E t \in Thread : FetchRaises(t)>>_vars
    \/ \A t \in Thread : (pc[t] # "idle") ~> (pc[t] = "idle")
===============================================================================
