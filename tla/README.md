# Verification of the Fribbe status checker

TLA+ models of the services of the Fribbe status checker (a FastAPI application,
`src/app`), the TLC runs that check them on small instances, and TLAPS proofs of
the properties that matter most for all instances.

The application is one process. `async` request handlers run on its event loop,
plain handlers and the calls wrapped in `run_in_threadpool` on pool threads, and
four `PollingService` threads run for as long as the process does. All state is
in the memory of service singletons, in JSON files behind `PersistentDict`, and
in session files. What is hard about it is what these threads do to each other
between two steps of one of them, and what failed writes and restarts leave
behind. That is what the modules are about; texts, pages and validation of a
single request are not. One module is about a program of its own, the release
script (`scripts/release.py`), which shares a clone, origin and GitHub with the
people that use them.

## Inventory

| Component | State | Operations | Talks to | Hard behaviour | What makes it correct |
|---|---|---|---|---|---|
| `PersistentDict` (`persistent_collections.py`) | map, file, reader/writer lock, `_batch_owner`, `_batch_depth` | mutators, readers, `reload`, `batch_write`, `_save` | every store below | unguarded batch fields, nested batches, a save that fails, a crash in a save | behaves as an atomic durable map; the lock always comes back |
| `PersistentList`, `PersistentObject`, `persistent` fields | a dictionary each | constructor with a default, get, set, replace | key store, thresholds, internal data | the constructor is a read followed by a write | a default never replaces a stored value (it can) |
| `EphemeralAPIKeyStore`, `/api/internal/api_key(s)` | the key file, `_write_lock` | append, remove by prefix, validity checks | file only | lookups without the lock, own-key check before the lock | stored keys stay, removed keys stay away, a removal takes the one key its prefix names, never the caller's |
| `NotificationService`, `/api/notifications`, the forms of `notification_ui.py`, the query of `api/requests.py` | store of shared objects, `_known_active_nids` | add, get, update, enable, disable, delete, delete_many, poll, cleanup | push | set without a lock, fields changed one by one, list-then-delete, keywords that exclude each other in queries | each activation announced once, deletions final, visitors see active ones only |
| `PushSubscriptionService`, `/api/push` | store of shared objects | add, remove, update_topics, send | web push | senders delete while the event loop tests and writes | limit, no lost subscription, pushes to subscribers only |
| `WeatherService` | cached answer, timestamp, `_fetch_in_progress` | get_condition, invalidate_cache | OpenWeatherMap | coalescing on a condition variable | one fetch, no lost wake-up, recent answers, spaced fetches |
| `PresenceLevelService`, `PresenceThresholds`, `/api/internal/config` | level, error, date of the last push; two threshold files | poll, first-arrival push, PATCH | router, push, weather, occupancy | thresholds read one by one, date changes, failures look like departures, restarts | right level; every arrival announced, once a day |
| `InternalService` | four persistent fields, `_last_updated`, wardens on site | poll, details | router, warden store | two clock reads around 5 AM, restart across 5 AM, writes field by field, a clear that fails | statistics belong to the day; the first is the earliest, the last the latest |
| `WardenStore`, `/api/wardens` | list, file, lock | add, update, delete, match | `InternalService` | failed save, lookup before the lock, renaming onto a taken name | told wardens stay, deleted ones stay away, names unique unless renamed |
| `OccupancyService` | weekly and event lists, last error | refresh, get_occupancy | scraped pages | refresh that fails between two assignments, midnight between two rows | each day has its events once; lists of two refreshes are shown with an error only |
| `FileSessionStore`, `HybridAuth`, `PageAuth`, `/api/auth`, `/api/signout` | one file per session, the cookies | read, write, remove, rotate, sign in, sign out, cleanup | starsessions middleware, key store | request in flight during sign-out, rotation of ids, cleanup against reads and writes | signed out means signed out; an id stands for one sign-in; only and all expired sessions are cleaned up |
| Release script (`scripts/release.py`) | clone, origin, pull requests | prepare a version, reuse an open branch, merge main, push, open a pull request | git, GitHub | a failure at any command, old knowledge of origin, merges by others | a branch has its version and every edit of main; one release at a time |
| `PollingService`, `startup`, `shutdown` | thread, stop event | start, stop, loop | the four pollers | stop that times out | one loop per service |
| `MessageService`, configuration, CSRF, schemas, pages, front end, other scripts | none that changes | - | - | - | - |

How they interact: notification and presence polls and the notification handlers
call `send_to_topic_sync` (from several threads at once); building a presence
push calls `get_condition` and `get_occupancy`, and so does the status page, on
the event loop; every store is a `PersistentDict` of its own; the handlers of
`/api/push` and the DELETE handlers of notifications run on the event loop and
wait there for the store's lock.

## Modules

A `Proofs` module EXTENDS the module it proves about; an `MC` module gives values
to its constants. Three proof modules are about two components each, one after the
other: DeliveryProofs about Notifications and PushSubscriptions, InternalServiceProofs about
DeviceStatistics and WardenStore, StatusProofs about WeatherCache and Occupancy. Therefore
the names of the two are disjoint, and PushSubscriptions, WardenStore and
Occupancy call their specifications `SubsSpec`, `WardenSpec` and `OccupancySpec`. A definition whose comment starts with "Mutant" is a plausible
bug kept beside the definition it would replace; no specification uses it.

**PersistentDict** - one dictionary, any number of threads. `writer` is the write
side of the lock, `pc` follows `_save` (temporary file, rename, release), `nest`
counts the `batch_write` blocks a thread is inside, and `batchOwner` and
`batchDepth` are the two shared fields. A read is one step, because it copies under
the reader lock; a thread reading in its own batch sees its working copy, which
nobody else does. `Restart` may come between any two steps.
**DurableMap** is what it promises: exclusive transactions, reads of the last
finished one, a file that is always a whole transaction. `KeepsPromise` states that
every behaviour of PersistentDict is one of DurableMap, where a transaction is open
from taking the lock until the save has ended, and `visible` is the map as it was
when the lock was taken.

**ApiKeyStore** - the file, `_write_lock` and one request per thread. Every `load`
builds a `PersistentList`, whose constructor writes an empty list when it found no
file; load is therefore one step when the file exists and two when it does not.
`save` is one replacement of the file, and so abstracts PersistentDict to what that
module shows of it. Keys are random, so that a key is created once. What a text may
say of a key is two constants: `StartsWith`, the prefixes of the key, and `Longer`, texts that begin
with the key (the delete endpoint refuses both for the caller's own). The abstract
history variables `kept` and `removed` hold what callers were told.

**Notifications** - objects, store, `_known_active_nids`, clock, one call per
request thread and the poll thread. An update changes the three fields in three steps
and holds the store's lock to its end; the poll evaluates `is_active` for one object
at a time without a lock. A tick of the clock is longer than the day after which a
notification is outdated. The history `heard` says who has been announced since the
last activation, `told` since a poll last found the notification inactive. One
behaviour is one life of the process: a restart is a new behaviour over whatever
the file holds, which `Init` leaves open. The requests are those of `notifications.py`
and of the forms: the builder adds a draft, the two buttons are updates of one
field. `Get` is the set of answers a query may have and `Deleted` what delete_many
takes for it; both decide by one keyword, in the order of `Rank`, and `Unprotected` is
what is left of a visitor's query.

**WeatherCache** - each block under `_fetch_condition` is a step, `wait` gives the
lock up, `_fetch` runs without it and has three outcomes: weather, None, an
exception. The history `latest` is the outcome of the fetch that ended last.

**PushSubscriptions** - the store maps auths to objects, which a sender's snapshot
shares and `update_topics` changes in place. The handlers run on the event loop, so
at most one request is between its reads of the store and its write; `add` reads it twice, for the
auth and for the number of subscriptions, and senders delete between the two. A request names a non-empty set
of topics, as `_validate_topics` demands. Creating an object with the next free number
stands for identity.

**Presence** - the poll of `PresenceLevelService`, with `get_presence_level` split
at each read of a threshold, PATCH split at its two writes, the level and the error
under one lock, the decision to push and the push. `day` is the virtual date. The
threshold files exist: the race for the first write of such a file is the one
ApiKeyStore shows.

**DeviceStatistics** - the poll of `InternalService`: the fetch, the reset of a new
virtual day (two clears), the first device, the departure, the last device, the count,
and the second clock reading. Each field is what memory says and what its file says,
since a save that fails leaves the two apart and clearing a field tests memory only.
The clock is a sequence of readings, each with a virtual day, and runs on between any
two steps. A reset that was missed is recorded with its cause in `missed`: the process
restarted since, the two readings lay on both sides of 5 AM, or a clear failed.

**WardenStore** - the list in memory, the file, and the requests. POST and DELETE are one
step under the write lock; PUT is a lookup and an update with anything in between, and
takes what it leaves unchanged from the lookup. A save that fails leaves memory ahead of
the file. The poll matches devices one at a time against whatever the list is then:
`matching` is what it has yet to match and whom it has found, `onSite` the list it
publishes at its end. `kept` and `gone` hold the names whose requests
succeeded.

**Occupancy** - the pure functions of the parser and of `get_occupancy` as operators
over rows and events with a day and an hour, and the refresh as steps: fetch, one row at
a time of either page at a
time (a row of the plan asks the clock for today, one of the calendar without a year for the year), the two assignments, the time stamp, the error.
The service's write lock is held from the first row to the time stamp, so that requests see
the states at rest and after a failure. What the site may show is a constant: any set of
sequences of rows, and a row is any record of a name, a weekday or a date, hours and a
place, any of which may be missing as the parser treats it; a time in free form may name a later
day (`later`), and such a row is on that day. Dates in the past, which dateparser returns for
a text that states them in full, are not modelled. The history `shown` says which refresh each list is from, and of the plan which days
its parsing began and ended on. `Extended` repeats a plan for a year; a plan with as
many rows as a year has days the code takes as it is, and `Repeated` says so
in `PlanIsRight`. Sorting is stated by rank (the k-th event is the one that k - 1 go before) and
`OfDay` by a recursive function, so that both can be proved about.

**Sessions** - the session files, the cookies, the tokens that are accepted, the requests
in progress and the hourly cleanup. A request is loaded from its file by the
middleware, handled (sign-in, sign-out, or a check that may replace the id, as
`HybridAuth` and `PageAuth` do), and ends with the file of its id written or removed; each file
operation is a step, because it runs on a pool thread. A browser accepts the
cookies of the answers in any order. Ids are random, so that a new one is unused. The
histories say which ids were ended, and whether another request held the data of
such an id (`raced`), which is the case in which it can come back.

**Release** - git as far as the script uses it: a tip of a branch is the newest commit of
main it contains, the other commits it contains, and the version and the number of other
edits in its `pyproject.toml`. `run` follows the script from one command to the next;
`Fail` ends it anywhere. `Others` merge on GitHub and develop on main at any time, and the
`Developer` checks out, stashes, commits and deletes branches between two runs. Main and the
branches of origin as the clone last saw them are variables of their own, for what the
script decides it decides on these.

## Runs

| Run | Instance | What it shows |
|---|---|---|
| `persistent_dict` | 2 threads, 2 keys, 1 value, nesting 2 | type, agreement of batch fields, lock and save, refinement of DurableMap, every lock given back |
| `api_key_store` | 2 threads, 3 keys, 3 prefixes, one of them ambiguous | keys kept, removals final, a removal takes the one key its prefix names when it writes, own key safe |
| `api_key_store_first_key` | the same | finds the first key lost (finding) |
| `notifications` | 2 notifications, 1 request thread, 2 clock values, an end or none | announced once and none missed for calls that do not overlap, deletions final with every overlap, queries of visitors, polls end |
| `sessions` | 1 browser, 2 requests at a time, 2 ids, 2 tokens, lifetime 1, 3 clock values | ended sessions stay ended, one sign-in per id, live sessions kept, expired ones cleaned up |
| `release` | 3 versions, 3 commits on main, 2 on release branches | version and edits of a branch, one release at a time, no new one beside it |
| `weather_cache` | 3 threads, TTL 2, 4 clock values | invariant of the cache, recent answers, spaced fetches, calls return |
| `push_subscriptions` | 2 browsers, limit 1, 2 topics, 2 senders, 3 objects | limit, subscriptions kept, pushes to subscribers of the topic only |
| `presence` | counts 0, 3, 10; `min_non_empty_ct` 2 or 5, `min_many_ct` 3 or 10; 2 days | arrivals announced, once a day, level right |
| `device_statistics` | counts 0 and 1, 6 clock readings over 3 virtual days | no reset missed but for the three causes, first and last right |
| `warden_store` | 3 names, two of which differ in case only, lists of up to 2, one PUT in flight, 2 devices | names kept, deletions final, names unique unless renamed, wardens on site right |
| `occupancy` | week of 3 days, year of 7 that begins on day 3, 5 days of the clock, 3 refreshes, 4 plans, 3 calendars | weekly events on their days, once each, answers as documented, errors shown, the inductive invariant |

Why the bounds are enough. Each hazard takes two or three actors: a holder and an
intruder for the dictionary and the key store, one thread fetching and two waiting
for the weather, two senders and the event loop for subscriptions. Three keys with a
shared prefix make a prefix ambiguous and unique again; two browsers for one place
fill the store and make one wait for a deletion; three objects allow one
re-subscription after both have subscribed; two topics tell a subscriber of one from one
of both. The clock needs one value before, one inside and one after an interval (for
notifications the end 0 is one that has passed at the next tick); two days are
one change of the date. Three virtual days are a day, its end and the day after, each
with an early and a late reading.
Three names of which two are equal up to case give a clash and a bystander; at most one save
in a row fails. There all wardens have the same two devices, since a second set of devices makes the run too
long; the proof of `OnSiteJustified` is for any sets of devices. A week needs to be shorter than the run of the clock, so that weekdays
repeat, and a year longer than two weeks with a rest; the third refresh follows one that
failed half way. Two requests of one browser are one in flight and one that signs out or
rotates; two ids are one before and one after a rotation, and a third clock value lets a
session expire that was renewed once. Three versions are the released one and two to offer at the same time;
three commits on main let a branch fall behind twice, and two on branches are the version
and one merge. Symmetry is used only in runs without liveness, over values that are
interchangeable.

Several properties are conditional on purpose, and do not catch what they exempt. A history
variable marks exactly the steps concerned, so that everything else is checked:

- `disturbed` (Notifications, in `AnnouncedOnce` and `NoneMissed`): an add or update overlapped a
  poll, when the code does announce a notification twice (the push comes before the id enters
  `_known_active_nids`), or a push raised, which loses the rest of a poll;
- `raced`, `rewritten` (Sessions): a request in flight held the data of a session that was ended, or
  renewed one that somebody had found expired; a cleanup that an error ended is not
  judged by `SweptClean`;
- `interrupted`, `merged`, `stale` (Release): branches left half made or merged before, and
  texts of `pyproject.toml` older than the branch they were written on. `NewReleaseIsAlone` needs
  none of the three;
- `missed` (DeviceStatistics): one of the three causes for which the reset at 5 AM does not happen;
- `clashed` (WardenStore): a PUT renamed a warden to a taken name;
- `overwritten` (ApiKeyStore): the constructor's empty list replaced a stored key;
- `NonEmptyUnchanged` (Presence) and `NoneMoved` (Occupancy): `min_non_empty_ct` keeps its value
  while a poll compares; no row of the plan names another day.

Some behaviour is permitted rather than exempted: a fetch begun before an invalidation fills the
weather cache, and the recovery of the presence poll counts as an arrival. Each of these is behaviour
that the code has, and the hazards in PROJECT.json and the list under Findings name it.

Fairness. PersistentDict: a thread in a save goes on (weak), and a thread in a batch
leaves each block again and again being able to (strong, per depth): every body of
`batch_write` in the program is a finite loop. Notifications: threads run on (weak);
the poll gets the store's lock, since `RWLockFair` queues (strong). WeatherCache: a
fetch ends, since `urlopen` has a timeout of 10 seconds, and a notified thread gets
the condition's lock back (weak). No request is ever assumed to arrive. The clock is
not assumed to advance. The other modules state safety only and assume no fairness.

## Findings

`persistent_collections.py:355`: a lookup that found no file writes an empty list
over the first API key that was stored meanwhile (run `api_key_store_first_key`).

Behaviours of the code that the models contain, that no text of the repository clearly
denies, and that the properties name or leave out on purpose:

- the cleanup of notifications deletes what it listed, also when an update has extended
  it in between (`notification_service.py:260`), and a poll evaluates a notification between
  two of the fields an update changes (`:213`): the steps are in the model, and no property
  is stated about them, since any would be false or exclude just these cases;
- a known notification that is moved to a later time which comes before the next poll is
  not announced (`notification_service.py:244`);
- delete_many does not know `latest_active`, which it treats as an id that does not exist
  (`notification_service.py:184`);
- a request that is in flight while its user signs out writes the session back, and with it
  an older cookie works again (`hybrid_auth.py:93`);
- a session that is renewed after the cleanup, or a read, found it too old is removed
  all the same (`file_session_store.py:42`);
- the release script writes the version into the text of `pyproject.toml` it read before
  main was pulled, and so takes newer edits of main back (`release.py:427`); a branch that was
  merged since main was pulled, or squashed, is offered again (`:139`); and a run that ends between the
  creation of a branch and the commit of the version leaves a branch that the next run offers
  without its version (`:434`);
- a restart forgets that the push of the day was sent (`presence_level_service.py:56`);
- the statistics of a day keep the first device of the day before when the process
  restarts across 5 AM, when 5 AM passes between the two clock readings of a poll, or when
  clearing a field fails once (`internal_service.py:104`, `:145`,
  `persistent_collections.py:445`);
- a PUT can rename a warden onto a taken name, and can undo another PUT that came between
  its lookup and its update (`wardens.py:46`, `warden_store.py:106`);
- an event that ends after midnight ends at a small hour, and so never counts as
  taking the full day (`occupancy_parser.py:148`).

## Proofs

All proofs hold for every value of the constants under the assumption stated in the
module (a null value is not a real one, bounds are naturals).

- **PersistentDictProofs**: `DictInvariant`, `ImplementsPromise`. The
  invariant adds to `Consistent` that whoever is past `Acquire` is the only one, which
  makes the two unguarded fields safe to read: a thread can find its own name in
  `_batch_owner` only if it wrote it. The refinement maps `Acquire` to the beginning of a
  transaction, `Replace` to its commit, `SaveFails` to a commit in memory, and the
  rest to edits or stutters.
- **ApiKeyStoreProofs**: `StoreInvariant`, `KeysAreKept`, `RemovalIsFinal`,
  `RemovalIsUnambiguous`, `OwnKeyIsSafe`. Induction needs that the list a thread holds under the lock has all
  keys of the file and no removed key in it (so that what was unambiguous in the list is so in the file), and that a key to be
  appended is in no list yet. The last one needs that what a
  request goes on to remove after its check does not name its own key, as long as that key
  is valid and no constructor emptied the list.
- **StatusProofs**, WeatherCache: `CacheInvariant`, `RecentAnswers`, `FetchesAreSpaced`.
  `CacheInv` is inductive as it stands.
- **StatusProofs**, Occupancy: `OccupancyInvariant`, `PlanStaysRight`, `AnswersStayRight`, for
  any plans and calendars, any length of the week and of the year (no shorter), and any clock.
  The invariant says that the parsed rows are the beginning of the plan, each with the
  date it has when seen from some day since the refresh began (`ParsedSoFar`), and so that
  the list of the week is the plan parsed on such days and extended (`WeekIsParsed`); the
  refreshes of the two lists follow from where the poll is (`ListsSoFar`). That such a list
  has each event once on each of its days (`PlanKept`) is arithmetic: sorting is a
  permutation, the extended list is blocks of it a week apart (`ExtendedBlocks`), and a
  day from the end of the parsing on with the weekday of a row is exactly one number of weeks
  away from the date the row was given (`WeeksApart`, `SameWeekday`). The answer to a request is
  followed turn by turn through the loop over the events of the day (`TurnSays`, `FoldSays`).
- **DeliveryProofs**, Notifications: `NotificationsSafe`, `NotificationsStayDeleted`. The
  properties are not inductive: at each step of the poll and of an update something else must
  be known of who has been told. `NotificationsInv` therefore says that all ids in use are of
  notifications that were made (`OnlyMade`), that an update holds the lock until its
  notification is back in the store (`LockKeeps`), and, as long as the calls have not overlapped,
  that at most one call or the poll is under way (`OneAtOnce`), that whoever has been announced is
  active and known, or about to be (`HeardAreKnown`), and that whoever is known was
  told (`KnownAreTold`).
- **DeliveryProofs**, PushSubscriptions: `SubscriptionsKept`, `PushesAreWanted`, `LimitHolds`. The first needs
  that an accepted auth is in no sender's stale list; the second, that whatever an
  object of a snapshot is subscribed to now, its auth was subscribed to since the send
  began; the third, that a request which passed the test finds the store no fuller at its
  write, because senders only delete.
- **PresenceProofs**: `PresenceInvariant`, `OnePushPerDay`, `CurrentLevel`. The first
  two need that the remembered date has had its push unless that push is on its way;
  the third, that each comparison made so far was right about some thresholds in force.
- **InternalServiceProofs**, DeviceStatistics: `StatisticsInvariant`, `OnlyThreeCauses`, `FirstIsFirst`,
  `LastIsLast`, for any clock whose virtual days do not run backwards. The invariant ties
  the reading that a poll began with, the one it stamps and the causes recorded so far to
  what memory and files of the two fields may hold.
- **InternalServiceProofs**, WardenStore: `WardensInvariant`, `WardensAreKept`, `WardensStayDeleted`,
  `OnSiteJustified`. `WardenInv` (unique names in memory and on disk, and what a poll has found
  so far), `StoredStaysStored` and `DeletedStaysDeleted` are inductive together: a request can tell
  what it did because its list had the name before, or had it not. `Without`, the list less
  a name, is a recursive function; what it keeps is proved for every list by a least counterexample.
- **SessionsProofs**: `SessionsInvariant`, `OneSubjectHolds`, `LiveSessionsAreKept`,
  `WholeCleanup`. The invariant says of each step of a request which of the ids it holds
  may have a file, and of which the file was seen to be too old.
- **ReleaseProofs**: `ReleaseInvariant`, `OneReleaseAtATime`, `NewReleasesAreAlone`.
  `ReleaseInv` is inductive as it stands. It needs that two branches have no commits in common
  but those of main, that a branch which is not being made has its version and a commit
  main has not (so that git does not list it as merged), that whatever origin has of it the
  clone has seen, and that there is at most one such branch. `NewReleasesAreAlone` rests on two parts of
  it: the clone has seen all release branches of origin (`RemoteIsTracked`: nobody else pushes
  them, which is an assumption of the model), and a branch with a pull request has a commit that main
  has not (`PrsAreOpen`), so that the choice of a branch finds it.

Every safety property of every passing run is proved; only model-checked is liveness
(`LockReleased`, `PollEnds`, `EveryCallReturns`), since liveness under fairness and ENABLED are
out of reach of the installed provers. So are the induction theorems of the library, which take an
operator as a parameter. Where a recursive definition had to be reasoned about
(`Without`, `OfDay`, FoldLeft and FlattenSeq over a sequence), the induction is over a set of
numbers instead: a set that is not empty has a least member (`Least`), so that a set
of numbers which has 0, and with a number below n also the next, has all up to n (`CountingUp`).

## Plan

Modelled so far: PersistentDict and DurableMap, ApiKeyStore, Notifications, WeatherCache,
PushSubscriptions, Presence, DeviceStatistics, WardenStore, Occupancy, Sessions, Release.
What a continuation would add, in this order:

1. **Polling**: `PollingService` with start, stop and the join that times out, and the
   order of `startup` and `shutdown` over the four pollers.
2. **Persistent fields**: the constructor race of `PersistentObject`, composed with
   Presence and DeviceStatistics. It is the race that ApiKeyStore shows, once per field.
3. **Compositions**: Notifications and Presence over PushSubscriptions, to carry "announced"
   through to "pushed to every subscriber"; ApiKeyStore over DurableMap.
4. **Proofs** about each of these, beginning with the refinement.

## Not modelled

`MessageService` chooses a text from a table by the level, the weather and a random number.
Configuration, the CSRF check, the response schemas and the roles are functions of one
request or of the environment. Pages and navigation render what the services answer. HTML and
free-form dates are text processing; Occupancy takes their results as data. The front end
runs in the browser, and the other scripts start tools. None of them keeps state that two
actors share.
