----------------------------- MODULE Notifications -----------------------------
(***************************************************************************)
(* NotificationService: admins add, update and delete notifications while   *)
(* the poll thread announces the ones that became active and deletes the    *)
(* outdated ones.  The threads share the Notification objects, which update *)
(* changes field by field, and _known_active_nids, which no lock guards.    *)
(* One life of the process with push configured: a restart is a new         *)
(* behaviour over whatever notifications the file holds.                    *)
(***************************************************************************)
EXTENDS Integers

CONSTANTS
    Nid,       \* notification ids
    Thread,    \* threadpool threads that serve POST and PUT
    Start,     \* values of valid_from; the time 0 stands for None
    End,       \* values of valid_until; a time after MaxNow stands for None
    MaxNow,    \* bound: how far the clock runs
    Keep,      \* an update leaves the field as it is
    NoThread, Unset

ASSUME NotificationsAssumption ==
    /\ Start \subseteq Nat
    /\ End \subseteq Nat
    /\ MaxNow \in Nat
    /\ NoThread \notin Thread
    /\ Unset \notin [enabled : BOOLEAN, from : Start, until : End]
    /\ \A ids \in SUBSET Nid : ids # Unset

VARIABLES
    obj,       \* the Notification objects, which outlive their deletion
    present,   \* the ids in the store
    made,      \* the ids created so far
    now,       \* the clock
    known,     \* self._known_active_nids, Unset until the first poll
    lock,      \* the thread inside the store's batch_write
    call,      \* the add or update each thread is in
    poll,      \* the poll: its step, the ids still to do in that step, and the
               \* active ids it found; at rest in "clean" with nothing to do
    heard,     \* history: active ids announced (or, on the first poll, recorded)
               \* since they last became active
    told,      \* history: ids announced or recorded since a poll last found
               \* them inactive
    again,     \* history: an id was announced that was in heard
    disturbed  \* history: two of the add, update and poll calls overlapped, or
               \* send_to_topic_sync raised in the middle of one

store == <<obj, present, made>>
history == <<heard, told, again, disturbed>>
vars == <<store, now, known, lock, call, poll, history>>

Active(o, time) == o.enabled /\ o.from <= time /\ time < o.until
Outdated(o, time) == time > o.until  \* by more than a day: a tick is longer
IsActive(n) == Active(obj[n], now)

Object == [enabled : BOOLEAN, from : Start, until : End]
NoCall == [step |-> "idle", nid |-> Unset, was |-> FALSE, from |-> Keep, until |-> Keep, seen |-> {}]

Init ==
    /\ present \in SUBSET Nid
    /\ made = present
    /\ \E o \in [present -> Object] : obj = [n \in Nid |-> IF n \in present THEN o[n] ELSE Unset]
    /\ now = 0
    /\ known = Unset
    /\ lock = NoThread
    /\ call = [t \in Thread |-> NoCall]
    /\ poll = [step |-> "clean", todo |-> {}, act |-> {}]
    /\ heard = {}
    /\ told = {}
    /\ again = FALSE
    /\ disturbed = FALSE

-------------------------------------------------------------------------------
(* Queries: keywords and ids, whose order does not matter                  *)

Keyword == {"all", "all_active", "latest_active", "all_enabled", "all_inactive"}
Protected == {"all", "all_enabled", "all_inactive"}
Query == SUBSET (Keyword \cup Nid) \ {{}}

\* A visitor's query, without the protected keywords.
Unprotected(q) == IF q \subseteq Protected THEN {"all_active"} ELSE q \ Protected

Selects(k) ==
    {n \in present :
        \/ k = "all"
        \/ k \in {"all_active", "latest_active"} /\ IsActive(n)
        \/ k = "all_enabled" /\ obj[n].enabled
        \/ k = "all_inactive" /\ ~IsActive(n)}

Rank == [all |-> 1, all_active |-> 2, latest_active |-> 2, all_enabled |-> 3, all_inactive |-> 4]

\* One keyword decides, and ids count only without any.
Chosen(q) ==
    LET keys == q \cap Keyword
    IN  IF keys = {} THEN q \cap present
        ELSE UNION {Selects(k) : k \in {j \in keys : \A i \in keys : Rank[j] <= Rank[i]}}

\* The possible answers of get.  (The times of creation are left out: the
\* latest one may be any.)
Get(q, onlyActive) ==
    LET result == {n \in Chosen(q) : onlyActive /\ q \cap Keyword = {} => IsActive(n)}
    IN  IF "latest_active" \in q /\ result # {} THEN {{n} : n \in result} ELSE {result}

\* delete_many does not know this keyword.
Deleted(q) == Chosen(q \ {"latest_active"})

-------------------------------------------------------------------------------
(* History                                                                 *)

\* What is left of heard, with the ids of S added, once the step is over (the
\* last conjunct of an action, for it reads the new objects and the new time).
\* No history is kept after a disturbance, for nothing is promised then.
Hears(S) == heard' = IF disturbed' THEN {} ELSE {n \in heard \cup S : Active(obj'[n], now')}
Tells(S) == told' = IF disturbed' THEN {} ELSE S

\* One push to the subscribers of the topic.
Push(n) ==
    /\ again' = (~disturbed' /\ (again \/ (n \in heard /\ IsActive(n))))
    /\ Tells(told \cup {n})
    /\ Hears({n})

Quiet == Hears({}) /\ Tells(told) /\ again' = (again /\ ~disturbed')

\* A call begins, possibly while another one is in progress.
Begins ==
    disturbed' = (disturbed \/ poll.step # "clean" \/ \E t \in Thread : call[t].step # "idle")

-------------------------------------------------------------------------------
(* add and update, in a threadpool thread                                  *)

Return(t) == call' = [call EXCEPT ![t] = NoCall]

\* The call returns or raises; leaving update also leaves its batch.
Done(t) ==
    /\ Return(t)
    /\ lock' = IF lock = t THEN NoThread ELSE lock

\* add: the store write.  When its save fails the request fails, but the
\* notification stays in the in-memory store.
Add(t, n, o) ==
    /\ call[t] = NoCall
    /\ lock = NoThread
    /\ n \notin made
    /\ obj' = [obj EXCEPT ![n] = o]
    /\ present' = present \cup {n}
    /\ made' = made \cup {n}
    /\ Begins
    /\ \/ call' = [call EXCEPT ![t] = [NoCall EXCEPT !.step = "changed", !.nid = n]]
       \/ UNCHANGED call
    /\ UNCHANGED <<now, known, lock, poll>>
    /\ Quiet

\* Mutant: update does not hold the write lock.
EnterUnlocked(t) == lock = NoThread /\ UNCHANGED lock

\* The thread enters the store's batch_write.
Enter(t) == lock = NoThread /\ lock' = t

\* update enters the batch and writes the first field ...
Update(t, n, e, f, u) ==
    /\ call[t] = NoCall
    /\ Enter(t)
    /\ n \in present
    /\ call' = [call EXCEPT ![t] = [step |-> "from", nid |-> n, was |-> IsActive(n),
                                    from |-> f, until |-> u, seen |-> {}]]
    /\ obj' = [obj EXCEPT ![n].enabled = e]
    /\ Begins
    /\ UNCHANGED <<present, made, now, known, poll>>
    /\ Quiet

\* ... the second ...
UpdateFrom(t) ==
    /\ call[t].step = "from"
    /\ obj' = [obj EXCEPT ![call[t].nid].from = IF call[t].from = Keep THEN @ ELSE call[t].from]
    /\ call' = [call EXCEPT ![t].step = "until"]
    /\ UNCHANGED <<present, made, now, known, lock, poll, disturbed>>
    /\ Quiet

\* ... and the third, and puts the notification back into the store.
UpdateUntil(t) ==
    /\ call[t].step = "until"
    /\ obj' = [obj EXCEPT ![call[t].nid].until = IF call[t].until = Keep THEN @ ELSE call[t].until]
    /\ present' = present \cup {call[t].nid}
    /\ call' = [call EXCEPT ![t].step = "changed"]
    /\ UNCHANGED <<made, now, known, lock, poll, disturbed>>
    /\ Quiet

\* Both push a notification that their change made active.
Announce(t) ==
    /\ call[t].step = "changed"
    /\ UNCHANGED <<store, now, known, poll, disturbed>>
    /\ IF IsActive(call[t].nid) /\ ~call[t].was
       THEN /\ call' = [call EXCEPT ![t].step = "pushed"]
            /\ UNCHANGED lock
            /\ Push(call[t].nid)
       ELSE Done(t) /\ Quiet

\* The pushes are out, but the deletion of a stale subscription raised.
AnnounceRaises(t) ==
    /\ call[t].step = "pushed"
    /\ Done(t)
    /\ disturbed' = TRUE
    /\ UNCHANGED <<store, now, known, poll>>
    /\ Quiet

HasKnown == known # Unset

\* They read _known_active_nids after the push ...
ReadKnown(t) ==
    /\ call[t].step = "pushed"
    /\ IF HasKnown
       THEN /\ call' = [call EXCEPT ![t].step = "know", ![t].seen = known]
            /\ UNCHANGED lock
       ELSE Done(t)
    /\ UNCHANGED <<store, now, known, poll, disturbed>>
    /\ Quiet

\* Mutant: the announced id replaces the others.
RecordedAlone(t) == {call[t].nid}

Recorded(t) == call[t].seen \cup {call[t].nid}

\* ... and assign a new set to it.
WriteKnown(t) ==
    /\ call[t].step = "know"
    /\ known' = Recorded(t)
    /\ Done(t)
    /\ UNCHANGED <<store, now, poll, disturbed>>
    /\ Quiet

\* delete and delete_many: one batch.
Delete(S) ==
    /\ lock = NoThread
    /\ S # {}
    /\ present' = present \ S
    /\ UNCHANGED <<obj, made, now, known, lock, call, poll, disturbed>>
    /\ Quiet

-------------------------------------------------------------------------------
(* The poll thread                                                         *)

AtRest == poll.step = "clean" /\ poll.todo = {}
PushesDone == poll.step = "push" /\ poll.todo = {}

\* values() copies the list of objects under the reader lock ...
PollSnapshot ==
    /\ AtRest
    /\ lock = NoThread
    /\ poll' = [step |-> "eval", todo |-> present, act |-> {}]
    /\ Begins
    /\ UNCHANGED <<store, now, known, lock, call>>
    /\ Quiet

\* ... and is_active looks at each of them with no lock held.
PollEval(n) ==
    /\ poll.step = "eval"
    /\ n \in poll.todo
    /\ poll' = [poll EXCEPT !.todo = @ \ {n}, !.act = IF IsActive(n) THEN @ \cup {n} ELSE @]
    /\ UNCHANGED <<store, now, known, lock, call, again, disturbed>>
    /\ Tells(IF IsActive(n) THEN told ELSE told \ {n})
    /\ Hears({})

\* What became active since the last poll; the first poll only records ...
PollDiff ==
    /\ poll.step = "eval"
    /\ poll.todo = {}
    /\ UNCHANGED <<store, now, known, lock, call, again, disturbed>>
    /\ IF HasKnown
       THEN /\ poll' = [poll EXCEPT !.step = "know", !.todo = poll.act \ known]
            /\ Hears({}) /\ UNCHANGED told
       ELSE /\ poll' = [poll EXCEPT !.step = "know"]
            /\ Hears(poll.act) /\ Tells(told \cup poll.act)

\* Mutant: ids that stopped being active stay known.
FoundMore == (IF known = Unset THEN {} ELSE known) \cup poll.act

Found == poll.act

\* ... and so does every other one, before its pushes.
PollKnow ==
    /\ poll.step = "know"
    /\ known' = Found
    /\ poll' = [poll EXCEPT !.step = "push"]
    /\ UNCHANGED <<store, now, lock, call, disturbed>>
    /\ Quiet

\* get takes the reader lock; a notification deleted by now is skipped.
PollPush(n) ==
    /\ poll.step = "push"
    /\ n \in poll.todo
    /\ lock = NoThread
    /\ poll' = [poll EXCEPT !.todo = @ \ {n}]
    /\ UNCHANGED <<store, now, known, lock, call, disturbed>>
    /\ IF n \in present THEN Push(n) ELSE Quiet

\* Mutant: the poll begins again at once.
PollPushRestarts(n) ==
    /\ poll.step = "push"
    /\ n \in poll.todo \cap present
    /\ lock = NoThread
    /\ poll' = [step |-> "eval", todo |-> present, act |-> {}]
    /\ disturbed' = TRUE
    /\ UNCHANGED <<store, now, known, lock, call>>
    /\ Push(n)

\* The push raised: the poll is over, the other pushes and the cleanup with it.
PollPushRaises(n) ==
    /\ poll.step = "push"
    /\ n \in poll.todo \cap present
    /\ lock = NoThread
    /\ poll' = [poll EXCEPT !.step = "clean", !.todo = {}]
    /\ disturbed' = TRUE
    /\ UNCHANGED <<store, now, known, lock, call>>
    /\ Push(n)

\* The cleanup lists what is outdated ...
PollClean ==
    /\ PushesDone
    /\ lock = NoThread
    /\ poll' = [poll EXCEPT !.step = "clean", !.todo = {n \in present : Outdated(obj[n], now)}]
    /\ UNCHANGED <<store, now, known, lock, call, disturbed>>
    /\ Quiet

\* ... and deletes it one by one; a save that fails ends the cleanup, with the
\* notification gone from memory.
PollDelete(n) ==
    /\ poll.step = "clean"
    /\ n \in poll.todo
    /\ lock = NoThread
    /\ present' = present \ {n}
    /\ \E rest \in {poll.todo \ {n}, {}} : poll' = [poll EXCEPT !.todo = rest]
    /\ UNCHANGED <<obj, made, now, known, lock, call, disturbed>>
    /\ Quiet

Tick ==
    /\ now < MaxNow
    /\ now' = now + 1
    /\ UNCHANGED <<store, known, lock, call, poll, disturbed>>
    /\ Quiet

-------------------------------------------------------------------------------
(* The endpoints                                                           *)

PostNotification(t, n) == \E o \in Object : Add(t, n, o)

\* The form makes a draft, and the buttons of its preview enable or disable it.
PostNotificationBuilder(t, n) == \E o \in Object : ~o.enabled /\ Add(t, n, o)
EnableNotification(t, n) == Update(t, n, TRUE, Keep, Keep)
DisableNotification(t, n) == Update(t, n, FALSE, Keep, Keep)

\* Every field may be left out.
UpdateNotification(t, n) ==
    \E e \in BOOLEAN, f \in Start \cup {Keep}, u \in End \cup {Keep} : Update(t, n, e, f, u)

Request(t, n) ==
    \/ PostNotification(t, n) \/ PostNotificationBuilder(t, n)
    \/ EnableNotification(t, n) \/ DisableNotification(t, n)
    \/ UpdateNotification(t, n)

DeleteNotification(n) == n \in present /\ Delete({n})

\* Bound: ids, or one keyword, for of several one decides.
DeleteNotifications ==
    \E q \in {{k} : k \in Keyword} \cup (SUBSET Nid \ {{}}) : Delete(Deleted(q))

Finish(t) ==
    \/ UpdateFrom(t)
    \/ UpdateUntil(t)
    \/ Announce(t)
    \/ AnnounceRaises(t)
    \/ ReadKnown(t)
    \/ WriteKnown(t)

Poll ==
    \/ PollSnapshot
    \/ PollDiff
    \/ PollKnow
    \/ PollClean
    \/ \E n \in Nid : PollEval(n) \/ PollPush(n) \/ PollPushRaises(n) \/ PollDelete(n)

Next ==
    \/ \E t \in Thread : Finish(t) \/ \E n \in Nid : Request(t, n)
    \/ DeleteNotifications
    \/ \E n \in Nid : DeleteNotification(n)
    \/ Poll
    \/ Tick

Spec == Init /\ [][Next]_vars

\* Threads run on; the store's lock is RWLockFair, so a poll that keeps asking
\* for it gets it however many updates come.
FairSpec == Spec /\ SF_vars(Poll) /\ \A t \in Thread : WF_vars(Finish(t))

-------------------------------------------------------------------------------
(* Properties                                                              *)

CallSteps == {"idle", "changed", "from", "until", "pushed", "know"}
PollSteps == {"eval", "know", "push", "clean"}
Calls == [step : CallSteps, nid : Nid \cup {Unset}, was : BOOLEAN,
          from : Start \cup {Keep}, until : End \cup {Keep}, seen : SUBSET Nid]
Polls == [step : PollSteps, todo : SUBSET Nid, act : SUBSET Nid]

\* Type invariant.
TypeOK ==
    /\ obj \in [Nid -> Object \cup {Unset}]
    /\ made = {n \in Nid : obj[n] # Unset}
    /\ present \subseteq made
    /\ made \subseteq Nid
    /\ now \in 0..MaxNow
    /\ known = Unset \/ known \in SUBSET Nid
    /\ HasKnown \/ \A t \in Thread : call[t].step # "know"
    /\ lock \in Thread \cup {NoThread}
    /\ call \in [Thread -> Calls]
    /\ poll \in Polls
    /\ heard \subseteq Nid
    /\ told \subseteq Nid
    /\ {again, disturbed} \subseteq BOOLEAN

\* No two calls announce at the same time and no push raises: then nobody is
\* sent the same notification twice while it is active.
AnnouncedOnce == ~disturbed => ~again

\* Under the same condition, once a poll has done its pushes every notification
\* that it found active, and that is still stored, has been announced since a
\* poll last found it inactive.
NoneMissed == PushesDone /\ ~disturbed => poll.act \cap present \subseteq told

\* "Without an API Key, only allow 'public' queries": whatever keywords and ids
\* a visitor combines, the answer holds active notifications only.
PublicQuery == {Unprotected(q) : q \in Query}
VisitorsSeeActive == \A q \in PublicQuery : \A answer \in Get(q, TRUE) : \A n \in answer : IsActive(n)

-------------------------------------------------------------------------------
(* Why they hold                                                           *)

Busy(t) == call[t].step # "idle"

\* What has been pushed, and may not be known yet.
Announcing(n) == \E t \in Thread : call[t].step \in {"pushed", "know"} /\ call[t].nid = n

\* All ids are of notifications that were made.
OnlyMade ==
    /\ heard \cup told \cup poll.todo \cup poll.act \subseteq made
    /\ HasKnown => known \subseteq made
    /\ \A t \in Thread : Busy(t) => call[t].nid \in made /\ call[t].seen \subseteq made

\* An update holds the lock until the notification is back in the store, so that
\* it was not deleted meanwhile.
LockKeeps ==
    \A t \in Thread : call[t].step \in {"from", "until"} => lock = t /\ call[t].nid \in present

\* Undisturbed, at most one call is in progress, or the poll.
OneAtOnce ==
    ~disturbed =>
        /\ poll.step # "clean" => \A t \in Thread : ~Busy(t)
        /\ \A t, u \in Thread : Busy(t) /\ Busy(u) => t = u
        /\ \A t \in Thread : call[t].step = "know" => call[t].seen = known

\* Who has been announced is active, and is not announced again: an update
\* knows that it was active, and the poll finds it and knows it.
HeardAreKnown ==
    ~disturbed =>
        /\ \A n \in heard : IsActive(n)
        /\ \A t \in Thread :
               call[t].step \in {"from", "until", "changed"} /\ ~call[t].was => call[t].nid \notin heard
        /\ poll.step = "eval" => heard \cap present \subseteq poll.todo \cup poll.act
        /\ poll.step \in {"know", "push"} => heard \cap present \subseteq poll.act \ poll.todo
        /\ poll.step \in {"clean", "eval"} /\ HasKnown =>
               \A n \in heard \cap present : n \in known \/ Announcing(n)

\* Who is known has been told of, but for those the poll found inactive.
KnownAreTold ==
    /\ poll.step = "eval" => poll.todo \cap poll.act = {}
    /\ poll.step \in {"know", "push"} => poll.todo \subseteq poll.act
    /\ poll.step = "push" /\ ~disturbed => known = poll.act
    /\ ~disturbed =>
        /\ \A n \in Nid : Announcing(n) => n \in told
        /\ poll.step = "clean" /\ HasKnown => known \cap present \subseteq told
        /\ poll.step = "eval" /\ HasKnown => known \cap present \cap (poll.todo \cup poll.act) \subseteq told
        /\ poll.step \in {"know", "push"} => poll.act \cap present \subseteq told \cup poll.todo

\* The inductive invariant.
NotificationsInv ==
    /\ TypeOK
    /\ OnlyMade
    /\ LockKeeps
    /\ OneAtOnce
    /\ HeardAreKnown
    /\ KnownAreTold
    /\ AnnouncedOnce
    /\ NoneMissed
    /\ VisitorsSeeActive

\* A deleted notification does not come back, though updates put the
\* notification they read back into the store.
DeletedStaysDeleted == [][\A n \in made \ present : n \notin present']_<<made, present>>

\* A poll that began comes to its end, whatever the admins do: pushes, raising
\* ones too, and updates that hold the lock while they push do not stall it.
PollEnds == (poll.step = "eval") ~> AtRest
===============================================================================
