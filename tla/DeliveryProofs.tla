---------------------------- MODULE DeliveryProofs ----------------------------
(***************************************************************************)
(* Notifications and the pushes that deliver them: two components whose     *)
(* names are disjoint, proved about side by side.                           *)
(*                                                                         *)
(* Notifications.  Nobody is sent the same notification twice and none is   *)
(* missed while the calls do not overlap; deleted ones stay deleted, and    *)
(* visitors see active ones only, however they do.  The invariant says who  *)
(* knows of an announcement at each step of the poll and of an update.      *)
(*                                                                         *)
(* PushSubscriptions.  For any number of browsers, topics and concurrent    *)
(* senders: accepted subscriptions are kept, and pushes reach subscribers   *)
(* only.  The first needs that the objects in the store are the ones        *)
(* created for their auth and that nobody accepted is in a sender's list of *)
(* stale auths; the second, that whatever an object in a snapshot is        *)
(* subscribed to now, its auth was subscribed to since the send began.      *)
(***************************************************************************)
EXTENDS Notifications, PushSubscriptions, FiniteSetTheorems, TLAPS

-------------------------------------------------------------------------------
(* Notifications: what the proofs of every step use.                          *)

\* The invariant, but for what follows from it.
Inner ==
    /\ TypeOK
    /\ OnlyMade
    /\ LockKeeps
    /\ OneAtOnce
    /\ HeardAreKnown
    /\ KnownAreTold
    /\ AnnouncedOnce

\* The types of the variables, field by field.
Typed ==
    /\ obj \in [Nid -> Object \cup {Unset}]
    /\ made = {n \in Nid : obj[n] # Unset}
    /\ present \subseteq made /\ made \subseteq Nid
    /\ now \in 0..MaxNow
    /\ known = Unset \/ known \in SUBSET Nid
    /\ \A t \in Thread : /\ call[t] \in Calls
                         /\ call[t].nid \in Nid \cup {Unset}
                         /\ call[t].was \in BOOLEAN
                         /\ call[t].seen \subseteq Nid
    /\ call \in [Thread -> Calls]
    /\ lock \in Thread \cup {NoThread} /\ NoThread \notin Thread
    /\ \A t \in Thread : call[t].step = "know" => HasKnown
    /\ poll \in Polls /\ poll.step \in PollSteps
    /\ poll.todo \subseteq Nid /\ poll.act \subseteq Nid
    /\ heard \subseteq Nid /\ told \subseteq Nid
    /\ again \in BOOLEAN /\ disturbed \in BOOLEAN

\* heard grows at most by S, and holds active ids only.
HearsOf(S) ==
    /\ heard' \subseteq heard \cup S
    /\ ~disturbed' => \A n \in heard' : IsActive(n)'
    /\ disturbed' => heard' = {}

\* A step that announces nothing, and one that pushes n.
QuietHistory ==
    /\ HearsOf({})
    /\ told' \subseteq told
    /\ ~disturbed' => told' = told /\ again' = again
    /\ again' \in BOOLEAN /\ (disturbed' => ~again')

PushHistory(n) ==
    /\ HearsOf({n})
    /\ told' \subseteq told \cup {n}
    /\ ~disturbed' => told' = told \cup {n} /\ again' = (again \/ (n \in heard /\ IsActive(n)))
    /\ again' \in BOOLEAN /\ (disturbed' => ~again')

LEMMA Types == ASSUME TypeOK PROVE Typed
  BY NotificationsAssumption DEF NotificationsAssumption, TypeOK, Typed, Calls, Polls

LEMMA HearsKeeps == ASSUME NEW S, Hears(S) PROVE HearsOf(S)
  BY DEF Hears, HearsOf, IsActive

LEMMA QuietKeeps == ASSUME Typed, Quiet PROVE QuietHistory
  BY HearsKeeps DEF Quiet, Tells, QuietHistory, Typed

LEMMA PushKeeps == ASSUME Typed, NEW n, Push(n) PROVE PushHistory(n)
  <1>1. HearsOf({n})
    BY HearsKeeps DEF Push
  <1> QED BY <1>1 DEF Push, Tells, PushHistory, Typed

(* Calls: writing one of them leaves the others.                              *)

LEMMA CallSet ==
  ASSUME Typed, NEW t \in Thread, NEW c \in Calls, call' = [call EXCEPT ![t] = c]
  PROVE  /\ call' \in [Thread -> Calls]
         /\ call'[t] = c
         /\ \A v \in Thread \ {t} : call'[v] = call[v]
  BY DEF Typed

LEMMA CallOf ==
  ASSUME NEW c \in Calls, NEW s \in CallSteps
  PROVE  /\ [c EXCEPT !.step = s] \in Calls
         /\ [c EXCEPT !.step = s].step = s
         /\ [c EXCEPT !.step = s].nid = c.nid
         /\ [c EXCEPT !.step = s].was = c.was
         /\ [c EXCEPT !.step = s].seen = c.seen
  BY DEF Calls

LEMMA NoCallType == NoCall \in Calls /\ NoCall.step = "idle" /\ NoCall.seen = {}
  BY DEF NoCall, Calls, CallSteps

(* One lemma for each action: what the step does, then each part of the       *)
(* invariant.                                                                  *)

LEMMA AddStep ==
  ASSUME Inner, NEW t \in Thread, NEW n \in Nid, NEW o \in Object, Add(t, n, o)
  PROVE  Inner'
  <1> USE DEF Inner
  <1>1. Typed
    BY Types
  <1>2. QuietHistory
    BY <1>1, QuietKeeps DEF Add
  <1>3. /\ UNCHANGED <<now, known, lock, poll>> /\ n \notin made /\ ~Busy(t)
        /\ /\ obj' \in [Nid -> Object \cup {Unset}] /\ obj'[n] # Unset
           /\ \A m \in Nid \ {n} : obj'[m] = obj[m]
        /\ present' = present \cup {n} /\ made' = made \cup {n}
        /\ /\ call' \in [Thread -> Calls] /\ \A v \in Thread \ {t} : call'[v] = call[v]
           /\ \/ call'[t] = call[t]
              \/ call'[t].step = "changed" /\ call'[t].nid = n /\ call'[t].seen = {}
        /\ ~disturbed' => /\ ~disturbed /\ poll.step = "clean"
                           /\ \A v \in Thread : ~Busy(v)
    <2>1. UNCHANGED <<now, known, lock, poll>> /\ n \notin made /\ ~Busy(t)
      BY DEF Add, NoCall, Busy
    <2>2. /\ obj' \in [Nid -> Object \cup {Unset}] /\ obj'[n] # Unset
          /\ \A m \in Nid \ {n} : obj'[m] = obj[m]
      BY <1>1, NotificationsAssumption
         DEF NotificationsAssumption, Typed, Object, Add
    <2>3. present' = present \cup {n} /\ made' = made \cup {n}
      BY DEF Add
    <2>4. /\ call' \in [Thread -> Calls] /\ \A v \in Thread \ {t} : call'[v] = call[v]
          /\ \/ call'[t] = call[t]
             \/ call'[t].step = "changed" /\ call'[t].nid = n /\ call'[t].seen = {}
      <3>1. [NoCall EXCEPT !.step = "changed", !.nid = n] \in Calls
        BY NoCallType DEF Calls, CallSteps
      <3>2. call' = [call EXCEPT ![t] = [NoCall EXCEPT !.step = "changed", !.nid = n]] \/ UNCHANGED call
        BY DEF Add
      <3>3. CASE call' = [call EXCEPT ![t] = [NoCall EXCEPT !.step = "changed", !.nid = n]]
        <4>1. /\ call' \in [Thread -> Calls] /\ \A v \in Thread \ {t} : call'[v] = call[v]
              /\ call'[t] = [NoCall EXCEPT !.step = "changed", !.nid = n]
          BY <1>1, <3>1, <3>3, CallSet
        <4> QED BY <4>1, NoCallType DEF Calls
      <3> QED BY <1>1, <3>2, <3>3 DEF Typed
    <2>5. ~disturbed' => /\ ~disturbed /\ poll.step = "clean"
                          /\ \A v \in Thread : ~Busy(v)
      BY DEF Add, Begins, Busy
    <2> QED BY <2>1, <2>2, <2>3, <2>4, <2>5
  <1>4. disturbed' \in BOOLEAN
    BY <1>1, <1>3 DEF Typed, Begins, Add
  <1>5. TypeOK'
    BY <1>1, <1>2, <1>3, <1>4, NotificationsAssumption
       DEF Typed, QuietHistory, HearsOf, store, IsActive, HasKnown, TypeOK,
           Polls
  <1>6. OnlyMade'
    BY <1>1, <1>2, <1>3, <1>4
       DEF Typed, QuietHistory, HearsOf, store, IsActive, HasKnown, OnlyMade,
           Busy
  <1>7. LockKeeps'
    BY <1>1, <1>2, <1>3, <1>4
       DEF Typed, QuietHistory, HearsOf, store, IsActive, HasKnown,
           LockKeeps, Busy
  <1>8. OneAtOnce'
    BY <1>1, <1>2, <1>3, <1>4
       DEF Typed, QuietHistory, HearsOf, store, IsActive, HasKnown,
           OneAtOnce, Busy
  <1>9. HeardAreKnown'
    BY <1>1, <1>2, <1>3, <1>4
       DEF Typed, QuietHistory, HearsOf, store, IsActive, HasKnown, OnlyMade,
           OneAtOnce, HeardAreKnown, Busy, Announcing
  <1>10. KnownAreTold'
    BY <1>1, <1>2, <1>3, <1>4
       DEF Typed, QuietHistory, HearsOf, store, IsActive, HasKnown, OnlyMade,
           OneAtOnce, KnownAreTold, Busy, Announcing
  <1>11. AnnouncedOnce'
    BY <1>1, <1>2, <1>3, <1>4
       DEF Typed, QuietHistory, HearsOf, store, IsActive, HasKnown,
           HeardAreKnown, AnnouncedOnce
  <1> QED BY <1>5, <1>6, <1>7, <1>8, <1>9, <1>10, <1>11

LEMMA UpdateStep ==
  ASSUME Inner, NEW t \in Thread, NEW n \in Nid, NEW e \in BOOLEAN,
         NEW f \in Start \cup {Keep}, NEW u \in End \cup {Keep}, Update(t, n, e, f, u)
  PROVE  Inner'
  <1> USE DEF Inner
  <1>1. Typed
    BY Types
  <1>2. QuietHistory
    BY <1>1, QuietKeeps DEF Update
  <1>3. /\ UNCHANGED <<present, made, now, known, poll>> /\ n \in present /\ lock = NoThread /\ lock' = t /\ ~Busy(t)
        /\ /\ obj' \in [Nid -> Object \cup {Unset}] /\ obj'[n] # Unset
           /\ \A m \in Nid \ {n} : obj'[m] = obj[m]
        /\ /\ call' \in [Thread -> Calls] /\ \A v \in Thread \ {t} : call'[v] = call[v]
           /\ call'[t].step = "from" /\ call'[t].nid = n /\ call'[t].seen = {} /\ call'[t].was = IsActive(n)
        /\ ~disturbed' => /\ ~disturbed /\ poll.step = "clean"
                           /\ \A v \in Thread : ~Busy(v)
    <2>1. UNCHANGED <<present, made, now, known, poll>> /\ n \in present /\ lock = NoThread /\ lock' = t /\ ~Busy(t)
      BY DEF Update, Enter, NoCall, Busy
    <2>2. /\ obj' \in [Nid -> Object \cup {Unset}] /\ obj'[n] # Unset
          /\ \A m \in Nid \ {n} : obj'[m] = obj[m]
      <3>1. obj[n] \in Object
        BY <1>1 DEF Typed, Update
      <3>2. [obj[n] EXCEPT !.enabled = e] \in Object
        BY <3>1 DEF Object
      <3>3. obj' = [obj EXCEPT ![n] = [obj[n] EXCEPT !.enabled = e]]
        BY DEF Update
      <3> QED BY <1>1, <3>2, <3>3, NotificationsAssumption DEF NotificationsAssumption, Typed, Object
    <2>3. /\ call' \in [Thread -> Calls] /\ \A v \in Thread \ {t} : call'[v] = call[v]
          /\ call'[t].step = "from" /\ call'[t].nid = n /\ call'[t].seen = {} /\ call'[t].was = IsActive(n)
      <3>1. IsActive(n) \in BOOLEAN
        BY <1>1 DEF Typed, Update, IsActive, Active, Object
      <3>2. [step |-> "from", nid |-> n, was |-> IsActive(n), from |-> f, until |-> u, seen |-> {}] \in Calls
        BY <3>1 DEF Calls, CallSteps
      <3> QED BY <1>1, <3>2, CallSet DEF Update
    <2>4. ~disturbed' => /\ ~disturbed /\ poll.step = "clean"
                          /\ \A v \in Thread : ~Busy(v)
      BY DEF Update, Begins, Busy
    <2> QED BY <2>1, <2>2, <2>3, <2>4
  <1>4. disturbed' \in BOOLEAN
    BY <1>1, <1>3 DEF Typed, Begins, Update
  <1>5. TypeOK'
    BY <1>1, <1>2, <1>3, <1>4, NotificationsAssumption
       DEF Typed, QuietHistory, HearsOf, store, IsActive, HasKnown, TypeOK,
           Polls
  <1>6. OnlyMade'
    BY <1>1, <1>2, <1>3, <1>4
       DEF Typed, QuietHistory, HearsOf, store, IsActive, HasKnown, OnlyMade,
           Busy
  <1>7. LockKeeps'
    BY <1>1, <1>2, <1>3, <1>4
       DEF Typed, QuietHistory, HearsOf, store, IsActive, HasKnown,
           LockKeeps, Busy
  <1>8. OneAtOnce'
    BY <1>1, <1>2, <1>3, <1>4
       DEF Typed, QuietHistory, HearsOf, store, IsActive, HasKnown,
           OneAtOnce, Busy
  <1>9. HeardAreKnown'
    BY <1>1, <1>2, <1>3, <1>4
       DEF Typed, QuietHistory, HearsOf, store, IsActive, HasKnown, OnlyMade,
           OneAtOnce, HeardAreKnown, Busy, Announcing
  <1>10. KnownAreTold'
    BY <1>1, <1>2, <1>3, <1>4
       DEF Typed, QuietHistory, HearsOf, store, IsActive, HasKnown, OnlyMade,
           OneAtOnce, KnownAreTold, Busy, Announcing
  <1>11. AnnouncedOnce'
    BY <1>1, <1>2, <1>3, <1>4
       DEF Typed, QuietHistory, HearsOf, store, IsActive, HasKnown,
           HeardAreKnown, AnnouncedOnce
  <1> QED BY <1>5, <1>6, <1>7, <1>8, <1>9, <1>10, <1>11

LEMMA UpdateFromStep ==
  ASSUME Inner, NEW t \in Thread, UpdateFrom(t)
  PROVE  Inner'
  <1> USE DEF Inner
  <1>1. Typed
    BY Types
  <1>2. QuietHistory
    BY <1>1, QuietKeeps DEF UpdateFrom
  <1>3. /\ UNCHANGED <<made, now, known, lock, poll, disturbed>> /\ call[t].step = "from"
        /\ call[t].nid \in present /\ present' = present
        /\ /\ obj' \in [Nid -> Object \cup {Unset}] /\ obj'[call[t].nid] # Unset
           /\ \A m \in Nid \ {call[t].nid} : obj'[m] = obj[m]
        /\ /\ call' \in [Thread -> Calls] /\ \A v \in Thread \ {t} : call'[v] = call[v]
           /\ call'[t].step = "until" /\ call'[t].nid = call[t].nid
           /\ call'[t].seen = call[t].seen /\ call'[t].was = call[t].was
    <2>1. UNCHANGED <<made, now, known, lock, poll, disturbed>> /\ call[t].step = "from"
      BY DEF UpdateFrom
    <2>2. call[t].nid \in present /\ present' = present
      BY <2>1 DEF UpdateFrom, LockKeeps
    <2>3. /\ obj' \in [Nid -> Object \cup {Unset}] /\ obj'[call[t].nid] # Unset
          /\ \A m \in Nid \ {call[t].nid} : obj'[m] = obj[m]
      BY <1>1, <2>2, NotificationsAssumption
         DEF NotificationsAssumption, Typed, Object, Calls, UpdateFrom
    <2>4. /\ call' \in [Thread -> Calls] /\ \A v \in Thread \ {t} : call'[v] = call[v]
          /\ call'[t].step = "until" /\ call'[t].nid = call[t].nid
          /\ call'[t].seen = call[t].seen /\ call'[t].was = call[t].was
      BY <1>1, CallSet, CallOf DEF UpdateFrom, Typed, CallSteps
    <2> QED BY <2>1, <2>2, <2>3, <2>4
  <1>4. disturbed' \in BOOLEAN
    BY <1>1, <1>3 DEF Typed
  <1>5. TypeOK'
    BY <1>1, <1>2, <1>3, <1>4, NotificationsAssumption
       DEF Typed, QuietHistory, HearsOf, store, IsActive, HasKnown, TypeOK,
           Polls
  <1>6. OnlyMade'
    BY <1>1, <1>2, <1>3, <1>4
       DEF Typed, QuietHistory, HearsOf, store, IsActive, HasKnown, OnlyMade,
           Busy
  <1>7. LockKeeps'
    BY <1>1, <1>2, <1>3, <1>4
       DEF Typed, QuietHistory, HearsOf, store, IsActive, HasKnown,
           LockKeeps, Busy
  <1>8. OneAtOnce'
    BY <1>1, <1>2, <1>3, <1>4
       DEF Typed, QuietHistory, HearsOf, store, IsActive, HasKnown,
           OneAtOnce, Busy
  <1>9. HeardAreKnown'
    BY <1>1, <1>2, <1>3, <1>4
       DEF Typed, QuietHistory, HearsOf, store, IsActive, HasKnown, OnlyMade,
           OneAtOnce, HeardAreKnown, Busy, Announcing
  <1>10. KnownAreTold'
    BY <1>1, <1>2, <1>3, <1>4
       DEF Typed, QuietHistory, HearsOf, store, IsActive, HasKnown, OnlyMade,
           OneAtOnce, KnownAreTold, Busy, Announcing
  <1>11. AnnouncedOnce'
    BY <1>1, <1>2, <1>3, <1>4
       DEF Typed, QuietHistory, HearsOf, store, IsActive, HasKnown,
           HeardAreKnown, AnnouncedOnce
  <1> QED BY <1>5, <1>6, <1>7, <1>8, <1>9, <1>10, <1>11

LEMMA UpdateUntilStep ==
  ASSUME Inner, NEW t \in Thread, UpdateUntil(t)
  PROVE  Inner'
  <1> USE DEF Inner
  <1>1. Typed
    BY Types
  <1>2. QuietHistory
    BY <1>1, QuietKeeps DEF UpdateUntil
  <1>3. /\ UNCHANGED <<made, now, known, lock, poll, disturbed>> /\ call[t].step = "until"
        /\ call[t].nid \in present /\ present' = present
        /\ /\ obj' \in [Nid -> Object \cup {Unset}] /\ obj'[call[t].nid] # Unset
           /\ \A m \in Nid \ {call[t].nid} : obj'[m] = obj[m]
        /\ /\ call' \in [Thread -> Calls] /\ \A v \in Thread \ {t} : call'[v] = call[v]
           /\ call'[t].step = "changed" /\ call'[t].nid = call[t].nid
           /\ call'[t].seen = call[t].seen /\ call'[t].was = call[t].was
    <2>1. UNCHANGED <<made, now, known, lock, poll, disturbed>> /\ call[t].step = "until"
      BY DEF UpdateUntil
    <2>2. call[t].nid \in present /\ present' = present
      BY <2>1 DEF UpdateUntil, LockKeeps
    <2>3. /\ obj' \in [Nid -> Object \cup {Unset}] /\ obj'[call[t].nid] # Unset
          /\ \A m \in Nid \ {call[t].nid} : obj'[m] = obj[m]
      BY <1>1, <2>2, NotificationsAssumption
         DEF NotificationsAssumption, Typed, Object, Calls, UpdateUntil
    <2>4. /\ call' \in [Thread -> Calls] /\ \A v \in Thread \ {t} : call'[v] = call[v]
          /\ call'[t].step = "changed" /\ call'[t].nid = call[t].nid
          /\ call'[t].seen = call[t].seen /\ call'[t].was = call[t].was
      BY <1>1, CallSet, CallOf DEF UpdateUntil, Typed, CallSteps
    <2> QED BY <2>1, <2>2, <2>3, <2>4
  <1>4. disturbed' \in BOOLEAN
    BY <1>1, <1>3 DEF Typed
  <1>5. TypeOK'
    BY <1>1, <1>2, <1>3, <1>4, NotificationsAssumption
       DEF Typed, QuietHistory, HearsOf, store, IsActive, HasKnown, TypeOK,
           Polls
  <1>6. OnlyMade'
    BY <1>1, <1>2, <1>3, <1>4
       DEF Typed, QuietHistory, HearsOf, store, IsActive, HasKnown, OnlyMade,
           Busy
  <1>7. LockKeeps'
    BY <1>1, <1>2, <1>3, <1>4
       DEF Typed, QuietHistory, HearsOf, store, IsActive, HasKnown,
           LockKeeps, Busy
  <1>8. OneAtOnce'
    BY <1>1, <1>2, <1>3, <1>4
       DEF Typed, QuietHistory, HearsOf, store, IsActive, HasKnown,
           OneAtOnce, Busy
  <1>9. HeardAreKnown'
    BY <1>1, <1>2, <1>3, <1>4
       DEF Typed, QuietHistory, HearsOf, store, IsActive, HasKnown, OnlyMade,
           OneAtOnce, HeardAreKnown, Busy, Announcing
  <1>10. KnownAreTold'
    BY <1>1, <1>2, <1>3, <1>4
       DEF Typed, QuietHistory, HearsOf, store, IsActive, HasKnown, OnlyMade,
           OneAtOnce, KnownAreTold, Busy, Announcing
  <1>11. AnnouncedOnce'
    BY <1>1, <1>2, <1>3, <1>4
       DEF Typed, QuietHistory, HearsOf, store, IsActive, HasKnown,
           HeardAreKnown, AnnouncedOnce
  <1> QED BY <1>5, <1>6, <1>7, <1>8, <1>9, <1>10, <1>11

LEMMA AnnounceRaisesStep ==
  ASSUME Inner, NEW t \in Thread, AnnounceRaises(t)
  PROVE  Inner'
  <1> USE DEF Inner
  <1>1. Typed
    BY Types
  <1>2. QuietHistory
    BY <1>1, QuietKeeps DEF AnnounceRaises
  <1>3. /\ UNCHANGED <<store, now, known, poll>> /\ disturbed'
        /\ call'[t].step = "idle" /\ call' \in [Thread -> Calls] /\ \A v \in Thread \ {t} : call'[v] = call[v]
        /\ lock' = lock \/ (lock = t /\ lock' = NoThread)
    <2>1. UNCHANGED <<store, now, known, poll>> /\ disturbed'
      BY DEF AnnounceRaises
    <2>2. call'[t].step = "idle" /\ call' \in [Thread -> Calls] /\ \A v \in Thread \ {t} : call'[v] = call[v]
      BY <1>1, NoCallType, CallSet DEF AnnounceRaises, Done, Return
    <2>3. lock' = lock \/ (lock = t /\ lock' = NoThread)
      BY DEF AnnounceRaises, Done
    <2> QED BY <2>1, <2>2, <2>3
  <1>4. disturbed' \in BOOLEAN
    BY <1>1, <1>3 DEF Typed, AnnounceRaises
  <1>5. TypeOK'
    BY <1>1, <1>2, <1>3, <1>4, NotificationsAssumption
       DEF Typed, QuietHistory, HearsOf, store, IsActive, HasKnown, TypeOK,
           Polls
  <1>6. OnlyMade'
    BY <1>1, <1>2, <1>3, <1>4
       DEF Typed, QuietHistory, HearsOf, store, IsActive, HasKnown, OnlyMade,
           Busy
  <1>7. LockKeeps'
    BY <1>1, <1>2, <1>3, <1>4
       DEF Typed, QuietHistory, HearsOf, store, IsActive, HasKnown,
           LockKeeps, Busy
  <1>8. OneAtOnce'
    BY <1>1, <1>2, <1>3, <1>4
       DEF Typed, QuietHistory, HearsOf, store, IsActive, HasKnown,
           OneAtOnce, Busy
  <1>9. HeardAreKnown'
    BY <1>1, <1>2, <1>3, <1>4
       DEF Typed, QuietHistory, HearsOf, store, IsActive, HasKnown, OnlyMade,
           OneAtOnce, HeardAreKnown, Busy, Announcing
  <1>10. KnownAreTold'
    BY <1>1, <1>2, <1>3, <1>4
       DEF Typed, QuietHistory, HearsOf, store, IsActive, HasKnown, OnlyMade,
           OneAtOnce, KnownAreTold, Busy, Announcing
  <1>11. AnnouncedOnce'
    BY <1>1, <1>2, <1>3, <1>4
       DEF Typed, QuietHistory, HearsOf, store, IsActive, HasKnown,
           HeardAreKnown, AnnouncedOnce
  <1> QED BY <1>5, <1>6, <1>7, <1>8, <1>9, <1>10, <1>11

LEMMA ReadKnownStep ==
  ASSUME Inner, NEW t \in Thread, ReadKnown(t)
  PROVE  Inner'
  <1> USE DEF Inner
  <1>1. Typed
    BY Types
  <1>2. QuietHistory
    BY <1>1, QuietKeeps DEF ReadKnown
  <1>3. /\ UNCHANGED <<store, now, known, poll, disturbed>> /\ call[t].step = "pushed"
        /\ lock' = lock \/ (lock = t /\ lock' = NoThread)
        /\ /\ call' \in [Thread -> Calls] /\ \A v \in Thread \ {t} : call'[v] = call[v]
           /\ \/ /\ call'[t].step = "know" /\ call'[t].nid = call[t].nid
                 /\ call'[t].seen = known /\ HasKnown
              \/ call'[t].step = "idle" /\ ~HasKnown
    <2>1. UNCHANGED <<store, now, known, poll, disturbed>> /\ call[t].step = "pushed"
      BY DEF ReadKnown
    <2>2. lock' = lock \/ (lock = t /\ lock' = NoThread)
      BY DEF ReadKnown, Done
    <2>3. /\ call' \in [Thread -> Calls] /\ \A v \in Thread \ {t} : call'[v] = call[v]
          /\ \/ /\ call'[t].step = "know" /\ call'[t].nid = call[t].nid
                /\ call'[t].seen = known /\ HasKnown
             \/ call'[t].step = "idle" /\ ~HasKnown
      <3>1. CASE HasKnown
        <4>1. [call[t] EXCEPT !.step = "know", !.seen = known] \in Calls
          BY <1>1, <3>1 DEF Typed, HasKnown, Calls, CallSteps
        <4>2. call' = [call EXCEPT ![t] = [call[t] EXCEPT !.step = "know", !.seen = known]]
          BY <3>1 DEF ReadKnown
        <4> QED BY <1>1, <3>1, <4>1, <4>2, CallSet DEF Typed, Calls
      <3>2. CASE ~HasKnown
        BY <1>1, NoCallType, CallSet, <3>2 DEF ReadKnown, Done, Return
      <3> QED BY <3>1, <3>2
    <2> QED BY <2>1, <2>2, <2>3
  <1>4. disturbed' \in BOOLEAN
    BY <1>1, <1>3 DEF Typed
  <1>5. TypeOK'
    BY <1>1, <1>2, <1>3, <1>4, NotificationsAssumption
       DEF Typed, QuietHistory, HearsOf, store, IsActive, HasKnown, TypeOK,
           Polls
  <1>6. OnlyMade'
    BY <1>1, <1>2, <1>3, <1>4
       DEF Typed, QuietHistory, HearsOf, store, IsActive, HasKnown, OnlyMade,
           Busy
  <1>7. LockKeeps'
    BY <1>1, <1>2, <1>3, <1>4
       DEF Typed, QuietHistory, HearsOf, store, IsActive, HasKnown,
           LockKeeps, Busy
  <1>8. OneAtOnce'
    BY <1>1, <1>2, <1>3, <1>4
       DEF Typed, QuietHistory, HearsOf, store, IsActive, HasKnown,
           OneAtOnce, Busy
  <1>9. HeardAreKnown'
    BY <1>1, <1>2, <1>3, <1>4
       DEF Typed, QuietHistory, HearsOf, store, IsActive, HasKnown, OnlyMade,
           OneAtOnce, HeardAreKnown, Busy, Announcing
  <1>10. KnownAreTold'
    BY <1>1, <1>2, <1>3, <1>4
       DEF Typed, QuietHistory, HearsOf, store, IsActive, HasKnown, OnlyMade,
           OneAtOnce, KnownAreTold, Busy, Announcing
  <1>11. AnnouncedOnce'
    BY <1>1, <1>2, <1>3, <1>4
       DEF Typed, QuietHistory, HearsOf, store, IsActive, HasKnown,
           HeardAreKnown, AnnouncedOnce
  <1> QED BY <1>5, <1>6, <1>7, <1>8, <1>9, <1>10, <1>11

LEMMA WriteKnownStep ==
  ASSUME Inner, NEW t \in Thread, WriteKnown(t)
  PROVE  Inner'
  <1> USE DEF Inner
  <1>1. Typed
    BY Types
  <1>2. QuietHistory
    BY <1>1, QuietKeeps DEF WriteKnown
  <1>3. /\ UNCHANGED <<store, now, poll, disturbed>> /\ call[t].step = "know"
        /\ known' = call[t].seen \cup {call[t].nid} /\ known' \in SUBSET Nid /\ HasKnown /\ HasKnown'
        /\ call'[t].step = "idle" /\ call' \in [Thread -> Calls] /\ \A v \in Thread \ {t} : call'[v] = call[v]
        /\ lock' = lock \/ (lock = t /\ lock' = NoThread)
    <2>1. UNCHANGED <<store, now, poll, disturbed>> /\ call[t].step = "know"
      BY DEF WriteKnown
    <2>2. known' = call[t].seen \cup {call[t].nid} /\ known' \in SUBSET Nid /\ HasKnown /\ HasKnown'
      BY <1>1, <2>1, NotificationsAssumption
         DEF NotificationsAssumption, WriteKnown, Recorded, Typed,
             OnlyMade, Busy, HasKnown
    <2>3. call'[t].step = "idle" /\ call' \in [Thread -> Calls] /\ \A v \in Thread \ {t} : call'[v] = call[v]
      BY <1>1, NoCallType, CallSet DEF WriteKnown, Done, Return
    <2>4. lock' = lock \/ (lock = t /\ lock' = NoThread)
      BY DEF WriteKnown, Done
    <2> QED BY <2>1, <2>2, <2>3, <2>4
  <1>4. disturbed' \in BOOLEAN
    BY <1>1, <1>3 DEF Typed
  <1>5. TypeOK'
    BY <1>1, <1>2, <1>3, <1>4, NotificationsAssumption
       DEF Typed, QuietHistory, HearsOf, store, IsActive, HasKnown, TypeOK,
           Polls
  <1>6. OnlyMade'
    BY <1>1, <1>2, <1>3, <1>4
       DEF Typed, QuietHistory, HearsOf, store, IsActive, HasKnown, OnlyMade,
           Busy
  <1>7. LockKeeps'
    BY <1>1, <1>2, <1>3, <1>4
       DEF Typed, QuietHistory, HearsOf, store, IsActive, HasKnown,
           LockKeeps, Busy
  <1>8. OneAtOnce'
    BY <1>1, <1>2, <1>3, <1>4
       DEF Typed, QuietHistory, HearsOf, store, IsActive, HasKnown,
           OneAtOnce, Busy
  <1>9. HeardAreKnown'
    BY <1>1, <1>2, <1>3, <1>4
       DEF Typed, QuietHistory, HearsOf, store, IsActive, HasKnown, OnlyMade,
           OneAtOnce, HeardAreKnown, Busy, Announcing
  <1>10. KnownAreTold'
    BY <1>1, <1>2, <1>3, <1>4
       DEF Typed, QuietHistory, HearsOf, store, IsActive, HasKnown, OnlyMade,
           OneAtOnce, KnownAreTold, Busy, Announcing
  <1>11. AnnouncedOnce'
    BY <1>1, <1>2, <1>3, <1>4
       DEF Typed, QuietHistory, HearsOf, store, IsActive, HasKnown,
           HeardAreKnown, AnnouncedOnce
  <1> QED BY <1>5, <1>6, <1>7, <1>8, <1>9, <1>10, <1>11

LEMMA DeleteStep ==
  ASSUME Inner, NEW S, Delete(S)
  PROVE  Inner'
  <1> USE DEF Inner
  <1>1. Typed
    BY Types
  <1>2. QuietHistory
    BY <1>1, QuietKeeps DEF Delete
  <1>3. UNCHANGED <<obj, made, now, known, lock, call, poll, disturbed>> /\ lock = NoThread /\ present' \subseteq present
    BY DEF Delete
  <1>4. disturbed' \in BOOLEAN
    BY <1>1, <1>3 DEF Typed
  <1>5. TypeOK'
    BY <1>1, <1>2, <1>3, <1>4, NotificationsAssumption
       DEF Typed, QuietHistory, HearsOf, store, IsActive, HasKnown, TypeOK,
           Polls
  <1>6. OnlyMade'
    BY <1>1, <1>2, <1>3, <1>4
       DEF Typed, QuietHistory, HearsOf, store, IsActive, HasKnown, OnlyMade,
           Busy
  <1>7. LockKeeps'
    BY <1>1, <1>2, <1>3, <1>4
       DEF Typed, QuietHistory, HearsOf, store, IsActive, HasKnown,
           LockKeeps, Busy
  <1>8. OneAtOnce'
    BY <1>1, <1>2, <1>3, <1>4
       DEF Typed, QuietHistory, HearsOf, store, IsActive, HasKnown,
           OneAtOnce, Busy
  <1>9. HeardAreKnown'
    BY <1>1, <1>2, <1>3, <1>4
       DEF Typed, QuietHistory, HearsOf, store, IsActive, HasKnown, OnlyMade,
           OneAtOnce, HeardAreKnown, Busy, Announcing
  <1>10. KnownAreTold'
    BY <1>1, <1>2, <1>3, <1>4
       DEF Typed, QuietHistory, HearsOf, store, IsActive, HasKnown, OnlyMade,
           OneAtOnce, KnownAreTold, Busy, Announcing
  <1>11. AnnouncedOnce'
    BY <1>1, <1>2, <1>3, <1>4
       DEF Typed, QuietHistory, HearsOf, store, IsActive, HasKnown,
           HeardAreKnown, AnnouncedOnce
  <1> QED BY <1>5, <1>6, <1>7, <1>8, <1>9, <1>10, <1>11

LEMMA PollSnapshotStep ==
  ASSUME Inner, PollSnapshot
  PROVE  Inner'
  <1> USE DEF Inner
  <1>1. Typed
    BY Types
  <1>2. QuietHistory
    BY <1>1, QuietKeeps DEF PollSnapshot
  <1>3. /\ UNCHANGED <<store, now, known, lock, call>> /\ poll.step = "clean"
        /\ poll' \in Polls /\ poll'.step = "eval" /\ poll'.todo = present /\ poll'.act = {}
        /\ ~disturbed' => ~disturbed /\ \A v \in Thread : ~Busy(v)
    <2>1. UNCHANGED <<store, now, known, lock, call>> /\ poll.step = "clean"
      BY DEF PollSnapshot, AtRest
    <2>2. poll' \in Polls /\ poll'.step = "eval" /\ poll'.todo = present /\ poll'.act = {}
      BY <1>1 DEF Typed, Polls, PollSteps, PollSnapshot
    <2>3. ~disturbed' => ~disturbed /\ \A v \in Thread : ~Busy(v)
      BY DEF PollSnapshot, Begins, Busy
    <2> QED BY <2>1, <2>2, <2>3
  <1>4. disturbed' \in BOOLEAN
    BY <1>1, <1>3 DEF Typed, Begins, PollSnapshot
  <1>5. TypeOK'
    BY <1>1, <1>2, <1>3, <1>4, NotificationsAssumption
       DEF Typed, QuietHistory, HearsOf, store, IsActive, HasKnown, TypeOK,
           Polls
  <1>6. OnlyMade'
    BY <1>1, <1>2, <1>3, <1>4
       DEF Typed, QuietHistory, HearsOf, store, IsActive, HasKnown, OnlyMade,
           Busy
  <1>7. LockKeeps'
    BY <1>1, <1>2, <1>3, <1>4
       DEF Typed, QuietHistory, HearsOf, store, IsActive, HasKnown,
           LockKeeps, Busy
  <1>8. OneAtOnce'
    BY <1>1, <1>2, <1>3, <1>4
       DEF Typed, QuietHistory, HearsOf, store, IsActive, HasKnown,
           OneAtOnce, Busy
  <1>9. HeardAreKnown'
    BY <1>1, <1>2, <1>3, <1>4
       DEF Typed, QuietHistory, HearsOf, store, IsActive, HasKnown, OnlyMade,
           OneAtOnce, HeardAreKnown, Busy, Announcing
  <1>10. KnownAreTold'
    BY <1>1, <1>2, <1>3, <1>4
       DEF Typed, QuietHistory, HearsOf, store, IsActive, HasKnown, OnlyMade,
           OneAtOnce, KnownAreTold, Busy, Announcing
  <1>11. AnnouncedOnce'
    BY <1>1, <1>2, <1>3, <1>4
       DEF Typed, QuietHistory, HearsOf, store, IsActive, HasKnown,
           HeardAreKnown, AnnouncedOnce
  <1> QED BY <1>5, <1>6, <1>7, <1>8, <1>9, <1>10, <1>11

LEMMA PollEvalStep ==
  ASSUME Inner, NEW n \in Nid, PollEval(n)
  PROVE  Inner'
  <1> USE DEF Inner
  <1>1. Typed
    BY Types
  <1>2. HearsOf({}) /\ again' = again
    BY HearsKeeps DEF PollEval
  <1>3. /\ UNCHANGED <<store, now, known, lock, call, again, disturbed>> /\ poll.step = "eval" /\ n \in poll.todo
        /\ poll' \in Polls /\ poll'.step = "eval" /\ poll'.todo = poll.todo \ {n}
        /\ poll'.act = IF IsActive(n) THEN poll.act \cup {n} ELSE poll.act
        /\ /\ told' \subseteq told
           /\ ~disturbed' => told' = IF IsActive(n) THEN told ELSE told \ {n}
    <2>1. UNCHANGED <<store, now, known, lock, call, again, disturbed>> /\ poll.step = "eval" /\ n \in poll.todo
      BY DEF PollEval
    <2>2. poll' \in Polls /\ poll'.step = "eval" /\ poll'.todo = poll.todo \ {n}
      BY <1>1 DEF Typed, Polls, PollSteps, PollEval
    <2>3. poll'.act = IF IsActive(n) THEN poll.act \cup {n} ELSE poll.act
      BY <1>1 DEF Typed, Polls, PollSteps, PollEval
    <2>4. /\ told' \subseteq told
          /\ ~disturbed' => told' = IF IsActive(n) THEN told ELSE told \ {n}
      BY DEF PollEval, Tells
    <2> QED BY <2>1, <2>2, <2>3, <2>4
  <1>4. disturbed' \in BOOLEAN
    BY <1>1, <1>3 DEF Typed
  <1>5. TypeOK'
    BY <1>1, <1>2, <1>3, <1>4, NotificationsAssumption
       DEF Typed, HearsOf, store, IsActive, HasKnown, TypeOK, Polls
  <1>6. OnlyMade'
    BY <1>1, <1>2, <1>3, <1>4
       DEF Typed, HearsOf, store, IsActive, HasKnown, OnlyMade, Busy
  <1>7. LockKeeps'
    BY <1>1, <1>2, <1>3, <1>4
       DEF Typed, HearsOf, store, IsActive, HasKnown, LockKeeps, Busy
  <1>8. OneAtOnce'
    BY <1>1, <1>2, <1>3, <1>4
       DEF Typed, HearsOf, store, IsActive, HasKnown, OneAtOnce, Busy
  <1>9. HeardAreKnown'
    BY <1>1, <1>2, <1>3, <1>4
       DEF Typed, HearsOf, store, IsActive, HasKnown, OnlyMade, OneAtOnce,
           HeardAreKnown, Busy, Announcing
  <1>10. KnownAreTold'
    BY <1>1, <1>2, <1>3, <1>4
       DEF Typed, HearsOf, store, IsActive, HasKnown, OnlyMade, OneAtOnce,
           KnownAreTold, Busy, Announcing
  <1>11. AnnouncedOnce'
    BY <1>1, <1>2, <1>3, <1>4
       DEF Typed, HearsOf, store, IsActive, HasKnown, HeardAreKnown,
           AnnouncedOnce
  <1> QED BY <1>5, <1>6, <1>7, <1>8, <1>9, <1>10, <1>11

LEMMA PollDiffStep ==
  ASSUME Inner, PollDiff
  PROVE  Inner'
  <1> USE DEF Inner
  <1>1. Typed
    BY Types
  <1>2. HearsOf(IF HasKnown THEN {} ELSE poll.act) /\ again' = again
    BY HearsKeeps DEF PollDiff
  <1>3. /\ UNCHANGED <<store, now, known, lock, call, again, disturbed>> /\ poll.step = "eval" /\ poll.todo = {}
        /\ poll' \in Polls /\ poll'.step = "know" /\ poll'.act = poll.act
        /\ \/ HasKnown /\ told' = told /\ poll'.todo = poll.act \ known
           \/ ~HasKnown /\ poll'.todo = {} /\ told' = IF disturbed' THEN {} ELSE told \cup poll.act
    <2>1. UNCHANGED <<store, now, known, lock, call, again, disturbed>> /\ poll.step = "eval" /\ poll.todo = {}
      BY DEF PollDiff
    <2>2. poll' \in Polls /\ poll'.step = "know" /\ poll'.act = poll.act
      <3>1. CASE HasKnown
        <4>1. poll' = [poll EXCEPT !.step = "know", !.todo = poll.act \ known]
          BY <3>1 DEF PollDiff
        <4>2. poll.act \ known \in SUBSET Nid
          BY <1>1 DEF Typed
        <4> QED BY <1>1, <4>1, <4>2 DEF Typed, Polls, PollSteps
      <3>2. CASE ~HasKnown
        BY <1>1, <3>2 DEF Typed, Polls, PollSteps, PollDiff
      <3> QED BY <3>1, <3>2
    <2>3. \/ HasKnown /\ told' = told /\ poll'.todo = poll.act \ known
          \/ ~HasKnown /\ poll'.todo = {} /\ told' = IF disturbed' THEN {} ELSE told \cup poll.act
      BY <1>1 DEF Typed, Polls, PollSteps, PollDiff, Tells
    <2> QED BY <2>1, <2>2, <2>3
  <1>4. disturbed' \in BOOLEAN
    BY <1>1, <1>3 DEF Typed
  <1>5. TypeOK'
    BY <1>1, <1>2, <1>3, <1>4, NotificationsAssumption
       DEF Typed, HearsOf, store, IsActive, HasKnown, TypeOK, Polls
  <1>6. OnlyMade'
    BY <1>1, <1>2, <1>3, <1>4
       DEF Typed, HearsOf, store, IsActive, HasKnown, OnlyMade, Busy
  <1>7. LockKeeps'
    BY <1>1, <1>2, <1>3, <1>4
       DEF Typed, HearsOf, store, IsActive, HasKnown, LockKeeps, Busy
  <1>8. OneAtOnce'
    BY <1>1, <1>2, <1>3, <1>4
       DEF Typed, HearsOf, store, IsActive, HasKnown, OneAtOnce, Busy
  <1>9. HeardAreKnown'
    BY <1>1, <1>2, <1>3, <1>4
       DEF Typed, HearsOf, store, IsActive, HasKnown, OnlyMade, OneAtOnce,
           HeardAreKnown, Busy, Announcing
  <1>10. KnownAreTold'
    BY <1>1, <1>2, <1>3, <1>4
       DEF Typed, HearsOf, store, IsActive, HasKnown, OnlyMade, OneAtOnce,
           KnownAreTold, Busy, Announcing
  <1>11. AnnouncedOnce'
    BY <1>1, <1>2, <1>3, <1>4
       DEF Typed, HearsOf, store, IsActive, HasKnown, HeardAreKnown,
           AnnouncedOnce
  <1> QED BY <1>5, <1>6, <1>7, <1>8, <1>9, <1>10, <1>11

LEMMA PollKnowStep ==
  ASSUME Inner, PollKnow
  PROVE  Inner'
  <1> USE DEF Inner
  <1>1. Typed
    BY Types
  <1>2. QuietHistory
    BY <1>1, QuietKeeps DEF PollKnow
  <1>3. /\ UNCHANGED <<store, now, lock, call, disturbed>> /\ poll.step = "know" /\ known' = poll.act
        /\ poll' \in Polls /\ poll'.step = "push" /\ poll'.todo = poll.todo /\ poll'.act = poll.act
        /\ known' \in SUBSET Nid /\ HasKnown'
    <2>1. UNCHANGED <<store, now, lock, call, disturbed>> /\ poll.step = "know" /\ known' = poll.act
      BY DEF PollKnow, Found
    <2>2. poll' \in Polls /\ poll'.step = "push" /\ poll'.todo = poll.todo /\ poll'.act = poll.act
      BY <1>1 DEF Typed, Polls, PollSteps, PollKnow
    <2>3. known' \in SUBSET Nid /\ HasKnown'
      BY <1>1, <2>1, NotificationsAssumption
         DEF NotificationsAssumption, Typed, HasKnown
    <2> QED BY <2>1, <2>2, <2>3
  <1>4. disturbed' \in BOOLEAN
    BY <1>1, <1>3 DEF Typed
  <1>5. TypeOK'
    BY <1>1, <1>2, <1>3, <1>4, NotificationsAssumption
       DEF Typed, QuietHistory, HearsOf, store, IsActive, HasKnown, TypeOK,
           Polls
  <1>6. OnlyMade'
    BY <1>1, <1>2, <1>3, <1>4
       DEF Typed, QuietHistory, HearsOf, store, IsActive, HasKnown, OnlyMade,
           Busy
  <1>7. LockKeeps'
    BY <1>1, <1>2, <1>3, <1>4
       DEF Typed, QuietHistory, HearsOf, store, IsActive, HasKnown,
           LockKeeps, Busy
  <1>8. OneAtOnce'
    BY <1>1, <1>2, <1>3, <1>4
       DEF Typed, QuietHistory, HearsOf, store, IsActive, HasKnown,
           OneAtOnce, Busy
  <1>9. HeardAreKnown'
    BY <1>1, <1>2, <1>3, <1>4
       DEF Typed, QuietHistory, HearsOf, store, IsActive, HasKnown, OnlyMade,
           OneAtOnce, HeardAreKnown, Busy, Announcing
  <1>10. KnownAreTold'
    BY <1>1, <1>2, <1>3, <1>4
       DEF Typed, QuietHistory, HearsOf, store, IsActive, HasKnown, OnlyMade,
           OneAtOnce, KnownAreTold, Busy, Announcing
  <1>11. AnnouncedOnce'
    BY <1>1, <1>2, <1>3, <1>4
       DEF Typed, QuietHistory, HearsOf, store, IsActive, HasKnown,
           HeardAreKnown, AnnouncedOnce
  <1> QED BY <1>5, <1>6, <1>7, <1>8, <1>9, <1>10, <1>11

LEMMA PollPushStep ==
  ASSUME Inner, NEW n \in Nid, PollPush(n), n \in present
  PROVE  Inner'
  <1> USE DEF Inner
  <1>1. Typed
    BY Types
  <1>2. PushHistory(n)
    BY <1>1, PushKeeps DEF PollPush
  <1>3. /\ UNCHANGED <<store, now, known, lock, call, disturbed>> /\ poll.step = "push" /\ n \in poll.todo
        /\ poll' \in Polls /\ poll'.step = "push" /\ poll'.todo = poll.todo \ {n} /\ poll'.act = poll.act
    <2>1. UNCHANGED <<store, now, known, lock, call, disturbed>> /\ poll.step = "push" /\ n \in poll.todo
      BY DEF PollPush
    <2>2. poll' \in Polls /\ poll'.step = "push" /\ poll'.todo = poll.todo \ {n} /\ poll'.act = poll.act
      BY <1>1 DEF Typed, Polls, PollSteps, PollPush
    <2> QED BY <2>1, <2>2
  <1>4. disturbed' \in BOOLEAN
    BY <1>1, <1>3 DEF Typed
  <1>5. TypeOK'
    BY <1>1, <1>2, <1>3, <1>4, NotificationsAssumption
       DEF Typed, PushHistory, HearsOf, store, IsActive, HasKnown, TypeOK,
           Polls
  <1>6. OnlyMade'
    BY <1>1, <1>2, <1>3, <1>4
       DEF Typed, PushHistory, HearsOf, store, IsActive, HasKnown, OnlyMade,
           Busy
  <1>7. LockKeeps'
    BY <1>1, <1>2, <1>3, <1>4
       DEF Typed, PushHistory, HearsOf, store, IsActive, HasKnown, LockKeeps,
           Busy
  <1>8. OneAtOnce'
    BY <1>1, <1>2, <1>3, <1>4
       DEF Typed, PushHistory, HearsOf, store, IsActive, HasKnown, OneAtOnce,
           Busy
  <1>9. HeardAreKnown'
    BY <1>1, <1>2, <1>3, <1>4
       DEF Typed, PushHistory, HearsOf, store, IsActive, HasKnown, OnlyMade,
           OneAtOnce, KnownAreTold, HeardAreKnown, Busy, Announcing
  <1>10. KnownAreTold'
    BY <1>1, <1>2, <1>3, <1>4
       DEF Typed, PushHistory, HearsOf, store, IsActive, HasKnown, OnlyMade,
           OneAtOnce, KnownAreTold, Busy, Announcing
  <1>11. AnnouncedOnce'
    BY <1>1, <1>2, <1>3, <1>4
       DEF Typed, PushHistory, HearsOf, store, IsActive, HasKnown,
           HeardAreKnown, AnnouncedOnce
  <1> QED BY <1>5, <1>6, <1>7, <1>8, <1>9, <1>10, <1>11

LEMMA PollSkipStep ==
  ASSUME Inner, NEW n \in Nid, PollPush(n), n \notin present
  PROVE  Inner'
  <1> USE DEF Inner
  <1>1. Typed
    BY Types
  <1>2. QuietHistory
    BY <1>1, QuietKeeps DEF PollPush
  <1>3. /\ UNCHANGED <<store, now, known, lock, call, disturbed>> /\ poll.step = "push" /\ n \in poll.todo
        /\ poll' \in Polls /\ poll'.step = "push" /\ poll'.todo = poll.todo \ {n} /\ poll'.act = poll.act
    <2>1. UNCHANGED <<store, now, known, lock, call, disturbed>> /\ poll.step = "push" /\ n \in poll.todo
      BY DEF PollPush
    <2>2. poll' \in Polls /\ poll'.step = "push" /\ poll'.todo = poll.todo \ {n} /\ poll'.act = poll.act
      BY <1>1 DEF Typed, Polls, PollSteps, PollPush
    <2> QED BY <2>1, <2>2
  <1>4. disturbed' \in BOOLEAN
    BY <1>1, <1>3 DEF Typed
  <1>5. TypeOK'
    BY <1>1, <1>2, <1>3, <1>4, NotificationsAssumption
       DEF Typed, QuietHistory, HearsOf, store, IsActive, HasKnown, TypeOK,
           Polls
  <1>6. OnlyMade'
    BY <1>1, <1>2, <1>3, <1>4
       DEF Typed, QuietHistory, HearsOf, store, IsActive, HasKnown, OnlyMade,
           Busy
  <1>7. LockKeeps'
    BY <1>1, <1>2, <1>3, <1>4
       DEF Typed, QuietHistory, HearsOf, store, IsActive, HasKnown,
           LockKeeps, Busy
  <1>8. OneAtOnce'
    BY <1>1, <1>2, <1>3, <1>4
       DEF Typed, QuietHistory, HearsOf, store, IsActive, HasKnown,
           OneAtOnce, Busy
  <1>9. HeardAreKnown'
    BY <1>1, <1>2, <1>3, <1>4
       DEF Typed, QuietHistory, HearsOf, store, IsActive, HasKnown, OnlyMade,
           OneAtOnce, HeardAreKnown, Busy, Announcing
  <1>10. KnownAreTold'
    BY <1>1, <1>2, <1>3, <1>4
       DEF Typed, QuietHistory, HearsOf, store, IsActive, HasKnown, OnlyMade,
           OneAtOnce, KnownAreTold, Busy, Announcing
  <1>11. AnnouncedOnce'
    BY <1>1, <1>2, <1>3, <1>4
       DEF Typed, QuietHistory, HearsOf, store, IsActive, HasKnown,
           HeardAreKnown, AnnouncedOnce
  <1> QED BY <1>5, <1>6, <1>7, <1>8, <1>9, <1>10, <1>11

LEMMA PollPushRaisesStep ==
  ASSUME Inner, NEW n \in Nid, PollPushRaises(n)
  PROVE  Inner'
  <1> USE DEF Inner
  <1>1. Typed
    BY Types
  <1>2. PushHistory(n)
    BY <1>1, PushKeeps DEF PollPushRaises
  <1>3. /\ UNCHANGED <<store, now, known, lock, call>> /\ disturbed' /\ n \in made
        /\ poll' \in Polls /\ poll'.step = "clean" /\ poll'.todo = {} /\ poll'.act = poll.act
    <2>1. UNCHANGED <<store, now, known, lock, call>> /\ disturbed' /\ n \in made
      BY <1>1 DEF Typed, PollPushRaises
    <2>2. poll' \in Polls /\ poll'.step = "clean" /\ poll'.todo = {} /\ poll'.act = poll.act
      BY <1>1 DEF Typed, Polls, PollSteps, PollPushRaises
    <2> QED BY <2>1, <2>2
  <1>4. disturbed' \in BOOLEAN
    BY <1>1, <1>3 DEF Typed, PollPushRaises
  <1>5. TypeOK'
    BY <1>1, <1>2, <1>3, <1>4, NotificationsAssumption
       DEF Typed, PushHistory, HearsOf, store, IsActive, HasKnown, TypeOK,
           Polls
  <1>6. OnlyMade'
    BY <1>1, <1>2, <1>3, <1>4
       DEF Typed, PushHistory, HearsOf, store, IsActive, HasKnown, OnlyMade,
           Busy
  <1>7. LockKeeps'
    BY <1>1, <1>2, <1>3, <1>4
       DEF Typed, PushHistory, HearsOf, store, IsActive, HasKnown, LockKeeps,
           Busy
  <1>8. OneAtOnce'
    BY <1>1, <1>2, <1>3, <1>4
       DEF Typed, PushHistory, HearsOf, store, IsActive, HasKnown, OneAtOnce,
           Busy
  <1>9. HeardAreKnown'
    BY <1>1, <1>2, <1>3, <1>4
       DEF Typed, PushHistory, HearsOf, store, IsActive, HasKnown, OnlyMade,
           OneAtOnce, HeardAreKnown, Busy, Announcing
  <1>10. KnownAreTold'
    BY <1>1, <1>2, <1>3, <1>4
       DEF Typed, PushHistory, HearsOf, store, IsActive, HasKnown, OnlyMade,
           OneAtOnce, KnownAreTold, Busy, Announcing
  <1>11. AnnouncedOnce'
    BY <1>1, <1>2, <1>3, <1>4
       DEF Typed, PushHistory, HearsOf, store, IsActive, HasKnown,
           HeardAreKnown, AnnouncedOnce
  <1> QED BY <1>5, <1>6, <1>7, <1>8, <1>9, <1>10, <1>11

LEMMA PollCleanStep ==
  ASSUME Inner, PollClean
  PROVE  Inner'
  <1> USE DEF Inner
  <1>1. Typed
    BY Types
  <1>2. QuietHistory
    BY <1>1, QuietKeeps DEF PollClean
  <1>3. /\ UNCHANGED <<store, now, known, lock, call, disturbed>> /\ poll.step = "push" /\ poll.todo = {}
        /\ poll' \in Polls /\ poll'.step = "clean" /\ poll'.todo \subseteq present /\ poll'.act = poll.act
    <2>1. UNCHANGED <<store, now, known, lock, call, disturbed>> /\ poll.step = "push" /\ poll.todo = {}
      BY DEF PollClean, PushesDone
    <2>2. poll' \in Polls /\ poll'.step = "clean" /\ poll'.todo \subseteq present /\ poll'.act = poll.act
      BY <1>1 DEF Typed, Polls, PollSteps, PollClean
    <2> QED BY <2>1, <2>2
  <1>4. disturbed' \in BOOLEAN
    BY <1>1, <1>3 DEF Typed
  <1>5. TypeOK'
    BY <1>1, <1>2, <1>3, <1>4, NotificationsAssumption
       DEF Typed, QuietHistory, HearsOf, store, IsActive, HasKnown, TypeOK,
           Polls
  <1>6. OnlyMade'
    BY <1>1, <1>2, <1>3, <1>4
       DEF Typed, QuietHistory, HearsOf, store, IsActive, HasKnown, OnlyMade,
           Busy
  <1>7. LockKeeps'
    BY <1>1, <1>2, <1>3, <1>4
       DEF Typed, QuietHistory, HearsOf, store, IsActive, HasKnown,
           LockKeeps, Busy
  <1>8. OneAtOnce'
    BY <1>1, <1>2, <1>3, <1>4
       DEF Typed, QuietHistory, HearsOf, store, IsActive, HasKnown,
           OneAtOnce, Busy
  <1>9. HeardAreKnown'
    BY <1>1, <1>2, <1>3, <1>4
       DEF Typed, QuietHistory, HearsOf, store, IsActive, HasKnown, OnlyMade,
           OneAtOnce, KnownAreTold, HeardAreKnown, Busy, Announcing
  <1>10. KnownAreTold'
    BY <1>1, <1>2, <1>3, <1>4
       DEF Typed, QuietHistory, HearsOf, store, IsActive, HasKnown, OnlyMade,
           OneAtOnce, KnownAreTold, Busy, Announcing
  <1>11. AnnouncedOnce'
    BY <1>1, <1>2, <1>3, <1>4
       DEF Typed, QuietHistory, HearsOf, store, IsActive, HasKnown,
           HeardAreKnown, AnnouncedOnce
  <1> QED BY <1>5, <1>6, <1>7, <1>8, <1>9, <1>10, <1>11

LEMMA PollDeleteStep ==
  ASSUME Inner, NEW n \in Nid, PollDelete(n)
  PROVE  Inner'
  <1> USE DEF Inner
  <1>1. Typed
    BY Types
  <1>2. QuietHistory
    BY <1>1, QuietKeeps DEF PollDelete
  <1>3. /\ UNCHANGED <<obj, made, now, known, lock, call, disturbed>> /\ lock = NoThread /\ present' \subseteq present
        /\ poll.step = "clean" /\ poll' \in Polls /\ poll'.step = "clean" /\ poll'.todo \subseteq poll.todo /\ poll'.act = poll.act
    <2>1. UNCHANGED <<obj, made, now, known, lock, call, disturbed>> /\ lock = NoThread /\ present' \subseteq present
      BY DEF PollDelete
    <2>2. poll.step = "clean" /\ poll' \in Polls /\ poll'.step = "clean" /\ poll'.todo \subseteq poll.todo /\ poll'.act = poll.act
      BY <1>1 DEF Typed, Polls, PollSteps, PollDelete
    <2> QED BY <2>1, <2>2
  <1>4. disturbed' \in BOOLEAN
    BY <1>1, <1>3 DEF Typed
  <1>5. TypeOK'
    BY <1>1, <1>2, <1>3, <1>4, NotificationsAssumption
       DEF Typed, QuietHistory, HearsOf, store, IsActive, HasKnown, TypeOK,
           Polls
  <1>6. OnlyMade'
    BY <1>1, <1>2, <1>3, <1>4
       DEF Typed, QuietHistory, HearsOf, store, IsActive, HasKnown, OnlyMade,
           Busy
  <1>7. LockKeeps'
    BY <1>1, <1>2, <1>3, <1>4
       DEF Typed, QuietHistory, HearsOf, store, IsActive, HasKnown,
           LockKeeps, Busy
  <1>8. OneAtOnce'
    BY <1>1, <1>2, <1>3, <1>4
       DEF Typed, QuietHistory, HearsOf, store, IsActive, HasKnown,
           OneAtOnce, Busy
  <1>9. HeardAreKnown'
    BY <1>1, <1>2, <1>3, <1>4
       DEF Typed, QuietHistory, HearsOf, store, IsActive, HasKnown, OnlyMade,
           OneAtOnce, HeardAreKnown, Busy, Announcing
  <1>10. KnownAreTold'
    BY <1>1, <1>2, <1>3, <1>4
       DEF Typed, QuietHistory, HearsOf, store, IsActive, HasKnown, OnlyMade,
           OneAtOnce, KnownAreTold, Busy, Announcing
  <1>11. AnnouncedOnce'
    BY <1>1, <1>2, <1>3, <1>4
       DEF Typed, QuietHistory, HearsOf, store, IsActive, HasKnown,
           HeardAreKnown, AnnouncedOnce
  <1> QED BY <1>5, <1>6, <1>7, <1>8, <1>9, <1>10, <1>11

LEMMA TickStep ==
  ASSUME Inner, Tick
  PROVE  Inner'
  <1> USE DEF Inner
  <1>1. Typed
    BY Types
  <1>2. QuietHistory
    BY <1>1, QuietKeeps DEF Tick
  <1>3. UNCHANGED <<store, known, lock, call, poll, disturbed>> /\ now' \in 0..MaxNow
    BY <1>1, NotificationsAssumption DEF NotificationsAssumption, Typed, Tick
  <1>4. disturbed' \in BOOLEAN
    BY <1>1, <1>3 DEF Typed
  <1>5. TypeOK'
    BY <1>1, <1>2, <1>3, <1>4, NotificationsAssumption
       DEF Typed, QuietHistory, HearsOf, store, IsActive, HasKnown, TypeOK,
           Polls
  <1>6. OnlyMade'
    BY <1>1, <1>2, <1>3, <1>4
       DEF Typed, QuietHistory, HearsOf, store, IsActive, HasKnown, OnlyMade,
           Busy
  <1>7. LockKeeps'
    BY <1>1, <1>2, <1>3, <1>4
       DEF Typed, QuietHistory, HearsOf, store, IsActive, HasKnown,
           LockKeeps, Busy
  <1>8. OneAtOnce'
    BY <1>1, <1>2, <1>3, <1>4
       DEF Typed, QuietHistory, HearsOf, store, IsActive, HasKnown,
           OneAtOnce, Busy
  <1>9. HeardAreKnown'
    BY <1>1, <1>2, <1>3, <1>4
       DEF Typed, QuietHistory, HearsOf, store, IsActive, HasKnown, OnlyMade,
           OneAtOnce, HeardAreKnown, Busy, Announcing
  <1>10. KnownAreTold'
    BY <1>1, <1>2, <1>3, <1>4
       DEF Typed, QuietHistory, HearsOf, store, IsActive, HasKnown, OnlyMade,
           OneAtOnce, KnownAreTold, Busy, Announcing
  <1>11. AnnouncedOnce'
    BY <1>1, <1>2, <1>3, <1>4
       DEF Typed, QuietHistory, HearsOf, store, IsActive, HasKnown,
           HeardAreKnown, AnnouncedOnce
  <1> QED BY <1>5, <1>6, <1>7, <1>8, <1>9, <1>10, <1>11

LEMMA AnnounceStep ==
  ASSUME Inner, NEW t \in Thread, Announce(t),
         IsActive(call[t].nid), ~call[t].was
  PROVE  Inner'
  <1> USE DEF Inner
  <1>1. Typed
    BY Types
  <1>2. PushHistory(call[t].nid)
    BY <1>1, PushKeeps DEF Announce
  <1>3. /\ /\ UNCHANGED <<store, now, known, lock, poll, disturbed>> /\ call[t].step = "changed"
           /\ call[t].nid \in made
        /\ /\ call' \in [Thread -> Calls] /\ \A v \in Thread \ {t} : call'[v] = call[v]
           /\ call'[t].step = "pushed" /\ call'[t].nid = call[t].nid /\ call'[t].seen = call[t].seen
    <2>1. /\ UNCHANGED <<store, now, known, lock, poll, disturbed>> /\ call[t].step = "changed"
          /\ call[t].nid \in made
      BY DEF Announce, OnlyMade, Busy
    <2>2. /\ call' \in [Thread -> Calls] /\ \A v \in Thread \ {t} : call'[v] = call[v]
          /\ call'[t].step = "pushed" /\ call'[t].nid = call[t].nid /\ call'[t].seen = call[t].seen
      <3>1. call' = [call EXCEPT ![t] = [call[t] EXCEPT !.step = "pushed"]]
        BY DEF Announce
      <3> QED BY <1>1, <3>1, CallSet, CallOf DEF Typed, CallSteps
    <2> QED BY <2>1, <2>2
  <1>4. disturbed' \in BOOLEAN
    BY <1>1, <1>3 DEF Typed
  <1>5. TypeOK'
    BY <1>1, <1>2, <1>3, <1>4, NotificationsAssumption
       DEF Typed, PushHistory, HearsOf, store, IsActive, HasKnown, TypeOK,
           Polls
  <1>6. OnlyMade'
    BY <1>1, <1>2, <1>3, <1>4
       DEF Typed, PushHistory, HearsOf, store, IsActive, HasKnown, OnlyMade,
           Busy
  <1>7. LockKeeps'
    BY <1>1, <1>2, <1>3, <1>4
       DEF Typed, PushHistory, HearsOf, store, IsActive, HasKnown, LockKeeps,
           Busy
  <1>8. OneAtOnce'
    BY <1>1, <1>2, <1>3, <1>4
       DEF Typed, PushHistory, HearsOf, store, IsActive, HasKnown, OneAtOnce,
           Busy
  <1>9. HeardAreKnown'
    BY <1>1, <1>2, <1>3, <1>4
       DEF Typed, PushHistory, HearsOf, store, IsActive, HasKnown, OnlyMade,
           OneAtOnce, HeardAreKnown, Busy, Announcing
  <1>10. KnownAreTold'
    BY <1>1, <1>2, <1>3, <1>4
       DEF Typed, PushHistory, HearsOf, store, IsActive, HasKnown, OnlyMade,
           OneAtOnce, KnownAreTold, Busy, Announcing
  <1>11. AnnouncedOnce'
    BY <1>1, <1>2, <1>3, <1>4
       DEF Typed, PushHistory, HearsOf, store, IsActive, HasKnown,
           HeardAreKnown, AnnouncedOnce
  <1> QED BY <1>5, <1>6, <1>7, <1>8, <1>9, <1>10, <1>11

LEMMA NoAnnounceStep ==
  ASSUME Inner, NEW t \in Thread, Announce(t),
         ~(IsActive(call[t].nid) /\ ~call[t].was)
  PROVE  Inner'
  <1> USE DEF Inner
  <1>1. Typed
    BY Types
  <1>2. QuietHistory
    BY <1>1, QuietKeeps DEF Announce
  <1>3. /\ UNCHANGED <<store, now, known, poll, disturbed>> /\ call[t].step = "changed"
        /\ call'[t].step = "idle" /\ call' \in [Thread -> Calls] /\ \A v \in Thread \ {t} : call'[v] = call[v]
        /\ lock' = lock \/ (lock = t /\ lock' = NoThread)
    <2>1. UNCHANGED <<store, now, known, poll, disturbed>> /\ call[t].step = "changed"
      BY DEF Announce
    <2>2. call'[t].step = "idle" /\ call' \in [Thread -> Calls] /\ \A v \in Thread \ {t} : call'[v] = call[v]
      BY <1>1, NoCallType, CallSet DEF Announce, Done, Return
    <2>3. lock' = lock \/ (lock = t /\ lock' = NoThread)
      BY DEF Announce, Done
    <2> QED BY <2>1, <2>2, <2>3
  <1>4. disturbed' \in BOOLEAN
    BY <1>1, <1>3 DEF Typed
  <1>5. TypeOK'
    BY <1>1, <1>2, <1>3, <1>4, NotificationsAssumption
       DEF Typed, QuietHistory, HearsOf, store, IsActive, HasKnown, TypeOK,
           Polls
  <1>6. OnlyMade'
    BY <1>1, <1>2, <1>3, <1>4
       DEF Typed, QuietHistory, HearsOf, store, IsActive, HasKnown, OnlyMade,
           Busy
  <1>7. LockKeeps'
    BY <1>1, <1>2, <1>3, <1>4
       DEF Typed, QuietHistory, HearsOf, store, IsActive, HasKnown,
           LockKeeps, Busy
  <1>8. OneAtOnce'
    BY <1>1, <1>2, <1>3, <1>4
       DEF Typed, QuietHistory, HearsOf, store, IsActive, HasKnown,
           OneAtOnce, Busy
  <1>9. HeardAreKnown'
    BY <1>1, <1>2, <1>3, <1>4
       DEF Typed, QuietHistory, HearsOf, store, IsActive, HasKnown, OnlyMade,
           OneAtOnce, HeardAreKnown, Busy, Announcing
  <1>10. KnownAreTold'
    BY <1>1, <1>2, <1>3, <1>4
       DEF Typed, QuietHistory, HearsOf, store, IsActive, HasKnown, OnlyMade,
           OneAtOnce, KnownAreTold, Busy, Announcing
  <1>11. AnnouncedOnce'
    BY <1>1, <1>2, <1>3, <1>4
       DEF Typed, QuietHistory, HearsOf, store, IsActive, HasKnown,
           HeardAreKnown, AnnouncedOnce
  <1> QED BY <1>5, <1>6, <1>7, <1>8, <1>9, <1>10, <1>11

LEMMA StutterStep == ASSUME Inner, UNCHANGED vars PROVE Inner'
  BY DEF Inner, vars, store, history, TypeOK, OnlyMade, LockKeeps, OneAtOnce, HeardAreKnown,
         KnownAreTold, AnnouncedOnce, HasKnown, IsActive, Busy, Announcing

LEMMA RequestStep == ASSUME Inner, NEW t \in Thread, NEW n \in Nid, Request(t, n) PROVE Inner'
  <1>1. CASE \E o \in Object : Add(t, n, o)
    BY <1>1, AddStep
  <1>2. CASE \E e \in BOOLEAN, f \in Start \cup {Keep}, u \in End \cup {Keep} : Update(t, n, e, f, u)
    BY <1>2, UpdateStep
  <1> QED
    BY <1>1, <1>2 DEF Request, PostNotification, PostNotificationBuilder, EnableNotification,
                      DisableNotification, UpdateNotification

LEMMA FinishStep == ASSUME Inner, NEW t \in Thread, Finish(t) PROVE Inner'
  <1>1. CASE Announce(t)
    BY <1>1, AnnounceStep, NoAnnounceStep
  <1> QED
    BY <1>1, UpdateFromStep, UpdateUntilStep, AnnounceRaisesStep, ReadKnownStep, WriteKnownStep
    DEF Finish

LEMMA PollStep == ASSUME Inner, Poll PROVE Inner'
  <1>1. ASSUME NEW n \in Nid, PollPush(n)
        PROVE  Inner'
    BY <1>1, PollPushStep, PollSkipStep
  <1> QED
    BY <1>1, PollSnapshotStep, PollDiffStep, PollKnowStep, PollCleanStep, PollEvalStep,
       PollPushRaisesStep, PollDeleteStep
    DEF Poll

LEMMA NextStep == ASSUME Inner, [Next]_vars PROVE Inner'
  BY StutterStep, RequestStep, FinishStep, PollStep, TickStep, DeleteStep
  DEF Next, DeleteNotifications, DeleteNotification

LEMMA InitInner == ASSUME Init PROVE Inner
  <1>1. TypeOK
    <2>1. obj \in [Nid -> Object \cup {Unset}] /\ made = {n \in Nid : obj[n] # Unset}
      BY NotificationsAssumption DEF NotificationsAssumption, Object, Init
    <2>2. call \in [Thread -> Calls] /\ \A t \in Thread : call[t].step # "know"
      BY NoCallType DEF Init
    <2>3. poll \in Polls
      BY DEF Polls, PollSteps, Init
    <2>4. /\ present \subseteq made /\ made \subseteq Nid
          /\ now = 0 /\ known = Unset /\ lock = NoThread
          /\ heard = {} /\ told = {} /\ ~again /\ ~disturbed
          /\ again \in BOOLEAN /\ disturbed \in BOOLEAN
      BY DEF Init
    <2> QED
      BY <2>1, <2>2, <2>3, <2>4, NotificationsAssumption DEF NotificationsAssumption, TypeOK
  <1>2. OnlyMade /\ LockKeeps /\ OneAtOnce
    BY DEF OnlyMade, LockKeeps, OneAtOnce, Busy, HasKnown, Init, NoCall
  <1>3. HeardAreKnown /\ KnownAreTold /\ AnnouncedOnce
    BY DEF HeardAreKnown, KnownAreTold, AnnouncedOnce, HasKnown, Announcing, Init, NoCall
  <1> QED BY <1>1, <1>2, <1>3 DEF Inner

(* The rest of the invariant holds in every state, or follows.                *)

LEMMA VisitorsSee == VisitorsSeeActive
  <1> SUFFICES ASSUME NEW q \in Query, NEW answer \in Get(Unprotected(q), TRUE), NEW n \in answer
               PROVE  IsActive(n)
    BY DEF VisitorsSeeActive, PublicQuery
  <1> DEFINE p == Unprotected(q)
  <1>1. p \cap Keyword \subseteq {"all_active", "latest_active"}
    BY DEF Unprotected, Keyword, Protected
  <1>2. n \in Chosen(p) /\ (p \cap Keyword = {} => IsActive(n))
    BY DEF Get
  <1>3. CASE p \cap Keyword # {}
    <2>1. PICK k \in p \cap Keyword : n \in Selects(k)
      BY <1>2, <1>3 DEF Chosen
    <2> QED BY <1>1, <2>1 DEF Selects
  <1> QED BY <1>2, <1>3

LEMMA InnerSuffices == ASSUME Inner PROVE NotificationsInv
  <1>1. NoneMissed
    BY DEF Inner, KnownAreTold, NoneMissed, PushesDone
  <1> QED BY <1>1, VisitorsSee DEF Inner, NotificationsInv

LEMMA AlwaysInner == Spec => []Inner
  BY InitInner, NextStep, PTL DEF Spec

\* What the run of the module checks, for every value of the constants.
THEOREM NotificationsSafe == Spec => []NotificationsInv
  BY AlwaysInner, InnerSuffices, PTL

\* A deleted notification stays deleted: what puts one into the store is add,
\* with a new id, and update, which kept the lock since it found the id there.
THEOREM NotificationsStayDeleted == Spec => DeletedStaysDeleted
  <1> DEFINE Stays == \A n \in made \ present : n \notin present'
  <1>1. ASSUME Inner, [Next]_vars PROVE [Stays]_<<made, present>>
    <2>1. ASSUME NEW t \in Thread, NEW n \in Nid, Request(t, n) PROVE Stays
      BY <2>1 DEF Request, PostNotification, PostNotificationBuilder, EnableNotification,
                  DisableNotification, UpdateNotification, Add, Update
    <2>2. ASSUME NEW t \in Thread, Finish(t) PROVE [Stays]_<<made, present>>
      <3>1. CASE UpdateUntil(t)
        BY <1>1, <3>1 DEF Inner, LockKeeps, UpdateUntil
      <3> QED BY <2>2, <3>1 DEF Finish, UpdateFrom, Announce, AnnounceRaises, ReadKnown, WriteKnown, store
    <2>3. ASSUME Poll PROVE [Stays]_<<made, present>>
      BY <2>3 DEF Poll, PollSnapshot, PollEval, PollDiff, PollKnow, PollPush, PollPushRaises,
                  PollClean, PollDelete, store
    <2> QED
      BY <1>1, <2>1, <2>2, <2>3
      DEF Next, DeleteNotifications, DeleteNotification, Delete, Tick, vars, store
  <1> QED BY <1>1, AlwaysInner, PTL DEF Spec, DeletedStaysDeleted

-------------------------------------------------------------------------------
(* PushSubscriptions: what the proofs of every step use.                      *)

\* Every object a send has still to look at belongs to an auth that was
\* subscribed, since the send began, to the send's topic if the object is.
SnapshotsWanted ==
    \A s \in Sender : \A i \in send[s].todo :
        send[s].topic \in objs[i].topics => objs[i].auth \in wanted[s]

SentInv == SnapshotsWanted /\ SentOnlyToSubscribers

USE DEF Obj, None

LEMMA InitSubs == SubsInit => SubsInv /\ SentInv
  BY PushSubscriptionsAssumption
     DEF PushSubscriptionsAssumption, SubsInit, SubsInv, SubsTypeOK, SentInv, SnapshotsWanted, SentOnlyToSubscribers,
         AcceptedKept, Stored, Created, Doomed, NoRequest, NoSend

-------------------------------------------------------------------------------
(* The steps that create, replace or change an object                       *)

\* The new object of add is one that no snapshot holds and nothing refers to.
LEMMA NewObject ==
    ASSUME SubsInv, NEW topics \in SUBSET Topic, AddWrite(topics)
    PROVE  \E i \in Obj \ Created :
              /\ request.auth \in Auth
              /\ objs' = [objs EXCEPT ![i] = [auth |-> request.auth, topics |-> topics]]
              /\ subs' = [subs EXCEPT ![request.auth] = i]
              /\ \A s \in Sender : i \notin send[s].todo
              /\ \A b \in Stored : subs[b] # i
  <1>1. PICK i \in Obj \ Created :
          /\ objs' = [objs EXCEPT ![i] = [auth |-> request.auth, topics |-> topics]]
          /\ subs' = [subs EXCEPT ![request.auth] = i]
    BY DEF AddWrite
  <1>2. request.auth \in Auth
    BY DEF AddWrite, SubsInv, NoRequest
  <1>3. \A s \in Sender : i \notin send[s].todo
    BY DEF SubsInv
  <1>4. \A b \in Stored : subs[b] # i
    BY <1>1, PushSubscriptionsAssumption DEF PushSubscriptionsAssumption, SubsInv, SubsTypeOK, Stored, Created
  <1> QED BY <1>1, <1>2, <1>3, <1>4

LEMMA AddWriteSubs ==
    ASSUME SubsInv, NEW topics \in SUBSET Topic, AddWrite(topics)
    PROVE  SubsInv'
  <1>1. PICK i \in Obj \ Created :
          /\ request.auth \in Auth
          /\ objs' = [objs EXCEPT ![i] = [auth |-> request.auth, topics |-> topics]]
          /\ subs' = [subs EXCEPT ![request.auth] = i]
          /\ \A s \in Sender : i \notin send[s].todo
          /\ \A b \in Stored : subs[b] # i
    BY NewObject
  <1>2. SubsTypeOK'
    <2>1. wanted' \in [Sender -> SUBSET Auth]
      BY DEF AddWrite, Wants, Subscribers, SubsInv, SubsTypeOK
    <2> QED BY <1>1, <2>1 DEF AddWrite, NoRequest, SubsInv, SubsTypeOK
  <1>3. \A b \in Stored' : objs'[subs'[b]].auth = b
    BY <1>1 DEF SubsInv, SubsTypeOK, Stored
  <1>4. \A s \in Sender : send'[s].todo \subseteq Created'
    BY <1>1, PushSubscriptionsAssumption DEF PushSubscriptionsAssumption, AddWrite, SubsInv, SubsTypeOK, Created
  <1>5. accepted' \cap Doomed' = {} /\ AcceptedKept'
    BY <1>1 DEF AddWrite, SubsInv, SubsTypeOK, AcceptedKept, Stored, Doomed
  <1> QED BY <1>2, <1>3, <1>4, <1>5 DEF AddWrite, SubsInv

LEMMA UpdateTopicsSubs ==
    ASSUME SubsInv, NEW a \in Auth, NEW topics \in SUBSET Topic, UpdateTopics(a, topics)
    PROVE  SubsInv'
  <1>1. subs[a] \in Obj /\ objs' = [objs EXCEPT ![subs[a]].topics = topics]
    BY DEF UpdateTopics, SubsInv, SubsTypeOK, Stored
  <1>2. SubsTypeOK'
    <2>1. wanted' \in [Sender -> SUBSET Auth]
      BY DEF UpdateTopics, Wants, Subscribers, SubsInv, SubsTypeOK
    <2> QED BY <1>1, <2>1 DEF UpdateTopics, SubsInv, SubsTypeOK
  <1>3. \A i \in Obj : objs'[i].auth = objs[i].auth
    BY <1>1 DEF SubsInv, SubsTypeOK
  <1> QED
    BY <1>1, <1>2, <1>3 DEF UpdateTopics, SubsInv, SubsTypeOK, Stored, Created, Doomed, AcceptedKept

\* The record of a send after a report.
LEMMA ChangedSend ==
    ASSUME NEW Todo, NEW Stale, NEW R,
           NEW f \in [Sender -> [topic : R, todo : Todo, stale : Stale]],
           NEW s \in Sender, NEW todo \in Todo, NEW stale \in Stale
    PROVE  [f EXCEPT ![s].todo = todo, ![s].stale = stale]
              \in [Sender -> [topic : R, todo : Todo, stale : Stale]]
  OBVIOUS

\* A send reports an auth gone: it is the auth of the object it pushed to.
LEMMA ReportGoneSubs ==
    ASSUME SubsInv, NEW s \in Sender, NEW i \in Obj, ReportGone(s, i)
    PROVE  SubsInv'
  <1>1. objs[i].auth \in Auth
    BY DEF ReportGone, SubsInv, SubsTypeOK, Created
  <1>2. SubsTypeOK'
    <2>1. send' \in [Sender -> [topic : Topic \cup {NoTopic}, todo : SUBSET Obj, stale : SUBSET Auth]]
      <3> DEFINE todo == send[s].todo \ {i}
                 stale == send[s].stale \cup {objs[i].auth}
      <3>1. todo \in SUBSET Obj /\ stale \in SUBSET Auth
        BY <1>1 DEF SubsInv, SubsTypeOK
      <3>2. send' = [send EXCEPT ![s].todo = todo, ![s].stale = stale]
        BY DEF ReportGone
      <3> HIDE DEF todo, stale
      <3> QED BY <3>1, <3>2, ChangedSend DEF SubsInv, SubsTypeOK
    <2>2. accepted' \subseteq Auth /\ pushed' \in [Sender -> SUBSET Auth]
      BY <1>1 DEF ReportGone, SubsInv, SubsTypeOK
    <2> QED BY <2>1, <2>2 DEF ReportGone, SubsInv, SubsTypeOK
  <1>3. \A u \in Sender : send'[u].todo \subseteq Created'
    BY DEF ReportGone, SubsInv, SubsTypeOK, Created
  <1>4. Doomed' \subseteq Doomed \cup {objs[i].auth}
    BY DEF ReportGone, SubsInv, SubsTypeOK, Doomed
  <1> QED
    BY <1>2, <1>3, <1>4 DEF ReportGone, SubsInv, AcceptedKept, Stored

LEMMA DeleteStaleSubs ==
    ASSUME SubsInv, NEW s \in Sender, NEW a \in Auth, DeleteStale(s, a)
    PROVE  SubsInv'
  <1>1. PICK rest \in {send[s].stale \ {a}, {}} : send' = [send EXCEPT ![s].stale = rest]
    BY DEF DeleteStale
  <1>2. a \in Doomed /\ a \notin accepted
    BY DEF DeleteStale, Doomed, SubsInv
  <1>3. SubsTypeOK'
    <2>1. wanted' \in [Sender -> SUBSET Auth]
      BY DEF DeleteStale, Wants, Subscribers, SubsInv, SubsTypeOK
    <2>2. send' \in [Sender -> [topic : Topic \cup {NoTopic}, todo : SUBSET Obj, stale : SUBSET Auth]]
      <3>1. rest \subseteq Auth
        BY DEF SubsInv, SubsTypeOK
      <3> QED BY <1>1, <3>1 DEF SubsInv, SubsTypeOK
    <2>3. subs' \in [Auth -> Obj \cup {None}]
      BY DEF DeleteStale, SubsInv, SubsTypeOK
    <2> QED BY <2>1, <2>2, <2>3 DEF DeleteStale, SubsInv, SubsTypeOK
  <1>4. Doomed' \subseteq Doomed
    BY <1>1 DEF SubsInv, SubsTypeOK, Doomed
  <1>5. \A b \in Stored' : b \in Stored /\ subs'[b] = subs[b]
    BY DEF DeleteStale, SubsInv, SubsTypeOK, Stored
  <1>6. AcceptedKept'
    BY <1>2 DEF DeleteStale, SubsInv, SubsTypeOK, AcceptedKept, Stored
  <1>7. \A u \in Sender : send'[u].todo \subseteq Created'
    BY <1>1 DEF DeleteStale, SubsInv, SubsTypeOK, Created
  <1> QED BY <1>2, <1>3, <1>4, <1>5, <1>6, <1>7 DEF DeleteStale, SubsInv

LEMMA NextSubs == SubsInv /\ [SubsNext]_subsVars => SubsInv'
  <1> SUFFICES ASSUME SubsInv, [SubsNext]_subsVars PROVE SubsInv'
    OBVIOUS
  <1> USE DEF SubsInv, AcceptedKept, Stored, Created, Doomed
  <1>1. ASSUME NEW a \in Auth, AddCheck(a) \/ RemoveCheck(a) PROVE SubsInv'
    <2>1. request' \in [kind : {"none", "new", "add", "remove"}, auth : Auth \cup {NoAuth}] /\ request'.auth \in Auth
      BY <1>1 DEF AddCheck, RemoveCheck
    <2>2. UNCHANGED <<subs, objs, send, accepted, wanted, pushed>>
      BY <1>1 DEF AddCheck, RemoveCheck
    <2> QED BY <2>1, <2>2 DEF SubsTypeOK
  <1>8. CASE AddCount
    <2>1. /\ request' \in [kind : {"none", "new", "add", "remove"}, auth : Auth \cup {NoAuth}]
          /\ request' = NoRequest \/ request'.auth \in Auth
      BY <1>8 DEF AddCount, NoRequest, SubsTypeOK
    <2> QED BY <1>8, <2>1 DEF AddCount, SubsTypeOK
  <1>2. CASE RemoveDelete
    <2>1. wanted' \in [Sender -> SUBSET Auth]
      BY <1>2 DEF RemoveDelete, Wants, Subscribers, SubsTypeOK
    <2>2. request.auth \in Auth
      BY <1>2 DEF RemoveDelete, NoRequest
    <2> QED BY <1>2, <2>1, <2>2 DEF RemoveDelete, SubsTypeOK, NoRequest
  <1>3. ASSUME NEW s \in Sender, NEW x \in Topic, SendBegin(s, x) PROVE SubsInv'
    <2>1. {subs[a] : a \in Stored} \subseteq Created
      BY PushSubscriptionsAssumption DEF PushSubscriptionsAssumption, SubsTypeOK
    <2>2. SubsTypeOK'
      BY <1>3, <2>1 DEF SendBegin, Subscribers, SubsTypeOK
    <2>3. Doomed' \subseteq Doomed /\ \A u \in Sender : send'[u].todo \subseteq Created'
      BY <1>3, <2>1 DEF SendBegin, SubsTypeOK
    <2> QED BY <1>3, <2>2, <2>3 DEF SendBegin
  <1>4. ASSUME NEW s \in Sender, NEW i \in Obj, Skip(s, i) PROVE SubsInv'
    BY <1>4 DEF Skip, SubsTypeOK
  <1>5. ASSUME NEW s \in Sender, NEW i \in Obj, PushTo(s, i) PROVE SubsInv'
    <2>1. objs[i].auth \in Auth
      BY <1>5 DEF PushTo, SubsTypeOK
    <2> QED BY <1>5, <2>1 DEF PushTo, SubsTypeOK
  <1>6. ASSUME NEW s \in Sender, SendEnd(s) PROVE SubsInv'
    BY <1>6 DEF SendEnd, NoSend, SubsTypeOK
  <1>7. CASE UNCHANGED subsVars
    BY <1>7 DEF subsVars, SubsTypeOK
  <1> QED
    BY <1>1, <1>2, <1>3, <1>4, <1>5, <1>6, <1>7, <1>8, AddWriteSubs, UpdateTopicsSubs, ReportGoneSubs, DeleteStaleSubs
       DEF SubsNext, Loop, Send, Topics

\* Accepted subscriptions are kept, and stored objects belong to their auth.
THEOREM SubscriptionsKept == SubsSpec => []SubsInv
  BY InitSubs, NextSubs, PTL DEF SubsSpec

-------------------------------------------------------------------------------
(* The sends                                                               *)

\* A step that changes subs or objs and ends in Wants: what the stored objects
\* are subscribed to is recorded for every send.
LEMMA WantsFacts ==
    ASSUME SubsInv, Wants
    PROVE  /\ \A s \in Sender : wanted[s] \subseteq wanted'[s]
           /\ \A s \in Sender, a \in Auth :
                 subs'[a] # None /\ send[s].topic \in objs'[subs'[a]].topics => a \in wanted'[s]
  BY DEF Wants, Subscribers, SubsInv, SubsTypeOK

LEMMA NextSent == SubsInv /\ SentInv /\ [SubsNext]_subsVars => SentInv'
  <1> SUFFICES ASSUME SubsInv, SentInv, [SubsNext]_subsVars PROVE SentInv'
    OBVIOUS
  <1> USE DEF SentInv, SnapshotsWanted, SentOnlyToSubscribers
  <1>1. ASSUME NEW a \in Auth, AddCheck(a) \/ RemoveCheck(a) PROVE SentInv'
    BY <1>1 DEF AddCheck, RemoveCheck
  <1>11. CASE AddCount
    BY <1>11 DEF AddCount
  <1>2. ASSUME NEW topics \in SUBSET Topic, AddWrite(topics) PROVE SentInv'
    <2>1. PICK i \in Obj \ Created :
            /\ objs' = [objs EXCEPT ![i] = [auth |-> request.auth, topics |-> topics]]
            /\ \A s \in Sender : i \notin send[s].todo
      BY <1>2, NewObject
    <2>2. \A s \in Sender : \A j \in send[s].todo : objs'[j] = objs[j]
      BY <2>1 DEF SubsInv, SubsTypeOK
    <2> QED BY <1>2, <2>2, WantsFacts DEF AddWrite
  <1>3. CASE RemoveDelete
    BY <1>3, WantsFacts DEF RemoveDelete
  <1>4. ASSUME NEW a \in Auth, NEW topics \in SUBSET Topic, UpdateTopics(a, topics) PROVE SentInv'
    <2>1. objs' = [objs EXCEPT ![subs[a]].topics = topics] /\ subs' = subs /\ subs[a] \in Obj
      BY <1>4 DEF UpdateTopics, SubsInv, SubsTypeOK, Stored
    <2>2. \A j \in Obj : objs'[j].auth = objs[j].auth /\ (j # subs[a] => objs'[j] = objs[j])
      BY <2>1 DEF SubsInv, SubsTypeOK
    <2>3. objs[subs[a]].auth = a /\ subs[a] # None
      BY <1>4 DEF UpdateTopics, SubsInv, Stored
    <2>4. \A s \in Sender : send[s].todo \subseteq Obj
      BY DEF SubsInv, SubsTypeOK
    <2> QED BY <1>4, <2>1, <2>2, <2>3, <2>4, WantsFacts DEF UpdateTopics
  <1>5. ASSUME NEW s \in Sender, NEW x \in Topic, SendBegin(s, x) PROVE SentInv'
    BY <1>5 DEF SendBegin, Subscribers, SubsInv, SubsTypeOK, Stored
  <1>6. ASSUME NEW s \in Sender, NEW i \in Obj, Skip(s, i) PROVE SentInv'
    BY <1>6 DEF Skip, SubsInv, SubsTypeOK
  <1>7. ASSUME NEW s \in Sender, NEW i \in Obj, PushTo(s, i) \/ ReportGone(s, i) PROVE SentInv'
    <2>1. objs[i].auth \in wanted[s]
      BY <1>7 DEF PushTo, ReportGone, IsWanted
    <2>2. objs' = objs /\ wanted' = wanted
      BY <1>7 DEF PushTo, ReportGone
    <2>3. pushed' = [pushed EXCEPT ![s] = @ \cup {objs[i].auth}]
      BY <1>7 DEF PushTo, ReportGone
    <2>4. \A u \in Sender : send'[u].topic = send[u].topic /\ send'[u].todo \subseteq send[u].todo
      <3>1. CASE PushTo(s, i)
        BY <3>1 DEF PushTo, SubsInv, SubsTypeOK
      <3>2. CASE ReportGone(s, i)
        BY <3>2 DEF ReportGone, SubsInv, SubsTypeOK
      <3> QED BY <1>7, <3>1, <3>2
    <2>5. SnapshotsWanted'
      BY <2>2, <2>4
    <2>6. SentOnlyToSubscribers'
      BY <2>1, <2>2, <2>3 DEF SubsInv, SubsTypeOK
    <2> QED BY <2>5, <2>6
  <1>8. ASSUME NEW s \in Sender, NEW a \in Auth, DeleteStale(s, a) PROVE SentInv'
    BY <1>8, WantsFacts DEF DeleteStale, SubsInv, SubsTypeOK
  <1>9. ASSUME NEW s \in Sender, SendEnd(s) PROVE SentInv'
    BY <1>9 DEF SendEnd, NoSend, SubsInv, SubsTypeOK
  <1>10. CASE UNCHANGED subsVars
    BY <1>10 DEF subsVars
  <1> QED
    BY <1>1, <1>2, <1>3, <1>4, <1>5, <1>6, <1>7, <1>8, <1>9, <1>10, <1>11 DEF SubsNext, Loop, Send, Topics

\* Pushes about a topic reach only auths subscribed to it during the send.
THEOREM PushesAreWanted == SubsSpec => []SentOnlyToSubscribers
  <1>1. SubsSpec => [](SubsInv /\ SentInv)
    BY InitSubs, NextSubs, NextSent, PTL DEF SubsSpec
  <1>2. SubsInv /\ SentInv => SentOnlyToSubscribers
    BY DEF SentInv
  <1> QED BY <1>1, <1>2, PTL

-------------------------------------------------------------------------------
(* The limit                                                               *)

\* A new auth that was counted has room: until it is written the senders
\* can only make more of it, and no other request is served.
LimitInv ==
    /\ IsFiniteSet(Stored)
    /\ WithinLimit
    /\ request.kind = "add" /\ request.auth \notin Stored => Cardinality(Stored) < MaxSubs

LEMMA InitLimit == SubsInit => LimitInv
  <1> SUFFICES ASSUME SubsInit PROVE LimitInv
    OBVIOUS
  <1>1. Stored = {}
    BY DEF SubsInit, Stored
  <1> QED BY <1>1, FS_EmptySet, PushSubscriptionsAssumption
          DEF PushSubscriptionsAssumption, LimitInv, WithinLimit, SubsInit, NoRequest

\* A step that writes nothing new, and leaves the request or ends it.
LEMMA FewerStored ==
  ASSUME LimitInv, Stored' \subseteq Stored, request' \in {request, NoRequest},
         request'.kind = "add" /\ request.auth \in Stored \ Stored' => Stored' = Stored \ {request.auth}
  PROVE  LimitInv'
  <1>1. /\ IsFiniteSet(Stored) /\ Cardinality(Stored) \in Nat /\ Cardinality(Stored) <= MaxSubs
        /\ IsFiniteSet(Stored') /\ Cardinality(Stored') \in Nat /\ Cardinality(Stored') <= Cardinality(Stored)
    BY FS_Subset, FS_CardinalityType DEF LimitInv, WithinLimit
  <1>2. MaxSubs \in Nat
    BY PushSubscriptionsAssumption DEF PushSubscriptionsAssumption
  <1>3. ASSUME request'.kind = "add", request'.auth \notin Stored' PROVE Cardinality(Stored') < MaxSubs
    <2>1. request' = request
      BY <1>3 DEF NoRequest
    <2>2. CASE request.auth \in Stored
      <3>1. Stored' = Stored \ {request.auth}
        BY <1>3, <2>1, <2>2
      <3>2. Cardinality(Stored') = Cardinality(Stored) - 1
        BY <1>1, <2>2, <3>1, FS_RemoveElement
      <3> QED BY <1>1, <1>2, <3>2
    <2>3. CASE request.auth \notin Stored
      BY <1>1, <1>2, <1>3, <2>1, <2>3 DEF LimitInv
    <2> QED BY <2>2, <2>3
  <1> QED BY <1>1, <1>2, <1>3 DEF LimitInv, WithinLimit

LEMMA NextLimit == SubsInv /\ LimitInv /\ [SubsNext]_subsVars => LimitInv'
  <1> SUFFICES ASSUME SubsInv, LimitInv, [SubsNext]_subsVars PROVE LimitInv'
    OBVIOUS
  <1>0. /\ IsFiniteSet(Stored) /\ Cardinality(Stored) \in Nat /\ Cardinality(Stored) <= MaxSubs /\ MaxSubs \in Nat
        /\ subs \in [Auth -> Obj \cup {None}]
    BY FS_CardinalityType, PushSubscriptionsAssumption
       DEF PushSubscriptionsAssumption, LimitInv, WithinLimit, SubsInv, SubsTypeOK
  <1>1. ASSUME subs' = subs, request' \in {request, NoRequest} PROVE LimitInv'
    <2>1. Stored' = Stored
      BY <1>1 DEF Stored
    <2> QED BY <1>1, <2>1, FewerStored
  <1>2. ASSUME NEW a \in Auth, AddCheck(a) PROVE LimitInv'
    <2>1. Stored' = Stored /\ request'.auth = a /\ (request'.kind = "add" => a \in Stored)
      BY <1>2 DEF AddCheck, Stored
    <2> QED BY <1>0, <2>1 DEF LimitInv, WithinLimit
  <1>11. CASE AddCount
    <2>1. Stored' = Stored
      BY <1>11 DEF AddCount, Stored
    <2>2. request'.kind = "add" => ~(Cardinality(Stored) >= MaxSubs)
      BY <1>11 DEF AddCount, IsFull, NoRequest
    <2> QED BY <1>0, <2>1, <2>2 DEF LimitInv, WithinLimit
  <1>3. ASSUME NEW a \in Auth, RemoveCheck(a) PROVE LimitInv'
    <2>1. Stored' = Stored /\ request'.kind = "remove"
      BY <1>3 DEF RemoveCheck, Stored
    <2> QED BY <1>0, <2>1 DEF LimitInv, WithinLimit
  <1>4. ASSUME NEW topics \in SUBSET Topic, AddWrite(topics) PROVE LimitInv'
    <2>1. PICK i \in Obj \ Created : request.auth \in Auth /\ subs' = [subs EXCEPT ![request.auth] = i]
      BY <1>4, NewObject
    <2>2. Stored' = Stored \cup {request.auth}
      BY <1>0, <2>1, PushSubscriptionsAssumption DEF PushSubscriptionsAssumption, Stored
    <2>3. request.kind = "add" /\ request'.kind = "none"
      BY <1>4 DEF AddWrite, NoRequest
    <2>4. /\ IsFiniteSet(Stored')
          /\ Cardinality(Stored') = IF request.auth \in Stored THEN Cardinality(Stored) ELSE Cardinality(Stored) + 1
      BY <1>0, <2>2, FS_AddElement
    <2> QED BY <1>0, <2>3, <2>4 DEF LimitInv, WithinLimit
  <1>5. CASE RemoveDelete
    <2>1. Stored' \subseteq Stored /\ request' = NoRequest
      BY <1>0, <1>5 DEF RemoveDelete, Stored
    <2> QED BY <2>1, FewerStored DEF NoRequest
  <1>6. ASSUME NEW a \in Auth, NEW topics \in SUBSET Topic, UpdateTopics(a, topics) PROVE LimitInv'
    BY <1>1, <1>6 DEF UpdateTopics
  <1>7. ASSUME NEW s \in Sender, NEW a \in Auth, DeleteStale(s, a) PROVE LimitInv'
    <2>1. Stored' = Stored \ {a} /\ request' = request
      BY <1>0, <1>7 DEF DeleteStale, Stored
    <2> QED BY <2>1, FewerStored
  <1>8. ASSUME NEW s \in Sender, NEW x, SendBegin(s, x) \/ SendEnd(s) PROVE LimitInv'
    BY <1>1, <1>8 DEF SendBegin, SendEnd
  <1>9. ASSUME NEW s \in Sender, NEW i \in Obj, Skip(s, i) \/ PushTo(s, i) \/ ReportGone(s, i) PROVE LimitInv'
    BY <1>1, <1>9 DEF Skip, PushTo, ReportGone
  <1>10. CASE UNCHANGED subsVars
    BY <1>1, <1>10 DEF subsVars
  <1> QED
    BY <1>2, <1>3, <1>4, <1>5, <1>6, <1>7, <1>8, <1>9, <1>10, <1>11 DEF SubsNext, Loop, Send, Topics

\* The store never holds more subscriptions than its limit.
THEOREM LimitHolds == SubsSpec => []WithinLimit
  <1>1. SubsSpec => []LimitInv
    BY InitLimit, NextLimit, SubscriptionsKept, PTL DEF SubsSpec
  <1>2. LimitInv => WithinLimit
    BY DEF LimitInv
  <1> QED BY <1>1, <1>2, PTL
===============================================================================
