--------------------------- MODULE PushSubscriptions ---------------------------
(***************************************************************************)
(* PushSubscriptionService: the event loop serves the browsers one request  *)
(* at a time, while other threads send pushes from a snapshot of the store  *)
(* and delete the subscriptions that the push service reports gone.  Each   *)
(* access to the store is one step under its lock; the subscription objects *)
(* are shared, and update_topics changes them in place.                     *)
(***************************************************************************)
EXTENDS Naturals, FiniteSets

CONSTANTS
    Auth,      \* the browsers' auth secrets, the keys of the store
    Topic,
    Sender,    \* threads inside send_to_topic_sync
    MaxSubs,   \* _MAX_SUBSCRIPTIONS
    MaxObj,    \* bound: how many subscription objects are created
    NoAuth, NoTopic

ASSUME PushSubscriptionsAssumption == MaxSubs \in Nat /\ MaxObj \in Nat /\ NoAuth \notin Auth

\* What the requests may carry: at least one topic, each known, each once.
Topics == SUBSET Topic \ {{}}

Obj == 1..MaxObj
None == 0  \* no object

VARIABLES
    subs,      \* the store: the object of each auth, or None
    objs,      \* the objects created so far: their auth and their topics
    request,   \* the request the event loop is in: between the reads of the
               \* store and the write of add or remove
    send,      \* the send each sender is in: its topic, the objects of its
               \* snapshot still to do, and the auths found stale
    accepted,  \* history: auths whose registration was accepted, when no send
               \* in progress was about to delete them, and that have neither
               \* unsubscribed nor been reported gone since
    wanted,    \* history: auths that were subscribed to the topic of each send
               \* at some time since it began
    pushed     \* history: auths that each send has pushed to

subsVars == <<subs, objs, request, send, accepted, wanted, pushed>>

Stored == {a \in Auth : subs[a] # None}
Created == {i \in Obj : objs[i].auth # NoAuth}
Subscribers(store, heap, x) == {a \in Auth : store[a] # None /\ x \in heap[store[a]].topics}

Doomed == UNION {send[s].stale : s \in Sender}

NoRequest == [kind |-> "none", auth |-> NoAuth]
NoSend == [topic |-> NoTopic, todo |-> {}, stale |-> {}]

SubsInit ==
    /\ subs = [a \in Auth |-> None]
    /\ objs = [i \in Obj |-> [auth |-> NoAuth, topics |-> {}]]
    /\ request = NoRequest
    /\ send = [s \in Sender |-> NoSend]
    /\ accepted = {}
    /\ wanted = [s \in Sender |-> {}]
    /\ pushed = [s \in Sender |-> {}]

\* The last conjunct of an action that changes subs or objs.
Wants == wanted' = [s \in Sender |-> wanted[s] \cup Subscribers(subs', objs', send[s].topic)]

-------------------------------------------------------------------------------
(* The event loop                                                          *)

\* Mutant: the limit is tested off by one.
IsFullLate == Cardinality(Stored) > MaxSubs

IsFull == Cardinality(Stored) >= MaxSubs

\* add: a known auth is replaced, a new one needs room ...
AddCheck(a) ==
    /\ request = NoRequest
    /\ Created # Obj
    /\ request' = [kind |-> IF a \in Stored THEN "add" ELSE "new", auth |-> a]
    /\ UNCHANGED <<subs, objs, send, accepted, wanted, pushed>>

\* ... which is counted in a second read of the store (ValueError if there is
\* none) ...
AddCount ==
    /\ request.kind = "new"
    /\ request' = IF IsFull THEN NoRequest ELSE [request EXCEPT !.kind = "add"]
    /\ UNCHANGED <<subs, objs, send, accepted, wanted, pushed>>

\* ... and either is written as a new object.  A save that fails fails the
\* request and leaves the subscription in memory.
AddWrite(topics) ==
    /\ request.kind = "add"
    /\ \E i \in Obj \ Created :
        /\ \A j \in Obj \ Created : i <= j
        /\ objs' = [objs EXCEPT ![i] = [auth |-> request.auth, topics |-> topics]]
        /\ subs' = [subs EXCEPT ![request.auth] = i]
    /\ request' = NoRequest
    /\ accepted' \in {accepted, accepted \cup ({request.auth} \ Doomed)}
    /\ UNCHANGED <<send, pushed>>
    /\ Wants

\* remove: NOT_FOUND unless the auth is stored ...
RemoveCheck(a) ==
    /\ request = NoRequest
    /\ a \in Stored
    /\ request' = [kind |-> "remove", auth |-> a]
    /\ UNCHANGED <<subs, objs, send, accepted, wanted, pushed>>

\* ... and then deleted: KeyError when a sender has deleted it by now.
RemoveDelete ==
    /\ request.kind = "remove"
    /\ subs' = [subs EXCEPT ![request.auth] = None]
    /\ request' = NoRequest
    /\ accepted' = accepted \ {request.auth}
    /\ UNCHANGED <<objs, send, pushed>>
    /\ Wants

\* update_topics: one batch, which changes the stored object.
UpdateTopics(a, topics) ==
    /\ request = NoRequest
    /\ a \in Stored
    /\ objs' = [objs EXCEPT ![subs[a]].topics = topics]
    /\ UNCHANGED <<subs, request, send, accepted, pushed>>
    /\ Wants

-------------------------------------------------------------------------------
(* send_to_topic_sync                                                      *)

SendBegin(s, x) ==
    /\ send[s] = NoSend
    /\ send' = [send EXCEPT ![s] = [topic |-> x, todo |-> {subs[a] : a \in Stored}, stale |-> {}]]
    /\ wanted' = [wanted EXCEPT ![s] = Subscribers(subs, objs, x)]
    /\ pushed' = [pushed EXCEPT ![s] = {}]
    /\ UNCHANGED <<subs, objs, request, accepted>>

\* Mutant: the topics are not looked at.
IsWantedByAll(s, i) == i \in Created

\* The topics of the object, as they are now.
IsWanted(s, i) == send[s].topic \in objs[i].topics

Skip(s, i) ==
    /\ i \in send[s].todo
    /\ ~IsWanted(s, i)
    /\ send' = [send EXCEPT ![s].todo = @ \ {i}]
    /\ UNCHANGED <<subs, objs, request, accepted, wanted, pushed>>

\* Mutant: any failure counts as gone.
PushToAndDoom(s, i) ==
    /\ i \in send[s].todo
    /\ IsWanted(s, i)
    /\ send' = [send EXCEPT ![s].todo = @ \ {i}, ![s].stale = @ \cup {objs[i].auth}]
    /\ pushed' = [pushed EXCEPT ![s] = @ \cup {objs[i].auth}]
    /\ UNCHANGED <<subs, objs, request, accepted, wanted>>

\* The push service takes the push, or fails in a way that says nothing about
\* the subscription.
PushTo(s, i) ==
    /\ i \in send[s].todo
    /\ IsWanted(s, i)
    /\ send' = [send EXCEPT ![s].todo = @ \ {i}]
    /\ pushed' = [pushed EXCEPT ![s] = @ \cup {objs[i].auth}]
    /\ UNCHANGED <<subs, objs, request, accepted, wanted>>

\* The push service answers 404 or 410.
ReportGone(s, i) ==
    /\ i \in send[s].todo
    /\ IsWanted(s, i)
    /\ send' = [send EXCEPT ![s].todo = @ \ {i}, ![s].stale = @ \cup {objs[i].auth}]
    /\ accepted' = accepted \ {objs[i].auth}
    /\ pushed' = [pushed EXCEPT ![s] = @ \cup {objs[i].auth}]
    /\ UNCHANGED <<subs, objs, request, wanted>>

\* After the pushes each stale auth is deleted, whatever it stands for by now;
\* KeyError is suppressed, a save that fails ends the send.
DeleteStale(s, a) ==
    /\ send[s].todo = {}
    /\ a \in send[s].stale
    /\ subs' = [subs EXCEPT ![a] = None]
    /\ \/ send' = [send EXCEPT ![s].stale = @ \ {a}]
       \/ a \in Stored /\ send' = [send EXCEPT ![s].stale = {}]
    /\ UNCHANGED <<objs, request, accepted, pushed>>
    /\ Wants

SendEnd(s) ==
    /\ send[s] # NoSend
    /\ send[s].todo = {}
    /\ send[s].stale = {}
    /\ send' = [send EXCEPT ![s] = NoSend]
    /\ wanted' = [wanted EXCEPT ![s] = {}]
    /\ pushed' = [pushed EXCEPT ![s] = {}]
    /\ UNCHANGED <<subs, objs, request, accepted>>

-------------------------------------------------------------------------------
Loop ==
    \/ \E a \in Auth : AddCheck(a) \/ RemoveCheck(a)
    \/ AddCount
    \/ \E topics \in Topics : AddWrite(topics) \/ \E a \in Auth : UpdateTopics(a, topics)
    \/ RemoveDelete

Send(s) ==
    \/ \E i \in Obj : Skip(s, i) \/ PushTo(s, i) \/ ReportGone(s, i)
    \/ \E a \in Auth : DeleteStale(s, a)
    \/ SendEnd(s)

SubsNext == Loop \/ \E s \in Sender : Send(s) \/ \E x \in Topic : SendBegin(s, x)

SubsSpec == SubsInit /\ [][SubsNext]_subsVars

-------------------------------------------------------------------------------
(* Properties                                                              *)

\* Type invariant.
SubsTypeOK ==
    /\ subs \in [Auth -> Obj \cup {None}]
    /\ objs \in [Obj -> [auth : Auth \cup {NoAuth}, topics : SUBSET Topic]]
    /\ request \in [kind : {"none", "new", "add", "remove"}, auth : Auth \cup {NoAuth}]
    /\ send \in [Sender -> [topic : Topic \cup {NoTopic}, todo : SUBSET Obj, stale : SUBSET Auth]]
    /\ accepted \subseteq Auth
    /\ wanted \in [Sender -> SUBSET Auth]
    /\ pushed \in [Sender -> SUBSET Auth]

\* The store never outgrows its limit, though its reads and its write are
\* steps of their own and senders delete in between.
WithinLimit == Cardinality(Stored) <= MaxSubs

\* An accepted subscription stays in the store until its browser unsubscribes
\* or the push service reports it gone, whatever the other threads delete.
AcceptedKept == accepted \subseteq Stored

\* The inductive invariant: every stored object is the one created for its
\* auth, so that a report about an object is a report about that auth.
SubsInv ==
    /\ SubsTypeOK
    /\ \A a \in Stored : objs[subs[a]].auth = a
    /\ \A s \in Sender : send[s].todo \subseteq Created
    /\ request = NoRequest \/ request.auth \in Auth
    /\ accepted \cap Doomed = {}
    /\ AcceptedKept

\* A push about a topic goes to no one who was not subscribed to it at some
\* time since the send began.
SentOnlyToSubscribers == \A s \in Sender : pushed[s] \subseteq wanted[s]
===============================================================================
