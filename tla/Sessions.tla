------------------------------- MODULE Sessions -------------------------------
(***************************************************************************)
(* Sign-in sessions: FileSessionStore keeps a file for each session id, the *)
(* starsessions middleware (external code) loads the session of the cookie  *)
(* before a request and saves or removes it after, and HybridAuth, POST     *)
(* /auth and POST /signout check, fill, rotate and clear it in between.     *)
(* Every file operation runs in the thread pool, so the requests of one     *)
(* browser and the hourly cleanup interleave at each of them.               *)
(***************************************************************************)
EXTENDS Integers

CONSTANTS
    Browser,   \* the clients, each with one cookie jar
    Request,   \* bound: the requests in progress at the same time
    Id,        \* bound: the session ids ever generated; a fresh one is new
    Token,     \* the admin token and the API keys
    Lifetime,  \* SESSION_MAX_AGE_SECONDS
    MaxNow,    \* bound: how far the clock runs
    None

ASSUME SessionsAssumption ==
    /\ Lifetime \in Nat \ {0}
    /\ MaxNow \in Nat
    /\ None \notin Id \cup Token \cup [subject : Token, mtime : 0..MaxNow]

VARIABLES
    file,      \* the session file of each id, or None
    valid,     \* the tokens that are accepted
    cookie,    \* the session_cookie of each browser
    req,       \* the requests
    cleanup,   \* the cleanup: the entries scandir has left, the time it began
               \* at, and the file it found too old
    now,       \* the clock
    used,      \* history: ids generated
    ended,     \* history: ids whose record a request removed
    raced,     \* history: ids removed while another request held their data
    rewritten  \* history: ids saved after somebody found their file too old

store == <<file, now>>
history == <<used, ended, raced, rewritten>>
vars == <<store, valid, cookie, req, cleanup, history>>

Idle == [step |-> "idle", from |-> None, id |-> None, previous |-> None,
         data |-> None, had |-> FALSE, key |-> None]
AtRest == [todo |-> {}, began |-> 0, doomed |-> None]

Init ==
    /\ file = [i \in Id |-> None]
    /\ valid = Token
    /\ cookie = [b \in Browser |-> None]
    /\ req = [q \in Request |-> Idle]
    /\ cleanup = AtRest
    /\ now = 0
    /\ used = {}
    /\ ended = {}
    /\ raced = {}
    /\ rewritten = {}

-------------------------------------------------------------------------------
(* The store                                                               *)

TooOld(f, time) == f # None /\ time - f.mtime > Lifetime

\* Request q will write the data it loaded back to the file of i.
Holds(q, i) == req[q].id = i /\ req[q].data # None /\ req[q].step \in {"handle", "save"}

FoundTooOld(i) ==
    \/ cleanup.doomed = i
    \/ \E q \in Request : req[q].step = "expire" /\ req[q].id = i

\* unlink(missing_ok=True); there is no file to None.
Unlink(i) == file' = [j \in Id |-> IF j = i THEN None ELSE file[j]]

\* _write_sync: a temporary file takes the place of the old one at once.
Write(i, data) ==
    /\ file' = [file EXCEPT ![i] = [subject |-> data, mtime |-> now]]
    /\ rewritten' = IF FoundTooOld(i) THEN rewritten \cup {i} ELSE rewritten
    /\ UNCHANGED <<used, ended, raced>>

\* History: the request of q means the session of i to end here.
Ends(q, i) ==
    /\ ended' = ended \cup ({i} \ {None})
    /\ raced' = IF \E r \in Request \ {q} : Holds(r, i) THEN raced \cup {i} ELSE raced
    /\ UNCHANGED <<used, rewritten>>

-------------------------------------------------------------------------------
(* A request                                                               *)

Becomes(q, r) == req' = [req EXCEPT ![q] = r]
Goto(q, step) == req' = [req EXCEPT ![q].step = step]

\* The browser sends its cookie along; without one there is nothing to load.
Send(q, b) ==
    /\ req[q].step = "idle"
    /\ Becomes(q, [Idle EXCEPT !.step = IF cookie[b] = None THEN "handle" ELSE "stat",
                               !.from = b, !.id = cookie[b]])
    /\ UNCHANGED <<store, valid, cookie, cleanup, history>>

\* _read_sync looks at the age of the file ...
Stat(q) ==
    /\ req[q].step = "stat"
    /\ Goto(q, IF file[req[q].id] = None THEN "handle"
               ELSE IF TooOld(file[req[q].id], now) THEN "expire" ELSE "read")
    /\ UNCHANGED <<store, valid, cookie, cleanup, history>>

\* ... and removes it ...
Expire(q) ==
    /\ req[q].step = "expire"
    /\ Unlink(req[q].id)
    /\ Goto(q, "handle")
    /\ UNCHANGED <<now, valid, cookie, cleanup, history>>

\* ... or reads it, if it is still there.
Read(q) ==
    /\ req[q].step = "read"
    /\ LET f == file[req[q].id]
       IN  Becomes(q, [req[q] EXCEPT !.step = "handle", !.had = f # None,
                                     !.data = IF f = None THEN None ELSE f.subject])
    /\ UNCHANGED <<store, valid, cookie, cleanup, history>>

\* resolve_session_subject: a session whose token is no longer valid is cleared.
Resolved(data) == IF data \in valid THEN data ELSE None

\* The routes without a session, and those that resolve it: HybridAuth,
\* PageAuth and the navigation.
Pass(q) ==
    /\ req[q].step = "handle"
    /\ \E data \in {req[q].data, Resolved(req[q].data)} :
          Becomes(q, [req[q] EXCEPT !.step = "save", !.data = data])
    /\ UNCHANGED <<store, valid, cookie, cleanup, history>>

SignOut(q) ==
    /\ req[q].step = "handle"
    /\ Becomes(q, [req[q] EXCEPT !.step = "save", !.data = None])
    /\ UNCHANGED <<store, valid, cookie, cleanup, history>>

\* EphemeralAPIKeyHeader: the admin token, or a stored key that has not expired.
Accepts(t) == t \in valid

\* HybridAuth with a key in the header: a valid session makes it ignore the
\* key (Pass), and a key that is not accepted leaves the request as it is.
CheckHeader(q, t) ==
    /\ req[q].step = "handle"
    /\ Resolved(req[q].data) = None
    /\ Becomes(q, IF Accepts(t) THEN [req[q] EXCEPT !.step = "create", !.data = None, !.key = t]
                  ELSE [req[q] EXCEPT !.step = "save", !.data = None])
    /\ UNCHANGED <<store, valid, cookie, cleanup, history>>

\* Mutant: the session keeps its id.
KeepId(q, i) == IF req[q].id = None THEN i \notin used ELSE i = req[q].id

\* regenerate_session_id: a random id.
NewId(q, i) == i \notin used

\* The session of data gets a new id: the first half of rotate_session_id.
Regenerate(q, data) ==
    /\ \E i \in Id :
        /\ NewId(q, i)
        /\ used' = used \cup {i}
        /\ Becomes(q, [req[q] EXCEPT !.step = "rotate", !.id = i, !.previous = req[q].id,
                                     !.data = data, !.key = None])
    /\ UNCHANGED <<store, valid, cookie, cleanup, ended, raced, rewritten>>

\* The key of the header is looked up once more; the id is rotated anyway.
CreateFromHeader(q) ==
    /\ req[q].step = "create"
    /\ Regenerate(q, Resolved(req[q].key))

\* POST /auth does not resolve the session it replaces, and leaves it as it
\* was when the token is not valid.
SignIn(q, t) ==
    /\ req[q].step = "handle"
    /\ IF t \in valid THEN Regenerate(q, t)
       ELSE Goto(q, "save") /\ UNCHANGED <<store, valid, cookie, cleanup, history>>

\* Mutant: the record of the previous id stays.
LeavePrevious(q) == UNCHANGED file

RemovePrevious(q) == Unlink(req[q].previous)

\* The second half of rotate_session_id.
Rotate(q) ==
    /\ req[q].step = "rotate"
    /\ RemovePrevious(q)
    /\ Ends(q, req[q].previous)
    /\ Becomes(q, [req[q] EXCEPT !.step = "save", !.previous = None])
    /\ UNCHANGED <<now, valid, cookie, cleanup>>

\* The answer to the request of q sets the cookie to i.
Answering(q, i) == [Idle EXCEPT !.step = "answer", !.from = req[q].from, !.id = i]

\* The middleware saves a session that is not empty, rolling: every request
\* renews the file and the cookie ...
Save(q) ==
    /\ req[q].step = "save"
    /\ req[q].data # None
    /\ Write(req[q].id, req[q].data)
    /\ Becomes(q, Answering(q, req[q].id))
    /\ UNCHANGED <<now, valid, cookie, cleanup>>

\* ... removes one that was cleared, and the cookie with it ...
Destroy(q) ==
    /\ req[q].step = "save"
    /\ req[q].data = None
    /\ req[q].had
    /\ Unlink(req[q].id)
    /\ Ends(q, req[q].id)
    /\ Becomes(q, Answering(q, None))
    /\ UNCHANGED <<now, valid, cookie, cleanup>>

\* ... and does nothing for one that was empty all along, or when its write
\* fails: then the answer is an error that sets no cookie.
LeaveSession(q) ==
    /\ req[q].step = "save"
    /\ req[q].data # None \/ ~req[q].had
    /\ Becomes(q, Idle)
    /\ UNCHANGED <<store, valid, cookie, cleanup, history>>

\* The answer arrives, or gets lost.
Answer(q) ==
    /\ req[q].step = "answer"
    /\ cookie' \in {cookie, [cookie EXCEPT ![req[q].from] = req[q].id]}
    /\ Becomes(q, Idle)
    /\ UNCHANGED <<store, valid, cleanup, history>>

-------------------------------------------------------------------------------
(* _session_cleanup_loop, in a thread of the pool                          *)

Existing == {i \in Id : file[i] # None}

CleanupBegin ==
    /\ cleanup.todo = {}
    /\ cleanup.doomed = None
    /\ cleanup' = [AtRest EXCEPT !.todo = Existing, !.began = now]
    /\ UNCHANGED <<store, valid, cookie, req, history>>

\* Mutant: a session of exactly the lifetime has expired.
IsExpiredEarly(i) == cleanup.began - file[i].mtime >= Lifetime

IsExpired(i) == TooOld(file[i], cleanup.began)

\* stat of one entry after the other ...
CleanupStat(i) ==
    /\ i \in cleanup.todo
    /\ cleanup.doomed = None
    /\ file[i] # None
    /\ cleanup' = [cleanup EXCEPT !.todo = @ \ {i},
                                  !.doomed = IF IsExpired(i) THEN i ELSE None]
    /\ UNCHANGED <<store, valid, cookie, req, history>>

\* ... where one that is gone raises FileNotFoundError and ends the cleanup.
CleanupRaises ==
    /\ cleanup.doomed = None
    /\ \E i \in cleanup.todo : file[i] = None
    /\ cleanup' = AtRest
    /\ UNCHANGED <<store, valid, cookie, req, history>>

\* Mutant: it returns after the first removal.
CleanupUnlinkOne ==
    /\ cleanup.doomed # None
    /\ Unlink(cleanup.doomed)
    /\ cleanup' = AtRest
    /\ UNCHANGED <<now, valid, cookie, req, history>>

CleanupUnlink ==
    /\ cleanup.doomed # None
    /\ Unlink(cleanup.doomed)
    /\ cleanup' = [cleanup EXCEPT !.doomed = None]
    /\ UNCHANGED <<now, valid, cookie, req, history>>

-------------------------------------------------------------------------------
(* The rest of the system                                                  *)

\* An API key expires or is deleted, or the admin token is changed.
Revoke(t) ==
    /\ t \in valid
    /\ valid' = valid \ {t}
    /\ UNCHANGED <<store, cookie, req, cleanup, history>>

Tick ==
    /\ now < MaxNow
    /\ now' = now + 1
    /\ UNCHANGED <<file, valid, cookie, req, cleanup, history>>

\* A crash loses the requests and the cleanup; the files stay.
Restart ==
    /\ req' = [q \in Request |-> Idle]
    /\ cleanup' = AtRest
    /\ UNCHANGED <<store, valid, cookie, history>>

Handle(q) ==
    \/ Pass(q) \/ SignOut(q) \/ CreateFromHeader(q)
    \/ \E t \in Token : CheckHeader(q, t) \/ SignIn(q, t)

Finish(q) ==
    \/ Stat(q) \/ Expire(q) \/ Read(q)
    \/ Handle(q) \/ Rotate(q)
    \/ Save(q) \/ Destroy(q) \/ LeaveSession(q) \/ Answer(q)

Cleanup == CleanupBegin \/ CleanupUnlink \/ CleanupRaises \/ \E i \in Id : CleanupStat(i)

Next ==
    \/ \E q \in Request : Finish(q) \/ \E b \in Browser : Send(q, b)
    \/ Cleanup
    \/ \E t \in Token : Revoke(t)
    \/ Tick
    \/ Restart

Spec == Init /\ [][Next]_vars
-------------------------------------------------------------------------------
(* Properties                                                              *)

File == [subject : Token, mtime : 0..MaxNow]
Steps == {"idle", "stat", "expire", "read", "handle", "create", "rotate", "save", "answer"}

RequestOf(ids) == [step : Steps, from : Browser \cup {None}, id : ids \cup {None},
                   previous : ids \cup {None}, data : Token \cup {None}, had : BOOLEAN,
                   key : Token \cup {None}]

\* Type invariant.
TypeOK ==
    /\ file \in [Id -> File \cup {None}]
    /\ valid \subseteq Token
    /\ cookie \in [Browser -> used \cup {None}]
    /\ req \in [Request -> RequestOf(used)]
    /\ cleanup \in [todo : SUBSET Id, began : 0..MaxNow, doomed : Id \cup {None}]
    /\ now \in 0..MaxNow
    /\ used \subseteq Id
    /\ ended \subseteq used
    /\ raced \subseteq used \cup {None}
    /\ rewritten \subseteq used

\* "A cookie issued earlier is no longer accepted": a session that was signed
\* out, superseded or found invalid has no file ever again, unless another
\* request held its data when the file was removed.
EndedStaysEnded == \A i \in ended \ raced : file[i] = None

\* An id stands for one sign-in: its file is never given to another token,
\* however the requests of a browser overlap.
OneSubject ==
    [][\A i \in Id : file[i] # None /\ file'[i] # None => file'[i].subject = file[i].subject]_file

\* "Unrelated sessions unaffected": a file that is not too old goes away only
\* because a request of that session removed it, or because it was renewed
\* after the cleanup or a request had found it too old.
LiveIsKept ==
    [][\A i \in Id : file[i] # None /\ ~TooOld(file[i], now) /\ file'[i] = None
                       => i \in ended' \cup rewritten]_vars

\* A cleanup that was not cut short leaves no file that was too old when it
\* began, whatever requests renewed or removed in the meantime.
SweptClean ==
    [][(CleanupUnlink \/ \E i \in Id : CleanupStat(i)) /\ cleanup'.todo = {} /\ cleanup'.doomed = None
         => \A i \in Id : ~TooOld(file'[i], cleanup.began)]_vars

\* A new id is known to nobody but the request that made it.
NewIdIsPrivate ==
    \A q \in Request : req[q].step = "rotate" =>
        LET i == req[q].id
        IN  /\ i # None /\ file[i] = None /\ i \notin ended /\ i # req[q].previous
            /\ \A b \in Browser : cookie[b] # i
            /\ \A r \in Request \ {q} : i \notin {req[r].id, req[r].previous}

\* Whoever holds a session's data holds the same, and what the file has.
HoldersAgree ==
    \A i \in Id, q \in Request : Holds(q, i) =>
        /\ file[i] # None => file[i].subject = req[q].data
        /\ \A r \in Request : Holds(r, i) => req[r].data = req[q].data

\* Nobody is left who could write an ended session back.
NobodyHoldsEnded == \A i \in ended \ raced, q \in Request : ~Holds(q, i)

Loading == {"stat", "expire", "read"}

\* Files have ids that were generated and times that have been, and a request
\* that reads a file or has read one has an id, and no data before it has.
IdsAreKnown ==
    /\ \A i \in Id : file[i] # None => i \in used /\ file[i].mtime <= now
    /\ \A q \in Request :
        /\ req[q].step \in Loading \/ req[q].had \/ req[q].data # None => req[q].id # None
        /\ req[q].step \in Loading => req[q].data = None

\* What was found too old still is, or was renewed since.
FoundIsOld ==
    \A i \in Id : FoundTooOld(i) /\ file[i] # None => i \in rewritten \/ TooOld(file[i], now)

\* The cleanup has still to visit what was too old when it began.
Unvisited ==
    /\ cleanup.began <= now
    /\ cleanup.todo # {} \/ cleanup.doomed # None =>
        \A i \in Id : TooOld(file[i], cleanup.began) => i \in cleanup.todo \cup {cleanup.doomed}

\* The inductive invariant: what an ended session and the two expiry checks
\* rest on.
SessionsInv ==
    /\ TypeOK
    /\ EndedStaysEnded
    /\ NobodyHoldsEnded
    /\ IdsAreKnown
    /\ NewIdIsPrivate
    /\ HoldersAgree
    /\ FoundIsOld
    /\ Unvisited
===============================================================================
