----------------------------- MODULE ApiKeyStore -----------------------------
(***************************************************************************)
(* EphemeralAPIKeyStore under concurrent requests.  Every load() and save() *)
(* builds a new PersistentList on the same file, so nothing is shared but   *)
(* the file and the module's _write_lock, which only append and remove      *)
(* take.  The constructor of PersistentList writes an empty list when it    *)
(* found no file: a load is then a read followed by a write.  Keys are      *)
(* random, so a key is created once; a prefix may match several keys.       *)
(***************************************************************************)
CONSTANTS
    Thread,      \* threads that serve requests
    Key,         \* key values
    Prefix,      \* what a delete request may name
    StartsWith,  \* StartsWith[k]: the prefixes of k, itself included
    Longer,      \* Longer[k]: what begins with the whole of k and goes on
    AdminToken,  \* the subject of a request authenticated by cfg.ADMIN_TOKEN
    InitKeys,    \* what the file may hold when the server starts
    Nobody, None

ASSUME ApiKeyStoreAssumption ==
    /\ StartsWith \in [Key -> SUBSET Prefix]
    /\ Longer \in [Key -> SUBSET Prefix]
    /\ AdminToken \notin Key
    /\ Nobody \notin Thread
    /\ InitKeys \subseteq SUBSET Key

VARIABLES
    hasFile,     \* API_KEYS_PATH exists
    file,        \* the keys in it
    lock,        \* the holder of _write_lock
    req,         \* the request each thread serves: its step, the list it
                 \* loaded, its subject and the key or prefix it is about
    expired,     \* keys past their valid_until
    used,        \* history: keys ever generated
    kept,        \* history: keys acknowledged as stored and not removed since
    removed,     \* history: keys a remove reported as DELETED
    overwritten  \* history: a constructor's empty list replaced stored keys

vars == <<hasFile, file, lock, req, expired, used, kept, removed, overwritten>>
history == <<used, kept, removed, overwritten>>

Idle == [step |-> "idle", keys |-> {}, subject |-> AdminToken, target |-> None]

Init ==
    /\ hasFile \in BOOLEAN
    /\ file \in InitKeys
    /\ hasFile \/ file = {}
    /\ lock = Nobody
    /\ req = [t \in Thread |-> Idle]
    /\ expired = {}
    /\ used = file
    /\ kept = file
    /\ removed = {}
    /\ overwritten = FALSE

Valid(k, keys) == k \in keys /\ k \notin expired

-------------------------------------------------------------------------------
(* load(): the constructor of PersistentList, then to_list                 *)

\* Where a load goes on, and where it goes first when it found no file.
Then == [check |-> "checked", own |-> "ownChecked", append |-> "append", remove |-> "remove"]
Create == [check |-> "checkNew", own |-> "ownNew", append |-> "appendNew", remove |-> "removeNew"]
Purpose == DOMAIN Then

\* The request of t after PersistentDict has read the file, or found none.
Opened(t, purpose, s, x) ==
    [req EXCEPT ![t] = [step |-> IF hasFile THEN Then[purpose] ELSE Create[purpose],
                        keys |-> file, subject |-> s, target |-> x]]

\* The constructor found no items and writes the empty list, whatever the file
\* holds by now, and without _write_lock when the load is a reader's.
WriteDefault(t) ==
    /\ \E purpose \in Purpose :
        /\ req[t].step = Create[purpose]
        /\ req' = [req EXCEPT ![t].step = Then[purpose]]
    /\ hasFile' = TRUE
    /\ file' = {}
    /\ overwritten' = (overwritten \/ file # {})
    /\ UNCHANGED <<lock, expired, used, kept, removed>>

\* Mutant: the lock is not given back.
EndLocked(t) == req' = [req EXCEPT ![t] = Idle] /\ UNCHANGED lock

\* A request ends, and with it the hold of the lock.
End(t) ==
    /\ req' = [req EXCEPT ![t] = Idle]
    /\ lock' = IF lock = t THEN Nobody ELSE lock

\* That write fails: the exception ends the request.
WriteDefaultFails(t) ==
    /\ \E purpose \in Purpose : req[t].step = Create[purpose]
    /\ End(t)
    /\ UNCHANGED <<hasFile, file, expired, history>>

-------------------------------------------------------------------------------
(* Requests                                                                *)

\* is_key_valid, get_valid_key_role and the listing load without the lock ...
Check(t, k) ==
    /\ req[t] = Idle
    /\ req' = Opened(t, "check", AdminToken, k)
    /\ UNCHANGED <<hasFile, file, lock, expired, history>>

\* ... and answer from the list they loaded.
Answer(t) ==
    /\ req[t].step = "checked"
    /\ End(t)
    /\ UNCHANGED <<hasFile, file, expired, history>>

\* create_api_key: a fresh random key for append, which loads under the lock.
CreateKey(t, k) ==
    /\ req[t] = Idle
    /\ lock = Nobody
    /\ k \notin used
    /\ lock' = t
    /\ used' = used \cup {k}
    /\ req' = Opened(t, "append", AdminToken, k)
    /\ UNCHANGED <<hasFile, file, expired, kept, removed, overwritten>>

\* delete_api_key first looks its own subject up, without the lock: a key that
\* was valid when the request was authenticated, and need not be any more.
DeleteKey(t, s, p) ==
    /\ req[t] = Idle
    /\ s \in kept \cup removed \cup {AdminToken}
    /\ req' = Opened(t, "own", s, p)
    /\ UNCHANGED <<hasFile, file, lock, expired, history>>

\* Mutant: nothing refuses a request to delete the caller's own key.
NamesNoKey(t) == FALSE

\* The caller's subject is a stored valid key that begins with what the request
\* names, or that what the request names begins with.
NamesOwnKey(t) ==
    /\ req[t].subject # AdminToken
    /\ Valid(req[t].subject, req[t].keys)
    /\ req[t].target \in StartsWith[req[t].subject] \cup Longer[req[t].subject]

RefuseOwnKey(t) ==
    /\ req[t].step = "ownChecked"
    /\ NamesOwnKey(t)
    /\ End(t)
    /\ UNCHANGED <<hasFile, file, expired, history>>

\* Mutant: remove works on the list loaded before it took the lock.
LoadForRemoveUnlocked(t) ==
    /\ req[t].step = "ownChecked"
    /\ ~NamesOwnKey(t)
    /\ lock = Nobody
    /\ lock' = t
    /\ req' = [req EXCEPT ![t].step = "remove"]
    /\ UNCHANGED <<hasFile, file, expired, history>>

\* remove takes the lock and loads.
LoadForRemove(t) ==
    /\ req[t].step = "ownChecked"
    /\ ~NamesOwnKey(t)
    /\ lock = Nobody
    /\ lock' = t
    /\ req' = Opened(t, "remove", req[t].subject, req[t].target)
    /\ UNCHANGED <<hasFile, file, expired, history>>

-------------------------------------------------------------------------------
(* save(): one write of the whole list.  The list that save() builds finds   *)
(* the file its own load left there, so its constructor writes nothing.      *)

Append(t) ==
    /\ req[t].step = "append"
    /\ file' = req[t].keys \cup {req[t].target}
    /\ kept' = kept \cup {req[t].target}
    /\ End(t)
    /\ UNCHANGED <<hasFile, expired, used, removed, overwritten>>

\* The loaded keys that the request's prefix names.
Matches(t) == {k \in req[t].keys : req[t].target \in StartsWith[k]}

\* The prefix names exactly one key.
NamesOne(t) == \E k \in req[t].keys : Matches(t) = {k}

Remove(t) ==
    /\ req[t].step = "remove"
    /\ NamesOne(t)
    /\ file' = req[t].keys \ Matches(t)
    /\ kept' = kept \ Matches(t)
    /\ removed' = removed \cup Matches(t)
    /\ End(t)
    /\ UNCHANGED <<hasFile, expired, used, overwritten>>

\* NOT_FOUND or AMBIGUOUS.
RefuseRemove(t) ==
    /\ req[t].step = "remove"
    /\ ~NamesOne(t)
    /\ End(t)
    /\ UNCHANGED <<hasFile, file, expired, history>>

\* append returns False, remove raises; the file is as it was.
SaveFails(t) ==
    /\ req[t].step = "append" \/ (req[t].step = "remove" /\ NamesOne(t))
    /\ End(t)
    /\ UNCHANGED <<hasFile, file, expired, history>>

-------------------------------------------------------------------------------
\* valid_until passes.
Expire(k) ==
    /\ expired' = expired \cup {k}
    /\ UNCHANGED <<hasFile, file, lock, req, history>>

Restart ==
    /\ lock' = Nobody
    /\ req' = [t \in Thread |-> Idle]
    /\ UNCHANGED <<hasFile, file, expired, history>>

Step(t) ==
    \/ \E k \in Key : Check(t, k) \/ CreateKey(t, k)
    \/ \E s \in Key \cup {AdminToken}, p \in Prefix : DeleteKey(t, s, p)
    \/ WriteDefault(t)
    \/ WriteDefaultFails(t)
    \/ Answer(t)
    \/ RefuseOwnKey(t)
    \/ LoadForRemove(t)
    \/ Append(t)
    \/ Remove(t)
    \/ RefuseRemove(t)
    \/ SaveFails(t)

Next == Restart \/ (\E k \in Key : Expire(k)) \/ \E t \in Thread : Step(t)

Spec == Init /\ [][Next]_vars

-------------------------------------------------------------------------------
(* Properties                                                              *)

Steps == {"idle"} \cup {Then[x] : x \in Purpose} \cup {Create[x] : x \in Purpose}
Request == [step : Steps, keys : SUBSET Key, subject : Key \cup {AdminToken}, target : Key \cup Prefix \cup {None}]

\* Type invariant.
TypeOK ==
    /\ hasFile \in BOOLEAN
    /\ file \subseteq Key
    /\ lock \in Thread \cup {Nobody}
    /\ req \in [Thread -> Request]
    /\ expired \subseteq Key
    /\ used \subseteq Key
    /\ kept \subseteq Key
    /\ removed \subseteq Key
    /\ overwritten \in BOOLEAN

Writing == {"appendNew", "append", "removeNew", "remove"}

\* Only the holder of the lock changes keys, and it works on the current list;
\* at any time a reader may empty the file, and nobody else adds to it.
HolderIsCurrent ==
    /\ \A t \in Thread : req[t].step \in Writing <=> lock = t
    /\ \A t \in Thread : req[t].step \in Writing => req[t].keys \cap removed = {} /\ file \subseteq req[t].keys
    /\ ~overwritten => \A t \in Thread : req[t].step \in Writing => req[t].keys = file

\* A key being appended is in no list yet.
PendingIsFresh ==
    \A t \in Thread : req[t].step \in {"appendNew", "append"} =>
        /\ req[t].target \in used
        /\ req[t].target \notin file \cup kept \cup removed
        /\ \A u \in Thread : req[t].target \notin req[u].keys

\* append returns True if the key was stored: until it is removed, every load
\* finds it, with requests, failed saves and restarts in any order.
AcknowledgedKept == kept \subseteq file

\* The same, but for the one way the code loses keys: the empty list that a
\* constructor writes after it found no file and others have stored keys.
KeptUnlessOverwritten == ~overwritten => AcknowledgedKept

\* A key that was reported DELETED never authenticates again: no save of an
\* older list brings it back.
RemovedStaysRemoved == removed \cap file = {}

\* The inductive invariant behind the theorems: the lock, the lists under it
\* and what the callers were told agree.
StoreInv ==
    /\ TypeOK
    /\ HolderIsCurrent
    /\ PendingIsFresh
    /\ file \cup kept \cup removed \subseteq used
    /\ \A t \in Thread : req[t].keys \subseteq used
    /\ hasFile \/ file = {}
    /\ \A t \in Thread : req[t].step \in {Then[x] : x \in Purpose} => hasFile
    /\ \A t \in Thread : req[t].step \in {Create[x] : x \in Purpose} => req[t].keys = {}
    /\ kept \cap removed = {}
    /\ ~overwritten => kept = file
    /\ RemovedStaysRemoved

\* "Only delete if there is a unique match": when a key is deleted, the store
\* holds no other key of the request's prefix, whichever keys other requests
\* stored and removed since the request came in and a prefix was unique or not.
RemovesOnlyMatch ==
    [][\A t \in Thread : lock = t /\ removed' # removed =>
            \E k \in Key : /\ removed' \ removed = {k}
                          /\ \A l \in file : req[t].target \in StartsWith[l] => l = k]_vars

\* No caller deletes the key it is authenticated with while that key is valid,
\* whatever other requests do between its check and its removal (unless the
\* check found the list a constructor had just emptied).
OwnKeySurvives ==
    [][\A t \in Thread :
            lock = t /\ req[t].subject \in removed' \ removed => req[t].subject \in expired \/ overwritten]_vars
===============================================================================
