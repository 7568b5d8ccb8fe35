--------------------------- MODULE ApiKeyStoreProofs ---------------------------
(***************************************************************************)
(* EphemeralAPIKeyStore for every set of threads, keys and prefixes: what   *)
(* was acknowledged stays, what was removed stays removed.                  *)
(***************************************************************************)
EXTENDS ApiKeyStore, TLAPS

USE ApiKeyStoreAssumption

LEMMA StepNames ==
  /\ Purpose = {"check", "own", "append", "remove"}
  /\ \A x \in Purpose : Then[x] \in Steps /\ Create[x] \in Steps
  /\ Then["check"] = "checked" /\ Then["own"] = "ownChecked"
  /\ Then["append"] = "append" /\ Then["remove"] = "remove"
  /\ Create["check"] = "checkNew" /\ Create["own"] = "ownNew"
  /\ Create["append"] = "appendNew" /\ Create["remove"] = "removeNew"
  /\ {Create[x] : x \in Purpose} = {"checkNew", "ownNew", "appendNew", "removeNew"}
  /\ {Then[x] : x \in Purpose} = {"checked", "ownChecked", "append", "remove"}
  /\ Steps = {"idle", "checked", "ownChecked", "append", "remove", "checkNew", "ownNew", "appendNew", "removeNew"}
<1>1. Purpose = {"check", "own", "append", "remove"}
  BY DEF Purpose, Then
<1>2. /\ Then["check"] = "checked" /\ Then["own"] = "ownChecked"
      /\ Then["append"] = "append" /\ Then["remove"] = "remove"
      /\ Create["check"] = "checkNew" /\ Create["own"] = "ownNew"
      /\ Create["append"] = "appendNew" /\ Create["remove"] = "removeNew"
  BY DEF Then, Create
<1>3. {Create[x] : x \in Purpose} = {"checkNew", "ownNew", "appendNew", "removeNew"}
  BY <1>1, <1>2
<1>4. {Then[x] : x \in Purpose} = {"checked", "ownChecked", "append", "remove"}
  BY <1>1, <1>2
<1> QED BY <1>1, <1>2, <1>3, <1>4 DEF Steps

\* The initial states satisfy the invariant.
LEMMA InitStoreInv == Init => StoreInv
<1> SUFFICES ASSUME Init PROVE StoreInv
  OBVIOUS
<1>1. /\ \A t \in Thread : req[t] = Idle
      /\ Idle.step = "idle" /\ Idle.keys = {} /\ Idle.subject = AdminToken /\ Idle.target = None
      /\ lock = Nobody
  BY DEF Init, Idle
<1>2. TypeOK
  <2>1. Idle \in Request
    BY StepNames DEF Idle, Request
  <2> QED BY <2>1 DEF Init, TypeOK
<1>3. HolderIsCurrent /\ PendingIsFresh
  BY <1>1 DEF HolderIsCurrent, PendingIsFresh, Writing
<1> QED BY <1>1, <1>2, <1>3, StepNames DEF Init, StoreInv, RemovedStaysRemoved

\* A load that changes no history keeps the invariant.
LEMMA OpenInv ==
  ASSUME StoreInv, NEW t \in Thread, NEW s \in Key \cup {AdminToken}, NEW x \in Key \cup Prefix \cup {None},
         NEW purpose \in {"check", "own", "remove"},
         req[t].step \in {"idle", "ownChecked"},
         purpose = "remove" => lock = Nobody /\ lock' = t,
         purpose # "remove" => lock' = lock,
         req' = Opened(t, purpose, s, x),
         UNCHANGED <<hasFile, file, expired, history>>
  PROVE  StoreInv'
<1> USE StepNames DEF StoreInv, TypeOK, HolderIsCurrent, PendingIsFresh, RemovedStaysRemoved, Writing, history
<1>1. /\ req'[t].step \in {Then[purpose], Create[purpose]}
      /\ req'[t].keys = file
      /\ req'[t].step = Create[purpose] => file = {}
      /\ req'[t].step = Then[purpose] => hasFile
      /\ \A u \in Thread \ {t} : req'[u] = req[u]
      /\ req' \in [Thread -> Request]
  BY DEF Opened, Request
<1>2. TypeOK'
  BY <1>1
<1>3. HolderIsCurrent'
  BY <1>1
<1>4. PendingIsFresh'
  BY <1>1
<1> QED BY <1>1, <1>2, <1>3, <1>4

\* So does append's load: its key is fresh.
LEMMA CreateKeyInv ==
  ASSUME StoreInv, NEW t \in Thread, NEW k \in Key, CreateKey(t, k)
  PROVE  StoreInv'
<1> USE StepNames DEF StoreInv, TypeOK, HolderIsCurrent, PendingIsFresh, RemovedStaysRemoved, Writing
<1>1. /\ req'[t].step \in {"append", "appendNew"}
      /\ req'[t].keys = file
      /\ req'[t].target = k
      /\ req'[t].step = "appendNew" => file = {}
      /\ req'[t].step = "append" => hasFile
      /\ \A u \in Thread \ {t} : req'[u] = req[u]
      /\ req' \in [Thread -> Request]
  BY DEF CreateKey, Opened, Request
<1>2. /\ lock = Nobody /\ lock' = t /\ k \notin used /\ used' = used \cup {k}
      /\ UNCHANGED <<hasFile, file, expired, kept, removed, overwritten>>
  BY DEF CreateKey
<1>3. TypeOK'
  BY <1>1, <1>2
<1>4. HolderIsCurrent'
  BY <1>1, <1>2
<1>5. PendingIsFresh'
  <2>1. \A u \in Thread : req[u].step \notin Writing
    BY <1>2
  <2>2. \A u \in Thread : k \notin req'[u].keys
    BY <1>1, <1>2
  <2> QED BY <1>1, <1>2, <2>1, <2>2
<1> QED BY <1>1, <1>2, <1>3, <1>4, <1>5

\* The constructor's write keeps the invariant: either nothing was stored, or
\* overwritten says so.
LEMMA WriteDefaultInv ==
  ASSUME StoreInv, NEW t \in Thread, WriteDefault(t)
  PROVE  StoreInv'
<1> USE StepNames DEF StoreInv, TypeOK, HolderIsCurrent, PendingIsFresh, RemovedStaysRemoved, Writing
<1>1. PICK purpose \in Purpose : /\ req[t].step = Create[purpose]
                                /\ req' = [req EXCEPT ![t].step = Then[purpose]]
  BY DEF WriteDefault
<1>2. /\ hasFile' = TRUE /\ file' = {} /\ overwritten' = (overwritten \/ file # {})
      /\ UNCHANGED <<lock, expired, used, kept, removed>>
  BY DEF WriteDefault
<1>3. /\ req'[t].step = Then[purpose]
      /\ req'[t].keys = {} /\ req'[t].target = req[t].target
      /\ \A u \in Thread : req'[u].keys = req[u].keys /\ req'[u].target = req[u].target
      /\ \A u \in Thread \ {t} : req'[u] = req[u]
      /\ req' \in [Thread -> Request]
  BY <1>1 DEF Request
<1>4. TypeOK'
  BY <1>2, <1>3
<1>5. HolderIsCurrent'
  <2>1. \A u \in Thread : req'[u].step \in Writing <=> req[u].step \in Writing
    BY <1>1, <1>3
  <2> QED BY <1>2, <1>3, <2>1
<1>6. PendingIsFresh'
  BY <1>1, <1>2, <1>3
<1> QED BY <1>1, <1>2, <1>3, <1>4, <1>5, <1>6

\* A request that ends without a write keeps the invariant.
LEMMA EndInv ==
  ASSUME StoreInv, NEW t \in Thread, End(t), UNCHANGED <<hasFile, file, expired, history>>
  PROVE  StoreInv'
<1> USE StepNames DEF StoreInv, TypeOK, HolderIsCurrent, PendingIsFresh, RemovedStaysRemoved, Writing, history
<1>1. /\ req'[t] = Idle
      /\ \A u \in Thread \ {t} : req'[u] = req[u]
      /\ Idle.step = "idle" /\ Idle.keys = {} /\ Idle \in Request
      /\ req' \in [Thread -> Request]
  BY DEF End, Idle, Request
<1>2. lock' = IF lock = t THEN Nobody ELSE lock
  BY DEF End
<1>3. TypeOK' /\ PendingIsFresh'
  BY <1>1, <1>2
<1>4. HolderIsCurrent'
  BY <1>1, <1>2
<1> QED BY <1>1, <1>2, <1>3, <1>4

\* The two saves keep it: the list they write is the current one but for the
\* key the request is about.
LEMMA SaveInv ==
  ASSUME StoreInv, NEW t \in Thread, Append(t) \/ Remove(t)
  PROVE  StoreInv'
<1> USE StepNames DEF StoreInv, TypeOK, HolderIsCurrent, PendingIsFresh, RemovedStaysRemoved, Writing
<1>1. /\ End(t) /\ req[t].step \in {"append", "remove"} /\ lock = t
      /\ UNCHANGED <<hasFile, expired, used, overwritten>>
  BY DEF Append, Remove
<1>2. /\ req'[t] = Idle
      /\ \A u \in Thread \ {t} : req'[u] = req[u] /\ req[u].step \notin Writing
      /\ Idle.step = "idle" /\ Idle.keys = {} /\ Idle \in Request
      /\ req' \in [Thread -> Request]
      /\ lock' = Nobody
  BY <1>1 DEF End, Idle, Request
<1>3. hasFile
  BY <1>1
<1>4. CASE Append(t)
  <2>1. /\ req[t].step = "append" /\ file' = req[t].keys \cup {req[t].target}
        /\ kept' = kept \cup {req[t].target} /\ UNCHANGED removed
    BY <1>4 DEF Append
  <2>2. /\ req[t].target \in used \ (file \cup kept \cup removed)
        /\ req[t].keys \cap removed = {}
        /\ ~overwritten => req[t].keys = file
    BY <1>1, <2>1
  <2>3. TypeOK'
    BY <1>1, <1>2, <2>1, <2>2
  <2>4. HolderIsCurrent' /\ PendingIsFresh'
    BY <1>1, <1>2
  <2> QED BY <1>1, <1>2, <1>3, <2>1, <2>2, <2>3, <2>4
<1>5. CASE Remove(t)
  <2>1. /\ req[t].step = "remove" /\ file' = req[t].keys \ Matches(t)
        /\ kept' = kept \ Matches(t) /\ removed' = removed \cup Matches(t)
    BY <1>5 DEF Remove
  <2>2. /\ Matches(t) \subseteq req[t].keys
        /\ req[t].keys \cap removed = {} /\ req[t].keys \subseteq used
        /\ ~overwritten => req[t].keys = file
    BY <1>1, <2>1 DEF Matches
  <2>3. TypeOK'
    BY <1>1, <1>2, <2>1, <2>2
  <2>4. HolderIsCurrent' /\ PendingIsFresh'
    BY <1>1, <1>2
  <2> QED BY <1>1, <1>2, <1>3, <2>1, <2>2, <2>3, <2>4
<1> QED BY <1>4, <1>5

\* StoreInv is inductive.
LEMMA NextStoreInv == StoreInv /\ [Next]_vars => StoreInv'
<1> SUFFICES ASSUME StoreInv, [Next]_vars PROVE StoreInv'
  OBVIOUS
<1> USE DEF Idle
<1>1. ASSUME NEW t \in Thread, Step(t) PROVE StoreInv'
  <2>1. ASSUME NEW k \in Key, Check(t, k) PROVE StoreInv'
    <3>1. req' = Opened(t, "check", AdminToken, k) /\ UNCHANGED <<hasFile, file, lock, expired, history>>
      BY <2>1 DEF Check
    <3>2. req[t].step = "idle"
      BY <2>1 DEF Check
    <3> QED BY <3>1, <3>2, OpenInv
  <2>2. ASSUME NEW k \in Key, CreateKey(t, k) PROVE StoreInv'
    BY <2>2, CreateKeyInv
  <2>3. ASSUME NEW s \in Key \cup {AdminToken}, NEW p \in Prefix, DeleteKey(t, s, p) PROVE StoreInv'
    <3>1. req' = Opened(t, "own", s, p) /\ UNCHANGED <<hasFile, file, lock, expired, history>>
      BY <2>3 DEF DeleteKey
    <3>2. req[t].step = "idle"
      BY <2>3 DEF DeleteKey
    <3> QED BY <3>1, <3>2, OpenInv
  <2>4. CASE WriteDefault(t)
    BY <2>4, WriteDefaultInv
  <2>5. CASE LoadForRemove(t)
    <3>1. /\ req' = Opened(t, "remove", req[t].subject, req[t].target)
          /\ UNCHANGED <<hasFile, file, expired, history>> /\ lock = Nobody /\ lock' = t
          /\ req[t].step = "ownChecked"
      BY <2>5 DEF LoadForRemove
    <3>2. req[t].subject \in Key \cup {AdminToken} /\ req[t].target \in Key \cup Prefix \cup {None}
      BY DEF StoreInv, TypeOK, Request
    <3> QED BY <3>1, <3>2, OpenInv
  <2>6. CASE Append(t) \/ Remove(t)
    BY <2>6, SaveInv
  <2>7. CASE WriteDefaultFails(t) \/ Answer(t) \/ RefuseOwnKey(t) \/ RefuseRemove(t) \/ SaveFails(t)
    BY <2>7, EndInv DEF WriteDefaultFails, Answer, RefuseOwnKey, RefuseRemove, SaveFails
  <2> QED BY <1>1, <2>1, <2>2, <2>3, <2>4, <2>5, <2>6, <2>7 DEF Step
<1>2. ASSUME NEW k \in Key, Expire(k) PROVE StoreInv'
  BY <1>2 DEF Expire, history, StoreInv, TypeOK, HolderIsCurrent, PendingIsFresh, RemovedStaysRemoved
<1>3. CASE Restart
  <2>1. Idle \in Request
    BY StepNames DEF Request
  <2> QED BY <1>3, <2>1, StepNames
    DEF Restart, history, StoreInv, TypeOK, HolderIsCurrent, PendingIsFresh, RemovedStaysRemoved, Writing
<1>4. CASE UNCHANGED vars
  BY <1>4 DEF vars, StoreInv, TypeOK, HolderIsCurrent, PendingIsFresh, RemovedStaysRemoved
<1> QED BY <1>1, <1>2, <1>3, <1>4 DEF Next

\* The lock, the lists under it and the callers' answers agree in every state.
THEOREM StoreInvariant == Spec => []StoreInv
BY InitStoreInv, NextStoreInv, PTL DEF Spec

\* A key whose creation was acknowledged is lost only to a constructor that
\* found no file.
THEOREM KeysAreKept == Spec => []KeptUnlessOverwritten
<1>1. StoreInv => KeptUnlessOverwritten
  BY DEF StoreInv, KeptUnlessOverwritten, AcknowledgedKept
<1> QED BY <1>1, StoreInvariant, PTL

\* A removed key never comes back.
THEOREM RemovalIsFinal == Spec => []RemovedStaysRemoved
<1>1. StoreInv => RemovedStaysRemoved
  BY DEF StoreInv
<1> QED BY <1>1, StoreInvariant, PTL

\* A key is deleted only when the store holds no other key of the prefix: the
\* list that was searched is not older than the file, because the request holds
\* the lock from its load to its save and readers only ever empty the file.
THEOREM RemovalIsUnambiguous == Spec => RemovesOnlyMatch
<1>1. ASSUME StoreInv, [Next]_vars, NEW t \in Thread, lock = t, removed' # removed
      PROVE  \E k \in Key : /\ removed' \ removed = {k}
                            /\ \A l \in file : req[t].target \in StartsWith[l] => l = k
  <2>1. PICK u \in Thread : Remove(u)
    BY <1>1 DEF Next, Step, vars, history, Restart, Expire, Check, CreateKey, DeleteKey, WriteDefault,
                WriteDefaultFails, Answer, RefuseOwnKey, LoadForRemove, Append, RefuseRemove, SaveFails
  <2>2. req[u].step = "remove" /\ removed' = removed \cup Matches(u)
    BY <2>1 DEF Remove
  <2>3. u = t
    BY <1>1, <2>2 DEF StoreInv, HolderIsCurrent, Writing
  <2>4. PICK k \in req[t].keys : Matches(t) = {k}
    BY <2>1, <2>3 DEF Remove, NamesOne
  <2>5. req[t].keys \cap removed = {} /\ file \subseteq req[t].keys /\ req[t].keys \subseteq Key
    BY <1>1, <2>2, <2>3 DEF StoreInv, HolderIsCurrent, Writing, TypeOK, Request
  <2>6. removed' \ removed = {k}
    BY <2>2, <2>3, <2>4, <2>5
  <2>7. \A l \in file : req[t].target \in StartsWith[l] => l = k
    BY <2>4, <2>5 DEF Matches
  <2> QED BY <2>5, <2>6, <2>7
<1>2. StoreInv /\ [Next]_vars
        => [\A t \in Thread : lock = t /\ removed' # removed =>
               \E k \in Key : /\ removed' \ removed = {k}
                             /\ \A l \in file : req[t].target \in StartsWith[l] => l = k]_vars
  BY <1>1
<1> QED BY <1>2, StoreInvariant, PTL DEF Spec, RemovesOnlyMatch

-------------------------------------------------------------------------------
(* The caller's own key                                                    *)

\* What a delete request knows of its own key: the list it checked had the key,
\* and what it goes on to remove does not name it, as long as the key is valid
\* and no constructor emptied the list.
KnowsOwn(t) ==
    /\ req[t].step \in {"ownNew", "ownChecked"} =>
          overwritten \/ req[t].subject \in {AdminToken} \cup removed \cup req[t].keys
    /\ req[t].step \in {"removeNew", "remove"} =>
          \/ overwritten
          \/ req[t].subject \in {AdminToken} \cup removed \cup expired
          \/ req[t].target \notin StartsWith[req[t].subject]

OwnInv == \A t \in Thread : KnowsOwn(t)

LEMMA InitOwn == Init => OwnInv
<1> SUFFICES ASSUME Init, NEW t \in Thread PROVE KnowsOwn(t)
  BY DEF OwnInv
<1>1. req[t] = Idle /\ Idle.step = "idle"
  BY DEF Init, Idle
<1> QED BY <1>1 DEF KnowsOwn

\* The histories only grow.
LEMMA HistoriesGrow ==
  ASSUME StoreInv, [Next]_vars
  PROVE  removed \subseteq removed' /\ expired \subseteq expired' /\ (overwritten => overwritten')
<1>1. removed \subseteq removed' /\ expired \subseteq expired'
  BY DEF Next, Step, vars, history, Restart, Expire, Check, CreateKey, DeleteKey, WriteDefault, WriteDefaultFails,
         Answer, RefuseOwnKey, LoadForRemove, Append, Remove, RefuseRemove, SaveFails
<1>2. ASSUME NEW t \in Thread, WriteDefault(t) PROVE overwritten => overwritten'
  BY <1>2 DEF WriteDefault
<1>3. (\A t \in Thread : ~WriteDefault(t)) => UNCHANGED overwritten
  BY DEF Next, Step, vars, history, Restart, Expire, Check, CreateKey, DeleteKey, WriteDefaultFails,
         Answer, RefuseOwnKey, LoadForRemove, Append, Remove, RefuseRemove, SaveFails
<1> QED BY <1>1, <1>2, <1>3

LEMMA NextOwn ==
  ASSUME StoreInv, [Next]_vars, NEW t \in Thread, KnowsOwn(t)
  PROVE  KnowsOwn(t)'
<1> USE StepNames
<1>0. req \in [Thread -> Request] /\ Idle.step = "idle"
  BY DEF StoreInv, TypeOK, Idle
<1>1. ASSUME req'[t].step = req[t].step, req'[t].subject = req[t].subject,
             req'[t].target = req[t].target, req'[t].keys = req[t].keys
      PROVE  KnowsOwn(t)'
  BY <1>1, HistoriesGrow DEF KnowsOwn
<1>2. ASSUME req'[t].step \notin {"ownNew", "ownChecked", "removeNew", "remove"} PROVE KnowsOwn(t)'
  BY <1>2 DEF KnowsOwn
<1>3. ASSUME NEW purpose \in Purpose, NEW s, NEW x, req' = Opened(t, purpose, s, x)
      PROVE  /\ req'[t].step \in {Then[purpose], Create[purpose]}
             /\ req'[t].keys = file /\ req'[t].subject = s /\ req'[t].target = x
  BY <1>0, <1>3 DEF Opened
<1>4. ASSUME NEW k \in Key, Check(t, k) \/ CreateKey(t, k) PROVE KnowsOwn(t)'
  BY <1>2, <1>3, <1>4 DEF Check, CreateKey
<1>5. ASSUME NEW s \in Key \cup {AdminToken}, NEW p \in Prefix, DeleteKey(t, s, p) PROVE KnowsOwn(t)'
  <2>1. req'[t].step \in {"ownNew", "ownChecked"} /\ req'[t].keys = file /\ req'[t].subject = s
    BY <1>3, <1>5 DEF DeleteKey
  <2>2. s \in kept \cup removed \cup {AdminToken} /\ (~overwritten => kept = file)
    BY <1>5 DEF DeleteKey, StoreInv
  <2>3. UNCHANGED <<removed, overwritten>>
    BY <1>5 DEF DeleteKey, history
  <2> QED BY <2>1, <2>2, <2>3 DEF KnowsOwn
<1>6. CASE WriteDefault(t)
  <2>1. PICK purpose \in Purpose : /\ req[t].step = Create[purpose]
                                   /\ req' = [req EXCEPT ![t].step = Then[purpose]]
    BY <1>6 DEF WriteDefault
  <2>2. /\ req'[t].step = Then[purpose] /\ req'[t].subject = req[t].subject
        /\ req'[t].target = req[t].target /\ req'[t].keys = req[t].keys
    BY <1>0, <2>1 DEF Request
  <2> QED BY <2>1, <2>2, HistoriesGrow DEF KnowsOwn
<1>7. CASE LoadForRemove(t)
  <2>1. /\ req'[t].step \in {"removeNew", "remove"} /\ req'[t].subject = req[t].subject
        /\ req'[t].target = req[t].target
    BY <1>3, <1>7 DEF LoadForRemove
  <2>2. req[t].step = "ownChecked" /\ ~NamesOwnKey(t) /\ UNCHANGED <<removed, expired, overwritten>>
    BY <1>7 DEF LoadForRemove, history
  <2> QED BY <2>1, <2>2 DEF KnowsOwn, NamesOwnKey, Valid
<1>8. ASSUME NEW u \in Thread, End(u) PROVE KnowsOwn(t)'
  <2>1. CASE u = t
    BY <1>0, <1>2, <1>8, <2>1 DEF End
  <2>2. CASE u # t
    BY <1>0, <1>1, <1>8, <2>2 DEF End
  <2> QED BY <2>1, <2>2
<1>9. ASSUME NEW u \in Thread, Step(u), u # t, ~End(u) PROVE KnowsOwn(t)'
  <2>1. req'[t] = req[t]
    BY <1>0, <1>9 DEF Step, Check, CreateKey, DeleteKey, Opened, WriteDefault, WriteDefaultFails, Answer,
                      RefuseOwnKey, LoadForRemove, Append, Remove, RefuseRemove, SaveFails
  <2> QED BY <1>1, <2>1
<1>10. CASE Step(t)
  BY <1>4, <1>5, <1>6, <1>7, <1>8, <1>10
     DEF Step, WriteDefaultFails, Answer, RefuseOwnKey, Append, Remove, RefuseRemove, SaveFails
<1>11. CASE Restart
  BY <1>0, <1>2, <1>11 DEF Restart
<1>12. ASSUME NEW k \in Key, Expire(k) PROVE KnowsOwn(t)'
  BY <1>1, <1>12 DEF Expire
<1>13. CASE UNCHANGED vars
  BY <1>1, <1>13 DEF vars
<1> QED BY <1>8, <1>9, <1>10, <1>11, <1>12, <1>13 DEF Next

\* A request does not delete the valid key it is authenticated with, whatever
\* came between its check and its removal.
THEOREM OwnKeyIsSafe == Spec => OwnKeySurvives
<1>1. StoreInv /\ OwnInv /\ [Next]_vars => OwnInv'
  BY NextOwn DEF OwnInv
<1>2. ASSUME StoreInv, OwnInv, [Next]_vars,
             NEW t \in Thread, lock = t, req[t].subject \in removed' \ removed
      PROVE  req[t].subject \in expired \/ overwritten
  <2>1. PICK u \in Thread : Remove(u)
    BY <1>2 DEF Next, Step, vars, history, Restart, Expire, Check, CreateKey, DeleteKey, WriteDefault,
                WriteDefaultFails, Answer, RefuseOwnKey, LoadForRemove, Append, RefuseRemove, SaveFails
  <2>2. req[u].step = "remove" /\ removed' = removed \cup Matches(u)
    BY <2>1 DEF Remove
  <2>3. u = t
    BY <1>2, <2>2 DEF StoreInv, HolderIsCurrent, Writing
  <2>4. req[t].subject \in req[t].keys /\ req[t].target \in StartsWith[req[t].subject]
    BY <1>2, <2>2, <2>3 DEF Matches
  <2>5. req[t].subject # AdminToken
    <3>1. req[t] \in Request
      BY <1>2 DEF StoreInv, TypeOK
    <3> QED BY <2>4, <3>1 DEF Request
  <2> QED BY <1>2, <2>2, <2>3, <2>4, <2>5 DEF OwnInv, KnowsOwn
<1>3. StoreInv /\ OwnInv /\ [Next]_vars
        => [\A t \in Thread : lock = t /\ req[t].subject \in removed' \ removed
               => req[t].subject \in expired \/ overwritten]_vars
  BY <1>2
<1>4. Spec => []OwnInv
  BY InitOwn, <1>1, StoreInvariant, PTL DEF Spec
<1> QED BY <1>3, <1>4, StoreInvariant, PTL DEF Spec, OwnKeySurvives
===============================================================================
