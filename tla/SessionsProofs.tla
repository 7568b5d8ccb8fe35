---------------------------- MODULE SessionsProofs ----------------------------
(***************************************************************************)
(* For any browsers, requests, ids and tokens: an ended session stays ended *)
(* unless a race was recorded, an id stands for one token, a session that   *)
(* is not too old is kept, and a whole cleanup leaves nothing too old.      *)
(***************************************************************************)
EXTENDS Sessions, TLAPS

USE SessionsAssumption DEF SessionsAssumption

LEMMA InitInv == Init => SessionsInv
  <1> SUFFICES ASSUME Init PROVE SessionsInv
    OBVIOUS
  <1> USE DEF Init, Idle, AtRest
  <1>1. TypeOK
    BY DEF TypeOK, RequestOf, Steps
  <1>2. EndedStaysEnded /\ NobodyHoldsEnded /\ IdsAreKnown /\ NewIdIsPrivate /\ HoldersAgree
    BY DEF EndedStaysEnded, NobodyHoldsEnded, IdsAreKnown, NewIdIsPrivate, HoldersAgree, Holds, Loading
  <1>3. FoundIsOld /\ Unvisited
    BY DEF FoundIsOld, Unvisited, TooOld
  <1> QED BY <1>1, <1>2, <1>3 DEF SessionsInv

-------------------------------------------------------------------------------
(* Types                                                                   *)

\* A request becomes another one, while ids are only added.
LEMMA TypeBecomes ==
  ASSUME TypeOK, NEW q \in Request, NEW r, Becomes(q, r),
         used \subseteq used', r \in RequestOf(used')
  PROVE  req' \in [Request -> RequestOf(used')]
  <1>1. \A x \in RequestOf(used) : x \in RequestOf(used')
    BY DEF RequestOf
  <1> QED BY <1>1 DEF TypeOK, Becomes

LEMMA TypeUnlink == ASSUME TypeOK, NEW i, Unlink(i) PROVE file' \in [Id -> File \cup {None}]
  BY DEF TypeOK, Unlink

LEMMA TypeHandle == ASSUME TypeOK, NEW q \in Request, Handle(q) PROVE TypeOK'
  <1> USE DEF store, history
  <1>0. req[q] \in RequestOf(used)
    BY DEF TypeOK
  <1>1. ASSUME NEW r \in RequestOf(used), Becomes(q, r), UNCHANGED <<store, valid, cookie, cleanup, history>>
        PROVE  TypeOK'
    BY <1>1, TypeBecomes DEF TypeOK, File
  <1>2. ASSUME NEW d \in Token \cup {None}, NEW s \in Steps, NEW k \in Token \cup {None}
        PROVE  [req[q] EXCEPT !.step = s, !.data = d, !.key = k] \in RequestOf(used)
    BY <1>0 DEF RequestOf
  <1>3. ASSUME NEW d \in Token \cup {None}, NEW s \in Steps
        PROVE  /\ [req[q] EXCEPT !.step = s, !.data = d] \in RequestOf(used)
               /\ [req[q] EXCEPT !.step = s] \in RequestOf(used)
    BY <1>0 DEF RequestOf
  <1>4. req[q].data \in Token \cup {None} /\ req[q].key \in Token \cup {None}
    BY <1>0 DEF RequestOf
  <1>5. Resolved(req[q].data) \in Token \cup {None} /\ Resolved(req[q].key) \in Token \cup {None}
    BY <1>4 DEF Resolved
  <1>6. CASE Pass(q)
    BY <1>6, <1>1, <1>3, <1>4, <1>5 DEF Pass, Steps
  <1>7. CASE SignOut(q)
    BY <1>7, <1>1, <1>3 DEF SignOut, Steps
  <1>8. ASSUME NEW d \in Token \cup {None}, Regenerate(q, d) PROVE TypeOK'
    <2>1. PICK i \in Id : /\ used' = used \cup {i}
                          /\ Becomes(q, [req[q] EXCEPT !.step = "rotate", !.id = i, !.previous = req[q].id,
                                                       !.data = d, !.key = None])
      BY <1>8 DEF Regenerate
    <2>2. [req[q] EXCEPT !.step = "rotate", !.id = i, !.previous = req[q].id, !.data = d, !.key = None]
            \in RequestOf(used')
      BY <2>1, <1>0 DEF RequestOf, Steps
    <2>3. req' \in [Request -> RequestOf(used')]
      BY <2>1, <2>2, TypeBecomes
    <2> QED BY <1>8, <2>1, <2>3 DEF Regenerate, TypeOK, File
  <1>9. CASE CreateFromHeader(q)
    BY <1>9, <1>8, <1>5 DEF CreateFromHeader
  <1>10. ASSUME NEW t \in Token, CheckHeader(q, t) PROVE TypeOK'
    BY <1>10, <1>1, <1>2, <1>3 DEF CheckHeader, Accepts, Steps
  <1>11. ASSUME NEW t \in Token, SignIn(q, t) PROVE TypeOK'
    BY <1>11, <1>1, <1>3, <1>8 DEF SignIn, Goto, Becomes, Steps
  <1> QED BY <1>6, <1>7, <1>9, <1>10, <1>11 DEF Handle

LEMMA TypeFinish ==
  ASSUME TypeOK, IdsAreKnown, NEW q \in Request, Finish(q) PROVE TypeOK'
  <1> USE DEF store, history
  <1>0. req[q] \in RequestOf(used)
    BY DEF TypeOK
  <1>1. ASSUME NEW r \in RequestOf(used), Becomes(q, r), UNCHANGED <<cleanup, now, valid, used>>,
               file' \in [Id -> File \cup {None}], cookie' \in [Browser -> used \cup {None}],
               ended' \subseteq used, raced' \subseteq used \cup {None}, rewritten' \subseteq used
        PROVE  TypeOK'
    BY <1>1, TypeBecomes DEF TypeOK, File
  <1>2. Idle \in RequestOf(used)
    BY DEF Idle, RequestOf, Steps
  <1>3. ASSUME NEW s \in Steps PROVE [req[q] EXCEPT !.step = s] \in RequestOf(used)
    BY <1>0 DEF RequestOf
  <1>4. ASSUME NEW i \in used \cup {None}
        PROVE  /\ Answering(q, i) \in RequestOf(used)
               /\ Ends(q, i) => /\ ended' \subseteq used /\ raced' \subseteq used \cup {None}
                                /\ rewritten' \subseteq used /\ used' = used
    <2>1. Answering(q, i) \in RequestOf(used)
      BY <1>0 DEF Answering, Idle, RequestOf, Steps
    <2> QED BY <2>1 DEF Ends, TypeOK
  <1>5. req[q].id \in used \cup {None} /\ req[q].previous \in used \cup {None} /\ req[q].data \in Token \cup {None}
    BY <1>0 DEF RequestOf
  <1>6. CASE Stat(q)
    BY <1>6, <1>1, <1>3 DEF Stat, Goto, Becomes, Steps, TypeOK
  <1>7. CASE Expire(q)
    BY <1>7, <1>1, <1>3, TypeUnlink DEF Expire, Goto, Becomes, Steps, TypeOK
  <1>8. CASE Read(q)
    <2> DEFINE f == file[req[q].id]
               r == [req[q] EXCEPT !.step = "handle", !.had = f # None,
                                   !.data = IF f = None THEN None ELSE f.subject]
    <2>1. req[q].id \in Id
      BY <1>8, <1>5 DEF Read, IdsAreKnown, Loading, TypeOK
    <2>2. f # None => f.subject \in Token
      BY <2>1 DEF TypeOK, File
    <2>3. r \in RequestOf(used)
      BY <2>2, <1>0 DEF RequestOf, Steps
    <2>4. Becomes(q, r)
      BY <1>8 DEF Read
    <2> HIDE DEF r
    <2> QED BY <1>8, <2>3, <2>4, <1>1 DEF Read, TypeOK
  <1>9. CASE Handle(q)
    BY <1>9, TypeHandle
  <1>10. CASE Rotate(q)
    <2>1. [req[q] EXCEPT !.step = "save", !.previous = None] \in RequestOf(used)
      BY <1>0 DEF RequestOf, Steps
    <2> QED BY <1>10, <2>1, <1>1, <1>4, <1>5, TypeUnlink DEF Rotate, RemovePrevious, TypeOK
  <1>11. CASE Save(q)
    <2>1. req[q].id \in used /\ req[q].data \in Token
      BY <1>11, <1>5 DEF Save, IdsAreKnown
    <2>2. file' \in [Id -> File \cup {None}] /\ rewritten' \subseteq used
      BY <1>11, <2>1 DEF Save, Write, File, TypeOK
    <2> QED BY <1>11, <2>2, <1>1, <1>4, <1>5 DEF Save, Write, TypeOK
  <1>12. CASE Destroy(q)
    BY <1>12, <1>1, <1>4, <1>5, TypeUnlink DEF Destroy, TypeOK
  <1>13. CASE LeaveSession(q)
    BY <1>13, <1>1, <1>2 DEF LeaveSession, TypeOK
  <1>14. CASE Answer(q)
    BY <1>14, <1>1, <1>2, <1>5 DEF Answer, TypeOK
  <1> QED BY <1>6, <1>7, <1>8, <1>9, <1>10, <1>11, <1>12, <1>13, <1>14 DEF Finish

LEMMA TypeStep == ASSUME SessionsInv, [Next]_vars PROVE TypeOK'
  <1> USE DEF store, history
  <1>0. TypeOK /\ IdsAreKnown
    BY DEF SessionsInv
  <1>1. ASSUME NEW q \in Request, Finish(q) PROVE TypeOK'
    BY <1>0, <1>1, TypeFinish
  <1>2. ASSUME NEW q \in Request, NEW b \in Browser, Send(q, b) PROVE TypeOK'
    <2>1. cookie[b] \in used \cup {None}
      BY <1>0 DEF TypeOK
    <2>2. [Idle EXCEPT !.step = IF cookie[b] = None THEN "handle" ELSE "stat", !.from = b, !.id = cookie[b]]
            \in RequestOf(used)
      BY <2>1 DEF Idle, RequestOf, Steps
    <2> QED BY <1>2, <2>2, <1>0, TypeBecomes DEF Send, TypeOK, File
  <1>3. CASE Cleanup
    <2> USE <1>0 DEF TypeOK, File, RequestOf, AtRest
    <2>1. CASE CleanupBegin
      BY <2>1 DEF CleanupBegin, Existing
    <2>2. CASE CleanupUnlink
      BY <2>2, TypeUnlink DEF CleanupUnlink
    <2>3. CASE CleanupRaises
      BY <2>3 DEF CleanupRaises
    <2>4. ASSUME NEW i \in Id, CleanupStat(i) PROVE TypeOK'
      BY <2>4 DEF CleanupStat
    <2> QED BY <1>3, <2>1, <2>2, <2>3, <2>4 DEF Cleanup
  <1>4. ASSUME NEW t \in Token, Revoke(t) PROVE TypeOK'
    BY <1>0, <1>4 DEF Revoke, TypeOK, File, RequestOf
  <1>5. CASE Tick
    BY <1>0, <1>5 DEF Tick, TypeOK, File, RequestOf
  <1>6. CASE Restart
    <2>1. Idle \in RequestOf(used)
      BY DEF Idle, RequestOf, Steps
    <2> QED BY <1>0, <1>6, <2>1 DEF Restart, TypeOK, File, RequestOf, AtRest
  <1>7. CASE UNCHANGED vars
    BY <1>0, <1>7 DEF vars, TypeOK, File, RequestOf
  <1> QED BY <1>1, <1>2, <1>3, <1>4, <1>5, <1>6, <1>7 DEF Next

-------------------------------------------------------------------------------
(* Requests                                                                *)

\* What SessionsInv says beyond the types.
Sound ==
    /\ EndedStaysEnded /\ NobodyHoldsEnded
    /\ IdsAreKnown /\ NewIdIsPrivate /\ HoldersAgree
    /\ FoundIsOld /\ Unvisited

\* A step of one request that changes nothing else, makes no new id, and
\* takes its data from what it has or from the file.
LEMMA QuietStep ==
  ASSUME SessionsInv, NEW q \in Request, NEW r \in RequestOf(used), Becomes(q, r),
         UNCHANGED <<file, now, cookie, cleanup, history>>,
         r.step # "rotate", r.previous = None \/ r.previous = req[q].previous,
         r.id = None \/ r.id = req[q].id \/ \E b \in Browser : r.id = cookie[b],
         req[q].step # "rotate",
         r.data # None /\ r.step \in {"handle", "save"} =>
            \/ Holds(q, r.id) /\ r.data = req[q].data
            \/ file[r.id] # None /\ r.data = file[r.id].subject,
         r.step \in Loading \/ r.had \/ r.data # None => r.id # None,
         r.step \in Loading => r.data = None,
         r.step = "expire" /\ file[r.id] # None => TooOld(file[r.id], now)
  PROVE  Sound'
  <1> USE DEF SessionsInv, history
  <1>0. /\ req[q] \in RequestOf(used) /\ req'[q] = r
        /\ \A p \in Request \ {q} : req'[p] = req[p]
        /\ file' = file /\ now' = now /\ cookie' = cookie /\ cleanup' = cleanup
        /\ used' = used /\ ended' = ended /\ raced' = raced /\ rewritten' = rewritten
    BY DEF TypeOK, Becomes
  <1>1. \A i : Holds(q, i)' => Holds(q, i) \/ file[i] # None
    BY <1>0 DEF Holds
  <1>2. \A i : \A p \in Request \ {q} : Holds(p, i)' => Holds(p, i)
    BY <1>0 DEF Holds
  <1>3. EndedStaysEnded'
    BY <1>0 DEF EndedStaysEnded
  <1>8. NobodyHoldsEnded'
    <2>1. SUFFICES ASSUME NEW i \in ended \ raced, NEW p \in Request PROVE ~Holds(p, i)'
      BY <1>0 DEF NobodyHoldsEnded
    <2>2. file[i] = None /\ ~Holds(q, i) /\ ~Holds(p, i)
      BY DEF EndedStaysEnded, NobodyHoldsEnded
    <2>3. CASE p = q
      BY <2>2, <2>3, <1>1
    <2>4. CASE p # q
      BY <2>2, <2>4, <1>0 DEF Holds
    <2> QED BY <2>3, <2>4
  <1>4. IdsAreKnown'
    BY <1>0 DEF IdsAreKnown
  <1>5. NewIdIsPrivate'
    BY <1>0 DEF NewIdIsPrivate
  <1>6. HoldersAgree'
    BY <1>0, <1>1, <1>2 DEF HoldersAgree, Holds
  <1>7. FoundIsOld' /\ Unvisited'
    BY <1>0 DEF FoundIsOld, FoundTooOld, Unvisited, TooOld
  <1> QED BY <1>3, <1>4, <1>5, <1>6, <1>7, <1>8 DEF Sound

LEMMA SendStep == ASSUME SessionsInv, NEW q \in Request, NEW b \in Browser, Send(q, b) PROVE Sound'
  <1> DEFINE r == [Idle EXCEPT !.step = IF cookie[b] = None THEN "handle" ELSE "stat", !.from = b, !.id = cookie[b]]
  <1>1. cookie[b] \in used \cup {None}
    BY DEF SessionsInv, TypeOK
  <1>2. /\ r \in RequestOf(used) /\ r.step \in {"handle", "stat"} /\ (r.step = "stat" => r.id # None)
        /\ r.previous = None /\ r.id = cookie[b] /\ r.data = None /\ ~r.had
    BY <1>1 DEF Idle, RequestOf, Steps
  <1>3. Becomes(q, r) /\ req[q].step = "idle" /\ UNCHANGED <<file, now, cookie, cleanup, history>>
    BY DEF Send, store
  <1> HIDE DEF r
  <1> QED BY <1>2, <1>3, QuietStep DEF Loading

LEMMA LoadStep == ASSUME SessionsInv, NEW q \in Request, Stat(q) \/ Read(q) PROVE Sound'
  <1>0. req[q] \in RequestOf(used)
    BY DEF SessionsInv, TypeOK
  <1> DEFINE f == file[req[q].id]
  <1>1. CASE Stat(q)
    <2> DEFINE s == IF f = None THEN "handle" ELSE IF TooOld(f, now) THEN "expire" ELSE "read"
               r == [req[q] EXCEPT !.step = s]
    <2>1. s \in {"handle", "expire", "read"} /\ (s = "expire" => TooOld(f, now))
      OBVIOUS
    <2>2. Becomes(q, r) /\ req[q].step = "stat" /\ UNCHANGED <<file, now, cookie, cleanup, history>>
      BY <1>1 DEF Stat, Goto, Becomes, store
    <2>3. req[q].data = None
      BY <2>2 DEF SessionsInv, IdsAreKnown, Loading
    <2> HIDE DEF s
    <2>4. /\ r \in RequestOf(used) /\ r.step = s /\ r.id = req[q].id /\ r.data = None
          /\ r.previous = req[q].previous
      BY <2>1, <2>3, <1>0 DEF RequestOf, Steps
    <2>5. req[q].id # None
      BY <2>2 DEF SessionsInv, IdsAreKnown, Loading
    <2> HIDE DEF r
    <2> QED BY <2>1, <2>2, <2>4, <2>5, QuietStep DEF Loading
  <1>2. CASE Read(q)
    <2> DEFINE r == [req[q] EXCEPT !.step = "handle", !.had = f # None,
                                   !.data = IF f = None THEN None ELSE f.subject]
    <2>1. req[q].id # None /\ req[q].id \in Id /\ Becomes(q, r) /\ req[q].step = "read"
      BY <1>2, <1>0 DEF Read, SessionsInv, IdsAreKnown, Loading, TypeOK, RequestOf
    <2>2. f # None => f.subject \in Token
      BY <2>1 DEF SessionsInv, TypeOK, File
    <2>3. /\ r \in RequestOf(used) /\ r.step = "handle" /\ r.id = req[q].id /\ r.previous = req[q].previous
          /\ r.data # None => f # None /\ r.data = f.subject
      BY <2>2, <1>0 DEF RequestOf, Steps
    <2>4. UNCHANGED <<file, now, cookie, cleanup, history>>
      BY <1>2 DEF Read, store
    <2> HIDE DEF r
    <2> QED BY <2>1, <2>3, <2>4, QuietStep DEF Loading
  <1> QED BY <1>1, <1>2

\* The steps of the handler that leave the id alone, and the end of a request
\* with nothing saved.
LEMMA HandleStep ==
  ASSUME SessionsInv, NEW q \in Request, NEW t,
         \/ Pass(q) \/ SignOut(q) \/ LeaveSession(q)
         \/ t \in Token /\ (CheckHeader(q, t) \/ (SignIn(q, t) /\ t \notin valid))
  PROVE  Sound'
  <1>0. /\ req[q] \in RequestOf(used) /\ (req[q].data # None \/ req[q].had => req[q].id # None)
        /\ Idle \in RequestOf(used)
    BY DEF SessionsInv, TypeOK, IdsAreKnown, RequestOf, Idle, Steps
  <1>1. UNCHANGED <<file, now, cookie, cleanup, history>>
    BY DEF Pass, SignOut, CheckHeader, Accepts, LeaveSession, SignIn, store
  <1>2. ASSUME NEW d \in {req[q].data, None}, NEW s \in {"save", "create"}, NEW k \in Token \cup {None},
               req[q].step = "handle", Becomes(q, [req[q] EXCEPT !.step = s, !.data = d, !.key = k])
        PROVE  Sound'
    <2> DEFINE r == [req[q] EXCEPT !.step = s, !.data = d, !.key = k]
    <2>1. /\ r \in RequestOf(used) /\ r.step = s /\ r.data = d /\ r.id = req[q].id
          /\ r.previous = req[q].previous /\ r.had = req[q].had
      BY <1>0 DEF RequestOf, Steps
    <2>2. d # None => Holds(q, r.id) /\ d = req[q].data
      BY <1>2, <2>1 DEF Holds
    <2>5. Becomes(q, r)
      BY <1>2
    <2> HIDE DEF r
    <2>3. r.step \notin Loading
      BY <2>1 DEF Loading
    <2>4. r.step # "rotate" /\ req[q].step # "rotate"
      BY <1>2, <2>1
    <2> QED BY <1>0, <1>1, <2>1, <2>2, <2>3, <2>4, <2>5, QuietStep
  <1>3. ASSUME NEW d \in {req[q].data, None}, req[q].step = "handle", Becomes(q, [req[q] EXCEPT !.step = "save", !.data = d])
        PROVE  Sound'
    <2>1. [req[q] EXCEPT !.step = "save", !.data = d] = [req[q] EXCEPT !.step = "save", !.data = d, !.key = req[q].key]
      BY <1>0 DEF RequestOf
    <2>2. req[q].key \in Token \cup {None}
      BY <1>0 DEF RequestOf
    <2>3. Becomes(q, [req[q] EXCEPT !.step = "save", !.data = d, !.key = req[q].key])
      BY <1>3, <2>1
    <2>4. "save" \in {"save", "create"} /\ req[q].step = "handle"
      BY <1>3
    <2> QED BY <2>2, <2>3, <2>4, <1>2
  <1>4. CASE Pass(q)
    BY <1>4, <1>3 DEF Pass, Resolved
  <1>5. CASE SignOut(q)
    BY <1>5, <1>3 DEF SignOut
  <1>6. CASE t \in Token /\ CheckHeader(q, t)
    BY <1>6, <1>2, <1>3 DEF CheckHeader, Accepts
  <1>7. CASE t \in Token /\ SignIn(q, t) /\ t \notin valid
    <2>1. [req[q] EXCEPT !.step = "save"] = [req[q] EXCEPT !.step = "save", !.data = req[q].data]
      BY <1>0 DEF RequestOf
    <2> QED BY <2>1, <1>7, <1>3 DEF SignIn, Goto, Becomes
  <1>8. CASE LeaveSession(q)
    <2>1. Becomes(q, Idle) /\ req[q].step = "save"
      BY <1>8 DEF LeaveSession
    <2>2. /\ Idle.step = "idle" /\ Idle.id = None /\ Idle.previous = None /\ Idle.data = None /\ ~Idle.had
          /\ Idle.step \notin Loading
      BY DEF Idle, Loading
    <2> QED BY <2>1, <2>2, <1>0, <1>1, QuietStep
  <1> QED BY <1>4, <1>5, <1>6, <1>7, <1>8

LEMMA AnswerStep == ASSUME SessionsInv, NEW q \in Request, Answer(q) PROVE Sound'
  <1> USE DEF SessionsInv, store, history
  <1>0. /\ req[q].step = "answer" /\ req'[q] = Idle
        /\ \A p \in Request \ {q} : req'[p] = req[p]
        /\ UNCHANGED <<file, now, cleanup, used, ended, raced, rewritten>>
    BY DEF Answer, TypeOK, Becomes
  <1>2. EndedStaysEnded' /\ NobodyHoldsEnded'
    BY <1>0 DEF EndedStaysEnded, NobodyHoldsEnded, Holds, Idle
  <1>6. HoldersAgree'
    BY <1>0 DEF HoldersAgree, Holds, Idle
  <1>3. IdsAreKnown'
    BY <1>0 DEF IdsAreKnown, Idle, Loading
  <1>4. NewIdIsPrivate'
    <2>1. \A b \in Browser : cookie'[b] = cookie[b] \/ cookie'[b] = req[q].id
      BY DEF Answer, TypeOK
    <2>2. SUFFICES ASSUME NEW p \in Request \ {q}, req[p].step = "rotate"
                   PROVE  LET i == req[p].id
                          IN  /\ i # None /\ file[i] = None /\ i \notin ended /\ i # req[p].previous
                              /\ \A b \in Browser : cookie'[b] # i
                              /\ \A r \in Request \ {p} : i \notin {req'[r].id, req'[r].previous}
      BY <1>0 DEF NewIdIsPrivate, Idle
    <2> QED BY <1>0, <2>1, <2>2 DEF NewIdIsPrivate, Idle
  <1>5. FoundIsOld' /\ Unvisited'
    BY <1>0 DEF FoundIsOld, FoundTooOld, Unvisited, TooOld, Idle
  <1> QED BY <1>2, <1>3, <1>4, <1>5, <1>6 DEF Sound

LEMMA RegenerateStep ==
  ASSUME SessionsInv, NEW q \in Request, NEW d \in Token \cup {None}, Regenerate(q, d) PROVE Sound'
  <1> USE DEF SessionsInv, store, history
  <1>1. PICK i \in Id : /\ i \notin used /\ used' = used \cup {i}
                        /\ Becomes(q, [req[q] EXCEPT !.step = "rotate", !.id = i, !.previous = req[q].id,
                                                     !.data = d, !.key = None])
    BY DEF Regenerate, NewId
  <1>2. /\ req[q] \in RequestOf(used) /\ i # None /\ req[q].id # i
        /\ file[i] = None /\ i \notin ended /\ \A b \in Browser : cookie[b] # i
        /\ \A r \in Request : i \notin {req[r].id, req[r].previous}
    BY <1>1 DEF TypeOK, RequestOf, IdsAreKnown
  <1>3. /\ req'[q].step = "rotate" /\ req'[q].id = i /\ req'[q].previous = req[q].id
        /\ \A r \in Request \ {q} : req'[r] = req[r]
        /\ UNCHANGED <<file, now, cookie, cleanup, ended, raced, rewritten>>
    BY <1>1, <1>2 DEF Regenerate, Becomes, TypeOK, RequestOf
  <1>4. EndedStaysEnded' /\ NobodyHoldsEnded'
    BY <1>3 DEF EndedStaysEnded, NobodyHoldsEnded, Holds
  <1>5. IdsAreKnown'
    BY <1>1, <1>2, <1>3 DEF IdsAreKnown, Loading
  <1>6. NewIdIsPrivate'
    BY <1>2, <1>3 DEF NewIdIsPrivate
  <1>7. HoldersAgree'
    BY <1>3 DEF HoldersAgree, Holds
  <1>8. FoundIsOld' /\ Unvisited'
    BY <1>3 DEF FoundIsOld, FoundTooOld, Unvisited, TooOld
  <1> QED BY <1>4, <1>5, <1>6, <1>7, <1>8 DEF Sound

\* Files only go away; nothing starts to hold data, to be found too old, or to
\* be visited by the cleanup.
LEMMA ExpireStep == ASSUME SessionsInv, NEW q \in Request, Expire(q) PROVE Sound'
  <1> USE DEF SessionsInv, store, history
  <1>1. /\ req[q].step = "expire" /\ req[q].data = None /\ req[q].id # None
        /\ req' = [req EXCEPT ![q].step = "handle"]
        /\ UNCHANGED <<now, cookie, cleanup, used, ended, raced, rewritten>>
    BY DEF Expire, Goto, IdsAreKnown, Loading
  <1>2. /\ req'[q].step = "handle" /\ req'[q].data = None /\ req'[q].id = req[q].id
        /\ req'[q].previous = req[q].previous
        /\ \A r \in Request \ {q} : req'[r] = req[r]
    BY <1>1 DEF TypeOK, RequestOf
  <1>3. \A i \in Id : file'[i] = file[i] \/ file'[i] = None
    BY DEF Expire, Unlink
  <1>4. EndedStaysEnded'
    BY <1>1, <1>3 DEF EndedStaysEnded, TypeOK
  <1>5. NobodyHoldsEnded'
    BY <1>1, <1>2 DEF NobodyHoldsEnded, Holds
  <1>6. IdsAreKnown'
    BY <1>1, <1>2, <1>3 DEF IdsAreKnown, Loading
  <1>7. NewIdIsPrivate'
    <2>1. \A p \in Request : req[p].id \in Id \cup {None}
      BY DEF TypeOK, RequestOf
    <2> QED BY <1>1, <1>2, <1>3, <2>1 DEF NewIdIsPrivate
  <1>8. HoldersAgree'
    BY <1>2, <1>3 DEF HoldersAgree, Holds
  <1>9. FoundIsOld' /\ Unvisited'
    BY <1>1, <1>2, <1>3 DEF FoundIsOld, FoundTooOld, Unvisited, TooOld
  <1> QED BY <1>4, <1>5, <1>6, <1>7, <1>8, <1>9 DEF Sound

LEMMA SaveStep == ASSUME SessionsInv, NEW q \in Request, Save(q) PROVE Sound'
  <1> USE DEF SessionsInv, store, history
  <1> DEFINE i == req[q].id
  <1>1. /\ req[q].step = "save" /\ i \in Id /\ i # None /\ i \in used /\ Holds(q, i)
        /\ req'[q] = Answering(q, i)
        /\ \A r \in Request \ {q} : req'[r] = req[r]
        /\ UNCHANGED <<now, cookie, cleanup, used, ended, raced>>
        /\ rewritten' = IF FoundTooOld(i) THEN rewritten \cup {i} ELSE rewritten
    BY DEF Save, Write, Becomes, TypeOK, RequestOf, IdsAreKnown, Holds
  <1>2. /\ file'[i].subject = req[q].data /\ file'[i].mtime = now /\ now \in Nat
        /\ \A j \in Id \ {i} : file'[j] = file[j]
    BY <1>1 DEF Save, Write, TypeOK
  <1>3. /\ req'[q].step = "answer" /\ req'[q].data = None /\ req'[q].id = i
        /\ req'[q].previous = None /\ ~req'[q].had
    BY <1>1 DEF Answering, Idle
  <1>4. EndedStaysEnded' /\ NobodyHoldsEnded'
    <2>1. i \notin ended \ raced
      BY <1>1 DEF NobodyHoldsEnded
    <2> QED BY <2>1, <1>1, <1>2, <1>3 DEF EndedStaysEnded, NobodyHoldsEnded, Holds, TypeOK
  <1>5. IdsAreKnown'
    BY <1>1, <1>2, <1>3 DEF IdsAreKnown, Loading
  <1>6. NewIdIsPrivate'
    <2>1. SUFFICES ASSUME NEW p \in Request \ {q}, req[p].step = "rotate"
                   PROVE  /\ req[p].id # None /\ file'[req[p].id] = None /\ req[p].id \notin ended
                          /\ req[p].id # req[p].previous
                          /\ \A b \in Browser : cookie[b] # req[p].id
                          /\ \A r \in Request \ {p} : req[p].id \notin {req'[r].id, req'[r].previous}
      BY <1>1, <1>3 DEF NewIdIsPrivate
    <2>2. req[p].id \in Id \cup {None} /\ req[p].id # i
      BY <1>1, <2>1 DEF NewIdIsPrivate, TypeOK, RequestOf
    <2> QED BY <1>1, <1>2, <1>3, <2>1, <2>2 DEF NewIdIsPrivate
  <1>7. HoldersAgree'
    <2>1. SUFFICES ASSUME NEW j \in Id, NEW p \in Request \ {q}, Holds(p, j)
                   PROVE  /\ file'[j] # None => file'[j].subject = req[p].data
                          /\ \A r \in Request \ {q} : Holds(r, j) => req[r].data = req[p].data
      BY <1>1, <1>3 DEF HoldersAgree, Holds
    <2>2. CASE j = i
      BY <1>1, <1>2, <2>1, <2>2 DEF HoldersAgree
    <2>3. CASE j # i
      BY <1>1, <1>2, <2>1, <2>3 DEF HoldersAgree
    <2> QED BY <2>2, <2>3
  <1>8. FoundIsOld'
    <2>1. \A j \in Id : FoundTooOld(j)' => FoundTooOld(j)
      BY <1>1, <1>3 DEF FoundTooOld
    <2>2. SUFFICES ASSUME NEW j \in Id, FoundTooOld(j), file'[j] # None
                   PROVE  j \in rewritten' \/ TooOld(file'[j], now)
      BY <2>1, <1>1 DEF FoundIsOld, TooOld
    <2> QED BY <1>1, <1>2, <2>2 DEF FoundIsOld
  <1>9. Unvisited'
    <2>1. ~TooOld(file'[i], cleanup.began)
      BY <1>2 DEF TooOld, TypeOK, Unvisited
    <2> QED BY <2>1, <1>1, <1>2 DEF Unvisited, TooOld
  <1> QED BY <1>4, <1>5, <1>6, <1>7, <1>8, <1>9 DEF Sound

\* The request of q removes the file of i and means the session to end.
LEMMA EndStep ==
  ASSUME SessionsInv, NEW q \in Request, Rotate(q) \/ Destroy(q) PROVE Sound'
  <1> USE DEF SessionsInv, store, history
  <1> DEFINE i == IF req[q].step = "rotate" THEN req[q].previous ELSE req[q].id
  <1>1. /\ req[q].step \in {"rotate", "save"} /\ i \in used \cup {None}
        /\ Unlink(i) /\ Ends(q, i) /\ UNCHANGED <<now, cookie, cleanup>>
    BY DEF Rotate, RemovePrevious, Destroy, TypeOK, RequestOf
  <1>2. /\ req'[q].step \in {"save", "answer"} /\ req'[q].previous = None
        /\ req'[q].id \in {req[q].id, None}
        /\ req'[q].step = "save" => /\ req[q].step = "rotate" /\ req'[q].id = req[q].id /\ req'[q].id # i
                                    /\ req'[q].data = req[q].data /\ req'[q].had = req[q].had
                                    /\ file[req[q].id] = None /\ req[q].id \notin ended
                                    /\ \A r \in Request \ {q} : req[r].id # req[q].id
        /\ req'[q].step = "answer" => req'[q].data = None /\ ~req'[q].had
        /\ \A r \in Request \ {q} : req'[r] = req[r]
    <2>1. CASE Rotate(q)
      BY <2>1 DEF Rotate, Becomes, TypeOK, RequestOf, NewIdIsPrivate
    <2>2. CASE Destroy(q)
      BY <2>2 DEF Destroy, Becomes, TypeOK, RequestOf, Answering, Idle
    <2> QED BY <2>1, <2>2
  <1>3. \A j \in Id : file'[j] = IF j = i THEN None ELSE file[j]
    BY <1>1 DEF Unlink
  <1>4. /\ used' = used /\ rewritten' = rewritten /\ ended' = ended \cup ({i} \ {None})
        /\ raced \subseteq raced'
        /\ \A r \in Request \ {q} : Holds(r, i) => i \in raced'
    BY <1>1 DEF Ends
  <1> HIDE DEF i
  <1>5. EndedStaysEnded'
    BY <1>1, <1>3, <1>4 DEF EndedStaysEnded, TypeOK
  <1>6. NobodyHoldsEnded'
    <2>1. \A j : \A r \in Request \ {q} : Holds(r, j)' => Holds(r, j)
      BY <1>2 DEF Holds
    <2>2. SUFFICES ASSUME NEW j \in ended' \ raced', NEW r \in Request, Holds(r, j)' PROVE FALSE
      BY DEF NobodyHoldsEnded
    <2>3. CASE r = q
      BY <1>2, <1>4, <2>2, <2>3 DEF Holds
    <2>4. CASE r # q
      <3>1. Holds(r, j)
        BY <2>2, <2>4, <1>2 DEF Holds
      <3> QED BY <3>1, <2>2, <2>4, <1>4 DEF NobodyHoldsEnded
    <2> QED BY <2>3, <2>4
  <1>7. IdsAreKnown'
    <2>1. \A j \in Id : file'[j] # None => j \in used /\ file'[j].mtime <= now
      BY <1>3 DEF IdsAreKnown
    <2> QED BY <1>1, <1>2, <1>4, <2>1 DEF IdsAreKnown, Loading
  <1>8. NewIdIsPrivate'
    <2>1. SUFFICES ASSUME NEW p \in Request \ {q}, req[p].step = "rotate"
                   PROVE  /\ req[p].id # None /\ file'[req[p].id] = None /\ req[p].id \notin ended'
                          /\ req[p].id # req[p].previous
                          /\ \A b \in Browser : cookie[b] # req[p].id
                          /\ \A r \in Request \ {p} : req[p].id \notin {req'[r].id, req'[r].previous}
      BY <1>1, <1>2 DEF NewIdIsPrivate
    <2>2. req[p].id \in Id \cup {None} /\ req[p].id # i
      BY <2>1 DEF NewIdIsPrivate, TypeOK, RequestOf, i
    <2> QED BY <1>2, <1>3, <1>4, <2>1, <2>2 DEF NewIdIsPrivate
  <1>9. HoldersAgree'
    BY <1>2, <1>3 DEF HoldersAgree, Holds
  <1>10. FoundIsOld' /\ Unvisited'
    BY <1>1, <1>2, <1>3, <1>4 DEF FoundIsOld, FoundTooOld, Unvisited, TooOld
  <1> QED BY <1>5, <1>6, <1>7, <1>8, <1>9, <1>10 DEF Sound

-------------------------------------------------------------------------------
(* The cleanup and the rest                                                *)

LEMMA CleanupStep == ASSUME SessionsInv, Cleanup PROVE Sound'
  <1> USE DEF SessionsInv, store, history
  <1>1. /\ UNCHANGED <<req, now, cookie, used, ended, raced, rewritten>>
        /\ \A i \in Id : file'[i] = file[i] \/ file'[i] = None
    BY DEF Cleanup, CleanupBegin, CleanupStat, CleanupRaises, CleanupUnlink, Unlink
  <1>2. EndedStaysEnded' /\ NobodyHoldsEnded'
    BY <1>1 DEF EndedStaysEnded, NobodyHoldsEnded, Holds, TypeOK
  <1>3. IdsAreKnown'
    BY <1>1 DEF IdsAreKnown
  <1>4. NewIdIsPrivate'
    <2>1. \A p \in Request : req[p].id \in Id \cup {None}
      BY DEF TypeOK, RequestOf
    <2> QED BY <1>1, <2>1 DEF NewIdIsPrivate
  <1>5. HoldersAgree'
    BY <1>1 DEF HoldersAgree, Holds
  <1>6. cleanup.began \in Nat /\ now \in Nat /\ \A i \in Id : file[i] # None => file[i].mtime \in Nat
    BY DEF TypeOK, File
  <1>7. FoundIsOld' /\ Unvisited'
    <2>1. CASE CleanupBegin
      BY <1>1, <1>6, <2>1 DEF CleanupBegin, AtRest, Existing, FoundIsOld, FoundTooOld, Unvisited, TooOld
    <2>2. CASE CleanupRaises
      BY <1>1, <1>6, <2>2 DEF CleanupRaises, AtRest, FoundIsOld, FoundTooOld, Unvisited, TooOld
    <2>3. ASSUME NEW j \in Id, CleanupStat(j) PROVE FoundIsOld' /\ Unvisited'
      <3>1. /\ cleanup'.began = cleanup.began /\ cleanup'.todo = cleanup.todo \ {j}
            /\ cleanup'.doomed = IF TooOld(file[j], cleanup.began) THEN j ELSE None
            /\ cleanup.todo # {} /\ cleanup.doomed = None /\ file' = file
        BY <2>3 DEF CleanupStat, IsExpired, TypeOK
      <3>2. FoundIsOld'
        BY <1>1, <1>6, <3>1 DEF FoundIsOld, FoundTooOld, TooOld, Unvisited
      <3> QED BY <1>1, <3>1, <3>2 DEF Unvisited, TooOld
    <2>4. CASE CleanupUnlink
      <3>1. /\ cleanup'.began = cleanup.began /\ cleanup'.todo = cleanup.todo /\ cleanup'.doomed = None
            /\ file'[cleanup.doomed] = None /\ cleanup.doomed \in Id
        BY <2>4 DEF CleanupUnlink, TypeOK, Unlink
      <3> QED BY <1>1, <3>1, <2>4 DEF CleanupUnlink, FoundIsOld, FoundTooOld, Unvisited, TooOld
    <2> QED BY <2>1, <2>2, <2>3, <2>4 DEF Cleanup
  <1> QED BY <1>2, <1>3, <1>4, <1>5, <1>7 DEF Sound

LEMMA RestStep ==
  ASSUME SessionsInv, Tick \/ Restart \/ UNCHANGED vars \/ \E t \in Token : Revoke(t) PROVE Sound'
  <1> USE DEF SessionsInv, store, history
  <1>1. /\ UNCHANGED <<file, cookie, used, ended, raced, rewritten>>
        /\ now \in Nat /\ now' \in {now, now + 1}
        /\ cleanup' = cleanup \/ cleanup' = AtRest
        /\ \A q \in Request : req'[q] = req[q] \/ req'[q] = Idle
    BY DEF Tick, Restart, vars, Revoke, TypeOK
  <1>2. \A i \in Id : file[i] # None => file[i].mtime \in Nat
    BY DEF TypeOK, File
  <1>3. EndedStaysEnded' /\ NobodyHoldsEnded'
    BY <1>1 DEF EndedStaysEnded, NobodyHoldsEnded, Holds, Idle
  <1>4. IdsAreKnown'
    BY <1>1, <1>2 DEF IdsAreKnown, Idle, Loading
  <1>5. NewIdIsPrivate'
    BY <1>1 DEF NewIdIsPrivate, Idle
  <1>6. HoldersAgree'
    BY <1>1 DEF HoldersAgree, Holds, Idle
  <1>7. FoundIsOld'
    BY <1>1, <1>2 DEF FoundIsOld, FoundTooOld, TooOld, Idle, AtRest
  <1>8. Unvisited'
    BY <1>1, <1>2 DEF Unvisited, TooOld, AtRest, TypeOK
  <1> QED BY <1>3, <1>4, <1>5, <1>6, <1>7, <1>8 DEF Sound

LEMMA Inductive == ASSUME SessionsInv, [Next]_vars PROVE SessionsInv'
  <1>1. ASSUME NEW q \in Request, Finish(q) PROVE Sound'
    <2>1. CASE Stat(q) \/ Read(q)
      BY <2>1, LoadStep
    <2>2. CASE Expire(q)
      BY <2>2, ExpireStep
    <2>3. CASE Pass(q) \/ SignOut(q) \/ LeaveSession(q)
      <3>1. PICK t : t = None
        OBVIOUS
      <3> QED BY <2>3, <3>1, HandleStep
    <2>4. CASE CreateFromHeader(q)
      <3>1. Resolved(req[q].key) \in Token \cup {None}
        BY DEF Resolved, SessionsInv, TypeOK
      <3> QED BY <2>4, <3>1, RegenerateStep DEF CreateFromHeader
    <2>5. ASSUME NEW t \in Token, CheckHeader(q, t) PROVE Sound'
      <3>1. \/ Pass(q) \/ SignOut(q) \/ LeaveSession(q)
            \/ t \in Token /\ (CheckHeader(q, t) \/ (SignIn(q, t) /\ t \notin valid))
        BY <2>5
      <3> QED BY <3>1, HandleStep
    <2>6. ASSUME NEW t \in Token, SignIn(q, t) PROVE Sound'
      <3>1. CASE t \in valid
        <4>1. Regenerate(q, t) /\ t \in Token \cup {None}
          BY <2>6, <3>1 DEF SignIn
        <4> QED BY <4>1, RegenerateStep
      <3>2. CASE t \in Token /\ SignIn(q, t) /\ t \notin valid
        BY <3>2, HandleStep
      <3> QED BY <2>6, <3>1, <3>2
    <2>7. CASE Rotate(q) \/ Destroy(q)
      BY <2>7, EndStep
    <2>8. CASE Save(q)
      BY <2>8, SaveStep
    <2>9. CASE Answer(q)
      BY <2>9, AnswerStep
    <2> QED BY <1>1, <2>1, <2>2, <2>3, <2>4, <2>5, <2>6, <2>7, <2>8, <2>9 DEF Finish, Handle
  <1>2. Sound'
    BY <1>1, SendStep, CleanupStep, RestStep DEF Next
  <1> QED BY <1>2, TypeStep DEF Sound, SessionsInv

-------------------------------------------------------------------------------
(* Theorems                                                                *)

\* The inductive invariant holds for any number of requests and sign-ins: in
\* particular an ended session stays ended unless a race was recorded.
THEOREM SessionsInvariant == Spec => []SessionsInv
  <1>1. SessionsInv /\ [Next]_vars => SessionsInv'
    BY Inductive
  <1> QED BY <1>1, InitInv, PTL DEF Spec

\* An id stands for one token: no step gives the file of one to another.
THEOREM OneSubjectHolds == Spec => OneSubject
  <1>1. ASSUME SessionsInv, [Next]_vars
        PROVE  [\A i \in Id : file[i] # None /\ file'[i] # None => file'[i].subject = file[i].subject]_file
    <2> SUFFICES ASSUME NEW i \in Id, file[i] # None, file'[i] # None PROVE file'[i].subject = file[i].subject
      OBVIOUS
    <2>1. ASSUME NEW q \in Request, Save(q) PROVE file'[i].subject = file[i].subject
      <3>1. CASE i = req[q].id
        <4>1. Holds(q, i)
          BY <2>1, <3>1 DEF Save, Holds
        <4>2. file[i].subject = req[q].data
          BY <1>1, <4>1 DEF SessionsInv, HoldersAgree
        <4> QED BY <1>1, <4>2, <2>1, <3>1 DEF Save, Write, SessionsInv, TypeOK
      <3>2. CASE i # req[q].id
        BY <1>1, <2>1, <3>2 DEF Save, Write, SessionsInv, TypeOK
      <3> QED BY <3>1, <3>2
    <2>2. (\A q \in Request : ~Save(q)) => file'[i] = file[i]
      <3>1. ASSUME NEW q \in Request, Finish(q), ~Save(q) PROVE file'[i] = file[i]
        BY <3>1 DEF Finish, Handle, Stat, Expire, Read, Pass, SignOut, CreateFromHeader, CheckHeader, Accepts, SignIn,
                    Regenerate, Rotate, RemovePrevious, Destroy, LeaveSession, Answer, Unlink, store
      <3> QED BY <1>1, <3>1 DEF Next, Send, Cleanup, CleanupBegin, CleanupStat, CleanupRaises, CleanupUnlink,
                          Unlink, Revoke, Tick, Restart, vars, store
    <2> QED BY <2>1, <2>2
  <1> QED BY <1>1, SessionsInvariant, PTL DEF Spec, OneSubject

\* Files that are not too old go away only with their session's end, or in a
\* race with a renewal.
THEOREM LiveSessionsAreKept == Spec => LiveIsKept
  <1>1. ASSUME SessionsInv, [Next]_vars
        PROVE  [\A i \in Id : file[i] # None /\ ~TooOld(file[i], now) /\ file'[i] = None
                             => i \in ended' \cup rewritten]_vars
    <2> SUFFICES ASSUME NEW i \in Id, file[i] # None, ~TooOld(file[i], now), file'[i] = None, Next
                 PROVE  i \in ended' \cup rewritten
      BY <1>1 DEF vars, store
    <2>1. FoundTooOld(i) => i \in rewritten
      BY <1>1 DEF SessionsInv, FoundIsOld
    <2>2. ASSUME NEW q \in Request, Finish(q) PROVE i \in ended' \cup rewritten
      <3>1. CASE Expire(q)
        BY <2>1, <3>1 DEF Expire, Unlink, FoundTooOld
      <3>2. CASE Rotate(q) \/ Destroy(q)
        BY <1>1, <3>2 DEF Rotate, RemovePrevious, Destroy, Unlink, Ends, SessionsInv, TypeOK
      <3>3. CASE Save(q)
        <4>1. [subject |-> req[q].data, mtime |-> now] \in [subject : Token, mtime : 0..MaxNow]
          BY <1>1, <3>3 DEF Save, SessionsInv, TypeOK, RequestOf
        <4>2. file' = [file EXCEPT ![req[q].id] = [subject |-> req[q].data, mtime |-> now]]
          BY <3>3 DEF Save, Write
        <4> QED BY <1>1, <4>1, <4>2 DEF SessionsInv, TypeOK
      <3> QED BY <2>2, <3>1, <3>2, <3>3 DEF Finish, Handle, Stat, Read, Pass, SignOut, CreateFromHeader,
                 CheckHeader, Accepts, SignIn, Regenerate, LeaveSession, Answer, store
    <2>3. CASE Cleanup
      BY <2>1, <2>3 DEF Cleanup, CleanupBegin, CleanupStat, CleanupRaises, CleanupUnlink, Unlink, FoundTooOld, store
    <2> QED BY <2>2, <2>3 DEF Next, Send, Revoke, Tick, Restart, store
  <1> QED BY <1>1, SessionsInvariant, PTL DEF Spec, LiveIsKept

\* A cleanup that comes to its end leaves nothing that was too old when it began.
THEOREM WholeCleanup == Spec => SweptClean
  <1>1. ASSUME SessionsInv, [Next]_vars, CleanupUnlink \/ \E i \in Id : CleanupStat(i),
               cleanup'.todo = {}, cleanup'.doomed = None
        PROVE  \A i \in Id : ~TooOld(file'[i], cleanup.began)
    <2>1. SessionsInv' /\ Unvisited
      BY <1>1, Inductive DEF SessionsInv
    <2>2. CASE CleanupUnlink
      BY <1>1, <2>1, <2>2 DEF CleanupUnlink, Unlink, Unvisited, TooOld, SessionsInv, TypeOK
    <2>3. ASSUME NEW j \in Id, CleanupStat(j) PROVE \A i \in Id : ~TooOld(file'[i], cleanup.began)
      <3>1. file' = file /\ cleanup.todo \ {j} = {} /\ cleanup.doomed = None /\ ~TooOld(file[j], cleanup.began)
        BY <1>1, <2>3 DEF CleanupStat, IsExpired, SessionsInv, TypeOK, store
      <3> QED BY <2>1, <2>3, <3>1 DEF CleanupStat, Unvisited
    <2> QED BY <1>1, <2>2, <2>3
  <1>2. SessionsInv /\ [Next]_vars =>
          [(CleanupUnlink \/ \E i \in Id : CleanupStat(i)) /\ cleanup'.todo = {} /\ cleanup'.doomed = None
             => \A i \in Id : ~TooOld(file'[i], cleanup.began)]_vars
    BY <1>1
  <1> QED BY <1>2, SessionsInvariant, PTL DEF Spec, SweptClean
===============================================================================
