------------------------------ MODULE WardenStore ------------------------------
(***************************************************************************)
(* The wardens: their list in memory and in a file, the endpoints that add,  *)
(* change and delete them on pool threads, and the poll of InternalService   *)
(* that asks for the warden of each connected device, one device at a time.  *)
(* Addresses and host names of a device are one thing here, and the list of  *)
(* wardens on site, a persistent field, is what its file says.               *)
(***************************************************************************)
EXTENDS Naturals, Sequences, SequencesExt

CONSTANTS
    Name,       \* names of wardens
    Lower,      \* Name -> the name in lower case
    Device,
    DeviceSets, \* sets of devices a warden may be registered with
    Thread,     \* pool threads that serve a PUT
    MaxWardens, \* bound: length of the list
    MaxFailed,  \* bound: saves that fail in a row
    Nobody

ASSUME WardenAssumption ==
    /\ DeviceSets \subseteq SUBSET Device
    /\ MaxWardens \in Nat
    /\ MaxFailed \in Nat
    /\ Nobody \notin Name

Warden == [name : Name, devices : DeviceSets]

VARIABLES
    wardens,   \* the list in memory
    file,      \* the list on disk
    failed,    \* saves that failed since the last one that did not
    put,       \* thread -> the PUT it serves, between its lookup and its update
    matching,  \* the poll: connected devices, those not yet looked up, names found
    onSite,    \* names in the field wardens_on_site
    kept,      \* history: names (in lower case) that clients were told are stored
    gone,      \* history: names that clients were told are deleted
    clashed,   \* history: a warden was renamed to a name another one had
    matched    \* history: device -> names the store gave for it since the poll began

store == <<wardens, file, failed>>
told == <<kept, gone, clashed>>
wardenVars == <<store, put, matching, onSite, told, matched>>

Idle == [name |-> Nobody, updated |-> Nobody]
NoPoll == [step |-> "rest", connected |-> {}, todo |-> {}, found |-> {}]
Unmatched == [d \in Device |-> {}]

-------------------------------------------------------------------------------
(* Lookups                                                                 *)

\* Mutant: names are compared as they are written.
SameExactly(n, m) == n = m

Same(n, m) == Lower[n] = Lower[m]

\* The position of the first warden of that name, or 0.
Find(list, n) == SelectInSeq(list, LAMBDA w : Same(w.name, n))
Has(list, n) == Find(list, n) # 0

\* The name of the first warden with that device.
FirstOrNone(list, d) ==
    LET i == SelectInSeq(list, LAMBDA w : d \in w.devices)
    IN IF i = 0 THEN Nobody ELSE list[i].name

WardenInit ==
    /\ wardens = <<>>
    /\ file = <<>>
    /\ failed = 0
    /\ put = [t \in Thread |-> Idle]
    /\ matching = NoPoll
    /\ onSite = {}
    /\ kept = {}
    /\ gone = {}
    /\ clashed = FALSE
    /\ matched = Unmatched

-------------------------------------------------------------------------------
(* Writes, each under the store's write lock                               *)

\* The list in memory changes; then it is saved, or the save fails and the client
\* is told so.
Saved(list) == wardens' = list /\ file' = list /\ failed' = 0

\* Mutant: the file is written in place.
UnsavedTorn(list) ==
    /\ failed < MaxFailed
    /\ failed' = failed + 1
    /\ wardens' = list
    /\ file' = <<>>

Unsaved(list) ==
    /\ failed < MaxFailed
    /\ failed' = failed + 1
    /\ wardens' = list
    /\ UNCHANGED file

\* What the poll could be told from here on.
Observe ==
    matched' = [d \in Device |->
        IF d \in matching.connected THEN matched[d] \cup {FirstOrNone(wardens', d)} ELSE {}]

Add(w) ==
    /\ ~Has(wardens, w.name)
    /\ Len(wardens) < MaxWardens
    /\ gone' = gone \ {Lower[w.name]}
    /\ \/ Saved(Append(wardens, w)) /\ kept' = kept \cup {Lower[w.name]}
       \/ Unsaved(Append(wardens, w)) /\ UNCHANGED kept
    /\ Observe
    /\ UNCHANGED <<put, matching, onSite, clashed>>

\* Mutant: only the first warden of the name is deleted.
WithoutFirst(n) == RemoveAt(wardens, Find(wardens, n))

\* The wardens of other names, in their order.
Without(n) ==
    LET others[i \in 0..Len(wardens)] ==
            IF i = 0 THEN <<>>
            ELSE IF Same(wardens[i].name, n) THEN others[i - 1]
            ELSE Append(others[i - 1], wardens[i])
    IN  others[Len(wardens)]

Delete(n) ==
    /\ Has(wardens, n)
    /\ kept' = kept \ {Lower[n]}
    /\ \/ Saved(Without(n)) /\ gone' = gone \cup {Lower[n]}
       \/ Unsaved(Without(n)) /\ UNCHANGED gone
    /\ Observe
    /\ UNCHANGED <<put, matching, onSite, clashed>>

\* A PUT looks the warden up under the read lock, and takes from it what the
\* request does not name.
ByName(t, n, newName, devices) ==
    /\ put[t] = Idle
    /\ Has(wardens, n)
    /\ LET existing == wardens[Find(wardens, n)] IN
       \E nm \in {newName, existing.name}, ds \in {devices, existing.devices} :
          put' = [put EXCEPT ![t] = [name |-> n, updated |-> [name |-> nm, devices |-> ds]]]
    /\ UNCHANGED <<store, matching, onSite, told, matched>>

\* The first warden of that name, whatever it is by now, is replaced.  Whether
\* another one has the new name is not looked at.
Update(t) ==
    LET n == put[t].name
        w == put[t].updated
        list == ReplaceAt(wardens, Find(wardens, n), w)
        renamed == ~Same(w.name, n)
    IN /\ put[t] # Idle
       /\ Has(wardens, n)
       /\ gone' = gone \ {Lower[w.name]}
       /\ clashed' = (clashed \/ (renamed /\ Has(wardens, w.name)))
       /\ \/ Saved(list) /\ kept' = (kept \ {Lower[n]}) \cup {Lower[w.name]}
          \/ Unsaved(list) /\ kept' = IF renamed THEN kept \ {Lower[n]} ELSE kept
       /\ put' = [put EXCEPT ![t] = Idle]
       /\ Observe
       /\ UNCHANGED <<matching, onSite>>

\* The warden has been deleted or renamed meanwhile: 404.
UpdateNotFound(t) ==
    /\ put[t] # Idle
    /\ ~Has(wardens, put[t].name)
    /\ put' = [put EXCEPT ![t] = Idle]
    /\ UNCHANGED <<store, matching, onSite, told, matched>>

-------------------------------------------------------------------------------
(* The poll of InternalService                                             *)

\* The router reports the connected devices that are not to be ignored.
FetchDevices(devices) ==
    /\ matching.step = "rest"
    /\ matching' = [step |-> "match", connected |-> devices, todo |-> devices, found |-> {}]
    /\ matched' = [d \in Device |-> IF d \in devices THEN {FirstOrNone(wardens, d)} ELSE {}]
    /\ UNCHANGED <<store, put, onSite, told>>

\* The next device: its warden counts once, however many devices he has.
MatchDevice(d) ==
    /\ d \in matching.todo
    /\ matching' = [matching EXCEPT !.todo = @ \ {d},
                                    !.found = @ \cup ({FirstOrNone(wardens, d)} \ {Nobody})]
    /\ UNCHANGED <<store, put, onSite, told, matched>>

\* Mutant: an empty list is not written.
SetOnSiteIfAny ==
    /\ matching.step = "match" /\ matching.todo = {}
    /\ onSite' = IF matching.found = {} THEN onSite ELSE matching.found
    /\ matching' = NoPoll
    /\ matched' = Unmatched
    /\ UNCHANGED <<store, put, told>>

SetOnSite ==
    /\ matching.step = "match" /\ matching.todo = {}
    /\ onSite' = matching.found
    /\ matching' = NoPoll
    /\ matched' = Unmatched
    /\ UNCHANGED <<store, put, told>>

\* The router, or the save of the list, fails.
PollFails ==
    /\ matching.step = "match"
    /\ matching' = NoPoll
    /\ matched' = Unmatched
    /\ UNCHANGED <<store, put, onSite, told>>

\* The process starts again with what the files hold.
Reload ==
    /\ wardens' = file
    /\ failed' = 0
    /\ put' = [t \in Thread |-> Idle]
    /\ matching' = NoPoll
    /\ matched' = Unmatched
    /\ UNCHANGED <<file, onSite, told>>

Request ==
    \/ \E w \in Warden : Add(w)
    \/ \E n \in Name : Delete(n)
    \/ \E t \in Thread, n, m \in Name, ds \in DeviceSets : ByName(t, n, m, ds)
    \/ \E t \in Thread : Update(t) \/ UpdateNotFound(t)

MatchWardens ==
    \/ \E devices \in SUBSET Device : FetchDevices(devices)
    \/ \E d \in Device : MatchDevice(d)
    \/ SetOnSite
    \/ PollFails

WardenNext == Request \/ MatchWardens \/ Reload

WardenSpec == WardenInit /\ [][WardenNext]_wardenVars

-------------------------------------------------------------------------------
(* Properties                                                              *)

Lists == SeqOf(Warden, MaxWardens)
Names(list) == {Lower[w.name] : w \in ToSet(list)}

\* Type invariant.
WardenTypeOK ==
    /\ wardens \in Lists
    /\ file \in Lists
    /\ failed \in 0..MaxFailed
    /\ put \in [Thread -> [name : Name, updated : Warden] \cup {Idle}]
    /\ matching \in [step : {"rest", "match"}, connected : SUBSET Device,
                    todo : SUBSET Device, found : SUBSET Name]
    /\ matching.todo \subseteq matching.connected
    /\ onSite \subseteq Name
    /\ matched \in [Device -> SUBSET (Name \cup {Nobody})]

\* A warden that a client was told is stored is in memory and on disk, so that a
\* restart keeps it, until a deletion or renaming of it begins to write: failed
\* saves, of it or of others, updates in flight and restarts do not lose it.
StoredStaysStored == kept \subseteq Names(wardens) /\ kept \subseteq Names(file)

\* A warden that a client was told is deleted is in memory and on disk no more,
\* until it is added or another one is renamed to it: an update that had looked
\* it up does not bring it back, and neither does a namesake or a restart.
DeletedStaysDeleted == gone \cap (Names(wardens) \cup Names(file)) = {}

Unique(list) == \A i, j \in DOMAIN list : Lower[list[i].name] = Lower[list[j].name] => i = j

\* No two wardens have one name, in whatever case it is written, unless a PUT
\* renamed a warden to a name that was taken: there is no other way.
UniqueUnlessRenamed == ~clashed => Unique(wardens) /\ Unique(file)

\* During a poll: what it found, it was told, and each device it has looked up
\* is accounted for; what it would be told now is among what it could be told.
LookedUp ==
    matching.step = "match" =>
        /\ \A n \in matching.found : \E d \in matching.connected : n \in matched[d]
        /\ \A d \in matching.connected \ matching.todo :
               matched[d] \cap (matching.found \cup {Nobody}) # {}
        /\ \A d \in matching.connected : FirstOrNone(wardens, d) \in matched[d]

\* All of it; with the two properties above it is inductive.
WardenInv == WardenTypeOK /\ UniqueUnlessRenamed /\ LookedUp

\* Whoever is listed as on site had a connected device at some time during the
\* poll, and each connected device has its warden listed, unless the store had
\* none for it, or another one, at some time during the poll.
OnSiteIsJustified ==
    [][SetOnSite =>
         /\ \A n \in onSite' : \E d \in matching.connected : n \in matched[d]
         /\ \A d \in matching.connected : matched[d] \cap (onSite' \cup {Nobody}) # {}]_wardenVars
===============================================================================
