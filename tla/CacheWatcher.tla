---------------------------- MODULE CacheWatcher ----------------------------
(***************************************************************************)
(* The watches on an AuthCache (pkg/cache/watcher.go and the watcher list  *)
(* of subjectrecord.go): what one user, with one or more groups, is told   *)
(* of the resources that come into and go out of his or her reach.         *)
(*                                                                         *)
(* A round of synchronize writes the record of one subject after another   *)
(* and, holding watcherLock, calls GroupMembershipChanged of every watcher.*)
(* It puts events into the watcher's buffered channel.  Each watcher has a *)
(* goroutine that moves them to the client, who may be slow, or stop.      *)
(*                                                                         *)
(* An object is its name: Modified events are left out.  cacheError is     *)
(* left out too: the only send to it follows RemoveWatcher under the lock  *)
(* that RemoveWatcher waits for, and is never reached.                     *)
(***************************************************************************)
EXTENDS Naturals, Sequences

CONSTANTS
    Subjects,     \* the name and the groups of the watching user
    Resources,
    Watchers,     \* watches of that user
    Capacity,     \* of the cacheIncoming channel (1000 in the code)
    MaxRounds     \* bound: rounds of synchronize

ASSUME BoundsAssumption == Capacity \in Nat \ {0} /\ MaxRounds \in Nat

VARIABLES
    record,     \* the names each subject has access to; {} is no record
    target,     \* those the round has computed
    toWrite,    \* subjects whose record the round has to write
    spc,        \* the synchronize goroutine
    names,      \* what it is notifying the watchers of
    toNotify,   \* watchers it has not notified of that
    current,    \* the watcher whose GroupMembershipChanged it is in, at most one
    gone, added,\* names it still has to send that watcher an event for
    watchers,   \* the watcher list, protected by watcherLock
    knownTo,    \* knownResources of each watcher
    initial,    \* its initialResources that are not emitted yet
    incoming,   \* its cacheIncoming channel
    wpc,        \* its goroutine
    outgoing,   \* the event it is emitting
    userStop,   \* its userStop channel is closed
    view,       \* what its client takes for the user's resources
    rounds      \* bounded counter

syncVars == <<record, target, toWrite, spc, names, toNotify, current, gone, added, rounds>>
vars == <<record, target, toWrite, spc, names, toNotify, current, gone, added, watchers,
          knownTo, initial, incoming, wpc, outgoing, userStop, view, rounds>>

Event == [type : {"ADDED", "DELETED"}, name : Resources]
Deleted(r) == [type |-> "DELETED", name |-> r]
Added(r) == [type |-> "ADDED", name |-> r]

TypeOK ==
    /\ record \in [Subjects -> SUBSET Resources]
    /\ target \in [Subjects -> SUBSET Resources]
    /\ toWrite \in SUBSET Subjects
    /\ spc \in {"idle", "write", "notify", "blocked"}
    /\ names \in SUBSET Resources
    /\ toNotify \in SUBSET Watchers
    /\ current \in SUBSET Watchers
    /\ gone \in SUBSET Resources /\ added \in SUBSET Resources
    /\ watchers \in SUBSET Watchers
    /\ knownTo \in [Watchers -> SUBSET Resources]
    /\ initial \in [Watchers -> SUBSET Resources]
    /\ incoming \in [Watchers -> Seq(Event)] /\ \A w \in Watchers : Len(incoming[w]) <= Capacity
    /\ wpc \in [Watchers -> {"new", "created", "running", "ending", "done"}]
    /\ outgoing \in [Watchers -> Seq(Event)] /\ \A w \in Watchers : Len(outgoing[w]) <= 1
    /\ userStop \in [Watchers -> BOOLEAN]
    /\ view \in [Watchers -> SUBSET Resources]
    /\ rounds \in 0..MaxRounds

Init ==
    /\ record \in [Subjects -> SUBSET Resources]
    /\ target = record
    /\ toWrite = {}
    /\ spc = "idle"
    /\ names = {}
    /\ toNotify = {}
    /\ current = {}
    /\ gone = {} /\ added = {}
    /\ watchers = {}
    /\ knownTo = [w \in Watchers |-> {}]
    /\ initial = [w \in Watchers |-> {}]
    /\ incoming = [w \in Watchers |-> <<>>]
    /\ wpc = [w \in Watchers |-> "new"]
    /\ outgoing = [w \in Watchers |-> <<>>]
    /\ userStop = [w \in Watchers |-> FALSE]
    /\ view = [w \in Watchers |-> {}]
    /\ rounds = 0

\* listNames: the names of the user and of all the groups.
ListNames == UNION {record[s] : s \in Subjects}

\* notifyWatchers holds watcherLock from its first watcher to its last.
Locked == spc \in {"notify", "blocked"}

-----------------------------------------------------------------------------
(***************************************************************************)
(* synchronizeClusterRoleBindings, from its maps on.                       *)
(***************************************************************************)
\* The round has computed the names of every subject (t).  It updates who has
\* some, and deletes who has none and is no longer found in a binding.
BeginRound(t, deleted) ==
    /\ spc = "idle"
    /\ rounds < MaxRounds
    /\ rounds' = rounds + 1
    /\ target' = t
    /\ \A s \in deleted : t[s] = {}
    /\ toWrite' = {s \in Subjects : t[s] # {}} \cup deleted
    /\ spc' = "write"
    /\ UNCHANGED <<record, names, toNotify, current, gone, added, watchers, knownTo, initial,
                   incoming, wpc, outgoing, userStop, view>>

\* Updates come before deletions; every subject that has access is notified of
\* all its names in every round.
WriteRecord(s) ==
    /\ spc = "write"
    /\ s \in toWrite
    /\ target[s] = {} => \A x \in toWrite : target[x] = {}
    /\ toWrite' = toWrite \ {s}
    /\ record' = [record EXCEPT ![s] = target[s]]
    /\ names' = target[s]
    /\ toNotify' = watchers
    /\ spc' = "notify"
    /\ UNCHANGED <<target, current, gone, added, watchers, knownTo, initial, incoming, wpc,
                   outgoing, userStop, view, rounds>>

EndRound ==
    /\ spc = "write"
    /\ toWrite = {}
    /\ spc' = "idle"
    /\ UNCHANGED <<record, target, toWrite, names, toNotify, current, gone, added, watchers,
                   knownTo, initial, incoming, wpc, outgoing, userStop, view, rounds>>

\* GroupMembershipChanged of watcher w.  A name whose object the lister does
\* not have (missing) is skipped.
StartNotify(w, missing) ==
    /\ spc = "notify"
    /\ current = {}
    /\ w \in toNotify
    /\ toNotify' = toNotify \ {w}
    /\ current' = {w}
    /\ gone' = knownTo[w] \ names
    /\ added' = (names \ knownTo[w]) \ missing
    /\ UNCHANGED <<record, target, toWrite, spc, names, watchers, knownTo, initial, incoming,
                   wpc, outgoing, userStop, view, rounds>>

\* Mutant: the channel's capacity is ignored.
SendAnyway(w, e) == incoming' = [incoming EXCEPT ![w] = Append(@, e)] /\ UNCHANGED spc

\* The next event is sent, deletions first.  When the channel is full,
\* RemoveWatcher waits for the lock that this goroutine holds.
Send(w, e) ==
    IF Len(incoming[w]) < Capacity
    THEN incoming' = [incoming EXCEPT ![w] = Append(@, e)] /\ UNCHANGED spc
    ELSE spc' = "blocked" /\ UNCHANGED incoming

SendDeleted(r) ==
    /\ spc = "notify"
    /\ r \in gone
    /\ gone' = gone \ {r}
    /\ \E w \in current :
          /\ knownTo' = [knownTo EXCEPT ![w] = @ \ {r}]
          /\ Send(w, Deleted(r))
    /\ UNCHANGED <<record, target, toWrite, names, toNotify, current, added, watchers, initial,
                   wpc, outgoing, userStop, view, rounds>>

SendAdded(r) ==
    /\ spc = "notify"
    /\ gone = {}
    /\ r \in added
    /\ added' = added \ {r}
    /\ \E w \in current :
          /\ knownTo' = [knownTo EXCEPT ![w] = @ \cup {r}]
          /\ Send(w, Added(r))
    /\ UNCHANGED <<record, target, toWrite, names, toNotify, current, gone, watchers, initial,
                   wpc, outgoing, userStop, view, rounds>>

\* GroupMembershipChanged returns.
EndNotify ==
    /\ spc = "notify"
    /\ current # {}
    /\ gone = {} /\ added = {}
    /\ current' = {}
    /\ UNCHANGED <<record, target, toWrite, spc, names, toNotify, gone, added, watchers, knownTo,
                   initial, incoming, wpc, outgoing, userStop, view, rounds>>

Unlock ==
    /\ spc = "notify"
    /\ current = {} /\ toNotify = {}
    /\ spc' = "write"
    /\ UNCHANGED <<record, target, toWrite, names, toNotify, current, gone, added, watchers,
                   knownTo, initial, incoming, wpc, outgoing, userStop, view, rounds>>

-----------------------------------------------------------------------------
(***************************************************************************)
(* REST.Watch: NewCacheWatcher lists what the user has, and then AddWatcher*)
(* appends to the list.                                                    *)
(***************************************************************************)
\* What the user has, as far as the lister has the objects, is sent to a client
\* that asks for it (with resourceVersion 0); any other is taken to have just
\* listed it.
NewCacheWatcher(w, missing, includeAll) ==
    /\ wpc[w] = "new"
    /\ wpc' = [wpc EXCEPT ![w] = "created"]
    /\ knownTo' = [knownTo EXCEPT ![w] = ListNames \ missing]
    /\ IF includeAll
       THEN initial' = [initial EXCEPT ![w] = knownTo'[w]] /\ UNCHANGED view
       ELSE view' = [view EXCEPT ![w] = knownTo'[w]] /\ UNCHANGED initial
    /\ UNCHANGED <<syncVars, watchers, incoming, outgoing, userStop>>

AddWatcher(w) ==
    /\ wpc[w] = "created"
    /\ ~Locked
    /\ watchers' = watchers \cup {w}
    /\ wpc' = [wpc EXCEPT ![w] = "running"]
    /\ UNCHANGED <<syncVars, knownTo, initial, incoming, outgoing, userStop, view>>

(***************************************************************************)
(* cacheWatcher.Watch.                                                     *)
(***************************************************************************)
\* The goroutine takes the next event: an initial one, or one it was sent.
TakeInitial(w, r) ==
    /\ wpc[w] = "running"
    /\ outgoing[w] = <<>>
    /\ r \in initial[w]
    /\ initial' = [initial EXCEPT ![w] = @ \ {r}]
    /\ outgoing' = [outgoing EXCEPT ![w] = <<Added(r)>>]
    /\ UNCHANGED <<syncVars, watchers, knownTo, incoming, wpc, userStop, view>>

\* Mutant: an event overtakes the initial ones.
TakeIncomingFirst(w) ==
    /\ wpc[w] = "running"
    /\ outgoing[w] = <<>>
    /\ incoming[w] # <<>>
    /\ incoming' = [incoming EXCEPT ![w] = Tail(@)]
    /\ outgoing' = [outgoing EXCEPT ![w] = <<Head(incoming[w])>>]
    /\ UNCHANGED <<syncVars, watchers, knownTo, initial, wpc, userStop, view>>

TakeIncoming(w) ==
    /\ wpc[w] = "running"
    /\ outgoing[w] = <<>>
    /\ initial[w] = {}
    /\ incoming[w] # <<>>
    /\ incoming' = [incoming EXCEPT ![w] = Tail(@)]
    /\ outgoing' = [outgoing EXCEPT ![w] = <<Head(incoming[w])>>]
    /\ UNCHANGED <<syncVars, watchers, knownTo, initial, wpc, userStop, view>>

\* emit gives up when the client has stopped.
EmitStopped(w) ==
    /\ wpc[w] = "running"
    /\ outgoing[w] # <<>>
    /\ userStop[w]
    /\ outgoing' = [outgoing EXCEPT ![w] = <<>>]
    /\ UNCHANGED <<syncVars, watchers, knownTo, initial, incoming, wpc, userStop, view>>

\* Mutant: the goroutine returns without its deferred RemoveWatcher.
EndWithoutRemoving(w) ==
    /\ wpc[w] = "running"
    /\ outgoing[w] = <<>>
    /\ initial[w] = {}
    /\ userStop[w]
    /\ wpc' = [wpc EXCEPT ![w] = "done"]
    /\ UNCHANGED <<syncVars, watchers, knownTo, initial, incoming, outgoing, userStop, view>>

EndWatch(w) ==
    /\ wpc[w] = "running"
    /\ outgoing[w] = <<>>
    /\ initial[w] = {}
    /\ userStop[w]
    /\ wpc' = [wpc EXCEPT ![w] = "ending"]
    /\ UNCHANGED <<syncVars, watchers, knownTo, initial, incoming, outgoing, userStop, view>>

\* RemoveWatcher, deferred.
RemoveWatcher(w) ==
    /\ wpc[w] = "ending"
    /\ ~Locked
    /\ watchers' = watchers \ {w}
    /\ wpc' = [wpc EXCEPT ![w] = "done"]
    /\ UNCHANGED <<syncVars, knownTo, initial, incoming, outgoing, userStop, view>>

(***************************************************************************)
(* The client reads an event, or stops.                                    *)
(***************************************************************************)
SeenAfter(seen, e) == IF e.type = "ADDED" THEN seen \cup {e.name} ELSE seen \ {e.name}

Read(w) ==
    /\ wpc[w] = "running"
    /\ outgoing[w] # <<>>
    /\ view' = [view EXCEPT ![w] = SeenAfter(@, Head(outgoing[w]))]
    /\ outgoing' = [outgoing EXCEPT ![w] = <<>>]
    /\ UNCHANGED <<syncVars, watchers, knownTo, initial, incoming, wpc, userStop>>

Stop(w) ==
    /\ wpc[w] = "running"
    /\ ~userStop[w]
    /\ userStop' = [userStop EXCEPT ![w] = TRUE]
    /\ UNCHANGED <<syncVars, watchers, knownTo, initial, incoming, wpc, outgoing, view>>

-----------------------------------------------------------------------------
Synchronize ==
    \/ \E t \in [Subjects -> SUBSET Resources], deleted \in SUBSET Subjects : BeginRound(t, deleted)
    \/ \E s \in Subjects : WriteRecord(s)
    \/ \E w \in Watchers, missing \in SUBSET Resources : StartNotify(w, missing)
    \/ \E r \in Resources : SendDeleted(r) \/ SendAdded(r)
    \/ EndNotify \/ Unlock \/ EndRound

Watch(w) ==
    \/ \E r \in Resources : TakeInitial(w, r)
    \/ TakeIncoming(w)
    \/ EmitStopped(w) \/ EndWatch(w) \/ RemoveWatcher(w)

Client(w) ==
    \/ \E missing \in SUBSET Resources, includeAll \in BOOLEAN : NewCacheWatcher(w, missing, includeAll)
    \/ AddWatcher(w) \/ Read(w) \/ Stop(w)

Next == Synchronize \/ \E w \in Watchers : Watch(w) \/ Client(w)

Spec == Init /\ [][Next]_vars

\* The goroutines run; clients owe nothing.  A mutex that is free again and
\* again is handed to who waits for it, and select takes a ready stop
\* eventually.
FairSpec ==
    /\ Spec
    /\ WF_vars(Synchronize)
    /\ \A w \in Watchers : /\ WF_vars(Watch(w))
                           /\ SF_vars(RemoveWatcher(w))
                           /\ SF_vars(EndWatch(w))

-----------------------------------------------------------------------------
(***************************************************************************)
(* Properties.                                                             *)
(***************************************************************************)
\* A resource is seen after events if the last one about it adds it, or if there
\* is none and it was seen before.
Remains(r, seen, es) ==
    \/ r \in seen /\ \A i \in DOMAIN es : es[i].name # r
    \/ \E i \in DOMAIN es : es[i] = Added(r) /\ \A j \in DOMAIN es : j > i => es[j].name # r

SeenAfterAll(seen, es) == {r \in Resources : Remains(r, seen, es)}

(***************************************************************************)
(* What the client has seen, with the events on their way to it applied in *)
(* their order, is what the cache believes it knows: no event is lost,     *)
(* doubled or overtaken between the two goroutines, as long as no channel  *)
(* is full.                                                                *)
(***************************************************************************)
ClientFollowsKnown ==
    \A w \in Watchers :
        wpc[w] \in {"created", "running"} /\ ~userStop[w] /\ spc # "blocked" =>
            SeenAfterAll(view[w] \cup initial[w], outgoing[w] \o incoming[w]) = knownTo[w]

(***************************************************************************)
(* watcher.go:167 "when the watch ends, always remove the watcher from the *)
(* cache to avoid leaking": it is, unless synchronize is blocked.          *)
(***************************************************************************)
NoWatcherLeaks ==
    \A w \in Watchers : userStop[w] ~> (w \notin watchers \/ spc = "blocked")

(***************************************************************************)
(* watcher.go:20: GroupMembershipChanged "MUST NOT BLOCK ... if you block  *)
(* in this method you will doom all watchers"; :39-40 "If the buffer fills *)
(* up, then the watcher will be removed and the connection will be broken".*)
(***************************************************************************)
NeverBlocked == spc # "blocked"

(***************************************************************************)
(* docs/clusterview/clusterview.md:3 and :7: the watch is on the resources *)
(* that the user is authorized for, as the list is.  A resource that the   *)
(* user still has is never announced as deleted.                           *)
(***************************************************************************)
OnlyLostIsDeleted ==
    [][\A r \in Resources : SendDeleted(r) => r \notin ListNames]_vars
=============================================================================
