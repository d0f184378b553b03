--------------------------- MODULE CachedCalendar ---------------------------
(***************************************************************************)
(* The offline cache of a calendar: calCachedCalendar keeps the items of a *)
(* network calendar in a storage calendar.  What the user changes while    *)
(* the program is offline, or the server is unavailable, is kept in the    *)
(* cache with a flag, and played back to the server before the next        *)
(* refresh.  Providers with a change log then bring what is new on the     *)
(* server into the cache; for the others the cache is wiped and filled     *)
(* again, and what carried a flag is put back.                             *)
(*                                                                         *)
(* An item is known by its last writer: call n of the user writes n, the   *)
(* n-th write of another program writes MaxOps + n, and 0 is no item.      *)
(***************************************************************************)
EXTENDS Integers, Sequences, FiniteSets, SequencesExt

CONSTANTS
    Item,           \* the items, by id
    Modes,          \* the providers: among "changelog" and "full"
    Faults,         \* among "busy", "lost", "crash", "overlap"
    MaxOps,         \* bound: calls of add, modify and delete
    MaxPlaybacks,   \* bound: playbacks that run at once
    MaxFailures,    \* bound: requests the server fails without a reason
    MaxRemote,      \* bound: writes of other programs
    MaxToggles,     \* bound: times the program goes offline
    MaxCrashes      \* bound: crashes

(* "busy": the user changes items while a synchronisation is in progress.  *)
(* "lost": an answer of the server may get lost.  "crash": the program may *)
(* crash after the server did what it was asked for, between two writes of *)
(* one change to the cache, or while the cache is being renewed (crashes   *)
(* at other times need no fault).  "overlap": a full synchronisation may   *)
(* start while the playback that follows a failed one still runs.          *)
ASSUME ItemAssumption == IsFiniteSet(Item)
ASSUME BoundsAssumption ==
    /\ {MaxOps, MaxFailures, MaxRemote, MaxToggles, MaxCrashes} \subseteq Nat
    /\ MaxPlaybacks \in Nat \ {0}
ASSUME KindsAssumption ==
    /\ Modes \subseteq {"changelog", "full"}
    /\ Faults \subseteq {"busy", "lost", "crash", "overlap"}

VARIABLES
    mode,       \* what the provider can do
    offline,    \* Services.io.offline
    cache,      \* mCachedCalendar: the row of every item, on disk
    server,     \* the items on the server
    known,      \* the versions on the server the provider knows of
    call,       \* the call of the user in progress
    playback,   \* the playbacks in progress (playbackOfflineItems)
    sync,       \* the full synchronisation in progress (synchronize)
    last,       \* the last call for each item that was reported a success
    done,       \* the calls whose effect has reached the server
    remote,     \* the items other programs have written
    budget      \* what is left of the bounds

vars == <<mode, offline, cache, server, known, call, playback, sync, last,
          done, remote, budget>>
-----------------------------------------------------------------------------
Kind == {"add", "modify", "delete"}
OpId == 1 .. MaxOps
Version == 0 .. MaxOps + MaxRemote
Flag == {"none", "created", "modified", "deleted"}
Row == [v : Version, flag : Flag]
NoRow == [v |-> 0, flag |-> "none"]

\* pc: what the call waits for.  "facade", "modify", "markModified" and
\* "markDeleted" wait for getItemOfflineFlag, read says whether the database
\* has been read, flag what it found.  keep: the change is kept offline.
Call == [pc : {"none", "facade", "server", "answer", "modify",
               "markModified", "markDeleted"},
         kind : Kind, item : Item, op : OpId, old : Version,
         read : BOOLEAN, flag : Flag,
         answer : {"none", "ok", "unavailable", "error"}, keep : BOOLEAN]
NoCall == [pc |-> "none"]

\* A playback sends the items with one flag after the other; then is the
\* callback it was given.
Phase == {"created", "modified", "deleted"}
Playback ==
    [pc : {"none", "query", "queried", "send", "answer", "replay"},
     phase : Phase, queue : Seq([item : Item, v : Version]),
     ok : BOOLEAN, then : {"refresh", "sync", "load"}]
NoPlayback == [pc |-> "none", phase |-> "created", queue |-> <<>>,
               ok |-> FALSE, then |-> "load"]
Started(then) == [NoPlayback EXCEPT !.pc = "query", !.then = then]

Slot == 1 .. MaxPlaybacks
FreeSlots == {s \in Slot : playback[s].pc = "none"}

\* No synchronisation is in progress, or it waits for a callback that an
\* exception has kept from being called.
SyncRests == sync.pc \in {"none", "stuck"}
Quiet == FreeSlots = Slot /\ SyncRests
NoneSaved == [i \in Item |-> NoRow]
NoSync == [pc |-> "none", saved |-> NoneSaved]

(***************************************************************************)
(* Type invariant                                                          *)
(***************************************************************************)
TypeOK ==
    /\ mode \in Modes /\ offline \in BOOLEAN
    /\ cache \in [Item -> Row]
    /\ server \in [Item -> Version] /\ known \in [Item -> Version]
    /\ call = NoCall \/ call \in Call
    /\ playback \in [Slot -> Playback]
    /\ sync \in [pc : {"none", "snapshot", "get", "renewed", "playing", "stuck"},
                 saved : [Item -> Row]]
    /\ last \in [Item -> [op : OpId \cup {0}, kind : Kind]]
    /\ done \subseteq OpId /\ remote \subseteq Item
    /\ budget \in [op : 0 .. MaxOps, fail : 0 .. MaxFailures,
                   remote : 0 .. MaxRemote, toggle : 0 .. MaxToggles,
                   crash : 0 .. MaxCrashes]

(* An empty calendar, of which the cache is an empty copy.                 *)
Init ==
    /\ mode \in Modes /\ offline = FALSE
    /\ cache = [i \in Item |-> NoRow]
    /\ server = [i \in Item |-> 0] /\ known = server
    /\ call = NoCall
    /\ playback = [s \in Slot |-> NoPlayback]
    /\ sync = NoSync
    /\ last = [i \in Item |-> [op |-> 0, kind |-> "add"]]
    /\ done = {} /\ remote = {}
    /\ budget = [op |-> 0, fail |-> 0, remote |-> 0, toggle |-> 0, crash |-> 0]
-----------------------------------------------------------------------------
(* The server (external): what it takes, whoever sends it.                 *)
-----------------------------------------------------------------------------
\* With a change log (CalDAV) an item is added only if it is not there, and
\* changed if it is there.  The other provider is a calendar file: its
\* memory calendar takes every addition, and a modification only if the old
\* item it is given has the content of its own.
Takes(kind, i, old) ==
    CASE kind = "add" -> mode = "full" \/ server[i] = 0
      [] kind = "modify" -> server[i] # 0 /\ (mode = "full" => server[i] = old)
      [] kind = "delete" -> server[i] # 0

Result(kind, v) == IF kind = "delete" THEN 0 ELSE v

Stores(kind, i, v) ==
    /\ server' = [server EXCEPT ![i] = Result(kind, v)]
    /\ done' = IF v \in OpId /\ kind # "delete" THEN done \cup {v} ELSE done

\* The request fails: it was refused, or the server is not reachable.  The
\* server may have stored it all the same, if the answer got lost.
Fails(kind, i, v, old) ==
    /\ IF ~Takes(kind, i, old) THEN UNCHANGED budget
       ELSE /\ budget.fail < MaxFailures
            /\ budget' = [budget EXCEPT !.fail = @ + 1]
    /\ \/ UNCHANGED <<server, done>>
       \/ /\ "lost" \in Faults /\ Takes(kind, i, old)
          /\ Stores(kind, i, v)
-----------------------------------------------------------------------------
(* The calls of the user                                                   *)
-----------------------------------------------------------------------------
\* Ids are made up, no two items have the same; a deleted item may be added
\* again with its id (undo).
NewId(i) == cache[i].v = 0 /\ server[i] = 0 /\ i \notin remote
Visible(i) == cache[i].v # 0 /\ cache[i].flag # "deleted"

NewCall(kind, i, pc) ==
    [pc |-> pc, kind |-> kind, item |-> i, op |-> budget.op + 1,
     old |-> cache[i].v, read |-> FALSE, flag |-> "none", answer |-> "none",
     keep |-> offline]

\* The listener of a call is told that it has succeeded.
Told(c) == last' = [last EXCEPT ![c.item] = [op |-> c.op, kind |-> c.kind]]

\* adoptItem, modifyItem, deleteItem.  Offline, an addition is adopted and
\* flagged at once (adoptOfflineItem), a modification goes to the cache and
\* a deletion is marked.  Online, an addition is sent to the server, and
\* for the others the flag of the item is looked up.
CallOperation ==
    /\ call.pc = "none"
    /\ Quiet \/ "busy" \in Faults
    /\ budget.op < MaxOps
    /\ budget' = [budget EXCEPT !.op = @ + 1]
    /\ \E kind \in Kind, i \in Item :
         /\ IF kind = "add" THEN NewId(i) ELSE Visible(i)
         /\ IF kind = "add" /\ offline
            THEN /\ cache' = [cache EXCEPT ![i] = [v |-> budget.op + 1,
                                                   flag |-> "created"]]
                 /\ Told(NewCall(kind, i, "none"))
                 /\ UNCHANGED call
            ELSE /\ call' = NewCall(kind, i,
                              CASE kind = "add" -> "server"
                                [] kind = "modify" ->
                                     IF offline THEN "modify" ELSE "facade"
                                [] kind = "delete" ->
                                     IF offline THEN "markDeleted"
                                                ELSE "facade")
                 /\ UNCHANGED <<cache, last>>
    /\ UNCHANGED <<mode, offline, server, known, playback, sync, done, remote>>

\* getItemOfflineFlag reads the database in its thread; the flag is handed
\* over later.
ReadFlag ==
    /\ call.pc \in {"facade", "modify", "markModified", "markDeleted"}
    /\ ~call.read
    /\ call' = [call EXCEPT !.read = TRUE, !.flag = cache[call.item].flag]
    /\ UNCHANGED <<mode, offline, cache, server, known, playback, sync, last,
                   done, remote, budget>>

\* The flagListener of modifyItem and deleteItem: what was created or
\* modified offline stays offline, anything else is sent to the server.
FacadeGetsFlag ==
    /\ call.pc = "facade" /\ call.read
    /\ LET offlineItem == call.flag \in {"created", "modified"} IN
       call' = [call EXCEPT !.read = FALSE, !.keep = offlineItem,
                  !.pc = IF ~offlineItem THEN "server"
                         ELSE IF call.kind = "modify" THEN "modify"
                              ELSE "markDeleted"]
    /\ UNCHANGED <<mode, offline, cache, server, known, playback, sync, last,
                   done, remote, budget>>

ServerTakesCall ==
    /\ call.pc = "server"
    /\ Takes(call.kind, call.item, call.old)
    /\ Stores(call.kind, call.item, call.op)
    /\ call' = [call EXCEPT !.pc = "answer", !.answer = "ok"]
    /\ UNCHANGED <<mode, offline, cache, known, playback, sync, last, remote, budget>>

ServerFailsCall ==
    /\ call.pc = "server"
    /\ Fails(call.kind, call.item, call.op, call.old)
    /\ \E answer \in {"unavailable", "error"} :
         call' = [call EXCEPT !.pc = "answer", !.answer = answer]
    /\ UNCHANGED <<mode, offline, cache, known, playback, sync, last, remote>>

\* The cacheListener.  What the server took is brought into the cache; if
\* it is not available the change is kept offline; an error is handed on.
CallAnswered ==
    /\ call.pc = "answer"
    /\ LET i == call.item
           ok == call.answer = "ok"
           flag == IF ok THEN "none" ELSE "created" IN
       /\ known' = IF ok THEN [known EXCEPT ![i] = Result(call.kind, call.op)]
                   ELSE known
       /\ CASE call.answer = "error" ->
                 call' = NoCall /\ UNCHANGED <<cache, last>>
            [] call.answer # "error" /\ call.kind = "add" ->
                 /\ cache' = [cache EXCEPT ![i] = [v |-> call.op,
                                                   flag |-> flag]]
                 /\ call' = NoCall /\ Told(call)
            [] call.answer # "error" /\ call.kind = "modify" ->
                 /\ call' = [call EXCEPT !.pc = "modify", !.keep = ~ok]
                 /\ UNCHANGED <<cache, last>>
            [] ok /\ call.kind = "delete" ->
                 /\ cache' = [cache EXCEPT ![i] = NoRow]
                 /\ call' = NoCall /\ Told(call)
            [] OTHER ->
                 /\ call' = [call EXCEPT !.pc = "markDeleted", !.keep = TRUE]
                 /\ UNCHANGED <<cache, last>>
    /\ UNCHANGED <<mode, offline, server, playback, sync, done, remote, budget>>

\* calStorageCalendar.modifyItem: the row is written anew, which loses the
\* flag, and the flag read before is set again.
ModifyInCache ==
    /\ call.pc = "modify" /\ call.read
    /\ cache' = [cache EXCEPT ![call.item] = [v |-> call.op,
                                             flag |-> call.flag]]
    /\ IF call.keep
       THEN /\ call' = [call EXCEPT !.pc = "markModified", !.read = FALSE]
            /\ UNCHANGED last
       ELSE call' = NoCall /\ Told(call)
    /\ UNCHANGED <<mode, offline, server, known, playback, sync, done, remote,
                   budget>>

\* setOfflineJournalFlag: of the row, if there is one.
WithFlag(i, flag) ==
    IF cache[i].v = 0 THEN cache ELSE [cache EXCEPT ![i].flag = flag]

\* calStorageCalendar.modifyOfflineItem
MarkModified ==
    /\ call.pc = "markModified" /\ call.read
    /\ cache' = IF call.flag \in {"created", "deleted"} THEN cache
                ELSE WithFlag(call.item, "modified")
    /\ call' = NoCall /\ Told(call)
    /\ UNCHANGED <<mode, offline, server, known, playback, sync, done, remote,
                   budget>>

\* calStorageCalendar.deleteOfflineItem: what the server never had is gone,
\* anything else stays in the cache until the server has deleted it.
FaultyMarkDeleted ==
    /\ call.pc = "markDeleted" /\ call.read
    /\ cache' = IF call.flag \in {"created", "modified"}
                THEN [cache EXCEPT ![call.item] = NoRow]
                ELSE WithFlag(call.item, "deleted")
    /\ call' = NoCall /\ Told(call)
    /\ UNCHANGED <<mode, offline, server, known, playback, sync, done, remote,
                   budget>>

MarkDeleted ==
    /\ call.pc = "markDeleted" /\ call.read
    /\ cache' = IF call.flag = "created"
                THEN [cache EXCEPT ![call.item] = NoRow]
                ELSE WithFlag(call.item, "deleted")
    /\ call' = NoCall /\ Told(call)
    /\ UNCHANGED <<mode, offline, server, known, playback, sync, done, remote,
                   budget>>
-----------------------------------------------------------------------------
(* playbackOfflineItems                                                    *)
-----------------------------------------------------------------------------
KindOf(phase) ==
    CASE phase = "created" -> "add" [] phase = "modified" -> "modify"
      [] phase = "deleted" -> "delete"

\* The type of the playback that follows, lost.
FaultyAfterAdding(phase) == "none"

\* The modified items are passed over.
FaultyAfter(phase) == "deleted"

After(phase) == IF phase = "created" THEN "modified" ELSE "deleted"

\* getItems looks for the items with the flag of the phase; they are handed
\* over later, in any order.
QueryItems(s) ==
    /\ playback[s].pc = "query"
    /\ LET flagged == {i \in Item : cache[i].flag = playback[s].phase} IN
       \E queue \in SetToSeqs({[item |-> i, v |-> cache[i].v] : i \in flagged}) :
         playback' = [playback EXCEPT ![s].pc = "queried", ![s].queue = queue]
    /\ UNCHANGED <<mode, offline, cache, server, known, call, sync, last, done,
                   remote, budget>>

\* aCallback: refresh goes on with the change log (downstreamRefresh), a
\* full synchronisation has ended (emptyQueue).
Finish(s) ==
    /\ playback' = [playback EXCEPT ![s] =
         IF @.then = "refresh" /\ ~offline THEN [@ EXCEPT !.pc = "replay"]
         ELSE NoPlayback]
    /\ sync' = IF playback[s].then = "sync" THEN NoSync ELSE sync

\* popItemQueue: the next item of the queue, or the next phase.
PopItemQueue(s, queue) ==
    IF queue = <<>> /\ playback[s].phase = "deleted" THEN Finish(s)
    ELSE /\ playback' = [playback EXCEPT ![s] =
              IF queue # <<>> THEN [@ EXCEPT !.pc = "send", !.queue = queue]
              ELSE [@ EXCEPT !.pc = "query",
                             !.phase = After(playback[s].phase),
                             !.queue = <<>>]]
         /\ UNCHANGED sync

FaultyItemsFound(s) ==
    /\ playback[s].pc = "queried"
    /\ IF offline
       THEN UNCHANGED sync
            /\ playback' = [playback EXCEPT ![s] = NoPlayback]
       ELSE PopItemQueue(s, playback[s].queue)
    /\ UNCHANGED <<mode, offline, cache, server, known, call, last, done,
                   remote, budget>>

\* Back offline: the playback is given up.
ItemsFound(s) ==
    /\ playback[s].pc = "queried"
    /\ IF offline THEN Finish(s) ELSE PopItemQueue(s, playback[s].queue)
    /\ UNCHANGED <<mode, offline, cache, server, known, call, last, done,
                   remote, budget>>

ServerTakesItem(s) ==
    /\ playback[s].pc = "send"
    /\ LET c == Last(playback[s].queue)
           kind == KindOf(playback[s].phase) IN
       Takes(kind, c.item, c.v) /\ Stores(kind, c.item, c.v)
    /\ playback' = [playback EXCEPT ![s].pc = "answer", ![s].ok = TRUE]
    /\ UNCHANGED <<mode, offline, cache, known, call, sync, last, remote,
                   budget>>

ServerFailsItem(s) ==
    /\ playback[s].pc = "send"
    /\ LET c == Last(playback[s].queue) IN
       Fails(KindOf(playback[s].phase), c.item, c.v, c.v)
    /\ playback' = [playback EXCEPT ![s].pc = "answer", ![s].ok = FALSE]
    /\ UNCHANGED <<mode, offline, cache, known, call, sync, last, remote>>

\* The provider throws an exception without a result (a number, such as
\* CAL_IS_READONLY, or a TypeError).  The handler reports it to opListener
\* with the status undefined, which is a success code, and the message for
\* the item: taking the flag of that away throws once more.  The playback is
\* left and nothing calls its callback.
ProviderThrows(s) ==
    /\ playback[s].pc = "send"
    /\ budget.fail < MaxFailures
    /\ budget' = [budget EXCEPT !.fail = @ + 1]
    /\ playback' = [playback EXCEPT ![s] = NoPlayback]
    /\ sync' = IF playback[s].then = "sync" THEN [NoSync EXCEPT !.pc = "stuck"]
               ELSE sync
    /\ UNCHANGED <<mode, offline, cache, server, known, call, last, done,
                   remote>>

FaultyItemAnswered(s) ==
    /\ playback[s].pc = "answer"
    /\ LET c == Last(playback[s].queue) IN
       /\ cache' = IF playback[s].phase = "deleted"
                   THEN [cache EXCEPT ![c.item] = NoRow]
                   ELSE WithFlag(c.item, "none")
       /\ known' = IF playback[s].ok
                   THEN [known EXCEPT ![c.item] =
                           Result(KindOf(playback[s].phase), c.v)]
                   ELSE known
    /\ PopItemQueue(s, Front(playback[s].queue))
    /\ UNCHANGED <<mode, offline, server, call, last, done, remote, budget>>

\* opListener.onOperationComplete (also called by the handler of an exception
\* that has a result, which is a failure): the flag is taken away, or the deleted
\* item; after a failure it stays for the next time.
ItemAnswered(s) ==
    /\ playback[s].pc = "answer"
    /\ LET c == Last(playback[s].queue) IN
       /\ cache' = IF ~playback[s].ok THEN cache
                   ELSE IF playback[s].phase = "deleted"
                   THEN [cache EXCEPT ![c.item] = NoRow]
                   ELSE WithFlag(c.item, "none")
       /\ known' = IF playback[s].ok
                   THEN [known EXCEPT ![c.item] =
                           Result(KindOf(playback[s].phase), c.v)]
                   ELSE known
    /\ PopItemQueue(s, Front(playback[s].queue))
    /\ UNCHANGED <<mode, offline, server, call, last, done, remote, budget>>

\* The change log (external): every item that is new on the server is
\* written to the cache, and what is gone is deleted, whatever its flag.
Replay(s) ==
    /\ playback[s].pc = "replay"
    /\ ~offline
    /\ cache' = [i \in Item |->
                   IF server[i] = known[i] THEN cache[i]
                   ELSE [v |-> server[i], flag |-> "none"]]
    /\ known' = server
    /\ playback' = [playback EXCEPT ![s] = NoPlayback]
    /\ UNCHANGED <<mode, offline, server, call, sync, last, done, remote,
                   budget>>

ReplayFails(s) ==
    /\ playback[s].pc = "replay"
    /\ offline \/ budget.fail < MaxFailures
    /\ budget' = IF offline THEN budget ELSE [budget EXCEPT !.fail = @ + 1]
    /\ playback' = [playback EXCEPT ![s] = NoPlayback]
    /\ UNCHANGED <<mode, offline, cache, server, known, call, sync, last, done,
                   remote>>
-----------------------------------------------------------------------------
(* refresh and synchronize                                                 *)
-----------------------------------------------------------------------------
\* refresh, online: with a change log the offline items are played back
\* first; otherwise synchronize is called once the provider has loaded, and
\* does nothing if a synchronisation is in progress.
StartRefresh ==
    /\ call.pc = "none" \/ "busy" \in Faults
    /\ IF mode = "changelog"
       THEN /\ \E s \in FreeSlots :
                 /\ \A r \in FreeSlots : s <= r
                 /\ playback' = [playback EXCEPT ![s] = Started("refresh")]
            /\ UNCHANGED sync
       ELSE /\ FreeSlots = Slot \/ sync.pc # "none" \/ "overlap" \in Faults
            /\ sync' = IF sync.pc = "none"
                       THEN [NoSync EXCEPT !.pc = "snapshot"] ELSE sync
            /\ UNCHANGED playback

\* By the user or the timer of the calendar manager.
Refresh ==
    /\ ~offline
    /\ StartRefresh
    /\ UNCHANGED <<mode, offline, cache, server, known, call, last, done,
                   remote, budget>>

\* onOfflineStatusChanged
GoOnline ==
    /\ offline /\ offline' = FALSE
    /\ StartRefresh
    /\ UNCHANGED <<mode, cache, server, known, call, last, done, remote, budget>>

GoOffline ==
    /\ ~offline /\ offline' = TRUE
    /\ budget.toggle < MaxToggles
    /\ budget' = [budget EXCEPT !.toggle = @ + 1]
    /\ UNCHANGED <<mode, cache, server, known, call, playback, sync, last, done,
                   remote>>

\* getOfflineAddedItems and the two that follow it.
SyncSnapshot ==
    /\ sync.pc = "snapshot"
    /\ sync' = [pc |-> "get", saved |->
                  [i \in Item |-> IF cache[i].flag = "none" THEN NoRow
                                  ELSE cache[i]]]
    /\ UNCHANGED <<mode, offline, cache, server, known, call, playback, last,
                   done, remote, budget>>

\* onGetResult: setupCachedCalendar deletes everything there is in the cache,
\* and the items of the server are added.
SyncGets ==
    /\ sync.pc = "get" /\ ~offline
    /\ cache' = [i \in Item |-> [v |-> server[i], flag |-> "none"]]
    /\ known' = server
    /\ sync' = [sync EXCEPT !.pc = "renewed"]
    /\ UNCHANGED <<mode, offline, server, call, playback, last, done, remote,
                   budget>>

\* onOperationComplete with an error: the offline items are played back and
\* the synchronisation has ended at once.
SyncGetFails ==
    /\ sync.pc = "get"
    /\ offline \/ budget.fail < MaxFailures
    /\ budget' = IF offline THEN budget ELSE [budget EXCEPT !.fail = @ + 1]
    /\ \E s \in FreeSlots :
         playback' = [playback EXCEPT ![s] = Started("load")]
    /\ sync' = NoSync
    /\ UNCHANGED <<mode, offline, cache, server, known, call, last, done,
                   remote>>

\* onOperationComplete: what was changed offline is put back into the cache.
\* If the server has a newer version of the item, or none, the user is
\* asked whether to overwrite it, and may give the change up.
Asked(i, row) ==
    \/ row.flag = "modified" /\ (cache[i].v = 0 \/ cache[i].v > MaxOps)
    \/ row.flag = "deleted" /\ cache[i].v > MaxOps

PutBack(i, row) ==
    CASE row.flag = "none" -> cache[i]
      [] row.flag = "created" -> row
      [] row.flag = "modified" ->
           [v |-> row.v,
            flag |-> IF cache[i].v = 0 THEN "created" ELSE "modified"]
      [] row.flag = "deleted" -> WithFlag(i, "deleted")[i]

SyncCompletes ==
    /\ sync.pc = "renewed"
    /\ \E givenUp \in SUBSET {i \in Item : Asked(i, sync.saved[i])} :
         /\ cache' = [i \in Item |-> IF i \in givenUp THEN cache[i]
                                   ELSE PutBack(i, sync.saved[i])]
         /\ last' = [i \in Item |-> IF i \in givenUp
                                  THEN [op |-> 0, kind |-> "add"] ELSE last[i]]
    /\ \E s \in FreeSlots :
         playback' = [playback EXCEPT ![s] = Started("sync")]
    /\ sync' = [NoSync EXCEPT !.pc = "playing"]
    /\ UNCHANGED <<mode, offline, server, known, call, done, remote, budget>>
-----------------------------------------------------------------------------
(* The rest of the world                                                   *)
-----------------------------------------------------------------------------
Unused(i) ==
    cache[i].v = 0 /\ last[i].op = 0 /\ (call.pc # "none" => call.item # i)

RemoteWrites ==
    /\ budget.remote < MaxRemote
    /\ budget' = [budget EXCEPT !.remote = @ + 1]
    /\ \E i \in Item : \E v \in {0, MaxOps + budget.remote + 1} :
         /\ server[i] # v
         /\ server[i] = 0 => Unused(i)
         /\ server' = [server EXCEPT ![i] = v]
         /\ remote' = remote \cup {i}
    /\ UNCHANGED <<mode, offline, cache, known, call, playback, sync, last,
                   done>>

\* The program crashes and is started again; the cache is on disk.
Exposed ==
    \/ sync.pc = "renewed"
    \/ call.pc \in {"answer", "markModified"}
    \/ call.pc = "modify" /\ ~call.keep
    \/ \E s \in Slot : playback[s].pc = "answer"

Crash ==
    /\ budget.crash < MaxCrashes
    /\ Exposed => "crash" \in Faults
    /\ budget' = [budget EXCEPT !.crash = @ + 1]
    /\ call' = NoCall
    /\ playback' = [s \in Slot |-> NoPlayback]
    /\ sync' = NoSync
    /\ UNCHANGED <<mode, offline, cache, server, known, last, done, remote>>

CallGoesOn ==
    \/ ReadFlag \/ FacadeGetsFlag \/ ServerTakesCall \/ ServerFailsCall
    \/ CallAnswered \/ ModifyInCache \/ MarkModified \/ MarkDeleted

PlaybackGoesOn(s) ==
    \/ QueryItems(s) \/ ItemsFound(s) \/ ServerTakesItem(s)
    \/ ServerFailsItem(s) \/ ProviderThrows(s) \/ ItemAnswered(s)
    \/ Replay(s) \/ ReplayFails(s)

SyncGoesOn == SyncSnapshot \/ SyncGets \/ SyncGetFails \/ SyncCompletes

Next ==
    \/ CallOperation \/ CallGoesOn
    \/ \E s \in Slot : PlaybackGoesOn(s)
    \/ SyncGoesOn
    \/ Refresh \/ GoOnline \/ GoOffline
    \/ RemoteWrites \/ Crash

Spec == Init /\ [][Next]_vars

(* Every request is answered in the end, and the timer of the calendar     *)
(* manager refreshes the calendar again and again.                         *)
FairSpec ==
    /\ Spec
    /\ WF_vars(CallGoesOn)
    /\ \A s \in Slot : WF_vars(PlaybackGoesOn(s))
    /\ WF_vars(SyncGoesOn)
    /\ WF_vars(Refresh)
-----------------------------------------------------------------------------
(* Properties                                                              *)
-----------------------------------------------------------------------------
\* The row of an item, and the one that is about to be put back.
Rows(i) == {cache[i]} \cup (IF sync.pc = "renewed" THEN {sync.saved[i]} ELSE {})

(* A change the user was told had succeeded is never lost, unless another  *)
(* program has written the item: it has reached the server, or the cache   *)
(* still has it with a flag (adoptItem, modifyItem, deleteItem, playback-  *)
(* OfflineItems, synchronize).                                             *)
ChangesKept ==
    \A i \in Item \ remote :
      last[i].op # 0 =>
        IF last[i].kind = "delete"
        THEN \/ server[i] = 0 \/ server[i] > last[i].op
             \/ \E row \in Rows(i) : row.flag = "deleted"
        ELSE last[i].op \in done
               \/ \E row \in Rows(i) : /\ row.flag \in {"created", "modified"}
                                      /\ row.v >= last[i].op

(* What the cache shows without a flag is what the server was last known   *)
(* to have, whenever nothing is in progress, unless another program has    *)
(* written the item (then two playbacks of one item may disagree).         *)
CacheIsCopy ==
    Quiet /\ call.pc = "none" =>
      \A i \in Item \ remote : cache[i].flag = "none" => cache[i].v = known[i]

(* A change made offline reaches the server, or gives way to what the      *)
(* server has, once the program stays online: "The item still has the      *)
(* offline flag, so it will be taken care of next time" (the comment on a  *)
(* failed playback).                                                       *)
PlayedBack(m) ==
    <>[](~offline) =>
      \A i \in Item : (mode = m /\ \E row \in Rows(i) : row.flag # "none")
                        ~> \A row \in Rows(i) : row.flag = "none"

ChangeLogPlaysBack == PlayedBack("changelog")
FullSyncPlaysBack == PlayedBack("full")

(* A full synchronisation ends: those that wait for it in mSyncQueue are   *)
(* told, and the next one is not taken for one in progress; unless the     *)
(* provider throws an exception without a result while the offline items   *)
(* are played back: then mSyncQueue is never emptied until the program     *)
(* restarts, and no synchronisation starts any more.                       *)
SyncEnds == ~SyncRests ~> SyncRests
=============================================================================
