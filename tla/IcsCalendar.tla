---------------------------- MODULE IcsCalendar ----------------------------
(***************************************************************************)
(* The ICS provider: calICSCalendar, a calendar kept in one remote file.   *)
(* All operations go through a queue; what is taken from it is done on a   *)
(* memory calendar, which is then written back as a whole (a backup is     *)
(* downloaded first), and nothing else is taken until the write, or a      *)
(* download, has ended.  Transport hooks remember the version of the file  *)
(* (ETag over HTTP, modification time of a local file) so that the changes *)
(* other programs make to it are noticed.                                  *)
(*                                                                         *)
(* JavaScript runs one event at a time: js is the call in progress and an  *)
(* answer of the network or a call of a user is taken only when it is      *)
(* idle.  But the listener of a getItem is called from within              *)
(* processQueue, while the calendar is not locked, and what it calls runs  *)
(* processQueue once more: outer holds the loops that wait for it.         *)
(***************************************************************************)
EXTENDS Integers, Sequences, FiniteSets

CONSTANTS
    Item,           \* the items, by id
    MaxOps,         \* bound: calls of add, modify, delete and get
    MaxRefreshes,   \* bound: calls of refresh that wait in the queue
    MaxRemote,      \* bound: writes of other programs
    Hooks,          \* the transports: a subset of {"http", "file"}
    Forms,          \* what others write: among "ics", "broken", "notUtf8"
    BackupThrows,   \* whether makeBackup may throw: a subset of BOOLEAN
    StaleDeletes    \* whether items are deleted while the calendar is busy

ASSUME BoundsAssumption ==
    MaxOps \in Nat /\ MaxRefreshes \in Nat /\ MaxRemote \in Nat
ASSUME KindsAssumption ==
    /\ Hooks \subseteq {"http", "file"} /\ BackupThrows \subseteq BOOLEAN
    /\ Forms \subseteq {"ics", "broken", "notUtf8"}
    /\ StaleDeletes \in BOOLEAN

VARIABLES
    queue,      \* the operations not taken yet
    locked,     \* a download or a write is in progress
    pending,    \* mModificationActions: done in memory, not answered
    memory,     \* mMemoryCalendar
    tag,        \* the hooks' mEtag or mtime
    readOnly,   \* the calendar refuses modifications
    net,        \* the asynchronous requests in progress
    js,         \* the call in progress
    outer,      \* the calls that wait for it, the innermost last
    reentered,  \* a request was started from within a listener of getItem
    server,     \* the remote file
    ops,        \* every operation called, with what its listener was told
    stored,     \* the operations some version of the remote file contained
    transport   \* the hooks in use, and whether a PUT is answered an ETag

vars == <<queue, locked, pending, memory, tag, readOnly, net, js, outer,
          reentered, server, ops, stored, transport>>
nesting == <<outer, reentered>>
-----------------------------------------------------------------------------
(* An item is known by its last writer: operation n writes n, the n-th     *)
(* write of another program writes MaxOps + n, and 0 is no item.  The      *)
(* versions of the remote file are numbered from 1 on, 0 is no ETag.       *)
Version == 0 .. MaxOps + MaxRemote
Content == [Item -> Version]
NoItems == [i \in Item |-> 0]
NoTag == 0

Modification == {"add", "modify", "delete"}
OpId == 1 .. MaxOps

Action ==
    [action : Modification \cup {"get"}, item : Item, old : Version, op : OpId]
      \cup [action : {"refresh"}, force : BOOLEAN]

\* Requests in progress are told apart by n.
Request ==
    [kind : {"get"}, n : Nat, force : BOOLEAN]
      \cup [kind : {"backup", "propfind"}, n : Nat]
      \cup [kind : {"put"}, n : Nat, items : Content, base : Nat,
            ops : SUBSET OpId, tag : Nat]

\* The first number that is not in use.  There is at most one request more
\* than there are operations.
Unused(n) == /\ \A r \in net : r.n # n
             /\ \A m \in 0 .. n - 1 : \E r \in net : r.n = m

\* cont: what the caller of the call in progress does when it returns or
\* throws.  heard: a listener was told, and may make a call of its own.
Call == [pc : {"idle", "process", "loop", "write", "unlock", "return"},
         err : BOOLEAN, heard : BOOLEAN, wrote : BOOLEAN, thrown : BOOLEAN,
         cont : {"none", "tryAfterPut", "tryBeforePut", "forceRefresh"}]

Idle == [pc |-> "idle", err |-> FALSE, heard |-> FALSE, wrote |-> FALSE,
         thrown |-> FALSE, cont |-> "none"]
Running(pc) == [Idle EXCEPT !.pc = pc]
Unlocking(err, cont) == [Running("unlock") EXCEPT !.err = err, !.cont = cont]

(***************************************************************************)
(* Type invariant                                                          *)
(***************************************************************************)
TypeOK ==
    /\ queue \in Seq(Action)
    /\ locked \in BOOLEAN
    /\ pending \in Seq([op : OpId, ok : BOOLEAN])
    /\ memory \in [items : Content, base : Nat, ops : SUBSET OpId]
    /\ tag \in Nat
    /\ readOnly \in BOOLEAN
    /\ net \subseteq Request
    /\ js \in Call /\ outer \in Seq(Call) /\ reentered \in BOOLEAN
    /\ server \in [items : Content, tag : Nat, from : Nat, remote : Nat,
                   form : {"ics", "broken", "notUtf8"}]
    /\ ops \in Seq([action : Modification \cup {"get"},
                    told : {"none", "ok", "failed"}])
    /\ stored \subseteq OpId
    /\ transport \in [hooks : Hooks, putTag : BOOLEAN]

(* The calendar has downloaded the first version of the file.              *)
Init ==
    /\ queue = <<>> /\ pending = <<>> /\ ops = <<>>
    /\ locked = FALSE /\ readOnly = FALSE
    /\ server = [items |-> NoItems, tag |-> 1, from |-> 0, remote |-> 0,
                 form |-> "ics"]
    /\ memory = [items |-> NoItems, base |-> 1, ops |-> {}]
    /\ tag = 1
    /\ net = {} /\ js = Idle /\ stored = {}
    /\ outer = <<>> /\ reentered = FALSE
    /\ transport \in [hooks : Hooks, putTag : BOOLEAN]
    /\ transport.hooks = "file" => transport.putTag
-----------------------------------------------------------------------------
(* The calls of users.                                                     *)
-----------------------------------------------------------------------------
FaultyPush(kind, i) ==
    /\ Len(ops) < MaxOps
    /\ kind \in Modification => ~readOnly
    /\ kind = "add" => memory.items[i] = 0
    /\ kind \in {"modify", "delete"} => memory.items[i] # 0
    /\ kind = "delete" /\ ~StaleDeletes => queue = <<>> /\ ~locked
    /\ queue' = <<[action |-> kind, item |-> i, old |-> memory.items[i],
                   op |-> Len(ops) + 1]>> \o queue
    /\ ops' = Append(ops, [action |-> kind, told |-> "none"])
    /\ UNCHANGED <<locked, pending, memory, tag, readOnly, net, server,
                   stored, transport>>

\* A modification is refused, with an exception, once the calendar is
\* read-only; everything else is queued.
Push(kind, i) ==
    /\ Len(ops) < MaxOps
    /\ kind \in Modification => ~readOnly
    /\ kind = "add" => memory.items[i] = 0
    /\ kind \in {"modify", "delete"} => memory.items[i] # 0
    /\ kind = "delete" /\ ~StaleDeletes => queue = <<>> /\ ~locked
    /\ queue' = Append(queue, [action |-> kind, item |-> i,
                               old |-> memory.items[i], op |-> Len(ops) + 1])
    /\ ops' = Append(ops, [action |-> kind, told |-> "none"])
    /\ UNCHANGED <<locked, pending, memory, tag, readOnly, net, server,
                   stored, transport>>

\* The file may be refreshed any number of times; MaxRefreshes bounds the
\* refreshes that wait at once.
PushRefresh ==
    /\ Cardinality({n \in DOMAIN queue : queue[n].action = "refresh"})
         < MaxRefreshes
    /\ queue' = Append(queue, [action |-> "refresh", force |-> FALSE])
    /\ UNCHANGED <<locked, pending, memory, tag, readOnly, net, server, ops,
                   stored, transport>>

PushOperation ==
    \E kind \in Modification \cup {"get"}, i \in Item : Push(kind, i)

\* adoptItem, modifyItem, deleteItem, getItem
CallOperation ==
    /\ js.pc = "idle"
    /\ PushOperation
    /\ js' = Running("process")
    /\ UNCHANGED nesting

\* refresh
CallRefresh ==
    /\ js.pc = "idle"
    /\ PushRefresh
    /\ js' = Running("process")
    /\ UNCHANGED nesting

\* The same from a listener: unlock tells the listeners while the calendar
\* is still locked, so that processQueue does nothing.
CallFromListener ==
    /\ js.pc = "unlock" /\ js.heard /\ locked
    /\ PushOperation \/ PushRefresh
    /\ UNCHANGED js /\ UNCHANGED nesting

\* The same from the listener of a getItem, which processQueue calls:
\* processQueue is run within the call in progress.  A listener refreshes
\* once at most.
CallWithin ==
    /\ js.pc = "loop" /\ js.heard
    /\ \/ PushOperation /\ outer' = Append(outer, js)
       \/ PushRefresh /\ outer' = Append(outer, [js EXCEPT !.heard = FALSE])
    /\ js' = Running("process")
    /\ UNCHANGED reentered
-----------------------------------------------------------------------------
(* processQueue                                                            *)
-----------------------------------------------------------------------------
ProcessQueue ==
    /\ js.pc = "process"
    /\ js' = [js EXCEPT !.pc = IF locked THEN "return" ELSE "loop",
                        !.wrote = FALSE, !.heard = FALSE]
    /\ UNCHANGED nesting
    /\ UNCHANGED <<queue, locked, pending, memory, tag, readOnly, net, server,
                   ops, stored, transport>>

\* The memory calendar takes an addition always, a modification or a
\* deletion only of the version of the item its caller saw.  A deletion of
\* an item it does not have throws: it reads the generation of undefined.
Accepts(a) == a.action = "add" \/ (memory.items[a.item] = a.old /\ a.old # 0)
Throws(a) == a.action = "delete" /\ memory.items[a.item] = 0

FaultyModify ==
    /\ js.pc = "loop" /\ queue # <<>>
    /\ Head(queue).action \in Modification
    /\ LET a == Head(queue)
           value == IF a.action = "delete" THEN 0 ELSE a.op IN
       /\ queue' = Tail(queue)
       /\ js' = [js EXCEPT !.wrote = TRUE, !.heard = FALSE]
       /\ IF ~Accepts(a) THEN UNCHANGED <<memory, pending>>
          ELSE /\ pending' = Append(pending, [op |-> a.op, ok |-> TRUE])
               /\ memory' = [memory EXCEPT !.items[a.item] = value,
                                           !.ops = @ \cup {a.op}]
    /\ UNCHANGED nesting
    /\ UNCHANGED <<locked, tag, readOnly, net, server, ops, stored, transport>>

\* A modification is done in memory; its listener is told when the file
\* has been written.  (The handler of doWriteICS, reporting an exception,
\* reads the result of it, which that of a deletion does not have: it leaves
\* the handler too.)
Modify ==
    /\ js.pc = "loop" /\ queue # <<>>
    /\ Head(queue).action \in Modification
    /\ LET a == Head(queue)
           value == IF a.action = "delete" THEN 0 ELSE a.op IN
       /\ queue' = Tail(queue)
       /\ IF Throws(a)
          THEN /\ js' = [js EXCEPT !.pc = "return", !.thrown = TRUE,
                           !.cont = IF @ = "tryBeforePut" THEN "none" ELSE @]
               /\ UNCHANGED <<memory, pending>>
          ELSE /\ js' = [js EXCEPT !.wrote = TRUE, !.heard = FALSE]
               /\ pending' = Append(pending, [op |-> a.op, ok |-> Accepts(a)])
               /\ memory' = IF Accepts(a)
                            THEN [memory EXCEPT !.items[a.item] = value,
                                                !.ops = @ \cup {a.op}]
                            ELSE memory
    /\ UNCHANGED nesting
    /\ UNCHANGED <<locked, tag, readOnly, net, server, ops, stored, transport>>

\* getItem is answered at once: the memory calendar calls the listener.
Get ==
    /\ js.pc = "loop" /\ queue # <<>>
    /\ Head(queue).action = "get"
    /\ queue' = Tail(queue)
    /\ ops' = [ops EXCEPT ![Head(queue).op].told = "ok"]
    /\ js' = [js EXCEPT !.heard = TRUE]
    /\ UNCHANGED nesting
    /\ UNCHANGED <<locked, pending, memory, tag, readOnly, net, server,
                   stored, transport>>

\* The end of the queue, or a refresh.  If something was modified the file
\* is written first and the refresh stays at the front of the queue;
\* otherwise doRefresh locks and starts the download, which may fail at once
\* (the network is down).  It does not look whether a listener has made the
\* calendar locked meanwhile.
LoopEnds ==
    /\ js.pc = "loop"
    /\ queue # <<>> => Head(queue).action = "refresh"
    /\ IF js.wrote \/ queue = <<>>
       THEN /\ js' = [js EXCEPT !.pc = IF js.wrote THEN "write" ELSE "return"]
            /\ UNCHANGED <<queue, locked, net, reentered>>
       ELSE /\ queue' = Tail(queue)
            /\ locked' = TRUE
            /\ reentered' = (reentered \/ outer # <<>>)
            /\ \E started \in BOOLEAN, n \in 0 .. MaxOps :
                 /\ Unused(n)
                 /\ net' = IF ~started THEN net ELSE
                            net \cup {[kind |-> "get", n |-> n,
                                       force |-> Head(queue).force]}
                 /\ js' = IF started THEN [js EXCEPT !.pc = "return"]
                          ELSE [js EXCEPT !.pc = "unlock", !.err = FALSE,
                                          !.heard = FALSE]
    /\ UNCHANGED <<outer, pending, memory, tag, readOnly, server, ops, stored,
                   transport>>

\* writeICS: the calendar is locked and a backup of the file downloaded.
\* If that throws, the modifications have failed; the exception goes on to
\* the caller.  The lock is not looked at here either.
WriteICS ==
    /\ js.pc = "write"
    /\ locked' = TRUE
    /\ reentered' = (reentered \/ outer # <<>>)
    /\ \E throws \in BackupThrows, n \in 0 .. MaxOps :
         /\ Unused(n)
         /\ net' = IF throws THEN net
                   ELSE net \cup {[kind |-> "backup", n |-> n]}
         /\ js' = IF throws
                  THEN [js EXCEPT !.pc = "unlock", !.err = TRUE,
                                  !.heard = FALSE, !.thrown = TRUE]
                  ELSE [js EXCEPT !.pc = "return"]
    /\ UNCHANGED <<outer, queue, pending, memory, tag, readOnly, server, ops, stored,
                   transport>>
-----------------------------------------------------------------------------
(* unlock                                                                  *)
-----------------------------------------------------------------------------
FaultyTellListener ==
    /\ js.pc = "unlock" /\ pending # <<>>
    /\ LET p == Head(pending) IN
       ops' = [ops EXCEPT ![p.op].told = IF p.ok THEN "ok" ELSE "failed"]
    /\ pending' = Tail(pending)
    /\ js' = [js EXCEPT !.heard = TRUE]
    /\ UNCHANGED nesting
    /\ UNCHANGED <<queue, locked, memory, tag, readOnly, net, server, stored,
                   transport>>

\* The next listener is told how its modification ended: the answer of the
\* memory calendar, or the error of the write.
TellListener ==
    /\ js.pc = "unlock" /\ pending # <<>>
    /\ LET p == Head(pending) IN
       ops' = [ops EXCEPT ![p.op].told =
                 IF p.ok /\ ~js.err THEN "ok" ELSE "failed"]
    /\ pending' = Tail(pending)
    /\ js' = [js EXCEPT !.heard = TRUE]
    /\ UNCHANGED nesting
    /\ UNCHANGED <<queue, locked, memory, tag, readOnly, net, server, stored,
                   transport>>

Unlock ==
    /\ js.pc = "unlock" /\ pending = <<>>
    /\ locked' = FALSE
    /\ js' = [js EXCEPT !.pc = "process", !.err = FALSE]
    /\ UNCHANGED nesting
    /\ UNCHANGED <<queue, pending, memory, tag, readOnly, net, server, ops,
                   stored, transport>>

FaultyReturn ==
    /\ js.pc = "return" /\ outer = <<>>
    /\ net' = IF js.thrown /\ js.cont = "tryAfterPut"
              THEN net \cup {[kind |-> "propfind", n |-> 0]} ELSE net
    /\ readOnly' = (readOnly \/ (js.thrown /\ js.cont = "tryBeforePut"))
    /\ queue' = IF ~js.thrown /\ js.cont = "forceRefresh"
                THEN Append(queue, [action |-> "refresh"]) ELSE queue
    /\ js' = IF ~js.thrown /\ js.cont = "forceRefresh"
             THEN Running("process")
             ELSE IF js.thrown /\ js.cont = "tryBeforePut"
                  THEN Unlocking(TRUE, "forceRefresh") ELSE Idle
    /\ UNCHANGED nesting
    /\ UNCHANGED <<locked, pending, memory, tag, server, ops, stored,
                   transport>>

\* Back in the caller.  The two try blocks an unlock may run in:
\* onAfterPut takes any exception for a missing ETag header and asks the
\* server for the ETag; doWriteICS reports the failure once more.
Return ==
    /\ js.pc = "return" /\ outer = <<>>
    /\ IF js.thrown /\ js.cont = "tryAfterPut"
       THEN \E n \in 0 .. MaxOps :
              Unused(n) /\ net' = net \cup {[kind |-> "propfind", n |-> n]}
       ELSE UNCHANGED net
    /\ readOnly' = (readOnly \/ (js.thrown /\ js.cont = "tryBeforePut"))
    /\ queue' = IF ~js.thrown /\ js.cont = "forceRefresh"
                THEN Append(queue, [action |-> "refresh", force |-> TRUE])
                ELSE queue
    /\ js' = IF ~js.thrown /\ js.cont = "forceRefresh"
             THEN Running("process")
             ELSE IF js.thrown /\ js.cont = "tryBeforePut"
                  THEN Unlocking(TRUE, "forceRefresh") ELSE Idle
    /\ UNCHANGED nesting
    /\ UNCHANGED <<locked, pending, memory, tag, server, ops, stored,
                   transport>>

\* Back in a listener, and in the call that had called it: an exception is
\* caught there (notifyPureOperationComplete), or not (onGetResult).
ReturnWithin ==
    /\ js.pc = "return" /\ outer # <<>>
    /\ LET caller == outer[Len(outer)] IN
       \/ js' = caller
       \/ /\ js.thrown
          /\ js' = [caller EXCEPT !.pc = "return", !.thrown = TRUE]
    /\ outer' = SubSeq(outer, 1, Len(outer) - 1)
    /\ UNCHANGED <<queue, locked, pending, memory, tag, readOnly, net,
                   reentered, server, ops, stored, transport>>
-----------------------------------------------------------------------------
(* The answers of the network                                              *)
-----------------------------------------------------------------------------
Answered(r, kind) == js.pc = "idle" /\ r.kind = kind

\* onStreamComplete: the download failed, or there is nothing new (the
\* server was sent the ETag, the file has the time it had), or the file is
\* gone: the items are kept.
GetKeepsData(r) ==
    /\ Answered(r, "get")
    /\ net' = net \ {r}
    /\ js' = Unlocking(FALSE, "none")
    /\ UNCHANGED nesting
    /\ UNCHANGED <<queue, locked, pending, memory, tag, readOnly, server, ops,
                   stored, transport>>

\* onStreamComplete: the file is read.  The hooks keep its version first.
\* What is not UTF-8 is reported, which makes the calendar read-only; a
\* file that cannot be parsed is an empty calendar, for onParsingComplete
\* is called with the error code and does not look at it.
GetLoads(r) ==
    /\ Answered(r, "get")
    /\ r.force \/ tag = NoTag \/ tag # server.tag
    /\ net' = net \ {r}
    /\ tag' = server.tag
    /\ readOnly' = (readOnly \/ server.form = "notUtf8")
    /\ memory' =
         CASE server.form = "ics" ->
                [items |-> server.items, base |-> server.tag, ops |-> {}]
           [] server.form = "broken" ->
                [items |-> NoItems, base |-> 0, ops |-> {}]
           [] OTHER -> memory
    /\ js' = Unlocking(FALSE, "none")
    /\ UNCHANGED nesting
    /\ UNCHANGED <<queue, locked, pending, server, ops, stored, transport>>

\* doWriteICS: the backup has ended and the items of the memory calendar
\* are there.  A local file that was written since is not touched;
\* otherwise the upload starts, or throws.
ChangedFile == transport.hooks = "file" /\ tag # NoTag /\ tag # server.tag

PutRefused(r) ==
    /\ Answered(r, "backup")
    /\ ChangedFile
    /\ net' = net \ {r}
    /\ readOnly' = TRUE
    /\ js' = Unlocking(TRUE, "tryBeforePut")
    /\ UNCHANGED nesting
    /\ UNCHANGED <<queue, locked, pending, memory, tag, server, ops, stored,
                   transport>>

FaultyPutStarts(r) ==
    /\ Answered(r, "backup")
    /\ ~ChangedFile
    /\ net' = (net \ {r}) \cup
                {[kind |-> "put", n |-> r.n, items |-> memory.items,
                  base |-> memory.base, ops |-> memory.ops, tag |-> NoTag]}
    /\ UNCHANGED nesting
    /\ UNCHANGED <<queue, locked, pending, memory, tag, readOnly, js, server,
                   ops, stored, transport>>

PutStarts(r) ==
    /\ Answered(r, "backup")
    /\ ~ChangedFile
    /\ net' = (net \ {r}) \cup
                {[kind |-> "put", n |-> r.n, items |-> memory.items,
                  base |-> memory.base, ops |-> memory.ops, tag |-> tag]}
    /\ UNCHANGED nesting
    /\ UNCHANGED <<queue, locked, pending, memory, tag, readOnly, js, server,
                   ops, stored, transport>>

PutThrows(r) ==
    /\ Answered(r, "backup")
    /\ ~ChangedFile
    /\ net' = net \ {r}
    /\ readOnly' = TRUE
    /\ js' = Unlocking(TRUE, "forceRefresh")
    /\ UNCHANGED nesting
    /\ UNCHANGED <<queue, locked, pending, memory, tag, server, ops, stored,
                   transport>>

\* The server replaces the file.  A PUT with an If header is refused if the
\* file has another ETag.
Accepted(r) == transport.hooks = "http" => r.tag \in {NoTag, server.tag}

ServerStores(r) ==
    /\ server' = [server EXCEPT !.items = r.items, !.tag = @ + 1,
                                !.from = r.base, !.form = "ics"]
    /\ stored' = stored \cup r.ops

\* onStopRequest after a success, and the hooks' onAfterPut: the new ETag
\* is in the answer, or has to be asked for.
PutSucceeds(r) ==
    /\ Answered(r, "put")
    /\ Accepted(r)
    /\ ServerStores(r)
    /\ memory' = [memory EXCEPT !.base = server'.tag]
    /\ LET known == transport.hooks = "file" \/ transport.putTag IN
       /\ net' = (net \ {r}) \cup
                   (IF known THEN {} ELSE {[kind |-> "propfind", n |-> r.n]})
       /\ tag' = IF known THEN server'.tag ELSE tag
       /\ js' = IF known
                THEN Unlocking(FALSE, IF transport.hooks = "http"
                                      THEN "tryAfterPut" ELSE "none")
                ELSE js
    /\ UNCHANGED nesting
    /\ UNCHANGED <<queue, locked, pending, readOnly, ops, transport>>

FaultyPutFails(r) ==
    /\ Answered(r, "put")
    /\ \/ UNCHANGED <<server, stored>>
       \/ Accepted(r) /\ ServerStores(r)
    /\ net' = net \ {r}
    /\ readOnly' = TRUE
    /\ queue' = Append(queue, [action |-> "refresh", force |-> TRUE])
    /\ js' = Idle
    /\ UNCHANGED nesting
    /\ UNCHANGED <<locked, pending, memory, tag, ops, transport>>

\* onStopRequest after a failure: a refresh is queued, behind what was
\* called meanwhile, and the modifications have failed.  The server may
\* have stored the file all the same, if its answer was lost.
PutFails(r) ==
    /\ Answered(r, "put")
    /\ \/ UNCHANGED <<server, stored>>
       \/ Accepted(r) /\ ServerStores(r)
    /\ net' = net \ {r}
    /\ readOnly' = TRUE
    /\ queue' = Append(queue, [action |-> "refresh", force |-> TRUE])
    /\ js' = Unlocking(TRUE, "none")
    /\ UNCHANGED nesting
    /\ UNCHANGED <<locked, pending, memory, tag, ops, transport>>

\* The answer to the request for the ETag: it is looked for under a
\* propfind element, which no answer has, so that there is none.
PropfindAnswered(r) ==
    /\ Answered(r, "propfind")
    /\ net' = net \ {r}
    /\ tag' = NoTag
    /\ js' = Unlocking(FALSE, "none")
    /\ UNCHANGED nesting
    /\ UNCHANGED <<queue, locked, pending, memory, readOnly, server, ops,
                   stored, transport>>
-----------------------------------------------------------------------------
(* Another program writes the file.                                        *)
-----------------------------------------------------------------------------
RemoteWrites ==
    /\ js.pc = "idle" /\ server.remote < MaxRemote
    /\ \E form \in Forms, i \in Item,
          value \in {MaxOps + server.remote + 1}
                      \cup (IF StaleDeletes THEN {0} ELSE {}) :
         server' = [server EXCEPT !.items[i] = value, !.tag = @ + 1,
                                  !.from = server.tag, !.remote = @ + 1,
                                  !.form = form]
    /\ UNCHANGED nesting
    /\ UNCHANGED <<queue, locked, pending, memory, tag, readOnly, net, js, ops,
                   stored, transport>>

Step ==
    ProcessQueue \/ Modify \/ Get \/ LoopEnds \/ WriteICS \/ TellListener
      \/ Unlock \/ Return \/ ReturnWithin

NetAnswers(r) ==
    \/ GetKeepsData(r) \/ GetLoads(r)
    \/ PutRefused(r) \/ PutStarts(r) \/ PutThrows(r)
    \/ PutSucceeds(r) \/ PutFails(r) \/ PropfindAnswered(r)

Next ==
    \/ CallOperation \/ CallRefresh \/ CallFromListener \/ CallWithin
    \/ Step
    \/ \E r \in net : NetAnswers(r)
    \/ RemoteWrites

Spec == Init /\ [][Next]_vars

(* The call in progress goes on, and the network answers every request,    *)
(* well or badly.                                                          *)
FairSpec ==
    Spec /\ WF_vars(Step) /\ WF_vars(\E r \in net : NetAnswers(r))
-----------------------------------------------------------------------------
(* Properties                                                              *)
-----------------------------------------------------------------------------
(* The lock is held exactly while one request is in progress: there are    *)
(* never two writes, or a write and a download, at once, and the calendar  *)
(* never stays locked with nothing that would unlock it.  unlock asserts   *)
(* that the calendar is locked; every way a download or a write can end    *)
(* has to reach it, once.  It holds until a request is started from within *)
(* the listener of a getItem (reentered): then processQueue, back in its   *)
(* loop, goes on as if the calendar were not locked, and two may run.      *)
OneRequest ==
    ~reentered =>
      /\ js.pc = "idle" => locked = (net # {})
      /\ \A r, s \in net : r = s
      /\ js.pc = "unlock" => locked /\ net = {}

(* A listener is told that its modification has succeeded only after the   *)
(* server has stored a version of the file with it, whatever was queued,   *)
(* refreshed or refused meanwhile (unlock, mModificationActions).  It too  *)
(* holds until a request is started from within a listener of getItem: the *)
(* unlock after a download then answers what no write has stored.          *)
OkMeansStored ==
    ~reentered =>
      \A o \in DOMAIN ops :
        ops[o].action \in Modification /\ ops[o].told = "ok" => o \in stored

(* With a server that gives the ETag of a stored file in its answer, the   *)
(* file is only replaced by one made from the version it has: a change of  *)
(* another program is never overwritten ("to protect remote changes from   *)
(* being overwritten", the comment on the hooks).                          *)
RemoteKept ==
    [][transport = [hooks |-> "http", putTag |-> TRUE] =>
         server'.from = server.tag]_(server.tag)

(* A file that cannot be read is not overwritten: "Will ignore errors.     *)
(* That's a good thing for non-existing or empty files, but not good for   *)
(* invalid files. That's why we put them in readOnly mode" (the comment in *)
(* onStreamComplete).  It is about a file the calendar has downloaded: the *)
(* version it remembers is that file's.                                    *)
InvalidKept ==
    [][server.form # "ics" /\ tag = server.tag
         => server'.remote # server.remote]_(server.tag)

(* The listeners of modifications are told in the order of the calls,      *)
(* however they are batched into writes.                                   *)
ToldInOrder ==
    \A o, p \in DOMAIN ops :
      /\ o < p
      /\ ops[o].action \in Modification /\ ops[p].action \in Modification
      /\ ops[p].told # "none"
      => ops[o].told # "none"

(* Every operation ends: once no more of them are called (MaxOps), every   *)
(* listener has been told, although refreshes, failed writes and the calls *)
(* of other listeners may come before it.                                  *)
EveryOperationEnds ==
    <>[](\A o \in DOMAIN ops : ops[o].told # "none")
=============================================================================
