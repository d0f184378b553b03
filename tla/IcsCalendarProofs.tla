-------------------------- MODULE IcsCalendarProofs --------------------------
(***************************************************************************)
(* Proofs about the ICS provider: types for every instance; and, as long   *)
(* as nothing throws inside processQueue, that one request is in progress  *)
(* at a time and that listeners are told the truth, in order.              *)
(***************************************************************************)
EXTENDS IcsCalendar, TLAPS

USE DEF Modification, OpId, nesting, PushOperation
-----------------------------------------------------------------------------
(* Sequences                                                               *)
-----------------------------------------------------------------------------
(* What Append does to the elements of a queue.                            *)
LEMMA AppendElements ==
  ASSUME NEW S, NEW s \in Seq(S), NEW e \in S
  PROVE  /\ Append(s, e) \in Seq(S)
         /\ DOMAIN s = 1 .. Len(s) /\ Len(s) \in Nat
         /\ DOMAIN Append(s, e) = 1 .. Len(s) + 1
         /\ \A n \in DOMAIN s : Append(s, e)[n] = s[n] /\ s[n] \in S
         /\ Append(s, e)[Len(s) + 1] = e
         /\ Append(s, e) # <<>>
  OBVIOUS

(* What is taken from the front of a queue, and what stays.                *)
LEMMA TailElements ==
  ASSUME NEW S, NEW s \in Seq(S), s # <<>>
  PROVE  /\ Tail(s) \in Seq(S) /\ Head(s) \in S
         /\ 1 \in DOMAIN s /\ Head(s) = s[1]
         /\ DOMAIN s = 1 .. Len(s) /\ Len(s) \in Nat
         /\ DOMAIN Tail(s) = 1 .. Len(s) - 1
         /\ \A n \in DOMAIN Tail(s) : Tail(s)[n] = s[n + 1]
  OBVIOUS
-----------------------------------------------------------------------------
(* Types                                                                   *)
-----------------------------------------------------------------------------
RequestFields ==
  \A r \in Request :
    /\ r.kind \in {"get", "backup", "propfind", "put"}
    /\ r.n \in Nat
    /\ r.kind = "put" =>
         r.items \in Content /\ r.base \in Nat /\ r.ops \subseteq OpId

LEMMA RequestTypes == RequestFields
  BY DEF Request, RequestFields

Place == {"idle", "process", "loop", "write", "unlock", "return"}

(* The calls in progress that the actions make.                            *)
LEMMA CallTypes ==
  /\ Idle \in Call
  /\ \A pc \in Place : Running(pc) \in Call
  /\ \A err \in BOOLEAN,
       cont \in {"none", "tryAfterPut", "tryBeforePut", "forceRefresh"} :
       Unlocking(err, cont) \in Call
  BY DEF Idle, Running, Unlocking, Call, Place

LEMMA CallUpdates ==
  ASSUME NEW c \in Call
  PROVE  /\ \A pc \in Place : [c EXCEPT !.pc = pc] \in Call
         /\ \A pc \in Place :
              [c EXCEPT !.pc = pc, !.wrote = FALSE, !.heard = FALSE] \in Call
         /\ [c EXCEPT !.pc = "process", !.err = FALSE] \in Call
         /\ [c EXCEPT !.pc = "return", !.thrown = TRUE] \in Call
         /\ [c EXCEPT !.pc = "return", !.thrown = TRUE,
                      !.cont = IF @ = "tryBeforePut" THEN "none" ELSE @]
              \in Call
         /\ [c EXCEPT !.wrote = TRUE, !.heard = FALSE] \in Call
         /\ [c EXCEPT !.heard = FALSE] \in Call
         /\ [c EXCEPT !.heard = TRUE] \in Call
         /\ [c EXCEPT !.pc = "unlock", !.err = FALSE, !.heard = FALSE] \in Call
         /\ [c EXCEPT !.pc = "unlock", !.err = TRUE, !.heard = FALSE,
                      !.thrown = TRUE] \in Call
  BY DEF Call, Place

LEMMA ActionTypes ==
  /\ \A a \in Action : /\ a.action \in Modification \cup {"get", "refresh"}
                       /\ a.action # "refresh" =>
                            /\ a.item \in Item /\ a.op \in OpId
                            /\ a.old \in Version
                       /\ a.action = "refresh" => a.force \in BOOLEAN
  /\ \A force \in BOOLEAN : [action |-> "refresh", force |-> force] \in Action
  /\ \A kind \in Modification \cup {"get"}, i \in Item, v \in Version,
       o \in OpId :
       [action |-> kind, item |-> i, old |-> v, op |-> o] \in Action
  BY DEF Action

LEMMA RequestUpdates ==
  /\ \A n \in Nat : /\ [kind |-> "backup", n |-> n] \in Request
                     /\ [kind |-> "propfind", n |-> n] \in Request
  /\ \A n \in Nat, force \in BOOLEAN :
       [kind |-> "get", n |-> n, force |-> force] \in Request
  /\ \A n \in Nat, items \in Content, base \in Nat, o \in SUBSET OpId,
        tg \in Nat :
       [kind |-> "put", n |-> n, items |-> items, base |-> base, ops |-> o,
        tag |-> tg] \in Request
  /\ \A n \in 0 .. MaxOps : n \in Nat
  BY DEF Request

(* The queue of modifications waiting for an answer, and the operations.   *)
Waiting == [op : OpId, ok : BOOLEAN]
Operation == [action : Modification \cup {"get"}, told : {"none", "ok", "failed"}]
Store == [items : Content, base : Nat, ops : SUBSET OpId]
File == [items : Content, tag : Nat, from : Nat, remote : Nat,
         form : {"ics", "broken", "notUtf8"}]

LEMMA Told ==
  ASSUME NEW s \in Seq(Operation), NEW o, NEW answer \in {"ok", "failed"}
  PROVE  [s EXCEPT ![o].told = answer] \in Seq(Operation)
  <1> DEFINE u == [s EXCEPT ![o].told = answer]
  <1>1. s \in [1 .. Len(s) -> Operation] /\ Len(s) \in Nat
    OBVIOUS
  <1>2. \A x \in Operation : [x EXCEPT !.told = answer] \in Operation
    BY DEF Operation
  <1>3. u \in [1 .. Len(s) -> Operation]
    BY <1>1, <1>2
  <1> QED
    BY <1>1, <1>3

LEMMA InitType == Init => TypeOK
  <1> SUFFICES ASSUME Init PROVE TypeOK
    OBVIOUS
  <1>1. NoItems \in Content
    BY BoundsAssumption DEF NoItems, Content, Version
  <1>2. memory \in Store /\ server \in File
    BY <1>1 DEF Init, Store, File
  <1>3. Idle \in Call
    BY CallTypes
  <1>4. /\ queue \in Seq(Action) /\ pending \in Seq(Waiting)
        /\ ops \in Seq(Operation)
    BY DEF Init
  <1>6. outer \in Seq(Call) /\ reentered \in BOOLEAN
    <2>1. outer = <<>>
      BY DEF Init
    <2>2. <<>> \in Seq(Call)
      OBVIOUS
    <2>3. outer \in Seq(Call)
      BY <2>1, <2>2
    <2>4. reentered \in BOOLEAN
      BY DEF Init
    <2> QED
      BY <2>3, <2>4
  <1>5. /\ locked \in BOOLEAN /\ readOnly \in BOOLEAN /\ tag \in Nat
        /\ net \subseteq Request /\ js \in Call /\ stored \subseteq OpId
        /\ transport \in [hooks : Hooks, putTag : BOOLEAN]
    BY <1>3 DEF Init
  <1> QED
    BY <1>2, <1>4, <1>5, <1>6 DEF TypeOK, Store, File, Waiting, Operation

(***************************************************************************)
(* A call adds an operation and an action.                                 *)
(***************************************************************************)
LEMMA PushType ==
  ASSUME TypeOK, NEW kind \in Modification \cup {"get"}, NEW i \in Item,
         Push(kind, i), js' \in Call, outer' \in Seq(Call),
         reentered' \in BOOLEAN
  PROVE  TypeOK'
  <1>1. Len(ops) + 1 \in OpId
    BY BoundsAssumption DEF TypeOK, Push
  <1>2. memory.items[i] \in Version
    BY DEF TypeOK, Content
  <1>3. queue' \in Seq(Action)
    BY <1>1, <1>2, ActionTypes, AppendElements DEF Push, TypeOK
  <1>4. ops' \in Seq(Operation)
    <2>1. [action |-> kind, told |-> "none"] \in Operation
      BY DEF Operation
    <2> QED
      BY <2>1, AppendElements DEF Push, TypeOK, Operation
  <1> QED
    BY <1>3, <1>4 DEF Push, TypeOK, Operation

LEMMA PushRefreshType ==
  ASSUME TypeOK, PushRefresh, js' \in Call, outer' \in Seq(Call),
         reentered' \in BOOLEAN
  PROVE  TypeOK'
  BY ActionTypes, AppendElements DEF PushRefresh, TypeOK

(* The caller in which a nested call returns.                              *)
LEMMA OuterTypes ==
  ASSUME TypeOK
  PROVE  /\ outer \in Seq(Call) /\ reentered \in BOOLEAN
         /\ \A c \in Call : Append(outer, c) \in Seq(Call)
         /\ \A n \in DOMAIN outer : outer[n] \in Call
         /\ outer # <<>> =>
              /\ Len(outer) \in DOMAIN outer
              /\ SubSeq(outer, 1, Len(outer) - 1) \in Seq(Call)
  <1>1. outer \in Seq(Call) /\ reentered \in BOOLEAN
    BY DEF TypeOK
  <1> QED
    BY <1>1

LEMMA StepType ==
  ASSUME TypeOK, [Next]_vars
  PROVE  TypeOK'
  <1>1. js \in Call /\ queue \in Seq(Action) /\ pending \in Seq(Waiting)
        /\ ops \in Seq(Operation) /\ memory \in Store /\ server \in File
        /\ net \subseteq Request
        /\ outer \in Seq(Call) /\ reentered \in BOOLEAN
    BY DEF TypeOK, Waiting, Operation, Store, File
  <1>2. ASSUME CallOperation PROVE TypeOK'
    BY <1>1, <1>2, PushType, CallTypes DEF CallOperation, Place
  <1>3. ASSUME CallFromListener PROVE TypeOK'
    BY <1>1, <1>3, PushType, PushRefreshType DEF CallFromListener
  <1>4. ASSUME CallRefresh PROVE TypeOK'
    BY <1>1, <1>4, CallTypes, PushRefreshType DEF CallRefresh, Place
  <1>24. ASSUME CallWithin PROVE TypeOK'
    <2>1. js' \in Call /\ reentered' \in BOOLEAN
      BY <1>1, <1>24, CallTypes DEF CallWithin, Place
    <2>2. outer' \in Seq(Call)
      BY <1>1, <1>24, CallUpdates, OuterTypes DEF CallWithin
    <2> QED
      BY <1>24, <2>1, <2>2, PushType, PushRefreshType DEF CallWithin
  <1>25. ASSUME ReturnWithin PROVE TypeOK'
    <2>1. outer' \in Seq(Call) /\ outer[Len(outer)] \in Call
      BY <1>25, OuterTypes DEF ReturnWithin
    <2>2. js' \in Call
      BY <1>25, <2>1, CallUpdates DEF ReturnWithin
    <2> QED
      BY <1>25, <2>1, <2>2 DEF ReturnWithin, TypeOK
  <1>5. ASSUME ProcessQueue PROVE TypeOK'
    <2>1. js' \in Call
      BY <1>1, <1>5, CallUpdates DEF ProcessQueue, Place
    <2> QED
      BY <1>5, <2>1 DEF ProcessQueue, TypeOK
  <1>6. ASSUME Modify PROVE TypeOK'
    <2> DEFINE a == Head(queue)
               value == IF a.action = "delete" THEN 0 ELSE a.op
    <2>1. a \in Action /\ queue' \in Seq(Action)
      BY <1>1, <1>6, TailElements DEF Modify
    <2>2. a.item \in Item /\ a.op \in OpId
      BY <1>6, <2>1, ActionTypes DEF Modify
    <2>3. value \in Version
      BY <2>2, BoundsAssumption DEF Version
    <2>4. js' \in Call
      BY <1>1, <1>6, CallUpdates DEF Modify
    <2>5. pending' \in Seq(Waiting)
      <3>1. [op |-> a.op, ok |-> Accepts(a)] \in Waiting
        BY <2>2 DEF Waiting, Accepts
      <3> QED
        <4>1. Append(pending, [op |-> a.op, ok |-> Accepts(a)]) \in Seq(Waiting)
          BY <1>1, <3>1, AppendElements
        <4> QED
          BY <1>1, <1>6, <4>1 DEF Modify
    <2>6. memory' \in Store
      <3>1. memory.items \in Content
        BY <1>1 DEF Store
      <3>2. [memory.items EXCEPT ![a.item] = value] \in Content
        BY <2>2, <2>3, <3>1 DEF Content
      <3>3. [memory EXCEPT !.items[a.item] = value, !.ops = @ \cup {a.op}]
              \in Store
        BY <1>1, <2>2, <3>2 DEF Store
      <3> QED
        BY <1>1, <1>6, <3>3 DEF Modify
    <2> QED
      BY <1>6, <2>1, <2>4, <2>5, <2>6 DEF Modify, TypeOK, Waiting, Store
  <1>7. ASSUME Get PROVE TypeOK'
    <2>1. queue' \in Seq(Action) /\ ops' \in Seq(Operation)
      BY <1>1, <1>7, TailElements, Told DEF Get
    <2>2. js' \in Call
      BY <1>1, <1>7, CallUpdates DEF Get
    <2> QED
      BY <1>7, <2>1, <2>2 DEF Get, TypeOK, Operation
  <1>8. ASSUME LoopEnds PROVE TypeOK'
    <2>1. queue' \in Seq(Action)
      <3>1. queue # <<>> => Tail(queue) \in Seq(Action)
        BY <1>1, TailElements
      <3> QED
        BY <1>1, <1>8, <3>1 DEF LoopEnds
    <2>2. js' \in Call
      BY <1>1, <1>8, CallUpdates DEF LoopEnds, Place
    <2>3. net' \subseteq Request
      <3>1. CASE net' = net
        BY <1>1, <3>1
      <3>2. CASE net' # net
        <4>1. PICK n \in 0 .. MaxOps :
                /\ queue # <<>> /\ Head(queue).action = "refresh"
                /\ net' = net \cup {[kind |-> "get", n |-> n,
                                     force |-> Head(queue).force]}
          BY <1>8, <3>2 DEF LoopEnds
        <4>2. Head(queue).force \in BOOLEAN
          BY <1>1, <4>1, TailElements, ActionTypes
        <4> QED
          BY <1>1, <4>1, <4>2, RequestUpdates
      <3> QED
        BY <3>1, <3>2
    <2>4. locked' \in BOOLEAN /\ reentered' \in BOOLEAN
      BY <1>8 DEF LoopEnds, TypeOK
    <2> QED
      BY <1>8, <2>1, <2>2, <2>3, <2>4 DEF LoopEnds, TypeOK
  <1>9. ASSUME WriteICS PROVE TypeOK'
    <2>1. js' \in Call
      BY <1>1, <1>9, CallUpdates DEF WriteICS, Place
    <2>2. net' \subseteq Request
      BY <1>1, <1>9, RequestUpdates DEF WriteICS
    <2>3. reentered' \in BOOLEAN
      BY <1>9 DEF WriteICS
    <2> QED
      BY <1>9, <2>1, <2>2, <2>3 DEF WriteICS, TypeOK
  <1>10. ASSUME TellListener PROVE TypeOK'
    <2>1. pending' \in Seq(Waiting) /\ ops' \in Seq(Operation)
      BY <1>1, <1>10, TailElements, Told DEF TellListener
    <2>2. js' \in Call
      BY <1>1, <1>10, CallUpdates DEF TellListener
    <2> QED
      BY <1>10, <2>1, <2>2 DEF TellListener, TypeOK, Waiting, Operation
  <1>11. ASSUME Unlock PROVE TypeOK'
    <2>1. js' \in Call
      BY <1>1, <1>11, CallUpdates DEF Unlock, Place
    <2> QED
      BY <1>11, <2>1 DEF Unlock, TypeOK
  <1>12. ASSUME Return PROVE TypeOK'
    <2>1. js' \in Call
      BY <1>12, CallTypes DEF Return, Place
    <2>2. queue' \in Seq(Action)
      BY <1>1, <1>12, ActionTypes, AppendElements DEF Return
    <2>3. net' \subseteq Request
      <3>1. CASE UNCHANGED net
        BY <1>1, <3>1
      <3>2. CASE \E n \in 0 .. MaxOps :
                   net' = net \cup {[kind |-> "propfind", n |-> n]}
        BY <1>1, <3>2, RequestUpdates
      <3> QED
        BY <1>12, <3>1, <3>2 DEF Return
    <2>4. readOnly' \in BOOLEAN
      BY <1>12 DEF Return
    <2> QED
      BY <1>12, <2>1, <2>2, <2>3, <2>4 DEF Return, TypeOK
  <1>13. ASSUME NEW r \in net, GetKeepsData(r) PROVE TypeOK'
    BY <1>13, CallTypes DEF GetKeepsData, TypeOK
  <1>14. ASSUME NEW r \in net, GetLoads(r) PROVE TypeOK'
    <2>1. NoItems \in Content
      BY BoundsAssumption DEF NoItems, Content, Version
    <2>2. server.items \in Content /\ server.tag \in Nat
      BY <1>1 DEF File
    <2>3. memory' \in Store
      <3>1. /\ [items |-> server.items, base |-> server.tag, ops |-> {}] \in Store
            /\ [items |-> NoItems, base |-> 0, ops |-> {}] \in Store
        BY <2>1, <2>2 DEF Store
      <3> QED
        BY <1>1, <1>14, <3>1 DEF GetLoads
    <2>4. js' \in Call /\ readOnly' \in BOOLEAN /\ tag' \in Nat
          /\ net' \subseteq Request
      BY <1>1, <1>14, <2>2, CallTypes DEF GetLoads
    <2> QED
      BY <1>14, <2>3, <2>4 DEF GetLoads, TypeOK, Store
  <1>15. ASSUME NEW r \in net, PutRefused(r) PROVE TypeOK'
    BY <1>15, CallTypes DEF PutRefused, TypeOK
  <1>16. ASSUME NEW r \in net, PutStarts(r) PROVE TypeOK'
    <2>1. /\ memory.items \in Content /\ memory.base \in Nat
          /\ memory.ops \in SUBSET OpId /\ tag \in Nat
      BY DEF TypeOK
    <2>2. net' \subseteq Request
      <3>1. r.n \in Nat
        BY <1>1, RequestTypes DEF RequestFields
      <3> DEFINE put == [kind |-> "put", n |-> r.n, items |-> memory.items,
                         base |-> memory.base, ops |-> memory.ops, tag |-> tag]
      <3>2. put \in Request
        BY <2>1, <3>1, RequestUpdates
      <3>3. net' = (net \ {r}) \cup {put}
        BY <1>16 DEF PutStarts
      <3> QED
        BY <1>1, <3>2, <3>3
    <2> QED
      BY <1>16, <2>2 DEF PutStarts, TypeOK
  <1>17. ASSUME NEW r \in net, PutThrows(r) PROVE TypeOK'
    BY <1>17, CallTypes DEF PutThrows, TypeOK
  <1>18. ASSUME NEW r \in net, r.kind = "put", ServerStores(r)
         PROVE  server' \in File /\ stored' \subseteq OpId
    <2>1. r.items \in Content /\ r.base \in Nat /\ r.ops \subseteq OpId
      BY <1>1, <1>18, RequestTypes DEF RequestFields
    <2>2. server' \in File
      <3>1. server' = [server EXCEPT !.items = r.items, !.tag = server.tag + 1,
                                     !.from = r.base, !.form = "ics"]
        BY <1>18 DEF ServerStores
      <3>2. server.tag + 1 \in Nat
        BY <1>1 DEF File
      <3> QED
        BY <1>1, <2>1, <3>1, <3>2 DEF File
    <2> QED
      BY <1>18, <2>1, <2>2 DEF ServerStores, TypeOK
  <1>19. ASSUME NEW r \in net, PutSucceeds(r) PROVE TypeOK'
    <2>1. server' \in File /\ stored' \subseteq OpId
      BY <1>18, <1>19 DEF PutSucceeds, Answered
    <2>2. server'.tag \in Nat
      BY <2>1 DEF File
    <2>3. memory' \in Store
      BY <1>1, <1>19, <2>2 DEF PutSucceeds, Store
    <2>4. js' \in Call
      BY <1>1, <1>19, CallTypes DEF PutSucceeds
    <2>5. net' \subseteq Request
      BY <1>1, <1>19, RequestUpdates, RequestTypes
      DEF PutSucceeds, RequestFields
    <2>6. tag' \in Nat
      BY <1>19, <2>2 DEF PutSucceeds, TypeOK
    <2> QED
      BY <1>19, <2>1, <2>3, <2>4, <2>5, <2>6
      DEF PutSucceeds, TypeOK, Store, File
  <1>20. ASSUME NEW r \in net, PutFails(r) PROVE TypeOK'
    <2>1. server' \in File /\ stored' \subseteq OpId
      <3>1. CASE UNCHANGED <<server, stored>>
        BY <1>1, <3>1 DEF TypeOK
      <3>2. CASE ServerStores(r)
        BY <1>18, <1>20, <3>2 DEF PutFails, Answered
      <3> QED
        BY <1>20, <3>1, <3>2 DEF PutFails
    <2>2. queue' \in Seq(Action)
      BY <1>1, <1>20, ActionTypes, AppendElements DEF PutFails
    <2>3. js' \in Call /\ net' \subseteq Request
      BY <1>1, <1>20, CallTypes DEF PutFails
    <2> QED
      BY <1>20, <2>1, <2>2, <2>3 DEF PutFails, TypeOK, File
  <1>21. ASSUME NEW r \in net, PropfindAnswered(r) PROVE TypeOK'
    BY <1>21, CallTypes DEF PropfindAnswered, TypeOK, NoTag
  <1>22. ASSUME RemoteWrites PROVE TypeOK'
    <2>1. server' \in File
      <3>1. server.items \in Content /\ server.remote \in Nat
        BY <1>1 DEF File
      <3>2. PICK form \in Forms, i \in Item, value \in Version :
              server' = [server EXCEPT !.items[i] = value, !.tag = @ + 1,
                                       !.from = server.tag, !.remote = @ + 1,
                                       !.form = form]
        <4>1. PICK form \in Forms, i \in Item,
                value \in {MaxOps + server.remote + 1}
                            \cup (IF StaleDeletes THEN {0} ELSE {}) :
                server' = [server EXCEPT !.items[i] = value, !.tag = @ + 1,
                                         !.from = server.tag, !.remote = @ + 1,
                                         !.form = form]
          BY <1>22 DEF RemoteWrites
        <4>2. value \in Version
          BY <1>22, <3>1, <4>1, BoundsAssumption DEF RemoteWrites, Version
        <4> QED
          BY <4>1, <4>2
      <3>3. [server.items EXCEPT ![i] = value] \in Content
        BY <3>1, <3>2 DEF Content
      <3> QED
        <4>1. /\ server.tag + 1 \in Nat /\ server.tag \in Nat
              /\ server.remote + 1 \in Nat
          BY <1>1 DEF File
        <4>2. form \in {"ics", "broken", "notUtf8"}
          BY <3>2, KindsAssumption
        <4>3. server' = [server EXCEPT
                           !.items = [server.items EXCEPT ![i] = value],
                           !.tag = server.tag + 1, !.from = server.tag,
                           !.remote = server.remote + 1, !.form = form]
          BY <3>2
        <4> QED
          BY <1>1, <3>3, <4>1, <4>2, <4>3 DEF File
    <2> QED
      BY <1>22, <2>1 DEF RemoteWrites, TypeOK, File
  <1>23. ASSUME UNCHANGED vars PROVE TypeOK'
    BY <1>23 DEF vars, TypeOK
  <1> QED
    BY <1>2, <1>3, <1>4, <1>5, <1>6, <1>7, <1>8, <1>9, <1>10, <1>11, <1>12,
       <1>13, <1>14, <1>15, <1>16, <1>17, <1>19, <1>20, <1>21, <1>22, <1>23,
       <1>24, <1>25
    DEF Next, Step, NetAnswers

(***************************************************************************)
(* Type correctness, for any items, bounds, transports and faults.         *)
(***************************************************************************)
THEOREM TypeCorrect == Spec => []TypeOK
  BY InitType, StepType, PTL DEF Spec
-----------------------------------------------------------------------------
(* What is proved when nothing throws in processQueue                      *)
-----------------------------------------------------------------------------
(* No backup fails to start, and nothing is deleted that may be gone when  *)
(* its turn comes: otherwise unlock is run twice, or a listener is         *)
(* forgotten.                                                              *)
Calm == BackupThrows \subseteq {FALSE} /\ StaleDeletes = FALSE

(* A deletion is alone in the queue, of an item that is there.             *)
NothingThrows ==
  /\ ~js.thrown
  /\ \A n \in DOMAIN outer : ~outer[n].thrown
  /\ \A n \in DOMAIN queue : queue[n].action = "delete" =>
       /\ n = 1 /\ Len(queue) = 1
       /\ ~locked /\ js.pc \in {"process", "loop"} /\ ~js.heard
       /\ memory.items[queue[n].item] # 0

(* The lock and the request in progress, in every call.  Until a request   *)
(* is started from within a listener, none is while a loop waits for one.  *)
Locking ==
  /\ \A r, s \in net : r = s
  /\ js.pc # "unlock" => locked = (net # {})
  /\ js.pc = "unlock" => locked /\ net = {}
  /\ js.pc \in {"loop", "write"} => ~locked
  /\ outer # <<>> => ~locked
  /\ \A n \in DOMAIN outer : outer[n].pc = "loop"

(* A batch: what waits for an answer is in memory, it is in the file that  *)
(* is being written, and has been stored when its listeners are told so.   *)
InBatch(pc) == \/ pc = "unlock" \/ (pc \in {"loop", "write"} /\ js.wrote)
               \/ \E n \in DOMAIN outer : outer[n].wrote
Batch ==
  /\ \A n \in DOMAIN pending : pending[n].ok => pending[n].op \in memory.ops
  /\ pending # <<>> /\ net = {} => InBatch(js.pc)
  /\ \A r \in net : /\ r.kind = "get" => pending = <<>>
                    /\ r.kind = "put" => r.ops = memory.ops
                    /\ r.kind = "propfind" => memory.ops \subseteq stored
  /\ js.pc = "unlock" /\ ~js.err /\ pending # <<>> => memory.ops \subseteq stored

(* What is queued or waits for an answer has been called.                  *)
Called ==
  /\ \A n \in DOMAIN queue : queue[n].action # "refresh" =>
       /\ queue[n].op \in DOMAIN ops
       /\ ops[queue[n].op].action = queue[n].action
  /\ \A n \in DOMAIN pending : pending[n].op \in DOMAIN ops

(* The modifications not answered yet are in pending and then in queue, in *)
(* the order of the calls, after those that were answered.                 *)
Queued(n) == n \in DOMAIN queue /\ queue[n].action \in Modification
Answer(o) == ops[o].action \in Modification /\ ops[o].told # "none"

InOrder ==
  /\ \A m, n \in DOMAIN queue : Queued(m) /\ Queued(n) /\ m < n
       => queue[m].op < queue[n].op
  /\ \A m, n \in DOMAIN pending : m < n => pending[m].op < pending[n].op
  /\ \A m \in DOMAIN pending, n \in DOMAIN queue :
       Queued(n) => pending[m].op < queue[n].op

AnsweredFirst ==
  \A o \in DOMAIN ops : Answer(o) =>
    /\ \A n \in DOMAIN pending : o < pending[n].op
    /\ \A n \in DOMAIN queue : Queued(n) => o < queue[n].op

NoneForgotten ==
  \A o \in DOMAIN ops :
    ops[o].action \in Modification /\ ops[o].told = "none" =>
      \/ \E n \in DOMAIN pending : pending[n].op = o
      \/ \E n \in DOMAIN queue : Queued(n) /\ queue[n].op = o

IInv ==
  /\ TypeOK /\ NothingThrows /\ Called
  /\ InOrder /\ AnsweredFirst /\ NoneForgotten /\ OkMeansStored
  /\ ~reentered => Locking /\ Batch

Lists == Called /\ InOrder /\ AnsweredFirst /\ NoneForgotten
-----------------------------------------------------------------------------
(* The queue, the answers that wait, and the operations                    *)
-----------------------------------------------------------------------------
LEMMA ListTypes ==
  ASSUME TypeOK
  PROVE  /\ queue \in Seq(Action) /\ pending \in Seq(Waiting)
         /\ ops \in Seq(Operation)
         /\ DOMAIN ops = 1 .. Len(ops) /\ Len(ops) \in Nat
         /\ \A n \in DOMAIN queue : queue[n] \in Action
         /\ \A n \in DOMAIN pending :
              pending[n].op \in OpId /\ pending[n].ok \in BOOLEAN
         /\ \A o \in DOMAIN ops : ops[o].action \in Modification \cup {"get"}
  <1>1. /\ queue \in Seq(Action) /\ pending \in Seq(Waiting)
        /\ ops \in Seq(Operation)
    BY DEF TypeOK, Waiting, Operation
  <1>2. \A n \in DOMAIN pending : pending[n] \in Waiting
    BY <1>1
  <1>3. \A o \in DOMAIN ops : ops[o] \in Operation
    BY <1>1
  <1>4. /\ DOMAIN ops = 1 .. Len(ops) /\ Len(ops) \in Nat
        /\ \A n \in DOMAIN queue : queue[n] \in Action
    BY <1>1
  <1> QED
    BY <1>1, <1>2, <1>3, <1>4 DEF Waiting, Operation

LEMMA SameLists ==
  ASSUME Lists, UNCHANGED <<queue, pending, ops>>
  PROVE  Lists'
  BY DEF Lists, Called, InOrder, AnsweredFirst, NoneForgotten, Queued, Answer

(* A refresh is queued.                                                    *)
LEMMA RefreshQueued ==
  ASSUME TypeOK, Lists, NEW force \in BOOLEAN,
         queue' = Append(queue, [action |-> "refresh", force |-> force]),
         UNCHANGED <<pending, ops>>
  PROVE  Lists'
  <1> DEFINE a == [action |-> "refresh", force |-> force]
  <1>1. /\ DOMAIN queue = 1 .. Len(queue) /\ Len(queue) \in Nat
        /\ DOMAIN queue' = 1 .. Len(queue) + 1
        /\ \A n \in DOMAIN queue : queue'[n] = queue[n]
        /\ queue'[Len(queue) + 1] = a
    BY ActionTypes, ListTypes, AppendElements
  <1>2. a.action = "refresh"
    OBVIOUS
  <1> HIDE DEF a
  <1>3. \A n \in DOMAIN queue' :
          \/ n \in DOMAIN queue /\ queue'[n] = queue[n]
          \/ queue'[n].action = "refresh"
    BY <1>1, <1>2
  <1>4. \A n : Queued(n)' <=> Queued(n)
    BY <1>1, <1>3 DEF Queued
  <1>5. \A n : Queued(n) => queue'[n] = queue[n] /\ n \in DOMAIN queue
                            /\ n \in DOMAIN queue'
    BY <1>1 DEF Queued
  <1>6. Called'
    BY <1>3 DEF Lists, Called
  <1>7. InOrder'
    BY <1>4, <1>5 DEF Lists, InOrder
  <1>8. AnsweredFirst'
    BY <1>4, <1>5 DEF Lists, AnsweredFirst, Answer
  <1>9. NoneForgotten'
    BY <1>4, <1>5 DEF Lists, NoneForgotten
  <1> QED
    BY <1>6, <1>7, <1>8, <1>9 DEF Lists

(* An operation is called: it comes after everything that was called.      *)
LEMMA OperationQueued ==
  ASSUME TypeOK, Lists, NEW kind \in Modification \cup {"get"}, NEW i \in Item,
         Push(kind, i)
  PROVE  Lists'
  <1> DEFINE a == [action |-> kind, item |-> i, old |-> memory.items[i],
                   op |-> Len(ops) + 1]
             o == [action |-> kind, told |-> "none"]
             N == Len(queue) + 1
             P == Len(ops) + 1
  <1>1. P \in OpId /\ memory.items[i] \in Version
    BY BoundsAssumption DEF TypeOK, Push, Content
  <1>2. /\ DOMAIN queue = 1 .. Len(queue) /\ Len(queue) \in Nat
        /\ DOMAIN queue' = 1 .. N
        /\ \A n \in DOMAIN queue : queue'[n] = queue[n]
        /\ queue'[N] = a
    BY <1>1, ActionTypes, ListTypes, AppendElements DEF Push
  <1>3. /\ DOMAIN ops = 1 .. Len(ops) /\ Len(ops) \in Nat
        /\ DOMAIN ops' = 1 .. P
        /\ \A n \in DOMAIN ops : ops'[n] = ops[n]
        /\ ops'[P] = o
    <2>1. o \in Operation
      BY DEF Operation
    <2> QED
      BY <2>1, ListTypes, AppendElements DEF Push
  <1>4. /\ a.action = kind /\ a.op = P
        /\ o.action = kind /\ o.told = "none"
    OBVIOUS
  <1>5. UNCHANGED pending
    BY DEF Push
  <1> HIDE DEF a, o, N, P
  <1>6. /\ \A n \in DOMAIN queue : queue[n].action # "refresh" => queue[n].op < P
        /\ \A n \in DOMAIN pending : pending[n].op < P
        /\ \A n \in DOMAIN ops : n < P
    BY <1>3 DEF Lists, Called, P
  <1>7. Called'
    BY <1>2, <1>3, <1>4, <1>5 DEF Lists, Called, N, P
  <1>8. \A n : Queued(n)' =>
          \/ Queued(n) /\ n \in DOMAIN queue /\ queue'[n] = queue[n]
          \/ n = N /\ queue'[n].op = P
    BY <1>2, <1>4 DEF Queued, N
  <1>9. \A n : Queued(n) => Queued(n)' /\ queue'[n] = queue[n]
                            /\ n \in DOMAIN queue'
    BY <1>2 DEF Queued, N
  <1>10. \A n \in DOMAIN queue : Queued(n) => queue[n].op < P
    BY <1>6 DEF Queued
  <1>11. InOrder'
    <2>1. \A m, n \in DOMAIN queue' :
            Queued(m)' /\ Queued(n)' /\ m < n => queue'[m].op < queue'[n].op
      <3> SUFFICES ASSUME NEW m \in DOMAIN queue', NEW n \in DOMAIN queue',
                          Queued(m)', Queued(n)', m < n
                   PROVE  queue'[m].op < queue'[n].op
        OBVIOUS
      <3>1. m # N
        BY <1>2 DEF N
      <3>2. Queued(m) /\ m \in DOMAIN queue /\ queue'[m] = queue[m]
        BY <1>8, <3>1
      <3>3. CASE n = N
        BY <1>2, <1>4, <1>10, <3>2, <3>3
      <3>4. CASE n # N
        <4>1. Queued(n) /\ n \in DOMAIN queue /\ queue'[n] = queue[n]
          BY <1>8, <3>4
        <4> QED
          BY <3>2, <4>1 DEF Lists, InOrder
      <3> QED
        BY <3>3, <3>4
    <2>2. \A m \in DOMAIN pending', n \in DOMAIN queue' :
            Queued(n)' => pending'[m].op < queue'[n].op
      BY <1>5, <1>6, <1>8 DEF Lists, InOrder
    <2> QED
      BY <1>5, <2>1, <2>2 DEF Lists, InOrder
  <1>12. AnsweredFirst'
    <2>1. \A n \in DOMAIN ops' : Answer(n)' => n \in DOMAIN ops /\ Answer(n)
      BY <1>3, <1>4 DEF Answer, P
    <2>2. \A n, m : n \in DOMAIN ops' /\ Answer(n)' /\ Queued(m)'
             => n < queue'[m].op
      BY <1>6, <1>8, <2>1 DEF Lists, AnsweredFirst
    <2> QED
      BY <1>5, <2>1, <2>2 DEF Lists, AnsweredFirst
  <1>13. NoneForgotten'
    <2> SUFFICES ASSUME NEW n \in DOMAIN ops', ops'[n].action \in Modification,
                        ops'[n].told = "none"
                 PROVE  \/ \E m \in DOMAIN pending' : pending'[m].op = n
                        \/ \E m \in DOMAIN queue' :
                             Queued(m)' /\ queue'[m].op = n
      BY DEF NoneForgotten
    <2>1. CASE n = P
      <3>1. PICK m \in DOMAIN queue' : queue'[m] = a
        BY <1>2 DEF N
      <3>2. queue'[m].action \in Modification /\ queue'[m].op = n
        BY <1>3, <1>4, <2>1, <3>1
      <3>3. Queued(m)'
        BY <3>1, <3>2 DEF Queued
      <3> QED
        BY <3>2, <3>3
    <2>2. CASE n # P
      <3>1. n \in DOMAIN ops /\ ops'[n] = ops[n]
        BY <1>3, <2>2 DEF P
      <3> QED
        BY <1>5, <1>9, <3>1 DEF Lists, NoneForgotten
    <2> QED
      BY <2>1, <2>2
  <1> QED
    BY <1>7, <1>11, <1>12, <1>13 DEF Lists

(* The elements of a queue whose head was taken.                           *)
LEMMA HeadTaken ==
  ASSUME NEW S, NEW s \in Seq(S), s # <<>>
  PROVE  /\ Head(s) = s[1] /\ 1 \in DOMAIN s
         /\ \A n \in DOMAIN Tail(s) :
              n \in Nat /\ n + 1 \in DOMAIN s /\ Tail(s)[n] = s[n + 1]
         /\ \A n \in DOMAIN s :
              n \in Nat /\ (n = 1 \/ (n > 1 /\ n - 1 \in DOMAIN Tail(s)
                                     /\ Tail(s)[n - 1] = s[n]))
  BY TailElements

(* What is left when the head of the queue was taken: nothing but the head *)
(* is gone.                                                                *)
LEMMA QueueWithoutHead ==
  ASSUME TypeOK, queue # <<>>, queue' = Tail(queue)
  PROVE  /\ Head(queue) = queue[1] /\ 1 \in DOMAIN queue
         /\ \A n \in DOMAIN queue' :
              /\ n \in Nat /\ n + 1 \in DOMAIN queue /\ queue'[n] = queue[n + 1]
              /\ Queued(n)' => Queued(n + 1)
         /\ \A n \in DOMAIN queue : Queued(n) /\ n # 1 =>
              \E m \in DOMAIN queue' : Queued(m)' /\ queue'[m] = queue[n]
  <1>1. /\ Head(queue) = queue[1] /\ 1 \in DOMAIN queue
        /\ \A n \in DOMAIN queue' :
             n \in Nat /\ n + 1 \in DOMAIN queue /\ queue'[n] = queue[n + 1]
        /\ \A n \in DOMAIN queue :
             n \in Nat /\ (n = 1 \/ (n > 1 /\ n - 1 \in DOMAIN queue'
                                    /\ queue'[n - 1] = queue[n]))
    BY ListTypes, HeadTaken
  <1>2. \A n \in DOMAIN queue' : Queued(n)' => Queued(n + 1)
    BY <1>1 DEF Queued
  <1>3. ASSUME NEW n \in DOMAIN queue, Queued(n), n # 1
        PROVE  \E m \in DOMAIN queue' : Queued(m)' /\ queue'[m] = queue[n]
    <2>1. PICK m \in DOMAIN queue' : queue'[m] = queue[n]
      BY <1>1, <1>3
    <2>2. Queued(m)'
      BY <1>3, <2>1 DEF Queued
    <2> QED
      BY <2>1, <2>2
  <1> QED
    BY <1>1, <1>2, <1>3

(* A refresh is taken, or a reading answered: no modification is touched.  *)
LEMMA OtherTaken ==
  ASSUME TypeOK, Lists, queue # <<>>, Head(queue).action \notin Modification,
         queue' = Tail(queue), UNCHANGED pending,
         DOMAIN ops' = DOMAIN ops,
         \A o \in DOMAIN ops :
           /\ ops'[o].action = ops[o].action
           /\ ops[o].action \in Modification => ops'[o] = ops[o]
  PROVE  Lists'
  <1>1. Called'
    BY QueueWithoutHead DEF Lists, Called
  <1>2. InOrder'
    <2>1. \A m, n \in DOMAIN queue' : Queued(m)' /\ Queued(n)' /\ m < n
            => queue'[m].op < queue'[n].op
      BY QueueWithoutHead DEF Lists, InOrder
    <2>2. \A m \in DOMAIN pending, n \in DOMAIN queue' :
            Queued(n)' => pending[m].op < queue'[n].op
      BY QueueWithoutHead DEF Lists, InOrder
    <2> QED
      BY <2>1, <2>2 DEF Lists, InOrder
  <1>3. \A o \in DOMAIN ops' : Answer(o)' <=> Answer(o)
    BY DEF Answer
  <1>4. AnsweredFirst'
    <2>1. \A o \in DOMAIN ops, n \in DOMAIN queue' :
            Answer(o) /\ Queued(n)' => o < queue'[n].op
      BY QueueWithoutHead DEF Lists, AnsweredFirst
    <2> QED
      BY <1>3, <2>1 DEF Lists, AnsweredFirst
  <1>5. NoneForgotten'
    <2> SUFFICES ASSUME NEW o \in DOMAIN ops, ops[o].action \in Modification,
                        ops[o].told = "none"
                 PROVE  \/ \E n \in DOMAIN pending : pending[n].op = o
                        \/ \E n \in DOMAIN queue' :
                             Queued(n)' /\ queue'[n].op = o
      BY DEF NoneForgotten
    <2>1. ~Queued(1)
      BY QueueWithoutHead DEF Queued
    <2>2. CASE \E n \in DOMAIN queue : Queued(n) /\ queue[n].op = o
      <3>1. PICK n \in DOMAIN queue : Queued(n) /\ queue[n].op = o
        BY <2>2
      <3>2. PICK m \in DOMAIN queue' : Queued(m)' /\ queue'[m] = queue[n]
        BY <2>1, <3>1, QueueWithoutHead
      <3> QED
        BY <3>1, <3>2
    <2> QED
      BY <2>2 DEF Lists, NoneForgotten
  <1> QED
    BY <1>1, <1>2, <1>4, <1>5 DEF Lists

(* A modification is done in memory: it goes from the queue to the end of  *)
(* the answers that wait.                                                  *)
LEMMA ModificationTaken ==
  ASSUME TypeOK, Lists, queue # <<>>, Head(queue).action \in Modification,
         queue' = Tail(queue), UNCHANGED ops, NEW ok \in BOOLEAN,
         pending' = Append(pending, [op |-> Head(queue).op, ok |-> ok])
  PROVE  Lists'
  <1> DEFINE p == [op |-> Head(queue).op, ok |-> ok]
  <1>1. /\ Head(queue) = queue[1] /\ 1 \in DOMAIN queue /\ Queued(1)
        /\ Head(queue).op \in OpId
    <2>1. Head(queue) = queue[1] /\ 1 \in DOMAIN queue
      BY QueueWithoutHead
    <2>2. Queued(1)
      BY <2>1 DEF Queued
    <2> QED
      BY <2>1, <2>2, ListTypes, ActionTypes
  <1>2. p \in Waiting
    BY <1>1 DEF Waiting
  <1>3. PICK N \in Nat :
          /\ DOMAIN pending = 1 .. N - 1 /\ DOMAIN pending' = 1 .. N
          /\ \A n \in DOMAIN pending : pending'[n] = pending[n]
          /\ pending'[N] = p
    <2>1. /\ DOMAIN pending = 1 .. Len(pending) /\ Len(pending) \in Nat
          /\ DOMAIN pending' = 1 .. Len(pending) + 1
          /\ \A n \in DOMAIN pending : pending'[n] = pending[n]
          /\ pending'[Len(pending) + 1] = p
      BY <1>2, ListTypes, AppendElements
    <2>2. Len(pending) + 1 \in Nat /\ (Len(pending) + 1) - 1 = Len(pending)
      BY <2>1
    <2> HIDE DEF p
    <2> QED
      BY <2>1, <2>2
  <1>4. p.op = queue[1].op
    BY <1>1
  <1> HIDE DEF p
  <1>5. \A n \in DOMAIN pending' :
          \/ n = N /\ pending'[n].op = queue[1].op
          \/ n < N /\ n \in DOMAIN pending /\ pending'[n] = pending[n]
    BY <1>3, <1>4
  <1>6. \A n \in DOMAIN queue' : Queued(n)' => queue[1].op < queue'[n].op
    BY <1>1, QueueWithoutHead DEF Lists, InOrder
  <1>7. Called'
    <2>1. queue[1].action # "refresh"
      BY <1>1
    <2>2. queue[1].op \in DOMAIN ops
      BY <1>1, <2>1 DEF Lists, Called
    <2>3. \A n \in DOMAIN pending' : pending'[n].op \in DOMAIN ops
      BY <1>5, <2>2 DEF Lists, Called
    <2>4. \A n \in DOMAIN queue' : queue'[n].action # "refresh" =>
            /\ queue'[n].op \in DOMAIN ops
            /\ ops[queue'[n].op].action = queue'[n].action
      BY QueueWithoutHead DEF Lists, Called
    <2> QED
      BY <2>3, <2>4 DEF Called
  <1>8. InOrder'
    <2>1. \A m, n \in DOMAIN queue' : Queued(m)' /\ Queued(n)' /\ m < n
            => queue'[m].op < queue'[n].op
      BY QueueWithoutHead DEF Lists, InOrder
    <2>2. \A m, n \in DOMAIN pending' : m < n
            => pending'[m].op < pending'[n].op
      BY <1>1, <1>3, <1>5 DEF Lists, InOrder
    <2>3. \A m \in DOMAIN pending', n \in DOMAIN queue' :
            Queued(n)' => pending'[m].op < queue'[n].op
      BY <1>5, <1>6, QueueWithoutHead DEF Lists, InOrder
    <2> QED
      BY <2>1, <2>2, <2>3 DEF InOrder
  <1>9. AnsweredFirst'
    <2>1. \A o \in DOMAIN ops, n \in DOMAIN queue' :
            Answer(o) /\ Queued(n)' => o < queue'[n].op
      BY QueueWithoutHead DEF Lists, AnsweredFirst
    <2>2. \A o \in DOMAIN ops, n \in DOMAIN pending' :
            Answer(o) => o < pending'[n].op
      BY <1>1, <1>5 DEF Lists, AnsweredFirst
    <2>3. \A o : Answer(o)' <=> Answer(o)
      BY DEF Answer
    <2> QED
      BY <2>1, <2>2, <2>3 DEF AnsweredFirst
  <1>10. NoneForgotten'
    <2> SUFFICES ASSUME NEW o \in DOMAIN ops, ops[o].action \in Modification,
                        ops[o].told = "none"
                 PROVE  \/ \E n \in DOMAIN pending' : pending'[n].op = o
                        \/ \E n \in DOMAIN queue' :
                             Queued(n)' /\ queue'[n].op = o
      BY DEF NoneForgotten
    <2>1. CASE \E n \in DOMAIN pending : pending[n].op = o
      BY <1>3, <2>1
    <2>2. CASE \E n \in DOMAIN queue : Queued(n) /\ queue[n].op = o
      <3>1. PICK n \in DOMAIN queue : Queued(n) /\ queue[n].op = o
        BY <2>2
      <3>2. CASE n = 1
        <4>1. N \in DOMAIN pending' /\ pending'[N].op = o
          BY <1>3, <1>4, <3>1, <3>2
        <4> QED
          BY <4>1
      <3>3. CASE n # 1
        <4>1. PICK m \in DOMAIN queue' : Queued(m)' /\ queue'[m] = queue[n]
          BY <3>1, <3>3, QueueWithoutHead
        <4> QED
          BY <3>1, <4>1
      <3> QED
        BY <3>2, <3>3
    <2> QED
      BY <2>1, <2>2 DEF Lists, NoneForgotten
  <1> QED
    BY <1>7, <1>8, <1>9, <1>10 DEF Lists

(* A listener is told: the first of the answers that wait.                 *)
LEMMA AnswerTaken ==
  ASSUME TypeOK, Lists, pending # <<>>, pending' = Tail(pending),
         UNCHANGED queue, NEW answer \in {"ok", "failed"},
         ops' = [ops EXCEPT ![Head(pending).op].told = answer]
  PROVE  Lists'
  <1>1. /\ Head(pending) = pending[1] /\ 1 \in DOMAIN pending
        /\ \A n \in DOMAIN pending' :
             /\ n \in Nat /\ n + 1 \in DOMAIN pending
             /\ pending'[n] = pending[n + 1]
        /\ \A n \in DOMAIN pending :
             n \in Nat /\ (n = 1 \/ (n > 1 /\ n - 1 \in DOMAIN pending'
                                    /\ pending'[n - 1] = pending[n]))
    BY ListTypes, HeadTaken
  <1>2. pending[1].op \in DOMAIN ops
    BY <1>1 DEF Lists, Called
  <1>3. /\ DOMAIN ops' = DOMAIN ops
        /\ \A o \in DOMAIN ops :
             /\ ops'[o].action = ops[o].action
             /\ o # pending[1].op => ops'[o] = ops[o]
             /\ o = pending[1].op => ops'[o].told = answer
    <2>1. ops \in Seq(Operation)
      BY ListTypes
    <2>2. \A o \in DOMAIN ops : ops[o] \in Operation
      BY <2>1
    <2> QED
      BY <1>1, <1>2, <2>2 DEF Operation
  <1>4. \A o \in DOMAIN ops' : Answer(o)' => Answer(o) \/ o = pending[1].op
    BY <1>3 DEF Answer
  <1>5. Called'
    BY <1>1, <1>3 DEF Lists, Called
  <1>6. \A n : Queued(n)' <=> Queued(n)
    BY DEF Queued
  <1>7. \A n \in DOMAIN pending' : pending[1].op < pending'[n].op
    BY <1>1 DEF Lists, InOrder
  <1>8. InOrder'
    <2>1. \A m, n \in DOMAIN pending' : m < n
            => pending'[m].op < pending'[n].op
      BY <1>1 DEF Lists, InOrder
    <2>2. \A m \in DOMAIN pending', n \in DOMAIN queue :
            Queued(n) => pending'[m].op < queue[n].op
      BY <1>1 DEF Lists, InOrder
    <2> QED
      BY <1>6, <2>1, <2>2 DEF Lists, InOrder
  <1>9. AnsweredFirst'
    <2>1. \A o \in DOMAIN ops', n \in DOMAIN pending' :
            Answer(o)' => o < pending'[n].op
      BY <1>1, <1>3, <1>4, <1>7 DEF Lists, AnsweredFirst
    <2>2. \A o \in DOMAIN ops', n \in DOMAIN queue :
            Answer(o)' /\ Queued(n) => o < queue[n].op
      BY <1>1, <1>3, <1>4 DEF Lists, AnsweredFirst, InOrder
    <2> QED
      BY <1>6, <2>1, <2>2 DEF AnsweredFirst
  <1>10. NoneForgotten'
    <2> SUFFICES ASSUME NEW o \in DOMAIN ops', ops'[o].action \in Modification,
                        ops'[o].told = "none"
                 PROVE  \/ \E n \in DOMAIN pending' : pending'[n].op = o
                        \/ \E n \in DOMAIN queue : Queued(n) /\ queue[n].op = o
      BY <1>6 DEF NoneForgotten
    <2>1. o \in DOMAIN ops /\ o # pending[1].op /\ ops'[o] = ops[o]
      BY <1>3
    <2>2. CASE \E n \in DOMAIN pending : pending[n].op = o
      BY <1>1, <2>1, <2>2
    <2> QED
      BY <2>1, <2>2 DEF Lists, NoneForgotten
  <1> QED
    BY <1>5, <1>8, <1>9, <1>10 DEF Lists
-----------------------------------------------------------------------------
(* The steps                                                               *)
-----------------------------------------------------------------------------
(* Once a request was started from within a listener, that has happened.   *)
LEMMA StaysReentered ==
  ASSUME [Next]_vars, ~reentered'
  PROVE  ~reentered
  BY DEF Next, Step, NetAnswers, CallOperation, CallFromListener, CallRefresh,
     CallWithin, ProcessQueue, Modify, Get, LoopEnds, WriteICS, TellListener,
     Unlock, Return, ReturnWithin, GetKeepsData, GetLoads, PutRefused,
     PutStarts, PutThrows, PutSucceeds, PutFails, PropfindAnswered,
     RemoteWrites, vars

(* A call from within a listener of getItem, and the return to it.         *)
LEMMA CalledWithin ==
  ASSUME TypeOK, CallWithin
  PROVE  /\ outer' # <<>> /\ js.pc = "loop"
         /\ \A n \in DOMAIN outer' :
              \/ n \in DOMAIN outer /\ outer'[n] = outer[n]
              \/ /\ outer'[n].pc = "loop" /\ outer'[n].wrote = js.wrote
                 /\ outer'[n].thrown = js.thrown
         /\ \A n \in DOMAIN outer : n \in DOMAIN outer' /\ outer'[n] = outer[n]
         /\ \E n \in DOMAIN outer' : outer'[n].wrote = js.wrote
  <1>1. js \in Call /\ outer \in Seq(Call)
    BY DEF TypeOK
  <1>2. PICK c \in Call : /\ outer' = Append(outer, c) /\ c.pc = js.pc
                          /\ c.wrote = js.wrote /\ c.thrown = js.thrown
    <2>1. /\ [js EXCEPT !.heard = FALSE] \in Call
          /\ [js EXCEPT !.heard = FALSE].pc = js.pc
          /\ [js EXCEPT !.heard = FALSE].wrote = js.wrote
          /\ [js EXCEPT !.heard = FALSE].thrown = js.thrown
      BY <1>1 DEF Call
    <2> QED
      BY <1>1, <2>1 DEF CallWithin
  <1>3. /\ outer' # <<>> /\ Len(outer) \in Nat
        /\ DOMAIN outer = 1 .. Len(outer)
        /\ DOMAIN outer' = 1 .. Len(outer) + 1
        /\ \A n \in DOMAIN outer : outer'[n] = outer[n]
        /\ outer'[Len(outer) + 1] = c
    BY <1>1, <1>2, AppendElements
  <1>4. js.pc = "loop"
    BY DEF CallWithin
  <1> QED
    BY <1>2, <1>3, <1>4

LEMMA ReturnedWithin ==
  ASSUME TypeOK, NothingThrows, ReturnWithin
  PROVE  /\ outer # <<>> /\ Len(outer) \in DOMAIN outer
         /\ js' = outer[Len(outer)]
         /\ \A n \in DOMAIN outer' : n \in DOMAIN outer /\ outer'[n] = outer[n]
         /\ \A n \in DOMAIN outer : n # Len(outer) =>
              n \in DOMAIN outer' /\ outer'[n] = outer[n]
  <1>1. outer \in Seq(Call) /\ outer # <<>>
    BY DEF TypeOK, ReturnWithin
  <1>2. outer' = SubSeq(outer, 1, Len(outer) - 1)
    BY DEF ReturnWithin
  <1>3. /\ Len(outer) \in Nat /\ Len(outer) \in DOMAIN outer
        /\ DOMAIN outer = 1 .. Len(outer)
    BY <1>1
  <1>4. /\ DOMAIN outer' = 1 .. Len(outer) - 1
        /\ \A n \in DOMAIN outer' : outer'[n] = outer[n]
    BY <1>1, <1>2, <1>3
  <1>5. js' = outer[Len(outer)]
    BY DEF ReturnWithin, NothingThrows
  <1> QED
    BY <1>1, <1>3, <1>4, <1>5

(* A modification that is taken from the queue does not throw.             *)
LEMMA NoThrow ==
  ASSUME TypeOK, NothingThrows, queue # <<>>
  PROVE  ~Throws(Head(queue))
  BY ListTypes, TailElements DEF NothingThrows, Throws

LEMMA LockingStep ==
  ASSUME Calm, TypeOK, NothingThrows, Locking, [Next]_vars, ~reentered'
  PROVE  Locking'
  <1>1. js \in Call
    BY DEF TypeOK
  <1> USE <1>1 DEF Call, Idle, Running, Unlocking
  <1>2. ASSUME CallOperation PROVE Locking'
    BY <1>2 DEF CallOperation, Push, Locking
  <1>3. ASSUME CallFromListener PROVE Locking'
    BY <1>3 DEF CallFromListener, Push, PushRefresh, Locking
  <1>4. ASSUME CallRefresh PROVE Locking'
    BY <1>4 DEF CallRefresh, PushRefresh, Locking
  <1>23. ASSUME CallWithin PROVE Locking'
    <2>1. /\ UNCHANGED <<locked, net>> /\ js'.pc = "process"
      BY <1>23 DEF CallWithin, Push, PushRefresh
    <2> QED
      BY <1>23, <2>1, CalledWithin DEF Locking
  <1>24. ASSUME ReturnWithin PROVE Locking'
    <2>1. UNCHANGED <<locked, net>> /\ js.pc = "return"
      BY <1>24 DEF ReturnWithin
    <2> QED
      BY <1>24, <2>1, ReturnedWithin DEF Locking
  <1>5. ASSUME ProcessQueue PROVE Locking'
    BY <1>5 DEF ProcessQueue, Locking
  <1>6. ASSUME Modify PROVE Locking'
    BY <1>6, NoThrow DEF Modify, Locking
  <1>7. ASSUME Get PROVE Locking'
    BY <1>7 DEF Get, Locking
  <1>8. ASSUME LoopEnds PROVE Locking'
    BY <1>8 DEF LoopEnds, Locking
  <1>9. ASSUME WriteICS PROVE Locking'
    BY <1>9 DEF WriteICS, Locking, Calm
  <1>10. ASSUME TellListener PROVE Locking'
    BY <1>10 DEF TellListener, Locking
  <1>11. ASSUME Unlock PROVE Locking'
    BY <1>11 DEF Unlock, Locking
  <1>12. ASSUME Return PROVE Locking'
    BY <1>12 DEF Return, Locking, NothingThrows
  <1>13. ASSUME NEW r \in net, GetKeepsData(r) PROVE Locking'
    BY <1>13 DEF GetKeepsData, Answered, Locking
  <1>14. ASSUME NEW r \in net, GetLoads(r) PROVE Locking'
    BY <1>14 DEF GetLoads, Answered, Locking
  <1>15. ASSUME NEW r \in net, PutRefused(r) PROVE Locking'
    BY <1>15 DEF PutRefused, Answered, Locking
  <1>16. ASSUME NEW r \in net, PutStarts(r) PROVE Locking'
    BY <1>16 DEF PutStarts, Answered, Locking
  <1>17. ASSUME NEW r \in net, PutThrows(r) PROVE Locking'
    BY <1>17 DEF PutThrows, Answered, Locking
  <1>18. ASSUME NEW r \in net, PutSucceeds(r) PROVE Locking'
    BY <1>18 DEF PutSucceeds, Answered, Locking
  <1>19. ASSUME NEW r \in net, PutFails(r) PROVE Locking'
    BY <1>19 DEF PutFails, Answered, Locking
  <1>20. ASSUME NEW r \in net, PropfindAnswered(r) PROVE Locking'
    BY <1>20 DEF PropfindAnswered, Answered, Locking
  <1>21. ASSUME RemoteWrites PROVE Locking'
    BY <1>21 DEF RemoteWrites, Locking
  <1>22. ASSUME UNCHANGED vars PROVE Locking'
    BY <1>22 DEF vars, Locking
  <1> QED
    BY <1>2, <1>3, <1>4, <1>5, <1>6, <1>7, <1>8, <1>9, <1>10, <1>11, <1>12,
       <1>13, <1>14, <1>15, <1>16, <1>17, <1>18, <1>19, <1>20, <1>21, <1>22,
       <1>23, <1>24
    DEF Next, Step, NetAnswers

(* Nothing is left of a queue with a deletion when its head was taken.     *)
LEMMA NoDeletionLeft ==
  ASSUME TypeOK, NothingThrows, queue # <<>>, queue' = Tail(queue)
  PROVE  \A n \in DOMAIN queue' : queue'[n].action # "delete"
  <1> SUFFICES ASSUME NEW n \in DOMAIN queue', queue'[n].action = "delete"
               PROVE  FALSE
    OBVIOUS
  <1>1. n \in Nat /\ n + 1 \in DOMAIN queue /\ queue'[n] = queue[n + 1]
    BY QueueWithoutHead
  <1>2. n + 1 = 1
    BY <1>1 DEF NothingThrows
  <1>3. n \in 1 .. Len(queue) - 1
    BY ListTypes, TailElements
  <1> QED
    BY <1>2, <1>3

(* The queue with one more operation.                                      *)
LEMMA QueueWithCall ==
  ASSUME TypeOK, NEW kind \in Modification \cup {"get"}, NEW i \in Item,
         Push(kind, i)
  PROVE  \A n \in DOMAIN queue' :
           \/ n \in DOMAIN queue /\ queue'[n] = queue[n]
           \/ /\ n = Len(queue) + 1 /\ Len(queue') = n /\ Len(queue) \in Nat
              /\ queue'[n].action = kind /\ queue'[n].item = i
  <1> DEFINE a == [action |-> kind, item |-> i, old |-> memory.items[i],
                   op |-> Len(ops) + 1]
  <1>1. Len(ops) + 1 \in OpId /\ memory.items[i] \in Version
    BY BoundsAssumption DEF TypeOK, Push, Content
  <1>2. /\ DOMAIN queue = 1 .. Len(queue) /\ Len(queue) \in Nat
        /\ DOMAIN queue' = 1 .. Len(queue) + 1 /\ queue' \in Seq(Action)
        /\ \A n \in DOMAIN queue : queue'[n] = queue[n]
        /\ queue'[Len(queue) + 1] = a
    BY <1>1, ActionTypes, ListTypes, AppendElements DEF Push
  <1>3. a.action = kind /\ a.item = i
    OBVIOUS
  <1> HIDE DEF a
  <1>4. Len(queue') = Len(queue) + 1
    BY <1>2
  <1> QED
    BY <1>2, <1>3, <1>4

LEMMA NothingThrowsStep ==
  ASSUME Calm, TypeOK, NothingThrows, [Next]_vars
  PROVE  NothingThrows'
  <1>1. js \in Call
    BY DEF TypeOK
  <1> USE <1>1 DEF Call, Idle, Running, Unlocking
  <1>2. ASSUME NEW kind \in Modification \cup {"get"}, NEW i \in Item,
               Push(kind, i), js'.pc = "process", ~js'.thrown, ~js'.heard,
               \A n \in DOMAIN outer' : ~outer'[n].thrown,
               \A n \in DOMAIN queue : queue[n].action # "delete"
        PROVE  NothingThrows'
    <2>1. ASSUME NEW n \in DOMAIN queue', queue'[n].action = "delete"
          PROVE  /\ n = 1 /\ Len(queue') = 1 /\ ~locked'
                 /\ memory'.items[queue'[n].item] # 0
      <3>1. /\ n = Len(queue) + 1 /\ Len(queue') = n
            /\ kind = "delete" /\ queue'[n].item = i
        BY <1>2, <2>1, QueueWithCall
      <3>2. /\ queue = <<>> /\ ~locked /\ memory.items[i] # 0
            /\ UNCHANGED <<locked, memory>>
        BY <1>2, <3>1 DEF Push, Calm
      <3> QED
        BY <3>1, <3>2
    <2> QED
      BY <1>2, <2>1 DEF NothingThrows
  <1>25. ASSUME PushRefresh, ~js'.thrown,
                \A n \in DOMAIN outer' : ~outer'[n].thrown,
                \A n \in DOMAIN queue : queue[n].action # "delete"
         PROVE  NothingThrows'
    <2>1. \A n \in DOMAIN queue' : queue'[n].action # "delete"
      <3> DEFINE a == [action |-> "refresh", force |-> FALSE]
      <3>1. a \in Action /\ queue' = Append(queue, a)
        BY <1>25, ActionTypes DEF PushRefresh
      <3>2. a.action # "delete"
        OBVIOUS
      <3> HIDE DEF a
      <3> QED
        BY <1>25, <3>1, <3>2, ListTypes, AppendElements
    <2> QED
      BY <1>25, <2>1 DEF NothingThrows
  <1>26. ASSUME CallOperation PROVE NothingThrows'
    <2>1. PICK kind \in Modification \cup {"get"}, i \in Item : Push(kind, i)
      BY <1>26 DEF CallOperation
    <2>2. /\ \A n \in DOMAIN queue : queue[n].action # "delete"
          /\ js'.pc = "process" /\ ~js'.thrown /\ ~js'.heard
          /\ \A n \in DOMAIN outer' : ~outer'[n].thrown
      BY <1>26 DEF CallOperation, NothingThrows
    <2> QED
      BY <1>2, <2>1, <2>2
  <1>3. ASSUME CallFromListener PROVE NothingThrows'
    <2>1. /\ \A n \in DOMAIN queue : queue[n].action # "delete"
          /\ js' = js /\ outer' = outer
      BY <1>3 DEF CallFromListener, NothingThrows
    <2>2. CASE PushRefresh
      BY <1>25, <2>1, <2>2 DEF NothingThrows
    <2>3. ASSUME NEW kind \in Modification \cup {"get"}, NEW i \in Item,
                 Push(kind, i)
          PROVE  NothingThrows'
      <3>1. kind # "delete"
        BY <1>3, <2>3 DEF CallFromListener, Push, Calm
      <3>2. \A n \in DOMAIN queue' : queue'[n].action # "delete"
        BY <2>1, <2>3, <3>1, QueueWithCall
      <3> QED
        BY <2>1, <3>2 DEF NothingThrows
    <2> QED
      BY <1>3, <2>2, <2>3 DEF CallFromListener
  <1>4. ASSUME CallRefresh PROVE NothingThrows'
    <2>1. /\ \A n \in DOMAIN queue : queue[n].action # "delete"
          /\ ~js'.thrown /\ outer' = outer
      BY <1>4 DEF CallRefresh, NothingThrows
    <2> QED
      BY <1>4, <1>25, <2>1 DEF CallRefresh, NothingThrows
  <1>23. ASSUME CallWithin PROVE NothingThrows'
    <2>1. /\ \A n \in DOMAIN queue : queue[n].action # "delete"
          /\ js'.pc = "process" /\ ~js'.thrown /\ ~js'.heard
      BY <1>23 DEF CallWithin, NothingThrows
    <2>2. \A n \in DOMAIN outer' : ~outer'[n].thrown
      BY <1>23, CalledWithin DEF NothingThrows
    <2>3. PushRefresh \/ \E kind \in Modification \cup {"get"}, i \in Item :
                            Push(kind, i)
      BY <1>23 DEF CallWithin
    <2> QED
      BY <1>2, <1>25, <2>1, <2>2, <2>3
  <1>24. ASSUME ReturnWithin PROVE NothingThrows'
    <2>1. \A n \in DOMAIN queue : queue[n].action # "delete"
      BY <1>24 DEF ReturnWithin, NothingThrows
    <2>2. UNCHANGED <<queue, locked, memory>>
      BY <1>24 DEF ReturnWithin
    <2> QED
      BY <1>24, <2>1, <2>2, ReturnedWithin DEF NothingThrows
  <1>5. ASSUME ProcessQueue PROVE NothingThrows'
    BY <1>5 DEF ProcessQueue, NothingThrows
  <1>6. ASSUME Modify PROVE NothingThrows'
    <2>1. ~js'.thrown
      BY <1>6, NoThrow DEF Modify, NothingThrows
    <2> QED
      BY <1>6, <2>1, NoDeletionLeft DEF Modify, NothingThrows
  <1>7. ASSUME Get PROVE NothingThrows'
    BY <1>7, NoDeletionLeft DEF Get, NothingThrows
  <1>8. ASSUME LoopEnds PROVE NothingThrows'
    <2>1. ~js'.thrown
      BY <1>8 DEF LoopEnds, NothingThrows
    <2>2. \A n \in DOMAIN queue' : queue'[n].action # "delete"
      <3>1. CASE queue = <<>>
        BY <1>8, <3>1 DEF LoopEnds
      <3>2. CASE queue # <<>> /\ queue' = Tail(queue)
        BY <3>2, NoDeletionLeft
      <3>3. CASE queue # <<>> /\ queue' = queue
        <4>1. queue[1].action = "refresh" /\ 1 \in DOMAIN queue
          BY <1>8, <3>3, ListTypes, TailElements DEF LoopEnds
        <4> QED
          BY <3>3, <4>1 DEF NothingThrows
      <3> QED
        BY <1>8, <3>1, <3>2, <3>3 DEF LoopEnds
    <2>3. UNCHANGED outer
      BY <1>8 DEF LoopEnds
    <2> QED
      BY <2>1, <2>2, <2>3 DEF NothingThrows
  <1>9. ASSUME WriteICS PROVE NothingThrows'
    BY <1>9 DEF WriteICS, NothingThrows, Calm
  <1>10. ASSUME TellListener PROVE NothingThrows'
    BY <1>10 DEF TellListener, NothingThrows
  <1>11. ASSUME Unlock PROVE NothingThrows'
    BY <1>11 DEF Unlock, NothingThrows
  <1>12. ASSUME Return PROVE NothingThrows'
    BY <1>12 DEF Return, NothingThrows
  <1>13. ASSUME NEW r \in net, GetKeepsData(r) PROVE NothingThrows'
    BY <1>13 DEF GetKeepsData, Answered, NothingThrows
  <1>14. ASSUME NEW r \in net, GetLoads(r) PROVE NothingThrows'
    BY <1>14 DEF GetLoads, Answered, NothingThrows
  <1>15. ASSUME NEW r \in net, PutRefused(r) PROVE NothingThrows'
    BY <1>15 DEF PutRefused, Answered, NothingThrows
  <1>16. ASSUME NEW r \in net, PutStarts(r) PROVE NothingThrows'
    BY <1>16 DEF PutStarts, Answered, NothingThrows
  <1>17. ASSUME NEW r \in net, PutThrows(r) PROVE NothingThrows'
    BY <1>17 DEF PutThrows, Answered, NothingThrows
  <1>18. ASSUME NEW r \in net, PutSucceeds(r) PROVE NothingThrows'
    BY <1>18 DEF PutSucceeds, Answered, NothingThrows
  <1>19. ASSUME NEW r \in net, PutFails(r) PROVE NothingThrows'
    BY <1>19 DEF PutFails, Answered, NothingThrows
  <1>20. ASSUME NEW r \in net, PropfindAnswered(r) PROVE NothingThrows'
    BY <1>20 DEF PropfindAnswered, Answered, NothingThrows
  <1>21. ASSUME RemoteWrites PROVE NothingThrows'
    BY <1>21 DEF RemoteWrites, NothingThrows
  <1>22. ASSUME UNCHANGED vars PROVE NothingThrows'
    BY <1>22 DEF vars, NothingThrows
  <1> QED
    BY <1>2, <1>3, <1>4, <1>5, <1>6, <1>7, <1>8, <1>9, <1>10, <1>11, <1>12,
       <1>13, <1>14, <1>15, <1>16, <1>17, <1>18, <1>19, <1>20, <1>21, <1>22,
       <1>23, <1>24, <1>26
    DEF Next, Step, NetAnswers

(* The lists change as the lemmas on them say.                             *)
LEMMA ListsStep ==
  ASSUME Calm, TypeOK, NothingThrows, Lists, [Next]_vars
  PROVE  Lists'
  <1>1. ASSUME UNCHANGED <<queue, pending, ops>> PROVE Lists'
    BY <1>1, SameLists
  <1>2. ASSUME CallOperation \/ CallFromListener \/ CallWithin \/ CallRefresh
        PROVE  Lists'
    <2>1. PushOperation \/ PushRefresh
      BY <1>2 DEF CallOperation, CallFromListener, CallWithin, CallRefresh
    <2> QED
      BY <2>1, OperationQueued, RefreshQueued DEF PushRefresh
  <1>4. ASSUME Modify PROVE Lists'
    <2>1. ~Throws(Head(queue)) /\ Accepts(Head(queue)) \in BOOLEAN
      BY <1>4, NoThrow DEF Modify, Accepts
    <2> QED
      BY <1>4, <2>1, ModificationTaken DEF Modify
  <1>5. ASSUME Get PROVE Lists'
    <2>1. Head(queue).action = "get" /\ queue # <<>> /\ queue' = Tail(queue)
      BY <1>5 DEF Get
    <2>2. Head(queue).op \in DOMAIN ops /\ ops[Head(queue).op].action = "get"
      BY <2>1, QueueWithoutHead DEF Lists, Called
    <2>3. \A o \in DOMAIN ops : ops[o] \in Operation
      BY ListTypes
    <2>4. /\ DOMAIN ops' = DOMAIN ops
          /\ \A o \in DOMAIN ops :
               /\ ops'[o].action = ops[o].action
               /\ ops[o].action \in Modification => ops'[o] = ops[o]
      BY <1>5, <2>2, <2>3 DEF Get, Operation
    <2>5. Head(queue).action \notin Modification
      BY <2>1
    <2>6. UNCHANGED pending
      BY <1>5 DEF Get
    <2> QED
      BY <2>1, <2>4, <2>5, <2>6, OtherTaken
  <1>6. ASSUME LoopEnds PROVE Lists'
    <2>1. CASE UNCHANGED queue
      BY <1>1, <1>6, <2>1 DEF LoopEnds
    <2>2. CASE /\ queue # <<>> /\ Head(queue).action = "refresh"
               /\ queue' = Tail(queue)
      <3>1. UNCHANGED <<pending, ops>>
        BY <1>6 DEF LoopEnds
      <3>2. Head(queue).action \notin Modification
        BY <2>2
      <3> QED
        BY <2>2, <3>1, <3>2, OtherTaken
    <2> QED
      BY <1>6, <2>1, <2>2 DEF LoopEnds
  <1>7. ASSUME TellListener PROVE Lists'
    BY <1>7, AnswerTaken DEF TellListener
  <1>8. ASSUME Return PROVE Lists'
    BY <1>1, <1>8, RefreshQueued DEF Return
  <1>9. ASSUME NEW r \in net, PutFails(r) PROVE Lists'
    BY <1>9, RefreshQueued DEF PutFails
  <1>10. ASSUME ProcessQueue \/ WriteICS \/ Unlock \/ RemoteWrites
                \/ ReturnWithin \/ UNCHANGED vars
         PROVE  Lists'
    BY <1>1, <1>10
    DEF ProcessQueue, WriteICS, Unlock, RemoteWrites, ReturnWithin, vars
  <1>11. ASSUME NEW r \in net, NetAnswers(r), ~PutFails(r) PROVE Lists'
    BY <1>1, <1>11 DEF NetAnswers, GetKeepsData, GetLoads, PutRefused,
         PutStarts, PutThrows, PutSucceeds, PropfindAnswered
  <1> QED
    BY <1>2, <1>4, <1>5, <1>6, <1>7, <1>8, <1>9, <1>10, <1>11
    DEF Next, Step

LEMMA BatchStep ==
  ASSUME Calm, TypeOK, NothingThrows, Locking, Batch, [Next]_vars, ~reentered'
  PROVE  Batch'
  <1>1. js \in Call
    BY DEF TypeOK
  <1> USE <1>1 DEF Call, Idle, Running, Unlocking, InBatch
  <1>2. ASSUME CallOperation PROVE Batch'
    BY <1>2 DEF CallOperation, Push, Batch
  <1>3. ASSUME CallFromListener PROVE Batch'
    BY <1>3 DEF CallFromListener, Push, PushRefresh, Batch
  <1>4. ASSUME CallRefresh PROVE Batch'
    BY <1>4 DEF CallRefresh, PushRefresh, Batch
  <1>23. ASSUME CallWithin PROVE Batch'
    <2>1. /\ UNCHANGED <<pending, memory, net, stored>>
          /\ js'.pc = "process"
      BY <1>23 DEF CallWithin, Push, PushRefresh
    <2>2. InBatch(js.pc) => \E n \in DOMAIN outer' : outer'[n].wrote
      BY <1>23, CalledWithin
    <2> QED
      BY <2>1, <2>2 DEF Batch
  <1>24. ASSUME ReturnWithin PROVE Batch'
    <2>1. /\ UNCHANGED <<pending, memory, net, stored>>
          /\ js.pc = "return" /\ js'.pc = "loop"
      BY <1>24, ReturnedWithin DEF ReturnWithin, Locking
    <2>2. ASSUME NEW n \in DOMAIN outer, outer[n].wrote
          PROVE  js'.wrote \/ \E m \in DOMAIN outer' : outer'[m].wrote
      BY <1>24, <2>2, ReturnedWithin
    <2>3. InBatch(js.pc) => InBatch(js.pc)'
      BY <2>1, <2>2
    <2> QED
      BY <2>1, <2>3 DEF Batch
  <1>5. ASSUME ProcessQueue PROVE Batch'
    BY <1>5 DEF ProcessQueue, Locking, Batch
  <1>6. ASSUME Modify PROVE Batch'
    <2> DEFINE a == Head(queue)
               p == [op |-> a.op, ok |-> Accepts(a)]
    <2>1. /\ pending' = Append(pending, p)
          /\ memory' = IF Accepts(a)
                       THEN [memory EXCEPT !.items[a.item] =
                               IF a.action = "delete" THEN 0 ELSE a.op,
                             !.ops = @ \cup {a.op}]
                       ELSE memory
          /\ js' = [js EXCEPT !.wrote = TRUE, !.heard = FALSE]
          /\ js.pc = "loop"
          /\ UNCHANGED <<net, stored>>
      BY <1>6, NoThrow DEF Modify
    <2>2. net = {}
      BY <2>1 DEF Locking
    <2>3. memory \in Store /\ a \in Action
      BY <1>6, ListTypes, TailElements DEF TypeOK, Store, Modify
    <2>4. /\ memory.ops \subseteq memory'.ops
          /\ Accepts(a) => a.op \in memory'.ops
      BY <2>1, <2>3 DEF Store
    <2>5. /\ DOMAIN pending = 1 .. Len(pending) /\ Len(pending) \in Nat
          /\ DOMAIN pending' = 1 .. Len(pending) + 1
          /\ \A n \in DOMAIN pending : pending'[n] = pending[n]
          /\ pending'[Len(pending) + 1] = p
      <3>1. p \in Waiting
        BY <1>6, <2>3, ActionTypes DEF Waiting, Accepts, Modify
      <3> QED
        BY <2>1, <3>1, ListTypes, AppendElements
    <2>6. p.op = a.op /\ p.ok = Accepts(a)
      OBVIOUS
    <2> HIDE DEF p, a
    <2>7. \A n \in DOMAIN pending' :
            pending'[n].ok => pending'[n].op \in memory'.ops
      BY <2>4, <2>5, <2>6 DEF Batch
    <2> QED
      BY <2>1, <2>2, <2>7 DEF Batch
  <1>7. ASSUME Get PROVE Batch'
    BY <1>7 DEF Get, Batch
  <1>8. ASSUME LoopEnds PROVE Batch'
    <2>1. /\ js.pc = "loop" /\ net = {}
          /\ UNCHANGED <<pending, memory, stored>>
      BY <1>8 DEF LoopEnds, Locking
    <2>2. ~js.wrote /\ outer = <<>> => pending = <<>>
      BY <2>1 DEF Batch
    <2>3. CASE js.wrote
      BY <1>8, <2>1, <2>3 DEF LoopEnds, Batch
    <2>5. CASE ~js.wrote /\ queue = <<>>
      BY <1>8, <2>1, <2>5 DEF LoopEnds, Batch
    <2>4. CASE ~js.wrote /\ queue # <<>>
      <3>1. pending' = <<>>
        BY <1>8, <2>1, <2>2, <2>4 DEF LoopEnds
      <3>2. \A r \in net' : r.kind = "get"
        BY <1>8, <2>1 DEF LoopEnds
      <3> QED
        BY <2>1, <3>1, <3>2 DEF Batch
    <2> QED
      BY <2>3, <2>4, <2>5
  <1>9. ASSUME WriteICS PROVE Batch'
    <2>1. /\ \A r \in net' : r.kind = "backup"
          /\ net' # {} /\ js'.pc = "return"
          /\ UNCHANGED <<pending, memory, stored>>
      <3>1. /\ js.pc = "write" /\ net = {}
            /\ UNCHANGED <<pending, memory, stored>>
        BY <1>9 DEF WriteICS, Locking
      <3>2. PICK throws \in BackupThrows, n \in 0 .. MaxOps :
              /\ net' = IF throws THEN net
                        ELSE net \cup {[kind |-> "backup", n |-> n]}
              /\ js' = IF throws
                       THEN [js EXCEPT !.pc = "unlock", !.err = TRUE,
                                       !.heard = FALSE, !.thrown = TRUE]
                       ELSE [js EXCEPT !.pc = "return"]
        BY <1>9 DEF WriteICS
      <3>3. throws = FALSE
        BY DEF Calm
      <3>4. net' = {[kind |-> "backup", n |-> n]} /\ js' = [js EXCEPT !.pc = "return"]
        BY <3>1, <3>2, <3>3
      <3>5. js \in Call
        BY DEF TypeOK
      <3>6. js'.pc = "return"
        BY <3>4, <3>5 DEF Call
      <3> QED
        BY <3>1, <3>4, <3>6
    <2> QED
      BY <2>1 DEF Batch
  <1>10. ASSUME TellListener PROVE Batch'
    <2>1. \A n \in DOMAIN pending' :
            n + 1 \in DOMAIN pending /\ pending'[n] = pending[n + 1]
      BY <1>10, ListTypes, HeadTaken DEF TellListener
    <2> QED
      BY <1>10, <2>1 DEF TellListener, Batch
  <1>11. ASSUME Unlock PROVE Batch'
    BY <1>11 DEF Unlock, Locking, Batch
  <1>12. ASSUME Return PROVE Batch'
    BY <1>12 DEF Return, NothingThrows, Batch
  <1>13. ASSUME NEW r \in net, GetKeepsData(r) PROVE Batch'
    BY <1>13 DEF GetKeepsData, Answered, Locking, Batch
  <1>14. ASSUME NEW r \in net, GetLoads(r) PROVE Batch'
    BY <1>14 DEF GetLoads, Answered, Locking, Batch
  <1>15. ASSUME NEW r \in net, PutRefused(r) PROVE Batch'
    BY <1>15 DEF PutRefused, Answered, Locking, ServerStores, Batch
  <1>16. ASSUME NEW r \in net, PutStarts(r) PROVE Batch'
    <2>1. \A s \in net' : s.kind = "put" /\ s.ops = memory.ops
      BY <1>16 DEF PutStarts, Answered, Locking
    <2>2. js' = js /\ net' # {} /\ js.pc = "idle"
          /\ UNCHANGED <<pending, memory, stored>>
      BY <1>16 DEF PutStarts, Answered
    <2> QED
      BY <2>1, <2>2 DEF Batch
  <1>17. ASSUME NEW r \in net, PutThrows(r) PROVE Batch'
    BY <1>17 DEF PutThrows, Answered, Locking, ServerStores, Batch
  <1>18. ASSUME NEW r \in net, PutSucceeds(r) PROVE Batch'
    <2>1. /\ memory'.ops = memory.ops /\ UNCHANGED pending
          /\ r.kind = "put" /\ stored' = stored \cup r.ops
      BY <1>18 DEF PutSucceeds, Answered, ServerStores, TypeOK
    <2>2. memory'.ops \subseteq stored'
      BY <2>1 DEF Batch
    <2>3. \A s \in net' : s.kind = "propfind"
      BY <1>18 DEF PutSucceeds, Locking
    <2>4. net' = {} => js'.pc = "unlock"
      BY <1>18 DEF PutSucceeds
    <2> QED
      BY <2>1, <2>2, <2>3, <2>4 DEF Batch
  <1>19. ASSUME NEW r \in net, PutFails(r) PROVE Batch'
    BY <1>19 DEF PutFails, Answered, Locking, ServerStores, Batch
  <1>20. ASSUME NEW r \in net, PropfindAnswered(r) PROVE Batch'
    BY <1>20 DEF PropfindAnswered, Answered, Locking, Batch
  <1>21. ASSUME RemoteWrites PROVE Batch'
    BY <1>21 DEF RemoteWrites, Batch
  <1>22. ASSUME UNCHANGED vars PROVE Batch'
    BY <1>22 DEF vars, Batch
  <1> QED
    BY <1>2, <1>3, <1>4, <1>5, <1>6, <1>7, <1>8, <1>9, <1>10, <1>11, <1>12,
       <1>13, <1>14, <1>15, <1>16, <1>17, <1>18, <1>19, <1>20, <1>21, <1>22,
       <1>23, <1>24
    DEF Next, Step, NetAnswers

(* What a listener is told to have succeeded has been stored.              *)
LEMMA StoredStep ==
  ASSUME Calm, TypeOK, Locking, Batch, Lists, OkMeansStored, [Next]_vars,
         ~reentered, ~reentered'
  PROVE  OkMeansStored'
  <1>1. stored \subseteq stored'
    <2>1. CASE UNCHANGED stored
      BY <2>1
    <2>2. ASSUME NEW r \in net, PutSucceeds(r) \/ PutFails(r)
          PROVE  stored \subseteq stored'
      BY <2>2 DEF PutSucceeds, PutFails, ServerStores
    <2> QED
      BY <2>1, <2>2 DEF Next, Step, NetAnswers, CallOperation, Push,
         CallFromListener, CallRefresh, CallWithin, PushRefresh, ProcessQueue,
         Modify, Get, LoopEnds, WriteICS, TellListener, Unlock, Return,
         ReturnWithin, GetKeepsData, GetLoads,
         PutRefused, PutStarts, PutThrows, PropfindAnswered, RemoteWrites, vars
  <1>2. ASSUME UNCHANGED ops PROVE OkMeansStored'
    BY <1>1, <1>2 DEF OkMeansStored
  <1>3. ASSUME NEW kind \in Modification \cup {"get"}, NEW i \in Item,
               Push(kind, i)
        PROVE  OkMeansStored'
    <2>1. [action |-> kind, told |-> "none"] \in Operation
      BY DEF Operation
    <2>2. \A o \in DOMAIN ops' : \/ o \in DOMAIN ops /\ ops'[o] = ops[o]
                                \/ ops'[o].told = "none"
      BY <1>3, <2>1, ListTypes, AppendElements DEF Push
    <2> QED
      BY <1>1, <2>2 DEF OkMeansStored
  <1>4. ASSUME Get PROVE OkMeansStored'
    <2>1. Head(queue).action = "get" /\ queue # <<>> /\ queue' = Tail(queue)
      BY <1>4 DEF Get
    <2>2. ops[Head(queue).op].action = "get"
      BY <2>1, QueueWithoutHead DEF Lists, Called
    <2>3. /\ DOMAIN ops' = DOMAIN ops
          /\ \A o \in DOMAIN ops :
               ops[o].action \in Modification => ops'[o] = ops[o]
          /\ \A o \in DOMAIN ops : ops'[o].action = ops[o].action
      <3>1. \A o \in DOMAIN ops : ops[o] \in Operation
        BY ListTypes
      <3> QED
        BY <1>4, <2>2, <3>1 DEF Get, Operation
    <2> QED
      BY <1>1, <2>3 DEF OkMeansStored
  <1>5. ASSUME TellListener PROVE OkMeansStored'
    <2> DEFINE p == Head(pending)
               ok == p.ok /\ ~js.err
    <2>1. p = pending[1] /\ 1 \in DOMAIN pending
      BY <1>5, ListTypes, TailElements DEF TellListener
    <2>2. ok => p.op \in stored
      BY <1>5, <2>1 DEF TellListener, Batch
    <2>3. /\ DOMAIN ops' = DOMAIN ops
          /\ \A o \in DOMAIN ops :
               /\ ops'[o].action = ops[o].action
               /\ o # p.op => ops'[o] = ops[o]
               /\ o = p.op /\ ~ok => ops'[o].told = "failed"
      <3>1. \A o \in DOMAIN ops : ops[o] \in Operation
        BY ListTypes
      <3> QED
        BY <1>5, <3>1 DEF TellListener, Operation
    <2> HIDE DEF p, ok
    <2> QED
      BY <1>1, <2>2, <2>3 DEF OkMeansStored
  <1>6. CASE UNCHANGED ops
    BY <1>2, <1>6
  <1> QED
    BY <1>3, <1>4, <1>5, <1>6 DEF Next, Step, NetAnswers, CallOperation,
       CallFromListener, CallRefresh, CallWithin, PushRefresh, ProcessQueue,
       Modify, LoopEnds, WriteICS, Unlock, Return, ReturnWithin, GetKeepsData, GetLoads, PutRefused,
       PutStarts, PutThrows, PutSucceeds, PutFails, PropfindAnswered,
       RemoteWrites, vars

(***************************************************************************)
(* The invariant of the calm calendar, and what follows from it.           *)
(***************************************************************************)
LEMMA InitSafe == Init => IInv
  <1> SUFFICES ASSUME Init PROVE IInv
    OBVIOUS
  <1>1. TypeOK
    BY InitType
  <1>2. queue = <<>> /\ pending = <<>> /\ ops = <<>> /\ net = {}
        /\ js.pc = "idle" /\ ~js.thrown /\ ~locked /\ outer = <<>>
    BY DEF Init, Idle
  <1>3. DOMAIN queue = {} /\ DOMAIN pending = {} /\ DOMAIN ops = {}
        /\ DOMAIN outer = {}
    BY <1>2
  <1>4. NothingThrows
    BY <1>2, <1>3 DEF NothingThrows
  <1>5. Locking
    <2>1. locked = (net # {})
      BY <1>2 DEF Init
    <2>2. \A r, s \in net : r = s
      BY <1>2
    <2>3. js.pc = "idle" /\ ~locked
      BY <1>2
    <2> QED
      BY <1>2, <1>3, <2>1, <2>2, <2>3 DEF Locking
  <1>6. Batch
    BY <1>2, <1>3 DEF Batch
  <1>7. Called
    BY <1>3 DEF Called
  <1>8. InOrder
    BY <1>3 DEF InOrder, Queued
  <1>9. AnsweredFirst /\ NoneForgotten /\ OkMeansStored
    BY <1>3 DEF AnsweredFirst, NoneForgotten, OkMeansStored
  <1> QED
    BY <1>1, <1>4, <1>5, <1>6, <1>7, <1>8, <1>9 DEF IInv

LEMMA StepSafe ==
  ASSUME Calm, IInv, [Next]_vars
  PROVE  IInv'
  <1> USE DEF IInv
  <1>1. TypeOK'
    BY StepType
  <1>2. NothingThrows' /\ (~reentered' => Locking' /\ Batch')
    BY NothingThrowsStep, LockingStep, BatchStep, StaysReentered
  <1>3. Lists'
    BY ListsStep DEF Lists
  <1>4. OkMeansStored'
    <2>1. CASE reentered'
      BY <2>1 DEF OkMeansStored
    <2>2. CASE ~reentered'
      BY <2>2, StoredStep, StaysReentered DEF Lists
    <2> QED
      BY <2>1, <2>2
  <1> QED
    BY <1>1, <1>2, <1>3, <1>4 DEF Lists

LEMMA Safe == IInv => OneRequest /\ OkMeansStored /\ ToldInOrder
  <1> SUFFICES ASSUME IInv PROVE OneRequest /\ OkMeansStored /\ ToldInOrder
    OBVIOUS
  <1>1. OneRequest
    BY DEF IInv, Locking, OneRequest
  <1>2. ASSUME NEW o \in DOMAIN ops, NEW p \in DOMAIN ops, o < p,
               ops[o].action \in Modification, ops[p].action \in Modification,
               ops[p].told # "none", ops[o].told = "none"
        PROVE  FALSE
    <2>1. Answer(p)
      BY <1>2 DEF Answer
    <2>2. o \in Nat /\ p \in Nat
      BY ListTypes DEF IInv
    <2>3. CASE \E n \in DOMAIN pending : pending[n].op = o
      BY <1>2, <2>1, <2>2, <2>3 DEF IInv, AnsweredFirst
    <2>4. CASE \E n \in DOMAIN queue : Queued(n) /\ queue[n].op = o
      BY <1>2, <2>1, <2>2, <2>4 DEF IInv, AnsweredFirst
    <2> QED
      BY <1>2, <2>3, <2>4 DEF IInv, NoneForgotten
  <1>3. ToldInOrder
    BY <1>2 DEF ToldInOrder
  <1> QED
    BY <1>1, <1>3 DEF IInv

(***************************************************************************)
(* For any number of items, operations, refreshes and writes of other      *)
(* programs, over any transport and whatever the server answers: one       *)
(* request is in progress while the calendar is locked, and none           *)
(* otherwise; who is told of a success has its modification in the remote  *)
(* file (both until a request is started from within a listener that       *)
(* processQueue has called); and listeners are told in the order of the    *)
(* calls, whatever listeners call.                                         *)
(***************************************************************************)
THEOREM CalmIsSafe ==
  ASSUME Calm
  PROVE  Spec => [](OneRequest /\ OkMeansStored /\ ToldInOrder)
  <1>1. IInv /\ [Next]_vars => IInv'
    BY StepSafe
  <1> QED
    BY <1>1, InitSafe, Safe, PTL DEF Spec
-----------------------------------------------------------------------------
(* The changes of other programs                                           *)
-----------------------------------------------------------------------------
(* Other programs write files that can be read; the server gives the ETag  *)
(* of what it stored.                                                      *)
PlainFiles == Forms \subseteq {"ics"}
GivesTag == transport = [hooks |-> "http", putTag |-> TRUE]

(* The calendar knows the version its items were made from, and an upload  *)
(* in progress sends the ETag of the version its items were made from.     *)
KnownVersion ==
  /\ server.form = "ics" /\ server.tag # NoTag
  /\ GivesTag =>
       /\ tag # NoTag /\ tag = memory.base
       /\ \A r \in net : /\ r.kind # "propfind"
                         /\ r.kind = "put" => r.tag = r.base /\ r.tag # NoTag

VInv == TypeOK /\ NothingThrows /\ KnownVersion

LEMMA StoredVersion ==
  ASSUME VInv, NEW r \in net, r.kind = "put", Accepted(r), ServerStores(r)
  PROVE  /\ server'.tag = server.tag + 1 /\ server'.form = "ics"
         /\ server'.tag # NoTag
         /\ GivesTag => server'.from = server.tag
  <1>1. /\ server \in [items : Content, tag : Nat, from : Nat, remote : Nat,
                       form : {"ics", "broken", "notUtf8"}]
        /\ server.tag \in Nat
    BY DEF VInv, TypeOK
  <1>2. /\ server'.tag = server.tag + 1 /\ server'.form = "ics"
        /\ server'.from = r.base
    BY <1>1 DEF ServerStores
  <1>3. ASSUME GivesTag PROVE r.base = server.tag
    <2>1. transport.hooks = "http"
      BY <1>3 DEF GivesTag
    <2>2. r.tag = r.base /\ r.tag # NoTag
      BY <1>3 DEF VInv, KnownVersion
    <2>3. r.tag \in {NoTag, server.tag}
      BY <2>1 DEF Accepted
    <2> QED
      BY <2>2, <2>3
  <1> QED
    BY <1>1, <1>2, <1>3 DEF NoTag

LEMMA VersionStep ==
  ASSUME Calm, PlainFiles, VInv, [Next]_vars
  PROVE  KnownVersion'
  <1> USE DEF VInv
  <1>1. CASE UNCHANGED <<server, transport, tag, memory, net>>
    BY <1>1 DEF KnownVersion, GivesTag
  <1>2. ASSUME Modify PROVE KnownVersion'
    <2>1. memory'.base = memory.base
      BY <1>2, NoThrow DEF Modify, TypeOK
    <2> QED
      BY <1>2, <2>1 DEF Modify, KnownVersion, GivesTag
  <1>3. ASSUME LoopEnds PROVE KnownVersion'
    <2>1. \A r \in net' : r \in net \/ r.kind = "get"
      BY <1>3 DEF LoopEnds
    <2> QED
      BY <1>3, <2>1 DEF LoopEnds, KnownVersion, GivesTag
  <1>4. ASSUME WriteICS PROVE KnownVersion'
    <2>1. \A r \in net' : r \in net \/ r.kind = "backup"
      BY <1>4 DEF WriteICS
    <2> QED
      BY <1>4, <2>1 DEF WriteICS, KnownVersion, GivesTag
  <1>5. ASSUME Return PROVE KnownVersion'
    BY <1>5 DEF Return, NothingThrows, KnownVersion, GivesTag
  <1>6. ASSUME NEW r \in net, GetLoads(r) PROVE KnownVersion'
    <2>1. memory'.base = server.tag /\ tag' = server.tag
      BY <1>6 DEF GetLoads, KnownVersion
    <2>2. net' \subseteq net
      BY <1>6 DEF GetLoads
    <2> QED
      BY <1>6, <2>1, <2>2 DEF GetLoads, KnownVersion, GivesTag
  <1>7. ASSUME NEW r \in net, net' \subseteq net,
               UNCHANGED <<server, transport, tag, memory>>
        PROVE  KnownVersion'
    BY <1>7 DEF KnownVersion, GivesTag
  <1>8. ASSUME NEW r \in net, PutStarts(r) PROVE KnownVersion'
    <2>1. \A q \in net' :
            q \in net \/ /\ q.kind = "put" /\ q.tag = tag
                         /\ q.base = memory.base
      BY <1>8 DEF PutStarts
    <2> QED
      BY <1>8, <2>1 DEF PutStarts, KnownVersion, GivesTag
  <1>9. ASSUME NEW r \in net, PutSucceeds(r) PROVE KnownVersion'
    <2>1. /\ server'.form = "ics" /\ server'.tag # NoTag
          /\ transport' = transport
      BY <1>9, StoredVersion DEF PutSucceeds, Answered
    <2>2. ASSUME GivesTag
          PROVE  /\ tag' = server'.tag /\ memory'.base = tag'
                 /\ net' \subseteq net
      <3>1. transport.hooks = "http" /\ transport.putTag
        BY <2>2 DEF GivesTag
      <3>2. memory' = [memory EXCEPT !.base = server'.tag]
            /\ tag' = server'.tag /\ net' = net \ {r}
        BY <1>9, <3>1 DEF PutSucceeds
      <3> QED
        BY <3>2 DEF TypeOK
    <2> QED
      BY <2>1, <2>2 DEF KnownVersion, GivesTag
  <1>10. ASSUME NEW r \in net, PutFails(r) PROVE KnownVersion'
    <2>1. /\ net' \subseteq net \ {r} /\ UNCHANGED <<memory, tag, transport>>
          /\ r.kind = "put"
      BY <1>10 DEF PutFails, Answered
    <2>2. server'.form = "ics" /\ server'.tag # NoTag
      BY <1>10, <2>1, StoredVersion DEF PutFails, KnownVersion
    <2> QED
      BY <2>1, <2>2 DEF KnownVersion, GivesTag
  <1>11. ASSUME NEW r \in net, PropfindAnswered(r) PROVE KnownVersion'
    <2>1. ~GivesTag
      BY <1>11 DEF PropfindAnswered, Answered, KnownVersion
    <2> QED
      BY <1>11, <2>1 DEF PropfindAnswered, KnownVersion, GivesTag
  <1>12. ASSUME RemoteWrites PROVE KnownVersion'
    <2>1. server'.form = "ics" /\ server'.tag = server.tag + 1
      BY <1>12 DEF RemoteWrites, PlainFiles, TypeOK
    <2>2. server'.tag # NoTag
      BY <2>1 DEF TypeOK, NoTag
    <2> QED
      BY <1>12, <2>1, <2>2 DEF RemoteWrites, KnownVersion, GivesTag
  <1>13. ASSUME NEW r \in net,
                \/ GetKeepsData(r) \/ PutRefused(r) \/ PutThrows(r)
         PROVE  KnownVersion'
    BY <1>7, <1>13 DEF GetKeepsData, PutRefused, PutThrows
  <1> QED
    BY <1>1, <1>2, <1>3, <1>4, <1>5, <1>6, <1>8, <1>9, <1>10, <1>11, <1>12,
       <1>13
    DEF Next, Step, NetAnswers, CallOperation, CallFromListener, Push,
        CallRefresh, CallWithin, PushRefresh, ProcessQueue, Get, TellListener,
        Unlock, ReturnWithin, vars

LEMMA InitVersion == Init => VInv
  BY InitSafe DEF Init, NoTag, IInv, VInv, KnownVersion, GivesTag

\* The step that replaces the file.
FromLast == GivesTag => server'.from = server.tag

LEMMA FromLastStep ==
  ASSUME VInv, [Next]_vars, server'.tag # server.tag
  PROVE  FromLast
  <1>1. CASE \E r \in net : PutSucceeds(r) \/ PutFails(r)
    <2>1. PICK r \in net : PutSucceeds(r) \/ PutFails(r)
      BY <1>1
    <2>2. r.kind = "put" /\ Accepted(r) /\ ServerStores(r)
      BY <2>1 DEF PutSucceeds, PutFails, Answered
    <2> QED
      BY <2>2, StoredVersion DEF FromLast
  <1>2. CASE RemoteWrites
    BY <1>2 DEF RemoteWrites, FromLast, VInv, TypeOK
  <1>3. CASE UNCHANGED server
    BY <1>3
  <1> QED
    BY <1>1, <1>2, <1>3
    DEF Next, Step, NetAnswers, CallOperation, CallFromListener, Push,
        CallRefresh, CallWithin, PushRefresh, ProcessQueue, Modify, Get,
        LoopEnds, WriteICS, TellListener, Unlock, Return, ReturnWithin,
        GetKeepsData, GetLoads, PutRefused, PutStarts, PutThrows, PropfindAnswered, vars

(***************************************************************************)
(* Over HTTP, with a server that gives the ETag of what it stored and      *)
(* programs that write readable files, the file is only replaced by one    *)
(* that was made from it: no change of another program is overwritten, for *)
(* any number of items, operations, refreshes and remote changes.          *)
(***************************************************************************)
THEOREM RemoteChangesKept ==
  ASSUME Calm, PlainFiles
  PROVE  Spec => RemoteKept
  <1>1. VInv /\ [Next]_vars => VInv'
    <2> SUFFICES ASSUME VInv, [Next]_vars PROVE VInv'
      OBVIOUS
    <2>1. TypeOK' /\ NothingThrows'
      BY StepType, NothingThrowsStep DEF VInv
    <2> QED
      BY <2>1, VersionStep DEF VInv
  <1>2. VInv /\ [Next]_vars
          => [transport = [hooks |-> "http", putTag |-> TRUE] =>
                server'.from = server.tag]_(server.tag)
    BY FromLastStep DEF FromLast, GivesTag
  <1> QED
    BY <1>1, <1>2, InitVersion, PTL DEF Spec, RemoteKept

(***************************************************************************)
(* The lock is held exactly while one download or write is in progress,    *)
(* and every way they end reaches unlock once, for any transport and       *)
(* failures of the server, and whatever the listeners of modifications     *)
(* call; but only as long as no listener of a getItem, which is called     *)
(* while the calendar is not locked, makes it start a request.             *)
(***************************************************************************)
THEOREM RequestsAlone ==
  ASSUME Calm
  PROVE  Spec => []OneRequest
  BY CalmIsSafe, PTL

(***************************************************************************)
(* The listeners of modifications are told in the order of the calls,      *)
(* however they are batched into writes and whatever fails.                *)
(***************************************************************************)
THEOREM AnswersInOrder ==
  ASSUME Calm
  PROVE  Spec => []ToldInOrder
  BY CalmIsSafe, PTL
=============================================================================
