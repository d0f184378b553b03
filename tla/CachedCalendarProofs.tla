------------------------ MODULE CachedCalendarProofs ------------------------
(***************************************************************************)
(* Proofs about CachedCalendar for every finite set of items and any       *)
(* bounds; the safety of the cache when no fault happens (Faults = {}).    *)
(***************************************************************************)
EXTENDS CachedCalendar, FiniteSetTheorems, TLAPS

USE DEF SyncRests

(***************************************************************************)
(* The calls of the user, a synchronisation that fills the cache, and the  *)
(* playbacks do not run at the same time.                                  *)
(***************************************************************************)
Exclusive ==
    /\ call.pc # "none" => Quiet
    /\ sync.pc \in {"snapshot", "get", "renewed"} => FreeSlots = Slot
    /\ ~SyncRests => mode = "full"

(***************************************************************************)
(* A call is later than every call that was reported a success.            *)
(***************************************************************************)
Later ==
    /\ \A i \in Item : last[i].op <= budget.op
    /\ call.pc # "none" =>
         call.op = budget.op /\ \A i \in Item : last[i].op < call.op

Queue(s) == {playback[s].queue[k] : k \in DOMAIN playback[s].queue}
Sends(s, e) ==
    playback[s].pc \in {"queried", "send", "answer"} /\ e \in Queue(s)
Taken(s, i) ==
    /\ playback[s].pc = "answer" /\ playback[s].ok
    /\ Last(playback[s].queue).item = i
CallTaken(i) == call.pc = "answer" /\ call.answer = "ok" /\ call.item = i
Marking(i) == call.pc = "markModified" /\ call.item = i
Modifying(i) == call.pc = "modify" /\ call.item = i /\ ~call.keep

Edited(i) == last[i].op # 0 /\ last[i].kind # "delete"
Deleted(i) == last[i].op # 0 /\ last[i].kind = "delete"

(***************************************************************************)
(* A row with a flag has the last change that was reported a success.      *)
(***************************************************************************)
Held(row, i) ==
    /\ row.flag \in {"created", "modified"} => Edited(i) /\ row.v = last[i].op
    /\ row.flag = "deleted" => Deleted(i) /\ row.v # 0

Flags(i) ==
    /\ ~Marking(i) => Held(cache[i], i)
    /\ cache[i].flag = "created" => server[i] = 0 \/ \E s \in Slot : Taken(s, i)

(***************************************************************************)
(* What the provider knows is what the server has, but for the answer that *)
(* is under way; what the cache shows without a flag is what is known.     *)
(***************************************************************************)
Copies(i) ==
    /\ known[i] = server[i] \/ CallTaken(i) \/ \E s \in Slot : Taken(s, i)
    /\ cache[i].flag = "none" =>
         cache[i].v = known[i] \/ Marking(i) \/ Modifying(i)

(***************************************************************************)
(* While the cache is filled anew, what had a flag is kept aside.          *)
(***************************************************************************)
Saved(i) ==
    /\ sync.pc = "get" =>
         sync.saved[i] = IF cache[i].flag = "none" THEN NoRow ELSE cache[i]
    /\ sync.pc = "renewed" =>
         /\ cache[i] = [v |-> server[i], flag |-> "none"]
         /\ Held(sync.saved[i], i)
         /\ sync.saved[i].flag = "created" => server[i] = 0

(***************************************************************************)
(* A playback sends the last change of an item, and what the server took   *)
(* of it is there until the playback is told.                              *)
(***************************************************************************)
Played(i) ==
    \A s \in Slot :
      /\ \A e \in Queue(s) : Sends(s, e) /\ e.item = i =>
           IF playback[s].phase = "deleted" THEN Deleted(i)
           ELSE Edited(i) /\ e.v = last[i].op /\ cache[i].v = last[i].op
      /\ Taken(s, i) =>
           IF playback[s].phase = "deleted" THEN server[i] = 0
           ELSE server[i] = last[i].op /\ last[i].op \in done

(***************************************************************************)
(* The call of the user in progress.                                       *)
(***************************************************************************)
Called(i) ==
    call.pc # "none" /\ call.item = i =>
      /\ call.read => call.flag = cache[i].flag
      /\ call.kind = "add" => call.pc \in {"server", "answer"}
      /\ call.kind # "add" => cache[i].v # 0 /\ cache[i].flag # "deleted"
      /\ call.pc \in {"modify", "markModified"} => call.kind = "modify"
      /\ call.pc = "markDeleted" => call.kind = "delete"
      /\ call.pc \in {"server", "answer"} => cache[i].flag = "none"
      /\ call.kind = "add" /\ ~CallTaken(i) => server[i] = 0
      /\ CallTaken(i) => IF call.kind = "delete" THEN server[i] = 0
                         ELSE server[i] = call.op /\ call.op \in done
      /\ Modifying(i) =>
           cache[i].flag = "none" /\ known[i] = call.op /\ call.op \in done
      /\ Marking(i) =>
           /\ cache[i].v = call.op
           /\ cache[i].flag # "none" => Edited(i)

KeptIn(i, rows) ==
    last[i].op # 0 =>
      IF last[i].kind = "delete"
      THEN \/ server[i] = 0 \/ server[i] > last[i].op
           \/ \E row \in rows : row.flag = "deleted"
      ELSE last[i].op \in done
             \/ \E row \in rows : /\ row.flag \in {"created", "modified"}
                                  /\ row.v >= last[i].op

ItemInv(i) ==
    /\ Flags(i) /\ Copies(i) /\ Saved(i) /\ Played(i) /\ Called(i)
    /\ KeptIn(i, Rows(i))

Inv == Exclusive /\ Later /\ \A i \in Item \ remote : ItemInv(i)

-----------------------------------------------------------------------------
(* Types                                                                   *)
-----------------------------------------------------------------------------
Entry == [item : Item, v : Version]

(***************************************************************************)
(* A playback that sends an item has one to send.                          *)
(***************************************************************************)
Queues ==
    \A s \in Slot :
      playback[s].pc \in {"send", "answer"} => playback[s].queue # <<>>

Typed == TypeOK /\ Queues

LEMMA OrdersAreSequences ==
  ASSUME NEW S \in SUBSET Entry, IsFiniteSet(S), NEW q \in SetToSeqs(S)
  PROVE  q \in Seq(Entry) /\ \A k \in DOMAIN q : q[k] \in S
  <1>1. Cardinality(S) \in Nat
    BY FS_CardinalityType
  <1>2. q \in [1 .. Cardinality(S) -> S]
    BY DEF SetToSeqs
  <1>3. q \in Seq(S)
    BY <1>1, <1>2
  <1> QED
    BY <1>2, <1>3

LEMMA Ends ==
  ASSUME NEW q \in Seq(Entry), q # <<>>
  PROVE  /\ Last(q) \in Entry /\ Last(q) \in {q[k] : k \in DOMAIN q}
         /\ Front(q) \in Seq(Entry)
         /\ \A k \in DOMAIN Front(q) : k \in DOMAIN q /\ Front(q)[k] = q[k]
  <1>1. Len(q) \in Nat /\ Len(q) # 0 /\ Len(q) \in DOMAIN q
    OBVIOUS
  <1>2. Last(q) = q[Len(q)]
    BY DEF Last
  <1>3. /\ Front(q) \in Seq(Entry)
        /\ \A k \in DOMAIN Front(q) : k \in DOMAIN q /\ Front(q)[k] = q[k]
    BY <1>1 DEF Front
  <1> QED
    BY <1>1, <1>2, <1>3

LEMMA PlaybackType ==
  Playback = [pc : {"none", "query", "queried", "send", "answer", "replay"},
              phase : Phase, queue : Seq(Entry), ok : BOOLEAN,
              then : {"refresh", "sync", "load"}]
  BY DEF Playback, Entry

LEMMA PlaybackTypes ==
  /\ NoPlayback \in Playback
  /\ \A then \in {"refresh", "sync", "load"} : Started(then) \in Playback
  <1>1. <<>> \in Seq(Entry)
    OBVIOUS
  <1>2. NoPlayback \in Playback
    BY <1>1, PlaybackType DEF NoPlayback, Phase
  <1>3. ASSUME NEW then \in {"refresh", "sync", "load"}
        PROVE  Started(then) \in Playback
    BY <1>2, PlaybackType DEF Started
  <1> QED
    BY <1>2, <1>3

LEMMA PlaybackUpdates ==
  ASSUME NEW p \in Playback
  PROVE  /\ p.queue \in Seq(Entry) /\ p.phase \in Phase
         /\ \A q \in Seq(Entry), pc \in {"queried", "send"} :
              [p EXCEPT !.pc = pc, !.queue = q] \in Playback
         /\ \A ok \in BOOLEAN :
              [p EXCEPT !.pc = "answer", !.ok = ok] \in Playback
         /\ [p EXCEPT !.pc = "query", !.phase = After(@), !.queue = <<>>]
              \in Playback
         /\ [p EXCEPT !.pc = "replay"] \in Playback
  <1>1. p.queue \in Seq(Entry) /\ p.phase \in Phase
    BY PlaybackType
  <1>2. ASSUME NEW q \in Seq(Entry), NEW pc \in {"queried", "send"}
        PROVE  [p EXCEPT !.pc = pc, !.queue = q] \in Playback
    BY PlaybackType
  <1>3. ASSUME NEW ok \in BOOLEAN
        PROVE  [p EXCEPT !.pc = "answer", !.ok = ok] \in Playback
    BY PlaybackType
  <1>4. [p EXCEPT !.pc = "query", !.phase = After(@), !.queue = <<>>]
          \in Playback
    <2>1. After(p.phase) \in Phase /\ <<>> \in Seq(Entry)
      BY DEF After, Phase
    <2> QED
      BY <2>1, PlaybackType
  <1>5. [p EXCEPT !.pc = "replay"] \in Playback
    BY PlaybackType
  <1> QED
    BY <1>1, <1>2, <1>3, <1>4, <1>5

LEMMA CallUpdates ==
  ASSUME call \in Call
  PROVE  /\ call.kind \in Kind /\ call.item \in Item /\ call.op \in OpId
         /\ call.flag \in Flag /\ call.old \in Version
         /\ \A flag \in Flag :
              [call EXCEPT !.read = TRUE, !.flag = flag] \in Call
         /\ \A keep \in BOOLEAN, pc \in {"server", "modify", "markDeleted"} :
              [call EXCEPT !.read = FALSE, !.keep = keep, !.pc = pc] \in Call
         /\ \A keep \in BOOLEAN, pc \in {"modify", "markDeleted"} :
              [call EXCEPT !.pc = pc, !.keep = keep] \in Call
         /\ \A answer \in {"ok", "unavailable", "error"} :
              [call EXCEPT !.pc = "answer", !.answer = answer] \in Call
         /\ [call EXCEPT !.pc = "markModified", !.read = FALSE] \in Call
  BY DEF Call

LEMMA Numbers ==
  /\ MaxOps \in Nat /\ MaxRemote \in Nat
  /\ OpId \subseteq Version /\ 0 \in Version /\ Version \subseteq Nat
  BY BoundsAssumption DEF OpId, Version

(***************************************************************************)
(* What the types say of each variable.                                    *)
(***************************************************************************)
Outcome == [op : OpId \cup {0}, kind : Kind]
Budget == [op : 0 .. MaxOps, fail : 0 .. MaxFailures, remote : 0 .. MaxRemote,
           toggle : 0 .. MaxToggles, crash : 0 .. MaxCrashes]
Syncing == [pc : {"none", "snapshot", "get", "renewed", "playing", "stuck"},
            saved : [Item -> Row]]

LEMMA TypesSplit ==
  TypeOK <=>
    /\ mode \in Modes /\ offline \in BOOLEAN
    /\ cache \in [Item -> Row]
    /\ server \in [Item -> Version] /\ known \in [Item -> Version]
    /\ call = NoCall \/ call \in Call
    /\ playback \in [Slot -> Playback]
    /\ sync \in Syncing
    /\ last \in [Item -> Outcome]
    /\ done \subseteq OpId /\ remote \subseteq Item
    /\ budget \in Budget
  BY DEF TypeOK, Outcome, Budget, Syncing

LEMMA TypesNext ==
  TypeOK' <=>
    /\ mode' \in Modes /\ offline' \in BOOLEAN
    /\ cache' \in [Item -> Row]
    /\ server' \in [Item -> Version] /\ known' \in [Item -> Version]
    /\ call' = NoCall \/ call' \in Call
    /\ playback' \in [Slot -> Playback]
    /\ sync' \in Syncing
    /\ last' \in [Item -> Outcome]
    /\ done' \subseteq OpId /\ remote' \subseteq Item
    /\ budget' \in Budget
  BY DEF TypeOK, Outcome, Budget, Syncing

LEMMA Rowing ==
  /\ NoRow \in Row /\ NoneSaved \in [Item -> Row] /\ NoSync \in Syncing
  /\ \A v \in Version, flag \in Flag : [v |-> v, flag |-> flag] \in Row
  BY Numbers DEF NoRow, Row, Flag, NoneSaved, NoSync, Syncing

LEMMA InitTypes == Init => Typed
  <1> SUFFICES ASSUME Init PROVE Typed
    OBVIOUS
  <1>1. [op |-> 0, kind |-> "add"] \in Outcome
    BY DEF Outcome, Kind
  <1>2. budget \in Budget
    BY BoundsAssumption DEF Init, Budget
  <1>3. TypeOK
    BY <1>1, <1>2, Numbers, Rowing, PlaybackTypes, TypesSplit DEF Init
  <1> QED
    BY <1>3 DEF Init, Typed, Queues, NoPlayback

(***************************************************************************)
(* The steps of a call.                                                    *)
(***************************************************************************)
LEMMA Storing ==
  ASSUME TypeOK, NEW kind \in Kind, NEW i \in Item, NEW v \in Version,
         \/ Stores(kind, i, v)
         \/ UNCHANGED <<server, done>>
  PROVE  server' \in [Item -> Version] /\ done' \subseteq OpId
  BY Numbers DEF TypeOK, Stores, Result

LEMMA Failing ==
  ASSUME TypeOK, NEW kind \in Kind, NEW i \in Item, NEW v \in Version, NEW old,
         Fails(kind, i, v, old)
  PROVE  /\ server' \in [Item -> Version] /\ done' \subseteq OpId
         /\ budget' \in Budget
  <1>1. server' \in [Item -> Version] /\ done' \subseteq OpId
    BY Storing DEF Fails
  <1>2. budget' \in Budget
    BY TypesSplit, BoundsAssumption DEF Fails, Budget
  <1> QED
    BY <1>1, <1>2

LEMMA Marks ==
  ASSUME cache \in [Item -> Row], NEW i \in Item, NEW flag \in Flag
  PROVE  /\ WithFlag(i, flag) \in [Item -> Row]
         /\ \A j \in Item : WithFlag(i, flag)[j] =
              IF j = i /\ cache[i].v # 0 THEN [cache[j] EXCEPT !.flag = flag]
              ELSE cache[j]
  <1>1. cache[i].v # 0 => WithFlag(i, flag) = [cache EXCEPT ![i].flag = flag]
    BY DEF WithFlag
  <1>2. cache[i].v = 0 => WithFlag(i, flag) = cache
    BY DEF WithFlag
  <1>3. \A row \in Row : [row EXCEPT !.flag = flag] \in Row
    BY DEF Row
  <1> QED
    BY <1>1, <1>2, <1>3

LEMMA CallTypes ==
  ASSUME Typed, CallOperation
  PROVE  Typed'
  <1>1. PICK kind \in Kind, i \in Item :
          \/ /\ cache' = [cache EXCEPT ![i] = [v |-> budget.op + 1,
                                               flag |-> "created"]]
             /\ Told(NewCall(kind, i, "none"))
             /\ call' = call
          \/ /\ \E pc : /\ pc \in {"facade", "server", "modify", "markDeleted"}
                        /\ call' = NewCall(kind, i, pc)
             /\ cache' = cache /\ last' = last
    BY DEF CallOperation, Kind
  <1>2. /\ cache \in [Item -> Row] /\ last \in [Item -> Outcome]
        /\ budget \in Budget
        /\ call = NoCall \/ call \in Call
        /\ offline \in BOOLEAN
    BY TypesSplit DEF Typed
  <1>3. budget.op + 1 \in OpId /\ budget' \in Budget
    <2>1. /\ budget.op \in 0 .. MaxOps /\ budget.op < MaxOps
          /\ budget' = [budget EXCEPT !.op = @ + 1]
      BY <1>2 DEF CallOperation, Budget
    <2>2. budget.op + 1 \in 1 .. MaxOps /\ budget.op + 1 \in 0 .. MaxOps
      BY <2>1, Numbers
    <2> QED
      BY <1>2, <2>1, <2>2 DEF Budget, OpId
  <1>4. ASSUME NEW pc \in {"facade", "server", "modify", "markDeleted"}
        PROVE  NewCall(kind, i, pc) \in Call
    BY <1>2, <1>3, Numbers DEF NewCall, Call, Row, Flag, Kind
  <1>5. call' = NoCall \/ call' \in Call
    BY <1>1, <1>2, <1>4
  <1>6. cache' \in [Item -> Row]
    BY <1>1, <1>2, <1>3, Numbers, Rowing DEF Flag
  <1>7. last' \in [Item -> Outcome]
    <2>1. [op |-> budget.op + 1, kind |-> kind] \in Outcome
      BY <1>3 DEF Outcome
    <2> QED
      BY <1>1, <1>2, <2>1 DEF Told, NewCall
  <1> QED
    BY <1>3, <1>5, <1>6, <1>7, TypesSplit, TypesNext
    DEF Typed, Queues, CallOperation

LEMMA CallStepTypes ==
  ASSUME Typed, CallGoesOn
  PROVE  Typed'
  <1>1. /\ call \in Call /\ call.pc # "none"
        /\ cache \in [Item -> Row] /\ last \in [Item -> Outcome]
        /\ server \in [Item -> Version] /\ known \in [Item -> Version]
    BY TypesSplit
    DEF Typed, CallGoesOn, ReadFlag, FacadeGetsFlag, ServerTakesCall,
        ServerFailsCall, CallAnswered, ModifyInCache, MarkModified, MarkDeleted,
        NoCall
  <1>2. /\ call.item \in Item /\ call.op \in OpId /\ call.flag \in Flag
        /\ call.kind \in Kind /\ call.op \in Version
        /\ "none" \in Flag /\ "created" \in Flag /\ "modified" \in Flag
        /\ "deleted" \in Flag
    BY <1>1, CallUpdates, Numbers DEF Flag
  <1>3. Told(call) => last' \in [Item -> Outcome]
    <2>1. [op |-> call.op, kind |-> call.kind] \in Outcome
      BY <1>2 DEF Outcome
    <2> QED
      BY <1>1, <2>1 DEF Told
  <1>4. \A flag \in Flag :
          [cache EXCEPT ![call.item] = [v |-> call.op, flag |-> flag]]
            \in [Item -> Row]
    BY <1>1, <1>2, Rowing
  <1>5. [cache EXCEPT ![call.item] = NoRow] \in [Item -> Row]
    BY <1>1, <1>2, Rowing
  <1>6. CASE ReadFlag
    <2>1. cache[call.item].flag \in Flag
      BY <1>1, <1>2 DEF Row
    <2> QED
      BY <1>1, <1>6, <2>1, CallUpdates, TypesSplit, TypesNext
      DEF ReadFlag, Typed, Queues
  <1>7. CASE FacadeGetsFlag
    <2>1. call' \in Call
      <3>1. PICK keep \in BOOLEAN, pc \in {"server", "modify", "markDeleted"} :
              call' = [call EXCEPT !.read = FALSE, !.keep = keep, !.pc = pc]
        <4> DEFINE k == call.flag \in {"created", "modified"}
                   c == IF ~k THEN "server"
                        ELSE IF call.kind = "modify" THEN "modify"
                             ELSE "markDeleted"
        <4>1. /\ k \in BOOLEAN /\ c \in {"server", "modify", "markDeleted"}
              /\ call' = [call EXCEPT !.read = FALSE, !.keep = k, !.pc = c]
          BY <1>7 DEF FacadeGetsFlag
        <4> QED
          BY <4>1
      <3> QED
        BY <1>1, <3>1, CallUpdates
    <2> QED
      BY <1>7, <2>1, TypesSplit, TypesNext DEF FacadeGetsFlag, Typed, Queues
  <1>8. CASE ServerTakesCall
    BY <1>1, <1>2, <1>8, CallUpdates, Storing, TypesSplit, TypesNext
    DEF ServerTakesCall, Typed, Queues
  <1>9. CASE ServerFailsCall
    BY <1>1, <1>2, <1>9, CallUpdates, Failing, TypesSplit, TypesNext
    DEF ServerFailsCall, Typed, Queues
  <1>10. CASE CallAnswered
    <2>1. known' \in [Item -> Version]
      BY <1>1, <1>2, <1>10, Numbers DEF CallAnswered, Result
    <2>2. cache' \in [Item -> Row]
      BY <1>1, <1>2, <1>4, <1>5, <1>10 DEF CallAnswered
    <2>3. last' \in [Item -> Outcome]
      BY <1>1, <1>3, <1>10 DEF CallAnswered
    <2>4. call' = NoCall \/ call' \in Call
      BY <1>1, <1>10, CallUpdates DEF CallAnswered
    <2> QED
      BY <1>10, <2>1, <2>2, <2>3, <2>4, TypesSplit, TypesNext
      DEF CallAnswered, Typed, Queues
  <1>11. CASE ModifyInCache
    <2>1. call' = NoCall \/ call' \in Call
      BY <1>1, <1>11, CallUpdates DEF ModifyInCache
    <2> QED
      BY <1>1, <1>2, <1>3, <1>4, <1>11, <2>1, TypesSplit, TypesNext
      DEF ModifyInCache, Typed, Queues
  <1>12. CASE MarkModified
    BY <1>1, <1>2, <1>3, <1>12, Marks, TypesSplit, TypesNext
    DEF MarkModified, Typed, Queues
  <1>13. CASE MarkDeleted
    BY <1>1, <1>2, <1>3, <1>5, <1>13, Marks, TypesSplit, TypesNext
    DEF MarkDeleted, Typed, Queues
  <1> QED
    BY <1>6, <1>7, <1>8, <1>9, <1>10, <1>11, <1>12, <1>13 DEF CallGoesOn

(***************************************************************************)
(* The steps of a playback.                                                *)
(***************************************************************************)
LEMMA Finishing ==
  ASSUME Typed, NEW s \in Slot, Finish(s)
  PROVE  /\ playback' \in [Slot -> Playback] /\ sync' \in Syncing
         /\ \A r \in Slot : r # s => playback'[r] = playback[r]
         /\ playback'[s].pc \in {"none", "replay"}
         /\ sync' = sync \/ sync' = NoSync
  <1>1. playback \in [Slot -> Playback] /\ sync \in Syncing
    BY TypesSplit DEF Typed
  <1>2. PICK p \in {NoPlayback, [playback[s] EXCEPT !.pc = "replay"]} :
          playback' = [playback EXCEPT ![s] = p]
    BY <1>1 DEF Finish
  <1>3. p \in Playback /\ p.pc \in {"none", "replay"}
    <2>1. CASE p = NoPlayback
      BY <2>1, PlaybackTypes DEF NoPlayback
    <2>2. CASE p = [playback[s] EXCEPT !.pc = "replay"]
      <3>1. p \in Playback
        BY <1>1, <2>2, PlaybackUpdates
      <3>2. p.pc = "replay"
        BY <1>1, <2>2, PlaybackType
      <3> QED
        BY <3>1, <3>2
    <2> QED
      BY <1>2, <2>1, <2>2
  <1> QED
    BY <1>1, <1>2, <1>3, Rowing DEF Finish

LEMMA Popping ==
  ASSUME Typed, NEW s \in Slot, NEW q \in Seq(Entry), PopItemQueue(s, q)
  PROVE  /\ playback' \in [Slot -> Playback] /\ sync' \in Syncing
         /\ \A r \in Slot : r # s => playback'[r] = playback[r]
         /\ \/ playback'[s].pc \in {"none", "replay", "query"}
            \/ /\ playback'[s].pc = "send" /\ q # <<>>
               /\ playback'[s].queue = q
               /\ playback'[s].phase = playback[s].phase
         /\ sync' = sync \/ sync' = NoSync
  <1>1. playback \in [Slot -> Playback] /\ sync \in Syncing
    BY TypesSplit DEF Typed
  <1>2. CASE q = <<>> /\ playback[s].phase = "deleted"
    BY <1>2, Finishing DEF PopItemQueue
  <1>3. CASE ~(q = <<>> /\ playback[s].phase = "deleted")
    <2> DEFINE p == IF q # <<>> THEN [playback[s] EXCEPT !.pc = "send",
                                                        !.queue = q]
                    ELSE [playback[s] EXCEPT !.pc = "query", !.phase = After(@),
                                             !.queue = <<>>]
    <2>1. playback' = [playback EXCEPT ![s] = p] /\ sync' = sync
      <3>1. CASE q # <<>>
        BY <1>1, <1>3, <3>1 DEF PopItemQueue
      <3>2. CASE q = <<>>
        <4>1. p = [playback[s] EXCEPT !.pc = "query", !.phase = After(@),
                                      !.queue = <<>>]
          BY <3>2
        <4> QED
          BY <1>1, <1>3, <3>2, <4>1 DEF PopItemQueue
      <3> QED
        BY <3>1, <3>2
    <2>2. p \in Playback
      BY <1>1, PlaybackUpdates
    <2>3. IF q # <<>>
          THEN p.pc = "send" /\ p.queue = q /\ p.phase = playback[s].phase
          ELSE p.pc = "query"
      BY <1>1, PlaybackType
    <2> QED
      BY <1>1, <2>1, <2>2, <2>3
  <1> QED
    BY <1>2, <1>3

(***************************************************************************)
(* Some fields of the playback of one slot are changed.                    *)
(***************************************************************************)
LEMMA Changing ==
  ASSUME Typed, NEW s \in Slot, NEW p \in Playback,
         playback' = [playback EXCEPT ![s] = p],
         p.pc \in {"send", "answer"} => p.queue # <<>>
  PROVE  playback' \in [Slot -> Playback] /\ Queues'
  <1>1. playback \in [Slot -> Playback]
    BY TypesSplit DEF Typed
  <1> QED
    BY <1>1 DEF Typed, Queues

LEMMA PlaybackStepTypes ==
  ASSUME Typed, NEW s \in Slot, PlaybackGoesOn(s)
  PROVE  Typed'
  <1>1. /\ playback \in [Slot -> Playback] /\ cache \in [Item -> Row]
        /\ server \in [Item -> Version] /\ known \in [Item -> Version]
        /\ playback[s] \in Playback /\ playback[s].queue \in Seq(Entry)
        /\ playback[s].phase \in Phase
    BY TypesSplit, PlaybackUpdates DEF Typed
  <1>2. CASE QueryItems(s)
    <2> DEFINE flagged == {i \in Item : cache[i].flag = playback[s].phase}
               entries == {[item |-> i, v |-> cache[i].v] : i \in flagged}
    <2>1. PICK q \in SetToSeqs(entries) :
            playback' = [playback EXCEPT ![s].pc = "queried", ![s].queue = q]
      BY <1>2 DEF QueryItems
    <2>2. entries \in SUBSET Entry
      BY <1>1 DEF Entry, Row
    <2>3. IsFiniteSet(entries)
      <3>1. IsFiniteSet(flagged)
        BY ItemAssumption, FS_Subset
      <3> DEFINE f == [i \in flagged |-> [item |-> i, v |-> cache[i].v]]
      <3>2. f \in Surjection(flagged, entries)
        BY DEF Surjection
      <3> QED
        BY <3>1, <3>2, FS_Surjection
    <2>4. q \in Seq(Entry)
      BY <2>2, <2>3, OrdersAreSequences
    <2> DEFINE p == [playback[s] EXCEPT !.pc = "queried", !.queue = q]
    <2>5. p \in Playback /\ p.pc = "queried"
      <3>1. p \in Playback
        BY <1>1, <2>4, PlaybackUpdates
      <3> QED
        BY <1>1, <3>1, PlaybackType
    <2>6. playback' = [playback EXCEPT ![s] = p]
      BY <1>1, <2>1
    <2>7. playback' \in [Slot -> Playback] /\ Queues'
      BY <2>5, <2>6, Changing
    <2> QED
      BY <1>2, <2>7, TypesSplit, TypesNext DEF QueryItems, Typed
  <1>3. CASE ItemsFound(s)
    <2>1. /\ playback' \in [Slot -> Playback] /\ sync' \in Syncing
          /\ \A r \in Slot : r # s => playback'[r] = playback[r]
          /\ playback'[s].pc \in {"send", "answer"} => playback'[s].queue # <<>>
      BY <1>1, <1>3, Finishing, Popping DEF ItemsFound
    <2> QED
      BY <1>3, <2>1, TypesSplit, TypesNext DEF ItemsFound, Typed, Queues
  <1>4. ASSUME NEW ok \in BOOLEAN, playback[s].pc = "send",
               playback' = [playback EXCEPT ![s].pc = "answer", ![s].ok = ok]
        PROVE  playback' \in [Slot -> Playback] /\ Queues'
    <2> DEFINE p == [playback[s] EXCEPT !.pc = "answer", !.ok = ok]
    <2>1. p \in Playback /\ p.queue = playback[s].queue
      <3>1. p \in Playback
        BY <1>1, PlaybackUpdates
      <3> QED
        BY <1>1, <3>1, PlaybackType
    <2>2. p.queue # <<>>
      BY <1>4, <2>1 DEF Typed, Queues
    <2>3. playback' = [playback EXCEPT ![s] = p]
      BY <1>1, <1>4
    <2> QED
      BY <2>1, <2>2, <2>3, Changing
  <1>5. ASSUME playback[s].pc \in {"send", "answer"}
        PROVE  /\ Last(playback[s].queue).item \in Item
               /\ Last(playback[s].queue).v \in Version
               /\ KindOf(playback[s].phase) \in Kind
               /\ Front(playback[s].queue) \in Seq(Entry)
    <2>1. playback[s].queue # <<>>
      BY <1>5 DEF Typed, Queues
    <2> QED
      BY <1>1, <2>1, Ends DEF Entry, KindOf, Phase, Kind
  <1>6. CASE ServerTakesItem(s)
    <2>1. server' \in [Item -> Version] /\ done' \subseteq OpId
      BY <1>5, <1>6, Storing DEF ServerTakesItem, Typed
    <2>2. playback' \in [Slot -> Playback] /\ Queues'
      BY <1>4, <1>6 DEF ServerTakesItem
    <2> QED
      BY <1>6, <2>1, <2>2, TypesSplit, TypesNext DEF ServerTakesItem, Typed
  <1>7. CASE ServerFailsItem(s)
    <2>1. server' \in [Item -> Version] /\ done' \subseteq OpId
          /\ budget' \in Budget
      BY <1>5, <1>7, Failing DEF ServerFailsItem, Typed
    <2>2. playback' \in [Slot -> Playback] /\ Queues'
      BY <1>4, <1>7 DEF ServerFailsItem
    <2> QED
      BY <1>7, <2>1, <2>2, TypesSplit, TypesNext DEF ServerFailsItem, Typed
  <1>8. CASE ItemAnswered(s)
    <2>1. playback[s].pc = "answer"
      BY <1>8 DEF ItemAnswered
    <2>2. /\ playback' \in [Slot -> Playback] /\ sync' \in Syncing
          /\ \A r \in Slot : r # s => playback'[r] = playback[r]
          /\ playback'[s].pc \in {"send", "answer"} => playback'[s].queue # <<>>
      BY <1>1, <1>5, <1>8, <2>1, Popping DEF ItemAnswered
    <2>3. cache' \in [Item -> Row]
      BY <1>1, <1>5, <1>8, <2>1, Marks, Rowing DEF ItemAnswered, Flag
    <2>4. known' \in [Item -> Version]
      BY <1>1, <1>5, <1>8, <2>1, Numbers DEF ItemAnswered, Result
    <2> QED
      BY <1>8, <2>2, <2>3, <2>4, TypesSplit, TypesNext DEF ItemAnswered, Typed, Queues
  <1>9. CASE Replay(s)
    <2>1. cache' \in [Item -> Row]
      BY <1>1, <1>9, Rowing DEF Replay, Flag
    <2>2. playback' \in [Slot -> Playback] /\ Queues'
      BY <1>9, PlaybackTypes, Changing DEF Replay, NoPlayback
    <2> QED
      BY <1>1, <1>9, <2>1, <2>2, TypesSplit, TypesNext DEF Replay, Typed
  <1>10. CASE ReplayFails(s)
    <2>1. playback' \in [Slot -> Playback] /\ Queues'
      BY <1>10, PlaybackTypes, Changing DEF ReplayFails, NoPlayback
    <2>2. budget' \in Budget
      BY <1>10, TypesSplit, BoundsAssumption DEF ReplayFails, Typed, Budget
    <2> QED
      BY <1>10, <2>1, <2>2, TypesSplit, TypesNext DEF ReplayFails, Typed
  <1>11. CASE ProviderThrows(s)
    <2>1. playback' \in [Slot -> Playback] /\ Queues'
      BY <1>11, PlaybackTypes, Changing DEF ProviderThrows, NoPlayback
    <2>2. budget' \in Budget
      BY <1>11, TypesSplit, BoundsAssumption DEF ProviderThrows, Typed, Budget
    <2>3. sync' \in Syncing
      <3>1. NoneSaved \in [Item -> Row] /\ sync \in Syncing
        BY TypesSplit, Rowing DEF Typed
      <3>2. [NoSync EXCEPT !.pc = "stuck"]
              = [pc |-> "stuck", saved |-> NoneSaved]
        BY DEF NoSync
      <3>3. [pc |-> "stuck", saved |-> NoneSaved] \in Syncing
        BY <3>1 DEF Syncing
      <3> QED
        BY <1>11, <3>1, <3>2, <3>3 DEF ProviderThrows
    <2> QED
      BY <1>11, <2>1, <2>2, <2>3, TypesSplit, TypesNext
      DEF ProviderThrows, Typed
  <1> QED
    BY <1>2, <1>3, <1>6, <1>7, <1>8, <1>9, <1>10, <1>11 DEF PlaybackGoesOn

(***************************************************************************)
(* The steps of a synchronisation, and of the rest of the world.           *)
(***************************************************************************)
LEMMA OtherTypes ==
  ASSUME Typed,
         \/ SyncGoesOn \/ Refresh \/ GoOnline \/ GoOffline
         \/ RemoteWrites \/ Crash \/ UNCHANGED vars
  PROVE  Typed'
  <1>1. /\ playback \in [Slot -> Playback] /\ cache \in [Item -> Row]
        /\ server \in [Item -> Version] /\ known \in [Item -> Version]
        /\ sync \in Syncing /\ budget \in Budget /\ last \in [Item -> Outcome]
        /\ call = NoCall \/ call \in Call
    BY TypesSplit DEF Typed
  <1>2. ASSUME NEW s \in Slot, NEW then \in {"refresh", "sync", "load"},
               playback' = [playback EXCEPT ![s] = Started(then)]
        PROVE  playback' \in [Slot -> Playback] /\ Queues'
    BY <1>2, PlaybackTypes, Changing DEF Started, NoPlayback
  <1>3. CASE SyncSnapshot
    BY <1>1, <1>3, TypesSplit, TypesNext, Rowing
    DEF SyncSnapshot, Syncing, Typed, Queues
  <1>4. CASE SyncGets
    BY <1>1, <1>4, TypesSplit, TypesNext, Rowing
    DEF SyncGets, Syncing, Flag, Typed, Queues
  <1>5. CASE SyncGetFails
    <2>1. playback' \in [Slot -> Playback] /\ Queues'
      BY <1>2, <1>5 DEF SyncGetFails, FreeSlots
    <2>2. budget' \in Budget
      BY <1>1, <1>5, BoundsAssumption DEF SyncGetFails, Budget
    <2> QED
      BY <1>5, <2>1, <2>2, TypesSplit, TypesNext, Rowing DEF SyncGetFails, Typed
  <1>6. CASE SyncCompletes
    <2>1. playback' \in [Slot -> Playback] /\ Queues'
      BY <1>2, <1>6 DEF SyncCompletes, FreeSlots
    <2>2. sync' \in Syncing
      BY <1>6, Rowing DEF SyncCompletes, NoSync, Syncing
    <2>3. last' \in [Item -> Outcome]
      <3>1. [op |-> 0, kind |-> "add"] \in Outcome
        BY DEF Outcome, Kind
      <3> QED
        BY <1>1, <1>6, <3>1 DEF SyncCompletes
    <2>4. \A i \in Item : PutBack(i, sync.saved[i]) \in Row
      <3> SUFFICES ASSUME NEW i \in Item
                   PROVE  PutBack(i, sync.saved[i]) \in Row
        OBVIOUS
      <3>1. cache[i] \in Row /\ sync.saved[i] \in Row
        BY <1>1 DEF Syncing
      <3>2. WithFlag(i, "deleted")[i] \in Row
        BY <1>1, Marks DEF Flag
      <3> QED
        BY <3>1, <3>2, Rowing DEF PutBack, Row, Flag
    <2>5. cache' \in [Item -> Row]
      BY <1>1, <1>6, <2>4 DEF SyncCompletes
    <2> QED
      BY <1>6, <2>1, <2>2, <2>3, <2>5, TypesSplit, TypesNext DEF SyncCompletes, Typed
  <1>7. CASE Refresh \/ GoOnline
    <2>1. playback' \in [Slot -> Playback] /\ Queues'
      BY <1>1, <1>2, <1>7
      DEF Refresh, GoOnline, StartRefresh, FreeSlots, Typed, Queues
    <2>2. sync' \in Syncing
      BY <1>1, <1>7, Rowing DEF Refresh, GoOnline, StartRefresh, NoSync, Syncing
    <2> QED
      BY <1>7, <2>1, <2>2, TypesSplit, TypesNext DEF Refresh, GoOnline, Typed
  <1>8. CASE GoOffline
    <2>1. budget' \in Budget
      BY <1>1, <1>8, BoundsAssumption DEF GoOffline, Budget
    <2> QED
      BY <1>8, <2>1, TypesSplit, TypesNext DEF GoOffline, Typed, Queues
  <1>9. CASE RemoteWrites
    <2>1. budget' \in Budget
      BY <1>1, <1>9, BoundsAssumption DEF RemoteWrites, Budget
    <2>2. MaxOps + budget.remote + 1 \in Version
      BY <1>1, <1>9, Numbers DEF RemoteWrites, Budget, Version
    <2>3. server' \in [Item -> Version] /\ remote' \subseteq Item
      BY <1>1, <1>9, <2>2, Numbers, TypesSplit, TypesNext DEF RemoteWrites, Typed
    <2> QED
      BY <1>9, <2>1, <2>3, TypesSplit, TypesNext DEF RemoteWrites, Typed, Queues
  <1>10. CASE Crash
    <2>1. budget' \in Budget
      BY <1>1, <1>10, BoundsAssumption DEF Crash, Budget
    <2> QED
      BY <1>10, <2>1, TypesSplit, TypesNext, Rowing, PlaybackTypes
      DEF Crash, Typed, Queues, NoPlayback
  <1>11. CASE UNCHANGED vars
    BY <1>11, TypesSplit, TypesNext DEF vars, Typed, Queues
  <1> QED
    BY <1>3, <1>4, <1>5, <1>6, <1>7, <1>8, <1>9, <1>10, <1>11 DEF SyncGoesOn

LEMMA StepTypes == Typed /\ [Next]_vars => Typed'
  BY CallTypes, CallStepTypes, PlaybackStepTypes, OtherTypes DEF Next

(***************************************************************************)
(* The rows of the cache, the items on the server, the calls, playbacks    *)
(* and synchronisations are of their types, whatever fails, crashes or     *)
(* overlaps (calCachedCalendar.js).                                        *)
(***************************************************************************)
THEOREM TypeCorrect == Spec => []TypeOK
  <1>1. Typed => TypeOK
    BY DEF Typed
  <1> QED
    BY InitTypes, StepTypes, <1>1, PTL DEF Spec

-----------------------------------------------------------------------------
(* The safety of the cache                                                 *)
-----------------------------------------------------------------------------
LEMMA Fields ==
  ASSUME TypeOK
  PROVE  /\ cache \in [Item -> Row] /\ last \in [Item -> Outcome]
         /\ server \in [Item -> Version] /\ known \in [Item -> Version]
         /\ playback \in [Slot -> Playback] /\ sync \in Syncing
         /\ budget.op \in Nat
         /\ call = NoCall \/ call \in Call
         /\ \A i \in Item :
              /\ cache[i].v \in Nat /\ cache[i].flag \in Flag
              /\ cache[i] \in Row
              /\ server[i] \in Nat /\ known[i] \in Nat
              /\ last[i].op \in Nat /\ last[i].kind \in Kind
              /\ last[i].op # 0 => last[i].op \in OpId
         /\ call.pc # "none" =>
              /\ call \in Call /\ call.kind \in Kind /\ call.item \in Item
              /\ call.op \in Nat /\ call.op # 0 /\ call.op \in OpId
  <1>1. /\ cache \in [Item -> Row] /\ last \in [Item -> Outcome]
        /\ server \in [Item -> Version] /\ known \in [Item -> Version]
        /\ playback \in [Slot -> Playback] /\ sync \in Syncing
        /\ budget \in Budget
        /\ call = NoCall \/ call \in Call
    BY TypesSplit
  <1>2. budget.op \in Nat
    BY <1>1, Numbers DEF Budget
  <1>3. OpId \subseteq Nat \ {0}
    BY Numbers DEF OpId
  <1>4. ASSUME NEW i \in Item
        PROVE  /\ cache[i].v \in Nat /\ cache[i].flag \in Flag
               /\ cache[i] \in Row
               /\ server[i] \in Nat /\ known[i] \in Nat
               /\ last[i].op \in Nat /\ last[i].kind \in Kind
               /\ last[i].op # 0 => last[i].op \in OpId
    BY <1>1, <1>3, Numbers DEF Row, Outcome
  <1>5. call.pc # "none" =>
          /\ call \in Call /\ call.kind \in Kind /\ call.item \in Item
          /\ call.op \in Nat /\ call.op # 0 /\ call.op \in OpId
    <2>1. SUFFICES ASSUME call.pc # "none"
                   PROVE  /\ call \in Call /\ call.kind \in Kind
                          /\ call.item \in Item
                          /\ call.op \in Nat /\ call.op # 0 /\ call.op \in OpId
      OBVIOUS
    <2>2. call \in Call
      BY <1>1, <2>1 DEF NoCall
    <2>3. call.kind \in Kind /\ call.item \in Item /\ call.op \in OpId
      BY <2>2 DEF Call
    <2> QED
      BY <1>3, <2>2, <2>3
  <1> QED
    BY <1>1, <1>2, <1>4, <1>5

(***************************************************************************)
(* What a slot whose playback does not change says of an item.             *)
(***************************************************************************)
LEMMA SameSlot ==
  ASSUME NEW r \in Slot, playback'[r] = playback[r], NEW i \in Item
  PROVE  /\ Taken(r, i)' <=> Taken(r, i)
         /\ Queue(r)' = Queue(r)
         /\ \A e : Sends(r, e)' <=> Sends(r, e)
  BY DEF Taken, Sends, Queue

(***************************************************************************)
(* An item that a step does not touch.                                     *)
(***************************************************************************)
LEMMA Untouched ==
  ASSUME NEW i \in Item, ItemInv(i),
         cache'[i] = cache[i], server'[i] = server[i], known'[i] = known[i],
         last'[i] = last[i], done \subseteq done',
         playback' = playback, sync' = sync,
         \/ call' = call
         \/ /\ call.pc # "none" => call.item # i
            /\ call'.pc # "none" => call'.item # i
  PROVE  ItemInv(i)'
  <1>1. /\ Edited(i)' <=> Edited(i)
        /\ Deleted(i)' <=> Deleted(i)
        /\ \A row : Held(row, i)' <=> Held(row, i)
    BY DEF Edited, Deleted, Held
  <1>2. /\ Marking(i)' <=> Marking(i)
        /\ CallTaken(i)' <=> CallTaken(i)
        /\ Modifying(i)' <=> Modifying(i)
    BY DEF Marking, CallTaken, Modifying
  <1>3. \A s \in Slot : /\ Taken(s, i)' <=> Taken(s, i)
                        /\ Queue(s)' = Queue(s)
                        /\ \A e : Sends(s, e)' <=> Sends(s, e)
    BY SameSlot
  <1>4. Flags(i)' /\ Copies(i)' /\ Saved(i)'
    BY <1>1, <1>2, <1>3 DEF ItemInv, Flags, Copies, Saved, Held, Edited, Deleted
  <1>5. Played(i)'
    BY <1>1, <1>3 DEF ItemInv, Played
  <1>6. Called(i)'
    BY <1>1, <1>2 DEF ItemInv, Called
  <1>7. KeptIn(i, Rows(i))'
    <2>1. Rows(i)' = Rows(i)
      BY DEF Rows
    <2> QED
      BY <2>1 DEF ItemInv, KeptIn
  <1> QED
    BY <1>4, <1>5, <1>6, <1>7 DEF ItemInv

(***************************************************************************)
(* What ItemInv says while only a call may be in progress.                 *)
(***************************************************************************)
Mine(i) ==
    /\ ~Marking(i) => Held(cache[i], i)
    /\ cache[i].flag = "created" => server[i] = 0
    /\ known[i] = server[i] \/ CallTaken(i)
    /\ cache[i].flag = "none" =>
         cache[i].v = known[i] \/ Marking(i) \/ Modifying(i)
    /\ Called(i)
    /\ KeptIn(i, {cache[i]})

LEMMA OnlyCall ==
  ASSUME NEW i \in Item
  PROVE  /\ Quiet => (ItemInv(i) <=> Mine(i))
         /\ Quiet' => (ItemInv(i)' <=> Mine(i)')
  <1>1. ASSUME Quiet PROVE ItemInv(i) <=> Mine(i)
    <2>1. /\ sync.pc \in {"none", "stuck"}
          /\ \A s \in Slot : ~Taken(s, i) /\ \A e : ~Sends(s, e)
      BY <1>1 DEF Quiet, FreeSlots, Taken, Sends
    <2>2. Rows(i) = {cache[i]}
      BY <2>1 DEF Rows
    <2> QED
      BY <2>1, <2>2 DEF ItemInv, Mine, Flags, Copies, Saved, Played
  <1>2. ASSUME Quiet' PROVE ItemInv(i)' <=> Mine(i)'
    <2>1. /\ sync'.pc \in {"none", "stuck"}
          /\ \A s \in Slot : ~Taken(s, i)' /\ \A e : ~Sends(s, e)'
      BY <1>2 DEF Quiet, FreeSlots, Taken, Sends
    <2>2. Rows(i)' = {cache'[i]}
      BY <2>1 DEF Rows
    <2> QED
      BY <2>1, <2>2 DEF ItemInv, Mine, Flags, Copies, Saved, Played
  <1> QED
    BY <1>1, <1>2

(***************************************************************************)
(* A call begins.                                                          *)
(***************************************************************************)
LEMMA CallSafe ==
  ASSUME Typed, Typed', Inv, Faults = {}, CallOperation
  PROVE  Inv'
  <1>1. Quiet /\ Quiet' /\ playback' = playback /\ sync' = sync /\ mode' = mode
        /\ server' = server /\ known' = known /\ done' = done
        /\ remote' = remote /\ call.pc = "none" /\ budget'.op = budget.op + 1
    <2>1. budget'.op = budget.op + 1
      BY TypesSplit DEF Typed, CallOperation, Budget
    <2> QED
      BY <2>1 DEF CallOperation, Quiet, FreeSlots
  <1>2. PICK kind \in Kind, j \in Item :
          /\ IF kind = "add" THEN NewId(j) ELSE Visible(j)
          /\ \/ /\ kind = "add"
                /\ cache' = [cache EXCEPT ![j] = [v |-> budget.op + 1,
                                                  flag |-> "created"]]
                /\ last' = [last EXCEPT ![j] = [op |-> budget.op + 1,
                                               kind |-> kind]]
                /\ call' = call
             \/ /\ \E pc : /\ pc = "server" => kind = "add"
                           /\ pc = "facade" => kind # "add"
                           /\ pc = "modify" => kind = "modify" /\ offline
                           /\ pc = "markDeleted" => kind = "delete"
                           /\ pc \in {"facade", "server", "modify",
                                      "markDeleted"}
                           /\ call' = NewCall(kind, j, pc)
                /\ cache' = cache /\ last' = last
    BY DEF CallOperation, Kind, Told, NewCall
  <1>3. /\ TypeOK /\ TypeOK'
        /\ cache \in [Item -> Row] /\ last \in [Item -> Outcome]
        /\ \A i \in Item : cache[i].flag \in Flag /\ last[i].op \in Nat
        /\ budget.op \in Nat
    BY Fields DEF Typed
  <1>4. Exclusive'
    BY <1>1 DEF Exclusive, Quiet
  <1>5. Later'
    <2>1. \A i \in Item : last[i].op <= budget.op
      BY DEF Inv, Later
    <2>2. CASE call' = call
      <3>1. \A i \in Item : last'[i].op = last[i].op
                              \/ last'[i].op = budget.op + 1
        BY <1>2, <1>3, <2>2 DEF Outcome
      <3> QED
        BY <1>1, <1>3, <2>1, <2>2, <3>1 DEF Later
    <2>3. CASE call' # call
      BY <1>1, <1>2, <1>3, <2>1, <2>3 DEF Later, NewCall
    <2> QED
      BY <2>2, <2>3
  <1>6. ASSUME NEW i \in Item \ remote PROVE ItemInv(i)'
    <2>1. ItemInv(i) /\ Mine(i)
      BY <1>1, <1>6, OnlyCall DEF Inv
    <2>2. CASE i # j
      <3>1. cache'[i] = cache[i] /\ last'[i] = last[i]
            /\ (call'.pc # "none" => call'.item # i)
        BY <1>1, <1>2, <1>3, <2>2 DEF NewCall
      <3> QED
        BY <1>1, <2>1, <3>1, Untouched
    <2>3. CASE i = j
      <3>1. ~Marking(i) /\ ~CallTaken(i) /\ ~Modifying(i) /\ Held(cache[i], i)
        BY <1>1, <2>1 DEF Marking, CallTaken, Modifying, Mine
      <3>2. CASE call' = call
        <4>1. /\ cache'[i].v = budget.op + 1 /\ cache'[i].flag = "created"
              /\ last'[i].op = budget.op + 1 /\ last'[i].kind = "add"
              /\ server'[i] = 0 /\ call'.pc = "none" /\ known'[i] = server'[i]
              /\ budget.op + 1 # 0
          BY <1>1, <1>2, <1>3, <2>1, <2>3, <3>1, <3>2 DEF NewId, Mine, NewCall
        <4>2. Mine(i)'
          BY <1>3, <4>1 DEF Mine, Held, Edited, Called, KeptIn
        <4> QED
          BY <1>1, <4>2, OnlyCall
      <3>3. CASE call' # call
        <4>1. PICK pc :
                /\ pc = "server" => kind = "add"
                /\ pc = "facade" => kind # "add"
                /\ pc = "modify" => kind = "modify" /\ offline
                /\ pc = "markDeleted" => kind = "delete"
                /\ pc \in {"facade", "server", "modify", "markDeleted"}
                /\ call' = NewCall(kind, j, pc)
                /\ cache' = cache /\ last' = last
          BY <1>2, <3>3
        <4>2. /\ call'.pc = pc /\ call'.kind = kind /\ call'.read = FALSE
              /\ call'.keep = offline
          BY <4>1 DEF NewCall
        <4>3. kind = "add" =>
                pc = "server" /\ cache[i].flag = "none" /\ server[i] = 0
          BY <1>2, <1>3, <2>3, <3>1, <4>1
          DEF NewId, Held, Edited, Flag
        <4>4. kind # "add" => cache[i].v # 0 /\ cache[i].flag # "deleted"
          BY <1>2, <2>3 DEF Visible
        <4>5. ~Marking(i)' /\ ~CallTaken(i)' /\ ~Modifying(i)'
          BY <4>1, <4>2 DEF Marking, CallTaken, Modifying
        <4>6. Called(i)'
          BY <1>1, <4>1, <4>2, <4>3, <4>4, <4>5 DEF Called
        <4>7. Mine(i)'
          BY <1>1, <2>1, <3>1, <4>1, <4>5, <4>6
          DEF Mine, Held, Edited, Deleted, KeptIn
        <4> QED
          BY <1>1, <4>7, OnlyCall
      <3> QED
        BY <3>2, <3>3
    <2> QED
      BY <2>2, <2>3
  <1> QED
    BY <1>1, <1>4, <1>5, <1>6 DEF Inv

(***************************************************************************)
(* A call goes on: its item, while nothing else is in progress.            *)
(***************************************************************************)
LEMMA CallItemSafe ==
  ASSUME Typed, Later, Faults = {}, Quiet, CallGoesOn,
         NEW i \in Item, i = call.item, Mine(i)
  PROVE  Mine(i)'
  <1> DEFINE op == call.op
  <1>1. /\ TypeOK /\ call.pc # "none" /\ call \in Call
        /\ cache \in [Item -> Row] /\ last \in [Item -> Outcome]
        /\ server \in [Item -> Version] /\ known \in [Item -> Version]
        /\ cache[i].v \in Nat /\ cache[i].flag \in Flag /\ cache[i] \in Row
        /\ last[i].op \in Nat /\ last[i].kind \in Kind
        /\ call.kind \in Kind /\ op \in Nat /\ op # 0 /\ op \in OpId
    BY Fields
    DEF Typed, CallGoesOn, ReadFlag, FacadeGetsFlag, ServerTakesCall,
        ServerFailsCall, CallAnswered, ModifyInCache, MarkModified, MarkDeleted
  <1>2. last[i].op < op
    BY <1>1 DEF Later
  <1>3. Called(i) /\ KeptIn(i, {cache[i]})
    BY DEF Mine
  <1>4. CASE ReadFlag
    <2>1. /\ call'.pc = call.pc /\ call'.kind = call.kind /\ call'.op = op
          /\ call'.item = i /\ call'.keep = call.keep
          /\ call'.answer = call.answer
          /\ call'.flag = cache[i].flag
          /\ UNCHANGED <<cache, server, known, last, done>>
      BY <1>1, <1>4 DEF ReadFlag, Call
    <2>2. /\ Marking(i)' <=> Marking(i)
          /\ CallTaken(i)' <=> CallTaken(i)
          /\ Modifying(i)' <=> Modifying(i)
      BY <2>1 DEF Marking, CallTaken, Modifying
    <2>3. Called(i)'
      BY <1>1, <1>3, <2>1, <2>2 DEF Called, Edited
    <2> QED
      BY <2>1, <2>2, <2>3 DEF Mine, Held, Edited, Deleted, KeptIn
  <1>5. CASE FacadeGetsFlag
    <2>1. /\ call'.kind = call.kind /\ call'.op = op /\ call'.item = i
          /\ call'.read = FALSE
          /\ call'.keep = (call.flag \in {"created", "modified"})
          /\ call'.pc = IF call.flag \notin {"created", "modified"} THEN "server"
                        ELSE IF call.kind = "modify" THEN "modify"
                             ELSE "markDeleted"
          /\ UNCHANGED <<cache, server, known, last, done>>
      BY <1>1, <1>5 DEF FacadeGetsFlag, Call
    <2>2. call.pc = "facade" /\ call.read
      BY <1>5 DEF FacadeGetsFlag
    <2>3. /\ ~Marking(i) /\ ~CallTaken(i) /\ ~Modifying(i)
          /\ ~Marking(i)' /\ ~CallTaken(i)' /\ ~Modifying(i)'
      BY <2>1, <2>2 DEF Marking, CallTaken, Modifying
    <2>4. /\ call.flag = cache[i].flag /\ call.kind # "add"
          /\ cache[i].v # 0 /\ cache[i].flag # "deleted"
      BY <1>1, <1>3, <2>2 DEF Called
    <2>5. Called(i)'
      BY <1>1, <2>1, <2>3, <2>4 DEF Called, Flag, Kind
    <2> QED
      BY <2>1, <2>3, <2>5 DEF Mine, Held, Edited, Deleted, KeptIn
  <1>6. CASE ServerTakesCall
    <2>1. /\ call'.kind = call.kind /\ call'.op = op /\ call'.item = i
          /\ call'.read = call.read /\ call'.flag = call.flag
          /\ call'.pc = "answer" /\ call'.answer = "ok"
          /\ UNCHANGED <<cache, known, last>>
      BY <1>1, <1>6 DEF ServerTakesCall, Call
    <2>2. call.pc = "server"
      BY <1>6 DEF ServerTakesCall
    <2>3. /\ server'[i] = IF call.kind = "delete" THEN 0 ELSE op
          /\ done \subseteq done'
          /\ call.kind # "delete" => op \in done'
      BY <1>1, <1>6 DEF ServerTakesCall, Stores, Result
    <2>4. /\ ~Marking(i) /\ ~CallTaken(i) /\ ~Modifying(i)
          /\ ~Marking(i)' /\ CallTaken(i)' /\ ~Modifying(i)'
      BY <2>1, <2>2 DEF Marking, CallTaken, Modifying
    <2>5. cache[i].flag = "none"
      BY <1>1, <1>3, <2>2 DEF Called
    <2>6. Called(i)'
      BY <1>1, <1>3, <2>1, <2>2, <2>3, <2>4, <2>5 DEF Called
    <2>7. KeptIn(i, {cache[i]})'
      BY <1>1, <1>2, <1>3, <2>1, <2>3, <2>5 DEF KeptIn
    <2> QED
      BY <2>1, <2>4, <2>5, <2>6, <2>7 DEF Mine, Held
  <1>7. CASE ServerFailsCall
    <2>1. /\ call'.kind = call.kind /\ call'.op = op /\ call'.item = i
          /\ call'.read = call.read /\ call'.flag = call.flag
          /\ call'.pc = "answer" /\ call'.answer # "ok"
          /\ UNCHANGED <<cache, known, last, server, done>>
      BY <1>1, <1>7 DEF ServerFailsCall, Fails, Call
    <2>2. call.pc = "server"
      BY <1>7 DEF ServerFailsCall
    <2>3. /\ ~Marking(i) /\ ~CallTaken(i) /\ ~Modifying(i)
          /\ ~Marking(i)' /\ ~CallTaken(i)' /\ ~Modifying(i)'
      BY <2>1, <2>2 DEF Marking, CallTaken, Modifying
    <2>4. Called(i)'
      BY <1>1, <1>3, <2>1, <2>2, <2>3 DEF Called
    <2> QED
      BY <2>1, <2>3, <2>4 DEF Mine, Held, Edited, Deleted, KeptIn
  <1>8. CASE CallAnswered
    <2>1. /\ call.pc = "answer" /\ cache[i].flag = "none"
          /\ ~Marking(i) /\ ~Modifying(i)
          /\ CallTaken(i) <=> call.answer = "ok"
          /\ server' = server /\ done' = done
      BY <1>1, <1>3, <1>8 DEF CallAnswered, Called, Marking, Modifying, CallTaken
    <2>2. /\ call.answer = "ok" =>
               IF call.kind = "delete" THEN server[i] = 0
               ELSE server[i] = op /\ op \in done
          /\ call.answer # "ok" => known[i] = server[i]
          /\ cache[i].v = known[i]
          /\ call.answer # "ok" /\ call.kind = "add" => server[i] = 0
          /\ call.kind # "add" => cache[i].v # 0
          /\ call.read => call.flag = cache[i].flag
      BY <1>1, <2>1 DEF Mine, Called
    <2>3. known'[i] = server[i]
      BY <1>1, <1>8, <2>2 DEF CallAnswered, Result
    <2>4. ~CallTaken(i)' /\ ~Marking(i)'
      <3>1. \/ call' = NoCall
            \/ \E keep : call' = [call EXCEPT !.pc = "modify", !.keep = keep]
            \/ \E keep : call' = [call EXCEPT !.pc = "markDeleted", !.keep = keep]
        BY <1>8 DEF CallAnswered
      <3>2. call'.pc \in {"none", "modify", "markDeleted"}
        <4>1. \A keep : /\ [call EXCEPT !.pc = "modify", !.keep = keep].pc = "modify"
                        /\ [call EXCEPT !.pc = "markDeleted", !.keep = keep].pc
                             = "markDeleted"
          BY <1>1 DEF Call
        <4>2. NoCall.pc = "none"
          BY DEF NoCall
        <4> QED
          BY <3>1, <4>1, <4>2
      <3> QED
        BY <3>2 DEF CallTaken, Marking
    <2>5. CASE call.answer = "error"
      <3>1. /\ call'.pc = "none" /\ cache' = cache /\ last' = last
            /\ known'[i] = known[i]
        BY <1>1, <1>8, <2>2, <2>3, <2>5 DEF CallAnswered, NoCall
      <3> QED
        BY <1>3, <2>1, <2>2, <2>3, <2>4, <3>1
        DEF Mine, Held, Edited, Deleted, Called, KeptIn
    <2>6. CASE call.answer # "error" /\ call.kind = "add"
      <3>1. /\ call'.pc = "none"
            /\ cache'[i] = [v |-> op, flag |-> IF call.answer = "ok" THEN "none"
                                              ELSE "created"]
            /\ last'[i] = [op |-> op, kind |-> "add"]
        BY <1>1, <1>8, <2>6 DEF CallAnswered, NoCall, Told
      <3> QED
        BY <1>1, <2>1, <2>2, <2>3, <2>4, <2>6, <3>1
        DEF Mine, Held, Edited, Deleted, Called, KeptIn
    <2>7. CASE call.answer # "error" /\ call.kind = "modify"
      <3>1. /\ call'.pc = "modify" /\ call'.keep = (call.answer # "ok")
            /\ call'.kind = "modify" /\ call'.item = i /\ call'.op = op
            /\ call'.read = call.read /\ call'.flag = call.flag
            /\ cache' = cache /\ last' = last
        BY <1>1, <1>8, <2>7 DEF CallAnswered, Call
      <3>2. Modifying(i)' <=> call.answer = "ok"
        BY <3>1 DEF Modifying
      <3>3. Called(i)'
        BY <1>1, <2>1, <2>2, <2>3, <2>4, <2>7, <3>1, <3>2 DEF Called
      <3>4. KeptIn(i, {cache[i]})'
        BY <1>3, <2>1, <3>1 DEF KeptIn
      <3> QED
        BY <2>1, <2>2, <2>3, <2>4, <3>1, <3>2, <3>3, <3>4 DEF Mine, Held
    <2>8. CASE call.answer = "ok" /\ call.kind = "delete"
      <3>1. /\ call'.pc = "none" /\ cache'[i] = NoRow
            /\ last'[i] = [op |-> op, kind |-> "delete"]
        BY <1>1, <1>8, <2>8 DEF CallAnswered, NoCall, Told
      <3> QED
        BY <1>1, <2>1, <2>2, <2>3, <2>4, <2>8, <3>1
        DEF Mine, Held, Edited, Deleted, Called, KeptIn, NoRow
    <2>9. CASE call.answer \notin {"ok", "error"} /\ call.kind = "delete"
      <3>1. /\ call'.pc = "markDeleted" /\ call'.kind = "delete"
            /\ call'.item = i /\ call'.op = op
            /\ call'.read = call.read /\ call'.flag = call.flag
            /\ cache' = cache /\ last' = last
        BY <1>1, <1>8, <2>9 DEF CallAnswered, Call
      <3>2. ~Modifying(i)'
        BY <3>1 DEF Modifying
      <3>3. Called(i)'
        BY <1>1, <2>1, <2>2, <2>4, <2>9, <3>1, <3>2 DEF Called
      <3>4. KeptIn(i, {cache[i]})'
        BY <1>3, <2>1, <3>1 DEF KeptIn
      <3> QED
        BY <2>1, <2>2, <2>3, <2>4, <2>9, <3>1, <3>2, <3>3, <3>4 DEF Mine, Held
    <2> QED
      BY <1>1, <2>5, <2>6, <2>7, <2>8, <2>9 DEF Kind
  <1>9. CASE ModifyInCache
    <2>1. /\ call.pc = "modify" /\ call.read /\ call.kind = "modify"
          /\ call.flag = cache[i].flag /\ cache[i].flag # "deleted"
          /\ ~Marking(i) /\ ~CallTaken(i)
          /\ Modifying(i) <=> ~call.keep
          /\ cache'[i] = [v |-> op, flag |-> cache[i].flag]
          /\ UNCHANGED <<server, known, done>>
      BY <1>1, <1>3, <1>9
      DEF ModifyInCache, Called, Marking, CallTaken, Modifying
    <2>2. CASE call.keep
      <3>1. /\ call'.pc = "markModified" /\ call'.read = FALSE
            /\ call'.kind = "modify" /\ call'.item = i /\ call'.op = op
            /\ last' = last
        BY <1>1, <1>9, <2>1, <2>2 DEF ModifyInCache, Call
      <3>2. Marking(i)' /\ ~CallTaken(i)' /\ ~Modifying(i)'
        BY <3>1 DEF Marking, CallTaken, Modifying
      <3>3. cache[i].flag # "none" =>
              Edited(i) /\ cache[i].v = last[i].op
        BY <1>1, <2>1 DEF Mine, Held, Flag
      <3>4. Called(i)'
        BY <1>1, <2>1, <3>1, <3>2, <3>3 DEF Called, Edited
      <3>5. KeptIn(i, {cache[i]})'
        BY <1>1, <1>2, <1>3, <2>1, <3>1, <3>3 DEF KeptIn, Edited
      <3> QED
        BY <2>1, <3>2, <3>4, <3>5 DEF Mine
    <2>3. CASE ~call.keep
      <3>1. /\ call'.pc = "none" /\ last'[i] = [op |-> op, kind |-> "modify"]
            /\ cache[i].flag = "none" /\ known[i] = op /\ op \in done
        BY <1>1, <1>3, <1>9, <2>1, <2>3 DEF ModifyInCache, NoCall, Told, Called
      <3> QED
        BY <1>1, <2>1, <3>1 DEF Mine, Held, Called, KeptIn
    <2> QED
      BY <2>2, <2>3
  <1>10. CASE MarkModified
    <2>1. /\ call.pc = "markModified" /\ call.read /\ call.kind = "modify"
          /\ call.flag = cache[i].flag /\ cache[i].flag # "deleted"
          /\ cache[i].v = op
          /\ ~CallTaken(i) /\ ~Modifying(i)
          /\ call'.pc = "none" /\ last'[i] = [op |-> op, kind |-> "modify"]
          /\ UNCHANGED <<server, known, done>>
      BY <1>1, <1>3, <1>10
      DEF MarkModified, Called, Marking, CallTaken, Modifying, NoCall, Told
    <2>2. /\ cache'[i].v = op
          /\ cache'[i].flag = IF cache[i].flag = "created" THEN "created"
                              ELSE "modified"
      <3>1. CASE cache[i].flag = "created"
        BY <1>1, <1>10, <2>1, <3>1 DEF MarkModified
      <3>2. CASE cache[i].flag # "created"
        <4>1. cache' = WithFlag(i, "modified")
          BY <1>10, <2>1, <3>2 DEF MarkModified
        <4>2. cache'[i] = [cache[i] EXCEPT !.flag = "modified"]
          BY <1>1, <2>1, <4>1, Marks DEF Flag
        <4> QED
          BY <1>1, <2>1, <3>2, <4>2 DEF Row
      <3> QED
        BY <3>1, <3>2
    <2> QED
      BY <1>1, <2>1, <2>2 DEF Mine, Held, Edited, Called, KeptIn
  <1>11. CASE MarkDeleted
    <2>1. /\ call.pc = "markDeleted" /\ call.read /\ call.kind = "delete"
          /\ call.flag = cache[i].flag /\ cache[i].flag # "deleted"
          /\ cache[i].v # 0
          /\ ~CallTaken(i) /\ ~Modifying(i) /\ ~Marking(i)
          /\ call'.pc = "none" /\ last'[i] = [op |-> op, kind |-> "delete"]
          /\ UNCHANGED <<server, known, done>>
      BY <1>1, <1>3, <1>11
      DEF MarkDeleted, Called, Marking, CallTaken, Modifying, NoCall, Told
    <2>2. known[i] = server[i] /\ (cache[i].flag = "created" => server[i] = 0)
      BY <2>1 DEF Mine
    <2>3. CASE cache[i].flag = "created"
      <3>1. cache'[i] = NoRow
        BY <1>1, <1>11, <2>1, <2>3 DEF MarkDeleted
      <3> QED
        BY <1>1, <2>1, <2>2, <2>3, <3>1 DEF Mine, Held, Called, KeptIn, NoRow
    <2>4. CASE cache[i].flag # "created"
      <3>1. cache'[i].v = cache[i].v /\ cache'[i].flag = "deleted"
        <4>1. cache' = WithFlag(i, "deleted")
          BY <1>11, <2>1, <2>4 DEF MarkDeleted
        <4>2. cache'[i] = [cache[i] EXCEPT !.flag = "deleted"]
          BY <1>1, <2>1, <4>1, Marks DEF Flag
        <4> QED
          BY <1>1, <4>2 DEF Row
      <3> QED
        BY <1>1, <2>1, <2>2, <3>1 DEF Mine, Held, Deleted, Called, KeptIn
    <2> QED
      BY <2>3, <2>4
  <1> QED
    BY <1>4, <1>5, <1>6, <1>7, <1>8, <1>9, <1>10, <1>11 DEF CallGoesOn

LEMMA CallStepSafe ==
  ASSUME Typed, Inv, Faults = {}, CallGoesOn
  PROVE  Inv'
  <1>1. /\ call.pc # "none" /\ playback' = playback /\ sync' = sync
        /\ mode' = mode /\ remote' = remote
    BY DEF CallGoesOn, ReadFlag, FacadeGetsFlag, ServerTakesCall,
           ServerFailsCall, CallAnswered, ModifyInCache, MarkModified, MarkDeleted
  <1>2. Quiet /\ Quiet'
    BY <1>1 DEF Inv, Exclusive, Quiet, FreeSlots
  <1>3. /\ TypeOK /\ call \in Call /\ call.item \in Item /\ call.op \in Nat
        /\ cache \in [Item -> Row] /\ last \in [Item -> Outcome]
        /\ server \in [Item -> Version] /\ known \in [Item -> Version]
        /\ budget.op \in Nat
    BY <1>1, Fields DEF Typed
  <1>4. /\ call' = NoCall \/ (call'.item = call.item /\ call'.op = call.op)
        /\ \A i \in Item :
             \/ last'[i] = last[i]
             \/ call' = NoCall /\ last'[i] = [op |-> call.op, kind |-> call.kind]
        /\ \A i \in Item \ {call.item} :
             /\ cache'[i] = cache[i] /\ server'[i] = server[i]
             /\ known'[i] = known[i] /\ last'[i] = last[i]
        /\ done \subseteq done'
        /\ budget'.op = budget.op
    <2>1. Told(call) =>
            /\ \A i \in Item \ {call.item} : last'[i] = last[i]
            /\ last'[call.item] = [op |-> call.op, kind |-> call.kind]
      BY <1>3 DEF Told
    <2>2. CASE ReadFlag \/ FacadeGetsFlag
      BY <1>3, <2>2 DEF ReadFlag, FacadeGetsFlag, Call
    <2>3. CASE ServerTakesCall
      BY <1>3, <2>3 DEF ServerTakesCall, Stores, Call
    <2>4. CASE ServerFailsCall
      <3>1. budget'.op = budget.op
        BY <2>4, TypesSplit DEF ServerFailsCall, Fails, Typed, Budget
      <3> QED
        BY <1>3, <2>4, <3>1 DEF ServerFailsCall, Fails, Stores, Call
    <2>5. CASE CallAnswered
      <3>1. known' = known \/ \E x : known' = [known EXCEPT ![call.item] = x]
        BY <2>5 DEF CallAnswered
      <3>2. \/ cache' = cache
            \/ \E x : cache' = [cache EXCEPT ![call.item] = x]
        BY <2>5 DEF CallAnswered
      <3>3. \/ call' = NoCall /\ (last' = last \/ Told(call))
            \/ /\ last' = last
               /\ \E pc, keep : call' = [call EXCEPT !.pc = pc, !.keep = keep]
        BY <2>5 DEF CallAnswered
      <3>4. call' = NoCall \/ (call'.item = call.item /\ call'.op = call.op)
        BY <1>3, <3>3 DEF Call
      <3> QED
        BY <1>3, <2>1, <2>5, <3>1, <3>2, <3>3, <3>4 DEF CallAnswered
    <2>6. CASE ModifyInCache
      <3>1. \/ call' = NoCall /\ Told(call)
            \/ /\ last' = last
               /\ call' = [call EXCEPT !.pc = "markModified", !.read = FALSE]
        BY <2>6 DEF ModifyInCache
      <3>2. call' = NoCall \/ (call'.item = call.item /\ call'.op = call.op)
        BY <1>3, <3>1 DEF Call
      <3>3. \A i \in Item \ {call.item} : cache'[i] = cache[i]
        BY <1>3, <2>6 DEF ModifyInCache
      <3> QED
        BY <1>3, <2>1, <2>6, <3>1, <3>2, <3>3 DEF ModifyInCache
    <2>7. CASE MarkModified
      <3>1. \A i \in Item \ {call.item} : cache'[i] = cache[i]
        BY <1>3, <2>7, Marks DEF MarkModified, Flag
      <3> QED
        BY <1>3, <2>1, <2>7, <3>1 DEF MarkModified
    <2>8. CASE MarkDeleted
      <3>1. \A i \in Item \ {call.item} : cache'[i] = cache[i]
        BY <1>3, <2>8, Marks DEF MarkDeleted, Flag
      <3> QED
        BY <1>3, <2>1, <2>8, <3>1 DEF MarkDeleted
    <2> QED
      BY <2>2, <2>3, <2>4, <2>5, <2>6, <2>7, <2>8 DEF CallGoesOn
  <1>5. Exclusive'
    BY <1>1, <1>2 DEF Exclusive, Inv, Quiet, FreeSlots
  <1>6. Later'
    <2>1. /\ \A i \in Item : last[i].op <= budget.op
          /\ call.op = budget.op
          /\ \A i \in Item : last[i].op < call.op
      BY <1>1 DEF Inv, Later
    <2>2. \A i \in Item : \/ last'[i].op = last[i].op
                          \/ call' = NoCall /\ last'[i].op = call.op
      <3> SUFFICES ASSUME NEW i \in Item
                   PROVE  \/ last'[i].op = last[i].op
                          \/ call' = NoCall /\ last'[i].op = call.op
        OBVIOUS
      <3>1. \/ last'[i] = last[i]
            \/ call' = NoCall /\ last'[i] = [op |-> call.op, kind |-> call.kind]
        BY <1>4
      <3> QED
        BY <3>1
    <2> QED
      BY <1>3, <1>4, <2>1, <2>2 DEF Later, NoCall
  <1>7. ASSUME NEW i \in Item \ remote PROVE ItemInv(i)'
    <2>1. CASE i # call.item
      BY <1>1, <1>4, <1>7, <2>1, Untouched DEF Inv, NoCall
    <2>2. CASE i = call.item
      BY <1>2, <1>7, <2>2, OnlyCall, CallItemSafe DEF Inv
    <2> QED
      BY <2>1, <2>2
  <1> QED
    BY <1>1, <1>5, <1>6, <1>7 DEF Inv

(***************************************************************************)
(* What ItemInv says while no call is in progress and the cache is not     *)
(* being filled anew.                                                      *)
(***************************************************************************)
Theirs(i) ==
    /\ Held(cache[i], i)
    /\ cache[i].flag = "created" => server[i] = 0 \/ \E s \in Slot : Taken(s, i)
    /\ known[i] = server[i] \/ \E s \in Slot : Taken(s, i)
    /\ cache[i].flag = "none" => cache[i].v = known[i]
    /\ Played(i)
    /\ KeptIn(i, {cache[i]})

LEMMA OnlyPlaybacks ==
  ASSUME NEW i \in Item
  PROVE  /\ call.pc = "none" /\ sync.pc \notin {"get", "renewed"} =>
              (ItemInv(i) <=> Theirs(i))
         /\ call'.pc = "none" /\ sync'.pc \notin {"get", "renewed"} =>
              (ItemInv(i)' <=> Theirs(i)')
  <1>1. ASSUME call.pc = "none", sync.pc \notin {"get", "renewed"}
        PROVE  ItemInv(i) <=> Theirs(i)
    <2>1. ~Marking(i) /\ ~CallTaken(i) /\ ~Modifying(i) /\ Called(i) /\ Saved(i)
      BY <1>1 DEF Marking, CallTaken, Modifying, Called, Saved
    <2>2. Rows(i) = {cache[i]}
      BY <1>1 DEF Rows
    <2> QED
      BY <2>1, <2>2 DEF ItemInv, Theirs, Flags, Copies
  <1>2. ASSUME call'.pc = "none", sync'.pc \notin {"get", "renewed"}
        PROVE  ItemInv(i)' <=> Theirs(i)'
    <2>1. ~Marking(i)' /\ ~CallTaken(i)' /\ ~Modifying(i)' /\ Called(i)'
          /\ Saved(i)'
      BY <1>2 DEF Marking, CallTaken, Modifying, Called, Saved
    <2>2. Rows(i)' = {cache'[i]}
      BY <1>2 DEF Rows
    <2> QED
      BY <2>1, <2>2 DEF ItemInv, Theirs, Flags, Copies
  <1> QED
    BY <1>1, <1>2

(***************************************************************************)
(* What is sent of an item tells how it was changed last.                  *)
(***************************************************************************)
Fits(r, i) == IF playback[r].phase = "deleted" THEN Deleted(i) ELSE Edited(i)

LEMMA TakenFits ==
  ASSUME Typed, NEW i \in Item, Played(i), NEW r \in Slot
  PROVE  /\ Taken(r, i) => Fits(r, i)
         /\ \A e \in Queue(r) : Sends(r, e) /\ e.item = i => Fits(r, i)
         /\ playback[r].pc \in {"send", "answer"} =>
              /\ playback[r].queue \in Seq(Entry) /\ playback[r].queue # <<>>
              /\ Last(playback[r].queue) \in Queue(r)
              /\ Sends(r, Last(playback[r].queue))
  <1>1. playback[r] \in Playback /\ playback[r].queue \in Seq(Entry)
    BY Fields, PlaybackUpdates DEF Typed
  <1>2. playback[r].pc \in {"send", "answer"} =>
          /\ playback[r].queue # <<>>
          /\ Last(playback[r].queue) \in Queue(r)
          /\ Sends(r, Last(playback[r].queue))
    BY <1>1, Ends DEF Typed, Queues, Queue, Sends
  <1>3. \A e \in Queue(r) : Sends(r, e) /\ e.item = i => Fits(r, i)
    BY DEF Played, Fits
  <1> QED
    BY <1>1, <1>2, <1>3 DEF Taken

(***************************************************************************)
(* The server, the cache and the known version of an item stay, and so do  *)
(* the other slots: it is enough that what the slot sends was sent before  *)
(* or fits, and that it was not waiting for the answer of this item.       *)
(***************************************************************************)
LEMMA SlotMoves ==
  ASSUME NEW s \in Slot, NEW i \in Item, Theirs(i), ~Taken(s, i), ~Taken(s, i)',
         cache'[i] = cache[i], server'[i] = server[i], known'[i] = known[i],
         last' = last, done \subseteq done',
         \A r \in Slot \ {s} : playback'[r] = playback[r],
         \A e : e \in Queue(s)' /\ Sends(s, e)' /\ e.item = i =>
           IF playback'[s].phase = "deleted" THEN Deleted(i)
           ELSE Edited(i) /\ e.v = last[i].op /\ cache[i].v = last[i].op
  PROVE  Theirs(i)'
  <1>1. /\ Edited(i)' <=> Edited(i)
        /\ Deleted(i)' <=> Deleted(i)
        /\ Held(cache[i], i)' <=> Held(cache[i], i)
        /\ KeptIn(i, {cache[i]}) => KeptIn(i, {cache[i]})'
    BY DEF Edited, Deleted, Held, KeptIn
  <1>2. \A r \in Slot : Taken(r, i)' <=> Taken(r, i)
    BY SameSlot
  <1>3. Played(i)'
    <2>1. SUFFICES ASSUME NEW r \in Slot
                   PROVE  /\ \A e \in Queue(r)' : Sends(r, e)' /\ e.item = i =>
                               IF playback'[r].phase = "deleted" THEN Deleted(i)'
                               ELSE /\ Edited(i)' /\ e.v = last'[i].op
                                    /\ cache'[i].v = last'[i].op
                          /\ Taken(r, i)' =>
                               IF playback'[r].phase = "deleted"
                               THEN server'[i] = 0
                               ELSE server'[i] = last'[i].op
                                      /\ last'[i].op \in done'
      BY DEF Played
    <2>2. CASE r = s
      BY <1>1, <2>2
    <2>3. CASE r # s
      BY <1>1, <2>3, SameSlot DEF Theirs, Played
    <2> QED
      BY <2>2, <2>3
  <1> QED
    BY <1>1, <1>2, <1>3 DEF Theirs, Held

(***************************************************************************)
(* A playback is told that the server took the item.                       *)
(***************************************************************************)
LEMMA AnswerSafe ==
  ASSUME Typed, Typed', NEW s \in Slot, NEW i \in Item, Theirs(i),
         Taken(s, i), ItemAnswered(s), ~Taken(s, i)',
         \A r \in Slot \ {s} : playback'[r] = playback[r],
         \A e \in Queue(s)' : Sends(s, e)' =>
           /\ e \in Queue(s) /\ Sends(s, e)
           /\ playback'[s].phase = playback[s].phase
  PROVE  Theirs(i)'
  <1> DEFINE c == Last(playback[s].queue)
  <1>1. /\ TypeOK /\ cache \in [Item -> Row] /\ known \in [Item -> Version]
        /\ last \in [Item -> Outcome] /\ server \in [Item -> Version]
        /\ cache[i] \in Row /\ cache[i].flag \in Flag
        /\ playback[s] \in Playback /\ playback[s].phase \in Phase
    BY Fields, PlaybackUpdates DEF Typed
  <1>2. /\ c.item = i /\ playback[s].ok /\ playback[s].pc = "answer"
        /\ last' = last /\ server' = server /\ done' = done
        /\ Fits(s, i) /\ Played(i) /\ c \in Queue(s) /\ Sends(s, c)
    BY TakenFits DEF Taken, ItemAnswered, Theirs
  <1>3. /\ Edited(i)' <=> Edited(i)
        /\ Deleted(i)' <=> Deleted(i)
        /\ ~(Edited(i) /\ Deleted(i))
    BY <1>2 DEF Edited, Deleted
  <1>4. ASSUME \A r \in Slot : \A e \in Queue(r) :
                 Sends(r, e) /\ e.item = i /\ playback[r].phase # "deleted" =>
                   cache'[i].v = last[i].op
        PROVE  Played(i)'
    <2>1. SUFFICES ASSUME NEW r \in Slot
                   PROVE  /\ \A e \in Queue(r)' : Sends(r, e)' /\ e.item = i =>
                               IF playback'[r].phase = "deleted" THEN Deleted(i)'
                               ELSE /\ Edited(i)' /\ e.v = last'[i].op
                                    /\ cache'[i].v = last'[i].op
                          /\ Taken(r, i)' =>
                               IF playback'[r].phase = "deleted"
                               THEN server'[i] = 0
                               ELSE server'[i] = last'[i].op
                                      /\ last'[i].op \in done'
      BY DEF Played
    <2>2. CASE r = s
      BY <1>2, <1>3, <1>4, <2>2 DEF Played
    <2>3. CASE r # s
      BY <1>2, <1>3, <1>4, <2>3, SameSlot DEF Played
    <2> QED
      BY <2>2, <2>3
  <1>5. CASE playback[s].phase = "deleted"
    <2>1. Deleted(i) /\ server[i] = 0
      BY <1>2, <1>5 DEF Fits, Played
    <2>2. cache'[i] = NoRow /\ known'[i] = 0
      BY <1>1, <1>2, <1>5 DEF ItemAnswered, KindOf, Result
    <2>3. Played(i)'
      BY <1>2, <1>3, <1>4, <2>1 DEF Played
    <2> QED
      BY <1>2, <2>1, <2>2, <2>3 DEF Theirs, Held, NoRow, KeptIn, Deleted
  <1>6. CASE playback[s].phase # "deleted"
    <2>1. /\ Edited(i) /\ server[i] = last[i].op /\ last[i].op \in done
          /\ cache[i].v = last[i].op /\ c.v = last[i].op
      BY <1>2, <1>6 DEF Played
    <2>2. known'[i] = last[i].op
      BY <1>1, <1>2, <1>6, <2>1 DEF ItemAnswered, KindOf, Result, Phase
    <2>3. cache'[i].v = last[i].op /\ cache'[i].flag = "none"
      <3>1. cache' = WithFlag(i, "none")
        BY <1>2, <1>6 DEF ItemAnswered
      <3>2. cache[i].v # 0
        BY <2>1 DEF Edited
      <3>3. cache'[i] = [cache[i] EXCEPT !.flag = "none"]
        BY <1>1, <3>1, <3>2, Marks DEF Flag
      <3> QED
        BY <1>1, <2>1, <3>3 DEF Row
    <2>4. Played(i)'
      BY <1>4, <2>3
    <2> QED
      BY <1>2, <2>1, <2>2, <2>3, <2>4 DEF Theirs, Held, KeptIn, Edited
  <1> QED
    BY <1>5, <1>6

(***************************************************************************)
(* A playback sends an item, and the server takes it.                      *)
(***************************************************************************)
LEMMA TakeSafe ==
  ASSUME Typed, Typed', NEW s \in Slot, NEW i \in Item, Theirs(i),
         ServerTakesItem(s)
  PROVE  Theirs(i)'
  <1> DEFINE c == Last(playback[s].queue)
  <1>1. /\ TypeOK /\ server \in [Item -> Version] /\ last[i].op \in Nat
        /\ last[i].op # 0 => last[i].op \in OpId
        /\ playback \in [Slot -> Playback]
        /\ playback[s] \in Playback /\ playback[s].phase \in Phase
        /\ playback[s].pc = "send" /\ Played(i)
    BY Fields, PlaybackUpdates DEF Typed, ServerTakesItem, Theirs
  <1>2. /\ c \in Queue(s) /\ Sends(s, c) /\ c.item \in Item
        /\ \A r \in Slot : Taken(r, i) => Fits(r, i)
    <2>1. c \in Entry
      BY <1>1, TakenFits, Ends
    <2> QED
      BY <1>1, <2>1, TakenFits DEF Entry
  <1>3. /\ playback'[s].pc = "answer" /\ playback'[s].ok
        /\ playback'[s].queue = playback[s].queue
        /\ playback'[s].phase = playback[s].phase
        /\ \A r \in Slot \ {s} : playback'[r] = playback[r]
        /\ UNCHANGED <<cache, known, last>>
    BY <1>1, PlaybackType DEF ServerTakesItem
  <1>4. /\ ~Taken(s, i) /\ (Taken(s, i)' <=> c.item = i)
        /\ \A e : Sends(s, e)' <=> Sends(s, e)
        /\ Queue(s)' = Queue(s)
    BY <1>1, <1>3 DEF Taken, Sends, Queue
  <1>5. done \subseteq done'
    BY DEF ServerTakesItem, Stores
  <1>6. CASE c.item # i
    <2>1. server'[i] = server[i]
      BY <1>1, <1>2, <1>6 DEF ServerTakesItem, Stores
    <2>2. \A e : e \in Queue(s)' /\ Sends(s, e)' /\ e.item = i =>
            IF playback'[s].phase = "deleted" THEN Deleted(i)
            ELSE Edited(i) /\ e.v = last[i].op /\ cache[i].v = last[i].op
      BY <1>1, <1>3, <1>4 DEF Played
    <2> QED
      BY <1>3, <1>4, <1>5, <1>6, <2>1, <2>2, SlotMoves
  <1>7. CASE c.item = i
    <2>1. /\ Edited(i)' <=> Edited(i)
          /\ Deleted(i)' <=> Deleted(i)
          /\ ~(Edited(i) /\ Deleted(i))
          /\ Held(cache[i], i)' <=> Held(cache[i], i)
          /\ Taken(s, i)'
      BY <1>3, <1>4, <1>7 DEF Edited, Deleted, Held
    <2>2. IF playback[s].phase = "deleted"
          THEN Deleted(i) /\ server'[i] = 0
          ELSE /\ Edited(i) /\ server'[i] = last[i].op /\ last[i].op \in done'
               /\ c.v = last[i].op
      <3>1. CASE playback[s].phase = "deleted"
        BY <1>1, <1>2, <1>7, <3>1
        DEF Played, ServerTakesItem, Stores, KindOf, Result
      <3>2. CASE playback[s].phase # "deleted"
        <4>1. Edited(i) /\ c.v = last[i].op /\ c.v \in OpId
          BY <1>1, <1>2, <1>7, <3>2 DEF Played, Edited
        <4>2. KindOf(playback[s].phase) # "delete"
          BY <1>1, <3>2 DEF KindOf, Phase
        <4> QED
          BY <1>1, <1>2, <1>7, <3>2, <4>1, <4>2
          DEF ServerTakesItem, Stores, Result
      <3> QED
        BY <3>1, <3>2
    <2>3. Played(i)'
      <3>1. SUFFICES ASSUME NEW r \in Slot
                     PROVE  /\ \A e \in Queue(r)' : Sends(r, e)' /\ e.item = i =>
                                 IF playback'[r].phase = "deleted"
                                 THEN Deleted(i)'
                                 ELSE /\ Edited(i)' /\ e.v = last'[i].op
                                      /\ cache'[i].v = last'[i].op
                            /\ Taken(r, i)' =>
                                 IF playback'[r].phase = "deleted"
                                 THEN server'[i] = 0
                                 ELSE server'[i] = last'[i].op
                                        /\ last'[i].op \in done'
        BY DEF Played
      <3>2. CASE r = s
        BY <1>1, <1>3, <1>4, <2>1, <2>2, <3>2 DEF Played
      <3>3. CASE r # s
        <4>1. /\ playback'[r] = playback[r] /\ Queue(r)' = Queue(r)
              /\ Taken(r, i)' <=> Taken(r, i)
              /\ \A e : Sends(r, e)' <=> Sends(r, e)
          BY <1>3, <3>3, SameSlot
        <4>2. Taken(r, i) => Fits(r, i)
          BY <1>2
        <4> QED
          BY <1>1, <1>3, <2>1, <2>2, <4>1, <4>2 DEF Played, Fits
      <3> QED
        BY <3>2, <3>3
    <2>4. KeptIn(i, {cache[i]})'
      BY <1>3, <2>1, <2>2 DEF KeptIn, Edited, Deleted
    <2> QED
      BY <1>3, <2>1, <2>3, <2>4 DEF Theirs
  <1> QED
    BY <1>6, <1>7

(***************************************************************************)
(* The change log brings only what the server took from a playback that    *)
(* does not know it yet.                                                   *)
(***************************************************************************)
LEMMA ReplaySafe ==
  ASSUME Typed, Typed', NEW s \in Slot, NEW i \in Item, Theirs(i), Replay(s)
  PROVE  Theirs(i)'
  <1>1. /\ TypeOK /\ playback \in [Slot -> Playback]
        /\ playback[s].pc = "replay" /\ Played(i)
        /\ UNCHANGED <<server, last, done>>
        /\ known'[i] = server[i]
        /\ cache'[i] = IF server[i] = known[i] THEN cache[i]
                       ELSE [v |-> server[i], flag |-> "none"]
        /\ playback'[s] = NoPlayback
        /\ \A r \in Slot \ {s} : playback'[r] = playback[r]
    BY Fields DEF Typed, Replay, Theirs
  <1>2. /\ ~Taken(s, i) /\ ~Taken(s, i)'
        /\ \A e : ~Sends(s, e)'
    BY <1>1 DEF Taken, Sends, NoPlayback
  <1>3. CASE server[i] = known[i]
    <2>1. cache'[i] = cache[i] /\ known'[i] = known[i] /\ server'[i] = server[i]
      BY <1>1, <1>3
    <2> QED
      BY <1>1, <1>2, <2>1, SlotMoves
  <1>4. CASE server[i] # known[i]
    <2>1. PICK r \in Slot : Taken(r, i)
      BY <1>4 DEF Theirs
    <2>2. Fits(r, i)
      BY <1>1, <2>1, TakenFits
    <2>3. \/ Deleted(i) /\ server[i] = 0
          \/ Edited(i) /\ server[i] = last[i].op /\ last[i].op \in done
      BY <1>1, <2>1, <2>2 DEF Fits, Played
    <2>4. /\ cache'[i].v = server[i] /\ cache'[i].flag = "none"
          /\ Edited(i)' <=> Edited(i)
          /\ Deleted(i)' <=> Deleted(i)
          /\ ~(Edited(i) /\ Deleted(i))
      BY <1>1, <1>4 DEF Edited, Deleted
    <2>5. Played(i)'
      <3>1. SUFFICES ASSUME NEW q \in Slot
                     PROVE  /\ \A e \in Queue(q)' : Sends(q, e)' /\ e.item = i =>
                                 IF playback'[q].phase = "deleted"
                                 THEN Deleted(i)'
                                 ELSE /\ Edited(i)' /\ e.v = last'[i].op
                                      /\ cache'[i].v = last'[i].op
                            /\ Taken(q, i)' =>
                                 IF playback'[q].phase = "deleted"
                                 THEN server'[i] = 0
                                 ELSE server'[i] = last'[i].op
                                        /\ last'[i].op \in done'
        BY DEF Played
      <3>2. CASE q = s
        BY <1>2, <3>2
      <3>3. CASE q # s
        <4>1. /\ playback'[q] = playback[q] /\ Queue(q)' = Queue(q)
              /\ Taken(q, i)' <=> Taken(q, i)
              /\ \A e : Sends(q, e)' <=> Sends(q, e)
          BY <1>1, <3>3, SameSlot
        <4> QED
          BY <1>1, <2>3, <2>4, <4>1 DEF Played
      <3> QED
        BY <3>2, <3>3
    <2> QED
      BY <1>1, <2>3, <2>4, <2>5 DEF Theirs, Held, KeptIn, Edited, Deleted
  <1> QED
    BY <1>3, <1>4

LEMMA PlaybackItemSafe ==
  ASSUME Typed, Typed', Faults = {}, NEW s \in Slot, PlaybackGoesOn(s),
         NEW i \in Item, Theirs(i)
  PROVE  Theirs(i)'
  <1>1. /\ TypeOK /\ cache \in [Item -> Row] /\ playback \in [Slot -> Playback]
        /\ known \in [Item -> Version]
        /\ playback[s] \in Playback /\ playback[s].phase \in Phase
        /\ playback[s].queue \in Seq(Entry) /\ Played(i)
    BY Fields, PlaybackUpdates DEF Typed, Theirs
  <1>2. CASE QueryItems(s)
    <2> DEFINE flagged == {j \in Item : cache[j].flag = playback[s].phase}
               entries == {[item |-> j, v |-> cache[j].v] : j \in flagged}
    <2>1. PICK q \in SetToSeqs(entries) :
            playback' = [playback EXCEPT ![s].pc = "queried", ![s].queue = q]
      BY <1>2 DEF QueryItems
    <2>2. /\ playback'[s].pc = "queried" /\ playback'[s].queue = q
          /\ playback'[s].phase = playback[s].phase
          /\ \A r \in Slot \ {s} : playback'[r] = playback[r]
      BY <1>1, <2>1, PlaybackType
    <2>3. \A k \in DOMAIN q : q[k] \in entries
      BY DEF SetToSeqs
    <2>4. ASSUME NEW e, e \in Queue(s)', Sends(s, e)', e.item = i
          PROVE  IF playback'[s].phase = "deleted" THEN Deleted(i)
                 ELSE Edited(i) /\ e.v = last[i].op /\ cache[i].v = last[i].op
      <3>1. e \in entries
        BY <2>2, <2>3, <2>4 DEF Queue
      <3>2. cache[i].flag = playback[s].phase /\ e.v = cache[i].v
        BY <2>4, <3>1
      <3> QED
        BY <1>1, <2>2, <3>2 DEF Theirs, Held, Phase
    <2>5. ~Taken(s, i) /\ ~Taken(s, i)'
      BY <1>2, <2>2 DEF QueryItems, Taken
    <2> QED
      BY <1>2, <2>2, <2>4, <2>5, SlotMoves DEF QueryItems
  <1>3. ASSUME PopItemQueue(s, Front(playback[s].queue)),
               playback[s].pc = "answer"
        PROVE  /\ \A r \in Slot \ {s} : playback'[r] = playback[r]
               /\ ~Taken(s, i)'
               /\ \A e : e \in Queue(s)' /\ Sends(s, e)' =>
                    /\ e \in Queue(s) /\ Sends(s, e)
                    /\ playback'[s].phase = playback[s].phase
    <2>1. playback[s].queue # <<>>
      BY <1>3 DEF Typed, Queues
    <2>2. /\ Front(playback[s].queue) \in Seq(Entry)
          /\ \A k \in DOMAIN Front(playback[s].queue) :
               /\ k \in DOMAIN playback[s].queue
               /\ Front(playback[s].queue)[k] = playback[s].queue[k]
      BY <1>1, <2>1, Ends
    <2>3. /\ \A r \in Slot \ {s} : playback'[r] = playback[r]
          /\ \/ playback'[s].pc \in {"none", "replay", "query"}
             \/ /\ playback'[s].pc = "send"
                /\ playback'[s].queue = Front(playback[s].queue)
                /\ playback'[s].phase = playback[s].phase
      BY <1>3, <2>2, Popping
    <2> QED
      BY <1>3, <2>2, <2>3 DEF Taken, Sends, Queue
  <1>4. CASE ItemsFound(s)
    <2>1. /\ \A r \in Slot \ {s} : playback'[r] = playback[r]
          /\ \/ playback'[s].pc \in {"none", "replay", "query"}
             \/ /\ playback'[s].pc = "send"
                /\ playback'[s].queue = playback[s].queue
                /\ playback'[s].phase = playback[s].phase
      BY <1>1, <1>4, Finishing, Popping DEF ItemsFound
    <2>2. /\ ~Taken(s, i) /\ ~Taken(s, i)'
          /\ \A e : e \in Queue(s)' /\ Sends(s, e)' =>
               /\ e \in Queue(s) /\ Sends(s, e)
               /\ playback'[s].phase = playback[s].phase
      BY <1>4, <2>1 DEF ItemsFound, Taken, Sends, Queue
    <2> QED
      BY <1>1, <1>4, <2>1, <2>2, SlotMoves DEF ItemsFound, Played
  <1>5. CASE ServerTakesItem(s)
    BY <1>5, TakeSafe
  <1>6. CASE ServerFailsItem(s)
    <2>1. /\ playback'[s].pc = "answer" /\ ~playback'[s].ok
          /\ playback'[s].queue = playback[s].queue
          /\ playback'[s].phase = playback[s].phase
          /\ \A r \in Slot \ {s} : playback'[r] = playback[r]
          /\ UNCHANGED <<cache, known, last, server, done>>
      BY <1>1, <1>6, PlaybackType DEF ServerFailsItem, Fails
    <2>2. /\ ~Taken(s, i) /\ ~Taken(s, i)'
          /\ \A e : e \in Queue(s)' /\ Sends(s, e)' =>
               e \in Queue(s) /\ Sends(s, e)
      BY <1>6, <2>1 DEF ServerFailsItem, Taken, Sends, Queue
    <2> QED
      BY <1>1, <2>1, <2>2, SlotMoves DEF Played
  <1>7. CASE ItemAnswered(s)
    <2>1. /\ playback[s].pc = "answer"
          /\ PopItemQueue(s, Front(playback[s].queue))
      BY <1>7 DEF ItemAnswered
    <2>2. CASE Taken(s, i)
      BY <1>3, <1>7, <2>1, <2>2, AnswerSafe
    <2>3. CASE ~Taken(s, i)
      <3> DEFINE c == Last(playback[s].queue)
      <3>1. /\ c.item \in Item /\ (playback[s].ok => c.item # i)
        <4>1. playback[s].queue # <<>>
          BY <2>1 DEF Typed, Queues
        <4> QED
          BY <1>1, <2>1, <2>3, <4>1, Ends DEF Taken, Entry
      <3>2. cache'[i] = cache[i] /\ known'[i] = known[i]
        <4>1. CASE ~playback[s].ok
          BY <1>7, <4>1 DEF ItemAnswered
        <4>2. CASE playback[s].ok
          BY <1>1, <1>7, <3>1, <4>2, Marks DEF ItemAnswered, Flag
        <4> QED
          BY <4>1, <4>2
      <3>3. /\ server'[i] = server[i] /\ last' = last /\ done \subseteq done'
        BY <1>7 DEF ItemAnswered
      <3>4. \A e : e \in Queue(s)' /\ Sends(s, e)' /\ e.item = i =>
              IF playback'[s].phase = "deleted" THEN Deleted(i)
              ELSE Edited(i) /\ e.v = last[i].op /\ cache[i].v = last[i].op
        BY <1>1, <1>3, <2>1 DEF Played
      <3> QED
        BY <1>3, <2>1, <2>3, <3>2, <3>3, <3>4, SlotMoves
    <2> QED
      BY <2>2, <2>3
  <1>8. CASE Replay(s)
    BY <1>8, ReplaySafe
  <1>9. CASE ReplayFails(s)
    <2>1. /\ playback'[s] = NoPlayback
          /\ \A r \in Slot \ {s} : playback'[r] = playback[r]
          /\ ~Taken(s, i) /\ ~Taken(s, i)' /\ \A e : ~Sends(s, e)'
      BY <1>1, <1>9 DEF ReplayFails, Taken, Sends, NoPlayback
    <2> QED
      BY <1>9, <2>1, SlotMoves DEF ReplayFails
  <1>10. CASE ProviderThrows(s)
    <2>1. /\ playback'[s] = NoPlayback
          /\ \A r \in Slot \ {s} : playback'[r] = playback[r]
          /\ ~Taken(s, i) /\ ~Taken(s, i)' /\ \A e : ~Sends(s, e)'
      BY <1>1, <1>10 DEF ProviderThrows, Taken, Sends, NoPlayback
    <2> QED
      BY <1>10, <2>1, SlotMoves DEF ProviderThrows
  <1> QED
    BY <1>2, <1>4, <1>5, <1>6, <1>7, <1>8, <1>9, <1>10 DEF PlaybackGoesOn

LEMMA PlaybackStepSafe ==
  ASSUME Typed, Typed', Inv, Faults = {}, NEW s \in Slot, PlaybackGoesOn(s)
  PROVE  Inv'
  <1>1. playback[s].pc # "none" /\ FreeSlots # Slot
    BY DEF PlaybackGoesOn, QueryItems, ItemsFound, ServerTakesItem,
           ServerFailsItem, ProviderThrows, ItemAnswered, Replay, ReplayFails,
           FreeSlots
  <1>2. call.pc = "none" /\ sync.pc \notin {"snapshot", "get", "renewed"}
    BY <1>1 DEF Inv, Exclusive, Quiet
  <1>3. call' = call /\ mode' = mode /\ remote' = remote /\ last' = last
        /\ budget'.op = budget.op
    BY TypesSplit
    DEF PlaybackGoesOn, QueryItems, ItemsFound, ServerTakesItem,
        ServerFailsItem, ProviderThrows, ItemAnswered, Replay, ReplayFails,
        Fails, Typed, Budget
  <1>4. sync' = sync \/ sync' = NoSync
        \/ sync' = [NoSync EXCEPT !.pc = "stuck"]
    BY DEF PlaybackGoesOn, QueryItems, ItemsFound, ServerTakesItem,
           ServerFailsItem, ProviderThrows, ItemAnswered, Replay, ReplayFails,
           PopItemQueue, Finish
  <1>5. Exclusive'
    BY <1>2, <1>3, <1>4 DEF Inv, Exclusive, NoSync
  <1>6. Later'
    BY <1>2, <1>3 DEF Inv, Later
  <1>7. ASSUME NEW i \in Item \ remote PROVE ItemInv(i)'
    <2>1. Theirs(i)
      BY <1>2, <1>7, OnlyPlaybacks DEF Inv
    <2>2. Theirs(i)'
      BY <2>1, PlaybackItemSafe
    <2> QED
      BY <1>2, <1>3, <1>4, <2>2, OnlyPlaybacks DEF NoSync
  <1> QED
    BY <1>3, <1>5, <1>6, <1>7 DEF Inv

(***************************************************************************)
(* A synchronisation goes on; no call and no playback is in progress.      *)
(***************************************************************************)
LEMMA SlotStarts ==
  ASSUME Typed, FreeSlots = Slot, NEW i \in Item,
         \/ playback' = playback
         \/ \E then : \E s \in Slot :
              playback' = [playback EXCEPT ![s] = Started(then)]
  PROVE  /\ Played(i) /\ Played(i)'
         /\ \A s \in Slot : ~Taken(s, i) /\ ~Taken(s, i)'
  <1>1. playback \in [Slot -> Playback]
    BY Fields DEF Typed
  <1>2. \A s \in Slot : /\ playback[s].pc = "none"
                        /\ playback'[s].pc \in {"none", "query"}
    BY <1>1 DEF FreeSlots, Started, NoPlayback
  <1> QED
    BY <1>2 DEF Played, Taken, Sends

LEMMA SyncItemSafe ==
  ASSUME Typed, Typed', Faults = {}, SyncGoesOn, FreeSlots = Slot,
         call.pc = "none", NEW i \in Item, ItemInv(i)
  PROVE  ItemInv(i)'
  <1>1. /\ TypeOK /\ cache \in [Item -> Row] /\ cache[i] \in Row
        /\ cache[i].flag \in Flag /\ sync \in Syncing
        /\ server[i] \in Nat /\ last[i].op \in Nat
    BY Fields DEF Typed
  <1>2. call' = call /\ server' = server /\ done' = done
    BY DEF SyncGoesOn, SyncSnapshot, SyncGets, SyncGetFails, SyncCompletes
  <1>3. /\ ~Marking(i) /\ ~CallTaken(i) /\ ~Modifying(i)
        /\ ~Marking(i)' /\ ~CallTaken(i)' /\ ~Modifying(i)' /\ Called(i)'
    BY <1>2 DEF Marking, CallTaken, Modifying, Called
  <1>4. /\ Played(i)'
        /\ \A s \in Slot : ~Taken(s, i) /\ ~Taken(s, i)'
    <2>1. \/ playback' = playback
          \/ \E then : \E s \in Slot :
               playback' = [playback EXCEPT ![s] = Started(then)]
      BY DEF SyncGoesOn, SyncSnapshot, SyncGets, SyncGetFails, SyncCompletes,
             FreeSlots
    <2> QED
      BY <2>1, SlotStarts
  <1>5. /\ Held(cache[i], i) /\ known[i] = server[i]
        /\ cache[i].flag = "created" => server[i] = 0
        /\ cache[i].flag = "none" => cache[i].v = known[i]
        /\ Saved(i) /\ KeptIn(i, Rows(i))
    BY <1>3, <1>4 DEF ItemInv, Flags, Copies
  <1>6. CASE SyncSnapshot
    <2>1. /\ UNCHANGED <<cache, known, last>> /\ sync'.pc = "get"
          /\ sync'.saved[i] = IF cache[i].flag = "none" THEN NoRow ELSE cache[i]
          /\ sync.pc = "snapshot"
      BY <1>6 DEF SyncSnapshot
    <2>2. Rows(i) = {cache[i]} /\ Rows(i)' = {cache[i]}
      BY <2>1 DEF Rows
    <2>3. KeptIn(i, Rows(i))'
      BY <1>2, <1>5, <2>1, <2>2 DEF KeptIn
    <2> QED
      BY <1>2, <1>3, <1>4, <1>5, <2>1, <2>3
      DEF ItemInv, Flags, Copies, Saved, Held, Edited, Deleted
  <1>7. CASE SyncGets
    <2>1. /\ last' = last /\ sync'.pc = "renewed" /\ sync.pc = "get"
          /\ sync'.saved = sync.saved
          /\ cache'[i] = [v |-> server[i], flag |-> "none"]
          /\ known'[i] = server[i]
      BY <1>1, <1>7 DEF SyncGets, Syncing
    <2>2. sync.saved[i] = IF cache[i].flag = "none" THEN NoRow ELSE cache[i]
      BY <1>5, <2>1 DEF Saved
    <2>3. /\ Held(sync.saved[i], i)'
          /\ sync.saved[i].flag = "created" => server[i] = 0
      BY <1>5, <2>1, <2>2 DEF Held, NoRow, Edited, Deleted
    <2>4. Rows(i) = {cache[i]} /\ sync'.saved[i] \in Rows(i)'
      BY <2>1 DEF Rows
    <2>5. KeptIn(i, Rows(i))'
      <3>1. cache[i].flag # "none" => cache[i] \in Rows(i)'
        BY <2>1, <2>2, <2>4
      <3> QED
        BY <1>2, <1>5, <2>1, <2>4, <3>1 DEF KeptIn
    <2>6. Held(cache[i], i)'
      BY <2>1 DEF Held
    <2> QED
      BY <1>2, <1>3, <1>4, <2>1, <2>3, <2>5, <2>6
      DEF ItemInv, Flags, Copies, Saved
  <1>8. CASE SyncGetFails
    <2>1. /\ UNCHANGED <<cache, known, last>> /\ sync'.pc = "none"
          /\ sync.pc = "get"
      BY <1>8 DEF SyncGetFails, NoSync
    <2>2. Rows(i) = {cache[i]} /\ Rows(i)' = {cache[i]}
      BY <2>1 DEF Rows
    <2>3. KeptIn(i, Rows(i))'
      BY <1>2, <1>5, <2>1, <2>2 DEF KeptIn
    <2> QED
      BY <1>2, <1>3, <1>4, <1>5, <2>1, <2>3
      DEF ItemInv, Flags, Copies, Saved, Held, Edited, Deleted
  <1>9. CASE SyncCompletes
    <2> DEFINE row == sync.saved[i]
    <2>1. /\ sync'.pc = "playing" /\ sync.pc = "renewed" /\ known' = known
          /\ row \in Row /\ row.flag \in Flag
      BY <1>1, <1>9 DEF SyncCompletes, Syncing, Row, NoSync
    <2>2. \/ cache'[i] = cache[i] /\ last'[i] = [op |-> 0, kind |-> "add"]
          \/ cache'[i] = PutBack(i, row) /\ last'[i] = last[i]
      BY <1>9 DEF SyncCompletes
    <2>3. /\ cache[i] = [v |-> server[i], flag |-> "none"]
          /\ Held(row, i) /\ (row.flag = "created" => server[i] = 0)
          /\ Rows(i) = {cache[i], row}
      BY <1>5, <2>1 DEF Saved, Rows
    <2>4. Rows(i)' = {cache'[i]}
      BY <2>1 DEF Rows
    <2>5. CASE cache'[i] = cache[i] /\ last'[i] = [op |-> 0, kind |-> "add"]
      <3>1. KeptIn(i, Rows(i))' /\ Held(cache[i], i)'
        BY <2>3, <2>5 DEF KeptIn, Held
      <3> QED
        BY <1>2, <1>3, <1>4, <1>5, <2>1, <2>3, <2>5, <3>1
        DEF ItemInv, Flags, Copies, Saved
    <2>6. CASE cache'[i] = PutBack(i, row) /\ last'[i] = last[i]
      <3>1. /\ Edited(i)' <=> Edited(i)
            /\ Deleted(i)' <=> Deleted(i)
        BY <2>6 DEF Edited, Deleted
      <3>2. /\ row.flag = "none" => cache'[i] = cache[i]
            /\ row.flag = "created" => cache'[i] = row
            /\ row.flag = "modified" =>
                 /\ cache'[i].v = row.v
                 /\ cache'[i].flag = IF server[i] = 0 THEN "created"
                                     ELSE "modified"
        BY <2>3, <2>6 DEF PutBack
      <3>3. row.flag = "deleted" =>
              IF server[i] = 0 THEN cache'[i] = cache[i]
              ELSE cache'[i].flag = "deleted" /\ cache'[i].v = server[i]
        <4>1. SUFFICES ASSUME row.flag = "deleted"
                       PROVE  IF server[i] = 0 THEN cache'[i] = cache[i]
                              ELSE /\ cache'[i].flag = "deleted"
                                   /\ cache'[i].v = server[i]
          OBVIOUS
        <4>2. cache'[i] = WithFlag(i, "deleted")[i]
          BY <2>6, <4>1 DEF PutBack
        <4>3. cache'[i] = IF cache[i].v # 0
                          THEN [cache[i] EXCEPT !.flag = "deleted"]
                          ELSE cache[i]
          BY <1>1, <4>2, Marks DEF Flag
        <4> QED
          BY <2>3, <4>3
      <3>4. /\ Held(cache[i], i)'
            /\ cache'[i].flag = "created" => server[i] = 0
            /\ cache'[i].flag = "none" => cache'[i].v = known[i]
        BY <1>1, <1>5, <2>1, <2>3, <2>6, <3>1, <3>2, <3>3 DEF Held, Flag
      <3>5. KeptIn(i, Rows(i))'
        <4>1. KeptIn(i, {cache[i], row})
          BY <1>5, <2>3
        <4>2. /\ row.flag = "deleted" =>
                   server[i] = 0 \/ cache'[i].flag = "deleted"
              /\ row.flag \in {"created", "modified"} =>
                   cache'[i].flag \in {"created", "modified"}
                     /\ cache'[i].v = row.v
          BY <3>2, <3>3
        <4> QED
          BY <1>2, <2>3, <2>4, <2>6, <4>1, <4>2 DEF KeptIn
      <3> QED
        BY <1>2, <1>3, <1>4, <1>5, <2>1, <3>4, <3>5
        DEF ItemInv, Flags, Copies, Saved
    <2> QED
      BY <2>2, <2>5, <2>6
  <1> QED
    BY <1>6, <1>7, <1>8, <1>9 DEF SyncGoesOn

LEMMA SyncSafe ==
  ASSUME Typed, Typed', Inv, Faults = {}, SyncGoesOn
  PROVE  Inv'
  <1>1. sync.pc \in {"snapshot", "get", "renewed"}
    BY DEF SyncGoesOn, SyncSnapshot, SyncGets, SyncGetFails, SyncCompletes
  <1>2. FreeSlots = Slot /\ call.pc = "none" /\ mode = "full"
    BY <1>1 DEF Inv, Exclusive, Quiet
  <1>3. /\ call' = call /\ mode' = mode /\ remote' = remote
        /\ sync'.pc \in {"get", "renewed"} => playback' = playback
        /\ sync'.pc # "snapshot"
    <2>1. sync \in Syncing
      BY Fields DEF Typed
    <2>2. CASE SyncGets
      BY <2>1, <2>2 DEF SyncGets, Syncing
    <2>3. CASE SyncSnapshot \/ SyncGetFails \/ SyncCompletes
      BY <2>3 DEF SyncSnapshot, SyncGetFails, SyncCompletes, NoSync
    <2> QED
      BY <2>2, <2>3 DEF SyncGoesOn
  <1>4. Exclusive'
    BY <1>2, <1>3 DEF Exclusive, FreeSlots
  <1>5. Later'
    <2>1. budget'.op = budget.op
      BY TypesSplit
      DEF SyncGoesOn, SyncSnapshot, SyncGets, SyncGetFails, SyncCompletes,
          Typed, Budget
    <2>2. /\ \A i \in Item : last'[i] = last[i] \/ last'[i].op = 0
          /\ budget.op \in Nat
      BY Fields
      DEF SyncGoesOn, SyncSnapshot, SyncGets, SyncGetFails, SyncCompletes, Typed
    <2> QED
      BY <1>2, <1>3, <2>1, <2>2 DEF Inv, Later
  <1>6. ASSUME NEW i \in Item \ remote PROVE ItemInv(i)'
    BY <1>2, <1>6, SyncItemSafe DEF Inv
  <1> QED
    BY <1>3, <1>4, <1>5, <1>6 DEF Inv

(***************************************************************************)
(* The rest of the world.                                                  *)
(***************************************************************************)
LEMMA RefreshSafe ==
  ASSUME Typed, Typed', Inv, Faults = {}, Refresh \/ GoOnline
  PROVE  Inv'
  <1>1. /\ StartRefresh /\ call.pc = "none"
        /\ UNCHANGED <<mode, cache, server, known, call, last, done, remote,
                       budget>>
    BY DEF Refresh, GoOnline, StartRefresh
  <1>2. /\ TypeOK /\ playback \in [Slot -> Playback]
        /\ mode \in {"changelog", "full"}
    BY Fields, TypesSplit, KindsAssumption DEF Typed
  <1>3. Later'
    BY <1>1 DEF Inv, Later
  <1>4. CASE mode = "changelog"
    <2>1. PICK s \in FreeSlots :
            playback' = [playback EXCEPT ![s] = Started("refresh")]
      BY <1>1, <1>4 DEF StartRefresh
    <2>2. sync' = sync /\ SyncRests /\ s \in Slot
      BY <1>1, <1>4, <2>1 DEF StartRefresh, Inv, Exclusive, FreeSlots
    <2>3. Exclusive'
      BY <1>1, <2>2 DEF Exclusive
    <2>4. ASSUME NEW i \in Item \ remote PROVE ItemInv(i)'
      <3>1. Theirs(i)
        BY <1>1, <2>2, <2>4, OnlyPlaybacks DEF Inv
      <3>2. /\ ~Taken(s, i) /\ ~Taken(s, i)' /\ \A e : ~Sends(s, e)'
            /\ \A r \in Slot \ {s} : playback'[r] = playback[r]
        BY <1>2, <2>1, <2>2 DEF FreeSlots, Taken, Sends, Started, NoPlayback
      <3>3. Theirs(i)'
        BY <1>1, <2>2, <3>1, <3>2, SlotMoves
      <3> QED
        BY <1>1, <2>2, <3>3, OnlyPlaybacks
    <2> QED
      BY <1>1, <1>3, <2>3, <2>4 DEF Inv
  <1>5. CASE mode = "full"
    <2>1. /\ playback' = playback
          /\ \/ sync' = sync
             \/ /\ sync.pc = "none" /\ sync'.pc = "snapshot"
                /\ FreeSlots = Slot
      BY <1>1, <1>5 DEF StartRefresh, NoSync
    <2>2. Exclusive'
      BY <1>1, <1>5, <2>1 DEF Inv, Exclusive, FreeSlots
    <2>3. ASSUME NEW i \in Item \ remote PROVE ItemInv(i)'
      <3>1. CASE sync' = sync
        BY <1>1, <2>1, <2>3, <3>1, Untouched DEF Inv
      <3>2. CASE sync' # sync
        <4>1. Theirs(i)
          BY <1>1, <2>1, <2>3, <3>2, OnlyPlaybacks DEF Inv
        <4>2. \A r \in Slot : /\ Taken(r, i)' <=> Taken(r, i)
                              /\ Queue(r)' = Queue(r)
                              /\ \A e : Sends(r, e)' <=> Sends(r, e)
          BY <2>1, SameSlot
        <4>3. Theirs(i)'
          BY <1>1, <2>1, <4>1, <4>2
          DEF Theirs, Played, Held, Edited, Deleted, KeptIn
        <4> QED
          BY <1>1, <2>1, <3>2, <4>3, OnlyPlaybacks
      <3> QED
        BY <3>1, <3>2
    <2> QED
      BY <1>1, <1>3, <2>2, <2>3 DEF Inv
  <1> QED
    BY <1>2, <1>4, <1>5

LEMMA WorldSafe ==
  ASSUME Typed, Typed', Inv, Faults = {},
         GoOffline \/ RemoteWrites \/ UNCHANGED vars
  PROVE  Inv'
  <1>1. /\ UNCHANGED <<mode, cache, known, call, playback, sync, last, done>>
        /\ budget'.op = budget.op /\ remote \subseteq remote'
        /\ \A i \in Item \ remote' : server'[i] = server[i]
    BY TypesSplit DEF GoOffline, RemoteWrites, vars, Typed, Budget
  <1>2. Exclusive' /\ Later'
    BY <1>1 DEF Inv, Exclusive, Later, Quiet, FreeSlots
  <1>3. ASSUME NEW i \in Item \ remote' PROVE ItemInv(i)'
    BY <1>1, <1>3, Untouched DEF Inv
  <1> QED
    BY <1>2, <1>3 DEF Inv

LEMMA CrashSafe ==
  ASSUME Typed, Typed', Inv, Faults = {}, Crash
  PROVE  Inv'
  <1>1. /\ UNCHANGED <<mode, cache, known, server, last, done, remote>>
        /\ call'.pc = "none" /\ sync'.pc = "none" /\ budget'.op = budget.op
        /\ \A s \in Slot : playback'[s].pc = "none"
        /\ ~Exposed
    BY TypesSplit DEF Crash, NoCall, NoSync, NoPlayback, Typed, Budget
  <1>2. Exclusive' /\ Later' /\ Quiet'
    BY <1>1 DEF Inv, Exclusive, Later, Quiet, FreeSlots
  <1>3. ASSUME NEW i \in Item \ remote PROVE ItemInv(i)'
    <2>1. /\ ~CallTaken(i) /\ ~Marking(i) /\ ~Modifying(i)
          /\ \A s \in Slot : ~Taken(s, i)
          /\ Rows(i) = {cache[i]}
      BY <1>1 DEF Exposed, CallTaken, Marking, Modifying, Taken, Rows
    <2>2. /\ Held(cache[i], i) /\ (cache[i].flag = "created" => server[i] = 0)
          /\ known[i] = server[i] /\ (cache[i].flag = "none" => cache[i].v = known[i])
          /\ KeptIn(i, {cache[i]})
      BY <1>3, <2>1 DEF Inv, ItemInv, Flags, Copies
    <2>3. Called(i)'
      BY <1>1 DEF Called
    <2>4. Mine(i)'
      BY <1>1, <2>2, <2>3 DEF Mine, Held, Edited, Deleted, KeptIn
    <2> QED
      BY <1>2, <2>4, OnlyCall
  <1> QED
    BY <1>1, <1>2, <1>3 DEF Inv

LEMMA InitSafe == Init => Inv
  <1> SUFFICES ASSUME Init PROVE Inv
    OBVIOUS
  <1>1. /\ call.pc = "none" /\ sync.pc = "none" /\ budget.op = 0
        /\ \A s \in Slot : playback[s].pc = "none"
        /\ \A i \in Item : /\ cache[i].v = 0 /\ cache[i].flag = "none"
                           /\ server[i] = 0 /\ known[i] = 0 /\ last[i].op = 0
    BY DEF Init, NoCall, NoSync, NoPlayback, NoRow
  <1>2. Exclusive /\ Later /\ Quiet
    BY <1>1 DEF Exclusive, Later, Quiet, FreeSlots
  <1>3. ASSUME NEW i \in Item PROVE ItemInv(i)
    <2>1. Mine(i)
      BY <1>1 DEF Mine, Held, Called, KeptIn
    <2> QED
      BY <1>2, <2>1, OnlyCall
  <1> QED
    BY <1>2, <1>3 DEF Inv

(***************************************************************************)
(* Without the faults - no call while a playback or a synchronisation      *)
(* runs, no answer lost, no crash between the effect of a request and its  *)
(* record in the cache, no synchronisation during a playback - a change    *)
(* that was reported a success reaches the server or keeps its flag, and   *)
(* what the cache shows without a flag is what the server was last known   *)
(* to have (adoptItem, modifyItem, deleteItem, playbackOfflineItems,       *)
(* synchronize), whatever the server refuses and whenever the program goes *)
(* offline or is ended.                                                    *)
(***************************************************************************)
THEOREM CacheIsSafe ==
  ASSUME Faults = {}
  PROVE  Spec => [](ChangesKept /\ CacheIsCopy)
  <1>1. Init => Typed /\ Inv
    BY InitTypes, InitSafe
  <1>2. Typed /\ Inv /\ [Next]_vars => (Typed /\ Inv)'
    <2> SUFFICES ASSUME Typed, Inv, [Next]_vars PROVE (Typed /\ Inv)'
      OBVIOUS
    <2>1. Typed'
      BY StepTypes
    <2>2. Inv'
      BY <2>1, CallSafe, CallStepSafe, PlaybackStepSafe, SyncSafe, RefreshSafe,
         WorldSafe, CrashSafe
      DEF Next
    <2> QED
      BY <2>1, <2>2
  <1>3. Typed /\ Inv => ChangesKept /\ CacheIsCopy
    <2> SUFFICES ASSUME Typed, Inv PROVE ChangesKept /\ CacheIsCopy
      OBVIOUS
    <2>1. ChangesKept
      BY DEF Inv, ItemInv, KeptIn, ChangesKept
    <2>2. CacheIsCopy
      BY OnlyCall DEF Inv, Mine, Marking, Modifying, CacheIsCopy
    <2> QED
      BY <2>1, <2>2
  <1> QED
    BY <1>1, <1>2, <1>3, PTL DEF Spec

(***************************************************************************)
(* Without the faults, what the cache shows without a flag is what the     *)
(* server was last known to have.                                          *)
(***************************************************************************)
THEOREM CacheIsTrue ==
  ASSUME Faults = {}
  PROVE  Spec => []CacheIsCopy
  BY CacheIsSafe, PTL
=============================================================================
